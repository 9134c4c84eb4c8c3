-------------------------- MODULE MCContextManager --------------------------
EXTENDS ContextManager

=============================================================================
