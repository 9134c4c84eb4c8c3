SPECIFICATION FairSpec
CONSTANTS
    Types <- MCTypes
    Budgets <- MCBudgets
INVARIANTS ReadyMeansInitialized CommitsOneHalf NoOrphan
PROPERTIES FinalizerHolds WorkspaceBecomesReady DeletedWorkspaceGoes InactiveSettles
CHECK_DEADLOCK FALSE
