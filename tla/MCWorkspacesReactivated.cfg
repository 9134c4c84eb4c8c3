SPECIFICATION FairSpec
CONSTANTS
    Types <- TermTypes
    Budgets <- DeleteInactiveBudgets
PROPERTIES CancelledUntilReactivated
CHECK_DEADLOCK FALSE
