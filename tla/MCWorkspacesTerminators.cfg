SPECIFICATION Spec
CONSTANTS
    Types <- TermTypes
    Budgets <- DeleteBudgets
PROPERTIES TerminatorsRun
CHECK_DEADLOCK FALSE
