SPECIFICATION Spec
CONSTANTS
    Stacks = {1, 2, 3}
    Main = main
    Null = null
    MaxCreate = 3
    Fit <- FirstFit
INVARIANT ExitedStaysOut
CHECK_DEADLOCK FALSE
