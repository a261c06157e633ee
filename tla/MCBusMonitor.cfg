CONSTANTS
    p = p
    Paths <- OneItem
    MaxLives = 2
    MaxWrites = 4
    MaxCalls = 1
SPECIFICATION Spec
INVARIANT Converged ReadYourWrites
PROPERTY NeverBackwards
CHECK_DEADLOCK FALSE
