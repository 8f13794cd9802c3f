SPECIFICATION Spec
CONSTANTS
    Free = Free
    MaxReq = 1
    Timeout = 1
    PoolSize = 2
    N = 2
    Size <- Sizes
    MaxMessages = 0
    MaxAnswers <- Ones
    MaxFailures = 1
PROPERTIES HandlersAreCalled
CHECK_DEADLOCK FALSE
