SPECIFICATION Spec
CONSTANTS
    Free = Free
    MaxReq = 1
    Timeout = 1
    PoolSize = 2
    N = 1
    Size <- Ones
    MaxMessages = 0
    MaxAnswers <- Ones
    MaxFailures = 0
PROPERTIES NotDeletedInUse
CHECK_DEADLOCK FALSE
