SPECIFICATION Spec
CONSTANTS
    Free = Free
    MaxReq = 2
    Timeout = 1
    PoolSize = 2
    N = 2
    Size <- Ones
    MaxMessages = 1
    MaxAnswers <- Answers
    MaxFailures = 0
INVARIANTS TypeOK WorkOnce NothingStranded OneWaits 
PROPERTIES OutcomesSpec
CHECK_DEADLOCK FALSE
