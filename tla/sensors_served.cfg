SPECIFICATION Spec
CONSTANTS
    Cells = {c1, c2}
    NULL = NULL
    Pids = {p, q}
    Intervals = {1, 2}
    MaxRegisters = 3
PROPERTIES ServedAgain HandlersEnd
CHECK_DEADLOCK FALSE
