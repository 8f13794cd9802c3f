SPECIFICATION Spec
CONSTANTS
    Cells = {c1, c2, c3}
    NULL = NULL
    Pids = {p, q}
    Intervals = {1, 2}
    MaxRegisters = 3
INVARIANTS TypeOK ListIsWhole PointersAreGood EarliestFirst 
 
CHECK_DEADLOCK FALSE
