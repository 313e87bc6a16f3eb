SPECIFICATION Spec
CONSTANTS
    Workers = {w1, w2}
    NumKeys = 2
    KeySets = {{1}, {1, 2}}
    TableKeys = 1
    Trigger <- MCTrigger
    MaxL0 = 3
    MaxLevels = 4
    MaxTables = 4
    MaxFailures = 1
    MaxFaults = 1
    Faults = {"send_error"}
INVARIANTS ReadsKept DeadDataCovered JobsOwnTheirTables L0Bounded NothingLeftToDo
SYMMETRY Symmetry
CHECK_DEADLOCK FALSE
