SPECIFICATION Spec
CONSTANTS
    Node = {n1, n2}
    Statements <- MCStatements
    Initially <- MCInitially
    MaxCommands = 4
    MaxFailures = 1
    BatchSize = 10
    Faults = {}
    ProcessorsOf <- MCProcessorsOf
SYMMETRY MCSymmetry
INVARIANTS  WiringSound  DeletedDataReclaimed IdsUnique
CHECK_DEADLOCK FALSE
