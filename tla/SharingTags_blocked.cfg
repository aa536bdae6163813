SPECIFICATION Spec
CONSTANTS
    Node = {n1, n2}
    Proc = {p1, p2}
    NoProc = NoProc
    Configs <- AllConfigs
    MaxActivations = 1
    MaxFaults = 1
    MaxRestarts = 0
    Loss = FALSE
    Windows = FALSE
INVARIANTS
    BroadcastReaches
SYMMETRY Symmetry
