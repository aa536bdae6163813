SPECIFICATION Spec
CONSTANTS
    Node = {n1, n2}
    Proc = {p1, p2}
    NoProc = NoProc
    Configs <- AllConfigs
    MaxActivations = 2
    MaxFaults = 1
    MaxRestarts = 1
    Loss = FALSE
    Windows = FALSE
INVARIANTS
    TypeOK
    AtMostOneActive
    SomeoneOwes
SYMMETRY Symmetry
