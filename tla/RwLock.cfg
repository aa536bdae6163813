\* Three processes, with fairness.
CONSTANTS
    Users = {p1, p2, p3}
    None = none
SPECIFICATION RwFairSpec
INVARIANTS RwTypeOK RCountExact WriterAlone SwitchableSerial
PROPERTIES WriterGetsIn SwitchGetsIn
