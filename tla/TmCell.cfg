\* INVITE over UDP, one cell, two workers.
CONSTANTS
    Cells = {c1}
    Workers = {w1, w2}
    Timer = timer
    None = none
    InviteCells = {c1}
    MaxTrans = 1
    Udp = TRUE
    RestartFr = FALSE
    Codes = {180, 200}
    ScriptCodes = {200}
    MaxMsgs = 2
    DeleteWindow = TRUE
SPECIFICATION Spec
SYMMETRY WorkerSymmetry
INVARIANTS TypeOK RefCountExact NoUseAfterFree DeletedOnce NoOrphan
