\* INVITE forked to two branches; CANCEL, ACK, FR timeouts and failing sends;
\* with and without T_MULTI_200OK_FLAG.
CONSTANTS
    Workers = {w1, w2}
    Timer = timer
    None = none
    MaxBranches = 2
    Minor = {}
    Invite = TRUE
    Multi200 = {TRUE, FALSE}
    Block6xx = TRUE
    FailureRoute = FALSE
    ScriptCodes = {}
    Codes = {180, 200, 603}
    MaxMsgs = 3
    SendFails = TRUE
    FineCancel = FALSE
SPECIFICATION Spec
SYMMETRY WorkerSymmetry
INVARIANTS TypeOK OneFinal PickedReplyStored  RingingSelected No2xxLost
PROPERTIES BestNegativeRelayed
