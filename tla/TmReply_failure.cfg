\* A failure route that may add a branch or reply; branch 1 is a minor one.
\* With fairness; unlocked tests and writes are separate steps.
CONSTANTS
    Workers = {w1, w2}
    Timer = timer
    None = none
    MaxBranches = 2
    Minor = {1}
    Invite = TRUE
    Multi200 = {FALSE}
    Block6xx = TRUE
    FailureRoute = TRUE
    ScriptCodes = {500}
    Codes = {180, 200, 486}
    MaxMsgs = 2
    SendFails = FALSE
    FineCancel = TRUE
SPECIFICATION FairSpec
INVARIANTS NotForgotten
PROPERTIES EventuallyOnWait
