\* One transaction over UDP, INVITE or not, two workers: liveness, and the timers
\* of a freed cell.
CONSTANTS
    Cells = {c1, c2}
    Workers = {w1, w2}
    Timer = timer
    None = none
    InviteCells = {c1}
    MaxTrans = 1
    Udp = TRUE
    RestartFr = FALSE
    Codes = {180, 486}
    ScriptCodes = {200}
    MaxMsgs = 1
    DeleteWindow = FALSE
SPECIFICATION FairSpec
 
PROPERTIES EventuallyFreed
