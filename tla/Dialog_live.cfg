\* One dialog and one worker: liveness.
CONSTANTS
    Workers = {w1}
    Timer = timer
    FlagSets <- AllFlags
    DelDelays = {FALSE}
    MaxMsgs = 3
    LateAnswer = FALSE
    Windows = FALSE
SPECIFICATION Spec
PROPERTIES EventuallyDestroyed
