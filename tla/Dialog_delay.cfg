\* One dialog, two workers, with a delay on deletion.
CONSTANTS
    Workers = {w1, w2}
    Timer = timer
    FlagSets <- NoFlags
    DelDelays = {TRUE}
    MaxMsgs = 3
    LateAnswer = FALSE
    Windows = FALSE
SPECIFICATION Spec
SYMMETRY WorkerSymmetry
INVARIANTS NotForgotten
