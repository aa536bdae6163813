\* One dialog, two workers, with and without a delay on deletion.
CONSTANTS
    Workers = {w1, w2}
    Timer = timer
    FlagSets <- AllFlags
    DelDelays = {FALSE, TRUE}
    MaxMsgs = 3
    LateAnswer = FALSE
    Windows = FALSE
SPECIFICATION Spec
SYMMETRY WorkerSymmetry
INVARIANTS TypeOK RefExact NoUseAfterFree NoImmortal
