SPECIFICATION FairSpec
CONSTANTS
    Readers = {r1}
    Writers = {w1, w2}
    PIPESIZE = 2
    Wrap = 4
    Msgs <- ShortAndLong
    Counts = {1, 2}
CHECK_DEADLOCK FALSE
INVARIANTS SleepJustified
PROPERTIES IsFifo ClosedEnds
