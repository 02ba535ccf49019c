\* Two processes asleep while ticks wraps at four.
SPECIFICATION ShSpec
CONSTANTS
    Sleepers = {r1, r2}
    WIDTH = 4
    MaxLag = 1
    MaxNeg = 1
    r1 = r1
    r2 = r2
    w1 = w1
    a = a
    None = None
CHECK_DEADLOCK FALSE
INVARIANTS
    ForegroundDone
    HeapRight
    SleepsRight
PROPERTIES
    PromptAgain
    CallsEnd
