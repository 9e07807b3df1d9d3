SPECIFICATION Spec
CONSTANTS
    LastSeq = 2
    Daemons = {d1, d2}
    RetryCount = 0
    MaxReruns = 0
    MaxKills = 0
INVARIANT ExecutedOnlyOnce
CHECK_DEADLOCK FALSE
