SPECIFICATION Spec
CONSTANTS
    LastSeq = 2
    Daemons = {d1, d2}
    RetryCount = 1
    MaxReruns = 2
    MaxKills = 1
INVARIANTS TypeOK RunsOnce SuccessIsTrue StatusSettles
PROPERTY LedgerSpec
CHECK_DEADLOCK FALSE
