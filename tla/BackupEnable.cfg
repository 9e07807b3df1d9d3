SPECIFICATION Spec
CONSTANTS
    t1 = t1
    t2 = t2
    LastSeq = 3
    Tasks <- TwoTasks
    TaskOf <- RepeatedTask
    NoTask = NoTask
    Daemons = {d1, d2}
    UseEnv = TRUE
    MaxReruns = 1
    MaxKills = 1
INVARIANTS TypeOK OneDaemonPerTask SnapshotOnce SkipIsJustified
PROPERTY TaskSpec
CHECK_DEADLOCK FALSE
