SPECIFICATION LiveSpec
CONSTANTS
    t1 = t1
    t2 = t2
    LastSeq = 3
    Tasks <- TwoTasks
    TaskOf <- RepeatedTask
    NoTask = NoTask
    Daemons = {d1, d2}
    UseEnv = TRUE
    MaxReruns = 0
    MaxKills = 1
PROPERTIES CommandsSettle FinalReport
CHECK_DEADLOCK FALSE
