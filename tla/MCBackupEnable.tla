--------------------------- MODULE MCBackupEnable ---------------------------
(* Instances of BackupEnable: the first two numbers are of one task, as when the *)
(* service sends a command again.                                                *)
EXTENDS BackupEnable

CONSTANTS t1, t2

TwoTasks     == {t1, t2}
RepeatedTask == <<t1, t1, t2>>
==============================================================================
