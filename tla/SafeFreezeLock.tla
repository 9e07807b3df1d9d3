--------------------------- MODULE SafeFreezeLock ---------------------------
(***************************************************************************)
(* The lock file by which the backup daemons try to keep each other from   *)
(* freezing at the same time                                               *)
(* (/etc/azure/MicrosoftRecoverySvcsSafeFreezeLock/SafeFreezeLockFile;     *)
(* freeze_safe and releaseFileLock of src/VMBackup/main/fsfreezer.py).     *)
(*                                                                         *)
(* fcntl.lockf locks the inode a descriptor refers to.  The name of the    *)
(* file and the inode are different things: os.remove takes the name away  *)
(* and leaves descriptors, and locks, on the nameless inode.               *)
(***************************************************************************)
EXTENDS Integers, FiniteSets

CONSTANTS
  Lockers,   \* the processes
  Inodes,    \* the inodes the lock file can be created on
  NoFile     \* no inode: the name is free, the descriptor is closed

VARIABLES
  lockPath,  \* the inode the lock file's name refers to
  fd,        \* fd[p]: the inode p's safeFreezelockFile refers to
  locked     \* locked[p]: p holds the lock on the inode fd[p]

lockVars == <<lockPath, fd, locked>>

LockInit ==
  /\ lockPath = NoFile
  /\ fd = [p \in Lockers |-> NoFile]
  /\ locked = [p \in Lockers |-> FALSE]

FreeInodes == {i \in Inodes : i # lockPath /\ \A p \in Lockers : fd[p] # i}

(* open(name, "w"): the file is created when the name is free. *)
OpenLock(p) ==
  /\ lockPath = NoFile => FreeInodes # {}
  /\ LET i == IF lockPath = NoFile THEN CHOOSE j \in FreeInodes : TRUE ELSE lockPath
     IN /\ lockPath' = i
        /\ fd' = [fd EXCEPT ![p] = i]
  /\ locked' = [locked EXCEPT ![p] = FALSE]

(* Some other process holds the lock on p's inode. *)
LockBusy(p) == \E q \in Lockers \ {p} : locked[q] /\ fd[q] = fd[p]

(* lockf(LOCK_EX | LOCK_NB) succeeds. *)
TakeLock(p) ==
  /\ fd[p] # NoFile
  /\ ~LockBusy(p)
  /\ locked' = [locked EXCEPT ![p] = TRUE]
  /\ UNCHANGED <<lockPath, fd>>

(* The descriptor is closed, by close() or by the end of the process. *)
CloseLock(p) ==
  /\ fd' = [fd EXCEPT ![p] = NoFile]
  /\ locked' = [locked EXCEPT ![p] = FALSE]
  /\ UNCHANGED lockPath

(* os.remove(name); its failure on a free name is ignored. *)
RemoveLock ==
  /\ lockPath' = NoFile
  /\ UNCHANGED <<fd, locked>>

LockTypeOK ==
  /\ lockPath \in Inodes \cup {NoFile}
  /\ fd \in [Lockers -> Inodes \cup {NoFile}]
  /\ locked \in [Lockers -> BOOLEAN]
=============================================================================
