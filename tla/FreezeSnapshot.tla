--------------------------- MODULE FreezeSnapshot ---------------------------
(***************************************************************************)
(* The freeze / snapshot / thaw protocol of the VMBackup daemon:           *)
(*   FsFreezer and FreezeHandler      src/VMBackup/main/fsfreezer.py       *)
(*   FreezeSnapshotter                src/VMBackup/main/freezesnapshotter.py *)
(*   GuestSnapshotter, HostSnapshotter  guest-, hostsnapshotter.py         *)
(*   freeze_snapshot and the report   src/VMBackup/main/handle.py          *)
(* composed with the safefreeze binaries (SafeFreeze) and the lock file    *)
(* (SafeFreezeLock).  Each freezer is one daemon process: its main thread, *)
(* the thread that launches the binary, and its two signal handlers.       *)
(***************************************************************************)
EXTENDS SafeFreeze, FiniteSets

CONSTANTS
  Disks,         \* the disks to snapshot
  Inputs,        \* the inputs and configurations a daemon may be started with
  MaxLockRetry,  \* maxGetLockRetry
  MaxSeqDisks,   \* up to so many disks the guest snapshots in sequence
  RootMount,     \* the mount that holds the lock file, the logs and the status file
  Inodes, NoFile

(***************************************************************************)
(* The snapshot method; whether a crash-consistent snapshot will do;       *)
(* g_fsfreeze_on; a workload named in workload.conf; a null entry in the   *)
(* blob list.  can_take_crash_consistent_snapshot asks for a single disk.  *)
(***************************************************************************)
SnapshotModes == {"onlyGuest", "onlyHost", "firstGuestThenHost", "firstHostThenGuest"}

InputRecords ==
  [mode : SnapshotModes, crashOK : BOOLEAN, freezeOn : BOOLEAN,
   workload : BOOLEAN, nullBlob : BOOLEAN]

CrashNeedsOneDisk(i) == i.crashOK => Cardinality(Disks) = 1

ASSUME InputsAssumption ==
  Inputs \subseteq InputRecords /\ \A i \in Inputs : CrashNeedsOneDisk(i)
ASSUME RetryAssumption == MaxLockRetry \in Nat
ASSUME SeqAssumption == MaxSeqDisks \in Nat \ {0}
ASSUME NoFileAssumption == NoFile \notin Inodes
ASSUME DisksAssumption == IsFiniteSet(Disks) /\ Disks # {}

VARIABLES
  lockPath, fd, locked,   \* see SafeFreezeLock
  job,     \* job[p]: the input and the configuration of p's backup
  fz,      \* fz[p]: p's FsFreezer and FreezeHandler objects
  pend,    \* pend[p]: signals sent to p whose Python handler has not run
  run,     \* run[p]: p's main thread and FreezeSnapshotter's results
  torn     \* torn[p] (history): some disk was captured outside the freeze

INSTANCE SafeFreezeLock WITH Lockers <- Freezers

lockFileVars == <<lockPath, fd, locked>>
procVars == <<job, fz, pend, run, torn>>
vars == <<binVars, lockFileVars, procVars>>

RunPc == {"start", "freeze", "openlock", "lockf", "startproc", "wait", "drain",
          "decide", "snap", "thaw", "thawwait", "thawdrain", "unlock", "remove",
          "after", "done", "dead"}

NewFreezer ==
  [thread |-> "none", child |-> FALSE, sig |-> 0, acquired |-> TRUE,
   retries |-> 0, skip |-> TRUE]

NoVerdict == [status |-> "none", result |-> "none", crash |-> FALSE]

NewRun ==
  [pc |-> "start", via |-> "guest", par |-> FALSE, ctx |-> "snap", ok |-> TRUE,
   allFailed |-> FALSE, allSnapsFailed |-> FALSE, limited |-> FALSE,
   inconsistent |-> FALSE, noSleep |-> FALSE, thawErr |-> FALSE,
   shot |-> {}, good |-> {}, info |-> FALSE, verdict |-> NoVerdict]

Init ==
  /\ BinInit
  /\ LockInit
  /\ job \in [Freezers -> Inputs]
  /\ fz = [p \in Freezers |-> NewFreezer]
  /\ pend = [p \in Freezers |-> {}]
  /\ run = [p \in Freezers |-> NewRun]
  /\ torn = [p \in Freezers |-> FALSE]

Alive(p) == run[p].pc \notin {"done", "dead"}

(* The interpreter runs the handlers of delivered signals before the main  *)
(* thread's next step.                                                     *)
At(p, label) == run[p].pc = label /\ pend[p] = {}

Goto(p, label) == run' = [run EXCEPT ![p].pc = label]

(* The lock file, the log after enforce_local_flag(True) and the status     *)
(* file: a write to a frozen file system blocks until somebody thaws it.   *)
RootWritable == RootMount \notin frozen

-----------------------------------------------------------------------------
(* The binary's steps as the daemons see them.                             *)

(* p is between the snapshot of its first disk and that of its last. *)
Shooting(p) == run[p].pc = "snap" /\ run[p].shot \notin {{}, Disks}

BinaryWorks(p) ==
  /\ BinStep(p)
  /\ pend' = [pend EXCEPT ![p] = IF bpc[p] = "notify" /\ Alive(p)
                                 THEN @ \cup {"USR1"} ELSE @]
  /\ torn' = [q \in Freezers |->
                \/ torn[q]
                \/ Shooting(q) /\ MountsOf(q) \cap (frozen \ frozen') # {}]
  /\ UNCHANGED <<lockFileVars, job, fz, run>>

BinaryExits(p) ==
  /\ Exit(p)
  /\ pend' = [pend EXCEPT ![p] = IF Alive(p) THEN @ \cup {"CHLD"} ELSE @]
  /\ UNCHANGED <<lockFileVars, job, fz, run, torn>>

(* thread_for_binary: after 3 seconds, Popen; then self.child is assigned. *)
ThreadLaunches(p) ==
  /\ fz[p].thread = "sleeping"
  /\ Alive(p)
  /\ \/ /\ Launch(p)
        /\ fz' = [fz EXCEPT ![p].thread = "launched"]
     \/ /\ fz' = [fz EXCEPT ![p].thread = "ended"]   \* Popen raises
        /\ UNCHANGED binVars
  /\ UNCHANGED <<lockFileVars, job, pend, run, torn>>

ThreadAssigns(p) ==
  /\ fz[p].thread = "launched"
  /\ fz' = [fz EXCEPT ![p].thread = "ended", ![p].child = TRUE]
  /\ UNCHANGED <<binVars, lockFileVars, job, pend, run, torn>>

(* Pending handlers run in the order of the signal numbers, SIGUSR1 first. *)
sigusr1_handler(p) ==
  /\ "USR1" \in pend[p]
  /\ pend' = [pend EXCEPT ![p] = @ \ {"USR1"}]
  /\ fz' = [fz EXCEPT ![p].sig = 1]
  /\ UNCHANGED <<binVars, lockFileVars, job, run, torn>>

sigchld_handler(p) ==
  /\ pend[p] = {"CHLD"}
  /\ pend' = [pend EXCEPT ![p] = {}]
  /\ fz' = [fz EXCEPT ![p].sig = IF fz[p].child /\ bpc[p] = "exited" THEN 2 ELSE @]
  /\ UNCHANGED <<binVars, lockFileVars, job, run, torn>>

-----------------------------------------------------------------------------
(* FreezeSnapshotter: which way the snapshots are taken.                   *)

(* takeSnapshotFromGuest / takeSnapshotFromOnlyHost from the top.  A blob  *)
(* list that is empty, or an exception while the encryption details are    *)
(* fetched, fails the guest path before the freeze.                        *)
Begin(p, via) ==
  \/ /\ run' = [run EXCEPT ![p] =
                  [NewRun EXCEPT !.via = via,
                                 !.pc = IF job[p].freezeOn THEN "freeze" ELSE "decide"]]
  \/ /\ via = "guest"
     /\ \E empty \in BOOLEAN :
          run' = [run EXCEPT ![p] =
                    [NewRun EXCEPT !.via = via, !.pc = "after", !.ok = FALSE,
                                   !.allFailed = empty, !.allSnapsFailed = empty]]

(* doFreezeSnapshot; firstHostThenGuest asks the host's presnapshot first. *)
Start(p) ==
  /\ At(p, "start")
  /\ \E via \in {"guest", "host"} :
       /\ job[p].mode \in {"onlyGuest", "firstGuestThenHost"} => via = "guest"
       /\ job[p].mode = "onlyHost" => via = "host"
       /\ Begin(p, via)
  /\ UNCHANGED <<binVars, lockFileVars, job, fz, pend, torn>>

-----------------------------------------------------------------------------
(* FsFreezer.freeze_safe *)

(* Up to the lock loop.  With no mount to freeze it returns without error, *)
(* with no mount list (Mounts() raised) with one.                          *)
FreezeSafe(p) ==
  /\ At(p, "freeze")
  /\ \/ /\ \E ok \in BOOLEAN :
             /\ ok => Args[p] = <<>>
             /\ run' = [run EXCEPT ![p].pc = "decide", ![p].ok = ok]
        /\ fz' = [fz EXCEPT ![p].skip = TRUE]
     \/ /\ Args[p] # <<>>
        /\ Goto(p, IF fz[p].retries < MaxLockRetry THEN "openlock" ELSE "startproc")
        /\ fz' = [fz EXCEPT ![p].skip = FALSE, ![p].sig = 0, ![p].child = FALSE]
  /\ UNCHANGED <<binVars, lockFileVars, job, pend, torn>>

(* Mutant: <= for < in the bound of the retries. *)
MutCountRetryOneMore(p) ==
  Goto(p, IF fz[p].retries + 1 <= MaxLockRetry THEN "openlock" ELSE "startproc")

(* One more failed attempt: getLockRetry is never reset. *)
CountRetry(p) ==
  Goto(p, IF fz[p].retries + 1 < MaxLockRetry THEN "openlock" ELSE "startproc")

(* Opening the lock file blocks while its file system is frozen. *)
OpenLockFile(p) ==
  /\ At(p, "openlock")
  /\ RootWritable
  /\ \/ /\ OpenLock(p)
        /\ fz' = [fz EXCEPT ![p].acquired = FALSE]
        /\ Goto(p, "lockf")
     \/ /\ fz' = [fz EXCEPT ![p].retries = @ + 1]    \* mkdir or open raises
        /\ CountRetry(p)
        /\ UNCHANGED lockFileVars
  /\ UNCHANGED <<binVars, job, pend, torn>>

LockFile(p) ==
  /\ At(p, "lockf")
  /\ \/ /\ TakeLock(p)
        /\ fz' = [fz EXCEPT ![p].acquired = TRUE]
        /\ Goto(p, "startproc")
     \/ /\ LockBusy(p)
        /\ CloseLock(p)
        /\ fz' = [fz EXCEPT ![p].retries = @ + 1]
        /\ CountRetry(p)
  /\ UNCHANGED <<binVars, job, pend, torn>>

(* startproc runs whether or not the lock was acquired. *)
StartProc(p) ==
  /\ At(p, "startproc")
  /\ ~Running(p)
  /\ fz[p].thread \in {"none", "ended"}
  /\ fz' = [fz EXCEPT ![p].thread = "sleeping"]
  /\ Goto(p, "wait")
  /\ UNCHANGED <<binVars, lockFileVars, job, pend, torn>>

(* Mutant: startproc waits for a signal without a limit. *)
MutStartProcNoLimit(p) ==
  /\ At(p, "wait")
  /\ fz[p].sig # 0
  /\ IF fz[p].sig = 1
     THEN Goto(p, "decide")
     ELSE run' = [run EXCEPT ![p].pc = IF fz[p].child THEN "drain" ELSE "decide",
                             ![p].ok = FALSE]
  /\ UNCHANGED <<binVars, lockFileVars, job, fz, pend, torn>>

(* startproc sees sig_handle set; or its 33 sleeps of 2 seconds are over,  *)
(* a minute after the thread, which sleeps for 3 seconds, has ended.       *)
StartProcReturns(p) ==
  /\ At(p, "wait")
  /\ fz[p].sig = 0 => fz[p].thread = "ended"
  /\ IF fz[p].sig = 1
     THEN Goto(p, "decide")
     ELSE run' = [run EXCEPT ![p].pc = IF fz[p].child THEN "drain" ELSE "decide",
                             ![p].ok = FALSE]
  /\ UNCHANGED <<binVars, lockFileVars, job, fz, pend, torn>>

(* Mutant: the binary that did not freeze is killed. *)
MutDrainOutputKills(p) ==
  /\ At(p, "drain")
  /\ bpc' = [bpc EXCEPT ![p] = "exited"]
  /\ Goto(p, "decide")
  /\ UNCHANGED <<frozen, cur, gThaw, iter, cut, status>>
  /\ UNCHANGED <<lockFileVars, job, fz, pend, torn>>

(* log_binary_output reads until the binary closes its output. *)
DrainOutput(p) ==
  /\ At(p, "drain")
  /\ ~Running(p)
  /\ Goto(p, "decide")
  /\ UNCHANGED <<binVars, lockFileVars, job, fz, pend, torn>>

-----------------------------------------------------------------------------
(* The snapshots *)

(* is_command_timedout, then the decision to take the snapshots. *)
Decide(p) ==
  /\ At(p, "decide")
  /\ \/ run' = [run EXCEPT ![p].pc = "thaw", ![p].ctx = "late", ![p].ok = FALSE,
                           ![p].allFailed = TRUE, ![p].allSnapsFailed = TRUE]
     \/ /\ run[p].ok \/ job[p].crashOK
        /\ \E par \in BOOLEAN :
             /\ par => run[p].via = "guest" /\ Cardinality(Disks) > MaxSeqDisks
             /\ run' = [run EXCEPT ![p].pc = "snap", ![p].par = par]
     \/ /\ ~(run[p].ok \/ job[p].crashOK)
        /\ Goto(p, "after")
  /\ UNCHANGED <<binVars, lockFileVars, job, fz, pend, torn>>

(* The guest path stumbles over a null blob: in sequence when its turn     *)
(* comes, in parallel before the first process is started.                 *)
NullBlob(p) == run[p].via = "guest" /\ job[p].nullBlob

(* A disk is captured, or its snapshot fails. *)
SnapDisk(p) ==
  /\ At(p, "snap")
  /\ NullBlob(p) => ~run[p].par
  /\ \E d \in Disks \ run[p].shot, good \in BOOLEAN :
       /\ NullBlob(p) => run[p].shot \cup {d} # Disks
       /\ run' = [run EXCEPT ![p].shot = @ \cup {d},
                             ![p].good = IF good THEN @ \cup {d} ELSE @]
  /\ torn' = [torn EXCEPT ![p] = @ \/ ~(MountsOf(p) \subseteq frozen)]
  /\ UNCHANGED <<binVars, lockFileVars, job, fz, pend>>

(* All requests are answered.  The host sends one answer for all disks,    *)
(* which may be a failure, or empty: then there is no info array, and all  *)
(* count as failed.  The error of a failed disk may be a rate or a count   *)
(* limit.  all_snapshots_failed is set on the guest path only.             *)
SnapshotsDone(p) ==
  /\ At(p, "snap")
  /\ run[p].shot = Disks
  /\ \E info, limited \in BOOLEAN :
       LET g == IF info THEN run[p].good ELSE {} IN
       /\ run[p].via = "guest" => info
       /\ limited => info /\ g # Disks
       /\ run' = [run EXCEPT ![p].pc = IF job[p].freezeOn THEN "thaw" ELSE "after",
                             ![p].ctx = "snap", ![p].good = g, ![p].info = info,
                             ![p].limited = limited, ![p].allFailed = (g = {}),
                             ![p].allSnapsFailed = (run[p].via = "guest" /\ g = {})]
  /\ UNCHANGED <<binVars, lockFileVars, job, fz, pend, torn>>

(* An exception before the thaw skips the thaw: the sequence ends at a     *)
(* null blob and keeps the results of the disks before it; a request or a  *)
(* first disk that cannot be prepared leaves no result.                    *)
SnapshotRaises(p) ==
  /\ At(p, "snap")
  /\ ~run[p].par
  /\ run[p].shot = {} \/ NullBlob(p)
  /\ \E limited \in BOOLEAN :
       /\ limited => run[p].good # run[p].shot
       /\ run' = [run EXCEPT ![p].pc = "after", ![p].limited = limited,
                             ![p].allFailed = (run[p].good = {})]
  /\ UNCHANGED <<binVars, lockFileVars, job, fz, pend, torn>>

(* In parallel: no process can be created, and the sequence is tried; or   *)
(* the list has a null blob, or one of the processes cannot be started.    *)
ParallelRaises(p) ==
  /\ At(p, "snap")
  /\ run[p].par
  /\ run[p].shot # Disks
  /\ \/ /\ run[p].shot = {}
        /\ run' = [run EXCEPT ![p].par = FALSE]
     \/ run' = [run EXCEPT ![p].pc = "after", ![p].allFailed = TRUE, ![p].good = {}]
  /\ UNCHANGED <<binVars, lockFileVars, job, fz, pend, torn>>

-----------------------------------------------------------------------------
(* FsFreezer.thaw_safe and releaseFileLock *)

(* Mutant: the errors of the thaw are logged, not returned. *)
MutThawReturnsNoError(p, err, nosleep) ==
  run' = [run EXCEPT ![p].pc = "unlock", ![p].thawErr = FALSE, ![p].noSleep = nosleep]

(* thaw_result and unable_to_sleep. *)
ThawReturns(p, err, nosleep) ==
  run' = [run EXCEPT ![p].pc = "unlock", ![p].thawErr = err, ![p].noSleep = nosleep]

ThawSafe(p) ==
  /\ At(p, "thaw")
  /\ \/ /\ fz[p].skip
        /\ ThawReturns(p, FALSE, FALSE)
        /\ UNCHANGED binVars
     \/ /\ ~fz[p].skip
        /\ ~fz[p].child
        /\ RootWritable
        /\ ThawReturns(p, TRUE, FALSE)
        /\ UNCHANGED binVars
     \/ /\ ~fz[p].skip
        /\ fz[p].child
        /\ ThawSignal(p)
        /\ Goto(p, "thawwait")
     \/ /\ ~fz[p].skip
        /\ fz[p].child
        /\ ~Running(p)
        /\ RootWritable
        /\ ThawReturns(p, TRUE, status[p] = SLEEP_FAILED)
        /\ UNCHANGED binVars
  /\ UNCHANGED <<lockFileVars, job, fz, pend, torn>>

(* Mutant: after 30 polls thaw_safe returns. *)
MutThawWaitNoDrain(p) ==
  /\ At(p, "thawwait")
  /\ RootWritable
  /\ ThawReturns(p, ~Running(p) /\ status[p] # EXIT_SUCCESS, FALSE)
  /\ UNCHANGED <<binVars, lockFileVars, job, fz, pend, torn>>

(* The binary exits within 30 polls; or it does not, and the local log is  *)
(* switched on again all the same, which may block.                        *)
ThawWait(p) ==
  /\ At(p, "thawwait")
  /\ RootWritable
  /\ IF Running(p)
     THEN Goto(p, "thawdrain")
     ELSE ThawReturns(p, status[p] # EXIT_SUCCESS, FALSE)
  /\ UNCHANGED <<binVars, lockFileVars, job, fz, pend, torn>>

(* The output ends when the binary does.  Popen.returncode is None, which  *)
(* is not 0, unless the SIGCHLD handler polled in the meantime.            *)
ThawDrain(p) ==
  /\ At(p, "thawdrain")
  /\ ~Running(p)
  /\ \E polled \in BOOLEAN :
       ThawReturns(p, ~polled \/ status[p] # EXIT_SUCCESS, FALSE)
  /\ UNCHANGED <<binVars, lockFileVars, job, fz, pend, torn>>

(* releaseFileLock: a lock that was acquired is unlocked and closed ... *)
Unlock(p) ==
  /\ At(p, "unlock")
  /\ IF fz[p].acquired THEN CloseLock(p) ELSE UNCHANGED lockFileVars
  /\ Goto(p, "remove")
  /\ UNCHANGED <<binVars, job, fz, pend, torn>>

(* Back in the caller.  In sequence the guest path counts a failed thaw    *)
(* only when no snapshot failed; in parallel a failed thaw drops all the   *)
(* results.  The thaw after a late command is not looked at.               *)
Thawed(p) ==
  \/ /\ run[p].ctx = "late"
     /\ run' = [run EXCEPT ![p].pc = "after", ![p].noSleep = FALSE, ![p].thawErr = FALSE]
  \/ /\ run[p].ctx = "snap"
     /\ ~(run[p].par /\ run[p].thawErr)
     /\ run' = [run EXCEPT ![p].pc = "after", ![p].thawErr = FALSE,
                  ![p].inconsistent = /\ run[p].thawErr
                                      /\ run[p].via = "host" \/ run[p].good = Disks]
  \/ /\ run[p].ctx = "snap"
     /\ run[p].par /\ run[p].thawErr
     /\ run' = [run EXCEPT ![p].pc = "after", ![p].thawErr = FALSE,
                  ![p].inconsistent = TRUE, ![p].good = {}, ![p].allFailed = TRUE,
                  ![p].allSnapsFailed = FALSE, ![p].limited = FALSE]
  \/ /\ run[p].ctx = "again"
     /\ Begin(p, "host")

(* ... and the file is removed, acquired or not; thaw_safe returns. *)
RemoveLockFile(p) ==
  /\ At(p, "remove")
  /\ RootWritable
  /\ RemoveLock
  /\ Thawed(p)
  /\ torn' = [torn EXCEPT ![p] = @ /\ run[p].ctx # "again"]
  /\ UNCHANGED <<binVars, job, fz, pend>>

-----------------------------------------------------------------------------
(* The verdict *)

(* firstGuestThenHost: when no guest snapshot succeeded, thaw again and    *)
(* take the host's way.                                                    *)
FallsBack(p) ==
  /\ job[p].mode = "firstGuestThenHost"
  /\ run[p].via = "guest"
  /\ run[p].allSnapsFailed

ThawAgain(p) ==
  /\ At(p, "after")
  /\ FallsBack(p)
  /\ run' = [run EXCEPT ![p].pc = "thaw", ![p].ctx = "again"]
  /\ UNCHANGED <<binVars, lockFileVars, job, fz, pend, torn>>

(* Mutant: only a run without any snapshot counts as failed. *)
MutAnyDiskSeenFailed(p) == run[p].via = "guest" /\ run[p].good = {}

(* isSuccessful is a Boolean on the guest path.  The host's answer carries *)
(* the strings 'true' and 'false' (get_snapshot_info tests == 'true'), and *)
(* 'false' == False does not hold: the host's failed disks are not seen.   *)
AnyDiskSeenFailed(p) == run[p].via = "guest" /\ run[p].good # run[p].shot

(* run_result and run_status after updateErrorCode, which leaves the       *)
(* status at 'success' when all snapshots failed.                          *)
Updated(p) ==
  LET seen == \/ run[p].noSleep \/ run[p].inconsistent \/ run[p].limited
              \/ AnyDiskSeenFailed(p) /\ ~run[p].allFailed
  IN [status |-> IF run[p].ok /\ ~seen THEN "success" ELSE "error",
      result |-> IF run[p].ok /\ ~seen /\ ~run[p].allFailed THEN "success" ELSE "failed"]

(* freeze_snapshot: an error may be turned into a crash-consistent success. *)
CrashConsistent(p) ==
  /\ job[p].crashOK
  /\ Updated(p).result # "success"
  /\ run[p].info
  /\ ~AnyDiskSeenFailed(p)

FreezeSnapshotResult(p) ==
  IF CrashConsistent(p) THEN [status |-> "success", result |-> "success"]
                        ELSE Updated(p)

(* A workload's post step changes the result: an error of the workload's   *)
(* scripts counts without a freeze; no error makes a success of the status *)
(* an application-consistent result.                                       *)
AfterWorkload(p, r, workloadError) ==
  CASE workloadError /\ ~job[p].freezeOn -> [status |-> "error", result |-> "failed"]
    [] ~workloadError /\ r.status = "success" -> [r EXCEPT !.result = "appConsistent"]
    [] OTHER -> r

(* doFreezeSnapshot's end, freeze_snapshot's, and the final report of the  *)
(* daemon, which then exits: its memory is gone (but for what it reported) *)
(* and the kernel closes its descriptors.                                  *)
Report(p) ==
  /\ At(p, "after")
  /\ ~FallsBack(p) /\ RootWritable
  /\ \E workloadError \in BOOLEAN :
       LET r == FreezeSnapshotResult(p)
           v == IF job[p].workload THEN AfterWorkload(p, r, workloadError) ELSE r
       IN /\ workloadError => job[p].workload
          /\ run' = [run EXCEPT ![p] =
               [NewRun EXCEPT !.pc = "done", !.via = run[p].via,
                  !.shot = run[p].shot, !.good = run[p].good,
                  !.verdict = [status |-> v.status, result |-> v.result,
                               crash |-> CrashConsistent(p)]]]
  /\ fz' = [fz EXCEPT ![p] = NewFreezer]
  /\ CloseLock(p)
  /\ UNCHANGED <<binVars, job, pend, torn>>

(* The daemon is killed, with its thread; its binary, if any, lives on. *)
Crash(p) ==
  /\ Alive(p)
  /\ run' = [run EXCEPT ![p] = [NewRun EXCEPT !.pc = "dead"]]
  /\ fz' = [fz EXCEPT ![p] = NewFreezer]
  /\ pend' = [pend EXCEPT ![p] = {}]
  /\ torn' = [torn EXCEPT ![p] = FALSE]
  /\ CloseLock(p)
  /\ UNCHANGED <<binVars, job>>

-----------------------------------------------------------------------------
MainThread(p) ==
  \/ Start(p)            \/ FreezeSafe(p)    \/ OpenLockFile(p) \/ LockFile(p)
  \/ StartProc(p)        \/ StartProcReturns(p) \/ DrainOutput(p) \/ Decide(p)
  \/ SnapDisk(p)         \/ SnapshotsDone(p) \/ SnapshotRaises(p) \/ ParallelRaises(p)
  \/ ThawSafe(p)         \/ ThawWait(p)      \/ ThawDrain(p)
  \/ Unlock(p)           \/ RemoveLockFile(p)
  \/ ThawAgain(p)        \/ Report(p)

Handlers(p) == sigusr1_handler(p) \/ sigchld_handler(p)

Launcher(p) == ThreadLaunches(p) \/ ThreadAssigns(p)

Binary(p) == BinaryWorks(p) \/ BinaryExits(p)

Next == \E p \in Freezers :
          MainThread(p) \/ Handlers(p) \/ Launcher(p) \/ Binary(p) \/ Crash(p)

Spec == Init /\ [][Next]_vars

(* Threads and processes that can run are scheduled; nothing makes a       *)
(* daemon crash.                                                           *)
Fairness == \A p \in Freezers :
  /\ WF_vars(MainThread(p))
  /\ WF_vars(Handlers(p))
  /\ WF_vars(Launcher(p))
  /\ WF_vars(Binary(p))

FairSpec == Spec /\ Fairness

-----------------------------------------------------------------------------
Results == {"none", "success", "appConsistent", "failed"}

FreezerRecords ==
  [thread : {"none", "sleeping", "launched", "ended"}, child : BOOLEAN,
   sig : 0..2, acquired : BOOLEAN, retries : 0..MaxLockRetry, skip : BOOLEAN]

Verdicts == [status : {"none", "success", "error"}, result : Results, crash : BOOLEAN]

RunRecords ==
  [pc : RunPc, via : {"guest", "host"}, par : BOOLEAN, ctx : {"snap", "late", "again"},
   ok : BOOLEAN, allFailed : BOOLEAN, allSnapsFailed : BOOLEAN, limited : BOOLEAN,
   inconsistent : BOOLEAN, noSleep : BOOLEAN, thawErr : BOOLEAN, shot : SUBSET Disks,
   good : SUBSET Disks, info : BOOLEAN, verdict : Verdicts]

SignalTypeOK ==
  /\ job \in [Freezers -> Inputs]
  /\ pend \in [Freezers -> SUBSET {"USR1", "CHLD"}]

FreezerTypeOK == fz \in [Freezers -> FreezerRecords]

RunTypeOK == run \in [Freezers -> RunRecords]

HistoryTypeOK == torn \in [Freezers -> BOOLEAN]

(* A daemon about to try the lock has a try left. *)
RetriesOK ==
  \A p \in Freezers :
    run[p].pc \in {"openlock", "lockf"} => fz[p].retries < MaxLockRetry

ProcTypeOK == SignalTypeOK /\ FreezerTypeOK /\ RunTypeOK /\ HistoryTypeOK /\ RetriesOK

TypeOK == BinTypeOK /\ LockTypeOK /\ ProcTypeOK

-----------------------------------------------------------------------------
(* p reports a consistent backup: a result that is not crash-consistent    *)
(* and that says success, with some snapshot to show for it.               *)
ClaimsConsistency(p) ==
  /\ run[p].verdict.result \in {"success", "appConsistent"}
  /\ ~run[p].verdict.crash
  /\ run[p].good # {}

Claims(p) == ClaimsConsistency(p) /\ job[p].freezeOn /\ ~job[p].nullBlob

(* The point of the extension: when a daemon froze its file systems and    *)
(* reports success, every file system it named was frozen, without a gap,  *)
(* while all of its disks were captured.  (A null blob is set apart.)      *)
SuccessIsConsistent ==
  \A p \in Freezers : Claims(p) => ~torn[p] /\ run[p].shot = Disks

(* Such a report leaves nothing frozen: the binary of the daemon is gone.  *)
SuccessLeavesThawed ==
  \A p \in Freezers : Claims(p) => ~Running(p)

(* Nothing p tried failed; what it did not try stands behind a null blob. *)
AllCaptured(p) ==
  run[p].good = run[p].shot /\ (run[p].shot = Disks \/ job[p].nullBlob)

(* No success of the guest's way, whatever its kind, hides the loss of a   *)
(* part of the disks.  Hidden is only the loss of all of them, and only by *)
(* a workload: updateErrorCode leaves the status of a run without any      *)
(* snapshot at 'success', of which the post step makes "appConsistent".    *)
GuestDiskLossIsReported ==
  \A p \in Freezers :
    run[p].verdict.result \in {"success", "appConsistent"} /\ run[p].via = "guest" =>
      \/ AllCaptured(p)
      \/ run[p].verdict.result = "appConsistent" /\ run[p].good = {}

(* Between a freeze that succeeded and the thaw, the file systems are all  *)
(* frozen, or the binary has given up and will exit with a failure: the    *)
(* signal the daemon got never promises more than thaw_safe can check.     *)
SnapshotsAreGuarded ==
  \A p \in Freezers :
    run[p].pc = "snap" /\ run[p].ok /\ job[p].freezeOn =>
      \/ MountsOf(p) \subseteq frozen
      \/ bpc[p] \in {"thaw", "exited"} /\ status[p] # EXIT_SUCCESS

(* Every daemon ends, by its report or its death: no lock, no freeze and   *)
(* no lost signal can make it wait for ever.                               *)
EveryDaemonEnds == \A p \in Freezers : <>(~Alive(p))
-----------------------------------------------------------------------------
(***************************************************************************)
(* The lease of a backup on the freeze (FreezeLease).  The freezers that   *)
(* name a file system of p's are its rivals.  p can rely on its freeze, or *)
(* on the exit status of its binary, when it has at most one of them and   *)
(* that one makes a single attempt: whatever it thaws of p's stays thawed  *)
(* until p's binary comes to thaw it, too, and fails.                      *)
(***************************************************************************)
Rivals(p)    == {q \in Freezers \ {p} : MountsOf(p) \cap MountsOf(q) # {}}
TriesOnce(p) == job[p].mode # "firstGuestThenHost"
OneRival(p)  == \A q, r \in Rivals(p) : q = r /\ TriesOnce(q)
Spent(p)     == \E q \in Rivals(p) : bpc[q] \in {"thaw", "exited"}

Missing(p) == {i \in 1..Len(Args[p]) : Args[p][i] \notin frozen}
GaveUp(p)  == bpc[p] \in {"thaw", "exited"} /\ status[p] # EXIT_SUCCESS

(* The exit status of p's binary is a failure, or will be one. *)
Doomed(p) ==
  \/ GaveUp(p)
  \/ /\ Spent(p)
     /\ \E i \in Missing(p) : bpc[p] = "wait" \/ (bpc[p] = "thaw" /\ i <= cur[p])

(* A run whose results are a consistent success, if there are any. *)
LooksGood(p) ==
  /\ run[p].pc = "after" /\ run[p].ok /\ ~run[p].inconsistent /\ ~AnyDiskSeenFailed(p)
  /\ job[p].freezeOn /\ ~job[p].nullBlob /\ run[p].good # {}

(* The freeze succeeded, and no late command or fallback has set it aside. *)
InForce(p) == run[p].ok /\ job[p].freezeOn /\ run[p].ctx = "snap"

Lease(p) ==
  CASE run[p].pc \in {"decide", "snap", "thaw"} /\ InForce(p) ->
         IF Doomed(p) THEN "broken" ELSE "held"
    [] run[p].pc \in {"thawwait", "thawdrain"} /\ InForce(p) ->
         IF Doomed(p) THEN "broken" ELSE "returning"
    [] run[p].pc \in {"unlock", "remove"} /\ InForce(p) /\ ~run[p].thawErr -> "returned"
    [] run[p].pc \in {"after", "done"} /\ (LooksGood(p) \/ Claims(p)) -> "returned"
    [] OTHER -> "none"

Backup(p) == INSTANCE FreezeLease WITH
  whole <- MountsOf(p) \subseteq frozen, lease <- Lease(p),
  taken <- run[p].shot, claimed <- Claims(p)

(* Every daemon implements the lease: what it believes of its freeze, from *)
(* a signal and an exit status, is never more than what is true; a freeze  *)
(* that broke while the disks were captured is never returned in good      *)
(* order, and only one that was is behind a consistent success.            *)
BackupSpec ==
  /\ \A p \in Freezers : Backup(p)!Init
  /\ [][\A p \in Freezers : [Backup(p)!Next]_(Backup(p)!backup)]_vars
=============================================================================
