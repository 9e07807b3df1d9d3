------------------------ MODULE FreezeSnapshotProofs ------------------------
(***************************************************************************)
(* What holds of the VMBackup daemons for any number of daemons, disks,    *)
(* mounts and retries: they use their binaries as the binaries' own        *)
(* specification says, types, and no lost disk is hidden by a success.     *)
(***************************************************************************)
EXTENDS FreezeSnapshot, SafeFreezeProofs

(***************************************************************************)
(* The daemons use the binaries only as SafeFreeze says: each step of the  *)
(* composition is a step of a binary, its launch, a thaw signal, or leaves *)
(* the binaries and the kernel alone.                                      *)
(***************************************************************************)
LEMMA BinariesStep ==
  ASSUME [Next]_vars
  PROVE  [BinNext]_binVars
<1>1. CASE UNCHANGED vars
  BY <1>1 DEF vars
<1>2. ASSUME NEW p \in Freezers, MainThread(p)
      PROVE  ThawSignal(p) \/ UNCHANGED binVars
  BY <1>2 DEF MainThread, Start, FreezeSafe, OpenLockFile, LockFile, StartProc,
    StartProcReturns, DrainOutput, Decide, SnapDisk, SnapshotsDone, SnapshotRaises,
    ParallelRaises, ThawSafe, ThawWait, ThawDrain, Unlock, RemoveLockFile, ThawAgain,
    Report
<1>3. ASSUME NEW p \in Freezers, Handlers(p) \/ Launcher(p) \/ Binary(p) \/ Crash(p)
      PROVE  BinStep(p) \/ Exit(p) \/ Launch(p) \/ UNCHANGED binVars
  BY <1>3 DEF Handlers, Launcher, Binary, Crash, sigusr1_handler, sigchld_handler,
    ThreadLaunches, ThreadAssigns, BinaryWorks, BinaryExits
<1> QED
  BY <1>1, <1>2, <1>3 DEF Next, BinNext

(* The composition implements the binaries' specification. *)
THEOREM DaemonsUseBinaries == Spec => BinSpec
<1>1. Init => BinInit
  BY DEF Init
<1> QED
  BY <1>1, BinariesStep, PTL DEF Spec, BinSpec

(* Whatever the daemons do, and wherever they die, no file system is left  *)
(* frozen without a binary that will thaw it.                              *)
THEOREM DaemonsNeverOrphan == Spec => []NoOrphanFreeze
BY DaemonsUseBinaries, FreezeNeverOrphaned, PTL

-----------------------------------------------------------------------------
(* The lock file's part of the state. *)
LEMMA LockTypeInit == ASSUME LockInit PROVE LockTypeOK
BY DEF LockInit, LockTypeOK

LEMMA LockTypeStep ==
  ASSUME LockTypeOK, NEW p \in Freezers,
         OpenLock(p) \/ TakeLock(p) \/ CloseLock(p) \/ RemoveLock \/ UNCHANGED lockFileVars
  PROVE  LockTypeOK'
<1>1. CASE OpenLock(p)
  <2> DEFINE i == IF lockPath = NoFile THEN CHOOSE j \in FreeInodes : TRUE ELSE lockPath
  <2>1. i \in Inodes
    BY <1>1 DEF OpenLock, FreeInodes, LockTypeOK
  <2>2. lockPath' = i /\ fd' = [fd EXCEPT ![p] = i] /\ locked' = [locked EXCEPT ![p] = FALSE]
    BY <1>1 DEF OpenLock
  <2> QED BY <2>1, <2>2 DEF LockTypeOK
<1>2. CASE TakeLock(p)   BY <1>2 DEF TakeLock, LockTypeOK
<1>3. CASE CloseLock(p)  BY <1>3 DEF CloseLock, LockTypeOK
<1>4. CASE RemoveLock    BY <1>4 DEF RemoveLock, LockTypeOK
<1>5. CASE UNCHANGED lockFileVars BY <1>5 DEF lockFileVars, LockTypeOK
<1> QED BY <1>1, <1>2, <1>3, <1>4, <1>5

LEMMA LockTypeNext ==
  ASSUME LockTypeOK, [Next]_vars
  PROVE  LockTypeOK'
<1>1. CASE UNCHANGED vars
  BY <1>1 DEF vars, lockFileVars, LockTypeOK
<1>2. ASSUME NEW p \in Freezers, MainThread(p)
      PROVE  OpenLock(p) \/ TakeLock(p) \/ CloseLock(p) \/ RemoveLock \/ UNCHANGED lockFileVars
  BY <1>2 DEF MainThread, Start, FreezeSafe, OpenLockFile, LockFile, StartProc,
    StartProcReturns, DrainOutput, Decide, SnapDisk, SnapshotsDone, SnapshotRaises,
    ParallelRaises, ThawSafe, ThawWait, ThawDrain, Unlock, RemoveLockFile, ThawAgain,
    Report
<1>3. ASSUME NEW p \in Freezers, Handlers(p) \/ Launcher(p) \/ Binary(p) \/ Crash(p)
      PROVE  CloseLock(p) \/ UNCHANGED lockFileVars
  BY <1>3 DEF Handlers, Launcher, Binary, Crash, sigusr1_handler, sigchld_handler,
    ThreadLaunches, ThreadAssigns, BinaryWorks, BinaryExits
<1> QED
  BY <1>1, <1>2, <1>3, LockTypeStep DEF Next

-----------------------------------------------------------------------------
(* The processes' part of the state: the initial values, then a step, one  *)
(* part of the invariant at a time.                                        *)
LEMMA ProcTypeInit == ASSUME Init PROVE ProcTypeOK
BY RetryAssumption DEF Init, ProcTypeOK, SignalTypeOK, FreezerTypeOK, RunTypeOK,
  HistoryTypeOK, RetriesOK, NewFreezer, NewRun, NoVerdict, FreezerRecords, RunRecords,
  RunPc, Verdicts, Results

LEMMA SignalTypeStep ==
  ASSUME SignalTypeOK, [Next]_vars
  PROVE  SignalTypeOK'
<1>1. CASE UNCHANGED vars
  BY <1>1 DEF vars, procVars, SignalTypeOK
<1>2. ASSUME NEW p \in Freezers, MainThread(p)
      PROVE  UNCHANGED <<job, pend>>
  BY <1>2 DEF MainThread, Start, FreezeSafe, OpenLockFile, LockFile, StartProc,
    StartProcReturns, DrainOutput, Decide, SnapDisk, SnapshotsDone, SnapshotRaises,
    ParallelRaises, ThawSafe, ThawWait, ThawDrain, Unlock, RemoveLockFile, ThawAgain,
    Report
<1>3. ASSUME NEW p \in Freezers, Handlers(p) \/ Launcher(p) \/ Binary(p) \/ Crash(p)
      PROVE  /\ UNCHANGED job
             /\ \/ UNCHANGED pend
                \/ \E s \in SUBSET {"USR1", "CHLD"} : pend' = [pend EXCEPT ![p] = s]
  <2>0. pend[p] \in SUBSET {"USR1", "CHLD"}
    BY DEF SignalTypeOK
  <2>1. CASE sigusr1_handler(p) BY <2>0, <2>1 DEF sigusr1_handler
  <2>2. CASE sigchld_handler(p) BY <2>2 DEF sigchld_handler
  <2>3. CASE Launcher(p) BY <2>3 DEF Launcher, ThreadLaunches, ThreadAssigns
  <2>4. CASE BinaryWorks(p) BY <2>0, <2>4 DEF BinaryWorks
  <2>5. CASE BinaryExits(p) BY <2>0, <2>5 DEF BinaryExits
  <2>6. CASE Crash(p) BY <2>6 DEF Crash
  <2> QED BY <1>3, <2>1, <2>2, <2>3, <2>4, <2>5, <2>6 DEF Handlers, Binary
<1> QED
  BY <1>1, <1>2, <1>3 DEF Next, SignalTypeOK

LEMMA HistoryTypeStep ==
  ASSUME HistoryTypeOK, [Next]_vars
  PROVE  HistoryTypeOK'
<1>1. CASE UNCHANGED vars
  BY <1>1 DEF vars, procVars, HistoryTypeOK
<1>2. ASSUME NEW p \in Freezers,
             MainThread(p) \/ Handlers(p) \/ Launcher(p) \/ Binary(p) \/ Crash(p)
      PROVE  UNCHANGED torn \/ torn' \in [Freezers -> BOOLEAN]
  <2>1. CASE SnapDisk(p) BY <2>1 DEF SnapDisk, HistoryTypeOK
  <2>2. CASE RemoveLockFile(p) BY <2>2 DEF RemoveLockFile, HistoryTypeOK
  <2>3. CASE BinaryWorks(p) BY <2>3 DEF BinaryWorks, HistoryTypeOK
  <2>4. CASE Crash(p) BY <2>4 DEF Crash, HistoryTypeOK
  <2> QED
    BY <1>2, <2>1, <2>2, <2>3, <2>4 DEF MainThread, Handlers, Launcher, Binary, ThawSafe,
      ThawWait, Report, Start, FreezeSafe, OpenLockFile, LockFile, StartProc, StartProcReturns, DrainOutput,
      Decide, SnapshotsDone, SnapshotRaises, ParallelRaises, ThawDrain, Unlock, ThawAgain,
      sigusr1_handler, sigchld_handler, ThreadLaunches, ThreadAssigns, BinaryExits
<1> QED
  BY <1>1, <1>2 DEF Next, HistoryTypeOK

(* A step of p sets p's objects to a record of their type. *)
LEMMA FreezerRecordStep ==
  ASSUME FreezerTypeOK, RetriesOK, NEW p \in Freezers,
         MainThread(p) \/ Handlers(p) \/ Launcher(p) \/ Binary(p) \/ Crash(p)
  PROVE  UNCHANGED fz \/ \E r \in FreezerRecords : fz' = [fz EXCEPT ![p] = r]
<1>0. fz[p] \in FreezerRecords
  BY DEF FreezerTypeOK
<1>1. CASE FreezeSafe(p)
  <2> DEFINE zero == 0
  <2>1. zero \in 0..2 OBVIOUS
  <2> HIDE DEF zero
  <2>2. [fz[p] EXCEPT !.skip = TRUE] \in FreezerRecords
    BY <1>0 DEF FreezerRecords
  <2>3. [fz[p] EXCEPT !.skip = FALSE, !.sig = zero, !.child = FALSE] \in FreezerRecords
    BY <1>0, <2>1 DEF FreezerRecords
  <2>4. \/ fz' = [fz EXCEPT ![p] = [fz[p] EXCEPT !.skip = TRUE]]
        \/ fz' = [fz EXCEPT ![p] = [fz[p] EXCEPT !.skip = FALSE, !.sig = zero, !.child = FALSE]]
    BY <1>1 DEF FreezeSafe, zero
  <2> QED BY <2>2, <2>3, <2>4
<1>2. CASE OpenLockFile(p) \/ LockFile(p)
  <2> DEFINE more == fz[p].retries + 1
  <2>1. run[p].pc \in {"openlock", "lockf"}
    BY <1>2 DEF OpenLockFile, LockFile, At
  <2>2. more \in 0..MaxLockRetry
    BY <1>0, <2>1, RetryAssumption DEF RetriesOK, FreezerRecords
  <2> HIDE DEF more
  <2>3. [fz[p] EXCEPT !.retries = more] \in FreezerRecords
    BY <1>0, <2>2 DEF FreezerRecords
  <2>4. \A b \in BOOLEAN : [fz[p] EXCEPT !.acquired = b] \in FreezerRecords
    BY <1>0 DEF FreezerRecords
  <2>5. \/ fz' = [fz EXCEPT ![p] = [fz[p] EXCEPT !.retries = more]]
        \/ \E b \in BOOLEAN : fz' = [fz EXCEPT ![p] = [fz[p] EXCEPT !.acquired = b]]
    BY <1>2 DEF OpenLockFile, LockFile, more
  <2> QED BY <2>3, <2>4, <2>5
<1>3. CASE StartProc(p) \/ Launcher(p)
  <2>1. \A t \in {"sleeping", "launched", "ended"} :
          [fz[p] EXCEPT !.thread = t] \in FreezerRecords
    BY <1>0 DEF FreezerRecords
  <2>2. [fz[p] EXCEPT !.thread = "ended", !.child = TRUE] \in FreezerRecords
    BY <1>0 DEF FreezerRecords
  <2>3. \/ \E t \in {"sleeping", "launched", "ended"} :
             fz' = [fz EXCEPT ![p] = [fz[p] EXCEPT !.thread = t]]
        \/ fz' = [fz EXCEPT ![p] = [fz[p] EXCEPT !.thread = "ended", !.child = TRUE]]
    BY <1>3 DEF StartProc, Launcher, ThreadLaunches, ThreadAssigns
  <2> QED BY <2>1, <2>2, <2>3
<1>4. CASE Handlers(p)
  <2>1. \A s \in 0..2 : [fz[p] EXCEPT !.sig = s] \in FreezerRecords
    BY <1>0 DEF FreezerRecords
  <2>2. fz[p].sig \in 0..2 /\ 1 \in 0..2 /\ 2 \in 0..2
    BY <1>0 DEF FreezerRecords
  <2>3. \E s \in {1, 2, fz[p].sig} : fz' = [fz EXCEPT ![p] = [fz[p] EXCEPT !.sig = s]]
    BY <1>4 DEF Handlers, sigusr1_handler, sigchld_handler
  <2> QED BY <2>1, <2>2, <2>3
<1>5. CASE Report(p) \/ Crash(p)
  <2>1. NewFreezer \in FreezerRecords
    BY RetryAssumption DEF NewFreezer, FreezerRecords
  <2> QED BY <1>5, <2>1 DEF Report, Crash
<1> QED
  BY <1>1, <1>2, <1>3, <1>4, <1>5 DEF MainThread, Binary, Start, StartProcReturns,
    DrainOutput, Decide, SnapDisk, SnapshotsDone, SnapshotRaises, ParallelRaises, ThawSafe,
    ThawWait, ThawDrain, Unlock, RemoveLockFile, ThawAgain, BinaryWorks, BinaryExits

-----------------------------------------------------------------------------
(* p's main thread goes to one of the labels in S; its record keeps its type. *)
RunStep(p, S) ==
  \E r \in RunRecords : r.pc \in S /\ run' = [run EXCEPT ![p] = r]

(* The labels at which the lock is not tried. *)
Elsewhere == RunPc \ {"openlock", "lockf"}

(* Every run record a step of p makes is of its type, and only freeze_safe *)
(* and the loop over the lock lead to another attempt on it.               *)
LEMMA RunRecordStep ==
  ASSUME RunTypeOK, NEW p \in Freezers,
         MainThread(p) \/ Handlers(p) \/ Launcher(p) \/ Binary(p) \/ Crash(p)
  PROVE  \/ UNCHANGED run
         \/ RunStep(p, Elsewhere)
         \/ RunStep(p, RunPc) /\ (FreezeSafe(p) \/ OpenLockFile(p) \/ LockFile(p))
<1>0. run[p] \in RunRecords
  BY DEF RunTypeOK
<1>1. \A x \in RunPc : Goto(p, x) => RunStep(p, {x})
  <2> SUFFICES ASSUME NEW x \in RunPc, Goto(p, x)
               PROVE  RunStep(p, {x})
    OBVIOUS
  <2>1. [run[p] EXCEPT !.pc = x] \in RunRecords /\ [run[p] EXCEPT !.pc = x].pc = x
    BY <1>0 DEF RunRecords
  <2>2. run' = [run EXCEPT ![p] = [run[p] EXCEPT !.pc = x]]
    BY DEF Goto
  <2> QED BY <2>1, <2>2 DEF RunStep
<1>2. NewRun \in RunRecords
  BY DEF NewRun, NoVerdict, RunRecords, RunPc, Verdicts, Results
<1>3. \A x \in RunPc, ok \in BOOLEAN :
        /\ [run[p] EXCEPT !.pc = x, !.ok = ok] \in RunRecords
        /\ [run[p] EXCEPT !.pc = x, !.ok = ok].pc = x
  BY <1>0 DEF RunRecords
<1>4. ASSUME NEW via \in {"guest", "host"}, Begin(p, via)
      PROVE  RunStep(p, Elsewhere)
  <2> DEFINE pcv == IF job[p].freezeOn THEN "freeze" ELSE "decide"
  <2>1. pcv \in RunPc
    BY DEF RunPc
  <2>2. "after" \in RunPc
    BY DEF RunPc
  <2> HIDE DEF pcv
  <2>3. /\ [NewRun EXCEPT !.via = via, !.pc = pcv] \in RunRecords
        /\ [NewRun EXCEPT !.via = via, !.pc = pcv].pc = pcv
    BY <1>2, <2>1 DEF RunRecords
  <2>4. \A empty \in BOOLEAN :
          LET r == [NewRun EXCEPT !.via = via, !.pc = "after", !.ok = FALSE,
                                  !.allFailed = empty, !.allSnapsFailed = empty]
          IN r \in RunRecords /\ r.pc = "after"
    BY <1>2, <2>2 DEF RunRecords
  <2>5. \/ run' = [run EXCEPT ![p] = [NewRun EXCEPT !.via = via, !.pc = pcv]]
        \/ \E empty \in BOOLEAN :
             run' = [run EXCEPT ![p] =
                [NewRun EXCEPT !.via = via, !.pc = "after", !.ok = FALSE,
                         !.allFailed = empty, !.allSnapsFailed = empty]]
    BY <1>4 DEF Begin, pcv
  <2>6. pcv \notin {"openlock", "lockf"}
    BY DEF pcv
  <2> QED BY <2>1, <2>2, <2>3, <2>4, <2>5, <2>6 DEF RunStep, Elsewhere
<1>5. CASE Start(p)
  BY <1>4, <1>5 DEF Start
<1>6. CASE FreezeSafe(p)
  <2>1. {"decide", "openlock", "startproc"} \subseteq RunPc
    BY DEF RunPc
  <2>2. \/ \E x \in {"openlock", "startproc"} : Goto(p, x)
        \/ \E ok \in BOOLEAN :
             run' = [run EXCEPT ![p] = [run[p] EXCEPT !.pc = "decide", !.ok = ok]]
    BY <1>6 DEF FreezeSafe
  <2>3. \A x \in {"openlock", "startproc"} : Goto(p, x) => RunStep(p, RunPc)
    BY <1>1, <2>1 DEF RunStep
  <2>4. ASSUME NEW ok \in BOOLEAN,
               run' = [run EXCEPT ![p] = [run[p] EXCEPT !.pc = "decide", !.ok = ok]]
        PROVE  RunStep(p, RunPc)
    BY <1>3, <2>1, <2>4 DEF RunStep
  <2> QED BY <1>6, <2>2, <2>3, <2>4
<1>7. CASE OpenLockFile(p) \/ LockFile(p)
  <2>1. \E x \in {"lockf", "openlock", "startproc"} : Goto(p, x)
    BY <1>7 DEF OpenLockFile, LockFile, CountRetry
  <2> QED BY <1>1, <1>7, <2>1 DEF RunStep, RunPc
<1>8. CASE StartProc(p) \/ DrainOutput(p) \/ Unlock(p)
  <2>1. \E x \in {"wait", "decide", "remove"} : Goto(p, x)
    BY <1>8 DEF StartProc, DrainOutput, Unlock
  <2> QED BY <1>1, <2>1 DEF RunStep, Elsewhere, RunPc
<1>9. CASE StartProcReturns(p)
  <2>1. {"drain", "decide"} \subseteq RunPc
    BY DEF RunPc
  <2>2. \/ Goto(p, "decide")
        \/ \E x \in {"drain", "decide"} :
             run' = [run EXCEPT ![p] = [run[p] EXCEPT !.pc = x, !.ok = FALSE]]
    BY <1>9 DEF StartProcReturns
  <2>3. Goto(p, "decide") => RunStep(p, Elsewhere)
    BY <1>1, <2>1 DEF RunStep, Elsewhere
  <2>4. ASSUME NEW x \in {"drain", "decide"},
               run' = [run EXCEPT ![p] = [run[p] EXCEPT !.pc = x, !.ok = FALSE]]
        PROVE  RunStep(p, Elsewhere)
    <3>1. x \in Elsewhere
      BY <2>1 DEF Elsewhere
    <3> QED BY <1>3, <2>1, <2>4, <3>1 DEF RunStep
  <2> QED BY <2>2, <2>3, <2>4
<1>10. CASE Decide(p)
  <2>1. {"thaw", "snap", "after"} \subseteq RunPc
    BY DEF RunPc
  <2>2. LET r == [run[p] EXCEPT !.pc = "thaw", !.ctx = "late", !.ok = FALSE,
                                !.allFailed = TRUE, !.allSnapsFailed = TRUE]
        IN r \in RunRecords /\ r.pc = "thaw"
    BY <1>0, <2>1 DEF RunRecords
  <2>3. \A par \in BOOLEAN :
          /\ [run[p] EXCEPT !.pc = "snap", !.par = par] \in RunRecords
          /\ [run[p] EXCEPT !.pc = "snap", !.par = par].pc = "snap"
    BY <1>0, <2>1 DEF RunRecords
  <2>4. \/ run' = [run EXCEPT ![p] =
                [run[p] EXCEPT !.pc = "thaw", !.ctx = "late", !.ok = FALSE,
                       !.allFailed = TRUE, !.allSnapsFailed = TRUE]]
        \/ \E par \in BOOLEAN :
             run' = [run EXCEPT ![p] = [run[p] EXCEPT !.pc = "snap", !.par = par]]
        \/ Goto(p, "after")
    BY <1>10 DEF Decide
  <2>5. Goto(p, "after") => RunStep(p, Elsewhere)
    BY <1>1, <2>1 DEF RunStep, Elsewhere
  <2>6. "thaw" \in Elsewhere /\ "snap" \in Elsewhere
    BY <2>1 DEF Elsewhere
  <2> QED BY <2>2, <2>3, <2>4, <2>5, <2>6 DEF RunStep
<1>11. CASE SnapDisk(p)
  <2>1. \A s, g \in SUBSET Disks :
          /\ [run[p] EXCEPT !.shot = s, !.good = g] \in RunRecords
          /\ [run[p] EXCEPT !.shot = s, !.good = g].pc = run[p].pc
    BY <1>0 DEF RunRecords
  <2>2. run[p].shot \subseteq Disks /\ run[p].good \subseteq Disks
    BY <1>0 DEF RunRecords
  <2>3. \E s, g \in SUBSET Disks :
          run' = [run EXCEPT ![p] = [run[p] EXCEPT !.shot = s, !.good = g]]
    <3>1. PICK d \in Disks, good \in BOOLEAN :
            run' = [run EXCEPT ![p].shot = @ \cup {d},
                               ![p].good = IF good THEN @ \cup {d} ELSE @]
      BY <1>11 DEF SnapDisk
    <3> DEFINE s == run[p].shot \cup {d}
               g == IF good THEN run[p].good \cup {d} ELSE run[p].good
    <3>2. s \in SUBSET Disks /\ g \in SUBSET Disks
      BY <2>2
    <3>3. run' = [run EXCEPT ![p] = [run[p] EXCEPT !.shot = s, !.good = g]]
      BY <3>1
    <3> QED BY <3>2, <3>3
  <2>4. run[p].pc = "snap"
    BY <1>11 DEF SnapDisk, At
  <2>5. run[p].pc \in Elsewhere
    BY <2>4 DEF Elsewhere, RunPc
  <2> QED BY <2>1, <2>3, <2>5 DEF RunStep
<1>12. CASE SnapshotsDone(p)
  <2>1. PICK info, limited \in BOOLEAN :
          LET g == IF info THEN run[p].good ELSE {} IN
          /\ run[p].via = "guest" => info
          /\ limited => info /\ g # Disks
          /\ run' = [run EXCEPT ![p].pc = IF job[p].freezeOn THEN "thaw" ELSE "after",
                                ![p].ctx = "snap", ![p].good = g, ![p].info = info,
                                ![p].limited = limited, ![p].allFailed = (g = {}),
                                ![p].allSnapsFailed = (run[p].via = "guest" /\ g = {})]
    BY <1>12, Zenon DEF SnapshotsDone
  <2> DEFINE x == IF job[p].freezeOn THEN "thaw" ELSE "after"
             g == IF info THEN run[p].good ELSE {}
             all == g = {}
             snaps == run[p].via = "guest" /\ g = {}
  <2>2. x \in Elsewhere /\ x \in RunPc
    BY DEF RunPc, Elsewhere
  <2>3. g \in SUBSET Disks
    BY <1>0 DEF RunRecords
  <2>4. all \in BOOLEAN /\ snaps \in BOOLEAN
    OBVIOUS
  <2>5. run' = [run EXCEPT ![p] =
          [run[p] EXCEPT !.pc = x, !.ctx = "snap", !.good = g, !.info = info,
                         !.limited = limited, !.allFailed = all, !.allSnapsFailed = snaps]]
    BY <2>1
  <2> HIDE DEF x, g, all, snaps
  <2>6. [run[p] EXCEPT !.pc = x, !.ctx = "snap", !.good = g, !.info = info,
                       !.limited = limited, !.allFailed = all, !.allSnapsFailed = snaps]
          \in RunRecords
    BY <1>0, <2>1, <2>2, <2>3, <2>4 DEF RunRecords
  <2> QED BY <1>0, <2>2, <2>5, <2>6 DEF RunStep, RunRecords
<1>13. CASE SnapshotRaises(p)
  <2>1. PICK limited \in BOOLEAN :
          run' = [run EXCEPT ![p].pc = "after", ![p].limited = limited,
                             ![p].allFailed = (run[p].good = {})]
    BY <1>13 DEF SnapshotRaises
  <2> DEFINE all == run[p].good = {}
  <2>2. "after" \in RunPc /\ all \in BOOLEAN
    BY DEF RunPc
  <2>3. run' = [run EXCEPT ![p] =
          [run[p] EXCEPT !.pc = "after", !.limited = limited, !.allFailed = all]]
    BY <2>1
  <2> HIDE DEF all
  <2>4. [run[p] EXCEPT !.pc = "after", !.limited = limited, !.allFailed = all] \in RunRecords
    BY <1>0, <2>1, <2>2 DEF RunRecords
  <2> QED BY <1>0, <2>2, <2>3, <2>4 DEF RunStep, Elsewhere, RunRecords
<1>14. CASE ParallelRaises(p)
  <2>1. "after" \in RunPc
    BY DEF RunPc
  <2>2. [run[p] EXCEPT !.par = FALSE] \in RunRecords
    BY <1>0 DEF RunRecords
  <2>3. [run[p] EXCEPT !.pc = "after", !.allFailed = TRUE, !.good = {}] \in RunRecords
    BY <1>0, <2>1 DEF RunRecords
  <2>4. \/ run' = [run EXCEPT ![p] = [run[p] EXCEPT !.par = FALSE]]
        \/ run' = [run EXCEPT ![p] =
                     [run[p] EXCEPT !.pc = "after", !.allFailed = TRUE, !.good = {}]]
    BY <1>14 DEF ParallelRaises
  <2>5. run[p].pc = "snap"
    BY <1>14 DEF ParallelRaises, At
  <2> QED BY <1>0, <2>1, <2>2, <2>3, <2>4, <2>5 DEF RunStep, Elsewhere, RunRecords
<1>15. CASE ThawSafe(p) \/ ThawWait(p) \/ ThawDrain(p)
  <2>1. {"thawwait", "thawdrain", "unlock"} \subseteq Elsewhere /\ Elsewhere \subseteq RunPc
    BY DEF Elsewhere, RunPc
  <2>2. \A e, n : ThawReturns(p, e, n) /\ e \in BOOLEAN /\ n \in BOOLEAN
          => RunStep(p, Elsewhere)
    <3> SUFFICES ASSUME NEW e \in BOOLEAN, NEW n \in BOOLEAN, ThawReturns(p, e, n)
                 PROVE  RunStep(p, Elsewhere)
      OBVIOUS
    <3>1. [run[p] EXCEPT !.pc = "unlock", !.thawErr = e, !.noSleep = n] \in RunRecords
      BY <1>0, <2>1 DEF RunRecords
    <3>2. run' = [run EXCEPT ![p] =
                    [run[p] EXCEPT !.pc = "unlock", !.thawErr = e, !.noSleep = n]]
      BY DEF ThawReturns
    <3> QED BY <1>0, <2>1, <3>1, <3>2 DEF RunStep, Elsewhere, RunRecords
  <2>3. CASE ThawSafe(p)
    <3> DEFINE slept == status[p] = SLEEP_FAILED
    <3>1. slept \in BOOLEAN
      OBVIOUS
    <3>2. \/ Goto(p, "thawwait")
          \/ ThawReturns(p, FALSE, FALSE)
          \/ ThawReturns(p, TRUE, FALSE)
          \/ ThawReturns(p, TRUE, slept)
      BY <2>3 DEF ThawSafe
    <3> HIDE DEF slept
    <3>3. ~Goto(p, "thawwait") \/ RunStep(p, Elsewhere)
      BY <1>1, <2>1 DEF RunStep
    <3> QED BY <2>2, <3>1, <3>2, <3>3
  <2>4. CASE ThawWait(p)
    <3> DEFINE err == status[p] # EXIT_SUCCESS
    <3>1. err \in BOOLEAN
      OBVIOUS
    <3>2. Goto(p, "thawdrain") \/ ThawReturns(p, err, FALSE)
      BY <2>4 DEF ThawWait
    <3> HIDE DEF err
    <3>3. ~Goto(p, "thawdrain") \/ RunStep(p, Elsewhere)
      BY <1>1, <2>1 DEF RunStep
    <3> QED BY <2>2, <3>1, <3>2, <3>3
  <2>5. CASE ThawDrain(p)
    <3>1. PICK polled \in BOOLEAN : ThawReturns(p, ~polled \/ status[p] # EXIT_SUCCESS, FALSE)
      BY <2>5 DEF ThawDrain
    <3> DEFINE err == ~polled \/ status[p] # EXIT_SUCCESS
    <3>2. err \in BOOLEAN
      OBVIOUS
    <3>3. ThawReturns(p, err, FALSE)
      BY <3>1
    <3> HIDE DEF err
    <3> QED BY <2>2, <3>2, <3>3
  <2> QED BY <1>15, <2>3, <2>4, <2>5
<1>16. CASE RemoveLockFile(p)
  <2>1. "after" \in RunPc
    BY DEF RunPc
  <2>2. CASE run[p].ctx = "again" /\ Begin(p, "host")
    BY <1>4, <2>2
  <2>3. CASE run' = [run EXCEPT ![p].pc = "after", ![p].noSleep = FALSE, ![p].thawErr = FALSE]
    <3>1. [run[p] EXCEPT !.pc = "after", !.noSleep = FALSE, !.thawErr = FALSE] \in RunRecords
      BY <1>0, <2>1 DEF RunRecords
    <3>2. run' = [run EXCEPT ![p] =
                   [run[p] EXCEPT !.pc = "after", !.noSleep = FALSE, !.thawErr = FALSE]]
      BY <2>3
    <3> QED BY <1>0, <2>1, <3>1, <3>2 DEF RunStep, Elsewhere, RunRecords
  <2>4. CASE run' = [run EXCEPT ![p].pc = "after", ![p].thawErr = FALSE,
                  ![p].inconsistent = /\ run[p].thawErr
                                      /\ run[p].via = "host" \/ run[p].good = Disks]
    <3> DEFINE bad == /\ run[p].thawErr
                      /\ run[p].via = "host" \/ run[p].good = Disks
    <3>1. bad \in BOOLEAN
      OBVIOUS
    <3>2. run' = [run EXCEPT ![p] =
                   [run[p] EXCEPT !.pc = "after", !.thawErr = FALSE, !.inconsistent = bad]]
      BY <2>4
    <3> HIDE DEF bad
    <3>3. [run[p] EXCEPT !.pc = "after", !.thawErr = FALSE, !.inconsistent = bad] \in RunRecords
      BY <1>0, <2>1, <3>1 DEF RunRecords
    <3> QED BY <1>0, <2>1, <3>2, <3>3 DEF RunStep, Elsewhere, RunRecords
  <2>5. CASE run' = [run EXCEPT ![p].pc = "after", ![p].thawErr = FALSE,
                  ![p].inconsistent = TRUE, ![p].good = {}, ![p].allFailed = TRUE,
                  ![p].allSnapsFailed = FALSE, ![p].limited = FALSE]
    <3>1. [run[p] EXCEPT !.pc = "after", !.thawErr = FALSE, !.inconsistent = TRUE, !.good = {},
                         !.allFailed = TRUE, !.allSnapsFailed = FALSE, !.limited = FALSE]
            \in RunRecords
      BY <1>0, <2>1 DEF RunRecords
    <3>2. run' = [run EXCEPT ![p] =
            [run[p] EXCEPT !.pc = "after", !.thawErr = FALSE, !.inconsistent = TRUE, !.good = {},
                           !.allFailed = TRUE, !.allSnapsFailed = FALSE, !.limited = FALSE]]
      BY <2>5
    <3> QED BY <1>0, <2>1, <3>1, <3>2 DEF RunStep, Elsewhere, RunRecords
  <2> QED BY <1>16, <2>2, <2>3, <2>4, <2>5 DEF RemoveLockFile, Thawed
<1>17. CASE ThawAgain(p)
  <2>1. "thaw" \in RunPc
    BY DEF RunPc
  <2>2. [run[p] EXCEPT !.pc = "thaw", !.ctx = "again"] \in RunRecords
    BY <1>0, <2>1 DEF RunRecords
  <2>3. run' = [run EXCEPT ![p] = [run[p] EXCEPT !.pc = "thaw", !.ctx = "again"]]
    BY <1>17 DEF ThawAgain
  <2> QED BY <1>0, <2>1, <2>2, <2>3 DEF RunStep, Elsewhere, RunRecords
<1>18. CASE Crash(p)
  <2>1. "dead" \in RunPc
    BY DEF RunPc
  <2>2. [NewRun EXCEPT !.pc = "dead"] \in RunRecords
    BY <1>2, <2>1 DEF RunRecords
  <2>3. run' = [run EXCEPT ![p] = [NewRun EXCEPT !.pc = "dead"]]
    BY <1>18 DEF Crash
  <2> QED BY <1>2, <2>1, <2>2, <2>3 DEF RunStep, Elsewhere, RunRecords
<1>19. CASE Report(p)
  <2>1. PICK workloadError \in BOOLEAN :
         LET r == FreezeSnapshotResult(p)
             v == IF job[p].workload THEN AfterWorkload(p, r, workloadError) ELSE r
         IN run' = [run EXCEPT ![p] =
               [NewRun EXCEPT !.pc = "done", !.via = run[p].via,
                  !.shot = run[p].shot, !.good = run[p].good,
                  !.verdict = [status |-> v.status, result |-> v.result,
                               crash |-> CrashConsistent(p)]]]
    BY <1>19 DEF Report
  <2> DEFINE r == FreezeSnapshotResult(p)
             v == IF job[p].workload THEN AfterWorkload(p, r, workloadError) ELSE r
             crash == CrashConsistent(p)
             verdict == [status |-> v.status, result |-> v.result, crash |-> crash]
  <2>2. /\ r.status \in {"none", "success", "error"} /\ r.result \in Results
        /\ r = [status |-> r.status, result |-> r.result]
    BY DEF FreezeSnapshotResult, Updated, Results
  <2>3. v.status \in {"none", "success", "error"} /\ v.result \in Results
    <3> HIDE DEF r
    <3> QED BY <2>2 DEF AfterWorkload, Results
  <2>4. crash \in BOOLEAN
    BY DEF CrashConsistent
  <2>5. verdict \in Verdicts
    <3> HIDE DEF v, crash
    <3> QED BY <2>3, <2>4 DEF Verdicts
  <2>6. run' = [run EXCEPT ![p] =
          [NewRun EXCEPT !.pc = "done", !.via = run[p].via,
             !.shot = run[p].shot, !.good = run[p].good, !.verdict = verdict]]
    BY <2>1
  <2>7. "done" \in RunPc
    BY DEF RunPc
  <2> HIDE DEF verdict
  <2>8. [NewRun EXCEPT !.pc = "done", !.via = run[p].via,
           !.shot = run[p].shot, !.good = run[p].good, !.verdict = verdict] \in RunRecords
    BY <1>0, <1>2, <2>5, <2>7 DEF RunRecords
  <2> QED BY <1>2, <2>6, <2>7, <2>8 DEF RunStep, Elsewhere, RunRecords
<1> QED
  BY <1>5, <1>6, <1>7, <1>8, <1>9, <1>10, <1>11, <1>12, <1>13, <1>14, <1>15, <1>16, <1>17, <1>18, <1>19
  DEF MainThread, Handlers, Launcher, Binary, sigusr1_handler, sigchld_handler,
    ThreadLaunches, ThreadAssigns, BinaryWorks, BinaryExits

(* A daemon that may try the lock has tries left. *)
LEMMA RetriesStep ==
  ASSUME RunTypeOK, FreezerTypeOK, RetriesOK, NEW p \in Freezers,
         MainThread(p) \/ Handlers(p) \/ Launcher(p) \/ Binary(p) \/ Crash(p)
  PROVE  RetriesOK'
<1> SUFFICES ASSUME NEW q \in Freezers, run'[q].pc \in {"openlock", "lockf"}
             PROVE  fz'[q].retries < MaxLockRetry
  BY DEF RetriesOK
<1>0. run[p] \in RunRecords /\ fz[p] \in FreezerRecords
  BY DEF RunTypeOK, FreezerTypeOK
<1>1. CASE q # p
  <2>1. run'[q] = run[q] /\ fz'[q] = fz[q]
    BY <1>1, FreezerRecordStep, RunRecordStep DEF RunStep, RunTypeOK, FreezerTypeOK
  <2> QED BY <2>1 DEF RetriesOK
<1>2. CASE q = p
  <2>1. CASE FreezeSafe(p)
    <3>1. CASE run'[p].pc = "decide"
      BY <1>2, <3>1
    <3>2. CASE /\ Goto(p, IF fz[p].retries < MaxLockRetry THEN "openlock" ELSE "startproc")
               /\ fz' = [fz EXCEPT ![p].skip = FALSE, ![p].sig = 0, ![p].child = FALSE]
      <4>1. run'[p].pc = IF fz[p].retries < MaxLockRetry THEN "openlock" ELSE "startproc"
        BY <1>0, <3>2 DEF Goto, RunTypeOK, RunRecords
      <4>2. fz'[p].retries = fz[p].retries
        BY <1>0, <3>2 DEF FreezerTypeOK, FreezerRecords
      <4> QED BY <1>2, <4>1, <4>2
    <3>3. ASSUME NEW ok, run' = [run EXCEPT ![p].pc = "decide", ![p].ok = ok]
          PROVE  run'[p].pc = "decide"
      BY <1>0, <3>3 DEF RunTypeOK, RunRecords
    <3> QED BY <2>1, <3>1, <3>2, <3>3 DEF FreezeSafe
  <2>2. CASE OpenLockFile(p)
    <3>1. CASE fz' = [fz EXCEPT ![p].acquired = FALSE]
      BY <1>0, <1>2, <2>2, <3>1 DEF OpenLockFile, At, RetriesOK, FreezerTypeOK, FreezerRecords
    <3>2. CASE fz' = [fz EXCEPT ![p].retries = @ + 1] /\ CountRetry(p)
      BY <1>0, <1>2, <3>2 DEF CountRetry, Goto, RunTypeOK, FreezerTypeOK, RunRecords, FreezerRecords
    <3> QED BY <2>2, <3>1, <3>2 DEF OpenLockFile
  <2>3. CASE LockFile(p)
    <3>1. CASE Goto(p, "startproc")
      BY <1>0, <1>2, <3>1 DEF Goto, RunTypeOK, RunRecords
    <3>2. CASE fz' = [fz EXCEPT ![p].retries = @ + 1] /\ CountRetry(p)
      BY <1>0, <1>2, <3>2 DEF CountRetry, Goto, RunTypeOK, FreezerTypeOK, RunRecords, FreezerRecords
    <3> QED BY <2>3, <3>1, <3>2 DEF LockFile
  <2>4. CASE RunStep(p, Elsewhere)
    BY <1>2, <2>4 DEF RunStep, Elsewhere, RunTypeOK
  <2>5. CASE UNCHANGED run /\ ~(FreezeSafe(p) \/ OpenLockFile(p) \/ LockFile(p))
    <3>1. CASE Report(p)
      <4>1. run[p].pc = "after"
        BY <3>1 DEF Report, At
      <4> QED BY <1>2, <2>5, <4>1
    <3>2. CASE Crash(p)
      <4>1. run'[p].pc = "dead"
        BY <3>2 DEF Crash, RunTypeOK, NewRun
      <4> QED BY <1>2, <4>1
    <3>3. CASE Handlers(p) \/ Launcher(p) \/ StartProc(p)
      <4>1. fz'[p].retries = fz[p].retries
        BY <1>0, <3>3 DEF StartProc, Handlers, Launcher, sigusr1_handler, sigchld_handler,
          ThreadLaunches, ThreadAssigns, FreezerTypeOK, FreezerRecords
      <4> QED BY <1>2, <2>5, <4>1 DEF RetriesOK
    <3>4. CASE UNCHANGED fz
      BY <1>2, <2>5, <3>4 DEF RetriesOK
    <3> QED
      BY <2>5, <3>1, <3>2, <3>3, <3>4 DEF MainThread, Binary, Start, StartProcReturns,
        DrainOutput, Decide, SnapDisk, SnapshotsDone, SnapshotRaises, ParallelRaises, ThawSafe,
        ThawWait, ThawDrain, Unlock, RemoveLockFile, ThawAgain, BinaryWorks, BinaryExits
  <2> QED
    BY <2>1, <2>2, <2>3, <2>4, <2>5, RunRecordStep
<1> QED BY <1>1, <1>2

LEMMA ProcTypeStep ==
  ASSUME ProcTypeOK, [Next]_vars
  PROVE  ProcTypeOK'
<1>1. CASE UNCHANGED vars
  BY <1>1 DEF vars, procVars, ProcTypeOK, SignalTypeOK, FreezerTypeOK, RunTypeOK,
    HistoryTypeOK, RetriesOK
<1>2. ASSUME NEW p \in Freezers,
             MainThread(p) \/ Handlers(p) \/ Launcher(p) \/ Binary(p) \/ Crash(p)
      PROVE  FreezerTypeOK' /\ RunTypeOK' /\ RetriesOK'
  <2>1. FreezerTypeOK'
    BY <1>2, FreezerRecordStep DEF ProcTypeOK, FreezerTypeOK
  <2>2. RunTypeOK'
    BY <1>2, RunRecordStep DEF ProcTypeOK, RunTypeOK, RunStep
  <2>3. RetriesOK'
    BY <1>2, RetriesStep DEF ProcTypeOK
  <2> QED BY <2>1, <2>2, <2>3
<1> QED
  BY <1>1, <1>2, SignalTypeStep, HistoryTypeStep DEF Next, ProcTypeOK

(* Type correctness of the daemons with their binaries and the lock file:  *)
(* among others, no daemon tries the lock more often than it may.          *)
THEOREM TypeCorrect == Spec => []TypeOK
<1>1. Init => TypeOK
  BY BinTypeOKInit, LockTypeInit, ProcTypeInit DEF Init, TypeOK
<1>2. TypeOK /\ [Next]_vars => TypeOK'
  BY BinariesStep, BinTypeOKStep, LockTypeNext, ProcTypeStep DEF TypeOK
<1> QED
  BY <1>1, <1>2, PTL DEF Spec

-----------------------------------------------------------------------------
(***************************************************************************)
(* No success of the guest's way hides the loss of a part of the disks.  A *)
(* status of success needs either a run that went well, or an answer for   *)
(* all disks (info).  LossAt says that each of them means that every disk  *)
(* was tried, but for those behind a null blob, so that a missing one is   *)
(* seen in the results; and that a run that went well and failed           *)
(* altogether, whose status stays a success, has no snapshot at all.       *)
(***************************************************************************)
Ending == {"thaw", "thawwait", "thawdrain", "unlock", "remove", "after"}

WentWell(r) == r.pc \in Ending /\ r.ok /\ ~r.allFailed

LostAll(r) == r.allFailed => r.pc \in Ending /\ (r.ok => r.good = {})

Tells(r, i) ==
  r.verdict.result \in {"success", "appConsistent"} =>
    \/ r.good = r.shot /\ (r.shot = Disks \/ i.nullBlob)
    \/ r.verdict.result = "appConsistent" /\ r.good = {}

LossAt(r, i) ==
  /\ r.good \subseteq r.shot
  /\ r.info => r.shot = Disks
  /\ r.pc # "done" => r.verdict = NoVerdict
  /\ LostAll(r)
  /\ r.via = "guest" =>
       /\ WentWell(r) => r.shot = Disks \/ i.nullBlob
       /\ Tells(r, i)

LossInv == \A p \in Freezers : LossAt(run[p], job[p])

LEMMA NothingTold ==
  ASSUME NEW r, NEW i, r.verdict = NoVerdict
  PROVE  Tells(r, i)
BY DEF Tells, NoVerdict

LEMMA FreshRun ==
  ASSUME NEW r, NEW i, r.good \subseteq r.shot, r.info = FALSE, r.verdict = NoVerdict,
         LostAll(r), ~WentWell(r)
  PROVE  LossAt(r, i)
BY NothingTold DEF LossAt

(* A step within a run that keeps the results. *)
LEMMA SameResults ==
  ASSUME NEW q, NEW r, NEW i, LossAt(q, i), q.pc # "done", r.verdict = q.verdict,
         r.via = q.via, r.info = q.info, r.shot = q.shot, r.good = q.good,
         LostAll(r), WentWell(r) => WentWell(q)
  PROVE  LossAt(r, i)
BY NothingTold DEF LossAt

(* What p's main thread makes of its record, but for the report. *)
LossStep(p) == \E r : run' = [run EXCEPT ![p] = r] /\ LossAt(r, job[p])

LEMMA BeginLoss ==
  ASSUME NEW p \in Freezers, NEW via \in {"guest", "host"}, Begin(p, via)
  PROVE  LossStep(p)
<1> DEFINE pcv == IF job[p].freezeOn THEN "freeze" ELSE "decide"
<1>1. LossAt([NewRun EXCEPT !.via = via, !.pc = pcv], job[p])
  <2> DEFINE r == [NewRun EXCEPT !.via = via, !.pc = pcv]
  <2>1. r.good = {} /\ r.info = FALSE /\ r.verdict = NoVerdict /\ r.pc = pcv
        /\ r.allFailed = FALSE
    <3> HIDE DEF pcv
    <3> QED BY DEF NewRun
  <2> HIDE DEF r
  <2>2. ~WentWell(r)
    BY <2>1 DEF WentWell, Ending
  <2>3. LossAt(r, job[p])
    BY <2>1, <2>2, FreshRun DEF LostAll
  <2> QED BY <2>3 DEF r
<1>2. \A empty \in BOOLEAN :
        LossAt([NewRun EXCEPT !.via = via, !.pc = "after", !.ok = FALSE,
                              !.allFailed = empty, !.allSnapsFailed = empty], job[p])
  <2> TAKE empty \in BOOLEAN
  <2> DEFINE r == [NewRun EXCEPT !.via = via, !.pc = "after", !.ok = FALSE,
                                 !.allFailed = empty, !.allSnapsFailed = empty]
  <2>1. r.good = {} /\ r.info = FALSE /\ r.verdict = NoVerdict /\ r.ok = FALSE
        /\ r.pc = "after"
    BY DEF NewRun
  <2> HIDE DEF r
  <2>2. LossAt(r, job[p])
    BY <2>1, FreshRun DEF WentWell, LostAll, Ending
  <2> QED BY <2>2 DEF r
<1>3. \/ run' = [run EXCEPT ![p] = [NewRun EXCEPT !.via = via, !.pc = pcv]]
      \/ \E empty \in BOOLEAN :
           run' = [run EXCEPT ![p] =
              [NewRun EXCEPT !.via = via, !.pc = "after", !.ok = FALSE,
                             !.allFailed = empty, !.allSnapsFailed = empty]]
  BY DEF Begin
<1> HIDE DEF pcv
<1> QED BY <1>1, <1>2, <1>3 DEF LossStep

LEMMA MainLoss ==
  ASSUME RunTypeOK, LossInv, NEW p \in Freezers, MainThread(p), ~Report(p)
  PROVE  LossStep(p)
<1> DEFINE q == run[p]
<1>0. q \in RunRecords /\ LossAt(q, job[p])
  BY DEF RunTypeOK, LossInv
<1>1. ASSUME NEW x, Goto(p, x), q.pc # "done", q.pc \in Ending => x \in Ending,
             x \in Ending => q.pc \in Ending \/ ~q.ok
      PROVE  LossStep(p)
  <2> DEFINE r == [q EXCEPT !.pc = x]
  <2>1. /\ r.verdict = q.verdict /\ r.via = q.via /\ r.info = q.info /\ r.shot = q.shot
          /\ r.good = q.good
        /\ r.pc = x /\ r.ok = q.ok /\ r.allFailed = q.allFailed
    BY <1>0 DEF RunRecords
  <2>2. run' = [run EXCEPT ![p] = r]
    BY <1>1 DEF Goto
  <2> HIDE DEF r
  <2>3. LossAt(r, job[p])
    BY <1>0, <1>1, <2>1, SameResults DEF WentWell, LostAll, LossAt
  <2> QED BY <2>2, <2>3 DEF LossStep
<1>2. CASE Start(p)
  BY <1>2, BeginLoss DEF Start
<1>3. CASE FreezeSafe(p)
  <2>1. q.pc = "freeze"
    BY <1>3 DEF FreezeSafe, At
  <2>2. ASSUME NEW ok \in BOOLEAN, run' = [run EXCEPT ![p] = [q EXCEPT !.pc = "decide", !.ok = ok]]
        PROVE  LossStep(p)
    <3> DEFINE r == [q EXCEPT !.pc = "decide", !.ok = ok]
    <3>1. /\ r.verdict = q.verdict /\ r.via = q.via /\ r.info = q.info /\ r.shot = q.shot
          /\ r.good = q.good
          /\ ~WentWell(r) /\ LostAll(r)
      BY <1>0, <2>1 DEF RunRecords, WentWell, LostAll, LossAt, Ending
    <3> QED BY <1>0, <2>1, <2>2, <3>1, SameResults DEF LossStep
  <2> QED BY <1>1, <1>3, <2>1, <2>2 DEF FreezeSafe, Ending
<1>4. CASE OpenLockFile(p) \/ LockFile(p)
  <2>1. \E x \in {"lockf", "openlock", "startproc"} : Goto(p, x)
    BY <1>4 DEF OpenLockFile, LockFile, CountRetry
  <2>2. q.pc \in {"openlock", "lockf"}
    BY <1>4 DEF OpenLockFile, LockFile, At
  <2> QED BY <1>1, <2>1, <2>2 DEF Ending
<1>5. CASE StartProc(p) \/ DrainOutput(p)
  <2>1. \E x \in {"wait", "decide"} : Goto(p, x)
    BY <1>5 DEF StartProc, DrainOutput
  <2>2. q.pc \in {"startproc", "drain"}
    BY <1>5 DEF StartProc, DrainOutput, At
  <2> QED BY <1>1, <2>1, <2>2 DEF Ending
<1>6. CASE StartProcReturns(p)
  <2>1. q.pc = "wait"
    BY <1>6 DEF StartProcReturns, At
  <2>2. \/ Goto(p, "decide")
        \/ \E x \in {"drain", "decide"} : run' = [run EXCEPT ![p] = [q EXCEPT !.pc = x, !.ok = FALSE]]
    BY <1>6 DEF StartProcReturns
  <2>3. ASSUME NEW x \in {"drain", "decide"}, run' = [run EXCEPT ![p] = [q EXCEPT !.pc = x, !.ok = FALSE]]
        PROVE  LossStep(p)
    <3> DEFINE r == [q EXCEPT !.pc = x, !.ok = FALSE]
    <3>1. /\ r.verdict = q.verdict /\ r.via = q.via /\ r.info = q.info /\ r.shot = q.shot
          /\ r.good = q.good
          /\ ~WentWell(r) /\ LostAll(r)
      BY <1>0, <2>1 DEF RunRecords, WentWell, LostAll, LossAt, Ending
    <3> QED BY <1>0, <2>1, <2>3, <3>1, SameResults DEF LossStep
  <2> QED BY <1>1, <2>1, <2>2, <2>3 DEF Ending
<1>7. CASE Decide(p)
  <2>1. q.pc = "decide"
    BY <1>7 DEF Decide, At
  <2>2. CASE run' = [run EXCEPT ![p] = [q EXCEPT !.pc = "thaw", !.ctx = "late", !.ok = FALSE,
                                      !.allFailed = TRUE, !.allSnapsFailed = TRUE]]
    <3> DEFINE r == [q EXCEPT !.pc = "thaw", !.ctx = "late", !.ok = FALSE,
                              !.allFailed = TRUE, !.allSnapsFailed = TRUE]
    <3>1. /\ r.verdict = q.verdict /\ r.via = q.via /\ r.info = q.info /\ r.shot = q.shot
          /\ r.good = q.good
          /\ ~WentWell(r) /\ LostAll(r)
      BY <1>0 DEF RunRecords, WentWell, LostAll, Ending
    <3> QED BY <1>0, <2>1, <2>2, <3>1, SameResults DEF LossStep
  <2>3. ASSUME NEW par \in BOOLEAN, run' = [run EXCEPT ![p] = [q EXCEPT !.pc = "snap", !.par = par]]
        PROVE  LossStep(p)
    <3> DEFINE r == [q EXCEPT !.pc = "snap", !.par = par]
    <3>1. /\ r.verdict = q.verdict /\ r.via = q.via /\ r.info = q.info /\ r.shot = q.shot
          /\ r.good = q.good
          /\ ~WentWell(r) /\ LostAll(r)
      BY <1>0, <2>1 DEF RunRecords, WentWell, LostAll, LossAt, Ending
    <3> QED BY <1>0, <2>1, <2>3, <3>1, SameResults DEF LossStep
  <2>4. CASE ~q.ok /\ Goto(p, "after")
    BY <1>1, <2>1, <2>4 DEF Ending
  <2> QED BY <1>7, <2>2, <2>3, <2>4 DEF Decide
<1>8. CASE SnapDisk(p)
  <2>1. q.pc = "snap"
    BY <1>8 DEF SnapDisk, At
  <2>2. PICK d \in Disks \ q.shot, good \in BOOLEAN :
            run' = [run EXCEPT ![p].shot = @ \cup {d},
                               ![p].good = IF good THEN @ \cup {d} ELSE @]
    BY <1>8 DEF SnapDisk
  <2> DEFINE s == q.shot \cup {d}
             g == IF good THEN q.good \cup {d} ELSE q.good
             r == [q EXCEPT !.shot = s, !.good = g]
  <2>3. run' = [run EXCEPT ![p] = r]
    BY <2>2
  <2>4. r.verdict = q.verdict /\ r.info = q.info /\ r.pc = q.pc /\ r.shot = s /\ r.good = g
        /\ r.allFailed = q.allFailed
    <3> HIDE DEF s, g
    <3> QED BY <1>0 DEF RunRecords
  <2>5. q.info = FALSE /\ q.verdict = NoVerdict /\ g \subseteq s
    BY <1>0, <2>1, <2>2 DEF LossAt, RunRecords
  <2> HIDE DEF r
  <2>6. LossAt(r, job[p])
    <3> HIDE DEF s, g
    <3> QED BY <1>0, <2>1, <2>4, <2>5, FreshRun DEF WentWell, LostAll, LossAt, Ending
  <2> QED BY <2>3, <2>6 DEF LossStep
<1>9. CASE SnapshotsDone(p)
  <2>1. PICK info, limited \in BOOLEAN :
          LET g == IF info THEN run[p].good ELSE {} IN
          /\ run[p].via = "guest" => info
          /\ limited => info /\ g # Disks
          /\ run' = [run EXCEPT ![p].pc = IF job[p].freezeOn THEN "thaw" ELSE "after",
                                ![p].ctx = "snap", ![p].good = g, ![p].info = info,
                                ![p].limited = limited, ![p].allFailed = (g = {}),
                                ![p].allSnapsFailed = (run[p].via = "guest" /\ g = {})]
    BY <1>9, Zenon DEF SnapshotsDone
  <2> DEFINE x == IF job[p].freezeOn THEN "thaw" ELSE "after"
             g == IF info THEN q.good ELSE {}
             all == g = {}
             snaps == q.via = "guest" /\ g = {}
             r == [q EXCEPT !.pc = x, !.ctx = "snap", !.good = g, !.info = info,
                            !.limited = limited, !.allFailed = all, !.allSnapsFailed = snaps]
  <2>2. run' = [run EXCEPT ![p] = r]
    BY <2>1
  <2>3. q.shot = Disks /\ q.verdict = NoVerdict /\ x \in Ending
    BY <1>0, <1>9 DEF SnapshotsDone, At, LossAt, Ending
  <2>4. r.verdict = q.verdict /\ r.shot = q.shot /\ r.pc = x /\ r.good = g
        /\ r.allFailed = all
    <3> HIDE DEF x, g, all, snaps
    <3> QED BY <1>0 DEF RunRecords
  <2> HIDE DEF r, x
  <2>5. LossAt(r, job[p])
    <3>1. g \subseteq Disks
      BY <1>0, <2>3 DEF LossAt
    <3> HIDE DEF g
    <3> QED BY <2>3, <2>4, <3>1, NothingTold DEF LossAt, LostAll
  <2> QED BY <2>2, <2>5 DEF LossStep
<1>10. CASE SnapshotRaises(p)
  <2>1. PICK limited \in BOOLEAN :
          run' = [run EXCEPT ![p].pc = "after", ![p].limited = limited,
                             ![p].allFailed = (run[p].good = {})]
    BY <1>10 DEF SnapshotRaises
  <2> DEFINE all == q.good = {}
             r == [q EXCEPT !.pc = "after", !.limited = limited, !.allFailed = all]
  <2>2. run' = [run EXCEPT ![p] = r]
    BY <2>1
  <2>3. /\ q.pc = "snap" /\ q.verdict = NoVerdict
        /\ (q.via = "guest" /\ ~job[p].nullBlob) => q.shot = {}
    BY <1>0, <1>10 DEF SnapshotRaises, At, LossAt, NullBlob
  <2>4. /\ r.verdict = q.verdict /\ r.shot = q.shot /\ r.pc = "after" /\ r.info = q.info
        /\ r.via = q.via /\ r.good = q.good /\ r.allFailed = all
    <3> HIDE DEF all
    <3> QED BY <1>0 DEF RunRecords
  <2> HIDE DEF r
  <2>5. (q.via = "guest" /\ ~job[p].nullBlob) => q.good = {}
    BY <1>0, <2>3 DEF LossAt
  <2>6. LossAt(r, job[p])
    BY <1>0, <2>3, <2>4, <2>5, NothingTold DEF LossAt, LostAll, WentWell, Ending
  <2> QED BY <2>2, <2>6 DEF LossStep
<1>11. CASE ParallelRaises(p)
  <2>1. q.pc = "snap"
    BY <1>11 DEF ParallelRaises, At
  <2>2. CASE run' = [run EXCEPT ![p] = [q EXCEPT !.par = FALSE]]
    <3> DEFINE r == [q EXCEPT !.par = FALSE]
    <3>1. /\ r.verdict = q.verdict /\ r.via = q.via /\ r.info = q.info /\ r.shot = q.shot
          /\ r.good = q.good /\ r.pc = q.pc /\ r.allFailed = q.allFailed
      BY <1>0 DEF RunRecords
    <3> HIDE DEF r
    <3>2. LossAt(r, job[p])
      BY <1>0, <2>1, <3>1, SameResults DEF WentWell, LostAll, LossAt, Ending
    <3> QED BY <2>2, <3>2 DEF LossStep, r
  <2>3. CASE run' = [run EXCEPT ![p] = [q EXCEPT !.pc = "after", !.allFailed = TRUE, !.good = {}]]
    <3> DEFINE r == [q EXCEPT !.pc = "after", !.allFailed = TRUE, !.good = {}]
    <3>1. /\ r.verdict = q.verdict /\ r.info = q.info /\ r.good = {} /\ r.allFailed = TRUE
          /\ r.pc = "after"
      BY <1>0 DEF RunRecords
    <3>2. q.info = FALSE /\ q.verdict = NoVerdict
      BY <1>0, <1>11, <2>1 DEF ParallelRaises, LossAt, RunRecords
    <3> HIDE DEF r
    <3>3. LossAt(r, job[p])
      BY <3>1, <3>2, FreshRun DEF WentWell, LostAll, Ending
    <3> QED BY <2>3, <3>3 DEF LossStep, r
  <2> QED BY <1>11, <2>2, <2>3 DEF ParallelRaises
<1>12. CASE ThawSafe(p) \/ ThawWait(p) \/ ThawDrain(p)
  <2>1. q.pc \in {"thaw", "thawwait", "thawdrain"}
    BY <1>12 DEF ThawSafe, ThawWait, ThawDrain, At
  <2>2. ASSUME NEW e, NEW n, ThawReturns(p, e, n) PROVE LossStep(p)
    <3> DEFINE r == [q EXCEPT !.pc = "unlock", !.thawErr = e, !.noSleep = n]
    <3>1. /\ r.verdict = q.verdict /\ r.via = q.via /\ r.info = q.info /\ r.shot = q.shot
          /\ r.good = q.good /\ r.ok = q.ok /\ r.allFailed = q.allFailed
          /\ r.pc = "unlock"
      BY <1>0 DEF RunRecords
    <3>2. run' = [run EXCEPT ![p] = r]
      BY <2>2 DEF ThawReturns
    <3> HIDE DEF r
    <3>3. LossAt(r, job[p])
      BY <1>0, <2>1, <3>1, SameResults DEF WentWell, LostAll, LossAt, Ending
    <3> QED BY <3>2, <3>3 DEF LossStep
  <2>3. \/ \E x \in {"thawwait", "thawdrain"} : Goto(p, x)
        \/ \E e, n : ThawReturns(p, e, n)
    BY <1>12 DEF ThawSafe, ThawWait, ThawDrain
  <2> QED BY <1>1, <2>1, <2>2, <2>3 DEF Ending
<1>13. CASE Unlock(p)
  <2>1. q.pc = "unlock" /\ Goto(p, "remove")
    BY <1>13 DEF Unlock, At
  <2> QED BY <1>1, <2>1 DEF Ending
<1>14. CASE RemoveLockFile(p)
  <2>1. q.pc = "remove"
    BY <1>14 DEF RemoveLockFile, At
  <2>2. CASE Begin(p, "host")
    BY <2>2, BeginLoss
  <2>3. CASE run' = [run EXCEPT ![p].pc = "after", ![p].noSleep = FALSE, ![p].thawErr = FALSE]
    <3> DEFINE r == [q EXCEPT !.pc = "after", !.noSleep = FALSE, !.thawErr = FALSE]
    <3>1. /\ r.verdict = q.verdict /\ r.via = q.via /\ r.info = q.info /\ r.shot = q.shot
          /\ r.good = q.good /\ r.ok = q.ok /\ r.allFailed = q.allFailed /\ r.pc = "after"
      BY <1>0 DEF RunRecords
    <3>2. run' = [run EXCEPT ![p] = r]
      BY <2>3
    <3> HIDE DEF r
    <3>3. LossAt(r, job[p])
      BY <1>0, <2>1, <3>1, SameResults DEF WentWell, LostAll, LossAt, Ending
    <3> QED BY <3>2, <3>3 DEF LossStep
  <2>4. CASE run' = [run EXCEPT ![p].pc = "after", ![p].thawErr = FALSE,
                  ![p].inconsistent = /\ run[p].thawErr
                                      /\ run[p].via = "host" \/ run[p].good = Disks]
    <3> DEFINE bad == /\ run[p].thawErr
                      /\ run[p].via = "host" \/ run[p].good = Disks
               r == [q EXCEPT !.pc = "after", !.thawErr = FALSE, !.inconsistent = bad]
    <3>1. run' = [run EXCEPT ![p] = r]
      BY <2>4
    <3> HIDE DEF bad
    <3>2. /\ r.verdict = q.verdict /\ r.via = q.via /\ r.info = q.info /\ r.shot = q.shot
          /\ r.good = q.good /\ r.ok = q.ok /\ r.allFailed = q.allFailed /\ r.pc = "after"
      BY <1>0 DEF RunRecords
    <3> HIDE DEF r
    <3>3. LossAt(r, job[p])
      BY <1>0, <2>1, <3>2, SameResults DEF WentWell, LostAll, LossAt, Ending
    <3> QED BY <3>1, <3>3 DEF LossStep
  <2>5. CASE run' = [run EXCEPT ![p].pc = "after", ![p].thawErr = FALSE,
                  ![p].inconsistent = TRUE, ![p].good = {}, ![p].allFailed = TRUE,
                  ![p].allSnapsFailed = FALSE, ![p].limited = FALSE]
    <3> DEFINE r == [q EXCEPT !.pc = "after", !.thawErr = FALSE, !.inconsistent = TRUE,
                         !.good = {}, !.allFailed = TRUE, !.allSnapsFailed = FALSE,
                         !.limited = FALSE]
    <3>1. run' = [run EXCEPT ![p] = r]
      BY <2>5
    <3>2. /\ r.verdict = q.verdict /\ r.via = q.via /\ r.info = q.info /\ r.shot = q.shot
          /\ r.good = {} /\ r.allFailed = TRUE /\ r.pc = "after"
      BY <1>0 DEF RunRecords
    <3> HIDE DEF r
    <3>3. LossAt(r, job[p])
      BY <1>0, <2>1, <3>2, NothingTold DEF LossAt, LostAll, WentWell, Ending
    <3> QED BY <3>1, <3>3 DEF LossStep
  <2> QED BY <1>14, <2>2, <2>3, <2>4, <2>5 DEF RemoveLockFile, Thawed
<1>15. CASE ThawAgain(p)
  <2>1. q.pc = "after" /\ run' = [run EXCEPT ![p] = [q EXCEPT !.pc = "thaw", !.ctx = "again"]]
    BY <1>15 DEF ThawAgain, At
  <2> DEFINE r == [q EXCEPT !.pc = "thaw", !.ctx = "again"]
  <2>2. /\ r.verdict = q.verdict /\ r.via = q.via /\ r.info = q.info /\ r.shot = q.shot
        /\ r.good = q.good /\ r.ok = q.ok /\ r.allFailed = q.allFailed /\ r.pc = "thaw"
    BY <1>0 DEF RunRecords
  <2> HIDE DEF r
  <2>3. LossAt(r, job[p])
    BY <1>0, <2>1, <2>2, SameResults DEF WentWell, LostAll, LossAt, Ending
  <2> QED BY <2>1, <2>3 DEF LossStep, r
<1> QED
  BY <1>2, <1>3, <1>4, <1>5, <1>6, <1>7, <1>8, <1>9, <1>10, <1>11, <1>12, <1>13, <1>14, <1>15
  DEF MainThread

(* The status of the guest's way: a success hides nothing, or everything;  *)
(* and then the result is not a success.                                   *)
LEMMA StatusTells ==
  ASSUME RunTypeOK, LossInv, NEW p \in Freezers, run[p].pc = "after",
         run[p].via = "guest", FreezeSnapshotResult(p).status = "success"
  PROVE  \/ run[p].good = run[p].shot /\ (run[p].shot = Disks \/ job[p].nullBlob)
         \/ run[p].good = {} /\ FreezeSnapshotResult(p).result # "success"
<1> DEFINE q == run[p]
<1>0. q \in RunRecords /\ LossAt(q, job[p])
  BY DEF RunTypeOK, LossInv
<1>1. CASE CrashConsistent(p)
  <2>1. q.info /\ ~AnyDiskSeenFailed(p)
    BY <1>1 DEF CrashConsistent
  <2> QED BY <1>0, <2>1 DEF LossAt, AnyDiskSeenFailed
<1>2. CASE ~CrashConsistent(p)
  <2>1. q.ok /\ ~(AnyDiskSeenFailed(p) /\ ~q.allFailed)
    BY <1>2 DEF FreezeSnapshotResult, Updated
  <2>2. CASE q.allFailed
    <3>1. q.good = {}
      BY <1>0, <2>1, <2>2 DEF LossAt, LostAll
    <3>2. FreezeSnapshotResult(p).result # "success"
      BY <1>2, <2>2 DEF FreezeSnapshotResult, Updated
    <3> QED BY <3>1, <3>2
  <2>3. CASE ~q.allFailed
    <3>1. q.shot = Disks \/ job[p].nullBlob
      BY <1>0, <2>1, <2>3 DEF LossAt, WentWell, Ending
    <3> QED BY <2>1, <2>3, <3>1 DEF AnyDiskSeenFailed
  <2> QED BY <2>2, <2>3
<1> QED BY <1>1, <1>2

LEMMA ReportLoss ==
  ASSUME RunTypeOK, LossInv, NEW p \in Freezers, Report(p)
  PROVE  LossStep(p)
<1>0. run[p].pc = "after" /\ run[p] \in RunRecords /\ LossAt(run[p], job[p])
  BY DEF Report, At, RunTypeOK, LossInv
<1>1. PICK workloadError \in BOOLEAN :
       LET r == FreezeSnapshotResult(p)
           v == IF job[p].workload THEN AfterWorkload(p, r, workloadError) ELSE r
       IN run' = [run EXCEPT ![p] =
             [NewRun EXCEPT !.pc = "done", !.via = run[p].via,
                !.shot = run[p].shot, !.good = run[p].good,
                !.verdict = [status |-> v.status, result |-> v.result,
                             crash |-> CrashConsistent(p)]]]
  BY DEF Report
<1> DEFINE r == FreezeSnapshotResult(p)
           v == IF job[p].workload THEN AfterWorkload(p, r, workloadError) ELSE r
           verdict == [status |-> v.status, result |-> v.result, crash |-> CrashConsistent(p)]
           new == [NewRun EXCEPT !.pc = "done", !.via = run[p].via,
                     !.shot = run[p].shot, !.good = run[p].good, !.verdict = verdict]
<1>2. run' = [run EXCEPT ![p] = new]
  BY <1>1
<1>3. r = [status |-> r.status, result |-> r.result]
  BY DEF FreezeSnapshotResult, Updated
<1>4. r.result = "success" => r.status = "success"
  BY DEF FreezeSnapshotResult, Updated
<1>5. /\ verdict.result = "success" => r.result = "success"
      /\ verdict.result = "appConsistent" => r.status = "success"
  <2>1. r.result \in {"success", "failed"}
    BY DEF FreezeSnapshotResult, Updated
  <2> HIDE DEF r
  <2> QED BY <1>3, <2>1 DEF AfterWorkload
<1> HIDE DEF verdict
<1>6. /\ new.pc = "done" /\ new.via = run[p].via /\ new.good = run[p].good
      /\ new.shot = run[p].shot /\ new.verdict = verdict /\ new.info = FALSE
      /\ new.allFailed = FALSE
  BY DEF NewRun
<1> HIDE DEF new
<1>7. run[p].via = "guest" => Tells(new, job[p])
  <2> SUFFICES ASSUME run[p].via = "guest", verdict.result \in {"success", "appConsistent"}
               PROVE  \/ run[p].good = run[p].shot /\ (run[p].shot = Disks \/ job[p].nullBlob)
                      \/ verdict.result = "appConsistent" /\ run[p].good = {}
    BY <1>6 DEF Tells
  <2>1. r.status = "success"
    BY <1>4, <1>5
  <2>2. \/ run[p].good = run[p].shot /\ (run[p].shot = Disks \/ job[p].nullBlob)
        \/ run[p].good = {} /\ r.result # "success"
    BY <1>0, <2>1, StatusTells
  <2> QED BY <1>5, <2>2
<1>8. LossAt(new, job[p])
  BY <1>0, <1>6, <1>7 DEF LossAt, LostAll, WentWell, Ending
<1> QED BY <1>2, <1>8 DEF LossStep

LEMMA LossNext ==
  ASSUME TypeOK, LossInv, [Next]_vars
  PROVE  LossInv'
<1>0. RunTypeOK /\ job' = job
  <2>1. ASSUME NEW p \in Freezers, MainThread(p)
        PROVE  job' = job
    BY <2>1 DEF MainThread, Start, FreezeSafe, OpenLockFile, LockFile, StartProc,
      StartProcReturns, DrainOutput, Decide, SnapDisk, SnapshotsDone, SnapshotRaises,
      ParallelRaises, ThawSafe, ThawWait, ThawDrain, Unlock, RemoveLockFile, ThawAgain,
      Report
  <2>2. ASSUME NEW p \in Freezers, Handlers(p) \/ Launcher(p) \/ Binary(p) \/ Crash(p)
        PROVE  job' = job
    BY <2>2 DEF Handlers, Launcher, Binary, Crash, sigusr1_handler, sigchld_handler,
      ThreadLaunches, ThreadAssigns, BinaryWorks, BinaryExits
  <2>3. UNCHANGED vars => job' = job
    BY DEF vars, procVars
  <2> QED BY <2>1, <2>2, <2>3 DEF Next, TypeOK, ProcTypeOK
<1>1. CASE UNCHANGED run
  BY <1>0, <1>1 DEF LossInv
<1>2. ASSUME NEW p \in Freezers, LossStep(p)
      PROVE  LossInv'
  BY <1>0, <1>2 DEF LossStep, LossInv, RunTypeOK
<1>3. ASSUME NEW p \in Freezers, MainThread(p)
      PROVE  LossStep(p)
  BY <1>0, <1>3, MainLoss, ReportLoss
<1>4. ASSUME NEW p \in Freezers, Crash(p)
      PROVE  LossStep(p)
  <2> DEFINE r == [NewRun EXCEPT !.pc = "dead"]
  <2>1. r.good = {} /\ r.info = FALSE /\ r.verdict = NoVerdict /\ r.pc = "dead"
        /\ r.allFailed = FALSE
    BY DEF NewRun
  <2>2. run' = [run EXCEPT ![p] = r]
    BY <1>4 DEF Crash
  <2> HIDE DEF r
  <2>3. LossAt(r, job[p])
    BY <2>1, FreshRun DEF WentWell, LostAll, Ending
  <2> QED BY <2>2, <2>3 DEF LossStep
<1>5. ASSUME NEW p \in Freezers, Handlers(p) \/ Launcher(p) \/ Binary(p)
      PROVE  UNCHANGED run
  BY <1>5 DEF Handlers, Launcher, Binary, sigusr1_handler, sigchld_handler, ThreadLaunches,
    ThreadAssigns, BinaryWorks, BinaryExits
<1>6. CASE UNCHANGED vars
  BY <1>1, <1>6 DEF vars, procVars
<1> QED BY <1>1, <1>2, <1>3, <1>4, <1>5, <1>6 DEF Next

LEMMA LossHolds == Spec => []LossInv
<1>1. Init => LossInv
  <2> SUFFICES ASSUME Init, NEW p \in Freezers PROVE LossAt(run[p], job[p])
    BY DEF LossInv
  <2>1. run[p] = NewRun
    BY DEF Init
  <2>2. NewRun.good = {} /\ NewRun.info = FALSE /\ NewRun.verdict = NoVerdict /\ ~WentWell(NewRun)
        /\ NewRun.allFailed = FALSE
    BY DEF NewRun, WentWell, Ending
  <2> QED BY <2>1, <2>2, FreshRun DEF LostAll
<1>2. TypeOK /\ LossInv /\ [Next]_vars => LossInv'
  BY LossNext
<1> QED
  BY <1>1, <1>2, TypeCorrect, PTL DEF Spec

(* Whatever way a daemon goes, in sequence or in parallel, with a freeze   *)
(* that failed, a late command, a fallback, a null blob or a workload: a   *)
(* success of any kind that the guest's way reports has a snapshot of      *)
(* every disk it tried, and it tried all but those behind a null blob; the *)
(* one exception is an application-consistent report without any snapshot. *)
THEOREM NoDiskLossIsHidden == Spec => []GuestDiskLossIsReported
<1>1. LossInv => GuestDiskLossIsReported
  BY DEF LossInv, LossAt, Tells, GuestDiskLossIsReported, AllCaptured
<1> QED
  BY <1>1, LossHolds, PTL
=============================================================================
