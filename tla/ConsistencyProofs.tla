-------------------------- MODULE ConsistencyProofs --------------------------
(***************************************************************************)
(* The point of the VMBackup extension, proved for any number of daemons,  *)
(* disks, mounts and retries: the freeze guards the snapshots, and a       *)
(* success that is reported is consistent and leaves nothing frozen.       *)
(***************************************************************************)
EXTENDS FreezeSnapshotProofs

(***************************************************************************)
(* The inductive invariant.  The daemon knows its binary by a signal, a    *)
(* thread that launches it, and the object the thread assigns; what it may *)
(* infer from them depends on the label it is at:                          *)
(*   SignalInv  SIGUSR1 tells that all is frozen, and nothing is thawed    *)
(*              before the daemon asks for it, but by a binary that fails; *)
(*   FirstInv   a first attempt never leaves a binary behind that has not  *)
(*              been told to thaw, which could signal to the second one;   *)
(*   FreezeInv  from a freeze that succeeded to the end of the thaw: the   *)
(*              binary holds the freeze or has failed, and then the thaw   *)
(*              returns an error, or the binary is gone;                   *)
(*   ResultInv  what the results say once the thaw has returned;           *)
(*   TornInv    a gap in the freeze is one that the thaw reports;          *)
(*   HoldInv    the binary holds what it has frozen, but for what a rival  *)
(*              has thawed, which then never freezes again.                *)
(***************************************************************************)
Before   == {"start", "freeze", "openlock", "lockf", "startproc"}
Thawing  == {"thaw", "thawwait", "thawdrain", "unlock", "remove"}

(* The binary has still to tell its parent that all is frozen. *)
Young(p)  == bpc[p] \in {"open", "freeze", "notify"}
Told(p)   == (bpc[p] = "wait" \/ GaveUp(p)) /\ fz[p].thread # "sleeping"

(* The host's way after the guest's failed is the only second attempt. *)
First(p)  == job[p].mode = "firstGuestThenHost" => run[p].via = "guest"

Guarded(p) == Args[p] = <<>> \/ (Told(p) /\ ~fz[p].skip)
Settled(p) == fz[p].thread # "sleeping" /\ ((fz[p].child /\ ~fz[p].skip) \/ ~Young(p))
Calm(p)    == ~Running(p) /\ (fz[p].thread # "sleeping" \/ Args[p] = <<>>)

(* The mounts p's binary has frozen and relies on. *)
Held(p) == {i \in 1..Len(Args[p]) : \/ bpc[p] = "freeze" /\ i < cur[p]
                                   \/ bpc[p] \in {"notify", "wait"}}

SignalInv(p) == Alive(p) =>
  /\ fz[p].thread = "sleeping" => ~Running(p) /\ run[p].pc \notin Before
  /\ gThaw[p] /\ Running(p) => run[p].pc \in {"thawwait", "thawdrain"}
  /\ run[p].pc \in Before =>
       /\ ~Young(p) /\ "USR1" \notin pend[p]
       /\ run[p].pc \notin {"start", "freeze"} => fz[p].sig # 1 /\ ~fz[p].skip
  /\ run[p].pc = "wait" =>
       /\ ~fz[p].skip
       /\ fz[p].sig = 1 \/ "USR1" \in pend[p] => Told(p)

FirstInv(p) == Alive(p) =>
  /\ run[p].pc = "start" => First(p)
  /\ run[p].ctx = "again" =>
       /\ job[p].mode = "firstGuestThenHost" /\ run[p].via = "guest" /\ run[p].pc \in Thawing
       /\ run[p].pc \in {"unlock", "remove"} => ~Young(p)
  /\ First(p) =>
       /\ fz[p].thread = "sleeping" => bpc[p] = "idle"
       /\ run[p].pc \in Before =>
            fz[p].thread = "none" /\ bpc[p] = "idle" /\ ~fz[p].child /\ fz[p].sig = 0
       /\ run[p].pc = "wait" =>
            /\ fz[p].sig = 2 => fz[p].child
            /\ fz[p].child => fz[p].thread = "ended"
            /\ fz[p].thread = "ended" => (fz[p].child \/ ~Young(p))
       /\ run[p].pc \notin Before \cup {"wait"} => Settled(p)

FreezeInv(p) ==
  /\ Args[p] = <<>> => bpc[p] = "idle"
  /\ run[p].pc = "drain" => ~run[p].ok
  /\ run[p].ok /\ job[p].freezeOn =>
       /\ run[p].pc \in {"decide", "snap"} => Guarded(p)
       /\ run[p].ctx = "snap" =>
            /\ run[p].pc = "thaw" => Guarded(p)
            /\ run[p].pc \in {"thawwait", "thawdrain"} => fz[p].thread # "sleeping"
            /\ run[p].pc \in {"unlock", "remove"} => run[p].thawErr \/ Calm(p)

ResultInv(p) ==
  /\ run[p].allFailed => run[p].pc \in Thawing \cup {"after"}
  /\ run[p].allFailed /\ run[p].ok => run[p].good = {}
  /\ run[p].ctx = "late" => ~run[p].ok /\ run[p].pc \in Thawing \cup {"after"}
  /\ run[p].pc \in Before \cup {"wait", "drain", "decide"} => run[p].shot = {}
  /\ run[p].pc \in Thawing /\ run[p].ctx = "snap" => run[p].shot = Disks
  /\ LooksGood(p) \/ Claims(p) => run[p].shot = Disks /\ Calm(p)

TornInv(p) == OneRival(p) =>
  /\ run[p].pc \in Before \cup {"wait", "drain", "decide"} => ~torn[p]
  /\ torn[p] /\ run[p].ok /\ job[p].freezeOn =>
       /\ run[p].pc = "snap" => Doomed(p)
       /\ run[p].ctx = "snap" =>
            /\ run[p].pc \in {"thaw", "thawwait", "thawdrain"} => Doomed(p)
            /\ run[p].pc \in {"unlock", "remove"} => run[p].thawErr
  /\ LooksGood(p) \/ Claims(p) => ~torn[p]

DaemonInv(p) == SignalInv(p) /\ FirstInv(p) /\ FreezeInv(p) /\ ResultInv(p) /\ TornInv(p)

HoldInv(p) == OneRival(p) => Held(p) \cap Missing(p) = {} \/ Spent(p)

GuardInv == \A p \in Freezers : DaemonInv(p) /\ HoldInv(p)

-----------------------------------------------------------------------------
(* The types the invariant needs. *)
Typed(p) ==
  /\ run[p] \in RunRecords /\ fz[p] \in FreezerRecords /\ pend[p] \in SUBSET {"USR1", "CHLD"}
  /\ bpc[p] \in BinPc /\ status[p] \in 0..3

LEMMA TypesHold ==
  ASSUME TypeOK, NEW p \in Freezers
  PROVE  Typed(p)
BY DEF TypeOK, BinTypeOK, ProcTypeOK, SignalTypeOK, FreezerTypeOK, RunTypeOK, Typed

(* A step of p leaves what is q's alone, and thaws only what p names. *)
LEMMA StepIsOwn ==
  ASSUME TypeOK, NEW p \in Freezers, NEW q \in Freezers, q # p,
         MainThread(p) \/ Handlers(p) \/ Launcher(p) \/ Binary(p) \/ Crash(p)
  PROVE  /\ run'[q] = run[q] /\ fz'[q] = fz[q] /\ pend'[q] = pend[q] /\ job' = job
         /\ bpc'[q] = bpc[q] /\ gThaw'[q] = gThaw[q] /\ status'[q] = status[q]
         /\ ~BinaryWorks(p) => torn'[q] = torn[q]
<1> USE DEF TypeOK, ProcTypeOK, RunTypeOK, FreezerTypeOK, SignalTypeOK, HistoryTypeOK
<1>1. run'[q] = run[q]
  BY RunRecordStep DEF RunStep
<1>2. fz'[q] = fz[q]
  BY FreezerRecordStep
<1>3. bpc'[q] = bpc[q] /\ gThaw'[q] = gThaw[q] /\ status'[q] = status[q]
  <2>1. ASSUME BinStep(p) \/ Exit(p) \/ Launch(p) \/ ThawSignal(p)
        PROVE  bpc'[q] = bpc[q] /\ gThaw'[q] = gThaw[q] /\ status'[q] = status[q]
    BY <2>1 DEF BinStep, BinTypeOK, Cleanup, OpenAll, OpenFails, FreezeNext, FreezeFails,
      Notify, SleepOne, WaitOver, ThawNext, Exit, Launch, ThawSignal
  <2>2. MainThread(p) => ThawSignal(p) \/ UNCHANGED binVars
    BY DEF MainThread, Start, FreezeSafe, OpenLockFile, LockFile, StartProc,
      StartProcReturns, DrainOutput, Decide, SnapDisk, SnapshotsDone, SnapshotRaises,
      ParallelRaises, ThawSafe, ThawWait, ThawDrain, Unlock, RemoveLockFile, ThawAgain,
      Report
  <2>3. Handlers(p) \/ Launcher(p) \/ Binary(p) \/ Crash(p)
          => BinStep(p) \/ Exit(p) \/ Launch(p) \/ UNCHANGED binVars
    BY DEF Handlers, Launcher, Binary, Crash, sigusr1_handler, sigchld_handler,
      ThreadLaunches, ThreadAssigns, BinaryWorks, BinaryExits
  <2> QED BY <2>1, <2>2, <2>3 DEF binVars
<1>4. CASE BinaryWorks(p)
  BY <1>1, <1>2, <1>3, <1>4 DEF BinaryWorks
<1>5. CASE ~BinaryWorks(p)
  <2>1. job' = job /\ pend'[q] = pend[q] /\ torn'[q] = torn[q]
    <3>1. CASE MainThread(p)
      BY <3>1 DEF MainThread, Start, FreezeSafe, OpenLockFile, LockFile, StartProc,
        StartProcReturns, DrainOutput, Decide, SnapDisk, SnapshotsDone, SnapshotRaises,
        ParallelRaises, ThawSafe, ThawWait, ThawDrain, Unlock, RemoveLockFile, ThawAgain,
        Report
    <3>2. CASE Handlers(p) \/ Launcher(p) \/ BinaryExits(p) \/ Crash(p)
      BY <3>2 DEF Handlers, Launcher, Crash, sigusr1_handler, sigchld_handler,
        ThreadLaunches, ThreadAssigns, BinaryExits
    <3> QED BY <1>5, <3>1, <3>2 DEF Binary
  <2> QED BY <1>1, <1>2, <1>3, <2>1
<1> QED BY <1>4, <1>5

(* What is the same in two states keeps the invariant. *)
SameDaemon(p) ==
  /\ run'[p] = run[p] /\ fz'[p] = fz[p] /\ pend'[p] = pend[p] /\ job' = job
  /\ bpc'[p] = bpc[p] /\ gThaw'[p] = gThaw[p] /\ status'[p] = status[p]

LEMMA SameKeeps ==
  ASSUME NEW p \in Freezers, DaemonInv(p), SameDaemon(p), TornInv(p)'
  PROVE  DaemonInv(p)'
<1> USE DEF SameDaemon, Alive, Running, Young, Told, GaveUp, First, Guarded, Settled, Calm
<1>1. SignalInv(p)'  BY DEF DaemonInv, SignalInv
<1>2. FirstInv(p)'   BY DEF DaemonInv, FirstInv
<1>3. FreezeInv(p)'  BY DEF DaemonInv, FreezeInv
<1>4. /\ LooksGood(p)' => LooksGood(p)
      /\ Claims(p)' => Claims(p)
  BY DEF LooksGood, Claims, AnyDiskSeenFailed, ClaimsConsistency
<1>5. ResultInv(p)'  BY <1>4 DEF DaemonInv, ResultInv
<1> QED BY <1>1, <1>2, <1>3, <1>5 DEF DaemonInv

-----------------------------------------------------------------------------
(* The main thread, one label at a time.  Keeps: what p's record holds     *)
(* besides the label.  Still: p's binary and pending signals are as before. *)
Keeps(p) ==
  /\ run'[p].via = run[p].via /\ run'[p].ctx = run[p].ctx /\ run'[p].ok = run[p].ok
  /\ run'[p].allFailed = run[p].allFailed /\ run'[p].inconsistent = run[p].inconsistent
  /\ run'[p].thawErr = run[p].thawErr /\ run'[p].shot = run[p].shot
  /\ run'[p].good = run[p].good /\ run'[p].verdict = run[p].verdict

Still(p) ==
  /\ pend'[p] = pend[p] /\ job' = job
  /\ bpc'[p] = bpc[p] /\ gThaw'[p] = gThaw[p] /\ status'[p] = status[p]
  /\ (Doomed(p)' <=> Doomed(p)) /\ (OneRival(p)' <=> OneRival(p))

LEMMA DoomedSame ==
  ASSUME UNCHANGED <<frozen, bpc, cur, status>>, NEW p \in Freezers
  PROVE  Doomed(p)' <=> Doomed(p)
BY DEF Doomed, GaveUp, Spent, Missing, Rivals, MountsOf

LEMMA SignalDoesNotMend ==
  ASSUME TypeOK, NEW p \in Freezers, ThawSignal(p), Doomed(p)
  PROVE  Doomed(p)'
BY TypesHold DEF Typed, BinPc, Doomed, GaveUp, Spent, Missing, Rivals, ThawSignal, TypeOK, BinTypeOK

LEMMA ExitDoesNotMend ==
  ASSUME BinTypeOK, NEW p \in Freezers, Exit(p), Doomed(p)
  PROVE  Doomed(p)'
BY DEF Exit, BinTypeOK, Doomed, GaveUp, Spent, Rivals, Missing, MountsOf

LEMMA RivalsSame ==
  ASSUME job' = job, NEW p \in Freezers
  PROVE  OneRival(p)' <=> OneRival(p)
BY DEF OneRival, TriesOnce, Rivals, MountsOf

LEMMA StillWhen ==
  ASSUME UNCHANGED binVars, job' = job, NEW p \in Freezers, pend'[p] = pend[p]
  PROVE  Still(p)
<1>1. UNCHANGED <<frozen, bpc, cur, status>> /\ gThaw' = gThaw
  BY DEF binVars
<1>2. (Doomed(p)' <=> Doomed(p)) /\ (OneRival(p)' <=> OneRival(p))
  BY <1>1, DoomedSame, RivalsSame
<1> QED BY <1>1, <1>2 DEF Still

LEMMA GotoKeeps ==
  ASSUME RunTypeOK, NEW p \in Freezers, NEW x, Goto(p, x)
  PROVE  run'[p].pc = x /\ Keeps(p)
BY DEF Goto, Keeps, RunTypeOK, RunRecords

(* An attempt begins with a fresh record. *)
LEMMA BeginFresh ==
  ASSUME RunTypeOK, NEW p \in Freezers, NEW via \in {"guest", "host"}, Begin(p, via)
  PROVE  /\ run'[p].via = via /\ run'[p].ctx = "snap" /\ run'[p].thawErr = FALSE
         /\ run'[p].good = {} /\ run'[p].shot = {} /\ run'[p].verdict = NoVerdict
         /\ \/ /\ run'[p].pc = IF job[p].freezeOn THEN "freeze" ELSE "decide"
               /\ run'[p].allFailed = FALSE
            \/ run'[p].pc = "after" /\ run'[p].ok = FALSE
<1> DEFINE x == IF job[p].freezeOn THEN "freeze" ELSE "decide"
<1>1. CASE run' = [run EXCEPT ![p] = [NewRun EXCEPT !.via = via, !.pc = x]]
  <2> HIDE DEF x
  <2>1. LET r == [NewRun EXCEPT !.via = via, !.pc = x]
        IN /\ r.via = via /\ r.ctx = "snap" /\ r.thawErr = FALSE /\ r.good = {}
           /\ r.shot = {} /\ r.verdict = NoVerdict /\ r.pc = x /\ r.allFailed = FALSE
    BY DEF NewRun
  <2> QED BY <1>1, <2>1 DEF RunTypeOK, x
<1>2. ASSUME NEW empty \in BOOLEAN,
             run' = [run EXCEPT ![p] =
                [NewRun EXCEPT !.via = via, !.pc = "after", !.ok = FALSE,
                               !.allFailed = empty, !.allSnapsFailed = empty]]
      PROVE  /\ run'[p].via = via /\ run'[p].ctx = "snap" /\ run'[p].thawErr = FALSE
             /\ run'[p].good = {} /\ run'[p].shot = {} /\ run'[p].verdict = NoVerdict
             /\ run'[p].pc = "after" /\ run'[p].ok = FALSE
  BY <1>2 DEF NewRun, RunTypeOK
<1> QED BY <1>1, <1>2 DEF Begin

(* A run without a snapshot to show for it claims nothing. *)
LEMMA NothingClaimed ==
  ASSUME NEW p \in Freezers, run'[p].good = {}
  PROVE  ~LooksGood(p)' /\ ~Claims(p)'
BY DEF LooksGood, Claims, ClaimsConsistency

(* Nor does one that has not come to its end. *)
LEMMA NotYetClaimed ==
  ASSUME NEW p \in Freezers, run'[p].verdict = NoVerdict, run'[p].pc = "after" => ~run'[p].ok
  PROVE  ~LooksGood(p)' /\ ~Claims(p)'
BY DEF LooksGood, Claims, ClaimsConsistency, NoVerdict

LEMMA StartKeeps ==
  ASSUME TypeOK, NEW p \in Freezers, DaemonInv(p), Start(p)
  PROVE  DaemonInv(p)'
<1> USE DEF DaemonInv, Alive, Running, Young, First, Settled
<1>0. RunTypeOK /\ Typed(p)
  BY TypesHold DEF TypeOK, ProcTypeOK
<1>1. run[p].pc = "start" /\ pend[p] = {} /\ Still(p) /\ fz'[p] = fz[p] /\ torn'[p] = torn[p]
  BY StillWhen DEF Start, At
<1>2. PICK via \in {"guest", "host"} :
        /\ job[p].mode \in {"onlyGuest", "firstGuestThenHost"} => via = "guest"
        /\ Begin(p, via)
  BY DEF Start
<1>3. /\ run'[p].via = via /\ run'[p].ctx = "snap" /\ run'[p].thawErr = FALSE
      /\ run'[p].good = {} /\ run'[p].shot = {} /\ run'[p].verdict = NoVerdict
      /\ \/ /\ run'[p].pc = IF job[p].freezeOn THEN "freeze" ELSE "decide"
            /\ run'[p].allFailed = FALSE
         \/ run'[p].pc = "after" /\ run'[p].ok = FALSE
  BY <1>0, <1>2, BeginFresh
<1>4. SignalInv(p)'  BY <1>1, <1>3 DEF SignalInv, Still, Before
<1>5. FirstInv(p)'   BY <1>1, <1>2, <1>3 DEF SignalInv, FirstInv, Still, Before
<1>6. FreezeInv(p)'  BY <1>1, <1>3 DEF FreezeInv, Still
<1>7. ~LooksGood(p)' /\ ~Claims(p)'
  BY <1>3, NothingClaimed
<1>8. ResultInv(p)'  BY <1>3, <1>7 DEF ResultInv, Before, Thawing
<1>9. TornInv(p)'    BY <1>1, <1>3, <1>7 DEF TornInv, Still, Before
<1> QED BY <1>4, <1>5, <1>6, <1>8, <1>9

LEMMA FreezeSafeKeeps ==
  ASSUME TypeOK, LossInv, NEW p \in Freezers, DaemonInv(p), FreezeSafe(p)
  PROVE  DaemonInv(p)'
<1> USE DEF DaemonInv, Alive, Running, Young, First, Settled
<1>0. RunTypeOK /\ Typed(p) /\ fz \in [Freezers -> FreezerRecords]
  BY TypesHold DEF TypeOK, ProcTypeOK, FreezerTypeOK
<1>1. /\ run[p].pc = "freeze" /\ pend[p] = {} /\ Still(p) /\ torn'[p] = torn[p]
      /\ run[p].verdict = NoVerdict
  BY StillWhen DEF FreezeSafe, At, LossInv, LossAt
<1>2. CASE \E ok \in BOOLEAN :
             /\ ok => Args[p] = <<>>
             /\ run' = [run EXCEPT ![p].pc = "decide", ![p].ok = ok]
             /\ fz' = [fz EXCEPT ![p].skip = TRUE]
  <2>1. PICK ok \in BOOLEAN :
             /\ ok => Args[p] = <<>>
             /\ run' = [run EXCEPT ![p].pc = "decide", ![p].ok = ok]
             /\ fz' = [fz EXCEPT ![p].skip = TRUE]
    BY <1>2
  <2>2. /\ run'[p].pc = "decide" /\ run'[p].ok = ok /\ run'[p].via = run[p].via
        /\ run'[p].ctx = run[p].ctx /\ run'[p].allFailed = run[p].allFailed
        /\ run'[p].verdict = run[p].verdict /\ run'[p].shot = run[p].shot
    BY <1>0, <2>1 DEF RunTypeOK, RunRecords
  <2>3. fz'[p].thread = fz[p].thread /\ fz'[p].child = fz[p].child
    BY <1>0, <2>1 DEF FreezerRecords
  <2>4. SignalInv(p)'  BY <1>1, <2>2, <2>3 DEF SignalInv, Still, Before
  <2>5. FirstInv(p)'   BY <1>1, <2>2, <2>3 DEF SignalInv, FirstInv, Still, Before, Thawing
  <2>6. FreezeInv(p)'  BY <1>1, <2>1, <2>2 DEF FreezeInv, Still, Guarded
  <2>7. ~LooksGood(p)' /\ ~Claims(p)'  BY <1>1, <2>2, NotYetClaimed
  <2>8. ResultInv(p)'  BY <1>1, <2>2, <2>7 DEF ResultInv, Before, Thawing
  <2>9. TornInv(p)'    BY <1>1, <2>2, <2>7 DEF TornInv, Still, Before, FirstInv, Thawing
  <2> QED BY <2>4, <2>5, <2>6, <2>8, <2>9
<1>3. CASE /\ Goto(p, IF fz[p].retries < MaxLockRetry THEN "openlock" ELSE "startproc")
           /\ fz' = [fz EXCEPT ![p].skip = FALSE, ![p].sig = 0, ![p].child = FALSE]
  <2>1. run'[p].pc \in {"openlock", "startproc"} /\ Keeps(p)
    BY <1>0, <1>3, GotoKeeps
  <2>2. fz'[p].thread = fz[p].thread /\ fz'[p].child = FALSE /\ fz'[p].skip = FALSE /\ fz'[p].sig = 0
    BY <1>0, <1>3 DEF FreezerRecords
  <2>3. SignalInv(p)'  BY <1>1, <2>1, <2>2 DEF SignalInv, Still, Before
  <2>4. FirstInv(p)'   BY <1>1, <2>1, <2>2 DEF FirstInv, Still, Before, Thawing, Keeps
  <2>5. FreezeInv(p)'  BY <1>1, <2>1 DEF FreezeInv, Still
  <2>6. ~LooksGood(p)' /\ ~Claims(p)'  BY <1>1, <2>1, NotYetClaimed DEF Keeps
  <2>7. ResultInv(p)'  BY <1>1, <2>1, <2>6 DEF ResultInv, Before, Thawing, Keeps
  <2>8. TornInv(p)'    BY <1>1, <2>1, <2>6 DEF TornInv, Still, Before
  <2> QED BY <2>3, <2>4, <2>5, <2>7, <2>8
<1> QED BY <1>2, <1>3 DEF FreezeSafe

(* The loop over the lock, then startproc. *)
LEMMA LockKeeps ==
  ASSUME TypeOK, LossInv, NEW p \in Freezers, DaemonInv(p),
         OpenLockFile(p) \/ LockFile(p)
  PROVE  DaemonInv(p)'
<1> USE DEF DaemonInv, Alive, Running, Young, First, Settled
<1>0. RunTypeOK /\ Typed(p) /\ fz \in [Freezers -> FreezerRecords]
  BY TypesHold DEF TypeOK, ProcTypeOK, FreezerTypeOK
<1>1. /\ run[p].pc \in {"openlock", "lockf"} /\ Still(p) /\ torn'[p] = torn[p]
      /\ run[p].verdict = NoVerdict
  BY StillWhen DEF OpenLockFile, LockFile, At, LossInv, LossAt
<1>2. run'[p].pc \in {"openlock", "lockf", "startproc"} /\ Keeps(p)
  <2>1. \E x \in {"lockf", "openlock", "startproc"} : Goto(p, x)
    BY DEF OpenLockFile, LockFile, CountRetry
  <2> QED BY <1>0, <2>1, GotoKeeps
<1>3. /\ fz'[p].thread = fz[p].thread /\ fz'[p].child = fz[p].child
      /\ fz'[p].skip = fz[p].skip /\ fz'[p].sig = fz[p].sig
  <2>1. \/ fz' = [fz EXCEPT ![p].acquired = FALSE]
        \/ fz' = [fz EXCEPT ![p].acquired = TRUE]
        \/ fz' = [fz EXCEPT ![p].retries = @ + 1]
    BY DEF OpenLockFile, LockFile
  <2> QED BY <1>0, <2>1 DEF FreezerRecords
<1>4. SignalInv(p)'  BY <1>1, <1>2, <1>3 DEF SignalInv, Still, Before
<1>5. FirstInv(p)'   BY <1>1, <1>2, <1>3 DEF FirstInv, Still, Before, Thawing, Keeps
<1>6. FreezeInv(p)'  BY <1>1, <1>2 DEF FreezeInv, Still
<1>7. ~LooksGood(p)' /\ ~Claims(p)'  BY <1>1, <1>2, NotYetClaimed DEF Keeps
<1>8. ResultInv(p)'  BY <1>1, <1>2, <1>7 DEF ResultInv, Before, Thawing, Keeps
<1>9. TornInv(p)'    BY <1>1, <1>2, <1>7 DEF TornInv, Still, Before
<1> QED BY <1>4, <1>5, <1>6, <1>8, <1>9

LEMMA StartProcKeeps ==
  ASSUME TypeOK, LossInv, NEW p \in Freezers, DaemonInv(p), StartProc(p)
  PROVE  DaemonInv(p)'
<1> USE DEF DaemonInv, Alive, Running, Young, First, Settled
<1>0. RunTypeOK /\ Typed(p) /\ fz \in [Freezers -> FreezerRecords]
  BY TypesHold DEF TypeOK, ProcTypeOK, FreezerTypeOK
<1>1. /\ run[p].pc = "startproc" /\ pend[p] = {} /\ ~Running(p) /\ Still(p)
      /\ torn'[p] = torn[p] /\ run[p].verdict = NoVerdict
  BY StillWhen DEF StartProc, At, LossInv, LossAt
<1>2. run'[p].pc = "wait" /\ Keeps(p)
  BY <1>0, GotoKeeps DEF StartProc
<1>3. /\ fz'[p].thread = "sleeping" /\ fz'[p].child = fz[p].child
      /\ fz'[p].skip = fz[p].skip /\ fz'[p].sig = fz[p].sig
  BY <1>0 DEF StartProc, FreezerRecords
<1>4. SignalInv(p)'  BY <1>1, <1>2, <1>3 DEF SignalInv, Still, Before
<1>5. FirstInv(p)'   BY <1>1, <1>2, <1>3 DEF FirstInv, Still, Before, Thawing, Keeps
<1>6. FreezeInv(p)'  BY <1>1, <1>2 DEF FreezeInv, Still
<1>7. ~LooksGood(p)' /\ ~Claims(p)'  BY <1>1, <1>2, NotYetClaimed DEF Keeps
<1>8. ResultInv(p)'  BY <1>1, <1>2, <1>7 DEF ResultInv, Before, Thawing, Keeps
<1>9. TornInv(p)'    BY <1>1, <1>2, <1>7 DEF TornInv, Still, Before
<1> QED BY <1>4, <1>5, <1>6, <1>8, <1>9

(* With the signal the daemon has been told; without it, ok is gone. *)
LEMMA StartProcReturnsMoves ==
  ASSUME TypeOK, NEW p \in Freezers, StartProcReturns(p)
  PROVE  /\ run'[p].via = run[p].via /\ run'[p].ctx = run[p].ctx /\ run'[p].shot = run[p].shot
         /\ run'[p].allFailed = run[p].allFailed /\ run'[p].verdict = run[p].verdict
         /\ \/ fz[p].sig = 1 /\ run'[p].pc = "decide" /\ run'[p].ok = run[p].ok
            \/ fz[p].sig # 1 /\ run'[p].pc \in {"drain", "decide"} /\ run'[p].ok = FALSE
<1>0. RunTypeOK /\ Typed(p)
  BY TypesHold DEF TypeOK, ProcTypeOK
<1>1. CASE fz[p].sig = 1
  <2>1. Goto(p, "decide")
    BY <1>1 DEF StartProcReturns
  <2> QED BY <1>0, <1>1, <2>1, GotoKeeps DEF Keeps
<1>2. CASE fz[p].sig # 1
  <2>1. PICK x \in {"drain", "decide"} : run' = [run EXCEPT ![p].pc = x, ![p].ok = FALSE]
    BY <1>2 DEF StartProcReturns
  <2> DEFINE r == [run[p] EXCEPT !.pc = x, !.ok = FALSE]
  <2>2. /\ r.via = run[p].via /\ r.ctx = run[p].ctx /\ r.allFailed = run[p].allFailed
        /\ r.verdict = run[p].verdict /\ r.shot = run[p].shot /\ r.pc = x /\ r.ok = FALSE
    BY <1>0 DEF Typed, RunRecords
  <2>3. run'[p] = r
    BY <1>0, <2>1 DEF RunTypeOK
  <2> QED BY <1>2, <2>2, <2>3
<1> QED BY <1>1, <1>2

LEMMA StartProcReturnsKeeps ==
  ASSUME TypeOK, LossInv, NEW p \in Freezers, DaemonInv(p), StartProcReturns(p)
  PROVE  DaemonInv(p)'
<1> USE DEF DaemonInv, Alive, Running, Young, First, Settled
<1>0. RunTypeOK /\ Typed(p) /\ fz[p].sig \in 0..2
  BY TypesHold DEF TypeOK, ProcTypeOK, Typed, FreezerRecords
<1>1. /\ run[p].pc = "wait" /\ pend[p] = {} /\ Still(p) /\ fz'[p] = fz[p]
      /\ torn'[p] = torn[p] /\ run[p].verdict = NoVerdict
      /\ fz[p].sig = 0 => fz[p].thread = "ended"
  BY StillWhen DEF StartProcReturns, At, LossInv, LossAt
<1>2. /\ run'[p].via = run[p].via /\ run'[p].ctx = run[p].ctx /\ run'[p].shot = run[p].shot
      /\ run'[p].allFailed = run[p].allFailed /\ run'[p].verdict = run[p].verdict
      /\ \/ fz[p].sig = 1 /\ run'[p].pc = "decide" /\ run'[p].ok = run[p].ok
         \/ fz[p].sig # 1 /\ run'[p].pc \in {"drain", "decide"} /\ run'[p].ok = FALSE
  BY StartProcReturnsMoves
<1>3. fz[p].sig = 1 => Told(p)
  BY <1>1 DEF SignalInv
<1>4. SignalInv(p)'  BY <1>1, <1>2 DEF SignalInv, Still, Before
<1>5. FirstInv(p)'
  <2>1. First(p) => Settled(p)
    BY <1>0, <1>1, <1>3 DEF SignalInv, FirstInv, Told, GaveUp
  <2> QED BY <1>1, <1>2, <2>1 DEF FirstInv, Still, Before, Thawing
<1>6. FreezeInv(p)'
  BY <1>1, <1>2, <1>3 DEF FreezeInv, SignalInv, Still, Guarded, Told, GaveUp, FirstInv, Thawing
<1>7. ~LooksGood(p)' /\ ~Claims(p)'  BY <1>1, <1>2, NotYetClaimed
<1>8. ResultInv(p)'  BY <1>1, <1>2, <1>7 DEF ResultInv, Before, Thawing
<1>9. TornInv(p)'    BY <1>1, <1>2, <1>7 DEF TornInv, Still, Before
<1> QED BY <1>4, <1>5, <1>6, <1>8, <1>9

LEMMA DrainOutputKeeps ==
  ASSUME TypeOK, LossInv, NEW p \in Freezers, DaemonInv(p), DrainOutput(p)
  PROVE  DaemonInv(p)'
<1> USE DEF DaemonInv, Alive, Running, Young, First, Settled
<1>0. RunTypeOK /\ Typed(p)
  BY TypesHold DEF TypeOK, ProcTypeOK
<1>1. /\ run[p].pc = "drain" /\ Still(p) /\ fz'[p] = fz[p]
      /\ torn'[p] = torn[p] /\ run[p].verdict = NoVerdict
  BY StillWhen DEF DrainOutput, At, LossInv, LossAt
<1>2. run'[p].pc = "decide" /\ Keeps(p)
  BY <1>0, GotoKeeps DEF DrainOutput
<1>4. SignalInv(p)'  BY <1>1, <1>2 DEF SignalInv, Still, Before
<1>5. FirstInv(p)'   BY <1>1, <1>2 DEF FirstInv, Still, Before, Thawing, Keeps
<1>6. FreezeInv(p)'  BY <1>1, <1>2 DEF FreezeInv, Still, Keeps
<1>7. ~LooksGood(p)' /\ ~Claims(p)'  BY <1>1, <1>2, NotYetClaimed DEF Keeps
<1>8. ResultInv(p)'  BY <1>1, <1>2, <1>7 DEF ResultInv, Before, Thawing, Keeps
<1>9. TornInv(p)'    BY <1>1, <1>2, <1>7 DEF TornInv, Still, Before
<1> QED BY <1>4, <1>5, <1>6, <1>8, <1>9

LEMMA DecideMoves ==
  ASSUME TypeOK, NEW p \in Freezers, Decide(p)
  PROVE  /\ run'[p].via = run[p].via /\ run'[p].verdict = run[p].verdict
         /\ run'[p].shot = run[p].shot
         /\ \/ /\ run'[p].pc = "thaw" /\ run'[p].ctx = "late" /\ run'[p].ok = FALSE
            \/ run'[p].pc = "snap" /\ Keeps(p)
            \/ run'[p].pc = "after" /\ Keeps(p) /\ run[p].ok = FALSE
<1>0. RunTypeOK /\ Typed(p)
  BY TypesHold DEF TypeOK, ProcTypeOK
<1>1. CASE run' = [run EXCEPT ![p].pc = "thaw", ![p].ctx = "late", ![p].ok = FALSE,
                              ![p].allFailed = TRUE, ![p].allSnapsFailed = TRUE]
  BY <1>0, <1>1 DEF RunTypeOK, RunRecords
<1>2. ASSUME NEW par \in BOOLEAN, run' = [run EXCEPT ![p].pc = "snap", ![p].par = par]
      PROVE  run'[p].pc = "snap" /\ Keeps(p)
  BY <1>0, <1>2 DEF RunTypeOK, RunRecords, Keeps
<1>3. CASE ~run[p].ok /\ Goto(p, "after")
  BY <1>0, <1>3, GotoKeeps DEF Keeps, Typed, RunRecords
<1> QED BY <1>1, <1>2, <1>3 DEF Decide, Keeps

LEMMA DecideKeeps ==
  ASSUME TypeOK, LossInv, NEW p \in Freezers, DaemonInv(p), Decide(p)
  PROVE  DaemonInv(p)'
<1> USE DEF DaemonInv, Alive, Running, Young, First, Settled
<1>0. RunTypeOK /\ Typed(p)
  BY TypesHold DEF TypeOK, ProcTypeOK
<1>1. /\ run[p].pc = "decide" /\ pend[p] = {} /\ Still(p) /\ fz'[p] = fz[p]
      /\ torn'[p] = torn[p] /\ run[p].verdict = NoVerdict
  BY StillWhen DEF Decide, At, LossInv, LossAt
<1>2. /\ run'[p].via = run[p].via /\ run'[p].verdict = run[p].verdict
      /\ \/ /\ run'[p].pc = "thaw" /\ run'[p].ctx = "late" /\ run'[p].ok = FALSE
         \/ run'[p].pc = "snap" /\ Keeps(p)
         \/ run'[p].pc = "after" /\ Keeps(p) /\ run[p].ok = FALSE
  BY DecideMoves
<1>3. SignalInv(p)'  BY <1>1, <1>2 DEF SignalInv, Still, Before
<1>4. FirstInv(p)'   BY <1>1, <1>2 DEF FirstInv, Still, Before, Thawing, Keeps
<1>5. FreezeInv(p)'
  BY <1>1, <1>2 DEF FreezeInv, Still, Keeps, Guarded, Told, GaveUp
<1>6. ~LooksGood(p)' /\ ~Claims(p)'  BY <1>1, <1>2, NotYetClaimed DEF Keeps
<1>7. ResultInv(p)'  BY <1>1, <1>2, <1>6 DEF ResultInv, Before, Thawing, Keeps
<1>8. TornInv(p)'    BY <1>1, <1>2, <1>6 DEF TornInv, Still, Before
<1> QED BY <1>3, <1>4, <1>5, <1>7, <1>8

(* A disk is captured: outside the freeze only if the thaw will say so.    *)
LEMMA SnapDiskMoves ==
  ASSUME TypeOK, NEW p \in Freezers, SnapDisk(p)
  PROVE  /\ run'[p].pc = run[p].pc /\ run'[p].via = run[p].via /\ run'[p].ctx = run[p].ctx
         /\ run'[p].ok = run[p].ok /\ run'[p].allFailed = run[p].allFailed
         /\ run'[p].verdict = run[p].verdict
         /\ \E d \in Disks \ run[p].shot : run'[p].shot = run[p].shot \cup {d}
<1>0. RunTypeOK /\ Typed(p)
  BY TypesHold DEF TypeOK, ProcTypeOK
<1>1. PICK d \in Disks \ run[p].shot, good \in BOOLEAN :
          run' = [run EXCEPT ![p].shot = @ \cup {d},
                             ![p].good = IF good THEN @ \cup {d} ELSE @]
  BY DEF SnapDisk
<1> DEFINE s == run[p].shot \cup {d}
           g == IF good THEN run[p].good \cup {d} ELSE run[p].good
           r == [run[p] EXCEPT !.shot = s, !.good = g]
<1>2. run'[p] = r
  BY <1>0, <1>1 DEF RunTypeOK
<1>3. /\ r.pc = run[p].pc /\ r.via = run[p].via /\ r.ctx = run[p].ctx
      /\ r.ok = run[p].ok /\ r.allFailed = run[p].allFailed /\ r.verdict = run[p].verdict
      /\ r.shot = s
  <2> HIDE DEF s, g
  <2> QED BY <1>0 DEF Typed, RunRecords
<1> HIDE DEF r
<1> QED BY <1>2, <1>3

LEMMA SnapDiskKeeps ==
  ASSUME TypeOK, LossInv, NEW p \in Freezers, DaemonInv(p), HoldInv(p), SnapDisk(p)
  PROVE  DaemonInv(p)'
<1> USE DEF DaemonInv, Alive, Running, Young, First, Settled
<1>0. RunTypeOK /\ Typed(p) /\ HistoryTypeOK
  BY TypesHold DEF TypeOK, ProcTypeOK
<1>1. /\ run[p].pc = "snap" /\ pend[p] = {} /\ Still(p) /\ fz'[p] = fz[p]
      /\ run[p].verdict = NoVerdict
      /\ torn'[p] = (torn[p] \/ ~(MountsOf(p) \subseteq frozen))
  BY <1>0, StillWhen DEF SnapDisk, At, LossInv, LossAt, HistoryTypeOK
<1>2. /\ run'[p].pc = "snap" /\ run'[p].via = run[p].via /\ run'[p].ctx = run[p].ctx
      /\ run'[p].ok = run[p].ok /\ run'[p].allFailed = run[p].allFailed
      /\ run'[p].verdict = run[p].verdict
  BY <1>1, SnapDiskMoves
<1>3. SignalInv(p)'  BY <1>1, <1>2 DEF SignalInv, Still, Before
<1>4. FirstInv(p)'   BY <1>1, <1>2 DEF FirstInv, Still, Before, Thawing
<1>5. FreezeInv(p)'
  BY <1>1, <1>2 DEF FreezeInv, Still, Guarded, Told, GaveUp
<1>6. ~LooksGood(p)' /\ ~Claims(p)'  BY <1>1, <1>2, NotYetClaimed
<1>7. ResultInv(p)'  BY <1>1, <1>2, <1>6 DEF ResultInv, Before, Thawing
<1>8. TornInv(p)'
  <2>1. ASSUME OneRival(p), torn'[p], run[p].ok, job[p].freezeOn
        PROVE  Doomed(p)
    <3>1. CASE torn[p]
      BY <1>1, <2>1, <3>1 DEF TornInv
    <3>2. CASE Args[p] = <<>>
      <4>1. MountsOf(p) = {}
        BY <3>2 DEF MountsOf
      <4> QED BY <1>1, <2>1, <3>1, <4>1
    <3>3. CASE bpc[p] = "wait" /\ ~(MountsOf(p) \subseteq frozen)
      <4>1. Held(p) \cap Missing(p) # {}
        BY <3>3 DEF Held, Missing, MountsOf
      <4> QED BY <2>1, <3>3, <4>1 DEF HoldInv, Doomed
    <3> QED BY <1>1, <2>1, <3>1, <3>2, <3>3 DEF FreezeInv, Guarded, Told, Doomed, GaveUp
  <2> QED BY <1>1, <1>2, <1>6, <2>1 DEF TornInv, Still, Before
<1> QED BY <1>3, <1>4, <1>5, <1>7, <1>8

LEMMA SnapshotsDoneMoves ==
  ASSUME TypeOK, NEW p \in Freezers, SnapshotsDone(p)
  PROVE  /\ run'[p].via = run[p].via /\ run'[p].verdict = run[p].verdict
         /\ run'[p].shot = run[p].shot /\ run'[p].ok = run[p].ok /\ run'[p].ctx = "snap"
         /\ run'[p].pc = IF job[p].freezeOn THEN "thaw" ELSE "after"
         /\ run'[p].allFailed => run'[p].good = {}
<1>0. RunTypeOK /\ Typed(p)
  BY TypesHold DEF TypeOK, ProcTypeOK
<1>1. PICK info, limited \in BOOLEAN :
        LET g == IF info THEN run[p].good ELSE {} IN
        /\ run[p].via = "guest" => info
        /\ limited => info /\ g # Disks
        /\ run' = [run EXCEPT ![p].pc = IF job[p].freezeOn THEN "thaw" ELSE "after",
                              ![p].ctx = "snap", ![p].good = g, ![p].info = info,
                              ![p].limited = limited, ![p].allFailed = (g = {}),
                              ![p].allSnapsFailed = (run[p].via = "guest" /\ g = {})]
  BY Zenon DEF SnapshotsDone
<1> DEFINE x == IF job[p].freezeOn THEN "thaw" ELSE "after"
           g == IF info THEN run[p].good ELSE {}
           all == g = {}
           snaps == run[p].via = "guest" /\ g = {}
           r == [run[p] EXCEPT !.pc = x, !.ctx = "snap", !.good = g, !.info = info,
                               !.limited = limited, !.allFailed = all,
                               !.allSnapsFailed = snaps]
<1>2. run'[p] = r
  BY <1>0, <1>1 DEF RunTypeOK
<1>3. /\ r.via = run[p].via /\ r.verdict = run[p].verdict /\ r.shot = run[p].shot
      /\ r.ok = run[p].ok /\ r.ctx = "snap" /\ r.pc = x /\ r.allFailed = all /\ r.good = g
  <2> HIDE DEF x, g, all, snaps
  <2> QED BY <1>0 DEF Typed, RunRecords
<1>4. all => g = {}
  OBVIOUS
<1> HIDE DEF r, g, all
<1> QED BY <1>2, <1>3, <1>4

LEMMA SnapshotsDoneKeeps ==
  ASSUME TypeOK, LossInv, NEW p \in Freezers, DaemonInv(p), SnapshotsDone(p)
  PROVE  DaemonInv(p)'
<1> USE DEF DaemonInv, Alive, Running, Young, First, Settled
<1>0. RunTypeOK /\ Typed(p)
  BY TypesHold DEF TypeOK, ProcTypeOK
<1>1. /\ run[p].pc = "snap" /\ pend[p] = {} /\ Still(p) /\ fz'[p] = fz[p]
      /\ torn'[p] = torn[p] /\ run[p].verdict = NoVerdict /\ run[p].shot = Disks
  BY StillWhen DEF SnapshotsDone, At, LossInv, LossAt
<1>2. /\ run'[p].via = run[p].via /\ run'[p].verdict = run[p].verdict
      /\ run'[p].shot = run[p].shot /\ run'[p].ok = run[p].ok /\ run'[p].ctx = "snap"
      /\ run'[p].pc = IF job[p].freezeOn THEN "thaw" ELSE "after"
      /\ run'[p].allFailed => run'[p].good = {}
  BY SnapshotsDoneMoves
<1>3. SignalInv(p)'  BY <1>1, <1>2 DEF SignalInv, Still, Before
<1>4. FirstInv(p)'   BY <1>1, <1>2 DEF FirstInv, Still, Before, Thawing
<1>5. FreezeInv(p)'
  BY <1>1, <1>2 DEF FreezeInv, Still, Guarded, Told, GaveUp
<1>6. ~LooksGood(p)' /\ ~Claims(p)'
  BY <1>1, <1>2 DEF LooksGood, Claims, ClaimsConsistency, NoVerdict, Still
<1>7. ResultInv(p)'  BY <1>1, <1>2, <1>6 DEF ResultInv, Before, Thawing
<1>8. TornInv(p)'
  BY <1>1, <1>2, <1>6 DEF TornInv, Still, Before
<1> QED BY <1>3, <1>4, <1>5, <1>7, <1>8

(* An exception before the thaw: no snapshot has been taken, or a null     *)
(* blob was met, or the results are dropped.                               *)
LEMMA RaisesMoves ==
  ASSUME TypeOK, LossInv, NEW p \in Freezers, SnapshotRaises(p) \/ ParallelRaises(p)
  PROVE  /\ run'[p].via = run[p].via /\ run'[p].verdict = run[p].verdict
         /\ run'[p].ok = run[p].ok /\ run'[p].ctx = run[p].ctx
         /\ run'[p].shot = run[p].shot
         /\ \/ run'[p].pc = "snap" /\ Keeps(p)
            \/ /\ run'[p].pc = "after"
               /\ run'[p].allFailed => run'[p].good = {}
               /\ run'[p].good = {} \/ job[p].nullBlob
<1>0. RunTypeOK /\ Typed(p) /\ LossAt(run[p], job[p]) /\ run[p].pc = "snap"
  BY TypesHold DEF TypeOK, ProcTypeOK, LossInv, SnapshotRaises, ParallelRaises, At
<1>1. CASE SnapshotRaises(p)
  <2>1. PICK limited \in BOOLEAN :
          run' = [run EXCEPT ![p].pc = "after", ![p].limited = limited,
                             ![p].allFailed = (run[p].good = {})]
    BY <1>1 DEF SnapshotRaises
  <2> DEFINE all == run[p].good = {}
             r == [run[p] EXCEPT !.pc = "after", !.limited = limited, !.allFailed = all]
  <2>2. run'[p] = r
    BY <1>0, <2>1 DEF RunTypeOK
  <2>3. /\ r.via = run[p].via /\ r.verdict = run[p].verdict /\ r.ok = run[p].ok
        /\ r.ctx = run[p].ctx /\ r.pc = "after" /\ r.allFailed = all
        /\ r.good = run[p].good /\ r.shot = run[p].shot
    <3> HIDE DEF all
    <3> QED BY <1>0 DEF Typed, RunRecords
  <2>4. run[p].good = {} \/ job[p].nullBlob
    BY <1>0, <1>1 DEF SnapshotRaises, NullBlob, LossAt
  <2> HIDE DEF r
  <2> QED BY <2>2, <2>3, <2>4
<1>2. CASE run' = [run EXCEPT ![p].par = FALSE]
  BY <1>0, <1>2 DEF RunTypeOK, RunRecords, Keeps
<1>3. CASE run' = [run EXCEPT ![p].pc = "after", ![p].allFailed = TRUE, ![p].good = {}]
  BY <1>0, <1>3 DEF RunTypeOK, RunRecords
<1> QED BY <1>1, <1>2, <1>3 DEF ParallelRaises

LEMMA RaisesKeeps ==
  ASSUME TypeOK, LossInv, NEW p \in Freezers, DaemonInv(p),
         SnapshotRaises(p) \/ ParallelRaises(p)
  PROVE  DaemonInv(p)'
<1> USE DEF DaemonInv, Alive, Running, Young, First, Settled
<1>0. RunTypeOK /\ Typed(p) /\ LossAt(run[p], job[p])
  BY TypesHold DEF TypeOK, ProcTypeOK, LossInv
<1>1. /\ run[p].pc = "snap" /\ pend[p] = {} /\ Still(p) /\ fz'[p] = fz[p]
      /\ torn'[p] = torn[p] /\ run[p].verdict = NoVerdict
  BY <1>0, StillWhen DEF SnapshotRaises, ParallelRaises, At, LossAt
<1>2. /\ run'[p].via = run[p].via /\ run'[p].verdict = run[p].verdict
      /\ run'[p].ok = run[p].ok /\ run'[p].ctx = run[p].ctx
      /\ run'[p].shot = run[p].shot
      /\ \/ run'[p].pc = "snap" /\ Keeps(p)
         \/ /\ run'[p].pc = "after"
            /\ run'[p].allFailed => run'[p].good = {}
            /\ run'[p].good = {} \/ job[p].nullBlob
  BY RaisesMoves
<1>3. SignalInv(p)'  BY <1>1, <1>2 DEF SignalInv, Still, Before
<1>4. FirstInv(p)'   BY <1>1, <1>2 DEF FirstInv, Still, Before, Thawing
<1>5. FreezeInv(p)'
  BY <1>1, <1>2 DEF FreezeInv, Still, Guarded, Told, GaveUp
<1>6. ~LooksGood(p)' /\ ~Claims(p)'
  BY <1>1, <1>2 DEF LooksGood, Claims, ClaimsConsistency, NoVerdict, Still
<1>7. ResultInv(p)'  BY <1>1, <1>2, <1>6 DEF ResultInv, Before, Thawing, Keeps
<1>8. TornInv(p)'
  BY <1>1, <1>2, <1>6 DEF TornInv, Still, Before
<1> QED BY <1>3, <1>4, <1>5, <1>7, <1>8

LEMMA ThawReturnsMoves ==
  ASSUME RunTypeOK, NEW p \in Freezers, NEW err, NEW nosleep, ThawReturns(p, err, nosleep)
  PROVE  /\ run'[p].via = run[p].via /\ run'[p].verdict = run[p].verdict
         /\ run'[p].ok = run[p].ok /\ run'[p].ctx = run[p].ctx
         /\ run'[p].allFailed = run[p].allFailed /\ run'[p].shot = run[p].shot
         /\ run'[p].good = run[p].good /\ run'[p].pc = "unlock" /\ run'[p].thawErr = err
BY DEF ThawReturns, RunTypeOK, RunRecords

(* thaw_safe returns without error only when the binary is gone, and never *)
(* gives up on a binary that might still signal.                           *)
LEMMA ThawReturnsKeeps ==
  ASSUME TypeOK, LossInv, NEW p \in Freezers, DaemonInv(p), Still(p), fz'[p] = fz[p],
         torn'[p] = torn[p], run[p].pc \in {"thaw", "thawwait", "thawdrain"},
         run[p].pc = "thaw" \/ ~Running(p),
         NEW err, NEW nosleep, ThawReturns(p, err, nosleep),
         run[p].ctx = "again" => ~Young(p),
         run[p].ok /\ job[p].freezeOn /\ run[p].ctx = "snap" =>
            err \/ (Calm(p) /\ (OneRival(p) => ~torn[p]))
  PROVE  DaemonInv(p)'
<1> USE DEF DaemonInv, Alive, Running, Young, First, Settled
<1>0. RunTypeOK /\ Typed(p) /\ run[p].verdict = NoVerdict
  BY TypesHold DEF TypeOK, ProcTypeOK, LossInv, LossAt
<1>1. /\ run'[p].via = run[p].via /\ run'[p].verdict = run[p].verdict
      /\ run'[p].ok = run[p].ok /\ run'[p].ctx = run[p].ctx
      /\ run'[p].allFailed = run[p].allFailed /\ run'[p].shot = run[p].shot
      /\ run'[p].good = run[p].good /\ run'[p].pc = "unlock" /\ run'[p].thawErr = err
  BY <1>0, ThawReturnsMoves
<1>2. SignalInv(p)'  BY <1>1 DEF SignalInv, Still, Before
<1>3. FirstInv(p)'   BY <1>1 DEF FirstInv, Still, Before, Thawing
<1>4. FreezeInv(p)'  BY <1>1 DEF FreezeInv, Still, Calm
<1>5. ~LooksGood(p)' /\ ~Claims(p)'
  BY <1>0, <1>1, NotYetClaimed
<1>6. ResultInv(p)'  BY <1>1, <1>5 DEF ResultInv, Before, Thawing
<1>7. TornInv(p)'
  BY <1>1, <1>5 DEF TornInv, Still, Before
<1> QED BY <1>2, <1>3, <1>4, <1>6, <1>7

LEMMA ThawSafeKeeps ==
  ASSUME TypeOK, LossInv, NEW p \in Freezers, DaemonInv(p), ThawSafe(p)
  PROVE  DaemonInv(p)'
<1> USE DEF DaemonInv, Alive, Running, Young, First, Settled
<1>0. RunTypeOK /\ Typed(p) /\ run[p].verdict = NoVerdict
  BY TypesHold DEF TypeOK, ProcTypeOK, ThawSafe, At, LossInv, LossAt
<1>1. /\ run[p].pc = "thaw" /\ pend[p] = {} /\ pend'[p] = pend[p] /\ job' = job
      /\ fz'[p] = fz[p] /\ torn'[p] = torn[p]
  BY DEF ThawSafe, At
<1>2. run[p].ctx = "again" => Settled(p)
  BY <1>1 DEF FirstInv, Before
<1>3. ASSUME UNCHANGED binVars, NEW err, NEW nosleep, ThawReturns(p, err, nosleep),
             run[p].ctx = "again" => ~Young(p),
             run[p].ok /\ job[p].freezeOn /\ run[p].ctx = "snap" =>
                err \/ (Calm(p) /\ (OneRival(p) => ~torn[p]))
      PROVE  DaemonInv(p)'
  <2>1. Still(p)
    BY <1>1, <1>3, StillWhen
  <2>2. run[p].pc \in {"thaw", "thawwait", "thawdrain"}
    BY <1>1
  <2> QED BY <1>1, <1>3, <2>1, <2>2, ThawReturnsKeeps
<1>4. CASE fz[p].skip /\ ThawReturns(p, FALSE, FALSE) /\ UNCHANGED binVars
  <2>1. run[p].ctx = "again" => ~Young(p)
    BY <1>2, <1>4
  <2>2. ASSUME run[p].ok, job[p].freezeOn, run[p].ctx = "snap"
        PROVE  Calm(p) /\ (OneRival(p) => ~torn[p])
    <3>1. Args[p] = <<>> /\ bpc[p] = "idle"
      BY <1>1, <1>4, <2>2 DEF FreezeInv, Guarded
    <3> QED BY <1>1, <2>2, <3>1 DEF Calm, TornInv, Doomed, GaveUp
  <2> QED BY <1>3, <1>4, <2>1, <2>2
<1>5. CASE /\ ~fz[p].skip
           /\ ~fz[p].child \/ ~Running(p)
           /\ \E nosleep : ThawReturns(p, TRUE, nosleep)
           /\ UNCHANGED binVars
  <2>1. run[p].ctx = "again" => ~Young(p)
    BY <1>2, <1>5
  <2> QED BY <1>3, <1>5, <2>1
<1>6. CASE ~fz[p].skip /\ fz[p].child /\ ThawSignal(p) /\ Goto(p, "thawwait")
  <2>1. run'[p].pc = "thawwait" /\ Keeps(p)
    BY <1>0, <1>6, GotoKeeps
  <2>2. /\ Running(p)
        /\ bpc'[p] \in {bpc[p], "exited"}
        /\ bpc[p] # "open" => bpc'[p] = bpc[p] /\ status'[p] = status[p]
    BY <1>6 DEF ThawSignal, TypeOK, BinTypeOK
  <2>3. fz[p].thread # "sleeping" /\ Args[p] # <<>>
    BY <1>1, <2>2 DEF SignalInv, FreezeInv
  <2>4. SignalInv(p)'
    BY <1>1, <2>1, <2>3 DEF SignalInv, Before
  <2>5. FirstInv(p)'
    BY <1>1, <1>6, <2>1, <2>2, <2>3 DEF FirstInv, Before, Thawing, Keeps
  <2>6. FreezeInv(p)'
    BY <1>1, <2>1, <2>3 DEF FreezeInv
  <2>7. ~LooksGood(p)' /\ ~Claims(p)'
    BY <1>0, <2>1, NotYetClaimed DEF Keeps
  <2>8. ResultInv(p)'
    BY <1>1, <2>1, <2>7 DEF ResultInv, Before, Thawing, Keeps
  <2>9. Doomed(p) => Doomed(p)'
    BY <1>6, SignalDoesNotMend
  <2>10. TornInv(p)'
    BY <1>1, <2>1, <2>7, <2>9, RivalsSame DEF TornInv, Before, Keeps
  <2> QED BY <2>4, <2>5, <2>6, <2>8, <2>10
<1> QED BY <1>4, <1>5, <1>6 DEF ThawSafe

LEMMA ThawWaitReturns ==
  ASSUME NEW p \in Freezers, ~Running(p), ThawWait(p) \/ ThawDrain(p)
  PROVE  \E polled \in BOOLEAN, nosleep \in BOOLEAN :
            ThawReturns(p, ~polled \/ status[p] # EXIT_SUCCESS, nosleep)
<1>1. CASE ThawWait(p)
  <2>1. ThawReturns(p, status[p] # EXIT_SUCCESS, FALSE)
    BY <1>1 DEF ThawWait
  <2>2. (status[p] # EXIT_SUCCESS) = (~TRUE \/ status[p] # EXIT_SUCCESS)
    OBVIOUS
  <2>3. ThawReturns(p, ~TRUE \/ status[p] # EXIT_SUCCESS, FALSE)
    BY <2>1, <2>2
  <2> QED BY <2>3, Zenon
<1>2. CASE ThawDrain(p)
  <2>1. \E polled \in BOOLEAN :
          ThawReturns(p, ~polled \/ status[p] # EXIT_SUCCESS, FALSE)
    BY <1>2 DEF ThawDrain
  <2> QED BY <2>1, Zenon
<1> QED BY <1>1, <1>2

LEMMA ThawWaitKeeps ==
  ASSUME TypeOK, LossInv, NEW p \in Freezers, DaemonInv(p), ThawWait(p) \/ ThawDrain(p)
  PROVE  DaemonInv(p)'
<1> USE DEF DaemonInv, Alive, Running, Young, First, Settled
<1>0. RunTypeOK /\ Typed(p) /\ run[p].verdict = NoVerdict
  BY TypesHold DEF TypeOK, ProcTypeOK, ThawWait, ThawDrain, At, LossInv, LossAt
<1>1. /\ run[p].pc \in {"thawwait", "thawdrain"} /\ pend[p] = {} /\ Still(p)
      /\ fz'[p] = fz[p] /\ torn'[p] = torn[p]
  BY StillWhen DEF ThawWait, ThawDrain, At
<1>2. CASE ~Running(p)
  <2>1. PICK polled \in BOOLEAN, nosleep \in BOOLEAN :
          ThawReturns(p, ~polled \/ status[p] # EXIT_SUCCESS, nosleep)
    BY <1>2, ThawWaitReturns
  <2>2. ASSUME run[p].ok, job[p].freezeOn, run[p].ctx = "snap"
        PROVE  (~polled \/ status[p] # EXIT_SUCCESS) \/ (Calm(p) /\ (OneRival(p) => ~torn[p]))
    <3>1. fz[p].thread # "sleeping"
      BY <1>1, <2>2 DEF FreezeInv
    <3>2. OneRival(p) /\ torn[p] => status[p] # EXIT_SUCCESS
      BY <1>1, <1>2, <2>2 DEF TornInv, Doomed, GaveUp
    <3> QED BY <1>2, <3>1, <3>2 DEF Calm
  <2>3. run[p].ctx = "again" => ~Young(p)
    BY <1>2
  <2>4. run[p].pc \in {"thaw", "thawwait", "thawdrain"}
    BY <1>1
  <2> DEFINE err == ~polled \/ status[p] # EXIT_SUCCESS
  <2>5. run[p].ok /\ job[p].freezeOn /\ run[p].ctx = "snap" =>
           err \/ (Calm(p) /\ (OneRival(p) => ~torn[p]))
    BY <2>2
  <2>6. ThawReturns(p, err, nosleep)
    BY <2>1
  <2> HIDE DEF err
  <2> QED BY <1>1, <1>2, <2>3, <2>4, <2>5, <2>6, ThawReturnsKeeps
<1>3. CASE Running(p)
  <2>1. run'[p].pc = "thawdrain" /\ Keeps(p)
    BY <1>0, <1>3, GotoKeeps DEF ThawWait, ThawDrain
  <2>2. SignalInv(p)'  BY <1>1, <2>1 DEF SignalInv, Still, Before
  <2>3. FirstInv(p)'   BY <1>1, <2>1 DEF FirstInv, Still, Before, Thawing, Keeps
  <2>4. FreezeInv(p)'  BY <1>1, <2>1 DEF FreezeInv, Still, Keeps
  <2>5. ~LooksGood(p)' /\ ~Claims(p)'
    BY <1>0, <2>1, NotYetClaimed DEF Keeps
  <2>6. ResultInv(p)'  BY <1>1, <2>1, <2>5 DEF ResultInv, Before, Thawing, Keeps
  <2>7. TornInv(p)'
    BY <1>1, <2>1, <2>5 DEF TornInv, Still, Before, Keeps
  <2> QED BY <2>2, <2>3, <2>4, <2>6, <2>7
<1> QED BY <1>2, <1>3

LEMMA UnlockKeeps ==
  ASSUME TypeOK, LossInv, NEW p \in Freezers, DaemonInv(p), Unlock(p)
  PROVE  DaemonInv(p)'
<1> USE DEF DaemonInv, Alive, Running, Young, First, Settled
<1>0. RunTypeOK /\ Typed(p) /\ run[p].verdict = NoVerdict
  BY TypesHold DEF TypeOK, ProcTypeOK, Unlock, At, LossInv, LossAt
<1>1. /\ run[p].pc = "unlock" /\ Still(p) /\ fz'[p] = fz[p] /\ torn'[p] = torn[p]
  BY StillWhen DEF Unlock, At
<1>2. run'[p].pc = "remove" /\ Keeps(p)
  BY <1>0, GotoKeeps DEF Unlock
<1>3. SignalInv(p)'  BY <1>1, <1>2 DEF SignalInv, Still, Before
<1>4. FirstInv(p)'   BY <1>1, <1>2 DEF FirstInv, Still, Before, Thawing, Keeps
<1>5. FreezeInv(p)'  BY <1>1, <1>2 DEF FreezeInv, Still, Keeps, Calm
<1>6. ~LooksGood(p)' /\ ~Claims(p)'
  BY <1>0, <1>2, NotYetClaimed DEF Keeps
<1>7. ResultInv(p)'  BY <1>1, <1>2, <1>6 DEF ResultInv, Before, Thawing, Keeps
<1>8. TornInv(p)'
  BY <1>1, <1>2, <1>6 DEF TornInv, Still, Before, Keeps
<1> QED BY <1>3, <1>4, <1>5, <1>7, <1>8

LEMMA ThawedMoves ==
  ASSUME RunTypeOK, NEW p \in Freezers, Typed(p), Thawed(p),
         ~(run[p].ctx = "again" /\ Begin(p, "host"))
  PROVE  /\ run'[p].via = run[p].via /\ run'[p].ctx = run[p].ctx /\ run[p].ctx # "again"
         /\ run'[p].ok = run[p].ok /\ run'[p].pc = "after"
         /\ run'[p].verdict = run[p].verdict /\ run'[p].shot = run[p].shot
         /\ \/ /\ run'[p].good = run[p].good /\ run'[p].allFailed = run[p].allFailed
               /\ \/ run[p].ctx = "late"
                  \/ /\ run[p].ctx = "snap"
                     /\ run'[p].inconsistent \/ ~run[p].thawErr
                          \/ (run[p].via # "host" /\ run[p].good # Disks)
            \/ run'[p].good = {}
<1>1. CASE run[p].ctx = "late" /\ run' = [run EXCEPT ![p].pc = "after",
              ![p].noSleep = FALSE, ![p].thawErr = FALSE]
  BY <1>1 DEF RunTypeOK, RunRecords
<1>2. CASE run[p].ctx = "snap" /\ run' = [run EXCEPT ![p].pc = "after", ![p].thawErr = FALSE,
              ![p].inconsistent = /\ run[p].thawErr
                                  /\ run[p].via = "host" \/ run[p].good = Disks]
  <2> DEFINE bad == /\ run[p].thawErr
                    /\ run[p].via = "host" \/ run[p].good = Disks
             r == [run[p] EXCEPT !.pc = "after", !.thawErr = FALSE, !.inconsistent = bad]
  <2>1. run'[p] = r
    BY <1>2 DEF RunTypeOK
  <2>2. /\ r.via = run[p].via /\ r.ctx = run[p].ctx /\ r.ok = run[p].ok /\ r.pc = "after"
        /\ r.verdict = run[p].verdict /\ r.shot = run[p].shot /\ r.good = run[p].good
        /\ r.allFailed = run[p].allFailed /\ r.inconsistent = bad
    <3> HIDE DEF bad
    <3> QED BY DEF Typed, RunRecords
  <2>3. r.inconsistent \/ ~run[p].thawErr \/ (run[p].via # "host" /\ run[p].good # Disks)
    <3> HIDE DEF r
    <3> QED BY <2>2
  <2> HIDE DEF r
  <2> QED BY <1>2, <2>1, <2>2, <2>3
<1>3. CASE run[p].ctx = "snap" /\ run' = [run EXCEPT ![p].pc = "after", ![p].thawErr = FALSE,
              ![p].inconsistent = TRUE, ![p].good = {}, ![p].allFailed = TRUE,
              ![p].allSnapsFailed = FALSE, ![p].limited = FALSE]
  BY <1>3 DEF RunTypeOK, RunRecords
<1> QED BY <1>1, <1>2, <1>3 DEF Thawed

(* What looks good after the thaw had a freeze and an error-free thaw. *)
LEMMA GoodAfterThaw ==
  ASSUME TypeOK, NEW p \in Freezers, DaemonInv(p), run[p].pc = "remove", Thawed(p),
         ~(run[p].ctx = "again" /\ Begin(p, "host")), job' = job, LooksGood(p)'
  PROVE  /\ run[p].ok /\ job[p].freezeOn /\ run[p].ctx = "snap" /\ run[p].shot = Disks
         /\ ~run[p].thawErr
<1>0. RunTypeOK /\ Typed(p)
  BY TypesHold DEF TypeOK, ProcTypeOK
<1>1. /\ run'[p].via = run[p].via /\ run'[p].ctx = run[p].ctx /\ run[p].ctx # "again"
      /\ run'[p].ok = run[p].ok /\ run'[p].pc = "after"
      /\ run'[p].verdict = run[p].verdict /\ run'[p].shot = run[p].shot
      /\ \/ /\ run'[p].good = run[p].good /\ run'[p].allFailed = run[p].allFailed
            /\ \/ run[p].ctx = "late"
               \/ /\ run[p].ctx = "snap"
                  /\ run'[p].inconsistent \/ ~run[p].thawErr
                       \/ (run[p].via # "host" /\ run[p].good # Disks)
         \/ run'[p].good = {}
  BY <1>0, ThawedMoves
<1>2. /\ run[p].ok /\ job[p].freezeOn /\ run'[p].good # {} /\ ~run'[p].inconsistent
      /\ run'[p].via = "guest" => run'[p].good = run'[p].shot
  BY <1>1 DEF LooksGood, AnyDiskSeenFailed
<1>3. run[p].ctx = "snap" /\ run[p].shot = Disks
  BY <1>1, <1>2 DEF DaemonInv, ResultInv, Before, Thawing
<1>4. ~run[p].thawErr
  BY <1>0, <1>1, <1>2, <1>3 DEF Typed, RunRecords
<1> QED BY <1>2, <1>3, <1>4

(* Back in the caller: a success to be reported has an error-free thaw     *)
(* behind it, and a second attempt begins with no binary left to signal.   *)
LEMMA RemoveKeeps ==
  ASSUME TypeOK, LossInv, NEW p \in Freezers, DaemonInv(p), RemoveLockFile(p)
  PROVE  DaemonInv(p)'
<1> USE DEF DaemonInv, Alive, Running, Young, First, Settled
<1>0. RunTypeOK /\ Typed(p) /\ HistoryTypeOK /\ run[p].verdict = NoVerdict
  BY TypesHold DEF TypeOK, ProcTypeOK, RemoveLockFile, At, LossInv, LossAt
<1>1. /\ run[p].pc = "remove" /\ pend[p] = {} /\ Still(p) /\ fz'[p] = fz[p]
      /\ torn'[p] = (torn[p] /\ run[p].ctx # "again")
  BY <1>0, StillWhen DEF RemoveLockFile, At, HistoryTypeOK
<1>2. CASE run[p].ctx = "again" /\ Begin(p, "host")
  <2>1. /\ run'[p].via = "host" /\ run'[p].ctx = "snap" /\ run'[p].thawErr = FALSE
        /\ run'[p].good = {} /\ run'[p].shot = {} /\ run'[p].verdict = NoVerdict
        /\ \/ /\ run'[p].pc = IF job[p].freezeOn THEN "freeze" ELSE "decide"
              /\ run'[p].allFailed = FALSE
           \/ run'[p].pc = "after" /\ run'[p].ok = FALSE
    BY <1>0, <1>2, BeginFresh
  <2>2. /\ job[p].mode = "firstGuestThenHost" /\ ~Young(p) /\ fz[p].thread # "sleeping"
    BY <1>1, <1>2 DEF FirstInv, Before
  <2>3. SignalInv(p)'  BY <1>1, <2>1, <2>2 DEF SignalInv, Still, Before
  <2>4. FirstInv(p)'   BY <1>1, <2>1, <2>2 DEF FirstInv, Still, Before, Thawing
  <2>5. FreezeInv(p)'  BY <1>1, <2>1 DEF FreezeInv, Still
  <2>6. ~LooksGood(p)' /\ ~Claims(p)'  BY <2>1, NothingClaimed
  <2>7. ResultInv(p)'  BY <2>1, <2>6 DEF ResultInv, Before, Thawing
  <2>8. TornInv(p)'    BY <1>1, <1>2, <2>6 DEF TornInv
  <2> QED BY <2>3, <2>4, <2>5, <2>7, <2>8
<1>3. CASE ~(run[p].ctx = "again" /\ Begin(p, "host"))
  <2>1. /\ run'[p].via = run[p].via /\ run'[p].ctx = run[p].ctx /\ run[p].ctx # "again"
        /\ run'[p].ok = run[p].ok /\ run'[p].pc = "after"
        /\ run'[p].verdict = run[p].verdict /\ run'[p].shot = run[p].shot
        /\ \/ /\ run'[p].good = run[p].good /\ run'[p].allFailed = run[p].allFailed
              /\ \/ run[p].ctx = "late"
                 \/ /\ run[p].ctx = "snap"
                    /\ run'[p].inconsistent \/ ~run[p].thawErr
                         \/ (run[p].via # "host" /\ run[p].good # Disks)
           \/ run'[p].good = {}
    BY <1>0, <1>3, ThawedMoves DEF RemoveLockFile
  <2>2. ~Claims(p)'
    BY <1>0, <2>1 DEF Claims, ClaimsConsistency, NoVerdict
  <2>3. LooksGood(p)' =>
           run'[p].shot = Disks /\ Calm(p)' /\ (OneRival(p) => ~torn'[p])
    <3>1. SUFFICES ASSUME LooksGood(p)'
                   PROVE  run'[p].shot = Disks /\ Calm(p)' /\ (OneRival(p) => ~torn'[p])
      OBVIOUS
    <3>2. /\ run[p].ok /\ job[p].freezeOn /\ run[p].ctx = "snap" /\ run[p].shot = Disks
          /\ ~run[p].thawErr
      BY <1>1, <1>3, <3>1, GoodAfterThaw DEF RemoveLockFile, Still
    <3>3. Calm(p) /\ (OneRival(p) => ~torn[p])
      BY <1>1, <3>2 DEF FreezeInv, TornInv
    <3> QED BY <1>1, <2>1, <3>2, <3>3 DEF Still, Calm
  <2>4. SignalInv(p)'  BY <1>1, <2>1 DEF SignalInv, Still, Before
  <2>5. FirstInv(p)'   BY <1>1, <2>1 DEF FirstInv, Still, Before
  <2>6. FreezeInv(p)'  BY <1>1, <2>1 DEF FreezeInv, Still
  <2>7. ResultInv(p)'  BY <1>1, <2>1, <2>2, <2>3 DEF ResultInv, Before, Thawing
  <2>8. TornInv(p)'    BY <1>1, <2>1, <2>2, <2>3 DEF TornInv, Before, Still
  <2> QED BY <2>4, <2>5, <2>6, <2>7, <2>8
<1> QED BY <1>2, <1>3

LEMMA ThawAgainKeeps ==
  ASSUME TypeOK, LossInv, NEW p \in Freezers, DaemonInv(p), ThawAgain(p)
  PROVE  DaemonInv(p)'
<1> USE DEF DaemonInv, Alive, Running, Young, First, Settled
<1>0. RunTypeOK /\ Typed(p) /\ run[p].verdict = NoVerdict
  BY TypesHold DEF TypeOK, ProcTypeOK, ThawAgain, At, LossInv, LossAt
<1>1. /\ run[p].pc = "after" /\ Still(p) /\ fz'[p] = fz[p] /\ torn'[p] = torn[p]
      /\ job[p].mode = "firstGuestThenHost" /\ run[p].via = "guest"
  BY StillWhen DEF ThawAgain, FallsBack, At
<1>2. /\ run'[p].via = run[p].via /\ run'[p].verdict = run[p].verdict
      /\ run'[p].ok = run[p].ok /\ run'[p].allFailed = run[p].allFailed
      /\ run'[p].good = run[p].good /\ run'[p].pc = "thaw" /\ run'[p].ctx = "again"
  BY <1>0 DEF ThawAgain, RunTypeOK, RunRecords
<1>3. SignalInv(p)'  BY <1>1, <1>2 DEF SignalInv, Still, Before
<1>4. FirstInv(p)'   BY <1>1, <1>2 DEF FirstInv, Still, Before, Thawing
<1>5. FreezeInv(p)'  BY <1>1, <1>2 DEF FreezeInv, Still
<1>6. ~LooksGood(p)' /\ ~Claims(p)'
  BY <1>0, <1>2, NotYetClaimed
<1>7. ResultInv(p)'  BY <1>1, <1>2, <1>6 DEF ResultInv, Before, Thawing
<1>8. TornInv(p)'    BY <1>1, <1>2, <1>6 DEF TornInv, Before
<1> QED BY <1>3, <1>4, <1>5, <1>7, <1>8

(* What is reported as a consistent success did look good. *)
LEMMA ClaimLookedGood ==
  ASSUME RunTypeOK, NEW p \in Freezers, ResultInv(p), run[p].pc = "after",
         job[p].freezeOn, ~job[p].nullBlob, run[p].good # {}, ~CrashConsistent(p),
         \/ FreezeSnapshotResult(p).result = "success"
         \/ FreezeSnapshotResult(p).status = "success"
  PROVE  LooksGood(p)
<1>1. \/ Updated(p).result = "success"
      \/ Updated(p).status = "success"
  BY DEF FreezeSnapshotResult
<1>2. /\ run[p].ok /\ ~run[p].inconsistent
      /\ ~(AnyDiskSeenFailed(p) /\ ~run[p].allFailed)
  BY <1>1 DEF Updated
<1>3. ~run[p].allFailed
  BY <1>2 DEF ResultInv
<1> QED BY <1>2, <1>3 DEF LooksGood

LEMMA ReportMoves ==
  ASSUME TypeOK, NEW p \in Freezers, DaemonInv(p), Report(p)
  PROVE  /\ run'[p].pc = "done" /\ run'[p].shot = run[p].shot /\ run'[p].good = run[p].good
         /\ run'[p].allFailed = FALSE /\ run'[p].ctx = "snap"
         /\ Claims(p)' => LooksGood(p)
<1>0. RunTypeOK
  BY DEF TypeOK, ProcTypeOK
<1>1. run[p].pc = "after" /\ job' = job
  BY DEF Report, At
<1>2. PICK workloadError \in BOOLEAN :
       LET r == FreezeSnapshotResult(p)
           v == IF job[p].workload THEN AfterWorkload(p, r, workloadError) ELSE r
       IN run' = [run EXCEPT ![p] =
             [NewRun EXCEPT !.pc = "done", !.via = run[p].via,
                !.shot = run[p].shot, !.good = run[p].good,
                !.verdict = [status |-> v.status, result |-> v.result,
                             crash |-> CrashConsistent(p)]]]
  BY DEF Report
<1> DEFINE r == FreezeSnapshotResult(p)
           v == IF job[p].workload THEN AfterWorkload(p, r, workloadError) ELSE r
           crash == CrashConsistent(p)
           verdict == [status |-> v.status, result |-> v.result, crash |-> crash]
           new == [NewRun EXCEPT !.pc = "done", !.via = run[p].via,
                     !.shot = run[p].shot, !.good = run[p].good, !.verdict = verdict]
<1>3. run'[p] = new
  BY <1>0, <1>2 DEF RunTypeOK
<1>4. r = [status |-> r.status, result |-> r.result]
  BY DEF FreezeSnapshotResult, Updated
<1>5. verdict.result \in {"success", "appConsistent"}
        => r.result \in {"success", "appConsistent"} \/ r.status = "success"
  <2> HIDE DEF r, crash
  <2> QED BY <1>4 DEF AfterWorkload
<1>6. r.result # "appConsistent"
  BY DEF FreezeSnapshotResult, Updated
<1>7. verdict.crash = crash
  OBVIOUS
<1> HIDE DEF verdict, r
<1>8. /\ new.pc = "done" /\ new.shot = run[p].shot /\ new.good = run[p].good
      /\ new.verdict = verdict /\ new.allFailed = FALSE /\ new.ctx = "snap"
  BY DEF NewRun
<1> HIDE DEF new
<1>9. ASSUME Claims(p)'
      PROVE  LooksGood(p)
  <2>1. /\ verdict.result \in {"success", "appConsistent"} /\ ~crash
        /\ run[p].good # {} /\ job[p].freezeOn /\ ~job[p].nullBlob
    BY <1>1, <1>3, <1>7, <1>8, <1>9 DEF Claims, ClaimsConsistency
  <2> QED BY <1>0, <1>1, <1>5, <1>6, <2>1, ClaimLookedGood DEF r, DaemonInv
<1> QED BY <1>3, <1>8, <1>9

LEMMA ReportKeeps ==
  ASSUME TypeOK, NEW p \in Freezers, DaemonInv(p), Report(p)
  PROVE  DaemonInv(p)'
<1> USE DEF DaemonInv, Alive
<1>1. /\ Still(p) /\ torn'[p] = torn[p] /\ fz'[p].thread = "none"
  BY StillWhen DEF Report, TypeOK, ProcTypeOK, FreezerTypeOK, NewFreezer
<1>2. /\ run'[p].pc = "done" /\ run'[p].shot = run[p].shot
      /\ run'[p].allFailed = FALSE /\ run'[p].ctx = "snap"
      /\ Claims(p)' => LooksGood(p)
  BY ReportMoves
<1>3. ~LooksGood(p)'
  BY <1>2 DEF LooksGood
<1>4. LooksGood(p) => run[p].shot = Disks /\ Calm(p) /\ (OneRival(p) => ~torn[p])
  BY DEF ResultInv, TornInv
<1>5. SignalInv(p)' /\ FirstInv(p)'
  BY <1>2 DEF SignalInv, FirstInv
<1>6. FreezeInv(p)'
  BY <1>1, <1>2 DEF FreezeInv, Still
<1>7. ResultInv(p)'
  BY <1>1, <1>2, <1>3, <1>4 DEF ResultInv, Before, Thawing, Calm, Running, Still
<1>8. TornInv(p)'
  BY <1>1, <1>2, <1>3, <1>4 DEF TornInv, Before, Still
<1> QED BY <1>5, <1>6, <1>7, <1>8

LEMMA CrashKeeps ==
  ASSUME TypeOK, NEW p \in Freezers, DaemonInv(p), Crash(p)
  PROVE  DaemonInv(p)'
<1> USE DEF DaemonInv, Alive
<1>0. RunTypeOK /\ HistoryTypeOK
  BY DEF TypeOK, ProcTypeOK
<1>1. /\ run'[p].pc = "dead" /\ run'[p].good = {} /\ run'[p].allFailed = FALSE
      /\ run'[p].ctx = "snap"
  BY <1>0 DEF Crash, NewRun, RunTypeOK
<1>2. bpc'[p] = bpc[p] /\ ~torn'[p]
  BY <1>0 DEF Crash, binVars, HistoryTypeOK
<1>3. ~LooksGood(p)' /\ ~Claims(p)'  BY <1>1, NothingClaimed
<1>4. SignalInv(p)' /\ FirstInv(p)'  BY <1>1 DEF SignalInv, FirstInv
<1>5. FreezeInv(p)'  BY <1>1, <1>2 DEF FreezeInv
<1>6. ResultInv(p)'  BY <1>1, <1>3 DEF ResultInv, Before, Thawing
<1>7. TornInv(p)'    BY <1>2, <1>3 DEF TornInv
<1> QED BY <1>4, <1>5, <1>6, <1>7

-----------------------------------------------------------------------------
(* The signal handlers, the thread and the binary.  They leave the main    *)
(* thread's record alone, so that the claims of a run stay as they are.    *)
LEMMA ClaimsStay ==
  ASSUME NEW p \in Freezers, run'[p] = run[p], job' = job
  PROVE  (LooksGood(p)' <=> LooksGood(p)) /\ (Claims(p)' <=> Claims(p))
BY DEF LooksGood, Claims, AnyDiskSeenFailed, ClaimsConsistency

LEMMA HandlersKeep ==
  ASSUME TypeOK, NEW p \in Freezers, DaemonInv(p), Handlers(p)
  PROVE  DaemonInv(p)'
<1> USE DEF DaemonInv, Alive, Running, Young, First, Settled, Told, GaveUp
<1>0. Typed(p) /\ FreezerTypeOK /\ SignalTypeOK
  BY TypesHold DEF TypeOK, ProcTypeOK
<1>1. /\ run'[p] = run[p] /\ job' = job /\ torn'[p] = torn[p]
      /\ bpc'[p] = bpc[p] /\ gThaw'[p] = gThaw[p] /\ status'[p] = status[p]
  BY DEF Handlers, sigusr1_handler, sigchld_handler, binVars
<1>2. /\ fz'[p].thread = fz[p].thread /\ fz'[p].child = fz[p].child
      /\ fz'[p].skip = fz[p].skip /\ "USR1" \notin pend'[p]
      /\ \/ fz'[p].sig = 1 /\ "USR1" \in pend[p]
         \/ fz'[p].sig = 2 /\ fz[p].child
         \/ fz'[p].sig = fz[p].sig
  <2>1. CASE sigusr1_handler(p)
    BY <1>0, <2>1 DEF sigusr1_handler, FreezerTypeOK, SignalTypeOK, FreezerRecords
  <2>2. CASE sigchld_handler(p)
    <3> DEFINE s == IF fz[p].child /\ bpc[p] = "exited" THEN 2 ELSE fz[p].sig
               f == [fz[p] EXCEPT !.sig = s]
    <3>1. fz'[p] = f /\ pend'[p] = {}
      BY <1>0, <2>2 DEF sigchld_handler, FreezerTypeOK, SignalTypeOK
    <3>2. /\ f.thread = fz[p].thread /\ f.child = fz[p].child /\ f.skip = fz[p].skip
          /\ f.sig = s
      <4> HIDE DEF s
      <4> QED BY <1>0 DEF Typed, FreezerRecords
    <3> HIDE DEF f
    <3> QED BY <3>1, <3>2
  <2> QED BY <2>1, <2>2 DEF Handlers
<1>3. SignalInv(p)'  BY <1>1, <1>2 DEF SignalInv, Before
<1>4. FirstInv(p)'   BY <1>1, <1>2 DEF SignalInv, FirstInv, Before, Thawing
<1>5. FreezeInv(p)'  BY <1>1, <1>2 DEF FreezeInv, Guarded, Calm
<1>6. ResultInv(p)'  BY <1>1, <1>2, ClaimsStay DEF ResultInv, Calm
<1>7. UNCHANGED <<frozen, bpc, cur, status>>
  BY DEF Handlers, sigusr1_handler, sigchld_handler, binVars
<1>8. TornInv(p)'    BY <1>1, <1>7, ClaimsStay, DoomedSame, RivalsSame DEF TornInv
<1> QED BY <1>3, <1>4, <1>5, <1>6, <1>8

LEMMA LauncherKeeps ==
  ASSUME TypeOK, LossInv, NEW p \in Freezers, DaemonInv(p), Launcher(p)
  PROVE  DaemonInv(p)'
<1> USE DEF DaemonInv, Alive, Running, Young, First, Settled, Told, GaveUp
<1>0. Typed(p) /\ FreezerTypeOK /\ BinTypeOK
  BY TypesHold DEF TypeOK, ProcTypeOK
<1>1. run'[p] = run[p] /\ job' = job /\ torn'[p] = torn[p] /\ pend'[p] = pend[p]
  BY DEF Launcher, ThreadLaunches, ThreadAssigns
<1>2. ASSUME fz[p].thread = "sleeping", Alive(p), Args[p] # <<>>
      PROVE  ~LooksGood(p) /\ ~Claims(p)
  <2>1. ~Calm(p)
    BY <1>2 DEF Calm
  <2> QED BY <2>1 DEF ResultInv
<1>3. CASE /\ fz[p].thread = "sleeping" /\ Alive(p) /\ Launch(p)
           /\ fz' = [fz EXCEPT ![p].thread = "launched"]
  <2>1. /\ fz'[p].thread = "launched" /\ fz'[p].child = fz[p].child
        /\ fz'[p].skip = fz[p].skip /\ fz'[p].sig = fz[p].sig
    BY <1>0, <1>3 DEF FreezerTypeOK, FreezerRecords
  <2>2. Args[p] # <<>> /\ bpc'[p] = "open" /\ ~gThaw'[p]
    BY <1>0, <1>3 DEF Launch, BinTypeOK
  <2>3. SignalInv(p)'  BY <1>1, <1>3, <2>1, <2>2 DEF SignalInv, Before
  <2>4. FirstInv(p)'   BY <1>1, <1>3, <2>1, <2>2 DEF SignalInv, FirstInv, Before, Thawing
  <2>5. FreezeInv(p)'  BY <1>1, <1>3, <2>1, <2>2 DEF FreezeInv, Guarded, Calm
  <2>6. ResultInv(p)'  BY <1>1, <1>2, <1>3, <2>2, ClaimsStay DEF ResultInv
  <2>7. TornInv(p)'
    BY <1>1, <1>2, <1>3, <2>2, ClaimsStay, RivalsSame DEF TornInv, FreezeInv, Guarded
  <2> QED BY <2>3, <2>4, <2>5, <2>6, <2>7
<1>4. CASE /\ fz[p].thread \in {"sleeping", "launched"} /\ UNCHANGED binVars
           /\ \/ fz[p].thread = "sleeping" /\ fz' = [fz EXCEPT ![p].thread = "ended"]
              \/ /\ fz[p].thread = "launched"
                 /\ fz' = [fz EXCEPT ![p].thread = "ended", ![p].child = TRUE]
  <2>1. /\ fz'[p].thread = "ended" /\ fz'[p].skip = fz[p].skip /\ fz'[p].sig = fz[p].sig
        /\ \/ fz[p].thread = "sleeping" /\ fz'[p].child = fz[p].child
           \/ fz[p].thread = "launched" /\ fz'[p].child = TRUE
    BY <1>0, <1>4 DEF FreezerTypeOK, FreezerRecords
  <2>2. /\ bpc'[p] = bpc[p] /\ gThaw'[p] = gThaw[p] /\ status'[p] = status[p]
        /\ UNCHANGED <<frozen, bpc, cur, status>>
    BY <1>4 DEF binVars
  <2>3. SignalInv(p)'  BY <1>1, <2>1, <2>2 DEF SignalInv, Before
  <2>4. FirstInv(p)'   BY <1>1, <2>1, <2>2 DEF SignalInv, FirstInv, Before, Thawing
  <2>5. FreezeInv(p)'  BY <1>1, <2>1, <2>2 DEF FreezeInv, Guarded, Calm
  <2>6. ResultInv(p)'  BY <1>1, <2>1, <2>2, ClaimsStay DEF ResultInv, Calm
  <2>7. TornInv(p)'    BY <1>1, <2>2, ClaimsStay, DoomedSame, RivalsSame DEF TornInv
  <2> QED BY <2>3, <2>4, <2>5, <2>6, <2>7
<1> QED BY <1>3, <1>4 DEF Launcher, ThreadLaunches, ThreadAssigns

(* A step of a binary as its daemon may rely on it: it tells when all is   *)
(* frozen, leaves the wait with a failure unless it was asked to, and a    *)
(* failure stays one; only its cleanup thaws.                              *)
LEMMA BinaryMoves ==
  ASSUME BinTypeOK, NEW p \in Freezers, BinStep(p)
  PROVE  /\ bpc[p] \notin {"idle", "exited"} /\ bpc'[p] \notin {"idle", "exited"}
         /\ gThaw' = gThaw
         /\ Young(p)' => Young(p)
         /\ bpc'[p] = "wait" => bpc[p] \in {"notify", "wait"}
         /\ bpc[p] = "notify" => bpc'[p] = "wait"
         /\ bpc[p] = "wait" => \/ bpc'[p] = "wait"
                               \/ bpc'[p] = "thaw" /\ (gThaw[p] \/ status'[p] # EXIT_SUCCESS)
         /\ bpc[p] = "thaw" => /\ bpc'[p] = "thaw"
                               /\ status[p] # EXIT_SUCCESS => status'[p] # EXIT_SUCCESS
         /\ frozen \ frozen' # {} => bpc[p] = "thaw"
<1> USE DEF BinTypeOK, Cleanup, Young, EXIT_SUCCESS, EXIT_FAILURE, SLEEP_FAILED
<1>1. CASE OpenAll(p)     BY <1>1 DEF OpenAll
<1>2. CASE OpenFails(p)   BY <1>2 DEF OpenFails
<1>3. CASE FreezeNext(p)  BY <1>3 DEF FreezeNext
<1>4. CASE FreezeFails(p) BY <1>4 DEF FreezeFails
<1>5. CASE Notify(p)      BY <1>5 DEF Notify
<1>6. CASE SleepOne(p)    BY <1>6 DEF SleepOne
<1>7. CASE WaitOver(p)    BY <1>7 DEF WaitOver
<1>8. CASE ThawNext(p)    BY <1>8 DEF ThawNext
<1> QED
  BY <1>1, <1>2, <1>3, <1>4, <1>5, <1>6, <1>7, <1>8 DEF BinStep

(* What is doomed stays so: a mount that is missing in the cleanup is one  *)
(* whose FITHAW fails.                                                     *)
LEMMA DoomedWorks ==
  ASSUME BinTypeOK, NEW p \in Freezers, BinStep(p), Doomed(p)
  PROVE  Doomed(p)'
<1> USE DEF BinTypeOK
<1>1. CASE GaveUp(p)
  BY <1>1, BinaryMoves DEF GaveUp, Doomed
<1>2. CASE Spent(p) /\ \E i \in Missing(p) : bpc[p] = "wait" \/ (bpc[p] = "thaw" /\ i <= cur[p])
  <2>1. PICK i \in 1..Len(Args[p]) :
          Args[p][i] \notin frozen /\ (bpc[p] = "wait" \/ (bpc[p] = "thaw" /\ i <= cur[p]))
    BY <1>2 DEF Missing
  <2>2. SleepOne(p) \/ WaitOver(p) \/ ThawNext(p)
    BY <2>1 DEF BinStep, OpenAll, OpenFails, FreezeNext, FreezeFails, Notify
  <2>3. Spent(p)' /\ Args[p][i] \notin frozen'
    <3>1. \A q \in Freezers \ {p} : bpc'[q] = bpc[q]
      BY <2>2 DEF SleepOne, WaitOver, ThawNext, Cleanup
    <3> QED BY <1>2, <2>1, <2>2, <3>1 DEF Spent, Rivals, MountsOf, SleepOne, WaitOver, ThawNext
  <2>4. CASE SleepOne(p)
    BY <2>1, <2>3, <2>4 DEF SleepOne, Doomed, Missing
  <2>5. CASE WaitOver(p)
    BY <2>1, <2>3, <2>5 DEF WaitOver, Cleanup, Doomed, Missing
  <2>6. CASE ThawNext(p) /\ i = cur[p]
    <3>1. bpc'[p] = "thaw" /\ status'[p] = EXIT_FAILURE
      BY <2>1, <2>6 DEF ThawNext
    <3> QED BY <3>1 DEF Doomed, GaveUp, EXIT_FAILURE, EXIT_SUCCESS
  <2>7. CASE ThawNext(p) /\ i # cur[p]
    BY <2>1, <2>3, <2>7 DEF ThawNext, Doomed, Missing
  <2> QED BY <2>2, <2>4, <2>5, <2>6, <2>7
<1> QED BY <1>1, <1>2 DEF Doomed

LEMMA BinaryWorksKeeps ==
  ASSUME TypeOK, LossInv, NEW p \in Freezers, DaemonInv(p), BinaryWorks(p)
  PROVE  DaemonInv(p)'
<1> USE DEF DaemonInv, Alive, Running, Young, First, Settled, Told, GaveUp
<1>0. Typed(p) /\ BinTypeOK /\ SignalTypeOK
  BY TypesHold DEF TypeOK, ProcTypeOK
<1>1. /\ run'[p] = run[p] /\ job' = job /\ fz'[p] = fz[p]
      /\ pend'[p] = IF bpc[p] = "notify" /\ Alive(p) THEN pend[p] \cup {"USR1"} ELSE pend[p]
      /\ torn'[p] = (torn[p] \/ (Shooting(p) /\ MountsOf(p) \cap (frozen \ frozen') # {}))
  BY <1>0 DEF BinaryWorks, SignalTypeOK
<1>2. /\ bpc[p] \notin {"idle", "exited"} /\ bpc'[p] \notin {"idle", "exited"}
      /\ gThaw'[p] = gThaw[p]
      /\ Young(p)' => Young(p)
      /\ bpc'[p] = "wait" => bpc[p] \in {"notify", "wait"}
      /\ bpc[p] = "notify" => bpc'[p] = "wait"
      /\ bpc[p] = "wait" => \/ bpc'[p] = "wait"
                            \/ bpc'[p] = "thaw" /\ (gThaw[p] \/ status'[p] # EXIT_SUCCESS)
      /\ bpc[p] = "thaw" => /\ bpc'[p] = "thaw"
                            /\ status[p] # EXIT_SUCCESS => status'[p] # EXIT_SUCCESS
      /\ frozen \ frozen' # {} => bpc[p] = "thaw"
  BY <1>0, BinaryMoves DEF BinaryWorks
<1>3. ~LooksGood(p) /\ ~Claims(p)
  BY <1>2 DEF ResultInv, Calm
<1>4. Alive(p) => fz[p].thread # "sleeping"
  BY <1>2 DEF SignalInv
<1>5. SignalInv(p)'  BY <1>1, <1>2, <1>4 DEF SignalInv, Before
<1>6. FirstInv(p)'   BY <1>1, <1>2 DEF FirstInv, Before, Thawing
<1>7. FreezeInv(p)'
  BY <1>1, <1>2 DEF FreezeInv, SignalInv, Guarded, Calm
<1>8. ResultInv(p)'  BY <1>1, <1>3, ClaimsStay DEF ResultInv
<1>9. TornInv(p)'
  <2>1. ASSUME Shooting(p), MountsOf(p) \cap (frozen \ frozen') # {},
               run[p].ok, job[p].freezeOn
        PROVE  GaveUp(p)
    BY <1>2, <2>1 DEF Shooting, FreezeInv, Guarded
  <2>2. run[p].pc \in Before \cup {"wait", "drain", "decide"} => ~Shooting(p)
    BY DEF Shooting, Before
  <2>3. run[p].pc # "snap" => ~Shooting(p)
    BY DEF Shooting
  <2>4. Doomed(p) => Doomed(p)'
    BY <1>0, DoomedWorks DEF BinaryWorks
  <2>5. GaveUp(p) => Doomed(p)
    BY DEF Doomed
  <2> HIDE DEF GaveUp
  <2> QED
    BY <1>1, <1>3, <2>1, <2>2, <2>3, <2>4, <2>5, ClaimsStay, RivalsSame DEF TornInv
<1> QED BY <1>5, <1>6, <1>7, <1>8, <1>9

LEMMA BinaryExitsKeeps ==
  ASSUME TypeOK, NEW p \in Freezers, DaemonInv(p), BinaryExits(p)
  PROVE  DaemonInv(p)'
<1> USE DEF DaemonInv, Alive, Running, Young, First, Settled, Told, GaveUp
<1>0. Typed(p) /\ BinTypeOK /\ SignalTypeOK
  BY TypesHold DEF TypeOK, ProcTypeOK
<1>1. /\ run'[p] = run[p] /\ job' = job /\ fz'[p] = fz[p] /\ torn'[p] = torn[p]
      /\ "USR1" \in pend'[p] => "USR1" \in pend[p]
      /\ bpc[p] = "thaw" /\ bpc'[p] = "exited" /\ status'[p] = status[p]
  BY <1>0 DEF BinaryExits, Exit, SignalTypeOK, BinTypeOK
<1>2. ~LooksGood(p) /\ ~Claims(p)
  BY <1>1 DEF ResultInv, Calm
<1>3. SignalInv(p)'  BY <1>1 DEF SignalInv, Before
<1>4. FirstInv(p)'   BY <1>1 DEF FirstInv, Before, Thawing
<1>5. FreezeInv(p)'  BY <1>1 DEF FreezeInv, Guarded, Calm
<1>6. ResultInv(p)'  BY <1>1, <1>2, ClaimsStay DEF ResultInv
<1>7. Doomed(p) => Doomed(p)'
  BY <1>0, ExitDoesNotMend DEF BinaryExits
<1>8. TornInv(p)'    BY <1>1, <1>2, <1>7, ClaimsStay, RivalsSame DEF TornInv
<1> QED BY <1>3, <1>4, <1>5, <1>6, <1>8

-----------------------------------------------------------------------------
LEMMA OwnStepKeeps ==
  ASSUME TypeOK, LossInv, NEW p \in Freezers, DaemonInv(p), HoldInv(p),
         MainThread(p) \/ Handlers(p) \/ Launcher(p) \/ Binary(p) \/ Crash(p)
  PROVE  DaemonInv(p)'
<1>1. CASE MainThread(p)
  BY <1>1, StartKeeps, FreezeSafeKeeps, LockKeeps, StartProcKeeps, StartProcReturnsKeeps,
    DrainOutputKeeps, DecideKeeps, SnapDiskKeeps, SnapshotsDoneKeeps, RaisesKeeps,
    ThawSafeKeeps, ThawWaitKeeps, UnlockKeeps, RemoveKeeps, ThawAgainKeeps, ReportKeeps
  DEF MainThread
<1>2. CASE Handlers(p) \/ Launcher(p) \/ Binary(p) \/ Crash(p)
  BY <1>2, HandlersKeep, LauncherKeeps, BinaryWorksKeeps, BinaryExitsKeeps, CrashKeeps
  DEF Binary
<1> QED BY <1>1, <1>2

-----------------------------------------------------------------------------
(* What the binaries of two freezers do to each other's freezes.           *)

(* All a step of a daemon may do to the binaries; a binary is launched     *)
(* once for each attempt.                                                  *)
BinMove(p) ==
  \/ BinStep(p) \/ Exit(p) \/ ThawSignal(p) \/ UNCHANGED binVars
  \/ Launch(p) /\ Alive(p) /\ fz[p].thread = "sleeping"

LEMMA JobSame ==
  ASSUME NEW p \in Freezers,
         MainThread(p) \/ Handlers(p) \/ Launcher(p) \/ Binary(p) \/ Crash(p)
  PROVE  job' = job
BY DEF MainThread, Start, FreezeSafe, OpenLockFile, LockFile, StartProc, StartProcReturns,
  DrainOutput, Decide, SnapDisk, SnapshotsDone, SnapshotRaises, ParallelRaises, ThawSafe,
  ThawWait, ThawDrain, Unlock, RemoveLockFile, ThawAgain, Report, Handlers,
  sigusr1_handler, sigchld_handler, Launcher, ThreadLaunches, ThreadAssigns, Binary,
  BinaryWorks, BinaryExits, Crash

LEMMA StepMovesBinary ==
  ASSUME NEW p \in Freezers,
         MainThread(p) \/ Handlers(p) \/ Launcher(p) \/ Binary(p) \/ Crash(p)
  PROVE  BinMove(p)
<1>1. MainThread(p) => ThawSignal(p) \/ UNCHANGED binVars
  BY DEF MainThread, Start, FreezeSafe, OpenLockFile, LockFile, StartProc,
    StartProcReturns, DrainOutput, Decide, SnapDisk, SnapshotsDone, SnapshotRaises,
    ParallelRaises, ThawSafe, ThawWait, ThawDrain, Unlock, RemoveLockFile, ThawAgain,
    Report
<1>2. Handlers(p) \/ Launcher(p) \/ Binary(p) \/ Crash(p) => BinMove(p)
  BY DEF BinMove, Handlers, Launcher, Binary, Crash, sigusr1_handler, sigchld_handler,
    ThreadLaunches, ThreadAssigns, BinaryWorks, BinaryExits
<1> QED BY <1>1, <1>2 DEF BinMove

(* A binary's move leaves the others where they are; one that is thawing,  *)
(* or has exited, stays so when its freezer makes a single attempt.        *)
LEMMA BinMoveIsOwn ==
  ASSUME BinTypeOK, NEW p \in Freezers, BinMove(p)
  PROVE  /\ \A q \in Freezers \ {p} : bpc'[q] = bpc[q] /\ cur'[q] = cur[q] /\ status'[q] = status[q]
         /\ frozen \ frozen' # {} => bpc[p] = "thaw" /\ bpc'[p] = "thaw"
         /\ frozen' \ frozen # {} => bpc[p] = "freeze"
         /\ frozen \subseteq frozen' \cup MountsOf(p)
         /\ frozen' \subseteq frozen \cup MountsOf(p)
         /\ bpc[p] \in {"thaw", "exited"} =>
               \/ bpc'[p] \in {"thaw", "exited"}
               \/ bpc[p] = "exited" /\ Alive(p) /\ fz[p].thread = "sleeping"
<1> USE ArgsAreMounts DEF BinTypeOK, Cleanup, MountsOf, Running
<1>1. CASE OpenAll(p)     BY <1>1 DEF OpenAll
<1>2. CASE OpenFails(p)   BY <1>2 DEF OpenFails
<1>3. CASE FreezeNext(p)  BY <1>3 DEF FreezeNext
<1>4. CASE FreezeFails(p) BY <1>4 DEF FreezeFails
<1>5. CASE Notify(p)      BY <1>5 DEF Notify
<1>6. CASE SleepOne(p)    BY <1>6 DEF SleepOne
<1>7. CASE WaitOver(p)    BY <1>7 DEF WaitOver
<1>8. CASE ThawNext(p)    BY <1>8 DEF ThawNext
<1>9. CASE Exit(p)        BY <1>9 DEF Exit
<1>10. CASE ThawSignal(p) BY <1>10 DEF ThawSignal
<1>11. CASE UNCHANGED binVars BY <1>11 DEF binVars
<1>12. CASE Launch(p) /\ Alive(p) /\ fz[p].thread = "sleeping" BY <1>12 DEF Launch
<1> QED
  BY <1>1, <1>2, <1>3, <1>4, <1>5, <1>6, <1>7, <1>8, <1>9, <1>10, <1>11, <1>12
  DEF BinMove, BinStep

(* A rival that has begun to thaw never freezes again. *)
LEMMA SpentStays ==
  ASSUME BinTypeOK, NEW p \in Freezers, NEW q \in Freezers, BinMove(q), FirstInv(q),
         OneRival(p), Spent(p)
  PROVE  Spent(p)' /\ (q \in Rivals(p) => bpc[q] \in {"thaw", "exited"})
<1>1. PICK r \in Rivals(p) : bpc[r] \in {"thaw", "exited"}
  BY DEF Spent
<1>2. r \in Freezers /\ TriesOnce(r) /\ (q \in Rivals(p) => q = r)
  BY <1>1 DEF OneRival, Rivals
<1>3. bpc'[r] \in {"thaw", "exited"}
  <2>1. CASE q = r
    <3>1. Alive(q) /\ fz[q].thread = "sleeping" => bpc[q] = "idle"
      BY <1>2, <2>1 DEF FirstInv, First, TriesOnce
    <3> QED BY <1>1, <2>1, <3>1, BinMoveIsOwn
  <2>2. CASE q # r
    BY <1>1, <1>2, <2>2, BinMoveIsOwn
  <2> QED BY <2>1, <2>2
<1> QED BY <1>1, <1>2, <1>3 DEF Spent, Rivals, MountsOf

(* A freezer that is no rival does not touch what p names. *)
LEMMA NoRivalNoTouch ==
  ASSUME BinTypeOK, NEW p \in Freezers, NEW q \in Freezers, q # p, BinMove(q),
         q \notin Rivals(p) \/ bpc[q] \notin {"freeze", "thaw"}
  PROVE  Missing(p)' = Missing(p)
<1>1. \A m \in MountsOf(p) : m \in frozen <=> m \in frozen'
  <2>1. CASE q \notin Rivals(p)
    BY <2>1, BinMoveIsOwn DEF Rivals
  <2>2. CASE bpc[q] \notin {"freeze", "thaw"}
    BY <2>2, BinMoveIsOwn
  <2> QED BY <2>1, <2>2
<1> QED BY <1>1 DEF Missing, MountsOf

LEMMA HoldKept ==
  ASSUME BinTypeOK, NEW p \in Freezers, NEW q \in Freezers, BinMove(q), FirstInv(q),
         HoldInv(p), job' = job
  PROVE  HoldInv(p)'
<1> SUFFICES ASSUME OneRival(p), ~Spent(p)'
             PROVE  Held(p)' \cap Missing(p)' = {}
  BY RivalsSame DEF HoldInv
<1>1. ~Spent(p) /\ Held(p) \cap Missing(p) = {}
  BY SpentStays DEF HoldInv
<1>2. CASE p = q
  <2> USE <1>1, <1>2 DEF BinTypeOK, Held, Missing, Cleanup
  <2>1. CASE OpenAll(p)     BY <2>1 DEF OpenAll
  <2>2. CASE OpenFails(p)   BY <2>2 DEF OpenFails
  <2>3. CASE FreezeNext(p)  BY <2>3 DEF FreezeNext
  <2>4. CASE FreezeFails(p) BY <2>4 DEF FreezeFails
  <2>5. CASE Notify(p)      BY <2>5 DEF Notify
  <2>6. CASE SleepOne(p)    BY <2>6 DEF SleepOne
  <2>7. CASE WaitOver(p)    BY <2>7 DEF WaitOver
  <2>8. CASE ThawNext(p)    BY <2>8 DEF ThawNext
  <2>9. CASE Exit(p)        BY <2>9 DEF Exit
  <2>10. CASE ThawSignal(p) BY <2>10 DEF ThawSignal
  <2>11. CASE UNCHANGED binVars BY <2>11 DEF binVars
  <2>12. CASE Launch(p)     BY <2>12 DEF Launch
  <2> QED
    BY <2>1, <2>2, <2>3, <2>4, <2>5, <2>6, <2>7, <2>8, <2>9, <2>10, <2>11, <2>12
    DEF BinMove, BinStep
<1>3. CASE p # q
  <2>1. Held(p)' = Held(p)
    BY <1>3, BinMoveIsOwn DEF Held
  <2>2. ASSUME NEW i \in Held(p), i \in Missing(p)', i \notin Missing(p)
        PROVE  FALSE
    <3>1. q \in Rivals(p) /\ bpc[q] \in {"freeze", "thaw"}
      BY <1>3, <2>2, NoRivalNoTouch
    <3>2. frozen \ frozen' # {}
      BY <2>2 DEF Missing
    <3> QED BY <3>1, <3>2, BinMoveIsOwn DEF Spent, Rivals, MountsOf
  <2> QED BY <1>1, <2>1, <2>2
<1> QED BY <1>2, <1>3

(* Another's step does not mend what is doomed. *)
LEMMA DoomedKept ==
  ASSUME BinTypeOK, NEW p \in Freezers, NEW q \in Freezers, q # p, BinMove(q), FirstInv(q),
         OneRival(p), Doomed(p)
  PROVE  Doomed(p)'
<1>1. bpc'[p] = bpc[p] /\ cur'[p] = cur[p] /\ status'[p] = status[p]
  BY BinMoveIsOwn
<1>2. CASE GaveUp(p)
  BY <1>1, <1>2 DEF Doomed, GaveUp
<1>3. CASE ~GaveUp(p)
  <2>1. Spent(p)' /\ (q \in Rivals(p) => bpc[q] \in {"thaw", "exited"})
    BY <1>3, SpentStays DEF Doomed
  <2>2. Missing(p) \subseteq Missing(p)'
    <3>1. CASE q \notin Rivals(p)
      BY <3>1, NoRivalNoTouch
    <3>2. CASE q \in Rivals(p)
      <4>1. frozen' \subseteq frozen
        BY <2>1, <3>2, BinMoveIsOwn
      <4> QED BY <4>1 DEF Missing
    <3> QED BY <3>1, <3>2
  <2>3. PICK i \in Missing(p) : bpc[p] = "wait" \/ (bpc[p] = "thaw" /\ i <= cur[p])
    BY <1>3 DEF Doomed
  <2> QED BY <1>1, <2>1, <2>2, <2>3 DEF Doomed
<1> QED BY <1>2, <1>3

(* Another's step opens no gap in p's freeze that p's thaw will not report. *)
LEMMA TornKept ==
  ASSUME TypeOK, LossInv, NEW p \in Freezers, NEW q \in Freezers, q # p,
         DaemonInv(p), DaemonInv(q), SameDaemon(p),
         MainThread(q) \/ Handlers(q) \/ Launcher(q) \/ Binary(q) \/ Crash(q)
  PROVE  TornInv(p)'
<1> USE DEF SameDaemon
<1>0. BinTypeOK /\ HistoryTypeOK /\ BinMove(q) /\ FirstInv(q) /\ TornInv(p) /\ FreezeInv(p)
  BY StepMovesBinary DEF TypeOK, ProcTypeOK, DaemonInv
<1> SUFFICES ASSUME OneRival(p) PROVE TornInv(p)'
  BY RivalsSame DEF TornInv
<1>1. Doomed(p) => Doomed(p)'
  BY <1>0, DoomedKept
<1>2. CASE torn'[p] = torn[p]
  BY <1>0, <1>1, <1>2, ClaimsStay DEF TornInv
<1>3. CASE torn'[p] # torn[p]
  <2>1. BinaryWorks(q)
    BY <1>3, StepIsOwn
  <2>2. Shooting(p) /\ MountsOf(p) \cap (frozen \ frozen') # {}
    BY <1>0, <1>3, <2>1 DEF BinaryWorks, HistoryTypeOK
  <2>3. run[p].pc = "snap" /\ ~LooksGood(p) /\ ~Claims(p)
    BY <2>2 DEF Shooting, LooksGood, Claims, ClaimsConsistency, LossInv, LossAt, NoVerdict
  <2>4. ASSUME run[p].ok, job[p].freezeOn
        PROVE  Doomed(p)'
    <3>1. Args[p] # <<>>
      BY <2>2 DEF MountsOf
    <3>2. bpc[p] = "wait" \/ GaveUp(p)
      BY <1>0, <2>3, <2>4, <3>1 DEF FreezeInv, Guarded, Told
    <3>3. q \in Rivals(p) /\ bpc'[q] = "thaw"
      BY <1>0, <2>2, BinMoveIsOwn DEF Rivals
    <3>4. Spent(p)' /\ Missing(p)' # {}
      BY <2>2, <3>3 DEF Spent, Rivals, Missing, MountsOf
    <3>5. CASE bpc[p] = "wait"
      BY <3>4, <3>5 DEF Doomed
    <3> QED BY <1>1, <3>2, <3>5 DEF Doomed
  <2> QED BY <2>3, <2>4, ClaimsStay DEF TornInv, Before
<1> QED BY <1>2, <1>3

-----------------------------------------------------------------------------
LEMMA GuardInit == ASSUME Init PROVE GuardInv
<1> SUFFICES ASSUME NEW p \in Freezers PROVE DaemonInv(p) /\ HoldInv(p)
  BY DEF GuardInv
<1>1. /\ run[p].pc = "start" /\ run[p].ctx = "snap" /\ run[p].via = "guest"
      /\ run[p].allFailed = FALSE /\ run[p].good = {} /\ run[p].shot = {}
  BY DEF Init, NewRun
<1>2. /\ fz[p].thread = "none" /\ fz[p].child = FALSE /\ fz[p].sig = 0
      /\ pend[p] = {} /\ bpc[p] = "idle" /\ torn[p] = FALSE
  BY DEF Init, BinInit, NewFreezer
<1>3. ~LooksGood(p) /\ ~Claims(p)
  BY <1>1 DEF LooksGood, Claims, ClaimsConsistency
<1>4. SignalInv(p)  BY <1>1, <1>2 DEF SignalInv, Running, Young
<1>5. FirstInv(p)   BY <1>1, <1>2 DEF FirstInv, First, Before
<1>6. FreezeInv(p)  BY <1>1, <1>2 DEF FreezeInv
<1>7. ResultInv(p)  BY <1>1, <1>3 DEF ResultInv, Before, Thawing
<1>8. TornInv(p)    BY <1>2, <1>3 DEF TornInv
<1>9. HoldInv(p)    BY <1>2 DEF HoldInv, Held
<1> QED BY <1>4, <1>5, <1>6, <1>7, <1>8, <1>9 DEF DaemonInv

LEMMA GuardNext ==
  ASSUME TypeOK, LossInv, GuardInv, [Next]_vars
  PROVE  GuardInv'
<1> SUFFICES ASSUME NEW q \in Freezers PROVE DaemonInv(q)' /\ HoldInv(q)'
  BY DEF GuardInv
<1>0. DaemonInv(q) /\ HoldInv(q) /\ BinTypeOK
  BY DEF GuardInv, TypeOK
<1>1. CASE UNCHANGED vars
  <2>1. SameDaemon(q) /\ torn' = torn /\ UNCHANGED binVars
    BY <1>1 DEF vars, procVars, binVars, SameDaemon
  <2>2. TornInv(q)'
    <3>1. UNCHANGED <<frozen, bpc, cur, status>>
      BY <2>1 DEF binVars
    <3> QED BY <1>0, <2>1, <3>1, ClaimsStay, DoomedSame, RivalsSame
        DEF DaemonInv, TornInv, SameDaemon
  <2>3. HoldInv(q)'
    BY <1>0, <2>1, HoldKept DEF BinMove, DaemonInv, SameDaemon
  <2> QED BY <1>0, <2>1, <2>2, <2>3, SameKeeps
<1>2. ASSUME NEW p \in Freezers,
             MainThread(p) \/ Handlers(p) \/ Launcher(p) \/ Binary(p) \/ Crash(p)
      PROVE  DaemonInv(q)' /\ HoldInv(q)'
  <2>1. DaemonInv(p)
    BY DEF GuardInv
  <2>2. job' = job
    BY <1>2, JobSame
  <2>3. HoldInv(q)'
    BY <1>0, <1>2, <2>1, <2>2, HoldKept, StepMovesBinary DEF DaemonInv
  <2>4. CASE p = q
    BY <1>0, <1>2, <2>3, <2>4, OwnStepKeeps
  <2>5. CASE p # q
    <3>1. SameDaemon(q)
      BY <1>2, <2>5, StepIsOwn DEF SameDaemon
    <3>2. TornInv(q)'
      BY <1>0, <1>2, <2>1, <2>5, <3>1, TornKept
    <3> QED BY <1>0, <2>3, <3>1, <3>2, SameKeeps
  <2> QED BY <2>4, <2>5
<1> QED BY <1>1, <1>2 DEF Next

(* The invariant, with what it rests on: the types, that the results are   *)
(* of disks that were captured, and that a waiting binary holds its freeze. *)
LEMMA GuardHolds == Spec => [](GuardInv /\ WaitingHoldsFreeze /\ LossInv)
<1>1. TypeOK /\ LossInv /\ GuardInv /\ [Next]_vars => GuardInv'
  BY GuardNext
<1> QED
  BY <1>1, GuardInit, LossHolds, TypeCorrect, DaemonsUseBinaries, WaitingBinaryHoldsFreeze,
    PTL DEF Spec

(* Whatever signals, threads, timeouts and failures do to a daemon, it     *)
(* takes no snapshot after a successful freeze but while the freeze holds  *)
(* or its binary has failed, provided no other daemon names a file system  *)
(* of its own.                                                             *)
THEOREM FreezeGuardsSnapshots ==
  ASSUME \A p \in Freezers : Alone(p)
  PROVE  Spec => []SnapshotsAreGuarded
<1>1. GuardInv /\ WaitingHoldsFreeze => SnapshotsAreGuarded
  <2> SUFFICES ASSUME GuardInv, WaitingHoldsFreeze, NEW p \in Freezers, run[p].pc = "snap",
                      run[p].ok, job[p].freezeOn, ~(MountsOf(p) \subseteq frozen)
               PROVE  GaveUp(p)
    BY DEF SnapshotsAreGuarded, GaveUp
  <2>1. Guarded(p)
    BY DEF GuardInv, DaemonInv, FreezeInv
  <2>2. bpc[p] # "wait"
    BY DEF WaitingHoldsFreeze
  <2>3. Args[p] # <<>>
    BY DEF MountsOf
  <2> QED BY <2>1, <2>2, <2>3 DEF Guarded, Told
<1> QED
  BY <1>1, GuardHolds, PTL

(* What the hypotheses say of each: a rival, if any, makes one attempt.   *)
LEMMA OneRivalEach ==
  ASSUME \A p \in Freezers : \A q, r \in Rivals(p) : q = r,
         \/ \A p \in Freezers : Alone(p)
         \/ \A i \in Inputs : i.mode # "firstGuestThenHost",
         TypeOK, NEW p \in Freezers
  PROVE  OneRival(p)
<1>1. \A q \in Rivals(p) : q \in Freezers /\ ~Alone(p)
  BY DEF Rivals, Alone
<1>2. \A q \in Freezers : job[q] \in Inputs
  BY DEF TypeOK, ProcTypeOK, SignalTypeOK
<1> QED BY <1>1, <1>2 DEF OneRival, TriesOnce

(* A backup reported as consistent is: all its disks were captured while   *)
(* every file system it named was frozen, without a gap.  No lock is       *)
(* needed for this: it holds for two daemons on the same file systems, and *)
(* for any number in pairs, as long as a rival makes a single attempt.     *)
THEOREM SuccessMeansConsistent ==
  ASSUME \A p \in Freezers : \A q, r \in Rivals(p) : q = r,
         \/ \A p \in Freezers : Alone(p)
         \/ \A i \in Inputs : i.mode # "firstGuestThenHost"
  PROVE  Spec => []SuccessIsConsistent
<1>1. TypeOK /\ GuardInv => SuccessIsConsistent
  BY OneRivalEach DEF GuardInv, DaemonInv, ResultInv, TornInv, SuccessIsConsistent
<1> QED
  BY <1>1, GuardHolds, TypeCorrect, PTL

(* Such a report leaves no binary of the daemon running, and so nothing it *)
(* has frozen, also when other daemons name the same file systems.         *)
THEOREM SuccessMeansThawed == Spec => []SuccessLeavesThawed
<1>1. GuardInv => SuccessLeavesThawed
  BY DEF GuardInv, DaemonInv, ResultInv, Calm, Claims, SuccessLeavesThawed
<1> QED
  BY <1>1, GuardHolds, PTL
-----------------------------------------------------------------------------
(***************************************************************************)
(* Each daemon implements FreezeLease.  A lease that is held is a freeze   *)
(* that holds: that is the one fact about the binaries the steps need.     *)
(***************************************************************************)
HeldIsFrozen(p) == Lease(p) = "held" => MountsOf(p) \subseteq frozen

LeaseStep(p) == [Backup(p)!Next]_(Backup(p)!backup)

(* What Doomed leaves open is that the binary waits and nothing of what it *)
(* froze is missing.                                                       *)
LEMMA HeldFreezes ==
  ASSUME GuardInv, NEW p \in Freezers, OneRival(p)
  PROVE  HeldIsFrozen(p)
<1> SUFFICES ASSUME Lease(p) = "held" PROVE MountsOf(p) \subseteq frozen
  BY DEF HeldIsFrozen
<1>1. run[p].pc \in {"decide", "snap", "thaw"} /\ InForce(p) /\ ~Doomed(p)
  BY DEF Lease
<1>2. Guarded(p) /\ HoldInv(p)
  BY <1>1 DEF GuardInv, DaemonInv, FreezeInv, InForce
<1>3. CASE Args[p] = <<>>
  BY <1>3 DEF MountsOf
<1>4. CASE bpc[p] = "wait"
  <2>1. Missing(p) = {}
    BY <1>1, <1>2, <1>4 DEF HoldInv, Held, Missing, Doomed
  <2> QED BY <2>1 DEF Missing, MountsOf
<1> QED BY <1>1, <1>2, <1>3, <1>4 DEF Guarded, Told, Doomed

LEMMA NotClaimedBefore ==
  ASSUME LossInv, NEW p \in Freezers, run[p].pc # "done"
  PROVE  ~Claims(p)
BY DEF LossInv, LossAt, Claims, ClaimsConsistency, NoVerdict

LEMMA NotClaimedAfter ==
  ASSUME LossInv', NEW p \in Freezers, run'[p].pc # "done"
  PROVE  ~Claims(p)'
BY DEF LossInv, LossAt, Claims, ClaimsConsistency, NoVerdict

(* The steps that most labels map to. *)
LEMMA LeaseStays ==
  ASSUME NEW p \in Freezers, frozen' = frozen, run'[p].shot = run[p].shot,
         Lease(p)' = Lease(p), Claims(p)' <=> Claims(p)
  PROVE  LeaseStep(p)
<1>1. Claims(p)' = Claims(p)
  BY DEF Claims
<1> QED BY <1>1 DEF LeaseStep, Backup!backup, MountsOf

LEMMA LeaseEnds ==
  ASSUME NEW p \in Freezers, frozen' = frozen, run'[p].shot = run[p].shot,
         Lease(p)' = "none", ~Claims(p), ~Claims(p)'
  PROVE  LeaseStep(p)
<1>1. CASE Lease(p) = "none"
  BY <1>1, LeaseStays
<1>2. CASE Lease(p) # "none"
  <2>1. Claims(p)' = Claims(p)
    BY DEF Claims
  <2>2. Backup(p)!GiveUp
    BY <1>2, <2>1 DEF Backup!GiveUp, MountsOf
  <2> QED BY <2>2 DEF LeaseStep, Backup!Next
<1> QED BY <1>1, <1>2

LEMMA LeaseRestarts ==
  ASSUME NEW p \in Freezers, frozen' = frozen, run'[p].shot = {},
         Lease(p)' = "none", ~Claims(p), ~Claims(p)'
  PROVE  LeaseStep(p)
<1>1. Claims(p)' = Claims(p)
  BY DEF Claims
<1>2. Backup(p)!Restart
  BY <1>1 DEF Backup!Restart, MountsOf
<1> QED BY <1>2 DEF LeaseStep, Backup!Next

LEMMA LeaseGranted ==
  ASSUME NEW p \in Freezers, frozen' = frozen, run'[p].shot = run[p].shot, run[p].shot = {},
         Lease(p) = "none", Lease(p)' \in {"none", "held", "broken"}, HeldIsFrozen(p)',
         ~Claims(p), ~Claims(p)'
  PROVE  LeaseStep(p)
<1>1. CASE Lease(p)' = "none"
  BY <1>1, LeaseStays
<1>2. CASE Lease(p)' # "none"
  <2>1. Claims(p)' = Claims(p)
    BY DEF Claims
  <2>2. Lease(p)' = "held" => MountsOf(p) \subseteq frozen
    BY DEF HeldIsFrozen, MountsOf
  <2>3. Backup(p)!Grant
    BY <1>2, <2>1, <2>2 DEF Backup!Grant, MountsOf
  <2> QED BY <2>3 DEF LeaseStep, Backup!Next
<1> QED BY <1>1, <1>2

LEMMA BeginLeases ==
  ASSUME RunTypeOK, NEW p \in Freezers, NEW via \in {"guest", "host"}, Begin(p, via),
         frozen' = frozen, job' = job, ~Claims(p)
  PROVE  LeaseStep(p)
<1>1. /\ run'[p].good = {} /\ run'[p].shot = {}
      /\ \/ run'[p].pc = IF job[p].freezeOn THEN "freeze" ELSE "decide"
         \/ run'[p].pc = "after"
  BY BeginFresh
<1>2. ~LooksGood(p)' /\ ~Claims(p)'
  BY <1>1, NothingClaimed
<1>3. Lease(p)' = "none"
  BY <1>1, <1>2 DEF Lease, InForce
<1> QED BY <1>1, <1>2, <1>3, LeaseRestarts

(* Up to the freeze there is no lease; with the freeze comes one. *)
LEMMA FreezingLeases ==
  ASSUME TypeOK, LossInv, LossInv', NEW p \in Freezers, DaemonInv(p), HeldIsFrozen(p)',
         \/ Start(p) \/ FreezeSafe(p) \/ OpenLockFile(p) \/ LockFile(p) \/ StartProc(p)
         \/ StartProcReturns(p) \/ DrainOutput(p)
  PROVE  LeaseStep(p)
<1>0. RunTypeOK /\ Typed(p)
  BY TypesHold DEF TypeOK, ProcTypeOK
<1>1. /\ run[p].pc \in Before \cup {"wait", "drain"}
      /\ UNCHANGED binVars /\ job' = job
  BY DEF Start, FreezeSafe, OpenLockFile, LockFile, StartProc, StartProcReturns, DrainOutput,
    At, Before
<1>2. frozen' = frozen /\ Lease(p) = "none" /\ ~Claims(p) /\ run[p].shot = {}
  BY <1>1, NotClaimedBefore DEF binVars, Lease, Before, DaemonInv, ResultInv
<1>3. CASE Start(p)
  <2>1. \E via \in {"guest", "host"} : Begin(p, via)
    BY <1>3 DEF Start
  <2> QED BY <1>0, <1>1, <1>2, <2>1, BeginLeases
<1>4. ASSUME run'[p].pc \in {"openlock", "lockf", "startproc", "wait", "drain", "decide"},
             run'[p].shot = run[p].shot
      PROVE  LeaseStep(p)
  <2>1. ~Claims(p)'
    BY <1>4, NotClaimedAfter
  <2>2. Lease(p)' \in {"none", "held", "broken"}
    BY <1>4 DEF Lease
  <2> QED BY <1>2, <1>4, <2>1, <2>2, LeaseGranted
<1>5. CASE FreezeSafe(p)
  <2>1. CASE \E ok \in BOOLEAN : run' = [run EXCEPT ![p].pc = "decide", ![p].ok = ok]
    <3>1. run'[p].pc = "decide" /\ run'[p].shot = run[p].shot
      BY <1>0, <2>1 DEF RunTypeOK, RunRecords
    <3> QED BY <1>4, <3>1
  <2>2. CASE \E x \in {"openlock", "startproc"} : Goto(p, x)
    BY <1>0, <1>4, <2>2, GotoKeeps DEF Keeps
  <2> QED BY <1>5, <2>1, <2>2 DEF FreezeSafe
<1>6. CASE OpenLockFile(p) \/ LockFile(p) \/ StartProc(p) \/ DrainOutput(p)
  <2>1. \E x \in {"lockf", "openlock", "startproc", "wait", "decide"} : Goto(p, x)
    BY <1>6 DEF OpenLockFile, LockFile, CountRetry, StartProc, DrainOutput
  <2> QED BY <1>0, <1>4, <2>1, GotoKeeps DEF Keeps
<1>7. CASE StartProcReturns(p)
  BY <1>4, <1>7, StartProcReturnsMoves
<1> QED BY <1>3, <1>5, <1>6, <1>7

(* Where the lease may be held, a run has not been set aside. *)
LEMMA SnappingInForce ==
  ASSUME TypeOK, NEW p \in Freezers, DaemonInv(p), run[p].pc \in {"decide", "snap"}
  PROVE  run[p].ctx = "snap"
<1>1. run[p].ctx \in {"snap", "late", "again"}
  BY TypesHold DEF Typed, RunRecords
<1> QED BY <1>1 DEF DaemonInv, ResultInv, FirstInv, Alive, Thawing

LEMMA DecideLeases ==
  ASSUME TypeOK, LossInv, LossInv', NEW p \in Freezers, DaemonInv(p), Decide(p)
  PROVE  LeaseStep(p)
<1>1. /\ run[p].pc = "decide" /\ frozen' = frozen /\ job' = job /\ Still(p)
  BY StillWhen DEF Decide, At, binVars
<1>2. /\ run'[p].shot = run[p].shot
      /\ \/ run'[p].pc = "thaw" /\ run'[p].ctx = "late" /\ run'[p].ok = FALSE
         \/ run'[p].pc = "snap" /\ Keeps(p)
         \/ run'[p].pc = "after" /\ Keeps(p) /\ run[p].ok = FALSE
  BY DecideMoves
<1>3. ~Claims(p) /\ ~Claims(p)'
  BY <1>1, <1>2, NotClaimedBefore, NotClaimedAfter
<1>4. CASE run'[p].pc = "snap" /\ Keeps(p)
  <2>1. InForce(p)' <=> InForce(p)
    BY <1>1, <1>4 DEF InForce, Keeps
  <2>2. Lease(p)' = Lease(p)
    BY <1>1, <1>4, <2>1 DEF Lease, Still
  <2> QED BY <1>1, <1>2, <1>3, <2>2, LeaseStays
<1>5. CASE run'[p].pc = "thaw" /\ run'[p].ctx = "late"
  <2>1. Lease(p)' = "none"
    BY <1>5 DEF Lease, InForce
  <2> QED BY <1>1, <1>2, <1>3, <2>1, LeaseEnds
<1>6. CASE run'[p].pc = "after" /\ Keeps(p) /\ run[p].ok = FALSE
  <2>1. Lease(p)' = "none"
    BY <1>3, <1>6 DEF Lease, LooksGood, Keeps
  <2> QED BY <1>1, <1>2, <1>3, <2>1, LeaseEnds
<1> QED BY <1>2, <1>4, <1>5, <1>6

LEMMA SnapDiskLeases ==
  ASSUME TypeOK, LossInv, LossInv', NEW p \in Freezers, DaemonInv(p), SnapDisk(p)
  PROVE  LeaseStep(p)
<1>1. /\ run[p].pc = "snap" /\ frozen' = frozen /\ job' = job /\ Still(p)
  BY StillWhen DEF SnapDisk, At, binVars
<1>2. /\ run'[p].pc = run[p].pc /\ run'[p].ctx = run[p].ctx /\ run'[p].ok = run[p].ok
      /\ \E d \in Disks \ run[p].shot : run'[p].shot = run[p].shot \cup {d}
  BY SnapDiskMoves
<1>3. ~Claims(p) /\ ~Claims(p)'
  BY <1>1, <1>2, NotClaimedBefore, NotClaimedAfter
<1>4. InForce(p)' <=> InForce(p)
  BY <1>1, <1>2 DEF InForce
<1>5. Lease(p)' = Lease(p) /\ Lease(p) \in {"none", "held", "broken"}
  BY <1>1, <1>2, <1>4 DEF Lease, Still
<1>6. Claims(p)' = Claims(p)
  BY <1>3 DEF Claims
<1>7. Backup(p)!Capture
  BY <1>1, <1>2, <1>3, <1>5, <1>6 DEF Backup!Capture, MountsOf
<1> QED BY <1>7 DEF LeaseStep, Backup!Next

LEMMA SnapshotsDoneLeases ==
  ASSUME TypeOK, LossInv, LossInv', NEW p \in Freezers, DaemonInv(p), SnapshotsDone(p)
  PROVE  LeaseStep(p)
<1>1. /\ run[p].pc = "snap" /\ frozen' = frozen /\ job' = job /\ Still(p)
  BY StillWhen DEF SnapshotsDone, At, binVars
<1>2. /\ run'[p].shot = run[p].shot /\ run'[p].ok = run[p].ok /\ run'[p].ctx = "snap"
      /\ run'[p].pc = IF job[p].freezeOn THEN "thaw" ELSE "after"
  BY SnapshotsDoneMoves
<1>3. ~Claims(p) /\ ~Claims(p)'
  BY <1>1, <1>2, NotClaimedBefore, NotClaimedAfter
<1>4. InForce(p)' <=> InForce(p)
  BY <1>1, <1>2, SnappingInForce DEF InForce
<1>5. Lease(p)' = Lease(p)
  BY <1>1, <1>2, <1>3, <1>4 DEF Lease, InForce, Still, LooksGood
<1> QED BY <1>1, <1>2, <1>3, <1>5, LeaseStays

LEMMA RaisesLeases ==
  ASSUME TypeOK, LossInv, LossInv', NEW p \in Freezers, DaemonInv(p),
         SnapshotRaises(p) \/ ParallelRaises(p)
  PROVE  LeaseStep(p)
<1>1. /\ run[p].pc = "snap" /\ frozen' = frozen /\ job' = job /\ Still(p)
  BY StillWhen DEF SnapshotRaises, ParallelRaises, At, binVars
<1>2. /\ run'[p].shot = run[p].shot
      /\ \/ run'[p].pc = "snap" /\ Keeps(p)
         \/ run'[p].pc = "after" /\ (run'[p].good = {} \/ job[p].nullBlob)
  BY RaisesMoves
<1>3. ~Claims(p) /\ ~Claims(p)'
  BY <1>1, <1>2, NotClaimedBefore, NotClaimedAfter
<1>4. CASE run'[p].pc = "snap" /\ Keeps(p)
  <2>1. InForce(p)' <=> InForce(p)
    BY <1>1, <1>4 DEF InForce, Keeps
  <2>2. Lease(p)' = Lease(p)
    BY <1>1, <1>4, <2>1 DEF Lease, Still
  <2> QED BY <1>1, <1>2, <1>3, <2>2, LeaseStays
<1>5. CASE run'[p].pc = "after" /\ (run'[p].good = {} \/ job[p].nullBlob)
  <2>1. Lease(p)' = "none"
    BY <1>1, <1>3, <1>5 DEF Lease, LooksGood
  <2> QED BY <1>1, <1>2, <1>3, <2>1, LeaseEnds
<1> QED BY <1>2, <1>4, <1>5

(* A lease is returned in good order only when the binary is gone and has  *)
(* not failed, and then all the disks have been captured.                  *)
LEMMA ThawReturnsLeases ==
  ASSUME TypeOK, LossInv, LossInv', NEW p \in Freezers, DaemonInv(p), frozen' = frozen,
         job' = job, run[p].pc \in {"thaw", "thawwait", "thawdrain"},
         NEW err, NEW nosleep, ThawReturns(p, err, nosleep), InForce(p) => err \/ ~Doomed(p)
  PROVE  LeaseStep(p)
<1>1. /\ run'[p].ok = run[p].ok /\ run'[p].ctx = run[p].ctx /\ run'[p].shot = run[p].shot
      /\ run'[p].pc = "unlock" /\ run'[p].thawErr = err
  BY ThawReturnsMoves DEF TypeOK, ProcTypeOK
<1>2. ~Claims(p) /\ ~Claims(p)'
  BY <1>1, NotClaimedBefore, NotClaimedAfter
<1>3. InForce(p)' <=> InForce(p)
  BY <1>1 DEF InForce
<1>4. CASE ~InForce(p) \/ err
  <2>1. Lease(p)' = "none"
    BY <1>1, <1>3, <1>4 DEF Lease
  <2> QED BY <1>1, <1>2, <2>1, LeaseEnds
<1>5. CASE InForce(p) /\ ~err
  <2>1. Lease(p)' = "returned" /\ Lease(p) \in {"held", "returning"}
    BY <1>1, <1>3, <1>5 DEF Lease
  <2>2. run[p].shot = Disks
    BY <1>5 DEF DaemonInv, ResultInv, InForce, Thawing
  <2>3. Claims(p)' = Claims(p)
    BY <1>2 DEF Claims
  <2>4. Backup(p)!Returned
    BY <1>1, <1>2, <2>1, <2>2, <2>3 DEF Backup!Returned, MountsOf
  <2> QED BY <2>4 DEF LeaseStep, Backup!Next
<1> QED BY <1>4, <1>5

(* The signal to thaw begins the return of a lease that holds. *)
LEMMA ThawSafeLeases ==
  ASSUME TypeOK, LossInv, LossInv', NEW p \in Freezers, DaemonInv(p), ThawSafe(p)
  PROVE  LeaseStep(p)
<1>0. RunTypeOK /\ Typed(p)
  BY TypesHold DEF TypeOK, ProcTypeOK
<1>1. /\ run[p].pc = "thaw" /\ frozen' = frozen /\ job' = job
  BY DEF ThawSafe, At, ThawSignal, binVars
<1>2. CASE fz[p].skip /\ ThawReturns(p, FALSE, FALSE)
  <2>1. ASSUME InForce(p)
        PROVE  ~Doomed(p)
    <3>1. Args[p] = <<>> /\ bpc[p] = "idle"
      BY <1>1, <1>2, <2>1 DEF DaemonInv, FreezeInv, Guarded, InForce
    <3> QED BY <3>1 DEF Doomed, GaveUp
  <2>2. run[p].pc \in {"thaw", "thawwait", "thawdrain"}
    BY <1>1
  <2> QED BY <1>1, <1>2, <2>1, <2>2, ThawReturnsLeases
<1>3. CASE \E nosleep : ThawReturns(p, TRUE, nosleep)
  <2>1. run[p].pc \in {"thaw", "thawwait", "thawdrain"}
    BY <1>1
  <2> QED BY <1>1, <1>3, <2>1, ThawReturnsLeases
<1>4. CASE ThawSignal(p) /\ Goto(p, "thawwait")
  <2>1. run'[p].pc = "thawwait" /\ Keeps(p)
    BY <1>0, <1>4, GotoKeeps
  <2>2. ~Claims(p) /\ ~Claims(p)' /\ run'[p].shot = run[p].shot
    BY <1>1, <2>1, NotClaimedBefore, NotClaimedAfter DEF Keeps
  <2>3. InForce(p)' <=> InForce(p)
    BY <1>1, <2>1 DEF InForce, Keeps
  <2>4. Claims(p)' = Claims(p)
    BY <2>2 DEF Claims
  <2>5. Doomed(p) => Doomed(p)'
    BY <1>0, <1>4, SignalDoesNotMend
  <2>6. CASE ~InForce(p) \/ Doomed(p)
    <3>1. Lease(p)' = Lease(p)
      BY <1>1, <2>1, <2>3, <2>5, <2>6 DEF Lease
    <3> QED BY <1>1, <2>2, <3>1, LeaseStays
  <2>7. CASE InForce(p) /\ ~Doomed(p) /\ Doomed(p)'
    <3>1. Lease(p) = "held" /\ Lease(p)' = "broken"
      BY <1>1, <2>1, <2>3, <2>7 DEF Lease
    <3>2. Backup(p)!Move
      BY <2>2, <2>4, <3>1 DEF Backup!Move
    <3> QED BY <3>2 DEF LeaseStep, Backup!Next
  <2>8. CASE InForce(p) /\ ~Doomed(p) /\ ~Doomed(p)'
    <3>1. Lease(p) = "held" /\ Lease(p)' = "returning"
      BY <1>1, <2>1, <2>3, <2>8 DEF Lease
    <3>2. run[p].shot = Disks
      BY <1>1, <2>8 DEF DaemonInv, ResultInv, InForce, Thawing
    <3>3. Backup(p)!Return
      BY <1>1, <2>2, <2>4, <3>1, <3>2 DEF Backup!Return, MountsOf
    <3> QED BY <3>3 DEF LeaseStep, Backup!Next
  <2> QED BY <2>6, <2>7, <2>8
<1> QED BY <1>2, <1>3, <1>4 DEF ThawSafe

LEMMA ThawWaitLeases ==
  ASSUME TypeOK, LossInv, LossInv', NEW p \in Freezers, DaemonInv(p),
         ThawWait(p) \/ ThawDrain(p)
  PROVE  LeaseStep(p)
<1>0. RunTypeOK /\ Typed(p)
  BY TypesHold DEF TypeOK, ProcTypeOK
<1>1. /\ run[p].pc \in {"thawwait", "thawdrain"} /\ frozen' = frozen /\ job' = job /\ Still(p)
  BY StillWhen DEF ThawWait, ThawDrain, At, binVars
<1>2. CASE ~Running(p)
  <2>1. PICK polled \in BOOLEAN, nosleep \in BOOLEAN :
          ThawReturns(p, ~polled \/ status[p] # EXIT_SUCCESS, nosleep)
    BY <1>2, ThawWaitReturns
  <2> DEFINE err == ~polled \/ status[p] # EXIT_SUCCESS
  <2>2. err \/ ~Doomed(p)
    BY <1>2 DEF Doomed, GaveUp, Running
  <2>3. ThawReturns(p, err, nosleep)
    BY <2>1
  <2>4. run[p].pc \in {"thaw", "thawwait", "thawdrain"}
    BY <1>1
  <2> HIDE DEF err
  <2> QED BY <1>1, <2>2, <2>3, <2>4, ThawReturnsLeases
<1>3. CASE Running(p)
  <2>1. run'[p].pc = "thawdrain" /\ Keeps(p)
    BY <1>0, <1>3, GotoKeeps DEF ThawWait, ThawDrain
  <2>2. ~Claims(p) /\ ~Claims(p)' /\ run'[p].shot = run[p].shot
    BY <1>1, <2>1, NotClaimedBefore, NotClaimedAfter DEF Keeps
  <2>3. InForce(p)' <=> InForce(p)
    BY <1>1, <2>1 DEF InForce, Keeps
  <2>4. Lease(p)' = Lease(p)
    BY <1>1, <2>1, <2>3 DEF Lease, Still
  <2> QED BY <1>1, <2>2, <2>4, LeaseStays
<1> QED BY <1>2, <1>3

LEMMA UnlockLeases ==
  ASSUME TypeOK, LossInv, LossInv', NEW p \in Freezers, DaemonInv(p), Unlock(p)
  PROVE  LeaseStep(p)
<1>0. RunTypeOK
  BY DEF TypeOK, ProcTypeOK
<1>1. run[p].pc = "unlock" /\ frozen' = frozen /\ job' = job
  BY DEF Unlock, At, binVars
<1>2. run'[p].pc = "remove" /\ Keeps(p)
  BY <1>0, GotoKeeps DEF Unlock
<1>3. ~Claims(p) /\ ~Claims(p)' /\ run'[p].shot = run[p].shot
  BY <1>1, <1>2, NotClaimedBefore, NotClaimedAfter DEF Keeps
<1>4. InForce(p)' <=> InForce(p)
  BY <1>1, <1>2 DEF InForce, Keeps
<1>5. Lease(p)' = Lease(p)
  BY <1>1, <1>2, <1>4 DEF Lease, Keeps
<1> QED BY <1>1, <1>3, <1>5, LeaseStays

LEMMA RemoveLeases ==
  ASSUME TypeOK, LossInv, LossInv', NEW p \in Freezers, DaemonInv(p), RemoveLockFile(p)
  PROVE  LeaseStep(p)
<1>0. RunTypeOK /\ Typed(p)
  BY TypesHold DEF TypeOK, ProcTypeOK
<1>1. /\ run[p].pc = "remove" /\ frozen' = frozen /\ job' = job /\ Thawed(p)
  BY DEF RemoveLockFile, At, binVars
<1>2. ~Claims(p)
  BY <1>1, NotClaimedBefore
<1>3. CASE run[p].ctx = "again" /\ Begin(p, "host")
  BY <1>0, <1>1, <1>2, <1>3, BeginLeases
<1>4. CASE ~(run[p].ctx = "again" /\ Begin(p, "host"))
  <2>1. run'[p].pc = "after" /\ run'[p].shot = run[p].shot
    BY <1>0, <1>1, <1>4, ThawedMoves
  <2>2. ~Claims(p)'
    BY <2>1, NotClaimedAfter
  <2>3. CASE LooksGood(p)'
    <3>1. run[p].ok /\ job[p].freezeOn /\ run[p].ctx = "snap" /\ ~run[p].thawErr
      BY <1>1, <1>4, <2>3, GoodAfterThaw
    <3>2. Lease(p) = "returned" /\ Lease(p)' = "returned"
      BY <1>1, <2>1, <2>3, <3>1 DEF Lease, InForce
    <3> QED BY <1>1, <1>2, <2>1, <2>2, <3>2, LeaseStays
  <2>4. CASE ~LooksGood(p)'
    <3>1. Lease(p)' = "none"
      BY <2>1, <2>2, <2>4 DEF Lease
    <3> QED BY <1>1, <1>2, <2>1, <2>2, <3>1, LeaseEnds
  <2> QED BY <2>3, <2>4
<1> QED BY <1>3, <1>4

LEMMA ThawAgainLeases ==
  ASSUME TypeOK, LossInv, LossInv', NEW p \in Freezers, ThawAgain(p)
  PROVE  LeaseStep(p)
<1>1. run[p].pc = "after" /\ frozen' = frozen
  BY DEF ThawAgain, At, binVars
<1>2. run'[p].pc = "thaw" /\ run'[p].ctx = "again" /\ run'[p].shot = run[p].shot
  BY TypesHold DEF ThawAgain, TypeOK, ProcTypeOK, RunTypeOK, RunRecords
<1>3. ~Claims(p) /\ ~Claims(p)'
  BY <1>1, <1>2, NotClaimedBefore, NotClaimedAfter
<1>4. Lease(p)' = "none"
  BY <1>2 DEF Lease, InForce
<1> QED BY <1>1, <1>2, <1>3, <1>4, LeaseEnds

(* Only a lease that was returned in good order is behind a claim. *)
LEMMA ReportLeases ==
  ASSUME TypeOK, LossInv, NEW p \in Freezers, DaemonInv(p), Report(p)
  PROVE  LeaseStep(p)
<1>1. run[p].pc = "after" /\ frozen' = frozen
  BY DEF Report, At, binVars
<1>2. run'[p].pc = "done" /\ run'[p].shot = run[p].shot /\ (Claims(p)' => LooksGood(p))
  BY ReportMoves
<1>3. ~Claims(p)
  BY <1>1, NotClaimedBefore
<1>4. CASE Claims(p)'
  <2>1. Lease(p) = "returned" /\ Lease(p)' = "returned"
    BY <1>1, <1>2, <1>4 DEF Lease
  <2>2. Claims(p)' = TRUE
    BY <1>4 DEF Claims
  <2>3. Backup(p)!Claim
    BY <1>1, <1>2, <1>3, <2>1, <2>2 DEF Backup!Claim, MountsOf
  <2> QED BY <2>3 DEF LeaseStep, Backup!Next
<1>5. CASE ~Claims(p)'
  <2>1. Lease(p)' = "none"
    BY <1>2, <1>5 DEF Lease, LooksGood
  <2> QED BY <1>1, <1>2, <1>3, <1>5, <2>1, LeaseEnds
<1> QED BY <1>4, <1>5

LEMMA CrashLeases ==
  ASSUME TypeOK, LossInv, LossInv', NEW p \in Freezers, Crash(p)
  PROVE  LeaseStep(p)
<1>1. run[p].pc # "done" /\ frozen' = frozen
  BY DEF Crash, Alive, binVars
<1>2. run'[p].pc = "dead" /\ run'[p].shot = {}
  BY DEF Crash, NewRun, TypeOK, ProcTypeOK, RunTypeOK
<1>3. ~Claims(p) /\ ~Claims(p)'
  BY <1>1, <1>2, NotClaimedBefore, NotClaimedAfter
<1>4. Lease(p)' = "none"
  BY <1>2 DEF Lease
<1> QED BY <1>1, <1>2, <1>3, <1>4, LeaseRestarts

LEMMA MainLeases ==
  ASSUME TypeOK, LossInv, LossInv', NEW p \in Freezers, DaemonInv(p), HeldIsFrozen(p)',
         MainThread(p) \/ Crash(p)
  PROVE  LeaseStep(p)
BY FreezingLeases, DecideLeases, SnapDiskLeases, SnapshotsDoneLeases, RaisesLeases,
  ThawSafeLeases, ThawWaitLeases, UnlockLeases, RemoveLeases, ThawAgainLeases, ReportLeases,
  CrashLeases
DEF MainThread

(* A step that is not one of p's main thread moves at most the freeze: a   *)
(* lease that is broken stays so, and one that is held is still a freeze.  *)
LEMMA MoveLeases ==
  ASSUME NEW p \in Freezers, run'[p] = run[p], job' = job, HeldIsFrozen(p)',
         /\ run[p].pc \in {"decide", "snap", "thaw", "thawwait", "thawdrain"}
         /\ InForce(p) /\ Doomed(p)
         => Doomed(p)'
  PROVE  LeaseStep(p)
<1>1. /\ LooksGood(p)' <=> LooksGood(p)
      /\ Claims(p)' <=> Claims(p)
      /\ InForce(p)' <=> InForce(p)
  BY ClaimsStay DEF InForce
<1>2. Claims(p)' = Claims(p)
  BY <1>1 DEF Claims
<1>3. \/ Lease(p)' = Lease(p)
      \/ Lease(p) \in {"held", "returning"} /\ Lease(p)' = "broken"
  BY <1>1 DEF Lease
<1>4. Backup(p)!Move
  BY <1>2, <1>3 DEF Backup!Move, HeldIsFrozen
<1> QED BY <1>4 DEF LeaseStep, Backup!Next

LEMMA DoomedStays ==
  ASSUME TypeOK, NEW p \in Freezers, DaemonInv(p), Doomed(p), InForce(p),
         run[p].pc \in {"decide", "snap", "thaw", "thawwait", "thawdrain"},
         Handlers(p) \/ Launcher(p) \/ Binary(p)
  PROVE  Doomed(p)'
<1>0. BinTypeOK
  BY DEF TypeOK
<1>1. CASE Handlers(p) \/ ThreadAssigns(p) \/ (ThreadLaunches(p) /\ UNCHANGED binVars)
  <2>1. UNCHANGED <<frozen, bpc, cur, status>>
    BY <1>1 DEF Handlers, sigusr1_handler, sigchld_handler, ThreadAssigns, binVars
  <2> QED BY <2>1, DoomedSame
<1>2. CASE ThreadLaunches(p) /\ Launch(p)
  <2>1. Args[p] # <<>> /\ fz[p].thread = "sleeping"
    BY <1>2 DEF ThreadLaunches, Launch
  <2> QED BY <2>1 DEF DaemonInv, FreezeInv, InForce, Guarded, Told
<1>3. CASE BinaryWorks(p)
  BY <1>0, <1>3, DoomedWorks DEF BinaryWorks
<1>4. CASE BinaryExits(p)
  BY <1>0, <1>4, ExitDoesNotMend DEF BinaryExits
<1> QED BY <1>1, <1>2, <1>3, <1>4 DEF Launcher, ThreadLaunches, Binary

LEMMA LeaseNext ==
  ASSUME TypeOK, LossInv, LossInv', GuardInv, [Next]_vars, NEW p \in Freezers, OneRival(p),
         HeldIsFrozen(p)'
  PROVE  LeaseStep(p)
<1>0. DaemonInv(p) /\ BinTypeOK
  BY DEF GuardInv, TypeOK
<1>1. CASE UNCHANGED vars
  <2>1. run'[p] = run[p] /\ job' = job /\ UNCHANGED <<frozen, bpc, cur, status>>
    BY <1>1 DEF vars, procVars, binVars
  <2> QED BY <2>1, DoomedSame, MoveLeases
<1>2. ASSUME NEW q \in Freezers,
             MainThread(q) \/ Handlers(q) \/ Launcher(q) \/ Binary(q) \/ Crash(q)
      PROVE  LeaseStep(p)
  <2>1. CASE q # p
    <3>1. run'[p] = run[p] /\ job' = job
      BY <1>2, <2>1, StepIsOwn
    <3>2. FirstInv(q)
      BY DEF GuardInv, DaemonInv
    <3>3. Doomed(p) => Doomed(p)'
      BY <1>0, <1>2, <2>1, <3>2, StepMovesBinary, DoomedKept
    <3> QED BY <3>1, <3>3, MoveLeases
  <2>2. CASE q = p /\ (MainThread(p) \/ Crash(p))
    BY <1>0, <2>2, MainLeases
  <2>3. CASE q = p /\ (Handlers(p) \/ Launcher(p) \/ Binary(p))
    <3>1. run'[p] = run[p] /\ job' = job
      BY <2>3 DEF Handlers, sigusr1_handler, sigchld_handler, Launcher, ThreadLaunches,
        ThreadAssigns, Binary, BinaryWorks, BinaryExits
    <3> QED BY <1>0, <2>3, <3>1, DoomedStays, MoveLeases
  <2> QED BY <1>2, <2>1, <2>2, <2>3
<1> QED BY <1>1, <1>2 DEF Next

LEMMA LeaseInit ==
  ASSUME Init, NEW p \in Freezers
  PROVE  Backup(p)!Init
<1>1. run[p].pc = "start" /\ run[p].shot = {} /\ run[p].good = {}
  BY DEF Init, NewRun
<1>2. ~Claims(p)
  BY <1>1 DEF Claims, ClaimsConsistency
<1>3. Lease(p) = "none"
  BY <1>1 DEF Lease
<1>4. Claims(p) = FALSE
  BY <1>2 DEF Claims
<1> QED BY <1>1, <1>3, <1>4 DEF Backup!Init

(* What the refinement rests on. *)
LeaseInv ==
  TypeOK /\ LossInv /\ GuardInv /\ \A p \in Freezers : OneRival(p) /\ HeldIsFrozen(p)

LEMMA LeaseInvHolds ==
  ASSUME \A p \in Freezers : \A q, r \in Rivals(p) : q = r,
         \/ \A p \in Freezers : Alone(p)
         \/ \A i \in Inputs : i.mode # "firstGuestThenHost"
  PROVE  Spec => []LeaseInv
<1>1. TypeOK /\ LossInv /\ GuardInv => LeaseInv
  BY OneRivalEach, HeldFreezes DEF LeaseInv
<1> QED
  BY <1>1, GuardHolds, TypeCorrect, PTL

(* Every daemon implements the lease (FreezeLease): its freeze, as far as  *)
(* it relies on it, is a lease that breaks for good when a file system     *)
(* thaws; it is returned in good order only when it did not break, after   *)
(* the last disk; and no other lease is behind a consistent success.       *)
THEOREM DaemonsKeepLeases ==
  ASSUME \A p \in Freezers : \A q, r \in Rivals(p) : q = r,
         \/ \A p \in Freezers : Alone(p)
         \/ \A i \in Inputs : i.mode # "firstGuestThenHost"
  PROVE  Spec => BackupSpec
<1>1. Init => \A p \in Freezers : Backup(p)!Init
  BY LeaseInit
<1>2. LeaseInv /\ LeaseInv' /\ [Next]_vars
        => [\A p \in Freezers : [Backup(p)!Next]_(Backup(p)!backup)]_vars
  BY LeaseNext DEF LeaseInv, LeaseStep
<1> QED
  BY <1>1, <1>2, LeaseInvHolds, PTL DEF Spec, BackupSpec

(* In the terms of one daemon: its backup behaves as the lease. *)
COROLLARY DaemonKeepsLease ==
  ASSUME \A p \in Freezers : \A q, r \in Rivals(p) : q = r,
         \/ \A p \in Freezers : Alone(p)
         \/ \A i \in Inputs : i.mode # "firstGuestThenHost",
         NEW p \in Freezers
  PROVE  Spec => Backup(p)!Spec
<1>1. Init => Backup(p)!Init
  BY LeaseInit
<1>2. LeaseInv /\ LeaseInv' /\ [Next]_vars => [Backup(p)!Next]_(Backup(p)!backup)
  BY LeaseNext DEF LeaseInv, LeaseStep
<1> QED
  BY <1>1, <1>2, LeaseInvHolds, PTL DEF Spec, Backup!Spec
=============================================================================
