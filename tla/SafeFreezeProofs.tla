-------------------------- MODULE SafeFreezeProofs --------------------------
(***************************************************************************)
(* What holds of the safefreeze binaries for any number of freezers, any   *)
(* mounts, any command lines and any timeout.                              *)
(***************************************************************************)
EXTENDS SafeFreeze, TLAPS

(* A mount point on the command line is a mount. *)
LEMMA ArgsAreMounts ==
  ASSUME NEW p \in Freezers
  PROVE  /\ Args[p] \in Seq(Mounts)
         /\ Len(Args[p]) \in Nat
         /\ \A i \in 1..Len(Args[p]) : Args[p][i] \in Mounts
BY ArgsAssumption

(* The type invariant is inductive: the loops of main() stay inside the    *)
(* descriptor array, whatever fails in them.                               *)
LEMMA BinTypeOKStep ==
  ASSUME BinTypeOK, [BinNext]_binVars
  PROVE  BinTypeOK'
<1>1. CASE UNCHANGED binVars
  BY <1>1 DEF BinTypeOK, binVars
<1>2. ASSUME NEW p \in Freezers, BinStep(p) \/ Exit(p) \/ Launch(p) \/ ThawSignal(p)
      PROVE  BinTypeOK'
  <2> USE TimeoutAssumption, ArgsAreMounts DEF BinTypeOK, BinPc, Cleanup,
        EXIT_SUCCESS, EXIT_FAILURE, SLEEP_FAILED, BY_SIGNAL
  <2>1. CASE OpenAll(p)     BY <2>1 DEF OpenAll
  <2>2. CASE OpenFails(p)   BY <2>2 DEF OpenFails
  <2>3. CASE FreezeNext(p)  BY <2>3 DEF FreezeNext
  <2>4. CASE FreezeFails(p) BY <2>4 DEF FreezeFails
  <2>5. CASE Notify(p)      BY <2>5 DEF Notify
  <2>6. CASE SleepOne(p)    BY <2>6 DEF SleepOne
  <2>7. CASE WaitOver(p)    BY <2>7 DEF WaitOver
  <2>8. CASE ThawNext(p)    BY <2>8 DEF ThawNext
  <2>9. CASE Exit(p)        BY <2>9 DEF Exit
  <2>10. CASE Launch(p)     BY <2>10 DEF Launch
  <2>11. CASE ThawSignal(p)
    <3>1. CASE bpc[p] = "open"
      <4>1. /\ bpc' = [bpc EXCEPT ![p] = "exited"]
            /\ status' = [status EXCEPT ![p] = 3]
            /\ UNCHANGED <<gThaw, frozen, cur, iter, cut>>
        BY <2>11, <3>1 DEF ThawSignal
      <4> QED BY <4>1
    <3>2. CASE bpc[p] # "open" BY <2>11, <3>2 DEF ThawSignal
    <3> QED BY <3>1, <3>2
  <2> QED
    BY <1>2, <2>1, <2>2, <2>3, <2>4, <2>5, <2>6, <2>7, <2>8, <2>9, <2>10, <2>11
    DEF BinStep
<1> QED
  BY <1>1, <1>2 DEF BinNext

LEMMA BinTypeOKInit == ASSUME BinInit PROVE BinTypeOK
BY TimeoutAssumption DEF BinInit, BinTypeOK, BinPc, EXIT_SUCCESS

THEOREM BinTypeCorrect == BinSpec => []BinTypeOK
BY BinTypeOKInit, BinTypeOKStep, PTL DEF BinSpec

-----------------------------------------------------------------------------
(* NoOrphanFreeze is inductive given the types: another binary's ToThaw is *)
(* left alone, and p's own covers whatever p has frozen.                   *)
LEMMA NoOrphanStep ==
  ASSUME BinTypeOK, NoOrphanFreeze, [BinNext]_binVars
  PROVE  NoOrphanFreeze'
<1>1. CASE UNCHANGED binVars
  BY <1>1 DEF NoOrphanFreeze, ToThaw, binVars
<1>2. ASSUME NEW p \in Freezers, BinStep(p) \/ Exit(p) \/ Launch(p) \/ ThawSignal(p)
      PROVE  NoOrphanFreeze'
  <2>0. ASSUME NEW q \in Freezers, q # p
        PROVE  ToThaw(q)' = ToThaw(q)
    BY <1>2, <2>0 DEF BinStep, ToThaw, BinTypeOK, Cleanup, OpenAll, OpenFails,
      FreezeNext, FreezeFails, Notify, SleepOne, WaitOver, ThawNext, Exit, Launch,
      ThawSignal
  <2>1. SUFFICES frozen' \ (frozen \ ToThaw(p)) \subseteq ToThaw(p)'
    BY <2>0, <2>1 DEF NoOrphanFreeze
  <2>2. frozen' \ (frozen \ ToThaw(p)) \subseteq ToThaw(p)'
    <3> USE ArgsAreMounts DEF BinTypeOK, Cleanup, ToThaw
    <3>1. CASE OpenAll(p)     BY <3>1 DEF OpenAll
    <3>2. CASE OpenFails(p)   BY <3>2 DEF OpenFails
    <3>3. CASE FreezeNext(p)  BY <3>3 DEF FreezeNext
    <3>4. CASE FreezeFails(p) BY <3>4 DEF FreezeFails
    <3>5. CASE Notify(p)      BY <3>5 DEF Notify
    <3>6. CASE SleepOne(p)    BY <3>6 DEF SleepOne
    <3>7. CASE WaitOver(p)    BY <3>7 DEF WaitOver
    <3>8. CASE ThawNext(p)    BY <3>8 DEF ThawNext
    <3>9. CASE Exit(p)        BY <3>9 DEF Exit
    <3>10. CASE Launch(p)     BY <3>10 DEF Launch, Running
    <3>11. CASE ThawSignal(p) BY <3>11 DEF ThawSignal
    <3> QED
      BY <1>2, <3>1, <3>2, <3>3, <3>4, <3>5, <3>6, <3>7, <3>8, <3>9, <3>10, <3>11
      DEF BinStep
  <2> QED BY <2>2
<1> QED
  BY <1>1, <1>2 DEF BinNext

THEOREM FreezeNeverOrphaned == BinSpec => []NoOrphanFreeze
<1>1. BinInit => NoOrphanFreeze
  BY DEF BinInit, NoOrphanFreeze
<1>2. BinTypeOK /\ NoOrphanFreeze /\ [BinNext]_binVars => NoOrphanFreeze'
  BY NoOrphanStep
<1> QED
  BY <1>1, <1>2, BinTypeCorrect, PTL DEF BinSpec

-----------------------------------------------------------------------------
(* WaitingHoldsFreeze is not inductive: the loop of FIFREEZE must already  *)
(* hold what it has frozen so far.                                         *)
HoldsSoFar ==
  \A p \in Freezers :
    Alone(p) /\ bpc[p] \in {"freeze", "notify", "wait"} => ToThaw(p) \subseteq frozen

(* A step of q thaws nothing but a file system that q named. *)
LEMMA ThawsOwnMounts ==
  ASSUME BinTypeOK, NEW q \in Freezers,
         BinStep(q) \/ Exit(q) \/ Launch(q) \/ ThawSignal(q)
  PROVE  frozen \subseteq frozen' \cup MountsOf(q)
<1>1. CASE ThawNext(q)
  BY <1>1 DEF ThawNext, MountsOf, BinTypeOK
<1> QED
  BY <1>1 DEF BinStep, OpenAll, OpenFails, FreezeNext, FreezeFails, Notify, SleepOne,
    WaitOver, Exit, Launch, ThawSignal

(* A binary's own step keeps what it holds. *)
LEMMA HoldsOwnStep ==
  ASSUME BinTypeOK, HoldsSoFar, NEW p \in Freezers, Alone(p),
         BinStep(p) \/ Exit(p) \/ Launch(p) \/ ThawSignal(p),
         bpc'[p] \in {"freeze", "notify", "wait"}
  PROVE  ToThaw(p)' \subseteq frozen'
<1> USE ArgsAreMounts DEF BinTypeOK, HoldsSoFar, ToThaw, Cleanup
<1>1. CASE OpenAll(p)     BY <1>1 DEF OpenAll
<1>2. CASE OpenFails(p)   BY <1>2 DEF OpenFails
<1>3. CASE FreezeNext(p)  BY <1>3 DEF FreezeNext
<1>4. CASE FreezeFails(p) BY <1>4 DEF FreezeFails
<1>5. CASE Notify(p)      BY <1>5 DEF Notify
<1>6. CASE SleepOne(p)    BY <1>6 DEF SleepOne
<1>7. CASE WaitOver(p)    BY <1>7 DEF WaitOver
<1>8. CASE ThawNext(p)    BY <1>8 DEF ThawNext
<1>9. CASE Exit(p)        BY <1>9 DEF Exit
<1>10. CASE Launch(p)     BY <1>10 DEF Launch
<1>11. CASE ThawSignal(p) BY <1>11 DEF ThawSignal
<1> QED
  BY <1>1, <1>2, <1>3, <1>4, <1>5, <1>6, <1>7, <1>8, <1>9, <1>10, <1>11 DEF BinStep

LEMMA HoldsStep ==
  ASSUME BinTypeOK, HoldsSoFar, [BinNext]_binVars
  PROVE  HoldsSoFar'
<1>1. CASE UNCHANGED binVars
  BY <1>1 DEF HoldsSoFar, ToThaw, binVars
<1>2. ASSUME NEW q \in Freezers, BinStep(q) \/ Exit(q) \/ Launch(q) \/ ThawSignal(q)
      PROVE  HoldsSoFar'
  <2>1. SUFFICES ASSUME NEW p \in Freezers, Alone(p),
                        bpc'[p] \in {"freeze", "notify", "wait"}
                 PROVE  ToThaw(p)' \subseteq frozen'
    BY DEF HoldsSoFar, Alone, MountsOf
  <2>2. CASE p = q
    BY <1>2, <2>1, <2>2, HoldsOwnStep
  <2>3. CASE p # q
    <3>1. bpc'[p] = bpc[p] /\ ToThaw(p)' = ToThaw(p)
      BY <1>2, <2>3 DEF BinStep, ToThaw, BinTypeOK, Cleanup, OpenAll, OpenFails,
        FreezeNext, FreezeFails, Notify, SleepOne, WaitOver, ThawNext, Exit, Launch,
        ThawSignal
    <3>2. ToThaw(p) \subseteq frozen
      BY <2>1, <3>1 DEF HoldsSoFar
    <3>3. ToThaw(p) \cap MountsOf(q) = {}
      BY <2>1, <2>3 DEF Alone, ToThaw, MountsOf
    <3> QED
      BY <1>2, <3>1, <3>2, <3>3, ThawsOwnMounts
  <2> QED
    BY <2>2, <2>3
<1> QED
  BY <1>1, <1>2 DEF BinNext

(* A binary that waits for its thaw signal holds all its file systems      *)
(* frozen unless another freezer names one of them (the wait loop of       *)
(* safefreeze.c, the time the daemon has for its snapshots).               *)
THEOREM WaitingBinaryHoldsFreeze == BinSpec => []WaitingHoldsFreeze
<1>1. BinInit => HoldsSoFar
  BY DEF BinInit, HoldsSoFar
<1>2. BinTypeOK /\ HoldsSoFar /\ [BinNext]_binVars => HoldsSoFar'
  BY HoldsStep
<1>3. HoldsSoFar => WaitingHoldsFreeze
  BY DEF HoldsSoFar, WaitingHoldsFreeze, ToThaw, MountsOf
<1> QED
  BY <1>1, <1>2, <1>3, BinTypeCorrect, PTL DEF BinSpec
=============================================================================
