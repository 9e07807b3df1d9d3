-------------------------- MODULE MCFreezeSnapshot --------------------------
(* Values of Args for TLC: one daemon, or two daemons that freeze the same *)
(* file system; inputs; and bounds on the runs with two daemons.           *)
EXTENDS FreezeSnapshot, TLC

CONSTANTS p1, p2, m1, m2

OneDaemon == p1 :> <<m1, m2>>

SameMount == (p1 :> <<m1>>) @@ (p2 :> <<m1>>)

(* Every input the number of disks allows. *)
AllInputs == {i \in InputRecords : CrashNeedsOneDisk(i)}

(* Two daemons multiply: freeze on, no workload, no null blob. *)
PlainInputs == {i \in AllInputs : i.freezeOn /\ ~i.workload /\ ~i.nullBlob}

(* One snapshot method; two methods. *)
GuestOnly == {i \in PlainInputs : i.mode = "onlyGuest" /\ ~i.crashOK}

GuestAndHost == {i \in PlainInputs :
                   i.mode \in {"onlyGuest", "firstGuestThenHost"} /\ ~i.crashOK}

(* A bound on the failures: at most one of the daemons is killed, and what *)
(* the disks' snapshots return is left to the runs with one daemon.        *)
FewFailures ==
  /\ Cardinality({p \in Freezers : run[p].pc = "dead"}) <= 1
  /\ \A p \in Freezers : run[p].good = run[p].shot

(* With SameMount the daemons are interchangeable (safety only). *)
DaemonSymmetry == Permutations(Freezers)

(* A directed search: p1 backs up once and captures its disk; p2 comes too *)
(* late, makes a second attempt and captures nothing; nobody dies and no   *)
(* sleep is cut short.                                                     *)
SecondAttempt ==
  /\ \A p \in Freezers : run[p].pc # "dead" /\ ~cut[p] /\ job[p].freezeOn
  /\ job[p1].mode = "onlyGuest" /\ job[p2].mode = "firstGuestThenHost"
  /\ run[p1].ctx # "late" /\ run[p1].good = run[p1].shot
  /\ run[p2].shot = {} /\ run[p2].pc # "done"
=============================================================================
