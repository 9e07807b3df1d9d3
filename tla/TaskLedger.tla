----------------------------- MODULE TaskLedger -----------------------------
(***************************************************************************)
(* What VMBackup owes the service that orders backups, without its files,  *)
(* sequence numbers, reports and repeated commands: the tasks come one     *)
(* after the other; each has one worker, which begins while its task is    *)
(* the last one and takes the task's snapshots once, unless the task is    *)
(* ordered again; an order is dropped only if its task has its worker, or  *)
(* something of it broke off; and a worker that is through does no more.   *)
(* BackupEnable implements it.                                             *)
(***************************************************************************)
CONSTANTS Tasks, Nothing, Workers

VARIABLES
  task,     \* the last task ordered, Nothing before the first one
  past,     \* it and those before it
  work,     \* the task of each worker, Nothing before it begins
  state,    \* each worker: "none", "working" or "over"
  taken,    \* tasks whose snapshots have been taken
  skipped,  \* tasks of which an order was dropped
  broken,   \* tasks of which something broke off
  again     \* tasks ordered again with all that their snapshots need

ledger == <<task, past, work, state, taken, skipped, broken, again>>

Init ==
  /\ task = Nothing /\ past = {}
  /\ work = [w \in Workers |-> Nothing] /\ state = [w \in Workers |-> "none"]
  /\ taken = {} /\ skipped = {} /\ broken = {} /\ again = {}

Order(t) ==
  /\ t = task \/ t \notin past
  /\ task' = t /\ past' = past \cup {t}
  /\ UNCHANGED <<work, state, taken, skipped, broken, again>>

OrderAgain ==
  /\ task \in Tasks
  /\ again' = again \cup {task}
  /\ UNCHANGED <<task, past, work, state, taken, skipped, broken>>

Drop ==
  /\ task \in Tasks
  /\ task \in broken \/ \E w \in Workers : work[w] = task
  /\ skipped' = skipped \cup {task}
  /\ UNCHANGED <<task, past, work, state, taken, broken, again>>

Begin(w) ==
  /\ task \in Tasks /\ state[w] = "none"
  /\ \A v \in Workers : work[v] # task
  /\ work' = [work EXCEPT ![w] = task]
  /\ state' = [state EXCEPT ![w] = "working"]
  /\ UNCHANGED <<task, past, taken, skipped, broken, again>>

Take(w) ==
  /\ state[w] = "working"
  /\ work[w] \in taken => work[w] \in again
  /\ taken' = taken \cup {work[w]}
  /\ UNCHANGED <<task, past, work, state, skipped, broken, again>>

(* Workers end, each for itself or all in a reboot; or something breaks    *)
(* off, and a worker it belongs to may go on from its beginning.           *)
End(S) ==
  /\ \A w \in S : state[w] = "working"
  /\ state' = [w \in Workers |-> IF w \in S THEN "over" ELSE state[w]]
  /\ broken \subseteq broken'
  /\ \A t \in broken' \ broken : t = task \/ \E w \in Workers : work[w] = t /\ state[w] = "working"
  /\ UNCHANGED <<task, past, work, taken, skipped, again>>

Next ==
  \/ \E t \in Tasks : Order(t)
  \/ OrderAgain \/ Drop
  \/ \E w \in Workers : Begin(w) \/ Take(w)
  \/ \E S \in SUBSET Workers : End(S)

Spec == Init /\ [][Next]_ledger
=============================================================================
