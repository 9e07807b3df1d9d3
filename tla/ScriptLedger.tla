---------------------------- MODULE ScriptLedger -----------------------------
(***************************************************************************)
(* What CustomScript owes the customer who orders a script, without its    *)
(* files, commands, retries and temporary reports: each order is executed  *)
(* by one worker, success is reported of a script that ended well or of an *)
(* order that was withdrawn, and after the final report neither a report   *)
(* nor a script follows.  Workers that take one order for another, kills,  *)
(* withdrawals and reports that come late excuse an order from these.      *)
(* CustomScript implements it.                                             *)
(***************************************************************************)
EXTENDS Integers

CONSTANTS Orders, Workers

VARIABLES
  asked,     \* the orders 1 .. asked have been given
  order,     \* the order whose script each worker executes, 0 before it does
  script,    \* that script: "none", "running", "ok", "error" or "killed"
  verdict,   \* the last report on each order: "open", "success" or "failed"
  mixed,     \* orders that workers took for one another
  withdrawn, \* orders that were disabled
  excused    \* these, and the others that something interfered with

interference == <<mixed, withdrawn, excused>>
ledger == <<asked, order, script, verdict, interference>>

Init ==
  /\ asked = 0
  /\ order = [w \in Workers |-> 0] /\ script = [w \in Workers |-> "none"]
  /\ verdict = [n \in Orders |-> "open"]
  /\ mixed = {} /\ withdrawn = {} /\ excused = {}

Ask ==
  /\ asked + 1 \in Orders
  /\ asked' = asked + 1
  /\ UNCHANGED <<order, script, verdict, interference>>

Begin(w) ==
  /\ script[w] = "none"
  /\ \E n \in Orders :
       /\ n <= asked
       /\ n \in mixed \/ \A v \in Workers \ {w} : order[v] # n
       /\ n \in excused \/ verdict[n] = "open"
       /\ order' = [order EXCEPT ![w] = n]
  /\ script' = [script EXCEPT ![w] = "running"]
  /\ UNCHANGED <<asked, verdict, interference>>

End(w) ==
  /\ script[w] = "running"
  /\ \E end \in {"ok", "error"} : script' = [script EXCEPT ![w] = end]
  /\ UNCHANGED <<asked, order, verdict, interference>>

Tell(n) ==
  /\ n \in excused \/ verdict[n] = "open"
  /\ \E v \in {"open", "success", "failed"} :
       /\ v = "success" => \/ n \in withdrawn
                           \/ \E w \in Workers : order[w] = n /\ script[w] = "ok"
       /\ verdict' = [verdict EXCEPT ![n] = v]
  /\ UNCHANGED <<asked, order, script, interference>>

(* Newer orders overtake a worker, an order is withdrawn or reported on    *)
(* late, or something is killed.  A script that is killed goes with its    *)
(* order, unless its failure has been reported.                            *)
Disturb(S) ==
  /\ \A w \in S : /\ script[w] = "running"
                  /\ order[w] \in excused' \/ verdict[order[w]] = "failed"
  /\ script' = [w \in Workers |-> IF w \in S THEN "killed" ELSE script[w]]
  /\ mixed \subseteq mixed' /\ withdrawn \subseteq withdrawn'
  /\ excused \cup mixed' \cup withdrawn' \subseteq excused' /\ excused' \subseteq Orders
  /\ UNCHANGED <<asked, order, verdict>>

Next ==
  \/ Ask
  \/ \E w \in Workers : Begin(w) \/ End(w)
  \/ \E n \in Orders : Tell(n)
  \/ \E S \in SUBSET Workers : Disturb(S)

Spec == Init /\ [][Next]_ledger
=============================================================================
