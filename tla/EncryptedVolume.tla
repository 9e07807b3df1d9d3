-------------------------- MODULE EncryptedVolume ---------------------------
(***************************************************************************)
(* What the in-place encryption of a volume promises, without its files,   *)
(* processes and phases: the slices are encrypted one after the other, and *)
(* only the slice whose turn it is ever changes.  Failures and reboots     *)
(* give credit, one for a failure and two for a reboot; a slice that is    *)
(* left behind unencrypted, or encrypted again, takes two.                 *)
(* InPlaceEncryption implements it.                                        *)
(***************************************************************************)
EXTENDS Integers

CONSTANTS
  Last,   \* the number of the last slice
  Slices  \* the slices that are not empty, among 0..Last

VARIABLES
  slice,  \* what each slice is: "plain", "encrypted", or "mixed"
  next,   \* the slice whose turn it is
  credit, \* what may still be lost
  over    \* whether the item has ended

volume == <<slice, next, credit, over>>

Init ==
  /\ slice = [k \in Slices |-> "plain"]
  /\ next = 0
  /\ credit = 0
  /\ over = FALSE

(* A slice that is encrypted is encrypted again only where it may be lost. *)
Write ==
  /\ next \in Slices
  /\ \E s \in {"mixed", "encrypted"} :
       /\ slice[next] = "encrypted" /\ s = "mixed" => credit >= 2
       /\ slice' = [slice EXCEPT ![next] = s]
  /\ UNCHANGED <<next, credit, over>>

(* The slice is encrypted, or empty ... *)
Commit ==
  /\ next <= Last
  /\ next \in Slices => slice[next] = "encrypted"
  /\ next' = next + 1
  /\ UNCHANGED <<slice, credit, over>>

(* ... or it is lost. *)
Lose ==
  /\ next \in Slices /\ slice[next] # "encrypted"
  /\ credit >= 2
  /\ credit' = credit - 2
  /\ next' = next + 1
  /\ UNCHANGED <<slice, over>>

Pay ==
  /\ credit' > credit
  /\ UNCHANGED <<slice, next, over>>

End ==
  /\ next = Last + 1
  /\ ~over /\ over' = TRUE
  /\ UNCHANGED <<slice, next, credit>>

Next == Write \/ Commit \/ Lose \/ Pay \/ End

Spec == Init /\ [][Next]_volume
=============================================================================
