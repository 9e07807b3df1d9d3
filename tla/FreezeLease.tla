---------------------------- MODULE FreezeLease -----------------------------
(***************************************************************************)
(* What a consistent backup relies on, without the processes, signals and  *)
(* files behind it: a lease on the freeze of the file systems it names.    *)
(* While the lease is held they are all frozen, without a gap; it may      *)
(* break at any time, and then it can never be returned in good order.     *)
(* Only a backup that took all its disks under one lease, and returned the *)
(* lease in good order, is claimed to be consistent.                       *)
(* A daemon of FreezeSnapshot implements it.                               *)
(***************************************************************************)
CONSTANT Disks

VARIABLES
  whole,   \* whether every file system the backup names is frozen
  lease,   \* "none", "held", "returning", "returned" or "broken"
  taken,   \* the disks that have been captured since the attempt began
  claimed  \* whether the backup has been reported as consistent

backup == <<whole, lease, taken, claimed>>

Init ==
  /\ whole \in BOOLEAN
  /\ lease = "none"
  /\ taken = {}
  /\ claimed = FALSE

(* The file systems freeze and thaw; when they thaw a held lease breaks.   *)
(* It may break for other reasons, known to its holder or not.             *)
Move ==
  /\ whole' \in BOOLEAN
  /\ lease' = lease \/ (lease \in {"held", "returning"} /\ lease' = "broken")
  /\ lease' = "held" => whole'
  /\ UNCHANGED <<taken, claimed>>

(* A lease is granted before the first disk; it may be broken already. *)
Grant ==
  /\ ~claimed /\ lease = "none" /\ taken = {}
  /\ lease' = "broken" \/ (lease' = "held" /\ whole)
  /\ UNCHANGED <<whole, taken, claimed>>

Capture ==
  /\ ~claimed /\ lease \in {"none", "held", "broken"}
  /\ \E d \in Disks \ taken : taken' = taken \cup {d}
  /\ UNCHANGED <<whole, lease, claimed>>

(* From here on the freeze may end: all disks have been captured. *)
Return ==
  /\ ~claimed /\ lease = "held" /\ taken = Disks
  /\ lease' = "returning"
  /\ UNCHANGED <<whole, taken, claimed>>

Returned ==
  /\ ~claimed /\ lease \in {"held", "returning"} /\ taken = Disks
  /\ lease' = "returned"
  /\ UNCHANGED <<whole, taken, claimed>>

(* The lease, whatever became of it, counts no more. *)
GiveUp ==
  /\ ~claimed /\ lease # "none"
  /\ lease' = "none"
  /\ UNCHANGED <<whole, taken, claimed>>

(* A new attempt, or the end of the holder. *)
Restart ==
  /\ ~claimed
  /\ lease' = "none"
  /\ taken' = {}
  /\ UNCHANGED <<whole, claimed>>

Claim ==
  /\ ~claimed /\ lease = "returned"
  /\ claimed' = TRUE
  /\ UNCHANGED <<whole, lease, taken>>

Next == Move \/ Grant \/ Capture \/ Return \/ Returned \/ GiveUp \/ Restart \/ Claim

Spec == Init /\ [][Next]_backup
=============================================================================
