--------------------------- MODULE EventDelivery ----------------------------
(***************************************************************************)
(* What mdsd's upload to Event Hubs promises, without its threads, queue,  *)
(* timer and rounds: an event is in the memory, in a file, or in both; it  *)
(* is sent from either, again only if an attempt seemed to fail; it leaves *)
(* the memory and its file only when it has arrived or is given up, and    *)
(* once it is in a file it is the file that must be given up.              *)
(* EventHubUploader implements it.                                         *)
(***************************************************************************)
CONSTANT Events

VARIABLES
  added,    \* events given to the uploader
  memory,   \* events in the memory
  kept,     \* those of them that the memory has put into a file
  file,     \* events in a file
  arrived,  \* events the service has taken
  failed,   \* events of which an attempt seemed to fail
  dropped,  \* events given up before they were in a file
  expired   \* events whose file was given up

delivery == <<added, memory, kept, file, arrived, failed, dropped, expired>>

Init ==
  /\ added = {} /\ memory = {} /\ kept = {} /\ file = {}
  /\ arrived = {} /\ failed = {} /\ dropped = {} /\ expired = {}

Add(e) ==
  /\ e \notin added
  /\ added' = added \cup {e}
  /\ memory' = memory \cup {e}
  /\ UNCHANGED <<kept, file, arrived, failed, dropped, expired>>

(* The service takes the event, or not, and the answer is heard, or lost.  *)
Send(e) ==
  /\ e \in memory \cup failed
  /\ \/ arrived' = arrived
     \/ arrived' = arrived \cup {e} /\ (e \in arrived => e \in failed)
  /\ UNCHANGED <<added, file, dropped, expired>>

Succeed(e) ==
  /\ Send(e) /\ e \in arrived'
  /\ UNCHANGED failed
  /\ \/ memory' = memory \ {e} /\ kept' = kept \ {e}
     \/ UNCHANGED <<memory, kept>>

Fail(e) ==
  /\ Send(e)
  /\ failed' = failed \cup {e}
  /\ UNCHANGED <<memory, kept>>

Persist(e) ==
  /\ e \in memory \cap failed
  /\ file' = file \cup {e}
  /\ kept' = kept \cup {e}
  /\ UNCHANGED <<added, memory, arrived, failed, dropped, expired>>

(* The memory gives up some events, or all at once in a crash. *)
Forget(S) ==
  /\ S \subseteq memory
  /\ memory' = memory \ S
  /\ kept' = kept \ S
  /\ dropped' = dropped \cup (S \ kept)
  /\ UNCHANGED <<added, file, arrived, failed, expired>>

(* Files that are too old, or cannot be read. *)
Expire(S) ==
  /\ S \subseteq file
  /\ expired' = expired \cup S
  /\ UNCHANGED <<added, memory, kept, file, arrived, failed, dropped>>

Remove(e) ==
  /\ e \in arrived \cup expired
  /\ file' = file \ {e}
  /\ UNCHANGED <<added, memory, kept, arrived, failed, dropped, expired>>

Next ==
  \/ \E e \in Events : Add(e) \/ Succeed(e) \/ Fail(e) \/ Persist(e) \/ Remove(e)
  \/ \E S \in SUBSET Events : Forget(S) \/ Expire(S)

Spec == Init /\ [][Next]_delivery
=============================================================================
