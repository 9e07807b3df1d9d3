--------------------------- MODULE EventHubUploader ---------------------------
(***************************************************************************)
(* mdsd's way of an event to Azure Event Hubs: EventHubUploader with its   *)
(* memory queue and sender thread, EventPersistMgr and PersistFiles with   *)
(* the files of failed events, and EventHubPublisher.                      *)
(*                                                                         *)
(* An event is queued by AddData, taken by the sender thread and           *)
(* published.  An event that fails is written to a file of its own, backed *)
(* off and queued again, until it is too old for the memory.  A timer      *)
(* lists the files now and then and starts one asynchronous upload per     *)
(* file, which reads, publishes and removes it; it does not wait for the   *)
(* uploads of the previous round.  WaitForFinish stops the sender.         *)
(* Threads meet at the mutex of the queue and its condition variable, at   *)
(* m_stopSenderMode and in the directory.                                  *)
(***************************************************************************)
EXTENDS Naturals, Sequences, FiniteSets

CONSTANTS Events,      \* the events a client may add, each once
          Rounds,      \* rounds of the resend timer that may overlap
          MaxUploads,  \* bound: asynchronous uploads at a time
          MaxStarts,   \* bound: processes of mdsd, one after the other
          None

ASSUME NoneAssumption == None \notin Events

VARIABLES queue,   \* m_uploadQueue
          item,    \* per event: the EventEntry's fields, as far as they decide
          hand,    \* the entry the sender thread has taken, or None
          pc,      \* the sender thread
          mode,    \* m_stopSenderMode
          closer,  \* the thread in WaitForFinish
          timer,   \* m_persistResendTimer
          job,     \* per round and event: the asynchronous upload of its file
          files,   \* the persist directory
          starts,  \* processes so far
          added,   \* history: events given to AddData
          arrived, \* history: events the service has accepted, at least once
          repeated, \* history: those accepted again though no attempt had failed
          failed,  \* history: events of which an attempt was seen to fail
          dropped, \* history: events the memory gave up that were in no file
          expired  \* history: events whose file was given up

volatile == <<queue, item, hand, pc, mode, closer, timer, job>>
hub      == <<arrived, repeated, failed>>
excused  == <<dropped, expired>>
vars     == <<volatile, files, hub, starts, added, dropped, expired>>

\* EventEntry: has it been sent (m_firstSendTimet), is it older than
\* m_memoryTimeoutSeconds since then, is it in persistence?  An event that is not
\* in the memory has a new one.
Entry    == [sent : BOOLEAN, old : BOOLEAN, kept : BOOLEAN]
NewEntry == [sent |-> FALSE, old |-> FALSE, kept |-> FALSE]

Stages == {"none", "listed", "read", "remove"}
NoJobs == [r \in Rounds |-> [e \in Events |-> "none"]]

\* The uploads that have not ended.
Pending == {p \in Rounds \X Events : job[p[1]][p[2]] # "none"}

InMemory == {queue[i] : i \in 1 .. Len(queue)} \cup ({hand} \ {None})

Init == /\ queue = <<>> /\ hand = None /\ pc = "off" /\ mode = "run"
        /\ item = [e \in Events |-> NewEntry]
        /\ closer = "no" /\ timer = "off" /\ job = NoJobs
        /\ files = {} /\ starts = 1
        /\ added = {} /\ arrived = {} /\ repeated = {} /\ failed = {}
        /\ dropped = {} /\ expired = {}

\* An answer of the service: it may take an event whose answer is lost.
Attempt(e, ok) ==
    \E taken \in BOOLEAN :
        /\ ok => taken
        /\ arrived' = IF taken THEN arrived \cup {e} ELSE arrived
        /\ repeated' = IF taken /\ e \in arrived \ failed THEN repeated \cup {e} ELSE repeated
        /\ failed' = IF ok THEN failed ELSE failed \cup {e}

(***************************************************************************)
(* Clients.                                                                *)
(***************************************************************************)
\* SetSasAndStart with the first key: Init starts the sender and the timer.
\* Only then is there a publisher.
SetSasAndStart ==
    /\ pc = "off" /\ closer = "no"
    /\ pc' = "loop" /\ timer' = "armed"
    /\ UNCHANGED <<queue, item, hand, mode, closer, job, files, hub, starts, added, excused>>

\* The mutex of the queue is held by a sender that has found nothing to do and
\* is about to sleep; every other critical section is one step.
MutexFree == pc # "checked"
Notified  == IF pc = "asleep" THEN "loop" ELSE pc

AddData(e) ==
    /\ e \notin added /\ closer # "done" /\ MutexFree
    /\ queue' = Append(queue, e)
    /\ pc' = Notified
    /\ added' = added \cup {e}
    /\ UNCHANGED <<item, hand, mode, closer, timer, job, files, hub, starts, excused>>

(***************************************************************************)
(* The sender thread: Upload and ProcessData.                              *)
(***************************************************************************)
\* The head of the loop up to the pop.  With nothing to do the mutex is kept.
Take ==
    /\ pc = "loop"
    /\ \/ /\ mode # "now" /\ queue # <<>>
          /\ hand' = Head(queue) /\ queue' = Tail(queue) /\ pc' = "process"
       \/ /\ mode = "run" /\ queue = <<>>
          /\ pc' = "checked" /\ UNCHANGED <<hand, queue>>
       \/ /\ mode = "now" \/ (mode = "drain" /\ queue = <<>>)
          /\ pc' = "ended" /\ UNCHANGED <<hand, queue>>
    /\ UNCHANGED <<item, mode, closer, timer, job, files, hub, starts, added, excused>>

\* wait() puts the thread to sleep and releases the mutex in one step.
Sleep == /\ pc = "checked" /\ pc' = "asleep"
         /\ UNCHANGED <<queue, item, hand, mode, closer, timer, job,
                        files, hub, starts, added, excused>>

\* The entry is forgotten.  If it was never persisted, that is the end of it.
Forget ==
    /\ dropped' = IF item[hand].kept THEN dropped ELSE dropped \cup {hand}
    /\ UNCHANGED expired
    /\ item' = [item EXCEPT ![hand] = NewEntry] /\ hand' = None

DropOld ==
    /\ pc = "process" /\ mode # "now" /\ item[hand].old
    /\ Forget /\ pc' = "loop"
    /\ UNCHANGED <<queue, mode, closer, timer, job, files, hub, starts, added>>

(* Mutant: the entry is queued by a copy that the thread goes on to hold. *)
MutRequeueCopies ==
    /\ queue' = Append(queue, hand) /\ hand' = hand /\ pc' = "loop"

Requeue ==
    /\ queue' = Append(queue, hand) /\ hand' = None /\ pc' = "loop"

\* Only an entry that has been persisted was ever backed off.
NotYetDue ==
    /\ pc = "process" /\ mode # "now" /\ ~item[hand].old /\ item[hand].kept
    /\ Requeue
    /\ UNCHANGED <<item, mode, closer, timer, job, files, hub, starts, added, excused>>

(* Mutant: no return after a success: the entry is queued again. *)
MutPublishFallsThrough ==
    /\ pc = "process" /\ mode # "now" /\ ~item[hand].old
    /\ \/ Attempt(hand, TRUE) /\ pc' = "again"
       \/ Attempt(hand, FALSE) /\ pc' = "failed"
    /\ UNCHANGED <<queue, item, hand, mode, closer, timer, job, files, starts, added, excused>>

Publish ==
    /\ pc = "process" /\ mode # "now" /\ ~item[hand].old
    /\ \/ /\ Attempt(hand, TRUE) /\ pc' = "loop"
          /\ item' = [item EXCEPT ![hand] = NewEntry] /\ hand' = None
       \/ /\ Attempt(hand, FALSE) /\ pc' = "failed" /\ UNCHANGED <<item, hand>>
    /\ UNCHANGED <<queue, mode, closer, timer, job, files, starts, added, excused>>

(* Mutant: the entry is marked as persisted whether or not Add() succeeds. *)
MutPersistMarksAlways ==
    /\ pc = "failed" /\ mode # "now"
    /\ \E ok \in BOOLEAN :
         /\ item' = [item EXCEPT ![hand] = [sent |-> TRUE, old |-> item[hand].old,
                                            kept |-> TRUE]]
         /\ files' = IF ~item[hand].kept /\ ok THEN files \cup {hand} ELSE files
    /\ pc' = "again"
    /\ UNCHANGED <<queue, hand, mode, closer, timer, job, hub, starts, added, excused>>

\* A failure: note the time, persist the event unless it is (Add() may fail), and
\* back off if it is now.
Persist ==
    /\ pc = "failed" /\ mode # "now"
    /\ \E ok \in BOOLEAN :
         /\ item' = [item EXCEPT ![hand] = [sent |-> TRUE, old |-> item[hand].old,
                                            kept |-> item[hand].kept \/ ok]]
         /\ files' = IF ~item[hand].kept /\ ok THEN files \cup {hand} ELSE files
    /\ pc' = "again"
    /\ UNCHANGED <<queue, hand, mode, closer, timer, job, hub, starts, added, excused>>

QueueAgain ==
    /\ pc = "again" /\ mode # "now" /\ Requeue
    /\ UNCHANGED <<item, mode, closer, timer, job, files, hub, starts, added, excused>>

\* UploadInterruptionPoint throws, and the entry in hand is gone.
Interrupted ==
    /\ pc \in {"process", "failed", "again"} /\ mode = "now"
    /\ Forget /\ pc' = "ended"
    /\ UNCHANGED <<queue, mode, closer, timer, job, files, hub, starts, added>>

Sender == \/ Take \/ Sleep \/ DropOld \/ NotYetDue \/ Publish
          \/ Persist \/ QueueAgain \/ Interrupted

(***************************************************************************)
(* Time.  When a back-off is over and when a file is too old is open; that *)
(* an entry grows too old is a step, for its queue must drain.             *)
(***************************************************************************)
GrowsOld(e) ==
    /\ e \in InMemory /\ item[e].sent /\ ~item[e].old
    /\ item' = [item EXCEPT ![e].old = TRUE]
    /\ UNCHANGED <<queue, hand, pc, mode, closer, timer, job, files, hub, starts, added, excused>>

(***************************************************************************)
(* The resend timer and the asynchronous uploads of the files.             *)
(***************************************************************************)
(* Mutant: with nothing to upload the handler returns before it sets the timer. *)
MutResendReturnsEarly(r) ==
    /\ timer = "armed" /\ job[r] = NoJobs[r]
    /\ Cardinality(Pending) + Cardinality(files) <= MaxUploads
    /\ \E aged \in SUBSET files :
         /\ job' = [job EXCEPT ![r] = [e \in Events |-> IF e \in aged THEN "remove"
                                                     ELSE IF e \in files THEN "listed"
                                                     ELSE "none"]]
         /\ expired' = expired \cup aged
    /\ timer' = IF mode = "run" /\ files # {} THEN "armed" ELSE "off"
    /\ UNCHANGED <<queue, item, hand, pc, mode, closer, files, hub, starts, added, dropped>>

\* ResendPersistEvents: GetAllFiles removes the old files, every other one gets
\* an upload; then the timer is set again.  Bounds: a free round, MaxUploads.
ResendPersistEvents(r) ==
    /\ timer = "armed" /\ job[r] = NoJobs[r]
    /\ Cardinality(Pending) + Cardinality(files) <= MaxUploads
    /\ \E aged \in SUBSET files :
         /\ job' = [job EXCEPT ![r] = [e \in Events |-> IF e \in aged THEN "remove"
                                                     ELSE IF e \in files THEN "listed"
                                                     ELSE "none"]]
         /\ expired' = expired \cup aged
    /\ timer' = IF mode = "run" THEN "armed" ELSE "off"
    /\ UNCHANGED <<queue, item, hand, pc, mode, closer, files, hub, starts, added, dropped>>

Step(r, e, from, to) == job[r][e] = from /\ job' = [job EXCEPT ![r][e] = to]

(* Mutant: a file that cannot be read just now is removed, too. *)
MutReadFileRemoves(r, e) ==
    /\ e \in files
    /\ \/ Step(r, e, "listed", "read")
       \/ Step(r, e, "listed", "remove")
    /\ UNCHANGED <<queue, item, hand, pc, mode, closer, timer, files, hub, starts, added, excused>>

\* GetAsync and HandleReadTaskFailure: a file that is gone, or that cannot be
\* read just now, is left for the next round; one that will never be readable
\* is removed.
ReadFile(r, e) ==
    /\ \/ e \in files /\ Step(r, e, "listed", "read") /\ UNCHANGED expired
       \/ Step(r, e, "listed", "none") /\ UNCHANGED expired
       \/ e \in files /\ Step(r, e, "listed", "remove") /\ expired' = expired \cup {e}
    /\ UNCHANGED <<queue, item, hand, pc, mode, closer, timer, files, hub, starts, added, dropped>>

(* Mutant: the file is removed after the attempt, whatever the answer. *)
MutPublishFileRemoves(r, e) ==
    /\ Step(r, e, "read", "remove") /\ (Attempt(e, TRUE) \/ Attempt(e, FALSE))
    /\ UNCHANGED <<queue, item, hand, pc, mode, closer, timer, files, starts, added, excused>>

\* ProcessFileData and PublishAsync.
PublishFile(r, e) ==
    /\ \/ Step(r, e, "read", "remove") /\ Attempt(e, TRUE)
       \/ Step(r, e, "read", "none") /\ Attempt(e, FALSE)
    /\ UNCHANGED <<queue, item, hand, pc, mode, closer, timer, files, starts, added, excused>>

\* RemoveAsync; the removal may fail.
RemoveFile(r, e) ==
    /\ Step(r, e, "remove", "none")
    /\ files' \in {files, files \ {e}}
    /\ UNCHANGED <<queue, item, hand, pc, mode, closer, timer, hub, starts, added, excused>>

Uploads == \E r \in Rounds, e \in Events :
               ReadFile(r, e) \/ PublishFile(r, e) \/ RemoveFile(r, e)

(***************************************************************************)
(* WaitForFinish.                                                          *)
(***************************************************************************)
(* Mutant: the mode is changed and notified without the mutex. *)
MutWaitForFinishNoMutex ==
    /\ closer = "no"
    /\ \/ /\ pc = "off" /\ closer' = "joining" /\ UNCHANGED <<mode, pc>>
       \/ /\ pc # "off"
          /\ mode' = "drain" /\ pc' = Notified /\ closer' = "joining"
       \/ /\ pc # "off"
          /\ mode' = "drain" /\ closer' = "waiting" /\ UNCHANGED pc
    /\ UNCHANGED <<queue, item, hand, timer, job, files, hub, starts, added, excused>>

\* For ever, or until a time limit: there the first change of the mode is made
\* without the mutex and without a notification.
WaitForFinish ==
    /\ closer = "no"
    /\ \/ /\ pc = "off" /\ closer' = "joining" /\ UNCHANGED <<mode, pc>>
       \/ /\ pc # "off" /\ MutexFree
          /\ mode' = "drain" /\ pc' = Notified /\ closer' = "joining"
       \/ /\ pc # "off"
          /\ mode' = "drain" /\ closer' = "waiting" /\ UNCHANGED pc
    /\ UNCHANGED <<queue, item, hand, timer, job, files, hub, starts, added, excused>>

\* The time is up, or the sender has ended before.
StopNow ==
    /\ closer = "waiting" /\ MutexFree
    /\ mode' = "now" /\ pc' = Notified /\ closer' = "joining"
    /\ UNCHANGED <<queue, item, hand, timer, job, files, hub, starts, added, excused>>

\* m_senderTask.get() returns and the timer is cancelled.
Joined ==
    /\ closer = "joining" /\ pc \in {"off", "ended"}
    /\ closer' = "done" /\ timer' = "off"
    /\ UNCHANGED <<queue, item, hand, pc, mode, job, files, hub, starts, added, excused>>

\* The process exits or dies at any time, and a new one starts on the same
\* directory.  Bound: MaxStarts.
Restart ==
    /\ starts < MaxStarts
    /\ starts' = starts + 1
    /\ dropped' = dropped \cup {e \in InMemory : ~item[e].kept}
    /\ queue' = <<>> /\ hand' = None /\ pc' = "off" /\ mode' = "run"
    /\ item' = [e \in Events |-> NewEntry]
    /\ closer' = "no" /\ timer' = "off" /\ job' = NoJobs
    /\ UNCHANGED <<files, hub, added, expired>>

Client == SetSasAndStart \/ \E e \in Events : AddData(e)
Time   == \E e \in Events : GrowsOld(e)
Timer  == \E r \in Rounds : ResendPersistEvents(r)
Finish == StopNow \/ Joined

Next == Client \/ Sender \/ Time \/ Timer \/ Uploads \/ WaitForFinish \/ Finish \/ Restart

Spec == Init /\ [][Next]_vars

\* The threads run, a round's uploads end, and time passes.  Nothing is assumed
\* of the service, of the clients, or of who calls WaitForFinish.
Fairness ==
    /\ WF_vars(Sender) /\ WF_vars(Finish) /\ WF_vars(Timer)
    /\ \A r \in Rounds, e \in Events :
           WF_vars(ReadFile(r, e) \/ PublishFile(r, e) \/ RemoveFile(r, e))
    /\ \A e \in Events : WF_vars(GrowsOld(e))

LiveSpec == Spec /\ Fairness

-----------------------------------------------------------------------------
(***************************************************************************)
(* Properties.                                                             *)
(***************************************************************************)
\* Types; an event is in the memory at most once, and the sender holds one exactly
\* while it works on it (EventHubUploader).
TypeOK ==
    /\ queue \in Seq(Events)
    /\ \A i, j \in 1 .. Len(queue) : queue[i] = queue[j] => i = j
    /\ \A i \in 1 .. Len(queue) : queue[i] # hand
    /\ item \in [Events -> Entry]
    /\ hand \in Events \cup {None}
    /\ pc \in {"off", "loop", "checked", "asleep", "process", "failed", "again", "ended"}
    /\ hand # None <=> pc \in {"process", "failed", "again"}
    /\ mode \in {"run", "drain", "now"}
    /\ closer \in {"no", "waiting", "joining", "done"}
    /\ timer \in {"off", "armed"}
    /\ job \in [Rounds -> [Events -> Stages]]
    /\ files \in SUBSET Events
    /\ starts \in Nat
    /\ added \in SUBSET Events /\ arrived \in SUBSET Events
    /\ repeated \in SUBSET Events /\ failed \in SUBSET Events
    /\ dropped \in SUBSET Events /\ expired \in SUBSET Events

\* An event given to AddData has reached the service, is in the memory, is in a
\* file, or was given up for a reason the code knows: in particular a file is
\* never removed by one upload on account of another's work, and an event that
\* was persisted survives every interruption of the sender and every crash.
NothingIsLost ==
    added \subseteq arrived \cup InMemory \cup files \cup dropped \cup expired

\* What was persisted is given up only for its file's age or unreadability,
\* never because the memory's copy is dropped: the file takes over.
\* (EventHubUploader::ProcessData, UploadInterruptionPoint)
PersistedOutlivesMemory ==
    [][\A e \in Events :
          (e \in InMemory /\ item[e].kept /\ e \notin InMemory') =>
              e \in arrived' \cup files' \cup expired']_vars

\* An event reaches the service a second time only if an attempt seemed to fail:
\* neither the queue, nor two rounds of uploads over the same files, nor a
\* restart repeats one that was answered with success and never failed.
DuplicatesNeedFailure == repeated = {}

\* The uploader implements EventDelivery, by what is in its memory and in its
\* files: no interleaving of the sender, the rounds, the stop and a crash does to
\* an event what EventDelivery does not allow.
Delivery == INSTANCE EventDelivery WITH
    memory <- InMemory, kept <- {e \in InMemory : item[e].kept}, file <- files

DeliverySpec == Delivery!Spec

\* WaitForFinish returns, whatever the service answers, in both of its ways: no
\* notification is lost between the sender's check and its sleep, and the queue
\* drains because its entries grow old.
FinishReturns == (closer \in {"waiting", "joining"}) ~> (closer \in {"done", "no"})

\* While the uploader runs, a file is taken up by an upload, round after round,
\* until it is gone: no round ends without the next one being set.
\* (EventHubUploader::ResendPersistEvents, EventPersistMgr::UploadAllAsync)
FilesAreRetried ==
    \A e \in Events :
        (e \in files /\ pc # "off" /\ mode = "run") ~>
            (e \notin files \/ (\E r \in Rounds : job[r][e] # "none") \/ mode # "run"
                            \/ pc = "off")
==============================================================================
