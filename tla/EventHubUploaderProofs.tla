----------------------- MODULE EventHubUploaderProofs -----------------------
(***************************************************************************)
(* Proofs about EventHubUploader, for any number of events, rounds of      *)
(* uploads and restarts: types, no event is lost, and none arrives twice   *)
(* unless an upload of it has failed.                                      *)
(***************************************************************************)
EXTENDS EventHubUploader, TLAPS

Elements(q) == {q[i] : i \in 1 .. Len(q)}
Distinct(q) == \A i, j \in 1 .. Len(q) : q[i] = q[j] => i = j

LEMMA AppendElements ==
    ASSUME NEW S, NEW q \in Seq(S), NEW x \in S
    PROVE  /\ Append(q, x) \in Seq(S)
           /\ Elements(Append(q, x)) = Elements(q) \cup {x}
  BY DEF Elements

LEMMA AppendDistinct ==
    ASSUME NEW S, NEW q \in Seq(S), NEW x \in S, Distinct(q), x \notin Elements(q)
    PROVE  Distinct(Append(q, x))
  BY DEF Elements, Distinct

LEMMA TailElements ==
    ASSUME NEW S, NEW q \in Seq(S), q # <<>>
    PROVE  /\ Head(q) \in S /\ Tail(q) \in Seq(S)
           /\ Elements(q) = Elements(Tail(q)) \cup {Head(q)}
           /\ Distinct(q) => Distinct(Tail(q)) /\ Head(q) \notin Elements(Tail(q))
  <1>1. /\ Head(q) \in S /\ Tail(q) \in Seq(S) /\ Len(q) \in Nat \ {0}
        /\ Head(q) = q[1] /\ Len(Tail(q)) = Len(q) - 1
        /\ \A i \in 1 .. Len(Tail(q)) : Tail(q)[i] = q[i + 1]
    OBVIOUS
  <1>2. Elements(q) = Elements(Tail(q)) \cup {Head(q)}
    <2>1. ASSUME NEW i \in 1 .. Len(q) PROVE q[i] \in Elements(Tail(q)) \cup {Head(q)}
      <3>1. CASE i = 1
        BY <1>1, <3>1
      <3>2. CASE i # 1
        <4>1. i - 1 \in 1 .. Len(Tail(q)) /\ Tail(q)[i - 1] = q[i]
          BY <1>1, <3>2
        <4> QED  BY <4>1 DEF Elements
      <3> QED  BY <3>1, <3>2
    <2>2. ASSUME NEW i \in 1 .. Len(Tail(q)) PROVE Tail(q)[i] \in Elements(q)
      BY <1>1, i + 1 \in 1 .. Len(q) DEF Elements
    <2>3. Head(q) \in Elements(q)
      BY <1>1, 1 \in 1 .. Len(q) DEF Elements
    <2> QED  BY <2>1, <2>2, <2>3 DEF Elements
  <1>3. ASSUME Distinct(q) PROVE Distinct(Tail(q)) /\ Head(q) \notin Elements(Tail(q))
    BY <1>1, <1>3 DEF Elements, Distinct
  <1> QED  BY <1>1, <1>2, <1>3

(***************************************************************************)
(* Types, with what they rest on: an event in the memory was added.        *)
(***************************************************************************)
MemoryIsAdded == InMemory \subseteq added

TInv == TypeOK /\ MemoryIsAdded

LEMMA InMemoryElements == InMemory = Elements(queue) \cup ({hand} \ {None})
  BY DEF InMemory, Elements

LEMMA InitTypes == Init => TInv
  BY DEF Init, TInv, TypeOK, MemoryIsAdded, InMemory, NewEntry, Entry, NoJobs, Stages

LEMMA StepTypes == TInv /\ [Next]_vars => TInv'
  <1> SUFFICES ASSUME TInv, [Next]_vars PROVE TInv'
    OBVIOUS
  <1> USE NoneAssumption
  <1>1. CASE SetSasAndStart
    BY <1>1 DEF SetSasAndStart, TInv, TypeOK, MemoryIsAdded, InMemory, hub, excused
  <1>2. ASSUME NEW e \in Events, AddData(e) PROVE TInv'
    <2>1. /\ queue' \in Seq(Events) /\ Elements(queue') = Elements(queue) \cup {e}
          /\ Distinct(queue')
      BY <1>2, AppendElements, AppendDistinct, InMemoryElements
         DEF AddData, TInv, TypeOK, MemoryIsAdded, Distinct, Elements, InMemory
    <2>2. MemoryIsAdded'
      BY <1>2, <2>1 DEF AddData, TInv, MemoryIsAdded, InMemory, Elements
    <2>3. \A i \in 1 .. Len(queue') : queue'[i] # hand'
      BY <1>2, <2>1 DEF AddData, TInv, TypeOK, MemoryIsAdded, InMemory, Elements
    <2>4. TypeOK'
      BY <1>2, <2>1, <2>3 DEF AddData, TInv, TypeOK, Distinct, Notified, hub, excused
    <2> QED  BY <2>2, <2>4 DEF TInv
  <1>3. CASE Take
    <2>1. CASE mode # "now" /\ queue # <<>> /\ pc' = "process"
      <3>1. /\ Head(queue) \in Events /\ Tail(queue) \in Seq(Events)
            /\ Elements(queue) = Elements(Tail(queue)) \cup {Head(queue)}
            /\ Distinct(Tail(queue)) /\ Head(queue) \notin Elements(Tail(queue))
        BY <2>1, TailElements DEF TInv, TypeOK, Distinct
      <3>2. hand' = Head(queue) /\ queue' = Tail(queue)
        BY <1>3, <2>1 DEF Take, TInv, TypeOK
      <3>3. MemoryIsAdded'
        BY <1>3, <3>1, <3>2 DEF Take, TInv, MemoryIsAdded, InMemory, Elements
      <3>4. \A i \in 1 .. Len(queue') : queue'[i] # hand'
        BY <3>1, <3>2 DEF Elements
      <3>5. TypeOK'
        BY <1>3, <2>1, <3>1, <3>2, <3>4 DEF Take, TInv, TypeOK, Distinct, hub, excused
      <3> QED  BY <3>3, <3>5 DEF TInv
    <2>2. CASE UNCHANGED <<hand, queue>> /\ pc' \in {"checked", "ended"}
      BY <1>3, <2>2 DEF Take, TInv, TypeOK, MemoryIsAdded, InMemory, hub, excused
    <2> QED  BY <1>3, <2>1, <2>2 DEF Take
  <1>4. CASE Sleep
    BY <1>4 DEF Sleep, TInv, TypeOK, MemoryIsAdded, InMemory, hub, excused
  <1>5. CASE DropOld
    BY <1>5 DEF DropOld, Forget, TInv, TypeOK, MemoryIsAdded, InMemory, NewEntry, Entry, hub
  <1>6. CASE Interrupted
    BY <1>6 DEF Interrupted, Forget, TInv, TypeOK, MemoryIsAdded, InMemory, NewEntry, Entry, hub
  <1>7. CASE NotYetDue \/ QueueAgain
    <2>1. Requeue /\ hand \in Events /\ pc \in {"process", "again"}
      BY <1>7 DEF NotYetDue, QueueAgain, TInv, TypeOK
    <2>2. hand \notin Elements(queue) /\ queue \in Seq(Events) /\ Distinct(queue)
      BY DEF TInv, TypeOK, Distinct, Elements
    <2>3. /\ queue' \in Seq(Events) /\ Elements(queue') = Elements(queue) \cup {hand}
          /\ Distinct(queue')
      BY <2>1, <2>2, AppendElements, AppendDistinct DEF Requeue
    <2>4. hand' = None /\ pc' = "loop"
      BY <2>1 DEF Requeue
    <2>5. MemoryIsAdded'
      BY <1>7, <2>1, <2>3, <2>4
         DEF NotYetDue, QueueAgain, TInv, MemoryIsAdded, InMemory, Elements
    <2>6. \A i \in 1 .. Len(queue') : queue'[i] # hand'
      BY <2>3, <2>4 DEF Elements, TInv, TypeOK
    <2>7. TypeOK'
      BY <1>7, <2>3, <2>4, <2>6 DEF NotYetDue, QueueAgain, TInv, TypeOK, Distinct, hub, excused
    <2> QED  BY <2>5, <2>7 DEF TInv
  <1>8. CASE Publish
    <2>1. hand \in Events /\ pc = "process"
      BY <1>8 DEF Publish, TInv, TypeOK
    <2>2. arrived' \in SUBSET Events /\ repeated' \in SUBSET Events /\ failed' \in SUBSET Events
      BY <1>8, <2>1 DEF Publish, Attempt, TInv, TypeOK
    <2>3. CASE hand' = None /\ pc' = "loop" /\ item' = [item EXCEPT ![hand] = NewEntry]
      <3>1. item' \in [Events -> Entry]
        BY <2>3 DEF NewEntry, Entry, TInv, TypeOK
      <3> QED
        BY <1>8, <2>2, <2>3, <3>1 DEF Publish, TInv, TypeOK, MemoryIsAdded, InMemory, excused
    <2>4. CASE UNCHANGED <<item, hand>> /\ pc' = "failed"
      BY <1>8, <2>1, <2>2, <2>4 DEF Publish, TInv, TypeOK, MemoryIsAdded, InMemory, excused
    <2> QED  BY <1>8, <2>3, <2>4 DEF Publish
  <1>9. CASE Persist
    <2>1. PICK ok \in BOOLEAN :
             /\ item' = [item EXCEPT ![hand] = [sent |-> TRUE, old |-> item[hand].old,
                                                kept |-> item[hand].kept \/ ok]]
             /\ files' = IF ~item[hand].kept /\ ok THEN files \cup {hand} ELSE files
      BY <1>9 DEF Persist
    <2>2. hand \in Events
      BY <1>9 DEF Persist, TInv, TypeOK
    <2> DEFINE k == item[hand].kept \/ ok
    <2>3. k \in BOOLEAN
      OBVIOUS
    <2>4. item' = [item EXCEPT ![hand] = [sent |-> TRUE, old |-> item[hand].old, kept |-> k]]
      BY <2>1
    <2> HIDE DEF k
    <2>5. item' \in [Events -> Entry]
      BY <2>2, <2>3, <2>4 DEF TInv, TypeOK, Entry
    <2>6. files' \in SUBSET Events
      BY <2>1, <2>2 DEF TInv, TypeOK
    <2> QED
      BY <1>9, <2>5, <2>6 DEF Persist, TInv, TypeOK, MemoryIsAdded, InMemory, hub, excused
  <1>10. ASSUME NEW e \in Events, GrowsOld(e) PROVE TInv'
    <2>1. item' \in [Events -> Entry]
      BY <1>10 DEF GrowsOld, TInv, TypeOK, Entry
    <2> QED
      BY <1>10, <2>1 DEF GrowsOld, TInv, TypeOK, MemoryIsAdded, InMemory, hub, excused
  <1>11. ASSUME NEW r \in Rounds, ResendPersistEvents(r) PROVE TInv'
    <2>1. PICK aged \in SUBSET files :
             job' = [job EXCEPT ![r] = [e \in Events |-> IF e \in aged THEN "remove"
                                                         ELSE IF e \in files THEN "listed"
                                                         ELSE "none"]]
             /\ expired' = expired \cup aged
      BY <1>11 DEF ResendPersistEvents
    <2> DEFINE started == [e \in Events |-> IF e \in aged THEN "remove"
                                           ELSE IF e \in files THEN "listed" ELSE "none"]
    <2>2. started \in [Events -> Stages]
      BY DEF Stages
    <2>3. job' \in [Rounds -> [Events -> Stages]]
      <3> HIDE DEF started
      <3>1. job' = [job EXCEPT ![r] = started]
        BY <2>1 DEF started
      <3> QED  BY <2>2, <3>1 DEF TInv, TypeOK
    <2>4. expired' \in SUBSET Events
      BY <2>1 DEF TInv, TypeOK
    <2>5. /\ timer' \in {"off", "armed"}
          /\ UNCHANGED <<queue, item, hand, pc, mode, closer, files, hub, starts, added, dropped>>
      BY <1>11 DEF ResendPersistEvents
    <2> HIDE DEF started
    <2>6. MemoryIsAdded'
      BY <2>5 DEF TInv, MemoryIsAdded, InMemory
    <2>7. TypeOK'
      BY <2>3, <2>4, <2>5 DEF TInv, TypeOK, hub
    <2> QED  BY <2>6, <2>7 DEF TInv
  <1>12. ASSUME NEW r \in Rounds, NEW e \in Events, ReadFile(r, e) PROVE TInv'
    <2>1. job' \in [Rounds -> [Events -> Stages]]
      <3>1. PICK to \in Stages : job' = [job EXCEPT ![r][e] = to]
        BY <1>12 DEF ReadFile, Step, Stages
      <3> QED  BY <3>1 DEF TInv, TypeOK
    <2>2. expired' \in SUBSET Events
      BY <1>12 DEF ReadFile, TInv, TypeOK
    <2>3. UNCHANGED <<queue, item, hand, pc, mode, closer, timer, files, hub, starts, added, dropped>>
      BY <1>12 DEF ReadFile
    <2> QED
      BY <2>1, <2>2, <2>3 DEF TInv, TypeOK, MemoryIsAdded, InMemory, hub
  <1>13. ASSUME NEW r \in Rounds, NEW e \in Events, PublishFile(r, e) PROVE TInv'
    <2>1. job' \in [Rounds -> [Events -> Stages]]
      <3>1. PICK to \in Stages : job' = [job EXCEPT ![r][e] = to]
        BY <1>13 DEF PublishFile, Step, Stages
      <3> QED  BY <3>1 DEF TInv, TypeOK
    <2>2. arrived' \in SUBSET Events /\ repeated' \in SUBSET Events /\ failed' \in SUBSET Events
      BY <1>13 DEF PublishFile, Attempt, TInv, TypeOK
    <2>3. UNCHANGED <<queue, item, hand, pc, mode, closer, timer, files, starts, added, excused>>
      BY <1>13 DEF PublishFile
    <2> QED
      BY <2>1, <2>2, <2>3 DEF TInv, TypeOK, MemoryIsAdded, InMemory, excused
  <1>14. ASSUME NEW r \in Rounds, NEW e \in Events, RemoveFile(r, e) PROVE TInv'
    <2>1. job' \in [Rounds -> [Events -> Stages]]
      <3>1. PICK to \in Stages : job' = [job EXCEPT ![r][e] = to]
        BY <1>14 DEF RemoveFile, Step, Stages
      <3> QED  BY <3>1 DEF TInv, TypeOK
    <2>2. files' \in SUBSET Events
      BY <1>14 DEF RemoveFile, TInv, TypeOK
    <2>3. UNCHANGED <<queue, item, hand, pc, mode, closer, timer, hub, starts, added, excused>>
      BY <1>14 DEF RemoveFile
    <2> QED
      BY <2>1, <2>2, <2>3 DEF TInv, TypeOK, MemoryIsAdded, InMemory, hub, excused
  <1>15. CASE WaitForFinish \/ Finish
    BY <1>15 DEF WaitForFinish, Finish, StopNow, Joined, Notified, TInv, TypeOK,
                 MemoryIsAdded, InMemory, hub, excused
  <1>16. CASE Restart
    BY <1>16 DEF Restart, TInv, TypeOK, MemoryIsAdded, InMemory, NewEntry, Entry,
                 NoJobs, Stages, hub
  <1>17. CASE UNCHANGED vars
    BY <1>17 DEF vars, volatile, hub, TInv, TypeOK, MemoryIsAdded, InMemory
  <1> QED
    BY <1>1, <1>2, <1>3, <1>4, <1>5, <1>6, <1>7, <1>8, <1>9, <1>10, <1>11, <1>12, <1>13,
       <1>14, <1>15, <1>16, <1>17 DEF Next, Client, Sender, Time, Timer, Uploads

(* The sender holds an entry exactly while it works on it, and no event is in    *)
(* the memory twice, whatever the threads of EventHubUploader interleave.        *)
THEOREM TypeCorrect == Spec => []TypeOK
  <1>1. TInv => TypeOK
    BY DEF TInv
  <1> QED  BY <1>1, InitTypes, StepTypes, PTL DEF Spec

(***************************************************************************)
(* No event is lost.  The argument: an event is safe once it has arrived,  *)
(* is in a file, or its file was given up.  A file is removed only by an   *)
(* upload whose event is excused (RemovalIsExcused), so that what is safe  *)
(* stays safe; an entry is marked as kept only if its event is safe        *)
(* (KeptIsSafe); and an entry leaves the memory only if its event arrived, *)
(* is dropped, or is kept (LeavesTheMemory).                               *)
(***************************************************************************)
SafeEvents       == files \cup arrived \cup expired
RemovalIsExcused == \A r \in Rounds, e \in Events :
                        job[r][e] = "remove" => e \in arrived \cup expired
KeptIsSafe       == \A e \in Events : item[e].kept => e \in SafeEvents

KInv == NothingIsLost /\ RemovalIsExcused /\ KeptIsSafe

LEMMA HistoryGrows ==
    [Next]_vars => /\ arrived \subseteq arrived' /\ expired \subseteq expired'
                   /\ dropped \subseteq dropped'
  BY DEF Next, vars, volatile, hub, excused, Client, SetSasAndStart, AddData, Sender, Take,
         Sleep, DropOld, Forget, NotYetDue, Publish, Attempt, Persist, QueueAgain,
         Interrupted, Time, GrowsOld, Timer, ResendPersistEvents, Uploads, ReadFile,
         PublishFile, RemoveFile, WaitForFinish, Finish, StopNow, Joined, Restart

LEMMA FilesStay ==
    [Next]_vars => \/ files \subseteq files'
                   \/ \E r \in Rounds, e \in Events : RemoveFile(r, e)
  BY DEF Next, vars, Client, SetSasAndStart, AddData, Sender, Take,
         Sleep, DropOld, NotYetDue, Publish, Persist, QueueAgain,
         Interrupted, Time, GrowsOld, Timer, ResendPersistEvents, Uploads, ReadFile,
         PublishFile, WaitForFinish, Finish, StopNow, Joined, Restart

LEMMA SafeStays == RemovalIsExcused /\ [Next]_vars => SafeEvents \subseteq SafeEvents'
  <1> SUFFICES ASSUME RemovalIsExcused, [Next]_vars PROVE SafeEvents \subseteq SafeEvents'
    OBVIOUS
  <1>1. arrived \subseteq arrived' /\ expired \subseteq expired'
    BY HistoryGrows
  <1>2. CASE files \subseteq files'
    BY <1>1, <1>2 DEF SafeEvents
  <1>3. ASSUME NEW r \in Rounds, NEW e \in Events, RemoveFile(r, e)
        PROVE  SafeEvents \subseteq SafeEvents'
    <2>1. e \in arrived \cup expired
      BY <1>3 DEF RemoveFile, Step, RemovalIsExcused
    <2>2. files \ {e} \subseteq files'
      BY <1>3 DEF RemoveFile
    <2> QED  BY <1>1, <2>1, <2>2 DEF SafeEvents
  <1> QED  BY <1>2, <1>3, FilesStay

LEMMA LeavesTheMemory ==
    ASSUME TInv, [Next]_vars, NEW e \in InMemory, e \notin InMemory'
    PROVE  e \in arrived' \cup dropped' \/ item[e].kept
  <1> USE NoneAssumption
  <1>1. CASE UNCHANGED <<queue, hand>>
    BY <1>1 DEF InMemory
  <1>2. ASSUME NEW x \in Events, AddData(x) PROVE FALSE
    <2>1. Elements(queue') = Elements(queue) \cup {x}
      BY <1>2, AppendElements DEF AddData, TInv, TypeOK
    <2> QED  BY <1>2, <2>1 DEF AddData, InMemory, Elements
  <1>3. CASE Take
    <2>1. hand = None
      BY <1>3 DEF Take, TInv, TypeOK
    <2>2. CASE queue # <<>> /\ hand' = Head(queue) /\ queue' = Tail(queue)
      <3>1. Elements(queue) = Elements(queue') \cup {hand'} /\ hand' \in Events
        BY <2>2, TailElements DEF TInv, TypeOK
      <3> QED  BY <2>1, <3>1 DEF InMemory, Elements
    <2> QED  BY <1>1, <1>3, <2>2 DEF Take
  <1>4. CASE NotYetDue \/ QueueAgain
    <2>1. Requeue /\ hand \in Events
      BY <1>4 DEF NotYetDue, QueueAgain, TInv, TypeOK
    <2>2. Elements(queue') = Elements(queue) \cup {hand}
      BY <2>1, AppendElements DEF Requeue, TInv, TypeOK
    <2> QED  BY <2>2 DEF InMemory, Elements
  <1>5. CASE DropOld \/ Interrupted
    <2>1. Forget /\ queue' = queue
      BY <1>5 DEF DropOld, Interrupted
    <2>2. e = hand
      BY <2>1 DEF InMemory, Forget
    <2> QED  BY <2>1, <2>2 DEF Forget
  <1>6. CASE Publish
    <2>1. queue' = queue /\ (Attempt(hand, TRUE) \/ UNCHANGED hand)
      BY <1>6 DEF Publish
    <2>2. e = hand /\ Attempt(hand, TRUE)
      BY <1>1, <2>1 DEF InMemory
    <2> QED  BY <2>2 DEF Attempt
  <1>7. CASE Restart
    BY <1>7 DEF Restart
  <1>8. CASE SetSasAndStart \/ Sleep \/ Persist \/ Time \/ Timer \/ Uploads \/ WaitForFinish
             \/ Finish \/ UNCHANGED vars
    BY <1>1, <1>8 DEF SetSasAndStart, Sleep, Persist, Time, GrowsOld, Timer,
       ResendPersistEvents, Uploads, ReadFile, PublishFile, RemoveFile, WaitForFinish,
       Finish, StopNow, Joined, vars, volatile
  <1> QED
    BY <1>2, <1>3, <1>4, <1>5, <1>6, <1>7, <1>8 DEF Next, Client, Sender

LEMMA InitKept == Init => KInv
  BY DEF Init, KInv, NothingIsLost, RemovalIsExcused, KeptIsSafe, NewEntry, NoJobs

LEMMA StepLost == TInv /\ KInv /\ [Next]_vars => NothingIsLost'
  <1> SUFFICES ASSUME TInv, KInv, [Next]_vars, NEW e \in added'
               PROVE  e \in arrived' \cup InMemory' \cup files' \cup dropped' \cup expired'
    BY DEF NothingIsLost
  <1>1. SafeEvents \subseteq SafeEvents' /\ arrived \subseteq arrived'
        /\ expired \subseteq expired' /\ dropped \subseteq dropped'
    BY SafeStays, HistoryGrows DEF KInv
  <1>2. CASE e \in added
    <2>1. CASE e \in InMemory
      <3>1. item[e].kept => e \in SafeEvents
        BY <1>2 DEF KInv, KeptIsSafe, TInv, TypeOK
      <3> QED  BY <1>1, <2>1, <3>1, LeavesTheMemory DEF SafeEvents
    <2>2. CASE e \in SafeEvents \cup dropped
      BY <1>1, <2>2 DEF SafeEvents
    <2> QED  BY <1>2, <2>1, <2>2 DEF KInv, NothingIsLost, SafeEvents
  <1>3. CASE e \notin added
    <2>1. PICK x \in Events : AddData(x)
      BY <1>3 DEF Next, vars, Client, SetSasAndStart, Sender, Take, Sleep, DropOld, NotYetDue,
         Publish, Persist, QueueAgain, Interrupted, Time, GrowsOld, Timer,
         ResendPersistEvents, Uploads, ReadFile, PublishFile, RemoveFile,
         WaitForFinish, Finish, StopNow, Joined, Restart
    <2>2. e = x /\ Elements(queue') = Elements(queue) \cup {x}
      BY <1>3, <2>1, AppendElements DEF AddData, TInv, TypeOK
    <2> QED  BY <2>2 DEF InMemory, Elements
  <1> QED  BY <1>2, <1>3

LEMMA StepRemoval == TInv /\ KInv /\ [Next]_vars => RemovalIsExcused'
  <1> SUFFICES ASSUME TInv, KInv, [Next]_vars PROVE RemovalIsExcused'
    OBVIOUS
  <1>1. arrived \subseteq arrived' /\ expired \subseteq expired'
    BY HistoryGrows
  <1>2. CASE UNCHANGED job
    BY <1>1, <1>2 DEF KInv, RemovalIsExcused
  <1>3. CASE Restart
    BY <1>3 DEF Restart, RemovalIsExcused, NoJobs
  <1>4. ASSUME NEW r \in Rounds, ResendPersistEvents(r) PROVE RemovalIsExcused'
    <2>1. PICK aged \in SUBSET files :
             /\ job' = [job EXCEPT ![r] = [e \in Events |-> IF e \in aged THEN "remove"
                                                         ELSE IF e \in files THEN "listed"
                                                         ELSE "none"]]
             /\ expired' = expired \cup aged
      BY <1>4 DEF ResendPersistEvents
    <2>2. ASSUME NEW s \in Rounds, NEW e \in Events, job'[s][e] = "remove", s # r
          PROVE  job[s][e] = "remove"
      BY <2>1, <2>2 DEF TInv, TypeOK
    <2>3. ASSUME NEW e \in Events, job'[r][e] = "remove" PROVE e \in aged
      BY <2>1, <2>3 DEF TInv, TypeOK
    <2> QED  BY <1>1, <2>1, <2>2, <2>3 DEF KInv, RemovalIsExcused
  <1>5. ASSUME NEW r \in Rounds, NEW e \in Events, NEW to \in Stages,
               job' = [job EXCEPT ![r][e] = to], to = "remove" => e \in arrived' \cup expired'
        PROVE  RemovalIsExcused'
    <2>1. ASSUME NEW s \in Rounds, NEW x \in Events, job'[s][x] = "remove"
          PROVE  job[s][x] = "remove" \/ (x = e /\ to = "remove")
      BY <1>5, <2>1 DEF TInv, TypeOK
    <2> QED  BY <1>1, <1>5, <2>1 DEF KInv, RemovalIsExcused
  <1>6. ASSUME NEW r \in Rounds, NEW e \in Events, ReadFile(r, e)
        PROVE  RemovalIsExcused'
    BY <1>5, <1>6 DEF ReadFile, Step, Stages
  <1>7. ASSUME NEW r \in Rounds, NEW e \in Events, PublishFile(r, e)
        PROVE  RemovalIsExcused'
    BY <1>5, <1>7 DEF PublishFile, Attempt, Step, Stages
  <1>8. ASSUME NEW r \in Rounds, NEW e \in Events, RemoveFile(r, e)
        PROVE  RemovalIsExcused'
    BY <1>5, <1>8 DEF RemoveFile, Step, Stages
  <1>9. CASE Client \/ Sender \/ Time \/ WaitForFinish \/ Finish \/ UNCHANGED vars
    BY <1>2, <1>9 DEF Client, SetSasAndStart, AddData, Sender, Take, Sleep, DropOld, NotYetDue,
       Publish, Persist, QueueAgain, Interrupted, Time, GrowsOld, WaitForFinish, Finish,
       StopNow, Joined, vars, volatile
  <1> QED
    BY <1>3, <1>4, <1>6, <1>7, <1>8, <1>9 DEF Next, Timer, Uploads

LEMMA StepKept == TInv /\ KInv /\ [Next]_vars => KeptIsSafe'
  <1> SUFFICES ASSUME TInv, KInv, [Next]_vars, NEW e \in Events, item'[e].kept
               PROVE  e \in SafeEvents'
    BY DEF KeptIsSafe
  <1>1. SafeEvents \subseteq SafeEvents'
    BY SafeStays DEF KInv
  <1>2. CASE item[e].kept
    BY <1>1, <1>2 DEF KInv, KeptIsSafe
  <1>3. CASE Persist
    <2>1. PICK ok \in BOOLEAN :
             /\ item' = [item EXCEPT ![hand] = [sent |-> TRUE, old |-> item[hand].old,
                                                kept |-> item[hand].kept \/ ok]]
             /\ files' = IF ~item[hand].kept /\ ok THEN files \cup {hand} ELSE files
      BY <1>3 DEF Persist
    <2>2. CASE e # hand
      BY <1>2, <2>1, <2>2 DEF TInv, TypeOK
    <2>3. CASE e = hand /\ ~item[hand].kept
      <3> DEFINE k == item[hand].kept \/ ok
      <3>1. item'[e] = [sent |-> TRUE, old |-> item[hand].old, kept |-> k]
        BY <2>1, <2>3 DEF TInv, TypeOK
      <3> HIDE DEF k
      <3>2. item'[e].kept = k
        BY <3>1
      <3>3. k
        BY <3>2
      <3> QED  BY <2>1, <2>3, <3>3 DEF k, SafeEvents
    <2> QED  BY <1>2, <2>2, <2>3
  <1>4. CASE DropOld \/ Interrupted \/ Publish
    <2>1. item' = [item EXCEPT ![hand] = NewEntry] \/ item' = item
      BY <1>4 DEF DropOld, Interrupted, Publish, Forget
    <2>2. item'[e] = NewEntry \/ item'[e] = item[e]
      BY <2>1 DEF TInv, TypeOK
    <2> QED  BY <1>2, <2>2 DEF NewEntry
  <1>5. CASE Time
    BY <1>2, <1>5 DEF Time, GrowsOld, TInv, TypeOK, Entry
  <1>6. CASE Restart
    BY <1>6 DEF Restart, NewEntry
  <1>7. CASE Client \/ Take \/ Sleep \/ NotYetDue \/ QueueAgain \/ Timer \/ Uploads
             \/ WaitForFinish \/ Finish \/ UNCHANGED vars
    BY <1>2, <1>7 DEF Client, SetSasAndStart, AddData, Take, Sleep, NotYetDue, QueueAgain,
       Timer, ResendPersistEvents, Uploads, ReadFile, PublishFile, RemoveFile,
       WaitForFinish, Finish, StopNow, Joined, vars, volatile
  <1> QED
    BY <1>3, <1>4, <1>5, <1>6, <1>7 DEF Next, Sender

(* Whatever the service answers, wherever the file system fails, and wherever the *)
(* process dies: an event given to EventHubUploader has arrived, is in the        *)
(* memory, is in a file, or was given up for a reason the code knows.             *)
THEOREM NoEventIsLost == Spec => []NothingIsLost
  <1>1. KInv => NothingIsLost
    BY DEF KInv
  <1>2. TInv /\ KInv /\ [Next]_vars => KInv'
    BY StepLost, StepRemoval, StepKept DEF KInv
  <1> QED
    BY <1>1, <1>2, InitTypes, InitKept, StepTypes, PTL DEF Spec

(* The file of a persisted event outlives the entry in the memory.                *)
THEOREM PersistedIsSafe == Spec => PersistedOutlivesMemory
  <1>1. TInv /\ KInv /\ [Next]_vars => KInv'
    BY StepLost, StepRemoval, StepKept DEF KInv
  <1>2. TInv /\ KInv /\ [Next]_vars =>
          [\A e \in Events :
              (e \in InMemory /\ item[e].kept /\ e \notin InMemory') =>
                  e \in arrived' \cup files' \cup expired']_vars
    <2> SUFFICES ASSUME TInv, KInv, [Next]_vars, NEW e \in Events, item[e].kept
                 PROVE  e \in arrived' \cup files' \cup expired'
      OBVIOUS
    <2>1. e \in SafeEvents /\ SafeEvents \subseteq SafeEvents'
      BY SafeStays DEF KInv, KeptIsSafe
    <2> QED  BY <2>1 DEF SafeEvents
  <1> QED
    BY <1>1, <1>2, InitTypes, InitKept, StepTypes, PTL DEF Spec, PersistedOutlivesMemory

(***************************************************************************)
(* No event is repeated without a failure.  What is still to be sent has   *)
(* not arrived, or has failed: an entry in the memory by MemoryIsFresh,    *)
(* and a file, with the uploads that were started for it, because only a   *)
(* failed event is persisted (FilesFailed, UploadsFailed).                 *)
(***************************************************************************)
Answered      == arrived \ failed
MemoryIsFresh == InMemory \cap Answered = {}
FilesFailed   == files \subseteq failed /\ (pc = "failed" => hand \in failed)
UploadsFailed == \A r \in Rounds, e \in Events : job[r][e] # "none" => e \in failed
HubIsAdded    == arrived \cup failed \subseteq added

DInv == DuplicatesNeedFailure /\ MemoryIsFresh /\ FilesFailed /\ UploadsFailed /\ HubIsAdded

LEMMA InitOnce == Init => DInv
  BY DEF Init, DInv, DuplicatesNeedFailure, MemoryIsFresh, InMemory, Answered, FilesFailed,
         UploadsFailed, HubIsAdded, NoJobs

(* A step that hears no answer, saves nothing and puts no entry into the memory.  *)
LEMMA QuietOnce ==
    ASSUME DInv, UNCHANGED <<hub, added>>, files' \subseteq files, InMemory' \subseteq InMemory,
           pc' = "failed" => pc = "failed" /\ hand' = hand
    PROVE  DuplicatesNeedFailure' /\ MemoryIsFresh' /\ FilesFailed' /\ HubIsAdded'
  BY DEF DInv, DuplicatesNeedFailure, MemoryIsFresh, Answered, FilesFailed, HubIsAdded, hub

(* An attempt for an event that has not been answered.                            *)
LEMMA AttemptOnce ==
    ASSUME DInv, NEW e \in added, NEW ok \in BOOLEAN, Attempt(e, ok), e \notin Answered
    PROVE  /\ repeated' = {} /\ failed \subseteq failed'
           /\ arrived' \cup failed' \subseteq added
           /\ Answered' \subseteq Answered \cup {e}
           /\ ~ok => e \in failed'
  BY DEF DInv, DuplicatesNeedFailure, HubIsAdded, Answered, Attempt

LEMMA UploadsOnce ==
    ASSUME TInv, DInv, [Next]_vars, failed \subseteq failed'
    PROVE  UploadsFailed'
  <1>1. CASE UNCHANGED job
    BY <1>1 DEF DInv, UploadsFailed
  <1>2. CASE Restart
    BY <1>2 DEF Restart, UploadsFailed, NoJobs
  <1>3. ASSUME NEW r \in Rounds, ResendPersistEvents(r) PROVE UploadsFailed'
    <2>1. PICK aged \in SUBSET files :
             job' = [job EXCEPT ![r] = [e \in Events |-> IF e \in aged THEN "remove"
                                                         ELSE IF e \in files THEN "listed"
                                                         ELSE "none"]]
      BY <1>3 DEF ResendPersistEvents
    <2>2. ASSUME NEW s \in Rounds, NEW e \in Events, job'[s][e] # "none", s # r
          PROVE  job[s][e] # "none"
      BY <2>1, <2>2 DEF TInv, TypeOK
    <2>3. ASSUME NEW e \in Events, job'[r][e] # "none" PROVE e \in files
      BY <2>1, <2>3 DEF TInv, TypeOK
    <2> QED  BY <2>2, <2>3 DEF DInv, UploadsFailed, FilesFailed
  <1>4. ASSUME NEW r \in Rounds, NEW e \in Events,
               ReadFile(r, e) \/ PublishFile(r, e) \/ RemoveFile(r, e)
        PROVE  UploadsFailed'
    <2>1. PICK to \in Stages : job[r][e] # "none" /\ job' = [job EXCEPT ![r][e] = to]
      BY <1>4 DEF ReadFile, PublishFile, RemoveFile, Step, Stages
    <2>2. ASSUME NEW s \in Rounds, NEW x \in Events, job'[s][x] # "none"
          PROVE  job[s][x] # "none"
      BY <2>1, <2>2 DEF TInv, TypeOK
    <2> QED  BY <2>2 DEF DInv, UploadsFailed
  <1>5. CASE Client \/ Sender \/ Time \/ WaitForFinish \/ Finish \/ UNCHANGED vars
    BY <1>1, <1>5 DEF Client, SetSasAndStart, AddData, Sender, Take, Sleep, DropOld, NotYetDue,
       Publish, Persist, QueueAgain, Interrupted, Time, GrowsOld, WaitForFinish, Finish,
       StopNow, Joined, vars, volatile
  <1> QED  BY <1>2, <1>3, <1>4, <1>5 DEF Next, Timer, Uploads

LEMMA StepOnce == TInv /\ DInv /\ [Next]_vars => DInv'
  <1> SUFFICES ASSUME TInv, DInv, [Next]_vars PROVE DInv'
    OBVIOUS
  <1> DEFINE Rest == DuplicatesNeedFailure' /\ MemoryIsFresh' /\ FilesFailed' /\ HubIsAdded'
  <1> USE NoneAssumption
  <1>0. failed \subseteq failed'
    BY DEF Next, vars, hub, Client, SetSasAndStart, AddData, Sender, Take, Sleep, DropOld,
           NotYetDue, Publish, Attempt, Persist, QueueAgain, Interrupted, Time, GrowsOld, Timer,
           ResendPersistEvents, Uploads, ReadFile, PublishFile, RemoveFile, WaitForFinish,
           Finish, StopNow, Joined, Restart
  <1> SUFFICES Rest
    BY <1>0, UploadsOnce DEF DInv
  <1>1. ASSUME NEW e \in Events, AddData(e) PROVE Rest
    <2>1. Elements(queue') = Elements(queue) \cup {e} /\ hand' = hand
      BY <1>1, AppendElements DEF AddData, TInv, TypeOK
    <2>2. InMemory' = InMemory \cup {e}
      BY <2>1 DEF InMemory, Elements
    <2>3. e \notin Answered
      BY <1>1 DEF AddData, DInv, HubIsAdded, Answered
    <2> QED
      BY <1>1, <2>1, <2>2, <2>3
         DEF AddData, Notified, hub, DInv, DuplicatesNeedFailure, MemoryIsFresh, Answered,
             FilesFailed, HubIsAdded
  <1>2. CASE Take
    <2>1. InMemory' = InMemory
      <3>1. CASE queue # <<>> /\ hand' = Head(queue) /\ queue' = Tail(queue)
        <4>1. Elements(queue) = Elements(queue') \cup {hand'} /\ hand' \in Events /\ hand = None
          BY <1>2, <3>1, TailElements DEF Take, TInv, TypeOK
        <4> QED  BY <4>1 DEF InMemory, Elements
      <3>2. CASE UNCHANGED <<queue, hand>>
        BY <3>2 DEF InMemory
      <3> QED  BY <1>2, <3>1, <3>2 DEF Take
    <2> QED  BY <1>2, <2>1, QuietOnce DEF Take
  <1>3. CASE DropOld \/ Interrupted
    <2>1. queue' = queue /\ hand' = None /\ pc' # "failed" /\ UNCHANGED <<files, hub, added>>
      BY <1>3 DEF DropOld, Interrupted, Forget
    <2> QED  BY <2>1, QuietOnce DEF InMemory
  <1>4. CASE NotYetDue \/ QueueAgain
    <2>1. Requeue /\ hand \in Events /\ UNCHANGED <<files, hub, added>>
      BY <1>4 DEF NotYetDue, QueueAgain, TInv, TypeOK
    <2>2. Elements(queue') = Elements(queue) \cup {hand} /\ hand' = None /\ pc' = "loop"
      BY <2>1, AppendElements DEF Requeue, TInv, TypeOK
    <2>3. InMemory' = InMemory
      BY <2>1, <2>2 DEF InMemory, Elements
    <2> QED  BY <2>1, <2>2, <2>3, QuietOnce
  <1>5. CASE Publish
    <2>1. /\ hand \in Events /\ hand \in InMemory /\ hand \in added /\ hand \notin Answered
          /\ hand \notin Elements(queue)
      BY <1>5 DEF Publish, TInv, TypeOK, InMemory, MemoryIsAdded, DInv, MemoryIsFresh, Elements
    <2>2. queue' = queue /\ UNCHANGED <<files, added>>
      BY <1>5 DEF Publish
    <2>3. CASE Attempt(hand, TRUE) /\ pc' = "loop" /\ hand' = None
      <3>1. InMemory' \subseteq InMemory \ {hand}
        BY <2>1, <2>2, <2>3 DEF InMemory, Elements
      <3>2. /\ repeated' = {} /\ failed \subseteq failed' /\ arrived' \cup failed' \subseteq added
            /\ Answered' \subseteq Answered \cup {hand}
        BY <2>1, <2>3, AttemptOnce
      <3> QED
        BY <2>2, <2>3, <3>1, <3>2 DEF DInv, DuplicatesNeedFailure, MemoryIsFresh, FilesFailed,
                                      HubIsAdded
    <2>4. CASE Attempt(hand, FALSE) /\ pc' = "failed" /\ hand' = hand
      <3>1. InMemory' = InMemory
        BY <2>2, <2>4 DEF InMemory
      <3>2. /\ repeated' = {} /\ failed \subseteq failed' /\ arrived' \cup failed' \subseteq added
            /\ Answered' \subseteq Answered \cup {hand} /\ hand \in failed'
        BY <2>1, <2>4, AttemptOnce
      <3>3. Answered' \subseteq Answered
        BY <3>2 DEF Answered
      <3> QED
        BY <2>2, <2>4, <3>1, <3>2, <3>3
           DEF DInv, DuplicatesNeedFailure, MemoryIsFresh, FilesFailed, HubIsAdded
    <2> QED  BY <1>5, <2>3, <2>4 DEF Publish
  <1>6. CASE Persist
    <2>1. /\ UNCHANGED <<queue, hand, hub, added>> /\ pc' = "again"
          /\ files' \subseteq files \cup {hand} /\ pc = "failed"
      BY <1>6 DEF Persist
    <2>2. files' \subseteq failed
      BY <2>1 DEF DInv, FilesFailed
    <2> QED
      BY <2>1, <2>2 DEF DInv, DuplicatesNeedFailure, MemoryIsFresh, InMemory, Answered,
                        FilesFailed, HubIsAdded, hub
  <1>7. ASSUME NEW r \in Rounds, NEW e \in Events, PublishFile(r, e) PROVE Rest
    <2>1. e \in failed /\ e \in added /\ e \notin Answered
      BY <1>7 DEF PublishFile, Step, DInv, UploadsFailed, HubIsAdded, Answered
    <2>2. UNCHANGED <<queue, hand, pc, files, added>> /\ InMemory' = InMemory
      BY <1>7 DEF PublishFile, InMemory
    <2>3. /\ repeated' = {} /\ arrived' \cup failed' \subseteq added
          /\ Answered' \subseteq Answered \cup {e}
      BY <1>7, <2>1, AttemptOnce DEF PublishFile
    <2>4. Answered' \subseteq Answered
      BY <1>0, <2>1, <2>3 DEF Answered
    <2> QED
      BY <1>0, <2>2, <2>3, <2>4
         DEF DInv, DuplicatesNeedFailure, MemoryIsFresh, FilesFailed, HubIsAdded
  <1>8. CASE Restart
    <2>1. InMemory' = {} /\ pc' # "failed" /\ UNCHANGED <<files, hub, added>>
      BY <1>8 DEF Restart, InMemory
    <2> QED  BY <2>1, QuietOnce
  <1>9. ASSUME NEW r \in Rounds, NEW e \in Events, ReadFile(r, e) \/ RemoveFile(r, e)
        PROVE  Rest
    BY <1>9, QuietOnce DEF ReadFile, RemoveFile, InMemory
  <1>10. CASE SetSasAndStart \/ Sleep \/ Time \/ Timer \/ WaitForFinish \/ Finish \/ UNCHANGED vars
    <2>1. /\ UNCHANGED <<queue, hand, files, hub, added>>
          /\ pc' = "failed" => pc = "failed"
      BY <1>10 DEF SetSasAndStart, Sleep, Time, GrowsOld, Timer, ResendPersistEvents,
         WaitForFinish, Finish, StopNow, Joined, Notified, vars, volatile
    <2>2. InMemory' = InMemory
      BY <2>1 DEF InMemory
    <2> QED  BY <2>1, <2>2, QuietOnce
  <1> QED
    BY <1>1, <1>2, <1>3, <1>4, <1>5, <1>6, <1>7, <1>8, <1>9, <1>10
       DEF Next, Client, Sender, Uploads

(* An event that the service has answered with success, and of which no attempt   *)
(* seemed to fail, is never sent again: not from the queue, not from a file by    *)
(* overlapping rounds of uploads, not by the next process of mdsd.                *)
THEOREM NoEventIsRepeated == Spec => []DuplicatesNeedFailure
  <1>1. DInv => DuplicatesNeedFailure
    BY DEF DInv
  <1> QED  BY <1>1, InitTypes, StepTypes, InitOnce, StepOnce, PTL DEF Spec

(***************************************************************************)
(* The uploader implements EventDelivery: which step of EventDelivery each *)
(* of its steps is.                                                        *)
(***************************************************************************)
KeptEntries == {e \in InMemory : item[e].kept}

\* An event that is not in the memory has a new entry.
ItemsAreNew == \A e \in Events \ InMemory : item[e] = NewEntry

PInv == TInv /\ KInv /\ DInv /\ ItemsAreNew

LEMMA InitItems == Init => ItemsAreNew
  BY DEF Init, ItemsAreNew

\* What a step does to the set of the events in the memory.
LEMMA MemoryMoves ==
    ASSUME TInv, [Next]_vars
    PROVE  /\ \A e \in Events : AddData(e) => InMemory' = InMemory \cup {e}
           /\ (Take \/ NotYetDue \/ QueueAgain) => InMemory' = InMemory
           /\ (DropOld \/ Interrupted) => hand \in InMemory /\ InMemory' = InMemory \ {hand}
           /\ Publish => /\ hand \in InMemory
                         /\ InMemory' = InMemory \ {hand} \/ InMemory' = InMemory
           /\ Restart => InMemory' = {}
           /\ ( \/ SetSasAndStart \/ Sleep \/ Persist \/ Time \/ Timer \/ Uploads
                \/ WaitForFinish \/ Finish \/ UNCHANGED vars ) => InMemory' = InMemory
  <1> USE NoneAssumption
  <1>1. ASSUME NEW e \in Events, AddData(e) PROVE InMemory' = InMemory \cup {e}
    <2>1. Elements(queue') = Elements(queue) \cup {e} /\ hand' = hand
      BY <1>1, AppendElements DEF AddData, TInv, TypeOK
    <2> QED  BY <2>1, InMemoryElements DEF InMemory, Elements
  <1>2. ASSUME Take PROVE InMemory' = InMemory
    <2>1. CASE UNCHANGED <<queue, hand>>
      BY <2>1 DEF InMemory
    <2>2. CASE queue # <<>> /\ hand' = Head(queue) /\ queue' = Tail(queue)
      <3>1. Elements(queue) = Elements(queue') \cup {hand'} /\ hand' \in Events
        BY <2>2, TailElements DEF TInv, TypeOK
      <3>2. hand = None
        BY <1>2 DEF Take, TInv, TypeOK
      <3> QED  BY <3>1, <3>2 DEF InMemory, Elements
    <2> QED  BY <1>2, <2>1, <2>2 DEF Take
  <1>3. ASSUME NotYetDue \/ QueueAgain PROVE InMemory' = InMemory
    <2>1. Requeue /\ hand \in Events
      BY <1>3 DEF NotYetDue, QueueAgain, TInv, TypeOK
    <2>2. Elements(queue') = Elements(queue) \cup {hand} /\ hand' = None
      BY <2>1, AppendElements DEF Requeue, TInv, TypeOK
    <2> QED  BY <2>1, <2>2 DEF InMemory, Elements
  <1>4. ASSUME queue' = queue, hand' = None, hand \in Events
        PROVE  hand \in InMemory /\ InMemory' = InMemory \ {hand}
    BY <1>4 DEF InMemory, TInv, TypeOK
  <1>5. ASSUME DropOld \/ Interrupted PROVE hand \in InMemory /\ InMemory' = InMemory \ {hand}
    BY <1>4, <1>5 DEF DropOld, Interrupted, Forget, TInv, TypeOK
  <1>6. ASSUME Publish PROVE /\ hand \in InMemory
                             /\ InMemory' = InMemory \ {hand} \/ InMemory' = InMemory
    <2>1. hand \in Events /\ hand \in InMemory /\ queue' = queue
      BY <1>6 DEF Publish, TInv, TypeOK, InMemory
    <2>2. CASE hand' = hand
      BY <2>1, <2>2 DEF InMemory
    <2> QED  BY <1>4, <1>6, <2>1, <2>2 DEF Publish
  <1>7. ASSUME Restart PROVE InMemory' = {}
    BY <1>7 DEF Restart, InMemory
  <1>8. ASSUME \/ SetSasAndStart \/ Sleep \/ Persist \/ Time \/ Timer \/ Uploads
               \/ WaitForFinish \/ Finish \/ UNCHANGED vars
        PROVE  InMemory' = InMemory
    BY <1>8 DEF SetSasAndStart, Sleep, Persist, Time, GrowsOld, Timer, ResendPersistEvents,
       Uploads, ReadFile, PublishFile, RemoveFile, WaitForFinish, Finish, StopNow, Joined,
       vars, volatile, InMemory
  <1> QED  BY <1>1, <1>2, <1>3, <1>5, <1>6, <1>7, <1>8

LEMMA StepItems == TInv /\ ItemsAreNew /\ [Next]_vars => ItemsAreNew'
  <1> SUFFICES ASSUME TInv, ItemsAreNew, [Next]_vars, NEW e \in Events, e \notin InMemory'
               PROVE  item'[e] = NewEntry
    BY DEF ItemsAreNew
  <1>1. item'[e] = item[e] \/ item'[e] = NewEntry \/ (e = hand /\ Persist) \/ (e \in InMemory /\ Time)
    BY DEF TInv, TypeOK, Next, vars, volatile, Client, SetSasAndStart, AddData, Sender, Take, Sleep,
       DropOld, Forget, NotYetDue, Publish, Persist, QueueAgain, Interrupted, Time,
       GrowsOld, Timer, ResendPersistEvents, Uploads, ReadFile, PublishFile, RemoveFile,
       WaitForFinish, Finish, StopNow, Joined, Restart
  <1>2. CASE e \notin InMemory
    BY <1>1, <1>2, MemoryMoves DEF ItemsAreNew, Persist, TInv, TypeOK, InMemory
  <1>3. CASE e \in InMemory
    <2>1. DropOld \/ Interrupted \/ Publish \/ Restart
      BY <1>3, MemoryMoves DEF Next, Client, Sender
    <2>2. CASE Restart
      BY <2>2 DEF Restart
    <2>3. CASE DropOld \/ Interrupted
      BY <1>3, <2>3, MemoryMoves DEF DropOld, Interrupted, Forget, TInv, TypeOK
    <2>4. CASE Publish
      <3>1. e = hand /\ ~(UNCHANGED <<queue, hand>>)
        BY <1>3, <2>4, MemoryMoves DEF InMemory
      <3> QED  BY <2>4, <3>1 DEF Publish, TInv, TypeOK
    <2> QED  BY <2>1, <2>2, <2>3, <2>4
  <1> QED  BY <1>2, <1>3

\* The abstract state, and what a step leaves of it alone.
LEMMA SameDelivery ==
    ASSUME InMemory' = InMemory, \A e \in InMemory : item'[e].kept = item[e].kept,
           UNCHANGED <<added, files, arrived, failed, dropped, expired>>
    PROVE  UNCHANGED Delivery!delivery
  BY DEF Delivery!delivery

\* An answer of the service, for an event that is in the memory or has failed.
LEMMA AttemptIsSend ==
    ASSUME DInv, DInv', NEW e \in InMemory \cup failed, NEW ok \in BOOLEAN, Attempt(e, ok),
           UNCHANGED <<added, files, dropped, expired>>
    PROVE  /\ Delivery!Send(e)
           /\ ok => e \in arrived' /\ failed' = failed
           /\ ~ok => failed' = failed \cup {e}
  <1>1. e \in arrived \ failed => e \notin arrived' \/ arrived' = arrived
    BY DEF Attempt
  <1>2. arrived' = arrived \/ (arrived' = arrived \cup {e} /\ (e \in arrived => e \in failed))
    BY DEF Attempt
  <1> QED  BY <1>2 DEF Attempt, Delivery!Send

LEMMA ForgetIsNext ==
    ASSUME NEW S \in SUBSET Events, Delivery!Forget(S) \/ Delivery!Expire(S)
    PROVE  Delivery!Next
  BY DEF Delivery!Next

LEMMA DeliveryStep ==
    ASSUME PInv, PInv', [Next]_vars
    PROVE  [Delivery!Next]_Delivery!delivery
  <1> USE NoneAssumption DEF PInv
  <1>0. InMemory \subseteq Events
    BY DEF InMemory, TInv, TypeOK
  <1>1. ASSUME NEW e \in Events, AddData(e) PROVE Delivery!Add(e)
    <2>1. InMemory' = InMemory \cup {e}
      BY <1>1, MemoryMoves
    <2>2. ~item[e].kept /\ item' = item
      BY <1>1 DEF AddData, ItemsAreNew, NewEntry, TInv, MemoryIsAdded
    <2>3. {x \in InMemory' : item'[x].kept} = {x \in InMemory : item[x].kept}
      BY <2>1, <2>2
    <2> QED  BY <1>1, <2>1, <2>3 DEF AddData, Delivery!Add, hub, excused
  <1>2. ASSUME SetSasAndStart \/ Take \/ Sleep \/ NotYetDue \/ QueueAgain \/ WaitForFinish
               \/ Finish \/ UNCHANGED vars
        PROVE  UNCHANGED Delivery!delivery
    <2>1. InMemory' = InMemory
      BY <1>2, MemoryMoves
    <2>2. item' = item /\ UNCHANGED <<added, files, arrived, failed, dropped, expired>>
      BY <1>2 DEF SetSasAndStart, Take, Sleep, NotYetDue, QueueAgain, WaitForFinish, Finish,
         StopNow, Joined, vars, volatile, hub, excused
    <2> QED  BY <2>1, <2>2, SameDelivery
  <1>3. CASE DropOld \/ Interrupted
    <2>1. hand \in InMemory /\ InMemory' = InMemory \ {hand} /\ hand \in Events
      BY <1>3, MemoryMoves DEF DropOld, Interrupted, TInv, TypeOK
    <2>2. /\ item' = [item EXCEPT ![hand] = NewEntry]
          /\ dropped' = IF item[hand].kept THEN dropped ELSE dropped \cup {hand}
          /\ UNCHANGED <<added, files, arrived, failed, expired>>
      BY <1>3 DEF DropOld, Interrupted, Forget, hub
    <2>3. {x \in InMemory' : item'[x].kept} = {x \in InMemory : item[x].kept} \ {hand}
      <3>1. \A x \in InMemory' : item'[x] = item[x]
        BY <2>1, <2>2, <1>0 DEF TInv, TypeOK
      <3> QED  BY <2>1, <3>1
    <2>4. dropped' = dropped \cup ({hand} \ {x \in InMemory : item[x].kept})
      BY <2>1, <2>2
    <2>5. PICK h \in Events : h = hand
      BY <2>1
    <2>6. Delivery!Forget({h})
      BY <2>1, <2>2, <2>3, <2>4, <2>5 DEF Delivery!Forget
    <2> QED  BY <2>6, ForgetIsNext, {h} \in SUBSET Events
  <1>4. CASE Publish
    <2>0. PICK h \in Events : h = hand
      BY <1>4 DEF Publish, TInv, TypeOK
    <2>1. hand \in InMemory /\ hand \in Events /\ UNCHANGED <<added, files, dropped, expired>>
      BY <1>0, <1>4, MemoryMoves DEF Publish, excused
    <2>2. CASE Attempt(hand, TRUE) /\ item' = [item EXCEPT ![hand] = NewEntry] /\ hand' = None
      <3>1. Delivery!Send(h) /\ hand \in arrived' /\ failed' = failed
        BY <2>0, <2>1, <2>2, AttemptIsSend
      <3>2. InMemory' = InMemory \ {hand}
        BY <1>4, <2>1, <2>2 DEF Publish, InMemory, TInv, TypeOK
      <3>3. \A x \in InMemory' : item'[x] = item[x]
        BY <1>0, <2>2, <3>2 DEF TInv, TypeOK
      <3>4. {x \in InMemory' : item'[x].kept} = {x \in InMemory : item[x].kept} \ {hand}
        BY <3>2, <3>3
      <3>5. Delivery!Succeed(h)
        BY <2>0, <3>1, <3>2, <3>4 DEF Delivery!Succeed
      <3> QED  BY <2>1, <3>5 DEF Delivery!Next
    <2>3. CASE Attempt(hand, FALSE) /\ UNCHANGED <<item, hand>>
      <3>1. Delivery!Send(h) /\ failed' = failed \cup {hand}
        BY <2>0, <2>1, <2>3, AttemptIsSend
      <3>2. InMemory' = InMemory /\ item' = item
        BY <1>4, <2>3 DEF Publish, InMemory
      <3>3. Delivery!Fail(h)
        BY <2>0, <3>1, <3>2 DEF Delivery!Fail
      <3> QED  BY <2>1, <3>3 DEF Delivery!Next
    <2> QED  BY <1>4, <2>2, <2>3 DEF Publish
  <1>5. CASE Persist
    <2>0. PICK h \in Events : h = hand
      BY <1>5 DEF Persist, TInv, TypeOK
    <2>1. hand \in Events /\ hand \in InMemory /\ hand \in failed /\ InMemory' = InMemory
      BY <1>5, MemoryMoves DEF Persist, TInv, TypeOK, InMemory, DInv, FilesFailed
    <2>2. PICK ok \in BOOLEAN :
             /\ item' = [item EXCEPT ![hand] = [sent |-> TRUE, old |-> item[hand].old,
                                                kept |-> item[hand].kept \/ ok]]
             /\ files' = IF ~item[hand].kept /\ ok THEN files \cup {hand} ELSE files
      BY <1>5 DEF Persist
    <2>3. UNCHANGED <<added, arrived, failed, dropped, expired>>
      BY <1>5 DEF Persist, hub, excused
    <2>4. \A x \in InMemory \ {hand} : item'[x] = item[x]
      BY <1>0, <2>2 DEF TInv, TypeOK
    <2>5. item'[hand].kept <=> item[hand].kept \/ ok
      <3> DEFINE k == item[hand].kept \/ ok
      <3>1. item'[hand] = [sent |-> TRUE, old |-> item[hand].old, kept |-> k]
        BY <2>1, <2>2 DEF TInv, TypeOK
      <3> HIDE DEF k
      <3>2. item'[hand].kept = k
        BY <3>1
      <3> QED  BY <3>2 DEF k
    <2>6. CASE ~item[hand].kept /\ ok
      <3>1. KeptEntries' = KeptEntries \cup {hand}
        BY <2>1, <2>4, <2>5, <2>6 DEF KeptEntries
      <3>2. files' = files \cup {hand}
        BY <2>2, <2>6
      <3>3. Delivery!Persist(h)
        BY <2>0, <2>1, <2>3, <3>1, <3>2 DEF Delivery!Persist, KeptEntries
      <3> QED  BY <2>1, <3>3 DEF Delivery!Next
    <2>7. CASE ~(~item[hand].kept /\ ok)
      <3>1. KeptEntries' = KeptEntries
        BY <2>1, <2>4, <2>5, <2>7 DEF KeptEntries
      <3>2. files' = files
        BY <2>2, <2>7
      <3> QED  BY <2>1, <2>3, <3>1, <3>2 DEF Delivery!delivery, KeptEntries
    <2> QED  BY <2>6, <2>7
  <1>6. CASE Time
    <2>1. PICK e \in Events : GrowsOld(e)
      BY <1>6 DEF Time
    <2>2. \A x \in InMemory : item'[x].kept = item[x].kept
      BY <1>0, <2>1 DEF GrowsOld, TInv, TypeOK, Entry
    <2> QED  BY <1>6, <2>1, <2>2, SameDelivery, MemoryMoves DEF GrowsOld, hub, excused
  <1>7. CASE Timer
    <2>1. PICK r \in Rounds : ResendPersistEvents(r)
      BY <1>7 DEF Timer
    <2>2. PICK aged \in SUBSET files : expired' = expired \cup aged
      BY <2>1 DEF ResendPersistEvents
    <2>3. InMemory' = InMemory /\ item' = item
          /\ UNCHANGED <<added, files, arrived, failed, dropped>>
      BY <1>7, <2>1, MemoryMoves DEF ResendPersistEvents, hub
    <2>4. Delivery!Expire(aged)
      BY <2>2, <2>3 DEF Delivery!Expire
    <2> QED  BY <2>2, <2>4, ForgetIsNext DEF TInv, TypeOK
  <1>8. CASE Uploads
    <2>1. PICK r \in Rounds, e \in Events :
             ReadFile(r, e) \/ PublishFile(r, e) \/ RemoveFile(r, e)
      BY <1>8 DEF Uploads
    <2>2. InMemory' = InMemory /\ item' = item /\ UNCHANGED <<added, dropped>>
      BY <1>8, <2>1, MemoryMoves DEF ReadFile, PublishFile, RemoveFile, excused
    <2>3. CASE ReadFile(r, e)
      <3>1. UNCHANGED <<files, arrived, failed>>
        BY <2>3 DEF ReadFile, hub
      <3>2. CASE expired' = expired
        BY <2>2, <3>1, <3>2, SameDelivery
      <3>3. CASE e \in files /\ expired' = expired \cup {e}
        <4>1. Delivery!Expire({e})
          BY <2>2, <3>1, <3>3 DEF Delivery!Expire
        <4> QED  BY <4>1, ForgetIsNext, {e} \in SUBSET Events
      <3> QED  BY <2>3, <3>2, <3>3 DEF ReadFile
    <2>4. CASE PublishFile(r, e)
      <3>1. e \in failed /\ UNCHANGED <<files, expired>>
        BY <2>4 DEF PublishFile, Step, DInv, UploadsFailed, excused
      <3>2. CASE Attempt(e, TRUE)
        <4>1. Delivery!Send(e) /\ e \in arrived' /\ failed' = failed
          BY <2>2, <3>1, <3>2, AttemptIsSend
        <4>2. Delivery!Succeed(e)
          BY <2>2, <4>1 DEF Delivery!Succeed
        <4> QED  BY <4>2 DEF Delivery!Next
      <3>3. CASE Attempt(e, FALSE)
        <4>1. Delivery!Send(e) /\ failed' = failed \cup {e}
          BY <2>2, <3>1, <3>3, AttemptIsSend
        <4>2. Delivery!Fail(e)
          BY <2>2, <4>1 DEF Delivery!Fail
        <4> QED  BY <4>2 DEF Delivery!Next
      <3> QED  BY <2>4, <3>2, <3>3 DEF PublishFile
    <2>5. CASE RemoveFile(r, e)
      <3>1. e \in arrived \cup expired /\ UNCHANGED <<arrived, failed, expired>>
        BY <2>5 DEF RemoveFile, Step, KInv, RemovalIsExcused, hub, excused
      <3>2. CASE files' = files
        BY <2>2, <3>1, <3>2, SameDelivery
      <3>3. CASE files' = files \ {e}
        <4>1. Delivery!Remove(e)
          BY <2>2, <3>1, <3>3 DEF Delivery!Remove
        <4> QED  BY <4>1 DEF Delivery!Next
      <3> QED  BY <2>5, <3>2, <3>3 DEF RemoveFile
    <2> QED  BY <2>1, <2>3, <2>4, <2>5
  <1>9. CASE Restart
    <2>1. InMemory' = {}
      BY <1>9, MemoryMoves
    <2>2. dropped' = dropped \cup (InMemory \ {x \in InMemory : item[x].kept})
          /\ UNCHANGED <<added, files, arrived, failed, expired>>
      BY <1>9 DEF Restart, hub
    <2>3. PICK S \in SUBSET Events : S = InMemory
      BY <1>0
    <2>4. Delivery!Forget(S)
      BY <2>1, <2>2, <2>3 DEF Delivery!Forget
    <2> QED  BY <2>4, ForgetIsNext
  <1> QED
    BY <1>1, <1>2, <1>3, <1>4, <1>5, <1>6, <1>7, <1>8, <1>9
       DEF Next, Client, Sender, Delivery!Next

(***************************************************************************)
(* The uploader implements EventDelivery, for any number of events, rounds *)
(* and restarts: whatever its threads interleave, an event leaves the      *)
(* memory or its file, is sent again, or is given up only as EventDelivery *)
(* allows.                                                                 *)
(***************************************************************************)
THEOREM UploaderDelivers == Spec => DeliverySpec
  <1>1. Init => PInv /\ Delivery!Init
    BY InitTypes, InitKept, InitOnce, InitItems
       DEF PInv, Init, Delivery!Init, InMemory
  <1>2. PInv /\ [Next]_vars => PInv'
    BY StepTypes, StepLost, StepRemoval, StepKept, StepOnce, StepItems DEF PInv, KInv
  <1>3. PInv /\ PInv' /\ [Next]_vars => [Delivery!Next]_Delivery!delivery
    BY DeliveryStep
  <1> QED
    BY <1>1, <1>2, <1>3, PTL DEF Spec, DeliverySpec, Delivery!Spec
=============================================================================
