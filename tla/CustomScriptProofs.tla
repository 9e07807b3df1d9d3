------------------------- MODULE CustomScriptProofs -------------------------
(***************************************************************************)
(* Proofs about CustomScript, for any number of sequence numbers, daemons, *)
(* retries, commands and kills.                                            *)
(***************************************************************************)
EXTENDS CustomScript, TLAPS

(***************************************************************************)
(* One daemon: where it is tells what its variables can be.                *)
(***************************************************************************)
Worker == [pc : DaemonPc, of : 0 .. LastSeq, seq : 0 .. LastSeq,
           tries : 0 .. RetryCount, left : 0 .. RetryCount, slept : 0 .. RetryCount,
           script : {"none", "running", "ok", "error", "killed"}]

Fetching  == {"fetch", "fetchrename", "load"}
BeforeRun == {"off", "parse", "dns", "run"} \cup Fetching

WorkOK(r) ==
    /\ r \in Worker
    /\ r.pc # "off" => r.of \in Seqs
    /\ r.pc \in {"off", "parse"} => r.seq = 0 /\ r.tries = 0 /\ r.left = 0 /\ r.slept = 0
    /\ r.pc \notin {"off", "parse", "ended"} => r.seq \in Seqs
    /\ r.pc \in BeforeRun \/ r.seq = 0 => r.script = "none"
    /\ r.pc \in Fetching => r.slept = r.tries
    /\ r.pc = "dns" => r.slept + r.left <= RetryCount
    /\ r.pc = "succeed" => r.script = "ok"

\* What a step of the daemon does to the record, whatever the step.
Moves(o, r) ==
    /\ o.pc # "off" /\ r.pc # "off" /\ r.of = o.of
    /\ r.seq = o.seq \/ (o.pc = "parse" /\ o.seq = 0 /\ r.seq = given)
    /\ o.script = "ok" => r.script = "ok"

WorkersOK == /\ daemon \in [Daemons -> Worker]
             /\ \A d \in Daemons : WorkOK(daemon[d])
             /\ \A d \in Daemons : daemon[d].pc # "off" => daemon[d].of <= given

CommandOK == command \in CommandPc /\ (command # "idle" => given \in Seqs)

FilesOK == /\ given \in 0 .. LastSeq /\ mrseq \in 0 .. LastSeq /\ bad \in SUBSET Seqs
           /\ status \in [Seqs -> Reports] /\ temp \in [Seqs -> Reports]
           /\ reruns \in Nat /\ kills \in Nat
           /\ astray \in SUBSET Seqs /\ late \in SUBSET Seqs
           /\ broken \in SUBSET Seqs /\ disabled \in SUBSET Seqs

TInv == FilesOK /\ CommandOK /\ WorkersOK

LEMMA TypesHold == TInv => TypeOK
  BY DEF TInv, TypeOK, FilesOK, CommandOK, WorkersOK, WorkOK, DaemonOK, Worker

LEMMA NumberRange == Seqs \subseteq 0 .. LastSeq /\ 0 \in 0 .. LastSeq /\ 0 \notin Seqs
  BY ScriptAssumption DEF Seqs

(***************************************************************************)
(* Every step of a daemon or of its script changes one record as Moves     *)
(* says.                                                                   *)
(***************************************************************************)
Moved(d) == \E r : daemon' = [daemon EXCEPT ![d] = r] /\ WorkOK(r) /\ Moves(daemon[d], r)

LEMMA FetchedOK ==
    ASSUME WorkersOK, NEW d \in Daemons, daemon[d].pc \in Fetching, Fetched(d)
    PROVE  Moved(d)
  <1> DEFINE w == [daemon[d] EXCEPT !.pc = "dns", !.left = RetryCount - daemon[d].tries]
  <1>1. daemon[d] \in Worker /\ WorkOK(daemon[d]) /\ daemon[d].pc \in Fetching
    BY DEF WorkersOK
  <1>2. WorkOK(w) /\ Moves(daemon[d], w)
    <2>1. /\ daemon[d].seq \in Seqs /\ daemon[d].of \in Seqs /\ daemon[d].script = "none"
          /\ daemon[d].pc # "off" /\ daemon[d].slept = daemon[d].tries
          /\ daemon[d].tries \in 0 .. RetryCount
      BY <1>1 DEF WorkOK, Fetching, BeforeRun, Worker
    <2>2. /\ w.pc = "dns" /\ w.left = RetryCount - daemon[d].tries
          /\ w.of = daemon[d].of /\ w.seq = daemon[d].seq /\ w.script = daemon[d].script
          /\ w.slept = daemon[d].slept
      BY <1>1 DEF Worker
    <2>3. RetryCount - daemon[d].tries \in 0 .. RetryCount
      BY <2>1, ScriptAssumption
    <2>4. w \in Worker
      BY <1>1, <2>3 DEF Worker, DaemonPc
    <2> HIDE DEF w
    <2>5. w.slept + w.left <= RetryCount
      BY <2>1, <2>2, ScriptAssumption
    <2> QED  BY <2>1, <2>2, <2>4, <2>5 DEF WorkOK, Moves, Fetching
  <1>3. daemon' = [daemon EXCEPT ![d] = w]
    BY DEF Fetched, WorkersOK
  <1> QED  BY <1>2, <1>3 DEF Moved

LEMMA LeavesOK ==
    ASSUME WorkersOK, NEW d \in Daemons, daemon[d].pc \in Fetching \cup {"run"},
           Leaves(d, "fail", "none") \/ Leaves(d, "poll", "running")
    PROVE  Moved(d)
  <1>1. daemon[d] \in Worker /\ WorkOK(daemon[d]) /\ daemon[d].pc \in Fetching \cup {"run"}
    BY DEF WorkersOK
  <1>2. ASSUME NEW to \in {"fail", "poll"}, NEW s \in {"none", "running"}, Leaves(d, to, s)
        PROVE  Moved(d)
    <2> DEFINE w == [daemon[d] EXCEPT !.pc = to, !.script = s,
                                      !.tries = 0, !.left = 0, !.slept = 0]
    <2>1. WorkOK(w) /\ Moves(daemon[d], w)
      <3>1. /\ daemon[d].seq \in Seqs /\ daemon[d].of \in Seqs /\ daemon[d].script = "none"
            /\ daemon[d].pc # "off"
        BY <1>1 DEF WorkOK, Fetching, BeforeRun, Worker
      <3>2. /\ w.pc = to /\ w.script = s
            /\ w.of = daemon[d].of /\ w.seq = daemon[d].seq
        BY <1>1 DEF Worker
      <3>3. 0 \in 0 .. RetryCount
        BY ScriptAssumption
      <3>4. w \in Worker
        BY <1>1, <3>3 DEF Worker, DaemonPc
      <3> HIDE DEF w
      <3> QED  BY <3>1, <3>2, <3>4, NumberRange DEF WorkOK, Moves, Fetching, BeforeRun
    <2>2. daemon' = [daemon EXCEPT ![d] = w]
      BY <1>2 DEF Leaves, WorkersOK
    <2> QED  BY <2>1, <2>2 DEF Moved
  <1> QED  BY <1>2

LEMMA MissedOK ==
    ASSUME WorkersOK, NEW d \in Daemons, daemon[d].pc \in Fetching, Missed(d)
    PROVE  Moved(d)
  <1>1. daemon[d] \in Worker /\ WorkOK(daemon[d]) /\ daemon[d].pc \in Fetching
    BY DEF WorkersOK
  <1>2. CASE daemon[d].tries < RetryCount
    <2> DEFINE w == [daemon[d] EXCEPT !.pc = "fetch", !.tries = @ + 1, !.slept = @ + 1]
    <2>1. WorkOK(w) /\ Moves(daemon[d], w)
      <3>1. /\ daemon[d].seq \in Seqs /\ daemon[d].of \in Seqs /\ daemon[d].script = "none"
            /\ daemon[d].pc # "off" /\ daemon[d].slept = daemon[d].tries
            /\ daemon[d].tries \in 0 .. RetryCount
        BY <1>1 DEF WorkOK, Fetching, BeforeRun, Worker
      <3>2. /\ w.pc = "fetch" /\ w.tries = daemon[d].tries + 1 /\ w.slept = daemon[d].slept + 1
            /\ w.of = daemon[d].of /\ w.seq = daemon[d].seq /\ w.script = daemon[d].script
           
        BY <1>1 DEF Worker
      <3>3. daemon[d].tries + 1 \in 0 .. RetryCount /\ daemon[d].slept + 1 \in 0 .. RetryCount
        BY <3>1, <1>2, ScriptAssumption
      <3>4. w \in Worker
        BY <1>1, <3>3 DEF Worker, DaemonPc
      <3> HIDE DEF w
      <3> QED  BY <3>1, <3>2, <3>4, NumberRange DEF WorkOK, Moves, Fetching
    <2>2. daemon' = [daemon EXCEPT ![d] = w]
      BY <1>2 DEF Missed, WorkersOK
    <2> QED  BY <2>1, <2>2 DEF Moved
  <1>3. CASE ~(daemon[d].tries < RetryCount)
    BY <1>3, LeavesOK DEF Missed
  <1> QED  BY <1>2, <1>3

LEMMA ParseMoves ==
    ASSUME FilesOK, WorkersOK, NEW d \in Daemons, DaemonParse(d) PROVE Moved(d)
  <1>1. daemon[d] \in Worker /\ WorkOK(daemon[d]) /\ daemon[d].pc = "parse" /\ given \in Seqs
    BY ScriptAssumption DEF DaemonParse, FilesOK, WorkersOK, WorkOK, Seqs
  <1>2. PICK to \in {"fetch", "fail"} :
            daemon' = [daemon EXCEPT ![d].seq = given, ![d].pc = to]
    BY DEF DaemonParse
  <1> DEFINE w == [daemon[d] EXCEPT !.seq = given, !.pc = to]
  <1>3. WorkOK(w) /\ Moves(daemon[d], w)
    <2>1. /\ daemon[d].of \in Seqs /\ daemon[d].script = "none" /\ daemon[d].seq = 0
          /\ daemon[d].tries = 0 /\ daemon[d].left = 0 /\ daemon[d].slept = 0
      BY <1>1 DEF WorkOK, BeforeRun
    <2>2. /\ w.pc = to /\ w.seq = given /\ w.of = daemon[d].of /\ w.script = daemon[d].script
          /\ w.tries = daemon[d].tries /\ w.slept = daemon[d].slept
      BY <1>1 DEF Worker
    <2>3. w \in Worker
      BY <1>1, NumberRange DEF Worker, DaemonPc
    <2> HIDE DEF w
    <2> QED  BY <1>1, <2>1, <2>2, <2>3, NumberRange DEF WorkOK, Moves, Fetching
  <1>4. daemon' = [daemon EXCEPT ![d] = w]
    BY <1>2 DEF WorkersOK
  <1> QED  BY <1>3, <1>4 DEF Moved

\* A daemon that goes on without a change of its variables.
LEMMA PlainMoves ==
    ASSUME WorkersOK, NEW d \in Daemons, NEW from, NEW to, Goes(d, from, to),
           \/ from = "dns" /\ to = "run"
           \/ from = "fetch" /\ to = "fetchrename"
           \/ from = "fetchrename" /\ to = "load"
           \/ from = "poll" /\ to = "pollrename"
           \/ from \in {"succeed", "fail"} /\ to = "lastrename"
           \/ from \in {"poll", "pollrename"} /\ to \in {"poll", "fail"}
           \/ from = "poll" /\ to = "succeed" /\ daemon[d].script = "ok"
           \/ from = "lastrename" /\ to = "ended"
    PROVE  Moved(d)
  <1> DEFINE w == [daemon[d] EXCEPT !.pc = to]
  <1>1. daemon[d] \in Worker /\ WorkOK(daemon[d]) /\ daemon[d].pc = from
    BY DEF WorkersOK, Goes
  <1>2. WorkOK(w) /\ Moves(daemon[d], w)
    <2>1. /\ w.pc = to /\ w.seq = daemon[d].seq /\ w.of = daemon[d].of
          /\ w.script = daemon[d].script /\ w.tries = daemon[d].tries /\ w.slept = daemon[d].slept
      BY <1>1 DEF Worker
    <2>2. w \in Worker
      BY <1>1 DEF Worker, DaemonPc
    <2> HIDE DEF w
    <2> QED  BY <1>1, <2>1, <2>2, NumberRange DEF WorkOK, Moves, Fetching, BeforeRun
  <1>3. daemon' = [daemon EXCEPT ![d] = w]
    BY DEF Goes, WorkersOK
  <1> QED  BY <1>2, <1>3 DEF Moved

LEMMA IdnsMoves ==
    ASSUME WorkersOK, NEW d \in Daemons, CheckIdns(d) PROVE Moved(d)
  <1>1. daemon[d] \in Worker /\ WorkOK(daemon[d]) /\ daemon[d].pc = "dns"
    BY DEF CheckIdns, WorkersOK
  <1>2. CASE /\ daemon[d].left > 0
             /\ daemon' = [daemon EXCEPT ![d].left = @ - 1, ![d].slept = @ + 1]
    <2> DEFINE w == [daemon[d] EXCEPT !.left = @ - 1, !.slept = @ + 1]
    <2>1. WorkOK(w) /\ Moves(daemon[d], w)
      <3>1. /\ daemon[d].seq \in Seqs /\ daemon[d].of \in Seqs /\ daemon[d].script = "none"
            /\ daemon[d].left \in 0 .. RetryCount /\ daemon[d].slept \in 0 .. RetryCount
            /\ daemon[d].slept + daemon[d].left <= RetryCount
        BY <1>1 DEF WorkOK, BeforeRun, Worker
      <3>2. /\ w.pc = "dns" /\ w.left = daemon[d].left - 1 /\ w.slept = daemon[d].slept + 1
            /\ w.of = daemon[d].of /\ w.seq = daemon[d].seq /\ w.script = daemon[d].script
           
        BY <1>1 DEF Worker
      <3>3. daemon[d].left - 1 \in 0 .. RetryCount /\ daemon[d].slept + 1 \in 0 .. RetryCount
            /\ (daemon[d].slept + 1) + (daemon[d].left - 1) <= RetryCount
        BY <1>2, <3>1, ScriptAssumption
      <3>4. w \in Worker
        BY <1>1, <3>3 DEF Worker, DaemonPc
      <3> HIDE DEF w
      <3> QED  BY <1>1, <3>1, <3>2, <3>3, <3>4, NumberRange DEF WorkOK, Moves, Fetching
    <2>2. daemon' = [daemon EXCEPT ![d] = w]
      BY <1>2 DEF WorkersOK
    <2> QED  BY <2>1, <2>2 DEF Moved
  <1>3. CASE Goes(d, "dns", "run")
    BY <1>3, PlainMoves
  <1> QED  BY <1>2, <1>3 DEF CheckIdns

LEMMA ScriptMoves ==
    ASSUME WorkersOK, NEW d \in Daemons, ScriptEnds(d) PROVE Moved(d)
  <1>1. daemon[d] \in Worker /\ WorkOK(daemon[d]) /\ daemon[d].script = "running"
    BY DEF ScriptEnds, WorkersOK
  <1>2. PICK end \in {"ok", "error"} : daemon' = [daemon EXCEPT ![d].script = end]
    BY DEF ScriptEnds
  <1> DEFINE w == [daemon[d] EXCEPT !.script = end]
  <1>3. WorkOK(w) /\ Moves(daemon[d], w)
    <2>1. /\ w.pc = daemon[d].pc /\ w.seq = daemon[d].seq
          /\ w.of = daemon[d].of /\ w.script = end
          /\ w.tries = daemon[d].tries /\ w.slept = daemon[d].slept
      BY <1>1 DEF Worker
    <2>2. w \in Worker
      BY <1>1 DEF Worker
    <2> HIDE DEF w
    <2> QED  BY <1>1, <2>1, <2>2 DEF WorkOK, Moves, Fetching, BeforeRun
  <1>4. daemon' = [daemon EXCEPT ![d] = w]
    BY <1>2 DEF WorkersOK
  <1> QED  BY <1>3, <1>4 DEF Moved

LEMMA DaemonMoves ==
    ASSUME FilesOK, WorkersOK, NEW d \in Daemons, Daemon(d) \/ ScriptEnds(d) PROVE Moved(d)
  <1>1. CASE DaemonParse(d)
    BY <1>1, ParseMoves
  <1>2. CASE DownloadFiles(d)
    BY <1>2, PlainMoves DEF DownloadFiles
  <1>3. CASE NoFileUris(d)
    BY <1>3, FetchedOK DEF NoFileUris, Fetching
  <1>4. CASE DownloadRenames(d)
    BY <1>4, MissedOK, PlainMoves DEF DownloadRenames, Fetching
  <1>5. CASE Download(d)
    BY <1>5, FetchedOK, MissedOK DEF Download, Fetching
  <1>6. CASE CheckIdns(d)
    BY <1>6, IdnsMoves
  <1>7. CASE RunCommand(d)
    BY <1>7, LeavesOK DEF RunCommand
  <1>8. CASE PollRunning(d)
    BY <1>8, PlainMoves DEF PollRunning
  <1>9. CASE PollRenames(d)
    BY <1>9, PlainMoves DEF PollRenames
  <1>10. CASE PollEnded(d)
    BY <1>10, PlainMoves DEF PollEnded
  <1>11. CASE PollRaises(d)
    BY <1>11, PlainMoves DEF PollRaises
  <1>12. CASE FinalWrites(d)
    BY <1>12, PlainMoves DEF FinalWrites
  <1>13. CASE FinalRenames(d)
    BY <1>13, PlainMoves DEF FinalRenames
  <1>14. CASE ScriptEnds(d)
    BY <1>14, ScriptMoves
  <1> QED
    BY <1>1, <1>2, <1>3, <1>4, <1>5, <1>6, <1>7, <1>8, <1>9, <1>10, <1>11, <1>12, <1>13, <1>14
       DEF Daemon

(***************************************************************************)
(* Types.                                                                  *)
(***************************************************************************)
LEMMA InitTypes == Init => TInv
  BY ScriptAssumption
     DEF Init, TInv, FilesOK, CommandOK, WorkersOK, WorkOK, Worker, NoDaemon, NoReport, Reports,
         CommandPc, DaemonPc, BeforeRun, Fetching, Seqs

LEMMA MovedWorkers ==
    ASSUME WorkersOK, NEW d \in Daemons, Moved(d), given' = given PROVE WorkersOK'
  <1>1. PICK r : daemon' = [daemon EXCEPT ![d] = r] /\ WorkOK(r) /\ Moves(daemon[d], r)
    BY DEF Moved
  <1>2. r \in Worker
    BY <1>1 DEF WorkOK
  <1> QED  BY <1>1, <1>2 DEF WorkersOK, Moves

LEMMA WriteOK ==
    ASSUME FilesOK, NEW n \in Seqs, NEW report \in Reports, Write(n, report)
    PROVE  temp' \in [Seqs -> Reports] /\ status' \in [Seqs -> Reports]
  BY DEF FilesOK, Write

LEMMA RenameOK ==
    ASSUME FilesOK, NEW n \in Seqs, Rename(n)
    PROVE  temp' \in [Seqs -> Reports] /\ status' \in [Seqs -> Reports]
  BY DEF FilesOK, Rename, NoReport, Reports

LEMMA KillMoves ==
    ASSUME WorkersOK, NEW d \in Daemons, KillDaemon(d) PROVE Moved(d)
  <1> DEFINE w == [daemon[d] EXCEPT !.pc = "ended"]
  <1>1. daemon[d] \in Worker /\ WorkOK(daemon[d]) /\ daemon[d].pc # "off"
    BY DEF WorkersOK, KillDaemon
  <1>2. WorkOK(w) /\ Moves(daemon[d], w)
    <2>1. /\ w.pc = "ended" /\ w.seq = daemon[d].seq
          /\ w.of = daemon[d].of /\ w.script = daemon[d].script
      BY <1>1 DEF Worker
    <2>2. w \in Worker
      BY <1>1 DEF Worker, DaemonPc
    <2>3. daemon[d].seq = 0 => daemon[d].script = "none"
      BY <1>1 DEF WorkOK
    <2> HIDE DEF w
    <2> QED  BY <1>1, <2>1, <2>2, <2>3 DEF WorkOK, Moves, Fetching, BeforeRun
  <1>3. daemon' = [daemon EXCEPT ![d] = w]
    BY DEF WorkersOK, KillDaemon
  <1> QED  BY <1>2, <1>3 DEF Moved

LEMMA HaltedOK ==
    ASSUME NEW r, WorkOK(r)
    PROVE  /\ WorkOK(Halted(r))
           /\ Halted(r).pc = IF r.pc = "off" THEN "off" ELSE "ended"
           /\ Halted(r).of = r.of /\ Halted(r).seq = r.seq
           /\ Halted(r).script = IF r.script = "running" THEN "killed" ELSE r.script
  <1>1. r \in Worker
    BY DEF WorkOK
  <1> DEFINE h == Halted(r)
  <1>2. /\ h.pc = (IF r.pc = "off" THEN "off" ELSE "ended")
        /\ h.of = r.of /\ h.seq = r.seq
        /\ h.script = (IF r.script = "running" THEN "killed" ELSE r.script)
        /\ h.tries = r.tries /\ h.left = r.left /\ h.slept = r.slept
    BY <1>1 DEF Worker, Halted
  <1>3. h \in Worker
    BY <1>1 DEF Worker, Halted, DaemonPc
  <1> HIDE DEF h
  <1>4. WorkOK(h)
    BY <1>2, <1>3 DEF WorkOK, Fetching, BeforeRun
  <1> QED  BY <1>2, <1>4 DEF h

LEMMA StartedOK ==
    ASSUME NEW n \in Seqs
    PROVE  /\ WorkOK([NoDaemon EXCEPT !.pc = "parse", !.of = n])
           /\ [NoDaemon EXCEPT !.pc = "parse", !.of = n].of = n
           /\ [NoDaemon EXCEPT !.pc = "parse", !.of = n].seq = 0
           /\ [NoDaemon EXCEPT !.pc = "parse", !.of = n].pc = "parse"
           /\ [NoDaemon EXCEPT !.pc = "parse", !.of = n].script = "none"
  <1> DEFINE w == [NoDaemon EXCEPT !.pc = "parse", !.of = n]
  <1>1. /\ w.pc = "parse" /\ w.of = n /\ w.seq = 0 /\ w.script = "none"
        /\ w.tries = 0 /\ w.left = 0 /\ w.slept = 0
    BY DEF NoDaemon
  <1>2. 0 \in 0 .. RetryCount /\ n \in 0 .. LastSeq /\ 0 \in 0 .. LastSeq
    BY NumberRange, ScriptAssumption
  <1>3. w \in Worker
    BY <1>2 DEF NoDaemon, Worker, DaemonPc
  <1> HIDE DEF w
  <1>4. WorkOK(w)
    BY <1>1, <1>3 DEF WorkOK, Fetching
  <1> QED  BY <1>1, <1>4 DEF w

LEMMA DaemonTypes ==
    ASSUME NEW d \in Daemons, TInv, Daemon(d) \/ ScriptEnds(d) PROVE TInv'
  <1>1. FilesOK /\ CommandOK /\ WorkersOK
    BY DEF TInv
  <1>2. UNCHANGED <<given, bad, mrseq, command, bounds, late, broken, disabled>>
    BY DEF Daemon, DaemonParse, DownloadFiles, NoFileUris, DownloadRenames, Download, CheckIdns,
           RunCommand, ScriptEnds, PollRunning, PollRenames, PollEnded, PollRaises, FinalWrites,
           FinalRenames, files, history
  <1>3. WorkersOK'
    BY <1>1, <1>2, DaemonMoves, MovedWorkers
  <1>4. astray' \in SUBSET Seqs
    <2>1. CASE DaemonParse(d)
      BY <1>1, <2>1, ScriptAssumption DEF DaemonParse, FilesOK, WorkersOK, WorkOK, Seqs
    <2>2. CASE ~DaemonParse(d)
      BY <1>1, <2>2
         DEF Daemon, DownloadFiles, NoFileUris, DownloadRenames, Download, CheckIdns,
             RunCommand, ScriptEnds, PollRunning, PollRenames, PollEnded, PollRaises, FinalWrites,
             FinalRenames, files, history, FilesOK
    <2> QED  BY <2>1, <2>2
  <1>5. temp' \in [Seqs -> Reports] /\ status' \in [Seqs -> Reports]
    <2>1. CASE UNCHANGED <<temp, status>>
      BY <1>1, <2>1 DEF FilesOK
    <2>2. CASE daemon[d].seq \in Seqs /\ \/ Rename(daemon[d].seq)
                                         \/ \E r \in Reports : Write(daemon[d].seq, r)
      BY <1>1, <2>2, WriteOK, RenameOK
    <2>3. daemon[d].pc \notin {"off", "parse", "ended"} => daemon[d].seq \in Seqs
      BY <1>1 DEF WorkersOK, WorkOK
    <2> QED
      BY <2>1, <2>2, <2>3
         DEF Daemon, DaemonParse, DownloadFiles, NoFileUris, DownloadRenames, Download, CheckIdns,
             RunCommand, ScriptEnds, PollRunning, PollRenames, PollEnded, PollRaises, FinalWrites,
             FinalRenames, files, Goes, Reports, Final
  <1> QED  BY <1>1, <1>2, <1>3, <1>4, <1>5 DEF TInv, FilesOK, CommandOK, bounds

LEMMA CommandTypes == TInv /\ Command => TInv'
  <1> SUFFICES ASSUME FilesOK, CommandOK, WorkersOK, Command PROVE FilesOK' /\ CommandOK' /\ WorkersOK'
    BY DEF TInv
  <1>0. given \in Seqs
    BY DEF Command, ExitIfSeqSmaller, SaveSeq, StartDaemon, Refuse, CommandWrites, CommandRenames,
           CommandOK
  <1>1. CASE ExitIfSeqSmaller \/ SaveSeq \/ Refuse
    BY <1>0, <1>1, NumberRange
       DEF ExitIfSeqSmaller, SaveSeq, Refuse, FilesOK, CommandOK, WorkersOK, CommandPc, files,
           bounds, history
  <1>2. CASE StartDaemon
    <2> DEFINE e == CHOOSE x \in Unstarted : TRUE
               w == [NoDaemon EXCEPT !.pc = "parse", !.of = given]
    <2>1. e \in Daemons /\ daemon' = [daemon EXCEPT ![e] = w]
      BY <1>2 DEF StartDaemon, Unstarted
    <2>2. WorkOK(w) /\ w.of = given
      BY <1>0, StartedOK
    <2> HIDE DEF e, w
    <2>3. WorkersOK'
      <3>1. w \in Worker
        BY <2>2 DEF WorkOK
      <3>2. daemon' \in [Daemons -> Worker]
        BY <2>1, <3>1 DEF WorkersOK
      <3>3. \A d \in Daemons : daemon'[d] = IF d = e THEN w ELSE daemon[d]
        BY <2>1 DEF WorkersOK
      <3>4. given' = given /\ given <= given
        BY <1>2, ScriptAssumption DEF StartDaemon, FilesOK
      <3> QED  BY <2>2, <3>2, <3>3, <3>4 DEF WorkersOK
    <2> QED
      BY <1>0, <1>2, <2>3 DEF StartDaemon, FilesOK, CommandOK, CommandPc, files, bounds, history
  <1>3. CASE CommandWrites
    <2>1. temp' \in [Seqs -> Reports] /\ status' \in [Seqs -> Reports]
      BY <1>0, <1>3, WriteOK DEF CommandWrites, Reports
    <2> QED
      BY <1>0, <1>3, <2>1
         DEF CommandWrites, Late, FilesOK, CommandOK, WorkersOK, CommandPc, bounds
  <1>4. CASE CommandRenames
    <2>1. temp' \in [Seqs -> Reports] /\ status' \in [Seqs -> Reports]
      BY <1>0, <1>4, RenameOK DEF CommandRenames
    <2> QED
      BY <1>0, <1>4, <2>1
         DEF CommandRenames, FilesOK, CommandOK, WorkersOK, CommandPc, bounds, history
  <1> QED  BY <1>1, <1>2, <1>3, <1>4 DEF Command

LEMMA AgentTypes == TInv /\ (Deliver \/ Rerun) => TInv'
  <1> SUFFICES ASSUME FilesOK, CommandOK, WorkersOK, Deliver \/ Rerun
               PROVE  FilesOK' /\ CommandOK' /\ WorkersOK'
    BY DEF TInv
  <1>1. CASE Deliver
    <2>1. given' \in Seqs /\ given' = given + 1 /\ given \in Int
      BY <1>1, ScriptAssumption DEF Deliver, FilesOK, Seqs
    <2>2. WorkersOK'
      <3>1. \A d \in Daemons : daemon[d].pc # "off" => daemon[d].of \in Seqs
        BY DEF WorkersOK, WorkOK
      <3> QED  BY <1>1, <2>1, <3>1, ScriptAssumption DEF Deliver, WorkersOK, Seqs
    <2> QED
      BY <1>1, <2>1, <2>2, NumberRange DEF Deliver, FilesOK, CommandOK, CommandPc, files, bounds, history
  <1>2. CASE Rerun
    BY <1>2, ScriptAssumption
       DEF Rerun, FilesOK, CommandOK, WorkersOK, CommandPc, Seqs, files, history
  <1> QED  BY <1>1, <1>2

LEMMA TornSeq == Torn => mrseq' = mrseq \/ (mrseq' = 0 /\ command = "save")
  BY DEF Torn

LEMMA FaultTypes == TInv /\ Faults => TInv'
  <1> SUFFICES ASSUME FilesOK, CommandOK, WorkersOK, Faults PROVE FilesOK' /\ CommandOK' /\ WorkersOK'
    BY DEF TInv
  <1> USE ScriptAssumption
  <1>1. CASE KillCommand
    BY <1>1, TornSeq DEF KillCommand, FilesOK, CommandOK, WorkersOK, CommandPc
  <1>2. ASSUME NEW d \in Daemons, KillDaemon(d) PROVE FilesOK' /\ CommandOK' /\ WorkersOK'
    <2>1. WorkersOK'
      BY <1>2, KillMoves, MovedWorkers DEF KillDaemon
    <2>2. daemon[d].of \in Seqs
      BY <1>2 DEF KillDaemon, WorkersOK, WorkOK
    <2> QED  BY <1>2, <2>1, <2>2 DEF KillDaemon, FilesOK, CommandOK, files
  <1>3. CASE Reboot
    <2>1. WorkersOK'
      <3>1. \A d \in Daemons : daemon'[d] = Halted(daemon[d]) /\ WorkOK(daemon[d])
        BY <1>3 DEF Reboot, WorkersOK
      <3>2. \A d \in Daemons : WorkOK(daemon'[d]) /\ daemon'[d] \in Worker
                               /\ (daemon'[d].pc # "off" => daemon'[d].of <= given)
        BY <3>1, HaltedOK DEF WorkersOK, WorkOK
      <3>3. daemon' \in [Daemons -> Worker]
        BY <1>3, <3>2 DEF Reboot
      <3> QED  BY <1>3, <3>2, <3>3 DEF Reboot, WorkersOK
    <2> QED  BY <1>3, <2>1, TornSeq DEF Reboot, FilesOK, CommandOK, CommandPc
  <1> QED  BY <1>1, <1>2, <1>3 DEF Faults

LEMMA StepTypes == TInv /\ [Next]_vars => TInv'
  <1>1. TInv /\ UNCHANGED vars => TInv'
    BY DEF vars, TInv, FilesOK, CommandOK, WorkersOK, files, bounds, history
  <1> QED  BY <1>1, AgentTypes, CommandTypes, DaemonTypes, FaultTypes DEF Next

\* Type correctness, by which the downloads and the check of the DNS together sleep
\* at most retrycount times.
THEOREM TypeCorrect == Spec => []TypeOK
  <1> QED  BY InitTypes, StepTypes, TypesHold, PTL DEF Spec

(***************************************************************************)
(* No script twice: each daemon has a number of its own, unless it was     *)
(* overtaken.                                                              *)
(***************************************************************************)
\* The number is saved before the daemon is launched, and never set back while it
\* is the agent's last one.
SavedFirst ==
    /\ command = "start" => mrseq = given
    /\ command \in {"save", "start"} => \A d \in Daemons : daemon[d].pc # "off" => daemon[d].of # given
    /\ \A d \in Daemons : daemon[d].pc # "off" /\ daemon[d].of = given => mrseq = given

OwnDaemon ==
    \A d, e \in Daemons : (d # e /\ daemon[d].pc # "off" /\ daemon[e].pc # "off")
                              => daemon[d].of # daemon[e].of

OwnNumber ==
    \A d \in Daemons : \/ daemon[d].seq = 0 \/ daemon[d].seq = daemon[d].of
                       \/ daemon[d].seq \in astray /\ daemon[d].of \in astray

OInv == SavedFirst /\ OwnDaemon /\ OwnNumber

LEMMA OnceHolds == TInv /\ OInv => RunsOnce
  <1> SUFFICES ASSUME TInv, OInv, NEW d \in Daemons, NEW e \in Daemons, d # e, Ran(d), Ran(e),
                      daemon[d].seq = daemon[e].seq
               PROVE  daemon[d].seq \in astray
    BY DEF RunsOnce
  <1>1. daemon[d].pc # "off" /\ daemon[e].pc # "off" /\ daemon[d].seq # 0
    BY DEF TInv, WorkersOK, WorkOK, Ran, BeforeRun
  <1> QED  BY <1>1 DEF OInv, OwnDaemon, OwnNumber

LEMMA InitOnce == Init => OInv
  BY DEF Init, OInv, SavedFirst, OwnDaemon, OwnNumber, NoDaemon

LEMMA MoveRecord ==
    ASSUME WorkersOK, NEW d \in Daemons, Moved(d)
    PROVE  /\ daemon[d].pc # "off" /\ daemon'[d].pc # "off" /\ daemon'[d].of = daemon[d].of
           /\ \A e \in Daemons \ {d} : daemon'[e] = daemon[e]
           /\ daemon'[d].seq = daemon[d].seq \/ (daemon[d].pc = "parse" /\ daemon[d].seq = 0)
           /\ daemon[d].script = "ok" => daemon'[d].script = "ok"
           /\ WorkOK(daemon'[d])
  <1>1. PICK r : daemon' = [daemon EXCEPT ![d] = r] /\ WorkOK(r) /\ Moves(daemon[d], r)
    BY DEF Moved
  <1>2. daemon'[d] = r /\ \A e \in Daemons \ {d} : daemon'[e] = daemon[e]
    BY <1>1 DEF WorkersOK
  <1> QED  BY <1>1, <1>2 DEF Moves

LEMMA ParseRecord ==
    ASSUME WorkersOK, NEW d \in Daemons, DaemonParse(d)
    PROVE  /\ daemon'[d].seq = given /\ astray \subseteq astray'
           /\ daemon[d].of = given \/ {daemon[d].of, given} \subseteq astray'
  BY DEF DaemonParse, WorkersOK, Worker

LEMMA DaemonQuiet ==
    ASSUME NEW d \in Daemons, Daemon(d) \/ ScriptEnds(d)
    PROVE  /\ UNCHANGED <<given, bad, mrseq, command, late, broken, disabled>>
           /\ DaemonParse(d) \/ astray' = astray
  BY DEF Daemon, DaemonParse, DownloadFiles, NoFileUris, DownloadRenames, Download, CheckIdns,
         RunCommand, ScriptEnds, PollRunning, PollRenames, PollEnded, PollRaises, FinalWrites,
         FinalRenames, files, history

LEMMA DaemonOnce ==
    ASSUME NEW d \in Daemons, TInv, OInv, Daemon(d) \/ ScriptEnds(d) PROVE OInv'
  <1>1. WorkersOK /\ Moved(d)
    BY DaemonMoves DEF TInv
  <1>2. SavedFirst'
    BY <1>1, DaemonQuiet, MoveRecord DEF OInv, SavedFirst
  <1>3. OwnDaemon'
    BY <1>1, MoveRecord DEF OInv, OwnDaemon
  <1>4. OwnNumber'
    <2>1. CASE DaemonParse(d)
      BY <1>1, <2>1, ParseRecord, MoveRecord DEF OInv, OwnNumber
    <2>2. CASE ~DaemonParse(d)
      <3>1. astray' = astray
        BY <2>2, DaemonQuiet
      <3>2. daemon'[d].seq = daemon[d].seq
        <4>1. CASE daemon[d].pc = "parse"
          BY <1>1, <2>2, <4>1
             DEF Daemon, DownloadFiles, NoFileUris, DownloadRenames, Download, CheckIdns,
                 RunCommand, ScriptEnds, PollRunning, PollRenames, PollEnded, PollRaises,
                 FinalWrites, FinalRenames, Goes, WorkersOK, WorkOK, BeforeRun
        <4>2. CASE daemon[d].pc # "parse"
          BY <1>1, <4>2, MoveRecord
        <4> QED  BY <4>1, <4>2
      <3> QED  BY <1>1, <3>1, <3>2, MoveRecord DEF OInv, OwnNumber
    <2> QED  BY <2>1, <2>2
  <1> QED  BY <1>2, <1>3, <1>4 DEF OInv

LEMMA StartRecord ==
    ASSUME WorkersOK, CommandOK, StartDaemon
    PROVE  \E e \in Daemons :
               /\ daemon[e].pc = "off" /\ daemon'[e].pc = "parse" /\ daemon'[e].of = given
               /\ daemon'[e].seq = 0 /\ daemon'[e].script = "none"
               /\ \A d \in Daemons \ {e} : daemon'[d] = daemon[d]
  <1> DEFINE e == CHOOSE x \in Unstarted : TRUE
             w == [NoDaemon EXCEPT !.pc = "parse", !.of = given]
  <1>1. e \in Daemons /\ daemon[e].pc = "off" /\ daemon' = [daemon EXCEPT ![e] = w]
    BY DEF StartDaemon, Unstarted
  <1>2. w.pc = "parse" /\ w.of = given /\ w.seq = 0 /\ w.script = "none"
    BY StartedOK DEF StartDaemon, CommandOK
  <1> HIDE DEF e, w
  <1>3. daemon'[e] = w /\ \A d \in Daemons \ {e} : daemon'[d] = daemon[d]
    BY <1>1 DEF WorkersOK
  <1> QED  BY <1>1, <1>2, <1>3

LEMMA CommandOnce == TInv /\ OInv /\ Command => OInv'
  <1> SUFFICES ASSUME TInv, OInv, Command PROVE OInv'
    OBVIOUS
  <1>0. WorkersOK /\ FilesOK /\ CommandOK
    BY DEF TInv
  <1>1. CASE StartDaemon
    <2>1. PICK e \in Daemons :
               /\ daemon[e].pc = "off" /\ daemon'[e].pc = "parse" /\ daemon'[e].of = given
               /\ daemon'[e].seq = 0 /\ daemon'[e].script = "none"
               /\ \A d \in Daemons \ {e} : daemon'[d] = daemon[d]
      BY <1>0, <1>1, StartRecord
    <2>2. UNCHANGED <<given, mrseq, astray>> /\ command = "start" /\ command' = "launched"
      BY <1>1 DEF StartDaemon, files, history
    <2>3. SavedFirst'
      BY <2>1, <2>2 DEF OInv, SavedFirst
    <2>4. OwnDaemon'
      BY <2>1, <2>2 DEF OInv, SavedFirst, OwnDaemon
    <2>5. OwnNumber'
      BY <2>1, <2>2 DEF OInv, OwnNumber
    <2> QED  BY <2>3, <2>4, <2>5 DEF OInv
  <1>2. CASE ~StartDaemon
    <2>1. UNCHANGED <<given, daemon, astray>>
      BY <1>2 DEF Command, ExitIfSeqSmaller, SaveSeq, Refuse, CommandWrites, CommandRenames, history
    <2>2. SavedFirst'
      <3>1. CASE ExitIfSeqSmaller
        <4>1. given <= given
          BY <1>0, ScriptAssumption DEF FilesOK
        <4> QED  BY <2>1, <3>1, <4>1 DEF ExitIfSeqSmaller, OInv, SavedFirst, files
      <3>2. CASE SaveSeq
        BY <2>1, <3>2 DEF SaveSeq, OInv, SavedFirst
      <3>3. CASE Refuse \/ CommandWrites \/ CommandRenames
        BY <2>1, <3>3 DEF Refuse, CommandWrites, CommandRenames, OInv, SavedFirst, files
      <3> QED  BY <1>2, <3>1, <3>2, <3>3 DEF Command
    <2> QED  BY <2>1, <2>2 DEF OInv, OwnDaemon, OwnNumber
  <1> QED  BY <1>1, <1>2

LEMMA AgentOnce == TInv /\ OInv /\ (Deliver \/ Rerun) => OInv'
  <1> SUFFICES ASSUME TInv, OInv, Deliver \/ Rerun PROVE OInv'
    OBVIOUS
  <1>0. UNCHANGED <<daemon, mrseq, astray>> /\ command' \in {"check", "disable"}
    BY DEF Deliver, Rerun, files, history
  <1>1. given' = given \/ \A d \in Daemons : daemon[d].pc # "off" => daemon[d].of # given'
    <2>1. \A d \in Daemons : daemon[d].pc # "off" => daemon[d].of <= given /\ daemon[d].of \in Int
      BY ScriptAssumption DEF TInv, WorkersOK, WorkOK, Seqs
    <2> QED  BY <2>1, ScriptAssumption DEF Deliver, Rerun, TInv, FilesOK
  <1> QED  BY <1>0, <1>1 DEF OInv, SavedFirst, OwnDaemon, OwnNumber

LEMMA HaltRecord ==
    ASSUME WorkersOK, NEW d \in Daemons, Reboot
    PROVE  /\ daemon'[d].pc = IF daemon[d].pc = "off" THEN "off" ELSE "ended"
           /\ daemon'[d].of = daemon[d].of /\ daemon'[d].seq = daemon[d].seq
           /\ daemon'[d].script = IF daemon[d].script = "running" THEN "killed" ELSE daemon[d].script
  <1>1. WorkOK(daemon[d]) /\ daemon'[d] = Halted(daemon[d])
    BY DEF Reboot, WorkersOK
  <1> QED  BY <1>1, HaltedOK

LEMMA FaultOnce == TInv /\ OInv /\ Faults => OInv'
  <1> SUFFICES ASSUME TInv, OInv, Faults PROVE OInv'
    OBVIOUS
  <1>0. WorkersOK
    BY DEF TInv
  <1>1. CASE KillCommand
    BY <1>1, TornSeq DEF KillCommand, OInv, SavedFirst, OwnDaemon, OwnNumber
  <1>2. ASSUME NEW d \in Daemons, KillDaemon(d) PROVE OInv'
    <2>1. Moved(d) /\ UNCHANGED <<given, mrseq, command, astray>>
      BY <1>0, <1>2, KillMoves DEF KillDaemon, files
    <2>2. daemon'[d].seq = daemon[d].seq
      BY <1>0, <1>2 DEF KillDaemon, WorkersOK, Worker
    <2>3. SavedFirst'
      BY <1>0, <2>1, MoveRecord DEF OInv, SavedFirst
    <2>4. OwnDaemon'
      BY <1>0, <2>1, MoveRecord DEF OInv, OwnDaemon
    <2>5. OwnNumber'
      BY <1>0, <2>1, <2>2, MoveRecord DEF OInv, OwnNumber
    <2> QED  BY <2>3, <2>4, <2>5 DEF OInv
  <1>3. CASE Reboot
    <2>1. UNCHANGED <<given, astray>> /\ command' = "idle"
          /\ (mrseq' = mrseq \/ (mrseq' = 0 /\ command = "save"))
      BY <1>3, TornSeq DEF Reboot
    <2>2. \A d \in Daemons : /\ daemon'[d].pc # "off" <=> daemon[d].pc # "off"
                             /\ daemon'[d].of = daemon[d].of /\ daemon'[d].seq = daemon[d].seq
      BY <1>0, <1>3, HaltRecord
    <2>3. SavedFirst'
      BY <2>1, <2>2 DEF OInv, SavedFirst
    <2>4. OwnDaemon'
      BY <2>2 DEF OInv, OwnDaemon
    <2>5. OwnNumber'
      BY <2>1, <2>2 DEF OInv, OwnNumber
    <2> QED  BY <2>3, <2>4, <2>5 DEF OInv
  <1> QED  BY <1>1, <1>2, <1>3 DEF Faults

LEMMA StepOnce == TInv /\ OInv /\ [Next]_vars => OInv'
  <1>1. OInv /\ UNCHANGED vars => OInv'
    BY DEF vars, OInv, SavedFirst, OwnDaemon, OwnNumber, files, history
  <1> QED  BY <1>1, AgentOnce, CommandOnce, DaemonOnce, FaultOnce DEF Next

\* Whatever is repeated or killed, two daemons run the same script only if one of
\* them was overtaken.
THEOREM ScriptsRunOnce == Spec => []RunsOnce
  <1> QED  BY InitTypes, StepTypes, InitOnce, StepOnce, OnceHolds, PTL DEF Spec

(***************************************************************************)
(* Success is that of a script or of a disable: temporary files and status *)
(* files hold a daemon's "success" only for numbers whose script returned  *)
(* 0, and dummy_command's only for numbers that were disabled.             *)
(***************************************************************************)
Succeeded == {daemon[d].seq : d \in {x \in Daemons : daemon[x].script = "ok"}}

Truth == \A n \in Seqs :
             /\ status[n] = "success" \/ temp[n] = "success" => n \in Succeeded
             /\ status[n] = "disabled" \/ temp[n] = "disabled" => n \in disabled

LEMMA TruthHolds == Truth => SuccessIsTrue
  BY DEF Truth, Succeeded, SuccessIsTrue, StatusOf

LEMMA InitTruth == Init => Truth
  BY DEF Init, Truth, NoReport

\* What a step may do to the reports on n.
LEMMA TruthKept ==
    ASSUME FilesOK, Truth, Succeeded \subseteq Succeeded', disabled \subseteq disabled',
           NEW n \in Seqs,
           \/ UNCHANGED <<status, temp>>
           \/ Rename(n)
           \/ \E r \in Reports : /\ Write(n, r) /\ (r = "success" => n \in Succeeded)
                                 /\ r = "disabled" => n \in disabled'
    PROVE  Truth'
  <1>1. CASE UNCHANGED <<status, temp>>
    BY <1>1 DEF Truth
  <1>2. CASE Rename(n)
    BY <1>2 DEF Truth, Rename, NoReport, FilesOK
  <1>3. CASE \E r \in Reports : /\ Write(n, r) /\ (r = "success" => n \in Succeeded)
                                /\ r = "disabled" => n \in disabled'
    BY <1>3 DEF Truth, Write, FilesOK
  <1> QED  BY <1>1, <1>2, <1>3

\* A daemon writes and renames nothing but the reports on its number.
LEMMA DaemonReports ==
    ASSUME WorkersOK, NEW d \in Daemons, Daemon(d) \/ ScriptEnds(d)
    PROVE  \/ UNCHANGED <<status, temp>>
           \/ /\ daemon[d].seq \in Seqs
              /\ \/ Rename(daemon[d].seq)
                 \/ \E r \in Reports : /\ Write(daemon[d].seq, r) /\ r # "disabled"
                                       /\ r = "success" => daemon[d].script = "ok"
  <1>1. daemon[d].pc \notin {"off", "parse", "ended"} => daemon[d].seq \in Seqs
    BY DEF WorkersOK, WorkOK
  <1>2. daemon[d].pc = "succeed" => daemon[d].script = "ok"
    BY DEF WorkersOK, WorkOK
  <1> QED
    BY <1>1, <1>2
       DEF Daemon, DaemonParse, DownloadFiles, NoFileUris, DownloadRenames, Download, CheckIdns,
           RunCommand, ScriptEnds, PollRunning, PollRenames, PollEnded, PollRaises, FinalWrites,
           FinalRenames, files, Goes, Reports

LEMMA MovedSucceeded ==
    ASSUME WorkersOK, NEW d \in Daemons, Moved(d) PROVE Succeeded \subseteq Succeeded'
  <1>1. daemon[d].script = "ok" => daemon[d].pc # "parse"
    BY DEF WorkersOK, WorkOK, BeforeRun
  <1> QED  BY <1>1, MoveRecord DEF Succeeded

LEMMA DisabledGrows == [Next]_vars => disabled \subseteq disabled'
  BY DEF Next, Deliver, Rerun, Command, ExitIfSeqSmaller, SaveSeq, StartDaemon, Refuse,
         CommandWrites, CommandRenames, Late, Faults, KillCommand, KillDaemon, Reboot,
         Daemon, DaemonParse, DownloadFiles, NoFileUris, DownloadRenames, Download, CheckIdns,
         RunCommand, ScriptEnds, PollRunning, PollRenames, PollEnded, PollRaises, FinalWrites,
         FinalRenames, files, history, vars

LEMMA StepTruth == TInv /\ Truth /\ [Next]_vars => Truth'
  <1> SUFFICES ASSUME FilesOK, CommandOK, WorkersOK, Truth, [Next]_vars PROVE Truth'
    BY DEF TInv
  <1>0. disabled \subseteq disabled'
    BY DisabledGrows
  <1>1. CASE UNCHANGED <<status, temp>> /\ Succeeded \subseteq Succeeded'
    BY <1>0, <1>1 DEF Truth
  <1>2. CASE Deliver \/ Rerun \/ KillCommand \/ UNCHANGED vars
    <2>1. UNCHANGED <<status, temp, daemon>>
      BY <1>2 DEF Deliver, Rerun, KillCommand, vars, files
    <2> QED  BY <1>1, <2>1 DEF Succeeded
  <1>3. CASE Command
    <2>1. Succeeded \subseteq Succeeded'
      <3>1. CASE StartDaemon
        BY <3>1, StartRecord DEF Succeeded, WorkersOK, WorkOK, BeforeRun
      <3>2. CASE ~StartDaemon
        BY <1>3, <3>2 DEF Command, ExitIfSeqSmaller, SaveSeq, Refuse, CommandWrites, CommandRenames,
                          Succeeded
      <3> QED  BY <3>1, <3>2
    <2>2. UNCHANGED <<status, temp>> \/ CommandWrites \/ CommandRenames
      BY <1>3 DEF Command, ExitIfSeqSmaller, SaveSeq, StartDaemon, Refuse, files
    <2>3. given \in Seqs
      BY <1>3 DEF Command, ExitIfSeqSmaller, SaveSeq, StartDaemon, Refuse, CommandWrites,
                  CommandRenames, CommandOK
    <2> QED
      BY <1>0, <1>1, <2>1, <2>2, <2>3, TruthKept DEF CommandWrites, CommandRenames, Reports
  <1>4. ASSUME NEW d \in Daemons, Daemon(d) \/ ScriptEnds(d) PROVE Truth'
    <2>1. Succeeded \subseteq Succeeded'
      BY <1>4, DaemonMoves, MovedSucceeded
    <2>2. daemon[d].script = "ok" => daemon[d].seq \in Succeeded
      BY DEF Succeeded
    <2> QED  BY <1>0, <1>1, <1>4, <2>1, <2>2, DaemonReports, TruthKept
  <1>5. ASSUME NEW d \in Daemons, KillDaemon(d) PROVE Truth'
    BY <1>1, <1>5, KillMoves, MovedSucceeded DEF KillDaemon, files
  <1>6. CASE Reboot
    <2>1. Succeeded' = Succeeded
      BY <1>6, HaltRecord DEF Succeeded
    <2> QED  BY <1>1, <1>6, <2>1 DEF Reboot
  <1> QED  BY <1>2, <1>3, <1>4, <1>5, <1>6 DEF Next, Faults

\* A status of success is a script's that returned 0, or a disable's: never that of a
\* daemon whose script failed, whoever shares the temporary file.
THEOREM SuccessIsReal == Spec => []SuccessIsTrue
  <1> QED  BY InitTypes, StepTypes, InitTruth, StepTruth, TruthHolds, PTL DEF Spec

(***************************************************************************)
(* The status settles, unless something known came between.                *)
(***************************************************************************)
Disturbed == astray \cup late \cup broken
Launched  == {daemon[d].of : d \in {x \in Daemons : daemon[x].pc # "off"}}
Finals    == {n \in Seqs : Final(status[n])}

\* Whoever renames the next report, it is a final one.
Settled == {n \in Seqs : Final(temp[n]) \/ (temp[n] = NoReport /\ Final(status[n]))}

\* The last report is written, and then it, or one that replaced it, is in place.
DaemonSettles ==
    \A d \in Daemons :
        /\ daemon[d].pc = "lastrename" => daemon[d].of \in Settled \cup Disturbed
        /\ daemon[d].pc = "ended" =>
               \/ daemon[d].of \in Disturbed
               \/ daemon[d].of \in Settled \cap Finals /\ daemon[d].seq = daemon[d].of

\* A number without a daemon is under way, or was refused.
RefusalSettles ==
    \A n \in Seqs : n <= given =>
        \/ n \in Launched \cup Disturbed
        \/ n = given /\ command = "check" /\ mrseq < given
        \/ n = given /\ command \in {"save", "start", "refused"}
        \/ /\ n \in Settled
           /\ n \in Finals \/ (n = given /\ command = "rename")
           /\ n = given => command # "launched"

UInv == mrseq <= given /\ DaemonSettles /\ RefusalSettles

LEMMA SettlesHold == TInv /\ UInv => StatusSettles
  <1> SUFFICES ASSUME TInv, UInv, NEW n \in Seqs, Through(n), n \notin Disturbed
               PROVE  n \in Finals
    BY DEF StatusSettles, Disturbed, Finals
  <1>1. n <= given
    BY ScriptAssumption DEF Through, TInv, FilesOK, Seqs
  <1>2. CASE n \in Launched
    BY <1>2 DEF Launched, Through, UInv, DaemonSettles
  <1>3. CASE n \notin Launched
    BY <1>1, <1>3, ScriptAssumption DEF Through, UInv, RefusalSettles, TInv, FilesOK, Seqs
  <1> QED  BY <1>2, <1>3

LEMMA InitSettles == Init => UInv
  BY ScriptAssumption DEF Init, UInv, DaemonSettles, RefusalSettles, NoDaemon, Seqs

\* Reports on other numbers than n do not matter to n.
LEMMA OtherReports ==
    ASSUME FilesOK, NEW m \in Seqs,
           Rename(m) \/ \E r \in Reports : Write(m, r)
    PROVE  \A n \in Seqs \ {m} : status'[n] = status[n] /\ temp'[n] = temp[n]
  BY DEF Rename, Write, FilesOK

LEMMA SameReports ==
    ASSUME NEW n \in Seqs, status'[n] = status[n], temp'[n] = temp[n]
    PROVE  (n \in Finals' <=> n \in Finals) /\ (n \in Settled' <=> n \in Settled)
  BY DEF Finals, Settled

LEMMA NoReportYet == ~Final(NoReport) /\ ~Final("progress") /\ ~Final("launching")
  BY DEF Final, StatusOf, NoReport

LEMMA RenamedFinal ==
    ASSUME FilesOK, NEW m \in Seqs, Rename(m), m \in Settled
    PROVE  m \in Finals' /\ m \in Settled'
  <1>1. temp'[m] = NoReport
    BY DEF Rename, FilesOK
  <1>2. Final(status'[m])
    BY NoReportYet DEF Rename, CanRename, FilesOK, Settled
  <1> QED  BY <1>1, <1>2 DEF Finals, Settled

LEMMA WrittenFinal ==
    ASSUME FilesOK, NEW m \in Seqs, NEW r \in {"success", "failed", "disabled"}, Write(m, r)
    PROVE  m \in Settled' /\ (m \in Finals' <=> m \in Finals)
  <1>1. temp'[m] = r /\ status' = status
    BY DEF Write, FilesOK
  <1>2. Final(r)
    BY DEF Final, StatusOf
  <1> QED  BY <1>1, <1>2 DEF Finals, Settled

LEMMA InterferenceGrows ==
    [Next]_vars => Disturbed \subseteq Disturbed' /\ Excused \subseteq Excused'
  BY DEF Next, Deliver, Rerun, Command, ExitIfSeqSmaller, SaveSeq, StartDaemon, Refuse,
         CommandWrites, CommandRenames, Late, Faults, KillCommand, KillDaemon, Reboot,
         Daemon, DaemonParse, DownloadFiles, NoFileUris, DownloadRenames, Download, CheckIdns,
         RunCommand, ScriptEnds, PollRunning, PollRenames, PollEnded, PollRaises, FinalWrites,
         FinalRenames, files, history, vars, Disturbed, Excused

\* Two daemons report on one number only if one of them was overtaken.
LEMMA OneReporter ==
    ASSUME TInv, OInv, NEW d \in Daemons, NEW e \in Daemons, d # e,
           daemon[d].pc # "off", daemon[e].pc # "off", daemon[e].seq \in Seqs,
           daemon[e].seq = daemon[d].of
    PROVE  daemon[d].of \in astray
  BY NumberRange DEF OInv, OwnDaemon, OwnNumber

\* A daemon that was not overtaken works for its own number.
LEMMA OwnSeq ==
    ASSUME TInv, OInv, NEW d \in Daemons, daemon[d].of \notin astray, daemon[d].seq \in Seqs
    PROVE  daemon[d].seq = daemon[d].of
  BY NumberRange DEF OInv, OwnNumber

LEMMA DaemonUnsettled ==
    ASSUME NEW d \in Daemons, TInv, OInv, UInv, Daemon(d) \/ ScriptEnds(d),
           daemon[d].of \notin Disturbed'
    PROVE  /\ daemon'[d].pc = "lastrename" => daemon[d].of \in Settled'
           /\ daemon'[d].pc = "ended" => /\ daemon[d].of \in Settled' \cap Finals'
                                         /\ daemon'[d].seq = daemon[d].of
  <1>0. /\ FilesOK /\ WorkersOK /\ Moved(d)
        /\ daemon[d].of \notin Disturbed /\ daemon[d].of \notin astray
    BY DaemonMoves, InterferenceGrows DEF TInv, Next, Disturbed
  <1>1. CASE FinalWrites(d)
    <2>1. daemon[d].seq \in Seqs /\ daemon[d].seq = daemon[d].of
      BY <1>0, <1>1, OwnSeq DEF FinalWrites, Goes, WorkersOK, WorkOK
    <2>2. daemon'[d].pc = "lastrename"
      BY <1>0, <1>1 DEF FinalWrites, Goes, WorkersOK, Worker
    <2>3. daemon[d].of \in Settled'
      BY <1>0, <1>1, <2>1, WrittenFinal DEF FinalWrites
    <2> QED  BY <2>2, <2>3
  <1>2. CASE FinalRenames(d)
    <2>1. daemon[d].seq \in Seqs /\ daemon[d].seq = daemon[d].of /\ daemon[d].pc = "lastrename"
      BY <1>0, <1>2, OwnSeq DEF FinalRenames, Goes, WorkersOK, WorkOK
    <2>2. daemon'[d].pc = "ended" /\ daemon'[d].seq = daemon[d].seq
      BY <1>0, <1>2 DEF FinalRenames, Goes, WorkersOK, Worker
    <2>3. daemon[d].of \in Settled' \cap Finals'
      BY <1>0, <1>2, <2>1, RenamedFinal DEF FinalRenames, UInv, DaemonSettles
    <2> QED  BY <2>1, <2>2, <2>3
  <1>3. CASE ScriptEnds(d)
    <2>1. UNCHANGED <<status, temp>>
      BY <1>3 DEF ScriptEnds, files
    <2>2. daemon'[d].pc = daemon[d].pc /\ daemon'[d].seq = daemon[d].seq
      BY <1>0, <1>3 DEF ScriptEnds, WorkersOK, Worker
    <2>3. Settled' = Settled /\ Finals' = Finals
      BY <2>1 DEF Settled, Finals
    <2> QED  BY <1>0, <2>2, <2>3 DEF UInv, DaemonSettles
  <1>4. CASE ~FinalWrites(d) /\ ~FinalRenames(d) /\ ~ScriptEnds(d)
    <2>1. daemon'[d].pc \notin {"lastrename", "ended"}
      BY <1>0, <1>4
         DEF Daemon, DaemonParse, DownloadFiles, NoFileUris, DownloadRenames, Download, CheckIdns,
             RunCommand, PollRunning, PollRenames, PollEnded, PollRaises, Goes, Fetched, Missed,
             Leaves, WorkersOK, Worker
    <2> QED  BY <2>1
  <1> QED  BY <1>1, <1>2, <1>3, <1>4

LEMMA MovedLaunched ==
    ASSUME WorkersOK, NEW d \in Daemons, Moved(d) PROVE Launched' = Launched
  BY MoveRecord DEF Launched

LEMMA DaemonSettled ==
    ASSUME NEW d \in Daemons, TInv, OInv, UInv, Daemon(d) \/ ScriptEnds(d) PROVE UInv'
  <1>0. /\ FilesOK /\ WorkersOK /\ Moved(d) /\ Launched' = Launched /\ Disturbed \subseteq Disturbed'
        /\ UNCHANGED <<given, mrseq, command, bad>>
    BY DaemonMoves, MovedLaunched, InterferenceGrows, DaemonQuiet DEF TInv, Next
  <1>1. daemon[d].pc # "off" /\ daemon[d].of \in Launched
    BY <1>0, MoveRecord DEF Launched
  <1>2. \A n \in Seqs : n = daemon[d].seq \/ ((n \in Finals' <=> n \in Finals)
                                              /\ (n \in Settled' <=> n \in Settled))
    <2>1. CASE UNCHANGED <<status, temp>>
      BY <2>1 DEF Finals, Settled
    <2>2. CASE daemon[d].seq \in Seqs /\ \/ Rename(daemon[d].seq)
                                         \/ \E r \in Reports : Write(daemon[d].seq, r)
      BY <1>0, <2>2, OtherReports, SameReports
    <2> QED  BY <1>0, <2>1, <2>2, DaemonReports
  <1>3. DaemonSettles'
    <2>1. \A e \in Daemons \ {d} : daemon'[e] = daemon[e]
      BY <1>0, MoveRecord
    <2>2. ASSUME NEW e \in Daemons \ {d}, daemon[e].pc # "off", daemon[e].of \notin Disturbed'
          PROVE  daemon[e].of \in Seqs /\ daemon[e].of # daemon[d].seq
      <3>1. daemon[e].of \in Seqs
        BY <1>0, <2>2 DEF WorkersOK, WorkOK
      <3>2. daemon[e].of \notin astray
        BY <1>0, <2>2 DEF Disturbed
      <3> QED  BY <1>1, <2>2, <3>1, <3>2, OneReporter
    <2>3. \A e \in Daemons \ {d} :
              /\ daemon'[e].pc = "lastrename" => daemon'[e].of \in Settled' \cup Disturbed'
              /\ daemon'[e].pc = "ended" =>
                     \/ daemon'[e].of \in Disturbed'
                     \/ daemon'[e].of \in Settled' \cap Finals' /\ daemon'[e].seq = daemon'[e].of
      BY <1>0, <1>2, <2>1, <2>2 DEF UInv, DaemonSettles
    <2>4. daemon'[d].of = daemon[d].of
      BY <1>0, MoveRecord
    <2> QED  BY <2>3, <2>4, DaemonUnsettled DEF DaemonSettles
  <1>4. RefusalSettles'
    <2>1. ASSUME NEW n \in Seqs, n \notin Launched \cup Disturbed
          PROVE  n # daemon[d].seq
      BY <1>1, <2>1, NumberRange DEF OInv, OwnNumber, Disturbed
    <2> QED  BY <1>0, <1>2, <2>1 DEF UInv, RefusalSettles
  <1> QED  BY <1>0, <1>3, <1>4 DEF UInv

\* A command's report on a number that is settled keeps it so, or comes late.
LEMMA CommandReports ==
    ASSUME TInv, CommandWrites \/ CommandRenames, given \in Settled,
           command # "launched" \/ ~CommandWrites
    PROVE  /\ given \in Settled' /\ (given \in Finals => given \in Finals')
           /\ CommandRenames => given \in Finals'
  <1>1. FilesOK /\ given \in Seqs
    BY DEF TInv, Settled
  <1>2. CASE CommandWrites
    <2>1. \E r \in {"success", "failed", "disabled"} : Write(given, r)
      BY <1>2 DEF CommandWrites
    <2>2. ~CommandRenames
      BY <1>2 DEF CommandWrites, CommandRenames
    <2> QED  BY <1>1, <2>1, <2>2, WrittenFinal
  <1>3. CASE CommandRenames
    BY <1>1, <1>3, RenamedFinal DEF CommandRenames
  <1> QED  BY <1>2, <1>3

\* A daemon that is through, or has only its last report to rename, is disturbed by
\* the report of enable.
LEMMA CommandDisturbs ==
    ASSUME TInv, OInv, UInv, CommandWrites, command = "launched", NEW d \in Daemons,
           daemon[d].pc \in {"lastrename", "ended"}, daemon[d].of = given
    PROVE  daemon[d].of \in Disturbed'
  <1>1. CASE daemon[d].of \in Disturbed
    BY <1>1, InterferenceGrows DEF Next, Command
  <1>2. CASE daemon[d].of \notin Disturbed
    <2>1. daemon[d].seq = daemon[d].of
      BY <1>2, OwnSeq DEF TInv, WorkersOK, WorkOK, UInv, DaemonSettles, Disturbed
    <2> QED  BY <2>1 DEF CommandWrites, Late, Disturbed
  <1> QED  BY <1>1, <1>2

LEMMA CommandSettled == TInv /\ OInv /\ UInv /\ Command => UInv'
  <1> SUFFICES ASSUME TInv, OInv, UInv, Command PROVE UInv'
    OBVIOUS
  <1>0. /\ FilesOK /\ WorkersOK /\ CommandOK /\ given \in Seqs /\ given \in Int /\ mrseq \in Int
        /\ Disturbed \subseteq Disturbed'
    BY ScriptAssumption, InterferenceGrows
       DEF TInv, Command, ExitIfSeqSmaller, SaveSeq, StartDaemon, Refuse, CommandWrites,
           CommandRenames, CommandOK, FilesOK, Next, Seqs
  <1>1. CASE StartDaemon
    <2>1. UNCHANGED <<given, bad, mrseq, status, temp, astray, late, broken>>
          /\ command = "start"
      BY <1>1 DEF StartDaemon, files, history
    <2>2. PICK e \in Daemons :
               /\ daemon[e].pc = "off" /\ daemon'[e].pc = "parse" /\ daemon'[e].of = given
               /\ daemon'[e].seq = 0 /\ daemon'[e].script = "none"
               /\ \A d \in Daemons \ {e} : daemon'[d] = daemon[d]
      BY <1>0, <1>1, StartRecord
    <2>3. Launched \subseteq Launched' /\ given \in Launched'
      BY <2>2 DEF Launched
    <2>4. Finals' = Finals /\ Settled' = Settled /\ Disturbed' = Disturbed
      BY <2>1 DEF Finals, Settled, Disturbed
    <2>5. DaemonSettles'
      BY <2>2, <2>4 DEF UInv, DaemonSettles
    <2>6. RefusalSettles'
      BY <2>1, <2>3, <2>4 DEF UInv, RefusalSettles
    <2> QED  BY <2>1, <2>5, <2>6 DEF UInv
  <1>2. CASE ExitIfSeqSmaller \/ SaveSeq \/ Refuse
    <2>1. UNCHANGED <<given, bad, status, temp, daemon, astray, late, broken>>
      BY <1>2 DEF ExitIfSeqSmaller, SaveSeq, Refuse, files, history
    <2>2. /\ Finals' = Finals /\ Settled' = Settled /\ Disturbed' = Disturbed
          /\ Launched' = Launched
      BY <2>1 DEF Finals, Settled, Disturbed, Launched
    <2>3. DaemonSettles'
      BY <2>1, <2>2 DEF UInv, DaemonSettles
    <2>4. mrseq' <= given
      BY <1>0, <1>2 DEF ExitIfSeqSmaller, SaveSeq, Refuse, files, UInv
    <2>5. RefusalSettles'
      <3>1. CASE ExitIfSeqSmaller
        BY <1>0, <2>1, <2>2, <3>1 DEF ExitIfSeqSmaller, UInv, RefusalSettles
      <3>2. CASE SaveSeq
        BY <1>0, <2>1, <2>2, <3>2 DEF SaveSeq, UInv, RefusalSettles
      <3>3. CASE Refuse
        BY <1>0, <2>1, <2>2, <3>3 DEF Refuse, UInv, RefusalSettles
      <3> QED  BY <1>2, <3>1, <3>2, <3>3
    <2> QED  BY <2>1, <2>3, <2>4, <2>5 DEF UInv
  <1>3. CASE CommandWrites \/ CommandRenames
    <2>1. UNCHANGED <<given, bad, mrseq, daemon>>
      BY <1>3 DEF CommandWrites, CommandRenames
    <2>2. Launched' = Launched
      BY <2>1 DEF Launched
    <2>3. \A n \in Seqs \ {given} : (n \in Finals' <=> n \in Finals) /\ (n \in Settled' <=> n \in Settled)
      BY <1>0, <1>3, OtherReports, SameReports DEF CommandWrites, CommandRenames, Reports
    <2>4. DaemonSettles'
      <3>1. \A d \in Daemons : daemon[d].pc # "off" => daemon[d].of \in Seqs
        BY <1>0 DEF WorkersOK, WorkOK
      <3>2. CASE command = "launched" /\ CommandWrites
        BY <1>0, <2>1, <2>3, <3>1, <3>2, CommandDisturbs DEF UInv, DaemonSettles
      <3>3. CASE ~(command = "launched" /\ CommandWrites)
        BY <1>0, <1>3, <2>1, <2>3, <3>1, <3>3, CommandReports DEF UInv, DaemonSettles
      <3> QED  BY <3>2, <3>3
    <2>5. ASSUME given \notin Launched \cup Disturbed'
          PROVE  /\ given \in Settled'
                 /\ given \in Finals' \/ command' = "rename"
                 /\ command' # "launched"
      <3>1. /\ command # "launched"
            /\ command = "refused" \/ given \in Settled
            /\ command = "disable" => given \in Finals
        BY <1>0, <1>3, <2>5 DEF UInv, RefusalSettles, CommandWrites, CommandRenames
      <3>2. CASE CommandWrites
        <4>1. \E r \in {"success", "failed", "disabled"} : Write(given, r)
          BY <3>1, <3>2 DEF CommandWrites
        <4> QED  BY <1>0, <3>2, <4>1, WrittenFinal DEF CommandWrites
      <3>3. CASE CommandRenames
        BY <3>1, <3>3, CommandReports DEF CommandRenames
      <3> QED  BY <1>3, <3>2, <3>3
    <2>6. RefusalSettles'
      BY <1>0, <2>1, <2>2, <2>3, <2>5, <1>3
         DEF UInv, RefusalSettles, CommandWrites, CommandRenames
    <2> QED  BY <2>1, <2>4, <2>6 DEF UInv
  <1> QED  BY <1>1, <1>2, <1>3 DEF Command

LEMMA AgentSettled == TInv /\ UInv /\ (Deliver \/ Rerun) => UInv'
  <1> SUFFICES ASSUME TInv, UInv, Deliver \/ Rerun PROVE UInv'
    OBVIOUS
  <1>1. /\ UNCHANGED <<mrseq, status, temp, daemon, astray, late, broken>>
        /\ command = "idle" /\ command' \in {"check", "disable"}
        /\ given' = given \/ (given' = given + 1 /\ command' = "check")
    BY DEF Deliver, Rerun, files, history
  <1>2. /\ Finals' = Finals /\ Settled' = Settled /\ Disturbed' = Disturbed
        /\ Launched' = Launched
    BY <1>1 DEF Finals, Settled, Disturbed, Launched
  <1>3. DaemonSettles'
    BY <1>1, <1>2 DEF UInv, DaemonSettles
  <1>4. given \in Int /\ mrseq \in Int
    BY ScriptAssumption DEF TInv, FilesOK
  <1>5. RefusalSettles'
    <2>1. \A n \in Seqs : n \in Int
      BY DEF Seqs
    <2> QED  BY <1>1, <1>2, <1>4, <2>1 DEF UInv, RefusalSettles
  <1> QED  BY <1>1, <1>3, <1>4, <1>5 DEF UInv

LEMMA FaultSettled == TInv /\ UInv /\ Faults => UInv'
  <1> SUFFICES ASSUME TInv, UInv, Faults PROVE UInv'
    OBVIOUS
  <1>0. /\ FilesOK /\ WorkersOK /\ given \in Int /\ mrseq \in Int /\ 0 <= given
        /\ Disturbed \subseteq Disturbed'
    BY ScriptAssumption, InterferenceGrows DEF TInv, FilesOK, Next
  <1>1. UNCHANGED <<given, bad, status, temp>>
    BY DEF Faults, KillCommand, KillDaemon, Reboot, files
  <1>2. Finals' = Finals /\ Settled' = Settled
    BY <1>1 DEF Finals, Settled
  <1>3. CASE KillCommand
    <2>1. mrseq' <= given
      BY <1>0, <1>3, TornSeq DEF KillCommand, UInv
    <2>2. daemon' = daemon /\ given \in Disturbed' /\ Launched' = Launched
      BY <1>3 DEF KillCommand, Disturbed, Launched
    <2>3. DaemonSettles'
      BY <1>0, <1>2, <2>2 DEF UInv, DaemonSettles
    <2>4. RefusalSettles'
      BY <1>0, <1>1, <1>2, <2>2 DEF UInv, RefusalSettles
    <2> QED  BY <1>1, <2>1, <2>3, <2>4 DEF UInv
  <1>4. ASSUME NEW d \in Daemons, KillDaemon(d) PROVE UInv'
    <2>1. Moved(d) /\ UNCHANGED <<mrseq, command>> /\ daemon[d].of \in Disturbed'
      BY <1>0, <1>4, KillMoves DEF KillDaemon, files, Disturbed
    <2>2. DaemonSettles'
      BY <1>0, <1>2, <2>1, MoveRecord DEF UInv, DaemonSettles
    <2>3. RefusalSettles'
      BY <1>0, <1>1, <1>2, <2>1, MovedLaunched DEF UInv, RefusalSettles
    <2> QED  BY <1>1, <2>1, <2>2, <2>3 DEF UInv
  <1>5. CASE Reboot
    <2>1. mrseq' <= given /\ command' = "idle"
      BY <1>0, <1>5, TornSeq DEF Reboot, UInv
    <2>2. \A d \in Daemons :
              /\ daemon'[d].pc = IF daemon[d].pc = "off" THEN "off" ELSE "ended"
              /\ daemon'[d].of = daemon[d].of /\ daemon'[d].seq = daemon[d].seq
      BY <1>0, <1>5, HaltRecord
    <2>3. Launched' = Launched
      BY <2>2 DEF Launched
    <2>4. \A d \in Daemons : daemon[d].pc \notin {"off", "ended"} => daemon[d].of \in Disturbed'
      BY <1>0, <1>5 DEF Reboot, Disturbed, WorkersOK, WorkOK
    <2>5. DaemonSettles'
      BY <1>0, <1>2, <2>2, <2>4 DEF UInv, DaemonSettles
    <2>6. given \in Seqs /\ command # "idle" => given \in Disturbed'
      BY <1>5 DEF Reboot, Disturbed
    <2>7. RefusalSettles'
      BY <1>0, <1>1, <1>2, <2>1, <2>3, <2>6 DEF UInv, RefusalSettles
    <2> QED  BY <1>1, <2>1, <2>5, <2>7 DEF UInv
  <1> QED  BY <1>3, <1>4, <1>5 DEF Faults

LEMMA StepSettles == TInv /\ OInv /\ UInv /\ [Next]_vars => UInv'
  <1>1. UInv /\ UNCHANGED vars => UInv'
    BY DEF vars, files, history, UInv, DaemonSettles, RefusalSettles, Disturbed, Launched, Finals,
           Settled
  <1> QED  BY <1>1, AgentSettled, CommandSettled, DaemonSettled, FaultSettled DEF Next

\* A command and its daemon that are through leave a final status, unless one of them
\* was killed, the daemon was overtaken, or enable reported after the daemon's last
\* report.
THEOREM StatusIsFinal == Spec => []StatusSettles
  <1> QED
    BY InitTypes, StepTypes, InitOnce, StepOnce, InitSettles, StepSettles, SettlesHold, PTL DEF Spec

(***************************************************************************)
(* The ledger: who has left a final report, so that nobody may report or   *)
(* begin after it.                                                         *)
(***************************************************************************)
Drafts == {n \in Seqs : Final(temp[n])}

\* The daemon of n has written its last report.
Closed(n) == \E d \in Daemons : /\ daemon[d].pc \in {"lastrename", "ended"}
                                /\ daemon[d].seq = n /\ daemon[d].of = n

Closing(n) == \E d \in Daemons : /\ daemon[d].pc = "lastrename"
                                 /\ daemon[d].seq = n /\ daemon[d].of = n

\* A number that was refused has no daemon and will have none.
Hopeless(n) == n \in bad \ Launched /\ n <= given

Refused(n) == /\ Hopeless(n)
              /\ n = given => mrseq = given /\ command \in {"idle", "check", "disable"}

Refusing(n) == Hopeless(n) /\ n = given /\ mrseq = given /\ command = "rename"

VInv ==
    /\ command = "refused" => mrseq = given /\ Hopeless(given)
    /\ \A n \in Finals \ Excused : temp[n] = NoReport /\ (Closed(n) \/ Refused(n))
    /\ \A n \in Drafts \ Excused : Closing(n) \/ Refusing(n)

LEMMA InitLedgerInv == Init => VInv
  <1> SUFFICES ASSUME Init PROVE VInv
    OBVIOUS
  <1>1. Finals = {} /\ Drafts = {} /\ command # "refused"
    BY NoReportYet DEF Init, Finals, Drafts
  <1> QED  BY <1>1 DEF VInv

\* One number at a time: a step that leaves the reports on n, and n's daemons, alone.
LEMMA OthersStay ==
    ASSUME NEW n \in Seqs, status'[n] = status[n], temp'[n] = temp[n],
           UNCHANGED <<given, bad, mrseq, command>>, Launched' = Launched,
           \A d \in Daemons : daemon[d].seq = n => daemon'[d] = daemon[d]
    PROVE  /\ n \in Finals' => n \in Finals
           /\ n \in Drafts' => n \in Drafts
           /\ Closed(n) \/ Refused(n) => (Closed(n) \/ Refused(n))'
           /\ Closing(n) \/ Refusing(n) => (Closing(n) \/ Refusing(n))'
  <1>1. Closed(n) => Closed(n)'
    BY DEF Closed
  <1>2. Closing(n) => Closing(n)'
    BY DEF Closing
  <1>3. Refused(n) => Refused(n)'
    BY DEF Refused, Hopeless
  <1>4. Refusing(n) => Refusing(n)'
    BY DEF Refusing, Hopeless
  <1>5. (n \in Finals' => n \in Finals) /\ (n \in Drafts' => n \in Drafts)
    BY DEF Finals, Drafts
  <1> QED  BY <1>1, <1>2, <1>3, <1>4, <1>5

\* What a report does to one number.
LEMMA RenameEffect ==
    ASSUME FilesOK, NEW n \in Seqs, Rename(n)
    PROVE  /\ temp'[n] = NoReport /\ n \notin Drafts'
           /\ n \in Finals' => n \in Drafts \/ (temp[n] = NoReport /\ n \in Finals)
  <1>1. temp'[n] = NoReport
    BY DEF Rename, FilesOK
  <1>2. status'[n] = IF temp[n] = NoReport THEN status[n] ELSE temp[n]
    BY DEF Rename, CanRename, FilesOK
  <1> QED  BY <1>1, <1>2, NoReportYet DEF Finals, Drafts

LEMMA WriteEffect ==
    ASSUME FilesOK, NEW n \in Seqs, NEW r, Write(n, r)
    PROVE  (n \in Finals' <=> n \in Finals) /\ (n \in Drafts' <=> Final(r))
  BY DEF Write, FilesOK, Finals, Drafts

\* The daemon that reports on n is alone with it, or n is excused.
LEMMA OwnWitness ==
    ASSUME TInv, OInv, NEW d \in Daemons, NEW n \in Seqs \ Excused,
           daemon[d].pc # "off", daemon[d].seq = n
    PROVE  /\ daemon[d].of = n /\ n \in Launched
           /\ \A e \in Daemons : (daemon[e].pc # "off" /\ daemon[e].of = n) => e = d
           /\ \A e \in Daemons : (daemon[e].pc # "off" /\ daemon[e].seq = n) => e = d
  <1>1. daemon[d].of = n
    BY NumberRange DEF OInv, OwnNumber, Excused
  <1>2. n \in Launched
    BY <1>1 DEF Launched
  <1>3. \A e \in Daemons : (daemon[e].pc # "off" /\ daemon[e].of = n) => e = d
    BY <1>1 DEF OInv, OwnDaemon
  <1>4. \A e \in Daemons : (daemon[e].pc # "off" /\ daemon[e].seq = n) => daemon[e].of = n
    <2> SUFFICES ASSUME NEW e \in Daemons, daemon[e].pc # "off", daemon[e].seq = n
                 PROVE  daemon[e].of = n
      OBVIOUS
    <2>1. daemon[e].seq # 0 /\ daemon[e].seq \notin astray
      BY NumberRange DEF Excused
    <2> QED  BY <2>1 DEF OInv, OwnNumber
  <1> QED  BY <1>1, <1>2, <1>3, <1>4

\* A daemon's own reports.
LEMMA OwnReports ==
    ASSUME NEW d \in Daemons, TInv, OInv, UInv, VInv, Daemon(d) \/ ScriptEnds(d),
           NEW n \in Seqs \ Excused', daemon[d].seq = n
    PROVE  /\ n \in Finals' => temp'[n] = NoReport /\ Closed(n)'
           /\ n \in Drafts' => Closing(n)'
  <1>0. /\ FilesOK /\ WorkersOK /\ Moved(d) /\ n \notin Excused
        /\ daemon[d].pc # "off" /\ daemon[d] \in Worker
    <2>1. FilesOK /\ WorkersOK /\ Moved(d)
      BY DaemonMoves DEF TInv
    <2>2. n \notin Excused
      BY InterferenceGrows DEF Next
    <2>3. daemon[d].pc # "off"
      BY <2>1, MoveRecord
    <2> QED  BY <2>1, <2>2, <2>3 DEF WorkersOK
  <1>1. /\ daemon[d].of = n /\ n \in Launched
        /\ \A e \in Daemons : (daemon[e].pc # "off" /\ daemon[e].of = n) => e = d
    BY <1>0, OwnWitness
  <1>2. ~Hopeless(n)
    BY <1>1 DEF Hopeless
  <1>3. n \in Finals => daemon[d].pc \in {"lastrename", "ended"} /\ temp[n] = NoReport
    BY <1>0, <1>1, <1>2 DEF VInv, Closed, Refused
  <1>4. n \in Drafts => daemon[d].pc = "lastrename"
    BY <1>0, <1>1, <1>2 DEF VInv, Closing, Refusing
  <1>5. /\ daemon'[d].of = n
        /\ daemon'[d].seq = daemon[d].seq
    <2>1. daemon[d].seq # 0
      BY NumberRange
    <2> QED  BY <1>0, <1>1, <2>1, MoveRecord
  <1>6. CASE FinalWrites(d)
    <2>1. daemon'[d].pc = "lastrename"
      BY <1>0, <1>6 DEF FinalWrites, Goes, WorkersOK, Worker
    <2>2. Closing(n)'
      BY <1>5, <2>1 DEF Closing
    <2>3. n \notin Finals
      BY <1>3, <1>6 DEF FinalWrites, Goes
    <2>4. n \notin Finals'
      BY <1>6, <2>3 DEF FinalWrites, Write, Finals
    <2> QED  BY <2>2, <2>4
  <1>7. CASE FinalRenames(d)
    <2>1. daemon'[d].pc = "ended"
      BY <1>0, <1>7 DEF FinalRenames, Goes, WorkersOK, WorkOK, Worker
    <2>2. Closed(n)'
      BY <1>5, <2>1 DEF Closed
    <2>3. temp'[n] = NoReport /\ n \notin Drafts'
      BY <1>0, <1>7, RenameEffect DEF FinalRenames
    <2> QED  BY <2>2, <2>3
  <1>8. CASE ScriptEnds(d)
    <2>1. UNCHANGED <<status, temp>>
      BY <1>8 DEF ScriptEnds, files
    <2>2. daemon'[d].pc = daemon[d].pc
      BY <1>0, <1>8 DEF ScriptEnds, WorkersOK, Worker
    <2>3. n \in Finals' => n \in Finals /\ temp'[n] = temp[n]
      BY <2>1 DEF Finals
    <2>4. n \in Drafts' => n \in Drafts
      BY <2>1 DEF Drafts
    <2> QED  BY <1>3, <1>4, <1>5, <2>2, <2>3, <2>4 DEF Closed, Closing
  <1>9. CASE ~FinalWrites(d) /\ ~FinalRenames(d) /\ ~ScriptEnds(d)
    <2>1. daemon[d].pc \notin {"ended", "lastrename"}
      BY <1>9
         DEF Daemon, DaemonParse, DownloadFiles, NoFileUris, DownloadRenames, Download, CheckIdns,
             RunCommand, PollRunning, PollRenames, PollEnded, PollRaises, Goes
    <2>2. n \notin Finals /\ n \notin Drafts
      BY <1>3, <1>4, <2>1
    <2>3. \/ UNCHANGED <<status, temp>>
          \/ Rename(n)
          \/ Write(n, "progress")
      BY <1>9
         DEF Daemon, DaemonParse, DownloadFiles, NoFileUris, DownloadRenames, Download, CheckIdns,
             RunCommand, PollRunning, PollRenames, PollEnded, PollRaises, files
    <2>4. n \notin Finals' /\ n \notin Drafts'
      <3>1. CASE UNCHANGED <<status, temp>>
        BY <2>2, <3>1 DEF Finals, Drafts
      <3>2. CASE Rename(n)
        BY <1>0, <2>2, <3>2, RenameEffect
      <3>3. CASE Write(n, "progress")
        BY <1>0, <2>2, <3>3, WriteEffect, NoReportYet
      <3> QED  BY <2>3, <3>1, <3>2, <3>3
    <2> QED  BY <2>4
  <1> QED  BY <1>6, <1>7, <1>8, <1>9

LEMMA DaemonLedger ==
    ASSUME NEW d \in Daemons, TInv, OInv, UInv, VInv, Daemon(d) \/ ScriptEnds(d) PROVE VInv'
  <1>0. /\ FilesOK /\ WorkersOK /\ Moved(d) /\ Launched' = Launched /\ Excused \subseteq Excused'
        /\ UNCHANGED <<given, mrseq, command, bad>>
    BY DaemonMoves, MovedLaunched, InterferenceGrows, DaemonQuiet DEF TInv, Next
  <1>1. ASSUME NEW n \in Seqs \ Excused', daemon[d].seq # n
        PROVE  /\ n \in Finals' => temp'[n] = NoReport /\ (Closed(n) \/ Refused(n))'
               /\ n \in Drafts' => (Closing(n) \/ Refusing(n))'
    <2>1. status'[n] = status[n] /\ temp'[n] = temp[n]
      <3>1. CASE UNCHANGED <<status, temp>>
        BY <3>1
      <3>2. CASE daemon[d].seq \in Seqs /\ \/ Rename(daemon[d].seq)
                                           \/ \E r \in Reports : Write(daemon[d].seq, r)
        BY <1>0, <1>1, <3>2, OtherReports
      <3> QED  BY <1>0, <3>1, <3>2, DaemonReports
    <2>2. \A e \in Daemons : daemon[e].seq = n => daemon'[e] = daemon[e]
      BY <1>0, <1>1, MoveRecord
    <2>3. /\ n \in Finals => temp[n] = NoReport /\ (Closed(n) \/ Refused(n))
          /\ n \in Drafts => Closing(n) \/ Refusing(n)
      BY <1>0 DEF VInv
    <2> QED  BY <1>0, <2>1, <2>2, <2>3, OthersStay
  <1>2. ASSUME NEW n \in Seqs \ Excused', daemon[d].seq = n
        PROVE  /\ n \in Finals' => temp'[n] = NoReport /\ (Closed(n) \/ Refused(n))'
               /\ n \in Drafts' => (Closing(n) \/ Refusing(n))'
    BY <1>2, OwnReports
  <1>3. (command = "refused" => mrseq = given /\ Hopeless(given))'
    BY <1>0 DEF VInv, Hopeless
  <1>4. \A n \in Finals' \ Excused' : temp'[n] = NoReport /\ (Closed(n) \/ Refused(n))'
    BY <1>1, <1>2 DEF Finals
  <1>5. \A n \in Drafts' \ Excused' : (Closing(n) \/ Refusing(n))'
    BY <1>1, <1>2 DEF Drafts
  <1> QED  BY <1>3, <1>4, <1>5 DEF VInv

LEMMA CommandLedger == TInv /\ OInv /\ UInv /\ VInv /\ Command => VInv'
  <1> SUFFICES ASSUME TInv, OInv, UInv, VInv, Command PROVE VInv'
    OBVIOUS
  <1>0. /\ FilesOK /\ WorkersOK /\ CommandOK /\ given \in Seqs /\ Excused \subseteq Excused'
        /\ given \in Int /\ mrseq \in Int
    BY ScriptAssumption, InterferenceGrows
       DEF TInv, Command, ExitIfSeqSmaller, SaveSeq, StartDaemon, Refuse, CommandWrites,
           CommandRenames, CommandOK, FilesOK, Next, Seqs
  <1>1. CASE StartDaemon
    <2>1. UNCHANGED <<given, bad, mrseq, status, temp, astray, late, broken, disabled>>
          /\ command = "start" /\ command' = "launched" /\ given \notin bad
      BY <1>1 DEF StartDaemon, files, history
    <2>2. PICK e \in Daemons :
               /\ daemon[e].pc = "off" /\ daemon'[e].pc = "parse" /\ daemon'[e].of = given
               /\ daemon'[e].seq = 0 /\ daemon'[e].script = "none"
               /\ \A d \in Daemons \ {e} : daemon'[d] = daemon[d]
      BY <1>0, <1>1, StartRecord
    <2>3. Finals' = Finals /\ Drafts' = Drafts /\ Excused' = Excused
      BY <2>1 DEF Finals, Drafts, Excused
    <2>4. Launched' \subseteq Launched \cup {given}
      BY <2>2 DEF Launched
    <2>5. \A n \in Seqs : (Closed(n) => Closed(n)') /\ (Closing(n) => Closing(n)')
      BY <2>2 DEF Closed, Closing
    <2>6. \A n \in Seqs : (Refused(n) => Refused(n)') /\ ~Refusing(n)
      BY <2>1, <2>4 DEF Refused, Refusing, Hopeless
    <2> QED  BY <2>1, <2>3, <2>5, <2>6 DEF VInv, Finals, Drafts
  <1>2. CASE ExitIfSeqSmaller \/ SaveSeq \/ Refuse
    <2>1. UNCHANGED <<given, bad, status, temp, daemon, astray, late, broken, disabled>>
      BY <1>2 DEF ExitIfSeqSmaller, SaveSeq, Refuse, files, history
    <2>2. Finals' = Finals /\ Drafts' = Drafts /\ Excused' = Excused /\ Launched' = Launched
      BY <2>1 DEF Finals, Drafts, Excused, Launched
    <2>3. \A n \in Seqs : (Closed(n) => Closed(n)') /\ (Closing(n) => Closing(n)')
      BY <2>1 DEF Closed, Closing
    <2>4. \A n \in Seqs : (Refused(n) => Refused(n)') /\ ~Refusing(n)
      <3>1. CASE ExitIfSeqSmaller
        BY <1>0, <2>1, <2>2, <3>1 DEF ExitIfSeqSmaller, Refused, Refusing, Hopeless, files
      <3>2. CASE SaveSeq
        BY <1>0, <2>1, <2>2, <3>2 DEF SaveSeq, Refused, Refusing, Hopeless
      <3>3. CASE Refuse
        BY <1>0, <2>1, <2>2, <3>3 DEF Refuse, Refused, Refusing, Hopeless, files
      <3> QED  BY <1>2, <3>1, <3>2, <3>3
    <2>5. (command = "refused" => mrseq = given /\ Hopeless(given))'
      <3>1. CASE Refuse
        <4>1. mrseq' = given /\ given \in bad /\ given \notin Launched
          BY <3>1 DEF Refuse, files, OInv, SavedFirst, Launched
        <4> QED  BY <1>0, <2>1, <2>2, <4>1 DEF Hopeless
      <3>2. CASE ExitIfSeqSmaller \/ SaveSeq
        BY <3>2 DEF ExitIfSeqSmaller, SaveSeq
      <3> QED  BY <1>2, <3>1, <3>2
    <2> QED  BY <2>1, <2>2, <2>3, <2>4, <2>5 DEF VInv, Finals, Drafts
  <1>3. CASE CommandWrites \/ CommandRenames
    <2>1. UNCHANGED <<given, bad, mrseq, daemon>> /\ command' \in {"rename", "idle"}
      BY <1>3 DEF CommandWrites, CommandRenames
    <2>2. Launched' = Launched
      BY <2>1 DEF Launched
    <2>3. \A n \in Seqs : (Closed(n) => Closed(n)') /\ (Closing(n) => Closing(n)')
      BY <2>1 DEF Closed, Closing
    <2>4. \A n \in Seqs \ {given} : status'[n] = status[n] /\ temp'[n] = temp[n]
      BY <1>0, <1>3, OtherReports DEF CommandWrites, CommandRenames, Reports
    <2>5. \A n \in Seqs \ {given} : (Refused(n) => Refused(n)') /\ ~Refusing(n)
      BY <2>1, <2>2 DEF Refused, Refusing, Hopeless
    <2>6. ASSUME NEW n \in Seqs \ Excused', n # given
          PROVE  /\ n \in Finals' => temp'[n] = NoReport /\ (Closed(n) \/ Refused(n))'
                 /\ n \in Drafts' => (Closing(n) \/ Refusing(n))'
      <3>1. /\ n \in Finals' => n \in Finals
            /\ n \in Drafts' => n \in Drafts
            /\ temp'[n] = temp[n]
        BY <2>4, <2>6 DEF Finals, Drafts
      <3> QED  BY <1>0, <2>3, <2>5, <2>6, <3>1 DEF VInv
    <2>7. ASSUME given \notin Excused'
          PROVE  /\ given \in Finals' => temp'[given] = NoReport /\ (Closed(given) \/ Refused(given))'
                 /\ given \in Drafts' => Refusing(given)' \/ Closing(given)'
      <3>1. /\ given \in Finals => temp[given] = NoReport /\ (Closed(given) \/ Refused(given))
            /\ given \in Drafts => Closing(given) \/ Refusing(given)
        BY <1>0, <2>7 DEF VInv
      <3>2. CASE CommandWrites /\ command = "launched"
        <4>1. given \notin Finals
          BY <2>7, <3>1, <3>2 DEF CommandWrites, Late, Closed, Refused, Excused
        <4>2. Write(given, "launching")
          BY <3>2 DEF CommandWrites
        <4> QED  BY <1>0, <4>1, <4>2, WriteEffect, NoReportYet
      <3>3. CASE CommandWrites /\ command = "refused"
        <4>1. Hopeless(given) /\ mrseq = given
          BY <3>3 DEF VInv
        <4>2. ~Closed(given)
          BY <4>1 DEF Closed, Hopeless, Launched
        <4>3. given \notin Finals
          BY <3>1, <3>3, <4>2 DEF Refused
        <4>4. Write(given, "failed") /\ command' = "rename"
          BY <3>3 DEF CommandWrites
        <4>5. given \notin Finals'
          BY <1>0, <4>3, <4>4, WriteEffect
        <4>6. Refusing(given)'
          BY <2>1, <2>2, <4>1, <4>4 DEF Refusing, Hopeless
        <4> QED  BY <4>5, <4>6
      <3>4. CASE CommandWrites /\ command = "disable"
        BY <2>7, <3>4 DEF CommandWrites, Excused
      <3>5. CASE CommandRenames
        <4>1. ~Refused(given) /\ command' = "idle"
          BY <3>5 DEF CommandRenames, Refused
        <4>2. /\ temp'[given] = NoReport /\ given \notin Drafts'
              /\ given \in Finals' => given \in Drafts \/ given \in Finals
          BY <1>0, <3>5, RenameEffect DEF CommandRenames
        <4>3. Closing(given) => Closed(given)'
          BY <2>1 DEF Closing, Closed
        <4>4. Refusing(given) => Refused(given)'
          BY <2>1, <2>2, <4>1 DEF Refusing, Refused, Hopeless
        <4> QED  BY <1>0, <2>1, <2>3, <3>1, <4>1, <4>2, <4>3, <4>4
      <3> QED  BY <1>3, <3>2, <3>3, <3>4, <3>5 DEF CommandWrites
    <2>8. command' # "refused"
      BY <2>1
    <2> QED
      BY <1>0, <2>1, <2>6, <2>7, <2>8 DEF VInv, Finals, Drafts
  <1> QED  BY <1>1, <1>2, <1>3 DEF Command

LEMMA AgentLedger == TInv /\ VInv /\ (Deliver \/ Rerun) => VInv'
  <1> SUFFICES ASSUME TInv, VInv, Deliver \/ Rerun PROVE VInv'
    OBVIOUS
  <1>1. /\ UNCHANGED <<mrseq, status, temp, daemon, astray, late, broken, disabled>> /\ bad \subseteq bad'
        /\ command = "idle" /\ command' \in {"check", "disable"}
        /\ given' = given \/ given' = given + 1
    BY DEF Deliver, Rerun, files, history
  <1>2. Finals' = Finals /\ Drafts' = Drafts /\ Excused' = Excused /\ Launched' = Launched
    BY <1>1 DEF Finals, Drafts, Excused, Launched
  <1>3. \A n \in Seqs : (Closed(n) => Closed(n)') /\ (Closing(n) => Closing(n)')
    BY <1>1 DEF Closed, Closing
  <1>4. given \in Int /\ \A n \in Seqs : n \in Int
    BY ScriptAssumption DEF TInv, FilesOK, Seqs
  <1>5. \A n \in Seqs : (Refused(n) => Refused(n)') /\ ~Refusing(n)
    BY <1>1, <1>2, <1>4 DEF Refused, Refusing, Hopeless
  <1> QED  BY <1>1, <1>2, <1>3, <1>5 DEF VInv, Finals, Drafts

LEMMA FaultLedger == TInv /\ VInv /\ Faults => VInv'
  <1> SUFFICES ASSUME TInv, VInv, Faults PROVE VInv'
    OBVIOUS
  <1>0. /\ FilesOK /\ WorkersOK /\ Excused \subseteq Excused'
    BY InterferenceGrows DEF TInv, Next
  <1>1. UNCHANGED <<given, bad, status, temp>>
    BY DEF Faults, KillCommand, KillDaemon, Reboot, files
  <1>2. Finals' = Finals /\ Drafts' = Drafts
    BY <1>1 DEF Finals, Drafts
  <1>3. CASE KillCommand
    <2>1. /\ daemon' = daemon /\ given \in Excused' /\ command' = "idle"
      BY <1>3 DEF KillCommand, Excused
    <2>2. Launched' = Launched
      BY <2>1 DEF Launched
    <2>3. \A n \in Seqs : (Closed(n) => Closed(n)') /\ (Closing(n) => Closing(n)')
      BY <2>1 DEF Closed, Closing
    <2>4. \A n \in Seqs \ {given} : (Refused(n) => Refused(n)') /\ ~Refusing(n)
      BY <1>1, <2>2 DEF Refused, Refusing, Hopeless
    <2> QED  BY <1>0, <1>1, <1>2, <2>1, <2>3, <2>4 DEF VInv, Finals, Drafts
  <1>4. ASSUME NEW d \in Daemons, KillDaemon(d) PROVE VInv'
    <2>1. /\ Moved(d) /\ UNCHANGED <<mrseq, command>> /\ daemon[d].of \in Excused'
          /\ daemon[d].pc # "ended"
      BY <1>0, <1>4, KillMoves DEF KillDaemon, files, Excused
    <2>2. Launched' = Launched /\ \A e \in Daemons \ {d} : daemon'[e] = daemon[e]
      BY <1>0, <2>1, MovedLaunched, MoveRecord
    <2>3. \A n \in Seqs \ Excused' : (Closed(n) => Closed(n)') /\ (Closing(n) => Closing(n)')
      BY <2>1, <2>2 DEF Closed, Closing
    <2>4. \A n \in Seqs : (Refused(n) => Refused(n)') /\ (Refusing(n) => Refusing(n)')
      BY <1>1, <2>1, <2>2 DEF Refused, Refusing, Hopeless
    <2>5. (command = "refused" => mrseq = given /\ Hopeless(given))'
      BY <1>1, <2>1, <2>2 DEF VInv, Hopeless
    <2> QED  BY <1>0, <1>1, <1>2, <2>3, <2>4, <2>5 DEF VInv, Finals, Drafts
  <1>5. CASE Reboot
    <2>1. command' = "idle" /\ (mrseq' = mrseq \/ command = "save")
      BY <1>5, TornSeq DEF Reboot
    <2>2. \A d \in Daemons :
              /\ daemon'[d].pc = IF daemon[d].pc = "off" THEN "off" ELSE "ended"
              /\ daemon'[d].of = daemon[d].of /\ daemon'[d].seq = daemon[d].seq
         BY <1>0, <1>5, HaltRecord
    <2>3. Launched' = Launched
      BY <2>2 DEF Launched
    <2>4. \A n \in Seqs \ Excused' : (Closed(n) => Closed(n)') /\ ~Closing(n)
      <3>1. \A d \in Daemons : daemon[d].pc \notin {"off", "ended"} => daemon[d].of \in Excused'
        BY <1>0, <1>5 DEF Reboot, Excused, WorkersOK, WorkOK
      <3>2. \A n \in Seqs \ Excused' : ~Closing(n)
        BY <3>1 DEF Closing
      <3>3. \A n \in Seqs \ Excused' : Closed(n) => Closed(n)'
        BY <2>2, <3>1 DEF Closed
      <3> QED  BY <3>2, <3>3
    <2>5. \A n \in Seqs \ Excused' : (Refused(n) => Refused(n)') /\ ~Refusing(n)
      <3>1. given \in Seqs /\ command # "idle" => given \in Excused'
        BY <1>5 DEF Reboot, Excused
      <3> QED  BY <1>1, <2>1, <2>3, <3>1 DEF Refused, Refusing, Hopeless
    <2> QED  BY <1>0, <1>1, <1>2, <2>1, <2>4, <2>5 DEF VInv, Finals, Drafts
  <1> QED  BY <1>3, <1>4, <1>5 DEF Faults

LEMMA StepLedgerInv == TInv /\ OInv /\ UInv /\ VInv /\ [Next]_vars => VInv'
  <1>1. VInv /\ UNCHANGED vars => VInv'
    BY DEF vars, files, history, VInv, Closed, Closing, Refused, Refusing, Hopeless,
           Excused, Launched, Finals, Drafts
  <1> QED  BY <1>1, AgentLedger, CommandLedger, DaemonLedger, FaultLedger DEF Next

(***************************************************************************)
(* Every step of CustomScript is a step of the ledger, or none.            *)
(***************************************************************************)
\* A report on n, by whomever: if there was a final one, n is excused.
LEMMA RenameTells ==
    ASSUME FilesOK, Truth', Succeeded' = Succeeded, NEW n \in Seqs, Rename(n),
           UNCHANGED <<given, history>>, Order' = Order, Script' = Script,
           n \in Excused \/ n \notin Finals
    PROVE  Ledger!Tell(n)
  <1>1. n \in Excused \/ Verdict[n] = "open"
    BY DEF Verdict, Finals
  <1>2. \E v \in {"open", "success", "failed"} :
            /\ v = "success" => \/ n \in disabled
                                \/ \E w \in Daemons : Order[w] = n /\ Script[w] = "ok"
            /\ Verdict' = [Verdict EXCEPT ![n] = v]
    <2> DEFINE v == IF Final(status'[n]) THEN StatusOf(status'[n]) ELSE "open"
    <2>1. Verdict' = [Verdict EXCEPT ![n] = v]
      BY DEF Verdict, Rename, FilesOK
    <2>2. v \in {"open", "success", "failed"}
      BY DEF Final
    <2>3. ASSUME v = "success", n \notin disabled
          PROVE  \E w \in Daemons : Order[w] = n /\ Script[w] = "ok"
      <3>1. status'[n] \in {"success", "disabled"}
        BY <2>3 DEF StatusOf, Final
      <3>2. n \in Succeeded
        BY <2>3, <3>1 DEF Truth, history
      <3>3. PICK w \in Daemons : daemon[w].script = "ok" /\ daemon[w].seq = n
        BY <3>2 DEF Succeeded
      <3> QED  BY <3>3 DEF Order, Script, Ran
    <2> HIDE DEF v
    <2> QED  BY <2>1, <2>2, <2>3
  <1>3. Excused' = Excused
    BY DEF Excused, history
  <1> QED  BY <1>1, <1>2, <1>3 DEF Ledger!Tell, Ledger!interference, history

\* Once the final report is in place there is nothing to be renamed.
LEMMA RenameIsSilent ==
    ASSUME FilesOK, VInv, NEW n \in Seqs, Rename(n), n \in Finals, n \notin Excused
    PROVE  Verdict' = Verdict
  <1>1. temp[n] = NoReport
    BY DEF VInv
  <1> QED  BY <1>1 DEF Rename, CanRename, Verdict

\* Steps that leave the workers and the final reports alone.
LEMMA QuietLedger ==
    ASSUME UNCHANGED <<given, history>>, Verdict' = Verdict, Order' = Order, Script' = Script
    PROVE  UNCHANGED Ledger!ledger
  <1>1. Excused' = Excused /\ astray' = astray /\ disabled' = disabled
    BY DEF Excused, history
  <1> QED  BY <1>1 DEF Ledger!ledger, Ledger!interference

LEMMA ExcuseLedger ==
    ASSUME TInv', given' = given, Verdict' = Verdict, Order' = Order, Script' = Script,
           astray \subseteq astray', disabled \subseteq disabled', Excused \subseteq Excused'
    PROVE  Ledger!Disturb({})
  <1>1. Script' = [w \in Daemons |-> IF w \in {} THEN "killed" ELSE Script[w]]
    BY DEF Script
  <1>2. Excused \cup astray' \cup disabled' \subseteq Excused' /\ Excused' \subseteq Seqs
    BY DEF Excused, TInv, FilesOK
  <1> QED  BY <1>1, <1>2 DEF Ledger!Disturb

LEMMA DisturbIsNext == ASSUME NEW S \in SUBSET Daemons, Ledger!Disturb(S) PROVE Ledger!Next
  BY DEF Ledger!Next
LEMMA TellIsNext == ASSUME NEW n \in Seqs, Ledger!Tell(n) PROVE Ledger!Next
  BY DEF Ledger!Next

\* Nobody works for a number that has not been given.
Informed == \A d \in Daemons : daemon[d].seq <= given

LEMMA InitInformed == Init => Informed
  BY ScriptAssumption DEF Init, Informed, NoDaemon

LEMMA StepInformed == TInv /\ Informed /\ [Next]_vars => Informed'
  <1> SUFFICES ASSUME FilesOK, CommandOK, WorkersOK, Informed, [Next]_vars PROVE Informed'
    BY DEF TInv
  <1>0. given \in Int /\ given <= given /\ 0 <= given
    BY ScriptAssumption DEF FilesOK
  <1>1. CASE Deliver
    <2>1. \A d \in Daemons : daemon[d].seq \in Int
      BY ScriptAssumption DEF WorkersOK, Worker
    <2>2. given' = given + 1 /\ daemon' = daemon
      BY <1>1 DEF Deliver
    <2> QED  BY <1>0, <2>1, <2>2 DEF Informed
  <1>2. CASE StartDaemon
    BY <1>0, <1>2, StartRecord DEF Informed, StartDaemon
  <1>3. ASSUME NEW d \in Daemons, Daemon(d) \/ ScriptEnds(d) PROVE Informed'
    <2>1. Moved(d) /\ given' = given
      BY <1>3, DaemonMoves, DaemonQuiet
    <2>2. PICK r : daemon' = [daemon EXCEPT ![d] = r] /\ Moves(daemon[d], r)
      BY <2>1 DEF Moved
    <2>3. daemon'[d].seq = daemon[d].seq \/ daemon'[d].seq = given
      BY <2>2 DEF Moves, WorkersOK
    <2> QED  BY <1>0, <2>1, <2>3, MoveRecord DEF Informed
  <1>4. ASSUME NEW d \in Daemons, KillDaemon(d) PROVE Informed'
    BY <1>4 DEF KillDaemon, Informed, WorkersOK, Worker
  <1>5. CASE Reboot
    <2>1. given' = given
      BY <1>5 DEF Reboot
    <2> QED  BY <1>5, <2>1, HaltRecord DEF Informed
  <1>6. CASE UNCHANGED <<given, daemon>>
    BY <1>6 DEF Informed
  <1> QED
    BY <1>1, <1>2, <1>3, <1>4, <1>5, <1>6
       DEF Next, Rerun, Command, ExitIfSeqSmaller, SaveSeq, Refuse, CommandWrites, CommandRenames,
           Faults, KillCommand, vars

LEMMA SameWorkers ==
    ASSUME WorkersOK, \A d \in Daemons : /\ daemon'[d].script = daemon[d].script
                                         /\ daemon[d].script # "none" => daemon'[d].seq = daemon[d].seq
    PROVE  Order' = Order /\ Script' = Script
  BY DEF Order, Script, Ran

LEMMA AgentKeepsLedger == TInv /\ (Deliver \/ Rerun) => [Ledger!Next]_(Ledger!ledger)
  <1> SUFFICES ASSUME TInv, Deliver \/ Rerun PROVE [Ledger!Next]_(Ledger!ledger)
    OBVIOUS
  <1>1. UNCHANGED <<status, daemon, history>>
    BY DEF Deliver, Rerun, files
  <1>2. /\ Verdict' = Verdict /\ Order' = Order /\ Script' = Script
    BY <1>1 DEF Verdict, Order, Script, Ran
  <1>3. CASE Deliver
    <2>1. given + 1 \in Seqs /\ given' = given + 1
      BY <1>3, ScriptAssumption DEF Deliver, TInv, FilesOK, Seqs
    <2>2. Ledger!Ask
      BY <1>1, <1>2, <2>1 DEF Ledger!Ask, Ledger!interference, Excused, history
    <2> QED  BY <2>2 DEF Ledger!Next
  <1>4. CASE Rerun
    <2>1. given' = given
      BY <1>4 DEF Rerun
    <2> QED  BY <1>1, <1>2, <2>1, QuietLedger
  <1> QED  BY <1>3, <1>4

LEMMA CommandKeepsLedger ==
    ASSUME TInv, TInv', Truth', VInv, Command PROVE [Ledger!Next]_(Ledger!ledger)
  <1>0. /\ FilesOK /\ WorkersOK /\ CommandOK /\ given \in Seqs /\ Excused \subseteq Excused'
        /\ disabled \subseteq disabled'
    BY InterferenceGrows, DisabledGrows
       DEF TInv, Command, ExitIfSeqSmaller, SaveSeq, StartDaemon, Refuse, CommandWrites,
           CommandRenames, CommandOK, Next
  <1>1. CASE StartDaemon
    <2>1. UNCHANGED <<given, status, history>>
      BY <1>1 DEF StartDaemon, files
    <2>2. \A d \in Daemons : /\ daemon'[d].script = daemon[d].script
                             /\ daemon[d].script # "none" => daemon'[d].seq = daemon[d].seq
      <3>1. PICK e \in Daemons :
                 /\ daemon[e].pc = "off" /\ daemon'[e].script = "none"
                 /\ \A d \in Daemons \ {e} : daemon'[d] = daemon[d]
        BY <1>0, <1>1, StartRecord
      <3>2. daemon[e].script = "none"
        BY <1>0, <3>1 DEF WorkersOK, WorkOK, BeforeRun
      <3> QED  BY <3>1, <3>2
    <2>3. Order' = Order /\ Script' = Script
      BY <1>0, <2>2, SameWorkers
    <2>4. Verdict' = Verdict
      BY <2>1 DEF Verdict
    <2> QED  BY <2>1, <2>3, <2>4, QuietLedger
  <1>2. CASE ExitIfSeqSmaller \/ SaveSeq \/ Refuse
    <2>1. UNCHANGED <<given, status, daemon, history>>
      BY <1>2 DEF ExitIfSeqSmaller, SaveSeq, Refuse, files
    <2>2. /\ Verdict' = Verdict /\ Order' = Order /\ Script' = Script
      BY <2>1 DEF Verdict, Order, Script, Ran
    <2> QED  BY <2>1, <2>2, QuietLedger
  <1>3. CASE CommandWrites
    <2>1. UNCHANGED <<given, daemon, status, astray>>
      BY <1>3 DEF CommandWrites, Write
    <2>2. /\ Verdict' = Verdict /\ Order' = Order /\ Script' = Script
      BY <2>1 DEF Verdict, Order, Script, Ran
    <2>3. Ledger!Disturb({})
      BY <1>0, <2>1, <2>2, ExcuseLedger
    <2> QED  BY <2>3, DisturbIsNext
  <1>4. CASE CommandRenames
    <2>1. UNCHANGED <<given, daemon, history>> /\ Rename(given)
      BY <1>4 DEF CommandRenames
    <2>2. Order' = Order /\ Script' = Script /\ Succeeded' = Succeeded
      BY <2>1 DEF Order, Script, Ran, Succeeded
    <2>3. CASE given \in Excused \/ given \notin Finals
      <3>1. Ledger!Tell(given)
        BY <1>0, <2>1, <2>2, <2>3, RenameTells
      <3> QED  BY <1>0, <3>1, TellIsNext
    <2>4. CASE given \notin Excused /\ given \in Finals
      BY <1>0, <2>1, <2>2, <2>4, RenameIsSilent, QuietLedger
    <2> QED  BY <2>3, <2>4
  <1> QED  BY <1>1, <1>2, <1>3, <1>4 DEF Command

\* A script begins.
LEMMA RunBegins ==
    ASSUME NEW d \in Daemons, TInv, OInv, VInv, Informed, RunCommand(d),
           Leaves(d, "poll", "running")
    PROVE  Ledger!Begin(d)
  <1>0. /\ FilesOK /\ WorkersOK /\ daemon[d].pc = "run" /\ daemon[d].seq \in Seqs
        /\ daemon[d].script = "none" /\ daemon[d] \in Worker
        /\ UNCHANGED <<given, status, history>>
    BY DEF RunCommand, TInv, WorkersOK, WorkOK, BeforeRun, files
  <1> DEFINE n == daemon[d].seq
  <1>1. /\ daemon'[d].script = "running" /\ daemon'[d].seq = n /\ daemon'[d].pc = "poll"
        /\ \A e \in Daemons \ {d} : daemon'[e] = daemon[e]
    BY <1>0 DEF Leaves, WorkersOK, Worker
  <1>2. Script[d] = "none" /\ Script' = [Script EXCEPT ![d] = "running"]
    BY <1>0, <1>1 DEF Script
  <1>3. Order' = [Order EXCEPT ![d] = n]
    BY <1>0, <1>1 DEF Order, Ran
  <1>4. n <= given
    BY DEF Informed
  <1>5. n \in astray \/ \A v \in Daemons \ {d} : Order[v] # n
    <2> SUFFICES ASSUME NEW v \in Daemons \ {d}, Order[v] = n PROVE n \in astray
      OBVIOUS
    <2>1. daemon[v].pc # "off" /\ daemon[v].seq = n /\ n # 0
      BY <1>0, NumberRange DEF Order, Ran, WorkersOK, WorkOK, BeforeRun
    <2> QED  BY <1>0, <2>1 DEF OInv, OwnDaemon, OwnNumber
  <1>6. n \in Excused \/ Verdict[n] = "open"
    <2> SUFFICES ASSUME n \notin Excused, n \in Finals PROVE FALSE
      BY <1>0 DEF Verdict, Finals
    <2>1. n \in Launched /\ \A e \in Daemons : (daemon[e].pc # "off" /\ daemon[e].of = n) => e = d
      BY <1>0, OwnWitness
    <2> QED  BY <1>0, <2>1 DEF VInv, Closed, Refused, Hopeless
  <1>7. UNCHANGED <<given, astray, disabled>> /\ Verdict' = Verdict /\ Excused' = Excused
    BY <1>0 DEF Verdict, Excused, history
  <1> QED  BY <1>0, <1>2, <1>3, <1>4, <1>5, <1>6, <1>7 DEF Ledger!Begin, Ledger!interference

\* Most steps of a daemon are none of its script.
LEMMA DaemonSteps ==
    ASSUME WorkersOK, NEW d \in Daemons, Daemon(d)
    PROVE  \/ RunCommand(d) /\ Leaves(d, "poll", "running")
           \/ \A e \in Daemons : /\ daemon'[e].script = daemon[e].script
                                 /\ daemon[e].script # "none" => daemon'[e].seq = daemon[e].seq
  <1>1. /\ daemon[d] \in Worker
        /\ daemon[d].pc \in BeforeRun => daemon[d].script = "none"
    BY DEF WorkersOK, WorkOK
  <1>2. ASSUME ~(RunCommand(d) /\ Leaves(d, "poll", "running"))
        PROVE  \A e \in Daemons : /\ daemon'[e].script = daemon[e].script
                                  /\ daemon[e].script # "none" => daemon'[e].seq = daemon[e].seq
    <2>1. CASE DaemonParse(d)
      BY <1>1, <2>1 DEF DaemonParse, WorkersOK, Worker, BeforeRun
    <2>2. CASE RunCommand(d)
      BY <1>1, <1>2, <2>2 DEF RunCommand, Leaves, WorkersOK, Worker, BeforeRun
    <2>3. CASE NoFileUris(d) \/ Download(d) \/ DownloadRenames(d)
      BY <1>1, <2>3
         DEF NoFileUris, Download, DownloadRenames, Goes, Fetched, Missed, Leaves, WorkersOK, Worker,
             BeforeRun, Fetching
    <2>4. CASE DownloadFiles(d) \/ PollRunning(d) \/ FinalWrites(d)
      BY <2>4 DEF DownloadFiles, PollRunning, FinalWrites, Goes, WorkersOK, Worker
    <2>5. CASE CheckIdns(d)
      BY <2>5 DEF CheckIdns, Goes, WorkersOK, Worker
    <2>6. CASE PollRenames(d) \/ PollEnded(d) \/ PollRaises(d) \/ FinalRenames(d)
      BY <2>6 DEF PollRenames, PollEnded, PollRaises, FinalRenames, Goes, WorkersOK, Worker
    <2> QED  BY <1>2, <2>1, <2>2, <2>3, <2>4, <2>5, <2>6 DEF Daemon
  <1> QED  BY <1>2

LEMMA DaemonKeepsLedger ==
    ASSUME NEW d \in Daemons, TInv, TInv', OInv, VInv, Truth', Informed, Daemon(d)
    PROVE  [Ledger!Next]_(Ledger!ledger)
  <1>0. FilesOK /\ WorkersOK /\ UNCHANGED <<given, late, broken, disabled>>
    BY DaemonQuiet DEF TInv
  <1>1. CASE RunCommand(d) /\ Leaves(d, "poll", "running")
    <2>1. Ledger!Begin(d)
      BY <1>1, RunBegins
    <2> QED  BY <2>1 DEF Ledger!Next
  <1>2. CASE ~(RunCommand(d) /\ Leaves(d, "poll", "running"))
    <2>1. \A e \in Daemons : /\ daemon'[e].script = daemon[e].script
                             /\ daemon[e].script # "none" => daemon'[e].seq = daemon[e].seq
      BY <1>0, <1>2, DaemonSteps
    <2>2. Order' = Order /\ Script' = Script
      BY <1>0, <2>1, SameWorkers
    <2>3. CASE DaemonParse(d)
      <3>1. Verdict' = Verdict /\ astray \subseteq astray' /\ Excused \subseteq Excused'
        BY <1>0, <2>3, ParseRecord DEF DaemonParse, files, Verdict, Excused
      <3>2. Ledger!Disturb({})
        BY <1>0, <2>2, <3>1, ExcuseLedger
      <3> QED  BY <3>2, DisturbIsNext
    <2>4. CASE DownloadRenames(d) \/ PollRenames(d) \/ FinalRenames(d)
      <3>1. daemon[d].pc \in {"fetchrename", "pollrename", "lastrename"} /\ Rename(daemon[d].seq)
        BY <2>4 DEF DownloadRenames, PollRenames, FinalRenames, Goes
      <3>2. daemon[d].seq \in Seqs
        BY <1>0, <3>1 DEF WorkersOK, WorkOK
      <3>3. UNCHANGED history
        BY <1>0, <2>4 DEF DownloadRenames, PollRenames, FinalRenames
      <3>4. CASE daemon[d].seq \in Excused \/ daemon[d].seq \notin Finals
        <4>1. Succeeded' = Succeeded
          BY <2>1 DEF Succeeded
        <4>2. Ledger!Tell(daemon[d].seq)
          BY <1>0, <2>2, <3>1, <3>2, <3>3, <3>4, <4>1, RenameTells
        <4> QED  BY <3>2, <4>2, TellIsNext
      <3>5. CASE daemon[d].seq \notin Excused /\ daemon[d].seq \in Finals
        BY <1>0, <2>2, <3>1, <3>2, <3>3, <3>5, RenameIsSilent, QuietLedger
      <3> QED  BY <3>4, <3>5
    <2>5. CASE ~DaemonParse(d) /\ ~(DownloadRenames(d) \/ PollRenames(d) \/ FinalRenames(d))
      <3>1. status' = status /\ UNCHANGED history
        BY <1>0, <2>5
           DEF Daemon, DownloadFiles, NoFileUris, Download, CheckIdns, RunCommand, PollRunning,
               PollEnded, PollRaises, FinalWrites, Write, files, history
      <3>2. Verdict' = Verdict
        BY <3>1 DEF Verdict
      <3> QED  BY <1>0, <2>2, <3>1, <3>2, QuietLedger
    <2> QED  BY <2>3, <2>4, <2>5
  <1> QED  BY <1>1, <1>2

LEMMA ScriptKeepsLedger ==
    ASSUME NEW d \in Daemons, TInv, ScriptEnds(d) PROVE Ledger!Next
  <1>1. /\ daemon[d].script = "running" /\ WorkersOK
        /\ UNCHANGED <<given, status, history>>
    BY DEF ScriptEnds, TInv, files
  <1>2. PICK end \in {"ok", "error"} : daemon' = [daemon EXCEPT ![d].script = end]
    BY DEF ScriptEnds
  <1>3. /\ daemon'[d].script = end /\ daemon'[d].seq = daemon[d].seq
        /\ \A e \in Daemons \ {d} : daemon'[e] = daemon[e]
    BY <1>1, <1>2 DEF WorkersOK, Worker
  <1>4. Script[d] = "running" /\ Script' = [Script EXCEPT ![d] = end]
    BY <1>1, <1>3 DEF Script
  <1>5. Order' = Order
    BY <1>1, <1>3 DEF Order, Ran
  <1>6. Verdict' = Verdict /\ Excused' = Excused
    BY <1>1 DEF Verdict, Excused, history
  <1>7. Ledger!End(d)
    BY <1>1, <1>4, <1>5, <1>6 DEF Ledger!End, Ledger!interference, history
  <1> QED  BY <1>7 DEF Ledger!Next

\* A script that a reboot kills is excused, or its failure has been reported.
LEMMA KilledIsKnown ==
    ASSUME TInv, OInv, UInv, Truth, Reboot, NEW d \in Daemons, daemon[d].script = "running"
    PROVE  daemon[d].seq \in Excused' \/ Verdict[daemon[d].seq] = "failed"
  <1> DEFINE n == daemon[d].seq
  <1>0. /\ FilesOK /\ WorkersOK /\ daemon[d].pc # "off" /\ daemon[d].of \in Seqs
        /\ Excused \subseteq Excused'
    BY InterferenceGrows DEF TInv, WorkersOK, WorkOK, BeforeRun, Next, Faults
  <1>1. n # 0 /\ (n = daemon[d].of \/ (n \in astray /\ daemon[d].of \in astray))
    BY <1>0 DEF OInv, OwnNumber, WorkersOK, WorkOK
  <1>2. CASE n \in astray
    BY <1>0, <1>2 DEF Excused
  <1>3. CASE n \notin astray /\ daemon[d].pc # "ended"
    <2>1. daemon[d].of \in broken'
      BY <1>0, <1>3 DEF Reboot
    <2> QED  BY <1>1, <1>3, <2>1 DEF Excused
  <1>4. CASE n \notin astray /\ daemon[d].pc = "ended"
    <2>1. n = daemon[d].of /\ (n \in Excused \/ n \in Finals)
      BY <1>1, <1>4 DEF UInv, DaemonSettles, Disturbed, Excused
    <2>2. status[n] # "success"
      <3> SUFFICES ASSUME status[n] = "success" PROVE FALSE
        OBVIOUS
      <3>1. n \in Succeeded
        BY <1>0, <2>1 DEF Truth
      <3>2. PICK e \in Daemons : daemon[e].script = "ok" /\ daemon[e].seq = n
        BY <3>1 DEF Succeeded
      <3>3. RunsOnce
        BY OnceHolds
      <3> QED  BY <1>4, <3>2, <3>3 DEF RunsOnce, Ran
    <2>3. n \in Excused \/ status[n] # "disabled"
      BY <1>0, <2>1 DEF Truth, Excused
    <2> QED  BY <1>0, <2>1, <2>2, <2>3 DEF Finals, Final, StatusOf, Verdict
  <1> QED  BY <1>2, <1>3, <1>4

LEMMA FaultKeepsLedger ==
    ASSUME TInv, TInv', OInv, UInv, Truth, Faults PROVE Ledger!Next
  <1>0. /\ FilesOK /\ WorkersOK /\ UNCHANGED <<given, status, astray, disabled>> /\ Verdict' = Verdict
        /\ Excused \subseteq Excused'
    BY InterferenceGrows
       DEF TInv, Faults, KillCommand, KillDaemon, Reboot, files, Verdict, Next
  <1>1. CASE KillCommand
    <2>1. Order' = Order /\ Script' = Script
      BY <1>1 DEF KillCommand, Order, Script, Ran
    <2>2. Ledger!Disturb({})
      BY <1>0, <2>1, ExcuseLedger
    <2> QED  BY <2>2, DisturbIsNext
  <1>2. ASSUME NEW d \in Daemons, KillDaemon(d) PROVE Ledger!Next
    <2>1. \A e \in Daemons : daemon'[e].script = daemon[e].script /\ daemon'[e].seq = daemon[e].seq
      BY <1>0, <1>2 DEF KillDaemon, WorkersOK, Worker
    <2>2. Order' = Order /\ Script' = Script
      BY <1>0, <2>1, SameWorkers
    <2>3. Ledger!Disturb({})
      BY <1>0, <2>2, ExcuseLedger
    <2> QED  BY <2>3, DisturbIsNext
  <1>3. CASE Reboot
    <2> DEFINE S == {d \in Daemons : daemon[d].script = "running"}
    <2>1. \A d \in Daemons :
              /\ daemon'[d].seq = daemon[d].seq
              /\ daemon'[d].script = IF daemon[d].script = "running" THEN "killed"
                                                                    ELSE daemon[d].script
      BY <1>0, <1>3, HaltRecord
    <2>2. Order' = Order
      BY <2>1 DEF Order, Ran
    <2>3. Script' = [w \in Daemons |-> IF w \in S THEN "killed" ELSE Script[w]]
      BY <2>1 DEF Script
    <2>4. \A w \in S : /\ Script[w] = "running"
                       /\ Order[w] \in Excused' \/ Verdict[Order[w]] = "failed"
      <3> SUFFICES ASSUME NEW w \in Daemons, daemon[w].script = "running"
                   PROVE  /\ Script[w] = "running"
                          /\ Order[w] \in Excused' \/ Verdict[Order[w]] = "failed"
        OBVIOUS
      <3>1. Order[w] = daemon[w].seq /\ Script[w] = "running"
        BY DEF Order, Script, Ran
      <3> QED  BY <1>3, <3>1, KilledIsKnown
    <2>5. Excused \cup astray' \cup disabled' \subseteq Excused' /\ Excused' \subseteq Seqs
      BY <1>0 DEF Excused, TInv, FilesOK
    <2>6. Ledger!Disturb(S)
      BY <1>0, <2>2, <2>3, <2>4, <2>5 DEF Ledger!Disturb
    <2> QED  BY <2>6, DisturbIsNext
  <1> QED  BY <1>1, <1>2, <1>3 DEF Faults

LEMMA InitLedger == Init => Ledger!Init
  <1> SUFFICES ASSUME Init PROVE Ledger!Init
    OBVIOUS
  <1>1. given = 0 /\ astray = {} /\ disabled = {} /\ Excused = {}
    BY DEF Init, Excused
  <1>2. Order = [w \in Daemons |-> 0] /\ Script = [w \in Daemons |-> "none"]
    BY DEF Init, Order, Script, Ran, NoDaemon
  <1>3. Verdict = [n \in Seqs |-> "open"]
    BY NoReportYet DEF Init, Verdict
  <1> QED  BY <1>1, <1>2, <1>3 DEF Ledger!Init

LEMMA StepLedger ==
    TInv /\ TInv' /\ OInv /\ UInv /\ VInv /\ Informed /\ Truth /\ Truth' /\ [Next]_vars
        => [Ledger!Next]_(Ledger!ledger)
  <1> SUFFICES ASSUME TInv, TInv', OInv, UInv, VInv, Informed, Truth, Truth', [Next]_vars
               PROVE  [Ledger!Next]_(Ledger!ledger)
    OBVIOUS
  <1>1. CASE UNCHANGED vars
    <2>1. UNCHANGED <<given, status, daemon, history>>
      BY <1>1 DEF vars, files
    <2>2. /\ Verdict' = Verdict /\ Order' = Order /\ Script' = Script
      BY <2>1 DEF Verdict, Order, Script, Ran
    <2> QED  BY <2>1, <2>2, QuietLedger
  <1>2. CASE Deliver \/ Rerun
    BY <1>2, AgentKeepsLedger
  <1>3. CASE Command
    BY <1>3, CommandKeepsLedger
  <1>4. ASSUME NEW d \in Daemons, Daemon(d) PROVE [Ledger!Next]_(Ledger!ledger)
    BY <1>4, DaemonKeepsLedger
  <1>5. ASSUME NEW d \in Daemons, ScriptEnds(d) PROVE [Ledger!Next]_(Ledger!ledger)
    BY <1>5, ScriptKeepsLedger
  <1>6. CASE Faults
    BY <1>6, FaultKeepsLedger
  <1> QED  BY <1>1, <1>2, <1>3, <1>4, <1>5, <1>6 DEF Next

\* CustomScript implements ScriptLedger: no script begins after the final report on
\* its number, no report replaces that one, and no script runs twice, but for the
\* numbers excused.
THEOREM CustomScriptKeepsLedger == Spec => LedgerSpec
  <1>1. Spec => [](TInv /\ OInv /\ UInv /\ VInv /\ Informed /\ Truth)
    BY InitTypes, StepTypes, InitOnce, StepOnce, InitSettles, StepSettles, InitLedgerInv,
       StepLedgerInv, InitInformed, StepInformed, InitTruth, StepTruth, PTL DEF Spec
  <1> QED  BY <1>1, InitLedger, StepLedger, PTL DEF Spec, LedgerSpec, Ledger!Spec
=============================================================================
