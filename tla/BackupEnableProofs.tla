------------------------- MODULE BackupEnableProofs -------------------------
(***************************************************************************)
(* Proofs about BackupEnable, for any number of sequence numbers, tasks,   *)
(* daemons, restarts and kills, when the agent sets ConfigSequenceNumber:  *)
(* one daemon and one full snapshot per task, and no command skipped       *)
(* without a reason.                                                       *)
(***************************************************************************)
EXTENDS BackupEnable, TLAPS

\* Where enable has found that the task is new, and where it has stored it.
Later   == {"saveid", "write", "rename", "start"}
Stored  == {"write", "rename", "start"}
PastSeq == {"sametask"} \cup Later

(***************************************************************************)
(* Types.                                                                  *)
(***************************************************************************)
Command == [pc : EnablePc, seq : 0 .. LastSeq]
Worker  == [pc : DaemonPc, seq : 0 .. LastSeq, got : {Absent, "full", "bare"}]

CommandOK == enable \in Command /\ (enable.pc # "idle" => enable.seq \in Seqs)
WorkersOK == /\ daemon \in [Daemons -> Worker]
             /\ \A d \in Daemons : daemon[d].pc # "off" => daemon[d].seq \in Seqs

FilesOK ==
    /\ given \in 0 .. LastSeq
    /\ settings \in [Seqs -> {Absent, "full", "bare"}]
    /\ freshest \in 0 .. LastSeq /\ mrseq \in 0 .. LastSeq
    /\ identity \in Tasks \cup {NoTask}
    /\ status \in [Seqs -> Report] /\ temp \in Report
    /\ restored \in BOOLEAN

CountsOK ==
    /\ reruns \in Nat /\ kills \in Nat
    /\ starts \in [Tasks -> Nat] /\ snaps \in [Tasks -> Nat]
    /\ skipped \in SUBSET Tasks /\ broken \in SUBSET Tasks
    /\ rewritten \in SUBSET Seqs

\* Once there is a command there is a settings file.
Fresh == (given > 0 \/ enable.pc # "idle" \/ \E d \in Daemons : daemon[d].pc # "off")
            => freshest \in Seqs

TInv == TypeOK /\ Fresh

LEMMA TypeParts ==
    /\ TypeOK <=> FilesOK /\ CommandOK /\ WorkersOK /\ CountsOK
    /\ TypeOK' <=> FilesOK' /\ CommandOK' /\ WorkersOK' /\ CountsOK'
  BY DEF TypeOK, FilesOK, CommandOK, WorkersOK, CountsOK, Command, Worker

LEMMA EnableGoesOn ==
    ASSUME CommandOK, NEW from \in EnablePc \ {"idle"}, NEW to \in EnablePc, EnableGoes(from, to)
    PROVE  CommandOK' /\ enable.seq \in Seqs /\ enable.pc = from
           /\ enable'.seq = enable.seq /\ enable'.pc = to
  BY DEF CommandOK, Command, EnableGoes

LEMMA OneWorker ==
    ASSUME WorkersOK, NEW d \in Daemons, NEW w \in Worker, w.pc # "off" => w.seq \in Seqs,
           daemon' = [daemon EXCEPT ![d] = w]
    PROVE  WorkersOK'
  BY DEF WorkersOK

LEMMA DaemonGoesOn ==
    ASSUME WorkersOK, NEW d \in Daemons, NEW from \in DaemonPc \ {"off"}, NEW to \in DaemonPc,
           Goes(d, from, to)
    PROVE  /\ WorkersOK' /\ daemon[d].seq \in Seqs /\ daemon[d].pc = from
           /\ \A e \in Daemons : daemon'[e].seq = daemon[e].seq
           /\ \A e \in Daemons : daemon[e].pc = "off" => daemon'[e].pc = "off"
  <1>1. /\ daemon[d].pc = from /\ daemon[d].seq \in Seqs
        /\ daemon[d] \in Worker
    BY DEF Goes, WorkersOK
  <1> DEFINE w == [daemon[d] EXCEPT !.pc = to]
  <1>2. w \in Worker /\ w.seq = daemon[d].seq
    BY <1>1 DEF Worker
  <1>3. daemon' = [daemon EXCEPT ![d] = w]
    BY DEF Goes, WorkersOK
  <1> HIDE DEF w
  <1>4. WorkersOK'
    BY <1>1, <1>2, <1>3, OneWorker
  <1>5. \A e \in Daemons : daemon'[e] = IF e = d THEN w ELSE daemon[e]
    BY <1>3 DEF WorkersOK
  <1> QED  BY <1>1, <1>2, <1>4, <1>5

LEMMA StripOK ==
    ASSUME FilesOK, NEW n \in Seqs, NEW got, Strip(n, got)
    PROVE  /\ settings' \in [Seqs -> {Absent, "full", "bare"}]
           /\ freshest' = freshest \/ freshest' = n
  BY DEF FilesOK, Strip

LEMMA RenameOK ==
    ASSUME FilesOK, NEW n \in Seqs, RenameTemp(n)
    PROVE  status' \in [Seqs -> Report] /\ temp' \in Report
  BY DEF FilesOK, RenameTemp, Report

LEMMA OwnReport ==
    ASSUME NEW n \in Seqs, NEW kind \in {"transition", "final"}
    PROVE  <<n, kind>> \in Report
  BY DEF Report

LEMMA InitTypes == Init => TInv
  BY TaskAssumption
     DEF Init, TInv, Fresh, TypeOK, Idle, NoDaemon, EnablePc, DaemonPc, Report, NoReport, Absent, Seqs

\* What Torn leaves of the two files.
LEMMA TornFiles ==
    ASSUME NEW pcs, Torn(pcs)
    PROVE  /\ mrseq' = mrseq \/ mrseq' = 0
           /\ identity' = identity \/ (identity' = NoTask /\ "saveid" \in pcs)
  BY DEF Torn

LEMMA NumberRange == Seqs \subseteq 0 .. LastSeq /\ 0 \in 0 .. LastSeq /\ 0 \notin Seqs
  BY TaskAssumption DEF Seqs

LEMMA AgentTypes == TInv /\ Agent => TInv'
  <1> SUFFICES ASSUME FilesOK, CommandOK, WorkersOK, CountsOK, Fresh, Agent
               PROVE  FilesOK' /\ CommandOK' /\ WorkersOK' /\ CountsOK' /\ freshest' \in Seqs
    BY TypeParts DEF TInv, Fresh
  <1> USE TaskAssumption, BoundAssumption DEF reports, bounds, history
  <1>1. CASE Deliver
    <2>1. given' \in Seqs /\ given' = given + 1
      BY <1>1 DEF Deliver, FilesOK, Seqs
    <2>2. CommandOK'
      BY <1>1, <2>1, NumberRange DEF Deliver, CommandOK, Command, EnablePc
    <2>3. FilesOK'
      BY <1>1, <2>1, NumberRange DEF Deliver, FilesOK
    <2> QED  BY <1>1, <2>1, <2>2, <2>3 DEF Deliver, WorkersOK, CountsOK
  <1>2. CASE Rerun
    <2>1. given \in Seqs
      BY <1>2 DEF Rerun, FilesOK, Seqs
    <2>2. CommandOK'
      BY <1>2, <2>1, NumberRange DEF Rerun, CommandOK, Command, EnablePc
    <2>3. freshest' \in Seqs
      BY <1>2, <2>1 DEF Rerun, Fresh, FilesOK
    <2>4. FilesOK'
      BY <1>2, <2>1, <2>3, NumberRange DEF Rerun, FilesOK
    <2> QED  BY <1>2, <2>1, <2>2, <2>3, <2>4 DEF Rerun, WorkersOK, CountsOK
  <1> QED  BY <1>1, <1>2 DEF Agent

LEMMA EnableTypes == TInv /\ Enable => TInv'
  <1> SUFFICES ASSUME FilesOK, CommandOK, WorkersOK, CountsOK, Fresh, Enable
               PROVE  FilesOK' /\ CommandOK' /\ WorkersOK' /\ CountsOK' /\ freshest' \in Seqs
    BY TypeParts DEF TInv, Fresh
  <1> USE TaskAssumption, BoundAssumption DEF files, reports, bounds, history
  <1>0. enable.seq \in Seqs /\ freshest \in Seqs /\ TaskOf[enable.seq] \in Tasks
    BY DEF Enable, EnableParse, ExitIfSameSeq, EnableSaveSeq, EnableRaises, ExitIfSameTask,
           SaveIdentity, EnableWrites, EnableRenames, StartDaemon, EnableFails, EnableGoes, CommandOK, Fresh
  <1>1. CASE EnableParse
    <2>1. PICK n \in Seqs : /\ enable' = [pc |-> "sameseq", seq |-> n]
                            /\ settings' = [m \in Seqs |-> IF m = n THEN settings[m] ELSE Absent]
                            /\ status' = [m \in Seqs |-> IF m = n THEN status[m] ELSE NoReport]
                            /\ freshest' = n
      BY <1>0, <1>1 DEF EnableParse, SeqNo
    <2>2. CommandOK'
      BY <2>1, NumberRange DEF CommandOK, Command, EnablePc
    <2>3. NoReport \in Report
      BY DEF Report
    <2>4. FilesOK'
      BY <1>1, <2>1, <2>3, NumberRange DEF EnableParse, FilesOK
    <2> QED  BY <1>1, <2>1, <2>2, <2>4 DEF EnableParse, WorkersOK, CountsOK
  <1>2. CASE ExitIfSameSeq
    <2>1. CommandOK' /\ skipped' \in SUBSET Tasks
      <3>1. CASE Skip
        BY <1>0, <3>1, NumberRange DEF Skip, Idle, CommandOK, Command, EnablePc, CountsOK
      <3>2. CASE EnableGoes("sameseq", "saveseq") /\ UNCHANGED skipped
        BY <3>2, EnableGoesOn DEF EnablePc, CountsOK
      <3> QED  BY <1>2, <3>1, <3>2 DEF ExitIfSameSeq
    <2>2. settings' \in [Seqs -> {Absent, "full", "bare"}] /\ freshest' \in Seqs
      BY <1>0, <1>2, StripOK DEF ExitIfSameSeq, FilesOK
    <2> QED
      BY <1>2, <2>1, <2>2, NumberRange DEF ExitIfSameSeq, FilesOK, WorkersOK, CountsOK
  <1>3. CASE EnableSaveSeq
    <2>1. CommandOK'
      BY <1>3, EnableGoesOn DEF EnableSaveSeq, EnablePc
    <2> QED
      BY <1>0, <1>3, <2>1, NumberRange DEF EnableSaveSeq, FilesOK, WorkersOK, CountsOK
  <1>4. CASE EnableRaises
    <2>1. CommandOK'
      BY <1>4, NumberRange DEF EnableRaises, Idle, CommandOK, Command, EnablePc
    <2>2. settings' \in [Seqs -> {Absent, "full", "bare"}] /\ freshest' \in Seqs
      BY <1>0, <1>4, StripOK DEF EnableRaises
    <2>3. temp' \in Report /\ status' = status
      BY <1>4 DEF EnableRaises, WriteTemp, Report
    <2> QED
      BY <1>0, <1>4, <2>1, <2>2, <2>3, NumberRange DEF EnableRaises, FilesOK, WorkersOK, CountsOK
  <1>5. CASE ExitIfSameTask
    <2>1. CommandOK' /\ skipped' \in SUBSET Tasks
      <3>1. CASE Skip
        BY <1>0, <3>1, NumberRange DEF Skip, Idle, CommandOK, Command, EnablePc, CountsOK
      <3>2. CASE EnableGoes("sametask", "saveid") /\ UNCHANGED skipped
        BY <3>2, EnableGoesOn DEF EnablePc, CountsOK
      <3> QED  BY <1>5, <3>1, <3>2 DEF ExitIfSameTask
    <2> QED
      BY <1>0, <1>5, <2>1 DEF ExitIfSameTask, FilesOK, WorkersOK, CountsOK
  <1>6. CASE SaveIdentity
    <2>1. CommandOK'
      BY <1>6, EnableGoesOn DEF SaveIdentity, EnablePc
    <2> QED
      BY <1>0, <1>6, <2>1 DEF SaveIdentity, FilesOK, WorkersOK, CountsOK
  <1>7. CASE EnableWrites
    <2>1. CommandOK'
      BY <1>7, EnableGoesOn DEF EnableWrites, EnablePc
    <2>2. temp' \in Report /\ status' = status
      BY <1>0, <1>7, OwnReport DEF EnableWrites, WriteTemp
    <2> QED
      BY <1>0, <1>7, <2>1, <2>2 DEF EnableWrites, FilesOK, WorkersOK, CountsOK
  <1>8. CASE EnableRenames
    <2>1. CommandOK'
      BY <1>8, EnableGoesOn, NumberRange
         DEF EnableRenames, EnablePc, Idle, CommandOK, Command
    <2>2. status' \in [Seqs -> Report] /\ temp' \in Report
      BY <1>0, <1>8, RenameOK DEF EnableRenames
    <2> QED
      BY <1>0, <1>8, <2>1, <2>2 DEF EnableRenames, FilesOK, WorkersOK, CountsOK
  <1>9. CASE StartDaemon
    <2>1. CommandOK'
      BY <1>9, NumberRange DEF StartDaemon, Idle, CommandOK, Command, EnablePc
    <2> DEFINE e == CHOOSE d \in Unstarted : TRUE
               w == [pc |-> "parse", seq |-> enable.seq, got |-> Absent]
    <2>2. e \in Daemons /\ daemon' = [daemon EXCEPT ![e] = w]
      BY <1>9 DEF StartDaemon, Unstarted
    <2>3. w \in Worker /\ w.seq \in Seqs
      BY <1>0, NumberRange DEF Worker, DaemonPc
    <2>4. WorkersOK'
      <3> HIDE DEF e, w
      <3> QED  BY <2>2, <2>3, OneWorker
    <2>5. starts' \in [Tasks -> Nat]
      BY <1>0, <1>9 DEF StartDaemon, CountsOK
    <2> QED
      BY <1>0, <1>9, <2>1, <2>4, <2>5 DEF StartDaemon, FilesOK, CountsOK
  <1>10. CASE EnableFails
    <2>1. CommandOK'
      BY <1>0, <1>10 DEF EnableFails, CommandOK, Command, EnablePc
    <2>2. settings' \in [Seqs -> {Absent, "full", "bare"}] /\ freshest' \in Seqs
      BY <1>0, <1>10, StripOK DEF EnableFails
    <2> QED
      BY <1>0, <1>10, <2>1, <2>2, NumberRange DEF EnableFails, FilesOK, WorkersOK, CountsOK
  <1> QED
    BY <1>1, <1>2, <1>3, <1>4, <1>5, <1>6, <1>7, <1>8, <1>9, <1>10 DEF Enable

LEMMA DaemonTypes == ASSUME NEW d \in Daemons PROVE TInv /\ Daemon(d) => TInv'
  <1> SUFFICES ASSUME FilesOK, CommandOK, WorkersOK, CountsOK, Fresh, Daemon(d)
               PROVE  FilesOK' /\ CommandOK' /\ WorkersOK' /\ CountsOK' /\ freshest' \in Seqs
    BY TypeParts DEF TInv, Fresh
  <1> USE TaskAssumption, BoundAssumption DEF files, reports, bounds, history
  <1>0. daemon[d].pc # "off" /\ daemon[d].seq \in Seqs /\ freshest \in Seqs
        /\ TaskOf[daemon[d].seq] \in Tasks /\ daemon[d] \in Worker
    BY DEF Daemon, DaemonParse, CheckMachine, DaemonStrips, Check, DaemonSavesSeq, DaemonWrites,
           DaemonRenames, Work, IsStatusFileExists, Goes, WorkersOK, Fresh
  <1>1. CASE DaemonParse(d)
    <2>1. PICK n \in Seqs : daemon' = [daemon EXCEPT ![d] =
                               [pc  |-> IF settings[n] = Absent THEN "ended" ELSE "machine",
                                seq |-> n, got |-> settings[n]]]
      BY <1>0, <1>1 DEF DaemonParse, SeqNo
    <2> DEFINE w == [pc  |-> IF settings[n] = Absent THEN "ended" ELSE "machine",
                     seq |-> n, got |-> settings[n]]
    <2>2. w \in Worker /\ w.seq \in Seqs
      BY NumberRange DEF Worker, DaemonPc, FilesOK
    <2>3. WorkersOK'
      <3>1. daemon' = [daemon EXCEPT ![d] = w]
        BY <2>1
      <3> HIDE DEF w
      <3> QED  BY <2>2, <3>1, OneWorker
    <2> QED
      BY <1>0, <1>1, <2>3 DEF DaemonParse, FilesOK, CommandOK, CountsOK
  <1>2. CASE CheckMachine(d)
    <2>1. WorkersOK'
      BY <1>2, DaemonGoesOn DEF CheckMachine, DaemonPc
    <2> QED
      BY <1>0, <1>2, <2>1, NumberRange DEF CheckMachine, FilesOK, CommandOK, CountsOK
  <1>3. CASE DaemonStrips(d)
    <2>1. WorkersOK'
      BY <1>3, DaemonGoesOn DEF DaemonStrips, DaemonPc
    <2>2. settings' \in [Seqs -> {Absent, "full", "bare"}] /\ freshest' \in Seqs
      BY <1>0, <1>3, StripOK DEF DaemonStrips
    <2> QED
      BY <1>3, <2>1, <2>2, NumberRange DEF DaemonStrips, FilesOK, CommandOK, CountsOK
  <1>4. CASE Check(d)
    <2>1. WorkersOK'
      BY <1>4, DaemonGoesOn DEF Check, DaemonPc
    <2> QED
      BY <1>0, <1>4, <2>1 DEF Check, FilesOK, CommandOK, CountsOK
  <1>5. CASE DaemonSavesSeq(d)
    <2>1. WorkersOK'
      BY <1>5, DaemonGoesOn DEF DaemonSavesSeq, DaemonPc
    <2> QED
      BY <1>0, <1>5, <2>1, NumberRange DEF DaemonSavesSeq, FilesOK, CommandOK, CountsOK
  <1>6. CASE DaemonWrites(d)
    <2>1. WorkersOK'
      BY <1>6, DaemonGoesOn DEF DaemonWrites, DaemonPc
    <2>2. temp' \in Report /\ status' = status
      BY <1>0, <1>6, OwnReport DEF DaemonWrites, WriteTemp
    <2> QED
      BY <1>0, <1>6, <2>1, <2>2 DEF DaemonWrites, FilesOK, CommandOK, CountsOK
  <1>7. CASE DaemonRenames(d)
    <2>1. WorkersOK'
      BY <1>7, DaemonGoesOn DEF DaemonRenames, DaemonPc
    <2>2. status' \in [Seqs -> Report] /\ temp' \in Report
      BY <1>0, <1>7, RenameOK DEF DaemonRenames
    <2> QED
      BY <1>0, <1>7, <2>1, <2>2 DEF DaemonRenames, FilesOK, CommandOK, CountsOK
  <1>8. CASE Work(d)
    <2>1. WorkersOK'
      BY <1>8, DaemonGoesOn DEF Work, DaemonPc
    <2>2. snaps' \in [Tasks -> Nat]
      BY <1>0, <1>8 DEF Work, CountsOK
    <2> QED
      BY <1>0, <1>8, <2>1, <2>2 DEF Work, FilesOK, CommandOK, CountsOK
  <1>9. CASE IsStatusFileExists(d)
    <2>1. WorkersOK'
      BY <1>9, DaemonGoesOn DEF IsStatusFileExists, DaemonPc
    <2> QED
      BY <1>0, <1>9, <2>1 DEF IsStatusFileExists, FilesOK, CommandOK, CountsOK
  <1> QED
    BY <1>1, <1>2, <1>3, <1>4, <1>5, <1>6, <1>7, <1>8, <1>9 DEF Daemon

LEMMA FaultTypes == TInv /\ Faults => TInv'
  <1> SUFFICES ASSUME FilesOK, CommandOK, WorkersOK, CountsOK, Fresh, Faults
               PROVE  FilesOK' /\ CommandOK' /\ WorkersOK' /\ CountsOK' /\ Fresh'
    BY TypeParts DEF TInv
  <1> USE TaskAssumption, BoundAssumption DEF files, reports, bounds, history
  <1>1. CASE KillEnable
    <2>1. enable.seq \in Seqs /\ freshest \in Seqs /\ freshest' = freshest
      BY <1>1 DEF KillEnable, CommandOK, Fresh
    <2>2. CommandOK'
      BY <1>1, <2>1 DEF KillEnable, CommandOK, Command, EnablePc
    <2>3. FilesOK'
      BY <1>1, TornFiles, NumberRange DEF KillEnable, FilesOK
    <2> QED
      BY <1>1, <2>1, <2>2, <2>3 DEF KillEnable, WorkersOK, CountsOK, Fresh
  <1>2. ASSUME NEW d \in Daemons, KillDaemon(d)
        PROVE  FilesOK' /\ CommandOK' /\ WorkersOK' /\ CountsOK' /\ Fresh'
    <2>1. daemon[d].seq \in Seqs /\ freshest \in Seqs /\ freshest' = freshest
      BY <1>2 DEF KillDaemon, WorkersOK, Fresh
    <2>2. WorkersOK'
      <3> DEFINE w == [daemon[d] EXCEPT !.pc = "parse"]
      <3>1. w \in Worker /\ w.seq \in Seqs
        BY <2>1 DEF Worker, DaemonPc, WorkersOK
      <3>2. daemon' = [daemon EXCEPT ![d] = w]
        BY <1>2 DEF KillDaemon, WorkersOK
      <3> HIDE DEF w
      <3> QED  BY <3>1, <3>2, OneWorker
    <2>3. FilesOK'
      BY <1>2, TornFiles, NumberRange DEF KillDaemon, FilesOK
    <2> QED
      BY <1>2, <2>1, <2>2, <2>3 DEF KillDaemon, CommandOK, CountsOK, Fresh
  <1>3. CASE Reboot
    <2>1. CommandOK'
      BY <1>3, NumberRange DEF Reboot, Idle, CommandOK, Command, EnablePc
    <2>2. FilesOK'
      BY <1>3, TornFiles, NumberRange DEF Reboot, FilesOK
    <2>3. ASSUME NEW e \in Daemons
          PROVE  /\ daemon'[e] \in Worker
                 /\ daemon'[e].pc # "off" => daemon[e].pc # "off" /\ daemon'[e].seq \in Seqs
      BY <1>3, NumberRange DEF Reboot, WorkersOK, NoDaemon, Worker, DaemonPc
    <2>4. WorkersOK'
      BY <1>3, <2>3 DEF Reboot, WorkersOK
    <2>5. broken' \in SUBSET Tasks
      BY <1>3 DEF Reboot, CountsOK, CommandOK, WorkersOK
    <2>6. Fresh'
      BY <1>3, <2>3 DEF Reboot, Fresh, Idle
    <2> QED
      BY <1>3, <2>1, <2>2, <2>4, <2>5, <2>6 DEF Reboot, CountsOK
  <1> QED  BY <1>1, <1>2, <1>3 DEF Faults

LEMMA StepTypes == TInv /\ [Next]_vars => TInv'
  <1>1. TInv /\ UNCHANGED vars => TInv'
    BY DEF TInv, TypeOK, Fresh, vars, files, reports, bounds, history
  <1> QED
    BY <1>1, AgentTypes, EnableTypes, DaemonTypes, FaultTypes DEF Next

\* The files, commands and daemons keep their types, whatever is killed.
THEOREM TypeCorrect == Spec => []TypeOK
  <1>1. TInv => TypeOK
    BY DEF TInv
  <1> QED  BY <1>1, InitTypes, StepTypes, PTL DEF Spec

(***************************************************************************)
(* One daemon per task.  The numbers of a task follow one another, so that *)
(* the identity file has to hold the last task only; it is saved before    *)
(* the daemon is started, and only the enable that saves it may tear it.   *)
(***************************************************************************)
CommandIsGiven == enable.pc # "idle" => enable.seq = given
StartedIsGiven == \A t \in Tasks : starts[t] >= 1 => \E m \in 1 .. given : TaskOf[m] = t
IdentityIsKept == \A n \in Seqs : n = given /\ starts[TaskOf[n]] >= 1 => identity = TaskOf[n]
TaskIsNew      == enable.pc \in Later => starts[TaskOf[enable.seq]] = 0
IdentityIsOwn  == enable.pc \in Stored => identity = TaskOf[enable.seq]

OInv == /\ CommandIsGiven /\ StartedIsGiven /\ IdentityIsKept /\ TaskIsNew /\ IdentityIsOwn
        /\ OneDaemonPerTask

LEMMA InitOne == Init => OInv
  BY TaskAssumption, NumberRange DEF Init, OInv, CommandIsGiven, StartedIsGiven, IdentityIsKept, TaskIsNew, IdentityIsOwn,
         OneDaemonPerTask, Idle, Later, Stored

\* What daemons do is not seen.
LEMMA QuietOne == OInv /\ UNCHANGED <<given, enable, identity, starts>> => OInv'
  BY DEF OInv, CommandIsGiven, StartedIsGiven, IdentityIsKept, TaskIsNew, IdentityIsOwn,
         OneDaemonPerTask

LEMMA AgentOne == TInv /\ OInv /\ Agent => OInv'
  <1> SUFFICES ASSUME TInv, OInv, Agent PROVE OInv'
    OBVIOUS
  <1>0. enable.pc = "idle" /\ UNCHANGED <<identity, starts>> /\ starts \in [Tasks -> Nat]
        /\ given \in 0 .. LastSeq
    BY DEF Agent, Deliver, Rerun, history, TInv, TypeOK
  <1>1. enable'.pc = "parse" /\ enable'.seq = given'
    BY DEF Agent, Deliver, Rerun
  <1>2. given' = given \/ (given' = given + 1 /\ given' \in Seqs)
    BY <1>0, TaskAssumption DEF Agent, Deliver, Rerun, Seqs
  <1>3. CommandIsGiven' /\ TaskIsNew' /\ IdentityIsOwn' /\ OneDaemonPerTask'
    BY <1>0, <1>1 DEF CommandIsGiven, TaskIsNew, IdentityIsOwn, Later, Stored, OInv,
                      OneDaemonPerTask
  <1>4. StartedIsGiven'
    BY <1>0, <1>2 DEF OInv, StartedIsGiven
  <1>5. IdentityIsKept'
    <2>1. CASE given' = given
      BY <1>0, <2>1 DEF OInv, IdentityIsKept
    <2>2. CASE given' = given + 1 /\ given' \in Seqs
      <3>1. SUFFICES ASSUME starts[TaskOf[given']] >= 1 PROVE identity = TaskOf[given']
        BY <1>0 DEF IdentityIsKept
      <3>2. TaskOf[given'] \in Tasks
        BY <2>2, TaskAssumption
      <3>3. PICK m \in 1 .. given : TaskOf[m] = TaskOf[given']
        BY <1>0, <3>1, <3>2 DEF OInv, StartedIsGiven
      <3>4. m \in Seqs /\ given \in Seqs /\ m <= given /\ given < given'
        BY <1>0, <2>2, <3>3, TaskAssumption DEF Seqs
      <3>5. TaskOf[given] = TaskOf[given']
        <4>1. CASE m = given
          BY <3>3, <4>1
        <4>2. CASE m # given
          <5>1. m < given
            BY <3>4, <4>2 DEF Seqs
          <5> QED  BY <2>2, <3>3, <3>4, <5>1, TaskAssumption
        <4> QED  BY <4>1, <4>2
      <3> QED  BY <1>0, <3>1, <3>4, <3>5 DEF OInv, IdentityIsKept
    <2> QED  BY <1>2, <2>1, <2>2
  <1> QED  BY <1>3, <1>4, <1>5 DEF OInv

\* What enable does between its first and its last step.
LEMMA EnableMoves ==
    ASSUME TInv, OInv, NEW from \in EnablePc \ {"idle"}, NEW to \in EnablePc,
           EnableGoes(from, to), UNCHANGED <<given, starts>>,
           identity' = identity \/ identity' = TaskOf[enable.seq],
           to \in Later => starts[TaskOf[enable.seq]] = 0,
           to \in Stored => identity' = TaskOf[enable.seq]
    PROVE  OInv'
  <1>1. enable'.seq = enable.seq /\ enable'.pc = to /\ enable.seq = given /\ given \in Seqs
    BY EnableGoesOn, TypeParts DEF TInv, OInv, CommandIsGiven
  <1> QED
    BY <1>1 DEF OInv, CommandIsGiven, StartedIsGiven, IdentityIsKept, TaskIsNew, IdentityIsOwn,
                OneDaemonPerTask

\* Enable ends without a daemon.
LEMMA EnableLeaves ==
    ASSUME OInv, enable' = Idle, UNCHANGED <<given, identity, starts>>
    PROVE  OInv'
  BY DEF OInv, CommandIsGiven, StartedIsGiven, IdentityIsKept, TaskIsNew, IdentityIsOwn,
         OneDaemonPerTask, Idle, Later, Stored

LEMMA EnableOne == ASSUME UseEnv PROVE TInv /\ OInv /\ Enable => OInv'
  <1> SUFFICES ASSUME TInv, OInv, Enable PROVE OInv'
    OBVIOUS
  <1>0. enable.seq \in Seqs /\ TaskOf[enable.seq] \in Tasks /\ enable.seq = given
        /\ starts \in [Tasks -> Nat] /\ CommandOK
    BY TypeParts, TaskAssumption
       DEF Enable, EnableParse, ExitIfSameSeq, EnableSaveSeq, EnableRaises, ExitIfSameTask,
           SaveIdentity, EnableWrites, EnableRenames, StartDaemon, EnableFails, EnableGoes, CommandOK, TInv,
           OInv, CommandIsGiven, CountsOK
  <1> USE DEF files, reports, bounds, history
  <1>1. CASE EnableParse
    <2>1. enable' = [pc |-> "sameseq", seq |-> given] /\ UNCHANGED <<given, identity, starts>>
      BY <1>0, <1>1 DEF EnableParse, SeqNo
    <2> QED
      BY <2>1 DEF OInv, CommandIsGiven, StartedIsGiven, IdentityIsKept, TaskIsNew,
                  IdentityIsOwn, OneDaemonPerTask, Later, Stored
  <1>2. CASE ExitIfSameSeq
    BY <1>2, EnableLeaves, EnableMoves DEF ExitIfSameSeq, Skip, EnablePc, Later, Stored
  <1>3. CASE EnableSaveSeq
    BY <1>3, EnableMoves DEF EnableSaveSeq, EnablePc, Later, Stored
  <1>4. CASE EnableRaises
    BY <1>4, EnableLeaves DEF EnableRaises
  <1>5. CASE ExitIfSameTask
    <2>1. CASE Skip
      BY <1>5, <2>1, EnableLeaves DEF ExitIfSameTask, Skip
    <2>2. CASE identity # TaskOf[enable.seq] /\ EnableGoes("sametask", "saveid")
      <3>1. starts[TaskOf[enable.seq]] = 0
        BY <1>0, <2>2 DEF OInv, IdentityIsKept
      <3> QED
        BY <1>5, <2>2, <3>1, EnableMoves DEF ExitIfSameTask, EnablePc, Stored
    <2> QED  BY <1>5, <2>1, <2>2 DEF ExitIfSameTask
  <1>6. CASE SaveIdentity
    BY <1>6, EnableMoves DEF SaveIdentity, EnableGoes, EnablePc, OInv, TaskIsNew, Later
  <1>7. CASE EnableWrites
    BY <1>7, EnableMoves
       DEF EnableWrites, EnableGoes, EnablePc, OInv, TaskIsNew, IdentityIsOwn, Later, Stored
  <1>8. CASE EnableRenames
    BY <1>8, EnableMoves, EnableLeaves
       DEF EnableRenames, EnableGoes, EnablePc, OInv, TaskIsNew, IdentityIsOwn, Later, Stored
  <1>9. CASE StartDaemon
    <2>0. starts[TaskOf[given]] = 0 /\ identity = TaskOf[given]
      BY <1>0, <1>9 DEF StartDaemon, OInv, TaskIsNew, IdentityIsOwn, Later, Stored
    <2>1. /\ starts' = [starts EXCEPT ![TaskOf[given]] = 1]
          /\ enable'.pc = "idle" /\ UNCHANGED <<given, identity>>
      <3>1. starts' = [starts EXCEPT ![TaskOf[given]] = starts[TaskOf[given]] + 1]
        BY <1>0, <1>9 DEF StartDaemon
      <3>2. starts' = [starts EXCEPT ![TaskOf[given]] = 1]
        BY <2>0, <3>1, 0 + 1 = 1
      <3>3. enable'.pc = "idle" /\ UNCHANGED <<given, identity>>
        BY <1>9 DEF StartDaemon, Idle
      <3> QED  BY <3>2, <3>3
    <2>2. given \in 1 .. given
      BY <1>0 DEF Seqs
    <2> QED
      BY <1>0, <2>0, <2>1, <2>2 DEF OInv, CommandIsGiven, StartedIsGiven, IdentityIsKept, TaskIsNew,
                              IdentityIsOwn, OneDaemonPerTask, Later, Stored
  <1>10. CASE EnableFails
    <2>1. /\ enable'.pc = "writelast" /\ enable'.seq = enable.seq
          /\ UNCHANGED <<given, starts>>
          /\ identity' = identity \/ enable.pc = "saveid"
      BY <1>0, <1>10 DEF EnableFails, CommandOK, Command
    <2>2. enable.pc = "saveid" => ~(starts[TaskOf[given]] >= 1)
      BY <1>0 DEF OInv, TaskIsNew, Later
    <2>3. IdentityIsKept'
      BY <2>1, <2>2 DEF OInv, IdentityIsKept
    <2> QED
      BY <1>0, <2>1, <2>3 DEF OInv, CommandIsGiven, StartedIsGiven, TaskIsNew, IdentityIsOwn,
                              OneDaemonPerTask, Later, Stored
  <1> QED
    BY <1>1, <1>2, <1>3, <1>4, <1>5, <1>6, <1>7, <1>8, <1>9, <1>10 DEF Enable

LEMMA DaemonQuiet ==
    ASSUME NEW d \in Daemons, Daemon(d)
    PROVE  UNCHANGED <<given, enable, identity, starts, broken, skipped>>
  BY DEF Daemon, DaemonParse, CheckMachine, DaemonStrips, Check, DaemonSavesSeq, DaemonWrites,
         DaemonRenames, Work, IsStatusFileExists, files, reports, bounds, history

LEMMA FaultOne == TInv /\ OInv /\ Faults => OInv'
  <1> SUFFICES ASSUME TInv, OInv, Faults PROVE OInv'
    OBVIOUS
  <1>1. ASSUME UNCHANGED <<given, starts>>, enable'.pc \in {"idle", "parse"},
               enable'.pc = "parse" => enable'.seq = enable.seq /\ enable.pc # "idle",
               identity' = identity \/ enable.pc = "saveid"
        PROVE  OInv'
    <2>1. ASSUME enable.pc = "saveid" PROVE given \in Seqs /\ starts[TaskOf[given]] = 0
      BY <2>1 DEF TInv, TypeOK, OInv, CommandIsGiven, TaskIsNew, Later
    <2>2. IdentityIsKept'
      BY <1>1, <2>1 DEF OInv, IdentityIsKept
    <2> QED
      BY <1>1, <2>2 DEF OInv, CommandIsGiven, StartedIsGiven, TaskIsNew, IdentityIsOwn,
                        OneDaemonPerTask, Later, Stored
  <1>2. CASE KillEnable
    BY <1>1, <1>2, TornFiles DEF KillEnable, TInv, TypeOK
  <1>3. ASSUME NEW d \in Daemons, KillDaemon(d) PROVE OInv'
    BY <1>3, TornFiles, QuietOne DEF KillDaemon, TInv, TypeOK, DaemonPc
  <1>4. CASE Reboot
    BY <1>1, <1>4, TornFiles DEF Reboot, TInv, TypeOK, DaemonPc, Idle
  <1> QED  BY <1>2, <1>3, <1>4 DEF Faults

LEMMA StepOne == ASSUME UseEnv PROVE TInv /\ OInv /\ [Next]_vars => OInv'
  <1>1. OInv /\ UNCHANGED vars => OInv'
    BY QuietOne DEF vars, files, history
  <1> QED
    BY <1>1, AgentOne, EnableOne, DaemonQuiet, QuietOne, FaultOne DEF Next

\* A task's daemon is started at most once, however often the agent runs its
\* commands, whatever the daemons store in mrseq, and wherever a process is killed
\* or the machine reboots.
THEOREM TaskRunsOnce == ASSUME UseEnv PROVE Spec => []OneDaemonPerTask
  <1>1. OInv => OneDaemonPerTask
    BY DEF OInv
  <1> QED  BY <1>1, InitTypes, StepTypes, InitOne, StepOne, PTL DEF Spec

(***************************************************************************)
(* Skipping.  What mrseq and the identity file hold is of a task that has  *)
(* its daemon, or had a command that broke off, or is being enabled now.   *)
(***************************************************************************)
Excused == {t \in Tasks : starts[t] >= 1} \cup broken

IdentityStarted ==
    identity \in Tasks =>
        identity \in Excused \/ (enable.pc \in Stored /\ TaskOf[enable.seq] = identity)
SeqStarted ==
    mrseq \in Seqs =>
        TaskOf[mrseq] \in Excused \/ (enable.pc \in PastSeq /\ enable.seq = mrseq)
DaemonStarted ==
    \A d \in Daemons : daemon[d].pc # "off" => starts[TaskOf[daemon[d].seq]] >= 1

SInv == IdentityStarted /\ SeqStarted /\ DaemonStarted /\ SkipIsJustified

LEMMA InitSkip == Init => SInv
  BY TaskAssumption, NumberRange
     DEF Init, SInv, IdentityStarted, SeqStarted, DaemonStarted, SkipIsJustified, NoDaemon

\* What is excused stays excused; a step that keeps what it reads keeps SInv.
LEMMA FilesKept ==
    ASSUME TInv, SInv,
           Excused \subseteq Excused',
           identity' = identity \/ identity' \notin Tasks,
           mrseq' = mrseq \/ mrseq' \notin Seqs \/ TaskOf[mrseq'] \in Excused',
           enable' = enable
             \/ enable.pc \notin PastSeq
             \/ TaskOf[enable.seq] \in Excused'
             \/ (enable'.seq = enable.seq /\ enable'.pc \in PastSeq
                   /\ (enable.pc \in Stored => enable'.pc \in Stored))
    PROVE  IdentityStarted' /\ SeqStarted'
  <1>1. IdentityStarted'
    BY DEF SInv, IdentityStarted, PastSeq, Later, Stored
  <1>2. SeqStarted'
    <2> SUFFICES ASSUME mrseq' \in Seqs
                 PROVE  TaskOf[mrseq'] \in Excused' \/ (enable'.pc \in PastSeq /\ enable'.seq = mrseq')
      BY DEF SeqStarted
    <2>1. CASE mrseq' = mrseq
      <3>1. TaskOf[mrseq] \in Tasks
        BY <2>1, TaskAssumption
      <3> QED  BY <2>1, <3>1 DEF SInv, SeqStarted
    <2> QED  BY <2>1
  <1> QED  BY <1>1, <1>2

LEMMA EnableSkip == ASSUME UseEnv PROVE TInv /\ SInv /\ Enable => SInv'
  <1> SUFFICES ASSUME TInv, SInv, Enable PROVE SInv'
    OBVIOUS
  <1>0. enable.seq \in Seqs /\ TaskOf[enable.seq] \in Tasks
        /\ starts \in [Tasks -> Nat] /\ CommandOK /\ WorkersOK
    BY TypeParts, TaskAssumption
       DEF Enable, EnableParse, ExitIfSameSeq, EnableSaveSeq, EnableRaises, ExitIfSameTask,
           SaveIdentity, EnableWrites, EnableRenames, StartDaemon, EnableFails, EnableGoes, CommandOK, TInv,
           CountsOK
  <1> USE DEF files, reports, bounds, history
  <1> DEFINE Rest == DaemonStarted' /\ SkipIsJustified'
  <1>a. ASSUME UNCHANGED <<daemon, starts>>, broken \subseteq broken', skipped' = skipped
        PROVE  Rest /\ Excused \subseteq Excused'
    BY <1>a DEF SInv, DaemonStarted, SkipIsJustified, Excused
  <1>1. CASE EnableParse
    BY <1>1, <1>a, FilesKept
       DEF EnableParse, SInv, PastSeq, Later
  <1>2. ASSUME enable.pc \in {"sameseq", "sametask"}, Skip, TaskOf[enable.seq] \in Excused,
               UNCHANGED <<mrseq, identity, daemon, starts, broken>>
        PROVE  SInv'
    <2>1. Rest /\ Excused \subseteq Excused'
      BY <1>0, <1>2 DEF SInv, DaemonStarted, SkipIsJustified, Excused, Skip
    <2>2. TaskOf[enable.seq] \in Excused'
      BY <1>0, <1>2, <2>1
    <2> QED  BY <1>2, <2>1, <2>2, FilesKept DEF SInv
  <1>3. CASE ExitIfSameSeq
    <2>1. CASE mrseq = enable.seq /\ Skip
      <3>1. TaskOf[enable.seq] \in Excused
        BY <1>0, <1>3, <2>1 DEF ExitIfSameSeq, SInv, SeqStarted, PastSeq, Later
      <3> QED  BY <1>2, <1>3, <2>1, <3>1 DEF ExitIfSameSeq
    <2>2. CASE EnableGoes("sameseq", "saveseq") /\ UNCHANGED skipped
      BY <1>3, <1>a, <2>2, FilesKept DEF ExitIfSameSeq, EnableGoes, SInv, PastSeq, Later
    <2> QED  BY <1>3, <2>1, <2>2 DEF ExitIfSameSeq
  <1>4. CASE EnableSaveSeq
    <2>1. /\ enable.pc = "saveseq" /\ enable'.pc = "sametask" /\ enable'.seq = enable.seq
          /\ mrseq' = enable.seq /\ UNCHANGED <<identity, daemon, starts, broken, skipped>>
      BY <1>0, <1>4, EnableGoesOn DEF EnableSaveSeq, EnablePc
    <2>2. Rest
      BY <1>a, <2>1
    <2> QED
      BY <2>1, <2>2 DEF SInv, IdentityStarted, SeqStarted, Excused, PastSeq, Stored
  <1>5. CASE EnableRaises
    <2>1. UNCHANGED <<mrseq, identity, daemon, starts, skipped>> /\ broken \subseteq broken'
          /\ TaskOf[enable.seq] \in Excused'
      BY <1>5 DEF EnableRaises, Excused
    <2> QED  BY <1>a, <2>1, FilesKept DEF SInv
  <1>6. CASE ExitIfSameTask
    <2>1. CASE identity = TaskOf[enable.seq] /\ Skip
      <3>1. TaskOf[enable.seq] \in Excused
        BY <1>0, <1>6, <2>1 DEF ExitIfSameTask, SInv, IdentityStarted, Stored
      <3> QED  BY <1>2, <1>6, <2>1, <3>1 DEF ExitIfSameTask
    <2>2. CASE EnableGoes("sametask", "saveid") /\ UNCHANGED skipped
      <3>1. enable.pc = "sametask" /\ enable'.pc = "saveid" /\ enable'.seq = enable.seq
        BY <1>0, <2>2, EnableGoesOn DEF EnablePc
      <3> QED
        BY <1>6, <1>a, <2>2, <3>1, FilesKept DEF ExitIfSameTask, SInv, PastSeq, Later, Stored
    <2> QED  BY <1>6, <2>1, <2>2 DEF ExitIfSameTask
  <1>7. CASE SaveIdentity
    <2>1. /\ enable.pc = "saveid" /\ enable'.pc = "write" /\ enable'.seq = enable.seq
          /\ identity' = TaskOf[enable.seq]
          /\ UNCHANGED <<mrseq, daemon, starts, broken, skipped>>
      BY <1>0, <1>7, EnableGoesOn DEF SaveIdentity, EnablePc
    <2>2. Rest
      BY <1>a, <2>1
    <2> QED
      BY <2>1, <2>2 DEF SInv, IdentityStarted, SeqStarted, Excused, PastSeq, Later, Stored
  <1>8. CASE EnableWrites
    <2>1. \/ enable.pc = "write" /\ enable'.pc = "rename" /\ enable'.seq = enable.seq
          \/ enable.pc = "writelast"
      BY <1>0, <1>8, EnableGoesOn DEF EnableWrites, EnablePc
    <2> QED
      BY <1>8, <1>a, <2>1, FilesKept DEF EnableWrites, SInv, PastSeq, Later, Stored
  <1>9. CASE EnableRenames
    <2>1. \/ enable.pc = "rename" /\ enable'.pc = "start" /\ enable'.seq = enable.seq
          \/ enable.pc = "renamelast"
      BY <1>0, <1>9, EnableGoesOn DEF EnableRenames, EnablePc
    <2> QED
      BY <1>9, <1>a, <2>1, FilesKept DEF EnableRenames, SInv, PastSeq, Later, Stored
  <1>10. CASE StartDaemon
    <2>1. /\ starts' = [starts EXCEPT ![TaskOf[enable.seq]] = starts[TaskOf[enable.seq]] + 1]
          /\ UNCHANGED <<mrseq, identity, broken, skipped>>
      BY <1>10 DEF StartDaemon
    <2>2. \A t \in Tasks : starts'[t] >= starts[t]
      BY <1>0, <2>1
    <2>3. starts'[TaskOf[enable.seq]] >= 1
      BY <1>0, <2>1
    <2>4. Excused \subseteq Excused'
      BY <1>0, <2>1, <2>2 DEF Excused
    <2>5. IdentityStarted' /\ SeqStarted'
      <3>1. TaskOf[enable.seq] \in Excused'
        BY <1>0, <2>3 DEF Excused
      <3> QED  BY <2>1, <2>4, <3>1, FilesKept
    <2>6. ASSUME NEW d \in Daemons, daemon'[d].pc # "off"
          PROVE  starts'[TaskOf[daemon'[d].seq]] >= 1
      <3>1. daemon'[d] = daemon[d] \/ daemon'[d].seq = enable.seq
        BY <1>0, <1>10 DEF StartDaemon, WorkersOK
      <3>2. CASE daemon'[d] = daemon[d]
        <4>1. daemon[d].seq \in Seqs /\ starts[TaskOf[daemon[d].seq]] >= 1
          BY <1>0, <2>6, <3>2 DEF WorkersOK, SInv, DaemonStarted
        <4>2. TaskOf[daemon[d].seq] \in Tasks
          BY <4>1, TaskAssumption
        <4> QED  BY <1>0, <2>2, <3>2, <4>1, <4>2, <2>1
      <3> QED  BY <2>3, <3>1, <3>2
    <2>7. SkipIsJustified'
      BY <1>0, <2>1, <2>2 DEF SInv, SkipIsJustified
    <2> QED  BY <2>5, <2>6, <2>7 DEF SInv, DaemonStarted
  <1>11. CASE EnableFails
    <2>1. /\ UNCHANGED <<mrseq, daemon, starts, skipped>> /\ broken \subseteq broken'
          /\ identity' = identity \/ identity' \notin Tasks
          /\ TaskOf[enable.seq] \in Excused'
      BY <1>11, TaskAssumption DEF EnableFails, Excused
    <2> QED  BY <1>a, <2>1, FilesKept DEF SInv
  <1> QED
    BY <1>1, <1>3, <1>4, <1>5, <1>6, <1>7, <1>8, <1>9, <1>10, <1>11 DEF Enable

LEMMA DaemonSkip == ASSUME UseEnv, NEW d \in Daemons PROVE TInv /\ SInv /\ Daemon(d) => SInv'
  <1> SUFFICES ASSUME TInv, SInv, Daemon(d) PROVE SInv'
    OBVIOUS
  <1>0. /\ UNCHANGED <<identity, enable, starts, broken, skipped>>
        /\ WorkersOK /\ daemon[d].pc # "off" /\ daemon[d].seq \in Seqs
    BY DaemonQuiet, TypeParts
       DEF TInv, WorkersOK, Daemon, DaemonParse, CheckMachine, DaemonStrips, Check,
           DaemonSavesSeq, DaemonWrites, DaemonRenames, Work, IsStatusFileExists, Goes
  <1>1. /\ mrseq' \in {mrseq, 0, daemon[d].seq}
        /\ \A e \in Daemons : daemon'[e].seq = daemon[e].seq
        /\ \A e \in Daemons : daemon[e].pc = "off" => daemon'[e].pc = "off"
    <2>1. CASE DaemonParse(d)
      BY <1>0, <2>1 DEF DaemonParse, SeqNo, WorkersOK, files
    <2>2. CASE \E from, to \in DaemonPc \ {"off"} : Goes(d, from, to)
      BY <1>0, <2>2, DaemonGoesOn
         DEF Daemon, DaemonParse, CheckMachine, DaemonStrips, Check, DaemonSavesSeq,
             DaemonWrites, DaemonRenames, Work, IsStatusFileExists, files
    <2>3. DaemonParse(d) \/ \E from, to \in DaemonPc \ {"off"} : Goes(d, from, to)
      BY DEF Daemon, CheckMachine, DaemonStrips, Check, DaemonSavesSeq, DaemonWrites,
             DaemonRenames, Work, IsStatusFileExists, DaemonPc
    <2> QED  BY <2>1, <2>2, <2>3
  <1>2. starts[TaskOf[daemon[d].seq]] >= 1
    BY <1>0 DEF SInv, DaemonStarted
  <1>3. IdentityStarted' /\ SeqStarted'
    <2>1. Excused' = Excused
      BY <1>0 DEF Excused
    <2>2. TaskOf[daemon[d].seq] \in Excused
      BY <1>0, <1>2, TaskAssumption DEF Excused
    <2> QED  BY <1>0, <1>1, <2>1, <2>2, FilesKept, NumberRange
  <1>4. DaemonStarted' /\ SkipIsJustified'
    BY <1>0, <1>1 DEF SInv, DaemonStarted, SkipIsJustified
  <1> QED  BY <1>3, <1>4 DEF SInv

LEMMA FaultSkip == TInv /\ SInv /\ Faults => SInv'
  <1> SUFFICES ASSUME TInv, SInv, Faults PROVE SInv'
    OBVIOUS
  <1>0. NoTask \notin Tasks /\ WorkersOK /\ UNCHANGED <<starts, skipped>>
        /\ broken \subseteq broken'
    BY TypeParts, TaskAssumption DEF TInv, Faults, KillEnable, KillDaemon, Reboot
  <1>1. /\ identity' = identity \/ identity' \notin Tasks
        /\ mrseq' = mrseq \/ mrseq' \notin Seqs
    BY <1>0, TornFiles, NumberRange DEF Faults, KillEnable, KillDaemon, Reboot
  <1>2. enable' = enable \/ enable.pc = "idle" \/ TaskOf[enable.seq] \in Excused'
    BY DEF Faults, KillEnable, KillDaemon, Reboot, Excused
  <1>3. IdentityStarted' /\ SeqStarted'
    BY <1>0, <1>1, <1>2, FilesKept DEF Excused, PastSeq, Later
  <1>4. \A d \in Daemons : daemon'[d].pc # "off" =>
            daemon[d].pc # "off" /\ daemon'[d].seq = daemon[d].seq
    <2>1. CASE KillEnable
      BY <2>1 DEF KillEnable
    <2>2. ASSUME NEW e \in Daemons, KillDaemon(e), NEW d \in Daemons, daemon'[d].pc # "off"
          PROVE  daemon[d].pc # "off" /\ daemon'[d].seq = daemon[d].seq
      BY <1>0, <2>2 DEF KillDaemon, WorkersOK
    <2>3. CASE Reboot
      <3>1. ASSUME NEW d \in Daemons, daemon[d].pc # "off"
            PROVE  daemon'[d] = [daemon[d] EXCEPT !.pc = "ended"]
        BY <2>3, <3>1 DEF Reboot
      <3>2. ASSUME NEW d \in Daemons, daemon[d].pc = "off"
            PROVE  daemon'[d].pc = "off"
        BY <2>3, <3>2 DEF Reboot, NoDaemon
      <3>3. \A d \in Daemons : daemon[d] \in Worker
        BY <1>0 DEF WorkersOK
      <3> QED  BY <3>1, <3>2, <3>3 DEF Worker
    <2> QED  BY <2>1, <2>2, <2>3 DEF Faults
  <1>5. DaemonStarted'
    BY <1>0, <1>4 DEF SInv, DaemonStarted
  <1>6. SkipIsJustified'
    BY <1>0 DEF SInv, SkipIsJustified
  <1> QED  BY <1>3, <1>5, <1>6 DEF SInv

LEMMA StepSkip == ASSUME UseEnv PROVE TInv /\ SInv /\ [Next]_vars => SInv'
  <1>1. TInv /\ SInv /\ UNCHANGED <<mrseq, identity, daemon, starts, broken, skipped>>
          /\ (enable' = enable \/ enable.pc = "idle") => SInv'
    <2> SUFFICES ASSUME TInv, SInv, enable' = enable \/ enable.pc = "idle",
                        UNCHANGED <<mrseq, identity, daemon, starts, broken, skipped>>
                 PROVE  SInv'
      OBVIOUS
    <2>1. IdentityStarted' /\ SeqStarted'
      BY FilesKept DEF Excused, PastSeq, Later
    <2> QED  BY <2>1 DEF SInv, DaemonStarted, SkipIsJustified
  <1>2. TInv /\ SInv /\ Agent => SInv'
    BY <1>1 DEF Agent, Deliver, Rerun, reports, bounds, history
  <1>3. TInv /\ SInv /\ UNCHANGED vars => SInv'
    BY <1>1 DEF vars, files, history
  <1> QED
    BY <1>2, <1>3, EnableSkip, DaemonSkip, FaultSkip DEF Next

\* A command is skipped only if its task has had its daemon, or a command of the
\* task broke off.
THEOREM SkipsAreJustified == ASSUME UseEnv PROVE Spec => []SkipIsJustified
  <1>1. SInv => SkipIsJustified
    BY DEF SInv
  <1> QED  BY <1>1, InitTypes, StepTypes, InitSkip, StepSkip, PTL DEF Spec

(***************************************************************************)
(* One snapshot per task.  Its only daemon may be run again, but what it   *)
(* reads is full only before the first run has taken the protected part    *)
(* out of the file, and that is before the snapshot: FullIsUnused,         *)
(* TakenOnce.                                                              *)
(***************************************************************************)
Original == {t \in Tasks : \A n \in rewritten : TaskOf[n] # t}
Before   == {"machine", "strip", "check", "saveseq", "write", "rename", "work"}

\* A daemon that has not taken the protected part out of its settings file.
Unstripped(w) == w.pc \in {"parse", "ended"} \/ (w.pc \in {"machine", "strip"} /\ w.got = "full")

DaemonGiven   == \A d \in Daemons : daemon[d].pc # "off" => daemon[d].seq <= given
DaemonsDiffer == \A d, e \in Daemons :
    (daemon[d].pc # "off" /\ daemon[e].pc # "off" /\ d # e) =>
        TaskOf[daemon[d].seq] # TaskOf[daemon[e].seq]
SnapsStarted  == \A t \in Tasks : snaps[t] >= 1 => starts[t] >= 1
FullIsUnused  == \A d \in Daemons :
    (daemon[d].pc # "off" /\ TaskOf[daemon[d].seq] \in Original
       /\ settings[daemon[d].seq] = "full") =>
        snaps[TaskOf[daemon[d].seq]] = 0 /\ Unstripped(daemon[d])
TakenOnce     == \A d \in Daemons :
    (daemon[d].pc \in Before /\ TaskOf[daemon[d].seq] \in Original /\ daemon[d].got = "full") =>
        snaps[TaskOf[daemon[d].seq]] = 0

QInv == /\ DaemonStarted /\ DaemonGiven /\ DaemonsDiffer /\ SnapsStarted
        /\ FullIsUnused /\ TakenOnce /\ \A t \in Original : snaps[t] <= 1

LEMMA InitSnaps == Init => QInv
  BY DEF Init, QInv, DaemonStarted, DaemonGiven, DaemonsDiffer, SnapsStarted, FullIsUnused,
         TakenOnce, Original, Before, NoDaemon

\* Steps that start no daemon, move none, and take no snapshot.
LEMMA QuietSnaps ==
    ASSUME TInv, QInv, UNCHANGED <<daemon, starts, snaps>>, given' >= given,
           rewritten \subseteq rewritten', given' \in Nat,
           \A n \in Seqs : (n <= given /\ TaskOf[n] \in Original' /\ settings'[n] = "full") =>
                               settings[n] = "full"
    PROVE  QInv'
  <1>1. Original' \subseteq Original
    BY DEF Original
  <1>2. \A d \in Daemons : daemon[d].pc # "off" => daemon[d].seq \in Seqs /\ daemon[d].seq <= given
    BY DEF TInv, TypeOK, QInv, DaemonGiven
  <1>3. DaemonGiven'
    BY <1>2 DEF DaemonGiven, Seqs, TInv, TypeOK
  <1>4. FullIsUnused'
    BY <1>1, <1>2 DEF QInv, FullIsUnused
  <1>5. TakenOnce'
    BY <1>1 DEF QInv, TakenOnce
  <1> QED
    BY <1>1, <1>3, <1>4, <1>5 DEF QInv, DaemonStarted, DaemonsDiffer, SnapsStarted

\* Steps of the daemons but for the snapshot itself.
LEMMA WorkerSnaps ==
    ASSUME TInv, QInv, UNCHANGED <<given, starts, snaps, rewritten>>,
           \A n \in Seqs : settings'[n] = "full" => settings[n] = "full",
           \A e \in Daemons : daemon'[e].pc # "off" =>
               /\ daemon[e].pc # "off" /\ daemon'[e].seq = daemon[e].seq
               /\ (settings'[daemon[e].seq] = "full" /\ Unstripped(daemon[e])) =>
                      Unstripped(daemon'[e])
               /\ (daemon'[e].pc \in Before /\ daemon'[e].got = "full") =>
                      \/ daemon[e].pc \in Before /\ daemon[e].got = "full"
                      \/ settings[daemon[e].seq] = "full"
    PROVE  QInv'
  <1>1. Original' = Original
    BY DEF Original
  <1>2. \A e \in Daemons : daemon[e].pc # "off" => daemon[e].seq \in Seqs
    BY DEF TInv, TypeOK
  <1>3. FullIsUnused'
    BY <1>1, <1>2 DEF QInv, FullIsUnused
  <1>4. TakenOnce'
    <2> SUFFICES ASSUME NEW e \in Daemons, daemon'[e].pc \in Before, daemon'[e].got = "full",
                        TaskOf[daemon'[e].seq] \in Original
                 PROVE  snaps[TaskOf[daemon'[e].seq]] = 0
      BY <1>1 DEF TakenOnce
    <2>1. daemon[e].pc # "off" /\ daemon'[e].seq = daemon[e].seq
      BY DEF Before
    <2> QED  BY <2>1 DEF QInv, FullIsUnused, TakenOnce, Before
  <1>5. DaemonStarted' /\ DaemonGiven'
    BY DEF QInv, DaemonStarted, DaemonGiven
  <1>6. DaemonsDiffer'
    BY DEF QInv, DaemonsDiffer
  <1> QED
    BY <1>1, <1>3, <1>4, <1>5, <1>6 DEF QInv, SnapsStarted

LEMMA AgentSnaps == TInv /\ QInv /\ Agent => QInv'
  <1> SUFFICES ASSUME TInv, QInv, Agent PROVE QInv'
    OBVIOUS
  <1>0. given \in Nat /\ settings \in [Seqs -> {Absent, "full", "bare"}]
    BY TaskAssumption DEF TInv, TypeOK
  <1>1. CASE Deliver
    BY <1>0, <1>1, QuietSnaps DEF Deliver, history, Seqs
  <1>2. CASE Rerun
    <2>1. \A n \in Seqs : (TaskOf[n] \in Original' /\ settings'[n] = "full") => settings[n] = "full"
      BY <1>0, <1>2 DEF Rerun, Original
    <2> QED  BY <1>0, <1>2, <2>1, QuietSnaps DEF Rerun
  <1> QED  BY <1>1, <1>2 DEF Agent

LEMMA StripKeeps ==
    ASSUME FilesOK, NEW n \in Seqs, NEW got, Strip(n, got)
    PROVE  \A m \in Seqs : settings'[m] = "full" => settings[m] = "full"
  BY DEF FilesOK, Strip

LEMMA EnableSnaps == ASSUME UseEnv PROVE TInv /\ OInv /\ QInv /\ Enable => QInv'
  <1> SUFFICES ASSUME TInv, OInv, QInv, Enable PROVE QInv'
    OBVIOUS
  <1>0. /\ enable.seq \in Seqs /\ TaskOf[enable.seq] \in Tasks /\ enable.seq = given
        /\ FilesOK /\ WorkersOK /\ CountsOK /\ given \in Nat
    BY TypeParts, TaskAssumption
       DEF Enable, EnableParse, ExitIfSameSeq, EnableSaveSeq, EnableRaises, ExitIfSameTask,
           SaveIdentity, EnableWrites, EnableRenames, StartDaemon, EnableFails, EnableGoes, CommandOK, TInv,
           OInv, CommandIsGiven, FilesOK
  <1> USE DEF files, reports, bounds, history
  <1>1. CASE EnableParse
    <2>1. \A n \in Seqs : settings'[n] = "full" => settings[n] = "full"
      BY <1>0, <1>1 DEF EnableParse, Absent
    <2> QED  BY <1>0, <1>1, <2>1, QuietSnaps DEF EnableParse
  <1>2. CASE ExitIfSameSeq
    <2>1. \A n \in Seqs : settings'[n] = "full" => settings[n] = "full"
      BY <1>0, <1>2, StripKeeps DEF ExitIfSameSeq
    <2> QED  BY <1>0, <1>2, <2>1, QuietSnaps DEF ExitIfSameSeq
  <1>3. CASE EnableRaises \/ EnableFails
    <2>1. \A n \in Seqs : settings'[n] = "full" => settings[n] = "full"
      BY <1>0, <1>3, StripKeeps DEF EnableRaises, EnableFails
    <2> QED  BY <1>0, <1>3, <2>1, QuietSnaps DEF EnableRaises, EnableFails
  <1>4. CASE EnableSaveSeq \/ ExitIfSameTask \/ SaveIdentity \/ EnableWrites \/ EnableRenames
    <2>1. UNCHANGED <<daemon, starts, snaps, settings, given, rewritten>>
      BY <1>4 DEF EnableSaveSeq, ExitIfSameTask, SaveIdentity, EnableWrites, EnableRenames
    <2> QED  BY <1>0, <2>1, QuietSnaps
  <1>5. CASE StartDaemon
    <2> DEFINE w == [pc |-> "parse", seq |-> enable.seq, got |-> Absent]
    <2>1. PICK d \in Daemons : daemon[d].pc = "off" /\ daemon' = [daemon EXCEPT ![d] = w]
      BY <1>5 DEF StartDaemon, Unstarted
    <2>2. \A e \in Daemons : daemon'[e] = IF e = d THEN w ELSE daemon[e]
      BY <1>0, <2>1 DEF WorkersOK
    <2>3. /\ UNCHANGED <<given, settings, snaps, rewritten>>
          /\ starts' = [starts EXCEPT ![TaskOf[enable.seq]] = starts[TaskOf[enable.seq]] + 1]
      BY <1>5 DEF StartDaemon
    <2>4. starts[TaskOf[enable.seq]] = 0 /\ snaps[TaskOf[enable.seq]] = 0
      BY <1>0, <1>5 DEF StartDaemon, OInv, TaskIsNew, Later, QInv, SnapsStarted, CountsOK
    <2>5. /\ \A t \in Tasks : starts[t] >= 1 => starts'[t] >= 1
          /\ starts'[TaskOf[enable.seq]] >= 1
      BY <1>0, <2>3 DEF CountsOK
    <2>6. ASSUME NEW e \in Daemons, daemon[e].pc # "off"
          PROVE  /\ daemon[e].seq \in Seqs /\ TaskOf[daemon[e].seq] \in Tasks
                 /\ starts[TaskOf[daemon[e].seq]] >= 1
                 /\ TaskOf[daemon[e].seq] # TaskOf[enable.seq]
      BY <1>0, <2>4, <2>6, TaskAssumption DEF WorkersOK, QInv, DaemonStarted
    <2>7. Original' = Original
      BY <2>3 DEF Original
    <2>8. DaemonStarted'
      <3> SUFFICES ASSUME NEW e \in Daemons, daemon'[e].pc # "off"
                   PROVE  starts'[TaskOf[daemon'[e].seq]] >= 1
        BY DEF DaemonStarted
      <3>1. CASE e = d
        BY <1>0, <2>2, <2>5, <3>1
      <3>2. CASE e # d
        BY <2>2, <2>5, <2>6, <3>2
      <3> QED  BY <3>1, <3>2
    <2>9. DaemonGiven'
      BY <1>0, <2>2, <2>3 DEF QInv, DaemonGiven
    <2>10. DaemonsDiffer'
      BY <2>2, <2>6 DEF QInv, DaemonsDiffer
    <2>11. SnapsStarted'
      BY <1>0, <2>3, <2>5 DEF QInv, SnapsStarted, CountsOK
    <2>12. FullIsUnused'
      BY <2>2, <2>3, <2>4, <2>7 DEF QInv, FullIsUnused, Unstripped
    <2>13. TakenOnce'
      BY <2>2, <2>3, <2>7 DEF QInv, TakenOnce, Before
    <2> QED
      BY <2>3, <2>7, <2>8, <2>9, <2>10, <2>11, <2>12, <2>13 DEF QInv
  <1> QED  BY <1>1, <1>2, <1>3, <1>4, <1>5 DEF Enable

LEMMA DaemonSnaps == ASSUME UseEnv, NEW d \in Daemons PROVE TInv /\ QInv /\ Daemon(d) => QInv'
  <1> SUFFICES ASSUME TInv, QInv, Daemon(d) PROVE QInv'
    OBVIOUS
  <1>0. /\ UNCHANGED <<given, starts, rewritten>> /\ FilesOK /\ WorkersOK /\ CountsOK
        /\ daemon[d].pc # "off" /\ daemon[d].seq \in Seqs
    BY TypeParts
       DEF TInv, WorkersOK, Daemon, DaemonParse, CheckMachine, DaemonStrips, Check,
           DaemonSavesSeq, DaemonWrites, DaemonRenames, Work, IsStatusFileExists, Goes,
           files, reports, bounds, history
  <1> DEFINE Alone == \A e \in Daemons \ {d} : daemon'[e] = daemon[e]
  <1>1. ASSUME NEW from \in DaemonPc, NEW to \in DaemonPc, Goes(d, from, to)
        PROVE  /\ Alone /\ daemon[d].pc = from /\ daemon'[d].pc = to
               /\ daemon'[d].seq = daemon[d].seq /\ daemon'[d].got = daemon[d].got
    <2>1. daemon[d] \in Worker
      BY <1>0 DEF WorkersOK
    <2> QED  BY <1>0, <1>1, <2>1 DEF Goes, WorkersOK, Worker
  <1>2. CASE DaemonParse(d)
    <2>1. /\ Alone /\ daemon'[d].seq = daemon[d].seq /\ daemon'[d].got = settings[daemon[d].seq]
          /\ daemon'[d].pc = IF settings[daemon[d].seq] = Absent THEN "ended" ELSE "machine"
      BY <1>0, <1>2 DEF DaemonParse, SeqNo, WorkersOK
    <2>2. UNCHANGED <<settings, snaps>>
      BY <1>2 DEF DaemonParse, files, history
    <2> QED
      BY <1>0, <2>1, <2>2, WorkerSnaps DEF Unstripped, Absent, Before
  <1>3. CASE DaemonStrips(d)
    <2>1. /\ Alone /\ daemon[d].pc = "strip" /\ daemon'[d].pc = "check"
          /\ daemon'[d].seq = daemon[d].seq /\ daemon'[d].got = daemon[d].got
      BY <1>1, <1>3 DEF DaemonStrips, DaemonPc
    <2>2. snaps' = snaps
      BY <1>3 DEF DaemonStrips, history
    <2>3. \A n \in Seqs : settings'[n] = "full" => settings[n] = "full"
      BY <1>0, <1>3, StripKeeps DEF DaemonStrips
    <2>4. settings'[daemon[d].seq] = "full" => ~Unstripped(daemon[d])
      BY <1>0, <1>3, <2>1 DEF DaemonStrips, Strip, Unstripped, FilesOK
    <2> QED
      BY <1>0, <2>1, <2>2, <2>3, <2>4, WorkerSnaps DEF Before
  <1>4. CASE Work(d)
    <2> DEFINE t == TaskOf[daemon[d].seq]
    <2>1. /\ Alone /\ daemon[d].pc = "work" /\ daemon'[d].pc = "exists"
          /\ daemon'[d].seq = daemon[d].seq /\ daemon'[d].got = daemon[d].got
      BY <1>1, <1>4 DEF Work, DaemonPc
    <2>2. settings' = settings /\ Original' = Original
      BY <1>0, <1>4 DEF Work, files, Original
    <2>3. t \in Tasks /\ starts[t] >= 1
      BY <1>0, TaskAssumption DEF QInv, DaemonStarted
    <2>4. CASE daemon[d].got # "full"
      BY <1>0, <1>4, <2>1, <2>2, <2>4, WorkerSnaps DEF Work, Unstripped, Before
    <2>5. CASE daemon[d].got = "full"
      <3>1. snaps' = [snaps EXCEPT ![t] = snaps[t] + 1]
        BY <1>4, <2>5 DEF Work
      <3>2. t \in Original => snaps[t] = 0 /\ settings[daemon[d].seq] # "full"
        BY <1>0, <2>1, <2>5 DEF QInv, TakenOnce, FullIsUnused, Before, Unstripped
      <3>3. /\ \A u \in Tasks \ {t} : snaps'[u] = snaps[u]
            /\ t \in Original => snaps'[t] = 1
        BY <1>0, <2>3, <3>1, <3>2 DEF CountsOK
      <3>4. ASSUME NEW e \in Daemons \ {d}, daemon[e].pc # "off"
            PROVE  TaskOf[daemon[e].seq] \in Tasks \ {t}
        BY <1>0, <3>4, TaskAssumption DEF WorkersOK, QInv, DaemonsDiffer
      <3>5. FullIsUnused'
        <4> SUFFICES ASSUME NEW e \in Daemons, daemon'[e].pc # "off",
                            TaskOf[daemon'[e].seq] \in Original, settings[daemon'[e].seq] = "full"
                     PROVE  snaps'[TaskOf[daemon'[e].seq]] = 0 /\ Unstripped(daemon'[e])
          BY <2>2 DEF FullIsUnused
        <4>1. e # d /\ daemon'[e] = daemon[e]
          BY <2>1, <3>2
        <4> QED  BY <3>3, <3>4, <4>1 DEF QInv, FullIsUnused
      <3>6. TakenOnce'
        <4> SUFFICES ASSUME NEW e \in Daemons, daemon'[e].pc \in Before,
                            TaskOf[daemon'[e].seq] \in Original, daemon'[e].got = "full"
                     PROVE  snaps'[TaskOf[daemon'[e].seq]] = 0
          BY <2>2 DEF TakenOnce
        <4>1. e # d /\ daemon'[e] = daemon[e] /\ daemon[e].pc # "off"
          BY <2>1 DEF Before
        <4> QED  BY <3>3, <3>4, <4>1 DEF QInv, TakenOnce
      <3>7. SnapsStarted'
        BY <1>0, <2>3, <3>3 DEF QInv, SnapsStarted
      <3>8. DaemonStarted' /\ DaemonGiven' /\ DaemonsDiffer'
        <4>1. \A e \in Daemons : /\ daemon'[e].seq = daemon[e].seq
                                 /\ daemon'[e].pc # "off" => daemon[e].pc # "off"
          BY <2>1
        <4> QED  BY <1>0, <4>1 DEF QInv, DaemonStarted, DaemonGiven, DaemonsDiffer
      <3>9. \A u \in Original' : snaps'[u] <= 1
        BY <2>2, <3>3 DEF QInv, Original
      <3> QED  BY <3>5, <3>6, <3>7, <3>8, <3>9 DEF QInv
    <2> QED  BY <2>4, <2>5
  <1>5. ASSUME NEW from \in DaemonPc \ {"off", "parse", "ended"},
               NEW to \in DaemonPc \ {"off", "parse"}, Goes(d, from, to),
               to \in Before => from \in Before, from \in {"machine", "strip"} => to = "strip",
               UNCHANGED <<settings, snaps>>
        PROVE  QInv'
    <2>1. /\ Alone /\ daemon[d].pc = from /\ daemon'[d].pc = to
          /\ daemon'[d].seq = daemon[d].seq /\ daemon'[d].got = daemon[d].got
      BY <1>1, <1>5
    <2> QED
      BY <1>0, <1>5, <2>1, WorkerSnaps DEF Unstripped
  <1>6. CASE CheckMachine(d)
    BY <1>5, <1>6 DEF CheckMachine, DaemonPc, Before, history
  <1>7. CASE Check(d)
    BY <1>5, <1>7 DEF Check, DaemonPc, Before, files, history
  <1>8. CASE DaemonSavesSeq(d)
    BY <1>5, <1>8 DEF DaemonSavesSeq, DaemonPc, Before, history
  <1>9. CASE DaemonWrites(d)
    BY <1>5, <1>9 DEF DaemonWrites, DaemonPc, Before, files, history
  <1>10. CASE DaemonRenames(d)
    BY <1>5, <1>10 DEF DaemonRenames, DaemonPc, Before, files, history
  <1>11. CASE IsStatusFileExists(d)
    BY <1>5, <1>11 DEF IsStatusFileExists, DaemonPc, Before, files, history
  <1> QED
    BY <1>2, <1>3, <1>4, <1>6, <1>7, <1>8, <1>9, <1>10, <1>11 DEF Daemon

LEMMA FaultSnaps == TInv /\ QInv /\ Faults => QInv'
  <1> SUFFICES ASSUME TInv, QInv, Faults PROVE QInv'
    OBVIOUS
  <1>0. WorkersOK /\ UNCHANGED <<given, starts, snaps, rewritten, settings>>
    BY TypeParts DEF TInv, Faults, KillEnable, KillDaemon, Reboot
  <1>1. ASSUME NEW e \in Daemons, daemon'[e].pc # "off"
        PROVE  /\ daemon[e].pc # "off" /\ daemon'[e].seq = daemon[e].seq
               /\ daemon'[e] = daemon[e] \/ daemon'[e].pc \in {"parse", "ended"}
    <2>1. daemon[e] \in Worker
      BY <1>0 DEF WorkersOK
    <2>2. CASE KillEnable
      BY <1>1, <2>2 DEF KillEnable
    <2>3. ASSUME NEW d \in Daemons, KillDaemon(d)
          PROVE  /\ daemon[e].pc # "off" /\ daemon'[e].seq = daemon[e].seq
                 /\ daemon'[e] = daemon[e] \/ daemon'[e].pc \in {"parse", "ended"}
      BY <1>0, <1>1, <2>1, <2>3 DEF KillDaemon, WorkersOK, Worker
    <2>4. CASE Reboot
      <3>1. CASE daemon[e].pc = "off"
        BY <1>1, <2>4, <3>1 DEF Reboot, NoDaemon
      <3>2. CASE daemon[e].pc # "off"
        <4>1. daemon'[e] = [daemon[e] EXCEPT !.pc = "ended"]
          BY <2>4, <3>2 DEF Reboot
        <4> QED  BY <2>1, <3>2, <4>1 DEF Worker
      <3> QED  BY <3>1, <3>2
    <2> QED  BY <2>2, <2>3, <2>4 DEF Faults
  <1> QED
    BY <1>0, <1>1, WorkerSnaps DEF Unstripped, Before

LEMMA StepSnaps == ASSUME UseEnv PROVE TInv /\ OInv /\ QInv /\ [Next]_vars => QInv'
  <1>1. TInv /\ QInv /\ UNCHANGED vars => QInv'
    <2> SUFFICES ASSUME TInv, QInv, UNCHANGED vars PROVE QInv'
      OBVIOUS
    <2>1. UNCHANGED <<daemon, starts, snaps, given, rewritten, settings>> /\ given \in Nat
      BY TaskAssumption DEF vars, files, history, TInv, TypeOK
    <2> QED  BY <2>1, QuietSnaps
  <1> QED
    BY <1>1, AgentSnaps, EnableSnaps, DaemonSnaps, FaultSnaps DEF Next

\* A task's snapshots are taken once, however often its daemon is killed and run
\* again, unless the agent has written the settings of one of its numbers anew.
THEOREM OneSnapshotPerTask == ASSUME UseEnv PROVE Spec => []SnapshotOnce
  <1>1. TInv /\ QInv => SnapshotOnce
    BY DEF TInv, TypeOK, QInv, Original, SnapshotOnce
  <1> QED
    BY <1>1, InitTypes, StepTypes, InitOne, StepOne, InitSnaps, StepSnaps, PTL DEF Spec

(***************************************************************************)
(* The ledger of tasks: every step is one of its steps, or none.           *)
(***************************************************************************)
\* A daemon works for the number it was started with, until it has ended.
LEMMA WorkerStep ==
    ASSUME UseEnv, NEW d \in Daemons, WorkersOK, Daemon(d)
    PROVE  /\ \A e \in Daemons \ {d} : daemon'[e] = daemon[e]
           /\ daemon[d].pc \notin {"off", "ended"}
           /\ daemon'[d].pc # "off" /\ daemon'[d].seq = daemon[d].seq
  <1>1. CASE DaemonParse(d)
    BY <1>1 DEF DaemonParse, SeqNo, WorkersOK
  <1>2. ASSUME NEW from \in DaemonPc \ {"off", "ended"}, NEW to \in DaemonPc \ {"off"},
               Goes(d, from, to)
        PROVE  /\ \A e \in Daemons \ {d} : daemon'[e] = daemon[e]
               /\ daemon[d].pc \notin {"off", "ended"}
               /\ daemon'[d].pc # "off" /\ daemon'[d].seq = daemon[d].seq
    <2>1. daemon[d] \in Worker
      BY DEF WorkersOK
    <2> QED  BY <1>2, <2>1 DEF Goes, WorkersOK, Worker
  <1>3. \/ DaemonParse(d)
        \/ \E from \in DaemonPc \ {"off", "ended"}, to \in DaemonPc \ {"off"} : Goes(d, from, to)
    BY DEF Daemon, CheckMachine, DaemonStrips, Check, DaemonSavesSeq, DaemonWrites,
           DaemonRenames, Work, IsStatusFileExists, DaemonPc
  <1> QED  BY <1>1, <1>2, <1>3

LEMMA FaultStep ==
    ASSUME WorkersOK, Faults, NEW e \in Daemons
    PROVE  /\ daemon'[e].pc # "off" <=> daemon[e].pc # "off"
           /\ daemon[e].pc # "off" => daemon'[e].seq = daemon[e].seq
           /\ ~Reboot => (daemon'[e].pc = "ended" <=> daemon[e].pc = "ended")
           /\ Reboot /\ daemon[e].pc # "off" => daemon'[e].pc = "ended"
  <1>1. daemon[e] \in Worker
    BY DEF WorkersOK
  <1>2. CASE KillEnable /\ ~Reboot
    BY <1>2 DEF KillEnable
  <1>3. ASSUME NEW d \in Daemons, KillDaemon(d), ~Reboot
        PROVE  /\ daemon'[e].pc # "off" <=> daemon[e].pc # "off"
               /\ daemon'[e].seq = daemon[e].seq
               /\ daemon'[e].pc = "ended" <=> daemon[e].pc = "ended"
    BY <1>1, <1>3 DEF KillDaemon, WorkersOK, Worker
  <1>4. CASE Reboot
    <2>1. CASE daemon[e].pc = "off"
      BY <1>4, <2>1 DEF Reboot, NoDaemon
    <2>2. CASE daemon[e].pc # "off"
      <3>1. daemon'[e] = [daemon[e] EXCEPT !.pc = "ended"]
        BY <1>4, <2>2 DEF Reboot
      <3> QED  BY <1>1, <1>4, <2>2, <3>1 DEF Worker
    <2> QED  BY <2>1, <2>2
  <1> QED  BY <1>2, <1>3, <1>4 DEF Faults

LEMMA StartRecord ==
    ASSUME WorkersOK, StartDaemon
    PROVE  \E d \in Daemons :
               /\ daemon[d].pc = "off" /\ daemon'[d].pc = "parse" /\ daemon'[d].seq = enable.seq
               /\ \A e \in Daemons \ {d} : daemon'[e] = daemon[e]
  <1> DEFINE w == [pc |-> "parse", seq |-> enable.seq, got |-> Absent]
  <1>1. PICK d \in Daemons : daemon[d].pc = "off" /\ daemon' = [daemon EXCEPT ![d] = w]
    BY DEF StartDaemon, Unstarted
  <1> QED  BY <1>1 DEF WorkersOK

\* Who was started is still there.
StartedStays == \A t \in Tasks : starts[t] >= 1 =>
                    \E d \in Daemons : daemon[d].pc # "off" /\ TaskOf[daemon[d].seq] = t

LEMMA InitStays == Init => StartedStays
  BY DEF Init, StartedStays

LEMMA StepStays == ASSUME UseEnv PROVE TInv /\ OInv /\ StartedStays /\ [Next]_vars => StartedStays'
  <1> SUFFICES ASSUME TInv, OInv, StartedStays, [Next]_vars PROVE StartedStays'
    OBVIOUS
  <1>0. WorkersOK /\ CountsOK
    BY TypeParts DEF TInv
  <1>1. ASSUME starts' = starts,
               \A d \in Daemons : daemon[d].pc # "off" =>
                   daemon'[d].pc # "off" /\ daemon'[d].seq = daemon[d].seq
        PROVE  StartedStays'
    BY <1>1 DEF StartedStays
  <1>2. CASE UNCHANGED <<starts, daemon>>
    BY <1>1, <1>2
  <1>3. CASE StartDaemon
    <2>1. PICK d \in Daemons :
               /\ daemon[d].pc = "off" /\ daemon'[d].pc = "parse" /\ daemon'[d].seq = enable.seq
               /\ \A e \in Daemons \ {d} : daemon'[e] = daemon[e]
      BY <1>0, <1>3, StartRecord
    <2>2. \A t \in Tasks \ {TaskOf[enable.seq]} : starts'[t] = starts[t]
      BY <1>0, <1>3 DEF StartDaemon, CountsOK
    <2> QED  BY <2>1, <2>2 DEF StartedStays
  <1>4. ASSUME NEW d \in Daemons, Daemon(d) PROVE StartedStays'
    BY <1>0, <1>1, <1>4, WorkerStep, DaemonQuiet
  <1>5. CASE Faults
    <2>1. starts' = starts
      BY <1>5 DEF Faults, KillEnable, KillDaemon, Reboot
    <2> QED  BY <1>0, <1>1, <1>5, <2>1, FaultStep
  <1>6. CASE Enable /\ ~StartDaemon
    BY <1>2, <1>6
       DEF Enable, EnableParse, ExitIfSameSeq, EnableSaveSeq, EnableRaises, ExitIfSameTask,
           SaveIdentity, EnableWrites, EnableRenames, EnableFails, history
  <1>7. CASE Agent \/ UNCHANGED vars
    BY <1>2, <1>7 DEF Agent, Deliver, Rerun, vars, history
  <1> QED  BY <1>3, <1>4, <1>5, <1>6, <1>7 DEF Next

\* A step that leaves alone what the ledger is made of.
LEMMA QuietLedger ==
    ASSUME UNCHANGED <<given, daemon, snaps, skipped, broken, rewritten>>
    PROVE  UNCHANGED Ledger!ledger
  BY DEF Ledger!ledger, Task, Past, WorkOf, StateOf, Taken, Again

\* A step of daemons that begin or end no work.
LEMMA SameWork ==
    ASSUME \A d \in Daemons : /\ daemon'[d].pc # "off" <=> daemon[d].pc # "off"
                              /\ daemon[d].pc # "off" => daemon'[d].seq = daemon[d].seq
    PROVE  WorkOf' = WorkOf
  BY DEF WorkOf

LEMMA EndIsNext == ASSUME NEW S \in SUBSET Daemons, Ledger!End(S) PROVE Ledger!Next
  BY DEF Ledger!Next

LEMMA AgentKeepsLedger == TInv /\ TInv' /\ Agent => [Ledger!Next]_(Ledger!ledger)
  <1> SUFFICES ASSUME TInv, TInv', Agent PROVE [Ledger!Next]_(Ledger!ledger)
    OBVIOUS
  <1>0. given \in 0 .. LastSeq /\ UNCHANGED <<daemon, snaps, skipped, broken>>
    BY DEF TInv, TypeOK, Agent, Deliver, Rerun, history
  <1>1. WorkOf' = WorkOf /\ StateOf' = StateOf /\ Taken' = Taken
    BY <1>0 DEF WorkOf, StateOf, Taken
  <1>2. CASE Deliver
    <2> DEFINE n == given + 1
               t == TaskOf[n]
    <2>1. n \in Seqs /\ given' = n /\ n # 0 /\ rewritten' = rewritten /\ t \in Tasks
      BY <1>0, <1>2, TaskAssumption DEF Deliver, Seqs, history
    <2>2. Task' = t /\ Past' = Past \cup {t}
      <3>1. 1 .. n = (1 .. given) \cup {n}
        BY <1>0, TaskAssumption
      <3> QED  BY <2>1, <3>1 DEF Task, Past
    <2>3. t = Task \/ t \notin Past
      <3> SUFFICES ASSUME NEW i \in 1 .. given, TaskOf[i] = t PROVE Task = t
        BY DEF Past
      <3>1. i \in Seqs /\ given \in Seqs /\ i <= given /\ given < n /\ given # 0
        BY <1>0, <2>1, TaskAssumption DEF Seqs
      <3>2. CASE i = given
        BY <3>1, <3>2 DEF Task
      <3>3. CASE i < given
        BY <2>1, <3>1, <3>3, TaskAssumption DEF Task
      <3> QED  BY <3>1, <3>2, <3>3 DEF Seqs
    <2>4. Again' = Again
      BY <2>1 DEF Again
    <2> HIDE DEF t
    <2>5. Ledger!Order(t)
      BY <1>0, <1>1, <2>2, <2>3, <2>4 DEF Ledger!Order
    <2> QED  BY <2>1, <2>5 DEF Ledger!Next
  <1>3. CASE Rerun
    <2>1. given \in Seqs /\ given # 0 /\ given' = given
      BY <1>0, <1>3, TaskAssumption DEF Rerun, Seqs
    <2>2. Task \in Tasks /\ Task' = Task /\ Past' = Past /\ Task = TaskOf[given]
      BY <2>1, TaskAssumption DEF Task, Past
    <2>3. CASE rewritten' = rewritten
      BY <1>0, <2>1, <2>3, QuietLedger
    <2>4. CASE rewritten' = rewritten \cup {given}
      <3>1. Again' = Again \cup {Task}
        BY <2>2, <2>4 DEF Again
      <3>2. Ledger!OrderAgain
        BY <1>0, <1>1, <2>2, <3>1 DEF Ledger!OrderAgain
      <3> QED  BY <3>2 DEF Ledger!Next
    <2> QED  BY <1>3, <2>3, <2>4 DEF Rerun
  <1> QED  BY <1>2, <1>3 DEF Agent

LEMMA EnableKeepsLedger ==
    ASSUME UseEnv, TInv, OInv, SInv, SInv', StartedStays, Enable PROVE [Ledger!Next]_(Ledger!ledger)
  <1>0. /\ enable.seq \in Seqs /\ enable.seq = given /\ given # 0 /\ WorkersOK /\ CountsOK
        /\ Task = TaskOf[given] /\ Task \in Tasks
    BY TypeParts, TaskAssumption, NumberRange
       DEF Enable, EnableParse, ExitIfSameSeq, EnableSaveSeq, EnableRaises, ExitIfSameTask,
           SaveIdentity, EnableWrites, EnableRenames, StartDaemon, EnableFails, EnableGoes, CommandOK, TInv,
           OInv, CommandIsGiven, Task
  <1> USE DEF files, reports, bounds, history
  <1>1. CASE Skip /\ UNCHANGED <<given, daemon, starts, snaps, broken, rewritten>>
    <2>1. skipped' = skipped \cup {Task}
      BY <1>0, <1>1 DEF Skip
    <2>2. starts[Task] >= 1 \/ Task \in broken
      BY <1>1, <2>1 DEF SInv, SkipIsJustified
    <2>3. Task \in broken \/ \E w \in Daemons : WorkOf[w] = Task
      BY <1>0, <2>2 DEF StartedStays, WorkOf
    <2>4. /\ Task' = Task /\ Past' = Past /\ WorkOf' = WorkOf /\ StateOf' = StateOf
          /\ Taken' = Taken /\ Again' = Again
      BY <1>1 DEF Task, Past, WorkOf, StateOf, Taken, Again
    <2>5. Ledger!Drop
      BY <1>0, <1>1, <2>1, <2>3, <2>4 DEF Ledger!Drop
    <2> QED  BY <2>5 DEF Ledger!Next
  <1>2. CASE EnableRaises \/ EnableFails
    <2>1. /\ Task' = Task /\ Past' = Past /\ WorkOf' = WorkOf /\ StateOf' = StateOf
          /\ Taken' = Taken /\ Again' = Again /\ skipped' = skipped /\ broken' = broken \cup {Task}
      BY <1>0, <1>2 DEF EnableRaises, EnableFails, Task, Past, WorkOf, StateOf, Taken, Again
    <2>2. StateOf' = [w \in Daemons |-> IF w \in {} THEN "over" ELSE StateOf[w]]
      BY <2>1 DEF StateOf
    <2>3. Ledger!End({})
      BY <2>1, <2>2 DEF Ledger!End
    <2> QED  BY <2>3, EndIsNext
  <1>3. CASE StartDaemon
    <2>1. PICK d \in Daemons :
               /\ daemon[d].pc = "off" /\ daemon'[d].pc = "parse" /\ daemon'[d].seq = enable.seq
               /\ \A e \in Daemons \ {d} : daemon'[e] = daemon[e]
      BY <1>0, <1>3, StartRecord
    <2>2. starts[Task] = 0
      BY <1>0, <1>3 DEF StartDaemon, OInv, TaskIsNew, Later
    <2>3. \A v \in Daemons : WorkOf[v] # Task
      <3> SUFFICES ASSUME NEW v \in Daemons, WorkOf[v] = Task PROVE FALSE
        OBVIOUS
      <3>1. NoTask # Task
        BY <1>0, TaskAssumption
      <3>2. daemon[v].pc # "off" /\ TaskOf[daemon[v].seq] = Task
        BY <3>1 DEF WorkOf
      <3>3. starts[Task] >= 1
        BY <3>2 DEF SInv, DaemonStarted
      <3> QED  BY <2>2, <3>3
    <2>4. WorkOf' = [WorkOf EXCEPT ![d] = Task]
      BY <1>0, <2>1 DEF WorkOf
    <2>5. StateOf[d] = "none" /\ StateOf' = [StateOf EXCEPT ![d] = "working"]
      BY <2>1 DEF StateOf
    <2>6. /\ Task' = Task /\ Past' = Past /\ Taken' = Taken /\ Again' = Again
          /\ UNCHANGED <<skipped, broken>>
      BY <1>3 DEF StartDaemon, Task, Past, Taken, Again
    <2>7. Ledger!Begin(d)
      BY <1>0, <2>3, <2>4, <2>5, <2>6 DEF Ledger!Begin
    <2> QED  BY <2>7 DEF Ledger!Next
  <1>4. CASE UNCHANGED <<given, daemon, snaps, skipped, broken, rewritten>>
    BY <1>4, QuietLedger
  <1>5. \/ Skip /\ UNCHANGED <<given, daemon, starts, snaps, broken, rewritten>>
        \/ EnableRaises \/ EnableFails \/ StartDaemon
        \/ UNCHANGED <<given, daemon, snaps, skipped, broken, rewritten>>
    BY DEF Enable, EnableParse, ExitIfSameSeq, EnableSaveSeq, ExitIfSameTask, SaveIdentity,
           EnableWrites, EnableRenames
  <1> QED  BY <1>1, <1>2, <1>3, <1>4, <1>5

LEMMA DaemonKeepsLedger ==
    ASSUME UseEnv, NEW d \in Daemons, TInv, QInv, Daemon(d)
    PROVE  [Ledger!Next]_(Ledger!ledger)
  <1>0. /\ WorkersOK /\ CountsOK
        /\ UNCHANGED <<given, skipped, broken, rewritten>>
        /\ daemon[d].seq \in Seqs /\ TaskOf[daemon[d].seq] \in Tasks
    BY TypeParts, DaemonQuiet, WorkerStep, TaskAssumption
       DEF TInv, WorkersOK, Daemon, DaemonParse, CheckMachine, DaemonStrips, Check,
           DaemonSavesSeq, DaemonWrites, DaemonRenames, Work, IsStatusFileExists,
           files, reports, bounds, history
  <1>1. /\ \A e \in Daemons \ {d} : daemon'[e] = daemon[e]
        /\ daemon[d].pc \notin {"off", "ended"}
        /\ daemon'[d].pc # "off" /\ daemon'[d].seq = daemon[d].seq
    BY <1>0, WorkerStep
  <1>2. /\ Task' = Task /\ Past' = Past /\ Again' = Again
        /\ WorkOf' = WorkOf /\ StateOf[d] = "working"
    BY <1>0, <1>1, SameWork DEF Task, Past, Again, StateOf
  <1>3. CASE Work(d) /\ daemon[d].got = "full"
    <2> DEFINE t == TaskOf[daemon[d].seq]
    <2>1. /\ daemon[d].pc = "work" /\ daemon'[d].pc = "exists"
          /\ snaps' = [snaps EXCEPT ![t] = snaps[t] + 1]
      <3>1. daemon[d] \in Worker
        BY <1>0 DEF WorkersOK
      <3> QED  BY <1>0, <1>3, <3>1 DEF Work, Goes, WorkersOK, Worker
    <2>2. StateOf' = StateOf /\ WorkOf[d] = t
      BY <1>1, <2>1 DEF StateOf, WorkOf
    <2>3. Taken' = Taken \cup {t}
      BY <1>0, <2>1 DEF Taken, CountsOK
    <2>4. t \in Taken => t \in Again
      <3> SUFFICES ASSUME t \in Taken, t \in Original PROVE FALSE
        BY <1>0 DEF Original, Again
      <3> QED  BY <1>0, <1>3, <2>1 DEF QInv, TakenOnce, Before, Taken
    <2> HIDE DEF t
    <2>5. Ledger!Take(d)
      BY <1>0, <1>2, <2>2, <2>3, <2>4 DEF Ledger!Take
    <2> QED  BY <2>5 DEF Ledger!Next
  <1>4. CASE snaps' = snaps
    <2>1. Taken' = Taken
      BY <1>4 DEF Taken
    <2>2. CASE daemon'[d].pc = "ended"
      <3>1. StateOf' = [w \in Daemons |-> IF w \in {d} THEN "over" ELSE StateOf[w]]
        BY <1>1, <2>2 DEF StateOf
      <3>2. Ledger!End({d})
        BY <1>0, <1>2, <2>1, <3>1 DEF Ledger!End
      <3> QED  BY <3>2, EndIsNext
    <2>3. CASE daemon'[d].pc # "ended"
      <3>1. StateOf' = StateOf
        BY <1>1, <2>3 DEF StateOf
      <3> QED  BY <1>0, <1>2, <2>1, <3>1 DEF Ledger!ledger
    <2> QED  BY <2>2, <2>3
  <1>5. (Work(d) /\ daemon[d].got = "full") \/ snaps' = snaps
    BY DEF Daemon, DaemonParse, CheckMachine, DaemonStrips, Check, DaemonSavesSeq, DaemonWrites,
           DaemonRenames, Work, IsStatusFileExists, history
  <1> QED  BY <1>3, <1>4, <1>5

LEMMA FaultKeepsLedger == ASSUME TInv, OInv, Faults PROVE Ledger!Next
  <1>0. /\ WorkersOK /\ UNCHANGED <<given, snaps, skipped, rewritten>>
        /\ given \in 0 .. LastSeq
        /\ enable.pc # "idle" => enable.seq \in Seqs /\ enable.seq = given
    BY TypeParts
       DEF TInv, TypeOK, OInv, CommandOK, CommandIsGiven, Faults, KillEnable, KillDaemon, Reboot
  <1>1. enable.pc # "idle" => TaskOf[enable.seq] = Task
    BY <1>0, NumberRange, TaskAssumption DEF Task, Seqs
  <1>2. /\ Task' = Task /\ Past' = Past /\ Again' = Again /\ Taken' = Taken /\ WorkOf' = WorkOf
    BY <1>0, FaultStep, SameWork DEF Task, Past, Again, Taken
  <1>3. /\ broken \subseteq broken'
        /\ \A t \in broken' \ broken : t = Task \/ \E w \in Daemons : WorkOf[w] = t
                                                                  /\ StateOf[w] = "working"
    BY <1>1 DEF Faults, KillEnable, KillDaemon, Reboot, WorkOf, StateOf
  <1>4. CASE ~Reboot
    <2>1. StateOf' = [w \in Daemons |-> IF w \in {} THEN "over" ELSE StateOf[w]]
      BY <1>0, <1>4, FaultStep DEF StateOf
    <2>2. Ledger!End({})
      BY <1>0, <1>2, <1>3, <2>1 DEF Ledger!End
    <2> QED  BY <2>2, EndIsNext
  <1>5. CASE Reboot
    <2> DEFINE S == {d \in Daemons : daemon[d].pc \notin {"off", "ended"}}
    <2>1. StateOf' = [w \in Daemons |-> IF w \in S THEN "over" ELSE StateOf[w]]
      BY <1>0, <1>5, FaultStep DEF StateOf
    <2>2. \A w \in S : StateOf[w] = "working"
      BY DEF StateOf
    <2>3. Ledger!End(S)
      BY <1>0, <1>2, <1>3, <2>1, <2>2 DEF Ledger!End
    <2> QED  BY <2>3, EndIsNext
  <1> QED  BY <1>4, <1>5

LEMMA InitLedger == Init => Ledger!Init
  <1> SUFFICES ASSUME Init PROVE Ledger!Init
    OBVIOUS
  <1>1. Task = NoTask /\ Past = {} /\ skipped = {} /\ broken = {} /\ Again = {}
    BY DEF Init, Task, Past, Again
  <1>2. WorkOf = [w \in Daemons |-> NoTask] /\ StateOf = [w \in Daemons |-> "none"]
    BY DEF Init, WorkOf, StateOf, NoDaemon
  <1>3. Taken = {}
    BY DEF Init, Taken
  <1> QED  BY <1>1, <1>2, <1>3 DEF Ledger!Init

LEMMA StepLedger ==
    ASSUME UseEnv
    PROVE  TInv /\ TInv' /\ OInv /\ SInv /\ SInv' /\ QInv /\ StartedStays /\ [Next]_vars
               => [Ledger!Next]_(Ledger!ledger)
  <1> SUFFICES ASSUME TInv, TInv', OInv, SInv, SInv', QInv, StartedStays, [Next]_vars
               PROVE  [Ledger!Next]_(Ledger!ledger)
    OBVIOUS
  <1>1. CASE UNCHANGED vars
    BY <1>1, QuietLedger DEF vars, history
  <1>2. CASE Agent
    BY <1>2, AgentKeepsLedger
  <1>3. CASE Enable
    BY <1>3, EnableKeepsLedger
  <1>4. ASSUME NEW d \in Daemons, Daemon(d) PROVE [Ledger!Next]_(Ledger!ledger)
    BY <1>4, DaemonKeepsLedger
  <1>5. CASE Faults
    BY <1>5, FaultKeepsLedger
  <1> QED  BY <1>1, <1>2, <1>3, <1>4, <1>5 DEF Next

\* BackupEnable implements TaskLedger: only the last task ordered is begun, and dropped;
\* its one daemon takes its snapshots once, unless its settings were written again, and
\* does nothing once it has ended, whatever is killed or torn.
THEOREM BackupKeepsLedger == ASSUME UseEnv PROVE Spec => TaskSpec
  <1>1. Spec => [](TInv /\ OInv /\ SInv /\ QInv /\ StartedStays)
    BY InitTypes, StepTypes, InitOne, StepOne, InitSkip, StepSkip, InitSnaps, StepSnaps,
       InitStays, StepStays, PTL DEF Spec
  <1> QED  BY <1>1, InitLedger, StepLedger, PTL DEF Spec, TaskSpec, Ledger!Spec
==============================================================================
