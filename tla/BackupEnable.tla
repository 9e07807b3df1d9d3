---------------------------- MODULE BackupEnable ----------------------------
(***************************************************************************)
(* VMBackup from the guest agent's command to the snapshot: enable() and   *)
(* daemon() of main/handle.py, handle.sh around both, and the files they   *)
(* share.                                                                  *)
(*                                                                         *)
(* For a sequence number n the agent writes n.settings and runs "handle.sh *)
(* enable".  Enable renames the settings and status files of all other     *)
(* numbers, leaves if it finds n in mrseq or the task in the identity file,*)
(* and else starts a daemon, for which it does not wait.  The daemon reads *)
(* the settings again, takes the protected part out of the file, does the  *)
(* work and writes n.status.  Enable n + 1 may run beside daemon n.  All   *)
(* they have is these files: there is no lock.                             *)
(***************************************************************************)
EXTENDS Integers, FiniteSets

CONSTANTS LastSeq,    \* bound: sequence numbers 1 .. LastSeq; 0 stands for -1
          Tasks,      \* task identities
          TaskOf,     \* the task of each sequence number
          NoTask,     \* the identity file is missing or empty
          Daemons,    \* bound: daemons that may be started
          UseEnv,     \* does the agent set ConfigSequenceNumber?
          MaxReruns,  \* bound: restarts of the agent
          MaxKills    \* bound: kills and reboots

Seqs == 1 .. LastSeq

\* A task's numbers follow one another: the service does not come back to an old
\* one.
ASSUME TaskAssumption ==
    /\ LastSeq \in Nat \ {0}
    /\ TaskOf \in [Seqs -> Tasks] /\ NoTask \notin Tasks
    /\ \A i, j, k \in Seqs :
           (i < j /\ j < k /\ TaskOf[i] = TaskOf[k]) => TaskOf[j] = TaskOf[i]
ASSUME BoundAssumption == UseEnv \in BOOLEAN /\ MaxReruns \in Nat /\ MaxKills \in Nat

VARIABLES given,     \* the last sequence number the agent has handled
          settings,  \* n.settings: absent, full, or bare of its protected part
          freshest,  \* the settings file with the newest time stamp
          mrseq,     \* the file mrseq
          identity,  \* the task identity file
          status,    \* n.status: absent, or the report in it
          temp,      \* the temporary status file: absent, or what it holds
          restored,  \* does the machine identity differ from the stored one?
          enable,    \* the enable command: where it is, and its number
          daemon,    \* each daemon: where it is, its number, the settings it read
          reruns, kills,
          starts,    \* history, per task: daemons started
          snaps,     \* history, per task: snapshots with the protected settings
          skipped,   \* history: tasks of which a command was skipped
          broken,    \* history: tasks with an enable or daemon that broke off
          rewritten  \* history: numbers whose settings the agent wrote again

files   == <<settings, freshest, mrseq, identity>>
reports == <<status, temp>>
history == <<starts, snaps, skipped, broken, rewritten>>
bounds  == <<reruns, kills>>
vars    == <<given, files, reports, restored, enable, daemon, bounds, history>>

Absent   == "absent"
NoReport == <<0, "none">>
Empty    == <<0, "empty">>
Report   == {NoReport, Empty} \cup (Seqs \X {"transition", "final"})
EnablePc == {"idle", "parse", "sameseq", "saveseq", "sametask", "saveid", "write",
             "rename", "start", "writelast", "renamelast"}
DaemonPc == {"off", "parse", "machine", "strip", "check", "saveseq", "write", "rename",
             "work", "exists", "writelast", "renamelast", "ended"}

Idle     == [pc |-> "idle", seq |-> 0]
NoDaemon == [pc |-> "off", seq |-> 0, got |-> Absent]

Init == /\ given = 0 /\ mrseq = 0 /\ identity = NoTask
        /\ settings = [n \in Seqs |-> Absent] /\ freshest = 0
        /\ status = [n \in Seqs |-> NoReport] /\ temp = NoReport
        /\ restored \in BOOLEAN
        /\ enable = Idle /\ daemon = [d \in Daemons |-> NoDaemon]
        /\ reruns = 0 /\ kills = 0
        /\ starts = [t \in Tasks |-> 0] /\ snaps = [t \in Tasks |-> 0]
        /\ skipped = {} /\ broken = {} /\ rewritten = {}

(* Mutant: the environment is not looked at. *)
MutSeqNoFreshest(n) == freshest

\* try_parse_context: the number of the environment, else of the freshest file.
\* The environment of enable is that of its daemon, too.
SeqNo(n) == IF UseEnv THEN n ELSE freshest

\* update_settings_file: a file without its protected part is not written.
Strip(n, got) ==
    IF got = "full"
      THEN settings' = [settings EXCEPT ![n] = "bare"] /\ freshest' = n
      ELSE UNCHANGED <<settings, freshest>>

\* write_to_status_file: everybody's temporary file has the same name.
WriteTemp(report) == temp' = report /\ UNCHANGED status

(* Mutant: a status file that is there already is kept. *)
MutRenameTempKeeps(n) ==
    /\ temp' = NoReport
    /\ status' = IF status[n] # NoReport THEN status ELSE [status EXCEPT ![n] = temp]

RenameTemp(n) ==
    /\ temp' = NoReport
    /\ status' = IF temp = NoReport THEN status ELSE [status EXCEPT ![n] = temp]

(***************************************************************************)
(* The guest agent: one command at a time, and the last one again after a  *)
(* restart.  It may then write the settings again.                         *)
(***************************************************************************)
Deliver ==
    /\ enable.pc = "idle" /\ given < LastSeq
    /\ given' = given + 1
    /\ settings' = [settings EXCEPT ![given + 1] = "full"] /\ freshest' = given + 1
    /\ enable' = [pc |-> "parse", seq |-> given + 1]
    /\ UNCHANGED <<mrseq, identity, reports, restored, daemon, bounds, history>>

Rerun ==
    /\ enable.pc = "idle" /\ given > 0 /\ reruns < MaxReruns
    /\ reruns' = reruns + 1
    /\ enable' = [pc |-> "parse", seq |-> given]
    /\ \/ /\ settings' = [settings EXCEPT ![given] = "full"] /\ freshest' = given
          /\ rewritten' = rewritten \cup {given}
       \/ UNCHANGED <<settings, freshest, rewritten>>
    /\ UNCHANGED <<given, mrseq, identity, reports, restored, daemon, kills,
                   starts, snaps, skipped, broken>>

(***************************************************************************)
(* enable()                                                                *)
(***************************************************************************)
EnableGoes(from, to) == enable.pc = from /\ enable' = [enable EXCEPT !.pc = to]

\* do_parse_context and backup_settings_status_file.
EnableParse ==
    /\ enable.pc = "parse"
    /\ LET n == SeqNo(enable.seq)
       IN /\ enable' = [pc |-> "sameseq", seq |-> n]
          /\ settings' = [m \in Seqs |-> IF m = n THEN settings[m] ELSE Absent]
          /\ status' = [m \in Seqs |-> IF m = n THEN status[m] ELSE NoReport]
          /\ freshest' = n
    /\ UNCHANGED <<given, mrseq, identity, temp, restored, daemon, bounds, history>>

Skip == skipped' = skipped \cup {TaskOf[enable.seq]} /\ enable' = Idle

(* Mutant: the number is saved before it is compared. *)
MutExitIfSameSeqSavesFirst ==
    /\ enable.pc = "sameseq" /\ mrseq' = enable.seq
    /\ Skip /\ Strip(enable.seq, settings[enable.seq])
    /\ UNCHANGED <<given, identity, reports, restored, daemon, bounds,
                   starts, snaps, broken, rewritten>>

ExitIfSameSeq ==
    /\ enable.pc = "sameseq"
    /\ \/ /\ mrseq = enable.seq
          /\ Skip /\ Strip(enable.seq, settings[enable.seq])
       \/ /\ mrseq # enable.seq
          /\ EnableGoes("sameseq", "saveseq") /\ UNCHANGED <<settings, freshest, skipped>>
    /\ UNCHANGED <<given, mrseq, identity, reports, restored, daemon, bounds,
                   starts, snaps, broken, rewritten>>

EnableSaveSeq ==
    /\ EnableGoes("saveseq", "sametask") /\ mrseq' = enable.seq
    /\ UNCHANGED <<given, settings, freshest, identity, reports, restored, daemon, bounds, history>>

\* The settings cannot be read: without a parser there is no report, either, and
\* write() of None leaves an empty temporary file.
EnableRaises ==
    /\ enable.pc = "sametask"
    /\ enable' = Idle /\ Strip(enable.seq, settings[enable.seq]) /\ WriteTemp(Empty)
    /\ broken' = broken \cup {TaskOf[enable.seq]}
    /\ UNCHANGED <<given, mrseq, identity, restored, daemon, bounds,
                   starts, snaps, skipped, rewritten>>

(* Mutant: the stored identity is not looked at. *)
MutExitIfSameTaskNever ==
    /\ EnableGoes("sametask", "saveid")
    /\ UNCHANGED <<given, files, reports, restored, daemon, bounds, history>>

(* Mutant: no stored identity counts as the same one. *)
MutExitIfSameTaskNone ==
    /\ enable.pc = "sametask"
    /\ \/ identity \in {TaskOf[enable.seq], NoTask} /\ Skip
       \/ /\ identity \notin {TaskOf[enable.seq], NoTask}
          /\ EnableGoes("sametask", "saveid") /\ UNCHANGED skipped
    /\ UNCHANGED <<given, files, reports, restored, daemon, bounds,
                   starts, snaps, broken, rewritten>>

ExitIfSameTask ==
    /\ enable.pc = "sametask"
    /\ \/ identity = TaskOf[enable.seq] /\ Skip
       \/ /\ identity # TaskOf[enable.seq]
          /\ EnableGoes("sametask", "saveid") /\ UNCHANGED skipped
    /\ UNCHANGED <<given, files, reports, restored, daemon, bounds,
                   starts, snaps, broken, rewritten>>

(* Mutant: the number is stored for the task. *)
MutSaveIdentitySeq ==
    /\ EnableGoes("saveid", "write") /\ identity' = enable.seq
    /\ UNCHANGED <<given, settings, freshest, mrseq, reports, restored, daemon, bounds, history>>

SaveIdentity ==
    /\ EnableGoes("saveid", "write") /\ identity' = TaskOf[enable.seq]
    /\ UNCHANGED <<given, settings, freshest, mrseq, reports, restored, daemon, bounds, history>>

EnableWrites ==
    /\ \/ EnableGoes("write", "rename") /\ WriteTemp(<<enable.seq, "transition">>)
       \/ EnableGoes("writelast", "renamelast") /\ WriteTemp(<<enable.seq, "final">>)
    /\ UNCHANGED <<given, files, restored, daemon, bounds, history>>

EnableRenames ==
    /\ \/ EnableGoes("rename", "start")
       \/ enable.pc = "renamelast" /\ enable' = Idle
    /\ RenameTemp(enable.seq)
    /\ UNCHANGED <<given, files, restored, daemon, bounds, history>>

Unstarted == {d \in Daemons : daemon[d].pc = "off"}

StartDaemon ==
    /\ enable.pc = "start"
    /\ Unstarted # {}
    /\ daemon' = [daemon EXCEPT ![CHOOSE d \in Unstarted : TRUE] =
                     [pc |-> "parse", seq |-> enable.seq, got |-> Absent]]
    /\ starts' = [starts EXCEPT ![TaskOf[enable.seq]] = @ + 1]
    /\ enable' = Idle
    /\ UNCHANGED <<given, files, reports, restored, bounds, snaps, skipped, broken, rewritten>>

\* The identity cannot be read or stored, or the daemon not be started: there is a
\* report of the error instead.  save_identity empties the file before it writes it.
EnableFails ==
    /\ enable.pc \in {"sametask", "saveid", "start"}
    /\ enable' = [enable EXCEPT !.pc = "writelast"]
    /\ identity' = identity \/ (enable.pc = "saveid" /\ identity' = NoTask)
    /\ Strip(enable.seq, settings[enable.seq])
    /\ broken' = broken \cup {TaskOf[enable.seq]}
    /\ UNCHANGED <<given, mrseq, reports, restored, daemon, bounds,
                   starts, snaps, skipped, rewritten>>

Enable == \/ EnableParse \/ ExitIfSameSeq \/ EnableSaveSeq \/ EnableRaises \/ ExitIfSameTask
          \/ SaveIdentity \/ EnableWrites \/ EnableRenames \/ StartDaemon \/ EnableFails

(***************************************************************************)
(* daemon()                                                                *)
(***************************************************************************)
Goes(d, from, to) == daemon[d].pc = from /\ daemon' = [daemon EXCEPT ![d].pc = to]

DaemonParse(d) ==
    /\ daemon[d].pc = "parse"
    /\ LET n == SeqNo(daemon[d].seq)
       IN daemon' = [daemon EXCEPT ![d] =
                       [pc  |-> IF settings[n] = Absent THEN "ended" ELSE "machine",
                        seq |-> n, got |-> settings[n]]]
    /\ UNCHANGED <<given, files, reports, restored, enable, bounds, history>>

\* The machine was restored from a backup: mrseq is of another life.
CheckMachine(d) ==
    /\ Goes(d, "machine", "strip")
    /\ restored' = FALSE
    /\ mrseq' = IF restored THEN 0 ELSE mrseq
    /\ UNCHANGED <<given, settings, freshest, identity, reports, enable, bounds, history>>

(* Mutant: the protected part is removed in memory only. *)
MutDaemonStripsNoWrite(d) ==
    /\ Goes(d, "strip", "check")
    /\ UNCHANGED <<given, files, reports, restored, enable, bounds, history>>

DaemonStrips(d) ==
    /\ Goes(d, "strip", "check") /\ Strip(daemon[d].seq, daemon[d].got)
    /\ UNCHANGED <<given, mrseq, identity, reports, restored, enable, bounds, history>>

\* The checks before the work: a failing one goes to exit_with_commit_log.
Check(d) ==
    /\ Goes(d, "check", "saveseq") \/ Goes(d, "check", "writelast")
    /\ UNCHANGED <<given, files, reports, restored, enable, bounds, history>>

DaemonSavesSeq(d) ==
    /\ Goes(d, "saveseq", "write") /\ mrseq' = daemon[d].seq
    /\ UNCHANGED <<given, settings, freshest, identity, reports, restored, enable, bounds, history>>

DaemonWrites(d) ==
    /\ \/ Goes(d, "write", "rename") /\ WriteTemp(<<daemon[d].seq, "transition">>)
       \/ Goes(d, "writelast", "renamelast") /\ WriteTemp(<<daemon[d].seq, "final">>)
    /\ UNCHANGED <<given, files, restored, enable, bounds, history>>

DaemonRenames(d) ==
    /\ \/ Goes(d, "rename", "work") \/ Goes(d, "renamelast", "ended")
    /\ RenameTemp(daemon[d].seq)
    /\ UNCHANGED <<given, files, restored, enable, bounds, history>>

\* Without the protected settings there are no blobs to take a snapshot of.
Work(d) ==
    /\ Goes(d, "work", "exists")
    /\ snaps' = IF daemon[d].got = "full"
                  THEN [snaps EXCEPT ![TaskOf[daemon[d].seq]] = @ + 1] ELSE snaps
    /\ UNCHANGED <<given, files, reports, restored, enable, bounds,
                   starts, skipped, broken, rewritten>>

\* The final report, unless a later enable has renamed the status file.
IsStatusFileExists(d) ==
    /\ Goes(d, "exists", IF status[daemon[d].seq] = NoReport THEN "ended" ELSE "writelast")
    /\ UNCHANGED <<given, files, reports, restored, enable, bounds, history>>

Daemon(d) == \/ DaemonParse(d) \/ CheckMachine(d) \/ DaemonStrips(d) \/ Check(d)
             \/ DaemonSavesSeq(d) \/ DaemonWrites(d) \/ DaemonRenames(d) \/ Work(d)
             \/ IsStatusFileExists(d)

(***************************************************************************)
(* Faults                                                                  *)
(***************************************************************************)
\* A file that is being written when its writer dies is empty.
Torn(pcs) ==
    /\ mrseq' \in {mrseq} \cup {0 : pc \in pcs \cap {"saveseq", "machine"}}
    /\ identity' \in {identity} \cup {NoTask : pc \in pcs \cap {"saveid"}}

\* A killed python: handle.sh runs the command again with its next interpreter.
KillEnable ==
    /\ kills < MaxKills /\ enable.pc # "idle"
    /\ kills' = kills + 1 /\ Torn({enable.pc})
    /\ broken' = broken \cup {TaskOf[enable.seq]}
    /\ enable' = [enable EXCEPT !.pc = "parse"]
    /\ UNCHANGED <<given, settings, freshest, reports, restored, daemon, reruns,
                   starts, snaps, skipped, rewritten>>

KillDaemon(d) ==
    /\ kills < MaxKills /\ daemon[d].pc \notin {"off", "ended"}
    /\ kills' = kills + 1 /\ Torn({daemon[d].pc})
    /\ broken' = broken \cup {TaskOf[daemon[d].seq]}
    /\ daemon' = [daemon EXCEPT ![d].pc = "parse"]
    /\ UNCHANGED <<given, settings, freshest, reports, restored, enable, reruns,
                   starts, snaps, skipped, rewritten>>

Reboot ==
    /\ kills < MaxKills
    /\ kills' = kills + 1 /\ Torn({enable.pc} \cup {daemon[d].pc : d \in Daemons})
    /\ broken' = broken \cup {TaskOf[daemon[d].seq] : d \in {x \in Daemons :
                                     daemon[x].pc \notin {"off", "ended"}}}
                        \cup (IF enable.pc = "idle" THEN {} ELSE {TaskOf[enable.seq]})
    /\ enable' = Idle
    /\ daemon' = [d \in Daemons |-> IF daemon[d].pc = "off" THEN NoDaemon
                                    ELSE [daemon[d] EXCEPT !.pc = "ended"]]
    /\ UNCHANGED <<given, settings, freshest, reports, restored, reruns,
                   starts, snaps, skipped, rewritten>>

Agent  == Deliver \/ Rerun
Faults == KillEnable \/ Reboot \/ \E d \in Daemons : KillDaemon(d)

Next == Agent \/ Enable \/ (\E d \in Daemons : Daemon(d)) \/ Faults

Spec == Init /\ [][Next]_vars

\* Processes run.  Nothing is assumed of the agent.
LiveSpec == Spec /\ WF_vars(Enable) /\ \A d \in Daemons : WF_vars(Daemon(d))

-----------------------------------------------------------------------------
(***************************************************************************)
(* Properties.                                                             *)
(***************************************************************************)
\* Types (enable, daemon, and the files of HandlerUtil).
TypeOK ==
    /\ given \in 0 .. LastSeq
    /\ settings \in [Seqs -> {Absent, "full", "bare"}]
    /\ freshest \in 0 .. LastSeq /\ mrseq \in 0 .. LastSeq
    /\ identity \in Tasks \cup {NoTask}
    /\ status \in [Seqs -> Report] /\ temp \in Report
    /\ restored \in BOOLEAN
    /\ enable \in [pc : EnablePc, seq : 0 .. LastSeq]
    /\ daemon \in [Daemons -> [pc : DaemonPc, seq : 0 .. LastSeq,
                               got : {Absent, "full", "bare"}]]
    /\ enable.pc # "idle" => enable.seq \in Seqs
    /\ \A d \in Daemons : daemon[d].pc # "off" => daemon[d].seq \in Seqs
    /\ reruns \in Nat /\ kills \in Nat
    /\ starts \in [Tasks -> Nat] /\ snaps \in [Tasks -> Nat]
    /\ skipped \in SUBSET Tasks /\ broken \in SUBSET Tasks
    /\ rewritten \in SUBSET Seqs

\* A task's daemon is started at most once, although a daemon may set mrseq back
\* to its own, older number or to -1, the agent runs commands again, and the files
\* are torn by kills and reboots: mrseq alone would not do.
\* (enable: exit_if_same_seq, exit_if_same_taskId)
OneDaemonPerTask == \A t \in Tasks : starts[t] <= 1

\* A task's snapshots are taken once, although handle.sh runs a killed daemon
\* again: the second run finds the settings bare, unless the agent has written
\* them anew.  (daemon: update_settings_file)
SnapshotOnce ==
    \A t \in Tasks : snaps[t] > 1 => \E n \in rewritten : TaskOf[n] = t

\* A command is skipped only if a daemon was started for its task, or one of its
\* commands broke off and the files are what that one left.
SkipIsJustified == skipped \subseteq {t \in Tasks : starts[t] >= 1} \cup broken

\* The ledger of VMBackup's tasks: a worker is a daemon, and it is through when it has
\* ended; kills let it begin anew.
Task  == IF given = 0 THEN NoTask ELSE TaskOf[given]
Past  == {TaskOf[n] : n \in 1 .. given}
WorkOf  == [d \in Daemons |-> IF daemon[d].pc = "off" THEN NoTask ELSE TaskOf[daemon[d].seq]]
StateOf == [d \in Daemons |-> IF daemon[d].pc = "off" THEN "none"
                              ELSE IF daemon[d].pc = "ended" THEN "over" ELSE "working"]
Taken == {t \in Tasks : snaps[t] >= 1}
Again == {TaskOf[n] : n \in rewritten}

Ledger == INSTANCE TaskLedger WITH
    Nothing <- NoTask, Workers <- Daemons, task <- Task, past <- Past, work <- WorkOf,
    state <- StateOf, taken <- Taken, again <- Again

\* BackupEnable implements TaskLedger: through mrseq, identity, settings and reports that
\* commands and daemons share without a lock, a daemon begins only for the last task
\* ordered, only that one's commands are skipped, and snapshots are taken by a daemon
\* at work, a second time only after the settings were written again.
\* (enable, daemon, handle.sh)
TaskSpec == Ledger!Spec

\* Every command of the agent leads to a daemon of its task, unless one of its
\* commands broke off.  (enable)
CommandsSettle ==
    \A n \in Seqs : given = n ~> (starts[TaskOf[n]] >= 1 \/ TaskOf[n] \in broken)

\* A daemon that runs alone ends with a final report in the status file of its
\* number, unless it is superseded or breaks off.  (write_to_status_file)
FinalReport ==
    \A d \in Daemons, n \in Seqs :
        (daemon[d].pc = "machine" /\ daemon[d].seq = n) ~>
            \/ status[n] = <<n, "final">>
            \/ given > n \/ TaskOf[n] \in broken
            \/ \E e \in Daemons \ {d} : daemon[e] # NoDaemon
==============================================================================
