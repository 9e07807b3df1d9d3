---------------------------- MODULE CustomScript ----------------------------
(***************************************************************************)
(* CustomScript: customscript.py, with Utils/HandlerUtil.py and            *)
(* Utils/ScriptUtil.py, which other handlers use in the same way.          *)
(*                                                                         *)
(* Enable compares the number of the freshest settings with mrseq, saves   *)
(* it, launches a daemon and only then reports that it does.  The daemon   *)
(* looks for the freshest settings once more, downloads the files, runs    *)
(* the script and reports.  Each number has a status file and a temporary  *)
(* one, shared by all that report on it.  The agent runs one command at a  *)
(* time, but nobody waits for a daemon.                                    *)
(***************************************************************************)
EXTENDS Integers

CONSTANTS LastSeq,     \* bound: sequence numbers 1 .. LastSeq; 0 stands for -1
          Daemons,     \* bound: daemons that may be launched
          RetryCount,  \* retrycount of the settings
          MaxReruns,   \* bound: commands besides one enable for each number
          MaxKills     \* bound: kills and reboots

Seqs == 1 .. LastSeq

ASSUME ScriptAssumption == LastSeq \in Nat /\ RetryCount \in Nat
                           /\ MaxReruns \in Nat /\ MaxKills \in Nat

VARIABLES given,   \* the number of the freshest settings, the agent's last one
          bad,     \* numbers without exactly one command to execute
          mrseq,   \* the file mrseq
          status,  \* n.status
          temp,    \* n.status.tmp
          command, \* where the agent's command is; its number is given
          daemon,  \* each daemon, with its script
          reruns, kills,
          astray,  \* history: numbers mixed up by a daemon that was overtaken
          late,    \* history: numbers with enable's report after the daemon's last one
          broken,  \* history: numbers with a command or daemon that was killed
          disabled \* history: numbers with a report of disable

files   == <<mrseq, status, temp>>
bounds  == <<reruns, kills>>
history == <<astray, late, broken, disabled>>
vars    == <<given, bad, files, command, daemon, bounds, history>>

NoReport  == "none"
Reports   == {NoReport, "launching", "disabled", "progress", "success", "failed"}

\* The status of a report.  "disabled" is dummy_command's report, of operation Disable
\* (or Install, Update, Uninstall): its status is "success", as that of a script.
StatusOf(report) == IF report = "disabled" THEN "success" ELSE report
Final(report)    == StatusOf(report) \in {"success", "failed"}

CommandPc == {"idle", "check", "save", "start", "launched", "refused", "disable", "rename"}
DaemonPc  == {"off", "parse", "fetch", "fetchrename", "load", "dns", "run", "poll",
              "pollrename", "succeed", "fail", "lastrename", "ended"}

\* of: the number of the enable that launched it; seq: the number it works for.
NoDaemon == [pc |-> "off", of |-> 0, seq |-> 0, tries |-> 0, left |-> 0, slept |-> 0,
             script |-> "none"]

Init == /\ given = 0 /\ mrseq = 0 /\ bad = {}
        /\ status = [n \in Seqs |-> NoReport] /\ temp = [n \in Seqs |-> NoReport]
        /\ command = "idle" /\ daemon = [d \in Daemons |-> NoDaemon]
        /\ reruns = 0 /\ kills = 0
        /\ astray = {} /\ late = {} /\ broken = {} /\ disabled = {}

\* do_status_report: all that report on n have one temporary file, and rename()
\* raises if another one has renamed it.
Write(n, report) == temp' = [temp EXCEPT ![n] = report] /\ UNCHANGED status
CanRename(n) == temp[n] # NoReport
Rename(n) == /\ temp' = [temp EXCEPT ![n] = NoReport]
             /\ status' = IF CanRename(n) THEN [status EXCEPT ![n] = temp[n]] ELSE status

(***************************************************************************)
(* The guest agent: new settings, enable once more, or another command.    *)
(***************************************************************************)
Deliver ==
    /\ command = "idle" /\ given < LastSeq
    /\ given' = given + 1 /\ command' = "check" /\ bad' \in {bad, bad \cup {given + 1}}
    /\ UNCHANGED <<files, daemon, bounds, history>>

Rerun ==
    /\ command = "idle" /\ given > 0 /\ reruns < MaxReruns
    /\ reruns' = reruns + 1 /\ command' \in {"check", "disable"}
    /\ UNCHANGED <<given, bad, files, daemon, kills, history>>

(***************************************************************************)
(* enable() and dummy_command()                                            *)
(***************************************************************************)
(* Mutant: the same number is not yet "smaller". *)
MutExitIfSeqSmaller ==
    /\ command = "check"
    /\ command' = IF given < mrseq THEN "idle" ELSE "save"
    /\ UNCHANGED <<given, bad, files, daemon, bounds, history>>

ExitIfSeqSmaller ==
    /\ command = "check"
    /\ command' = IF given <= mrseq THEN "idle" ELSE "save"
    /\ UNCHANGED <<given, bad, files, daemon, bounds, history>>

SaveSeq ==
    /\ command = "save"
    /\ mrseq' = given /\ command' = "start"
    /\ UNCHANGED <<given, bad, status, temp, daemon, bounds, history>>

Unstarted == {d \in Daemons : daemon[d].pc = "off"}

StartDaemon ==
    /\ command = "start" /\ given \notin bad /\ Unstarted # {}
    /\ daemon' = [daemon EXCEPT ![CHOOSE d \in Unstarted : TRUE] =
                     [NoDaemon EXCEPT !.pc = "parse", !.of = given]]
    /\ command' = "launched"
    /\ UNCHANGED <<given, bad, files, bounds, history>>

\* get_command_to_execute finds two commands, or start_daemon none.
Refuse ==
    /\ command = "start" /\ given \in bad
    /\ command' = "refused"
    /\ UNCHANGED <<given, bad, files, daemon, bounds, history>>

\* The daemon has written its last report, or ended, before enable reports.
Late == late' = late \cup {n \in {given} : \E d \in Daemons :
                             /\ daemon[d].seq = n
                             /\ daemon[d].pc \in {"lastrename", "ended"}}

CommandWrites ==
    /\ \/ command = "launched" /\ Write(given, "launching") /\ Late /\ UNCHANGED disabled
       \/ command = "refused"  /\ Write(given, "failed") /\ UNCHANGED <<late, disabled>>
       \/ /\ command = "disable" /\ Write(given, "disabled")
          /\ disabled' = disabled \cup {given} /\ UNCHANGED late
    /\ command' = "rename"
    /\ UNCHANGED <<given, bad, mrseq, daemon, bounds, astray, broken>>

\* do_exit: an exception of do_status_report is only logged.
CommandRenames ==
    /\ command = "rename"
    /\ Rename(given) /\ command' = "idle"
    /\ UNCHANGED <<given, bad, mrseq, daemon, bounds, history>>

Command == ExitIfSeqSmaller \/ SaveSeq \/ StartDaemon \/ Refuse \/ CommandWrites \/ CommandRenames

(***************************************************************************)
(* daemon()                                                                *)
(***************************************************************************)
Goes(d, from, to) == daemon[d].pc = from /\ daemon' = [daemon EXCEPT ![d].pc = to]

\* Whatever settings are the freshest by now.  Two commands, and settings that raise
\* before the first download (customscript.py:116, :276), end the daemon; no command
\* is noticed when it is to run.
DaemonParse(d) ==
    /\ daemon[d].pc = "parse"
    /\ \E pc \in {"fetch", "fail"} :
           daemon' = [daemon EXCEPT ![d].seq = given, ![d].pc = pc]
    /\ astray' = IF daemon[d].of = given THEN astray
                 ELSE astray \cup {daemon[d].of, given}
    /\ UNCHANGED <<given, bad, files, command, bounds, late, broken, disabled>>

(* Mutant: download_files_with_retry returns retry_count. *)
MutFetchedAllLeft(d) ==
    daemon' = [daemon EXCEPT ![d].pc = "dns", ![d].left = RetryCount]

Fetched(d) ==
    daemon' = [daemon EXCEPT ![d].pc = "dns", ![d].left = RetryCount - daemon[d].tries]

\* The retry loops are over, and their local variables gone.
Leaves(d, to, script) ==
    daemon' = [daemon EXCEPT ![d].pc = to, ![d].script = script,
                             ![d].tries = 0, ![d].left = 0, ![d].slept = 0]

\* An attempt to download fails: sleep and try again, or raise.
Missed(d) ==
    IF daemon[d].tries < RetryCount
      THEN daemon' = [daemon EXCEPT ![d].pc = "fetch", ![d].tries = @ + 1, ![d].slept = @ + 1]
      ELSE Leaves(d, "fail", "none")

DownloadFiles(d) ==
    /\ Write(daemon[d].seq, "progress")
    /\ Goes(d, "fetch", "fetchrename")
    /\ UNCHANGED <<given, bad, mrseq, command, bounds, history>>

NoFileUris(d) ==
    /\ daemon[d].pc = "fetch" /\ daemon[d].tries = 0
    /\ Fetched(d)
    /\ UNCHANGED <<given, bad, files, command, bounds, history>>

DownloadRenames(d) ==
    /\ daemon[d].pc = "fetchrename"
    /\ Rename(daemon[d].seq)
    /\ IF CanRename(daemon[d].seq) THEN Goes(d, "fetchrename", "load") ELSE Missed(d)
    /\ UNCHANGED <<given, bad, mrseq, command, bounds, history>>

Download(d) ==
    /\ daemon[d].pc = "load"
    /\ Fetched(d) \/ Missed(d)
    /\ UNCHANGED <<given, bad, files, command, bounds, history>>

\* Ready, not to be checked, or no retries left: go on in any case.
CheckIdns(d) ==
    /\ daemon[d].pc = "dns"
    /\ \/ Goes(d, "dns", "run")
       \/ /\ daemon[d].left > 0
          /\ daemon' = [daemon EXCEPT ![d].left = @ - 1, ![d].slept = @ + 1]
    /\ UNCHANGED <<given, bad, files, command, bounds, history>>

\* No command or Popen raises, or the script runs.
RunCommand(d) ==
    /\ daemon[d].pc = "run"
    /\ \/ Leaves(d, "fail", "none")
       \/ daemon[d].seq \notin bad /\ Leaves(d, "poll", "running")
    /\ UNCHANGED <<given, bad, files, command, bounds, history>>

ScriptEnds(d) ==
    /\ daemon[d].script = "running"
    /\ \E end \in {"ok", "error"} : daemon' = [daemon EXCEPT ![d].script = end]
    /\ UNCHANGED <<given, bad, files, command, bounds, history>>

PollRunning(d) ==
    /\ Goes(d, "poll", "pollrename") /\ daemon[d].script = "running"
    /\ Write(daemon[d].seq, "progress")
    /\ UNCHANGED <<given, bad, mrseq, command, bounds, history>>

(* Mutant: when the report cannot be renamed the command is launched again. *)
MutPollRenamesRunsAgain(d) ==
    /\ Goes(d, "pollrename", IF CanRename(daemon[d].seq) THEN "poll" ELSE "run")
    /\ Rename(daemon[d].seq)
    /\ UNCHANGED <<given, bad, mrseq, command, bounds, history>>

(* Mutant: when the report cannot be renamed the daemon ends without another. *)
MutPollRenamesEnds(d) ==
    /\ Goes(d, "pollrename", IF CanRename(daemon[d].seq) THEN "poll" ELSE "ended")
    /\ Rename(daemon[d].seq)
    /\ UNCHANGED <<given, bad, mrseq, command, bounds, history>>

PollRenames(d) ==
    /\ Goes(d, "pollrename", IF CanRename(daemon[d].seq) THEN "poll" ELSE "fail")
    /\ Rename(daemon[d].seq)
    /\ UNCHANGED <<given, bad, mrseq, command, bounds, history>>

PollEnded(d) ==
    /\ daemon[d].script \in {"ok", "error"}
    /\ Goes(d, "poll", IF daemon[d].script = "ok" THEN "succeed" ELSE "fail")
    /\ UNCHANGED <<given, bad, files, command, bounds, history>>

(* Mutant: exit_code is still 0 when something raises. *)
MutPollRaisesZero(d) ==
    /\ Goes(d, "poll", "succeed")
    /\ UNCHANGED <<given, bad, files, command, bounds, history>>

\* tail() raises, as of output that is not UTF-8, with the script running or not.
PollRaises(d) ==
    /\ Goes(d, "poll", "fail")
    /\ UNCHANGED <<given, bad, files, command, bounds, history>>

FinalWrites(d) ==
    /\ \/ Goes(d, "succeed", "lastrename") /\ Write(daemon[d].seq, "success")
       \/ Goes(d, "fail", "lastrename") /\ Write(daemon[d].seq, "failed")
    /\ UNCHANGED <<given, bad, mrseq, command, bounds, history>>

FinalRenames(d) ==
    /\ Goes(d, "lastrename", "ended") /\ Rename(daemon[d].seq)
    /\ UNCHANGED <<given, bad, mrseq, command, bounds, history>>

Daemon(d) == \/ DaemonParse(d) \/ DownloadFiles(d) \/ NoFileUris(d) \/ DownloadRenames(d)
             \/ Download(d) \/ CheckIdns(d) \/ RunCommand(d) \/ PollRunning(d)
             \/ PollRenames(d) \/ PollEnded(d) \/ PollRaises(d) \/ FinalWrites(d)
             \/ FinalRenames(d)

(***************************************************************************)
(* Faults                                                                  *)
(***************************************************************************)
\* The file is truncated before it is written.
Torn == mrseq' \in {mrseq} \cup {0 : c \in {command} \cap {"save"}}

KillCommand ==
    /\ kills < MaxKills /\ command # "idle"
    /\ kills' = kills + 1 /\ Torn /\ command' = "idle"
    /\ broken' = broken \cup {given}
    /\ UNCHANGED <<given, bad, status, temp, daemon, reruns, astray, late, disabled>>

\* Its script goes on.
KillDaemon(d) ==
    /\ kills < MaxKills /\ daemon[d].pc \notin {"off", "ended"}
    /\ kills' = kills + 1
    /\ daemon' = [daemon EXCEPT ![d].pc = "ended"]
    /\ broken' = broken \cup {daemon[d].of}
    /\ UNCHANGED <<given, bad, files, command, reruns, astray, late, disabled>>

Halted(r) == [r EXCEPT !.pc = IF r.pc = "off" THEN "off" ELSE "ended",
                       !.script = IF r.script = "running" THEN "killed" ELSE r.script]

Reboot ==
    /\ kills < MaxKills /\ given > 0
    /\ kills' = kills + 1 /\ Torn /\ command' = "idle"
    /\ daemon' = [d \in Daemons |-> Halted(daemon[d])]
    /\ broken' = broken \cup {n \in Seqs : \/ n = given /\ command # "idle"
                                           \/ \E d \in Daemons : /\ daemon[d].of = n
                                                                 /\ daemon[d].pc # "ended"}
    /\ UNCHANGED <<given, bad, status, temp, reruns, astray, late, disabled>>

Faults == KillCommand \/ Reboot \/ \E d \in Daemons : KillDaemon(d)

Next == \/ Deliver \/ Rerun \/ Command \/ Faults
        \/ \E d \in Daemons : Daemon(d) \/ ScriptEnds(d)

Spec == Init /\ [][Next]_vars

-----------------------------------------------------------------------------
(***************************************************************************)
(* Properties.                                                             *)
(***************************************************************************)
DaemonOK ==
    daemon \in [Daemons -> [pc : DaemonPc, of : 0 .. LastSeq, seq : 0 .. LastSeq,
                            tries : 0 .. RetryCount, left : 0 .. RetryCount,
                            slept : 0 .. RetryCount,
                            script : {"none", "running", "ok", "error", "killed"}]]

\* Types, among them: the downloads and the check of the DNS together sleep no
\* more than retrycount times.  (download_files_with_retry, check_idns_with_retry)
TypeOK ==
    /\ given \in 0 .. LastSeq /\ mrseq \in 0 .. LastSeq /\ bad \in SUBSET Seqs
    /\ status \in [Seqs -> Reports] /\ temp \in [Seqs -> Reports]
    /\ command \in CommandPc /\ (command # "idle" => given \in Seqs)
    /\ DaemonOK
    /\ \A d \in Daemons : daemon[d].pc \notin {"off", "parse", "ended"} => daemon[d].seq \in Seqs
    /\ reruns \in Nat /\ kills \in Nat
    /\ astray \in SUBSET Seqs /\ late \in SUBSET Seqs
    /\ broken \in SUBSET Seqs /\ disabled \in SUBSET Seqs

Ran(d) == daemon[d].script # "none"

\* Whatever the agent repeats and whatever is killed, two daemons run the same
\* script only if one of them was overtaken by newer settings.
\* (enable, exit_if_seq_smaller)
RunsOnce ==
    \A d, e \in Daemons : (d # e /\ Ran(d) /\ Ran(e) /\ daemon[d].seq = daemon[e].seq)
                              => daemon[d].seq \in astray

\* A status of success is that of a script which ran to its end and returned 0, or it
\* is the report of a disable.  So processes that exchange their reports on n never
\* make a daemon's success of a script that failed; but whoever reads the status and
\* not its operation takes a disable's success for the script's, and it replaces the
\* script's failure too.  (run_command, dummy_command, do_status_report)
SuccessIsTrue ==
    \A n \in Seqs : StatusOf(status[n]) = "success" =>
        \/ \E d \in Daemons : daemon[d].seq = n /\ daemon[d].script = "ok"
        \/ status[n] = "disabled" /\ n \in disabled

\* When a command and its daemon are through, the status is final, unless one of
\* the two was killed, the daemon was overtaken, or enable reported after the daemon's
\* last report: so a report that was renamed by another, or overwritten before it was,
\* by enable, disable or the daemon itself, leaves a final status all the same.
\* (enable, daemon, dummy_command, do_status_report)
Through(n) == /\ n < given \/ (n = given /\ command = "idle")
              /\ \A d \in Daemons : daemon[d].of = n => daemon[d].pc = "ended"
StatusSettles ==
    \A n \in Seqs : Through(n) => Final(status[n]) \/ n \in astray \cup late \cup broken

\* The ledger of CustomScript: the orders are the numbers, and a report on one counts
\* when it is final.
Excused == astray \cup late \cup broken \cup disabled
Order   == [d \in Daemons |-> IF Ran(d) THEN daemon[d].seq ELSE 0]
Script  == [d \in Daemons |-> daemon[d].script]
Verdict == [n \in Seqs |-> IF Final(status[n]) THEN StatusOf(status[n]) ELSE "open"]

Ledger == INSTANCE ScriptLedger WITH
    Orders <- Seqs, Workers <- Daemons, asked <- given, order <- Order,
    script <- Script, verdict <- Verdict, mixed <- astray,
    withdrawn <- disabled, excused <- Excused

\* CustomScript implements ScriptLedger: whatever enable, its daemons, their scripts,
\* later commands and kills interleave, no script begins after the final report on its
\* number, and no report replaces that one, but for the numbers excused.
\* (enable, daemon, do_status_report)
LedgerSpec == Ledger!Spec

\* What the comment in enable() promises.
ExecutedOnlyOnce ==
    \A d, e \in Daemons : (d # e /\ Ran(d) /\ Ran(e)) => daemon[d].seq # daemon[e].seq
=============================================================================
