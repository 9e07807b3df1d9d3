# Azure Linux extensions: a TLA+ verification project

## 1. The system and its parts

The repository holds the VM extensions of Azure for Linux: programs that the
guest agent starts with a command (install, enable, update, disable, uninstall),
that read a settings file with a sequence number, do their work and write a
status file. They share helper code (`src/Utils`) and little else.

| Component | State it keeps | Operations | What is hard about it | What makes it correct |
|---|---|---|---|---|
| **VMBackup: safefreeze binary** (`safefreeze.c`) | descriptors of the mounts, loop index, `gThaw`, exit status; the kernel's frozen file systems | FIFREEZE each mount, SIGUSR1 to the parent, wait for SIGUSR1 or a timeout, FITHAW each mount, exit | freezes and thaws of several processes interleave; signals arrive anywhere; the parent dies | a frozen file system is always thawed again; a waiting binary holds its freeze |
| **VMBackup: lock file** (`fsfreezer.py`) | name, inode, descriptors, locks | open, `lockf`, unlock, remove | the name and the lock are different things | one holder |
| **VMBackup: FsFreezer, FreezeHandler** (`fsfreezer.py`) | `child`, `sig_handle`, lock flags, retry counter | `freeze_safe`, `startproc`, `thaw_safe`, two signal handlers, the launching thread | signals against a thread and a poll loop; timeouts; writes to the frozen disk | a freeze that is reported was held until the thaw; no wait is for ever |
| **VMBackup: FreezeSnapshotter, Guest- and HostSnapshotter** | results per disk, `all_failed`, `is_inconsistent`, `unable_to_sleep` | four snapshot methods, sequential or parallel snapshots, error codes | partial failures, exceptions that skip the thaw, a second attempt by another way | no failed disk, broken freeze or late command becomes a success |
| **VMBackup: daemon** (`handle.py daemon`) | `run_result`, `run_status`, `error_msg` | freeze and snapshot, workload or plug-in scripts, final report | three partial verdicts merged | the report says what happened |
| **VMBackup: enable, task identity** (`handle.py enable`, `taskidentity.py`) | mrseq, task identity, settings and status files | skip what was done, save both, start the daemon | files without a lock between commands and daemons; a crash in between; a killed daemon that is run again | a task is backed up once; no command is dropped without a reason |
| **VMBackup: plug-in host, workload scripts** | results of pre and post scripts | run scripts with timeouts | timeouts, post without pre | the post script runs when the pre script did |
| **VMBackup: host-based service** (`handle_host_daemon.py`) | one request, its freezer | poll, freeze, publish | freezes without the lock file | as FsFreezer |
| **VMEncryption: data copy** (`TransactionalCopyTask.py`) | slice index on disk, saved slice, the disk | copy slice, commit, resume | the disk is its own source; crashes | no slice is lost or encrypted twice |
| **VMEncryption: handler** (`handle.py`) | mark files, phases | encrypt, format, in-place, resume | reboots between phases | every phase runs to its end once |
| **CustomScript, `src/Utils`** (`customscript.py`, `HandlerUtil.py`, `ScriptUtil.py`) | mrseq, the freshest settings, n.status and its temporary file, the script's process | skip what was done, launch a daemon, download, check the DNS, run, report | a daemon nobody waits for; reports of several processes through one temporary file; newer settings meanwhile; kills | a script runs once; a status of success is true; a status settles |
| **Diagnostic: mdsd's Event Hub upload** (`EventHubUploader.cc`, `EventPersistMgr.cc`, ...) | the queue and its condition variable, one file per event that failed, the resend timer | add, send, back off, persist, resend, stop | a sender thread, a timer and overlapping asynchronous uploads; lost answers; a stop against a sleeping sender; restarts | no event is lost, or repeated, without a reason; the files are retried; the stop returns |
| **OSPatching** | schedule, stop flag, package lists | scheduled and one-off patching, reboot | window end against a running install | no patch outside the window |
| others: DSC, VMAccess, OmsAgent, AzureMonitorAgent, LAD-AMA-Common, Diagnostic, AzureEnhancedMonitor, RDMAUpdate, samples, the rest of mdsd, vendored code | configuration files and external services | straight-line scripts around external programs | little interleaving of their own | not modelled, see section 8 |

How the parts of VMBackup interact: `enable` starts `daemon` and exits. The
daemon's main thread calls `freeze_snapshot`, which makes a `FreezeSnapshotter`;
that calls `FsFreezer.freeze_safe`, which takes the lock file, starts a thread
that launches the safefreeze binary, and polls a variable that two *signal
handlers* of the same process set: SIGUSR1 from the binary (frozen), SIGCHLD
(the binary is gone). Then the snapshots are taken, by requests to the storage
service (guest) or to the host, and `thaw_safe` sends SIGUSR1 to the binary,
polls for its end, reads its exit status and releases the lock file. The binary's
only report after the freeze is that exit status. Several daemons may run at the
same time (a second command, or the host-based service), and FITHAW does not ask
who froze.

How the parts of VMEncryption interact: a daemon, one at a time by a lock file, walks
over the data volumes. Each is encrypted in place: LUKS-format (with a detached
header file, or with an inline header on distributions that know no other, after the
first slice has been saved to a file), then copy the volume slice by slice onto
itself through its device mapper, from its end. What is done so far is kept in the
ongoing item config (phase and slice index), and the slice under copy in a backup
slice file; a daemon that finds the config resumes from it.

How a command becomes work, in VMBackup and in CustomScript: the guest agent writes
`n.settings` and runs *enable*, one command at a time. Enable compares `n` with the file
`mrseq` (VMBackup then also the task with the identity file), saves it, and launches a
daemon, for which nobody waits. The daemon reads the settings again and does the work;
both write `n.status` through a temporary file and `rename`. There are no locks: daemons
of two numbers, a daemon and the next enable, a killed daemon that `handle.sh` runs
again, all meet in these files.

How the parts of mdsd's upload interact: other threads put events into a queue; a sender
thread takes them out, tries to publish, writes an event whose attempt failed to a file
and queues it again with a back-off; once sent, its file is removed. A timer starts
rounds that read all files and send them asynchronously; a round does not wait for the
one before it. `WaitForFinish` stops the sender, after the queue has drained or at once.

## 2. The plan

Modules in the order of what matters most:

1. `SafeFreeze`: the binary and the kernel. *Done, proved.*
2. `SafeFreezeLock`: the lock file. *Done.*
3. `FreezeSnapshot`: the daemon's protocol, composing 1 and 2. *Done.*
4. `SafeFreezeProofs`: type correctness, no orphaned freeze, the waiting
   binary holds its freeze. *Done.*
5. `FreezeSnapshotProofs`: the composition implements the binaries'
   specification, type correctness of the daemons. *Done.*
   `ConsistencyProofs`: the daemon's own properties, from an inductive invariant that relates
   its main thread, its launching thread, its signals and its binary. *Done; all the
   invariants of `FreezeSnapshot` are proved.*
5a. `InPlaceEncryption`, `InPlaceEncryptionProofs`: VMEncryption's copy of a volume
   onto itself, with failures and reboots anywhere. *Done; two theorems proved.*
   `DamageProofs`: what failures and reboots cost, and the types. *Done; all its safety
   properties are proved.*
6. `EventHubUploader`, `EventHubUploaderProofs`: the queue, the sender, the files, the
   timer and the stop. *Done; all its safety properties proved.*
7. `BackupEnable`, `BackupEnableProofs`: from the agent's command to the daemon's report
   in VMBackup. *Done; all its invariants proved.*
8. `CustomScript`, `CustomScriptProofs`: the same for CustomScript, on the shared
   utilities. *Done; all its invariants proved.*
9. The abstract specifications, each of what a part owes to those it serves, and the
   proof that the detailed module implements it: `FreezeLease` (`FreezeSnapshot`),
   `EncryptedVolume` (`InPlaceEncryption`), `EventDelivery` (`EventHubUploader`),
   `ScriptLedger` (`CustomScript`), `TaskLedger` (`BackupEnable`). *Done, checked and proved.*

What would come next, in this order:

10. More of VMEncryption on top of `InPlaceEncryption`: the decryption, several
   volumes, a commit of the config that is torn by a reboot, the stuck phase Done.
11. The host-based service's freezer, without the lock, beside one ordinary daemon.
12. The plug-in host's pre and post scripts and the result table.
13. The worker processes of the parallel snapshot; mdsd's manager of uploaders.

## 3. Modules

* **`SafeFreeze`** A binary is a process `p` in `Freezers` with its control state
  `bpc[p]`, the loop index `cur[p]`, `gThaw[p]`, the wait loop's `iter[p]`, whether
  a sleep was cut short (`cut[p]`), and its exit `status[p]`; the kernel is the set
  `frozen`. The actions are the system calls: `Launch` (exec), `OpenAll` and
  `OpenFails`, `FreezeNext` and `FreezeFails` (one FIFREEZE), `Notify` (SIGUSR1 to
  the parent), `SleepOne` and `WaitOver` (the wait loop), `ThawNext` (one FITHAW of
  CLEANUP), `Exit`, and `ThawSignal` (SIGUSR1 from the daemon). FIFREEZE fails on a
  frozen file system and may fail on any; FITHAW fails on one that is not frozen
  and is taken to succeed on one that is.
* **`SafeFreezeLock`** The lock file as the kernel sees it: the inode its name
  refers to, the inode each process's descriptor refers to, who holds the lock of
  its descriptor's inode. Operators, not a specification: the daemon's actions use them.
* **`FreezeSnapshot`** One daemon per freezer: `run[p]` is its main thread (control
  state and FreezeSnapshotter's results), `fz[p]` its FsFreezer and FreezeHandler
  (`thread`, `child`, `sig` are the launching thread, `self.child` and
  `sig_handle`; `acquired`, `retries`, `skip` are `isAquireLockSucceeded`,
  `getLockRetry`, `skip_freeze`), `pend[p]` the signals whose handler has not run,
  `job[p]` its input; `torn[p]` is a history variable. One action per
  step of the code between two points where another process, thread or handler can
  be noticed; MainThread lists them in the code's order.
* **`MCSafeFreeze`, `MCFreezeSnapshot`** Values of the constants for TLC, the
  inputs of each run and the named bounds (CONSTRAINTs).
* **`InPlaceEncryption`** One volume and the daemon that encrypts it. `mode` is the kind
  of header; `raw` the units of the device, `hdr` and `bak` the header slice file and
  the backup slice file, `conf` the phase and the slice index of the ongoing item
  config: these survive a reboot. `mapper` is what is at the mapper's path, `pc` the
  daemon, `buf` the slice in tmpfs, `at` how much of it is written, `bk` the backup
  process. The actions follow `encrypt_inplace_with_seperate_header_file` and
  `..._without_...` (`BackupHeader` to `RecoverHeader`, one per phase), `resume_copy`
  (`SkipResume`, `Refill`, `RewriteNext`, `Rewritten`, `RemoveSaved`), `begin_copy` and
  `copy_internal` (`ReadSlice`, `WriteNext`, `BackupOpens`, `BackupWrites`, `WriteDone`,
  `CommitSlice`), the end of an item, and their failures. A unit's content is the
  original unit it holds and whether it is plain, encrypted once, or spoiled.
* **`MCInPlaceEncryption`** The modes of each run.
* **`EventHubUploader`** One uploader with its thread (`sender`), the entry in its hand, the
  queue in memory, the files with what is known of them, the rounds of asynchronous uploads,
  each with its jobs, the timer and the stopping thread. `Take` to `QueueAgain` follow
  `Upload` and `ProcessData`, `ReadFile`, `PublishFile` and `RemoveFile` one asynchronous
  upload, `ResendPersistEvents` the timer, `WaitForFinish`, `StopNow` and `Joined` the stop,
  with the mutex and the condition variable between them. `Restart` is a new process on the
  old files.
* **`BackupEnable`** The agent's one `enable` command with its control state, the daemons
  with theirs, their number and what settings they have `got`; the files `settings`,
  `mrseq`, `identity`, `status` and the one temporary status file `temp`. One action per
  file operation: enable parses and renames the files of other numbers (`EnableParse`),
  compares and saves number and task, reports and starts the daemon; the daemon parses,
  checks the machine identity, strips the settings, runs its checks, saves the number
  again, reports, works, and reports at the end if its status file is still there. A killed
  process starts again from the beginning, as `handle.sh` does; a reboot ends all. What is
  written at that moment may be left empty (`Torn`).
* **`CustomScript`** The agent's `command`, the daemons with their script, retries and what
  they have slept; `mrseq`, and for each number its status file and its temporary file.
  `ExitIfSeqSmaller` to `CommandRenames` are enable and the other commands, whose report is
  named "disabled" and has the status `success` (`StatusOf`), `DaemonParse`
  to `FinalRenames` the daemon with `download_files_with_retry`, `check_idns_with_retry`
  and `run_command`; the script ends by itself. A killed daemon's script lives on.
* **`MCEventHubUploader`, `MCBackupEnable`, `MCCustomScript`** Their instances.
* The abstract specifications say what somebody outside relies on, without the files,
  signals, processes and reports by which it comes about. Each is implemented by a detailed
  module under a refinement mapping at the end of that module:
  * **`FreezeLease`** A lease on the freeze of what a backup names: granted, broken for good
    when a file system thaws, returned in good order only if it never broke and all disks
    were captured, and behind every claim of consistency. One per daemon of `FreezeSnapshot`:
    `whole` is that its mounts are frozen, `taken` its captured disks, `lease` is read off the
    main thread's control state; it is broken as soon as the binary is bound to exit with a
    failure (`Doomed`), which the daemon does not know yet.
  * **`EncryptedVolume`** Slices that are encrypted one after the other; only the one whose
    turn it is changes, and one is lost or spoiled only for a credit of two, which a reboot
    or two failures give. `Held` maps the units of the device to slices, `Reach` the phase
    and the index to the turn.
  * **`EventDelivery`** Events in the memory and in files, sent from either; the mapping
    forgets the queue, the sender's hand, the rounds, the timer and the stop.
  * **`ScriptLedger`** Orders, each executed by one worker, with a last word on each. `Order`
    and `Script` are what a daemon runs, `Verdict` is the status once it is final, a disable
    withdraws an order (`disabled`), after which its verdict is a success whatever its script
    did, and `Excused` are the numbers that were overtaken, killed, disabled or reported on late.
  * **`TaskLedger`** Tasks that are ordered one after the other, their workers, and what was
    taken, dropped, or broke off. `WorkOf` and `StateOf` are the daemons by the task of the
    number they were started with; `Past` are the tasks of the numbers given so far,
    `Again` those whose settings the agent wrote again.
* **`SafeFreezeProofs`, `FreezeSnapshotProofs`, `ConsistencyProofs`, `InPlaceEncryptionProofs`,
  `DamageProofs`, `EventHubUploaderProofs`, `BackupEnableProofs`, `CustomScriptProofs`** The theorems of
  section 6.

The code-to-model map at the granularity of definitions is in `PROJECT.json`.

### What was abstracted

* A disk's snapshot is one step with a Boolean outcome; the number of blobs equals
  the number of LUNs. Parallel snapshots need more than `MaxSeqDisks` disks (4 in
  the code), the order of the disks is free in both ways.
* All error codes are "failed", except the distinctions `updateErrorCode` makes:
  `limited` stands for its two messages about rate and count of snapshots.
* Time: the 3 seconds of the launching thread, the 66 seconds of `startproc` and
  the 30 polls of `thaw_safe` are nondeterministic, with one exception:
  `startproc` gives up only after the launching thread has ended (66 against 3
  seconds). The binary's timeout counts its turns.
* CPython runs the handlers of delivered signals in the main thread before its next
  step, in the order of the signal numbers (SIGUSR1 before SIGCHLD).
* The check between `poll()` and `send_signal` is merged into one step: a signal to
  a process that has exited meanwhile has no effect, and what counts is the status.
* kill(getppid()) of the binary always succeeds; a freezer runs one binary at a time
  (`StartProc` waits for the end of its previous one, which every path of the code has
  seen end, except after a null blob).
* The memory of a daemon that has ended is reset, except what it reported; the
  binary's loop variables are reset when their loop is over.
* Operations on the lock file, the local log once it is switched on again, and the status
  file block while the root file system, where they are, is frozen.
* `InPlaceEncryption`: a unit is what a reboot or a failing dd separates; what dd has
  written before a reboot stays written (losses from the page cache would only add
  damage), a commit of the config is atomic, SIGKILL ends the backup process at once,
  and the two minutes a new daemon waits are enough for an old backup process to end.
  The source of a slice is read in one step: nobody writes to it meanwhile. The crypt
  item, fstab, mounting and growing the file system are left out: their failures are
  only logged. A daemon called for an item in phase Done returns None and raises,
  which changes nothing: `Resume` is not enabled then.
* `EventHubUploader`: the age of an entry is young, due or too old; a file is written and
  removed in one step; one key, so one publisher; each file is uploaded on its own instead
  of in batches.
* `BackupEnable`: settings are full, without their protected part, or absent, and a report
  is its number and whether it is final. The daemon's checks pass or fail. Its work is one
  step, after which an exception or not the final report follows. Every command has a task
  identity. A task's numbers follow one another (`TaskAssumption`). Enable raises before it has a
  parser (`EnableRaises`) or with one, when the identity cannot be read or stored or the daemon
  not be started (`EnableFails`, which may leave the identity file empty); the writer of the
  status file catches its own exceptions, which are left out.
* `CustomScript`: a number's settings name one command or not (`bad`), and any settings may make
  the daemon fail before its first download; install, update, uninstall and disable are one
  command; a download succeeds or raises; a temporary status file is written in one step; the freshest settings are the
  agent's last ones, since nobody rewrites settings here.

## 4. What is checked

| Run | Instance | Question |
|---|---|---|
| `binaries` | 3 binaries, p1 and p2 on the same two mounts in opposite orders, p3 alone | Can a freeze be orphaned, last for ever, or be lost by a waiting binary nobody interferes with? |
| `daemon_one` | 1 daemon, 2 mounts (one is the root), 2 disks, all modes and configurations, crash anywhere | Is a reported success a consistent snapshot of all disks, with nothing left frozen? |
| `daemon_two` | 2 daemons on the same mount, symmetric, at most one killed | Does the exit status always tell a daemon that its freeze was broken? |
| `daemon_live` | 1 daemon that freezes the root, 1 disk, all modes and configurations, fairness | Does the daemon end, although its own writes block while the root is frozen? |
| `second_try` | 2 daemons, the second takes the host's way after the guest's | the same as `daemon_two`; violated |
| `encrypt` | both kinds of header, 2 slices of 2 units and a last one of 1, 3 failing commands, 2 reboots, fairness | What can a failure cost, and does each run of the daemon end? |
| `encrypt_detached` | detached header, 1 reboot | Is a resumed volume right when it is Done? violated |
| `event_hub` | 1 event, 2 rounds of asynchronous uploads, 2 starts of mdsd, fairness | Is an event lost or repeated without a reason, is its file retried, does the stop return? |
| `backup_enable` | 3 numbers, the first two of one task, 2 daemons, 1 restart of the agent, 1 kill or reboot | Is a task worked on once, and a command skipped only for a reason? |
| `backup_live` | the same without the agent's restart, fairness | Does each command lead to a daemon, and a daemon to its final report? |
| `custom_script` | 2 numbers, 2 daemons, 1 retry, 2 repeated or other commands, 1 kill or reboot | What do the status files tell of the scripts? |
| `script_once` | 2 numbers, no fault at all | Is each configuration executed only once? violated |

Properties:

* `NoOrphanFreeze` (safety): every frozen file system is one that some live binary
  will still issue FITHAW for. It is what makes a crash of the daemon harmless.
* `WaitingHoldsFreeze`: see section 6.
* `SuccessIsConsistent`: a daemon that reports a (not crash-consistent) success
  captured every disk while every file system it named was frozen, without a gap.
  `torn[p]` records a disk captured on a thawed file system or a thaw between the
  first and the last disk.
* `SuccessLeavesThawed`: such a report is made after the binary is gone.
* `SnapshotsAreGuarded`: during the snapshots the freeze holds, or the binary has
  already given up with a failure that `thaw_safe` will read.
* `GuestDiskLossIsReported`: no success of any kind (consistent, crash-consistent,
  application-consistent) that follows the guest's snapshots hides the loss of a part of the
  disks: all that were tried are captured, and all are tried but those behind a null blob.
  What the code does hide is the loss of *all* of them: an application-consistent report of a
  workload may stand for no snapshot at all (below), and the property names that case as the
  only one.
* `FreezeIsBounded` (liveness, in `binaries`): every freeze ends, whatever the freezers do;
  the daemons add nothing to the binaries but launches and signals (`BinSpec`), and the same
  fairness. `EveryDaemonEnds` (liveness): no wait of the daemon is for ever, its writes to
  the frozen root included.
* `OneErrorIsRepaired`: without a reboot a single failing command never costs data,
  wherever it strikes, with either kind of header: this is what the backup slice does
  achieve. `DamageIsBounded`: with a detached header a reboot costs at most one slice,
  and so do two failing commands; the bound is reached.
* `AheadIsUntouched`, `CommittedIsSettled`: a resumption starts where the volume is
  still what it was, and never goes back. They confine any damage to the slice
  under copy.
* `RunEnds` (liveness): a daemon that works on an item stops.
* `NothingIsLost`: an event given to the uploader has arrived, is in the memory or in a file,
  or is one of those the code gives up: too old, unreadable, or in the sender's hand at a
  stop or a restart before it was persisted. `DuplicatesNeedFailure`: an event of
  which no attempt seemed to fail arrives once.
  `PersistedOutlivesMemory`: an event that was persisted leaves the memory only
  when it has arrived, or its file is there or was itself given up. `FilesAreRetried` and `FinishReturns` (liveness): the
  timer never stops while there are files; the caller of `WaitForFinish` gets its answer.
* `OneDaemonPerTask`: a task's daemon is started at most once. `mrseq` alone would not do:
  daemons set it back, a restored machine resets it, a crash tears it. It is the identity
  file that keeps this, and a torn identity file does not break it: it forgets a task to
  which the agent does not come back, or one that is not started yet.
  `SnapshotOnce`: nor does `handle.sh`'s repetition of a killed daemon take the snapshots
  again, since the daemon has removed what is needed for them, unless the agent wrote the
  settings again. `SkipIsJustified`: a command is skipped only for a task that was started
  or broke off. `CommandsSettle`, `FinalReport` (liveness): a command leads to a daemon of
  its task; a daemon that is not disturbed leaves its final report.
* `RunsOnce`: two daemons run the same number's script only if one was overtaken by newer
  settings before it parsed them. `SuccessIsTrue`: a status of success belongs to a script
  that ended with 0, or is the report of a disable on that number. The exchange of temporary
  files never makes a daemon's success of a script that failed; but disable (install,
  update, uninstall) writes the same status `success` into the same file, and who reads the
  status without its operation is misled (below).
  `StatusSettles`: when a number's command and daemons are through, its status is final,
  whoever wrote or renamed whose temporary file, disable included, with three exceptions that
  the state names: overtaken (`astray`), killed (`broken`), or enable wrote its "launching"
  after the daemon's last report (`late`). What it does catch is every other order of
  these reports: enable's while the daemon works, the file renamed under a poll or a
  final report, a disable in between.
* The refinements, all proved. `BinSpec` (`daemon_one`): the daemons use the binaries and the
  kernel only by launching and signalling, which lets the properties of `binaries` be
  used for the composition.
  `BackupSpec` (`daemon_one`, `daemon_two`): every daemon keeps a `FreezeLease`. It says
  more than `SuccessIsConsistent`: the daemon never believes in a freeze that was not
  there, and one that broke while disks were captured cannot come back whole, whatever the
  later attempts do.
  `VolumeSpec` (`encrypt`): with a detached header the copy is an `EncryptedVolume`, at every
  step and not only at the end; in particular nothing is spent twice, and no slice is written
  before its turn or after it.
  `DeliverySpec` (`event_hub`): the uploader is an `EventDelivery`. It adds to the invariants
  in which order things may be given up: a file goes only for an event that arrived or whose
  file expired, and only a failure leads to another attempt.
  `LedgerSpec` (`custom_script`): CustomScript keeps a `ScriptLedger`. It adds that no script
  begins, and no other report follows, after the final report on its number, unless that
  number was overtaken, killed, disabled or reported on late.
  `TaskSpec` (`backup_enable`): enable, its daemons and `handle.sh` keep a `TaskLedger`. It adds
  that a worker begins only while its task is the last one ordered, that a worker that has ended
  does nothing more, and that a command is dropped only for the task of the moment. The
  mutant that breaks it is a sequence number taken from the freshest settings file.

### The disagreements with the code's own words

The three violation runs are listed with their quotes under "findings" in
`PROJECT.json`. The deepest is `second_try`. A daemon that fails to get the lock
launches its binary nevertheless (`fsfreezer.py:248`). Its FIFREEZE fails with EBUSY
and its CLEANUP thaws what the first daemon holds. Alone that is harmless, and
`daemon_two` shows it: the first daemon's own FITHAW fails, its binary exits with 1
and the result is inconsistent. But a second attempt of the second daemon freezes the
file system again in time, the first one's FITHAW succeeds, and the first one reports
a consistent success for a disk captured on a thawed file system.

In `script_once` nothing fails: the daemon of number 1 starts slowly, number 2 arrives,
the daemon finds the settings of 2 and runs its script, as 2's own daemon does. Script 1
is never run. Enable's comment says that a configuration is executed only once
(`customscript.py:103`), and a comment at the download relies on commands that follow one
another (`customscript.py:352`), which the daemons do not.

In `encrypt_detached` the slice is saved by a process that nobody waits for while it is
overwritten, and it is removed before the index is committed. A reboot in either
window leaves a slice that the resumed daemon encrypts a second time, and the item
ends in Done. With an inline header the resumed daemon does not open the mapper, which a
reboot has closed: dd creates a plain file under `/dev/mapper` and writes the rest of
the volume, or only the saved header, to it; then the saved header is removed.
The model has these behaviours (mode "inline"), too: `DamageIsBounded` and
`AheadIsUntouched` are stated for detached headers. Two more ways an item fails after a
reboot can be seen in the model:
between the removal of the header slice file and the commit of Done (`SourceIsGone`,
for ever), and between the commit of Done and `clear_config` (phase Done, from which
no resumption returns a phase).

Others were met in VMBackup while modelling and get no run of their own. In the model, as
in the code:

* the lock has two holders when a daemon that did not get it removes the lock file's name
  (`fsfreezer.py:286`) and a third locks a new file;
* after 30 polls `thaw_safe` switches the local log on although the binary may still run
  (`fsfreezer.py:312`); with the root frozen the write blocks until the binary's timeout,
  and `EveryDaemonEnds` shows that it ends;
* `updateErrorCode` leaves `run_status` at success when all snapshots fail
  (`freezesnapshotter.py:281`); with a workload configured the daemon reads that only
  (`handle.py:493`) and reports an application-consistent success. `SuccessIsConsistent` asks for
  some snapshot (`good # {}`) and so does not speak of this report; `GuestDiskLossIsReported`
  names it as the one loss that is hidden;
* the host's answer says 'false' where the caller compares with False
  (`hostsnapshotter.py:249`): `GuestDiskLossIsReported` is stated of the guest only;
* a null entry in the list of blobs ends the sequence of guest snapshots with an exception
  that is swallowed (`guestsnapshotter.py:307`), the thaw is skipped and the disks before it
  make a success without those behind it: the input `nullBlob`, which `SuccessIsConsistent` sets
  apart; `GuestDiskLossIsReported` says that at least none of those before it failed;
* two processes of VMBackup that report at the same time exchange their reports, since all
  numbers have one temporary status file (`Utils/HandlerUtil.py:740`): `FinalReport` is stated of a
  daemon that runs alone;
* a second enable of the same number strips the settings before the first one's daemon has
  read them (`Utils/HandlerUtil.py:156`): that daemon finds no blobs, and the task has no snapshot.

And in CustomScript: disable, like install, update and uninstall, writes the status `success` to the
freshest number's status file (`customscript.py:67`, `:92`). It replaces the "failed" of a script that
ended before, and while the daemon still works the two may even exchange their reports through the
shared temporary file, so that the daemon's last report is lost: the file then says
success of a script that failed, still runs, or never ran. The model has all of this
(`disabled`), and `SuccessIsTrue`, `StatusSettles` and `LedgerSpec` each say what is left.

And outside the models: `do_status_report` compares `str(run_result)` with integers
(`Utils/HandlerUtil.py:700`), so only crash-consistent backups are reported with their
consistency type; without `ConfigSequenceNumber` a VMBackup command may take an older
number's settings, since a daemon that strips its settings makes them the freshest (the
model has this choice with `UseEnv = FALSE`; the comment at `handle.py:367` takes the
opposite for granted); mdsd's `CreateUploaders` drops an uploader that one of several
monikers still needs (`EventHubUploaderMgr.cc:130`); OSPatching's enable calls
`exit_if_seq_smaller` without the argument it now requires (`OSPatching/handler.py:72`).

Hazards of the code beyond those `PROJECT.json` lists, which no property singles out:
a worker of the parallel snapshot that is killed before it answers, for which the daemon
waits with its file systems frozen until the binary's timeout (`guestsnapshotter.py:259`); a
reboot while the config of an ongoing encryption is rewritten (`ConfigUtil.py:62`);
a write of an event's file that stores a part of it (`PersistFiles.cc:91`); a limit of fewer
than ten open files, by which the files are divided into batches (`EventPersistMgr.cc:251`);
a publisher or an uploader that is replaced while another thread uses it
(`EventHubUploader.cc:95`, `EventHubUploaderMgr.cc:76`); a negative `retrycount`
(`customscript.py:116`); a decryption whose ongoing item is found and not resumed
(`VMEncryption/main/handle.py:1848`); VMBackup's enable that raises before there is a parser and leaves no report
(`handle.py:681`); a reboot or a kill of CustomScript's daemon, after which the status stays
transitioning for ever (an exception of `StatusSettles`); output that is not UTF-8, for which a script that ended well is reported as
failed (`ScriptUtil.py:51`: `SuccessIsTrue` has no converse).

## 5. Bounds and fairness

* Two mounts are enough for a partial freeze and for a cleanup that meets a mount
  frozen by another; opposite orders give every overlap of two loops.
* Two disks distinguish all, some and none; `MaxSeqDisks = 1` makes both the
  sequential and the parallel way possible. The code allows a crash-consistent success for
  one disk only (`CrashNeedsOneDisk`): `daemon_one` reaches none. `daemon_live` has one disk
  and every input, but asks only whether the daemon ends; that a crash-consistent success hides no
  disk is left to the theorem, which holds for every number of disks.
* `Timeout = 1`: the wait loop ends by the signal, by the timeout, or by a sleep that
  was cut short.
* `MaxLockRetry` is 1 or 2 (`maxGetLockRetry` is 5 in the code): attempts that fail by different causes.
* Inodes: one more than the daemons that can hold a descriptor, so that creating the
  file never fails for want of one.
* `FewFailures` (daemon_two): at most one daemon is killed and snapshots succeed; what
  failures of snapshots do is the question of `daemon_one`. `SecondAttempt` belongs to a
  violation run and only makes the search shorter; it cannot make a violation appear.
* `encrypt`: a slice of two units can be half written or half saved; a header of one
  unit is smaller than a slice; the last slice is shorter but not empty (the copies of
  the header have the empty one); two full slices give one before, one under and one
  after the copy. Three errors and two reboots: a failure, one of its repair, and one
  more. The run was repeated with slices of one and three units, headers of two, three
  slices and an empty last slice.
* `event_hub`: one event is enough for its ways through memory and file to cross; two rounds
  overlap; two starts give a restart with files. Two events in the queue were checked while
  building, without the files.
* `backup_enable`: three numbers of two tasks have both a repeated task and a new one; two
  daemons are all that can be started without a fault; one kill or reboot meets every step.
  `backup_live` leaves out the agent's restart, for time.
* `custom_script`: two numbers are needed to overtake; one retry separates the two loops that
  share it; one fault meets every step; two more commands are a repeated enable and a disable, or
  two disables, beside the daemons.
* `CHECK_DEADLOCK FALSE` in the runs with daemons: they end.

Fairness (`FairSpec`): weak fairness of each daemon's main thread, of its signal
handlers, of its launching thread and of each binary: the scheduler of the operating
system, and of the interpreter, runs what can run. No fairness on `Crash`, on success
of any operation, or on a lock. In `SafeFreeze` the binaries are fair, their
freezers are not. In `InPlaceEncryption` (`LiveSpec`) a running daemon and a running
backup process are fair; nothing is assumed of who starts a daemon, so `RunEnds`
speaks of one run and not of the item. In `EventHubUploader` the threads, the timer and the
jobs of the rounds are fair; nothing is assumed of the service, so `FilesAreRetried` says that
the files are tried, not that they arrive. In `BackupEnable` (`LiveSpec`) enable and the
daemons are fair, the agent is not: a command that is not given need not settle.
`CustomScript` is checked for safety only: its loops depend on the script and the service.

## 6. What is proved

`SafeFreezeProofs` proves, for any set of freezers and mounts, any command lines and
any timeout (assumptions: `ArgsAssumption`, `TimeoutAssumption`):

* `BinTypeCorrect`: `BinSpec => []BinTypeOK`. The type invariant is inductive as it
  stands: it bounds the loop index by the control state.
* `FreezeNeverOrphaned`: `BinSpec => []NoOrphanFreeze`, inductive given the types. A
  step of `p` leaves `ToThaw(q)` of the others alone; what `p` freezes enters
  `ToThaw(p)` and what leaves it has been thawed.
* `WaitingBinaryHoldsFreeze`: `BinSpec => []WaitingHoldsFreeze`. Not inductive: the
  strengthening `HoldsSoFar` also says that the loop of FIFREEZE holds what it has
  frozen so far. Its step uses that a binary thaws only mounts it names.

`FreezeSnapshotProofs` proves, for any number of daemons, disks, mounts, inodes and
attempts at the lock (further assumptions: `RetryAssumption` and the others of
`FreezeSnapshot`):

* `DaemonsUseBinaries`: `Spec => BinSpec`. Every step of a daemon is a step of its
  binary, its launch, a thaw signal, or a stutter (`BinariesStep`); the refinement
  mapping is the identity on the binaries' variables.
* `DaemonsNeverOrphan`: `Spec => []NoOrphanFreeze`, from the two theorems before it:
  wherever a daemon dies or skips its thaw, a live binary thaws.
* `TypeCorrect`: `Spec => []TypeOK`. Each of its conjuncts is preserved by a lemma of
  its own. Only the retry counter's type is not inductive by itself: that it never
  passes `MaxLockRetry` needs `RetriesOK`, a daemon about to try the lock has a try left.
* `NoDiskLossIsHidden`: `Spec => []GuestDiskLossIsReported`. A status of success needs a run that
  went well or an answer for all disks; `LossAt` says that each of them means that every disk was
  tried, but for those behind a null blob, so that the results show a missing one; and `LostAll`
  that a run that went well but failed altogether, whose status stays a success
  (`StatusTells`), has no snapshot at all. It covers the crash-consistent success,
  too, which needs a single disk and so does not occur in `daemon_one`.

`ConsistencyProofs` proves the point of the extension, from the types, `LossInv` and
`WaitingHoldsFreeze`:

* `FreezeGuardsSnapshots`: `Spec => []SnapshotsAreGuarded`, for daemons that name different
  file systems (`\A p : Alone(p)`; with a shared one another binary's FITHAW ends the
  freeze before this one's binary has failed).
* `SuccessMeansConsistent`: `Spec => []SuccessIsConsistent`, for daemons that share file
  systems at most in pairs (`Rivals(p)` has one member at most) and make one attempt each,
  or that share none. No fact about the lock is used: without it two daemons thaw each
  other's file systems, but then one of them finds out. That a rival makes one
  attempt is needed: `second_try` shows the success that is not consistent when it makes two.
  With two rivals the second can freeze what the first has thawed.
* `SuccessMeansThawed`: `Spec => []SuccessLeavesThawed`, without a proviso.
* `DaemonsKeepLeases`: `Spec => BackupSpec`, under the provisos of `SuccessMeansConsistent`;
  `DaemonKeepsLease` says it of one daemon, `Spec => Backup(p)!Spec`.

  The invariant `GuardInv` has six parts for each daemon: what its signal and its thread
  tell of the binary (`SignalInv`); that a first attempt leaves no binary behind that could
  still signal to a second one (`FirstInv`: this is why a fallback to the host's way cannot
  take the late SIGUSR1 of the guest's binary for its own); that from the freeze to the end of the
  thaw the binary waits, has failed, or is gone (`FreezeInv`); that a run that looks good has
  all disks (`ResultInv`); that a gap in the freeze is one whose binary is doomed to exit with a
  failure, so that the thaw returns an error (`TornInv`); and that a waiting binary has lost a
  file system only to a rival that has spent its attempt and cannot freeze it again
  (`HoldInv`), so that its own FITHAW will fail: that is what `Doomed` means.
  One lemma per label of the main thread, and one per step of the lease.

`InPlaceEncryptionProofs` proves, for slices, headers and volumes of any size, both
kinds of header, and any number of failures and reboots (assumptions: `SliceAssumption`, `NoFileAssumption`):

* `NothingAheadIsLost`: `Spec => []AheadIsUntouched`. Not inductive: `DetachedOK` adds
  that before the main copy nothing has been written, and where the daemon can be in
  each phase; `DeviceOK` that the device keeps its size.
* `CommittedNeverRewritten`: `Spec => CommittedIsSettled`, an action property. Both rest
  on `WriteStaysInSlice`, that one unit of dd stays within the current slice, and on
  `SlicesAreApart`, the arithmetic of slices that are counted from the end.

`DamageProofs` proves, under the same assumptions, what failures and reboots cost:

* `TypeCorrect`: `Spec => []TypeOK`. `CopyTypes` adds where the daemon is in each phase
  (`PlaceInv`), how far its index may be (`IndexInv`), and how long the slice, backup and
  header files are whenever somebody reads them (`SliceInv`, `SavedInv`, `HeaderInv`):
  `resume_copy` and dd read by length, so the types need the lengths.
* `RebootCostsOneSlice`: `Spec => []DamageIsBounded`. The invariant is a budget,
  `2 * Cardinality(Lost) + Need <= errors + 2 * reboots`: a lost slice costs two failures
  or one reboot, and `Need` is what is left to pay before the current slice is lost (nothing
  while it comes out right by itself, one while the backup slice still repairs it, two
  when it may be lost). `CleanStep` and `RepairStep` show that it takes a failing command to
  get worse, `Untouched` that the next slice starts without any need.
* `OneErrorRepaired`: `Spec => []OneErrorIsRepaired`. One failure does not pay for a lost
  slice (`NoLossOfOneError`); with an inline header `RecoverInv` adds that the header slice
  file is the beginning of the device as it was, and is written back to where it belongs.
  With an inline header this needs the mapper to stay open, so that the budget holds
  until the first reboot only (`Certain`).
* `CopyImplementsVolume`: `Spec => VolumeSpec`, and `DetachedIsVolume`:
  `Spec /\ mode = "detached" => Volume!Spec`. The budget above is the mapping's `credit`; a step of
  dd changes one slice (`SlicesAreApart`), and a commit either finds it encrypted or pays.

`EventHubUploaderProofs` proves, for any number of events, rounds, uploads and restarts:

* `TypeCorrect`: `Spec => []TypeOK`, with no event twice in the memory.
* `NoEventIsLost`: `Spec => []NothingIsLost`, and `PersistedIsSafe`:
  `Spec => PersistedOutlivesMemory`, an action property. The inductive invariant ties the mark
  "persisted" of an entry to its file, and each asynchronous job to the state of its file.
* `NoEventIsRepeated`: `Spec => []DuplicatesNeedFailure`. `DInv` says
  that the memory holds no event that arrived and never failed (`MemoryIsFresh`), and that only
  events that failed are in a file or in an upload of one (`FilesFailed`, `UploadsFailed`).
* `UploaderDelivers`: `Spec => DeliverySpec`, from all of these: each action of the sender, of a
  job, of the timer and of a restart is one of `EventDelivery`'s, or a stutter.

`BackupEnableProofs` proves, for any tasks, numbers, daemons, restarts and kills
(`TaskAssumption`, `BoundAssumption`):

* `TypeCorrect`: `Spec => []TypeOK`.
* `TaskRunsOnce`: `ASSUME UseEnv PROVE Spec => []OneDaemonPerTask`. The strengthening says what
  the identity file tells of the past: a task that was started is the stored one, or an older one
  to which the agent does not come back; a command between save and start is of a task not
  started yet.
* `SkipsAreJustified`: `ASSUME UseEnv PROVE Spec => []SkipIsJustified`, from the same, and
  from what `mrseq` can contain: numbers whose command went on, or broke off.

* `OneSnapshotPerTask`: `ASSUME UseEnv PROVE Spec => []SnapshotOnce`. No two
  daemons work on one task (`DaemonsDiffer`), and a daemon that finds its settings whole, or has
  read them whole and not yet begun, belongs to a task without a snapshot (`FullIsUnused`,
  `TakenOnce`).
* `BackupKeepsLedger`: `ASSUME UseEnv PROVE Spec => TaskSpec`, from all of these, and from the fact
  that whoever was started is still there, if only ended (`StartedStays`): so that a start
  counted in `starts` is a worker of the ledger. `WorkerStep` and `FaultStep` say that nothing a
  daemon or a fault does changes the number a daemon works for.

  `UseEnv` is the agent's promise to set `ConfigSequenceNumber`; without it a command may take
  another number's settings.

`CustomScriptProofs` proves all four invariants and the ledger, for any number of settings, daemons, retries,
repeated commands and kills (`ScriptAssumption`):

* `TypeCorrect`: by an invariant of each daemon's record (`WorkOK`), which says that what is left
  and what was slept add up to the retry count. Its step is `DaemonMoves`: every step of a
  daemon changes one record, as `Moves` says, which the other proofs use, too.
* `ScriptsRunOnce`: `mrseq` is saved before a daemon is launched (`SavedFirst`), and a daemon that
  is not overtaken works for its own number (`OwnNumber`).
* `SuccessIsReal`: a script's "success" in the status file, or in the temporary file, or about to be
  written, has its script behind it, and a disable's its disable (`Truth`).
* `StatusIsFinal`: once a daemon that was not killed, overtaken or followed by a late
  "launching" has written its last report, the next report in place is a final one, whoever
  renames it (`Settled`, `DaemonSettles`); or the command refused (`RefusalSettles`).
* `CustomScriptKeepsLedger`: `Spec => LedgerSpec`. `VInv` says who wrote a final report that is
  not excused: a daemon that has reported and runs nothing more (`Closed`, or `Closing` while the
  report is in the temporary file), or a command that refused a number for which no daemon
  is ever launched (`Refused`, `Refusing`); so nobody is left to report again. `Informed`: nobody
  works for a number that has not been given.

## 7. What is only model-checked

Liveness (`FreezeIsBounded`, `EveryDaemonEnds`, `FilesAreRetried`, `FinishReturns`,
`CommandsSettle`, `FinalReport`, `RunEnds`), which is out of the prover's reach. Every
invariant, every action property and every refinement the passing runs check is also proved,
some for less than all inputs: `SnapshotsAreGuarded`, `SuccessIsConsistent` and `BackupSpec` under
the provisos named above, and those of `BackupEnable` for `UseEnv`. What a violation run
shows false has no theorem.

## 8. What is not modelled

* The worker processes of the parallel snapshot one by one; the plug-in host's pre
  and post scripts; the host's presnapshot beyond the choice it makes; the HTTP
  exchanges. See the plan.
* VMBackup's commands other than enable and daemon, which only report; the status blob and
  the upload of logs.
* CustomScript's conversion of downloaded files and its parsing of commands and URIs.
* mdsd's manager of uploaders (its reload of the configuration), the change of a key, and the
  rest of mdsd.
* OSPatching: its enable fails at every call in this commit, and it runs on Python 2 only. A model of its
  patch window would describe a program that does not run.
* VMEncryption's decryption, format and OS-disk commands, its marks, keys, and the choice
  of the volumes.
* The other extensions. DSC, VMAccess, OmsAgent, AzureMonitorAgent, LAD-AMA-Common,
  RDMAUpdate and AzureEnhancedMonitor are mostly straight-line drivers of external
  programs; `Common`, the storage and service clients (`azure/`), `waagent` copies, psutil and
  other packages are vendored, and make up much of the repository's lines.
