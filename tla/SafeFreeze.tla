----------------------------- MODULE SafeFreeze -----------------------------
(***************************************************************************)
(* The safefreeze helper binary of the VMBackup extension                  *)
(* (src/VMBackup/main/safefreeze/src/safefreeze.c) and the part of the     *)
(* kernel it drives: FIFREEZE and FITHAW on mounted file systems.          *)
(*                                                                         *)
(* Every freezer (a backup daemon) runs at most one binary at a time, so   *)
(* the state of a binary is a function of the freezer.  Nothing in the     *)
(* kernel ties a freeze to the process that asked for it: any binary's     *)
(* FITHAW thaws a file system whoever froze it.                            *)
(***************************************************************************)
EXTENDS Integers, Sequences

CONSTANTS
  Freezers,  \* the processes that run a binary
  Mounts,    \* the file systems of the machine
  Args,      \* Args[p]: the mount points on the command line of p's binary
  Timeout    \* argv[1]: how many one-second sleeps the binary waits

ASSUME ArgsAssumption    == Args \in [Freezers -> Seq(Mounts)]
ASSUME TimeoutAssumption == Timeout \in Nat \ {0}

VARIABLES
  frozen,    \* the mounts that are frozen (kernel)
  bpc,       \* bpc[p]: where p's binary is in main()
  cur,       \* cur[p]: the loop index i of the freeze and the cleanup loops
  gThaw,     \* gThaw[p]: SIGUSR1 was handled
  iter,      \* iter[p]: turns of the wait loop already taken
  cut,       \* cut[p]: a signal cut some sleep(1) of the wait loop short
  status     \* status[p]: the exit status

binVars == <<frozen, bpc, cur, gThaw, iter, cut, status>>

BinPc == {"idle", "open", "freeze", "notify", "wait", "thaw", "exited"}

EXIT_SUCCESS == 0
EXIT_FAILURE == 1
SLEEP_FAILED == 2
BY_SIGNAL    == 3   \* killed: Popen.returncode is negative

Running(p) == bpc[p] \notin {"idle", "exited"}

MountsOf(p) == {Args[p][i] : i \in 1..Len(Args[p])}

(***************************************************************************)
(* The file systems p's binary has frozen, or may have, and still has to   *)
(* issue FITHAW for.                                                       *)
(***************************************************************************)
ToThaw(p) ==
  {Args[p][i] : i \in {j \in 1..Len(Args[p]) :
                         \/ bpc[p] = "freeze" /\ j < cur[p]
                         \/ bpc[p] \in {"notify", "wait"}
                         \/ bpc[p] = "thaw" /\ j <= cur[p]}}

BinInit ==
  /\ frozen = {}
  /\ bpc = [p \in Freezers |-> "idle"]
  /\ cur = [p \in Freezers |-> 0]
  /\ gThaw = [p \in Freezers |-> FALSE]
  /\ iter = [p \in Freezers |-> 0]
  /\ cut = [p \in Freezers |-> FALSE]
  /\ status = [p \in Freezers |-> EXIT_SUCCESS]

-----------------------------------------------------------------------------
(* exec of the binary; a freezer passes at least one mount point. *)
Launch(p) ==
  /\ ~Running(p)
  /\ Args[p] # <<>>
  /\ bpc' = [bpc EXCEPT ![p] = "open"]
  /\ cur' = [cur EXCEPT ![p] = 0]
  /\ gThaw' = [gThaw EXCEPT ![p] = FALSE]
  /\ iter' = [iter EXCEPT ![p] = 0]
  /\ cut' = [cut EXCEPT ![p] = FALSE]
  /\ status' = [status EXCEPT ![p] = EXIT_SUCCESS]
  /\ UNCHANGED frozen

(* JUMPWITHSTATUS with n descriptors open: CLEANUP walks back from n. *)
Cleanup(p, n, s) ==
  /\ bpc' = [bpc EXCEPT ![p] = "thaw"]
  /\ cur' = [cur EXCEPT ![p] = n]
  /\ status' = [status EXCEPT ![p] = s]

(* Every mount point was opened and is a directory; handlers installed. *)
OpenAll(p) ==
  /\ bpc[p] = "open"
  /\ bpc' = [bpc EXCEPT ![p] = "freeze"]
  /\ cur' = [cur EXCEPT ![p] = 1]
  /\ UNCHANGED <<frozen, gThaw, iter, cut, status>>

(* open() or fstat() of some mount fails, or it is not a directory, with n *)
(* descriptors open; or sigaction() fails with all of them open.           *)
OpenFails(p) ==
  /\ bpc[p] = "open"
  /\ \E n \in 0..Len(Args[p]) : Cleanup(p, n, EXIT_FAILURE)
  /\ UNCHANGED <<frozen, gThaw, iter, cut>>

(* Mutant: the loop runs to i <= num_mounts. *)
MutFreezeNextOneMore(p) ==
  /\ bpc[p] = "freeze"
  /\ Args[p][cur[p]] \notin frozen
  /\ frozen' = frozen \cup {Args[p][cur[p]]}
  /\ cur' = [cur EXCEPT ![p] = @ + 1]
  /\ bpc' = [bpc EXCEPT ![p] = IF cur[p] > Len(Args[p]) THEN "notify" ELSE @]
  /\ UNCHANGED <<gThaw, iter, cut, status>>

(* Mutant: the parent is told after the first freeze. *)
MutFreezeNextFirstOnly(p) ==
  /\ bpc[p] = "freeze"
  /\ Args[p][cur[p]] \notin frozen
  /\ frozen' = frozen \cup {Args[p][cur[p]]}
  /\ bpc' = [bpc EXCEPT ![p] = "notify"]
  /\ UNCHANGED <<cur, gThaw, iter, cut, status>>

(* ioctl(FIFREEZE) succeeds only on a file system that is not frozen. *)
FreezeNext(p) ==
  /\ bpc[p] = "freeze"
  /\ Args[p][cur[p]] \notin frozen
  /\ frozen' = frozen \cup {Args[p][cur[p]]}
  /\ cur' = [cur EXCEPT ![p] = @ + 1]
  /\ bpc' = [bpc EXCEPT ![p] = IF cur[p] = Len(Args[p]) THEN "notify" ELSE @]
  /\ UNCHANGED <<gThaw, iter, cut, status>>

(* Mutant: the failure path forgets the descriptors it has to thaw. *)
MutFreezeFailsNoThaw(p) ==
  /\ bpc[p] = "freeze"
  /\ Cleanup(p, 0, EXIT_FAILURE)
  /\ UNCHANGED <<frozen, gThaw, iter, cut>>

(* Mutant: a failed FIFREEZE is logged and the loop goes on. *)
MutFreezeFailsGoesOn(p) ==
  /\ bpc[p] = "freeze"
  /\ cur' = [cur EXCEPT ![p] = @ + 1]
  /\ bpc' = [bpc EXCEPT ![p] = IF cur[p] = Len(Args[p]) THEN "notify" ELSE @]
  /\ UNCHANGED <<frozen, gThaw, iter, cut, status>>

(* EBUSY on a frozen one; it may fail for other reasons on any.  The jump  *)
(* leads to a cleanup of every descriptor, frozen by this process or not.  *)
FreezeFails(p) ==
  /\ bpc[p] = "freeze"
  /\ Cleanup(p, Len(Args[p]), EXIT_FAILURE)
  /\ UNCHANGED <<frozen, gThaw, iter, cut>>

(* kill(getppid(), SIGUSR1): the daemon, or init once the daemon is dead. *)
Notify(p) ==
  /\ bpc[p] = "notify"
  /\ bpc' = [bpc EXCEPT ![p] = "wait"]
  /\ UNCHANGED <<frozen, cur, gThaw, iter, cut, status>>

(* One turn of the wait loop: sleep(1), which a handled signal cuts short. *)
SleepOne(p) ==
  /\ bpc[p] = "wait"
  /\ ~gThaw[p]
  /\ iter[p] < Timeout
  /\ iter' = [iter EXCEPT ![p] = @ + 1]
  /\ \E short \in BOOLEAN : cut' = [cut EXCEPT ![p] = @ \/ short]
  /\ UNCHANGED <<frozen, bpc, cur, gThaw, status>>

(* Mutant: the wait ends with the signal only. *)
MutWaitOverNoTimeout(p) ==
  /\ bpc[p] = "wait"
  /\ gThaw[p]
  /\ Cleanup(p, Len(Args[p]), EXIT_SUCCESS)
  /\ UNCHANGED <<frozen, gThaw, iter, cut>>

(* The loop is over.  With no thaw signal the clock tells a timeout from   *)
(* sleeps that were cut short; those may still add up to the timeout.  The *)
(* loop's variables are not used any more.                                 *)
WaitOver(p) ==
  /\ bpc[p] = "wait"
  /\ gThaw[p] \/ iter[p] >= Timeout
  /\ \E s \in {EXIT_SUCCESS, EXIT_FAILURE, SLEEP_FAILED} :
       /\ (s = EXIT_SUCCESS) <=> gThaw[p]
       /\ (s = SLEEP_FAILED) => cut[p]
       /\ Cleanup(p, Len(Args[p]), s)
  /\ iter' = [iter EXCEPT ![p] = 0]
  /\ cut' = [cut EXCEPT ![p] = FALSE]
  /\ UNCHANGED <<frozen, gThaw>>

(* Mutant: a failed FITHAW leaves the exit status alone. *)
MutThawNextSilent(p) ==
  /\ bpc[p] = "thaw"
  /\ cur[p] > 0
  /\ frozen' = frozen \ {Args[p][cur[p]]}
  /\ cur' = [cur EXCEPT ![p] = @ - 1]
  /\ UNCHANGED <<bpc, gThaw, iter, cut, status>>

(* CLEANUP, last descriptor first; FITHAW fails on what is not frozen. *)
ThawNext(p) ==
  /\ bpc[p] = "thaw"
  /\ cur[p] > 0
  /\ frozen' = frozen \ {Args[p][cur[p]]}
  /\ status' = [status EXCEPT ![p] =
                  IF Args[p][cur[p]] \in frozen THEN @ ELSE EXIT_FAILURE]
  /\ cur' = [cur EXCEPT ![p] = @ - 1]
  /\ UNCHANGED <<bpc, gThaw, iter, cut>>

(* The process is gone; its exit status is left for its parent. *)
Exit(p) ==
  /\ bpc[p] = "thaw"
  /\ cur[p] = 0
  /\ bpc' = [bpc EXCEPT ![p] = "exited"]
  /\ gThaw' = [gThaw EXCEPT ![p] = FALSE]
  /\ UNCHANGED <<frozen, cur, iter, cut, status>>

(* SIGUSR1 reaches the binary: before sigaction() it kills the process. *)
ThawSignal(p) ==
  /\ Running(p)
  /\ IF bpc[p] = "open"
     THEN /\ bpc' = [bpc EXCEPT ![p] = "exited"]
          /\ status' = [status EXCEPT ![p] = BY_SIGNAL]
          /\ UNCHANGED gThaw
     ELSE /\ gThaw' = [gThaw EXCEPT ![p] = TRUE]
          /\ UNCHANGED <<bpc, status>>
  /\ UNCHANGED <<frozen, cur, iter, cut>>

-----------------------------------------------------------------------------
(* What the binary does on its own, exit apart; what its freezer does. *)
BinStep(p) ==
  \/ OpenAll(p)    \/ OpenFails(p)
  \/ FreezeNext(p) \/ FreezeFails(p) \/ Notify(p)
  \/ SleepOne(p)   \/ WaitOver(p)    \/ ThawNext(p)

BinNext == \E p \in Freezers :
             BinStep(p) \/ Exit(p) \/ Launch(p) \/ ThawSignal(p)

BinSpec == BinInit /\ [][BinNext]_binVars

(* The kernel schedules a running binary; nothing forces a freezer to act. *)
BinFairness == \A p \in Freezers : WF_binVars(BinStep(p) \/ Exit(p))

BinFairSpec == BinSpec /\ BinFairness

-----------------------------------------------------------------------------
BinTypeOK ==
  /\ frozen \subseteq Mounts
  /\ bpc \in [Freezers -> BinPc]
  /\ cur \in [Freezers -> Nat]
  /\ \A p \in Freezers :
       /\ bpc[p] = "freeze" => cur[p] \in 1..Len(Args[p])
       /\ bpc[p] = "thaw" => cur[p] \in 0..Len(Args[p])
       /\ bpc[p] \in {"open", "freeze", "notify", "wait"} => Len(Args[p]) > 0
  /\ gThaw \in [Freezers -> BOOLEAN]
  /\ iter \in [Freezers -> 0..Timeout]
  /\ cut \in [Freezers -> BOOLEAN]
  /\ status \in [Freezers -> 0..3]

(* A file system is never frozen without a live binary that has still to   *)
(* issue FITHAW for it (the CLEANUP of safefreeze.c, reached on every      *)
(* path): whatever binaries interleave, no freeze is orphaned.             *)
NoOrphanFreeze == \A m \in frozen : \E p \in Freezers : m \in ToThaw(p)

(* A binary that waits for its thaw signal holds all its file systems      *)
(* frozen, unless some other freezer names one of them too: this is what   *)
(* the daemon relies on while it takes the snapshots.                      *)
Alone(p) == \A q \in Freezers \ {p} : MountsOf(p) \cap MountsOf(q) = {}

WaitingHoldsFreeze ==
  \A p \in Freezers :
    Alone(p) /\ bpc[p] \in {"notify", "wait"} => MountsOf(p) \subseteq frozen

(* A freeze is bounded: every frozen file system is thawed again, even     *)
(* when no thaw signal is ever sent (the wait loop's timeout).             *)
FreezeIsBounded == \A m \in Mounts : m \in frozen ~> m \notin frozen
=============================================================================
