---------------------- MODULE InPlaceEncryptionProofs -----------------------
(***************************************************************************)
(* What holds of the copy of a volume onto itself for slices of any size,  *)
(* volumes of any length, and any number of failures and reboots.          *)
(***************************************************************************)
EXTENDS InPlaceEncryption, TLAPS

(***************************************************************************)
(* The slices of the main copy do not overlap: slice i begins where slice  *)
(* k > i has ended, or later.                                              *)
(***************************************************************************)
LEMMA SlicesAreApart ==
  ASSUME NEW i \in Nat, NEW k \in Nat, i < k
  PROVE  Slice * (FullSlices - k) + Slice <= Slice * (FullSlices - i)
<1> DEFINE a == FullSlices - k
           d == k - i
<1>1. Slice \in Nat /\ a \in Int /\ d \in Nat /\ d >= 1
  BY SliceAssumption
<1>2. FullSlices - i = a + d
  BY SliceAssumption
<1> HIDE DEF a, d
<1>3. Slice * (a + d) = Slice * a + Slice * d
  BY <1>1
<1>4. Slice * d >= Slice
  BY <1>1
<1>5. Slice * a \in Int /\ Slice * d \in Int
  BY <1>1
<1>6. Slice * a + Slice <= Slice * (a + d)
  BY <1>1, <1>3, <1>4, <1>5
<1> QED
  BY <1>2, <1>6 DEF a

LEMMA Sizes == Size \in Nat /\ Slice \in Nat \ {0} /\ FullSlices \in Nat
               /\ LastUnits \in Nat /\ LastUnits < Slice /\ HeaderUnits \in Nat
<1>1. FullSlices * Slice \in Nat
  BY SliceAssumption
<1> QED
  BY <1>1, SliceAssumption DEF Size

(* A slice of the main copy is within the volume. *)
LEMMA SliceInVolume ==
  ASSUME NEW k \in 0..FullSlices, NEW m \in MainSlice(k)
  PROVE  m \in 1..Size
<1>1. Slice * FullSlices \in Nat /\ Slice * FullSlices = FullSlices * Slice
  BY Sizes
<1>2. Slice * (FullSlices - k) \in Nat
  BY Sizes
<1>3. CASE k = 0
  BY <1>1, <1>3, Sizes DEF MainSlice, Size
<1>4. CASE k # 0
  <2>1. Slice * (FullSlices - k) + Slice <= Slice * (FullSlices - 0)
    BY <1>4, SlicesAreApart
  <2>2. FullSlices - 0 = FullSlices
    BY Sizes
  <2>3. m \in (Slice * (FullSlices - k) + 1)..(Slice * (FullSlices - k) + Slice)
    BY <1>4 DEF MainSlice
  <2> HIDE DEF MainSlice
  <2>4. m >= 1 /\ m <= Slice * FullSlices /\ m \in Int
    BY <1>1, <1>2, <2>1, <2>2, <2>3, Sizes
  <2> QED
    BY <1>1, <2>4, Sizes DEF Size
<1> QED
  BY <1>3, <1>4

-----------------------------------------------------------------------------
(***************************************************************************)
(* The inductive invariant.  DeviceOK is what the writes need to know of   *)
(* the state; DetachedOK places the daemon in each phase of the detached   *)
(* mode and says that nothing is written before the main copy.             *)
(***************************************************************************)
DeviceOK ==
  /\ DOMAIN raw = 1..(Size + Shift)
  /\ conf \in [phase : Phases, idx : Nat]
  /\ at \in Nat
  /\ mode \in Modes

DetachedOK ==
  mode = "detached" =>
    /\ conf.phase \in {"none", "EncryptDevice", "CopyData", "Done"}
    /\ conf.phase = "none" => pc \in {"down", "over"}
    /\ conf.phase = "EncryptDevice" => pc \in {"down", "phase"}
    /\ conf.phase = "CopyData" => pc \in Pcs \ {"clear", "over"}
    /\ conf.phase = "Done" => pc \in {"down", "clear"}
    /\ conf.phase \in {"none", "EncryptDevice"} /\ pc # "over" =>
         \A m \in 1..Size : raw[m] = Plain(m)

CopyInv == DeviceOK /\ DetachedOK /\ AheadIsUntouched

LEMMA InitCopyInv == Init => CopyInv
<1> SUFFICES ASSUME Init PROVE CopyInv
  OBVIOUS
<1>1. Size + Shift \in Nat /\ Size <= Size + Shift
  BY Sizes DEF Shift
<1> QED
  BY <1>1, Sizes DEF Init, CopyInv, DeviceOK, DetachedOK, AheadIsUntouched, Copying,
    Phases, Pcs, Shift

(***************************************************************************)
(* One unit of dd during the main copy: only the current slice is written. *)
(***************************************************************************)
LEMMA WriteStaysInSlice ==
  ASSUME DeviceOK, Copying, NEW c, at < Slice,
         WriteUnit(c, Offset(conf.idx) + at + 1),
         NEW k \in Nat, k # conf.idx, NEW m \in MainSlice(k), m \in 1..Size
  PROVE  raw'[m + Shift] = raw[m + Shift]
<1> DEFINE first == Slice * (FullSlices - conf.idx)
           mine  == Slice * (FullSlices - k)
<1>0. conf.idx \in Nat /\ at \in Nat
  BY DEF DeviceOK
<1>1. Offset(conf.idx) = first
  <2>1. TotalSlices - conf.idx - 1 = FullSlices - conf.idx
    BY <1>0, Sizes DEF TotalSlices, Main, Copying
  <2> QED
    BY <2>1 DEF Offset, SkipBlock, Main, Copying
<1>2. first \in Int /\ mine \in Int
  BY <1>0, Sizes
<1>3. m > mine /\ m \in Int /\ (k # 0 => m <= mine + Slice)
  BY <1>2, Sizes DEF MainSlice
<1>4. k < conf.idx => first + Slice <= mine
  BY <1>0, SlicesAreApart
<1>5. conf.idx < k => mine + Slice <= first
  BY <1>0, SlicesAreApart
<1> HIDE DEF first, mine
<1>6. m # first + at + 1
  <2>1. CASE k < conf.idx
    BY <1>0, <1>2, <1>3, <1>4, <2>1, Sizes
  <2>2. CASE conf.idx < k
    BY <1>0, <1>2, <1>3, <1>5, <2>2, Sizes
  <2> QED
    BY <1>0, <2>1, <2>2
<1>7. Shift \in Nat
  BY Sizes DEF Shift
<1>8. m + Shift # first + at + 1 + Shift
  BY <1>0, <1>2, <1>3, <1>6, <1>7
<1>9. m + Shift \in DOMAIN raw
  BY <1>7, Sizes DEF DeviceOK
<1> QED
  BY <1>1, <1>8, <1>9 DEF WriteUnit, Copying

(***************************************************************************)
(* The steps, sorted by what they do to the device and to the config.      *)
(***************************************************************************)
Writing == WriteNext \/ RewriteNext

Encrypting == EncryptDevice \/ EncryptFails

LEMMA ModeIsFixed == ASSUME [Next]_vars PROVE mode' = mode
BY DEF Next, vars, StartItem, Resume, Daemon, Phase, BackupHeader, ShrinkFails,
  EncryptDevice, EncryptFails, CopyData, OpenFails, RecoverHeader, ResumeCopy,
  MemFsFails, SkipResume, Refill, RefillFails, RewriteNext, RewriteFails, Rewritten,
  RemoveSaved, BeginCopy, SkipSlice, ReadSlice, SourceIsGone, ReadFails, WriteNext,
  WriteFails, WriteDone, CommitSlice, Finish, NextPhase, LastCopyOver, CommitDone,
  ClearItem, Backup, BackupOpens, BackupWrites, BackupFails, Reboot, disks

LEMMA OthersKeepDevice ==
  ASSUME [Next]_vars, ~Writing, ~Encrypting PROVE raw' = raw
BY DEF Writing, Encrypting, Next, vars, StartItem, Resume, Daemon, Phase,
  BackupHeader, ShrinkFails, CopyData, OpenFails, RecoverHeader, ResumeCopy,
  MemFsFails, SkipResume, Refill, RefillFails, RewriteFails, Rewritten,
  RemoveSaved, BeginCopy, SkipSlice, ReadSlice, SourceIsGone, ReadFails,
  WriteFails, WriteDone, CommitSlice, Finish, NextPhase, LastCopyOver, CommitDone,
  ClearItem, Backup, BackupOpens, BackupWrites, BackupFails, Reboot, disks

LEMMA DeviceStep == ASSUME DeviceOK, [Next]_vars PROVE DeviceOK'
<1>1. DOMAIN raw' = DOMAIN raw
  <2>1. CASE Writing
    BY <2>1 DEF Writing, WriteNext, RewriteNext, WriteUnit
  <2>2. CASE Encrypting
    BY <2>2 DEF Encrypting, EncryptDevice, EncryptFails, Formatted
  <2> QED
    BY <2>1, <2>2, OthersKeepDevice
<1>2. conf' \in [phase : Phases, idx : Nat]
  BY DEF DeviceOK, Phases, Next, vars, StartItem, Resume, Daemon, Phase, BackupHeader,
    ShrinkFails, EncryptDevice, EncryptFails, CopyData, OpenFails, RecoverHeader,
    ResumeCopy, MemFsFails, SkipResume, Refill, RefillFails, RewriteNext,
    RewriteFails, Rewritten, RemoveSaved, BeginCopy, SkipSlice, ReadSlice,
    SourceIsGone, ReadFails, WriteNext, WriteFails, WriteDone, CommitSlice, Finish,
    NextPhase, LastCopyOver, CommitDone, ClearItem, Backup, BackupOpens,
    BackupWrites, BackupFails, Reboot
<1>3. at' \in Nat
  BY DEF DeviceOK, Next, vars, StartItem, Resume, Daemon, Phase, BackupHeader,
    ShrinkFails, EncryptDevice, EncryptFails, CopyData, OpenFails, RecoverHeader,
    ResumeCopy, MemFsFails, SkipResume, Refill, RefillFails, RewriteNext,
    RewriteFails, Rewritten, RemoveSaved, BeginCopy, SkipSlice, ReadSlice,
    SourceIsGone, ReadFails, WriteNext, WriteFails, WriteDone, CommitSlice, Finish,
    NextPhase, LastCopyOver, CommitDone, ClearItem, Backup, BackupOpens,
    BackupWrites, BackupFails, Reboot, GivesUp, copy
<1> QED
  BY <1>1, <1>2, <1>3, ModeIsFixed DEF DeviceOK, Shift

(* A unit of the main copy is written within the bounds of its slice. *)
LEMMA WritingIsCurrent ==
  ASSUME DeviceOK, Copying, Writing
  PROVE  /\ at < Slice /\ conf' = conf
         /\ \E c : WriteUnit(c, Offset(conf.idx) + at + 1)
<1>1. LastUnits < Slice
  BY Sizes
<1>2. CASE WriteNext
  <2>1. at < Slice
    BY <1>1, <1>2, Sizes DEF WriteNext, Length, LastSize, Main, Copying, DeviceOK
  <2> QED
    BY <1>2, <2>1 DEF WriteNext
<1>3. CASE RewriteNext
  <2>1. at < Slice
    BY <1>1, <1>3, Sizes DEF RewriteNext, SavedSize, LastSize, Main, Copying, DeviceOK
  <2> QED
    BY <1>3, <2>1 DEF RewriteNext
<1> QED
  BY <1>2, <1>3 DEF Writing

(***************************************************************************)
(* No step of the main copy writes to a committed slice or goes back.      *)
(***************************************************************************)
LEMMA CommittedStep == ASSUME DeviceOK, [Next]_vars PROVE CommittedStays
<1> SUFFICES ASSUME Copying PROVE
      /\ \A k \in 0..(conf.idx - 1) :
           \A m \in MainSlice(k) \cap 1..Size : raw'[m + Shift] = raw[m + Shift]
      /\ Copying' => conf'.idx >= conf.idx
  BY DEF CommittedStays
<1>0. conf.idx \in Nat /\ conf \in [phase : Phases, idx : Nat]
  BY DEF DeviceOK
<1>1. ASSUME NEW k \in 0..(conf.idx - 1), NEW m \in MainSlice(k) \cap 1..Size
      PROVE  raw'[m + Shift] = raw[m + Shift]
  <2>1. CASE Writing
    <3>1. PICK c : WriteUnit(c, Offset(conf.idx) + at + 1)
      BY <2>1, WritingIsCurrent
    <3>2. at < Slice
      BY <2>1, WritingIsCurrent
    <3> QED
      BY <1>0, <3>1, <3>2, WriteStaysInSlice
  <2>2. ~Encrypting
    BY DEF Encrypting, EncryptDevice, EncryptFails, Copying
  <2> QED
    BY <2>1, <2>2, OthersKeepDevice
<1>2. Copying' => conf'.idx >= conf.idx
  BY <1>0 DEF Copying, Phases, Next, vars, StartItem, Resume, Daemon, Phase,
    BackupHeader, ShrinkFails, EncryptDevice, EncryptFails, CopyData, OpenFails,
    RecoverHeader, ResumeCopy, MemFsFails, SkipResume, Refill, RefillFails,
    RewriteNext, RewriteFails, Rewritten, RemoveSaved, BeginCopy, SkipSlice,
    ReadSlice, SourceIsGone, ReadFails, WriteNext, WriteFails, WriteDone, CommitSlice,
    Finish, NextPhase, LastCopyOver, CommitDone, ClearItem, Backup, BackupOpens,
    BackupWrites, BackupFails, Reboot
<1> QED
  BY <1>1, <1>2

(***************************************************************************)
(* In the detached mode the daemon is where its phase says.                *)
(***************************************************************************)
LEMMA DetachedStep == ASSUME DeviceOK, DetachedOK, [Next]_vars PROVE DetachedOK'
<1> SUFFICES ASSUME mode = "detached" PROVE DetachedOK'
  BY ModeIsFixed DEF DetachedOK
<1>0. mode' = "detached"
  BY ModeIsFixed
<1>1. CASE UNCHANGED vars
  BY <1>1 DEF vars, DetachedOK
<1>2. CASE StartItem
  BY <1>2 DEF StartItem, DetachedOK, DeviceOK, disks
<1>3. CASE Resume
  BY <1>3 DEF Resume, DetachedOK, DeviceOK, Pcs, disks
<1>4. CASE Phase
  <2>1. CASE EncryptDevice
    BY <1>0, <2>1 DEF EncryptDevice, DetachedOK, DeviceOK, Pcs
  <2>2. CASE EncryptFails
    <3>1. raw' = raw
      BY <2>2 DEF EncryptFails, Formatted
    <3> QED
      BY <1>0, <2>2, <3>1 DEF EncryptFails, GivesUp, DetachedOK
  <2>3. CASE CopyData \/ OpenFails
    BY <1>0, <2>3 DEF CopyData, OpenFails, GivesUp, DetachedOK, Pcs, disks
  <2>4. CASE BackupHeader \/ ShrinkFails \/ RecoverHeader
    BY <2>4 DEF BackupHeader, ShrinkFails, RecoverHeader, DetachedOK
  <2> QED
    BY <1>4, <2>1, <2>2, <2>3, <2>4 DEF Phase
<1>5. CASE ResumeCopy
  BY <1>0, <1>5 DEF ResumeCopy, MemFsFails, SkipResume, Refill, RefillFails,
    RewriteNext, RewriteFails, Rewritten, RemoveSaved, GivesUp, DetachedOK, DeviceOK,
    Pcs, disks
<1>6. CASE BeginCopy
  BY <1>0, <1>6 DEF BeginCopy, HasSlice, SkipSlice, ReadSlice, SourceIsGone, ReadFails,
    WriteNext, WriteFails, WriteDone, CommitSlice, GivesUp, DetachedOK, DeviceOK,
    Pcs, disks
<1>7. CASE Finish
  BY <1>0, <1>7 DEF Finish, CopyOver, NextPhase, LastCopyOver, CommitDone, ClearItem,
    DetachedOK, DeviceOK, Pcs, disks, Main
<1>8. CASE Backup
  BY <1>0, <1>8 DEF Backup, BackupOpens, BackupWrites, BackupFails, DetachedOK, disks
<1>9. CASE Reboot
  BY <1>0, <1>9 DEF Reboot, DetachedOK, Pcs
<1> QED
  BY <1>1, <1>2, <1>3, <1>4, <1>5, <1>6, <1>7, <1>8, <1>9 DEF Next, Daemon

(***************************************************************************)
(* The slices ahead of the copy stay as they were.                         *)
(***************************************************************************)
LEMMA AheadStep ==
  ASSUME DeviceOK, DetachedOK, AheadIsUntouched, [Next]_vars
  PROVE  AheadIsUntouched'
<1> SUFFICES ASSUME Copying', mode' = "detached",
                    NEW k \in (conf'.idx + 1)..FullSlices, NEW m \in MainSlice(k)
             PROVE  raw'[m] = Plain(m)
  BY DEF AheadIsUntouched, MainSlice, Plain
<1>0. mode = "detached" /\ Shift = 0 /\ conf.idx \in Nat /\ conf'.idx \in Nat
  BY ModeIsFixed, DeviceStep DEF DeviceOK, Shift
<1>1. k \in 0..FullSlices /\ k \in Nat /\ m \in 1..Size /\ m + Shift = m
  BY <1>0, SliceInVolume, Sizes
<1>2. CASE Copying
  <2>1. conf'.idx >= conf.idx
    BY <1>2, CommittedStep DEF CommittedStays
  <2>2. k > conf.idx /\ raw[m] = Plain(m)
    BY <1>0, <1>1, <1>2, <2>1 DEF AheadIsUntouched
  <2>3. CASE Writing
    <3>1. PICK c : WriteUnit(c, Offset(conf.idx) + at + 1)
      BY <1>2, <2>3, WritingIsCurrent
    <3>2. at < Slice
      BY <1>2, <2>3, WritingIsCurrent
    <3>3. raw'[m + Shift] = raw[m + Shift]
      BY <1>0, <1>1, <1>2, <2>2, <3>1, <3>2, WriteStaysInSlice
    <3> QED
      BY <1>1, <2>2, <3>3
  <2>4. ~Encrypting
    BY <1>2 DEF Encrypting, EncryptDevice, EncryptFails, Copying
  <2> QED
    BY <2>2, <2>3, <2>4, OthersKeepDevice
<1>3. CASE ~Copying
  <2>1. EncryptDevice
    BY <1>0, <1>3 DEF Copying, DeviceOK, Next, vars, StartItem, Resume, Daemon, Phase,
      BackupHeader, ShrinkFails, EncryptFails, CopyData, OpenFails, RecoverHeader,
      ResumeCopy, MemFsFails, SkipResume, Refill, RefillFails, RewriteNext,
      RewriteFails, Rewritten, RemoveSaved, BeginCopy, SkipSlice, ReadSlice,
      SourceIsGone, ReadFails, WriteNext, WriteFails, WriteDone, CommitSlice,
      Finish, NextPhase, LastCopyOver, CommitDone, ClearItem, Backup, BackupOpens,
      BackupWrites, BackupFails, Reboot
  <2>2. raw' = raw
    BY <1>0, <2>1 DEF EncryptDevice, Formatted
  <2>3. raw[m] = Plain(m)
    BY <1>0, <1>1, <2>1 DEF EncryptDevice, DetachedOK
  <2> QED
    BY <2>2, <2>3
<1> QED
  BY <1>2, <1>3

LEMMA CopyInvHolds == Spec => []CopyInv
<1>1. CopyInv /\ [Next]_vars => CopyInv'
  BY DeviceStep, DetachedStep, AheadStep DEF CopyInv
<1> QED
  BY InitCopyInv, <1>1, PTL DEF Spec

-----------------------------------------------------------------------------
(***************************************************************************)
(* In any phase, whatever failed, however often the machine rebooted: with *)
(* a detached header the slices after the committed index are untouched.   *)
(***************************************************************************)
THEOREM NothingAheadIsLost == Spec => []AheadIsUntouched
<1>1. CopyInv => AheadIsUntouched
  BY DEF CopyInv
<1> QED
  BY CopyInvHolds, <1>1, PTL

(***************************************************************************)
(* Nothing that is resumed, repaired or copied again writes to a slice     *)
(* whose index was committed, with either kind of header.                  *)
(***************************************************************************)
THEOREM CommittedNeverRewritten == Spec => CommittedIsSettled
<1>1. CopyInv /\ [Next]_vars => [CommittedStays]_vars
  BY CommittedStep DEF CopyInv
<1> QED
  BY CopyInvHolds, <1>1, PTL DEF Spec, CommittedIsSettled
=============================================================================
