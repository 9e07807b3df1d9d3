---------------------------- MODULE DamageProofs -----------------------------
(***************************************************************************)
(* What failures and reboots may cost the copy of a volume onto itself,    *)
(* proved for slices of any size and volumes of any length: the types, the *)
(* bound on the damage, and the repair of the damage of one failure.       *)
(***************************************************************************)
EXTENDS InPlaceEncryptionProofs, FiniteSetTheorems, SequenceTheorems

(***************************************************************************)
(* Where the daemon is in each phase, and how far its copy may be.         *)
(***************************************************************************)
HeaderCopy == conf.phase \in {"BackupHeader", "RecoverHeader"}

PlaceInv ==
  /\ conf \in [phase : Phases, idx : Nat]
  /\ pc \in Pcs
  /\ bk \in {"off", "new", "on"}
  /\ bk # "off" => pc \in {"down", "write"}
  /\ HeaderCopy => mode = "inline"
  /\ pc = "phase" => conf.phase \notin {"none", "Done"}
  /\ pc \in {"resume", "copy", "write", "commit"} => Copying \/ HeaderCopy
  /\ pc \in {"rewrite", "remove"} => Copying
  /\ pc = "done" => Copying \/ conf.phase = "RecoverHeader"
  /\ pc = "clear" => conf.phase = "Done"
  /\ pc = "over" => conf.phase = "none"

IndexInv ==
  /\ conf.idx <= FullSlices + 1 \/ conf.idx <= 2
  /\ Copying => conf.idx <= FullSlices + 1
  /\ pc = "resume" /\ HeaderCopy => conf.idx = 0
  /\ pc = "copy" => conf.idx <= TotalSlices
  /\ pc \in {"write", "commit"} => conf.idx < TotalSlices
  /\ pc = "write" => Length(conf.idx) > 0
  /\ pc = "rewrite" => conf.idx <= FullSlices /\ SavedSize > 0
  /\ pc = "done" => conf.idx = TotalSlices
  /\ pc \notin {"write", "rewrite"} => at = 0

(***************************************************************************)
(* What the slice files hold: a file is a sequence of units no longer than *)
(* a slice, long enough for whoever reads from it.                         *)
(***************************************************************************)
File(f) == f \in Seq(Contents) /\ Len(f) <= Slice

SliceInv ==
  /\ raw \in [1..(Size + Shift) -> Contents]
  /\ File(buf)
  /\ at \in 0..Slice
  /\ pc = "write" => Len(buf) = Length(conf.idx) /\ at <= Len(buf)
  /\ bk # "off" => Len(buf) > 0

SavedInv ==
  /\ bak # NoFile => File(bak)
  /\ bk = "on" => bak # NoFile /\ Len(bak) < Len(buf)
  /\ pc = "rewrite" => bak # NoFile /\ Len(bak) = SavedSize /\ at <= SavedSize
  /\ pc = "commit" => bak = NoFile
  /\ HeaderCopy /\ pc = "copy" /\ conf.idx > 0 => bak = NoFile
  /\ conf.phase = "EncryptDevice" => bak = NoFile /\ bk = "off" /\ conf.idx = 0
  /\ Copying /\ conf.idx = 0 /\ LastUnits = 0 => bak = NoFile /\ bk = "off"
  /\ mode = "detached" /\ conf.phase = "none" /\ pc = "down" => bak = NoFile /\ bk = "off"

HeaderInv ==
  /\ IF mode = "detached" THEN hdr = NoFile ELSE hdr # NoFile => File(hdr)
  /\ conf.phase = "BackupHeader" =>
       /\ pc = "resume" \/ (pc = "copy" /\ conf.idx = 0) => hdr = NoFile
       /\ pc = "write" => IF at = 0 THEN hdr = NoFile
                                    ELSE hdr # NoFile /\ Len(hdr) = at
       /\ pc = "commit" \/ (pc = "copy" /\ conf.idx > 0) =>
            hdr # NoFile /\ Len(hdr) = Slice
  /\ conf.phase \in {"EncryptDevice", "CopyData", "RecoverHeader"} =>
       hdr = NoFile \/ Len(hdr) = Slice

CountInv ==
  /\ mode \in Modes
  /\ mapper \in {"closed", "open", "file"}
  /\ errors \in 0..MaxErrors /\ reboots \in 0..MaxReboots

CopyTypes ==
  CountInv /\ PlaceInv /\ IndexInv /\ SliceInv /\ SavedInv /\ HeaderInv

(***************************************************************************)
(* The budget of the main copy.  Need is what is left to pay for the       *)
(* current slice: nothing while it comes out right by itself, one failure  *)
(* while it can still be repaired from the backup slice, two once it may   *)
(* be lost.  An inline header spoils the units before Shift, whatever the  *)
(* copy does; they are recovered later.                                    *)
(***************************************************************************)
Damaged(k) == \E m \in MainSlice(k) : m > Shift /\ ~Right(m)

Lost == {k \in 0..FullSlices : k < Reach /\ Damaged(k)}

Start == Slice * (FullSlices - conf.idx)

Holds(f) == \A j \in 1..Len(f) : Start + j > Shift => f[j] = Plain(Start + j)

Fresh == \A m \in MainSlice(conf.idx) : m > Shift => raw[m] = Plain(m)

Written == \A j \in 1..at : Start + j > Shift => Right(Start + j)

Backed ==
  /\ Length(conf.idx) > 0
  /\ Len(buf) = Length(conf.idx) \/ bk = "off"
  /\ bk # "off" => Holds(buf)
  /\ bk = "on" => Holds(bak)
  /\ bk = "off" => bak # NoFile /\ Holds(bak) /\ Len(bak) = Length(conf.idx)

Clean ==
  \/ conf.idx > FullSlices
  \/ pc = "remove" /\ Fresh
  \/ pc \in {"down", "phase", "resume", "copy"} /\ Fresh /\ bak = NoFile /\ bk = "off"
  \/ pc = "write" /\ Holds(buf) /\ Written /\ Backed
  \/ pc = "commit" /\ ~Damaged(conf.idx)

Repairable ==
  \/ pc = "write" /\ Holds(buf) /\ Written
  \/ pc \in {"down", "phase", "resume"} /\ Backed
  \/ pc = "rewrite" /\ Holds(bak) /\ Written

Need == IF ~Copying \/ Clean THEN 0 ELSE IF Repairable THEN 1 ELSE 2

(* A reboot leaves the mapper of an inline header closed. *)
Certain == mode = "detached" \/ reboots = 0

Budget == 2 * Cardinality(Lost) + Need <= errors + 2 * reboots

Untouched ==
  /\ NotStarted => \A m \in 1..Size : m > Shift => raw[m] = Plain(m)
  /\ Copying => \A k \in (conf.idx + 1)..FullSlices :
                  \A m \in MainSlice(k) : m > Shift => raw[m] = Plain(m)

MapperInv ==
  /\ mode = "detached" => mapper # "file"
  /\ Copying /\ pc \notin {"down", "phase"} => mapper = "open"
  /\ mode = "inline" /\ conf.phase \in {"CopyData", "RecoverHeader"} => mapper = "open"

DamageInv ==
  /\ Untouched
  /\ Certain => MapperInv /\ (Copying \/ mode = "detached" => Budget)

(***************************************************************************)
(* The header, without a reboot: its saved slice is what the beginning of  *)
(* the device was, and it is written to where it belongs.                  *)
(***************************************************************************)
Copied(f) == \A j \in 1..Len(f) : f[j] = Plain(j)

AllRight == \A m \in 1..Size : Right(m)

SavesHeader ==
  conf.phase = "BackupHeader" =>
    /\ pc = "write" => Copied(buf) /\ (at > 0 => Copied(hdr))
    /\ pc = "commit" \/ (pc = "copy" /\ conf.idx > 0) => Copied(hdr)

StillPlain ==
  conf.phase \in {"none", "BackupHeader"} /\ pc # "over" =>
    \A m \in 1..Size : raw[m] = Plain(m)

HeaderSaved ==
  /\ conf.phase \in {"EncryptDevice", "CopyData", "RecoverHeader"} /\ pc # "done" =>
       hdr # NoFile /\ Copied(hdr)
  /\ pc = "done" => conf.phase = "RecoverHeader"

RecoversHeader ==
  errors <= 1 =>
    /\ conf.phase = "RecoverHeader" =>
         /\ \A m \in 1..Size : m > HeaderUnits => Right(m)
         /\ pc = "write" => Copied(buf) /\ \A m \in 1..at : Right(m)
         /\ pc \in {"commit", "done"} \/ (pc = "copy" /\ conf.idx > 0) => AllRight
    /\ conf.phase = "Done" \/ pc = "over" => AllRight

RecoverInv ==
  mode = "inline" /\ reboots = 0 =>
    SavesHeader /\ StillPlain /\ HeaderSaved /\ RecoversHeader

-----------------------------------------------------------------------------
(***************************************************************************)
(* The geometry of the copies.                                             *)
(***************************************************************************)
LEMMA MainGeometry ==
  ASSUME Copying, NEW k \in 0..FullSlices
  PROVE  /\ TotalSlices = FullSlices + 1
         /\ SkipBlock(k) = FullSlices - k
         /\ Offset(k) = Slice * (FullSlices - k) /\ Offset(k) \in Nat
         /\ Length(k) = IF k = 0 THEN LastUnits ELSE Slice
         /\ Length(k) \in 0..Slice
         /\ MainSlice(k) = (Offset(k) + 1)..(Offset(k) + Length(k))
         /\ Offset(k) + Length(k) <= Size
<1>1. TotalSlices = FullSlices + 1 /\ SkipBlock(k) = FullSlices - k
  BY Sizes DEF TotalSlices, SkipBlock, Main, Copying
<1>2. Offset(k) = Slice * (FullSlices - k) /\ Offset(k) \in Nat
  BY <1>1, Sizes DEF Offset
<1>3. Length(k) = (IF k = 0 THEN LastUnits ELSE Slice) /\ Length(k) \in 0..Slice
  BY Sizes DEF Length, IsLast, LastSize, Main, Copying
<1>4. MainSlice(k) = (Offset(k) + 1)..(Offset(k) + Length(k))
  BY <1>2, <1>3 DEF MainSlice
<1>5. Offset(k) + Length(k) <= Size
  <2>1. CASE Length(k) = 0
    <3>1. k = 0
      BY <1>3, <2>1, Sizes
    <3> QED
      BY <1>2, <2>1, <3>1, Sizes DEF Size
  <2>2. CASE Length(k) # 0
    <3>1. Offset(k) + Length(k) \in MainSlice(k)
      BY <1>2, <1>3, <1>4, <2>2
    <3> QED
      BY <3>1, SliceInVolume
  <2> QED
    BY <2>1, <2>2
<1> QED
  BY <1>1, <1>2, <1>3, <1>4, <1>5

LEMMA HeaderGeometry ==
  ASSUME HeaderCopy, mode \in Modes, mode = "inline"
  PROVE  /\ ~Main /\ ~Copying /\ TotalSlices = 2
         /\ Length(0) = Slice /\ Length(1) = 0 /\ Offset(0) = 0
         /\ Slice <= Size
<1>1. FullSlices > 0 /\ Slice <= FullSlices * Slice
  <2>1. FullSlices > 0
    BY SliceAssumption
  <2>2. \A n \in Nat : n > 0 => Slice <= n * Slice
    <3> TAKE n \in Nat
    <3> HAVE n > 0
    <3>1. (n - 1) * Slice >= 0 /\ n * Slice = (n - 1) * Slice + Slice
      BY Sizes
    <3> QED
      BY <3>1, Sizes
  <2> QED
    BY <2>1, <2>2, Sizes
<1> QED
  BY <1>1, Sizes DEF HeaderCopy, Main, Copying, TotalSlices, Length, IsLast, LastSize,
    Offset, SkipBlock, Size

(* What dd reads. *)
LEMMA Reads ==
  ASSUME NEW S, NEW s \in Seq(S), NEW o \in Nat, NEW n \in Nat, o + n <= Len(s)
  PROVE  /\ SubSeq(s, o + 1, o + n) \in Seq(S)
         /\ Len(SubSeq(s, o + 1, o + n)) = n
         /\ \A j \in 1..n : SubSeq(s, o + 1, o + n)[j] = s[o + j]
BY SubSeqProperties

-----------------------------------------------------------------------------
(***************************************************************************)
(* The places and the index.                                               *)
(***************************************************************************)
(* A copy of the header starts at 0, where LastSize says there is nothing. *)
LEMMA OnlyMainResumes ==
  ASSUME PlaceInv, IndexInv, pc = "resume", Resumable
  PROVE  Copying /\ conf.idx <= FullSlices /\ SavedSize > 0
<1>1. Copying
  BY DEF PlaceInv, IndexInv, Resumable, LastSize, Main, HeaderCopy, Copying
<1>2. conf.idx <= FullSlices
  BY <1>1, Sizes DEF PlaceInv, Resumable, SkipBlock, TotalSlices, Main, Copying
<1> QED
  BY <1>1, <1>2, Sizes DEF PlaceInv, Resumable, SavedSize, LastSize

LEMMA PlaceStep ==
  ASSUME PlaceInv, IndexInv, mode \in Modes, [Next]_vars PROVE PlaceInv'
<1>0. mode' = mode
  BY ModeIsFixed
<1>1. CASE UNCHANGED vars
  BY <1>1 DEF vars, PlaceInv, HeaderCopy, Copying
<1>2. CASE StartItem \/ Resume
  BY <1>0, <1>2, SliceAssumption DEF StartItem, Resume, PlaceInv, HeaderCopy, Copying, Phases, Pcs,
    disks, copy
<1>3. CASE Phase
  BY <1>0, <1>3 DEF Phase, BackupHeader, ShrinkFails, EncryptDevice, EncryptFails,
    CopyData, OpenFails, RecoverHeader, GivesUp, PlaceInv, HeaderCopy, Copying, Phases,
    Pcs, disks, copy
<1>4. CASE ResumeCopy
  BY <1>0, <1>4, OnlyMainResumes DEF ResumeCopy, MemFsFails, SkipResume, Refill,
    RefillFails, RewriteNext, RewriteFails, Rewritten, RemoveSaved, GivesUp, PlaceInv,
    HeaderCopy, Copying, Phases, Pcs, disks, copy
<1>5. CASE BeginCopy
  BY <1>0, <1>5 DEF BeginCopy, HasSlice, SkipSlice, ReadSlice, SourceIsGone, ReadFails,
    WriteNext, WriteFails, WriteDone, CommitSlice, GivesUp, PlaceInv, HeaderCopy,
    Copying, Phases, Pcs, disks, copy
<1>6. CASE Finish
  BY <1>0, <1>6 DEF Finish, CopyOver, NextPhase, LastCopyOver, CommitDone, ClearItem,
    PlaceInv, HeaderCopy, Copying, Phases, Pcs, disks, copy, Main
<1>7. CASE Backup \/ Reboot
  BY <1>0, <1>7 DEF Backup, BackupOpens, BackupWrites, BackupFails, Reboot, PlaceInv,
    HeaderCopy, Copying, Phases, Pcs, disks, copy
<1> QED
  BY <1>1, <1>2, <1>3, <1>4, <1>5, <1>6, <1>7 DEF Next, Daemon

LEMMA IndexStep ==
  ASSUME PlaceInv, IndexInv, at \in Nat, mode \in Modes, [Next]_vars PROVE IndexInv'
<1> USE DEF IndexInv
<1>0. conf.idx \in Nat /\ FullSlices \in Nat /\ Slice \in Nat /\ Slice > 0
  BY Sizes DEF PlaceInv
<1>1. CASE UNCHANGED vars
  BY <1>1 DEF vars, Copying, HeaderCopy, TotalSlices, Main, Length, IsLast, LastSize,
    SavedSize
<1>2. CASE StartItem \/ Resume
  BY <1>0, <1>2 DEF StartItem, Resume, Copying, HeaderCopy, PlaceInv, disks, copy
<1>3. CASE Phase
  BY <1>0, <1>3 DEF Phase, BackupHeader, ShrinkFails, EncryptDevice, EncryptFails,
    CopyData, OpenFails, RecoverHeader, GivesUp, PlaceInv, HeaderCopy, Copying, copy,
    disks
<1>4. CASE ResumeCopy
  <2>1. CASE MemFsFails \/ SkipResume
    BY <1>0, <2>1 DEF MemFsFails, SkipResume, GivesUp, PlaceInv, HeaderCopy, Copying,
      TotalSlices, Main, copy, disks
  <2>2. CASE Refill \/ RefillFails
    BY <1>0, <2>2, OnlyMainResumes DEF Refill, RefillFails, PlaceInv, HeaderCopy,
      Copying, TotalSlices, Main, SavedSize, LastSize, copy
  <2>3. CASE RewriteNext \/ RewriteFails
    BY <1>0, <2>3 DEF RewriteNext, RewriteFails, PlaceInv, HeaderCopy, Copying,
      TotalSlices, Main, SavedSize, LastSize, disks
  <2>4. CASE Rewritten
    BY <1>0, <2>4 DEF Rewritten, PlaceInv, HeaderCopy, Copying
  <2>5. CASE RemoveSaved
    BY <1>0, <2>5 DEF RemoveSaved, PlaceInv, HeaderCopy, Copying, TotalSlices, Main, copy
  <2> QED
    BY <1>4, <2>1, <2>2, <2>3, <2>4, <2>5 DEF ResumeCopy
<1>5. CASE BeginCopy
  <2>1. CASE SkipSlice \/ SourceIsGone \/ ReadFails
    BY <1>0, <2>1 DEF HasSlice, SkipSlice, SourceIsGone, ReadFails, GivesUp, PlaceInv,
      HeaderCopy, Copying, TotalSlices, Main, copy, disks
  <2>2. CASE ReadSlice
    BY <1>0, <2>2 DEF HasSlice, ReadSlice, PlaceInv, HeaderCopy, Copying, TotalSlices,
      Main, Length, IsLast, LastSize, disks
  <2>3. CASE WriteNext \/ WriteFails \/ WriteDone
    BY <1>0, <2>3 DEF WriteNext, WriteFails, WriteDone, GivesUp, PlaceInv, HeaderCopy,
      Copying, TotalSlices, Main, Length, IsLast, LastSize, disks
  <2>4. CASE CommitSlice
    BY <1>0, <2>4 DEF CommitSlice, PlaceInv, HeaderCopy, Copying, TotalSlices, Main,
      copy, disks
  <2> QED
    BY <1>5, <2>1, <2>2, <2>3, <2>4 DEF BeginCopy
<1>6. CASE Finish
  BY <1>0, <1>6 DEF Finish, CopyOver, NextPhase, LastCopyOver, CommitDone, ClearItem,
    PlaceInv, HeaderCopy, Copying, TotalSlices, Main, copy, disks
<1>7. CASE Backup
  BY <1>0, <1>7 DEF Backup, BackupOpens, BackupWrites, BackupFails, PlaceInv,
    HeaderCopy, Copying, TotalSlices, Main, Length, IsLast, LastSize, SavedSize, disks
<1>8. CASE Reboot
  BY <1>0, <1>8 DEF Reboot, PlaceInv, HeaderCopy, Copying
<1> QED
  BY <1>1, <1>2, <1>3, <1>4, <1>5, <1>6, <1>7, <1>8 DEF Next, Daemon

-----------------------------------------------------------------------------
(***************************************************************************)
(* The device and the slice files.                                         *)
(***************************************************************************)
LEMMA RawIsSeq ==
  ASSUME SliceInv
  PROVE  raw \in Seq(Contents) /\ Len(raw) = Size + Shift /\ Size + Shift \in Nat
<1>1. Size + Shift \in Nat
  BY Sizes DEF Shift
<1> QED
  BY <1>1 DEF SliceInv

LEMMA NoFileIsNoSeq == ASSUME NEW f, File(f) PROVE f # NoFile
BY NoFileAssumption DEF File

LEMMA CipherIsContents ==
  ASSUME NEW c \in Contents
  PROVE  Encrypted(c) \in Contents /\ Encrypted(c).of = c.of
BY DEF Encrypted, Contents

LEMMA FormattedTypes ==
  ASSUME SliceInv
  PROVE  /\ Formatted \in [1..(Size + Shift) -> Contents]
         /\ \A i \in 1..(Size + Shift) : i > Shift => Formatted[i] = raw[i]
<1>1. \A c \in Contents : [c EXCEPT !.form = "spoiled"] \in Contents
  BY DEF Contents
<1> QED
  BY <1>1, Sizes DEF SliceInv, Formatted, Shift

(* dd if=source of=slice_file *)
LEMMA SliceIsRead ==
  ASSUME PlaceInv, IndexInv, SliceInv, HeaderInv, mode \in Modes, ReadSlice
  PROVE  /\ File(buf') /\ Len(buf') = Length(conf.idx)
         /\ HeaderCopy => conf.idx = 0
         /\ \A j \in 1..Len(buf') :
              buf'[j] = IF conf.phase = "RecoverHeader" THEN hdr[j]
                        ELSE raw[Offset(conf.idx) + j]
<1> DEFINE k == conf.idx
<1>0. k \in Nat /\ Length(k) > 0 /\ k < TotalSlices
      /\ buf' = ReadUnits(Offset(k), Length(k))
  BY DEF ReadSlice, HasSlice, PlaceInv
<1>1. CASE Copying
  <2>1. k \in 0..FullSlices
    BY <1>0, <1>1, Sizes DEF TotalSlices, Main, Copying
  <2> DEFINE o == Offset(k)
             n == Length(k)
  <2>2. o \in Nat /\ n \in 0..Slice /\ o + n <= Size
    BY <1>1, <2>1, MainGeometry
  <2>3. buf' = SubSeq(raw, o + 1, o + n)
    BY <1>0, <1>1 DEF ReadUnits, Copying
  <2> HIDE DEF o, n
  <2>4. n \in Nat /\ o + n <= Len(raw) /\ n <= Slice
    <3>1. Shift \in Nat
      BY Sizes DEF Shift
    <3> QED
      BY <2>2, <3>1, RawIsSeq, Sizes
  <2>5. /\ buf' \in Seq(Contents) /\ Len(buf') = n
        /\ \A j \in 1..n : buf'[j] = raw[o + j]
    BY <2>2, <2>3, <2>4, RawIsSeq, Reads
  <2> QED
    BY <1>1, <2>4, <2>5 DEF File, HeaderCopy, Copying, o, n
<1>2. CASE HeaderCopy
  <2>1. mode = "inline" /\ k = 0 /\ Offset(k) = 0 /\ Length(k) = Slice /\ Slice <= Size
    <3>1. mode = "inline"
      BY <1>2 DEF PlaceInv
    <3>2. k < 2 /\ (k = 1 => Length(k) = 0)
      BY <1>0, <1>2, <3>1, HeaderGeometry
    <3>3. k = 0
      BY <1>0, <3>2
    <3> QED
      BY <1>2, <3>1, <3>3, HeaderGeometry
  <2>2. CASE conf.phase = "RecoverHeader"
    <3>1. hdr \in Seq(Contents) /\ Len(hdr) = Slice
      BY <2>2 DEF ReadSlice, SourceExists, HeaderInv, File
    <3>2. buf' = SubSeq(hdr, 0 + 1, 0 + Slice)
      BY <1>0, <2>1, <2>2 DEF ReadUnits
    <3> QED
      BY <2>1, <2>2, <3>1, <3>2, Reads, Sizes DEF File
  <2>3. CASE conf.phase = "BackupHeader"
    <3>1. buf' = SubSeq(raw, 0 + 1, 0 + Slice)
      BY <1>0, <2>1, <2>3 DEF ReadUnits
    <3>2. 0 + Slice <= Len(raw)
      BY <2>1, RawIsSeq, Sizes DEF Shift
    <3> QED
      BY <2>1, <2>3, <3>1, <3>2, RawIsSeq, Reads, Sizes DEF File
  <2> QED
    BY <1>2, <2>2, <2>3 DEF HeaderCopy
<1> QED
  BY <1>1, <1>2 DEF PlaceInv, ReadSlice, HasSlice

(* The unit that is written. *)
LEMMA UnitIsRead ==
  ASSUME PlaceInv, IndexInv, SliceInv, SavedInv
  PROVE  /\ WriteNext => /\ at + 1 \in 1..Len(buf) /\ buf[at + 1] \in Contents
                         /\ at + 1 <= Slice
         /\ RewriteNext => /\ at + 1 \in 1..Len(bak) /\ bak[at + 1] \in Contents
                           /\ at + 1 <= Slice
<1>1. at \in Nat /\ Len(buf) \in Nat /\ buf \in Seq(Contents) /\ Len(buf) <= Slice
  BY DEF SliceInv, File
<1>2. CASE WriteNext
  BY <1>1, <1>2, Sizes DEF WriteNext, RewriteNext, SliceInv
<1>3. CASE RewriteNext
  <2>1. bak \in Seq(Contents) /\ Len(bak) <= Slice /\ at < Len(bak)
    BY <1>3 DEF RewriteNext, SavedInv, File
  <2> QED
    BY <1>1, <1>3, <2>1, Sizes DEF WriteNext, RewriteNext
<1> QED
  BY <1>2, <1>3

LEMMA RawStep ==
  ASSUME PlaceInv, IndexInv, SliceInv, SavedInv, [Next]_vars
  PROVE  raw' \in [1..(Size + Shift') -> Contents]
<1>1. Shift' = Shift
  BY ModeIsFixed DEF Shift
<1>2. CASE Writing
  <2>1. PICK c \in Contents, m \in Int : WriteUnit(c, m)
    <3>1. conf.idx \in Nat /\ at \in Nat /\ TotalSlices \in Int
      BY Sizes DEF PlaceInv, SliceInv, TotalSlices
    <3>2. SkipBlock(conf.idx) \in Int
      BY <3>1 DEF SkipBlock
    <3>3. Offset(conf.idx) + at + 1 \in Int
      BY <3>1, <3>2, Sizes DEF Offset
    <3> QED
      BY <1>2, <3>3, UnitIsRead DEF Writing, WriteNext, RewriteNext
  <2>2. Encrypted(c) \in Contents
    BY <2>1, CipherIsContents
  <2> QED
    BY <1>1, <2>1, <2>2 DEF WriteUnit, SliceInv
<1>3. CASE Encrypting
  BY <1>1, <1>3, FormattedTypes DEF Encrypting, EncryptDevice, EncryptFails, SliceInv
<1> QED
  BY <1>1, <1>2, <1>3, OthersKeepDevice DEF SliceInv

LEMMA SliceStep ==
  ASSUME PlaceInv, IndexInv, SliceInv, SavedInv, HeaderInv, mode \in Modes, [Next]_vars
  PROVE  SliceInv'
<1>0. raw' \in [1..(Size + Shift') -> Contents]
  BY RawStep
<1> SUFFICES ASSUME TRUE
    PROVE /\ File(buf') /\ at' \in 0..Slice
          /\ pc' = "write" => Len(buf') = Length(conf.idx)' /\ at' <= Len(buf')
          /\ bk' # "off" => Len(buf') > 0
  BY <1>0 DEF SliceInv, File
<1>1. /\ File(buf) /\ at \in 0..Slice /\ at \in Nat /\ Len(buf) \in Nat
      /\ pc = "write" => Len(buf) = Length(conf.idx) /\ at <= Len(buf)
      /\ bk # "off" => Len(buf) > 0
  BY Sizes DEF SliceInv, File
<1>2. File(<<>>)
  BY Sizes DEF File
<1>3. conf' = conf => Length(conf.idx)' = Length(conf.idx)
  BY DEF Length, IsLast, LastSize, TotalSlices, Main
<1>4. CASE UNCHANGED vars
  BY <1>1, <1>3, <1>4 DEF vars
<1>5. CASE StartItem \/ Resume
  BY <1>1, <1>2, <1>5 DEF StartItem, Resume, disks, copy
<1>6. CASE Phase
  BY <1>1, <1>6, Sizes DEF Phase, BackupHeader, ShrinkFails, EncryptDevice, EncryptFails,
    CopyData, OpenFails, RecoverHeader, GivesUp, copy
<1>7. CASE ResumeCopy
  <2>1. CASE RewriteNext
    BY <1>1, <2>1, UnitIsRead, Sizes DEF RewriteNext, PlaceInv
  <2>2. CASE ResumeCopy /\ ~RewriteNext
    BY <1>1, <2>2, Sizes DEF ResumeCopy, MemFsFails, SkipResume, Refill, RefillFails,
      RewriteFails, Rewritten, RemoveSaved, GivesUp, copy
  <2> QED
    BY <1>7, <2>1, <2>2
<1>8. CASE BeginCopy
  <2>1. CASE ReadSlice
    <3>1. File(buf') /\ Len(buf') = Length(conf.idx) /\ Length(conf.idx) > 0
      BY <2>1, SliceIsRead DEF ReadSlice
    <3> QED
      BY <1>3, <2>1, <3>1, Sizes DEF ReadSlice
  <2>2. CASE WriteNext
    BY <1>1, <1>3, <2>2, UnitIsRead, Sizes DEF WriteNext
  <2>3. CASE BeginCopy /\ ~ReadSlice /\ ~WriteNext
    BY <1>1, <1>2, <2>3, Sizes DEF BeginCopy, SkipSlice, SourceIsGone, ReadFails,
      WriteFails, WriteDone, CommitSlice, GivesUp, copy
  <2> QED
    BY <1>8, <2>1, <2>2, <2>3
<1>9. CASE Finish
  BY <1>1, <1>9 DEF Finish, NextPhase, LastCopyOver, CommitDone, ClearItem, copy
<1>10. CASE Backup
  BY <1>1, <1>3, <1>10 DEF Backup, BackupOpens, BackupWrites, BackupFails
<1>11. CASE Reboot
  BY <1>2, <1>11, Sizes DEF Reboot
<1> QED
  BY <1>4, <1>5, <1>6, <1>7, <1>8, <1>9, <1>10, <1>11 DEF Next, Daemon

-----------------------------------------------------------------------------
(***************************************************************************)
(* The backup slice file.                                                  *)
(***************************************************************************)
LEMMA Refills ==
  ASSUME PlaceInv, IndexInv, SliceInv, SavedInv, pc = "resume", Resumable,
         NEW n \in 0..(SavedSize - Len(bak))
  PROVE  /\ Refilled(n) \in Seq(Contents)
         /\ Len(Refilled(n)) = Len(bak) + n
         /\ n = 0 => Refilled(n) = bak
<1> DEFINE o == Offset(conf.idx) + Len(bak)
<1>1. bak \in Seq(Contents) /\ Len(bak) \in Nat
  BY DEF Resumable, SavedInv, File
<1>2. Copying /\ conf.idx \in 0..FullSlices /\ SavedSize \in Nat
  <2>1. Copying /\ conf.idx <= FullSlices
    BY OnlyMainResumes
  <2> QED
    BY <2>1, Sizes DEF PlaceInv, SavedSize, LastSize
<1>3. SavedSize = Length(conf.idx)
  BY <1>2, MainGeometry, Sizes DEF SavedSize, LastSize, Main, Copying
<1>4. n \in Nat /\ o \in Nat /\ o + n <= Len(raw)
  <2>1. Offset(conf.idx) \in Nat /\ Offset(conf.idx) + SavedSize <= Size
    BY <1>2, <1>3, MainGeometry
  <2>2. Shift \in Nat
    BY Sizes DEF Shift
  <2> QED
    BY <1>1, <1>2, <2>1, <2>2, RawIsSeq, Sizes
<1> HIDE DEF o
<1>5. ReadUnits(o, n) = SubSeq(raw, o + 1, o + n)
  BY <1>2 DEF ReadUnits, Copying
<1>6. ReadUnits(o, n) \in Seq(Contents) /\ Len(ReadUnits(o, n)) = n
  BY <1>4, <1>5, RawIsSeq, Reads
<1>7. Refilled(n) = bak \o ReadUnits(o, n)
  BY DEF Refilled, o
<1>8. Refilled(n) \in Seq(Contents) /\ Len(Refilled(n)) = Len(bak) + n
  BY <1>1, <1>6, <1>7, ConcatProperties
<1>9. n = 0 => ReadUnits(o, n) = <<>>
  BY <1>6, EmptySeq
<1> QED
  BY <1>1, <1>7, <1>8, <1>9, ConcatEmptySeq

LEMMA BackupIsWritten ==
  ASSUME SliceInv, SavedInv, BackupWrites
  PROVE  /\ File(bak') /\ Len(bak') = Len(bak) + 1
         /\ bak # NoFile /\ Len(bak') <= Len(buf)
         /\ \A j \in 1..Len(bak) : bak'[j] = bak[j]
         /\ bak'[Len(bak')] = buf[Len(bak')]
<1>1. bak \in Seq(Contents) /\ Len(bak) < Len(buf) /\ bak # NoFile
  BY DEF BackupWrites, SavedInv, File
<1>2. buf \in Seq(Contents) /\ Len(buf) <= Slice /\ Len(buf) \in Nat /\ Len(bak) \in Nat
  BY <1>1 DEF SliceInv, File
<1>3. buf[Len(bak) + 1] \in Contents
  BY <1>1, <1>2
<1> QED
  BY <1>1, <1>2, <1>3, AppendProperties, Sizes DEF BackupWrites, File

(* The slice that is skipped has nothing to save. *)
LEMMA SkipsWithoutSaved ==
  ASSUME PlaceInv, IndexInv, SavedInv, mode \in Modes, SkipSlice
  PROVE  bak = NoFile
<1>1. conf.idx \in Nat /\ conf.idx < TotalSlices /\ Length(conf.idx) = 0 /\ pc = "copy"
  BY DEF SkipSlice, HasSlice, PlaceInv
<1>2. CASE Copying
  <2>1. conf.idx \in 0..FullSlices
    BY <1>1, <1>2, Sizes DEF TotalSlices, Main, Copying
  <2>2. conf.idx = 0 /\ LastUnits = 0
    BY <1>1, <1>2, <2>1, MainGeometry, Sizes
  <2> QED
    BY <1>2, <2>2 DEF SavedInv
<1>3. CASE HeaderCopy
  <2>1. Length(0) = Slice
    BY <1>3, HeaderGeometry DEF PlaceInv
  <2>2. conf.idx > 0
    BY <1>1, <2>1, Sizes
  <2> QED
    BY <1>1, <1>3, <2>2 DEF SavedInv
<1> QED
  BY <1>1, <1>2, <1>3 DEF PlaceInv

LEMMA SavedStep ==
  ASSUME PlaceInv, IndexInv, SliceInv, SavedInv, HeaderInv, mode \in Modes, [Next]_vars
  PROVE  SavedInv'
<1>0. mode' = mode /\ conf.idx \in Nat
  BY ModeIsFixed DEF PlaceInv
<1>2. CASE UNCHANGED vars
  BY <1>2 DEF vars, SavedInv, File, HeaderCopy, Copying, SavedSize, LastSize, Main
<1>3. CASE StartItem \/ Resume
  BY <1>0, <1>3, SliceAssumption DEF StartItem, Resume, SavedInv, File, HeaderCopy,
    Copying, SavedSize, LastSize, Main, disks, copy
<1>4. CASE Phase
  BY <1>0, <1>4 DEF Phase, BackupHeader, ShrinkFails, EncryptDevice, EncryptFails,
    CopyData, OpenFails, RecoverHeader, GivesUp, SavedInv, PlaceInv, File, HeaderCopy,
    Copying, disks, copy
<1>5. CASE ResumeCopy
  <2>1. CASE Refill \/ RefillFails
    <3>1. /\ Copying /\ conf.idx <= FullSlices /\ SavedSize > 0 /\ SavedSize \in Nat
          /\ bak \in Seq(Contents) /\ Len(bak) \in Nat /\ Len(bak) <= SavedSize
          /\ SavedSize <= Slice /\ pc = "resume" /\ bk = "off"
          /\ (conf.idx = 0 => LastUnits > 0)
      <4>1. pc = "resume" /\ Resumable /\ bk = "off"
        BY <2>1 DEF Refill, RefillFails, PlaceInv
      <4>2. Copying /\ conf.idx <= FullSlices /\ SavedSize > 0
        BY <4>1, OnlyMainResumes
      <4>3. bak \in Seq(Contents) /\ Len(bak) \in Nat /\ Len(bak) <= SavedSize
        BY <4>1 DEF Resumable, SavedInv, File
      <4>4. SavedSize \in Nat /\ SavedSize <= Slice /\ (conf.idx = 0 => LastUnits > 0)
        BY <4>2, Sizes DEF SavedSize, LastSize, Main, Copying
      <4> QED
        BY <4>1, <4>2, <4>3, <4>4
    <3>2. PICK n \in 0..(SavedSize - Len(bak)) :
            bak' = Refilled(n) /\ (Refill => n = SavedSize - Len(bak))
      BY <2>1, <3>1 DEF Refill, RefillFails
    <3>3. bak' \in Seq(Contents) /\ Len(bak') = Len(bak) + n
      BY <2>1, <3>2, Refills DEF Refill, RefillFails
    <3>4. File(bak') /\ bak' # NoFile
      <4>1. Len(bak') <= Slice
        BY <3>1, <3>2, <3>3, Sizes
      <4>2. File(bak')
        BY <3>3, <4>1 DEF File
      <4> QED
        BY <4>2, NoFileIsNoSeq
    <3>5. SavedSize' = SavedSize /\ bk' = "off" /\ conf' = conf /\ at' = at
      BY <2>1, <3>1 DEF Refill, RefillFails, copy, SavedSize, LastSize, Main
    <3>6. at = 0
      BY <3>1 DEF IndexInv
    <3>7. pc' = "rewrite" => Len(bak') = SavedSize'
      BY <2>1, <3>1, <3>2, <3>3, <3>5 DEF Refill, RefillFails
    <3> QED
      BY <2>1, <3>1, <3>4, <3>5, <3>6, <3>7 DEF Refill, RefillFails, SavedInv, HeaderCopy,
        Copying
  <2>2. CASE RewriteNext
    BY <1>0, <2>2, Sizes DEF RewriteNext, SavedInv, SliceInv, PlaceInv, File, HeaderCopy,
      Copying, SavedSize, LastSize, Main
  <2>3. CASE Rewritten
    BY <1>0, <2>3 DEF Rewritten, SavedInv, PlaceInv, File, HeaderCopy, Copying, disks
  <2>4. CASE MemFsFails \/ SkipResume \/ RewriteFails \/ RemoveSaved
    BY <1>0, <2>4 DEF MemFsFails, SkipResume, RewriteFails, RemoveSaved, GivesUp,
      SavedInv, IndexInv, PlaceInv, File, HeaderCopy, Copying, disks, copy
  <2> QED
    BY <1>5, <2>1, <2>2, <2>3, <2>4 DEF ResumeCopy
<1>6. CASE BeginCopy
  <2>1. CASE SkipSlice
    BY <1>0, <2>1, SkipsWithoutSaved DEF SkipSlice, HasSlice, SavedInv, PlaceInv, File,
      HeaderCopy, Copying, disks, copy
  <2>2. CASE ReadSlice
    <3>1. Copying /\ conf.idx = 0 => LastUnits > 0
      <4> SUFFICES ASSUME Copying, conf.idx = 0 PROVE LastUnits > 0
        OBVIOUS
      <4>1. 0 \in 0..FullSlices
        BY Sizes
      <4> QED
        BY <2>2, <4>1, MainGeometry, Sizes DEF ReadSlice
    <3> QED
      BY <1>0, <2>2, <3>1 DEF ReadSlice, HasSlice, SavedInv, PlaceInv, File, HeaderCopy,
        Copying, disks
  <2>3. CASE BeginCopy /\ ~SkipSlice /\ ~ReadSlice
    BY <1>0, <2>3 DEF BeginCopy, HasSlice, SourceIsGone, ReadFails, WriteNext, WriteFails,
      WriteDone, CommitSlice, GivesUp, SavedInv, PlaceInv, File, HeaderCopy, Copying,
      disks, copy
  <2> QED
    BY <1>6, <2>1, <2>2, <2>3
<1>7. CASE Finish
  BY <1>0, <1>7 DEF Finish, CopyOver, NextPhase, LastCopyOver, CommitDone, ClearItem,
    SavedInv, PlaceInv, IndexInv, File, HeaderCopy, Copying, TotalSlices, Main, disks, copy
<1>8. CASE BackupOpens \/ BackupWrites
  <2>1. bk # "off" /\ pc \in {"down", "write"} /\ pc' = pc /\ conf' = conf
        /\ buf' = buf /\ at' = at /\ mode' = mode /\ Len(buf) > 0 /\ Len(buf) \in Nat
    BY <1>0, <1>8 DEF BackupOpens, BackupWrites, PlaceInv, SliceInv, File
  <2>2. File(bak') /\ Len(bak') <= Len(buf) /\ Len(bak') \in Nat
        /\ (bk' = "on" => Len(bak') < Len(buf))
    <3>1. CASE BackupOpens
      BY <2>1, <3>1, Sizes DEF BackupOpens, File
    <3>2. CASE BackupWrites
      <4>1. Len(bak) \in Nat
        BY <3>2, BackupIsWritten DEF SavedInv, File
      <4> QED
        BY <2>1, <3>2, <4>1, BackupIsWritten DEF BackupWrites
    <3> QED
      BY <1>8, <3>1, <3>2
  <2>3. bak' # NoFile
    BY <2>2, NoFileIsNoSeq
  <2> QED
    BY <2>1, <2>2, <2>3 DEF SavedInv, HeaderCopy, Copying
<1>9. CASE BackupFails
  BY <1>0, <1>9 DEF BackupFails, SavedInv, PlaceInv, File, HeaderCopy, Copying, SavedSize,
    LastSize, Main, disks
<1>10. CASE Reboot
  BY <1>0, <1>10 DEF Reboot, SavedInv, PlaceInv, File, HeaderCopy, Copying, Pcs
<1> QED
  BY <1>2, <1>3, <1>4, <1>5, <1>6, <1>7, <1>8, <1>9, <1>10 DEF Next, Daemon, Backup

-----------------------------------------------------------------------------
(***************************************************************************)
(* The header slice file.                                                  *)
(***************************************************************************)
LEMMA HeaderIsWritten ==
  ASSUME PlaceInv, IndexInv, SliceInv, HeaderInv, mode \in Modes,
         conf.phase = "BackupHeader", WriteNext, buf[at + 1] \in Contents
  PROVE  /\ hdr' \in Seq(Contents) /\ Len(hdr') = at + 1
         /\ at > 0 => \A j \in 1..at : hdr'[j] = hdr[j]
         /\ hdr'[at + 1] = buf[at + 1]
<1>0. at \in Nat
  BY Sizes DEF SliceInv
<1>1. CASE at = 0
  <2>1. hdr' = <<buf[at + 1]>>
    BY <1>1 DEF WriteNext, WriteUnit, HeaderInv
  <2> QED
    BY <1>1, <2>1
<1>2. CASE at > 0
  <2>1. hdr \in Seq(Contents) /\ Len(hdr) = at /\ hdr # NoFile
    BY <1>2 DEF WriteNext, HeaderInv, File
  <2>2. hdr' = Append(hdr, buf[at + 1])
    BY <2>1 DEF WriteNext, WriteUnit
  <2> QED
    BY <1>0, <2>1, <2>2, AppendProperties
<1> QED
  BY <1>0, <1>1, <1>2

LEMMA HeaderStep ==
  ASSUME PlaceInv, IndexInv, SliceInv, SavedInv, HeaderInv, mode \in Modes, [Next]_vars
  PROVE  HeaderInv'
<1>0. conf.idx \in Nat /\ mode' = mode /\ (conf.phase = "BackupHeader" => mode # "detached")
  BY ModeIsFixed DEF PlaceInv, HeaderCopy
<1>1. CASE UNCHANGED vars
  BY <1>0, <1>1 DEF vars, HeaderInv, File
<1>2. CASE StartItem \/ Resume
  BY <1>0, <1>2, SliceAssumption DEF StartItem, Resume, HeaderInv, File, disks
<1>3. CASE Phase
  <2>1. CASE BackupHeader \/ ShrinkFails
    BY <1>0, <2>1 DEF BackupHeader, ShrinkFails, HeaderInv, File, disks
  <2>2. CASE EncryptDevice \/ EncryptFails
    BY <1>0, <2>2 DEF EncryptDevice, EncryptFails, GivesUp, HeaderInv, File
  <2>3. CASE CopyData \/ OpenFails \/ RecoverHeader
    BY <1>0, <2>3 DEF CopyData, OpenFails, RecoverHeader, GivesUp, PlaceInv, HeaderInv,
      File, disks
  <2> QED
    BY <1>3, <2>1, <2>2, <2>3 DEF Phase
<1>4. CASE ResumeCopy
  <2>1. CASE Refill \/ RefillFails
    BY <1>0, <2>1, OnlyMainResumes DEF Refill, RefillFails, HeaderInv, File, Copying
  <2>2. CASE RewriteNext
    BY <1>0, <2>2 DEF RewriteNext, WriteUnit, PlaceInv, HeaderInv, File, Copying
  <2>3. CASE MemFsFails \/ SkipResume \/ RewriteFails \/ Rewritten \/ RemoveSaved
    BY <1>0, <2>3 DEF MemFsFails, SkipResume, RewriteFails, Rewritten, RemoveSaved,
      GivesUp, HeaderInv, PlaceInv, IndexInv, HeaderCopy, Copying, File, disks
  <2> QED
    BY <1>0, <1>4, <2>1, <2>2, <2>3 DEF ResumeCopy
<1>5. CASE BeginCopy
  <2>1. CASE WriteNext
    <3>1. CASE conf.phase = "BackupHeader"
      <4>1. buf[at + 1] \in Contents /\ at + 1 <= Slice /\ at \in Nat
        BY <1>0, <2>1, UnitIsRead, Sizes DEF SliceInv
      <4>2. hdr' \in Seq(Contents) /\ Len(hdr') = at + 1
        BY <1>0, <2>1, <3>1, <4>1, HeaderIsWritten
      <4>3. hdr' # NoFile /\ File(hdr')
        BY <1>0, <4>1, <4>2, NoFileAssumption DEF File
      <4>4. at' = at + 1 /\ conf' = conf /\ pc' = "write"
        BY <1>0, <2>1 DEF WriteNext
      <4> QED
        BY <1>0, <3>1, <4>1, <4>2, <4>3, <4>4 DEF HeaderInv
    <3>2. CASE conf.phase # "BackupHeader"
      BY <1>0, <2>1, <3>2 DEF WriteNext, WriteUnit, HeaderInv, File
    <3> QED
      BY <1>0, <3>1, <3>2
  <2>2. CASE WriteDone
    <3>1. CASE conf.phase = "BackupHeader"
      <4>1. HeaderCopy /\ pc = "write" /\ conf.idx < TotalSlices /\ Length(conf.idx) > 0
        BY <1>0, <2>2, <3>1 DEF WriteDone, IndexInv, HeaderCopy
      <4>2. conf.idx < 2 /\ (conf.idx = 1 => Length(conf.idx) = 0) /\ Length(0) = Slice
        BY <1>0, <4>1, HeaderGeometry DEF PlaceInv
      <4>3. conf.idx = 0 /\ at = Slice /\ at > 0
        BY <1>0, <2>2, <4>1, <4>2, Sizes DEF WriteDone
      <4> QED
        BY <1>0, <2>2, <3>1, <4>1, <4>3, Sizes DEF WriteDone, HeaderInv, File
    <3>2. CASE conf.phase # "BackupHeader"
      BY <1>0, <2>2, <3>2 DEF WriteDone, HeaderInv, File
    <3> QED
      BY <1>0, <3>1, <3>2
  <2>3. CASE SkipSlice
    <3>1. CASE conf.phase = "BackupHeader"
      <4>1. HeaderCopy /\ pc = "copy" /\ Length(0) = Slice /\ Length(conf.idx) = 0
        BY <1>0, <2>3, <3>1, HeaderGeometry DEF SkipSlice, HasSlice, HeaderCopy, PlaceInv
      <4>2. conf.idx > 0
        BY <1>0, <4>1, Sizes
      <4> QED
        BY <1>0, <2>3, <3>1, <4>1, <4>2 DEF SkipSlice, HeaderInv, File, disks
    <3>2. CASE conf.phase # "BackupHeader"
      BY <1>0, <2>3, <3>2 DEF SkipSlice, HeaderInv, File, disks
    <3> QED
      BY <1>0, <3>1, <3>2
  <2>4. CASE ReadSlice
    <3>1. conf.phase = "BackupHeader" => conf.idx = 0
      BY <1>0, <2>4, SliceIsRead DEF HeaderCopy
    <3> QED
      BY <1>0, <2>4, <3>1 DEF ReadSlice, HasSlice, HeaderInv, File, disks
  <2>5. CASE SourceIsGone \/ ReadFails \/ WriteFails
    BY <1>0, <2>5 DEF SourceIsGone, ReadFails, WriteFails, GivesUp, HeaderInv, File, disks
  <2>6. CASE CommitSlice
    BY <1>0, <2>6 DEF CommitSlice, HeaderInv, PlaceInv, File, disks
  <2> QED
    BY <1>0, <1>5, <2>1, <2>2, <2>3, <2>4, <2>5, <2>6 DEF BeginCopy
<1>6. CASE Finish
  <2>1. CASE NextPhase
    <3>1. conf.phase = "BackupHeader" => conf.idx > 0 /\ pc = "copy"
      BY <1>0, <2>1, Sizes DEF NextPhase, CopyOver, TotalSlices, Main
    <3> QED
      BY <1>0, <2>1, <3>1 DEF NextPhase, HeaderInv, File, disks, Main
  <2>2. CASE LastCopyOver \/ CommitDone \/ ClearItem
    BY <1>0, <2>2 DEF LastCopyOver, CommitDone, ClearItem, HeaderInv, File, disks, PlaceInv,
      Main, Copying
  <2> QED
    BY <1>0, <1>6, <2>1, <2>2 DEF Finish
<1>7. CASE Backup \/ Reboot
  BY <1>0, <1>7 DEF Backup, BackupOpens, BackupWrites, BackupFails, Reboot, HeaderInv, File,
    disks
<1> QED
  BY <1>1, <1>2, <1>3, <1>4, <1>5, <1>6, <1>7 DEF Next, Daemon

-----------------------------------------------------------------------------
LEMMA CountStep == ASSUME CountInv, [Next]_vars PROVE CountInv'
<1>1. mapper' \in {"closed", "open", "file"}
  BY DEF CountInv, Next, vars, StartItem, Resume, Daemon, Phase, BackupHeader,
    ShrinkFails, EncryptDevice, EncryptFails, CopyData, OpenFails, RecoverHeader,
    ResumeCopy, MemFsFails, SkipResume, Refill, RefillFails, RewriteNext, RewriteFails,
    Rewritten, RemoveSaved, BeginCopy, SkipSlice, ReadSlice, SourceIsGone, ReadFails,
    WriteNext, WriteFails, WriteDone, CommitSlice, Finish, NextPhase, LastCopyOver,
    CommitDone, ClearItem, Backup, BackupOpens, BackupWrites, BackupFails, Reboot,
    WriteUnit, disks
<1>2. Works \/ Fails \/ Reboot
  BY DEF Next, vars, StartItem, Resume, Daemon, Phase, BackupHeader,
    ShrinkFails, EncryptDevice, EncryptFails, CopyData, OpenFails, RecoverHeader,
    ResumeCopy, MemFsFails, SkipResume, Refill, RefillFails, RewriteNext, RewriteFails,
    Rewritten, RemoveSaved, BeginCopy, SkipSlice, ReadSlice, SourceIsGone, ReadFails,
    WriteNext, WriteFails, WriteDone, CommitSlice, Finish, NextPhase, LastCopyOver,
    CommitDone, ClearItem, Backup, BackupOpens, BackupWrites, BackupFails, Works
<1>3. errors' \in 0..MaxErrors /\ reboots' \in 0..MaxReboots
  BY <1>2, SliceAssumption DEF CountInv, Works, Fails, Reboot
<1> QED
  BY <1>1, <1>3, ModeIsFixed DEF CountInv

LEMMA InitCopyTypes == Init => CopyTypes
<1> SUFFICES ASSUME Init PROVE CopyTypes
  OBVIOUS
<1>1. CountInv
  BY SliceAssumption DEF Init, CountInv
<1>2. PlaceInv /\ IndexInv
  BY Sizes DEF Init, PlaceInv, IndexInv, Phases, Pcs, HeaderCopy, Copying
<1>3. SliceInv
  <2>1. Size + Shift \in Nat /\ Size + Shift <= Size + HeaderUnits
    BY Sizes DEF Shift
  <2>2. \A i \in 1..(Size + Shift) : Plain(i) \in Contents
    BY <2>1, Sizes DEF Plain, Contents, Units
  <2> QED
    BY <2>2, Sizes DEF Init, SliceInv, File
<1>4. SavedInv /\ HeaderInv
  BY DEF Init, SavedInv, HeaderInv, HeaderCopy, Copying
<1> QED
  BY <1>1, <1>2, <1>3, <1>4 DEF CopyTypes

LEMMA CopyTypesStep == ASSUME CopyTypes, [Next]_vars PROVE CopyTypes'
<1>1. at \in Nat /\ mode \in Modes
  BY Sizes DEF CopyTypes, SliceInv, CountInv
<1> QED
  BY <1>1, CountStep, PlaceStep, IndexStep, SliceStep, SavedStep, HeaderStep
  DEF CopyTypes

LEMMA CopyTypesHold == Spec => []CopyTypes
BY InitCopyTypes, CopyTypesStep, PTL DEF Spec

(***************************************************************************)
(* The types: what is read from a file is in the file, and what is written *)
(* to one fits a slice, with either kind of header, wherever the machine   *)
(* reboots.                                                                *)
(***************************************************************************)
THEOREM TypeCorrect == Spec => []TypeOK
<1>1. ASSUME CopyTypes PROVE TypeOK
  <2>1. conf \in [phase : Phases, idx : 0..(FullSlices + 1) \cup {1, 2}]
    BY <1>1, Sizes DEF CopyTypes, PlaceInv, IndexInv
  <2>2. hdr # NoFile => File(hdr)
    BY <1>1 DEF CopyTypes, HeaderInv
  <2> QED
    BY <1>1, <2>1, <2>2 DEF CopyTypes, CountInv, PlaceInv, SliceInv, SavedInv, File,
      TypeOK
<1> QED
  BY <1>1, CopyTypesHold, PTL

-----------------------------------------------------------------------------
(***************************************************************************)
(* The current slice.                                                      *)
(***************************************************************************)
LEMMA CopyGeometry ==
  ASSUME CopyTypes, Copying, conf.idx <= FullSlices
  PROVE  /\ Start = Offset(conf.idx) /\ Start \in Nat
         /\ Length(conf.idx) \in 0..Slice /\ SavedSize = Length(conf.idx)
         /\ MainSlice(conf.idx) = (Start + 1)..(Start + Length(conf.idx))
         /\ Start + Length(conf.idx) <= Size
         /\ Shift \in Nat /\ Size \in Nat
         /\ conf.idx \in 0..FullSlices
<1>1. conf.idx \in 0..FullSlices
  BY Sizes DEF CopyTypes, PlaceInv
<1>2. SavedSize = Length(conf.idx)
  BY <1>1, MainGeometry, Sizes DEF SavedSize, LastSize, Main, Copying
<1>3. Shift \in Nat
  BY Sizes DEF Shift
<1> QED
  BY <1>1, <1>2, <1>3, MainGeometry, Sizes DEF Start

(* The slices after the current one are before it on the device. *)
LEMMA AheadIsBelow ==
  ASSUME CopyTypes, Copying, conf.idx <= FullSlices,
         NEW k \in (conf.idx + 1)..FullSlices, NEW m \in MainSlice(k)
  PROVE  m \in 1..Size /\ m <= Start
<1>1. conf.idx \in Nat /\ k \in Nat /\ k \in 0..FullSlices /\ conf.idx < k /\ k # 0
  BY CopyGeometry, Sizes
<1>2. Slice * (FullSlices - k) + Slice <= Start
  BY <1>1, SlicesAreApart DEF Start
<1>3. m \in (Slice * (FullSlices - k) + 1)..(Slice * (FullSlices - k) + Slice)
  BY <1>1 DEF MainSlice
<1>4. Slice * (FullSlices - k) \in Int
  BY <1>1, Sizes
<1> QED
  BY <1>1, <1>2, <1>3, <1>4, SliceInVolume, CopyGeometry, Sizes

(* One unit of dd through the open mapper. *)
LEMMA WriteEffect ==
  ASSUME CopyTypes, Copying, conf.idx <= FullSlices, mapper = "open",
         NEW j \in 1..Length(conf.idx), NEW c, WriteUnit(c, Offset(conf.idx) + j)
  PROVE  /\ raw'[Start + j + Shift] = Encrypted(c)
         /\ \A i \in 1..(Size + Shift) : i # Start + j + Shift => raw'[i] = raw[i]
<1>1. Start + j + Shift \in 1..(Size + Shift)
  BY CopyGeometry
<1>2. raw' = [raw EXCEPT ![Start + j + Shift] = Encrypted(c)]
  BY CopyGeometry DEF WriteUnit, Copying
<1>3. raw \in [1..(Size + Shift) -> Contents]
  BY DEF CopyTypes, SliceInv
<1> QED
  BY <1>1, <1>2, <1>3

LEMMA PlainIsEncrypted == ASSUME NEW m PROVE Encrypted(Plain(m)) = [of |-> m, form |-> "cipher"]
BY DEF Encrypted, Plain

(* A copy that goes on: one more unit is right. *)
LEMMA WrittenGrows ==
  ASSUME CopyTypes, Copying, conf.idx <= FullSlices, mapper = "open", mode' = mode,
         conf' = conf, Written, NEW f, Holds(f), at + 1 \in 1..Len(f),
         Len(f) = Length(conf.idx), at' = at + 1,
         WriteUnit(f[at + 1], Offset(conf.idx) + at + 1)
  PROVE  Written'
<1>0. at \in Nat /\ Shift' = Shift /\ Start' = Start
  BY Sizes DEF CopyTypes, SliceInv, Shift, Start
<1>1. at + 1 \in 1..Length(conf.idx)
      /\ WriteUnit(f[at + 1], Offset(conf.idx) + (at + 1))
  BY <1>0, CopyGeometry, Sizes
<1>2. /\ raw'[Start + (at + 1) + Shift] = Encrypted(f[at + 1])
      /\ \A i \in 1..(Size + Shift) : i # Start + (at + 1) + Shift => raw'[i] = raw[i]
  BY <1>1, WriteEffect
<1> SUFFICES ASSUME NEW j \in 1..(at + 1), Start + j > Shift
             PROVE  raw'[Start + j + Shift] = [of |-> Start + j, form |-> "cipher"]
  BY <1>0 DEF Written, Right
<1>3. CASE j = at + 1
  BY <1>0, <1>2, <1>3, PlainIsEncrypted DEF Holds
<1>4. CASE j # at + 1
  <2>1. j \in 1..at /\ Start + j + Shift \in 1..(Size + Shift)
    BY <1>0, <1>1, <1>4, CopyGeometry, Sizes
  <2>2. Start + j + Shift # Start + (at + 1) + Shift
    BY <1>0, <1>4, <2>1, CopyGeometry
  <2> QED
    BY <1>2, <2>1, <2>2 DEF Written, Right
<1> QED
  BY <1>3, <1>4

LEMMA WrittenIsRight ==
  ASSUME CopyTypes, Copying, conf.idx <= FullSlices, Written, at = Length(conf.idx)
  PROVE  ~Damaged(conf.idx)
<1> SUFFICES ASSUME NEW m \in MainSlice(conf.idx), m > Shift PROVE Right(m)
  BY DEF Damaged
<1>1. m - Start \in 1..at /\ Start + (m - Start) = m
  BY CopyGeometry, Sizes
<1> QED
  BY <1>1 DEF Written

LEMMA HoldsIsKept ==
  ASSUME mode' = mode, conf' = conf
  PROVE  /\ Start' = Start /\ Shift' = Shift /\ Length(conf.idx)' = Length(conf.idx)
         /\ MainSlice(conf.idx)' = MainSlice(conf.idx)
         /\ raw' = raw => Fresh' = Fresh /\ (at' = at => Written' = Written)
                          /\ Damaged(conf.idx)' = Damaged(conf.idx)
BY DEF Start, Shift, Length, IsLast, LastSize, TotalSlices, Main, Holds, MainSlice,
  Fresh, Written, Right, Damaged

-----------------------------------------------------------------------------
(***************************************************************************)
(* While the index stays, a slice that comes out right by itself needs a   *)
(* failure not to, and so does one that can be repaired.                   *)
(***************************************************************************)
Step == [Next]_vars /\ conf' = conf /\ ~Reboot

Current == CopyTypes /\ MapperInv /\ Copying /\ conf.idx <= FullSlices

LEMMA BackedByBackup ==
  ASSUME Current, Step, Backed, BackupOpens \/ BackupWrites
  PROVE  Backed'
<1>1. mode' = mode /\ conf' = conf /\ buf' = buf /\ bk # "off"
  BY ModeIsFixed DEF Step, BackupOpens, BackupWrites
<1>2. Start' = Start /\ Shift' = Shift /\ Length(conf.idx)' = Length(conf.idx)
  BY <1>1, HoldsIsKept
<1>3. Holds(buf) /\ Holds(buf)' /\ Len(buf) = Length(conf.idx) /\ Length(conf.idx) > 0
  BY <1>1, <1>2 DEF Backed, Holds
<1>4. CASE BackupOpens
  <2>1. Holds(bak)'
    BY <1>4 DEF BackupOpens, Holds
  <2> QED
    BY <1>1, <1>2, <1>3, <1>4, <2>1 DEF BackupOpens, Backed
<1>5. CASE BackupWrites
  <2>1. /\ File(bak') /\ Len(bak') = Len(bak) + 1 /\ Len(bak') <= Len(buf)
        /\ bak # NoFile
        /\ \A j \in 1..Len(bak) : bak'[j] = bak[j]
        /\ bak'[Len(bak')] = buf[Len(bak')]
    BY <1>5, BackupIsWritten DEF Current, CopyTypes
  <2>2. Holds(bak) /\ Len(bak) \in Nat /\ Len(buf) \in Nat
    BY <1>5, <2>1 DEF Backed, BackupWrites, Current, CopyTypes, SavedInv, SliceInv, File
  <2>3. Holds(bak)'
    <3> SUFFICES ASSUME NEW j \in 1..(Len(bak) + 1), Start + j > Shift
                 PROVE  bak'[j] = Plain(Start + j)
      BY <1>2, <2>1 DEF Holds
    <3>1. CASE j = Len(bak) + 1
      <4>1. j \in 1..Len(buf)
        BY <2>1, <2>2, <3>1
      <4> QED
        BY <1>3, <2>1, <3>1, <4>1 DEF Holds
    <3>2. CASE j # Len(bak) + 1
      <4>1. j \in 1..Len(bak)
        BY <2>2, <3>2
      <4> QED
        BY <2>1, <2>2, <4>1 DEF Holds
    <3> QED
      BY <3>1, <3>2
  <2>4. bak' # NoFile /\ bk' \in {"on", "off"}
    BY <1>5, <2>1, NoFileIsNoSeq DEF BackupWrites
  <2>5. bk' = "off" => Len(bak') = Length(conf.idx)
    BY <1>3, <1>5, <2>1 DEF BackupWrites
  <2> QED
    BY <1>1, <1>2, <1>3, <2>3, <2>4, <2>5 DEF Backed
<1> QED
  BY <1>4, <1>5

(* The write of the slice goes on. *)
LEMMA WriteStep ==
  ASSUME Current, Step, pc = "write", Holds(buf), Written
  PROVE  /\ WriteNext => pc' = "write" /\ Holds(buf)' /\ Written'
         /\ WriteDone => pc' = "commit" /\ ~Damaged(conf.idx)'
         /\ Backup => pc' = "write" /\ Holds(buf)' /\ Written'
<1>1. mode' = mode /\ conf' = conf
  BY ModeIsFixed DEF Step
<1>2. Start' = Start /\ Shift' = Shift
  BY <1>1, HoldsIsKept
<1>3. Len(buf) = Length(conf.idx)
  BY DEF Current, CopyTypes, SliceInv
<1>4. ASSUME WriteNext PROVE pc' = "write" /\ Holds(buf)' /\ Written'
  <2>1. mapper = "open" /\ at + 1 \in 1..Len(buf)
    BY <1>4, UnitIsRead DEF Current, CopyTypes, MapperInv
  <2>2. Written'
    BY <1>1, <1>3, <1>4, <2>1, WrittenGrows DEF Current, WriteNext
  <2> QED
    BY <1>2, <1>4, <2>2 DEF WriteNext, Holds
<1>5. ASSUME WriteDone PROVE pc' = "commit" /\ ~Damaged(conf.idx)'
  BY <1>1, <1>5, WrittenIsRight, HoldsIsKept DEF WriteDone, Current
<1>6. ASSUME Backup PROVE pc' = "write" /\ Holds(buf)' /\ Written'
  <2>1. raw' = raw /\ at' = at /\ buf' = buf /\ pc' = pc
    BY <1>6 DEF Backup, BackupOpens, BackupWrites, BackupFails, disks
  <2> QED
    BY <1>1, <1>2, <2>1, HoldsIsKept DEF Holds
<1> QED
  BY <1>4, <1>5, <1>6

LEMMA CleanStep ==
  ASSUME Current, Step, Clean
  PROVE  Clean' \/ (Fails /\ Repairable')
<1>1. mode' = mode /\ conf' = conf /\ conf.idx \in Nat /\ conf.idx <= FullSlices
  BY ModeIsFixed DEF Step, Current, CopyTypes, PlaceInv
<1>2. /\ Start' = Start /\ Shift' = Shift /\ Length(conf.idx)' = Length(conf.idx)
      /\ raw' = raw => Fresh' = Fresh /\ (at' = at => Written' = Written)
                       /\ Damaged(conf.idx)' = Damaged(conf.idx)
  BY <1>1, HoldsIsKept
<1>3. UNCHANGED vars => Clean'
  <2> SUFFICES ASSUME UNCHANGED vars PROVE Clean'
    OBVIOUS
  <2>1. raw' = raw /\ at' = at /\ buf' = buf /\ bak' = bak /\ bk' = bk /\ pc' = pc
    BY DEF vars
  <2> QED
    BY <1>1, <1>2, <2>1 DEF Clean, Backed, Holds
<1>4. CASE pc = "remove" /\ Fresh
  <2>1. UNCHANGED vars \/ RemoveSaved
    BY <1>1, <1>4 DEF Step, Next, Daemon, Phase, ResumeCopy, BeginCopy, Finish, Backup,
      StartItem, Resume, BackupHeader, ShrinkFails, EncryptDevice, EncryptFails,
      CopyData, OpenFails, RecoverHeader, MemFsFails, SkipResume, Refill, RefillFails,
      RewriteNext, RewriteFails, Rewritten, SkipSlice, ReadSlice, SourceIsGone, HasSlice,
      ReadFails, WriteNext, WriteFails, WriteDone, CommitSlice, NextPhase, LastCopyOver,
      CopyOver, CommitDone, ClearItem, BackupOpens, BackupWrites, BackupFails,
      Current, CopyTypes, PlaceInv
  <2>2. CASE RemoveSaved
    BY <1>1, <1>2, <1>4, <2>2 DEF RemoveSaved, Clean, copy, Current, CopyTypes, PlaceInv
  <2> QED
    BY <1>3, <2>1, <2>2
<1>5. CASE pc \in {"down", "phase", "resume", "copy"} /\ Fresh /\ bak = NoFile
           /\ bk = "off"
  <2>1. UNCHANGED vars \/ Resume \/ CopyData \/ OpenFails \/ MemFsFails \/ SkipResume
        \/ SkipSlice \/ ReadSlice \/ ReadFails
    <3>1. ~Resumable /\ SourceExists /\ ~CopyOver
      BY <1>1, <1>5, Sizes DEF Resumable, SourceExists, Current, Copying, CopyOver,
        TotalSlices, Main
    <3> QED
      BY <1>1, <1>5, <3>1 DEF Step, Next, Daemon, Phase, ResumeCopy, BeginCopy, Finish,
        Backup, StartItem, BackupHeader, ShrinkFails, EncryptDevice, EncryptFails,
        RecoverHeader, Refill, RefillFails, RewriteNext, RewriteFails, Rewritten,
        RemoveSaved, SourceIsGone, WriteNext, WriteFails, WriteDone, CommitSlice,
        NextPhase, LastCopyOver, CommitDone, ClearItem, BackupOpens, BackupWrites,
        BackupFails, Current, Copying
  <2>2. CASE Resume \/ CopyData \/ OpenFails \/ MemFsFails \/ SkipResume \/ ReadFails
    <3>1. raw' = raw /\ bak' = bak /\ bk' = bk
          /\ pc' \in {"down", "phase", "resume", "copy"}
      BY <2>2 DEF Resume, CopyData, OpenFails, MemFsFails, SkipResume, ReadFails, GivesUp,
        disks, copy
    <3> QED
      BY <1>1, <1>2, <1>5, <3>1 DEF Clean
  <2>3. CASE SkipSlice
    <3>1. Length(conf.idx) = 0 /\ raw' = raw /\ pc' = "commit"
      BY <2>3 DEF SkipSlice, disks
    <3>2. ~Damaged(conf.idx)
      BY <3>1, CopyGeometry DEF Damaged, Current
    <3> QED
      BY <1>2, <3>1, <3>2 DEF Clean
  <2>4. CASE ReadSlice
    <3>1. /\ Len(buf') = Length(conf.idx) /\ Length(conf.idx) > 0
          /\ \A j \in 1..Len(buf') : buf'[j] = raw[Start + j]
      BY <2>4, SliceIsRead, CopyGeometry DEF Current, CopyTypes, CountInv, Copying,
        ReadSlice
    <3>2. Holds(buf)'
      <4> SUFFICES ASSUME NEW j \in 1..Len(buf'), Start + j > Shift
                   PROVE  buf'[j] = Plain(Start + j)
        BY <1>2 DEF Holds
      <4>1. Start + j \in MainSlice(conf.idx)
        BY <3>1, CopyGeometry DEF Current
      <4> QED
        BY <1>5, <3>1, <4>1 DEF Fresh
    <3>3. pc' = "write" /\ bk' = "new" /\ at' = 0
      BY <2>4 DEF ReadSlice
    <3>4. Written'
      BY <3>3 DEF Written
    <3> QED
      BY <1>1, <1>2, <3>1, <3>2, <3>3, <3>4 DEF Clean, Backed
  <2> QED
    BY <1>3, <2>1, <2>2, <2>3, <2>4
<1>6. CASE pc = "write" /\ Holds(buf) /\ Written /\ Backed
  <2>1. UNCHANGED vars \/ WriteNext \/ WriteFails \/ WriteDone \/ BackupOpens
        \/ BackupWrites \/ BackupFails
    BY <1>1, <1>6 DEF Step, Next, Daemon, Phase, ResumeCopy, BeginCopy, Finish, Backup,
      StartItem, Resume, BackupHeader, ShrinkFails, EncryptDevice, EncryptFails,
      CopyData, OpenFails, RecoverHeader, MemFsFails, SkipResume, Refill, RefillFails,
      RewriteNext, RewriteFails, Rewritten, RemoveSaved, SkipSlice, ReadSlice,
      SourceIsGone, HasSlice, ReadFails, CommitSlice, NextPhase, LastCopyOver,
      CopyOver, CommitDone, ClearItem
  <2>2. CASE WriteNext
    <3>1. Holds(buf)' /\ Written' /\ pc' = "write"
      BY <1>6, <2>2, WriteStep
    <3>2. Backed'
      BY <1>2, <1>6, <2>2 DEF WriteNext, Backed, Holds
    <3> QED
      BY <3>1, <3>2 DEF Clean
  <2>3. CASE WriteFails
    <3>1. Backed' /\ pc' = "down" /\ Fails
      BY <1>2, <1>6, <2>3 DEF WriteFails, GivesUp, Backed, Holds, disks
    <3> QED
      BY <3>1 DEF Repairable
  <2>4. CASE WriteDone
    BY <1>6, <2>4, WriteStep DEF Clean
  <2>5. CASE BackupOpens \/ BackupWrites
    <3>1. Holds(buf)' /\ Written' /\ pc' = "write"
      BY <1>6, <2>5, WriteStep DEF Backup
    <3> QED
      BY <1>6, <2>5, <3>1, BackedByBackup DEF Clean
  <2>6. CASE BackupFails
    <3>1. Holds(buf)' /\ Written' /\ pc' = "write"
      BY <1>6, <2>6, WriteStep DEF Backup
    <3> QED
      BY <2>6, <3>1 DEF Repairable, BackupFails
  <2> QED
    BY <1>3, <2>1, <2>2, <2>3, <2>4, <2>5, <2>6
<1>7. CASE pc = "commit" /\ ~Damaged(conf.idx)
  <2>1. UNCHANGED vars
    BY <1>1, <1>7 DEF Step, Next, Daemon, Phase, ResumeCopy, BeginCopy, Finish, Backup,
      StartItem, Resume, BackupHeader, ShrinkFails, EncryptDevice, EncryptFails,
      CopyData, OpenFails, RecoverHeader, MemFsFails, SkipResume, Refill, RefillFails,
      RewriteNext, RewriteFails, Rewritten, RemoveSaved, SkipSlice, ReadSlice,
      SourceIsGone, HasSlice, ReadFails, WriteNext, WriteFails, WriteDone, CommitSlice,
      NextPhase, LastCopyOver, CopyOver, CommitDone, ClearItem, BackupOpens,
      BackupWrites, BackupFails, Current, CopyTypes, PlaceInv
  <2> QED
    BY <1>3, <2>1
<1> QED
  BY <1>1, <1>4, <1>5, <1>6, <1>7, Sizes DEF Clean

LEMMA RepairStep ==
  ASSUME Current, Step, Repairable
  PROVE  Clean' \/ Repairable' \/ Fails
<1>1. mode' = mode /\ conf' = conf /\ conf.idx \in Nat /\ conf.idx <= FullSlices
  BY ModeIsFixed DEF Step, Current, CopyTypes, PlaceInv
<1>2. /\ Start' = Start /\ Shift' = Shift /\ Length(conf.idx)' = Length(conf.idx)
      /\ raw' = raw => Fresh' = Fresh /\ (at' = at => Written' = Written)
                       /\ Damaged(conf.idx)' = Damaged(conf.idx)
  BY <1>1, HoldsIsKept
<1>3. UNCHANGED vars => Repairable'
  <2> SUFFICES ASSUME UNCHANGED vars PROVE Repairable'
    OBVIOUS
  <2>1. raw' = raw /\ at' = at /\ buf' = buf /\ bak' = bak /\ bk' = bk /\ pc' = pc
    BY DEF vars
  <2> QED
    BY <1>1, <1>2, <2>1 DEF Repairable, Backed, Holds
<1>4. CASE pc = "write" /\ Holds(buf) /\ Written
  <2>1. UNCHANGED vars \/ WriteNext \/ WriteFails \/ WriteDone \/ Backup
    BY <1>1, <1>4 DEF Step, Next, Daemon, Phase, ResumeCopy, BeginCopy, Finish,
      StartItem, Resume, BackupHeader, ShrinkFails, EncryptDevice, EncryptFails,
      CopyData, OpenFails, RecoverHeader, MemFsFails, SkipResume, Refill, RefillFails,
      RewriteNext, RewriteFails, Rewritten, RemoveSaved, SkipSlice, ReadSlice,
      SourceIsGone, HasSlice, ReadFails, CommitSlice, NextPhase, LastCopyOver,
      CopyOver, CommitDone, ClearItem
  <2>2. CASE WriteNext \/ Backup
    BY <1>4, <2>2, WriteStep DEF Repairable
  <2>3. CASE WriteDone
    BY <1>4, <2>3, WriteStep DEF Clean
  <2>4. CASE WriteFails
    BY <2>4 DEF WriteFails
  <2> QED
    BY <1>3, <2>1, <2>2, <2>3, <2>4
<1>5. CASE pc \in {"down", "phase", "resume"} /\ Backed
  <2>0. pc # "down" => bk = "off"
    BY <1>5 DEF Current, CopyTypes, PlaceInv
  <2>1. bk = "off" => Resumable
    <3> SUFFICES ASSUME bk = "off" PROVE Resumable
      OBVIOUS
    <3>1. bak # NoFile /\ Len(bak) = SavedSize /\ SavedSize > 0
      BY <1>5, CopyGeometry DEF Backed, Current
    <3>2. SkipBlock(conf.idx) >= 0
      BY <1>1, Sizes DEF SkipBlock, TotalSlices, Main, Current, Copying
    <3>3. SavedSize \in Nat
      BY CopyGeometry, Sizes DEF Current
    <3> QED
      BY <3>1, <3>2, <3>3 DEF Resumable, SavedSize
  <2>2. UNCHANGED vars \/ Resume \/ CopyData \/ OpenFails \/ MemFsFails \/ Refill
        \/ RefillFails \/ BackupOpens \/ BackupWrites \/ BackupFails
    BY <1>1, <1>5, <2>0, <2>1 DEF Step, Next, Daemon, Phase, ResumeCopy, BeginCopy,
      Finish, Backup, StartItem, BackupHeader, ShrinkFails, EncryptDevice,
      EncryptFails, RecoverHeader, SkipResume, RewriteNext, RewriteFails, Rewritten,
      RemoveSaved, SkipSlice, ReadSlice, SourceIsGone, HasSlice, ReadFails, WriteNext,
      WriteFails, WriteDone, CommitSlice, NextPhase, LastCopyOver, CopyOver, CommitDone,
      ClearItem, Current, Copying
  <2>3. CASE Resume \/ CopyData \/ OpenFails \/ MemFsFails
    <3>1. bk = "off" /\ bk' = bk /\ bak' = bak /\ pc' \in {"down", "phase", "resume"}
      BY <2>0, <2>3 DEF Resume, CopyData, OpenFails, MemFsFails, GivesUp, disks, copy
    <3> QED
      BY <1>1, <1>2, <1>5, <3>1 DEF Repairable, Backed, Holds
  <2>4. CASE Refill
    <3>1. pc = "resume" /\ bk = "off" /\ Resumable /\ pc' = "rewrite"
      BY <2>0, <2>4 DEF Refill
    <3>2. SavedSize - Len(bak) = 0 /\ Len(bak) \in Nat /\ SavedSize \in Nat
      BY <1>5, <3>1, CopyGeometry, Sizes DEF Backed, Current
    <3>3. bak' = bak
      <4>1. 0 \in 0..(SavedSize - Len(bak))
        BY <3>2
      <4>2. Refilled(0) = bak
        BY <3>1, <4>1, Refills DEF Current, CopyTypes
      <4> QED
        BY <2>4, <3>2, <4>2 DEF Refill
    <3>4. Holds(bak)'
      BY <1>2, <1>5, <3>1, <3>3 DEF Backed, Holds
    <3>5. Written'
      <4>1. at' = 0
        BY <2>4, <3>1 DEF Refill, copy, Current, CopyTypes, IndexInv
      <4> QED
        BY <4>1 DEF Written
    <3> QED
      BY <3>1, <3>4, <3>5 DEF Repairable
  <2>5. CASE RefillFails \/ BackupFails
    BY <2>5 DEF RefillFails, BackupFails
  <2>6. CASE BackupOpens \/ BackupWrites
    BY <1>5, <2>0, <2>6, BackedByBackup DEF BackupOpens, BackupWrites, Repairable
  <2> QED
    BY <1>3, <2>2, <2>3, <2>4, <2>5, <2>6
<1>6. CASE pc = "rewrite" /\ Holds(bak) /\ Written
  <2>1. UNCHANGED vars \/ RewriteNext \/ RewriteFails
    BY <1>1, <1>6 DEF Step, Next, Daemon, Phase, ResumeCopy, BeginCopy, Finish, Backup,
      StartItem, Resume, BackupHeader, ShrinkFails, EncryptDevice, EncryptFails,
      CopyData, OpenFails, RecoverHeader, MemFsFails, SkipResume, Refill, RefillFails,
      Rewritten, RemoveSaved, SkipSlice, ReadSlice, SourceIsGone, HasSlice, ReadFails,
      WriteNext, WriteFails, WriteDone, CommitSlice, NextPhase, LastCopyOver, CopyOver,
      CommitDone, ClearItem, BackupOpens, BackupWrites, BackupFails, Current,
      CopyTypes, PlaceInv
  <2>2. CASE RewriteNext
    <3>1. mapper = "open" /\ at + 1 \in 1..Len(bak) /\ Len(bak) = Length(conf.idx)
      BY <1>6, <2>2, UnitIsRead, CopyGeometry DEF Current, CopyTypes, MapperInv, SavedInv
    <3>2. Written'
      BY <1>1, <1>6, <2>2, <3>1, WrittenGrows DEF Current, RewriteNext
    <3> QED
      BY <1>2, <1>6, <2>2, <3>2 DEF RewriteNext, Repairable, Holds
  <2>3. CASE RewriteFails
    BY <2>3 DEF RewriteFails
  <2> QED
    BY <1>3, <2>1, <2>2, <2>3
<1> QED
  BY <1>4, <1>5, <1>6 DEF Repairable

-----------------------------------------------------------------------------
(***************************************************************************)
(* What is not copied yet is untouched, with either kind of header.        *)
(***************************************************************************)
LEMMA UntouchedStep ==
  ASSUME CopyTypes, Untouched, [Next]_vars PROVE Untouched'
<1>0. mode' = mode /\ Shift' = Shift /\ conf.idx \in Nat /\ DeviceOK
  BY ModeIsFixed, Sizes DEF Shift, CopyTypes, PlaceInv, SliceInv, CountInv, DeviceOK
<1>1. ASSUME NotStarted', NEW m \in 1..Size, m > Shift PROVE raw'[m] = Plain(m)
  <2>1. NotStarted
    <3>1. conf'.phase \in {"none", "BackupHeader", "EncryptDevice"} /\ pc' # "over"
      BY <1>1 DEF NotStarted
    <3>2. conf.phase \in {"none", "BackupHeader", "EncryptDevice"}
      BY <3>1 DEF Next, vars, StartItem, Resume, Daemon, Phase, BackupHeader,
        ShrinkFails, EncryptDevice, EncryptFails, CopyData, OpenFails, RecoverHeader,
        ResumeCopy, MemFsFails, SkipResume, Refill, RefillFails, RewriteNext, RewriteFails,
        Rewritten, RemoveSaved, BeginCopy, HasSlice, SkipSlice, ReadSlice, SourceIsGone,
        ReadFails, WriteNext, WriteFails, WriteDone, CommitSlice, Finish, NextPhase,
        LastCopyOver, CommitDone, ClearItem, Backup, BackupOpens, BackupWrites,
        BackupFails, Reboot,
        CopyTypes, PlaceInv, Main
    <3>3. pc # "over"
      BY <3>1 DEF Next, vars, StartItem, Resume, Daemon, Phase, BackupHeader,
        ShrinkFails, EncryptDevice, EncryptFails, CopyData, OpenFails, RecoverHeader,
        ResumeCopy, MemFsFails, SkipResume, Refill, RefillFails, RewriteNext, RewriteFails,
        Rewritten, RemoveSaved, BeginCopy, HasSlice, SkipSlice, ReadSlice, SourceIsGone,
        ReadFails, WriteNext, WriteFails, WriteDone, CommitSlice, Finish, NextPhase,
        LastCopyOver, CommitDone, ClearItem, Backup, BackupOpens, BackupWrites,
        BackupFails, Reboot,
        CopyOver, CopyTypes, PlaceInv
    <3> QED
      BY <3>2, <3>3 DEF NotStarted
  <2>2. raw'[m] = raw[m]
    <3>1. CASE Writing
      BY <2>1, <3>1 DEF Writing, WriteNext, RewriteNext, WriteUnit, NotStarted, Copying,
        HeaderCopy, CopyTypes, PlaceInv
    <3>2. CASE Encrypting
      <4>1. m \in 1..(Size + Shift)
        BY Sizes DEF Shift
      <4> QED
        BY <1>1, <3>2, <4>1, FormattedTypes DEF Encrypting, EncryptDevice, EncryptFails,
          CopyTypes
    <3> QED
      BY <3>1, <3>2, OthersKeepDevice
  <2> QED
    BY <1>1, <2>1, <2>2 DEF Untouched
<1>2. ASSUME Copying', NEW k \in (conf'.idx + 1)..FullSlices,
             NEW m \in MainSlice(k), m > Shift
      PROVE  raw'[m] = Plain(m)
  <2>0. conf'.idx \in Nat
    BY CopyTypesStep DEF CopyTypes, PlaceInv
  <2>1. k \in 0..FullSlices /\ m \in 1..Size /\ m \in 1..(Size + Shift)
    BY <2>0, SliceInVolume, Sizes DEF Shift
  <2>2. CASE Copying
    <3>1. conf'.idx >= conf.idx
      BY <1>0, <1>2, <2>2, CommittedStep DEF CommittedStays
    <3>2. k \in (conf.idx + 1)..FullSlices /\ conf.idx <= FullSlices
      BY <1>0, <2>0, <2>1, <3>1, Sizes
    <3>3. raw[m] = Plain(m)
      BY <1>2, <2>2, <3>2 DEF Untouched
    <3>4. CASE Writing
      <4>1. PICK c : WriteUnit(c, Offset(conf.idx) + at + 1)
        BY <1>0, <2>2, <3>4, WritingIsCurrent
      <4>2. m <= Start /\ Start = Offset(conf.idx) /\ Start \in Nat /\ Shift \in Nat
            /\ at \in Nat
        BY <2>2, <3>2, AheadIsBelow, CopyGeometry, Sizes DEF CopyTypes, SliceInv
      <4>3. m # Offset(conf.idx) + at + 1 + Shift
        BY <2>1, <4>2
      <4>4. raw'[m] = raw[m]
        BY <2>1, <2>2, <4>1, <4>3 DEF WriteUnit, Copying, CopyTypes, SliceInv
      <4> QED
        BY <3>3, <4>4
    <3>5. ~Encrypting
      BY <2>2 DEF Encrypting, EncryptDevice, EncryptFails, Copying
    <3> QED
      BY <3>3, <3>4, <3>5, OthersKeepDevice
  <2>3. CASE ~Copying
    <3>1. EncryptDevice
      BY <1>2, <2>3 DEF Copying, Next, vars, StartItem, Resume, Daemon, Phase,
        BackupHeader, ShrinkFails, EncryptFails, CopyData, OpenFails, RecoverHeader,
        ResumeCopy, MemFsFails, SkipResume, Refill, RefillFails, RewriteNext,
        RewriteFails, Rewritten, RemoveSaved, BeginCopy, SkipSlice, ReadSlice,
        SourceIsGone, ReadFails, WriteNext, WriteFails, WriteDone, CommitSlice, Finish,
        NextPhase, LastCopyOver, CommitDone, ClearItem, Backup, BackupOpens,
        BackupWrites, BackupFails, Reboot, CopyTypes, PlaceInv
    <3>2. raw[m] = Plain(m)
      BY <1>2, <2>1, <3>1 DEF EncryptDevice, Untouched, NotStarted
    <3> QED
      BY <1>2, <2>1, <3>1, <3>2, FormattedTypes DEF EncryptDevice, CopyTypes
  <2> QED
    BY <2>2, <2>3
<1> QED
  BY <1>0, <1>1, <1>2 DEF Untouched, MainSlice, Plain

LEMMA CertainStep == ASSUME CopyTypes, [Next]_vars, Certain' PROVE Certain
BY ModeIsFixed DEF Certain, CopyTypes, CountInv, Next, vars, StartItem, Resume, Daemon,
  Phase, BackupHeader, ShrinkFails, EncryptDevice, EncryptFails, CopyData, OpenFails,
  RecoverHeader, ResumeCopy, MemFsFails, SkipResume, Refill, RefillFails, RewriteNext,
  RewriteFails, Rewritten, RemoveSaved, BeginCopy, SkipSlice, ReadSlice, SourceIsGone,
  ReadFails, WriteNext, WriteFails, WriteDone, CommitSlice, Finish, NextPhase,
  LastCopyOver, CommitDone, ClearItem, Backup, BackupOpens, BackupWrites, BackupFails,
  Reboot, Works, Fails

(* The mapper is open while a slice is copied. *)
LEMMA MapperStep ==
  ASSUME CopyTypes, MapperInv, [Next]_vars, Certain' PROVE MapperInv'
<1>0. mode' = mode /\ mode \in {"detached", "inline"}
  BY ModeIsFixed, SliceAssumption DEF CopyTypes, CountInv
<1>1. CASE Reboot
  BY <1>0, <1>1 DEF Reboot, MapperInv, Certain, CopyTypes, CountInv
<1>2. CASE Writing
  <2>1. conf.phase = "BackupHeader" \/ mapper = "open"
    BY <1>0, <1>2 DEF Writing, WriteNext, RewriteNext, MapperInv, CopyTypes, PlaceInv,
      HeaderCopy, Copying
  <2>2. mapper' = mapper /\ conf' = conf /\ pc' = pc
    BY <1>2, <2>1 DEF Writing, WriteNext, RewriteNext, WriteUnit
  <2> QED
    BY <1>0, <2>2 DEF MapperInv, Copying
<1>3. CASE EncryptDevice \/ CopyData
  BY <1>0, <1>3 DEF EncryptDevice, CopyData, MapperInv, Copying, CopyTypes, CountInv
<1>4. CASE [Next]_vars /\ ~Reboot /\ ~Writing /\ ~EncryptDevice /\ ~CopyData
  <2>1. mapper' = mapper
    BY <1>4 DEF Writing, Next, vars, StartItem, Resume, Daemon, Phase, BackupHeader,
      ShrinkFails, EncryptFails, OpenFails, RecoverHeader, ResumeCopy, MemFsFails,
      SkipResume, Refill, RefillFails, RewriteFails, Rewritten, RemoveSaved, BeginCopy,
      SkipSlice, ReadSlice, SourceIsGone, ReadFails, WriteFails, WriteDone, CommitSlice,
      Finish, NextPhase, LastCopyOver, CommitDone, ClearItem, Backup, BackupOpens,
      BackupWrites, BackupFails, disks
  <2>2. conf'.phase = "CopyData" => conf.phase = "CopyData"
    BY <1>4 DEF Writing, Next, vars, StartItem, Resume, Daemon, Phase, BackupHeader,
      ShrinkFails, EncryptFails, OpenFails, RecoverHeader, ResumeCopy, MemFsFails,
      SkipResume, Refill, RefillFails, RewriteFails, Rewritten, RemoveSaved, BeginCopy,
      SkipSlice, ReadSlice, SourceIsGone, ReadFails, WriteFails, WriteDone, CommitSlice,
      Finish, NextPhase, LastCopyOver, CommitDone, ClearItem, Backup, BackupOpens,
      BackupWrites, BackupFails, CopyTypes, PlaceInv, Main
  <2>3. conf'.phase = "RecoverHeader" => conf.phase \in {"CopyData", "RecoverHeader"}
    BY <1>4 DEF Writing, Next, vars, StartItem, Resume, Daemon, Phase, BackupHeader,
      ShrinkFails, EncryptFails, OpenFails, RecoverHeader, ResumeCopy, MemFsFails,
      SkipResume, Refill, RefillFails, RewriteFails, Rewritten, RemoveSaved, BeginCopy,
      SkipSlice, ReadSlice, SourceIsGone, ReadFails, WriteFails, WriteDone, CommitSlice,
      Finish, NextPhase, LastCopyOver, CommitDone, ClearItem, Backup, BackupOpens,
      BackupWrites, BackupFails, CopyTypes, PlaceInv, Main
  <2>4. Copying' /\ pc' \notin {"down", "phase"} => pc \notin {"down", "phase"}
    BY <1>4, <2>2 DEF Writing, Next, vars, StartItem, Resume, Daemon, Phase, GivesUp,
      BackupHeader, ShrinkFails, EncryptFails, OpenFails, RecoverHeader, ResumeCopy,
      MemFsFails, SkipResume, Refill, RefillFails, RewriteFails, Rewritten, RemoveSaved,
      BeginCopy, HasSlice, SkipSlice, ReadSlice, SourceIsGone, ReadFails, WriteFails, WriteDone,
      CommitSlice, Finish, CopyOver, NextPhase, LastCopyOver, CommitDone, ClearItem,
      Backup, BackupOpens, BackupWrites, BackupFails, Copying, CopyTypes, PlaceInv
  <2> QED
    BY <1>0, <2>1, <2>2, <2>3, <2>4 DEF MapperInv, Copying
<1> QED
  BY <1>1, <1>2, <1>3, <1>4

-----------------------------------------------------------------------------
(***************************************************************************)
(* The budget.                                                             *)
(***************************************************************************)
LEMMA SlicesAreFinite ==
  ASSUME NEW S \in SUBSET (0..FullSlices)
  PROVE  IsFiniteSet(S) /\ Cardinality(S) \in Nat
<1>1. IsFiniteSet(0..FullSlices)
  BY FS_Interval, Sizes
<1>2. IsFiniteSet(S)
  BY <1>1, FS_Subset
<1> QED
  BY <1>2, FS_CardinalityType

LEMMA NeedIsSmall == Need \in {0, 1, 2}
BY DEF Need

LEMMA ErrorsCount ==
  ASSUME CopyTypes, [Next]_vars
  PROVE  /\ errors \in Nat /\ reboots \in Nat /\ errors' \in Nat /\ reboots' \in Nat
         /\ errors' >= errors /\ reboots' >= reboots
         /\ Fails => errors' = errors + 1
         /\ Reboot => reboots' = reboots + 1
<1>1. Works \/ Fails \/ Reboot
  BY DEF Next, vars, StartItem, Resume, Daemon, Phase, BackupHeader, ShrinkFails,
    EncryptDevice, EncryptFails, CopyData, OpenFails, RecoverHeader, ResumeCopy,
    MemFsFails, SkipResume, Refill, RefillFails, RewriteNext, RewriteFails, Rewritten,
    RemoveSaved, BeginCopy, SkipSlice, ReadSlice, SourceIsGone, ReadFails, WriteNext,
    WriteFails, WriteDone, CommitSlice, Finish, NextPhase, LastCopyOver, CommitDone,
    ClearItem, Backup, BackupOpens, BackupWrites, BackupFails, Works
<1> QED
  BY <1>1, SliceAssumption DEF CopyTypes, CountInv, Works, Fails, Reboot

(* The slices that are settled stay as they are. *)
LEMMA SettledStays ==
  ASSUME CopyTypes, [Next]_vars, Copying, NEW k \in 0..FullSlices, k < conf.idx
  PROVE  Damaged(k)' = Damaged(k)
<1>1. DeviceOK /\ conf.idx \in Nat
  BY Sizes DEF CopyTypes, PlaceInv, SliceInv, CountInv, DeviceOK
<1>2. k \in 0..(conf.idx - 1)
  BY <1>1, Sizes
<1>3. \A m \in MainSlice(k) : raw'[m + Shift] = raw[m + Shift]
  BY <1>1, <1>2, CommittedStep, SliceInVolume DEF CommittedStays
<1>4. Shift' = Shift /\ MainSlice(k)' = MainSlice(k)
  BY ModeIsFixed DEF Shift, MainSlice
<1> QED
  BY <1>3, <1>4 DEF Damaged, Right

LEMMA IndexMoves ==
  ASSUME CopyTypes, [Next]_vars, Copying, Copying'
  PROVE  conf' = conf \/ CommitSlice \/ Rewritten
BY DEF CopyTypes, PlaceInv, Copying, Next, vars, StartItem, Resume, Daemon, Phase,
  BackupHeader, ShrinkFails, EncryptDevice, EncryptFails, CopyData, OpenFails,
  RecoverHeader, ResumeCopy, MemFsFails, SkipResume, Refill, RefillFails, RewriteNext,
  RewriteFails, RemoveSaved, BeginCopy, SkipSlice, ReadSlice, SourceIsGone, ReadFails,
  WriteNext, WriteFails, WriteDone, Finish, NextPhase, LastCopyOver, CommitDone,
  ClearItem, Backup, BackupOpens, BackupWrites, BackupFails, Reboot, Main

(* The index stays: the need grows with the failures. *)
LEMMA NeedStep ==
  ASSUME CopyTypes, MapperInv, [Next]_vars, Copying, conf' = conf
  PROVE  Need' + errors + 2 * reboots <= Need + errors' + 2 * reboots'
<1>1. Need \in {0, 1, 2} /\ Need' \in {0, 1, 2}
  BY NeedIsSmall DEF Need
<1>2. CASE Reboot
  BY <1>1, <1>2, ErrorsCount
<1>3. CASE conf.idx > FullSlices
  <2>1. Need' = 0
    BY <1>3 DEF Need, Clean
  <2> QED
    BY <1>1, <2>1, ErrorsCount
<1>4. CASE ~Reboot /\ ~(conf.idx > FullSlices)
  <2>1. Current /\ Step
    BY <1>4, Sizes DEF Current, Step, CopyTypes, PlaceInv
  <2>2. CASE Clean
    <3>1. Need = 0 /\ (Clean' => Need' = 0) /\ (Repairable' => Need' \in {0, 1})
      BY <2>2 DEF Need
    <3> QED
      BY <1>1, <2>1, <2>2, <3>1, CleanStep, ErrorsCount
  <2>3. CASE ~Clean /\ Repairable
    <3>1. Need = 1 /\ (Clean' => Need' = 0) /\ (Repairable' => Need' \in {0, 1})
      BY <2>3 DEF Need
    <3> QED
      BY <1>1, <2>1, <2>3, <3>1, RepairStep, ErrorsCount
  <2>4. CASE ~Clean /\ ~Repairable
    <3>1. Need = 2
      BY <2>4 DEF Need
    <3> QED
      BY <1>1, <3>1, ErrorsCount
  <2> QED
    BY <2>2, <2>3, <2>4
<1> QED
  BY <1>2, <1>3, <1>4

(* The index moves past a slice that is right, or was given up. *)
LEMMA MovesWhenSettled ==
  ASSUME CopyTypes, Copying, conf.idx \in 0..FullSlices, CommitSlice \/ Rewritten
  PROVE  Need = 2 \/ ~Damaged(conf.idx)
<1> SUFFICES ASSUME Need # 2 PROVE ~Damaged(conf.idx)
  OBVIOUS
<1>1. Clean \/ Repairable
  BY DEF Need
<1>2. CASE CommitSlice
  BY <1>1, <1>2, Sizes DEF CommitSlice, Clean, Repairable
<1>3. CASE Rewritten
  <2>1. Written /\ at = Length(conf.idx)
    BY <1>1, <1>3, CopyGeometry, Sizes DEF Rewritten, Clean, Repairable
  <2> QED
    BY <2>1, WrittenIsRight
<1> QED
  BY <1>2, <1>3

(* The index moves on: the slice is settled, and the next one is clean. *)
LEMMA BudgetMoves ==
  ASSUME CopyTypes, Untouched, Budget, Copying, [Next]_vars,
         CommitSlice \/ Rewritten
  PROVE  Budget'
<1>1. /\ conf' = [conf EXCEPT !.idx = conf.idx + 1] /\ conf'.idx = conf.idx + 1
      /\ raw' = raw /\ mode' = mode /\ Shift' = Shift /\ Copying'
      /\ conf.idx \in 0..FullSlices /\ conf.idx <= FullSlices
      /\ bk = "off" /\ bk' = bk
  <2>1. conf \in [phase : Phases, idx : Nat] /\ conf.idx <= FullSlices /\ bk = "off"
    BY Sizes DEF CopyTypes, PlaceInv, IndexInv, CommitSlice, Rewritten, TotalSlices,
      Main, Copying
  <2> QED
    BY <2>1, Sizes DEF CommitSlice, Rewritten, disks, copy, Shift, Copying
<1>2. Clean'
  <2>1. CASE conf.idx = FullSlices
    BY <1>1, <2>1, Sizes DEF Clean
  <2>2. CASE conf.idx # FullSlices
    <3>1. \A m \in MainSlice(conf'.idx) : m > Shift => raw[m] = Plain(m)
      <4>1. conf'.idx \in (conf.idx + 1)..FullSlices
        BY <1>1, <2>2, Sizes
      <4> QED
        BY <4>1 DEF Untouched
    <3>2. Fresh'
      BY <1>1, <3>1 DEF Fresh, MainSlice, Plain
    <3>3. CASE CommitSlice
      BY <1>1, <3>2, <3>3 DEF CommitSlice, Clean, CopyTypes, SavedInv, disks
    <3>4. CASE Rewritten
      BY <1>1, <3>2, <3>4 DEF Rewritten, Clean
    <3> QED
      BY <3>3, <3>4
  <2> QED
    BY <2>1, <2>2
<1>3. Need' = 0
  BY <1>2 DEF Need
<1>4. Need = 2 \/ ~Damaged(conf.idx)
  BY <1>1, MovesWhenSettled
<1>5. Lost' \subseteq Lost \cup {conf.idx} /\ (~Damaged(conf.idx) => Lost' \subseteq Lost)
  <2>1. \A k \in 0..FullSlices : Damaged(k)' = Damaged(k)
    BY <1>1 DEF Damaged, Right, MainSlice
  <2>2. Reach' = conf.idx + 1 /\ Reach = conf.idx
    BY <1>1 DEF Reach
  <2> QED
    BY <1>1, <2>1, <2>2 DEF Lost
<1>6. IsFiniteSet(Lost) /\ Cardinality(Lost) \in Nat /\ Cardinality(Lost') \in Nat
  <2>1. Lost \subseteq 0..FullSlices /\ Lost' \subseteq 0..FullSlices
    BY DEF Lost
  <2> QED
    BY <2>1, SlicesAreFinite
<1>7. Cardinality(Lost') <= Cardinality(Lost) + 1
  <2>1. /\ IsFiniteSet(Lost \cup {conf.idx})
        /\ Cardinality(Lost \cup {conf.idx}) \in {Cardinality(Lost), Cardinality(Lost) + 1}
    BY <1>6, FS_AddElement
  <2>2. Cardinality(Lost') <= Cardinality(Lost \cup {conf.idx})
    BY <1>5, <2>1, FS_Subset
  <2> QED
    BY <1>6, <2>1, <2>2
<1>8. ~Damaged(conf.idx) => Cardinality(Lost') <= Cardinality(Lost)
  BY <1>5, <1>6, FS_Subset
<1>9. Need \in {0, 1, 2}
  BY NeedIsSmall
<1>10. errors \in Nat /\ reboots \in Nat /\ errors' \in Nat /\ reboots' \in Nat
       /\ errors' >= errors /\ reboots' >= reboots
  BY ErrorsCount
<1> HIDE DEF Lost, Need
<1>11. 2 * Cardinality(Lost) + Need <= errors + 2 * reboots
  BY DEF Budget
<1>12. 2 * Cardinality(Lost') <= errors' + 2 * reboots'
  BY <1>4, <1>6, <1>7, <1>8, <1>9, <1>10, <1>11
<1> QED
  BY <1>3, <1>6, <1>12 DEF Budget

(* The sums of the budget: the need grows, it ends, or nothing is lost. *)
LEMMA BudgetKept ==
  ASSUME NEW c \in Nat, NEW n \in Nat, NEW n2 \in Nat, NEW e \in Nat, NEW r \in Nat,
         NEW e2 \in Nat, NEW r2 \in Nat,
         n2 + e + 2 * r <= n + e2 + 2 * r2, 2 * c + n <= e + 2 * r
  PROVE  2 * c + n2 <= e2 + 2 * r2
OBVIOUS

LEMMA BudgetGrows ==
  ASSUME NEW c \in Nat, NEW n \in Nat, NEW e \in Nat, NEW r \in Nat,
         NEW e2 \in Nat, NEW r2 \in Nat, e2 >= e, r2 >= r, 2 * c + n <= e + 2 * r
  PROVE  2 * c + 0 <= e2 + 2 * r2
OBVIOUS

LEMMA BudgetFree == ASSUME NEW e \in Nat, NEW r \in Nat PROVE 2 * 0 + 0 <= e + 2 * r
OBVIOUS

LEMMA BudgetStep ==
  ASSUME CopyTypes, DamageInv, Certain, [Next]_vars
  PROVE  Copying' \/ mode' = "detached" => Budget'
<1>0. mode' = mode /\ MapperInv /\ Untouched /\ (Copying \/ mode = "detached" => Budget)
  BY ModeIsFixed DEF DamageInv
<1>1. /\ errors \in Nat /\ reboots \in Nat /\ errors' \in Nat /\ reboots' \in Nat
      /\ errors' >= errors /\ reboots' >= reboots
  BY ErrorsCount
<1>2. Cardinality(Lost) \in Nat /\ Cardinality(Lost') \in Nat
      /\ Need \in Nat /\ Need' \in Nat
  <2>1. Lost \subseteq 0..FullSlices /\ Lost' \subseteq 0..FullSlices
    BY DEF Lost
  <2>2. Need \in Nat /\ Need' \in Nat
    BY DEF Need
  <2> QED
    BY <2>1, <2>2, SlicesAreFinite
<1>3. ASSUME Copying, conf' = conf PROVE Budget'
  <2>1. Copying' /\ Reach' = Reach /\ Reach = conf.idx
    BY <1>3 DEF Copying, Reach
  <2>2. Lost' = Lost
    BY <1>3, <2>1, SettledStays DEF Lost
  <2>3. Need' + errors + 2 * reboots <= Need + errors' + 2 * reboots'
    BY <1>0, <1>3, NeedStep
  <2>4. 2 * Cardinality(Lost) + Need <= errors + 2 * reboots
    BY <1>0, <1>3 DEF Budget
  <2>5. 2 * Cardinality(Lost) + Need' <= errors' + 2 * reboots'
    BY <1>1, <1>2, <2>3, <2>4, BudgetKept
  <2> QED
    BY <2>2, <2>5 DEF Budget
<1>4. ASSUME Copying, Copying', conf' # conf PROVE Budget'
  BY <1>0, <1>4, IndexMoves, BudgetMoves
<1>5. ASSUME Copying, ~Copying', mode = "detached" PROVE Budget'
  <2>1. CommitDone
    BY <1>0, <1>5 DEF CopyTypes, PlaceInv, Copying, Next, vars, StartItem, Resume, Daemon,
      Phase, BackupHeader, ShrinkFails, EncryptDevice, EncryptFails, CopyData, OpenFails,
      RecoverHeader, ResumeCopy, MemFsFails, SkipResume, Refill, RefillFails,
      RewriteNext, RewriteFails, Rewritten, RemoveSaved, BeginCopy, SkipSlice, ReadSlice,
      SourceIsGone, ReadFails, WriteNext, WriteFails, WriteDone, CommitSlice, Finish,
      NextPhase, LastCopyOver, ClearItem, Backup, BackupOpens, BackupWrites,
      BackupFails, Reboot, Main
  <2>2. Reach = FullSlices + 1 /\ Reach' = FullSlices + 1 /\ raw' = raw
    BY <1>5, <2>1, Sizes DEF CommitDone, CopyTypes, IndexInv, PlaceInv, TotalSlices, Main, Copying,
      Reach, NotStarted, disks
  <2>3. Lost' = Lost
    BY <1>0, <2>2 DEF Lost, Damaged, Right, MainSlice, Shift
  <2>4. Need' = 0
    BY <1>5 DEF Need
  <2>5. 2 * Cardinality(Lost) + Need <= errors + 2 * reboots
    BY <1>0, <1>5 DEF Budget
  <2>6. 2 * Cardinality(Lost) + 0 <= errors' + 2 * reboots'
    BY <1>1, <1>2, <2>5, BudgetGrows
  <2> QED
    BY <2>3, <2>4, <2>6 DEF Budget
<1>6. ASSUME ~Copying, Copying' PROVE Budget'
  <2>1. EncryptDevice
    BY <1>6 DEF CopyTypes, PlaceInv, Copying, Next, vars, StartItem, Resume, Daemon,
      Phase, BackupHeader, ShrinkFails, EncryptFails, CopyData, OpenFails,
      RecoverHeader, ResumeCopy, MemFsFails, SkipResume, Refill, RefillFails,
      RewriteNext, RewriteFails, Rewritten, RemoveSaved, BeginCopy, SkipSlice, ReadSlice,
      SourceIsGone, ReadFails, WriteNext, WriteFails, WriteDone, CommitSlice, Finish,
      NextPhase, LastCopyOver, CommitDone, ClearItem, Backup, BackupOpens, BackupWrites,
      BackupFails, Reboot, Main
  <2>2. conf'.idx = 0 /\ pc' = "phase" /\ bak' = NoFile /\ bk' = "off" /\ raw' = Formatted
        /\ NotStarted
    BY <2>1 DEF EncryptDevice, CopyTypes, SavedInv, copy, NotStarted
  <2>3. Fresh'
    <3> SUFFICES ASSUME NEW m \in MainSlice(0), m > Shift PROVE raw'[m] = Plain(m)
      BY <1>0, <2>2 DEF Fresh, MainSlice, Plain, Shift
    <3>1. m \in 1..Size /\ m \in 1..(Size + Shift)
      BY SliceInVolume, Sizes DEF Shift
    <3> QED
      BY <1>0, <2>2, <3>1, FormattedTypes DEF Untouched, CopyTypes
  <2>4. Need' = 0
    BY <2>2, <2>3 DEF Need, Clean
  <2>5. Lost' = {}
    <3>1. Reach' = 0
      BY <1>6, <2>2 DEF Reach
    <3> QED
      BY <3>1 DEF Lost
  <2>6. Cardinality(Lost') = 0
    BY <2>5, FS_EmptySet
  <2>7. 2 * 0 + 0 <= errors' + 2 * reboots'
    BY <1>1, BudgetFree
  <2> QED
    BY <2>4, <2>6, <2>7 DEF Budget
<1>7. ASSUME ~Copying, ~Copying', mode = "detached" PROVE Budget'
  <2>1. Need = 0 /\ Need' = 0 /\ mode = "detached"
    BY <1>0, <1>7 DEF Need
  <2>2. CASE NotStarted'
    <3>1. Lost' = {}
      BY <1>7, <2>2 DEF Lost, Reach
    <3>2. Cardinality(Lost') = 0
      BY <3>1, FS_EmptySet
    <3>3. 2 * 0 + 0 <= errors' + 2 * reboots'
      BY <1>1, BudgetFree
    <3> QED
      BY <2>1, <3>2, <3>3 DEF Budget
  <2>3. CASE ~NotStarted'
    <3>1. ~NotStarted
      <4> SUFFICES ASSUME NotStarted PROVE FALSE
        OBVIOUS
      <4>1. conf'.phase \in {"none", "BackupHeader", "EncryptDevice"}
        BY <1>7 DEF NotStarted, CopyTypes, PlaceInv, Copying, Next, vars, StartItem, Resume,
          Daemon, Phase, BackupHeader, ShrinkFails, EncryptDevice, EncryptFails, CopyData,
          OpenFails, RecoverHeader, ResumeCopy, MemFsFails, SkipResume, Refill,
          RefillFails, RewriteNext, RewriteFails, Rewritten, RemoveSaved, BeginCopy,
          SkipSlice, ReadSlice, SourceIsGone, ReadFails, WriteNext, WriteFails, WriteDone,
          CommitSlice, Finish, NextPhase, LastCopyOver, CommitDone, ClearItem, Backup,
          BackupOpens, BackupWrites, BackupFails, Reboot, Main
      <4>2. pc' # "over"
        BY DEF NotStarted, CopyTypes, PlaceInv, GivesUp, HasSlice, CopyOver, Next,
          vars, StartItem, Resume,
          Daemon, Phase, BackupHeader, ShrinkFails, EncryptDevice, EncryptFails, CopyData,
          OpenFails, RecoverHeader, ResumeCopy, MemFsFails, SkipResume, Refill,
          RefillFails, RewriteNext, RewriteFails, Rewritten, RemoveSaved, BeginCopy,
          SkipSlice, ReadSlice, SourceIsGone, ReadFails, WriteNext, WriteFails, WriteDone,
          CommitSlice, Finish, NextPhase, LastCopyOver, CommitDone, ClearItem, Backup,
          BackupOpens, BackupWrites, BackupFails, Reboot, Main
      <4> QED
        BY <2>3, <4>1, <4>2 DEF NotStarted
    <3>2. raw' = raw
      <4>1. ~Writing
        BY <1>7, <2>1 DEF Writing, WriteNext, RewriteNext, CopyTypes, PlaceInv
      <4>2. ~Encrypting
        BY <3>1 DEF Encrypting, EncryptDevice, EncryptFails, NotStarted
      <4> QED
        BY <4>1, <4>2, OthersKeepDevice
    <3>3. Lost' = Lost
      BY <1>0, <1>7, <2>3, <3>1, <3>2 DEF Lost, Reach, Damaged, Right, MainSlice, Shift
    <3>4. 2 * Cardinality(Lost) + Need <= errors + 2 * reboots
      BY <1>0, <2>1 DEF Budget
    <3>5. 2 * Cardinality(Lost) + 0 <= errors' + 2 * reboots'
      BY <1>1, <1>2, <3>4, BudgetGrows
    <3> QED
      BY <2>1, <3>3, <3>5 DEF Budget
  <2> QED
    BY <2>2, <2>3
<1> QED
  BY <1>0, <1>3, <1>4, <1>5, <1>6, <1>7

LEMMA InitDamageInv == Init => DamageInv
<1> SUFFICES ASSUME Init PROVE DamageInv
  OBVIOUS
<1>1. Untouched
  BY Sizes DEF Init, Untouched, Copying, Shift
<1>2. MapperInv
  BY DEF Init, MapperInv, Copying
<1>3. Lost = {} /\ Need = 0 /\ ~Copying
  BY DEF Init, Lost, Reach, NotStarted, Need, Copying
<1>4. Cardinality(Lost) = 0
  BY <1>3, FS_EmptySet
<1>5. Budget
  BY <1>3, <1>4 DEF Init, Budget
<1> QED
  BY <1>1, <1>2, <1>5 DEF DamageInv

LEMMA DamageStep == ASSUME CopyTypes, DamageInv, [Next]_vars PROVE DamageInv'
<1>1. Untouched'
  BY UntouchedStep DEF DamageInv
<1>2. ASSUME Certain' PROVE MapperInv' /\ (Copying' \/ mode' = "detached" => Budget')
  <2>1. Certain
    BY <1>2, CertainStep
  <2>2. MapperInv'
    BY <1>2, <2>1, MapperStep DEF DamageInv
  <2> QED
    BY <2>1, <2>2, BudgetStep
<1> QED
  BY <1>1, <1>2 DEF DamageInv

LEMMA DamageInvHolds == Spec => [](CopyTypes /\ DamageInv)
<1>1. Init => CopyTypes /\ DamageInv
  BY InitCopyTypes, InitDamageInv
<1>2. CopyTypes /\ DamageInv /\ [Next]_vars => (CopyTypes /\ DamageInv)'
  BY CopyTypesStep, DamageStep
<1> QED
  BY <1>1, <1>2, PTL DEF Spec

-----------------------------------------------------------------------------
(***************************************************************************)
(* With a detached header a reboot costs at most one slice of the volume,  *)
(* wherever in the copy or in the repair it comes; and so do two failing   *)
(* commands.                                                               *)
(***************************************************************************)
THEOREM RebootCostsOneSlice == Spec => []DamageIsBounded
<1>1. ASSUME CopyTypes, DamageInv PROVE DamageIsBounded
  <2> SUFFICES ASSUME pc = "over", mode = "detached"
      PROVE 2 * Cardinality({k \in 0..FullSlices : \E m \in MainSlice(k) : ~Right(m)})
              <= errors + 2 * reboots
    BY DEF DamageIsBounded
  <2>1. Budget /\ Need = 0 /\ Reach = FullSlices + 1
    BY <1>1 DEF DamageInv, Certain, Need, Reach, NotStarted, Copying, CopyTypes, PlaceInv
  <2>2. \A k \in 0..FullSlices : Damaged(k) <=> \E m \in MainSlice(k) : ~Right(m)
    BY SliceInVolume, Sizes DEF Damaged, Shift
  <2>3. Lost = {k \in 0..FullSlices : \E m \in MainSlice(k) : ~Right(m)}
    BY <2>1, <2>2, Sizes DEF Lost
  <2>4. Cardinality(Lost) \in Nat
    <3>1. Lost \subseteq 0..FullSlices
      BY DEF Lost
    <3> QED
      BY <3>1, SlicesAreFinite
  <2>5. 2 * Cardinality(Lost) <= errors + 2 * reboots
    BY <2>1, <2>4 DEF Budget
  <2> QED
    BY <2>3, <2>5
<1> QED
  BY <1>1, DamageInvHolds, PTL

-----------------------------------------------------------------------------
(* Every unit of the volume is in a slice of the main copy. *)
LEMMA SlicesCover ==
  ASSUME NEW m \in 1..Size
  PROVE  \E k \in 0..FullSlices : m \in MainSlice(k)
<1> DEFINE q == (m - 1) \div Slice
<1>1. m - 1 \in Nat /\ m \in Nat /\ Slice \in Nat /\ Slice > 0
  BY Sizes
<1>2. q \in Nat /\ Slice * q <= m - 1 /\ m - 1 < Slice * q + Slice
  <2>1. \A a, b \in Nat : b > 0 =>
          a \div b \in Nat /\ b * (a \div b) <= a /\ a < b * (a \div b) + b
    OBVIOUS
  <2> QED
    BY <1>1, <2>1
<1> HIDE DEF q
<1>3. q <= FullSlices
  <2> SUFFICES ASSUME q > FullSlices PROVE FALSE
    BY <1>2, Sizes
  <2>1. Slice * (FullSlices + 1) <= Slice * q
    <3>1. Slice * (FullSlices - q) + Slice <= Slice * (FullSlices - FullSlices)
      BY <1>2, SlicesAreApart, Sizes
    <3>2. Slice * (FullSlices - q) = Slice * FullSlices - Slice * q
      BY <1>2, Sizes
    <3>3. Slice * (FullSlices + 1) = Slice * FullSlices + Slice
      BY Sizes
    <3>4. Slice * (FullSlices - FullSlices) = 0
      BY Sizes
    <3>5. Slice * FullSlices \in Nat /\ Slice * q \in Nat
      BY <1>2, Sizes
    <3> QED
      BY <3>1, <3>2, <3>3, <3>4, <3>5, Sizes
  <2>2. Slice * (FullSlices + 1) = FullSlices * Slice + Slice /\ FullSlices * Slice \in Nat
    BY Sizes
  <2>3. m <= FullSlices * Slice + LastUnits
    BY DEF Size
  <2>4. Slice * q \in Nat
    BY <1>2, Sizes
  <2> QED
    BY <1>1, <1>2, <2>1, <2>2, <2>3, <2>4, Sizes
<1>4. FullSlices - q \in 0..FullSlices /\ FullSlices - (FullSlices - q) = q
  BY <1>2, <1>3, Sizes
<1>5. m \in MainSlice(FullSlices - q)
  <2>1. Slice * q \in Nat
    BY <1>2, Sizes
  <2>2. CASE FullSlices - q = 0
    <3>1. Slice * q = FullSlices * Slice
      BY <1>2, <2>2, Sizes
    <3>2. m <= Slice * q + LastUnits
      BY <3>1 DEF Size
    <3> QED
      BY <1>1, <1>2, <1>4, <2>1, <2>2, <3>2, Sizes DEF MainSlice
  <2>3. CASE FullSlices - q # 0
    BY <1>1, <1>2, <1>4, <2>1, <2>3, Sizes DEF MainSlice
  <2> QED
    BY <2>2, <2>3
<1> QED
  BY <1>4, <1>5

-----------------------------------------------------------------------------
(***************************************************************************)
(* The header, while the machine does not reboot.                          *)
(***************************************************************************)
Once == CopyTypes /\ DamageInv /\ mode = "inline" /\ reboots = 0 /\ RecoverInv

LEMMA NoLossOfOneError ==
  ASSUME CopyTypes, Budget, errors <= 1, reboots = 0
  PROVE  Lost = {}
<1>1. Lost \subseteq 0..FullSlices
  BY DEF Lost
<1>2. IsFiniteSet(Lost) /\ Cardinality(Lost) \in Nat
  BY <1>1, SlicesAreFinite
<1>3. Need \in Nat /\ errors \in Nat
  BY SliceAssumption DEF Need, CopyTypes, CountInv
<1>4. \A c, n, e \in Nat : e <= 1 /\ 2 * c + n <= e + 2 * 0 => c = 0
  OBVIOUS
<1>5. Cardinality(Lost) = 0
  BY <1>2, <1>3, <1>4 DEF Budget
<1> QED
  BY <1>2, <1>5, FS_EmptySet

LEMMA SavesHeaderStep ==
  ASSUME Once, [Next]_vars, ~Reboot PROVE SavesHeader'
<1>0. /\ CopyTypes /\ SavesHeader /\ StillPlain /\ mode = "inline" /\ mode \in Modes
      /\ conf.idx \in Nat /\ at \in Nat /\ conf \in [phase : Phases, idx : Nat]
  BY Sizes DEF Once, RecoverInv, CopyTypes, PlaceInv, CountInv, SliceInv
<1> SUFFICES ASSUME conf'.phase = "BackupHeader" PROVE
      /\ pc' = "write" => Copied(buf)' /\ (at' > 0 => Copied(hdr)')
      /\ pc' = "commit" \/ (pc' = "copy" /\ conf'.idx > 0) => Copied(hdr)'
  BY DEF SavesHeader
<1>1. CASE ReadSlice
  <2>1. conf.phase = "BackupHeader" /\ pc' = "write" /\ at' = 0 /\ HeaderCopy
    BY <1>1 DEF ReadSlice, HeaderCopy
  <2>2. /\ conf.idx = 0 /\ Len(buf') = Length(0)
        /\ \A j \in 1..Len(buf') : buf'[j] = raw[Offset(0) + j]
    BY <1>0, <1>1, <2>1, SliceIsRead DEF CopyTypes
  <2>3. Offset(0) = 0 /\ Length(0) = Slice /\ Slice <= Size
    BY <1>0, <2>1, HeaderGeometry
  <2>4. ASSUME NEW j \in 1..Len(buf') PROVE buf'[j] = Plain(j)
    <3>1. j \in 1..Size /\ 0 + j = j
      BY <2>2, <2>3, <2>4, Sizes
    <3>2. pc # "over"
      BY <1>1 DEF ReadSlice, HasSlice
    <3> QED
      BY <1>0, <2>1, <2>2, <2>3, <3>1, <3>2 DEF StillPlain
  <2> QED
    BY <2>1, <2>4 DEF Copied
<1>2. CASE WriteNext
  <2>1. conf.phase = "BackupHeader" /\ pc = "write" /\ pc' = "write" /\ buf' = buf
    BY <1>2 DEF WriteNext
  <2>2. Copied(buf) /\ (at > 0 => Copied(hdr))
    BY <1>0, <2>1 DEF SavesHeader
  <2>3. at + 1 \in 1..Len(buf) /\ buf[at + 1] \in Contents
    BY <1>0, <1>2, UnitIsRead DEF CopyTypes
  <2>4. /\ hdr' \in Seq(Contents) /\ Len(hdr') = at + 1
        /\ at > 0 => \A j \in 1..at : hdr'[j] = hdr[j]
        /\ hdr'[at + 1] = buf[at + 1]
    BY <1>0, <1>2, <2>1, <2>3, HeaderIsWritten DEF CopyTypes
  <2>5. at > 0 => Len(hdr) = at
    BY <1>0, <2>1 DEF CopyTypes, HeaderInv
  <2>6. ASSUME NEW j \in 1..(at + 1) PROVE hdr'[j] = Plain(j)
    <3>1. CASE j = at + 1
      BY <2>2, <2>3, <2>4, <3>1 DEF Copied
    <3>2. CASE j # at + 1
      <4>1. at > 0 /\ j \in 1..at
        BY <1>0, <2>6, <3>2
      <4> QED
        BY <2>2, <2>4, <2>5, <4>1 DEF Copied
    <3> QED
      BY <3>1, <3>2
  <2> QED
    BY <2>1, <2>2, <2>4, <2>6 DEF Copied
<1>3. CASE WriteDone
  <2>1. conf.phase = "BackupHeader" /\ pc = "write" /\ hdr' = hdr /\ pc' = "commit"
        /\ at = Length(conf.idx)
    BY <1>3 DEF WriteDone
  <2>2. at > 0
    BY <1>0, <2>1 DEF CopyTypes, IndexInv
  <2> QED
    BY <1>0, <2>1, <2>2 DEF SavesHeader, Copied
<1>4. CASE SkipSlice
  <2>1. conf.phase = "BackupHeader" /\ pc = "copy" /\ hdr' = hdr /\ pc' = "commit"
        /\ Length(conf.idx) = 0
    BY <1>4 DEF SkipSlice, HasSlice, disks
  <2>2. Length(0) = Slice
    BY <1>0, <2>1, HeaderGeometry DEF HeaderCopy
  <2>3. conf.idx > 0
    BY <1>0, <2>1, <2>2, Sizes
  <2> QED
    BY <1>0, <2>1, <2>3 DEF SavesHeader, Copied
<1>5. CASE CommitSlice
  <2>1. conf.phase = "BackupHeader" /\ pc = "commit" /\ hdr' = hdr /\ pc' = "copy"
    BY <1>0, <1>5 DEF CommitSlice, disks
  <2> QED
    BY <1>0, <2>1 DEF SavesHeader, Copied
<1>6. CASE UNCHANGED vars \/ Backup
  <2>1. conf' = conf /\ pc' = pc /\ buf' = buf /\ at' = at /\ hdr' = hdr
    BY <1>6 DEF vars, Backup, BackupOpens, BackupWrites, BackupFails, disks
  <2> QED
    BY <1>0, <2>1 DEF SavesHeader, Copied
<1>7. CASE StartItem \/ Resume \/ Phase \/ Finish \/ SourceIsGone \/ ReadFails \/ WriteFails
  <2>1. pc' \notin {"write", "commit", "copy"}
    BY <1>7 DEF StartItem, Resume, Phase, BackupHeader, ShrinkFails, EncryptDevice,
      EncryptFails, CopyData, OpenFails, RecoverHeader, GivesUp, Finish, NextPhase,
      LastCopyOver, CommitDone, ClearItem, SourceIsGone, ReadFails, WriteFails
  <2> QED
    BY <2>1
<1>8. CASE ResumeCopy
  <2>1. SkipResume \/ MemFsFails
    BY <1>0, <1>8, OnlyMainResumes DEF ResumeCopy, Refill, RefillFails, RewriteNext,
      RewriteFails, Rewritten, RemoveSaved, CopyTypes, PlaceInv, Copying
  <2>2. pc' # "copy" \/ conf'.idx = 0
    BY <1>0, <2>1 DEF SkipResume, MemFsFails, GivesUp, CopyTypes, IndexInv, HeaderCopy
  <2>3. pc' \in {"copy", "down"}
    BY <2>1 DEF SkipResume, MemFsFails, GivesUp
  <2> QED
    BY <2>2, <2>3
<1> QED
  BY <1>1, <1>2, <1>3, <1>4, <1>5, <1>6, <1>7, <1>8 DEF Next, Daemon, BeginCopy

LEMMA StillPlainStep ==
  ASSUME Once, [Next]_vars, ~Reboot PROVE StillPlain'
<1>0. CopyTypes /\ StillPlain /\ mode = "inline"
  BY DEF Once, RecoverInv
<1> SUFFICES ASSUME conf'.phase \in {"none", "BackupHeader"}, pc' # "over"
             PROVE  \A m \in 1..Size : raw'[m] = Plain(m)
  BY DEF StillPlain, Plain
<1>1. conf.phase \in {"none", "BackupHeader"}
  BY <1>0 DEF CopyTypes, PlaceInv, Next, vars, StartItem, Resume, Daemon, Phase,
    BackupHeader, ShrinkFails, EncryptDevice, EncryptFails, CopyData, OpenFails,
    RecoverHeader, ResumeCopy, MemFsFails, SkipResume, Refill, RefillFails, RewriteNext,
    RewriteFails, Rewritten, RemoveSaved, BeginCopy, SkipSlice, ReadSlice, SourceIsGone,
    ReadFails, WriteNext, WriteFails, WriteDone, CommitSlice, Finish, NextPhase,
    LastCopyOver, CommitDone, ClearItem, Backup, BackupOpens, BackupWrites, BackupFails,
    Main
<1>2. pc # "over"
  BY <1>0, <1>1 DEF CopyTypes, PlaceInv, Next, vars, StartItem, Resume, Daemon, Phase,
    BackupHeader, ShrinkFails, EncryptDevice, EncryptFails, CopyData, OpenFails,
    RecoverHeader, ResumeCopy, MemFsFails, SkipResume, Refill, RefillFails, RewriteNext,
    RewriteFails, Rewritten, RemoveSaved, BeginCopy, HasSlice, SkipSlice, ReadSlice,
    SourceIsGone, ReadFails, WriteNext, WriteFails, WriteDone, CommitSlice, Finish,
    CopyOver, NextPhase, LastCopyOver, CommitDone, ClearItem, Backup, BackupOpens,
    BackupWrites, BackupFails
<1>3. raw' = raw
  <2>1. Writing => raw' = raw
    BY <1>0, <1>1 DEF Writing, WriteNext, RewriteNext, WriteUnit, CopyTypes, PlaceInv,
      Copying, HeaderCopy
  <2>2. ~Encrypting
    BY <1>1 DEF Encrypting, EncryptDevice, EncryptFails
  <2> QED
    BY <2>1, <2>2, OthersKeepDevice
<1> QED
  BY <1>0, <1>1, <1>2, <1>3 DEF StillPlain

LEMMA HeaderSavedStep ==
  ASSUME Once, [Next]_vars, ~Reboot PROVE HeaderSaved'
<1>0. /\ CopyTypes /\ SavesHeader /\ HeaderSaved /\ mode = "inline"
      /\ conf \in [phase : Phases, idx : Nat]
  BY DEF Once, RecoverInv, CopyTypes, PlaceInv
<1>1. CASE NextPhase
  <2>1. pc = "copy" /\ conf.idx = TotalSlices /\ pc' = "phase" /\ hdr' = hdr
    BY <1>1 DEF NextPhase, CopyOver, disks
  <2>2. CASE conf.phase = "BackupHeader"
    <3>1. conf.idx > 0
      BY <2>1, <2>2 DEF TotalSlices, Main
    <3>2. hdr # NoFile /\ Copied(hdr)
      BY <1>0, <2>1, <2>2, <3>1 DEF SavesHeader, CopyTypes, HeaderInv
    <3> QED
      BY <2>1, <3>2 DEF HeaderSaved, Copied
  <2>3. CASE conf.phase # "BackupHeader"
    BY <1>0, <1>1, <2>1, <2>3 DEF NextPhase, HeaderSaved, Copied, Main
  <2> QED
    BY <2>2, <2>3
<1>2. CASE LastCopyOver
  BY <1>0, <1>2 DEF LastCopyOver, HeaderSaved
<1>3. CASE CommitDone \/ ClearItem \/ StartItem \/ BackupHeader \/ ShrinkFails
  BY <1>0, <1>3 DEF CommitDone, ClearItem, StartItem, BackupHeader, ShrinkFails, HeaderSaved
<1>4. CASE WriteNext
  BY <1>0, <1>4 DEF WriteNext, WriteUnit, HeaderSaved, Copied
<1>5. CASE RewriteNext
  BY <1>0, <1>5 DEF RewriteNext, WriteUnit, HeaderSaved, Copied, CopyTypes, PlaceInv, Copying
<1>6. CASE UNCHANGED vars \/ Backup \/ Resume \/ (Phase /\ ~BackupHeader /\ ~ShrinkFails)
           \/ (ResumeCopy /\ ~RewriteNext) \/ (BeginCopy /\ ~WriteNext)
  <2>1. hdr' = hdr
    BY <1>6 DEF vars, Backup, BackupOpens, BackupWrites, BackupFails, Resume, Phase,
      EncryptDevice, EncryptFails, CopyData, OpenFails, RecoverHeader, ResumeCopy,
      MemFsFails, SkipResume, Refill, RefillFails, RewriteFails, Rewritten, RemoveSaved,
      BeginCopy, SkipSlice, ReadSlice, SourceIsGone, ReadFails, WriteFails, WriteDone,
      CommitSlice, disks
  <2>2. conf'.phase = conf.phase \/ EncryptDevice
    BY <1>0, <1>6 DEF vars, Backup, BackupOpens, BackupWrites, BackupFails, Resume, Phase,
      EncryptFails, CopyData, OpenFails, RecoverHeader, ResumeCopy, MemFsFails,
      SkipResume, Refill, RefillFails, RewriteFails, Rewritten, RemoveSaved, BeginCopy,
      SkipSlice, ReadSlice, SourceIsGone, ReadFails, WriteFails, WriteDone, CommitSlice
  <2>3. pc' = "done" <=> pc = "done"
    BY <1>6 DEF vars, Backup, BackupOpens, BackupWrites, BackupFails, Resume, Phase,
      EncryptDevice, EncryptFails, CopyData, OpenFails, RecoverHeader, ResumeCopy,
      MemFsFails, SkipResume, Refill, RefillFails, RewriteFails, Rewritten, RemoveSaved,
      BeginCopy, HasSlice, SkipSlice, ReadSlice, SourceIsGone, ReadFails, WriteFails,
      WriteDone, CommitSlice, GivesUp
  <2>4. CASE EncryptDevice
    BY <1>0, <2>1, <2>4 DEF EncryptDevice, HeaderSaved, Copied
  <2>5. CASE conf'.phase = conf.phase
    BY <1>0, <2>1, <2>3, <2>5 DEF HeaderSaved, Copied
  <2> QED
    BY <2>2, <2>4, <2>5
<1> QED
  BY <1>1, <1>2, <1>3, <1>4, <1>5, <1>6 DEF Next, Daemon, Phase, ResumeCopy, BeginCopy,
    Finish

(* When the main copy is over, what the header does not cover is right. *)
LEMMA RecoveryStarts ==
  ASSUME Once, errors <= 1, Copying, CopyOver
  PROVE  \A m \in 1..Size : m > HeaderUnits => Right(m)
<1>1. CopyTypes /\ Budget /\ reboots = 0 /\ mode = "inline"
  BY DEF Once, DamageInv, Certain
<1>2. Lost = {}
  BY <1>1, NoLossOfOneError
<1>3. Reach = FullSlices + 1 /\ Shift = HeaderUnits
  BY <1>1, Sizes DEF Reach, CopyOver, TotalSlices, Main, Copying, Shift
<1> SUFFICES ASSUME NEW m \in 1..Size, m > HeaderUnits PROVE Right(m)
  OBVIOUS
<1>4. PICK k \in 0..FullSlices : m \in MainSlice(k)
  BY SlicesCover
<1>5. k < Reach
  BY <1>3, Sizes
<1> QED
  BY <1>2, <1>3, <1>4, <1>5 DEF Lost, Damaged

(* A unit of the saved header is written to where it belongs. *)
LEMMA RecoveryWrites ==
  ASSUME CopyTypes, conf.phase = "RecoverHeader", mode = "inline", mode' = mode,
         mapper = "open", WriteNext, Copied(buf)
  PROVE  \A m \in 1..Size : m = at + 1 \/ Right(m) => Right(m)'
<1>1. at \in Nat /\ at + 1 \in 1..Len(buf) /\ at + 1 <= Slice /\ conf.idx \in Nat
      /\ mode \in Modes
  BY UnitIsRead, Sizes DEF CopyTypes, SliceInv, PlaceInv, CountInv
<1>2. TotalSlices = 2 /\ Length(1) = 0 /\ Offset(0) = 0 /\ Slice <= Size
  BY <1>1, HeaderGeometry DEF HeaderCopy
<1>3. conf.idx = 0
  <2>1. conf.idx < 2 /\ Length(conf.idx) > 0
    BY <1>2 DEF WriteNext, CopyTypes, IndexInv
  <2> QED
    BY <1>1, <1>2, <2>1
<1>4. at + 1 + Shift \in 1..(Size + Shift) /\ Shift \in Nat /\ Shift' = Shift
  BY <1>1, <1>2, Sizes DEF Shift
<1>5. raw' = [raw EXCEPT ![at + 1 + Shift] = Encrypted(Plain(at + 1))]
  <2>1. WriteUnit(buf[at + 1], Offset(0) + at + 1) /\ buf[at + 1] = Plain(at + 1)
    BY <1>1, <1>3 DEF WriteNext, Copied
  <2>2. Offset(0) + at + 1 = at + 1
    BY <1>1, <1>2
  <2> QED
    BY <2>1, <2>2 DEF WriteUnit
<1>6. raw \in [1..(Size + Shift) -> Contents]
  BY DEF CopyTypes, SliceInv
<1>7. raw'[at + 1 + Shift] = [of |-> at + 1, form |-> "cipher"]
  BY <1>4, <1>5, <1>6, PlainIsEncrypted
<1>8. ASSUME NEW m \in 1..Size, m = at + 1 \/ Right(m) PROVE Right(m)'
  <2>1. CASE m = at + 1
    BY <1>4, <1>7, <2>1 DEF Right
  <2>2. CASE m # at + 1
    <3>1. m + Shift # at + 1 + Shift /\ m + Shift \in 1..(Size + Shift)
      BY <1>1, <1>4, <2>2, Sizes
    <3> QED
      BY <1>4, <1>5, <1>6, <1>8, <3>1 DEF Right
  <2> QED
    BY <2>1, <2>2
<1> QED
  BY <1>8

LEMMA RecoveryReads ==
  ASSUME CopyTypes, HeaderSaved, conf.phase = "RecoverHeader", mode = "inline", ReadSlice
  PROVE  Copied(buf)'
<1>1. /\ Len(buf') = Length(0) /\ conf.idx = 0
      /\ \A j \in 1..Len(buf') : buf'[j] = hdr[j]
  BY SliceIsRead DEF CopyTypes, CountInv, HeaderCopy
<1>2. Length(0) = Slice
  BY HeaderGeometry DEF HeaderCopy, CopyTypes, CountInv
<1>3. hdr # NoFile /\ Copied(hdr) /\ Len(hdr) = Slice
  <2>1. pc # "done"
    BY DEF ReadSlice, HasSlice
  <2> QED
    BY <2>1 DEF HeaderSaved, CopyTypes, HeaderInv
<1> QED
  BY <1>1, <1>2, <1>3 DEF Copied

LEMMA RightIsKept ==
  ASSUME mode' = mode, raw' = raw
  PROVE  (\A m \in 1..Size : Right(m)' = Right(m)) /\ AllRight' = AllRight
BY DEF Right, AllRight, Shift

LEMMA RecoversHeaderStep ==
  ASSUME Once, [Next]_vars, ~Reboot PROVE RecoversHeader'
<1>0. /\ CopyTypes /\ HeaderSaved /\ RecoversHeader /\ mode = "inline" /\ mode' = mode
      /\ at \in Nat /\ conf \in [phase : Phases, idx : Nat] /\ mode \in Modes
      /\ conf.phase = "RecoverHeader" => mapper = "open"
  BY ModeIsFixed, Sizes DEF Once, RecoverInv, CopyTypes, PlaceInv, SliceInv, CountInv,
    DamageInv, Certain, MapperInv
<1> SUFFICES ASSUME errors' <= 1 PROVE
      /\ conf'.phase = "RecoverHeader" =>
           /\ \A m \in 1..Size : m > HeaderUnits => Right(m)'
           /\ pc' = "write" => Copied(buf)' /\ \A m \in 1..at' : Right(m)'
           /\ pc' \in {"commit", "done"} \/ (pc' = "copy" /\ conf'.idx > 0) => AllRight'
      /\ conf'.phase = "Done" \/ pc' = "over" => AllRight'
  BY DEF RecoversHeader
<1>1. errors <= 1
  BY <1>0, ErrorsCount
<1>2. raw' = raw \/ WriteNext \/ RewriteNext \/ Encrypting
  BY OthersKeepDevice DEF Writing
<1>3. raw' = raw => (\A m \in 1..Size : Right(m)' = Right(m)) /\ AllRight' = AllRight
  BY <1>0, RightIsKept
<1>4. ASSUME conf'.phase = "RecoverHeader", conf.phase # "RecoverHeader"
      PROVE  pc' = "phase" /\ \A m \in 1..Size : m > HeaderUnits => Right(m)'
  <2>1. NextPhase /\ Main
    BY <1>0, <1>4 DEF Next, vars, StartItem, Resume, Daemon, Phase, BackupHeader,
      ShrinkFails, EncryptDevice, EncryptFails, CopyData, OpenFails, RecoverHeader,
      ResumeCopy, MemFsFails, SkipResume, Refill, RefillFails, RewriteNext, RewriteFails,
      Rewritten, RemoveSaved, BeginCopy, SkipSlice, ReadSlice, SourceIsGone, ReadFails,
      WriteNext, WriteFails, WriteDone, CommitSlice, Finish, NextPhase, LastCopyOver,
      CommitDone, ClearItem, Backup, BackupOpens, BackupWrites, BackupFails
  <2>2. Copying /\ CopyOver /\ raw' = raw /\ pc' = "phase"
    BY <2>1 DEF NextPhase, Main, Copying, disks
  <2> QED
    BY <1>1, <1>3, <2>2, RecoveryStarts
<1>5. ASSUME conf'.phase = "RecoverHeader", conf.phase = "RecoverHeader"
      PROVE  /\ \A m \in 1..Size : m > HeaderUnits => Right(m)'
             /\ pc' = "write" => Copied(buf)' /\ \A m \in 1..at' : Right(m)'
             /\ pc' \in {"commit", "done"} \/ (pc' = "copy" /\ conf'.idx > 0) => AllRight'
  <2>0. /\ \A m \in 1..Size : m > HeaderUnits => Right(m)
        /\ pc = "write" => Copied(buf) /\ \A m \in 1..at : Right(m)
        /\ pc \in {"commit", "done"} \/ (pc = "copy" /\ conf.idx > 0) => AllRight
        /\ HeaderCopy
    BY <1>0, <1>1, <1>5 DEF RecoversHeader, HeaderCopy
  <2>1. TotalSlices = 2 /\ Length(0) = Slice /\ Length(1) = 0 /\ Slice <= Size
    BY <1>0, <2>0, HeaderGeometry
  <2>2. CASE WriteNext
    <3>1. pc = "write" /\ pc' = "write" /\ at' = at + 1 /\ buf' = buf
      BY <2>2 DEF WriteNext
    <3>2. \A m \in 1..Size : m = at + 1 \/ Right(m) => Right(m)'
      BY <1>0, <1>5, <2>0, <2>2, <3>1, RecoveryWrites
    <3>3. at + 1 <= Slice
      BY <1>0, <2>2, UnitIsRead DEF CopyTypes
    <3>4. \A m \in 1..(at + 1) : m \in 1..Size /\ (m = at + 1 \/ m \in 1..at)
      BY <1>0, <2>1, <3>3, Sizes
    <3> QED
      BY <2>0, <3>1, <3>2, <3>4 DEF Copied
  <2>3. CASE ReadSlice
    <3>1. Copied(buf)' /\ pc' = "write" /\ at' = 0 /\ raw' = raw
      BY <1>0, <1>5, <2>3, RecoveryReads DEF ReadSlice, disks
    <3> QED
      BY <1>3, <2>0, <3>1
  <2>4. CASE WriteDone
    <3>1. pc = "write" /\ at = Length(conf.idx) /\ raw' = raw /\ pc' = "commit"
      BY <2>4 DEF WriteDone
    <3>2. conf.idx < 2 /\ Length(conf.idx) > 0
      BY <2>1, <3>1 DEF CopyTypes, IndexInv, Once
    <3>3. at = Slice
      <4>1. conf.idx = 0
        BY <1>0, <2>1, <3>2
      <4> QED
        BY <2>1, <3>1, <4>1
    <3>4. \A m \in 1..Size : m \in 1..at \/ m > HeaderUnits
      BY <3>3, Sizes, SliceAssumption
    <3>5. AllRight
      BY <2>0, <3>1, <3>4 DEF AllRight
    <3> QED
      BY <1>3, <2>0, <3>1, <3>5
  <2>5. CASE SkipSlice
    <3>1. pc = "copy" /\ Length(conf.idx) = 0 /\ raw' = raw /\ pc' = "commit"
      BY <2>5 DEF SkipSlice, HasSlice, disks
    <3>2. conf.idx > 0
      BY <1>0, <2>1, <3>1, Sizes
    <3> QED
      BY <1>3, <2>0, <3>1, <3>2
  <2>6. CASE LastCopyOver
    <3>1. pc = "copy" /\ conf.idx > 0 /\ raw' = raw /\ pc' = "done"
      BY <2>1, <2>6 DEF LastCopyOver, CopyOver
    <3> QED
      BY <1>3, <2>0, <3>1
  <2>7. CASE CommitSlice
    <3>1. pc = "commit" /\ raw' = raw /\ pc' = "copy"
      BY <2>7 DEF CommitSlice, disks
    <3> QED
      BY <1>3, <2>0, <3>1
  <2>8. CASE UNCHANGED vars \/ Backup
    <3>1. raw' = raw /\ pc' = pc /\ at' = at /\ buf' = buf /\ conf' = conf
      BY <2>8 DEF vars, Backup, BackupOpens, BackupWrites, BackupFails, disks
    <3>2. Copied(buf)' = Copied(buf)
      BY <3>1 DEF Copied
    <3>3. 1..at' = 1..at
      BY <3>1
    <3>4. pc = "write" => \A m \in 1..at : Right(m) /\ Right(m)' = Right(m)
      BY <1>0, <2>0, <3>1 DEF Right, Shift
    <3> QED
      BY <1>3, <2>0, <3>1, <3>2, <3>3, <3>4
  <2>9. CASE StartItem \/ Resume \/ Phase \/ NextPhase \/ CommitDone \/ ClearItem
             \/ SourceIsGone \/ ReadFails \/ WriteFails
    <3>1. pc' \notin {"write", "rewrite", "commit", "done", "copy"}
      BY <2>9 DEF StartItem, Resume, Phase, BackupHeader, ShrinkFails, EncryptDevice,
        EncryptFails, CopyData, OpenFails, RecoverHeader, GivesUp, NextPhase, CommitDone,
        ClearItem, SourceIsGone, ReadFails, WriteFails
    <3>2. raw' = raw
      <4>1. ~Writing /\ ~Encrypting
        BY <1>5, <3>1 DEF Writing, Encrypting, EncryptDevice, EncryptFails, WriteNext,
          RewriteNext
      <4> QED
        BY <4>1, OthersKeepDevice
    <3> QED
      BY <1>3, <2>0, <3>1, <3>2
  <2>10. CASE ResumeCopy
    <3>1. SkipResume \/ MemFsFails
      BY <1>0, <2>0, <2>10, HeaderGeometry, OnlyMainResumes DEF ResumeCopy, Refill,
        RefillFails, RewriteNext, RewriteFails, Rewritten, RemoveSaved, CopyTypes, PlaceInv
    <3>2. pc = "resume" /\ conf.idx = 0 /\ conf' = conf /\ raw' = raw
          /\ pc' \in {"copy", "down"}
      BY <1>0, <2>0, <3>1 DEF SkipResume, MemFsFails, GivesUp, CopyTypes, IndexInv, disks
    <3> QED
      BY <1>3, <2>0, <3>2
  <2> QED
    BY <2>2, <2>3, <2>4, <2>5, <2>6, <2>7, <2>8, <2>9, <2>10
    DEF Next, Daemon, BeginCopy, Finish
<1>6. ASSUME conf'.phase = "Done" \/ pc' = "over" PROVE AllRight'
  <2>1. CommitDone \/ ClearItem \/ conf.phase = "Done" \/ pc = "over"
    BY <1>0, <1>6 DEF Next, vars, StartItem, Resume, Daemon, Phase, BackupHeader,
      ShrinkFails, EncryptDevice, EncryptFails, CopyData, OpenFails, RecoverHeader,
      GivesUp, ResumeCopy, MemFsFails, SkipResume, Refill, RefillFails, RewriteNext,
      RewriteFails, Rewritten, RemoveSaved, BeginCopy, HasSlice, SkipSlice, ReadSlice,
      SourceIsGone, ReadFails, WriteNext, WriteFails, WriteDone, CommitSlice, Finish,
      CopyOver, NextPhase, LastCopyOver, Backup, BackupOpens, BackupWrites, BackupFails
  <2>2. CASE CommitDone
    <3>1. pc = "done" /\ raw' = raw
      BY <2>2 DEF CommitDone, disks
    <3>2. conf.phase = "RecoverHeader"
      BY <1>0, <3>1 DEF HeaderSaved
    <3> QED
      BY <1>0, <1>1, <1>3, <3>1, <3>2 DEF RecoversHeader
  <2>3. CASE conf.phase = "Done" \/ pc = "over" \/ ClearItem
    <3>1. AllRight
      BY <1>0, <1>1, <2>3 DEF RecoversHeader, ClearItem, CopyTypes, PlaceInv
    <3>2. raw' = raw
      <4>1. ~Writing /\ ~Encrypting
        BY <1>0, <2>3 DEF Writing, Encrypting, EncryptDevice, EncryptFails, WriteNext,
          RewriteNext, ClearItem, CopyTypes, PlaceInv, Copying, HeaderCopy
      <4> QED
        BY <4>1, OthersKeepDevice
    <3> QED
      BY <1>3, <3>1, <3>2
  <2> QED
    BY <2>1, <2>2, <2>3
<1> QED
  BY <1>4, <1>5, <1>6

LEMMA InitRecoverInv == Init => RecoverInv
<1> SUFFICES ASSUME Init, mode = "inline" PROVE RecoverInv
  BY DEF RecoverInv
<1>1. \A m \in 1..Size : raw[m] = Plain(m)
  BY Sizes DEF Init, Shift
<1> QED
  BY <1>1 DEF Init, RecoverInv, SavesHeader, StillPlain, HeaderSaved, RecoversHeader

LEMMA RecoverStep ==
  ASSUME CopyTypes, DamageInv, RecoverInv, [Next]_vars PROVE RecoverInv'
<1> SUFFICES ASSUME mode' = "inline", reboots' = 0
             PROVE  SavesHeader' /\ StillPlain' /\ HeaderSaved' /\ RecoversHeader'
  BY DEF RecoverInv
<1>1. mode = "inline" /\ reboots = 0 /\ ~Reboot
  <2>1. mode = "inline" /\ reboots \in Nat /\ reboots' >= reboots
    BY ModeIsFixed, ErrorsCount
  <2> QED
    BY <2>1 DEF Reboot
<1>2. Once
  BY <1>1 DEF Once
<1> QED
  BY <1>1, <1>2, SavesHeaderStep, StillPlainStep, HeaderSavedStep, RecoversHeaderStep

-----------------------------------------------------------------------------
(***************************************************************************)
(* Without a reboot one failing command never costs data: the slice it     *)
(* leaves half written is repaired from the backup slice, and the units    *)
(* the inline header took are recovered from the header slice.             *)
(***************************************************************************)
THEOREM OneErrorRepaired == Spec => []OneErrorIsRepaired
<1>1. Init => CopyTypes /\ DamageInv /\ RecoverInv
  BY InitCopyTypes, InitDamageInv, InitRecoverInv
<1>2. CopyTypes /\ DamageInv /\ RecoverInv /\ [Next]_vars =>
        (CopyTypes /\ DamageInv /\ RecoverInv)'
  BY CopyTypesStep, DamageStep, RecoverStep
<1>3. ASSUME CopyTypes, DamageInv, RecoverInv PROVE OneErrorIsRepaired
  <2> SUFFICES ASSUME reboots = 0, errors <= 1, pc = "over", NEW m \in 1..Size
               PROVE  Right(m)
    BY DEF OneErrorIsRepaired, DoneMeansEncrypted
  <2>1. CASE mode = "inline"
    BY <1>3, <2>1 DEF RecoverInv, RecoversHeader, AllRight
  <2>2. CASE mode # "inline"
    <3>1. mode = "detached" /\ conf.phase = "none"
      BY <1>3, <2>2, SliceAssumption DEF CopyTypes, CountInv, PlaceInv
    <3>2. Lost = {} /\ Reach = FullSlices + 1 /\ Shift = 0
      BY <1>3, <3>1, NoLossOfOneError
      DEF DamageInv, Certain, Reach, Copying, NotStarted, Shift
    <3>3. PICK k \in 0..FullSlices : m \in MainSlice(k)
      BY SlicesCover
    <3>4. k < Reach /\ m > Shift
      BY <3>2, Sizes
    <3> QED
      BY <3>2, <3>3, <3>4 DEF Lost, Damaged
  <2> QED
    BY <2>1, <2>2
<1> QED
  BY <1>1, <1>2, <1>3, PTL DEF Spec

-----------------------------------------------------------------------------
(***************************************************************************)
(* The copy of a volume with a detached header implements EncryptedVolume. *)
(* A step writes to the current slice, moves the index, ends the item, or  *)
(* is paid for; the budget is what lets the index move.                    *)
(***************************************************************************)
LEMMA DetachedGeometry ==
  ASSUME mode = "detached"
  PROVE  /\ Shift = 0
         /\ FilledSlices \subseteq 0..FullSlices
         /\ \A k \in FilledSlices : (Held[k] = "encrypted") <=> ~Damaged(k)
         /\ \A k \in 0..FullSlices : Damaged(k) => k \in FilledSlices
<1>1. Shift = 0 /\ \A k \in 0..FullSlices : \A m \in MainSlice(k) : m > Shift
  BY SliceInVolume DEF Shift
<1> QED
  BY <1>1 DEF FilledSlices, Held, SliceIs, Damaged

LEMMA LostIsLeftBehind == ASSUME mode = "detached" PROVE LeftBehind = Lost
BY DetachedGeometry DEF LeftBehind, Lost

LEMMA LeftBehindIsSmall == LeftBehind \in SUBSET (0..FullSlices) /\ IsFiniteSet(LeftBehind)
                           /\ Cardinality(LeftBehind) \in Nat
BY SlicesAreFinite DEF LeftBehind, FilledSlices

Credit == errors + 2 * reboots - 2 * Cardinality(LeftBehind)

LEMMA CreditCoversNeed ==
  ASSUME CopyTypes, DamageInv, mode = "detached", [Next]_vars
  PROVE  Credit \in Nat /\ Credit >= Need
<1>1. 2 * Cardinality(LeftBehind) + Need <= errors + 2 * reboots
  BY LostIsLeftBehind DEF DamageInv, Certain, Budget
<1> QED
  BY <1>1, LeftBehindIsSmall, NeedIsSmall, ErrorsCount DEF Credit

LEMMA HeldIsKept == ASSUME raw' = raw, mode' = mode PROVE Held' = Held
<1>1. Shift' = Shift
  BY DEF Shift
<1>2. \A k : SliceIs(k)' = SliceIs(k)
  BY <1>1 DEF SliceIs, Right, MainSlice, Plain
<1>3. FilledSlices' = FilledSlices
  BY DEF FilledSlices, MainSlice
<1> QED
  BY <1>2, <1>3 DEF Held

LEMMA DetachedKeepsDevice ==
  ASSUME [Next]_vars, mode = "detached", ~Writing PROVE raw' = raw
<1>1. CASE Encrypting
  BY <1>1 DEF Encrypting, EncryptDevice, EncryptFails, Formatted
<1> QED
  BY <1>1, OthersKeepDevice

(* How far the copy is, and whether it is over. *)
LEMMA ReachMoves ==
  ASSUME CopyTypes, [Next]_vars, mode = "detached"
  PROVE  \/ (CommitSlice \/ Rewritten) /\ Copying /\ Copying'
            /\ Reach' = Reach + 1 /\ Reach \in 0..FullSlices /\ (pc # "over" /\ pc' # "over")
         \/ ClearItem /\ Reach = FullSlices + 1 /\ Reach' = Reach
            /\ pc # "over" /\ pc' = "over"
         \/ Reach' = Reach /\ (pc' = "over" <=> pc = "over")
<1>0. /\ mode' = mode /\ ~HeaderCopy
      /\ conf \in [phase : Phases, idx : Nat]
      /\ conf.phase \in {"none", "EncryptDevice", "CopyData", "Done"}
  BY ModeIsFixed DEF CopyTypes, PlaceInv, HeaderCopy, Phases
<1>1. CASE CommitSlice \/ Rewritten
  <2>1. Copying /\ conf.idx <= FullSlices
    BY <1>0, <1>1, Sizes DEF CommitSlice, Rewritten, CopyTypes, PlaceInv, IndexInv,
      TotalSlices, Main, Copying
  <2> QED
    BY <1>0, <1>1, <2>1, Sizes DEF CommitSlice, Rewritten, Reach, Copying
<1>2. CASE ClearItem
  BY <1>0, <1>2, Sizes DEF ClearItem, Reach, NotStarted, Copying, CopyTypes, PlaceInv
<1>3. CASE CommitDone
  <2>1. Copying /\ conf.idx = FullSlices + 1
    BY <1>0, <1>3 DEF CommitDone, CopyTypes, PlaceInv, IndexInv, TotalSlices, Main, Copying,
      HeaderCopy
  <2> QED
    BY <1>0, <1>3, <2>1 DEF CommitDone, Reach, NotStarted, Copying
<1>4. CASE StartItem \/ EncryptDevice \/ Reboot
  BY <1>0, <1>4 DEF StartItem, EncryptDevice, Reboot, Reach, NotStarted, Copying,
    CopyTypes, PlaceInv
<1>5. CASE BackupHeader \/ ShrinkFails \/ RecoverHeader \/ NextPhase
  BY <1>0, <1>5 DEF BackupHeader, ShrinkFails, RecoverHeader, NextPhase, HeaderCopy,
    CopyTypes, PlaceInv
<1>6. CASE conf' = conf /\ ~ClearItem
  <2>1. pc' = pc \/ (pc # "over" /\ pc' # "over")
    BY <1>6 DEF Next, vars, StartItem, Resume, Daemon, Phase, BackupHeader, ShrinkFails,
      EncryptDevice, EncryptFails, CopyData, OpenFails, RecoverHeader, ResumeCopy,
      MemFsFails, SkipResume, Refill, RefillFails, RewriteNext, RewriteFails, Rewritten,
      RemoveSaved, BeginCopy, HasSlice, SkipSlice, ReadSlice, SourceIsGone, ReadFails, WriteNext,
      WriteFails, WriteDone, CommitSlice, Finish, NextPhase, CopyOver, LastCopyOver,
      CommitDone, Backup, BackupOpens, BackupWrites, BackupFails, Reboot, GivesUp
  <2> QED
    BY <1>6, <2>1 DEF Reach, NotStarted, Copying
<1>7. \/ conf' = conf \/ CommitSlice \/ Rewritten \/ ClearItem \/ CommitDone \/ StartItem
      \/ EncryptDevice \/ Reboot \/ BackupHeader \/ ShrinkFails \/ RecoverHeader \/ NextPhase
  BY DEF Next, vars, Resume, Daemon, Phase, EncryptFails, CopyData, OpenFails, ResumeCopy,
    MemFsFails, SkipResume, Refill, RefillFails, RewriteNext, RewriteFails,
    RemoveSaved, BeginCopy, SkipSlice, ReadSlice, SourceIsGone, ReadFails, WriteNext,
    WriteFails, WriteDone, Finish, LastCopyOver, Backup, BackupOpens, BackupWrites,
    BackupFails
<1> QED
  BY <1>1, <1>2, <1>3, <1>4, <1>5, <1>6, <1>7

(* One unit of the current slice is written. *)
LEMMA DetachedWrite ==
  ASSUME CopyTypes, DamageInv, Writing, [Next]_vars, mode = "detached"
  PROVE  Volume!Write
<1> DEFINE u == Start + at + 1
           f == IF pc = "write" THEN buf ELSE bak
<1>1. Copying /\ mapper = "open" /\ Shift = 0 /\ conf' = conf /\ pc' = pc /\ mode' = mode
      /\ errors' = errors /\ reboots' = reboots /\ MapperInv
  BY DetachedGeometry, ModeIsFixed DEF DamageInv, Certain, MapperInv, Writing, WriteNext,
    RewriteNext, CopyTypes, PlaceInv, HeaderCopy, Works
<1>0. PICK i \in Nat : i = conf.idx
  BY DEF CopyTypes, PlaceInv
<1>2. /\ WriteUnit(f[at + 1], Offset(i) + at + 1)
      /\ at + 1 \in 1..Len(f) /\ Len(f) = Length(i) /\ i <= FullSlices
      /\ pc \in {"write", "rewrite"}
  <2>1. CASE WriteNext
    <3>1. at + 1 \in 1..Len(buf)
      BY <2>1, UnitIsRead DEF CopyTypes
    <3>2. pc = "write" /\ Len(buf) = Length(i) /\ i <= FullSlices
      BY <1>0, <1>1, <2>1, Sizes DEF WriteNext, CopyTypes, SliceInv, PlaceInv, IndexInv,
        TotalSlices, Main, Copying
    <3> QED
      BY <1>0, <2>1, <3>1, <3>2 DEF WriteNext
  <2>2. CASE RewriteNext
    <3>1. at + 1 \in 1..Len(bak)
      BY <2>2, UnitIsRead DEF CopyTypes
    <3>2. pc = "rewrite" /\ i <= FullSlices /\ Len(bak) = SavedSize
      BY <1>0, <2>2 DEF RewriteNext, CopyTypes, IndexInv, SavedInv
    <3>3. SavedSize = Length(i)
      BY <1>0, <1>1, <3>2, CopyGeometry
    <3> QED
      BY <1>0, <2>2, <3>1, <3>2, <3>3 DEF RewriteNext
  <2> QED
    BY <2>1, <2>2 DEF Writing
<1>3. /\ at \in Nat /\ i \in 0..FullSlices /\ Start \in Nat /\ Start = Offset(i)
      /\ MainSlice(i) = (Start + 1)..(Start + Length(i)) /\ u \in MainSlice(i)
      /\ Length(i) \in Nat
  BY <1>0, <1>1, <1>2, CopyGeometry, Sizes DEF CopyTypes, SliceInv
<1>4. /\ raw'[u] = Encrypted(f[at + 1])
      /\ \A m \in 1..Size : m # u => raw'[m] = raw[m]
  <2>1. at + 1 \in 1..Length(i) /\ WriteUnit(f[at + 1], Offset(i) + (at + 1))
    BY <1>2, <1>3
  <2>2. /\ raw'[Start + (at + 1) + Shift] = Encrypted(f[at + 1])
        /\ \A m \in 1..(Size + Shift) : m # Start + (at + 1) + Shift => raw'[m] = raw[m]
    BY <1>0, <1>1, <1>2, <2>1, WriteEffect
  <2>3. u = Start + (at + 1) + Shift /\ Size + Shift = Size
    BY <1>1, <1>3, Sizes
  <2> QED
    BY <2>2, <2>3
<1> HIDE DEF u, f
<1>5. i \in FilledSlices /\ Reach = i /\ Reach' = i
  BY <1>0, <1>1, <1>3 DEF FilledSlices, Reach, Copying
<1>5a. Shift' = Shift /\ at < Slice
  BY <1>1, <1>3, WritingIsCurrent, Sizes DEF Shift, DeviceOK, CopyTypes, SliceInv,
    CountInv, PlaceInv
(* Only the current slice changes, and it is no longer plain. *)
<1>6. \A k \in FilledSlices : k # i => SliceIs(k)' = SliceIs(k)
  <2> SUFFICES ASSUME NEW k \in FilledSlices, k # i PROVE SliceIs(k)' = SliceIs(k)
    OBVIOUS
  <2>1. ASSUME NEW m \in MainSlice(k) PROVE raw'[m] = raw[m]
    <3>1. k \in Nat /\ m \in 1..Size
      BY SliceInVolume, Sizes DEF FilledSlices
    <3>2. WriteUnit(f[at + 1], Offset(conf.idx) + at + 1)
      BY <1>0, <1>2
    <3>3. k # conf.idx /\ DeviceOK
      BY <1>0, Sizes DEF DeviceOK, CopyTypes, SliceInv, CountInv, PlaceInv
    <3>4. raw'[m + Shift] = raw[m + Shift] /\ m + Shift = m
      BY <1>1, <1>5a, <3>1, <3>2, <3>3, WriteStaysInSlice
    <3> QED
      BY <3>4
  <2> QED
    BY <1>1, <1>5a, <2>1 DEF SliceIs, Right, MainSlice, Plain
<1>7. SliceIs(i)' \in {"mixed", "encrypted"}
  <2>1. raw'[u] # Plain(u)
    BY <1>4 DEF Encrypted, Plain
  <2>2. MainSlice(i)' = MainSlice(i)
    BY DEF MainSlice
  <2> QED
    BY <1>3, <2>1, <2>2 DEF SliceIs, Plain
(* It stays encrypted while the unit that is written is the volume's own.  *)
<1>8. SliceIs(i) = "encrypted" /\ SliceIs(i)' = "mixed" => Credit >= 2
  <2> SUFFICES ASSUME SliceIs(i) = "encrypted", ~(Credit >= 2)
               PROVE  SliceIs(i)' = "encrypted"
    OBVIOUS
  <2>1. Clean \/ Repairable
    <3>1. Credit \in Nat /\ Credit >= Need /\ ~(Credit >= 2)
      BY CreditCoversNeed
    <3>2. Need # 2
      BY <3>1
    <3> QED
      BY <1>1, <3>2 DEF Need
  <2>2. Holds(f)
    <3>1. ~(conf.idx > FullSlices)
      BY <1>0, <1>3, Sizes
    <3> QED
      BY <1>2, <2>1, <3>1 DEF Clean, Repairable, f
  <2>3. f[at + 1] = Plain(u)
    <3>1. Start + (at + 1) = u /\ u > 0
      BY <1>3 DEF u
    <3> QED
      BY <1>1, <1>2, <2>2, <3>1 DEF Holds
  <2>4. ASSUME NEW m \in MainSlice(i) PROVE raw'[m] = [of |-> m, form |-> "cipher"]
    <3>1. m \in 1..Size /\ m + Shift = m
      BY <1>1, <1>3, SliceInVolume
    <3>2. CASE m = u
      BY <1>4, <2>3, <3>2, PlainIsEncrypted
    <3>3. CASE m # u
      <4>1. Right(m)
        BY DEF SliceIs
      <4> QED
        BY <1>4, <3>1, <3>3, <4>1 DEF Right
    <3> QED
      BY <3>2, <3>3
  <2>5. MainSlice(i)' = MainSlice(i) /\ \A m \in MainSlice(i) : m + Shift' = m
    BY <1>1, <1>3, <1>5a, SliceInVolume DEF MainSlice
  <2> QED
    BY <2>4, <2>5 DEF SliceIs, Right
<1>9. Held' = [Held EXCEPT ![i] = SliceIs(i)']
  <2>1. FilledSlices' = FilledSlices
    BY DEF FilledSlices, MainSlice
  <2> QED
    BY <1>5, <1>6, <2>1 DEF Held
<1>10. SliceIs(i) = Held[i]
  BY <1>5 DEF Held
<1>11. Credit' = Credit
  <2>1. LeftBehind' = LeftBehind
    <3>1. \A k \in FilledSlices : k < i => Held'[k] = Held[k]
      BY <1>5a, <1>9
    <3> QED
      BY <1>5, <3>1 DEF LeftBehind, FilledSlices, MainSlice
  <2> QED
    BY <1>1, <2>1 DEF Credit
<1> QED
  BY <1>1, <1>5, <1>7, <1>8, <1>9, <1>10, <1>11 DEF Volume!Write, Credit

(* The index moves on: free for an encrypted slice, for two otherwise. *)
LEMMA CreditSpent ==
  ASSUME NEW e \in Nat, NEW r \in Nat, NEW c \in Nat, NEW e2, NEW r2, NEW c2,
         e2 = e, r2 = r, c2 = c + 1
  PROVE  e2 + 2 * r2 - 2 * c2 = (e + 2 * r - 2 * c) - 2
OBVIOUS

LEMMA DetachedCommit ==
  ASSUME CopyTypes, DamageInv, [Next]_vars, mode = "detached",
         CommitSlice \/ Rewritten, Copying, Copying', Reach' = Reach + 1,
         Reach \in 0..FullSlices, pc # "over", pc' # "over"
  PROVE  Volume!Commit \/ Volume!Lose
<1>1. errors' = errors /\ reboots' = reboots /\ Reach = conf.idx /\ raw' = raw
      /\ Reach <= FullSlices /\ (pc' = "over") = (pc = "over")
  BY Sizes DEF CommitSlice, Rewritten, Works, Reach, disks
<1>2. Held' = Held /\ FilledSlices' = FilledSlices
  BY <1>1, HeldIsKept, ModeIsFixed DEF FilledSlices, MainSlice
<1>3. LeftBehind' = IF Reach \in FilledSlices /\ Held[Reach] # "encrypted"
                    THEN LeftBehind \cup {Reach} ELSE LeftBehind
  <2>1. \A k \in FilledSlices : k < Reach' <=> k < Reach \/ k = Reach
    BY Sizes DEF FilledSlices
  <2> QED
    BY <1>2, <2>1 DEF LeftBehind
<1>4. CASE Reach \in FilledSlices => Held[Reach] = "encrypted"
  <2>1. errors' + 2 * reboots' - 2 * Cardinality(LeftBehind')
          = errors + 2 * reboots - 2 * Cardinality(LeftBehind)
    BY <1>1, <1>3, <1>4
  <2> QED
    BY <1>1, <1>2, <1>4, <2>1 DEF Volume!Commit
<1>5. CASE Reach \in FilledSlices /\ Held[Reach] # "encrypted"
  <2>1. Need = 2
    BY <1>1, <1>5, MovesWhenSettled, DetachedGeometry
  <2>2. Credit >= 2
    BY <2>1, CreditCoversNeed
  <2>3. Cardinality(LeftBehind') = Cardinality(LeftBehind) + 1
    <3>1. Reach \notin LeftBehind
      BY Sizes DEF LeftBehind
    <3> QED
      BY <1>3, <1>5, <3>1, LeftBehindIsSmall, FS_AddElement
  <2>4. errors' + 2 * reboots' - 2 * Cardinality(LeftBehind')
          = (errors + 2 * reboots - 2 * Cardinality(LeftBehind)) - 2
    BY <1>1, <2>3, LeftBehindIsSmall, ErrorsCount, CreditSpent
  <2>5. UNCHANGED <<Held, pc = "over">>
    BY <1>1, <1>2
  <2>6. Credit' = Credit - 2
    BY <2>4 DEF Credit
  <2>7. Volume!Lose
    BY <1>5, <2>2, <2>5, <2>6, Zenon DEF Volume!Lose, Credit
  <2> QED
    BY <2>7
<1> QED
  BY <1>4, <1>5

LEMMA CreditGrows ==
  ASSUME NEW e \in Nat, NEW r \in Nat, NEW e2 \in Nat, NEW r2 \in Nat, NEW c \in Nat,
         e2 >= e, r2 >= r
  PROVE  e2 + 2 * r2 - 2 * c = e + 2 * r - 2 * c \/ e2 + 2 * r2 - 2 * c > e + 2 * r - 2 * c
OBVIOUS

LEMMA VolumeStep ==
  ASSUME CopyTypes, DamageInv, [Next]_vars, mode = "detached"
  PROVE  [Volume!Next]_Volume!volume
<1>1. CASE Writing
  BY <1>1, DetachedWrite DEF Volume!Next
<1>2. CASE ~Writing
  <2>1. Held' = Held
    BY <1>2, DetachedKeepsDevice, HeldIsKept, ModeIsFixed
  <2>2. CASE (CommitSlice \/ Rewritten) /\ Copying /\ Copying' /\ Reach' = Reach + 1
             /\ Reach \in 0..FullSlices /\ pc # "over" /\ pc' # "over"
    BY <2>2, DetachedCommit DEF Volume!Next
  <2>3. CASE Reach' = Reach
    <3>1. LeftBehind' = LeftBehind
      BY <2>1, <2>3 DEF LeftBehind, FilledSlices, MainSlice
    <3>2. CASE ClearItem /\ Reach = FullSlices + 1 /\ pc # "over" /\ pc' = "over"
      BY <2>1, <2>3, <3>1, <3>2 DEF ClearItem, Works, Volume!Next, Volume!End
    <3>3. CASE pc' = "over" <=> pc = "over"
      <4>1. (pc' = "over") = (pc = "over")
        BY <3>3
      <4>2. \/ errors' + 2 * reboots' - 2 * Cardinality(LeftBehind)
                = errors + 2 * reboots - 2 * Cardinality(LeftBehind)
            \/ errors' + 2 * reboots' - 2 * Cardinality(LeftBehind)
                > errors + 2 * reboots - 2 * Cardinality(LeftBehind)
        BY ErrorsCount, LeftBehindIsSmall, CreditGrows
      <4> QED
        BY <2>1, <2>3, <3>1, <4>1, <4>2 DEF Volume!volume, Volume!Next, Volume!Pay
    <3> QED
      BY <2>3, <3>2, <3>3, ReachMoves
  <2> QED
    BY <2>2, <2>3, ReachMoves
<1> QED
  BY <1>1, <1>2

LEMMA VolumeInit == ASSUME Init, mode = "detached" PROVE Volume!Init
<1>1. Reach = 0 /\ LeftBehind = {} /\ errors = 0 /\ reboots = 0 /\ pc # "over"
  BY Sizes DEF Init, Reach, NotStarted, Copying, LeftBehind, FilledSlices
<1>2. \A k \in FilledSlices : SliceIs(k) = "plain"
  <2> SUFFICES ASSUME NEW k \in FilledSlices PROVE SliceIs(k) = "plain"
    OBVIOUS
  <2>1. \A m \in MainSlice(k) : raw[m] = Plain(m) /\ m + Shift = m
    BY DetachedGeometry, SliceInVolume, Sizes DEF Init, FilledSlices
  <2>2. \A m \in MainSlice(k) : ~Right(m)
    <3> SUFFICES ASSUME NEW m \in MainSlice(k) PROVE ~Right(m)
      OBVIOUS
    <3>1. raw[m + Shift] = raw[m] /\ raw[m] = [of |-> m, form |-> "plain"]
      BY <2>1 DEF Plain
    <3>2. [of |-> m, form |-> "plain"] # [of |-> m, form |-> "cipher"]
      OBVIOUS
    <3> QED
      BY <3>1, <3>2 DEF Right
  <2>3. MainSlice(k) # {}
    BY DEF FilledSlices
  <2> QED
    BY <2>1, <2>2, <2>3 DEF SliceIs
<1>3. errors + 2 * reboots - 2 * Cardinality(LeftBehind) = 0
  BY <1>1, FS_EmptySet
<1> QED
  BY <1>1, <1>2, <1>3 DEF Volume!Init, Held

(***************************************************************************)
(* The copy of a volume with a detached header implements EncryptedVolume: *)
(* whatever is interrupted, resumed and repaired, only the slice whose     *)
(* turn it is changes, the index moves by one, and an encrypted slice is   *)
(* encrypted again, or an unencrypted one left behind, only in exchange    *)
(* for a reboot or two failures.                                           *)
(***************************************************************************)
THEOREM CopyImplementsVolume == Spec => VolumeSpec
<1>1. Init => (mode = "detached" => Volume!Init)
  BY VolumeInit
<1>2. CopyTypes /\ DamageInv /\ [Next]_vars =>
        [mode = "detached" => Volume!Next]_Volume!volume
  BY VolumeStep
<1> QED
  BY <1>1, <1>2, DamageInvHolds, PTL DEF Spec, VolumeSpec

(* In other words: with a detached header it is an EncryptedVolume. *)
COROLLARY DetachedIsVolume == Spec /\ mode = "detached" => Volume!Spec
<1>1. mode = "detached" /\ [Next]_vars => (mode = "detached")'
  BY ModeIsFixed
<1> QED
  BY <1>1, CopyImplementsVolume, PTL DEF Spec, VolumeSpec, Volume!Spec
=============================================================================
