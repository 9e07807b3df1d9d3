------------------------- MODULE InPlaceEncryption --------------------------
(***************************************************************************)
(* In-place encryption of one data volume by the VMEncryption extension:   *)
(* the phases of encrypt_inplace_with_seperate_header_file ("detached")    *)
(* and encrypt_inplace_without_seperate_header_file ("inline") in          *)
(* src/VMEncryption/main/handle.py, and the copy of the device onto        *)
(* itself, through its device mapper, in TransactionalCopyTask.py.         *)
(*                                                                         *)
(* The device is a sequence of units, the smallest piece a reboot or a     *)
(* failing dd separates; a slice (current_block_size) is Slice of them.    *)
(* What survives a reboot: the device, the header slice file, the backup   *)
(* slice file and the ongoing item config.  What does not: the daemon, its *)
(* dd processes, the tmpfs slice file, the mapper.                         *)
(***************************************************************************)
EXTENDS Integers, Sequences, FiniteSets

CONSTANTS
  Modes,       \* a subset of {"detached", "inline"}
  Slice,       \* current_block_size, in units
  HeaderUnits, \* luks_header_size, in units
  FullSlices,  \* total_size / block_size of the main copy
  LastUnits,   \* last_slice_size of the main copy, in units
  NoFile,      \* the file does not exist
  MaxErrors,   \* bound: how many commands fail
  MaxReboots   \* bound: how often the machine reboots

ASSUME SliceAssumption ==
  /\ Modes \subseteq {"detached", "inline"}
  /\ Slice \in Nat \ {0} /\ HeaderUnits \in 1..Slice
  /\ FullSlices \in Nat /\ LastUnits \in 0..(Slice - 1)
  /\ "inline" \in Modes => FullSlices > 0
  /\ MaxErrors \in Nat /\ MaxReboots \in Nat

VARIABLES
  mode,    \* whether the distribution supports detached LUKS headers
  raw,     \* the units of the device
  hdr,     \* copy_header_slice_file
  bak,     \* copy_slice_item.bak
  conf,    \* the ongoing item config: Phase and CurrentSliceIndex
  mapper,  \* what is at /dev/mapper/<mapper_name>
  pc,      \* the daemon
  buf,     \* slice_file in tmpfs
  at,      \* units of the current slice already at their destination
  bk,      \* backup_process: dd from slice_file to the backup slice file
  errors, reboots

vars == <<mode, raw, hdr, bak, conf, mapper, pc, buf, at, bk, errors, reboots>>

Size == FullSlices * Slice + LastUnits

(* The inline header moves the data: unit m of the mapper is m + Shift. *)
Shift == IF mode = "inline" THEN HeaderUnits ELSE 0

(***************************************************************************)
(* A unit: whose data it holds, and whether it is as it was, encrypted     *)
(* once, or neither (encrypted again, or overwritten by the LUKS header).  *)
(***************************************************************************)
Units    == 1..(Size + HeaderUnits)
Contents == [of : Units, form : {"plain", "cipher", "spoiled"}]

(* That a file does not exist is not one of the contents it may have. *)
ASSUME NoFileAssumption == NoFile \notin Seq(Contents)

Plain(i) == [of |-> i, form |-> "plain"]

Encrypted(c) ==
  [c EXCEPT !.form = IF c.form = "plain" THEN "cipher" ELSE "spoiled"]

Phases == {"none", "BackupHeader", "EncryptDevice", "CopyData",
           "RecoverHeader", "Done"}

Pcs == {"down", "phase", "resume", "rewrite", "remove", "copy", "write",
        "commit", "done", "clear", "over"}

Init ==
  /\ mode \in Modes
  /\ raw = [i \in 1..(Size + Shift) |-> Plain(i)]
  /\ hdr = NoFile
  /\ bak = NoFile
  /\ conf = [phase |-> "none", idx |-> 0]
  /\ mapper = "closed"
  /\ pc = "down"
  /\ buf = <<>>
  /\ at = 0
  /\ bk = "off"
  /\ errors = 0
  /\ reboots = 0

-----------------------------------------------------------------------------
(***************************************************************************)
(* The geometry of a copy.  The main copy goes from the end of the device  *)
(* (from_end), so its shorter last slice has index 0; the copies of the    *)
(* header go forward, are one slice long, and their last slice is empty.   *)
(***************************************************************************)
Main == conf.phase = "CopyData"

TotalSlices == IF Main THEN FullSlices + 1 ELSE 2

LastSize == IF Main THEN LastUnits ELSE 0

IsLast(k) == k = IF Main THEN 0 ELSE TotalSlices - 1

Length(k) == IF IsLast(k) THEN LastSize ELSE Slice

(* Mutant: from_end is not looked at. *)
MutSkipBlockForward(k) == k

SkipBlock(k) == IF Main THEN TotalSlices - k - 1 ELSE k

Offset(k) == Slice * SkipBlock(k)

(* dd if=source of=... skip=from count=n *)
ReadUnits(from, n) ==
  SubSeq(IF conf.phase = "RecoverHeader" THEN hdr ELSE raw, from + 1, from + n)

(***************************************************************************)
(* One unit of dd of=destination.  Without a device mapper at its path the *)
(* destination becomes a plain file there.                                 *)
(***************************************************************************)
WriteUnit(c, m) ==
  IF conf.phase = "BackupHeader"
  THEN /\ hdr' = IF hdr = NoFile THEN <<c>> ELSE Append(hdr, c)
       /\ UNCHANGED <<raw, mapper>>
  ELSE IF mapper = "open"
  THEN /\ raw' = [raw EXCEPT ![m + Shift] = Encrypted(c)]
       /\ UNCHANGED <<hdr, mapper>>
  ELSE /\ mapper' = "file"
       /\ UNCHANGED <<raw, hdr>>

(* A command fails: the error is counted. *)
Fails == /\ errors < MaxErrors
         /\ errors' = errors + 1
         /\ UNCHANGED reboots

Works == UNCHANGED <<errors, reboots>>

disks == <<mode, raw, hdr, bak, mapper>>
copy  == <<buf, at, bk>>

-----------------------------------------------------------------------------
(* daemon_encrypt_data_volumes: no ongoing item, the volume is the next. *)
StartItem ==
  /\ pc = "down" /\ conf.phase = "none" /\ bk = "off"
  /\ conf' = [phase |-> IF mode = "inline" THEN "BackupHeader"
                                           ELSE "EncryptDevice",
              idx   |-> 0]
  /\ pc' = "phase"
  /\ UNCHANGED <<disks, copy>> /\ Works

(* ... or there is one: the phase's function is called to resume it.  Called *)
(* with phase Done it returns None, the daemon raises and nothing changes.   *)
(* The daemon has waited two minutes: the old backup_process has ended.      *)
Resume ==
  /\ pc = "down" /\ conf.phase \notin {"none", "Done"} /\ bk = "off"
  /\ pc' = "phase"
  /\ buf' = <<>>
  /\ UNCHANGED <<disks, conf, at, bk>> /\ Works

(* The daemon raises, or returns the phase it could not leave. *)
GivesUp == pc' = "down" /\ at' = 0

(* check_shrink_fs succeeds; the stale header slice file is removed. *)
BackupHeader ==
  /\ pc = "phase" /\ conf.phase = "BackupHeader"
  /\ conf' = [conf EXCEPT !.idx = 0]
  /\ hdr' = NoFile
  /\ pc' = "resume"
  /\ UNCHANGED <<mode, raw, bak, mapper, copy>> /\ Works

(* ... fails: the ongoing item is cleared. *)
ShrinkFails ==
  /\ pc = "phase" /\ conf.phase = "BackupHeader"
  /\ conf' = [phase |-> "none", idx |-> 0]
  /\ pc' = "down"
  /\ UNCHANGED <<disks, copy>> /\ Fails

(* luksFormat: an inline header overwrites the beginning of the device. *)
Formatted ==
  IF mode = "inline"
  THEN [i \in DOMAIN raw |-> IF i <= HeaderUnits
                              THEN [raw[i] EXCEPT !.form = "spoiled"]
                              ELSE raw[i]]
  ELSE raw

(* encrypt_disk: luksFormat and luksOpen, then the phase is committed. *)
EncryptDevice ==
  /\ pc = "phase" /\ conf.phase = "EncryptDevice"
  /\ raw' = Formatted
  /\ mapper' = "open"
  /\ conf' = [phase |-> "CopyData", idx |-> 0]
  /\ UNCHANGED <<mode, hdr, bak, pc, copy>> /\ Works

(* luksFormat fails, or luksOpen after it. *)
EncryptFails ==
  /\ pc = "phase" /\ conf.phase = "EncryptDevice"
  /\ raw' \in {raw, Formatted}
  /\ GivesUp
  /\ UNCHANGED <<mode, hdr, bak, mapper, conf, buf, bk>> /\ Fails

(* Mutant: a resumed main copy starts from the first slice. *)
MutCopyDataFromStart ==
  /\ pc = "phase" /\ conf.phase = "CopyData"
  /\ mapper' = IF mode = "detached" /\ mapper = "closed" THEN "open" ELSE mapper
  /\ conf' = [conf EXCEPT !.idx = 0]
  /\ pc' = "resume"
  /\ UNCHANGED <<mode, raw, hdr, bak, copy>> /\ Works

(* The main copy; only the detached mode opens a mapper that is not there. *)
CopyData ==
  /\ pc = "phase" /\ conf.phase = "CopyData"
  /\ mapper' = IF mode = "detached" /\ mapper = "closed" THEN "open" ELSE mapper
  /\ pc' = "resume"
  /\ UNCHANGED <<mode, raw, hdr, bak, conf, copy>> /\ Works

OpenFails ==
  /\ pc = "phase" /\ conf.phase = "CopyData"
  /\ mode = "detached" /\ mapper = "closed"
  /\ GivesUp
  /\ UNCHANGED <<disks, conf, buf, bk>> /\ Fails

RecoverHeader ==
  /\ pc = "phase" /\ conf.phase = "RecoverHeader"
  /\ conf' = [conf EXCEPT !.idx = 0]
  /\ pc' = "resume"
  /\ UNCHANGED <<disks, copy>> /\ Works

-----------------------------------------------------------------------------
(***************************************************************************)
(* resume_copy: a backup slice file left behind is completed from the      *)
(* source and copied to the current slice.  Its return code is dropped.    *)
(***************************************************************************)
SavedSize == IF conf.idx = 0 THEN LastSize ELSE Slice

(* There is a saved slice, not larger than the slice it goes to, and dd     *)
(* does not refuse the offset (all slices done: seek=-1).                  *)
Resumable ==
  /\ bak # NoFile
  /\ conf.idx = 0 => LastSize > 0
  /\ Len(bak) <= SavedSize
  /\ SkipBlock(conf.idx) >= 0

(* prepare_mem_fs, before it, fails. *)
MemFsFails ==
  /\ pc = "resume"
  /\ GivesUp
  /\ UNCHANGED <<disks, conf, buf, bk>> /\ Fails

SkipResume ==
  /\ pc = "resume" /\ ~Resumable
  /\ pc' = "copy"
  /\ UNCHANGED <<disks, conf, copy>> /\ Works

(* The first n of the units missing from the backup slice file. *)
Refilled(n) == bak \o ReadUnits(Offset(conf.idx) + Len(bak), n)

Refill ==
  /\ pc = "resume" /\ Resumable
  /\ bak' = Refilled(SavedSize - Len(bak))
  /\ pc' = "rewrite"
  /\ UNCHANGED <<mode, raw, hdr, mapper, conf, copy>> /\ Works

RefillFails ==
  /\ pc = "resume" /\ Resumable
  /\ \E n \in 0..(SavedSize - Len(bak) - 1) : bak' = Refilled(n)
  /\ pc' = "copy"
  /\ UNCHANGED <<mode, raw, hdr, mapper, conf, copy>> /\ Fails

RewriteNext ==
  /\ pc = "rewrite" /\ at < SavedSize
  /\ WriteUnit(bak[at + 1], Offset(conf.idx) + at + 1)
  /\ at' = at + 1
  /\ UNCHANGED <<mode, bak, conf, pc, buf, bk>> /\ Works

RewriteFails ==
  /\ pc = "rewrite" /\ at < SavedSize
  /\ at' = 0
  /\ pc' = "copy"
  /\ UNCHANGED <<disks, conf, buf, bk>> /\ Fails

(* Mutant: the repaired slice is not counted. *)
MutRewrittenNotCounted ==
  /\ pc = "rewrite" /\ at = SavedSize
  /\ at' = 0
  /\ pc' = "remove"
  /\ UNCHANGED <<disks, conf, buf, bk>> /\ Works

(* First the next index is committed ... *)
Rewritten ==
  /\ pc = "rewrite" /\ at = SavedSize
  /\ conf' = [conf EXCEPT !.idx = @ + 1]
  /\ at' = 0
  /\ pc' = "remove"
  /\ UNCHANGED <<disks, buf, bk>> /\ Works

(* ... then the backup slice file is removed. *)
RemoveSaved ==
  /\ pc = "remove"
  /\ bak' = NoFile
  /\ pc' = "copy"
  /\ UNCHANGED <<mode, raw, hdr, mapper, conf, copy>> /\ Works

-----------------------------------------------------------------------------
(***************************************************************************)
(* begin_copy and copy_internal: source to slice_file, then slice_file to  *)
(* the destination while backup_process copies it to the backup file.      *)
(***************************************************************************)
HasSlice == pc = "copy" /\ conf.idx < TotalSlices

(* Mutant: the loop goes on before the index is advanced. *)
MutSkipSliceContinue ==
  /\ HasSlice /\ Length(conf.idx) = 0
  /\ UNCHANGED <<disks, conf, pc, copy>> /\ Works

SkipSlice ==
  /\ HasSlice /\ Length(conf.idx) = 0
  /\ pc' = "commit"
  /\ UNCHANGED <<disks, conf, copy>> /\ Works

SourceExists == conf.phase = "RecoverHeader" => hdr # NoFile

ReadSlice ==
  /\ HasSlice /\ Length(conf.idx) > 0 /\ SourceExists
  /\ buf' = ReadUnits(Offset(conf.idx), Length(conf.idx))
  /\ at' = 0
  /\ bk' = "new"
  /\ pc' = "write"
  /\ UNCHANGED <<disks, conf>> /\ Works

(* After a reboot between the removal of the header slice file and the     *)
(* commit of Done there is nothing left to read.                           *)
SourceIsGone ==
  /\ HasSlice /\ Length(conf.idx) > 0 /\ ~SourceExists
  /\ GivesUp
  /\ UNCHANGED <<disks, conf, buf, bk>> /\ Works

ReadFails ==
  /\ HasSlice /\ Length(conf.idx) > 0 /\ SourceExists
  /\ GivesUp
  /\ UNCHANGED <<disks, conf, buf, bk>> /\ Fails

(* backup_process truncates the file, then writes it unit by unit. *)
BackupOpens ==
  /\ bk = "new"
  /\ bak' = <<>>
  /\ bk' = "on"
  /\ UNCHANGED <<mode, raw, hdr, mapper, conf, pc, buf, at>> /\ Works

BackupWrites ==
  /\ bk = "on"
  /\ bak' = Append(bak, buf[Len(bak) + 1])
  /\ bk' = IF Len(bak) + 1 = Len(buf) THEN "off" ELSE bk
  /\ UNCHANGED <<mode, raw, hdr, mapper, conf, pc, buf, at>> /\ Works

(* Nobody looks at its exit status. *)
BackupFails ==
  /\ bk # "off"
  /\ bk' = "off"
  /\ UNCHANGED <<disks, conf, pc, buf, at>> /\ Fails

WriteNext ==
  /\ pc = "write" /\ at < Length(conf.idx)
  /\ WriteUnit(buf[at + 1], Offset(conf.idx) + at + 1)
  /\ at' = at + 1
  /\ UNCHANGED <<mode, bak, conf, pc, buf, bk>> /\ Works

(* Mutant: the backup slice is cleaned up after a failure, too. *)
MutWriteFailsCleansUp ==
  /\ pc = "write" /\ at < Length(conf.idx)
  /\ GivesUp
  /\ bk' = "off"
  /\ bak' = NoFile
  /\ UNCHANGED <<mode, raw, hdr, mapper, conf, buf>> /\ Fails

(* The daemon fails; backup_process goes on. *)
WriteFails ==
  /\ pc = "write" /\ at < Length(conf.idx)
  /\ GivesUp
  /\ UNCHANGED <<disks, conf, buf, bk>> /\ Fails

(* backup_process is killed and its file removed. *)
WriteDone ==
  /\ pc = "write" /\ at = Length(conf.idx)
  /\ bk' = "off"
  /\ bak' = NoFile
  /\ buf' = <<>>
  /\ at' = 0
  /\ pc' = "commit"
  /\ UNCHANGED <<mode, raw, hdr, mapper, conf>> /\ Works

(* Mutant: the index is advanced twice. *)
MutCommitSliceTwice ==
  /\ pc = "commit"
  /\ conf' = [conf EXCEPT !.idx = @ + 2]
  /\ pc' = "copy"
  /\ UNCHANGED <<disks, copy>> /\ Works

CommitSlice ==
  /\ pc = "commit"
  /\ conf' = [conf EXCEPT !.idx = @ + 1]
  /\ pc' = "copy"
  /\ UNCHANGED <<disks, copy>> /\ Works

CopyOver == pc = "copy" /\ conf.idx = TotalSlices

(* The copy of the header, or the main copy of an inline header, is over. *)
NextPhase ==
  /\ CopyOver
  /\ \/ /\ conf.phase = "BackupHeader"
        /\ conf' = [phase |-> "EncryptDevice", idx |-> 0]
     \/ /\ Main /\ mode = "inline"
        /\ conf' = [conf EXCEPT !.phase = "RecoverHeader"]
  /\ pc' = "phase"
  /\ UNCHANGED <<disks, copy>> /\ Works

(* The last copy is over: the crypt item is registered (not modelled), the *)
(* header slice file removed, the phase committed, the item archived.      *)
LastCopyOver ==
  /\ CopyOver
  /\ \/ conf.phase = "RecoverHeader"
     \/ Main /\ mode = "detached"
  /\ hdr' = NoFile
  /\ pc' = "done"
  /\ UNCHANGED <<mode, raw, bak, mapper, conf, copy>> /\ Works

CommitDone ==
  /\ pc = "done"
  /\ conf' = [conf EXCEPT !.phase = "Done"]
  /\ pc' = "clear"
  /\ UNCHANGED <<disks, copy>> /\ Works

ClearItem ==
  /\ pc = "clear"
  /\ conf' = [phase |-> "none", idx |-> 0]
  /\ pc' = "over"
  /\ UNCHANGED <<disks, copy>> /\ Works

(* The machine reboots. *)
Reboot ==
  /\ pc # "over" /\ reboots < MaxReboots
  /\ reboots' = reboots + 1
  /\ pc' = "down"
  /\ bk' = "off"
  /\ buf' = <<>>
  /\ at' = 0
  /\ mapper' = "closed"
  /\ UNCHANGED <<mode, raw, hdr, bak, conf, errors>>

-----------------------------------------------------------------------------
Phase ==
  \/ BackupHeader \/ ShrinkFails \/ EncryptDevice \/ EncryptFails
  \/ CopyData \/ OpenFails \/ RecoverHeader

ResumeCopy ==
  \/ MemFsFails \/ SkipResume \/ Refill \/ RefillFails
  \/ RewriteNext \/ RewriteFails \/ Rewritten \/ RemoveSaved

BeginCopy ==
  \/ SkipSlice \/ ReadSlice \/ SourceIsGone \/ ReadFails
  \/ WriteNext \/ WriteFails \/ WriteDone \/ CommitSlice

Finish == NextPhase \/ LastCopyOver \/ CommitDone \/ ClearItem

Daemon == Phase \/ ResumeCopy \/ BeginCopy \/ Finish

Backup == BackupOpens \/ BackupWrites \/ BackupFails

Next == StartItem \/ Resume \/ Daemon \/ Backup \/ Reboot

Spec == Init /\ [][Next]_vars

(* A running daemon goes on (a blocked dd is not modelled), and so does a  *)
(* running backup_process.  Nothing promises that anybody starts a daemon. *)
LiveSpec == Spec /\ WF_vars(Daemon) /\ WF_vars(Backup)

-----------------------------------------------------------------------------
TypeOK ==
  /\ mode \in Modes
  /\ raw \in [1..(Size + Shift) -> Contents]
  /\ hdr # NoFile => hdr \in Seq(Contents) /\ Len(hdr) <= Slice
  /\ bak # NoFile => bak \in Seq(Contents) /\ Len(bak) <= Slice
  /\ conf \in [phase : Phases, idx : 0..(FullSlices + 1) \cup {1, 2}]
  /\ mapper \in {"closed", "open", "file"}
  /\ pc \in Pcs
  /\ buf \in Seq(Contents) /\ Len(buf) <= Slice
  /\ at \in 0..Slice
  /\ bk \in {"off", "new", "on"}
  /\ errors \in 0..MaxErrors /\ reboots \in 0..MaxReboots

(* The units of the mapper in slice k of the main copy. *)
MainSlice(k) ==
  LET first == Slice * (FullSlices - k) IN
  (first + 1)..(first + IF k = 0 THEN LastUnits ELSE Slice)

Right(m) == raw[m + Shift] = [of |-> m, form |-> "cipher"]

(* The main copy has started. *)
Copying == conf.phase = "CopyData"

(***************************************************************************)
(* Safety.  When the item ends, the volume is the data it had, encrypted   *)
(* once.  That the daemon may be stopped is what it keeps its config and   *)
(* its backup slice for (handle.py:1746, "Resuming encryption after        *)
(* reboot" at 1757).                                                       *)
(***************************************************************************)
DoneMeansEncrypted == pc = "over" => \A m \in 1..Size : Right(m)

(***************************************************************************)
(* Safety.  Without a reboot one failing command never costs data: the     *)
(* backup slice, which a failed daemon's backup_process still completes,   *)
(* repairs a slice that was partly overwritten.                            *)
(***************************************************************************)
OneErrorIsRepaired == reboots = 0 /\ errors <= 1 => DoneMeansEncrypted

(***************************************************************************)
(* Safety.  With a detached header a reboot costs at most one slice of the *)
(* volume, and so do two failing commands (the copy and its repair).       *)
(***************************************************************************)
DamageIsBounded ==
  pc = "over" /\ mode = "detached" =>
    2 * Cardinality({k \in 0..FullSlices : \E m \in MainSlice(k) : ~Right(m)})
      <= errors + 2 * reboots

(***************************************************************************)
(* Safety.  The slices after the current one still are what they were, so  *)
(* that the copy is resumed on data nobody has touched (an inline copy     *)
(* spoils the beginning of the device before it starts).                   *)
(***************************************************************************)
AheadIsUntouched ==
  Copying /\ mode = "detached" =>
    \A k \in (conf.idx + 1)..FullSlices :
      \A m \in MainSlice(k) : raw[m] = Plain(m)

(***************************************************************************)
(* Action property.  A slice before the committed index is never written   *)
(* again by the main copy, whatever is resumed, and the index stays ahead. *)
(***************************************************************************)
CommittedStays ==
  Copying =>
    /\ \A k \in 0..(conf.idx - 1) :
         \A m \in MainSlice(k) \cap 1..Size : raw'[m + Shift] = raw[m + Shift]
    /\ Copying' => conf'.idx >= conf.idx

CommittedIsSettled == [][CommittedStays]_vars

(***************************************************************************)
(* Refinement.  With a detached header the copy implements EncryptedVolume *)
(* by what the device holds and by how far the config says it is; an       *)
(* inline header promises less (its mapper is lost in a reboot).           *)
(***************************************************************************)
SliceIs(k) ==
  IF \A m \in MainSlice(k) : Right(m) THEN "encrypted"
  ELSE IF \A m \in MainSlice(k) : raw[m] = Plain(m) THEN "plain" ELSE "mixed"

NotStarted ==
  conf.phase \in {"none", "BackupHeader", "EncryptDevice"} /\ pc # "over"

Reach == IF Copying THEN conf.idx ELSE IF NotStarted THEN 0 ELSE FullSlices + 1

FilledSlices == {k \in 0..FullSlices : MainSlice(k) # {}}

Held == [k \in FilledSlices |-> SliceIs(k)]

LeftBehind == {k \in FilledSlices : k < Reach /\ Held[k] # "encrypted"}

Volume == INSTANCE EncryptedVolume WITH
  Last <- FullSlices, Slices <- FilledSlices, slice <- Held, next <- Reach,
  credit <- errors + 2 * reboots - 2 * Cardinality(LeftBehind),
  over <- pc = "over"

VolumeSpec ==
  /\ mode = "detached" => Volume!Init
  /\ [][mode = "detached" => Volume!Next]_Volume!volume

(***************************************************************************)
(* Liveness.  A daemon that works on an item stops: done, given up, or     *)
(* rebooted.                                                               *)
(***************************************************************************)
RunEnds == pc \notin {"down", "over"} ~> pc \in {"down", "over"}
=============================================================================
