----------------------------- MODULE TargetSetup -----------------------------
(***************************************************************************)
(* From a profile to the byte ranges its workers may touch: validation      *)
(* (profile.rs), the safety assessment of a raw target (system.rs, called   *)
(* by run_profile_session in app.rs), and for the primary target and then   *)
(* the secondary one prepare_target, resolved_range, validate_alignment,    *)
(* the buffers and compute_offset (engine.rs).                              *)
(*                                                                          *)
(* Quantities are in units small enough to enumerate: Sector stands for 512 *)
(* bytes, MinFile for 1 MiB, MaxWord for the largest u64.                   *)
(***************************************************************************)
EXTENDS Naturals

CONSTANTS
  Targets,    \* paths a profile may name
  Devices,    \* those that are block devices
  Partitions, \* those of them whose sysfs entry has no queue of its own
  Sector,     \* the default sector size, in bytes
  MinFile,    \* the size a file gets by default
  FileLimit,  \* the largest size set_len accepts
  MaxWord,    \* the largest value of a u64
  Sizes,      \* the files and device lengths a run may find
  Sectors,    \* the logical block sizes devices may have
  MaxIndex,   \* the largest operation index considered
  Mix,        \* splitmix64 of the seed and an index
  NoSize,     \* None, of an Option<u64>
  Absent,     \* no file at that path
  Profiles    \* the profiles considered

ASSUME SetupAssumption ==
  /\ Partitions \subseteq Devices /\ Devices \subseteq Targets
  /\ Sector \in Nat \ {0} /\ MinFile \in Nat \ {0}
  /\ FileLimit \in Nat /\ MaxWord \in Nat /\ FileLimit <= MaxWord
  /\ Sizes \subseteq [Targets -> 0..MaxWord \cup {Absent}]
  /\ \A s \in Sizes : \A d \in Devices : s[d] # Absent
  /\ Sectors \subseteq Nat /\ \A s \in Sectors : s >= Sector
  /\ MaxIndex \in Nat
  /\ Mix \in [0..MaxIndex -> Nat]
  /\ NoSize \notin Nat /\ Absent \notin Nat

\* One target with its workload and addressing. Both halves of an address are
\* optional in the profile. What the code does with the path of a device depends
\* on its spelling: sysfs is asked for the last component, mountinfo for the whole
\* string. A device is named if the profile spells it /dev/<kernel name>, and not
\* named if only the last component is right (a relative path, a link elsewhere).
Part == [target : Targets, named : BOOLEAN, raw : BOOLEAN, write : BOOLEAN, create : Nat \cup {NoSize},
         mode : {"whole", "sector", "byte"},
         start : Nat \cup {NoSize}, count : Nat \cup {NoSize},
         block : Nat, direct : BOOLEAN, random : BOOLEAN]

\* A profile, with or without a secondary target.
ASSUME ProfilesAssumption ==
  \A p \in Profiles : /\ p.primary \in Part
                      /\ p.secondaries \subseteq Part
                      /\ p.confirmed \in BOOLEAN

VARIABLES
  profile,  \* the profile of the run
  size,     \* the length of every file and device
  sector,   \* the sector of every device, and of the device below every file
  mounted,  \* devices that a mounted file system lies on
  hidden,   \* those whose path no line of mountinfo has for its source
  late,     \* those mounted after the assessment
  step,     \* what run_profile_session has come to
  ranges,   \* the resolved range of each part planned so far
  assessed  \* targets that passed assess_raw_target_safety

host == <<sector, mounted, hidden, late>>
vars == <<profile, size, host, step, ranges, assessed>>

NoRange == [start |-> 0, length |-> 0, sector |-> 0]
Steps   == {"validate", "assess", "primary", "secondary", "run"}
Stopped == {"refused", "panicked"}

Larger(a, b)  == IF a >= b THEN a ELSE b
Saturate(n)   == IF n > MaxWord THEN MaxWord ELSE n
OrElse(v, d)  == IF v = NoSize THEN d ELSE v
Parts         == {profile.primary} \cup profile.secondaries
TargetsUsed   == {c.target : c \in Parts}
DevicesUsed   == Devices \cap TargetsUsed

(***************************************************************************)
(* Profile::validate.                                                       *)
(***************************************************************************)
CreatesSensibly(c) == c.create # 0 /\ (c.raw => c.create = NoSize)

\* Mutant: the block size is not looked at.
ValidAddressing(p) ==
  /\ \A c \in Parts : CreatesSensibly(c)
  /\ p.primary.mode = "sector" =>
       /\ p.primary.start # NoSize /\ p.primary.count \notin {NoSize, 0}
       /\ p.primary.start + p.primary.count <= MaxWord
  /\ p.primary.mode = "byte" =>
       p.primary.start # NoSize /\ p.primary.count \notin {NoSize, 0}

\* Only the primary's block size and addressing are looked at.
Valid(p) ==
  /\ p.primary.block > 0
  /\ \A c \in Parts : CreatesSensibly(c)
  /\ p.primary.mode = "sector" =>
       /\ p.primary.start # NoSize /\ p.primary.count \notin {NoSize, 0}
       /\ p.primary.start + p.primary.count <= MaxWord
  /\ p.primary.mode = "byte" =>
       p.primary.start # NoSize /\ p.primary.count \notin {NoSize, 0}

Validate ==
  /\ step = "validate"
  /\ step' = IF Valid(profile) THEN "assess" ELSE "refused"
  /\ UNCHANGED <<profile, size, host, ranges, assessed>>

(***************************************************************************)
(* assess_raw_target_safety. It is asked for the primary target only, and   *)
(* once. A mount hides from it that is listed by another source (/dev/root, *)
(* a mapped device, a partition of this disk), or in another namespace; all *)
(* of them do where mountinfo cannot be read.                               *)
(***************************************************************************)
\* Mutant: the mounts are not looked at.
AllowedIfConfirmed(c) ==
  /\ c.target \in Devices
  /\ c.write => profile.confirmed

Allowed(c) ==
  /\ c.target \in Devices
  /\ c.named => c.target \notin mounted \ hidden
  /\ c.write => profile.confirmed

Assess ==
  LET c == profile.primary
  IN /\ step = "assess"
     /\ IF c.raw
          THEN IF Allowed(c)
                 THEN step' = "primary" /\ assessed' = assessed \cup {c.target}
                 ELSE step' = "refused" /\ UNCHANGED assessed
          ELSE step' = "primary" /\ UNCHANGED assessed
     /\ UNCHANGED <<profile, size, host, ranges>>

\* Somebody mounts a device of the profile. What was mounted before the assessment
\* is part of the initial states.
Mount ==
  /\ step \in {"primary", "secondary", "run"}
  /\ \E t \in DevicesUsed \ mounted :
       mounted' = mounted \cup {t} /\ late' = late \cup {t}
  /\ UNCHANGED <<profile, size, sector, hidden, step, ranges, assessed>>

(***************************************************************************)
(* prepare_target: the length of the target, a file being created or grown  *)
(* on the way. A block device opened as a file has length 0 and cannot be   *)
(* given another.                                                           *)
(***************************************************************************)
RuntimeSize(c) ==
  IF c.create # NoSize THEN c.create ELSE IF c.write THEN MinFile ELSE NoSize

Creates(c)  == size[c.target] = Absent /\ RuntimeSize(c) # NoSize
Existing(c) ==
  IF Creates(c) THEN RuntimeSize(c)
  ELSE IF c.target \in Devices THEN 0 ELSE size[c.target]

\* start + sectors is a plain addition; where it overflows a debug build
\* panics and a release build wraps.
SectorEnd(c)    == OrElse(c.start, 0) + OrElse(c.count, 0)
SumOverflows(c) == ~c.raw /\ c.mode = "sector" /\ SectorEnd(c) > MaxWord

Requested(c) ==
  Larger(Existing(c),
    CASE c.mode = "whole"  -> Larger(Existing(c), MinFile)
      [] c.mode = "sector" -> Saturate((SectorEnd(c) % (MaxWord + 1)) * Sector)
      [] c.mode = "byte"   -> Saturate(OrElse(c.start, 0) + OrElse(c.count, 0)))

\* Mutant: a reader's file is grown to its range as well.
MustGrowAlways(c) == Requested(c) > Existing(c)

MustGrow(c) == (c.write \/ Creates(c)) /\ Requested(c) > Existing(c)

CanStat(c)    == size[c.target] # Absent \/ Creates(c)
CanSetLen(c)  ==
  /\ Creates(c) => RuntimeSize(c) <= FileLimit
  /\ MustGrow(c) => c.target \notin Devices /\ Requested(c) <= FileLimit

\* What the file is left with, whether or not the run goes on: a set_len that
\* fails leaves the length that came before it.
FinalSize(c) ==
  IF Creates(c) /\ RuntimeSize(c) > FileLimit THEN 0
  ELSE IF MustGrow(c) /\ CanSetLen(c) THEN Requested(c) ELSE Existing(c)

Prepared(c) == IF c.raw THEN c.target \in Devices ELSE CanStat(c) /\ CanSetLen(c)

SizesAfter(c) ==
  IF c.raw \/ c.target \in Devices \/ ~CanStat(c) THEN size
  ELSE [size EXCEPT ![c.target] = FinalSize(c)]

TargetLen(c) == IF c.raw THEN size[c.target]
                ELSE IF c.target \in Devices THEN 0 ELSE FinalSize(c)

(***************************************************************************)
(* resolved_range and validate_alignment.                                   *)
(***************************************************************************)
\* What the engine takes for the sector. For a file, and for a partition, it is
\* the default whatever lies below.
SectorSize(c) ==
  IF c.raw /\ c.target \notin Partitions THEN Larger(sector[c.target], Sector) ELSE Sector

StartOf(c) ==
  CASE c.mode = "whole"  -> 0
    [] c.mode = "sector" -> OrElse(c.start, 0) * SectorSize(c)
    [] c.mode = "byte"   -> OrElse(c.start, 0)

LengthOf(c) ==
  CASE c.mode = "whole"  -> TargetLen(c)
    [] c.mode = "sector" -> OrElse(c.count, 0) * SectorSize(c)
    [] c.mode = "byte"   -> OrElse(c.count, TargetLen(c))

Inside(c) ==
  /\ StartOf(c) <= MaxWord /\ LengthOf(c) <= MaxWord
  /\ LengthOf(c) > 0
  /\ StartOf(c) + LengthOf(c) <= TargetLen(c)

\* Mutant: direct I/O is not told apart.
AlignedToBlock(c) ==
  /\ StartOf(c) % c.block = 0
  /\ LengthOf(c) >= c.block

Aligned(c) ==
  /\ StartOf(c) % c.block = 0
  /\ LengthOf(c) >= c.block
  /\ c.direct => /\ c.block % SectorSize(c) = 0
                 /\ StartOf(c) % SectorSize(c) = 0

RangeOf(c) == [start |-> StartOf(c), length |-> LengthOf(c), sector |-> SectorSize(c)]

\* One target of the profile: prepared, resolved and checked, or the run ends.
\* The remainder by the block size comes once the range is inside the target.
Plan(c, next) ==
  /\ UNCHANGED <<profile, host, assessed>>
  /\ \/ /\ SumOverflows(c) /\ CanStat(c)
        /\ Creates(c) => RuntimeSize(c) <= FileLimit
        /\ step' = "panicked"
        /\ size' = IF Creates(c) THEN [size EXCEPT ![c.target] = Existing(c)] ELSE size
        /\ UNCHANGED ranges
     \/ /\ size' = SizesAfter(c)
        /\ \/ ~(Prepared(c) /\ Inside(c)) /\ step' = "refused" /\ UNCHANGED ranges
           \/ /\ Prepared(c) /\ Inside(c)
              /\ c.block = 0
              /\ step' = "panicked"
              /\ UNCHANGED ranges
           \/ /\ Prepared(c) /\ Inside(c)
              /\ c.block # 0 /\ ~Aligned(c)
              /\ step' = "refused"
              /\ UNCHANGED ranges
           \/ /\ Prepared(c) /\ Inside(c)
              /\ c.block # 0 /\ Aligned(c)
              /\ ranges' = [ranges EXCEPT ![c] = RangeOf(c)]
              /\ step' = next

PlanPrimary ==
  /\ step = "primary"
  /\ Plan(profile.primary, "secondary")

PlanSecondary ==
  /\ step = "secondary"
  /\ \E c \in profile.secondaries :
       ranges[c] = NoRange /\ Plan(c, "secondary")

StartRun ==
  /\ step = "secondary"
  /\ \A c \in Parts : ranges[c] # NoRange
  /\ step' = "run"
  /\ UNCHANGED <<profile, size, host, ranges, assessed>>

(***************************************************************************)
(* The workers' buffers and compute_offset.                                 *)
(***************************************************************************)
PowerOfTwo(n) == \E k \in 0..MaxWord : 2^k = n

\* posix_memalign takes powers of two only; a part whose workers do not get
\* their buffers performs no I/O.
Allocates(c) == PowerOfTwo(Larger(Larger(c.block, ranges[c].sector), Sector))

\* Mutant: a last, incomplete block is counted.
BlockCountUp(c) == (ranges[c].length + c.block - 1) \div c.block

BlockCount(c) == ranges[c].length \div c.block

Offset(c, i) ==
  ranges[c].start + ((IF c.random THEN Mix[i] ELSE i) % BlockCount(c)) * c.block

Active == IF step = "run" THEN {c \in Parts : Allocates(c)} ELSE {}

(***************************************************************************)
(* The set-up of one run. What the host does with targets the run does not  *)
(* use makes no difference to it.                                           *)
(***************************************************************************)
Init ==
  /\ profile \in Profiles
  /\ size \in Sizes
  /\ sector \in [Targets -> Sectors]
  /\ \A t \in Targets \ TargetsUsed : sector[t] = Sector
  /\ mounted \in SUBSET DevicesUsed
  /\ hidden \in SUBSET mounted
  /\ late = {}
  /\ step = "validate"
  /\ ranges = [c \in Parts |-> NoRange]
  /\ assessed = {}

Next == Validate \/ Assess \/ Mount \/ PlanPrimary \/ PlanSecondary \/ StartRun

Spec == Init /\ [][Next]_vars

TypeOK ==
  /\ profile \in Profiles
  /\ size \in [Targets -> 0..MaxWord \cup {Absent}]
  /\ sector \in [Targets -> Sectors]
  /\ mounted \subseteq Devices /\ hidden \subseteq mounted /\ late \subseteq mounted
  /\ step \in Steps \cup Stopped
  /\ ranges \in [Parts -> [start : 0..MaxWord, length : 0..MaxWord, sector : Nat]]
  /\ assessed \subseteq Devices

(***************************************************************************)
(* Properties.                                                              *)
(***************************************************************************)
\* Whatever the index, a worker reads and writes whole blocks inside the range
\* of its profile and inside its target, also after another part of the
\* profile has been prepared on the same file.
OffsetsInRange ==
  \A c \in Active : \A i \in 0..MaxIndex :
    /\ ranges[c].start <= Offset(c, i)
    /\ Offset(c, i) + c.block <= ranges[c].start + ranges[c].length
    /\ Offset(c, i) + c.block <= size[c.target]

\* The sector of its device is not what the engine takes for it: the part is a
\* file or a partition on a device with sectors above 512 bytes.
Misjudged(c) == (c.raw => c.target \in Partitions) /\ sector[c.target] > Sector

\* Direct I/O is issued at multiples of the sector of the device below, whatever unit
\* the range was given in, and a range that is given in sectors starts at that very
\* sector of the device. On files and partitions of a device with sectors above
\* 512 bytes, and only there, both are true of 512 bytes alone.
DirectIoAligned ==
  \A c \in Active :
    LET unit == IF Misjudged(c) THEN Sector ELSE sector[c.target]
    IN /\ c.direct => \A i \in 0..MaxIndex : Offset(c, i) % unit = 0
       /\ c.raw /\ c.mode = "sector" => ranges[c].start = OrElse(c.start, 0) * unit

\* The primary target of a run is a block device only through the assessment: a
\* profile that declares the device a file gets no range on it. A run that writes to
\* a device was confirmed; and if the device is mounted while the run goes on, the
\* profile spelt its path otherwise than mountinfo does, or mountinfo did not name
\* it, or it was mounted after the one assessment.
DeviceNeedsConsent ==
  LET c == profile.primary
  IN step = "run" /\ c.target \in Devices =>
       /\ c.raw
       /\ c.write => profile.confirmed
       /\ c.target \in mounted => ~ c.named \/ c.target \in hidden \/ c.target \in late

\* Validation keeps the primary's arithmetic from panicking: only a secondary
\* target, whose block size and sectors nobody validated, can.
PrimaryNeverPanics ==
  step = "panicked" =>
    \E c \in profile.secondaries : c.block = 0 \/ SectorEnd(c) > MaxWord

\* Preparing targets never shortens a file that exists, and grows one only
\* for a part of the profile that writes to it.
FilesOnlyGrow ==
  [][\A t \in Targets :
       size[t] # Absent /\ size'[t] # size[t] =>
         size'[t] > size[t] /\ \E c \in Parts : c.target = t /\ c.write]_size

(***************************************************************************)
(* What the documentation says and the code does not do.                    *)
(***************************************************************************)
\* README.md:37 "Refuse destructive raw-device writes unless the target is a
\* block device, not mounted, not the active root device, and explicitly
\* confirmed": that of the secondary targets as well.
EveryDeviceNeedsConsent ==
  step = "run" =>
    \A c \in profile.secondaries :
      c.raw /\ c.write => c.target \notin mounted /\ profile.confirmed
=============================================================================
