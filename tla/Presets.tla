------------------------------- MODULE Presets -------------------------------
(***************************************************************************)
(* The profiles behind the quick presets: resolve_preset (presets.rs) with  *)
(* the device and sector that quick_presets_flow asks for, and the          *)
(* concurrent partition stress, whose profile app.rs builds from answers    *)
(* of its own. What becomes of such a profile is TargetSetup.               *)
(*                                                                          *)
(* list_devices tells the sector of every device, that of a partition from  *)
(* its disk; the engine looks for one of the partition and finds none.      *)
(***************************************************************************)
EXTENDS TargetSetup

CONSTANTS
  Samples,      \* the files in samples_dir that presets use
  Boots,        \* the boot partitions, which have a queue of their own
  SampleSize,   \* 1 GiB, or 512 MiB
  BlockDefault, \* 4096 bytes
  WriteSizes,   \* "Write file size", in bytes
  DataCaps      \* "Data cap", in bytes

ASSUME PresetAssumption ==
  /\ Samples \subseteq Targets \ Devices
  /\ Boots \subseteq Devices \ Partitions
  /\ {SampleSize, BlockDefault} \cup WriteSizes \cup DataCaps \subseteq Nat \ {0}
  \* The kernel's sectors are powers of two from 512 bytes on, as is the block.
  /\ BlockDefault >= Sector
  /\ \A a, b \in Sectors \cup {Sector, BlockDefault} : a <= b => b % a = 0

Shaped(t, raw, write, block, random) ==
  [target |-> t, named |-> TRUE, raw |-> raw, create |-> IF raw THEN NoSize ELSE SampleSize,
   write |-> write, mode |-> "whole", start |-> NoSize, count |-> NoSize,
   block |-> block, direct |-> raw, random |-> random]

\* Mutant: every device has sectors of 512 bytes.
SectorAssumed(told) == Sector

\* What the host told, 512 at least.
DeviceSector(told) == Larger(told, Sector)

(***************************************************************************)
(* resolve_preset and apply_preset_shape. A mixed workload writes.          *)
(***************************************************************************)
\* Random access to a sample file; it is created if it is missing.
FilePresets ==
  {Shaped(t, FALSE, w, BlockDefault, TRUE) : t \in Samples, w \in BOOLEAN}

\* Sequential, on a whole partition or disk, a sector at a time.
SequentialPresets(t, told) ==
  {Shaped(t, TRUE, w, DeviceSector(told), FALSE) : w \in BOOLEAN}

\* Random, on a whole partition.
RandomPresets(t, told) ==
  {Shaped(t, TRUE, w, Larger(BlockDefault, DeviceSector(told)), TRUE) : w \in BOOLEAN}

\* The sectors the prompt accepts.
SectorChoices(n, told) == 0..(IF n \div told > 0 THEN n \div told - 1 ELSE 0)

\* The part c on k sectors from s on.
OnSectors(c, s, k) == [c EXCEPT !.mode = "sector", !.start = s, !.count = k]

SectorShapes(t, told) == {Shaped(t, TRUE, w, DeviceSector(told), TRUE) : w \in BOOLEAN}

\* A million operations on one sector of a disk.
SectorPresets(t, told, n) ==
  {OnSectors(c, s, 1) : c \in SectorShapes(t, told), s \in SectorChoices(n, told)}

Unconfirmed(c) == [primary |-> c, secondaries |-> {}, confirmed |-> FALSE]

\* The presets on device t of n bytes, for what was told of its sectors.
BlockPresets(t, told, n) ==
  IF t \in Partitions
    THEN SequentialPresets(t, told) \cup RandomPresets(t, told)
    ELSE SequentialPresets(t, told) \cup SectorPresets(t, told, n)

(***************************************************************************)
(* concurrent_partition_stress_flow.                                        *)
(***************************************************************************)
BootSectors(n, told) == Larger(n \div DeviceSector(told), 1)

\* Sectors from one to another: all of them, a half, or as they are entered.
ReadRegions(k) == {r \in (0..(k - 1)) \X (1..k) : r[1] + r[2] <= k}

WriteRange(n, block, cap) == Larger(IF n < cap THEN n ELSE cap, block)

\* Writes to an unmounted partition, as it was then, beside reads of a boot
\* partition. It is confirmed by "Proceed?".
StressProfile(t, n, boot, told, region, block, cap) ==
  [primary |->
     [Shaped(t, TRUE, TRUE, block, FALSE)
        EXCEPT !.mode = "byte", !.start = 0, !.count = WriteRange(n, block, cap)],
   secondaries |->
     {OnSectors(Shaped(boot, TRUE, FALSE, DeviceSector(told), FALSE), region[1], region[2])},
   confirmed |-> TRUE]

StressPresets(told, n) ==
  UNION {{StressProfile(t, n[t], boot, told[boot], r, block, cap) :
            t \in Partitions, r \in ReadRegions(BootSectors(n[boot], told[boot])),
            block \in WriteSizes, cap \in DataCaps} : boot \in Boots}

(***************************************************************************)
(* All presets of a host, for what it tells of sectors and lengths.         *)
(***************************************************************************)
PresetsOf(told, n) ==
  {Unconfirmed(c) : c \in FilePresets \cup UNION {BlockPresets(t, told[t], n[t]) : t \in Devices}}
    \cup StressPresets(told, n)

AllPresets == UNION {PresetsOf(told, n) : told \in [Devices -> Sectors], n \in Sizes}

(***************************************************************************)
(* Properties.                                                              *)
(***************************************************************************)
\* A reason to refuse the run that the operator can see: the device is mounted or
\* the write is not confirmed, a target is smaller than one block, the block that
\* was entered is no whole number of sectors, or the file system has no room.
Obstacle ==
  LET c == profile.primary
  IN \/ c.raw /\ (c.target \in mounted \/ (c.write /\ ~ profile.confirmed))
     \/ \E part \in Parts : size[part.target] # Absent /\ size[part.target] < part.block
     \/ c.mode = "byte" /\ c.block % SectorSize(c) # 0
     \/ ~ c.raw /\ Larger(SampleSize, MinFile) > FileLimit

\* A preset made from what the host tells of its devices passes through validation,
\* assessment and preparation without a panic and is refused for a reason the operator
\* can see only. When it runs, a range in sectors starts at the sector that was chosen,
\* and exactly those parts do I/O whose block is a power of two: a part with any other
\* block, 200 KiB say, goes through all the checks and its workers get no buffers.
PresetsReachTheirRange ==
  step \in Stopped \cup {"run"} /\ profile \in PresetsOf(sector, size) =>
    /\ step # "panicked"
    /\ step = "refused" => Obstacle
    /\ step = "run" => \A c \in Parts :
         /\ c \in Active <=> PowerOfTwo(c.block)
         /\ c.mode = "sector" => ranges[c].start = c.start * sector[c.target]
=============================================================================
