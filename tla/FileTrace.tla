------------------------------ MODULE FileTrace ------------------------------
(***************************************************************************)
(* The lba-trace command: the files it is given are mapped to the disk one  *)
(* by one (filemap.rs), their extents make an index of owned sectors, and   *)
(* every traced sector is looked up in it (lba_trace.rs). Meanwhile the     *)
(* file system may move the files about.                                    *)
(*                                                                          *)
(* A file is a sequence of blocks: the number of the block of the partition *)
(* that holds each, Hole, or Delayed when none has been chosen yet.         *)
(* Offsets and lengths are counted in sectors of 512 bytes.                 *)
(***************************************************************************)
EXTENDS Naturals, Sequences, SequencesExt, FiniteSets, FiniteSetsExt

CONSTANTS
  MapFiles,     \* the files to map, in the order they are given
  Partitions,   \* the partitions, and whole disks, that are mounted
  DiskOf,       \* the disk of each
  StartOf512,   \* where it starts on its disk, from sysfs: in 512-byte units
  UnitOf,       \* its logical sector, in 512-byte units
  Traced,       \* the traced disk
  MountTables,  \* mount tables: sequences of a directory and a partition
  PathOf,       \* the path of each file, a sequence of names
  Layouts,      \* where the blocks of the files may be
  BlockSectors, \* sectors of a block of the file system
  FileSectors,  \* the length of each file
  Batch,        \* FIEMAP_BATCH
  Filter,       \* the sectors the trace is restricted to
  Delayed,      \* a block with no place on the disk yet
  NoRange       \* no owner

Hole == 0

ASSUME FileTraceAssumption ==
  /\ BlockSectors \in Nat \ {0} /\ Batch \in Nat \ {0}
  /\ StartOf512 \in [Partitions -> Nat] /\ UnitOf \in [Partitions -> Nat \ {0}]
  /\ FileSectors \in [ToSet(MapFiles) -> Nat]
  /\ Delayed \notin Nat /\ Filter \subseteq Nat
  /\ MapFiles \in Seq(ToSet(MapFiles))
  \* The blocks of a file reach to its end, or further.
  /\ \A l \in Layouts :
       /\ l \in [ToSet(MapFiles) -> Seq(Nat \cup {Delayed})]
       /\ \A f \in ToSet(MapFiles) : FileSectors[f] <= Len(l[f]) * BlockSectors
  /\ NoRange \notin [start : Nat, end : Nat, file : ToSet(MapFiles), offset : Nat]

VARIABLES
  mapping,    \* how far the command is
  table,      \* the mount table
  layout,     \* where the blocks of each file are
  seen,       \* where they were when the mapping of each file began
  torn,       \* files that moved while they were being mapped
  file,       \* the position in MapFiles
  from,       \* where the next request starts
  extents,    \* the extents of the present file so far, as a set
  index,      \* the owner index, as a set
  hit         \* the last traced sector and what was found for it

traceVars == <<mapping, table, layout, seen, torn, file, from, extents, index, hit>>

Mapping == {"idle", "fiemap", "fibmap", "own", "trace", "mapless"}

NoHit == [lba |-> 0, range |-> NoRange]

TraceInit ==
  /\ mapping = "idle" /\ table = <<>>
  /\ layout = <<>> /\ seen = <<>> /\ torn = {}
  /\ file = 0 /\ from = 0 /\ extents = {} /\ index = {} /\ hit = NoHit

Present == MapFiles[file]

\* The next file, or the trace: collect_file_map from its beginning.
MapFrom(k) ==
  /\ file' = k
  /\ from' = 0 /\ extents' = {}
  /\ mapping' = IF k > Len(MapFiles) THEN "trace" ELSE "fiemap"
  /\ IF k > Len(MapFiles) THEN UNCHANGED seen
                          ELSE seen' = [seen EXCEPT ![MapFiles[k]] = layout[MapFiles[k]]]

BeginTrace(l, t) ==
  /\ mapping = "idle"
  /\ layout' = l /\ table' = t
  /\ file' = 1 /\ seen' = l
  /\ mapping' = IF MapFiles = <<>> THEN "trace" ELSE "fiemap"
  /\ UNCHANGED <<torn, from, extents, index, hit>>

(***************************************************************************)
(* The file system, as FIEMAP shows it (external).                          *)
(***************************************************************************)
\* Neighbouring blocks that are neighbours on the partition too make one extent.
Joined(a, b) == (a = Delayed /\ b = Delayed) \/ (a \in Nat \ {Hole} /\ b = a + 1)

Runs(l) ==
  {r \in (1..Len(l)) \X (1..Len(l)) :
     /\ r[1] <= r[2]
     /\ l[r[1]] # Hole
     /\ \A k \in r[1]..(r[2] - 1) : Joined(l[k], l[k + 1])
     /\ r[1] = 1 \/ ~ Joined(l[r[1] - 1], l[r[1]])
     /\ r[2] = Len(l) \/ ~ Joined(l[r[2]], l[r[2] + 1])}

\* A delayed extent is shown at physical offset 0.
ExtentOf(l, r) ==
  [logical  |-> (r[1] - 1) * BlockSectors,
   physical |-> IF l[r[1]] = Delayed THEN 0 ELSE l[r[1]] * BlockSectors,
   length   |-> (r[2] - r[1] + 1) * BlockSectors]

Extents(l) == {ExtentOf(l, r) : r \in Runs(l)}

EndOf(e) == e.logical + e.length

(***************************************************************************)
(* fiemap_extents and fibmap_extents.                                       *)
(***************************************************************************)
\* One batch from where the last one ended, in the order of the file; no extents, or
\* the last one of the file, end the loop.
Fiemap ==
  LET rest == {e \in Extents(layout[Present]) : EndOf(e) > from}
  IN /\ mapping = "fiemap"
     /\ \E got \in kSubset(Min({Batch, Cardinality(rest)}), rest) :
          /\ \A e \in got, g \in rest \ got : e.logical < g.logical
          /\ extents' = extents \cup got
          /\ \/ got = rest /\ mapping' = "own" /\ UNCHANGED from
             \/ /\ got # rest /\ UNCHANGED mapping
                /\ \E last \in got : /\ \A e \in got : e.logical <= last.logical
                                     /\ from' = EndOf(last)
     /\ UNCHANGED <<table, layout, seen, torn, file, index, hit>>

\* FIEMAP refused: block by block, from the beginning.
FiemapFails ==
  /\ mapping = "fiemap"
  /\ mapping' = "fibmap"
  /\ from' = 0 /\ extents' = {}
  /\ UNCHANGED <<table, layout, seen, torn, file, index, hit>>

Piece(logical, block) ==
  [logical |-> logical, physical |-> block * BlockSectors,
   length |-> Min({BlockSectors, FileSectors[Present] - logical})]

Continues(e, p) == EndOf(e) = p.logical /\ e.physical + e.length = p.physical

Longer(e, p) == [e EXCEPT !.length = @ + p.length]

\* A block with no place on the disk answers 0, like a hole.
Fibmap ==
  LET block == layout[Present][from \div BlockSectors + 1]
      p     == Piece(from, block)
  IN /\ mapping = "fibmap"
     /\ from < FileSectors[Present]
     /\ from' = from + BlockSectors
     /\ \/ block \in {Hole, Delayed} /\ UNCHANGED extents
        \/ /\ block \notin {Hole, Delayed}
           /\ \E e \in extents :
                /\ Continues(e, p)
                /\ extents' = (extents \ {e}) \cup {Longer(e, p)}
        \/ /\ block \notin {Hole, Delayed}
           /\ \A e \in extents : ~ Continues(e, p)
           /\ extents' = extents \cup {p}
     /\ UNCHANGED <<mapping, table, layout, seen, torn, file, index, hit>>

FibmapDone ==
  /\ mapping = "fibmap" /\ from >= FileSectors[Present]
  /\ mapping' = "own"
  /\ UNCHANGED <<table, layout, seen, torn, file, from, extents, index, hit>>

\* A symlink, a file that cannot be opened, FIBMAP refused as well, a device whose
\* sectors are unknown: the command ends with nothing printed.
MapFails ==
  /\ mapping \in {"fiemap", "fibmap", "own"}
  /\ mapping' = "mapless"
  /\ UNCHANGED <<table, layout, seen, torn, file, from, extents, index, hit>>

(***************************************************************************)
(* resolve_mount_for_file: the first of the deepest mounts above the file.  *)
(***************************************************************************)
Above(t, f) == {k \in 1..Len(t) : IsPrefix(t[k].dir, PathOf[f])}

PartitionOf(t, f) ==
  LET deepest == {k \in Above(t, f) : \A j \in Above(t, f) : Len(t[j].dir) <= Len(t[k].dir)}
  IN t[Min(deepest)].on

(***************************************************************************)
(* build_lba_owner_index: the extents in logical sectors of the device.     *)
(***************************************************************************)
\* Mutant: sectors are counted from the start of the partition.
RangeInPartition(e) ==
  LET vol   == PartitionOf(table, Present)
      start == e.physical \div UnitOf[vol]
  IN [start |-> start, end |-> start + e.length \div UnitOf[vol],
      file |-> Present, offset |-> e.logical]

RangeOfExtent(e) ==
  LET vol   == PartitionOf(table, Present)
      start == e.physical \div UnitOf[vol] + StartOf512[vol]
  IN [start |-> start, end |-> start + e.length \div UnitOf[vol],
      file |-> Present, offset |-> e.logical]

RangesOf(es) == {r \in {RangeOfExtent(e) : e \in es} : r.start < r.end}

AddOwners ==
  /\ mapping = "own"
  /\ index' = index \cup RangesOf(extents)
  /\ MapFrom(file + 1)
  /\ UNCHANGED <<table, layout, torn, hit>>

(***************************************************************************)
(* match_lba_to_file, for each event of the trace that passes the filter.   *)
(***************************************************************************)
Has(r, lba) == r.start <= lba /\ lba < r.end

\* The order the comparison gives a range: before, at or after the sector.
Side(r, lba) == IF lba < r.start THEN 2 ELSE IF lba >= r.end THEN 0 ELSE 1

\* The index is sorted by the starts of its ranges. Ranges with one start may come
\* in any order.
InOrder(ix, lba) ==
  \A r, s \in ix : r.start <= s.start => Side(r, lba) <= Side(s, lba)

\* slice::binary_search_by finds a match if the comparison is in order, and may
\* miss it otherwise; what it returns compared equal (external).
SearchResults(ix, lba) ==
  LET hits == {r \in ix : Has(r, lba)}
  IN IF hits # {} /\ InOrder(ix, lba) THEN hits ELSE hits \cup {NoRange}

TraceEvent(lba) ==
  /\ mapping = "trace"
  /\ lba \in Filter
  /\ \E r \in SearchResults(index, lba) : hit' = [lba |-> lba, range |-> r]
  /\ UNCHANGED <<mapping, table, layout, seen, torn, file, from, extents, index>>

(***************************************************************************)
(* The file system moves a file.                                            *)
(***************************************************************************)
Move(f, l) ==
  /\ mapping \notin {"idle", "mapless"}
  /\ layout = seen /\ torn = {}
  /\ l # layout[f]
  /\ layout' = [layout EXCEPT ![f] = l]
  /\ IF \E k \in 1..(file - 1) : MapFiles[k] = f
       THEN UNCHANGED <<seen, torn>>
       ELSE IF file <= Len(MapFiles) /\ Present = f
         THEN torn' = {f} /\ UNCHANGED seen
         ELSE seen' = layout' /\ UNCHANGED torn
  /\ UNCHANGED <<mapping, table, file, from, extents, index, hit>>

MapStep == Fiemap \/ Fibmap \/ FibmapDone \/ AddOwners

TraceNext ==
  \/ \E l \in Layouts, t \in MountTables : BeginTrace(l, t)
  \/ MapStep \/ FiemapFails \/ MapFails
  \/ \E lba \in Filter : TraceEvent(lba)
  \/ \E f \in ToSet(MapFiles), l \in Layouts : Move(f, l[f])

TraceSpec == TraceInit /\ [][TraceNext]_traceVars

(***************************************************************************)
(* Properties.                                                              *)
(***************************************************************************)
\* The partition the kernel has on top at a file.
TopOf(f) ==
  LET deepest == {k \in Above(table, f) :
                    \A j \in Above(table, f) : Len(table[j].dir) <= Len(table[k].dir)}
  IN table[Max(deepest)].on

\* The block of sector o of file f, where it is on its disk, and which sector that is.
BlockOf(f, o) == seen[f][o \div BlockSectors + 1]

PlaceOf(f, o) == StartOf512[TopOf(f)] + BlockOf(f, o) * BlockSectors + (o % BlockSectors)

StoredAt(f, o, lba) == BlockOf(f, o) # Hole /\ lba = PlaceOf(f, o)

Sectors(f) == 0..(FileSectors[f] - 1)

GivenOnce == \A i, j \in DOMAIN MapFiles : i # j => MapFiles[i] # MapFiles[j]

\* What the index takes for granted: each file is given once, and the files are on
\* the traced disk, under mounts that do not cover each other, on 512-byte sectors,
\* written back, and did not move while they were mapped.
Plain ==
  /\ torn = {} /\ GivenOnce
  /\ \A f \in ToSet(MapFiles) :
       /\ \E p \in Partitions : /\ PartitionOf(table, f) = p /\ TopOf(f) = p
                                /\ DiskOf[p] = Traced /\ UnitOf[p] = 1
       /\ Delayed \notin ToSet(seen[f])

\* The sectors of the blocks of a file.
Reach(f) == 0..(Len(seen[f]) * BlockSectors - 1)

\* No sector of the disk belongs to two files, or to one file twice.
Unshared ==
  \A f, g \in ToSet(MapFiles) : \A o \in Reach(f), q \in Reach(g) :
    BlockOf(f, o) # Hole /\ StoredAt(g, q, PlaceOf(f, o)) => f = g /\ o = q

\* Under these conditions a traced sector is reported for the file and the offset
\* that was stored there when the file was mapped; and unless blocks are shared,
\* no sector of a mapped file goes unreported, however the extents came in
\* batches, from FIEMAP or block by block (fiemap_extents, fibmap_extents,
\* build_lba_owner_index, match_lba_to_file).
HitIsTheByte ==
  hit # NoHit /\ Plain =>
    IF hit.range # NoRange
      THEN StoredAt(hit.range.file, hit.range.offset + (hit.lba - hit.range.start), hit.lba)
      ELSE Unshared => \A f \in ToSet(MapFiles) : \A o \in Sectors(f) : ~ StoredAt(f, o, hit.lba)
=============================================================================
