------------------------------- MODULE MCCli -------------------------------
(***************************************************************************)
(* Constants for model-checking Cli.                                        *)
(***************************************************************************)
EXTENDS Cli

CONSTANTS
  mem, emmc, part,   \* a file, a disk and its partition
  old, new, folder,  \* a file that is there, one that is not, and its directory
  log, db            \* files

\* The console.
TwoBlock  == {emmc, part}
AllPlaces == {mem, emmc, part}
OnePart   == {part}
SomePresets == {[target |-> mem, write |-> TRUE], [target |-> emmc, write |-> TRUE],
                [target |-> part, write |-> FALSE]}
SomeSaves   == {{}, {[target |-> emmc, write |-> TRUE, confirmed |-> TRUE]}}

\* The wizard: a disk of three sectors of 1024 bytes.
WizardTargets == {emmc, old, new, folder}
SomeInfo ==
  [t \in WizardTargets |->
     [raw |-> t = emmc, exists |-> t # new, dir |-> t = folder, mmc |-> t = emmc,
      size |-> CASE t = emmc -> 6 [] t = old -> 3 [] OTHER -> 0,
      sector |-> IF t = emmc THEN 2 ELSE 1]]
InFolder    == [t \in WizardTargets |-> IF t = folder THEN new ELSE t]
FirstTarget == [raw \in BOOLEAN |-> IF raw THEN emmc ELSE new]
Plan(t, w, mode, start, count) ==
  [target |-> t, create |-> IF t = new THEN 4 ELSE 0, write |-> w, mode |-> mode,
   start |-> start, count |-> count, block |-> 2, exact |-> w, verify |-> w,
   durable |-> w, health |-> w, confirmed |-> FALSE]
SomeSeeds == {Plan(new, FALSE, "whole", 0, 0), Plan(emmc, TRUE, "sector", 1, 1)}

\* The sampler: two numbers for processes, a parent and its child, each with three
\* descriptors of two files; a disk with a partition, a device stacked on it, and a
\* disk that is plugged in later.
Numbers   == {1, 2}
LogDb     == {log, db}
SomeOpen  == {<<log, db, log>>}
Proc(n, q) == [io |-> n, open |-> <<log, db, log>>, readable |-> TRUE, parent |-> q]
SomeHosts == {(1 :> Proc(0, NoProc)) @@ (2 :> Proc(1, 1))}
AllDrives == {emmc, part, mem, old}
Whole     == {emmc, mem, old}
AtFirst   == {emmc, part, mem}
Way(d, through) == [drive |-> d, through |-> through]
SomeRoutes == {Way(emmc, AtFirst), Way(old, {old})}

\* The discards: a disk with two partitions, and the disk of the root file system;
\* each by its path, by a path of other letters, by a link of another name and by a
\* link that has the name of another.
SomeDisks  == {emmc, part, mem, old}
SomeParent == [d \in SomeDisks |-> IF d \in {part, mem} THEN emmc ELSE NoDisk]
Discard(d, base, full, g, off, len, ok, n) ==
  [disk |-> d, base |-> base, full |-> full, granularity |-> g, limit |-> 8,
   offset |-> off, length |-> len, confirmed |-> ok, rounds |-> n]
SomeRequests ==
  {Discard(d, d, full, 2, 4, 2, TRUE, n) : d \in SomeDisks, full \in BOOLEAN, n \in 0..2}
    \cup {Discard(part, base, FALSE, 2, 4, 2, TRUE, 1) : base \in {emmc, mem, NoDisk}}
    \cup {Discard(part, part, TRUE, 2, 4, 2, FALSE, 1),
          Discard(part, part, TRUE, 2, 3, 2, TRUE, 1),
          Discard(part, part, TRUE, 0, 4, 2, TRUE, 1),
          Discard(part, part, TRUE, 2, 4, 10, TRUE, 1)}
SomeUnseen == {{}, {part}, SomeDisks}

\* The trace: two files on the partitions of one disk, blocks of two sectors.
BothFiles   == <<log, db>>
TwoParts    == {part, mem, old}
TheDisk     == [d \in TwoParts |-> IF d = old THEN old ELSE emmc]
SomeStart   == (part :> 2) @@ (mem :> 20) @@ (old :> 0)
SomeUnit    == [d \in TwoParts |-> 1]
At(dir, d)  == [dir |-> dir, on |-> d]
SomeTables  == {<<At(<<>>, part)>>,
                <<At(<<>>, part), At(<<"data">>, mem)>>,
                <<At(<<>>, old), At(<<"data">>, mem)>>,
                <<At(<<>>, part), At(<<"data">>, old), At(<<"data">>, mem)>>}
SomePaths   == (log :> <<"log">>) @@ (db :> <<"data", "db">>)
SomeLayouts == {(log :> l) @@ (db :> d) :
                  l \in {<<1, 2, 3>>, <<3, Hole, 5>>, <<2, 1, Hole>>},
                  d \in {<<1, 2>>, <<Delayed, 4>>, <<4, 3>>}}
SomeLengths == (log :> 6) @@ (db :> 3)
SomeFilter  == {3, 4, 6, 9, 13, 22, 25, 27, 29}
=============================================================================
