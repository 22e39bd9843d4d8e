---------------------------- MODULE MCTargetSetup ----------------------------
(***************************************************************************)
(* Constants for model-checking TargetSetup: a file f, a disk d, which may  *)
(* be a boot partition as well, and for the presets a user partition.       *)
(* A sector is 2 bytes and a u64 has 4 bits, so every overflow is reached.  *)
(***************************************************************************)
EXTENDS Presets, TLC

CONSTANTS f, d, user

SomeTargets   == {f, d, user}
SomeDevices   == {d, user}
OneFile       == {f}
OnePartition  == {user}
OneBoot       == {d}
SomeSizes     == {(f :> n) @@ (d :> 8) @@ (user :> 12) : n \in {Absent, 5, 12}}
SomeSectors   == {2, 4}
SomeBlocks    == {2, 6, 8}
SomeCaps      == {4, 14}
SomeMix       == [i \in 0..7 |-> (5 * i + 3) % 16]

Ranges == {[mode |-> "whole", start |-> NoSize, count |-> NoSize]}
  \cup [mode : {"sector"}, start : {NoSize, 0, 1, 9}, count : {NoSize, 2, 7}]
  \cup [mode : {"byte"}, start : {NoSize, 0, 3, 4}, count : {NoSize, 4, 7}]

\* A part of a profile on target t over the range r.
On(t, kind, r, block, flags) ==
  [target |-> t, named |-> "link" \notin flags, raw |-> kind.raw, create |-> kind.create,
   mode |-> r.mode, start |-> r.start, count |-> r.count, block |-> block,
   write |-> "write" \in flags, direct |-> "direct" \in flags,
   random |-> "random" \in flags]

Kinds == {[raw |-> TRUE, create |-> NoSize], [raw |-> FALSE, create |-> NoSize],
          [raw |-> FALSE, create |-> 4], [raw |-> FALSE, create |-> 14]}

AnyPart(blocks, flagSets) ==
  {On(t, k, r, b, g) : t \in {f, d}, k \in Kinds, r \in Ranges, b \in blocks, g \in flagSets}

Whole == [mode |-> "whole", start |-> NoSize, count |-> NoSize]

Alone ==
  [primary : AnyPart({0, 2, 3, 4}, {{}, {"write"}, {"write", "direct"}, {"direct", "random"}})
               \cup {On(d, k, Whole, 4, {"write", "link"}) : k \in Kinds},
   secondaries : {{}}, confirmed : BOOLEAN]

\* A small primary with any secondary target.
Paired ==
  {[primary |-> On(f, [raw |-> FALSE, create |-> 4], Whole, 2, g), secondaries |-> {c},
    confirmed |-> FALSE] : g \in {{}, {"write"}}, c \in AnyPart({0, 4}, {{"write"}, {"direct"}})}

SomeProfiles == Alone \cup Paired \cup AllPresets
=============================================================================
