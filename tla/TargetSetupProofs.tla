-------------------------- MODULE TargetSetupProofs --------------------------
(***************************************************************************)
(* Proofs about TargetSetup, for any targets, word size, profiles and hash: *)
(* every block a worker touches lies in its range and in its target, direct *)
(* I/O starts at a sector, files only ever grow, and validation keeps the   *)
(* primary target from a panic. And about Presets: what a preset asks for   *)
(* is what the run does, or the operator can see why not.                   *)
(***************************************************************************)
EXTENDS Presets, TLAPS

(***************************************************************************)
(* Arithmetic.                                                              *)
(***************************************************************************)
\* A block number below the number of whole blocks of a length names a block
\* inside that length.
LEMMA BlockFits ==
  ASSUME NEW length \in Nat, NEW block \in Nat \ {0}, block <= length,
         NEW n \in Nat
  PROVE  /\ length \div block \in Nat \ {0}
         /\ n % (length \div block) \in Nat
         /\ (n % (length \div block)) * block \in Nat
         /\ (n % (length \div block)) * block + block <= length
<1> DEFINE many == length \div block
<1>1. many \in Nat /\ many * block <= length
  OBVIOUS
<1>2. many # 0
  OBVIOUS
<1> HIDE DEF many
<1>3. n % many \in 0..(many - 1)
  BY <1>1, <1>2
<1>4. ASSUME NEW k \in 0..(many - 1)
      PROVE  k * block \in Nat /\ k * block + block <= many * block
  <2>1. k \in Nat /\ k + 1 <= many
    BY <1>1
  <2>2. (k + 1) * block <= many * block
    BY <1>1, <2>1
  <2>3. (k + 1) * block = k * block + block
    BY <2>1
  <2>4. QED
    BY <2>1, <2>2, <2>3
<1>5. (n % many) * block \in Nat /\ (n % many) * block + block <= length
  <2> DEFINE k == n % many
  <2>1. k \in 0..(many - 1)
    BY <1>3
  <2> HIDE DEF k
  <2>2. k * block \in Nat /\ k * block + block <= many * block
    BY <1>4, <2>1
  <2>3. many * block \in Nat
    BY <1>1
  <2>4. QED
    BY <1>1, <2>2, <2>3 DEF k
<1>6. QED
  BY <1>1, <1>2, <1>3, <1>5 DEF many

(***************************************************************************)
(* The length of a target that is being prepared.                           *)
(***************************************************************************)
\* A part of the profile is a part, with or without a secondary target.
LEMMA PartsAreParts ==
  ASSUME profile \in Profiles
  PROVE  Parts \subseteq Part
BY ProfilesAssumption DEF Parts

\* What a file is asked to become is never less than what it is.
LEMMA RequestedSize ==
  ASSUME NEW c \in Part, Existing(c) \in Nat
  PROVE  Requested(c) \in Nat /\ Requested(c) >= Existing(c)
<1>1. OrElse(c.start, 0) \in Nat /\ OrElse(c.count, 0) \in Nat
  BY DEF Part, OrElse
<1>2. SectorEnd(c) \in Nat
  BY <1>1 DEF SectorEnd
<1>3. (SectorEnd(c) % (MaxWord + 1)) * Sector \in Nat
  <2>1. MaxWord + 1 \in Nat \ {0} /\ Sector \in Nat
    BY SetupAssumption
  <2>2. SectorEnd(c) % (MaxWord + 1) \in Nat
    BY <1>2, <2>1
  <2>3. QED
    BY <2>1, <2>2
<1>4. \A n \in Nat : Saturate(n) \in Nat
  BY SetupAssumption DEF Saturate
<1>5. c.mode \in {"whole", "sector", "byte"}
  BY DEF Part
<1> DEFINE wanted == CASE c.mode = "whole"  -> Larger(Existing(c), MinFile)
                       [] c.mode = "sector" ->
                            Saturate((SectorEnd(c) % (MaxWord + 1)) * Sector)
                       [] c.mode = "byte"   ->
                            Saturate(OrElse(c.start, 0) + OrElse(c.count, 0))
<1>6. wanted \in Nat
  <2>1. CASE c.mode = "whole"
    BY <2>1, SetupAssumption DEF Larger
  <2>2. CASE c.mode = "sector"
    BY <1>3, <1>4, <2>2
  <2>3. CASE c.mode = "byte"
    BY <1>1, <1>4, <2>3
  <2>4. QED
    BY <1>5, <2>1, <2>2, <2>3
<1>7. Requested(c) = Larger(Existing(c), wanted)
  BY DEF Requested
<1> HIDE DEF wanted
<1>8. QED
  BY <1>6, <1>7 DEF Larger

SizeOK == /\ size \in [Targets -> 0..MaxWord \cup {Absent}]
          /\ \A d \in Devices : size[d] # Absent

\* The length prepare_target leaves behind is a length, and no less than what
\* was there. It grows what was there only for a part that writes.
LEMMA FinalSizeFits ==
  ASSUME SizeOK, NEW c \in Part, CanStat(c), c.target \notin Devices
  PROVE  /\ FinalSize(c) \in 0..MaxWord
         /\ size[c.target] # Absent => FinalSize(c) >= size[c.target]
         /\ size[c.target] # Absent /\ FinalSize(c) # size[c.target] => c.write
<1> USE SetupAssumption
<1>1. c.target \in Targets /\ (c.create \in Nat \/ c.create = NoSize)
  BY DEF Part
<1>2. CASE size[c.target] = Absent
  <2>1. Creates(c) /\ RuntimeSize(c) \in Nat
    BY <1>1, <1>2 DEF CanStat, Creates, RuntimeSize
  <2>2. Existing(c) = RuntimeSize(c)
    BY <2>1 DEF Existing
  <2>3. Requested(c) \in Nat /\ Requested(c) >= Existing(c)
    BY <2>1, <2>2, RequestedSize
  <2>4. CASE RuntimeSize(c) > FileLimit
    BY <1>2, <2>1, <2>4 DEF FinalSize
  <2>5. CASE ~(RuntimeSize(c) > FileLimit)
    BY <1>2, <2>1, <2>2, <2>3, <2>5 DEF FinalSize, CanSetLen
  <2>6. QED
    BY <2>4, <2>5
<1>3. CASE size[c.target] # Absent
  <2>1. size[c.target] \in 0..MaxWord /\ ~Creates(c)
    BY <1>1, <1>3 DEF SizeOK, Creates
  <2>2. Existing(c) = size[c.target]
    BY <2>1 DEF Existing
  <2>3. Requested(c) \in Nat /\ Requested(c) >= Existing(c)
    BY <2>1, <2>2, RequestedSize
  <2>4. QED
    BY <1>3, <2>1, <2>2, <2>3 DEF FinalSize, CanSetLen, MustGrow
<1>4. QED
  BY <1>2, <1>3

\* Preparing a part keeps lengths lengths, and shortens nothing.
LEMMA SizesAfterFit ==
  ASSUME SizeOK, NEW c \in Part
  PROVE  /\ SizesAfter(c) \in [Targets -> 0..MaxWord \cup {Absent}]
         /\ \A t \in Targets : size[t] # Absent =>
              /\ SizesAfter(c)[t] \in Nat /\ SizesAfter(c)[t] >= size[t]
              /\ SizesAfter(c)[t] # size[t] => c.target = t /\ c.write
<1> USE SetupAssumption DEF SizeOK
<1>1. c.target \in Targets
  BY DEF Part
<1>2. CASE c.raw \/ c.target \in Devices \/ ~CanStat(c)
  BY <1>2 DEF SizesAfter
<1>3. CASE ~(c.raw \/ c.target \in Devices \/ ~CanStat(c))
  <2>1. SizesAfter(c) = [size EXCEPT ![c.target] = FinalSize(c)]
    BY <1>3 DEF SizesAfter
  <2>2. /\ FinalSize(c) \in 0..MaxWord
        /\ size[c.target] # Absent => FinalSize(c) >= size[c.target]
        /\ size[c.target] # Absent /\ FinalSize(c) # size[c.target] => c.write
    BY <1>3, FinalSizeFits
  <2>3. QED
    BY <1>1, <2>1, <2>2
<1>4. QED
  BY <1>2, <1>3

(***************************************************************************)
(* The invariant.                                                           *)
(***************************************************************************)
Shape ==
  /\ profile \in Profiles
  /\ sector \in [Targets -> Sectors]
  /\ mounted \subseteq Devices /\ hidden \subseteq mounted /\ late \subseteq mounted
  /\ step \in Steps \cup Stopped
  /\ ranges \in [Parts -> [start : 0..MaxWord, length : 0..MaxWord, sector : Nat]]
  /\ assessed \subseteq Devices

\* A range, once resolved, has a whole block of a sensible size and ends in its
\* target; the run starts when every part has one.
Resolved(c) ==
  /\ c.block \in Nat \ {0}
  /\ c.block <= ranges[c].length
  /\ size[c.target] \in Nat
  /\ ranges[c].start + ranges[c].length <= size[c.target]
  /\ ~c.raw => c.target \notin Devices

\* A raw primary is planned only after its assessment, which does not see a mount
\* that is hidden from it or comes later.
Assessed ==
  LET c == profile.primary
  IN step \in {"primary", "secondary", "run"} /\ c.raw =>
       /\ c.target \in Devices
       /\ c.write => profile.confirmed
       /\ c.named /\ c.target \in mounted => c.target \in hidden \/ c.target \in late

Planned ==
  /\ \A c \in Parts : ranges[c] # NoRange => Resolved(c)
  /\ step = "run" => \A c \in Parts : ranges[c] # NoRange

IInv == SizeOK /\ Shape /\ Planned /\ Assessed

\* What resolved_range accepts lies in the target as prepared.
LEMMA AcceptedRange ==
  ASSUME SizeOK, Shape, NEW c \in Part, Prepared(c), Inside(c), c.block # 0, Aligned(c)
  PROVE  /\ RangeOf(c) \in [start : 0..MaxWord, length : 0..MaxWord, sector : Nat]
         /\ RangeOf(c) # NoRange
         /\ c.block \in Nat \ {0} /\ c.block <= LengthOf(c)
         /\ SizesAfter(c)[c.target] \in Nat
         /\ StartOf(c) + LengthOf(c) <= SizesAfter(c)[c.target]
         /\ ~c.raw => c.target \notin Devices
<1> USE SetupAssumption
<1>1. /\ c.target \in Targets /\ c.raw \in BOOLEAN /\ c.block \in Nat
      /\ c.mode \in {"whole", "sector", "byte"}
      /\ OrElse(c.start, 0) \in Nat
  BY DEF Part, OrElse
<1>2. /\ TargetLen(c) \in Nat /\ TargetLen(c) = SizesAfter(c)[c.target]
      /\ ~c.raw => c.target \notin Devices
  <2>1. CASE c.raw
    BY <1>1, <2>1 DEF Prepared, TargetLen, SizesAfter, SizeOK
  <2>2. CASE ~c.raw /\ c.target \in Devices
    <3>1. TargetLen(c) = 0
      BY <2>2 DEF TargetLen
    <3>2. StartOf(c) + LengthOf(c) <= 0 /\ LengthOf(c) > 0 /\ StartOf(c) \in Nat
      BY <1>1, <2>2, <3>1 DEF Inside, StartOf, SectorSize
    <3>3. LengthOf(c) \in Nat
      BY <1>1, <2>2, <3>1 DEF LengthOf, SectorSize, OrElse, Part
    <3>4. QED
      BY <3>2, <3>3
  <2>3. CASE ~c.raw /\ c.target \notin Devices
    <3>1. CanStat(c)
      BY <2>3 DEF Prepared
    <3>2. FinalSize(c) \in 0..MaxWord
      BY <2>3, <3>1, FinalSizeFits
    <3>3. QED
      BY <1>1, <2>3, <3>1, <3>2 DEF TargetLen, SizesAfter, SizeOK
  <2>4. QED
    BY <1>1, <2>1, <2>2, <2>3
<1>3. SectorSize(c) \in Nat
  BY <1>1 DEF SectorSize, Prepared, Larger, Shape
<1>4. StartOf(c) \in Nat
  BY <1>1, <1>3 DEF StartOf
<1>5. LengthOf(c) \in Nat
  BY <1>1, <1>2, <1>3 DEF LengthOf, OrElse, Part
<1>6. QED
  BY <1>1, <1>2, <1>3, <1>4, <1>5 DEF RangeOf, NoRange, Inside, Aligned

\* Planning a part keeps the invariant.
LEMMA PlanKeeps ==
  ASSUME IInv, NEW c \in Parts, Plan(c, "secondary"), step \in {"primary", "secondary"}
  PROVE  IInv'
<1> USE SetupAssumption DEF IInv
<1>1. c \in Part /\ Parts \subseteq Part /\ Parts' = Parts
  BY PartsAreParts DEF Shape, Plan, Parts
<1>2. UNCHANGED <<profile, sector, mounted, hidden, late, assessed>>
  BY DEF Plan, host
<1>3. /\ size' \in [Targets -> 0..MaxWord \cup {Absent}]
      /\ \A t \in Targets : size[t] # Absent => size'[t] \in Nat /\ size'[t] >= size[t]
  <2>1. CASE size' = SizesAfter(c)
    BY <1>1, <2>1, SizesAfterFit
  <2>2. CASE UNCHANGED size
    BY <2>2 DEF SizeOK
  <2>3. CASE /\ Creates(c) /\ RuntimeSize(c) <= FileLimit
             /\ size' = [size EXCEPT ![c.target] = Existing(c)]
    <3>1. Existing(c) \in 0..MaxWord
      BY <1>1, <2>3 DEF Existing, Creates, RuntimeSize, Part
    <3>2. c.target \in Targets /\ size[c.target] = Absent
      BY <1>1, <2>3 DEF Part, Creates
    <3>3. QED
      BY <2>3, <3>1, <3>2 DEF SizeOK
  <2>4. QED
    BY <2>1, <2>2, <2>3 DEF Plan
<1>4. SizeOK'
  BY <1>3 DEF SizeOK
<1>0. Assessed'
  BY <1>2 DEF Assessed, Plan, Stopped
<1>5. ASSUME NEW b \in Parts, Resolved(b), ranges'[b] = ranges[b]
      PROVE  Resolved(b)'
  <2>1. b.target \in Targets /\ size[b.target] # Absent
    BY <1>1, <1>5 DEF Resolved, Part
  <2>2. ranges[b].start \in Nat /\ ranges[b].length \in Nat
    BY DEF Shape
  <2>3. size'[b.target] \in Nat /\ size'[b.target] >= size[b.target]
    BY <1>3, <2>1
  <2>4. size[b.target] \in Nat /\ ranges[b].start + ranges[b].length <= size[b.target]
    BY <1>5 DEF Resolved
  <2>5. ranges'[b].start + ranges'[b].length <= size'[b.target]
    BY <1>5, <2>2, <2>3, <2>4
  <2>6. QED
    BY <1>5, <2>3, <2>5 DEF Resolved
<1>6. CASE UNCHANGED ranges /\ step' \in Stopped
  <2>1. Shape'
    BY <1>1, <1>2, <1>6 DEF Shape, Stopped, Steps
  <2>2. Planned'
    <3>1. step' # "run"
      BY <1>6 DEF Stopped
    <3>2. ASSUME NEW b \in Parts, ranges'[b] # NoRange
          PROVE  Resolved(b)'
      BY <1>5, <1>6, <3>2 DEF Planned
    <3>3. QED
      BY <1>1, <3>1, <3>2 DEF Planned
  <2>3. QED
    BY <1>0, <1>4, <2>1, <2>2
<1>7. CASE /\ Prepared(c) /\ Inside(c) /\ c.block # 0 /\ Aligned(c)
           /\ size' = SizesAfter(c)
           /\ ranges' = [ranges EXCEPT ![c] = RangeOf(c)]
           /\ step' = "secondary"
  <2>1. /\ RangeOf(c) \in [start : 0..MaxWord, length : 0..MaxWord, sector : Nat]
        /\ c.block \in Nat \ {0} /\ c.block <= LengthOf(c)
        /\ SizesAfter(c)[c.target] \in Nat
        /\ StartOf(c) + LengthOf(c) <= SizesAfter(c)[c.target]
        /\ ~c.raw => c.target \notin Devices
    BY <1>1, <1>7, AcceptedRange
  <2>2. Shape'
    BY <1>1, <1>2, <1>7, <2>1 DEF Shape, Steps
  <2>3. ranges'[c] = RangeOf(c) /\ \A b \in Parts : b # c => ranges'[b] = ranges[b]
    BY <1>7 DEF Shape
  <2>4. Resolved(c)'
    BY <1>7, <2>1, <2>3 DEF Resolved, RangeOf
  <2>5. Planned'
    BY <1>1, <1>5, <1>7, <2>3, <2>4 DEF Planned
  <2>6. QED
    BY <1>0, <1>4, <2>2, <2>5
<1>8. QED
  BY <1>6, <1>7 DEF Plan, Stopped

\* The initial states satisfy the invariant.
LEMMA InitInvariant == Init => IInv
<1> SUFFICES ASSUME Init PROVE IInv
  OBVIOUS
<1> USE SetupAssumption DEF Init
<1>1. SizeOK
  BY DEF SizeOK
<1>2. NoRange \in [start : 0..MaxWord, length : 0..MaxWord, sector : Nat]
  BY DEF NoRange
<1>3. Shape
  BY <1>2 DEF Shape, Steps, DevicesUsed
<1>4. Planned
  BY DEF Planned
<1>5. Assessed
  BY DEF Assessed
<1>6. QED
  BY <1>1, <1>3, <1>4, <1>5 DEF IInv

\* Every step of the set-up keeps the invariant.
LEMMA StepInvariant == IInv /\ [Next]_vars => IInv'
<1> SUFFICES ASSUME IInv, [Next]_vars PROVE IInv'
  OBVIOUS
<1>1. ASSUME UNCHANGED <<profile, size, host, ranges>>,
             assessed' \subseteq Devices, step' \in (Steps \ {"run"}) \cup Stopped,
             Assessed'
      PROVE  IInv'
  BY <1>1 DEF host, IInv, SizeOK, Shape, Planned, Resolved, Parts, Steps, Stopped
<1>2. CASE Validate
  BY <1>1, <1>2 DEF Validate, Steps, Stopped, IInv, Shape, Assessed
<1>3. CASE Assess
  <2>1. Assessed'
    BY <1>3 DEF Assess, Allowed, Assessed, host
  <2> QED  BY <1>1, <1>3, <2>1 DEF Assess, Allowed, Steps, Stopped, IInv, Shape
<1>4. CASE Mount
  <2>1. UNCHANGED <<profile, size, sector, hidden, step, ranges, assessed>>
    BY <1>4 DEF Mount
  <2>2. /\ mounted \subseteq mounted' /\ mounted' \subseteq Devices
        /\ hidden' \subseteq mounted' /\ late' \subseteq mounted'
        /\ late \subseteq late' /\ mounted' \ mounted \subseteq late'
    BY <1>4 DEF Mount, DevicesUsed, IInv, Shape
  <2>3. Shape'
    BY <2>1, <2>2 DEF IInv, Shape, Parts
  <2>4. SizeOK' /\ Planned'
    BY <2>1 DEF IInv, SizeOK, Planned, Resolved, Parts
  <2>5. Assessed'
    BY <2>1, <2>2 DEF IInv, Assessed
  <2> QED  BY <2>3, <2>4, <2>5 DEF IInv
<1>5. CASE PlanPrimary
  BY <1>5, PlanKeeps DEF PlanPrimary, Parts
<1>6. CASE PlanSecondary
  BY <1>6, PlanKeeps DEF PlanSecondary, Parts
<1>7. CASE StartRun
  BY <1>7 DEF StartRun, host, IInv, SizeOK, Shape, Planned, Resolved, Parts, Steps, Assessed
<1>8. CASE UNCHANGED vars
  BY <1>8 DEF vars, host, IInv, SizeOK, Shape, Planned, Resolved, Parts, Assessed
<1>9. QED
  BY <1>2, <1>3, <1>4, <1>5, <1>6, <1>7, <1>8 DEF Next

\* The invariant holds in every reachable state of a set-up.
THEOREM Invariance == Spec => []IInv
BY InitInvariant, StepInvariant, PTL DEF Spec

\* The state of a set-up keeps its types, whatever is refused on the way.
THEOREM TypeCorrect == Spec => []TypeOK
<1>1. IInv => TypeOK
  BY DEF IInv, SizeOK, Shape, TypeOK
<1>2. QED
  BY <1>1, Invariance, PTL

(***************************************************************************)
(* What follows.                                                            *)
(***************************************************************************)
\* Every index, under every hash, gives a whole block inside range and target.
THEOREM InRange == Spec => []OffsetsInRange
<1>1. IInv => OffsetsInRange
  <2>1. SUFFICES ASSUME IInv, NEW c \in Active, NEW i \in 0..MaxIndex
                 PROVE  /\ ranges[c].start <= Offset(c, i)
                        /\ Offset(c, i) + c.block <= ranges[c].start + ranges[c].length
                        /\ Offset(c, i) + c.block <= size[c.target]
    BY DEF OffsetsInRange
  <2>2. c \in Parts /\ step = "run"
    BY DEF Active
  <2>3. Resolved(c) /\ ranges[c].start \in Nat /\ ranges[c].length \in Nat
    BY <2>1, <2>2 DEF IInv, Planned, Shape
  <2> DEFINE n == IF c.random THEN Mix[i] ELSE i
  <2>4. n \in Nat
    BY SetupAssumption
  <2> HIDE DEF n
  <2> DEFINE m == (n % (ranges[c].length \div c.block)) * c.block
  <2>5. m \in Nat /\ m + c.block <= ranges[c].length
    BY <2>3, <2>4, BlockFits DEF Resolved
  <2>6. Offset(c, i) = ranges[c].start + m
    BY DEF Offset, BlockCount, n
  <2> HIDE DEF m
  <2>7. QED
    BY <2>3, <2>5, <2>6 DEF Resolved
<1>2. QED
  BY <1>1, Invariance, PTL

\* No file that exists is shortened, and none is grown for a reader.
THEOREM OnlyGrow == Spec => FilesOnlyGrow
<1>1. ASSUME IInv, [Next]_vars
      PROVE  [\A t \in Targets : size[t] # Absent /\ size'[t] # size[t] =>
                size'[t] > size[t] /\ \E c \in Parts : c.target = t /\ c.write]_size
  <2>1. ASSUME NEW c \in Parts, Plan(c, "secondary")
        PROVE  \A t \in Targets : size[t] # Absent /\ size'[t] # size[t] =>
                 size'[t] > size[t] /\ \E b \in Parts : b.target = t /\ b.write
    <3>1. SizeOK /\ c \in Part
      BY <1>1, PartsAreParts DEF IInv, Shape
    <3>2. SUFFICES ASSUME NEW t \in Targets, size[t] # Absent, size'[t] # size[t]
                   PROVE  size'[t] > size[t] /\ c.target = t /\ c.write
      OBVIOUS
    <3>3. size[t] \in Nat
      BY <3>1, <3>2, SetupAssumption DEF SizeOK
    <3>4. CASE size' = SizesAfter(c)
      BY <3>1, <3>2, <3>3, <3>4, SizesAfterFit
    <3>5. CASE Creates(c) /\ size' = [size EXCEPT ![c.target] = Existing(c)]
      BY <3>1, <3>2, <3>5 DEF Creates, SizeOK
    <3>6. QED
      BY <2>1, <3>2, <3>4, <3>5 DEF Plan
  <2>2. QED
    BY <1>1, <2>1
       DEF Next, Validate, Assess, Mount, PlanPrimary, PlanSecondary, StartRun, vars, Parts
<1>2. QED
  BY <1>1, Invariance, PTL DEF Spec, FilesOnlyGrow

\* A primary that is a block device was assessed, whatever the profile declares it
\* to be: a write is confirmed, and a mount below the run is one that mountinfo
\* spells otherwise or does not list, or one that came after the assessment.
THEOREM Consent == Spec => []DeviceNeedsConsent
<1>1. IInv => DeviceNeedsConsent
  BY DEF IInv, Planned, Resolved, Assessed, DeviceNeedsConsent, Parts
<1>2. QED
  BY <1>1, Invariance, PTL

(***************************************************************************)
(* Panics and direct I/O need invariants of their own.                      *)
(***************************************************************************)
\* A profile that came past validation is valid, and a panic is a secondary's.
PanicHasCause ==
  /\ step \notin {"validate", "refused"} => Valid(profile)
  /\ step = "panicked" =>
       \E c \in profile.secondaries : c.block = 0 \/ (~ c.raw /\ SectorEnd(c) > MaxWord)

\* Where a part panics: at a sum of sectors, or at a block size of zero.
LEMMA PlanPanics ==
  ASSUME NEW c, Plan(c, "secondary"), step' = "panicked"
  PROVE  c.block = 0 \/ (~ c.raw /\ c.mode = "sector" /\ SectorEnd(c) > MaxWord)
<1>1. SumOverflows(c) \/ c.block = 0
  BY DEF Plan
<1>2. SumOverflows(c) => ~ c.raw /\ c.mode = "sector" /\ SectorEnd(c) > MaxWord
  BY Zenon DEF SumOverflows
<1> QED  BY <1>1, <1>2

\* Validation keeps the primary from both (Profile::validate).
LEMMA ValidPrimary ==
  ASSUME Valid(profile), profile \in Profiles
  PROVE  LET c == profile.primary
         IN ~ (c.block = 0 \/ (c.mode = "sector" /\ SectorEnd(c) > MaxWord))
<1> DEFINE c == profile.primary
<1>1. SUFFICES ASSUME c.mode = "sector" PROVE ~ (SectorEnd(c) > MaxWord)
  BY DEF Valid
<1>2. c.start # NoSize /\ c.count # NoSize /\ c.start + c.count <= MaxWord
  BY <1>1 DEF Valid
<1>3. SectorEnd(c) = c.start + c.count
  BY <1>2 DEF SectorEnd, OrElse
<1>4. c.start \in Nat /\ c.count \in Nat
  BY <1>2, ProfilesAssumption DEF Part
<1> QED  BY <1>2, <1>3, <1>4, SetupAssumption

\* Every step keeps the cause of a panic.
LEMMA PanicStep == IInv /\ PanicHasCause /\ [Next]_vars => PanicHasCause'
<1> SUFFICES ASSUME IInv, PanicHasCause, [Next]_vars PROVE PanicHasCause'
  OBVIOUS
<1>1. UNCHANGED profile
  BY DEF Next, Validate, Assess, Mount, PlanPrimary, PlanSecondary, StartRun, Plan, vars
<1>2. /\ Valid(profile)' <=> Valid(profile)
      /\ \A c : SectorEnd(c)' = SectorEnd(c)
  BY <1>1 DEF Valid, Parts, CreatesSensibly, SectorEnd, OrElse
<1>3. step' \notin {"validate", "refused"} => Valid(profile)
  BY DEF Next, Validate, Assess, Mount, PlanPrimary, PlanSecondary, StartRun, vars, PanicHasCause
<1>4. ASSUME step' = "panicked"
      PROVE  \E c \in profile.secondaries : c.block = 0 \/ (~ c.raw /\ SectorEnd(c) > MaxWord)
  <2>1. ~ PlanPrimary
    <3>1. SUFFICES ASSUME PlanPrimary PROVE FALSE
      OBVIOUS
    <3>2. Plan(profile.primary, "secondary") /\ Valid(profile) /\ profile \in Profiles
      BY <1>3, <1>4, <3>1 DEF PlanPrimary, IInv, Shape
    <3> QED  BY <1>4, <3>2, PlanPanics, ValidPrimary
  <2>2. CASE PlanSecondary
    BY <1>4, <2>2, PlanPanics DEF PlanSecondary
  <2>3. CASE UNCHANGED vars
    BY <1>4, <2>3 DEF vars, PanicHasCause
  <2> QED  BY <1>4, <2>1, <2>2, <2>3 DEF Next, Validate, Assess, Mount, StartRun
<1> QED  BY <1>1, <1>2, <1>3, <1>4 DEF PanicHasCause

\* For every word size and profile, what panics is a secondary target that nobody
\* validated (Profile::validate, prepare_target, validate_alignment).
THEOREM NoPrimaryPanic == Spec => []PrimaryNeverPanics
<1>1. Init => PanicHasCause
  BY DEF Init, PanicHasCause
<1>2. PanicHasCause => PrimaryNeverPanics
  BY DEF PanicHasCause, PrimaryNeverPanics
<1> QED  BY <1>1, <1>2, PanicStep, Invariance, PTL DEF Spec

\* A part that has a range starts where its addressing says, and one with direct I/O
\* was checked against what the engine takes for its sector.
DirectChecked ==
  \A c \in Parts : ranges[c] # NoRange =>
    /\ ranges[c].start = StartOf(c) /\ ranges[c].sector = SectorSize(c)
    /\ SectorSize(c) \in Nat \ {0}
    /\ c.direct => c.block % SectorSize(c) = 0 /\ StartOf(c) % SectorSize(c) = 0

\* Planning a part checks it, and no other step resolves a range.
LEMMA DirectStep == IInv /\ DirectChecked /\ [Next]_vars => DirectChecked'
<1> SUFFICES ASSUME IInv, DirectChecked, [Next]_vars PROVE DirectChecked'
  OBVIOUS
<1>1. UNCHANGED <<profile, sector>>
  BY DEF Next, Validate, Assess, Mount, PlanPrimary, PlanSecondary, StartRun, Plan, host, vars
<1>2. Parts' = Parts /\ \A c : SectorSize(c)' = SectorSize(c) /\ StartOf(c)' = StartOf(c)
  BY <1>1 DEF Parts, SectorSize, StartOf
<1>3. CASE UNCHANGED ranges
  BY <1>2, <1>3 DEF DirectChecked
<1>4. ASSUME NEW b \in Parts, NEW next, Plan(b, next), ~ UNCHANGED ranges
      PROVE  DirectChecked'
  <2>1. /\ Prepared(b) /\ Aligned(b)
        /\ ranges' = [ranges EXCEPT ![b] = RangeOf(b)]
    BY <1>4 DEF Plan
  <2>2. /\ ranges'[b].start = StartOf(b) /\ ranges'[b].sector = SectorSize(b)
        /\ \A c \in Parts : c # b => ranges'[c] = ranges[c]
    BY <2>1 DEF IInv, Shape, RangeOf
  <2>3. SectorSize(b) \in Nat \ {0}
    <3>1. b \in Part
      BY PartsAreParts DEF IInv, Shape
    <3>2. sector[b.target] \in Nat
      BY <3>1, SetupAssumption DEF IInv, Shape, Part
    <3> QED  BY <3>2, SetupAssumption DEF SectorSize, Larger
  <2>4. b.direct => b.block % SectorSize(b) = 0 /\ StartOf(b) % SectorSize(b) = 0
    BY <2>1 DEF Aligned
  <2> QED  BY <1>2, <2>2, <2>3, <2>4 DEF DirectChecked
<1> QED
  BY <1>3, <1>4 DEF Next, Validate, Assess, Mount, PlanPrimary, PlanSecondary, StartRun, vars, Parts

\* Multiples of s add up to a multiple of s.
LEMMA MultiplesAdd ==
  ASSUME NEW s \in Nat \ {0}, NEW a \in Nat, NEW b \in Nat, NEW m \in Nat,
         a % s = 0, b % s = 0
  PROVE  (a + m * b) % s = 0
<1>1. a = s * (a \div s) /\ b = s * (b \div s) /\ a \div s \in Nat /\ b \div s \in Nat
  OBVIOUS
<1> DEFINE k == (a \div s) + m * (b \div s)
<1>2. k \in Nat /\ a + m * b = s * k
  BY <1>1
<1> HIDE DEF k
<1>3. (s * k) % s = 0
  BY <1>2
<1> QED  BY <1>2, <1>3

\* What the engine takes for the sector is that of the device below, except for
\* partitions and files on larger sectors.
LEMMA SectorTaken ==
  ASSUME IInv, NEW c \in Parts
  PROVE  SectorSize(c) = (IF Misjudged(c) THEN Sector ELSE sector[c.target])
<1>1. c \in Part /\ sector[c.target] \in Sectors
  BY PartsAreParts DEF IInv, Shape, Part
<1>2. sector[c.target] \in Nat /\ sector[c.target] >= Sector /\ Sector \in Nat
  BY <1>1, SetupAssumption
<1>3. CASE c.raw /\ c.target \notin Partitions
  BY <1>2, <1>3 DEF SectorSize, Misjudged, Larger
<1>4. CASE ~ (c.raw /\ c.target \notin Partitions)
  BY <1>2, <1>4 DEF SectorSize, Misjudged
<1> QED  BY <1>3, <1>4

\* Whatever unit a range was given in, direct I/O starts at a sector of the device
\* below, for every index under every hash, and a range in sectors starts at the
\* sector it names (resolved_range, validate_alignment, compute_offset). For files
\* and partitions on larger sectors that is shown of 512 bytes.
THEOREM DirectAligned == Spec => []DirectIoAligned
<1>1. Init => DirectChecked
  BY DEF Init, DirectChecked
<1>2. IInv /\ DirectChecked => DirectIoAligned
  <2>1. ASSUME IInv, DirectChecked, NEW c \in Active
        PROVE  /\ c \in Parts /\ Resolved(c)
               /\ ranges[c].start \in Nat /\ ranges[c].length \in Nat
               /\ SectorSize(c) \in Nat \ {0} /\ ranges[c].start = StartOf(c)
               /\ c.direct => c.block % SectorSize(c) = 0 /\ StartOf(c) % SectorSize(c) = 0
    <3>1. c \in Parts /\ ranges[c] # NoRange
      BY <2>1 DEF Active, IInv, Planned
    <3> QED  BY <2>1, <3>1 DEF IInv, Planned, Shape, DirectChecked
  <2>2. ASSUME IInv, DirectChecked, NEW c \in Active, c.direct, NEW i \in 0..MaxIndex
        PROVE  Offset(c, i) % SectorSize(c) = 0
    <3> DEFINE n == IF c.random THEN Mix[i] ELSE i
               m == n % BlockCount(c)
    <3>1. m \in Nat
      <4>1. n \in Nat
        BY SetupAssumption
      <4> HIDE DEF n
      <4> QED  BY <2>1, <2>2, <4>1, BlockFits DEF BlockCount, Resolved
    <3>2. Offset(c, i) = ranges[c].start + m * c.block
      BY DEF Offset
    <3> HIDE DEF m
    <3>3. c.block \in Nat
      BY <2>1, <2>2 DEF Resolved
    <3>4. /\ ranges[c].start \in Nat /\ SectorSize(c) \in Nat \ {0}
          /\ ranges[c].start % SectorSize(c) = 0 /\ c.block % SectorSize(c) = 0
      BY <2>1, <2>2
    <3>5. (ranges[c].start + m * c.block) % SectorSize(c) = 0
      BY <3>1, <3>3, <3>4, MultiplesAdd
    <3> QED  BY <3>2, <3>5
  <2>3. ASSUME IInv, DirectChecked, NEW c \in Active, c.mode = "sector"
        PROVE  ranges[c].start = OrElse(c.start, 0) * SectorSize(c)
    BY <2>1, <2>3 DEF StartOf
  <2>4. ASSUME IInv, DirectChecked, NEW c \in Active
        PROVE  SectorSize(c) = (IF Misjudged(c) THEN Sector ELSE sector[c.target])
    BY <2>1, <2>4, SectorTaken
  <2> QED  BY <2>2, <2>3, <2>4 DEF DirectIoAligned
<1> QED  BY <1>1, <1>2, DirectStep, Invariance, PTL DEF Spec

(***************************************************************************)
(* The presets (resolve_preset, concurrent_partition_stress_flow): what     *)
(* parts they are made of, and what can stop such a part.                   *)
(***************************************************************************)
\* A sample file, read or written as a whole.
FilePart(c) ==
  /\ ~ c.raw /\ ~ c.direct /\ c.target \in Targets \ Devices
  /\ c.create = SampleSize /\ c.mode = "whole" /\ c.block = BlockDefault

\* A device as a whole, by blocks of whole sectors.
WholePart(c) ==
  c.mode = "whole" /\ c.block \in Nat /\ c.block >= SectorSize(c) /\ c.block % SectorSize(c) = 0

\* Sectors of a device, one at a time: they lie in it, unless it has none.
SectorPart(c) ==
  /\ c.mode = "sector" /\ c.start \in Nat /\ c.count \in Nat \ {0}
  /\ c.block = SectorSize(c) /\ SectorSize(c) = sector[c.target]
  /\ (c.start + c.count) * c.block <= size[c.target] \/ size[c.target] < c.block

\* The first bytes of a device: they lie in it, unless it has no block.
BytePart(c) ==
  /\ c.mode = "byte" /\ c.start = 0 /\ c.count \in Nat
  /\ c.block \in Nat \ {0} /\ c.block <= c.count
  /\ c.count <= size[c.target] \/ size[c.target] < c.block

DevicePart(c) ==
  /\ c.raw /\ c.direct /\ c.create = NoSize /\ c.target \in Devices
  /\ WholePart(c) \/ SectorPart(c) \/ BytePart(c)

PresetProfile ==
  /\ FilePart(profile.primary) \/ DevicePart(profile.primary)
  /\ \A c \in profile.secondaries : DevicePart(c) /\ c.mode = "sector"

\* What of an Obstacle concerns the part c, where files and devices are as in n.
Hindered(c, n) ==
  \/ n[c.target] # Absent /\ n[c.target] < c.block
  \/ c.mode = "byte" /\ c.block % SectorSize(c) # 0
  \/ ~ c.raw /\ Larger(SampleSize, MinFile) > FileLimit

\* The sectors of a device, which is what the host tells of them, and the blocks that
\* presets make of them. All are whole numbers of 512 bytes.
LEMMA SectorsFit ==
  ASSUME SizeOK, Shape, NEW t \in Devices
  PROVE  /\ size[t] \in Nat
         /\ Sector \in Nat \ {0} /\ sector[t] \in Nat \ {0}
         /\ sector[t] >= Sector /\ sector[t] % Sector = 0
         /\ DeviceSector(sector[t]) = sector[t]
         /\ Larger(sector[t], Sector) = sector[t]
         /\ Larger(BlockDefault, sector[t]) \in Nat
         /\ Larger(BlockDefault, sector[t]) >= sector[t]
         /\ Larger(BlockDefault, sector[t]) % sector[t] = 0
         /\ Larger(BlockDefault, sector[t]) % Sector = 0
<1>1. sector[t] \in Sectors /\ size[t] \in Nat
  BY SetupAssumption DEF Shape, SizeOK
<1>2. /\ Sector \in Nat \ {0} /\ BlockDefault \in Nat /\ BlockDefault >= Sector
      /\ sector[t] \in Nat /\ sector[t] >= Sector
  BY <1>1, SetupAssumption, PresetAssumption
<1>3. DeviceSector(sector[t]) = sector[t] /\ Larger(sector[t], Sector) = sector[t]
  BY <1>2 DEF DeviceSector, Larger
<1> DEFINE wide == Larger(BlockDefault, sector[t])
<1>4. wide \in Sectors \cup {BlockDefault} /\ wide \in Nat /\ wide >= sector[t] /\ wide >= Sector
  BY <1>1, <1>2 DEF Larger
<1> HIDE DEF wide
<1>5. ASSUME NEW a \in Sectors \cup {Sector, BlockDefault},
             NEW b \in Sectors \cup {Sector, BlockDefault}, a <= b
      PROVE  b % a = 0
  BY <1>5, PresetAssumption
<1>6. sector[t] % Sector = 0 /\ wide % sector[t] = 0 /\ wide % Sector = 0
  <2>1. Sector <= sector[t] /\ sector[t] <= wide /\ Sector <= wide
    BY <1>2, <1>4
  <2> QED  BY <1>1, <1>4, <1>5, <2>1
<1> QED  BY <1>1, <1>2, <1>3, <1>4, <1>6 DEF wide

\* Sectors counted in n bytes lie in them.
LEMMA SectorsLie ==
  ASSUME NEW n \in Nat, NEW s \in Nat \ {0}, NEW k \in Nat, k <= n \div s
  PROVE  k * s <= n
<1>1. n \div s \in Nat /\ (n \div s) * s <= n
  OBVIOUS
<1> DEFINE q == n \div s
<1> HIDE DEF q
<1>2. q \in Nat /\ k <= q /\ q * s <= n
  BY <1>1 DEF q
<1>3. k * s <= q * s
  BY <1>2
<1> QED  BY <1>2, <1>3

\* A device without one whole sector.
LEMMA NoSector ==
  ASSUME NEW n \in Nat, NEW s \in Nat \ {0}, ~ (n \div s > 0)
  PROVE  n < s
OBVIOUS

\* The parts of the presets on files and on whole devices (apply_preset_shape).
LEMMA FilePresetParts == \A c \in FilePresets : FilePart(c)
<1> SUFFICES ASSUME NEW c \in FilePresets PROVE FilePart(c)
  OBVIOUS
<1>0. PICK t \in Samples, w \in BOOLEAN : c = Shaped(t, FALSE, w, BlockDefault, TRUE)
  BY DEF FilePresets, Shaped
<1>1. /\ ~ c.raw /\ ~ c.direct /\ c.target = t /\ c.create = SampleSize
      /\ c.mode = "whole" /\ c.block = BlockDefault
  BY <1>0 DEF Shaped
<1>2. t \in Targets \ Devices
  BY PresetAssumption
<1> QED  BY <1>1, <1>2 DEF FilePart

LEMMA WholePresetParts ==
  ASSUME SizeOK, Shape, NEW t \in Devices,
         NEW c, c.raw, c.direct, c.create = NoSize, c.target = t, c.mode = "whole",
         c.block \in {sector[t], Larger(BlockDefault, sector[t])}
  PROVE  DevicePart(c)
<1>1. SectorSize(c) \in {sector[t], Sector}
  BY SectorsFit DEF SectorSize
<1>2. /\ sector[t] \in Nat \ {0} /\ c.block \in Nat /\ c.block >= sector[t]
      /\ c.block % sector[t] = 0
      /\ Sector \in Nat /\ sector[t] >= Sector /\ c.block % Sector = 0
  <2>1. sector[t] % sector[t] = 0
    BY SectorsFit
  <2> QED  BY <2>1, SectorsFit
<1>3. c.block >= SectorSize(c) /\ c.block % SectorSize(c) = 0
  BY <1>1, <1>2
<1> QED  BY <1>2, <1>3 DEF DevicePart, WholePart

\* One sector of a disk, or some of a boot partition.
LEMMA SectorPresetParts ==
  ASSUME SizeOK, Shape, NEW t \in Devices \ Partitions,
         NEW s \in Nat, NEW k \in Nat \ {0},
         s + k <= size[t] \div sector[t] \/ size[t] < sector[t],
         NEW c, c.raw, c.direct, c.create = NoSize, c.target = t, c.mode = "sector",
         c.start = s, c.count = k, c.block = DeviceSector(sector[t])
  PROVE  DevicePart(c)
<1>2. /\ sector[t] \in Nat \ {0} /\ size[t] \in Nat /\ DeviceSector(sector[t]) = sector[t]
      /\ SectorSize(c) = sector[t]
  BY SectorsFit DEF SectorSize
<1>3. (s + k) * sector[t] <= size[t] \/ size[t] < sector[t]
  <2> DEFINE m == s + k
  <2>1. m \in Nat
    OBVIOUS
  <2> HIDE DEF m
  <2>2. m <= size[t] \div sector[t] => m * sector[t] <= size[t]
    BY <1>2, <2>1, SectorsLie
  <2> QED  BY <2>2 DEF m
<1>4. SectorPart(c)
  BY <1>2, <1>3 DEF SectorPart
<1> QED  BY <1>4 DEF DevicePart

\* The first bytes of a partition (concurrent_partition_stress_flow).
LEMMA BytePresetParts ==
  ASSUME SizeOK, Shape, NEW t \in Devices,
         NEW block \in WriteSizes, NEW cap \in DataCaps
  PROVE  DevicePart([Shaped(t, TRUE, TRUE, block, FALSE)
                       EXCEPT !.mode = "byte", !.start = 0,
                              !.count = WriteRange(size[t], block, cap)])
<1> DEFINE c == [Shaped(t, TRUE, TRUE, block, FALSE)
                   EXCEPT !.mode = "byte", !.start = 0,
                          !.count = WriteRange(size[t], block, cap)]
<1>1. /\ c.raw /\ c.direct /\ c.create = NoSize /\ c.target = t
      /\ c.mode = "byte" /\ c.start = 0 /\ c.count = WriteRange(size[t], block, cap)
      /\ c.block = block
  BY DEF Shaped
<1> HIDE DEF c
<1>2. block \in Nat \ {0} /\ cap \in Nat /\ size[t] \in Nat
  BY SetupAssumption, PresetAssumption DEF SizeOK
<1>3. /\ WriteRange(size[t], block, cap) \in Nat
      /\ block <= WriteRange(size[t], block, cap)
      /\ WriteRange(size[t], block, cap) <= size[t] \/ size[t] < block
  BY <1>2 DEF WriteRange, Larger
<1>4. BytePart(c)
  BY <1>1, <1>2, <1>3 DEF BytePart
<1> QED  BY <1>1, <1>4 DEF DevicePart, c

\* What a preset is made of.
LEMMA PresetParts ==
  ASSUME SizeOK, Shape,
         profile \in PresetsOf(sector, size)
  PROVE  PresetProfile
<1> USE PresetAssumption
<1>1. ASSUME NEW c, FilePart(c) \/ DevicePart(c), profile = Unconfirmed(c)
      PROVE  PresetProfile
  BY <1>1 DEF PresetProfile, Unconfirmed
<1>2. CASE \E c \in FilePresets : profile = Unconfirmed(c)
  BY <1>1, <1>2, FilePresetParts
<1>3. CASE \E t \in Devices : \E c \in BlockPresets(t, sector[t], size[t]) : profile = Unconfirmed(c)
  <2>0. PICK t \in Devices : \E c \in BlockPresets(t, sector[t], size[t]) : profile = Unconfirmed(c)
    BY <1>3
  <2>1. PICK c \in BlockPresets(t, sector[t], size[t]) : profile = Unconfirmed(c)
    BY <2>0
  <2>2. CASE c \in SequentialPresets(t, sector[t]) \cup RandomPresets(t, sector[t])
    <3>1. /\ c.raw /\ c.direct /\ c.create = NoSize /\ c.target = t /\ c.mode = "whole"
          /\ c.block \in {DeviceSector(sector[t]), Larger(BlockDefault, DeviceSector(sector[t]))}
      BY <2>2 DEF SequentialPresets, RandomPresets, Shaped
    <3>2. DeviceSector(sector[t]) = sector[t]
      BY SectorsFit
    <3>3. DevicePart(c)
      BY <3>1, <3>2, WholePresetParts
    <3> QED  BY <1>1, <2>1, <3>3
  <2>3. CASE t \notin Partitions /\ c \in SectorPresets(t, sector[t], size[t])
    <3>0. PICK b \in SectorShapes(t, sector[t]), s \in SectorChoices(size[t], sector[t]) :
            c = OnSectors(b, s, 1)
      BY <2>3 DEF SectorPresets
    <3>1. PICK w \in BOOLEAN : b = Shaped(t, TRUE, w, DeviceSector(sector[t]), TRUE)
      BY DEF Shaped, SectorShapes
    <3>2. size[t] \in Nat /\ sector[t] \in Nat \ {0}
      BY SectorsFit
    <3>3. s \in Nat /\ (s + 1 <= size[t] \div sector[t] \/ size[t] < sector[t])
      <4>1. size[t] \div sector[t] \in Nat
        BY <3>2
      <4>2. CASE size[t] \div sector[t] > 0
        BY <3>0, <4>1, <4>2 DEF SectorChoices
      <4>3. CASE ~ (size[t] \div sector[t] > 0)
        BY <3>0, <3>2, <4>3, NoSector DEF SectorChoices
      <4> QED  BY <4>2, <4>3
    <3>4. DevicePart(c)
      <4>1. t \in Devices \ Partitions /\ 1 \in Nat \ {0}
        BY <2>3
      <4>2. /\ c.raw /\ c.direct /\ c.create = NoSize /\ c.target = t /\ c.mode = "sector"
            /\ c.start = s /\ c.count = 1 /\ c.block = DeviceSector(sector[t])
        BY <3>0, <3>1 DEF OnSectors, Shaped
      <4> QED  BY <3>3, <4>1, <4>2, SectorPresetParts
    <3> QED  BY <1>1, <2>1, <3>4
  <2> QED  BY <2>1, <2>2, <2>3 DEF BlockPresets
<1>4. CASE profile \in StressPresets(sector, size)
  <2>0. PICK boot \in Boots : \E t \in Partitions :
          \E region \in ReadRegions(BootSectors(size[boot], sector[boot])),
             block \in WriteSizes, cap \in DataCaps :
            profile = StressProfile(t, size[t], boot, sector[boot], region, block, cap)
    BY <1>4 DEF StressPresets
  <2>1. PICK t \in Partitions, region \in ReadRegions(BootSectors(size[boot], sector[boot])),
             block \in WriteSizes, cap \in DataCaps :
               profile = StressProfile(t, size[t], boot, sector[boot], region, block, cap)
    BY <2>0
  <2>2. t \in Devices /\ boot \in Devices \ Partitions
    BY SetupAssumption
  <2>3. DevicePart(profile.primary)
    BY <2>1, <2>2, BytePresetParts DEF StressProfile
  <2>4. size[boot] \in Nat /\ sector[boot] \in Nat \ {0} /\ DeviceSector(sector[boot]) = sector[boot]
    BY <2>2, SectorsFit
  <2>5. /\ region[1] \in Nat /\ region[2] \in Nat \ {0}
        /\ region[1] + region[2] <= size[boot] \div sector[boot] \/ size[boot] < sector[boot]
    <3> DEFINE q == size[boot] \div sector[boot]
    <3>1. q \in Nat
      BY <2>4
    <3>2. ~ (q > 0) => size[boot] < sector[boot]
      BY <2>4, NoSector
    <3>3. BootSectors(size[boot], sector[boot]) = Larger(q, 1)
      BY <2>4 DEF BootSectors
    <3> HIDE DEF q
    <3>4. Larger(q, 1) \in Nat /\ (q > 0 => Larger(q, 1) = q)
      BY <3>1 DEF Larger
    <3>5. /\ region[1] \in 0..(Larger(q, 1) - 1) /\ region[2] \in 1..Larger(q, 1)
          /\ region[1] + region[2] <= Larger(q, 1)
      BY <2>1, <3>3 DEF ReadRegions
    <3> QED  BY <3>1, <3>2, <3>4, <3>5 DEF q
  <2>6. ASSUME NEW c \in profile.secondaries
        PROVE  DevicePart(c) /\ c.mode = "sector"
    <3>1. c = OnSectors(Shaped(boot, TRUE, FALSE, DeviceSector(sector[boot]), FALSE),
                        region[1], region[2])
      BY <2>1, <2>6 DEF StressProfile
    <3>2. /\ c.raw /\ c.direct /\ c.create = NoSize /\ c.target = boot /\ c.mode = "sector"
          /\ c.start = region[1] /\ c.count = region[2]
          /\ c.block = DeviceSector(sector[boot])
      BY <3>1 DEF OnSectors, Shaped
    <3> QED  BY <2>2, <2>5, <3>2, SectorPresetParts
  <2> QED  BY <2>3, <2>6 DEF PresetProfile
<1> QED  BY <1>2, <1>3, <1>4 DEF PresetsOf

(***************************************************************************)
(* What becomes of such a part.                                             *)
(***************************************************************************)
\* A multiple of a sector that is not 0 is no less than the sector.
LEMMA MultipleAtLeast ==
  ASSUME NEW s \in Nat \ {0}, NEW b \in Nat \ {0}, b % s = 0
  PROVE  b >= s
<1>1. b < s => b % s = b
  OBVIOUS
<1> QED  BY <1>1

\* A sample file is prepared and has its blocks, or the file system has no room
\* for it, or it is an old one of less than a block.
LEMMA FilePasses ==
  ASSUME SizeOK, NEW c \in Part, FilePart(c)
  PROVE  \/ Prepared(c) /\ Inside(c) /\ c.block # 0 /\ Aligned(c)
         \/ Hindered(c, SizesAfter(c))
<1> USE SetupAssumption, PresetAssumption
<1>1. /\ ~ c.raw /\ ~ c.direct /\ c.target \in Targets /\ c.target \notin Devices
      /\ c.create = SampleSize /\ c.mode = "whole" /\ c.block = BlockDefault
      /\ SampleSize \in Nat \ {0} /\ BlockDefault \in Nat \ {0} /\ MinFile \in Nat
  BY DEF FilePart
<1>2. RuntimeSize(c) = SampleSize /\ CanStat(c)
  BY <1>1 DEF RuntimeSize, CanStat, Creates
<1>3. SUFFICES ASSUME ~ (Larger(SampleSize, MinFile) > FileLimit)
               PROVE  \/ Prepared(c) /\ Inside(c) /\ c.block # 0 /\ Aligned(c)
                      \/ SizesAfter(c)[c.target] # Absent /\ SizesAfter(c)[c.target] < c.block
  BY <1>1 DEF Hindered
<1>4. SampleSize <= FileLimit /\ MinFile <= FileLimit /\ FileLimit \in Nat
  BY <1>1, <1>3 DEF Larger
<1>5. Existing(c) \in Nat
  BY <1>1, <1>2 DEF Existing, Creates, CanStat, SizeOK
<1>6. MustGrow(c) => Requested(c) <= FileLimit
  <2>1. Requested(c) = Larger(Existing(c), Larger(Existing(c), MinFile))
    BY <1>1 DEF Requested
  <2>2. Requested(c) > Existing(c) => Requested(c) = MinFile
    BY <1>1, <1>5, <2>1 DEF Larger
  <2> QED  BY <1>4, <2>2 DEF MustGrow
<1>7. Prepared(c)
  BY <1>1, <1>2, <1>4, <1>6 DEF Prepared, CanSetLen
<1>8. FinalSize(c) \in 0..MaxWord
  BY <1>1, <1>2, FinalSizeFits
<1>9. SizesAfter(c)[c.target] = FinalSize(c) /\ TargetLen(c) = FinalSize(c)
  BY <1>1, <1>2 DEF SizesAfter, TargetLen, SizeOK
<1>10. StartOf(c) = 0 /\ LengthOf(c) = FinalSize(c)
  BY <1>1, <1>9 DEF StartOf, LengthOf
<1>11. FinalSize(c) # Absent
  BY <1>8
<1>12. CASE FinalSize(c) < c.block
  BY <1>9, <1>11, <1>12
<1>13. CASE ~ (FinalSize(c) < c.block)
  <2>1. FinalSize(c) >= c.block /\ FinalSize(c) > 0 /\ FinalSize(c) <= MaxWord
        /\ 0 <= MaxWord /\ 0 % c.block = 0
    BY <1>1, <1>8, <1>13
  <2>2. Inside(c)
    BY <1>8, <1>9, <1>10, <2>1 DEF Inside
  <2>3. Aligned(c)
    BY <1>1, <1>10, <2>1 DEF Aligned
  <2> QED  BY <1>1, <1>7, <2>2, <2>3
<1> QED  BY <1>12, <1>13

\* A part on a device is accepted, unless the device is smaller than its block or
\* the block that was entered is no whole number of sectors.
LEMMA DevicePasses ==
  ASSUME SizeOK, Shape, NEW c \in Part, DevicePart(c)
  PROVE  \/ Prepared(c) /\ Inside(c) /\ c.block # 0 /\ Aligned(c)
         \/ Hindered(c, size)
<1> USE SetupAssumption
<1>1. /\ c.raw /\ c.direct /\ c.target \in Devices /\ Prepared(c)
      /\ TargetLen(c) = size[c.target] /\ size[c.target] # Absent
  BY DEF DevicePart, Prepared, TargetLen, SizeOK
<1>2. size[c.target] \in 0..MaxWord /\ MaxWord \in Nat /\ SectorSize(c) \in Nat \ {0}
  BY <1>1, SectorsFit DEF SizeOK, SectorSize
<1>3. SUFFICES ASSUME ~ (size[c.target] < c.block), ~ (c.mode = "byte" /\ c.block % SectorSize(c) # 0)
               PROVE  Inside(c) /\ c.block # 0 /\ Aligned(c)
  BY <1>1 DEF Hindered
<1> DEFINE n == size[c.target]
           s == SectorSize(c)
<1> HIDE DEF n, s
<1>4. /\ TargetLen(c) = n /\ SectorSize(c) = s
      /\ n \in Nat /\ n <= MaxWord /\ s \in Nat \ {0} /\ MaxWord \in Nat
  BY <1>1, <1>2 DEF n, s
<1>5. CASE WholePart(c)
  <2>1. c.mode = "whole" /\ c.block \in Nat \ {0} /\ c.block % s = 0 /\ n >= c.block
    BY <1>3, <1>4, <1>5 DEF WholePart, n
  <2>2. StartOf(c) = 0 /\ LengthOf(c) = n
    BY <1>4, <2>1 DEF StartOf, LengthOf
  <2>3. 0 % c.block = 0 /\ 0 % s = 0
    BY <1>4, <2>1
  <2> QED  BY <1>4, <2>1, <2>2, <2>3 DEF Inside, Aligned
<1>6. CASE SectorPart(c)
  <2>1. /\ c.mode = "sector" /\ c.start \in Nat /\ c.count \in Nat \ {0} /\ c.block = s
        /\ (c.start + c.count) * s <= n
    BY <1>3, <1>4, <1>6 DEF SectorPart, n
  <2>2. StartOf(c) = c.start * s /\ LengthOf(c) = c.count * s
    BY <1>4, <2>1 DEF StartOf, LengthOf, OrElse
  <2> DEFINE a == c.start
             k == c.count
  <2> HIDE DEF a, k
  <2>3. a \in Nat /\ k \in Nat \ {0} /\ (a + k) * s <= n
    BY <2>1 DEF a, k
  <2>4. a * s \in Nat /\ k * s \in Nat /\ k * s >= s /\ a * s + k * s = (a + k) * s
    BY <1>4, <2>3
  <2>5. (a * s) % s = 0 /\ s % s = 0
    <3>1. (0 + a * s) % s = 0
      BY <1>4, <2>3, MultiplesAdd
    <3> QED  BY <1>4, <2>4, <3>1
  <2>6. a * s + k * s <= n
    BY <2>3, <2>4
  <2>7. StartOf(c) = a * s /\ LengthOf(c) = k * s
    BY <2>2 DEF a, k
  <2>8. a * s <= MaxWord /\ k * s <= MaxWord /\ k * s > 0
    BY <1>4, <2>4, <2>6
  <2> QED  BY <1>4, <2>1, <2>4, <2>5, <2>6, <2>7, <2>8 DEF Inside, Aligned
<1>7. CASE BytePart(c)
  <2>1. /\ c.mode = "byte" /\ c.start = 0 /\ c.count \in Nat /\ c.block \in Nat \ {0}
        /\ c.block <= c.count /\ c.count <= n /\ c.block % s = 0
    BY <1>3, <1>7 DEF BytePart, n, s
  <2>2. StartOf(c) = 0 /\ LengthOf(c) = c.count
    BY <2>1 DEF StartOf, LengthOf, OrElse
  <2>3. 0 % c.block = 0 /\ 0 % s = 0
    BY <1>4, <2>1
  <2>4. Inside(c)
    BY <1>4, <2>1, <2>2 DEF Inside
  <2>5. Aligned(c)
    BY <1>4, <2>1, <2>2, <2>3 DEF Aligned
  <2> QED  BY <2>1, <2>4, <2>5
<1> QED  BY <1>5, <1>6, <1>7 DEF DevicePart

(***************************************************************************)
(* A preset on its way.                                                     *)
(***************************************************************************)
\* The presets of a host depend on the lengths of its devices only.
LEMMA PresetsOfDevices ==
  ASSUME NEW n, NEW m, \A t \in Devices : n[t] = m[t]
  PROVE  PresetsOf(sector, n) = PresetsOf(sector, m)
<1>1. \A t \in Devices : BlockPresets(t, sector[t], n[t]) = BlockPresets(t, sector[t], m[t])
  OBVIOUS
<1>2. ASSUME NEW a, NEW b, \A t \in Devices : a[t] = b[t],
             NEW p \in PresetsOf(sector, a)
      PROVE  p \in PresetsOf(sector, b)
  <2>1. CASE p \in StressPresets(sector, a)
    <3>1. PICK boot \in Boots : \E t \in Partitions :
            \E region \in ReadRegions(BootSectors(a[boot], sector[boot])),
               block \in WriteSizes, cap \in DataCaps :
              p = StressProfile(t, a[t], boot, sector[boot], region, block, cap)
      BY <2>1 DEF StressPresets
    <3>2. PICK t \in Partitions : \E region \in ReadRegions(BootSectors(a[boot], sector[boot])),
               block \in WriteSizes, cap \in DataCaps :
              p = StressProfile(t, a[t], boot, sector[boot], region, block, cap)
      BY <3>1
    <3>3. a[t] = b[t] /\ a[boot] = b[boot]
      BY <1>2, SetupAssumption, PresetAssumption
    <3>4. \E region \in ReadRegions(BootSectors(b[boot], sector[boot])),
             block \in WriteSizes, cap \in DataCaps :
            p = StressProfile(t, b[t], boot, sector[boot], region, block, cap)
      BY <3>2, <3>3
    <3>5. p \in StressPresets(sector, b)
      BY <3>4 DEF StressPresets
    <3> QED  BY <3>5 DEF PresetsOf
  <2>2. CASE p \notin StressPresets(sector, a)
    <3>1. PICK c \in FilePresets \cup UNION {BlockPresets(t, sector[t], a[t]) : t \in Devices} :
            p = Unconfirmed(c)
      BY <1>2, <2>2 DEF PresetsOf
    <3>2. \A t \in Devices : BlockPresets(t, sector[t], a[t]) = BlockPresets(t, sector[t], b[t])
      BY <1>2
    <3>3. c \in FilePresets \cup UNION {BlockPresets(t, sector[t], b[t]) : t \in Devices}
      BY <3>1, <3>2
    <3> QED  BY <3>1, <3>3 DEF PresetsOf
  <2> QED  BY <2>1, <2>2
<1>3. PresetsOf(sector, n) \subseteq PresetsOf(sector, m)
  BY <1>2
<1>4. PresetsOf(sector, m) \subseteq PresetsOf(sector, n)
  BY <1>2
<1> QED  BY <1>3, <1>4

\* Devices keep their lengths.
LEMMA DevicesKeepLength ==
  ASSUME IInv, [Next]_vars, NEW t \in Devices
  PROVE  size'[t] = size[t]
<1>1. CASE UNCHANGED size
  BY <1>1
<1>2. ASSUME NEW c \in Parts, NEW next, Plan(c, next)
      PROVE  size'[t] = size[t]
  <2>1. SizeOK /\ size[t] # Absent /\ t \in Targets
    BY SetupAssumption DEF IInv, SizeOK
  <2>2. CASE size' = SizesAfter(c)
    BY <2>1, <2>2 DEF SizesAfter, SizeOK
  <2>3. CASE Creates(c) /\ size' = [size EXCEPT ![c.target] = Existing(c)]
    BY <2>1, <2>3 DEF Creates, SizeOK
  <2>4. CASE UNCHANGED size
    BY <2>4
  <2> QED  BY <1>2, <2>2, <2>3, <2>4 DEF Plan
<1> QED
  BY <1>1, <1>2 DEF Next, Validate, Assess, Mount, PlanPrimary, PlanSecondary, StartRun, vars, Parts

\* What hinders a part of a preset is an obstacle the operator can see.
LEMMA HinderedObstacle ==
  ASSUME PresetProfile, NEW c \in Parts, Hindered(c, size)
  PROVE  Obstacle
<1>1. c = profile.primary \/ (c.raw /\ c.mode = "sector")
  BY DEF PresetProfile, DevicePart, Parts
<1>2. CASE c = profile.primary
  BY <1>2 DEF Hindered, Obstacle
<1>3. CASE c.raw /\ c.mode = "sector"
  BY <1>3 DEF Hindered, Obstacle
<1> QED  BY <1>1, <1>2, <1>3

\* Sectors that lie in n bytes are no more than n.
LEMMA SectorsCount ==
  ASSUME NEW a \in Nat, NEW k \in Nat, NEW b \in Nat \ {0}, NEW n \in Nat, NEW m \in Nat,
         (a + k) * b <= n, n <= m
  PROVE  a + k <= m
<1> DEFINE x == a + k
<1>1. x \in Nat /\ x * b <= m
  OBVIOUS
<1> HIDE DEF x
<1>2. b - 1 \in Nat
  OBVIOUS
<1>3. x * (b - 1) \in Nat /\ x * b = x * (b - 1) + x
  BY <1>1, <1>2
<1>4. x <= m
  BY <1>1, <1>3
<1> QED  BY <1>4 DEF x

\* A preset passes validation, or its device has no sector (Profile::validate).
LEMMA PresetValid ==
  ASSUME SizeOK, Shape,
         PresetProfile
  PROVE  Valid(profile) \/ Obstacle
<1> USE SetupAssumption, PresetAssumption
<1> DEFINE c == profile.primary
<1>1. c \in Parts
  BY DEF Parts
<1>2. \A b \in Parts : CreatesSensibly(b)
  <2>1. SampleSize \in Nat \ {0} /\ NoSize \notin Nat
    OBVIOUS
  <2> QED  BY <2>1 DEF PresetProfile, DevicePart, FilePart, CreatesSensibly, Parts
<1>3. CASE FilePart(c)
  <2>1. BlockDefault \in Nat \ {0}
    OBVIOUS
  <2> QED  BY <1>2, <1>3, <2>1 DEF Valid, FilePart
<1>4. CASE DevicePart(c)
  <2>1. c.target \in Devices /\ size[c.target] \in 0..MaxWord
        /\ SectorSize(c) \in Nat \ {0} /\ size[c.target] # Absent
    BY <1>4, SectorsFit DEF DevicePart, SectorSize, SizeOK
  <2>2. CASE WholePart(c)
    BY <1>2, <2>1, <2>2 DEF WholePart, Valid
  <2>3. CASE SectorPart(c)
    <3>1. c.start # NoSize /\ c.count # NoSize /\ c.count # 0 /\ c.block \in Nat \ {0}
          /\ c.mode = "sector" /\ c.start \in Nat /\ c.count \in Nat
      BY <2>1, <2>3 DEF SectorPart
    <3>2. CASE size[c.target] < c.block
      BY <1>1, <2>1, <3>2, HinderedObstacle DEF Hindered
    <3>3. CASE (c.start + c.count) * c.block <= size[c.target]
      <4>1. size[c.target] \in Nat /\ size[c.target] <= MaxWord /\ MaxWord \in Nat
        BY <2>1
      <4>2. c.start + c.count <= MaxWord
        BY ONLY <3>1, <3>3, <4>1, SectorsCount
      <4> QED  BY <1>2, <3>1, <4>2 DEF Valid
    <3> QED  BY <2>3, <3>2, <3>3 DEF SectorPart
  <2>4. CASE BytePart(c)
    BY <1>2, <2>4 DEF BytePart, Valid
  <2> QED  BY <1>4, <2>2, <2>3, <2>4 DEF DevicePart
<1> QED  BY <1>3, <1>4 DEF PresetProfile

\* A preset is refused because of an obstacle.
PresetsInv == profile \in PresetsOf(sector, size) /\ step = "refused" => Obstacle

\* Planning a part of a preset refuses it because of an obstacle only.
LEMMA PlanRefuses ==
  ASSUME IInv,
         PresetProfile, NEW c \in Parts, NEW next, Plan(c, next), step' = "refused",
         next # "refused"
  PROVE  Obstacle'
<1>1. SizeOK /\ Shape /\ c \in Part /\ UNCHANGED <<profile, sector, mounted>>
  BY PartsAreParts DEF IInv, Shape, Plan, host
<1>2. /\ size' = SizesAfter(c)
      /\ ~ (Prepared(c) /\ Inside(c) /\ c.block # 0 /\ Aligned(c))
  BY DEF Plan
<1>3. Hindered(c, size')
  <2>1. CASE FilePart(c)
    BY <1>1, <1>2, <2>1, FilePasses
  <2>2. CASE DevicePart(c)
    <3>1. SizesAfter(c) = size
      BY <2>2 DEF SizesAfter, DevicePart
    <3> QED  BY <1>1, <1>2, <2>2, <3>1, DevicePasses
  <2> QED  BY <2>1, <2>2 DEF PresetProfile, Parts
<1>4. c = profile.primary \/ (c.raw /\ c.mode = "sector")
  BY DEF PresetProfile, DevicePart, Parts
<1>5. Parts' = Parts /\ profile' = profile /\ SectorSize(c)' = SectorSize(c)
  BY <1>1 DEF Parts, SectorSize
<1>6. CASE size'[c.target] # Absent /\ size'[c.target] < c.block
  BY <1>5, <1>6 DEF Obstacle
<1>7. CASE c = profile.primary
  BY <1>3, <1>5, <1>7 DEF Obstacle, Hindered
<1> QED  BY <1>3, <1>4, <1>6, <1>7 DEF Hindered

\* The assessment of a preset refuses what is mounted or not confirmed.
LEMMA AssessRefuses ==
  ASSUME PresetProfile, Assess, step' = "refused"
  PROVE  Obstacle'
<1>1. profile.primary.raw /\ ~ Allowed(profile.primary)
  BY DEF Assess
<1>2. profile.primary.target \in Devices
  BY <1>1 DEF PresetProfile, FilePart, DevicePart
<1>3. UNCHANGED <<profile, mounted>>
  BY DEF Assess, host
<1> QED  BY <1>1, <1>2, <1>3 DEF Allowed, Obstacle

\* Every step of a set-up keeps to the presets.
LEMMA PresetsStep == IInv /\ PresetsInv /\ [Next]_vars => PresetsInv'
<1> SUFFICES ASSUME IInv, PresetsInv, [Next]_vars,
                    (profile \in PresetsOf(sector, size))', step' = "refused"
             PROVE  Obstacle'
  BY DEF PresetsInv
<1>1. UNCHANGED <<profile, sector>>
  BY DEF Next, Validate, Assess, Mount, PlanPrimary, PlanSecondary, StartRun, Plan, host, vars
<1>2. profile \in PresetsOf(sector, size)
  <2>1. PresetsOf(sector, size') = PresetsOf(sector, size)
    BY DevicesKeepLength, PresetsOfDevices
  <2> QED  BY <1>1, <2>1
<1>3. PresetProfile
  BY <1>2, PresetParts DEF IInv
<1>4. CASE Validate
  <2>1. ~ Valid(profile)
    BY <1>4 DEF Validate
  <2>2. Obstacle
    BY <1>3, <2>1, PresetValid DEF IInv
  <2> QED  BY <1>4, <2>2 DEF Validate, host, Obstacle, Parts, SectorSize
<1>5. CASE Assess
  BY <1>3, <1>5, AssessRefuses
<1>6. CASE PlanPrimary
  BY <1>3, <1>6, PlanRefuses DEF PlanPrimary, Parts
<1>7. CASE PlanSecondary
  BY <1>3, <1>7, PlanRefuses DEF PlanSecondary, Parts
<1>8. CASE UNCHANGED vars
  <2>1. Obstacle
    BY <1>2, <1>8 DEF PresetsInv, vars
  <2> QED  BY <1>8, <2>1 DEF vars, host, Obstacle, Parts, SectorSize
<1> QED  BY <1>4, <1>5, <1>6, <1>7, <1>8 DEF Next, Mount, StartRun

\* The second target of a preset is a device, by blocks of its sectors.
LEMMA PresetSecondary ==
  ASSUME IInv, profile \in PresetsOf(sector, size), NEW c \in profile.secondaries
  PROVE  c.raw /\ c.block # 0
<1>1. DevicePart(c) /\ c.mode = "sector"
  BY PresetParts DEF IInv, PresetProfile
<1>2. c.raw /\ c.target \in Devices /\ c.block = sector[c.target]
  BY <1>1, SectorsFit DEF DevicePart, SectorPart, WholePart, BytePart, IInv
<1> QED  BY <1>2, SectorsFit DEF IInv

\* The buffers of a preset's part are aligned to its block, so that its workers get
\* them exactly if the block is a power of two.
LEMMA PresetAllocates ==
  ASSUME IInv, DirectChecked, PresetProfile, step = "run", NEW c \in Parts
  PROVE  Allocates(c) <=> PowerOfTwo(c.block)
<1> USE SetupAssumption, PresetAssumption
<1>1. ranges[c] # NoRange /\ Resolved(c)
  BY DEF IInv, Planned
<1>2. c.block \in Nat \ {0} /\ ranges[c].sector = SectorSize(c)
  BY <1>1 DEF Resolved, DirectChecked
<1>3. SectorSize(c) \in Nat \ {0} /\ SectorSize(c) >= Sector /\ c.block >= SectorSize(c)
  <2>1. CASE FilePart(c)
    BY <2>1 DEF FilePart, SectorSize
  <2>2. CASE DevicePart(c)
    <3>1. SectorSize(c) \in Nat \ {0} /\ c.block % SectorSize(c) = 0
      BY <1>1, <2>2 DEF DirectChecked, DevicePart
    <3>2. c.block >= SectorSize(c)
      BY <1>2, <3>1, MultipleAtLeast
    <3>3. sector[c.target] \in Nat /\ sector[c.target] >= Sector
      BY <2>2, SectorsFit DEF DevicePart, IInv
    <3>4. SectorSize(c) >= Sector
      BY <3>3 DEF SectorSize, Larger
    <3> QED  BY <3>1, <3>2, <3>4
  <2> QED  BY <2>1, <2>2 DEF PresetProfile, Parts
<1>4. Larger(Larger(c.block, ranges[c].sector), Sector) = c.block
  BY <1>2, <1>3 DEF Larger
<1> QED  BY <1>4 DEF Allocates

\* For all devices, lengths and sectors, a preset made from what the host tells does
\* not panic, is refused for what the operator can see only, starts at the sector
\* that was chosen, and does I/O in exactly the parts whose block is a power of two
\* (resolve_preset, run_profile_session, prepare_target, resolved_range,
\* validate_alignment, AlignedBuffer::new).
THEOREM PresetsReach == Spec => []PresetsReachTheirRange
<1>1. Init => DirectChecked /\ PanicHasCause /\ PresetsInv
  BY DEF Init, DirectChecked, PanicHasCause, PresetsInv
<1>2. IInv /\ DirectChecked /\ PanicHasCause /\ PresetsInv => PresetsReachTheirRange
  <2>1. SUFFICES ASSUME IInv, DirectChecked, PanicHasCause, PresetsInv,
                        profile \in PresetsOf(sector, size)
                 PROVE  /\ step # "panicked"
                        /\ step = "refused" => Obstacle
                        /\ step = "run" => \A c \in Parts :
                             /\ c \in Active <=> PowerOfTwo(c.block)
                             /\ c.mode = "sector" => ranges[c].start = c.start * sector[c.target]
    BY DEF PresetsReachTheirRange
  <2>2. PresetProfile
    BY <2>1, PresetParts DEF IInv
  <2>3. step # "panicked"
    BY <2>1, PresetSecondary DEF PanicHasCause
  <2>4. step = "refused" => Obstacle
    BY <2>1 DEF PresetsInv
  <2>5. ASSUME step = "run", NEW c \in Parts
        PROVE  /\ c \in Active <=> PowerOfTwo(c.block)
               /\ c.mode = "sector" => ranges[c].start = c.start * sector[c.target]
    <3>1. c \in Active <=> PowerOfTwo(c.block)
      BY <2>1, <2>2, <2>5, PresetAllocates DEF Active
    <3>2. ASSUME c.mode = "sector"
          PROVE  ranges[c].start = c.start * sector[c.target]
      <4>1. SectorPart(c)
        BY <2>2, <3>2 DEF PresetProfile, FilePart, DevicePart, WholePart, BytePart, Parts
      <4>2. ranges[c].start = StartOf(c)
        BY <2>1, <2>5 DEF IInv, Planned, DirectChecked
      <4>3. c.start # NoSize
        BY <4>1, SetupAssumption DEF SectorPart
      <4> QED  BY <3>2, <4>1, <4>2, <4>3 DEF StartOf, OrElse, SectorPart
    <3> QED  BY <3>1, <3>2
  <2> QED  BY <2>3, <2>4, <2>5
<1> QED
  BY <1>1, <1>2, DirectStep, PanicStep, PresetsStep, Invariance, PTL DEF Spec
=============================================================================
