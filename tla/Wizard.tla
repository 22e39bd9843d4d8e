------------------------------- MODULE Wizard -------------------------------
(***************************************************************************)
(* The profile wizard (wizard in app.rs): fifteen questions that can be      *)
(* answered, gone back over or cancelled, the assumptions applied after each *)
(* answer, and the review at the end.                                        *)
(*                                                                           *)
(* Sizes are in units of 512 bytes. Questions whose answers constrain        *)
(* nothing else (queue depth, workers, seed, direct I/O, sampler, name) are  *)
(* steps without a field. The host stands still while the wizard runs.       *)
(***************************************************************************)
EXTENDS Naturals, FiniteSets

CONSTANTS
  Targets,          \* paths: devices, files and directories
  TargetInfo,       \* what the host says of each
  Inside,           \* a directory's emmc-lab.bin, else the path itself
  DefaultTarget,    \* default_target_path of each mode
  Seeds,            \* profiles the wizard may be started from
  BlockFloor,       \* 4096 bytes
  BlockMax,         \* the largest block that may be entered
  WholeMinimum,     \* 64 MiB, the least size of a file that is used whole
  CreateMinimum,    \* 1 MiB, the least size that may be entered for a file
  FreeSpace,        \* what statvfs reports
  UnknownSize       \* 1 GiB, for a target whose size is unknown

Modes == {"whole", "sector", "byte"}

Profiles ==
  [target : Targets, create : Nat, write : BOOLEAN,
   mode : Modes, start : Nat, count : Nat, block : Nat \ {0},
   exact : BOOLEAN, verify : BOOLEAN, durable : BOOLEAN, health : BOOLEAN,
   confirmed : BOOLEAN]

ASSUME WizardAssumption ==
  /\ TargetInfo \in [Targets -> [raw : BOOLEAN, exists : BOOLEAN, dir : BOOLEAN,
                                 mmc : BOOLEAN, size : Nat, sector : Nat \ {0}]]
  /\ Inside \in [Targets -> Targets]
  /\ \A t \in Targets :
       /\ ~ TargetInfo[Inside[t]].dir
       /\ TargetInfo[t].raw => ~ TargetInfo[t].dir
       /\ ~ TargetInfo[t].dir => Inside[t] = t
  /\ DefaultTarget \in [BOOLEAN -> Targets]
  /\ \A raw \in BOOLEAN : TargetInfo[DefaultTarget[raw]].raw = raw
  /\ Seeds \subseteq Profiles
  /\ {BlockFloor, BlockMax, WholeMinimum, CreateMinimum, FreeSpace, UnknownSize}
       \subseteq Nat \ {0}
  \* The kernel's sectors are powers of two, as is the floor.
  /\ \A t \in Targets :
       LET s == TargetInfo[t].sector IN s <= BlockFloor => BlockFloor % s = 0

VARIABLES
  wstep,     \* the question, the review, or why the wizard is not asking
  profile,   \* the profile so far
  runNow     \* WizardOutcome.run_now

wizardVars == <<wstep, profile, runNow>>

NoProfile == [target |-> "none"]

Questions == 0..14
Review    == 15
Accepted  == 16
Cancelled == 17
Invalid   == 18
Idle      == 19

WizardInit == wstep = Idle /\ profile = NoProfile /\ runNow = FALSE

Less0(a, b) == IF a > b THEN a - b ELSE 0
AtLeast(a, b) == IF a > b THEN a ELSE b

Raw(p) == TargetInfo[p.target].raw

\* wizard_target_hints. A size of 0 is unknown.
Hints(p) ==
  LET info == TargetInfo[p.target]
  IN [sector |-> IF info.raw THEN info.sector ELSE 1,
      size   |-> IF info.raw \/ (info.exists /\ ~ info.dir) THEN info.size ELSE p.create,
      health |-> info.raw /\ info.mmc]

(***************************************************************************)
(* apply_wizard_assumptions and what it calls.                              *)
(***************************************************************************)
Floor(p, h) == IF p.mode = "sector" THEN h.sector ELSE AtLeast(h.sector, BlockFloor)

\* Mutant: a block that is a whole number of sectors is rounded up as well.
NextBlock(p, h) ==
  IF p.block < Floor(p, h) THEN Floor(p, h) ELSE (p.block \div h.sector + 1) * h.sector

\* Up to the floor, and to a whole number of sectors.
NormalBlock(p, h) ==
  IF p.block < Floor(p, h) THEN Floor(p, h)
  ELSE ((p.block + h.sector - 1) \div h.sector) * h.sector

\* In a sector range the block must fit, and start where a block can.
Fits(p, h, b) == b <= p.count * h.sector /\ (p.start * h.sector) % b = 0

Candidates(p, h) ==
  {b \in Floor(p, h)..NormalBlock(p, h) : b % h.sector = 0 /\ Fits(p, h, b)}

AdjustedBlock(p, h) ==
  IF p.mode # "sector" THEN NormalBlock(p, h)
  ELSE IF Candidates(p, h) = {} THEN h.sector
  ELSE CHOOSE b \in Candidates(p, h) : \A c \in Candidates(p, h) : c <= b

RangeEnd(p, h) ==
  CASE p.mode = "whole"  -> WholeMinimum
    [] p.mode = "sector" -> (p.start + p.count) * h.sector
    [] p.mode = "byte"   -> p.start + p.count

MinimumSize(p, h) == AtLeast(RangeEnd(p, h), AtLeast(p.block, Floor(p, h)))

\* A tenth of the free space, when the size is not known.
SuggestedSize(p, h) ==
  IF h.size # 0 THEN AtLeast(h.size, MinimumSize(p, h))
                ELSE AtLeast(FreeSpace \div 10, MinimumSize(p, h))

CreateSize(p, h) ==
  IF Raw(p) \/ TargetInfo[p.target].exists THEN 0
  ELSE AtLeast(IF p.create # 0 THEN p.create ELSE SuggestedSize(p, h), MinimumSize(p, h))

Assume(p0, h) ==
  LET p == [p0 EXCEPT !.target = Inside[p0.target]]
  IN [p EXCEPT !.create  = CreateSize(p, h),
               !.block   = AdjustedBlock(p, h),
               !.verify  = p.write /\ p.verify,
               !.durable = p.write /\ p.durable,
               !.health  = p.health /\ h.health]

\* Profile::validate. The name is never empty and there is one stop rule.
ValidProfile(p) ==
  /\ Raw(p) => p.create = 0
  /\ ~ Raw(p) => ~ TargetInfo[p.target].dir
  /\ p.block > 0
  /\ p.mode # "whole" => p.count > 0

(***************************************************************************)
(* Moving between the questions.                                            *)
(***************************************************************************)
BeginWizard(seed) ==
  /\ wstep = Idle
  /\ profile' = seed
  /\ wstep' = 0
  /\ UNCHANGED runNow

\* An answer: the assumptions are applied with the hints from before it.
Answered(q, p) ==
  /\ profile' = Assume(p, Hints(profile))
  /\ wstep' = q + 1
  /\ UNCHANGED runNow

\* The first question takes Back for an answer that changes nothing.
Back ==
  \/ wstep = 0 /\ Answered(0, profile)
  \/ /\ wstep \in 1..14
     /\ wstep \in {10, 11} => profile.write
     /\ wstep' = wstep - 1
     /\ UNCHANGED <<profile, runNow>>

CancelWizard ==
  /\ wstep \in 0..15
  /\ wstep \in {10, 11} => profile.write
  /\ wstep' = Cancelled
  /\ UNCHANGED <<profile, runNow>>

(***************************************************************************)
(* The questions.                                                           *)
(***************************************************************************)
AskMode ==
  /\ wstep = 0
  /\ \E raw \in BOOLEAN : Answered(0, [profile EXCEPT !.target = DefaultTarget[raw]])

\* The path, and for a file that is missing the size to create it with. Going
\* back from the size asks for the path again, which stays as it was entered.
AskTarget ==
  /\ wstep = 1
  /\ \E t \in Targets :
       LET p       == [profile EXCEPT !.target = Inside[t]]
           least   == AtLeast(MinimumSize(p, Hints(p)), CreateMinimum)
           missing == ~ Raw(p) /\ ~ TargetInfo[p.target].exists
       IN /\ TargetInfo[t].raw = Raw(profile)
          /\ IF missing
               THEN \/ \E c \in least..AtLeast(FreeSpace, least) :
                         Answered(1, [p EXCEPT !.create = c])
                    \/ profile' = p /\ UNCHANGED <<wstep, runNow>>
               ELSE Answered(1, [p EXCEPT !.create = 0])

AskWorkload ==
  /\ wstep = 2
  /\ \E w \in BOOLEAN : Answered(2, [profile EXCEPT !.write = w])

SizeOr1G(h) == IF h.size = 0 THEN UnknownSize ELSE h.size

\* Mutant: the number of sectors is taken for the last one.
SectorAfterLast(h) == SizeOr1G(h) \div h.sector

LastSector(h) == Less0(SizeOr1G(h) \div h.sector, 1)

SectorRanges(h) ==
  {r \in [start : 0..LastSector(h), count : 1..(LastSector(h) + 1)] :
     r.start + r.count <= LastSector(h) + 1}

ByteRanges(h) ==
  {r \in [start : 0..Less0(SizeOr1G(h), 1), count : 1..SizeOr1G(h)] :
     r.start + r.count <= SizeOr1G(h)}

Ranged(mode, r) ==
  [profile EXCEPT !.mode = mode, !.start = r.start, !.count = r.count]

\* Going back from a number asks for the kind of range again.
AskRange ==
  LET h == Hints(profile)
  IN /\ wstep = 3
     /\ \/ Answered(3, Ranged("whole", [start |-> 0, count |-> 0]))
        \/ \E r \in SectorRanges(h) : Answered(3, Ranged("sector", r))
        \/ \E r \in ByteRanges(h) : Answered(3, Ranged("byte", r))
        \/ \E s \in 0..LastSector(h) :
             Answered(3, [Ranged("sector", [start |-> s, count |-> 1])
                            EXCEPT !.block = h.sector, !.exact = TRUE])

AskStopRule ==
  /\ wstep = 4
  /\ \E exact \in BOOLEAN : Answered(4, [profile EXCEPT !.exact = exact])

AskBlockSize ==
  /\ wstep = 5
  /\ \E b \in Floor(profile, Hints(profile))..BlockMax :
       Answered(5, [profile EXCEPT !.block = b])

\* Queue depth, workers, seed, direct I/O, sampler, name.
AskOther == wstep \in {6, 7, 8, 9, 13, 14} /\ Answered(wstep, profile)

\* A read workload is not asked about verification and durability.
AskVerify ==
  /\ wstep = 10
  /\ \E v \in IF profile.write THEN BOOLEAN ELSE {FALSE} :
       Answered(10, [profile EXCEPT !.verify = v])

AskDurability ==
  /\ wstep = 11
  /\ \E d \in IF profile.write THEN BOOLEAN ELSE {FALSE} :
       Answered(11, [profile EXCEPT !.durable = d])

AskHealth ==
  /\ wstep = 12
  /\ \E on \in BOOLEAN : Answered(12, [profile EXCEPT !.health = on])

(***************************************************************************)
(* The review.                                                              *)
(***************************************************************************)
\* The assumptions once more, with hints of the profile as it is now.
FinishProfile(p) == Assume(p, Hints(p))

\* A profile that does not validate ends the wizard with an error.
Leave(outcome, run) ==
  /\ wstep = Review
  /\ profile' = FinishProfile(profile)
  /\ IF ValidProfile(profile') THEN wstep' = outcome /\ runNow' = run
                               ELSE wstep' = Invalid /\ UNCHANGED runNow

ReviewStep ==
  \/ \E run \in BOOLEAN : Leave(Accepted, run)
  \/ Leave(Cancelled, FALSE)
  \/ Leave(0, FALSE)

WizardStep ==
  \/ Back \/ CancelWizard
  \/ AskMode \/ AskTarget \/ AskWorkload \/ AskRange \/ AskStopRule \/ AskBlockSize
  \/ AskOther \/ AskVerify \/ AskDurability \/ AskHealth
  \/ ReviewStep

WizardNext == (\E seed \in Seeds : BeginWizard(seed)) \/ WizardStep

WizardSpec == WizardInit /\ [][WizardNext]_wizardVars

(***************************************************************************)
(* Properties.                                                              *)
(***************************************************************************)
\* Whatever way the questions are gone through, the reviewed profile validates, a read
\* workload in it neither verifies nor syncs, its block is made of sectors of the
\* target it has by then, and opening it in the wizard again would change nothing
\* (wizard, apply_wizard_assumptions). Where a byte range starts is not aligned by the
\* wizard and not looked at here.
ReviewedIsNormal ==
  /\ wstep # Invalid
  /\ wstep = Accepted =>
       /\ FinishProfile(profile) = profile
       /\ ~ profile.write => ~ profile.verify /\ ~ profile.durable
       /\ profile.block % Hints(profile).sector = 0

\* The range that was asked for lies inside the target that was asked for, also
\* when the target was changed after the range: on a device or a file that is
\* there and holds a sector, or in the file that will be created.
ReviewedRangeFits ==
  wstep = Accepted /\ profile.mode # "whole" =>
    LET h == Hints(profile)
    IN h.size >= h.sector => RangeEnd(profile, h) <= h.size

(***************************************************************************)
(* Their strengthening.                                                     *)
(***************************************************************************)
\* A range is not empty, and lies inside what it was chosen on.
RangeFits(p) ==
  p.mode # "whole" =>
    /\ p.count > 0
    /\ Hints(p).size >= Hints(p).sector => RangeEnd(p, Hints(p)) <= Hints(p).size

\* The path is that of a device or a file once a question has been answered, and
\* the range is asked for after it: going back before the question is asking again.
WizardInv ==
  /\ wstep \in 0..19
  /\ wstep \in 0..16 => profile \in Profiles
  /\ wstep \in 1..16 => Inside[profile.target] = profile.target
  /\ wstep \in 4..16 => RangeFits(profile)
  /\ ReviewedIsNormal
=============================================================================
