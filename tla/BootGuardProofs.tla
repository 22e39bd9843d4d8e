--------------------------- MODULE BootGuardProofs ---------------------------
(***************************************************************************)
(* Proofs about BootGuard, for any partitions, holders and number of runs.  *)
(* The inductive invariant IInv says who owes what: a flag that is off its  *)
(* first value is owed a restoration by a live guard.                       *)
(***************************************************************************)
EXTENDS BootGuard, TLAPS

\* The flags the guards have found and cleared hold in the initial state.
LEMMA InitInvariant == Init => IInv
<1> SUFFICES ASSUME Init PROVE IInv
  OBVIOUS
<1>1. TypeOK
  <2>1. runs \in 1..MaxRuns
    BY GuardAssumption DEF Init
  <2>2. at \in [Holders -> {"idle", "read", "gone"} \cup Holding]
    BY DEF Init
  <2>3. lost \in BOOLEAN /\ allow \in BOOLEAN
    BY Zenon DEF Init
  <2>4. QED
    BY <2>1, <2>2, <2>3 DEF Init, TypeOK
<1>2. forceRo = atFirst /\ wasRo = {}
  BY DEF Init
<1>3. \A h \in Holders : at[h] = "idle"
  BY DEF Init
<1>4. QED
  BY <1>1, <1>2, <1>3 DEF IInv, NoSpuriousLock

\* The parts of IInv that speak of guards, named for the proofs below.
Honest == \A h \in Holders :
            /\ at[h] = "idle" => h \notin wasRo
            /\ at[h] = "read" => h \in wasRo
            /\ h \in wasRo /\ at[h] \in Holding \cup {"read"} => atFirst[DeviceOf[h]] = 1
Owed   == \A d \in Devices : ~lost /\ forceRo[d] # atFirst[d] =>
            \E h \in Holders : DeviceOf[h] = d /\ at[h] \in Holding /\ h \in wasRo

\* Every step of a holder, a kill and a new run keep the invariant.
LEMMA StepInvariant == IInv /\ [Next]_vars => IInv'
<1> SUFFICES ASSUME TypeOK, NoSpuriousLock, Honest, Owed, [Next]_vars
             PROVE  (TypeOK /\ NoSpuriousLock /\ Honest /\ Owed)'
  BY DEF IInv, Honest, Owed
<1> USE GuardAssumption DEF TypeOK, Holding, Flag, Step
<1>1. ASSUME NEW h \in Holders, Refuse(h)
      PROVE  (TypeOK /\ NoSpuriousLock /\ Honest /\ Owed)'
  BY <1>1 DEF Refuse, NoSpuriousLock, Honest, Owed
<1>2. ASSUME NEW h \in Holders, ReadFlag(h)
      PROVE  (TypeOK /\ NoSpuriousLock /\ Honest /\ Owed)'
  <2>1. TypeOK'
    BY <1>2 DEF ReadFlag
  <2>2. NoSpuriousLock'
    BY <1>2 DEF ReadFlag, NoSpuriousLock
  <2>3. Honest'
    BY <1>2 DEF ReadFlag, NoSpuriousLock, Honest
  <2>4. Owed'
    BY <1>2 DEF ReadFlag, Owed
  <2>5. QED
    BY <2>1, <2>2, <2>3, <2>4
<1>3. ASSUME NEW h \in Holders, ClearFlag(h)
      PROVE  (TypeOK /\ NoSpuriousLock /\ Honest /\ Owed)'
  <2>1. TypeOK'
    BY <1>3 DEF ClearFlag
  <2>2. NoSpuriousLock'
    BY <1>3 DEF ClearFlag, NoSpuriousLock
  <2>3. Honest'
    BY <1>3 DEF ClearFlag, Honest
  <2>4. Owed'
    <3> SUFFICES ASSUME NEW d \in Devices, ~lost', forceRo'[d] # atFirst'[d]
                 PROVE  \E g \in Holders :
                          DeviceOf[g] = d /\ at'[g] \in Holding /\ g \in wasRo'
      BY DEF Owed
    <3>1. at'[h] = "guarded" /\ h \in wasRo' /\ UNCHANGED <<atFirst, lost, wasRo>>
      BY <1>3 DEF ClearFlag, Honest
    <3>2. CASE d = DeviceOf[h]
      BY <3>1, <3>2
    <3>3. CASE d # DeviceOf[h]
      <4>1. forceRo'[d] = forceRo[d]
        BY <1>3, <3>3 DEF ClearFlag
      <4>2. PICK g \in Holders : DeviceOf[g] = d /\ at[g] \in Holding /\ g \in wasRo
        BY <3>1, <4>1 DEF Owed
      <4>3. at'[g] = at[g]
        BY <1>3, <3>3, <4>2 DEF ClearFlag
      <4>4. QED
        BY <3>1, <4>2, <4>3
    <3>4. QED
      BY <3>2, <3>3
  <2>5. QED
    BY <2>1, <2>2, <2>3, <2>4
<1>4. ASSUME NEW h \in Holders, ClearFails(h)
      PROVE  (TypeOK /\ NoSpuriousLock /\ Honest /\ Owed)'
  BY <1>4 DEF ClearFails, NoSpuriousLock, Honest, Owed
<1>5. ASSUME NEW h \in Holders, OpenFd(h)
      PROVE  (TypeOK /\ NoSpuriousLock /\ Honest /\ Owed)'
  BY <1>5 DEF OpenFd, NoSpuriousLock, Honest, Owed
<1>6. ASSUME NEW h \in Holders, DropGuard(h)
      PROVE  (TypeOK /\ NoSpuriousLock /\ Honest /\ Owed)'
  BY <1>6 DEF DropGuard, NoSpuriousLock, Honest, Owed
<1>7. ASSUME NEW h \in Holders, DropFails(h)
      PROVE  (TypeOK /\ NoSpuriousLock /\ Honest /\ Owed)'
  BY <1>7 DEF DropFails, NoSpuriousLock, Honest, Owed
<1>8. CASE Kill
  BY <1>8 DEF Kill, NoSpuriousLock, Honest, Owed
<1>9. CASE Rerun
  BY <1>9 DEF Rerun, AllGone, NoSpuriousLock, Honest, Owed
<1>10. CASE UNCHANGED vars
  BY <1>10 DEF vars, NoSpuriousLock, Honest, Owed
<1>11. QED
  BY <1>1, <1>2, <1>3, <1>4, <1>5, <1>6, <1>7, <1>8, <1>9, <1>10 DEF Next, HolderStep

\* The inductive invariant holds throughout.
THEOREM Invariance == Spec => []IInv
  BY InitInvariant, StepInvariant, PTL DEF Spec

\* Type correctness of the guards' state.
THEOREM TypeCorrect == Spec => []TypeOK
<1>1. IInv => TypeOK
  BY DEF IInv
<1>2. QED
  BY <1>1, Invariance, PTL

\* Once every guard is dropped and no run was lost, every partition is as
\* protected as it was at first: nobody is left to owe a restoration.
THEOREM FlagRestored == Spec => []LockRestored
<1>1. IInv => LockRestored
  <2> SUFFICES ASSUME IInv, AllGone, ~lost PROVE forceRo = atFirst
    BY DEF LockRestored
  <2>1. \A d \in Devices : forceRo[d] = atFirst[d]
    BY DEF IInv, AllGone, Holding
  <2>2. QED
    BY <2>1 DEF IInv, TypeOK
<1>2. QED
  BY <1>1, Invariance, PTL

\* The guards never protect a partition that was writable at first.
THEOREM NeverLocksWritable == Spec => []NoSpuriousLock
<1>1. IInv => NoSpuriousLock
  BY DEF IInv
<1>2. QED
  BY <1>1, Invariance, PTL

\* A guard alone on its partition keeps it writable: only its own steps reach
\* the flag, and it sets the flag only when it goes.
THEOREM AloneHolds == Spec => []SoleGuardHolds
<1>1. Init => SoleGuardHolds
  BY DEF Init, Holding, SoleGuardHolds
<1>2. TypeOK /\ SoleGuardHolds /\ [Next]_vars => SoleGuardHolds'
  <2> SUFFICES ASSUME TypeOK, SoleGuardHolds, [Next]_vars, NEW h \in Holders,
                      \A g \in Holders \ {h} : DeviceOf[g] # DeviceOf[h],
                      at'[h] \in Holding
               PROVE  forceRo'[DeviceOf[h]] = 0
    BY DEF SoleGuardHolds, Flag
  <2>0. at[h] \in Holding => forceRo[DeviceOf[h]] = 0
    BY DEF SoleGuardHolds, Flag
  <2> USE GuardAssumption DEF TypeOK, Step, Holding, Flag
  <2>1. ASSUME HolderStep(h) PROVE forceRo'[DeviceOf[h]] = 0
    BY <2>0, <2>1 DEF HolderStep, Refuse, ReadFlag, ClearFlag, ClearFails, OpenFd,
          DropGuard, DropFails
  <2>2. ASSUME NEW g \in Holders \ {h}, HolderStep(g)
        PROVE  forceRo'[DeviceOf[h]] = 0
    <3>1. DeviceOf[g] # DeviceOf[h]
      OBVIOUS
    <3>2. at'[h] = at[h]
      BY <2>2 DEF HolderStep, Refuse, ReadFlag, ClearFlag, ClearFails, OpenFd,
            DropGuard, DropFails
    <3>3. forceRo'[DeviceOf[h]] = forceRo[DeviceOf[h]]
      BY <2>2, <3>1 DEF HolderStep, Refuse, ReadFlag, ClearFlag, ClearFails, OpenFd,
            DropGuard, DropFails
    <3>4. QED
      BY <2>0, <3>2, <3>3
  <2>3. CASE Kill \/ Rerun
    BY <2>3 DEF Kill, Rerun
  <2>4. CASE UNCHANGED vars
    BY <2>0, <2>4 DEF vars
  <2>5. QED
    BY <2>1, <2>2, <2>3, <2>4 DEF Next
<1>3. QED
  BY <1>1, <1>2, TypeCorrect, PTL DEF Spec

\* A writer without the permission never gets past the refusal.
Refused == ~allow => \A h \in Writers : at[h] \in {"idle", "gone"}

\* It never holds a guard, in any run.
LEMMA RefusedOutside == Spec => []Refused
<1>1. Init => Refused
  BY GuardAssumption DEF Init, Refused
<1>2. TypeOK /\ Refused /\ [Next]_vars => Refused'
  <2> SUFFICES ASSUME TypeOK, Refused, [Next]_vars, ~allow', NEW w \in Writers
               PROVE  at'[w] \in {"idle", "gone"}
    BY DEF Refused
  <2> USE GuardAssumption DEF TypeOK, Refused, Step, Holding
  <2>1. ASSUME NEW h \in Holders, HolderStep(h) PROVE at'[w] \in {"idle", "gone"}
    BY <2>1 DEF HolderStep, Refuse, ReadFlag, ClearFlag, ClearFails, OpenFd,
          DropGuard, DropFails
  <2>2. CASE Kill
    BY <2>2 DEF Kill
  <2>3. CASE Rerun
    BY <2>3 DEF Rerun
  <2>4. CASE UNCHANGED vars
    BY <2>4 DEF vars
  <2>5. QED
    BY <2>1, <2>2, <2>3, <2>4 DEF Next
<1>3. QED
  BY <1>1, <1>2, TypeCorrect, PTL DEF Spec

\* A partition that only refused writers ask for keeps its flag: only a holder
\* past the refusal changes the flag of its partition.
THEOREM RefusalKeepsFlag == Spec => RefusedLeavesLocked
<1> DEFINE Kept(d) == (~allow /\ \A h \in Holders : DeviceOf[h] = d => h \in Writers)
                        => forceRo'[d] = forceRo[d]
<1>1. TypeOK /\ Refused /\ [Next]_vars => [\A d \in Devices : Kept(d)]_forceRo
  <2> SUFFICES ASSUME TypeOK, Refused, [Next]_vars, NEW d \in Devices, ~allow,
                      \A h \in Holders : DeviceOf[h] = d => h \in Writers
               PROVE  forceRo'[d] = forceRo[d]
    OBVIOUS
  <2> USE GuardAssumption DEF TypeOK, Refused, Step, Holding
  <2>1. ASSUME NEW h \in Holders, ClearFlag(h) \/ DropGuard(h)
        PROVE  forceRo'[d] = forceRo[d]
    <3>1. DeviceOf[h] # d
      BY <2>1 DEF ClearFlag, DropGuard
    <3>2. QED
      BY <2>1, <3>1 DEF ClearFlag, DropGuard
  <2>2. CASE UNCHANGED forceRo
    BY <2>2
  <2>3. (\E h \in Holders : ClearFlag(h) \/ DropGuard(h)) \/ UNCHANGED forceRo
    BY DEF Next, HolderStep, Refuse, ReadFlag, ClearFails, OpenFd, DropFails, Kill, Rerun, vars
  <2>4. QED
    BY <2>1, <2>2, <2>3
<1>2. QED
  BY <1>1, TypeCorrect, RefusedOutside, PTL DEF Spec, RefusedLeavesLocked
=============================================================================
