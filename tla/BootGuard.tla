------------------------------ MODULE BootGuard ------------------------------
(***************************************************************************)
(* The write-protection flag of eMMC boot partitions                        *)
(* (/sys/class/block/<dev>/force_ro) under the guards of boot_partition.rs: *)
(* every thread that opens a boot partition through open_fd (engine.rs)     *)
(* first takes a BootPartitionGuard, which reads the flag, clears it if it  *)
(* was set, and sets it again when dropped. Guards of several workers on    *)
(* one partition know nothing of each other.                                *)
(***************************************************************************)
EXTENDS Naturals

CONSTANTS
  Devices,     \* boot partitions
  Holders,     \* threads that open one in a run
  DeviceOf,    \* the partition each of them opens
  Writers,     \* those whose workload writes
  MaxRuns      \* the model's bound on consecutive runs of the program

ASSUME GuardAssumption ==
  /\ DeviceOf \in [Holders -> Devices]
  /\ Writers \subseteq Holders
  /\ MaxRuns \in Nat \ {0}

VARIABLES
  forceRo,   \* the flag of each partition: 1 protects it
  atFirst,   \* the flags before the first run
  at,        \* where each holder is
  wasRo,     \* holders whose guard read a 1 (BootPartitionGuard.was_readonly)
  allow,     \* safety.allow_boot_partition_write of this run's profile
  lost,      \* a run was killed, so that no destructor ran, or a destructor failed
  runs       \* runs so far

vars == <<forceRo, atFirst, at, wasRo, allow, lost, runs>>

Holding == {"guarded", "open"}

TypeOK ==
  /\ forceRo \in [Devices -> {0, 1}]
  /\ atFirst \in [Devices -> {0, 1}]
  /\ at \in [Holders -> {"idle", "read", "gone"} \cup Holding]
  /\ wasRo \subseteq Holders
  /\ allow \in BOOLEAN
  /\ lost \in BOOLEAN
  /\ runs \in 1..MaxRuns

Init ==
  /\ forceRo \in [Devices -> {0, 1}]
  /\ atFirst = forceRo
  /\ at = [h \in Holders |-> "idle"]
  /\ wasRo = {}
  /\ allow \in BOOLEAN
  /\ lost = FALSE
  /\ runs = 1

Flag(h) == forceRo[DeviceOf[h]]

Step(h, from, to) ==
  /\ at[h] = from
  /\ at' = [at EXCEPT ![h] = to]

(***************************************************************************)
(* open_fd and BootPartitionGuard::unlock.                                  *)
(***************************************************************************)
\* Write access without the permission is refused before the guard.
Refuse(h) ==
  /\ h \in Writers /\ ~allow
  /\ Step(h, "idle", "gone")
  /\ UNCHANGED <<forceRo, atFirst, wasRo, allow, lost, runs>>

\* Mutant: the guard assumes the partition writable.
AssumeWritable(h) ==
  /\ h \in Writers => allow
  /\ Step(h, "idle", "guarded")
  /\ UNCHANGED <<forceRo, atFirst, wasRo, allow, lost, runs>>

\* Mutant: the guard is taken before the permission is asked.
ReadFlagFirst(h) ==
  /\ \/ Flag(h) = 1 /\ wasRo' = wasRo \cup {h} /\ Step(h, "idle", "read")
     \/ Flag(h) = 0 /\ Step(h, "idle", "guarded") /\ UNCHANGED wasRo
  /\ UNCHANGED <<forceRo, atFirst, allow, lost, runs>>

\* A flag already clear makes the guard a no-op; reading it may fail, which
\* fails the worker with no guard built.
ReadFlag(h) ==
  /\ h \in Writers => allow
  /\ \/ Flag(h) = 1 /\ wasRo' = wasRo \cup {h} /\ Step(h, "idle", "read")
     \/ Flag(h) = 0 /\ Step(h, "idle", "guarded") /\ UNCHANGED wasRo
     \/ Step(h, "idle", "gone") /\ UNCHANGED wasRo
  /\ UNCHANGED <<forceRo, atFirst, allow, lost, runs>>

ClearFlag(h) ==
  /\ Step(h, "read", "guarded")
  /\ forceRo' = [forceRo EXCEPT ![DeviceOf[h]] = 0]
  /\ UNCHANGED <<atFirst, wasRo, allow, lost, runs>>

\* Writing the flag fails: no guard exists, nothing will be restored.
ClearFails(h) ==
  /\ Step(h, "read", "gone")
  /\ UNCHANGED <<forceRo, atFirst, wasRo, allow, lost, runs>>

\* Mutant: the failing open forgets the guard instead of dropping it.
OpenFdLeaks(h) ==
  /\ \/ Step(h, "guarded", "open")
     \/ Step(h, "guarded", "gone")
  /\ UNCHANGED <<forceRo, atFirst, wasRo, allow, lost, runs>>

\* libc::open under the guard.
OpenFd(h) ==
  /\ Step(h, "guarded", "open")
  /\ UNCHANGED <<forceRo, atFirst, wasRo, allow, lost, runs>>

\* Mutant: the flag is set whether or not the guard found it set.
DropGuardAlways(h) ==
  /\ at[h] \in Holding
  /\ at' = [at EXCEPT ![h] = "gone"]
  /\ forceRo' = [forceRo EXCEPT ![DeviceOf[h]] = 1]
  /\ UNCHANGED <<atFirst, wasRo, allow, lost, runs>>

\* Drop, at the end of the worker, after a failed open, or while unwinding.
DropGuard(h) ==
  /\ at[h] \in Holding
  /\ at' = [at EXCEPT ![h] = "gone"]
  /\ IF h \in wasRo THEN forceRo' = [forceRo EXCEPT ![DeviceOf[h]] = 1]
                    ELSE UNCHANGED forceRo
  /\ UNCHANGED <<atFirst, wasRo, allow, lost, runs>>

\* The write that restores the flag fails; drop has nobody to tell.
DropFails(h) ==
  /\ at[h] \in Holding /\ h \in wasRo
  /\ at' = [at EXCEPT ![h] = "gone"]
  /\ lost' = TRUE
  /\ UNCHANGED <<forceRo, atFirst, wasRo, allow, runs>>

(***************************************************************************)
(* The process.                                                             *)
(***************************************************************************)
AllGone == \A h \in Holders : at[h] = "gone"

\* A signal ends the process: no destructor runs.
Kill ==
  /\ ~AllGone
  /\ lost' = TRUE
  /\ at' = [h \in Holders |-> "gone"]
  /\ UNCHANGED <<forceRo, atFirst, wasRo, allow, runs>>

\* The program is run again, with any profile.
Rerun ==
  /\ AllGone
  /\ runs < MaxRuns
  /\ runs' = runs + 1
  /\ at' = [h \in Holders |-> "idle"]
  /\ wasRo' = {}
  /\ allow' \in BOOLEAN
  /\ UNCHANGED <<forceRo, atFirst, lost>>

HolderStep(h) ==
  \/ Refuse(h) \/ ReadFlag(h) \/ ClearFlag(h) \/ ClearFails(h) \/ OpenFd(h)
  \/ DropGuard(h) \/ DropFails(h)

Next == (\E h \in Holders : HolderStep(h)) \/ Kill \/ Rerun

Spec == Init /\ [][Next]_vars

(***************************************************************************)
(* Properties.                                                              *)
(***************************************************************************)
\* However the guards of several workers interleave, and whichever step fails
\* or unwinds, once all are dropped the partition is as protected as before
\* the first run; only a killed process or a restoring write that fails can
\* leave it otherwise.
LockRestored ==
  AllGone /\ ~lost => forceRo = atFirst

\* The guards never protect a partition that was writable to begin with, not
\* even after a kill.
NoSpuriousLock ==
  \A d \in Devices : forceRo[d] = 1 => atFirst[d] = 1

\* A guard that is alone on its partition keeps it writable while it lives.
SoleGuardHolds ==
  \A h \in Holders :
    (\A g \in Holders \ {h} : DeviceOf[g] # DeviceOf[h])
      => (at[h] \in Holding => Flag(h) = 0)

\* Without the permission, a partition that only writing workers ask for is
\* never unlocked: the refusal comes before the guard.
RefusedLeavesLocked ==
  [][\A d \in Devices :
       (~allow /\ \A h \in Holders : DeviceOf[h] = d => h \in Writers)
         => forceRo'[d] = forceRo[d]]_forceRo

\* The strengthening of LockRestored and NoSpuriousLock that is inductive: a
\* flag that is off its first value is owed a restoration by a live guard, and
\* guards only restore what was set at first.
IInv ==
  /\ TypeOK
  /\ NoSpuriousLock
  /\ \A h \in Holders : at[h] = "idle" => h \notin wasRo
  /\ \A h \in Holders : at[h] = "read" => h \in wasRo
  /\ \A h \in Holders :
       h \in wasRo /\ at[h] \in Holding \cup {"read"} => atFirst[DeviceOf[h]] = 1
  /\ \A d \in Devices :
       ~lost /\ forceRo[d] # atFirst[d] =>
         \E h \in Holders : DeviceOf[h] = d /\ at[h] \in Holding /\ h \in wasRo

\* boot_partition.rs:5 "unlocks a boot partition for the duration of its
\* lifetime": while a guard lives its partition is writable.
GuardKeepsUnlocked ==
  \A h \in Holders : at[h] \in Holding => Flag(h) = 0
=============================================================================
