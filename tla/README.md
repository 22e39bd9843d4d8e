# Verification of emmc-lab

emmc-lab runs eMMC and file workloads from a console: it writes and reads a
target with several threads, verifies what it wrote, samples its counters,
writes checkpoints, checks integrity baselines around a run, and keeps every
session in files. Other commands sample the processes of the host, trace which
file a disk access belongs to, and discard ranges of a device. This directory
holds TLA+ modules of the parts where order, failure and boundaries decide
whether a report can be believed or data survives, configurations that
model-check them with TLC, and theorems checked by TLAPS.

Paths below are relative to the crate's `src/`.

## 1. Inventory

| Component | State it keeps | Operations | What is hard | What makes it correct | Modules |
|---|---|---|---|---|---|
| Workload engine, threads (`engine.rs` 153-455, 580-660) | worker threads, the shared `next_op`, `GlobalCounters`, stop flag, result and checkpoint channels | spawn, take an index, do an I/O, fail, unwind, join, collect | interleaving of workers, a failing sibling, a secondary target that only the flag stops, channels that close by dropping senders | the call returns, leaves no thread, reports success only for a whole run, counts each index once | `WorkerPool`, `Engine`, `WorkloadRun` |
| Workload engine, sampling (`engine.rs` 195-285) | last reading, intervals, last multiple, channel, `checkpoint.json` | sample, send a checkpoint, save, drain | counters move under the sampler; the writer lags | no operation lost between intervals; checkpoints consistent, ordered, drained | `Sampler`, `Engine` |
| Workload engine, I/O (`engine.rs` 600-770, 840-900) | buffers, `writes_since_sync`, `VerifyStats`, page cache and medium | read, write, read-back, `should_sync`, final `fdatasync` | short and failing I/O, retries, other workers on the same block, stop in the middle | loss at a crash bounded by the durability mode; counts agree; mismatches have a cause | `WorkerIo` |
| Target preparation (`profile.rs` validation, `system.rs` 543-587, `engine.rs` 457-540, 773-800) | the target's file or device, the resolved range | validate, assess safety, create or grow, resolve, align, compute an offset | u64 overflow, zero, ranges that end inside a block, secondary targets with fewer checks, a sector or a mount that is not what the engine takes it for | no byte outside the range or the target is touched; no device is written without consent | `TargetSetup` |
| Presets (`presets.rs`, stress flow of `app.rs`) | none | build a profile from a device | values read from the host when the preset is chosen, not when it runs | every preset reaches the range it was made for | `Presets` |
| Boot partition guard (`boot_partition.rs`, `engine.rs` 790-838) | `force_ro` of each boot partition, guards | unlock, open, drop | several guards on one flag, kills, failing sysfs writes | the flag ends as it began | `BootGuard` |
| Session run (`app.rs` 295-471) and integrity commands (473-560, `integrity.rs`) | the `SessionRecord`, baselines, verifications, sampler thread | capture, run, verify, save, load | each step can fail after others were saved; kills; a thread to signal and join | Ok means all is on disk; mismatches reach the record; nothing saved is dropped | `SessionRun` |
| Session store (`storage.rs`) | `session.json`, `intervals.jsonl`, `checkpoint.json`, profiles | save, load, list, delete | torn files; another process on the same store | a saved session loads; only the session that was confirmed is deleted | `SessionRun`, `Console` |
| Wizard and prompts (`app.rs` 1044-1609, 2961-3372) | step number, draft profile | answer, back, cancel, assume, review | answers changed after later ones were given; steps that advance by themselves | every way through ends in a valid profile that fits its target, or in a cancel | `Wizard` |
| Console menus and flows (`app.rs`) | screen, last profile, terminal mode, guards | choose, run, repeat, save, list, delete, monitor | every error leaves through a terminal that was taken; consent is a flag that travels | the terminal is restored; a destructive run was agreed to | `Console` |
| Diagnostics sampler (`diagnostics.rs`) | previous snapshot, totals by pid and file | snapshot, apply deltas, report | processes that come, go and reuse a pid while they are read; counters the kernel hands on; devices that count a byte twice or are cut from the report | no number is charged more than was done under it and taken over by it; the report's excess has a cause | `LiveSampler`, `SessionRun` |
| LBA trace and file map (`filemap.rs`, `lba_trace.rs`) | extents, owner index | map in batches, build the index, look up | files that move, holes, mounts, units | an owner is given only for a sector it owns, at its own offset | `FileTrace` |
| Discard (`discard.rs`, `geometry.rs`) | results so far | validate, open, ioctl, several rounds | mounts made between the check and the ioctl; a path that the check does not recognise | only a device that was free, and at most one stale discard for each mount | `DiscardTest` |
| Command line (`cli.rs`, `main.rs`) | none | dispatch | - | one invocation, one command | `Cli` |
| Health (`health.rs`, `health_compare.rs`) | none | decode registers, compare | field boundaries | pure functions with unit tests | - |
| Host inspection and doctor (`system.rs`, `geometry.rs`) | none | read sysfs and procfs | parsing | as the files say | - |
| Rendering and exports (`ui.rs`, `report.rs`) | none | format | layout | - | - |

How they interact. The command line starts one command. The console and the
wizard build profiles, from questions, presets or saved files, and hand them to
`run_profile_session`, which validates, assesses the raw target, captures
baselines, starts the diagnostic sampler and calls
`execute_profile_with_checkpointing`. The engine prepares the targets and starts
its threads; workers share atomics with the interval sampler, the sampler and
the caller share a channel with the checkpoint writer, and everybody reads one
stop flag. A worker that opens a boot partition takes a guard on a flag of the
kernel. On the way back the session verifies the baselines, joins its sampler
and saves the record; `integrity capture` and `integrity verify` load and save
that record later, and the console of any process lists and deletes it.

The hazards of this code, each at its line, are in `PROJECT.json` with the
properties that cover them.

## 2. Modules

    WorkloadRun              what a run promises its caller
        ^ implemented by
    Engine                   the calling thread: spawn, join, collect
      EXTENDS Sampler        interval sampler, checkpoint channel, writer
        EXTENDS WorkerPool   worker threads, dispenser, stop flag, counters
    WorkerIo                 inside a worker: write, read-back, sync, end
    Presets                  the profiles of the quick presets
      EXTENDS TargetSetup    from a profile to the bytes workers may touch
    BootGuard                force_ro under the guards of several workers
    SessionRun               a session around the run, its files, later commands
    Cli                      the other commands of the binary
      EXTENDS Console        menus, flows, terminal, store beside another process
      EXTENDS Wizard         the fifteen questions
      EXTENDS LiveSampler    processes, deltas, report
      EXTENDS DiscardTest    probe and test among mounts
      EXTENDS FileTrace      file map, owner index, lookup
    SumTheorems              sums over sets and sequences, quotients
    EngineProofs  WorkerIoProofs  BootGuardProofs  SessionRunProofs
    TargetSetupProofs        with Presets
    ConsoleProofs            with Wizard
    CliProofs                LiveSampler, DiscardTest, FileTrace; all of Cli
    MC*.tla, *.cfg           small instances for TLC

The split follows what each question needs. Which worker holds which index does
not depend on the bytes the I/O moves, so `WorkerPool` has one outcome per I/O;
what a crash loses does not depend on joins, so `WorkerIo` has no calling
thread; where an offset lies is decided before any worker runs, so `TargetSetup`
is sequential. `SessionRun` sees the workload as one step that succeeds or fails
while regions change, which is what `WorkloadRun` allows. `Console` sees a run as
`SessionRun` shows it from the outside and the wizard as any profile `Wizard` may
end in. The components of `Cli` share no state, as one invocation is one command.

### WorkerPool, Sampler, Engine

`pc[w]` is the place of a worker in `worker_loop`: `open`, `check` (head of the
loop, stop flag), `take` (dispenser or clock), `io`, `failing` (the flag is set,
the `Err` not yet sent), and an end: `done`, `failed` (its `Err` is sent) or
`panicked`. `clock` is the stop condition of the profile, a count or a runtime, which
elapses once. `nextOp` is `next_op`; `fetch_add`
comes before the comparison, so it runs past the limit as in the code. `counts`
are the counters by outcome; a retry is counted and its index is gone. A failing
worker sets the flag (`FailToStart`) and then sends its error (`SendErr`), and
others may see the flag in between; a panicking one does neither.
Secondary workers have their own dispenser and counters, which the run drops,
and leave only by the flag.

`Sampler` reads the counters, appends an interval with the difference from its
last reading, and sends a checkpoint whenever `iteration / every_n_iterations`
has passed a new multiple (several at once give one checkpoint). `writer` takes
from the channel, saves, and ends when the channel is empty and no sender is
left; `senders` are the caller's clone and the sampler's. `unsaved` is a history
variable, the multiple of the last checkpoint whose save failed.

`Engine.main` follows the calling thread through its joins in the code's order:
primaries, stop flag, sampler, secondaries, drop of the sender, writer, results.
A panic seen by a join is reported first, then a secondary's error, then a
primary's.

`WorkloadRun` is the contract: indices are attempted in any order, a worker may
break, the run ends with `ok` only if nothing broke and, when a count was asked
for, every index was attempted, and after it ended nothing changes. `Engine`
implements it for both stop conditions by the refinement `Contract` (attempted =
indices handed out and settled, broken = a worker failed or unwound).

### WorkerIo

Each block has a content in the page cache and on the medium, named by who wrote it,
for which operation, and whether the write was whole. `Start`, `TakeOp`, `Read`,
`WriteDone`, `WriteFails`, `ReadBack`, `SyncOrNot` and `Finish` are the sections of
`worker_loop_with_fd` in order; `Fault` spends one of `MaxFaults` failures of the
device. The pattern depends on the operation's index modulo the word width, so two
indices may give the same bytes, and `Equal` compares what the checksum compares.
The cadence of a batch sync is a number, zero among them, or none (`NoCadence`): a
zero is a one to `should_sync`. `touched` is a history variable: the workers whose
block was changed between their write and their read-back.

### TargetSetup and Presets

Validation, assessment, preparation, resolution, alignment check and buffer
allocation are steps over a profile with one primary and at most one secondary
part; each step accepts, refuses or panics. All words are bounded by `MaxWord`
with the arithmetic of the code at each place: plain addition is a panic above
the word, `saturating_mul` saturates, a division by zero is a panic. `Offset`
is `compute_offset`, over a bounded set of indices; the splitmix permutation is
the arbitrary function `Mix`. The last state knows every byte range a worker may
touch.

`sector` is the logical block size that each device has, and that the device below
each file has; `SectorSize` is what the engine takes for it, which is 512 for files
and, for want of a `queue` directory, for partitions. `mounted` are the devices that
are mounted; the assessment sees those that are not `hidden` (mountinfo names another
source, `/dev/root` or a mapped device, or cannot be read) under the path of the
profile as it is spelt (`named`: `/dev` and the kernel's name). `Mount` is somebody who
mounts a device after the assessment (`late`). A link whose last component is the kernel
name of another device is left out here; it is one of the requests of `DiscardTest`.

`Presets` gives the profiles of `resolve_preset` and of the stress flow as sets:
what was told of the sectors when the preset was chosen (`told`) is a parameter, as
are the sizes. A write size may be any number of the prompt, a power of two or not.

### BootGuard

Every thread's guard in the steps of `BootPartitionGuard::unlock` and `drop`
with the failures of each, under the permission check of `open_fd`. The process
may be killed at any step and run again with another profile.

### SessionRun

`phase` follows `run_profile_session`; `saving` is the place inside
`save_session`, which truncates and fills `session.json` and then
`intervals.jsonl`. A kill or a write error may fall between any two of these.
`durable` is a history variable, the last record that was on disk in full. The
commands load `session.json`, which has no intervals, and save it extended.
Overwriting a region is possible during the run and between commands.

### Console

`screen` is the menu, prompt or command that has the operator's attention; a
step from one to the next is what `run_menu` and its flows do for one choice.
`TakeTerminal` makes a `RawTerminalGuard` or `PromptTerminalGuard`, which
remembers in `found` how the terminal was; `Goes` and `Drops` leave a screen
through the guard's `drop`, whatever the reason. `TakeFails` is the way out of a
guard that could not be made, which may leave the terminal raw (`mute`), and
`Interrupt` is a Ctrl-C. A profile is its target, whether it writes, and
`confirmed`; `agreed` and `given` are history variables, the partitions for which
"Proceed?" was answered with yes and whether a confirmed profile was there from
the start. `OtherStep` is another emmc-lab that begins, writes and deletes
sessions of the same store between any two steps of this one, while this one
lists (`ListSessions`), loads each for its line (`LoadEntries`) and deletes by
the position picked.

### Wizard

`wstep` is the question, with five ends; `Answered` applies an answer and then
`Assume`, the assumptions of `apply_wizard_assumptions` in the order of the code:
creation size, block floor and alignment, durability and verification by workload
and device. Each `Ask...` action offers every answer the prompt accepts for the
current draft; `Back` is the back edge with the steps it skips, `ReviewStep`
accepts, cancels or goes back. Sizes are in units of 512 bytes.

### LiveSampler

`procs` are the processes of the host, which do I/O, exit, fork under a free
number (a reused one too) and change owner between any two reads of the
sampler. A snapshot reads one number after the other (`ReadPid`), `Apply`
charges the growth to numbers and shares it among paths, `MakeReport` sets it
against the devices, `Finish` ends the sampling.

The host is that of Linux where the sampler depends on it. A parent that waits for a
child that ended takes over the child's whole counter (`Exit`), also what it did before
the command started, and `apply_proc_delta` (`diagnostics.rs` 461-466) charges that to
the parent once more. A byte that is written is counted at once and gets to a device
later, or never if it is deleted first (`pending`, `WriteBack`). `Routes` says by which
way a byte gets to the drive it ends on: its disk counts it, its partition too, and so
does every device stacked on them. Drives may be plugged in later, when the report does
not know them from the start. `Busiest` is the cut of `summarize_devices` to 16 entries
before `summarize_device_storage_totals` leaves partitions out.

`did`, `reaped`, `stayed`, `first`, `early` and `owed` are history variables: what was
done under each number and what it took over from children, who stayed and could be
read, what the first snapshot held, what had been done when the devices were first
looked at, and what of the processes' bytes is on no device of the last report.

### DiscardTest

A request has the device its path leads to (`disk`), the device its last component
names (`base`), and whether the path is a device's own, `/dev` and the name (`full`):
the kernel opens the first, the geometry is the second's, and the mount check compares
letters (`Free`). `Validate` looks at the geometry and at the mounts that mountinfo
shows (`InMountinfo`), `OpenDisk` opens, and `DiscardRange` makes the ioctl; a probe, a
test or both are rounds of these. `Mount` and `Unmount` are others. `dirty` and `mounts`
count the discards that hit a filesystem and the mounts made meanwhile. `Recognised`
are the requests whose mounts the check can know of.

### FileTrace

A file is a sequence of the partition's block numbers, `Hole` or `Delayed`.
`Fiemap` reads extents in batches of `Batch`, `Fibmap` block by block with the
merging of the code, `AddOwners` turns them into owned ranges of the disk under
the partition found by the longest mount point, and `TraceEvent` looks a sector
up. Extents and the index are sets: their order is that of their starts, and
the sort of the code leaves ranges with one start in an order that nothing may
rely on. The library promises of a binary search that it finds a match if the
comparison is in order for the sector (`InOrder`), any match if there are
several, and that whatever it finds compared equal; `SearchResults` says just
that. `Move` lets the file system move a file at any time; `torn` are the files
moved while they were being mapped.

### Cli

The composition: the command line picks one command and only its component moves.
`run` and the integrity commands are in `SessionRun`.

## 3. Runs

| Run | Instance | What it shows |
|---|---|---|
| `Engine` | 2 primaries, 1 secondary, 2 indices, by count or by runtime, a primary and the secondary may fail to start, any worker may unwind; 2 samples, a checkpoint for each operation, failing saves; fair | The call returns (`Returns`), reports honestly (`OkIsClean`, `ImplementsContract`), leaves no thread (`NothingOutlivesTheRun`), gives each index once (`IndexAccounting`), keeps the second target busy (`SecondariesCoverPrimaries`). Intervals add up to the counters read (`IntervalsTelescope`); checkpoints are consistent, ordered and drained (`CheckpointsConsistent`, `CheckpointMovesForward`, `LastCheckpointSaved`) |
| `EngineExactCount` (violated) | 2 primaries, exact count of 2 | A run of N operations may perform fewer |
| `WorkerIo` | 2 workers, 2 blocks, 3 operations, 2 device failures, 9 plans: three modes, a cadence of two, of zero and none, random or sequential, verify or not, read, write or mixed | `LossIsBounded`, `EndIsDurable`, `CountsAgree`, `MismatchHasCause` |
| `BootGuard` | 2 workers on one partition, 1 writing secondary on another, 2 process runs | `LockRestored`, `NoSpuriousLock`, `SoleGuardHolds`, `RefusedLeavesLocked` |
| `BootGuardOverlap` (violated) | the same, 1 process run | The first guard to go locks the partition under the other |
| `TargetSetup` | a file that is absent, small or large, a disk that may be a boot partition, a partition; all addressing modes with absent, zero, small and overflowing values; block sizes from 0; devices with sectors of 2 and 4 bytes, where 2 stands for 512; 4-bit words; mounts that are hidden, or made after the assessment; a path spelt otherwise; every preset | `OffsetsInRange`, `DirectIoAligned`, `DeviceNeedsConsent`, `PrimaryNeverPanics`, `PresetsReachTheirRange`, `FilesOnlyGrow` |
| `TargetSetupSecondary` (violated) | the same | A raw secondary target is written without assessment |
| `SessionRun` | 2 regions, up to 2 intervals, 2 commands, every failure; fair | `OkIsOnDisk`, `MismatchesAreReported`, `KilledRunKeepsBaselines`, `StoredOnlyGrows`, `RunEnds` |
| `SessionRunBaseline` (violated) | 1 region, no failures but the kill | A kill in a save loses the saved baselines |
| `Cli` | see below | Console: `RawWritesAreAgreed`, `TerminalRestored`, `DeletesAreConfirmed`. Wizard: `ReviewedIsNormal`, `ReviewedRangeFits`. Sampler: `NeverOvercharged`, `StayersAreExact`, `ReportAddsUp`. Trace: `HitIsTheByte`. Discard: `StaleDiscardsAreFew` |
| `CliViewReport` (violated) | the same | Viewing the report after a run starts the run again |
| `DiscardAlias` (violated) | the same | A relative or aliased path to a mounted partition passes the mount check of `discard` |

Why the bounds are enough. Two primaries are the least that race for an index or an
offset, and the third worker is the secondary; more of a kind are symmetric to them,
and the theorems of `EngineProofs` hold for any number. Two indices let one worker
hold one while the other finds the count used up. The two primaries are alike, so
one of them is enough to fail at the start. With a checkpoint for each operation,
two samples cross no multiple, one, or two at once, and the channel may hold two
checkpoints, of which either save may fail. Three operations on two blocks make
workers meet and come back to a block; two faults let a failure be followed by a
failing sync. In `TargetSetup` a word of 4 bits with sectors of 2 bytes reaches
every overflow, sizes 5, 12 and 8 give ranges that end inside a block, a partition
whose sector is 4 and is taken for 2 makes device and engine disagree, and a write
size of 6 is no power of two. Two process runs are the least in which a kill in one
matters to the next. Two regions tell a verification of the region's own baseline
from another's.

In `Cli`: a file, a disk and a partition are the kinds of targets consent tells
apart; one saved profile and two sessions let a confirmation be saved and come back,
and a session be deleted and another take its place in a list. The wizard's disk has
three sectors of 1024 bytes, so that a sector is two units, and its file three
units, so that a block of two does not divide it; every order of the questions is
explored, because the step counter and the draft are the whole state. Two numbers,
two ticks, two bytes and two changes of processes or devices let a number be given
up and taken again between and within two snapshots, lead one process through two
readings of growth, and let a parent take over a child's byte. A disk with a
partition, a device stacked on it, a disk that is plugged in and a report of three
devices are the least in which a byte is counted twice, cut off and missed. The
discards know a disk, two of its partitions and the root disk, each by its own path
and by another, and two mounts, one more than a round needs. Two files on partitions
of one disk, with holes, unwritten blocks, blocks out of order and shared, a batch
of one extent so that every file needs several, four mount tables (nested, covered,
on another disk) and a move of either file at any step.

Bounds that are the model's own: `OpLimit` in a timed run, `MaxSamples`,
`MaxFaults`, `MaxRuns`, `MaxCommands`, `MaxIntervals`, `MaxIndex`, `MaxWord`,
`FileLimit` (the room on the file system), `TopDrives` (16 in the code), `MaxFiles`,
`MaxSessions`, `MaxTicks` (the duration asked for), `MaxBytes`, `MaxChanges`,
`MaxMounts`, and `Filter`, the sectors that are looked up.

Deadlock is checked in the engine runs, where a returned call stutters
explicitly. The other modules stop when the process has ended or a bound is
reached and say `CHECK_DEADLOCK FALSE`.

### Fairness

`Engine.FairSpec`: the calling thread, each worker, the sampler and the writer
are scheduled when they can move (they are OS threads; every I/O and save
returns), and the clock of a timed run passes its limit. No fairness for
panics. Whether a join can finish is left to the model: a join is enabled only
when its thread has ended. `SessionRun.FairSpec`: the same for the thread of the
run, its saves and the sampler, which polls its signal between samples.
No fairness for failures, kills, commands or a change of contents. The commands of
`Cli` wait for an operator or for a clock at every step that could repeat; there is
nothing the code promises to reach without them, so no liveness is stated there.

## 4. Theorems

All hold for every value of the constants under the named `ASSUME`s of the
module proved about: `PoolAssumption` and `SamplerAssumption` (`WorkerPool`,
`Sampler`), `WorkerIoAssumption`, `GuardAssumption`, `SetupAssumption` and
`ProfilesAssumption`, `SessionAssumption`, `ConsoleAssumption`,
`SamplerAssumption` of `LiveSampler`, `DiscardAssumption`, `PresetAssumption`,
`WizardAssumption`, `FileTraceAssumption`. TLC evaluates them in the runs. They
give the constants their types, say that workers, processes and files are
finitely many, keep the markers for "none" apart from real values, and say of the
world only what holds of it: a partition has one disk, devices have a size and
sectors of 512 bytes at least, a byte is counted by the drive it ends on, the
kernel's sectors are powers of two, so of two the smaller divides the larger, the
blocks of a file reach to its end, and what a directory stands for is no directory.

`SumTheorems`. Counters, intervals and bytes are compared as sums, which the
community modules define as folds: a `CHOOSE` of a function on the subsets of the
index set that is defined by recursion. The provers have no induction with an operator
for its hypothesis, but a set of subsets of a finite set has a minimal element
(`WFMin` of the library, with the strict subset order), and a set can say what the
hypothesis would: `SubsetInduction` is that induction, `SumsExist` uses it to show
that the function exists, `SumUnfolds` that the sum is what its definition says,
and `SumUpdate`, `SumPlus` and their kin what a step does to one. Quotients,
which the solver knows as facts on single terms only, have their lemmas there too.

`EngineProofs`. `Spec => []IInv`, with the parts
- `JoinedHaveEnded`: the caller is past a join only when its threads have ended;
- `ChannelClosed`: the writer ends on an empty channel with no sender, so nothing
  can follow;
- `FailureIsKept`: a failed worker's error is in the channel and a panic is in
  `joinError` once joined, so neither can vanish before `Collect`;
- `ReportHasCause`: the converse;
- `StopHasCause`: the flag is set by a failure or after the primaries, and
  without either a primary of a counted run ends only on a count that is used up;
- `IndexHeldOnce`: an index is held by one worker from `fetch_add` to its end;
- `SamplerBehind`: the sampler's last reading is not ahead of the counters.

From it: `TypeCorrect`, `OkIsHonest`, `NothingLeft`, `SecondariesStay`. Neither
`OkIsClean` nor `NothingOutlivesTheRun` is inductive: they speak of the state at the
return only, and the parts carry each failure through the joins. `Implements` proves
the refinement of `WorkloadRun` for counted and timed runs: each step settles an
index, breaks a worker, ends the run, or stutters. `ChannelInOrder` says that from
`checkpoint.json` through the channel to the sampler the checkpoints are for ever
higher multiples, the last for the sampler's own unless its save failed:
`CheckpointsMoveForward` and `LastCheckpointKept` follow, for any cadence and any
number of queued checkpoints. `IndicesAccounted` is by sums: a step that settles an
index adds one to one outcome, and no step counts an index that it did not hold.
`SamplingInv` says that the intervals recorded so far take the first reading to the
latest one and that every checkpoint, wherever it is, carries a prefix of them; from
it `IntervalsAddUp` and `CheckpointsAgree`.

`WorkerIoProofs`. `IoInv` has one part for each promise: `WrittenOrTouched`
(between write and read-back a block holds what was written, or somebody is to
blame) gives `MismatchIsCaused`; `UnsyncedAreCounted` (no more unsynced
blocks than writes since the last sync: an overwritten block is counted twice, a
failed sync resets nothing) with `SyncedInTime` gives `BoundedLoss`; `LastSyncComes`
(a block that is not durable has a writer who still comes to the last sync) gives
`DurableAtEnd`. `CountsAlwaysAgree`: the verification failures that the workers
counted for themselves, by class and as a whole, sum up to the shared counter.

`BootGuardProofs`. `IInv` says that a flag off its first value is owed a
restoration by a live guard that read a 1, and that only flags that were set at
first are restored. From it `FlagRestored` and
`NeverLocksWritable`; `AloneHolds` and `RefusalKeepsFlag` have invariants of their
own. All are for any number of guards on any partitions.

`TargetSetupProofs`. `IInv` says that a planned part has a range inside its
target, of whole blocks' start, in a word that does not overflow, and that the
sizes only grew. From it `InRange`: a worker's offset plus its block is inside
the range and the target for every index and mixing function; `OnlyGrow`; and
`Consent`. `BlockFits` is the arithmetic: an index modulo the number of whole
blocks ends inside the range. `Consent` cannot say that a mounted device is never
written, because one can be; it says that its path was spelt otherwise, that mountinfo
did not name it, or that it was mounted after the assessment, and nothing else.
`PanicHasCause` (past validation the profile is valid, and a panic is a secondary's)
gives `NoPrimaryPanic`. `DirectChecked` (a part with direct I/O that has a range starts
on a sector as the engine takes it and has blocks of whole ones) gives `DirectAligned`,
which speaks of the device's own sector: the two differ on files and partitions of
devices with larger sectors (`Misjudged`), and only there the theorem falls back to 512.
`PresetsReach` is for every device and every way a preset is told of it: `PresetParts`
sorts the parts of presets into four shapes, `FilePasses` and `DevicePasses` follow a
part through the planning and name the only obstacles, and `PresetsInv` keeps the place
where a planned part starts until the run. It has no hypothesis on the block: a part
does I/O if its block is a power of two, and does none otherwise, although it passed
every check.

`SessionRunProofs`. `SessionInv` says what has been done at each step
(`DoneInOrder`) and written at each place of a save (`SavedInOrder`), that a
`session.json` that loads is the last one written in full and the record in memory
has all of it (`RecordExtends`), where the baselines are (`BaselinesStored`) and
that the verifications tell the truth (`VerifiedTruly`). From it `OkOnDisk`,
`KilledKeepsBaselines`, `MismatchesReported`, `OnlyGrows`, for any number of regions.
Only the history variable `durable` can say what a torn file has lost, and
`RecordExtends` is what ties it to the record.

`ConsoleProofs`. `ConsoleInv`: the terminal is as found or a live guard knows how it
was (`GuardKept`); every confirmation in hand, kept or saved has a cause
(`FlagsHaveCause`); what is listed had something stored when it was loaded, and
its id is not used again while others come and go (`EntriesWereStored`). From it
`WritesAgreed`, `TerminalIsRestored`, `DeletionsConfirmed`. For the wizard, `WizardInv`
says that the target is a device or a file once its question is behind, that the
range fits it once that question is, and that what left the review is normal.
`AdjustedTwice` (a block that was adjusted need not be adjusted again, whichever of
the code's ways the first adjustment took) makes the assumptions settle after one
application (`FinishedTwice`), and with `AssumedFits` (they do not push the range out of
its target) the answers keep the invariant: `ReviewIsNormal`, `ReviewFits`.

`CliProofs`, the sampler. `SamplerInv`: what was charged, what will be charged for
what has been read, and what would be charged for what can be read now was done under
that number or taken over from its children (`CoveredByWork`); the counter of a process
that stays grows from reading to reading (`CounterGrows`). From it `NoOvercharge` and
`StayersExact`, for any processes, families, durations and reuse of numbers. `ReportInv`
adds that every byte a process did ended on one drive or is pending, that a drive counts
at least what ended on it, and that the shares of a number among its files are together
not more than it grew by. `ReportsAddUp` follows; it is two bounds, not an equation. Its
second one names what processes can be seen to exceed devices by: bytes between the two
first looks, bytes of children, bytes on drives that the report does not show, and
pending ones. There is none for the converse, the unattributed bytes: a stacked device
counts a byte once more.

The discards. For paths the command recognises and mounts it is told of, a validated
discard whose device has been mounted since is one that mount still owes (`StaleInv`),
hence `FewStaleDiscards`. For the others there is no such bound: `DiscardAlias` shows it.

The trace. `HitIsTheByte` speaks of an answer; `TraceInv` of everything that went
into the index before. Of a file on the disk as a whole, the extents read so far
give the right place of each sector they have (`Right`), have no sector twice
(`Apart`), and have every sector up to where the mapping is (`Whole`). By FIEMAP they are
the extents that end by `from`, in whatever batches; block by block `from` is a
multiple of the block, and a block either lengthens the one extent it continues or
is one of its own. The ranges of a mapped file are made of such extents
(`Owners`, `Indexed`), and the files still to come are where they were (`Still`).
So a range that has a sector has it at its offset; and when no sector of the disk
is shared, ranges do not meet, hence they are in order for every sector and the
search finds what is there. `HitsAreRight` is this for any layouts, batches, mount
tables and moves. `TraceInv` speaks of all natural numbers, so TLC does not evaluate it.

The command. `CommandIsItsParts`: a behaviour of `Cli` is one of each part.
`CommandIsSafe` has every property of the run `Cli` for it.

Model-checked only: the liveness properties `Returns` and `RunEnds`, which need
fairness and `ENABLED`. Every invariant and action property of the passing runs
is a theorem, and so is the refinement. Not proved are the assumptions about what
is outside: they are listed above, and each is evaluated on the instances.

## 5. Where the code and its documents disagree

1. Exact count (`EngineExactCount`). A retried operation (`EINTR`, `EAGAIN`)
   uses up an index; the wizard promises that many completed operations.
2. Boot guard (`BootGuardOverlap`). Guards of two workers on one partition do
   not know of each other; the first one dropped locks it while the other lives.
   Descriptors that are open stay usable, later opens for writing fail.
3. Secondary targets (`TargetSetupSecondary`). The assessment that the README
   requires for raw writes is made for the primary target only.
4. Baselines (`SessionRunBaseline`). `session.json` is rewritten in place; a
   process that dies in a save leaves a file that does not load, and before the
   first checkpoint the baselines are nowhere else.
5. View report (`CliViewReport`). After a run "2=view report" shows the report and
   falls through to the head of the loop, which runs the workload again
   (`app.rs` 2853 against 2843 and 2846).
6. Discard by another path (`DiscardAlias`). The mount check compares the path with
   `/dev/<name>` letter by letter (`discard.rs` 146), the geometry is found by its last
   component (`geometry.rs` 28) and `open` follows it. A relative path or a link of the
   same name to a mounted partition is discarded; REQUIREMENTS.md:107-108 demands "Device
   must not be mounted". For a whole disk the partitions are found by the last
   component as well, so there the check holds.

Noticed while reading; where a module is named, it has the behaviour without a run of its
own.

- Engine and session: the integrity commands empty `intervals.jsonl`, since they
  save a record that was loaded without intervals (`SessionRun.Command`);
  `load_checkpoint` has no caller, so a checkpoint is never resumed; a secondary
  worker's error hides a primary's (`Engine.Collect`); checkpoints follow crossed
  multiples, not `ops_completed % n == 0` (`Sampler.Sample`).
- Targets: a profile whose block is no power of two is valid but its workers get
  no buffers (`engine.rs` 982). The endurance profile of ENDURANCE_TEST.md 4.3 (lines
  379 and 385) and examples/profiles/boot-read-userpart-write.yaml:25 have 204800 bytes,
  and 200 KiB is what the stress flow offers (`app.rs` 2063-2068): none of these runs
  can do its I/O (`Allocates`; `PresetsReachTheirRange` says exactly which presets
  can). The sector of a partition is taken for 512 bytes (`engine.rs` 523), so on a disk of
  4096-byte sectors a sector address on a partition means another place, although
  "exact logical sector ranges" are promised (README.md:70), and direct I/O may start
  inside a sector (`Misjudged`). `assess_raw_target_safety` compares paths only
  (`system.rs` 558-570) and goes on where mountinfo cannot be read (557, 702): a whole
  disk whose partitions are mounted or whose partition holds the root file system, and
  a device named otherwise, are allowed; it is asked once (`TargetSetup.Allowed`, `Mount`).
- Console: a raw write preset is never confirmed in the console, so its run is
  refused (`Console.ResolvePreset`); `confirmed` stays set when the wizard moves a
  profile to another target (`Console.WizardAccepts`, README.md 37, 82-84); Ctrl-C
  ("immediate termination", README.md 123) leaves the terminal raw
  (`Console.Interrupt`); a flush that fails while a `RawTerminalGuard` is made
  leaves it raw (`app.rs` 4286, `Console.TakeFails`); `infer_profile_path`
  (`storage.rs` 200) maps different names to one file, which is overwritten.
- Wizard: "back" at the first question goes forward (`Wizard.Back`; README.md 121
  and the tip at `app.rs` 1054 say otherwise).
- Trace: the index is wrong, without notice, for files with delayed allocation,
  on disks of 4096-byte sectors, on another disk, below a mount that covers
  another, given twice, or that share blocks; `FileTrace.Plain` and `Unshared` are
  exactly these conditions.
- Sampler: a parent is charged again with the bytes of a child that it waits for, also
  those from before the sampling (`diagnostics.rs` 461-466, `LiveSampler.Exit`); the totals
  of the devices are made from the 16 busiest entries, partitions among them (1120
  before 1298-1323), count stacked devices again and skip those plugged in
  meanwhile (`LiveSampler.MakeReport`).
- Discard: a mount that mountinfo lists under another source, or not at all, is not
  seen (`DiscardTest.Recognised`); alignment is checked against the start of the
  partition, not of the disk; `run_discard_test` loses the results of earlier rounds
  when a later one fails.
- Units: `geometry.rs` 56 and `diagnostics.rs` 1180 multiply the kernel's
  512-byte sectors by the logical block size.

## 6. Not modelled

- Health registers and their comparison with a vendor report: extraction of fields
  from bytes without state or order, which unit tests reach. Whether a reading
  fails is in `SessionRun` and `Console`.
- Host inspection and `doctor`: reads of sysfs and procfs that are printed once. The
  decisions made from them are modelled where they are made
  (`assess_raw_target_safety`, `list_devices`, `validate_discard_request`).
- Rendering and exports (`ui.rs`, `report.rs`): functions of a record; screens in
  `Console` are one state each, since scrolling and resizing keep nothing.
- Latency histograms, throughput and percentiles.
- The optional sqlite copy of a session and the region snapshots, best-effort copies
  whose errors are ignored.
- Tracing by blktrace, bpftrace and perf: external programs and their output. What
  the command does with a sector they report is in `FileTrace`.
- A profile whose device is given by a link that has the kernel name of another device:
  the engine opens the one and asks for the size and the sector of the other.
- File descriptors, which leak when a worker's loop fails (`engine.rs` 587).

These are why the session store, the LBA trace and the command line are marked as
partly modelled in `PROJECT.json`.

## 7. Plan

Done, in this order: engine threads, sampling and contract; boot guard; target
set-up; session run; I/O inside a worker; live sampler; discard; wizard; file map
and owner index; console and store; presets; their composition; the theorems of
section 4.

What is left, most valuable first:
1. `HitsAreRight` where `Plain` does not hold: an index that is wrong for one file
   (moved while it was mapped, on another disk) is right for the others, unless
   their ranges meet.
2. The same refinement for `SessionRun` as for `Engine`: a session as its commands
   see it, a record that is stored or not, implemented by saves that tear.
3. A resumed run, should `load_checkpoint` get a caller.
