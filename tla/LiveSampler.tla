----------------------------- MODULE LiveSampler -----------------------------
(***************************************************************************)
(* The live sampler of diagnostics.rs: /proc is read process by process at  *)
(* every tick, the growth of each process's counters since the previous     *)
(* tick is charged to its pid and shared among the files it has open, and   *)
(* the total is set against the statistics of the devices. Meanwhile        *)
(* processes do I/O, come, go, change owner and reuse each other's pids,    *)
(* and devices are plugged in.                                              *)
(*                                                                          *)
(* One counter stands for those of /proc/<pid>/io, which are treated alike. *)
(* As in Linux it includes the counters of the children that were waited    *)
(* for; what is written through the page cache is counted at once and gets  *)
(* to a device later, if ever; and a device counts the bytes of its         *)
(* partitions and of the devices stacked on it again.                       *)
(***************************************************************************)
EXTENDS Naturals, Sequences, SequencesExt, FiniteSets

CONSTANTS
  Pids,        \* the numbers processes may have
  Files,       \* paths of open files
  OpenSets,    \* the descriptors a process may hold: sequences of paths
  Hosts,       \* the processes there may be when the command starts
  Drives,      \* the block devices: disks, partitions, and what is stacked on them
  WholeDrives, \* those that are not partitions (list_devices)
  Plugged,     \* those that are there from the start
  Routes,      \* the ways of a byte: the drive it ends on, all that count it
  TopDrives,   \* the busiest devices a report keeps: 16
  MaxTicks,    \* the duration of the sampling, in intervals
  MaxBytes,    \* the model's bound on the bytes done meanwhile
  MaxChanges,  \* the model's bound on processes that come, go or change owner, and
               \* on devices that are plugged in
  NoProc       \* a number no process has: the parent of a process is elsewhere

Process == [io : Nat, open : OpenSets, readable : BOOLEAN, parent : Pids \cup {NoProc}]
Route   == [drive : WholeDrives, through : SUBSET Drives]

ASSUME SamplerAssumption ==
  /\ IsFiniteSet(Pids) /\ IsFiniteSet(Files)
  /\ OpenSets \subseteq Seq(Files)
  /\ NoProc \notin Process /\ NoProc \notin Pids
  /\ Hosts \subseteq [Pids -> Process \cup {NoProc}]
  /\ IsFiniteSet(Drives) /\ WholeDrives \subseteq Drives /\ Plugged \subseteq Drives
  /\ Routes \subseteq Route /\ \A r \in Routes : r.drive \in r.through
  /\ TopDrives \in Nat
  /\ MaxTicks \in Nat /\ MaxBytes \in Nat /\ MaxChanges \in Nat

VARIABLES
  sampling,     \* where the sampler is
  procs,        \* the processes of the host
  unread,       \* numbers the snapshot under way has not come to
  current,      \* what it has read
  prev,         \* LiveSamplerState.prev: the previous snapshot
  charged,      \* per_pid: bytes charged to each number
  shares,       \* file_map: bytes charged to each file
  ticks,        \* samples taken
  report,       \* last_report: observed, device, unattributed and excess bytes
  startDevices, \* start_devices
  present,      \* the devices that are plugged in
  stats,        \* /proc/diskstats: bytes since the command started
  rests,        \* bytes that ended on each drive since then
  pending,      \* bytes written since then that no device has had (yet)
  did,          \* bytes done under each number since then
  reaped,       \* bytes of children that were added under each number
  stayed,       \* numbers held by one readable process since then
  changes,      \* processes and devices that came, went or changed
  first,        \* what the first snapshot read
  early,        \* rests when the devices were first looked at
  owed          \* what the devices of the last report miss, by causes (see Missed)

reading == <<unread, current>>
tally   == <<charged, shares, ticks, report, owed>>
drives  == <<present, stats, rests, pending>>
people  == <<procs, did, reaped, stayed>>
host    == <<people, drives, changes>>
firstLook == <<first, startDevices, early>>

samplerVars == <<sampling, reading, prev, tally, host, firstLook>>

Sampling == {"idle", "probe", "snap", "devices", "wait", "sample", "reported", "failed"}

NoReport == [observed |-> 0, device |-> 0, unattributed |-> 0, excess |-> 0]

Empty == [p \in {} |-> 0]

SamplerInit ==
  /\ sampling = "idle"
  /\ procs = [p \in Pids |-> NoProc]
  /\ unread = {} /\ current = Empty /\ prev = Empty /\ first = Empty
  /\ charged = [p \in Pids |-> 0] /\ shares = [f \in Files |-> 0]
  /\ ticks = 0 /\ report = NoReport /\ owed = 0
  /\ present = Plugged /\ pending = 0 /\ startDevices = Empty
  /\ stats = [d \in Drives |-> 0] /\ rests = [d \in Drives |-> 0]
  /\ early = [d \in Drives |-> 0]
  /\ did = [p \in Pids |-> 0] /\ reaped = [p \in Pids |-> 0]
  /\ stayed = {} /\ changes = 0

Less(a, b) == IF a > b THEN a - b ELSE 0
Total(f)   == SumFunction(f)

(***************************************************************************)
(* run_deep_trace: a tracer is tried before the sampler runs, never with it.*)
(***************************************************************************)
\* diag sample and diag monitor start the sampler at once, diag trace after the
\* attempts to trace.
BeginSampling(kind, host0) ==
  /\ sampling = "idle"
  /\ procs' = host0
  /\ stayed' = {p \in Pids : host0[p] # NoProc /\ host0[p].readable}
  /\ IF kind = "deep" THEN sampling' = "probe" /\ UNCHANGED unread
                      ELSE sampling' = "snap" /\ unread' = Pids
  /\ UNCHANGED <<current, prev, tally, drives, did, reaped, changes, firstLook>>

\* bpftrace, else blktrace: their events are kept, and the sampler follows. When
\* neither can be used the sampler does alone, or there is an empty report.
Trace ==
  /\ sampling = "probe"
  /\ \/ sampling' = "snap" /\ unread' = Pids
     \/ sampling' = "reported" /\ UNCHANGED unread
  /\ UNCHANGED <<current, prev, tally, host, firstLook>>

(***************************************************************************)
(* snapshot_procfs.                                                         *)
(***************************************************************************)
Snapping == sampling \in {"snap", "sample"}

\* Of a process that belongs to somebody else only the name is kept, for a list of
\* its own (restricted_processes, left out), and of one that is gone nothing.
ReadPid(p) ==
  /\ Snapping
  /\ p \in unread
  /\ unread' = unread \ {p}
  /\ IF procs[p] # NoProc /\ procs[p].readable
       THEN current' = [q \in DOMAIN current \cup {p} |->
                          IF q = p THEN [io |-> procs[p].io, open |-> procs[p].open]
                                   ELSE current[q]]
       ELSE UNCHANGED current
  /\ UNCHANGED <<sampling, prev, tally, host, firstLook>>

\* /proc cannot be listed: whatever has been sampled is lost with the report.
SnapshotFails ==
  /\ Snapping
  /\ sampling' = "failed"
  /\ UNCHANGED <<reading, prev, tally, host, firstLook>>

(***************************************************************************)
(* LiveSamplerState::new and run_live_sampler_internal.                     *)
(***************************************************************************)
\* The devices are looked at after the processes.
KeepFirst ==
  /\ sampling = "snap" /\ unread = {}
  /\ sampling' = "devices"
  /\ prev' = current /\ first' = current /\ current' = Empty
  /\ UNCHANGED <<unread, tally, host, startDevices, early>>

KeepDevices ==
  /\ sampling = "devices"
  /\ sampling' = "wait"
  /\ startDevices' = [d \in present |-> stats[d]]
  /\ early' = rests
  /\ UNCHANGED <<reading, prev, tally, host, first>>

\* tick: the interval goes by.
Wake ==
  /\ sampling = "wait" /\ ticks < MaxTicks
  /\ sampling' = "sample" /\ unread' = Pids
  /\ UNCHANGED <<current, prev, tally, host, firstLook>>

Finish ==
  /\ sampling = "wait" /\ ticks = MaxTicks
  /\ sampling' = "reported"
  /\ UNCHANGED <<reading, prev, tally, host, firstLook>>

(***************************************************************************)
(* apply_proc_delta and build_sampler_report.                               *)
(***************************************************************************)
\* A number that was not there at the previous tick is not charged yet.
Known == DOMAIN current \cap DOMAIN prev

Growth(p) == IF p \in Known THEN Less(current[p].io, prev[p].io) ELSE 0

\* Mutant: a number that is new is charged from zero.
ChargeNewcomers ==
  charged' = [p \in Pids |->
    charged[p] + IF p \in DOMAIN current
                   THEN Less(current[p].io, IF p \in DOMAIN prev THEN prev[p].io ELSE 0)
                   ELSE 0]

Charge == charged' = [p \in Pids |-> charged[p] + Growth(p)]

\* Every path counts once for a process, however many descriptors lead to it.
Paths(p) == ToSet(current[p].open)

\* Mutant: every file gets all of it.
ShareWhole(p, f) == IF f \in Paths(p) THEN Growth(p) ELSE 0

Share(p, f) == IF f \in Paths(p) THEN Growth(p) \div Cardinality(Paths(p)) ELSE 0

ShareOut ==
  shares' = [f \in Files |-> shares[f] + Total([p \in Known |-> Share(p, f)])]

\* summarize_devices: what each device did that was there at the start, and the
\* busiest of them. Of two that did the same either may come first.
Done(d) == Less(stats[d], startDevices[d])

Busiest ==
  {top \in SUBSET DOMAIN startDevices :
     /\ top = DOMAIN startDevices \/ Cardinality(top) = TopDrives
     /\ Cardinality(top) <= TopDrives
     /\ \A d \in top, e \in DOMAIN startDevices \ top : Done(d) >= Done(e)}

\* What the report's devices do not show of what the processes did: what went to a
\* drive that is not among them, and what has not got to a device.
Missed(shown) ==
  pending + Total([d \in Drives |-> IF d \in shown THEN 0 ELSE rests[d] - early[d]])

\* summarize_device_storage_totals leaves partitions out, or nothing when there is
\* no list of devices. What the processes did not account for, and what they did
\* beyond the devices.
MakeReport ==
  \E top \in Busiest : \E shown \in {top \cap WholeDrives, top} :
    LET observed == Total(charged')
        done     == Total([d \in Drives |-> IF d \in shown THEN Done(d) ELSE 0])
    IN /\ report' = [observed |-> observed, device |-> done,
                     unattributed |-> Less(done, observed), excess |-> Less(observed, done)]
       /\ owed' = Missed(shown)

\* Mutant: the first snapshot stays the previous one.
ApplyToFirst ==
  /\ sampling = "sample" /\ unread = {}
  /\ Charge /\ ShareOut /\ MakeReport
  /\ current' = Empty
  /\ ticks' = ticks + 1
  /\ sampling' = "wait"
  /\ UNCHANGED <<unread, prev, host, firstLook>>

Apply ==
  /\ sampling = "sample" /\ unread = {}
  /\ Charge /\ ShareOut /\ MakeReport
  /\ prev' = current /\ current' = Empty
  /\ ticks' = ticks + 1
  /\ sampling' = "wait"
  /\ UNCHANGED <<unread, host, firstLook>>

(***************************************************************************)
(* The host.                                                                *)
(***************************************************************************)
Watching == sampling \in {"snap", "devices", "wait", "sample"}

\* A byte is counted by the drive it ends on and by all it goes through.
Arrive(r) ==
  /\ r.through \subseteq present
  /\ stats' = [d \in Drives |-> stats[d] + IF d \in r.through THEN 1 ELSE 0]
  /\ rests' = [rests EXCEPT ![r.drive] = @ + 1]
  /\ UNCHANGED present

\* A process reads or writes a byte: the device has it at once, or the page cache.
DoIo(p) ==
  /\ Watching
  /\ procs[p] # NoProc
  /\ Total(did) < MaxBytes
  /\ procs' = [procs EXCEPT ![p].io = @ + 1]
  /\ did' = [did EXCEPT ![p] = @ + 1]
  /\ \/ (\E r \in Routes : Arrive(r)) /\ UNCHANGED pending
     \/ pending' = pending + 1 /\ UNCHANGED <<present, stats, rests>>
  /\ UNCHANGED <<sampling, reading, prev, tally, reaped, stayed, changes, firstLook>>

\* The kernel writes back. What is deleted before it comes to that stays pending.
WriteBack ==
  /\ Watching
  /\ pending > 0
  /\ pending' = pending - 1
  /\ \E r \in Routes : Arrive(r)
  /\ UNCHANGED <<sampling, reading, prev, tally, people, changes, firstLook>>

Plug(d) ==
  /\ Watching
  /\ changes < MaxChanges /\ d \notin present
  /\ changes' = changes + 1
  /\ present' = present \cup {d}
  /\ UNCHANGED <<sampling, reading, prev, tally, people, stats, rests, pending, firstLook>>

Changed(left) ==
  /\ Watching
  /\ changes < MaxChanges
  /\ changes' = changes + 1
  /\ stayed' = stayed \ left
  /\ UNCHANGED <<sampling, reading, prev, tally, did, drives, firstLook>>

\* What becomes of a process when p ends: it may take over bytes, or be an orphan.
Bereft(process, p, bytes) ==
  [io |-> process.io + bytes, open |-> process.open, readable |-> process.readable,
   parent |-> IF process.parent = p THEN NoProc ELSE process.parent]

\* A process ends. If its parent waits for it, the parent's counter takes over all
\* the counter of the child, also what it did before the command started; if the
\* parent has gone, or does not care, nobody's does. Its own children are orphans.
Exit(p) ==
  /\ procs[p] # NoProc
  /\ Changed({p})
  /\ \E waited \in BOOLEAN :
       LET taken(q) == IF waited /\ q = procs[p].parent THEN procs[p].io ELSE 0
       IN /\ reaped' = [q \in Pids |-> reaped[q] + taken(q)]
          /\ procs' = [q \in Pids |-> IF q = p \/ procs[q] = NoProc THEN NoProc
                                       ELSE Bereft(procs[q], p, taken(q))]

\* A new process takes a number, perhaps one that was in use a moment ago.
Fork(p, open) ==
  /\ procs[p] = NoProc
  /\ Changed({p})
  /\ \E q \in {q \in Pids : procs[q] # NoProc} \cup {NoProc} :
       procs' = [procs EXCEPT
                   ![p] = [io |-> 0, open |-> open, readable |-> TRUE, parent |-> q]]
  /\ UNCHANGED reaped

\* setuid: what could be read cannot be read any more, or can.
ChangeOwner(p) ==
  /\ procs[p] # NoProc
  /\ Changed({p})
  /\ procs' = [procs EXCEPT ![p].readable = ~ @]
  /\ UNCHANGED reaped

HostStep ==
  \/ \E p \in Pids :
       DoIo(p) \/ Exit(p) \/ ChangeOwner(p) \/ \E open \in OpenSets : Fork(p, open)
  \/ WriteBack
  \/ \E d \in Drives : Plug(d)

SamplerStep ==
  \/ Trace
  \/ \E p \in Pids : ReadPid(p)
  \/ KeepFirst \/ KeepDevices \/ Wake \/ Finish \/ Apply

SamplerNext ==
  \/ \E kind \in {"sample", "deep"}, host0 \in Hosts :
       BeginSampling(kind, host0)
  \/ SamplerStep \/ SnapshotFails \/ HostStep

SamplerSpec == SamplerInit /\ [][SamplerNext]_samplerVars

(***************************************************************************)
(* Properties.                                                              *)
(***************************************************************************)
SamplerTypeOK ==
  /\ sampling \in Sampling
  /\ procs \in [Pids -> Process \cup {NoProc}]
  /\ unread \subseteq Pids /\ stayed \subseteq Pids
  /\ DOMAIN current \subseteq Pids /\ DOMAIN prev \subseteq Pids
  /\ \A p \in DOMAIN current : current[p].io \in Nat
  /\ \A p \in DOMAIN prev : prev[p].io \in Nat
  /\ DOMAIN first \subseteq Pids /\ \A p \in DOMAIN first : first[p].io \in Nat
  /\ charged \in [Pids -> Nat] /\ did \in [Pids -> Nat] /\ reaped \in [Pids -> Nat]
  /\ ticks \in Nat /\ changes \in Nat

\* What was done under a number, and what it took over from children.
Work(p) == did[p] + reaped[p]

\* No number is charged with more bytes than were done under it while it was
\* sampled and were taken over from children of it that ended meanwhile, although
\* the sampler knows processes by number only: a number that is reused, lost from
\* sight and found again, or whose counter restarts is charged less, never more
\* (apply_proc_delta).
NeverOvercharged == \A p \in Pids : charged[p] <= Work(p)

\* A process that stays and can be read is charged exactly what its counter
\* grew by between the first snapshot and the last one (sample_once).
StayersAreExact ==
  sampling \in {"wait", "reported"} =>
    \A p \in stayed \cap DOMAIN first :
      p \in DOMAIN prev /\ charged[p] = prev[p].io - first[p].io

\* The figures of a report agree with each other. No more bytes are charged to files
\* than to processes, however many descriptors lead to a file. And the processes are
\* seen to do more than the devices for four reasons only: bytes that were done
\* between the first look at the processes and the first look at the devices, bytes
\* charged again to the parent of a child that ended, bytes of a drive that is cut
\* from the report or was plugged in late, and bytes the page cache has kept. That
\* partitions and stacked devices are counted again never makes up for more
\* (apply_proc_delta, LiveSamplerState::new, summarize_devices).
ReportAddsUp ==
  /\ Total(shares) <= Total(charged)
  /\ report.excess <= Total(early) + Total(reaped) + owed

(***************************************************************************)
(* The strengthening of the two properties of single numbers.               *)
(***************************************************************************)
Started == sampling \notin {"idle", "probe", "snap"}

\* Nothing is read, kept or charged before there is something to read.
NothingYet ==
  /\ sampling \in {"idle", "probe"} => DOMAIN current = {} /\ DOMAIN prev = {}
  /\ ~ Started => DOMAIN first = {} /\ \A p \in Pids : charged[p] = 0

\* What a number has been charged, is about to be charged for what has been read,
\* and would be charged for what can be read now, was done under it or taken over.
CoveredByWork(p) ==
  /\ charged[p] + Growth(p) <= Work(p)
  /\ procs[p] # NoProc /\ p \in DOMAIN current =>
       charged[p] + Growth(p) + Less(procs[p].io, current[p].io) <= Work(p)
  /\ procs[p] # NoProc /\ p \in DOMAIN prev =>
       charged[p] + Less(procs[p].io, prev[p].io) <= Work(p)

\* The counter of a process that stays only grows, from reading to reading.
CounterGrows(p) ==
  /\ procs[p] # NoProc /\ procs[p].readable
  /\ Snapping =>
       \/ p \in unread
       \/ /\ p \in DOMAIN current /\ current[p].io <= procs[p].io
          /\ sampling = "sample" /\ p \in DOMAIN first => prev[p].io <= current[p].io
  /\ Started /\ p \in DOMAIN first =>
       /\ p \in DOMAIN prev
       /\ first[p].io <= prev[p].io /\ prev[p].io <= procs[p].io
       /\ charged[p] = prev[p].io - first[p].io

SamplerInv ==
  /\ SamplerTypeOK /\ NothingYet
  /\ \A p \in Pids : CoveredByWork(p)
  /\ \A p \in stayed : CounterGrows(p)

\* Every byte a process did is on a drive or pending, a drive counts all that ends on
\* it, and a report is made with the devices as they were first seen.
ReportInv ==
  /\ shares \in [Files -> Nat] /\ pending \in Nat /\ owed \in Nat /\ report.excess \in Nat
  /\ present \subseteq Drives
  /\ stats \in [Drives -> Nat] /\ rests \in [Drives -> Nat] /\ early \in [Drives -> Nat]
  /\ \A p \in DOMAIN current : current[p].open \in OpenSets
  /\ Total(did) = Total(rests) + pending
  /\ DOMAIN startDevices \subseteq Drives
  /\ \A d \in Drives : early[d] <= rests[d]
  /\ \A d \in DOMAIN startDevices :
       startDevices[d] \in Nat /\ rests[d] - early[d] <= stats[d] - startDevices[d]
  /\ sampling \in {"idle", "probe", "snap", "devices"} =>
       report = NoReport /\ DOMAIN startDevices = {}
  /\ ReportAddsUp
=============================================================================
