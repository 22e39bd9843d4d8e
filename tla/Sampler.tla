------------------------------- MODULE Sampler -------------------------------
(***************************************************************************)
(* The sampler thread and the checkpoint writer thread of a run             *)
(* (engine.rs). The sampler wakes up at every report interval, reads the    *)
(* shared counters and records the difference to its previous reading; when *)
(* the number of completed operations has passed a multiple of              *)
(* every_n_iterations it sends a checkpoint to the writer, which saves what *)
(* it receives until every sender of its channel is gone.                   *)
(*                                                                          *)
(* Every field of an interval is sampled alike; the model keeps the number  *)
(* of completed operations, the field the checkpoint rule reads.            *)
(***************************************************************************)
EXTENDS WorkerPool, Functions

CONSTANTS
  Checkpointing,  \* a runtime is given, checkpointing is enabled, Every > 0
  Every,          \* every_n_iterations
  MaxSamples,     \* the model's bound on the number of intervals
  DiskFaults,     \* whether save_checkpoint may fail
  NoCheckpoint    \* "no checkpoint.json on disk"

ASSUME SamplerAssumption ==
  /\ Checkpointing \in BOOLEAN
  /\ Every \in Nat \ {0}
  /\ MaxSamples \in Nat
  /\ DiskFaults \in BOOLEAN
  /\ NoCheckpoint \notin [iteration : Nat, intervals : Seq(Nat)]

VARIABLES
  smp,        \* where the sampler thread is
  base,       \* its first reading of the counters
  prev,       \* its latest reading
  intervals,  \* the differences it has recorded
  lastMult,   \* last_checkpoint_multiple
  senders,    \* live senders of the checkpoint channel
  queue,      \* the checkpoint channel
  writer,     \* the writer thread
  saved,      \* checkpoint.json
  unsaved     \* the multiple of the last checkpoint whose save failed

samplerVars == <<smp, base, prev, intervals, lastMult, senders, queue, writer, saved, unsaved>>

Total(deltas) == SumFunction(deltas)

Multiple(checkpoint) == checkpoint.iteration \div Every

SamplerTypeOK ==
  /\ smp \in {"unborn", "prime", "check", "sleep", "done"}
  /\ base \in Nat /\ prev \in Nat /\ lastMult \in Nat
  /\ intervals \in Seq(Nat)
  /\ senders \subseteq {"main", "sampler"}
  /\ queue \in Seq([iteration : Nat, intervals : Seq(Nat)])
  /\ writer \in {"absent", "running", "done"}
  /\ saved \in [iteration : Nat, intervals : Seq(Nat)] \cup {NoCheckpoint}
  /\ unsaved \in Nat

SamplerInit ==
  /\ smp = "unborn"
  /\ base = 0 /\ prev = 0 /\ lastMult = 0
  /\ intervals = <<>>
  /\ senders = {"main", "sampler"}
  /\ queue = <<>>
  /\ writer = IF Checkpointing THEN "running" ELSE "absent"
  /\ saved = NoCheckpoint
  /\ unsaved = 0

(***************************************************************************)
(* The sampler thread.                                                      *)
(***************************************************************************)
Prime ==
  /\ smp = "prime"
  /\ base' = counts["completed"]
  /\ prev' = base'
  /\ smp' = "check"
  /\ UNCHANGED <<intervals, lastMult, senders, queue, writer, saved, unsaved>>

\* The loop condition. Leaving drops the sampler's sender. The guard on
\* MaxSamples bounds the model: the thread is merely slow.
SamplerCheck ==
  /\ smp = "check"
  /\ \/ /\ stop
        /\ smp' = "done"
        /\ senders' = senders \ {"sampler"}
     \/ /\ ~stop
        /\ Len(intervals) < MaxSamples
        /\ smp' = "sleep"
        /\ UNCHANGED senders
  /\ UNCHANGED <<base, prev, intervals, lastMult, queue, writer, saved, unsaved>>

\* After the sleep: record the interval; a checkpoint is due when another
\* multiple of Every has been passed since the last one.
CheckpointDue(total) ==
  /\ Checkpointing
  /\ total > 0
  /\ total \div Every > lastMult

\* Mutant: the difference taken the wrong way round.
SampleReversed ==
  /\ smp = "sleep"
  /\ smp' = "check"
  /\ intervals' = Append(intervals, prev - counts["completed"])
  /\ prev' = counts["completed"]
  /\ UNCHANGED <<base, lastMult, senders, queue, writer, saved, unsaved>>

\* Mutant: the previous reading is not replaced.
SampleFromBase ==
  LET total == counts["completed"]
      taken == Append(intervals, total - prev)
  IN /\ smp = "sleep"
     /\ smp' = "check"
     /\ intervals' = taken
     /\ UNCHANGED <<base, prev, lastMult, senders, queue, writer, saved, unsaved>>

\* Mutant: the checkpoint is sent before the interval is accumulated.
SampleSendFirst ==
  LET total == counts["completed"]
  IN /\ smp = "sleep"
     /\ smp' = "check"
     /\ intervals' = Append(intervals, total - prev)
     /\ prev' = total
     /\ IF CheckpointDue(total)
          THEN /\ queue' = Append(queue, [iteration |-> total, intervals |-> intervals])
               /\ lastMult' = total \div Every
          ELSE UNCHANGED <<queue, lastMult>>
     /\ UNCHANGED <<base, senders, writer, saved, unsaved>>

Sample ==
  LET total == counts["completed"]
      taken == Append(intervals, total - prev)
  IN /\ smp = "sleep"
     /\ smp' = "check"
     /\ intervals' = taken
     /\ prev' = total
     /\ IF CheckpointDue(total)
          THEN /\ queue' = Append(queue, [iteration |-> total, intervals |-> taken])
               /\ lastMult' = total \div Every
          ELSE UNCHANGED <<queue, lastMult>>
     /\ UNCHANGED <<base, senders, writer, saved, unsaved>>

SamplerStep == Prime \/ SamplerCheck \/ Sample

(***************************************************************************)
(* The checkpoint writer thread. A failed save is dropped silently.         *)
(***************************************************************************)
\* Mutant: the newest checkpoint is taken first.
WriterSaveNewest ==
  /\ writer = "running"
  /\ queue # <<>>
  /\ queue' = SubSeq(queue, 1, Len(queue) - 1)
  /\ saved' = queue[Len(queue)]
  /\ UNCHANGED <<smp, base, prev, intervals, lastMult, senders, writer, unsaved>>

WriterSave ==
  /\ writer = "running"
  /\ queue # <<>>
  /\ queue' = Tail(queue)
  /\ \/ saved' = Head(queue) /\ UNCHANGED unsaved
     \/ DiskFaults /\ unsaved' = Multiple(Head(queue)) /\ UNCHANGED saved
  /\ UNCHANGED <<smp, base, prev, intervals, lastMult, senders, writer>>

WriterExit ==
  /\ writer = "running"
  /\ queue = <<>>
  /\ senders = {}
  /\ writer' = "done"
  /\ UNCHANGED <<smp, base, prev, intervals, lastMult, senders, queue, saved, unsaved>>

WriterStep == WriterSave \/ WriterExit
=============================================================================
