------------------------------- MODULE Engine -------------------------------
(***************************************************************************)
(* execute_profile_with_checkpointing (engine.rs): the thread that runs a   *)
(* profile. It spawns the sampler, the primary workers and the workers of   *)
(* the secondary target, joins the primaries, sets the stop flag, joins the *)
(* sampler and the secondaries, lets the checkpoint writer drain, and       *)
(* returns a summary with the intervals, or an error.                       *)
(***************************************************************************)
EXTENDS Sampler

VARIABLES
  main,         \* where the calling thread is
  joinError,    \* a join reported a panic
  workerError,  \* the worker whose error will be reported, or NoOp
  outcome       \* what the function returned

mainVars == <<main, joinError, workerError, outcome>>
vars     == <<poolVars, samplerVars, mainVars>>

TypeOK ==
  /\ PoolTypeOK
  /\ SamplerTypeOK
  /\ main \in {"start", "spawn", "join_primaries", "join_sampler",
               "join_secondaries", "join_writer", "collect", "returned"}
  /\ joinError \in BOOLEAN
  /\ workerError \in Workers \cup {NoOp}
  /\ outcome \in {"none", "ok", "panic", "error"}

Init ==
  /\ PoolInit
  /\ SamplerInit
  /\ main = "start"
  /\ joinError = FALSE
  /\ workerError = NoOp
  /\ outcome = "none"

FirstError(S) ==
  IF \E i \in DOMAIN errors : errors[i] \in S
    THEN errors[CHOOSE i \in DOMAIN errors :
                  errors[i] \in S /\ \A j \in 1..(i - 1) : errors[j] \notin S]
    ELSE NoOp

(***************************************************************************)
(* The steps of the calling thread.                                         *)
(***************************************************************************)
SpawnSampler ==
  /\ main = "start"
  /\ main' = "spawn"
  /\ smp' = "prime"
  /\ UNCHANGED <<poolVars, joinError, workerError, outcome>>
  /\ UNCHANGED <<base, prev, intervals, lastMult, senders, queue, writer, saved, unsaved>>

\* Primaries first, then the secondary target's workers.
SpawnWorker(w) ==
  /\ main = "spawn"
  /\ w \in Secondaries => \A p \in Primaries : pc[p] # "unborn"
  /\ Goto(w, "unborn", "open")
  /\ main' = IF \E v \in Workers \ {w} : pc[v] = "unborn"
               THEN "spawn" ELSE "join_primaries"
  /\ UNCHANGED <<op, nextOp, counts, stop, clock, errors>>
  /\ UNCHANGED <<samplerVars, joinError, workerError, outcome>>

JoinPrimaries ==
  /\ main = "join_primaries"
  /\ AllEnded(Primaries)
  /\ joinError' = \E p \in Primaries : pc[p] = "panicked"
  /\ stop' = TRUE
  /\ main' = "join_sampler"
  /\ UNCHANGED <<pc, op, nextOp, counts, clock, errors>>
  /\ UNCHANGED <<samplerVars, workerError, outcome>>

JoinSampler ==
  /\ main = "join_sampler"
  /\ smp = "done"
  /\ main' = "join_secondaries"
  /\ UNCHANGED <<poolVars, samplerVars, joinError, workerError, outcome>>

\* Mutant: the secondaries are not joined.
DetachSecondaries ==
  /\ main = "join_secondaries"
  /\ workerError' = FirstError(Secondaries)
  /\ senders' = senders \ {"main"}
  /\ main' = "join_writer"
  /\ UNCHANGED <<poolVars, joinError, outcome>>
  /\ UNCHANGED <<smp, base, prev, intervals, lastMult, queue, writer, saved, unsaved>>

\* Join the secondaries, drain their channel, drop the checkpoint sender.
JoinSecondaries ==
  /\ main = "join_secondaries"
  /\ AllEnded(Secondaries)
  /\ joinError' = (joinError \/ \E s \in Secondaries : pc[s] = "panicked")
  /\ workerError' = FirstError(Secondaries)
  /\ senders' = senders \ {"main"}
  /\ main' = "join_writer"
  /\ UNCHANGED <<poolVars, outcome>>
  /\ UNCHANGED <<smp, base, prev, intervals, lastMult, queue, writer, saved, unsaved>>

\* Mutant: the writer is left to finish by itself.
DetachWriter ==
  /\ main = "join_writer"
  /\ main' = "collect"
  /\ UNCHANGED <<poolVars, samplerVars, joinError, workerError, outcome>>

JoinWriter ==
  /\ main = "join_writer"
  /\ writer # "running"
  /\ main' = "collect"
  /\ UNCHANGED <<poolVars, samplerVars, joinError, workerError, outcome>>

\* Mutant: the result of the joins is ignored.
CollectErrorsOnly ==
  /\ main = "collect"
  /\ workerError' = IF workerError = NoOp THEN FirstError(Primaries) ELSE workerError
  /\ outcome' = IF workerError' # NoOp THEN "error" ELSE "ok"
  /\ main' = "returned"
  /\ UNCHANGED <<poolVars, samplerVars, joinError>>

\* Drain the primaries' channel and return: a panic is reported first, then a
\* secondary's error, then the first primary's.
Collect ==
  /\ main = "collect"
  /\ workerError' = IF workerError = NoOp THEN FirstError(Primaries) ELSE workerError
  /\ outcome' = IF joinError THEN "panic"
                ELSE IF workerError' # NoOp THEN "error" ELSE "ok"
  /\ main' = "returned"
  /\ UNCHANGED <<poolVars, samplerVars, joinError>>

MainStep ==
  \/ SpawnSampler \/ JoinPrimaries \/ JoinSampler \/ JoinSecondaries
  \/ JoinWriter \/ Collect
  \/ \E w \in Workers : SpawnWorker(w)

(***************************************************************************)
(* The run.                                                                 *)
(***************************************************************************)
PoolStep ==
  /\ Expire \/ \E w \in Workers : WorkerStep(w)
  /\ UNCHANGED <<samplerVars, mainVars>>

SamplingStep ==
  /\ SamplerStep \/ WriterStep
  /\ UNCHANGED <<poolVars, mainVars>>

\* The call has returned: the threads are gone and nothing moves.
Returned == main = "returned" /\ UNCHANGED vars

Next == MainStep \/ PoolStep \/ SamplingStep \/ Returned

\* Every thread is eventually scheduled, every pread, pwrite and save returns,
\* and the clock advances. No worker is owed a panic.
Fairness ==
  /\ WF_vars(MainStep)
  /\ \A w \in Workers : WF_vars(Advance(w) /\ UNCHANGED <<samplerVars, mainVars>>)
  /\ WF_vars(Expire /\ UNCHANGED <<samplerVars, mainVars>>)
  /\ WF_vars(SamplerStep /\ UNCHANGED <<poolVars, mainVars>>)
  /\ WF_vars(WriterStep /\ UNCHANGED <<poolVars, mainVars>>)

Spec     == Init /\ [][Next]_vars
FairSpec == Spec /\ Fairness

(***************************************************************************)
(* Safety.                                                                  *)
(***************************************************************************)
\* Success means that no worker of either target failed or unwound and that,
\* with an exact count, each of its indices was attempted: a failing worker
\* stops its siblings early, which may never look like a finished run.
OkIsClean ==
  outcome = "ok" =>
    /\ \A w \in Workers : pc[w] = "done"
    /\ ~Timed => Settled = 0..(OpLimit - 1)

\* The relaxed fetch_add dispenser never gives an index to two workers, and
\* every index whose I/O is over was counted under exactly one outcome of the
\* primaries' counters: concurrent increments lose nothing, secondaries add
\* nothing.
IndexAccounting ==
  /\ \A v, w \in Primaries : op[v] = op[w] /\ op[v] # NoOp => v = w
  /\ SumFunction(counts) = Cardinality(Settled)

\* Secondary workers keep their target busy for as long as the primaries run:
\* one ends normally only when the primaries have all ended or a worker failed.
SecondariesCoverPrimaries ==
  (\E s \in Secondaries : pc[s] = "done") =>
    AllEnded(Primaries) \/ Failing

\* When the call returns no thread it started is alive, so descriptors, boot
\* guards and the session directory are not touched behind the caller's back,
\* and no checkpoint is left in the channel.
NothingOutlivesTheRun ==
  main = "returned" =>
    /\ AllEnded(Workers)
    /\ smp = "done" /\ writer # "running" /\ queue = <<>>

\* The recorded intervals neither drop nor double count an operation between
\* the sampler's first and latest reading, whatever the workers do meanwhile.
IntervalsTelescope ==
  /\ base + Total(intervals) = prev
  /\ prev <= counts["completed"]

\* A checkpoint agrees with the intervals it carries, and those are a prefix
\* of the run's; checkpoints waiting for the writer are newer than the one on
\* disk, and no two are for the same multiple of every_n_iterations.
CheckpointsConsistent ==
  LET pending == IF saved = NoCheckpoint THEN queue ELSE <<saved>> \o queue
  IN /\ \A k \in DOMAIN pending :
          /\ pending[k].iteration = base + Total(pending[k].intervals)
          /\ pending[k].intervals = SubSeq(intervals, 1, Len(pending[k].intervals))
     /\ \A j, k \in DOMAIN pending : j < k =>
          Multiple(pending[j]) < Multiple(pending[k])

\* The writer drains its channel before the call returns: unless that very
\* save failed, checkpoint.json is then the last checkpoint the sampler sent. A
\* save that failed earlier, or a checkpoint left in the channel, is no excuse.
LastCheckpointSaved ==
  main = "returned" /\ lastMult > 0 /\ unsaved # lastMult =>
    saved # NoCheckpoint /\ Multiple(saved) = lastMult

\* checkpoint.json is only ever replaced by the checkpoint of a later moment.
CheckpointMovesForward ==
  [][saved' # saved /\ saved # NoCheckpoint =>
       saved'.iteration > saved.iteration]_saved

(***************************************************************************)
(* Liveness: whatever fails or unwinds, the call returns. A thread waiting  *)
(* on a channel whose senders are never dropped would block it for ever.    *)
(***************************************************************************)
Returns == <>(main = "returned")

(***************************************************************************)
(* The run implements WorkloadRun.                                          *)
(***************************************************************************)
Status ==
  CASE outcome = "none" -> "running"
    [] outcome = "ok"   -> "ok"
    [] OTHER            -> "error"

Contract == INSTANCE WorkloadRun WITH
  Indices   <- 0..(OpLimit - 1),
  counted   <- ~Timed,
  attempted <- Settled,
  broken    <- \E w \in Workers : pc[w] \in {"failed", "panicked"},
  status    <- Status

\* Seen from the caller every run is a WorkloadRun.
ImplementsContract == Contract!Spec

(***************************************************************************)
(* Why it holds: the parts of the inductive invariant.                      *)
(***************************************************************************)
AfterWriter      == {"collect", "returned"}
AfterSecondaries == AfterWriter \cup {"join_writer"}
AfterSampler     == AfterSecondaries \cup {"join_secondaries"}
AfterPrimaries   == AfterSampler \cup {"join_sampler"}

\* The calling thread is past a join only when the threads joined have ended.
JoinedHaveEnded ==
  /\ main = "start" => smp = "unborn"
  /\ main \in AfterPrimaries => AllEnded(Primaries)
  /\ main \in AfterSampler => smp = "done"
  /\ main \in AfterSecondaries => AllEnded(Secondaries)
  /\ main \in AfterWriter => writer # "running"

\* The writer ends on an empty channel without senders, so nothing follows.
ChannelClosed ==
  /\ smp # "done" => "sampler" \in senders
  /\ writer = "done" => queue = <<>> /\ senders = {}
  /\ writer = "absent" => ~Checkpointing /\ queue = <<>>

\* A failure leaves an Err in a channel, a panic is seen by a join, and either
\* reaches what the call returns.
FailureIsKept ==
  /\ \A w \in Workers : pc[w] = "failed" => \E i \in DOMAIN errors : errors[i] = w
  /\ \A i \in DOMAIN errors : pc[errors[i]] = "failed"
  /\ main \in AfterPrimaries => \A p \in Primaries : pc[p] = "panicked" => joinError
  /\ main \in AfterSecondaries =>
       \A s \in Secondaries : /\ pc[s] = "panicked" => joinError
                              /\ pc[s] = "failed" => workerError # NoOp
  /\ outcome = "none" <=> main # "returned"
  /\ outcome = "ok" => \A w \in Workers : pc[w] = "done"

\* What is reported has happened: a join error means a panic, and the worker
\* whose error is passed on is one that failed.
ReportHasCause ==
  /\ joinError => \E w \in Workers : pc[w] = "panicked"
  /\ workerError # NoOp => workerError \in Workers /\ pc[workerError] = "failed"
  /\ outcome \in {"panic", "error"} => joinError \/ workerError # NoOp

\* The flag is set by a failing worker or after the primaries; without either,
\* a primary ends only when the count is used up.
StopHasCause ==
  /\ stop => AllEnded(Primaries) \/ Failing
  /\ \A s \in Secondaries : pc[s] = "done" => stop
  /\ ~Timed => \A p \in Primaries : pc[p] = "done" => nextOp >= OpLimit \/ Failing

\* An index is held from fetch_add to the end of its I/O by one worker, for
\* ever if that worker unwinds.
IndexHeldOnce ==
  /\ \A w \in Workers : op[w] # NoOp =>
       /\ w \in Primaries /\ pc[w] \in {"io", "panicked"}
       /\ op[w] < nextOp /\ op[w] < OpLimit
  /\ \A w \in Primaries : pc[w] = "io" => op[w] # NoOp
  /\ \A v, w \in Primaries : op[v] = op[w] /\ op[v] # NoOp => v = w

\* The sampler's latest reading is one the counters have had.
SamplerBehind == prev <= counts["completed"]

\* From the disk through the channel to the sampler the checkpoints are for ever
\* higher multiples, the last one for the sampler's own.
ChannelInOrder ==
  /\ \A j, k \in DOMAIN queue : j < k => Multiple(queue[j]) < Multiple(queue[k])
  /\ saved # NoCheckpoint => \A k \in DOMAIN queue : Multiple(saved) < Multiple(queue[k])
  /\ saved # NoCheckpoint => Multiple(saved) <= lastMult
  /\ queue # <<>> => Multiple(queue[Len(queue)]) = lastMult
  /\ queue = <<>> /\ lastMult > 0 /\ unsaved # lastMult =>
       saved # NoCheckpoint /\ Multiple(saved) = lastMult

\* Before its first reading the sampler has recorded and sent nothing.
NothingSampled ==
  smp \in {"unborn", "prime"} => intervals = <<>> /\ queue = <<>> /\ saved = NoCheckpoint

\* A checkpoint, on disk or in the channel, was complete when it was sent.
Carried(checkpoint) ==
  LET taken == checkpoint.intervals
  IN /\ checkpoint.iteration = base + Total(taken)
     /\ Len(taken) <= Len(intervals) /\ taken = SubSeq(intervals, 1, Len(taken))

CheckpointsCarried ==
  /\ \A k \in DOMAIN queue : Carried(queue[k])
  /\ saved # NoCheckpoint => Carried(saved)

SamplingInv ==
  /\ base + Total(intervals) = prev
  /\ NothingSampled /\ CheckpointsCarried

IInv ==
  /\ TypeOK /\ SamplerBehind
  /\ JoinedHaveEnded /\ ChannelClosed
  /\ FailureIsKept /\ ReportHasCause
  /\ StopHasCause /\ IndexHeldOnce

(***************************************************************************)
(* What the documentation says of a run and the code does not do.           *)
(***************************************************************************)
\* app.rs:1328 "Exact number of completed I/O operations before the run stops":
\* a successful run of N operations completed, in full or in part, or finally
\* failed N of them. A retried operation is none of these.
ExactCountPerformed ==
  outcome = "ok" /\ ~Timed =>
    counts["completed"] + counts["partial"] + counts["failed"] = OpLimit
=============================================================================
