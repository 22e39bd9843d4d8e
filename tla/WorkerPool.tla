----------------------------- MODULE WorkerPool -----------------------------
(***************************************************************************)
(* The worker threads of one workload run (engine.rs): the primary workers, *)
(* which share the exact-count or runtime stop condition, and the workers   *)
(* of a secondary target, which never decide to stop and run until the      *)
(* shared stop flag is set.                                                 *)
(*                                                                          *)
(* One operation is: read the stop flag, take an index from the shared      *)
(* fetch_add dispenser, do the I/O, add the outcome to the atomic counters. *)
(* Which bytes it moves is the business of WorkerIo and TargetSetup.        *)
(***************************************************************************)
EXTENDS Naturals, Sequences, FiniteSets

CONSTANTS
  Primaries,    \* primary worker threads (profile.workload.worker_count)
  Secondaries,  \* worker threads of the secondary target; {} when there is none
  OpLimit,      \* exact_op_count; in a timed run, the model's bound on indices
  StopConditions,  \* the stop conditions the profile may have
  Faulty,       \* workers that may fail to open the target or get a buffer
  CanPanic,     \* whether a worker thread may unwind
  NoOp          \* "holds no index"

Workers == Primaries \cup Secondaries

ASSUME PoolAssumption ==
  /\ IsFiniteSet(Workers)
  /\ Primaries # {}
  /\ Primaries \cap Secondaries = {}
  /\ OpLimit \in Nat \ {0}
  /\ StopConditions \subseteq {"count", "runtime"}
  /\ Faulty \subseteq Workers
  /\ CanPanic \in BOOLEAN
  /\ NoOp \notin Nat \cup Workers

VARIABLES
  pc,       \* where each worker thread is
  op,       \* the operation index a primary worker holds, or NoOp
  nextOp,   \* the primaries' shared next_op counter
  counts,   \* the primaries' shared GlobalCounters, by outcome
  stop,     \* the stop flag all threads share
  clock,    \* "count": no runtime is configured; "runtime" until it has "elapsed"
  errors    \* workers whose Err is in the result channels, in sending order

poolVars == <<pc, op, nextOp, counts, stop, clock, errors>>

Outcomes == {"completed", "partial", "failed", "retried"}
Ended    == {"done", "failed", "panicked"}
Running  == {"open", "check", "take", "io"}
Alive    == Running \cup {"failing"}

\* Whether runtime_seconds is the stop condition: it is when there is no count.
Timed == clock # "count"

(***************************************************************************)
(* Types and initial state.                                                 *)
(***************************************************************************)
PoolTypeOK ==
  /\ pc \in [Workers -> {"unborn"} \cup Alive \cup Ended]
  /\ op \in [Workers -> Nat \cup {NoOp}]
  /\ nextOp \in Nat
  /\ counts \in [Outcomes -> Nat]
  /\ stop \in BOOLEAN
  /\ clock \in {"count", "runtime", "elapsed"}
  /\ errors \in Seq(Workers)

PoolInit ==
  /\ pc = [w \in Workers |-> "unborn"]
  /\ op = [w \in Workers |-> NoOp]
  /\ nextOp = 0
  /\ counts = [o \in Outcomes |-> 0]
  /\ stop = FALSE
  /\ clock \in StopConditions
  /\ errors = <<>>

(***************************************************************************)
(* The steps of a worker.                                                   *)
(***************************************************************************)
Goto(w, from, to) ==
  /\ pc[w] = from
  /\ pc' = [pc EXCEPT ![w] = to]

\* A primary opens its own descriptor, a secondary uses the plan's; both then
\* allocate their two buffers.
Open(w) ==
  /\ Goto(w, "open", "check")
  /\ UNCHANGED <<op, nextOp, counts, stop, clock, errors>>

\* open_fd or AlignedBuffer::new fails: the thread sets the stop flag itself.
FailToStart(w) ==
  /\ w \in Faulty
  /\ Goto(w, "open", "failing")
  /\ stop' = TRUE
  /\ UNCHANGED <<op, nextOp, counts, clock, errors>>

\* Mutant: the worker answers with defaulted statistics instead of its Err.
SendDefaults(w) ==
  /\ Goto(w, "failing", "failed")
  /\ UNCHANGED <<op, nextOp, counts, stop, clock, errors>>

\* Only then does its Err go into the channel, and the thread ends.
SendErr(w) ==
  /\ Goto(w, "failing", "failed")
  /\ errors' = Append(errors, w)
  /\ UNCHANGED <<op, nextOp, counts, stop, clock>>

\* Mutant: the loop does not look at the flag.
CheckNothing(w) ==
  /\ Goto(w, "check", "take")
  /\ UNCHANGED <<op, nextOp, counts, stop, clock, errors>>

\* The head of the loop. A worker that sees the flag leaves with Ok.
CheckStop(w) ==
  /\ Goto(w, "check", IF stop THEN "done" ELSE "take")
  /\ UNCHANGED <<op, nextOp, counts, stop, clock, errors>>

\* Exact count: fetch_add first, compare afterwards, so a worker that finds
\* the count exhausted has still advanced the counter.
TakeCounted(w) ==
  /\ w \in Primaries /\ ~Timed
  /\ nextOp' = nextOp + 1
  /\ IF nextOp >= OpLimit
       THEN Goto(w, "take", "done") /\ UNCHANGED op
       ELSE Goto(w, "take", "io") /\ op' = [op EXCEPT ![w] = nextOp]
  /\ UNCHANGED <<counts, stop, clock, errors>>

\* Runtime: an index is taken only while the runtime has not elapsed. The
\* guard on OpLimit is the model's bound on the number of operations.
TakeTimed(w) ==
  /\ w \in Primaries /\ Timed
  /\ IF clock = "elapsed"
       THEN Goto(w, "take", "done") /\ UNCHANGED <<op, nextOp>>
       ELSE /\ nextOp < OpLimit
            /\ Goto(w, "take", "io")
            /\ op' = [op EXCEPT ![w] = nextOp]
            /\ nextOp' = nextOp + 1
  /\ UNCHANGED <<counts, stop, clock, errors>>

\* Mutant: a secondary worker stops by the primaries' count.
TakeSecondaryCounted(w) ==
  /\ w \in Secondaries
  /\ Goto(w, "take", IF nextOp >= OpLimit THEN "done" ELSE "io")
  /\ UNCHANGED <<op, nextOp, counts, stop, clock, errors>>

\* A secondary worker always gets an index, from its own dispenser.
TakeSecondary(w) ==
  /\ w \in Secondaries
  /\ Goto(w, "take", "io")
  /\ UNCHANGED <<op, nextOp, counts, stop, clock, errors>>

\* Mutant: the secondary workers are given the primaries' counters.
FinishOpShared(w) ==
  /\ Goto(w, "io", "check")
  /\ op' = [op EXCEPT ![w] = NoOp]
  /\ \E o \in Outcomes : counts' = [counts EXCEPT ![o] = @ + 1]
  /\ UNCHANGED <<nextOp, stop, clock, errors>>

\* The I/O returns. Whatever the outcome, a retry (EINTR, EAGAIN) included,
\* the index is used up; only a primary touches the run's counters.
FinishOp(w) ==
  /\ Goto(w, "io", "check")
  /\ op' = [op EXCEPT ![w] = NoOp]
  /\ IF w \in Primaries
       THEN \E o \in Outcomes : counts' = [counts EXCEPT ![o] = @ + 1]
       ELSE UNCHANGED counts
  /\ UNCHANGED <<nextOp, stop, clock, errors>>

\* The thread unwinds: nothing is sent, the stop flag is not set, and an index
\* it holds is never accounted.
Panic(w) ==
  /\ CanPanic
  /\ pc[w] \in Running
  /\ pc' = [pc EXCEPT ![w] = "panicked"]
  /\ UNCHANGED <<op, nextOp, counts, stop, clock, errors>>

Take(w)  == TakeCounted(w) \/ TakeTimed(w) \/ TakeSecondary(w)
Start(w) == Open(w) \/ FailToStart(w) \/ SendErr(w)

\* What the scheduler owes a thread: every step but the panic.
Advance(w)    == Start(w) \/ CheckStop(w) \/ Take(w) \/ FinishOp(w)
WorkerStep(w) == Advance(w) \/ Panic(w)

\* The wall clock passes runtime_seconds.
Expire ==
  /\ clock = "runtime"
  /\ clock' = "elapsed"
  /\ UNCHANGED <<pc, op, nextOp, counts, stop, errors>>

(***************************************************************************)
(* Derived state.                                                           *)
(***************************************************************************)
AllEnded(S) == \A w \in S : pc[w] \in Ended

\* A worker has met an error and, with it, set the stop flag.
Failing == \E w \in Workers : pc[w] \in {"failing", "failed"}

\* Indices handed to a primary worker, and those whose outcome is counted.
Handed  == {i \in 0..(OpLimit - 1) : i < nextOp}
Settled == {i \in Handed : \A w \in Primaries : op[w] # i}
=============================================================================
