---------------------------- MODULE EngineProofs ----------------------------
(***************************************************************************)
(* Proofs about Engine, for any workers, operation count, sampling and      *)
(* checkpointing settings: type correctness, the inductive invariant IInv,  *)
(* the safety properties that follow from it, and that a run implements     *)
(* WorkloadRun.                                                             *)
(***************************************************************************)
EXTENDS Engine, SumTheorems, SequenceTheorems

(***************************************************************************)
(* Types.                                                                   *)
(***************************************************************************)
\* The first of the errors of a set of workers is one of its workers, when
\* there is one, and NoOp otherwise.
LEMMA FirstErrorOf ==
  ASSUME errors \in Seq(Workers), NEW S \in SUBSET Workers
  PROVE  /\ FirstError(S) \in S \cup {NoOp}
         /\ FirstError(S) # NoOp => \E i \in DOMAIN errors : errors[i] = FirstError(S)
         /\ (\E i \in DOMAIN errors : errors[i] \in S) => FirstError(S) \in S
<1> DEFINE Hits == {i \in DOMAIN errors : errors[i] \in S}
<1>1. CASE Hits = {}
  BY <1>1 DEF FirstError
<1>2. CASE Hits # {}
  <2>1. Hits \subseteq Nat
    OBVIOUS
  <2>2. PICK least \in Hits : \A j \in Hits : least <= j
    <3> HIDE DEF Hits
    <3> QED  BY <1>2, <2>1, LeastNatural
  <2>3. \A j \in 1..(least - 1) : errors[j] \notin S
    BY <2>1, <2>2
  <2>4. \E i \in DOMAIN errors :
          errors[i] \in S /\ \A j \in 1..(i - 1) : errors[j] \notin S
    BY <2>2, <2>3
  <2>5. QED
    BY <2>4 DEF FirstError
<1>3. QED
  BY <1>1, <1>2

\* An I/O that returns adds one to a counter or leaves them alone.
LEMMA CountsTyped ==
  ASSUME counts \in [Outcomes -> Nat], NEW w \in Workers, FinishOp(w)
  PROVE  counts' \in [Outcomes -> Nat]
<1>1. CASE UNCHANGED counts
  BY <1>1
<1>2. ASSUME NEW o \in Outcomes, counts' = [counts EXCEPT ![o] = @ + 1]
      PROVE  counts' \in [Outcomes -> Nat]
  BY <1>2
<1>3. QED
  BY <1>1, <1>2 DEF FinishOp

\* The worker's steps keep the pool's types.
LEMMA PoolTypes ==
  ASSUME PoolTypeOK, NEW w \in Workers, WorkerStep(w)
  PROVE  PoolTypeOK'
<1> USE PoolAssumption DEF PoolTypeOK, Goto, Running, Alive, Ended, Outcomes
<1>1. CASE Open(w)
  BY <1>1 DEF Open
<1>2. CASE FailToStart(w)
  BY <1>2 DEF FailToStart
<1>3. CASE CheckStop(w)
  BY <1>3 DEF CheckStop
<1>4. CASE TakeCounted(w)
  BY <1>4 DEF TakeCounted
<1>5. CASE TakeTimed(w)
  BY <1>5 DEF TakeTimed
<1>6. CASE TakeSecondary(w)
  BY <1>6 DEF TakeSecondary
<1>7. CASE FinishOp(w)
  <2>1. counts' \in [Outcomes -> Nat]
    BY <1>7, CountsTyped
  <2>2. op' \in [Workers -> Nat \cup {NoOp}] /\ pc' \in [Workers -> {"unborn"} \cup Alive \cup Ended]
    BY <1>7 DEF FinishOp
  <2>3. QED
    BY <1>7, <2>1, <2>2 DEF FinishOp
<1>8. CASE Panic(w)
  BY <1>8 DEF Panic
<1>9. CASE SendErr(w)
  BY <1>9 DEF SendErr
<1>10. QED
  BY <1>1, <1>2, <1>3, <1>4, <1>5, <1>6, <1>7, <1>8, <1>9
     DEF WorkerStep, Advance, Start, Take

\* A quotient of naturals.
LEMMA Quotient ==
  ASSUME NEW a \in Nat, NEW b \in Nat \ {0}
  PROVE  a \div b \in Nat
OBVIOUS

\* A queue that is not empty has a head and a tail.
LEMMA HeadAndTail ==
  ASSUME NEW S, NEW q \in Seq(S), q # <<>>
  PROVE  Head(q) \in S /\ Tail(q) \in Seq(S)
BY HeadTailProperties

\* The sampler's and the writer's steps keep theirs: the counters only grow
\* past the latest reading, so an interval is a natural number.
LEMMA SamplerTypes ==
  ASSUME PoolTypeOK, SamplerTypeOK, SamplerBehind, SamplerStep \/ WriterStep
  PROVE  SamplerTypeOK'
<1> USE SamplerAssumption DEF SamplerTypeOK
<1>0. counts["completed"] \in Nat
  BY DEF PoolTypeOK, Outcomes
<1>1. CASE Prime
  BY <1>0, <1>1 DEF Prime
<1>2. CASE SamplerCheck
  BY <1>2 DEF SamplerCheck
<1>3. CASE Sample
  <2> DEFINE total == counts["completed"]
             taken == Append(intervals, total - prev)
             point == [iteration |-> total, intervals |-> taken]
  <2>1. total - prev \in Nat
    BY <1>0 DEF SamplerBehind
  <2>2. taken \in Seq(Nat)
    BY <2>1
  <2>3. total \div Every \in Nat
    BY <1>0, Quotient
  <2>4. point \in [iteration : Nat, intervals : Seq(Nat)]
    BY <1>0, <2>2
  <2> HIDE DEF taken, point
  <2>5. Append(queue, point) \in Seq([iteration : Nat, intervals : Seq(Nat)])
    BY <2>4
  <2>6. /\ smp' = "check" /\ intervals' = taken /\ prev' = total
        /\ queue' \in {queue, Append(queue, point)}
        /\ lastMult' \in {lastMult, total \div Every}
        /\ UNCHANGED <<base, senders, writer, saved, unsaved>>
    BY <1>3 DEF Sample, taken, point
  <2>7. queue' \in Seq([iteration : Nat, intervals : Seq(Nat)])
    BY <2>5, <2>6
  <2> HIDE DEF total
  <2>8. lastMult' \in Nat
    BY <2>3, <2>6
  <2>9. QED
    BY <1>0, <2>2, <2>6, <2>7, <2>8 DEF total
<1>4. CASE WriterSave
  <2>1. /\ Head(queue) \in [iteration : Nat, intervals : Seq(Nat)]
        /\ Tail(queue) \in Seq([iteration : Nat, intervals : Seq(Nat)])
    BY <1>4, HeadAndTail DEF WriterSave
  <2>2. Multiple(Head(queue)) \in Nat
    BY <2>1, Quotient DEF Multiple
  <2>3. QED
    BY <1>4, <2>1, <2>2 DEF WriterSave
<1>5. CASE WriterExit
  BY <1>5 DEF WriterExit
<1>6. QED
  BY <1>1, <1>2, <1>3, <1>4, <1>5 DEF SamplerStep, WriterStep

\* No worker's step takes anything back from the counters.
LEMMA CountsGrow ==
  ASSUME PoolTypeOK, NEW w \in Workers, WorkerStep(w)
  PROVE  counts'["completed"] >= counts["completed"]
<1>1. counts' = counts \/ \E o \in Outcomes : counts' = [counts EXCEPT ![o] = @ + 1]
  BY DEF WorkerStep, Advance, Start, Take, Open, FailToStart, SendErr, CheckStop, TakeCounted,
         TakeTimed, TakeSecondary, FinishOp, Panic
<1>2. counts \in [Outcomes -> Nat] /\ "completed" \in Outcomes
  BY DEF PoolTypeOK, Outcomes
<1>3. ASSUME NEW o \in Outcomes
      PROVE  [counts EXCEPT ![o] = @ + 1]["completed"] >= counts["completed"]
  BY <1>2
<1>4. QED
  BY <1>1, <1>2, <1>3

\* Every step of the run keeps the types and the sampler behind the counters.
LEMMA TypeStep ==
  ASSUME TypeOK, SamplerBehind, [Next]_vars
  PROVE  TypeOK' /\ SamplerBehind'
<1> USE DEF TypeOK
<1>0. prev \in Nat /\ counts["completed"] \in Nat /\ prev <= counts["completed"]
  BY DEF SamplerTypeOK, PoolTypeOK, Outcomes, SamplerBehind
<1>1. CASE SpawnSampler
  BY <1>0, <1>1 DEF SpawnSampler, SamplerTypeOK, PoolTypeOK, SamplerBehind, poolVars
<1>2. ASSUME NEW w \in Workers, SpawnWorker(w)
      PROVE  TypeOK' /\ SamplerBehind'
  BY <1>0, <1>2 DEF SpawnWorker, Goto, SamplerTypeOK, PoolTypeOK, SamplerBehind,
                    samplerVars, Running, Alive
<1>3. CASE JoinPrimaries
  BY <1>0, <1>3 DEF JoinPrimaries, SamplerTypeOK, PoolTypeOK, SamplerBehind, samplerVars
<1>4. CASE JoinSampler
  BY <1>0, <1>4 DEF JoinSampler, SamplerTypeOK, PoolTypeOK, SamplerBehind, samplerVars,
                    poolVars
<1>5. CASE JoinSecondaries
  <2>1. FirstError(Secondaries) \in Workers \cup {NoOp}
    BY FirstErrorOf DEF PoolTypeOK, Workers
  <2>2. joinError' \in BOOLEAN
    BY <1>5, Zenon DEF JoinSecondaries
  <2>3. QED
    BY <1>0, <1>5, <2>1, <2>2 DEF JoinSecondaries, SamplerTypeOK, PoolTypeOK,
                                   SamplerBehind, poolVars
<1>6. CASE JoinWriter
  BY <1>0, <1>6 DEF JoinWriter, SamplerTypeOK, PoolTypeOK, SamplerBehind, samplerVars,
                    poolVars
<1>7. CASE Collect
  <2>1. FirstError(Primaries) \in Workers \cup {NoOp}
    BY FirstErrorOf DEF PoolTypeOK, Workers
  <2>2. QED
    BY <1>0, <1>7, <2>1 DEF Collect, SamplerTypeOK, PoolTypeOK, SamplerBehind,
                            samplerVars, poolVars
<1>8. CASE PoolStep
  <2>1. UNCHANGED <<samplerVars, mainVars>>
    BY <1>8 DEF PoolStep
  <2>2. CASE Expire
    BY <1>0, <2>1, <2>2 DEF Expire, PoolTypeOK, SamplerTypeOK, SamplerBehind,
                            samplerVars, mainVars
  <2>3. ASSUME NEW w \in Workers, WorkerStep(w)
        PROVE  TypeOK' /\ SamplerBehind'
    <3>1. PoolTypeOK'
      BY <2>3, PoolTypes
    <3>2. SamplerTypeOK'
      BY <2>1 DEF SamplerTypeOK, samplerVars
    <3>3. SamplerBehind'
      <4>1. counts'["completed"] >= counts["completed"] /\ counts'["completed"] \in Nat
        BY <2>3, <3>1, CountsGrow DEF PoolTypeOK, Outcomes
      <4>2. prev' = prev
        BY <2>1 DEF samplerVars
      <4>3. QED
        BY <1>0, <4>1, <4>2 DEF SamplerBehind
    <3>4. QED
      BY <2>1, <3>1, <3>2, <3>3 DEF mainVars
  <2>4. QED
    BY <1>8, <2>2, <2>3 DEF PoolStep
<1>9. CASE SamplingStep
  <2>1. UNCHANGED <<poolVars, mainVars>>
    BY <1>9 DEF SamplingStep
  <2>2. SamplerTypeOK'
    BY <1>9, SamplerTypes DEF SamplingStep
  <2>3. PoolTypeOK'
    BY <2>1 DEF poolVars, PoolTypeOK
  <2>4. prev' = prev \/ prev' = counts["completed"]
    BY <1>9 DEF SamplingStep, SamplerStep, WriterStep, Prime, SamplerCheck, Sample,
                WriterSave, WriterExit
  <2>5. SamplerBehind'
    BY <1>0, <2>1, <2>4 DEF SamplerBehind, poolVars
  <2>6. QED
    BY <2>1, <2>2, <2>3, <2>5 DEF mainVars
<1>10. CASE UNCHANGED vars
  BY <1>0, <1>10 DEF vars, poolVars, samplerVars, mainVars, PoolTypeOK, SamplerTypeOK,
                     SamplerBehind
<1>11. QED
  BY <1>1, <1>2, <1>3, <1>4, <1>5, <1>6, <1>7, <1>8, <1>9, <1>10
     DEF Next, MainStep, Returned

(***************************************************************************)
(* The parts of the invariant.                                              *)
(***************************************************************************)
\* What a worker's step does to the threads, the flag and the channels.
LEMMA WorkerMoves ==
  ASSUME PoolTypeOK, NEW w \in Workers, WorkerStep(w)
  PROVE  /\ pc[w] \in Alive
         /\ pc'[w] \in Alive \cup Ended
         /\ pc[w] = "failing" => pc'[w] = "failed"
         /\ \A v \in Workers : v # w => pc'[v] = pc[v]
         /\ \/ pc'[w] = "failed" /\ errors' = Append(errors, w)
            \/ pc'[w] # "failed" /\ errors' = errors
         /\ \/ pc'[w] = "failing" /\ stop' = TRUE
            \/ pc'[w] # "failing" /\ stop' = stop
         /\ pc'[w] = "done" =>
              stop \/ (w \in Primaries /\ (~Timed => nextOp >= OpLimit))
         /\ nextOp' >= nextOp /\ clock' = clock
<1> USE DEF PoolTypeOK, Goto, Running, Alive, Ended
<1>1. CASE Open(w)
  BY <1>1 DEF Open
<1>2. CASE FailToStart(w)
  BY <1>2 DEF FailToStart
<1>3. CASE CheckStop(w)
  BY <1>3 DEF CheckStop
<1>4. CASE TakeCounted(w)
  BY <1>4 DEF TakeCounted
<1>5. CASE TakeTimed(w)
  BY <1>5 DEF TakeTimed
<1>6. CASE TakeSecondary(w)
  BY <1>6 DEF TakeSecondary
<1>7. CASE FinishOp(w)
  BY <1>7 DEF FinishOp
<1>8. CASE Panic(w)
  BY <1>8 DEF Panic
<1>9. CASE SendErr(w)
  BY <1>9 DEF SendErr
<1>10. QED
  BY <1>1, <1>2, <1>3, <1>4, <1>5, <1>6, <1>7, <1>8, <1>9
     DEF WorkerStep, Advance, Start, Take

\* The joins wait for what they join, and what has ended stays ended.
LEMMA JoinedStep ==
  ASSUME TypeOK, JoinedHaveEnded, [Next]_vars
  PROVE  JoinedHaveEnded'
<1> USE DEF TypeOK, JoinedHaveEnded, AfterWriter, AfterSecondaries, AfterSampler,
            AfterPrimaries, AllEnded
<1>0. Primaries \subseteq Workers /\ Secondaries \subseteq Workers
  BY DEF Workers
<1>1. CASE SpawnSampler
  BY <1>1 DEF SpawnSampler
<1>2. ASSUME NEW w \in Workers, SpawnWorker(w)
      PROVE  JoinedHaveEnded'
  BY <1>2 DEF SpawnWorker, samplerVars
<1>3. CASE JoinPrimaries
  BY <1>3 DEF JoinPrimaries, samplerVars
<1>4. CASE JoinSampler
  BY <1>4 DEF JoinSampler, samplerVars, poolVars
<1>5. CASE JoinSecondaries
  BY <1>5 DEF JoinSecondaries, poolVars
<1>6. CASE JoinWriter
  BY <1>6 DEF JoinWriter, samplerVars, poolVars
<1>7. CASE Collect
  BY <1>7 DEF Collect, samplerVars, poolVars
<1>8. CASE PoolStep
  <2>1. UNCHANGED <<samplerVars, mainVars>>
    BY <1>8 DEF PoolStep
  <2>2. \A v \in Workers : pc[v] \in Ended => pc'[v] = pc[v]
    BY <1>8, WorkerMoves DEF PoolStep, Expire, Running, Alive, Ended
  <2>3. QED
    BY <1>0, <2>1, <2>2 DEF samplerVars, mainVars
<1>9. CASE SamplingStep
  <2>1. UNCHANGED <<poolVars, mainVars>>
    BY <1>9 DEF SamplingStep
  <2>2. /\ smp = "unborn" => smp' = "unborn"
        /\ smp = "done" => smp' = "done"
        /\ writer # "running" => writer' # "running"
    BY <1>9 DEF SamplingStep, SamplerStep, WriterStep, Prime, SamplerCheck, Sample,
                WriterSave, WriterExit
  <2>3. QED
    BY <2>1, <2>2 DEF poolVars, mainVars
<1>10. CASE UNCHANGED vars
  BY <1>10 DEF vars, poolVars, samplerVars, mainVars
<1>11. QED
  BY <1>1, <1>2, <1>3, <1>4, <1>5, <1>6, <1>7, <1>8, <1>9, <1>10
     DEF Next, MainStep, Returned

\* The writer leaves an empty channel nobody can send to any more.
LEMMA ChannelStep ==
  ASSUME TypeOK, JoinedHaveEnded, ChannelClosed, [Next]_vars
  PROVE  ChannelClosed'
<1> USE DEF TypeOK, SamplerTypeOK, ChannelClosed
<1>1. CASE SpawnSampler
  BY <1>1 DEF SpawnSampler, JoinedHaveEnded
<1>2. CASE JoinSecondaries
  BY <1>2 DEF JoinSecondaries
<1>3. CASE SamplingStep
  <2>1. CASE Prime
    BY <2>1 DEF Prime
  <2>2. CASE SamplerCheck
    BY <2>2 DEF SamplerCheck
  <2>3. CASE Sample
    BY <2>3 DEF Sample, CheckpointDue
  <2>4. CASE WriterSave
    BY <2>4 DEF WriterSave
  <2>5. CASE WriterExit
    BY <2>5 DEF WriterExit
  <2>6. QED
    BY <1>3, <2>1, <2>2, <2>3, <2>4, <2>5 DEF SamplingStep, SamplerStep, WriterStep
<1>4. CASE UNCHANGED samplerVars
  BY <1>4 DEF samplerVars
<1>5. [Next]_vars => SpawnSampler \/ JoinSecondaries \/ SamplingStep \/ UNCHANGED samplerVars
  BY DEF Next, MainStep, SpawnWorker, JoinPrimaries, JoinSampler, JoinWriter, Collect,
         PoolStep, Returned, vars, samplerVars
<1>6. QED
  BY <1>1, <1>2, <1>3, <1>4, <1>5

\* Every Err is sent by a worker that failed, and every failed worker sent one.
LEMMA ErrorsSent ==
  ASSUME PoolTypeOK, NEW w \in Workers, WorkerStep(w),
         \A v \in Workers : pc[v] = "failed" => \E i \in DOMAIN errors : errors[i] = v,
         \A i \in DOMAIN errors : pc[errors[i]] = "failed"
  PROVE  /\ \A v \in Workers : pc'[v] = "failed" => \E i \in DOMAIN errors' : errors'[i] = v
         /\ \A i \in DOMAIN errors' : pc'[errors'[i]] = "failed"
<1>0. errors \in Seq(Workers)
  BY DEF PoolTypeOK
<1>1. /\ pc[w] \in Alive
      /\ \A v \in Workers : v # w => pc'[v] = pc[v]
      /\ \/ pc'[w] = "failed" /\ errors' = Append(errors, w)
         \/ pc'[w] # "failed" /\ errors' = errors
  BY WorkerMoves
<1>2. pc[w] # "failed"
  BY <1>1 DEF Running, Alive
<1>3. \A i \in DOMAIN errors : errors[i] \in Workers /\ errors[i] # w
  BY <1>0, <1>2
<1>4. CASE pc'[w] # "failed" /\ errors' = errors
  BY <1>1, <1>3, <1>4
<1>5. CASE pc'[w] = "failed" /\ errors' = Append(errors, w)
  <2>1. /\ DOMAIN errors' = 1..(Len(errors) + 1)
        /\ DOMAIN errors = 1..Len(errors)
        /\ errors'[Len(errors) + 1] = w
        /\ \A i \in DOMAIN errors : errors'[i] = errors[i]
        /\ Len(errors) \in Nat
    BY <1>0, <1>5
  <2>2. ASSUME NEW v \in Workers, pc'[v] = "failed"
        PROVE  \E i \in DOMAIN errors' : errors'[i] = v
    <3>1. CASE v = w
      BY <2>1, <3>1
    <3>2. CASE v # w
      BY <1>1, <2>1, <2>2, <3>2
    <3>3. QED
      BY <3>1, <3>2
  <2>3. ASSUME NEW i \in DOMAIN errors'
        PROVE  pc'[errors'[i]] = "failed"
    <3>1. CASE i = Len(errors) + 1
      BY <1>5, <2>1, <3>1
    <3>2. CASE i \in DOMAIN errors
      BY <1>1, <1>3, <2>1, <3>2
    <3>3. QED
      BY <2>1, <2>3, <3>1, <3>2
  <2>4. QED
    BY <2>2, <2>3
<1>6. QED
  BY <1>1, <1>4, <1>5

\* A failure or a panic reaches what the call returns.
LEMMA FailureStep ==
  ASSUME TypeOK, JoinedHaveEnded, FailureIsKept, [Next]_vars
  PROVE  FailureIsKept'
<1> USE DEF TypeOK, FailureIsKept, AfterWriter, AfterSecondaries, AfterSampler,
            AfterPrimaries
<1>0. /\ Primaries \subseteq Workers /\ Secondaries \subseteq Workers
      /\ NoOp \notin Workers /\ errors \in Seq(Workers)
  BY PoolAssumption DEF Workers, PoolTypeOK
<1>1. CASE SpawnSampler
  BY <1>1 DEF SpawnSampler, poolVars
<1>2. ASSUME NEW w \in Workers, SpawnWorker(w)
      PROVE  FailureIsKept'
  BY <1>0, <1>2 DEF SpawnWorker, Goto, PoolTypeOK
<1>3. CASE JoinPrimaries
  BY <1>3 DEF JoinPrimaries
<1>4. CASE JoinSampler
  BY <1>4 DEF JoinSampler, poolVars
<1>5. CASE JoinSecondaries
  <2>1. ASSUME NEW s \in Secondaries, pc[s] = "failed"
        PROVE  FirstError(Secondaries) # NoOp
    BY <1>0, <2>1, FirstErrorOf
  <2>2. /\ workerError' = FirstError(Secondaries)
        /\ joinError' = (joinError \/ \E s \in Secondaries : pc[s] = "panicked")
        /\ main = "join_secondaries" /\ main' = "join_writer"
        /\ outcome' = outcome /\ pc' = pc /\ errors' = errors
    BY <1>5 DEF JoinSecondaries, poolVars
  <2>3. QED
    BY <2>1, <2>2
<1>6. CASE JoinWriter
  BY <1>6 DEF JoinWriter, poolVars
<1>7. CASE Collect
  <2>1. /\ main = "collect" /\ main' = "returned" /\ pc' = pc /\ errors' = errors
        /\ joinError' = joinError
        /\ workerError' = IF workerError = NoOp THEN FirstError(Primaries) ELSE workerError
        /\ outcome' = IF joinError THEN "panic"
                      ELSE IF workerError' # NoOp THEN "error" ELSE "ok"
    BY <1>7 DEF Collect, poolVars
  <2>2. ASSUME NEW p \in Primaries, pc[p] = "failed"
        PROVE  FirstError(Primaries) # NoOp
    BY <1>0, <2>2, FirstErrorOf
  <2>3. AllEnded(Workers)
    BY <2>1 DEF JoinedHaveEnded, AllEnded, Workers
  <2>4. outcome' = "ok" => \A w \in Workers : pc[w] = "done"
    BY <2>1, <2>2, <2>3 DEF AllEnded, Ended, Workers
  <2>5. QED
    BY <2>1, <2>4
<1>8. CASE PoolStep
  <2>1. UNCHANGED mainVars
    BY <1>8 DEF PoolStep
  <2>2. CASE Expire
    BY <2>1, <2>2 DEF Expire, mainVars
  <2>3. ASSUME NEW w \in Workers, WorkerStep(w)
        PROVE  FailureIsKept'
    <3>1. /\ \A v \in Workers : pc'[v] = "failed" => \E i \in DOMAIN errors' : errors'[i] = v
          /\ \A i \in DOMAIN errors' : pc'[errors'[i]] = "failed"
      BY <2>3, ErrorsSent
    <3>2. pc[w] \in Alive /\ \A v \in Workers : v # w => pc'[v] = pc[v]
      BY <2>3, WorkerMoves
    <3>3. main \in AfterPrimaries => w \notin Primaries
      BY <3>2 DEF JoinedHaveEnded, AllEnded, Ended, Running, Alive
    <3>4. main \in AfterSecondaries => w \notin Secondaries
      BY <3>2 DEF JoinedHaveEnded, AllEnded, Ended, Running, Alive
    <3>5. outcome # "ok"
      BY <3>3, <3>4 DEF Workers
    <3>6. QED
      BY <1>0, <2>1, <3>1, <3>2, <3>3, <3>4, <3>5 DEF mainVars
  <2>4. QED
    BY <1>8, <2>2, <2>3 DEF PoolStep
<1>9. CASE UNCHANGED <<poolVars, mainVars>>
  BY <1>9 DEF poolVars, mainVars
<1>10. QED
  BY <1>1, <1>2, <1>3, <1>4, <1>5, <1>6, <1>7, <1>8, <1>9
     DEF Next, MainStep, SamplingStep, Returned, vars

\* Nothing is reported that did not happen.
LEMMA ReportStep ==
  ASSUME TypeOK, FailureIsKept, ReportHasCause, [Next]_vars
  PROVE  ReportHasCause'
<1> USE DEF TypeOK, ReportHasCause
<1>0. /\ Primaries \subseteq Workers /\ Secondaries \subseteq Workers
      /\ NoOp \notin Workers /\ errors \in Seq(Workers)
  BY PoolAssumption DEF Workers, PoolTypeOK
<1>1. ASSUME NEW S \in {Primaries, Secondaries}, FirstError(S) # NoOp
      PROVE  FirstError(S) \in Workers /\ pc[FirstError(S)] = "failed"
  BY <1>0, <1>1, FirstErrorOf DEF FailureIsKept
<1>2. ASSUME NEW w \in Workers, SpawnWorker(w)
      PROVE  ReportHasCause'
  BY <1>0, <1>2 DEF SpawnWorker, Goto, PoolTypeOK
<1>3. CASE JoinPrimaries
  <2>1. /\ joinError' = \E p \in Primaries : pc[p] = "panicked"
        /\ UNCHANGED <<pc, workerError, outcome>>
        /\ main = "join_primaries"
    BY <1>3 DEF JoinPrimaries
  <2>2. outcome = "none"
    BY <2>1 DEF FailureIsKept
  <2>3. QED
    BY <1>0, <2>1, <2>2
<1>4. CASE JoinSecondaries
  <2>1. /\ joinError' = (joinError \/ \E s \in Secondaries : pc[s] = "panicked")
        /\ workerError' = FirstError(Secondaries)
        /\ UNCHANGED <<pc, outcome>>
        /\ main = "join_secondaries"
    BY <1>4 DEF JoinSecondaries, poolVars
  <2>2. outcome = "none"
    BY <2>1 DEF FailureIsKept
  <2>3. QED
    BY <1>0, <1>1, <2>1, <2>2
<1>5. CASE Collect
  <2>1. /\ workerError' \in {workerError, FirstError(Primaries)}
        /\ outcome' = IF joinError THEN "panic"
                      ELSE IF workerError' # NoOp THEN "error" ELSE "ok"
        /\ UNCHANGED <<pc, joinError>>
    BY <1>5 DEF Collect, poolVars
  <2>2. QED
    BY <1>0, <1>1, <2>1
<1>6. CASE UNCHANGED <<pc, joinError, workerError, outcome>>
  BY <1>6
<1>7. CASE PoolStep
  <2>1. UNCHANGED mainVars
    BY <1>7 DEF PoolStep
  <2>2. \A v \in Workers : pc[v] \in Ended => pc'[v] = pc[v]
    BY <1>7, WorkerMoves DEF PoolStep, Expire, Running, Alive, Ended
  <2>3. QED
    BY <2>1, <2>2 DEF mainVars, Ended
<1>8. QED
  BY <1>2, <1>3, <1>4, <1>5, <1>6, <1>7
     DEF Next, MainStep, SpawnSampler, JoinSampler, JoinWriter, SamplingStep, Returned,
         vars, poolVars, mainVars

\* The stop flag is never raised without a reason, and a primary that ends
\* while it is down has found the count used up.
LEMMA StopStep ==
  ASSUME TypeOK, JoinedHaveEnded, StopHasCause, [Next]_vars
  PROVE  StopHasCause'
<1> USE DEF TypeOK, StopHasCause, AllEnded, Failing
<1>0. /\ Primaries \subseteq Workers /\ Secondaries \subseteq Workers
      /\ Primaries \cap Secondaries = {}
      /\ nextOp \in Nat /\ OpLimit \in Nat
  BY PoolAssumption DEF Workers, PoolTypeOK
<1>1. CASE SpawnSampler
  BY <1>1 DEF SpawnSampler, poolVars, Timed
<1>2. ASSUME NEW w \in Workers, SpawnWorker(w)
      PROVE  StopHasCause'
  <2>1. /\ pc[w] = "unborn" /\ pc' = [pc EXCEPT ![w] = "open"]
        /\ pc \in [Workers -> {"unborn"} \cup Alive \cup Ended]
        /\ UNCHANGED <<stop, nextOp, clock>>
    BY <1>2 DEF SpawnWorker, Goto, PoolTypeOK
  <2>2. \A v \in Workers : pc'[v] = pc[v] \/ (pc[v] = "unborn" /\ pc'[v] = "open")
    BY <2>1
  <2>3. Failing => Failing'
    BY <2>2
  <2>4. AllEnded(Primaries) => AllEnded(Primaries)'
    BY <1>0, <2>2 DEF Ended
  <2>5. Timed' = Timed
    BY <2>1 DEF Timed
  <2> QED  BY <1>0, <2>1, <2>2, <2>3, <2>4, <2>5
<1>3. CASE JoinPrimaries
  BY <1>3 DEF JoinPrimaries, Timed
<1>4. CASE UNCHANGED poolVars
  BY <1>4 DEF poolVars, Timed
<1>5. CASE PoolStep
  <2>1. CASE Expire
    BY <2>1 DEF Expire, Timed
  <2>2. ASSUME NEW w \in Workers, WorkerStep(w)
        PROVE  StopHasCause'
    <3>1. /\ pc[w] \in Alive
          /\ pc[w] = "failing" => pc'[w] = "failed"
          /\ \A v \in Workers : v # w => pc'[v] = pc[v]
          /\ \/ pc'[w] = "failing" /\ stop' = TRUE
             \/ pc'[w] # "failing" /\ stop' = stop
          /\ pc'[w] = "done" =>
               stop \/ (w \in Primaries /\ (~Timed => nextOp >= OpLimit))
          /\ nextOp' >= nextOp /\ clock' = clock
      BY <2>2, WorkerMoves
    <3>2. nextOp' \in Nat
      BY <2>2, PoolTypes DEF PoolTypeOK
    <3>3. pc[w] \notin Ended
      BY <3>1 DEF Alive, Running, Ended
    <3>4. Failing => Failing'
      BY <3>1, <3>3 DEF Ended
    <3>5. stop' => AllEnded(Primaries)' \/ Failing'
      BY <1>0, <3>1, <3>3, <3>4
    <3>6. \A s \in Secondaries : pc'[s] = "done" => stop'
      BY <1>0, <3>1
    <3>7. (~Timed)' => \A p \in Primaries :
            pc'[p] = "done" => nextOp' >= OpLimit \/ Failing'
      <4>1. Timed' = Timed
        BY <3>1 DEF Timed
      <4>2. SUFFICES ASSUME ~Timed, NEW p \in Primaries, pc'[p] = "done"
                     PROVE  nextOp' >= OpLimit \/ Failing'
        BY <4>1
      <4>3. CASE p # w
        <5>1. nextOp >= OpLimit \/ Failing
          BY <1>0, <3>1, <4>2, <4>3
        <5>2. QED
          BY <1>0, <3>1, <3>2, <3>4, <5>1
      <4>4. CASE p = w
        <5>1. nextOp >= OpLimit \/ stop
          BY <3>1, <4>2, <4>4
        <5>2. stop => Failing
          BY <3>3, <4>4
        <5>3. QED
          BY <1>0, <3>1, <3>2, <3>4, <5>1, <5>2
      <4>5. QED
        BY <4>3, <4>4
    <3>8. QED
      BY <3>5, <3>6, <3>7
  <2>3. QED
    BY <1>5, <2>1, <2>2 DEF PoolStep
<1>6. QED
  BY <1>1, <1>2, <1>3, <1>4, <1>5
     DEF Next, MainStep, JoinSampler, JoinSecondaries, JoinWriter, Collect,
         SamplingStep, Returned, vars

\* The dispenser gives an index to one worker, which keeps it through its I/O.
LEMMA IndexStep ==
  ASSUME TypeOK, IndexHeldOnce, [Next]_vars
  PROVE  IndexHeldOnce'
<1> USE DEF TypeOK, PoolTypeOK, IndexHeldOnce
<1>0. /\ Primaries \subseteq Workers /\ NoOp \notin Nat
      /\ nextOp \in Nat /\ OpLimit \in Nat
  BY PoolAssumption DEF Workers
<1>1. ASSUME NEW w \in Workers, SpawnWorker(w)
      PROVE  IndexHeldOnce'
  BY <1>0, <1>1 DEF SpawnWorker, Goto
<1>2. CASE UNCHANGED <<pc, op, nextOp>>
  BY <1>2
<1>3. ASSUME NEW w \in Workers, WorkerStep(w)
      PROVE  IndexHeldOnce'
  <2> USE DEF Goto, Running, Alive, Ended
  <2>1. CASE Open(w)
    BY <1>0, <2>1 DEF Open
  <2>2. CASE FailToStart(w)
    BY <1>0, <2>2 DEF FailToStart
  <2>3. CASE CheckStop(w)
    BY <1>0, <2>3 DEF CheckStop
  <2>0. ASSUME w \in Primaries, nextOp < OpLimit, nextOp' = nextOp + 1,
               Goto(w, "take", "io"), op' = [op EXCEPT ![w] = nextOp]
        PROVE  IndexHeldOnce'
    <3>1. /\ \A v \in Workers : op'[v] = IF v = w THEN nextOp ELSE op[v]
          /\ \A v \in Workers : pc'[v] = IF v = w THEN "io" ELSE pc[v]
      BY <2>0
    <3>2. \A v \in Workers : op[v] # NoOp => op[v] \in Nat /\ op[v] < nextOp
      OBVIOUS
    <3>3. \A v \in Workers : op'[v] # NoOp =>
            /\ v \in Primaries /\ pc'[v] \in {"io", "panicked"}
            /\ op'[v] < nextOp' /\ op'[v] < OpLimit
      BY <1>0, <2>0, <3>1, <3>2
    <3>4. \A v \in Primaries : pc'[v] = "io" => op'[v] # NoOp
      BY <1>0, <3>1
    <3>5. \A u, v \in Primaries : op'[u] = op'[v] /\ op'[u] # NoOp => u = v
      BY <1>0, <3>1, <3>2
    <3>6. QED
      BY <3>3, <3>4, <3>5
  <2>4. CASE TakeCounted(w)
    <3>1. CASE nextOp >= OpLimit
      <4>1. /\ op' = op /\ nextOp' = nextOp + 1 /\ pc[w] = "take"
            /\ \A v \in Workers : pc'[v] = IF v = w THEN "done" ELSE pc[v]
        BY <2>4, <3>1 DEF TakeCounted
      <4>2. \A v \in Workers : op[v] # NoOp => op[v] \in Nat /\ op[v] < nextOp /\ v # w
        BY <4>1
      <4> QED  BY <1>0, <4>1, <4>2
    <3>2. CASE ~(nextOp >= OpLimit)
      <4>1. nextOp < OpLimit
        BY <1>0, <3>2
      <4>2. QED
        BY <2>0, <2>4, <3>2, <4>1 DEF TakeCounted
    <3>3. QED
      BY <3>1, <3>2
  <2>5. CASE TakeTimed(w)
    <3>1. CASE clock = "elapsed"
      BY <1>0, <2>5, <3>1 DEF TakeTimed
    <3>2. CASE clock # "elapsed"
      BY <2>0, <2>5, <3>2 DEF TakeTimed
    <3>3. QED
      BY <3>1, <3>2
  <2>6. CASE TakeSecondary(w)
    <3>1. w \notin Primaries
      BY <2>6, PoolAssumption DEF TakeSecondary
    <3>2. QED
      BY <1>0, <2>6, <3>1 DEF TakeSecondary
  <2>7. CASE FinishOp(w)
    BY <1>0, <2>7 DEF FinishOp
  <2>8. CASE Panic(w)
    BY <1>0, <2>8 DEF Panic
  <2>9. CASE SendErr(w)
    BY <1>0, <2>9 DEF SendErr
  <2>10. QED
    BY <1>3, <2>1, <2>2, <2>3, <2>4, <2>5, <2>6, <2>7, <2>8, <2>9
       DEF WorkerStep, Advance, Start, Take
<1>4. QED
  BY <1>1, <1>2, <1>3
     DEF Next, MainStep, SpawnSampler, JoinPrimaries, JoinSampler, JoinSecondaries,
         JoinWriter, Collect, PoolStep, Expire, SamplingStep, Returned, vars, poolVars

(***************************************************************************)
(* The invariant and what follows from it.                                  *)
(***************************************************************************)
LEMMA InitInvariant == Init => IInv
<1> SUFFICES ASSUME Init PROVE IInv
  OBVIOUS
<1> USE PoolAssumption, SamplerAssumption DEF Init, PoolInit, SamplerInit
<1>1. PoolTypeOK
  <2>1. /\ pc \in [Workers -> {"unborn"} \cup Alive \cup Ended]
        /\ op \in [Workers -> Nat \cup {NoOp}]
    OBVIOUS
  <2>2. nextOp \in Nat /\ counts \in [Outcomes -> Nat]
    OBVIOUS
  <2>3. stop \in BOOLEAN /\ clock \in {"count", "runtime", "elapsed"}
    BY Zenon
  <2>4. errors \in Seq(Workers)
    OBVIOUS
  <2>5. QED
    BY <2>1, <2>2, <2>3, <2>4, Zenon DEF PoolTypeOK
<1>2. SamplerTypeOK
  BY DEF SamplerTypeOK
<1>3. TypeOK
  BY <1>1, <1>2 DEF TypeOK
<1>4. SamplerBehind
  BY DEF SamplerBehind, Outcomes
<1>5. JoinedHaveEnded
  BY DEF JoinedHaveEnded, AfterPrimaries, AfterSampler, AfterSecondaries, AfterWriter
<1>6. ChannelClosed
  BY DEF ChannelClosed
<1>7. FailureIsKept
  BY DEF FailureIsKept, AfterPrimaries, AfterSampler, AfterSecondaries, AfterWriter
<1>8. ReportHasCause
  BY DEF ReportHasCause
<1>9. StopHasCause
  BY DEF StopHasCause, Workers, Failing
<1>10. IndexHeldOnce
  BY DEF IndexHeldOnce, Workers
<1>11. QED
  BY <1>3, <1>4, <1>5, <1>6, <1>7, <1>8, <1>9, <1>10 DEF IInv

\* Every step keeps every part of the invariant.
LEMMA StepInvariant == IInv /\ [Next]_vars => IInv'
BY TypeStep, JoinedStep, ChannelStep, FailureStep, ReportStep, StopStep, IndexStep DEF IInv

\* The inductive invariant of a run, whatever its workers, its stop condition
\* and its sampling.
THEOREM Invariance == Spec => []IInv
BY InitInvariant, StepInvariant, PTL DEF Spec

\* The state of a run keeps its types: the calling thread reports a worker or
\* nobody, an interval is never negative, a checkpoint is a checkpoint.
THEOREM TypeCorrect == Spec => []TypeOK
<1>1. IInv => TypeOK
  BY DEF IInv
<1>2. QED
  BY <1>1, Invariance, PTL

\* When the call returns its threads are gone and its channel is empty.
THEOREM NothingLeft == Spec => []NothingOutlivesTheRun
<1>1. IInv => NothingOutlivesTheRun
  <2>1. SUFFICES ASSUME IInv, main = "returned"
                 PROVE  AllEnded(Workers) /\ smp = "done" /\ writer # "running"
                          /\ queue = <<>>
    BY DEF NothingOutlivesTheRun
  <2>2. /\ AllEnded(Primaries) /\ AllEnded(Secondaries)
        /\ smp = "done" /\ writer # "running"
    BY <2>1 DEF IInv, JoinedHaveEnded, AfterPrimaries, AfterSampler,
                AfterSecondaries, AfterWriter
  <2>3. queue = <<>>
    BY <2>1, <2>2 DEF IInv, TypeOK, SamplerTypeOK, ChannelClosed
  <2>4. QED
    BY <2>2, <2>3 DEF AllEnded, Workers
<1>2. QED
  BY <1>1, Invariance, PTL

\* A secondary worker that ended normally had its primaries ended or a failure.
THEOREM SecondariesStay == Spec => []SecondariesCoverPrimaries
<1>1. IInv => SecondariesCoverPrimaries
  BY DEF IInv, StopHasCause, SecondariesCoverPrimaries
<1>2. QED
  BY <1>1, Invariance, PTL

(***************************************************************************)
(* The checkpoint channel.                                                  *)
(***************************************************************************)
Checkpoint == [iteration : Nat, intervals : Seq(Nat)]

\* A checkpoint for a higher multiple is one of more operations.
LEMMA MultipleGrows ==
  ASSUME NEW a \in Checkpoint, NEW b \in Checkpoint, Multiple(a) < Multiple(b)
  PROVE  a.iteration < b.iteration
<1> DEFINE m == a.iteration
           n == b.iteration
<1>1. m \in Nat /\ n \in Nat /\ Every \in Nat \ {0} /\ m \div Every < n \div Every
  BY SamplerAssumption DEF Checkpoint, Multiple
<1> HIDE DEF m, n
<1>2. SUFFICES ASSUME n <= m PROVE FALSE
  BY <1>1 DEF m, n
<1>3. Every * (n \div Every) <= n /\ m < Every * (m \div Every) + Every
      /\ m \div Every \in Nat /\ n \div Every \in Nat
  BY <1>1
<1>4. \A q, r \in Nat : q < r => Every * q + Every <= Every * r
  <2> TAKE q \in Nat, r \in Nat
  <2>1. Every * r = Every * q + Every * (r - q)
    BY <1>1
  <2>2. q < r => Every * (r - q) >= Every
    BY <1>1
  <2>3. Every * q \in Nat /\ Every * r \in Nat /\ Every * (r - q) \in Int
    BY <1>1
  <2> QED  BY <1>1, <2>1, <2>2, <2>3
<1>5. Every * (m \div Every) + Every <= Every * (n \div Every)
  BY <1>1, <1>3, <1>4
<1> QED  BY <1>1, <1>2, <1>3, <1>5

\* The multiple of a checkpoint is a natural number.
LEMMA MultipleType ==
  ASSUME NEW c \in Checkpoint
  PROVE  Multiple(c) \in Nat
  BY Quotient, SamplerAssumption DEF Multiple, Checkpoint

\* The elements of a queue with one more, and of one without its first.
LEMMA QueueMoves ==
  ASSUME NEW q \in Seq(Checkpoint), NEW c \in Checkpoint
  PROVE  /\ Append(q, c) # <<>> /\ DOMAIN Append(q, c) = (DOMAIN q) \cup {Len(q) + 1}
         /\ Len(Append(q, c)) = Len(q) + 1 /\ Append(q, c)[Len(q) + 1] = c
         /\ \A k \in DOMAIN q : Append(q, c)[k] = q[k] /\ k < Len(q) + 1
         /\ q # <<>> =>
              /\ Head(q) = q[1] /\ 1 \in DOMAIN q /\ Len(Tail(q)) = Len(q) - 1
              /\ \A k \in DOMAIN Tail(q) : /\ Tail(q)[k] = q[k + 1]
                                          /\ k + 1 \in DOMAIN q /\ k + 1 > 1
              /\ Tail(q) = <<>> <=> Len(q) = 1
<1>1. q # <<>> => /\ Head(q) = q[1] /\ Tail(q) \in Seq(Checkpoint)
                  /\ Len(Tail(q)) = Len(q) - 1
                  /\ \A k \in 1..Len(Tail(q)) : Tail(q)[k] = q[k + 1]
  BY HeadTailProperties
<1>2. /\ Append(q, c) # <<>> /\ Len(Append(q, c)) = Len(q) + 1
      /\ Append(q, c) \in Seq(Checkpoint)
      /\ \A k \in 1..Len(q) : Append(q, c)[k] = q[k]
      /\ Append(q, c)[Len(q) + 1] = c
  BY AppendProperties
<1>3. Len(q) \in Nat /\ DOMAIN q = 1..Len(q) /\ (q = <<>> <=> Len(q) = 0)
  OBVIOUS
<1>4. DOMAIN Append(q, c) = 1..(Len(q) + 1)
  BY <1>2
<1>5. ASSUME q # <<>>
      PROVE  DOMAIN Tail(q) = 1..(Len(q) - 1) /\ (Tail(q) = <<>> <=> Len(q) = 1)
  BY <1>1, <1>3, <1>5
<1> QED  BY <1>1, <1>2, <1>3, <1>4, <1>5

\* What the order says after a step.
LEMMA OrderAfter ==
  ChannelInOrder' <=>
    /\ \A j, k \in DOMAIN queue' : j < k => Multiple(queue'[j]) < Multiple(queue'[k])
    /\ saved' # NoCheckpoint => \A k \in DOMAIN queue' : Multiple(saved') < Multiple(queue'[k])
    /\ saved' # NoCheckpoint => Multiple(saved') <= lastMult'
    /\ queue' # <<>> => Multiple(queue'[Len(queue')]) = lastMult'
    /\ queue' = <<>> /\ lastMult' > 0 /\ unsaved' # lastMult' =>
         saved' # NoCheckpoint /\ Multiple(saved') = lastMult'
  BY DEF ChannelInOrder, Multiple

\* A new checkpoint is for a higher multiple than all that are under way.
LEMMA SampleInOrder ==
  ASSUME TypeOK, SamplerBehind, ChannelInOrder, Sample
  PROVE  ChannelInOrder'
<1> DEFINE total == counts["completed"]
           point == [iteration |-> total, intervals |-> Append(intervals, total - prev)]
<1>1. CASE UNCHANGED <<queue, lastMult>>
  BY <1>1, OrderAfter DEF Sample, ChannelInOrder
<1>2. CASE CheckpointDue(total) /\ queue' = Append(queue, point) /\ lastMult' = total \div Every
  <2>1. point \in Checkpoint /\ Multiple(point) = lastMult'
    <3>1. total \in Nat /\ total - prev \in Nat /\ intervals \in Seq(Nat)
      BY DEF TypeOK, PoolTypeOK, SamplerTypeOK, SamplerBehind, Outcomes
    <3> QED  BY <1>2, <3>1 DEF Multiple, Checkpoint
  <2>2. /\ queue \in Seq(Checkpoint) /\ lastMult \in Nat
        /\ saved # NoCheckpoint => saved \in Checkpoint
    BY DEF TypeOK, SamplerTypeOK, Checkpoint
  <2>3. saved' = saved /\ lastMult' > lastMult /\ lastMult' \in Nat
    BY <1>2, <2>1, MultipleType DEF Sample, CheckpointDue
  <2>4. queue' = Append(queue, point)
    BY <1>2
  <2> HIDE DEF total, point
  <2>5. /\ queue' # <<>> /\ DOMAIN queue' = (DOMAIN queue) \cup {Len(queue) + 1}
        /\ Len(queue') = Len(queue) + 1 /\ queue'[Len(queue) + 1] = point
        /\ \A k \in DOMAIN queue : queue'[k] = queue[k] /\ k < Len(queue) + 1
    BY <2>1, <2>2, <2>4, QueueMoves
  <2>6. \A k \in DOMAIN queue : /\ k \in Nat /\ Multiple(queue[k]) \in Nat
                                /\ Multiple(queue[k]) <= lastMult
    <3> TAKE k \in DOMAIN queue
    <3>1. /\ k \in 1..Len(queue) /\ Len(queue) \in Nat /\ queue # <<>>
          /\ queue[k] \in Checkpoint /\ Len(queue) \in DOMAIN queue
      BY <2>2
    <3>2. Multiple(queue[k]) \in Nat
      BY <3>1, MultipleType
    <3>3. k = Len(queue) \/ Multiple(queue[k]) < Multiple(queue[Len(queue)])
      BY <3>1 DEF ChannelInOrder
    <3>4. Multiple(queue[Len(queue)]) = lastMult
      BY <3>1 DEF ChannelInOrder
    <3> QED  BY <2>2, <3>1, <3>2, <3>3, <3>4
  <2>7. \A j, k \in DOMAIN queue' : j < k => Multiple(queue'[j]) < Multiple(queue'[k])
    <3> TAKE j, k \in DOMAIN queue'
    <3> HAVE j < k
    <3>1. j \in DOMAIN queue /\ Len(queue) \in Nat
      BY <2>2, <2>5, <2>6
    <3>2. CASE k \in DOMAIN queue
      BY <2>5, <3>1, <3>2 DEF ChannelInOrder
    <3>3. CASE k = Len(queue) + 1
      BY <2>1, <2>2, <2>3, <2>5, <2>6, <3>1, <3>3
    <3> QED  BY <2>5, <3>2, <3>3
  <2>8. ASSUME saved' # NoCheckpoint
        PROVE  /\ Multiple(saved') <= lastMult'
               /\ \A k \in DOMAIN queue' : Multiple(saved') < Multiple(queue'[k])
    <3>1. Multiple(saved) \in Nat /\ Multiple(saved) <= lastMult
          /\ \A k \in DOMAIN queue : Multiple(saved) < Multiple(queue[k])
      BY <2>2, <2>3, <2>8, MultipleType DEF ChannelInOrder
    <3> QED  BY <2>1, <2>2, <2>3, <2>5, <3>1
  <2> QED  BY <2>1, <2>5, <2>7, <2>8, OrderAfter
<1> QED  BY <1>1, <1>2 DEF Sample

\* The writer saves the lowest multiple of its channel.
LEMMA SaveInOrder ==
  ASSUME TypeOK, ChannelInOrder, WriterSave
  PROVE  /\ ChannelInOrder'
         /\ saved' # saved /\ saved # NoCheckpoint => saved'.iteration > saved.iteration
<1>1. /\ queue \in Seq(Checkpoint) /\ queue # <<>> /\ lastMult \in Nat /\ lastMult' = lastMult
      /\ queue' = Tail(queue)
      /\ saved # NoCheckpoint => saved \in Checkpoint
      /\ \/ saved' = Head(queue)
         \/ unsaved' = Multiple(Head(queue)) /\ saved' = saved
  BY DEF TypeOK, SamplerTypeOK, Checkpoint, WriterSave
<1>2. /\ Head(queue) = queue[1] /\ 1 \in DOMAIN queue /\ Len(queue') = Len(queue) - 1
      /\ \A k \in DOMAIN queue' : queue'[k] = queue[k + 1] /\ k + 1 \in DOMAIN queue /\ k + 1 > 1
      /\ queue' = <<>> <=> Len(queue) = 1
  <2>1. \E c : c \in Checkpoint
    BY <1>1
  <2> QED  BY <1>1, <2>1, QueueMoves
<1>3. DOMAIN queue' = 1..Len(queue') /\ Len(queue) \in Nat /\ Len(queue') \in Nat
      /\ DOMAIN queue = 1..Len(queue)
  <2>1. queue' \in Seq(Checkpoint)
    BY <1>1, HeadAndTail
  <2> QED  BY <1>1, <2>1
<1>4. Head(queue) \in Checkpoint /\ Head(queue) # NoCheckpoint
  <2>1. Head(queue) \in Checkpoint
    BY <1>1, HeadAndTail
  <2>2. NoCheckpoint \notin Checkpoint
    BY SamplerAssumption DEF Checkpoint
  <2> QED  BY <2>1, <2>2
<1>5. Multiple(queue[Len(queue)]) = lastMult
  BY <1>1 DEF ChannelInOrder
<1>6. \A j, k \in DOMAIN queue' : j < k => Multiple(queue'[j]) < Multiple(queue'[k])
  <2> TAKE j, k \in DOMAIN queue'
  <2> HAVE j < k
  <2>1. j + 1 \in DOMAIN queue /\ k + 1 \in DOMAIN queue /\ j + 1 < k + 1
    BY <1>2, <1>3
  <2> QED  BY <1>2, <2>1 DEF ChannelInOrder
<1>7. queue' # <<>> => Multiple(queue'[Len(queue')]) = lastMult'
  <2>1. queue' # <<>> => Len(queue') \in DOMAIN queue' /\ Len(queue') + 1 = Len(queue)
    BY <1>1, <1>2, <1>3
  <2> QED  BY <1>1, <1>2, <1>5, <2>1
<1>8. CASE saved' = Head(queue)
  <2>1. saved # NoCheckpoint => saved'.iteration > saved.iteration
    <3> HAVE saved # NoCheckpoint
    <3>1. Multiple(saved) < Multiple(Head(queue)) /\ saved \in Checkpoint
      BY <1>1, <1>2 DEF ChannelInOrder
    <3>2. saved.iteration < Head(queue).iteration
      BY <1>4, <3>1, MultipleGrows
    <3>3. saved.iteration \in Nat /\ Head(queue).iteration \in Nat
      BY <1>4, <3>1 DEF Checkpoint
    <3> QED  BY <1>8, <3>2, <3>3
  <2>2. \A k \in DOMAIN queue' : Multiple(saved') < Multiple(queue'[k])
    BY <1>2, <1>8 DEF ChannelInOrder
  <2>3. Multiple(saved') <= lastMult' /\ (queue' = <<>> => Multiple(saved') = lastMult')
    <3>1. Multiple(queue[1]) \in Nat
      BY <1>2, <1>4, MultipleType
    <3>2. CASE Len(queue) = 1
      BY <1>1, <1>2, <1>5, <1>8, <3>1, <3>2
    <3>3. CASE Len(queue) # 1
      <4>1. Len(queue) \in DOMAIN queue /\ 1 < Len(queue)
        BY <1>2, <1>3, <3>3
      <4>2. Multiple(queue[1]) < Multiple(queue[Len(queue)])
        BY <1>2, <4>1 DEF ChannelInOrder
      <4> QED  BY <1>1, <1>2, <1>5, <1>8, <3>1, <3>3, <4>2
    <3> QED  BY <3>2, <3>3
  <2>4. saved' # NoCheckpoint
    BY <1>4, <1>8
  <2> QED  BY <1>6, <1>7, <2>1, <2>2, <2>3, <2>4, OrderAfter
<1>9. CASE unsaved' = Multiple(Head(queue)) /\ saved' = saved
  <2>1. saved # NoCheckpoint => \A k \in DOMAIN queue' : Multiple(saved) < Multiple(queue'[k])
    BY <1>2 DEF ChannelInOrder
  <2>2. saved # NoCheckpoint => Multiple(saved) <= lastMult
    BY DEF ChannelInOrder
  <2>3. queue' = <<>> => unsaved' = lastMult'
    BY <1>1, <1>2, <1>5, <1>9
  <2> QED  BY <1>1, <1>6, <1>7, <1>9, <2>1, <2>2, <2>3, OrderAfter
<1> QED  BY <1>1, <1>8, <1>9

\* Every other step leaves the channel and the disk alone.
LEMMA ChannelMoves ==
  ASSUME [Next]_vars
  PROVE  Sample \/ WriterSave \/ UNCHANGED <<queue, saved, unsaved, lastMult>>
  BY DEF Next, MainStep, SpawnSampler, SpawnWorker, JoinPrimaries, JoinSampler, JoinSecondaries,
         JoinWriter, Collect, PoolStep, SamplingStep, SamplerStep, WriterStep, Prime, SamplerCheck,
         WriterExit, Returned, vars, samplerVars

\* Every step keeps the checkpoints in order.
LEMMA OrderStep ==
  ASSUME IInv, ChannelInOrder, [Next]_vars
  PROVE  ChannelInOrder'
<1>1. TypeOK /\ SamplerBehind
  BY DEF IInv
<1>2. CASE UNCHANGED <<queue, saved, unsaved, lastMult>>
  BY <1>2, OrderAfter DEF ChannelInOrder
<1> QED  BY <1>1, <1>2, ChannelMoves, SampleInOrder, SaveInOrder

\* The checkpoints are in order in every reachable state.
THEOREM OrderInvariance == Spec => [](IInv /\ ChannelInOrder)
<1>1. Init => ChannelInOrder
  BY DEF Init, SamplerInit, ChannelInOrder
<1>2. IInv /\ ChannelInOrder /\ [Next]_vars => ChannelInOrder'
  BY OrderStep
<1> QED  BY <1>1, <1>2, Invariance, PTL DEF Spec

\* checkpoint.json is replaced by later checkpoints only, for any cadence, any
\* number of workers and any failures of the disk (the checkpoint writer thread).
THEOREM CheckpointsMoveForward == Spec => CheckpointMovesForward
<1>1. ASSUME IInv, ChannelInOrder, [Next]_vars
      PROVE  [saved' # saved /\ saved # NoCheckpoint => saved'.iteration > saved.iteration]_saved
  <2>1. TypeOK
    BY <1>1 DEF IInv
  <2>2. CASE WriterSave
    BY <1>1, <2>1, <2>2, SaveInOrder
  <2>3. CASE ~ WriterSave
    <3>1. saved' = saved
      BY <1>1, <2>3, ChannelMoves DEF Sample
    <3> QED  BY <3>1
  <2> QED  BY <2>2, <2>3
<1> QED  BY <1>1, OrderInvariance, PTL DEF Spec, CheckpointMovesForward

\* Unless its own save failed, a run that has returned leaves the last checkpoint
\* that the sampler sent (the writer drains its channel before it is joined).
THEOREM LastCheckpointKept == Spec => []LastCheckpointSaved
<1>1. IInv /\ ChannelInOrder => LastCheckpointSaved
  <2> SUFFICES ASSUME IInv, ChannelInOrder, main = "returned", lastMult > 0,
                      unsaved # lastMult
               PROVE  saved # NoCheckpoint /\ Multiple(saved) = lastMult
    BY DEF LastCheckpointSaved
  <2>1. queue = <<>>
    BY DEF IInv, TypeOK, SamplerTypeOK, JoinedHaveEnded, AfterWriter, ChannelClosed
  <2> QED  BY <2>1 DEF ChannelInOrder
<1> QED  BY <1>1, OrderInvariance, PTL

\* The invariant says that success is earned, before and after any step.
LEMMA OkFollows == IInv => OkIsClean
<1>1. SUFFICES ASSUME IInv, outcome = "ok"
               PROVE  /\ \A w \in Workers : pc[w] = "done"
                      /\ ~Timed => Settled = 0..(OpLimit - 1)
  BY DEF OkIsClean
<1>2. \A w \in Workers : pc[w] = "done"
  BY <1>1 DEF IInv, FailureIsKept
<1>3. ~Failing
  BY <1>2 DEF Failing
<1>4. \A w \in Primaries : op[w] = NoOp
  BY <1>1, <1>2 DEF IInv, IndexHeldOnce, Workers
<1>5. ASSUME ~Timed
      PROVE  Settled = 0..(OpLimit - 1)
  <2>1. nextOp >= OpLimit
    BY <1>1, <1>2, <1>3, <1>5, PoolAssumption DEF IInv, StopHasCause, Workers
  <2>2. Handed = 0..(OpLimit - 1)
    BY <1>1, <2>1, PoolAssumption DEF Handed, IInv, TypeOK, PoolTypeOK
  <2>3. \A i \in Handed : \A w \in Primaries : op[w] # i
    BY <1>4, <2>2, PoolAssumption
  <2>4. QED
    BY <2>2, <2>3 DEF Settled
<1>6. QED
  BY <1>2, <1>5

\* The invariant after a step gives the honest report after it.
LEMMA OkAfterStep == IInv' => OkIsClean'
BY OkFollows, PTL

\* Success is never reported over a failure, a panic or a missed index.
THEOREM OkIsHonest == Spec => []OkIsClean
BY OkFollows, Invariance, PTL

(***************************************************************************)
(* The counters.                                                            *)
(***************************************************************************)
\* A worker's step settles the index it held and counts it, or does neither.
LEMMA SettledStep ==
  ASSUME IInv, NEW w \in Workers, WorkerStep(w)
  PROVE  \/ Settled' = Settled /\ UNCHANGED counts
         \/ /\ FinishOp(w) /\ w \in Primaries
            /\ \E i \in 0..(OpLimit - 1) : i \notin Settled /\ Settled' = Settled \cup {i}
<1> USE DEF Settled, Handed, Goto
<1>0. /\ Primaries \subseteq Workers /\ NoOp \notin Nat
      /\ nextOp \in Nat /\ OpLimit \in Nat /\ op \in [Workers -> Nat \cup {NoOp}]
      /\ IndexHeldOnce
  BY PoolAssumption DEF Workers, IInv, TypeOK, PoolTypeOK
<1>1. CASE UNCHANGED <<op, nextOp, counts>>
  BY <1>1
<1>2. CASE TakeCounted(w) \/ TakeTimed(w)
  <2>0. UNCHANGED counts
    BY <1>2 DEF TakeCounted, TakeTimed
  <2>1. CASE /\ UNCHANGED op
             /\ nextOp' = nextOp \/ (nextOp' = nextOp + 1 /\ nextOp >= OpLimit)
    <3>1. Handed' = Handed
      BY <1>0, <2>1
    <3>2. QED
      BY <2>0, <2>1, <3>1
  <2>2. CASE op' = [op EXCEPT ![w] = nextOp] /\ nextOp' = nextOp + 1
    <3>1. w \in Primaries /\ op'[w] = nextOp /\ \A v \in Workers : v # w => op'[v] = op[v]
      BY <1>0, <1>2, <2>2 DEF TakeCounted, TakeTimed
    <3>2. op[w] = NoOp
      BY <1>0, <1>2 DEF IndexHeldOnce, TakeCounted, TakeTimed
    <3>3. ASSUME NEW i \in Handed
          PROVE  (\A v \in Primaries : op'[v] # i) <=> (\A v \in Primaries : op[v] # i)
      <4>1. i # nextOp /\ i # NoOp
        BY <1>0
      <4>2. QED
        BY <1>0, <3>1, <3>2, <4>1
    <3>4. Handed' = {i \in 0..(OpLimit - 1) : i < nextOp \/ i = nextOp}
      BY <1>0, <2>2
    <3>5. QED
      BY <1>0, <2>0, <3>1, <3>3, <3>4
  <2>3. QED
    BY <1>2, <2>1, <2>2 DEF TakeCounted, TakeTimed
<1>3. CASE FinishOp(w)
  <2>1. /\ op' = [op EXCEPT ![w] = NoOp] /\ nextOp' = nextOp /\ pc[w] = "io"
    BY <1>3 DEF FinishOp
  <2>2. CASE w \notin Primaries
    BY <1>0, <1>3, <2>1, <2>2 DEF FinishOp
  <2>3. CASE w \in Primaries
    <3>1. op[w] \in 0..(OpLimit - 1) /\ op[w] < nextOp
      BY <1>0, <2>1, <2>3 DEF IndexHeldOnce
    <3>2. \A v \in Primaries : v # w => op[v] # op[w]
      BY <1>0, <2>1, <2>3 DEF IndexHeldOnce
    <3>3. \A v \in Primaries : op'[v] = IF v = w THEN NoOp ELSE op[v]
      BY <1>0, <2>1
    <3>4. op[w] \notin Settled /\ op[w] \in Handed /\ Handed' = Handed
      BY <2>1, <2>3, <3>1
    <3>5. ASSUME NEW i \in Handed
          PROVE  (\A v \in Primaries : op'[v] # i)
                   <=> (i = op[w] \/ \A v \in Primaries : op[v] # i)
      <4>1. i # NoOp
        BY <1>0
      <4>2. QED
        BY <2>3, <3>2, <3>3, <4>1
    <3>6. Settled' = Settled \cup {op[w]}
      BY <3>4, <3>5
    <3>7. QED
      BY <1>3, <2>3, <3>1, <3>4, <3>6
  <2>4. QED
    BY <2>2, <2>3
<1>4. QED
  BY <1>1, <1>2, <1>3
     DEF WorkerStep, Advance, Start, Take, Open, FailToStart, SendErr, CheckStop,
         TakeSecondary, Panic

\* There are four outcomes.
LEMMA OutcomesFinite == IsFiniteSet(Outcomes)
<1>1. Outcomes = {"completed"} \cup {"partial"} \cup {"failed"} \cup {"retried"}
  BY DEF Outcomes
<1> QED  BY <1>1, FS_Singleton, FS_Union

\* Every step counts as many outcomes as it settles indices.
LEMMA AccountStep ==
  ASSUME IInv, SumFunction(counts) = Cardinality(Settled), [Next]_vars
  PROVE  SumFunction(counts') = Cardinality(Settled')
<1>1. IsFiniteSet(Settled) /\ OpLimit \in Nat
  <2>1. Settled \subseteq 0..(OpLimit - 1) /\ OpLimit \in Nat
    BY PoolAssumption DEF Settled, Handed
  <2>2. IsFiniteSet(0..(OpLimit - 1))
    BY <2>1, FS_Interval
  <2> QED  BY <2>1, <2>2, FS_Subset
<1>2. counts \in [Outcomes -> Int] /\ IsFiniteSet(Outcomes)
  BY OutcomesFinite DEF IInv, TypeOK, PoolTypeOK
<1>3. CASE UNCHANGED <<Settled, counts>>
  BY <1>3
<1>4. ASSUME NEW w \in Workers, WorkerStep(w)
      PROVE  SumFunction(counts') = Cardinality(Settled')
  <2>1. CASE Settled' = Settled /\ UNCHANGED counts
    BY <2>1
  <2>2. ASSUME NEW i, i \notin Settled, Settled' = Settled \cup {i},
               FinishOp(w), w \in Primaries
        PROVE  SumFunction(counts') = Cardinality(Settled')
    <3>1. PICK o \in Outcomes : counts' = [counts EXCEPT ![o] = @ + 1]
      BY <2>2 DEF FinishOp
    <3>2. /\ counts' \in [Outcomes -> Int] /\ counts'[o] - counts[o] = 1
          /\ \A k \in Outcomes \ {o} : counts'[k] = counts[k]
      BY <1>2, <3>1
    <3>3. SumFunction(counts') = SumFunction(counts) + 1
      BY <1>2, <3>2, SumUpdate
    <3>4. Cardinality(Settled') = Cardinality(Settled) + 1
      BY <1>1, <2>2, FS_AddElement
    <3> QED  BY <3>3, <3>4
  <2> QED  BY <1>4, <2>1, <2>2, SettledStep
<1>5. ASSUME NEW w \in Workers, SpawnWorker(w) PROVE UNCHANGED <<Settled, counts>>
  BY <1>5 DEF SpawnWorker, Settled, Handed
<1>6. CASE UNCHANGED <<op, nextOp, counts>>
  BY <1>6 DEF Settled, Handed
<1> QED
  BY <1>3, <1>4, <1>5, <1>6
     DEF Next, MainStep, SpawnSampler, JoinPrimaries, JoinSampler, JoinSecondaries,
         JoinWriter, Collect, PoolStep, Expire, SamplingStep, Returned, vars, poolVars

\* Each index whose I/O is over was counted once, under one outcome, whatever the
\* workers, the secondary target and the failures (GlobalCounters, next_op).
THEOREM IndicesAccounted == Spec => []IndexAccounting
<1>1. Init => SumFunction(counts) = Cardinality(Settled)
  <2> SUFFICES ASSUME Init PROVE SumFunction(counts) = Cardinality(Settled)
    OBVIOUS
  <2>1. DOMAIN counts = Outcomes /\ \A o \in Outcomes : counts[o] = 0
    BY DEF Init, PoolInit
  <2>2. SumFunction(counts) = 0
    BY <2>1, OutcomesFinite, SumZero DEF SumFunction
  <2>3. Settled = {}
    BY PoolAssumption DEF Init, PoolInit, Settled, Handed
  <2> QED  BY <2>2, <2>3, FS_EmptySet
<1>2. IInv /\ SumFunction(counts) = Cardinality(Settled) /\ [Next]_vars =>
        (SumFunction(counts) = Cardinality(Settled))'
  BY AccountStep
<1>3. IInv /\ SumFunction(counts) = Cardinality(Settled) => IndexAccounting
  BY DEF IInv, IndexHeldOnce, IndexAccounting
<1> QED  BY <1>1, <1>2, <1>3, Invariance, PTL DEF Spec

(***************************************************************************)
(* The intervals.                                                           *)
(***************************************************************************)
\* The total of recorded intervals is a number, and grows by the interval recorded.
LEMMA TotalGrows ==
  ASSUME NEW s \in Seq(Nat), NEW d \in Nat
  PROVE  Total(s) \in Nat /\ Total(Append(s, d)) = Total(s) + d
<1>1. s \in Seq(Int) /\ d \in Int
  OBVIOUS
<1> QED  BY <1>1, SequenceSumType, SequenceSumAppend DEF Total

\* What the beginning of a sequence is, before and after one more element.
LEMMA Beginning ==
  ASSUME NEW s \in Seq(Nat), NEW d \in Nat, NEW n \in 0..Len(s)
  PROVE  SubSeq(Append(s, d), 1, n) = SubSeq(s, 1, n)
<1>1. Append(s, d) \in Seq(Nat) /\ Len(Append(s, d)) = Len(s) + 1 /\ Len(s) \in Nat
  OBVIOUS
<1>2. /\ SubSeq(s, 1, n) \in Seq(Nat) /\ Len(SubSeq(s, 1, n)) = n
      /\ \A i \in 1..n : SubSeq(s, 1, n)[i] = s[i]
  OBVIOUS
<1>3. /\ SubSeq(Append(s, d), 1, n) \in Seq(Nat) /\ Len(SubSeq(Append(s, d), 1, n)) = n
      /\ \A i \in 1..n : SubSeq(Append(s, d), 1, n)[i] = s[i]
  BY <1>1
<1> QED  BY <1>2, <1>3, SeqEqual

\* Whether a checkpoint is complete depends on it, the first reading and the
\* intervals alone.
Agrees(c, first, recorded) ==
  /\ c.iteration = first + Total(c.intervals)
  /\ Len(c.intervals) <= Len(recorded)
  /\ c.intervals = SubSeq(recorded, 1, Len(c.intervals))

\* What the checkpoints are before and after a step.
LEMMA CarriedAfter ==
  /\ CheckpointsCarried <=>
       /\ \A k \in DOMAIN queue : Agrees(queue[k], base, intervals)
       /\ saved # NoCheckpoint => Agrees(saved, base, intervals)
  /\ CheckpointsCarried' <=>
       /\ \A k \in DOMAIN queue' : Agrees(queue'[k], base', intervals')
       /\ saved' # NoCheckpoint => Agrees(saved', base', intervals')
  BY DEF CheckpointsCarried, Carried, Agrees, Total

\* A sample records what was done since the last reading, and what it sends is
\* complete.
LEMMA SampleAddsUp ==
  ASSUME TypeOK, SamplerBehind, SamplingInv, Sample
  PROVE  SamplingInv'
<1> DEFINE total == counts["completed"]
           d     == total - prev
           taken == Append(intervals, d)
           point == [iteration |-> total, intervals |-> taken]
<1>1. /\ total \in Nat /\ d \in Nat /\ intervals \in Seq(Nat) /\ base \in Nat /\ prev \in Nat
      /\ queue \in Seq(Checkpoint) /\ (saved # NoCheckpoint => saved \in Checkpoint)
  BY DEF TypeOK, PoolTypeOK, SamplerTypeOK, SamplerBehind, Outcomes, Checkpoint
<1>2. /\ smp' = "check" /\ intervals' = taken /\ prev' = total /\ base' = base /\ saved' = saved
      /\ queue' = queue \/ queue' = Append(queue, point)
  BY DEF Sample
<1>3. Total(taken) = Total(intervals) + d /\ Total(intervals) \in Nat
  BY <1>1, TotalGrows
<1>4. base + Total(taken) = total
  BY <1>1, <1>3 DEF SamplingInv
<1>5. Len(taken) = Len(intervals) + 1 /\ Len(intervals) \in Nat
  BY <1>1
<1>6. ASSUME NEW c \in Checkpoint, Agrees(c, base, intervals)
      PROVE  Agrees(c, base, taken)
  <2>1. c.intervals \in Seq(Nat) /\ Len(c.intervals) \in 0..Len(intervals)
    BY <1>1, <1>6 DEF Agrees, Checkpoint
  <2>2. SubSeq(taken, 1, Len(c.intervals)) = SubSeq(intervals, 1, Len(c.intervals))
    BY <1>1, <2>1, Beginning
  <2> QED  BY <1>5, <1>6, <2>1, <2>2 DEF Agrees
<1>7. Agrees(point, base, taken) /\ point \in Checkpoint
  <2>1. taken \in Seq(Nat)
    BY <1>1
  <2>2. taken = SubSeq(taken, 1, Len(taken))
    <3> HIDE DEF taken
    <3> QED  BY <2>1
  <2>3. point.iteration = total /\ point.intervals = taken /\ point \in Checkpoint
    BY <1>1, <2>1 DEF Checkpoint
  <2> HIDE DEF point
  <2> QED  BY <1>4, <1>5, <2>2, <2>3 DEF Agrees
<1>8. CheckpointsCarried'
  <2> HIDE DEF taken, point
  <2>1. ASSUME NEW k \in DOMAIN queue PROVE Agrees(queue[k], base, taken)
    BY <1>1, <1>6, CarriedAfter DEF SamplingInv
  <2>2. saved # NoCheckpoint => Agrees(saved, base, taken)
    BY <1>1, <1>6, CarriedAfter DEF SamplingInv
  <2>3. ASSUME NEW k \in DOMAIN queue' PROVE Agrees(queue'[k], base, taken)
    <3>1. CASE queue' = queue
      BY <2>1, <3>1
    <3>2. CASE queue' = Append(queue, point)
      BY <1>1, <1>7, <2>1, <3>2, QueueMoves
    <3> QED  BY <1>2, <3>1, <3>2
  <2> QED  BY <1>2, <2>2, <2>3, CarriedAfter
<1>9. base' + Total(intervals') = prev'
  BY <1>2, <1>4
<1> QED  BY <1>2, <1>8, <1>9 DEF SamplingInv, NothingSampled, Total

\* The first reading: nothing has been recorded or sent.
LEMMA PrimeAddsUp ==
  ASSUME TypeOK, SamplingInv, Prime
  PROVE  SamplingInv'
<1>1. /\ intervals' = <<>> /\ queue' = <<>> /\ saved' = NoCheckpoint
      /\ prev' = base' /\ base' = counts["completed"] /\ smp' = "check"
  BY DEF SamplingInv, NothingSampled, Prime
<1>2. Total(intervals') = 0
  BY <1>1, SequenceSumEmpty DEF Total
<1>3. CheckpointsCarried'
  BY <1>1, CarriedAfter
<1>4. counts["completed"] \in Nat
  BY DEF TypeOK, PoolTypeOK, Outcomes
<1> QED  BY <1>1, <1>2, <1>3, <1>4 DEF SamplingInv, NothingSampled, Total

\* A checkpoint that is saved was in the channel.
LEMMA SaveAddsUp ==
  ASSUME TypeOK, SamplingInv, WriterSave
  PROVE  SamplingInv'
<1>1. /\ queue \in Seq(Checkpoint) /\ queue # <<>> /\ queue' = Tail(queue)
      /\ UNCHANGED <<smp, base, prev, intervals>>
      /\ saved' = Head(queue) \/ saved' = saved
  BY DEF TypeOK, SamplerTypeOK, Checkpoint, WriterSave
<1>2. /\ Head(queue) = queue[1] /\ 1 \in DOMAIN queue
      /\ \A k \in DOMAIN Tail(queue) : Tail(queue)[k] = queue[k + 1] /\ k + 1 \in DOMAIN queue
  <2>1. \E c : c \in Checkpoint
    BY <1>1
  <2> QED  BY <1>1, <2>1, QueueMoves
<1>3. CheckpointsCarried'
  BY <1>1, <1>2, CarriedAfter DEF SamplingInv
<1> QED  BY <1>1, <1>3 DEF SamplingInv, NothingSampled, Total

\* Every step keeps the books of the sampler.
LEMMA SamplingStepInvariant ==
  ASSUME IInv, SamplingInv, [Next]_vars
  PROVE  SamplingInv'
<1>1. TypeOK /\ SamplerBehind
  BY DEF IInv
<1>2. CASE UNCHANGED <<base, prev, intervals, queue, saved>> /\
           (smp' \in {"unborn", "prime"} => smp \in {"unborn", "prime"})
  BY <1>2, CarriedAfter DEF SamplingInv, NothingSampled, Total
<1>3. CASE Sample \/ Prime \/ WriterSave
  BY <1>1, <1>3, SampleAddsUp, PrimeAddsUp, SaveAddsUp
<1>4. main = "start" => smp = "unborn"
  BY DEF IInv, JoinedHaveEnded
<1> QED
  BY <1>2, <1>3, <1>4
     DEF Next, MainStep, SpawnSampler, SpawnWorker, JoinPrimaries, JoinSampler, JoinSecondaries,
         JoinWriter, Collect, PoolStep, SamplingStep, SamplerStep, WriterStep, SamplerCheck,
         WriterExit, Returned, vars, samplerVars

\* The books are right in every reachable state.
THEOREM SamplingInvariance == Spec => []SamplingInv
<1>1. Init => SamplingInv
  <2> SUFFICES ASSUME Init PROVE SamplingInv
    OBVIOUS
  <2>1. /\ smp = "unborn" /\ base = 0 /\ prev = 0 /\ intervals = <<>> /\ queue = <<>>
        /\ saved = NoCheckpoint
    BY DEF Init, SamplerInit
  <2>2. Total(intervals) = 0
    BY <2>1, SequenceSumEmpty DEF Total
  <2> QED  BY <2>1, <2>2 DEF SamplingInv, NothingSampled, CheckpointsCarried
<1>2. IInv /\ SamplingInv /\ [Next]_vars => SamplingInv'
  BY SamplingStepInvariant
<1> QED  BY <1>1, <1>2, Invariance, PTL DEF Spec

\* The intervals of a run add up to what was completed between the sampler's first
\* and latest reading, for any number of samples (the sampler thread).
THEOREM IntervalsAddUp == Spec => []IntervalsTelescope
<1>1. IInv /\ SamplingInv => IntervalsTelescope
  BY DEF IInv, SamplerBehind, SamplingInv, IntervalsTelescope
<1> QED  BY <1>1, Invariance, SamplingInvariance, PTL

\* A checkpoint carries a prefix of the run's intervals that adds up to its
\* iteration, and no two that are under way are for one multiple (CheckpointState).
THEOREM CheckpointsAgree == Spec => []CheckpointsConsistent
<1>1. ASSUME TypeOK, SamplingInv, ChannelInOrder PROVE CheckpointsConsistent
  <2> DEFINE pending == IF saved = NoCheckpoint THEN queue ELSE <<saved>> \o queue
  <2>1. /\ queue \in Seq(Checkpoint) /\ (saved # NoCheckpoint => saved \in Checkpoint)
        /\ Len(queue) \in Nat /\ DOMAIN queue = 1..Len(queue)
    BY <1>1 DEF TypeOK, SamplerTypeOK, Checkpoint
  <2>2. CASE saved = NoCheckpoint
    <3>1. \A k \in DOMAIN queue : Agrees(queue[k], base, intervals)
      BY <1>1, CarriedAfter DEF SamplingInv
    <3>2. \A j, k \in DOMAIN queue : j < k => Multiple(queue[j]) < Multiple(queue[k])
      BY <1>1 DEF ChannelInOrder
    <3> QED  BY <2>2, <3>1, <3>2 DEF CheckpointsConsistent, Agrees, Multiple
  <2>3. CASE saved # NoCheckpoint
    <3>1. /\ DOMAIN pending = 1..(Len(queue) + 1) /\ pending[1] = saved
          /\ \A k \in 2..(Len(queue) + 1) : pending[k] = queue[k - 1] /\ k - 1 \in DOMAIN queue
      BY <2>1, <2>3
    <3> HIDE DEF pending
    <3>2. \A k \in DOMAIN pending : Agrees(pending[k], base, intervals)
      BY <1>1, <2>1, <2>3, <3>1, CarriedAfter DEF SamplingInv
    <3>3. ASSUME NEW j \in DOMAIN pending, NEW k \in DOMAIN pending, j < k
          PROVE  Multiple(pending[j]) < Multiple(pending[k])
      <4>1. k \in 2..(Len(queue) + 1) /\ k - 1 \in DOMAIN queue /\ pending[k] = queue[k - 1]
        BY <2>1, <3>1, <3>3
      <4>2. CASE j = 1
        BY <1>1, <2>3, <3>1, <4>1, <4>2 DEF ChannelInOrder
      <4>3. CASE j # 1
        <5>1. j - 1 \in DOMAIN queue /\ pending[j] = queue[j - 1] /\ j - 1 < k - 1
          BY <2>1, <3>1, <3>3, <4>3
        <5> QED  BY <1>1, <4>1, <5>1 DEF ChannelInOrder
      <4> QED  BY <4>2, <4>3
    <3> QED  BY <3>2, <3>3 DEF CheckpointsConsistent, Agrees, Multiple, pending
  <2> QED  BY <2>2, <2>3
<1> QED  BY <1>1, OrderInvariance, SamplingInvariance, PTL DEF IInv

(***************************************************************************)
(* The run implements WorkloadRun.                                          *)
(***************************************************************************)
Broken == \E w \in Workers : pc[w] \in {"failed", "panicked"}

\* The initial states correspond.
LEMMA ContractInit == Init => Contract!Init
<1> SUFFICES ASSUME Init PROVE Contract!Init
  OBVIOUS
<1>1. Settled = {}
  <2>1. nextOp = 0
    BY DEF Init, PoolInit
  <2>2. QED
    BY <2>1, PoolAssumption DEF Settled, Handed
<1>2. QED
  BY <1>1 DEF Init, PoolInit, Contract!Init, Status, Timed

\* The stop condition of a run is never another one.
LEMMA SameCondition ==
  ASSUME PoolTypeOK, [Next]_vars
  PROVE  Timed' = Timed
<1>1. CASE UNCHANGED clock
  BY <1>1 DEF Timed
<1>2. CASE Expire
  BY <1>2 DEF Expire, Timed
<1>3. ASSUME NEW w \in Workers, WorkerStep(w) PROVE UNCHANGED clock
  BY <1>3, WorkerMoves
<1> QED
  BY <1>1, <1>2, <1>3
     DEF Next, MainStep, SpawnSampler, SpawnWorker, JoinPrimaries, JoinSampler, JoinSecondaries,
         JoinWriter, Collect, PoolStep, SamplingStep, Returned, vars, poolVars

\* Every step is a step of the contract or leaves its variables alone.
LEMMA ContractStep ==
  ASSUME IInv, IInv', [Next]_vars
  PROVE  [Contract!Next]_(Contract!runVars)
<1> USE DEF Contract!Next, Contract!runVars
<1>0. Timed' = Timed
  BY SameCondition DEF IInv, TypeOK
<1>1. CASE UNCHANGED <<Settled, Broken, outcome>>
  BY <1>0, <1>1 DEF Broken, Status
<1>2. ASSUME NEW w \in Workers, WorkerStep(w), UNCHANGED outcome
      PROVE  [Contract!Next]_(Contract!runVars)
  <2>1. pc[w] \in Alive /\ \A v \in Workers : v # w => pc'[v] = pc[v]
    BY <1>2, WorkerMoves DEF IInv, TypeOK
  <2>2. main # "returned"
    BY <2>1 DEF IInv, JoinedHaveEnded, AllEnded, AfterPrimaries, AfterSampler,
                AfterSecondaries, AfterWriter, Ended, Running, Alive, Workers
  <2>3. Status = "running" /\ Status' = "running"
    BY <1>2, <2>2 DEF IInv, FailureIsKept, Status
  <2>4. CASE Settled' = Settled
    <3>1. Broken' = Broken \/ Broken' = TRUE
      BY <2>1 DEF Broken, Running, Alive
    <3>2. QED
      BY <1>0, <2>3, <2>4, <3>1 DEF Contract!Break, Broken
  <2>5. CASE /\ FinishOp(w)
             /\ \E i \in 0..(OpLimit - 1) : i \notin Settled /\ Settled' = Settled \cup {i}
    <3>1. UNCHANGED Broken
      BY <2>5 DEF FinishOp, Goto, IInv, TypeOK, PoolTypeOK, Broken
    <3>2. QED
      BY <1>0, <2>3, <2>5, <3>1 DEF Contract!Attempt, Broken
  <2>6. QED
    BY <1>2, <2>4, <2>5, SettledStep
<1>3. CASE Collect
  <2>1. UNCHANGED <<Settled, Broken>> /\ Status = "running" /\ outcome' # "none"
    BY <1>3 DEF Collect, poolVars, Settled, Handed, Broken, Status, IInv, FailureIsKept
  <2>2. CASE outcome' = "ok"
    <3>1. OkIsClean'
      BY OkAfterStep
    <3>2. QED
      BY <1>0, <2>1, <2>2, <3>1 DEF OkIsClean, Contract!Succeed, Status, Broken
  <2>3. CASE outcome' # "ok"
    <3>1. Broken'
      BY <2>1, <2>3 DEF IInv, TypeOK, ReportHasCause, Broken
    <3>2. QED
      BY <1>0, <2>1, <2>3, <3>1 DEF Contract!Fail, Status, Broken
  <2>4. QED
    BY <2>2, <2>3
<1>4. ASSUME NEW w \in Workers, SpawnWorker(w)
      PROVE  UNCHANGED <<Settled, Broken, outcome>>
  <2>1. /\ pc[w] = "unborn" /\ pc' = [pc EXCEPT ![w] = "open"]
        /\ UNCHANGED <<op, nextOp, outcome>>
    BY <1>4 DEF SpawnWorker, Goto
  <2>2. UNCHANGED Broken
    BY <2>1 DEF IInv, TypeOK, PoolTypeOK, Broken
  <2>3. QED
    BY <2>1, <2>2 DEF Settled, Handed
<1>5. CASE UNCHANGED <<pc, op, nextOp, outcome>>
  BY <1>1, <1>5 DEF Settled, Handed, Broken
<1>6. CASE PoolStep
  <2>1. outcome' = outcome
    BY <1>6 DEF PoolStep, mainVars
  <2>2. QED
    BY <1>2, <1>5, <1>6, <2>1 DEF PoolStep, Expire
<1>7. QED
  BY <1>1, <1>3, <1>4, <1>5, <1>6
     DEF Next, MainStep, SpawnSampler, JoinPrimaries, JoinSampler, JoinSecondaries,
         JoinWriter, SamplingStep, Returned, vars, poolVars, mainVars

\* Seen from the caller, a run attempts each index at most once and tells the
\* truth about it, whether it stops by a count or by the clock (execute_profile).
THEOREM Implements == Spec => ImplementsContract
<1>1. IInv /\ IInv' /\ [Next]_vars => [Contract!Next]_(Contract!runVars)
  BY ContractStep
<1>2. QED
  BY <1>1, ContractInit, Invariance, PTL DEF Spec, ImplementsContract, Contract!Spec
=============================================================================
