---------------------------- MODULE WorkerIoProofs ----------------------------
(***************************************************************************)
(* Theorems about WorkerIo, for any number of workers, blocks, operations   *)
(* and device failures, and any profile. The parts of IoInv are proved one  *)
(* after the other: what a block holds between a write and its read-back,   *)
(* how many blocks a worker has not synced, when a sync is due, and who     *)
(* still comes to the last sync.                                            *)
(***************************************************************************)
EXTENDS WorkerIo, SumTheorems

(***************************************************************************)
(* Types.                                                                   *)
(***************************************************************************)
\* The ids of the workers and of the blocks are natural numbers.
LEMMA IdsAreNumbers == Workers \subseteq Nat /\ BlockIds \subseteq Nat /\ 0 \in BlockIds
  BY WorkerIoAssumption DEF BlockIds

\* Every operation has a block in the range.
LEMMA BlockInRange ==
  ASSUME NEW o \in 0..OpLimit
  PROVE  Block(o) \in BlockIds
<1>1. Mix[o] \in Nat /\ o \in Nat /\ OpLimit \in Nat
  BY WorkerIoAssumption
<1>2. \A n \in Nat : n % Blocks \in BlockIds
  BY WorkerIoAssumption DEF BlockIds
<1> QED  BY <1>1, <1>2 DEF Block

\* What a worker writes is contents of a block, and so is what the device leaves.
LEMMA WrittenIsContent ==
  ASSUME TypeOK, NEW w \in Workers
  PROVE  /\ Written(w) \in Content /\ Part(w) \in Content
         /\ Written(w).kind = "whole" /\ Written(w).worker = w
         /\ Part(w).kind = "part"
         /\ Block(op[w]) \in BlockIds
<1>1. op[w] \in 0..OpLimit
  BY DEF TypeOK
<1> QED  BY <1>1, BlockInRange DEF Written, Part, Content

\* Contents that nobody wrote.
LEMMA OtherIsContent ==
  /\ Other("old") \in Content /\ Other("bad") \in Content
  /\ Other("old").kind = "old" /\ Other("bad").kind = "bad"
  BY WorkerIoAssumption DEF Other, Content

\* One more failure, by class and in all, is a tally.
LEMMA FailedCounts ==
  ASSUME TypeOK, NEW w \in Workers, NEW class \in {"mismatch", "short", "eof"}, Failed(w, class)
  PROVE  /\ verified' \in [Workers -> Tally] /\ verifyFailures' \in Nat
         /\ \A v \in Workers \ {w} : verified'[v] = verified[v]
         /\ verified'[w].count = verified[w].count + 1
         /\ verified'[w].mismatch + verified'[w].short + verified'[w].eof =
              verified[w].mismatch + verified[w].short + verified[w].eof + 1
         /\ class # "mismatch" => verified'[w].mismatch = verified[w].mismatch
<1> DEFINE new == [verified[w] EXCEPT ![class] = @ + 1, !.count = @ + 1]
           Classed(t) == t.mismatch + t.short + t.eof
<1>1. verified[w] \in Tally
  BY DEF TypeOK
<1>2. verified' = [verified EXCEPT ![w] = new]
  BY DEF Failed, TypeOK
<1>3. /\ new \in Tally /\ (class # "mismatch" => new.mismatch = verified[w].mismatch)
      /\ new.count = verified[w].count + 1 /\ Classed(new) = Classed(verified[w]) + 1
  <2> DEFINE once == [verified[w] EXCEPT ![class] = @ + 1]
  <2>1. verified[w][class] + 1 \in Nat
    BY <1>1 DEF Tally
  <2>2. /\ once \in Tally /\ (class # "mismatch" => once.mismatch = verified[w].mismatch)
        /\ once.count = verified[w].count /\ Classed(once) = Classed(verified[w]) + 1
    BY <1>1, <2>1 DEF Tally
  <2>3. new = [once EXCEPT !.count = @ + 1]
    OBVIOUS
  <2> HIDE DEF once, new
  <2>4. /\ [once EXCEPT !.count = @ + 1] \in Tally
        /\ [once EXCEPT !.count = @ + 1].mismatch = once.mismatch
        /\ [once EXCEPT !.count = @ + 1].count = once.count + 1
        /\ Classed([once EXCEPT !.count = @ + 1]) = Classed(once)
    BY <2>2 DEF Tally
  <2> QED  BY <2>2, <2>3, <2>4
<1> HIDE DEF new
<1>4. verified' \in [Workers -> Tally]
  BY <1>2, <1>3 DEF TypeOK
<1>5. \A v \in Workers \ {w} : verified'[v] = verified[v]
  BY <1>2 DEF TypeOK
<1>6. class # "mismatch" => verified'[w].mismatch = verified[w].mismatch
  BY <1>2, <1>3 DEF TypeOK
<1>7. verifyFailures' \in Nat
  BY DEF TypeOK, Failed
<1>8. verified'[w] = new
  BY <1>2 DEF TypeOK
<1> QED  BY <1>3, <1>4, <1>5, <1>6, <1>7, <1>8

\* Every step of a worker keeps the types.
LEMMA WorkerTypes ==
  ASSUME TypeOK, NEW w \in Workers, Worker(w)
  PROVE  TypeOK'
<1>1. CASE Start(w)
  BY <1>1 DEF Start, GoTo, shared, medium, TypeOK
<1>2. CASE TakeOp(w)
  <2>1. nextOp < OpLimit => nextOp \in 0..OpLimit
    BY WorkerIoAssumption DEF TypeOK
  <2>2. op' \in [Workers -> 0..OpLimit] /\ nextOp' \in Nat
    BY <1>2, <2>1 DEF TakeOp, Leave, NextOp, TypeOK
  <2>3. pc' \in [Workers -> {"start", "take", "io", "verify", "sync", "end", "done", "failed"}]
    BY <1>2 DEF TakeOp, Leave, NextOp, GoTo, TypeOK
  <2> QED  BY <1>2, <2>2, <2>3 DEF TakeOp, medium, TypeOK
<1>3. CASE Read(w)
  <2>1. 0 \in 0..OpLimit
    BY WorkerIoAssumption
  <2> QED  BY <1>3, <2>1 DEF Read, Again, GoTo, shared, medium, TypeOK
<1>4. CASE WriteDone(w)
  <2>1. cache' \in [BlockIds -> Content] /\ touched' \subseteq Workers
    <3>1. Written(w) \in Content /\ Part(w) \in Content
      BY WrittenIsContent
    <3>2. cache' \in [BlockIds -> Content]
      BY <1>4, <3>1 DEF WriteDone, TypeOK
    <3>3. Waiting(Block(op[w]), w) \subseteq Workers
      BY DEF Waiting
    <3> QED  BY <1>4, <3>2, <3>3 DEF WriteDone, TypeOK
  <2>2. faults' \in Nat
    BY <1>4 DEF WriteDone, Fault, TypeOK
  <2>3. sinceSync' \in [Workers -> Nat]
        /\ pc' \in [Workers -> {"start", "take", "io", "verify", "sync", "end", "done", "failed"}]
    BY <1>4 DEF WriteDone, GoTo, TypeOK
  <2> QED  BY <1>4, <2>1, <2>2, <2>3 DEF WriteDone, shared, TypeOK
<1>5. CASE WriteFails(w)
  <2>1. cache' \in [BlockIds -> Content] /\ touched' \subseteq Workers
    <3>1. Part(w) \in Content
      BY WrittenIsContent
    <3>2. cache' \in [BlockIds -> Content]
      BY <1>5, <3>1 DEF WriteFails, TypeOK
    <3>3. Waiting(Block(op[w]), w) \subseteq Workers
      BY DEF Waiting
    <3> QED  BY <1>5, <3>2, <3>3 DEF WriteFails, TypeOK
  <2>2. 0 \in 0..OpLimit
    BY WorkerIoAssumption
  <2> QED  BY <1>5, <2>1, <2>2 DEF WriteFails, Fault, Again, GoTo, shared, TypeOK
<1>6. CASE ReadBack(w)
  <2>1. verified' \in [Workers -> Tally] /\ verifyFailures' \in Nat /\ faults' \in Nat
    <3>1. CASE Compare(w, Written(w))
      BY <3>1, FailedCounts DEF Compare, TypeOK
    <3>2. CASE \E class \in {"short", "eof"} : Failed(w, class) /\ Fault
      BY <3>2, FailedCounts DEF Fault, TypeOK
    <3> QED  BY <1>6, <3>1, <3>2 DEF ReadBack
  <2> QED  BY <1>6, <2>1 DEF ReadBack, AfterReadBack, GoTo, shared, medium, TypeOK
<1>7. CASE SyncOrNot(w)
  <2>1. /\ disk' \in [BlockIds -> Content] /\ sinceSync' \in [Workers -> Nat]
        /\ syncFailures' \in Nat /\ faults' \in Nat
    BY <1>7 DEF SyncOrNot, Fdatasync, Fault, TypeOK
  <2>2. 0 \in 0..OpLimit
    BY WorkerIoAssumption
  <2> QED  BY <1>7, <2>1, <2>2 DEF SyncOrNot, Again, GoTo, shared, TypeOK
<1>8. CASE Finish(w)
  <2>1. /\ disk' \in [BlockIds -> Content] /\ sinceSync' \in [Workers -> Nat]
        /\ syncFailures' \in Nat /\ faults' \in Nat
    BY <1>8 DEF Finish, Fdatasync, Fault, TypeOK
  <2> QED  BY <1>8, <2>1 DEF Finish, GoTo, shared, TypeOK
<1> QED
  BY <1>1, <1>2, <1>3, <1>4, <1>5, <1>6, <1>7, <1>8 DEF Worker

\* Every step keeps the types.
LEMMA TypeStep == TypeOK /\ [Next]_vars => TypeOK'
<1> SUFFICES ASSUME TypeOK, [Next]_vars PROVE TypeOK'
  OBVIOUS
<1>1. CASE \E w \in Workers : Worker(w)
  BY <1>1, WorkerTypes
<1>2. CASE SetStop
  BY <1>2 DEF SetStop, medium, TypeOK
<1>3. ASSUME NEW b \in BlockIds, WriteBack(b) PROVE TypeOK'
  BY <1>3 DEF WriteBack, shared, TypeOK
<1>4. ASSUME NEW b \in BlockIds, GoBad(b) PROVE TypeOK'
  BY <1>4, OtherIsContent DEF GoBad, Fault, shared, TypeOK
<1>5. CASE UNCHANGED vars
  BY <1>5 DEF vars, shared, medium, TypeOK
<1> QED  BY <1>1, <1>2, <1>3, <1>4, <1>5 DEF Next

(***************************************************************************)
(* The read-back.                                                           *)
(***************************************************************************)
\* Every step keeps the block of a waiting worker as it was written, or touches it.
LEMMA WrittenStep == TypeOK /\ WrittenOrTouched /\ [Next]_vars => WrittenOrTouched'
<1> SUFFICES ASSUME TypeOK, WrittenOrTouched, [Next]_vars,
                    NEW v \in Workers, pc'[v] = "verify", v \notin touched'
             PROVE  (cache[Block(op[v])] = Written(v))'
  BY DEF WrittenOrTouched
<1> DEFINE b == Block(op[v])
<1>1. ASSUME op'[v] = op[v], plan' = plan, cache'[b] = Written(v)
      PROVE  (cache[Block(op[v])] = Written(v))'
  BY <1>1 DEF Written, Block
<1>2. ASSUME pc[v] = "verify", v \notin touched, op'[v] = op[v], plan' = plan, cache'[b] = cache[b]
      PROVE  (cache[Block(op[v])] = Written(v))'
  BY <1>1, <1>2 DEF WrittenOrTouched
<1>3. b \in BlockIds
  BY WrittenIsContent
<1> HIDE DEF b
<1>4. ASSUME NEW w \in Workers, WriteDone(w) PROVE (cache[Block(op[v])] = Written(v))'
  <2>1. op' = op /\ plan' = plan
    BY <1>4 DEF WriteDone
  <2>2. CASE v = w
    BY <1>1, <1>3, <1>4, <2>1, <2>2 DEF WriteDone, TypeOK, b
  <2>3. CASE v # w
    <3>1. pc[v] = "verify" /\ v \notin touched
      BY <1>4, <2>3 DEF WriteDone, GoTo, TypeOK
    <3>2. cache'[b] = cache[b]
      BY <1>3, <1>4, <2>3, <3>1 DEF WriteDone, Waiting, TypeOK, b
    <3> QED  BY <1>2, <2>1, <3>1, <3>2
  <2> QED  BY <2>2, <2>3
<1>5. ASSUME NEW w \in Workers, WriteFails(w) PROVE (cache[Block(op[v])] = Written(v))'
  <2>1. v # w /\ pc[v] = "verify" /\ v \notin touched /\ op'[v] = op[v] /\ plan' = plan
    BY <1>5 DEF WriteFails, Again, GoTo, TypeOK
  <2>2. cache'[b] = cache[b]
    BY <1>3, <1>5, <2>1 DEF WriteFails, Waiting, TypeOK, b
  <2> QED  BY <1>2, <2>1, <2>2
<1>6. ASSUME NEW w \in Workers, Start(w) \/ TakeOp(w) \/ Read(w)
      PROVE  (cache[Block(op[v])] = Written(v))'
  <2>1. v # w /\ pc[v] = "verify" /\ v \notin touched /\ op'[v] = op[v] /\ plan' = plan
        /\ cache' = cache
    BY <1>6 DEF Start, TakeOp, Leave, NextOp, Read, Again, GoTo, medium, TypeOK
  <2> QED  BY <1>2, <2>1
<1>7. ASSUME NEW w \in Workers, ReadBack(w) PROVE (cache[Block(op[v])] = Written(v))'
  <2>1. v # w /\ pc[v] = "verify" /\ v \notin touched /\ op'[v] = op[v] /\ plan' = plan
        /\ cache' = cache
    BY <1>7 DEF ReadBack, AfterReadBack, GoTo, medium, TypeOK
  <2> QED  BY <1>2, <2>1
<1>8. ASSUME NEW w \in Workers, SyncOrNot(w) \/ Finish(w)
      PROVE  (cache[Block(op[v])] = Written(v))'
  <2>1. v # w /\ pc[v] = "verify" /\ v \notin touched /\ op'[v] = op[v] /\ plan' = plan
        /\ cache' = cache
    BY <1>8 DEF SyncOrNot, Finish, Again, GoTo, TypeOK
  <2> QED  BY <1>2, <2>1
<1>9. CASE SetStop \/ UNCHANGED vars
  BY <1>2, <1>9 DEF SetStop, medium, vars
<1>10. ASSUME NEW c \in BlockIds, WriteBack(c) PROVE (cache[Block(op[v])] = Written(v))'
  BY <1>2, <1>10 DEF WriteBack
<1>11. ASSUME NEW c \in BlockIds, GoBad(c) PROVE (cache[Block(op[v])] = Written(v))'
  BY <1>2, <1>3, <1>11 DEF GoBad, TypeOK, b
<1> QED
  BY <1>4, <1>5, <1>6, <1>7, <1>8, <1>9, <1>10, <1>11 DEF Next, Worker

(***************************************************************************)
(* The syncs.                                                               *)
(***************************************************************************)
\* The unsynced blocks of a worker are finitely many, and no more than there are.
LEMMA UnsyncedFinite ==
  ASSUME NEW w
  PROVE  /\ IsFiniteSet(Unsynced(w)) /\ Cardinality(Unsynced(w)) \in Nat
         /\ Cardinality(Unsynced(w)) <= Blocks
<1>1. IsFiniteSet(BlockIds) /\ Cardinality(BlockIds) = Blocks
  <2>1. 0 \in Int /\ Blocks - 1 \in Int /\ Blocks \in Nat \ {0}
    BY WorkerIoAssumption
  <2>2. IsFiniteSet(0..(Blocks - 1)) /\ Cardinality(0..(Blocks - 1)) = Blocks
    <3>1. Cardinality(0..(Blocks - 1)) = IF 0 > Blocks - 1 THEN 0 ELSE (Blocks - 1) - 0 + 1
      BY <2>1, FS_Interval
    <3> QED  BY <2>1, <3>1, FS_Interval
  <2> QED  BY <2>2 DEF BlockIds
<1>2. Unsynced(w) \subseteq BlockIds
  BY DEF Unsynced
<1> QED  BY <1>1, <1>2, FS_Subset, FS_CardinalityType

\* A worker whose unsynced blocks are among those of before has no more of them.
LEMMA FewerUnsynced ==
  ASSUME NEW w, NEW S \in SUBSET Unsynced(w)
  PROVE  Cardinality(S) <= Cardinality(Unsynced(w))
  BY UnsyncedFinite, FS_Subset

\* Every step keeps the unsynced blocks counted.
LEMMA CountedStep ==
  TypeOK /\ UnsyncedAreCounted /\ [Next]_vars => UnsyncedAreCounted'
<1> SUFFICES ASSUME TypeOK, UnsyncedAreCounted, [Next]_vars, NEW v \in Workers
             PROVE  (Cardinality(Unsynced(v)) <= sinceSync[v])'
  BY DEF UnsyncedAreCounted
<1>0. Cardinality(Unsynced(v)) <= sinceSync[v] /\ sinceSync[v] \in Nat
      /\ Cardinality(Unsynced(v)) \in Nat
  BY UnsyncedFinite DEF UnsyncedAreCounted, TypeOK
<1>1. ASSUME Unsynced(v)' \subseteq Unsynced(v), sinceSync'[v] \in Nat, sinceSync'[v] >= sinceSync[v]
      PROVE  (Cardinality(Unsynced(v)) <= sinceSync[v])'
  <2>1. Cardinality(Unsynced(v)') <= Cardinality(Unsynced(v)) /\ Cardinality(Unsynced(v)') \in Nat
    BY <1>1, UnsyncedFinite, FS_Subset, FS_CardinalityType
  <2> QED  BY <1>0, <1>1, <2>1
<1>2. ASSUME disk' = cache, cache' = cache, sinceSync'[v] \in Nat
      PROVE  (Cardinality(Unsynced(v)) <= sinceSync[v])'
  <2>1. Unsynced(v)' = {}
    BY <1>2 DEF Unsynced
  <2> QED  BY <1>2, <2>1, FS_EmptySet
<1>3. ASSUME NEW w \in Workers, WriteDone(w) PROVE (Cardinality(Unsynced(v)) <= sinceSync[v])'
  <2> DEFINE b == Block(op[w])
  <2>1. /\ Written(w).worker = w /\ Part(w).kind = "part" /\ b \in BlockIds
    BY WrittenIsContent
  <2> HIDE DEF b
  <2>2. disk' = disk /\ (cache' = [cache EXCEPT ![b] = Written(w)]
                          \/ cache' = [cache EXCEPT ![b] = Part(w)] \/ cache' = cache)
    BY <1>3 DEF WriteDone, b
  <2>3. CASE v = w
    <3>1. sinceSync'[v] = sinceSync[v] + 1
      BY <1>3, <2>3 DEF WriteDone, TypeOK
    <3>2. Unsynced(v)' \subseteq Unsynced(v) \cup {b}
      BY <2>1, <2>2 DEF Unsynced, TypeOK
    <3>3. /\ IsFiniteSet(Unsynced(v) \cup {b})
          /\ Cardinality(Unsynced(v) \cup {b}) <= Cardinality(Unsynced(v)) + 1
          /\ Cardinality(Unsynced(v) \cup {b}) \in Nat
      <4>1. IsFiniteSet(Unsynced(v)) /\ Cardinality(Unsynced(v)) \in Nat
        BY UnsyncedFinite
      <4>2. Unsynced(v) \cup {b} = Unsynced(v) \/ b \notin Unsynced(v)
        OBVIOUS
      <4> HIDE DEF b
      <4>3. /\ IsFiniteSet(Unsynced(v) \cup {b})
            /\ \/ Cardinality(Unsynced(v) \cup {b}) = Cardinality(Unsynced(v))
               \/ Cardinality(Unsynced(v) \cup {b}) = Cardinality(Unsynced(v)) + 1
        BY <4>1, <4>2, FS_AddElement
      <4> QED  BY <4>1, <4>3
    <3>4. /\ Cardinality(Unsynced(v)') <= Cardinality(Unsynced(v) \cup {b})
          /\ Cardinality(Unsynced(v)') \in Nat
      BY <3>2, <3>3, FS_Subset, FS_CardinalityType
    <3> QED  BY <1>0, <3>1, <3>3, <3>4
  <2>4. CASE v # w
    <3>1. sinceSync'[v] = sinceSync[v]
      BY <1>3, <2>4 DEF WriteDone, TypeOK
    <3>2. Unsynced(v)' \subseteq Unsynced(v)
      BY <2>1, <2>2, <2>4 DEF Unsynced, TypeOK
    <3> QED  BY <1>0, <1>1, <3>1, <3>2
  <2> QED  BY <2>3, <2>4
<1>4. ASSUME NEW w \in Workers, WriteFails(w) PROVE (Cardinality(Unsynced(v)) <= sinceSync[v])'
  <2>1. Part(w).kind = "part"
    BY WrittenIsContent
  <2>2. Unsynced(v)' \subseteq Unsynced(v)
    BY <1>4, <2>1 DEF WriteFails, Unsynced, TypeOK
  <2> QED  BY <1>0, <1>1, <1>4, <2>2 DEF WriteFails
<1>5. ASSUME NEW w \in Workers, Start(w) \/ TakeOp(w) \/ Read(w)
      PROVE  (Cardinality(Unsynced(v)) <= sinceSync[v])'
  BY <1>0, <1>1, <1>5 DEF Start, TakeOp, Read, medium, Unsynced
<1>6. ASSUME NEW w \in Workers, ReadBack(w) PROVE (Cardinality(Unsynced(v)) <= sinceSync[v])'
  BY <1>0, <1>1, <1>6 DEF ReadBack, AfterReadBack, medium, Unsynced
<1>7. ASSUME NEW w \in Workers, SyncOrNot(w) \/ Finish(w)
      PROVE  (Cardinality(Unsynced(v)) <= sinceSync[v])'
  <2>1. cache' = cache
    BY <1>7 DEF SyncOrNot, Finish
  <2>2. CASE disk' = cache
    <3>1. sinceSync'[v] \in Nat
      BY <1>7 DEF SyncOrNot, Finish, Fdatasync, TypeOK
    <3> QED  BY <1>2, <2>1, <2>2, <3>1
  <2>3. CASE disk' # cache
    <3>1. disk' = disk /\ sinceSync' = sinceSync
      BY <1>7, <2>3 DEF SyncOrNot, Finish, Fdatasync
    <3> QED  BY <1>0, <1>1, <2>1, <3>1 DEF Unsynced
  <2> QED  BY <2>2, <2>3
<1>8. CASE SetStop \/ UNCHANGED vars
  BY <1>0, <1>1, <1>8 DEF SetStop, medium, vars, Unsynced
<1>9. ASSUME NEW c \in BlockIds, WriteBack(c) PROVE (Cardinality(Unsynced(v)) <= sinceSync[v])'
  BY <1>0, <1>1, <1>9 DEF WriteBack, Unsynced, TypeOK
<1>10. ASSUME NEW c \in BlockIds, GoBad(c) PROVE (Cardinality(Unsynced(v)) <= sinceSync[v])'
  BY <1>0, <1>1, <1>10, OtherIsContent DEF GoBad, Unsynced, TypeOK
<1> QED
  BY <1>3, <1>4, <1>5, <1>6, <1>7, <1>8, <1>9, <1>10 DEF Next, Worker

\* Every step keeps the syncs in time.
LEMMA InTimeStep == TypeOK /\ SyncedInTime /\ [Next]_vars => SyncedInTime'
<1> SUFFICES ASSUME TypeOK, SyncedInTime, [Next]_vars, syncFailures' = 0,
                    NEW v \in Workers, pc'[v] \notin {"verify", "sync"}
             PROVE  NotOverdue(sinceSync[v])'
  BY DEF SyncedInTime
<1>1. plan' = plan
  BY DEF Next, Worker, Start, TakeOp, Read, WriteDone, WriteFails, ReadBack, AfterReadBack,
         SyncOrNot, Finish, SetStop, WriteBack, GoBad, vars
<1>2. ASSUME sinceSync'[v] = sinceSync[v], syncFailures' = syncFailures, pc[v] \notin {"verify", "sync"}
      PROVE  NotOverdue(sinceSync[v])'
  BY <1>1, <1>2 DEF SyncedInTime, NotOverdue, ShouldSync
<1>3. ASSUME NEW w \in Workers, Start(w) \/ TakeOp(w) \/ Read(w) \/ WriteFails(w)
      PROVE  NotOverdue(sinceSync[v])'
  BY <1>2, <1>3 DEF Start, TakeOp, Leave, NextOp, Read, WriteFails, Again, GoTo, TypeOK
<1>4. ASSUME NEW w \in Workers, WriteDone(w) PROVE NotOverdue(sinceSync[v])'
  BY <1>2, <1>4 DEF WriteDone, GoTo, TypeOK
<1>5. ASSUME NEW w \in Workers, ReadBack(w) PROVE NotOverdue(sinceSync[v])'
  BY <1>2, <1>5 DEF ReadBack, AfterReadBack, GoTo, TypeOK
<1>6. ASSUME NEW w \in Workers, SyncOrNot(w) PROVE NotOverdue(sinceSync[v])'
  <2>1. syncFailures' = syncFailures
    BY <1>6 DEF SyncOrNot, Fdatasync, TypeOK
  <2>2. CASE v # w
    BY <1>2, <1>6, <2>1, <2>2 DEF SyncOrNot, Fdatasync, Again, GoTo, TypeOK
  <2>3. CASE v = w
    <3>1. \/ sinceSync'[v] = 0
          \/ ~ ShouldSync(sinceSync[v]) /\ sinceSync'[v] = sinceSync[v]
      BY <1>6, <2>1, <2>3 DEF SyncOrNot, Fdatasync, TypeOK
    <3> QED  BY <1>1, <3>1 DEF NotOverdue, ShouldSync
  <2> QED  BY <2>2, <2>3
<1>7. ASSUME NEW w \in Workers, Finish(w) PROVE NotOverdue(sinceSync[v])'
  BY <1>2, <1>7 DEF Finish, Fdatasync, GoTo, TypeOK
<1>8. CASE SetStop \/ UNCHANGED vars
  BY <1>2, <1>8 DEF SetStop, vars
<1>9. ASSUME NEW b \in BlockIds, WriteBack(b) \/ GoBad(b) PROVE NotOverdue(sinceSync[v])'
  BY <1>2, <1>9 DEF WriteBack, GoBad
<1> QED
  BY <1>3, <1>4, <1>5, <1>6, <1>7, <1>8, <1>9 DEF Next, Worker

\* Every step keeps a writer on its way to the last sync.
LEMMA LastSyncStep == TypeOK /\ LastSyncComes /\ [Next]_vars => LastSyncComes'
<1> DEFINE Goes(b) == cache[b].kind = "whole" =>
                        /\ plan.write /\ cache[b].worker \in Workers
                        /\ plan.atEnd /\ syncFailures = 0 /\ disk[b] # cache[b] =>
                             pc[cache[b].worker] \notin {"start", "done", "failed"}
<1> SUFFICES ASSUME TypeOK, LastSyncComes, [Next]_vars, NEW b \in BlockIds PROVE Goes(b)'
  BY DEF LastSyncComes
<1>0. Goes(b)
  BY DEF LastSyncComes
<1>1. ASSUME plan' = plan, syncFailures' = syncFailures, cache'[b] = cache[b],
             disk'[b] = disk[b] \/ disk'[b] = cache[b],
             \A w \in Workers : pc[w] \notin {"start", "done", "failed"} =>
                                  pc'[w] \notin {"start", "done", "failed"}
      PROVE  Goes(b)'
  BY <1>0, <1>1
<1>2. ASSUME plan' = plan, cache'[b] = cache[b], disk'[b] = cache[b] PROVE Goes(b)'
  BY <1>0, <1>2
<1>3. ASSUME NEW w \in Workers, Start(w) \/ TakeOp(w) \/ Read(w) PROVE Goes(b)'
  BY <1>1, <1>3 DEF Start, TakeOp, Leave, NextOp, Read, Again, GoTo, medium, TypeOK
<1>4. ASSUME NEW w \in Workers, WriteDone(w) PROVE Goes(b)'
  <2>1. /\ Written(w).worker = w /\ Part(w).kind = "part" /\ Block(op[w]) \in BlockIds
    BY WrittenIsContent
  <2>2. /\ plan' = plan /\ syncFailures' = syncFailures /\ disk' = disk /\ plan.write
        /\ pc'[w] \in {"verify", "sync"} /\ \A v \in Workers \ {w} : pc'[v] = pc[v]
    BY <1>4 DEF WriteDone, IsRead, GoTo, TypeOK
  <2>3. \/ cache'[b] = Written(w) \/ cache'[b] = Part(w) \/ cache'[b] = cache[b]
    BY <1>4, <2>1 DEF WriteDone, TypeOK
  <2>4. CASE cache'[b] = cache[b]
    BY <1>1, <2>2, <2>4
  <2>5. CASE cache'[b] = Written(w) \/ cache'[b] = Part(w)
    BY <2>1, <2>2, <2>5
  <2> QED  BY <2>3, <2>4, <2>5
<1>5. ASSUME NEW w \in Workers, WriteFails(w) PROVE Goes(b)'
  <2>1. Part(w).kind = "part" /\ Block(op[w]) \in BlockIds
    BY WrittenIsContent
  <2>2. cache'[b] = Part(w) \/ cache'[b] = cache[b]
    BY <1>5, <2>1 DEF WriteFails, TypeOK
  <2> QED  BY <1>1, <1>5, <2>1, <2>2 DEF WriteFails, Again, GoTo, TypeOK
<1>6. ASSUME NEW w \in Workers, ReadBack(w) PROVE Goes(b)'
  BY <1>1, <1>6 DEF ReadBack, AfterReadBack, GoTo, medium, TypeOK
<1>7. ASSUME NEW w \in Workers, SyncOrNot(w) PROVE Goes(b)'
  <2>1. plan' = plan /\ cache' = cache
    BY <1>7 DEF SyncOrNot
  <2>2. CASE disk' = cache
    BY <1>2, <2>1, <2>2
  <2>3. CASE syncFailures' = syncFailures + 1
    BY <1>0, <2>1, <2>3 DEF TypeOK
  <2>4. CASE disk' = disk /\ syncFailures' = syncFailures
    BY <1>1, <1>7, <2>1, <2>4 DEF SyncOrNot, Again, GoTo, TypeOK
  <2> QED  BY <1>7, <2>2, <2>3, <2>4 DEF SyncOrNot, Fdatasync
<1>8. ASSUME NEW w \in Workers, Finish(w) PROVE Goes(b)'
  <2>1. plan' = plan /\ cache' = cache
    BY <1>8 DEF Finish
  <2>2. CASE disk' = cache
    BY <1>2, <2>1, <2>2
  <2>3. CASE syncFailures' = syncFailures + 1
    BY <1>0, <2>1, <2>3 DEF TypeOK
  <2>4. CASE ~ (plan.atEnd /\ plan.write)
    BY <1>0, <2>1, <2>4
  <2> QED  BY <1>8, <2>2, <2>3, <2>4 DEF Finish, Fdatasync
<1>9. CASE SetStop \/ UNCHANGED vars
  BY <1>1, <1>9 DEF SetStop, medium, vars
<1>10. ASSUME NEW c \in BlockIds, WriteBack(c) PROVE Goes(b)'
  BY <1>1, <1>10 DEF WriteBack, TypeOK
<1>11. ASSUME NEW c \in BlockIds, GoBad(c) PROVE Goes(b)'
  BY <1>1, <1>11, OtherIsContent DEF GoBad, TypeOK
<1> QED
  BY <1>3, <1>4, <1>5, <1>6, <1>7, <1>8, <1>9, <1>10, <1>11 DEF Next, Worker

(***************************************************************************)
(* The theorems.                                                            *)
(***************************************************************************)
\* The initial states satisfy the invariant.
LEMMA IoInit == Init => IoInv
<1> SUFFICES ASSUME Init PROVE IoInv
  OBVIOUS
<1> USE DEF Init
<1>1. TypeOK
  <2>1. NoFailures \in Tally
    BY DEF NoFailures, Tally
  <2>2. 0 \in 0..OpLimit
    BY WorkerIoAssumption
  <2>3. cache \in [BlockIds -> Content]
    BY OtherIsContent
  <2> QED  BY <2>1, <2>2, <2>3 DEF TypeOK
<1>2. UnsyncedAreCounted
  <2>1. \A w : Unsynced(w) = {}
    BY DEF Unsynced
  <2> QED  BY <2>1, FS_EmptySet DEF UnsyncedAreCounted
<1>3. SyncedInTime
  BY DEF SyncedInTime, NotOverdue
<1>4. LastSyncComes
  BY OtherIsContent DEF LastSyncComes
<1> QED  BY <1>1, <1>2, <1>3, <1>4 DEF IoInv, WrittenOrTouched

\* Every step keeps the invariant.
LEMMA IoStep == IoInv /\ [Next]_vars => IoInv'
  BY TypeStep, WrittenStep, CountedStep, InTimeStep, LastSyncStep DEF IoInv

\* The invariant holds in every reachable state of the workers' I/O.
THEOREM IoInvariance == Spec => []IoInv
  BY IoInit, IoStep, PTL DEF Spec

\* For any number of workers and failures: as long as no sync failed, what a crash
\* loses of a worker's writes is bounded by the cadence (worker_loop_with_fd,
\* should_sync).
THEOREM BoundedLoss == Spec => []LossIsBounded
<1>1. IoInv => LossIsBounded
  <2> SUFFICES ASSUME IoInv, syncFailures = 0, NEW w \in Workers, pc[w] \notin {"verify", "sync"}
               PROVE  Cardinality(Unsynced(w)) <= Allowance
    BY DEF LossIsBounded
  <2>1. /\ Cardinality(Unsynced(w)) \in Nat /\ Cardinality(Unsynced(w)) <= Blocks
        /\ Cardinality(Unsynced(w)) <= sinceSync[w] /\ sinceSync[w] \in Nat
    BY UnsyncedFinite DEF IoInv, UnsyncedAreCounted, TypeOK
  <2>2. ShouldSync(sinceSync[w]) => sinceSync[w] = 0
    BY DEF IoInv, SyncedInTime, NotOverdue
  <2>3. /\ plan.mode \in {"performance", "batch", "strict"}
        /\ plan.every \in Nat \cup {NoCadence} /\ NoCadence \notin Nat
    BY WorkerIoAssumption DEF IoInv, TypeOK
  <2>4. CASE plan.mode = "strict"
    BY <2>1, <2>2, <2>4 DEF ShouldSync, Allowance
  <2>5. CASE plan.mode = "batch" /\ plan.every \in Nat
    BY <2>1, <2>2, <2>3, <2>5 DEF ShouldSync, Allowance
  <2>6. CASE ~ (plan.mode = "strict" \/ (plan.mode = "batch" /\ plan.every \in Nat))
    BY <2>1, <2>6 DEF Allowance
  <2> QED  BY <2>4, <2>5, <2>6
<1> QED  BY <1>1, IoInvariance, PTL

\* With fdatasync_at_end a finished run leaves nothing in the cache, unless a sync
\* failed (worker_loop_with_fd).
THEOREM DurableAtEnd == Spec => []EndIsDurable
<1>1. IoInv => EndIsDurable
  BY DEF IoInv, LastSyncComes, EndIsDurable
<1> QED  BY <1>1, IoInvariance, PTL

\* A worker is charged with a checksum mismatch only when something else changed
\* its block, or the device did not write it (worker_loop_with_fd, the read-back).
THEOREM MismatchIsCaused == Spec => MismatchHasCause
<1>1. ASSUME IoInv, [Next]_vars
      PROVE  [\A w \in Workers : verified'[w].mismatch > verified[w].mismatch => w \in touched]_vars
  <2> SUFFICES ASSUME NEW v \in Workers, verified'[v].mismatch > verified[v].mismatch
               PROVE  v \in touched
    OBVIOUS
  <2>0. TypeOK /\ verified[v].mismatch \in Nat
    BY <1>1 DEF IoInv, TypeOK, Tally
  <2>1. ASSUME verified'[v].mismatch = verified[v].mismatch PROVE FALSE
    BY <2>0, <2>1
  <2>2. PICK w \in Workers : ReadBack(w)
    BY <1>1, <2>1
       DEF Next, Worker, Start, TakeOp, Read, WriteDone, WriteFails, SyncOrNot, Finish, SetStop,
           WriteBack, GoBad, vars
  <2>3. CASE Compare(w, Written(w))
    <3>1. ~ Equal(cache[Block(op[w])], Written(w)) /\ Failed(w, "mismatch")
      BY <2>1, <2>3 DEF Compare
    <3>2. v = w
      BY <2>0, <2>1, <3>1, FailedCounts
    <3>3. cache[Block(op[w])] # Written(w)
      BY <2>0, <3>1, WrittenIsContent DEF Equal
    <3> QED  BY <1>1, <2>2, <3>2, <3>3 DEF IoInv, WrittenOrTouched, ReadBack
  <2>4. CASE \E class \in {"short", "eof"} : Failed(w, class) /\ Fault
    BY <2>0, <2>1, <2>4, FailedCounts
  <2> QED  BY <2>2, <2>3, <2>4 DEF ReadBack
<1> QED  BY <1>1, IoInvariance, PTL DEF Spec, MismatchHasCause

\* A failure that is classed is counted by its worker and by all.
LEMMA CountsStep ==
  ASSUME TypeOK, CountsAgree, [Next]_vars
  PROVE  CountsAgree'
<1> DEFINE counted == [w \in Workers |-> verified[w].count]
           later   == [w \in Workers |-> verified'[w].count]
<1>0. CountsAgree' <=>
        /\ verifyFailures' = SumFunction(later)
        /\ \A w \in Workers :
             verified'[w].count = verified'[w].mismatch + verified'[w].short + verified'[w].eof
  BY DEF CountsAgree
<1>1. CASE UNCHANGED <<verified, verifyFailures>>
  BY <1>0, <1>1 DEF CountsAgree
<1>2. ASSUME NEW w \in Workers, NEW class \in {"mismatch", "short", "eof"}, Failed(w, class)
      PROVE  CountsAgree'
  <2>1. /\ verified' \in [Workers -> Tally] /\ verified \in [Workers -> Tally]
        /\ \A v \in Workers \ {w} : verified'[v] = verified[v]
        /\ verified'[w].count = verified[w].count + 1
        /\ verified'[w].mismatch + verified'[w].short + verified'[w].eof =
             verified[w].mismatch + verified[w].short + verified[w].eof + 1
    BY <1>2, FailedCounts DEF TypeOK
  <2>2. /\ counted \in [Workers -> Int] /\ later \in [Workers -> Int]
        /\ \A v \in Workers \ {w} : later[v] = counted[v]
        /\ later[w] - counted[w] = 1
    BY <2>1 DEF Tally
  <2>3. SumFunction(later) = SumFunction(counted) + 1
    <3>1. IsFiniteSet(Workers)
      BY WorkerIoAssumption
    <3> HIDE DEF later, counted
    <3> QED  BY <2>2, <3>1, SumUpdate
  <2>4. verifyFailures' = verifyFailures + 1
    BY <1>2 DEF Failed
  <2> QED  BY <1>0, <2>1, <2>3, <2>4 DEF CountsAgree
<1>3. ASSUME NEW w \in Workers, ReadBack(w) PROVE CountsAgree'
  <2>1. CASE Compare(w, Written(w))
    BY <1>1, <1>2, <2>1 DEF Compare
  <2> QED  BY <1>2, <1>3, <2>1 DEF ReadBack
<1> QED
  BY <1>1, <1>3
     DEF Next, Worker, Start, TakeOp, Read, WriteDone, WriteFails, SyncOrNot, Finish, SetStop,
         WriteBack, GoBad, vars

\* The workers' counts of verification failures, whole and by class, are the shared
\* counter's, for any number of workers and failures (note_verify_failure,
\* merge_verify).
THEOREM CountsAlwaysAgree == Spec => []CountsAgree
<1>1. Init => CountsAgree
  <2> SUFFICES ASSUME Init PROVE CountsAgree
    OBVIOUS
  <2> DEFINE counted == [w \in Workers |-> verified[w].count]
  <2>1. \A w \in Workers : verified[w] = NoFailures
    BY DEF Init
  <2>2. DOMAIN counted = Workers /\ \A w \in Workers : counted[w] = 0
    BY <2>1 DEF NoFailures
  <2>3. SumFunction(counted) = 0
    <3> HIDE DEF counted
    <3> QED  BY <2>2, WorkerIoAssumption, SumZero DEF SumFunction
  <2> QED  BY <2>1, <2>3 DEF CountsAgree, NoFailures, Init
<1>2. IoInv /\ CountsAgree /\ [Next]_vars => CountsAgree'
  BY CountsStep DEF IoInv
<1> QED  BY <1>1, <1>2, IoInvariance, PTL DEF Spec
=============================================================================
