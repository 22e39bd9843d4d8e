------------------------------- MODULE WorkerIo -------------------------------
(***************************************************************************)
(* What the workers of one target do to it: worker_loop_with_fd (engine.rs) *)
(* from the taking of an operation to the fdatasync at the end. WorkerPool   *)
(* has the threads, the errors and the counters of completed I/O; this       *)
(* module has the data: blocks that the workers share, a cache that a sync   *)
(* makes durable, the read-back of a write, and the failures of the device.  *)
(*                                                                           *)
(* The contents of a block are the operation and the worker that wrote it.   *)
(***************************************************************************)
EXTENDS Integers, FiniteSets, Functions

CONSTANTS
  Workers,   \* worker ids
  Blocks,    \* how many blocks the range has
  OpLimit,   \* workload.exact_op_count
  WordBits,  \* bits of an operation index and of a worker id
  Mix,       \* splitmix64(seed + op)
  MaxFaults, \* bound on the failures of the device
  NoCadence, \* sync_cadence_writes is not given
  Plans      \* the profiles: what a run writes, verifies and syncs

ASSUME WorkerIoAssumption ==
  /\ Blocks \in Nat \ {0} /\ OpLimit \in Nat /\ WordBits \in Nat /\ MaxFaults \in Nat
  /\ Workers \subseteq 0..(2^WordBits - 1) /\ IsFiniteSet(Workers) /\ OpLimit <= 2^WordBits
  /\ NoCadence \notin Nat
  /\ Mix \in [0..OpLimit -> Nat]
  /\ Plans \subseteq [mode : {"performance", "batch", "strict"}, every : Nat \cup {NoCadence},
                      timed : BOOLEAN, write : BOOLEAN, reads : SUBSET Nat, random : BOOLEAN,
                      verify : BOOLEAN, atEnd : BOOLEAN]

VARIABLES
  plan,            \* the profile of the run
  pc,              \* where each worker is in its loop
  op,              \* its operation
  sinceSync,       \* its writes_since_sync
  verified,        \* its LocalStats.verify
  nextOp,          \* the next operation, shared
  stop,            \* the stop flag
  verifyFailures,  \* GlobalCounters.verify_failures
  syncFailures,    \* GlobalCounters.sync_failures
  cache,           \* the contents a read returns
  disk,            \* the contents a crash would leave
  touched,         \* the workers whose block is not what they wrote, by no act of theirs
  faults           \* failures of the device so far

shared == <<nextOp, stop>>
medium == <<cache, disk>>
vars == <<plan, pc, op, sinceSync, verified, shared, verifyFailures, syncFailures, medium,
          touched, faults>>

BlockIds == 0..(Blocks - 1)

\* compute_offset and compute_op_kind.
Block(o)  == (IF plan.random THEN Mix[o] ELSE o) % Blocks
IsRead(o) == ~ plan.write \/ o \in plan.reads

\* fill_pattern hashes seed ^ op ^ worker ^ offset, and the hash is one-to-one. On
\* one block only op ^ worker tells two patterns apart.
Bits(n)    == {i \in 0..(WordBits - 1) : (n \div 2^i) % 2 = 1}
Pattern(c) == (Bits(c.op) \ Bits(c.worker)) \cup (Bits(c.worker) \ Bits(c.op))

\* A pattern; the old contents of the target, part of a write, or a bad sector.
Written(w) == [kind |-> "whole", op |-> op[w], worker |-> w]
Part(w)    == [Written(w) EXCEPT !.kind = "part"]
Other(k)   == [kind |-> k, op |-> 0, worker |-> 0]

Equal(c, e) == c.kind = "whole" /\ Pattern(c) = Pattern(e)

NoFailures == [mismatch |-> 0, short |-> 0, eof |-> 0, count |-> 0]

Init ==
  /\ plan \in Plans
  /\ pc = [w \in Workers |-> "start"]
  /\ op = [w \in Workers |-> 0]
  /\ sinceSync = [w \in Workers |-> 0]
  /\ verified = [w \in Workers |-> NoFailures]
  /\ nextOp = 0 /\ stop = FALSE
  /\ verifyFailures = 0 /\ syncFailures = 0
  /\ cache = [b \in BlockIds |-> Other("old")]
  /\ disk = cache
  /\ touched = {} /\ faults = 0

GoTo(w, p) == pc' = [pc EXCEPT ![w] = p]

\* The next turn of the loop: the operation is forgotten.
Again(w) == GoTo(w, "take") /\ op' = [op EXCEPT ![w] = 0]

\* A failure of the device.
Fault == faults < MaxFaults /\ faults' = faults + 1

(***************************************************************************)
(* The loop.                                                                *)
(***************************************************************************)
\* AlignedBuffer::new may refuse the block size; nothing has been written then.
Start(w) ==
  /\ pc[w] = "start"
  /\ GoTo(w, "take") \/ GoTo(w, "failed")
  /\ UNCHANGED <<plan, op, sinceSync, verified, shared, verifyFailures, syncFailures, medium,
                 touched, faults>>

\* The end of the loop, or one more index, taken even when it is beyond the limit.
Leave(w, p) == GoTo(w, p) /\ UNCHANGED <<op, nextOp>>
NextOp(w) ==
  /\ nextOp' = nextOp + 1
  /\ IF nextOp < OpLimit THEN GoTo(w, "io") /\ op' = [op EXCEPT ![w] = nextOp]
                         ELSE GoTo(w, "end") /\ UNCHANGED op

\* Mutant: a stopped worker returns from the loop and skips the final sync.
TakeOrReturn(w) ==
  /\ pc[w] = "take"
  /\ IF stop THEN Leave(w, "done") ELSE NextOp(w)
  /\ UNCHANGED <<plan, sinceSync, verified, stop, verifyFailures, syncFailures, medium, touched,
                 faults>>

\* The stop flag is read first.
TakeOp(w) ==
  /\ pc[w] = "take"
  /\ IF stop THEN Leave(w, "end") ELSE NextOp(w)
  /\ UNCHANGED <<plan, sinceSync, verified, stop, verifyFailures, syncFailures, medium, touched,
                 faults>>

\* A read, whole, partial or failed, changes nothing here.
Read(w) ==
  /\ pc[w] = "io"
  /\ IsRead(op[w])
  /\ Again(w)
  /\ UNCHANGED <<plan, sinceSync, verified, shared, verifyFailures, syncFailures, medium,
                 touched, faults>>

\* The workers between the write and the read-back of block b.
Waiting(b, w) == {v \in Workers \ {w} : pc[v] = "verify" /\ Block(op[v]) = b}

\* pwrite says that it wrote the block, or part of it. The device may also drop a
\* write that it acknowledged.
WriteDone(w) ==
  LET b == Block(op[w])
  IN /\ pc[w] = "io"
     /\ ~ IsRead(op[w])
     /\ \/ /\ cache' = [cache EXCEPT ![b] = Written(w)]
           /\ touched' = touched \cup Waiting(b, w)
           /\ UNCHANGED faults
        \/ /\ cache' = [cache EXCEPT ![b] = Part(w)]
           /\ touched' = touched \cup {w} \cup Waiting(b, w)
           /\ Fault
        \/ touched' = touched \cup {w} /\ Fault /\ UNCHANGED cache
     /\ sinceSync' = [sinceSync EXCEPT ![w] = @ + 1]
     /\ GoTo(w, IF plan.verify THEN "verify" ELSE "sync")
     /\ UNCHANGED <<plan, op, verified, shared, verifyFailures, syncFailures, disk>>

\* pwrite fails, to be retried or not: the operation is over, with no verification
\* and no sync. What the block holds is then up to the device.
WriteFails(w) ==
  LET b == Block(op[w])
  IN /\ pc[w] = "io"
     /\ ~ IsRead(op[w])
     /\ Fault
     /\ \/ UNCHANGED <<cache, touched>>
        \/ /\ cache' = [cache EXCEPT ![b] = Part(w)]
           /\ touched' = touched \cup Waiting(b, w)
     /\ Again(w)
     /\ UNCHANGED <<plan, sinceSync, verified, shared, verifyFailures, syncFailures, disk>>

\* note_verify_failure, and the branches that count by hand.
Failed(w, class) ==
  /\ verified' = [verified EXCEPT ![w][class] = @ + 1, ![w].count = @ + 1]
  /\ verifyFailures' = verifyFailures + 1

\* A whole read-back against what the worker takes for the contents it wrote.
Compare(w, expected) ==
  /\ IF Equal(cache[Block(op[w])], expected) THEN UNCHANGED <<verified, verifyFailures>>
                                             ELSE Failed(w, "mismatch")
  /\ UNCHANGED faults

AfterReadBack(w) ==
  /\ GoTo(w, "sync")
  /\ touched' = touched \ {w}
  /\ UNCHANGED <<plan, op, sinceSync, shared, syncFailures, medium>>

\* Mutant: a failed read-back is classed but not added to the worker's count.
ReadBackUncounted(w) ==
  /\ pc[w] = "verify"
  /\ \/ Compare(w, Written(w))
     \/ Failed(w, "short") /\ Fault
     \/ /\ verified' = [verified EXCEPT ![w].eof = @ + 1]
        /\ verifyFailures' = verifyFailures + 1
        /\ Fault
  /\ AfterReadBack(w)

\* Mutant: the checksum is taken before the buffer holds the new pattern.
ReadBackStale(w) ==
  /\ pc[w] = "verify"
  /\ Compare(w, [Written(w) EXCEPT !.op = IF @ = 0 THEN 0 ELSE @ - 1])
  /\ AfterReadBack(w)

\* The read-back: whole and compared, short, or failed.
ReadBack(w) ==
  /\ pc[w] = "verify"
  /\ \/ Compare(w, Written(w))
     \/ \E class \in {"short", "eof"} : Failed(w, class) /\ Fault
  /\ AfterReadBack(w)

\* Mutant: the cadence is passed before the sync is due.
ShouldSyncLate(n) ==
  CASE plan.mode = "performance" -> FALSE
    [] plan.mode = "batch"       -> plan.every # NoCadence /\ n > plan.every
    [] plan.mode = "strict"      -> n >= 1

\* should_sync by count. A cadence of zero, which validation lets pass, is one of one:
\* the question is put after a write only.
ShouldSync(n) ==
  CASE plan.mode = "performance" -> FALSE
    [] plan.mode = "batch"       -> plan.every # NoCadence /\ n >= plan.every
    [] plan.mode = "strict"      -> n >= 1

\* fdatasync on the worker's descriptor: the whole target is durable, or an error.
\* A success sets writes_since_sync to n.
Fdatasync(w, n) ==
  \/ /\ disk' = cache
     /\ sinceSync' = [sinceSync EXCEPT ![w] = n]
     /\ UNCHANGED <<syncFailures, faults>>
  \/ /\ syncFailures' = syncFailures + 1
     /\ Fault
     /\ UNCHANGED <<disk, sinceSync>>

\* The time since the last sync may have passed sync_cadence_ms.
SyncOrNot(w) ==
  /\ pc[w] = "sync"
  /\ \/ (ShouldSync(sinceSync[w]) \/ (plan.mode = "batch" /\ plan.timed)) /\ Fdatasync(w, 0)
     \/ ~ ShouldSync(sinceSync[w]) /\ UNCHANGED <<disk, sinceSync, syncFailures, faults>>
  /\ Again(w)
  /\ UNCHANGED <<plan, verified, shared, verifyFailures, cache, touched>>

\* durability.fdatasync_at_end.
Finish(w) ==
  /\ pc[w] = "end"
  /\ IF plan.atEnd /\ plan.write THEN Fdatasync(w, sinceSync[w])
     ELSE UNCHANGED <<disk, sinceSync, syncFailures, faults>>
  /\ GoTo(w, "done")
  /\ UNCHANGED <<plan, op, verified, shared, verifyFailures, cache, touched>>

Worker(w) ==
  \/ Start(w) \/ TakeOp(w) \/ Read(w) \/ WriteDone(w) \/ WriteFails(w) \/ ReadBack(w)
  \/ SyncOrNot(w) \/ Finish(w)

(***************************************************************************)
(* Around the workers: the stop flag, which an error or the clock sets, the *)
(* write-back of the system, and a sector that goes bad.                    *)
(***************************************************************************)
SetStop ==
  /\ ~ stop
  /\ stop' = TRUE
  /\ UNCHANGED <<plan, pc, op, sinceSync, verified, nextOp, verifyFailures, syncFailures, medium,
                 touched, faults>>

WriteBack(b) ==
  /\ disk[b] # cache[b]
  /\ disk' = [disk EXCEPT ![b] = cache[b]]
  /\ UNCHANGED <<plan, pc, op, sinceSync, verified, shared, verifyFailures, syncFailures, cache,
                 touched, faults>>

GoBad(b) ==
  /\ Fault
  /\ cache' = [cache EXCEPT ![b] = Other("bad")]
  /\ disk' = [disk EXCEPT ![b] = Other("bad")]
  /\ touched' = touched \cup {w \in Workers : pc[w] = "verify" /\ Block(op[w]) = b}
  /\ UNCHANGED <<plan, pc, op, sinceSync, verified, shared, verifyFailures, syncFailures>>

Next ==
  \/ \E w \in Workers : Worker(w)
  \/ SetStop
  \/ \E b \in BlockIds : WriteBack(b) \/ GoBad(b)

Spec == Init /\ [][Next]_vars

(***************************************************************************)
(* Properties.                                                              *)
(***************************************************************************)
\* What a crash would lose of w's completed writes.
Unsynced(w) == {b \in BlockIds : /\ cache[b] # disk[b]
                                 /\ cache[b].kind = "whole" /\ cache[b].worker = w}

\* How many completed writes the mode lets a worker leave unsynced between two of
\* its operations; Blocks when there is no limit.
Allowance ==
  CASE plan.mode = "strict"                    -> 0
    [] plan.mode = "batch" /\ plan.every = 0   -> 0
    [] plan.mode = "batch" /\ plan.every \in Nat \ {0} -> plan.every - 1
    [] OTHER                                   -> Blocks

\* As long as no sync has failed, a worker that is not in the middle of a write has
\* at most sync_cadence_writes - 1 blocks that a crash would lose, and none in strict
\* mode, whatever the other workers, the stop flag and failing writes do
\* (worker_loop_with_fd, should_sync).
LossIsBounded ==
  syncFailures = 0 =>
    \A w \in Workers : pc[w] \notin {"verify", "sync"} => Cardinality(Unsynced(w)) <= Allowance

\* With fdatasync_at_end, a run whose workers have all left the loop, stopped or not,
\* leaves nothing in the cache unless a sync failed (worker_loop_with_fd).
EndIsDurable ==
  (/\ \A w \in Workers : pc[w] \in {"done", "failed"}
   /\ plan.atEnd /\ syncFailures = 0) =>
     \A b \in BlockIds : cache[b].kind = "whole" => disk[b] = cache[b]

\* A checksum mismatch is charged to a worker only when its block was changed after
\* its write by something else, or the write was partial or lost. Another worker
\* that writes the same block is such a cause: a mismatch need not be the medium's
\* fault (worker_loop_with_fd, the read-back).
MismatchHasCause ==
  [][\A w \in Workers : verified'[w].mismatch > verified[w].mismatch => w \in touched]_vars

\* The failures that the workers report, by class and in all, are the ones that the
\* shared counter has (note_verify_failure, merge_verify, GlobalCounters).
CountsAgree ==
  /\ verifyFailures = SumFunction([w \in Workers |-> verified[w].count])
  /\ \A w \in Workers :
       verified[w].count = verified[w].mismatch + verified[w].short + verified[w].eof

(***************************************************************************)
(* What they rest on.                                                       *)
(***************************************************************************)
Content == [kind : {"whole", "part", "old", "bad"}, op : 0..OpLimit, worker : Workers \cup {0}]

Tally == [mismatch : Nat, short : Nat, eof : Nat, count : Nat]

TypeOK ==
  /\ plan \in Plans
  /\ pc \in [Workers -> {"start", "take", "io", "verify", "sync", "end", "done", "failed"}]
  /\ op \in [Workers -> 0..OpLimit]
  /\ sinceSync \in [Workers -> Nat]
  /\ verified \in [Workers -> Tally]
  /\ nextOp \in Nat /\ stop \in BOOLEAN
  /\ verifyFailures \in Nat /\ syncFailures \in Nat
  /\ cache \in [BlockIds -> Content] /\ disk \in [BlockIds -> Content]
  /\ touched \subseteq Workers
  /\ faults \in Nat

\* Between the write and the read-back a block holds what was written, or its writer
\* is touched.
WrittenOrTouched ==
  \A w \in Workers :
    pc[w] = "verify" /\ w \notin touched => cache[Block(op[w])] = Written(w)

\* A worker has no more unsynced blocks than writes since its last sync.
UnsyncedAreCounted ==
  \A w \in Workers : Cardinality(Unsynced(w)) <= sinceSync[w]

\* Between operations no sync of anything is due.
NotOverdue(n) == ShouldSync(n) => n = 0

SyncedInTime ==
  syncFailures = 0 =>
    \A w \in Workers : pc[w] \notin {"verify", "sync"} => NotOverdue(sinceSync[w])

\* A block that is not durable has a writer who still comes to the last sync.
LastSyncComes ==
  \A b \in BlockIds :
    cache[b].kind = "whole" =>
      /\ plan.write /\ cache[b].worker \in Workers
      /\ plan.atEnd /\ syncFailures = 0 /\ disk[b] # cache[b] =>
           pc[cache[b].worker] \notin {"start", "done", "failed"}

IoInv ==
  /\ TypeOK /\ WrittenOrTouched /\ UnsyncedAreCounted /\ SyncedInTime /\ LastSyncComes
=============================================================================
