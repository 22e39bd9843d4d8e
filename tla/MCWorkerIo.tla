------------------------------ MODULE MCWorkerIo ------------------------------
(***************************************************************************)
(* Two workers and two blocks, three operations: the workers meet on a      *)
(* block when the offsets are random, and come back to it when they are     *)
(* not.                                                                     *)
(***************************************************************************)
EXTENDS WorkerIo

TwoWorkers == {0, 1}
SomeMix    == [o \in 0..3 |-> IF o = 2 THEN 1 ELSE 0]

Plan(mode, every, write, random, verify) ==
  [mode |-> mode, every |-> every, timed |-> every = 2, write |-> write, reads |-> {1},
   random |-> random, verify |-> verify, atEnd |-> mode # "strict"]

SomePlans ==
  {Plan("strict", NoCadence, TRUE, TRUE, TRUE), Plan("batch", 2, TRUE, FALSE, TRUE),
   Plan("performance", NoCadence, TRUE, TRUE, FALSE), Plan("batch", NoCadence, FALSE, TRUE, TRUE),
   Plan("batch", 0, TRUE, FALSE, TRUE)}
     \cup {[Plan("batch", 2, TRUE, r, v) EXCEPT !.reads = {}, !.timed = FALSE] : r, v \in BOOLEAN}
=============================================================================
