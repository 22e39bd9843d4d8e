---------------------------- MODULE WorkloadRun ----------------------------
(***************************************************************************)
(* What a run of a workload promises its caller (execute_profile,           *)
(* engine.rs), threads and flags aside: every index is attempted at most    *)
(* once, success is reported only when no worker has failed and, with an    *)
(* exact operation count, each of its indices has been attempted, failure   *)
(* only when a worker has failed, and nothing happens after the report.     *)
(***************************************************************************)
EXTENDS Naturals

CONSTANT Indices  \* the operation indices, those of the count if there is one

VARIABLES
  counted,    \* whether the stop condition is the exact count
  attempted,  \* indices whose attempt is over and accounted
  broken,     \* a worker has failed
  status      \* what the caller has been told

runVars == <<counted, attempted, broken, status>>

Init ==
  /\ counted \in BOOLEAN
  /\ attempted = {}
  /\ broken = FALSE
  /\ status = "running"

Attempt(i) ==
  /\ status = "running"
  /\ i \notin attempted
  /\ attempted' = attempted \cup {i}
  /\ UNCHANGED <<counted, broken, status>>

Break ==
  /\ status = "running"
  /\ broken' = TRUE
  /\ UNCHANGED <<counted, attempted, status>>

Succeed ==
  /\ status = "running"
  /\ counted => attempted = Indices
  /\ ~broken
  /\ status' = "ok"
  /\ UNCHANGED <<counted, attempted, broken>>

Fail ==
  /\ status = "running"
  /\ broken
  /\ status' = "error"
  /\ UNCHANGED <<counted, attempted, broken>>

Next == (\E i \in Indices : Attempt(i)) \/ Break \/ Succeed \/ Fail

Spec == Init /\ [][Next]_runVars
=============================================================================
