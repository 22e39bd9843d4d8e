------------------------------ MODULE MCEngine ------------------------------
(***************************************************************************)
(* Constants for model-checking Engine. p1 and p2 are the primary workers, *)
(* s1 the secondary target's worker.                                        *)
(***************************************************************************)
EXTENDS Engine

CONSTANTS p1, p2, s1

TwoWorkers == {p1, p2}
NoWorker   == {}
OneSecondary == {s1}
OneOfEach == {p1, s1}

Count  == {"count"}
Either == {"count", "runtime"}
=============================================================================
