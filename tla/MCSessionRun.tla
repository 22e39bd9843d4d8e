----------------------------- MODULE MCSessionRun -----------------------------
(***************************************************************************)
(* SessionRun for TLC: two regions, so that one may be overwritten and the  *)
(* other not, and two commands, so that a capture is verified.              *)
(***************************************************************************)
EXTENDS SessionRun
=============================================================================
