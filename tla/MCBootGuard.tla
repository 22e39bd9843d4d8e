----------------------------- MODULE MCBootGuard -----------------------------
(***************************************************************************)
(* Constants for model-checking BootGuard: two workers on boot0, a writing  *)
(* secondary alone on boot1.                                                *)
(***************************************************************************)
EXTENDS BootGuard, TLC

CONSTANTS boot0, boot1, w1, w2, s1

BothDevices == {boot0, boot1}
ThreeHolders == {w1, w2, s1}
TwoOnBoot0  == (w1 :> boot0) @@ (w2 :> boot0) @@ (s1 :> boot1)
OnlySecondary == {s1}
=============================================================================
