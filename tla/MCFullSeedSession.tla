-------------------------- MODULE MCFullSeedSession --------------------------
(* Constants of the model-checking run of FullSeedSession. *)
EXTENDS FullSeedSession

CONSTANTS r1, r2, hr, s1, s2

HrAndOne == <<hr, s1>>
=============================================================================
