--------------------------- MODULE MCProvisioning ---------------------------
(* Constants of the model-checking run of Provisioning. *)
EXTENDS Provisioning

CONSTANTS auth, core, fs

AllInOrder == <<auth, core, fs>>
=============================================================================
