--------------------------- MODULE MCSCD2History ---------------------------
(* Constants of the model-checking runs of SCD2History. *)
EXTENDS SCD2History, TLC

CONSTANTS w1, w2, o1, o2, a, b

=============================================================================
