---------------------------- MODULE MCAsyncModal ----------------------------
(* Instances of AsyncModal for TLC. *)
EXTENDS AsyncModal, TLC

CONSTANTS r1, r2
=============================================================================
