------------------------- MODULE MCFrameworkThread -------------------------
(* Instances of FrameworkThread for TLC. *)
EXTENDS FrameworkThread

CONSTANTS a, b, s, q

============================================================================
