----------------------------- MODULE MCUIPump -----------------------------
(* Instances of UIPump for TLC. *)
EXTENDS UIPumpService, TLC

CONSTANTS a, b, c, d

\* a and b are immediate, c and d are delayed.
MCDelay == [t \in Tasks |-> IF t \in {c, d} THEN 1 ELSE 0]
============================================================================
