------------------------------ MODULE MCLogin ------------------------------
(* An instance of Login for TLC. *)
EXTENDS Login, TLC

CONSTANTS x, X

\* The same account in two spellings.
MCLower == [n \in Names |-> IF n = X THEN x ELSE n]
============================================================================
