------------------------- MODULE MCThreadManager -------------------------
(* Instances of ThreadManager for TLC. *)
EXTENDS ThreadManager

CONSTANTS ui, misc, db, twin, a, b, again

\* misc and twin ask for the same identifier: the second one is refused.
MCId == [p \in {Main} \cup Workers |-> IF p = Main THEN 0 ELSE IF p = db THEN 2 ELSE 1]

MCTimes == [j \in Repeats |-> 2]
============================================================================
