--------------------------- MODULE MCMessageLoop ---------------------------
(* Instances of MessageLoop for TLC. *)
EXTENDS MessageLoopService, TLC

CONSTANTS a, b, c, d, e

\* a opens nested loops, b and d are non-nestable, c and d are delayed, d longer
\* than c, e is another ordinary task.
MCNestable == [t \in Tasks |-> t \notin {b, d}]
MCDelay    == [t \in Tasks |-> CASE t = c -> 1 [] t = d -> 2 [] OTHER -> 0]
MCMay      == [t \in Tasks |->
  CASE t = a -> {"post", "allow", "forbid", "run", "runAllPending"}
    [] t \in {b, e} -> {"quit"}
    [] t = c -> {"quit", "quitNow"}
    [] OTHER -> {}]

\* The posters do the same.
MCPosters == Permutations(Posters)
============================================================================
