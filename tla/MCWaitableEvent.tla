-------------------------- MODULE MCWaitableEvent --------------------------
(* Instances of WaitableEvent for TLC. *)
EXTENDS WaitableEventService, TLC

CONSTANTS t1, t2, t3

\* Both orders of the two events.
MCArrays == {<<1, 2>>, <<2, 1>>}
============================================================================
