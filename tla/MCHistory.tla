------------------------------ MODULE MCHistory ------------------------------
(***************************************************************************)
(* An instance of History for TLC: a register recorded every second on one *)
(* channel, and a slow one with two words on the next; days of five        *)
(* seconds.                                                                *)
(***************************************************************************)
EXTENDS History

FastAndSlow == << [chan |-> 0, fun |-> 3, num |-> 1, interval |-> 1],
                  [chan |-> 1, fun |-> 3, num |-> 2, interval |-> 2] >>

SlowUnmappedFast == <<2, 0, 1>>

\* A byte of the slow register is always zero.
SomeZeros == {<<2, 2>>}
=============================================================================
