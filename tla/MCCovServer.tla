----------------------------- MODULE MCCovServer -----------------------------
(***************************************************************************)
(* An instance of CovServer for TLC: what the environment may do is either *)
(* three packets and a loss, or two packets and a request of the client    *)
(* task, or one of each.                                                   *)
(***************************************************************************)
EXTENDS CovServer, TLC

Budget(packets, losses, polls) == [packets |-> packets, losses |-> losses, polls |-> polls]
SomeOfEach == {Budget(3, 1, 0), Budget(2, 0, 1), Budget(1, 1, 1)}

Symmetry == Permutations(Clients)
==============================================================================
