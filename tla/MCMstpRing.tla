----------------------------- MODULE MCMstpRing -----------------------------
(* Model checking of MstpRing: three addresses, every subset of them on.   *)
EXTENDS MstpRing
=============================================================================
