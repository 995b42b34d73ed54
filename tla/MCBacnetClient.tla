--------------------------- MODULE MCBacnetClient ---------------------------
(***************************************************************************)
(* Instances of BacnetClient for TLC: two devices, one of them with a      *)
(* multistate object and analog input 0, which the client asks for when it *)
(* has missed a member of the list.                                        *)
(***************************************************************************)
EXTENDS BacnetClient, TLC

CONSTANTS d1, d2, zero, o2

TwoLists == (d1 :> <<zero>>) @@ (d2 :> <<o2>>)
=============================================================================
