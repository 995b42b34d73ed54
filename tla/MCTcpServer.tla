---------------------------- MODULE MCTcpServer ----------------------------
(***************************************************************************)
(* Instances of TcpServer for TLC.                                         *)
(***************************************************************************)
EXTENDS TcpServer

CONSTANTS c1, c2, c3

\* The clients are two masters and one whose address is not a master's.
TwoMasters == {[c \in Clients |-> IF c = c1 THEN 1 ELSE IF c = c2 THEN 2 ELSE 0]}
NoMasters  == {}
=============================================================================
