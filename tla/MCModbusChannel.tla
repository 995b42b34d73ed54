--------------------------- MODULE MCModbusChannel ---------------------------
(***************************************************************************)
(* An instance of ModbusChannel for TLC: a slave with two registers and two *)
(* words between them, and one with a single register; the map of the      *)
(* clients has a gap, too.                                                 *)
(***************************************************************************)
EXTENDS ModbusChannel

TwoSlaves == << << [addr |-> 0, num |-> 1, order |-> "AB"],
                   [addr |-> 3, num |-> 1, order |-> "BA"] >>,
                << [addr |-> 1, num |-> 1, order |-> "AB"] >> >>

ThreeEntries == << [addr |-> 0, s |-> 2, i |-> 1],
                   [addr |-> 1, s |-> 1, i |-> 1],
                   [addr |-> 3, s |-> 1, i |-> 2] >>
=============================================================================
