-------------------------- MODULE MCIec102Session --------------------------
(***************************************************************************)
(* Instances of Iec102Session for TLC: the sets of commands of the runs.   *)
(***************************************************************************)
EXTENDS Iec102Session

Ask(type, obj) == [type |-> type, cause |-> ProperCause(type), obj |-> obj]

RangeCommands    == {Ask("NR", "ok"), Ask("NR", "refused")}
AnsweredCommands == RangeCommands \cup
                    {Ask(t, "ok") : t \in {"RD", "SYN", "NT", "XX"}}
RoughCommands    == RangeCommands \cup {Ask("SYN", "ok"), Ask("ND", "ok")}

\* A link without trouble carries the commands that are answered in full.
SomeCommands    == [t \in Troubles |-> IF t = "none" THEN AnsweredCommands
                                       ELSE RoughCommands]
SomeDeactivable == [t \in Troubles |-> IF t = "none" THEN {"NR"} ELSE Types]

\* The instance in which a block is missed.
OnlyRange       == [t \in Troubles |-> RangeCommands]
NoDeactivable   == [t \in Troubles |-> {}]
=============================================================================
