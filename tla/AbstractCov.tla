------------------------------ MODULE AbstractCov ------------------------------
(***************************************************************************)
(* What the change-of-value service of the BACnet/IP server promises its   *)
(* clients: a subscription lasts until it is cancelled or its time is up,  *)
(* and only then; who is told a value has a subscription at that moment,   *)
(* and is told the value the object has.                                   *)
(***************************************************************************)
EXTENDS Naturals

CONSTANTS Clients, Objects, Values, Lifetimes, Elapsed, Unknown

VARIABLES
  subscribed,  \* the pairs of a client and an object with a subscription
  left,        \* the seconds a subscription has left, 0 without an end
  value,       \* the value of each object
  seen         \* the value each client was told last

vars == <<subscribed, left, value, seen>>

Pairs == Clients \X Objects

Init ==
  /\ subscribed = {}
  /\ left = [p \in Pairs |-> 0]
  /\ value \in [Objects -> Values]
  /\ seen = [p \in Pairs |-> Unknown]

Subscribe(p, lifetime) ==
  /\ subscribed' = subscribed \cup {p}
  /\ left' = [left EXCEPT ![p] = lifetime]
  /\ UNCHANGED <<value, seen>>

Cancel(p) ==
  /\ subscribed' = subscribed \ {p}
  /\ left' = [left EXCEPT ![p] = 0]
  /\ UNCHANGED <<value, seen>>

TimePasses(seconds) ==
  LET over == {p \in subscribed : left[p] \in 1 .. seconds}
  IN  /\ subscribed' = subscribed \ over
      /\ left' = [p \in Pairs |-> IF p \in over \/ left[p] = 0 THEN 0 ELSE left[p] - seconds]
      /\ UNCHANGED <<value, seen>>

Write(o, v) ==
  /\ value' = [value EXCEPT ![o] = v]
  /\ UNCHANGED <<subscribed, left, seen>>

Notify(p) ==
  /\ p \in subscribed
  /\ seen' = [seen EXCEPT ![p] = value[p[2]]]
  /\ UNCHANGED <<subscribed, left, value>>

Next ==
  \/ \E p \in Pairs : Cancel(p) \/ Notify(p) \/ \E lifetime \in Lifetimes : Subscribe(p, lifetime)
  \/ \E seconds \in Elapsed : TimePasses(seconds)
  \/ \E o \in Objects, v \in Values : Write(o, v)

Spec == Init /\ [][Next]_vars
=============================================================================
