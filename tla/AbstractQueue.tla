--------------------------- MODULE AbstractQueue ---------------------------
(***************************************************************************)
(* What a message queue of driver/src/ennOS.c promises its callers: a      *)
(* sequence of at most noElements messages.  A send adds a message at the  *)
(* back (FIFO) or in front of all others (PRIORITY, which has no           *)
(* priorities: it is a stack), a receive takes the front one, and a step   *)
(* of EmptyMessage discards the back one.                                  *)
(***************************************************************************)
EXTENDS Integers, Sequences

CONSTANTS Receivers,    \* the callers of ENNOS_ReceiveMessage
          Msg,          \* the messages
          NoMsg,        \* "no message": what a receiver holds between calls
          noElements,   \* the capacity
          msgMode       \* "FIFO" or "PRIORITY"

VARIABLES q,            \* the messages of the queue, front first
          got           \* what each receiver's call has delivered

absVars == <<q, got>>

AbsInit == q = <<>> /\ got = [r \in Receivers |-> NoMsg]

AbsSend(m) ==
    /\ Len(q) < noElements
    /\ q' = IF msgMode = "FIFO" THEN Append(q, m) ELSE <<m>> \o q
    /\ UNCHANGED got

AbsReceive(r) ==
    /\ q # <<>>
    /\ got[r] = NoMsg
    /\ got' = [got EXCEPT ![r] = Head(q)]
    /\ q' = Tail(q)

AbsReturn(r) ==
    /\ got[r] # NoMsg
    /\ got' = [got EXCEPT ![r] = NoMsg]
    /\ UNCHANGED q

AbsDiscard ==
    /\ q # <<>>
    /\ q' = SubSeq(q, 1, Len(q) - 1)
    /\ UNCHANGED got

AbsNext ==
    \/ \E m \in Msg : AbsSend(m)
    \/ \E r \in Receivers : AbsReceive(r) \/ AbsReturn(r)
    \/ AbsDiscard

AbsSpec == AbsInit /\ [][AbsNext]_absVars
=============================================================================
