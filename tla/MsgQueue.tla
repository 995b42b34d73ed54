------------------------------ MODULE MsgQueue ------------------------------
(***************************************************************************)
(* The message queue of driver/src/ennOS.c: a ring of noElements slots     *)
(* with begin and num under a mutex, and a counting semaphore that         *)
(* receivers wait on before they take the mutex and that senders post      *)
(* after they have released it.  The semaphore and num are therefore never *)
(* changed in one step; what keeps them in agreement is TokenBalance.      *)
(*                                                                         *)
(* Any number of threads may be in the three calls at once.  A thread's pc *)
(* names the statement it executes next; "idle" is outside the calls.      *)
(***************************************************************************)
EXTENDS Integers, FiniteSets

CONSTANTS Senders,      \* threads that call ENNOS_SendMessage
          Receivers,    \* threads that call ENNOS_ReceiveMessage
          Emptiers,     \* threads that call ENNOS_EmptyMessage
          Msg,          \* message contents
          NoMsg,        \* content of a buffer that holds no message
          NoThread,     \* owner of a free mutex
          noElements,   \* number of slots (ENNOS_CreateMessage)
          msgMode       \* "FIFO" or "PRIORITY"

Threads == Senders \cup Receivers \cup Emptiers

ASSUME ThreadsAssumption ==
    /\ IsFiniteSet(Threads)
    /\ Senders \cap Receivers = {}
    /\ Senders \cap Emptiers = {}
    /\ Receivers \cap Emptiers = {}
    /\ NoThread \notin Threads

ASSUME QueueAssumption ==
    /\ noElements \in Nat \ {0}
    /\ msgMode \in {"FIFO", "PRIORITY"}
    /\ NoMsg \notin Msg

VARIABLES begin,        \* slot of the message that is received next
          num,          \* number of messages in the ring
          msgs,         \* the slots
          sem,          \* the value of the semaphore
          mutex,        \* the thread that holds the mutex, or NoThread
          pc,           \* the next statement of each thread
          buf           \* the msg argument of each thread's call

vars == <<begin, num, msgs, sem, mutex, pc, buf>>

Slots == 0 .. noElements - 1

SendPc == {"idle", "sLock", "sTest", "sCount", "sUnlock", "sPost", "sFull"}
RecvPc == {"idle", "rWait", "rLock", "rCopy", "rAdvance", "rUnlock"}
EmptyPc == {"idle", "eTry", "eLock", "eCount", "eUnlock"}

At(t, from, to) == pc[t] = from /\ pc' = [pc EXCEPT ![t] = to]

Lock(t) == mutex = NoThread /\ mutex' = t
Unlock  == mutex' = NoThread

Init ==
    /\ begin = 0
    /\ num = 0
    /\ msgs = [i \in Slots |-> NoMsg]
    /\ sem = 0
    /\ mutex = NoThread
    /\ pc = [t \in Threads |-> "idle"]
    /\ buf = [t \in Threads |-> NoMsg]

----------------------------------------------------------------------------
(* ENNOS_SendMessage *)

SendCall(s) ==
    /\ At(s, "idle", "sLock")
    /\ \E m \in Msg : buf' = [buf EXCEPT ![s] = m]
    /\ UNCHANGED <<begin, num, msgs, sem, mutex>>

SendLock(s) ==
    /\ At(s, "sLock", "sTest")
    /\ Lock(s)
    /\ UNCHANGED <<begin, num, msgs, sem, buf>>

SendFull(s) ==
    /\ At(s, "sTest", "sFull")
    /\ num >= noElements
    /\ UNCHANGED <<begin, num, msgs, sem, mutex, buf>>

(* Mutant: the message goes to the slot of the last one.                 *)
SendStore_Over(s) ==
    /\ At(s, "sTest", "sCount")
    /\ num < noElements
    /\ LET slot == IF num = 0 THEN begin ELSE (begin + num - 1) % noElements
       IN  msgs' = [msgs EXCEPT ![slot] = buf[s]]
    /\ UNCHANGED <<begin, num, sem, mutex, buf>>

(* The slot the message goes to: behind the last one, or in front of the   *)
(* first one, which moves begin.                                           *)
SendStore(s) ==
    /\ At(s, "sTest", "sCount")
    /\ num < noElements
    /\ LET front == IF begin > 0 THEN begin - 1 ELSE noElements - 1
       IN  IF msgMode = "FIFO"
             THEN /\ msgs' = [msgs EXCEPT ![(begin + num) % noElements] = buf[s]]
                  /\ UNCHANGED begin
             ELSE /\ msgs' = [msgs EXCEPT ![front] = buf[s]]
                  /\ begin' = front
    /\ UNCHANGED <<num, sem, mutex, buf>>

SendCount(s) ==
    /\ At(s, "sCount", "sUnlock")
    /\ num' = num + 1
    /\ UNCHANGED <<begin, msgs, sem, mutex, buf>>

SendUnlock(s) ==
    /\ At(s, "sUnlock", "sPost")
    /\ Unlock
    /\ UNCHANGED <<begin, num, msgs, sem, buf>>

(* Mutant: the semaphore is not posted.                                  *)
SendPost_Lost(s) ==
    /\ At(s, "sPost", "idle")
    /\ buf' = [buf EXCEPT ![s] = NoMsg]
    /\ UNCHANGED <<begin, num, msgs, sem, mutex>>

SendPost(s) ==
    /\ At(s, "sPost", "idle")
    /\ sem' = sem + 1
    /\ buf' = [buf EXCEPT ![s] = NoMsg]
    /\ UNCHANGED <<begin, num, msgs, mutex>>

SendReject(s) ==
    /\ At(s, "sFull", "idle")
    /\ Unlock
    /\ buf' = [buf EXCEPT ![s] = NoMsg]
    /\ UNCHANGED <<begin, num, msgs, sem>>

----------------------------------------------------------------------------
(* ENNOS_ReceiveMessage *)

RecvCall(r) ==
    /\ At(r, "idle", "rWait")
    /\ UNCHANGED <<begin, num, msgs, sem, mutex, buf>>

(* sem_trywait and sem_timedwait fail on a zero semaphore; so does a       *)
(* sem_wait that a signal interrupts.                                      *)
RecvFail(r) ==
    /\ At(r, "rWait", "idle")
    /\ sem = 0
    /\ UNCHANGED <<begin, num, msgs, sem, mutex, buf>>

RecvWait(r) ==
    /\ At(r, "rWait", "rLock")
    /\ sem > 0
    /\ sem' = sem - 1
    /\ UNCHANGED <<begin, num, msgs, mutex, buf>>

RecvLock(r) ==
    /\ At(r, "rLock", "rCopy")
    /\ Lock(r)
    /\ UNCHANGED <<begin, num, msgs, sem, buf>>

RecvCopy(r) ==
    /\ At(r, "rCopy", "rAdvance")
    /\ buf' = [buf EXCEPT ![r] = msgs[begin]]
    /\ UNCHANGED <<begin, num, msgs, sem, mutex>>

(* num is unsigned in the code: a decrement at 0 would wrap to 2^32 - 1.   *)
(* TypeOK says that it never happens.                                      *)
RecvAdvance(r) ==
    /\ At(r, "rAdvance", "rUnlock")
    /\ begin' = (begin + 1) % noElements
    /\ num' = num - 1
    /\ UNCHANGED <<msgs, sem, mutex, buf>>

RecvUnlock(r) ==
    /\ At(r, "rUnlock", "idle")
    /\ Unlock
    /\ buf' = [buf EXCEPT ![r] = NoMsg]
    /\ UNCHANGED <<begin, num, msgs, sem>>

----------------------------------------------------------------------------
(* ENNOS_EmptyMessage: begin stays, so each round discards the back slot.  *)

EmptyCall(e) ==
    /\ At(e, "idle", "eTry")
    /\ UNCHANGED <<begin, num, msgs, sem, mutex, buf>>

EmptyDone(e) ==
    /\ At(e, "eTry", "idle")
    /\ sem = 0
    /\ UNCHANGED <<begin, num, msgs, sem, mutex, buf>>

EmptyTry(e) ==
    /\ At(e, "eTry", "eLock")
    /\ sem > 0
    /\ sem' = sem - 1
    /\ UNCHANGED <<begin, num, msgs, mutex, buf>>

EmptyLock(e) ==
    /\ At(e, "eLock", "eCount")
    /\ Lock(e)
    /\ UNCHANGED <<begin, num, msgs, sem, buf>>

EmptyCount(e) ==
    /\ At(e, "eCount", "eUnlock")
    /\ num' = num - 1
    /\ UNCHANGED <<begin, msgs, sem, mutex, buf>>

EmptyUnlock(e) ==
    /\ At(e, "eUnlock", "eTry")
    /\ Unlock
    /\ UNCHANGED <<begin, num, msgs, sem, buf>>

----------------------------------------------------------------------------

Send(s) ==
    \/ SendCall(s) \/ SendLock(s) \/ SendFull(s) \/ SendStore(s)
    \/ SendCount(s) \/ SendUnlock(s) \/ SendPost(s) \/ SendReject(s)

Receive(r) ==
    \/ RecvCall(r) \/ RecvFail(r) \/ RecvWait(r) \/ RecvLock(r)
    \/ RecvCopy(r) \/ RecvAdvance(r) \/ RecvUnlock(r)

Empty(e) ==
    \/ EmptyCall(e) \/ EmptyDone(e) \/ EmptyTry(e) \/ EmptyLock(e)
    \/ EmptyCount(e) \/ EmptyUnlock(e)

Next ==
    \/ \E s \in Senders : Send(s)
    \/ \E r \in Receivers : Receive(r)
    \/ \E e \in Emptiers : Empty(e)

Spec == Init /\ [][Next]_vars

(* A thread inside a call is scheduled until it returns.  Nothing makes a  *)
(* thread call ENNOS_SendMessage or ENNOS_EmptyMessage; the receiving task *)
(* calls ENNOS_ReceiveMessage in an endless loop.  The mutex is not fair   *)
(* by itself: strong fairness on its acquisition, and on the semaphore,    *)
(* says that a waiting thread is not passed over for ever.                 *)
SendStep(s) ==
    SendFull(s) \/ SendStore(s) \/ SendCount(s)
        \/ SendUnlock(s) \/ SendPost(s) \/ SendReject(s)

RecvStep(r) == RecvCall(r) \/ RecvCopy(r) \/ RecvAdvance(r) \/ RecvUnlock(r)

EmptyStep(e) == EmptyDone(e) \/ EmptyTry(e) \/ EmptyCount(e) \/ EmptyUnlock(e)

Fairness ==
    /\ \A s \in Senders : WF_vars(SendStep(s)) /\ SF_vars(SendLock(s))
    /\ \A r \in Receivers : /\ WF_vars(RecvStep(r))
                            /\ SF_vars(RecvWait(r))
                            /\ SF_vars(RecvLock(r))
    /\ \A e \in Emptiers : WF_vars(EmptyStep(e)) /\ SF_vars(EmptyLock(e))

FairSpec == Spec /\ Fairness

----------------------------------------------------------------------------
(* Properties *)

(* Every variable stays in its range; in particular the unsigned num never *)
(* wraps below zero and never counts more messages than there are slots    *)
(* (ennOS.c:990, 1019, 1039, 1070).                                        *)
TypeOK ==
    /\ begin \in Slots
    /\ num \in 0 .. noElements
    /\ msgs \in [Slots -> Msg \cup {NoMsg}]
    /\ sem \in Nat
    /\ mutex \in Threads \cup {NoThread}
    /\ pc \in [Threads -> SendPc \cup RecvPc \cup EmptyPc]
    /\ \A s \in Senders : pc[s] \in SendPc
    /\ \A r \in Receivers : pc[r] \in RecvPc
    /\ \A e \in Emptiers : pc[e] \in EmptyPc
    /\ buf \in [Threads -> Msg \cup {NoMsg}]

(* The threads between pthread_mutex_lock and pthread_mutex_unlock.        *)
SectionPc == {"sTest", "sCount", "sUnlock", "sFull",
              "rCopy", "rAdvance", "rUnlock", "eCount", "eUnlock"}
InSection(t) == pc[t] \in SectionPc

(* The ring is touched by one thread at a time: whoever is inside a locked *)
(* section is the owner of the mutex.                                      *)
MutualExclusion == \A t \in Threads : InSection(t) <=> mutex = t

(* Senders that have counted a message and not yet posted its token, and   *)
(* takers that hold a token and have not yet taken its message.            *)
OwingPc   == {"sUnlock", "sPost"}
HoldingPc == {"rLock", "rCopy", "rAdvance", "eLock", "eCount"}

Owing   == {t \in Threads : pc[t] \in OwingPc}
Holding == {t \in Threads : pc[t] \in HoldingPc}

(* The semaphore and num agree up to the calls in progress, although each  *)
(* is changed outside the other's protection: a token never exists without *)
(* its message, so whoever gets past the semaphore finds a message.        *)
TokenBalance == num = sem + Cardinality(Owing) + Cardinality(Holding)

(* A sender that has found a free slot still has it when it counts its     *)
(* message: the test at ennOS.c:1019 is not stale at ennOS.c:1039.         *)
RoomKept == \A s \in Senders : pc[s] = "sCount" => num < noElements

(* The inductive invariant: none of its parts is inductive alone.          *)
IInv == TypeOK /\ MutualExclusion /\ TokenBalance /\ RoomKept

(* The slots that hold a message.  A PRIORITY send moves begin before it   *)
(* counts its message.                                                     *)
Storing == msgMode = "PRIORITY" /\ \E s \in Senders : pc[s] = "sCount"
First   == IF Storing THEN (begin + 1) % noElements ELSE begin
Live    == {(First + i) % noElements : i \in 0 .. num - 1}

(* The ring is the abstract queue: its messages, oldest first, are what    *)
(* the callers sent and nobody has taken; a receiver delivers the front    *)
(* one, never an overwritten or an empty slot.                             *)
Queue ==
    INSTANCE AbstractQueue WITH
        q   <- [i \in 1 .. num |-> msgs[(First + i - 1) % noElements]],
        got <- [r \in Receivers |->
                   IF pc[r] = "rUnlock" THEN buf[r] ELSE NoMsg]

ImplementsQueue == Queue!AbsSpec

(* In FIFO mode no message stays for ever: its slot is eventually taken,   *)
(* even if senders keep the queue full (ModBus_TCP.c:1689 is the loop that *)
(* receives), unless threads go on emptying the queue, which discards the  *)
(* newest messages and so can keep the token from every receiver.          *)
EveryMessageTaken ==
    <>[](\A e \in Emptiers : pc[e] = "idle")
        => \A i \in Slots : i \in Live ~> i \notin Live
=============================================================================
