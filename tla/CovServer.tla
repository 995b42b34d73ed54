------------------------------- MODULE CovServer -------------------------------
(***************************************************************************)
(* The change-of-value service of the BACnet/IP server task                *)
(* (bacnet/handler/h_cov.c in the loop of bacnet/server/server.c): the     *)
(* table of subscriptions, the table of their addresses, the notifications *)
(* and their transactions (bacnet/src/tsm.c), which the task shares with   *)
(* the BACnet client task without a lock, and the communication control    *)
(* (bacnet/src/dcc.c).                                                     *)
(*                                                                         *)
(* A round of the loop receives a packet, if there is one, lets the timers *)
(* run, if a second has passed, and makes one step of handler_cov_task.    *)
(* All clients use the same process identifier.                            *)
(***************************************************************************)
EXTENDS Naturals, FiniteSets, FiniteSetsExt

CONSTANTS
  Clients, Objects, Values,
  Nobody, Unknown,      \* no address; a value a client was not told
  MaxSubs,              \* MAX_COV_SUBCRIPTIONS
  MaxAddresses,         \* MAX_COV_ADDRESSES
  MaxTsm,               \* MAX_TSM_TRANSACTIONS, and the greatest invoke id
  Timeout, Retries,     \* apdu_timeout in milliseconds, apdu_retries
  Lifetimes, Durations, \* what clients ask for, in seconds; 0: without an end
  Elapsed,              \* the seconds between two looks at the clock
  Budgets               \* bounds: how many packets, lost notifications and
                        \* requests of the client task a behaviour has

Entries == 1 .. MaxSubs
Places == 1 .. MaxAddresses
Slots == 1 .. MaxTsm
DccStates == {"enable", "disable", "disable initiation"}

ASSUME CovAssumption ==
  /\ Nobody \notin Clients /\ Unknown \notin Values /\ Objects # {}
  /\ {MaxSubs, MaxAddresses, MaxTsm, Timeout} \subseteq Nat \ {0}
  /\ Lifetimes \cup Durations \cup {Retries} \subseteq Nat
  /\ Budgets \subseteq [packets : Nat, losses : Nat, polls : Nat]
  /\ Elapsed \subseteq Nat \ {0}

VARIABLES
  subs,       \* COV_Subscriptions; who: whose subscription it is
  addresses,  \* COV_Addresses
  changed,    \* Change_Of_Value of each object
  value,      \* Present_Value and Out_Of_Service
  loop,       \* what the round of the server task has had so far
  task,       \* cov_task_state and index of handler_cov_task; the free place
              \* in TSM_List that was found
  tsm,        \* TSM_List
  nextId,     \* Current_Invoke_ID
  dcc,        \* DCC_Enable_Disable and DCC_Time_Duration_Seconds
  poll,       \* the client task and its transaction; the ids it left behind
  acks,       \* the invoke ids of acknowledgements on their way
  seen,       \* what each client was told
  excused,    \* the pairs whose last notification was lost
  missed,     \* the pairs whose mark was cleared before it was seen
  raced,      \* have both tasks looked for an id at the same time?
  budget      \* what is left of the bounds

tables == <<subs, addresses>>
objects == <<changed, value>>
tids == <<tsm, nextId>>
clients == <<acks, seen, excused, missed>>
others == <<poll, raced>>
vars == <<tables, objects, loop, task, tids, dcc, clients, others, budget>>

Unused == [valid |-> FALSE, confirmed |-> FALSE, send |-> FALSE, dest |-> 0, invoke |-> 0,
           lifetime |-> 0, object |-> CHOOSE o \in Objects : TRUE, who |-> Nobody]
FreeSlot == [id |-> 0, state |-> "idle", timer |-> 0, retries |-> 0]

Init ==
  /\ subs = [s \in Entries |-> Unused]
  /\ addresses = [a \in Places |-> Nobody]
  /\ changed = [o \in Objects |-> FALSE]
  /\ value \in [Objects -> Values]
  /\ loop = "nothing"
  /\ task = [state |-> "idle", index |-> 1, spot |-> 0]
  /\ tsm = [t \in Slots |-> FreeSlot]
  /\ nextId = 1
  /\ dcc = [state |-> "enable", seconds |-> 0]
  /\ poll = [pc |-> "idle", spot |-> 0, id |-> 0, left |-> {}]
  /\ acks = {} /\ seen = [p \in Clients \X Objects |-> Unknown] /\ excused = {} /\ missed = {}
  /\ raced = FALSE
  /\ budget \in Budgets

-----------------------------------------------------------------------------
(* The transactions.                                                       *)

Used == {tsm[t].id : t \in Slots} \ {0}
Available == \E t \in Slots : tsm[t].id = 0
SlotOf(id) == Min({t \in Slots : tsm[t].id = id})

\* tsm_free_invoke_id, for each of some ids.
Freed(ids) == [t \in Slots |-> IF tsm[t].id \in ids \ {0} /\ t = SlotOf(tsm[t].id)
                               THEN FreeSlot ELSE tsm[t]]

After(id) == IF id = MaxTsm THEN 1 ELSE id + 1

\* tsm_next_free_invokeID, first half: the next id that is not in use and the
\* first free place ...
FreeId == LET ahead == {id \in Slots \ Used : id >= nextId}
          IN  IF ahead # {} THEN Min(ahead) ELSE Min(Slots \ Used)
FreeSpot == SlotOf(0)

\* ... second half: the id goes to the place, and the request is kept there.
Reserved(spot) == [tsm EXCEPT ![spot] =
  [id |-> nextId, state |-> "await", timer |-> Timeout, retries |-> 0]]

\* tsm_timer_milliseconds, whose parameter has sixteen bits.
Milliseconds(seconds) == (1000 * seconds) % 65536
Timed(slots, seconds) == [t \in Slots |->
  LET slot == slots[t]
      left == IF slot.timer > Milliseconds(seconds) THEN slot.timer - Milliseconds(seconds) ELSE 0
  IN  IF slot.state # "await" THEN slot
      ELSE IF left > 0 THEN [slot EXCEPT !.timer = left]
      ELSE IF slot.retries < Retries THEN [slot EXCEPT !.timer = Timeout, !.retries = @ + 1]
      ELSE [slot EXCEPT !.state = "idle", !.timer = 0]]

-----------------------------------------------------------------------------
(* The subscriptions.                                                      *)

\* cov_address_remove_unused.
Kept(table) == [a \in Places |->
  IF \E s \in Entries : table[s].valid /\ table[s].dest = a THEN addresses[a] ELSE Nobody]

\* cov_address_add: 0 stands for -1.
AddressOf(c) == LET here == {a \in Places : addresses[a] = c}
                    free == {a \in Places : addresses[a] = Nobody}
                IN  IF here # {} THEN Min(here) ELSE IF free # {} THEN Min(free) ELSE 0

\* Mutant: the address is not compared.
Matching_Anybody(c, o) == {s \in Entries : subs[s].valid /\ subs[s].object = o}

\* An entry whose address found no room matches everyone.
Matching(c, o) == {s \in Entries : /\ subs[s].valid /\ subs[s].object = o
                                   /\ subs[s].dest = 0 \/ addresses[subs[s].dest] = c}
Vacant == {s \in Entries : ~subs[s].valid}

-----------------------------------------------------------------------------
(* A packet.                                                               *)

Spend(what) == budget[what] > 0 /\ budget' = [budget EXCEPT ![what] = @ - 1]

Receives == loop = "nothing" /\ loop' = "packet"
Heard == Receives /\ Spend("packets") /\ dcc.state # "disable"

\* cov_list_subscribe: the entry that matches, or a vacant one.
Subscribe(c, o, confirmed, lifetime) ==
  /\ Heard
  /\ LET found == Matching(c, o)
         places == IF found # {} THEN found ELSE Vacant
         s    == Min(places)
         dest == AddressOf(c)
     IN  IF places = {} THEN UNCHANGED <<tables, tsm>>
         ELSE /\ subs' = [subs EXCEPT ![s] =
                   [valid |-> TRUE, confirmed |-> confirmed, send |-> TRUE, dest |-> dest,
                    invoke |-> 0, lifetime |-> lifetime, object |-> o, who |-> c]]
              /\ addresses' = IF dest = 0 THEN addresses ELSE [addresses EXCEPT ![dest] = c]
              /\ tsm' = Freed({subs[s].invoke})
  /\ UNCHANGED <<objects, task, nextId, dcc, clients, others>>

Cancel(c, o) ==
  /\ Heard
  /\ IF Matching(c, o) = {} THEN UNCHANGED <<tables, tsm>>
     ELSE LET s == Min(Matching(c, o))
          IN  /\ subs' = [subs EXCEPT ![s] = Unused]
              /\ addresses' = Kept(subs')
              /\ tsm' = Freed({subs[s].invoke})
  /\ UNCHANGED <<objects, task, nextId, dcc, clients, others>>

\* Mutant: a value is compared with zero instead of the one before.
Write_Zero(o, v) ==
  /\ Heard
  /\ value' = [value EXCEPT ![o] = v]
  /\ changed' = [changed EXCEPT ![o] = @ \/ v # 0]
  /\ UNCHANGED <<tables, task, tids, dcc, clients, others>>

\* Binary_Input_Write_Property.
Write(o, v) ==
  /\ Heard
  /\ value' = [value EXCEPT ![o] = v]
  /\ changed' = [changed EXCEPT ![o] = @ \/ v # value[o]]
  /\ UNCHANGED <<tables, task, tids, dcc, clients, others>>

\* handler_device_communication_control is heard in every state.
Control(state, seconds) ==
  /\ Receives /\ Spend("packets")
  /\ dcc' = [state |-> state, seconds |-> IF state = "enable" THEN 0 ELSE seconds]
  /\ UNCHANGED <<tables, objects, task, tids, clients, others>>

\* apdu_handler: so are acknowledgements; nobody asks whose they are.
Acknowledged(id) ==
  /\ Receives
  /\ id \in acks /\ acks' = acks \ {id}
  /\ tsm' = Freed({id})
  /\ UNCHANGED <<tables, objects, task, nextId, dcc, seen, excused, missed, others, budget>>

Packet ==
  \/ \E c \in Clients, o \in Objects : \/ Cancel(c, o)
                                       \/ \E confirmed \in BOOLEAN, lifetime \in Lifetimes :
                                            Subscribe(c, o, confirmed, lifetime)
  \/ \E o \in Objects, v \in Values : Write(o, v)
  \/ \E state \in DccStates, seconds \in Durations : Control(state, seconds)
  \/ \E id \in acks : Acknowledged(id)

-----------------------------------------------------------------------------
(* The timers.                                                             *)

Ticks == loop \in {"nothing", "packet"} /\ loop' = "timers"

Expired(seconds) == {s \in Entries : subs[s].valid /\ subs[s].lifetime \in 1 .. seconds}

\* Mutant: a subscription that ends keeps its transaction.
SecondsPass_Held(seconds) ==
  /\ Ticks
  /\ dcc' = IF dcc.seconds > seconds THEN [dcc EXCEPT !.seconds = @ - seconds]
            ELSE IF dcc.seconds > 0 THEN [state |-> "enable", seconds |-> 0] ELSE dcc
  /\ subs' = [s \in Entries |-> IF s \in Expired(seconds) THEN Unused
                ELSE [subs[s] EXCEPT !.lifetime = IF @ = 0 THEN 0 ELSE @ - seconds]]
  /\ addresses' = IF Expired(seconds) = {} THEN addresses ELSE Kept(subs')
  /\ tsm' = Timed(tsm, seconds)
  /\ UNCHANGED <<objects, task, nextId, clients, others, budget>>

\* dcc_timer_seconds, handler_cov_timer_seconds, tsm_timer_milliseconds.
SecondsPass(seconds) ==
  /\ Ticks
  /\ dcc' = IF dcc.seconds > seconds THEN [dcc EXCEPT !.seconds = @ - seconds]
            ELSE IF dcc.seconds > 0 THEN [state |-> "enable", seconds |-> 0] ELSE dcc
  /\ subs' = [s \in Entries |-> IF s \in Expired(seconds) THEN Unused
                ELSE [subs[s] EXCEPT !.lifetime = IF @ = 0 THEN 0 ELSE @ - seconds]]
  /\ addresses' = IF Expired(seconds) = {} THEN addresses ELSE Kept(subs')
  /\ tsm' = Timed(Freed({subs[s].invoke : s \in Expired(seconds)}), seconds)
  /\ UNCHANGED <<objects, task, nextId, clients, others, budget>>

-----------------------------------------------------------------------------
(* handler_cov_task: one entry at each call.                               *)

At(state) == loop # "reserve" /\ task.state = state
Entry == subs[task.index]
Onward(state) == /\ loop' = "nothing"
                 /\ task' = IF task.index = MaxSubs THEN [state |-> state, index |-> 1, spot |-> 0]
                            ELSE [task EXCEPT !.index = @ + 1, !.spot = 0]

Idle ==
  /\ At("idle")
  /\ task' = [task EXCEPT !.state = "mark"] /\ loop' = "nothing"
  /\ UNCHANGED <<tables, objects, tids, dcc, clients, others, budget>>

Mark ==
  /\ At("mark")
  /\ subs' = IF Entry.valid /\ changed[Entry.object]
             THEN [subs EXCEPT ![task.index].send = TRUE] ELSE subs
  /\ Onward("clear")
  /\ UNCHANGED <<addresses, objects, tids, dcc, clients, others, budget>>

\* The flag goes although an entry that was looked at before the change has
\* not seen it.
Overlooked(o) == {<<subs[s].who, o>> : s \in {r \in Entries :
  subs[r].valid /\ subs[r].object = o /\ ~subs[r].send}}

Clear ==
  /\ At("clear")
  /\ LET clears == Entry.valid /\ Entry.send /\ changed[Entry.object]
     IN  /\ changed' = IF clears THEN [changed EXCEPT ![Entry.object] = FALSE] ELSE changed
         /\ missed' = IF clears THEN missed \cup Overlooked(Entry.object) ELSE missed
  /\ Onward("free")
  /\ UNCHANGED <<tables, value, tids, dcc, acks, seen, excused, others, budget>>

Free ==
  /\ At("free")
  /\ LET id   == Entry.invoke
         done == id # 0 /\ id \notin Used
         failed == id \in Used /\ tsm[SlotOf(id)].state = "idle"
     IN  /\ subs' = IF done \/ failed THEN [subs EXCEPT ![task.index].invoke = 0] ELSE subs
         /\ tsm' = IF failed THEN Freed({id}) ELSE tsm
  /\ Onward("send")
  /\ UNCHANGED <<addresses, objects, nextId, dcc, clients, others, budget>>

Sends == /\ At("send")
         /\ Entry.valid /\ Entry.send
         /\ Entry.confirmed => Entry.invoke = 0 /\ Available
         /\ dcc.state = "enable" /\ Entry.dest # 0

NothingToSend ==
  /\ At("send") /\ ~Sends
  /\ Onward("idle")
  /\ UNCHANGED <<tables, objects, tids, dcc, clients, others, budget>>

Peer == <<addresses[Entry.dest], Entry.object>>

\* What becomes of a notification: it arrives, it is lost, or it cannot be
\* sent, for want of a network.
Outcome(entry) ==
  \/ /\ seen' = [seen EXCEPT ![Peer] = value[Entry.object]]
     /\ excused' = excused \ {Peer} /\ missed' = missed \ {Peer}
     /\ subs' = [subs EXCEPT ![task.index] = [entry EXCEPT !.send = FALSE]]
     /\ UNCHANGED budget
  \/ /\ Spend("losses")
     /\ UNCHANGED <<seen, missed>>
     /\ \/ /\ excused' = excused \cup {Peer}
           /\ subs' = [subs EXCEPT ![task.index] = [entry EXCEPT !.send = FALSE]]
        \/ /\ subs' = [subs EXCEPT ![task.index] = entry]
           /\ UNCHANGED excused

SendUnconfirmed ==
  /\ Sends /\ ~Entry.confirmed
  /\ Outcome(Entry)
  /\ Onward("idle")
  /\ UNCHANGED <<addresses, objects, tids, dcc, acks, others>>

FindId ==
  /\ Sends /\ Entry.confirmed
  /\ nextId' = FreeId
  /\ task' = [task EXCEPT !.spot = FreeSpot] /\ loop' = "reserve"
  /\ raced' = (raced \/ poll.pc = "found")
  /\ UNCHANGED <<tables, objects, tsm, dcc, clients, poll, budget>>

\* Who gets a confirmed notification acknowledges it, or the answer is lost.
SendConfirmed ==
  /\ loop = "reserve"
  /\ tsm' = Reserved(task.spot) /\ nextId' = After(nextId)
  /\ Outcome([Entry EXCEPT !.invoke = nextId])
  /\ acks' \in {acks, IF seen' = seen THEN acks ELSE acks \cup {nextId}}
  /\ Onward("idle")
  /\ UNCHANGED <<addresses, objects, dcc, others>>

CovTask == Idle \/ Mark \/ Clear \/ Free \/ NothingToSend \/ SendUnconfirmed \/ FindId
           \/ SendConfirmed

Server == Packet \/ (\E e \in Elapsed : SecondsPass(e)) \/ CovTask

-----------------------------------------------------------------------------
(* The BACnet client task, which asks the devices on the MS/TP line.       *)

PollFinds ==
  /\ poll.pc = "idle" /\ Spend("polls")
  /\ Available /\ dcc.state = "enable"
  /\ nextId' = FreeId
  /\ poll' = [poll EXCEPT !.pc = "found", !.spot = FreeSpot]
  /\ raced' = (raced \/ loop = "reserve")
  /\ UNCHANGED <<tables, objects, loop, task, tsm, dcc, clients>>

PollReserves ==
  /\ poll.pc = "found"
  /\ tsm' = Reserved(poll.spot) /\ nextId' = After(nextId)
  /\ poll' = [poll EXCEPT !.pc = "waiting", !.spot = 0, !.id = nextId]
  /\ UNCHANGED <<tables, objects, loop, task, dcc, clients, raced, budget>>

PollAnswered ==
  /\ poll.pc = "waiting"
  /\ tsm' = Freed({poll.id})
  /\ poll' = [poll EXCEPT !.pc = "idle", !.id = 0]
  /\ UNCHANGED <<tables, objects, loop, task, nextId, dcc, clients, raced, budget>>

\* Without an answer the task goes on, and never frees the id.
PollGivesUp ==
  /\ poll.pc = "waiting"
  /\ poll' = [poll EXCEPT !.pc = "idle", !.id = 0, !.left = @ \cup {poll.id}]
  /\ UNCHANGED <<tables, objects, loop, task, tids, dcc, clients, raced, budget>>

Poll == PollFinds \/ PollReserves \/ PollAnswered \/ PollGivesUp

Next == Server \/ Poll

Spec == Init /\ [][Next]_vars

-----------------------------------------------------------------------------
Subscription == [valid : BOOLEAN, confirmed : BOOLEAN, send : BOOLEAN, dest : Places \cup {0},
                 invoke : Slots \cup {0}, lifetime : Nat, object : Objects,
                 who : Clients \cup {Nobody}]
Transaction == [id : Slots \cup {0}, state : {"idle", "await"}, timer : 0 .. Timeout,
                retries : 0 .. Retries]

TypeOK ==
  /\ subs \in [Entries -> Subscription]
  /\ addresses \in [Places -> Clients \cup {Nobody}]
  /\ changed \in [Objects -> BOOLEAN] /\ value \in [Objects -> Values]
  /\ loop \in {"nothing", "packet", "timers", "reserve"}
  /\ task \in [state : {"idle", "mark", "clear", "free", "send"}, index : Entries,
               spot : Slots \cup {0}]
  /\ tsm \in [Slots -> Transaction]
  /\ nextId \in Slots
  /\ dcc \in [state : DccStates, seconds : Nat]
  /\ poll \in [pc : {"idle", "found", "waiting"}, spot : Slots \cup {0}, id : Slots \cup {0},
               left : SUBSET Slots]
  /\ acks \subseteq Slots
  /\ seen \in [Clients \X Objects -> Values \cup {Unknown}]
  /\ excused \cup missed \subseteq Clients \X Objects
  /\ raced \in BOOLEAN
  /\ budget \in [packets : Nat, losses : Nat, polls : Nat]

(* A client with a subscription has been told the value the object has, or  *)
(* a step of the task that is still to come will tell it: nothing is        *)
(* forgotten between Binary_Input_Write_Property, the marking, the clearing *)
(* and the sending.  The exceptions are a notification that was lost and a  *)
(* change that the clearing overlooked (h_cov.c:665).                       *)
Due(s) == \/ seen[<<subs[s].who, subs[s].object>>] = value[subs[s].object]
          \/ changed[subs[s].object] \/ subs[s].send
NothingForgotten ==
  \A s \in Entries : subs[s].valid =>
    Due(s) \/ <<subs[s].who, subs[s].object>> \in excused \cup missed

(* COV_Addresses and COV_Subscriptions agree: a subscription has the        *)
(* address of who asked for it, each address is in one place and in use,    *)
(* and one is missing only when there was no room for it.                   *)
AddressesTrue ==
  /\ \A s \in Entries : subs[s].valid /\ subs[s].dest # 0 => addresses[subs[s].dest] = subs[s].who
  /\ \A a \in Places : addresses[a] # Nobody =>
       /\ \E s \in Entries : subs[s].valid /\ subs[s].dest = a
       /\ \A b \in Places : addresses[b] = addresses[a] => b = a

TablesSound == TypeOK /\ AddressesTrue

(* No transaction of a subscription outlives it: an invoke id in TSM_List   *)
(* belongs to a subscription that waits for its answer, to the request of   *)
(* the client task, or is one which that task gave up and never frees; and  *)
(* it is there once, unless both tasks have looked for one at a time.       *)
IdsAccounted == ~raced =>
  /\ \A id \in Used : \/ \E s \in Entries : subs[s].valid /\ subs[s].invoke = id
                      \/ id \in {poll.id} \cup poll.left
  /\ \A t, u \in Slots : tsm[t].id = tsm[u].id => t = u \/ tsm[t].id = 0

(* What the service promises: the entries that are valid are the pairs that *)
(* subscribed, for as long as they asked.                                   *)
PairOf(s) == <<addresses[subs[s].dest], subs[s].object>>
Live == {s \in Entries : subs[s].valid}
Promise == INSTANCE AbstractCov WITH
  subscribed <- {PairOf(s) : s \in Live},
  left <- [p \in Clients \X Objects |->
    IF \E s \in Live : PairOf(s) = p THEN subs[CHOOSE s \in Live : PairOf(s) = p].lifetime ELSE 0]
ImplementsCov == Promise!Spec
=============================================================================
