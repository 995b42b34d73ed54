---------------------------- MODULE CovServerProofs ----------------------------
(***************************************************************************)
(* Proofs about CovServer: for any clients, objects and sizes of the       *)
(* tables, no change is forgotten, the table of addresses agrees with that *)
(* of the subscriptions, and every invoke id in use has an owner; and the  *)
(* service implements AbstractCov.                                         *)
(***************************************************************************)
EXTENDS CovServer, FiniteSetTheorems, WellFoundedInduction, TLAPS

(* A nonempty set of numbers has a least one.                              *)
LEMMA LeastNumber ==
  ASSUME NEW S, S \subseteq Nat, S # {}
  PROVE  \E k \in S : \A j \in S : k <= j
<1> DEFINE R == OpToRel(<, Nat)
<1>1. IsWellFoundedOn(R, Nat)
  BY NatLessThanWellFounded
<1>2. \A x, y \in Nat : <<x, y>> \in R <=> x < y
  BY DEF OpToRel
<1> HIDE DEF R
<1>3. PICK k \in S : \A j \in S : <<j, k>> \notin R
  BY <1>1, WFMin, Zenon
<1>4. ASSUME NEW j \in S
      PROVE  k <= j
  <2>1. ~(j < k)
    BY <1>2, <1>3
  <2> QED
    BY <2>1
<1> QED
  BY <1>4

(* An entry belongs to a client or holds nothing.                          *)
EntriesSound ==
  \A s \in Entries : IF subs[s].valid THEN subs[s].who \in Clients ELSE subs[s] = Unused

(* Between finding an id and sending the notification the entry stays.     *)
EntryHeld ==
  loop = "reserve" => /\ Entry.valid /\ Entry.send /\ Entry.dest # 0
                      /\ Entry.invoke = 0

(* What a task has found for a request is free until the request takes it, *)
(* if the other task does not look at the same time.                       *)
StaysFree(spot) == spot \in Slots /\ tsm[spot].id = 0 /\ nextId \notin Used

FoundIsFree ==
  /\ poll.id = 0 <=> poll.pc # "waiting"
  /\ ~raced => /\ loop = "reserve" => StaysFree(task.spot) /\ poll.pc # "found"
               /\ poll.pc = "found" => StaysFree(poll.spot)

(* The inductive invariant.                                                *)
IInv == /\ TypeOK /\ EntriesSound /\ EntryHeld /\ FoundIsFree
        /\ AddressesTrue /\ NothingForgotten /\ IdsAccounted

-----------------------------------------------------------------------------
(* The constants, the tables and their places.                             *)

LEMMA Numbers ==
  /\ MaxSubs \in Nat /\ MaxAddresses \in Nat /\ MaxTsm \in Nat /\ Timeout \in Nat
  /\ Retries \in Nat /\ Lifetimes \subseteq Nat /\ Durations \subseteq Nat
  /\ \A e \in Elapsed : e \in Nat /\ e > 0
  /\ Entries \subseteq Nat \ {0} /\ Places \subseteq Nat \ {0} /\ Slots \subseteq Nat \ {0}
  /\ 1 \in Entries /\ 1 \in Slots
  /\ IsFiniteSet(Slots) /\ Cardinality(Slots) = MaxTsm
<1>1. /\ MaxSubs \in Nat \ {0} /\ MaxAddresses \in Nat \ {0} /\ MaxTsm \in Nat \ {0}
      /\ Timeout \in Nat \ {0}
  BY CovAssumption
<1>2. Retries \in Nat /\ Lifetimes \subseteq Nat /\ Durations \subseteq Nat
  BY CovAssumption
<1>3. \A e \in Elapsed : e \in Nat /\ e > 0
  BY CovAssumption
<1>4. IsFiniteSet(Slots) /\ Cardinality(Slots) = MaxTsm
  BY <1>1, FS_Interval DEF Slots
<1> QED
  BY <1>1, <1>2, <1>3, <1>4 DEF Entries, Places, Slots

(* The least of some places is one of them.                                *)
LEMMA MinIn ==
  ASSUME NEW n \in Nat, NEW S, S \subseteq 1 .. n, S # {}
  PROVE  Min(S) \in S
<1>1. S \subseteq Nat
  OBVIOUS
<1>2. \E k \in S : \A j \in S : k <= j
  BY <1>1, LeastNumber
<1> QED
  BY <1>2 DEF Min

LEMMA UnusedType ==
  /\ Unused \in Subscription
  /\ ~Unused.valid /\ Unused.dest = 0 /\ Unused.lifetime = 0 /\ Unused.invoke = 0
BY CovAssumption DEF Unused, Subscription

LEMMA FreeSlotType == FreeSlot \in Transaction /\ FreeSlot.id = 0
BY Numbers DEF FreeSlot, Transaction

LEMMA NextIdType ==
  ASSUME NEW id \in Slots
  PROVE  After(id) \in Slots
BY Numbers DEF After, Slots

(* If there is a free place, there is a free id: the ids in use are no     *)
(* more than the places that hold one.                                     *)
LEMMA IdLeft ==
  ASSUME TypeOK, Available
  PROVE  Slots \ Used # {}
<1> DEFINE U == {t \in Slots : tsm[t].id # 0}
           f == [t \in U |-> tsm[t].id]
<1>1. PICK t \in Slots : tsm[t].id = 0
  BY DEF Available
<1>2. /\ IsFiniteSet(Slots \ {t})
      /\ Cardinality(Slots \ {t}) = MaxTsm - 1
  BY Numbers, FS_RemoveElement
<1>3. U \subseteq Slots \ {t}
  BY <1>1
<1>4. IsFiniteSet(U) /\ Cardinality(U) <= MaxTsm - 1
  BY <1>2, <1>3, FS_Subset
<1>5. f \in Surjection(U, Used)
  <2>1. Used = {tsm[s].id : s \in U}
    BY DEF Used
  <2> QED
    BY <2>1 DEF Surjection
<1>6. Cardinality(Used) <= Cardinality(U)
  <2> HIDE DEF f, U
  <2> QED
    BY <1>4, <1>5, FS_Surjection
<1>7. IsFiniteSet(Used)
  <2> HIDE DEF f, U
  <2> QED
    BY <1>4, <1>5, FS_Surjection
<1>8. Used # Slots
  <2>1. Cardinality(U) \in Nat /\ Cardinality(Used) \in Nat
    BY <1>4, <1>7, FS_CardinalityType
  <2> QED
    BY <1>4, <1>6, <2>1, Numbers
<1> QED
  BY <1>8 DEF Used, TypeOK, Transaction

LEMMA FoundFree ==
  ASSUME TypeOK, Available
  PROVE  /\ FreeId \in Slots /\ FreeId \notin Used
         /\ FreeSpot \in Slots /\ tsm[FreeSpot].id = 0
<1>1. FreeId \in Slots \ Used
  <2> DEFINE ahead == {id \in Slots \ Used : id >= nextId}
  <2>1. Slots \ Used # {}
    BY IdLeft
  <2>2. ahead # {} => Min(ahead) \in ahead
    BY MinIn, Numbers DEF Slots
  <2>3. Min(Slots \ Used) \in Slots \ Used
    BY <2>1, MinIn, Numbers DEF Slots
  <2> QED
    BY <2>2, <2>3 DEF FreeId
<1>2. FreeSpot \in {t \in Slots : tsm[t].id = 0}
  BY MinIn, Numbers DEF FreeSpot, SlotOf, Slots, Available
<1> QED
  BY <1>1, <1>2

(* Freeing ids leaves transactions, and with every id in one place only    *)
(* exactly the places of those ids become free.                            *)
LEMMA FreedIds ==
  ASSUME TypeOK, NEW ids
  PROVE  /\ Freed(ids) \in [Slots -> Transaction]
         /\ IdsAccounted /\ ~raced =>
              \A t \in Slots : Freed(ids)[t].id = IF tsm[t].id \in ids THEN 0 ELSE tsm[t].id
<1>1. Freed(ids) \in [Slots -> Transaction]
  BY FreeSlotType DEF Freed, TypeOK
<1>2. ASSUME IdsAccounted, ~raced, NEW t \in Slots
      PROVE  Freed(ids)[t].id = IF tsm[t].id \in ids THEN 0 ELSE tsm[t].id
  <2>1. CASE tsm[t].id = 0
    BY <2>1, FreeSlotType DEF Freed
  <2>2. CASE tsm[t].id # 0
    <3>1. t \in {u \in Slots : tsm[u].id = tsm[t].id}
      OBVIOUS
    <3>2. SlotOf(tsm[t].id) \in {u \in Slots : tsm[u].id = tsm[t].id}
      BY <3>1, MinIn, Numbers DEF SlotOf, Slots
    <3>3. SlotOf(tsm[t].id) = t
      BY <3>2, <1>2, <2>2 DEF IdsAccounted
    <3> QED
      BY <2>2, <3>3, FreeSlotType DEF Freed
  <2> QED
    BY <2>1, <2>2
<1> QED
  BY <1>1, <1>2

LEMMA TimedIds ==
  ASSUME NEW slots \in [Slots -> Transaction], NEW e \in Elapsed
  PROVE  /\ Timed(slots, e) \in [Slots -> Transaction]
         /\ \A t \in Slots : Timed(slots, e)[t].id = slots[t].id
<1>1. Milliseconds(e) \in Nat
  BY Numbers DEF Milliseconds
<1>2. ASSUME NEW t \in Slots
      PROVE  /\ Timed(slots, e)[t] \in Transaction
             /\ Timed(slots, e)[t].id = slots[t].id
  <2> DEFINE left == IF slots[t].timer > Milliseconds(e) THEN slots[t].timer - Milliseconds(e)
                     ELSE 0
  <2>1. slots[t] \in Transaction
    OBVIOUS
  <2>2. left \in 0 .. Timeout
    BY <1>1, <2>1, Numbers DEF Transaction
  <2>3. Timed(slots, e)[t] =
          IF slots[t].state # "await" THEN slots[t]
          ELSE IF left > 0 THEN [slots[t] EXCEPT !.timer = left]
          ELSE IF slots[t].retries < Retries
                 THEN [slots[t] EXCEPT !.timer = Timeout, !.retries = @ + 1]
          ELSE [slots[t] EXCEPT !.state = "idle", !.timer = 0]
    BY DEF Timed
  <2> HIDE DEF left
  <2>4. slots[t].retries \in 0 .. Retries /\ slots[t].id \in Slots \cup {0}
    BY <2>1 DEF Transaction
  <2>5. [slots[t] EXCEPT !.timer = left] \in Transaction
    BY <2>1, <2>2 DEF Transaction
  <2>6. ASSUME slots[t].retries < Retries
        PROVE  [slots[t] EXCEPT !.timer = Timeout, !.retries = @ + 1] \in Transaction
    <3>1. slots[t].retries + 1 \in 0 .. Retries /\ Timeout \in 0 .. Timeout
      BY <2>4, <2>6, Numbers
    <3> QED
      BY <2>1, <3>1 DEF Transaction
  <2>7. [slots[t] EXCEPT !.state = "idle", !.timer = 0] \in Transaction
    <3>1. 0 \in 0 .. Timeout
      BY Numbers
    <3> QED
      BY <2>1, <3>1 DEF Transaction
  <2>8. Timed(slots, e)[t] \in Transaction
    BY <2>1, <2>3, <2>5, <2>6, <2>7
  <2>9. Timed(slots, e)[t].id = slots[t].id
    BY <2>1, <2>3 DEF Transaction
  <2> QED
    BY <2>8, <2>9
<1>3. Timed(slots, e) = [t \in Slots |-> Timed(slots, e)[t]]
  BY DEF Timed
<1> QED
  BY <1>2, <1>3

LEMMA ReservedIds ==
  ASSUME TypeOK, NEW spot
  PROVE  /\ Reserved(spot) \in [Slots -> Transaction]
         /\ \A t \in Slots : Reserved(spot)[t].id = IF t = spot THEN nextId ELSE tsm[t].id
<1>1. [id |-> nextId, state |-> "await", timer |-> Timeout, retries |-> 0] \in Transaction
  BY Numbers DEF TypeOK, Transaction
<1> QED
  BY <1>1 DEF Reserved, TypeOK

LEMMA SpendType ==
  ASSUME TypeOK, NEW what \in {"packets", "losses", "polls"}, Spend(what)
  PROVE  budget' \in [packets : Nat, losses : Nat, polls : Nat]
BY DEF TypeOK, Spend

-----------------------------------------------------------------------------
(* What steps of several kinds keep.                                       *)

(* Entries that keep their clients and places keep the table of addresses  *)
(* true.                                                                   *)
LEMMA AddressesKept ==
  ASSUME AddressesTrue, UNCHANGED addresses,
         \A s \in Entries : /\ subs'[s].valid = subs[s].valid
                            /\ subs'[s].dest = subs[s].dest
                            /\ subs'[s].who = subs[s].who
  PROVE  AddressesTrue'
BY DEF AddressesTrue

(* An entry that is told to send, or kept as it was, is not forgotten.     *)
LEMMA NotForgotten ==
  ASSUME NothingForgotten, UNCHANGED <<seen, value>>,
         \A o \in Objects : changed[o] => changed'[o],
         excused \subseteq excused', missed \subseteq missed',
         TypeOK, TypeOK',
         \A s \in Entries : subs'[s].valid =>
           \/ subs'[s].send
           \/ /\ subs[s].valid
              /\ subs'[s].who = subs[s].who /\ subs'[s].object = subs[s].object
              /\ subs'[s].send = subs[s].send
  PROVE  NothingForgotten'
<1> SUFFICES ASSUME NEW s \in Entries, subs'[s].valid, ~subs'[s].send
             PROVE  Due(s)' \/ (<<subs[s].who, subs[s].object>> \in excused \cup missed)'
  BY DEF NothingForgotten, Due
<1>1. /\ subs[s].valid
      /\ subs'[s].who = subs[s].who /\ subs'[s].object = subs[s].object
      /\ subs'[s].send = subs[s].send
  OBVIOUS
<1>2. subs[s].object \in Objects
  BY DEF TypeOK, Subscription
<1>3. Due(s) \/ <<subs[s].who, subs[s].object>> \in excused \cup missed
  BY <1>1 DEF NothingForgotten
<1> QED
  BY <1>1, <1>2, <1>3 DEF Due

(* Giving up ids: each that is left has its owner, and what was found for  *)
(* a request stays free.                                                   *)
LEMMA IdsFreed ==
  ASSUME IInv, NEW ids, UNCHANGED <<nextId, raced>>,
         tsm' \in [Slots -> Transaction],
         ~raced => \A t \in Slots :
                     tsm'[t].id = IF tsm[t].id \in ids THEN 0 ELSE tsm[t].id,
         loop' = "reserve" => loop = "reserve" /\ UNCHANGED task,
         poll'.pc = "found" => UNCHANGED poll,
         poll'.id = 0 <=> poll'.pc # "waiting",
         \A id \in Used \ ids :
           /\ id \in {poll.id} \cup poll.left => id \in {poll'.id} \cup poll'.left
           /\ \A s \in Entries : subs[s].valid /\ subs[s].invoke = id =>
                subs'[s].valid /\ subs'[s].invoke = id
  PROVE  IdsAccounted' /\ FoundIsFree'
<1>1. ASSUME ~raced
      PROVE  Used' = Used \ ids
  <2>1. \A t \in Slots : tsm'[t].id = IF tsm[t].id \in ids THEN 0 ELSE tsm[t].id
    BY <1>1
  <2>2. ASSUME NEW id \in Used'
        PROVE  id \in Used \ ids
    <3>1. PICK t \in Slots : id = tsm'[t].id /\ id # 0
      BY DEF Used
    <3> QED
      BY <2>1, <3>1 DEF Used
  <2>3. ASSUME NEW id \in Used \ ids
        PROVE  id \in Used'
    <3>1. PICK t \in Slots : id = tsm[t].id /\ id # 0
      BY DEF Used
    <3> QED
      BY <2>1, <3>1 DEF Used
  <2> QED
    BY <2>2, <2>3
<1>2. IdsAccounted'
  <2> SUFFICES ASSUME ~raced
               PROVE  IdsAccounted'
    BY DEF IdsAccounted
  <2>1. ASSUME NEW id \in Used'
        PROVE  \/ \E s \in Entries : subs'[s].valid /\ subs'[s].invoke = id
               \/ id \in {poll'.id} \cup poll'.left
    <3>1. id \in Used \ ids
      BY <1>1
    <3>2. \/ \E s \in Entries : subs[s].valid /\ subs[s].invoke = id
          \/ id \in {poll.id} \cup poll.left
      BY <3>1 DEF IInv, IdsAccounted
    <3> QED
      BY <3>1, <3>2
  <2>2. ASSUME NEW t \in Slots, NEW u \in Slots, tsm'[t].id = tsm'[u].id, tsm'[t].id # 0
        PROVE  t = u
    BY <2>2 DEF IInv, IdsAccounted
  <2> QED
    BY <2>1, <2>2 DEF IdsAccounted
<1>3. ASSUME ~raced, NEW spot, StaysFree(spot)
      PROVE  StaysFree(spot)'
  BY <1>1, <1>3 DEF StaysFree
<1>4. FoundIsFree'
  BY <1>3 DEF FoundIsFree, IInv
<1> QED
  BY <1>2, <1>4

(* A step that leaves the tables and the objects as they are.              *)
LEMMA TablesLeft ==
  ASSUME IInv, UNCHANGED <<tables, objects, seen, excused, missed>>,
         loop' = "reserve" => loop = "reserve" /\ UNCHANGED task
  PROVE  EntriesSound' /\ EntryHeld' /\ AddressesTrue' /\ NothingForgotten'
<1>1. EntriesSound'
  BY DEF IInv, EntriesSound, tables
<1>2. EntryHeld'
  BY DEF IInv, EntryHeld, Entry, tables
<1>3. AddressesTrue'
  BY AddressesKept DEF IInv, tables
<1>4. NothingForgotten'
  BY DEF IInv, NothingForgotten, Due, tables, objects
<1> QED
  BY <1>1, <1>2, <1>3, <1>4

-----------------------------------------------------------------------------
(* Every action keeps the invariant.                                       *)

LEMMA Starts == Init => IInv
<1> SUFFICES ASSUME Init
             PROVE  IInv
  OBVIOUS
<1> USE DEF Init
<1>1. Used = {}
  BY FreeSlotType DEF Used
<1>2. TypeOK
  <2>1. /\ subs \in [Entries -> Subscription]
        /\ addresses \in [Places -> Clients \cup {Nobody}]
    BY UnusedType
  <2>2. tsm \in [Slots -> Transaction] /\ nextId \in Slots
    BY FreeSlotType, Numbers
  <2>3. /\ task \in [state : {"idle", "mark", "clear", "free", "send"}, index : Entries,
                     spot : Slots \cup {0}]
        /\ dcc \in [state : DccStates, seconds : Nat]
        /\ poll \in [pc : {"idle", "found", "waiting"}, spot : Slots \cup {0},
                     id : Slots \cup {0}, left : SUBSET Slots]
    BY Numbers DEF DccStates
  <2>4. budget \in [packets : Nat, losses : Nat, polls : Nat]
    BY CovAssumption
  <2>5. seen \in [Clients \X Objects -> Values \cup {Unknown}]
    OBVIOUS
  <2> QED
    BY <2>1, <2>2, <2>3, <2>4, <2>5 DEF TypeOK
<1>3. EntriesSound /\ EntryHeld /\ NothingForgotten
  BY UnusedType DEF EntriesSound, EntryHeld, NothingForgotten
<1>4. AddressesTrue
  BY UnusedType DEF AddressesTrue
<1>5. IdsAccounted /\ FoundIsFree
  BY <1>1, FreeSlotType DEF IdsAccounted, FoundIsFree
<1> QED
  BY <1>2, <1>3, <1>4, <1>5 DEF IInv

LEMMA StutterKeeps ==
  ASSUME IInv, UNCHANGED vars
  PROVE  IInv'
<1> USE DEF vars, tables, objects, tids, clients, others
<1>1. TypeOK'
  BY DEF IInv, TypeOK
<1>2. EntriesSound' /\ EntryHeld' /\ AddressesTrue' /\ NothingForgotten'
  BY TablesLeft
<1>3. IdsAccounted' /\ FoundIsFree'
  BY DEF IInv, IdsAccounted, FoundIsFree, StaysFree, Used
<1> QED
  BY <1>1, <1>2, <1>3 DEF IInv

LEMMA ControlKeeps ==
  ASSUME IInv, NEW state \in DccStates, NEW seconds \in Durations, Control(state, seconds)
  PROVE  IInv'
<1> USE DEF Control, Receives, tables, objects, tids, clients, others
<1>1. TypeOK'
  <2>1. budget' \in [packets : Nat, losses : Nat, polls : Nat]
    BY SpendType DEF IInv
  <2>2. dcc' \in [state : DccStates, seconds : Nat]
    BY Numbers
  <2> QED
    BY <2>1, <2>2 DEF IInv, TypeOK
<1>2. EntriesSound' /\ EntryHeld' /\ AddressesTrue' /\ NothingForgotten'
  BY TablesLeft
<1>3. IdsAccounted' /\ FoundIsFree'
  BY DEF IInv, IdsAccounted, FoundIsFree, StaysFree, Used
<1> QED
  BY <1>1, <1>2, <1>3 DEF IInv

LEMMA AcknowledgedKeeps ==
  ASSUME IInv, NEW id \in acks, Acknowledged(id)
  PROVE  IInv'
<1> USE DEF Acknowledged, Receives, tables, objects, others
<1>1. tsm' \in [Slots -> Transaction]
  BY FreedIds DEF IInv
<1>2. TypeOK'
  BY <1>1 DEF IInv, TypeOK
<1>3. EntriesSound' /\ EntryHeld' /\ AddressesTrue' /\ NothingForgotten'
  BY TablesLeft
<1>4. ~raced => \A t \in Slots : tsm'[t].id = IF tsm[t].id \in {id} THEN 0 ELSE tsm[t].id
  BY FreedIds DEF IInv
<1>5. IdsAccounted' /\ FoundIsFree'
  BY <1>1, <1>4, IdsFreed DEF IInv, FoundIsFree
<1> QED
  BY <1>2, <1>3, <1>5 DEF IInv

LEMMA WriteKeeps ==
  ASSUME IInv, NEW o \in Objects, NEW v \in Values, Write(o, v)
  PROVE  IInv'
<1> USE DEF Write, Heard, Receives, tables, tids, clients, others
<1>1. budget' \in [packets : Nat, losses : Nat, polls : Nat]
  BY SpendType DEF IInv
<1>2. TypeOK'
  BY <1>1 DEF IInv, TypeOK
<1>3. EntriesSound' /\ EntryHeld'
  BY DEF IInv, EntriesSound, EntryHeld
<1>4. AddressesTrue'
  BY AddressesKept DEF IInv
<1>5. NothingForgotten'
  <2> SUFFICES ASSUME NEW s \in Entries, subs[s].valid
               PROVE  Due(s)' \/ <<subs[s].who, subs[s].object>> \in excused \cup missed
    BY DEF NothingForgotten
  <2>1. Due(s) \/ <<subs[s].who, subs[s].object>> \in excused \cup missed
    BY DEF IInv, NothingForgotten
  <2>2. subs[s].object \in Objects
    BY DEF IInv, TypeOK, Subscription
  <2>3. CASE subs[s].object = o
    <3>1. changed'[o] = (changed[o] \/ v # value[o]) /\ value'[o] = v
      BY DEF IInv, TypeOK
    <3> QED
      BY <2>1, <2>3, <3>1 DEF Due
  <2>4. CASE subs[s].object # o
    BY <2>1, <2>2, <2>4 DEF Due, IInv, TypeOK
  <2> QED
    BY <2>3, <2>4
<1>6. IdsAccounted' /\ FoundIsFree'
  BY DEF IInv, IdsAccounted, FoundIsFree, StaysFree, Used
<1> QED
  BY <1>2, <1>3, <1>4, <1>5, <1>6 DEF IInv

(* The entry of a subscription is one that matched or was vacant, and the  *)
(* place of its address holds the client's, or nothing.                    *)
LEMMA SubscribeKeeps ==
  ASSUME IInv, NEW c \in Clients, NEW o \in Objects, NEW confirmed \in BOOLEAN,
         NEW lifetime \in Lifetimes, Subscribe(c, o, confirmed, lifetime)
  PROVE  IInv'
<1> DEFINE found  == Matching(c, o)
           places == IF found # {} THEN found ELSE Vacant
           s      == Min(places)
           dest   == AddressOf(c)
           entry  == [valid |-> TRUE, confirmed |-> confirmed, send |-> TRUE, dest |-> dest,
                      invoke |-> 0, lifetime |-> lifetime, object |-> o, who |-> c]
<1>0. /\ loop = "nothing" /\ loop' = "packet" /\ UNCHANGED <<objects, task, nextId, dcc, clients, others>>
      /\ Spend("packets")
  BY DEF Subscribe, Heard, Receives
<1>1. budget' \in [packets : Nat, losses : Nat, polls : Nat]
  BY <1>0, SpendType DEF IInv
<1>2. CASE places = {}
  <2>1. UNCHANGED <<tables, tsm>>
    BY <1>2 DEF Subscribe
  <2>2. TypeOK'
    BY <1>0, <1>1, <2>1 DEF IInv, TypeOK, tables, objects, clients, others
  <2>3. EntriesSound' /\ EntryHeld' /\ AddressesTrue' /\ NothingForgotten'
    BY <1>0, <2>1, TablesLeft DEF clients
  <2>4. IdsAccounted' /\ FoundIsFree'
    BY <1>0, <2>1 DEF IInv, IdsAccounted, FoundIsFree, StaysFree, Used, tables, others
  <2> QED
    BY <2>2, <2>3, <2>4 DEF IInv
<1>3. CASE places # {}
  <2>1. /\ subs' = [subs EXCEPT ![s] = entry]
        /\ addresses' = IF dest = 0 THEN addresses ELSE [addresses EXCEPT ![dest] = c]
        /\ tsm' = Freed({subs[s].invoke})
    BY <1>3 DEF Subscribe
  <2>2. s \in places
    BY <1>3, MinIn, Numbers DEF Matching, Vacant, Entries
  <2>3. /\ s \in Entries
        /\ subs[s].valid => subs[s].dest = 0 \/ addresses[subs[s].dest] = c
    BY <2>2 DEF Matching, Vacant
  <2>4. /\ dest \in Places \cup {0}
        /\ dest # 0 => addresses[dest] \in {c, Nobody}
        /\ \A a \in Places : addresses[a] = c => dest # 0 /\ addresses[dest] = c
    <3> DEFINE here == {a \in Places : addresses[a] = c}
               free == {a \in Places : addresses[a] = Nobody}
    <3>1. here # {} => Min(here) \in here
      BY MinIn, Numbers DEF Places
    <3>2. free # {} => Min(free) \in free
      BY MinIn, Numbers DEF Places
    <3>3. 0 \notin Places
      BY Numbers
    <3>4. dest = IF here # {} THEN Min(here) ELSE IF free # {} THEN Min(free) ELSE 0
      BY DEF AddressOf
    <3> QED
      BY <3>1, <3>2, <3>3, <3>4
  <2> HIDE DEF places, s, dest, found
  <2>5. entry \in Subscription
    BY <2>4, Numbers DEF Subscription
  <2>6. subs' \in [Entries -> Subscription]
    BY <2>1, <2>3, <2>5 DEF IInv, TypeOK
  <2>7. addresses' \in [Places -> Clients \cup {Nobody}]
    BY <2>1, <2>4 DEF IInv, TypeOK
  <2>8. tsm' \in [Slots -> Transaction]
    BY <2>1, FreedIds DEF IInv
  <2>9. TypeOK'
    BY <1>0, <1>1, <2>6, <2>7, <2>8 DEF IInv, TypeOK, objects, clients, others
  <2>10. \A r \in Entries : subs'[r] = IF r = s THEN entry ELSE subs[r]
    BY <2>1, <2>3 DEF IInv, TypeOK
  <2>11. EntriesSound'
    BY <2>10 DEF IInv, EntriesSound
  <2>12. EntryHeld'
    BY <1>0 DEF EntryHeld
  <2>13. NothingForgotten'
    <3>1. \A r \in Entries : subs'[r].valid =>
            \/ subs'[r].send
            \/ /\ subs[r].valid
               /\ subs'[r].who = subs[r].who /\ subs'[r].object = subs[r].object
               /\ subs'[r].send = subs[r].send
      BY <2>10
    <3> QED
      BY <1>0, <2>9, <3>1, NotForgotten DEF IInv, objects, clients
  <2>14. IdsAccounted' /\ FoundIsFree'
    <3>1. \A r \in Entries, id \in Used \ {subs[s].invoke} :
            subs[r].valid /\ subs[r].invoke = id => subs'[r].valid /\ subs'[r].invoke = id
      BY <2>10
    <3>2. ~raced => \A t \in Slots : tsm'[t].id =
                      IF tsm[t].id \in {subs[s].invoke} THEN 0 ELSE tsm[t].id
      BY <2>1, FreedIds DEF IInv
    <3> QED
      BY <1>0, <2>8, <3>1, <3>2, IdsFreed DEF IInv, FoundIsFree, others
  <2>15. AddressesTrue'
    <3>1. \A a \in Places : addresses'[a] = IF a = dest THEN c ELSE addresses[a]
      BY <2>1, <2>4, Numbers DEF IInv, TypeOK
    <3>2. ASSUME NEW r \in Entries, subs'[r].valid, subs'[r].dest # 0
          PROVE  addresses'[subs'[r].dest] = subs'[r].who
      <4>1. CASE r = s
        BY <2>4, <2>10, <3>1, <3>2, <4>1
      <4>2. CASE r # s
        <5>1. /\ subs[r].valid /\ subs[r].dest # 0 /\ subs'[r] = subs[r]
              /\ addresses[subs[r].dest] = subs[r].who /\ subs[r].who # Nobody
          BY <2>10, <3>2, <4>2, CovAssumption DEF IInv, AddressesTrue, EntriesSound
        <5>2. subs[r].dest \in Places
          BY <5>1 DEF IInv, TypeOK, Subscription
        <5> QED
          BY <2>4, <3>1, <5>1, <5>2
      <4> QED
        BY <4>1, <4>2
    <3>3. ASSUME NEW a \in Places, addresses'[a] # Nobody
          PROVE  /\ \E r \in Entries : subs'[r].valid /\ subs'[r].dest = a
                 /\ \A b \in Places : addresses'[b] = addresses'[a] => b = a
      <4>1. \E r \in Entries : subs'[r].valid /\ subs'[r].dest = a
        <5>1. CASE a = dest
          BY <2>3, <2>10, <5>1
        <5>2. CASE a # dest
          <6>1. addresses[a] # Nobody /\ addresses[a] # c
            <7>1. CASE addresses[a] = c
              BY <2>4, <5>2, <7>1, CovAssumption DEF IInv, AddressesTrue
            <7> QED
              BY <3>1, <3>3, <5>2, <7>1
          <6>2. PICK r \in Entries : subs[r].valid /\ subs[r].dest = a
            BY <6>1 DEF IInv, AddressesTrue
          <6>3. r # s
            BY <2>3, <6>1, <6>2, Numbers
          <6> QED
            BY <2>10, <6>2, <6>3
        <5> QED
          BY <5>1, <5>2
      <4>2. ASSUME NEW b \in Places, addresses'[b] = addresses'[a]
            PROVE  b = a
        <5>1. dest # 0 /\ addresses[dest] = c => \A d \in Places : addresses[d] = c => d = dest
          BY <2>4, CovAssumption DEF IInv, AddressesTrue
        <5>2. \A d \in Places : addresses[d] = c => d = dest
          BY <2>4, <5>1
        <5> QED
          BY <3>1, <3>3, <4>2, <5>2 DEF IInv, AddressesTrue
      <4> QED
        BY <4>1, <4>2
    <3> QED
      BY <3>2, <3>3 DEF AddressesTrue
  <2> QED
    BY <2>9, <2>11, <2>12, <2>13, <2>14, <2>15 DEF IInv
<1> QED
  BY <1>2, <1>3

(* Entries that go: their addresses go with them, unless another entry has *)
(* them.                                                                   *)
LEMMA KeptAddresses ==
  ASSUME IInv, subs' \in [Entries -> Subscription], addresses' = Kept(subs'),
         \A s \in Entries : subs'[s].valid =>
           subs[s].valid /\ subs'[s].dest = subs[s].dest /\ subs'[s].who = subs[s].who
  PROVE  addresses' \in [Places -> Clients \cup {Nobody}] /\ AddressesTrue'
<1>1. \A a \in Places : addresses'[a] =
        IF \E s \in Entries : subs'[s].valid /\ subs'[s].dest = a THEN addresses[a] ELSE Nobody
  BY DEF Kept
<1>2. addresses' \in [Places -> Clients \cup {Nobody}]
  BY DEF Kept, IInv, TypeOK
<1>3. ASSUME NEW s \in Entries, subs'[s].valid, subs'[s].dest # 0
      PROVE  addresses'[subs'[s].dest] = subs'[s].who
  <2>1. subs'[s].dest \in Places
    BY <1>3 DEF Subscription
  <2> QED
    BY <1>1, <1>3, <2>1 DEF IInv, AddressesTrue
<1>4. ASSUME NEW a \in Places, addresses'[a] # Nobody
      PROVE  /\ \E s \in Entries : subs'[s].valid /\ subs'[s].dest = a
             /\ \A b \in Places : addresses'[b] = addresses'[a] => b = a
  BY <1>1, <1>4 DEF IInv, AddressesTrue
<1> QED
  BY <1>2, <1>3, <1>4 DEF AddressesTrue

LEMMA CancelKeeps ==
  ASSUME IInv, NEW c \in Clients, NEW o \in Objects, Cancel(c, o)
  PROVE  IInv'
<1>1. /\ loop = "nothing" /\ loop' = "packet" /\ UNCHANGED <<objects, task, nextId, dcc, clients, others>>
      /\ Spend("packets")
  BY DEF Cancel, Heard, Receives
<1>2. budget' \in [packets : Nat, losses : Nat, polls : Nat]
  BY <1>1, SpendType DEF IInv
<1>3. CASE Matching(c, o) = {}
  <2>1. UNCHANGED <<tables, tsm>>
    BY <1>3 DEF Cancel
  <2>2. TypeOK'
    BY <1>1, <1>2, <2>1 DEF IInv, TypeOK, tables, objects, clients, others
  <2>3. EntriesSound' /\ EntryHeld' /\ AddressesTrue' /\ NothingForgotten'
    BY <1>1, <2>1, TablesLeft DEF clients
  <2>4. IdsAccounted' /\ FoundIsFree'
    BY <1>1, <2>1 DEF IInv, IdsAccounted, FoundIsFree, StaysFree, Used, tables, others
  <2> QED
    BY <2>2, <2>3, <2>4 DEF IInv
<1>4. CASE Matching(c, o) # {}
  <2> DEFINE s == Min(Matching(c, o))
  <2>1. /\ subs' = [subs EXCEPT ![s] = Unused]
        /\ addresses' = Kept(subs')
        /\ tsm' = Freed({subs[s].invoke})
    BY <1>4 DEF Cancel
  <2>2. s \in Entries
    <3>1. s \in Matching(c, o)
      BY <1>4, MinIn, Numbers DEF Matching, Entries
    <3> QED
      BY <3>1 DEF Matching
  <2> HIDE DEF s
  <2>3. \A r \in Entries : subs'[r] = IF r = s THEN Unused ELSE subs[r]
    BY <2>1, <2>2 DEF IInv, TypeOK
  <2>4. subs' \in [Entries -> Subscription]
    BY <2>1, UnusedType DEF IInv, TypeOK
  <2>5. addresses' \in [Places -> Clients \cup {Nobody}] /\ AddressesTrue'
    <3>1. \A r \in Entries : subs'[r].valid =>
            subs[r].valid /\ subs'[r].dest = subs[r].dest /\ subs'[r].who = subs[r].who
      BY <2>3, UnusedType
    <3> QED
      BY <2>1, <2>4, <3>1, KeptAddresses
  <2>6. tsm' \in [Slots -> Transaction]
    BY <2>1, FreedIds DEF IInv
  <2>7. TypeOK'
    BY <1>1, <1>2, <2>4, <2>5, <2>6 DEF IInv, TypeOK, objects, clients, others
  <2>8. EntriesSound' /\ EntryHeld'
    BY <1>1, <2>3, UnusedType DEF IInv, EntriesSound, EntryHeld
  <2>9. NothingForgotten'
    <3>1. \A r \in Entries : subs'[r].valid =>
            /\ subs[r].valid
            /\ subs'[r].who = subs[r].who /\ subs'[r].object = subs[r].object
            /\ subs'[r].send = subs[r].send
      BY <2>3, UnusedType
    <3> QED
      BY <1>1, <2>7, <3>1, NotForgotten DEF IInv, objects, clients
  <2>10. IdsAccounted' /\ FoundIsFree'
    <3>1. \A r \in Entries, id \in Used \ {subs[s].invoke} :
            subs[r].valid /\ subs[r].invoke = id => subs'[r].valid /\ subs'[r].invoke = id
      BY <2>3
    <3>2. ~raced => \A t \in Slots : tsm'[t].id =
                      IF tsm[t].id \in {subs[s].invoke} THEN 0 ELSE tsm[t].id
      BY <2>1, FreedIds DEF IInv
    <3> QED
      BY <1>1, <2>6, <3>1, <3>2, IdsFreed DEF IInv, FoundIsFree, others
  <2> QED
    BY <2>5, <2>7, <2>8, <2>9, <2>10 DEF IInv
<1> QED
  BY <1>3, <1>4

(* Time ends subscriptions, frees their transactions, and lets those of    *)
(* the rest run out.                                                       *)
LEMMA SecondsKeep ==
  ASSUME IInv, NEW e \in Elapsed, SecondsPass(e)
  PROVE  IInv'
<1> DEFINE ids == {subs[s].invoke : s \in Expired(e)}
<1>1. /\ loop' = "timers" /\ UNCHANGED <<objects, task, nextId, clients, others, budget>>
      /\ loop \in {"nothing", "packet"}
  BY DEF SecondsPass, Ticks
<1>2. e \in Nat /\ e > 0
  BY Numbers
<1>3. dcc' \in [state : DccStates, seconds : Nat]
  <2>1. dcc \in [state : DccStates, seconds : Nat]
    BY DEF IInv, TypeOK
  <2>2. dcc.seconds > e => dcc.seconds - e \in Nat
    BY <1>2, <2>1
  <2>3. dcc' = IF dcc.seconds > e THEN [dcc EXCEPT !.seconds = dcc.seconds - e]
               ELSE IF dcc.seconds > 0 THEN [state |-> "enable", seconds |-> 0] ELSE dcc
    BY DEF SecondsPass
  <2> QED
    BY <2>1, <2>2, <2>3 DEF DccStates
<1>4. \A s \in Entries : subs'[s] = IF s \in Expired(e) THEN Unused
        ELSE [subs[s] EXCEPT !.lifetime =
                IF subs[s].lifetime = 0 THEN 0 ELSE subs[s].lifetime - e]
  BY DEF SecondsPass
<1>5. ASSUME NEW s \in Entries, s \notin Expired(e)
      PROVE  (IF subs[s].lifetime = 0 THEN 0 ELSE subs[s].lifetime - e) \in Nat
  <2>1. subs[s].lifetime \in Nat
    BY DEF IInv, TypeOK, Subscription
  <2>2. ~subs[s].valid => subs[s].lifetime = 0
    BY UnusedType DEF IInv, EntriesSound
  <2> QED
    BY <1>2, <1>5, <2>1, <2>2 DEF Expired
<1>6. \A s \in Entries : subs[s] \in Subscription
  BY DEF IInv, TypeOK
<1>7. \A s \in Entries \ Expired(e) :
        /\ subs'[s] \in Subscription
        /\ subs'[s].valid = subs[s].valid /\ subs'[s].who = subs[s].who
        /\ subs'[s].dest = subs[s].dest /\ subs'[s].object = subs[s].object
        /\ subs'[s].send = subs[s].send /\ subs'[s].invoke = subs[s].invoke
  <2> TAKE s \in Entries \ Expired(e)
  <2> DEFINE left == IF subs[s].lifetime = 0 THEN 0 ELSE subs[s].lifetime - e
  <2>1. left \in Nat
    BY <1>5
  <2>2. subs'[s] = [subs[s] EXCEPT !.lifetime = left]
    BY <1>4
  <2> HIDE DEF left
  <2> QED
    BY <1>6, <2>1, <2>2 DEF Subscription
<1>8. \A s \in Expired(e) : s \in Entries /\ subs'[s] = Unused /\ subs[s].valid
  BY <1>4 DEF Expired
<1>9. subs' \in [Entries -> Subscription]
  <2>1. \A s \in Entries : subs'[s] \in Subscription
    BY <1>7, <1>8, UnusedType
  <2>2. subs' = [s \in Entries |-> subs'[s]]
    BY DEF SecondsPass
  <2> QED
    BY <2>1, <2>2
<1>10. tsm' = Timed(Freed(ids), e)
  BY DEF SecondsPass
<1>11. Freed(ids) \in [Slots -> Transaction]
  BY FreedIds DEF IInv
<1>12. /\ tsm' \in [Slots -> Transaction]
       /\ \A t \in Slots : tsm'[t].id = Freed(ids)[t].id
  BY <1>10, <1>11, TimedIds
<1>13. addresses' \in [Places -> Clients \cup {Nobody}] /\ AddressesTrue'
  <2>1. CASE Expired(e) = {}
    <3>1. UNCHANGED addresses
      BY <2>1 DEF SecondsPass
    <3> QED
      BY <1>7, <2>1, <3>1, AddressesKept DEF IInv, TypeOK
  <2>2. CASE Expired(e) # {}
    <3>1. addresses' = Kept(subs')
      BY <2>2 DEF SecondsPass
    <3> QED
      BY <1>7, <1>8, <1>9, <3>1, UnusedType, KeptAddresses
  <2> QED
    BY <2>1, <2>2
<1> HIDE DEF ids
<1>14. TypeOK'
  BY <1>1, <1>3, <1>9, <1>12, <1>13 DEF IInv, TypeOK, objects, clients, others
<1>15. EntriesSound' /\ EntryHeld'
  <2>1. \A s \in Entries \ Expired(e) : ~subs[s].valid => subs'[s] = subs[s]
    BY <1>4, <1>6, UnusedType DEF IInv, EntriesSound, Subscription
  <2> QED
    BY <1>1, <1>7, <1>8, <2>1, UnusedType DEF IInv, EntriesSound, EntryHeld
<1>16. NothingForgotten'
  BY <1>1, <1>7, <1>8, <1>14, UnusedType, NotForgotten DEF IInv, objects, clients
<1>17. IdsAccounted' /\ FoundIsFree'
  <2>1. \A r \in Entries, id \in Used \ ids :
          subs[r].valid /\ subs[r].invoke = id => subs'[r].valid /\ subs'[r].invoke = id
    BY <1>7 DEF ids
  <2>2. ~raced => \A t \in Slots : tsm'[t].id = IF tsm[t].id \in ids THEN 0 ELSE tsm[t].id
    BY <1>12, FreedIds DEF IInv
  <2> QED
    BY <1>1, <1>12, <2>1, <2>2, IdsFreed DEF IInv, FoundIsFree, others
<1> QED
  BY <1>13, <1>14, <1>15, <1>16, <1>17 DEF IInv

-----------------------------------------------------------------------------
(* The steps of handler_cov_task.                                          *)

LEMMA OnwardType ==
  ASSUME TypeOK, NEW state \in {"idle", "mark", "clear", "free", "send"}, Onward(state)
  PROVE  /\ task' \in [state : {"idle", "mark", "clear", "free", "send"}, index : Entries,
                       spot : Slots \cup {0}]
         /\ loop' = "nothing"
<1>1. task \in [state : {"idle", "mark", "clear", "free", "send"}, index : Entries,
                spot : Slots \cup {0}]
  BY DEF TypeOK
<1>2. task.index # MaxSubs => task.index + 1 \in Entries
  BY <1>1, Numbers DEF Entries
<1>3. CASE task.index = MaxSubs
  BY <1>3, Numbers DEF Onward
<1>4. CASE task.index # MaxSubs
  <2>1. task' = [task EXCEPT !.index = task.index + 1, !.spot = 0]
    BY <1>4 DEF Onward
  <2> QED
    BY <1>1, <1>2, <1>4, <2>1 DEF Onward
<1> QED
  BY <1>3, <1>4

(* Steps that leave the transactions alone, and every invoke id with its   *)
(* entry.                                                                  *)
LEMMA IdsLeft ==
  ASSUME IInv, UNCHANGED <<tsm, nextId, poll, raced>>,
         loop' # "reserve",
         \A s \in Entries : subs'[s].valid = subs[s].valid /\ subs'[s].invoke = subs[s].invoke
  PROVE  IdsAccounted' /\ FoundIsFree'
<1>1. Used' = Used
  BY DEF Used
<1> QED
  BY <1>1 DEF IInv, IdsAccounted, FoundIsFree, StaysFree

LEMMA IdleKeeps ==
  ASSUME IInv, Idle
  PROVE  IInv'
<1> USE DEF Idle, tables, objects, tids, clients, others
<1>1. TypeOK'
  BY DEF IInv, TypeOK
<1>2. EntriesSound' /\ EntryHeld' /\ AddressesTrue' /\ NothingForgotten'
  BY TablesLeft
<1>3. IdsAccounted' /\ FoundIsFree'
  BY IdsLeft
<1> QED
  BY <1>1, <1>2, <1>3 DEF IInv

LEMMA NothingToSendKeeps ==
  ASSUME IInv, NothingToSend
  PROVE  IInv'
<1> USE DEF NothingToSend, tables, objects, tids, clients, others
<1>1. /\ task' \in [state : {"idle", "mark", "clear", "free", "send"}, index : Entries,
                    spot : Slots \cup {0}]
      /\ loop' = "nothing"
  BY OnwardType DEF IInv
<1>2. TypeOK'
  BY <1>1 DEF IInv, TypeOK
<1>3. EntriesSound' /\ EntryHeld' /\ AddressesTrue' /\ NothingForgotten'
  BY <1>1, TablesLeft
<1>4. IdsAccounted' /\ FoundIsFree'
  BY <1>1, IdsLeft
<1> QED
  BY <1>2, <1>3, <1>4 DEF IInv

LEMMA MarkKeeps ==
  ASSUME IInv, Mark
  PROVE  IInv'
<1>1. /\ task' \in [state : {"idle", "mark", "clear", "free", "send"}, index : Entries,
                    spot : Slots \cup {0}]
      /\ loop' = "nothing"
  BY OnwardType DEF IInv, Mark
<1>2. UNCHANGED <<addresses, objects, tids, dcc, clients, others, budget>>
  BY DEF Mark
<1>3. /\ \A s \in Entries : subs'[s] \in Subscription
      /\ \A s \in Entries : \/ subs'[s] = subs[s]
                            \/ subs[s].valid /\ subs'[s] = [subs[s] EXCEPT !.send = TRUE]
      /\ subs' = [s \in Entries |-> subs'[s]]
  <2>1. subs \in [Entries -> Subscription] /\ task.index \in Entries
    BY DEF IInv, TypeOK
  <2>2. \/ UNCHANGED subs
        \/ /\ subs[task.index].valid
           /\ subs' = [subs EXCEPT ![task.index] = [subs[task.index] EXCEPT !.send = TRUE]]
    BY DEF Mark, Entry
  <2>3. \A s \in Entries : [subs[s] EXCEPT !.send = TRUE] \in Subscription
    BY ZenonT(60), <2>1 DEF Subscription
  <2> QED
    BY <2>1, <2>2, <2>3
<1>4. TypeOK'
  <2>1. subs' \in [Entries -> Subscription]
    BY <1>3
  <2> QED
    BY <1>1, <1>2, <2>1 DEF IInv, TypeOK, objects, tids, clients, others
<1>5. \A s \in Entries :
        /\ subs'[s].valid = subs[s].valid /\ subs'[s].dest = subs[s].dest
        /\ subs'[s].who = subs[s].who /\ subs'[s].object = subs[s].object
        /\ subs'[s].invoke = subs[s].invoke
        /\ subs'[s].send \/ subs'[s].send = subs[s].send
        /\ ~subs[s].valid => subs'[s] = subs[s]
  BY <1>3 DEF IInv, TypeOK, Subscription
<1>6. EntriesSound' /\ EntryHeld'
  BY <1>1, <1>5 DEF IInv, EntriesSound, EntryHeld
<1>7. AddressesTrue'
  BY <1>2, <1>5, AddressesKept DEF IInv
<1>8. NothingForgotten'
  BY <1>2, <1>4, <1>5, NotForgotten DEF IInv, objects, clients
<1>9. IdsAccounted' /\ FoundIsFree'
  BY <1>1, <1>2, <1>5, IdsLeft DEF tids, others
<1> QED
  BY <1>4, <1>6, <1>7, <1>8, <1>9 DEF IInv

(* A mark that is cleared is missed by the entries that are not told to    *)
(* send.                                                                   *)
LEMMA ClearKeeps ==
  ASSUME IInv, Clear
  PROVE  IInv'
<1> DEFINE clears == Entry.valid /\ Entry.send /\ changed[Entry.object]
<1>1. /\ task' \in [state : {"idle", "mark", "clear", "free", "send"}, index : Entries,
                    spot : Slots \cup {0}]
      /\ loop' = "nothing"
  BY OnwardType DEF IInv, Clear
<1>2. /\ UNCHANGED <<tables, value, tids, dcc, acks, seen, excused, others, budget>>
      /\ changed' = IF clears THEN [changed EXCEPT ![Entry.object] = FALSE] ELSE changed
      /\ missed' = IF clears THEN missed \cup Overlooked(Entry.object) ELSE missed
  BY DEF Clear
<1>3. \A s \in Entries :
        /\ subs[s].object \in Objects
        /\ subs[s].valid => subs[s].who \in Clients
  BY DEF IInv, TypeOK, Subscription, EntriesSound
<1>4. task.index \in Entries
  BY DEF IInv, TypeOK
<1>5. TypeOK'
  <2>1. Overlooked(Entry.object) \subseteq Clients \X Objects
    BY <1>3, <1>4 DEF Overlooked, Entry
  <2>2. changed' \in [Objects -> BOOLEAN] /\ missed' \subseteq Clients \X Objects
    BY <1>2, <2>1 DEF IInv, TypeOK
  <2> QED
    BY <1>1, <1>2, <2>2 DEF IInv, TypeOK, tables, tids, others
<1>6. EntriesSound' /\ EntryHeld'
  BY <1>1, <1>2 DEF IInv, EntriesSound, EntryHeld, tables
<1>7. AddressesTrue'
  BY <1>2, AddressesKept DEF IInv, tables
<1>8. NothingForgotten'
  <2> SUFFICES ASSUME NEW s \in Entries, subs[s].valid
               PROVE  Due(s)' \/ <<subs[s].who, subs[s].object>> \in excused \cup missed'
    BY <1>2 DEF NothingForgotten, tables
  <2>1. Due(s) \/ <<subs[s].who, subs[s].object>> \in excused \cup missed
    BY DEF IInv, NothingForgotten
  <2>2. CASE clears /\ subs[s].object = Entry.object
    <3>1. CASE subs[s].send
      BY <1>2, <3>1 DEF Due, tables
    <3>2. CASE ~subs[s].send
      BY <1>2, <2>2, <3>2 DEF Overlooked
    <3> QED
      BY <3>1, <3>2
  <2>3. CASE ~(clears /\ subs[s].object = Entry.object)
    <3>1. changed'[subs[s].object] = changed[subs[s].object] /\ missed \subseteq missed'
      BY <1>2, <1>3, <2>3 DEF IInv, TypeOK
    <3> QED
      BY <1>2, <2>1, <3>1 DEF Due, tables
  <2> QED
    BY <2>2, <2>3
<1>9. IdsAccounted' /\ FoundIsFree'
  BY <1>1, <1>2, IdsLeft DEF tables, tids, others
<1> QED
  BY <1>5, <1>6, <1>7, <1>8, <1>9 DEF IInv

LEMMA FreeKeeps ==
  ASSUME IInv, Free
  PROVE  IInv'
<1> DEFINE id     == Entry.invoke
           done   == id # 0 /\ id \notin Used
           failed == id \in Used /\ tsm[SlotOf(id)].state = "idle"
           ids    == IF failed THEN {id} ELSE {}
<1>1. /\ task' \in [state : {"idle", "mark", "clear", "free", "send"}, index : Entries,
                    spot : Slots \cup {0}]
      /\ loop' = "nothing"
  BY OnwardType DEF IInv, Free
<1>2. /\ UNCHANGED <<addresses, objects, nextId, dcc, clients, others, budget>>
      /\ subs' = IF done \/ failed THEN [subs EXCEPT ![task.index].invoke = 0] ELSE subs
      /\ tsm' = IF failed THEN Freed({id}) ELSE tsm
  BY DEF Free
<1>3. /\ \A s \in Entries : subs'[s] \in Subscription
      /\ \A s \in Entries : \/ subs'[s] = subs[s]
                            \/ /\ s = task.index /\ (done \/ failed)
                               /\ subs'[s] = [subs[s] EXCEPT !.invoke = 0]
      /\ subs' = [s \in Entries |-> subs'[s]]
  <2>1. subs \in [Entries -> Subscription] /\ task.index \in Entries
    BY DEF IInv, TypeOK
  <2>2. \/ UNCHANGED subs
        \/ /\ done \/ failed
           /\ subs' = [subs EXCEPT ![task.index] = [subs[task.index] EXCEPT !.invoke = 0]]
    BY <1>2
  <2>3. \A s \in Entries : [subs[s] EXCEPT !.invoke = 0] \in Subscription
    BY <2>1 DEF Subscription
  <2> HIDE DEF done, failed
  <2> QED
    BY <2>1, <2>2, <2>3
<1>4. /\ tsm' \in [Slots -> Transaction]
      /\ ~raced => \A t \in Slots : tsm'[t].id = IF tsm[t].id \in ids THEN 0 ELSE tsm[t].id
  BY <1>2, FreedIds DEF IInv, TypeOK
<1>5. TypeOK'
  <2>1. subs' \in [Entries -> Subscription]
    BY <1>3
  <2> QED
    BY <1>1, <1>2, <1>4, <2>1 DEF IInv, TypeOK, objects, clients, others
<1>6. \A s \in Entries :
        /\ subs'[s].valid = subs[s].valid /\ subs'[s].dest = subs[s].dest
        /\ subs'[s].who = subs[s].who /\ subs'[s].object = subs[s].object
        /\ subs'[s].send = subs[s].send
        /\ subs'[s].invoke # subs[s].invoke => subs[s].invoke \notin Used \ ids
  <2> TAKE s \in Entries
  <2>1. subs[s] \in Subscription
    BY DEF IInv, TypeOK
  <2>2. CASE subs'[s] = subs[s]
    BY <2>2
  <2>3. CASE s = task.index /\ (done \/ failed) /\ subs'[s] = [subs[s] EXCEPT !.invoke = 0]
    BY <2>1, <2>3 DEF Subscription, Entry
  <2> QED
    BY <1>3, <2>2, <2>3
<1> HIDE DEF ids
<1>7. EntriesSound' /\ EntryHeld'
  <2>1. \A s \in Entries : ~subs[s].valid => subs'[s] = subs[s]
    BY <1>3, UnusedType DEF IInv, EntriesSound, TypeOK, Subscription, Unused
  <2> QED
    BY <1>1, <1>6, <2>1 DEF IInv, EntriesSound, EntryHeld
<1>8. AddressesTrue'
  BY <1>2, <1>6, AddressesKept DEF IInv
<1>9. NothingForgotten'
  BY <1>2, <1>5, <1>6, NotForgotten DEF IInv, objects, clients
<1>10. IdsAccounted' /\ FoundIsFree'
  <2>1. \A r \in Entries, i \in Used \ ids :
          subs[r].valid /\ subs[r].invoke = i => subs'[r].valid /\ subs'[r].invoke = i
    BY <1>6
  <2>2. UNCHANGED <<nextId, raced, poll>> /\ (poll.id = 0 <=> poll.pc # "waiting")
    BY <1>2 DEF IInv, FoundIsFree, others
  <2> HIDE DEF id, done, failed
  <2> QED
    BY <1>1, <1>4, <2>1, <2>2, IdsFreed
<1> QED
  BY <1>5, <1>7, <1>8, <1>9, <1>10 DEF IInv

(* A notification: it is for the client of the entry, who is told the      *)
(* value, or excused, or told later.                                       *)
LEMMA OutcomeKeeps ==
  ASSUME IInv, NEW entry \in Subscription, Outcome(entry), UNCHANGED <<addresses, objects>>,
         Entry.valid, Entry.send, Entry.dest # 0, loop' # "reserve",
         \E i \in Slots \cup {0} : entry = [Entry EXCEPT !.invoke = i]
  PROVE  /\ subs' \in [Entries -> Subscription]
         /\ seen' \in [Clients \X Objects -> Values \cup {Unknown}]
         /\ excused' \cup missed' \subseteq Clients \X Objects
         /\ budget' \in [packets : Nat, losses : Nat, polls : Nat]
         /\ \A s \in Entries : /\ subs'[s].valid = subs[s].valid
                               /\ subs'[s].invoke = IF s = task.index THEN entry.invoke
                                                    ELSE subs[s].invoke
         /\ EntriesSound' /\ EntryHeld' /\ AddressesTrue' /\ NothingForgotten'
<1>1. task.index \in Entries /\ \A s \in Entries : subs[s] \in Subscription
  BY DEF IInv, TypeOK
<1>2. Entry \in Subscription
  BY <1>1 DEF Entry
<1>3. /\ entry.valid = Entry.valid /\ entry.who = Entry.who /\ entry.object = Entry.object
      /\ entry.dest = Entry.dest /\ entry.send = Entry.send
  BY <1>2 DEF Subscription
<1>4. Peer = <<Entry.who, Entry.object>> /\ Peer \in Clients \X Objects
  <2>1. addresses[Entry.dest] = Entry.who /\ Entry.who \in Clients
    BY <1>1 DEF IInv, AddressesTrue, EntriesSound, Entry
  <2> QED
    BY <1>2, <2>1 DEF Peer, Subscription
<1>5. /\ [entry EXCEPT !.send = FALSE] \in Subscription
      /\ \E e \in {entry, [entry EXCEPT !.send = FALSE]} : subs' = [subs EXCEPT ![task.index] = e]
  BY DEF Outcome, Subscription
<1>6. \A s \in Entries :
        /\ subs'[s] \in Subscription
        /\ IF s = task.index THEN subs'[s] \in {entry, [entry EXCEPT !.send = FALSE]}
           ELSE subs'[s] = subs[s]
  BY <1>1, <1>5 DEF IInv, TypeOK
<1>7. subs' \in [Entries -> Subscription]
  BY <1>1, <1>5 DEF IInv, TypeOK
<1>8. \A s \in Entries :
        /\ subs'[s].valid = subs[s].valid /\ subs'[s].who = subs[s].who
        /\ subs'[s].object = subs[s].object /\ subs'[s].dest = subs[s].dest
        /\ subs'[s].invoke = IF s = task.index THEN entry.invoke ELSE subs[s].invoke
  <2> TAKE s \in Entries
  <2>1. CASE s = task.index
    <3>1. \A e \in {entry, [entry EXCEPT !.send = FALSE]} :
            /\ e.valid = entry.valid /\ e.who = entry.who /\ e.object = entry.object
            /\ e.dest = entry.dest /\ e.invoke = entry.invoke
      BY DEF Subscription
    <3> QED
      BY <1>3, <1>6, <2>1, <3>1 DEF Entry
  <2>2. CASE s # task.index
    BY <1>6, <2>2
  <2> QED
    BY <2>1, <2>2
<1>9. EntriesSound' /\ EntryHeld'
  <2>1. \A s \in Entries : ~subs[s].valid => subs'[s] = subs[s]
    BY <1>6 DEF Entry
  <2> QED
    BY <1>8, <2>1 DEF IInv, EntriesSound, EntryHeld
<1>10. AddressesTrue'
  BY <1>8, AddressesKept DEF IInv
<1>11. /\ seen' \in [Clients \X Objects -> Values \cup {Unknown}]
       /\ excused' \cup missed' \subseteq Clients \X Objects
       /\ budget' \in [packets : Nat, losses : Nat, polls : Nat]
  <2>1. value[Entry.object] \in Values
    BY <1>2 DEF IInv, TypeOK, Subscription
  <2> QED
    BY <1>4, <2>1, SpendType DEF Outcome, IInv, TypeOK
<1>12. NothingForgotten'
  <2> SUFFICES ASSUME NEW s \in Entries, subs[s].valid
               PROVE  Due(s)' \/ (<<subs[s].who, subs[s].object>> \in excused \cup missed)'
    BY <1>8 DEF NothingForgotten
  <2> DEFINE pair == <<subs[s].who, subs[s].object>>
  <2>1. pair \in Clients \X Objects
    BY <1>1 DEF IInv, EntriesSound, Subscription
  <2>2. Due(s) \/ pair \in excused \cup missed
    BY DEF IInv, NothingForgotten
  <2>3. subs'[s].who = subs[s].who /\ subs'[s].object = subs[s].object
    BY <1>8
  <2>4. CASE seen' = [seen EXCEPT ![Peer] = value[Entry.object]]
             /\ excused' = excused \ {Peer} /\ missed' = missed \ {Peer}
             /\ subs' = [subs EXCEPT ![task.index] = [entry EXCEPT !.send = FALSE]]
    <3>1. CASE pair = Peer
      BY <1>4, <2>3, <2>4, <3>1 DEF Due, objects, IInv, TypeOK
    <3>2. CASE pair # Peer
      <4>1. s # task.index
        BY <1>4, <3>2 DEF Entry
      <4>2. subs'[s] = subs[s]
        BY <1>6, <4>1
      <4>3. seen'[pair] = seen[pair]
        BY <2>1, <2>4, <3>2 DEF IInv, TypeOK
      <4>4. Due(s) => Due(s)'
        BY <4>2, <4>3 DEF Due, objects
      <4>5. pair \in excused \cup missed => pair \in excused' \cup missed'
        BY <2>4, <3>2
      <4> QED
        BY <2>2, <2>3, <4>4, <4>5
    <3> QED
      BY <3>1, <3>2
  <2>5. CASE UNCHANGED <<seen, missed>> /\ excused' = excused \cup {Peer}
    <3>1. CASE s = task.index
      BY <1>4, <2>3, <2>5, <3>1 DEF Entry
    <3>2. CASE s # task.index
      BY <1>6, <2>2, <2>5, <3>2 DEF Due, objects
    <3> QED
      BY <3>1, <3>2
  <2>6. CASE UNCHANGED <<seen, missed, excused>>
             /\ subs' = [subs EXCEPT ![task.index] = entry]
    <3>1. subs'[s].send = subs[s].send
      BY <1>1, <1>3, <2>6 DEF Entry, IInv, TypeOK
    <3> QED
      BY <2>2, <2>3, <2>6, <3>1 DEF Due, objects
  <2> QED
    BY <2>4, <2>5, <2>6 DEF Outcome
<1> QED
  BY <1>7, <1>8, <1>9, <1>10, <1>11, <1>12

LEMMA SendUnconfirmedKeeps ==
  ASSUME IInv, SendUnconfirmed
  PROVE  IInv'
<1>1. /\ task' \in [state : {"idle", "mark", "clear", "free", "send"}, index : Entries,
                    spot : Slots \cup {0}]
      /\ loop' = "nothing"
  BY OnwardType DEF IInv, SendUnconfirmed
<1>2. /\ UNCHANGED <<addresses, objects, tids, dcc, acks, others>>
      /\ Outcome(Entry) /\ Entry.valid /\ Entry.send /\ Entry.dest # 0
  BY DEF SendUnconfirmed, Sends
<1>3. Entry \in Subscription /\ Entry = [Entry EXCEPT !.invoke = Entry.invoke]
      /\ Entry.invoke \in Slots \cup {0}
  BY DEF IInv, TypeOK, Entry, Subscription
<1>4. /\ subs' \in [Entries -> Subscription]
      /\ seen' \in [Clients \X Objects -> Values \cup {Unknown}]
      /\ excused' \cup missed' \subseteq Clients \X Objects
      /\ budget' \in [packets : Nat, losses : Nat, polls : Nat]
      /\ \A s \in Entries : /\ subs'[s].valid = subs[s].valid
                            /\ subs'[s].invoke = IF s = task.index THEN Entry.invoke
                                                 ELSE subs[s].invoke
      /\ EntriesSound' /\ EntryHeld' /\ AddressesTrue' /\ NothingForgotten'
  BY <1>1, <1>2, <1>3, OutcomeKeeps
<1>5. TypeOK'
  BY <1>1, <1>2, <1>4 DEF IInv, TypeOK, objects, tids, others
<1>6. IdsAccounted' /\ FoundIsFree'
  BY <1>1, <1>2, <1>4, IdsLeft DEF tids, others, Entry
<1> QED
  BY <1>4, <1>5, <1>6 DEF IInv

LEMMA FindIdKeeps ==
  ASSUME IInv, FindId
  PROVE  IInv'
<1> USE DEF FindId, tables, objects, clients
<1>1. /\ FreeId \in Slots /\ FreeId \notin Used
      /\ FreeSpot \in Slots /\ tsm[FreeSpot].id = 0
  BY FoundFree DEF IInv, Sends
<1>2. task' = [task EXCEPT !.spot = FreeSpot] /\ task \in
        [state : {"idle", "mark", "clear", "free", "send"}, index : Entries,
         spot : Slots \cup {0}]
  BY DEF IInv, TypeOK
<1>3. TypeOK'
  <2>1. task' \in [state : {"idle", "mark", "clear", "free", "send"}, index : Entries,
                   spot : Slots \cup {0}]
    BY <1>1, <1>2
  <2>2. nextId' \in Slots /\ raced' \in BOOLEAN
    BY <1>1 DEF IInv, TypeOK
  <2> QED
    BY <2>1, <2>2 DEF IInv, TypeOK
<1>4. EntriesSound' /\ AddressesTrue' /\ NothingForgotten'
  BY AddressesKept DEF IInv, EntriesSound, NothingForgotten, Due
<1>5. EntryHeld'
  BY <1>2 DEF Sends, EntryHeld, Entry
<1>6. Used' = Used
  BY DEF Used
<1>7. IdsAccounted'
  BY <1>6 DEF IInv, IdsAccounted
<1>8. FoundIsFree'
  BY <1>1, <1>2, <1>6 DEF IInv, FoundIsFree, StaysFree
<1> QED
  BY <1>3, <1>4, <1>5, <1>7, <1>8 DEF IInv

(* A request takes the id that was found, which nobody else has, to the    *)
(* place that was found, which is free; who makes it owns the id.          *)
LEMMA IdsReserved ==
  ASSUME IInv, NEW spot, tsm' = Reserved(spot), ~raced => StaysFree(spot), UNCHANGED raced,
         nextId \in {poll'.id} \cup poll'.left
           \/ \E s \in Entries : subs'[s].valid /\ subs'[s].invoke = nextId,
         \A id \in Used : id \in {poll.id} \cup poll.left => id \in {poll'.id} \cup poll'.left,
         \A s \in Entries : subs[s].valid /\ subs[s].invoke # 0 =>
           subs'[s].valid /\ subs'[s].invoke = subs[s].invoke
  PROVE  tsm' \in [Slots -> Transaction] /\ IdsAccounted'
<1>1. /\ tsm' \in [Slots -> Transaction]
      /\ \A t \in Slots : tsm'[t].id = IF t = spot THEN nextId ELSE tsm[t].id
  BY ReservedIds DEF IInv
<1>2. IdsAccounted'
  <2> SUFFICES ASSUME ~raced
               PROVE  IdsAccounted'
    BY DEF IdsAccounted
  <2>1. ASSUME NEW id \in Used'
        PROVE  \/ \E s \in Entries : subs'[s].valid /\ subs'[s].invoke = id
               \/ id \in {poll'.id} \cup poll'.left
    <3>1. id = nextId \/ id \in Used
      BY <1>1 DEF Used
    <3>2. id # 0
      BY DEF Used
    <3>3. CASE id \in Used
      <4>1. \/ \E s \in Entries : subs[s].valid /\ subs[s].invoke = id
            \/ id \in {poll.id} \cup poll.left
        BY <3>3 DEF IInv, IdsAccounted
      <4> QED
        BY <3>2, <3>3, <4>1
    <3> QED
      BY <3>1, <3>3
  <2>2. ASSUME NEW t \in Slots, NEW u \in Slots, tsm'[t].id = tsm'[u].id, tsm'[t].id # 0
        PROVE  t = u
    <3>1. StaysFree(spot) /\ nextId # 0
      BY Numbers DEF IInv, TypeOK
    <3>2. \A v \in Slots : tsm[v].id # nextId
      BY <3>1 DEF StaysFree, Used
    <3> QED
      BY <1>1, <2>2, <3>2 DEF IInv, IdsAccounted
  <2> QED
    BY <2>1, <2>2 DEF IdsAccounted
<1> QED
  BY <1>1, <1>2

LEMMA SendConfirmedKeeps ==
  ASSUME IInv, SendConfirmed
  PROVE  IInv'
<1> DEFINE entry == [Entry EXCEPT !.invoke = nextId]
<1>1. /\ task' \in [state : {"idle", "mark", "clear", "free", "send"}, index : Entries,
                    spot : Slots \cup {0}]
      /\ loop' = "nothing"
  BY OnwardType DEF IInv, SendConfirmed
<1>2. /\ UNCHANGED <<addresses, objects, dcc, others>>
      /\ loop = "reserve" /\ tsm' = Reserved(task.spot) /\ nextId' = After(nextId)
      /\ Outcome(entry)
      /\ acks' \subseteq acks \cup {nextId}
  BY DEF SendConfirmed
<1>3. /\ Entry.valid /\ Entry.send /\ Entry.dest # 0 /\ Entry.invoke = 0
      /\ nextId \in Slots /\ task.index \in Entries
  BY <1>2 DEF IInv, EntryHeld, TypeOK
<1>4. entry \in Subscription /\ entry.invoke = nextId
  BY <1>3 DEF IInv, TypeOK, Entry, Subscription
<1>5. /\ subs' \in [Entries -> Subscription]
      /\ seen' \in [Clients \X Objects -> Values \cup {Unknown}]
      /\ excused' \cup missed' \subseteq Clients \X Objects
      /\ budget' \in [packets : Nat, losses : Nat, polls : Nat]
      /\ \A s \in Entries : /\ subs'[s].valid = subs[s].valid
                            /\ subs'[s].invoke = IF s = task.index THEN entry.invoke
                                                 ELSE subs[s].invoke
      /\ EntriesSound' /\ EntryHeld' /\ AddressesTrue' /\ NothingForgotten'
  BY <1>1, <1>2, <1>3, <1>4, OutcomeKeeps
<1> HIDE DEF entry
<1>6. tsm' \in [Slots -> Transaction] /\ IdsAccounted'
  <2>1. /\ UNCHANGED <<raced, poll>>
        /\ ~raced => StaysFree(task.spot)
    BY <1>2 DEF IInv, FoundIsFree, others
  <2>2. \E s \in Entries : subs'[s].valid /\ subs'[s].invoke = nextId
    <3>1. subs'[task.index].valid /\ subs'[task.index].invoke = nextId
      BY <1>3, <1>4, <1>5 DEF Entry
    <3> QED
      BY <1>3, <3>1
  <2>3. \A s \in Entries : subs[s].valid /\ subs[s].invoke # 0 =>
          subs'[s].valid /\ subs'[s].invoke = subs[s].invoke
    BY <1>3, <1>5 DEF Entry
  <2> QED
    BY <1>2, <2>1, <2>2, <2>3, IdsReserved
<1>7. TypeOK'
  <2>1. nextId' \in Slots /\ acks' \subseteq Slots
    BY <1>2, <1>3, NextIdType DEF IInv, TypeOK
  <2> QED
    BY <1>1, <1>2, <1>5, <1>6, <2>1 DEF IInv, TypeOK, objects, others
<1>8. FoundIsFree'
  BY <1>1, <1>2 DEF IInv, FoundIsFree, others
<1> QED
  BY <1>5, <1>6, <1>7, <1>8 DEF IInv

-----------------------------------------------------------------------------
(* The steps of the client task.                                           *)

LEMMA PollFindsKeeps ==
  ASSUME IInv, PollFinds
  PROVE  IInv'
<1> USE DEF PollFinds, tables, objects, clients
<1>1. /\ FreeId \in Slots /\ FreeId \notin Used
      /\ FreeSpot \in Slots /\ tsm[FreeSpot].id = 0
  BY FoundFree DEF IInv
<1>2. poll' = [poll EXCEPT !.pc = "found", !.spot = FreeSpot] /\ poll \in
        [pc : {"idle", "found", "waiting"}, spot : Slots \cup {0}, id : Slots \cup {0},
         left : SUBSET Slots]
  BY DEF IInv, TypeOK
<1>3. TypeOK'
  <2>1. poll' \in [pc : {"idle", "found", "waiting"}, spot : Slots \cup {0},
                   id : Slots \cup {0}, left : SUBSET Slots]
    BY <1>1, <1>2
  <2>2. nextId' \in Slots /\ raced' \in BOOLEAN
    BY <1>1 DEF IInv, TypeOK
  <2>3. budget' \in [packets : Nat, losses : Nat, polls : Nat]
    BY SpendType DEF IInv
  <2> QED
    BY <2>1, <2>2, <2>3 DEF IInv, TypeOK
<1>4. EntriesSound' /\ EntryHeld' /\ AddressesTrue' /\ NothingForgotten'
  BY TablesLeft
<1>5. Used' = Used
  BY DEF Used
<1>6. /\ poll'.id = poll.id /\ poll'.left = poll.left /\ poll'.spot = FreeSpot
      /\ poll.id = 0 /\ poll'.pc = "found"
  BY <1>2 DEF IInv, FoundIsFree
<1>7. IdsAccounted'
  BY <1>5, <1>6 DEF IInv, IdsAccounted
<1>8. FoundIsFree'
  <2>1. nextId' = FreeId /\ raced' = (raced \/ loop = "reserve") /\ UNCHANGED <<tsm, loop>>
    OBVIOUS
  <2> QED
    BY <1>1, <1>5, <1>6, <2>1 DEF FoundIsFree, StaysFree
<1> QED
  BY <1>3, <1>4, <1>7, <1>8 DEF IInv

LEMMA PollReservesKeeps ==
  ASSUME IInv, PollReserves
  PROVE  IInv'
<1> USE DEF PollReserves, tables, objects, clients
<1>1. /\ poll' = [poll EXCEPT !.pc = "waiting", !.spot = 0, !.id = nextId]
      /\ poll \in [pc : {"idle", "found", "waiting"}, spot : Slots \cup {0},
                   id : Slots \cup {0}, left : SUBSET Slots]
      /\ nextId \in Slots /\ poll.id = 0
  BY DEF IInv, TypeOK, FoundIsFree
<1>2. EntriesSound' /\ EntryHeld' /\ AddressesTrue' /\ NothingForgotten'
  BY TablesLeft
<1>3. poll'.id = nextId /\ poll'.left = poll.left /\ poll'.pc = "waiting"
  BY <1>1
<1>4. tsm' \in [Slots -> Transaction] /\ IdsAccounted'
  <2>1. ~raced => StaysFree(poll.spot)
    BY DEF IInv, FoundIsFree
  <2>2. 0 \notin Used
    BY DEF Used
  <2> QED
    BY <1>1, <1>3, <2>1, <2>2, IdsReserved
<1>5. TypeOK'
  <2>1. poll' \in [pc : {"idle", "found", "waiting"}, spot : Slots \cup {0},
                   id : Slots \cup {0}, left : SUBSET Slots]
    BY <1>1
  <2>2. nextId' \in Slots
    BY <1>1, NextIdType
  <2> QED
    BY <1>4, <2>1, <2>2 DEF IInv, TypeOK
<1>6. FoundIsFree'
  <2>1. poll'.id # 0
    BY <1>1, <1>3, Numbers
  <2> QED
    BY <1>3, <2>1 DEF IInv, FoundIsFree
<1> QED
  BY <1>2, <1>4, <1>5, <1>6 DEF IInv

LEMMA PollAnsweredKeeps ==
  ASSUME IInv, PollAnswered
  PROVE  IInv'
<1> USE DEF PollAnswered, tables, objects, clients
<1>1. /\ poll' = [poll EXCEPT !.pc = "idle", !.id = 0]
      /\ poll \in [pc : {"idle", "found", "waiting"}, spot : Slots \cup {0},
                   id : Slots \cup {0}, left : SUBSET Slots]
  BY DEF IInv, TypeOK
<1>2. tsm' \in [Slots -> Transaction]
  BY FreedIds DEF IInv
<1>3. EntriesSound' /\ EntryHeld' /\ AddressesTrue' /\ NothingForgotten'
  BY TablesLeft
<1>4. poll'.id = 0 /\ poll'.left = poll.left /\ poll'.pc = "idle"
  BY <1>1
<1>5. TypeOK'
  <2>1. poll' \in [pc : {"idle", "found", "waiting"}, spot : Slots \cup {0},
                   id : Slots \cup {0}, left : SUBSET Slots]
    BY <1>1
  <2> QED
    BY <1>2, <2>1 DEF IInv, TypeOK
<1>6. IdsAccounted' /\ FoundIsFree'
  <2>1. ~raced => \A t \in Slots : tsm'[t].id = IF tsm[t].id \in {poll.id} THEN 0 ELSE tsm[t].id
    BY FreedIds DEF IInv
  <2> QED
    BY <1>2, <1>4, <2>1, IdsFreed
<1> QED
  BY <1>3, <1>5, <1>6 DEF IInv

LEMMA PollGivesUpKeeps ==
  ASSUME IInv, PollGivesUp
  PROVE  IInv'
<1> USE DEF PollGivesUp, tables, objects, tids, clients
<1>1. /\ poll' = [poll EXCEPT !.pc = "idle", !.id = 0, !.left = poll.left \cup {poll.id}]
      /\ poll \in [pc : {"idle", "found", "waiting"}, spot : Slots \cup {0},
                   id : Slots \cup {0}, left : SUBSET Slots]
  BY DEF IInv, TypeOK
<1>2. EntriesSound' /\ EntryHeld' /\ AddressesTrue' /\ NothingForgotten'
  BY TablesLeft
<1>3. poll.id \in Slots
  BY <1>1 DEF IInv, FoundIsFree
<1>4. poll'.id = 0 /\ poll'.left = poll.left \cup {poll.id} /\ poll'.pc = "idle"
  BY <1>1
<1>5. TypeOK'
  <2>1. poll' \in [pc : {"idle", "found", "waiting"}, spot : Slots \cup {0},
                   id : Slots \cup {0}, left : SUBSET Slots]
    BY ZenonT(60), <1>1, <1>3
  <2> QED
    BY <2>1 DEF IInv, TypeOK
<1>6. Used' = Used
  BY DEF Used
<1>7. IdsAccounted'
  BY <1>4, <1>6 DEF IInv, IdsAccounted
<1>8. FoundIsFree'
  BY <1>4, <1>6 DEF IInv, FoundIsFree, StaysFree
<1> QED
  BY <1>2, <1>5, <1>7, <1>8 DEF IInv

-----------------------------------------------------------------------------
(* The theorems.                                                           *)

LEMMA StepKeeps == IInv /\ [Next]_vars => IInv'
<1> SUFFICES ASSUME IInv, [Next]_vars
             PROVE  IInv'
  OBVIOUS
<1>1. CASE Packet
  BY <1>1, SubscribeKeeps, CancelKeeps, WriteKeeps, ControlKeeps, AcknowledgedKeeps DEF Packet
<1>2. ASSUME NEW e \in Elapsed, SecondsPass(e)
      PROVE  IInv'
  BY <1>2, SecondsKeep
<1>3. CASE CovTask
  BY <1>3, IdleKeeps, MarkKeeps, ClearKeeps, FreeKeeps, NothingToSendKeeps,
     SendUnconfirmedKeeps, FindIdKeeps, SendConfirmedKeeps DEF CovTask
<1>4. CASE Poll
  BY <1>4, PollFindsKeeps, PollReservesKeeps, PollAnsweredKeeps, PollGivesUpKeeps DEF Poll
<1>5. CASE UNCHANGED vars
  BY <1>5, StutterKeeps
<1> QED
  BY <1>1, <1>2, <1>3, <1>4, <1>5 DEF Next, Server

THEOREM Inductive == Spec => []IInv
BY Starts, StepKeeps, PTL DEF Spec

(* The addresses of the tables are right: a subscription has the address   *)
(* of the client who asked for it (cov_address_add, h_cov.c:139-166), and  *)
(* an address stays as long as a subscription uses it                      *)
(* (cov_address_remove_unused, h_cov.c:109-132).                            *)
THEOREM TablesCorrect == Spec => []TablesSound
<1>1. IInv => TablesSound
  BY DEF IInv, TablesSound
<1> QED
  BY <1>1, Inductive, PTL

(* Between Binary_Input_Write_Property and the sending, no change is       *)
(* forgotten but by the clearing of h_cov.c:665.                           *)
THEOREM ChangesNotForgotten == Spec => []NothingForgotten
<1>1. IInv => NothingForgotten
  BY DEF IInv
<1> QED
  BY <1>1, Inductive, PTL

(* TSM_List holds no invoke id without an owner, and none twice, unless    *)
(* the two tasks looked for an id at the same time (tsm.c:155-205).        *)
THEOREM IdsHaveOwners == Spec => []IdsAccounted
<1>1. IInv => IdsAccounted
  BY DEF IInv
<1> QED
  BY <1>1, Inductive, PTL

-----------------------------------------------------------------------------
(* The refinement of AbstractCov.                                          *)

(* Every client finds room for its address.                                *)
RoomForAll == IsFiniteSet(Clients) /\ Cardinality(Clients) <= MaxAddresses

(* With room for all addresses no entry is without one, and no two entries *)
(* are for the same client and object.                                     *)
Owner(s) == <<subs[s].who, subs[s].object>>
OneEach ==
  \A s \in Live : /\ subs[s].dest # 0
                  /\ \A r \in Live : Owner(r) = Owner(s) => r = s

(* The first two variables of AbstractCov, as CovServer maps them.         *)
Subscribed == {PairOf(s) : s \in Live}
LeftOf == [p \in Clients \X Objects |->
  IF \E s \in Live : PairOf(s) = p THEN subs[CHOOSE s \in Live : PairOf(s) = p].lifetime ELSE 0]

(* The pairs of the promise are the owners of the entries in use.          *)
Mapped ==
  /\ Subscribed = {Owner(s) : s \in Live}
  /\ Subscribed \subseteq Clients \X Objects
  /\ LeftOf = [p \in Clients \X Objects |-> LeftOf[p]]
  /\ \A s \in Live : PairOf(s) = Owner(s) /\ LeftOf[Owner(s)] = subs[s].lifetime
  /\ \A p \in Clients \X Objects : p \notin Subscribed => LeftOf[p] = 0

LEMMA Mapping == IInv /\ OneEach => Mapped
<1> SUFFICES ASSUME IInv, OneEach
             PROVE  Mapped
  OBVIOUS
<1>1. \A s \in Live : /\ s \in Entries /\ subs[s].valid
                      /\ PairOf(s) = Owner(s) /\ Owner(s) \in Clients \X Objects
  <2> TAKE s \in Live
  <2>1. s \in Entries /\ subs[s].valid /\ subs[s].dest # 0
    BY DEF Live, OneEach
  <2>2. addresses[subs[s].dest] = subs[s].who /\ subs[s].who \in Clients
    BY <2>1 DEF IInv, AddressesTrue, EntriesSound
  <2>3. subs[s].object \in Objects
    BY <2>1 DEF IInv, TypeOK, Subscription
  <2> QED
    BY <2>1, <2>2, <2>3 DEF PairOf, Owner
<1>2. Subscribed = {Owner(s) : s \in Live} /\ Subscribed \subseteq Clients \X Objects
  BY <1>1 DEF Subscribed
<1>3. ASSUME NEW s \in Live
      PROVE  PairOf(s) = Owner(s) /\ LeftOf[Owner(s)] = subs[s].lifetime
  <2> DEFINE p == Owner(s)
             r == CHOOSE r \in Live : PairOf(r) = p
  <2>1. p \in Clients \X Objects /\ PairOf(s) = p
    BY <1>1
  <2>2. r \in Live /\ PairOf(r) = p
    BY <2>1
  <2>3. r = s
    BY <1>1, <2>2 DEF OneEach
  <2>4. LeftOf[p] = subs[r].lifetime
    BY <2>1 DEF LeftOf
  <2> QED
    BY <2>1, <2>3, <2>4
<1>4. \A p \in Clients \X Objects : p \notin Subscribed => LeftOf[p] = 0
  BY DEF Subscribed, LeftOf
<1>5. LeftOf = [p \in Clients \X Objects |-> LeftOf[p]]
  BY DEF LeftOf
<1> QED
  BY ONLY <1>2, <1>3, <1>4, <1>5 DEF Mapped

(* A client finds room for its address: the others have one place each at  *)
(* most.                                                                   *)
LEMMA AddressFound ==
  ASSUME IInv, RoomForAll, NEW c \in Clients
  PROVE  AddressOf(c) # 0
<1> DEFINE here == {a \in Places : addresses[a] = c}
           free == {a \in Places : addresses[a] = Nobody}
<1>1. here # {} => Min(here) \in here
  BY MinIn, Numbers DEF Places
<1>2. free # {} => Min(free) \in free
  BY MinIn, Numbers DEF Places
<1>3. 0 \notin Places
  BY Numbers
<1>4. ASSUME here = {}, free = {}
      PROVE  FALSE
  <2>1. addresses \in Injection(Places, Clients \ {c})
    <3>1. \A a \in Places : addresses[a] \in Clients \ {c} /\ addresses[a] # Nobody
      BY <1>4 DEF IInv, TypeOK
    <3>2. \A a, b \in Places : addresses[a] = addresses[b] => a = b
      BY <3>1 DEF IInv, AddressesTrue
    <3>3. addresses \in [Places -> Clients \ {c}]
      BY <3>1 DEF IInv, TypeOK
    <3> QED
      BY <3>2, <3>3 DEF Injection, IsInjective
  <2>2. /\ IsFiniteSet(Clients \ {c})
        /\ Cardinality(Clients \ {c}) = Cardinality(Clients) - 1
        /\ Cardinality(Clients) \in Nat
    BY FS_RemoveElement, FS_CardinalityType DEF RoomForAll
  <2>3. Cardinality(Places) <= Cardinality(Clients \ {c})
    BY <2>1, <2>2, FS_Injection
  <2>4. Cardinality(Places) = MaxAddresses
    BY Numbers, FS_Interval DEF Places
  <2> QED
    BY <2>2, <2>3, <2>4, Numbers DEF RoomForAll
<1>5. AddressOf(c) = IF here # {} THEN Min(here) ELSE IF free # {} THEN Min(free) ELSE 0
  BY DEF AddressOf
<1> HIDE DEF here, free
<1> QED
  BY <1>1, <1>2, <1>3, <1>4, <1>5 DEF here, free

(* What a subscription and a cancellation look for is the entry of the     *)
(* client and the object.                                                  *)
LEMMA MatchingIsOwner ==
  ASSUME IInv, OneEach, NEW c \in Clients, NEW o \in Objects
  PROVE  /\ Matching(c, o) = {s \in Live : Owner(s) = <<c, o>>}
         /\ Matching(c, o) # {} => Min(Matching(c, o)) \in Matching(c, o)
         /\ Vacant # {} => Min(Vacant) \in Vacant
<1>1. ASSUME NEW s \in Live
      PROVE  s \in Matching(c, o) <=> Owner(s) = <<c, o>>
  <2>1. s \in Entries /\ subs[s].valid /\ subs[s].dest # 0
    BY DEF Live, OneEach
  <2>2. addresses[subs[s].dest] = subs[s].who
    BY <2>1 DEF IInv, AddressesTrue
  <2> QED
    BY <2>1, <2>2 DEF Matching, Owner
<1>2. Matching(c, o) \subseteq Live
  BY DEF Matching, Live
<1>3. /\ Matching(c, o) # {} => Min(Matching(c, o)) \in Matching(c, o)
      /\ Vacant # {} => Min(Vacant) \in Vacant
  BY MinIn, Numbers DEF Matching, Vacant, Entries
<1> QED
  BY <1>1, <1>2, <1>3

(* Steps that leave clients, objects and times of all entries do not show. *)
LEMMA SameEntries ==
  ASSUME IInv, IInv', OneEach,
         \A s \in Entries : /\ subs'[s].valid = subs[s].valid
                            /\ subs'[s].who = subs[s].who
                            /\ subs'[s].object = subs[s].object
                            /\ subs'[s].dest = subs[s].dest
                            /\ subs'[s].lifetime = subs[s].lifetime
  PROVE  /\ OneEach'
         /\ Subscribed' = Subscribed /\ LeftOf' = LeftOf
<1>1. Live' = Live /\ Live \subseteq Entries /\ \A s \in Live : Owner(s)' = Owner(s)
  BY DEF Live, Owner
<1>2. OneEach'
  BY <1>1 DEF OneEach
<1>3. Mapped
  BY Mapping
<1>4. Mapped'
  BY <1>2, Mapping, PTL
<1>5. Subscribed' = Subscribed
  BY <1>1, <1>3, <1>4 DEF Mapped
<1>6. \A p \in Clients \X Objects : LeftOf'[p] = LeftOf[p]
  <2> TAKE p \in Clients \X Objects
  <2>1. CASE p \notin Subscribed
    BY <1>3, <1>4, <1>5, <2>1 DEF Mapped
  <2>2. CASE p \in Subscribed
    <3>1. PICK s \in Live : Owner(s) = p
      BY <1>3, <2>2 DEF Mapped
    <3>2. LeftOf[p] = subs[s].lifetime
      BY <1>3, <3>1 DEF Mapped
    <3>3. LeftOf'[p] = subs'[s].lifetime
      BY <1>1, <1>4, <3>1 DEF Mapped
    <3> QED
      BY <1>1, <3>2, <3>3
  <2> QED
    BY <2>1, <2>2
<1>7. LeftOf' = LeftOf
  BY <1>3, <1>4, <1>6 DEF Mapped
<1> QED
  BY <1>2, <1>5, <1>7

(* A subscription: the entry of the pair, or a new one.                    *)
LEMMA SubscribeShows ==
  ASSUME IInv, IInv', OneEach, RoomForAll, NEW c \in Clients, NEW o \in Objects,
         NEW confirmed \in BOOLEAN, NEW lifetime \in Lifetimes,
         Subscribe(c, o, confirmed, lifetime)
  PROVE  /\ OneEach'
         /\ \/ Subscribed' = Subscribed /\ LeftOf' = LeftOf
            \/ /\ Subscribed' = Subscribed \cup {<<c, o>>}
               /\ LeftOf' = [LeftOf EXCEPT ![<<c, o>>] = lifetime]
<1> DEFINE found  == Matching(c, o)
           places == IF found # {} THEN found ELSE Vacant
           s      == Min(places)
           dest   == AddressOf(c)
           p      == <<c, o>>
           entry  == [valid |-> TRUE, confirmed |-> confirmed, send |-> TRUE, dest |-> dest,
                      invoke |-> 0, lifetime |-> lifetime, object |-> o, who |-> c]
<1>1. CASE places = {}
  <2>1. subs' = subs
    BY <1>1 DEF Subscribe, tables
  <2> QED
    BY <2>1, SameEntries
<1>2. CASE places # {}
  <2>1. subs' = [subs EXCEPT ![s] = entry]
    BY <1>2 DEF Subscribe
  <2>2. dest # 0
    BY AddressFound
  <2>3. found = {r \in Live : Owner(r) = p} /\ s \in places
    BY <1>2, MatchingIsOwner
  <2>4. PICK t \in Entries : t = s
    BY <2>3 DEF Live, Vacant
  <2>5. (t \in Live => Owner(t) = p) /\ \A r \in Live \ {t} : Owner(r) # p
    <3>1. CASE found # {}
      <4>1. t \in Live /\ Owner(t) = p
        BY <2>3, <2>4, <3>1
      <4> QED
        BY <4>1 DEF OneEach, Live
    <3>2. CASE found = {}
      BY <2>3, <2>4, <3>2 DEF Vacant, Live
    <3> QED
      BY <3>1, <3>2
  <2> HIDE DEF found, places, s, dest
  <2>6. \A r \in Entries : subs'[r] = IF r = t THEN entry ELSE subs[r]
    BY <2>1, <2>4 DEF IInv, TypeOK
  <2>7. /\ Live' = Live \cup {t} /\ Live \subseteq Entries
        /\ \A r \in Live \ {t} : subs'[r] = subs[r] /\ Owner(r)' = Owner(r)
        /\ Owner(t)' = p /\ subs'[t].dest # 0 /\ subs'[t].lifetime = lifetime
    BY <2>2, <2>6 DEF Live, Owner
  <2>8. OneEach'
    <3> SUFFICES ASSUME NEW r \in Live'
                 PROVE  /\ subs'[r].dest # 0
                        /\ \A q \in Live' : Owner(q)' = Owner(r)' => q = r
      BY DEF OneEach
    <3>1. CASE r = t
      BY <2>5, <2>7, <3>1
    <3>2. CASE r # t
      <4>1. r \in Live \ {t}
        BY <2>7, <3>2
      <4> QED
        BY <2>5, <2>7, <4>1 DEF OneEach
    <3> QED
      BY <3>1, <3>2
  <2>9. Mapped
    BY Mapping
  <2>10. Mapped'
    BY <2>8, Mapping, PTL
  <2>11. Subscribed' = Subscribed \cup {p}
    <3>1. Subscribed = {Owner(r) : r \in Live} /\ Subscribed' = {Owner(r)' : r \in Live'}
      BY <2>9, <2>10 DEF Mapped
    <3> HIDE DEF p
    <3>2. ASSUME NEW q \in Subscribed
          PROVE  q \in Subscribed' \cup {p}
      <4>1. PICK r \in Live : q = Owner(r)
        BY <3>1
      <4> QED
        BY <2>5, <2>7, <3>1, <4>1
    <3>3. ASSUME NEW q \in Subscribed'
          PROVE  q \in Subscribed \cup {p}
      <4>1. PICK r \in Live' : q = Owner(r)'
        BY <3>1
      <4> QED
        BY <2>7, <3>1, <4>1
    <3>4. p \in Subscribed'
      BY <2>7, <3>1
    <3> QED
      BY <3>2, <3>3, <3>4
  <2>12. \A q \in Clients \X Objects : LeftOf'[q] = IF q = p THEN lifetime ELSE LeftOf[q]
    <3> TAKE q \in Clients \X Objects
    <3>1. CASE q = p
      <4>1. LeftOf'[Owner(t)'] = subs'[t].lifetime
        BY <2>7, <2>10 DEF Mapped
      <4> QED
        BY <2>7, <3>1, <4>1
    <3>2. CASE q # p /\ q \in Subscribed
      <4>1. PICK r \in Live : q = Owner(r)
        BY <2>9, <3>2 DEF Mapped
      <4>2. r \in Live \ {t}
        BY <2>5, <3>2, <4>1
      <4>3. LeftOf[Owner(r)] = subs[r].lifetime
        BY <2>9 DEF Mapped
      <4>4. LeftOf'[Owner(r)'] = subs'[r].lifetime
        BY <2>7, <2>10 DEF Mapped
      <4> QED
        BY <2>7, <3>2, <4>1, <4>2, <4>3, <4>4
    <3>3. CASE q # p /\ q \notin Subscribed
      BY <2>9, <2>10, <2>11, <3>3 DEF Mapped
    <3> QED
      BY <3>1, <3>2, <3>3
  <2>13. LeftOf' = [LeftOf EXCEPT ![p] = lifetime]
    <3>1. LeftOf' = [q \in Clients \X Objects |-> LeftOf'[q]]
      BY <2>10 DEF Mapped
    <3>2. LeftOf = [q \in Clients \X Objects |-> LeftOf[q]]
      BY <2>9 DEF Mapped
    <3> QED
      BY <2>12, <3>1, <3>2
  <2> QED
    BY <2>8, <2>11, <2>13
<1> QED
  BY <1>1, <1>2

(* Entries that go take their pairs with them; the time of those that stay *)
(* may change.                                                             *)
LEMMA EntriesGo ==
  ASSUME IInv, IInv', OneEach,
         NEW gone, gone \subseteq Live,
         \A s \in Entries :
           IF s \in gone THEN ~subs'[s].valid
           ELSE /\ subs'[s].valid = subs[s].valid /\ subs'[s].dest = subs[s].dest
                /\ subs'[s].who = subs[s].who /\ subs'[s].object = subs[s].object
  PROVE  /\ OneEach'
         /\ Subscribed' = Subscribed \ {Owner(s) : s \in gone}
         /\ LeftOf' = [p \in Clients \X Objects |-> LeftOf'[p]]
         /\ \A s \in Live \ gone : LeftOf'[Owner(s)] = subs'[s].lifetime
         /\ \A p \in Clients \X Objects : p \notin Subscribed' => LeftOf'[p] = 0
<1>1. /\ Live' = Live \ gone /\ Live \subseteq Entries
      /\ \A s \in Live' : Owner(s)' = Owner(s) /\ subs'[s].dest = subs[s].dest
  BY DEF Live, Owner
<1>2. OneEach'
  BY <1>1 DEF OneEach
<1>3. Mapped
  BY Mapping
<1>4. Mapped'
  BY <1>2, Mapping, PTL
<1>5. Subscribed' = Subscribed \ {Owner(s) : s \in gone}
  <2>1. Subscribed = {Owner(s) : s \in Live} /\ Subscribed' = {Owner(s) : s \in Live'}
    BY <1>1, <1>3, <1>4 DEF Mapped
  <2>2. \A s, r \in Live : Owner(r) = Owner(s) => r = s
    BY DEF OneEach
  <2> QED
    BY <1>1, <2>1, <2>2
<1>6. \A s \in Live \ gone : LeftOf'[Owner(s)] = subs'[s].lifetime
  BY <1>1, <1>4 DEF Mapped
<1> QED
  BY <1>2, <1>4, <1>5, <1>6 DEF Mapped

(* A cancellation.                                                         *)
LEMMA CancelShows ==
  ASSUME IInv, IInv', OneEach, NEW c \in Clients, NEW o \in Objects, Cancel(c, o)
  PROVE  /\ OneEach'
         /\ \/ Subscribed' = Subscribed /\ LeftOf' = LeftOf
            \/ /\ Subscribed' = Subscribed \ {<<c, o>>}
               /\ LeftOf' = [LeftOf EXCEPT ![<<c, o>>] = 0]
<1> DEFINE s == Min(Matching(c, o))
           p == <<c, o>>
<1>1. CASE Matching(c, o) = {}
  <2>1. subs' = subs
    BY <1>1 DEF Cancel, tables
  <2> QED
    BY <2>1, SameEntries
<1>2. CASE Matching(c, o) # {}
  <2>1. subs' = [subs EXCEPT ![s] = Unused]
    BY <1>2 DEF Cancel
  <2>2. s \in Live /\ Owner(s) = p
    BY <1>2, MatchingIsOwner
  <2>3. s \in Entries /\ p \in Clients \X Objects
    BY <2>2 DEF Live
  <2> HIDE DEF s
  <2>4. \A r \in Entries : subs'[r] = IF r = s THEN Unused ELSE subs[r]
    BY <2>1, <2>3 DEF IInv, TypeOK
  <2>5. \A r \in Entries :
          IF r \in {s} THEN ~subs'[r].valid
          ELSE /\ subs'[r].valid = subs[r].valid /\ subs'[r].dest = subs[r].dest
               /\ subs'[r].who = subs[r].who /\ subs'[r].object = subs[r].object
    BY <2>4, UnusedType
  <2>6. /\ OneEach'
        /\ Subscribed' = Subscribed \ {Owner(r) : r \in {s}}
        /\ LeftOf' = [q \in Clients \X Objects |-> LeftOf'[q]]
        /\ \A r \in Live \ {s} : LeftOf'[Owner(r)] = subs'[r].lifetime
        /\ \A q \in Clients \X Objects : q \notin Subscribed' => LeftOf'[q] = 0
    BY <2>2, <2>5, EntriesGo
  <2>7. Mapped
    BY Mapping
  <2>8. Subscribed' = Subscribed \ {p}
    BY <2>2, <2>6
  <2>9. \A q \in Clients \X Objects : LeftOf'[q] = IF q = p THEN 0 ELSE LeftOf[q]
    <3> TAKE q \in Clients \X Objects
    <3>1. CASE q = p
      BY <2>6, <2>8, <3>1
    <3>2. CASE q # p /\ q \in Subscribed
      <4>1. PICK r \in Live : q = Owner(r)
        BY <2>7, <3>2 DEF Mapped
      <4>2. r \in Live \ {s} /\ r \in Entries
        BY <2>2, <3>2, <4>1 DEF Live
      <4>3. LeftOf[q] = subs[r].lifetime
        BY <2>7, <4>1 DEF Mapped
      <4>4. LeftOf'[q] = subs'[r].lifetime
        BY <2>6, <4>1, <4>2
      <4> QED
        BY <2>4, <3>2, <4>2, <4>3, <4>4
    <3>3. CASE q # p /\ q \notin Subscribed
      BY <2>6, <2>7, <2>8, <3>3 DEF Mapped
    <3> QED
      BY <3>1, <3>2, <3>3
  <2>10. LeftOf' = [LeftOf EXCEPT ![p] = 0]
    <3>1. LeftOf = [q \in Clients \X Objects |-> LeftOf[q]]
      BY <2>7 DEF Mapped
    <3> QED
      BY <2>6, <2>9, <3>1
  <2> QED
    BY <2>6, <2>8, <2>10
<1> QED
  BY <1>1, <1>2

(* Time passes: the subscriptions end whose time is up.                    *)
LEMMA SecondsShow ==
  ASSUME IInv, IInv', OneEach, NEW e \in Elapsed, SecondsPass(e)
  PROVE  LET over == {p \in Subscribed : LeftOf[p] \in 1 .. e}
         IN  /\ OneEach'
             /\ Subscribed' = Subscribed \ over
             /\ LeftOf' = [p \in Clients \X Objects |->
                             IF p \in over \/ LeftOf[p] = 0 THEN 0 ELSE LeftOf[p] - e]
<1> DEFINE over == {p \in Subscribed : LeftOf[p] \in 1 .. e}
           gone == Expired(e)
           rest(n) == IF n = 0 THEN 0 ELSE n - e
<1>1. e \in Nat /\ e > 0
  BY Numbers
<1>2. Mapped
  BY Mapping
<1>3. PICK ends : ends = gone
  OBVIOUS
<1>4. ends \subseteq Live /\ \A s \in Live : s \in ends <=> subs[s].lifetime \in 1 .. e
  BY <1>3 DEF Expired, Live
<1>5. \A s \in Entries : subs'[s] = IF s \in ends THEN Unused
                                    ELSE [subs[s] EXCEPT !.lifetime = rest(@)]
  BY <1>3 DEF SecondsPass
<1>6. \A s \in Entries :
        IF s \in ends THEN ~subs'[s].valid
        ELSE /\ subs'[s].valid = subs[s].valid /\ subs'[s].dest = subs[s].dest
             /\ subs'[s].who = subs[s].who /\ subs'[s].object = subs[s].object
             /\ subs'[s].lifetime = rest(subs[s].lifetime)
  <2> HIDE DEF rest
  <2>1. \A s \in Entries : subs[s] \in Subscription
    BY DEF IInv, TypeOK
  <2> QED
    BY <1>5, <2>1, UnusedType DEF Subscription
<1>7. /\ OneEach'
      /\ Subscribed' = Subscribed \ {Owner(s) : s \in ends}
      /\ LeftOf' = [p \in Clients \X Objects |-> LeftOf'[p]]
      /\ \A s \in Live \ ends : LeftOf'[Owner(s)] = subs'[s].lifetime
      /\ \A p \in Clients \X Objects : p \notin Subscribed' => LeftOf'[p] = 0
  BY <1>4, <1>6, EntriesGo
<1>8. {Owner(s) : s \in ends} = over
  <2>1. ASSUME NEW s \in ends
        PROVE  Owner(s) \in over
    BY <1>2, <1>4 DEF Mapped
  <2>2. ASSUME NEW p \in over
        PROVE  p \in {Owner(s) : s \in ends}
    <3>1. PICK s \in Live : p = Owner(s)
      BY <1>2 DEF Mapped
    <3> QED
      BY <1>2, <1>4, <3>1 DEF Mapped
  <2> QED
    BY <2>1, <2>2
<1>9. \A p \in Clients \X Objects :
        LeftOf'[p] = IF p \in over \/ LeftOf[p] = 0 THEN 0 ELSE LeftOf[p] - e
  <2> TAKE p \in Clients \X Objects
  <2>1. CASE p \notin Subscribed
    BY <1>2, <1>7, <2>1 DEF Mapped
  <2>2. CASE p \in over
    BY <1>7, <1>8, <2>2
  <2>3. CASE p \in Subscribed \ over
    <3>1. PICK s \in Live : p = Owner(s)
      BY <1>2, <2>3 DEF Mapped
    <3>2. s \in Live \ ends /\ s \in Entries
      BY <1>8, <2>3, <3>1 DEF Live
    <3>3. LeftOf[p] = subs[s].lifetime
      BY <1>2, <3>1 DEF Mapped
    <3>4. LeftOf'[p] = rest(subs[s].lifetime)
      BY <1>6, <1>7, <3>1, <3>2
    <3> QED
      BY <2>3, <3>3, <3>4
  <2> QED
    BY <2>1, <2>2, <2>3
<1> QED
  BY <1>7, <1>8, <1>9

(* A notification that arrives tells a client with a subscription the      *)
(* value; all else of the sending does not show.                           *)
LEMMA OutcomeShows ==
  ASSUME IInv, IInv', OneEach, NEW entry \in Subscription, Outcome(entry),
         UNCHANGED <<addresses, objects>>, Entry.valid,
         \E i \in Slots \cup {0} : entry = [Entry EXCEPT !.invoke = i]
  PROVE  /\ OneEach'
         /\ Subscribed' = Subscribed /\ LeftOf' = LeftOf
         /\ \/ seen' = seen
            \/ \E p \in Subscribed : seen' = [seen EXCEPT ![p] = value[p[2]]]
<1>1. task.index \in Entries /\ \A s \in Entries : subs[s] \in Subscription
  BY DEF IInv, TypeOK
<1>2. Entry \in Subscription /\ task.index \in Live
  BY <1>1 DEF Entry, Live
<1>3. \A e \in {entry, [entry EXCEPT !.send = FALSE]} :
        /\ e.valid = Entry.valid /\ e.who = Entry.who /\ e.object = Entry.object
        /\ e.dest = Entry.dest /\ e.lifetime = Entry.lifetime
  BY <1>2 DEF Subscription
<1>4. \E e \in {entry, [entry EXCEPT !.send = FALSE]} : subs' = [subs EXCEPT ![task.index] = e]
  BY DEF Outcome
<1>5. \A s \in Entries : /\ subs'[s].valid = subs[s].valid
                         /\ subs'[s].who = subs[s].who
                         /\ subs'[s].object = subs[s].object
                         /\ subs'[s].dest = subs[s].dest
                         /\ subs'[s].lifetime = subs[s].lifetime
  BY ZenonT(60), <1>1, <1>3, <1>4 DEF Entry, IInv, TypeOK
<1>6. OneEach' /\ Subscribed' = Subscribed /\ LeftOf' = LeftOf
  BY <1>5, SameEntries
<1>7. Peer \in Subscribed /\ Peer[2] = Entry.object
  BY <1>2 DEF Peer, Subscribed, PairOf, Entry
<1>8. \/ seen' = seen
      \/ \E p \in Subscribed : seen' = [seen EXCEPT ![p] = value[p[2]]]
  BY <1>7 DEF Outcome
<1> QED
  BY <1>6, <1>8

LEMMA StartsEmpty ==
  ASSUME Init
  PROVE  OneEach /\ Promise!Init
<1>1. Live = {}
  BY UnusedType DEF Init, Live
<1>2. OneEach
  BY <1>1 DEF OneEach
<1>3. Subscribed = {} /\ LeftOf = [p \in Clients \X Objects |-> 0]
  BY <1>1 DEF Subscribed, LeftOf
<1> QED
  BY <1>2, <1>3 DEF Promise!Init, Promise!Pairs, Init, Subscribed, LeftOf

(* A step is one of the abstract service, or does not show.                *)
LEMMA StepShows ==
  ASSUME IInv, IInv', OneEach, RoomForAll, [Next]_vars
  PROVE  OneEach' /\ [Promise!Next]_(Promise!vars)
<1>1. ASSUME OneEach', Subscribed' = Subscribed, LeftOf' = LeftOf, seen' = seen, value' = value
      PROVE  OneEach' /\ [Promise!Next]_(Promise!vars)
  BY <1>1 DEF Promise!vars, Subscribed, LeftOf
<1>2. ASSUME UNCHANGED <<subs, addresses, seen, value>>
      PROVE  OneEach' /\ [Promise!Next]_(Promise!vars)
  <2>1. OneEach' /\ Subscribed' = Subscribed /\ LeftOf' = LeftOf
    BY <1>2, SameEntries
  <2> QED
    BY <1>1, <1>2, <2>1
<1>3. ASSUME NEW c \in Clients, NEW o \in Objects, NEW confirmed \in BOOLEAN,
             NEW lifetime \in Lifetimes, Subscribe(c, o, confirmed, lifetime)
      PROVE  OneEach' /\ [Promise!Next]_(Promise!vars)
  <2>1. seen' = seen /\ value' = value
    BY <1>3 DEF Subscribe, clients, objects
  <2>2. /\ OneEach'
        /\ \/ Subscribed' = Subscribed /\ LeftOf' = LeftOf
           \/ /\ Subscribed' = Subscribed \cup {<<c, o>>}
              /\ LeftOf' = [LeftOf EXCEPT ![<<c, o>>] = lifetime]
    BY <1>3, SubscribeShows
  <2>3. ASSUME Subscribed' = Subscribed \cup {<<c, o>>},
               LeftOf' = [LeftOf EXCEPT ![<<c, o>>] = lifetime]
        PROVE  Promise!Next
    <3>1. PICK p \in Clients \X Objects : p = <<c, o>>
      OBVIOUS
    <3>2. Promise!Subscribe(p, lifetime)
      BY <2>1, <2>3, <3>1 DEF Promise!Subscribe, Subscribed, LeftOf
    <3> QED
      BY <3>2 DEF Promise!Next, Promise!Pairs
  <2> QED
    BY <1>1, <2>1, <2>2, <2>3
<1>4. ASSUME NEW c \in Clients, NEW o \in Objects, Cancel(c, o)
      PROVE  OneEach' /\ [Promise!Next]_(Promise!vars)
  <2>1. seen' = seen /\ value' = value
    BY <1>4 DEF Cancel, clients, objects
  <2>2. /\ OneEach'
        /\ \/ Subscribed' = Subscribed /\ LeftOf' = LeftOf
           \/ /\ Subscribed' = Subscribed \ {<<c, o>>}
              /\ LeftOf' = [LeftOf EXCEPT ![<<c, o>>] = 0]
    BY <1>4, CancelShows
  <2>3. ASSUME Subscribed' = Subscribed \ {<<c, o>>},
               LeftOf' = [LeftOf EXCEPT ![<<c, o>>] = 0]
        PROVE  Promise!Next
    <3>1. PICK p \in Clients \X Objects : p = <<c, o>>
      OBVIOUS
    <3>2. Promise!Cancel(p)
      BY <2>1, <2>3, <3>1 DEF Promise!Cancel, Subscribed, LeftOf
    <3> QED
      BY <3>2 DEF Promise!Next, Promise!Pairs
  <2> QED
    BY <1>1, <2>1, <2>2, <2>3
<1>5. ASSUME NEW o \in Objects, NEW v \in Values, Write(o, v)
      PROVE  OneEach' /\ [Promise!Next]_(Promise!vars)
  <2>1. UNCHANGED <<subs, addresses, seen>> /\ value' = [value EXCEPT ![o] = v]
    BY <1>5 DEF Write, tables, clients
  <2>2. OneEach' /\ Subscribed' = Subscribed /\ LeftOf' = LeftOf
    BY <2>1, SameEntries
  <2>3. Promise!Write(o, v)
    BY <2>1, <2>2 DEF Promise!Write, Subscribed, LeftOf
  <2> QED
    BY <2>2, <2>3 DEF Promise!Next
<1>6. ASSUME NEW e \in Elapsed, SecondsPass(e)
      PROVE  OneEach' /\ [Promise!Next]_(Promise!vars)
  <2> DEFINE over == {p \in Subscribed : LeftOf[p] \in 1 .. e}
  <2>1. seen' = seen /\ value' = value
    BY <1>6 DEF SecondsPass, clients, objects
  <2>2. /\ OneEach'
        /\ Subscribed' = Subscribed \ over
        /\ LeftOf' = [p \in Clients \X Objects |->
                        IF p \in over \/ LeftOf[p] = 0 THEN 0 ELSE LeftOf[p] - e]
    BY <1>6, SecondsShow
  <2>3. Promise!TimePasses(e)
    BY <2>1, <2>2 DEF Promise!TimePasses, Promise!Pairs, Subscribed, LeftOf
  <2> QED
    BY <2>2, <2>3 DEF Promise!Next
<1>7. ASSUME OneEach', Subscribed' = Subscribed, LeftOf' = LeftOf, value' = value,
             \/ seen' = seen
             \/ \E p \in Subscribed : seen' = [seen EXCEPT ![p] = value[p[2]]]
      PROVE  OneEach' /\ [Promise!Next]_(Promise!vars)
  <2>1. ASSUME NEW p \in Subscribed, seen' = [seen EXCEPT ![p] = value[p[2]]]
        PROVE  Promise!Next
    <3>1. p \in Clients \X Objects
      BY Mapping DEF Mapped
    <3>2. Promise!Notify(p)
      BY <1>7, <2>1 DEF Promise!Notify, Subscribed, LeftOf
    <3> QED
      BY <3>1, <3>2 DEF Promise!Next, Promise!Pairs
  <2> QED
    BY <1>1, <1>7, <2>1
<1>8. ASSUME NEW state \in DccStates, NEW seconds \in Durations, Control(state, seconds)
      PROVE  OneEach' /\ [Promise!Next]_(Promise!vars)
  BY <1>2, <1>8 DEF Control, tables, objects, clients
<1>9. ASSUME NEW id \in acks, Acknowledged(id)
      PROVE  OneEach' /\ [Promise!Next]_(Promise!vars)
  BY <1>2, <1>9 DEF Acknowledged, tables, objects
<1>10. CASE Idle \/ Clear \/ NothingToSend \/ FindId
  BY <1>2, <1>10 DEF Idle, Clear, NothingToSend, FindId, tables, objects, clients
<1>11. ASSUME UNCHANGED <<addresses, seen, value>>,
              \A s \in Entries : /\ subs'[s].valid = subs[s].valid
                                 /\ subs'[s].who = subs[s].who
                                 /\ subs'[s].object = subs[s].object
                                 /\ subs'[s].dest = subs[s].dest
                                 /\ subs'[s].lifetime = subs[s].lifetime
       PROVE  OneEach' /\ [Promise!Next]_(Promise!vars)
  <2>1. OneEach' /\ Subscribed' = Subscribed /\ LeftOf' = LeftOf
    BY <1>11, SameEntries
  <2> QED
    BY <1>1, <1>11, <2>1
<1>12. CASE Mark
  <2>1. UNCHANGED <<addresses, seen, value>>
    BY <1>12 DEF Mark, objects, clients
  <2>2. subs' \in {subs, [subs EXCEPT ![task.index].send = TRUE]}
    BY <1>12 DEF Mark
  <2>3. task.index \in Entries /\ subs \in [Entries -> Subscription]
    BY DEF IInv, TypeOK
  <2> QED
    BY <1>11, <2>1, <2>2, <2>3 DEF Subscription
<1>13. CASE Free
  <2>1. UNCHANGED <<addresses, seen, value>>
    BY <1>13 DEF Free, objects, clients
  <2>2. subs' \in {subs, [subs EXCEPT ![task.index].invoke = 0]}
    BY <1>13 DEF Free
  <2>3. task.index \in Entries /\ subs \in [Entries -> Subscription]
    BY DEF IInv, TypeOK
  <2> QED
    BY <1>11, <2>1, <2>2, <2>3 DEF Subscription
<1>14. CASE SendUnconfirmed
  <2>1. /\ UNCHANGED <<addresses, objects>> /\ value' = value
        /\ Outcome(Entry) /\ Entry.valid
    BY <1>14 DEF SendUnconfirmed, Sends, objects
  <2>2. Entry \in Subscription /\ Entry = [Entry EXCEPT !.invoke = Entry.invoke]
        /\ Entry.invoke \in Slots \cup {0}
    BY DEF IInv, TypeOK, Entry, Subscription
  <2>3. /\ OneEach'
        /\ Subscribed' = Subscribed /\ LeftOf' = LeftOf
        /\ \/ seen' = seen
           \/ \E p \in Subscribed : seen' = [seen EXCEPT ![p] = value[p[2]]]
    BY <2>1, <2>2, OutcomeShows
  <2> QED
    BY <1>7, <2>1, <2>3
<1>15. CASE SendConfirmed
  <2> DEFINE entry == [Entry EXCEPT !.invoke = nextId]
  <2>1. /\ UNCHANGED <<addresses, objects>> /\ value' = value
        /\ Outcome(entry) /\ Entry.valid
    BY <1>15 DEF SendConfirmed, IInv, EntryHeld, objects
  <2>2. nextId \in Slots \cup {0} /\ entry \in Subscription
    <3>1. Entry \in Subscription /\ nextId \in Slots
      BY DEF IInv, TypeOK, Entry
    <3> QED
      BY <3>1 DEF Subscription
  <2>3. /\ OneEach'
        /\ Subscribed' = Subscribed /\ LeftOf' = LeftOf
        /\ \/ seen' = seen
           \/ \E p \in Subscribed : seen' = [seen EXCEPT ![p] = value[p[2]]]
    BY <2>1, <2>2, OutcomeShows
  <2> QED
    BY <1>7, <2>1, <2>3
<1>16. CASE Poll
  BY <1>2, <1>16 DEF Poll, PollFinds, PollReserves, PollAnswered, PollGivesUp, tables, objects,
     clients
<1>17. CASE UNCHANGED vars
  BY <1>2, <1>17 DEF vars, tables, objects, clients
<1>18. CASE Packet
  BY <1>3, <1>4, <1>5, <1>8, <1>9, <1>18 DEF Packet
<1>19. CASE CovTask
  BY <1>10, <1>12, <1>13, <1>14, <1>15, <1>19 DEF CovTask
<1> QED
  BY <1>6, <1>16, <1>17, <1>18, <1>19 DEF Next, Server

(* The tables of subscriptions and addresses are the service that          *)
(* AbstractCov promises (h_cov.c:109-166, 353-740): a subscription is      *)
(* there from its request until it is cancelled or its time is up, for its *)
(* client and its object only, and a value is told to who has one.  More   *)
(* clients than MAX_COV_ADDRESSES have no such promise: an entry whose     *)
(* address found no room belongs to everyone and is never served.          *)
THEOREM PromiseKept ==
  ASSUME RoomForAll
  PROVE  Spec => ImplementsCov
<1>1. Init => OneEach /\ Promise!Init
  BY StartsEmpty
<1>2. IInv /\ IInv' /\ OneEach /\ [Next]_vars => OneEach' /\ [Promise!Next]_(Promise!vars)
  BY StepShows
<1>3. Spec => []OneEach
  BY <1>1, <1>2, Inductive, PTL DEF Spec
<1> QED
  BY <1>1, <1>2, <1>3, Inductive, PTL DEF Spec, ImplementsCov, Promise!Spec
=============================================================================
