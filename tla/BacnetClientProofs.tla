------------------------- MODULE BacnetClientProofs -------------------------
(***************************************************************************)
(* The rounds of the BACnet client, for any devices with any lists of      *)
(* objects, any number of invoke ids, of repetitions and of troubles: what *)
(* is on the line or in the mailbox under an id belongs to the request     *)
(* the id was given to, and that is what keeps late answers apart.         *)
(***************************************************************************)
EXTENDS BacnetClient, FiniteSetTheorems, WellFoundedInduction, SequenceTheorems, TLAPS

(* A nonempty set of numbers has a least one.                              *)
LEMMA LeastNumber ==
  ASSUME NEW S, S \subseteq Nat, S # {}
  PROVE  \E k \in S : \A j \in S : k <= j
<1> DEFINE R == OpToRel(<, Nat)
<1>1. IsWellFoundedOn(R, Nat)
  BY NatLessThanWellFounded
<1>2. \A x, y \in Nat : <<x, y>> \in R <=> x < y
  BY DEF OpToRel
<1> HIDE DEF R
<1>3. PICK k \in S : \A j \in S : <<j, k>> \notin R
  BY <1>1, WFMin, Zenon
<1>4. ASSUME NEW j \in S
      PROVE  k <= j
  <2>1. ~(j < k)
    BY <1>2, <1>3
  <2> QED
    BY <2>1
<1> QED
  BY <1>4

(* The packets on the line and in the mailbox.                             *)
Requests == [id : Ids, ask : Asks, dev : Devices, due : BOOLEAN]

PacketSound(p) ==
    /\ p \in Packets
    /\ p.type = "iam" <=> p.id = 0
    /\ p.type # "iam" => p.ask \in Asks
    /\ p.type = "ack" => IF p.ask[1] = "entry" THEN p.val \in Objects
                                               ELSE p.val \in Nat \cup {None}

PacketsSound == wire \subseteq Requests /\ (mailbox # None => PacketSound(mailbox))

(* Where the task is: which device it asks, and for what.                  *)
Requesting == phase \in {"count", "entry", "object"}

Placed ==
    /\ Requesting \/ phase = "publish" =>
           p_addr_entry \in 1 .. Len(known) /\ Target_Address = known[p_addr_entry]
    /\ phase = "object" => at \in 1 .. Len(list)
    /\ phase = "publish" => step = "ask"
    /\ phase = "head" => step # "ask"
    /\ step = "ended" => phase = "ended"
    /\ phase = "ended" => step = "ended"

(* An invoke id belongs to one exchange: what is on the line or in the     *)
(* mailbox under an id is the request the id was given to, or its answer,  *)
(* and only one of the two is there.                                       *)
Holds(i, ask, dev) == tsm[i].state # "free" /\ tsm[i].ask = ask /\ tsm[i].dev = dev

Pending ==
    \A i \in Ids : tsm[i].state # "free" => tsm[i].ask \in Asks /\ tsm[i].dev \in Devices

OneExchange ==
    /\ Pending
    /\ \A w \in wire : Holds(w.id, w.ask, w.dev)
    /\ \A w, v \in wire : w.id = v.id => w = v
    /\ mailbox # None /\ mailbox.id # 0 =>
           /\ Holds(mailbox.id, mailbox.ask, mailbox.dev)
           /\ \A w \in wire : w.id # mailbox.id

(* The id the task waits for is that of the question it asks.              *)
Waiting == Requesting /\ step \in {"asked", "wait"}
AsksCurrent == Waiting /\ Request_Invoke_ID # 0 =>
                   Holds(Request_Invoke_ID, Ask, Target_Address)

(* The exchange of a line without trouble: the request on the line, or its *)
(* answer in the mailbox; and the round as far as it has come.             *)
NoneUsed == \A i \in Ids : tsm[i].state = "free"
Exchange ==
    /\ Request_Invoke_ID \in Ids
    /\ \A i \in Ids : tsm[i].state # "free" => i = Request_Invoke_ID
    /\ \/ /\ wire = {[id |-> Request_Invoke_ID, ask |-> Ask, dev |-> Target_Address,
                      due |-> TRUE]}
          /\ mailbox = None
       \/ /\ wire = {}
          /\ mailbox \in Answers(Target_Address, Request_Invoke_ID, Ask)

Members == ObjectList[Target_Address]
RowsRead(n) == register_number = n /\ \A i \in 1 .. n : table[i].obj = Members[i]

Quiet ==
    /\ ~Error_Detected /\ phase # "ended"
    /\ step = "ask" => wire = {} /\ mailbox = None /\ NoneUsed
    /\ Waiting => Exchange
    /\ phase = "head" => /\ wire = {} /\ NoneUsed
                         /\ mailbox # None => mailbox.type = "iam"
    /\ phase \in {"head", "count"} => register_number = 0 /\ list = <<>>
    /\ phase = "entry" => /\ register_number = 0
                          /\ entryNum = Len(Members) + 1 /\ at \in 2 .. entryNum
                          /\ Len(list) = at - 2
                          /\ \A i \in 1 .. at - 2 : list[i] = Members[i]
    /\ phase = "object" => list = Members /\ RowsRead(at - 1)
    /\ phase = "publish" => RowsRead(Len(Members))

IInv ==
    /\ TypeOK /\ PacketsSound /\ Placed /\ OneExchange /\ AsksCurrent
    /\ troubles = 0 => Quiet

-----------------------------------------------------------------------------
(* The constants and the messages.                                         *)

LEMMA Numbers ==
    /\ MaxId \in Nat /\ MaxId > 0 /\ Retries \in Nat /\ MaxTroubles \in Nat
    /\ Ids \subseteq Nat /\ 0 \notin Ids /\ 1 \in Ids
    /\ None \notin Objects /\ None \notin Nat
BY NumberAssumption DEF Ids

LEMMA AskParts ==
    ASSUME NEW ask \in Asks
    PROVE  /\ ask[1] \in {"count", "entry", "object"}
           /\ ask[1] = "count" => ask = <<"count", 0>>
           /\ ask[1] = "entry" => ask[2] \in Nat /\ ask = <<"entry", ask[2]>>
           /\ ask[1] = "object" => ask[2] \in Objects /\ ask = <<"object", ask[2]>>
BY DEF Asks

LEMMA ListType ==
    ASSUME NEW dev \in Devices
    PROVE  /\ ObjectList[dev] \in Seq(Objects) /\ Len(ObjectList[dev]) \in Nat
           /\ \A i \in 1 .. Len(ObjectList[dev]) : ObjectList[dev][i] \in Objects
           /\ DOMAIN ObjectList[dev] = 1 .. Len(ObjectList[dev])
           /\ ToSet(ObjectList[dev]) \subseteq Objects
BY ListAssumption DEF ToSet

(* What a device answers to the three questions ...                        *)
LEMMA CountAnswer ==
    ASSUME NEW dev \in Devices, NEW id \in Ids
    PROVE  Answers(dev, id, <<"count", 0>>) =
             {[type |-> "ack", dev |-> dev, id |-> id, ask |-> <<"count", 0>>,
               val |-> Len(ObjectList[dev]) + 1]}
BY DEF Answers

LEMMA EntryAnswer ==
    ASSUME NEW dev \in Devices, NEW id \in Ids, NEW n \in Nat
    PROVE  /\ n - 1 \in DOMAIN ObjectList[dev] =>
                Answers(dev, id, <<"entry", n>>) =
                  {[type |-> "ack", dev |-> dev, id |-> id, ask |-> <<"entry", n>>,
                    val |-> ObjectList[dev][n - 1]]}
           /\ n - 1 \notin DOMAIN ObjectList[dev] =>
                Answers(dev, id, <<"entry", n>>) =
                  {[type |-> "error", dev |-> dev, id |-> id, ask |-> <<"entry", n>>,
                    val |-> None]}
BY DEF Answers

LEMMA ObjectAnswer ==
    ASSUME NEW dev \in Devices, NEW id \in Ids, NEW o \in Objects
    PROVE  /\ o \in ToSet(ObjectList[dev]) =>
                Answers(dev, id, <<"object", o>>) =
                  {[type |-> "ack", dev |-> dev, id |-> id, ask |-> <<"object", o>>,
                    val |-> v] : v \in IF o \in Multistate THEN Readings ELSE {None}}
           /\ o \notin ToSet(ObjectList[dev]) =>
                Answers(dev, id, <<"object", o>>) =
                  {[type |-> "error", dev |-> dev, id |-> id, ask |-> <<"object", o>>,
                    val |-> None]}
BY DEF Answers

(* ... is a packet the handlers know.                                      *)
LEMMA AnswerSound ==
    ASSUME NEW dev \in Devices, NEW id \in Ids, NEW ask \in Asks, NEW p \in Answers(dev, id, ask)
    PROVE  /\ PacketSound(p)
           /\ p.dev = dev /\ p.id = id /\ p.ask = ask /\ p.type \in {"ack", "error"}
<1>1. id \in 0 .. MaxId /\ id # 0
  BY Numbers DEF Ids
<1>2. \A t \in {"ack", "error"}, v \in Nat \cup Objects \cup {None} :
        LET q == [type |-> t, dev |-> dev, id |-> id, ask |-> ask, val |-> v]
        IN  /\ q \in Packets
            /\ q.dev = dev /\ q.id = id /\ q.ask = ask /\ q.type = t /\ q.val = v
  BY <1>1 DEF Packets
<1>3. CASE ask[1] = "count"
  <2>1. ask = <<"count", 0>> /\ Len(ObjectList[dev]) + 1 \in Nat
    BY <1>3, AskParts, ListType
  <2>2. p = [type |-> "ack", dev |-> dev, id |-> id, ask |-> ask, val |-> Len(ObjectList[dev]) + 1]
    BY <2>1, CountAnswer
  <2> QED
    BY <1>1, <1>2, <1>3, <2>1, <2>2 DEF PacketSound
<1>4. CASE ask[1] = "entry"
  <2>1. PICK n \in Nat : ask = <<"entry", n>>
    BY <1>4, AskParts
  <2>2. p \in Answers(dev, id, <<"entry", n>>)
    BY <2>1, Zenon
  <2>3. CASE n - 1 \in DOMAIN ObjectList[dev]
    <3>1. ObjectList[dev][n - 1] \in Objects
      BY <2>3, ListType
    <3>4. Answers(dev, id, <<"entry", n>>) =
            {[type |-> "ack", dev |-> dev, id |-> id, ask |-> <<"entry", n>>,
              val |-> ObjectList[dev][n - 1]]}
      BY <2>3, EntryAnswer
    <3>2. p = [type |-> "ack", dev |-> dev, id |-> id, ask |-> <<"entry", n>>,
               val |-> ObjectList[dev][n - 1]]
      BY <2>2, <3>4, Zenon
    <3>3. p = [type |-> "ack", dev |-> dev, id |-> id, ask |-> ask,
               val |-> ObjectList[dev][n - 1]]
      BY <2>1, <3>2, Zenon
    <3> QED
      BY <1>1, <1>2, <1>4, <3>1, <3>3 DEF PacketSound
  <2>4. CASE n - 1 \notin DOMAIN ObjectList[dev]
    <3>4. Answers(dev, id, <<"entry", n>>) =
            {[type |-> "error", dev |-> dev, id |-> id, ask |-> <<"entry", n>>, val |-> None]}
      BY <2>4, EntryAnswer
    <3>1. p = [type |-> "error", dev |-> dev, id |-> id, ask |-> <<"entry", n>>, val |-> None]
      BY <2>2, <3>4, Zenon
    <3>2. p = [type |-> "error", dev |-> dev, id |-> id, ask |-> ask, val |-> None]
      BY <2>1, <3>1, Zenon
    <3> QED
      BY <1>1, <1>2, <3>2 DEF PacketSound
  <2> QED
    BY <2>3, <2>4
<1>5. CASE ask[1] = "object"
  <2>1. PICK o \in Objects : ask = <<"object", o>>
    BY <1>5, AskParts
  <2>2. p \in Answers(dev, id, <<"object", o>>)
    BY <2>1, Zenon
  <2>3. CASE o \in ToSet(ObjectList[dev])
    <3> DEFINE read == IF o \in Multistate THEN Readings ELSE {None}
    <3>3. read \subseteq Nat \cup {None}
      BY ListAssumption
    <3>4. Answers(dev, id, <<"object", o>>) =
            {[type |-> "ack", dev |-> dev, id |-> id, ask |-> <<"object", o>>, val |-> v] :
               v \in read}
      BY <2>3, ObjectAnswer
    <3>5. p \in {[type |-> "ack", dev |-> dev, id |-> id, ask |-> <<"object", o>>, val |-> v] :
                   v \in read}
      BY <2>2, <3>4, Zenon
    <3>1. PICK v \in Nat \cup {None} :
            p = [type |-> "ack", dev |-> dev, id |-> id, ask |-> <<"object", o>>, val |-> v]
      <4> HIDE DEF read
      <4> QED
        BY <3>3, <3>5
    <3>2. p = [type |-> "ack", dev |-> dev, id |-> id, ask |-> ask, val |-> v]
      BY <2>1, <3>1, Zenon
    <3> QED
      BY <1>1, <1>2, <1>5, <3>2 DEF PacketSound
  <2>4. CASE o \notin ToSet(ObjectList[dev])
    <3>4. Answers(dev, id, <<"object", o>>) =
            {[type |-> "error", dev |-> dev, id |-> id, ask |-> <<"object", o>>, val |-> None]}
      BY <2>4, ObjectAnswer
    <3>1. p = [type |-> "error", dev |-> dev, id |-> id, ask |-> <<"object", o>>, val |-> None]
      BY <2>2, <3>4, Zenon
    <3>2. p = [type |-> "error", dev |-> dev, id |-> id, ask |-> ask, val |-> None]
      BY <2>1, <3>1, Zenon
    <3> QED
      BY <1>1, <1>2, <3>2 DEF PacketSound
  <2> QED
    BY <2>3, <2>4
<1> QED
  BY <1>3, <1>4, <1>5, AskParts

LEMMA AbortSound ==
    ASSUME NEW w \in Requests
    PROVE  /\ PacketSound(Abort(w))
           /\ Abort(w).dev = w.dev /\ Abort(w).id = w.id /\ Abort(w).ask = w.ask
<1>1. w.id \in 0 .. MaxId /\ w.id # 0 /\ w.dev \in Devices /\ w.ask \in Asks
  BY Numbers DEF Requests, Ids
<1> QED
  BY <1>1 DEF Abort, PacketSound, Packets

LEMMA IAmSound ==
    ASSUME NEW d \in Devices
    PROVE  PacketSound(IAm(d)) /\ IAm(d).id = 0 /\ IAm(d).type = "iam"
<1>1. 0 \in 0 .. MaxId
  BY Numbers
<1> QED
  BY <1>1 DEF IAm, PacketSound, Packets

-----------------------------------------------------------------------------
(* The invoke ids.                                                         *)

(* The id that is found is free; with all ids free there is one.           *)
LEMMA FreeId ==
    ASSUME TypeOK
    PROVE  LET id == tsm_next_free_invokeID
           IN  /\ id \in Ids \cup {0}
               /\ id # 0 => tsm[id].state = "free"
               /\ NoneUsed => id # 0
<1> DEFINE unused == {i \in Ids : tsm[i].state = "free"}
           after(i) == (i - Current_Invoke_ID) % MaxId
           S == {after(i) : i \in unused}
           id == CHOOSE i \in unused : \A j \in unused : after(i) <= after(j)
<1>1. CASE unused = {}
  BY <1>1, Numbers DEF tsm_next_free_invokeID, NoneUsed
<1>2. CASE unused # {}
  <2>1. Current_Invoke_ID \in Int /\ \A i \in unused : i \in Int
    BY Numbers DEF TypeOK
  <2>2. \A i \in unused : after(i) \in 0 .. MaxId - 1
    BY <2>1, Numbers
  <2>3. S \subseteq Nat /\ S # {}
    <3>1. 0 .. MaxId - 1 \subseteq Nat
      OBVIOUS
    <3>2. S # {}
      <4>1. PICK i : i \in unused
        BY <1>2
      <4> QED
        BY <4>1
    <3>3. S \subseteq 0 .. MaxId - 1
      <4> HIDE DEF after, unused
      <4> QED
        BY <2>2
    <3> QED
      BY <3>1, <3>2, <3>3
  <2>4. \E k \in S : \A j \in S : k <= j
    <3> HIDE DEF S
    <3> QED
      BY <2>3, LeastNumber
  <2>5. \E i \in unused : \A j \in unused : after(i) <= after(j)
    BY <2>4
  <2>6. id \in unused
    BY <2>5
  <2>7. tsm_next_free_invokeID = id
    BY <1>2 DEF tsm_next_free_invokeID
  <2> QED
    BY <2>6, <2>7, Numbers
<1> QED
  BY <1>1, <1>2

LEMMA NextIdType ==
    ASSUME NEW id \in Ids
    PROVE  NextInvokeID(id) \in Ids
<1>1. id \in Int /\ MaxId \in Nat /\ MaxId > 0
  BY Numbers
<1>2. id % MaxId \in 0 .. MaxId - 1
  BY <1>1
<1> QED
  BY <1>1, <1>2 DEF NextInvokeID, Ids

(* A transmission puts the request on the line or loses it; without        *)
(* trouble it puts it there to be answered at once.                        *)
LEMMA Transmitted ==
    ASSUME TypeOK, NEW id, NEW ask, NEW dev, Transmit(id, ask, dev)
    PROVE  /\ troubles' \in 0 .. MaxTroubles /\ troubles <= troubles'
           /\ \E due \in BOOLEAN :
                wire' \in {wire, wire \cup {[id |-> id, ask |-> ask, dev |-> dev, due |-> due]}}
           /\ troubles' = 0 =>
                /\ troubles = 0
                /\ wire' = wire \cup {[id |-> id, ask |-> ask, dev |-> dev, due |-> TRUE]}
<1>1. troubles \in 0 .. MaxTroubles /\ MaxTroubles \in Nat
  BY Numbers DEF TypeOK
<1> DEFINE At(due) == [id |-> id, ask |-> ask, dev |-> dev, due |-> due]
<1>2. CASE wire' = wire \cup {At(TRUE)} /\ UNCHANGED troubles
  <2>1. \E due \in BOOLEAN : wire' \in {wire, wire \cup {At(due)}}
    BY <1>2
  <2> QED
    BY <1>1, <1>2, <2>1
<1>3. CASE wire' = wire \cup {At(FALSE)} /\ Trouble
  <2>1. \E due \in BOOLEAN : wire' \in {wire, wire \cup {At(due)}}
    BY <1>3
  <2>2. troubles' \in 0 .. MaxTroubles /\ troubles <= troubles' /\ troubles' # 0
    BY <1>1, <1>3 DEF Trouble
  <2> QED
    BY <2>1, <2>2
<1>4. CASE UNCHANGED wire /\ Trouble
  <2>1. \E due \in BOOLEAN : wire' \in {wire, wire \cup {At(due)}}
    BY <1>4
  <2>2. troubles' \in 0 .. MaxTroubles /\ troubles <= troubles' /\ troubles' # 0
    BY <1>1, <1>4 DEF Trouble
  <2> QED
    BY <2>1, <2>2
<1> QED
  BY <1>2, <1>3, <1>4 DEF Transmit

-----------------------------------------------------------------------------
(* What a receive leaves behind.                                           *)
Transaction == [state : {"free", "await", "failed"}, RetryCount : 0 .. Retries,
                ask : Asks \cup {None}, dev : Devices \cup {None}]
Row == [dev : Devices, obj : Objects]

(* The tables keep their types; devices are only added, and the row        *)
(* counters stay within the table.                                         *)
KnownKept ==
    /\ known' \in Seq(Devices) /\ IsInjective(known')
    /\ Len(known) <= Len(known')
    /\ \A i \in 1 .. Len(known) : known'[i] = known[i]
RowsKept ==
    /\ table' \in Seq(Row) /\ Len(table) <= Len(table')
    /\ register_number' \in 0 .. Len(table')
Freed(id) ==
    /\ tsm' \in [Ids -> Transaction]
    /\ \A i \in Ids : tsm'[i] = IF i = id THEN Free ELSE tsm[i]

LEMMA FreeType == Free \in Transaction
<1>1. 0 \in 0 .. Retries
  BY Numbers
<1> QED
  BY <1>1 DEF Free, Transaction

(* Adding a device that is not known yet.                                  *)
LEMMA Added ==
    ASSUME TypeOK, NEW d \in Devices, known' = address_table_add(d)
    PROVE  KnownKept
<1>1. known \in Seq(Devices) /\ Len(known) \in Nat /\ DOMAIN known = 1 .. Len(known)
      /\ \A i, j \in 1 .. Len(known) : known[i] = known[j] => i = j
  BY DEF TypeOK, IsInjective
<1>2. CASE d \in ToSet(known)
  <2>1. known' = known
    BY <1>2 DEF address_table_add
  <2> QED
    BY <1>1, <2>1 DEF KnownKept, IsInjective
<1>3. CASE d \notin ToSet(known)
  <2>1. known' = Append(known, d)
    BY <1>3 DEF address_table_add
  <2>2. \A i \in 1 .. Len(known) : known[i] # d
    BY <1>1, <1>3 DEF ToSet
  <2>3. /\ known' \in Seq(Devices) /\ Len(known') = Len(known) + 1
        /\ DOMAIN known' = 1 .. Len(known) + 1
        /\ \A i \in 1 .. Len(known) : known'[i] = known[i]
        /\ known'[Len(known) + 1] = d
    BY <1>1, <2>1
  <2>4. \A i, j \in 1 .. Len(known) + 1 : known'[i] = known'[j] => i = j
    BY <1>1, <2>2, <2>3
  <2> QED
    BY <1>1, <2>3, <2>4 DEF KnownKept, IsInjective
<1> QED
  BY <1>2, <1>3

(* A row is written at the counter.                                        *)
LEMMA Written ==
    ASSUME TypeOK, NEW row \in Row, WriteRow(row), register_number' = register_number + 1
    PROVE  /\ RowsKept
           /\ table'[register_number'] = row
           /\ \A i \in 1 .. register_number : table'[i] = table[i]
<1>1. table \in Seq(Row) /\ Len(table) \in Nat /\ register_number \in 0 .. Len(table)
  BY DEF TypeOK, Row
<1>2. CASE register_number < Len(table)
  <2>1. table' = [table EXCEPT ![register_number + 1] = row]
    BY <1>2 DEF WriteRow
  <2>2. register_number + 1 \in 1 .. Len(table)
    BY <1>1, <1>2
  <2>3. /\ table' \in Seq(Row) /\ Len(table') = Len(table)
        /\ table'[register_number + 1] = row
        /\ \A i \in 1 .. Len(table) : i # register_number + 1 => table'[i] = table[i]
    BY <1>1, <2>1, <2>2
  <2> QED
    BY <1>1, <2>2, <2>3 DEF RowsKept
<1>3. CASE ~(register_number < Len(table))
  <2>1. table' = Append(table, row) /\ register_number = Len(table)
    BY <1>1, <1>3 DEF WriteRow
  <2>2. /\ table' \in Seq(Row) /\ Len(table') = Len(table) + 1
        /\ table'[Len(table) + 1] = row
        /\ \A i \in 1 .. Len(table) : table'[i] = table[i]
    BY <1>1, <2>1
  <2> QED
    BY <1>1, <2>1, <2>2 DEF RowsKept
<1> QED
  BY <1>2, <1>3

(* One packet handled.                                                     *)
LEMMA Handled ==
    ASSUME TypeOK, NEW p, PacketSound(p), npdu_handler(p)
    PROVE  /\ KnownKept /\ RowsKept /\ Freed(p.id)
           /\ Object_Num' \in Nat /\ Error_Detected' \in BOOLEAN
           /\ p.type # "iam" => known' = known
           /\ p.type # "abort" => Error_Detected' = Error_Detected
           /\ Accepted(p) /\ p.ask[1] # "entry" /\ p.val # None => Object_Num' = p.val
           /\ Accepted(p) /\ p.ask[1] = "object" =>
                /\ register_number' = register_number + 1
                /\ table'[register_number'] = [dev |-> p.dev, obj |-> p.ask[2]]
                /\ \A i \in 1 .. register_number : table'[i] = table[i]
           /\ ~(Accepted(p) /\ p.ask[1] = "object") => UNCHANGED rows
<1>1. p \in Packets /\ p.dev \in Devices /\ p.id \in 0 .. MaxId
  BY DEF PacketSound, Packets
<1>2. KnownKept /\ (p.type # "iam" => known' = known)
  <2>1. CASE p.type = "iam"
    <3>1. known' = address_table_add(p.dev)
      BY <2>1 DEF npdu_handler
    <3> QED
      BY <1>1, <2>1, <3>1, Added
  <2>2. CASE p.type # "iam"
    <3>1. known' = known
      BY <2>2 DEF npdu_handler
    <3> QED
      BY <2>2, <3>1 DEF KnownKept, TypeOK
  <2> QED
    BY <2>1, <2>2
<1>3. Freed(p.id)
  <2>1. tsm \in [Ids -> Transaction]
    BY DEF TypeOK, Transaction
  <2>2. tsm' = IF p.id \in Ids THEN [tsm EXCEPT ![p.id] = Free] ELSE tsm
    BY DEF npdu_handler
  <2> QED
    BY <2>1, <2>2, FreeType DEF Freed
<1>4. Object_Num' \in Nat
  <2>1. Object_Num \in Nat
    BY DEF TypeOK
  <2>2. CASE Accepted(p) /\ p.ask[1] # "entry" /\ p.val # None
    <3>1. Object_Num' = p.val
      BY <2>2 DEF npdu_handler
    <3>2. p.type = "ack"
      BY <2>2 DEF Accepted
    <3> QED
      BY <2>2, <3>1, <3>2 DEF PacketSound
  <2>3. CASE ~(Accepted(p) /\ p.ask[1] # "entry" /\ p.val # None)
    <3>1. Object_Num' = Object_Num
      BY <2>3 DEF npdu_handler
    <3> QED
      BY <2>1, <3>1
  <2> QED
    BY <2>2, <2>3
<1>5. Error_Detected' \in BOOLEAN /\ (p.type # "abort" => Error_Detected' = Error_Detected)
  <2>1. Error_Detected \in BOOLEAN
    BY DEF TypeOK
  <2>2. Error_Detected' = (Error_Detected \/ p.type = "abort")
    BY DEF npdu_handler
  <2> QED
    BY <2>1, <2>2
<1>6. CASE Accepted(p) /\ p.ask[1] = "object"
  <2>1. information_copy(p)
    BY <1>6 DEF npdu_handler
  <2>2. p.type = "ack" /\ p.type # "iam"
    BY <1>6 DEF Accepted
  <2>3. p.ask \in Asks
    BY <2>2 DEF PacketSound
  <2>4. p.ask[2] \in Objects
    BY <1>6, <2>3, AskParts
  <2>5. [dev |-> p.dev, obj |-> p.ask[2]] \in Row
    BY <1>1, <2>4 DEF Row
  <2>6. PICK row \in Row : row = [dev |-> p.dev, obj |-> p.ask[2]]
    BY <2>5
  <2>7. WriteRow(row) /\ register_number' = register_number + 1
    BY <2>1, <2>6 DEF information_copy, WriteRow
  <2>8. /\ RowsKept
        /\ table'[register_number'] = row
        /\ \A i \in 1 .. register_number : table'[i] = table[i]
    BY <2>7, Written
  <2>9. Accepted(p) /\ p.ask[1] # "entry" /\ p.val # None => Object_Num' = p.val
    BY DEF npdu_handler
  <2> QED
    BY <1>2, <1>3, <1>4, <1>5, <1>6, <2>6, <2>7, <2>8, <2>9
<1>7. CASE ~(Accepted(p) /\ p.ask[1] = "object")
  <2>1. UNCHANGED rows
    BY <1>7 DEF npdu_handler
  <2>2. RowsKept
    <3>1. table \in Seq(Row) /\ Len(table) \in Nat /\ register_number \in 0 .. Len(table)
      BY DEF TypeOK, Row
    <3> QED
      BY <2>1, <3>1 DEF RowsKept, rows
  <2>3. Accepted(p) /\ p.ask[1] # "entry" /\ p.val # None => Object_Num' = p.val
    BY DEF npdu_handler
  <2> QED
    BY <1>2, <1>3, <1>4, <1>5, <1>7, <2>1, <2>2, <2>3
<1> QED
  BY <1>6, <1>7

(* A whole receive.                                                        *)
LEMMA Received ==
    ASSUME TypeOK, PacketsSound, OneExchange, dlmstp_receive
    PROVE  /\ KnownKept /\ RowsKept
           /\ tsm' \in [Ids -> Transaction]
           /\ \A i \in Ids : \/ tsm'[i] = tsm[i]
                             \/ /\ tsm'[i] = Free /\ mailbox # None /\ mailbox.id = i
           /\ Object_Num' \in Nat /\ Error_Detected' \in BOOLEAN
           /\ Decoded \in Objects
           /\ wire' \subseteq Requests /\ mailbox' = None
           /\ \A w \in wire' : \E v \in wire : w.id = v.id /\ w.ask = v.ask /\ w.dev = v.dev
           /\ PacketsSound' /\ OneExchange'
<1>1. wire \subseteq Requests /\ mailbox' = None
  BY DEF PacketsSound, dlmstp_receive
<1>2. /\ KnownKept /\ RowsKept
      /\ tsm' \in [Ids -> Transaction]
      /\ \A i \in Ids : \/ tsm'[i] = tsm[i]
                        \/ /\ tsm'[i] = Free /\ mailbox # None /\ mailbox.id = i
      /\ Object_Num' \in Nat /\ Error_Detected' \in BOOLEAN
  <2>1. CASE mailbox = None
    <3>1. UNCHANGED <<tsm, known, Object_Num, Error_Detected, rows>>
      BY <2>1 DEF dlmstp_receive
    <3>2. /\ tsm \in [Ids -> Transaction] /\ known \in Seq(Devices) /\ IsInjective(known)
          /\ Object_Num \in Nat /\ Error_Detected \in BOOLEAN
          /\ table \in Seq(Row) /\ register_number \in 0 .. Len(table)
      BY DEF TypeOK, Transaction, Row
    <3> QED
      BY <3>1, <3>2 DEF KnownKept, RowsKept, rows
  <2>2. CASE mailbox # None
    <3>1. PacketSound(mailbox) /\ npdu_handler(mailbox)
      BY <2>2 DEF dlmstp_receive, PacketsSound
    <3>2. PICK p : p = mailbox
      OBVIOUS
    <3>3. PacketSound(p) /\ npdu_handler(p)
      BY <3>1, <3>2
    <3>4. /\ KnownKept /\ RowsKept /\ Freed(p.id)
          /\ Object_Num' \in Nat /\ Error_Detected' \in BOOLEAN
      BY <3>3, Handled
    <3> QED
      BY <2>2, <3>2, <3>4 DEF Freed
  <2> QED
    BY <2>1, <2>2
<1>3. Decoded \in Objects
  <2>1. temp \in Objects
    BY DEF TypeOK
  <2>2. CASE mailbox # None /\ Accepted(mailbox) /\ mailbox.ask[1] = "entry"
    <3>1. PacketSound(mailbox) /\ mailbox.type = "ack"
      BY <2>2 DEF PacketsSound, Accepted
    <3>2. Decoded = mailbox.val
      BY <2>2 DEF Decoded, DecodedFrom
    <3> QED
      BY <2>2, <3>1, <3>2 DEF PacketSound
  <2> QED
    BY <2>1, <2>2 DEF Decoded, DecodedFrom
<1>4. /\ wire' \subseteq Requests
      /\ \A w \in wire' : \E v \in wire : w.id = v.id /\ w.ask = v.ask /\ w.dev = v.dev
  <2>1. CASE wire' = wire
    BY <1>1, <2>1
  <2>2. CASE wire' = {[w EXCEPT !.due = TRUE] : w \in wire}
    <3>1. \A v \in wire : /\ [v EXCEPT !.due = TRUE] \in Requests
                          /\ [v EXCEPT !.due = TRUE].id = v.id
                          /\ [v EXCEPT !.due = TRUE].ask = v.ask
                          /\ [v EXCEPT !.due = TRUE].dev = v.dev
      BY <1>1 DEF Requests
    <3> QED
      BY <2>2, <3>1
  <2> QED
    BY <2>1, <2>2 DEF dlmstp_receive
<1>5. PacketsSound'
  BY <1>1, <1>4 DEF PacketsSound
<1>6. OneExchange'
  <2>1. \A w \in wire' : w.id \in Ids
    BY <1>4 DEF Requests
  <2>2. ASSUME NEW w \in wire'
        PROVE  Holds(w.id, w.ask, w.dev)'
    <3>1. PICK v \in wire : w.id = v.id /\ w.ask = v.ask /\ w.dev = v.dev
      BY <1>4
    <3>2. Holds(v.id, v.ask, v.dev) /\ (mailbox # None /\ mailbox.id # 0 => v.id # mailbox.id)
      BY DEF OneExchange
    <3>3. w.id \in Ids /\ w.id # 0
      BY <2>1, Numbers
    <3>4. tsm'[w.id] = tsm[w.id]
      BY <1>2, <3>1, <3>2, <3>3
    <3> QED
      BY <3>1, <3>2, <3>4 DEF Holds
  <2>3. \A w, v \in wire' : w.id = v.id => w = v
    <3>1. \A w, v \in wire : w.id = v.id => w = v
      BY DEF OneExchange
    <3>2. CASE wire' = wire
      BY <3>1, <3>2
    <3>3. CASE wire' = {[w EXCEPT !.due = TRUE] : w \in wire}
      <4>1. \A w \in wire : [w EXCEPT !.due = TRUE].id = w.id
        BY <1>1 DEF Requests
      <4>2. ASSUME NEW w \in wire', NEW v \in wire', w.id = v.id
            PROVE  w = v
        <5>1. PICK a \in wire : w = [a EXCEPT !.due = TRUE]
          BY <3>3
        <5>2. PICK b \in wire : v = [b EXCEPT !.due = TRUE]
          BY <3>3
        <5>3. a.id = b.id
          BY <4>1, <4>2, <5>1, <5>2
        <5>4. a = b
          BY <3>1, <5>3
        <5> QED
          BY <5>1, <5>2, <5>4
      <4> QED
        BY <4>2
    <3> QED
      BY <3>2, <3>3 DEF dlmstp_receive
  <2>4. Pending'
    BY <1>2 DEF OneExchange, Pending, Free
  <2> QED
    BY <1>1, <2>2, <2>3, <2>4 DEF OneExchange
<1> QED
  BY <1>1, <1>2, <1>3, <1>4, <1>5, <1>6

-----------------------------------------------------------------------------
(* The invariant holds initially, and every step keeps it.                 *)

LEMMA InitInv == Init => IInv
<1> SUFFICES ASSUME Init PROVE IInv
  OBVIOUS
<1>1. TypeOK
  <2>1. tsm \in [Ids -> Transaction]
    BY FreeType DEF Init
  <2>2. known \in Seq(Devices) /\ IsInjective(known)
    BY DEF Init, IsInjective
  <2>3. /\ Current_Invoke_ID \in Ids /\ Request_Invoke_ID \in Ids \cup {0}
        /\ {Object_Num, entryNum, at} \subseteq Nat /\ troubles \in 0 .. MaxTroubles
    BY Numbers DEF Init
  <2>4. /\ phase \in {"head", "count", "entry", "object", "publish", "ended"}
        /\ step \in {"ask", "asked", "wait", "ended"}
        /\ {started, full, Error_Detected} \subseteq BOOLEAN
    BY DEF Init
  <2>5. temp \in Objects /\ list \in Seq(Objects)
    BY ListAssumption DEF Init
  <2>6. /\ table \in Seq([dev : Devices, obj : Objects])
        /\ register_number \in 0 .. Len(table) /\ tableNumber \in 0 .. Len(table)
    BY DEF Init
  <2> QED
    BY <2>1, <2>2, <2>3, <2>4, <2>5, <2>6 DEF TypeOK, Transaction
<1>2. PacketsSound /\ Placed /\ OneExchange
  BY DEF Init, PacketsSound, Placed, OneExchange, Requesting, Pending, Free
<1>3. AsksCurrent
  BY DEF Init, AsksCurrent, Waiting, Requesting
<1>4. Quiet
  BY DEF Init, Quiet, Waiting, Requesting, NoneUsed, Free
<1> QED
  BY <1>1, <1>2, <1>3, <1>4 DEF IInv

(* The parts of a step that only moves a packet.                           *)
Still == UNCHANGED <<trans, control, rows, heard, shown, Request_Invoke_ID>>

LEMMA StillTypes ==
    ASSUME TypeOK, Still, troubles' \in 0 .. MaxTroubles
    PROVE  TypeOK'
BY DEF Still, TypeOK, trans, control, rows, heard, shown

(* With trouble on the line nothing is left to say about a quiet one.      *)
LEMMA NoisyAfter ==
    ASSUME TypeOK, Trouble
    PROVE  troubles' \in 0 .. MaxTroubles /\ troubles' # 0
<1>1. troubles \in 0 .. MaxTroubles /\ MaxTroubles \in Nat
  BY Numbers DEF TypeOK
<1> QED
  BY <1>1 DEF Trouble

(* A device answers request w with packet p.                               *)
LEMMA Arrives ==
    ASSUME IInv, Still, NEW w \in wire, wire' = wire \ {w},
           NEW p, PacketSound(p), p.id = w.id, p.ask = w.ask, p.dev = w.dev,
           MSTP_Put_Receive(p), troubles' \in 0 .. MaxTroubles
    PROVE  TypeOK' /\ PacketsSound' /\ Placed' /\ OneExchange' /\ AsksCurrent'
<1>1. TypeOK' /\ PacketsSound /\ Placed /\ OneExchange /\ AsksCurrent
  BY StillTypes DEF IInv
<1>2. mailbox' = IF mailbox # None THEN mailbox ELSE p
  BY DEF MSTP_Put_Receive
<1>3. PacketsSound'
  BY <1>1, <1>2 DEF PacketsSound, PacketSound
<1>4. Placed'
  BY <1>1 DEF Still, Placed, Requesting, control, heard
<1>5. OneExchange'
  <2>1. tsm' = tsm
    BY DEF Still, trans
  <2>2. CASE mailbox # None
    BY <1>1, <1>2, <2>1, <2>2 DEF OneExchange, Holds, Pending
  <2>3. CASE mailbox = None
    <3>1. mailbox' = p
      BY <1>2, <2>3
    <3>2. Holds(p.id, p.ask, p.dev) /\ \A v \in wire \ {w} : v.id # p.id
      BY <1>1 DEF OneExchange, Holds
    <3>3. \A v \in wire \ {w} : Holds(v.id, v.ask, v.dev)
      BY <1>1 DEF OneExchange
    <3>4. \A v, u \in wire \ {w} : v.id = u.id => v = u
      BY <1>1 DEF OneExchange
    <3> QED
      BY <1>1, <2>1, <3>1, <3>2, <3>3, <3>4 DEF OneExchange, Holds, Pending
  <2> QED
    BY <2>2, <2>3
<1>6. AsksCurrent'
  <2>1. /\ phase' = phase /\ step' = step /\ Request_Invoke_ID' = Request_Invoke_ID
        /\ tsm' = tsm /\ Target_Address' = Target_Address /\ at' = at /\ list' = list
    BY DEF Still, trans, control
  <2>2. Ask' = Ask
    BY <2>1 DEF Ask
  <2> QED
    BY <1>1, <2>1, <2>2 DEF AsksCurrent, Waiting, Requesting, Holds
<1> QED
  BY <1>1, <1>3, <1>4, <1>5, <1>6

LEMMA DeliverInv == IInv /\ Deliver => IInv'
<1> SUFFICES ASSUME IInv, Deliver PROVE IInv'
  OBVIOUS
<1>1. TypeOK /\ PacketsSound /\ Still
  BY DEF IInv, Deliver, Still
<1>2. PICK w \in wire :
        /\ w.due
        /\ wire' = wire \ {w}
        /\ \/ /\ \E p \in Answers(w.dev, w.id, w.ask) : MSTP_Put_Receive(p)
              /\ UNCHANGED troubles
           \/ MSTP_Put_Receive(Abort(w)) /\ Trouble
  BY DEF Deliver
<1>3. w \in Requests /\ w.id \in Ids /\ w.dev \in Devices /\ w.ask \in Asks
  BY <1>1 DEF PacketsSound, Requests
<1>4. CASE MSTP_Put_Receive(Abort(w)) /\ Trouble
  <2>1. PICK p : p = Abort(w)
    OBVIOUS
  <2>2. PacketSound(p) /\ p.dev = w.dev /\ p.id = w.id /\ p.ask = w.ask
    BY <1>3, <2>1, AbortSound
  <2>3. MSTP_Put_Receive(p)
    BY <1>4, <2>1 DEF MSTP_Put_Receive
  <2>4. troubles' \in 0 .. MaxTroubles /\ troubles' # 0
    BY <1>1, <1>4, NoisyAfter
  <2>5. TypeOK' /\ PacketsSound' /\ Placed' /\ OneExchange' /\ AsksCurrent'
    BY <1>1, <1>2, <2>2, <2>3, <2>4, Arrives
  <2> QED
    BY <2>4, <2>5 DEF IInv
<1>5. ASSUME NEW p \in Answers(w.dev, w.id, w.ask), MSTP_Put_Receive(p), UNCHANGED troubles
      PROVE  IInv'
  <2>1. PacketSound(p) /\ p.dev = w.dev /\ p.id = w.id /\ p.ask = w.ask
    BY <1>3, <1>5, AnswerSound
  <2>2. troubles' \in 0 .. MaxTroubles
    BY <1>1, <1>5 DEF TypeOK
  <2>3. TypeOK' /\ PacketsSound' /\ Placed' /\ OneExchange' /\ AsksCurrent'
    BY <1>1, <1>2, <1>5, <2>1, <2>2, Arrives
  <2>4. ASSUME troubles' = 0
        PROVE  Quiet'
    <3>1. Quiet
      BY <1>5, <2>4 DEF IInv
    <3>2. Waiting /\ Exchange
      <4>1. step # "ask" /\ phase # "head"
        BY <1>2, <3>1 DEF Quiet
      <4>2. phase # "publish" /\ phase # "ended"
        BY <3>1, <4>1 DEF IInv, Placed, Quiet
      <4>3. step # "ended"
        BY <4>2 DEF IInv, Placed
      <4>4. Waiting
        BY <1>1, <4>1, <4>2, <4>3 DEF TypeOK, Waiting, Requesting
      <4> QED
        BY <3>1, <4>4 DEF Quiet
    <3>3. /\ phase' = phase /\ step' = step /\ Request_Invoke_ID' = Request_Invoke_ID
          /\ tsm' = tsm /\ Target_Address' = Target_Address /\ at' = at /\ list' = list
          /\ Error_Detected' = Error_Detected /\ register_number' = register_number
          /\ entryNum' = entryNum /\ table' = table
      BY <1>1 DEF Still, trans, control, rows, heard
    <3>4. Ask' = Ask
      BY <3>3 DEF Ask
    <3>5. /\ w = [id |-> Request_Invoke_ID, ask |-> Ask, dev |-> Target_Address, due |-> TRUE]
          /\ wire = {w} /\ mailbox = None
      BY <1>2, <3>2 DEF Exchange
    <3>6. wire' = {} /\ mailbox' = p
      BY <1>2, <1>5, <3>5 DEF MSTP_Put_Receive
    <3>7. p \in Answers(Target_Address, Request_Invoke_ID, Ask)
      <4>1. w.id = Request_Invoke_ID /\ w.ask = Ask /\ w.dev = Target_Address
        BY <3>5
      <4> QED
        BY <1>5, <4>1, Zenon
    <3>8. mailbox' \in Answers(Target_Address, Request_Invoke_ID, Ask)'
      <4>1. Answers(Target_Address, Request_Invoke_ID, Ask)'
              = Answers(Target_Address', Request_Invoke_ID', Ask')
        BY DEF Answers
      <4> QED
        BY <3>3, <3>4, <3>6, <3>7, <4>1, Zenon
    <3>9. Exchange'
      BY <3>2, <3>3, <3>6, <3>8 DEF Exchange
    <3>10. phase # "head" /\ step # "ask" /\ Requesting
      BY <3>2 DEF Waiting, Requesting
    <3> QED
      BY <3>1, <3>3, <3>9, <3>10 DEF Quiet, RowsRead, Members, Requesting
  <2> QED
    BY <2>3, <2>4 DEF IInv
<1> QED
  BY <1>2, <1>4, <1>5

LEMMA AnnounceInv == IInv /\ Announce => IInv'
<1> SUFFICES ASSUME IInv, Announce PROVE IInv'
  OBVIOUS
<1>1. TypeOK /\ PacketsSound /\ Placed /\ OneExchange /\ AsksCurrent /\ Still /\ wire' = wire
  BY DEF IInv, Announce, Still
<1>2. PICK d \in Devices : MSTP_Put_Receive(IAm(d))
  BY DEF Announce
<1>3. PICK p : p = IAm(d)
  OBVIOUS
<1>4. PacketSound(p) /\ p.id = 0 /\ p.type = "iam"
  BY <1>3, IAmSound
<1>5. mailbox' = IF mailbox # None THEN mailbox ELSE p
  BY <1>2, <1>3 DEF MSTP_Put_Receive
<1>6. troubles' \in 0 .. MaxTroubles
  BY <1>1, NoisyAfter DEF Announce, TypeOK
<1>7. TypeOK'
  BY <1>1, <1>6, StillTypes
<1>8. PacketsSound'
  BY <1>1, <1>4, <1>5 DEF PacketsSound, PacketSound
<1>9. Placed'
  BY <1>1 DEF Still, Placed, Requesting, control, heard
<1>10. OneExchange'
  <2>1. tsm' = tsm
    BY <1>1 DEF Still, trans
  <2> QED
    BY <1>1, <1>4, <1>5, <2>1 DEF OneExchange, Holds, Pending
<1>11. /\ phase' = phase /\ step' = step /\ Request_Invoke_ID' = Request_Invoke_ID
       /\ tsm' = tsm /\ Target_Address' = Target_Address /\ at' = at /\ list' = list
       /\ Error_Detected' = Error_Detected /\ register_number' = register_number
       /\ entryNum' = entryNum /\ table' = table
  BY <1>1 DEF Still, trans, control, rows, heard
<1>12. AsksCurrent'
  <2>1. Ask' = Ask
    BY <1>11 DEF Ask
  <2> QED
    BY <1>1, <1>11, <2>1 DEF AsksCurrent, Waiting, Requesting, Holds
<1>13. ASSUME troubles' = 0
       PROVE  Quiet'
  <2>1. phase = "head" /\ step = "wait" /\ mailbox = None /\ wire = {} /\ UNCHANGED troubles
    BY <1>1, <1>13, NoisyAfter DEF Announce
  <2>2. Quiet
    BY <1>13, <2>1 DEF IInv
  <2>3. mailbox' = p
    BY <1>5, <2>1
  <2> QED
    BY <1>1, <1>4, <1>11, <2>1, <2>2, <2>3 DEF Quiet, Waiting, Requesting, NoneUsed
<1> QED
  BY <1>7, <1>8, <1>9, <1>10, <1>12, <1>13 DEF IInv

(* The question the task asks, and whom.                                   *)
LEMMA AskType ==
    ASSUME TypeOK, Placed, Requesting
    PROVE  /\ Ask \in Asks /\ Target_Address \in Devices
           /\ phase = "count" => Ask = <<"count", 0>>
           /\ phase = "entry" => Ask = <<"entry", at>> /\ at \in Nat
           /\ phase = "object" => Ask = <<"object", list[at]>> /\ list[at] \in Objects
<1>1. known \in Seq(Devices) /\ list \in Seq(Objects) /\ at \in Nat
  BY DEF TypeOK
<1>2. Target_Address \in Devices
  BY <1>1 DEF Placed
<1>3. phase = "count" => Ask = <<"count", 0>>
  BY DEF Ask
<1>4. phase = "entry" => Ask = <<"entry", at>>
  BY DEF Ask
<1>5. phase = "object" => Ask = <<"object", list[at]>> /\ list[at] \in Objects
  BY <1>1 DEF Ask, Placed
<1>6. Ask \in Asks
  BY <1>1, <1>3, <1>4, <1>5 DEF Asks, Requesting
<1> QED
  BY <1>1, <1>2, <1>3, <1>4, <1>5, <1>6

(* A request is put on the line under an id of which nothing is there.     *)
LEMMA Asked ==
    ASSUME PacketsSound, OneExchange, NEW id \in Ids, NEW ask \in Asks, NEW dev \in Devices,
           NEW due \in BOOLEAN,
           wire' \in {wire, wire \cup {[id |-> id, ask |-> ask, dev |-> dev, due |-> due]}},
           \A j \in Ids : j # id => tsm'[j] = tsm[j],
           Holds(id, ask, dev)',
           \A w \in wire : w.id # id,
           mailbox # None => mailbox.id # id,
           mailbox' = mailbox
    PROVE  PacketsSound' /\ OneExchange'
<1> DEFINE r == [id |-> id, ask |-> ask, dev |-> dev, due |-> due]
<1>1. r \in Requests /\ r.id = id /\ r.ask = ask /\ r.dev = dev
  BY DEF Requests
<1> HIDE DEF r
<1>2. wire' \in {wire, wire \cup {r}}
  BY DEF r
<1>3. wire \subseteq Requests /\ \A w \in wire : w.id \in Ids
  BY DEF PacketsSound, Requests
<1>4. PacketsSound'
  BY <1>1, <1>2, <1>3 DEF PacketsSound, PacketSound
<1>5. \A w \in wire' : Holds(w.id, w.ask, w.dev)'
  <2>1. \A w \in wire : Holds(w.id, w.ask, w.dev)'
    BY <1>3 DEF OneExchange, Holds
  <2> QED
    BY <1>1, <1>2, <2>1 DEF Holds
<1>6. \A w, v \in wire' : w.id = v.id => w = v
  BY <1>1, <1>2 DEF OneExchange
<1>7. mailbox' # None /\ mailbox'.id # 0 =>
           /\ Holds(mailbox.id, mailbox.ask, mailbox.dev)'
           /\ \A w \in wire' : w.id # mailbox'.id
  <2> SUFFICES ASSUME mailbox # None, mailbox.id # 0
               PROVE  /\ Holds(mailbox.id, mailbox.ask, mailbox.dev)'
                      /\ \A w \in wire' : w.id # mailbox'.id
    OBVIOUS
  <2>1. mailbox.id \in Ids
    BY DEF PacketsSound, PacketSound, Packets, Ids
  <2>2. tsm'[mailbox.id] = tsm[mailbox.id]
    BY <2>1
  <2> QED
    BY <1>1, <1>2, <2>2 DEF OneExchange, Holds
<1>8. Pending'
  BY DEF OneExchange, Pending, Holds
<1> QED
  BY <1>4, <1>5, <1>6, <1>7, <1>8 DEF OneExchange

LEMMA SendInv == IInv /\ Send => IInv'
<1> SUFFICES ASSUME IInv, Send PROVE IInv'
  OBVIOUS
<1>0. PICK id : id = tsm_next_free_invokeID
  OBVIOUS
<1>1. TypeOK /\ PacketsSound /\ Placed /\ OneExchange /\ AsksCurrent
  BY DEF IInv
<1>2. Requesting /\ step = "ask" /\ step' = "asked" /\ Request_Invoke_ID' = id
  BY <1>0 DEF Send, Requesting
<1>3. /\ UNCHANGED <<mailbox, phase, full, p_addr_entry, Target_Address, entryNum, list, at>>
      /\ UNCHANGED <<table, register_number, known, Object_Num, temp, Error_Detected,
                     tableNumber, started>>
  BY DEF Send, rows, heard, shown
<1>4. Ask \in Asks /\ Target_Address \in Devices
  BY <1>1, <1>2, AskType
<1>5. Ask' = Ask
  BY <1>3 DEF Ask
<1>6. id \in Ids \cup {0} /\ (id # 0 => tsm[id].state = "free") /\ (NoneUsed => id # 0)
  BY <1>0, <1>1, FreeId
<1>7. Placed'
  BY <1>1, <1>2, <1>3 DEF Placed, Requesting
<1>8. CASE id = 0
  <2>1. UNCHANGED <<tsm, Current_Invoke_ID, wire, troubles>>
    BY <1>0, <1>8 DEF Send, trans
  <2>2. TypeOK'
    BY <1>1, <1>2, <1>3, <1>8, <2>1 DEF TypeOK
  <2>3. PacketsSound' /\ OneExchange'
    BY <1>1, <1>3, <2>1 DEF PacketsSound, PacketSound, OneExchange, Holds, Pending
  <2>4. AsksCurrent'
    BY <1>2, <1>8 DEF AsksCurrent
  <2>5. troubles # 0
    BY <1>2, <1>6, <1>8 DEF IInv, Quiet
  <2> QED
    BY <1>7, <2>1, <2>2, <2>3, <2>4, <2>5 DEF IInv
<1>9. CASE id # 0
  <2> DEFINE row == [state |-> "await", RetryCount |-> 0, ask |-> Ask, dev |-> Target_Address]
  <2>1. /\ tsm' = [tsm EXCEPT ![id] = row]
        /\ Current_Invoke_ID' = NextInvokeID(id)
        /\ Transmit(id, Ask, Target_Address)
    BY <1>0, <1>9 DEF Send
  <2>2. id \in Ids /\ tsm[id].state = "free"
    BY <1>6, <1>9
  <2>3. row \in Transaction /\ row.state # "free" /\ row.ask = Ask /\ row.dev = Target_Address
    <3>1. 0 \in 0 .. Retries
      BY Numbers
    <3> QED
      BY <1>4, <3>1 DEF Transaction
  <2> HIDE DEF row
  <2>4. tsm \in [Ids -> Transaction]
    BY <1>1 DEF TypeOK, Transaction
  <2>5. /\ tsm' \in [Ids -> Transaction]
        /\ tsm'[id] = row
        /\ \A j \in Ids : j # id => tsm'[j] = tsm[j]
    BY <2>1, <2>2, <2>3, <2>4
  <2>6. PICK ask \in Asks, dev \in Devices : ask = Ask /\ dev = Target_Address
    BY <1>4
  <2>7. Transmit(id, ask, dev)
    BY <2>1, <2>6 DEF Transmit
  <2>8. /\ troubles' \in 0 .. MaxTroubles /\ troubles <= troubles'
        /\ \E due \in BOOLEAN :
             wire' \in {wire, wire \cup {[id |-> id, ask |-> ask, dev |-> dev, due |-> due]}}
        /\ troubles' = 0 =>
             /\ troubles = 0
             /\ wire' = wire \cup {[id |-> id, ask |-> ask, dev |-> dev, due |-> TRUE]}
    BY <1>1, <2>7, Transmitted
  <2>9. Holds(id, ask, dev)'
    BY <1>3, <2>3, <2>5, <2>6 DEF Holds
  <2>10. PacketsSound' /\ OneExchange'
    <3>1. (\A w \in wire : w.id # id) /\ (mailbox # None => mailbox.id # id)
      BY <1>1, <2>2, Numbers DEF OneExchange, Holds
    <3> QED
      BY <1>1, <1>3, <2>2, <2>5, <2>8, <2>9, <3>1, Asked
  <2>11. TypeOK'
    <3>1. Current_Invoke_ID' \in Ids
      BY <2>1, <2>2, NextIdType
    <3>2. Request_Invoke_ID' \in Ids \cup {0}
      BY <1>2, <1>6
    <3> QED
      BY <1>1, <1>2, <1>3, <2>5, <2>8, <3>1, <3>2 DEF TypeOK, Transaction
  <2>12. Request_Invoke_ID' = id /\ ask = Ask' /\ dev = Target_Address'
    BY <1>2, <1>3, <1>5, <2>6
  <2>13. AsksCurrent'
    BY <2>9, <2>12 DEF AsksCurrent, Holds
  <2>14. ASSUME troubles' = 0
         PROVE  Quiet'
    <3>1. Quiet
      BY <2>8, <2>14 DEF IInv
    <3>2. wire = {} /\ mailbox = None /\ NoneUsed
      BY <1>2, <3>1 DEF Quiet
    <3>3. wire' = {[id |-> id, ask |-> ask, dev |-> dev, due |-> TRUE]} /\ mailbox' = None
      BY <1>3, <2>8, <2>14, <3>2
    <3>4. \A i \in Ids : tsm'[i].state # "free" => i = id
      BY <2>5, <3>2 DEF NoneUsed
    <3>5. Exchange'
      BY <2>2, <2>12, <3>3, <3>4 DEF Exchange
    <3>6. phase # "head" /\ step' # "ask" /\ phase' = phase
      BY <1>2, <1>3 DEF Requesting
    <3> QED
      BY <1>3, <3>1, <3>5, <3>6 DEF Quiet, RowsRead, Members
  <2> QED
    BY <1>7, <2>10, <2>11, <2>13, <2>14 DEF IInv
<1> QED
  BY <1>8, <1>9

LEMMA BeginWaitInv == IInv /\ BeginWait => IInv'
<1> SUFFICES ASSUME IInv, BeginWait PROVE IInv'
  OBVIOUS
<1>1. TypeOK /\ PacketsSound /\ Placed /\ OneExchange /\ AsksCurrent
  BY DEF IInv
<1>2. /\ step = "asked" /\ step' = "wait" /\ full' \in BOOLEAN
      /\ UNCHANGED <<tsm, Current_Invoke_ID, wire, mailbox, phase, p_addr_entry,
                     Target_Address, entryNum, list, at>>
      /\ UNCHANGED <<table, register_number, known, Object_Num, temp, Error_Detected,
                     tableNumber, started, Request_Invoke_ID, troubles>>
  BY DEF BeginWait, trans, rows, heard, shown
<1>3. TypeOK'
  BY <1>1, <1>2 DEF TypeOK
<1>4. PacketsSound' /\ Placed' /\ OneExchange'
  BY <1>1, <1>2 DEF PacketsSound, PacketSound, Placed, Requesting, OneExchange, Holds, Pending
<1>5. Ask' = Ask
  BY <1>2 DEF Ask
<1>6. AsksCurrent'
  BY <1>1, <1>2, <1>5 DEF AsksCurrent, Waiting, Requesting, Holds
<1>7. ASSUME Quiet PROVE Quiet'
  <2>1. Exchange => Exchange'
    BY <1>2, <1>5 DEF Exchange, Answers
  <2> QED
    BY <1>2, <1>7, <2>1 DEF Quiet, Waiting, Requesting, RowsRead, Members, NoneUsed
<1> QED
  BY <1>2, <1>3, <1>4, <1>6, <1>7 DEF IInv

(* On a quiet line an id is used only while the task waits for its answer. *)
LEMMA QuietIds ==
    ASSUME TypeOK, Placed, Quiet, NEW i \in Ids, tsm[i].state # "free"
    PROVE  Waiting /\ i = Request_Invoke_ID
<1>1. step # "ask" /\ phase # "head" /\ phase # "ended"
  BY DEF Quiet, NoneUsed
<1>2. Waiting
  BY <1>1 DEF TypeOK, Placed, Waiting, Requesting
<1> QED
  BY <1>2 DEF Quiet, Exchange

LEMMA ExpireInv == IInv /\ Expire => IInv'
<1> SUFFICES ASSUME IInv, Expire PROVE IInv'
  OBVIOUS
<1>1. TypeOK /\ PacketsSound /\ Placed /\ OneExchange /\ AsksCurrent
  BY DEF IInv
<1>2. PICK i \in Ids :
        /\ tsm[i].state = "await"
        /\ \A w \in wire : w.id # i
        /\ mailbox # None => mailbox.id # i
        /\ step # "ask" => i # Request_Invoke_ID
        /\ IF tsm[i].RetryCount < Retries
           THEN /\ tsm' = [tsm EXCEPT ![i].RetryCount = @ + 1]
                /\ Transmit(i, tsm[i].ask, tsm[i].dev)
           ELSE /\ tsm' = [tsm EXCEPT ![i].state = "failed"]
                /\ UNCHANGED <<wire, troubles>>
  BY DEF Expire
<1>3. /\ UNCHANGED <<Current_Invoke_ID, mailbox, phase, step, full, p_addr_entry,
                     Target_Address, entryNum, list, at>>
      /\ UNCHANGED <<table, register_number, known, Object_Num, temp, Error_Detected,
                     tableNumber, started, Request_Invoke_ID>>
  BY DEF Expire, control, rows, heard, shown
<1>4. troubles # 0
  <2>1. ~Quiet
    BY <1>1, <1>2, QuietIds DEF Waiting
  <2> QED
    BY <2>1 DEF IInv
<1>5. Placed'
  BY <1>1, <1>3 DEF Placed, Requesting
<1>6. tsm \in [Ids -> Transaction] /\ tsm[i] \in Transaction
      /\ tsm[i].ask \in Asks /\ tsm[i].dev \in Devices
  BY <1>1, <1>2 DEF TypeOK, Transaction, OneExchange, Pending
<1>7. PICK ask \in Asks, dev \in Devices : ask = tsm[i].ask /\ dev = tsm[i].dev
  BY <1>6
<1>8. /\ tsm' \in [Ids -> Transaction]
      /\ \A j \in Ids : j # i => tsm'[j] = tsm[j]
      /\ Holds(i, ask, dev)'
      /\ troubles' \in 0 .. MaxTroubles /\ troubles' # 0
      /\ \E due \in BOOLEAN :
           wire' \in {wire, wire \cup {[id |-> i, ask |-> ask, dev |-> dev, due |-> due]}}
  <2>1. CASE tsm[i].RetryCount < Retries
    <3>1. tsm' = [tsm EXCEPT ![i].RetryCount = @ + 1] /\ Transmit(i, tsm[i].ask, tsm[i].dev)
      BY <1>2, <2>1
    <3>2. Transmit(i, ask, dev)
      BY <1>7, <3>1 DEF Transmit
    <3>3. /\ troubles' \in 0 .. MaxTroubles /\ troubles <= troubles'
          /\ \E due \in BOOLEAN :
               wire' \in {wire, wire \cup {[id |-> i, ask |-> ask, dev |-> dev, due |-> due]}}
      BY <1>1, <3>2, Transmitted
    <3>4. troubles' # 0
      BY <1>1, <1>4, <3>3 DEF TypeOK
    <3>5. tsm[i].RetryCount + 1 \in 0 .. Retries
      BY <1>6, <2>1, Numbers DEF Transaction
    <3>6. [tsm[i] EXCEPT !.RetryCount = tsm[i].RetryCount + 1] \in Transaction
      BY <1>6, <3>5 DEF Transaction
    <3>7. tsm' = [tsm EXCEPT ![i] = [tsm[i] EXCEPT !.RetryCount = tsm[i].RetryCount + 1]]
      BY <1>6, <3>1
    <3>8. tsm' \in [Ids -> Transaction] /\ \A j \in Ids : j # i => tsm'[j] = tsm[j]
      BY <1>6, <3>6, <3>7
    <3>9. Holds(i, ask, dev)'
      BY <1>2, <1>6, <1>7, <3>7 DEF Holds, Transaction
    <3> QED
      BY <3>3, <3>4, <3>8, <3>9
  <2>2. CASE ~(tsm[i].RetryCount < Retries)
    <3>1. tsm' = [tsm EXCEPT ![i].state = "failed"] /\ UNCHANGED <<wire, troubles>>
      BY <1>2, <2>2
    <3>2. [tsm[i] EXCEPT !.state = "failed"] \in Transaction
      BY <1>6 DEF Transaction
    <3>3. tsm' = [tsm EXCEPT ![i] = [tsm[i] EXCEPT !.state = "failed"]]
      BY <1>6, <3>1
    <3>4. tsm' \in [Ids -> Transaction] /\ \A j \in Ids : j # i => tsm'[j] = tsm[j]
      BY <1>6, <3>2, <3>3
    <3>5. Holds(i, ask, dev)'
      BY <1>2, <1>6, <1>7, <3>3 DEF Holds, Transaction
    <3>6. \E due \in BOOLEAN :
            wire' \in {wire, wire \cup {[id |-> i, ask |-> ask, dev |-> dev, due |-> due]}}
      BY <3>1
    <3>7. troubles' \in 0 .. MaxTroubles /\ troubles' # 0
      BY <1>1, <1>4, <3>1 DEF TypeOK
    <3> QED
      BY <3>4, <3>5, <3>6, <3>7
  <2> QED
    BY <2>1, <2>2
<1>9. PacketsSound' /\ OneExchange'
  BY <1>1, <1>2, <1>3, <1>8, Asked
<1>10. TypeOK'
  BY <1>1, <1>3, <1>8 DEF TypeOK, Transaction
<1>11. AsksCurrent'
  <2>1. Ask' = Ask
    BY <1>3 DEF Ask
  <2>2. Waiting => Request_Invoke_ID # i
    BY <1>2 DEF Waiting
  <2>3. Request_Invoke_ID \in Ids \cup {0}
    BY <1>1 DEF TypeOK
  <2> QED
    BY <1>1, <1>3, <1>8, <2>1, <2>2, <2>3 DEF AsksCurrent, Waiting, Requesting, Holds
<1> QED
  BY <1>5, <1>8, <1>9, <1>10, <1>11 DEF IInv

(* On a quiet line the receive brings the answer to the task's question.   *)
LEMMA QuietAnswer ==
    ASSUME IInv, Quiet, Requesting, dlmstp_receive
    PROVE  /\ wire' = {} /\ NoneUsed'
           /\ mailbox # None /\ npdu_handler(mailbox)
           /\ PacketSound(mailbox)
           /\ mailbox \in Answers(Target_Address, Request_Invoke_ID, Ask)
           /\ mailbox.dev = Target_Address /\ mailbox.id = Request_Invoke_ID /\ mailbox.ask = Ask
           /\ mailbox.type \in {"ack", "error"}
           /\ Ask \in Asks /\ Target_Address \in Devices /\ Request_Invoke_ID \in Ids
           /\ ~Error_Detected'
<1>1. TypeOK /\ PacketsSound /\ Placed /\ OneExchange
  BY DEF IInv
<1>2. step = "wait" /\ Exchange
  BY DEF dlmstp_receive, Quiet, Waiting
<1>3. Ask \in Asks /\ Target_Address \in Devices /\ Request_Invoke_ID \in Ids
  BY <1>1, <1>2, AskType DEF Exchange
<1>4. wire = {} /\ mailbox \in Answers(Target_Address, Request_Invoke_ID, Ask)
  <2>1. ASSUME wire = {[id |-> Request_Invoke_ID, ask |-> Ask, dev |-> Target_Address,
                        due |-> TRUE]},
               mailbox = None
        PROVE  FALSE
    <3>1. \A w \in wire : ~w.due
      BY <2>1 DEF dlmstp_receive, SecondPassed
    <3> QED
      BY <2>1, <3>1
  <2> QED
    BY <1>2, <2>1 DEF Exchange
<1>5. PICK dev \in Devices, id \in Ids, ask \in Asks :
        dev = Target_Address /\ id = Request_Invoke_ID /\ ask = Ask
  BY <1>3
<1>6. PICK p : p = mailbox
  OBVIOUS
<1>7. p \in Answers(dev, id, ask)
  BY <1>4, <1>5, <1>6, Zenon
<1>8. PacketSound(p) /\ p.dev = dev /\ p.id = id /\ p.ask = ask /\ p.type \in {"ack", "error"}
  BY <1>7, AnswerSound
<1>9. p # None
  BY <1>8, NoneAssumption DEF PacketSound
<1>10. npdu_handler(mailbox)
  BY <1>6, <1>9 DEF dlmstp_receive
<1>11. npdu_handler(p)
  BY <1>6, <1>10, Zenon
<1>12. Freed(p.id) /\ Error_Detected' = Error_Detected
  BY <1>1, <1>8, <1>11, Handled
<1>13. wire' = {}
  BY <1>4 DEF dlmstp_receive
<1>14. NoneUsed'
  <2>1. \A i \in Ids : i # id => tsm[i].state = "free"
    BY <1>2, <1>5 DEF Exchange
  <2> QED
    BY <1>8, <1>12, <2>1 DEF NoneUsed, Freed, Free
<1>15. ~Error_Detected'
  BY <1>12 DEF Quiet
<1>16. PacketSound(mailbox)
  BY <1>6, <1>8 DEF PacketSound
<1> QED
  BY <1>3, <1>4, <1>5, <1>6, <1>8, <1>9, <1>10, <1>13, <1>14, <1>15, <1>16

(* The parts of the invariant that every receive keeps.                    *)
LEMMA ReceivedInv ==
    ASSUME IInv, dlmstp_receive,
           phase' \in {"head", "count", "entry", "object", "publish", "ended"},
           step' \in {"ask", "asked", "ended"}, step' = "asked" => phase' = "head",
           temp' \in Objects, list' \in Seq(Objects), entryNum' \in Nat, at' \in Nat
    PROVE  TypeOK' /\ PacketsSound' /\ OneExchange' /\ AsksCurrent'
<1>1. TypeOK /\ PacketsSound /\ OneExchange
  BY DEF IInv
<1>2. /\ KnownKept /\ RowsKept
      /\ tsm' \in [Ids -> Transaction]
      /\ Object_Num' \in Nat /\ Error_Detected' \in BOOLEAN
      /\ PacketsSound' /\ OneExchange'
  BY <1>1, Received
<1>3. UNCHANGED <<Current_Invoke_ID, full, tableNumber, started, Request_Invoke_ID, troubles>>
  BY DEF dlmstp_receive, shown
<1>4. tableNumber' \in 0 .. Len(table')
  <2>1. Len(table) \in Nat /\ tableNumber \in 0 .. Len(table)
    BY <1>1 DEF TypeOK
  <2>2. Len(table') \in Nat /\ Len(table) <= Len(table')
    BY <1>2 DEF RowsKept
  <2> QED
    BY <1>3, <2>1, <2>2
<1>5. /\ Current_Invoke_ID' \in Ids /\ Request_Invoke_ID' \in Ids \cup {0}
      /\ {started', full'} \subseteq BOOLEAN /\ troubles' \in 0 .. MaxTroubles
  BY <1>1, <1>3 DEF TypeOK
<1>6. TypeOK'
  BY <1>2, <1>4, <1>5 DEF TypeOK, Transaction, Row, KnownKept, RowsKept
<1>7. AsksCurrent'
  BY DEF AsksCurrent, Waiting, Requesting
<1> QED
  BY <1>2, <1>6, <1>7

(* The device asked stays the same while others are heard.                 *)
LEMMA PlaceKept ==
    ASSUME TypeOK, Placed, KnownKept, Requesting,
           UNCHANGED <<p_addr_entry, Target_Address>>
    PROVE  p_addr_entry' \in 1 .. Len(known') /\ Target_Address' = known'[p_addr_entry']
<1>1. p_addr_entry \in 1 .. Len(known) /\ Target_Address = known[p_addr_entry]
  BY DEF Placed
<1>2. Len(known) \in Nat /\ Len(known') \in Nat /\ Len(known) <= Len(known')
  BY DEF TypeOK, KnownKept
<1>3. \A i \in 1 .. Len(known) : known'[i] = known[i]
  BY DEF KnownKept
<1> QED
  BY <1>1, <1>2, <1>3

LEMMA ReceiveHeadInv == IInv /\ ReceiveHead => IInv'
<1> SUFFICES ASSUME IInv, ReceiveHead PROVE IInv'
  OBVIOUS
<1>1. TypeOK /\ PacketsSound /\ Placed /\ OneExchange
  BY DEF IInv
<1>2. phase = "head" /\ dlmstp_receive /\ temp' = Decoded
      /\ UNCHANGED <<entryNum, list, at>>
  BY DEF ReceiveHead
<1>3. KnownKept /\ Decoded \in Objects /\ mailbox' = None
  BY <1>1, <1>2, Received
<1>4. UNCHANGED troubles
  BY <1>2 DEF dlmstp_receive
<1>5. ASSUME troubles' = 0
      PROVE  /\ ~Error_Detected' /\ wire' = {} /\ NoneUsed'
             /\ register_number' = 0 /\ list' = <<>> /\ mailbox' = None
  <2>1. Quiet
    BY <1>4, <1>5 DEF IInv
  <2>2. /\ ~Error_Detected /\ wire = {} /\ NoneUsed /\ register_number = 0 /\ list = <<>>
        /\ mailbox # None => mailbox.type = "iam"
    BY <1>2, <2>1 DEF Quiet
  <2>3. wire' = {}
    BY <1>2, <2>2 DEF dlmstp_receive
  <2>4. CASE mailbox = None
    BY <1>2, <1>3, <2>2, <2>3, <2>4 DEF dlmstp_receive, rows, NoneUsed
  <2>5. CASE mailbox # None
    <3>1. PICK p : p = mailbox
      OBVIOUS
    <3>2. npdu_handler(mailbox) /\ PacketSound(mailbox)
      BY <1>1, <1>2, <2>5 DEF dlmstp_receive, PacketsSound
    <3>3. npdu_handler(p) /\ PacketSound(p)
      BY <3>1, <3>2, Zenon
    <3>4. p.type = "iam" /\ p.id = 0 /\ ~Accepted(p)
      BY <2>2, <2>5, <3>1, <3>3 DEF PacketSound, Accepted
    <3>5. Freed(p.id) /\ Error_Detected' = Error_Detected /\ UNCHANGED rows
      BY <1>1, <3>3, <3>4, Handled
    <3> QED
      BY <1>2, <1>3, <2>2, <2>3, <3>4, <3>5, Numbers DEF rows, Freed, NoneUsed
  <2> QED
    BY <2>4, <2>5
<1>6. list' \in Seq(Objects) /\ entryNum' \in Nat /\ at' \in Nat
  BY <1>1, <1>2 DEF TypeOK
<1>7. CASE Error_Detected' /\ phase' = "ended" /\ step' = "ended"
  <2>1. TypeOK' /\ PacketsSound' /\ OneExchange' /\ AsksCurrent'
    BY <1>2, <1>3, <1>6, <1>7, ReceivedInv
  <2>2. Placed'
    BY <1>7 DEF Placed, Requesting
  <2> QED
    BY <1>5, <1>7, <2>1, <2>2 DEF IInv
<1>8. CASE phase' = "head" /\ step' = "asked"
  <2>1. TypeOK' /\ PacketsSound' /\ OneExchange' /\ AsksCurrent'
    BY <1>2, <1>3, <1>6, <1>8, ReceivedInv
  <2>2. Placed'
    BY <1>8 DEF Placed, Requesting
  <2>3. troubles' = 0 => Quiet'
    BY <1>5, <1>8 DEF Quiet, Waiting, Requesting
  <2> QED
    BY <2>1, <2>2, <2>3 DEF IInv
<1>9. CASE known' # <<>> /\ AskDevice(1, known')
  <2>1. phase' = "count" /\ step' = "ask" /\ p_addr_entry' = 1 /\ Target_Address' = known'[1]
    BY <1>9 DEF AskDevice
  <2>2. TypeOK' /\ PacketsSound' /\ OneExchange' /\ AsksCurrent'
    BY <1>2, <1>3, <1>6, <2>1, ReceivedInv
  <2>3. 1 \in 1 .. Len(known')
    <3>1. known' \in Seq(Devices)
      BY <1>3 DEF KnownKept
    <3>2. Len(known') \in Nat /\ Len(known') # 0
      BY <1>9, <3>1
    <3> QED
      BY <3>2
  <2>4. Placed'
    BY <2>1, <2>3 DEF Placed, Requesting
  <2>5. troubles' = 0 => Quiet'
    BY <1>5, <2>1 DEF Quiet, Waiting, Requesting
  <2> QED
    BY <2>2, <2>4, <2>5 DEF IInv
<1> QED
  BY <1>2, <1>7, <1>8, <1>9 DEF ReceiveHead

LEMMA ReceiveCountInv == IInv /\ ReceiveCount => IInv'
<1> SUFFICES ASSUME IInv, ReceiveCount PROVE IInv'
  OBVIOUS
<1>1. TypeOK /\ PacketsSound /\ Placed /\ OneExchange
  BY DEF IInv
<1>2. /\ phase = "count" /\ dlmstp_receive /\ temp' = Decoded /\ entryNum' = Object_Num'
      /\ phase' = IF entryNum' >= 2 THEN "entry" ELSE "publish"
      /\ step' = "ask" /\ at' = 2
      /\ UNCHANGED <<p_addr_entry, Target_Address, list>>
  BY DEF ReceiveCount
<1>3. KnownKept /\ Decoded \in Objects /\ mailbox' = None /\ Object_Num' \in Nat
  BY <1>1, <1>2, Received
<1>4. UNCHANGED troubles
  BY <1>2 DEF dlmstp_receive
<1>5. TypeOK' /\ PacketsSound' /\ OneExchange' /\ AsksCurrent'
  <2>1. list' \in Seq(Objects)
    BY <1>1, <1>2 DEF TypeOK
  <2> QED
    BY <1>2, <1>3, <2>1, ReceivedInv
<1>6. Placed'
  <2>1. Requesting
    BY <1>2 DEF Requesting
  <2>2. p_addr_entry' \in 1 .. Len(known') /\ Target_Address' = known'[p_addr_entry']
    BY <1>1, <1>2, <1>3, <2>1, PlaceKept
  <2> QED
    BY <1>2, <2>2 DEF Placed
<1>7. ASSUME troubles' = 0
      PROVE  Quiet'
  <2>1. Quiet /\ Requesting
    BY <1>2, <1>4, <1>7 DEF IInv, Requesting
  <2>2. PICK p : p = mailbox
    OBVIOUS
  <2>3. /\ wire' = {} /\ NoneUsed' /\ ~Error_Detected'
        /\ npdu_handler(mailbox) /\ PacketSound(mailbox)
        /\ mailbox \in Answers(Target_Address, Request_Invoke_ID, Ask)
        /\ Target_Address \in Devices /\ Request_Invoke_ID \in Ids
    BY <1>2, <2>1, QuietAnswer
  <2>4. npdu_handler(p) /\ PacketSound(p)
    BY <2>2, <2>3, Zenon
  <2>5. Ask = <<"count", 0>>
    BY <1>1, <1>2, <2>1, AskType
  <2>6. p \in Answers(Target_Address, Request_Invoke_ID, <<"count", 0>>)
    BY <2>2, <2>3, <2>5, Zenon
  <2>7. p = [type |-> "ack", dev |-> Target_Address, id |-> Request_Invoke_ID,
             ask |-> <<"count", 0>>, val |-> Len(Members) + 1]
    BY <2>3, <2>6, CountAnswer DEF Members
  <2>8. /\ Accepted(p) /\ p.ask[1] = "count" /\ p.val = Len(Members) + 1
        /\ Len(Members) \in Nat
    BY <2>3, <2>7, ListType DEF Accepted, Members
  <2>9. p.val # None
    BY <2>8, Numbers
  <2>10. Object_Num' = Len(Members) + 1 /\ UNCHANGED rows
    BY <1>1, <2>4, <2>8, <2>9, Handled
  <2>11. register_number' = 0 /\ list' = <<>> /\ Members' = Members
    BY <1>2, <2>1, <2>10 DEF Quiet, rows, Members
  <2>12. CASE entryNum' >= 2
    <3>1. phase' = "entry" /\ entryNum' = Len(Members) + 1 /\ at' \in 2 .. entryNum'
      BY <1>2, <2>8, <2>10, <2>12
    <3>2. Len(list') = at' - 2 /\ \A i \in 1 .. at' - 2 : list'[i] = Members[i]
      BY <1>2, <2>11
    <3> QED
      BY <1>2, <1>3, <2>3, <2>11, <3>1, <3>2 DEF Quiet, Waiting
  <2>13. CASE ~(entryNum' >= 2)
    <3>1. phase' = "publish" /\ Len(Members) = 0
      BY <1>2, <2>8, <2>10, <2>13
    <3>2. RowsRead(Len(Members))'
      BY <2>11, <3>1 DEF RowsRead
    <3> QED
      BY <1>2, <1>3, <2>3, <2>11, <3>1, <3>2 DEF Quiet, Waiting, Requesting
  <2> QED
    BY <2>12, <2>13
<1> QED
  BY <1>5, <1>6, <1>7 DEF IInv

LEMMA ReceiveEntryInv == IInv /\ ReceiveEntry => IInv'
<1> SUFFICES ASSUME IInv, ReceiveEntry PROVE IInv'
  OBVIOUS
<1>1. TypeOK /\ PacketsSound /\ Placed /\ OneExchange
  BY DEF IInv
<1>2. /\ phase = "entry" /\ dlmstp_receive
      /\ list' = Append(list, Decoded) /\ temp' = ObjectZero
      /\ IF at < entryNum THEN at' = at + 1 /\ UNCHANGED phase
         ELSE at' = 1 /\ phase' = "object"
      /\ step' = "ask"
      /\ UNCHANGED <<p_addr_entry, Target_Address, entryNum>>
  BY DEF ReceiveEntry
<1>3. KnownKept /\ Decoded \in Objects /\ mailbox' = None
  BY <1>1, <1>2, Received
<1>4. UNCHANGED troubles
  BY <1>2 DEF dlmstp_receive
<1>5. /\ list \in Seq(Objects) /\ Len(list) \in Nat /\ at \in Nat /\ entryNum \in Nat
      /\ temp' \in Objects
  BY <1>1, <1>2, ListAssumption DEF TypeOK
<1>6. /\ list' \in Seq(Objects) /\ Len(list') = Len(list) + 1
      /\ \A i \in 1 .. Len(list) : list'[i] = list[i]
      /\ list'[Len(list) + 1] = Decoded
  BY <1>2, <1>3, <1>5
<1>7. TypeOK' /\ PacketsSound' /\ OneExchange' /\ AsksCurrent'
  <2>1. at' \in Nat /\ phase' \in {"entry", "object"}
    BY <1>2, <1>5
  <2>2. entryNum' \in Nat
    BY <1>2, <1>5
  <2> QED
    BY <1>2, <1>5, <1>6, <2>1, <2>2, ReceivedInv
<1>8. Placed'
  <2>1. Requesting
    BY <1>2 DEF Requesting
  <2>2. p_addr_entry' \in 1 .. Len(known') /\ Target_Address' = known'[p_addr_entry']
    BY <1>1, <1>2, <1>3, <2>1, PlaceKept
  <2>3. phase' = "object" => at' \in 1 .. Len(list')
    BY <1>2, <1>5, <1>6
  <2> QED
    BY <1>2, <2>2, <2>3 DEF Placed
<1>9. ASSUME troubles' = 0
      PROVE  Quiet'
  <2>1. Quiet /\ Requesting
    BY <1>2, <1>4, <1>9 DEF IInv, Requesting
  <2>2. /\ register_number = 0 /\ entryNum = Len(Members) + 1 /\ at \in 2 .. entryNum
        /\ Len(list) = at - 2
        /\ \A i \in 1 .. at - 2 : list[i] = Members[i]
    BY <1>2, <2>1 DEF Quiet
  <2>3. PICK p : p = mailbox
    OBVIOUS
  <2>4. /\ wire' = {} /\ NoneUsed' /\ ~Error_Detected'
        /\ mailbox # None /\ npdu_handler(mailbox) /\ PacketSound(mailbox)
        /\ mailbox \in Answers(Target_Address, Request_Invoke_ID, Ask)
        /\ Target_Address \in Devices /\ Request_Invoke_ID \in Ids
    BY <1>2, <2>1, QuietAnswer
  <2>5. npdu_handler(p) /\ PacketSound(p)
    BY <2>3, <2>4, Zenon
  <2>6. Ask = <<"entry", at>>
    BY <1>1, <1>2, <2>1, AskType
  <2>7. p \in Answers(Target_Address, Request_Invoke_ID, <<"entry", at>>)
    BY <2>3, <2>4, <2>6, Zenon
  <2>8. /\ Len(Members) \in Nat /\ Members = ObjectList[Target_Address]
        /\ DOMAIN ObjectList[Target_Address] = 1 .. Len(Members)
        /\ Members \in Seq(Objects)
    BY <2>4, ListType DEF Members
  <2>9. at - 1 \in DOMAIN ObjectList[Target_Address] /\ at - 1 = Len(list) + 1
    BY <1>5, <2>2, <2>8
  <2>10. Answers(Target_Address, Request_Invoke_ID, <<"entry", at>>) =
           {[type |-> "ack", dev |-> Target_Address, id |-> Request_Invoke_ID,
             ask |-> <<"entry", at>>, val |-> ObjectList[Target_Address][at - 1]]}
    BY <1>5, <2>4, <2>9, EntryAnswer
  <2>11. p = [type |-> "ack", dev |-> Target_Address, id |-> Request_Invoke_ID,
              ask |-> <<"entry", at>>, val |-> ObjectList[Target_Address][at - 1]]
    BY <2>7, <2>10, Zenon
  <2>12. Accepted(p) /\ p.ask[1] = "entry" /\ p.val = Members[at - 1]
    BY <2>8, <2>11 DEF Accepted
  <2>13. Decoded = Members[at - 1]
    <3>1. Decoded = DecodedFrom(p)
      BY <2>3, <2>4 DEF Decoded, DecodedFrom, Accepted
    <3> QED
      BY <2>12, <3>1 DEF DecodedFrom
  <2>14. UNCHANGED rows
    BY <1>1, <2>5, <2>12, Handled
  <2>15. register_number' = 0 /\ Members' = Members /\ entryNum' = Len(Members) + 1
    BY <1>2, <2>2, <2>14 DEF rows, Members
  <2>16. Len(list') = at - 1 /\ \A i \in 1 .. at - 1 : list'[i] = Members[i]
    BY <1>5, <1>6, <2>2, <2>9, <2>13
  <2>17. CASE at < entryNum
    <3>1. phase' = "entry" /\ at' = at + 1 /\ at' \in 2 .. entryNum'
      BY <1>2, <1>5, <2>2, <2>17
    <3>2. Len(list') = at' - 2 /\ \A i \in 1 .. at' - 2 : list'[i] = Members[i]
      BY <1>5, <2>16, <3>1
    <3> QED
      BY <1>2, <1>3, <2>4, <2>15, <3>1, <3>2 DEF Quiet, Waiting
  <2>18. CASE ~(at < entryNum)
    <3>1. phase' = "object" /\ at' = 1 /\ at - 1 = Len(Members)
      BY <1>2, <1>5, <2>2, <2>8, <2>18
    <3>2. list' = Members
      BY <1>6, <2>8, <2>16, <3>1, SeqEqual
    <3>3. register_number' = at' - 1
          /\ \A i \in 1 .. at' - 1 : table'[i].obj = Members'[i]
      BY <2>15, <3>1
    <3> QED
      BY <1>2, <1>3, <2>4, <2>15, <3>1, <3>2, <3>3 DEF Quiet, Waiting, RowsRead
  <2> QED
    BY <2>17, <2>18
<1> QED
  BY <1>7, <1>8, <1>9 DEF IInv

LEMMA ReceiveObjectInv == IInv /\ ReceiveObject => IInv'
<1> SUFFICES ASSUME IInv, ReceiveObject PROVE IInv'
  OBVIOUS
<1>1. TypeOK /\ PacketsSound /\ Placed /\ OneExchange
  BY DEF IInv
<1>2. /\ phase = "object" /\ dlmstp_receive
      /\ temp' = Decoded
      /\ IF at < Len(list) THEN at' = at + 1 /\ UNCHANGED phase
         ELSE at' = 0 /\ phase' = "publish"
      /\ step' = "ask"
      /\ UNCHANGED <<p_addr_entry, Target_Address, entryNum, list>>
  BY DEF ReceiveObject
<1>3. KnownKept /\ Decoded \in Objects /\ mailbox' = None
  BY <1>1, <1>2, Received
<1>4. UNCHANGED troubles
  BY <1>2 DEF dlmstp_receive
<1>5. /\ list \in Seq(Objects) /\ Len(list) \in Nat /\ at \in Nat /\ entryNum \in Nat
      /\ at \in 1 .. Len(list)
  BY <1>1, <1>2 DEF TypeOK, Placed
<1>6. TypeOK' /\ PacketsSound' /\ OneExchange' /\ AsksCurrent'
  <2>1. at' \in Nat /\ phase' \in {"object", "publish"}
    BY <1>2, <1>5
  <2>2. entryNum' \in Nat /\ list' \in Seq(Objects)
    BY <1>2, <1>5
  <2> QED
    BY <1>2, <1>3, <2>1, <2>2, ReceivedInv
<1>7. Placed'
  <2>1. Requesting
    BY <1>2 DEF Requesting
  <2>2. p_addr_entry' \in 1 .. Len(known') /\ Target_Address' = known'[p_addr_entry']
    BY <1>1, <1>2, <1>3, <2>1, PlaceKept
  <2>3. phase' = "object" => at' \in 1 .. Len(list')
    BY <1>2, <1>5
  <2> QED
    BY <1>2, <2>2, <2>3 DEF Placed
<1>8. ASSUME troubles' = 0
      PROVE  Quiet'
  <2>1. Quiet /\ Requesting
    BY <1>2, <1>4, <1>8 DEF IInv, Requesting
  <2>2. /\ list = Members /\ register_number = at - 1
        /\ \A i \in 1 .. at - 1 : table[i].obj = Members[i]
    BY <1>2, <2>1 DEF Quiet, RowsRead
  <2>3. PICK p : p = mailbox
    OBVIOUS
  <2>4. /\ wire' = {} /\ NoneUsed' /\ ~Error_Detected'
        /\ mailbox # None /\ npdu_handler(mailbox) /\ PacketSound(mailbox)
        /\ mailbox \in Answers(Target_Address, Request_Invoke_ID, Ask)
        /\ Target_Address \in Devices /\ Request_Invoke_ID \in Ids
    BY <1>2, <2>1, QuietAnswer
  <2>5. npdu_handler(p) /\ PacketSound(p)
    BY <2>3, <2>4, Zenon
  <2>6. PICK o \in Objects : o = list[at]
    BY <1>5
  <2>7. Ask = <<"object", o>>
    BY <1>1, <1>2, <2>1, <2>6, AskType
  <2>8. p \in Answers(Target_Address, Request_Invoke_ID, <<"object", o>>)
    BY <2>3, <2>4, <2>7, Zenon
  <2>9. o \in ToSet(ObjectList[Target_Address]) /\ o = Members[at]
    <3>1. o = Members[at] /\ Members = ObjectList[Target_Address]
          /\ DOMAIN ObjectList[Target_Address] = 1 .. Len(list)
      BY <2>2, <2>4, <2>6, ListType DEF Members
    <3> QED
      BY <1>5, <3>1 DEF ToSet
  <2> DEFINE read == IF o \in Multistate THEN Readings ELSE {None}
  <2>10. p \in {[type |-> "ack", dev |-> Target_Address, id |-> Request_Invoke_ID,
                 ask |-> <<"object", o>>, val |-> v] : v \in read}
    <3>1. Answers(Target_Address, Request_Invoke_ID, <<"object", o>>) =
            {[type |-> "ack", dev |-> Target_Address, id |-> Request_Invoke_ID,
              ask |-> <<"object", o>>, val |-> v] : v \in read}
      BY <2>4, <2>9, ObjectAnswer
    <3> QED
      BY <2>8, <3>1, Zenon
  <2>11. /\ Accepted(p) /\ p.ask[1] = "object" /\ p.ask[2] = Members[at]
    <3> HIDE DEF read
    <3> QED
      BY <2>9, <2>10 DEF Accepted
  <2>12. /\ register_number' = register_number + 1
         /\ table'[register_number'] = [dev |-> p.dev, obj |-> p.ask[2]]
         /\ \A i \in 1 .. register_number : table'[i] = table[i]
    BY <1>1, <2>5, <2>11, Handled
  <2>13. Members' = Members /\ list' = list
    BY <1>2 DEF Members
  <2>14. register_number' = at /\ \A i \in 1 .. at : table'[i].obj = Members'[i]
    <3>1. register_number' = at /\ table'[at].obj = Members[at]
      BY <1>5, <2>2, <2>11, <2>12
    <3>2. \A i \in 1 .. at - 1 : table'[i].obj = Members[i]
      BY <1>5, <2>2, <2>12
    <3>3. \A i \in 1 .. at : table'[i].obj = Members[i]
      <4>1. \A i \in 1 .. at : i = at \/ i \in 1 .. at - 1
        BY <1>5
      <4> QED
        BY <3>1, <3>2, <4>1
    <3> QED
      BY <2>13, <3>1, <3>3
  <2>15. CASE at < Len(list)
    <3>1. phase' = "object" /\ at' - 1 = at
      BY <1>2, <1>5, <2>15
    <3>2. register_number' = at' - 1
          /\ \A i \in 1 .. at' - 1 : table'[i].obj = Members'[i]
      BY <2>14, <3>1
    <3>3. list' = Members'
      BY <2>2, <2>13
    <3> QED
      BY <1>2, <1>3, <2>4, <3>1, <3>2, <3>3 DEF Quiet, Waiting, RowsRead
  <2>16. CASE ~(at < Len(list))
    <3>1. phase' = "publish" /\ at = Len(Members')
      BY <1>2, <1>5, <2>2, <2>13, <2>16
    <3> QED
      BY <1>2, <1>3, <2>4, <2>14, <3>1 DEF Quiet, Waiting, Requesting, RowsRead
  <2> QED
    BY <2>15, <2>16
<1> QED
  BY <1>6, <1>7, <1>8 DEF IInv

LEMMA PublishInv == IInv /\ Publish => IInv'
<1> SUFFICES ASSUME IInv, Publish PROVE IInv'
  OBVIOUS
<1>1. TypeOK /\ PacketsSound /\ Placed /\ OneExchange
  BY DEF IInv
<1>2. /\ phase = "publish" /\ tableNumber' = register_number /\ register_number' = 0
      /\ list' = <<>> /\ at' = 0
      /\ UNCHANGED <<tsm, Current_Invoke_ID, wire, mailbox, full, entryNum, known,
                     Object_Num, temp, Error_Detected, table, Request_Invoke_ID, troubles>>
  BY DEF Publish, trans, heard
<1>3. \/ /\ p_addr_entry < Len(known) /\ started' = started
         /\ p_addr_entry' = p_addr_entry + 1 /\ Target_Address' = known[p_addr_entry + 1]
         /\ phase' = "count" /\ step' = "ask"
      \/ /\ started' = TRUE /\ phase' = "head" /\ step' = "asked"
  BY DEF Publish, AskDevice
<1>4. TypeOK'
  <2>1. /\ tableNumber' \in 0 .. Len(table') /\ register_number' \in 0 .. Len(table')
    BY <1>1, <1>2 DEF TypeOK
  <2>2. /\ phase' \in {"count", "head"} /\ step' \in {"ask", "asked"}
        /\ started' \in BOOLEAN /\ list' \in Seq(Objects) /\ at' \in Nat
    <3>1. started' \in BOOLEAN
      BY <1>1, <1>3 DEF TypeOK
    <3>2. phase' \in {"count", "head"} /\ step' \in {"ask", "asked"}
      BY <1>3
    <3>3. list' \in Seq(Objects) /\ at' \in Nat
      BY <1>2
    <3> QED
      BY <3>1, <3>2, <3>3
  <2> QED
    BY <1>1, <1>2, <2>1, <2>2 DEF TypeOK
<1>5. PacketsSound' /\ OneExchange'
  BY <1>1, <1>2 DEF PacketsSound, PacketSound, OneExchange, Holds, Pending
<1>6. Placed'
  <2>1. p_addr_entry \in 1 .. Len(known) /\ Len(known) \in Nat
    BY <1>1, <1>2 DEF TypeOK, Placed
  <2>2. phase' = "count" => p_addr_entry' \in 1 .. Len(known')
                            /\ Target_Address' = known'[p_addr_entry']
    BY <1>2, <1>3, <2>1
  <2>3. phase' \in {"count", "head"} /\ (phase' = "head" => step' # "ask") /\ step' # "ended"
    BY <1>3
  <2> QED
    BY <2>2, <2>3 DEF Placed, Requesting
<1>7. AsksCurrent'
  BY <1>3 DEF AsksCurrent, Waiting, Requesting
<1>8. ASSUME Quiet PROVE Quiet'
  <2>1. step = "ask"
    BY <1>1, <1>2 DEF Placed
  <2>2. ~Error_Detected /\ wire = {} /\ mailbox = None /\ NoneUsed
    BY <1>8, <2>1 DEF Quiet
  <2> QED
    BY <1>2, <1>3, <2>2 DEF Quiet, Waiting, Requesting, NoneUsed
<1> QED
  BY <1>2, <1>4, <1>5, <1>6, <1>7, <1>8 DEF IInv

LEMMA StutterInv == IInv /\ UNCHANGED vars => IInv'
<1> SUFFICES ASSUME IInv, UNCHANGED vars PROVE IInv'
  OBVIOUS
<1>1. UNCHANGED <<tsm, Current_Invoke_ID, wire, mailbox, phase, step, full, p_addr_entry,
                  Target_Address, entryNum, list, at, table, register_number, known,
                  Object_Num, temp, Error_Detected, tableNumber, started,
                  Request_Invoke_ID, troubles>>
  BY DEF vars, trans, control, rows, heard, shown
<1>2. TypeOK'
  BY <1>1 DEF IInv, TypeOK
<1>3. PacketsSound' /\ Placed' /\ OneExchange'
  BY <1>1 DEF IInv, PacketsSound, PacketSound, Placed, Requesting, OneExchange, Holds, Pending
<1>4. Ask' = Ask
  BY <1>1 DEF Ask
<1>5. AsksCurrent'
  BY <1>1, <1>4 DEF IInv, AsksCurrent, Waiting, Requesting, Holds
<1>6. ASSUME Quiet PROVE Quiet'
  <2>1. Exchange => Exchange'
    BY <1>1, <1>4 DEF Exchange, Answers
  <2> QED
    BY <1>1, <1>6, <2>1 DEF Quiet, Waiting, Requesting, RowsRead, Members, NoneUsed
<1> QED
  BY <1>1, <1>2, <1>3, <1>5, <1>6 DEF IInv

LEMMA Inductive == Spec => []IInv
<1>1. IInv /\ [Next]_vars => IInv'
  BY DeliverInv, AnnounceInv, ExpireInv, SendInv, BeginWaitInv, ReceiveHeadInv,
     ReceiveCountInv, ReceiveEntryInv, ReceiveObjectInv, PublishInv, StutterInv
     DEF Next, Task
<1> QED
  BY InitInv, <1>1, PTL DEF Spec

-----------------------------------------------------------------------------
(* The rounds keep to their tables, and a round on an undisturbed line     *)
(* reads every object of the device's list, once and in order: the         *)
(* exchange of such a line is one question and its answer, so that every   *)
(* receive of client.c finds the answer to the question just sent.         *)
THEOREM RoundCorrect == Spec => []RoundSound
<1>1. IInv => RoundSound
  <2> SUFFICES ASSUME IInv PROVE RoundSound
    OBVIOUS
  <2>1. TypeOK
    BY DEF IInv
  <2>2. ASSUME phase = "publish", troubles = 0
        PROVE  [i \in 1 .. register_number |-> table[i].obj] = ObjectList[Target_Address]
    <3>1. register_number = Len(Members) /\ \A i \in 1 .. Len(Members) : table[i].obj = Members[i]
      BY <2>2 DEF IInv, Quiet, RowsRead
    <3>2. known \in Seq(Devices) /\ Target_Address \in Devices
      BY <2>1, <2>2 DEF IInv, Placed, TypeOK
    <3>3. Members \in Seq(Objects) /\ Members = ObjectList[Target_Address]
      BY <3>2, ListType DEF Members
    <3>4. Members = [i \in 1 .. Len(Members) |-> Members[i]]
      BY <3>3
    <3> QED
      BY <3>1, <3>3, <3>4
  <2> QED
    BY <2>1, <2>2 DEF RoundSound, CompleteIfQuiet
<1> QED
  BY <1>1, Inductive, PTL

(* A row comes from the answer to the question just asked, although        *)
(* answers come late and ids are used again.                               *)
THEOREM RowsAreAnswers == Spec => RowIsAnswer
<1> DEFINE Right == phase = "object" /\ register_number' = register_number + 1
              => table'[register_number'] = [dev |-> known[p_addr_entry], obj |-> list[at]]
<1>1. IInv /\ [Next]_vars => Right
  <2> SUFFICES ASSUME IInv, [Next]_vars, phase = "object",
                      register_number' = register_number + 1
               PROVE  table'[register_number']
                        = [dev |-> known[p_addr_entry], obj |-> list[at]]
    OBVIOUS
  <2>1. TypeOK /\ PacketsSound /\ Placed /\ OneExchange /\ AsksCurrent /\ Requesting
    BY DEF IInv, Requesting
  <2>2. register_number' # register_number
    BY <2>1 DEF TypeOK
  <2>3. ReceiveObject
    BY <2>2 DEF Next, Task, Deliver, Announce, Expire, Send, BeginWait, ReceiveHead,
                ReceiveCount, ReceiveEntry, Publish, vars, rows
  <2>4. dlmstp_receive /\ step = "wait"
    BY <2>3 DEF ReceiveObject, dlmstp_receive
  <2>5. mailbox # None /\ npdu_handler(mailbox)
    BY <2>2, <2>4 DEF dlmstp_receive, rows
  <2>6. PICK p : p = mailbox
    OBVIOUS
  <2>7. npdu_handler(p) /\ PacketSound(p)
    <3>1. PacketSound(mailbox)
      BY <2>1, <2>5 DEF PacketsSound
    <3> QED
      BY <2>5, <2>6, <3>1, Zenon
  <2>8. Accepted(p) /\ p.ask[1] = "object"
    BY <2>1, <2>2, <2>7, Handled DEF rows
  <2>9. table'[register_number'] = [dev |-> p.dev, obj |-> p.ask[2]]
    BY <2>1, <2>7, <2>8, Handled
  <2>10. p.dev = Target_Address /\ p.id = Request_Invoke_ID /\ p.id # 0
    BY <2>7, <2>8 DEF Accepted, PacketSound
  <2>11. p.ask = Ask
    BY <2>1, <2>4, <2>5, <2>6, <2>10 DEF OneExchange, AsksCurrent, Waiting, Holds
  <2>12. Ask = <<"object", list[at]>>
    BY <2>1, AskType
  <2>13. p.ask[2] = list[at]
    BY <2>11, <2>12
  <2>14. Target_Address = known[p_addr_entry]
    BY <2>1 DEF Placed
  <2> QED
    BY <2>9, <2>10, <2>13, <2>14
<1>2. IInv /\ [Next]_vars => [Right]_vars
  BY <1>1
<1> QED
  BY <1>2, Inductive, PTL DEF Spec, RowIsAnswer

(* An invoke id is freed by the answer to its own request only.            *)
THEOREM FreedByAnswers == Spec => FreedByItsAnswer
<1> DEFINE Right == \A i \in Ids : tsm[i].state # "free" /\ tsm'[i].state = "free"
              => mailbox.dev = tsm[i].dev /\ mailbox.ask = tsm[i].ask
<1>1. IInv /\ [Next]_vars => Right
  <2> SUFFICES ASSUME IInv, [Next]_vars, NEW i \in Ids,
                      tsm[i].state # "free", tsm'[i].state = "free"
               PROVE  mailbox.dev = tsm[i].dev /\ mailbox.ask = tsm[i].ask
    OBVIOUS
  <2>1. TypeOK /\ PacketsSound /\ OneExchange
    BY DEF IInv
  <2>2. tsm \in [Ids -> Transaction] /\ tsm'[i] # tsm[i]
    BY <2>1 DEF TypeOK, Transaction
  <2>3. CASE dlmstp_receive
    <3>1. tsm'[i] = Free /\ mailbox # None /\ mailbox.id = i
      BY <2>1, <2>2, <2>3, Received
    <3>2. mailbox.id # 0
      BY <3>1, Numbers
    <3> QED
      BY <2>1, <3>1, <3>2 DEF OneExchange, Holds
  <2>4. CASE Send
    <3>1. PICK id : id = tsm_next_free_invokeID
      OBVIOUS
    <3>2. id # 0 /\ tsm' = [tsm EXCEPT ![id] = [state |-> "await", RetryCount |-> 0,
                                                 ask |-> Ask, dev |-> Target_Address]]
      BY <2>2, <2>4, <3>1 DEF Send, trans
    <3> QED
      BY <2>2, <3>2
  <2>5. CASE Expire
    <3>1. PICK j \in Ids :
            /\ tsm[j].state = "await"
            /\ IF tsm[j].RetryCount < Retries
               THEN tsm' = [tsm EXCEPT ![j].RetryCount = @ + 1]
               ELSE tsm' = [tsm EXCEPT ![j].state = "failed"]
      BY <2>5 DEF Expire
    <3>2. tsm'[i].state \in {tsm[i].state, "failed"}
      BY <2>2, <3>1 DEF Transaction
    <3> QED
      BY <3>2
  <2>6. CASE Deliver \/ Announce \/ BeginWait \/ Publish \/ UNCHANGED vars
    BY <2>2, <2>6 DEF Deliver, Announce, BeginWait, Publish, vars, trans
  <2> QED
    BY <2>3, <2>4, <2>5, <2>6 DEF Next, Task, ReceiveHead, ReceiveCount, ReceiveEntry,
                                  ReceiveObject
<1>2. IInv /\ [Next]_vars => [Right]_vars
  BY <1>1
<1> QED
  BY <1>2, Inductive, PTL DEF Spec, FreedByItsAnswer
=============================================================================
