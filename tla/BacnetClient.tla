---------------------------- MODULE BacnetClient ----------------------------
(***************************************************************************)
(* The south side of the converter: the task that polls the BACnet MS/TP   *)
(* devices (client.c), the transaction state machine that numbers its      *)
(* requests and repeats them (tsm.c), the one-packet mailbox between the   *)
(* data link and the task (dlmstp.c), and the devices on the line.         *)
(*                                                                         *)
(* The task runs rounds.  Of every known device it asks the length of the  *)
(* object list, then the members of the list from the second on, then the  *)
(* value of every member, and publishes the table it has filled.  Each     *)
(* request is followed by ONE receive of at most a second, whatever that   *)
(* receive brings.                                                         *)
(*                                                                         *)
(* Time is counted in full seconds of waiting: a prompt answer arrives     *)
(* before the next full second has passed, a late one in the second after. *)
(* A transaction expires after 60 s (dlenv.c:280), so never while its      *)
(* request is on the line or its answer in the mailbox.                    *)
(***************************************************************************)
EXTENDS Integers, Sequences, FiniteSets, SequencesExt

CONSTANTS
    Devices,        \* the devices on the line
    Objects,        \* the objects they have
    ObjectList,     \* of a device, its object list from the second member on
    ObjectZero,     \* the object of type 0 and instance 0, analog input 0
    Multistate,     \* the objects whose value is an unsigned integer
    Readings,       \* the unsigned values the devices return
    MaxId,          \* MAX_TSM_TRANSACTIONS; the invoke ids are 1 .. MaxId
    Retries,        \* apdu_retries()
    MaxTroubles,    \* bound on troubles
    None

ASSUME ListAssumption ==
    /\ ObjectList \in [Devices -> Seq(Objects)]
    /\ ObjectZero \in Objects
    /\ Multistate \subseteq Objects
    /\ Readings \subseteq Nat

ASSUME NumberAssumption ==
    /\ MaxId \in Nat \ {0}
    /\ Retries \in Nat
    /\ MaxTroubles \in Nat
    /\ None \notin Objects \cup Nat

(* What the data link can hand to the task; None is none of it.            *)
Asks == ({"count"} \X {0}) \cup ({"entry"} \X Nat) \cup ({"object"} \X Objects)
Packets == [type : {"ack", "error", "abort", "iam"}, dev : Devices, id : 0 .. MaxId,
            ask : Asks \cup {None}, val : Nat \cup Objects \cup {None}]
ASSUME NoneAssumption == None \notin Packets

VARIABLES
    tsm,             \* TSM_List, by invoke id
    Current_Invoke_ID,
    wire,            \* requests a device has heard and will answer
    mailbox,         \* Receive_Packet, None when it is not ready
    phase,           \* what the task is asking for
    step,            \* how far it is with that request
    full,            \* the mailbox was full when the task began to wait
    known,           \* Address_Table, oldest first
    p_addr_entry,    \* index in known of the device being asked
    Target_Address,
    Request_Invoke_ID,
    Object_Num,      \* the global the decoder writes
    temp,            \* type_temp and instance_temp
    entryNum,        \* Object_Num of the table entry
    list,            \* the entry's list of objects, HEAD
    at,              \* objectnum, then the position in list
    table,           \* Bacnet_Register_List_Table, as far as ever written
    register_number,
    tableNumber,     \* Bacnet_Register_List_Table_Number
    started,         \* FLAG: the BACnet/IP server task runs
    Error_Detected,
    troubles         \* late and lost answers, aborts and I-Ams in a round, so far

trans   == <<tsm, Current_Invoke_ID>>
control == <<phase, step, full, p_addr_entry, Target_Address, entryNum, list, at>>
rows    == <<table, register_number>>
heard   == <<known, Object_Num, temp, Error_Detected>>
shown   == <<tableNumber, started>>
vars    == <<trans, wire, mailbox, control, rows, heard, shown,
             Request_Invoke_ID, troubles>>

Ids  == 1 .. MaxId
Free == [state |-> "free", RetryCount |-> 0, ask |-> None, dev |-> None]

Init ==
    /\ tsm = [i \in Ids |-> Free]
    /\ Current_Invoke_ID = 1
    /\ wire = {} /\ mailbox = None
    /\ phase = "head" /\ step = "asked" /\ full = FALSE
    /\ known = <<>> /\ p_addr_entry = 1 /\ Target_Address = None
    /\ Request_Invoke_ID = 0
    /\ Object_Num = 0 /\ temp = ObjectZero /\ entryNum = 0
    /\ list = <<>> /\ at = 0
    /\ table = <<>> /\ register_number = 0 /\ tableNumber = 0
    /\ started = FALSE /\ Error_Detected = FALSE
    /\ troubles = 0

-----------------------------------------------------------------------------
(* What a device answers.  An index or an object it does not have is an    *)
(* error.                                                                  *)
Answers(dev, id, ask) ==
    LET objects == ObjectList[dev]
        Ack(v) == [type |-> "ack", dev |-> dev, id |-> id, ask |-> ask, val |-> v]
        Err == {[type |-> "error", dev |-> dev, id |-> id, ask |-> ask, val |-> None]}
    IN  CASE ask[1] = "count" -> {Ack(Len(objects) + 1)}
          [] ask[1] = "entry" ->
               IF ask[2] - 1 \in DOMAIN objects THEN {Ack(objects[ask[2] - 1])} ELSE Err
          [] ask[1] = "object" ->
               IF ask[2] \in ToSet(objects)
               THEN {Ack(v) : v \in IF ask[2] \in Multistate THEN Readings ELSE {None}}
               ELSE Err

Abort(w) == [type |-> "abort", dev |-> w.dev, id |-> w.id, ask |-> w.ask, val |-> None]
IAm(dev) == [type |-> "iam", dev |-> dev, id |-> 0, ask |-> None, val |-> None]

(* The line disturbs the exchange once more.                               *)
Trouble == troubles < MaxTroubles /\ troubles' = troubles + 1

(* A request is put on the line: the device answers promptly, or late, or  *)
(* the request or its answer is lost.                                      *)
Transmit(id, ask, dev) ==
    LET heardBy(due) == wire' = wire \cup {[id |-> id, ask |-> ask, dev |-> dev, due |-> due]}
    IN  \/ heardBy(TRUE) /\ UNCHANGED troubles
        \/ heardBy(FALSE) /\ Trouble
        \/ UNCHANGED wire /\ Trouble

(* MSTP_Put_Receive: a packet that finds the mailbox full is dropped.      *)
MSTP_Put_Receive(p) ==
    mailbox' = IF mailbox # None THEN mailbox ELSE p

(* A device answers.  Instead of the answer it may abort the transaction.  *)
Deliver ==
    /\ \E w \in wire :
        /\ w.due
        /\ wire' = wire \ {w}
        /\ \/ /\ \E p \in Answers(w.dev, w.id, w.ask) : MSTP_Put_Receive(p)
              /\ UNCHANGED troubles
           \/ MSTP_Put_Receive(Abort(w)) /\ Trouble
    /\ UNCHANGED <<trans, control, rows, heard, shown, Request_Invoke_ID>>

(* An I-Am comes by: no trouble while the task waits between rounds, but   *)
(* in a round it takes the place of an answer.                             *)
Announce ==
    /\ \E d \in Devices : MSTP_Put_Receive(IAm(d))
    /\ IF phase = "head" /\ step = "wait" /\ mailbox = None /\ wire = {}
       THEN UNCHANGED troubles ELSE Trouble
    /\ UNCHANGED <<trans, wire, control, rows, heard, shown, Request_Invoke_ID>>

-----------------------------------------------------------------------------
(* The id to try after id: zero is skipped.                                *)
NextInvokeID_Zero(id) == (id + 1) % (MaxId + 1)
NextInvokeID(id) == (id % MaxId) + 1

(* The next id that is not in use, 0 if all are.                           *)
tsm_next_free_invokeID_Blind == Current_Invoke_ID
tsm_next_free_invokeID ==
    LET unused == {i \in Ids : tsm[i].state = "free"}
        after(i) == (i - Current_Invoke_ID) % MaxId
    IN  IF unused = {} THEN 0
        ELSE CHOOSE i \in unused : \A j \in unused : after(i) <= after(j)

Ask ==
    CASE phase = "count"  -> <<"count", 0>>
      [] phase = "entry"  -> <<"entry", at>>
      [] phase = "object" -> <<"object", list[at]>>

(* Send_Read_Property_Request or Send_Read_Property_Multiple_Request: with *)
(* no id free nothing is sent, and the task waits for an answer all the    *)
(* same.                                                                   *)
Send ==
    /\ phase \in {"count", "entry", "object"} /\ step = "ask"
    /\ LET id == tsm_next_free_invokeID
       IN  /\ Request_Invoke_ID' = id
           /\ IF id = 0 THEN UNCHANGED <<trans, wire, troubles>>
              ELSE /\ tsm' = [tsm EXCEPT ![id] =
                             [state |-> "await", RetryCount |-> 0, ask |-> Ask,
                              dev |-> Target_Address]]
                   /\ Current_Invoke_ID' = NextInvokeID(id)
                   /\ Transmit(id, Ask, Target_Address)
    /\ step' = "asked"
    /\ UNCHANGED <<mailbox, phase, full, p_addr_entry, Target_Address, entryNum, list, at,
                   rows, heard, shown>>

(* The task enters dlmstp_receive.  pthread_cond_timedwait comes before    *)
(* any look at the mailbox.                                                *)
BeginWait ==
    /\ step = "asked"
    /\ step' = "wait"
    /\ full' = (mailbox # None)
    /\ UNCHANGED <<trans, wire, mailbox, phase, p_addr_entry, Target_Address, entryNum,
                   list, at, rows, heard, shown, Request_Invoke_ID, troubles>>

(* tsm_timer_milliseconds finds a transaction expired: it repeats the      *)
(* request, or gives up and keeps the invoke id.  The client calls it      *)
(* before it sends, the server task whenever a second has passed.          *)
Expire ==
    /\ step = "ask" \/ started
    /\ \E i \in Ids :
        /\ tsm[i].state = "await"
        /\ \A w \in wire : w.id # i
        /\ mailbox # None => mailbox.id # i
        /\ step # "ask" => i # Request_Invoke_ID
        /\ IF tsm[i].RetryCount < Retries
           THEN /\ tsm' = [tsm EXCEPT ![i].RetryCount = @ + 1]
                /\ Transmit(i, tsm[i].ask, tsm[i].dev)
           ELSE /\ tsm' = [tsm EXCEPT ![i].state = "failed"]
                /\ UNCHANGED <<wire, troubles>>
    /\ UNCHANGED <<Current_Invoke_ID, mailbox, control, rows, heard, shown,
                   Request_Invoke_ID>>

-----------------------------------------------------------------------------
(* The packet handlers.  An answer counts only if it comes from the device *)
(* asked and carries the id of the last request.                           *)
Accepted_AnyId(p) == p.type = "ack" /\ p.dev = Target_Address
Accepted(p) ==
    p.type = "ack" /\ p.dev = Target_Address /\ p.id = Request_Invoke_ID

(* The next row of the table.  It is written without a look at the size of *)
(* the table, 256 rows.                                                    *)
WriteRow(row) ==
    table' = IF register_number < Len(table)
             THEN [table EXCEPT ![register_number + 1] = row]
             ELSE Append(table, row)

information_copy_Same(p) ==
    /\ WriteRow([dev |-> p.dev, obj |-> p.ask[2]])
    /\ UNCHANGED register_number
information_copy(p) ==
    /\ WriteRow([dev |-> p.dev, obj |-> p.ask[2]])
    /\ register_number' = register_number + 1

(* A device that is known already is not added again.                      *)
address_table_add(dev) == IF dev \in ToSet(known) THEN known ELSE Append(known, dev)

(* npdu_handler: I-Am, acknowledgement, error and abort.  Acknowledgement, *)
(* error and abort free the invoke id they carry, whoever sent them.       *)
npdu_handler(p) ==
    /\ known' = IF p.type = "iam" THEN address_table_add(p.dev) ELSE known
    /\ Error_Detected' = (Error_Detected \/ p.type = "abort")
    /\ tsm' = IF p.id \in Ids THEN [tsm EXCEPT ![p.id] = Free] ELSE tsm
    \* the decoder leaves every unsigned value it meets in Object_Num
    /\ Object_Num' = IF Accepted(p) /\ p.ask[1] # "entry" /\ p.val # None
                     THEN p.val ELSE Object_Num
    /\ IF Accepted(p) /\ p.ask[1] = "object" THEN information_copy(p) ELSE UNCHANGED rows

(* The object identifier the decoder leaves behind after packet p.         *)
DecodedFrom(p) == IF Accepted(p) /\ p.ask[1] = "entry" THEN p.val ELSE temp

(* A full second of waiting, in which every prompt answer arrives: nothing *)
(* has woken the task.                                                     *)
SecondPassed_Never == full /\ \A w \in wire : ~w.due
SecondPassed == (mailbox = None \/ full) /\ \A w \in wire : ~w.due

(* dlmstp_receive returns a packet that came while it waited at once, but  *)
(* one that was there before only after a full second, in which everything *)
(* else that arrives is dropped; without a packet it returns after a       *)
(* second, too.                                                            *)
dlmstp_receive ==
    /\ step = "wait"
    /\ \/ mailbox # None /\ ~full /\ UNCHANGED wire
       \/ /\ SecondPassed
          /\ wire' = {[w EXCEPT !.due = TRUE] : w \in wire}
    /\ mailbox' = None
    /\ IF mailbox = None THEN UNCHANGED <<tsm, known, Object_Num, Error_Detected, rows>>
       ELSE npdu_handler(mailbox)
    /\ UNCHANGED <<Current_Invoke_ID, full, shown, Request_Invoke_ID, troubles>>

(* type_temp and instance_temp after the receive.                          *)
Decoded == IF mailbox # None THEN DecodedFrom(mailbox) ELSE temp

AskDevice(n, devices) ==
    /\ p_addr_entry' = n
    /\ Target_Address' = devices[n]
    /\ phase' = "count" /\ step' = "ask"

(* Between two rounds.  An abort heard in the round ends the task.         *)
ReceiveHead ==
    /\ phase = "head" /\ dlmstp_receive
    /\ temp' = Decoded
    /\ \/ Error_Detected' /\ phase' = "ended" /\ step' = "ended"
          /\ UNCHANGED <<p_addr_entry, Target_Address>>
       \/ ~Error_Detected' /\ known' = <<>> /\ step' = "asked"
          /\ UNCHANGED <<phase, p_addr_entry, Target_Address>>
       \/ ~Error_Detected' /\ known' # <<>> /\ AskDevice(1, known')
    /\ UNCHANGED <<entryNum, list, at>>

(* The length of the list, or whatever Object_Num holds if no answer came. *)
ReceiveCount ==
    /\ phase = "count" /\ dlmstp_receive
    /\ temp' = Decoded
    /\ entryNum' = Object_Num'
    /\ phase' = IF entryNum' >= 2 THEN "entry" ELSE "publish"
    /\ step' = "ask" /\ at' = 2
    /\ UNCHANGED <<p_addr_entry, Target_Address, list>>

(* A member of the list; without an answer object zero is listed.          *)
ReceiveEntry ==
    /\ phase = "entry" /\ dlmstp_receive
    /\ list' = Append(list, Decoded)
    /\ temp' = ObjectZero
    /\ IF at < entryNum THEN at' = at + 1 /\ UNCHANGED phase
       ELSE at' = 1 /\ phase' = "object"
    /\ step' = "ask"
    /\ UNCHANGED <<p_addr_entry, Target_Address, entryNum>>

(* The value and unit of a listed object.                                  *)
ReceiveObject ==
    /\ phase = "object" /\ dlmstp_receive
    /\ temp' = Decoded
    /\ IF at < Len(list) THEN at' = at + 1 /\ UNCHANGED phase
       ELSE at' = 0 /\ phase' = "publish"
    /\ step' = "ask"
    /\ UNCHANGED <<p_addr_entry, Target_Address, entryNum, list>>

(* The rows are published, and the next device, if any, starts again at    *)
(* the first row.  The first full round starts the server task.            *)
Publish ==
    /\ phase = "publish"
    /\ tableNumber' = register_number
    /\ register_number' = 0
    /\ list' = <<>> /\ at' = 0
    /\ IF p_addr_entry < Len(known)
       THEN AskDevice(p_addr_entry + 1, known) /\ UNCHANGED started
       ELSE /\ started' = TRUE
            /\ phase' = "head" /\ step' = "asked"
            /\ UNCHANGED <<p_addr_entry, Target_Address>>
    /\ UNCHANGED <<trans, wire, mailbox, full, entryNum, heard, table,
                   Request_Invoke_ID, troubles>>

Task == Send \/ BeginWait \/ ReceiveHead \/ ReceiveCount \/ ReceiveEntry
            \/ ReceiveObject \/ Publish

Next == Task \/ Deliver \/ Announce \/ Expire

Spec == Init /\ [][Next]_vars

(* The task is scheduled again and again, and a device that answers        *)
(* promptly does so while the task waits.                                  *)
FairSpec == Spec /\ WF_vars(Task) /\ WF_vars(Deliver)

-----------------------------------------------------------------------------
TypeOK ==
    /\ tsm \in [Ids -> [state : {"free", "await", "failed"}, RetryCount : 0 .. Retries,
                        ask : Asks \cup {None},
                        dev : Devices \cup {None}]]
    /\ Current_Invoke_ID \in Ids
    /\ phase \in {"head", "count", "entry", "object", "publish", "ended"}
    /\ step \in {"ask", "asked", "wait", "ended"}
    /\ known \in Seq(Devices) /\ IsInjective(known)
    /\ Request_Invoke_ID \in Ids \cup {0}
    /\ temp \in Objects /\ list \in Seq(Objects)
    /\ table \in Seq([dev : Devices, obj : Objects])
    /\ register_number \in 0 .. Len(table) /\ tableNumber \in 0 .. Len(table)
    /\ {Object_Num, entryNum, at} \subseteq Nat
    /\ {started, full, Error_Detected} \subseteq BOOLEAN
    /\ troubles \in 0 .. MaxTroubles

(* In a round a row is written only with the value of the object that was  *)
(* just asked, of the device that was asked, although answers come late    *)
(* and the receive may bring those of earlier requests: the invoke id      *)
(* filters them (client.c:362).                                            *)
RowIsAnswer ==
    [][phase = "object" /\ register_number' = register_number + 1
        => table'[register_number'] = [dev |-> known[p_addr_entry], obj |-> list[at]]]_vars

(* A pending invoke id is freed only by the answer to the request it was   *)
(* given to, although ids are used again and the machine checks nothing    *)
(* but the id (apdu.c:585, tsm.c:145).                                     *)
FreedByItsAnswer ==
    [][\A i \in Ids : tsm[i].state # "free" /\ tsm'[i].state = "free"
        => mailbox.dev = tsm[i].dev /\ mailbox.ask = tsm[i].ask]_vars

(* On an undisturbed line a device's round reads every object of its list  *)
(* once and in order.                                                      *)
CompleteIfQuiet ==
    phase = "publish" /\ troubles = 0 =>
        [i \in 1 .. register_number |-> table[i].obj] = ObjectList[Target_Address]

(* The rounds keep to their tables, and an undisturbed one leaves nothing  *)
(* out.                                                                    *)
RoundSound == TypeOK /\ CompleteIfQuiet

(* No lost answer holds the task up: it always comes to the end of its     *)
(* round, unless an abort has ended it.                                    *)
RoundEnds == []<>(phase \in {"head", "ended"})

(* What is published for a device are values of that device (the comment   *)
(* at client.c:66: "the invoke id is needed to filter incoming messages"). *)
PublishedOfDevice ==
    phase = "publish" =>
        \A i \in 1 .. register_number : table[i].dev = Target_Address
=============================================================================
