----------------------------- MODULE ConfigPipe -----------------------------
(***************************************************************************)
(* The configuration pipe (modbus/src/ModBus_Pipe.c): the one task that    *)
(* reads the commands of the web pages from a FIFO, edits the list         *)
(* gSlave_Set_List_Head of channels, devices and registers, writes it to a *)
(* file and answers through a second FIFO.  The commands that only answer   *)
(* change none of this, but for the walks they make (WildSearch).          *)
(*                                                                         *)
(* The nodes of a channel hang on a union, unDeviceType, which has no tag: *)
(* each device of the model carries the kind it was allocated as, and a    *)
(* walk that takes it for another kind is undefined behaviour.  A request  *)
(* the code refuses changes nothing and has no action.  Left out: malloc   *)
(* failing, names and texts, data formats, u16RegNum, the line parameters. *)
(***************************************************************************)
EXTENDS Naturals, Sequences, FiniteSets, SequencesExt

CONSTANTS
  Channels,
  ModbusAddresses, MeterAddresses,  \* of the devices of either kind
  FunCodes,
  Registers,     \* register addresses
  CodeLists,     \* what a DL/T 645 meter is to be asked for
  NumLimit,      \* values of u16TotalRegNum
  MaxDevices,    \* bound: devices of all channels
  MaxRegisters   \* bound: registers of all devices

ASSUME PipeAssumption ==
  /\ Registers \subseteq Nat
  /\ NumLimit \in Nat \ {0, 1}
  /\ {MaxDevices, MaxRegisters} \subseteq Nat
  /\ ModbusAddresses \cap MeterAddresses = {}
  /\ <<>> \in CodeLists

VARIABLES
  configured,  \* the program found channels in modbus.ini
  lists,       \* gSlave_Set_List_Head: the channels and their devices
  task,        \* PIPE_TASK: up, hung in a loop, down, or past undefined behaviour
  saved        \* the file was written to its end by the last save

pipeVars == <<configured, lists, task, saved>>

Kinds == {"MODBUS", "645"}
Protocols == Kinds \cup {"OTHER"}     \* both editions of DL/T 645 are one

Function == [code : FunCodes, total : 0 .. NumLimit - 1, regs : Seq(Registers)]
Device == [kind : Kinds, addr : ModbusAddresses \cup MeterAddresses,
           funs : Seq(Function), codes : CodeLists]
Channel == [protocol : Protocols, num : Nat, devices : Seq(Device)]

NewDevice(k, a) == [kind |-> k, addr |-> a, funs |-> <<>>, codes |-> <<>>]
Addresses(k) == IF k = "MODBUS" THEN ModbusAddresses ELSE MeterAddresses

\* The list this program edits is empty when it starts.
Blank == [c \in Channels |-> [protocol |-> "MODBUS", num |-> 0, devices |-> <<>>]]

PipeInit ==
  /\ configured \in BOOLEAN
  /\ lists = Blank
  /\ task = "up"
  /\ saved = FALSE

-----------------------------------------------------------------------------
(* Sequences for linked lists.                                             *)

\* The place at which the search for key k ends: the first element with the
\* key, or 0.
Find(list, Key(_), k) ==
  LET at == {i \in DOMAIN list : Key(list[i]) = k}
  IN  IF at = {} THEN 0 ELSE CHOOSE i \in at : \A j \in at : i <= j

\* The element at which the search for the place of register n ends: the
\* first that is not below n, or the last.
Place(regs, n) ==
  LET at == {i \in DOMAIN regs : regs[i] >= n \/ i = Len(regs)}
  IN  CHOOSE i \in at : \A j \in at : i <= j

\* Mutant: the new register always comes after the element found.
Inserted_Behind(regs, n) ==
  IF regs = <<>> THEN <<n>>
  ELSE LET j == Place(regs, n) IN
       IF regs[j] = n THEN regs ELSE InsertAt(regs, j + 1, n)

\* A register put in its place; one whose address is there is dropped.
Inserted(regs, n) ==
  IF regs = <<>> THEN <<n>>
  ELSE LET j == Place(regs, n) IN
       IF regs[j] = n THEN regs
       ELSE InsertAt(regs, IF regs[j] < n THEN j + 1 ELSE j, n)

\* Mutant: the total is not an unsigned 16-bit number.
Less_Signed(total) == total - 1

\* u16TotalRegNum after a register is gone, and after one was put into rest.
Less(total) == (total + NumLimit - 1) % NumLimit
More(total, rest, n) ==
  IF rest = <<>> \/ rest[Place(rest, n)] = n THEN total ELSE (total + 1) % NumLimit

Without(regs, r) == RemoveAt(regs, Find(regs, LAMBDA x : x, r))

-----------------------------------------------------------------------------
(* Walks through the list.                                                 *)

\* The list can be edited: it exists only in a program that found no channel.
Editing == task = "up" /\ ~configured

\* Some device of the channel is not of kind k.
Alien(ch, k) == \E i \in DOMAIN ch.devices : ch.devices[i].kind # k

\* debug_int, at the end of each edit, walks every channel as its protocol says.
Misread(ls) == \E c \in Channels : ls[c].protocol \in Kinds /\ Alien(ls[c], ls[c].protocol)

Addr(d) == d.addr
Code(f) == f.code
DeviceAt(c, a) == Find(lists[c].devices, Addr, a)

\* The list is edited and walked; a walk through devices of another kind is
\* undefined: the outcome is not followed up to the next start.
Edit(ls) ==
  /\ task' = IF Misread(ls) THEN "undefined" ELSE "up"
  /\ lists' = IF Misread(ls) THEN Blank ELSE ls
  /\ UNCHANGED <<configured, saved>>

\* A search through the devices of a channel for a kind they do not have.
WildSearch ==
  /\ Editing
  /\ \E c \in Channels, k \in Kinds : Alien(lists[c], k)
  /\ task' = "undefined"
  /\ lists' = Blank
  /\ UNCHANGED <<configured, saved>>

DeviceCount == FoldSet(LAMBDA c, n : n + Len(lists[c].devices), 0, Channels)
RegCount(d) == FoldSeq(LAMBDA f, n : n + Len(f.regs), 0, d.funs)
RegisterCount ==
  FoldSet(LAMBDA c, n : n + FoldSeq(LAMBDA d, k : k + RegCount(d), 0, lists[c].devices),
          0, Channels)

-----------------------------------------------------------------------------
(* The commands.                                                           *)

\* ENNModBus_UART_Set: the protocol changes, the devices stay.
UART_Set(c, p) ==
  /\ Editing
  /\ Edit([lists EXCEPT ![c].protocol = p])

\* ENNModBus_Slave_Set, type 1: the code looks for the first address of the
\* message; a meter gets the second one.
Slave_Add(c, k, old, new) ==
  /\ Editing /\ ~Alien(lists[c], k) /\ DeviceCount < MaxDevices
  /\ DeviceAt(c, old) = 0
  /\ Edit([lists EXCEPT ![c].num = @ + 1,
       ![c].devices = Append(@, NewDevice(k, IF k = "MODBUS" THEN old ELSE new))])

\* Mutant: the number of devices is not lowered.
Slave_Delete_Uncounted(c, k, old) ==
  /\ Editing /\ ~Alien(lists[c], k)
  /\ DeviceAt(c, old) # 0
  /\ Edit([lists EXCEPT ![c].devices = RemoveAt(@, DeviceAt(c, old))])

\* Type 2.
Slave_Delete(c, k, old) ==
  /\ Editing /\ ~Alien(lists[c], k)
  /\ DeviceAt(c, old) # 0
  /\ Edit([lists EXCEPT ![c].num = @ - 1,
                        ![c].devices = RemoveAt(@, DeviceAt(c, old))])

\* Type 3: nobody looks whether the new address is taken.
Slave_Change(c, k, old, new) ==
  /\ Editing /\ ~Alien(lists[c], k)
  /\ DeviceAt(c, old) # 0
  /\ Edit([lists EXCEPT ![c].devices[DeviceAt(c, old)].addr = new])

\* The function lists of the Modbus device of channel c with address a.
FunsOf(c, a) == lists[c].devices[DeviceAt(c, a)].funs
FunAt(c, a, f) == Find(FunsOf(c, a), Code, f)
RegsOf(c, a, f) == FunsOf(c, a)[FunAt(c, a, f)].regs
TotalOf(c, a, f) == FunsOf(c, a)[FunAt(c, a, f)].total

HasDevice(c, a) == Editing /\ ~Alien(lists[c], "MODBUS") /\ DeviceAt(c, a) # 0
HasFunction(c, a, f) == HasDevice(c, a) /\ FunAt(c, a, f) # 0

SetRegs(c, a, f, regs, total) ==
  Edit([lists EXCEPT ![c].devices[DeviceAt(c, a)].funs[FunAt(c, a, f)] =
          [code |-> f, total |-> total, regs |-> regs]])

\* ENNModBus_Slave_Reg_Set, type 1: the first register of a function code...
Reg_AddFunction(c, a, f, r) ==
  /\ HasDevice(c, a) /\ FunAt(c, a, f) = 0 /\ RegisterCount < MaxRegisters
  /\ Edit([lists EXCEPT ![c].devices[DeviceAt(c, a)].funs =
             Append(@, [code |-> f, total |-> 1, regs |-> <<r>>])])

\* ... and one more; an emptied list gets it uncounted.
Reg_Add(c, a, f, r) ==
  /\ HasFunction(c, a, f) /\ RegisterCount < MaxRegisters
  /\ SetRegs(c, a, f, Inserted(RegsOf(c, a, f), r),
             More(TotalOf(c, a, f), RegsOf(c, a, f), r))

\* Type 2.
Reg_Delete(c, a, f, r) ==
  /\ HasFunction(c, a, f) /\ Contains(RegsOf(c, a, f), r)
  /\ SetRegs(c, a, f, Without(RegsOf(c, a, f), r), Less(TotalOf(c, a, f)))

\* Mutant: the element at the place of the new register is dropped.
Relinked_Over(regs, old, new) ==
  LET i == Find(regs, LAMBDA x : x, old)
      rest == RemoveAt(regs, i)
      j == Place(rest, new)
  IN  IF rest = <<>> \/ j = 1 \/ rest[j] <= new THEN Inserted(rest, new)
      ELSE SubSeq(rest, 1, i - 1) \o <<new>> \o SubSeq(rest, j + 1, Len(rest))

\* Type 3 takes the old register out and puts the new one in, but the element
\* it links the new one behind is the one that was before the old one.
Relinked(regs, old, new) ==
  LET i == Find(regs, LAMBDA x : x, old)
      rest == RemoveAt(regs, i)
      j == Place(rest, new)
  IN  IF rest = <<>> \/ j = 1 \/ rest[j] <= new THEN Inserted(rest, new)
      ELSE SubSeq(rest, 1, i - 1) \o <<new>> \o SubSeq(rest, j, Len(rest))

\* No element was before the first one: a null pointer is followed.
NoPredecessor(regs, old, new) ==
  LET rest == Without(regs, old) IN
  /\ regs[1] = old /\ rest # <<>>
  /\ Place(rest, new) # 1 /\ rest[Place(rest, new)] > new

\* The new register goes behind an element that comes after its successor:
\* the list is a ring, and debug_int walks it for ever.
Ring(regs, old, new) ==
  LET rest == Without(regs, old) IN
  /\ rest # <<>> /\ Place(rest, new) # 1 /\ rest[Place(rest, new)] > new
  /\ Find(regs, LAMBDA x : x, old) > Place(rest, new)

Reg_Change(c, a, f, old, new) ==
  /\ HasFunction(c, a, f) /\ Contains(RegsOf(c, a, f), old)
  /\ ~NoPredecessor(RegsOf(c, a, f), old, new) /\ ~Ring(RegsOf(c, a, f), old, new)
  /\ SetRegs(c, a, f, Relinked(RegsOf(c, a, f), old, new),
       More(Less(TotalOf(c, a, f)), Without(RegsOf(c, a, f), old), new))

\* The same request, when the list it relinks is no longer one.
Reg_ChangeFatal(c, a, f, old, new) ==
  /\ HasFunction(c, a, f) /\ Contains(RegsOf(c, a, f), old)
  /\ \/ NoPredecessor(RegsOf(c, a, f), old, new) /\ task' = "down"
     \/ Ring(RegsOf(c, a, f), old, new) /\ task' = "hung"
  /\ lists' = Blank
  /\ UNCHANGED <<configured, saved>>

\* ENNDev645_Channel_Code_Set: what a meter is asked for is replaced.
Code_Set(c, a, codes) ==
  /\ Editing /\ ~Alien(lists[c], "645") /\ DeviceAt(c, a) # 0
  /\ Edit([lists EXCEPT ![c].devices[DeviceAt(c, a)].codes = codes])

\* The channels of which ENNModBus_Slave_Save writes meters; it dies in the
\* first, where it takes a name from the Modbus list, which has ended.
WritesMeters == \E c \in Channels : lists[c].protocol = "645" /\ lists[c].devices # <<>>
\* The file is emptied first, then written piece by piece.
Slave_Save ==
  /\ Editing /\ ~WritesMeters
  /\ saved' \in BOOLEAN                                \* fputs may fail
  /\ UNCHANGED <<configured, lists, task>>

Slave_SaveFatal ==
  /\ Editing /\ WritesMeters
  /\ saved' = FALSE
  /\ task' = "down"
  /\ lists' = Blank
  /\ UNCHANGED configured

\* The command to reboot, a power failure, or a new start of a dead program:
\* the edited list is not read from the file.
Restart ==
  /\ lists' = Blank
  /\ task' = "up"
  /\ UNCHANGED <<configured, saved>>

RegisterCommand(c, a, f) ==
  \/ \E r \in Registers :
       Reg_AddFunction(c, a, f, r) \/ Reg_Add(c, a, f, r) \/ Reg_Delete(c, a, f, r)
  \/ \E old \in Registers :
       /\ HasFunction(c, a, f) /\ Contains(RegsOf(c, a, f), old)
       /\ \E new \in Registers :
            Reg_Change(c, a, f, old, new) \/ Reg_ChangeFatal(c, a, f, old, new)

DeviceCommand(c) ==
  \/ \E p \in Protocols : UART_Set(c, p)
  \/ \E k \in Kinds : \E old \in Addresses(k) :
       \/ Slave_Delete(c, k, old)
       \/ \E new \in Addresses(k) : Slave_Add(c, k, old, new) \/ Slave_Change(c, k, old, new)
  \/ \E a \in MeterAddresses, codes \in CodeLists : Code_Set(c, a, codes)

PipeNext ==
  \/ \E c \in Channels : DeviceCommand(c)
  \/ \E c \in Channels, a \in ModbusAddresses :
       HasDevice(c, a) /\ \E f \in FunCodes : RegisterCommand(c, a, f)
  \/ WildSearch \/ Slave_Save \/ Slave_SaveFatal \/ Restart

PipeSpec == PipeInit /\ [][PipeNext]_pipeVars

-----------------------------------------------------------------------------
(* Properties.                                                             *)

\* The types of the lists, the counters and the file.
PipeTypeOK ==
  /\ configured \in BOOLEAN
  /\ lists \in [Channels -> Channel]
  /\ task \in {"up", "hung", "down", "undefined"}
  /\ saved \in BOOLEAN

\* u8SlaveNum, which is shown to the web page and written to the file, is the
\* number of devices in the list, whatever was added, deleted, readdressed or
\* given another protocol.
CountMatchesList == \A c \in Channels : lists[c].num = Len(lists[c].devices)

Sorted(regs) == \A i, j \in 1 .. Len(regs) : i < j => regs[i] < regs[j]

\* As long as the task runs, every register list is in ascending order and
\* without repetitions, also after the insertion that links the new register
\* behind a stale element: the polling of a device relies on the order.
RegistersSorted ==
  \A c \in Channels : \A i \in 1 .. Len(lists[c].devices) :
    \A j \in 1 .. Len(lists[c].devices[i].funs) : Sorted(lists[c].devices[i].funs[j].regs)

\* The function lists a step changes, each with what becomes of it.
ChangedLists ==
  {<<lists[p[1]].devices[p[2]].funs[p[3]], lists'[p[1]].devices[p[2]].funs[p[3]]>> :
     p \in {q \in Channels \X (1 .. MaxDevices) \X (1 .. Cardinality(FunCodes)) :
             /\ lists[q[1]] # lists'[q[1]] /\ lists[q[1]].num = lists'[q[1]].num
             /\ q[2] \in DOMAIN lists[q[1]].devices
             /\ q[3] \in DOMAIN lists[q[1]].devices[q[2]].funs
             /\ q[3] \in DOMAIN lists'[q[1]].devices[q[2]].funs}}

Lost(before, after) == ToSet(before.regs) \ ToSet(after.regs)
Gained(before, after) == ToSet(after.regs) \ ToSet(before.regs)

\* One command takes at most one register out of a list, and beyond that only
\* those over which it moves that register to a higher address: no other edit
\* loses what was configured.
NothingElseLost ==
  [][\A l \in ChangedLists :
       LET lost == Lost(l[1], l[2])  gained == Gained(l[1], l[2]) IN
       \/ Cardinality(lost) <= 1
       \/ \E old \in lost, new \in gained : lost \ {old} \subseteq old + 1 .. new - 1]_pipeVars
=============================================================================
