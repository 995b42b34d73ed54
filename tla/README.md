# TLA+ models of the jzq data concentrator

jzq is the firmware of a data concentrator: it reads meters on serial lines (Modbus RTU, DL/T 645) and on BACnet/IP,
keeps their values in register tables and an SQLite data base, and hands them north over TCP, either as a Modbus/TCP
slave or as an IEC 60870-5-102 slave. It is one multi-threaded C program; the tasks share global tables, message
queues and sockets. The modules here are translated from the C code under `src/`. (The C files are GBK encoded; line
numbers are those of the files as they are.)

## Inventory

| Part | State it keeps | Operations | Talks to | What is hard | Here |
|---|---|---|---|---|---|
| Message queue, `driver/src/ennOS.c:852-1090` | ring (`begin`, `num`, `noElements`), mutex, counting semaphore | Create, Send, Receive, Empty, Delete | every task | `num` and the semaphore change in separate critical sections; several senders and receivers | `MsgQueue`, `AbstractQueue`, `QueueAndPipeProofs` |
| Semaphores, tasks, timers, `ennOS.c` | wrappers of POSIX objects | CreateTask, GetSemaphore, ... | | thin wrappers | used through the queue |
| Network server task and worker, `modbus/src/ModBus_TCP.c:1650-1996` | `fd[]`, `conn_amount`, `MaxSock`, `fd_index_to_master[]`, `Pcontext[]`; request queue | accept, scan, read, close, refuse; take and answer a request | clients, queue, IEC 102 session | slots freed in mid-scan, descriptors reused, a full queue, one task's captured descriptor used by another | `TcpServer`, `TcpServerProofs` |
| IEC 102 link layer and application, `ModBus_TCP.c:520-720, 1034-1402`, `protocol/src/IEC102protocol.c` | `DPA_CONN_CONTEXT`: link state, frame count bit, last frame, running command, cursor | one frame in, at most one frame out | master, data base | repetition with the same count bit, late answers, cancellation in mid-transfer, cursor across frames | `Iec102Slave`, `Iec102Session`, `Iec102Proofs` |
| Serial channel tasks, `modbus/src/ModBus_Slave_Table.c:2801-4425` | per-line mutex, UART input, `pData` of each function code, `u16Offset` | one polling round per channel; register writes from MSG_RX use the same line | slaves, MSG_RX | late answers on a shared line, offsets after failures, bytes left in the UART | `ModbusChannel`, `ModbusChannelProofs`. The tasks are not started in this version (`main.c:883` is commented out) |
| Modbus request handlers, `modbus/src/ModBus_Module.c` | none of their own | read/write registers, history, exceptions | register tables, serial line, socket | a write holds the line; answers twice or never in error paths | the answer as seen by a client: `TcpServer!Reply`/`Done`; the values read and the writes on the line: `ModbusChannel` |
| Register tables and mapping, `ModBus_Slave_Table.c:100-2800`, `ModBus_Reg_Map.c` | lists built from ini files, the layout of `pData` | parse at start, search | | the layout is computed in three places | the layout and the search: `ModbusChannel`; the parsing is not modelled |
| Configuration pipe, `modbus/src/ModBus_Pipe.c` | the list `gSlave_Set_List_Head` of channels, devices, functions, registers and meters; the ini file | commands of the web interface: add, delete, change, save, reboot | two FIFOs, file | linked lists edited by hand, an untagged union, counters kept beside the lists, a save that dies half way | `ConfigPipe`, `QueueAndPipeProofs` |
| History file, `ModBus_Slave_Table.c:3150-3320` | one file | write, read | | `bRead` is never FALSE: never written | not modelled |
| SQLite wrapper, `driver/src/ennDatabase.c` | tables of readings | insert, select, delete by age | IEC 102, main task | a handle that an error closes, keys by the second, tables that must be dropped on their day | `History`, `HistoryProofs`; the text of the statements is not modelled |
| IEC 102 configuration, `102dpa/src/IEC102_Main.c` | `p_Reg_Data`, the mapping of information numbers | parse at start; copy of the values of the registers | main task, register tables | values are moved and zeroed in two steps while tasks store | `History`; the parsing is not modelled |
| BACnet client, `bacnet/client/client.c`, `bacnet/src/tsm.c` | transaction table, known devices, the last request, globals the decoder writes, table of values | rounds of ReadProperty and ReadPropertyMultiple, repetition of requests | devices over the MS/TP mailbox (`bacnet/linux/dlmstp.c`), server task | late answers, one receive per request, invoke ids that are never freed | `BacnetClient`, `BacnetClientProofs` |
| BACnet/IP server, `bacnet/server/server.c`, `bacnet/handler/h_cov.c`, `bacnet/src/dcc.c` | `COV_Subscriptions`, `COV_Addresses`, the state of `handler_cov_task`, `TSM_List` (shared with the client), communication control | subscribe, cancel, write, notify, acknowledge, control; ReadProperty | clients on IP, client task | a task in steps with packets in between; ids shared by two tasks without a lock; tables that must agree | `CovServer`, `AbstractCov`, `CovServerProofs`; the read services and the reads of the client's table are not modelled |
| MS/TP master node, `bacnet/src/mstp.c`, `bacnet/linux/dlmstp.c`, `bacnet/linux/rs485.c` | `mstp_port` of each node, `PDU_Queue`, `Receive_Packet` | token passing, polls for masters, requests and replies, the receive machine | the other nodes on the bus, the client | a token lost or doubled, nodes that come and go, time limits that must fit together | `MstpRing`, `MstpRingProofs` |
| Rest of the BACnet stack, `bacnet/` (third party) | | services, objects, BACnet/IP | | vendored | not modelled |
| DL/T 645, `protocol/src/test_645_*.c` | none | frame encoding and decoding | serial line | encodings | not modelled |
| UART, FIFO, LED, sockets, `driver/src/{uart,fifo,led,ennSocket}.c` | descriptors | thin wrappers of system calls | | | external to the models |
| cJSON, `src/src/Tjson.c` | | JSON in, JSON out | | vendored parser, text | not modelled |
| Main program, `src/src/main.c` | timer of the history | start tasks; once a second the history | all | the clock is read several times in a pass | `History`; the start of the tasks is not modelled |

What must hold of each part, in words: a queue delivers every message once, in order, and never blocks everybody; the
server's connection table agrees with the kernel's, a client is served while it is connected and gets its own answers;
an IEC 102 transfer is confirmed, complete, in order, and ends; the table the BACnet client publishes holds the values
of the objects it asked for; an MS/TP bus has one token, and every node that is on gets it; a client that reads a
Modbus register gets that register, and is told the truth about a write; an edit of the configuration changes what
it names and nothing else; the history holds each reading under its time, and a master gets the total of the time it
asked for; a client that subscribed to an object is told its value in the end, and its subscription costs nothing when
it is over.

## Modules

| Module | Lines of the code | State and actions |
|---|---|---|
| `AbstractQueue` | what `ENNOS_CreateMessage/SendMessage/ReceiveMessage/EmptyMessage` promise | a sequence `q` and what each receiver got |
| `MsgQueue` | `ennOS.c:876-1074` | one program counter per thread; one action per statement that touches shared memory (lock, test, store, count, unlock, post, ...) |
| `TcpServer` | `ModBus_TCP.c:1650-1996`, `972-1032` | `fd[]`, `conn_amount`, `MaxSock`, the select set, the queue, the worker; one action per pass of the scan, per outcome of accept, per step of the worker. Clients and the kernel's descriptor numbers are external |
| `TcpServerProofs` | | the TLAPS proofs about `TcpServer` |
| `Iec102Slave` | `ModBus_TCP.c:520-720, 1034-1402`, `IEC102protocol.c:112-265, 680-712, 1299-1570, 1590-2191` | functions from a session (`DPA_CONN_CONTEXT`) and a frame to the next session and an answer |
| `Iec102Session` | | one connection: a master that obeys the protocol, the link, and `Iec102Slave` |
| `Iec102Proofs` | | the TLAPS proofs about `Iec102Session` |
| `BacnetClient` | `client.c:271-345, 459-723`, `tsm.c:155-321`, `dlmstp.c:143-212, 304-332`, `s_rp.c:62-132`, `apdu.c:538-645` | the polling task (`phase`, `step`), the transaction table, the mailbox, the requests on the line; one action per send, per receive of each kind, for the timer and for the end of a device |
| `BacnetClientProofs` | | the TLAPS proofs about `BacnetClient` |
| `MstpRing` | `mstp.c:198-1205, 1286-1327`, `dlmstp.c:103-276, 304-554, 686-745`, `rs485.c:387-557` | `port` (the `mstp_port` structures), `PDU_Queue`, `Receive_Packet`, `running` (the node inside its loop); one action per transition of the master machine, with the name the source gives it |
| `MstpRingProofs` | | the TLAPS proofs about `MstpRing` |
| `ModbusChannel` | `ModBus_Slave_Table.c:353-600, 1552-1650, 2930-3042, 3487-3531, 3655-3725, 3890-4386`, `ModBus_Module.c:539-706, 892-1055, 1163-1440` | the channel task (`poll`), the worker, the mutex, the input of the UART, `pData`, `u16Status`; one action per request, answer, failure and write. The slaves are external |
| `ModbusChannelProofs` | | the TLAPS proofs about `ModbusChannel` |
| `ConfigPipe` | `ModBus_Pipe.c:83-142, 360-722, 960-1026, 1404-1466, 1649-2813, 3051-3220, 3388-3442` | `lists` (`gSlave_Set_List_Head`), `task`, `saved`; one action per command that changes something, one for each way in which a command is fatal |
| `QueueAndPipeProofs` | | the TLAPS proofs about `MsgQueue` and about `ConfigPipe` |
| `History` | `main.c:943-968`, `IEC102_Main.c:822-1124`, `ennDatabase.c:148-853`, `IEC102protocol.c:516-648, 1010-1104` | the main task (`main`, one action per step of a pass that another task can see), `pData`, `regData` (`p_Reg_Data`), the tables of the file, the handle `db`, the query of the server task |
| `HistoryProofs` | | the TLAPS proofs about `History` |
| `AbstractCov` | what the change-of-value service promises its clients | the pairs that are subscribed, the seconds they have left, what each was told |
| `CovServer` | `h_cov.c:57-744`, `server.c:450-510`, `tsm.c:60-321`, `dcc.c:52-129`, `apdu.c:387-536`, `bi.c:267-308`, `s_rp.c:77-113` | the tables of subscriptions and addresses, the objects, the round of the loop, `handler_cov_task`, `TSM_List`; one action per kind of packet, for the timers and for each step of the task; the client task, as far as it shares the transactions |
| `CovServerProofs` | | the TLAPS proofs about `CovServer` |

The `MC*` modules give TLC its instances. In the modules of components some operators come in two
versions (`SendStore` and `SendStore_Over`, `Accepted` and `Accepted_AnyId`): the one with a suffix is a plausible
error, kept to show that the properties notice it; no specification uses it.

`MsgQueue` is the queue between the server task and MSG_RX. `TcpServer` does not instantiate it but uses a bounded
sequence with a send that fails when it is full: that this is what the queue is to its callers is what the
refinement `ImplementsQueue` shows. `MstpRing` is the bus below `BacnetClient`, which uses it as a line that loses and
delays. `ModbusChannel` is what the worker of `TcpServer` does with a request; `ConfigPipe` edits the lists from which
the next start of the program builds the tables of `ModbusChannel`. `History` takes the values that `ModbusChannel`
stores and answers the reads of totals behind `Iec102Slave`. `CovServer` shares the transaction machine with
`BacnetClient`; each of the two has the other as far as it touches the table.

### Choices in the models

* **Queue.** The mutex is a variable that names its owner, the semaphore a counter. `EmptyMessage` is a thread of its
  own kind. `DeleteMessage` is left out: nobody calls it.
* **Server.** A request is a token in a client's inbox. The descriptor of a new connection is the lowest free one, as
  in POSIX: that is what makes reuse interesting. In Modbus mode requests go through the queue to the worker, which
  answers on the number it was given; in IEC 102 mode the server task answers itself.
* **IEC 102.** A total of a period is sent in `Parts` frames and a time range covers `Periods` periods; a block is
  named by the two. Commands that the code treats alike form one type. An answer that comes too late is the
  behaviour of a data base read that takes longer than the master's timeout; a frame in pieces is one that
  `dpa_net_receive` gives up after 200 ms.
* **BACnet.** Time is counted in full seconds of waiting. A request is answered promptly (before the next full second
  has passed), late (in the second after), or not at all; transactions expire after 60 s (`dlenv.c:280`), so never
  while the request is on the line. `dlmstp_receive` calls `pthread_cond_timedwait` before it looks at the mailbox:
  a packet that is already there is returned only after the full second, and whatever arrives meanwhile is dropped.
  That is why `BeginWait` is an action of its own. The server task calls the same transaction timer, so once
  `started` the timer may run at any moment.
* **MS/TP.** Time passes in ticks; a tick waits until every node has done what it can do, except that a node may stall
  once (a trouble). The order of the limits of `mstp.c` (95, 250, 295, 500 ms, slots of 10 ms) is the assumption
  `RingAssumption`; the ticks keep the order. A transmission is one step, reaches every other node, and is whole, lost
  or garbled. The master machine runs in every turn of the loop of `dlmstp_master_fsm_task`, since nothing resets
  `run_master`; in the states that do not look at the flags of a received frame the line is not read while one is set.
  All nodes of the bus are taken to run this code.
* **Modbus channel.** One line with holding registers; the input of the UART is a sequence of answers, each prompt, late,
  lost, damaged, an exception (of which two bytes are read, the rest stays), or with a garbled head, after which it is
  open how many of the bytes that follow a read takes. The bytes of a slave are named by slave and position, so that a
  value in a wrong place is seen. Nothing in the code compares an answer with its request or empties the input: a late
  answer is taken for the next, and so on for ever.
* **Configuration pipe.** The registers are their addresses, the devices have a kind of their own, so that a walk of
  Modbus devices that meets a meter is seen: that is undefined behaviour (`task = "undefined"`), and is not followed
  until the program is started anew. So are the loop that never ends when a register list becomes a ring (`"hung"`) and
  the death of the task (`"down"`). A command the code refuses has no action. Malloc failures, names, data formats,
  `u16RegNum` and line parameters are left out.
* **History.** A second of the clock and a statement of SQL are atomic; the file is a function from days to rows by
  second of the day. A value is a sequence of bytes named by register, reading and position, so that a mixed, shifted or
  shortened value is seen. A pass of the main task reads the clock three times (`main.c:943`, `ennDatabase.c:283`, `158`),
  and the clock may move in between. An error of a statement closes the handle that both tasks use (`"closed"`); its use
  after that is undefined behaviour and is not followed. The collectors are not started in this version: `Store` is
  what they would do.
* **Change of value.** A round of the server's loop receives at most one packet, lets the timers run when a second has
  passed and makes one step of `handler_cov_task`. The client task finds an id and reserves it in two steps, as does the
  server, so that the race on `TSM_List` (no lock, `tsm.c:155-203`) is there; `raced` records it. The contents of the
  shared transmit buffer and the order of packets on the network are left out. An address that found no room is stored as
  -1 in a byte without a sign: index 0 stands for it.

## Runs

| Run | Instance | Shows |
|---|---|---|
| `queue` | 2 senders, 2 receivers, 1 emptying thread, 2 slots, 2 messages, FIFO | `IInv` (one thread inside, tokens and `num` agree, a found slot stays), that the ring implements `AbstractQueue`, and that every message is taken in the end |
| `server` | both modes, 3 clients that wait for their answers, one of them unknown or none, 2 slots, queue of 2, 1 request per socket | table, count and kernel agree; the session and the master number of a slot belong to its client; answers go to the client that asked, although numbers are reused; no request is lost at the queue, slots below the count are served, every dial is answered |
| `server_starved` (violated) | the same | a connection behind a gap is never served |
| `iec102` | 2 periods of 2 parts; a prompt link, one with late answers, one that splits frames | without trouble: totals complete, in order, confirmed first, both sides agree, every poll is answered and every command ends, whatever is cancelled or reset in between; with late answers no repeated command starts twice; unless frames are split, what is acknowledged runs |
| `iec102_repeated` (violated) | time range, late answers | a repeated poll loses a block |
| `bacnet_polling` | 2 devices with one object each beside the device object, 2 invoke ids, 1 repetition, 2 troubles | rows belong to the request just made, an id is freed only by its own answer, an undisturbed round is complete, every round ends |
| `bacnet_published` (violated) | the same with 1 trouble | a late last answer becomes a row of another device |
| `mstp_ring` | addresses 0 to 2, any of them on; 2 disturbances out of a damaged frame or stall, a node switched, a request | one token; an asker still waits when its answer is prepared; every node that is on gets the token again and again, and the ring closes over the nodes that are on, unless all of them have missed their slots |
| `config_pipe` | 2 channels, 2 Modbus devices, 2 meters, 1 function, 5 register addresses, at most 2 devices and 4 registers | the counts are those of the lists; register lists stay sorted; no command loses a register it does not name or pass over |
| `modbus_channel` | 2 slaves, one with a gap and both byte orders; 3 map entries, reads of up to 4 words; 2 troubles, 1 write | no overrun of `pData`; a client reads its register or zero and is told the truth about its write, and misplaced values are put right, as long as the line is orderly |
| `history` | 2 channels, a register recorded every second and one of two words every other second; days of 5 seconds, 1 day kept, 5 seconds; 2 readings, 1 question, 1 trouble | old tables go on their day and no key comes twice, unless the clock says so; rows hold readings of their register in order; the newest reading leaves memory only for a row; an answer is the total asked for |
| `cov` | 2 clients, 1 object, 2 subscriptions, 2 addresses, 3 transactions; 3 packets and a loss, or 2 and a request of the client task, or one of each | the tables agree; a change is not forgotten; ids have owners; the service implements `AbstractCov` |

### The bounds

Queue: with two senders, two receivers and two slots a full ring, an empty one, a wrap of `begin` and two calls of
each kind between their critical sections all occur; the theorems remove the bound. Server: two slots and a third
client give gaps in the table, a full table, a refusal and the reuse of a number while the worker still holds it; the
properties concern at most two clients and a gap. IEC 102: two periods of two parts give a first and a
last block of a period, a change of period, and the end. BACnet: two
troubles are needed to lose a request and its repetition (the failed state); two ids make reuse come at once, far
earlier than with 255, and let the table fill; the theorems remove the bounds. MS/TP: three addresses give a node below, between and above
the two others, a ring that skips one, and a poll that wraps; a lost token together with a node that goes off or comes
back takes two disturbances; the theorems remove the bounds for the two invariants. Modbus channel: the first slave's gap and reversed word, and a second slave behind it, make
every term of the layout matter; two troubles are a silent slave and a failed request, or one of these in each of two
rounds; the theorems remove the bounds. Configuration pipe: the code walks with a pointer and its predecessor, so a place before, between and behind two
entries and a move over one of them are all there is; four registers at five addresses leave room for each, and two
devices for the same address on both channels; the theorems remove the bounds. `NumLimit = 2` stands for the 65536
values of a total, so that it wraps. History: days of five seconds are
the shortest in which the slow register's window is shorter than half a day, and the clock runs to the next
midnight, which may fall within a pass and drops the table of the day before; the question is for the middle of a day or for
the next; the troubles are a long pass, a correction of the clock or a cut of the power; the
theorems remove the bounds. Change of value: three packets are a subscription, a write and a
cancellation, or two subscriptions and a write; with three transactions the two tasks meet in the table; the theorems
remove the bounds. The bounds `MaxInbox`, `MaxLog`, `MaxTroubles`, `MaxSwitches`, `MaxRequests`, `MaxEvents` and
`MaxWrites` cut only the environment; `MaxBehind` (answers that a read out of step may swallow before the next comes)
only what happens on a line that is not orderly.

### Fairness

* Queue: a thread inside a call is scheduled (WF) and is not passed over for ever at the mutex or the semaphore (SF).
  POSIX does not promise the latter in so many words, but a futex that starves a waiter for ever would need an
  adversary for a scheduler. Only the receiver is assumed to come back: `ModBus_TCP.c:1685-1689` is an endless loop.
  Senders and the emptying thread may stop calling; `EveryMessageTaken` is claimed when the latter does, since it could
  take each token before a receiver does.
* Server: both tasks are endless loops (WF). Clients owe nothing.
* IEC 102: the slave runs, the link delivers or the master gives up (WF). The master sets the link up and keeps polling
  class 1 (SF, because its other frames disable the poll in between): the protocol makes it do so while the access
  demand bit is set.
* BACnet: the task and the devices go on (WF). Nothing is assumed of losses, except that the model has a budget of
  them; `RoundEnds` does not need it.
* MS/TP: the threads of every node run and time passes (WF). Nothing forces a trouble, the power switch or a request;
  they are finitely many, so the properties say what the bus does after the last one.
* Modbus channel: both tasks are endless loops (WF would do for that) and are not passed over for ever at the mutex of
  the line (SF, as for the queue; the task sleeps 200 ms and more between two requests). The troubles are finitely many.
* History and change of value: no liveness is claimed, and no fairness assumed.

### Deadlock

Checked in all runs but those of `BacnetClient`, where an abort really ends the task and nothing is left to do, and
`mstp_ring`, where all nodes may be off, and `history`, where the clock stops at its bound.

## What was found

Four statements of the code's own comments do not hold; a run shows each of three, and the fourth is below.

1. `server_starved`: the scan "of the valid connections" runs to `conn_amount`, not to `MAXCLINE` (`ModBus_TCP.c:1841`).
2. `iec102_repeated`: the frame stored for a repetition is overwritten, because `iec102_seq_process` runs after a
   repeated request, too (`ModBus_TCP.c:1390`).
3. `bacnet_published`: between two rounds an answer to the last request still passes the filter (`client.c:512`).
4. `ENNOS_EmptyMessage` "clears all messages" (`ennOS.c:1053`), but it takes a token and lowers `num` without moving
   `begin` (1069): it discards the newest messages, and beside a sender an older message is left. No task calls it;
   `AbsDiscard` of `AbstractQueue` says what it does.

Behaviour that TLC shows when an instance is widened, and which the passing runs therefore exclude by their choice of
commands (`AnsweredCommands` in `MCIec102Session`) or by an exception named in the property:

* The oldest period is asked for with time stamp 0 (`IEC102protocol.c:1494`), for which there is no record
  (type `NA`): `CompleteAtEnd` fails.
* The cursor written back after a block (1565) overlays the time of a command for one period without an address
  range (type `NC`): `DataInOrder` fails.
* The confirmation of a command with an address range (type `ND`) is commented out (2161), as are those of `NA`, `NC` and
  others, so `EveryPollAnswered` fails; when such a command is cancelled, `SequenceEnds` fails, too.
* A range that starts above the configured addresses (`"beyond"`) is accepted, and is answered with empty
  blocks for ever: `SequenceEnds` fails.
* With split frames and cancellation of a transfer under way `AgreeOnProgress` fails, because the cancellation is
  compared with the moved cursor (132).
* In `MstpRing` a node that wakes one slot late (10 ms) after a silence stays in `NO_TOKEN` until another node speaks
  (`mstp.c:1044`), since its silence only grows; when this happens to all the nodes that are on, or the node is
  alone, the bus stays silent. Without the exception
  `AllMissedSlots` both liveness properties fail.
* In `ModbusChannel` one late answer shifts every later answer of the line by one, for ever: without `Orderly`,
  `ReadsItsRegister` and `PlacesHeal` fail after a single trouble, and `WriteTruth` after an answer to a poll that is
  taken for that of a write. Also, a write of several registers that fails on the line is reported as done (3702),
  and one with a gap in its addresses uses the line without the mutex and sends the values behind the gap to addresses
  that are not theirs (3724); it then sets the status of the slave the wrong way round (3743, 3747).
* In `ConfigPipe`, after a channel has got another protocol, a walk takes devices of one kind for the other's
  (`ModBus_Pipe.c:1442`); a register that is moved is linked behind the entry that was before it at first
  (2750-2795): moved up it takes the entries between out of the list, moved down, but not to the front, it closes the list to a ring, and the
  lowest one, moved up between two others, kills the task; the total of a function does not count a register put into
  an emptied list (2544) and wraps (2660); and saving a channel of meters
  kills the task after the file has been emptied (718). The file is written as `/home/modbus_20150306.ini` and
  read as `/home/modbus.ini`.
* In `History` a question for a day without a table is an error, which closes the data base for both tasks
  (`ennDatabase.c:704`): the history ends. So does a key that comes twice, when the clock is set back and the program
  is started anew, or when a pass reads the clock in another second than it stamps (343); set back without a restart, the
  clock stalls the recording. A table whose day to be dropped passes while the device is off stays for ever. Whenever
  any register is due all values are moved and their places zeroed (`IEC102_Main.c:1061`), so a slow register loses
  readings to a fast one; the second function of a channel is read at a wrong offset. A window over midnight is never
  answered (842), the values end at their first zero byte, and a number that is not mapped or not found keeps the
  result of the question before. The comments say that the value nearest to the time is taken (656, 790); the
  code takes the first row of the window (716).
* In `CovServer` a change of the value between the marking of an entry and the clearing of the mark for another one
  is overlooked by the first (`h_cov.c:635, 657, 665`): `missed`. Both tasks may reserve the same place of
  `TSM_List`, or the same id (`tsm.c:155-203`): `raced`. An entry whose address found no room matches every client (376)
  and its client is never told. A clock that is set back makes the difference of two times wrap, and all
  subscriptions with a limit end (`server.c:472`); the milliseconds are counted in 16 bits (`tsm.c:273`), and the
  repetitions go to the MS/TP line even for subscribers on IP (`tsm.c:296`). An acknowledgement ends the transaction of
  its id whoever sends it (`apdu.c:532`), and the ids that the client task gives up are never freed.
* In `BacnetClient` a single lost answer can disturb the rounds for ever: its repetition after 60 s arrives beside the
  answer to the current request, one of the two is dropped at the mailbox or received one request late, and that
  transaction is repeated 60 s later in its turn. "From some time on every round is complete" is violated under
  the fairness of `FairSpec`, with one trouble.

## Proofs

`QueueAndPipeProofs` proves about `MsgQueue`, for any sets of threads, any capacity and both modes:

* `Consistent`: `Spec => []IInv`, where `IInv` is `TypeOK /\ MutualExclusion /\ TokenBalance /\ RoomKept`;
* `TypeCorrect`, `Exclusion`, `Balance`, `Room`: the four parts.

The assumptions are those of the module: the sets of threads are disjoint and finite, `noElements` is a positive
number, `msgMode` is one of two. The argument: that `num` never wraps below zero (it is unsigned) rests on
`TokenBalance`, since whoever lowers it holds a token; that it never exceeds the capacity rests on `RoomKept`; both
survive interleaving because only the owner of the mutex changes `num` (`MutualExclusion`). None of the parts is
inductive alone. `TokenBalance` counts threads, so the lemmas `CountMove` and `TokensMove` say how the cardinality of
the set of threads at some program points changes when one thread moves; `SectionMove` and `BalanceMove` apply them to a
step. `NextIInv` has one step per action and under it one per part that the action can disturb.

`Implements` (`Spec => ImplementsQueue`) proves the refinement of `AbstractQueue`. The ring as a sequence is `RingFrom(m, f, k)`, the
`k` messages from slot `f` on; `PushBack`, `PushFront`, `PopFront`, `PopBack` and `StoreOutside` say what the
arithmetic modulo the capacity does to that sequence. Besides `IInv` the proof needs `Carried`: a sender's message is in its slot
when it is counted, and a receiver's copy is still the front message when `begin` moves on. Only four statements show:
the increment of `num` sends, the move of `begin` receives, the unlock returns, the decrement in `ENNOS_EmptyMessage`
discards (`CountSends`, `AdvanceReceives`, `UnlockReturns`, `EmptyDiscards`); the store into a free slot does not
(`StoreHidden`), nor anything else (`SilentStep`).

`TcpServerProofs` proves, for any clients, any table and queue, both modes, and for clients that do not wait for their
answers, which the run leaves out: `Inductive` (`Spec => []IInv`), `TypeCorrect`, `SlotsCorrect`, `SessionCorrect` and
`ReplyCorrect`. `IInv` is `TypeOK /\ SlotsConsistent /\ SessionOfClient /\ FramesTrue /\ OnePlace`: the last two say
that a frame is on its way for a client only while the connection of that client has the number the frame carries,
and that a client waits once to be accepted or has one descriptor. `ReplyToRequester` follows from `FramesTrue`, which
needs `OnePlace` when a number is given away again. That an accepted connection finds a slot is a count:
`conn_amount` is the number of slots in use, and below `MAXCLINE` one is free. The assumption is `ServerAssumption`.

`CovServerProofs` proves, for any clients, objects, values, table sizes, time limits and budgets:

* `Inductive`: `Spec => []IInv`; `TablesCorrect`: `Spec => []TablesSound`; `ChangesNotForgotten`:
  `Spec => []NothingForgotten`; `IdsHaveOwners`: `Spec => []IdsAccounted`.

`IInv` adds three things to the checked invariants. `EntriesSound`: a valid entry belongs to a client, an invalid one is
empty, so that a timer or a transaction never finds anything in it. `EntryHeld`: between finding an id and sending the
notification the entry stays as it was found; the two steps follow one another in the server's task, while the client
task comes in between. `FoundIsFree`: the id and the place a task has found stay free until it takes them, unless the
other task looks at the same time. That there is a free id when there is a free place is a pigeonhole (`IdLeft`): the
ids in use are the image of the places that hold one. `IdsFreed` and `IdsReserved` say what giving ids up
and taking one do to their owners; `NotForgotten` which steps can forget nothing; `KeptAddresses` that
`cov_address_remove_unused` takes no address that is used. The assumption is `CovAssumption`.

`PromiseKept` proves the refinement of `AbstractCov` (`Spec => ImplementsCov`) under `RoomForAll`: there are no more clients
than places for addresses. Without it the promise is false: an entry whose address found no room matches every client
and is never served. With it, `OneEach` holds: every entry in use has an address and no two are for the same client and object,
so that the pairs of the promise are the owners of the entries (`Mapping`). That an address is found is a pigeonhole
(`AddressFound`). `SubscribeShows`, `CancelShows`, `SecondsShow` and `OutcomeShows` are the steps of the abstract service;
the marks, the transactions and the client task do not show (`SameEntries`).

`BacnetClientProofs` proves, for any devices, object lists, readings, numbers of invoke ids and repetitions, and any
number of troubles on the line:

* `Inductive`: `Spec => []IInv`; `RoundCorrect`: `Spec => []RoundSound`; `RowsAreAnswers`: `Spec => RowIsAnswer`;
  `FreedByAnswers`: `Spec => FreedByItsAnswer`.

`IInv` is `TypeOK /\ PacketsSound /\ Placed /\ OneExchange /\ AsksCurrent /\ (troubles = 0 => Quiet)`. `OneExchange`
says that a request on the line, or the answer in the mailbox, belongs to the transaction its id is given to and that there is only
one of them: an id is not used again before it is freed, and the timer repeats a request only when nothing
under its id is left. That gives `FreedByItsAnswer`. `AsksCurrent` says that the id the task waits for was given to the
question it asks; an accepted answer carries that id, so it is the answer to that question (`RowIsAnswer`), however many others
are on their way. `Quiet` is the round so far: while the task waits, its request is on the line or the answer in
the mailbox (`Exchange`), so that the receive brings that answer (`QuietAnswer`), and the list and the rows are the
beginning of the device's list. `FreeId` says that the search for an id finds one that is free, by
`LeastNumber`. The assumptions are `ListAssumption`, `NumberAssumption` and `NoneAssumption`, which says that `None`, an
empty mailbox, is not a packet.

`Iec102Proofs` proves, for any number of periods and parts and any set of commands:

* `SessionTypes`: `Spec => []TypeOK`; `AcknowledgedCommandRuns`: `Spec => []AcknowledgedRuns`;
  `RepeatedCommandOnce`: `Spec => CommandOnce`;
* under `Plain`, `RangeDelivered`: `Spec => []TotalsDelivered`, `SidesAgree`: `Spec => []SessionSound`, `PollsAnswered`:
  `Spec => EveryPollAnswered`.

`Plain` says that over a link without trouble only commands are sent that the slave answers in full (`Answered`: time
ranges inside the configured objects, and the four short kinds). It is the restriction that the run makes by its choice of
commands; without it the three are false, for the reasons listed under "What was found". The master may still cancel,
reset, ask for the status, poll for class 2 data and send commands while the slave is busy with another at any time.
`IInv` is `Typed /\ CountTrue /\ Clean`. `CountTrue` is about the frame count bit: the slave has seen the last frame
exactly if it has its bit, and then what it has kept answers that very frame; that is why a repetition is
neither begun again nor acknowledged otherwise. `Clean` is about progress: `Agree` relates the session (its command, the cause it has
reached and the cursor) to what the master knows, and while an answer is under way, to what the master will know when it
has read it (`NextCmd`, `NextStage`, `NextLog`), so that the step that needs an argument is the slave's turn and
`Receive` follows. The turn has a lemma for each kind of frame; `RangePoll` is the transfer of the totals, where
`NextPlace` says that the block at the cursor is the one that comes next and that the cursor then stands at its
successor: division with remainder, for any `Parts`. The assumptions are `SlaveAssumption` and `SessionAssumption`.

`QueueAndPipeProofs` proves about `ConfigPipe`, for any channels, addresses, functions and registers, and any width of the counters:

* `PipeTypeCorrect`: `PipeSpec => []PipeTypeOK`; `CountCorrect`: `PipeSpec => []CountMatchesList`; `OrderCorrect`:
  `PipeSpec => []RegistersSorted`;
* `NoOtherLost`: `PipeSpec => NothingElseLost`, the action property.

The inductive invariant is `ListInv`, the conjunction of the first three. The assumption is `PipeAssumption`. The order of
the lists is what needs an argument: the place a search finds is the first entry above the new address
(`PlaceFound`), everything before it is below since the list was sorted, so the new entry fits between the two
(`InsertedSorted`), and so does a moved one behind the stale predecessor (`RelinkedSorted`). That a first entry exists is
`LeastNumber`: the theorems on induction are out of reach of the provers, so it is taken from the theorem that
the order of the natural numbers is well-founded. `GoodDevice` and `GoodChannel` are the invariant of one device and
one channel; `EditKeeps` lifts a command on one of them to the lists, and `RegisterStep`, `DeviceStep` and `ListInvNext`
have one step per command.

`NoOtherLost` rests on `RelinkedSpares`: what a change of a register loses is the old address alone (`OneSpared`,
`InsertedSpares`), or, behind the stale predecessor, also the registers between the old address and the new one.
`EditNamed` and `DeviceNamed` lift it to the lists, and `SameSpared` covers the commands that touch no register. The
commands that empty the lists need the invariant (`BlankNamed`): the count of a channel is the length of its list, so an
empty channel has no device left in common with the one before it.

`MstpRingProofs` proves, for any number of nodes, of polls, retries and frames for each token, any queue, any time limits in
the order of `mstp.c` and any number of disturbances, switches and requests:

* `RingInductive`: `Spec => []IInv`; `RingBusSound`: `Spec => []BusSound`; `RingAnswerAwaited`: `Spec => []AnswerAwaited`.

`IInv` is `TypeInv /\ (troubles = 0 => Calm)`: the types hold always, the rest until the first frame is damaged or a node
stalls, while nodes may be switched on and off at any time (`AnswerAwaited` itself speaks of a bus on which none is). That there is one
token cannot be shown from who has the token alone: a node makes one after a silence, and one that passed it sends it again. `Calm`
therefore speaks of the nodes that are *busy*: those that have the token, watch the one they sent, or have a frame they
must react to. Its parts are

* `AllProper`: the FIFO of each node is empty and the frame it has is dealt with before time passes, so that an old frame
  is never taken for a new one; no wait outlasts its limit (`Tusage_timeout`, `Treply_delay`, `Treply_timeout`, each with
  the tick in which it is noticed);
* `Ordered`: nobody has seen a longer silence than a busy node. A node that makes a token has been silent for
  `Tno_token`, more than a busy node can have been: so no node is busy, and the token it makes is the only one;
* `Paired`: of two busy nodes one `Leads` the other: it passed the token, polled or asked, and waits for what the other
  has just been given. The one that waits sends again only when its time is up, and by then the other has spoken;
* `RunQuiet`: the node inside its loop of `dlmstp_master_fsm_task` is on, and when it is about to talk the others
  have come to rest. Without it a node could speak on a silence that another is about to end in the same tick;
* `Awaited`: while nothing is switched, who has a request has an asker that waits, which gives `AnswerAwaited`.

The actions of the machine keep the types and `Calm` by lemmas of their own, for groups of actions that change a port alike: a transition that
sends nothing (`LocalCalm`), a wait that is over (`ReturnCalm`), a transmission (`TransmitWhole`), which ends the silence of
all and gives the frame to whom it is for. When a node talks, no other has the token or a frame to deal with (`AloneTalks`), so
that of two nodes that are busy after the frame one leads the other. `TickCalm` is where the order of the limits counts. The
assumption is `RingAssumption`, which states that order. The theorems are about `Spec` and so hold for the
`FairSpec` of the run, too.

`ModbusChannelProofs` proves, for any slaves with any registers, any map of the clients and any number of troubles and
writes:

* `Inductive`: `Spec => []IInv`; `TypeCorrect`: `Spec => []TypeOK`, of which the range of `u16Offset` is what needs the
  proof; `ToldTrue`: `Spec => []WriteTruth`;
* under `GapsFit`, `InTheirPlaces`: `Spec => []ValuesInPlace`; under `GapsFit` and `OneWord`, `ReadRight`:
  `Spec => []ReadsItsRegister`.

`IInv` is `TypeOK /\ OffsetBehind /\ Owner /\ OneAnswer /\ WriteTruth`. `OffsetBehind`: in a round the offset is never
beyond the place of the slave that is asked, and is exactly there while no request of the task has failed. `Owner`: who
holds the mutex has a request under way. `OneAnswer`: on an orderly line the input of the UART holds at most the
answer to that request, so that neither the task nor the worker takes the other's.

`ValuesInPlace` says of each register in `pData`, of any length and byte order, that it is zero or has its own
bytes in their order. Three computations have to agree for it: where the bytes of a register lie in an answer
(`SourceFact`, with the gaps), where the task puts them (`OriginFact`, `StoreFact`), and where the worker
looks for them (`Place`). Each is a sum over the lists of registers and slaves. The theorems on induction are out of reach, but the sums
are not: `Sum` is a recursive function inside a definition, `PartialSums` shows by `UpTo` (the set of places up to
which a claim holds has no first gap) that such a function exists, and `SumStep` is what the rest uses. `Distance` says that the lengths and gaps before a
register add up to the distance of its address from the first; `IndexFact` that no two bytes share an index.
`WalkStep` is the step of a read from one entry of the map to the next.

The assumption is `ChannelAssumption`. `GapsFit` says that the registers of a slave are listed in the order of their addresses, do
not overlap, and have at most 255 words between them: `u8Interval` is a byte, and with a wider gap the values behind it
are stored from wrong places. `OneWord` is there because `ReadsItsRegister` looks at single words; for registers of
several words `ValuesInPlace` is the statement. The slaves are taken to answer all words that are asked for: what does not fit
one frame (`byte_count` is a byte, `ModBus_Slave_Table.c:2936`) is not modelled.

`HistoryProofs` proves, for any registers, lengths of the day, days of keeping and any number of troubles, readings and
questions:

* `Inductive`: `Spec => []IInv`; `FileCorrect`: `Spec => []FileSound`;
* under `ShortWindows`, `AnswersTrue`: `Spec => AnswerTrue`, the action property;
* under `Aligned`, `RecordsTrue`: `Spec => []HistoryTrue`, and `NewestStays`: `Spec => NewestKept`, the action property;
* `CopiesAligned`: `OneFunction => Aligned`.

`IInv` is `Shaped /\ FileSound /\ PassTrue /\ QueryTrue`. `PassTrue` is what the file needs: while the clock has not
moved within a pass and was not set back before a start, a pass has one time (`ctv`, the key and the table agree), which is later
than that of the pass before, and all rows are no later than the last pass that is over. So the key that is inserted is
new, a new day is later than all tables, and with it the day that is dropped is the only one that is due; `BootStep` is
where the file meets a new start. `TimeParts` and `TimesOrdered` relate times to days and seconds, for any
length of the day. `QueryTrue` keeps the window of a question at one of the two of its register, so that `valid` may
change between the choice of the window and the select. `WindowEnds` is the arithmetic of the answer: a window that does not
reach over midnight contains the time asked for. `ShortWindows`, both windows shorter than half a day, is needed for
that: the ends are taken modulo the day one by one (`ennDatabase.c:842-853`), so that a longer window may come out as one
on the other side of the day, in which the row of this very time is not looked for. The assumption is
`HistoryAssumption`.

`HistoryTrue` needs `FlowInv`, which follows the readings of a register from where they are stored to the file: what
is in the file is before what is in the row, that before what is in `p_Reg_Data`, and that before what is in `pData`
(`Past`), with one exception: between the copy and the zero (`Clearing`) a reading is in two places at once. A
reading has one number only (`NumberedOnce`), so "before" has a meaning. The order of the rows also
needs `PassTrue`: a row that is inserted is later than all others (`InsertFlows`). No step of one register touches the values
of another because their places are sums over all registers before them (`SumsStep`, `SumsGrow`) and so have none in common
(`PlacesApart`). `NewestKept` needs `PromptTrue` besides: in a pass that copies, some register is due, so the registers of
`Prompt` are due too; those already copied are valid until the row takes them, and between two passes their place in `p_Reg_Data` is
empty, so a copy never writes over a reading. `Aligned` says that each register is copied from where it is stored. That is so
when no channel has lists of two functions (`OneFunction`), which `CopiesAligned` shows by adding up the lengths from the
first register of the channel. It is not so otherwise: `u16Offset` is set at the first list of a channel and runs on through
the lists of other functions (`IEC102_Main.c:1003-1021`), and then values are recorded under the wrong registers, which TLC shows
when an instance has such a channel.

Every invariant that a passing run checks is also a theorem, the invariants of `Iec102Session` under `Plain`, `ReadsItsRegister`,
`HistoryTrue` and `ImplementsCov` under the hypotheses named above. Only model-checked: every liveness property (out of reach of the prover;
also `RoundEnds` of `BacnetClient`, `EveryNodeServed` and `RingHeals` of `MstpRing`), and the three properties that a run
finds violated.

## Not modelled

See the last rows of the inventory and the notes in `PROJECT.json`: text (ini files, SQL, JSON), vendored code, drivers,
and the collectors that this version does not start (but for the serial Modbus channels, which are modelled). In the modelled parts: the contents of Modbus requests and of
IEC 102 values, the restart of the sockets when the network address changes, segmented BACnet messages, the size of the
BACnet table (256 rows), data races inside one call of the transaction machine; on MS/TP the slave node, test frames and
broadcasts; on a Modbus line the coils and input registers, the history, the four-byte orders, several lists for one
function, and values read while they are stored; in the configuration pipe the commands that only read, and texts.

The map covers a small share of the files under `src/` because most of them are not jzq's own: the BACnet stack with its
objects, services and demonstration programs, the JSON parser, SQLite's wrapper and the tests. Of the rest, the
larger part formats and parses text.

## Plan

1. The BACnet server's reads of the client's table while it is rewritten, composed with `BacnetClient`.
2. The assembly of frames in `dpa_net_receive` byte by byte, in place of the split frames of `Iec102Session`.
3. `BacnetClient` over `MstpRing`: that the line `BacnetClient` assumes is what the ring provides.
