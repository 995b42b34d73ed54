----------------------------- MODULE TcpServer -----------------------------
(***************************************************************************)
(* The north side of the concentrator: task TCP_SERVER                     *)
(* (ENNModBus_TCP_Server) with its table of connections fd[], and, in      *)
(* Modbus mode, the queue to task MSG_RX (ENNModBus_Msg_Rx), which parses  *)
(* a request and answers on the descriptor number the request carries.  In *)
(* IEC 102 mode the server task answers itself and keeps a session per     *)
(* connection, Pcontext[], and the number of its master,                   *)
(* fd_index_to_master[].                                                   *)
(*                                                                         *)
(* The kernel hands out the lowest free descriptor, so a closed number is  *)
(* soon in use again.  A client is one connection at a time; the bytes of  *)
(* a request are a token in its inbox.                                     *)
(***************************************************************************)
EXTENDS Integers, Sequences, FiniteSets

CONSTANTS Clients,      \* the programs that connect
          Nobody,       \* no client
          MAXCLINE,     \* slots of fd[]
          QueueSize,    \* capacity of the request queue
          MaxInbox,     \* bound: requests unread in one socket
          Modes,        \* the protocols the device may be set to
          Masters,      \* the assignments of master numbers to the clients'
                        \* addresses; 0 when no master has the address
          Patient       \* TRUE: a client waits for the answer to a request
                        \* before it sends another one or leaves

Listener == 1                       \* ListeningSocket
Fds      == 2 .. MAXCLINE + 2       \* descriptors of connections: one more
                                    \* than fd[] holds, for one to refuse
Slots    == 0 .. MAXCLINE - 1

ASSUME ServerAssumption ==
    /\ MAXCLINE \in Nat \ {0}
    /\ QueueSize \in Nat \ {0}
    /\ MaxInbox \in Nat \ {0}
    /\ Modes \subseteq {"MODBUS", "IEC102"}
    /\ Masters \subseteq [Clients -> Nat]
    /\ Patient \in BOOLEAN
    /\ Nobody \notin Clients
    /\ IsFiniteSet(Clients)

VARIABLES fd,           \* fd[i]: descriptor in slot i, 0 when it is free
          conn_amount,  \* the number of connections, and the scan's bound
          MaxSock,      \* the largest descriptor select looks at
          fdsr,         \* the ready descriptors select returned
          i,            \* the slot the scan looks at next
          pc,           \* "select", "scan" or "accept"
          fd_index_to_master,
          Pcontext,     \* Pcontext[i]: the client slot i's session is for
          owner,        \* the kernel's table: whose connection a number is
          backlog,      \* connections that wait to be accepted
          state,        \* of a client: "away", "up", "shut" (it has left,
                        \* the server's end is still open)
          inbox,        \* requests unread in a client's socket
          waiting,      \* a client has sent a request that is unanswered
          queue,        \* gModBusTaskQueueID
          worker,       \* MSG_RX: "idle", "busy", "replied"
          cur,          \* the frame MSG_RX works on
          Mode,         \* CurrentDPAMode: "MODBUS" or "IEC102"
          MasterNo      \* the master number of each client's address

server  == <<fd, conn_amount, MaxSock, fdsr, i, pc,
             fd_index_to_master, Pcontext>>
msg_rx  == <<worker, cur>>
clients == <<state, inbox, waiting>>
config  == <<Mode, MasterNo>>       \* read once, when the tasks start
vars    == <<server, msg_rx, clients, owner, backlog, queue, config>>

(* A frame carries the number fd[i]; from is a history field: the client   *)
(* that waits for the answer, Nobody once that connection has been left.   *)
Frames  == [sock : Fds \cup {0}, from : Clients \cup {Nobody}]
NoFrame == [sock |-> 0, from |-> Nobody]

Forget(f, c) == IF f.from = c THEN [f EXCEPT !.from = Nobody] ELSE f

SlotsInUse  == {k \in Slots : fd[k] # 0}
OpenFds     == {f \in Fds : owner[f] # Nobody}
Client(k)   == owner[fd[k]]
Dialing(c)  == \E n \in DOMAIN backlog : backlog[n] = c
Readable(f) == IF f = Listener
                 THEN backlog # <<>>
                 ELSE /\ owner[f] # Nobody
                      /\ inbox[owner[f]] > 0 \/ state[owner[f]] = "shut"

Init ==
    /\ fd = [k \in Slots |-> 0]
    /\ conn_amount = 0
    /\ MaxSock = Listener
    /\ fdsr = {}
    /\ i = 0
    /\ pc = "select"
    /\ fd_index_to_master = [k \in Slots |-> 0]
    /\ Pcontext = [k \in Slots |-> Nobody]
    /\ owner = [f \in Fds |-> Nobody]
    /\ backlog = <<>>
    /\ state = [c \in Clients |-> "away"]
    /\ inbox = [c \in Clients |-> 0]
    /\ waiting = [c \in Clients |-> FALSE]
    /\ queue = <<>>
    /\ worker = "idle"
    /\ cur = NoFrame
    /\ Mode \in Modes
    /\ MasterNo \in IF Mode = "IEC102" THEN Masters ELSE {[c \in Clients |-> 0]}

----------------------------------------------------------------------------
(* The clients *)

(* The kernel completes the connection: the client can use it before the   *)
(* server accepts it.  ENNSock_Listen bounds the ones that wait.           *)
Dial(c) ==
    /\ state[c] = "away"
    /\ Len(backlog) <= MAXCLINE
    /\ state' = [state EXCEPT ![c] = "up"]
    /\ backlog' = Append(backlog, c)
    /\ UNCHANGED <<server, msg_rx, inbox, waiting, owner, queue>>

Request(c) ==
    /\ state[c] = "up"
    /\ inbox[c] < MaxInbox
    /\ Patient => ~waiting[c]
    /\ inbox' = [inbox EXCEPT ![c] = @ + 1]
    /\ waiting' = [waiting EXCEPT ![c] = TRUE]
    /\ UNCHANGED <<server, msg_rx, state, owner, backlog, queue>>

(* The client closes its end: the server's recv returns 0 after the unread *)
(* requests.                                                               *)
Leave(c) ==
    /\ state[c] = "up"
    /\ Patient => ~waiting[c]
    /\ state' = [state EXCEPT ![c] = "shut"]
    /\ waiting' = [waiting EXCEPT ![c] = FALSE]
    /\ queue' = [k \in DOMAIN queue |-> Forget(queue[k], c)]
    /\ cur' = Forget(cur, c)
    /\ UNCHANGED <<server, worker, inbox, owner, backlog>>

----------------------------------------------------------------------------
(* Task TCP_SERVER *)

(* One turn of the loop up to ENNSock_Select: the set is built from all    *)
(* slots.  A timeout (3 s with nothing ready) changes nothing.             *)
Select ==
    /\ pc = "select"
    /\ LET watched == {Listener} \cup {fd[k] : k \in SlotsInUse}
           ready   == {f \in watched : f <= MaxSock /\ Readable(f)}
       IN  /\ ready # {}
           /\ fdsr' = ready
    /\ i' = 0
    /\ pc' = "scan"
    /\ UNCHANGED <<fd, conn_amount, MaxSock, fd_index_to_master, Pcontext,
                   msg_rx, clients, owner, backlog, queue>>

(* The scan is bounded by conn_amount, not by the size of fd[].            *)
InScan(k)  == pc = "scan" /\ i = k /\ k < conn_amount /\ k \in Slots
IsReady(k) == fd[k] \in fdsr

ScanSkip(k) ==
    /\ InScan(k)
    /\ ~IsReady(k)
    /\ i' = i + 1
    /\ UNCHANGED <<fd, conn_amount, MaxSock, fdsr, pc, fd_index_to_master,
                   Pcontext, msg_rx, clients, owner, backlog, queue>>

(* Mutant: the number that is put into the frame is the largest.         *)
ScanReadModbus_Sock(k) ==
    /\ Mode = "MODBUS"
    /\ InScan(k)
    /\ IsReady(k)
    /\ inbox[Client(k)] > 0
    /\ inbox' = [inbox EXCEPT ![Client(k)] = 0]
    /\ LET c == Client(k)
           f == [sock |-> MaxSock,
                 from |-> IF state[c] = "up" THEN c ELSE Nobody]
       IN  queue' = IF Len(queue) < QueueSize THEN Append(queue, f) ELSE queue
    /\ i' = i + 1
    /\ UNCHANGED <<fd, conn_amount, MaxSock, fdsr, pc, fd_index_to_master,
                   Pcontext, msg_rx, state, waiting, owner, backlog>>

(* Mutant: one slot of the queue is never used.                          *)
ScanReadModbus_Short(k) ==
    /\ Mode = "MODBUS"
    /\ InScan(k)
    /\ IsReady(k)
    /\ inbox[Client(k)] > 0
    /\ inbox' = [inbox EXCEPT ![Client(k)] = 0]
    /\ LET f == [sock |-> fd[k], from |-> Client(k)]
       IN  queue' = IF Len(queue) < QueueSize - 1
                      THEN Append(queue, f) ELSE queue
    /\ i' = i + 1
    /\ UNCHANGED <<fd, conn_amount, MaxSock, fdsr, pc, fd_index_to_master,
                   Pcontext, msg_rx, state, waiting, owner, backlog>>

(* Modbus mode: what recv returns, however many requests it is, becomes    *)
(* one frame.  The code ignores that ENNOS_SendMessage fails on a full     *)
(* queue.                                                                  *)
ScanReadModbus(k) ==
    /\ Mode = "MODBUS"
    /\ InScan(k)
    /\ IsReady(k)
    /\ inbox[Client(k)] > 0
    /\ inbox' = [inbox EXCEPT ![Client(k)] = 0]
    /\ LET c == Client(k)
           f == [sock |-> fd[k],
                 from |-> IF state[c] = "up" THEN c ELSE Nobody]
       IN  queue' = IF Len(queue) < QueueSize THEN Append(queue, f) ELSE queue
    /\ i' = i + 1
    /\ UNCHANGED <<fd, conn_amount, MaxSock, fdsr, pc, fd_index_to_master,
                   Pcontext, msg_rx, state, waiting, owner, backlog>>

(* IEC 102 mode: iec102_rx_frame_seq_tx_process reads, processes and       *)
(* answers in one call.                                                    *)
ScanReadIec102(k) ==
    /\ Mode = "IEC102"
    /\ InScan(k)
    /\ IsReady(k)
    /\ Pcontext[k] # Nobody
    /\ inbox[Client(k)] > 0
    /\ inbox' = [inbox EXCEPT ![Client(k)] = 0]
    /\ waiting' = [waiting EXCEPT ![Client(k)] = FALSE]
    /\ i' = i + 1
    /\ UNCHANGED <<fd, conn_amount, MaxSock, fdsr, pc, fd_index_to_master,
                   Pcontext, msg_rx, state, owner, backlog, queue>>

(* Mutant: the session is not freed.                                     *)
ScanClose_Session(k) ==
    /\ InScan(k)
    /\ IsReady(k)
    /\ inbox[Client(k)] = 0
    /\ state[Client(k)] = "shut"
    /\ state' = [state EXCEPT ![Client(k)] = "away"]
    /\ owner' = [owner EXCEPT ![fd[k]] = Nobody]
    /\ fdsr' = fdsr \ {fd[k]}
    /\ fd' = [fd EXCEPT ![k] = 0]
    /\ conn_amount' = conn_amount - 1
    /\ i' = i + 1
    /\ UNCHANGED <<MaxSock, pc, msg_rx, inbox, waiting, backlog, queue,
                   fd_index_to_master, Pcontext>>

(* Mutant: the connection is counted for ever.                           *)
ScanClose_Count(k) ==
    /\ InScan(k)
    /\ IsReady(k)
    /\ inbox[Client(k)] = 0
    /\ state[Client(k)] = "shut"
    /\ state' = [state EXCEPT ![Client(k)] = "away"]
    /\ owner' = [owner EXCEPT ![fd[k]] = Nobody]
    /\ fdsr' = fdsr \ {fd[k]}
    /\ fd' = [fd EXCEPT ![k] = 0]
    /\ i' = i + 1
    /\ UNCHANGED <<conn_amount, MaxSock, pc, msg_rx, inbox, waiting, backlog,
                   queue, fd_index_to_master, Pcontext>>

(* recv returns 0: the connection is closed, its slot and, in IEC 102      *)
(* mode, its session are freed.                                            *)
ScanClose(k) ==
    /\ InScan(k)
    /\ IsReady(k)
    /\ inbox[Client(k)] = 0
    /\ state[Client(k)] = "shut"
    /\ state' = [state EXCEPT ![Client(k)] = "away"]
    /\ owner' = [owner EXCEPT ![fd[k]] = Nobody]
    /\ fdsr' = fdsr \ {fd[k]}
    /\ fd' = [fd EXCEPT ![k] = 0]
    /\ conn_amount' = conn_amount - 1
    /\ IF Mode = "IEC102"
         THEN /\ fd_index_to_master' = [fd_index_to_master EXCEPT ![k] = -1]
              /\ Pcontext' = [Pcontext EXCEPT ![k] = Nobody]
         ELSE UNCHANGED <<fd_index_to_master, Pcontext>>
    /\ i' = i + 1
    /\ UNCHANGED <<MaxSock, pc, msg_rx, inbox, waiting, backlog, queue>>

(* Mutant: new connections wait until nothing else is ready.             *)
ScanEnd_Last ==
    /\ pc = "scan"
    /\ i >= conn_amount
    /\ pc' = IF fdsr = {Listener} THEN "accept" ELSE "select"
    /\ UNCHANGED <<fd, conn_amount, MaxSock, fdsr, i, fd_index_to_master,
                   Pcontext, msg_rx, clients, owner, backlog, queue>>

ScanEnd ==
    /\ pc = "scan"
    /\ i >= conn_amount
    /\ pc' = IF Listener \in fdsr THEN "accept" ELSE "select"
    /\ UNCHANGED <<fd, conn_amount, MaxSock, fdsr, i, fd_index_to_master,
                   Pcontext, msg_rx, clients, owner, backlog, queue>>

(* ENNSock_Accept takes the oldest waiting connection and gives it the     *)
(* lowest free descriptor.                                                 *)
Accepting(c, f) ==
    /\ pc = "accept"
    /\ pc' = "select"
    /\ backlog # <<>>
    /\ c = Head(backlog)
    /\ backlog' = Tail(backlog)
    /\ f \in Fds \ OpenFds
    /\ \A g \in Fds \ OpenFds : f <= g

Refuse(c) ==
    /\ state' = [state EXCEPT ![c] = "away"]
    /\ inbox' = [inbox EXCEPT ![c] = 0]
    /\ waiting' = [waiting EXCEPT ![c] = FALSE]
    /\ UNCHANGED <<fd, conn_amount, MaxSock, fdsr, i, fd_index_to_master,
                   Pcontext, msg_rx, owner, queue>>

(* dpa_judge_master_connect finds no master with the client's address.     *)
AcceptUnknown(c, f) ==
    /\ Accepting(c, f)
    /\ Mode = "IEC102"
    /\ MasterNo[c] = 0
    /\ Refuse(c)

(* All slots are taken: "bye".                                             *)
AcceptFull(c, f) ==
    /\ Accepting(c, f)
    /\ Mode = "IEC102" => MasterNo[c] # 0
    /\ conn_amount >= MAXCLINE
    /\ Refuse(c)

(* Mutant: the largest descriptor is not kept up to date.                *)
AcceptStore_Max(c, f) ==
    /\ Accepting(c, f)
    /\ Mode = "IEC102" => MasterNo[c] # 0
    /\ conn_amount < MAXCLINE
    /\ LET free == {k \in Slots : fd[k] = 0}
           slot == {k \in free : \A j \in free : k <= j}
       IN  fd' = [k \in Slots |-> IF k \in slot THEN f ELSE fd[k]]
    /\ owner' = [owner EXCEPT ![f] = c]
    /\ conn_amount' = conn_amount + 1
    /\ UNCHANGED <<fdsr, i, msg_rx, clients, queue, MaxSock,
                   fd_index_to_master, Pcontext>>

(* Mutant: there is no limit to the connections.                         *)
AcceptStore_Limit(c, f) ==
    /\ Accepting(c, f)
    /\ LET free == {k \in Slots : fd[k] = 0}
           slot == {k \in free : \A j \in free : k <= j}
       IN  fd' = [k \in Slots |-> IF k \in slot THEN f ELSE fd[k]]
    /\ owner' = [owner EXCEPT ![f] = c]
    /\ conn_amount' = conn_amount + 1
    /\ MaxSock' = IF f > MaxSock THEN f ELSE MaxSock
    /\ UNCHANGED <<fdsr, i, msg_rx, clients, queue, fd_index_to_master,
                   Pcontext>>

(* The connection goes to the first free slot; if there were none it would *)
(* be counted all the same.                                                *)
AcceptStore(c, f) ==
    /\ Accepting(c, f)
    /\ Mode = "IEC102" => MasterNo[c] # 0
    /\ conn_amount < MAXCLINE
    /\ LET free == {k \in Slots : fd[k] = 0}
           slot == {k \in free : \A j \in free : k <= j}
       IN  /\ fd' = [k \in Slots |-> IF k \in slot THEN f ELSE fd[k]]
           /\ IF Mode = "IEC102"
                THEN /\ fd_index_to_master' =
                          [k \in Slots |-> IF k \in slot THEN MasterNo[c]
                                           ELSE fd_index_to_master[k]]
                     /\ Pcontext' = [k \in Slots |-> IF k \in slot THEN c
                                                     ELSE Pcontext[k]]
                ELSE UNCHANGED <<fd_index_to_master, Pcontext>>
    /\ owner' = [owner EXCEPT ![f] = c]
    /\ conn_amount' = conn_amount + 1
    /\ MaxSock' = IF f > MaxSock THEN f ELSE MaxSock
    /\ UNCHANGED <<fdsr, i, msg_rx, clients, queue>>

Server ==
    \/ Select
    \/ \E k \in Slots : \/ ScanSkip(k) \/ ScanReadModbus(k)
                        \/ ScanReadIec102(k) \/ ScanClose(k)
    \/ ScanEnd
    \/ \E c \in Clients, f \in Fds :
          AcceptUnknown(c, f) \/ AcceptFull(c, f) \/ AcceptStore(c, f)

----------------------------------------------------------------------------
(* Task MSG_RX *)

Take ==
    /\ worker = "idle"
    /\ queue # <<>>
    /\ cur' = Head(queue)
    /\ queue' = Tail(queue)
    /\ worker' = "busy"
    /\ UNCHANGED <<server, clients, owner, backlog>>

(* An answer goes to whatever connection has the number now.  The client   *)
(* that gets one it does not wait for ignores it (transaction identifier). *)
Reply ==
    /\ worker = "busy"
    /\ worker' = "replied"
    /\ waiting' = IF cur.from \in Clients /\ owner[cur.sock] = cur.from
                    THEN [waiting EXCEPT ![cur.from] = FALSE]
                    ELSE waiting
    /\ UNCHANGED <<server, cur, state, inbox, owner, backlog, queue>>

(* The frame is finished: with no answer (a register write whose device    *)
(* does not respond), one, or two (an exception and then the response).    *)
Done ==
    /\ worker \in {"busy", "replied"}
    /\ worker' = "idle"
    /\ cur' = NoFrame
    /\ UNCHANGED <<server, clients, owner, backlog, queue>>

Next ==
    /\ \/ \E c \in Clients : Dial(c) \/ Request(c) \/ Leave(c)
       \/ Server
       \/ Take \/ Reply \/ Done
    /\ UNCHANGED config

Spec == Init /\ [][Next]_vars

(* Both tasks are scheduled.  Nothing obliges a client to do anything.     *)
FairSpec == Spec /\ WF_vars(Server /\ UNCHANGED config)
                 /\ WF_vars(Take /\ UNCHANGED config)
                 /\ WF_vars(Done /\ UNCHANGED config)

----------------------------------------------------------------------------
(* Properties *)

TypeOK ==
    /\ fd \in [Slots -> Fds \cup {0}]
    /\ conn_amount \in 0 .. MAXCLINE
    /\ MaxSock \in Fds \cup {Listener}
    /\ fdsr \subseteq Fds \cup {Listener}
    /\ i \in 0 .. MAXCLINE
    /\ pc \in {"select", "scan", "accept"}
    /\ fd_index_to_master \in [Slots -> Int]
    /\ Pcontext \in [Slots -> Clients \cup {Nobody}]
    /\ owner \in [Fds -> Clients \cup {Nobody}]
    /\ backlog \in Seq(Clients)
    /\ state \in [Clients -> {"away", "up", "shut"}]
    /\ inbox \in [Clients -> 0 .. MaxInbox]
    /\ waiting \in [Clients -> BOOLEAN]
    /\ queue \in Seq(Frames)
    /\ worker \in {"idle", "busy", "replied"}
    /\ cur \in Frames
    /\ Mode \in Modes
    /\ MasterNo \in [Clients -> Nat]

(* The server's table and the kernel's agree: no connection is leaked or   *)
(* held twice, and conn_amount counts the slots in use, although it is     *)
(* changed in the middle of the scan it bounds.                            *)
SlotsConsistent ==
    /\ {fd[k] : k \in SlotsInUse} = OpenFds
    /\ \A k, l \in SlotsInUse : fd[k] = fd[l] => k = l
    /\ conn_amount = Cardinality(SlotsInUse)
    /\ \A f \in OpenFds : f <= MaxSock

(* In IEC 102 mode slot k's session was made for the client connected      *)
(* there now, and the master number is that client's: nothing of an        *)
(* earlier connection in the slot survives.                                *)
SessionOfClient ==
    Mode = "IEC102" =>
        \A k \in Slots :
            /\ Pcontext[k] = IF fd[k] = 0 THEN Nobody ELSE Client(k)
            /\ fd[k] # 0 => fd_index_to_master[k] = MasterNo[Client(k)]

(* An answer goes to the client that asked, if that is still connected:    *)
(* the number taken from fd[i] when the request was read still means the   *)
(* same connection when MSG_RX answers (ModBus_TCP.c:1906, 1713).          *)
ReplyToRequester ==
    [][worker = "busy" /\ worker' = "replied" /\ cur.from # Nobody
          => owner[cur.sock] = cur.from /\ ~waiting'[cur.from]]_vars

(* If every client waits for its answers, no request of a connected client *)
(* is dropped at a full queue or swallowed by another in the same recv,    *)
(* although the result of ENNOS_SendMessage is ignored                     *)
(* (ModBus_TCP.c:1909).                                                    *)
NoRequestLost ==
    [][\A c \in Clients : Mode = "MODBUS" /\ inbox'[c] < inbox[c] /\ ~Dialing(c) =>
          inbox[c] = 1 /\ Len(queue') = Len(queue) + 1]_vars

(* The server turns to a readable connection, as long as its slot is below *)
(* the scan's bound.                                                       *)
Waits(k) == fd[k] # 0 /\ Readable(fd[k])
ServedBelowCount ==
    \A k \in Slots : Waits(k) ~> (~Waits(k) \/ k >= conn_amount)

(* The comment at ModBus_TCP.c:1840: the loop checks whether data has      *)
(* arrived on the valid connections.  So every one that has data is read.  *)
EveryClientServed == \A k \in Slots : Waits(k) ~> ~Waits(k)

(* Whoever dials is accepted or refused, whatever the others do.           *)
EveryDialAnswered ==
    \A c \in Clients : Dialing(c) ~> ~Dialing(c)
=============================================================================
