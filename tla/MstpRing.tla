------------------------------ MODULE MstpRing ------------------------------
(***************************************************************************)
(* The MS/TP data link of the BACnet stack: the master nodes of one RS-485 *)
(* bus, each of them dlmstp_master_fsm_task (bacnet/linux/dlmstp.c) around *)
(* MSTP_Master_Node_FSM and MSTP_Receive_Frame_FSM (bacnet/src/mstp.c).    *)
(*                                                                         *)
(* A node is its mstp_port structure, the ring PDU_Queue of frames to      *)
(* send and the one-place Receive_Packet of dlmstp.c.  There is one action *)
(* for each transition of the master machine, named as the comments of the *)
(* source name it; transition_now keeps the node running.  A transmission  *)
(* reaches every other node at once, whole, or (troubles) damaged; time    *)
(* passes in ticks, and a tick waits for every node that has something to  *)
(* do, unless a node stalls (troubles).  Left out: test frames, which no   *)
(* node originates, broadcast data and the slave machine.                  *)
(***************************************************************************)
EXTENDS Naturals, Sequences, FiniteSets

CONSTANTS
  Nmax_master,       \* the highest address of a master node
  Npoll,             \* tokens between two polls for new masters
  Nretry_token,      \* repetitions of a token that nobody used
  Nmax_info_frames,  \* frames a node may send for one token
  Tusage_timeout, Treply_delay, Treply_timeout, Tno_token, Tslot, \* in ticks
  QueueLen,          \* places of PDU_Queue
  Nobody,            \* no station, no frame
  MaxTroubles,       \* bound: transmissions damaged and ticks missed
  MaxSwitches,       \* bound: nodes switched on or off
  MaxRequests,       \* bound: requests of the application layers
  MaxEvents          \* bound: all of these together

ASSUME RingAssumption ==
  /\ {Nmax_master, Npoll, Nretry_token, Nmax_info_frames, QueueLen} \subseteq Nat \ {0}
  /\ {MaxTroubles, MaxSwitches, MaxEvents, MaxRequests, Tusage_timeout} \subseteq Nat
  /\ {Treply_delay, Treply_timeout, Tno_token, Tslot} \subseteq Nat \ {0}
  \* the order of the time limits of mstp.c: 95 < 250, 295 < 500 and 10 ms
  /\ Tusage_timeout < Treply_delay
  /\ Treply_delay + 1 < Treply_timeout
  /\ Treply_timeout < Tno_token
  /\ Nobody \notin Nat

Stations == 0 .. Nmax_master
Horizon == Tno_token + Tslot * (Nmax_master + 2) \* a silence no test tells from a longer one

VARIABLES
  port,            \* the mstp_port structure of each node
  PDU_Queue,       \* what the application layer of each node wants sent
  Receive_Packet,  \* the frame each node keeps for its application layer
  running,         \* the node inside its "while (MSTP_Master_Node_FSM)" loop
  troubles, switches, requests

bounds == <<troubles, switches, requests>>
vars == <<port, PDU_Queue, Receive_Packet, running, bounds>>

Frame(type, to, from) == [type |-> type, to |-> to, from |-> from]
\* "Invalid" is what a frame with a bad CRC leaves: ReceivedInvalidFrame.
FrameTypes ==
  {"Token", "PollForMaster", "ReplyToPoll", "Request", "Data", "Postponed", "Invalid"}
Frames == [type : FrameTypes, to : Stations, from : Stations]

\* The port after MSTP_Init: no frame, no token, no successor.
Fresh(s) ==
  [on |-> TRUE, master_state |-> "INITIALIZE",
   Next_Station |-> s, Poll_Station |-> s, TokenCount |-> 0, SoleMaster |-> FALSE,
   FrameCount |-> 0, RetryCount |-> 0, Heard |-> FALSE, rx |-> Nobody, fifo |-> <<>>,
   silence |-> 0]

Off(s) == [Fresh(s) EXCEPT !.on = FALSE]

Init ==
  /\ \E up \in SUBSET Stations :
       port = [s \in Stations |-> IF s \in up THEN Fresh(s) ELSE Off(s)]
  /\ PDU_Queue = [s \in Stations |-> <<>>]
  /\ Receive_Packet = [s \in Stations |-> Nobody]
  /\ running = Nobody
  /\ troubles = 0 /\ switches = 0 /\ requests = 0

\* next_poll_station, next_this_station and next_next_station.
After(a) == (a + 1) % (Nmax_master + 1)

-----------------------------------------------------------------------------
(* What a node is about to do.                                             *)

Got(s, type) == port[s].rx # Nobody /\ port[s].rx.type = type
Valid(s) == port[s].rx # Nobody /\ ~Got(s, "Invalid")   \* ReceivedValidFrame

\* The slot of a node after a long silence: 10 ms for each address.
MySlot(s) == /\ port[s].silence >= Tno_token + Tslot * s
             /\ port[s].silence < Tno_token + Tslot * (s + 1)

\* A packet of PDU_Queue; MSTP_Get_Reply compares the head of the ring only.
Packet(to, reply) == [to |-> to, reply |-> reply]

ReplyReady(s) ==
  PDU_Queue[s] # <<>> /\ Head(PDU_Queue[s]) = Packet(port[s].rx.from, TRUE)

Live == {s \in Stations : port[s].on}

\* MSTP_Master_Node_FSM has no transition: a frame or a time limit must come.
Settled(s) ==
  CASE port[s].master_state = "IDLE" ->
         port[s].rx = Nobody /\ port[s].silence < Tno_token
    [] port[s].master_state = "ANSWER_DATA_REQUEST" ->
         ~ReplyReady(s) /\ port[s].silence <= Treply_delay
    [] port[s].master_state = "WAIT_FOR_REPLY" ->
         port[s].rx = Nobody /\ port[s].silence < Treply_timeout
    [] port[s].master_state = "PASS_TOKEN" ->
         ~port[s].Heard /\ port[s].silence <= Tusage_timeout
    [] port[s].master_state = "NO_TOKEN" -> ~port[s].Heard /\ ~MySlot(s)
    [] port[s].master_state = "POLL_FOR_MASTER" ->
         port[s].rx = Nobody /\ port[s].silence <= Tusage_timeout
    [] OTHER -> FALSE

Resting(s) == Settled(s) /\ (port[s].rx = Nobody => port[s].fifo = <<>>)

\* The next run of the node's loop ends with a frame on the line.
Talks(s) ==
  LET asked == Got(s, "Token") \/ Got(s, "PollForMaster") IN
  CASE port[s].master_state = "IDLE" ->
         IF port[s].silence >= Tno_token THEN MySlot(s) ELSE asked
    [] port[s].master_state = "ANSWER_DATA_REQUEST" ->
         ReplyReady(s) \/ port[s].silence > Treply_delay
    [] port[s].master_state \in {"USE_TOKEN", "DONE_WITH_TOKEN"} -> TRUE
    [] port[s].master_state = "WAIT_FOR_REPLY" ->
         port[s].silence >= Treply_timeout \/ \E type \in {"Data", "Postponed", "Invalid"} : Got(s, type)
    [] port[s].master_state = "PASS_TOKEN" ->
         port[s].silence > Tusage_timeout \/ (port[s].Heard /\ asked)
    [] port[s].master_state = "NO_TOKEN" -> MySlot(s) \/ (port[s].Heard /\ asked)
    [] port[s].master_state = "POLL_FOR_MASTER" ->
         \/ port[s].silence > Tusage_timeout /\ ~Valid(s)
         \/ Got(s, "ReplyToPoll") \/ Got(s, "Invalid")
    [] OTHER -> FALSE

-----------------------------------------------------------------------------
(* The wire.                                                               *)

\* MSTP_Receive_Frame_FSM over the octets of one frame: they count as events
\* and end the silence; a frame for this node, or a damaged one, is flagged.
Consume(p, s, f) ==
  [p EXCEPT !.Heard = TRUE, !.silence = 0,
            !.rx = IF f.type = "Invalid" \/ f.to = s THEN f ELSE @]

\* The octets wait in the FIFO of the UART while a frame is flagged.
Hear(p, s, f) ==
  IF ~p.on THEN p
  ELSE IF p.rx # Nobody \/ p.fifo # <<>> THEN [p EXCEPT !.fifo = Append(@, f)]
  ELSE Consume(p, s, f)

EventLeft == troubles + switches + requests < MaxEvents
TroubleLeft == troubles < MaxTroubles /\ EventLeft

\* What the nodes in "hurt" get of a frame: nothing, or octets with a bad CRC.
Damages == {"lost", "garbled"}

\* RS485_Send_Frame: the sender's port becomes r, its silence ends as well.
Transmit(s, f, r) ==
  \E hurt \in SUBSET (Stations \ {s}), damage \in Damages :
    /\ hurt # {} => TroubleLeft
    /\ troubles' = IF hurt = {} THEN troubles ELSE troubles + 1
    /\ port' = [t \in Stations |->
                  IF t = s THEN [r EXCEPT !.silence = 0]
                  ELSE IF t \notin hurt THEN Hear(port[t], t, f)
                  ELSE IF damage = "garbled" THEN Hear(port[t], t, [f EXCEPT !.type = "Invalid"])
                  ELSE port[t]]
    /\ running' = Nobody
    /\ UNCHANGED <<switches, requests>>

Send(s, type, to, r) ==
  /\ Transmit(s, Frame(type, to, s), r)
  /\ UNCHANGED <<PDU_Queue, Receive_Packet>>

\* A transition that sends nothing; again is transition_now.
Local(s, r, again) ==
  /\ port' = [port EXCEPT ![s] = r]
  /\ running' = IF again THEN s ELSE Nobody
  /\ UNCHANGED <<PDU_Queue, Receive_Packet, bounds>>

\* The node runs its machine, in the given state.  A frame takes longer than what
\* the nodes compute: one that is going to send lets the others finish first.
In(s, state) ==
  /\ port[s].on /\ port[s].master_state = state
  /\ \/ running = s
     \/ /\ running = Nobody
        /\ Talks(s) => \A t \in Live \ {s} : Resting(t) \/ Talks(t)

-----------------------------------------------------------------------------
(* INITIALIZE and IDLE.                                                    *)

DoneInitializing(s) ==
  /\ In(s, "INITIALIZE")
  /\ Local(s, [port[s] EXCEPT !.Next_Station = s, !.Poll_Station = s, !.TokenCount = Npoll,
                              !.SoleMaster = FALSE, !.master_state = "IDLE"], TRUE)

LostToken(s) ==
  /\ In(s, "IDLE") /\ port[s].silence >= Tno_token
  /\ Local(s, [port[s] EXCEPT !.Heard = FALSE, !.rx = Nobody, !.master_state = "NO_TOKEN"], TRUE)

Idle(s) == In(s, "IDLE") /\ port[s].silence < Tno_token

Cleared(s) == [port[s] EXCEPT !.rx = Nobody]

\* A damaged frame, or one this state has no use for (a late reply).
IgnoredFrame(s) ==
  /\ Idle(s) /\ (Got(s, "Invalid") \/ Got(s, "ReplyToPoll") \/ Got(s, "Postponed"))
  /\ Local(s, Cleared(s), FALSE)

ReceivedToken(s) ==
  /\ Idle(s) /\ Got(s, "Token")
  /\ Local(s, [Cleared(s) EXCEPT !.FrameCount = 0, !.SoleMaster = FALSE,
                                 !.master_state = "USE_TOKEN"], TRUE)

ReceivedPFM(s) ==
  /\ Idle(s) /\ Got(s, "PollForMaster")
  /\ Send(s, "ReplyToPoll", port[s].rx.from, Cleared(s))

\* MSTP_Put_Receive: dropped while the application has not taken the last one.
PutReceive(s) ==
  Receive_Packet' = [Receive_Packet EXCEPT ![s] = IF @ = Nobody THEN port[s].rx ELSE @]

ReceivedDataNoReply(s) ==
  /\ Idle(s) /\ Got(s, "Data")
  /\ PutReceive(s)
  /\ port' = [port EXCEPT ![s] = Cleared(s)]
  /\ running' = Nobody
  /\ UNCHANGED <<PDU_Queue, bounds>>

\* The frame stays flagged: the answer is compared with it.
ReceivedDataNeedingReply(s) ==
  /\ Idle(s) /\ Got(s, "Request")
  /\ PutReceive(s)
  /\ port' = [port EXCEPT ![s].master_state = "ANSWER_DATA_REQUEST"]
  /\ running' = Nobody
  /\ UNCHANGED <<PDU_Queue, bounds>>

-----------------------------------------------------------------------------
(* ANSWER_DATA_REQUEST.                                                    *)

Reply(s) ==
  /\ In(s, "ANSWER_DATA_REQUEST") /\ ReplyReady(s)
  /\ Transmit(s, Frame("Data", port[s].rx.from, s), [Cleared(s) EXCEPT !.master_state = "IDLE"])
  /\ PDU_Queue' = [PDU_Queue EXCEPT ![s] = Tail(@)]
  /\ UNCHANGED Receive_Packet

DeferredReply(s) ==
  /\ In(s, "ANSWER_DATA_REQUEST") /\ ~ReplyReady(s) /\ port[s].silence > Treply_delay
  /\ Send(s, "Postponed", port[s].rx.from, [Cleared(s) EXCEPT !.master_state = "IDLE"])

-----------------------------------------------------------------------------
(* USE_TOKEN and WAIT_FOR_REPLY.                                           *)

NothingToSend(s) ==
  /\ In(s, "USE_TOKEN") /\ PDU_Queue[s] = <<>>
  /\ Local(s, [port[s] EXCEPT !.FrameCount = Nmax_info_frames,
                              !.master_state = "DONE_WITH_TOKEN"], TRUE)

\* SendNoWait and SendAndWait: MSTP_Get_Send takes the head of the ring.
UseToken(s) ==
  /\ In(s, "USE_TOKEN") /\ PDU_Queue[s] # <<>>
  /\ LET pkt == Head(PDU_Queue[s]) IN
       Transmit(s, Frame(IF pkt.reply THEN "Data" ELSE "Request", pkt.to, s),
                [port[s] EXCEPT !.FrameCount = @ + 1,
                                !.master_state = IF pkt.reply THEN "DONE_WITH_TOKEN"
                                                 ELSE "WAIT_FOR_REPLY"])
  /\ PDU_Queue' = [PDU_Queue EXCEPT ![s] = Tail(@)]
  /\ UNCHANGED Receive_Packet

\* Mutant: the asker gives up as soon as the answer may still be made.
ReplyTimeout_Early(s) ==
  /\ In(s, "WAIT_FOR_REPLY") /\ port[s].silence >= Treply_delay
  /\ Local(s, [port[s] EXCEPT !.FrameCount = Nmax_info_frames,
                              !.master_state = "DONE_WITH_TOKEN"], TRUE)

ReplyTimeout(s) ==
  /\ In(s, "WAIT_FOR_REPLY") /\ port[s].silence >= Treply_timeout
  /\ Local(s, [port[s] EXCEPT !.FrameCount = Nmax_info_frames,
                              !.master_state = "DONE_WITH_TOKEN"], TRUE)

Waiting(s) == In(s, "WAIT_FOR_REPLY") /\ port[s].silence < Treply_timeout

InvalidFrame(s) ==
  /\ Waiting(s) /\ Got(s, "Invalid")
  /\ Local(s, [Cleared(s) EXCEPT !.master_state = "DONE_WITH_TOKEN"], TRUE)

\* ReceivedReply and ReceivedReplyPostponed.
ReceivedReply(s) ==
  /\ Waiting(s) /\ (Got(s, "Data") \/ Got(s, "Postponed"))
  /\ IF Got(s, "Data") THEN PutReceive(s) ELSE UNCHANGED Receive_Packet
  /\ port' = [port EXCEPT ![s] = [Cleared(s) EXCEPT !.master_state = "DONE_WITH_TOKEN"]]
  /\ running' = s
  /\ UNCHANGED <<PDU_Queue, bounds>>

\* Any other frame drops the token.
UnexpectedWhileWaiting(s) ==
  /\ Waiting(s) /\ Valid(s) /\ ~Got(s, "Data") /\ ~Got(s, "Postponed")
  /\ Local(s, [Cleared(s) EXCEPT !.master_state = "IDLE"], TRUE)

-----------------------------------------------------------------------------
(* DONE_WITH_TOKEN: another frame, the token, or a poll for new masters.   *)

SendAnotherFrame(s) ==
  /\ In(s, "DONE_WITH_TOKEN") /\ port[s].FrameCount < Nmax_info_frames
  /\ Local(s, [port[s] EXCEPT !.master_state = "USE_TOKEN"], TRUE)

Done(s) == In(s, "DONE_WITH_TOKEN") /\ port[s].FrameCount >= Nmax_info_frames

\* Polls station t; r is the rest of the change.
Poll(s, t, r) ==
  Send(s, "PollForMaster", t, [r EXCEPT !.Poll_Station = t, !.RetryCount = 0,
                                        !.master_state = "POLL_FOR_MASTER"])

NextStationUnknown(s) ==
  /\ Done(s) /\ ~port[s].SoleMaster /\ port[s].Next_Station = s
  /\ Poll(s, After(s), port[s])

Known(s) == Done(s) /\ (port[s].SoleMaster \/ port[s].Next_Station # s)

SoleMaster(s) ==
  /\ Known(s) /\ port[s].TokenCount < Npoll - 1
  /\ port[s].SoleMaster /\ port[s].Next_Station # After(s)
  /\ Local(s, [port[s] EXCEPT !.FrameCount = 0, !.TokenCount = @ + 1,
                              !.master_state = "USE_TOKEN"], TRUE)

\* Sends the token to the next station; r is the rest of the change.
PassToken(s, r) ==
  Send(s, "Token", r.Next_Station, [r EXCEPT !.RetryCount = 0, !.Heard = FALSE,
                                             !.master_state = "PASS_TOKEN"])

\* Mutant: the tokens are not counted, so nobody is ever polled again.
SendToken_Uncounted(s) ==
  /\ Known(s) /\ port[s].TokenCount < Npoll - 1
  /\ port[s].SoleMaster => port[s].Next_Station = After(s)
  /\ PassToken(s, port[s])

SendToken(s) ==
  /\ Known(s) /\ port[s].TokenCount < Npoll - 1
  /\ port[s].SoleMaster => port[s].Next_Station = After(s)
  /\ PassToken(s, [port[s] EXCEPT !.TokenCount = @ + 1])

Maintenance(s) == Known(s) /\ port[s].TokenCount >= Npoll - 1

SoleMasterRestartMaintenancePFM(s) ==
  /\ Maintenance(s) /\ port[s].SoleMaster
  /\ After(port[s].Poll_Station) = port[s].Next_Station
  /\ Poll(s, After(port[s].Next_Station), [port[s] EXCEPT !.Next_Station = s, !.TokenCount = 1])

ResetMaintenancePFM(s) ==
  /\ Maintenance(s) /\ ~port[s].SoleMaster
  /\ After(port[s].Poll_Station) = port[s].Next_Station
  /\ PassToken(s, [port[s] EXCEPT !.Poll_Station = s, !.TokenCount = 1])

SendMaintenancePFM(s) ==
  /\ Maintenance(s) /\ After(port[s].Poll_Station) # port[s].Next_Station
  /\ Poll(s, After(port[s].Poll_Station), port[s])

-----------------------------------------------------------------------------
(* PASS_TOKEN: is the token used?                                          *)

SawTokenUser(s) ==
  /\ In(s, "PASS_TOKEN") /\ port[s].silence <= Tusage_timeout /\ port[s].Heard
  /\ Local(s, [port[s] EXCEPT !.master_state = "IDLE"], TRUE)

\* Mutant: the token is taken for unused one millisecond early.
Unused_Early(s) == In(s, "PASS_TOKEN") /\ port[s].silence >= Tusage_timeout

Unused(s) == In(s, "PASS_TOKEN") /\ port[s].silence > Tusage_timeout

\* Mutant: the repetitions are not counted.
RetrySendToken_Uncounted(s) ==
  /\ Unused(s) /\ port[s].RetryCount < Nretry_token
  /\ Send(s, "Token", port[s].Next_Station, [port[s] EXCEPT !.Heard = FALSE])

RetrySendToken(s) ==
  /\ Unused(s) /\ port[s].RetryCount < Nretry_token
  /\ Send(s, "Token", port[s].Next_Station,
          [port[s] EXCEPT !.RetryCount = @ + 1, !.Heard = FALSE])

FindNewSuccessor(s) ==
  /\ Unused(s) /\ port[s].RetryCount >= Nretry_token
  /\ Poll(s, After(port[s].Next_Station), [port[s] EXCEPT !.Next_Station = s, !.TokenCount = 0])

-----------------------------------------------------------------------------
(* NO_TOKEN: each node has a slot of its own to make a new token in, and a *)
(* node that misses its slot only waits for a frame from then on.          *)

SawFrame(s) ==
  /\ In(s, "NO_TOKEN") /\ ~MySlot(s) /\ port[s].Heard
  /\ Local(s, [port[s] EXCEPT !.master_state = "IDLE"], TRUE)

GenerateToken(s) ==
  /\ In(s, "NO_TOKEN") /\ MySlot(s)
  /\ Poll(s, After(s), [port[s] EXCEPT !.Next_Station = s, !.TokenCount = 0])

-----------------------------------------------------------------------------
(* POLL_FOR_MASTER: is there a master at the polled address?               *)

ReceivedReplyToPFM(s) ==
  /\ In(s, "POLL_FOR_MASTER") /\ Got(s, "ReplyToPoll")
  /\ PassToken(s, [Cleared(s) EXCEPT !.SoleMaster = FALSE, !.Next_Station = port[s].rx.from,
                                     !.Poll_Station = s, !.TokenCount = 0])

\* Any other frame drops the token.
UnexpectedWhilePolling(s) ==
  /\ In(s, "POLL_FOR_MASTER") /\ Valid(s) /\ ~Got(s, "ReplyToPoll")
  /\ Local(s, [Cleared(s) EXCEPT !.master_state = "IDLE"], TRUE)

Unanswered(s) ==
  /\ In(s, "POLL_FOR_MASTER") /\ ~Valid(s)
  /\ port[s].silence > Tusage_timeout \/ Got(s, "Invalid")

SoleMasterAgain(s) ==
  /\ Unanswered(s) /\ port[s].SoleMaster
  /\ Local(s, [Cleared(s) EXCEPT !.FrameCount = 0, !.master_state = "USE_TOKEN"], TRUE)

DoneWithPFM(s) ==
  /\ Unanswered(s) /\ ~port[s].SoleMaster /\ port[s].Next_Station # s
  /\ PassToken(s, Cleared(s))

SendNextPFM(s) ==
  /\ Unanswered(s) /\ ~port[s].SoleMaster /\ port[s].Next_Station = s
  /\ After(port[s].Poll_Station) # s
  /\ Poll(s, After(port[s].Poll_Station), Cleared(s))

DeclareSoleMaster(s) ==
  /\ Unanswered(s) /\ ~port[s].SoleMaster /\ port[s].Next_Station = s
  /\ After(port[s].Poll_Station) = s
  /\ Local(s, [Cleared(s) EXCEPT !.SoleMaster = TRUE, !.FrameCount = 0,
                                 !.master_state = "USE_TOKEN"], TRUE)

-----------------------------------------------------------------------------
(* The receive machine, time, the application layers and the power.        *)

\* The octets that waited in the FIFO, once no frame is flagged.
ReadFrame(s) ==
  /\ running = Nobody /\ port[s].on /\ port[s].rx = Nobody /\ port[s].fifo # <<>>
  /\ port' = [port EXCEPT ![s] = Consume([port[s] EXCEPT !.fifo = Tail(@)], s, Head(port[s].fifo))]
  /\ UNCHANGED <<PDU_Queue, Receive_Packet, running, bounds>>

\* The end of the loop.
NoTransition(s) ==
  /\ running = s /\ Settled(s)
  /\ running' = Nobody
  /\ UNCHANGED <<port, PDU_Queue, Receive_Packet, bounds>>

\* SilenceTimer of every node.  A node that is busy lets a tick pass only when
\* it stalls (the thread is not scheduled for so long).
Tick ==
  /\ running = Nobody
  /\ (\E s \in Live : ~Resting(s)) => TroubleLeft
  /\ troubles' = IF \A s \in Live : Resting(s) THEN troubles ELSE troubles + 1
  /\ port' = [s \in Stations |->
                IF port[s].on /\ port[s].silence < Horizon
                THEN [port[s] EXCEPT !.silence = @ + 1] ELSE port[s]]
  /\ UNCHANGED <<PDU_Queue, Receive_Packet, running, switches, requests>>

\* dlmstp_send_pdu: a full ring refuses.
Enqueue(s, packet) ==
  PDU_Queue' = [PDU_Queue EXCEPT ![s] = IF Len(@) < QueueLen THEN Append(@, packet) ELSE @]

\* The application layer asks another node for a property.
Ask(s, t) ==
  /\ running = Nobody /\ port[s].on /\ t # s
  /\ requests < MaxRequests /\ EventLeft /\ requests' = requests + 1
  /\ Enqueue(s, Packet(t, FALSE))
  /\ UNCHANGED <<port, Receive_Packet, running, troubles, switches>>

\* dlmstp_receive: the application takes the frame, and answers a request.
Application(s) ==
  /\ running = Nobody /\ port[s].on /\ Receive_Packet[s] # Nobody
  /\ IF Receive_Packet[s].type = "Request"
     THEN Enqueue(s, Packet(Receive_Packet[s].from, TRUE)) ELSE UNCHANGED PDU_Queue
  /\ Receive_Packet' = [Receive_Packet EXCEPT ![s] = Nobody]
  /\ UNCHANGED <<port, running, bounds>>

\* Power: all that a node knew is lost, dlmstp_init starts over.
Switch(s) ==
  /\ running = Nobody /\ switches < MaxSwitches /\ EventLeft
  /\ switches' = switches + 1
  /\ port' = [port EXCEPT ![s] = IF @.on THEN Off(s) ELSE Fresh(s)]
  /\ PDU_Queue' = [PDU_Queue EXCEPT ![s] = <<>>]
  /\ Receive_Packet' = [Receive_Packet EXCEPT ![s] = Nobody]
  /\ UNCHANGED <<running, troubles, requests>>

Step(s) ==
  \/ DoneInitializing(s) \/ LostToken(s) \/ IgnoredFrame(s) \/ ReceivedToken(s)
  \/ ReceivedPFM(s) \/ ReceivedDataNoReply(s) \/ ReceivedDataNeedingReply(s)
  \/ Reply(s) \/ DeferredReply(s)
  \/ NothingToSend(s) \/ UseToken(s)
  \/ ReplyTimeout(s) \/ InvalidFrame(s) \/ ReceivedReply(s) \/ UnexpectedWhileWaiting(s)
  \/ SendAnotherFrame(s) \/ NextStationUnknown(s) \/ SoleMaster(s) \/ SendToken(s)
  \/ SoleMasterRestartMaintenancePFM(s) \/ ResetMaintenancePFM(s) \/ SendMaintenancePFM(s)
  \/ SawTokenUser(s) \/ RetrySendToken(s) \/ FindNewSuccessor(s)
  \/ SawFrame(s) \/ GenerateToken(s)
  \/ ReceivedReplyToPFM(s) \/ UnexpectedWhilePolling(s) \/ SoleMasterAgain(s)
  \/ DoneWithPFM(s) \/ SendNextPFM(s) \/ DeclareSoleMaster(s)
  \/ NoTransition(s) \/ ReadFrame(s)

Next ==
  \/ \E s \in Stations : Step(s) \/ Application(s) \/ Switch(s)
  \/ \E s, t \in Stations : Ask(s, t)
  \/ Tick

Spec == Init /\ [][Next]_vars

\* The threads of every node run and time passes; nothing forces troubles, the
\* power switch or a request.
FairSpec ==
  /\ Spec
  /\ WF_vars(Tick)
  /\ \A s \in Stations : WF_vars(Step(s)) /\ WF_vars(Application(s))

-----------------------------------------------------------------------------
(* Properties.                                                             *)

\* The fields keep their ranges; the FIFO of a node is not bounded here.
TypeOK ==
  /\ port \in [Stations ->
       [on : BOOLEAN,
        master_state : {"INITIALIZE", "IDLE", "USE_TOKEN", "WAIT_FOR_REPLY", "DONE_WITH_TOKEN",
                        "PASS_TOKEN", "NO_TOKEN", "POLL_FOR_MASTER", "ANSWER_DATA_REQUEST"},
        Next_Station : Stations, Poll_Station : Stations, TokenCount : 0 .. Npoll,
        SoleMaster : BOOLEAN, FrameCount : 0 .. Nmax_info_frames,
        RetryCount : 0 .. Nretry_token, Heard : BOOLEAN, rx : Frames \cup {Nobody},
        fifo : Seq(Frames), silence : 0 .. Horizon]]
  /\ \A s \in Stations : PDU_Queue[s] \in Seq([to : Stations, reply : BOOLEAN])
                          /\ Len(PDU_Queue[s]) <= QueueLen
  /\ Receive_Packet \in [Stations -> Frames \cup {Nobody}]
  /\ running \in Stations \cup {Nobody}
  /\ troubles \in 0 .. MaxTroubles /\ switches \in 0 .. MaxSwitches
  /\ requests \in 0 .. MaxRequests

HasToken(s) ==
  port[s].master_state \in {"USE_TOKEN", "WAIT_FOR_REPLY", "DONE_WITH_TOKEN", "POLL_FOR_MASTER"}

TokenSent(s) ==
  \/ Got(s, "Token")
  \/ \E i \in DOMAIN port[s].fifo : port[s].fifo[i].type = "Token" /\ port[s].fifo[i].to = s

\* While every frame arrives and no node stalls, at most one node has the token
\* or is about to receive it: tokens passed, repeated, made anew after a
\* silence and offered to a node that is just switched on or off included.
OneToken == troubles = 0 => Cardinality({s \in Live : HasToken(s) \/ TokenSent(s)}) <= 1

\* The state of every node is proper, and they share one token.
BusSound == TypeOK /\ OneToken

\* A node that prepares an answer has an asker that still waits for it: the
\* longest wait of the one (Treply_delay) is over before the other's
\* (Treply_timeout), and nothing else makes the asker give up.
AnswerAwaited ==
  troubles = 0 /\ switches = 0 =>
    \A s \in Live : port[s].master_state = "ANSWER_DATA_REQUEST" =>
      port[port[s].rx.from].master_state = "WAIT_FOR_REPLY"

\* Every node that is on has missed the slot in which it may make a token.
AllMissedSlots ==
  \A s \in Live : /\ port[s].master_state = "NO_TOKEN"
                  /\ port[s].silence >= Tno_token + Tslot * (s + 1)

\* A node that stays on uses the token again and again, whatever frames were
\* lost and whichever nodes went off or came: the bus dies in one way only,
\* when all that are on have missed their slots (mstp.c:1044).
EveryNodeServed ==
  \A s \in Stations :
    <>[](port[s].on /\ ~AllMissedSlots) => []<>(port[s].master_state = "USE_TOKEN")

Distance(s, t) == (t + Nmax_master - s) % (Nmax_master + 1)
Successor(s) == CHOOSE t \in Live : \A u \in Live : Distance(s, t) <= Distance(s, u)

\* Once the troubles are over the ring closes over exactly the nodes that are
\* on: each of them has the next address that is on as its successor.
RingHeals ==
  <>[](AllMissedSlots \/ \A s \in Live : port[s].Next_Station = Successor(s))
=============================================================================
