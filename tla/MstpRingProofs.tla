--------------------------- MODULE MstpRingProofs ---------------------------
(***************************************************************************)
(* Proofs about MstpRing: for any number of master nodes, any time limits  *)
(* in the order of mstp.c and any requests, the nodes share one token, and *)
(* a node that prepares an answer is waited for.                           *)
(***************************************************************************)
EXTENDS MstpRing, FiniteSetTheorems, SequenceTheorems, TLAPS

-----------------------------------------------------------------------------
(* Types.                                                                  *)

States == {"INITIALIZE", "IDLE", "USE_TOKEN", "WAIT_FOR_REPLY", "DONE_WITH_TOKEN",
           "PASS_TOKEN", "NO_TOKEN", "POLL_FOR_MASTER", "ANSWER_DATA_REQUEST"}
Packets == [to : Stations, reply : BOOLEAN]

Ports ==
  [on : BOOLEAN, master_state : States,
   Next_Station : Stations, Poll_Station : Stations, TokenCount : 0 .. Npoll,
   SoleMaster : BOOLEAN, FrameCount : 0 .. Nmax_info_frames,
   RetryCount : 0 .. Nretry_token, Heard : BOOLEAN, rx : Frames \cup {Nobody},
   fifo : Seq(Frames), silence : 0 .. Horizon]

(* A port that is typed; a node that uses the token may send a frame more, *)
(* and one that prepares an answer has the request.                        *)
Typed(p) ==
  /\ p \in Ports
  /\ p.master_state = "USE_TOKEN" => p.FrameCount < Nmax_info_frames
  /\ p.master_state = "ANSWER_DATA_REQUEST" => p.rx # Nobody

TypeInv ==
  /\ TypeOK
  /\ DOMAIN PDU_Queue = Stations
  /\ \A s \in Stations :
       /\ port[s].master_state = "USE_TOKEN" => port[s].FrameCount < Nmax_info_frames
       /\ port[s].master_state = "ANSWER_DATA_REQUEST" => port[s].rx # Nobody

LEMMA TypeParts ==
  TypeInv <=>
    /\ DOMAIN port = Stations /\ port = [s \in Stations |-> port[s]]
    /\ \A s \in Stations : Typed(port[s])
    /\ DOMAIN PDU_Queue = Stations
    /\ \A s \in Stations : PDU_Queue[s] \in Seq(Packets) /\ Len(PDU_Queue[s]) <= QueueLen
    /\ Receive_Packet \in [Stations -> Frames \cup {Nobody}]
    /\ running \in Stations \cup {Nobody}
    /\ troubles \in 0 .. MaxTroubles /\ switches \in 0 .. MaxSwitches
    /\ requests \in 0 .. MaxRequests
<1>1. port \in [Stations -> Ports] <=>
        /\ DOMAIN port = Stations /\ port = [s \in Stations |-> port[s]]
        /\ \A s \in Stations : port[s] \in Ports
  OBVIOUS
<1>2. TypeOK <=>
        /\ port \in [Stations -> Ports]
        /\ \A s \in Stations : PDU_Queue[s] \in Seq(Packets) /\ Len(PDU_Queue[s]) <= QueueLen
        /\ Receive_Packet \in [Stations -> Frames \cup {Nobody}]
        /\ running \in Stations \cup {Nobody}
        /\ troubles \in 0 .. MaxTroubles /\ switches \in 0 .. MaxSwitches
        /\ requests \in 0 .. MaxRequests
  BY DEF TypeOK, Ports, Packets, States
<1> QED
  BY <1>1, <1>2 DEF TypeInv, Typed

LEMMA TypePartsNext ==
  TypeInv' <=>
    /\ DOMAIN port' = Stations /\ port' = [s \in Stations |-> port'[s]]
    /\ \A s \in Stations : Typed(port'[s])
    /\ DOMAIN PDU_Queue' = Stations
    /\ \A s \in Stations : PDU_Queue'[s] \in Seq(Packets) /\ Len(PDU_Queue'[s]) <= QueueLen
    /\ Receive_Packet' \in [Stations -> Frames \cup {Nobody}]
    /\ running' \in Stations \cup {Nobody}
    /\ troubles' \in 0 .. MaxTroubles /\ switches' \in 0 .. MaxSwitches
    /\ requests' \in 0 .. MaxRequests
<1>1. (TypeInv <=>
    /\ DOMAIN port = Stations /\ port = [s \in Stations |-> port[s]]
    /\ \A s \in Stations : Typed(port[s])
    /\ DOMAIN PDU_Queue = Stations
    /\ \A s \in Stations : PDU_Queue[s] \in Seq(Packets) /\ Len(PDU_Queue[s]) <= QueueLen
    /\ Receive_Packet \in [Stations -> Frames \cup {Nobody}]
    /\ running \in Stations \cup {Nobody}
    /\ troubles \in 0 .. MaxTroubles /\ switches \in 0 .. MaxSwitches
    /\ requests \in 0 .. MaxRequests)'
  BY TypeParts, PTL
<1> QED
  BY <1>1

(* The constants.                                                          *)
LEMMA Limits ==
  /\ Nmax_master \in Nat /\ Nmax_master > 0 /\ Npoll \in Nat /\ Npoll > 0
  /\ Nretry_token \in Nat /\ Nmax_info_frames \in Nat /\ Nmax_info_frames > 0
  /\ QueueLen \in Nat /\ QueueLen > 0
  /\ {MaxTroubles, MaxSwitches, MaxEvents, MaxRequests} \subseteq Nat
  /\ Tusage_timeout \in Nat /\ Treply_delay \in Nat /\ Treply_timeout \in Nat
  /\ Tno_token \in Nat /\ Tslot \in Nat /\ Tslot > 0
  /\ Tusage_timeout < Treply_delay /\ Treply_delay + 1 < Treply_timeout
  /\ Treply_timeout < Tno_token /\ Nobody \notin Stations
  /\ Stations \subseteq Nat /\ 0 \in Stations
<1>1. /\ Nmax_master \in Nat /\ Nmax_master > 0 /\ Npoll \in Nat /\ Npoll > 0
      /\ Nretry_token \in Nat /\ Nmax_info_frames \in Nat /\ Nmax_info_frames > 0
      /\ QueueLen \in Nat /\ QueueLen > 0
  BY SMTT(30), RingAssumption
<1>2. /\ {MaxTroubles, MaxSwitches, MaxEvents, MaxRequests} \subseteq Nat
      /\ Tusage_timeout \in Nat /\ Treply_delay \in Nat /\ Treply_timeout \in Nat
      /\ Tno_token \in Nat /\ Tslot \in Nat /\ Tslot > 0
      /\ Tusage_timeout < Treply_delay /\ Treply_delay + 1 < Treply_timeout
      /\ Treply_timeout < Tno_token /\ Nobody \notin Nat
  BY SMTT(30), RingAssumption
<1> QED
  BY <1>1, <1>2 DEF Stations

LEMMA Slots ==
  /\ Horizon \in Nat /\ Tno_token <= Horizon
  /\ \A s \in Stations : Tslot * s \in Nat /\ Tslot * (s + 1) \in Nat
<1>1. \A m, n \in Nat : m * n \in Nat
  OBVIOUS
<1>2. Tslot \in Nat /\ Nmax_master + 2 \in Nat /\ Tno_token \in Nat
  BY Limits
<1>3. Tslot * (Nmax_master + 2) \in Nat
  BY <1>1, <1>2
<1>4. \A s \in Stations : s \in Nat /\ s + 1 \in Nat
  BY Limits
<1> QED
  BY <1>1, <1>2, <1>3, <1>4 DEF Horizon

LEMMA Ranges ==
  /\ 0 \in 0 .. Npoll /\ 1 \in 0 .. Npoll /\ Npoll \in 0 .. Npoll /\ 0 \in 0 .. Nretry_token
  /\ 0 \in 0 .. Nmax_info_frames /\ Nmax_info_frames \in 0 .. Nmax_info_frames
  /\ 0 < Nmax_info_frames
BY Limits

LEMMA AfterStation == \A a \in Stations : After(a) \in Stations
BY Limits DEF After, Stations

LEMMA PortFields ==
  ASSUME NEW p \in Ports
  PROVE  /\ p.on \in BOOLEAN /\ p.master_state \in States /\ p.Next_Station \in Stations
         /\ p.Poll_Station \in Stations /\ p.TokenCount \in 0 .. Npoll
         /\ p.SoleMaster \in BOOLEAN /\ p.FrameCount \in 0 .. Nmax_info_frames
         /\ p.RetryCount \in 0 .. Nretry_token /\ p.Heard \in BOOLEAN
         /\ p.rx \in Frames \cup {Nobody} /\ p.fifo \in Seq(Frames) /\ p.silence \in 0 .. Horizon
BY DEF Ports

LEMMA FrameTyped ==
  ASSUME NEW type \in FrameTypes, NEW to \in Stations, NEW from \in Stations
  PROVE  Frame(type, to, from) \in Frames
BY DEF Frame, Frames

LEMMA HearTyped ==
  ASSUME NEW p, Typed(p), NEW s \in Stations, NEW f \in Frames
  PROVE  Typed(Hear(p, s, f))
<1>1. CASE ~p.on
  BY <1>1 DEF Hear
<1>2. CASE p.on /\ (p.rx # Nobody \/ p.fifo # <<>>)
  <2>1. Append(p.fifo, f) \in Seq(Frames)
    BY AppendProperties DEF Typed, Ports
  <2>2. Hear(p, s, f) = [p EXCEPT !.fifo = Append(p.fifo, f)]
    BY <1>2 DEF Hear
  <2> QED
    BY <2>1, <2>2 DEF Typed, Ports
<1>3. CASE p.on /\ ~(p.rx # Nobody \/ p.fifo # <<>>)
  <2> DEFINE rx == IF f.type = "Invalid" \/ f.to = s THEN f ELSE p.rx
  <2>1. Hear(p, s, f) = [p EXCEPT !.Heard = TRUE, !.silence = 0, !.rx = rx]
    BY <1>3 DEF Hear, Consume
  <2>2. rx \in Frames \cup {Nobody} /\ 0 \in 0 .. Horizon
    BY PortFields, Slots DEF Typed
  <2> HIDE DEF rx
  <2>3. p.master_state # "ANSWER_DATA_REQUEST"
    BY <1>3 DEF Typed
  <2> QED
    BY <2>1, <2>2, <2>3 DEF Typed, Ports
<1> QED
  BY <1>1, <1>2, <1>3

LEMMA LocalTyped ==
  ASSUME TypeInv, NEW s \in Stations, NEW r, Typed(r), NEW again \in BOOLEAN, Local(s, r, again)
  PROVE  TypeInv'
<1>1. /\ port' = [port EXCEPT ![s] = r] /\ running' \in {s, Nobody}
      /\ UNCHANGED <<PDU_Queue, Receive_Packet, bounds>>
  BY DEF Local
<1>2. /\ DOMAIN port' = Stations /\ port' = [u \in Stations |-> port'[u]]
      /\ \A u \in Stations : Typed(port'[u])
  BY <1>1, TypeParts
<1> QED
  BY <1>1, <1>2, TypeParts, TypePartsNext DEF bounds

LEMMA TransmitTyped ==
  ASSUME TypeInv, NEW s \in Stations, NEW f \in Frames, NEW r, Typed(r), Transmit(s, f, r)
  PROVE  /\ DOMAIN port' = Stations /\ port' = [u \in Stations |-> port'[u]]
         /\ \A u \in Stations : Typed(port'[u])
         /\ running' = Nobody /\ troubles' \in 0 .. MaxTroubles
         /\ UNCHANGED <<switches, requests>>
<1>1. PICK hurt \in SUBSET (Stations \ {s}), damage \in Damages :
        /\ hurt # {} => TroubleLeft
        /\ troubles' = IF hurt = {} THEN troubles ELSE troubles + 1
        /\ port' = [t \in Stations |->
                      IF t = s THEN [r EXCEPT !.silence = 0]
                      ELSE IF t \notin hurt THEN Hear(port[t], t, f)
                      ELSE IF damage = "garbled"
                           THEN Hear(port[t], t, [f EXCEPT !.type = "Invalid"])
                      ELSE port[t]]
        /\ running' = Nobody
        /\ UNCHANGED <<switches, requests>>
  BY Zenon DEF Transmit
<1>2. troubles' \in 0 .. MaxTroubles
  <2>1. troubles \in 0 .. MaxTroubles /\ MaxTroubles \in Nat
    BY TypeParts, Limits
  <2>2. troubles' = troubles \/ (troubles < MaxTroubles /\ troubles' = troubles + 1)
    BY <1>1 DEF TroubleLeft
  <2> QED
    BY <2>1, <2>2
<1>3. Typed([r EXCEPT !.silence = 0])
  <2>1. 0 \in 0 .. Horizon
    BY Slots
  <2> QED
    BY <2>1 DEF Typed, Ports
<1>4. [f EXCEPT !.type = "Invalid"] \in Frames
  BY DEF Frames, FrameTypes
<1>5. ASSUME NEW u \in Stations
      PROVE  Typed(port'[u])
  <2>1. Typed(Hear(port[u], u, f)) /\ Typed(Hear(port[u], u, [f EXCEPT !.type = "Invalid"]))
    BY <1>4, HearTyped, TypeParts
  <2>2. \/ port'[u] = [r EXCEPT !.silence = 0] \/ port'[u] = Hear(port[u], u, f)
        \/ port'[u] = Hear(port[u], u, [f EXCEPT !.type = "Invalid"]) \/ port'[u] = port[u]
    BY <1>1, Zenon
  <2> QED
    BY <1>3, <2>1, <2>2, TypeParts
<1>6. DOMAIN port' = Stations /\ port' = [u \in Stations |-> port'[u]]
  BY <1>1
<1> QED
  BY <1>1, <1>2, <1>5, <1>6

LEMMA SendTyped ==
  ASSUME TypeInv, NEW s \in Stations, NEW type \in FrameTypes, NEW to \in Stations,
         NEW r, Typed(r), Send(s, type, to, r)
  PROVE  TypeInv'
<1>1. /\ Transmit(s, Frame(type, to, s), r) /\ UNCHANGED <<PDU_Queue, Receive_Packet>>
      /\ Frame(type, to, s) \in Frames
  BY FrameTyped DEF Send
<1>2. /\ DOMAIN port' = Stations /\ port' = [u \in Stations |-> port'[u]]
      /\ \A u \in Stations : Typed(port'[u])
      /\ running' = Nobody /\ troubles' \in 0 .. MaxTroubles
      /\ UNCHANGED <<switches, requests>>
  BY <1>1, TransmitTyped
<1> QED
  BY <1>1, <1>2, TypeParts, TypePartsNext

LEMMA PollTyped ==
  ASSUME TypeInv, NEW s \in Stations, NEW t \in Stations, NEW r, Typed(r), Poll(s, t, r)
  PROVE  TypeInv'
<1> DEFINE q == [r EXCEPT !.Poll_Station = t, !.RetryCount = 0, !.master_state = "POLL_FOR_MASTER"]
<1>1. Typed(q)
  BY Ranges DEF Typed, Ports, States
<1>2. Send(s, "PollForMaster", t, q)
  BY DEF Poll
<1> QED
  BY <1>1, <1>2, SendTyped DEF FrameTypes

LEMMA PassTyped ==
  ASSUME TypeInv, NEW s \in Stations, NEW r, Typed(r), PassToken(s, r)
  PROVE  TypeInv'
<1> DEFINE q == [r EXCEPT !.RetryCount = 0, !.Heard = FALSE, !.master_state = "PASS_TOKEN"]
<1>1. Typed(q)
  BY Ranges DEF Typed, Ports, States
<1>2. Send(s, "Token", r.Next_Station, q) /\ r.Next_Station \in Stations
  BY PortFields DEF PassToken, Typed
<1> QED
  BY <1>1, <1>2, SendTyped DEF FrameTypes

LEMMA FrameFields ==
  \A f \in Frames : f.type \in FrameTypes /\ f.to \in Stations /\ f.from \in Stations
BY DEF Frames

(* Each transition keeps the types.                                        *)
LEMMA QuietTyped ==
  ASSUME TypeInv, NEW s \in Stations,
         \/ DoneInitializing(s) \/ LostToken(s) \/ IgnoredFrame(s) \/ ReceivedToken(s)
         \/ NothingToSend(s) \/ ReplyTimeout(s) \/ InvalidFrame(s) \/ UnexpectedWhileWaiting(s)
         \/ SendAnotherFrame(s) \/ SoleMaster(s) \/ SawTokenUser(s) \/ SawFrame(s)
         \/ UnexpectedWhilePolling(s) \/ SoleMasterAgain(s) \/ DeclareSoleMaster(s)
  PROVE  TypeInv'
<1> DEFINE p == port[s]
<1>1. Typed(p) /\ p \in Ports
  BY TypeParts DEF Typed
<1>2. CASE DoneInitializing(s)
  <2> DEFINE r == [p EXCEPT !.Next_Station = s, !.Poll_Station = s, !.TokenCount = Npoll,
                            !.SoleMaster = FALSE, !.master_state = "IDLE"]
  <2>1. Typed(r)
    BY <1>1, Ranges DEF Typed, Ports, States
  <2> QED
    BY <1>2, <2>1, LocalTyped DEF DoneInitializing
<1>3. CASE LostToken(s)
  <2> DEFINE r == [p EXCEPT !.Heard = FALSE, !.rx = Nobody, !.master_state = "NO_TOKEN"]
  <2>1. Typed(r)
    BY <1>1 DEF Typed, Ports, States
  <2> QED
    BY <1>3, <2>1, LocalTyped DEF LostToken
<1>4. CASE IgnoredFrame(s)
  <2>1. Typed(Cleared(s))
    BY <1>1, <1>4 DEF Typed, Ports, Cleared, IgnoredFrame, Idle, In
  <2> QED
    BY <1>4, <2>1, LocalTyped DEF IgnoredFrame
<1>5. CASE ReceivedToken(s)
  <2> DEFINE r == [Cleared(s) EXCEPT !.FrameCount = 0, !.SoleMaster = FALSE,
                                     !.master_state = "USE_TOKEN"]
  <2>1. Typed(r)
    BY <1>1, Ranges DEF Typed, Ports, States, Cleared
  <2> QED
    BY <1>5, <2>1, LocalTyped DEF ReceivedToken
<1>6. CASE NothingToSend(s) \/ ReplyTimeout(s)
  <2> DEFINE r == [p EXCEPT !.FrameCount = Nmax_info_frames, !.master_state = "DONE_WITH_TOKEN"]
  <2>1. Typed(r)
    BY <1>1, Ranges DEF Typed, Ports, States
  <2> QED
    BY <1>6, <2>1, LocalTyped DEF NothingToSend, ReplyTimeout
<1>7. CASE InvalidFrame(s)
  <2>1. Typed([Cleared(s) EXCEPT !.master_state = "DONE_WITH_TOKEN"])
    BY <1>1 DEF Typed, Ports, States, Cleared
  <2> QED
    BY <1>7, <2>1, LocalTyped DEF InvalidFrame
<1>8. CASE UnexpectedWhileWaiting(s) \/ UnexpectedWhilePolling(s)
  <2>1. Typed([Cleared(s) EXCEPT !.master_state = "IDLE"])
    BY <1>1 DEF Typed, Ports, States, Cleared
  <2> QED
    BY <1>8, <2>1, LocalTyped DEF UnexpectedWhileWaiting, UnexpectedWhilePolling
<1>9. CASE SendAnotherFrame(s)
  <2>1. Typed([p EXCEPT !.master_state = "USE_TOKEN"])
    BY <1>1, <1>9 DEF Typed, Ports, States, SendAnotherFrame
  <2> QED
    BY <1>9, <2>1, LocalTyped DEF SendAnotherFrame
<1>10. CASE SoleMaster(s)
  <2> DEFINE r == [p EXCEPT !.FrameCount = 0, !.TokenCount = p.TokenCount + 1,
                            !.master_state = "USE_TOKEN"]
  <2>1. p.TokenCount + 1 \in 0 .. Npoll
    <3>1. p.TokenCount \in 0 .. Npoll /\ p.TokenCount < Npoll - 1 /\ Npoll \in Nat
      BY <1>1, <1>10, PortFields, Limits DEF SoleMaster
    <3> QED
      BY <3>1
  <2>2. Typed(r)
    BY <1>1, <2>1, Ranges DEF Typed, Ports, States
  <2> QED
    BY <1>10, <2>2, LocalTyped DEF SoleMaster
<1>11. CASE SawTokenUser(s) \/ SawFrame(s)
  <2>1. Typed([p EXCEPT !.master_state = "IDLE"])
    BY <1>1 DEF Typed, Ports, States
  <2> QED
    BY <1>11, <2>1, LocalTyped DEF SawTokenUser, SawFrame
<1>12. CASE SoleMasterAgain(s)
  <2>1. Typed([Cleared(s) EXCEPT !.FrameCount = 0, !.master_state = "USE_TOKEN"])
    BY <1>1, Ranges DEF Typed, Ports, States, Cleared
  <2> QED
    BY <1>12, <2>1, LocalTyped DEF SoleMasterAgain
<1>13. CASE DeclareSoleMaster(s)
  <2>1. Typed([Cleared(s) EXCEPT !.SoleMaster = TRUE, !.FrameCount = 0,
                                 !.master_state = "USE_TOKEN"])
    BY <1>1, Ranges DEF Typed, Ports, States, Cleared
  <2> QED
    BY <1>13, <2>1, LocalTyped DEF DeclareSoleMaster
<1> QED
  BY <1>2, <1>3, <1>4, <1>5, <1>6, <1>7, <1>8, <1>9, <1>10, <1>11, <1>12, <1>13

LEMMA TailTyped ==
  ASSUME TypeInv, NEW s \in Stations, PDU_Queue[s] # <<>>,
         PDU_Queue' = [PDU_Queue EXCEPT ![s] = Tail(@)]
  PROVE  /\ DOMAIN PDU_Queue' = Stations
         /\ \A u \in Stations : PDU_Queue'[u] \in Seq(Packets) /\ Len(PDU_Queue'[u]) <= QueueLen
         /\ Head(PDU_Queue[s]) \in Packets
<1>1. /\ DOMAIN PDU_Queue = Stations
      /\ \A u \in Stations : PDU_Queue[u] \in Seq(Packets) /\ Len(PDU_Queue[u]) <= QueueLen
  BY TypeParts
<1>2. /\ Head(PDU_Queue[s]) \in Packets /\ Tail(PDU_Queue[s]) \in Seq(Packets)
      /\ Len(Tail(PDU_Queue[s])) = Len(PDU_Queue[s]) - 1
  BY <1>1, HeadTailProperties
<1>3. Len(PDU_Queue[s]) \in Nat /\ QueueLen \in Nat
  BY <1>1, LenProperties, Limits
<1> QED
  BY <1>1, <1>2, <1>3

LEMMA AnswerTyped ==
  ASSUME TypeInv, NEW s \in Stations, ReceivedPFM(s) \/ Reply(s) \/ DeferredReply(s) \/ UseToken(s)
  PROVE  TypeInv'
<1> DEFINE p == port[s]
<1>1. Typed(p) /\ p \in Ports
  BY TypeParts DEF Typed
<1>2. CASE ReceivedPFM(s)
  <2>1. Typed(Cleared(s))
    BY <1>1, <1>2 DEF Typed, Ports, Cleared, ReceivedPFM, Idle, In
  <2>2. p.rx.from \in Stations
    BY <1>1, <1>2, PortFields, FrameFields DEF ReceivedPFM, Got
  <2> QED
    BY <1>2, <2>1, <2>2, SendTyped DEF ReceivedPFM, FrameTypes
<1>3. CASE Reply(s) \/ DeferredReply(s)
  <2> DEFINE r == [Cleared(s) EXCEPT !.master_state = "IDLE"]
  <2>1. Typed(r)
    BY <1>1 DEF Typed, Ports, States, Cleared
  <2>2. p.rx.from \in Stations
    BY <1>1, <1>3, PortFields, FrameFields DEF Reply, DeferredReply, In, Typed
  <2>3. CASE DeferredReply(s)
    BY <2>1, <2>2, <2>3, SendTyped DEF DeferredReply, FrameTypes
  <2>4. CASE Reply(s)
    <3>1. /\ Transmit(s, Frame("Data", p.rx.from, s), r) /\ Frame("Data", p.rx.from, s) \in Frames
          /\ PDU_Queue' = [PDU_Queue EXCEPT ![s] = Tail(@)] /\ PDU_Queue[s] # <<>>
          /\ UNCHANGED Receive_Packet
      BY <2>2, <2>4, FrameTyped DEF Reply, ReplyReady, FrameTypes
    <3>2. /\ DOMAIN port' = Stations /\ port' = [u \in Stations |-> port'[u]]
          /\ \A u \in Stations : Typed(port'[u])
          /\ running' = Nobody /\ troubles' \in 0 .. MaxTroubles
          /\ UNCHANGED <<switches, requests>>
      BY <2>1, <3>1, TransmitTyped
    <3> QED
      BY <3>1, <3>2, TailTyped, TypeParts, TypePartsNext
  <2> QED
    BY <1>3, <2>3, <2>4
<1>4. CASE UseToken(s)
  <2> DEFINE pkt == Head(PDU_Queue[s])
             f == Frame(IF pkt.reply THEN "Data" ELSE "Request", pkt.to, s)
             state == IF pkt.reply THEN "DONE_WITH_TOKEN" ELSE "WAIT_FOR_REPLY"
             r == [p EXCEPT !.FrameCount = p.FrameCount + 1, !.master_state = state]
  <2>1. /\ Transmit(s, f, r) /\ PDU_Queue' = [PDU_Queue EXCEPT ![s] = Tail(@)]
        /\ PDU_Queue[s] # <<>> /\ UNCHANGED Receive_Packet /\ p.master_state = "USE_TOKEN"
    BY <1>4 DEF UseToken, In
  <2>2. pkt \in Packets
    BY <2>1, TailTyped
  <2>3. f \in Frames
    <3>1. pkt.to \in Stations
      BY <2>2 DEF Packets
    <3> HIDE DEF pkt
    <3> QED
      BY <3>1, FrameTyped DEF FrameTypes
  <2>4. p.FrameCount + 1 \in 0 .. Nmax_info_frames
    <3>1. p.FrameCount \in 0 .. Nmax_info_frames /\ p.FrameCount < Nmax_info_frames
      BY <1>1, <2>1, PortFields DEF Typed
    <3> QED
      BY <3>1, Limits
  <2>5. Typed(r)
    <3>1. state \in States \ {"USE_TOKEN", "ANSWER_DATA_REQUEST"}
      BY DEF States
    <3> HIDE DEF state
    <3> QED
      BY <1>1, <2>4, <3>1 DEF Typed, Ports
  <2> HIDE DEF f, r, pkt
  <2>6. /\ DOMAIN port' = Stations /\ port' = [u \in Stations |-> port'[u]]
        /\ \A u \in Stations : Typed(port'[u])
        /\ running' = Nobody /\ troubles' \in 0 .. MaxTroubles
        /\ UNCHANGED <<switches, requests>>
    BY <2>1, <2>3, <2>5, TransmitTyped
  <2> QED
    BY <2>1, <2>6, TailTyped, TypeParts, TypePartsNext
<1> QED
  BY <1>2, <1>3, <1>4

LEMMA TokenTyped ==
  ASSUME TypeInv, NEW s \in Stations,
         \/ NextStationUnknown(s) \/ SendToken(s)
         \/ SoleMasterRestartMaintenancePFM(s) \/ ResetMaintenancePFM(s) \/ SendMaintenancePFM(s)
         \/ RetrySendToken(s) \/ FindNewSuccessor(s) \/ GenerateToken(s)
         \/ ReceivedReplyToPFM(s) \/ DoneWithPFM(s) \/ SendNextPFM(s)
  PROVE  TypeInv'
<1> DEFINE p == port[s]
<1>1. Typed(p) /\ p \in Ports
  BY TypeParts DEF Typed
<1>2. /\ p.Next_Station \in Stations /\ p.Poll_Station \in Stations
      /\ \A a \in Stations : After(a) \in Stations
  BY <1>1, PortFields, AfterStation
<1>3. CASE NextStationUnknown(s) \/ SendMaintenancePFM(s)
  BY <1>1, <1>2, <1>3, PollTyped DEF NextStationUnknown, SendMaintenancePFM
<1>4. CASE SendToken(s)
  <2> DEFINE r == [p EXCEPT !.TokenCount = p.TokenCount + 1]
  <2>1. p.TokenCount \in 0 .. Npoll /\ p.TokenCount < Npoll - 1 /\ Npoll \in Nat
    BY <1>1, <1>4, PortFields, Limits DEF SendToken
  <2>2. p.TokenCount + 1 \in 0 .. Npoll
    BY <2>1
  <2>3. Typed(r)
    BY <1>1, <2>2 DEF Typed, Ports
  <2> QED
    BY <1>4, <2>3, PassTyped DEF SendToken
<1>5. CASE SoleMasterRestartMaintenancePFM(s)
  <2>1. Typed([p EXCEPT !.Next_Station = s, !.TokenCount = 1])
    BY <1>1, Ranges DEF Typed, Ports
  <2> QED
    BY <1>2, <1>5, <2>1, PollTyped DEF SoleMasterRestartMaintenancePFM
<1>6. CASE ResetMaintenancePFM(s)
  <2>1. Typed([p EXCEPT !.Poll_Station = s, !.TokenCount = 1])
    BY <1>1, Ranges DEF Typed, Ports
  <2> QED
    BY <1>6, <2>1, PassTyped DEF ResetMaintenancePFM
<1>7. CASE RetrySendToken(s)
  <2> DEFINE r == [p EXCEPT !.RetryCount = p.RetryCount + 1, !.Heard = FALSE]
  <2>1. p.RetryCount \in 0 .. Nretry_token /\ p.RetryCount < Nretry_token /\ Nretry_token \in Nat
    BY <1>1, <1>7, PortFields, Limits DEF RetrySendToken
  <2>2. p.RetryCount + 1 \in 0 .. Nretry_token
    BY <2>1
  <2>3. Typed(r)
    BY <1>1, <2>2 DEF Typed, Ports
  <2> QED
    BY <1>2, <1>7, <2>3, SendTyped DEF RetrySendToken, FrameTypes
<1>8. CASE FindNewSuccessor(s) \/ GenerateToken(s)
  <2>1. Typed([p EXCEPT !.Next_Station = s, !.TokenCount = 0])
    BY <1>1, Ranges DEF Typed, Ports
  <2> QED
    BY <1>2, <1>8, <2>1, PollTyped DEF FindNewSuccessor, GenerateToken
<1>9. CASE ReceivedReplyToPFM(s)
  <2> DEFINE r == [Cleared(s) EXCEPT !.SoleMaster = FALSE, !.Next_Station = p.rx.from,
                                     !.Poll_Station = s, !.TokenCount = 0]
  <2>1. p.rx.from \in Stations
    BY <1>1, <1>9, PortFields, FrameFields DEF ReceivedReplyToPFM, Got
  <2>2. Typed(r)
    BY <1>1, <1>9, <2>1, Ranges DEF Typed, Ports, Cleared, ReceivedReplyToPFM, In
  <2> QED
    BY <1>9, <2>2, PassTyped DEF ReceivedReplyToPFM
<1>10. CASE DoneWithPFM(s) \/ SendNextPFM(s)
  <2>1. Typed(Cleared(s))
    BY <1>1, <1>10 DEF Typed, Ports, Cleared, DoneWithPFM, SendNextPFM, Unanswered, In
  <2> QED
    BY <1>2, <1>10, <2>1, PassTyped, PollTyped DEF DoneWithPFM, SendNextPFM
<1> QED
  BY <1>3, <1>4, <1>5, <1>6, <1>7, <1>8, <1>9, <1>10

LEMMA PutTyped ==
  ASSUME TypeInv, NEW s \in Stations, port[s].rx # Nobody, PutReceive(s)
  PROVE  Receive_Packet' \in [Stations -> Frames \cup {Nobody}]
<1>1. Receive_Packet \in [Stations -> Frames \cup {Nobody}] /\ port[s].rx \in Frames \cup {Nobody}
  BY TypeParts, PortFields DEF Typed
<1> QED
  BY <1>1 DEF PutReceive

LEMMA ReceivedTyped ==
  ASSUME TypeInv, NEW s \in Stations,
         ReceivedDataNoReply(s) \/ ReceivedDataNeedingReply(s) \/ ReceivedReply(s)
  PROVE  TypeInv'
<1> DEFINE p == port[s]
<1>1. Typed(p) /\ p \in Ports
  BY TypeParts DEF Typed
<1>2. /\ ReceivedDataNoReply(s) => Typed(Cleared(s))
      /\ ReceivedDataNeedingReply(s) => Typed([p EXCEPT !.master_state = "ANSWER_DATA_REQUEST"])
      /\ Typed([Cleared(s) EXCEPT !.master_state = "DONE_WITH_TOKEN"])
  BY <1>1 DEF Typed, Ports, States, Cleared, ReceivedDataNoReply, ReceivedDataNeedingReply, Idle,
              In, Got
<1>3. PICK r : /\ Typed(r) /\ port' = [port EXCEPT ![s] = r] /\ running' \in {s, Nobody}
               /\ UNCHANGED <<PDU_Queue, troubles, switches, requests>>
  BY <1>2, Zenon DEF ReceivedDataNoReply, ReceivedDataNeedingReply, ReceivedReply, bounds
<1>4. Receive_Packet' \in [Stations -> Frames \cup {Nobody}]
  <2>1. p.rx # Nobody
    BY DEF ReceivedDataNoReply, ReceivedDataNeedingReply, ReceivedReply, Got
  <2>2. PutReceive(s) \/ UNCHANGED Receive_Packet
    BY DEF ReceivedDataNoReply, ReceivedDataNeedingReply, ReceivedReply
  <2> QED
    BY <2>1, <2>2, PutTyped, TypeParts
<1>5. /\ DOMAIN port' = Stations /\ port' = [u \in Stations |-> port'[u]]
      /\ \A u \in Stations : Typed(port'[u])
  BY <1>3, TypeParts
<1> QED
  BY <1>3, <1>4, <1>5, TypeParts, TypePartsNext

LEMMA FreshTyped ==
  ASSUME NEW s \in Stations
  PROVE  Typed(Fresh(s)) /\ Typed(Off(s))
<1>1. <<>> \in Seq(Frames) /\ 0 \in 0 .. Horizon
  BY Slots, EmptySeq
<1> QED
  BY <1>1, Ranges DEF Fresh, Off, Typed, Ports, States

LEMMA EnqueueTyped ==
  ASSUME TypeInv, NEW s \in Stations, NEW packet \in Packets, Enqueue(s, packet)
  PROVE  /\ DOMAIN PDU_Queue' = Stations
         /\ \A u \in Stations : PDU_Queue'[u] \in Seq(Packets) /\ Len(PDU_Queue'[u]) <= QueueLen
<1> DEFINE q == IF Len(PDU_Queue[s]) < QueueLen THEN Append(PDU_Queue[s], packet) ELSE PDU_Queue[s]
<1>1. /\ DOMAIN PDU_Queue = Stations /\ PDU_Queue' = [PDU_Queue EXCEPT ![s] = q]
      /\ \A u \in Stations : PDU_Queue[u] \in Seq(Packets) /\ Len(PDU_Queue[u]) <= QueueLen
  BY TypeParts DEF Enqueue
<1>2. /\ Append(PDU_Queue[s], packet) \in Seq(Packets)
      /\ Len(Append(PDU_Queue[s], packet)) = Len(PDU_Queue[s]) + 1
  BY <1>1, AppendProperties
<1>3. Len(PDU_Queue[s]) \in Nat /\ QueueLen \in Nat
  BY <1>1, LenProperties, Limits
<1>4. q \in Seq(Packets) /\ Len(q) <= QueueLen
  BY <1>1, <1>2, <1>3
<1> HIDE DEF q
<1> QED
  BY <1>1, <1>4

LEMMA TickTyped ==
  ASSUME TypeInv, Tick
  PROVE  TypeInv'
<1>1. troubles' \in 0 .. MaxTroubles
  <2>1. troubles \in 0 .. MaxTroubles /\ MaxTroubles \in Nat
    BY TypeParts, Limits
  <2>2. troubles' = troubles \/ (troubles < MaxTroubles /\ troubles' = troubles + 1)
    BY DEF Tick, TroubleLeft
  <2> QED
    BY <2>1, <2>2
<1>2. ASSUME NEW u \in Stations
      PROVE  Typed(port'[u])
  <2>1. Typed(port[u])
    BY TypeParts
  <2>2. CASE port[u].on /\ port[u].silence < Horizon
    <3>1. port'[u] = [port[u] EXCEPT !.silence = port[u].silence + 1]
      BY <2>2 DEF Tick
    <3>2. port[u].silence \in 0 .. Horizon /\ Horizon \in Nat
      BY <2>1, PortFields, Slots DEF Typed
    <3>3. port[u].silence + 1 \in 0 .. Horizon
      BY <2>2, <3>2
    <3> QED
      BY <2>1, <3>1, <3>3 DEF Typed, Ports
  <2>3. CASE ~(port[u].on /\ port[u].silence < Horizon)
    BY <2>1, <2>3 DEF Tick
  <2> QED
    BY <2>2, <2>3
<1>3. DOMAIN port' = Stations /\ port' = [u \in Stations |-> port'[u]]
  BY DEF Tick
<1> QED
  BY <1>1, <1>2, <1>3, TypeParts, TypePartsNext DEF Tick

LEMMA AroundTyped ==
  ASSUME TypeInv, NEW s \in Stations, NEW t \in Stations,
         Ask(s, t) \/ Application(s) \/ Switch(s) \/ NoTransition(s) \/ ReadFrame(s)
  PROVE  TypeInv'
<1>1. CASE Ask(s, t)
  <2>1. Packet(t, FALSE) \in Packets /\ Enqueue(s, Packet(t, FALSE))
    BY <1>1 DEF Packet, Packets, Ask
  <2>2. requests' \in 0 .. MaxRequests
    <3>1. requests \in 0 .. MaxRequests /\ MaxRequests \in Nat
      BY TypeParts, Limits
    <3> QED
      BY <1>1, <3>1 DEF Ask
  <2> QED
    BY <1>1, <2>1, <2>2, EnqueueTyped, TypeParts, TypePartsNext DEF Ask
<1>2. CASE Application(s)
  <2>1. /\ Receive_Packet[s] \in Frames /\ Nobody \in Frames \cup {Nobody}
        /\ Receive_Packet' = [Receive_Packet EXCEPT ![s] = Nobody]
    BY <1>2, TypeParts DEF Application
  <2>2. Receive_Packet' \in [Stations -> Frames \cup {Nobody}]
    BY <2>1, TypeParts
  <2>3. Packet(Receive_Packet[s].from, TRUE) \in Packets
    BY <2>1, FrameFields DEF Packet, Packets
  <2>4. /\ DOMAIN PDU_Queue' = Stations
        /\ \A u \in Stations : PDU_Queue'[u] \in Seq(Packets) /\ Len(PDU_Queue'[u]) <= QueueLen
    BY <1>2, <2>3, EnqueueTyped, TypeParts DEF Application
  <2> QED
    BY <1>2, <2>2, <2>4, TypeParts, TypePartsNext DEF Application, bounds
<1>3. CASE Switch(s)
  <2>1. switches' \in 0 .. MaxSwitches
    <3>1. switches \in 0 .. MaxSwitches /\ MaxSwitches \in Nat
      BY TypeParts, Limits
    <3> QED
      BY <1>3, <3>1 DEF Switch
  <2>2. /\ DOMAIN port' = Stations /\ port' = [u \in Stations |-> port'[u]]
        /\ \A u \in Stations : Typed(port'[u])
    BY <1>3, TypeParts, FreshTyped DEF Switch
  <2>3. /\ DOMAIN PDU_Queue' = Stations
        /\ \A u \in Stations : PDU_Queue'[u] \in Seq(Packets) /\ Len(PDU_Queue'[u]) <= QueueLen
    <3>1. <<>> \in Seq(Packets) /\ Len(<<>>) = 0 /\ 0 <= QueueLen
      BY Limits, EmptySeq
    <3> QED
      BY <1>3, <3>1, TypeParts DEF Switch
  <2>4. Receive_Packet' \in [Stations -> Frames \cup {Nobody}]
    BY <1>3, TypeParts DEF Switch
  <2> QED
    BY <1>3, <2>1, <2>2, <2>3, <2>4, TypeParts, TypePartsNext DEF Switch
<1>4. CASE NoTransition(s)
  BY <1>4, TypeParts, TypePartsNext DEF NoTransition, bounds
<1>5. CASE ReadFrame(s)
  <2> DEFINE p == [port[s] EXCEPT !.fifo = Tail(port[s].fifo)]
             f == Head(port[s].fifo)
             rx == IF f.type = "Invalid" \/ f.to = s THEN f ELSE p.rx
  <2>1. /\ Typed(port[s]) /\ port[s].rx = Nobody /\ port[s].fifo # <<>>
        /\ port' = [port EXCEPT ![s] = Consume(p, s, f)]
        /\ UNCHANGED <<PDU_Queue, Receive_Packet, running, troubles, switches, requests>>
    <3>1. /\ Typed(port[s]) /\ port[s].rx = Nobody /\ port[s].fifo # <<>>
          /\ UNCHANGED <<PDU_Queue, Receive_Packet, running, troubles, switches, requests>>
      BY <1>5, TypeParts DEF ReadFrame, bounds
    <3>2. port' = [port EXCEPT ![s] = Consume(p, s, f)]
      BY <1>5 DEF ReadFrame
    <3> QED
      BY <3>1, <3>2
  <2>2. f \in Frames /\ Tail(port[s].fifo) \in Seq(Frames)
    BY <2>1, PortFields, HeadTailProperties DEF Typed
  <2>3. p \in Ports /\ p.master_state # "ANSWER_DATA_REQUEST"
        /\ (p.master_state = "USE_TOKEN" => p.FrameCount < Nmax_info_frames)
    BY <2>1, <2>2 DEF Typed, Ports
  <2>4. rx \in Frames \cup {Nobody} /\ 0 \in 0 .. Horizon
    <3>1. rx = f \/ rx = p.rx
      OBVIOUS
    <3>2. p.rx \in Frames \cup {Nobody}
      BY <2>3, PortFields
    <3> HIDE DEF rx, p, f
    <3> QED
      BY <2>2, <3>1, <3>2, Slots
  <2>5. Consume(p, s, f) = [p EXCEPT !.Heard = TRUE, !.silence = 0, !.rx = rx]
    BY DEF Consume
  <2> HIDE DEF p, f, rx
  <2>6. Typed(Consume(p, s, f))
    BY <2>3, <2>4, <2>5 DEF Typed, Ports
  <2>7. /\ DOMAIN port' = Stations /\ port' = [u \in Stations |-> port'[u]]
        /\ \A u \in Stations : Typed(port'[u])
    BY <2>1, <2>6, TypeParts
  <2> QED
    BY <2>1, <2>7, TypeParts, TypePartsNext
<1> QED
  BY <1>1, <1>2, <1>3, <1>4, <1>5

LEMMA InitTyped == Init => TypeInv
<1> SUFFICES ASSUME Init PROVE TypeInv
  OBVIOUS
<1>1. PICK up \in SUBSET Stations :
        port = [s \in Stations |-> IF s \in up THEN Fresh(s) ELSE Off(s)]
  BY DEF Init
<1>2. /\ DOMAIN port = Stations /\ port = [s \in Stations |-> port[s]]
      /\ \A s \in Stations : Typed(port[s])
  BY <1>1, FreshTyped
<1>3. <<>> \in Seq(Packets) /\ Len(<<>>) = 0 /\ 0 <= QueueLen
  BY Limits, EmptySeq
<1>4. 0 \in 0 .. MaxTroubles /\ 0 \in 0 .. MaxSwitches /\ 0 \in 0 .. MaxRequests
  BY Limits
<1> QED
  BY <1>2, <1>3, <1>4, TypeParts DEF Init

LEMMA NextTyped == TypeInv /\ [Next]_vars => TypeInv'
<1> SUFFICES ASSUME TypeInv, [Next]_vars PROVE TypeInv'
  OBVIOUS
<1>1. CASE UNCHANGED vars
  BY <1>1, TypeParts, TypePartsNext DEF vars, bounds
<1>2. CASE Tick
  BY <1>2, TickTyped
<1>3. ASSUME NEW s \in Stations, NEW t \in Stations, Ask(s, t) \/ Application(s) \/ Switch(s)
      PROVE  TypeInv'
  BY <1>3, AroundTyped
<1>4. ASSUME NEW s \in Stations, Step(s)
      PROVE  TypeInv'
  BY <1>4, QuietTyped, AnswerTyped, TokenTyped, ReceivedTyped, AroundTyped DEF Step
<1> QED
  BY <1>1, <1>2, <1>3, <1>4 DEF Next

-----------------------------------------------------------------------------
(* While every frame arrives and no node stalls.                           *)

Has(p, type) == p.rx # Nobody /\ p.rx.type = type
Asked(p) == Has(p, "Token") \/ Has(p, "PollForMaster") \/ Has(p, "Request")
Holds(p) ==
  p.master_state \in {"USE_TOKEN", "WAIT_FOR_REPLY", "DONE_WITH_TOKEN", "POLL_FOR_MASTER"}
Passes(p) == p.master_state = "PASS_TOKEN" /\ ~p.Heard

(* The node has the token, watches the one it sent, or has to answer.      *)
Busy(p) == Asked(p) \/ Holds(p) \/ Passes(p)

(* Port p waits for what the node of port q has just been given.          *)
Leads(p, q) ==
  /\ p.rx = Nobody
  /\ \/ /\ Passes(p) /\ p.silence = 0
        /\ Has(q, "Token") \/ q.master_state \in {"USE_TOKEN", "DONE_WITH_TOKEN"}
     \/ /\ p.master_state = "POLL_FOR_MASTER" /\ p.silence = 0
        /\ Has(q, "PollForMaster") /\ ~Holds(q)
     \/ /\ p.master_state = "WAIT_FOR_REPLY"
        /\ Has(q, "Request") /\ ~Holds(q)

(* What a state of the master machine says of the frame it has and of the  *)
(* silence it has seen: nothing waits in the FIFO, a frame is dealt with   *)
(* before time passes, and no wait outlasts its limit.                     *)
Proper(p) ==
  /\ p.fifo = <<>>
  /\ p.master_state \in {"INITIALIZE", "USE_TOKEN", "DONE_WITH_TOKEN"} => p.rx = Nobody
  /\ p.master_state \in {"PASS_TOKEN", "NO_TOKEN"} /\ ~p.Heard => p.rx = Nobody
  /\ p.master_state = "ANSWER_DATA_REQUEST" =>
       Has(p, "Request") /\ p.silence <= Treply_delay + 1
  /\ p.rx # Nobody /\ p.master_state # "ANSWER_DATA_REQUEST" => p.silence = 0
  /\ p.master_state = "PASS_TOKEN" /\ p.Heard => p.silence = 0
  /\ p.master_state = "INITIALIZE" => p.silence = 0
  /\ p.master_state \in {"PASS_TOKEN", "POLL_FOR_MASTER"} => p.silence <= Tusage_timeout + 1
  /\ Holds(p) => p.silence <= Treply_timeout

AllProper == \A s \in Live : Proper(port[s])

(* Nobody has seen a longer silence than a busy node.                      *)
Ordered == \A y, u \in Live : Busy(port[y]) => port[u].silence <= port[y].silence

(* Of two busy nodes one waits for the other.                              *)
Paired ==
  \A y, z \in Live : y # z /\ Busy(port[y]) /\ Busy(port[z]) =>
    Leads(port[y], port[z]) \/ Leads(port[z], port[y])

(* The node inside its loop does not talk over one that has to finish.     *)
OthersDone(s) == \A t \in Live \ {s} : Resting(t) \/ Talks(t)
RunQuiet == running # Nobody => running \in Live /\ (Talks(running) => OthersDone(running))

(* While no node is switched, the asker of a request waits for the answer. *)
WaitsOpen(p) == p.master_state = "WAIT_FOR_REPLY" /\ p.rx = Nobody
Awaited ==
  switches = 0 => \A t \in Live : Has(port[t], "Request") =>
                    port[t].rx.from \in Live /\ WaitsOpen(port[port[t].rx.from])

Calm == AllProper /\ Ordered /\ Paired /\ RunQuiet /\ Awaited

IInv == TypeInv /\ (troubles = 0 => Calm)

LEMMA LiveNext == Live' = {s \in Stations : port'[s].on}
BY DEF Live

LEMMA CalmNext ==
  /\ \A s \in Live' : Proper(port'[s])
  /\ \A y, u \in Live' : Busy(port'[y]) => port'[u].silence <= port'[y].silence
  /\ \A y, z \in Live' : y # z /\ Busy(port'[y]) /\ Busy(port'[z]) =>
       Leads(port'[y], port'[z]) \/ Leads(port'[z], port'[y])
  /\ RunQuiet'
  /\ switches' = 0 => \A t \in Live' : Has(port'[t], "Request") =>
       port'[t].rx.from \in Live' /\ WaitsOpen(port'[port'[t].rx.from])
  => Calm'
<1>1. AllProper' <=> \A s \in Live' : Proper(port'[s])
  BY DEF AllProper
<1>2. Ordered' <=> \A y, u \in Live' : Busy(port'[y]) => port'[u].silence <= port'[y].silence
  BY DEF Ordered
<1>3. Paired' <=> \A y, z \in Live' : y # z /\ Busy(port'[y]) /\ Busy(port'[z]) =>
                    Leads(port'[y], port'[z]) \/ Leads(port'[z], port'[y])
  BY DEF Paired
<1>4. Awaited' <=> (switches' = 0 => \A t \in Live' : Has(port'[t], "Request") =>
                      port'[t].rx.from \in Live' /\ WaitsOpen(port'[port'[t].rx.from]))
  BY DEF Awaited
<1> QED
  BY <1>1, <1>2, <1>3, <1>4 DEF Calm

LEMMA SilenceTyped ==
  ASSUME TypeInv, NEW s \in Stations
  PROVE  port[s].silence \in Nat /\ port[s] \in Ports /\ port[s].rx \in Frames \cup {Nobody}
BY TypeParts, PortFields, Slots DEF Typed

(* A busy node has not seen the silence of a lost token.                   *)
LEMMA BusySilence ==
  ASSUME NEW p, p.silence \in Nat, Proper(p), Busy(p)
  PROVE  p.silence <= Treply_timeout /\ p.silence < Tno_token
<1>1. CASE Holds(p)
  BY <1>1, Limits DEF Proper
<1>2. CASE Passes(p)
  BY <1>2, Limits DEF Proper, Passes
<1>3. CASE Asked(p)
  <2>1. p.rx # Nobody
    BY <1>3 DEF Asked, Has
  <2>2. p.silence <= Treply_delay + 1
    BY <2>1, Limits DEF Proper
  <2> QED
    BY <2>2, Limits
<1> QED
  BY <1>1, <1>2, <1>3 DEF Busy

LEMMA SameTalk ==
  ASSUME NEW t, port'[t] = port[t], PDU_Queue' = PDU_Queue
  PROVE  /\ (Resting(t) \/ Talks(t))' <=> (Resting(t) \/ Talks(t))
         /\ Talks(t)' <=> Talks(t)
<1>1. ReplyReady(t)' <=> ReplyReady(t)
  BY DEF ReplyReady
<1>2. MySlot(t)' <=> MySlot(t)
  BY DEF MySlot
<1>3. \A type : (port'[t].rx # Nobody /\ port'[t].rx.type = type)
                <=> (port[t].rx # Nobody /\ port[t].rx.type = type)
  OBVIOUS
<1>4. Settled(t)' <=> Settled(t)
  BY <1>1, <1>2 DEF Settled
<1>5. Talks(t)' <=> Talks(t)
  BY <1>1, <1>2 DEF Talks, Got, Valid
<1> QED
  BY <1>4, <1>5 DEF Resting

(* A transition that sends nothing.                                        *)
LEMMA LocalCalm ==
  ASSUME TypeInv, Calm, NEW s \in Stations, port[s].on, Talks(s) => OthersDone(s),
         NEW r, r.on, Proper(r), r.silence = port[s].silence, r.rx \in {port[s].rx, Nobody},
         Busy(r) => Busy(port[s]),
         \A u \in Live \ {s} : Busy(r) /\ Busy(port[u]) =>
           /\ Leads(port[s], port[u]) => Leads(r, port[u])
           /\ Leads(port[u], port[s]) => Leads(port[u], r),
         WaitsOpen(port[s]) => \A u \in Live \ {s} : ~Asked(port[u]),
         port' = [port EXCEPT ![s] = r], running' \in {s, Nobody},
         running' = s => (Talks(s)' => Talks(s)),
         UNCHANGED <<PDU_Queue, switches>>
  PROVE  Calm'
<1>1. DOMAIN port = Stations /\ s \in Live
  BY TypeParts DEF Live
<1>2. port'[s] = r /\ \A u \in Stations \ {s} : port'[u] = port[u]
  BY <1>1
<1>3. Live' = Live
  <2>1. \A u \in Stations : port'[u].on <=> port[u].on
    BY <1>2
  <2> QED
    BY <2>1, LiveNext DEF Live
<1>4. \A u \in Live : u \in Stations
  BY DEF Live
<1>5. \A u \in Live' : Proper(port'[u])
  BY <1>2, <1>3, <1>4 DEF Calm, AllProper
<1>6. \A u \in Live : (Busy(port'[u]) => Busy(port[u])) /\ port'[u].silence = port[u].silence
  BY <1>2, <1>4
<1>7. \A y, u \in Live' : Busy(port'[y]) => port'[u].silence <= port'[y].silence
  BY <1>3, <1>6 DEF Calm, Ordered
<1>8. ASSUME NEW y \in Live, NEW z \in Live, y # z, Busy(port'[y]), Busy(port'[z])
      PROVE  Leads(port'[y], port'[z]) \/ Leads(port'[z], port'[y])
  <2>1. Leads(port[y], port[z]) \/ Leads(port[z], port[y])
    BY <1>6, <1>8 DEF Calm, Paired
  <2>2. CASE y = s
    <3>1. z # s /\ port'[z] = port[z]
      BY <1>2, <1>4, <1>8, <2>2
    <3>2. Busy(r) /\ Busy(port[z]) /\ port'[y] = r
      BY <1>2, <1>8, <2>2, <3>1
    <3> QED
      BY <2>1, <2>2, <3>1, <3>2
  <2>3. CASE z = s
    <3>1. y # s /\ port'[y] = port[y]
      BY <1>2, <1>4, <1>8, <2>3
    <3>2. Busy(r) /\ Busy(port[y]) /\ port'[z] = r
      BY <1>2, <1>8, <2>3, <3>1
    <3> QED
      BY <2>1, <2>3, <3>1, <3>2
  <2>4. CASE y # s /\ z # s
    BY <1>2, <1>4, <2>1, <2>4
  <2> QED
    BY <2>2, <2>3, <2>4
<1>9. RunQuiet'
  <2>1. ASSUME running' # Nobody
        PROVE  running' \in Live' /\ (Talks(running) => OthersDone(running))'
    <3>1. running' = s
      BY <2>1
    <3>2. ASSUME Talks(s)', NEW t \in Live \ {s}
          PROVE  (Resting(t) \/ Talks(t))'
      <4>1. Resting(t) \/ Talks(t)
        BY <3>1, <3>2 DEF OthersDone
      <4>2. port'[t] = port[t]
        BY <1>2, <1>4
      <4> QED
        BY <4>1, <4>2, SameTalk
    <3>3. Talks(s)' => (OthersDone(s))'
      BY <1>3, <3>2 DEF OthersDone
    <3> QED
      BY <1>1, <1>3, <3>1, <3>3
  <2> QED
    BY <2>1 DEF RunQuiet
<1>10. ASSUME switches' = 0, NEW t \in Live, Has(port'[t], "Request")
       PROVE  port'[t].rx.from \in Live /\ WaitsOpen(port'[port'[t].rx.from])
  <2>1. Has(port[t], "Request") /\ port'[t].rx = port[t].rx
    BY <1>2, <1>4, <1>10 DEF Has
  <2> DEFINE a == port[t].rx.from
  <2>2. a \in Live /\ WaitsOpen(port[a])
    BY <1>10, <2>1 DEF Calm, Awaited
  <2>3. a # s
    <3>1. CASE t = s
      BY <2>1, <2>2, <3>1 DEF WaitsOpen, Has
    <3>2. CASE t # s
      <4>1. Asked(port[t])
        BY <2>1 DEF Asked
      <4> QED
        BY <2>2, <3>2, <4>1
    <3> QED
      BY <3>1, <3>2
  <2> QED
    BY <1>2, <1>4, <2>1, <2>2, <2>3
<1> QED
  BY <1>3, <1>5, <1>7, <1>8, <1>9, <1>10, CalmNext

LEMMA InCalm ==
  ASSUME TypeInv, Calm, NEW s \in Stations, NEW state, In(s, state)
  PROVE  /\ s \in Live /\ port[s].on /\ port[s].master_state = state
         /\ Talks(s) => OthersDone(s)
         /\ Proper(port[s]) /\ port[s] \in Ports /\ port[s].silence \in Nat
         /\ port[s].rx \in Frames \cup {Nobody}
<1>1. s \in Live /\ port[s].on /\ port[s].master_state = state
  BY DEF In, Live
<1>2. Talks(s) => OthersDone(s)
  <2>1. CASE running = s
    BY <1>1, <2>1, Limits DEF Calm, RunQuiet
  <2>2. CASE running # s
    BY <2>2 DEF In, OthersDone
  <2> QED
    BY <2>1, <2>2
<1> QED
  BY <1>1, <1>2, SilenceTyped DEF Calm, AllProper

(* The transitions that take or drop a role without a frame.               *)
LEMMA IdleCalm ==
  ASSUME TypeInv, Calm, NEW s \in Stations,
         DoneInitializing(s) \/ LostToken(s) \/ IgnoredFrame(s) \/ ReceivedToken(s)
  PROVE  Calm'
<1> DEFINE p == port[s]
<1>1. CASE DoneInitializing(s)
  <2> DEFINE r == [p EXCEPT !.Next_Station = s, !.Poll_Station = s, !.TokenCount = Npoll,
                            !.SoleMaster = FALSE, !.master_state = "IDLE"]
  <2>1. In(s, "INITIALIZE") /\ Local(s, r, TRUE)
    BY <1>1 DEF DoneInitializing
  <2>2. /\ p.on /\ p.master_state = "INITIALIZE" /\ (Talks(s) => OthersDone(s))
        /\ Proper(p) /\ p \in Ports
    BY <2>1, InCalm
  <2>3. /\ r.on /\ r.master_state = "IDLE" /\ r.silence = 0 /\ r.rx = Nobody /\ r.fifo = <<>>
        /\ p.silence = 0
    BY <2>2 DEF Proper, Ports
  <2> HIDE DEF r
  <2>4. Proper(r) /\ ~Busy(r)
    BY <2>3 DEF Proper, Busy, Asked, Has, Holds, Passes
  <2>5. port' = [port EXCEPT ![s] = r] /\ running' = s /\ UNCHANGED <<PDU_Queue, switches>>
    BY <2>1 DEF Local, bounds
  <2>6. ~Talks(s)'
    <3>1. port'[s] = r
      BY <2>5, TypeParts
    <3>2. /\ port'[s].master_state = "IDLE" /\ ~(port'[s].silence >= Tno_token)
          /\ port'[s].rx = Nobody
      BY <2>3, <3>1, Limits
    <3> QED
      BY <3>2 DEF Talks, Got
  <2>7. ~WaitsOpen(p)
    BY <2>2 DEF WaitsOpen
  <2> QED
    BY <2>2, <2>3, <2>4, <2>5, <2>6, <2>7, LocalCalm
<1>2. CASE LostToken(s)
  <2> DEFINE r == [p EXCEPT !.Heard = FALSE, !.rx = Nobody, !.master_state = "NO_TOKEN"]
  <2>1. In(s, "IDLE") /\ Local(s, r, TRUE) /\ p.silence >= Tno_token
    BY <1>2 DEF LostToken
  <2>2. /\ p.on /\ p.master_state = "IDLE" /\ (Talks(s) => OthersDone(s))
        /\ Proper(p) /\ p \in Ports
    BY <2>1, InCalm
  <2>3. /\ r.on /\ r.master_state = "NO_TOKEN" /\ r.silence = p.silence /\ r.rx = Nobody
        /\ r.fifo = <<>> /\ ~r.Heard
    BY <2>2 DEF Proper, Ports
  <2> HIDE DEF r
  <2>4. Proper(r) /\ ~Busy(r)
    BY <2>3 DEF Proper, Busy, Asked, Has, Holds, Passes
  <2>5. port' = [port EXCEPT ![s] = r] /\ running' = s /\ UNCHANGED <<PDU_Queue, switches>>
    BY <2>1 DEF Local, bounds
  <2>6. Talks(s)' => Talks(s)
    <3>1. port'[s] = r
      BY <2>5, TypeParts
    <3>2. Talks(s)' => MySlot(s)'
      BY <2>3, <3>1 DEF Talks
    <3>3. MySlot(s)' => MySlot(s)
      BY <2>3, <3>1 DEF MySlot
    <3>4. MySlot(s) => Talks(s)
      BY <2>1, <2>2 DEF Talks
    <3> QED
      BY <3>2, <3>3, <3>4
  <2>7. ~WaitsOpen(p)
    BY <2>2 DEF WaitsOpen
  <2> QED
    BY <2>2, <2>3, <2>4, <2>5, <2>6, <2>7, LocalCalm
<1>3. CASE IgnoredFrame(s)
  <2> DEFINE r == Cleared(s)
  <2>1. In(s, "IDLE") /\ Local(s, r, FALSE)
    BY <1>3 DEF IgnoredFrame, Idle
  <2>2. /\ p.on /\ p.master_state = "IDLE" /\ (Talks(s) => OthersDone(s))
        /\ Proper(p) /\ p \in Ports
    BY <2>1, InCalm
  <2>3. /\ r.on /\ r.master_state = "IDLE" /\ r.silence = p.silence /\ r.rx = Nobody
        /\ r.fifo = <<>>
    BY <2>2 DEF Proper, Ports, Cleared
  <2> HIDE DEF r
  <2>4. Proper(r) /\ ~Busy(r)
    BY <2>3 DEF Proper, Busy, Asked, Has, Holds, Passes
  <2>5. port' = [port EXCEPT ![s] = r] /\ running' = Nobody /\ UNCHANGED <<PDU_Queue, switches>>
    BY <2>1 DEF Local, bounds
  <2>6. ~WaitsOpen(p) /\ running' # s
    BY <2>2, <2>5, Limits DEF WaitsOpen
  <2> QED
    BY <2>2, <2>3, <2>4, <2>5, <2>6, LocalCalm
<1>4. CASE ReceivedToken(s)
  <2> DEFINE r == [Cleared(s) EXCEPT !.FrameCount = 0, !.SoleMaster = FALSE,
                                     !.master_state = "USE_TOKEN"]
  <2>1. In(s, "IDLE") /\ Local(s, r, TRUE) /\ p.silence < Tno_token /\ Has(p, "Token")
    BY <1>4 DEF ReceivedToken, Idle, Got, Has
  <2>2. /\ p.on /\ p.master_state = "IDLE" /\ (Talks(s) => OthersDone(s))
        /\ Proper(p) /\ p \in Ports /\ p.silence \in Nat
    BY <2>1, InCalm
  <2>3. /\ r.on /\ r.master_state = "USE_TOKEN" /\ r.silence = p.silence /\ r.rx = Nobody
        /\ r.fifo = <<>> /\ p.silence = 0
    BY <2>1, <2>2 DEF Proper, Ports, Cleared, Has
  <2> HIDE DEF r
  <2>4. Proper(r) /\ Busy(p)
    BY <2>1, <2>3, Limits DEF Proper, Busy, Asked, Holds
  <2>5. port' = [port EXCEPT ![s] = r] /\ running' = s /\ UNCHANGED <<PDU_Queue, switches>>
    BY <2>1 DEF Local, bounds
  <2>6. Talks(s)
    <3>1. ~(p.silence >= Tno_token)
      BY <2>3, Limits
    <3> QED
      BY <2>1, <2>2, <3>1 DEF Talks, Got, Has
  <2>7. ~WaitsOpen(p)
    BY <2>2 DEF WaitsOpen
  <2>8. \A q : ~Leads(p, q) /\ (Leads(q, p) => Leads(q, r))
    BY <2>1, <2>2, <2>3 DEF Leads, Has
  <2> QED
    BY <2>2, <2>3, <2>4, <2>5, <2>6, <2>7, <2>8, LocalCalm
<1> QED
  BY <1>1, <1>2, <1>3, <1>4

LEMMA AskedSilence ==
  ASSUME NEW p, p.silence \in Nat, Proper(p), Asked(p)
  PROVE  p.silence < Treply_timeout
<1>1. p.rx # Nobody
  BY DEF Asked, Has
<1>2. p.silence <= Treply_delay + 1
  BY <1>1, Limits DEF Proper
<1> QED
  BY <1>2, Limits

LEMMA OrderedLive ==
  ASSUME TypeInv, Calm, NEW y \in Live, NEW u \in Live, Busy(port[y])
  PROVE  /\ port[u].silence <= port[y].silence /\ y \in Stations /\ u \in Stations
         /\ port[u].silence \in Nat /\ port[y].silence \in Nat
         /\ Proper(port[y]) /\ Proper(port[u])
BY SilenceTyped DEF Calm, Ordered, AllProper, Live

(* Back to the use of the token: nobody else is busy.                      *)
LEMMA ReturnCalm ==
  ASSUME TypeInv, Calm, NEW s \in Stations, NEW r,
         \/ In(s, "WAIT_FOR_REPLY")
            /\ \/ port[s].silence >= Treply_timeout
               \/ \E type \in {"Data", "Postponed", "Invalid"} : Got(s, type)
         \/ In(s, "POLL_FOR_MASTER") /\ ~Valid(s)
            /\ (port[s].silence > Tusage_timeout \/ Got(s, "Invalid")),
         r.on, r.master_state \in {"USE_TOKEN", "DONE_WITH_TOKEN"}, r.silence = port[s].silence,
         r.rx = Nobody, r.fifo = port[s].fifo,
         port' = [port EXCEPT ![s] = r], running' = s, UNCHANGED <<PDU_Queue, switches>>
  PROVE  Calm'
<1> DEFINE p == port[s]
<1>1. /\ s \in Live /\ p.on /\ p.master_state \in {"WAIT_FOR_REPLY", "POLL_FOR_MASTER"}
      /\ (Talks(s) => OthersDone(s))
      /\ Proper(p) /\ p.silence \in Nat
  BY InCalm
<1>2. p.silence <= Treply_timeout /\ Busy(p)
  BY <1>1 DEF Proper, Busy, Holds
<1>3. Proper(r)
  BY <1>1, <1>2 DEF Proper
<1>4. Talks(s)
  BY <1>1, InCalm DEF Talks
<1>5. \A u \in Live :
        p.master_state = "WAIT_FOR_REPLY" /\ p.silence >= Treply_timeout => ~Asked(port[u])
  <2> SUFFICES ASSUME NEW u \in Live, p.silence >= Treply_timeout, Asked(port[u]) PROVE FALSE
    OBVIOUS
  <2>1. Busy(port[u])
    BY DEF Busy
  <2>2. p.silence <= port[u].silence /\ port[u].silence \in Nat /\ Proper(port[u])
    BY <1>1, <2>1, OrderedLive
  <2>3. port[u].silence < Treply_timeout
    BY <2>2, AskedSilence
  <2> QED
    BY <1>1, <2>2, <2>3, Limits
<1>6. WaitsOpen(p) => p.master_state = "WAIT_FOR_REPLY" /\ p.silence >= Treply_timeout
  BY InCalm DEF WaitsOpen, Got
<1>7. ASSUME NEW q, Leads(q, p)
      PROVE  FALSE
  <2>1. Has(p, "Token") \/ ~Holds(p)
    BY <1>1, <1>7 DEF Leads
  <2>2. Has(p, "Token") /\ p.rx # Nobody
    BY <1>1, <2>1 DEF Has, Holds
  <2>3. p.silence = 0
    BY <1>1, <2>2 DEF Proper
  <2> QED
    BY <1>1, <2>2, <2>3, Limits, InCalm DEF Has, Got, Valid
<1>8. ASSUME NEW u \in Live, Leads(p, port[u])
      PROVE  FALSE
  <2>1. p.rx = Nobody
    BY <1>8 DEF Leads
  <2>2. CASE p.master_state = "POLL_FOR_MASTER"
    <3>1. p.silence = 0
      BY <1>8, <2>2 DEF Leads, Passes
    <3> QED
      BY <2>1, <2>2, <3>1, InCalm, Limits DEF Got
  <2>3. CASE p.master_state = "WAIT_FOR_REPLY"
    <3>1. Asked(port[u]) /\ WaitsOpen(p)
      BY <1>8, <2>1, <2>3 DEF Leads, Passes, Asked, WaitsOpen
    <3> QED
      BY <1>5, <1>6, <3>1
  <2> QED
    BY <1>1, <2>2, <2>3
<1> QED
  BY <1>1, <1>2, <1>3, <1>4, <1>5, <1>6, <1>7, <1>8, LocalCalm

LEMMA ReturnsCalm ==
  ASSUME TypeInv, Calm, NEW s \in Stations,
         \/ ReplyTimeout(s) \/ InvalidFrame(s) \/ ReceivedReply(s)
         \/ SoleMasterAgain(s) \/ DeclareSoleMaster(s)
  PROVE  Calm'
<1> DEFINE p == port[s]
<1>1. p \in Ports /\ (s \in Live => Proper(p))
  BY SilenceTyped DEF Calm, AllProper
<1>2. CASE ReplyTimeout(s)
  <2> DEFINE r == [p EXCEPT !.FrameCount = Nmax_info_frames, !.master_state = "DONE_WITH_TOKEN"]
  <2>1. /\ In(s, "WAIT_FOR_REPLY") /\ p.silence >= Treply_timeout /\ Local(s, r, TRUE)
    BY <1>2 DEF ReplyTimeout
  <2>2. p.on /\ p.master_state = "WAIT_FOR_REPLY" /\ Proper(p)
    BY <2>1, InCalm
  <2>3. p.rx = Nobody
    <3>1. p.silence # 0
      BY <2>1, Limits
    <3> QED
      BY <2>2, <3>1 DEF Proper
  <2>4. /\ r.on /\ r.master_state = "DONE_WITH_TOKEN" /\ r.silence = p.silence
        /\ r.rx = Nobody /\ r.fifo = p.fifo
    BY <1>1, <2>2, <2>3 DEF Ports
  <2>5. port' = [port EXCEPT ![s] = r] /\ running' = s /\ UNCHANGED <<PDU_Queue, switches>>
    BY <2>1 DEF Local, bounds
  <2> HIDE DEF r
  <2> QED
    BY <2>1, <2>4, <2>5, ReturnCalm
<1>3. CASE InvalidFrame(s) \/ ReceivedReply(s)
  <2> DEFINE r == [Cleared(s) EXCEPT !.master_state = "DONE_WITH_TOKEN"]
  <2>1. /\ In(s, "WAIT_FOR_REPLY") /\ \E type \in {"Data", "Postponed", "Invalid"} : Got(s, type)
        /\ port' = [port EXCEPT ![s] = r] /\ running' = s /\ UNCHANGED <<PDU_Queue, switches>>
    BY <1>3 DEF InvalidFrame, ReceivedReply, Waiting, Local, bounds
  <2>2. p.on
    BY <2>1, InCalm
  <2>3. /\ r.on /\ r.master_state = "DONE_WITH_TOKEN" /\ r.silence = p.silence
        /\ r.rx = Nobody /\ r.fifo = p.fifo
    BY <1>1, <2>2 DEF Ports, Cleared
  <2> HIDE DEF r
  <2> QED
    BY <2>1, <2>3, ReturnCalm
<1>4. CASE SoleMasterAgain(s) \/ DeclareSoleMaster(s)
  <2>1. /\ In(s, "POLL_FOR_MASTER") /\ ~Valid(s)
        /\ (p.silence > Tusage_timeout \/ Got(s, "Invalid"))
    BY <1>4 DEF SoleMasterAgain, DeclareSoleMaster, Unanswered
  <2>2. p.on
    BY <2>1, InCalm
  <2>3. CASE SoleMasterAgain(s)
    <3> DEFINE r == [Cleared(s) EXCEPT !.FrameCount = 0, !.master_state = "USE_TOKEN"]
    <3>1. /\ r.on /\ r.master_state = "USE_TOKEN" /\ r.silence = p.silence
          /\ r.rx = Nobody /\ r.fifo = p.fifo
      BY <1>1, <2>2 DEF Ports, Cleared
    <3>2. port' = [port EXCEPT ![s] = r] /\ running' = s /\ UNCHANGED <<PDU_Queue, switches>>
      BY <2>3 DEF SoleMasterAgain, Local, bounds
    <3> HIDE DEF r
    <3> QED
      BY <2>1, <3>1, <3>2, ReturnCalm
  <2>4. CASE DeclareSoleMaster(s)
    <3> DEFINE r == [Cleared(s) EXCEPT !.SoleMaster = TRUE, !.FrameCount = 0,
                                       !.master_state = "USE_TOKEN"]
    <3>1. /\ r.on /\ r.master_state = "USE_TOKEN" /\ r.silence = p.silence
          /\ r.rx = Nobody /\ r.fifo = p.fifo
      BY <1>1, <2>2 DEF Ports, Cleared
    <3>2. port' = [port EXCEPT ![s] = r] /\ running' = s /\ UNCHANGED <<PDU_Queue, switches>>
      BY <2>4 DEF DeclareSoleMaster, Local, bounds
    <3> HIDE DEF r
    <3> QED
      BY <2>1, <3>1, <3>2, ReturnCalm
  <2> QED
    BY <1>4, <2>3, <2>4
<1> QED
  BY <1>2, <1>3, <1>4

(* A transition to the idle state that keeps the frame, or drops it with   *)
(* the role.                                                               *)
LEMMA IdleAgainCalm ==
  ASSUME TypeInv, Calm, NEW s \in Stations, NEW state, NEW r, In(s, state),
         \/ /\ state \in {"PASS_TOKEN", "NO_TOKEN"} /\ port[s].Heard
            /\ r.rx = port[s].rx
            /\ state = "PASS_TOKEN" => port[s].silence <= Tusage_timeout
            /\ state = "NO_TOKEN" => ~MySlot(s)
         \/ /\ state \in {"WAIT_FOR_REPLY", "POLL_FOR_MASTER"}
            /\ port[s].rx # Nobody /\ r.rx = Nobody,
         r.on, r.master_state = "IDLE", r.silence = port[s].silence, r.fifo = port[s].fifo,
         port' = [port EXCEPT ![s] = r], running' = s, UNCHANGED <<PDU_Queue, switches>>
  PROVE  Calm'
<1> DEFINE p == port[s]
<1>1. /\ s \in Live /\ p.on /\ p.master_state = state /\ (Talks(s) => OthersDone(s))
      /\ Proper(p) /\ p.silence \in Nat
  BY InCalm
<1>2. port'[s] = r
  BY TypeParts
<1>3. state # "ANSWER_DATA_REQUEST" /\ (p.rx # Nobody => p.silence = 0)
  BY <1>1 DEF Proper
<1>4. Proper(r)
  BY <1>1, <1>3 DEF Proper, Holds
<1>5. Busy(r) => r.rx = p.rx /\ Asked(p)
  BY <1>1 DEF Busy, Asked, Has, Holds, Passes
<1>6. CASE r.rx = p.rx /\ state \in {"PASS_TOKEN", "NO_TOKEN"} /\ p.Heard
  <2>1. \A q : ~Leads(p, q)
    BY <1>1, <1>6 DEF Leads, Passes
  <2>2. \A q : Leads(q, p) => Leads(q, r)
    BY <1>1, <1>6 DEF Leads, Has, Holds
  <2>3. Talks(s)' => Talks(s)
    <3>1. CASE state = "PASS_TOKEN"
      <4>1. ~(p.silence >= Tno_token)
        BY <1>1, <3>1, Limits
      <4> QED
        BY <1>1, <1>2, <1>6, <3>1, <4>1 DEF Talks, Got
    <3>2. CASE state = "NO_TOKEN"
      <4>1. ~MySlot(s)' /\ ~MySlot(s)
        BY <1>2, <3>2 DEF MySlot
      <4> QED
        BY <1>1, <1>2, <1>6, <3>2, <4>1 DEF Talks, Got
    <3> QED
      BY <1>6, <3>1, <3>2
  <2>4. ~WaitsOpen(p)
    BY <1>1, <1>6 DEF WaitsOpen
  <2> QED
    BY <1>1, <1>4, <1>5, <1>6, <2>1, <2>2, <2>3, <2>4, LocalCalm DEF Busy
<1>7. CASE state \in {"WAIT_FOR_REPLY", "POLL_FOR_MASTER"} /\ p.rx # Nobody /\ r.rx = Nobody
  <2>1. ~Busy(r)
    BY <1>7 DEF Busy, Asked, Has, Holds, Passes
  <2>2. ~Talks(s)'
    <3>1. ~(r.silence >= Tno_token)
      BY <1>3, <1>7, Limits
    <3> QED
      BY <1>2, <1>7, <3>1 DEF Talks, Got
  <2>3. ~WaitsOpen(p)
    BY <1>7 DEF WaitsOpen
  <2> QED
    BY <1>1, <1>4, <1>7, <2>1, <2>2, <2>3, LocalCalm
<1> QED
  BY <1>6, <1>7

LEMMA IdlesAgainCalm ==
  ASSUME TypeInv, Calm, NEW s \in Stations,
         SawTokenUser(s) \/ SawFrame(s) \/ UnexpectedWhileWaiting(s) \/ UnexpectedWhilePolling(s)
  PROVE  Calm'
<1> DEFINE p == port[s]
           q == [p EXCEPT !.master_state = "IDLE"]
           c == [Cleared(s) EXCEPT !.master_state = "IDLE"]
<1>1. p \in Ports
  BY SilenceTyped
<1>2. /\ p.on => q.on /\ c.on
      /\ q.master_state = "IDLE" /\ q.silence = p.silence /\ q.fifo = p.fifo /\ q.rx = p.rx
      /\ c.master_state = "IDLE" /\ c.silence = p.silence /\ c.fifo = p.fifo /\ c.rx = Nobody
  BY <1>1 DEF Ports, Cleared
<1>3. /\ SawTokenUser(s) => In(s, "PASS_TOKEN") /\ p.silence <= Tusage_timeout /\ p.Heard
      /\ SawFrame(s) => In(s, "NO_TOKEN") /\ ~MySlot(s) /\ p.Heard
      /\ UnexpectedWhileWaiting(s) => In(s, "WAIT_FOR_REPLY") /\ p.rx # Nobody
      /\ UnexpectedWhilePolling(s) => In(s, "POLL_FOR_MASTER") /\ p.rx # Nobody
  BY DEF SawTokenUser, SawFrame, UnexpectedWhileWaiting, UnexpectedWhilePolling, Waiting, Valid
<1>4. p.on
  BY <1>3 DEF In
<1>5. SawTokenUser(s) \/ SawFrame(s) =>
        port' = [port EXCEPT ![s] = q] /\ running' = s /\ UNCHANGED <<PDU_Queue, switches>>
  BY DEF SawTokenUser, SawFrame, Local, bounds
<1>6. UnexpectedWhileWaiting(s) \/ UnexpectedWhilePolling(s) =>
        port' = [port EXCEPT ![s] = c] /\ running' = s /\ UNCHANGED <<PDU_Queue, switches>>
  BY DEF UnexpectedWhileWaiting, UnexpectedWhilePolling, Local, bounds
<1> HIDE DEF q, c
<1>7. CASE SawTokenUser(s)
  BY <1>2, <1>3, <1>4, <1>5, <1>7, IdleAgainCalm
<1>8. CASE SawFrame(s)
  BY <1>2, <1>3, <1>4, <1>5, <1>8, IdleAgainCalm
<1>9. CASE UnexpectedWhileWaiting(s)
  BY <1>2, <1>3, <1>4, <1>6, <1>9, IdleAgainCalm
<1>10. CASE UnexpectedWhilePolling(s)
  BY <1>2, <1>3, <1>4, <1>6, <1>10, IdleAgainCalm
<1> QED
  BY <1>7, <1>8, <1>9, <1>10

LEMMA UseCalm ==
  ASSUME TypeInv, Calm, NEW s \in Stations, NothingToSend(s) \/ SendAnotherFrame(s) \/ SoleMaster(s)
  PROVE  Calm'
<1> DEFINE p == port[s]
<1>1. \/ In(s, "USE_TOKEN") \/ In(s, "DONE_WITH_TOKEN")
  BY DEF NothingToSend, SendAnotherFrame, SoleMaster, Known, Done
<1>2. /\ s \in Live /\ p.on /\ p.master_state \in {"USE_TOKEN", "DONE_WITH_TOKEN"}
      /\ (Talks(s) => OthersDone(s)) /\ Proper(p) /\ p \in Ports
  BY <1>1, InCalm
<1>3. PICK r : /\ r.on /\ r.master_state \in {"USE_TOKEN", "DONE_WITH_TOKEN"}
               /\ r.silence = p.silence /\ r.rx = p.rx /\ r.fifo = p.fifo
               /\ port' = [port EXCEPT ![s] = r] /\ running' = s
               /\ UNCHANGED <<PDU_Queue, switches>>
  <2>1. CASE NothingToSend(s)
    <3> DEFINE r == [p EXCEPT !.FrameCount = Nmax_info_frames, !.master_state = "DONE_WITH_TOKEN"]
    <3>1. /\ r.on /\ r.master_state = "DONE_WITH_TOKEN"
          /\ r.silence = p.silence /\ r.rx = p.rx /\ r.fifo = p.fifo
      BY <1>2 DEF Ports
    <3>2. port' = [port EXCEPT ![s] = r] /\ running' = s /\ UNCHANGED <<PDU_Queue, switches>>
      BY <2>1 DEF NothingToSend, Local, bounds
    <3> HIDE DEF r
    <3> QED
      BY <3>1, <3>2
  <2>2. CASE SendAnotherFrame(s)
    <3> DEFINE r == [p EXCEPT !.master_state = "USE_TOKEN"]
    <3>1. /\ r.on /\ r.master_state = "USE_TOKEN"
          /\ r.silence = p.silence /\ r.rx = p.rx /\ r.fifo = p.fifo
      BY <1>2 DEF Ports
    <3>2. port' = [port EXCEPT ![s] = r] /\ running' = s /\ UNCHANGED <<PDU_Queue, switches>>
      BY <2>2 DEF SendAnotherFrame, Local, bounds
    <3> HIDE DEF r
    <3> QED
      BY <3>1, <3>2
  <2>3. CASE SoleMaster(s)
    <3> DEFINE r == [p EXCEPT !.FrameCount = 0, !.TokenCount = p.TokenCount + 1,
                              !.master_state = "USE_TOKEN"]
    <3>1. /\ r.on /\ r.master_state = "USE_TOKEN"
          /\ r.silence = p.silence /\ r.rx = p.rx /\ r.fifo = p.fifo
      BY <1>2 DEF Ports
    <3>2. port' = [port EXCEPT ![s] = r] /\ running' = s /\ UNCHANGED <<PDU_Queue, switches>>
      BY <2>3 DEF SoleMaster, Local, bounds
    <3> HIDE DEF r
    <3> QED
      BY <3>1, <3>2
  <2> QED
    BY <2>1, <2>2, <2>3
<1>4. p.rx = Nobody /\ Busy(p) /\ Talks(s)
  BY <1>2 DEF Proper, Busy, Holds, Talks
<1>5. Proper(r)
  BY <1>2, <1>3, <1>4 DEF Proper, Holds
<1>6. \A q : ~Leads(p, q) /\ (Leads(q, p) => Leads(q, r))
  BY <1>2, <1>3, <1>4 DEF Leads, Has, Passes
<1>7. ~WaitsOpen(p)
  BY <1>2 DEF WaitsOpen
<1> QED
  BY <1>2, <1>3, <1>4, <1>5, <1>6, <1>7, LocalCalm

LEMMA ReceivedCalm ==
  ASSUME TypeInv, Calm, NEW s \in Stations, ReceivedDataNoReply(s) \/ ReceivedDataNeedingReply(s)
  PROVE  Calm'
<1> DEFINE p == port[s]
<1>1. In(s, "IDLE")
  BY DEF ReceivedDataNoReply, ReceivedDataNeedingReply, Idle
<1>2. /\ s \in Live /\ p.on /\ p.master_state = "IDLE"
      /\ (Talks(s) => OthersDone(s)) /\ Proper(p) /\ p \in Ports
  BY <1>1, InCalm
<1>3. running' # s /\ running' \in {s, Nobody} /\ ~WaitsOpen(p)
  BY <1>2, Limits DEF ReceivedDataNoReply, ReceivedDataNeedingReply, WaitsOpen
<1>4. CASE ReceivedDataNoReply(s)
  <2> DEFINE r == Cleared(s)
  <2>1. /\ r.on /\ r.master_state = "IDLE"
        /\ r.silence = p.silence /\ r.rx = Nobody /\ r.fifo = p.fifo
    BY <1>2 DEF Ports, Cleared
  <2>2. port' = [port EXCEPT ![s] = r] /\ UNCHANGED <<PDU_Queue, switches>>
    BY <1>4 DEF ReceivedDataNoReply, bounds
  <2> HIDE DEF r
  <2>3. Proper(r) /\ ~Busy(r)
    BY <1>2, <2>1 DEF Proper, Busy, Asked, Has, Holds, Passes
  <2> QED
    BY <1>2, <1>3, <2>1, <2>2, <2>3, LocalCalm
<1>5. CASE ReceivedDataNeedingReply(s)
  <2> DEFINE r == [p EXCEPT !.master_state = "ANSWER_DATA_REQUEST"]
  <2>1. /\ r.on /\ r.master_state = "ANSWER_DATA_REQUEST"
        /\ r.silence = p.silence /\ r.rx = p.rx /\ r.fifo = p.fifo
    BY <1>2 DEF Ports
  <2>2. /\ port' = [port EXCEPT ![s] = r] /\ UNCHANGED <<PDU_Queue, switches>>
        /\ Has(p, "Request") /\ p.rx # Nobody
    BY <1>5 DEF ReceivedDataNeedingReply, bounds, Got, Has
  <2> HIDE DEF r
  <2>3. p.silence = 0
    BY <1>2, <2>2 DEF Proper
  <2>4. Proper(r) /\ Busy(p)
    BY <1>2, <2>1, <2>2, <2>3, Limits DEF Proper, Busy, Asked, Has, Holds
  <2>5. \A q : ~Leads(p, q) /\ (Leads(q, p) => Leads(q, r))
    BY <1>2, <2>1, <2>2 DEF Leads, Has, Holds
  <2> QED
    BY <1>2, <1>3, <2>1, <2>2, <2>4, <2>5, LocalCalm
<1> QED
  BY <1>4, <1>5

-----------------------------------------------------------------------------
(* Frames, while each of them arrives.                                     *)

(* When a node talks, what the others have to do can wait for its frame:   *)
(* none of them has a frame or the use of the token.                       *)
LEMMA AloneTalks ==
  ASSUME TypeInv, Calm, NEW s \in Live, Talks(s),
         NEW u \in Live \ {s}, Resting(u) \/ Talks(u)
  PROVE  /\ port[u].rx = Nobody
         /\ port[u].master_state \notin {"INITIALIZE", "USE_TOKEN", "DONE_WITH_TOKEN",
                                         "ANSWER_DATA_REQUEST"}
<1> DEFINE p == port[s]
           q == port[u]
<1>1. /\ s \in Stations /\ u \in Stations /\ u \in Live /\ Proper(p) /\ Proper(q)
      /\ p.silence \in Nat /\ q.silence \in Nat /\ p \in Ports /\ q \in Ports
  BY SilenceTyped DEF Live, Calm, AllProper
<1>2. q.master_state # "INITIALIZE"
  BY DEF Resting, Settled, Talks
<1>3. SUFFICES ASSUME q.rx # Nobody \/ q.master_state \in {"USE_TOKEN", "DONE_WITH_TOKEN"}
               PROVE  FALSE
  BY <1>1, <1>2 DEF Proper, Has
<1>4. Busy(q)
  <2>1. CASE q.master_state \in {"USE_TOKEN", "DONE_WITH_TOKEN"}
    BY <2>1 DEF Busy, Holds
  <2>2. CASE q.rx # Nobody /\ q.master_state = "ANSWER_DATA_REQUEST"
    BY <1>1, <2>2 DEF Busy, Asked, Proper
  <2>3. CASE q.rx # Nobody /\ q.master_state # "ANSWER_DATA_REQUEST" /\ ~Holds(q)
    <3>1. q.silence = 0 /\ q.master_state \in {"IDLE", "PASS_TOKEN", "NO_TOKEN"}
      BY <1>1, <1>2, <2>3 DEF Proper, Holds, Ports, States
    <3>2. ~(q.silence > Tusage_timeout) /\ ~(q.silence >= Tno_token)
      BY <3>1, Limits
    <3>3. ~MySlot(u)
      <4>1. Tslot * u \in Nat /\ Tno_token \in Nat /\ Tno_token > 0
        BY <1>1, Slots, Limits
      <4>2. ~(0 >= Tno_token + Tslot * u)
        BY <4>1
      <4>3. ~(q.silence >= Tno_token + Tslot * u)
        BY <3>1, <4>2
      <4> QED
        BY <4>3 DEF MySlot
    <3>4. ~Resting(u)
      BY <1>1, <2>3, <3>1 DEF Resting, Settled, Proper
    <3>5. Got(u, "Token") \/ Got(u, "PollForMaster")
      BY <3>1, <3>2, <3>3, <3>4 DEF Talks
    <3> QED
      BY <3>5 DEF Busy, Asked, Has, Got
  <2> QED
    BY <1>2, <1>3, <2>1, <2>2, <2>3 DEF Busy
<1>5. p.silence <= q.silence /\ q.silence < Tno_token
  BY <1>1, <1>4, BusySilence DEF Calm, Ordered
<1>6. ~(p.silence >= Tno_token) /\ ~MySlot(s)
  <2>1. ~(p.silence >= Tno_token)
    BY <1>1, <1>5, Limits
  <2>2. Tslot * s \in Nat /\ Tno_token \in Nat
    BY <1>1, Slots, Limits
  <2> QED
    BY <1>1, <2>1, <2>2 DEF MySlot
<1>7. Busy(p)
  <2>1. CASE p.master_state \in {"IDLE", "NO_TOKEN"}
    BY <1>6, <2>1 DEF Talks, Busy, Asked, Has, Got
  <2>2. CASE p.master_state = "ANSWER_DATA_REQUEST"
    BY <1>1, <2>2 DEF Busy, Asked, Proper
  <2>3. CASE p.master_state = "PASS_TOKEN"
    <3>1. p.Heard => ~(p.silence > Tusage_timeout)
      BY <1>1, <2>3, Limits DEF Proper
    <3> QED
      BY <2>3, <3>1 DEF Talks, Busy, Asked, Has, Got, Passes
  <2>4. CASE Holds(p)
    BY <2>4 DEF Busy
  <2>5. p.master_state # "INITIALIZE"
    BY DEF Talks
  <2> QED
    BY <1>1, <2>1, <2>2, <2>3, <2>4, <2>5 DEF Ports, States, Holds
<1>8. ~Leads(q, p)
  BY <1>3 DEF Leads, Passes
<1>9. Leads(p, q)
  BY <1>1, <1>4, <1>7, <1>8 DEF Calm, Paired
<1>10. p.rx = Nobody
  BY <1>9 DEF Leads
<1>11. CASE Passes(p)
  <2>1. p.silence = 0 /\ p.master_state = "PASS_TOKEN" /\ ~p.Heard
    BY <1>9, <1>11 DEF Leads, Passes
  <2>2. ~(p.silence > Tusage_timeout)
    BY <2>1, Limits
  <2> QED
    BY <2>1, <2>2 DEF Talks
<1>12. CASE p.master_state = "POLL_FOR_MASTER"
  <2>1. p.silence = 0
    BY <1>9, <1>12 DEF Leads
  <2>2. ~(p.silence > Tusage_timeout)
    BY <2>1, Limits
  <2> QED
    BY <1>10, <1>12, <2>2 DEF Talks, Got
<1>13. CASE p.master_state = "WAIT_FOR_REPLY"
  <2>1. Asked(q)
    BY <1>9, <1>13 DEF Leads, Passes, Asked
  <2>2. ~(p.silence >= Treply_timeout)
    <3>1. q.silence < Treply_timeout
      BY <1>1, <2>1, AskedSilence
    <3> QED
      BY <1>1, <1>5, <3>1, Limits
  <2> QED
    BY <1>10, <1>13, <2>2 DEF Talks, Got
<1> QED
  BY <1>9, <1>11, <1>12, <1>13 DEF Leads

LEMMA TransmitWhole ==
  ASSUME TypeInv, NEW s \in Stations, NEW f, NEW r, Transmit(s, f, r), troubles = 0, troubles' = 0
  PROVE  /\ port'[s] = [r EXCEPT !.silence = 0]
         /\ \A u \in Stations \ {s} : port'[u] = Hear(port[u], u, f)
         /\ running' = Nobody /\ switches' = switches
<1>1. PICK hurt \in SUBSET (Stations \ {s}), damage \in Damages :
        /\ hurt # {} => TroubleLeft
        /\ troubles' = IF hurt = {} THEN troubles ELSE troubles + 1
        /\ port' = [t \in Stations |->
                      IF t = s THEN [r EXCEPT !.silence = 0]
                      ELSE IF t \notin hurt THEN Hear(port[t], t, f)
                      ELSE IF damage = "garbled"
                           THEN Hear(port[t], t, [f EXCEPT !.type = "Invalid"])
                      ELSE port[t]]
        /\ running' = Nobody
        /\ UNCHANGED <<switches, requests>>
  BY Zenon DEF Transmit
<1>2. hurt = {}
  BY <1>1
<1>3. port'[s] = [r EXCEPT !.silence = 0]
  BY <1>1
<1>4. \A u \in Stations \ {s} : port'[u] = Hear(port[u], u, f)
  BY <1>1, <1>2
<1> QED
  BY <1>1, <1>3, <1>4

(* After a frame from a node that talked, s with port r: everyone has      *)
(* heard it, the node it is for has it, and nobody has another one.        *)
LEMMA SendFacts ==
  ASSUME TypeInv, Calm, NEW s \in Stations, port[s].on, Talks(s), OthersDone(s),
         NEW f \in Frames, f.type # "Invalid", NEW r \in Ports, Transmit(s, f, r),
         troubles = 0, troubles' = 0,
         r.on, r.rx = Nobody, r.fifo = <<>>, r.master_state # "ANSWER_DATA_REQUEST"
  PROVE  /\ port'[s] = [r EXCEPT !.silence = 0]
         /\ Live' = Live /\ s \in Live
         /\ \A u \in Live \ {s} :
              /\ port[u].rx = Nobody
              /\ port[u].master_state \notin {"USE_TOKEN", "DONE_WITH_TOKEN"}
              /\ port'[u].master_state = port[u].master_state
              /\ port'[u].rx = IF f.to = u THEN f ELSE Nobody
              /\ ~Passes(port'[u])
         /\ \A u \in Live : Proper(port'[u]) /\ port'[u].silence = 0
         /\ RunQuiet' /\ switches' = switches
<1>1. /\ port'[s] = [r EXCEPT !.silence = 0]
      /\ \A u \in Stations \ {s} : port'[u] = Hear(port[u], u, f)
      /\ running' = Nobody /\ switches' = switches
  BY TransmitWhole
<1>2. s \in Live /\ \A u \in Live : u \in Stations /\ port[u].on
  BY DEF Live
<1>3. ASSUME NEW u \in Live \ {s}
      PROVE  /\ port[u].rx = Nobody
             /\ port[u].master_state \notin {"INITIALIZE", "USE_TOKEN", "DONE_WITH_TOKEN",
                                             "ANSWER_DATA_REQUEST"}
             /\ port[u].fifo = <<>> /\ port[u] \in Ports
  <2>1. Resting(u) \/ Talks(u)
    BY DEF OthersDone
  <2>2. Proper(port[u]) /\ port[u] \in Ports
    BY <1>2, SilenceTyped DEF Calm, AllProper
  <2> QED
    BY <1>2, <2>1, <2>2, AloneTalks DEF Proper
<1>4. ASSUME NEW u \in Live \ {s}
      PROVE  /\ port'[u].on /\ port'[u].master_state = port[u].master_state
             /\ port'[u].rx = IF f.to = u THEN f ELSE Nobody
             /\ port'[u].Heard /\ port'[u].silence = 0 /\ port'[u].fifo = <<>>
  <2> DEFINE x == IF f.to = u THEN f ELSE Nobody
  <2>1. port'[u] = Consume(port[u], u, f)
    BY <1>1, <1>2, <1>3 DEF Hear
  <2>2. port'[u] = [port[u] EXCEPT !.Heard = TRUE, !.silence = 0, !.rx = x]
    BY <1>3, <2>1 DEF Consume
  <2> HIDE DEF x
  <2>3. port'[u].rx = x
    BY <1>3, <2>2 DEF Ports
  <2>4. /\ port'[u].on /\ port'[u].master_state = port[u].master_state
        /\ port'[u].Heard /\ port'[u].silence = 0 /\ port'[u].fifo = <<>>
    BY <1>2, <1>3, <2>2 DEF Ports
  <2> QED
    BY <2>3, <2>4 DEF x
<1>5. ASSUME NEW u \in Live \ {s}
      PROVE  Proper(port'[u]) /\ ~Passes(port'[u])
  BY <1>3, <1>4, Limits DEF Proper, Holds, Passes
<1>6. /\ port'[s].on /\ port'[s].silence = 0 /\ port'[s].rx = Nobody /\ port'[s].fifo = <<>>
      /\ port'[s].master_state # "ANSWER_DATA_REQUEST"
  BY <1>1 DEF Ports
<1>7. Proper(port'[s])
  <2>1. 0 <= Treply_delay + 1 /\ 0 <= Tusage_timeout + 1 /\ 0 <= Treply_timeout
    BY Limits
  <2> QED
    BY <1>6, <2>1 DEF Proper
<1>8. Live' = Live
  <2>1. \A u \in Stations : port'[u].on <=> port[u].on
    <3> TAKE u \in Stations
    <3>1. CASE u = s
      BY <1>6, <3>1
    <3>2. CASE u # s /\ u \in Live
      BY <1>2, <1>4, <3>2
    <3>3. CASE u # s /\ u \notin Live
      BY <1>1, <3>3 DEF Hear, Live
    <3> QED
      BY <3>1, <3>2, <3>3
  <2> QED
    BY <2>1, LiveNext DEF Live
<1>9. RunQuiet'
  BY <1>1 DEF RunQuiet
<1> QED
  BY <1>1, <1>2, <1>3, <1>4, <1>5, <1>6, <1>7, <1>8, <1>9

(* A node that was asked answers: only the asker stays busy.               *)
LEMMA AnswerCalm ==
  ASSUME TypeInv, Calm, NEW s \in Stations, port[s].on, Talks(s), OthersDone(s),
         NEW f \in Frames, f.type \in {"ReplyToPoll", "Data", "Postponed"},
         NEW r \in Ports, Transmit(s, f, r), troubles = 0, troubles' = 0,
         r.on, r.rx = Nobody, r.fifo = <<>>, r.master_state = "IDLE"
  PROVE  Calm'
<1>1. /\ port'[s] = [r EXCEPT !.silence = 0]
      /\ Live' = Live /\ s \in Live
      /\ \A u \in Live \ {s} :
           /\ port[u].rx = Nobody
           /\ port[u].master_state \notin {"USE_TOKEN", "DONE_WITH_TOKEN"}
           /\ port'[u].master_state = port[u].master_state
           /\ port'[u].rx = IF f.to = u THEN f ELSE Nobody
           /\ ~Passes(port'[u])
      /\ \A u \in Live : Proper(port'[u]) /\ port'[u].silence = 0
      /\ RunQuiet' /\ switches' = switches
  BY SendFacts
<1>2. port'[s].rx = Nobody /\ port'[s].master_state = "IDLE"
  BY <1>1 DEF Ports
<1>3. ~Busy(port'[s])
  BY <1>2 DEF Busy, Asked, Has, Holds, Passes
<1>4. ASSUME NEW u \in Live \ {s}
      PROVE  /\ ~Asked(port'[u]) /\ (Busy(port'[u]) => Holds(port[u]))
  <2>1. ~Asked(port'[u])
    BY <1>1 DEF Asked, Has
  <2> QED
    BY <1>1, <2>1 DEF Busy, Holds
<1>5. ASSUME NEW y \in Live, NEW z \in Live, y # z, Busy(port'[y]), Busy(port'[z])
      PROVE  FALSE
  <2>1. y # s /\ z # s
    BY <1>3, <1>5
  <2>2. Holds(port[y]) /\ Holds(port[z])
    BY <1>4, <1>5, <2>1
  <2>3. Leads(port[y], port[z]) \/ Leads(port[z], port[y])
    BY <1>5, <2>2 DEF Calm, Paired, Busy
  <2> QED
    BY <1>1, <2>1, <2>3 DEF Leads, Has
<1>6. \A t \in Live : ~Has(port'[t], "Request")
  BY <1>2, <1>4 DEF Asked, Has
<1>7. \A y, u \in Live' : Busy(port'[y]) => port'[u].silence <= port'[y].silence
  BY <1>1
<1> QED
  BY <1>1, <1>5, <1>6, <1>7, CalmNext

(* The owner of the token, or the maker of a new one, sends: it and the    *)
(* node the frame is for are busy.                                         *)
LEMMA OwnerCalm ==
  ASSUME TypeInv, Calm, NEW s \in Stations, port[s].on, Talks(s), OthersDone(s),
         Busy(port[s]) \/ port[s].silence >= Tno_token,
         ~Has(port[s], "PollForMaster"), ~Has(port[s], "Request"),
         NEW f \in Frames, f.from = s, f.type \in {"Token", "PollForMaster", "Request", "Data"},
         NEW r \in Ports, Transmit(s, f, r), troubles = 0, troubles' = 0,
         r.on, r.rx = Nobody, r.fifo = <<>>, r.master_state # "ANSWER_DATA_REQUEST",
         f.type = "Token" => Passes(r),
         f.type = "PollForMaster" => r.master_state = "POLL_FOR_MASTER",
         f.type = "Request" => r.master_state = "WAIT_FOR_REPLY"
  PROVE  Calm'
<1>1. /\ port'[s] = [r EXCEPT !.silence = 0]
      /\ Live' = Live /\ s \in Live
      /\ \A u \in Live \ {s} :
           /\ port[u].rx = Nobody
           /\ port[u].master_state \notin {"USE_TOKEN", "DONE_WITH_TOKEN"}
           /\ port'[u].master_state = port[u].master_state
           /\ port'[u].rx = IF f.to = u THEN f ELSE Nobody
           /\ ~Passes(port'[u])
      /\ \A u \in Live : Proper(port'[u]) /\ port'[u].silence = 0
      /\ RunQuiet' /\ switches' = switches
  BY SendFacts
<1>2. /\ port'[s].rx = Nobody /\ port'[s].master_state = r.master_state
      /\ port'[s].silence = 0 /\ (Passes(port'[s]) <=> Passes(r))
  BY <1>1 DEF Ports, Passes
<1>3. ASSUME NEW u \in Live \ {s}, Holds(port[u])
      PROVE  FALSE
  <2>1. Busy(port[u]) /\ u \in Live
    BY <1>3 DEF Busy
  <2>2. /\ port[s].silence <= port[u].silence /\ Proper(port[u])
        /\ port[s].silence \in Nat /\ port[u].silence \in Nat
    BY <1>1, <2>1, OrderedLive
  <2>3. port[u].silence < Tno_token
    BY <2>1, <2>2, BusySilence
  <2>4. ~(port[s].silence >= Tno_token)
    BY <2>2, <2>3, Limits
  <2>5. Leads(port[s], port[u]) \/ Leads(port[u], port[s])
    BY <1>1, <2>1, <2>4 DEF Calm, Paired
  <2>6. ~Leads(port[s], port[u])
    BY <1>1 DEF Leads, Has
  <2>7. ~Leads(port[u], port[s])
    BY <1>3 DEF Leads, Holds, Passes
  <2> QED
    BY <2>5, <2>6, <2>7
<1>4. ASSUME NEW u \in Live \ {s}
      PROVE  ~Holds(port'[u]) /\ (Busy(port'[u]) => f.to = u /\ port'[u].rx = f /\ Asked(port'[u]))
  <2>1. ~Holds(port'[u])
    BY <1>1, <1>3 DEF Holds
  <2> QED
    BY <1>1, <2>1 DEF Busy, Asked, Has
<1>5. ASSUME NEW u \in Live \ {s}, Busy(port'[u])
      PROVE  Leads(port'[s], port'[u])
  BY <1>2, <1>4, <1>5 DEF Asked, Has, Leads
<1>6. ASSUME NEW y \in Live, NEW z \in Live, y # z, Busy(port'[y]), Busy(port'[z])
      PROVE  Leads(port'[y], port'[z]) \/ Leads(port'[z], port'[y])
  <2>1. y = s \/ z = s
    BY <1>4, <1>6
  <2> QED
    BY <1>5, <1>6, <2>1
<1>7. ASSUME NEW t \in Live, Has(port'[t], "Request")
      PROVE  port'[t].rx.from \in Live /\ WaitsOpen(port'[port'[t].rx.from])
  <2>1. t # s
    BY <1>2, <1>7 DEF Has
  <2>2. port'[t].rx = f /\ f.type = "Request"
    BY <1>1, <1>7, <2>1 DEF Has
  <2> QED
    BY <1>1, <1>2, <2>2 DEF WaitsOpen
<1>8. \A y, u \in Live' : Busy(port'[y]) => port'[u].silence <= port'[y].silence
  BY <1>1
<1> QED
  BY <1>1, <1>6, <1>7, <1>8, CalmNext

LEMMA RepliesCalm ==
  ASSUME TypeInv, Calm, NEW s \in Stations, ReceivedPFM(s) \/ Reply(s) \/ DeferredReply(s),
         troubles = 0, troubles' = 0
  PROVE  Calm'
<1> DEFINE p == port[s]
           r == [Cleared(s) EXCEPT !.master_state = "IDLE"]
<1>1. In(s, "IDLE") \/ In(s, "ANSWER_DATA_REQUEST")
  BY DEF ReceivedPFM, Idle, Reply, DeferredReply
<1>2. /\ p.on /\ (Talks(s) => OthersDone(s)) /\ Proper(p) /\ p \in Ports
      /\ p.rx \in Frames \cup {Nobody} /\ p.silence \in Nat
  BY <1>1, InCalm
<1>3. Talks(s)
  <2>1. CASE ReceivedPFM(s)
    <3>1. /\ p.master_state = "IDLE" /\ Got(s, "PollForMaster") /\ ~(p.silence >= Tno_token)
      BY <1>2, <2>1, Limits DEF ReceivedPFM, Idle, In
    <3> QED
      BY <3>1 DEF Talks
  <2>2. CASE Reply(s) \/ DeferredReply(s)
    <3>1. /\ p.master_state = "ANSWER_DATA_REQUEST"
          /\ ReplyReady(s) \/ p.silence > Treply_delay
      BY <2>2 DEF Reply, DeferredReply, In
    <3> QED
      BY <3>1 DEF Talks
  <2> QED
    BY <2>1, <2>2
<1>4. p.rx # Nobody /\ p.rx.from \in Stations
  <2>1. p.rx # Nobody
    BY <1>2 DEF ReceivedPFM, Reply, DeferredReply, In, Got, Proper, Has
  <2> QED
    BY <1>2, <2>1, FrameFields
<1>5. /\ r \in Ports /\ r.on /\ r.rx = Nobody /\ r.fifo = <<>> /\ r.master_state = "IDLE"
  BY <1>2 DEF Cleared, Ports, States, Proper
<1>6. PICK type \in {"ReplyToPoll", "Data", "Postponed"} : Transmit(s, Frame(type, p.rx.from, s), r)
  <2>1. CASE ReceivedPFM(s)
    <3>1. Cleared(s) = r
      BY <1>2, <2>1 DEF ReceivedPFM, Idle, In, Cleared, Ports
    <3> QED
      BY <2>1, <3>1 DEF ReceivedPFM, Send
  <2>2. CASE Reply(s) \/ DeferredReply(s)
    BY <2>2 DEF Reply, DeferredReply, Send
  <2> QED
    BY <2>1, <2>2
<1> HIDE DEF r
<1>7. Frame(type, p.rx.from, s) \in Frames /\ Frame(type, p.rx.from, s).type = type
  BY <1>4, FrameTyped DEF Frame, FrameTypes
<1> QED
  BY <1>2, <1>3, <1>5, <1>6, <1>7, AnswerCalm

LEMMA PollCalm ==
  ASSUME TypeInv, Calm, NEW s \in Stations, port[s].on, Talks(s), OthersDone(s),
         Busy(port[s]) \/ port[s].silence >= Tno_token,
         ~Has(port[s], "PollForMaster"), ~Has(port[s], "Request"),
         NEW t \in Stations, NEW r \in Ports, r.on, r.rx = Nobody, r.fifo = <<>>, Poll(s, t, r),
         troubles = 0, troubles' = 0
  PROVE  Calm'
<1> DEFINE q == [r EXCEPT !.Poll_Station = t, !.RetryCount = 0, !.master_state = "POLL_FOR_MASTER"]
           f == Frame("PollForMaster", t, s)
<1>1. /\ q \in Ports /\ q.on /\ q.rx = Nobody /\ q.fifo = <<>> /\ q.master_state = "POLL_FOR_MASTER"
  BY Ranges DEF Ports, States
<1>2. Transmit(s, f, q)
  BY DEF Poll, Send
<1>3. f \in Frames /\ f.type = "PollForMaster" /\ f.from = s
  BY FrameTyped DEF Frame, FrameTypes
<1> HIDE DEF q, f
<1> QED
  BY <1>1, <1>2, <1>3, OwnerCalm

LEMMA PassCalm ==
  ASSUME TypeInv, Calm, NEW s \in Stations, port[s].on, Talks(s), OthersDone(s),
         Busy(port[s]) \/ port[s].silence >= Tno_token,
         ~Has(port[s], "PollForMaster"), ~Has(port[s], "Request"),
         NEW r \in Ports, r.on, r.rx = Nobody, r.fifo = <<>>, PassToken(s, r),
         troubles = 0, troubles' = 0
  PROVE  Calm'
<1> DEFINE q == [r EXCEPT !.RetryCount = 0, !.Heard = FALSE, !.master_state = "PASS_TOKEN"]
           f == Frame("Token", r.Next_Station, s)
<1>1. /\ q \in Ports /\ q.on /\ q.rx = Nobody /\ q.fifo = <<>> /\ q.master_state = "PASS_TOKEN"
      /\ Passes(q)
  BY Ranges DEF Ports, States, Passes
<1>2. Transmit(s, f, q)
  BY DEF PassToken, Send
<1>3. f \in Frames /\ f.type = "Token" /\ f.from = s
  BY FrameTyped, PortFields DEF Frame, FrameTypes
<1> HIDE DEF q, f
<1> QED
  BY <1>1, <1>2, <1>3, OwnerCalm

(* What a node that sends on its own account has seen.                     *)
LEMMA OwnerReady ==
  ASSUME TypeInv, Calm, NEW s \in Stations,
         \/ UseToken(s) \/ Done(s) \/ Unused(s) \/ GenerateToken(s)
         \/ Unanswered(s) \/ ReceivedReplyToPFM(s)
  PROVE  /\ port[s].on /\ Talks(s) /\ OthersDone(s)
         /\ Busy(port[s]) \/ port[s].silence >= Tno_token
         /\ ~Has(port[s], "PollForMaster") /\ ~Has(port[s], "Request")
         /\ port[s] \in Ports /\ port[s].fifo = <<>>
         /\ port[s].master_state # "POLL_FOR_MASTER" => port[s].rx = Nobody
<1> DEFINE p == port[s]
<1>1. PICK state \in {"USE_TOKEN", "DONE_WITH_TOKEN", "PASS_TOKEN", "NO_TOKEN", "POLL_FOR_MASTER"} :
        In(s, state)
  BY DEF UseToken, Done, Unused, GenerateToken, Unanswered, ReceivedReplyToPFM
<1>2. /\ p.on /\ p.master_state = state /\ (Talks(s) => OthersDone(s))
      /\ Proper(p) /\ p \in Ports /\ p.silence \in Nat
  BY <1>1, InCalm
<1>3. CASE UseToken(s) \/ Done(s)
  <2>1. p.master_state \in {"USE_TOKEN", "DONE_WITH_TOKEN"}
    BY <1>3 DEF UseToken, Done, In
  <2>2. Talks(s) /\ Busy(p) /\ p.rx = Nobody
    BY <1>2, <2>1 DEF Talks, Busy, Holds, Proper
  <2> QED
    BY <1>2, <2>2 DEF Has, Proper
<1>4. CASE Unused(s)
  <2>1. p.master_state = "PASS_TOKEN" /\ p.silence > Tusage_timeout
    BY <1>4 DEF Unused, In
  <2>2. p.silence # 0
    BY <2>1, Limits
  <2>3. Talks(s) /\ Busy(p) /\ p.rx = Nobody
    BY <1>2, <2>1, <2>2 DEF Talks, Busy, Passes, Proper
  <2> QED
    BY <1>2, <2>3 DEF Has, Proper
<1>5. CASE GenerateToken(s)
  <2>1. p.master_state = "NO_TOKEN" /\ MySlot(s)
    BY <1>5 DEF GenerateToken, In
  <2>2. p.silence >= Tno_token
    <3>1. Tslot * s \in Nat /\ Tno_token \in Nat
      BY Slots, Limits
    <3>2. p.silence >= Tno_token + Tslot * s
      BY <2>1 DEF MySlot
    <3> QED
      BY <1>2, <3>1, <3>2
  <2>3. p.silence # 0
    BY <2>2, Limits
  <2>4. Talks(s) /\ p.rx = Nobody
    BY <1>2, <2>1, <2>3 DEF Talks, Proper
  <2> QED
    BY <1>2, <2>2, <2>4 DEF Has, Proper
<1>6. CASE Unanswered(s) \/ ReceivedReplyToPFM(s)
  <2>1. /\ p.master_state = "POLL_FOR_MASTER"
        /\ \/ ~Valid(s) /\ (p.silence > Tusage_timeout \/ Got(s, "Invalid"))
           \/ Got(s, "ReplyToPoll")
    BY <1>6 DEF Unanswered, ReceivedReplyToPFM, In
  <2>2. Talks(s) /\ Busy(p)
    BY <2>1 DEF Talks, Busy, Holds
  <2>3. ~Has(p, "PollForMaster") /\ ~Has(p, "Request")
    BY <2>1 DEF Has, Valid, Got
  <2> QED
    BY <1>2, <2>1, <2>2, <2>3 DEF Proper
<1> QED
  BY <1>3, <1>4, <1>5, <1>6

LEMMA TokensCalm ==
  ASSUME TypeInv, Calm, NEW s \in Stations, troubles = 0, troubles' = 0,
         \/ NextStationUnknown(s) \/ SendToken(s)
         \/ SoleMasterRestartMaintenancePFM(s) \/ ResetMaintenancePFM(s) \/ SendMaintenancePFM(s)
         \/ RetrySendToken(s) \/ FindNewSuccessor(s) \/ GenerateToken(s)
         \/ ReceivedReplyToPFM(s) \/ DoneWithPFM(s) \/ SendNextPFM(s)
  PROVE  Calm'
<1> DEFINE p == port[s]
<1>1. Done(s) \/ Unused(s) \/ GenerateToken(s) \/ Unanswered(s) \/ ReceivedReplyToPFM(s)
  BY DEF NextStationUnknown, SendToken, SoleMasterRestartMaintenancePFM, ResetMaintenancePFM,
         SendMaintenancePFM, RetrySendToken, FindNewSuccessor, DoneWithPFM, SendNextPFM, Known,
         Maintenance
<1>2. /\ p.on /\ Talks(s) /\ OthersDone(s)
      /\ Busy(p) \/ p.silence >= Tno_token
      /\ ~Has(p, "PollForMaster") /\ ~Has(p, "Request")
      /\ p \in Ports /\ p.fifo = <<>>
      /\ p.master_state # "POLL_FOR_MASTER" => p.rx = Nobody
  BY <1>1, OwnerReady
<1>3. /\ p.Next_Station \in Stations /\ p.Poll_Station \in Stations
      /\ \A a \in Stations : After(a) \in Stations
  BY <1>2, PortFields, AfterStation
<1>4. ASSUME Done(s) \/ Unused(s) \/ GenerateToken(s)
      PROVE  p.rx = Nobody
  BY <1>2, <1>4 DEF Done, Unused, GenerateToken, In
<1>5. CASE NextStationUnknown(s) \/ SendMaintenancePFM(s)
  <2>1. p.rx = Nobody
    BY <1>4, <1>5 DEF NextStationUnknown, SendMaintenancePFM, Known, Maintenance
  <2> QED
    BY <1>2, <1>3, <1>5, <2>1, PollCalm DEF NextStationUnknown, SendMaintenancePFM
<1>6. CASE SendToken(s)
  <2> DEFINE r == [p EXCEPT !.TokenCount = p.TokenCount + 1]
  <2>1. Done(s) /\ p.TokenCount < Npoll - 1
    BY <1>6 DEF SendToken, Known
  <2>2. p.TokenCount + 1 \in 0 .. Npoll
    <3>1. p.TokenCount \in 0 .. Npoll /\ Npoll \in Nat
      BY <1>2, PortFields, Limits
    <3> QED
      BY <2>1, <3>1
  <2>3. r \in Ports /\ r.on /\ r.rx = Nobody /\ r.fifo = <<>>
    BY <1>2, <1>4, <2>1, <2>2 DEF Ports
  <2>4. PassToken(s, r)
    BY <1>6 DEF SendToken
  <2> HIDE DEF r
  <2> QED
    BY <1>2, <2>3, <2>4, PassCalm
<1>7. CASE SoleMasterRestartMaintenancePFM(s)
  <2> DEFINE r == [p EXCEPT !.Next_Station = s, !.TokenCount = 1]
  <2>1. r \in Ports /\ r.on /\ r.rx = Nobody /\ r.fifo = <<>>
    BY <1>2, <1>4, <1>7, Ranges DEF Ports, SoleMasterRestartMaintenancePFM, Maintenance, Known
  <2>2. Poll(s, After(p.Next_Station), r)
    BY <1>7 DEF SoleMasterRestartMaintenancePFM
  <2> HIDE DEF r
  <2> QED
    BY <1>2, <1>3, <2>1, <2>2, PollCalm
<1>8. CASE ResetMaintenancePFM(s)
  <2> DEFINE r == [p EXCEPT !.Poll_Station = s, !.TokenCount = 1]
  <2>1. r \in Ports /\ r.on /\ r.rx = Nobody /\ r.fifo = <<>>
    BY <1>2, <1>4, <1>8, Ranges DEF Ports, ResetMaintenancePFM, Maintenance, Known
  <2>2. PassToken(s, r)
    BY <1>8 DEF ResetMaintenancePFM
  <2> HIDE DEF r
  <2> QED
    BY <1>2, <2>1, <2>2, PassCalm
<1>9. CASE RetrySendToken(s)
  <2> DEFINE r == [p EXCEPT !.RetryCount = p.RetryCount + 1, !.Heard = FALSE]
             f == Frame("Token", p.Next_Station, s)
  <2>1. Unused(s) /\ p.master_state = "PASS_TOKEN" /\ p.RetryCount < Nretry_token
    BY <1>9 DEF RetrySendToken, Unused, In
  <2>2. p.RetryCount + 1 \in 0 .. Nretry_token
    <3>1. p.RetryCount \in 0 .. Nretry_token /\ Nretry_token \in Nat
      BY <1>2, PortFields, Limits
    <3> QED
      BY <2>1, <3>1
  <2>3. /\ r \in Ports /\ r.on /\ r.rx = Nobody /\ r.fifo = <<>>
        /\ r.master_state = "PASS_TOKEN" /\ Passes(r)
    BY <1>2, <1>4, <2>1, <2>2 DEF Ports, Passes
  <2>4. Transmit(s, f, r)
    BY <1>9 DEF RetrySendToken, Send
  <2>5. f \in Frames /\ f.type = "Token" /\ f.from = s
    BY <1>3, FrameTyped DEF Frame, FrameTypes
  <2> HIDE DEF r, f
  <2> QED
    BY <1>2, <2>3, <2>4, <2>5, OwnerCalm
<1>10. CASE FindNewSuccessor(s) \/ GenerateToken(s)
  <2> DEFINE r == [p EXCEPT !.Next_Station = s, !.TokenCount = 0]
  <2>1. r \in Ports /\ r.on /\ r.rx = Nobody /\ r.fifo = <<>>
    BY <1>2, <1>4, <1>10, Ranges DEF Ports, FindNewSuccessor
  <2>2. Poll(s, After(p.Next_Station), r) \/ Poll(s, After(s), r)
    BY <1>10 DEF FindNewSuccessor, GenerateToken
  <2> HIDE DEF r
  <2> QED
    BY <1>2, <1>3, <2>1, <2>2, PollCalm
<1>11. CASE ReceivedReplyToPFM(s)
  <2> DEFINE r == [Cleared(s) EXCEPT !.SoleMaster = FALSE, !.Next_Station = p.rx.from,
                                     !.Poll_Station = s, !.TokenCount = 0]
  <2>1. p.rx.from \in Stations
    BY <1>2, <1>11, PortFields, FrameFields DEF ReceivedReplyToPFM, Got
  <2>2. r \in Ports /\ r.on /\ r.rx = Nobody /\ r.fifo = <<>>
    BY <1>2, <2>1, Ranges DEF Ports, Cleared
  <2>3. PassToken(s, r)
    BY <1>11 DEF ReceivedReplyToPFM
  <2> HIDE DEF r
  <2> QED
    BY <1>2, <2>2, <2>3, PassCalm
<1>12. CASE DoneWithPFM(s) \/ SendNextPFM(s)
  <2> DEFINE r == Cleared(s)
  <2>1. r \in Ports /\ r.on /\ r.rx = Nobody /\ r.fifo = <<>>
    BY <1>2 DEF Ports, Cleared
  <2>2. PassToken(s, r) \/ Poll(s, After(p.Poll_Station), r)
    BY <1>12 DEF DoneWithPFM, SendNextPFM
  <2> HIDE DEF r
  <2> QED
    BY <1>2, <1>3, <2>1, <2>2, PassCalm, PollCalm
<1> QED
  BY <1>5, <1>6, <1>7, <1>8, <1>9, <1>10, <1>11, <1>12

LEMMA UseTokenCalm ==
  ASSUME TypeInv, Calm, NEW s \in Stations, UseToken(s), troubles = 0, troubles' = 0
  PROVE  Calm'
<1> DEFINE p == port[s]
           pkt == Head(PDU_Queue[s])
           f == Frame(IF pkt.reply THEN "Data" ELSE "Request", pkt.to, s)
           state == IF pkt.reply THEN "DONE_WITH_TOKEN" ELSE "WAIT_FOR_REPLY"
           r == [p EXCEPT !.FrameCount = p.FrameCount + 1, !.master_state = state]
<1>1. /\ p.on /\ Talks(s) /\ OthersDone(s)
      /\ Busy(p) \/ p.silence >= Tno_token
      /\ ~Has(p, "PollForMaster") /\ ~Has(p, "Request")
      /\ p \in Ports /\ p.fifo = <<>>
      /\ p.master_state # "POLL_FOR_MASTER" => p.rx = Nobody
  BY OwnerReady
<1>2. /\ Transmit(s, f, r) /\ PDU_Queue' = [PDU_Queue EXCEPT ![s] = Tail(@)]
      /\ PDU_Queue[s] # <<>> /\ p.master_state = "USE_TOKEN"
  BY DEF UseToken, In
<1>3. pkt.to \in Stations
  BY <1>2, TailTyped DEF Packets
<1>4. /\ f.type = (IF pkt.reply THEN "Data" ELSE "Request") /\ f.from = s
      /\ f.to = pkt.to
  BY DEF Frame
<1>5. f \in Frames
  <2>1. f = Frame("Data", pkt.to, s) \/ f = Frame("Request", pkt.to, s)
    OBVIOUS
  <2> HIDE DEF f, pkt
  <2> QED
    BY <1>3, <2>1, FrameTyped DEF FrameTypes
<1>6. p.FrameCount + 1 \in 0 .. Nmax_info_frames
  <2>1. p.FrameCount \in 0 .. Nmax_info_frames /\ p.FrameCount < Nmax_info_frames
    BY <1>1, <1>2, PortFields, TypeParts DEF Typed
  <2> QED
    BY <2>1, Limits
<1>7. /\ r \in Ports /\ r.on /\ r.rx = Nobody /\ r.fifo = <<>>
      /\ r.master_state = state
  <2>1. state \in States
    BY DEF States
  <2> HIDE DEF state
  <2> QED
    BY <1>1, <1>2, <1>6, <2>1 DEF Ports
<1>8. f.type \in {"Data", "Request"} /\ (f.type = "Request" => state = "WAIT_FOR_REPLY")
      /\ state # "ANSWER_DATA_REQUEST"
  BY <1>4
<1> HIDE DEF f, r, state, pkt
<1> QED
  BY <1>1, <1>2, <1>4, <1>5, <1>7, <1>8, OwnerCalm

-----------------------------------------------------------------------------
(* Time, the application layers and the power.                             *)

(* A tick lets every wait go on within its limit.                          *)
LEMMA TickCalm ==
  ASSUME TypeInv, Calm, Tick, troubles = 0, troubles' = 0
  PROVE  Calm'
<1>1. \A u \in Live : Resting(u)
  BY DEF Tick
<1>2. /\ running = Nobody /\ running' = Nobody /\ switches' = switches
      /\ \A u \in Stations : port'[u] = IF port[u].on /\ port[u].silence < Horizon
                                        THEN [port[u] EXCEPT !.silence = @ + 1] ELSE port[u]
  BY DEF Tick
<1>3. ASSUME NEW u \in Stations
      PROVE  /\ port'[u].on <=> port[u].on
             /\ port'[u].master_state = port[u].master_state /\ port'[u].Heard = port[u].Heard
             /\ port'[u].rx = port[u].rx /\ port'[u].fifo = port[u].fifo
             /\ port'[u].silence = IF port[u].on /\ port[u].silence < Horizon
                                   THEN port[u].silence + 1 ELSE port[u].silence
  <2>1. port[u] \in Ports
    BY SilenceTyped
  <2>2. CASE port[u].on /\ port[u].silence < Horizon
    <3>1. port'[u] = [port[u] EXCEPT !.silence = port[u].silence + 1]
      BY <1>2, <2>2
    <3> QED
      BY <2>1, <2>2, <3>1 DEF Ports
  <2>3. CASE ~(port[u].on /\ port[u].silence < Horizon)
    BY <1>2, <2>3
  <2> QED
    BY <2>2, <2>3
<1>4. Live' = Live /\ \A u \in Live : u \in Stations /\ port[u].on
  BY <1>3, LiveNext DEF Live
<1>5. ASSUME NEW u \in Live
      PROVE  /\ Busy(port'[u]) <=> Busy(port[u])
             /\ port[u].silence \in Nat /\ Proper(port[u])
             /\ port'[u].silence \in {port[u].silence, port[u].silence + 1}
  BY <1>3, <1>4, SilenceTyped DEF Busy, Asked, Has, Holds, Passes, Calm, AllProper
<1>6. ASSUME NEW u \in Live
      PROVE  /\ port[u].rx # Nobody => port[u].master_state = "ANSWER_DATA_REQUEST"
             /\ port[u].master_state = "ANSWER_DATA_REQUEST" => port[u].silence <= Treply_delay
             /\ port[u].master_state = "WAIT_FOR_REPLY" => port[u].silence < Treply_timeout
             /\ port[u].master_state \in {"PASS_TOKEN", "POLL_FOR_MASTER"} =>
                  port[u].silence <= Tusage_timeout
             /\ port[u].master_state \notin {"INITIALIZE", "USE_TOKEN", "DONE_WITH_TOKEN"}
             /\ port[u].master_state = "PASS_TOKEN" => ~port[u].Heard
  <2>1. Settled(u) /\ Proper(port[u])
    BY <1>1, <1>5 DEF Resting
  <2>2. port[u].master_state \in States
    BY <1>4, SilenceTyped, PortFields
  <2> QED
    BY <2>1, <2>2 DEF Settled, States, Proper
<1>7. ASSUME NEW u \in Live
      PROVE  Proper(port'[u])
  <2>1. /\ port'[u].master_state = port[u].master_state /\ port'[u].Heard = port[u].Heard
        /\ port'[u].rx = port[u].rx /\ port'[u].fifo = port[u].fifo
    BY <1>3, <1>4
  <2>2. /\ port[u].master_state = "ANSWER_DATA_REQUEST" => port'[u].silence <= Treply_delay + 1
        /\ port[u].master_state = "WAIT_FOR_REPLY" => port'[u].silence <= Treply_timeout
        /\ port[u].master_state \in {"PASS_TOKEN", "POLL_FOR_MASTER"} =>
             port'[u].silence <= Tusage_timeout + 1 /\ port'[u].silence <= Treply_timeout
    BY <1>5, <1>6, Limits
  <2> QED
    BY <1>5, <1>6, <2>1, <2>2 DEF Proper, Has, Holds
<1>8. ASSUME NEW y \in Live, NEW u \in Live, Busy(port'[y])
      PROVE  port'[u].silence <= port'[y].silence
  <2>1. port[u].silence <= port[y].silence
    BY <1>5, <1>8 DEF Calm, Ordered
  <2> DEFINE a == port[u].silence
             b == port[y].silence
  <2>2. a \in Nat /\ b \in Nat /\ Horizon \in Nat
    BY <1>5, Slots
  <2>3. /\ port'[u].silence = IF a < Horizon THEN a + 1 ELSE a
        /\ port'[y].silence = IF b < Horizon THEN b + 1 ELSE b
    BY <1>3, <1>4
  <2> HIDE DEF a, b
  <2>4. a <= b
    BY <2>1 DEF a, b
  <2>5. a <= Horizon /\ b <= Horizon
    BY <1>4, SilenceTyped, PortFields DEF a, b
  <2> QED
    BY <2>2, <2>3, <2>4, <2>5
<1>9. ASSUME NEW y \in Live, NEW z \in Live, y # z, Busy(port'[y]), Busy(port'[z])
      PROVE  Leads(port'[y], port'[z]) \/ Leads(port'[z], port'[y])
  <2>1. Leads(port[y], port[z]) \/ Leads(port[z], port[y])
    BY <1>5, <1>9 DEF Calm, Paired
  <2>2. ASSUME NEW u \in Live, NEW v \in Live, Leads(port[u], port[v])
        PROVE  Leads(port'[u], port'[v])
    <3>1. Has(port[v], "Token") => FALSE
      BY <1>5, <1>6 DEF Has, Proper
    <3>2. Has(port[v], "PollForMaster") => FALSE
      BY <1>5, <1>6 DEF Has, Proper
    <3>3. /\ port[u].rx = Nobody /\ port[u].master_state = "WAIT_FOR_REPLY"
          /\ Has(port[v], "Request") /\ ~Holds(port[v])
      BY <1>6, <2>2, <3>1, <3>2 DEF Leads
    <3> QED
      BY <1>3, <1>4, <3>3 DEF Leads, Has, Holds
  <2> QED
    BY <2>1, <2>2
<1>10. ASSUME switches' = 0, NEW t \in Live, Has(port'[t], "Request")
       PROVE  port'[t].rx.from \in Live /\ WaitsOpen(port'[port'[t].rx.from])
  <2>1. port'[t].rx = port[t].rx /\ Has(port[t], "Request")
    BY <1>3, <1>4, <1>10 DEF Has
  <2>2. port[t].rx.from \in Live /\ WaitsOpen(port[port[t].rx.from])
    BY <1>2, <1>10, <2>1 DEF Calm, Awaited
  <2> QED
    BY <1>3, <1>4, <2>1, <2>2 DEF WaitsOpen
<1>11. RunQuiet'
  BY <1>2 DEF RunQuiet
<1> QED
  BY <1>4, <1>7, <1>8, <1>9, <1>10, <1>11, CalmNext

LEMMA FreshCalm ==
  ASSUME NEW s
  PROVE  Proper(Fresh(s)) /\ ~Busy(Fresh(s)) /\ Fresh(s).silence = 0
BY DEF Fresh, Proper, Busy, Asked, Has, Holds, Passes

LEMMA SwitchCalm ==
  ASSUME TypeInv, Calm, NEW s \in Stations, Switch(s)
  PROVE  Calm'
<1>1. /\ running' = Nobody /\ switches' # 0 /\ DOMAIN port = Stations
      /\ port' = [port EXCEPT ![s] = IF port[s].on THEN Off(s) ELSE Fresh(s)]
  BY TypeParts DEF Switch
<1>2. /\ \A u \in Stations \ {s} : port'[u] = port[u]
      /\ port'[s] = Off(s) \/ port'[s] = Fresh(s)
  BY <1>1
<1>3. \A u \in Live' : u \in Stations /\ (u # s => u \in Live /\ port'[u] = port[u])
  BY <1>2, LiveNext DEF Live
<1>4. s \in Live' => port'[s] = Fresh(s)
  BY <1>2, LiveNext DEF Off, Fresh
<1>5. Proper(Fresh(s)) /\ ~Busy(Fresh(s)) /\ Fresh(s).silence = 0
  BY FreshCalm
<1>6. \A u \in Live' : Proper(port'[u])
  BY <1>3, <1>4, <1>5 DEF Calm, AllProper
<1>7. ASSUME NEW y \in Live', NEW u \in Live', Busy(port'[y])
      PROVE  port'[u].silence <= port'[y].silence
  <2>1. y # s /\ y \in Live /\ port'[y] = port[y] /\ y \in Stations
    BY <1>3, <1>4, <1>5, <1>7
  <2>2. CASE u = s
    BY <1>4, <1>5, <1>7, <2>1, <2>2, SilenceTyped
  <2>3. CASE u # s
    BY <1>3, <1>7, <2>1, <2>3 DEF Calm, Ordered
  <2> QED
    BY <2>2, <2>3
<1>8. \A y, z \in Live' : y # z /\ Busy(port'[y]) /\ Busy(port'[z]) =>
        Leads(port'[y], port'[z]) \/ Leads(port'[z], port'[y])
  BY <1>3, <1>4, <1>5 DEF Calm, Paired
<1>9. RunQuiet'
  BY <1>1 DEF RunQuiet
<1> QED
  BY <1>1, <1>6, <1>7, <1>8, <1>9, CalmNext

LEMMA AroundCalm ==
  ASSUME TypeInv, Calm, NEW s \in Stations, NEW t \in Stations,
         Ask(s, t) \/ Application(s) \/ NoTransition(s) \/ ReadFrame(s)
  PROVE  Calm'
<1>1. ~ReadFrame(s)
  <2>1. port[s].on => Proper(port[s])
    BY DEF Calm, AllProper, Live
  <2> QED
    BY <2>1 DEF ReadFrame, Proper
<1>2. /\ UNCHANGED <<port, switches>> /\ running' = Nobody
  BY <1>1 DEF Ask, Application, NoTransition, bounds
<1>3. Live' = Live
  BY <1>2, LiveNext DEF Live
<1>4. RunQuiet'
  BY <1>2 DEF RunQuiet
<1> QED
  BY <1>2, <1>3, <1>4, CalmNext DEF Calm, AllProper, Ordered, Paired, Awaited

LEMMA InitCalm == Init => Calm
<1> SUFFICES ASSUME Init PROVE Calm
  OBVIOUS
<1>1. PICK up \in SUBSET Stations :
        port = [s \in Stations |-> IF s \in up THEN Fresh(s) ELSE Off(s)]
  BY DEF Init
<1>2. \A s \in Live : port[s] = Fresh(s)
  BY <1>1 DEF Live, Off, Fresh
<1>3. \A s \in Live : Proper(port[s]) /\ ~Busy(port[s])
  BY <1>2, FreshCalm
<1>4. Awaited
  BY <1>3 DEF Awaited, Busy, Asked
<1> QED
  BY <1>3, <1>4 DEF Init, Calm, AllProper, Ordered, Paired, RunQuiet

LEMMA NextCalm ==
  ASSUME TypeInv, troubles = 0 => Calm, [Next]_vars, troubles' = 0
  PROVE  Calm'
<1>1. troubles = 0 /\ Calm
  <2>1. troubles \in Nat
    BY TypeParts, Limits
  <2>2. troubles' \in {troubles, troubles + 1}
    <3>1. CASE UNCHANGED vars
      BY <3>1 DEF vars, bounds
    <3>2. CASE Tick
      BY <3>2 DEF Tick
    <3>3. ASSUME NEW s \in Stations, NEW t \in Stations, Ask(s, t) \/ Application(s) \/ Switch(s)
          PROVE  troubles' = troubles
      BY <3>3 DEF Ask, Application, Switch, bounds
    <3>4. ASSUME NEW s \in Stations, Step(s)
          PROVE  troubles' \in {troubles, troubles + 1}
      <4>1. \A f, r : Transmit(s, f, r) => troubles' \in {troubles, troubles + 1}
        BY DEF Transmit
      <4>2. \A r, again : Local(s, r, again) => troubles' = troubles
        BY DEF Local, bounds
      <4>3. CASE \/ DoneInitializing(s) \/ LostToken(s) \/ IgnoredFrame(s) \/ ReceivedToken(s)
                 \/ NothingToSend(s) \/ ReplyTimeout(s) \/ InvalidFrame(s)
                 \/ UnexpectedWhileWaiting(s) \/ SendAnotherFrame(s) \/ SoleMaster(s)
                 \/ SawTokenUser(s) \/ SawFrame(s) \/ UnexpectedWhilePolling(s)
                 \/ SoleMasterAgain(s) \/ DeclareSoleMaster(s)
        BY <4>2, <4>3, Zenon
           DEF DoneInitializing, LostToken, IgnoredFrame, ReceivedToken, NothingToSend,
               ReplyTimeout, InvalidFrame, UnexpectedWhileWaiting, SendAnotherFrame, SoleMaster,
               SawTokenUser, SawFrame, UnexpectedWhilePolling, SoleMasterAgain, DeclareSoleMaster
      <4>4. CASE \/ ReceivedDataNoReply(s) \/ ReceivedDataNeedingReply(s) \/ ReceivedReply(s)
                 \/ NoTransition(s) \/ ReadFrame(s)
        BY <4>4 DEF ReceivedDataNoReply, ReceivedDataNeedingReply, ReceivedReply, NoTransition,
                    ReadFrame, bounds
      <4>5. CASE ReceivedPFM(s) \/ Reply(s) \/ DeferredReply(s) \/ UseToken(s)
        BY <4>1, <4>5, Zenon DEF ReceivedPFM, Reply, DeferredReply, UseToken, Send
      <4>6. CASE \/ NextStationUnknown(s) \/ SendToken(s)
                 \/ SoleMasterRestartMaintenancePFM(s) \/ ResetMaintenancePFM(s)
                 \/ SendMaintenancePFM(s)
                 \/ RetrySendToken(s) \/ FindNewSuccessor(s) \/ GenerateToken(s)
                 \/ ReceivedReplyToPFM(s) \/ DoneWithPFM(s) \/ SendNextPFM(s)
        <5>1. \E type, to, r : Send(s, type, to, r)
          BY <4>6, Zenon
             DEF NextStationUnknown, SendToken, SoleMasterRestartMaintenancePFM,
                 ResetMaintenancePFM, SendMaintenancePFM, RetrySendToken, FindNewSuccessor,
                 GenerateToken, ReceivedReplyToPFM, DoneWithPFM, SendNextPFM, Poll, PassToken
        <5> QED
          BY <4>1, <5>1, Zenon DEF Send
      <4> QED
        BY <3>4, <4>3, <4>4, <4>5, <4>6 DEF Step
    <3> QED
      BY <3>1, <3>2, <3>3, <3>4 DEF Next
  <2> QED
    BY <2>1, <2>2
<1>2. CASE UNCHANGED vars
  <2>1. Live' = Live
    BY <1>2, LiveNext DEF Live, vars
  <2>2. RunQuiet'
    <3>1. ASSUME running' # Nobody
          PROVE  running' \in Live' /\ (Talks(running) => OthersDone(running))'
      <4>1. PICK s \in Live : s = running
        BY <1>1, <1>2, <3>1 DEF vars, Calm, RunQuiet
      <4>2. Talks(s) => OthersDone(s)
        BY <1>1, <4>1, <3>1, <1>2 DEF vars, Calm, RunQuiet
      <4>3. \A t \in Live : /\ Talks(t)' <=> Talks(t)
                            /\ (Resting(t) \/ Talks(t))' <=> (Resting(t) \/ Talks(t))
        BY <1>2, SameTalk DEF vars
      <4>4. Talks(s)' => OthersDone(s)'
        BY <2>1, <4>2, <4>3 DEF OthersDone
      <4>5. running' = s
        BY <1>2, <4>1 DEF vars
      <4> QED
        BY <2>1, <4>4, <4>5
    <3> QED
      BY <3>1 DEF RunQuiet
  <2> QED
    BY <1>1, <1>2, <2>1, <2>2, CalmNext DEF vars, bounds, Calm, AllProper, Ordered, Paired, Awaited
<1>3. CASE Tick
  BY <1>1, <1>3, TickCalm
<1>4. ASSUME NEW s \in Stations, NEW t \in Stations, Ask(s, t) \/ Application(s) \/ Switch(s)
      PROVE  Calm'
  BY <1>1, <1>4, AroundCalm, SwitchCalm
<1>5. ASSUME NEW s \in Stations, Step(s)
      PROVE  Calm'
  BY <1>1, <1>5, IdleCalm, ReturnsCalm, IdlesAgainCalm, UseCalm, ReceivedCalm, RepliesCalm,
     TokensCalm, UseTokenCalm, AroundCalm DEF Step
<1> QED
  BY <1>2, <1>3, <1>4, <1>5 DEF Next

-----------------------------------------------------------------------------
(* The theorems.                                                           *)

(* In every behaviour the ports are typed and, until the first frame is    *)
(* damaged or the first tick is missed, the bus is calm: of two nodes that *)
(* hold, watch or are given the token, or that have to answer, one waits   *)
(* for the other.                                                          *)
THEOREM RingInductive == Spec => []IInv
<1>1. Init => IInv
  BY InitTyped, InitCalm DEF IInv
<1>2. IInv /\ [Next]_vars => IInv'
  BY NextTyped, NextCalm DEF IInv
<1> QED
  BY <1>1, <1>2, PTL DEF Spec

LEMMA TokenShared == IInv => OneToken
<1> SUFFICES ASSUME TypeInv, Calm
             PROVE  Cardinality({s \in Live : HasToken(s) \/ TokenSent(s)}) <= 1
  BY DEF IInv, OneToken
<1> DEFINE S == {s \in Live : HasToken(s) \/ TokenSent(s)}
<1>1. ASSUME NEW s \in S
      PROVE  s \in Live /\ (Holds(port[s]) \/ Has(port[s], "Token")) /\ Busy(port[s])
  <2>1. port[s].fifo = <<>>
    BY <1>1 DEF Calm, AllProper, Proper
  <2>2. ~ \E i \in DOMAIN port[s].fifo : port[s].fifo[i].type = "Token" /\ port[s].fifo[i].to = s
    BY <2>1
  <2> QED
    BY <1>1, <2>2 DEF HasToken, TokenSent, Holds, Has, Got, Busy, Asked
<1>2. ASSUME NEW a \in S, NEW b \in S
      PROVE  ~Leads(port[a], port[b])
  BY <1>1 DEF Leads, Holds, Has, Passes
<1>3. ASSUME NEW a \in S, NEW b \in S
      PROVE  a = b
  BY <1>1, <1>2 DEF Calm, Paired
<1>4. CASE S = {}
  BY <1>4, FS_EmptySet
<1>5. CASE S # {}
  <2>1. PICK a \in S : TRUE
    BY <1>5
  <2>2. S = {a}
    BY <1>3, <2>1
  <2>3. Cardinality({a}) = 1
    BY FS_Singleton
  <2> QED
    BY <2>2, <2>3
<1> QED
  BY <1>4, <1>5

(* For any number of nodes and any limits: the fields keep their ranges,   *)
(* and while every frame arrives in time at most one node has the token or *)
(* is about to receive it, whoever is switched on or off or makes a token. *)
THEOREM RingBusSound == Spec => []BusSound
<1>1. IInv => BusSound
  BY TokenShared DEF IInv, TypeInv, BusSound
<1> QED
  BY <1>1, RingInductive, PTL

(* For any number of nodes and any limits in the order of mstp.c: a node   *)
(* that prepares an answer is waited for, while every frame arrives in     *)
(* time and no node is switched.                                           *)
THEOREM RingAnswerAwaited == Spec => []AnswerAwaited
<1>1. IInv => AnswerAwaited
  <2> SUFFICES ASSUME Calm, switches = 0, NEW s \in Live,
                      port[s].master_state = "ANSWER_DATA_REQUEST"
               PROVE  port[port[s].rx.from].master_state = "WAIT_FOR_REPLY"
    BY DEF IInv, AnswerAwaited
  <2>1. Has(port[s], "Request")
    BY DEF Calm, AllProper, Proper
  <2> QED
    BY <2>1 DEF Calm, Awaited, WaitsOpen
<1> QED
  BY <1>1, RingInductive, PTL
=============================================================================
