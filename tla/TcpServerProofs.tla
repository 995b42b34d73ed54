--------------------------- MODULE TcpServerProofs ---------------------------
(***************************************************************************)
(* Proofs about TcpServer: for any clients, slots, queue and assignment of *)
(* master numbers, the server's table agrees with the kernel's, a session  *)
(* is its client's, and an answer reaches the client that asked.           *)
(***************************************************************************)
EXTENDS TcpServer, FiniteSetTheorems, WellFoundedInduction, SequenceTheorems, TLAPS

(* A nonempty set of numbers has a least one.                              *)
LEMMA LeastNumber ==
  ASSUME NEW S, S \subseteq Nat, S # {}
  PROVE  \E k \in S : \A j \in S : k <= j
<1> DEFINE R == OpToRel(<, Nat)
<1>1. IsWellFoundedOn(R, Nat)
  BY NatLessThanWellFounded
<1>2. \A x, y \in Nat : <<x, y>> \in R <=> x < y
  BY DEF OpToRel
<1> HIDE DEF R
<1>3. PICK k \in S : \A j \in S : <<j, k>> \notin R
  BY <1>1, WFMin, Zenon
<1>4. ASSUME NEW j \in S
      PROVE  k <= j
  <2>1. ~(j < k)
    BY <1>2, <1>3
  <2> QED
    BY <2>1
<1> QED
  BY <1>4

(* A frame is on its way for a client only as long as that client's        *)
(* connection has the number the frame carries.                            *)
TrueFrame(f) ==
    f.from # Nobody => /\ f.sock \in Fds
                       /\ owner[f.sock] = f.from
                       /\ state[f.from] = "up"

FramesTrue == TrueFrame(cur) /\ \A n \in DOMAIN queue : TrueFrame(queue[n])

(* A client is in one place: it waits once to be accepted, or it has one   *)
(* descriptor, and whoever is in neither place is away.                    *)
OnePlace ==
    /\ \A m, n \in DOMAIN backlog : backlog[m] = backlog[n] => m = n
    /\ \A n \in DOMAIN backlog : /\ state[backlog[n]] # "away"
                                 /\ \A f \in Fds : owner[f] # backlog[n]
    /\ \A f, g \in OpenFds : owner[f] = owner[g] => f = g
    /\ \A f \in OpenFds : state[owner[f]] # "away"

(* The inductive invariant.                                                *)
IInv == TypeOK /\ SlotsConsistent /\ SessionOfClient /\ FramesTrue /\ OnePlace

----------------------------------------------------------------------------
(* Facts about the constants and the state *)

LEMMA Numbers ==
    /\ MAXCLINE \in Nat /\ MAXCLINE > 0
    /\ Listener \notin Fds /\ 0 \notin Fds /\ Fds \subseteq Int
    /\ Slots \subseteq Int
    /\ IsFiniteSet(Slots) /\ Cardinality(Slots) = MAXCLINE
<1>1. MAXCLINE \in Nat /\ MAXCLINE > 0
  BY ServerAssumption
<1>2. 0 \in Int /\ MAXCLINE - 1 \in Int
  BY <1>1
<1>3. IsFiniteSet(Slots) /\ Cardinality(Slots) = MAXCLINE
  BY <1>1, <1>2, FS_Interval DEF Slots
<1> QED
  BY <1>1, <1>3 DEF Listener, Fds, Slots

LEMMA UsedFinite ==
    /\ IsFiniteSet(SlotsInUse)
    /\ Cardinality(SlotsInUse) \in 0 .. MAXCLINE
    /\ Cardinality(SlotsInUse) < MAXCLINE => \E k \in Slots : fd[k] = 0
<1>1. SlotsInUse \subseteq Slots
  BY DEF SlotsInUse
<1>2. /\ IsFiniteSet(SlotsInUse)
      /\ Cardinality(SlotsInUse) \in Nat
      /\ Cardinality(SlotsInUse) <= MAXCLINE
  BY <1>1, Numbers, FS_Subset, FS_CardinalityType
<1>3. Cardinality(SlotsInUse) \in 0 .. MAXCLINE
  BY <1>2, Numbers
<1>4. ASSUME Cardinality(SlotsInUse) < MAXCLINE
      PROVE  \E k \in Slots : fd[k] = 0
  <2>1. SlotsInUse # Slots
    BY <1>4, Numbers
  <2> QED
    BY <2>1 DEF SlotsInUse
<1> QED
  BY <1>2, <1>3, <1>4

(* A slot the scan finds ready holds a connection of a client.             *)
LEMMA ReadySlot ==
    ASSUME IInv, NEW k \in Slots, IsReady(k)
    PROVE  /\ k \in SlotsInUse
           /\ fd[k] \in OpenFds
           /\ fd[k] \in Fds
           /\ Client(k) \in Clients
           /\ Client(k) = owner[fd[k]]
<1>1. fd[k] \in Fds
  BY Numbers DEF IInv, TypeOK, IsReady, Listener
<1>2. k \in SlotsInUse
  BY <1>1, Numbers DEF SlotsInUse
<1>3. fd[k] \in OpenFds
  BY <1>2 DEF IInv, SlotsConsistent
<1>4. owner[fd[k]] \in Clients
  BY <1>3 DEF OpenFds, IInv, TypeOK
<1> QED
  BY <1>1, <1>2, <1>3, <1>4 DEF Client

----------------------------------------------------------------------------
(* What a step that leaves the tables alone keeps *)

LEMMA TableKept ==
    ASSUME IInv, UNCHANGED <<fd, conn_amount, MaxSock, owner>>
    PROVE  SlotsConsistent'
BY DEF IInv, SlotsConsistent, SlotsInUse, OpenFds

LEMMA SessionKept ==
    ASSUME IInv, UNCHANGED <<fd, owner, Pcontext, fd_index_to_master, config>>
    PROVE  SessionOfClient'
BY DEF IInv, SessionOfClient, Client, config

LEMMA PlaceKept ==
    ASSUME IInv, UNCHANGED <<owner, backlog, state>>
    PROVE  OnePlace'
BY DEF IInv, OnePlace, OpenFds

LEMMA FramesKept ==
    ASSUME IInv, UNCHANGED <<owner, state, queue, cur>>
    PROVE  FramesTrue'
BY DEF IInv, FramesTrue, TrueFrame

(* A step of the scan that ends no connection goes on to the next slot.    *)
LEMMA ScanNext ==
    ASSUME IInv, NEW k \in Slots, InScan(k), i' = i + 1
    PROVE  i' \in 0 .. MAXCLINE
BY Numbers DEF IInv, TypeOK, InScan, Slots

----------------------------------------------------------------------------
(* The clients *)

LEMMA DialStep ==
    ASSUME IInv, NEW c \in Clients, Dial(c), UNCHANGED config
    PROVE  IInv'
<1> USE DEF Dial, server, msg_rx, config
<1>0. /\ backlog \in Seq(Clients) /\ Len(backlog) \in Nat
      /\ DOMAIN backlog = 1 .. Len(backlog)
      /\ backlog' \in Seq(Clients)
      /\ DOMAIN backlog' = 1 .. Len(backlog) + 1
      /\ \A n \in DOMAIN backlog' :
            backlog'[n] = IF n = Len(backlog) + 1 THEN c ELSE backlog[n]
  BY DEF IInv, TypeOK
<1>1. TypeOK'
  BY <1>0 DEF IInv, TypeOK
<1>2. SlotsConsistent' /\ SessionOfClient'
  BY TableKept, SessionKept
<1>3. FramesTrue'
  BY DEF IInv, TypeOK, FramesTrue, TrueFrame, Frames
<1>4. OnePlace'
  <2>1. \A n \in DOMAIN backlog : backlog[n] # c
    BY DEF IInv, OnePlace
  <2>2. \A f \in Fds : owner[f] # c
    BY ServerAssumption DEF IInv, OnePlace, OpenFds
  <2>3. \A m, n \in DOMAIN backlog' : backlog'[m] = backlog'[n] => m = n
    BY <1>0, <2>1 DEF IInv, OnePlace
  <2>4. \A n \in DOMAIN backlog' : /\ state'[backlog'[n]] # "away"
                                   /\ \A f \in Fds : owner'[f] # backlog'[n]
    BY <1>0, <2>1, <2>2 DEF IInv, OnePlace, TypeOK
  <2>5. \A f \in OpenFds' : state'[owner'[f]] # "away"
    BY <2>2 DEF IInv, OnePlace, TypeOK, OpenFds
  <2> QED
    BY <2>3, <2>4, <2>5 DEF IInv, OnePlace, OpenFds
<1> QED
  BY <1>1, <1>2, <1>3, <1>4 DEF IInv

LEMMA RequestStep ==
    ASSUME IInv, NEW c \in Clients, Request(c), UNCHANGED config
    PROVE  IInv'
<1> USE DEF Request, server, msg_rx, config
<1>1. TypeOK'
  BY ServerAssumption DEF IInv, TypeOK
<1> QED
  BY <1>1, TableKept, SessionKept, PlaceKept, FramesKept DEF IInv

LEMMA LeaveStep ==
    ASSUME IInv, NEW c \in Clients, Leave(c), UNCHANGED config
    PROVE  IInv'
<1> USE DEF Leave, server, config
<1>0. \A f \in Frames : /\ Forget(f, c) \in Frames
                        /\ Forget(f, c).sock = f.sock
                        /\ Forget(f, c).from # c
                        /\ Forget(f, c).from # Nobody => Forget(f, c) = f
  BY ServerAssumption DEF Forget, Frames
<1>1. /\ DOMAIN queue' = DOMAIN queue
      /\ \A n \in DOMAIN queue : /\ queue[n] \in Frames
                                 /\ queue'[n] = Forget(queue[n], c)
      /\ queue' \in Seq(Frames)
  <2>1. queue \in Seq(Frames)
    BY DEF IInv, TypeOK
  <2>2. \A n \in 1 .. Len(queue) : Forget(queue[n], c) \in Frames
    BY <2>1, <1>0
  <2> QED
    BY <2>1, <2>2, IsASeq
<1>2. cur \in Frames /\ cur' = Forget(cur, c)
  BY DEF IInv, TypeOK
<1>3. TypeOK'
  BY <1>0, <1>1, <1>2 DEF IInv, TypeOK
<1>4. SlotsConsistent' /\ SessionOfClient'
  BY TableKept, SessionKept
<1>5. ASSUME NEW f \in Frames, TrueFrame(f)
      PROVE  TrueFrame(Forget(f, c))'
  <2>1. state \in [Clients -> {"away", "up", "shut"}]
    BY DEF IInv, TypeOK
  <2>2. Forget(f, c).from # Nobody =>
            /\ Forget(f, c) = f /\ f.from # c /\ f.from \in Clients
            /\ state'[f.from] = state[f.from]
    BY <1>0, <2>1 DEF Frames
  <2> QED
    BY <2>2, <1>5 DEF TrueFrame
<1>6. FramesTrue'
  <2>1. TrueFrame(cur)'
    BY <1>2, <1>5 DEF IInv, FramesTrue, TrueFrame
  <2>2. \A n \in DOMAIN queue : TrueFrame(queue[n])'
    BY <1>1, <1>5 DEF IInv, FramesTrue, TrueFrame
  <2> QED
    BY <2>1, <2>2, <1>1 DEF FramesTrue
<1>7. OnePlace'
  <2>1. \A d \in Clients : state[d] # "away" => state'[d] # "away"
    BY DEF IInv, TypeOK
  <2>2. \A n \in DOMAIN backlog : backlog[n] \in Clients
    BY ElementOfSeq DEF IInv, TypeOK
  <2> QED
    BY <2>1, <2>2 DEF IInv, TypeOK, OnePlace, OpenFds
<1> QED
  BY <1>3, <1>4, <1>6, <1>7 DEF IInv

----------------------------------------------------------------------------
(* Task TCP_SERVER *)

LEMMA SelectStep ==
    ASSUME IInv, Select, UNCHANGED config
    PROVE  IInv'
<1> USE DEF Select, msg_rx, clients, config
<1>1. TypeOK'
  <2>1. fdsr' \subseteq {Listener} \cup {fd[k] : k \in SlotsInUse}
    OBVIOUS
  <2>2. \A k \in SlotsInUse : fd[k] \in Fds
    BY DEF SlotsInUse, IInv, TypeOK
  <2>3. fdsr' \subseteq Fds \cup {Listener}
    BY <2>1, <2>2
  <2> QED
    BY <2>3, Numbers DEF IInv, TypeOK
<1> QED
  BY <1>1, TableKept, SessionKept, PlaceKept, FramesKept DEF IInv

LEMMA ScanSkipStep ==
    ASSUME IInv, NEW k \in Slots, ScanSkip(k), UNCHANGED config
    PROVE  IInv'
<1> USE DEF ScanSkip, msg_rx, clients, config
<1>1. TypeOK'
  BY ScanNext DEF IInv, TypeOK
<1> QED
  BY <1>1, TableKept, SessionKept, PlaceKept, FramesKept DEF IInv

LEMMA ScanReadModbusStep ==
    ASSUME IInv, NEW k \in Slots, ScanReadModbus(k), UNCHANGED config
    PROVE  IInv'
<1> USE DEF ScanReadModbus, msg_rx, config
<1> DEFINE c == Client(k)
           frame == [sock |-> fd[k], from |-> IF state[c] = "up" THEN c ELSE Nobody]
<1>1. /\ fd[k] \in Fds /\ c \in Clients /\ c = owner[fd[k]]
  BY ReadySlot
<1>2. frame \in Frames /\ TrueFrame(frame)
  BY <1>1 DEF Frames, TrueFrame
<1>3. /\ queue \in Seq(Frames) /\ Len(queue) \in Nat
      /\ queue' = queue \/ queue' = Append(queue, frame)
  BY DEF IInv, TypeOK
<1> HIDE DEF frame, c
<1>4. TypeOK'
  <2>1. queue' \in Seq(Frames)
    BY <1>2, <1>3
  <2>2. inbox' \in [Clients -> 0 .. MaxInbox]
    BY ServerAssumption, <1>1 DEF IInv, TypeOK, c
  <2> QED
    BY <2>1, <2>2, ScanNext DEF IInv, TypeOK
<1>5. FramesTrue'
  <2>1. \A n \in DOMAIN queue' : TrueFrame(queue'[n])
    BY <1>2, <1>3 DEF IInv, FramesTrue
  <2> QED
    BY <2>1 DEF IInv, FramesTrue, TrueFrame
<1> QED
  BY <1>4, <1>5, TableKept, SessionKept, PlaceKept DEF IInv

LEMMA ScanReadIec102Step ==
    ASSUME IInv, NEW k \in Slots, ScanReadIec102(k), UNCHANGED config
    PROVE  IInv'
<1> USE DEF ScanReadIec102, msg_rx, config
<1>1. TypeOK'
  <2>1. inbox' \in [Clients -> 0 .. MaxInbox]
    <3>1. inbox \in [Clients -> 0 .. MaxInbox] /\ 0 \in 0 .. MaxInbox
      BY ServerAssumption DEF IInv, TypeOK
    <3>2. inbox' = [inbox EXCEPT ![Client(k)] = 0]
      OBVIOUS
    <3> HIDE DEF ScanReadIec102
    <3> QED
      BY <3>1, <3>2
  <2>2. waiting' \in [Clients -> BOOLEAN]
    BY DEF IInv, TypeOK
  <2> QED
    BY <2>1, <2>2, ScanNext DEF IInv, TypeOK
<1> QED
  BY <1>1, TableKept, SessionKept, PlaceKept, FramesKept DEF IInv

LEMMA ScanCloseStep ==
    ASSUME IInv, NEW k \in Slots, ScanClose(k), UNCHANGED config
    PROVE  IInv'
<1> USE DEF ScanClose, msg_rx, config
<1> DEFINE c == Client(k)
<1>1. /\ k \in SlotsInUse /\ fd[k] \in OpenFds /\ fd[k] \in Fds
      /\ c \in Clients /\ c = owner[fd[k]]
  BY ReadySlot
<1> HIDE DEF c
<1>2. /\ fd \in [Slots -> Fds \cup {0}] /\ owner \in [Fds -> Clients \cup {Nobody}]
      /\ fd' = [fd EXCEPT ![k] = 0] /\ owner' = [owner EXCEPT ![fd[k]] = Nobody]
      /\ state' = [state EXCEPT ![c] = "away"] /\ state[c] = "shut"
  BY DEF IInv, TypeOK, c
<1>3. /\ SlotsInUse' = SlotsInUse \ {k}
      /\ OpenFds' = OpenFds \ {fd[k]}
  BY <1>2, Numbers DEF SlotsInUse, OpenFds
<1>4. /\ conn_amount' = Cardinality(SlotsInUse')
      /\ conn_amount' \in 0 .. MAXCLINE
  <2>1. Cardinality(SlotsInUse') = Cardinality(SlotsInUse) - 1
    BY <1>1, <1>3, UsedFinite, FS_RemoveElement
  <2>2. Cardinality(SlotsInUse) # 0
    BY <1>1, UsedFinite, FS_EmptySet
  <2> QED
    BY <2>1, <2>2, UsedFinite, Numbers DEF IInv, SlotsConsistent
<1>5. TypeOK'
  <2>1. /\ fd_index_to_master' \in [Slots -> Int]
        /\ Pcontext' \in [Slots -> Clients \cup {Nobody}]
    <3>1. /\ fd_index_to_master \in [Slots -> Int] /\ -1 \in Int
          /\ Pcontext \in [Slots -> Clients \cup {Nobody}]
      BY DEF IInv, TypeOK
    <3>2. CASE Mode = "IEC102"
      BY <3>1, <3>2
    <3>3. CASE Mode # "IEC102"
      BY <3>1, <3>3
    <3> QED
      BY <3>2, <3>3
  <2>2. fd' \in [Slots -> Fds \cup {0}] /\ owner' \in [Fds -> Clients \cup {Nobody}]
    BY <1>2
  <2> QED
    BY <1>2, <1>4, <2>1, <2>2, ScanNext DEF IInv, TypeOK
<1>6. SlotsConsistent'
  <2>1. \A l \in SlotsInUse \ {k} : fd[l] # fd[k] /\ fd'[l] = fd[l]
    BY <1>1, <1>2 DEF IInv, SlotsConsistent, SlotsInUse
  <2>2. {fd'[l] : l \in SlotsInUse \ {k}} = OpenFds \ {fd[k]}
    BY <1>1, <2>1 DEF IInv, SlotsConsistent
  <2> QED
    BY <1>3, <1>4, <2>1, <2>2 DEF IInv, SlotsConsistent
<1>7. SessionOfClient'
  <2>1. \A l \in Slots \ {k} : fd[l] # 0 => fd[l] # fd[k] /\ owner'[fd[l]] = owner[fd[l]]
    <3>1. \A l \in Slots \ {k} : fd[l] # 0 => fd[l] # fd[k] /\ fd[l] \in Fds
      BY <1>1, <1>2 DEF IInv, SlotsConsistent, SlotsInUse
    <3> QED
      BY <1>2, <3>1
  <2>2. \A l \in Slots \ {k} : fd'[l] = fd[l]
    BY <1>2
  <2>3. fd'[k] = 0
    BY <1>2
  <2>4. Mode = "IEC102" =>
           /\ Pcontext'[k] = Nobody
           /\ \A l \in Slots \ {k} :
                 Pcontext'[l] = Pcontext[l] /\ fd_index_to_master'[l] = fd_index_to_master[l]
    BY DEF IInv, TypeOK
  <2> QED
    BY <2>1, <2>2, <2>3, <2>4 DEF IInv, SessionOfClient, Client, config
<1>8. FramesTrue'
  <2>1. ASSUME NEW f \in Frames, TrueFrame(f)
        PROVE  TrueFrame(f)'
    <3>1. CASE f.from # Nobody
      <4>1. /\ f.sock \in Fds /\ f.from = owner[f.sock] /\ f.from \in Clients
            /\ state[f.from] = "up"
        BY <2>1, <3>1 DEF TrueFrame, Frames
      <4>2. f.from # c /\ f.sock # fd[k]
        BY <1>1, <1>2, <4>1
      <4>3. state'[f.from] = "up" /\ owner'[f.sock] = owner[f.sock]
        BY <1>2, <4>1, <4>2 DEF IInv, TypeOK
      <4> QED
        BY <4>1, <4>3 DEF TrueFrame
    <3>2. CASE f.from = Nobody
      BY <3>2 DEF TrueFrame
    <3> QED
      BY <3>1, <3>2
  <2>2. cur \in Frames /\ \A n \in DOMAIN queue : queue[n] \in Frames
    BY ElementOfSeq DEF IInv, TypeOK
  <2>3. TrueFrame(cur)'
    BY <2>1, <2>2 DEF IInv, FramesTrue, TrueFrame
  <2>4. \A n \in DOMAIN queue : TrueFrame(queue[n])'
    BY <2>1, <2>2 DEF IInv, FramesTrue, TrueFrame
  <2> QED
    BY <2>3, <2>4 DEF FramesTrue
<1>9. OnePlace'
  <2>1. \A n \in DOMAIN backlog : backlog[n] \in Clients /\ backlog[n] # c
    <3>1. \A n \in DOMAIN backlog : backlog[n] \in Clients
      BY ElementOfSeq DEF IInv, TypeOK
    <3> QED
      BY <1>1, <3>1 DEF IInv, OnePlace
  <2>2. \A f \in OpenFds \ {fd[k]} : owner[f] # c /\ owner[f] \in Clients
    BY <1>1, <1>2 DEF IInv, OnePlace, OpenFds
  <2>3. \A f \in OpenFds \ {fd[k]} : owner'[f] = owner[f]
    BY <1>2 DEF OpenFds
  <2>4. \A d \in Clients \ {c} : state'[d] = state[d]
    BY <1>2 DEF IInv, TypeOK
  <2>5. \A f \in OpenFds' : state'[owner'[f]] # "away"
    BY <1>3, <2>2, <2>3, <2>4 DEF IInv, OnePlace
  <2>6. \A f, g \in OpenFds' : owner'[f] = owner'[g] => f = g
    BY <1>3, <2>3 DEF IInv, OnePlace
  <2>7. \A n \in DOMAIN backlog : /\ state'[backlog[n]] # "away"
                                  /\ \A f \in Fds : owner'[f] # backlog[n]
    BY <1>2, <2>1, <2>4, ServerAssumption DEF IInv, OnePlace
  <2> QED
    BY <2>5, <2>6, <2>7 DEF IInv, OnePlace
<1> QED
  BY <1>5, <1>6, <1>7, <1>8, <1>9 DEF IInv

LEMMA ScanEndStep ==
    ASSUME IInv, ScanEnd, UNCHANGED config
    PROVE  IInv'
<1> USE DEF ScanEnd, msg_rx, clients, config
<1>1. TypeOK'
  BY DEF IInv, TypeOK
<1> QED
  BY <1>1, TableKept, SessionKept, PlaceKept, FramesKept DEF IInv

(* The rest of a sequence is the sequence, one place on.                   *)
LEMMA TailOfSeq ==
    ASSUME NEW S, NEW q \in Seq(S), q # <<>>
    PROVE  /\ Len(q) \in Nat /\ Len(q) > 0
           /\ Tail(q) \in Seq(S)
           /\ DOMAIN q = 1 .. Len(q) /\ 1 \in DOMAIN q
           /\ DOMAIN Tail(q) = 1 .. Len(q) - 1
           /\ Head(q) = q[1]
           /\ \A n \in DOMAIN Tail(q) : /\ n + 1 \in DOMAIN q
                                         /\ Tail(q)[n] = q[n + 1]
                                         /\ q[n + 1] \in S
OBVIOUS

(* A connection that is refused leaves the tables as they are: its client  *)
(* owned nothing and no frame was on its way for it.                       *)
LEMMA RefuseStep ==
    ASSUME IInv, NEW c \in Clients, NEW f \in Fds,
           Accepting(c, f), Refuse(c), UNCHANGED config
    PROVE  IInv'
<1> USE DEF Accepting, Refuse, msg_rx, config
<1>1. /\ backlog \in Seq(Clients) /\ Len(backlog) \in Nat /\ Len(backlog) > 0
      /\ backlog' \in Seq(Clients)
      /\ DOMAIN backlog = 1 .. Len(backlog) /\ 1 \in DOMAIN backlog
      /\ DOMAIN backlog' = 1 .. Len(backlog) - 1
      /\ c = backlog[1]
      /\ \A n \in DOMAIN backlog' : /\ n + 1 \in DOMAIN backlog
                                    /\ backlog'[n] = backlog[n + 1]
                                    /\ backlog[n + 1] \in Clients
  <2>1. backlog \in Seq(Clients)
    BY DEF IInv, TypeOK
  <2> QED
    BY <2>1, TailOfSeq
<1>2. \A n \in DOMAIN backlog' : backlog'[n] # c
  BY <1>1 DEF IInv, OnePlace
<1>3. \A g \in Fds : owner[g] # c
  BY <1>1 DEF IInv, OnePlace
<1>4. \A d \in Clients \ {c} : state'[d] = state[d]
  BY DEF IInv, TypeOK
<1>5. TypeOK'
  BY <1>1, ServerAssumption DEF IInv, TypeOK
<1>6. SlotsConsistent' /\ SessionOfClient'
  BY TableKept, SessionKept
<1>7. FramesTrue'
  <2>1. \A g \in Frames : TrueFrame(g) => TrueFrame(g)'
    BY <1>3, <1>4 DEF TrueFrame, Frames
  <2>2. cur \in Frames /\ \A n \in DOMAIN queue : queue[n] \in Frames
    BY ElementOfSeq DEF IInv, TypeOK
  <2> QED
    BY <2>1, <2>2 DEF IInv, FramesTrue, TrueFrame
<1>8. OnePlace'
  <2>1. \A g \in OpenFds : owner[g] \in Clients \ {c}
    BY <1>3 DEF IInv, TypeOK, OpenFds
  <2>2. \A m, n \in DOMAIN backlog' : backlog'[m] = backlog'[n] => m = n
    BY <1>1 DEF IInv, OnePlace
  <2>3. \A n \in DOMAIN backlog' : /\ state'[backlog'[n]] # "away"
                                   /\ \A g \in Fds : owner'[g] # backlog'[n]
    BY <1>1, <1>2, <1>4 DEF IInv, OnePlace
  <2> QED
    BY <2>1, <2>2, <2>3, <1>4 DEF IInv, OnePlace, OpenFds
<1> QED
  BY <1>5, <1>6, <1>7, <1>8 DEF IInv

(* As long as conn_amount is below MAXCLINE the search for a free slot     *)
(* finds one, the first; the connection is in no other.                    *)
LEMMA AcceptStoreStep ==
    ASSUME IInv, NEW c \in Clients, NEW f \in Fds,
           AcceptStore(c, f), UNCHANGED config
    PROVE  IInv'
<1> USE DEF AcceptStore, Accepting, msg_rx, clients, config
<1> DEFINE free == {k \in Slots : fd[k] = 0}
           slot == {k \in free : \A j \in free : k <= j}
<1>1. PICK s \in Slots : fd[s] = 0 /\ slot = {s}
  <2>1. free \subseteq Nat
    BY Numbers DEF Slots
  <2>2. free # {}
    BY UsedFinite DEF IInv, SlotsConsistent
  <2>3. PICK s \in free : \A j \in free : s <= j
    BY <2>1, <2>2, LeastNumber, Zenon
  <2>4. \A k \in slot : k = s
    BY <2>1, <2>3
  <2> QED
    BY <2>3, <2>4
<1>2. /\ fd \in [Slots -> Fds \cup {0}] /\ owner \in [Fds -> Clients \cup {Nobody}]
      /\ fd' = [fd EXCEPT ![s] = f] /\ owner' = [owner EXCEPT ![f] = c]
      /\ f \notin OpenFds /\ f \in Fds /\ f # 0 /\ f \in Int
      /\ conn_amount' = conn_amount + 1 /\ conn_amount < MAXCLINE
      /\ MaxSock' = IF f > MaxSock THEN f ELSE MaxSock
  <2>1. fd \in [Slots -> Fds \cup {0}] /\ owner \in [Fds -> Clients \cup {Nobody}]
    BY DEF IInv, TypeOK
  <2>2. fd' = [k \in Slots |-> IF k \in slot THEN f ELSE fd[k]]
    OBVIOUS
  <2> HIDE DEF slot
  <2>3. fd' = [fd EXCEPT ![s] = f]
    BY <1>1, <2>1, <2>2
  <2> QED
    BY <2>1, <2>3, Numbers
<1>3. Mode = "IEC102" =>
         /\ Pcontext' = [Pcontext EXCEPT ![s] = c]
         /\ fd_index_to_master' = [fd_index_to_master EXCEPT ![s] = MasterNo[c]]
  <2>1. /\ Pcontext \in [Slots -> Clients \cup {Nobody}]
        /\ fd_index_to_master \in [Slots -> Int]
    BY DEF IInv, TypeOK
  <2>2. Mode = "IEC102" =>
           /\ Pcontext' = [k \in Slots |-> IF k \in slot THEN c ELSE Pcontext[k]]
           /\ fd_index_to_master' = [k \in Slots |-> IF k \in slot THEN MasterNo[c]
                                                     ELSE fd_index_to_master[k]]
    OBVIOUS
  <2> HIDE DEF slot
  <2> QED
    BY <1>1, <2>1, <2>2
<1>4. Mode # "IEC102" => UNCHANGED <<Pcontext, fd_index_to_master>>
  OBVIOUS
<1>5. c \in Clients /\ MasterNo[c] \in Int /\ backlog # <<>> /\ c = Head(backlog)
  BY DEF IInv, TypeOK
<1>6. UNCHANGED <<fdsr, i, msg_rx, clients, queue>> /\ backlog' = Tail(backlog)
      /\ pc' = "select"
  OBVIOUS
<1> HIDE DEF AcceptStore, Accepting, slot, free
<1>7. /\ SlotsInUse' = SlotsInUse \cup {s} /\ s \notin SlotsInUse
      /\ OpenFds' = OpenFds \cup {f}
      /\ \A k \in SlotsInUse : k # s /\ fd'[k] = fd[k]
      /\ \A g \in OpenFds : g # f /\ owner'[g] = owner[g]
      /\ fd'[s] = f /\ owner'[f] = c
  BY <1>1, <1>2, <1>5, ServerAssumption DEF SlotsInUse, OpenFds
<1>8. conn_amount' = Cardinality(SlotsInUse') /\ conn_amount' \in 0 .. MAXCLINE
  <2>1. Cardinality(SlotsInUse') = Cardinality(SlotsInUse) + 1
    BY <1>7, UsedFinite, FS_AddElement
  <2> QED
    BY <2>1, <1>2, UsedFinite, Numbers DEF IInv, SlotsConsistent
<1>9. /\ backlog \in Seq(Clients) /\ Len(backlog) \in Nat /\ Len(backlog) > 0
      /\ backlog' \in Seq(Clients)
      /\ DOMAIN backlog = 1 .. Len(backlog) /\ 1 \in DOMAIN backlog
      /\ DOMAIN backlog' = 1 .. Len(backlog) - 1
      /\ c = backlog[1]
      /\ \A n \in DOMAIN backlog' : /\ n + 1 \in DOMAIN backlog
                                    /\ backlog'[n] = backlog[n + 1]
                                    /\ backlog[n + 1] \in Clients
  <2>1. backlog \in Seq(Clients)
    BY DEF IInv, TypeOK
  <2> QED
    BY <1>5, <1>6, <2>1, TailOfSeq
<1>10. TypeOK'
  <2>1. /\ fd_index_to_master' \in [Slots -> Int]
        /\ Pcontext' \in [Slots -> Clients \cup {Nobody}]
    <3>1. /\ fd_index_to_master \in [Slots -> Int]
          /\ Pcontext \in [Slots -> Clients \cup {Nobody}]
      BY DEF IInv, TypeOK
    <3>2. CASE Mode = "IEC102"
      BY <1>3, <1>5, <3>1, <3>2
    <3>3. CASE Mode # "IEC102"
      BY <1>4, <3>1, <3>3
    <3> QED
      BY <3>2, <3>3
  <2>2. fd' \in [Slots -> Fds \cup {0}] /\ owner' \in [Fds -> Clients \cup {Nobody}]
    BY <1>2, <1>5
  <2>3. MaxSock' \in Fds \cup {Listener}
    BY <1>2 DEF IInv, TypeOK
  <2> QED
    BY <1>6, <1>8, <1>9, <2>1, <2>2, <2>3 DEF IInv, TypeOK, msg_rx, clients, config
<1>11. SlotsConsistent'
  <2>1. {fd'[k] : k \in SlotsInUse'} = OpenFds'
    <3>1. {fd[k] : k \in SlotsInUse} = OpenFds
      BY DEF IInv, SlotsConsistent
    <3> QED
      BY <1>7, <3>1
  <2>2. \A k \in SlotsInUse : fd[k] \in OpenFds
    BY DEF IInv, SlotsConsistent
  <2>3. \A k, l \in SlotsInUse' : fd'[k] = fd'[l] => k = l
    BY <1>7, <2>2 DEF IInv, SlotsConsistent
  <2>4. \A g \in OpenFds' : g <= MaxSock'
    <3>1. \A g \in OpenFds : g \in Int /\ g <= MaxSock
      BY Numbers DEF IInv, SlotsConsistent, OpenFds
    <3>2. MaxSock \in Int
      BY Numbers DEF IInv, TypeOK, Listener
    <3> QED
      BY <1>2, <1>7, <3>1, <3>2
  <2> QED
    BY <1>8, <2>1, <2>3, <2>4 DEF SlotsConsistent
<1>12. SessionOfClient'
  <2>1. /\ Pcontext \in [Slots -> Clients \cup {Nobody}]
        /\ fd_index_to_master \in [Slots -> Int]
    BY DEF IInv, TypeOK
  <2>2. \A k \in Slots \ {s} : fd'[k] = fd[k]
    BY <1>2
  <2>3. \A k \in Slots : fd[k] # 0 => fd[k] \in OpenFds
    BY DEF IInv, SlotsConsistent, SlotsInUse
  <2>4. \A k \in Slots \ {s} : fd[k] # 0 => owner'[fd[k]] = owner[fd[k]]
    BY <1>7, <2>3
  <2>5. Mode = "IEC102" =>
           /\ Pcontext'[s] = c /\ fd_index_to_master'[s] = MasterNo[c]
           /\ \A k \in Slots \ {s} :
                 Pcontext'[k] = Pcontext[k] /\ fd_index_to_master'[k] = fd_index_to_master[k]
    BY <1>1, <1>3, <2>1
  <2> QED
    BY <1>2, <1>7, <2>2, <2>4, <2>5 DEF IInv, SessionOfClient, Client, config
<1>13. FramesTrue'
  <2>1. ASSUME NEW g, TrueFrame(g), g \in Frames
        PROVE  TrueFrame(g)'
    <3>1. g.from # Nobody => g.sock \in OpenFds
      BY <2>1 DEF TrueFrame, OpenFds
    <3> QED
      BY <1>6, <1>7, <2>1, <3>1 DEF TrueFrame, clients
  <2>2. cur \in Frames /\ \A n \in DOMAIN queue : queue[n] \in Frames
    BY ElementOfSeq DEF IInv, TypeOK
  <2>3. TrueFrame(cur)'
    BY <1>6, <2>1, <2>2 DEF IInv, FramesTrue, TrueFrame, msg_rx
  <2>4. \A n \in DOMAIN queue : TrueFrame(queue[n])'
    BY <1>6, <2>1, <2>2 DEF IInv, FramesTrue, TrueFrame
  <2> QED
    BY <1>6, <2>3, <2>4 DEF FramesTrue
<1>14. OnePlace'
  <2>1. \A g \in OpenFds : owner[g] # c
    BY <1>9 DEF IInv, OnePlace, OpenFds
  <2>2. state[c] # "away" /\ state' = state
    BY <1>6, <1>9 DEF IInv, OnePlace, clients
  <2>3. \A m, n \in DOMAIN backlog' : backlog'[m] = backlog'[n] => m = n
    BY <1>9 DEF IInv, OnePlace
  <2>4. \A n \in DOMAIN backlog' : backlog'[n] # c
    BY <1>9 DEF IInv, OnePlace
  <2>5. \A n \in DOMAIN backlog' : /\ state'[backlog'[n]] # "away"
                                   /\ \A g \in Fds : owner'[g] # backlog'[n]
    BY <1>2, <1>9, <2>2, <2>4 DEF IInv, OnePlace
  <2>6. \A g, h \in OpenFds' : owner'[g] = owner'[h] => g = h
    BY <1>7, <2>1 DEF IInv, OnePlace
  <2>7. \A g \in OpenFds' : state'[owner'[g]] # "away"
    BY <1>7, <2>2 DEF IInv, OnePlace
  <2> QED
    BY <2>3, <2>5, <2>6, <2>7 DEF OnePlace
<1> QED
  BY <1>10, <1>11, <1>12, <1>13, <1>14 DEF IInv

----------------------------------------------------------------------------
(* Task MSG_RX *)

LEMMA TakeStep ==
    ASSUME IInv, Take, UNCHANGED config
    PROVE  IInv'
<1> USE DEF Take, server, clients, config
<1>1. /\ queue \in Seq(Frames) /\ queue # <<>> /\ Len(queue) \in Nat
      /\ 1 \in DOMAIN queue /\ cur' = queue[1] /\ cur' \in Frames
      /\ queue' \in Seq(Frames)
      /\ \A n \in DOMAIN queue' : n + 1 \in DOMAIN queue /\ queue'[n] = queue[n + 1]
  BY DEF IInv, TypeOK
<1>2. TypeOK'
  BY <1>1 DEF IInv, TypeOK
<1>3. FramesTrue'
  BY <1>1 DEF IInv, FramesTrue, TrueFrame
<1> QED
  BY <1>2, <1>3, TableKept, SessionKept, PlaceKept DEF IInv

LEMMA ReplyStep ==
    ASSUME IInv, Reply, UNCHANGED config
    PROVE  IInv'
<1> USE DEF Reply, server, config
<1>1. waiting' \in [Clients -> BOOLEAN]
  BY DEF IInv, TypeOK
<1>2. TypeOK'
  BY <1>1 DEF IInv, TypeOK
<1> QED
  BY <1>2, TableKept, SessionKept, PlaceKept, FramesKept DEF IInv

LEMMA DoneStep ==
    ASSUME IInv, Done, UNCHANGED config
    PROVE  IInv'
<1> USE DEF Done, server, clients, config
<1>1. TypeOK'
  BY DEF IInv, TypeOK, NoFrame, Frames
<1>2. FramesTrue'
  BY DEF IInv, FramesTrue, TrueFrame, NoFrame
<1> QED
  BY <1>1, <1>2, TableKept, SessionKept, PlaceKept DEF IInv

----------------------------------------------------------------------------
(* The theorems *)

(* What the state of the tasks, the clients and the kernel satisfies       *)
(* throughout, for all values of the constants.                            *)
THEOREM Inductive == Spec => []IInv
<1>1. Init => IInv
  <2> SUFFICES ASSUME Init PROVE IInv
    OBVIOUS
  <2>1. MasterNo \in [Clients -> Nat]
    BY ServerAssumption DEF Init
  <2>2. TypeOK
    BY <2>1, ServerAssumption, Numbers DEF Init, TypeOK, Frames, NoFrame
  <2>3. SlotsInUse = {} /\ OpenFds = {}
    BY DEF Init, SlotsInUse, OpenFds
  <2>4. SlotsConsistent
    BY <2>3, FS_EmptySet DEF Init, SlotsConsistent
  <2>5. SessionOfClient
    BY DEF Init, SessionOfClient
  <2>6. FramesTrue
    BY DEF Init, FramesTrue, TrueFrame, NoFrame
  <2>7. OnePlace
    BY <2>3 DEF Init, OnePlace
  <2> QED
    BY <2>2, <2>4, <2>5, <2>6, <2>7 DEF IInv
<1>2. IInv /\ [Next]_vars => IInv'
  <2> SUFFICES ASSUME IInv, [Next]_vars
               PROVE  IInv'
    OBVIOUS
  <2>1. CASE \E c \in Clients : (Dial(c) \/ Request(c) \/ Leave(c)) /\ UNCHANGED config
    BY <2>1, DialStep, RequestStep, LeaveStep
  <2>2. CASE Select /\ UNCHANGED config
    BY <2>2, SelectStep
  <2>3. CASE /\ \E k \in Slots : \/ ScanSkip(k) \/ ScanReadModbus(k)
                                 \/ ScanReadIec102(k) \/ ScanClose(k)
             /\ UNCHANGED config
    BY <2>3, ScanSkipStep, ScanReadModbusStep, ScanReadIec102Step, ScanCloseStep
  <2>4. CASE ScanEnd /\ UNCHANGED config
    BY <2>4, ScanEndStep
  <2>5. CASE /\ \E c \in Clients, f \in Fds : AcceptUnknown(c, f) \/ AcceptFull(c, f)
             /\ UNCHANGED config
    BY <2>5, RefuseStep DEF AcceptUnknown, AcceptFull
  <2>6. CASE (\E c \in Clients, f \in Fds : AcceptStore(c, f)) /\ UNCHANGED config
    BY <2>6, AcceptStoreStep
  <2>7. CASE Take /\ UNCHANGED config
    BY <2>7, TakeStep
  <2>8. CASE Reply /\ UNCHANGED config
    BY <2>8, ReplyStep
  <2>9. CASE Done /\ UNCHANGED config
    BY <2>9, DoneStep
  <2>10. CASE UNCHANGED vars
    <3>1. TypeOK'
      BY <2>10 DEF IInv, TypeOK, vars, server, msg_rx, clients, config
    <3> QED
      BY <2>10, <3>1, TableKept, SessionKept, PlaceKept, FramesKept
         DEF IInv, vars, server, msg_rx, clients
  <2> QED
    BY <2>1, <2>2, <2>3, <2>4, <2>5, <2>6, <2>7, <2>8, <2>9, <2>10 DEF Next, Server
<1> QED
  BY <1>1, <1>2, PTL DEF Spec

(* The types, for any number of clients, slots and places in the queue.    *)
THEOREM TypeCorrect == Spec => []TypeOK
<1>1. IInv => TypeOK
  BY DEF IInv
<1> QED
  BY <1>1, Inductive, PTL

(* The server's table and the kernel's agree, and conn_amount counts the   *)
(* slots in use, however connections come and go during a scan.            *)
THEOREM SlotsCorrect == Spec => []SlotsConsistent
<1>1. IInv => SlotsConsistent
  BY DEF IInv
<1> QED
  BY <1>1, Inductive, PTL

(* A slot's session and master number are those of the client connected    *)
(* there, also after the slot was used by others.                          *)
THEOREM SessionCorrect == Spec => []SessionOfClient
<1>1. IInv => SessionOfClient
  BY DEF IInv
<1> QED
  BY <1>1, Inductive, PTL

(* MSG_RX answers on a number it got with the request; between the two the *)
(* connection may be closed and the number handed out again.  A client     *)
(* that is still there gets its answer all the same: its frames are true.  *)
THEOREM ReplyCorrect == Spec => ReplyToRequester
<1> DEFINE Told == worker = "busy" /\ worker' = "replied" /\ cur.from # Nobody
                      => owner[cur.sock] = cur.from /\ ~waiting'[cur.from]
<1>1. IInv /\ [Next]_vars => Told
  <2> SUFFICES ASSUME IInv, [Next]_vars, worker = "busy", worker' = "replied",
                      cur.from # Nobody
               PROVE  owner[cur.sock] = cur.from /\ ~waiting'[cur.from]
    OBVIOUS
  <2>1. Reply
    BY DEF Next, Server, Dial, Request, Leave, Select, ScanSkip, ScanReadModbus,
           ScanReadIec102, ScanClose, ScanEnd, AcceptUnknown, AcceptFull, Refuse,
           AcceptStore, Take, Done, vars, server, msg_rx, clients
  <2>2. owner[cur.sock] = cur.from /\ cur.from \in Clients
    BY DEF IInv, TypeOK, Frames, FramesTrue, TrueFrame
  <2>3. waiting' = [waiting EXCEPT ![cur.from] = FALSE]
    BY <2>1, <2>2 DEF Reply
  <2>4. ~waiting'[cur.from]
    BY <2>2, <2>3 DEF IInv, TypeOK
  <2> QED
    BY <2>2, <2>4
<1> QED
  BY <1>1, Inductive, PTL DEF Spec, ReplyToRequester
=============================================================================
