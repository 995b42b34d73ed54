------------------------- MODULE QueueAndPipeProofs -------------------------
(***************************************************************************)
(* Proofs about the two ways in which a request reaches another task: the  *)
(* message queue between two threads (MsgQueue), for any threads, any      *)
(* capacity and both modes, and the pipe of the web interface              *)
(* (ConfigPipe), whose commands, for all channels, addresses, registers    *)
(* and widths, keep the lists well formed, counted and in order.           *)
(***************************************************************************)
EXTENDS MsgQueue, ConfigPipe, FiniteSetTheorems, WellFoundedInduction, SequenceTheorems, TLAPS

-----------------------------------------------------------------------------
(* The message queue.                                                      *)

(* Two finite sets that differ by at most one element differ in size by    *)
(* that element only.                                                      *)
LEMMA CountMove ==
    ASSUME NEW A, NEW B, IsFiniteSet(A), IsFiniteSet(B), NEW t,
           A \ {t} = B \ {t}
    PROVE  /\ Cardinality(A) \in Nat
           /\ Cardinality(B) \in Nat
           /\ Cardinality(B) = Cardinality(A) + (IF t \in B THEN 1 ELSE 0)
                                              - (IF t \in A THEN 1 ELSE 0)
<1>1. Cardinality(A) \in Nat /\ Cardinality(B) \in Nat
  BY FS_CardinalityType
<1>2. Cardinality(A \ {t}) = Cardinality(A) - (IF t \in A THEN 1 ELSE 0)
  BY <1>1, FS_RemoveElement
<1>3. Cardinality(B \ {t}) = Cardinality(B) - (IF t \in B THEN 1 ELSE 0)
  BY <1>1, FS_RemoveElement
<1> QED
  BY <1>1, <1>2, <1>3

(* How the two sides of TokenBalance change when thread t executes one     *)
(* statement.                                                              *)
LEMMA TokensMove ==
    ASSUME pc \in [Threads -> SendPc \cup RecvPc \cup EmptyPc],
           NEW t \in Threads, NEW from, NEW to, At(t, from, to)
    PROVE  /\ Cardinality(Owing) \in Nat
           /\ Cardinality(Holding) \in Nat
           /\ Cardinality(Owing)' \in Nat
           /\ Cardinality(Holding)' \in Nat
           /\ Cardinality(Owing)' = Cardinality(Owing)
                                    + (IF to \in OwingPc THEN 1 ELSE 0)
                                    - (IF from \in OwingPc THEN 1 ELSE 0)
           /\ Cardinality(Holding)' = Cardinality(Holding)
                                      + (IF to \in HoldingPc THEN 1 ELSE 0)
                                      - (IF from \in HoldingPc THEN 1 ELSE 0)
<1>1. /\ IsFiniteSet(Owing) /\ IsFiniteSet(Owing')
      /\ IsFiniteSet(Holding) /\ IsFiniteSet(Holding')
  BY ThreadsAssumption, FS_Subset DEF Owing, Holding
<1>2. /\ \A u \in Threads \ {t} : pc'[u] = pc[u]
      /\ pc[t] = from
      /\ pc'[t] = to
  BY DEF At
<1>3. /\ Owing \ {t} = Owing' \ {t}
      /\ t \in Owing <=> from \in OwingPc
      /\ t \in Owing' <=> to \in OwingPc
  BY <1>2 DEF Owing
<1>4. /\ Holding \ {t} = Holding' \ {t}
      /\ t \in Holding <=> from \in HoldingPc
      /\ t \in Holding' <=> to \in HoldingPc
  BY <1>2 DEF Holding
<1>5. /\ Cardinality(Owing) \in Nat
      /\ Cardinality(Owing') \in Nat
      /\ Cardinality(Owing') = Cardinality(Owing)
                               + (IF t \in Owing' THEN 1 ELSE 0)
                               - (IF t \in Owing THEN 1 ELSE 0)
  BY <1>1, <1>3, CountMove
<1>6. /\ Cardinality(Holding) \in Nat
      /\ Cardinality(Holding') \in Nat
      /\ Cardinality(Holding') = Cardinality(Holding)
                                 + (IF t \in Holding' THEN 1 ELSE 0)
                                 - (IF t \in Holding THEN 1 ELSE 0)
  BY <1>1, <1>4, CountMove
<1> QED
  BY <1>3, <1>4, <1>5, <1>6

(* The queue that ENNOS_CreateMessage returns is consistent.               *)
LEMMA InitIInv == Init => IInv
<1> SUFFICES ASSUME Init PROVE IInv
  OBVIOUS
<1>1. TypeOK
  BY ThreadsAssumption, QueueAssumption
  DEF Init, TypeOK, Slots, SendPc, RecvPc, EmptyPc, Threads
<1>2. MutualExclusion
  BY ThreadsAssumption
  DEF Init, MutualExclusion, InSection, SectionPc, Threads
<1>3. TokenBalance
  <2>1. Owing = {} /\ Holding = {}
    BY DEF Init, Owing, Holding, OwingPc, HoldingPc
  <2> QED
    BY <2>1, FS_EmptySet DEF Init, TokenBalance
<1>4. RoomKept
  BY DEF Init, RoomKept, Threads
<1> QED
  BY <1>1, <1>2, <1>3, <1>4 DEF IInv

(* MutualExclusion is preserved by a statement that takes the mutex on     *)
(* entry of a section, releases it on exit, or does neither.               *)
LEMMA SectionMove ==
    ASSUME TypeOK, MutualExclusion,
           NEW t \in Threads, NEW from, NEW to, At(t, from, to),
           \/ /\ from \notin SectionPc /\ to \in SectionPc /\ Lock(t)
           \/ /\ from \in SectionPc /\ to \notin SectionPc /\ Unlock
           \/ /\ from \in SectionPc <=> to \in SectionPc
              /\ UNCHANGED mutex
    PROVE  MutualExclusion'
<1>1. /\ \A u \in Threads \ {t} : pc'[u] = pc[u]
      /\ pc[t] = from
      /\ pc'[t] = to
  BY DEF At, TypeOK
<1>2. /\ \A u \in Threads \ {t} : InSection(u)' <=> InSection(u)
      /\ InSection(t) <=> from \in SectionPc
      /\ InSection(t)' <=> to \in SectionPc
  BY <1>1 DEF InSection
<1>3. CASE from \notin SectionPc /\ to \in SectionPc /\ Lock(t)
  BY <1>2, <1>3, ThreadsAssumption DEF MutualExclusion, Lock
<1>4. CASE from \in SectionPc /\ to \notin SectionPc /\ Unlock
  BY <1>2, <1>4, ThreadsAssumption DEF MutualExclusion, Unlock
<1>5. CASE (from \in SectionPc <=> to \in SectionPc) /\ UNCHANGED mutex
  BY <1>2, <1>5 DEF MutualExclusion
<1> QED
  BY <1>3, <1>4, <1>5

(* TokenBalance is preserved by a statement that changes num - sem by the  *)
(* change in what its thread owes or holds.                                *)
LEMMA BalanceMove ==
    ASSUME TypeOK, TokenBalance, num' \in Int, sem' \in Int,
           NEW t \in Threads, NEW from, NEW to, At(t, from, to),
           num' - sem' = num - sem
               + (IF to \in OwingPc \cup HoldingPc THEN 1 ELSE 0)
               - (IF from \in OwingPc \cup HoldingPc THEN 1 ELSE 0)
    PROVE  TokenBalance'
<1>1. /\ num \in Int /\ sem \in Int
      /\ pc \in [Threads -> SendPc \cup RecvPc \cup EmptyPc]
  BY QueueAssumption DEF TypeOK
<1>2. /\ Cardinality(Owing) \in Nat
      /\ Cardinality(Holding) \in Nat
      /\ Cardinality(Owing)' \in Nat
      /\ Cardinality(Holding)' \in Nat
      /\ Cardinality(Owing)' = Cardinality(Owing)
                               + (IF to \in OwingPc THEN 1 ELSE 0)
                               - (IF from \in OwingPc THEN 1 ELSE 0)
      /\ Cardinality(Holding)' = Cardinality(Holding)
                                 + (IF to \in HoldingPc THEN 1 ELSE 0)
                                 - (IF from \in HoldingPc THEN 1 ELSE 0)
  BY <1>1, TokensMove
<1>3. OwingPc \cap HoldingPc = {}
  BY DEF OwingPc, HoldingPc
<1> QED
  BY <1>1, <1>2, <1>3 DEF TokenBalance

(* Whoever is about to remove a message finds one: it still holds the      *)
(* token that stands for it.                                               *)
LEMMA NoUnderflow ==
    ASSUME TypeOK, TokenBalance, NEW t \in Threads, pc[t] \in HoldingPc
    PROVE  num > 0
<1>1. IsFiniteSet(Owing) /\ IsFiniteSet(Holding)
  BY ThreadsAssumption, FS_Subset DEF Owing, Holding
<1>2. Cardinality(Owing) \in Nat /\ Cardinality(Holding) \in Nat
  BY <1>1, FS_CardinalityType
<1>3. Holding # {}
  BY DEF Holding
<1>4. Cardinality(Holding) # 0
  BY <1>1, <1>3, FS_EmptySet
<1> QED
  BY <1>2, <1>4 DEF TokenBalance, TypeOK

(* Every statement of the three calls keeps the queue consistent.          *)
LEMMA NextIInv == IInv /\ [Next]_vars => IInv'
<1> SUFFICES ASSUME IInv, [Next]_vars PROVE IInv'
  OBVIOUS
<1> USE ThreadsAssumption, QueueAssumption DEF IInv
<1>1. ASSUME NEW s \in Senders, SendCall(s) PROVE IInv'
  <2>1. s \in Threads /\ At(s, "idle", "sLock")
    BY <1>1 DEF SendCall, Threads
  <2>2. TypeOK'
    BY <1>1, <2>1
    DEF SendCall, TypeOK, At, Threads, Slots,
        SendPc, RecvPc, EmptyPc
  <2>3. MutualExclusion'
    BY <1>1, <2>1, SectionMove DEF SendCall, SectionPc
  <2>4. TokenBalance'
    BY <1>1, <2>1, <2>2, BalanceMove
    DEF SendCall, TypeOK, Slots, OwingPc, HoldingPc
  <2>5. RoomKept'
    BY <1>1, <2>1 DEF SendCall, TypeOK, RoomKept, At, Threads, Slots
  <2> QED
    BY <2>2, <2>3, <2>4, <2>5
<1>2. ASSUME NEW s \in Senders, SendLock(s) PROVE IInv'
  <2>1. s \in Threads /\ At(s, "sLock", "sTest")
    BY <1>2 DEF SendLock, Threads
  <2>2. TypeOK'
    BY <1>2, <2>1
    DEF SendLock, TypeOK, At, Threads, Slots,
        SendPc, RecvPc, EmptyPc, Lock
  <2>3. MutualExclusion'
    BY <1>2, <2>1, SectionMove DEF SendLock, SectionPc
  <2>4. TokenBalance'
    BY <1>2, <2>1, <2>2, BalanceMove
    DEF SendLock, TypeOK, Slots, OwingPc, HoldingPc
  <2>5. RoomKept'
    BY <1>2, <2>1 DEF SendLock, TypeOK, RoomKept, At, Threads, Slots
  <2> QED
    BY <2>2, <2>3, <2>4, <2>5
<1>3. ASSUME NEW s \in Senders, SendFull(s) PROVE IInv'
  <2>1. s \in Threads /\ At(s, "sTest", "sFull")
    BY <1>3 DEF SendFull, Threads
  <2>2. TypeOK'
    BY <1>3, <2>1
    DEF SendFull, TypeOK, At, Threads, Slots,
        SendPc, RecvPc, EmptyPc
  <2>3. MutualExclusion'
    BY <1>3, <2>1, SectionMove DEF SendFull, SectionPc
  <2>4. TokenBalance'
    BY <1>3, <2>1, <2>2, BalanceMove
    DEF SendFull, TypeOK, Slots, OwingPc, HoldingPc
  <2>5. RoomKept'
    BY <1>3, <2>1 DEF SendFull, TypeOK, RoomKept, At, Threads, Slots
  <2> QED
    BY <2>2, <2>3, <2>4, <2>5
<1>4. ASSUME NEW s \in Senders, SendStore(s) PROVE IInv'
  <2>1. s \in Threads /\ At(s, "sTest", "sCount")
    BY <1>4 DEF SendStore, Threads
  <2>2. TypeOK'
    BY <1>4, <2>1
    DEF SendStore, TypeOK, At, Threads, Slots,
        SendPc, RecvPc, EmptyPc
  <2>3. MutualExclusion'
    BY <1>4, <2>1, SectionMove DEF SendStore, SectionPc
  <2>4. TokenBalance'
    BY <1>4, <2>1, <2>2, BalanceMove
    DEF SendStore, TypeOK, Slots, OwingPc, HoldingPc
  <2>5. RoomKept'
    BY <1>4, <2>1 DEF SendStore, TypeOK, RoomKept, At, Threads, Slots
  <2> QED
    BY <2>2, <2>3, <2>4, <2>5
<1>5. ASSUME NEW s \in Senders, SendCount(s) PROVE IInv'
  <2>1. s \in Threads /\ At(s, "sCount", "sUnlock")
    BY <1>5 DEF SendCount, Threads
  <2>2. TypeOK'
    BY <1>5, <2>1
    DEF SendCount, TypeOK, At, Threads, Slots,
        SendPc, RecvPc, EmptyPc, RoomKept
  <2>3. MutualExclusion'
    BY <1>5, <2>1, SectionMove DEF SendCount, SectionPc
  <2>4. TokenBalance'
    BY <1>5, <2>1, <2>2, BalanceMove
    DEF SendCount, TypeOK, Slots, OwingPc, HoldingPc
  <2>5. RoomKept'
    <3> SUFFICES ASSUME NEW u \in Senders, pc'[u] = "sCount"
                 PROVE  FALSE
      BY DEF RoomKept
    <3>1. u # s /\ pc[u] = "sCount" /\ u \in Threads
      BY <2>1 DEF At, TypeOK, Threads
    <3>2. mutex = s /\ mutex = u
      BY <2>1, <3>1 DEF At, MutualExclusion, InSection, SectionPc
    <3> QED
      BY <3>1, <3>2
  <2> QED
    BY <2>2, <2>3, <2>4, <2>5
<1>6. ASSUME NEW s \in Senders, SendUnlock(s) PROVE IInv'
  <2>1. s \in Threads /\ At(s, "sUnlock", "sPost")
    BY <1>6 DEF SendUnlock, Threads
  <2>2. TypeOK'
    BY <1>6, <2>1
    DEF SendUnlock, TypeOK, At, Threads, Slots,
        SendPc, RecvPc, EmptyPc, Unlock
  <2>3. MutualExclusion'
    BY <1>6, <2>1, SectionMove DEF SendUnlock, SectionPc
  <2>4. TokenBalance'
    BY <1>6, <2>1, <2>2, BalanceMove
    DEF SendUnlock, TypeOK, Slots, OwingPc, HoldingPc
  <2>5. RoomKept'
    BY <1>6, <2>1 DEF SendUnlock, TypeOK, RoomKept, At, Threads, Slots
  <2> QED
    BY <2>2, <2>3, <2>4, <2>5
<1>7. ASSUME NEW s \in Senders, SendPost(s) PROVE IInv'
  <2>1. s \in Threads /\ At(s, "sPost", "idle")
    BY <1>7 DEF SendPost, Threads
  <2>2. TypeOK'
    BY <1>7, <2>1
    DEF SendPost, TypeOK, At, Threads, Slots,
        SendPc, RecvPc, EmptyPc
  <2>3. MutualExclusion'
    BY <1>7, <2>1, SectionMove DEF SendPost, SectionPc
  <2>4. TokenBalance'
    BY <1>7, <2>1, <2>2, BalanceMove
    DEF SendPost, TypeOK, Slots, OwingPc, HoldingPc
  <2>5. RoomKept'
    BY <1>7, <2>1 DEF SendPost, TypeOK, RoomKept, At, Threads, Slots
  <2> QED
    BY <2>2, <2>3, <2>4, <2>5
<1>8. ASSUME NEW s \in Senders, SendReject(s) PROVE IInv'
  <2>1. s \in Threads /\ At(s, "sFull", "idle")
    BY <1>8 DEF SendReject, Threads
  <2>2. TypeOK'
    BY <1>8, <2>1
    DEF SendReject, TypeOK, At, Threads, Slots,
        SendPc, RecvPc, EmptyPc, Unlock
  <2>3. MutualExclusion'
    BY <1>8, <2>1, SectionMove DEF SendReject, SectionPc
  <2>4. TokenBalance'
    BY <1>8, <2>1, <2>2, BalanceMove
    DEF SendReject, TypeOK, Slots, OwingPc, HoldingPc
  <2>5. RoomKept'
    BY <1>8, <2>1 DEF SendReject, TypeOK, RoomKept, At, Threads, Slots
  <2> QED
    BY <2>2, <2>3, <2>4, <2>5
<1>9. ASSUME NEW r \in Receivers, RecvCall(r) PROVE IInv'
  <2>1. r \in Threads /\ At(r, "idle", "rWait")
    BY <1>9 DEF RecvCall, Threads
  <2>2. TypeOK'
    BY <1>9, <2>1
    DEF RecvCall, TypeOK, At, Threads, Slots,
        SendPc, RecvPc, EmptyPc
  <2>3. MutualExclusion'
    BY <1>9, <2>1, SectionMove DEF RecvCall, SectionPc
  <2>4. TokenBalance'
    BY <1>9, <2>1, <2>2, BalanceMove
    DEF RecvCall, TypeOK, Slots, OwingPc, HoldingPc
  <2>5. RoomKept'
    BY <1>9, <2>1 DEF RecvCall, TypeOK, RoomKept, At, Threads, Slots
  <2> QED
    BY <2>2, <2>3, <2>4, <2>5
<1>10. ASSUME NEW r \in Receivers, RecvFail(r) PROVE IInv'
  <2>1. r \in Threads /\ At(r, "rWait", "idle")
    BY <1>10 DEF RecvFail, Threads
  <2>2. TypeOK'
    BY <1>10, <2>1
    DEF RecvFail, TypeOK, At, Threads, Slots,
        SendPc, RecvPc, EmptyPc
  <2>3. MutualExclusion'
    BY <1>10, <2>1, SectionMove DEF RecvFail, SectionPc
  <2>4. TokenBalance'
    BY <1>10, <2>1, <2>2, BalanceMove
    DEF RecvFail, TypeOK, Slots, OwingPc, HoldingPc
  <2>5. RoomKept'
    BY <1>10, <2>1 DEF RecvFail, TypeOK, RoomKept, At, Threads, Slots
  <2> QED
    BY <2>2, <2>3, <2>4, <2>5
<1>11. ASSUME NEW r \in Receivers, RecvWait(r) PROVE IInv'
  <2>1. r \in Threads /\ At(r, "rWait", "rLock")
    BY <1>11 DEF RecvWait, Threads
  <2>2. TypeOK'
    BY <1>11, <2>1
    DEF RecvWait, TypeOK, At, Threads, Slots,
        SendPc, RecvPc, EmptyPc
  <2>3. MutualExclusion'
    BY <1>11, <2>1, SectionMove DEF RecvWait, SectionPc
  <2>4. TokenBalance'
    BY <1>11, <2>1, <2>2, BalanceMove
    DEF RecvWait, TypeOK, Slots, OwingPc, HoldingPc
  <2>5. RoomKept'
    BY <1>11, <2>1 DEF RecvWait, TypeOK, RoomKept, At, Threads, Slots
  <2> QED
    BY <2>2, <2>3, <2>4, <2>5
<1>12. ASSUME NEW r \in Receivers, RecvLock(r) PROVE IInv'
  <2>1. r \in Threads /\ At(r, "rLock", "rCopy")
    BY <1>12 DEF RecvLock, Threads
  <2>2. TypeOK'
    BY <1>12, <2>1
    DEF RecvLock, TypeOK, At, Threads, Slots,
        SendPc, RecvPc, EmptyPc, Lock
  <2>3. MutualExclusion'
    BY <1>12, <2>1, SectionMove DEF RecvLock, SectionPc
  <2>4. TokenBalance'
    BY <1>12, <2>1, <2>2, BalanceMove
    DEF RecvLock, TypeOK, Slots, OwingPc, HoldingPc
  <2>5. RoomKept'
    BY <1>12, <2>1 DEF RecvLock, TypeOK, RoomKept, At, Threads, Slots
  <2> QED
    BY <2>2, <2>3, <2>4, <2>5
<1>13. ASSUME NEW r \in Receivers, RecvCopy(r) PROVE IInv'
  <2>1. r \in Threads /\ At(r, "rCopy", "rAdvance")
    BY <1>13 DEF RecvCopy, Threads
  <2>2. TypeOK'
    BY <1>13, <2>1
    DEF RecvCopy, TypeOK, At, Threads, Slots,
        SendPc, RecvPc, EmptyPc
  <2>3. MutualExclusion'
    BY <1>13, <2>1, SectionMove DEF RecvCopy, SectionPc
  <2>4. TokenBalance'
    BY <1>13, <2>1, <2>2, BalanceMove
    DEF RecvCopy, TypeOK, Slots, OwingPc, HoldingPc
  <2>5. RoomKept'
    BY <1>13, <2>1 DEF RecvCopy, TypeOK, RoomKept, At, Threads, Slots
  <2> QED
    BY <2>2, <2>3, <2>4, <2>5
<1>14. ASSUME NEW r \in Receivers, RecvAdvance(r) PROVE IInv'
  <2>1. r \in Threads /\ At(r, "rAdvance", "rUnlock")
    BY <1>14 DEF RecvAdvance, Threads
  <2>2. num > 0
    BY <2>1, NoUnderflow DEF At, HoldingPc
  <2>3. TypeOK'
    BY <1>14, <2>1, <2>2
    DEF RecvAdvance, TypeOK, At, Threads, Slots,
        SendPc, RecvPc, EmptyPc
  <2>4. MutualExclusion'
    BY <1>14, <2>1, SectionMove DEF RecvAdvance, SectionPc
  <2>5. TokenBalance'
    BY <1>14, <2>1, <2>3, BalanceMove
    DEF RecvAdvance, TypeOK, Slots, OwingPc, HoldingPc
  <2>6. RoomKept'
    BY <1>14, <2>1 DEF RecvAdvance, TypeOK, RoomKept, At, Threads, Slots
  <2> QED
    BY <2>3, <2>4, <2>5, <2>6
<1>15. ASSUME NEW r \in Receivers, RecvUnlock(r) PROVE IInv'
  <2>1. r \in Threads /\ At(r, "rUnlock", "idle")
    BY <1>15 DEF RecvUnlock, Threads
  <2>2. TypeOK'
    BY <1>15, <2>1
    DEF RecvUnlock, TypeOK, At, Threads, Slots,
        SendPc, RecvPc, EmptyPc, Unlock
  <2>3. MutualExclusion'
    BY <1>15, <2>1, SectionMove DEF RecvUnlock, SectionPc
  <2>4. TokenBalance'
    BY <1>15, <2>1, <2>2, BalanceMove
    DEF RecvUnlock, TypeOK, Slots, OwingPc, HoldingPc
  <2>5. RoomKept'
    BY <1>15, <2>1 DEF RecvUnlock, TypeOK, RoomKept, At, Threads, Slots
  <2> QED
    BY <2>2, <2>3, <2>4, <2>5
<1>16. ASSUME NEW e \in Emptiers, EmptyCall(e) PROVE IInv'
  <2>1. e \in Threads /\ At(e, "idle", "eTry")
    BY <1>16 DEF EmptyCall, Threads
  <2>2. TypeOK'
    BY <1>16, <2>1
    DEF EmptyCall, TypeOK, At, Threads, Slots,
        SendPc, RecvPc, EmptyPc
  <2>3. MutualExclusion'
    BY <1>16, <2>1, SectionMove DEF EmptyCall, SectionPc
  <2>4. TokenBalance'
    BY <1>16, <2>1, <2>2, BalanceMove
    DEF EmptyCall, TypeOK, Slots, OwingPc, HoldingPc
  <2>5. RoomKept'
    BY <1>16, <2>1 DEF EmptyCall, TypeOK, RoomKept, At, Threads, Slots
  <2> QED
    BY <2>2, <2>3, <2>4, <2>5
<1>17. ASSUME NEW e \in Emptiers, EmptyDone(e) PROVE IInv'
  <2>1. e \in Threads /\ At(e, "eTry", "idle")
    BY <1>17 DEF EmptyDone, Threads
  <2>2. TypeOK'
    BY <1>17, <2>1
    DEF EmptyDone, TypeOK, At, Threads, Slots,
        SendPc, RecvPc, EmptyPc
  <2>3. MutualExclusion'
    BY <1>17, <2>1, SectionMove DEF EmptyDone, SectionPc
  <2>4. TokenBalance'
    BY <1>17, <2>1, <2>2, BalanceMove
    DEF EmptyDone, TypeOK, Slots, OwingPc, HoldingPc
  <2>5. RoomKept'
    BY <1>17, <2>1 DEF EmptyDone, TypeOK, RoomKept, At, Threads, Slots
  <2> QED
    BY <2>2, <2>3, <2>4, <2>5
<1>18. ASSUME NEW e \in Emptiers, EmptyTry(e) PROVE IInv'
  <2>1. e \in Threads /\ At(e, "eTry", "eLock")
    BY <1>18 DEF EmptyTry, Threads
  <2>2. TypeOK'
    BY <1>18, <2>1
    DEF EmptyTry, TypeOK, At, Threads, Slots,
        SendPc, RecvPc, EmptyPc
  <2>3. MutualExclusion'
    BY <1>18, <2>1, SectionMove DEF EmptyTry, SectionPc
  <2>4. TokenBalance'
    BY <1>18, <2>1, <2>2, BalanceMove
    DEF EmptyTry, TypeOK, Slots, OwingPc, HoldingPc
  <2>5. RoomKept'
    BY <1>18, <2>1 DEF EmptyTry, TypeOK, RoomKept, At, Threads, Slots
  <2> QED
    BY <2>2, <2>3, <2>4, <2>5
<1>19. ASSUME NEW e \in Emptiers, EmptyLock(e) PROVE IInv'
  <2>1. e \in Threads /\ At(e, "eLock", "eCount")
    BY <1>19 DEF EmptyLock, Threads
  <2>2. TypeOK'
    BY <1>19, <2>1
    DEF EmptyLock, TypeOK, At, Threads, Slots,
        SendPc, RecvPc, EmptyPc, Lock
  <2>3. MutualExclusion'
    BY <1>19, <2>1, SectionMove DEF EmptyLock, SectionPc
  <2>4. TokenBalance'
    BY <1>19, <2>1, <2>2, BalanceMove
    DEF EmptyLock, TypeOK, Slots, OwingPc, HoldingPc
  <2>5. RoomKept'
    BY <1>19, <2>1 DEF EmptyLock, TypeOK, RoomKept, At, Threads, Slots
  <2> QED
    BY <2>2, <2>3, <2>4, <2>5
<1>20. ASSUME NEW e \in Emptiers, EmptyCount(e) PROVE IInv'
  <2>1. e \in Threads /\ At(e, "eCount", "eUnlock")
    BY <1>20 DEF EmptyCount, Threads
  <2>2. num > 0
    BY <2>1, NoUnderflow DEF At, HoldingPc
  <2>3. TypeOK'
    BY <1>20, <2>1, <2>2
    DEF EmptyCount, TypeOK, At, Threads, Slots,
        SendPc, RecvPc, EmptyPc
  <2>4. MutualExclusion'
    BY <1>20, <2>1, SectionMove DEF EmptyCount, SectionPc
  <2>5. TokenBalance'
    BY <1>20, <2>1, <2>3, BalanceMove
    DEF EmptyCount, TypeOK, Slots, OwingPc, HoldingPc
  <2>6. RoomKept'
    BY <1>20, <2>1 DEF EmptyCount, TypeOK, RoomKept, At, Threads, Slots
  <2> QED
    BY <2>3, <2>4, <2>5, <2>6
<1>21. ASSUME NEW e \in Emptiers, EmptyUnlock(e) PROVE IInv'
  <2>1. e \in Threads /\ At(e, "eUnlock", "eTry")
    BY <1>21 DEF EmptyUnlock, Threads
  <2>2. TypeOK'
    BY <1>21, <2>1
    DEF EmptyUnlock, TypeOK, At, Threads, Slots,
        SendPc, RecvPc, EmptyPc, Unlock
  <2>3. MutualExclusion'
    BY <1>21, <2>1, SectionMove DEF EmptyUnlock, SectionPc
  <2>4. TokenBalance'
    BY <1>21, <2>1, <2>2, BalanceMove
    DEF EmptyUnlock, TypeOK, Slots, OwingPc, HoldingPc
  <2>5. RoomKept'
    BY <1>21, <2>1 DEF EmptyUnlock, TypeOK, RoomKept, At, Threads, Slots
  <2> QED
    BY <2>2, <2>3, <2>4, <2>5
<1>22. CASE UNCHANGED vars
  <2>1. TypeOK' /\ MutualExclusion' /\ RoomKept'
    BY <1>22 DEF vars, TypeOK, MutualExclusion, InSection, RoomKept
  <2>2. TokenBalance'
    BY <1>22 DEF vars, TokenBalance, Owing, Holding
  <2> QED
    BY <2>1, <2>2
<1> QED
  BY <1>1, <1>2, <1>3, <1>4, <1>5, <1>6, <1>7, <1>8, <1>9, <1>10,
     <1>11, <1>12, <1>13, <1>14, <1>15, <1>16, <1>17, <1>18, <1>19, <1>20,
     <1>21, <1>22
  DEF Next, Send, Receive, Empty

(* The inductive invariant holds throughout.                               *)
THEOREM Consistent == Spec => []IInv
BY InitIInv, NextIInv, PTL DEF Spec

(* Every variable stays in its range: num is never decremented below zero  *)
(* nor incremented beyond the number of slots.                             *)
THEOREM TypeCorrect == Spec => []TypeOK
<1>1. IInv => TypeOK
  BY DEF IInv
<1> QED
  BY <1>1, Consistent, PTL

(* The mutex does protect the ring: one thread at a time is in a section.  *)
THEOREM Exclusion == Spec => []MutualExclusion
<1>1. IInv => MutualExclusion
  BY DEF IInv
<1> QED
  BY <1>1, Consistent, PTL

(* The semaphore and the counter agree up to the calls in progress.        *)
THEOREM Balance == Spec => []TokenBalance
<1>1. IInv => TokenBalance
  BY DEF IInv
<1> QED
  BY <1>1, Consistent, PTL

(* A sender that has found a free slot still has it when it counts its     *)
(* message, two statements later: SendMessage never overfills the ring.    *)
THEOREM Room == Spec => []RoomKept
<1>1. IInv => RoomKept
  BY DEF IInv
<1> QED
  BY <1>1, Consistent, PTL

-----------------------------------------------------------------------------
(* The ring as a sequence.                                                 *)

LEMMA Capacity == noElements \in Nat /\ noElements > 0
BY QueueAssumption

LEMMA Wrap ==
    ASSUME NEW a \in Slots, NEW i \in 0 .. noElements
    PROVE  /\ (a + i) % noElements = IF a + i < noElements THEN a + i
                                                           ELSE a + i - noElements
           /\ (a + i) % noElements \in Slots
<1> DEFINE n == noElements
<1>1. CASE a + i < n
  <2>1. a + i \in 0 .. n - 1
    BY <1>1, Capacity DEF Slots
  <2>2. (a + i) % n = a + i
    BY <2>1, Capacity
  <2> QED
    BY <1>1, <2>1, <2>2 DEF Slots
<1>2. CASE a + i >= n
  <2> DEFINE b == a + i - n
  <2>1. b \in 0 .. n - 1
    BY <1>2, Capacity DEF Slots
  <2>2. b \in Nat /\ b < n /\ a + i = b + n /\ a \in Int /\ i \in Int
    BY <2>1, Capacity DEF Slots
  <2> HIDE DEF b
  <2>3. (b + n) % n = b
    <3>1. b % n = b
      BY <2>2, Capacity
    <3> QED
      BY <2>2, <3>1, Capacity
  <2>4. (a + i) % n = b
    BY <2>2, <2>3
  <2>5. ~(a + i < n)
    BY <1>2, <2>2, Capacity
  <2> QED
    BY <2>1, <2>4, <2>5 DEF Slots, b
<1> QED
  BY <1>1, <1>2, Capacity DEF Slots

(* The k messages of the slots m from slot f on.                           *)
RingFrom(m, f, k) == [i \in 1 .. k |-> m[(f + i - 1) % noElements]]

LEMMA SameSequence ==
    ASSUME NEW S, NEW l \in Seq(S), NEW T, NEW r \in Seq(T), Len(l) = Len(r),
           \A i \in 1 .. Len(l) : l[i] = r[i]
    PROVE  l = r
OBVIOUS

LEMMA RingSequence ==
    ASSUME NEW S, NEW m \in [Slots -> S], NEW f \in Slots, NEW k \in 0 .. noElements
    PROVE  /\ RingFrom(m, f, k) \in Seq(S) /\ Len(RingFrom(m, f, k)) = k
           /\ \A j \in 0 .. k - 1 : RingFrom(m, f, k)[j + 1] = m[(f + j) % noElements]
<1> DEFINE l == RingFrom(m, f, k)
<1>1. \A i \in 1 .. k : f + i - 1 = f + (i - 1) /\ i - 1 \in 0 .. noElements
  BY Capacity DEF Slots
<1>2. \A i \in 1 .. k : (f + i - 1) % noElements \in Slots
  BY <1>1, Wrap
<1>3. l \in [1 .. k -> S]
  BY <1>2 DEF RingFrom
<1>4. k \in Nat
  BY Capacity
<1>5. \A j \in 0 .. k - 1 : l[j + 1] = m[(f + j) % noElements]
  <2> SUFFICES ASSUME NEW j \in 0 .. k - 1 PROVE l[j + 1] = m[(f + j) % noElements]
    OBVIOUS
  <2>1. j + 1 \in 1 .. k /\ f + (j + 1) - 1 = f + j
    BY Capacity DEF Slots
  <2> QED
    BY <2>1 DEF RingFrom
<1> HIDE DEF l
<1>6. l \in Seq(S)
  BY <1>3, <1>4
<1>7. Len(l) = k
  BY <1>3, <1>4, <1>6
<1> QED
  BY <1>5, <1>6, <1>7 DEF l

(* A slot behind the k messages may be overwritten.                        *)
LEMMA StoreOutside ==
    ASSUME NEW S, NEW m \in [Slots -> S], NEW f \in Slots, NEW k \in 0 .. noElements - 1,
           NEW j \in k .. noElements - 1, NEW w \in [Slots -> S],
           \A i \in Slots \ {(f + j) % noElements} : w[i] = m[i]
    PROVE  RingFrom(w, f, k) = RingFrom(m, f, k)
<1> DEFINE n == noElements
<1>1. (f + j) % n \in Slots
  BY Wrap, Capacity
<1>3. \A i \in 0 .. k - 1 : (f + i) % n \in Slots /\ (f + i) % n # (f + j) % n
  <2> SUFFICES ASSUME NEW i \in 0 .. k - 1
               PROVE  (f + i) % n \in Slots /\ (f + i) % n # (f + j) % n
    OBVIOUS
  <2>1. i \in 0 .. n /\ j \in 0 .. n /\ i < j /\ j < n
    BY Capacity
  <2>2. /\ (f + i) % n = IF f + i < n THEN f + i ELSE f + i - n
        /\ (f + j) % n = IF f + j < n THEN f + j ELSE f + j - n
        /\ (f + i) % n \in Slots
    BY <2>1, Wrap
  <2> QED
    BY <2>1, <2>2, Capacity DEF Slots
<1>4. \A i \in 0 .. k - 1 : w[(f + i) % n] = m[(f + i) % n]
  BY <1>1, <1>3
<1>5. \A i \in 1 .. k : w[(f + i - 1) % n] = m[(f + i - 1) % n]
  <2> SUFFICES ASSUME NEW i \in 1 .. k PROVE w[(f + i - 1) % n] = m[(f + i - 1) % n]
    OBVIOUS
  <2>1. i - 1 \in 0 .. k - 1 /\ f + i - 1 = f + (i - 1)
    BY Capacity DEF Slots
  <2> QED
    BY <1>4, <2>1
<1> QED
  BY <1>5 DEF RingFrom

LEMMA PushBack ==
    ASSUME NEW S, NEW m \in [Slots -> S], NEW f \in Slots, NEW k \in 0 .. noElements - 1
    PROVE  RingFrom(m, f, k + 1) = Append(RingFrom(m, f, k), m[(f + k) % noElements])
<1> DEFINE l == RingFrom(m, f, k + 1)
           r == RingFrom(m, f, k)
           x == m[(f + k) % noElements]
<1>1. k \in 0 .. noElements /\ k + 1 \in 0 .. noElements /\ k \in Nat
  BY Capacity
<1>2. /\ l \in Seq(S) /\ Len(l) = k + 1
      /\ \A j \in 0 .. (k + 1) - 1 : l[j + 1] = m[(f + j) % noElements]
  BY ZenonT(60), <1>1, RingSequence
<1>3. /\ r \in Seq(S) /\ Len(r) = k
      /\ \A j \in 0 .. k - 1 : r[j + 1] = m[(f + j) % noElements]
  BY ZenonT(60), <1>1, RingSequence
<1>4. (f + k) % noElements \in Slots
  BY <1>1, Wrap
<1>5. x \in S
  BY <1>4
<1> HIDE DEF l, r, x
<1>6. /\ Append(r, x) \in Seq(S) /\ Len(Append(r, x)) = k + 1
      /\ \A i \in 1 .. k : Append(r, x)[i] = r[i]
      /\ Append(r, x)[k + 1] = x
  BY <1>1, <1>3, <1>5
<1>7. \A i \in 1 .. k + 1 : l[i] = Append(r, x)[i]
  <2> SUFFICES ASSUME NEW i \in 1 .. k + 1 PROVE l[i] = Append(r, x)[i]
    OBVIOUS
  <2>1. CASE i = k + 1
    <3>1. l[k + 1] = x
      BY <1>1, <1>2 DEF x
    <3> QED
      BY <1>6, <2>1, <3>1
  <2>2. CASE i # k + 1
    <3>1. i - 1 \in 0 .. k - 1 /\ i - 1 \in 0 .. (k + 1) - 1 /\ (i - 1) + 1 = i /\ i \in 1 .. k
      BY <1>1, <2>2
    <3> QED
      BY <1>2, <1>3, <1>6, <3>1
  <2> QED
    BY <2>1, <2>2
<1> QED
  BY <1>2, <1>6, <1>7, SameSequence DEF l, r, x

LEMMA Shift ==
    ASSUME NEW f \in Slots, NEW j \in 0 .. noElements - 1
    PROVE  /\ (f + 1) % noElements \in Slots
           /\ (((f + 1) % noElements) + j) % noElements = (f + (j + 1)) % noElements
<1> DEFINE n == noElements
           g == (f + 1) % n
<1>1. 1 \in 0 .. n /\ j \in 0 .. n /\ j + 1 \in 0 .. n
  BY Capacity
<1>2. g \in Slots /\ g = IF f + 1 < n THEN f + 1 ELSE f + 1 - n
  BY <1>1, Wrap
<1>3. (f + (j + 1)) % n = IF f + (j + 1) < n THEN f + (j + 1) ELSE f + (j + 1) - n
  BY <1>1, Wrap
<1> HIDE DEF g
<1>4. (g + j) % n = IF g + j < n THEN g + j ELSE g + j - n
  BY <1>1, <1>2, Wrap
<1>5. f \in Int /\ j \in Int /\ n \in Int /\ f < n /\ f >= 0 /\ j < n /\ j >= 0
  BY Capacity DEF Slots
<1>6. CASE f + 1 < n
  BY <1>2, <1>3, <1>4, <1>5, <1>6
<1>7. CASE f + 1 = n
  <2>1. g = 0 /\ f + (j + 1) = n + j
    BY <1>2, <1>5, <1>7
  <2>2. (f + (j + 1)) % n = j
    BY <1>3, <1>5, <2>1
  <2>3. (g + j) % n = j
    BY <1>4, <1>5, <2>1
  <2> QED
    BY <1>2, <2>2, <2>3 DEF g
<1> QED
  BY <1>2, <1>5, <1>6, <1>7 DEF g

(* A sequence that has the k messages from slot f on is the ring.          *)
LEMMA RingIs ==
    ASSUME NEW S, NEW m \in [Slots -> S], NEW f \in Slots, NEW k \in 0 .. noElements,
           NEW l \in Seq(S), Len(l) = k,
           \A i \in 1 .. k : \E j \in 0 .. k - 1 :
               i = j + 1 /\ l[i] = m[(f + j) % noElements]
    PROVE  l = RingFrom(m, f, k)
<1> DEFINE r == RingFrom(m, f, k)
<1>1. /\ r \in Seq(S) /\ Len(r) = k
      /\ \A j \in 0 .. k - 1 : r[j + 1] = m[(f + j) % noElements]
  BY RingSequence
<1> HIDE DEF r
<1>2. \A i \in 1 .. Len(l) : l[i] = r[i]
  BY <1>1
<1> QED
  BY <1>1, <1>2, SameSequence DEF r

(* The front message off: the receiver's begin moves to the next slot.     *)
LEMMA PopFront ==
    ASSUME NEW S, NEW m \in [Slots -> S], NEW f \in Slots, NEW k \in 1 .. noElements
    PROVE  /\ RingFrom(m, f, k) # <<>>
           /\ Head(RingFrom(m, f, k)) = m[f]
           /\ Tail(RingFrom(m, f, k)) = RingFrom(m, (f + 1) % noElements, k - 1)
<1> DEFINE n == noElements
           r == RingFrom(m, f, k)
           g == (f + 1) % n
           l == Tail(r)
<1>1. k \in 0 .. n /\ k - 1 \in 0 .. n /\ k \in Nat /\ k > 0
  BY Capacity
<1>2. /\ r \in Seq(S) /\ Len(r) = k
      /\ \A j \in 0 .. k - 1 : r[j + 1] = m[(f + j) % n]
  BY ZenonT(60), <1>1, RingSequence
<1>3. g \in Slots
  BY Shift, Capacity
<1>4. \A j \in 0 .. (k - 1) - 1 : r[(j + 1) + 1] = m[(g + j) % n]
  <2> SUFFICES ASSUME NEW j \in 0 .. (k - 1) - 1 PROVE r[(j + 1) + 1] = m[(g + j) % n]
    OBVIOUS
  <2>1. j \in 0 .. n - 1 /\ j + 1 \in 0 .. k - 1
    BY <1>1, Capacity
  <2>2. r[(j + 1) + 1] = m[(f + (j + 1)) % n]
    BY <1>2, <2>1
  <2>3. (g + j) % n = (f + (j + 1)) % n
    BY <2>1, Shift
  <2> QED
    BY <2>2, <2>3
<1>5. r # <<>> /\ Head(r) = m[f]
  <2>1. f + 0 = f /\ f \in 0 .. n - 1 /\ 0 \in 0 .. k - 1 /\ 0 \in 0 .. n
    BY <1>1, Capacity DEF Slots
  <2>2. (f + 0) % n = f
    BY <2>1, Wrap, Capacity
  <2>3. r[0 + 1] = m[f]
    BY <1>2, <2>1, <2>2
  <2> HIDE DEF r
  <2> QED
    BY <1>1, <1>2, <2>3
<1> HIDE DEF r
<1>6. l \in Seq(S) /\ Len(l) = k - 1 /\ \A i \in 1 .. k - 1 : l[i] = r[i + 1]
  BY <1>1, <1>2
<1> HIDE DEF l, g
<1>7. \A i \in 1 .. k - 1 : \E j \in 0 .. (k - 1) - 1 : i = j + 1 /\ l[i] = m[(g + j) % n]
  <2> SUFFICES ASSUME NEW i \in 1 .. k - 1
               PROVE  \E j \in 0 .. (k - 1) - 1 : i = j + 1 /\ l[i] = m[(g + j) % n]
    OBVIOUS
  <2>1. i - 1 \in 0 .. (k - 1) - 1 /\ i = (i - 1) + 1
    BY <1>1
  <2>2. l[i] = r[((i - 1) + 1) + 1]
    BY <1>6, <2>1
  <2> QED
    BY <1>4, <2>1, <2>2
<1>8. l = RingFrom(m, g, k - 1)
  <2>1. k - 1 \in 0 .. n
    BY <1>1
  <2>2. l \in Seq(S) /\ Len(l) = k - 1
    BY <1>6
  <2> QED
    BY ZenonT(60), <1>3, <1>7, <2>1, <2>2, RingIs
<1> QED
  BY <1>5, <1>8 DEF r, l, g

(* The back message off: only the count changes.                           *)
LEMMA PopBack ==
    ASSUME NEW S, NEW m \in [Slots -> S], NEW f \in Slots, NEW k \in 1 .. noElements
    PROVE  /\ RingFrom(m, f, k) # <<>>
           /\ SubSeq(RingFrom(m, f, k), 1, Len(RingFrom(m, f, k)) - 1) = RingFrom(m, f, k - 1)
<1> DEFINE n == noElements
           r == RingFrom(m, f, k)
           l == SubSeq(r, 1, Len(r) - 1)
<1>1. k \in 0 .. n /\ k - 1 \in 0 .. n /\ k \in Nat /\ k > 0
  BY Capacity
<1>2. /\ r \in Seq(S) /\ Len(r) = k
      /\ \A j \in 0 .. k - 1 : r[j + 1] = m[(f + j) % n]
  BY ZenonT(60), <1>1, RingSequence
<1> HIDE DEF r
<1>3. r # <<>>
  BY <1>1, <1>2
<1>4. l \in Seq(S) /\ Len(l) = k - 1 /\ \A i \in 1 .. k - 1 : l[i] = r[i]
  BY <1>1, <1>2
<1> HIDE DEF l
<1>5. \A i \in 1 .. k - 1 : \E j \in 0 .. (k - 1) - 1 : i = j + 1 /\ l[i] = m[(f + j) % n]
  <2> SUFFICES ASSUME NEW i \in 1 .. k - 1
               PROVE  \E j \in 0 .. (k - 1) - 1 : i = j + 1 /\ l[i] = m[(f + j) % n]
    OBVIOUS
  <2>1. i - 1 \in 0 .. (k - 1) - 1 /\ i = (i - 1) + 1 /\ i - 1 \in 0 .. k - 1
    BY <1>1
  <2> QED
    BY <1>2, <1>4, <2>1
<1>6. l = RingFrom(m, f, k - 1)
  <2>1. k - 1 \in 0 .. n
    BY <1>1
  <2>2. l \in Seq(S) /\ Len(l) = k - 1
    BY <1>4
  <2> QED
    BY <1>5, <2>1, <2>2, RingIs
<1> QED
  BY <1>3, <1>6 DEF r, l

(* A message in front of all others.                                       *)
LEMMA PushFront ==
    ASSUME NEW S, NEW m \in [Slots -> S], NEW f \in Slots, NEW k \in 0 .. noElements - 1
    PROVE  RingFrom(m, f, k + 1) = <<m[f]>> \o RingFrom(m, (f + 1) % noElements, k)
<1> DEFINE g == (f + 1) % noElements
           r == RingFrom(m, f, k + 1)
           t == RingFrom(m, g, k)
           h == <<m[f]>>
           l == h \o t
<1>1. k + 1 \in 1 .. noElements /\ k + 1 \in 0 .. noElements /\ (k + 1) - 1 = k
      /\ k \in Nat /\ k \in 0 .. noElements
  BY Capacity
<1>2. g \in Slots
  BY Shift, Capacity
<1> HIDE DEF g
<1>3. r # <<>> /\ Head(r) = m[f] /\ Tail(r) = RingFrom(m, (f + 1) % noElements, (k + 1) - 1)
  BY <1>1, PopFront
<1>4. Tail(r) = t
  BY <1>1, <1>3 DEF g
<1>5. r \in Seq(S) /\ Len(r) = k + 1
  <2>1. k + 1 \in 0 .. noElements
    BY <1>1
  <2> QED
    BY <2>1, RingSequence
<1>6. t \in Seq(S) /\ Len(t) = k
  BY ZenonT(60), <1>1, <1>2, RingSequence
<1> HIDE DEF r, t
<1>7. h \in Seq(S) /\ Len(h) = 1 /\ h[1] = r[1]
  BY <1>1, <1>3, <1>5
<1>8. \A i \in 1 .. k : t[i] = r[i + 1]
  BY <1>1, <1>4, <1>5
<1> HIDE DEF h
<1>9. /\ l \in Seq(S)
      /\ Len(l) = Len(h) + Len(t)
      /\ \A i \in 1 .. Len(h) + Len(t) :
            l[i] = IF i <= Len(h) THEN h[i] ELSE t[i - Len(h)]
  BY <1>6, <1>7, ConcatProperties
<1> HIDE DEF l
<1>10. /\ l \in Seq(S) /\ Len(l) = k + 1
       /\ \A i \in 1 .. k + 1 : l[i] = IF i <= 1 THEN h[i] ELSE t[i - 1]
  BY <1>1, <1>6, <1>7, <1>9
<1>11. \A i \in 1 .. k + 1 : l[i] = r[i]
  <2> SUFFICES ASSUME NEW i \in 1 .. k + 1 PROVE l[i] = r[i]
    OBVIOUS
  <2>1. CASE i = 1
    BY <1>7, <1>10, <2>1
  <2>2. CASE i # 1
    <3>1. i - 1 \in 1 .. k /\ ~(i <= 1) /\ (i - 1) + 1 = i
      BY <1>1, <2>2
    <3> QED
      BY <1>8, <1>10, <3>1
  <2> QED
    BY <2>1, <2>2
<1>12. l = r
  BY <1>5, <1>10, <1>11, SameSequence
<1> QED
  BY <1>12 DEF r, t, l, h, g

(* The slot in which a sender has stored its message and not counted it.   *)
Entry == IF msgMode = "FIFO" THEN (begin + num) % noElements ELSE begin

(* What the threads carry between two statements of a section is what the  *)
(* ring holds: a sender's message is in its slot when it is counted, and a *)
(* receiver's copy is still the front message when begin moves on.         *)
Carried ==
    /\ \A s \in Senders : pc[s] \in {"sLock", "sTest", "sCount"} => buf[s] \in Msg
    /\ \A s \in Senders : pc[s] = "sCount" => buf[s] = msgs[Entry]
    /\ \A r \in Receivers : pc[r] = "rAdvance" => buf[r] = msgs[begin]

-----------------------------------------------------------------------------
(* The refinement of AbstractQueue.                                        *)

(* The two variables of the abstract queue, as MsgQueue maps them.         *)
Content   == RingFrom(msgs, First, num)
Delivered == [r \in Receivers |-> IF pc[r] = "rUnlock" THEN buf[r] ELSE NoMsg]

(* A statement of thread t leaves every other thread where it was; if t is *)
(* in a section, no other thread is.                                       *)
LEMMA Others ==
    ASSUME TypeOK, NEW t \in Threads, NEW from, NEW to, At(t, from, to)
    PROVE  /\ pc[t] = from /\ pc'[t] = to
           /\ \A u \in Threads \ {t} : pc'[u] = pc[u]
           /\ MutualExclusion /\ from \in SectionPc =>
                  \A u \in Threads \ {t} : pc[u] \notin SectionPc
<1>1. /\ pc[t] = from /\ pc'[t] = to
      /\ \A u \in Threads \ {t} : pc'[u] = pc[u]
  BY DEF At, TypeOK
<1>2. ASSUME MutualExclusion, from \in SectionPc, NEW u \in Threads \ {t}
      PROVE  pc[u] \notin SectionPc
  BY <1>1, <1>2 DEF MutualExclusion, InSection
<1> QED
  BY <1>1, <1>2

(* Carried is preserved by a statement that leaves the ring alone ...      *)
LEMMA CarriedKept ==
    ASSUME TypeOK, Carried, NEW t \in Threads, NEW from, NEW to, At(t, from, to),
           UNCHANGED <<begin, num, msgs>>,
           \A u \in Threads \ {t} : buf'[u] = buf[u],
           to # "sCount",
           t \in Senders /\ to \in {"sLock", "sTest"} => buf'[t] \in Msg,
           to = "rAdvance" => buf'[t] = msgs[begin]
    PROVE  Carried'
<1>1. /\ pc[t] = from /\ pc'[t] = to
      /\ \A u \in Threads \ {t} : pc'[u] = pc[u]
  BY Others
<1>2. Entry' = Entry
  BY DEF Entry
<1> QED
  BY <1>1, <1>2 DEF Carried, Threads

(* ... and by one that changes the ring inside a section.                  *)
LEMMA CarriedAlone ==
    ASSUME TypeOK, MutualExclusion, Carried,
           NEW t \in Threads, NEW from, NEW to, At(t, from, to),
           from \in SectionPc, to \in SectionPc \ {"sTest", "rAdvance"},
           \A u \in Threads \ {t} : buf'[u] = buf[u],
           to = "sCount" => buf'[t] \in Msg /\ buf'[t] = msgs'[Entry']
    PROVE  Carried'
<1>1. /\ pc[t] = from /\ pc'[t] = to
      /\ \A u \in Threads \ {t} : pc'[u] = pc[u] /\ pc[u] \notin SectionPc
  BY Others
<1>2. to \notin {"sLock", "sTest", "rAdvance"}
  BY DEF SectionPc
<1>3. "sCount" \in SectionPc /\ "rAdvance" \in SectionPc
  BY DEF SectionPc
<1>4. \A s \in Senders : pc'[s] \in {"sLock", "sTest", "sCount"} => buf'[s] \in Msg
  BY <1>1, <1>2 DEF Carried, Threads
<1>5. \A s \in Senders : pc'[s] = "sCount" => buf'[s] = msgs'[Entry']
  BY <1>1, <1>3 DEF Threads
<1>6. \A r \in Receivers : pc'[r] = "rAdvance" => buf'[r] = msgs'[begin']
  BY <1>1, <1>2, <1>3 DEF Threads
<1> QED
  BY <1>4, <1>5, <1>6 DEF Carried

(* Whether a sender is storing changes only at sCount.                     *)
LEMMA StoringMove ==
    ASSUME TypeOK, NEW t \in Threads, NEW from, NEW to, At(t, from, to)
    PROVE  /\ from # "sCount" /\ to # "sCount" => (Storing' <=> Storing)
           /\ MutualExclusion /\ from \in SectionPc =>
                 /\ Storing => from = "sCount"
                 /\ Storing' => to = "sCount"
<1>1. /\ pc[t] = from /\ pc'[t] = to
      /\ \A u \in Threads \ {t} : pc'[u] = pc[u]
      /\ MutualExclusion /\ from \in SectionPc =>
             \A u \in Threads \ {t} : pc[u] \notin SectionPc
  BY Others
<1>2. "sCount" \in SectionPc
  BY DEF SectionPc
<1>3. from # "sCount" /\ to # "sCount" => \A s \in Senders : pc'[s] = "sCount" <=> pc[s] = "sCount"
  BY <1>1 DEF Threads
<1>4. ASSUME MutualExclusion, from \in SectionPc, NEW s \in Senders
      PROVE  /\ pc[s] = "sCount" => from = "sCount"
             /\ pc'[s] = "sCount" => to = "sCount"
  BY <1>1, <1>2, <1>4 DEF Threads
<1> QED
  BY <1>3, <1>4 DEF Storing

(* What a receiver's call has delivered changes only at rUnlock.           *)
LEMMA DeliveredMove ==
    ASSUME TypeOK, NEW t \in Threads, NEW from, NEW to, At(t, from, to),
           \A u \in Threads \ {t} : buf'[u] = buf[u],
           from # "rUnlock"
    PROVE  /\ to # "rUnlock" => Delivered' = Delivered
           /\ t \in Receivers /\ to = "rUnlock" =>
                 /\ Delivered[t] = NoMsg
                 /\ Delivered' = [Delivered EXCEPT ![t] = buf'[t]]
<1>1. /\ pc[t] = from /\ pc'[t] = to
      /\ \A u \in Threads \ {t} : pc'[u] = pc[u]
  BY Others
<1>2. \A r \in Receivers : r \in Threads
  BY DEF Threads
<1>3. ASSUME to # "rUnlock" PROVE Delivered' = Delivered
  BY <1>1, <1>2, <1>3 DEF Delivered
<1>4. ASSUME t \in Receivers, to = "rUnlock"
      PROVE  /\ Delivered[t] = NoMsg
             /\ Delivered' = [Delivered EXCEPT ![t] = buf'[t]]
  BY <1>1, <1>2, <1>4 DEF Delivered
<1> QED
  BY <1>3, <1>4

(* A statement that leaves the ring alone, and neither counts a message    *)
(* nor ends a delivery, does not show.                                     *)
LEMMA Silent ==
    ASSUME TypeOK, NEW t \in Threads, NEW from, NEW to, At(t, from, to),
           from \notin {"sCount", "rUnlock"}, to \notin {"sCount", "rUnlock"},
           UNCHANGED <<begin, num, msgs>>,
           \A u \in Threads \ {t} : buf'[u] = buf[u]
    PROVE  UNCHANGED <<Content, Delivered>>
<1>1. Storing' <=> Storing
  BY StoringMove
<1>2. First' = First
  BY <1>1 DEF First
<1>3. Content' = Content
  BY <1>2 DEF Content
<1>4. Delivered' = Delivered
  BY DeliveredMove
<1> QED
  BY <1>3, <1>4
-----------------------------------------------------------------------------
(* The four statements that do show.                                       *)

(* A ring that is not full takes a message in a free slot: the slot behind *)
(* the last message, or the one in front of the first, which is the last   *)
(* of the free ones.                                                       *)
LEMMA StoreHidden ==
    ASSUME IInv, NEW s \in Senders, SendStore(s)
    PROVE  /\ UNCHANGED <<Content, Delivered>>
           /\ buf'[s] = msgs'[Entry']
<1> DEFINE n == noElements
           V == Msg \cup {NoMsg}
           front == IF begin > 0 THEN begin - 1 ELSE n - 1
<1>1. TypeOK /\ MutualExclusion
  BY DEF IInv
<1>2. s \in Threads /\ At(s, "sTest", "sCount") /\ buf' = buf /\ num' = num /\ num < n
  BY DEF SendStore, Threads
<1>3. "sTest" \in SectionPc
  BY DEF SectionPc
<1>4. ~Storing
  BY <1>1, <1>2, <1>3, StoringMove
<1>5. Delivered' = Delivered
  BY <1>1, <1>2, DeliveredMove
<1>6. /\ begin \in Slots /\ num \in 0 .. n - 1 /\ msgs \in [Slots -> V]
      /\ buf[s] \in V
  BY <1>1, <1>2, Capacity DEF TypeOK
<1>7. Content = RingFrom(msgs, begin, num)
  BY <1>4 DEF Content, First
<1>8. CASE msgMode = "FIFO"
  <2> DEFINE slot == (begin + num) % n
  <2>1. msgs' = [msgs EXCEPT ![slot] = buf[s]] /\ begin' = begin
    BY <1>8 DEF SendStore
  <2>2. slot \in Slots
    BY <1>6, Wrap, Capacity
  <2>3. First' = begin
    BY <1>8, <2>1 DEF First, Storing
  <2>4. num \in num .. n - 1
    BY <1>6, Capacity
  <2>5. RingFrom(msgs', begin, num) = RingFrom(msgs, begin, num)
    <3>1. msgs' \in [Slots -> V] /\ \A i \in Slots \ {slot} : msgs'[i] = msgs[i]
      BY <1>6, <2>1
    <3> HIDE DEF V
    <3> QED
      BY ZenonT(60), <1>6, <2>4, <3>1, StoreOutside
  <2>6. Content' = Content
    BY <1>2, <1>7, <2>1, <2>3, <2>5 DEF Content
  <2>7. Entry' = slot
    BY <1>2, <1>8, <2>1 DEF Entry
  <2> HIDE DEF slot
  <2>8. msgs'[slot] = buf[s]
    BY <1>6, <2>1, <2>2
  <2> QED
    BY <1>2, <1>5, <2>6, <2>7, <2>8
<1>9. CASE msgMode # "FIFO"
  <2>1. msgs' = [msgs EXCEPT ![front] = buf[s]] /\ begin' = front /\ msgMode = "PRIORITY"
    BY <1>9, QueueAssumption DEF SendStore
  <2>2. n - 1 \in num .. n - 1 /\ n - 1 \in 0 .. n /\ 1 \in 0 .. n
    BY <1>6, Capacity
  <2>3. (begin + (n - 1)) % n = front
    <3>1. (begin + (n - 1)) % n = IF begin + (n - 1) < n THEN begin + (n - 1)
                                                         ELSE begin + (n - 1) - n
      BY <1>6, <2>2, Wrap
    <3> QED
      BY <1>6, <3>1, Capacity DEF Slots
  <2>4. front \in Slots
    BY <1>6, Capacity DEF Slots
  <2>5. (front + 1) % n = begin
    <3>1. (front + 1) % n = IF front + 1 < n THEN front + 1 ELSE front + 1 - n
      BY <2>2, <2>4, Wrap
    <3> QED
      BY <1>6, <3>1, Capacity DEF Slots
  <2>6. pc'[s] = "sCount"
    BY <1>1, <1>2, Others
  <2> HIDE DEF front
  <2>7. First' = begin
    BY <2>1, <2>5, <2>6 DEF First, Storing
  <2>8. RingFrom(msgs', begin, num) = RingFrom(msgs, begin, num)
    <3>1. msgs' \in [Slots -> V] /\ \A i \in Slots \ {front} : msgs'[i] = msgs[i]
      BY <1>6, <2>1
    <3>2. \A i \in Slots \ {(begin + (n - 1)) % n} : msgs'[i] = msgs[i]
      BY <2>3, <3>1
    <3>3. n - 1 \in num .. n - 1
      BY <2>2
    <3> HIDE DEF V
    <3> QED
      BY ZenonT(60), <1>6, <3>1, <3>2, <3>3, StoreOutside
  <2>9. Content' = Content
    BY <1>2, <1>7, <2>1, <2>7, <2>8 DEF Content
  <2>10. Entry' = front
    BY <1>9, <2>1 DEF Entry
  <2>11. msgs'[front] = buf[s]
    BY <1>6, <2>1, <2>4
  <2> QED
    BY <1>2, <1>5, <2>9, <2>10, <2>11
<1> QED
  BY <1>8, <1>9

(* Counting a message is what sends it.                                    *)
LEMMA CountSends ==
    ASSUME IInv, Carried, NEW s \in Senders, SendCount(s)
    PROVE  /\ buf[s] \in Msg
           /\ Len(Content) < noElements
           /\ Content' = IF msgMode = "FIFO" THEN Append(Content, buf[s])
                                             ELSE <<buf[s]>> \o Content
           /\ Delivered' = Delivered
<1> DEFINE n == noElements
           V == Msg \cup {NoMsg}
<1>1. TypeOK /\ MutualExclusion /\ RoomKept
  BY DEF IInv
<1>2. /\ s \in Threads /\ At(s, "sCount", "sUnlock") /\ buf' = buf /\ num' = num + 1
      /\ begin' = begin /\ msgs' = msgs
  BY DEF SendCount, Threads
<1>3. "sCount" \in SectionPc
  BY DEF SectionPc
<1>4. pc[s] = "sCount"
  BY <1>1, <1>2, Others
<1>5. ~Storing'
  BY <1>1, <1>2, <1>3, StoringMove
<1>6. Delivered' = Delivered
  BY <1>1, <1>2, DeliveredMove
<1>7. /\ begin \in Slots /\ num \in 0 .. n - 1 /\ msgs \in [Slots -> V]
      /\ num \in 0 .. n
  BY <1>1, <1>4, Capacity DEF TypeOK, RoomKept
<1>8. buf[s] \in Msg /\ buf[s] = msgs[Entry]
  BY <1>4 DEF Carried
<1>9. Content' = RingFrom(msgs, begin, num + 1)
  BY <1>2, <1>5 DEF Content, First
<1>10. First \in Slots
  BY <1>7, Shift, Capacity DEF First
<1>11. Len(Content) = num
  BY <1>7, <1>10, RingSequence DEF Content
<1>12. Len(Content) < n
  BY <1>7, <1>11, Capacity
<1>13. CASE msgMode = "FIFO"
  <2>1. Content = RingFrom(msgs, begin, num)
    BY <1>13 DEF Content, First, Storing
  <2>2. RingFrom(msgs, begin, num + 1) = Append(RingFrom(msgs, begin, num), msgs[(begin + num) % n])
    BY <1>7, PushBack
  <2>3. msgs[(begin + num) % n] = buf[s]
    BY <1>8, <1>13 DEF Entry
  <2> QED
    BY <1>6, <1>8, <1>9, <1>12, <1>13, <2>1, <2>2, <2>3
<1>14. CASE msgMode # "FIFO"
  <2>1. Storing
    BY <1>4, <1>14, QueueAssumption DEF Storing
  <2>2. Content = RingFrom(msgs, (begin + 1) % n, num)
    BY <2>1 DEF Content, First
  <2>3. RingFrom(msgs, begin, num + 1) = <<msgs[begin]>> \o RingFrom(msgs, (begin + 1) % n, num)
    BY <1>7, PushFront
  <2>4. msgs[begin] = buf[s]
    BY <1>8, <1>14 DEF Entry
  <2> QED
    BY <1>6, <1>8, <1>9, <1>12, <1>14, <2>2, <2>3, <2>4
<1> QED
  BY <1>13, <1>14

(* Moving begin on is what receives the message that was copied before.    *)
LEMMA AdvanceReceives ==
    ASSUME IInv, Carried, NEW r \in Receivers, RecvAdvance(r)
    PROVE  /\ Content # <<>>
           /\ Delivered[r] = NoMsg
           /\ Delivered' = [Delivered EXCEPT ![r] = Head(Content)]
           /\ Content' = Tail(Content)
<1> DEFINE n == noElements
           V == Msg \cup {NoMsg}
<1>1. TypeOK /\ MutualExclusion /\ TokenBalance
  BY DEF IInv
<1>2. /\ r \in Threads /\ At(r, "rAdvance", "rUnlock") /\ buf' = buf /\ num' = num - 1
      /\ begin' = (begin + 1) % n /\ msgs' = msgs
  BY DEF RecvAdvance, Threads
<1>3. "rAdvance" \in SectionPc /\ "rAdvance" \in HoldingPc
  BY DEF SectionPc, HoldingPc
<1>4. pc[r] = "rAdvance"
  BY <1>1, <1>2, Others
<1>5. ~Storing /\ ~Storing'
  BY <1>1, <1>2, <1>3, StoringMove
<1>6. Delivered[r] = NoMsg /\ Delivered' = [Delivered EXCEPT ![r] = buf'[r]]
  BY <1>1, <1>2, DeliveredMove
<1>7. num > 0
  BY <1>1, <1>2, <1>3, <1>4, NoUnderflow
<1>8. begin \in Slots /\ num \in 1 .. n /\ msgs \in [Slots -> V]
  BY <1>1, <1>7, Capacity DEF TypeOK
<1>9. buf[r] = msgs[begin]
  BY <1>4 DEF Carried
<1>10. /\ Content = RingFrom(msgs, begin, num)
       /\ Content' = RingFrom(msgs, (begin + 1) % n, num - 1)
  BY <1>2, <1>5 DEF Content, First
<1>11. /\ RingFrom(msgs, begin, num) # <<>>
       /\ Head(RingFrom(msgs, begin, num)) = msgs[begin]
       /\ Tail(RingFrom(msgs, begin, num)) = RingFrom(msgs, (begin + 1) % n, num - 1)
  BY <1>8, PopFront
<1> QED
  BY <1>2, <1>6, <1>9, <1>10, <1>11

(* Returning from the call is what hands the message to the caller.        *)
LEMMA UnlockReturns ==
    ASSUME IInv, NEW r \in Receivers, RecvUnlock(r)
    PROVE  /\ Content' = Content
           /\ Delivered' = [Delivered EXCEPT ![r] = NoMsg]
<1>1. TypeOK
  BY DEF IInv
<1>2. /\ r \in Threads /\ At(r, "rUnlock", "idle") /\ buf' = [buf EXCEPT ![r] = NoMsg]
      /\ begin' = begin /\ num' = num /\ msgs' = msgs
  BY DEF RecvUnlock, Threads
<1>3. /\ pc[r] = "rUnlock" /\ pc'[r] = "idle"
      /\ \A u \in Threads \ {r} : pc'[u] = pc[u]
  BY <1>1, <1>2, Others
<1>4. \A u \in Threads \ {r} : buf'[u] = buf[u]
  BY <1>1, <1>2 DEF TypeOK
<1>5. \A u \in Receivers : u \in Threads
  BY DEF Threads
<1>6. Delivered' = [Delivered EXCEPT ![r] = NoMsg]
  BY <1>3, <1>4, <1>5 DEF Delivered
<1>7. Storing' <=> Storing
  BY <1>1, <1>2, StoringMove
<1>8. Content' = Content
  BY <1>2, <1>7 DEF Content, First
<1> QED
  BY <1>6, <1>8

(* A round of EmptyMessage discards the back message.                      *)
LEMMA EmptyDiscards ==
    ASSUME IInv, NEW e \in Emptiers, EmptyCount(e)
    PROVE  /\ Content # <<>>
           /\ Content' = SubSeq(Content, 1, Len(Content) - 1)
           /\ Delivered' = Delivered
<1> DEFINE n == noElements
           V == Msg \cup {NoMsg}
<1>1. TypeOK /\ MutualExclusion /\ TokenBalance
  BY DEF IInv
<1>2. /\ e \in Threads /\ At(e, "eCount", "eUnlock") /\ buf' = buf /\ num' = num - 1
      /\ begin' = begin /\ msgs' = msgs
  BY DEF EmptyCount, Threads
<1>3. "eCount" \in SectionPc /\ "eCount" \in HoldingPc
  BY DEF SectionPc, HoldingPc
<1>4. pc[e] = "eCount"
  BY <1>1, <1>2, Others
<1>5. ~Storing /\ ~Storing'
  BY <1>1, <1>2, <1>3, StoringMove
<1>6. Delivered' = Delivered
  BY <1>1, <1>2, DeliveredMove
<1>7. num > 0
  BY <1>1, <1>2, <1>3, <1>4, NoUnderflow
<1>8. begin \in Slots /\ num \in 1 .. n /\ msgs \in [Slots -> V]
  BY <1>1, <1>7, Capacity DEF TypeOK
<1>9. Content = RingFrom(msgs, begin, num) /\ Content' = RingFrom(msgs, begin, num - 1)
  BY <1>2, <1>5 DEF Content, First
<1>10. /\ RingFrom(msgs, begin, num) # <<>>
       /\ SubSeq(RingFrom(msgs, begin, num), 1, Len(RingFrom(msgs, begin, num)) - 1)
              = RingFrom(msgs, begin, num - 1)
  BY <1>8, PopBack
<1> QED
  BY <1>6, <1>9, <1>10

(* Every other statement keeps Carried and does not show.                  *)
LEMMA SilentStep ==
    ASSUME IInv, Carried, NEW t \in Threads, NEW from, NEW to, At(t, from, to),
           from \notin {"sCount", "rUnlock"}, to \notin {"sCount", "rUnlock"},
           UNCHANGED <<begin, num, msgs>>,
           \A u \in Threads \ {t} : buf'[u] = buf[u],
           t \in Senders /\ to \in {"sLock", "sTest"} => buf'[t] \in Msg,
           to = "rAdvance" => buf'[t] = msgs[begin]
    PROVE  Carried' /\ UNCHANGED <<Content, Delivered>>
<1>1. TypeOK
  BY DEF IInv
<1>2. Carried'
  BY <1>1, CarriedKept
<1> QED
  BY <1>1, <1>2, Silent

LEMMA InitCarried == Init => Carried
BY DEF Init, Carried, Threads

(* A step of the calls is a step of the abstract queue, or does not show.  *)
LEMMA NextRefines ==
    ASSUME IInv, Carried, [Next]_vars
    PROVE  Carried' /\ [Queue!AbsNext]_(Queue!absVars)
<1>1. ASSUME Carried', UNCHANGED <<Content, Delivered>>
      PROVE  Carried' /\ [Queue!AbsNext]_(Queue!absVars)
  BY <1>1 DEF Queue!absVars, Content, Delivered, RingFrom
<1>2. TypeOK /\ MutualExclusion
  BY DEF IInv
<1>3. ASSUME NEW s \in Senders, SendCall(s)
      PROVE  Carried' /\ [Queue!AbsNext]_(Queue!absVars)
  <2>1. s \in Threads /\ At(s, "idle", "sLock") /\ UNCHANGED <<begin, num, msgs>>
    BY <1>3 DEF SendCall, Threads
  <2>2. buf'[s] \in Msg /\ \A u \in Threads \ {s} : buf'[u] = buf[u]
    BY <1>3, <1>2, <2>1 DEF SendCall, TypeOK
  <2>3. Carried' /\ UNCHANGED <<Content, Delivered>>
    BY <2>1, <2>2, SilentStep
  <2> QED
    BY <1>1, <2>3
<1>4. ASSUME NEW s \in Senders, SendLock(s)
      PROVE  Carried' /\ [Queue!AbsNext]_(Queue!absVars)
  <2>1. s \in Threads /\ At(s, "sLock", "sTest") /\ UNCHANGED <<begin, num, msgs>>
    BY <1>4 DEF SendLock, Threads
  <2>2. buf' = buf /\ pc[s] = "sLock"
    BY <1>4, <1>2, <2>1, Others DEF SendLock
  <2>3. buf'[s] \in Msg
    BY <2>2 DEF Carried
  <2>4. Carried' /\ UNCHANGED <<Content, Delivered>>
    BY <2>1, <2>2, <2>3, SilentStep
  <2> QED
    BY <1>1, <2>4
<1>5. ASSUME NEW s \in Senders, SendFull(s)
      PROVE  Carried' /\ [Queue!AbsNext]_(Queue!absVars)
  <2>1. s \in Threads /\ At(s, "sTest", "sFull") /\ UNCHANGED <<begin, num, msgs>>
    BY <1>5 DEF SendFull, Threads
  <2>2. buf' = buf
    BY <1>5 DEF SendFull
  <2>3. Carried' /\ UNCHANGED <<Content, Delivered>>
    BY <2>1, <2>2, SilentStep
  <2> QED
    BY <1>1, <2>3
<1>6. ASSUME NEW s \in Senders, SendStore(s)
      PROVE  Carried' /\ [Queue!AbsNext]_(Queue!absVars)
  <2>1. s \in Threads /\ At(s, "sTest", "sCount") /\ buf' = buf
    BY <1>6 DEF SendStore, Threads
  <2>2. UNCHANGED <<Content, Delivered>> /\ buf'[s] = msgs'[Entry']
    BY <1>6, StoreHidden
  <2>3. buf'[s] \in Msg
    BY <1>2, <2>1, Others DEF Carried
  <2>4. Carried'
    BY <1>2, <2>1, <2>2, <2>3, CarriedAlone DEF SectionPc
  <2> QED
    BY <1>1, <2>2, <2>4
<1>7. ASSUME NEW s \in Senders, SendCount(s)
      PROVE  Carried' /\ [Queue!AbsNext]_(Queue!absVars)
  <2>1. s \in Threads /\ At(s, "sCount", "sUnlock") /\ buf' = buf
    BY <1>7 DEF SendCount, Threads
  <2>2. Carried'
    BY <1>2, <2>1, CarriedAlone DEF SectionPc
  <2>3. /\ buf[s] \in Msg
        /\ Len(Content) < noElements
        /\ Content' = IF msgMode = "FIFO" THEN Append(Content, buf[s])
                                          ELSE <<buf[s]>> \o Content
        /\ Delivered' = Delivered
    BY <1>7, CountSends
  <2>4. PICK m \in Msg : m = buf[s]
    BY <2>3
  <2>5. Queue!AbsSend(m)
    BY <2>3, <2>4 DEF Queue!AbsSend, Content, Delivered, RingFrom
  <2>6. Queue!AbsNext
    BY <2>5 DEF Queue!AbsNext
  <2> QED
    BY <2>2, <2>6
<1>8. ASSUME NEW s \in Senders, SendUnlock(s)
      PROVE  Carried' /\ [Queue!AbsNext]_(Queue!absVars)
  <2>1. s \in Threads /\ At(s, "sUnlock", "sPost") /\ UNCHANGED <<begin, num, msgs>>
    BY <1>8 DEF SendUnlock, Threads
  <2>2. buf' = buf
    BY <1>8 DEF SendUnlock
  <2>3. Carried' /\ UNCHANGED <<Content, Delivered>>
    BY <2>1, <2>2, SilentStep
  <2> QED
    BY <1>1, <2>3
<1>9. ASSUME NEW s \in Senders, SendPost(s)
      PROVE  Carried' /\ [Queue!AbsNext]_(Queue!absVars)
  <2>1. s \in Threads /\ At(s, "sPost", "idle") /\ UNCHANGED <<begin, num, msgs>>
    BY <1>9 DEF SendPost, Threads
  <2>2. \A u \in Threads \ {s} : buf'[u] = buf[u]
    BY <1>9, <1>2, <2>1 DEF SendPost, TypeOK
  <2>3. Carried' /\ UNCHANGED <<Content, Delivered>>
    BY <2>1, <2>2, SilentStep
  <2> QED
    BY <1>1, <2>3
<1>10. ASSUME NEW s \in Senders, SendReject(s)
      PROVE  Carried' /\ [Queue!AbsNext]_(Queue!absVars)
  <2>1. s \in Threads /\ At(s, "sFull", "idle") /\ UNCHANGED <<begin, num, msgs>>
    BY <1>10 DEF SendReject, Threads
  <2>2. \A u \in Threads \ {s} : buf'[u] = buf[u]
    BY <1>10, <1>2, <2>1 DEF SendReject, TypeOK
  <2>3. Carried' /\ UNCHANGED <<Content, Delivered>>
    BY <2>1, <2>2, SilentStep
  <2> QED
    BY <1>1, <2>3
<1>11. ASSUME NEW r \in Receivers, RecvCall(r)
      PROVE  Carried' /\ [Queue!AbsNext]_(Queue!absVars)
  <2>1. r \in Threads /\ At(r, "idle", "rWait") /\ UNCHANGED <<begin, num, msgs>>
    BY <1>11 DEF RecvCall, Threads
  <2>2. buf' = buf
    BY <1>11 DEF RecvCall
  <2>3. Carried' /\ UNCHANGED <<Content, Delivered>>
    BY <2>1, <2>2, SilentStep
  <2> QED
    BY <1>1, <2>3
<1>12. ASSUME NEW r \in Receivers, RecvFail(r)
      PROVE  Carried' /\ [Queue!AbsNext]_(Queue!absVars)
  <2>1. r \in Threads /\ At(r, "rWait", "idle") /\ UNCHANGED <<begin, num, msgs>>
    BY <1>12 DEF RecvFail, Threads
  <2>2. buf' = buf
    BY <1>12 DEF RecvFail
  <2>3. Carried' /\ UNCHANGED <<Content, Delivered>>
    BY <2>1, <2>2, SilentStep
  <2> QED
    BY <1>1, <2>3
<1>13. ASSUME NEW r \in Receivers, RecvWait(r)
      PROVE  Carried' /\ [Queue!AbsNext]_(Queue!absVars)
  <2>1. r \in Threads /\ At(r, "rWait", "rLock") /\ UNCHANGED <<begin, num, msgs>>
    BY <1>13 DEF RecvWait, Threads
  <2>2. buf' = buf
    BY <1>13 DEF RecvWait
  <2>3. Carried' /\ UNCHANGED <<Content, Delivered>>
    BY <2>1, <2>2, SilentStep
  <2> QED
    BY <1>1, <2>3
<1>14. ASSUME NEW r \in Receivers, RecvLock(r)
      PROVE  Carried' /\ [Queue!AbsNext]_(Queue!absVars)
  <2>1. r \in Threads /\ At(r, "rLock", "rCopy") /\ UNCHANGED <<begin, num, msgs>>
    BY <1>14 DEF RecvLock, Threads
  <2>2. buf' = buf
    BY <1>14 DEF RecvLock
  <2>3. Carried' /\ UNCHANGED <<Content, Delivered>>
    BY <2>1, <2>2, SilentStep
  <2> QED
    BY <1>1, <2>3
<1>15. ASSUME NEW r \in Receivers, RecvCopy(r)
      PROVE  Carried' /\ [Queue!AbsNext]_(Queue!absVars)
  <2>1. r \in Threads /\ At(r, "rCopy", "rAdvance") /\ UNCHANGED <<begin, num, msgs>>
    BY <1>15 DEF RecvCopy, Threads
  <2>2. buf'[r] = msgs[begin] /\ \A u \in Threads \ {r} : buf'[u] = buf[u]
    BY <1>15, <1>2, <2>1 DEF RecvCopy, TypeOK
  <2>3. Carried' /\ UNCHANGED <<Content, Delivered>>
    BY <2>1, <2>2, SilentStep
  <2> QED
    BY <1>1, <2>3
<1>16. ASSUME NEW r \in Receivers, RecvAdvance(r)
      PROVE  Carried' /\ [Queue!AbsNext]_(Queue!absVars)
  <2>1. r \in Threads /\ At(r, "rAdvance", "rUnlock") /\ buf' = buf
    BY <1>16 DEF RecvAdvance, Threads
  <2>2. Carried'
    BY <1>2, <2>1, CarriedAlone DEF SectionPc
  <2>3. /\ Content # <<>>
        /\ Delivered[r] = NoMsg
        /\ Delivered' = [Delivered EXCEPT ![r] = Head(Content)]
        /\ Content' = Tail(Content)
    BY <1>16, AdvanceReceives
  <2>4. Queue!AbsReceive(r)
    BY <2>3 DEF Queue!AbsReceive, Content, Delivered, RingFrom
  <2> QED
    BY <2>2, <2>4 DEF Queue!AbsNext
<1>17. ASSUME NEW r \in Receivers, RecvUnlock(r)
      PROVE  Carried' /\ [Queue!AbsNext]_(Queue!absVars)
  <2>1. /\ r \in Threads /\ At(r, "rUnlock", "idle") /\ UNCHANGED <<begin, num, msgs>>
        /\ \A u \in Threads \ {r} : buf'[u] = buf[u]
    BY <1>17, <1>2 DEF RecvUnlock, Threads, TypeOK
  <2>2. Carried'
    BY <1>2, <2>1, CarriedKept
  <2>3. Content' = Content /\ Delivered' = [Delivered EXCEPT ![r] = NoMsg]
    BY <1>17, UnlockReturns
  <2>4. CASE Delivered[r] = NoMsg
    <3>1. Delivered' = Delivered
      BY <2>3, <2>4 DEF Delivered
    <3> QED
      BY <1>1, <2>2, <2>3, <3>1
  <2>5. CASE Delivered[r] # NoMsg
    <3>1. Queue!AbsReturn(r)
      BY <2>3, <2>5 DEF Queue!AbsReturn, Content, Delivered, RingFrom
    <3> QED
      BY <2>2, <3>1 DEF Queue!AbsNext
  <2> QED
    BY <2>4, <2>5
<1>18. ASSUME NEW e \in Emptiers, EmptyCall(e)
      PROVE  Carried' /\ [Queue!AbsNext]_(Queue!absVars)
  <2>1. e \in Threads /\ At(e, "idle", "eTry") /\ UNCHANGED <<begin, num, msgs>>
    BY <1>18 DEF EmptyCall, Threads
  <2>2. buf' = buf
    BY <1>18 DEF EmptyCall
  <2>3. Carried' /\ UNCHANGED <<Content, Delivered>>
    BY <2>1, <2>2, SilentStep
  <2> QED
    BY <1>1, <2>3
<1>19. ASSUME NEW e \in Emptiers, EmptyDone(e)
      PROVE  Carried' /\ [Queue!AbsNext]_(Queue!absVars)
  <2>1. e \in Threads /\ At(e, "eTry", "idle") /\ UNCHANGED <<begin, num, msgs>>
    BY <1>19 DEF EmptyDone, Threads
  <2>2. buf' = buf
    BY <1>19 DEF EmptyDone
  <2>3. Carried' /\ UNCHANGED <<Content, Delivered>>
    BY <2>1, <2>2, SilentStep
  <2> QED
    BY <1>1, <2>3
<1>20. ASSUME NEW e \in Emptiers, EmptyTry(e)
      PROVE  Carried' /\ [Queue!AbsNext]_(Queue!absVars)
  <2>1. e \in Threads /\ At(e, "eTry", "eLock") /\ UNCHANGED <<begin, num, msgs>>
    BY <1>20 DEF EmptyTry, Threads
  <2>2. buf' = buf
    BY <1>20 DEF EmptyTry
  <2>3. Carried' /\ UNCHANGED <<Content, Delivered>>
    BY <2>1, <2>2, SilentStep
  <2> QED
    BY <1>1, <2>3
<1>21. ASSUME NEW e \in Emptiers, EmptyLock(e)
      PROVE  Carried' /\ [Queue!AbsNext]_(Queue!absVars)
  <2>1. e \in Threads /\ At(e, "eLock", "eCount") /\ UNCHANGED <<begin, num, msgs>>
    BY <1>21 DEF EmptyLock, Threads
  <2>2. buf' = buf
    BY <1>21 DEF EmptyLock
  <2>3. Carried' /\ UNCHANGED <<Content, Delivered>>
    BY <2>1, <2>2, SilentStep
  <2> QED
    BY <1>1, <2>3
<1>22. ASSUME NEW e \in Emptiers, EmptyCount(e)
      PROVE  Carried' /\ [Queue!AbsNext]_(Queue!absVars)
  <2>1. e \in Threads /\ At(e, "eCount", "eUnlock") /\ buf' = buf
    BY <1>22 DEF EmptyCount, Threads
  <2>2. Carried'
    BY <1>2, <2>1, CarriedAlone DEF SectionPc
  <2>3. /\ Content # <<>>
        /\ Content' = SubSeq(Content, 1, Len(Content) - 1)
        /\ Delivered' = Delivered
    BY <1>22, EmptyDiscards
  <2>4. Queue!AbsDiscard
    BY <2>3 DEF Queue!AbsDiscard, Content, Delivered, RingFrom
  <2> QED
    BY <2>2, <2>4 DEF Queue!AbsNext
<1>23. ASSUME NEW e \in Emptiers, EmptyUnlock(e)
      PROVE  Carried' /\ [Queue!AbsNext]_(Queue!absVars)
  <2>1. e \in Threads /\ At(e, "eUnlock", "eTry") /\ UNCHANGED <<begin, num, msgs>>
    BY <1>23 DEF EmptyUnlock, Threads
  <2>2. buf' = buf
    BY <1>23 DEF EmptyUnlock
  <2>3. Carried' /\ UNCHANGED <<Content, Delivered>>
    BY <2>1, <2>2, SilentStep
  <2> QED
    BY <1>1, <2>3
<1>24. CASE UNCHANGED vars
  <2>1. Carried'
    BY <1>24 DEF vars, Carried, Entry
  <2>2. UNCHANGED <<Content, Delivered>>
    BY <1>24 DEF vars, Content, Delivered, First, Storing, RingFrom
  <2> QED
    BY <1>1, <2>1, <2>2
<1> QED
  BY <1>3, <1>4, <1>5, <1>6, <1>7, <1>8, <1>9, <1>10, <1>11, <1>12,
     <1>13, <1>14, <1>15, <1>16, <1>17, <1>18, <1>19, <1>20, <1>21, <1>22,
     <1>23, <1>24
  DEF Next, Send, Receive, Empty

(* The ring, its counter, its mutex and its semaphore implement a bounded  *)
(* queue (ennOS.c:876-1074): whatever threads are in the three calls at    *)
(* once, what they see is a sequence of messages to which a send adds one, *)
(* from which a receive takes the front one and EmptyMessage the back one. *)
THEOREM Implements == Spec => ImplementsQueue
<1>1. Init => Queue!AbsInit
  <2> SUFFICES ASSUME Init PROVE Queue!AbsInit
    OBVIOUS
  <2>1. Content = <<>> /\ Delivered = [r \in Receivers |-> NoMsg]
    BY DEF Content, Delivered, RingFrom, Init, Threads
  <2> QED
    BY <2>1 DEF Queue!AbsInit, Content, Delivered, RingFrom
<1>2. IInv /\ Carried /\ [Next]_vars => Carried' /\ [Queue!AbsNext]_(Queue!absVars)
  BY NextRefines
<1>3. Spec => []Carried
  BY <1>2, InitCarried, Consistent, PTL DEF Spec
<1> QED
  BY <1>1, <1>2, <1>3, Consistent, PTL DEF Spec, ImplementsQueue, Queue!AbsSpec

-----------------------------------------------------------------------------
(* The configuration pipe.                                                 *)

(* A nonempty set of numbers has a least one.                              *)
LEMMA LeastNumber ==
  ASSUME NEW S, S \subseteq Nat, S # {}
  PROVE  \E k \in S : \A j \in S : k <= j
<1> DEFINE R == OpToRel(<, Nat)
<1>1. IsWellFoundedOn(R, Nat)
  BY NatLessThanWellFounded
<1>2. \A x, y \in Nat : <<x, y>> \in R <=> x < y
  BY DEF OpToRel
<1> HIDE DEF R
<1>3. PICK k \in S : \A j \in S : <<j, k>> \notin R
  BY <1>1, WFMin, Zenon
<1>4. ASSUME NEW j \in S
      PROVE  k <= j
  <2>1. ~(j < k)
    BY <1>2, <1>3
  <2> QED
    BY <2>1
<1> QED
  BY <1>4

LEMMA RegisterTypes ==
    ASSUME NEW regs \in Seq(Registers)
    PROVE  /\ Len(regs) \in Nat
           /\ \A k \in 1 .. Len(regs) : regs[k] \in Registers /\ regs[k] \in Nat
<1>1. Len(regs) \in Nat
  BY LenProperties
<1>2. \A k \in 1 .. Len(regs) : regs[k] \in Registers
  BY ElementOfSeq
<1> QED
  BY <1>1, <1>2, PipeAssumption

(* The searches end at a place of the list, the first that matches.        *)
LEMMA DeviceFound ==
    ASSUME NEW S, NEW list \in Seq(S), NEW a, Find(list, Addr, a) # 0
    PROVE  Find(list, Addr, a) \in 1 .. Len(list)
<1> DEFINE at == {i \in DOMAIN list : Addr(list[i]) = a}
<1>1. at \subseteq 1 .. Len(list) /\ at \subseteq Nat /\ Len(list) \in Nat
  BY ElementOfSeq
<1>2. at # {} /\ Find(list, Addr, a) = CHOOSE i \in at : \A j \in at : i <= j
  BY DEF Find
<1>3. \E i \in at : \A j \in at : i <= j
  <2> HIDE DEF at
  <2> QED
    BY <1>1, <1>2, LeastNumber
<1> HIDE DEF at
<1> QED
  BY <1>1, <1>2, <1>3

LEMMA FunctionFound ==
    ASSUME NEW S, NEW list \in Seq(S), NEW f, Find(list, Code, f) # 0
    PROVE  Find(list, Code, f) \in 1 .. Len(list)
<1> DEFINE at == {i \in DOMAIN list : Code(list[i]) = f}
<1>1. at \subseteq 1 .. Len(list) /\ at \subseteq Nat /\ Len(list) \in Nat
  BY ElementOfSeq
<1>2. at # {} /\ Find(list, Code, f) = CHOOSE i \in at : \A j \in at : i <= j
  BY DEF Find
<1>3. \E i \in at : \A j \in at : i <= j
  <2> HIDE DEF at
  <2> QED
    BY <1>1, <1>2, LeastNumber
<1> HIDE DEF at
<1> QED
  BY <1>1, <1>2, <1>3

LEMMA RegisterFound ==
    ASSUME NEW regs \in Seq(Registers), NEW r, Contains(regs, r)
    PROVE  /\ Find(regs, LAMBDA x : x, r) \in 1 .. Len(regs)
           /\ regs[Find(regs, LAMBDA x : x, r)] = r
<1> DEFINE at == {i \in DOMAIN regs : regs[i] = r}
<1>1. at \subseteq 1 .. Len(regs) /\ at \subseteq Nat /\ Len(regs) \in Nat /\ at # {}
  BY ElementOfSeq DEF Contains
<1>2. Find(regs, LAMBDA x : x, r) = CHOOSE i \in at : \A j \in at : i <= j
  BY <1>1 DEF Find
<1>3. \E i \in at : \A j \in at : i <= j
  <2> HIDE DEF at
  <2> QED
    BY <1>1, LeastNumber
<1>4. Find(regs, LAMBDA x : x, r) \in at
  <2> HIDE DEF at
  <2> QED
    BY <1>2, <1>3
<1> QED
  BY <1>1, <1>4

LEMMA PlaceFound ==
    ASSUME NEW regs \in Seq(Registers), regs # <<>>, NEW n \in Nat
    PROVE  /\ Place(regs, n) \in 1 .. Len(regs)
           /\ regs[Place(regs, n)] >= n \/ Place(regs, n) = Len(regs)
           /\ \A k \in 1 .. Len(regs) : k < Place(regs, n) => regs[k] < n
<1> DEFINE at == {i \in DOMAIN regs : regs[i] >= n \/ i = Len(regs)}
<1>1. /\ at \subseteq 1 .. Len(regs) /\ at \subseteq Nat
      /\ Len(regs) \in Nat /\ DOMAIN regs = 1 .. Len(regs)
  BY ElementOfSeq
<1>2. Len(regs) \in at
  BY EmptySeq, <1>1
<1>3. \E i \in at : \A j \in at : i <= j
  <2> HIDE DEF at
  <2> QED
    BY <1>1, <1>2, LeastNumber
<1>4. Place(regs, n) \in at /\ \A j \in at : Place(regs, n) <= j
  <2>1. Place(regs, n) = CHOOSE i \in at : \A j \in at : i <= j
    BY DEF Place
  <2> HIDE DEF at
  <2> QED
    BY <1>3, <2>1
<1>5. ASSUME NEW k \in 1 .. Len(regs), k < Place(regs, n)
      PROVE  regs[k] < n
  <2>1. k \notin at
    <3> HIDE DEF at
    <3>0. Place(regs, n) \in 1 .. Len(regs)
      BY <1>1, <1>4
    <3>1. k \in Int /\ Place(regs, n) \in Int
      BY <1>1, <3>0
    <3>2. ~(Place(regs, n) <= k)
      BY <3>1, <1>5
    <3> QED
      BY <3>2, <1>4
  <2>2. regs[k] \in Nat
    BY PipeAssumption, ElementOfSeq
  <2>3. ~(regs[k] >= n)
    BY <1>1, <2>1
  <2> QED
    BY <2>2, <2>3
<1> QED
  BY <1>1, <1>4, <1>5

(* Taking an element out of a list and putting one into it.                *)
LEMMA Removed ==
    ASSUME NEW S, NEW list \in Seq(S), NEW i \in 1 .. Len(list)
    PROVE  /\ RemoveAt(list, i) \in Seq(S)
           /\ Len(RemoveAt(list, i)) = Len(list) - 1
           /\ \A k \in 1 .. Len(list) - 1 :
                RemoveAt(list, i)[k] = IF k < i THEN list[k] ELSE list[k + 1]
<1> DEFINE one == SubSeq(list, 1, i - 1)
           two == SubSeq(list, i + 1, Len(list))
<1>1. Len(list) \in Nat
  BY ElementOfSeq
<1>2. /\ one \in Seq(S) /\ Len(one) = i - 1
      /\ \A k \in 1 .. i - 1 : one[k] = list[k]
  BY <1>1, SubSeqProperties
<1>3. /\ two \in Seq(S) /\ Len(two) = Len(list) - i
      /\ \A k \in 1 .. Len(list) - i : two[k] = list[i + k]
  BY <1>1, SubSeqProperties
<1>4. RemoveAt(list, i) = one \o two
  BY DEF RemoveAt
<1> HIDE DEF one, two
<1>5. /\ one \o two \in Seq(S) /\ Len(one \o two) = Len(one) + Len(two)
      /\ \A k \in 1 .. Len(one) + Len(two) :
           (one \o two)[k] = IF k <= Len(one) THEN one[k] ELSE two[k - Len(one)]
  BY <1>2, <1>3, ConcatProperties
<1> QED
  BY <1>1, <1>2, <1>3, <1>4, <1>5

LEMMA InsertedAt ==
    ASSUME NEW S, NEW list \in Seq(S), NEW i \in 1 .. Len(list) + 1, NEW e \in S
    PROVE  /\ InsertAt(list, i, e) \in Seq(S)
           /\ Len(InsertAt(list, i, e)) = Len(list) + 1
           /\ \A k \in 1 .. Len(list) + 1 :
                InsertAt(list, i, e)[k] = IF k < i THEN list[k]
                                          ELSE IF k = i THEN e ELSE list[k - 1]
<1> DEFINE one == SubSeq(list, 1, i - 1)
           two == SubSeq(list, i, Len(list))
           front == one \o <<e>>
<1>1. Len(list) \in Nat
  BY ElementOfSeq
<1>2. /\ one \in Seq(S) /\ Len(one) = i - 1
      /\ \A k \in 1 .. i - 1 : one[k] = list[k]
  BY <1>1, SubSeqProperties
<1>3. /\ two \in Seq(S) /\ Len(two) = Len(list) - i + 1
      /\ \A k \in 1 .. Len(list) - i + 1 : two[k] = list[i + k - 1]
  BY <1>1, SubSeqProperties
<1>4. InsertAt(list, i, e) = front \o two
  BY DEF InsertAt
<1> HIDE DEF one, two
<1>5. /\ front \in Seq(S) /\ Len(front) = i
      /\ \A k \in 1 .. i : front[k] = IF k < i THEN one[k] ELSE e
  BY <1>2, ConcatProperties
<1> HIDE DEF front
<1>6. /\ front \o two \in Seq(S)
      /\ Len(front \o two) = i + Len(two)
      /\ \A k \in 1 .. i + Len(two) :
           (front \o two)[k] = IF k <= i THEN front[k] ELSE two[k - i]
  BY <1>1, <1>3, <1>5, ConcatProperties
<1>7. Len(front \o two) = Len(list) + 1
  BY <1>1, <1>3, <1>6
<1>8. ASSUME NEW k \in 1 .. Len(list) + 1
      PROVE  (front \o two)[k] = IF k < i THEN list[k]
                                           ELSE IF k = i THEN e ELSE list[k - 1]
  <2>1. k \in Int /\ i \in Int /\ k \in 1 .. i + Len(two)
    BY <1>1, <1>3
  <2>2. CASE k <= i
    BY <1>2, <1>5, <1>6, <2>1, <2>2
  <2>3. CASE k > i
    <3>1. (front \o two)[k] = two[k - i]
      BY <1>6, <2>1, <2>3
    <3>2. k - i \in 1 .. Len(list) - i + 1
      BY <1>1, <2>1, <2>3
    <3>3. two[k - i] = list[k - 1]
      BY <1>1, <1>3, <2>1, <3>2
    <3> QED
      BY <2>1, <2>3, <3>1, <3>3
  <2>4. k <= i \/ k > i
    BY <2>1
  <2> QED
    BY <2>2, <2>3, <2>4
<1> QED
  BY <1>4, <1>6, <1>7, <1>8

LEMMA Appended ==
    ASSUME NEW S, NEW list \in Seq(S), NEW e \in S
    PROVE  /\ Append(list, e) \in Seq(S)
           /\ Len(Append(list, e)) = Len(list) + 1
           /\ \A k \in 1 .. Len(list) + 1 :
                IF k = Len(list) + 1 THEN Append(list, e)[k] = e
                ELSE k \in 1 .. Len(list) /\ Append(list, e)[k] = list[k]
<1>1. Len(list) \in Nat
  BY LenProperties
<1>2. \A k \in 1 .. Len(list) + 1 : k = Len(list) + 1 \/ k \in 1 .. Len(list)
  BY <1>1
<1>3. Len(list) + 1 \notin 1 .. Len(list)
  BY <1>1
<1>4. /\ Append(list, e) \in Seq(S)
      /\ Len(Append(list, e)) = Len(list) + 1
      /\ Append(list, e)[Len(list) + 1] = e
      /\ \A k \in 1 .. Len(list) : Append(list, e)[k] = list[k]
  BY <1>1, AppendProperties
<1> QED
  BY <1>2, <1>3, <1>4

LEMMA WithoutSorted ==
    ASSUME NEW regs \in Seq(Registers), NEW r, Contains(regs, r), Sorted(regs)
    PROVE  Without(regs, r) \in Seq(Registers) /\ Sorted(Without(regs, r))
<1> DEFINE i == Find(regs, LAMBDA x : x, r)
<1>1. i \in 1 .. Len(regs)
  BY RegisterFound
<1>2. Without(regs, r) = RemoveAt(regs, i)
  BY DEF Without
<1> HIDE DEF i
<1>3. \A k \in 1 .. Len(regs) : regs[k] \in Nat
  BY PipeAssumption, ElementOfSeq
<1>4. /\ RemoveAt(regs, i) \in Seq(Registers)
      /\ Len(RemoveAt(regs, i)) = Len(regs) - 1
      /\ \A k \in 1 .. Len(regs) - 1 :
           RemoveAt(regs, i)[k] = IF k < i THEN regs[k] ELSE regs[k + 1]
  BY <1>1, Removed
<1>5. Len(regs) \in Nat
  BY ElementOfSeq
<1>6. ASSUME NEW k \in 1 .. Len(regs) - 1, NEW l \in 1 .. Len(regs) - 1, k < l
      PROVE  RemoveAt(regs, i)[k] < RemoveAt(regs, i)[l]
  <2> DEFINE at(m) == IF m < i THEN m ELSE m + 1
  <2>1. /\ at(k) \in 1 .. Len(regs) /\ at(l) \in 1 .. Len(regs) /\ at(k) < at(l)
    BY <1>1, <1>5, <1>6
  <2>2. /\ RemoveAt(regs, i)[k] = regs[at(k)]
        /\ RemoveAt(regs, i)[l] = regs[at(l)]
    BY <1>4
  <2> HIDE DEF at
  <2>3. regs[at(k)] < regs[at(l)]
    BY <2>1 DEF Sorted
  <2> QED
    BY <2>2, <2>3
<1>7. Sorted(RemoveAt(regs, i))
  BY <1>4, <1>6 DEF Sorted
<1> QED
  BY <1>2, <1>4, <1>7

LEMMA InsertedSorted ==
    ASSUME NEW regs \in Seq(Registers), NEW n \in Registers, Sorted(regs)
    PROVE  Inserted(regs, n) \in Seq(Registers) /\ Sorted(Inserted(regs, n))
<1>1. CASE regs = <<>>
  BY <1>1 DEF Inserted, Sorted
<1>2. CASE regs # <<>>
  <2> DEFINE j == Place(regs, n)
             i == IF regs[j] < n THEN j + 1 ELSE j
  <2>1. /\ j \in 1 .. Len(regs)
        /\ regs[j] >= n \/ j = Len(regs)
        /\ \A k \in 1 .. Len(regs) : k < j => regs[k] < n
    BY <1>2, PlaceFound, PipeAssumption
  <2>2. CASE regs[j] = n
    BY <1>2, <2>2 DEF Inserted
  <2>3. CASE regs[j] # n
    <3>1. Inserted(regs, n) = InsertAt(regs, i, n)
      BY <1>2, <2>3 DEF Inserted
    <3> HIDE DEF j
    <3>2. /\ Len(regs) \in Nat /\ n \in Nat
          /\ \A k \in 1 .. Len(regs) : regs[k] \in Nat
      BY PipeAssumption, RegisterTypes
    <3>3. /\ i \in 1 .. Len(regs) + 1
          /\ \A k \in 1 .. Len(regs) : IF k < i THEN regs[k] < n ELSE n < regs[k]
      BY <2>1, <2>3, <3>2 DEF Sorted
    <3> HIDE DEF i
    <3>4. /\ InsertAt(regs, i, n) \in Seq(Registers)
          /\ Len(InsertAt(regs, i, n)) = Len(regs) + 1
          /\ \A k \in 1 .. Len(regs) + 1 :
               InsertAt(regs, i, n)[k] = IF k < i THEN regs[k]
                                         ELSE IF k = i THEN n ELSE regs[k - 1]
      BY <3>3, InsertedAt
    <3> DEFINE new == InsertAt(regs, i, n)
    <3>5. ASSUME NEW k \in 1 .. Len(regs) + 1, NEW l \in 1 .. Len(regs) + 1, k < l
          PROVE  new[k] < new[l]
      <4>1. k \in Int /\ l \in Int /\ i \in Int
        BY <3>2, <3>3
      <4>2. CASE l < i
        BY <3>2, <3>3, <3>4, <3>5, <4>1, <4>2 DEF Sorted
      <4>3. CASE l = i
        BY <3>2, <3>3, <3>4, <3>5, <4>1, <4>3
      <4>4. CASE l > i /\ k = i
        <5>1. new[k] = n /\ new[l] = regs[l - 1] /\ l - 1 \in 1 .. Len(regs) /\ ~(l - 1 < i)
          BY <3>2, <3>3, <3>4, <4>1, <4>4
        <5> QED
          BY <3>3, <5>1
      <4>5. CASE l > i /\ k < i
        <5>1. new[k] = regs[k] /\ new[l] = regs[l - 1]
          BY <3>4, <4>1, <4>5
        <5>2. k \in 1 .. Len(regs) /\ l - 1 \in 1 .. Len(regs) /\ k < l - 1
          BY <3>2, <3>3, <4>1, <4>5
        <5> QED
          BY <5>1, <5>2 DEF Sorted
      <4>6. CASE k > i
        <5>1. new[k] = regs[k - 1] /\ new[l] = regs[l - 1]
          BY <3>4, <3>5, <4>1, <4>6
        <5>2. k - 1 \in 1 .. Len(regs) /\ l - 1 \in 1 .. Len(regs) /\ k - 1 < l - 1
          BY <3>2, <3>3, <3>5, <4>1, <4>6
        <5> QED
          BY <5>1, <5>2 DEF Sorted
      <4> QED
        BY <3>5, <4>1, <4>2, <4>3, <4>4, <4>5, <4>6
    <3>6. Sorted(new)
      BY <3>4, <3>5 DEF Sorted
    <3> QED
      BY <3>1, <3>4, <3>6
  <2> QED
    BY <2>2, <2>3
<1> QED
  BY <1>1, <1>2

(* A change that keeps the list one keeps it in order: the stale element   *)
(* behind which the new register goes is not after its place.              *)
LEMMA RelinkedSorted ==
    ASSUME NEW regs \in Seq(Registers), NEW old \in Registers, NEW new \in Registers,
           Contains(regs, old), Sorted(regs),
           ~Ring(regs, old, new)
    PROVE  Relinked(regs, old, new) \in Seq(Registers) /\ Sorted(Relinked(regs, old, new))
<1> DEFINE i == Find(regs, LAMBDA x : x, old)
           rest == RemoveAt(regs, i)
           j == Place(rest, new)
           one == SubSeq(rest, 1, i - 1)
           two == SubSeq(rest, j, Len(rest))
           front == one \o <<new>>
           all == front \o two
<1>1. rest \in Seq(Registers) /\ Sorted(rest) /\ i \in 1 .. Len(regs)
  BY WithoutSorted, RegisterFound DEF Without
<1>2. CASE rest = <<>> \/ j = 1 \/ rest[j] <= new
  <2>1. Relinked(regs, old, new) = Inserted(rest, new)
    BY <1>2 DEF Relinked
  <2> HIDE DEF rest
  <2> QED
    BY <1>1, <2>1, InsertedSorted
<1>3. CASE ~(rest = <<>> \/ j = 1 \/ rest[j] <= new)
  <2>1. Relinked(regs, old, new) = all
    BY <1>3 DEF Relinked
  <2>2. i <= j
    <3>1. rest # <<>> /\ j # 1 /\ ~(rest[j] <= new)
      BY <1>3
    <3>2. /\ j \in 1 .. Len(rest) /\ rest[j] \in Nat /\ new \in Nat
          /\ Len(regs) \in Nat /\ Len(rest) \in Nat
      <4> HIDE DEF rest
      <4> QED
        BY <1>1, <3>1, PlaceFound, RegisterTypes, PipeAssumption
    <3>3. rest[j] > new
      BY <3>1, <3>2
    <3>4. ~(i > j)
      BY <3>1, <3>3 DEF Ring, Without
    <3> QED
      BY <1>1, <3>2, <3>4
  <2>3. ~(rest[j] <= new) /\ rest # <<>>
    BY <1>3
  <2> HIDE DEF rest, i
  <2>4. /\ Len(rest) \in Nat /\ Len(regs) \in Nat /\ new \in Nat
        /\ j \in 1 .. Len(rest)
        /\ \A k \in 1 .. Len(rest) : rest[k] \in Registers /\ rest[k] \in Nat
    BY <1>1, <2>3, PlaceFound, RegisterTypes, PipeAssumption
  <2>5. \A k \in 1 .. Len(rest) : k < j => rest[k] < new
    BY <1>1, <2>3, <2>4, PlaceFound
  <2> HIDE DEF j
  <2>6. i \in Int /\ j \in Int /\ 1 <= i /\ i <= j /\ j <= Len(rest)
    BY <1>1, <2>2, <2>4
  <2>7. \A k \in 1 .. Len(rest) : j <= k => new < rest[k]
    <3> SUFFICES ASSUME NEW k \in 1 .. Len(rest), j <= k
                 PROVE  new < rest[k]
      OBVIOUS
    <3>1. j = k \/ rest[j] < rest[k]
      BY <1>1, <2>4, <2>6 DEF Sorted
    <3> QED
      BY <2>3, <2>4, <3>1
  <2>8. /\ one \in Seq(Registers) /\ Len(one) = i - 1
        /\ \A k \in 1 .. i - 1 : one[k] = rest[k]
    BY <2>4, <2>6, SubSeqProperties
  <2>9. /\ two \in Seq(Registers) /\ Len(two) = Len(rest) - j + 1
        /\ \A k \in 1 .. Len(rest) - j + 1 : two[k] = rest[j + k - 1]
    BY <2>4, <2>6, SubSeqProperties
  <2> HIDE DEF one, two
  <2>10. /\ front \in Seq(Registers) /\ Len(front) = i
         /\ \A k \in 1 .. i : front[k] = IF k < i THEN one[k] ELSE new
    BY <2>6, <2>8, ConcatProperties
  <2> HIDE DEF front
  <2>11. /\ all \in Seq(Registers)
         /\ Len(all) = i + Len(two)
         /\ \A k \in 1 .. i + Len(two) :
              all[k] = IF k <= i THEN front[k] ELSE two[k - i]
    BY ZenonT(60), <2>6, <2>9, <2>10, ConcatProperties
  <2> HIDE DEF all
  <2>12. ASSUME NEW k \in 1 .. i + Len(two), NEW l \in 1 .. i + Len(two), k < l
         PROVE  all[k] < all[l]
    <3>1. k \in Int /\ l \in Int /\ Len(two) \in Int
      BY <2>4, <2>6, <2>9
    <3>2. CASE l < i
      <4>1. all[k] = rest[k] /\ all[l] = rest[l]
        BY SMTT(30), <2>6, <2>8, <2>10, <2>11, <2>12, <3>1, <3>2
      <4> QED
        BY <1>1, <2>4, <2>6, <2>12, <3>1, <3>2, <4>1 DEF Sorted
    <3>3. CASE l = i
      <4>1. all[l] = new
        BY <2>6, <2>10, <2>11, <3>1, <3>3
      <4>2. all[k] = rest[k]
        <5>1. all[k] = one[k]
          BY <2>6, <2>10, <2>11, <2>12, <3>1, <3>3
        <5> QED
          BY <2>6, <2>8, <2>12, <3>1, <3>3, <5>1
      <4> QED
        BY <2>4, <2>5, <2>6, <2>12, <3>1, <3>3, <4>1, <4>2
    <3>4. CASE l > i
      <4>1. /\ l - i \in 1 .. Len(rest) - j + 1
            /\ j + (l - i) - 1 \in 1 .. Len(rest) /\ j <= j + (l - i) - 1
        BY <2>4, <2>6, <2>9, <3>1, <3>4
      <4>2. all[l] = rest[j + (l - i) - 1]
        <5>1. all[l] = two[l - i]
          BY <2>6, <2>11, <3>1, <3>4
        <5> QED
          BY <2>9, <4>1, <5>1
      <4>3. CASE k < i
        <5>1. all[k] = rest[k]
          BY SMTT(30), <2>6, <2>8, <2>10, <2>11, <3>1, <4>3
        <5>2. k \in 1 .. Len(rest) /\ k < j + (l - i) - 1
          BY <2>4, <2>6, <3>1, <3>4, <4>3
        <5> QED
          BY <1>1, <4>1, <4>2, <5>1, <5>2 DEF Sorted
      <4>4. CASE k = i
        <5>1. all[k] = new
          BY <2>6, <2>10, <2>11, <3>1, <4>4
        <5> QED
          BY <2>7, <4>1, <4>2, <5>1
      <4>5. CASE k > i
        <5>1. /\ k - i \in 1 .. Len(rest) - j + 1
              /\ j + (k - i) - 1 \in 1 .. Len(rest)
              /\ j + (k - i) - 1 < j + (l - i) - 1
          BY <2>4, <2>6, <2>9, <2>12, <3>1, <4>5
        <5>2. all[k] = rest[j + (k - i) - 1]
          <6>1. all[k] = two[k - i]
            BY <2>6, <2>11, <3>1, <4>5
          <6> QED
            BY <2>9, <5>1, <6>1
        <5> QED
          BY <1>1, <4>1, <4>2, <5>1, <5>2 DEF Sorted
      <4>6. k < i \/ k = i \/ k > i
        BY <2>6, <3>1
      <4> QED
        BY <4>3, <4>4, <4>5, <4>6
    <3>5. l < i \/ l = i \/ l > i
      BY <2>6, <3>1
    <3> QED
      BY <3>2, <3>3, <3>4, <3>5
  <2>13. Sorted(all)
    BY <2>11, <2>12 DEF Sorted
  <2> QED
    BY <2>1, <2>11, <2>13
<1> QED
  BY <1>2, <1>3

LEMMA TotalInRange ==
    ASSUME NEW t \in 0 .. NumLimit - 1, NEW rest, NEW n
    PROVE  Less(t) \in 0 .. NumLimit - 1 /\ More(t, rest, n) \in 0 .. NumLimit - 1
<1>1. NumLimit \in Nat /\ NumLimit > 0 /\ t + NumLimit - 1 \in Nat /\ t + 1 \in Nat
  BY PipeAssumption
<1>2. \A x \in Nat : x % NumLimit \in 0 .. NumLimit - 1
  BY <1>1
<1> QED
  BY <1>1, <1>2 DEF Less, More

-----------------------------------------------------------------------------
(* The invariant, device by device and channel by channel.                 *)

GoodDevice(d) ==
    d \in Device /\ \A j \in 1 .. Len(d.funs) : Sorted(d.funs[j].regs)

GoodChannel(ch) ==
    /\ ch \in Channel
    /\ ch.num = Len(ch.devices)
    /\ \A i \in 1 .. Len(ch.devices) : GoodDevice(ch.devices[i])

GoodLists(ls) ==
    ls \in [Channels -> Channel] /\ \A c \in Channels : GoodChannel(ls[c])

(* What the list keeps, whatever is done: its types, its counters and the  *)
(* order of its registers.                                                 *)
ListInv == PipeTypeOK /\ CountMatchesList /\ RegistersSorted

LEMMA ListInvLists ==
    ListInv <=> /\ GoodLists(lists) /\ configured \in BOOLEAN /\ saved \in BOOLEAN
                /\ task \in {"up", "hung", "down", "undefined"}
<1>1. ASSUME ListInv, NEW c \in Channels
      PROVE  GoodChannel(lists[c])
  <2>1. lists[c] \in Channel
    BY <1>1 DEF ListInv, PipeTypeOK
  <2>2. \A i \in 1 .. Len(lists[c].devices) : lists[c].devices[i] \in Device
    BY <2>1, ElementOfSeq DEF Channel
  <2> QED
    BY <1>1, <2>1, <2>2 DEF ListInv, CountMatchesList, RegistersSorted, GoodChannel, GoodDevice
<1>2. ASSUME GoodLists(lists)
      PROVE  CountMatchesList /\ RegistersSorted /\ lists \in [Channels -> Channel]
  BY <1>2 DEF GoodLists, GoodChannel, GoodDevice, CountMatchesList, RegistersSorted
<1> QED
  BY <1>1, <1>2 DEF ListInv, PipeTypeOK, GoodLists

LEMMA BlankGood == GoodLists(Blank)
<1>1. \A c \in Channels : Blank[c] = [protocol |-> "MODBUS", num |-> 0, devices |-> <<>>]
  BY DEF Blank
<1>2. <<>> \in Seq(Device) /\ Len(<<>>) = 0
  BY EmptySeq
<1>3. [protocol |-> "MODBUS", num |-> 0, devices |-> <<>>] \in Channel
  BY <1>2 DEF Channel, Protocols, Kinds
<1> QED
  BY <1>1, <1>2, <1>3 DEF GoodLists, GoodChannel, Blank

LEMMA OneChannel ==
    ASSUME ListInv, NEW c \in Channels, NEW ch, GoodChannel(ch)
    PROVE  GoodLists([lists EXCEPT ![c] = ch])
<1>1. GoodLists(lists)
  BY ListInvLists
<1> QED
  BY <1>1 DEF GoodLists, GoodChannel

LEMMA OneDevice ==
    ASSUME NEW ch, GoodChannel(ch), NEW k \in 1 .. Len(ch.devices), NEW d, GoodDevice(d)
    PROVE  GoodChannel([ch EXCEPT !.devices = [ch.devices EXCEPT ![k] = d]])
<1> DEFINE new == [ch.devices EXCEPT ![k] = d]
<1>1. ch \in Channel /\ ch.devices \in Seq(Device) /\ d \in Device
  BY DEF GoodChannel, GoodDevice, Channel
<1>2. /\ new \in Seq(Device) /\ Len(new) = Len(ch.devices)
      /\ \A i \in 1 .. Len(ch.devices) : new[i] = IF i = k THEN d ELSE ch.devices[i]
  BY <1>1, ExceptSeq
<1> HIDE DEF new
<1>3. [ch EXCEPT !.devices = new] \in Channel
  BY <1>1, <1>2 DEF Channel
<1>4. /\ [ch EXCEPT !.devices = new].devices = new
      /\ [ch EXCEPT !.devices = new].num = ch.num
  BY <1>1 DEF Channel
<1>5. \A i \in 1 .. Len(new) : GoodDevice(new[i])
  BY <1>2 DEF GoodChannel
<1> QED
  BY <1>2, <1>3, <1>4, <1>5 DEF GoodChannel, new

LEMMA OneFunction ==
    ASSUME NEW d, GoodDevice(d), NEW k \in 1 .. Len(d.funs),
           NEW f \in Function, Sorted(f.regs)
    PROVE  GoodDevice([d EXCEPT !.funs = [d.funs EXCEPT ![k] = f]])
<1> DEFINE new == [d.funs EXCEPT ![k] = f]
<1>1. d \in Device /\ d.funs \in Seq(Function)
  BY DEF GoodDevice, Device
<1>2. /\ new \in Seq(Function) /\ Len(new) = Len(d.funs)
      /\ \A i \in 1 .. Len(d.funs) : new[i] = IF i = k THEN f ELSE d.funs[i]
  BY <1>1, ExceptSeq
<1> HIDE DEF new
<1>3. [d EXCEPT !.funs = new] \in Device /\ [d EXCEPT !.funs = new].funs = new
  BY <1>1, <1>2 DEF Device
<1>4. \A i \in 1 .. Len(new) : Sorted(new[i].regs)
  BY <1>2 DEF GoodDevice
<1> QED
  BY <1>3, <1>4 DEF GoodDevice, new

LEMMA GoodAfter ==
    ASSUME GoodLists(lists'), configured' \in BOOLEAN, saved' \in BOOLEAN,
           task' \in {"up", "hung", "down", "undefined"}
    PROVE  ListInv'
<1>1. CountMatchesList' /\ RegistersSorted' /\ lists' \in [Channels -> Channel]
  BY DEF GoodLists, GoodChannel, GoodDevice, CountMatchesList, RegistersSorted
<1> QED
  BY <1>1 DEF ListInv, PipeTypeOK

(* An edit that leaves a good list leaves the invariant, whatever the walk *)
(* at its end makes of it.                                                 *)
LEMMA EditKeeps ==
    ASSUME ListInv, NEW ls, GoodLists(ls), Edit(ls)
    PROVE  ListInv'
<1>1. GoodLists(lists')
  BY BlankGood DEF Edit
<1>2. /\ configured' \in BOOLEAN /\ saved' \in BOOLEAN
      /\ task' \in {"up", "hung", "down", "undefined"}
  BY ListInvLists DEF Edit
<1> QED
  BY <1>1, <1>2, GoodAfter

-----------------------------------------------------------------------------
(* The commands.                                                           *)

LEMMA ChannelFacts ==
    ASSUME ListInv, NEW c \in Channels
    PROVE  /\ GoodChannel(lists[c]) /\ lists[c] \in Channel
           /\ lists[c].devices \in Seq(Device) /\ Len(lists[c].devices) \in Nat
           /\ lists \in [Channels -> Channel]
<1>1. GoodChannel(lists[c]) /\ lists \in [Channels -> Channel]
  BY ListInvLists DEF GoodLists
<1> QED
  BY <1>1, LenProperties DEF GoodChannel, Channel

LEMMA DeviceFacts ==
    ASSUME ListInv, NEW c \in Channels, NEW a, DeviceAt(c, a) # 0
    PROVE  /\ DeviceAt(c, a) \in 1 .. Len(lists[c].devices)
           /\ GoodDevice(lists[c].devices[DeviceAt(c, a)])
           /\ lists[c].devices[DeviceAt(c, a)] \in Device
<1>1. DeviceAt(c, a) \in 1 .. Len(lists[c].devices)
  BY ChannelFacts, DeviceFound DEF DeviceAt
<1> QED
  BY <1>1, ChannelFacts DEF GoodChannel, GoodDevice

LEMMA FunctionFacts ==
    ASSUME ListInv, NEW c \in Channels, NEW a, NEW f, HasFunction(c, a, f)
    PROVE  /\ FunAt(c, a, f) \in 1 .. Len(FunsOf(c, a))
           /\ RegsOf(c, a, f) \in Seq(Registers) /\ Sorted(RegsOf(c, a, f))
           /\ TotalOf(c, a, f) \in 0 .. NumLimit - 1
<1>1. DeviceAt(c, a) # 0 /\ FunAt(c, a, f) # 0
  BY DEF HasFunction, HasDevice
<1>2. FunsOf(c, a) \in Seq(Function)
  BY <1>1, DeviceFacts DEF FunsOf, Device
<1>3. FunAt(c, a, f) \in 1 .. Len(FunsOf(c, a))
  BY <1>1, <1>2, FunctionFound DEF FunAt
<1>4. FunsOf(c, a)[FunAt(c, a, f)] \in Function
  BY <1>2, <1>3, ElementOfSeq
<1>5. Sorted(FunsOf(c, a)[FunAt(c, a, f)].regs)
  BY <1>1, <1>3, DeviceFacts DEF GoodDevice, FunsOf
<1> QED
  BY <1>3, <1>4, <1>5 DEF RegsOf, TotalOf, Function

LEMMA SetRegsKeeps ==
    ASSUME ListInv, NEW c \in Channels, NEW a, NEW f \in FunCodes, HasFunction(c, a, f),
           NEW regs \in Seq(Registers), Sorted(regs), NEW total \in 0 .. NumLimit - 1,
           SetRegs(c, a, f, regs, total)
    PROVE  ListInv'
<1> DEFINE k == DeviceAt(c, a)
           d == lists[c].devices[k]
           n == FunAt(c, a, f)
           fun == [code |-> f, total |-> total, regs |-> regs]
           newd == [d EXCEPT !.funs = [d.funs EXCEPT ![n] = fun]]
           newc == [lists[c] EXCEPT !.devices = [lists[c].devices EXCEPT ![k] = newd]]
<1>1. k # 0
  BY DEF HasFunction, HasDevice
<1>2. fun \in Function /\ fun.regs = regs
  BY DEF Function
<1>3. k \in 1 .. Len(lists[c].devices) /\ GoodDevice(d) /\ GoodChannel(lists[c])
  BY <1>1, DeviceFacts, ChannelFacts
<1>4. n \in 1 .. Len(d.funs)
  BY FunctionFacts DEF FunsOf
<1>5. GoodDevice(newd)
  <2> HIDE DEF d, n, fun
  <2> QED
    BY <1>2, <1>3, <1>4, OneFunction
<1>6. GoodChannel(newc)
  <2> HIDE DEF newd, k
  <2> QED
    BY <1>3, <1>5, OneDevice
<1>7. GoodLists([lists EXCEPT ![c] = newc])
  <2> HIDE DEF newc
  <2> QED
    BY <1>6, OneChannel
<1>8. [lists EXCEPT ![c].devices[k].funs[n] = fun] = [lists EXCEPT ![c] = newc]
  BY ChannelFacts
<1>9. Edit([lists EXCEPT ![c].devices[k].funs[n] = fun])
  BY DEF SetRegs
<1> HIDE DEF newc, k, n, fun
<1> QED
  BY <1>7, <1>8, <1>9, EditKeeps

LEMMA RegisterStep ==
    ASSUME ListInv, NEW c \in Channels, NEW a \in ModbusAddresses, HasDevice(c, a),
           NEW f \in FunCodes, RegisterCommand(c, a, f)
    PROVE  ListInv'
<1>1. ASSUME NEW r \in Registers, Reg_AddFunction(c, a, f, r)
      PROVE  ListInv'
  <2> DEFINE k == DeviceAt(c, a)
             d == lists[c].devices[k]
             fun == [code |-> f, total |-> 1, regs |-> <<r>>]
             newd == [d EXCEPT !.funs = Append(d.funs, fun)]
             newc == [lists[c] EXCEPT !.devices = [lists[c].devices EXCEPT ![k] = newd]]
  <2>1. /\ k \in 1 .. Len(lists[c].devices) /\ GoodDevice(d) /\ GoodChannel(lists[c])
        /\ d \in Device
    BY DeviceFacts, ChannelFacts DEF HasDevice
  <2>2. fun \in Function /\ Sorted(fun.regs)
    <3>1. <<r>> \in Seq(Registers) /\ Sorted(<<r>>)
      BY DEF Sorted
    <3>2. 1 \in 0 .. NumLimit - 1
      BY PipeAssumption
    <3> QED
      BY <3>1, <3>2 DEF Function
  <2>3. GoodDevice(newd)
    <3> DEFINE funs == Append(d.funs, fun)
    <3>1. d.funs \in Seq(Function)
      BY <2>1 DEF Device
    <3>2. /\ funs \in Seq(Function) /\ Len(funs) = Len(d.funs) + 1
          /\ \A i \in 1 .. Len(d.funs) + 1 :
               IF i = Len(d.funs) + 1 THEN funs[i] = fun
               ELSE i \in 1 .. Len(d.funs) /\ funs[i] = d.funs[i]
      <4> HIDE DEF d, fun
      <4> QED
        BY <2>2, <3>1, Appended
    <3> HIDE DEF funs, fun
    <3>3. \A i \in 1 .. Len(funs) : Sorted(funs[i].regs)
      BY <2>1, <2>2, <3>2 DEF GoodDevice
    <3>4. [d EXCEPT !.funs = funs] \in Device /\ [d EXCEPT !.funs = funs].funs = funs
      BY <2>1, <3>2 DEF Device
    <3> QED
      BY <3>3, <3>4 DEF GoodDevice, funs
  <2>4. GoodChannel(newc)
    <3> HIDE DEF newd, k
    <3> QED
      BY <2>1, <2>3, OneDevice
  <2>5. GoodLists([lists EXCEPT ![c] = newc])
    <3> HIDE DEF newc
    <3> QED
      BY <2>4, OneChannel
  <2>6. [lists EXCEPT ![c].devices[k].funs = Append(@, fun)] = [lists EXCEPT ![c] = newc]
    BY ChannelFacts
  <2>7. Edit([lists EXCEPT ![c].devices[k].funs = Append(@, fun)])
    BY <1>1 DEF Reg_AddFunction
  <2> HIDE DEF newc, k, fun
  <2> QED
    BY <2>5, <2>6, <2>7, EditKeeps
<1>2. ASSUME NEW r \in Registers, Reg_Add(c, a, f, r)
      PROVE  ListInv'
  BY <1>2, FunctionFacts, InsertedSorted, TotalInRange, SetRegsKeeps DEF Reg_Add
<1>3. ASSUME NEW r \in Registers, Reg_Delete(c, a, f, r)
      PROVE  ListInv'
  BY <1>3, FunctionFacts, WithoutSorted, TotalInRange, SetRegsKeeps DEF Reg_Delete
<1>4. ASSUME NEW old \in Registers, NEW new \in Registers, Reg_Change(c, a, f, old, new)
      PROVE  ListInv'
  <2>1. /\ HasFunction(c, a, f) /\ Contains(RegsOf(c, a, f), old)
        /\ ~Ring(RegsOf(c, a, f), old, new)
        /\ SetRegs(c, a, f, Relinked(RegsOf(c, a, f), old, new),
             More(Less(TotalOf(c, a, f)), Without(RegsOf(c, a, f), old), new))
    BY <1>4 DEF Reg_Change
  <2>2. /\ Relinked(RegsOf(c, a, f), old, new) \in Seq(Registers)
        /\ Sorted(Relinked(RegsOf(c, a, f), old, new))
    BY <2>1, FunctionFacts, RelinkedSorted
  <2>3. More(Less(TotalOf(c, a, f)), Without(RegsOf(c, a, f), old), new) \in 0 .. NumLimit - 1
    BY <2>1, FunctionFacts, TotalInRange
  <2> QED
    BY <2>1, <2>2, <2>3, SetRegsKeeps
<1>5. ASSUME NEW old \in Registers, NEW new \in Registers, Reg_ChangeFatal(c, a, f, old, new)
      PROVE  ListInv'
  <2>1. /\ GoodLists(lists') /\ configured' \in BOOLEAN /\ saved' \in BOOLEAN
        /\ task' \in {"up", "hung", "down", "undefined"}
    BY <1>5, BlankGood, ListInvLists DEF Reg_ChangeFatal
  <2> QED
    BY <2>1, GoodAfter
<1> QED
  BY <1>1, <1>2, <1>3, <1>4, <1>5 DEF RegisterCommand

(* The edit of one channel.                                                *)
LEMMA ChannelKeeps ==
    ASSUME ListInv, NEW c \in Channels, NEW ch, GoodChannel(ch),
           Edit([lists EXCEPT ![c] = ch])
    PROVE  ListInv'
  BY OneChannel, EditKeeps

LEMMA DeviceStep ==
    ASSUME ListInv, NEW c \in Channels, DeviceCommand(c)
    PROVE  ListInv'
<1>0. /\ GoodChannel(lists[c]) /\ lists[c] \in Channel
      /\ lists[c].devices \in Seq(Device) /\ Len(lists[c].devices) \in Nat
      /\ lists \in [Channels -> Channel]
  BY ChannelFacts
<1>1. ASSUME NEW p \in Protocols, UART_Set(c, p)
      PROVE  ListInv'
  <2> DEFINE ch == [lists[c] EXCEPT !.protocol = p]
  <2>1. GoodChannel(ch)
    BY <1>0 DEF GoodChannel, Channel
  <2>2. [lists EXCEPT ![c].protocol = p] = [lists EXCEPT ![c] = ch]
    BY <1>0
  <2> HIDE DEF ch
  <2> QED
    BY <1>1, <2>1, <2>2, ChannelKeeps DEF UART_Set
<1>2. ASSUME NEW k \in Kinds, NEW old \in Addresses(k), Slave_Delete(c, k, old)
      PROVE  ListInv'
  <2> DEFINE n == DeviceAt(c, old)
             devices == RemoveAt(lists[c].devices, n)
             ch == [lists[c] EXCEPT !.num = @ - 1, !.devices = devices]
  <2>1. n \in 1 .. Len(lists[c].devices)
    BY <1>2, DeviceFacts DEF Slave_Delete
  <2>2. /\ devices \in Seq(Device) /\ Len(devices) = Len(lists[c].devices) - 1
        /\ \A i \in 1 .. Len(lists[c].devices) - 1 :
             devices[i] = IF i < n THEN lists[c].devices[i] ELSE lists[c].devices[i + 1]
    <3> HIDE DEF n
    <3> QED
      BY <1>0, <2>1, Removed
  <2>3. [lists EXCEPT ![c].num = @ - 1, ![c].devices = RemoveAt(@, n)]
          = [lists EXCEPT ![c] = ch]
    BY <1>0
  <2>4. Edit([lists EXCEPT ![c].num = @ - 1, ![c].devices = RemoveAt(@, n)])
    BY <1>2 DEF Slave_Delete
  <2> HIDE DEF n, devices
  <2>5. \A i \in 1 .. Len(devices) : GoodDevice(devices[i])
    <3>1. \A i \in 1 .. Len(devices) :
            i \in 1 .. Len(lists[c].devices) /\ i + 1 \in 1 .. Len(lists[c].devices)
      BY <1>0, <2>2
    <3> QED
      BY <1>0, <2>2, <3>1 DEF GoodChannel
  <2>6. lists[c].num - 1 \in Nat /\ lists[c].num - 1 = Len(devices)
    BY <1>0, <2>1, <2>2 DEF GoodChannel
  <2>7. ch \in Channel /\ ch.devices = devices /\ ch.num = lists[c].num - 1
    BY <1>0, <2>2, <2>6 DEF Channel
  <2>8. GoodChannel(ch)
    BY <2>5, <2>6, <2>7 DEF GoodChannel
  <2> HIDE DEF ch
  <2> QED
    BY <2>3, <2>4, <2>8, ChannelKeeps
<1>3. ASSUME NEW k \in Kinds, NEW old \in Addresses(k), NEW new \in Addresses(k),
             Slave_Add(c, k, old, new)
      PROVE  ListInv'
  <2> DEFINE d == NewDevice(k, IF k = "MODBUS" THEN old ELSE new)
             devices == Append(lists[c].devices, d)
             ch == [lists[c] EXCEPT !.num = @ + 1, !.devices = devices]
  <2>1. d \in Device /\ d.funs = <<>>
    <3>1. <<>> \in Seq(Function) /\ <<>> \in CodeLists
      BY PipeAssumption, EmptySeq
    <3> QED
      BY <3>1 DEF NewDevice, Device, Addresses
  <2>2. GoodDevice(d)
    BY <2>1, EmptySeq DEF GoodDevice
  <2>3. [lists EXCEPT ![c].num = @ + 1, ![c].devices = Append(@, d)]
          = [lists EXCEPT ![c] = ch]
    BY <1>0
  <2>4. Edit([lists EXCEPT ![c].num = @ + 1, ![c].devices = Append(@, d)])
    BY <1>3 DEF Slave_Add
  <2> HIDE DEF d
  <2>5. /\ devices \in Seq(Device) /\ Len(devices) = Len(lists[c].devices) + 1
        /\ \A i \in 1 .. Len(lists[c].devices) + 1 :
             IF i = Len(lists[c].devices) + 1 THEN devices[i] = d
             ELSE i \in 1 .. Len(lists[c].devices) /\ devices[i] = lists[c].devices[i]
    BY <1>0, <2>1, Appended
  <2> HIDE DEF devices
  <2>6. \A i \in 1 .. Len(devices) : GoodDevice(devices[i])
    BY <1>0, <2>2, <2>5 DEF GoodChannel
  <2>7. lists[c].num + 1 \in Nat /\ lists[c].num + 1 = Len(devices)
    BY <1>0, <2>5 DEF GoodChannel
  <2>8. ch \in Channel /\ ch.devices = devices /\ ch.num = lists[c].num + 1
    BY <1>0, <2>5, <2>7 DEF Channel
  <2>9. GoodChannel(ch)
    BY <2>6, <2>7, <2>8 DEF GoodChannel
  <2>10. Append(lists[c].devices, d) = devices
    BY DEF devices
  <2> HIDE DEF ch
  <2> QED
    BY <2>3, <2>4, <2>9, ChannelKeeps
<1>4. ASSUME NEW k \in Kinds, NEW old \in Addresses(k), NEW new \in Addresses(k),
             Slave_Change(c, k, old, new)
      PROVE  ListInv'
  <2> DEFINE n == DeviceAt(c, old)
             d == [lists[c].devices[n] EXCEPT !.addr = new]
             ch == [lists[c] EXCEPT !.devices = [lists[c].devices EXCEPT ![n] = d]]
  <2>1. n \in 1 .. Len(lists[c].devices) /\ GoodDevice(lists[c].devices[n])
    BY <1>4, DeviceFacts DEF Slave_Change
  <2>2. GoodDevice(d)
    BY <2>1 DEF GoodDevice, Device, Addresses
  <2>3. [lists EXCEPT ![c].devices[n].addr = new] = [lists EXCEPT ![c] = ch]
    BY <1>0
  <2>4. Edit([lists EXCEPT ![c].devices[n].addr = new])
    BY <1>4 DEF Slave_Change
  <2> HIDE DEF d, n
  <2>5. GoodChannel(ch)
    BY <1>0, <2>1, <2>2, OneDevice
  <2> HIDE DEF ch
  <2> QED
    BY <2>3, <2>4, <2>5, ChannelKeeps
<1>5. ASSUME NEW a \in MeterAddresses, NEW codes \in CodeLists, Code_Set(c, a, codes)
      PROVE  ListInv'
  <2> DEFINE n == DeviceAt(c, a)
             d == [lists[c].devices[n] EXCEPT !.codes = codes]
             ch == [lists[c] EXCEPT !.devices = [lists[c].devices EXCEPT ![n] = d]]
  <2>1. n \in 1 .. Len(lists[c].devices) /\ GoodDevice(lists[c].devices[n])
    BY <1>5, DeviceFacts DEF Code_Set
  <2>2. GoodDevice(d)
    BY <2>1 DEF GoodDevice, Device
  <2>3. [lists EXCEPT ![c].devices[n].codes = codes] = [lists EXCEPT ![c] = ch]
    BY <1>0
  <2>4. Edit([lists EXCEPT ![c].devices[n].codes = codes])
    BY <1>5 DEF Code_Set
  <2> HIDE DEF d, n
  <2>5. GoodChannel(ch)
    BY <1>0, <2>1, <2>2, OneDevice
  <2> HIDE DEF ch
  <2> QED
    BY <2>3, <2>4, <2>5, ChannelKeeps
<1> QED
  BY <1>1, <1>2, <1>3, <1>4, <1>5 DEF DeviceCommand

-----------------------------------------------------------------------------
(* The invariant of the specification.                                     *)

LEMMA ListInvInit == PipeInit => ListInv
  BY BlankGood, ListInvLists DEF PipeInit

LEMMA ListInvNext == ListInv /\ [PipeNext]_pipeVars => ListInv'
<1> SUFFICES ASSUME ListInv, [PipeNext]_pipeVars
             PROVE  ListInv'
  OBVIOUS
<1>1. ASSUME NEW c \in Channels, DeviceCommand(c)
      PROVE  ListInv'
  BY <1>1, DeviceStep
<1>2. ASSUME NEW c \in Channels, NEW a \in ModbusAddresses, HasDevice(c, a),
             NEW f \in FunCodes, RegisterCommand(c, a, f)
      PROVE  ListInv'
  BY <1>2, RegisterStep
<1>3. CASE WildSearch
  BY <1>3, BlankGood, ListInvLists, GoodAfter DEF WildSearch
<1>4. CASE Slave_Save
  BY <1>4, ListInvLists, GoodAfter DEF Slave_Save
<1>5. CASE Slave_SaveFatal
  BY <1>5, BlankGood, ListInvLists, GoodAfter DEF Slave_SaveFatal
<1>6. CASE Restart
  BY <1>6, BlankGood, ListInvLists, GoodAfter DEF Restart
<1>7. CASE UNCHANGED pipeVars
  BY <1>7 DEF pipeVars, ListInv, PipeTypeOK, CountMatchesList, RegistersSorted
<1> QED
  BY <1>1, <1>2, <1>3, <1>4, <1>5, <1>6, <1>7 DEF PipeNext

(* Whatever is edited, the lists, counters and totals keep their types:    *)
(* u16TotalRegNum wraps at its width.                                      *)
THEOREM PipeTypeCorrect == PipeSpec => []PipeTypeOK
<1>1. ListInv => PipeTypeOK
  BY DEF ListInv
<1> QED
  BY <1>1, ListInvInit, ListInvNext, PTL DEF PipeSpec

(* The number of devices that is shown and saved is the length of the      *)
(* list, whatever was added, deleted, readdressed or relinked.             *)
THEOREM CountCorrect == PipeSpec => []CountMatchesList
<1>1. ListInv => CountMatchesList
  BY DEF ListInv
<1> QED
  BY <1>1, ListInvInit, ListInvNext, PTL DEF PipeSpec

(* Every register list is in ascending order without repetitions, although *)
(* a change links the new register behind an element found too early       *)
(* (ModBus_Pipe.c:2793): what it loses, it loses from between.             *)
THEOREM OrderCorrect == PipeSpec => []RegistersSorted
<1>1. ListInv => RegistersSorted
  BY DEF ListInv
<1> QED
  BY <1>1, ListInvInit, ListInvNext, PTL DEF PipeSpec

-----------------------------------------------------------------------------
(* What an edit takes out of a list of registers.                          *)

(* The list of function f may become that of g.                            *)
Spared(f, g) ==
    LET lost == Lost(f, g)  gained == Gained(f, g) IN
    \/ Cardinality(lost) <= 1
    \/ \E old \in lost, new \in gained : lost \ {old} \subseteq old + 1 .. new - 1

OnlyNamed == \A l \in ChangedLists : Spared(l[1], l[2])

LEMMA OneSpared ==
    ASSUME NEW f, NEW g, NEW r, ToSet(f.regs) \subseteq ToSet(g.regs) \cup {r}
    PROVE  Spared(f, g)
<1>1. Lost(f, g) = {} \/ Lost(f, g) = {r}
  BY DEF Lost
<1>2. Cardinality({}) = 0 /\ Cardinality({r}) = 1
  BY FS_EmptySet, FS_Singleton
<1> QED
  BY <1>1, <1>2 DEF Spared

LEMMA NoneSpared ==
    ASSUME NEW f, NEW g, ToSet(f.regs) \subseteq ToSet(g.regs)
    PROVE  Spared(f, g)
<1>1. ToSet(f.regs) \subseteq ToSet(g.regs) \cup {0}
  OBVIOUS
<1> QED
  BY <1>1, OneSpared

LEMMA ElementsOf ==
    ASSUME NEW S, NEW list \in Seq(S)
    PROVE  \A x : x \in ToSet(list) <=> \E k \in 1 .. Len(list) : list[k] = x
<1>1. DOMAIN list = 1 .. Len(list)
  BY LenProperties
<1> QED
  BY <1>1 DEF ToSet

(* The register that is deleted, and no other.                             *)
LEMMA WithoutSpares ==
    ASSUME NEW regs \in Seq(Registers), NEW r, Contains(regs, r)
    PROVE  /\ Without(regs, r) \in Seq(Registers)
           /\ ToSet(regs) \subseteq ToSet(Without(regs, r)) \cup {r}
<1> DEFINE i == Find(regs, LAMBDA x : x, r)
           rest == RemoveAt(regs, i)
<1>1. i \in 1 .. Len(regs) /\ regs[i] = r
  BY RegisterFound
<1>2. Without(regs, r) = rest
  BY DEF Without
<1> HIDE DEF i
<1>3. /\ rest \in Seq(Registers) /\ Len(rest) = Len(regs) - 1
      /\ \A k \in 1 .. Len(regs) - 1 : rest[k] = IF k < i THEN regs[k] ELSE regs[k + 1]
  BY <1>1, Removed
<1>4. Len(regs) \in Nat
  BY LenProperties
<1> HIDE DEF rest
<1>5. ASSUME NEW k \in 1 .. Len(regs), regs[k] # r
      PROVE  regs[k] \in ToSet(rest)
  <2>1. CASE k < i
    <3>1. k \in 1 .. Len(rest) /\ rest[k] = regs[k]
      BY <1>1, <1>3, <1>4, <2>1
    <3> QED
      BY <1>3, <3>1, ElementsOf
  <2>2. CASE k > i
    <3>1. k - 1 \in 1 .. Len(rest) /\ ~(k - 1 < i) /\ (k - 1) + 1 = k
      BY <1>1, <1>3, <1>4, <2>2
    <3>2. rest[k - 1] = regs[k]
      BY <1>3, <3>1
    <3> QED
      BY <1>3, <3>1, <3>2, ElementsOf
  <2>3. k < i \/ k > i
    BY <1>1, <1>4, <1>5
  <2> QED
    BY <2>1, <2>2, <2>3
<1>6. \A x \in ToSet(regs) : x = r \/ x \in ToSet(rest)
  BY <1>5, ElementsOf
<1> QED
  BY <1>2, <1>3, <1>6

(* The same facts of lists of registers.                                   *)
LEMMA RegistersInserted ==
    ASSUME NEW regs \in Seq(Registers), NEW i \in 1 .. Len(regs) + 1, NEW n \in Registers
    PROVE  /\ InsertAt(regs, i, n) \in Seq(Registers)
           /\ Len(InsertAt(regs, i, n)) = Len(regs) + 1
           /\ \A k \in 1 .. Len(regs) + 1 :
                InsertAt(regs, i, n)[k] = IF k < i THEN regs[k]
                                          ELSE IF k = i THEN n ELSE regs[k - 1]
  BY InsertedAt

LEMMA InsertedSpares ==
    ASSUME NEW regs \in Seq(Registers), NEW n \in Registers
    PROVE  ToSet(regs) \subseteq ToSet(Inserted(regs, n))
<1>1. CASE regs = <<>>
  BY <1>1 DEF ToSet
<1>2. CASE regs # <<>> /\ regs[Place(regs, n)] = n
  BY <1>2 DEF Inserted
<1>3. CASE regs # <<>> /\ regs[Place(regs, n)] # n
  <2> DEFINE j == Place(regs, n)
             i == IF regs[j] < n THEN j + 1 ELSE j
  <2>1. j \in 1 .. Len(regs) /\ Len(regs) \in Nat
    BY <1>3, PlaceFound, PipeAssumption, LenProperties
  <2>2. Inserted(regs, n) = InsertAt(regs, i, n)
    BY <1>3 DEF Inserted
  <2> HIDE DEF j
  <2>3. i \in 1 .. Len(regs) + 1
    BY <2>1
  <2> HIDE DEF i
  <2>4. /\ InsertAt(regs, i, n) \in Seq(Registers)
        /\ Len(InsertAt(regs, i, n)) = Len(regs) + 1
        /\ \A k \in 1 .. Len(regs) + 1 :
             InsertAt(regs, i, n)[k] = IF k < i THEN regs[k]
                                       ELSE IF k = i THEN n ELSE regs[k - 1]
    BY ZenonT(30), <2>3, RegistersInserted
  <2> DEFINE all == InsertAt(regs, i, n)
  <2> HIDE DEF all
  <2>5. ASSUME NEW k \in 1 .. Len(regs)
        PROVE  \E m \in 1 .. Len(all) : all[m] = regs[k]
    <3>0. /\ Len(all) = Len(regs) + 1
          /\ \A m \in 1 .. Len(regs) + 1 :
               all[m] = IF m < i THEN regs[m] ELSE IF m = i THEN n ELSE regs[m - 1]
      BY <2>4 DEF all
    <3>1. CASE k < i
      <4>1. k \in 1 .. Len(regs) + 1
        BY <2>1
      <4> QED
        BY <3>0, <3>1, <4>1
    <3>2. CASE ~(k < i)
      <4>1. /\ k + 1 \in 1 .. Len(regs) + 1 /\ ~(k + 1 < i) /\ k + 1 # i
            /\ (k + 1) - 1 = k
        BY <2>1, <2>3, <3>2
      <4>2. all[k + 1] = regs[k]
        BY <3>0, <4>1
      <4> QED
        BY <3>0, <4>1, <4>2
    <3> QED
      BY <3>1, <3>2
  <2>6. all \in Seq(Registers) /\ Inserted(regs, n) = all
    BY <2>2, <2>4 DEF all
  <2> QED
    BY <2>5, <2>6, ElementsOf
<1> QED
  BY <1>1, <1>2, <1>3

LEMMA ElementsOfBoth ==
    ASSUME NEW S, NEW a \in Seq(S), NEW b \in Seq(S)
    PROVE  a \o b \in Seq(S) /\ ToSet(a \o b) = ToSet(a) \cup ToSet(b)
<1>1. /\ a \o b \in Seq(S) /\ Len(a \o b) = Len(a) + Len(b)
      /\ \A k \in 1 .. Len(a) + Len(b) :
           (a \o b)[k] = IF k <= Len(a) THEN a[k] ELSE b[k - Len(a)]
  BY ConcatProperties
<1>2. Len(a) \in Nat /\ Len(b) \in Nat
  BY LenProperties
<1> DEFINE c == a \o b
<1> HIDE DEF c
<1>3. ASSUME NEW k \in 1 .. Len(a)
      PROVE  k \in 1 .. Len(c) /\ c[k] = a[k]
  BY <1>1, <1>2 DEF c
<1>4. ASSUME NEW k \in 1 .. Len(b)
      PROVE  k + Len(a) \in 1 .. Len(c) /\ c[k + Len(a)] = b[k]
  <2>1. /\ k + Len(a) \in 1 .. Len(a) + Len(b) /\ ~(k + Len(a) <= Len(a))
        /\ (k + Len(a)) - Len(a) = k
    BY <1>2
  <2> QED
    BY <1>1, <2>1 DEF c
<1>5. ASSUME NEW k \in 1 .. Len(c)
      PROVE  \/ k \in 1 .. Len(a) /\ c[k] = a[k]
             \/ k - Len(a) \in 1 .. Len(b) /\ c[k] = b[k - Len(a)]
  BY <1>1, <1>2 DEF c
<1>6. c \in Seq(S)
  BY <1>1 DEF c
<1>7. ToSet(c) = ToSet(a) \cup ToSet(b)
  <2>1. /\ \A x : x \in ToSet(a) <=> \E k \in 1 .. Len(a) : a[k] = x
        /\ \A x : x \in ToSet(b) <=> \E k \in 1 .. Len(b) : b[k] = x
    BY ElementsOf
  <2>2. \A x : x \in ToSet(c) <=> \E k \in 1 .. Len(c) : c[k] = x
    BY <1>6, ElementsOf
  <2>3. \A x : x \in ToSet(a) \/ x \in ToSet(b) => x \in ToSet(c)
    BY <1>3, <1>4, <2>1, <2>2
  <2>4. \A x : x \in ToSet(c) => x \in ToSet(a) \/ x \in ToSet(b)
    BY <1>5, <2>1, <2>2
  <2> QED
    BY <2>3, <2>4
<1> QED
  BY <1>6, <1>7 DEF c

LEMMA ElementsOfPart ==
    ASSUME NEW S, NEW list \in Seq(S), NEW m \in 1 .. Len(list) + 1, NEW n \in 0 .. Len(list),
           m <= n + 1
    PROVE  /\ SubSeq(list, m, n) \in Seq(S)
           /\ \A x : x \in ToSet(SubSeq(list, m, n)) <=> \E k \in m .. n : x = list[k]
<1> DEFINE part == SubSeq(list, m, n)
<1>1. Len(list) \in Nat
  BY LenProperties
<1>2. /\ part \in Seq(S) /\ Len(part) = n - m + 1
      /\ \A k \in 1 .. n - m + 1 : part[k] = list[m + k - 1]
  BY <1>1, SubSeqProperties
<1> HIDE DEF part
<1>3. ASSUME NEW k \in 1 .. Len(part)
      PROVE  m + k - 1 \in m .. n /\ part[k] = list[m + k - 1]
  BY <1>1, <1>2
<1>4. ASSUME NEW k \in m .. n
      PROVE  k - m + 1 \in 1 .. Len(part) /\ part[k - m + 1] = list[k]
  <2>1. k - m + 1 \in 1 .. n - m + 1 /\ m + (k - m + 1) - 1 = k
    BY <1>1
  <2> QED
    BY <1>2, <2>1
<1>5. \A x : x \in ToSet(part) <=> \E k \in m .. n : x = list[k]
  <2>1. \A x : x \in ToSet(part) <=> \E k \in 1 .. Len(part) : part[k] = x
    BY <1>2, ElementsOf
  <2>2. \A x : x \in ToSet(part) => \E k \in m .. n : x = list[k]
    BY <1>3, <2>1
  <2>3. \A k \in m .. n : list[k] \in ToSet(part)
    BY <1>4, <2>1
  <2> QED
    BY <2>2, <2>3
<1> QED
  BY <1>2, <1>5 DEF part

LEMMA RegistersOfPart ==
    ASSUME NEW regs \in Seq(Registers), NEW m \in 1 .. Len(regs) + 1,
           NEW n \in 0 .. Len(regs), m <= n + 1
    PROVE  /\ SubSeq(regs, m, n) \in Seq(Registers)
           /\ \A x : x \in ToSet(SubSeq(regs, m, n)) <=> \E k \in m .. n : x = regs[k]
  BY ElementsOfPart

(* A change of a register to a higher address loses the registers between  *)
(* the two; any other change loses the old one only.                       *)
LEMMA RelinkedSpares ==
    ASSUME NEW regs \in Seq(Registers), NEW old \in Registers, NEW new \in Registers,
           Contains(regs, old), Sorted(regs), ~Ring(regs, old, new),
           NEW f, NEW g, f.regs = regs, g.regs = Relinked(regs, old, new)
    PROVE  Spared(f, g)
<1> DEFINE i == Find(regs, LAMBDA x : x, old)
           rest == RemoveAt(regs, i)
           j == Place(rest, new)
           one == SubSeq(rest, 1, i - 1)
           two == SubSeq(rest, j, Len(rest))
<1>1. /\ rest \in Seq(Registers) /\ Sorted(rest) /\ i \in 1 .. Len(regs) /\ regs[i] = old
      /\ ToSet(regs) \subseteq ToSet(rest) \cup {old}
  BY WithoutSorted, WithoutSpares, RegisterFound DEF Without
<1>2. CASE rest = <<>> \/ j = 1 \/ rest[j] <= new
  <2>1. Relinked(regs, old, new) = Inserted(rest, new)
    BY <1>2 DEF Relinked
  <2> HIDE DEF rest
  <2>2. ToSet(rest) \subseteq ToSet(Inserted(rest, new))
    BY <1>1, InsertedSpares
  <2> QED
    BY <1>1, <2>1, <2>2, OneSpared
<1>3. CASE ~(rest = <<>> \/ j = 1 \/ rest[j] <= new)
  <2> DEFINE all == (one \o <<new>>) \o two
  <2>1. Relinked(regs, old, new) = all
    BY <1>3 DEF Relinked
  <2>2. ~(rest[j] <= new) /\ rest # <<>> /\ j # 1
    BY <1>3
  <2>3. /\ Len(rest) = Len(regs) - 1 /\ Len(regs) \in Nat
        /\ \A k \in 1 .. Len(rest) : rest[k] = IF k < i THEN regs[k] ELSE regs[k + 1]
    <3> HIDE DEF i
    <3> QED
      BY <1>1, Removed, LenProperties
  <2>4. /\ j \in 1 .. Len(rest) /\ new \in Nat /\ old \in Nat
        /\ \A k \in 1 .. Len(rest) : rest[k] \in Nat /\ (k < j => rest[k] < new)
    <3> HIDE DEF rest
    <3> QED
      BY <1>1, <2>2, PlaceFound, RegisterTypes, PipeAssumption
  <2>5. i <= j
    <3>1. rest[j] > new
      BY <2>2, <2>4
    <3>2. ~(i > j)
      BY <2>2, <3>1 DEF Ring, Without
    <3> QED
      BY <1>1, <2>3, <2>4, <3>2
  <2> HIDE DEF rest, i, j
  <2>6. /\ \A x : x \in ToSet(one) <=> \E k \in 1 .. i - 1 : x = rest[k]
        /\ \A x : x \in ToSet(two) <=> \E k \in j .. Len(rest) : x = rest[k]
        /\ one \in Seq(Registers) /\ two \in Seq(Registers)
    <3>1. /\ 1 \in 1 .. Len(rest) + 1 /\ i - 1 \in 0 .. Len(rest) /\ 1 <= (i - 1) + 1
          /\ j \in 1 .. Len(rest) + 1 /\ Len(rest) \in 0 .. Len(rest) /\ j <= Len(rest) + 1
      BY <1>1, <2>3, <2>4, <2>5
    <3>2. one \in Seq(Registers) /\ \A x : x \in ToSet(one) <=> \E k \in 1 .. i - 1 : x = rest[k]
      BY <1>1, <3>1, RegistersOfPart
    <3>3. two \in Seq(Registers) /\ \A x : x \in ToSet(two) <=> \E k \in j .. Len(rest) : x = rest[k]
      BY <1>1, <3>1, RegistersOfPart
    <3> QED
      BY <3>2, <3>3
  <2>7. <<new>> \in Seq(Registers) /\ ToSet(<<new>>) = {new}
    BY DEF ToSet
  <2>8. ToSet(all) = (ToSet(one) \cup {new}) \cup ToSet(two)
    <3> DEFINE mid == <<new>>
               both == one \o mid
    <3>1. mid \in Seq(Registers) /\ ToSet(mid) = {new}
      BY <2>7
    <3> HIDE DEF one, two, mid
    <3>2. both \in Seq(Registers) /\ ToSet(both) = ToSet(one) \cup {new}
      BY <2>6, <3>1, ElementsOfBoth
    <3>3. ToSet(both \o two) = ToSet(both) \cup ToSet(two)
      <4> HIDE DEF both
      <4> QED
        BY <2>6, <3>2, ElementsOfBoth
    <3> QED
      BY <3>2, <3>3 DEF mid
  <2>9. \A x \in ToSet(rest) : \E k \in 1 .. Len(rest) : x = rest[k]
    BY <1>1, ElementsOf
  <2>10. ASSUME NEW k \in 1 .. Len(rest), rest[k] \notin ToSet(all)
         PROVE  rest[k] \in old + 1 .. new - 1
    <3>1. i <= k /\ k < j
      BY <1>1, <2>3, <2>4, <2>6, <2>8, <2>10
    <3>2. rest[k] = regs[k + 1] /\ k + 1 \in 1 .. Len(regs) /\ i < k + 1
      BY <1>1, <2>3, <2>4, <3>1
    <3>3. old < rest[k]
      BY <1>1, <3>2 DEF Sorted
    <3> QED
      BY <2>4, <3>1, <3>3
  <2>11. \A k \in 1 .. Len(rest) : rest[k] # old
    <3> SUFFICES ASSUME NEW k \in 1 .. Len(rest)
                 PROVE  rest[k] # old
      OBVIOUS
    <3>1. CASE k < i
      <4>1. rest[k] = regs[k] /\ k \in 1 .. Len(regs)
        BY <2>3, <3>1
      <4>2. regs[k] < regs[i]
        BY <1>1, <3>1, <4>1 DEF Sorted
      <4> QED
        BY <1>1, <2>4, <4>1, <4>2
    <3>2. CASE ~(k < i)
      <4>1. rest[k] = regs[k + 1] /\ k + 1 \in 1 .. Len(regs) /\ i < k + 1
        BY <1>1, <2>3, <3>2
      <4>2. regs[i] < regs[k + 1]
        BY <1>1, <4>1 DEF Sorted
      <4> QED
        BY <1>1, <2>4, <4>1, <4>2
    <3> QED
      BY <3>1, <3>2
  <2>12. \A k \in 1 .. Len(rest) : rest[k] # new
    <3> SUFFICES ASSUME NEW k \in 1 .. Len(rest), rest[k] = new
                 PROVE  FALSE
      OBVIOUS
    <3>1. ~(k < j)
      BY <2>4
    <3>2. k = j \/ rest[j] < rest[k]
      BY <1>1, <2>3, <2>4, <3>1 DEF Sorted
    <3> QED
      BY <2>2, <2>4, <3>2
  <2> HIDE DEF all
  <2>13. CASE \E k \in 1 .. Len(rest) : rest[k] \notin ToSet(all)
    <3>1. old + 1 <= new - 1
      BY <2>4, <2>10, <2>13
    <3>2. new # old /\ old \in ToSet(regs)
      BY <1>1, <2>4, <3>1, ElementsOf
    <3>3. old \notin ToSet(all)
      <4>1. old \notin ToSet(one)
        BY <1>1, <2>3, <2>4, <2>6, <2>11
      <4>2. old \notin ToSet(two)
        BY <2>4, <2>6, <2>11
      <4> QED
        BY <2>8, <3>2, <4>1, <4>2
    <3>4. new \in ToSet(all) /\ new \notin ToSet(regs)
      BY <1>1, <2>8, <2>9, <2>12, <3>2
    <3>5. old \in Lost(f, g) /\ new \in Gained(f, g)
      BY <2>1, <3>2, <3>3, <3>4 DEF Lost, Gained
    <3>6. \A x \in Lost(f, g) : x = old \/ x \in old + 1 .. new - 1
      BY <1>1, <2>1, <2>9, <2>10 DEF Lost
    <3> QED
      BY <3>5, <3>6 DEF Spared
  <2>14. CASE \A k \in 1 .. Len(rest) : rest[k] \in ToSet(all)
    <3>1. ToSet(regs) \subseteq ToSet(all) \cup {old}
      BY <1>1, <2>9, <2>14
    <3> QED
      BY <2>1, <3>1, OneSpared
  <2> QED
    BY <2>13, <2>14
<1> QED
  BY <1>2, <1>3

(* A command that empties all lists changes none: its channels have no     *)
(* devices, or another number of them than before.                         *)
LEMMA BlankNamed ==
    ASSUME ListInv, lists' = Blank
    PROVE  OnlyNamed
<1> SUFFICES ASSUME NEW c \in Channels, lists[c].num = lists'[c].num,
                    NEW i \in DOMAIN lists[c].devices
             PROVE  FALSE
  BY DEF OnlyNamed, ChangedLists
<1>1. lists'[c].num = 0
  BY DEF Blank
<1>2. lists[c].num = Len(lists[c].devices) /\ lists[c].devices \in Seq(Device)
  BY ChannelFacts DEF ListInv, CountMatchesList
<1>3. DOMAIN lists[c].devices = 1 .. 0
  BY <1>1, <1>2, LenProperties
<1> QED
  BY <1>3

LEMMA EditNamed ==
    ASSUME ListInv, NEW ls, Edit(ls),
           \A c \in Channels :
             \/ ls[c] = lists[c]
             \/ ls[c].num # lists[c].num
             \/ \A i \in DOMAIN lists[c].devices :
                  \A j \in DOMAIN lists[c].devices[i].funs :
                    j \in DOMAIN ls[c].devices[i].funs =>
                      Spared(lists[c].devices[i].funs[j], ls[c].devices[i].funs[j])
    PROVE  OnlyNamed
<1>1. CASE Misread(ls)
  BY <1>1, BlankNamed DEF Edit
<1>2. CASE ~Misread(ls)
  <2>1. lists' = ls
    BY <1>2 DEF Edit
  <2> SUFFICES ASSUME NEW p \in Channels \X (1 .. MaxDevices) \X (1 .. Cardinality(FunCodes)),
                      lists[p[1]] # lists'[p[1]], lists[p[1]].num = lists'[p[1]].num,
                      p[2] \in DOMAIN lists[p[1]].devices,
                      p[3] \in DOMAIN lists[p[1]].devices[p[2]].funs,
                      p[3] \in DOMAIN lists'[p[1]].devices[p[2]].funs
               PROVE  Spared(lists[p[1]].devices[p[2]].funs[p[3]],
                             lists'[p[1]].devices[p[2]].funs[p[3]])
    BY DEF OnlyNamed, ChangedLists
  <2>2. p[1] \in Channels
    OBVIOUS
  <2> QED
    BY <2>1, <2>2
<1> QED
  BY <1>1, <1>2

LEMMA ChannelNamed ==
    ASSUME ListInv, NEW c \in Channels, NEW ch, Edit([lists EXCEPT ![c] = ch]),
           \/ ch.num # lists[c].num
           \/ \A i \in DOMAIN lists[c].devices :
                \A j \in DOMAIN lists[c].devices[i].funs :
                  j \in DOMAIN ch.devices[i].funs =>
                    Spared(lists[c].devices[i].funs[j], ch.devices[i].funs[j])
    PROVE  OnlyNamed
<1> DEFINE ls == [lists EXCEPT ![c] = ch]
<1>1. ls[c] = ch /\ \A e \in Channels : e # c => ls[e] = lists[e]
  BY ChannelFacts
<1>2. Edit(ls)
  OBVIOUS
<1> HIDE DEF ls
<1> QED
  BY <1>1, <1>2, EditNamed

LEMMA SameSpared ==
    ASSUME NEW f
    PROVE  Spared(f, f)
  BY NoneSpared

LEMMA DeviceNamed ==
    ASSUME ListInv, NEW c \in Channels, NEW k \in 1 .. Len(lists[c].devices), NEW d,
           Edit([lists EXCEPT ![c] =
                   [lists[c] EXCEPT !.devices = [lists[c].devices EXCEPT ![k] = d]]]),
           \A j \in DOMAIN lists[c].devices[k].funs :
             j \in DOMAIN d.funs => Spared(lists[c].devices[k].funs[j], d.funs[j])
    PROVE  OnlyNamed
<1> DEFINE devices == [lists[c].devices EXCEPT ![k] = d]
           ch == [lists[c] EXCEPT !.devices = devices]
<1>1. \A i \in DOMAIN lists[c].devices :
        devices[i] = IF i = k THEN d ELSE lists[c].devices[i]
  OBVIOUS
<1> HIDE DEF devices
<1>2. ch.devices = devices
  BY ChannelFacts DEF Channel
<1>3. Edit([lists EXCEPT ![c] = ch])
  BY DEF devices
<1> HIDE DEF ch
<1>4. \A i \in DOMAIN lists[c].devices :
        \A j \in DOMAIN lists[c].devices[i].funs :
          j \in DOMAIN ch.devices[i].funs =>
            Spared(lists[c].devices[i].funs[j], ch.devices[i].funs[j])
  <2> SUFFICES ASSUME NEW i \in DOMAIN lists[c].devices,
                      NEW j \in DOMAIN lists[c].devices[i].funs,
                      j \in DOMAIN ch.devices[i].funs
               PROVE  Spared(lists[c].devices[i].funs[j], ch.devices[i].funs[j])
    OBVIOUS
  <2>1. CASE i = k
    BY <1>1, <1>2, <2>1
  <2>2. CASE i # k
    BY <1>1, <1>2, <2>2, SameSpared
  <2> QED
    BY <2>1, <2>2
<1> QED
  BY <1>3, <1>4, ChannelNamed

LEMMA SetRegsNamed ==
    ASSUME ListInv, NEW c \in Channels, NEW a, NEW f, HasFunction(c, a, f),
           NEW regs, NEW total, SetRegs(c, a, f, regs, total),
           \A g, h : g.regs = RegsOf(c, a, f) /\ h.regs = regs => Spared(g, h)
    PROVE  OnlyNamed
<1> DEFINE k == DeviceAt(c, a)
           d == lists[c].devices[k]
           n == FunAt(c, a, f)
           fun == [code |-> f, total |-> total, regs |-> regs]
           funs == [d.funs EXCEPT ![n] = fun]
           newd == [d EXCEPT !.funs = funs]
<1>1. k \in 1 .. Len(lists[c].devices) /\ d \in Device
  BY DeviceFacts DEF HasFunction, HasDevice
<1>2. [lists EXCEPT ![c].devices[k].funs[n] = fun] =
        [lists EXCEPT ![c] =
           [lists[c] EXCEPT !.devices = [lists[c].devices EXCEPT ![k] = newd]]]
  BY ChannelFacts
<1>3. Edit([lists EXCEPT ![c].devices[k].funs[n] = fun])
  BY DEF SetRegs
<1>4. fun.regs = regs /\ d.funs[n].regs = RegsOf(c, a, f)
  BY DEF RegsOf, FunsOf
<1>5. \A j \in DOMAIN d.funs : funs[j] = IF j = n THEN fun ELSE d.funs[j]
  OBVIOUS
<1> HIDE DEF fun, funs, n
<1>6. newd.funs = funs
  BY <1>1 DEF Device
<1>7. \A j \in DOMAIN d.funs : j \in DOMAIN newd.funs => Spared(d.funs[j], newd.funs[j])
  BY <1>4, <1>5, <1>6, SameSpared
<1> HIDE DEF newd, k
<1> QED
  BY <1>1, <1>2, <1>3, <1>7, DeviceNamed

LEMMA RegisterNamed ==
    ASSUME ListInv, NEW c \in Channels, NEW a \in ModbusAddresses, HasDevice(c, a),
           NEW f \in FunCodes, RegisterCommand(c, a, f)
    PROVE  OnlyNamed
<1>1. ASSUME NEW r \in Registers, Reg_AddFunction(c, a, f, r)
      PROVE  OnlyNamed
  <2> DEFINE k == DeviceAt(c, a)
             d == lists[c].devices[k]
             fun == [code |-> f, total |-> 1, regs |-> <<r>>]
             funs == Append(d.funs, fun)
             newd == [d EXCEPT !.funs = funs]
             newc == [lists[c] EXCEPT !.devices = [lists[c].devices EXCEPT ![k] = newd]]
  <2>1. k \in 1 .. Len(lists[c].devices) /\ d \in Device
    BY DeviceFacts DEF HasDevice
  <2>2. [lists EXCEPT ![c].devices[k].funs = Append(@, fun)] = [lists EXCEPT ![c] = newc]
    BY ChannelFacts
  <2>3. Edit([lists EXCEPT ![c].devices[k].funs = Append(@, fun)])
    BY <1>1 DEF Reg_AddFunction
  <2> HIDE DEF fun
  <2>4. \A j \in DOMAIN d.funs : funs[j] = d.funs[j]
    <3>1. d.funs \in Seq(Function) /\ DOMAIN d.funs = 1 .. Len(d.funs)
      BY <2>1, LenProperties DEF Device
    <3> HIDE DEF d
    <3> QED
      BY <3>1
  <2> HIDE DEF funs
  <2>5. newd.funs = funs
    BY <2>1 DEF Device
  <2>6. \A j \in DOMAIN d.funs : j \in DOMAIN newd.funs => Spared(d.funs[j], newd.funs[j])
    BY <2>4, <2>5, SameSpared
  <2> HIDE DEF newd, k
  <2> QED
    BY <2>1, <2>2, <2>3, <2>6, DeviceNamed
<1>2. ASSUME NEW r \in Registers, Reg_Add(c, a, f, r)
      PROVE  OnlyNamed
  <2>1. \A g, h : g.regs = RegsOf(c, a, f) /\ h.regs = Inserted(RegsOf(c, a, f), r)
                    => Spared(g, h)
    BY <1>2, FunctionFacts, InsertedSpares, NoneSpared DEF Reg_Add
  <2> QED
    BY <1>2, <2>1, SetRegsNamed DEF Reg_Add
<1>3. ASSUME NEW r \in Registers, Reg_Delete(c, a, f, r)
      PROVE  OnlyNamed
  <2>1. \A g, h : g.regs = RegsOf(c, a, f) /\ h.regs = Without(RegsOf(c, a, f), r)
                    => Spared(g, h)
    <3>1. RegsOf(c, a, f) \in Seq(Registers) /\ Contains(RegsOf(c, a, f), r)
      BY <1>3, FunctionFacts DEF Reg_Delete
    <3>2. ToSet(RegsOf(c, a, f)) \subseteq ToSet(Without(RegsOf(c, a, f), r)) \cup {r}
      BY <3>1, WithoutSpares
    <3> QED
      BY <3>2, OneSpared
  <2> QED
    BY <1>3, <2>1, SetRegsNamed DEF Reg_Delete
<1>4. ASSUME NEW old \in Registers, NEW new \in Registers, Reg_Change(c, a, f, old, new)
      PROVE  OnlyNamed
  <2>1. /\ HasFunction(c, a, f) /\ Contains(RegsOf(c, a, f), old)
        /\ ~Ring(RegsOf(c, a, f), old, new)
        /\ SetRegs(c, a, f, Relinked(RegsOf(c, a, f), old, new),
             More(Less(TotalOf(c, a, f)), Without(RegsOf(c, a, f), old), new))
    BY <1>4 DEF Reg_Change
  <2>2. \A g, h : g.regs = RegsOf(c, a, f) /\ h.regs = Relinked(RegsOf(c, a, f), old, new)
                    => Spared(g, h)
    BY <2>1, FunctionFacts, RelinkedSpares
  <2> QED
    BY <2>1, <2>2, SetRegsNamed
<1>5. ASSUME NEW old \in Registers, NEW new \in Registers, Reg_ChangeFatal(c, a, f, old, new)
      PROVE  OnlyNamed
  BY <1>5, BlankNamed DEF Reg_ChangeFatal
<1> QED
  BY <1>1, <1>2, <1>3, <1>4, <1>5 DEF RegisterCommand

LEMMA DeviceCommandNamed ==
    ASSUME ListInv, NEW c \in Channels, DeviceCommand(c)
    PROVE  OnlyNamed
<1>0. lists[c] \in Channel /\ lists[c].num \in Nat /\ lists \in [Channels -> Channel]
  BY ChannelFacts DEF Channel
<1>1. ASSUME NEW p \in Protocols, UART_Set(c, p)
      PROVE  OnlyNamed
  <2> DEFINE ch == [lists[c] EXCEPT !.protocol = p]
  <2>1. ch.devices = lists[c].devices
    BY <1>0 DEF Channel
  <2>2. [lists EXCEPT ![c].protocol = p] = [lists EXCEPT ![c] = ch]
    BY <1>0
  <2> HIDE DEF ch
  <2> QED
    BY <1>1, <2>1, <2>2, SameSpared, ChannelNamed DEF UART_Set
<1>2. ASSUME NEW k \in Kinds, NEW old \in Addresses(k), Slave_Delete(c, k, old)
      PROVE  OnlyNamed
  <2> DEFINE n == DeviceAt(c, old)
             ch == [lists[c] EXCEPT !.num = @ - 1, !.devices = RemoveAt(lists[c].devices, n)]
  <2>1. [lists EXCEPT ![c].num = @ - 1, ![c].devices = RemoveAt(@, n)]
          = [lists EXCEPT ![c] = ch]
    BY <1>0
  <2>2. Edit([lists EXCEPT ![c].num = @ - 1, ![c].devices = RemoveAt(@, n)])
    BY <1>2 DEF Slave_Delete
  <2>3. ch.num # lists[c].num
    BY <1>0 DEF Channel
  <2> HIDE DEF ch
  <2> QED
    BY <2>1, <2>2, <2>3, ChannelNamed
<1>3. ASSUME NEW k \in Kinds, NEW old \in Addresses(k), NEW new \in Addresses(k),
             Slave_Add(c, k, old, new)
      PROVE  OnlyNamed
  <2> DEFINE d == NewDevice(k, IF k = "MODBUS" THEN old ELSE new)
             ch == [lists[c] EXCEPT !.num = @ + 1, !.devices = Append(lists[c].devices, d)]
  <2>1. [lists EXCEPT ![c].num = @ + 1, ![c].devices = Append(@, d)]
          = [lists EXCEPT ![c] = ch]
    BY <1>0
  <2>2. Edit([lists EXCEPT ![c].num = @ + 1, ![c].devices = Append(@, d)])
    BY <1>3 DEF Slave_Add
  <2>3. ch.num # lists[c].num
    BY <1>0 DEF Channel
  <2> HIDE DEF ch
  <2> QED
    BY <2>1, <2>2, <2>3, ChannelNamed
<1>4. ASSUME NEW k \in Kinds, NEW old \in Addresses(k), NEW new \in Addresses(k),
             Slave_Change(c, k, old, new)
      PROVE  OnlyNamed
  <2> DEFINE n == DeviceAt(c, old)
             d == [lists[c].devices[n] EXCEPT !.addr = new]
             ch == [lists[c] EXCEPT !.devices = [lists[c].devices EXCEPT ![n] = d]]
  <2>1. n \in 1 .. Len(lists[c].devices) /\ lists[c].devices[n] \in Device
    BY <1>4, DeviceFacts DEF Slave_Change
  <2>2. d.funs = lists[c].devices[n].funs
    BY <2>1 DEF Device
  <2>3. [lists EXCEPT ![c].devices[n].addr = new] = [lists EXCEPT ![c] = ch]
    BY <1>0
  <2>4. Edit([lists EXCEPT ![c].devices[n].addr = new])
    BY <1>4 DEF Slave_Change
  <2> HIDE DEF d, n
  <2> QED
    BY <2>1, <2>2, <2>3, <2>4, SameSpared, DeviceNamed
<1>5. ASSUME NEW a \in MeterAddresses, NEW codes \in CodeLists, Code_Set(c, a, codes)
      PROVE  OnlyNamed
  <2> DEFINE n == DeviceAt(c, a)
             d == [lists[c].devices[n] EXCEPT !.codes = codes]
             ch == [lists[c] EXCEPT !.devices = [lists[c].devices EXCEPT ![n] = d]]
  <2>1. n \in 1 .. Len(lists[c].devices) /\ lists[c].devices[n] \in Device
    BY <1>5, DeviceFacts DEF Code_Set
  <2>2. d.funs = lists[c].devices[n].funs
    BY <2>1 DEF Device
  <2>3. [lists EXCEPT ![c].devices[n].codes = codes] = [lists EXCEPT ![c] = ch]
    BY <1>0
  <2>4. Edit([lists EXCEPT ![c].devices[n].codes = codes])
    BY <1>5 DEF Code_Set
  <2> HIDE DEF d, n
  <2> QED
    BY <2>1, <2>2, <2>3, <2>4, SameSpared, DeviceNamed
<1> QED
  BY <1>1, <1>2, <1>3, <1>4, <1>5 DEF DeviceCommand

LEMMA StepNamed == ListInv /\ [PipeNext]_pipeVars => OnlyNamed
<1> SUFFICES ASSUME ListInv, [PipeNext]_pipeVars
             PROVE  OnlyNamed
  OBVIOUS
<1>1. ASSUME NEW c \in Channels, DeviceCommand(c)
      PROVE  OnlyNamed
  BY <1>1, DeviceCommandNamed
<1>2. ASSUME NEW c \in Channels, NEW a \in ModbusAddresses, HasDevice(c, a),
             NEW f \in FunCodes, RegisterCommand(c, a, f)
      PROVE  OnlyNamed
  BY <1>2, RegisterNamed
<1>3. CASE WildSearch \/ Slave_SaveFatal \/ Restart
  BY <1>3, BlankNamed DEF WildSearch, Slave_SaveFatal, Restart
<1>4. CASE Slave_Save \/ UNCHANGED pipeVars
  <2>1. lists' = lists
    BY <1>4 DEF Slave_Save, pipeVars
  <2> QED
    BY <2>1 DEF OnlyNamed, ChangedLists
<1> QED
  BY <1>1, <1>2, <1>3, <1>4 DEF PipeNext

(* One command takes at most one register out of a list, but a change      *)
(* loses those over which it moves a register to a higher address          *)
(* (ModBus_Pipe.c:2793).                                                   *)
THEOREM NoOtherLost == PipeSpec => NothingElseLost
<1> DEFINE Kept == \A l \in ChangedLists :
              LET lost == Lost(l[1], l[2])  gained == Gained(l[1], l[2]) IN
              \/ Cardinality(lost) <= 1
              \/ \E old \in lost, new \in gained : lost \ {old} \subseteq old + 1 .. new - 1
<1>1. ListInv /\ [PipeNext]_pipeVars => Kept
  BY StepNamed DEF OnlyNamed, Spared
<1>2. ListInv /\ [PipeNext]_pipeVars => [Kept]_pipeVars
  BY <1>1
<1> QED
  BY <1>2, ListInvInit, ListInvNext, PTL DEF PipeSpec, NothingElseLost
=============================================================================
