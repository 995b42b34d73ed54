------------------------- MODULE ModbusChannelProofs -------------------------
(***************************************************************************)
(* The serial line, for any slaves with any registers, and any bounds.     *)
(***************************************************************************)
EXTENDS ModbusChannel, FiniteSetTheorems, WellFoundedInduction, SequenceTheorems, TLAPS

-----------------------------------------------------------------------------
(* Numbers.                                                                *)

(* A nonempty set of numbers has a least one.                              *)
LEMMA LeastNumber ==
  ASSUME NEW S, S \subseteq Nat, S # {}
  PROVE  \E k \in S : \A j \in S : k <= j
<1> DEFINE R == OpToRel(<, Nat)
<1>1. IsWellFoundedOn(R, Nat)
  BY NatLessThanWellFounded
<1>2. \A x, y \in Nat : <<x, y>> \in R <=> x < y
  BY DEF OpToRel
<1> HIDE DEF R
<1>3. PICK k \in S : \A j \in S : <<j, k>> \notin R
  BY <1>1, WFMin, Zenon
<1>4. ASSUME NEW j \in S
      PROVE  k <= j
  <2>1. ~(j < k)
    BY <1>2, <1>3
  <2> QED
    BY <2>1
<1> QED
  BY <1>4

(* What holds of the first place and of each one behind a place of which it *)
(* holds, holds of all; S is the set of which it holds.                    *)
LEMMA UpTo ==
    ASSUME NEW m \in Int, NEW n \in Int, NEW S, 0 <= m,
           m <= n => m \in S,
           \A k \in m + 1 .. n : k - 1 \in S => k \in S
    PROVE  m .. n \subseteq S
<1> DEFINE Bad == {k \in m .. n : k \notin S}
<1>1. Bad \subseteq Nat
  OBVIOUS
<1>2. ASSUME Bad # {}
      PROVE  FALSE
  <2>1. \E k \in Bad : \A j \in Bad : k <= j
    <3> HIDE DEF Bad
    <3> QED
      BY <1>1, <1>2, LeastNumber
  <2>2. PICK k \in Bad : \A j \in Bad : k <= j
    BY <2>1
  <2>3. k \in m .. n /\ k \notin S
    OBVIOUS
  <2>4. k # m
    BY <2>3
  <2>5. k - 1 \in m .. n /\ k \in m + 1 .. n /\ ~(k <= k - 1)
    BY <2>3, <2>4
  <2>6. k - 1 \in S
    BY <2>2, <2>5
  <2> QED
    BY <2>3, <2>5, <2>6
<1> QED
  BY <1>2

-----------------------------------------------------------------------------
(* Sums.                                                                   *)

Adds(u, f, n) == u = [i \in 0 .. n |-> IF i = 0 THEN 0 ELSE u[i - 1] + f[i]]

(* There are partial sums up to every n.                                   *)
LEMMA PartialSums ==
    ASSUME NEW n \in Nat, NEW f
    PROVE  \E u : Adds(u, f, n)
<1> DEFINE S == {k \in 0 .. n : \E u : Adds(u, f, k)}
<1>1. 0 \in S
  <2> DEFINE u == [i \in 0 .. 0 |-> 0]
  <2>1. u = [i \in 0 .. 0 |-> IF i = 0 THEN 0 ELSE u[i - 1] + f[i]]
    OBVIOUS
  <2>2. Adds(u, f, 0)
    BY <2>1 DEF Adds
  <2> QED
    BY <2>2
<1>2. ASSUME NEW k \in 0 + 1 .. n, k - 1 \in S
      PROVE  k \in S
  <2>1. PICK u : Adds(u, f, k - 1)
    BY <1>2
  <2>2. k \in 1 .. n /\ k - 1 \in Nat
    OBVIOUS
  <2> DEFINE v == [i \in 0 .. k |-> IF i = k THEN u[k - 1] + f[k] ELSE u[i]]
  <2>3. ASSUME NEW i \in 0 .. k
        PROVE  v[i] = IF i = 0 THEN 0 ELSE v[i - 1] + f[i]
    <3>1. CASE i = k
      BY <3>1, <2>2
    <3>2. CASE i # k
      <4>1. i \in 0 .. k - 1 /\ v[i] = u[i]
        BY <3>2, <2>2
      <4>2. u[i] = IF i = 0 THEN 0 ELSE u[i - 1] + f[i]
        BY <4>1, <2>1 DEF Adds
      <4>3. i # 0 => v[i - 1] = u[i - 1]
        BY <4>1, <2>2
      <4> QED
        BY <4>1, <4>2, <4>3
    <3> QED
      BY <3>1, <3>2
  <2>4. v = [i \in 0 .. k |-> v[i]]
    OBVIOUS
  <2>5. Adds(v, f, k)
    <3> HIDE DEF v
    <3> QED
      BY <2>3, <2>4 DEF Adds
  <2> QED
    BY <2>2, <2>5
<1>3. 0 .. n \subseteq S
  <2> HIDE DEF S
  <2> QED
    BY <1>1, <1>2, UpTo
<1>4. n \in S
  BY <1>3
<1> QED
  BY <1>4

(* Two of them agree as far as both go.                                    *)
LEMMA PartialSumsAgree ==
    ASSUME NEW n \in Nat, NEW m \in Nat, m <= n, NEW f,
           NEW u, Adds(u, f, n), NEW v, Adds(v, f, m)
    PROVE  \A i \in 0 .. m : u[i] = v[i]
<1> DEFINE S == {i \in 0 .. m : u[i] = v[i]}
<1>0. /\ \A i \in 0 .. n : u[i] = IF i = 0 THEN 0 ELSE u[i - 1] + f[i]
      /\ \A i \in 0 .. m : v[i] = IF i = 0 THEN 0 ELSE v[i - 1] + f[i]
  BY DEF Adds
<1>1. 0 \in S
  BY <1>0
<1>2. ASSUME NEW k \in 0 + 1 .. m, k - 1 \in S
      PROVE  k \in S
  BY <1>0, <1>2
<1>3. 0 .. m \subseteq S
  <2> HIDE DEF S
  <2> QED
    BY <1>1, <1>2, UpTo
<1> QED
  BY <1>3

LEMMA SumIsPartial ==
    ASSUME NEW n \in Nat, NEW f
    PROVE  \E u : Adds(u, f, n) /\ Sum(f, n) = u[n]
<1> DEFINE u == CHOOSE u : Adds(u, f, n)
<1>1. Adds(u, f, n)
  BY PartialSums
<1>2. Sum(f, n) = u[n]
  BY DEF Sum, Adds
<1> QED
  BY <1>1, <1>2

(* What Sum does: it adds one summand after the other.                     *)
LEMMA SumStep ==
    ASSUME NEW f
    PROVE  /\ Sum(f, 0) = 0
           /\ \A n \in Nat \ {0} : Sum(f, n) = Sum(f, n - 1) + f[n]
<1>1. Sum(f, 0) = 0
  <2>1. PICK u : Adds(u, f, 0) /\ Sum(f, 0) = u[0]
    BY SumIsPartial
  <2> QED
    BY <2>1 DEF Adds
<1>2. ASSUME NEW n \in Nat \ {0}
      PROVE  Sum(f, n) = Sum(f, n - 1) + f[n]
  <2>1. PICK u : Adds(u, f, n) /\ Sum(f, n) = u[n]
    BY SumIsPartial
  <2>2. n - 1 \in Nat /\ n - 1 <= n /\ n \in Nat
    OBVIOUS
  <2>3. PICK v : Adds(v, f, n - 1) /\ Sum(f, n - 1) = v[n - 1]
    BY <2>2, SumIsPartial
  <2>4. u[n - 1] = v[n - 1]
    BY <2>1, <2>2, <2>3, PartialSumsAgree
  <2>5. u[n] = u[n - 1] + f[n]
    BY <2>1 DEF Adds
  <2> QED
    BY <2>1, <2>3, <2>4, <2>5
<1> QED
  BY <1>1, <1>2

(* A sum of natural numbers is one, and grows with the number of summands. *)
LEMMA SumNat ==
    ASSUME NEW m \in Nat, NEW f, \A i \in 1 .. m : f[i] \in Nat
    PROVE  \A n \in 0 .. m : Sum(f, n) \in Nat
<1> DEFINE S == {n \in 0 .. m : Sum(f, n) \in Nat}
<1>1. 0 \in S
  BY SumStep
<1>2. ASSUME NEW k \in 0 + 1 .. m, k - 1 \in S
      PROVE  k \in S
  <2>1. Sum(f, k) = Sum(f, k - 1) + f[k] /\ f[k] \in Nat
    BY SumStep
  <2> QED
    BY <1>2, <2>1
<1>3. 0 .. m \subseteq S
  <2> HIDE DEF S
  <2> QED
    BY <1>1, <1>2, UpTo
<1> QED
  BY <1>3

LEMMA SumGrows ==
    ASSUME NEW m \in Nat, NEW f, \A i \in 1 .. m : f[i] \in Nat,
           NEW j \in 0 .. m
    PROVE  \A k \in j .. m : Sum(f, j) <= Sum(f, k)
<1> DEFINE S == {k \in j .. m : Sum(f, j) <= Sum(f, k)}
<1>0. \A k \in 0 .. m : Sum(f, k) \in Nat
  BY SumNat
<1>1. j \in S
  BY <1>0
<1>2. ASSUME NEW k \in j + 1 .. m, k - 1 \in S
      PROVE  k \in S
  <2>1. Sum(f, k) = Sum(f, k - 1) + f[k] /\ f[k] \in Nat
    BY SumStep
  <2> QED
    BY <1>0, <1>2, <2>1
<1>3. j .. m \subseteq S
  <2> HIDE DEF S
  <2> QED
    BY <1>1, <1>2, UpTo
<1> QED
  BY <1>3

-----------------------------------------------------------------------------
(* The layout of the values.                                               *)

LEMMA SlavesFact ==
    /\ Slaves \in Seq(Seq(Register)) /\ Slaves # <<>>
    /\ Len(Slaves) \in Nat \ {0} /\ Ids = 1 .. Len(Slaves)
    /\ Before \in Nat /\ MaxTroubles \in Nat /\ MaxWrites \in Nat /\ MaxBehind \in Nat
    /\ \A s \in Ids : /\ Slaves[s] \in Seq(Register) /\ Slaves[s] # <<>>
                      /\ Len(Slaves[s]) \in Nat \ {0}
                      /\ DOMAIN Slaves[s] = 1 .. Len(Slaves[s])
<1>1. Slaves \in Seq(Seq(Register)) /\ Slaves # <<>> /\ \A s \in Ids : Slaves[s] # <<>>
  BY ChannelAssumption
<1>2. Len(Slaves) \in Nat \ {0} /\ Ids = 1 .. Len(Slaves)
  BY <1>1, EmptySeq, LenProperties DEF Ids
<1>3. \A s \in Ids : Slaves[s] \in Seq(Register)
  BY <1>1, <1>2, ElementOfSeq
<1>4. \A s \in Ids : Len(Slaves[s]) \in Nat \ {0} /\ DOMAIN Slaves[s] = 1 .. Len(Slaves[s])
  BY <1>1, <1>3, EmptySeq, LenProperties
<1> QED
  BY <1>1, <1>2, <1>3, <1>4, ChannelAssumption

LEMMA WordsFact ==
    ASSUME NEW s \in Ids
    PROVE  \A i \in 1 .. Len(Slaves[s]) :
             /\ Slaves[s][i] \in Register
             /\ Words(Slaves[s])[i] = Slaves[s][i].num /\ Words(Slaves[s])[i] \in Nat \ {0}
<1>1. \A i \in 1 .. Len(Slaves[s]) : Slaves[s][i] \in Register
  BY SlavesFact, ElementOfSeq
<1> QED
  BY <1>1, SlavesFact DEF Words, Register

(* The registers of a slave lie one behind the other.                      *)
LEMMA BytesFact ==
    ASSUME NEW s \in Ids
    PROVE  /\ Bytes(Slaves[s]) \in Nat
           /\ BytesBefore(Slaves[s], 1) = 0
           /\ \A i \in 1 .. Len(Slaves[s]) + 1 : BytesBefore(Slaves[s], i) \in Nat
           /\ \A i \in 1 .. Len(Slaves[s]) :
                BytesBefore(Slaves[s], i + 1) = BytesBefore(Slaves[s], i) + 2 * Slaves[s][i].num
           /\ \A i, j \in 1 .. Len(Slaves[s]) + 1 :
                i <= j => BytesBefore(Slaves[s], i) <= BytesBefore(Slaves[s], j)
<1> DEFINE n == Len(Slaves[s])
           w == Words(Slaves[s])
<1>0. n \in Nat /\ n + 1 \in 1 .. n + 1
  BY SlavesFact
<1>1. \A i \in 1 .. n : w[i] = Slaves[s][i].num /\ w[i] \in Nat
  BY WordsFact
<1>2. \A i \in 0 .. n : Sum(w, i) \in Nat
  <2> HIDE DEF w, n
  <2> QED
    BY <1>0, <1>1, SumNat
<1>3. Sum(w, 0) = 0 /\ \A i \in 1 .. n : Sum(w, i) = Sum(w, i - 1) + w[i]
  <2> HIDE DEF w, n
  <2> QED
    BY <1>0, SumStep
<1>4. \A i, j \in 0 .. n : i <= j => Sum(w, i) <= Sum(w, j)
  <2> HIDE DEF w, n
  <2> SUFFICES ASSUME NEW i \in 0 .. n, NEW j \in 0 .. n, i <= j
               PROVE  Sum(w, i) <= Sum(w, j)
    OBVIOUS
  <2>1. \A k \in i .. n : Sum(w, i) <= Sum(w, k)
    BY <1>0, <1>1, SumGrows
  <2> QED
    BY <2>1, <1>0
<1> HIDE DEF w
<1>5. \A i \in 1 .. n + 1 : BytesBefore(Slaves[s], i) = 2 * Sum(w, i - 1) /\ i - 1 \in 0 .. n
  BY <1>0 DEF BytesBefore, w
<1>6. \A i \in 1 .. n + 1 : BytesBefore(Slaves[s], i) \in Nat
  <2> HIDE DEF n
  <2> QED
    BY <1>0, <1>2, <1>5
<1>7. BytesBefore(Slaves[s], 1) = 0
  BY <1>0, <1>3, <1>5
<1>8. \A i \in 1 .. n :
        BytesBefore(Slaves[s], i + 1) = BytesBefore(Slaves[s], i) + 2 * Slaves[s][i].num
  <2> HIDE DEF n
  <2> SUFFICES ASSUME NEW i \in 1 .. n
               PROVE  BytesBefore(Slaves[s], i + 1)
                        = BytesBefore(Slaves[s], i) + 2 * Slaves[s][i].num
    OBVIOUS
  <2>1. i + 1 \in 1 .. n + 1 /\ i \in 1 .. n + 1 /\ (i + 1) - 1 = i
    BY <1>0
  <2>2. /\ BytesBefore(Slaves[s], i + 1) = 2 * Sum(w, i)
        /\ BytesBefore(Slaves[s], i) = 2 * Sum(w, i - 1)
    BY <1>5, <2>1
  <2>3. Sum(w, i) = Sum(w, i - 1) + w[i] /\ w[i] = Slaves[s][i].num /\ w[i] \in Nat
    BY <1>1, <1>3
  <2>4. Sum(w, i - 1) \in Nat
    BY <1>0, <1>2
  <2> QED
    BY <2>2, <2>3, <2>4
<1>9. \A i, j \in 1 .. n + 1 :
        i <= j => BytesBefore(Slaves[s], i) <= BytesBefore(Slaves[s], j)
  <2> HIDE DEF n
  <2> SUFFICES ASSUME NEW i \in 1 .. n + 1, NEW j \in 1 .. n + 1, i <= j
               PROVE  BytesBefore(Slaves[s], i) <= BytesBefore(Slaves[s], j)
    OBVIOUS
  <2>1. i - 1 \in 0 .. n /\ j - 1 \in 0 .. n /\ i - 1 <= j - 1
    BY <1>0
  <2>2. Sum(w, i - 1) <= Sum(w, j - 1) /\ Sum(w, i - 1) \in Nat /\ Sum(w, j - 1) \in Nat
    BY <1>2, <1>4, <2>1
  <2> QED
    BY <1>5, <2>2
<1>10. Bytes(Slaves[s]) \in Nat
  BY <1>0, <1>6 DEF Bytes
<1> QED
  BY <1>6, <1>7, <1>8, <1>9, <1>10

(* The slaves lie one behind the other.                                    *)
LEMMA SlavesBeforeFact ==
    /\ \A s \in 1 .. Len(Slaves) + 1 : SlavesBefore(s) \in Nat
    /\ SlavesBefore(1) = 2 * Before
    /\ \A s \in Ids : SlavesBefore(s + 1) = SlavesBefore(s) + Bytes(Slaves[s])
    /\ \A s, t \in 1 .. Len(Slaves) + 1 : s <= t => SlavesBefore(s) <= SlavesBefore(t)
    /\ Total \in Nat /\ \A s \in 1 .. Len(Slaves) + 1 : SlavesBefore(s) \in 2 * Before .. Total
<1> DEFINE n == Len(Slaves)
           b == [t \in Ids |-> Bytes(Slaves[t])]
<1>0. n \in Nat /\ n + 1 \in 1 .. n + 1 /\ 1 \in 1 .. n + 1 /\ Ids = 1 .. n /\ Before \in Nat
  BY SlavesFact
<1>1. \A i \in 1 .. n : b[i] = Bytes(Slaves[i]) /\ b[i] \in Nat
  BY <1>0, BytesFact
<1>2. \A i \in 0 .. n : Sum(b, i) \in Nat
  <2> HIDE DEF b, n
  <2> QED
    BY <1>0, <1>1, SumNat
<1>3. Sum(b, 0) = 0 /\ \A i \in 1 .. n : Sum(b, i) = Sum(b, i - 1) + b[i]
  <2> HIDE DEF b, n
  <2> QED
    BY <1>0, SumStep
<1>4. \A i, j \in 0 .. n : i <= j => Sum(b, i) <= Sum(b, j)
  <2> HIDE DEF b, n
  <2> SUFFICES ASSUME NEW i \in 0 .. n, NEW j \in 0 .. n, i <= j
               PROVE  Sum(b, i) <= Sum(b, j)
    OBVIOUS
  <2>1. \A k \in i .. n : Sum(b, i) <= Sum(b, k)
    BY <1>0, <1>1, SumGrows
  <2> QED
    BY <2>1, <1>0
<1>5. \A s \in 1 .. n + 1 : SlavesBefore(s) = 2 * Before + Sum(b, s - 1) /\ s - 1 \in 0 .. n
  BY <1>0 DEF SlavesBefore
<1> HIDE DEF b, n
<1>6. \A s \in 1 .. n + 1 : SlavesBefore(s) \in Nat
  BY <1>0, <1>2, <1>5
<1>7. SlavesBefore(1) = 2 * Before
  BY <1>0, <1>3, <1>5
<1>8. \A s \in 1 .. n : SlavesBefore(s + 1) = SlavesBefore(s) + Bytes(Slaves[s])
  <2> SUFFICES ASSUME NEW s \in 1 .. n
               PROVE  SlavesBefore(s + 1) = SlavesBefore(s) + Bytes(Slaves[s])
    OBVIOUS
  <2>1. s + 1 \in 1 .. n + 1 /\ s \in 1 .. n + 1 /\ (s + 1) - 1 = s /\ s - 1 \in 0 .. n
    BY <1>0
  <2>2. /\ SlavesBefore(s + 1) = 2 * Before + Sum(b, s)
        /\ SlavesBefore(s) = 2 * Before + Sum(b, s - 1)
    BY <1>5, <2>1
  <2>3. Sum(b, s) = Sum(b, s - 1) + b[s] /\ b[s] = Bytes(Slaves[s]) /\ b[s] \in Nat
    BY <1>1, <1>3
  <2> QED
    BY <1>0, <1>2, <2>1, <2>2, <2>3
<1>9. \A s, t \in 1 .. n + 1 : s <= t => SlavesBefore(s) <= SlavesBefore(t)
  <2> SUFFICES ASSUME NEW s \in 1 .. n + 1, NEW t \in 1 .. n + 1, s <= t
               PROVE  SlavesBefore(s) <= SlavesBefore(t)
    OBVIOUS
  <2>1. s - 1 \in 0 .. n /\ t - 1 \in 0 .. n /\ s - 1 <= t - 1
    BY <1>0
  <2> QED
    BY <1>0, <1>2, <1>4, <1>5, <2>1
<1>10. Total \in Nat /\ \A s \in 1 .. n + 1 : SlavesBefore(s) \in 2 * Before .. Total
  <2>1. Total = SlavesBefore(n + 1)
    BY DEF Total, n
  <2>2. \A s \in 1 .. n + 1 : SlavesBefore(1) <= SlavesBefore(s)
    BY <1>0, <1>9
  <2>3. \A s \in 1 .. n + 1 : SlavesBefore(s) <= SlavesBefore(n + 1)
    BY <1>0, <1>9
  <2> QED
    BY <1>0, <1>6, <1>7, <2>1, <2>2, <2>3
<1> QED
  BY <1>0, <1>6, <1>7, <1>8, <1>9, <1>10 DEF n

-----------------------------------------------------------------------------
(* The types, and where a round has come: u16Offset never lies behind the  *)
(* place of the slave that is asked, and exactly at it while no request of *)
(* the task has failed.                                                    *)

OffsetBehind ==
    poll.pc # "sleep" =>
        /\ poll.off <= SlavesBefore(poll.s)
        /\ "failed" \notin trouble => poll.off = SlavesBefore(poll.s)

(* The owner of the mutex is the one whose request is under way.           *)
Owner ==
    /\ mutex = "poll" <=> poll.pc = "sent"
    /\ mutex = "worker" <=> worker.pc = "sent" /\ Locks(worker.kind)

(* On an orderly line there is at most one answer, that of the owner of    *)
(* the mutex to the request that is under way.                             *)
Mine(f) == f.type = "damaged" \/ (f = Answer(worker.kind, worker.s) /\ executed)

OneAnswer ==
    Orderly =>
        /\ late = <<>> /\ ~input.cut
        /\ worker.pc # "idle" => worker.kind # "scattered" /\ "done" \notin told
        /\ mutex = Nobody => input.answers = <<>>
        /\ poll.pc = "sent" /\ input.answers # <<>> =>
               \E f \in Answers : /\ input.answers = <<f>> /\ f.type \in {"read", "damaged"}
                                  /\ f.from = poll.s
        /\ worker.pc = "sent" /\ input.answers # <<>> =>
               \E f \in Answers : input.answers = <<f>> /\ Mine(f)

IInv == TypeOK /\ OffsetBehind /\ Owner /\ OneAnswer /\ WriteTruth

Inputs == [answers : Seq(Answers), cut : BOOLEAN]

(* What a read leaves in the UART are answers again.                       *)
LEMMA ResponsesTyped ==
    ASSUME NEW in \in Inputs, NEW r \in Responses(in)
    PROVE  r.rest \in Inputs
<1> DEFINE f == Head(in.answers)
<1>0. in.answers \in Seq(Answers) /\ Len(in.answers) \in Nat
  BY LenProperties DEF Inputs
<1>1. \A k \in 1 .. Len(in.answers) + 1 : Whole(in, k) \in Inputs /\ Torn(in, k) \in Inputs
  <2> SUFFICES ASSUME NEW k \in 1 .. Len(in.answers) + 1
               PROVE  Whole(in, k) \in Inputs /\ Torn(in, k) \in Inputs
    OBVIOUS
  <2>1. k \in 1 .. Len(in.answers) + 1 /\ Len(in.answers) \in 0 .. Len(in.answers)
    BY <1>0
  <2>2. SubSeq(in.answers, k, Len(in.answers)) \in Seq(Answers)
    BY <1>0, <2>1, SubSeqProperties
  <2> QED
    BY <2>2 DEF Inputs, Whole, Torn, From
<1>2. CASE in.answers = <<>>
  BY <1>2 DEF Responses, Failed
<1>3. CASE in.answers # <<>>
  <2>0. Len(in.answers) \in Nat \ {0} /\ 1 \in 1 .. Len(in.answers) + 1
        /\ 2 \in 1 .. Len(in.answers) + 1
    BY <1>0, <1>3, EmptySeq
  <2>1. CASE in.cut \/ f.type = "garbled"
    <3> DEFINE rests == {Torn(in, 1) : k \in Len(in.answers) .. MaxBehind}
                        \cup {Torn(in, k) : k \in 2 .. Len(in.answers)}
                        \cup {Whole(in, k) : k \in 2 .. Len(in.answers) + 1}
    <3>1. Responses(in) = Failed(rests)
      BY <2>1, <1>3 DEF Responses
    <3>2. \A k \in 2 .. Len(in.answers) + 1 : k \in 1 .. Len(in.answers) + 1
      BY <2>0
    <3>3. \A k \in 2 .. Len(in.answers) : k \in 1 .. Len(in.answers) + 1
      BY <2>0
    <3>4. rests \subseteq Inputs
      BY <1>1, <3>2, <3>3, <2>0
    <3> QED
      <4> HIDE DEF rests
      <4> QED
        BY <3>1, <3>4 DEF Failed
  <2>2. CASE ~(in.cut \/ f.type = "garbled")
    <3>1. CASE f.type = "exception"
      <4>1. Responses(in) = Failed({Torn(in, 1)})
        BY <2>2, <1>3, <3>1 DEF Responses
      <4>2. r.rest \in {Torn(in, 1), Whole(in, 2)}
        BY <4>1 DEF Failed
      <4> QED
        BY <1>1, <4>2, <2>0
    <3>2. CASE f.type = "damaged"
      <4>1. Responses(in) = Failed({Whole(in, 2)})
        BY <2>2, <1>3, <3>2 DEF Responses
      <4>2. r.rest \in {Torn(in, 1), Whole(in, 2)}
        BY <4>1 DEF Failed
      <4> QED
        BY <1>1, <4>2, <2>0
    <3>3. CASE f.type \notin {"exception", "damaged"}
      <4>1. Responses(in) =
              {[got |-> [len |-> IF f.type = "read" THEN DataBytes(f) ELSE 8, answer |-> f],
                rest |-> Whole(in, 2)]}
        BY <2>2, <1>3, <3>3 DEF Responses
      <4>2. r.rest = Whole(in, 2)
        BY <4>1
      <4> QED
        BY <1>1, <4>2, <2>0
    <3> QED
      BY <3>1, <3>2, <3>3
  <2> QED
    BY <2>1, <2>2
<1> QED
  BY <1>2, <1>3

(* Of an orderly input all is read, and what is got was in it.             *)
Some(got) == got.len > 0 \/ got.len >= 7

LEMMA OrderlyResponse ==
    ASSUME NEW in \in Inputs, NEW r \in Responses(in), ~in.cut,
           in.answers # <<>> => \E f \in Answers :
                /\ in.answers = <<f>>
                /\ f.type \notin {"exception", "garbled"}
    PROVE  /\ r.rest.answers = <<>> /\ ~r.rest.cut
           /\ Some(r.got) => /\ in.answers # <<>> /\ in.answers = <<r.got.answer>>
                             /\ r.got.answer.type # "damaged"
<1>1. CASE in.answers = <<>>
  BY <1>1 DEF Responses, Nothing, Failed, Some
<1>2. CASE in.answers # <<>>
  <2>1. PICK f \in Answers : in.answers = <<f>> /\ f.type \notin {"exception", "garbled"}
    BY <1>2
  <2>2. Head(in.answers) = f /\ Len(in.answers) = 1
    BY <2>1
  <2>3. Whole(in, 2).answers = <<>> /\ ~Whole(in, 2).cut
    <3>1. SubSeq(in.answers, 2, 1) = <<>>
      BY <2>1
    <3> QED
      BY <2>2, <3>1 DEF Whole, From
  <2>4. CASE f.type = "damaged"
    <3>1. Responses(in) = Failed({Whole(in, 2)})
      BY <1>2, <2>1, <2>2, <2>4 DEF Responses
    <3>2. r = [got |-> Nothing, rest |-> Whole(in, 2)]
      BY <3>1 DEF Failed
    <3>3. ~Some(r.got)
      BY <3>2 DEF Nothing, Some
    <3> QED
      BY <3>2, <3>3, <2>3
  <2>5. CASE f.type # "damaged"
    <3>0. Responses(in) =
            {[got |-> [len |-> IF f.type = "read" THEN DataBytes(f) ELSE 8, answer |-> f],
              rest |-> Whole(in, 2)]}
      BY <1>2, <2>1, <2>2, <2>5 DEF Responses
    <3>1. r.rest = Whole(in, 2) /\ r.got.answer = f
      BY <3>0
    <3> QED
      BY <3>1, <2>1, <2>3, <2>5, <1>2
  <2> QED
    BY <2>4, <2>5
<1> QED
  BY <1>1, <1>2

-----------------------------------------------------------------------------
(* The type invariant and the offset.                                      *)

Wrongs == {"late", "exception", "damaged", "garbled", "lost", "failed", "unlocked"}
Hows == {"exception", "damaged", "garbled"}

(* What may become of an answer keeps the types of the line.               *)
OnLine(f) == \/ Prompt(f) \/ Delayed(f) \/ Lost
             \/ \E how \in Hows : Changed(f, how)

LEMMA LineTyped ==
    ASSUME TypeOK, NEW f \in Answers, OnLine(f)
    PROVE  /\ input' \in Inputs /\ late' \in Seq(Answers)
           /\ trouble' \subseteq Wrongs /\ troubles' \in 0 .. MaxTroubles
           /\ trouble \subseteq trouble'
<1> USE SlavesFact DEF TypeOK, Wrongs, Hows
<1>1. CASE Prompt(f)
  BY <1>1, AppendProperties DEF Prompt, Received, Inputs
<1>2. CASE Delayed(f)
  BY <1>2, AppendProperties DEF Delayed, Goes, Inputs
<1>3. CASE Lost
  BY <1>3 DEF Lost, Goes, Inputs
<1>4. ASSUME NEW how \in Hows, Changed(f, how)
      PROVE  /\ input' \in Inputs /\ late' \in Seq(Answers)
             /\ trouble' \subseteq Wrongs /\ troubles' \in 0 .. MaxTroubles
             /\ trouble \subseteq trouble'
  <2>1. Answer(how, f.from) \in Answers
    BY <1>4 DEF Answer, Answers
  <2>2. Append(input.answers, Answer(how, f.from)) \in Seq(Answers)
    BY <2>1, AppendProperties
  <2>3. input' = [input EXCEPT !.answers = Append(@, Answer(how, f.from))]
    BY <1>4 DEF Changed, Received
  <2>4. input' \in Inputs
    BY <2>2, <2>3 DEF Inputs
  <2> QED
    BY <1>4, <2>4 DEF Changed, Goes
<1> QED
  BY <1>1, <1>2, <1>3, <1>4 DEF OnLine

LEMMA AnswerTyped ==
    ASSUME NEW s \in Ids
    PROVE  Answer("read", s) \in Answers /\ \A kind \in Writes : Answer(kind, s) \in Answers
BY DEF Answer, Answers, Writes

Polls == [pc : {"sleep", "lock", "sent"}, s : Ids, off : 2 * Before .. Total]

(* The next slave lies behind the one that was asked.                      *)
LEMMA NextTyped ==
    ASSUME TypeOK, OffsetBehind, poll.pc # "sleep",
           NEW off, off \in {poll.off, Behind(poll.off, Slaves[poll.s], 0)},
           NextSlave(off)
    PROVE  poll' \in Polls
           /\ (poll'.pc # "sleep" =>
                 /\ poll'.off <= SlavesBefore(poll'.s)
                 /\ "failed" \notin trouble /\ off = Behind(poll.off, Slaves[poll.s], 0) =>
                      poll'.off = SlavesBefore(poll'.s))
<1> USE SlavesFact
<1>1. poll \in Polls /\ poll.s \in 1 .. Len(Slaves) /\ poll.off \in 2 * Before .. Total
      /\ 2 * Before \in Nat
  BY DEF TypeOK, Polls
<1>2. Bytes(Slaves[poll.s]) \in Nat /\ Behind(poll.off, Slaves[poll.s], 0) = poll.off + Bytes(Slaves[poll.s])
  BY <1>1, BytesFact DEF Behind
<1>3. poll.s + 1 \in 1 .. Len(Slaves) + 1
      /\ SlavesBefore(poll.s + 1) = SlavesBefore(poll.s) + Bytes(Slaves[poll.s])
      /\ SlavesBefore(poll.s + 1) \in 2 * Before .. Total /\ SlavesBefore(poll.s) \in Nat /\ Total \in Nat
  <2>1. /\ poll.s \in Ids /\ poll.s \in 1 .. Len(Slaves) + 1
        /\ poll.s + 1 \in 1 .. Len(Slaves) + 1
    BY <1>1
  <2> HIDE SlavesFact
  <2> QED
    BY <2>1, SlavesBeforeFact
<1>4. poll.off <= SlavesBefore(poll.s)
      /\ ("failed" \notin trouble => poll.off = SlavesBefore(poll.s))
  BY DEF OffsetBehind
<1>5. off \in 2 * Before .. Total /\ off <= SlavesBefore(poll.s + 1)
      /\ ("failed" \notin trouble /\ off = poll.off + Bytes(Slaves[poll.s])
            => off = SlavesBefore(poll.s + 1))
  <2> HIDE SlavesFact
  <2>0. /\ off \in {poll.off, poll.off + Bytes(Slaves[poll.s])} /\ poll.off \in Nat
        /\ 2 * Before <= poll.off
    BY <1>1, <1>2
  <2>1. off \in Nat /\ poll.off <= off /\ off <= poll.off + Bytes(Slaves[poll.s])
    BY <1>2, <2>0
  <2>2. poll.off + Bytes(Slaves[poll.s]) <= SlavesBefore(poll.s + 1)
    BY <1>2, <1>3, <1>4, <2>0
  <2>3. off <= SlavesBefore(poll.s + 1)
    BY <1>2, <1>3, <2>0, <2>1, <2>2
  <2>4. off \in 2 * Before .. Total
    BY <1>1, <1>3, <2>0, <2>1, <2>3
  <2> QED
    BY <1>3, <1>4, <2>3, <2>4
<1>6. CASE poll.s = Len(Slaves)
  BY <1>1, <1>5, <1>6 DEF NextSlave, Polls
<1>7. CASE poll.s # Len(Slaves)
  <2>1. poll' = [pc |-> "lock", s |-> poll.s + 1, off |-> off]
    BY <1>7 DEF NextSlave
  <2>2. poll.s + 1 \in Ids
    <3> HIDE SlavesFact
    <3>1. Len(Slaves) \in Nat /\ Ids = 1 .. Len(Slaves)
      BY SlavesFact
    <3> QED
      BY <1>1, <1>7, <3>1
  <2> QED
    BY <1>2, <1>5, <2>1, <2>2 DEF Polls
<1> QED
  BY <1>6, <1>7

LEMMA StoreDomain ==
    ASSUME NEW s, NEW off, NEW f
    PROVE  DOMAIN Store(s, off, f) = DOMAIN pData
BY DEF Store

LEMMA TypeStep ==
    TypeOK /\ OffsetBehind /\ [Next]_vars => TypeOK' /\ OffsetBehind'
<1> SUFFICES ASSUME TypeOK, OffsetBehind, [Next]_vars
             PROVE  TypeOK' /\ OffsetBehind'
  OBVIOUS
<1> USE SlavesFact
<1>0. /\ poll \in Polls /\ worker \in [pc : {"idle", "lock", "sent"}, kind : Writes, s : Ids]
      /\ input \in Inputs /\ late \in Seq(Answers) /\ trouble \subseteq Wrongs
      /\ troubles \in 0 .. MaxTroubles
  BY DEF TypeOK, Polls, Inputs, Wrongs
<1>1. CASE StartRound
  <2>1. poll' = [pc |-> "lock", s |-> 1, off |-> 2 * Before] /\ 1 \in Ids
        /\ 2 * Before = SlavesBefore(1) /\ 2 * Before \in 2 * Before .. Total
        /\ 2 * Before <= 2 * Before
    BY <1>1, SlavesBeforeFact DEF StartRound
  <2> QED
    BY <1>1, <2>1 DEF StartRound, TypeOK, OffsetBehind, line
<1>2. CASE Request
  <2>1. OnLine(Answer("read", poll.s)) /\ Answer("read", poll.s) \in Answers
    BY <1>0, <1>2, AnswerTyped DEF Request, OnLine, Polls, Hows
  <2>2. /\ input' \in Inputs /\ late' \in Seq(Answers)
        /\ trouble' \subseteq Wrongs /\ troubles' \in 0 .. MaxTroubles
        /\ trouble \subseteq trouble'
    BY <2>1, LineTyped
  <2>3. poll' = [poll EXCEPT !.pc = "sent"] /\ poll.pc = "lock"
    BY <1>2 DEF Request
  <2>4. poll' \in Polls /\ poll'.s = poll.s /\ poll'.off = poll.off
    BY <1>0, <2>3 DEF Polls
  <2>5. OffsetBehind'
    BY <2>2, <2>3, <2>4 DEF OffsetBehind
  <2>6. TypeOK'
    BY <1>2, <2>2, <2>4 DEF TypeOK, Request, Polls, Inputs, Wrongs
  <2> QED
    BY <2>5, <2>6
<1>3. CASE RequestFails
  <2>1. NextSlave(poll.off) /\ poll.pc # "sleep"
    BY <1>3 DEF RequestFails
  <2>2. poll' \in Polls /\ (poll'.pc # "sleep" => poll'.off <= SlavesBefore(poll'.s))
    BY <2>1, NextTyped
  <2>3. "failed" \in trouble' /\ trouble' \subseteq Wrongs /\ troubles' \in 0 .. MaxTroubles
    BY <1>0, <1>3 DEF RequestFails, Goes, Wrongs
  <2>4. OffsetBehind'
    BY <2>2, <2>3 DEF OffsetBehind
  <2>5. u16Status' \in [Ids -> {0, 1}]
    BY <1>3 DEF RequestFails, TypeOK
  <2>6. TypeOK'
    BY <1>3, <2>2, <2>3, <2>5 DEF TypeOK, RequestFails, Polls, Wrongs
  <2> QED
    BY <2>4, <2>6
<1>4. CASE Response
  <2>1. PICK r \in Responses(input) :
          /\ input' = r.rest
          /\ u16Status' = [u16Status EXCEPT ![poll.s] = IF r.got.len > 0 THEN 1 ELSE 0]
          /\ pData' = IF r.got.len > 0 THEN Store(poll.s, poll.off, r.got.answer) ELSE pData
          /\ NextSlave(Behind(poll.off, Slaves[poll.s], r.got.len))
    BY <1>4 DEF Response
  <2>2. input' \in Inputs
    BY <1>0, <2>1, ResponsesTyped
  <2>3. Behind(poll.off, Slaves[poll.s], r.got.len) = Behind(poll.off, Slaves[poll.s], 0)
    BY DEF Behind
  <2>4. poll.pc # "sleep"
    BY <1>4 DEF Response
  <2>5. poll' \in Polls /\ (poll'.pc # "sleep" =>
                 /\ poll'.off <= SlavesBefore(poll'.s)
                 /\ "failed" \notin trouble => poll'.off = SlavesBefore(poll'.s))
    BY <2>1, <2>3, <2>4, NextTyped
  <2>6. OffsetBehind'
    BY <1>4, <2>5 DEF OffsetBehind, Response
  <2>7. DOMAIN pData' = 0 .. Total - 1
    BY <2>1, StoreDomain DEF TypeOK
  <2>8. u16Status' \in [Ids -> {0, 1}]
    BY <2>1 DEF TypeOK
  <2>9. TypeOK'
    BY <1>4, <2>2, <2>5, <2>7, <2>8 DEF TypeOK, Response, Polls, Inputs
  <2> QED
    BY <2>6, <2>9
<1>5. CASE WriteRequest
  <2>0. worker.kind \in Writes /\ worker.s \in Ids
    BY <1>0
  <2>1. OnLine(Answer(worker.kind, worker.s)) /\ Answer(worker.kind, worker.s) \in Answers
    BY <2>0, <1>5, AnswerTyped DEF WriteRequest, OnLine, Hows
  <2>2. /\ input' \in Inputs /\ late' \in Seq(Answers)
        /\ trouble' \subseteq Wrongs /\ troubles' \in 0 .. MaxTroubles
        /\ trouble \subseteq trouble'
    BY <2>1, LineTyped
  <2>3. executed' \in BOOLEAN
    BY <1>5 DEF WriteRequest, TypeOK
  <2>4. OffsetBehind'
    <3>1. poll' = poll
      BY <1>5 DEF WriteRequest
    <3> QED
      BY <2>2, <3>1 DEF OffsetBehind
  <2>5. mutex' \in {Nobody, "poll", "worker"}
        /\ worker' \in [pc : {"idle", "lock", "sent"}, kind : Writes, s : Ids]
    BY <1>0, <1>5 DEF WriteRequest, TypeOK
  <2>6. TypeOK'
    BY <1>5, <2>2, <2>3, <2>5 DEF TypeOK, WriteRequest, Inputs, Wrongs
  <2> QED
    BY <2>4, <2>6
<1>6. CASE WriteFails
  <2>1. trouble' \subseteq Wrongs /\ troubles' \in 0 .. MaxTroubles
        /\ trouble' = trouble \cup {"failed"}
    BY <1>0, <1>6 DEF WriteFails, Goes, Wrongs
  <2>2. OffsetBehind'
    BY <1>6, <2>1 DEF OffsetBehind, WriteFails
  <2>3. worker' \in [pc : {"idle", "lock", "sent"}, kind : Writes, s : Ids]
    BY <1>0, <1>6 DEF WriteFails
  <2>4. u16Status' \in [Ids -> {0, 1}] /\ mutex' \in {Nobody, "poll", "worker"}
        /\ told' \subseteq {"done", "exception"}
    BY <1>0, <1>6 DEF WriteFails, TypeOK, SetStatus
  <2>5. TypeOK'
    BY <1>6, <2>1, <2>3, <2>4 DEF TypeOK, WriteFails, Wrongs
  <2> QED
    BY <2>2, <2>5
<1>7. CASE WriteResponse
  <2>1. PICK r \in Responses(input) :
          /\ input' = r.rest
          /\ told' = told \cup Outcome(worker.kind, r.got)
          /\ CASE worker.kind = "register"  -> UNCHANGED u16Status
               [] worker.kind = "scattered" -> SetStatus(IF r.got.len > 0 THEN 0 ELSE 1)
               [] OTHER                     -> SetStatus(IF r.got.len > 0 THEN 1 ELSE 0)
    BY <1>7 DEF WriteResponse
  <2>2. input' \in Inputs
    BY <1>0, <2>1, ResponsesTyped
  <2>3. Outcome(worker.kind, r.got) \subseteq {"done", "exception"}
    BY <1>0 DEF Outcome, Writes
  <2>4. u16Status' \in [Ids -> {0, 1}]
    BY <1>0, <2>1 DEF TypeOK, SetStatus
  <2>5. worker' \in [pc : {"idle", "lock", "sent"}, kind : Writes, s : Ids]
        /\ mutex' \in {Nobody, "poll", "worker"}
    BY <1>0, <1>7 DEF WriteResponse, TypeOK
  <2>6. OffsetBehind'
    BY <1>7 DEF OffsetBehind, WriteResponse
  <2>7. TypeOK'
    BY <1>7, <2>1, <2>2, <2>3, <2>4, <2>5 DEF TypeOK, WriteResponse, Inputs
  <2> QED
    BY <2>6, <2>7
<1>8. ASSUME NEW s \in Ids, NEW kind \in Writes, Command(s, kind)
      PROVE  TypeOK' /\ OffsetBehind'
  <2>1. trouble' \subseteq Wrongs /\ trouble \subseteq trouble'
    BY <1>0, <1>8 DEF Command, Wrongs
  <2>2. OffsetBehind'
    BY <1>8, <2>1 DEF OffsetBehind, Command
  <2>3. writes' \in 0 .. MaxWrites
    BY <1>8 DEF Command, TypeOK
  <2>4. TypeOK'
    BY <1>8, <2>1, <2>3 DEF TypeOK, Command, Wrongs
  <2> QED
    BY <2>2, <2>4
<1>9. CASE Arrive
  <2>1. Head(late) \in Answers /\ Tail(late) \in Seq(Answers)
    BY <1>0, <1>9, HeadTailProperties DEF Arrive
  <2>2. input' \in Inputs /\ late' \in Seq(Answers)
    BY <1>0, <1>9, <2>1, AppendProperties DEF Arrive, Received, Inputs
  <2>3. OffsetBehind'
    BY <1>9 DEF OffsetBehind, Arrive
  <2>4. TypeOK'
    BY <1>9, <2>2 DEF TypeOK, Arrive, Inputs
  <2> QED
    BY <2>3, <2>4
<1>10. CASE UNCHANGED vars
  BY <1>10 DEF vars, line, TypeOK, OffsetBehind
<1> QED
  BY <1>1, <1>2, <1>3, <1>4, <1>5, <1>6, <1>7, <1>8, <1>9, <1>10
     DEF Next, ChannelTask, Worker, Client

-----------------------------------------------------------------------------
(* The mutex and the one answer.                                           *)

(* What an orderly line makes of a request whose answer is f: nothing comes *)
(* before or behind its answer.                                            *)
LEMMA OrderlyRequest ==
    ASSUME NEW f, OnLine(f), Orderly',
           input \in Inputs, input.answers = <<>>, ~input.cut, late = <<>>
    PROVE  /\ late' = <<>> /\ input' \in [answers : {<<>>, <<f>>, <<Answer("damaged", f.from)>>},
                                          cut : {FALSE}]
<1>0. \A g : Append(<<>>, g) = <<g>>
  OBVIOUS
<1>1. CASE Prompt(f)
  BY <1>0, <1>1 DEF Prompt, Received, Inputs
<1>2. CASE Delayed(f)
  BY <1>2 DEF Delayed, Goes, Orderly
<1>3. CASE Lost
  BY <1>3 DEF Lost, Inputs
<1>4. ASSUME NEW how \in Hows, Changed(f, how)
      PROVE  /\ late' = <<>>
             /\ input' \in [answers : {<<>>, <<f>>, <<Answer("damaged", f.from)>>}, cut : {FALSE}]
  <2>1. how = "damaged"
    BY <1>4 DEF Changed, Goes, Orderly, Hows
  <2> QED
    BY <1>0, <1>4, <2>1 DEF Changed, Received, Inputs
<1> QED
  BY <1>1, <1>2, <1>3, <1>4 DEF OnLine

(* What went wrong on a line is never forgotten.                           *)
LEMMA TroubleStays ==
    ASSUME TypeOK, [Next]_vars
    PROVE  trouble \subseteq trouble'
<1>1. CASE Request
  <2>1. OnLine(Answer("read", poll.s)) /\ Answer("read", poll.s) \in Answers
    BY <1>1, AnswerTyped DEF Request, OnLine, TypeOK, Hows
  <2> QED
    BY <2>1, LineTyped
<1>2. CASE WriteRequest
  <2>1. /\ OnLine(Answer(worker.kind, worker.s))
        /\ Answer(worker.kind, worker.s) \in Answers
    BY <1>2, AnswerTyped DEF WriteRequest, OnLine, TypeOK, Hows
  <2> QED
    BY <2>1, LineTyped
<1>3. CASE RequestFails \/ WriteFails
  BY <1>3 DEF RequestFails, WriteFails, Goes
<1>4. CASE Client
  BY <1>4 DEF Client, Command
<1>5. CASE StartRound \/ Response \/ WriteResponse \/ Arrive
  BY <1>5 DEF StartRound, Response, WriteResponse, Arrive, line
<1>6. CASE UNCHANGED vars
  BY <1>6 DEF vars, line
<1> QED
  BY <1>1, <1>2, <1>3, <1>4, <1>5, <1>6 DEF Next, ChannelTask, Worker

LEMMA OrderlyBefore ==
    ASSUME TypeOK, [Next]_vars
    PROVE  Orderly' => Orderly
BY TroubleStays DEF Orderly

LEMMA OwnerStep ==
    TypeOK /\ Owner /\ [Next]_vars => Owner'
<1> SUFFICES ASSUME TypeOK, Owner, [Next]_vars
             PROVE  Owner'
  OBVIOUS
<1>0. poll \in Polls /\ worker \in [pc : {"idle", "lock", "sent"}, kind : Writes, s : Ids]
  BY DEF TypeOK, Polls
<1>1. CASE StartRound
  BY <1>1 DEF StartRound, Owner
<1>2. CASE Request
  <2>1. poll' = [poll EXCEPT !.pc = "sent"] /\ mutex' = "poll" /\ worker' = worker
        /\ mutex = Nobody
    BY <1>2 DEF Request
  <2> QED
    BY <1>0, <2>1 DEF Owner, Polls, Nobody
<1>3. CASE RequestFails
  BY <1>0, <1>3 DEF RequestFails, NextSlave, Owner, Polls, Nobody
<1>4. CASE Response
  <2>1. poll'.pc # "sent" /\ mutex' = Nobody /\ worker' = worker /\ poll.pc = "sent"
    BY <1>0, <1>4 DEF Response, NextSlave, Polls
  <2> QED
    BY <2>1 DEF Owner, Nobody
<1>5. CASE WriteRequest
  <2>1. /\ mutex' = IF Locks(worker.kind) THEN "worker" ELSE mutex
        /\ worker' = [worker EXCEPT !.pc = "sent"]
        /\ Locks(worker.kind) => mutex = Nobody
        /\ worker.pc = "lock" /\ poll' = poll
    BY <1>5 DEF WriteRequest, CanSend
  <2>2. worker'.pc = "sent" /\ worker'.kind = worker.kind
    BY <1>0, <2>1
  <2> QED
    BY <2>1, <2>2 DEF Owner, Nobody
<1>6. CASE WriteFails
  <2>1. /\ Locks(worker.kind) => mutex = Nobody
        /\ worker.pc = "lock" /\ poll' = poll
        /\ IF worker.kind = "register"
           THEN mutex' = "worker" /\ worker' = [worker EXCEPT !.pc = "sent"]
           ELSE mutex' = mutex /\ worker' = [worker EXCEPT !.pc = "idle"]
    BY <1>6 DEF WriteFails, CanSend
  <2>2. worker'.kind = worker.kind /\ (worker.kind = "register" => Locks(worker.kind))
        /\ worker'.pc = IF worker.kind = "register" THEN "sent" ELSE "idle"
    BY <1>0, <2>1 DEF Locks
  <2> QED
    BY <2>1, <2>2 DEF Owner, Nobody
<1>7. CASE WriteResponse
  <2>1. /\ worker.pc = "sent" /\ worker' = [worker EXCEPT !.pc = "idle"]
        /\ mutex' = IF Locks(worker.kind) THEN Nobody ELSE mutex
        /\ poll' = poll
    BY <1>7 DEF WriteResponse
  <2>2. worker'.pc = "idle" /\ worker'.kind = worker.kind
    BY <1>0, <2>1
  <2> QED
    BY <2>1, <2>2 DEF Owner, Nobody
<1>8. ASSUME NEW s \in Ids, NEW kind \in Writes, Command(s, kind)
      PROVE  Owner'
  BY <1>8 DEF Command, Owner
<1>9. CASE Arrive \/ UNCHANGED vars
  BY <1>9 DEF Arrive, vars, Owner
<1> QED
  BY <1>1, <1>2, <1>3, <1>4, <1>5, <1>6, <1>7, <1>8, <1>9 DEF Next, ChannelTask, Worker, Client

(* While nobody owns the mutex of an orderly line it is empty.             *)
LEMMA Idle ==
    ASSUME TypeOK, Owner, OneAnswer, Orderly
    PROVE  /\ late = <<>> /\ ~input.cut
           /\ worker.pc # "idle" => Locks(worker.kind)
           /\ mutex = Nobody => poll.pc # "sent" /\ worker.pc # "sent" /\ input.answers = <<>>
           /\ mutex = "poll" <=> poll.pc = "sent"
           /\ mutex = "worker" <=> worker.pc = "sent"
BY DEF TypeOK, Owner, OneAnswer, Locks, Nobody

(* What the owner of the mutex reads on an orderly line.                   *)
LEMMA PollRead ==
    ASSUME TypeOK, Owner, OneAnswer, Orderly, poll.pc = "sent", NEW r \in Responses(input)
    PROVE  /\ r.rest.answers = <<>> /\ ~r.rest.cut
           /\ r.got.len > 0 => r.got.answer.type = "read" /\ r.got.answer.from = poll.s
<1>1. input \in Inputs /\ ~input.cut
  BY DEF TypeOK, OneAnswer, Inputs
<1>2. input.answers # <<>> => \E f \in Answers : /\ input.answers = <<f>>
                                               /\ f.type \in {"read", "damaged"}
                                               /\ f.from = poll.s
  BY DEF OneAnswer
<1>3. input.answers # <<>> => \E f \in Answers : /\ input.answers = <<f>>
                                               /\ f.type \notin {"exception", "garbled"}
  BY <1>2
<1>4. /\ r.rest.answers = <<>> /\ ~r.rest.cut
      /\ r.got.len > 0 => /\ input.answers # <<>> /\ input.answers = <<r.got.answer>>
                          /\ r.got.answer.type # "damaged"
  BY <1>1, <1>3, OrderlyResponse DEF Some
<1>5. ASSUME r.got.len > 0
      PROVE  r.got.answer.type = "read" /\ r.got.answer.from = poll.s
  <2>1. PICK f \in Answers : /\ input.answers = <<f>> /\ f.type \in {"read", "damaged"}
                             /\ f.from = poll.s
    BY <1>2, <1>4, <1>5
  <2>2. r.got.answer = f
    BY <1>4, <1>5, <2>1
  <2> QED
    BY <1>4, <1>5, <2>1, <2>2
<1> QED
  BY <1>4, <1>5

LEMMA WorkerRead ==
    ASSUME TypeOK, Owner, OneAnswer, Orderly, worker.pc = "sent", NEW r \in Responses(input)
    PROVE  /\ r.rest.answers = <<>> /\ ~r.rest.cut
           /\ Some(r.got) => executed
<1>0. worker.kind \in Writes
  BY DEF TypeOK
<1>1. input \in Inputs /\ ~input.cut
  BY DEF TypeOK, OneAnswer, Inputs
<1>2. input.answers # <<>> => \E f \in Answers : input.answers = <<f>> /\ Mine(f)
  BY DEF OneAnswer
<1>3. input.answers # <<>> => \E f \in Answers : /\ input.answers = <<f>>
                                               /\ f.type \notin {"exception", "garbled"}
  BY <1>0, <1>2 DEF Mine, Answer, Writes
<1>4. /\ r.rest.answers = <<>> /\ ~r.rest.cut
      /\ Some(r.got) => /\ input.answers # <<>> /\ input.answers = <<r.got.answer>>
                        /\ r.got.answer.type # "damaged"
  BY <1>1, <1>3, OrderlyResponse
<1>5. ASSUME Some(r.got)
      PROVE  executed
  <2>1. PICK f \in Answers : input.answers = <<f>> /\ Mine(f)
    BY <1>2, <1>4, <1>5
  <2>2. r.got.answer = f
    BY <1>4, <1>5, <2>1
  <2> QED
    BY <1>4, <1>5, <2>1, <2>2 DEF Mine
<1> QED
  BY <1>4, <1>5

LEMMA AnswerStep ==
    TypeOK /\ Owner /\ OneAnswer /\ [Next]_vars => OneAnswer'
<1> SUFFICES ASSUME TypeOK, Owner, OneAnswer, [Next]_vars, Orderly'
             PROVE  OneAnswer'
  BY DEF OneAnswer
<1>0. /\ poll \in Polls /\ worker \in [pc : {"idle", "lock", "sent"}, kind : Writes, s : Ids]
      /\ input \in Inputs
  BY DEF TypeOK, Polls, Inputs
<1>a. Orderly
  BY OrderlyBefore
<1>b. /\ late = <<>> /\ ~input.cut
      /\ worker.pc # "idle" => Locks(worker.kind)
      /\ mutex = Nobody => poll.pc # "sent" /\ worker.pc # "sent" /\ input.answers = <<>>
      /\ mutex = "poll" <=> poll.pc = "sent"
      /\ mutex = "worker" <=> worker.pc = "sent"
  BY <1>a, Idle
<1>c. /\ worker.pc # "idle" => worker.kind # "scattered" /\ "done" \notin told
      /\ poll.pc = "sent" /\ input.answers # <<>> =>
           \E f \in Answers : /\ input.answers = <<f>> /\ f.type \in {"read", "damaged"}
                              /\ f.from = poll.s
      /\ worker.pc = "sent" /\ input.answers # <<>> =>
           \E f \in Answers : input.answers = <<f>> /\ Mine(f)
  BY <1>a DEF OneAnswer
<1>1. CASE StartRound
  <2>1. poll'.pc = "lock" /\ input' = input /\ late' = late /\ worker' = worker
        /\ mutex' = mutex /\ told' = told /\ executed' = executed
    BY <1>1 DEF StartRound, line
  <2> QED
    BY <1>b, <1>c, <2>1 DEF OneAnswer, Mine
<1>2. CASE Request
  <2> DEFINE f == Answer("read", poll.s)
  <2>1. /\ poll.pc = "lock" /\ mutex = Nobody /\ mutex' = "poll"
        /\ poll' = [poll EXCEPT !.pc = "sent"] /\ worker' = worker /\ told' = told
    BY <1>2 DEF Request
  <2>2. OnLine(f) /\ f \in Answers
    BY <1>0, <1>2, AnswerTyped DEF Request, OnLine, Polls, Hows
  <2>3. /\ late' = <<>>
        /\ input' \in [answers : {<<>>, <<f>>, <<Answer("damaged", f.from)>>}, cut : {FALSE}]
    <3> HIDE DEF f
    <3> QED
      BY <1>0, <1>b, <2>1, <2>2, OrderlyRequest
  <2>4. /\ f.type = "read" /\ f.from = poll.s
        /\ Answer("damaged", f.from).type = "damaged" /\ Answer("damaged", f.from).from = poll.s
        /\ Answer("damaged", f.from) \in Answers
    BY <1>0 DEF Answer, Answers, Polls
  <2>5. poll'.s = poll.s /\ worker'.pc # "sent"
    BY <1>0, <1>b, <2>1 DEF Polls
  <2>6. input'.answers # <<>> => \E g \in Answers : /\ input'.answers = <<g>>
                                                  /\ g.type \in {"read", "damaged"}
                                                  /\ g.from = poll'.s
    <3> HIDE DEF f
    <3> QED
      BY <2>2, <2>3, <2>4, <2>5
  <2> QED
    BY <1>c, <2>1, <2>3, <2>5, <2>6 DEF OneAnswer, Nobody
<1>3. CASE RequestFails
  <2>1. poll'.pc # "sent" /\ input' = input /\ late' = late /\ worker' = worker
        /\ mutex' = mutex /\ told' = told /\ executed' = executed /\ mutex = Nobody
    BY <1>0, <1>3 DEF RequestFails, NextSlave, Polls
  <2> QED
    BY <1>b, <1>c, <2>1 DEF OneAnswer, Mine
<1>4. CASE Response
  <2>1. PICK r \in Responses(input) : /\ input' = r.rest
                                     /\ NextSlave(Behind(poll.off, Slaves[poll.s], r.got.len))
    BY <1>4 DEF Response
  <2>2. poll.pc = "sent" /\ mutex' = Nobody /\ late' = late /\ worker' = worker /\ told' = told
    BY <1>4 DEF Response
  <2>3. r.rest.answers = <<>> /\ ~r.rest.cut
    BY <1>a, <2>2, PollRead
  <2>4. poll'.pc # "sent" /\ worker.pc # "sent"
    BY <1>0, <1>b, <2>1, <2>2 DEF NextSlave, Polls
  <2> QED
    BY <1>b, <1>c, <2>1, <2>2, <2>3, <2>4 DEF OneAnswer
<1>5. CASE WriteRequest
  <2> DEFINE f == Answer(worker.kind, worker.s)
  <2>1. /\ worker.pc = "lock" /\ mutex = Nobody /\ mutex' = "worker"
        /\ worker' = [worker EXCEPT !.pc = "sent"] /\ poll' = poll /\ told' = told
    BY <1>5, <1>b DEF WriteRequest, CanSend
  <2>2. OnLine(f) /\ f \in Answers
    BY <1>0, <1>5, AnswerTyped DEF WriteRequest, OnLine, Hows
  <2>3. /\ late' = <<>>
        /\ input' \in [answers : {<<>>, <<f>>, <<Answer("damaged", f.from)>>}, cut : {FALSE}]
    <3> HIDE DEF f
    <3> QED
      BY <1>0, <1>b, <2>1, <2>2, OrderlyRequest
  <2>4. worker'.pc = "sent" /\ worker'.kind = worker.kind /\ worker'.s = worker.s
        /\ worker.kind # "scattered"
    BY <1>0, <1>c, <2>1
  <2>5. CASE input'.answers = <<>>
    BY <1>b, <1>c, <2>1, <2>3, <2>4, <2>5 DEF OneAnswer, Nobody
  <2>6. CASE input'.answers = <<Answer("damaged", f.from)>>
    <3>1. Answer("damaged", f.from) \in Answers /\ Answer("damaged", f.from).type = "damaged"
      BY <1>0 DEF Answer, Answers
    <3>2. \E g \in Answers : input'.answers = <<g>> /\ Mine(g)'
      BY <2>6, <3>1 DEF Mine
    <3> QED
      BY <1>b, <1>c, <2>1, <2>3, <2>4, <3>2 DEF OneAnswer, Nobody
  <2>7. CASE input'.answers = <<f>>
    <3>1. ~Lost
      <4>1. Lost => input' = input
        BY DEF Lost
      <4> QED
        BY <4>1, <1>b, <2>1, <2>7
    <3>2. ~Changed(f, "exception")
      BY DEF Changed, Goes, Orderly
    <3>3. executed' = TRUE
      BY <1>5, <2>4, <3>1, <3>2 DEF WriteRequest
    <3>4. \E g \in Answers : input'.answers = <<g>> /\ Mine(g)'
      <4>1. f = Answer(worker'.kind, worker'.s)
        BY <2>4
      <4> HIDE DEF f
      <4> QED
        BY <2>2, <2>7, <3>3, <4>1 DEF Mine
    <3> QED
      BY <1>b, <1>c, <2>1, <2>3, <2>4, <3>4 DEF OneAnswer, Nobody
  <2> QED
    BY <2>3, <2>5, <2>6, <2>7
<1>6. CASE WriteFails
  <2>1. worker.pc = "lock" /\ mutex = Nobody /\ input' = input /\ late' = late /\ poll' = poll
    BY <1>6, <1>b DEF WriteFails, CanSend
  <2>2. CASE worker.kind = "register"
    <3>1. mutex' = "worker" /\ worker' = [worker EXCEPT !.pc = "sent"]
          /\ told' = told \cup {"exception"}
      BY <1>6, <2>2 DEF WriteFails
    <3>2. worker'.kind = worker.kind
      BY <1>0, <3>1
    <3> QED
      BY <1>b, <1>c, <2>1, <3>1, <3>2 DEF OneAnswer, Nobody
  <2>3. CASE worker.kind # "register"
    <3>1. mutex' = mutex /\ worker' = [worker EXCEPT !.pc = "idle"]
      BY <1>6, <2>3 DEF WriteFails
    <3>2. worker'.pc = "idle"
      BY <1>0, <3>1
    <3> QED
      BY <1>b, <1>c, <2>1, <3>1, <3>2 DEF OneAnswer, Nobody
  <2> QED
    BY <2>2, <2>3
<1>7. CASE WriteResponse
  <2>1. PICK r \in Responses(input) : input' = r.rest
    BY <1>7 DEF WriteResponse
  <2>2. worker.pc = "sent" /\ worker' = [worker EXCEPT !.pc = "idle"] /\ late' = late
        /\ poll' = poll
    BY <1>7 DEF WriteResponse
  <2>3. r.rest.answers = <<>> /\ ~r.rest.cut
    BY <1>a, <2>2, WorkerRead
  <2>4. worker'.pc = "idle" /\ poll.pc # "sent"
    BY <1>0, <1>b, <2>2
  <2> QED
    BY <1>b, <2>1, <2>2, <2>3, <2>4 DEF OneAnswer
<1>8. ASSUME NEW s \in Ids, NEW kind \in Writes, Command(s, kind)
      PROVE  OneAnswer'
  <2>1. /\ worker' = [pc |-> "lock", kind |-> kind, s |-> s] /\ told' = {}
        /\ poll' = poll /\ mutex' = mutex /\ input' = input /\ late' = late
    BY <1>8 DEF Command
  <2>2. kind # "scattered"
    BY <1>8 DEF Command, Orderly
  <2>3. worker.pc = "idle"
    BY <1>8 DEF Command
  <2> QED
    BY <1>b, <1>c, <2>1, <2>2 DEF OneAnswer
<1>9. CASE Arrive
  BY <1>9, <1>b DEF Arrive
<1>10. CASE UNCHANGED vars
  BY <1>10, <1>b, <1>c DEF vars, line, OneAnswer, Mine
<1> QED
  BY <1>1, <1>2, <1>3, <1>4, <1>5, <1>6, <1>7, <1>8, <1>9, <1>10
     DEF Next, ChannelTask, Worker, Client

LEMMA TruthStep ==
    TypeOK /\ Owner /\ OneAnswer /\ WriteTruth /\ [Next]_vars => WriteTruth'
<1> SUFFICES ASSUME TypeOK, Owner, OneAnswer, WriteTruth, [Next]_vars, Orderly'
             PROVE  WriteTruth'
  BY DEF WriteTruth
<1>0. worker \in [pc : {"idle", "lock", "sent"}, kind : Writes, s : Ids]
  BY DEF TypeOK
<1>a. Orderly
  BY OrderlyBefore
<1>b. /\ "done" \in told => executed \/ (worker.kind = "registers" /\ "failed" \in trouble)
      /\ worker.pc # "idle" => worker.kind # "scattered" /\ "done" \notin told
  BY <1>a DEF OneAnswer, WriteTruth
<1>1. CASE WriteRequest
  BY <1>1, <1>b DEF WriteRequest, CanSend, WriteTruth
<1>2. CASE WriteFails
  <2>1. worker.pc = "lock" /\ trouble' = trouble \cup {"failed"}
    BY <1>2 DEF WriteFails, CanSend, Goes
  <2>2. CASE worker.kind \in {"register", "coil"}
    <3>1. "done" \notin told'
      BY <1>2, <1>b, <2>1, <2>2 DEF WriteFails
    <3> QED
      BY <3>1 DEF WriteTruth
  <2>3. CASE worker.kind = "registers"
    <3>1. worker' = [worker EXCEPT !.pc = "idle"]
      BY <1>2, <2>3 DEF WriteFails
    <3>2. worker'.kind = "registers"
      BY <1>0, <2>3, <3>1
    <3> QED
      BY <2>1, <3>2 DEF WriteTruth
  <2> QED
    BY <1>0, <1>b, <2>1, <2>2, <2>3 DEF Writes
<1>3. CASE WriteResponse
  <2>1. PICK r \in Responses(input) : told' = told \cup Outcome(worker.kind, r.got)
    BY <1>3 DEF WriteResponse
  <2>2. worker.pc = "sent" /\ executed' = executed
    BY <1>3 DEF WriteResponse
  <2>3. Some(r.got) => executed
    BY <1>a, <2>2, WorkerRead
  <2>4. "done" \in Outcome(worker.kind, r.got) => Some(r.got)
    BY <1>0, <1>b, <2>2 DEF Outcome, Writes, Some
  <2> QED
    BY <1>b, <2>1, <2>2, <2>3, <2>4 DEF WriteTruth
<1>4. CASE Client
  BY <1>4 DEF Client, Command, WriteTruth
<1>5. CASE RequestFails
  BY <1>5, <1>b DEF RequestFails, Goes, WriteTruth
<1>6. CASE Request
  <2>1. trouble \subseteq trouble'
    <3>1. OnLine(Answer("read", poll.s)) /\ Answer("read", poll.s) \in Answers
      BY <1>6, AnswerTyped DEF Request, OnLine, TypeOK, Hows
    <3> QED
      BY <3>1, LineTyped
  <2>2. told' = told /\ executed' = executed /\ worker' = worker
    BY <1>6 DEF Request
  <2> QED
    BY <1>b, <2>1, <2>2 DEF WriteTruth
<1>7. CASE StartRound \/ Response \/ Arrive
  BY <1>7, <1>b DEF StartRound, Response, Arrive, line, WriteTruth
<1>8. CASE UNCHANGED vars
  BY <1>8, <1>b DEF vars, line, WriteTruth
<1> QED
  BY <1>1, <1>2, <1>3, <1>4, <1>5, <1>6, <1>7, <1>8 DEF Next, ChannelTask, Worker

-----------------------------------------------------------------------------
(* The theorems.                                                           *)

LEMMA InitInv == Init => IInv
<1> SUFFICES ASSUME Init
             PROVE  IInv
  OBVIOUS
<1> USE SlavesFact
<1>1. 1 \in Ids /\ 2 * Before \in 2 * Before .. Total
  BY SlavesBeforeFact
<1>2. TypeOK
  <2>1. poll \in Polls /\ worker \in [pc : {"idle", "lock", "sent"}, kind : Writes, s : Ids]
    BY <1>1 DEF Init, Polls, Writes
  <2>2. input \in Inputs /\ late \in Seq(Answers)
    BY DEF Init, Inputs
  <2>3. DOMAIN pData = 0 .. Total - 1
    BY DEF Init
  <2>4. u16Status \in [Ids -> {0, 1}] /\ mutex \in {Nobody, "poll", "worker"}
    BY DEF Init
  <2>5. /\ executed \in BOOLEAN /\ told = {} /\ trouble = {}
        /\ troubles \in 0 .. MaxTroubles /\ writes \in 0 .. MaxWrites
    <3>1. executed = FALSE /\ told = {} /\ trouble = {} /\ troubles = 0 /\ writes = 0
      BY DEF Init
    <3>2. MaxTroubles \in Nat /\ MaxWrites \in Nat
      OBVIOUS
    <3>3. executed \in BOOLEAN
      BY <3>1
    <3>4. troubles \in 0 .. MaxTroubles /\ writes \in 0 .. MaxWrites
      BY <3>1, <3>2
    <3> QED
      BY <3>1, <3>3, <3>4
  <2> QED
    BY <2>1, <2>2, <2>3, <2>4, <2>5 DEF TypeOK, Polls, Inputs
<1>3. OffsetBehind /\ Owner /\ OneAnswer /\ WriteTruth
  BY DEF Init, OffsetBehind, Owner, OneAnswer, WriteTruth, Nobody
<1> QED
  BY <1>2, <1>3 DEF IInv

(* The inductive invariant: the types, the offset of the round, the owner  *)
(* of the line, and the one answer on it.                                  *)
THEOREM Inductive == Spec => []IInv
<1>1. Init => IInv
  BY InitInv
<1>2. IInv /\ [Next]_vars => IInv'
  BY TypeStep, OwnerStep, AnswerStep, TruthStep DEF IInv
<1> QED
  BY <1>1, <1>2, PTL DEF Spec

(* The arrays keep their sizes, and u16Offset never runs over the end of   *)
(* pData (ENNModBus_Channel_Run), whatever slaves are silent and requests  *)
(* fail, for any slaves with any registers.                                *)
THEOREM TypeCorrect == Spec => []TypeOK
<1>1. IInv => TypeOK
  BY DEF IInv
<1> QED
  BY <1>1, Inductive, PTL

(* On an orderly line a client is told that its write was done only if the *)
(* slave did it, but for several registers whose request never left: the   *)
(* mutex of the line lets no answer but the worker's own reach the worker.  *)
THEOREM ToldTrue == Spec => []WriteTruth
<1>1. IInv => WriteTruth
  BY DEF IInv
<1> QED
  BY <1>1, Inductive, PTL

-----------------------------------------------------------------------------
(* The three layouts of the values agree.                                  *)

(* The registers of a slave are listed in the order of their addresses,    *)
(* none overlaps another, and the words between two of them fit u8Interval. *)
GapsFit ==
    \A s \in Ids : \A i \in 2 .. Len(Slaves[s]) :
        Slaves[s][i].addr - Slaves[s][i - 1].addr - Slaves[s][i - 1].num \in 0 .. 255

(* Lengths and gaps add up to the distance of two addresses.               *)
LEMMA Distance ==
    ASSUME NEW n \in Nat, NEW a, NEW w, NEW v, v[1] = 0,
           \A k \in 1 .. n : a[k] \in Nat /\ w[k] \in Nat /\ v[k] \in Nat,
           \A k \in 2 .. n : v[k] = (a[k] - a[k - 1]) - w[k - 1],
           NEW i \in 1 .. n
    PROVE  /\ Sum(v, i) \in Nat /\ Sum(w, i - 1) \in Nat /\ Sum(v, n) \in Nat /\ Sum(w, n) \in Nat
           /\ Sum(v, i) + Sum(w, i - 1) = a[i] - a[1]
           /\ Sum(v, i) <= Sum(v, n) /\ Sum(w, i - 1) + w[i] <= Sum(w, n)
<1>1. \A k \in 0 .. n : Sum(w, k) \in Nat /\ Sum(v, k) \in Nat
  BY SumNat
<1>2. /\ Sum(w, 0) = 0 /\ Sum(v, 0) = 0
      /\ \A k \in 1 .. n : Sum(w, k) = Sum(w, k - 1) + w[k] /\ Sum(v, k) = Sum(v, k - 1) + v[k]
  BY SumStep
<1> DEFINE S == {k \in 1 .. n : Sum(v, k) + Sum(w, k - 1) = a[k] - a[1]}
<1>3. 1 \in S
  BY <1>2
<1>4. ASSUME NEW k \in 1 + 1 .. n, k - 1 \in S
      PROVE  k \in S
  <2>1. k \in 1 .. n /\ k - 1 \in 1 .. n /\ k - 1 \in 0 .. n /\ k \in 2 .. n /\ (k - 1) - 1 \in 0 .. n
    OBVIOUS
  <2>2. Sum(v, k - 1) + Sum(w, (k - 1) - 1) = a[k - 1] - a[1]
    BY <1>4
  <2>3. /\ Sum(v, k) = Sum(v, k - 1) + v[k]
        /\ Sum(w, k - 1) = Sum(w, (k - 1) - 1) + w[k - 1]
        /\ v[k] = (a[k] - a[k - 1]) - w[k - 1]
    BY <1>2, <2>1
  <2>4. Sum(v, k - 1) \in Nat /\ Sum(w, (k - 1) - 1) \in Nat
    BY <1>1, <2>1
  <2>5. Sum(v, k) + Sum(w, k - 1) = a[k] - a[1]
    <3>1. /\ a[k] \in Nat /\ a[k - 1] \in Nat /\ a[1] \in Nat
          /\ v[k] \in Nat /\ w[k - 1] \in Nat
      BY <2>1
    <3>2. \A x, y, A, B, C, m \in Nat :
            x + y = B - C => (x + ((A - B) - m)) + (y + m) = A - C
      OBVIOUS
    <3> QED
      BY <2>2, <2>3, <2>4, <3>1, <3>2
  <2> QED
    BY <2>1, <2>5
<1>5. 1 .. n \subseteq S
  <2>1. 1 \in Int /\ n \in Int /\ 0 <= 1
    OBVIOUS
  <2> HIDE DEF S
  <2> QED
    BY <1>3, <1>4, <2>1, UpTo
<1>6. Sum(v, i) + Sum(w, i - 1) = a[i] - a[1]
  BY <1>5
<1>7. i \in 0 .. n /\ i - 1 \in 0 .. n /\ n \in 0 .. n /\ n \in i .. n
  OBVIOUS
<1>8. Sum(v, i) <= Sum(v, n)
  <2>1. \A k \in i .. n : Sum(v, i) <= Sum(v, k)
    BY <1>7, SumGrows
  <2> QED
    BY <1>7, <2>1
<1>9. Sum(w, i) <= Sum(w, n)
  <2>1. \A k \in i .. n : Sum(w, i) <= Sum(w, k)
    BY <1>7, SumGrows
  <2> QED
    BY <1>7, <2>1
<1>10. Sum(w, i) = Sum(w, i - 1) + w[i]
  BY <1>2
<1> QED
  BY <1>1, <1>6, <1>7, <1>8, <1>9, <1>10

(* In an answer each register lies where its address says, within the data *)
(* that were asked for.                                                    *)
LEMMA SourceFact ==
    ASSUME GapsFit, NEW s \in Ids, NEW i \in 1 .. Len(Slaves[s])
    PROVE  /\ Source(Slaves[s], i) = 2 * (Slaves[s][i].addr - Slaves[s][1].addr)
           /\ Source(Slaves[s], i) \in Nat
           /\ Source(Slaves[s], i) + 2 * Slaves[s][i].num <= 2 * Count(Slaves[s])
           /\ Count(Slaves[s]) \in Nat
<1> DEFINE regs == Slaves[s]
           n == Len(regs)
           w == Words(regs)
           v == Intervals(regs)
           a == [k \in 1 .. n |-> regs[k].addr]
<1>0. n \in Nat \ {0} /\ DOMAIN regs = 1 .. n /\ i \in 1 .. n /\ 1 \in 1 .. n
  BY SlavesFact
<1>1. \A k \in 1 .. n : regs[k].addr \in Nat /\ regs[k].num \in Nat /\ a[k] = regs[k].addr
  BY WordsFact DEF Register
<1>2. a \in [1 .. n -> Nat] /\ w \in [1 .. n -> Nat] /\ \A k \in 1 .. n : w[k] = regs[k].num
  BY <1>0, <1>1 DEF Words
<1>3. v = [k \in 1 .. n |-> Interval(regs, k)]
  BY <1>0 DEF Intervals
<1>4. v[1] = 0
  BY <1>0, <1>3 DEF Interval
<1>5. ASSUME NEW k \in 2 .. n
      PROVE  v[k] = (a[k] - a[k - 1]) - w[k - 1] /\ v[k] \in Nat
  <2>0. k \in 1 .. n /\ k - 1 \in 1 .. n
    BY <1>0
  <2>1. v[k] = (regs[k].addr - regs[k - 1].addr - regs[k - 1].num) % 256
    BY <1>0, <1>3, <2>0 DEF Interval
  <2>2. regs[k].addr - regs[k - 1].addr - regs[k - 1].num \in 0 .. 255
    BY DEF GapsFit
  <2>3. \A x \in 0 .. 255 : x % 256 = x /\ x \in Nat
    OBVIOUS
  <2>4. v[k] = regs[k].addr - regs[k - 1].addr - regs[k - 1].num /\ v[k] \in Nat
    <3> DEFINE x == regs[k].addr - regs[k - 1].addr - regs[k - 1].num
    <3>1. v[k] = x % 256 /\ x \in 0 .. 255
      BY <2>1, <2>2
    <3> HIDE DEF v, regs, x
    <3>2. v[k] = x /\ v[k] \in Nat
      BY <2>3, <3>1
    <3> QED
      BY <3>2 DEF x
  <2>5. regs[k].addr = a[k] /\ regs[k - 1].addr = a[k - 1] /\ regs[k - 1].num = w[k - 1]
    BY <1>1, <1>2, <2>0
  <2> QED
    <3> HIDE DEF v, w, a, regs, n
    <3> QED
      BY <2>4, <2>5
<1>6. v \in [1 .. n -> Nat]
  <2>1. \A k \in 1 .. n : v[k] \in Nat
    <3> HIDE DEF v, w, a, regs
    <3> QED
      BY <1>0, <1>4, <1>5
  <2> QED
    BY <1>3, <2>1
<1>7. /\ Source(regs, i) = 2 * Sum(v, i) + 2 * Sum(w, i - 1)
      /\ Count(regs) = Sum(v, n) + Sum(w, n)
  BY DEF Source, BytesBefore, Count
<1>8. a[i] = regs[i].addr /\ a[1] = regs[1].addr /\ w[i] = regs[i].num
  BY <1>0, <1>1, <1>2
<1> HIDE DEF w, v, n, a, regs
<1>9. /\ Sum(v, i) \in Nat /\ Sum(w, i - 1) \in Nat /\ Sum(v, n) \in Nat /\ Sum(w, n) \in Nat
      /\ Sum(v, i) + Sum(w, i - 1) = a[i] - a[1]
      /\ Sum(v, i) <= Sum(v, n) /\ Sum(w, i - 1) + w[i] <= Sum(w, n)
  <2>1. n \in Nat /\ \A k \in 1 .. n : a[k] \in Nat /\ w[k] \in Nat /\ v[k] \in Nat
    BY <1>0, <1>2, <1>6
  <2>2. \A k \in 2 .. n : v[k] = (a[k] - a[k - 1]) - w[k - 1]
    BY <1>5
  <2> QED
    BY <1>0, <1>4, <2>1, <2>2, Distance
<1>10. a[i] \in Nat /\ a[1] \in Nat /\ w[i] \in Nat
  BY <1>0, <1>2
<1>11. /\ Source(regs, i) = 2 * (a[i] - a[1]) /\ Source(regs, i) \in Nat
       /\ Source(regs, i) + 2 * w[i] <= 2 * Count(regs) /\ Count(regs) \in Nat
  <2>1. \A x, y, A, B \in Nat : x + y = A - B =>
          2 * x + 2 * y = 2 * (A - B) /\ 2 * x + 2 * y \in Nat
    OBVIOUS
  <2>2. \A x, y, m, X, Y \in Nat : x <= X /\ y + m <= Y =>
          (2 * x + 2 * y) + 2 * m <= 2 * (X + Y)
    OBVIOUS
  <2>3. /\ 2 * Sum(v, i) + 2 * Sum(w, i - 1) = 2 * (a[i] - a[1])
        /\ 2 * Sum(v, i) + 2 * Sum(w, i - 1) \in Nat
    <3> DEFINE x == Sum(v, i)
               y == Sum(w, i - 1)
    <3>1. x \in Nat /\ y \in Nat /\ x + y = a[i] - a[1]
      BY <1>9
    <3> HIDE DEF x, y
    <3>2. 2 * x + 2 * y = 2 * (a[i] - a[1]) /\ 2 * x + 2 * y \in Nat
      BY <1>10, <2>1, <3>1
    <3> QED
      BY <3>2 DEF x, y
  <2>4. (2 * Sum(v, i) + 2 * Sum(w, i - 1)) + 2 * w[i] <= 2 * (Sum(v, n) + Sum(w, n))
    BY <1>9, <1>10, <2>2
  <2> QED
    BY <1>7, <1>9, <2>3, <2>4
<1> QED
  BY <1>8, <1>11 DEF regs

(* A byte that is stored belongs to one register.                          *)
LEMMA OriginFact ==
    ASSUME NEW s \in Ids, NEW i \in 1 .. Len(Slaves[s]),
           NEW j \in 0 .. 2 * Slaves[s][i].num - 1
    PROVE  LET b == BytesBefore(Slaves[s], i) + j  r == Slaves[s][i] IN
           /\ b \in 0 .. Bytes(Slaves[s]) - 1 /\ b \in DOMAIN Origin[s]
           /\ Origin[s][b] = Source(Slaves[s], i)
                               + (IF r.order = "BA" THEN 2 * r.num - 1 - j ELSE j)
<1> DEFINE regs == Slaves[s]
           n == Len(regs)
           B(k) == BytesBefore(regs, k)
           b == B(i) + j
<1>0. n \in Nat \ {0} /\ DOMAIN regs = 1 .. n /\ i \in 1 .. n
  BY SlavesFact
<1>1. /\ \A k \in 1 .. n + 1 : B(k) \in Nat
      /\ \A k, l \in 1 .. n + 1 : k <= l => B(k) <= B(l)
      /\ B(i + 1) = B(i) + 2 * regs[i].num
      /\ Bytes(regs) = B(n + 1) /\ Bytes(regs) \in Nat
  BY BytesFact DEF Bytes
<1>2. regs[i].num \in Nat \ {0}
  BY WordsFact
<1>3. Origin[s] = [c \in 0 .. Bytes(regs) - 1 |->
        LET k == CHOOSE k \in DOMAIN regs : c \in B(k) .. B(k + 1) - 1
            d == c - B(k)
        IN  Source(regs, k) + (IF regs[k].order = "BA" THEN 2 * regs[k].num - 1 - d ELSE d)]
  BY DEF Origin
<1> HIDE DEF regs, n, B
<1>4. i \in 1 .. n + 1 /\ i + 1 \in 1 .. n + 1 /\ n + 1 \in 1 .. n + 1 /\ j \in 0 .. 2 * regs[i].num - 1
      /\ i + 1 <= n + 1
  BY <1>0 DEF regs
<1>5. b \in 0 .. Bytes(regs) - 1 /\ b \in B(i) .. B(i + 1) - 1
  <2>1. B(i) \in Nat /\ B(i + 1) \in Nat /\ B(n + 1) \in Nat /\ B(i + 1) <= B(n + 1)
    BY <1>1, <1>4
  <2>2. \A p, q, m \in Nat : q + 2 * m <= p => \A d \in 0 .. 2 * m - 1 :
          q + d \in 0 .. p - 1 /\ q + d \in q .. (q + 2 * m) - 1
    OBVIOUS
  <2> QED
    BY <1>1, <1>2, <1>4, <2>1, <2>2
<1>6. ASSUME NEW k \in 1 .. n, b \in B(k) .. B(k + 1) - 1
      PROVE  k = i
  <2>0. k \in 1 .. n + 1 /\ k + 1 \in 1 .. n + 1
    BY <1>0
  <2>00. B(k) \in Nat /\ B(k + 1) \in Nat /\ B(i) \in Nat /\ B(i + 1) \in Nat /\ b \in Int
    BY <1>1, <1>4, <1>5, <2>0
  <2>1. CASE k < i
    <3>1. k + 1 <= i
      BY <2>1, <1>0
    <3>2. B(k + 1) <= B(i)
      BY <1>1, <1>4, <2>0, <3>1
    <3> QED
      BY <1>5, <1>6, <2>00, <3>2
  <2>2. CASE i < k
    <3>1. i + 1 <= k
      BY <2>2, <1>0
    <3>2. B(i + 1) <= B(k)
      BY <1>1, <1>4, <2>0, <3>1
    <3> QED
      BY <1>5, <1>6, <2>00, <3>2
  <2> QED
    BY <1>0, <2>1, <2>2
<1>7. (CHOOSE k \in 1 .. n : b \in B(k) .. B(k + 1) - 1) = i
  BY <1>0, <1>5, <1>6
<1>8. b - B(i) = j
  BY <1>1, <1>4
<1>9. Origin[s][b] = Source(regs, i)
                      + (IF regs[i].order = "BA" THEN 2 * regs[i].num - 1 - j ELSE j)
  <2> HIDE DEF b
  <2> QED
    BY <1>0, <1>3, <1>5, <1>7, <1>8
<1>10. b \in DOMAIN Origin[s]
  <2> HIDE DEF b
  <2> QED
    BY <1>3, <1>5
<1> QED
  BY <1>5, <1>9, <1>10 DEF regs, B

-----------------------------------------------------------------------------
(* The values are in their places.                                         *)

(* The byte of register i of slave s that is kept at position j.           *)
OwnByte(s, i, j) ==
    LET r == Slaves[s][i]
    IN  Own(s, 2 * r.addr + (IF r.order = "BA" THEN 2 * r.num - 1 - j ELSE j))

At(s, i, j) == pData[SlavesBefore(s) + BytesBefore(Slaves[s], i) + j]

InPlace(s, i) ==
    \/ \A j \in 0 .. 2 * Slaves[s][i].num - 1 : At(s, i, j) = Zero
    \/ \A j \in 0 .. 2 * Slaves[s][i].num - 1 : At(s, i, j) = OwnByte(s, i, j)

ValuesInPlace ==
    Orderly /\ "failed" \notin trouble =>
        \A s \in Ids : \A i \in 1 .. Len(Slaves[s]) : InPlace(s, i)

(* Every byte of a register has an index of its own in pData.              *)
LEMMA IndexFact ==
    ASSUME NEW s \in Ids, NEW i \in 1 .. Len(Slaves[s]),
           NEW j \in 0 .. 2 * Slaves[s][i].num - 1
    PROVE  LET b == BytesBefore(Slaves[s], i) + j IN
           /\ b \in 0 .. Bytes(Slaves[s]) - 1
           /\ SlavesBefore(s) + BytesBefore(Slaves[s], i) + j = SlavesBefore(s) + b
           /\ SlavesBefore(s) + b \in 0 .. Total - 1
           /\ \A t \in Ids \ {s} : (SlavesBefore(s) + b) - SlavesBefore(t)
                                     \notin 0 .. Bytes(Slaves[t]) - 1
<1> DEFINE b == BytesBefore(Slaves[s], i) + j
<1>1. b \in 0 .. Bytes(Slaves[s]) - 1
  BY OriginFact
<1>2. BytesBefore(Slaves[s], i) \in Nat /\ Bytes(Slaves[s]) \in Nat /\ j \in Int
  <2>1. i \in 1 .. Len(Slaves[s]) + 1
    BY SlavesFact
  <2> QED
    BY <2>1, BytesFact, WordsFact
<1>3. Ids = 1 .. Len(Slaves) /\ Len(Slaves) \in Nat
  BY SlavesFact
<1>4. /\ \A t \in Ids : /\ SlavesBefore(t) \in Nat /\ Bytes(Slaves[t]) \in Nat
                        /\ SlavesBefore(t + 1) = SlavesBefore(t) + Bytes(Slaves[t])
      /\ \A t, u \in 1 .. Len(Slaves) + 1 : t <= u => SlavesBefore(t) <= SlavesBefore(u)
      /\ Total = SlavesBefore(Len(Slaves) + 1) /\ Total \in Nat
  <2>1. Total = SlavesBefore(Len(Slaves) + 1)
    BY DEF Total
  <2>2. \A t \in Ids : t \in 1 .. Len(Slaves) + 1
    BY <1>3
  <2>3. \A t \in Ids : Bytes(Slaves[t]) \in Nat
    BY BytesFact
  <2> QED
    BY <2>1, <2>2, <2>3, SlavesBeforeFact
<1>5. SlavesBefore(s) + BytesBefore(Slaves[s], i) + j = SlavesBefore(s) + b
  BY <1>2, <1>4
<1> HIDE DEF b
<1>6. \A t \in Ids : t + 1 \in 1 .. Len(Slaves) + 1 /\ t \in 1 .. Len(Slaves) + 1
  BY <1>3
<1>7. SlavesBefore(s) + b \in 0 .. Total - 1
  <2>1. s + 1 <= Len(Slaves) + 1 /\ Len(Slaves) + 1 \in 1 .. Len(Slaves) + 1
    BY <1>3
  <2>2. SlavesBefore(s + 1) <= Total
    BY <1>4, <1>6, <2>1
  <2> QED
    BY SMTT(30), <1>1, <1>4, <2>2
<1>8. ASSUME NEW t \in Ids \ {s}
      PROVE  (SlavesBefore(s) + b) - SlavesBefore(t) \notin 0 .. Bytes(Slaves[t]) - 1
  <2>0. t \in Ids /\ SlavesBefore(t) \in Nat /\ Bytes(Slaves[t]) \in Nat /\ b \in Nat
        /\ SlavesBefore(s) \in Nat /\ Bytes(Slaves[s]) \in Nat
    BY <1>1, <1>4
  <2>1. CASE s < t
    <3>1. s + 1 <= t
      BY <1>3, <2>1
    <3>2. SlavesBefore(s) + Bytes(Slaves[s]) <= SlavesBefore(t)
      BY <1>4, <1>6, <2>0, <3>1
    <3>3. (SlavesBefore(s) + b) - SlavesBefore(t) < 0
      BY <1>1, <2>0, <3>2
    <3> QED
      BY <2>0, <3>3
  <2>2. CASE t < s
    <3>1. t + 1 <= s
      BY <1>3, <2>2
    <3>2. SlavesBefore(t) + Bytes(Slaves[t]) <= SlavesBefore(s)
      BY <1>4, <1>6, <2>0, <3>1
    <3>3. (SlavesBefore(s) + b) - SlavesBefore(t) >= Bytes(Slaves[t])
      BY <1>1, <2>0, <3>2
    <3> QED
      BY <2>0, <3>3
  <2> QED
    BY <1>3, <2>1, <2>2
<1> QED
  BY <1>1, <1>5, <1>7, <1>8 DEF b

(* The task puts the data of a slave's answer where the worker looks for   *)
(* them, and leaves the others alone.                                      *)
LEMMA StoreFact ==
    ASSUME GapsFit, DOMAIN pData = 0 .. Total - 1, NEW s \in Ids,
           NEW f, f.type = "read", f.from = s,
           pData' = Store(s, SlavesBefore(s), f),
           NEW t \in Ids, NEW i \in 1 .. Len(Slaves[t]),
           NEW j \in 0 .. 2 * Slaves[t][i].num - 1
    PROVE  At(t, i, j)' = IF t = s THEN OwnByte(s, i, j) ELSE At(t, i, j)
<1> DEFINE b == BytesBefore(Slaves[t], i) + j
           p == SlavesBefore(t) + b
<1>1. /\ b \in 0 .. Bytes(Slaves[t]) - 1 /\ p \in DOMAIN pData
      /\ SlavesBefore(t) + BytesBefore(Slaves[t], i) + j = p
      /\ t # s => p - SlavesBefore(s) \notin 0 .. Bytes(Slaves[s]) - 1
  BY IndexFact
<1>2. At(t, i, j) = pData[p] /\ At(t, i, j)' = pData'[p]
  BY <1>1 DEF At
<1>3. SlavesBefore(t) \in Nat /\ Bytes(Slaves[t]) \in Nat
  <2>1. t \in 1 .. Len(Slaves) + 1
    BY SlavesFact
  <2>2. SlavesBefore(t) \in Nat
    BY <2>1, SlavesBeforeFact
  <2> QED
    BY <2>2, BytesFact
<1>4. DOMAIN Origin[s] = 0 .. Bytes(Slaves[s]) - 1
  BY DEF Origin
<1> HIDE DEF b
<1>5. pData'[p] = IF p - SlavesBefore(s) \in DOMAIN Origin[s]
                  THEN Data(f, Origin[s][p - SlavesBefore(s)]) ELSE pData[p]
  BY <1>1 DEF Store
<1>6. CASE t # s
  BY <1>1, <1>2, <1>4, <1>5, <1>6
<1>7. CASE t = s
  <2> DEFINE r == Slaves[s][i]
             d == IF r.order = "BA" THEN 2 * r.num - 1 - j ELSE j
             o == Source(Slaves[s], i) + d
  <2>1. p - SlavesBefore(s) = b
    BY <1>1, <1>3, <1>7
  <2>2. b \in DOMAIN Origin[s] /\ Origin[s][b] = o
    BY <1>7, OriginFact DEF b
  <2>3. /\ Source(Slaves[s], i) = 2 * (r.addr - Slaves[s][1].addr)
        /\ Source(Slaves[s], i) \in Nat /\ Count(Slaves[s]) \in Nat
        /\ Source(Slaves[s], i) + 2 * r.num <= 2 * Count(Slaves[s])
    BY <1>7, SourceFact
  <2>4. r.addr \in Nat /\ Slaves[s][1].addr \in Nat /\ r.num \in Nat
    <3>1. 1 \in 1 .. Len(Slaves[s])
      BY SlavesFact
    <3> QED
      BY <1>7, <3>1, WordsFact DEF Register
  <2>5. d \in 0 .. 2 * r.num - 1
    BY <1>7, <2>4
  <2> HIDE DEF r, d
  <2>6. o < 2 * Count(Slaves[s])
    BY <2>3, <2>4, <2>5
  <2>7. 2 * Slaves[s][1].addr + o = 2 * r.addr + d
    <3>1. \A A, B, n \in Nat : 2 * B + (2 * (A - B) + n) = 2 * A + n
      OBVIOUS
    <3>2. d \in Nat /\ o = 2 * (r.addr - Slaves[s][1].addr) + d
      BY <2>3, <2>4, <2>5
    <3> HIDE DEF o
    <3> QED
      BY <2>4, <3>1, <3>2
  <2>8. Data(f, o) = Own(s, 2 * Slaves[s][1].addr + o)
    BY <2>6 DEF Data, DataBytes
  <2>9. OwnByte(s, i, j) = Own(s, 2 * r.addr + d)
    BY DEF OwnByte, r, d
  <2> QED
    BY <1>2, <1>5, <1>7, <2>1, <2>2, <2>7, <2>8, <2>9
<1> QED
  BY <1>6, <1>7

LEMMA ValuesStep ==
    ASSUME GapsFit
    PROVE  IInv /\ ValuesInPlace /\ [Next]_vars => ValuesInPlace'
<1> SUFFICES ASSUME IInv, ValuesInPlace, [Next]_vars, Orderly', "failed" \notin trouble',
                    NEW s \in Ids, NEW i \in 1 .. Len(Slaves[s])
             PROVE  InPlace(s, i)'
  BY DEF ValuesInPlace
<1>a. TypeOK /\ OffsetBehind /\ Owner /\ OneAnswer
  BY DEF IInv
<1>b. Orderly
  BY <1>a, OrderlyBefore
<1>1. CASE Response
  <2>1. PICK r \in Responses(input) :
          pData' = IF r.got.len > 0 THEN Store(poll.s, poll.off, r.got.answer) ELSE pData
    BY <1>1 DEF Response
  <2>2. trouble' = trouble /\ poll.pc = "sent"
    BY <1>1 DEF Response
  <2>3. poll.off = SlavesBefore(poll.s) /\ poll.s \in Ids /\ DOMAIN pData = 0 .. Total - 1
    BY <1>a, <2>2 DEF OffsetBehind, TypeOK
  <2>4. InPlace(s, i)
    BY <1>b, <2>2 DEF ValuesInPlace
  <2>5. CASE ~(r.got.len > 0)
    BY <2>1, <2>4, <2>5 DEF InPlace, At
  <2>6. CASE r.got.len > 0
    <3>1. r.got.answer.type = "read" /\ r.got.answer.from = poll.s
      BY <1>a, <1>b, <2>2, <2>6, PollRead
    <3>2. pData' = Store(poll.s, SlavesBefore(poll.s), r.got.answer)
      BY <2>1, <2>3, <2>6
    <3>3. \A j \in 0 .. 2 * Slaves[s][i].num - 1 :
            At(s, i, j)' = IF s = poll.s THEN OwnByte(poll.s, i, j) ELSE At(s, i, j)
      BY <2>3, <3>1, <3>2, StoreFact
    <3>4. CASE s = poll.s
      BY <3>3, <3>4 DEF InPlace
    <3>5. CASE s # poll.s
      BY <2>4, <3>3, <3>5 DEF InPlace
    <3> QED
      BY <3>4, <3>5
  <2> QED
    BY <2>5, <2>6
<1>2. CASE ~Response
  <2>1. pData' = pData
    BY <1>2 DEF Next, ChannelTask, Worker, Client, StartRound, Request, RequestFails,
                WriteRequest, WriteFails, WriteResponse, Command, Arrive, vars
  <2>2. "failed" \notin trouble
    <3>1. trouble \subseteq trouble'
      BY <1>a, TroubleStays
    <3> QED
      BY <3>1
  <2>3. InPlace(s, i)
    BY <1>b, <2>2 DEF ValuesInPlace
  <2> QED
    BY <2>1, <2>3 DEF InPlace, At
<1> QED
  BY <1>1, <1>2

(* Registers of one word, as the answers to clients assume that count       *)
(* addresses by one.                                                       *)
OneWord == \A s \in Ids : \A i \in 1 .. Len(Slaves[s]) : Slaves[s][i].num = 1

Known == {Zero} \cup {Own(s, b) : s \in Ids, b \in Int}
Word(bytes, q) == <<bytes[2 * q + 1], bytes[2 * q + 2]>>

LEMMA MapFact ==
    /\ Map \in Seq([addr : Nat, s : Ids, i : Nat]) /\ Len(Map) \in Nat
    /\ DOMAIN Map = 1 .. Len(Map)
    /\ \A e \in DOMAIN Map : /\ Map[e].addr \in Nat /\ Map[e].s \in Ids
                             /\ Map[e].i \in 1 .. Len(Slaves[Map[e].s])
<1>1. Map \in Seq([addr : Nat, s : Ids, i : Nat])
  BY ChannelAssumption
<1>2. Len(Map) \in Nat /\ DOMAIN Map = 1 .. Len(Map)
  BY <1>1, LenProperties
<1>3. \A e \in DOMAIN Map : Map[e] \in [addr : Nat, s : Ids, i : Nat]
  BY <1>1, <1>2, ElementOfSeq
<1>4. \A e \in DOMAIN Map : Map[e].i \in DOMAIN Slaves[Map[e].s]
  BY ChannelAssumption
<1> QED
  BY <1>1, <1>2, <1>3, <1>4, SlavesFact

(* What a client gets of the register of an entry.                         *)
LEMMA ValueFact ==
    ASSUME OneWord, NEW f \in DOMAIN Map, InPlace(Map[f].s, Map[f].i)
    PROVE  /\ Value(Map[f].s, Map[f].i) \in Seq(Known) /\ Len(Value(Map[f].s, Map[f].i)) = 2
           /\ Word(Value(Map[f].s, Map[f].i), 0) \in {Gap, Proper(f)}
<1> DEFINE s == Map[f].s
           i == Map[f].i
           v == Value(s, i)
           r == Slaves[s][i]
<1>1. s \in Ids /\ i \in 1 .. Len(Slaves[s]) /\ i \in DOMAIN Slaves[s]
  BY MapFact, SlavesFact
<1>2. r.num = 1 /\ r.addr \in Nat
  BY <1>1, WordsFact DEF OneWord, Register
<1>3. Place[s][i] = SlavesBefore(s) + BytesBefore(Slaves[s], i)
  BY <1>1 DEF Place
<1>4. SlavesBefore(s) + BytesBefore(Slaves[s], i) \in Int
  <2>1. i \in 1 .. Len(Slaves[s]) + 1 /\ s \in 1 .. Len(Slaves) + 1
    BY <1>1, SlavesFact
  <2> HIDE DEF s, i
  <2>2. BytesBefore(Slaves[s], i) \in Nat
    BY <1>1, <2>1, BytesFact
  <2>3. SlavesBefore(s) \in Nat
    BY <2>1, SlavesBeforeFact
  <2> QED
    BY <2>2, <2>3
<1>5. v = [j \in 1 .. 2 |-> At(s, i, j - 1)]
  <2> DEFINE p == SlavesBefore(s) + BytesBefore(Slaves[s], i)
  <2>1. v = [j \in 1 .. 2 * r.num |-> pData[p + j - 1]]
    BY <1>3 DEF Value
  <2>2. \A j \in 1 .. 2 : At(s, i, j - 1) = pData[p + (j - 1)]
    BY DEF At
  <2>3. \A j \in 1 .. 2 : p + j - 1 = p + (j - 1)
    BY <1>4
  <2>4. 2 * r.num = 2
    BY <1>2
  <2> HIDE DEF p, r, v
  <2> QED
    BY <2>1, <2>2, <2>3, <2>4
<1>6. Own(s, 2 * r.addr) \in Known /\ Own(s, 2 * r.addr + 1) \in Known /\ Zero \in Known
  BY SMTT(30), <1>1, <1>2 DEF Known
<1>7. /\ OwnByte(s, i, 0) = Own(s, 2 * r.addr + (IF r.order = "BA" THEN 1 ELSE 0))
      /\ OwnByte(s, i, 1) = Own(s, 2 * r.addr + (IF r.order = "BA" THEN 0 ELSE 1))
  BY <1>2 DEF OwnByte
<1>8. \/ At(s, i, 0) = Zero /\ At(s, i, 1) = Zero
      \/ At(s, i, 0) = OwnByte(s, i, 0) /\ At(s, i, 1) = OwnByte(s, i, 1)
  <2>1. 0 \in 0 .. 2 * r.num - 1 /\ 1 \in 0 .. 2 * r.num - 1
    BY <1>2
  <2> QED
    BY <2>1 DEF InPlace
<1>9. Proper(f) = [j \in 1 .. 2 |-> OwnByte(s, i, j - 1)]
  <2>1. Proper(f) = [j \in 1 .. 2 * r.num |->
          Own(s, 2 * r.addr + (IF r.order = "BA" THEN 2 * r.num - j ELSE j - 1))]
    BY DEF Proper
  <2>2. \A j \in 1 .. 2 : OwnByte(s, i, j - 1)
          = Own(s, 2 * r.addr + (IF r.order = "BA" THEN 2 * r.num - j ELSE j - 1))
    <3>1. \A j \in 1 .. 2 : 2 * r.num - 1 - (j - 1) = 2 * r.num - j
      BY <1>2
    <3> QED
      BY <3>1 DEF OwnByte
  <2>3. 2 * r.num = 2
    BY <1>2
  <2> HIDE DEF r
  <2> QED
    BY <2>1, <2>2, <2>3
<1>10. v[1] = At(s, i, 0) /\ v[2] = At(s, i, 1) /\ v[1] \in Known /\ v[2] \in Known
  <2>1. v[1] = At(s, i, 0) /\ v[2] = At(s, i, 1)
    <3> HIDE DEF v
    <3> QED
      BY <1>5
  <2>2. OwnByte(s, i, 0) \in Known /\ OwnByte(s, i, 1) \in Known
    BY <1>2, <1>6, <1>7
  <2> QED
    BY <1>6, <1>8, <2>1, <2>2
<1> HIDE DEF v, r, s, i
<1>11. v \in Seq(Known) /\ Len(v) = 2
  <2>1. v \in [1 .. 2 -> Known]
    BY <1>5, <1>10
  <2> QED
    BY <2>1, <1>5
<1>12. Word(v, 0) = <<v[1], v[2]>>
  BY DEF Word
<1>13. ASSUME At(s, i, 0) = Zero, At(s, i, 1) = Zero
       PROVE  Word(v, 0) = Gap
  BY <1>10, <1>12, <1>13 DEF Gap
<1>14. ASSUME At(s, i, 0) = OwnByte(s, i, 0), At(s, i, 1) = OwnByte(s, i, 1)
       PROVE  Word(v, 0) = Proper(f)
  <2>1. Proper(f) = <<OwnByte(s, i, 0), OwnByte(s, i, 1)>>
    BY <1>9
  <2> QED
    BY <1>10, <1>12, <1>14, <2>1
<1>15. Word(v, 0) \in {Gap, Proper(f)}
  BY <1>8, <1>13, <1>14
<1> QED
  BY <1>11, <1>15 DEF v, s, i

(* The entries a read collects, one word after the other.                  *)
Collects(u, e, m) ==
    u = [k \in 0 .. m |-> IF k = 0 THEN [e |-> e, bytes |-> Value(Map[e].s, Map[e].i)]
                          ELSE More(u[k - 1], Map[e].addr + k)]

LEMMA Collected ==
    ASSUME NEW m \in Nat, NEW e
    PROVE  \E u : Collects(u, e, m)
<1> DEFINE First == [e |-> e, bytes |-> Value(Map[e].s, Map[e].i)]
           S == {k \in 0 .. m : \E u : Collects(u, e, k)}
<1>1. 0 \in S
  <2> DEFINE u == [i \in 0 .. 0 |-> First]
  <2>1. u = [k \in 0 .. 0 |-> IF k = 0 THEN First ELSE More(u[k - 1], Map[e].addr + k)]
    OBVIOUS
  <2>2. Collects(u, e, 0)
    BY <2>1 DEF Collects
  <2> QED
    BY <2>2
<1>2. ASSUME NEW k \in 0 + 1 .. m, k - 1 \in S
      PROVE  k \in S
  <2>1. PICK u : Collects(u, e, k - 1)
    BY <1>2
  <2>2. k \in 1 .. m /\ k - 1 \in Nat
    OBVIOUS
  <2> DEFINE v == [i \in 0 .. k |-> IF i = k THEN More(u[k - 1], Map[e].addr + k) ELSE u[i]]
  <2>3. ASSUME NEW i \in 0 .. k
        PROVE  v[i] = IF i = 0 THEN First ELSE More(v[i - 1], Map[e].addr + i)
    <3>1. CASE i = k
      BY <3>1, <2>2
    <3>2. CASE i # k
      <4>1. i \in 0 .. k - 1 /\ v[i] = u[i]
        BY <3>2, <2>2
      <4>2. u[i] = IF i = 0 THEN First ELSE More(u[i - 1], Map[e].addr + i)
        BY <4>1, <2>1 DEF Collects
      <4>3. i # 0 => v[i - 1] = u[i - 1]
        BY <4>1, <2>2
      <4> HIDE DEF v, First
      <4> QED
        BY <4>1, <4>2, <4>3
    <3> QED
      BY <3>1, <3>2
  <2>4. v = [i \in 0 .. k |-> v[i]]
    OBVIOUS
  <2>5. Collects(v, e, k)
    <3>1. v = [i \in 0 .. k |-> IF i = 0 THEN First ELSE More(v[i - 1], Map[e].addr + i)]
      <4> HIDE DEF v, First
      <4> QED
        BY <2>3, <2>4
    <3> HIDE DEF v
    <3> QED
      BY <3>1 DEF Collects
  <2> QED
    BY <2>2, <2>5
<1>3. 0 .. m \subseteq S
  <2> HIDE DEF S
  <2> QED
    BY <1>1, <1>2, UpTo
<1>4. m \in S
  BY <1>3
<1> QED
  BY <1>4

(* A word more.                                                            *)
LEMMA OneMore ==
    ASSUME NEW k \in Nat, NEW b \in Seq(Known), Len(b) = 2 * (k + 1),
           NEW v \in Seq(Known), Len(v) = 2
    PROVE  /\ b \o v \in Seq(Known) /\ Len(b \o v) = 2 * (k + 2)
           /\ \A q \in 0 .. k : Word(b \o v, q) = Word(b, q)
           /\ Word(b \o v, k + 1) = Word(v, 0)
<1>1. /\ b \o v \in Seq(Known) /\ Len(b \o v) = 2 * (k + 2)
      /\ \A i \in 1 .. 2 * (k + 2) :
           (b \o v)[i] = IF i <= 2 * (k + 1) THEN b[i] ELSE v[i - 2 * (k + 1)]
  <2>1. Len(b) + Len(v) = 2 * (k + 2)
    OBVIOUS
  <2>2. /\ b \o v \in Seq(Known)
        /\ Len(b \o v) = Len(b) + Len(v)
        /\ \A i \in 1 .. Len(b) + Len(v) :
             (b \o v)[i] = IF i <= Len(b) THEN b[i] ELSE v[i - Len(b)]
    BY ConcatProperties
  <2> QED
    BY <2>1, <2>2
<1>2. ASSUME NEW q \in 0 .. k
      PROVE  Word(b \o v, q) = Word(b, q)
  <2>1. /\ 2 * q + 1 \in 1 .. 2 * (k + 2) /\ 2 * q + 1 <= 2 * (k + 1)
        /\ 2 * q + 2 \in 1 .. 2 * (k + 2) /\ 2 * q + 2 <= 2 * (k + 1)
    OBVIOUS
  <2> QED
    BY <1>1, <2>1 DEF Word
<1>3. Word(b \o v, k + 1) = Word(v, 0)
  <2>1. /\ 2 * (k + 1) + 1 \in 1 .. 2 * (k + 2) /\ ~(2 * (k + 1) + 1 <= 2 * (k + 1))
        /\ 2 * (k + 1) + 2 \in 1 .. 2 * (k + 2) /\ ~(2 * (k + 1) + 2 <= 2 * (k + 1))
        /\ (2 * (k + 1) + 1) - 2 * (k + 1) = 2 * 0 + 1
        /\ (2 * (k + 1) + 2) - 2 * (k + 1) = 2 * 0 + 2
    OBVIOUS
  <2> QED
    BY <1>1, <2>1 DEF Word
<1> QED
  BY <1>1, <1>2, <1>3

(* The word is zero, or of a register with the address of the q-th word     *)
(* behind entry e.                                                         *)
Right(word, e, q) == word = Gap \/ \E f \in DOMAIN Map : Map[f].addr = Map[e].addr + q /\ word = Proper(f)

Walked(acc, e, k) ==
    /\ acc = [e |-> acc.e, bytes |-> acc.bytes] /\ acc.e \in DOMAIN Map
    /\ acc.bytes \in Seq(Known)
    /\ \E c \in 0 .. k : /\ Len(acc.bytes) = 2 * (c + 1)
                         /\ c = k \/ acc.e = Len(Map)
                         /\ \A q \in 0 .. c : Right(Word(acc.bytes, q), e, q)

LEMMA WalkedBy ==
    ASSUME NEW e, NEW k \in Nat, NEW g \in DOMAIN Map, NEW b \in Seq(Known),
           Len(b) = 2 * (k + 1), \A q \in 0 .. k : Right(Word(b, q), e, q),
           NEW acc, acc = [e |-> g, bytes |-> b]
    PROVE  Walked(acc, e, k)
<1>1. acc.e = g /\ acc.bytes = b /\ acc = [e |-> acc.e, bytes |-> acc.bytes]
  OBVIOUS
<1>2. k \in 0 .. k
  OBVIOUS
<1> QED
  BY <1>1, <1>2 DEF Walked

LEMMA WalkStep ==
    ASSUME OneWord, \A s \in Ids : \A i \in 1 .. Len(Slaves[s]) : InPlace(s, i),
           NEW e \in DOMAIN Map, NEW k \in Nat, NEW acc, Walked(acc, e, k)
    PROVE  Walked(More(acc, Map[e].addr + (k + 1)), e, k + 1)
<1> DEFINE addr == Map[e].addr + (k + 1)
<1>1. PICK c \in 0 .. k : /\ Len(acc.bytes) = 2 * (c + 1)
                          /\ c = k \/ acc.e = Len(Map)
                          /\ \A q \in 0 .. c : Right(Word(acc.bytes, q), e, q)
  BY DEF Walked
<1>2. /\ acc = [e |-> acc.e, bytes |-> acc.bytes] /\ acc.e \in DOMAIN Map
      /\ acc.bytes \in Seq(Known)
  BY DEF Walked
<1>3. CASE acc.e = Len(Map)
  <2>1. More(acc, addr) = acc
    BY <1>3 DEF More
  <2>2. c \in 0 .. k + 1
    OBVIOUS
  <2>3. Walked(acc, e, k + 1)
    BY <1>1, <1>2, <1>3, <2>2 DEF Walked
  <2> QED
    BY <2>1, <2>3
<1>4. CASE acc.e # Len(Map)
  <2>0. c = k /\ Len(acc.bytes) = 2 * (k + 1)
    BY <1>1, <1>4
  <2>1. CASE Map[acc.e + 1].addr # addr
    <3>1. More(acc, addr) = [acc EXCEPT !.bytes = acc.bytes \o Gap]
      BY <1>4, <2>1 DEF More
    <3>2. More(acc, addr) = [e |-> acc.e, bytes |-> acc.bytes \o Gap]
      BY <1>2, <3>1
    <3>3. Gap \in Seq(Known) /\ Len(Gap) = 2 /\ Word(Gap, 0) = Gap
      BY DEF Gap, Known, Word
    <3>4. /\ acc.bytes \o Gap \in Seq(Known) /\ Len(acc.bytes \o Gap) = 2 * (k + 2)
          /\ \A q \in 0 .. k : Word(acc.bytes \o Gap, q) = Word(acc.bytes, q)
          /\ Word(acc.bytes \o Gap, k + 1) = Gap
      BY <1>2, <2>0, <3>3, OneMore
    <3>5. \A q \in 0 .. k + 1 : Right(Word(acc.bytes \o Gap, q), e, q)
      <4>1. \A q \in 0 .. k : Right(Word(acc.bytes \o Gap, q), e, q)
        BY <1>1, <2>0, <3>4
      <4>2. Right(Word(acc.bytes \o Gap, k + 1), e, k + 1)
        BY <3>4 DEF Right
      <4>3. \A q \in 0 .. k + 1 : q \in 0 .. k \/ q = k + 1
        OBVIOUS
      <4> QED
        BY <4>1, <4>2, <4>3
    <3>6. k + 1 \in Nat /\ 2 * (k + 2) = 2 * ((k + 1) + 1)
      OBVIOUS
    <3> QED
      BY <1>2, <3>2, <3>4, <3>5, <3>6, WalkedBy
  <2>2. CASE Map[acc.e + 1].addr = addr
    <3> DEFINE g == acc.e + 1
               v == Value(Map[g].s, Map[g].i)
    <3>1. More(acc, addr) = [e |-> g, bytes |-> acc.bytes \o v]
      BY <1>4, <2>2 DEF More
    <3>2. g \in DOMAIN Map
      <4>1. DOMAIN Map = 1 .. Len(Map) /\ Len(Map) \in Nat
        BY MapFact
      <4> QED
        BY <1>2, <1>4, <4>1
    <3>3. InPlace(Map[g].s, Map[g].i)
      BY <3>2, MapFact
    <3>4. v \in Seq(Known) /\ Len(v) = 2 /\ Word(v, 0) \in {Gap, Proper(g)}
      BY <3>2, <3>3, ValueFact
    <3> HIDE DEF v, g
    <3>5. /\ acc.bytes \o v \in Seq(Known) /\ Len(acc.bytes \o v) = 2 * (k + 2)
          /\ \A q \in 0 .. k : Word(acc.bytes \o v, q) = Word(acc.bytes, q)
          /\ Word(acc.bytes \o v, k + 1) = Word(v, 0)
      BY <1>2, <2>0, <3>4, OneMore
    <3>6. \A q \in 0 .. k + 1 : Right(Word(acc.bytes \o v, q), e, q)
      <4>1. \A q \in 0 .. k : Right(Word(acc.bytes \o v, q), e, q)
        BY <1>1, <2>0, <3>5
      <4>2. Right(Word(acc.bytes \o v, k + 1), e, k + 1)
        BY <2>2, <3>2, <3>4, <3>5 DEF Right, g
      <4>3. \A q \in 0 .. k + 1 : q \in 0 .. k \/ q = k + 1
        OBVIOUS
      <4> QED
        BY <4>1, <4>2, <4>3
    <3>7. k + 1 \in Nat /\ 2 * (k + 2) = 2 * ((k + 1) + 1)
      OBVIOUS
    <3> QED
      BY <3>1, <3>2, <3>5, <3>6, <3>7, WalkedBy
  <2> QED
    BY <2>1, <2>2
<1> QED
  BY <1>3, <1>4

LEMMA Walk ==
    ASSUME OneWord, \A s \in Ids : \A i \in 1 .. Len(Slaves[s]) : InPlace(s, i),
           NEW e \in DOMAIN Map, NEW m \in Nat, NEW u, Collects(u, e, m)
    PROVE  Walked(u[m], e, m)
<1> DEFINE S == {k \in 0 .. m : Walked(u[k], e, k)}
<1>0. \A k \in 0 .. m : u[k] = IF k = 0 THEN [e |-> e, bytes |-> Value(Map[e].s, Map[e].i)]
                               ELSE More(u[k - 1], Map[e].addr + k)
  BY DEF Collects
<1>1. 0 \in S
  <2> DEFINE v == Value(Map[e].s, Map[e].i)
  <2>1. u[0] = [e |-> e, bytes |-> v]
    BY <1>0
  <2>2. v \in Seq(Known) /\ Len(v) = 2 /\ Word(v, 0) \in {Gap, Proper(e)}
    BY MapFact, ValueFact
  <2> HIDE DEF v
  <2>3. Map[e].addr + 0 = Map[e].addr
    BY MapFact
  <2>4. Right(Word(v, 0), e, 0)
    BY <2>2, <2>3 DEF Right
  <2>5. Walked(u[0], e, 0)
    <3>1. 0 \in 0 .. 0 /\ Len(v) = 2 * (0 + 1) /\ \A q \in 0 .. 0 : q = 0
      BY <2>2
    <3> QED
      BY <2>1, <2>2, <2>4, <3>1 DEF Walked
  <2> QED
    BY <2>5
<1>2. ASSUME NEW k \in 0 + 1 .. m, k - 1 \in S
      PROVE  k \in S
  <2>1. k - 1 \in Nat /\ (k - 1) + 1 = k /\ k \in 0 .. m /\ k # 0
    OBVIOUS
  <2>2. Walked(u[k - 1], e, k - 1)
    BY <1>2
  <2>3. Walked(More(u[k - 1], Map[e].addr + ((k - 1) + 1)), e, (k - 1) + 1)
    BY <2>1, <2>2, WalkStep
  <2>4. u[k] = More(u[k - 1], Map[e].addr + k)
    BY <1>0, <2>1
  <2> QED
    BY <2>1, <2>3, <2>4
<1>3. 0 .. m \subseteq S
  <2> HIDE DEF S
  <2>1. \A k \in 0 + 1 .. m : k - 1 \in S => k \in S
    BY <1>2
  <2>2. 0 \in Int /\ m \in Int /\ 0 <= 0
    OBVIOUS
  <2> QED
    BY <1>1, <2>1, <2>2, UpTo
<1> QED
  BY <1>3

(* What is read is what was collected, as far as it goes.                  *)
ReadFrom(u, e, n) ==
    /\ Collects(u, e, n - 1)
    /\ Read(e, n) = [j \in 1 .. 2 * n |->
         IF j <= Len(u[n - 1].bytes) THEN u[n - 1].bytes[j] ELSE Zero]

LEMMA ReadIs ==
    ASSUME NEW e, NEW n \in Nat \ {0}
    PROVE  \E u : ReadFrom(u, e, n)
<1> DEFINE c == CHOOSE u : Collects(u, e, n - 1)
<1>1. Collects(c, e, n - 1)
  BY Collected
<1>2. Read(e, n) = [j \in 1 .. 2 * n |->
        IF j <= Len(c[n - 1].bytes) THEN c[n - 1].bytes[j] ELSE Zero]
  BY DEF Read, Collects
<1>3. ReadFrom(c, e, n)
  BY <1>1, <1>2 DEF ReadFrom
<1> HIDE DEF c
<1> QED
  BY <1>3

LEMMA ReadFact ==
    ASSUME OneWord, \A s \in Ids : \A i \in 1 .. Len(Slaves[s]) : InPlace(s, i),
           NEW e \in DOMAIN Map, NEW n \in Nat \ {0}, NEW k \in 0 .. n - 1
    PROVE  Right(SubSeq(Read(e, n), 2 * k + 1, 2 * k + 2), e, k)
<1>a. PICK u : ReadFrom(u, e, n)
  BY ReadIs
<1>1. /\ Collects(u, e, n - 1)
      /\ Read(e, n) = [j \in 1 .. 2 * n |->
           IF j <= Len(u[n - 1].bytes) THEN u[n - 1].bytes[j] ELSE Zero]
  BY <1>a DEF ReadFrom
<1> DEFINE all == u[n - 1].bytes
           words == Read(e, n)
<1>2. n - 1 \in Nat
  OBVIOUS
<1>3. Walked(u[n - 1], e, n - 1)
  BY <1>1, <1>2, Walk
<1>4. PICK c \in 0 .. n - 1 : /\ Len(all) = 2 * (c + 1)
                              /\ \A q \in 0 .. c : Right(Word(all, q), e, q)
  BY <1>3 DEF Walked
<1>5. all \in Seq(Known) /\ Zero \in Known
  BY <1>3 DEF Walked, Known
<1>6. words = [j \in 1 .. 2 * n |-> IF j <= Len(all) THEN all[j] ELSE Zero]
  BY <1>1
<1> HIDE DEF all, words
<1>7. 2 * k + 1 \in 1 .. 2 * n /\ 2 * k + 2 \in 1 .. 2 * n
  OBVIOUS
<1>8. SubSeq(words, 2 * k + 1, 2 * k + 2) = <<words[2 * k + 1], words[2 * k + 2]>>
  <2>1. \A j \in 1 .. 2 : (2 * k + 1) + j - 1 = 2 * k + j
    OBVIOUS
  <2>2. 1 + (2 * k + 2) - (2 * k + 1) = 2
    OBVIOUS
  <2>3. \A i \in 2 * k + 1 .. 2 * k + 2 : words[i] \in Known
    <3>1. \A i \in 2 * k + 1 .. 2 * k + 2 : i \in 1 .. 2 * n
      OBVIOUS
    <3>2. \A i \in 1 .. 2 * n : i <= Len(all) => all[i] \in Known
      BY <1>4, <1>5, ElementOfSeq
    <3> QED
      BY <1>5, <1>6, <3>1, <3>2
  <2> DEFINE sub == SubSeq(words, 2 * k + 1, 2 * k + 2)
  <2>4. /\ 2 * k + 1 \in Int /\ 2 * k + 2 \in Int /\ 2 * k + 1 <= 2 * k + 2
        /\ (2 * k + 2) - (2 * k + 1) + 1 = 2
    OBVIOUS
  <2>5. /\ sub \in Seq(Known) /\ Len(sub) = 2
        /\ \A i \in 1 .. 2 : sub[i] = words[(2 * k + 1) + i - 1]
    BY <2>3, <2>4, SubSeqProperties
  <2>6. sub[1] = words[2 * k + 1] /\ sub[2] = words[2 * k + 2]
    BY <2>1, <2>5
  <2> HIDE DEF sub
  <2>7. sub = <<words[2 * k + 1], words[2 * k + 2]>>
    BY <2>5, <2>6
  <2> QED
    BY <2>7 DEF sub
<1>9. CASE k <= c
  <2>1. 2 * k + 1 <= Len(all) /\ 2 * k + 2 <= Len(all) /\ k \in 0 .. c
    BY <1>4, <1>9
  <2>2. words[2 * k + 1] = all[2 * k + 1] /\ words[2 * k + 2] = all[2 * k + 2]
    BY <1>6, <1>7, <2>1
  <2>3. Right(Word(all, k), e, k)
    BY <1>4, <2>1
  <2> QED
    BY <1>8, <2>2, <2>3 DEF Word, words
<1>10. CASE ~(k <= c)
  <2>1. ~(2 * k + 1 <= Len(all)) /\ ~(2 * k + 2 <= Len(all))
    BY <1>4, <1>10
  <2>2. words[2 * k + 1] = Zero /\ words[2 * k + 2] = Zero
    BY <1>6, <1>7, <2>1
  <2> QED
    BY <1>8, <2>2 DEF Right, Gap, words
<1> QED
  BY <1>9, <1>10

(* On an orderly line where no request of the task failed, every register  *)
(* of any number of words is zero in pData or has its own bytes there, in   *)
(* their order: where the answers lay (u8Interval), where the task put      *)
(* them (u16Offset) and where the worker looks for them                    *)
(* (_ENNModBus_Serch_FunCode_Data) are one layout, as long as the gaps     *)
(* between the registers fit u8Interval.                                   *)
THEOREM InTheirPlaces ==
    ASSUME GapsFit
    PROVE  Spec => []ValuesInPlace
<1>1. Init => ValuesInPlace
  <2> SUFFICES ASSUME Init, NEW s \in Ids, NEW i \in 1 .. Len(Slaves[s])
               PROVE  InPlace(s, i)
    BY DEF ValuesInPlace
  <2>1. ASSUME NEW j \in 0 .. 2 * Slaves[s][i].num - 1
        PROVE  At(s, i, j) = Zero
    <3>1. SlavesBefore(s) + BytesBefore(Slaves[s], i) + j \in 0 .. Total - 1
      BY IndexFact
    <3> QED
      BY <3>1 DEF Init, At
  <2> QED
    BY <2>1 DEF InPlace
<1>2. IInv /\ ValuesInPlace /\ [Next]_vars => ValuesInPlace'
  BY ValuesStep
<1> QED
  BY <1>1, <1>2, Inductive, PTL DEF Spec

(* Of such a line a client reads in each word the register with its        *)
(* address, or zero, if each register is one word.                         *)
THEOREM ReadRight ==
    ASSUME GapsFit, OneWord
    PROVE  Spec => []ReadsItsRegister
<1>1. ValuesInPlace => ReadsItsRegister
  <2> SUFFICES ASSUME ValuesInPlace, Orderly, "failed" \notin trouble,
                      NEW e \in DOMAIN Map, NEW n \in 1 .. MaxWords, NEW k \in 0 .. n - 1
               PROVE  LET own == {f \in DOMAIN Map : Map[f].addr = Map[e].addr + k}
                          word == SubSeq(Read(e, n), 2 * k + 1, 2 * k + 2)
                      IN  word = Gap \/ \E f \in own : word = Proper(f)
    BY DEF ReadsItsRegister
  <2>1. \A s \in Ids : \A i \in 1 .. Len(Slaves[s]) : InPlace(s, i)
    BY DEF ValuesInPlace
  <2>2. n \in Nat \ {0}
    OBVIOUS
  <2>3. Right(SubSeq(Read(e, n), 2 * k + 1, 2 * k + 2), e, k)
    BY <2>1, <2>2, ReadFact
  <2> QED
    BY <2>3 DEF Right
<1> QED
  BY <1>1, InTheirPlaces, PTL
=============================================================================
