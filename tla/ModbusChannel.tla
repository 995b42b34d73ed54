---------------------------- MODULE ModbusChannel ----------------------------
(***************************************************************************)
(* A serial line of Modbus slaves (modbus/src/ModBus_Slave_Table.c): its   *)
(* channel task reads the holding registers of one slave after the other   *)
(* into pData, the worker MSG_RX (modbus/src/ModBus_Module.c) writes       *)
(* registers and coils for the clients on the same line, under the line's  *)
(* mutex, and answers their reads from pData.  Neither compares an answer  *)
(* with its request or empties the input of the UART first, so what comes  *)
(* late is the answer to the next request.                                 *)
(*                                                                         *)
(* The bytes a slave holds are named by slave and position.  An answer     *)
(* arrives whole; how much a read that does not begin with the head of an  *)
(* answer takes depends on the values of the bytes, and is open here.      *)
(***************************************************************************)
EXTENDS Integers, Sequences, FiniteSets

CONSTANTS
  Slaves,      \* for each slave its registers: address, length in words, byte order
  Before,      \* Offset[channel]: the words of the channels before this one
  Map,         \* pModbus_Reg_Map: client address, slave and register of each entry
  MaxWords,    \* bound: words a client asks for
  MaxTroubles, \* bound: what goes wrong on the line
  MaxBehind,   \* bound: answers among which a read out of step finds no end
  MaxWrites    \* bound: writes of clients

Ids == DOMAIN Slaves
Register == [addr : Nat, num : Nat \ {0}, order : {"AB", "BA"}]

ASSUME ChannelAssumption ==
  /\ Slaves \in Seq(Seq(Register)) /\ Slaves # <<>> /\ \A s \in Ids : Slaves[s] # <<>>
  /\ {Before, MaxWords, MaxTroubles, MaxBehind, MaxWrites} \subseteq Nat
  /\ Map \in Seq([addr : Nat, s : Ids, i : Nat])
  /\ \A e \in DOMAIN Map : Map[e].i \in DOMAIN Slaves[Map[e].s]

VARIABLES
  poll,       \* the channel task: where it is, slave, u16Offset
  worker,     \* MSG_RX: where it is, the write it carries out
  mutex,      \* MBS_mutexs[channel]: its owner
  input,      \* the answers in the UART; cut: the first was read in part
  late,       \* answers still to come
  pData,      \* the values of all holding registers
  u16Status,  \* of each slave: 1 works, 0 does not
  executed,   \* the slave carried out the current write
  told,       \* what the client was told of it
  trouble,    \* what went wrong so far
  troubles, writes   \* counters of the bounds

line == <<input, late, trouble, troubles>>
vars == <<poll, worker, mutex, line, pData, u16Status, executed, told, writes>>

-----------------------------------------------------------------------------
(* The layout of the values.                                               *)

\* f[1] + ... + f[n].
Sum(f, n) == LET upTo[i \in 0 .. n] == IF i = 0 THEN 0 ELSE upTo[i - 1] + f[i] IN upTo[n]

\* Mutant: the registers of an answer lie side by side.
Interval_None(regs, i) == 0

\* u8Interval, the words between a register and the one before.
Interval(regs, i) ==
  IF i = 1 THEN 0 ELSE (regs[i].addr - regs[i - 1].addr - regs[i - 1].num) % 256

\* u16Count, the words that are asked for, and the bytes that are stored.
Intervals(regs) == [i \in DOMAIN regs |-> Interval(regs, i)]
Words(regs) == [i \in DOMAIN regs |-> regs[i].num]
Count(regs) == Sum(Intervals(regs), Len(regs)) + Sum(Words(regs), Len(regs))
BytesBefore(regs, i) == 2 * Sum(Words(regs), i - 1)
Bytes(regs) == BytesBefore(regs, Len(regs) + 1)

\* The bytes of the slaves before slave s, and of all.
SlavesBefore(s) == 2 * Before + Sum([t \in Ids |-> Bytes(Slaves[t])], s - 1)
Total == SlavesBefore(Len(Slaves) + 1)

\* _ENNModBus_Serch_FunCode_Data: where the worker finds register i of slave s.
Place == [s \in Ids |-> [i \in DOMAIN Slaves[s] |->
  SlavesBefore(s) + BytesBefore(Slaves[s], i)]]

\* pBuf: where the task finds register i in the data of an answer.
Source(regs, i) ==
  2 * Sum(Intervals(regs), i) + BytesBefore(regs, i)

\* The byte of slave s at position b, one that was never written, and others.
Own(s, b) == <<"of", s, b>>
Zero == <<"zero">>
Junk == <<"junk">>

-----------------------------------------------------------------------------
(* Answers on the line.                                                    *)

Writes == {"coil", "register", "registers", "scattered"}
Answer(type, s) == [type |-> type, from |-> s]
Answers == [type : {"read", "exception", "damaged", "garbled"} \cup Writes, from : Ids]

DataBytes(f) == IF f.type = "read" THEN 2 * Count(Slaves[f.from]) ELSE 6

\* Byte b of the data the answer f leaves in the caller's buffer.
Data(f, b) ==
  IF f.type = "read" /\ b < DataBytes(f) THEN Own(f.from, 2 * Slaves[f.from][1].addr + b)
  ELSE Junk

Nothing == [len |-> 0, answer |-> Answer("damaged", 1)]

\* What the UART keeps from answer k on, and what a read returns that fails.
From(in, k) == SubSeq(in.answers, k, Len(in.answers))
Whole(in, k) == [answers |-> From(in, k), cut |-> FALSE]
Torn(in, k) == [answers |-> From(in, k), cut |-> TRUE]
Failed(rests) == {[got |-> Nothing, rest |-> rest] : rest \in rests}

\* ENNModBus_Response: what the read of an answer may return and leave.  The
\* data or the check sum may be damaged, and the answer is read and refused;
\* an exception is given up after two of its bytes.
Responses(in) ==
  IF in.answers = <<>> THEN Failed({in})
  ELSE LET f == Head(in.answers) IN
       IF in.cut \/ f.type = "garbled"
         THEN Failed({Torn(in, 1) : k \in Len(in.answers) .. MaxBehind}
                     \cup {Torn(in, k) : k \in 2 .. Len(in.answers)}
                     \cup {Whole(in, k) : k \in 2 .. Len(in.answers) + 1})
       ELSE IF f.type = "exception" THEN Failed({Torn(in, 1)})
       ELSE IF f.type = "damaged" THEN Failed({Whole(in, 2)})
       ELSE {[got |-> [len |-> IF f.type = "read" THEN DataBytes(f) ELSE 8, answer |-> f],
              rest |-> Whole(in, 2)]}

Received(f) == input' = [input EXCEPT !.answers = Append(@, f)]

Goes(wrong) == /\ troubles < MaxTroubles
               /\ troubles' = troubles + 1
               /\ trouble' = trouble \cup {wrong}

\* The slave gets the request and its answer comes at once ...
Prompt(f) == Received(f) /\ UNCHANGED <<late, trouble, troubles>>
\* ... after the task has given up, changed (an exception, damaged data, a
\* garbled head), or never.
Delayed(f) == Goes("late") /\ late' = Append(late, f) /\ UNCHANGED input
Changed(f, how) == Goes(how) /\ Received(Answer(how, f.from)) /\ UNCHANGED late
Lost == Goes("lost") /\ UNCHANGED <<input, late>>

Arrive ==
  /\ late # <<>>
  /\ Received(Head(late))
  /\ late' = Tail(late)
  /\ UNCHANGED <<poll, worker, mutex, pData, u16Status, executed, told, trouble, troubles, writes>>

-----------------------------------------------------------------------------
(* The channel task.                                                       *)

Nobody == "nobody"

Init ==
  /\ poll = [pc |-> "sleep", s |-> 1, off |-> 2 * Before]
  /\ worker = [pc |-> "idle", kind |-> "coil", s |-> 1]
  /\ mutex = Nobody
  /\ input = [answers |-> <<>>, cut |-> FALSE] /\ late = <<>>
  /\ pData = [b \in 0 .. Total - 1 |-> Zero]
  /\ u16Status = [s \in Ids |-> 0]
  /\ executed = FALSE /\ told = {}
  /\ trouble = {} /\ troubles = 0 /\ writes = 0

\* Mutant: the offset of the last round stays.
StartRound_Offset ==
  /\ poll.pc = "sleep"
  /\ poll' = [poll EXCEPT !.pc = "lock", !.s = 1]
  /\ UNCHANGED <<worker, mutex, line, pData, u16Status, executed, told, writes>>

StartRound ==
  /\ poll.pc = "sleep"
  /\ poll' = [pc |-> "lock", s |-> 1, off |-> 2 * Before]
  /\ UNCHANGED <<worker, mutex, line, pData, u16Status, executed, told, writes>>

\* The next slave, with its values from offset off on.
NextSlave(off) ==
  poll' = IF poll.s = Len(Slaves) THEN [poll EXCEPT !.pc = "sleep", !.off = off]
          ELSE [pc |-> "lock", s |-> poll.s + 1, off |-> off]

\* ENNModBus_Request, under the mutex.
Request ==
  /\ poll.pc = "lock" /\ mutex = Nobody
  /\ mutex' = "poll"
  /\ poll' = [poll EXCEPT !.pc = "sent"]
  /\ LET f == Answer("read", poll.s) IN
       \/ Prompt(f) \/ Delayed(f) \/ Lost
       \/ \E how \in {"exception", "damaged", "garbled"} : Changed(f, how)
  /\ UNCHANGED <<worker, pData, u16Status, executed, told, writes>>

\* The write on the line fails: u16Offset stays where it is.
RequestFails ==
  /\ poll.pc = "lock" /\ mutex = Nobody
  /\ Goes("failed")
  /\ u16Status' = [u16Status EXCEPT ![poll.s] = 0]
  /\ NextSlave(poll.off)
  /\ UNCHANGED <<worker, mutex, input, late, pData, executed, told, writes>>

\* For each byte stored of slave s the byte of the answer that goes there: the
\* bytes of a register come in the order of the answer, those of "BA" reversed.
Origin == [s \in Ids |->
  LET regs == Slaves[s] IN
  [b \in 0 .. Bytes(regs) - 1 |->
     LET i == CHOOSE k \in DOMAIN regs : b \in BytesBefore(regs, k) .. BytesBefore(regs, k + 1) - 1
         j == b - BytesBefore(regs, i)
     IN  Source(regs, i) + (IF regs[i].order = "BA" THEN 2 * regs[i].num - 1 - j ELSE j)]]

\* The values of slave s from offset off on, out of the answer f.
Store(s, off, f) ==
  [b \in DOMAIN pData |->
     IF b - off \in DOMAIN Origin[s] THEN Data(f, Origin[s][b - off]) ELSE pData[b]]

\* Mutant: a slave that does not answer has no place in pData.
Behind_Silent(off, regs, len) == IF len > 0 THEN off + Bytes(regs) ELSE off

\* u16Offset behind the values of the slave, whether it answered or not.
Behind(off, regs, len) == off + Bytes(regs)

Response ==
  /\ poll.pc = "sent"
  /\ mutex' = Nobody
  /\ \E r \in Responses(input) :
       /\ input' = r.rest
       /\ u16Status' = [u16Status EXCEPT ![poll.s] = IF r.got.len > 0 THEN 1 ELSE 0]
       /\ pData' = IF r.got.len > 0 THEN Store(poll.s, poll.off, r.got.answer) ELSE pData
       /\ NextSlave(Behind(poll.off, Slaves[poll.s], r.got.len))
  /\ UNCHANGED <<worker, late, trouble, troubles, executed, told, writes>>

-----------------------------------------------------------------------------
(* The worker.                                                             *)

\* A client's write of a coil, one register, or several, which may have
\* addresses between them that are not configured.
Command(s, kind) ==
  /\ worker.pc = "idle" /\ writes < MaxWrites
  /\ worker' = [pc |-> "lock", kind |-> kind, s |-> s]
  /\ writes' = writes + 1
  /\ executed' = FALSE /\ told' = {}
  /\ trouble' = IF kind = "scattered" THEN trouble \cup {"unlocked"} ELSE trouble
  /\ UNCHANGED <<poll, mutex, input, late, pData, u16Status, troubles>>

\* Mutant: several registers are written without the mutex.
Locks_Single(kind) == kind \in {"coil", "register"}

\* Only the writes of registers with gaps do without the mutex.
Locks(kind) == kind # "scattered"
CanSend == worker.pc = "lock" /\ (Locks(worker.kind) => mutex = Nobody)

SetStatus(v) == u16Status' = [u16Status EXCEPT ![worker.s] = v]

\* The request goes out; the values of registers behind a gap go to other
\* addresses than theirs.
WriteRequest ==
  /\ CanSend
  /\ mutex' = IF Locks(worker.kind) THEN "worker" ELSE mutex
  /\ worker' = [worker EXCEPT !.pc = "sent"]
  /\ LET f == Answer(worker.kind, worker.s) IN
     \/ /\ Prompt(f) \/ Delayed(f) \/ Changed(f, "damaged") \/ Changed(f, "garbled")
        /\ executed' = (worker.kind # "scattered")
     \/ Lost /\ executed' \in {FALSE, worker.kind # "scattered"}
     \/ Changed(f, "exception") /\ UNCHANGED executed
  /\ UNCHANGED <<poll, pData, u16Status, told, writes>>

\* The write on the line fails.  With one register the client is told, and the
\* worker waits for an answer all the same; with several it is told that all is
\* well; with a coil, nothing.
WriteFails ==
  /\ CanSend
  /\ Goes("failed")
  /\ IF worker.kind = "register"
     THEN /\ mutex' = "worker" /\ worker' = [worker EXCEPT !.pc = "sent"]
          /\ told' = told \cup {"exception"}
          /\ UNCHANGED u16Status
     ELSE /\ worker' = [worker EXCEPT !.pc = "idle"]
          /\ told' = IF worker.kind = "coil" THEN told ELSE told \cup {"done"}
          /\ SetStatus(0)
          /\ UNCHANGED mutex
  /\ UNCHANGED <<poll, input, late, pData, executed, writes>>

\* What a write makes of the answer that was read: of a coil it compares the
\* echoed address and value, of the others only the length.
Outcome(kind, got) ==
  CASE kind = "coil"      -> IF got.len > 0 /\ got.answer = Answer("coil", worker.s)
                             THEN {"done"} ELSE {"exception"}
    [] kind = "register"  -> IF got.len >= 7 THEN {"done"} ELSE {}
    [] kind = "registers" -> IF got.len > 0 THEN {"done"} ELSE {}
    [] kind = "scattered" -> {"done"}

WriteResponse ==
  /\ worker.pc = "sent"
  /\ worker' = [worker EXCEPT !.pc = "idle"]
  /\ mutex' = IF Locks(worker.kind) THEN Nobody ELSE mutex
  /\ \E r \in Responses(input) :
       /\ input' = r.rest
       /\ told' = told \cup Outcome(worker.kind, r.got)
       /\ CASE worker.kind = "register"  -> UNCHANGED u16Status
            [] worker.kind = "scattered" -> SetStatus(IF r.got.len > 0 THEN 0 ELSE 1)
            [] OTHER                     -> SetStatus(IF r.got.len > 0 THEN 1 ELSE 0)
  /\ UNCHANGED <<poll, late, pData, executed, trouble, troubles, writes>>

ChannelTask == StartRound \/ Request \/ RequestFails \/ Response
Worker == WriteRequest \/ WriteFails \/ WriteResponse
Client == \E s \in Ids, kind \in Writes : Command(s, kind)

Next == ChannelTask \/ Worker \/ Client \/ Arrive

Spec == Init /\ [][Next]_vars

\* Both tasks are endless loops, and neither is passed over at the mutex.
FairSpec == Spec /\ SF_vars(ChannelTask) /\ SF_vars(Worker)

-----------------------------------------------------------------------------
(* What a client reads.                                                    *)

Value(s, i) ==
  [j \in 1 .. 2 * Slaves[s][i].num |-> pData[Place[s][i] + j - 1]]

Gap == <<Zero, Zero>>

\* _ENNModBus_Func_Read_Holding_Or_Input_Register: n words from map entry e on.
\* While the addresses go on by one the next entry follows, else two zeroes.
More(acc, addr) ==
  IF acc.e = Len(Map) THEN acc
  ELSE IF Map[acc.e + 1].addr # addr THEN [acc EXCEPT !.bytes = @ \o Gap]
  ELSE LET m == Map[acc.e + 1]
       IN  [e |-> acc.e + 1, bytes |-> acc.bytes \o Value(m.s, m.i)]

Read(e, n) ==
  LET upTo[k \in 0 .. n - 1] ==
        IF k = 0 THEN [e |-> e, bytes |-> Value(Map[e].s, Map[e].i)]
        ELSE More(upTo[k - 1], Map[e].addr + k)
      all == upTo[n - 1].bytes
  IN  [j \in 1 .. 2 * n |-> IF j <= Len(all) THEN all[j] ELSE Zero]

-----------------------------------------------------------------------------
(* Properties.                                                             *)

\* The variables keep their types; in particular u16Offset never runs over
\* the end of pData, whatever slaves are silent and requests fail.
TypeOK ==
  /\ poll \in [pc : {"sleep", "lock", "sent"}, s : Ids, off : 2 * Before .. Total]
  /\ worker \in [pc : {"idle", "lock", "sent"}, kind : Writes, s : Ids]
  /\ mutex \in {Nobody, "poll", "worker"}
  /\ input \in [answers : Seq(Answers), cut : BOOLEAN] /\ late \in Seq(Answers)
  /\ DOMAIN pData = 0 .. Total - 1
  /\ u16Status \in [Ids -> {0, 1}]
  /\ executed \in BOOLEAN /\ told \subseteq {"done", "exception"}
  /\ trouble \subseteq {"late", "exception", "damaged", "garbled", "lost", "failed", "unlocked"}
  /\ troubles \in 0 .. MaxTroubles /\ writes \in 0 .. MaxWrites

\* Every answer came in its time with a head that asks for what follows, and
\* the line was never used without its mutex.
Orderly == trouble \cap {"late", "exception", "garbled", "unlocked"} = {}

\* The bytes of the register of map entry e, in the order in which they are kept.
Proper(e) ==
  LET r == Slaves[Map[e].s][Map[e].i]  n == 2 * r.num IN
  [j \in 1 .. n |-> Own(Map[e].s, 2 * r.addr + (IF r.order = "BA" THEN n - j ELSE j - 1))]

\* On an orderly line where no request of the task failed, a word a client
\* reads is that of the register with its address, or zero: not of another
\* register or slave, whatever answers were lost or damaged and whatever was
\* written meanwhile (the layout is computed three times: at the start, by the
\* task, which advances u16Offset, and by the worker, which searches).
ReadsItsRegister ==
  Orderly /\ "failed" \notin trouble =>
    \A e \in DOMAIN Map, n \in 1 .. MaxWords : LET words == Read(e, n) IN
      \A k \in 0 .. n - 1 :
        LET own == {f \in DOMAIN Map : Map[f].addr = Map[e].addr + k}
            word == SubSeq(words, 2 * k + 1, 2 * k + 2)
        IN  word = Gap \/ \E f \in own : word = Proper(f)

\* On an orderly line a client is told that its write was done only if the
\* slave did it; but several registers also when the request never left
\* (ModBus_Slave_Table.c:3702).
WriteTruth ==
  Orderly /\ "done" \in told => executed \/ (worker.kind = "registers" /\ "failed" \in trouble)

\* On an orderly line every value gets into its place in the end and stays
\* there, also after a request that failed put a round's values into those of
\* the slaves before.
PlacesHeal ==
  []Orderly =>
    <>[](\A e \in DOMAIN Map : Value(Map[e].s, Map[e].i) = Proper(e))
=============================================================================
