----------------------------- MODULE HistoryProofs -----------------------------
(***************************************************************************)
(* Proofs about History: for any registers, lengths of the day and times   *)
(* of keeping, the file and its handle stay sound, the total that a master *)
(* is given is a row of the register and of the time it asked for, and the *)
(* rows hold readings of their registers, in order and none twice; of a    *)
(* register that is due in every row the newest reading is not lost.       *)
(***************************************************************************)
EXTENDS History, WellFoundedInduction, SequenceTheorems, TLAPS

Pcs == {"off", "sleep", "time", "check", "create", "copy", "clear", "record", "insert", "done"}
Troubles == {"gap", "slip", "missing", "repeated"}

(* The records have their fields, and the arrays their places; a pass      *)
(* begins with the first register.                                         *)
Shaped ==
  /\ DOMAIN main = {"pc", "ctv", "ftv", "date", "today", "timer", "i", "row"}
  /\ DOMAIN query = {"pc", "stamp", "chn", "window"}
  /\ DOMAIN regData = Ids /\ \A i \in Ids : DOMAIN regData[i] = {"value", "valid"}
  /\ DOMAIN results = Channels /\ \A c \in Channels : DOMAIN results[c] = {"value", "found"}
  /\ DOMAIN pData = 1 .. 4
  /\ main.pc = "create" => main.i = 1

(* All rows of the file are from before a time, or from this time at last. *)
Before(t) == \A d \in DOMAIN tables :
  \/ d < Day(t)
  \/ d = Day(t) /\ \A k \in DOMAIN tables[d] : k < Second(t)
UpToTime(t) == \A d \in DOMAIN tables :
  \/ d < Day(t)
  \/ d = Day(t) /\ \A k \in DOMAIN tables[d] : k <= Second(t)

Clean == trouble \cap {"slip", "repeated"} = {}

(* A pass has one time, which is after that of the pass before, and the    *)
(* rows are no later than the last pass that is over.  That holds until    *)
(* the clock moves within a pass or was set back before a start.           *)
PassTrue ==
  Clean =>
    /\ main.pc \in {"time", "check", "create", "copy", "clear", "record", "insert"} =>
         clock = main.ctv /\ main.ftv < main.ctv
    /\ main.pc \in {"sleep", "time", "check"} =>
         main.today = Day(main.ftv) /\ main.today \in DOMAIN tables /\ UpToTime(main.ftv)
    /\ main.pc \in {"check", "create", "copy", "clear", "record", "insert"} =>
         main.date = Second(main.ctv)
    /\ main.pc \in {"create", "copy", "clear", "record", "insert"} =>
         main.today = Day(main.ctv) /\ Before(main.ctv)
    /\ main.pc \in {"copy", "clear", "record", "insert", "done"} => main.today \in DOMAIN tables
    /\ main.pc = "create" => main.today \notin DOMAIN tables
    /\ main.pc = "done" => main.today = Day(main.ctv) /\ UpToTime(main.ctv)

(* The results of the numbers that are still to be looked up are not       *)
(* there, and a window is one of the two of its register.                  *)
QueryTrue ==
  /\ query.pc # "idle" => \A c \in query.chn .. Len(InfoNums) : ~results[c].found
  /\ query.pc = "select" => /\ InfoNums[query.chn] \in Ids
                            /\ query.window \in {Registers[InfoNums[query.chn]].interval,
                                                 DefaultWindow}
  /\ query.stamp \in Nat

IInv == Shaped /\ FileSound /\ PassTrue /\ QueryTrue

(* The parts of the type invariant.                                        *)
MainTyped ==
  /\ main.pc \in Pcs
  /\ {main.ctv, main.ftv, main.today} \subseteq Nat /\ main.date \in 0 .. DayLength - 1
  /\ main.timer \in 0 .. MaxTimer /\ DOMAIN main.row \subseteq Ids
  /\ main.pc \in {"copy", "clear"} => main.i \in Ids
StoreTyped == \A f \in 1 .. 4 : \A o \in DOMAIN pData[f] : pData[f][o] \in Byte
ValuesTyped == \A i \in Ids : /\ regData[i].value \in [1 .. Width(i) -> Byte]
                              /\ regData[i].valid \in BOOLEAN
FileTyped ==
  \A d \in DOMAIN tables : /\ d \in Nat /\ DOMAIN tables[d] \subseteq 0 .. DayLength - 1
                           /\ \A k \in DOMAIN tables[d] : DOMAIN tables[d][k] \subseteq Ids
RestTyped ==
  /\ clock \in Nat
  /\ db \in {"open", "closed", "undefined"}
  /\ query.pc \in {"idle", "window", "select"} /\ query.chn \in Channels
  /\ polled \in [Ids -> Nat]
  /\ trouble \subseteq Troubles

LEMMA TypeParts ==
  TypeOK <=> MainTyped /\ StoreTyped /\ ValuesTyped /\ FileTyped /\ RestTyped
BY DEF TypeOK, MainTyped, StoreTyped, ValuesTyped, FileTyped, RestTyped, Pcs, Troubles

LEMMA TypePartsNext ==
  TypeOK' <=> MainTyped' /\ StoreTyped' /\ ValuesTyped' /\ FileTyped' /\ RestTyped'
BY TypeParts, PTL

-----------------------------------------------------------------------------
(* Numbers and times.                                                      *)

LEMMA Numbers ==
  /\ DayLength \in Nat /\ DayLength > 0 /\ Retention \in Nat /\ Retention > 0
  /\ MaxTimer \in Nat /\ MaxTimer > 0 /\ DefaultWindow \in Nat /\ Stamps \subseteq Nat
  /\ Ids = 1 .. Len(Registers) /\ Len(Registers) \in Nat
  /\ Channels = 1 .. Len(InfoNums) /\ Len(InfoNums) \in Nat /\ 1 \in Channels
  /\ \A c \in Channels : InfoNums[c] \in Ids \cup {0}
<1>1. /\ DayLength \in Nat /\ DayLength > 0 /\ Retention \in Nat /\ Retention > 0
      /\ MaxTimer \in Nat /\ MaxTimer > 0 /\ DefaultWindow \in Nat /\ Stamps \subseteq Nat
  BY SMTT(30), HistoryAssumption
<1>2. Ids = 1 .. Len(Registers) /\ Len(Registers) \in Nat
  BY HistoryAssumption, LenProperties DEF Ids
<1>3. Channels = 1 .. Len(InfoNums) /\ Len(InfoNums) \in Nat /\ Len(InfoNums) # 0
  BY HistoryAssumption, LenProperties, EmptySeq DEF Channels
<1>4. \A c \in Channels : InfoNums[c] \in Ids \cup {0}
  BY <1>3, HistoryAssumption, ElementOfSeq
<1> QED
  BY <1>1, <1>2, <1>3, <1>4

LEMMA RegisterTypes ==
  ASSUME NEW i \in Ids
  PROVE  /\ Registers[i].fun \in 1 .. 4 /\ Registers[i].interval \in Nat
         /\ Registers[i].chan \in Nat
         /\ Width(i) \in Nat /\ Width(i) > 0
<1> DEFINE Entry == [chan : Nat, fun : 1 .. 4, num : Nat \ {0}, interval : Nat]
<1>1. Registers[i] \in Entry
  <2>1. Registers \in Seq(Entry)
    BY HistoryAssumption
  <2> HIDE DEF Entry
  <2> QED
    BY <2>1, Numbers, ElementOfSeq
<1>2. /\ Registers[i].fun \in 1 .. 4 /\ Registers[i].num \in Nat \ {0}
      /\ Registers[i].interval \in Nat /\ Registers[i].chan \in Nat
  BY <1>1
<1>3. 2 * Registers[i].num \in Nat /\ 2 * Registers[i].num > 0
  BY <1>2
<1> QED
  BY <1>2, <1>3 DEF Width

(* A time is its day and the seconds of the day.                           *)
LEMMA TimeParts ==
  ASSUME NEW t \in Int
  PROVE  /\ Day(t) \in Int /\ Second(t) \in 0 .. DayLength - 1
         /\ t = DayLength * Day(t) + Second(t)
         /\ t \in Nat => Day(t) \in Nat
<1>1. Day(t) \in Int /\ Second(t) \in 0 .. DayLength - 1 /\ t = DayLength * Day(t) + Second(t)
  BY Numbers DEF Day, Second
<1>2. ASSUME t \in Nat
      PROVE  Day(t) \in Nat
  BY <1>2, Numbers DEF Day
<1> QED
  BY <1>1, <1>2

(* The later of two times is on a later day, or later on the same day.     *)
LEMMA TimesOrdered ==
  ASSUME NEW s \in Int, NEW t \in Int, s < t
  PROVE  Day(s) < Day(t) \/ (Day(s) = Day(t) /\ Second(s) < Second(t))
<1> DEFINE ds == Day(s)  dt == Day(t)  ss == Second(s)  st == Second(t)
<1>1. /\ ds \in Int /\ dt \in Int /\ ss \in 0 .. DayLength - 1 /\ st \in 0 .. DayLength - 1
      /\ s = DayLength * ds + ss /\ t = DayLength * dt + st
  BY TimeParts
<1> HIDE DEF ds, dt, ss, st
<1>2. ASSUME ds > dt
      PROVE  FALSE
  <2>1. DayLength * ds >= DayLength * (dt + 1)
    BY <1>1, <1>2, Numbers
  <2>2. DayLength * (dt + 1) = DayLength * dt + DayLength
    BY <1>1, Numbers
  <2>3. DayLength * ds \in Int /\ DayLength * dt \in Int
    BY <1>1, Numbers
  <2> QED
    BY <1>1, <2>1, <2>2, <2>3, Numbers
<1>3. ASSUME ds = dt
      PROVE  ss < st
  <2>1. DayLength * ds \in Int
    BY <1>1, Numbers
  <2> QED
    BY <1>1, <1>3, <2>1
<1>4. ds < dt \/ (ds = dt /\ ss < st)
  BY <1>1, <1>2, <1>3
<1> QED
  BY <1>4 DEF ds, dt, ss, st

(* A nonempty set of numbers has a least one.                              *)
LEMMA LeastNumber ==
  ASSUME NEW S, S \subseteq Nat, S # {}
  PROVE  \E k \in S : \A j \in S : k <= j
<1> DEFINE R == OpToRel(<, Nat)
<1>1. IsWellFoundedOn(R, Nat)
  BY NatLessThanWellFounded
<1>2. \A x, y \in Nat : <<x, y>> \in R <=> x < y
  BY DEF OpToRel
<1> HIDE DEF R
<1>3. PICK k \in S : \A j \in S : <<j, k>> \notin R
  BY <1>1, WFMin, Zenon
<1>4. ASSUME NEW j \in S
      PROVE  k <= j
  <2>1. ~(j < k)
    BY <1>2, <1>3
  <2> QED
    BY <2>1
<1> QED
  BY <1>4

-----------------------------------------------------------------------------
(* The parts that a step does not touch.                                   *)

LEMMA FileKept ==
  ASSUME OldTablesGone, tables' = tables, trouble \subseteq trouble'
  PROVE  OldTablesGone'
BY DEF OldTablesGone

LEMMA HandleKept ==
  ASSUME StaysOpen, db' = db \/ db' = "open", trouble \subseteq trouble',
         main.pc = "off" => main'.pc = "off"
  PROVE  StaysOpen'
BY DEF StaysOpen

LEMMA QueryKept ==
  ASSUME QueryTrue, query' = query, results' = results
  PROVE  QueryTrue'
BY DEF QueryTrue

-----------------------------------------------------------------------------
(* The steps of a pass.                                                    *)

LEMMA WakeStep == IInv /\ Wake => IInv'
<1> SUFFICES ASSUME IInv, Wake
             PROVE  IInv'
  OBVIOUS
<1> USE DEF IInv, FileSound, Wake, At, reader, bounds
<1>1. Shaped'
  BY DEF Shaped
<1>2. main' = [main EXCEPT !.pc = "time", !.ctv = clock] /\ clock \in Nat /\ main.ftv \in Nat
      /\ clock - main.ftv >= 1
  BY DEF TypeOK
<1>3. /\ main'.pc = "time" /\ main'.ctv = clock /\ main'.ftv = main.ftv /\ main'.date = main.date
      /\ main'.today = main.today /\ main'.timer = main.timer /\ main'.i = main.i
      /\ main'.row = main.row
  BY <1>2 DEF Shaped
<1>4. TypeOK'
  BY <1>3 DEF TypeOK
<1>5. PassTrue'
  BY <1>2, <1>3 DEF PassTrue, Clean, UpToTime
<1> QED
  BY <1>1, <1>3, <1>4, <1>5, FileKept, HandleKept, QueryKept

LEMMA StampStep == IInv /\ Stamp => IInv'
<1> SUFFICES ASSUME IInv, Stamp
             PROVE  IInv'
  OBVIOUS
<1> USE DEF IInv, FileSound, Stamp, At, reader, bounds
<1>1. Shaped'
  BY DEF Shaped
<1>2. main' = [main EXCEPT !.pc = "check", !.date = Second(clock)]
      /\ Second(clock) \in 0 .. DayLength - 1
  BY TimeParts DEF TypeOK
<1>3. /\ main'.pc = "check" /\ main'.ctv = main.ctv /\ main'.ftv = main.ftv
      /\ main'.date = Second(clock) /\ main'.today = main.today /\ main'.timer = main.timer
      /\ main'.row = main.row
  BY <1>2 DEF Shaped
<1>4. TypeOK'
  BY <1>2, <1>3 DEF TypeOK
<1>5. PassTrue'
  BY <1>2, <1>3 DEF PassTrue, Clean, UpToTime
<1> QED
  BY <1>1, <1>3, <1>4, <1>5, FileKept, HandleKept, QueryKept

(* A new day is later than all tables, so that its table is created.       *)
LEMMA TableCheckStep == IInv /\ TableCheck => IInv'
<1> SUFFICES ASSUME IInv, TableCheck
             PROVE  IInv'
  OBVIOUS
<1> USE DEF IInv, FileSound, TableCheck, At, reader, bounds
<1> DEFINE cdate == Day(clock)
           new == cdate # main.today
           pc == IF new /\ cdate \notin DOMAIN tables THEN "create" ELSE Mapping
<1>1. Shaped'
  BY DEF Shaped
<1>2. /\ main' = [main EXCEPT !.today = cdate, !.i = 1, !.pc = pc]
      /\ db' = IF new THEN Uses ELSE db
      /\ main.pc = "check" /\ db # "undefined" /\ clock \in Int /\ cdate \in Nat
  BY TimeParts DEF TypeOK
<1>3. /\ main'.pc = pc /\ main'.ctv = main.ctv /\ main'.ftv = main.ftv
      /\ main'.date = main.date /\ main'.today = cdate /\ main'.timer = main.timer
      /\ main'.row = main.row /\ main'.i = 1
  BY <1>2 DEF Shaped
<1>4. /\ pc \in {"create", "copy", "done"}
      /\ pc = "create" <=> new /\ cdate \notin DOMAIN tables
      /\ pc = "copy" => 1 \in Ids
  <2>1. Mapping = "copy" => AnyDue
    BY DEF Mapping
  <2>2. AnyDue => 1 \in Ids
    BY Numbers DEF AnyDue
  <2> QED
    BY <2>1, <2>2 DEF Mapping
<1> HIDE DEF pc
<1>5. TypeOK'
  BY <1>2, <1>3, <1>4 DEF TypeOK, Uses
<1>6. StaysOpen'
  BY <1>2, <1>3, <1>4 DEF StaysOpen, Uses
<1>7. PassTrue'
  <2> SUFFICES ASSUME Clean
               PROVE  PassTrue'
    BY DEF PassTrue, Clean
  <2>1. /\ clock = main.ctv /\ main.ftv < clock /\ main.ftv \in Int
        /\ main.today = Day(main.ftv) /\ main.today \in DOMAIN tables /\ UpToTime(main.ftv)
        /\ main.date = Second(clock)
    BY <1>2 DEF PassTrue, TypeOK
  <2>2. \/ main.today < cdate
        \/ main.today = cdate /\ Second(main.ftv) < Second(clock)
    BY <1>2, <2>1, TimesOrdered
  <2>3. /\ main.today \in Int /\ Second(main.ftv) \in Int /\ Second(clock) \in Int
        /\ \A d \in DOMAIN tables : d \in Nat /\ \A k \in DOMAIN tables[d] : k \in Nat
    BY SMTT(30), <1>2, <2>1, TimeParts, Numbers DEF TypeOK
  <2>4. Before(clock)
    BY <1>2, <2>1, <2>2, <2>3 DEF UpToTime, Before
  <2>5. UpToTime(clock)
    BY <2>3, <2>4 DEF UpToTime, Before
  <2> QED
    BY <1>2, <1>3, <1>4, <2>1, <2>4, <2>5 DEF PassTrue, Before, UpToTime
<1> QED
  BY <1>1, <1>5, <1>6, <1>7, FileKept, QueryKept

(* What Created does: the day is added, without rows; the day that is due  *)
(* goes.                                                                   *)
LEMMA CreatedTables ==
  ASSUME NEW day
  PROVE  LET file == Created(day) IN
         /\ DOMAIN file = (DOMAIN tables \ {Day(clock) - Retention}) \cup {day}
         /\ DOMAIN file[day] = {}
         /\ \A d \in DOMAIN file : d # day => file[d] = tables[d]
BY DEF Created, Without, NoRows

LEMMA CreateTodayStep == IInv /\ CreateToday => IInv'
<1> SUFFICES ASSUME IInv, CreateToday
             PROVE  IInv'
  OBVIOUS
<1> USE DEF IInv, FileSound, CreateToday, At, reader, bounds
<1>1. Shaped'
  BY DEF Shaped
<1>2. /\ main' = [main EXCEPT !.pc = Mapping] /\ db' = Uses
      /\ main.pc = "create" /\ clock \in Int /\ main.today \in Nat
  BY DEF TypeOK
<1>3. /\ main'.pc = Mapping /\ main'.ctv = main.ctv /\ main'.ftv = main.ftv
      /\ main'.date = main.date /\ main'.today = main.today /\ main'.timer = main.timer
      /\ main'.row = main.row /\ main'.i = main.i
  BY <1>2 DEF Shaped
<1>4. Mapping \in {"copy", "done"} /\ (Mapping = "copy" => main.i \in Ids)
  <2>1. AnyDue => 1 \in Ids
    BY Numbers DEF AnyDue
  <2> QED
    BY <1>2, <2>1 DEF Mapping, Shaped
<1>5. /\ DOMAIN tables' = (DOMAIN tables \ {Day(clock) - Retention}) \cup {main.today}
      /\ DOMAIN tables'[main.today] = {}
      /\ \A d \in DOMAIN tables' : d # main.today => tables'[d] = tables[d]
  BY CreatedTables
<1>6. TypeOK'
  BY <1>2, <1>3, <1>4, <1>5 DEF TypeOK, Uses
<1>7. StaysOpen'
  BY <1>2, <1>3, <1>4 DEF StaysOpen, Uses
<1>8. ASSUME Clean
      PROVE  /\ Day(clock) = main.today /\ main.today = Day(main.ctv)
             /\ \A d \in DOMAIN tables : d < main.today
  BY <1>2, <1>8 DEF PassTrue, Before
<1>9. OldTablesGone'
  <2> SUFFICES ASSUME Clean, NEW d \in DOMAIN tables'
               PROVE  d + Retention \notin DOMAIN tables'
    BY DEF OldTablesGone, Clean
  <2>1. /\ Retention \in Nat /\ Retention > 0 /\ main.today \in Nat
        /\ \A e \in DOMAIN tables : e \in Nat
    BY <1>2, Numbers DEF TypeOK
  <2> QED
    BY <1>5, <1>8, <2>1 DEF OldTablesGone, Clean
<1>10. PassTrue'
  <2> SUFFICES ASSUME Clean
               PROVE  PassTrue'
    BY DEF PassTrue, Clean
  <2>1. Before(main.ctv)' /\ UpToTime(main.ctv)'
    BY <1>3, <1>5, <1>8 DEF Before, UpToTime
  <2> QED
    BY <1>2, <1>3, <1>4, <1>5, <1>8, <2>1 DEF PassTrue, Before, UpToTime
<1> QED
  BY <1>1, <1>6, <1>7, <1>9, <1>10, QueryKept

(* The middle of a pass: the steps between the table and the row.          *)
LEMMA PassKept ==
  ASSUME PassTrue,
         {main.pc, main'.pc} \subseteq {"copy", "clear", "record", "insert"},
         main'.ctv = main.ctv, main'.ftv = main.ftv, main'.date = main.date,
         main'.today = main.today, clock' = clock, tables' = tables, trouble' = trouble
  PROVE  PassTrue'
BY DEF PassTrue, Clean, Before, UpToTime

(* A mapped value has as many bytes as the one it is made from.            *)
LEMMA MappedType ==
  ASSUME NEW i \in Ids, NEW bytes \in [1 .. Width(i) -> Byte]
  PROVE  Mapped(i, bytes) \in [1 .. Width(i) -> Byte]
<1>1. Width(i) \in Nat
  BY RegisterTypes
<1>2. Len(bytes) = Width(i)
  BY <1>1
<1>3. Reverse(bytes) = [b \in 1 .. Width(i) |-> bytes[(Width(i) - b) + 1]]
  BY <1>2 DEF Reverse
<1>4. \A b \in 1 .. Width(i) : (Width(i) - b) + 1 \in 1 .. Width(i)
  BY <1>1
<1>5. Reverse(bytes) \in [1 .. Width(i) -> Byte]
  BY <1>3, <1>4
<1> QED
  BY <1>5 DEF Mapped

LEMMA CopyStep == IInv /\ Copy => IInv'
<1> SUFFICES ASSUME IInv, Copy
             PROVE  IInv'
  OBVIOUS
<1> USE DEF IInv, FileSound, Copy, At, reader, bounds
<1>1. main.pc = "copy" /\ main.i \in Ids /\ main' = [main EXCEPT !.pc = "clear"]
  BY DEF TypeOK
<1>2. /\ main'.pc = "clear" /\ main'.ctv = main.ctv /\ main'.ftv = main.ftv
      /\ main'.date = main.date /\ main'.today = main.today /\ main'.timer = main.timer
      /\ main'.row = main.row /\ main'.i = main.i
  BY <1>1 DEF Shaped
<1> DEFINE i == main.i
           data == pData[Registers[i].fun]
           at(b) == Source[i] + b - 1
           bytes == [b \in 1 .. Width(i) |-> IF at(b) \in DOMAIN data THEN data[at(b)] ELSE Beyond]
<1>3. regData' = [regData EXCEPT ![i] = [value |-> Mapped(i, bytes), valid |-> TRUE]]
  OBVIOUS
<1>4. Mapped(i, bytes) \in [1 .. Width(i) -> Byte]
  <2>1. Beyond \in Byte /\ \A o \in DOMAIN data : data[o] \in Byte
    BY <1>1, RegisterTypes DEF TypeOK, Byte
  <2>2. bytes \in [1 .. Width(i) -> Byte]
    <3> HIDE DEF data, at, i
    <3> QED
      BY <2>1
  <2> HIDE DEF bytes
  <2> QED
    BY <1>1, <2>2, MappedType
<1> HIDE DEF bytes
<1>5. Shaped'
  BY <1>1, <1>2, <1>3 DEF Shaped
<1>6. TypeOK'
  <2>1. ValuesTyped'
    <3> DEFINE value == Mapped(i, bytes)
    <3>1. /\ regData' = [regData EXCEPT ![i] = [value |-> value, valid |-> TRUE]]
          /\ value \in [1 .. Width(i) -> Byte] /\ DOMAIN regData = Ids
          /\ \A j \in Ids : /\ regData[j].value \in [1 .. Width(j) -> Byte]
                            /\ regData[j].valid \in BOOLEAN
      BY <1>3, <1>4, TypeParts DEF Shaped, ValuesTyped
    <3> HIDE DEF value, i
    <3>2. ASSUME NEW j \in Ids
          PROVE  /\ regData'[j].value \in [1 .. Width(j) -> Byte]
                 /\ regData'[j].valid \in BOOLEAN
      <4>1. CASE j = i
        <5>1. regData'[j].value = value /\ regData'[j].valid = TRUE
          BY <3>1, <4>1
        <5>2. value \in [1 .. Width(j) -> Byte]
          BY <3>1, <4>1, Zenon
        <5> QED
          BY <5>1, <5>2, Zenon
      <4>2. CASE j # i
        BY <3>1, <4>2
      <4> QED
        BY <4>1, <4>2
    <3> QED
      BY <3>2 DEF ValuesTyped
  <2>2. MainTyped'
    BY <1>1, <1>2, TypeParts DEF MainTyped, Pcs
  <2>3. StoreTyped' /\ FileTyped' /\ RestTyped'
    BY TypeParts DEF StoreTyped, FileTyped, RestTyped
  <2> QED
    BY <2>1, <2>2, <2>3, TypePartsNext
<1>7. PassTrue'
  BY <1>1, <1>2, PassKept
<1> QED
  BY <1>1, <1>2, <1>5, <1>6, <1>7, FileKept, HandleKept, QueryKept

LEMMA ClearStep == IInv /\ Clear => IInv'
<1> SUFFICES ASSUME IInv, Clear
             PROVE  IInv'
  OBVIOUS
<1> USE DEF IInv, FileSound, Clear, At, reader, bounds, Mapped1
<1> DEFINE last == main.i = Len(Registers)
<1>1. /\ main.pc = "clear" /\ main.i \in Ids
      /\ main' = [main EXCEPT !.pc = IF last THEN "record" ELSE "copy",
                              !.i = IF last THEN 1 ELSE @ + 1]
  BY DEF TypeOK
<1>2. /\ main'.pc = (IF last THEN "record" ELSE "copy") /\ main'.ctv = main.ctv
      /\ main'.ftv = main.ftv /\ main'.date = main.date /\ main'.today = main.today
      /\ main'.timer = main.timer /\ main'.row = main.row
      /\ main'.i = (IF last THEN 1 ELSE main.i + 1)
  BY <1>1 DEF Shaped
<1>3. main'.i \in Ids
  BY <1>1, <1>2, Numbers
<1>4. \A f \in 1 .. 4 : \A o \in DOMAIN pData'[f] : pData'[f][o] \in Byte
  <2> SUFFICES ASSUME NEW f \in 1 .. 4, NEW o \in DOMAIN pData'[f]
               PROVE  pData'[f][o] \in Byte
    OBVIOUS
  <2> DEFINE old == pData[Registers[main.i].fun]
             gone(x) == x - Source[main.i] \in 0 .. Width(main.i) - 1
             cleared == [x \in DOMAIN old |-> IF gone(x) THEN Zero ELSE old[x]]
  <2>1. pData' = [pData EXCEPT ![Registers[main.i].fun] = cleared]
    OBVIOUS
  <2>2. Zero \in Byte /\ \A g \in 1 .. 4 : \A x \in DOMAIN pData[g] : pData[g][x] \in Byte
    BY DEF TypeOK, Byte
  <2>3. \A x \in DOMAIN cleared : cleared[x] \in Byte
    <3> HIDE DEF gone
    <3> QED
      BY <1>1, <2>2, RegisterTypes
  <2> HIDE DEF cleared
  <2> QED
    BY <1>1, <2>1, <2>2, <2>3, RegisterTypes DEF Shaped
<1>5. Shaped'
  BY <1>1, <1>2 DEF Shaped
<1>6. TypeOK'
  <2>1. MainTyped'
    BY <1>1, <1>2, <1>3, TypeParts DEF MainTyped, Pcs
  <2>2. StoreTyped' /\ ValuesTyped' /\ FileTyped' /\ RestTyped'
    BY <1>4, TypeParts DEF StoreTyped, ValuesTyped, FileTyped, RestTyped
  <2> QED
    BY <2>1, <2>2, TypePartsNext
<1>7. PassTrue'
  BY <1>1, <1>2, PassKept
<1> QED
  BY <1>1, <1>2, <1>5, <1>6, <1>7, FileKept, HandleKept, QueryKept

LEMMA EmptiedType ==
  ASSUME NEW S, ValuesTyped, regData' = Emptied(S)
  PROVE  /\ ValuesTyped' /\ DOMAIN regData' = Ids
         /\ \A i \in Ids : DOMAIN regData'[i] = {"value", "valid"} \/ regData'[i] = regData[i]
<1>1. ASSUME NEW i \in Ids
      PROVE  NoReading(i) \in [1 .. Width(i) -> Byte]
  BY DEF NoReading, Zeros, Byte
<1>2. ASSUME NEW i \in Ids
      PROVE  \/ regData'[i] = [value |-> NoReading(i), valid |-> FALSE]
             \/ regData'[i] = regData[i]
  BY DEF Emptied
<1>3. ASSUME NEW i \in Ids
      PROVE  regData'[i].value \in [1 .. Width(i) -> Byte] /\ regData'[i].valid \in BOOLEAN
  <2>1. CASE regData'[i] = [value |-> NoReading(i), valid |-> FALSE]
    <3>1. regData'[i].value = NoReading(i) /\ regData'[i].valid = FALSE
      BY <2>1
    <3> QED
      BY <1>1, <3>1, Zenon
  <2>2. CASE regData'[i] = regData[i]
    BY <2>2, Zenon DEF ValuesTyped
  <2> QED
    BY <1>2, <2>1, <2>2
<1>4. \A i \in Ids : DOMAIN regData'[i] = {"value", "valid"} \/ regData'[i] = regData[i]
  BY <1>2
<1>5. DOMAIN regData' = Ids
  BY DEF Emptied
<1> QED
  BY <1>3, <1>4, <1>5 DEF ValuesTyped

LEMMA RecordStep == IInv /\ Record => IInv'
<1> SUFFICES ASSUME IInv, Record
             PROVE  IInv'
  OBVIOUS
<1> USE DEF IInv, FileSound, Record, At, reader, bounds
<1> DEFINE row == [i \in Due |-> regData[i].value]
<1>1. main.pc = "record" /\ main' = [main EXCEPT !.pc = "insert", !.row = row]
  OBVIOUS
<1>2. DOMAIN row \subseteq Ids
  BY DEF Due
<1> HIDE DEF row
<1>3. /\ main'.pc = "insert" /\ main'.ctv = main.ctv /\ main'.ftv = main.ftv
      /\ main'.date = main.date /\ main'.today = main.today /\ main'.timer = main.timer
      /\ main'.row = row
  BY <1>1 DEF Shaped
<1>4. /\ ValuesTyped' /\ DOMAIN regData' = Ids
      /\ \A i \in Ids : DOMAIN regData'[i] = {"value", "valid"} \/ regData'[i] = regData[i]
  BY TypeParts, EmptiedType
<1>5. Shaped'
  BY <1>1, <1>3, <1>4 DEF Shaped
<1>6. TypeOK'
  <2>1. MainTyped'
    BY <1>2, <1>3, TypeParts DEF MainTyped, Pcs
  <2>2. StoreTyped' /\ FileTyped' /\ RestTyped'
    BY TypeParts DEF StoreTyped, FileTyped, RestTyped
  <2> QED
    BY <1>4, <2>1, <2>2, TypePartsNext
<1>7. PassTrue'
  BY <1>1, <1>3, PassKept
<1> QED
  BY <1>1, <1>3, <1>5, <1>6, <1>7, FileKept, HandleKept, QueryKept

(* The key is later than all rows, so that the row is inserted.            *)
LEMMA InsertStep == IInv /\ Insert => IInv'
<1> SUFFICES ASSUME IInv, Insert
             PROVE  IInv'
  OBVIOUS
<1> USE DEF IInv, FileSound, Insert, At, reader, bounds
<1> DEFINE day == main.today
           ok == db = "open" /\ day \in DOMAIN tables /\ main.date \notin DOMAIN tables[day]
           rows == [k \in DOMAIN tables[day] \cup {main.date} |->
                      IF k = main.date THEN main.row ELSE tables[day][k]]
<1>1. main.pc = "insert" /\ db # "undefined" /\ main' = [main EXCEPT !.pc = "done"]
  OBVIOUS
<1>2. /\ main'.pc = "done" /\ main'.ctv = main.ctv /\ main'.ftv = main.ftv
      /\ main'.date = main.date /\ main'.today = main.today /\ main'.timer = main.timer
      /\ main'.row = main.row
  BY <1>1 DEF Shaped
<1>3. \/ ok /\ tables' = [tables EXCEPT ![day] = rows] /\ db' = db
      \/ ~ok /\ tables' = tables /\ db' = Fails
  OBVIOUS
<1>4. /\ DOMAIN tables' = DOMAIN tables
      /\ \A d \in DOMAIN tables : \/ tables'[d] = tables[d]
                                  \/ d = day /\ tables'[d] = rows
  BY <1>3
<1>5. /\ DOMAIN rows = DOMAIN tables[day] \cup {main.date}
      /\ \A k \in DOMAIN rows : rows[k] = IF k = main.date THEN main.row ELSE tables[day][k]
  OBVIOUS
<1> HIDE DEF rows
<1>6. Shaped'
  BY <1>1, <1>2 DEF Shaped
<1>7. TypeOK'
  <2>1. MainTyped'
    BY <1>2, TypeParts DEF MainTyped, Pcs
  <2>2. FileTyped'
    BY <1>4, <1>5, TypeParts DEF MainTyped, FileTyped
  <2>3. RestTyped'
    BY <1>3, TypeParts DEF RestTyped, Fails
  <2>4. StoreTyped' /\ ValuesTyped'
    BY TypeParts DEF StoreTyped, ValuesTyped
  <2> QED
    BY <2>1, <2>2, <2>3, <2>4, TypePartsNext
<1>8. ASSUME Clean
      PROVE  /\ day \in DOMAIN tables /\ main.date \notin DOMAIN tables[day]
             /\ day = Day(main.ctv) /\ main.date = Second(main.ctv) /\ Before(main.ctv)
  <2>1. /\ day \in DOMAIN tables /\ day = Day(main.ctv) /\ main.date = Second(main.ctv)
        /\ Before(main.ctv)
    BY <1>1, <1>8 DEF PassTrue
  <2>2. day \in Int /\ \A k \in DOMAIN tables[day] : k \in Int
    BY <2>1, Numbers, TypeParts DEF FileTyped
  <2>3. \A k \in DOMAIN tables[day] : k < main.date
    BY <2>1, <2>2 DEF Before
  <2> QED
    BY <2>1, <2>2, <2>3
<1>9. StaysOpen'
  BY <1>1, <1>2, <1>3, <1>8 DEF StaysOpen, Clean
<1>10. OldTablesGone'
  BY <1>4 DEF OldTablesGone
<1>11. PassTrue'
  <2> SUFFICES ASSUME Clean
               PROVE  PassTrue'
    BY DEF PassTrue, Clean
  <2>1. main.date \in Int /\ main.ctv \in Int
        /\ \A d \in DOMAIN tables : d \in Int /\ \A k \in DOMAIN tables[d] : k \in Int
    BY Numbers, TypeParts DEF FileTyped, MainTyped
  <2>2. UpToTime(main.ctv)'
    BY <1>2, <1>4, <1>5, <1>8, <2>1 DEF Before, UpToTime
  <2> QED
    BY <1>2, <1>4, <1>8, <2>2 DEF PassTrue, UpToTime
<1> QED
  BY <1>6, <1>7, <1>9, <1>10, <1>11, QueryKept

LEMMA DoneStep == IInv /\ Done => IInv'
<1> SUFFICES ASSUME IInv, Done
             PROVE  IInv'
  OBVIOUS
<1> USE DEF IInv, FileSound, Done, At, reader, bounds
<1> DEFINE timer == IF main.timer + 1 > MaxTimer THEN 1 ELSE main.timer + 1
<1>1. main.pc = "done" /\ main' = [main EXCEPT !.pc = "sleep", !.ftv = main.ctv, !.row = NoRows,
                                     !.date = 0, !.i = 1, !.timer = timer]
  OBVIOUS
<1>2. timer \in 0 .. MaxTimer
  BY SMTT(30), Numbers, TypeParts DEF MainTyped
<1> HIDE DEF timer
<1>3. /\ main'.pc = "sleep" /\ main'.ctv = main.ctv /\ main'.ftv = main.ctv
      /\ main'.date = 0 /\ main'.today = main.today /\ main'.timer = timer
      /\ main'.row = NoRows
  BY <1>1 DEF Shaped
<1>4. Shaped'
  BY <1>1, <1>3 DEF Shaped
<1>5. TypeOK'
  <2>1. MainTyped'
    BY <1>2, <1>3, Numbers, TypeParts DEF MainTyped, Pcs, NoRows
  <2>2. StoreTyped' /\ ValuesTyped' /\ FileTyped' /\ RestTyped'
    BY TypeParts DEF StoreTyped, ValuesTyped, FileTyped, RestTyped
  <2> QED
    BY <2>1, <2>2, TypePartsNext
<1>6. PassTrue'
  BY <1>1, <1>3 DEF PassTrue, Clean, UpToTime
<1> QED
  BY <1>1, <1>3, <1>4, <1>5, <1>6, FileKept, HandleKept, QueryKept

-----------------------------------------------------------------------------
(* The steps of the server task.                                           *)

(* A step of the server task leaves a pass as it is.                       *)
LEMMA PassSame ==
  ASSUME PassTrue, main' = main, clock' = clock, tables' = tables, trouble \subseteq trouble'
  PROVE  PassTrue'
BY DEF PassTrue, Clean, Before, UpToTime

LEMMA AskStep == IInv /\ (\E stamp \in Stamps : Ask(stamp)) => IInv'
<1> SUFFICES ASSUME IInv, NEW stamp \in Stamps, Ask(stamp)
             PROVE  IInv'
  OBVIOUS
<1> USE DEF IInv, FileSound, Ask, reader, bounds
<1>1. /\ query' = [pc |-> "window", stamp |-> stamp, chn |-> 1, window |-> 0]
      /\ results' = [c \in Channels |-> [results[c] EXCEPT !.found = FALSE]]
      /\ stamp \in Nat /\ 1 \in Channels
  BY Numbers
<1>2. \A c \in Channels : /\ DOMAIN results'[c] = {"value", "found"} /\ ~results'[c].found
  BY <1>1 DEF Shaped
<1>3. Shaped'
  BY <1>1, <1>2 DEF Shaped
<1>4. TypeOK'
  BY <1>1, TypeParts, TypePartsNext
     DEF MainTyped, StoreTyped, ValuesTyped, FileTyped, RestTyped
<1>5. QueryTrue'
  <2>1. query'.pc = "window" /\ query'.stamp = stamp /\ query'.chn = 1
    BY <1>1
  <2>2. \A c \in 1 .. Len(InfoNums) : ~results'[c].found
    BY <1>2, Numbers
  <2> HIDE DEF Ask
  <2> QED
    BY <1>1, <2>1, <2>2 DEF QueryTrue
<1> QED
  BY <1>3, <1>4, <1>5, FileKept, HandleKept, PassSame

(* What Next1 does: the next number is looked up, or the answer is ready.  *)
LEMMA NextNumber ==
  ASSUME IInv, query.pc # "idle"
  PROVE  /\ DOMAIN Next1 = {"pc", "stamp", "chn", "window"} /\ Next1.stamp = query.stamp
         /\ Next1.chn \in Channels /\ Next1.pc \in {"idle", "window"}
         /\ Next1.pc # "idle" => Next1.chn = query.chn + 1
<1>1. query.chn \in 1 .. Len(InfoNums) /\ Len(InfoNums) \in Nat /\ Channels = 1 .. Len(InfoNums)
  BY Numbers DEF IInv, FileSound, TypeOK
<1>2. DOMAIN query = {"pc", "stamp", "chn", "window"}
  BY DEF IInv, Shaped
<1>3. /\ DOMAIN Next1 = {"pc", "stamp", "chn", "window"} /\ Next1.stamp = query.stamp
      /\ Next1.pc = (IF query.chn = Len(InfoNums) THEN "idle" ELSE "window")
      /\ Next1.chn = (IF query.chn = Len(InfoNums) THEN 1 ELSE query.chn + 1)
  BY <1>2 DEF Next1
<1> QED
  BY <1>1, <1>3

LEMMA PassOverStep == IInv /\ PassOver => IInv'
<1> SUFFICES ASSUME IInv, PassOver
             PROVE  IInv'
  OBVIOUS
<1> USE DEF IInv, FileSound, PassOver, reader, bounds
<1>1. /\ DOMAIN query' = {"pc", "stamp", "chn", "window"} /\ query'.stamp = query.stamp
      /\ query'.chn \in Channels /\ query'.pc \in {"idle", "window"}
      /\ query'.pc # "idle" => query'.chn = query.chn + 1
  BY NextNumber
<1>2. Shaped'
  BY <1>1 DEF Shaped
<1>3. TypeOK'
  BY <1>1, TypeParts, TypePartsNext
     DEF MainTyped, StoreTyped, ValuesTyped, FileTyped, RestTyped
<1>4. QueryTrue'
  <2>1. query.chn \in Int /\ Len(InfoNums) \in Int
    BY Numbers, TypeParts DEF RestTyped
  <2> QED
    BY <1>1, <2>1 DEF QueryTrue
<1> QED
  BY <1>2, <1>3, <1>4, FileKept, HandleKept, PassSame

LEMMA WindowStep == IInv /\ Window => IInv'
<1> SUFFICES ASSUME IInv, Window
             PROVE  IInv'
  OBVIOUS
<1> USE DEF IInv, FileSound, Window, reader, bounds
<1> DEFINE i == InfoNums[query.chn]
           window == IF regData[i].valid THEN Registers[i].interval ELSE DefaultWindow
<1>1. query' = [query EXCEPT !.pc = "select", !.window = window]
  OBVIOUS
<1>2. i \in Ids /\ window \in {Registers[i].interval, DefaultWindow}
  BY Numbers, TypeParts DEF RestTyped
<1> HIDE DEF window
<1>3. /\ DOMAIN query' = {"pc", "stamp", "chn", "window"} /\ query'.stamp = query.stamp
      /\ query'.chn = query.chn /\ query'.pc = "select" /\ query'.window = window
  BY <1>1 DEF Shaped
<1>4. Shaped'
  BY <1>3 DEF Shaped
<1>5. TypeOK'
  BY <1>3, TypeParts, TypePartsNext
     DEF MainTyped, StoreTyped, ValuesTyped, FileTyped, RestTyped
<1>6. QueryTrue'
  BY <1>2, <1>3 DEF QueryTrue
<1> QED
  BY <1>4, <1>5, <1>6, FileKept, HandleKept, PassSame

LEMMA SelectStep == IInv /\ Read /\ Select => IInv'
<1> SUFFICES ASSUME IInv, Read, Select
             PROVE  IInv'
  OBVIOUS
<1> USE DEF IInv, FileSound, reader, bounds
<1> DEFINE c == query.chn
           fails == From <= To /\ (db # "open" \/ Table \notin DOMAIN tables)
           answer == [value |-> Answer(InfoNums[c]), found |-> TRUE]
<1>1. /\ query.pc = "select" /\ query' = Next1
      /\ results' = [results EXCEPT ![c] = answer] \/ results' = results
      /\ db' = IF fails THEN Fails ELSE db
      /\ trouble' = IF fails THEN trouble \cup {"missing"} ELSE trouble
      /\ UNCHANGED <<clock, main, pData, regData, tables, queries, bounds>>
  BY DEF Select
<1> HIDE DEF fails
<1>2. /\ DOMAIN query' = {"pc", "stamp", "chn", "window"} /\ query'.stamp = query.stamp
      /\ query'.chn \in Channels /\ query'.pc \in {"idle", "window"}
      /\ query'.pc # "idle" => query'.chn = query.chn + 1
  BY <1>1, NextNumber
<1>3. /\ c \in Int /\ Len(InfoNums) \in Int /\ Channels = 1 .. Len(InfoNums) /\ c \in Channels
      /\ DOMAIN answer = {"value", "found"}
  BY Numbers, TypeParts DEF RestTyped
<1> HIDE DEF answer
<1>4. Shaped'
  BY <1>1, <1>2, <1>3 DEF Shaped
<1>5. TypeOK'
  BY <1>1, <1>2, TypeParts, TypePartsNext
     DEF MainTyped, StoreTyped, ValuesTyped, FileTyped, RestTyped, Fails, Troubles
<1>6. QueryTrue'
  <2>1. ASSUME NEW x \in query'.chn .. Len(InfoNums), query'.pc # "idle"
        PROVE  ~results'[x].found
    <3>1. x \in Channels /\ x # c /\ x \in c .. Len(InfoNums)
      BY <1>2, <1>3, <2>1
    <3>2. results'[x] = results[x]
      BY <1>1, <3>1 DEF Shaped
    <3> QED
      BY <1>1, <3>1, <3>2 DEF QueryTrue
  <2> QED
    BY <1>2, <2>1 DEF QueryTrue
<1>7. StaysOpen'
  BY <1>1 DEF StaysOpen
<1> QED
  BY <1>1, <1>4, <1>5, <1>6, <1>7, FileKept, PassSame

-----------------------------------------------------------------------------
(* The channel tasks, the clock and the power.                             *)

LEMMA StoreStep ==
  ASSUME IInv, NEW i \in Ids, Store(i)
  PROVE  IInv'
<1> USE DEF IInv, FileSound, Store, reader
<1> DEFINE old == pData[Registers[i].fun]
           b(o) == o - Place[i]
           stored == [o \in DOMAIN old |-> IF b(o) \in 0 .. Width(i) - 1
                                           THEN Bytes(i, polled'[i])[b(o) + 1] ELSE old[o]]
<1>1. /\ pData' = [pData EXCEPT ![Registers[i].fun] = stored]
      /\ polled' = [polled EXCEPT ![i] = @ + 1]
      /\ Registers[i].fun \in 1 .. 4 /\ Width(i) \in Nat
  BY RegisterTypes
<1>2. polled' \in [Ids -> Nat] /\ polled'[i] \in Nat \ {0}
  BY <1>1, TypeParts DEF RestTyped
<1>3. \A n \in 1 .. Width(i) : Bytes(i, polled'[i])[n] \in Byte
  BY <1>1, <1>2 DEF Bytes, Byte
<1>4. \A o \in DOMAIN old : stored[o] \in Byte
  <2>1. \A o \in DOMAIN old : old[o] \in Byte
    BY <1>1, TypeParts DEF StoreTyped
  <2>2. \A o : b(o) \in 0 .. Width(i) - 1 => b(o) + 1 \in 1 .. Width(i)
    <3> HIDE DEF b
    <3> QED
      BY <1>1
  <2> HIDE DEF old, b
  <2> QED
    BY <1>3, <2>1, <2>2
<1>5. DOMAIN stored = DOMAIN old
  OBVIOUS
<1> HIDE DEF stored
<1>6. Shaped'
  BY <1>1 DEF Shaped
<1>7. TypeOK'
  <2>1. StoreTyped'
    BY <1>1, <1>4, <1>5, TypeParts DEF StoreTyped, Shaped
  <2>2. RestTyped'
    BY <1>2, TypeParts DEF RestTyped, Troubles
  <2>3. MainTyped' /\ ValuesTyped' /\ FileTyped'
    BY TypeParts DEF MainTyped, ValuesTyped, FileTyped
  <2> QED
    BY <2>1, <2>2, <2>3, TypePartsNext
<1> QED
  BY <1>6, <1>7, FileKept, HandleKept, QueryKept, PassSame

(* The clock moves: between two passes, or it spoils the pass.             *)
LEMMA MovesStep ==
  ASSUME IInv, NEW t \in Nat, Moves(t),
         UNCHANGED <<main, pData, regData, tables, db, reader, polled>>
  PROVE  IInv'
<1> USE DEF IInv, FileSound, Moves, reader
<1>1. trouble \subseteq trouble'
  OBVIOUS
<1>2. Shaped'
  BY DEF Shaped
<1>3. TypeOK'
  BY TypeParts, TypePartsNext
     DEF MainTyped, StoreTyped, ValuesTyped, FileTyped, RestTyped, Troubles
<1>4. PassTrue'
  BY TypeParts DEF PassTrue, Clean, UpToTime, MainTyped, Pcs
<1> QED
  BY <1>1, <1>2, <1>3, <1>4, FileKept, HandleKept, QueryKept

LEMMA ClockStep == IInv /\ (Tick \/ \E t \in 0 .. MaxClock : SetClock(t)) => IInv'
<1>1. ASSUME IInv, Tick
      PROVE  IInv'
  <2>1. clock + 1 \in Nat
    BY <1>1, TypeParts DEF IInv, FileSound, RestTyped
  <2> QED
    BY <1>1, <2>1, MovesStep DEF Tick
<1>2. ASSUME IInv, NEW t \in 0 .. MaxClock, SetClock(t)
      PROVE  IInv'
  <2>1. t \in Nat
    OBVIOUS
  <2> QED
    BY <1>2, <2>1, MovesStep DEF SetClock
<1> QED
  BY <1>1, <1>2

LEMMA CutOffStep == IInv /\ CutOff => IInv'
<1> SUFFICES ASSUME IInv, CutOff
             PROVE  IInv'
  OBVIOUS
<1> USE DEF IInv, FileSound, CutOff
<1>1. /\ main' = [Started EXCEPT !.pc = "off", !.ctv = 0, !.ftv = 0, !.today = 0]
      /\ pData' = [f \in 1 .. 4 |-> [o \in DOMAIN pData[f] |-> Zero]]
      /\ regData' = Emptied(Ids)
      /\ query' = [pc |-> "idle", stamp |-> 0, chn |-> 1, window |-> 0]
      /\ results' = [c \in Channels |-> [value |-> <<>>, found |-> FALSE]]
      /\ db' = "closed" /\ UNCHANGED <<clock, tables, trouble, queries, polled>>
  BY DEF Off
<1>2. /\ DOMAIN main' = {"pc", "ctv", "ftv", "date", "today", "timer", "i", "row"}
      /\ main'.pc = "off" /\ main'.ctv = 0 /\ main'.ftv = 0 /\ main'.today = 0
      /\ main'.date = 0 /\ main'.timer = 0 /\ DOMAIN main'.row = {}
  BY <1>1 DEF Started, NoRows
<1>3. /\ ValuesTyped' /\ DOMAIN regData' = Ids
      /\ \A i \in Ids : DOMAIN regData'[i] = {"value", "valid"} \/ regData'[i] = regData[i]
  BY <1>1, TypeParts, EmptiedType
<1>4. Shaped'
  <2>1. \A c \in Channels : DOMAIN results'[c] = {"value", "found"}
    BY <1>1
  <2> QED
    BY <1>1, <1>2, <1>3, <2>1 DEF Shaped
<1>5. TypeOK'
  <2>1. MainTyped'
    BY <1>2, Numbers DEF MainTyped, Pcs
  <2>2. StoreTyped'
    BY <1>1 DEF StoreTyped, Byte
  <2>3. FileTyped' /\ RestTyped'
    BY <1>1, Numbers, TypeParts DEF FileTyped, RestTyped
  <2> QED
    BY <1>3, <2>1, <2>2, <2>3, TypePartsNext
<1>6. PassTrue'
  BY <1>2 DEF PassTrue
<1>7. QueryTrue'
  BY <1>1 DEF QueryTrue
<1>8. StaysOpen'
  BY <1>2 DEF StaysOpen
<1> QED
  BY <1>1, <1>4, <1>5, <1>6, <1>7, <1>8, FileKept

(* After a start the rows are no later than the clock, or it was set back. *)
LEMMA BootStep == IInv /\ Boot => IInv'
<1> SUFFICES ASSUME IInv, Boot
             PROVE  IInv'
  OBVIOUS
<1> USE DEF IInv, FileSound, reader, bounds
<1> DEFINE day == Day(clock)
<1>1. /\ main' = Started /\ db' = "open"
      /\ tables' = IF day \in DOMAIN tables THEN tables ELSE Created(day)
      /\ trouble' = IF Later THEN trouble \cup {"repeated"} ELSE trouble
      /\ UNCHANGED <<clock, pData, regData, reader, bounds>>
  BY DEF Boot
<1>2. /\ DOMAIN main' = {"pc", "ctv", "ftv", "date", "today", "timer", "i", "row"}
      /\ main'.pc = "sleep" /\ main'.ctv = clock /\ main'.ftv = clock /\ main'.today = day
      /\ main'.date = 0 /\ main'.timer = 0 /\ DOMAIN main'.row = {}
  BY <1>1 DEF Started, NoRows
<1>3. clock \in Nat /\ day \in Nat /\ Second(clock) \in Nat
  BY Numbers, TimeParts, TypeParts DEF RestTyped
<1> HIDE DEF day
<1>4. \/ tables' = tables /\ day \in DOMAIN tables
      \/ /\ DOMAIN tables' = (DOMAIN tables \ {day - Retention}) \cup {day}
         /\ DOMAIN tables'[day] = {}
         /\ \A d \in DOMAIN tables' : d # day => tables'[d] = tables[d]
  BY <1>1, CreatedTables DEF day
<1>5. Shaped'
  BY <1>1, <1>2 DEF Shaped
<1>6. TypeOK'
  <2>1. MainTyped'
    BY <1>2, <1>3, Numbers DEF MainTyped, Pcs
  <2>2. FileTyped'
    BY <1>3, <1>4, TypeParts DEF FileTyped
  <2>3. StoreTyped' /\ ValuesTyped' /\ RestTyped'
    BY <1>1, TypeParts DEF StoreTyped, ValuesTyped, RestTyped, Troubles
  <2> QED
    BY <2>1, <2>2, <2>3, TypePartsNext
<1>7. /\ \A d \in DOMAIN tables : d \in Nat /\ \A k \in DOMAIN tables[d] : k \in Nat
      /\ Retention \in Nat /\ Retention > 0
  BY Numbers, TypeParts DEF FileTyped
<1>8. ASSUME Clean'
      PROVE  /\ Clean
             /\ \A d \in DOMAIN tables :
                  \/ d < day
                  \/ d = day /\ \A k \in DOMAIN tables[d] : k <= Second(clock)
  BY <1>1, <1>3, <1>7, <1>8 DEF Clean, Later, day
<1>9. OldTablesGone'
  <2> SUFFICES ASSUME Clean', NEW d \in DOMAIN tables'
               PROVE  d + Retention \notin DOMAIN tables'
    BY DEF OldTablesGone, Clean
  <2>1. \A e \in DOMAIN tables : e + Retention \notin DOMAIN tables
    BY <1>8 DEF OldTablesGone, Clean
  <2> QED
    BY <1>3, <1>4, <1>7, <1>8, <2>1
<1>10. PassTrue'
  <2> SUFFICES ASSUME Clean'
               PROVE  PassTrue'
    BY DEF PassTrue
  <2>1. main'.today = Day(main'.ftv) /\ main'.today \in DOMAIN tables'
    BY <1>2, <1>4 DEF day
  <2>2. \A d \in DOMAIN tables' :
          \/ d < day
          \/ d = day /\ \A k \in DOMAIN tables'[d] : k <= Second(clock)
    BY <1>4, <1>8
  <2>3. UpToTime(main.ftv)'
    BY <1>2, <2>2 DEF UpToTime, day
  <2> QED
    BY <1>2, <2>1, <2>3 DEF PassTrue
<1>11. StaysOpen'
  BY <1>1 DEF StaysOpen
<1> QED
  BY <1>1, <1>5, <1>6, <1>9, <1>10, <1>11, QueryKept

-----------------------------------------------------------------------------
LEMMA InitIInv == Init => IInv
<1> SUFFICES ASSUME Init
             PROVE  IInv
  OBVIOUS
<1> USE DEF Init
<1>1. /\ DOMAIN main = {"pc", "ctv", "ftv", "date", "today", "timer", "i", "row"}
      /\ main.pc = "sleep" /\ main.ctv = 0 /\ main.ftv = 0 /\ main.today = Day(0)
      /\ main.date = 0 /\ main.timer = 0 /\ DOMAIN main.row = {}
  BY DEF Started, NoRows
<1>2. Day(0) \in Nat /\ DOMAIN tables = {Day(0)} /\ DOMAIN tables[Day(0)] = {}
  BY TimeParts DEF NoRows
<1>3. Shaped
  BY <1>1 DEF Shaped
<1>4. TypeOK
  <2>1. MainTyped
    BY <1>1, <1>2, Numbers DEF MainTyped, Pcs
  <2>2. StoreTyped
    BY DEF StoreTyped, Byte
  <2>3. ValuesTyped
    <3>1. ASSUME NEW i \in Ids
          PROVE  NoReading(i) \in [1 .. Width(i) -> Byte]
      BY DEF NoReading, Zeros, Byte
    <3>2. \A i \in Ids : regData[i].value = NoReading(i) /\ regData[i].valid = FALSE
      OBVIOUS
    <3> QED
      BY <3>1, <3>2 DEF ValuesTyped
  <2>4. FileTyped /\ RestTyped
    BY <1>2, Numbers DEF FileTyped, RestTyped
  <2> QED
    BY <2>1, <2>2, <2>3, <2>4, TypeParts
<1>5. OldTablesGone
  BY <1>2, Numbers DEF OldTablesGone
<1>6. StaysOpen
  BY DEF StaysOpen
<1>7. PassTrue
  BY <1>1, <1>2 DEF PassTrue, UpToTime
<1>8. QueryTrue
  BY DEF QueryTrue
<1> QED
  BY <1>3, <1>4, <1>5, <1>6, <1>7, <1>8 DEF IInv, FileSound

LEMMA NextIInv == IInv /\ [Next]_vars => IInv'
<1> SUFFICES ASSUME IInv, [Next]_vars
             PROVE  IInv'
  OBVIOUS
<1>1. CASE Pass
  BY <1>1, WakeStep, StampStep, TableCheckStep, CreateTodayStep, CopyStep, ClearStep,
     RecordStep, InsertStep, DoneStep DEF Pass
<1>2. CASE Read
  BY <1>2, PassOverStep, WindowStep, SelectStep DEF Read
<1>3. CASE \E stamp \in Stamps : Ask(stamp)
  BY <1>3, AskStep
<1>4. CASE Outside
  BY <1>4, StoreStep, ClockStep, CutOffStep, BootStep DEF Outside
<1>5. CASE UNCHANGED vars
  <2>1. Shaped' /\ QueryTrue' /\ PassTrue' /\ OldTablesGone' /\ StaysOpen'
    BY <1>5, FileKept, HandleKept, QueryKept, PassSame
       DEF IInv, FileSound, Shaped, vars, reader
  <2>2. TypeOK'
    BY <1>5, TypeParts, TypePartsNext
       DEF IInv, FileSound, vars, reader, bounds,
           MainTyped, StoreTyped, ValuesTyped, FileTyped, RestTyped
  <2> QED
    BY <2>1, <2>2 DEF IInv, FileSound
<1> QED
  BY <1>1, <1>2, <1>3, <1>4, <1>5 DEF Next

THEOREM Inductive == Spec => []IInv
<1> QED
  BY InitIInv, NextIInv, PTL DEF Spec

(* The file keeps its bound and the handle stays open (ennDatabase.c:148-  *)
(* 195, 343-353): the key of a row is later than all that are there.       *)
THEOREM FileCorrect == Spec => []FileSound
<1>1. IInv => FileSound
  BY DEF IInv
<1> QED
  BY <1>1, Inductive, PTL

-----------------------------------------------------------------------------
(* The answers to the master.                                              *)

(* The window of a register is shorter than half a day.                    *)
ShortWindows ==
  /\ 2 * DefaultWindow < DayLength
  /\ \A i \in Ids : 2 * Registers[i].interval < DayLength

LEMMA Multiples ==
  ASSUME NEW d \in Int
  PROVE  /\ DayLength * d \in Int
         /\ d >= 0 => DayLength * d >= 0
         /\ d = 0 => DayLength * d = 0
         /\ d = 1 => DayLength * d = DayLength
         /\ d >= 2 => DayLength * d >= 2 * DayLength
<1>1. DayLength * d \in Int /\ (d >= 0 => DayLength * d >= 0)
  BY Numbers
<1>2. /\ d = 0 => DayLength * d = 0
      /\ d = 1 => DayLength * d = DayLength
  BY Numbers
<1>3. ASSUME d >= 2
      PROVE  DayLength * d >= 2 * DayLength
  <2>1. DayLength * (d - 2) >= 0 /\ DayLength * (d - 2) \in Int
    BY <1>3, Numbers
  <2>2. DayLength * (d - 2) = DayLength * d - 2 * DayLength
    BY Numbers
  <2> QED
    BY <1>1, <2>1, <2>2, Numbers
<1> QED
  BY <1>1, <1>2, <1>3

(* The seconds of a time less some others are those less the others, or a  *)
(* day or more later.                                                      *)
LEMMA Earlier ==
  ASSUME NEW s \in Int, NEW w \in Nat
  PROVE  /\ Second(s) - w <= Second(s - w)
         /\ w < DayLength => Second(s - w) \in {Second(s) - w, Second(s) - w + DayLength}
<1> DEFINE d == Day(s) - Day(s - w)
<1>1. /\ s - w \in Int /\ Day(s) \in Int /\ Day(s - w) \in Int /\ d \in Int
      /\ Second(s) \in 0 .. DayLength - 1 /\ Second(s - w) \in 0 .. DayLength - 1
      /\ s = DayLength * Day(s) + Second(s)
      /\ s - w = DayLength * Day(s - w) + Second(s - w)
  BY TimeParts
<1>2. d >= 0
  BY <1>1, TimesOrdered
<1>3. DayLength * d = DayLength * Day(s) - DayLength * Day(s - w)
  BY <1>1, Numbers
<1>4. DayLength * Day(s) \in Int /\ DayLength * Day(s - w) \in Int /\ DayLength * d \in Int
  BY <1>1, Multiples
<1>5. Second(s - w) = Second(s) - w + DayLength * d
  BY <1>1, <1>3, <1>4
<1>6. DayLength * d >= 0
  BY <1>1, <1>2, Multiples
<1> DEFINE m == DayLength * d
           here == Second(s)
           there == Second(s - w)
<1> HIDE DEF d
<1>7. ASSUME w < DayLength
      PROVE  Second(s - w) \in {Second(s) - w, Second(s) - w + DayLength}
  <2>0. /\ m \in Int /\ here \in 0 .. DayLength - 1 /\ there \in 0 .. DayLength - 1
        /\ there = here - w + m /\ DayLength \in Nat
    BY <1>1, <1>4, <1>5, Numbers
  <2> HIDE DEF m, here, there
  <2>1. ~(m >= 2 * DayLength)
    BY <1>7, <2>0
  <2>2. d = 0 \/ d = 1
    BY <1>1, <1>2, <2>1, Multiples DEF m
  <2>3. m = 0 \/ m = DayLength
    BY <1>1, <2>2, Multiples DEF m
  <2>4. there \in {here - w, here - w + DayLength}
    BY <2>0, <2>3
  <2> QED
    BY <2>4 DEF here, there
<1> QED
  BY <1>1, <1>4, <1>5, <1>6, <1>7

(* The window reaches no farther than its width, and if it is shorter than *)
(* half a day and not empty, the time itself lies in it.                   *)
LEMMA WindowEnds ==
  ASSUME NEW s \in Int, NEW w \in Nat
  PROVE  /\ Second(s) - w <= Second(s - w) /\ Second(s + w) <= Second(s) + w
         /\ 2 * w < DayLength /\ Second(s - w) <= Second(s + w) =>
              Second(s) \in Second(s - w) .. Second(s + w)
<1> DEFINE from == Second(s - w)  here == Second(s)  to == Second(s + w)
<1>1. s + w \in Int /\ s - w \in Int /\ (s + w) - w = s
  OBVIOUS
<1>2. /\ from \in 0 .. DayLength - 1 /\ here \in 0 .. DayLength - 1
      /\ to \in 0 .. DayLength - 1 /\ DayLength \in Nat
  BY <1>1, TimeParts, Numbers
<1>3. /\ here - w <= from
      /\ w < DayLength => from \in {here - w, here - w + DayLength}
  BY Earlier
<1>4. /\ to - w <= here
      /\ w < DayLength => here \in {to - w, to - w + DayLength}
  BY <1>1, Earlier
<1> HIDE DEF from, here, to
<1>5. to <= here + w
  BY <1>2, <1>4
<1>6. ASSUME 2 * w < DayLength, from <= to
      PROVE  here \in from .. to
  BY <1>2, <1>3, <1>4, <1>6
<1>7. 2 * w < DayLength /\ from <= to => here \in from .. to
  BY <1>6
<1> QED
  BY <1>3, <1>5, <1>7 DEF from, here, to

(* What a question does, in a state of the invariant.                      *)
LEMMA SelectAnswers ==
  ASSUME IInv, ShortWindows, Select
  PROVE  LET i == InfoNums[query.chn]
             rows == IF Table \in DOMAIN tables
                     THEN {k \in DOMAIN tables[Table] : i \in DOMAIN tables[Table][k]} ELSE {}
         IN  /\ results'[query.chn].found =>
                  \E k \in rows : Near(i, k) /\ results'[query.chn].value = Cut(tables[Table][k][i])
             /\ Second(query.stamp) \in rows /\ From <= To /\ db = "open" =>
                  results'[query.chn].found
<1> DEFINE c == query.chn
           i == InfoNums[c]
           rows == IF Table \in DOMAIN tables
                   THEN {k \in DOMAIN tables[Table] : i \in DOMAIN tables[Table][k]} ELSE {}
           here == Second(query.stamp)
           fails == From <= To /\ (db # "open" \/ Table \notin DOMAIN tables)
           found == From <= To /\ ~fails /\ Found(i, Table) # {}
           answer == [value |-> Answer(i), found |-> TRUE]
<1>1. /\ query.pc = "select"
      /\ results' = IF found THEN [results EXCEPT ![c] = answer] ELSE results
  BY DEF Select
<1>2. /\ c \in Channels /\ i \in Ids /\ query.stamp \in Nat
      /\ query.window \in {Registers[i].interval, DefaultWindow}
  BY <1>1, TypeParts DEF IInv, FileSound, RestTyped, QueryTrue
<1>3. /\ query.window \in Nat /\ 2 * query.window < DayLength
      /\ query.window <= Limit(i) /\ Limit(i) \in Nat
  <2>1. Registers[i].interval \in Nat /\ DefaultWindow \in Nat
    BY <1>2, RegisterTypes, Numbers
  <2> HIDE DEF i
  <2> QED
    BY <1>2, <2>1 DEF ShortWindows, Limit
<1>4. /\ From \in Int /\ To \in Int /\ here \in Int
      /\ here - query.window <= From /\ To <= here + query.window
      /\ From <= To => here \in From .. To
  <2>1. /\ Second(query.stamp) \in Int /\ Second(query.stamp - query.window) \in Int
        /\ Second(query.stamp + query.window) \in Int
    BY <1>2, <1>3, TimeParts
  <2> DEFINE s == query.stamp  w == query.window
  <2>2. s \in Int /\ w \in Nat /\ 2 * w < DayLength
    BY <1>2, <1>3
  <2> HIDE DEF s, w
  <2>3. /\ Second(s) - w <= Second(s - w) /\ Second(s + w) <= Second(s) + w
        /\ Second(s - w) <= Second(s + w) => Second(s) \in Second(s - w) .. Second(s + w)
    BY <2>2, WindowEnds
  <2> QED
    BY <2>1, <2>3 DEF From, To, s, w
<1>5. ASSUME Table \in DOMAIN tables
      PROVE  Found(i, Table) = {k \in rows : k \in From .. To} /\ rows \subseteq Nat
  BY <1>5, Numbers, TypeParts DEF Found, IInv, FileSound, FileTyped
<1>6. ~results[c].found /\ DOMAIN results = Channels
  BY <1>1, <1>2, Numbers DEF IInv, Shaped, QueryTrue
<1> HIDE DEF rows, i, answer, found
<1>7. ASSUME results'[c].found
      PROVE  \E k \in rows : Near(i, k) /\ results'[c].value = Cut(tables[Table][k][i])
  <2>1. found /\ results'[c] = answer
    BY <1>1, <1>2, <1>6, <1>7
  <2>2. Table \in DOMAIN tables /\ Found(i, Table) # {}
    BY <2>1 DEF found
  <2> DEFINE S == Found(i, Table)
             k == Earliest(S)
  <2>3. S \subseteq rows /\ S \subseteq Nat /\ S \subseteq From .. To
    BY <1>5, <2>2
  <2>4. \E x \in S : \A y \in S : x <= y
    BY <2>2, <2>3, LeastNumber
  <2>5. k \in S
    <3> HIDE DEF S
    <3> QED
      BY <2>4 DEF Earliest
  <2>6. results'[c].value = Cut(tables[Table][k][i])
    BY <2>1 DEF answer, Answer
  <2>7. Near(i, k)
    <3> HIDE DEF k
    <3>1. k \in From .. To
      BY <2>3, <2>5
    <3>2. k - here \in -Limit(i) .. Limit(i)
      BY <1>3, <1>4, <3>1
    <3> QED
      BY <3>2 DEF Near
  <2> HIDE DEF k
  <2> QED
    BY <2>3, <2>5, <2>6, <2>7
<1>8. ASSUME here \in rows, From <= To, db = "open"
      PROVE  results'[c].found
  <2>1. Table \in DOMAIN tables
    BY <1>8 DEF rows
  <2>2. here \in Found(i, Table)
    BY <1>4, <1>5, <1>8, <2>1
  <2>3. found
    BY <1>8, <2>1, <2>2 DEF found
  <2> QED
    BY <1>1, <1>2, <1>6, <2>3 DEF answer
<1> QED
  BY <1>7, <1>8 DEF rows, i

(* A total that is given comes from a row of its register near the time    *)
(* that was asked for, and one of this very time is found                  *)
(* (ennDatabase.c:798-853): a window over midnight is the exception.       *)
THEOREM AnswersTrue == ASSUME ShortWindows PROVE Spec => AnswerTrue
<1> DEFINE True ==
      Select =>
       LET i == InfoNums[query.chn]
           rows == IF Table \in DOMAIN tables
                   THEN {k \in DOMAIN tables[Table] : i \in DOMAIN tables[Table][k]} ELSE {}
       IN  /\ results'[query.chn].found =>
                \E k \in rows : Near(i, k) /\ results'[query.chn].value = Cut(tables[Table][k][i])
           /\ Second(query.stamp) \in rows /\ From <= To /\ db = "open" =>
                results'[query.chn].found
<1>1. IInv => True
  BY SelectAnswers
<1> QED
  BY <1>1, Inductive, PTL DEF AnswerTrue

-----------------------------------------------------------------------------
(* The layout of the values.                                               *)

(* What holds of zero and of each number behind one of which it holds,     *)
(* holds of all; S is the set of which it holds.                           *)
LEMMA FromZero ==
  ASSUME NEW n \in Nat, NEW S, 0 \in S, \A k \in 1 .. n : k - 1 \in S => k \in S
  PROVE  0 .. n \subseteq S
<1> DEFINE Bad == {k \in 0 .. n : k \notin S}
<1>1. ASSUME Bad # {}
      PROVE  FALSE
  <2>1. PICK k \in Bad : \A j \in Bad : k <= j
    <3>1. Bad \subseteq Nat
      OBVIOUS
    <3> HIDE DEF Bad
    <3> QED
      BY <1>1, <3>1, LeastNumber
  <2>2. k \in 1 .. n /\ k - 1 \in 0 .. n /\ ~(k <= k - 1) /\ k \notin S
    BY <2>1
  <2>3. k - 1 \in S
    BY <2>1, <2>2
  <2> QED
    BY <2>2, <2>3
<1> QED
  BY <1>1

Adds(u, w, n) == u = [k \in 0 .. n |-> IF k = 0 THEN 0 ELSE u[k - 1] + w[k]]

(* There are partial sums up to every number.                              *)
LEMMA PartialSums ==
  ASSUME NEW n \in Nat, NEW w
  PROVE  \E u : Adds(u, w, n)
<1> DEFINE S == {k \in 0 .. n : \E u : Adds(u, w, k)}
<1>1. 0 \in S
  <2> DEFINE u == [k \in 0 .. 0 |-> 0]
  <2>1. u = [k \in 0 .. 0 |-> IF k = 0 THEN 0 ELSE u[k - 1] + w[k]]
    OBVIOUS
  <2>2. Adds(u, w, 0)
    BY <2>1 DEF Adds
  <2> QED
    BY <2>2
<1>2. ASSUME NEW k \in 1 .. n, k - 1 \in S
      PROVE  k \in S
  <2>1. PICK u : Adds(u, w, k - 1)
    BY <1>2
  <2>2. \A i \in 0 .. k - 1 : u[i] = IF i = 0 THEN 0 ELSE u[i - 1] + w[i]
    BY <2>1 DEF Adds
  <2> DEFINE v == [i \in 0 .. k |-> IF i = k THEN u[k - 1] + w[k] ELSE u[i]]
  <2>3. ASSUME NEW i \in 0 .. k
        PROVE  v[i] = IF i = 0 THEN 0 ELSE v[i - 1] + w[i]
    <3>1. i # 0 => i - 1 \in 0 .. k /\ i - 1 # k
      OBVIOUS
    <3>2. CASE i = k
      BY <3>1, <3>2
    <3>3. CASE i # k
      <4>1. i \in 0 .. k - 1
        BY <3>3
      <4> QED
        BY <2>2, <3>1, <3>3, <4>1
    <3> QED
      BY <3>2, <3>3
  <2>4. v = [i \in 0 .. k |-> v[i]]
    OBVIOUS
  <2>5. Adds(v, w, k)
    <3> HIDE DEF v
    <3> QED
      BY <2>3, <2>4 DEF Adds
  <2> QED
    BY <2>5
<1>3. 0 .. n \subseteq S
  <2> HIDE DEF S
  <2> QED
    BY <1>1, <1>2, FromZero
<1> QED
  BY <1>3

(* What Sums does: one number is added after the other.                    *)
LEMMA SumsStep ==
  ASSUME NEW w
  PROVE  /\ Sums(w)[0] = 0
         /\ \A k \in Ids : Sums(w)[k] = Sums(w)[k - 1] + w[k]
<1> DEFINE n == Len(Registers)
           u == CHOOSE u : Adds(u, w, n)
<1>1. n \in Nat /\ Ids = 1 .. n
  BY Numbers
<1>2. Adds(u, w, n)
  BY <1>1, PartialSums
<1>3. Sums(w) = u
  BY DEF Sums, Adds
<1> HIDE DEF u
<1>4. \A k \in 0 .. n : u[k] = IF k = 0 THEN 0 ELSE u[k - 1] + w[k]
  BY <1>2 DEF Adds
<1> QED
  BY <1>1, <1>3, <1>4

(* Sums of natural numbers are natural numbers, and grow.                  *)
LEMMA SumsGrow ==
  ASSUME NEW w, \A i \in Ids : w[i] \in Nat
  PROVE  \A k \in 0 .. Len(Registers) :
           Sums(w)[k] \in Nat /\ \A j \in 0 .. k : Sums(w)[j] <= Sums(w)[k]
<1> DEFINE n == Len(Registers)
           u == Sums(w)
           S == {k \in 0 .. n : /\ u[k] \in Nat
                                /\ \A j \in 0 .. k : u[j] \in Nat /\ u[j] <= u[k]}
<1>1. n \in Nat /\ Ids = 1 .. n
  BY Numbers
<1>2. u[0] = 0 /\ \A k \in Ids : u[k] = u[k - 1] + w[k]
  BY SumsStep
<1> HIDE DEF u
<1>3. 0 \in S
  BY <1>1, <1>2
<1>4. ASSUME NEW k \in 1 .. n, k - 1 \in S
      PROVE  k \in S
  <2>0. u[k - 1] \in Nat /\ \A j \in 0 .. k - 1 : u[j] \in Nat /\ u[j] <= u[k - 1]
    BY <1>4, Zenon
  <2>1. u[k] = u[k - 1] + w[k] /\ w[k] \in Nat
    BY <1>1, <1>2
  <2>2. u[k] \in Nat /\ u[k - 1] <= u[k] /\ u[k] <= u[k]
    BY <2>0, <2>1
  <2>3. ASSUME NEW j \in 0 .. k
        PROVE  u[j] \in Nat /\ u[j] <= u[k]
    <3>1. CASE j = k
      BY <2>2, <3>1
    <3>2. CASE j # k
      <4>1. j \in 0 .. k - 1
        BY <3>2
      <4>2. u[j] \in Nat /\ u[j] <= u[k - 1]
        BY <2>0, <4>1
      <4> QED
        BY <2>0, <2>2, <4>2
    <3> QED
      BY <3>1, <3>2
  <2> QED
    BY <2>2, <2>3
<1>5. 0 .. n \subseteq S
  <2> HIDE DEF S
  <2> QED
    BY <1>1, <1>3, <1>4, FromZero
<1> QED
  BY <1>5 DEF u

(* The places of a register lie within the data of its function.           *)
LEMMA PlaceFits ==
  ASSUME NEW i \in Ids
  PROVE  /\ Place[i] \in Nat /\ Size(Registers[i].fun) \in Nat
         /\ Place[i] + Width(i) <= Size(Registers[i].fun)
<1> DEFINE f == Registers[i].fun
           w == WidthsOf(f)
           n == Len(Registers)
<1>1. n \in Nat /\ i \in 1 .. n /\ Ids = 1 .. n
  BY Numbers
<1>2. w[i] = Width(i) /\ \A j \in Ids : w[j] \in Nat
  BY RegisterTypes DEF WidthsOf
<1>3. Place[i] = Sums(w)[i - 1] /\ Size(f) = Sums(w)[n]
  BY DEF Place, Size
<1> HIDE DEF w, f
<1>4. Sums(w)[i] = Sums(w)[i - 1] + w[i]
  BY SumsStep
<1>5. /\ Sums(w)[i - 1] \in Nat /\ Sums(w)[i] \in Nat /\ Sums(w)[n] \in Nat
      /\ Sums(w)[i] <= Sums(w)[n]
  BY <1>1, <1>2, SumsGrow
<1> QED
  BY <1>2, <1>3, <1>4, <1>5 DEF f

(* The places of two registers of the same function have none in common.   *)
LEMMA PlacesApart ==
  ASSUME NEW i \in Ids, NEW j \in Ids, i < j, Registers[i].fun = Registers[j].fun
  PROVE  Place[i] + Width(i) <= Place[j]
<1> DEFINE f == Registers[i].fun
           w == WidthsOf(f)
           n == Len(Registers)
<1>1. n \in Nat /\ i \in 1 .. n /\ j \in 1 .. n /\ Ids = 1 .. n
  BY Numbers
<1>2. w[i] = Width(i) /\ \A k \in Ids : w[k] \in Nat
  BY RegisterTypes DEF WidthsOf
<1>3. Place[i] = Sums(w)[i - 1] /\ Place[j] = Sums(w)[j - 1]
  BY DEF Place
<1> HIDE DEF w, f
<1>4. Sums(w)[i] = Sums(w)[i - 1] + w[i]
  BY SumsStep
<1>5. j - 1 \in 0 .. n /\ i \in 0 .. j - 1
  BY <1>1
<1>6. Sums(w)[i] <= Sums(w)[j - 1]
  BY <1>2, <1>5, SumsGrow
<1> QED
  BY <1>2, <1>3, <1>4, <1>6

-----------------------------------------------------------------------------
(* Readings on their way.                                                  *)

(* What register i has in pData, as it was sent and as it is copied.       *)
Part(i) == [b \in 1 .. Width(i) |-> pData[Registers[i].fun][Place[i] + b - 1]]
Stored(i) == Mapped(i, Part(i))

LEMMA ValueTypes ==
  ASSUME NEW i \in Ids
  PROVE  /\ Zeros(Width(i)) \in [1 .. Width(i) -> Byte]
         /\ NoReading(i) = Zeros(Width(i))
         /\ \A n \in Nat \ {0} : Bytes(i, n) \in [1 .. Width(i) -> Byte]
<1>1. Width(i) \in Nat
  BY RegisterTypes
<1>2. Zeros(Width(i)) \in [1 .. Width(i) -> Byte]
  BY DEF Zeros, Byte
<1>3. ASSUME NEW n \in Nat \ {0}
      PROVE  Bytes(i, n) \in [1 .. Width(i) -> Byte]
  BY <1>1 DEF Bytes, Byte
<1> QED
  BY <1>2, <1>3 DEF NoReading

(* The byte of a value is found in the mapped one at the same place or at  *)
(* that counted from the end.                                              *)
LEMMA MappedAt ==
  ASSUME NEW i \in Ids, NEW v \in [1 .. Width(i) -> Byte]
  PROVE  \A b \in 1 .. Width(i) :
           /\ (Width(i) - b) + 1 \in 1 .. Width(i)
           /\ v[b] = Mapped(i, v)[IF Registers[i].fun \in Words THEN (Width(i) - b) + 1 ELSE b]
<1>1. Width(i) \in Nat
  BY RegisterTypes
<1>2. Len(v) = Width(i)
  BY <1>1
<1>3. Reverse(v) = [b \in 1 .. Width(i) |-> v[(Width(i) - b) + 1]]
  BY <1>2 DEF Reverse
<1>4. \A b \in 1 .. Width(i) : /\ (Width(i) - b) + 1 \in 1 .. Width(i)
                               /\ (Width(i) - ((Width(i) - b) + 1)) + 1 = b
  BY <1>1
<1>5. \A b \in 1 .. Width(i) : Reverse(v)[(Width(i) - b) + 1] = v[b]
  BY <1>3, <1>4
<1> QED
  BY <1>4, <1>5 DEF Mapped

LEMMA MappedOne ==
  ASSUME NEW i \in Ids, NEW v \in [1 .. Width(i) -> Byte], NEW w \in [1 .. Width(i) -> Byte],
         Mapped(i, v) = Mapped(i, w)
  PROVE  v = w
<1> DEFINE at(b) == IF Registers[i].fun \in Words THEN (Width(i) - b) + 1 ELSE b
<1>1. \A b \in 1 .. Width(i) : v[b] = Mapped(i, v)[at(b)]
  BY MappedAt
<1>2. \A b \in 1 .. Width(i) : w[b] = Mapped(i, w)[at(b)]
  BY MappedAt
<1> HIDE DEF at
<1>3. \A b \in 1 .. Width(i) : v[b] = w[b]
  BY <1>1, <1>2
<1>4. v = [b \in 1 .. Width(i) |-> v[b]] /\ w = [b \in 1 .. Width(i) |-> w[b]]
  OBVIOUS
<1> QED
  BY <1>3, <1>4, Zenon

LEMMA MappedZeros ==
  ASSUME NEW i \in Ids
  PROVE  Mapped(i, Zeros(Width(i))) = NoReading(i)
<1> DEFINE z == Zeros(Width(i))
<1>1. Width(i) \in Nat
  BY RegisterTypes
<1>2. z \in [1 .. Width(i) -> Byte] /\ \A b \in 1 .. Width(i) : z[b] = Zero
  BY ValueTypes DEF Zeros
<1>3. Len(z) = Width(i)
  BY <1>1, <1>2
<1>4. Reverse(z) = [b \in 1 .. Width(i) |-> z[(Width(i) - b) + 1]]
  BY <1>3 DEF Reverse
<1>5. \A b \in 1 .. Width(i) : (Width(i) - b) + 1 \in 1 .. Width(i)
  BY <1>1
<1>6. Reverse(z) = [b \in 1 .. Width(i) |-> Zero]
  BY <1>2, <1>4, <1>5
<1> QED
  BY <1>6 DEF Mapped, NoReading, Zeros

(* The number of a reading that is not zero is in its bytes.               *)
Numbered(i, v, n) == n \in Nat \ {0} /\ v = Reading(i, n) /\ v # NoReading(i)

LEMMA NumberedOnce ==
  ASSUME NEW i \in Ids, NEW v, NEW m, NEW n, Numbered(i, v, m), Numbered(i, v, n)
  PROVE  m = n
<1>1. /\ m \in Nat \ {0} /\ n \in Nat \ {0}
      /\ Mapped(i, Bytes(i, m)) = Mapped(i, Bytes(i, n))
      /\ Mapped(i, Bytes(i, m)) # NoReading(i)
  BY DEF Numbered, Reading
<1>2. Bytes(i, m) = Bytes(i, n)
  BY <1>1, ValueTypes, MappedOne
<1>3. Bytes(i, m) # Zeros(Width(i))
  BY <1>1, MappedZeros
<1>4. PICK b \in 1 .. Width(i) : Bytes(i, m)[b] # Zero
  BY <1>3 DEF Zeros, Bytes
<1>5. Bytes(i, m)[b] = <<i, m, b>> /\ Bytes(i, n)[b] = <<i, n, b>>
  BY <1>4 DEF Bytes
<1> QED
  BY <1>2, <1>5

(* The value is zero or a reading of the register; the reading v, if it is *)
(* one, was before w.                                                      *)
Known(i, v) == v = NoReading(i) \/ \E n \in 1 .. polled[i] : v = Reading(i, n)
Past(i, v, w) == \A m, n : Numbered(i, v, m) /\ Numbered(i, w, n) => m < n

LEMMA KnownPast ==
  ASSUME NEW i \in Ids, NEW v, Known(i, v), NEW n \in Nat, polled[i] \in Nat, polled[i] < n
  PROVE  Past(i, v, Reading(i, n))
<1> SUFFICES ASSUME NEW m, NEW k, Numbered(i, v, m), Numbered(i, Reading(i, n), k)
             PROVE  m < k
  BY DEF Past
<1>1. PICK l \in 1 .. polled[i] : v = Reading(i, l)
  BY DEF Known, Numbered
<1>2. m = l
  <2>1. Numbered(i, v, l)
    BY <1>1 DEF Numbered
  <2> QED
    BY <2>1, NumberedOnce
<1>3. k = n
  <2>1. Numbered(i, Reading(i, n), n)
    BY DEF Numbered
  <2> QED
    BY <2>1, NumberedOnce
<1> QED
  BY <1>1, <1>2, <1>3

LEMMA ZeroPast ==
  ASSUME NEW i \in Ids, NEW v
  PROVE  Past(i, v, NoReading(i)) /\ Past(i, NoReading(i), v)
BY DEF Past, Numbered

-----------------------------------------------------------------------------
(* The values in pData.                                                    *)

(* The data of each function has a place for each byte of its registers.   *)
Sized == \A f \in 1 .. 4 : DOMAIN pData[f] = 0 .. Size(f) - 1

(* The copy looks for each register where the channel task stores it.      *)
Aligned == \A i \in Ids : Source[i] = Place[i]

(* ENNIEC102_Data_Map finds the values of all registers when no channel    *)
(* has lists of two functions: what it adds up from the first register of  *)
(* a channel (IEC102_Main.c:1003-1021) is then what lies between the two.  *)
OneFunction ==
  \A i, j \in Ids : Registers[i].chan = Registers[j].chan => Registers[i].fun = Registers[j].fun

THEOREM CopiesAligned == OneFunction => Aligned
<1> SUFFICES ASSUME OneFunction, NEW i \in Ids
             PROVE  Source[i] = Place[i]
  BY DEF Aligned
<1> DEFINE n == Len(Registers)
           j == First(i)
           f == Registers[i].fun
           u == Sums(WidthsOf(f))
           v == Sums(Widths)
<1>1. n \in Nat /\ Ids = 1 .. n /\ i \in 1 .. n
  BY Numbers
<1>2. j \in 1 .. i /\ Registers[j].chan = Registers[i].chan
  <2> DEFINE S == {k \in 1 .. i : Registers[k].chan = Registers[i].chan}
  <2>1. S \subseteq Nat /\ i \in S
    BY <1>1
  <2>2. PICK k \in S : \A l \in S : k <= l
    <3> HIDE DEF S
    <3> QED
      BY <2>1, LeastNumber
  <2>3. \A l \in 1 .. k - 1 : Registers[l].chan # Registers[i].chan
    BY <1>1, <2>2
  <2> QED
    BY <2>2, <2>3 DEF First
<1> HIDE DEF j
<1>3. ASSUME NEW k \in j .. i
      PROVE  k \in Ids /\ Registers[k].fun = f
  <2>1. j \in Ids /\ k \in Ids
    BY <1>1, <1>2
  <2>2. Registers[j].chan \in Nat /\ Registers[k].chan \in Nat
    BY <2>1, RegisterTypes
  <2>3. k = j \/ Registers[j].chan <= Registers[k].chan
    BY <1>1, <1>2, <2>1, HistoryAssumption
  <2>4. k = i \/ Registers[k].chan <= Registers[i].chan
    BY <1>1, <1>2, <2>1, HistoryAssumption
  <2>5. Registers[k].chan = Registers[i].chan
    BY <1>2, <2>2, <2>3, <2>4
  <2> QED
    BY <2>1, <2>5 DEF OneFunction
<1>4. /\ \A k \in Ids : u[k] = u[k - 1] + WidthsOf(f)[k] /\ v[k] = v[k - 1] + Widths[k]
      /\ \A k \in 0 .. n : u[k] \in Nat /\ v[k] \in Nat
  <2>1. \A k \in Ids : WidthsOf(f)[k] \in Nat /\ Widths[k] \in Nat
    BY RegisterTypes DEF WidthsOf, Widths
  <2> QED
    BY <2>1, SumsStep, SumsGrow
<1>5. \A k \in j .. i : WidthsOf(f)[k] = Widths[k]
  BY <1>3 DEF WidthsOf, Widths
<1> HIDE DEF u, v
<1> DEFINE T == {m \in 0 .. i - j : u[j - 1 + m] - u[j - 1] = v[j - 1 + m] - v[j - 1]}
<1>6. 0 \in T
  BY <1>1, <1>2, <1>4
<1>7. ASSUME NEW m \in 1 .. i - j, m - 1 \in T
      PROVE  m \in T
  <2> DEFINE k == j - 1 + m
  <2>1. k \in j .. i /\ k \in Ids /\ k \in 0 .. n /\ k - 1 \in 0 .. n /\ j - 1 \in 0 .. n
    BY <1>1, <1>2
  <2>2. u[k] = u[k - 1] + Widths[k] /\ v[k] = v[k - 1] + Widths[k]
    BY <1>4, <1>5, <2>1
  <2>3. u[k - 1] - u[j - 1] = v[k - 1] - v[j - 1]
    <3>1. j - 1 + (m - 1) = k - 1
      BY <1>1, <1>2
    <3> QED
      BY <1>7, <3>1
  <2>4. /\ u[k] \in Nat /\ u[k - 1] \in Nat /\ u[j - 1] \in Nat
        /\ v[k] \in Nat /\ v[k - 1] \in Nat /\ v[j - 1] \in Nat
    BY <1>4, <2>1
  <2>5. Widths[k] \in Nat
    BY <2>1, RegisterTypes DEF Widths
  <2>6. u[k] - u[j - 1] = v[k] - v[j - 1]
    BY <2>2, <2>3, <2>4, <2>5
  <2> QED
    BY <2>6
<1>8. i - j \in T
  <2>1. i - j \in Nat
    BY <1>1, <1>2
  <2> HIDE DEF T
  <2>2. 0 .. i - j \subseteq T
    BY <1>6, <1>7, <2>1, FromZero
  <2> QED
    BY <2>1, <2>2
<1>9. u[i - 1] - u[j - 1] = v[i - 1] - v[j - 1]
  <2>1. j - 1 + (i - j) = i - 1
    BY <1>1, <1>2
  <2> QED
    BY <1>8, <2>1
<1>10. Place[i] = u[i - 1] /\ Place[j] = u[j - 1]
  <2>1. j \in Ids /\ Registers[j].fun = f
    BY <1>1, <1>2, <1>3
  <2> QED
    BY <2>1 DEF Place, u
<1>11. Source[i] = Place[j] + (v[i - 1] - v[j - 1])
  BY DEF Source, j, v
<1>12. /\ u[i - 1] \in Nat /\ u[j - 1] \in Nat /\ v[i - 1] \in Nat /\ v[j - 1] \in Nat
  <2>1. i - 1 \in 0 .. n /\ j - 1 \in 0 .. n
    BY <1>1, <1>2
  <2> QED
    BY <1>4, <2>1
<1> QED
  BY <1>9, <1>10, <1>11, <1>12

PlaceOf(i, b) == Place[i] + b - 1

LEMMA PlacesOf ==
  ASSUME NEW i \in Ids, NEW b \in 1 .. Width(i), Sized
  PROVE  /\ PlaceOf(i, b) \in DOMAIN pData[Registers[i].fun]
         /\ PlaceOf(i, b) - Place[i] = b - 1 /\ b - 1 \in 0 .. Width(i) - 1
         /\ \A j \in Ids : j # i /\ Registers[j].fun = Registers[i].fun =>
              PlaceOf(i, b) - Place[j] \notin 0 .. Width(j) - 1
<1>1. /\ Place[i] \in Nat /\ Size(Registers[i].fun) \in Nat /\ Width(i) \in Nat
      /\ Place[i] + Width(i) <= Size(Registers[i].fun) /\ Registers[i].fun \in 1 .. 4
  BY PlaceFits, RegisterTypes
<1>2. DOMAIN pData[Registers[i].fun] = 0 .. Size(Registers[i].fun) - 1
  BY <1>1 DEF Sized
<1>3. /\ PlaceOf(i, b) \in 0 .. Size(Registers[i].fun) - 1
      /\ PlaceOf(i, b) - Place[i] = b - 1 /\ b - 1 \in 0 .. Width(i) - 1
  BY <1>1 DEF PlaceOf
<1>4. ASSUME NEW j \in Ids, j # i, Registers[j].fun = Registers[i].fun
      PROVE  PlaceOf(i, b) - Place[j] \notin 0 .. Width(j) - 1
  <2>1. Place[j] \in Nat /\ Width(j) \in Nat
    BY PlaceFits, RegisterTypes
  <2>2. i < j \/ j < i
    BY <1>4, Numbers
  <2>3. CASE i < j
    <3>1. Place[i] + Width(i) <= Place[j]
      BY <1>4, <2>3, PlacesApart
    <3> QED
      BY <1>1, <2>1, <3>1 DEF PlaceOf
  <2>4. CASE j < i
    <3>1. Place[j] + Width(j) <= Place[i]
      BY <1>4, <2>4, PlacesApart
    <3> QED
      BY <1>1, <2>1, <3>1 DEF PlaceOf
  <2> QED
    BY <2>2, <2>3, <2>4
<1> QED
  BY <1>2, <1>3, <1>4

(* A change of the bytes of one register leaves those of the others.       *)
LEMMA PartChanged ==
  ASSUME NEW i \in Ids, NEW new, Sized, Shaped,
         pData' = [pData EXCEPT ![Registers[i].fun] =
           [o \in DOMAIN @ |-> IF o - Place[i] \in 0 .. Width(i) - 1
                               THEN new[o - Place[i] + 1] ELSE @[o]]]
  PROVE  /\ Sized'
         /\ \A j \in Ids : j # i => Part(j)' = Part(j)
         /\ Part(i)' = [b \in 1 .. Width(i) |-> new[b]]
<1> DEFINE f == Registers[i].fun
           old == pData[f]
           changed == [o \in DOMAIN old |-> IF o - Place[i] \in 0 .. Width(i) - 1
                                            THEN new[o - Place[i] + 1] ELSE old[o]]
<1>1. /\ f \in 1 .. 4 /\ DOMAIN pData = 1 .. 4
      /\ pData' = [pData EXCEPT ![f] = changed]
  BY RegisterTypes DEF Shaped
<1>2. /\ DOMAIN changed = DOMAIN old
      /\ \A o \in DOMAIN old :
           changed[o] = IF o - Place[i] \in 0 .. Width(i) - 1 THEN new[o - Place[i] + 1] ELSE old[o]
  OBVIOUS
<1> HIDE DEF changed
<1>3. pData'[f] = changed /\ \A g \in 1 .. 4 : g # f => pData'[g] = pData[g]
  BY <1>1
<1>4. Sized'
  BY <1>2, <1>3 DEF Sized
<1>5. ASSUME NEW j \in Ids, j # i
      PROVE  Part(j)' = Part(j)
  <2>1. Registers[j].fun \in 1 .. 4
    BY RegisterTypes
  <2>2. ASSUME NEW b \in 1 .. Width(j)
        PROVE  pData'[Registers[j].fun][PlaceOf(j, b)] = pData[Registers[j].fun][PlaceOf(j, b)]
    <3>1. CASE Registers[j].fun # f
      BY <1>3, <2>1, <3>1
    <3>2. CASE Registers[j].fun = f
      <4>1. /\ PlaceOf(j, b) \in DOMAIN old
            /\ PlaceOf(j, b) - Place[i] \notin 0 .. Width(i) - 1
        BY <1>5, <3>2, PlacesOf
      <4> QED
        BY <1>2, <1>3, <3>2, <4>1
    <3> QED
      BY <3>1, <3>2
  <2> QED
    BY <2>2 DEF Part, PlaceOf
<1>6. Part(i)' = [b \in 1 .. Width(i) |-> new[b]]
  <2>1. ASSUME NEW b \in 1 .. Width(i)
        PROVE  pData'[f][PlaceOf(i, b)] = new[b]
    <3>1. /\ PlaceOf(i, b) \in DOMAIN old /\ PlaceOf(i, b) - Place[i] = b - 1
          /\ b - 1 \in 0 .. Width(i) - 1
      BY PlacesOf
    <3>2. (b - 1) + 1 = b
      OBVIOUS
    <3>3. changed[PlaceOf(i, b)] = new[PlaceOf(i, b) - Place[i] + 1]
      BY <1>2, <3>1
    <3> QED
      BY <1>3, <3>1, <3>2, <3>3
  <2> QED
    BY <2>1 DEF Part, PlaceOf
<1> QED
  BY <1>4, <1>5, <1>6

(* What a step of a pass copies is what was stored.                        *)
LEMMA CopyStored ==
  ASSUME IInv, Aligned, Sized, Copy
  PROVE  regData' = [regData EXCEPT ![main.i] = [value |-> Stored(main.i), valid |-> TRUE]]
<1> DEFINE i == main.i
           data == pData[Registers[i].fun]
           at(o) == IF o \in DOMAIN data THEN data[o] ELSE Beyond
           bytes == [b \in 1 .. Width(i) |-> at(Source[i] + b - 1)]
<1>1. i \in Ids
  BY TypeParts DEF Copy, At, IInv, FileSound, MainTyped
<1>2. regData' = [regData EXCEPT ![i] = [value |-> Mapped(i, bytes), valid |-> TRUE]]
  BY DEF Copy
<1>3. \A b \in 1 .. Width(i) : at(Source[i] + b - 1) = data[Place[i] + b - 1]
  BY <1>1, PlacesOf DEF Aligned, PlaceOf
<1>4. bytes = Part(i)
  BY <1>3 DEF Part
<1> HIDE DEF bytes
<1> QED
  BY <1>2, <1>4 DEF Stored

-----------------------------------------------------------------------------
(* The way of the readings: what is in the file is before what waits for   *)
(* its row, this before what is in p_Reg_Data, and this before what is     *)
(* stored; between its copy and its zero a reading is at two places.       *)

InRow(i) == main.pc = "insert" /\ i \in DOMAIN main.row
Clearing(i) == main.pc = "clear" /\ main.i = i

RowFlows(i) ==
  InRow(i) => /\ Known(i, main.row[i]) /\ Past(i, main.row[i], Stored(i))
              /\ regData[i].value = NoReading(i)
FileFlows(i) ==
  \A r \in Recorded(i) : /\ Known(i, r[2])
                         /\ Past(i, r[2], regData[i].value) /\ Past(i, r[2], Stored(i))
                         /\ InRow(i) => Past(i, r[2], main.row[i])
InOrder(i) ==
  Clean => \A r, s \in Recorded(i) : r[1] < s[1] => Past(i, r[2], s[2])

Flows(i) ==
  /\ Stored(i) = NoReading(i) \/ (polled[i] > 0 /\ Stored(i) = Newest(i))
  /\ Known(i, regData[i].value)
  /\ Clearing(i) \/ Past(i, regData[i].value, Stored(i))
  /\ RowFlows(i) /\ FileFlows(i) /\ InOrder(i)

FlowInv == Sized /\ \A i \in Ids : Flows(i)

LEMMA FlowsKept ==
  ASSUME NEW i \in Ids, Flows(i),
         Stored(i)' = Stored(i), regData'[i].value = regData[i].value, polled'[i] = polled[i],
         Recorded(i)' \subseteq Recorded(i), Clean' => Clean, Clearing(i) => Clearing(i)',
         InRow(i)' => InRow(i) /\ main'.row[i] = main.row[i]
  PROVE  Flows(i)'
<1>1. \/ Stored(i)' = NoReading(i)
      \/ polled'[i] > 0 /\ Stored(i)' = Reading(i, polled'[i])
  BY DEF Flows, Newest
<1>2. /\ Known(i, regData[i].value)'
      /\ Clearing(i)' \/ Past(i, regData[i].value, Stored(i))'
  BY DEF Flows, Known
<1>3. RowFlows(i)'
  BY DEF Flows, RowFlows, Known
<1>4. FileFlows(i)'
  BY DEF Flows, FileFlows, Known
<1>5. InOrder(i)'
  BY DEF Flows, InOrder
<1> QED
  BY <1>1, <1>2, <1>3, <1>4, <1>5 DEF Flows, Newest

(* The rows of the file, before and after a step.                          *)
LEMMA RecordedRows ==
  \A i, r : r \in Recorded(i) <=>
    \E d \in DOMAIN tables : \E k \in DOMAIN tables[d] :
      i \in DOMAIN tables[d][k] /\ r = <<d * DayLength + k, tables[d][k][i]>>
<1> SUFFICES ASSUME NEW i, NEW r
             PROVE  r \in Recorded(i) <=>
                      \E d \in DOMAIN tables : \E k \in DOMAIN tables[d] :
                        i \in DOMAIN tables[d][k] /\ r = <<d * DayLength + k, tables[d][k][i]>>
  OBVIOUS
<1> DEFINE rows(d) == {<<d * DayLength + k, tables[d][k][i]>> :
                         k \in {j \in DOMAIN tables[d] : i \in DOMAIN tables[d][j]}}
<1>1. r \in Recorded(i) <=> \E d \in DOMAIN tables : r \in rows(d)
  BY DEF Recorded
<1> QED
  BY <1>1

LEMMA RecordedRowsNext ==
  (\A i, r : r \in Recorded(i) <=>
    \E d \in DOMAIN tables : \E k \in DOMAIN tables[d] :
      i \in DOMAIN tables[d][k] /\ r = <<d * DayLength + k, tables[d][k][i]>>)'
BY RecordedRows, PTL

(* A table that is created has no rows.                                    *)
LEMMA RecordedCreated ==
  ASSUME NEW i, NEW day, tables' = Created(day)
  PROVE  Recorded(i)' \subseteq Recorded(i)
<1>1. /\ DOMAIN tables' = (DOMAIN tables \ {Day(clock) - Retention}) \cup {day}
      /\ DOMAIN tables'[day] = {}
      /\ \A d \in DOMAIN tables' : d # day => tables'[d] = tables[d]
  BY CreatedTables
<1>2. ASSUME NEW r \in Recorded(i)'
      PROVE  r \in Recorded(i)
  <2>1. PICK d \in DOMAIN tables' : \E k \in DOMAIN tables'[d] :
          i \in DOMAIN tables'[d][k] /\ r = <<d * DayLength + k, tables'[d][k][i]>>
    BY <1>2, RecordedRowsNext
  <2>2. d \in DOMAIN tables /\ tables'[d] = tables[d]
    BY <1>1, <2>1
  <2> QED
    BY <2>1, <2>2, RecordedRows
<1> QED
  BY <1>2

(* The row that is inserted is later than all others.                      *)
LEMMA RecordedInserted ==
  ASSUME NEW i \in Ids, IInv, Insert
  PROVE  /\ \A r \in Recorded(i)' : \/ r \in Recorded(i)
                                    \/ InRow(i) /\ r = <<main.today * DayLength + main.date, main.row[i]>>
         /\ Clean => \A r \in Recorded(i) : r[1] < main.today * DayLength + main.date
                                            /\ r[1] \in Int
<1> DEFINE day == main.today
           ok == db = "open" /\ day \in DOMAIN tables /\ main.date \notin DOMAIN tables[day]
           rows == [k \in DOMAIN tables[day] \cup {main.date} |->
                      IF k = main.date THEN main.row ELSE tables[day][k]]
<1>1. main.pc = "insert"
  BY DEF Insert, At
<1>2. (ok /\ tables' = [tables EXCEPT ![day] = rows]) \/ tables' = tables
  BY DEF Insert
<1>3. /\ DOMAIN rows = DOMAIN tables[day] \cup {main.date}
      /\ \A k \in DOMAIN rows : rows[k] = IF k = main.date THEN main.row ELSE tables[day][k]
  OBVIOUS
<1>4. /\ DOMAIN tables' = DOMAIN tables
      /\ \A d \in DOMAIN tables : tables'[d] = tables[d] \/ (d = day /\ tables'[d] = rows)
  BY <1>2
<1> HIDE DEF rows, ok
<1>5. ASSUME NEW r \in Recorded(i)', r \notin Recorded(i)
      PROVE  InRow(i) /\ r = <<day * DayLength + main.date, main.row[i]>>
  <2>0. PICK d \in DOMAIN tables' : \E k \in DOMAIN tables'[d] :
          i \in DOMAIN tables'[d][k] /\ r = <<d * DayLength + k, tables'[d][k][i]>>
    BY <1>5, RecordedRowsNext
  <2>1. PICK k \in DOMAIN tables'[d] :
          i \in DOMAIN tables'[d][k] /\ r = <<d * DayLength + k, tables'[d][k][i]>>
    BY <2>0
  <2>2. ~(k \in DOMAIN tables[d] /\ tables'[d][k] = tables[d][k])
    BY <1>4, <1>5, <2>1, RecordedRows
  <2>3. d = day /\ tables'[d] = rows /\ k = main.date
    BY <1>3, <1>4, <2>1, <2>2
  <2>4. tables'[d][k] = main.row
    BY <1>3, <2>1, <2>3
  <2> QED
    BY <1>1, <2>1, <2>3, <2>4 DEF InRow
<1>6. ASSUME Clean, NEW r \in Recorded(i)
      PROVE  r[1] < day * DayLength + main.date /\ r[1] \in Int
  <2>1. day = Day(main.ctv) /\ main.date = Second(main.ctv) /\ Before(main.ctv)
    BY <1>1, <1>6 DEF IInv, PassTrue
  <2>2. PICK d \in DOMAIN tables : \E k \in DOMAIN tables[d] :
          r = <<d * DayLength + k, tables[d][k][i]>>
    BY <1>6, RecordedRows
  <2>3. PICK k \in DOMAIN tables[d] : r = <<d * DayLength + k, tables[d][k][i]>>
    BY <2>2
  <2>4. /\ d \in Nat /\ k \in 0 .. DayLength - 1 /\ day \in Nat /\ main.date \in 0 .. DayLength - 1
        /\ DayLength \in Nat
    BY Numbers, TypeParts DEF IInv, FileSound, FileTyped, MainTyped
  <2>5. d < day \/ (d = day /\ k < main.date)
    BY <2>1, <2>4 DEF Before
  <2>6. r[1] = d * DayLength + k
    BY <2>3
  <2>7. CASE d = day /\ k < main.date
    <3>1. d * DayLength \in Int
      BY <2>4
    <3> QED
      BY <2>4, <2>6, <2>7, <3>1
  <2>8. CASE d < day
    <3>1. (d + 1) * DayLength <= day * DayLength
      BY <2>4, <2>8
    <3>2. (d + 1) * DayLength = d * DayLength + DayLength
      BY <2>4
    <3>3. d * DayLength \in Int /\ day * DayLength \in Int
      BY <2>4
    <3> QED
      BY <2>4, <2>6, <3>1, <3>2, <3>3
  <2> QED
    BY <2>5, <2>7, <2>8
<1> QED
  BY <1>5, <1>6

LEMMA SameStored ==
  ASSUME NEW i, pData' = pData
  PROVE  Stored(i)' = Stored(i) /\ (Sized => Sized')
BY DEF Stored, Part, Sized

LEMMA SameRecorded ==
  ASSUME NEW i, tables' = tables
  PROVE  Recorded(i)' = Recorded(i)
BY DEF Recorded

(* Steps that move no value.                                               *)
LEMMA QuietFlows ==
  ASSUME FlowInv, UNCHANGED <<pData, regData, polled>>, trouble \subseteq trouble',
         \A i \in Ids : Recorded(i)' \subseteq Recorded(i),
         main' = main \/ (main.pc # "clear" /\ main'.pc # "insert")
  PROVE  FlowInv'
<1>1. Sized'
  BY SameStored DEF FlowInv
<1>2. ASSUME NEW i \in Ids
      PROVE  Flows(i)'
  <2>1. Flows(i) /\ Recorded(i)' \subseteq Recorded(i)
    BY DEF FlowInv
  <2>2. Stored(i)' = Stored(i)
    BY SameStored
  <2>3. Clean' => Clean
    BY DEF Clean
  <2>4. /\ Clearing(i) => Clearing(i)'
        /\ InRow(i)' => InRow(i) /\ main'.row[i] = main.row[i]
    BY DEF Clearing, InRow
  <2> QED
    BY <2>1, <2>2, <2>3, <2>4, FlowsKept
<1> QED
  BY <1>1, <1>2 DEF FlowInv

LEMMA CopyFlows == Aligned /\ IInv /\ FlowInv /\ Copy => FlowInv'
<1> SUFFICES ASSUME Aligned, IInv, FlowInv, Copy
             PROVE  FlowInv'
  OBVIOUS
<1>0. PICK i \in Ids : i = main.i
  BY TypeParts DEF Copy, At, IInv, FileSound, MainTyped
<1> DEFINE new == [value |-> Stored(i), valid |-> TRUE]
<1>1. /\ main.pc = "copy" /\ main.i = i /\ main'.pc = "clear" /\ main'.i = i
      /\ UNCHANGED <<pData, tables, polled, trouble>>
  BY <1>0 DEF Copy, At, IInv, Shaped, bounds
<1>2. regData' = [regData EXCEPT ![i] = new] /\ DOMAIN regData = Ids
  BY <1>0, CopyStored DEF FlowInv, IInv, Shaped
<1>3. Sized'
  BY <1>1, SameStored DEF FlowInv
<1>4. ASSUME NEW j \in Ids
      PROVE  /\ Flows(j) /\ Stored(j)' = Stored(j) /\ Recorded(j)' = Recorded(j)
             /\ ~Clearing(j) /\ ~InRow(j)'
  BY <1>1, SameStored, SameRecorded DEF FlowInv, Clearing, InRow
<1>5. ASSUME NEW j \in Ids, j # i
      PROVE  Flows(j)'
  <2>1. regData'[j].value = regData[j].value
    BY <1>2, <1>5
  <2>2. Clean' => Clean
    BY <1>1 DEF Clean
  <2> QED
    BY <1>1, <1>4, <2>1, <2>2, FlowsKept
<1>6. Flows(i)'
  <2>1. regData'[i].value = Stored(i)
    BY <1>1, <1>2
  <2>2. /\ Clearing(i)' /\ ~InRow(i)' /\ Stored(i)' = Stored(i) /\ Recorded(i)' = Recorded(i)
        /\ polled'[i] = polled[i] /\ polled[i] \in Nat
    BY <1>1, <1>4, TypeParts DEF Clearing, IInv, FileSound, RestTyped
  <2>3. Known(i, Stored(i))
    BY <1>1, <1>4, <2>2 DEF Flows, Known, Newest
  <2>4. Known(i, regData[i].value)'
    BY <2>1, <2>2, <2>3 DEF Known
  <2>5. FileFlows(i)'
    BY <1>1, <1>4, <2>1, <2>2 DEF Flows, FileFlows, Known
  <2>6. RowFlows(i)'
    BY <2>2 DEF RowFlows
  <2>7. InOrder(i)'
    BY <1>1, <1>4, <2>2 DEF Flows, InOrder, Clean
  <2>8. \/ Stored(i)' = NoReading(i)
        \/ polled'[i] > 0 /\ Stored(i)' = Reading(i, polled'[i])
    BY <1>1, <1>4, <2>2 DEF Flows, Newest
  <2> QED
    BY <2>2, <2>4, <2>5, <2>6, <2>7, <2>8 DEF Flows, Newest
<1> QED
  BY <1>3, <1>5, <1>6 DEF FlowInv

(* What a step of a pass sets to zero is what was stored.                  *)
LEMMA ClearStored ==
  ASSUME IInv, Aligned, Sized, Clear, NEW i \in Ids, i = main.i
  PROVE  /\ Sized'
         /\ \A j \in Ids : j # i => Part(j)' = Part(j)
         /\ Part(i)' = Zeros(Width(i))
<1> DEFINE f == Registers[i].fun
           zeros == Zeros(Width(i))
           cleared(old) == [o \in DOMAIN old |-> IF o - Place[i] \in 0 .. Width(i) - 1
                                                 THEN Zero ELSE old[o]]
           other(old) == [o \in DOMAIN old |-> IF o - Place[i] \in 0 .. Width(i) - 1
                                               THEN zeros[o - Place[i] + 1] ELSE old[o]]
<1>1. pData' = [pData EXCEPT ![f] = cleared(pData[f])]
  BY DEF Clear, Aligned
<1>2. Width(i) \in Nat
  BY RegisterTypes
<1>3. \A o : o - Place[i] \in 0 .. Width(i) - 1 => zeros[o - Place[i] + 1] = Zero
  <2>1. \A x : x \in 0 .. Width(i) - 1 => x + 1 \in 1 .. Width(i)
    BY <1>2
  <2>2. \A x : x \in 1 .. Width(i) => zeros[x] = Zero
    BY DEF Zeros
  <2> HIDE DEF zeros
  <2> QED
    BY <2>1, <2>2
<1>4. cleared(pData[f]) = other(pData[f])
  <2> HIDE DEF zeros
  <2> QED
    BY <1>3
<1>5. pData' = [pData EXCEPT ![f] = other(pData[f])]
  BY <1>1, <1>4
<1>6. Part(i)' = [b \in 1 .. Width(i) |-> zeros[b]]
      /\ Sized' /\ \A j \in Ids : j # i => Part(j)' = Part(j)
  <2> HIDE DEF zeros
  <2> QED
    BY <1>5, PartChanged DEF IInv
<1> QED
  BY <1>6 DEF Zeros

LEMMA ClearFlows == Aligned /\ IInv /\ FlowInv /\ Clear => FlowInv'
<1> SUFFICES ASSUME Aligned, IInv, FlowInv, Clear
             PROVE  FlowInv'
  OBVIOUS
<1>1. PICK i \in Ids : i = main.i
  BY TypeParts DEF Clear, At, IInv, FileSound, MainTyped
<1>2. /\ main.pc = "clear" /\ main.i = i /\ main'.pc \in {"copy", "record"}
      /\ UNCHANGED <<regData, tables, polled, trouble>>
  BY <1>1 DEF Clear, At, Mapped1, IInv, Shaped, bounds
<1>3. /\ Sized'
      /\ \A j \in Ids : j # i => Part(j)' = Part(j)
      /\ Part(i)' = Zeros(Width(i))
  BY <1>1, ClearStored DEF FlowInv
<1>4. ASSUME NEW j \in Ids
      PROVE  /\ Flows(j) /\ Recorded(j)' = Recorded(j) /\ ~InRow(j)'
             /\ regData'[j].value = regData[j].value
  BY <1>2, SameRecorded DEF FlowInv, InRow
<1>5. ASSUME NEW j \in Ids, j # i
      PROVE  Flows(j)'
  <2>1. Stored(j)' = Stored(j)
    BY <1>3, <1>5 DEF Stored
  <2>2. ~Clearing(j) /\ (Clean' => Clean)
    BY <1>2, <1>5 DEF Clean, Clearing
  <2> QED
    BY <1>2, <1>4, <2>1, <2>2, FlowsKept
<1>6. Flows(i)'
  <2>1. Stored(i)' = NoReading(i)
    BY <1>3, MappedZeros DEF Stored
  <2>2. /\ ~InRow(i)' /\ Recorded(i)' = Recorded(i) /\ polled'[i] = polled[i]
        /\ regData'[i].value = regData[i].value
    BY <1>2, <1>4
  <2>3. Known(i, regData[i].value)'
    BY <1>4, <2>2 DEF Flows, Known
  <2>4. FileFlows(i)'
    BY <1>4, <2>1, <2>2, ZeroPast DEF Flows, FileFlows, Known
  <2>5. RowFlows(i)'
    BY <2>2 DEF RowFlows
  <2>6. InOrder(i)'
    BY <1>2, <1>4, <2>2 DEF Flows, InOrder, Clean
  <2>7. Past(i, regData[i].value, Stored(i))'
    BY <2>1, ZeroPast
  <2> QED
    BY <2>1, <2>3, <2>4, <2>5, <2>6, <2>7 DEF Flows
<1> QED
  BY <1>3, <1>5, <1>6 DEF FlowInv

LEMMA RecordFlows == IInv /\ FlowInv /\ Record => FlowInv'
<1> SUFFICES ASSUME IInv, FlowInv, Record
             PROVE  FlowInv'
  OBVIOUS
<1>1. /\ main.pc = "record" /\ main'.pc = "insert"
      /\ main'.row = [i \in Due |-> regData[i].value] /\ regData' = Emptied(Due)
      /\ UNCHANGED <<pData, tables, polled, trouble>>
  BY DEF Record, At, IInv, Shaped, bounds
<1>2. Sized'
  BY <1>1, SameStored DEF FlowInv
<1>3. ASSUME NEW i \in Ids
      PROVE  Flows(i)'
  <2>1. /\ Flows(i) /\ Stored(i)' = Stored(i) /\ Recorded(i)' = Recorded(i)
        /\ polled'[i] = polled[i] /\ ~Clearing(i) /\ ~InRow(i) /\ (Clean' => Clean)
    BY <1>1, SameStored, SameRecorded DEF FlowInv, Clearing, InRow, Clean
  <2>2. CASE i \notin Due
    <3>1. regData'[i].value = regData[i].value
      BY <1>1, <2>2 DEF Emptied
    <3>2. ~InRow(i)'
      BY <1>1, <2>2 DEF InRow
    <3> QED
      BY <2>1, <3>1, <3>2, FlowsKept
  <2>3. CASE i \in Due
    <3>1. regData'[i].value = NoReading(i) /\ main'.row[i] = regData[i].value
      BY <1>1, <2>3 DEF Emptied
    <3>2. Known(i, regData[i].value)'
      BY <3>1 DEF Known
    <3>3. Past(i, regData[i].value, Stored(i))'
      BY <3>1, ZeroPast
    <3>4. RowFlows(i)'
      BY <2>1, <3>1 DEF Flows, RowFlows, Known
    <3>5. FileFlows(i)'
      BY <2>1, <3>1, ZeroPast DEF Flows, FileFlows, Known
    <3>6. InOrder(i)'
      BY <2>1 DEF Flows, InOrder
    <3>7. \/ Stored(i)' = NoReading(i)
          \/ polled'[i] > 0 /\ Stored(i)' = Reading(i, polled'[i])
      BY <2>1 DEF Flows, Newest
    <3> QED
      BY <3>2, <3>3, <3>4, <3>5, <3>6, <3>7 DEF Flows, Newest
  <2> QED
    BY <2>2, <2>3
<1> QED
  BY <1>2, <1>3 DEF FlowInv

LEMMA InsertFlows == IInv /\ FlowInv /\ Insert => FlowInv'
<1> SUFFICES ASSUME IInv, FlowInv, Insert
             PROVE  FlowInv'
  OBVIOUS
<1> DEFINE time == main.today * DayLength + main.date
<1>1. /\ main.pc = "insert" /\ main'.pc = "done"
      /\ UNCHANGED <<pData, regData, polled, trouble>>
  BY DEF Insert, At, IInv, Shaped, bounds
<1>2. Sized'
  BY <1>1, SameStored DEF FlowInv
<1>3. time \in Int
  <2>1. main.today \in Int /\ main.date \in Int
    BY Numbers, TypeParts DEF IInv, FileSound, MainTyped
  <2> QED
    BY <2>1, Numbers
<1> HIDE DEF time
<1>4. ASSUME NEW i \in Ids
      PROVE  Flows(i)'
  <2>1. /\ Flows(i) /\ Stored(i)' = Stored(i) /\ polled'[i] = polled[i]
        /\ regData'[i].value = regData[i].value /\ ~Clearing(i) /\ ~InRow(i)' /\ (Clean' => Clean)
    BY <1>1, SameStored DEF FlowInv, Clearing, InRow, Clean
  <2>2. \A r \in Recorded(i)' : r \in Recorded(i) \/ (InRow(i) /\ r = <<time, main.row[i]>>)
    BY RecordedInserted DEF time
  <2>3. Clean => \A r \in Recorded(i) : r[1] < time /\ r[1] \in Int
    BY RecordedInserted DEF time
  <2>4. InRow(i) => /\ Known(i, main.row[i]) /\ Past(i, main.row[i], Stored(i))
                    /\ Past(i, main.row[i], regData[i].value)
                    /\ \A r \in Recorded(i) : Past(i, r[2], main.row[i])
    BY <2>1, ZeroPast DEF Flows, RowFlows, FileFlows
  <2>5. FileFlows(i)'
    <3>1. ASSUME NEW r \in Recorded(i)'
          PROVE  Known(i, r[2]) /\ Past(i, r[2], regData[i].value) /\ Past(i, r[2], Stored(i))
      <4>1. CASE r \in Recorded(i)
        BY <2>1, <4>1 DEF Flows, FileFlows
      <4>2. CASE InRow(i) /\ r = <<time, main.row[i]>>
        BY <2>4, <4>2
      <4> QED
        BY <2>2, <4>1, <4>2
    <3> QED
      BY <2>1, <3>1 DEF FileFlows, Known
  <2>6. InOrder(i)'
    <3> SUFFICES ASSUME Clean, NEW r \in Recorded(i)', NEW s \in Recorded(i)', r[1] < s[1]
                 PROVE  Past(i, r[2], s[2])
      BY <2>1 DEF InOrder
    <3>1. CASE r \in Recorded(i) /\ s \in Recorded(i)
      BY <2>1, <3>1 DEF Flows, InOrder
    <3>2. CASE r \in Recorded(i) /\ InRow(i) /\ s = <<time, main.row[i]>>
      BY <2>4, <3>2
    <3>3. CASE r = <<time, main.row[i]>>
      <4>1. r[1] = time
        BY <3>3
      <4>2. CASE s = <<time, main.row[i]>>
        BY <1>3, <4>1, <4>2
      <4>3. CASE s \in Recorded(i)
        BY <1>3, <2>3, <4>1, <4>3
      <4> QED
        BY <2>2, <4>2, <4>3
    <3> QED
      BY <2>2, <3>1, <3>2, <3>3
  <2>7. RowFlows(i)'
    BY <2>1 DEF RowFlows
  <2>8. /\ Known(i, regData[i].value)'
        /\ Past(i, regData[i].value, Stored(i))'
    BY <2>1 DEF Flows, Known
  <2>9. \/ Stored(i)' = NoReading(i)
        \/ polled'[i] > 0 /\ Stored(i)' = Reading(i, polled'[i])
    BY <2>1 DEF Flows, Newest
  <2> QED
    BY <2>5, <2>6, <2>7, <2>8, <2>9 DEF Flows, Newest
<1> QED
  BY <1>2, <1>4 DEF FlowInv

(* What is stored replaces the value of its register alone.                *)
LEMMA StoreParts ==
  ASSUME IInv, FlowInv, NEW i \in Ids, Store(i)
  PROVE  /\ Sized'
         /\ \A j \in Ids : j # i => Part(j)' = Part(j)
         /\ Part(i)' = Bytes(i, polled[i] + 1)
<1> DEFINE n == polled[i] + 1
           stored(x) == [pData EXCEPT ![Registers[i].fun] =
             [o \in DOMAIN @ |-> IF o - Place[i] \in 0 .. Width(i) - 1
                                 THEN Bytes(i, x)[o - Place[i] + 1] ELSE @[o]]]
<1>1. polled'[i] = n
  BY TypeParts DEF Store, IInv, FileSound, RestTyped
<1>2. pData' = stored(polled'[i])
  BY DEF Store
<1>3. pData' = stored(n)
  <2> HIDE DEF stored
  <2> QED
    BY <1>1, <1>2
<1>4. PICK new : new = Bytes(i, n)
  OBVIOUS
<1>5. /\ Sized'
      /\ \A j \in Ids : j # i => Part(j)' = Part(j)
      /\ Part(i)' = [b \in 1 .. Width(i) |-> new[b]]
  <2>1. pData' = [pData EXCEPT ![Registers[i].fun] =
          [o \in DOMAIN @ |-> IF o - Place[i] \in 0 .. Width(i) - 1
                              THEN new[o - Place[i] + 1] ELSE @[o]]]
    BY <1>3, <1>4
  <2> QED
    BY <2>1, PartChanged DEF IInv, FlowInv
<1>6. new = [b \in 1 .. Width(i) |-> new[b]]
  BY <1>4 DEF Bytes
<1> QED
  BY <1>4, <1>5, <1>6

(* A reading is later than all that are on their way.                      *)
LEMMA StoreFlows ==
  ASSUME IInv, FlowInv, NEW i \in Ids, Store(i)
  PROVE  FlowInv'
<1> DEFINE n == polled[i] + 1
<1>1. /\ polled' = [polled EXCEPT ![i] = n] /\ polled \in [Ids -> Nat]
      /\ UNCHANGED <<main, regData, tables>> /\ trouble \subseteq trouble'
  BY TypeParts DEF Store, IInv, FileSound, RestTyped
<1>2. n \in Nat \ {0} /\ polled'[i] = n /\ polled[i] \in Nat /\ polled[i] < n
  BY <1>1
<1> HIDE DEF n
<1>3. /\ Sized'
      /\ \A j \in Ids : j # i => Part(j)' = Part(j)
      /\ Part(i)' = Bytes(i, n)
  BY StoreParts DEF n
<1>4. ASSUME NEW j \in Ids
      PROVE  /\ Flows(j) /\ Recorded(j)' = Recorded(j) /\ (InRow(j)' <=> InRow(j))
             /\ (Clearing(j)' <=> Clearing(j)) /\ (Clean' => Clean)
             /\ regData'[j].value = regData[j].value /\ main'.row[j] = main.row[j]
  BY <1>1, SameRecorded DEF FlowInv, InRow, Clearing, Clean
<1>5. ASSUME NEW j \in Ids, j # i
      PROVE  Flows(j)'
  <2>1. Stored(j)' = Stored(j) /\ polled'[j] = polled[j]
    BY <1>1, <1>3, <1>5 DEF Stored
  <2> QED
    BY <1>4, <2>1, FlowsKept
<1>6. Flows(i)'
  <2>1. Stored(i)' = Reading(i, n)
    BY <1>3 DEF Stored, Reading
  <2>2. \A v : Known(i, v) => /\ v = NoReading(i) \/ \E m \in 1 .. polled'[i] : v = Reading(i, m)
                              /\ Past(i, v, Reading(i, n))
    <3> SUFFICES ASSUME NEW v, Known(i, v)
                 PROVE  /\ v = NoReading(i) \/ \E m \in 1 .. polled'[i] : v = Reading(i, m)
                        /\ Past(i, v, Reading(i, n))
      OBVIOUS
    <3>1. Past(i, v, Reading(i, n))
      BY <1>2, KnownPast
    <3>2. 1 .. polled[i] \subseteq 1 .. polled'[i]
      BY <1>2
    <3> QED
      BY <3>1, <3>2 DEF Known
  <2>3. /\ Known(i, regData[i].value)'
        /\ Past(i, regData[i].value, Stored(i))'
    BY <1>4, <2>1, <2>2 DEF Flows, Known
  <2>4. RowFlows(i)'
    BY <1>4, <2>1, <2>2 DEF Flows, RowFlows, Known
  <2>5. FileFlows(i)'
    BY <1>4, <2>1, <2>2 DEF Flows, FileFlows, Known
  <2>6. InOrder(i)'
    BY <1>4 DEF Flows, InOrder
  <2>7. polled'[i] > 0 /\ Stored(i)' = Reading(i, polled'[i])
    BY <1>2, <2>1
  <2> QED
    BY <2>3, <2>4, <2>5, <2>6, <2>7 DEF Flows, Newest
<1> QED
  BY <1>3, <1>5, <1>6 DEF FlowInv

LEMMA CutOffFlows == IInv /\ FlowInv /\ CutOff => FlowInv'
<1> SUFFICES ASSUME IInv, FlowInv, CutOff
             PROVE  FlowInv'
  OBVIOUS
<1>1. /\ main'.pc = "off" /\ pData' = [f \in 1 .. 4 |-> [o \in DOMAIN pData[f] |-> Zero]]
      /\ regData' = Emptied(Ids) /\ UNCHANGED <<tables, polled, trouble>>
  BY DEF CutOff, Off, Started
<1>2. Sized'
  BY <1>1 DEF FlowInv, Sized
<1>3. ASSUME NEW i \in Ids
      PROVE  Flows(i)'
  <2>1. /\ Flows(i) /\ ~InRow(i)' /\ Recorded(i)' = Recorded(i) /\ polled'[i] = polled[i]
        /\ (Clean' => Clean) /\ regData'[i].value = NoReading(i)
    BY <1>1, SameRecorded DEF FlowInv, InRow, Clean, Emptied
  <2>2. Part(i)' = Zeros(Width(i))
    <3>1. ASSUME NEW b \in 1 .. Width(i)
          PROVE  pData'[Registers[i].fun][PlaceOf(i, b)] = Zero
      BY <1>1, PlacesOf, RegisterTypes DEF FlowInv
    <3> QED
      BY <3>1 DEF Part, PlaceOf, Zeros
  <2>3. Stored(i)' = NoReading(i)
    BY <2>2, MappedZeros DEF Stored
  <2>4. Known(i, regData[i].value)' /\ Past(i, regData[i].value, Stored(i))'
    BY <2>1, ZeroPast DEF Known
  <2>5. FileFlows(i)'
    BY <2>1, <2>3, ZeroPast DEF Flows, FileFlows, Known
  <2>6. RowFlows(i)' /\ InOrder(i)'
    BY <2>1 DEF Flows, RowFlows, InOrder
  <2> QED
    BY <2>3, <2>4, <2>5, <2>6 DEF Flows
<1> QED
  BY <1>2, <1>3 DEF FlowInv

LEMMA InitFlows == Init => FlowInv
<1> SUFFICES ASSUME Init
             PROVE  FlowInv
  OBVIOUS
<1>1. /\ main.pc = "sleep" /\ pData = [f \in 1 .. 4 |-> [o \in 0 .. Size(f) - 1 |-> Zero]]
      /\ \A i \in Ids : regData[i].value = NoReading(i)
      /\ \A d \in DOMAIN tables : DOMAIN tables[d] = {}
  BY DEF Init, Started, NoRows
<1>2. Sized
  BY <1>1 DEF Sized
<1>3. ASSUME NEW i \in Ids
      PROVE  Flows(i)
  <2>1. Part(i) = Zeros(Width(i))
    <3>1. ASSUME NEW b \in 1 .. Width(i)
          PROVE  pData[Registers[i].fun][PlaceOf(i, b)] = Zero
      BY <1>1, <1>2, PlacesOf, RegisterTypes
    <3> QED
      BY <3>1 DEF Part, PlaceOf, Zeros
  <2>2. Stored(i) = NoReading(i)
    BY <2>1, MappedZeros DEF Stored
  <2>3. Recorded(i) = {}
    BY <1>1, RecordedRows
  <2>4. Known(i, regData[i].value) /\ Past(i, regData[i].value, Stored(i))
    BY <1>1, <2>2, ZeroPast DEF Known
  <2>5. FileFlows(i) /\ InOrder(i) /\ RowFlows(i)
    BY <1>1, <2>3 DEF FileFlows, InOrder, RowFlows, InRow
  <2> QED
    BY <2>2, <2>4, <2>5 DEF Flows
<1> QED
  BY <1>2, <1>3 DEF FlowInv

LEMMA NextFlows == Aligned /\ IInv /\ FlowInv /\ [Next]_vars => FlowInv'
<1> SUFFICES ASSUME Aligned, IInv, FlowInv, [Next]_vars
             PROVE  FlowInv'
  OBVIOUS
<1> USE DEF reader, bounds
<1>1. CASE Wake \/ Stamp \/ TableCheck \/ Done
  <2>1. /\ UNCHANGED <<pData, regData, polled, tables, trouble>>
        /\ main.pc # "clear" /\ main'.pc # "insert"
    BY <1>1 DEF Wake, Stamp, TableCheck, Done, At, Mapping, IInv, Shaped
  <2>2. \A i \in Ids : Recorded(i)' \subseteq Recorded(i)
    BY <2>1, SameRecorded
  <2> QED
    BY <2>1, <2>2, QuietFlows
<1>2. CASE CreateToday
  <2>1. /\ UNCHANGED <<pData, regData, polled, trouble>> /\ tables' = Created(main.today)
        /\ main.pc # "clear" /\ main'.pc # "insert"
    BY <1>2 DEF CreateToday, At, Mapping, IInv, Shaped
  <2>2. PICK day : day = main.today
    OBVIOUS
  <2>3. \A i \in Ids : Recorded(i)' \subseteq Recorded(i)
    BY <2>1, <2>2, RecordedCreated
  <2> QED
    BY <2>1, <2>3, QuietFlows
<1>3. CASE Copy \/ Clear \/ Record \/ Insert
  BY <1>3, CopyFlows, ClearFlows, RecordFlows, InsertFlows
<1>4. CASE Read \/ (\E stamp \in Stamps : Ask(stamp)) \/ UNCHANGED vars
  <2>1. UNCHANGED <<main, pData, regData, polled, tables>> /\ trouble \subseteq trouble'
    <3>1. CASE Select
      BY <3>1 DEF Select
    <3>2. CASE PassOver \/ Window \/ UNCHANGED vars
      BY <3>2 DEF PassOver, Window, vars
    <3>3. CASE \E stamp \in Stamps : Ask(stamp)
      BY <3>3 DEF Ask
    <3> QED
      BY <1>4, <3>1, <3>2, <3>3 DEF Read
  <2>2. \A i \in Ids : Recorded(i)' \subseteq Recorded(i)
    BY <2>1, SameRecorded
  <2> QED
    BY <2>1, <2>2, QuietFlows
<1>5. CASE Tick \/ \E t \in 0 .. MaxClock : SetClock(t)
  <2>1. UNCHANGED <<main, pData, regData, polled, tables>> /\ trouble \subseteq trouble'
    BY <1>5 DEF Tick, SetClock, Moves
  <2>2. \A i \in Ids : Recorded(i)' \subseteq Recorded(i)
    BY <2>1, SameRecorded
  <2> QED
    BY <2>1, <2>2, QuietFlows
<1>6. CASE Boot
  <2>1. /\ UNCHANGED <<pData, regData, polled>> /\ trouble \subseteq trouble'
        /\ main.pc # "clear" /\ main'.pc # "insert"
        /\ tables' = tables \/ tables' = Created(Day(clock))
    BY <1>6 DEF Boot, Started
  <2>2. PICK day : day = Day(clock)
    OBVIOUS
  <2>3. \A i \in Ids : Recorded(i)' \subseteq Recorded(i)
    BY <2>1, <2>2, SameRecorded, RecordedCreated
  <2> QED
    BY <2>1, <2>3, QuietFlows
<1>7. CASE (\E i \in Ids : Store(i)) \/ CutOff
  BY <1>7, StoreFlows, CutOffFlows
<1> QED
  BY <1>1, <1>2, <1>3, <1>4, <1>5, <1>6, <1>7 DEF Next, Pass, Outside

(* What is in the file of a register is zero or a reading of this very     *)
(* register, and no reading is there twice or after a later one            *)
(* (IEC102_Main.c:1031-1086), for any registers whose values are copied    *)
(* from where they are stored.                                             *)
THEOREM RecordsTrue == ASSUME Aligned PROVE Spec => []HistoryTrue
<1>1. IInv /\ FlowInv => HistoryTrue
  <2> SUFFICES ASSUME IInv, FlowInv, NEW i \in Ids
               PROVE  /\ \A r \in Recorded(i) : r[2] = NoReading(i) \/ r[2] \in Ever(i)
                      /\ trouble \cap {"slip", "repeated"} = {} =>
                           \A r, s \in Recorded(i) :
                             /\ r[1] < s[1]
                             /\ {r[2], s[2]} \subseteq Ever(i) \ {NoReading(i)}
                             => Number(i, r[2]) < Number(i, s[2])
    BY DEF HistoryTrue
  <2>1. Flows(i) /\ polled[i] \in Nat
    BY TypeParts DEF FlowInv, IInv, FileSound, RestTyped
  <2>2. \A r \in Recorded(i) : r[2] = NoReading(i) \/ r[2] \in Ever(i)
    BY <2>1 DEF Flows, FileFlows, Known, Ever
  <2>3. ASSUME NEW v \in Ever(i) \ {NoReading(i)}
        PROVE  Numbered(i, v, Number(i, v))
    <3>1. \E n \in 1 .. polled[i] : v = Reading(i, n)
      BY DEF Ever
    <3>2. Number(i, v) \in 1 .. polled[i] /\ v = Reading(i, Number(i, v))
      BY <3>1 DEF Number
    <3> QED
      BY <2>1, <3>2 DEF Numbered
  <2>4. ASSUME Clean, NEW r \in Recorded(i), NEW s \in Recorded(i), r[1] < s[1],
               {r[2], s[2]} \subseteq Ever(i) \ {NoReading(i)}
        PROVE  Number(i, r[2]) < Number(i, s[2])
    <3>1. Past(i, r[2], s[2])
      BY <2>1, <2>4 DEF Flows, InOrder
    <3>2. Numbered(i, r[2], Number(i, r[2])) /\ Numbered(i, s[2], Number(i, s[2]))
      BY <2>3, <2>4
    <3> QED
      BY <3>1, <3>2 DEF Past
  <2> QED
    BY <2>2, <2>4 DEF Clean
<1>2. IInv /\ FlowInv /\ [Next]_vars => FlowInv'
  BY NextFlows
<1> QED
  BY <1>1, <1>2, InitFlows, Inductive, PTL DEF Spec

-----------------------------------------------------------------------------
(* The newest reading.                                                     *)

(* The registers that a pass has copied but not yet recorded.              *)
Busy(i) == \/ main.pc = "copy" /\ i < main.i
           \/ main.pc = "clear" /\ i <= main.i
           \/ main.pc = "record"

(* Between two passes p_Reg_Data is empty for a register that is due       *)
(* whenever any is; a value is copied while what it is copied from is      *)
(* there.                                                                  *)
PromptTrue ==
  /\ main.pc \in {"copy", "clear", "record"} => AnyDue
  /\ main.pc = "clear" => "gap" \in trouble \/ regData[main.i].value = Stored(main.i)
  /\ \A i \in Prompt : IF Busy(i) THEN regData[i].valid ELSE regData[i].value = NoReading(i)

LEMMA SamePass ==
  ASSUME PromptTrue, UNCHANGED <<main, pData, regData>>, trouble \subseteq trouble'
  PROVE  PromptTrue'
<1>1. AnyDue' <=> AnyDue
  BY DEF AnyDue
<1>2. Stored(main.i)' = Stored(main.i)
  BY DEF Stored, Part
<1>3. \A i : Busy(i)' <=> Busy(i)
  BY DEF Busy
<1> QED
  BY <1>1, <1>2, <1>3 DEF PromptTrue

LEMMA IdlePass ==
  ASSUME PromptTrue, UNCHANGED regData,
         main.pc \notin {"copy", "clear", "record"},
         main'.pc \notin {"copy", "clear", "record"}
  PROVE  PromptTrue'
<1>1. \A i : ~Busy(i) /\ ~Busy(i)'
  BY DEF Busy
<1> QED
  BY <1>1 DEF PromptTrue

LEMMA BeginPass ==
  ASSUME PromptTrue, UNCHANGED regData, main.pc \notin {"copy", "clear", "record"},
         main'.pc = Mapping \/ main'.pc = "create", main'.timer = main.timer, main'.i = 1
  PROVE  PromptTrue'
<1>1. \A i \in Prompt : ~Busy(i) /\ ~Busy(i)'
  BY Numbers DEF Busy, Mapping, Prompt
<1>2. main'.pc \in {"copy", "clear", "record"} => AnyDue'
  BY DEF Mapping, AnyDue
<1>3. main'.pc # "clear"
  BY DEF Mapping
<1> QED
  BY <1>1, <1>2, <1>3 DEF PromptTrue

LEMMA CopyPrompt == Aligned /\ IInv /\ FlowInv /\ PromptTrue /\ Copy => PromptTrue'
<1> SUFFICES ASSUME Aligned, IInv, FlowInv, PromptTrue, Copy
             PROVE  PromptTrue'
  OBVIOUS
<1>0. PICK i \in Ids : i = main.i
  BY TypeParts DEF Copy, At, IInv, FileSound, MainTyped
<1> DEFINE new == [value |-> Stored(i), valid |-> TRUE]
<1>1. /\ main.pc = "copy" /\ main.i = i /\ main'.pc = "clear" /\ main'.i = i
      /\ main'.timer = main.timer /\ pData' = pData
  BY <1>0 DEF Copy, At, IInv, Shaped
<1>2. regData' = [regData EXCEPT ![i] = new] /\ DOMAIN regData = Ids
  BY <1>0, CopyStored DEF FlowInv, IInv, Shaped
<1>3. regData'[i].value = Stored(i) /\ regData'[i].valid = TRUE
  BY <1>2
<1>4. ASSUME NEW j \in Prompt
      PROVE  IF Busy(j)' THEN regData'[j].valid ELSE regData'[j].value = NoReading(j)
  <2>1. j \in Int /\ i \in Int
    BY Numbers DEF Prompt
  <2>2. CASE j = i
    <3>1. Busy(j)'
      BY <1>1, <2>1, <2>2 DEF Busy
    <3> QED
      BY <1>3, <2>2, <3>1
  <2>3. CASE j # i
    <3>1. Busy(j)' <=> Busy(j)
      BY <1>1, <2>1, <2>3 DEF Busy
    <3>2. regData'[j] = regData[j]
      BY <1>2, <2>3 DEF Prompt
    <3> QED
      BY <3>1, <3>2 DEF PromptTrue
  <2> QED
    BY <2>2, <2>3
<1>5. AnyDue'
  BY <1>1 DEF PromptTrue, AnyDue
<1>6. regData'[main'.i].value = Stored(main.i)'
  <2>1. Stored(main.i)' = Stored(i)
    BY <1>1 DEF Stored, Part
  <2> QED
    BY <1>1, <1>3, <2>1
<1> QED
  BY <1>4, <1>5, <1>6 DEF PromptTrue

LEMMA ClearPrompt == IInv /\ PromptTrue /\ Clear => PromptTrue'
<1> SUFFICES ASSUME IInv, PromptTrue, Clear
             PROVE  PromptTrue'
  OBVIOUS
<1> DEFINE last == main.i = Len(Registers)
<1>1. /\ main.pc = "clear" /\ main.i \in Ids /\ regData' = regData
      /\ main' = [main EXCEPT !.pc = IF last THEN "record" ELSE "copy",
                              !.i = IF last THEN 1 ELSE @ + 1]
  BY TypeParts DEF Clear, At, Mapped1, IInv, FileSound, MainTyped
<1>2. /\ main'.pc = (IF last THEN "record" ELSE "copy") /\ main'.timer = main.timer
      /\ ~last => main'.i = main.i + 1
  BY <1>1 DEF IInv, Shaped
<1>3. ASSUME NEW j \in Prompt
      PROVE  Busy(j)' <=> Busy(j)
  <2>1. j \in 1 .. Len(Registers) /\ main.i \in 1 .. Len(Registers) /\ Len(Registers) \in Nat
    BY <1>1, Numbers DEF Prompt
  <2> QED
    BY <1>1, <1>2, <2>1 DEF Busy
<1>4. AnyDue'
  BY <1>1, <1>2 DEF PromptTrue, AnyDue
<1> QED
  BY <1>1, <1>2, <1>3, <1>4 DEF PromptTrue

(* All that is due whenever anything is, is due now, and goes to the row.  *)
LEMMA PromptDue ==
  ASSUME IInv, PromptTrue, main.pc = "record", NEW i \in Prompt
  PROVE  i \in Due
<1>1. AnyDue /\ regData[i].valid /\ i \in Ids
  BY DEF PromptTrue, Busy, Prompt
<1>2. main.timer \in 0 .. MaxTimer
  BY TypeParts DEF IInv, FileSound, MainTyped
<1> QED
  BY <1>1, <1>2 DEF Prompt, AnyDue, Due

LEMMA StorePrompt ==
  ASSUME IInv, FlowInv, PromptTrue, NEW i \in Ids, Store(i)
  PROVE  PromptTrue'
<1>1. /\ UNCHANGED <<main, regData>> /\ trouble \subseteq trouble'
      /\ main.pc = "clear" /\ main.i = i => "gap" \in trouble'
  BY DEF Store
<1>2. ASSUME main.pc = "clear", main.i # i
      PROVE  Stored(main.i)' = Stored(main.i)
  <2>1. PICK j \in Ids : j = main.i
    BY <1>2, TypeParts DEF IInv, FileSound, MainTyped
  <2>2. Part(j)' = Part(j)
    BY <1>2, <2>1, StoreParts
  <2> QED
    BY <1>1, <2>1, <2>2 DEF Stored, Part
<1>3. AnyDue' <=> AnyDue
  BY <1>1 DEF AnyDue
<1>4. \A j : Busy(j)' <=> Busy(j)
  BY <1>1 DEF Busy
<1> QED
  BY <1>1, <1>2, <1>3, <1>4 DEF PromptTrue

LEMMA EmptiedPrompt ==
  ASSUME IInv, PromptTrue, Record \/ CutOff
  PROVE  PromptTrue'
<1>1. /\ main'.pc \notin {"copy", "clear", "record"}
      /\ \A i \in Prompt : regData'[i].value = NoReading(i)
  <2>1. CASE Record
    <3>1. main.pc = "record" /\ main'.pc = "insert" /\ regData' = Emptied(Due)
      BY <2>1 DEF Record, At, IInv, Shaped
    <3>2. \A i \in Prompt : i \in Due /\ i \in Ids
      BY <3>1, PromptDue DEF Prompt
    <3> QED
      BY <3>1, <3>2 DEF Emptied
  <2>2. CASE CutOff
    <3>1. main'.pc = "off" /\ regData' = Emptied(Ids)
      BY <2>2 DEF CutOff, Off, Started
    <3> QED
      BY <3>1 DEF Emptied, Prompt
  <2> QED
    BY <2>1, <2>2
<1> QED
  BY <1>1 DEF PromptTrue, Busy

LEMMA NextPrompt ==
  Aligned /\ IInv /\ FlowInv /\ PromptTrue /\ [Next]_vars => PromptTrue'
<1> SUFFICES ASSUME Aligned, IInv, FlowInv, PromptTrue, [Next]_vars
             PROVE  PromptTrue'
  OBVIOUS
<1> USE DEF reader, bounds
<1>1. CASE Wake \/ Stamp \/ Insert \/ Done \/ Boot
  <2>1. /\ UNCHANGED regData /\ main.pc \notin {"copy", "clear", "record"}
        /\ main'.pc \notin {"copy", "clear", "record"}
    <3>1. CASE Wake
      BY <3>1 DEF Wake, At, IInv, Shaped
    <3>2. CASE Stamp
      BY <3>2 DEF Stamp, At, IInv, Shaped
    <3>3. CASE Insert
      BY <3>3 DEF Insert, At, IInv, Shaped
    <3>4. CASE Done
      BY <3>4 DEF Done, At, IInv, Shaped
    <3>5. CASE Boot
      BY <3>5 DEF Boot, Started
    <3> QED
      BY <1>1, <3>1, <3>2, <3>3, <3>4, <3>5
  <2> QED
    BY <2>1, IdlePass
<1>2. CASE TableCheck \/ CreateToday
  <2>1. /\ UNCHANGED regData /\ main.pc \notin {"copy", "clear", "record"}
        /\ main'.pc = Mapping \/ main'.pc = "create"
        /\ main'.timer = main.timer /\ main'.i = 1
    BY <1>2 DEF TableCheck, CreateToday, At, IInv, Shaped
  <2> QED
    BY <2>1, BeginPass
<1>3. CASE Copy \/ Clear
  BY <1>3, CopyPrompt, ClearPrompt
<1>4. CASE Record \/ CutOff
  BY <1>4, EmptiedPrompt
<1>5. CASE Read \/ (\E stamp \in Stamps : Ask(stamp)) \/ UNCHANGED vars
  <2>1. UNCHANGED <<main, pData, regData>> /\ trouble \subseteq trouble'
    <3>1. CASE Select
      BY <3>1 DEF Select
    <3>2. CASE PassOver \/ Window \/ UNCHANGED vars
      BY <3>2 DEF PassOver, Window, vars
    <3>3. CASE \E stamp \in Stamps : Ask(stamp)
      BY <3>3 DEF Ask
    <3> QED
      BY <1>5, <3>1, <3>2, <3>3 DEF Read
  <2> QED
    BY <2>1, SamePass
<1>6. CASE Tick \/ \E t \in 0 .. MaxClock : SetClock(t)
  <2>1. UNCHANGED <<main, pData, regData>> /\ trouble \subseteq trouble'
    BY <1>6 DEF Tick, SetClock, Moves
  <2> QED
    BY <2>1, SamePass
<1>7. CASE \E i \in Ids : Store(i)
  BY <1>7, StorePrompt
<1> QED
  BY <1>1, <1>2, <1>3, <1>4, <1>5, <1>6, <1>7 DEF Next, Pass, Outside

LEMMA InitPrompt == Init => PromptTrue
<1> SUFFICES ASSUME Init
             PROVE  PromptTrue
  OBVIOUS
<1>1. main.pc = "sleep" /\ \A i \in Ids : regData[i].value = NoReading(i)
  BY DEF Init, Started
<1> QED
  BY <1>1 DEF PromptTrue, Busy, Prompt

(* The newest reading is in memory: in p_Reg_Data or where it was stored.  *)
LEMMA Memory ==
  \A i : InMemory(i) <=>
    polled[i] > 0 /\ (regData[i].value = Newest(i) \/ Part(i) = Bytes(i, polled[i]))
<1> SUFFICES ASSUME NEW i
             PROVE  Part(i) = Bytes(i, polled[i]) <=>
                      \A b \in 1 .. Width(i) :
                        pData[Registers[i].fun][Place[i] + b - 1] = Bytes(i, polled[i])[b]
  BY DEF InMemory
<1>1. /\ Part(i) = [b \in 1 .. Width(i) |-> Part(i)[b]]
      /\ Bytes(i, polled[i]) = [b \in 1 .. Width(i) |-> Bytes(i, polled[i])[b]]
      /\ \A b \in 1 .. Width(i) : Part(i)[b] = pData[Registers[i].fun][Place[i] + b - 1]
  BY DEF Part, Bytes
<1> QED
  BY <1>1

LEMMA MemoryNext ==
  (\A i : InMemory(i) <=>
     polled[i] > 0 /\ (regData[i].value = Newest(i) \/ Part(i) = Bytes(i, polled[i])))'
BY Memory, PTL

LEMMA MemoryKept ==
  ASSUME NEW i, InMemory(i), Part(i)' = Part(i), regData'[i].value = regData[i].value,
         polled'[i] = polled[i]
  PROVE  InMemory(i)'
BY Memory, MemoryNext DEF Newest

LEMMA CopyKeeps ==
  ASSUME Aligned, IInv, FlowInv, PromptTrue, Copy, NEW i \in Prompt, InMemory(i)
  PROVE  InMemory(i)'
<1>1. PICK j \in Ids : j = main.i
  BY TypeParts DEF Copy, At, IInv, FileSound, MainTyped
<1>2. /\ main.pc = "copy" /\ pData' = pData /\ polled' = polled /\ i \in Ids
      /\ regData' = [regData EXCEPT ![j] = [value |-> Stored(j), valid |-> TRUE]]
      /\ DOMAIN regData = Ids
  BY <1>1, CopyStored DEF Copy, At, FlowInv, IInv, Shaped, bounds, Prompt
<1>3. Part(i)' = Part(i)
  BY <1>2 DEF Part
<1>4. CASE i # j
  <2>1. regData'[i].value = regData[i].value
    BY <1>2, <1>4
  <2> QED
    BY <1>2, <1>3, <2>1, MemoryKept
<1>5. CASE i = j
  <2>1. regData'[i].value = Stored(i)
    BY <1>2, <1>5
  <2>2. i \in Int /\ ~Busy(i)
    BY <1>1, <1>2, <1>5, Numbers DEF Busy
  <2>3. regData[i].value = NoReading(i)
    BY <2>2 DEF PromptTrue
  <2>4. Stored(i) = NoReading(i) \/ Stored(i) = Newest(i)
    BY <1>2 DEF FlowInv, Flows
  <2>5. polled[i] > 0 /\ (regData[i].value = Newest(i) \/ Part(i) = Bytes(i, polled[i]))
    BY Memory
  <2>6. Newest(i)' = Newest(i)
    BY <1>2 DEF Newest
  <2> QED
    BY <1>2, <1>3, <2>1, <2>3, <2>4, <2>5, <2>6, MemoryNext
<1> QED
  BY <1>4, <1>5

LEMMA ClearKeeps ==
  ASSUME Aligned, IInv, FlowInv, PromptTrue, Clear, NEW i \in Prompt, InMemory(i)
  PROVE  InMemory(i)' \/ "gap" \in trouble
<1>1. PICK j \in Ids : j = main.i
  BY TypeParts DEF Clear, At, IInv, FileSound, MainTyped
<1>2. main.pc = "clear" /\ regData' = regData /\ polled' = polled /\ i \in Ids
  BY DEF Clear, At, bounds, Prompt
<1>3. CASE i # j
  <2>1. Part(i)' = Part(i)
    BY <1>1, <1>2, <1>3, ClearStored DEF FlowInv
  <2> QED
    BY <1>2, <2>1, MemoryKept
<1>4. CASE i = j /\ "gap" \notin trouble
  <2>1. regData[i].value = Stored(i)
    BY <1>1, <1>2, <1>4 DEF PromptTrue
  <2>2. polled[i] > 0 /\ (regData[i].value = Newest(i) \/ Part(i) = Bytes(i, polled[i]))
    BY Memory
  <2>3. Newest(i)' = Newest(i) /\ Newest(i) = Mapped(i, Bytes(i, polled[i]))
    BY <1>2 DEF Newest, Reading
  <2>4. regData[i].value = Newest(i)
    BY <2>1, <2>2, <2>3 DEF Stored
  <2> QED
    BY <1>2, <2>2, <2>3, <2>4, MemoryNext
<1> QED
  BY <1>3, <1>4

LEMMA RecordKeeps ==
  ASSUME IInv, PromptTrue, Record, NEW i \in Prompt, InMemory(i)
  PROVE  InMemory(i)' \/ (i \in DOMAIN main'.row /\ main'.row[i] = Newest(i))
<1>1. /\ main.pc = "record" /\ pData' = pData /\ polled' = polled
      /\ main'.row = [k \in Due |-> regData[k].value]
  BY DEF Record, At, IInv, Shaped, bounds
<1>2. i \in DOMAIN main'.row /\ main'.row[i] = regData[i].value
  BY <1>1, PromptDue
<1>3. polled[i] > 0 /\ (regData[i].value = Newest(i) \/ Part(i) = Bytes(i, polled[i]))
  BY Memory
<1>4. Part(i)' = Part(i)
  BY <1>1 DEF Part
<1> QED
  BY <1>1, <1>2, <1>3, <1>4, MemoryNext

LEMMA NewestStep ==
  ASSUME Aligned, IInv, FlowInv, PromptTrue, [Next]_vars,
         NEW i \in Prompt, InMemory(i), polled'[i] = polled[i]
  PROVE  \/ InMemory(i)'
         \/ main'.pc = "off" \/ "gap" \in trouble
         \/ i \in DOMAIN main'.row /\ main'.row[i] = Newest(i)
<1> USE DEF reader, bounds
<1>1. CASE UNCHANGED <<pData, regData>>
  <2>1. Part(i)' = Part(i) /\ regData'[i].value = regData[i].value
    BY <1>1 DEF Part
  <2> QED
    BY <2>1, MemoryKept
<1>2. CASE Wake \/ Stamp \/ TableCheck \/ CreateToday \/ Insert \/ Done
  <2>1. UNCHANGED <<pData, regData>>
    BY <1>2 DEF Wake, Stamp, TableCheck, CreateToday, Insert, Done
  <2> QED
    BY <1>1, <2>1
<1>3. CASE Read \/ (\E stamp \in Stamps : Ask(stamp)) \/ UNCHANGED vars
  <2>1. CASE Read
    BY <1>1, <2>1 DEF Read, PassOver, Window, Select
  <2>2. CASE \E stamp \in Stamps : Ask(stamp)
    BY <1>1, <2>2 DEF Ask
  <2>3. CASE UNCHANGED vars
    BY <1>1, <2>3 DEF vars
  <2> QED
    BY <1>3, <2>1, <2>2, <2>3
<1>4. CASE Tick \/ Boot \/ \E t \in 0 .. MaxClock : SetClock(t)
  BY <1>1, <1>4 DEF Tick, Boot, SetClock
<1>5. CASE Copy \/ Clear \/ Record
  BY <1>5, CopyKeeps, ClearKeeps, RecordKeeps
<1>6. CASE CutOff
  BY <1>6 DEF CutOff, Off, Started
<1>7. ASSUME NEW j \in Ids, Store(j)
      PROVE  InMemory(i)'
  <2>1. regData' = regData /\ i \in Ids /\ polled'[j] = polled[j] + 1 /\ polled[j] \in Nat
    BY <1>7, TypeParts DEF Store, IInv, FileSound, RestTyped, Prompt
  <2>2. i # j
    BY <2>1
  <2>3. Part(i)' = Part(i)
    BY <1>7, <2>1, <2>2, StoreParts
  <2> QED
    BY <2>1, <2>3, MemoryKept
<1> QED
  BY <1>2, <1>3, <1>4, <1>5, <1>6, <1>7 DEF Next, Pass, Outside

(* The newest reading of a register that is due whenever any register is   *)
(* leaves the memory only for a row, unless the power fails or a reading   *)
(* came in the gap between a copy and its zero (ennDatabase.c:396,         *)
(* IEC102_Main.c:1061), for any registers whose values are copied from     *)
(* where they are stored.                                                  *)
THEOREM NewestStays == ASSUME Aligned PROVE Spec => NewestKept
<1> DEFINE Kept ==
      \A i \in Prompt :
        (InMemory(i) /\ polled'[i] = polled[i] /\ ~InMemory(i)') =>
          \/ main'.pc = "off" \/ "gap" \in trouble
          \/ i \in DOMAIN main'.row /\ main'.row[i] = Newest(i)
<1>1. IInv /\ FlowInv /\ PromptTrue /\ [Next]_vars => Kept
  BY NewestStep
<1>2. IInv /\ FlowInv /\ [Next]_vars => FlowInv'
  BY NextFlows
<1>3. IInv /\ FlowInv /\ PromptTrue /\ [Next]_vars => PromptTrue'
  BY NextPrompt
<1> HIDE DEF Kept
<1>4. Spec => [][Kept]_vars
  BY <1>1, <1>2, <1>3, InitFlows, InitPrompt, Inductive, PTL DEF Spec
<1> QED
  BY <1>4 DEF NewestKept, Kept
=============================================================================
