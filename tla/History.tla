-------------------------------- MODULE History --------------------------------
(***************************************************************************)
(* The history of the registers: once a second the main task (src/main.c)  *)
(* moves the values from pData to p_Reg_Data (102dpa/src/IEC102_Main.c)    *)
(* and writes those that are due to the table of the day in an SQLite file *)
(* (driver/src/ennDatabase.c).  The server task reads them for an IEC 102  *)
(* master (protocol/src/IEC102protocol.c).  The two share the handle of    *)
(* the data base and p_Reg_Data, without a lock; whoever gets an error     *)
(* closes the handle.                                                      *)
(*                                                                         *)
(* A second of the clock and a statement of SQL are atomic.  A value is a  *)
(* sequence of bytes, each named by register, reading and position.        *)
(***************************************************************************)
EXTENDS Integers, Sequences, FiniteSets, SequencesExt

CONSTANTS
  Registers,   \* the registers in the order of the lists: channel, function,
               \* length in words, seconds between two records
  InfoNums,    \* the register of each information number, 0 if it is not mapped
  ZeroBytes,   \* the bytes <<register, position>> that are zero in its readings
  DayLength, Retention, MaxTimer, DefaultWindow,
  Stamps,      \* the times a master asks for: full periods
  MaxClock, MaxReadings, MaxQueries,   \* bounds
  MaxTroubles  \* bound: long passes, corrections of the clock, cuts of the power

Ids == DOMAIN Registers
Channels == DOMAIN InfoNums
Words == {3, 4}    \* holding and input registers; the others are coils

ASSUME HistoryAssumption ==
  /\ Registers \in Seq([chan : Nat, fun : 1 .. 4, num : Nat \ {0}, interval : Nat])
  /\ \A i, j \in Ids : i < j => Registers[i].chan <= Registers[j].chan
  /\ InfoNums \in Seq(Ids \cup {0}) /\ InfoNums # <<>>
  /\ {DayLength, Retention, MaxTimer, DefaultWindow} \subseteq Nat \ {0}
  /\ Stamps \subseteq Nat \ {0}
  /\ {MaxClock, MaxReadings, MaxQueries, MaxTroubles} \subseteq Nat

VARIABLES
  clock,      \* time()
  main,       \* the main task: ctv and ftv, the key, the table and the row of
              \* the pass, the register that is mapped; timer
  pData,      \* the values as the channel tasks store them, by function
  regData,    \* p_Reg_Data: value and valid
  tables,     \* the file: for each table, named by its day, the rows by key
  db,         \* the handle: "open", "closed", or "undefined" after its use
  query,      \* the server task: the time and the number it asks for, window
  results,    \* prof_data: what was found for each number; of this query?
  polled,     \* how many readings of each register there were
  trouble,    \* what happened to the clock and the queries so far
  queries, troubles    \* counters of the bounds

reader == <<query, results, queries>>
bounds == <<polled, troubles>>
vars == <<clock, main, pData, regData, tables, db, reader, trouble, bounds>>

-----------------------------------------------------------------------------
(* Time.                                                                   *)

Day(t) == t \div DayLength
Second(t) == t % DayLength

(* The layout of the values.                                               *)

\* The sums of the first k numbers of w, one for each register.
Sums(w) == LET upTo[k \in 0 .. Len(Registers)] == IF k = 0 THEN 0 ELSE upTo[k - 1] + w[k]
           IN  upTo

Width(i) == IF Registers[i].fun \in Words THEN 2 * Registers[i].num ELSE 1

Widths == [i \in Ids |-> Width(i)]
WidthsOf(f) == [i \in Ids |-> IF Registers[i].fun = f THEN Width(i) ELSE 0]

\* Where the channel task stores register i in the data of its function.
Place == [i \in Ids |-> Sums(WidthsOf(Registers[i].fun))[i - 1]]
Size(f) == Sums(WidthsOf(f))[Len(Registers)]

First(i) == CHOOSE j \in 1 .. i : /\ Registers[j].chan = Registers[i].chan
                                  /\ \A k \in 1 .. j - 1 : Registers[k].chan # Registers[i].chan

\* Mutant: the offset does not begin with that of the channel.
Source_NoOffset == [i \in Ids |-> Sums(Widths)[i - 1] - Sums(Widths)[First(i) - 1]]

\* u16Offset of ENNIEC102_Data_Map: it is set at the first list of a channel
\* and runs on through all the others, whatever their function.
Source == [i \in Ids |->
  Place[First(i)] + (Sums(Widths)[i - 1] - Sums(Widths)[First(i) - 1])]

Zero == <<0, 0, 0>>
Beyond == <<0, 0, 1>>      \* a byte behind the end of pData
Zeros(n) == [b \in 1 .. n |-> Zero]

\* Reading n of register i on its way from the slave, and in p_Reg_Data.
Bytes(i, n) == [b \in 1 .. Width(i) |-> IF <<i, b>> \in ZeroBytes THEN Zero ELSE <<i, n, b>>]
Mapped(i, bytes) == IF Registers[i].fun \in Words THEN Reverse(bytes) ELSE bytes
Reading(i, n) == Mapped(i, Bytes(i, n))
NoReading(i) == Zeros(Width(i))

-----------------------------------------------------------------------------
(* The file.                                                               *)

Without(day) == [d \in DOMAIN tables \ {day} |-> tables[d]]
NoRows == [k \in {} |-> Zero]

\* Mutant: a table is kept for a day more.
Created_Late(day) ==
  LET kept == Without(Day(clock) - Retention - 1)
  IN  [d \in DOMAIN kept \cup {day} |-> IF d = day THEN NoRows ELSE kept[d]]

\* Enn_DeleteOldTable, which reads the clock anew, and CREATE TABLE.
Created(day) ==
  LET kept == Without(Day(clock) - Retention)
  IN  [d \in DOMAIN kept \cup {day} |-> IF d = day THEN NoRows ELSE kept[d]]

\* A statement on a handle that was closed has no defined effect.
Uses == IF db = "open" THEN "open" ELSE "undefined"
Fails == IF db = "open" THEN "closed" ELSE "undefined"

-----------------------------------------------------------------------------
(* The main task.                                                          *)

Started == [pc |-> "sleep", ctv |-> clock, ftv |-> clock, date |-> 0,
            today |-> Day(clock), timer |-> 0, i |-> 1, row |-> NoRows]

Off == [Started EXCEPT !.pc = "off", !.ctv = 0, !.ftv = 0, !.today = 0]

Init ==
  /\ clock = 0
  /\ main = Started
  /\ pData = [f \in 1 .. 4 |-> [o \in 0 .. Size(f) - 1 |-> Zero]]
  /\ regData = [i \in Ids |-> [value |-> NoReading(i), valid |-> FALSE]]
  /\ tables = [d \in {Day(clock)} |-> NoRows]
  /\ db = "open"
  /\ query = [pc |-> "idle", stamp |-> 0, chn |-> 1, window |-> 0]
  /\ results = [c \in Channels |-> [value |-> <<>>, found |-> FALSE]]
  /\ polled = [i \in Ids |-> 0]
  /\ trouble = {}
  /\ queries = 0 /\ troubles = 0

At(pc) == db # "undefined" /\ main.pc = pc

\* The loop of main(): a second has passed since ftv.
Wake ==
  /\ At("sleep") /\ clock - main.ftv >= 1
  /\ main' = [main EXCEPT !.pc = "time", !.ctv = clock]
  /\ UNCHANGED <<clock, pData, regData, tables, db, reader, trouble, bounds>>

\* time() and localtime(): the key.
Stamp ==
  /\ At("time")
  /\ main' = [main EXCEPT !.pc = "check", !.date = Second(clock)]
  /\ UNCHANGED <<clock, pData, regData, tables, db, reader, trouble, bounds>>

DueAt(i, timer) == /\ Registers[i].interval # 0
                   /\ timer % Registers[i].interval = 0
AnyDue == \E i \in Ids : DueAt(i, main.timer)
Mapping == IF AnyDue THEN "copy" ELSE "done"

\* Database_tablecheck: the table of the day, by a second look at the clock.
TableCheck ==
  /\ At("check")
  /\ LET cdate == Day(clock)
         new   == cdate # main.today
     IN  /\ main' = [main EXCEPT !.today = cdate, !.i = 1,
                       !.pc = IF new /\ cdate \notin DOMAIN tables THEN "create" ELSE Mapping]
         /\ db' = IF new THEN Uses ELSE db
  /\ UNCHANGED <<clock, pData, regData, tables, reader, trouble, bounds>>

CreateToday ==
  /\ At("create")
  /\ tables' = Created(main.today)
  /\ main' = [main EXCEPT !.pc = Mapping]
  /\ db' = Uses
  /\ UNCHANGED <<clock, pData, regData, reader, trouble, bounds>>

\* ENNIEC102_Data_Map: one register after the other is copied ...
Copy ==
  /\ At("copy")
  /\ LET i == main.i
         data == pData[Registers[i].fun]
         From(o) == IF o \in DOMAIN data THEN data[o] ELSE Beyond
     IN  regData' = [regData EXCEPT ![i] =
           [value |-> Mapped(i, [b \in 1 .. Width(i) |-> From(Source[i] + b - 1)]), valid |-> TRUE]]
  /\ main' = [main EXCEPT !.pc = "clear"]
  /\ UNCHANGED <<clock, pData, tables, db, reader, trouble, bounds>>

Mapped1 == main' = [main EXCEPT !.pc = IF main.i = Len(Registers) THEN "record" ELSE "copy",
                                !.i = IF main.i = Len(Registers) THEN 1 ELSE @ + 1]

\* ... and set to zero where it came from.
Clear ==
  /\ At("clear")
  /\ LET i == main.i
     IN  pData' = [pData EXCEPT ![Registers[i].fun] =
           [o \in DOMAIN @ |-> IF o - Source[i] \in 0 .. Width(i) - 1 THEN Zero ELSE @[o]]]
  /\ Mapped1
  /\ UNCHANGED <<clock, regData, tables, db, reader, trouble, bounds>>

Due == {i \in Ids : regData[i].valid /\ DueAt(i, main.timer)}
Emptied(S) == [i \in Ids |-> IF i \in S THEN [value |-> NoReading(i), valid |-> FALSE]
                             ELSE regData[i]]

\* Mutant: the values are emptied before they are put into the row.
Record_Emptied ==
  /\ At("record")
  /\ main' = [main EXCEPT !.pc = "insert", !.row = [i \in Due |-> NoReading(i)]]
  /\ regData' = Emptied(Due)
  /\ UNCHANGED <<clock, pData, tables, db, reader, trouble, bounds>>

\* Database_insert: the values that are due go into a row.
Record ==
  /\ At("record")
  /\ main' = [main EXCEPT !.pc = "insert", !.row = [i \in Due |-> regData[i].value]]
  /\ regData' = Emptied(Due)
  /\ UNCHANGED <<clock, pData, tables, db, reader, trouble, bounds>>

\* _Database_insert: the time is the primary key of the table.
Insert ==
  /\ At("insert")
  /\ LET day == main.today
         ok  == db = "open" /\ day \in DOMAIN tables /\ main.date \notin DOMAIN tables[day]
     IN  IF ok
         THEN /\ tables' = [tables EXCEPT ![day] =
                   [k \in DOMAIN @ \cup {main.date} |-> IF k = main.date THEN main.row ELSE @[k]]]
              /\ UNCHANGED db
         ELSE db' = Fails /\ UNCHANGED tables
  /\ main' = [main EXCEPT !.pc = "done"]
  /\ UNCHANGED <<clock, pData, regData, reader, trouble, bounds>>

\* The time of the check becomes ftv; the timer is zero only in the first pass.
Done ==
  /\ At("done")
  /\ main' = [main EXCEPT !.pc = "sleep", !.ftv = main.ctv, !.row = NoRows, !.date = 0, !.i = 1,
                !.timer = IF @ + 1 > MaxTimer THEN 1 ELSE @ + 1]
  /\ UNCHANGED <<clock, pData, regData, tables, db, reader, trouble, bounds>>

Pass == Wake \/ Stamp \/ TableCheck \/ CreateToday \/ Copy \/ Clear \/ Record \/ Insert \/ Done

-----------------------------------------------------------------------------
(* The server task: data_profile_read.                                     *)

Ask(stamp) ==
  /\ db # "undefined" /\ main.pc # "off" /\ query.pc = "idle"
  /\ queries < MaxQueries /\ queries' = queries + 1
  /\ query' = [pc |-> "window", stamp |-> stamp, chn |-> 1, window |-> 0]
  /\ results' = [c \in Channels |-> [results[c] EXCEPT !.found = FALSE]]
  /\ UNCHANGED <<clock, main, pData, regData, tables, db, trouble, bounds>>

Next1 == [query EXCEPT !.pc = IF query.chn = Len(InfoNums) THEN "idle" ELSE "window",
                       !.chn = IF query.chn = Len(InfoNums) THEN 1 ELSE @ + 1]

\* A number that is not mapped is passed over: its result stays.
PassOver ==
  /\ query.pc = "window" /\ InfoNums[query.chn] = 0
  /\ query' = Next1
  /\ UNCHANGED <<clock, main, pData, regData, tables, db, results, queries, trouble, bounds>>

\* Database_select_period: the window depends on valid at this moment.
Window ==
  /\ query.pc = "window" /\ InfoNums[query.chn] # 0
  /\ LET i == InfoNums[query.chn]
     IN  query' = [query EXCEPT !.pc = "select",
           !.window = IF regData[i].valid THEN Registers[i].interval ELSE DefaultWindow]
  /\ UNCHANGED <<clock, main, pData, regData, tables, db, results, queries, trouble, bounds>>

\* Both ends of the window are times of the day; over midnight it is empty.
From == Second(query.stamp - query.window)
To == Second(query.stamp + query.window)
Table == Day(query.stamp)

\* select_callback: the rows of the window that have the register.
Found(i, day) == {k \in DOMAIN tables[day] : k \in From .. To /\ i \in DOMAIN tables[day][k]}
Earliest(S) == CHOOSE k \in S : \A j \in S : k <= j

\* strlen(): a value ends before its first byte that is zero; four bytes of it.
Cut(value) == SubSeq(value, 1, CHOOSE n \in 0 .. 4 :
  /\ n <= Len(value) /\ \A b \in 1 .. n : value[b] # Zero
  /\ n < 4 /\ n < Len(value) => value[n + 1] = Zero)

\* Mutant: the table of today, as in Database_select.
Answer_Today(i) ==
  LET rows == IF main.today \in DOMAIN tables THEN Found(i, main.today) ELSE {}
  IN  IF rows = {} THEN <<>> ELSE Cut(tables[main.today][Earliest(rows)][i])

\* _Database_select_period takes the first of them.
Answer(i) == Cut(tables[Table][Earliest(Found(i, Table))][i])

Select ==
  /\ query.pc = "select"
  /\ LET i == InfoNums[query.chn]
         fails == From <= To /\ (db # "open" \/ Table \notin DOMAIN tables)
         found == From <= To /\ ~fails /\ Found(i, Table) # {}
     IN  /\ results' = IF found THEN [results EXCEPT ![query.chn] =
                                        [value |-> Answer(i), found |-> TRUE]]
                       ELSE results
         /\ db' = IF fails THEN Fails ELSE db
         /\ trouble' = IF fails THEN trouble \cup {"missing"} ELSE trouble
  /\ query' = Next1
  /\ UNCHANGED <<clock, main, pData, regData, tables, queries, bounds>>

Read == db # "undefined" /\ (PassOver \/ Window \/ Select)

-----------------------------------------------------------------------------
(* The channel tasks, the clock and the power.                             *)

MayStore == Sums(polled)[Len(Registers)] < MaxReadings

\* A reading is stored.  What comes between the copy and the zero is lost.
Store(i) ==
  /\ db # "undefined" /\ main.pc # "off" /\ MayStore
  /\ polled' = [polled EXCEPT ![i] = @ + 1]
  /\ pData' = [pData EXCEPT ![Registers[i].fun] =
       [o \in DOMAIN @ |-> IF o - Place[i] \in 0 .. Width(i) - 1
                           THEN Bytes(i, polled'[i])[o - Place[i] + 1] ELSE @[o]]]
  /\ trouble' = IF main.pc = "clear" /\ main.i = i THEN trouble \cup {"gap"} ELSE trouble
  /\ UNCHANGED <<clock, main, regData, tables, db, reader, troubles>>

Bounded == troubles < MaxTroubles /\ troubles' = troubles + 1

\* A pass looks at the clock up to four times, and takes them for one.  In the
\* rest of a pass nobody looks, and a move is the same as one at its end.
Moves(t) == /\ main.pc \notin {"copy", "clear", "record", "insert"}
            /\ clock' = t
            /\ trouble' = IF main.pc \in {"time", "check", "create"}
                          THEN trouble \cup {"slip"} ELSE trouble

\* The loop looks ten times a second, so it misses none but in a long pass.
Tick ==
  /\ clock < MaxClock /\ Moves(clock + 1)
  /\ IF main.pc = "off" \/ (main.pc = "sleep" /\ clock <= main.ftv) THEN UNCHANGED troubles
     ELSE main.pc # "sleep" /\ Bounded
  /\ UNCHANGED <<main, pData, regData, tables, db, reader, polled>>

\* iec102_syn_datetime: the master sets the clock, by any amount.
SetClock(t) ==
  /\ db # "undefined" /\ main.pc # "off"
  /\ Bounded
  /\ t # clock /\ Moves(t)
  /\ UNCHANGED <<main, pData, regData, tables, db, reader, polled>>

\* The power fails: the file stays.
CutOff ==
  /\ main.pc # "off" /\ Bounded
  /\ main' = Off
  /\ pData' = [f \in 1 .. 4 |-> [o \in DOMAIN pData[f] |-> Zero]]
  /\ regData' = Emptied(Ids)
  /\ query' = [pc |-> "idle", stamp |-> 0, chn |-> 1, window |-> 0]
  /\ results' = [c \in Channels |-> [value |-> <<>>, found |-> FALSE]]
  /\ db' = "closed"
  /\ UNCHANGED <<clock, tables, trouble, queries, polled>>

Later == \E d \in DOMAIN tables : \/ d > Day(clock)
                                  \/ d = Day(clock) /\ \E k \in DOMAIN tables[d] : k > Second(clock)

\* Enn_Database_init.
Boot ==
  /\ main.pc = "off"
  /\ main' = Started
  /\ tables' = IF Day(clock) \in DOMAIN tables THEN tables ELSE Created(Day(clock))
  /\ db' = "open"
  /\ trouble' = IF Later THEN trouble \cup {"repeated"} ELSE trouble
  /\ UNCHANGED <<clock, pData, regData, reader, bounds>>

Outside == \/ \E i \in Ids : Store(i)
           \/ Tick \/ CutOff \/ Boot
           \/ \E t \in 0 .. MaxClock : SetClock(t)

Next == Pass \/ Read \/ (\E stamp \in Stamps : Ask(stamp)) \/ Outside

Spec == Init /\ [][Next]_vars

-----------------------------------------------------------------------------
Byte == {Zero, Beyond} \cup (Ids \X (Nat \ {0}) \X (Nat \ {0}))

(* The types: the arrays keep their sizes, the keys lie within a day, and   *)
(* the timer (main.c:960-968) stays within its bound.                      *)
TypeOK ==
  /\ clock \in Nat
  /\ main.pc \in {"off", "sleep", "time", "check", "create", "copy", "clear", "record",
                  "insert", "done"}
  /\ {main.ctv, main.ftv, main.today} \subseteq Nat /\ main.date \in 0 .. DayLength - 1
  /\ main.timer \in 0 .. MaxTimer /\ DOMAIN main.row \subseteq Ids
  /\ main.pc \in {"copy", "clear"} => main.i \in Ids
  /\ \A f \in 1 .. 4 : \A o \in DOMAIN pData[f] : pData[f][o] \in Byte
  /\ \A i \in Ids : /\ regData[i].value \in [1 .. Width(i) -> Byte]
                    /\ regData[i].valid \in BOOLEAN
  /\ \A d \in DOMAIN tables : /\ d \in Nat /\ DOMAIN tables[d] \subseteq 0 .. DayLength - 1
                              /\ \A k \in DOMAIN tables[d] : DOMAIN tables[d][k] \subseteq Ids
  /\ db \in {"open", "closed", "undefined"}
  /\ query.pc \in {"idle", "window", "select"} /\ query.chn \in Channels
  /\ polled \in [Ids -> Nat]
  /\ trouble \subseteq {"gap", "slip", "missing", "repeated"}

\* The rows in which register i was recorded, by the seconds since the start.
Recorded(i) == UNION {{<<d * DayLength + k, tables[d][k][i]>> :
                 k \in {j \in DOMAIN tables[d] : i \in DOMAIN tables[d][j]}} : d \in DOMAIN tables}
Ever(i) == {Reading(i, n) : n \in 1 .. polled[i]}
Number(i, value) == CHOOSE n \in 1 .. polled[i] : value = Reading(i, n)

(* What the history holds for a register is zero or a reading of this very *)
(* register, its bytes in order, although all values lie in one array; and *)
(* no reading is recorded twice or after a later one: a meter that falls   *)
(* silent leaves zeros, not its last value (IEC102_Main.c:1031-1086).  A   *)
(* clock that moves within a pass or was set back before the start may     *)
(* mix up the keys.                                                        *)
HistoryTrue ==
  \A i \in Ids :
    /\ \A r \in Recorded(i) : r[2] = NoReading(i) \/ r[2] \in Ever(i)
    /\ trouble \cap {"slip", "repeated"} = {} =>
         \A r, s \in Recorded(i) : /\ r[1] < s[1]
                                   /\ {r[2], s[2]} \subseteq Ever(i) \ {NoReading(i)}
                                   => Number(i, r[2]) < Number(i, s[2])

\* The registers that are due whenever any register is.
Prompt == {i \in Ids : \A t \in 0 .. MaxTimer : (\E j \in Ids : DueAt(j, t)) => DueAt(i, t)}
Newest(i) == Reading(i, polled[i])
InMemory(i) == \/ polled[i] > 0 /\ regData[i].value = Newest(i)
               \/ polled[i] > 0 /\ \A b \in 1 .. Width(i) :
                    pData[Registers[i].fun][Place[i] + b - 1] = Bytes(i, polled[i])[b]

(* The newest reading of a register that is recorded as often as any other *)
(* leaves pData and p_Reg_Data only for a row, unless the power fails or   *)
(* it came in the gap between a copy and its zero: a pass that is due to   *)
(* others only would throw it away (ennDatabase.c:396, IEC102_Main.c:1061).*)
NewestKept ==
  [][\A i \in Prompt :
       (InMemory(i) /\ polled'[i] = polled[i] /\ ~InMemory(i)') =>
         \/ main'.pc = "off" \/ "gap" \in trouble
         \/ i \in DOMAIN main'.row /\ main'.row[i] = Newest(i)]_vars

(* Two tables that lie Retention days apart do not exist together: what is *)
(* old was dropped on the day it was due (ennDatabase.c:148-195), also if  *)
(* the device was started anew, unless the clock was set back or midnight  *)
(* falls within a pass.                                                    *)
OldTablesGone ==
  trouble \cap {"slip", "repeated"} = {} =>
    \A d \in DOMAIN tables : d + Retention \notin DOMAIN tables

(* The handle is closed at the first error and not opened again, which     *)
(* ends the history.  No row repeats a key, over midnights, starts and     *)
(* corrections of the clock: an error comes only from a question for a day *)
(* without a table, a clock that moves within a pass, or one that was set  *)
(* back before a start.                                                    *)
StaysOpen ==
  trouble \cap {"missing", "slip", "repeated"} = {} => db = "open" \/ main.pc = "off"

(* The file stays in use and within its bound, and its arrays in theirs.   *)
FileSound == TypeOK /\ OldTablesGone /\ StaysOpen

Limit(i) == IF Registers[i].interval > DefaultWindow THEN Registers[i].interval
            ELSE DefaultWindow
Near(i, k) == k - Second(query.stamp) \in -Limit(i) .. Limit(i)

(* A total that is found comes from a row of its own register, of the day  *)
(* asked for and near the time asked for, whatever the main task records   *)
(* meanwhile; and if there is a row of this very time, the total is found, *)
(* unless the window reaches over midnight.                                *)
AnswerTrue ==
  [][Select =>
       LET i == InfoNums[query.chn]
           rows == IF Table \in DOMAIN tables
                   THEN {k \in DOMAIN tables[Table] : i \in DOMAIN tables[Table][k]} ELSE {}
       IN  /\ results'[query.chn].found =>
                \E k \in rows : Near(i, k) /\ results'[query.chn].value = Cut(tables[Table][k][i])
           /\ Second(query.stamp) \in rows /\ From <= To /\ db = "open" =>
                results'[query.chn].found]_vars
=============================================================================
