------------------------------ MODULE Iec102Proofs ------------------------------
(***************************************************************************)
(* Proofs about Iec102Session: for any number of periods and of frames to  *)
(* a period, a command is worked on once, and on a link without trouble a  *)
(* time range is confirmed and then answered completely and in order.      *)
(***************************************************************************)
EXTENDS Iec102Session, TLAPS

(* The commands that the slave answers in full.  The confirmation of the   *)
(* others is commented out (IEC102protocol.c:2161), and a range beyond the *)
(* configured information objects never ends.                              *)
Answered == {a \in Asdus : /\ a.type \in {"NR", "RD", "NT", "SYN", "XX"}
                           /\ a.cause = ProperCause(a.type)
                           /\ a.type = "NR" => a.obj # "beyond"}

-----------------------------------------------------------------------------
(* The types of what the slave keeps and sends.                            *)

Kinds  == {"NONE", "SC_ACK", "ACK_E5", "SC_NACK", "SR_STAT", "SR_DATA", "SR_NACK"}
Labels == Types \cup {"NONE", "M_EI", "M_SP", "M_IT", "P_MP"}
Blocks == (0 .. Periods) \X (0 .. Parts - 1)
Transmissions == [kind : Kinds, acd : BOOLEAN, type : Labels, cause : Causes \cup {"NONE"},
                  block : Blocks \cup {NoBlock}]
Sessions == [lctrl : 0 .. 1, commrun : BOOLEAN, initind : BOOLEAN, eventind : BOOLEAN,
             initflag : BOOLEAN, cseq : BOOLEAN, ldid : Kinds \ {"NONE"}, udid : Labels,
             last : Asdus \cup {NoAsdu}, lastsstamp : 0 .. Periods - 1,
             itfrom : 0 .. Parts - 1, stampok : BOOLEAN, unfinished : BOOLEAN,
             lasttx : Transmissions]
Functions102 == {"PSC_RESLINK", "PRR_LINKSTA", "PSC_DATA", "PRR_DATA1", "PRR_DATA2"}
Frames == [func : Functions102, fcb : 0 .. 1, asdu : Asdus \cup {NoAsdu}]
Stages == {"none", "accepted", "confirmed", "ended", "refused", "cancelling", "cancelled",
           "dropped"}

(* A session is proper: an answer with totals has a command for them.      *)
Proper(s) == /\ s \in Sessions
             /\ s.ldid = "SR_DATA" /\ s.udid = "M_IT" =>
                  s.last.type \in {"NA", "NC", "ND", "NR"}

(* What both sides keep is of its type, and one frame at most is under way.*)
Typed ==
  /\ trouble \in Troubles
  /\ Proper(session)
  /\ frame \in Frames \cup {NoFrame}
  /\ inflight \in BOOLEAN /\ linked \in BOOLEAN /\ acd \in BOOLEAN
  /\ answer \in Transmissions
  /\ fcb \in 0 .. 1
  /\ cmd \in Commands[trouble] \cup {NoAsdu}
  /\ stage \in Stages
  /\ log \in Seq(Blocks)
  /\ inflight => frame # NoFrame /\ answer = NoTx
  /\ frame = NoFrame => answer = NoTx
  /\ frame.func = "PSC_DATA" /\ frame.asdu.cause # "DEACTIV" => frame.asdu \in Commands[trouble]

-----------------------------------------------------------------------------
(* The frame count bit.                                                    *)

(* Unless frames come in pieces, the slave has the bit of the last frame   *)
(* that it has seen, and a link is up after a reset only.                  *)
CountTrue ==
  trouble # "split" =>
    /\ frame # NoFrame => frame.fcb = fcb /\ (Fcv(frame) <=> linked)
    /\ linked => session.commrun
    /\ linked /\ frame = NoFrame => session.lctrl = fcb
    /\ ~linked => cmd = NoAsdu /\ stage = "none" /\ log = <<>>
    /\ Fcv(frame) /\ ~inflight => session.lctrl = fcb
    /\ frame.func = "PSC_RESLINK" => fcb = 0
    /\ frame.func = "PSC_RESLINK" /\ ~inflight => session.commrun /\ session.lctrl = 0
    /\ frame.func = "PSC_DATA" /\ frame.asdu.cause # "DEACTIV" /\ session.lctrl = fcb =>
         /\ session.cseq
         /\ session.lasttx.kind = session.ldid
         /\ \/ session.ldid = "SC_NACK"
            \/ /\ session.ldid \in {"SC_ACK", "ACK_E5"}
               /\ session.last.type = frame.asdu.type
         /\ answer # NoTx => answer = session.lasttx

-----------------------------------------------------------------------------
(* A link without trouble.                                                 *)

(* The place the log has reached: part k of period p comes next.           *)
AtPlace(l, p, k) ==
  /\ Len(l) = p * Parts + k
  /\ \A i \in 1 .. Len(l) : l[i] = RangeTotals[i]

InOrder(l) == /\ Len(l) <= Periods * Parts
              /\ \A i \in 1 .. Len(l) : l[i] = RangeTotals[i]

(* A master at stage g of command c has got the blocks l that it should.   *)
Delivered(c, g, l) ==
  /\ InOrder(l)
  /\ l # <<>> => c.type = "NR" /\ g # "accepted"
  /\ g = "ended" /\ c.type = "NR" => Len(l) = Periods * Parts
  /\ g = "ended" => c.type \notin {"NA", "NC", "ND"}

(* The slave in session s has got as far with command c as the master that *)
(* is at stage g and has the blocks l.                                     *)
Agree(s, c, g, l) ==
  /\ s.cseq <=> g \in {"accepted", "confirmed", "cancelling", "cancelled"}
  /\ s.cseq => /\ c \in Answered
               /\ s.last.type = c.type /\ s.last.obj = c.obj
               /\ s.stampok
  /\ Delivered(c, g, l)
  /\ g = "accepted" => s.last = c /\ l = <<>> /\ s.lastsstamp = 0 /\ s.itfrom = 0
  /\ g = "confirmed" =>
       /\ c.type = "NR" /\ c.obj = "ok"
       /\ \/ s.last.cause \in CONFIRMED /\ AtPlace(l, s.lastsstamp, s.itfrom)
          \/ s.last.cause = "ACTIV_TERM" /\ Len(l) = Periods * Parts
  /\ g = "cancelling" => c.type = "NR" /\ s.last.cause = "DEACTIV_CON"
  /\ g = "cancelled" => c.type = "NR" /\ s.last.cause = "ACTIV_TERM"

(* What the master makes of an answer tx to its frame f.                   *)
Acked(tx) == tx.kind \in {"SC_ACK", "ACK_E5"}
Commanded(f, tx) == f.func = "PSC_DATA" /\ Acked(tx) /\ f.asdu.cause # "DEACTIV"
NextCmd(f, tx) == IF Commanded(f, tx) THEN f.asdu ELSE cmd
NextStage(f, tx) ==
  IF Commanded(f, tx) THEN "accepted"
  ELSE IF f.func = "PSC_DATA" /\ Acked(tx) THEN "cancelling"
  ELSE IF f.func = "PRR_DATA1" THEN StageAfter(tx) ELSE stage
NextLog(f, tx) ==
  IF Commanded(f, tx) THEN <<>>
  ELSE IF f.func = "PRR_DATA1" /\ tx.block # NoBlock /\ Len(log) <= MaxLog
         THEN Append(log, tx.block) ELSE log

Clean ==
  trouble = "none" =>
    /\ Delivered(cmd, stage, log)
    /\ session.eventind => session.initind /\ session.initflag
    /\ frame # NoFrame /\ ~inflight => answer # NoTx
    /\ Fcv(frame) /\ inflight => session.lctrl # fcb
    /\ frame.func = "PSC_DATA" =>
         IF frame.asdu.cause = "DEACTIV"
           THEN stage \in {"accepted", "confirmed"} /\ frame.asdu = [cmd EXCEPT !.cause = "DEACTIV"]
           ELSE ~Running
    /\ linked /\ answer = NoTx => Agree(session, cmd, stage, log)
    /\ (linked \/ frame.func = "PSC_RESLINK") /\ answer # NoTx =>
         Agree(session, NextCmd(frame, answer), NextStage(frame, answer), NextLog(frame, answer))

IInv == Typed /\ CountTrue /\ Clean

-----------------------------------------------------------------------------
(* Types.                                                                  *)

LEMMA Numbers ==
  /\ Periods \in Nat /\ Periods > 0 /\ Parts \in Nat /\ Parts > 0
  /\ 0 \in 0 .. Periods - 1 /\ 0 \in 0 .. Parts - 1 /\ Parts - 1 \in 0 .. Parts - 1
BY SlaveAssumption

LEMMA NoTxType == NoTx \in Transmissions
BY DEF NoTx, Transmissions, Kinds, Labels

LEMMA NoFrameFields ==
  NoFrame.func = "NONE" /\ ~Fcv(NoFrame) /\ NoFrame \notin Frames
BY DEF NoFrame, Fcv, Frames, Functions102

LEMMA NewSessionType == Proper(NewSession)
BY Numbers, NoTxType DEF NewSession, Proper, Sessions, Kinds, Labels

(* FT12_102_tx_put changes lasttx alone.                                   *)
LEMMA PutType ==
  ASSUME NEW s \in Sessions, NEW tx \in Transmissions
  PROVE  /\ Put(s, tx) \in Sessions
         /\ Put(s, tx).lasttx = tx
         /\ \A f \in {"lctrl", "commrun", "initind", "eventind", "initflag", "cseq", "ldid",
                      "udid", "last", "lastsstamp", "itfrom", "stampok", "unfinished"} :
              Put(s, tx)[f] = s[f]
BY DEF Put, Sessions

LEMMA AnswerTypes ==
  ASSUME NEW s \in Sessions
  PROVE  /\ Short(s) \in Transmissions
         /\ \A type \in Labels, cause \in Causes \cup {"NONE"} :
              Data(s, type, cause) \in Transmissions
         /\ Mirror(s) \in Transmissions
<1>1. NoTx \in Transmissions /\ s.ldid \in Kinds /\ "SR_DATA" \in Kinds
  BY NoTxType DEF Sessions, Kinds
<1>2. class1ind(s) \in BOOLEAN
  BY DEF class1ind
<1>3. Short(s) \in Transmissions
  <2>1. (s.ldid # "ACK_E5" /\ class1ind(s)) \in BOOLEAN
    OBVIOUS
  <2> QED
    BY <1>1, <2>1 DEF Short, Transmissions
<1>4. ASSUME NEW type \in Labels, NEW cause \in Causes \cup {"NONE"}
      PROVE  Data(s, type, cause) \in Transmissions
  BY <1>1, <1>2 DEF Data, Transmissions
<1>5. s.last.type \in Labels /\ s.last.cause \in Causes \cup {"NONE"}
  BY DEF Sessions, Asdus, NoAsdu, Labels
<1> QED
  BY <1>3, <1>4, <1>5 DEF Mirror

(* What iec102_slave_seq leaves alone.                                     *)
SameLink(s, t) == /\ t.lctrl = s.lctrl /\ t.commrun = s.commrun
                  /\ t.initind = s.initind /\ t.eventind = s.eventind
                  /\ t.ldid = s.ldid /\ t.udid = s.udid

LEMMA ActivConfType ==
  ASSUME NEW s, Proper(s)
  PROVE  /\ Proper(ActivConf(s)) /\ SameLink(s, ActivConf(s))
         /\ ActivConf(s).lasttx = Mirror(s)
<1> DEFINE t == Put(s, Mirror(s))
<1>1. /\ t \in Sessions /\ t.lasttx = Mirror(s) /\ SameLink(s, t)
      /\ t.last = s.last
  BY AnswerTypes, PutType DEF Proper, SameLink
<1>2. ActivConf(s) = CASE s.last.cause = "DEACTIV_CON" -> [t EXCEPT !.last.cause = "ACTIV_TERM"]
                       [] s.last.cause \in CONFIRMED /\ s.cseq -> t
                       [] OTHER -> [t EXCEPT !.cseq = FALSE]
  BY DEF ActivConf
<1> HIDE DEF t
<1>3. CASE s.last.cause = "DEACTIV_CON"
  <2> DEFINE a == [t.last EXCEPT !.cause = "ACTIV_TERM"]
  <2>1. ActivConf(s) = [t EXCEPT !.last = a]
    BY <1>2, <1>3 DEF CONFIRMED
  <2>2. a \in Asdus /\ a.type = s.last.type
    BY <1>1, <1>3 DEF Proper, Sessions, Asdus, NoAsdu, Causes
  <2> HIDE DEF a
  <2> QED
    BY <1>1, <2>1, <2>2 DEF Proper, Sessions, SameLink
<1>4. CASE s.last.cause # "DEACTIV_CON"
  <2>1. ActivConf(s) = t \/ ActivConf(s) = [t EXCEPT !.cseq = FALSE]
    BY <1>2, <1>4
  <2>2. CASE ActivConf(s) = t
    BY <1>1, <2>2 DEF Proper, SameLink
  <2>3. CASE ActivConf(s) = [t EXCEPT !.cseq = FALSE]
    <3>1. /\ ActivConf(s) \in Sessions /\ SameLink(t, ActivConf(s))
          /\ ActivConf(s).last = t.last /\ ActivConf(s).lasttx = t.lasttx
      BY <1>1, <2>3 DEF Sessions, SameLink
    <3> QED
      BY <1>1, <3>1 DEF Proper, SameLink
  <2> QED
    BY <2>1, <2>2, <2>3
<1> QED
  BY <1>3, <1>4

(* The next block of totals: what it is and where the cursor goes.         *)
LEMMA NextITType ==
  ASSUME NEW s, Proper(s), s.last.type \in {"NA", "NC", "ND", "NR"}
  PROVE  /\ Proper(NextIT(s)) /\ SameLink(s, NextIT(s))
         /\ NextIT(s).lasttx # NoTx
         /\ s.last.type = "NR" /\ s.last.obj # "beyond" /\ s.stampok =>
              /\ NextIT(s).lasttx =
                   [Data(s, "M_IT", "REQ") EXCEPT !.block = <<s.lastsstamp, s.itfrom>>]
              /\ NextIT(s).cseq = s.cseq /\ NextIT(s).stampok
              /\ NextIT(s).last.type = s.last.type /\ NextIT(s).last.obj = s.last.obj
              /\ \/ /\ s.itfrom < Parts - 1 /\ NextIT(s).last.cause = "REQ"
                    /\ NextIT(s).itfrom = s.itfrom + 1 /\ NextIT(s).lastsstamp = s.lastsstamp
                 \/ /\ s.itfrom = Parts - 1 /\ s.lastsstamp < Periods - 1
                    /\ NextIT(s).last.cause = "REQ"
                    /\ NextIT(s).itfrom = 0 /\ NextIT(s).lastsstamp = s.lastsstamp + 1
                 \/ /\ s.itfrom = Parts - 1 /\ s.lastsstamp = Periods - 1
                    /\ NextIT(s).last.cause = "ACTIV_TERM"
<1> DEFINE tx   == [Data(s, "M_IT", "REQ") EXCEPT !.block =
                      <<IF s.stampok THEN s.lastsstamp ELSE Elsewhere, s.itfrom>>]
           t    == Put(s, tx)
           more == s.itfrom < Parts - 1
           done == [s.last EXCEPT !.cause = "ACTIV_TERM"]
           next == [s.last EXCEPT !.cause = "REQ"]
<1>1. /\ s \in Sessions /\ s.last \in Asdus
      /\ s.itfrom \in 0 .. Parts - 1 /\ s.lastsstamp \in 0 .. Periods - 1
      /\ s.stampok \in BOOLEAN /\ s.unfinished \in BOOLEAN
  BY DEF Proper, Sessions, NoAsdu
<1>2. Data(s, "M_IT", "REQ") \in Transmissions
  BY <1>1, AnswerTypes DEF Labels, Causes
<1>3. tx \in Transmissions /\ [tx EXCEPT !.block = NoBlock] \in Transmissions
  <2>1. <<IF s.stampok THEN s.lastsstamp ELSE Elsewhere, s.itfrom>> \in Blocks
    BY <1>1, Numbers DEF Blocks, Elsewhere
  <2> QED
    BY <1>2, <2>1 DEF Transmissions
<1>4. tx # NoTx /\ [tx EXCEPT !.block = NoBlock] # NoTx
  <2>1. Data(s, "M_IT", "REQ").kind = "SR_DATA"
    BY DEF Data, NoTx
  <2>2. tx.kind = "SR_DATA" /\ [tx EXCEPT !.block = NoBlock].kind = "SR_DATA"
    BY <1>2, <2>1 DEF Transmissions
  <2> QED
    BY <2>2 DEF NoTx
<1>5. /\ done \in Asdus /\ next \in Asdus
      /\ done.type = s.last.type /\ next.type = s.last.type
      /\ done.obj = s.last.obj /\ next.obj = s.last.obj
      /\ done.cause = "ACTIV_TERM" /\ next.cause = "REQ"
  BY <1>1 DEF Asdus, Causes
<1>6. /\ t \in Sessions /\ t.lasttx = tx /\ SameLink(s, t) /\ t.last = s.last
      /\ t.cseq = s.cseq /\ t.stampok = s.stampok /\ t.unfinished = s.unfinished
      /\ t.lastsstamp = s.lastsstamp /\ t.itfrom = s.itfrom
  BY <1>1, <1>3, PutType DEF SameLink
<1> HIDE DEF tx, t, done, next
<1>7. CASE s.last.type = "NA"
  <2> DEFINE v == [s EXCEPT !.last = done, !.cseq = FALSE]
             w == [v EXCEPT !.unfinished = FALSE]
             m == [Mirror(v) EXCEPT !.acd = FALSE]
  <2>1. NextIT(s) = Put(w, m)
    BY <1>7 DEF NextIT, done
  <2>2. v \in Sessions
    BY <1>1, <1>5 DEF Sessions
  <2>3. w \in Sessions /\ w.last = done /\ SameLink(s, w)
    BY <1>1, <1>5 DEF Sessions, SameLink
  <2>4. m \in Transmissions /\ m.kind = "SR_DATA"
    <3>1. Mirror(v) \in Transmissions /\ Mirror(v).kind = "SR_DATA"
      BY <2>2, AnswerTypes DEF Mirror, Data, NoTx
    <3> QED
      BY <3>1 DEF Transmissions
  <2> HIDE DEF w, m
  <2> QED
    BY <1>5, <1>7, <2>1, <2>3, <2>4, PutType DEF Proper, SameLink, NoTx
<1>8. CASE s.last.type # "NA" /\ s.last.obj = "beyond"
  <2> DEFINE v == Put(s, [tx EXCEPT !.block = NoBlock])
             a == IF s.last.type = "NR" THEN next ELSE done
  <2>1. NextIT(s) = [v EXCEPT !.last = a]
    BY <1>1, <1>3, <1>8, PutType DEF NextIT, tx, done, next
  <2>2. v \in Sessions /\ v.lasttx # NoTx /\ SameLink(s, v)
    BY <1>1, <1>3, <1>4, PutType DEF SameLink
  <2>3. a \in Asdus /\ a.type = s.last.type
    BY <1>5
  <2> HIDE DEF v, a
  <2> QED
    BY <1>8, <2>1, <2>2, <2>3 DEF Proper, Sessions, SameLink
<1>9. CASE s.last.type # "NA" /\ s.last.obj # "beyond" /\ more
  <2> DEFINE ok  == s.stampok /\ s.last.type # "NC"
             cut == s.unfinished \/ s.last.type = "NC"
             k   == s.itfrom + 1
  <2>1. NextIT(s) = [t EXCEPT !.last = next, !.itfrom = k, !.stampok = ok, !.unfinished = cut]
    BY <1>6, <1>9 DEF NextIT, t, tx, next
  <2>2. k \in 0 .. Parts - 1 /\ ok \in BOOLEAN /\ cut \in BOOLEAN
    BY <1>1, <1>9, Numbers
  <2>3. s.last.type = "NR" => ok = s.stampok
    BY <1>1
  <2> HIDE DEF ok, cut, k
  <2>4. /\ NextIT(s) \in Sessions /\ SameLink(t, NextIT(s)) /\ NextIT(s).last = next
        /\ NextIT(s).lasttx = tx /\ NextIT(s).cseq = t.cseq /\ NextIT(s).stampok = ok
        /\ NextIT(s).itfrom = k /\ NextIT(s).lastsstamp = t.lastsstamp
    BY ZenonT(60), <1>5, <1>6, <2>1, <2>2 DEF Sessions, SameLink
  <2> QED
    BY <1>4, <1>5, <1>6, <1>9, <2>3, <2>4 DEF Proper, SameLink, tx, k
<1>10. CASE s.last.type = "NR" /\ s.last.obj # "beyond" /\ ~more /\ s.lastsstamp # Periods - 1
  <2> DEFINE p == s.lastsstamp + 1
  <2>1. NextIT(s) = [t EXCEPT !.last = next, !.itfrom = 0, !.lastsstamp = p]
    BY <1>6, <1>10 DEF NextIT, t, tx, next
  <2>2. p \in 0 .. Periods - 1 /\ s.lastsstamp < Periods - 1 /\ s.itfrom = Parts - 1
    BY <1>1, <1>10, Numbers
  <2> HIDE DEF p
  <2>3. /\ NextIT(s) \in Sessions /\ SameLink(t, NextIT(s)) /\ NextIT(s).last = next
        /\ NextIT(s).lasttx = tx /\ NextIT(s).cseq = t.cseq /\ NextIT(s).stampok = t.stampok
        /\ NextIT(s).itfrom = 0 /\ NextIT(s).lastsstamp = p
    BY ZenonT(60), <1>5, <1>6, <2>1, <2>2, Numbers DEF Sessions, SameLink
  <2> QED
    BY <1>4, <1>5, <1>6, <1>10, <2>2, <2>3 DEF Proper, SameLink, tx, p
<1>11. CASE /\ s.last.type # "NA" /\ s.last.obj # "beyond" /\ ~more
            /\ s.last.type = "NR" => s.lastsstamp = Periods - 1
  <2> DEFINE ok  == s.stampok /\ s.last.type # "NC"
             cut == s.unfinished /\ s.last.type # "NC"
  <2>1. CASE s.last.type = "NR"
    <3>1. NextIT(s) = [t EXCEPT !.last = done, !.lastsstamp = 0]
      BY <1>6, <1>11, <2>1 DEF NextIT, t, tx, done
    <3>2. /\ NextIT(s) \in Sessions /\ SameLink(t, NextIT(s)) /\ NextIT(s).last = done
          /\ NextIT(s).lasttx = tx /\ NextIT(s).cseq = t.cseq /\ NextIT(s).stampok = t.stampok
      BY <1>5, <1>6, <3>1, Numbers DEF Sessions, SameLink
    <3>3. s.itfrom = Parts - 1
      BY <1>1, <1>11, Numbers
    <3> QED
      BY <1>4, <1>5, <1>6, <1>11, <2>1, <3>2, <3>3 DEF Proper, SameLink, tx
  <2>2. CASE s.last.type # "NR"
    <3>1. NextIT(s) = [t EXCEPT !.last = done, !.lastsstamp = 0, !.stampok = ok,
                                !.unfinished = cut]
      <4>1. ok = (s.stampok /\ s.last.type # "NC") /\ cut = (t.unfinished /\ s.last.type # "NC")
        BY <1>6
      <4> HIDE DEF ok, cut
      <4> QED
        BY <1>6, <1>11, <2>2, <4>1 DEF NextIT, t, tx, done
    <3>2. ok \in BOOLEAN /\ cut \in BOOLEAN
      BY <1>1
    <3> HIDE DEF ok, cut
    <3>3. /\ NextIT(s) \in Sessions /\ SameLink(t, NextIT(s)) /\ NextIT(s).last = done
          /\ NextIT(s).lasttx = tx
      BY ZenonT(60), <1>5, <1>6, <3>1, <3>2, Numbers DEF Sessions, SameLink
    <3> QED
      BY <1>4, <1>5, <1>6, <1>11, <2>2, <3>3 DEF Proper, SameLink
  <2> QED
    BY <2>1, <2>2
<1> QED
  BY <1>7, <1>8, <1>9, <1>10, <1>11

LEMMA SequenceType ==
  ASSUME NEW s, Proper(s)
  PROVE  /\ Proper(iec102_slave_seq(s)) /\ SameLink(s, iec102_slave_seq(s))
         /\ Answers(s) => iec102_slave_seq(s).lasttx # NoTx
<1> DEFINE u == iec102_slave_seq(s)
<1>1. s \in Sessions /\ s.ldid \in Kinds \ {"NONE"} /\ s.udid \in Labels
  BY DEF Proper, Sessions
<1>2. CASE s.ldid # "SR_DATA"
  <2>1. u = Put(s, Short(s))
    BY <1>2 DEF iec102_slave_seq
  <2>2. Short(s).kind = s.ldid
    BY DEF Short, NoTx
  <2>3. Short(s) \in Transmissions /\ Short(s) # NoTx
    BY <1>1, <2>2, AnswerTypes DEF NoTx
  <2>4. u \in Sessions /\ u.lasttx = Short(s) /\ SameLink(s, u)
    BY <1>1, <2>1, <2>3, PutType DEF SameLink
  <2> QED
    BY <1>2, <2>3, <2>4 DEF Proper, SameLink
<1>3. CASE s.ldid = "SR_DATA" /\ s.udid \in Silent
  <2>1. u = s
    BY <1>3 DEF iec102_slave_seq, Silent
  <2> QED
    BY <1>3, <2>1 DEF Answers, SameLink
<1>4. CASE s.ldid = "SR_DATA" /\ s.udid \in {"M_EI", "P_MP"}
  <2> DEFINE d == Data(s, s.udid, "REQ")
             t == Put(s, d)
  <2>1. u = t \/ u = [t EXCEPT !.initflag = FALSE]
    BY <1>4 DEF iec102_slave_seq, Silent
  <2>2. d \in Transmissions /\ d.kind = "SR_DATA"
    BY <1>1, AnswerTypes DEF Causes, Data, NoTx
  <2> HIDE DEF d
  <2>3. t \in Sessions /\ t.lasttx = d /\ t.last = s.last /\ SameLink(s, t)
    BY <1>1, <2>2, PutType DEF SameLink
  <2> HIDE DEF t
  <2>4. u \in Sessions /\ u.lasttx = d /\ u.last = s.last /\ SameLink(s, u)
    BY <2>1, <2>3 DEF SameLink, Sessions
  <2> QED
    BY <1>4, <2>2, <2>4 DEF Proper, SameLink, NoTx
<1>5. CASE s.ldid = "SR_DATA" /\ s.udid = "M_IT"
  <2>1. u = NextIT(s)
    BY <1>5 DEF iec102_slave_seq, Silent
  <2> QED
    BY ZenonT(60), <1>5, <2>1, NextITType DEF Proper
<1>6. CASE s.ldid = "SR_DATA" /\ s.udid \in {"NR", "NT", "SYN"}
  <2>1. u = ActivConf(s)
    BY <1>6 DEF iec102_slave_seq, Silent
  <2>2. Mirror(s).kind = "SR_DATA"
    BY DEF Mirror, Data, NoTx
  <2> QED
    BY <2>1, <2>2, ActivConfType DEF NoTx
<1>7. CASE s.ldid = "SR_DATA" /\ s.udid \in {"XX", "NONE"}
  <2> DEFINE d == Data(s, s.last.type, "REFUSED")
             t == Put(s, d)
  <2>1. u = [t EXCEPT !.cseq = FALSE]
    BY <1>7 DEF iec102_slave_seq, Silent
  <2>2. d \in Transmissions /\ d.kind = "SR_DATA"
    <3>1. s.last.type \in Labels
      BY <1>1 DEF Sessions, Asdus, NoAsdu, Labels
    <3> QED
      BY <1>1, <3>1, AnswerTypes DEF Causes, Data, NoTx
  <2> HIDE DEF d
  <2>3. t \in Sessions /\ t.lasttx = d /\ t.last = s.last /\ SameLink(s, t)
    BY <1>1, <2>2, PutType DEF SameLink
  <2> HIDE DEF t
  <2>4. u \in Sessions /\ u.lasttx = d /\ u.last = s.last /\ SameLink(s, u)
    BY <2>1, <2>3 DEF SameLink, Sessions
  <2> QED
    BY <1>7, <2>2, <2>4 DEF Proper, SameLink, NoTx
<1>8. s.udid \in Silent \cup {"M_EI", "P_MP", "M_IT", "NR", "NT", "SYN", "XX", "NONE"}
  BY <1>1 DEF Labels, Types, Silent
<1> QED
  BY <1>2, <1>3, <1>4, <1>5, <1>6, <1>7, <1>8

-----------------------------------------------------------------------------
(* iec102_slave.                                                           *)

LEMMA CommandType ==
  ASSUME NEW s, Proper(s), NEW a \in Asdus
  PROVE  /\ Proper(Command(s, a))
         /\ Command(s, a).lctrl = s.lctrl /\ Command(s, a).commrun = s.commrun
         /\ Command(s, a).initind = s.initind /\ Command(s, a).eventind = s.eventind
         /\ Command(s, a).initflag = s.initflag
         /\ Command(s, a).cseq /\ Command(s, a).ldid \in {"SC_ACK", "ACK_E5"}
         /\ Command(s, a).last.type = a.type /\ Command(s, a).last.obj = a.obj
         /\ a.cause = ProperCause(a.type) => Command(s, a).last = a
         /\ Command(s, a).stampok /\ Command(s, a).lastsstamp = 0
         /\ a.type # "NC" => Command(s, a).itfrom = 0
<1> DEFINE l == IF a.cause = ProperCause(a.type) THEN a ELSE [a EXCEPT !.cause = "REFUSED"]
           d == IF a.type \in {"NC", "ND", "XX"} THEN "SC_ACK" ELSE "ACK_E5"
           k == IF a.type = "NC" /\ s.unfinished THEN Parts - 1 ELSE 0
<1>1. /\ l \in Asdus /\ l.type = a.type /\ l.obj = a.obj
      /\ a.cause = ProperCause(a.type) => l = a
  BY DEF Asdus, Causes
<1>2. /\ d \in Kinds \ {"NONE"} /\ d \in {"SC_ACK", "ACK_E5"}
      /\ k \in 0 .. Parts - 1 /\ (a.type # "NC" => k = 0)
  BY Numbers DEF Kinds
<1>3. Command(s, a) = [s EXCEPT !.ldid = d, !.cseq = TRUE, !.lastsstamp = 0, !.itfrom = k,
                                !.stampok = TRUE, !.last = l]
  BY DEF Command
<1> HIDE DEF l, d, k
<1>4. s \in Sessions
  BY DEF Proper
<1>5. Command(s, a) \in Sessions
  BY ZenonT(60), <1>1, <1>2, <1>3, <1>4, Numbers DEF Sessions
<1>6. /\ Command(s, a).lctrl = s.lctrl /\ Command(s, a).commrun = s.commrun
      /\ Command(s, a).initind = s.initind /\ Command(s, a).eventind = s.eventind
      /\ Command(s, a).initflag = s.initflag
      /\ Command(s, a).cseq /\ Command(s, a).ldid = d /\ Command(s, a).last = l
      /\ Command(s, a).stampok /\ Command(s, a).lastsstamp = 0 /\ Command(s, a).itfrom = k
  BY <1>3, <1>4 DEF Sessions
<1> QED
  BY <1>1, <1>2, <1>5, <1>6 DEF Proper

LEMMA DeactivateType ==
  ASSUME NEW s, Proper(s), NEW a \in Asdus
  PROVE  /\ Proper(Deactivate(s, a))
         /\ \/ Deactivate(s, a) = [s EXCEPT !.ldid = "SC_NACK"]
            \/ /\ s.cseq /\ Deactivates(s, a)
               /\ Deactivate(s, a) = [s EXCEPT !.ldid = "SC_ACK", !.last =
                                        [s.last EXCEPT !.cause = "DEACTIV_CON"]]
<1>1. CASE s.cseq /\ Deactivates(s, a)
  <2> DEFINE l == [s.last EXCEPT !.cause = "DEACTIV_CON"]
  <2>1. Deactivate(s, a) = [s EXCEPT !.ldid = "SC_ACK", !.last = l]
    BY <1>1 DEF Deactivate
  <2>2. s.last \in Asdus
    BY <1>1 DEF Deactivates, Proper, Sessions, Asdus, NoAsdu, Types
  <2>3. l \in Asdus
    BY <2>2 DEF Asdus, Causes
  <2> HIDE DEF l
  <2>4. Proper([s EXCEPT !.ldid = "SC_ACK", !.last = l])
    BY <2>3 DEF Proper, Sessions, Kinds
  <2> QED
    BY <1>1, <2>1, <2>4 DEF l
<1>2. CASE ~(s.cseq /\ Deactivates(s, a))
  <2>1. Deactivate(s, a) = [s EXCEPT !.ldid = "SC_NACK"]
    BY <1>2 DEF Deactivate
  <2> QED
    BY <2>1 DEF Proper, Sessions, Kinds
<1> QED
  BY <1>1, <1>2

(* The session that answers a poll for class 1 data.                       *)
LEMMA ProgressType ==
  ASSUME NEW s \in Sessions, s.ldid = "SR_DATA"
  PROVE  /\ Proper(Progress(s))
         /\ Progress(s).lctrl = s.lctrl /\ Progress(s).commrun = s.commrun
         /\ Progress(s).initind = s.initind /\ Progress(s).eventind = s.eventind
         /\ Progress(s).initflag = s.initflag
<1> DEFINE type    == s.last.type
           own     == [s EXCEPT !.udid = type]
           ends    == [s EXCEPT !.udid = type, !.cseq = FALSE]
           refused == [s.last EXCEPT !.cause = "REFUSED"]
           conf    == [s.last EXCEPT !.cause = "ACTIV_CON"]
<1>1. s \in Sessions /\ type \in Labels /\ type \notin {"M_IT", "P_MP", "M_EI", "M_SP"}
  BY DEF Sessions, Asdus, NoAsdu, Labels, Types
<1>2. type # "NONE" => /\ refused \in Asdus /\ refused.type = type
                       /\ conf \in Asdus /\ conf.type = type
  BY <1>1 DEF Sessions, Asdus, NoAsdu, Causes
<1>3. \/ type = "RD" /\ \E w \in {"P_MP", "RD"} : Progress(s) = [ends EXCEPT !.udid = w]
      \/ Progress(s) = ends \/ Progress(s) = own
      \/ type # "NONE" /\ Progress(s) = [ends EXCEPT !.last = refused]
      \/ type # "NONE" /\ Progress(s) = [own EXCEPT !.last = conf]
      \/ type = "NONE" /\ Progress(s) = [s EXCEPT !.ldid = "SR_NACK", !.cseq = FALSE]
      \/ type \in {"NA", "NC", "ND", "NR"} /\ Progress(s) = [s EXCEPT !.udid = "M_IT"]
  <2>1. /\ [Finish(s) EXCEPT !.last.cause = "REFUSED"] = [ends EXCEPT !.last = refused]
        /\ [Own(s) EXCEPT !.last.cause = "ACTIV_CON"] = [own EXCEPT !.last = conf]
        /\ Finish(s) = ends /\ Own(s) = own
    BY <1>1 DEF Finish, Own, Sessions
  <2> HIDE DEF refused, conf, ends, own
  <2>2. CASE type \in {"RD", "SYN", "NT", "NJ", "XX", "NONE"}
    BY <2>1, <2>2 DEF Progress
  <2>3. CASE type = "SP"
    BY <2>1, <2>3 DEF Progress
  <2>4. CASE type \in {"NA", "NC", "ND", "NR"}
    BY <2>1, <2>4 DEF Progress, CONFIRMED
  <2>5. type \in {"RD", "SYN", "NT", "NJ", "XX", "NONE", "SP", "NA", "NC", "ND", "NR"}
    BY <1>1 DEF Labels, Types
  <2> QED
    BY <2>2, <2>3, <2>4, <2>5
<1> HIDE DEF refused, conf, type
<1>4. /\ own \in Sessions /\ own.last = s.last /\ own.udid = type
      /\ ends \in Sessions /\ ends.last = s.last /\ ends.udid = type
      /\ \A t \in {own, ends} :
           /\ t.lctrl = s.lctrl /\ t.commrun = s.commrun /\ t.initind = s.initind
           /\ t.eventind = s.eventind /\ t.initflag = s.initflag
  BY <1>1 DEF Sessions
<1> HIDE DEF own, ends
<1>5. CASE Progress(s) = ends \/ Progress(s) = own
  BY <1>1, <1>4, <1>5 DEF Proper
<1>6. CASE type = "RD" /\ \E w \in {"P_MP", "RD"} : Progress(s) = [ends EXCEPT !.udid = w]
  BY <1>4, <1>6 DEF Proper, Sessions, Labels, Types
<1>7. CASE type # "NONE" /\ Progress(s) = [ends EXCEPT !.last = refused]
  BY <1>1, <1>2, <1>4, <1>7 DEF Proper, Sessions
<1>8. CASE type # "NONE" /\ Progress(s) = [own EXCEPT !.last = conf]
  BY <1>1, <1>2, <1>4, <1>8 DEF Proper, Sessions
<1>9. CASE type = "NONE" /\ Progress(s) = [s EXCEPT !.ldid = "SR_NACK", !.cseq = FALSE]
  BY <1>1, <1>9 DEF Proper, Sessions, Kinds
<1>10. CASE type \in {"NA", "NC", "ND", "NR"} /\ Progress(s) = [s EXCEPT !.udid = "M_IT"]
  BY <1>1, <1>10 DEF Proper, Sessions, Labels, type
<1> QED
  BY <1>3, <1>5, <1>6, <1>7, <1>8, <1>9, <1>10

(* What iec102_slave leaves alone: the frame count bit, and whether the    *)
(* link is up unless the frame sets it up.                                 *)
LEMMA SlaveType ==
  ASSUME NEW s, Proper(s), NEW f \in Frames, f.func = "PSC_DATA" => f.asdu \in Asdus
  PROVE  /\ Proper(iec102_slave(s, f))
         /\ iec102_slave(s, f).lctrl = s.lctrl
         /\ iec102_slave(s, f).commrun <=> (s.commrun \/ f.func = "PSC_RESLINK")
<1>1. s \in Sessions
  BY DEF Proper
<1>2. CASE f.func = "PSC_RESLINK"
  <2>1. iec102_slave(s, f) = ResetLink(s)
    BY <1>2 DEF iec102_slave
  <2> QED
    BY <1>1, <1>2, <2>1 DEF ResetLink, Proper, Sessions, Kinds
<1>3. CASE f.func = "PRR_LINKSTA"
  <2>1. iec102_slave(s, f) = LinkStatus(s)
    BY <1>3 DEF iec102_slave
  <2> QED
    BY <1>1, <1>3, <2>1 DEF LinkStatus, Proper, Sessions, Kinds
<1>4. CASE f.func = "PSC_DATA"
  <2>1. iec102_slave(s, f) = SendData(s, f.asdu) /\ f.asdu \in Asdus
    BY <1>4 DEF iec102_slave
  <2>2. CASE ~s.commrun
    BY <1>1, <1>4, <2>1, <2>2 DEF SendData
  <2>3. CASE s.commrun /\ f.asdu.cause = "DEACTIV"
    <3>1. SendData(s, f.asdu) = Deactivate(s, f.asdu)
      BY <2>3 DEF SendData
    <3> DEFINE r == Deactivate(s, f.asdu)
    <3>2. iec102_slave(s, f) = r
      BY <2>1, <3>1
    <3>3. Proper(r)
      BY <2>1, DeactivateType
    <3>4. \/ r = [s EXCEPT !.ldid = "SC_NACK"]
          \/ r = [s EXCEPT !.ldid = "SC_ACK", !.last = [s.last EXCEPT !.cause = "DEACTIV_CON"]]
      BY <2>1, DeactivateType
    <3> HIDE DEF r
    <3>5. r.lctrl = s.lctrl /\ r.commrun = s.commrun
      BY <1>1, <3>4 DEF Sessions
    <3> QED
      BY <1>4, <3>2, <3>3, <3>5
  <2>4. CASE s.commrun /\ f.asdu.cause # "DEACTIV" /\ s.cseq
    <3>1. SendData(s, f.asdu) = [s EXCEPT !.ldid = "SC_NACK"]
      BY <2>4 DEF SendData
    <3> QED
      BY <1>1, <1>4, <2>1, <3>1 DEF Proper, Sessions, Kinds
  <2>5. CASE s.commrun /\ f.asdu.cause # "DEACTIV" /\ ~s.cseq
    <3>1. SendData(s, f.asdu) = Command(s, f.asdu)
      BY <2>5 DEF SendData
    <3> QED
      BY <1>4, <2>1, <3>1, CommandType
  <2> QED
    BY <2>2, <2>3, <2>4, <2>5
<1>5. CASE f.func = "PRR_DATA1"
  <2> DEFINE d == [s EXCEPT !.ldid = "SR_DATA"]
  <2>1. iec102_slave(s, f) = Class1(s)
    BY <1>5 DEF iec102_slave
  <2>2. CASE ~s.commrun
    BY <1>1, <1>5, <2>1, <2>2 DEF Class1
  <2>3. CASE s.commrun /\ s.initind /\ s.initflag
    <3>1. Class1(s) = [d EXCEPT !.udid = "M_EI", !.eventind = FALSE]
      BY <2>3 DEF Class1
    <3>2. /\ Class1(s) \in Sessions /\ Class1(s).udid # "M_IT"
          /\ Class1(s).lctrl = s.lctrl /\ Class1(s).commrun = s.commrun
      BY <1>1, <3>1 DEF Sessions, Kinds, Labels
    <3> QED
      BY <1>5, <2>1, <3>2 DEF Proper
  <2>4. CASE s.commrun /\ ~(s.initind /\ s.initflag) /\ s.eventind
    <3>1. Class1(s) = [d EXCEPT !.udid = "M_SP"]
      BY <2>4 DEF Class1
    <3>2. /\ Class1(s) \in Sessions /\ Class1(s).udid # "M_IT"
          /\ Class1(s).lctrl = s.lctrl /\ Class1(s).commrun = s.commrun
      BY <1>1, <3>1 DEF Sessions, Kinds, Labels
    <3> QED
      BY <1>5, <2>1, <3>2 DEF Proper
  <2>5. CASE s.commrun /\ ~(s.initind /\ s.initflag) /\ ~s.eventind /\ ~s.cseq
    <3>1. Class1(s) = [s EXCEPT !.last = NoAsdu, !.ldid = "SR_NACK"]
      BY <2>5 DEF Class1
    <3>2. /\ Class1(s) \in Sessions /\ Class1(s).ldid # "SR_DATA"
          /\ Class1(s).lctrl = s.lctrl /\ Class1(s).commrun = s.commrun
      BY <1>1, <3>1 DEF Sessions, Kinds
    <3> QED
      BY <1>5, <2>1, <3>2 DEF Proper
  <2>6. CASE s.commrun /\ ~(s.initind /\ s.initflag) /\ ~s.eventind /\ s.cseq
    <3>1. Class1(s) = Progress(d)
      BY <2>6 DEF Class1
    <3>2. /\ d \in Sessions /\ d.ldid = "SR_DATA"
          /\ d.lctrl = s.lctrl /\ d.commrun = s.commrun
      BY <1>1 DEF Sessions, Kinds
    <3> HIDE DEF d
    <3> QED
      BY <1>5, <2>1, <3>1, <3>2, ProgressType
  <2> QED
    BY <2>2, <2>3, <2>4, <2>5, <2>6
<1>6. CASE f.func = "PRR_DATA2"
  <2>1. iec102_slave(s, f) = [s EXCEPT !.ldid = "SR_NACK"]
    BY <1>6 DEF iec102_slave
  <2> QED
    BY <1>1, <1>6, <2>1 DEF Proper, Sessions, Kinds
<1> QED
  BY <1>2, <1>3, <1>4, <1>5, <1>6 DEF Frames, Functions102

-----------------------------------------------------------------------------
(* One frame.                                                              *)

LEMMA CountedType ==
  ASSUME NEW s, Proper(s), NEW f \in Frames
  PROVE  /\ Proper(Counted(s, f))
         /\ Counted(s, f).lctrl = IF Fcv(f) THEN f.fcb
                                  ELSE IF f.func = "PSC_RESLINK" THEN 0 ELSE s.lctrl
         /\ \A x \in {"commrun", "initind", "eventind", "initflag", "cseq", "ldid", "udid",
                      "last", "lastsstamp", "itfrom", "stampok", "unfinished", "lasttx"} :
              Counted(s, f)[x] = s[x]
<1> DEFINE bit == IF Fcv(f) THEN f.fcb ELSE IF f.func = "PSC_RESLINK" THEN 0 ELSE s.lctrl
<1>1. Counted(s, f) = [s EXCEPT !.lctrl = bit]
  BY DEF Counted
<1>2. bit \in 0 .. 1
  BY DEF Proper, Sessions, Frames
<1> HIDE DEF bit
<1>3. /\ Counted(s, f) \in Sessions /\ Counted(s, f).lctrl = bit
      /\ \A x \in {"commrun", "initind", "eventind", "initflag", "cseq", "ldid", "udid",
                   "last", "lastsstamp", "itfrom", "stampok", "unfinished", "lasttx"} :
           Counted(s, f)[x] = s[x]
  BY <1>1, <1>2 DEF Proper, Sessions
<1> QED
  BY <1>3 DEF Proper, bit

LEMMA ProcessType ==
  ASSUME NEW s, Proper(s), NEW f \in Frames, f.func = "PSC_DATA" => f.asdu \in Asdus
  PROVE  /\ Proper(Process(s, f).session)
         /\ Process(s, f).tx \in Transmissions
         /\ Process(s, f).session.lctrl = IF Fcv(f) THEN f.fcb
                                          ELSE IF f.func = "PSC_RESLINK" THEN 0 ELSE s.lctrl
         /\ Process(s, f).session.commrun <=> (s.commrun \/ f.func = "PSC_RESLINK")
<1> DEFINE t == FrameProcess(s, f)
           u == iec102_slave_seq(t)
           c == Counted(s, f)
<1>1. /\ Process(s, f).session = u
      /\ Process(s, f).tx = u.lasttx \/ Process(s, f).tx = s.lasttx \/ Process(s, f).tx = NoTx
  BY DEF Process
<1>2. /\ Proper(c) /\ c.commrun = s.commrun
      /\ c.lctrl = IF Fcv(f) THEN f.fcb ELSE IF f.func = "PSC_RESLINK" THEN 0 ELSE s.lctrl
  BY CountedType
<1>3. /\ Proper(t) /\ t.lctrl = c.lctrl
      /\ t.commrun <=> (s.commrun \/ f.func = "PSC_RESLINK")
  <2>1. CASE Indicated(s, f)
    <3>1. t = iec102_slave(c, f)
      BY <2>1 DEF FrameProcess
    <3> QED
      BY <1>2, <3>1, SlaveType
  <2>2. CASE ~Indicated(s, f)
    <3>1. t = s /\ Fcv(f) /\ f.fcb = s.lctrl
      BY <2>2 DEF FrameProcess, Indicated, Repeated
    <3> QED
      BY <1>2, <3>1 DEF Fcv
  <2> QED
    BY <2>1, <2>2
<1>4. Proper(u) /\ u.lctrl = t.lctrl /\ u.commrun = t.commrun
  BY <1>3, SequenceType DEF SameLink
<1>5. u.lasttx \in Transmissions /\ s.lasttx \in Transmissions
  BY <1>4 DEF Proper, Sessions
<1> HIDE DEF u, t, c
<1> QED
  BY <1>1, <1>2, <1>3, <1>4, <1>5, NoTxType

LEMMA GarbageType ==
  ASSUME NEW s, Proper(s)
  PROVE  Proper(ProcessGarbage(s).session) /\ ProcessGarbage(s).tx \in Transmissions
<1> DEFINE u == iec102_slave_seq(s)
<1>1. /\ ProcessGarbage(s).session = u
      /\ ProcessGarbage(s).tx = u.lasttx \/ ProcessGarbage(s).tx = NoTx
  BY DEF ProcessGarbage
<1>2. Proper(u)
  BY SequenceType
<1>3. u.lasttx \in Transmissions
  BY <1>2 DEF Proper, Sessions
<1> QED
  BY <1>1, <1>2, <1>3, NoTxType

-----------------------------------------------------------------------------
(* Every step keeps what both sides have of its type.                      *)

LEMMA FrameAsdu ==
  ASSUME Typed, frame # NoFrame
  PROVE  frame \in Frames /\ (frame.func = "PSC_DATA" => frame.asdu \in Asdus)
<1>1. frame \in Frames /\ trouble \in Troubles
  BY DEF Typed
<1>2. ASSUME frame.func = "PSC_DATA" PROVE frame.asdu \in Asdus
  <2>1. CASE frame.asdu.cause = "DEACTIV"
    BY <1>1, <2>1 DEF Frames, NoAsdu
  <2>2. CASE frame.asdu.cause # "DEACTIV"
    BY <1>1, <1>2, <2>2, SessionAssumption DEF Typed
  <2> QED
    BY <2>1, <2>2
<1> QED
  BY <1>1, <1>2

LEMMA TypedInit == Init => Typed
<1> SUFFICES ASSUME Init PROVE Typed
  OBVIOUS
<1>1. /\ trouble \in Troubles /\ session = NewSession /\ frame = NoFrame /\ inflight = FALSE
      /\ answer = NoTx /\ fcb = 0 /\ linked = FALSE /\ cmd = NoAsdu /\ stage = "none"
      /\ log = <<>> /\ acd = FALSE
  BY DEF Init
<1>2. log \in Seq(Blocks) /\ fcb \in 0 .. 1
  BY <1>1
<1>3. frame.func # "PSC_DATA"
  BY <1>1, NoFrameFields
<1> QED
  BY <1>1, <1>2, <1>3, NewSessionType, NoTxType DEF Typed, Stages

LEMMA SendTyped ==
  ASSUME Typed, NEW func \in Functions102, NEW bit \in 0 .. 1, NEW a \in Asdus \cup {NoAsdu},
         Send(func, bit, a), func = "PSC_DATA" /\ a.cause # "DEACTIV" => a \in Commands[trouble],
         linked' \in BOOLEAN, acd' \in BOOLEAN, cmd' \in {cmd, NoAsdu}, stage' \in Stages,
         log' \in {log, <<>>}
  PROVE  Typed'
<1> DEFINE f == [func |-> func, fcb |-> bit, asdu |-> a]
<1>1. /\ frame = NoFrame /\ frame' = f /\ fcb' = bit /\ inflight' = TRUE
      /\ trouble' = trouble /\ session' = session /\ answer' = answer
  BY DEF Send
<1>2. f \in Frames /\ f.func = func /\ f.asdu = a
  BY DEF Frames
<1>3. f # NoFrame
  BY <1>2, NoFrameFields
<1>4. answer = NoTx
  BY <1>1 DEF Typed
<1>5. log' \in Seq(Blocks)
  <2>1. CASE log' = log
    BY <2>1 DEF Typed
  <2>2. CASE log' = <<>>
    BY <2>2
  <2> QED
    BY <2>1, <2>2
<1> HIDE DEF f
<1> QED
  BY <1>1, <1>2, <1>3, <1>4, <1>5 DEF Typed

LEMMA StageType == ASSUME stage \in Stages, NEW tx PROVE StageAfter(tx) \in Stages
BY DEF StageAfter, Stages

LEMMA TypedStep == Typed /\ [Next]_vars => Typed'
<1> SUFFICES ASSUME Typed, [Next]_vars PROVE Typed'
  OBVIOUS
<1>1. /\ linked \in BOOLEAN /\ acd \in BOOLEAN /\ stage \in Stages /\ fcb \in 0 .. 1
      /\ cmd \in {cmd, NoAsdu} /\ log \in {log, <<>>}
  BY DEF Typed
<1>2. "none" \in Stages /\ NoAsdu \in Asdus \cup {NoAsdu} /\ FALSE \in BOOLEAN
      /\ fcb \in 0 .. 1 /\ 1 - fcb \in 0 .. 1 /\ 0 \in 0 .. 1
  BY <1>1 DEF Stages
<1>3. Functions102 = {"PSC_RESLINK", "PRR_LINKSTA", "PSC_DATA", "PRR_DATA1", "PRR_DATA2"}
  BY DEF Functions102
<1>4. CASE SendReset
  <2>1. /\ Send("PSC_RESLINK", 0, NoAsdu) /\ linked' = FALSE /\ acd' = FALSE
        /\ cmd' = NoAsdu /\ stage' = "none" /\ log' = <<>>
    BY <1>4 DEF SendReset, Forgotten
  <2> QED
    BY <1>1, <1>2, <1>3, <2>1, SendTyped
<1>5. CASE SendLinkStatus
  <2>1. /\ Send("PRR_LINKSTA", fcb, NoAsdu) /\ linked' = linked /\ acd' = FALSE
        /\ cmd' = NoAsdu /\ stage' = "none" /\ log' = <<>>
    BY <1>5 DEF SendLinkStatus, Forgotten
  <2> QED
    BY <1>1, <1>2, <1>3, <2>1, SendTyped
<1>6. ASSUME NEW a \in Commands[trouble], SendCommand(a) PROVE Typed'
  <2>1. /\ Send("PSC_DATA", 1 - fcb, a) /\ linked' = linked /\ acd' = acd
        /\ cmd' = cmd /\ stage' = stage /\ log' = log
    BY <1>6 DEF SendCommand, known
  <2>2. a \in Asdus
    BY <1>6, SessionAssumption DEF Typed
  <2> QED
    BY <1>1, <1>2, <1>3, <2>1, <2>2, SendTyped
<1>7. CASE SendDeactivate
  <2> DEFINE a == [cmd EXCEPT !.cause = "DEACTIV"]
  <2>1. /\ Send("PSC_DATA", 1 - fcb, a) /\ linked' = linked /\ acd' = acd
        /\ cmd' = cmd /\ stage' = stage /\ log' = log
    BY <1>7 DEF SendDeactivate, known
  <2>2. cmd \in Asdus
    <3>1. cmd.type \in Types
      BY <1>7, SessionAssumption DEF SendDeactivate, Typed
    <3>2. cmd # NoAsdu
      BY <3>1 DEF Types, NoAsdu
    <3> QED
      BY <3>2, SessionAssumption DEF Typed
  <2>3. a \in Asdus /\ a.cause = "DEACTIV"
    BY <2>2 DEF Asdus, Causes
  <2> HIDE DEF a
  <2> QED
    BY <1>1, <1>2, <1>3, <2>1, <2>3, SendTyped
<1>8. CASE SendPoll
  <2>1. /\ Send("PRR_DATA1", 1 - fcb, NoAsdu) /\ linked' = linked /\ acd' = acd
        /\ cmd' = cmd /\ stage' = stage /\ log' = log
    BY <1>8 DEF SendPoll, known
  <2> QED
    BY <1>1, <1>2, <1>3, <2>1, SendTyped
<1>9. CASE SendPoll2
  <2>1. /\ Send("PRR_DATA2", 1 - fcb, NoAsdu) /\ linked' = linked /\ acd' = acd
        /\ cmd' = cmd /\ stage' = stage /\ log' = log
    BY <1>9 DEF SendPoll2, known
  <2> QED
    BY <1>1, <1>2, <1>3, <2>1, SendTyped
<1>10. CASE Repeat
  <2>1. /\ frame # NoFrame /\ answer' = NoTx /\ inflight' = TRUE /\ trouble' = trouble
        /\ session' = session /\ frame' = frame /\ fcb' = fcb /\ linked' = linked
        /\ cmd' = cmd /\ stage' = stage /\ log' = log /\ acd' = acd
    BY <1>10 DEF Repeat, InVain, known
  <2> QED
    BY <2>1, NoTxType DEF Typed
<1>11. CASE GiveUp
  <2>1. /\ ~inflight /\ answer' = NoTx /\ inflight' = inflight /\ trouble' = trouble
        /\ session' = session /\ frame' = NoFrame /\ fcb' = fcb /\ linked' = FALSE
        /\ cmd' = NoAsdu /\ stage' = "none" /\ log' = <<>> /\ acd' = FALSE
    BY <1>11 DEF GiveUp, InVain, Forgotten
  <2>2. log' \in Seq(Blocks)
    BY <2>1
  <2> QED
    BY <1>2, <2>1, <2>2, NoTxType, NoFrameFields DEF Typed
<1>12. CASE Receive
  <2>1. /\ frame # NoFrame /\ answer # NoTx /\ answer' = NoTx /\ inflight' = inflight
        /\ trouble' = trouble /\ session' = session /\ frame' = NoFrame /\ fcb' = fcb
        /\ acd' = acd \/ acd' = answer.acd
        /\ linked' = (linked \/ (frame.func = "PSC_RESLINK" /\ Acknowledged))
    BY <1>12 DEF Receive
  <2>2. acd' \in BOOLEAN /\ linked' \in BOOLEAN
    BY <1>1, <2>1 DEF Typed, Transmissions
  <2>3. stage' \in Stages
    <3>1. stage' \in {stage, "cancelling", "accepted", StageAfter(answer)}
      BY <1>12 DEF Receive
    <3> QED
      BY <1>1, <3>1, StageType DEF Stages
  <2>4. cmd' \in Commands[trouble] \cup {NoAsdu}
    <3>1. \/ cmd' = cmd
          \/ frame.func = "PSC_DATA" /\ frame.asdu.cause # "DEACTIV" /\ cmd' = frame.asdu
      BY <1>12 DEF Receive
    <3> QED
      BY <3>1 DEF Typed
  <2>5. log' \in Seq(Blocks)
    <3>1. \/ log' = log \/ log' = <<>>
          \/ answer.block # NoBlock /\ log' = Append(log, answer.block)
      BY <1>12 DEF Receive
    <3>2. log \in Seq(Blocks) /\ answer.block \in Blocks \cup {NoBlock}
      BY DEF Typed, Transmissions
    <3>3. CASE log' = log
      BY <3>2, <3>3
    <3>4. CASE log' = <<>>
      BY <3>4
    <3>5. CASE answer.block # NoBlock /\ log' = Append(log, answer.block)
      <4>1. answer.block \in Blocks
        BY <3>2, <3>5
      <4> QED
        BY <3>2, <3>5, <4>1
    <3> QED
      BY <3>1, <3>3, <3>4, <3>5
  <2>6. ~inflight
    BY <2>1 DEF Typed
  <2> QED
    BY <2>1, <2>2, <2>3, <2>4, <2>5, <2>6, NoTxType, NoFrameFields DEF Typed
<1>13. CASE SlaveTurn
  <2>1. /\ inflight /\ inflight' = FALSE /\ trouble' = trouble /\ frame' = frame
        /\ session' = Process(session, frame).session /\ answer' = Process(session, frame).tx
        /\ fcb' = fcb /\ linked' = linked /\ cmd' = cmd /\ stage' = stage /\ log' = log
        /\ acd' = acd
    BY <1>13 DEF SlaveTurn, known
  <2>2. frame # NoFrame /\ Proper(session)
    BY <2>1 DEF Typed
  <2>3. Proper(session') /\ answer' \in Transmissions
    BY <2>1, <2>2, FrameAsdu, ProcessType
  <2> QED
    BY <2>1, <2>2, <2>3 DEF Typed
<1>14. CASE SlaveTurnSplit
  <2>1. /\ inflight /\ inflight' = FALSE /\ trouble' = trouble /\ frame' = frame
        /\ session' = ProcessGarbage(session).session
        /\ answer' = ProcessGarbage(session).tx
        /\ fcb' = fcb /\ linked' = linked /\ cmd' = cmd /\ stage' = stage /\ log' = log
        /\ acd' = acd
    BY <1>14 DEF SlaveTurnSplit, known
  <2>2. frame # NoFrame /\ Proper(session)
    BY <2>1 DEF Typed
  <2>3. Proper(session') /\ answer' \in Transmissions
    BY <2>1, <2>2, GarbageType
  <2> QED
    BY <2>1, <2>2, <2>3 DEF Typed
<1>15. CASE UNCHANGED vars
  <2>1. /\ trouble' = trouble /\ session' = session /\ frame' = frame /\ inflight' = inflight
        /\ answer' = answer /\ fcb' = fcb /\ linked' = linked /\ cmd' = cmd /\ stage' = stage
        /\ log' = log /\ acd' = acd
    BY <1>15 DEF vars, link, known
  <2> QED
    BY <2>1 DEF Typed
<1> QED
  BY <1>4, <1>5, <1>6, <1>7, <1>8, <1>9, <1>10, <1>11, <1>12, <1>13, <1>14, <1>15 DEF Next, Slave

LEMMA TypedHolds == Spec => []Typed
BY TypedInit, TypedStep, PTL DEF Spec

(* The session, the frames and what the master keeps are of their types    *)
(* whatever the link: the cursor of the totals (lastsstamp, itfrom) stays  *)
(* inside the periods and the parts of a period (iec102_put_ALL_IT,        *)
(* IEC102protocol.c:1299).                                                 *)
THEOREM SessionTypes == Spec => []TypeOK
<1>1. Typed => TypeOK
  <2> SUFFICES ASSUME Typed PROVE TypeOK
    OBVIOUS
  <2>1. frame.asdu \in Asdus \cup {NoAsdu}
    BY DEF Typed, Frames, NoFrame
  <2> QED
    BY <2>1 DEF Typed, TypeOK, Proper, Sessions
<1> QED
  BY <1>1, TypedHolds, PTL

-----------------------------------------------------------------------------
(* The frame count bit.                                                    *)

(* An answer of the link layer changes nothing but lasttx.                 *)
LEMMA ShortTurn ==
  ASSUME NEW s, Proper(s), s.ldid # "SR_DATA"
  PROVE  LET u == iec102_slave_seq(s) IN
         /\ Answers(s) /\ u = Put(s, Short(s)) /\ u.lasttx = Short(s)
         /\ Short(s).kind = s.ldid /\ Short(s).type = "NONE" /\ Short(s).cause = "NONE"
         /\ Short(s).block = NoBlock /\ Short(s) # NoTx
         /\ \A x \in {"lctrl", "commrun", "initind", "eventind", "initflag", "cseq", "ldid",
                      "udid", "last", "lastsstamp", "itfrom", "stampok", "unfinished"} :
              u[x] = s[x]
<1> DEFINE u == iec102_slave_seq(s)
<1>1. Answers(s) /\ u = Put(s, Short(s))
  BY DEF iec102_slave_seq, Answers
<1>2. /\ Short(s).kind = s.ldid /\ Short(s).type = "NONE" /\ Short(s).cause = "NONE"
      /\ Short(s).block = NoBlock
  BY DEF Short, NoTx
<1>3. s.ldid # "NONE" /\ s \in Sessions
  BY DEF Proper, Sessions
<1>4. Short(s) # NoTx
  BY <1>2, <1>3 DEF NoTx
<1>5. /\ u.lasttx = Short(s)
      /\ \A x \in {"lctrl", "commrun", "initind", "eventind", "initflag", "cseq", "ldid",
                   "udid", "last", "lastsstamp", "itfrom", "stampok", "unfinished"} :
           u[x] = s[x]
  <2>1. Short(s) \in Transmissions
    BY <1>3, AnswerTypes
  <2> HIDE DEF u
  <2> QED
    BY <1>1, <1>3, <2>1, PutType
<1> QED
  BY <1>1, <1>2, <1>4, <1>5

(* The slave's turn with a command: a new one is begun, or refused because *)
(* another is running; one that is repeated while it runs is acknowledged  *)
(* as it was before.                                                       *)
LEMMA CommandTurn ==
  ASSUME NEW s, Proper(s), s.commrun, NEW f \in Frames, f.func = "PSC_DATA",
         f.asdu \in Asdus, f.asdu.cause # "DEACTIV",
         Repeated(s, f) => s.cseq /\ s.ldid \in {"SC_ACK", "ACK_E5", "SC_NACK"}
  PROVE  \E t :
           /\ Proper(t) /\ t.ldid \in {"SC_ACK", "ACK_E5", "SC_NACK"}
           /\ Process(s, f).session = iec102_slave_seq(t)
           /\ Process(s, f).tx = Process(s, f).session.lasttx
           /\ Repeated(s, f) => t = s
           /\ ~Repeated(s, f) /\ s.cseq => t = [Counted(s, f) EXCEPT !.ldid = "SC_NACK"]
           /\ ~Repeated(s, f) /\ ~s.cseq => t = Command(Counted(s, f), f.asdu)
<1> DEFINE c == Counted(s, f)
           t == FrameProcess(s, f)
<1>1. Process(s, f).session = iec102_slave_seq(t)
  BY DEF Process
<1>2. Answers(t) => Process(s, f).tx = Process(s, f).session.lasttx
  BY DEF Process
<1>3. Proper(c) /\ c.commrun = s.commrun /\ c.cseq = s.cseq
  BY CountedType
<1>4. CASE Repeated(s, f)
  <2>1. t = s
    BY <1>4 DEF FrameProcess, Indicated
  <2>2. Answers(t)
    BY <1>4, <2>1 DEF Answers
  <2> QED
    BY <1>1, <1>2, <1>4, <2>1, <2>2
<1>5. CASE ~Repeated(s, f)
  <2>1. t = SendData(c, f.asdu)
    BY <1>5 DEF FrameProcess, Indicated, iec102_slave
  <2>2. CASE s.cseq
    <3>1. t = [c EXCEPT !.ldid = "SC_NACK"]
      BY <1>3, <2>1, <2>2 DEF SendData
    <3>2. c \in Sessions
      BY <1>3 DEF Proper
    <3> HIDE DEF c, t
    <3>3. Proper(t) /\ t.ldid = "SC_NACK"
      BY <3>1, <3>2 DEF Proper, Sessions, Kinds
    <3>4. Answers(t)
      BY <3>3 DEF Answers
    <3> QED
      BY <1>1, <1>2, <1>5, <2>2, <3>1, <3>3, <3>4 DEF c
  <2>3. CASE ~s.cseq
    <3>1. t = Command(c, f.asdu)
      BY <1>3, <2>1, <2>3 DEF SendData
    <3> HIDE DEF c, t
    <3>2. Proper(t) /\ t.ldid \in {"SC_ACK", "ACK_E5"}
      BY <1>3, <3>1, CommandType
    <3>3. Answers(t)
      BY <3>2 DEF Answers
    <3> QED
      BY <1>1, <1>2, <1>5, <2>3, <3>1, <3>2, <3>3 DEF c
  <2> QED
    BY <2>2, <2>3
<1> QED
  BY <1>4, <1>5

LEMMA CountInit == Init => CountTrue
<1> SUFFICES ASSUME Init PROVE CountTrue
  OBVIOUS
<1>1. /\ frame = NoFrame /\ linked = FALSE /\ cmd = NoAsdu /\ stage = "none" /\ log = <<>>
  BY DEF Init
<1> QED
  BY <1>1, NoFrameFields DEF CountTrue

(* A new frame of a kind that carries a bit carries the other one.         *)
LEMMA SendCount ==
  ASSUME Typed, CountTrue, trouble # "split",
         NEW func \in Functions102, NEW bit, NEW a, Send(func, bit, a),
         \/ linked /\ linked' = linked /\ bit = 1 - fcb
            /\ cmd' = cmd /\ stage' = stage /\ log' = log
            /\ func \in {"PSC_DATA", "PRR_DATA1", "PRR_DATA2"}
         \/ func = "PSC_RESLINK" /\ bit = 0 /\ linked' = FALSE
            /\ cmd' = NoAsdu /\ stage' = "none" /\ log' = <<>>
         \/ func = "PRR_LINKSTA" /\ ~linked /\ linked' = FALSE
            /\ cmd' = NoAsdu /\ stage' = "none" /\ log' = <<>>
  PROVE  CountTrue'
<1> DEFINE f == [func |-> func, fcb |-> bit, asdu |-> a]
<1>1. /\ frame = NoFrame /\ frame' = f /\ fcb' = bit /\ inflight' = TRUE
      /\ trouble' = trouble /\ session' = session /\ answer' = answer
  BY DEF Send
<1>2. f.func = func /\ f.fcb = bit /\ (Fcv(f) <=> func \in {"PSC_DATA", "PRR_DATA1", "PRR_DATA2"})
  BY DEF Fcv
<1>3. linked => session.commrun /\ session.lctrl = fcb /\ fcb \in 0 .. 1
  BY <1>1 DEF Typed, CountTrue
<1>4. func # "NONE" /\ NoFrame.func = "NONE"
  BY DEF Functions102, NoFrame
<1>5. f # NoFrame
  BY <1>2, <1>4
<1> HIDE DEF f
<1>6. CASE linked /\ linked' = linked /\ bit = 1 - fcb /\ cmd' = cmd /\ stage' = stage
           /\ log' = log /\ func \in {"PSC_DATA", "PRR_DATA1", "PRR_DATA2"}
  <2>1. session.lctrl # bit
    BY <1>3, <1>6
  <2> QED
    BY <1>1, <1>2, <1>3, <1>5, <1>6, <2>1 DEF CountTrue
<1>7. CASE ~linked' /\ func \in {"PSC_RESLINK", "PRR_LINKSTA"}
           /\ cmd' = NoAsdu /\ stage' = "none" /\ log' = <<>>
           /\ (func = "PSC_RESLINK" => bit = 0)
  BY <1>1, <1>2, <1>5, <1>7 DEF CountTrue
<1> QED
  BY <1>6, <1>7

LEMMA ReceiveCount == Typed /\ CountTrue /\ trouble # "split" /\ Receive => CountTrue'
<1> SUFFICES ASSUME Typed, CountTrue, trouble # "split", Receive PROVE CountTrue'
  OBVIOUS
<1>1. /\ frame # NoFrame /\ answer # NoTx /\ inflight' = inflight /\ trouble' = trouble
      /\ session' = session /\ frame' = NoFrame /\ fcb' = fcb
      /\ linked' = (linked \/ (frame.func = "PSC_RESLINK" /\ Acknowledged))
      /\ ~Fcv(frame) => cmd' = cmd /\ stage' = stage /\ log' = log
  BY DEF Receive, Fcv
<1>2. ~inflight /\ linked \in BOOLEAN
  BY <1>1 DEF Typed
<1>3. linked' => session.commrun /\ session.lctrl = fcb
  <2>1. CASE linked
    BY <1>1, <1>2, <2>1 DEF CountTrue
  <2>2. CASE frame.func = "PSC_RESLINK"
    BY <1>1, <1>2, <2>2 DEF CountTrue
  <2> QED
    BY <1>1, <2>1, <2>2
<1>4. ~linked' => cmd' = NoAsdu /\ stage' = "none" /\ log' = <<>>
  BY <1>1 DEF CountTrue
<1> QED
  BY <1>1, <1>3, <1>4, NoFrameFields DEF CountTrue

LEMMA TurnCount == Typed /\ CountTrue /\ trouble # "split" /\ SlaveTurn => CountTrue'
<1> SUFFICES ASSUME Typed, CountTrue, trouble # "split", SlaveTurn PROVE CountTrue'
  OBVIOUS
<1> DEFINE u == Process(session, frame).session
<1>1. /\ inflight /\ inflight' = FALSE /\ session' = u
      /\ answer' = Process(session, frame).tx
      /\ trouble' = trouble /\ frame' = frame /\ fcb' = fcb /\ linked' = linked
      /\ cmd' = cmd /\ stage' = stage /\ log' = log
  BY DEF SlaveTurn, known
<1>2. /\ frame # NoFrame /\ Proper(session) /\ frame \in Frames
      /\ frame.func = "PSC_DATA" => frame.asdu \in Asdus
  BY <1>1, FrameAsdu DEF Typed
<1>3. frame.fcb = fcb /\ (Fcv(frame) <=> linked) /\ (linked => session.commrun)
  BY <1>2 DEF CountTrue
<1>4. /\ u.lctrl = IF Fcv(frame) THEN frame.fcb
                   ELSE IF frame.func = "PSC_RESLINK" THEN 0 ELSE session.lctrl
      /\ u.commrun <=> (session.commrun \/ frame.func = "PSC_RESLINK")
  BY <1>2, ProcessType
<1>5. ASSUME frame.func = "PSC_DATA", frame.asdu.cause # "DEACTIV"
      PROVE  /\ u.cseq /\ u.lasttx.kind = u.ldid /\ answer' = u.lasttx
             /\ \/ u.ldid = "SC_NACK"
                \/ u.ldid \in {"SC_ACK", "ACK_E5"} /\ u.last.type = frame.asdu.type
  <2>1. session.commrun
    BY <1>3, <1>5 DEF Fcv
  <2>2. Repeated(session, frame) =>
          /\ session.cseq
          /\ \/ session.ldid = "SC_NACK"
             \/ /\ session.ldid \in {"SC_ACK", "ACK_E5"}
                /\ session.last.type = frame.asdu.type
    BY <1>3, <1>5 DEF Repeated, CountTrue
  <2>3. PICK t : /\ Proper(t) /\ t.ldid \in {"SC_ACK", "ACK_E5", "SC_NACK"}
                 /\ u = iec102_slave_seq(t) /\ Process(session, frame).tx = u.lasttx
                 /\ Repeated(session, frame) => t = session
                 /\ ~Repeated(session, frame) /\ session.cseq =>
                      t = [Counted(session, frame) EXCEPT !.ldid = "SC_NACK"]
                 /\ ~Repeated(session, frame) /\ ~session.cseq =>
                      t = Command(Counted(session, frame), frame.asdu)
    BY <1>2, <1>5, <2>1, <2>2, CommandTurn
  <2>4. /\ t.cseq
        /\ \/ t.ldid = "SC_NACK"
           \/ t.ldid \in {"SC_ACK", "ACK_E5"} /\ t.last.type = frame.asdu.type
    <3>1. CASE Repeated(session, frame)
      BY <2>2, <2>3, <3>1
    <3>2. CASE ~Repeated(session, frame) /\ session.cseq
      <4>1. /\ Counted(session, frame) \in Sessions
            /\ Counted(session, frame).cseq = session.cseq
        BY <1>2, CountedType DEF Proper
      <4> QED
        BY <2>3, <3>2, <4>1 DEF Sessions
    <3>3. CASE ~Repeated(session, frame) /\ ~session.cseq
      <4>1. Proper(Counted(session, frame)) /\ frame.asdu \in Asdus
        BY <1>2, <1>5, CountedType
      <4> QED
        BY <2>3, <3>3, <4>1, CommandType
    <3> QED
      BY <3>1, <3>2, <3>3
  <2>5. u.lasttx = Short(t) /\ Short(t).kind = t.ldid /\ u.cseq = t.cseq
        /\ u.ldid = t.ldid /\ u.last = t.last
    BY <2>3, ShortTurn
  <2> HIDE DEF u
  <2> QED
    BY <1>1, <2>3, <2>4, <2>5
<1> HIDE DEF u
<1>6. CASE frame.func = "PSC_DATA" /\ frame.asdu.cause # "DEACTIV"
  BY <1>1, <1>2, <1>3, <1>4, <1>5, <1>6 DEF CountTrue
<1>7. CASE ~(frame.func = "PSC_DATA" /\ frame.asdu.cause # "DEACTIV")
  BY <1>1, <1>2, <1>3, <1>4, <1>7 DEF CountTrue
<1> QED
  BY <1>6, <1>7

LEMMA CountStep == Typed /\ CountTrue /\ [Next]_vars => CountTrue'
<1> SUFFICES ASSUME Typed, CountTrue, [Next]_vars PROVE CountTrue'
  OBVIOUS
<1>1. trouble' = trouble
  BY DEF Next, SendReset, SendLinkStatus, SendCommand, SendDeactivate, SendPoll, SendPoll2,
         Send, Repeat, GiveUp, Receive, Slave, SlaveTurn, SlaveTurnSplit, vars, link
<1>2. CASE trouble = "split"
  BY <1>1, <1>2 DEF CountTrue
<1> SUFFICES ASSUME trouble # "split" PROVE CountTrue'
  BY <1>2
<1>3. Functions102 = {"PSC_RESLINK", "PRR_LINKSTA", "PSC_DATA", "PRR_DATA1", "PRR_DATA2"}
  BY DEF Functions102
<1>4. CASE SendReset
  <2>1. /\ Send("PSC_RESLINK", 0, NoAsdu) /\ linked' = FALSE
        /\ cmd' = NoAsdu /\ stage' = "none" /\ log' = <<>>
    BY <1>4 DEF SendReset, Forgotten
  <2> QED
    BY <1>3, <2>1, SendCount
<1>5. CASE SendLinkStatus
  <2>1. /\ Send("PRR_LINKSTA", fcb, NoAsdu) /\ ~linked /\ linked' = FALSE
        /\ cmd' = NoAsdu /\ stage' = "none" /\ log' = <<>>
    BY <1>5 DEF SendLinkStatus, Forgotten, Typed
  <2> QED
    BY <1>3, <2>1, SendCount
<1>6. ASSUME NEW a \in Commands[trouble], SendCommand(a) PROVE CountTrue'
  <2>1. /\ Send("PSC_DATA", 1 - fcb, a) /\ linked /\ linked' = linked
        /\ cmd' = cmd /\ stage' = stage /\ log' = log
    BY <1>6 DEF SendCommand, known
  <2> QED
    BY <1>3, <2>1, SendCount
<1>7. CASE SendDeactivate
  <2>1. /\ Send("PSC_DATA", 1 - fcb, [cmd EXCEPT !.cause = "DEACTIV"])
        /\ linked /\ linked' = linked /\ cmd' = cmd /\ stage' = stage /\ log' = log
    BY <1>7 DEF SendDeactivate, known
  <2> QED
    BY <1>3, <2>1, SendCount
<1>8. CASE SendPoll
  <2>1. /\ Send("PRR_DATA1", 1 - fcb, NoAsdu)
        /\ linked /\ linked' = linked /\ cmd' = cmd /\ stage' = stage /\ log' = log
    BY <1>8 DEF SendPoll, known
  <2> QED
    BY <1>3, <2>1, SendCount
<1>9. CASE SendPoll2
  <2>1. /\ Send("PRR_DATA2", 1 - fcb, NoAsdu)
        /\ linked /\ linked' = linked /\ cmd' = cmd /\ stage' = stage /\ log' = log
    BY <1>9 DEF SendPoll2, known
  <2> QED
    BY <1>3, <2>1, SendCount
<1>10. CASE Repeat
  <2>1. /\ answer' = NoTx /\ inflight' = TRUE /\ session' = session /\ frame' = frame
        /\ fcb' = fcb /\ linked' = linked /\ cmd' = cmd /\ stage' = stage /\ log' = log
    BY <1>10 DEF Repeat, InVain, known
  <2> QED
    BY <1>1, <2>1 DEF CountTrue
<1>11. CASE GiveUp
  <2>1. /\ frame' = NoFrame /\ linked' = FALSE
        /\ cmd' = NoAsdu /\ stage' = "none" /\ log' = <<>>
    BY <1>11 DEF GiveUp, Forgotten
  <2> QED
    BY <2>1, NoFrameFields DEF CountTrue
<1>12. CASE Receive
  BY <1>12, ReceiveCount
<1>13. CASE SlaveTurn
  BY <1>13, TurnCount
<1>14. CASE UNCHANGED vars
  <2>1. /\ trouble' = trouble /\ session' = session /\ frame' = frame /\ inflight' = inflight
        /\ answer' = answer /\ fcb' = fcb /\ linked' = linked /\ cmd' = cmd /\ stage' = stage
        /\ log' = log
    BY <1>14 DEF vars, link, known
  <2> QED
    BY <2>1 DEF CountTrue
<1>15. ~SlaveTurnSplit
  BY DEF SlaveTurnSplit
<1> QED
  BY <1>4, <1>5, <1>6, <1>7, <1>8, <1>9, <1>10, <1>11, <1>12, <1>13, <1>14, <1>15 DEF Next, Slave

LEMMA CountHolds == Spec => [](Typed /\ CountTrue)
<1>1. Init => Typed /\ CountTrue
  BY TypedInit, CountInit
<1>2. (Typed /\ CountTrue) /\ [Next]_vars => (Typed /\ CountTrue)'
  BY TypedStep, CountStep
<1> QED
  BY <1>1, <1>2, PTL DEF Spec

(* The acknowledgement of a command is one for this command, whatever the  *)
(* master sends, however often it repeats and however late the answers     *)
(* come: the slave works on the command it acknowledges                    *)
(* (IEC102protocol.c:1699; ModBus_TCP.c:561).                              *)
THEOREM AcknowledgedCommandRuns == Spec => []AcknowledgedRuns
<1>1. Typed /\ CountTrue => AcknowledgedRuns
  <2> SUFFICES ASSUME Typed, CountTrue, trouble # "split",
                      answer.kind \in {"SC_ACK", "ACK_E5"}, frame.func = "PSC_DATA",
                      frame.asdu.cause # "DEACTIV"
               PROVE  session.cseq /\ session.last.type = frame.asdu.type
    BY DEF AcknowledgedRuns
  <2>1. answer # NoTx /\ ~inflight /\ Fcv(frame)
    BY DEF NoTx, Typed, Fcv
  <2>2. session.lctrl = fcb
    BY <2>1 DEF CountTrue
  <2> QED
    BY <2>1, <2>2 DEF CountTrue
<1> QED
  BY <1>1, CountHolds, PTL

(* A command that the master repeats because the acknowledgement was late  *)
(* is not begun a second time: the session keeps the command and how far   *)
(* it has got, and the same acknowledgement is sent again                  *)
(* (ModBus_TCP.c:561-605).                                                 *)
THEOREM RepeatedCommandOnce == Spec => CommandOnce
<1>1. Typed /\ CountTrue /\ [Next]_vars =>
        [trouble = "late" /\ SlaveTurn /\ frame.func = "PSC_DATA" /\ Repeated(session, frame)
            /\ frame.asdu.cause # "DEACTIV"
          => /\ session'.cseq
             /\ session'.last = session.last
             /\ answer'.kind = session.lasttx.kind]_vars
  <2> SUFFICES ASSUME Typed, CountTrue, trouble = "late", SlaveTurn, frame.func = "PSC_DATA",
                      Repeated(session, frame), frame.asdu.cause # "DEACTIV"
               PROVE  /\ session'.cseq /\ session'.last = session.last
                      /\ answer'.kind = session.lasttx.kind
    OBVIOUS
  <2> DEFINE u == Process(session, frame).session
  <2>1. inflight /\ session' = u /\ answer' = Process(session, frame).tx
    BY DEF SlaveTurn
  <2>2. /\ frame # NoFrame /\ Proper(session) /\ frame \in Frames /\ frame.asdu \in Asdus
    BY <2>1, FrameAsdu DEF Typed
  <2>3. Fcv(frame) /\ session.commrun /\ session.lctrl = fcb
    BY <2>2 DEF CountTrue, Fcv, Repeated
  <2>4. /\ session.cseq /\ session.lasttx.kind = session.ldid
        /\ session.ldid \in {"SC_ACK", "ACK_E5", "SC_NACK"}
    BY <2>3 DEF CountTrue
  <2>5. u = iec102_slave_seq(session) /\ Process(session, frame).tx = u.lasttx
    BY <2>2, <2>3, <2>4, CommandTurn
  <2>6. u.lasttx.kind = session.ldid /\ u.cseq = session.cseq /\ u.last = session.last
    BY ZenonT(60), <2>2, <2>4, <2>5, ShortTurn
  <2> HIDE DEF u
  <2> QED
    BY <2>1, <2>4, <2>5, <2>6
<1> QED
  BY <1>1, CountHolds, PTL DEF Spec, CommandOnce

-----------------------------------------------------------------------------
(* A link without trouble that carries commands answered in full.          *)

Plain == "none" \in Troubles => Commands["none"] \subseteq Answered

LEMMA AgreeFields ==
  ASSUME NEW s, NEW t, NEW c, NEW g, NEW l, Agree(s, c, g, l),
         t.cseq = s.cseq, t.last = s.last, t.stampok = s.stampok,
         t.lastsstamp = s.lastsstamp, t.itfrom = s.itfrom
  PROVE  Agree(t, c, g, l)
BY DEF Agree

LEMMA NothingDelivered == ASSUME NEW c, NEW g \in {"none", "accepted"} PROVE Delivered(c, g, <<>>)
<1>1. Periods * Parts >= 0
  BY Numbers
<1> QED
  BY <1>1 DEF Delivered, InOrder

LEMMA TotalsSequences ==
  /\ RangeTotals \in Seq(Int \X Int) /\ Len(RangeTotals) = Periods * Parts
  /\ PastTotals \in Seq(Int \X Int)
<1> DEFINE n == Periods * Parts
<1>1. n \in Nat
  BY Numbers
<1>2. \A k \in 1 .. n : <<(k - 1) \div Parts, (k - 1) % Parts>> \in Int \X Int
  BY Numbers, <1>1
<1>3. RangeTotals \in [1 .. n -> Int \X Int]
  BY <1>2 DEF RangeTotals
<1>4. PastTotals \in [1 .. Parts -> Int \X Int]
  BY Numbers DEF PastTotals
<1> HIDE DEF n
<1>5. RangeTotals \in Seq(Int \X Int)
  BY <1>1, <1>3
<1>6. Len(RangeTotals) = n
  BY <1>1, <1>3, <1>5
<1>7. PastTotals \in Seq(Int \X Int)
  BY <1>4, Numbers
<1> QED
  BY <1>5, <1>6, <1>7 DEF n

LEMMA PrefixByElements ==
  ASSUME NEW S, NEW l \in Seq(S), NEW T, NEW r \in Seq(T), Len(l) <= Len(r),
         \A i \in 1 .. Len(l) : l[i] = r[i]
  PROVE  IsPrefix(l, r) /\ (Len(l) = Len(r) => l = r)
<1>1. SubSeq(l, 1, Len(l)) = SubSeq(r, 1, Len(l))
  OBVIOUS
<1>2. Len(l) = Len(r) => l = r
  OBVIOUS
<1> QED
  BY <1>1, <1>2 DEF IsPrefix

(* What the master has got is what it is to get.                           *)
LEMMA DeliveredTotals ==
  ASSUME log \in Seq(Blocks), Delivered(cmd, stage, log)
  PROVE  DataInOrder /\ CompleteAtEnd /\ ConfirmBeforeData
<1>1. ConfirmBeforeData
  BY DEF Delivered, ConfirmBeforeData
<1>2. Expected(cmd) \in Seq(Int \X Int)
  BY TotalsSequences DEF Expected
<1>3. /\ Len(log) <= Len(Expected(cmd))
      /\ \A i \in 1 .. Len(log) : log[i] = Expected(cmd)[i]
  <2>1. CASE log = <<>>
    BY <1>2, <2>1
  <2>2. CASE log # <<>>
    <3>1. Expected(cmd) = RangeTotals /\ InOrder(log)
      BY <2>2 DEF Delivered, Expected
    <3> QED
      BY <3>1, TotalsSequences DEF InOrder
  <2> QED
    BY <2>1, <2>2
<1>4. DataInOrder
  BY <1>2, <1>3, PrefixByElements DEF DataInOrder
<1>5. CompleteAtEnd
  <2> SUFFICES ASSUME stage = "ended", cmd.type \in {"NA", "NC", "ND", "NR"}
               PROVE  log = Expected(cmd)
    BY DEF CompleteAtEnd
  <2>1. cmd.type = "NR" /\ Len(log) = Periods * Parts
    BY DEF Delivered
  <2>2. Len(log) = Len(Expected(cmd))
    BY <2>1, TotalsSequences DEF Expected
  <2> QED
    BY <1>2, <1>3, <2>2, PrefixByElements
<1> QED
  BY <1>1, <1>4, <1>5

(* What a turn of the slave must come to.                                  *)
Good(u, tx) ==
  /\ u.eventind => u.initind /\ u.initflag
  /\ tx # NoTx
  /\ linked \/ frame.func = "PSC_RESLINK" =>
       Agree(u, NextCmd(frame, tx), NextStage(frame, tx), NextLog(frame, tx))

(* Every frame is indicated, and the slave begins where the master is.     *)
LEMMA TurnStart ==
  ASSUME Typed, CountTrue, Clean, trouble = "none", inflight
  PROVE  LET c == Counted(session, frame)
             t == iec102_slave(c, frame)
             u == iec102_slave_seq(t)
         IN
         /\ frame \in Frames /\ Proper(c)
         /\ Process(session, frame).session = u
         /\ Answers(t) => Process(session, frame).tx = u.lasttx
         /\ Fcv(frame) <=> linked
         /\ linked => c.commrun /\ Agree(c, cmd, stage, log)
         /\ ~linked => cmd = NoAsdu /\ stage = "none" /\ log = <<>>
         /\ c.eventind => c.initind /\ c.initflag
<1> DEFINE c == Counted(session, frame)
<1>1. frame # NoFrame /\ frame \in Frames /\ answer = NoTx /\ Proper(session)
  BY FrameAsdu DEF Typed
<1>2. /\ Proper(c) /\ c.commrun = session.commrun /\ c.cseq = session.cseq
      /\ c.initind = session.initind /\ c.initflag = session.initflag
      /\ c.eventind = session.eventind /\ c.last = session.last
      /\ c.stampok = session.stampok /\ c.lastsstamp = session.lastsstamp
      /\ c.itfrom = session.itfrom
  BY <1>1, CountedType
<1>3. /\ frame.fcb = fcb /\ (Fcv(frame) <=> linked) /\ (linked => session.commrun)
      /\ ~linked => cmd = NoAsdu /\ stage = "none" /\ log = <<>>
  BY <1>1 DEF CountTrue
<1>4. ~Repeated(session, frame)
  BY <1>3 DEF Repeated, Clean
<1>5. FrameProcess(session, frame) = iec102_slave(c, frame)
  BY <1>4 DEF FrameProcess, Indicated
<1>6. linked => Agree(c, cmd, stage, log)
  <2>1. linked => Agree(session, cmd, stage, log)
    BY <1>1 DEF Clean
  <2> HIDE DEF c
  <2> QED
    BY <1>2, <2>1, AgreeFields
<1>7. c.eventind => c.initind /\ c.initflag
  BY <1>2 DEF Clean
<1> HIDE DEF c
<1>8. /\ Process(session, frame).session = iec102_slave_seq(iec102_slave(c, frame))
      /\ Answers(iec102_slave(c, frame)) =>
           Process(session, frame).tx = iec102_slave_seq(iec102_slave(c, frame)).lasttx
  BY <1>5 DEF Process
<1> QED
  BY <1>1, <1>2, <1>3, <1>6, <1>7, <1>8 DEF c

(* An answer of the link layer that acknowledges nothing changes neither   *)
(* side's progress.                                                        *)
LEMMA NothingNew ==
  ASSUME Typed, CountTrue, linked \/ frame.func = "PSC_RESLINK", NEW u,
         NEW tx, tx.kind \notin {"SC_ACK", "ACK_E5"} \/ frame.func # "PSC_DATA",
         frame.func = "PRR_DATA1" => StageAfter(tx) = stage, tx.block = NoBlock,
         Agree(u, cmd, stage, log)
  PROVE  Agree(u, NextCmd(frame, tx), NextStage(frame, tx), NextLog(frame, tx))
<1>1. /\ NextCmd(frame, tx) = cmd /\ NextStage(frame, tx) = stage
      /\ NextLog(frame, tx) = log
  BY DEF NextCmd, NextStage, NextLog, Commanded, Acked
<1> QED
  BY <1>1

LEMMA ResetTurn ==
  ASSUME Typed, CountTrue, Clean, trouble = "none", inflight, frame.func = "PSC_RESLINK"
  PROVE  Good(Process(session, frame).session, Process(session, frame).tx)
<1> DEFINE c == Counted(session, frame)
           t == iec102_slave(c, frame)
           u == iec102_slave_seq(t)
<1>1. /\ frame \in Frames /\ Proper(c) /\ Process(session, frame).session = u
      /\ Answers(t) => Process(session, frame).tx = u.lasttx
      /\ cmd = NoAsdu /\ stage = "none" /\ log = <<>>
  BY TurnStart DEF Fcv
<1>2. t = ResetLink(c)
  BY DEF iec102_slave
<1>3. Proper(t)
  BY <1>1, SlaveType
<1> HIDE DEF c, t
<1>4. t.ldid = "SC_ACK" /\ ~t.cseq /\ t.eventind /\ t.initind /\ t.initflag
  BY <1>1, <1>2 DEF ResetLink, Proper, Sessions
<1>5. /\ Answers(t) /\ u.lasttx = Short(t) /\ Short(t).block = NoBlock /\ Short(t) # NoTx
      /\ u.cseq = t.cseq /\ u.eventind = t.eventind /\ u.initind = t.initind
      /\ u.initflag = t.initflag
  BY <1>3, <1>4, ShortTurn
<1> HIDE DEF u
<1>6. Agree(u, cmd, stage, log)
  BY <1>1, <1>4, <1>5, NothingDelivered DEF Agree
<1> QED
  BY <1>1, <1>4, <1>5, <1>6, NothingNew DEF Good

LEMMA StatusTurn ==
  ASSUME Typed, CountTrue, Clean, trouble = "none", inflight, frame.func = "PRR_LINKSTA"
  PROVE  Good(Process(session, frame).session, Process(session, frame).tx)
<1> DEFINE c == Counted(session, frame)
           t == iec102_slave(c, frame)
           u == iec102_slave_seq(t)
<1>1. /\ frame \in Frames /\ Proper(c) /\ Process(session, frame).session = u
      /\ Answers(t) => Process(session, frame).tx = u.lasttx
      /\ ~linked
  BY TurnStart DEF Fcv
<1>2. t = LinkStatus(c)
  BY DEF iec102_slave
<1>3. Proper(t)
  BY <1>1, SlaveType
<1> HIDE DEF c, t
<1>4. t.ldid = "SR_STAT" /\ ~t.eventind
  BY <1>1, <1>2 DEF LinkStatus, Proper, Sessions
<1>5. Answers(t) /\ u.lasttx = Short(t) /\ Short(t) # NoTx /\ u.eventind = t.eventind
  BY <1>3, <1>4, ShortTurn
<1> HIDE DEF u
<1> QED
  BY <1>1, <1>4, <1>5 DEF Good

LEMMA Poll2Turn ==
  ASSUME Typed, CountTrue, Clean, trouble = "none", inflight, frame.func = "PRR_DATA2"
  PROVE  Good(Process(session, frame).session, Process(session, frame).tx)
<1> DEFINE c == Counted(session, frame)
           t == iec102_slave(c, frame)
           u == iec102_slave_seq(t)
<1>1. /\ frame \in Frames /\ Proper(c) /\ Process(session, frame).session = u
      /\ Answers(t) => Process(session, frame).tx = u.lasttx
      /\ linked /\ Agree(c, cmd, stage, log)
      /\ c.eventind => c.initind /\ c.initflag
  BY TurnStart DEF Fcv
<1>2. t = [c EXCEPT !.ldid = "SR_NACK"]
  BY DEF iec102_slave
<1>3. Proper(t)
  BY <1>1, SlaveType
<1> HIDE DEF c, t
<1>4. /\ t.ldid = "SR_NACK" /\ t.eventind = c.eventind /\ t.initind = c.initind
      /\ t.initflag = c.initflag /\ t.cseq = c.cseq /\ t.last = c.last
      /\ t.stampok = c.stampok /\ t.lastsstamp = c.lastsstamp /\ t.itfrom = c.itfrom
  BY <1>1, <1>2 DEF Proper, Sessions
<1>5. /\ Answers(t) /\ u.lasttx = Short(t) /\ Short(t).block = NoBlock /\ Short(t) # NoTx
      /\ u.eventind = t.eventind /\ u.initind = t.initind
      /\ u.initflag = t.initflag /\ u.cseq = t.cseq /\ u.last = t.last
      /\ u.stampok = t.stampok /\ u.lastsstamp = t.lastsstamp /\ u.itfrom = t.itfrom
  BY <1>3, <1>4, ShortTurn
<1> HIDE DEF u
<1>6. Agree(u, cmd, stage, log)
  BY <1>1, <1>4, <1>5, AgreeFields
<1>7. Agree(u, NextCmd(frame, Short(t)), NextStage(frame, Short(t)), NextLog(frame, Short(t)))
  BY <1>1, <1>5, <1>6, NothingNew
<1> QED
  BY <1>1, <1>4, <1>5, <1>7 DEF Good

(* A cancellation: accepted for a time range that has not begun a frame of *)
(* a period, refused otherwise, and the sequence goes on.                  *)
LEMMA DeactivateTurn ==
  ASSUME Typed, CountTrue, Clean, trouble = "none", inflight, frame.func = "PSC_DATA",
         frame.asdu.cause = "DEACTIV"
  PROVE  Good(Process(session, frame).session, Process(session, frame).tx)
<1> DEFINE c == Counted(session, frame)
           t == iec102_slave(c, frame)
           u == iec102_slave_seq(t)
           a == frame.asdu
<1>1. /\ frame \in Frames /\ Proper(c) /\ Process(session, frame).session = u
      /\ Answers(t) => Process(session, frame).tx = u.lasttx
      /\ linked /\ c.commrun /\ Agree(c, cmd, stage, log)
      /\ c.eventind => c.initind /\ c.initflag
  BY TurnStart DEF Fcv
<1>2. stage \in {"accepted", "confirmed"} /\ a = [cmd EXCEPT !.cause = "DEACTIV"]
  BY DEF Clean
<1>3. /\ c.cseq /\ cmd \in Answered /\ c.last.type = cmd.type /\ c.last.obj = cmd.obj
      /\ c.stampok /\ Delivered(cmd, stage, log)
  BY <1>1, <1>2 DEF Agree
<1>4. a \in Asdus /\ a.type = cmd.type
  BY <1>2, <1>3 DEF Answered, Asdus, Causes
<1>5. t = Deactivate(c, a)
  BY <1>1 DEF iec102_slave, SendData
<1> HIDE DEF c, t, a
<1>6. /\ Proper(t)
      /\ \/ t = [c EXCEPT !.ldid = "SC_NACK"]
         \/ /\ Deactivates(c, a)
            /\ t = [c EXCEPT !.ldid = "SC_ACK", !.last = [c.last EXCEPT !.cause = "DEACTIV_CON"]]
  <2>1. /\ Proper(Deactivate(c, a))
        /\ \/ Deactivate(c, a) = [c EXCEPT !.ldid = "SC_NACK"]
           \/ /\ Deactivates(c, a)
              /\ Deactivate(c, a) = [c EXCEPT !.ldid = "SC_ACK",
                                              !.last = [c.last EXCEPT !.cause = "DEACTIV_CON"]]
    BY <1>1, <1>4, DeactivateType
  <2> QED
    BY <1>5, <2>1
<1>7. CASE t = [c EXCEPT !.ldid = "SC_NACK"]
  <2>1. /\ t.ldid = "SC_NACK" /\ t.eventind = c.eventind /\ t.initind = c.initind
        /\ t.initflag = c.initflag /\ t.cseq = c.cseq /\ t.last = c.last
        /\ t.stampok = c.stampok /\ t.lastsstamp = c.lastsstamp /\ t.itfrom = c.itfrom
    BY <1>1, <1>7 DEF Proper, Sessions
  <2>2. /\ Answers(t) /\ u.lasttx = Short(t) /\ Short(t).block = NoBlock /\ Short(t) # NoTx
        /\ Short(t).kind = "SC_NACK"
        /\ u.eventind = t.eventind /\ u.initind = t.initind
        /\ u.initflag = t.initflag /\ u.cseq = t.cseq /\ u.last = t.last
        /\ u.stampok = t.stampok /\ u.lastsstamp = t.lastsstamp /\ u.itfrom = t.itfrom
    BY <1>6, <2>1, ShortTurn
  <2> HIDE DEF u
  <2>3. Agree(u, cmd, stage, log)
    BY <1>1, <2>1, <2>2, AgreeFields
  <2>4. Agree(u, NextCmd(frame, Short(t)), NextStage(frame, Short(t)), NextLog(frame, Short(t)))
    BY <1>1, <2>2, <2>3, NothingNew
  <2> QED
    BY <1>1, <2>1, <2>2, <2>4 DEF Good
<1>8. CASE /\ Deactivates(c, a)
           /\ t = [c EXCEPT !.ldid = "SC_ACK", !.last = [c.last EXCEPT !.cause = "DEACTIV_CON"]]
  <2>1. a.type = "NR"
    BY <1>3, <1>4, <1>8 DEF Deactivates, Answered
  <2>2. c \in Sessions /\ c.last \in Asdus
    BY <1>1, <1>4, <1>8 DEF Proper, Sessions, Deactivates, Asdus, NoAsdu, Types
  <2> DEFINE l == [c.last EXCEPT !.cause = "DEACTIV_CON"]
  <2>3. l.type = cmd.type /\ l.obj = cmd.obj /\ l.cause = "DEACTIV_CON"
    BY <1>3, <2>2 DEF Asdus
  <2> HIDE DEF l
  <2>4. /\ t.ldid = "SC_ACK" /\ t.eventind = c.eventind /\ t.initind = c.initind
        /\ t.initflag = c.initflag /\ t.cseq = c.cseq /\ t.last = l /\ t.stampok = c.stampok
    BY <1>8, <2>2 DEF Sessions, l
  <2>5. /\ Answers(t) /\ u.lasttx = Short(t) /\ Short(t) # NoTx /\ Short(t).kind = "SC_ACK"
        /\ u.eventind = t.eventind /\ u.initind = t.initind
        /\ u.initflag = t.initflag /\ u.cseq = t.cseq /\ u.last = t.last
        /\ u.stampok = t.stampok
    BY <1>6, <2>4, ShortTurn
  <2> HIDE DEF u
  <2>6. /\ NextCmd(frame, Short(t)) = cmd /\ NextStage(frame, Short(t)) = "cancelling"
        /\ NextLog(frame, Short(t)) = log
    BY <2>5 DEF NextCmd, NextStage, NextLog, Commanded, Acked
  <2>7. Delivered(cmd, "cancelling", log)
    BY <1>3 DEF Delivered
  <2>8. Agree(u, cmd, "cancelling", log)
    BY <1>3, <1>4, <2>1, <2>3, <2>4, <2>5, <2>7 DEF Agree
  <2> QED
    BY <1>1, <2>4, <2>5, <2>6, <2>8 DEF Good
<1> QED
  BY <1>6, <1>7, <1>8

(* A command to a slave that is not busy: it is begun.                     *)
LEMMA NewCommandTurn ==
  ASSUME Plain, Typed, CountTrue, Clean, trouble = "none", inflight, frame.func = "PSC_DATA",
         frame.asdu.cause # "DEACTIV"
  PROVE  Good(Process(session, frame).session, Process(session, frame).tx)
<1> DEFINE c == Counted(session, frame)
           t == iec102_slave(c, frame)
           u == iec102_slave_seq(t)
           a == frame.asdu
<1>1. /\ frame \in Frames /\ Proper(c) /\ Process(session, frame).session = u
      /\ Answers(t) => Process(session, frame).tx = u.lasttx
      /\ linked /\ c.commrun /\ Agree(c, cmd, stage, log)
      /\ c.eventind => c.initind /\ c.initflag
  BY TurnStart DEF Fcv
<1>2. ~Running
  BY DEF Clean
<1>3. ~c.cseq
  BY <1>1, <1>2 DEF Agree, Running
<1>4. a \in Answered /\ a \in Asdus /\ a.cause = ProperCause(a.type) /\ a.type # "NC"
  <2>1. a \in Commands[trouble] /\ trouble \in Troubles
    BY DEF Typed
  <2>2. a \in Answered
    BY <2>1 DEF Plain
  <2> QED
    BY <2>2 DEF Answered
<1>5. t = Command(c, a)
  BY <1>1, <1>3 DEF iec102_slave, SendData
<1> HIDE DEF c, t, a
<1>6. /\ Proper(t) /\ t.initind = c.initind /\ t.eventind = c.eventind
      /\ t.initflag = c.initflag /\ t.cseq /\ t.ldid \in {"SC_ACK", "ACK_E5"}
      /\ t.last = a /\ t.stampok /\ t.lastsstamp = 0 /\ t.itfrom = 0
  BY <1>1, <1>4, <1>5, CommandType
<1>7. /\ Answers(t) /\ u.lasttx = Short(t) /\ Short(t) # NoTx /\ Short(t).kind = t.ldid
      /\ u.eventind = t.eventind /\ u.initind = t.initind
      /\ u.initflag = t.initflag /\ u.cseq = t.cseq /\ u.last = t.last
      /\ u.stampok = t.stampok /\ u.lastsstamp = t.lastsstamp /\ u.itfrom = t.itfrom
  BY <1>6, ShortTurn
<1> HIDE DEF u
<1>8. /\ NextCmd(frame, Short(t)) = a /\ NextStage(frame, Short(t)) = "accepted"
      /\ NextLog(frame, Short(t)) = <<>>
  BY <1>6, <1>7 DEF NextCmd, NextStage, NextLog, Commanded, Acked, a
<1>9. Agree(u, a, "accepted", <<>>)
  BY <1>4, <1>6, <1>7, NothingDelivered DEF Agree
<1> QED
  BY <1>1, <1>6, <1>7, <1>8, <1>9 DEF Good

(* The confirmation of a command, or the end of it.                        *)
LEMMA ActivConfFields ==
  ASSUME NEW s, Proper(s)
  PROVE  LET u == ActivConf(s) IN
         /\ u.lasttx = Mirror(s) /\ Mirror(s).type = s.last.type
         /\ Mirror(s).cause = s.last.cause /\ Mirror(s).block = NoBlock
         /\ Mirror(s).kind = "SR_DATA" /\ Mirror(s) # NoTx /\ u.eventind = s.eventind
         /\ s.last.cause = "DEACTIV_CON" =>
              /\ u.cseq = s.cseq /\ u.stampok = s.stampok /\ u.last.cause = "ACTIV_TERM"
              /\ u.last.type = s.last.type /\ u.last.obj = s.last.obj
         /\ s.last.cause \in CONFIRMED /\ s.cseq =>
              /\ u.cseq = s.cseq /\ u.stampok = s.stampok /\ u.last = s.last
              /\ u.lastsstamp = s.lastsstamp /\ u.itfrom = s.itfrom
         /\ s.last.cause \notin CONFIRMED \cup {"DEACTIV_CON"} => ~u.cseq
<1> DEFINE u == ActivConf(s)
           t == Put(s, Mirror(s))
<1>1. /\ t \in Sessions /\ t.lasttx = Mirror(s) /\ t.eventind = s.eventind /\ t.last = s.last
      /\ t.cseq = s.cseq /\ t.stampok = s.stampok /\ t.lastsstamp = s.lastsstamp
      /\ t.itfrom = s.itfrom
  BY AnswerTypes, PutType DEF Proper
<1>2. u = CASE s.last.cause = "DEACTIV_CON" -> [t EXCEPT !.last.cause = "ACTIV_TERM"]
            [] s.last.cause \in CONFIRMED /\ s.cseq -> t
            [] OTHER -> [t EXCEPT !.cseq = FALSE]
  BY DEF ActivConf
<1>3. /\ Mirror(s).type = s.last.type /\ Mirror(s).cause = s.last.cause
      /\ Mirror(s).block = NoBlock /\ Mirror(s).kind = "SR_DATA" /\ Mirror(s) # NoTx
  BY DEF Mirror, Data, NoTx
<1> HIDE DEF t, u
<1>4. CASE s.last.cause = "DEACTIV_CON"
  <2> DEFINE l == [t.last EXCEPT !.cause = "ACTIV_TERM"]
  <2>1. u = [t EXCEPT !.last = l]
    BY <1>2, <1>4 DEF CONFIRMED
  <2>2. l.cause = "ACTIV_TERM" /\ l.type = t.last.type /\ l.obj = t.last.obj
    BY <1>1, <1>4 DEF Sessions, Asdus, NoAsdu
  <2> HIDE DEF l
  <2>3. /\ u.lasttx = t.lasttx /\ u.eventind = t.eventind /\ u.cseq = t.cseq
        /\ u.stampok = t.stampok /\ u.last = l
    BY <1>1, <2>1 DEF Sessions
  <2> QED
    BY <1>1, <1>3, <1>4, <2>2, <2>3 DEF u, CONFIRMED
<1>5. CASE s.last.cause \in CONFIRMED /\ s.cseq
  <2>1. u = t
    BY <1>2, <1>5 DEF CONFIRMED
  <2> QED
    BY <1>1, <1>3, <1>5, <2>1 DEF u, CONFIRMED
<1>6. CASE s.last.cause # "DEACTIV_CON" /\ ~(s.last.cause \in CONFIRMED /\ s.cseq)
  <2>1. u = [t EXCEPT !.cseq = FALSE]
    BY <1>2, <1>6
  <2>2. u.lasttx = t.lasttx /\ u.eventind = t.eventind /\ ~u.cseq
    BY <1>1, <2>1 DEF Sessions
  <2> QED
    BY <1>1, <1>3, <1>6, <2>2 DEF u
<1> QED
  BY <1>4, <1>5, <1>6

(* The answer that ends a command.                                         *)
LEMMA PollEnds ==
  ASSUME frame.func = "PRR_DATA1", NEW u, NEW tx, ~u.eventind, tx # NoTx, tx.block = NoBlock,
         ~u.cseq, StageAfter(tx) \in {"ended", "refused", "dropped"},
         Delivered(cmd, StageAfter(tx), log)
  PROVE  Good(u, tx)
<1>1. /\ NextCmd(frame, tx) = cmd /\ NextStage(frame, tx) = StageAfter(tx)
      /\ NextLog(frame, tx) = log
  BY DEF NextCmd, NextStage, NextLog, Commanded
<1>2. Agree(u, cmd, StageAfter(tx), log)
  BY DEF Agree
<1> QED
  BY <1>1, <1>2 DEF Good

(* The answer that leaves the master where it is.                          *)
LEMMA PollStays ==
  ASSUME Typed, CountTrue, frame.func = "PRR_DATA1", linked, NEW u, NEW tx, ~u.eventind,
         tx # NoTx, tx.block = NoBlock,
         ~Running \/ (tx.type \notin Types \cup {"NONE", "P_MP"} /\ tx.kind # "SR_NACK"),
         Agree(u, cmd, stage, log)
  PROVE  Good(u, tx)
<1>1. cmd.type \in Types \cup {"NONE"}
  <2>1. cmd \in Asdus \cup {NoAsdu}
    BY SessionAssumption DEF Typed
  <2> QED
    BY <2>1 DEF Asdus, NoAsdu
<1>2. StageAfter(tx) = stage
  BY <1>1 DEF StageAfter
<1>3. Agree(u, NextCmd(frame, tx), NextStage(frame, tx), NextLog(frame, tx))
  BY <1>2, NothingNew
<1> QED
  BY <1>3 DEF Good

(* A poll while a command other than for a time range is in progress is    *)
(* answered by the one answer there is, and ends it.                       *)
LEMMA ShortPoll ==
  ASSUME frame.func = "PRR_DATA1", NEW d \in Sessions, d.ldid = "SR_DATA", d.cseq,
         ~d.eventind, Agree(d, cmd, stage, log), cmd.type # "NR"
  PROVE  LET t == Progress(d)
             u == iec102_slave_seq(t)
         IN  Answers(t) /\ Good(u, u.lasttx)
<1> DEFINE t == Progress(d)
           u == iec102_slave_seq(t)
           tx == u.lasttx
<1>1. /\ stage = "accepted" /\ d.last = cmd /\ log = <<>> /\ cmd \in Answered
      /\ cmd.type \in {"RD", "NT", "SYN", "XX"} /\ cmd.cause = ProperCause(cmd.type)
      /\ cmd \in Asdus
  BY DEF Agree, Answered
<1>2. Running
  BY <1>1 DEF Running
<1>3. Proper(t) /\ t.eventind = d.eventind
  BY ProgressType
<1>4. Delivered(cmd, "ended", log) /\ Delivered(cmd, "refused", log)
  BY <1>1, NothingDelivered DEF Delivered
<1>5. CASE cmd.type = "RD"
  <2>1. t = [d EXCEPT !.udid = "P_MP", !.cseq = FALSE]
    <3>1. cmd.cause = "REQ"
      BY <1>1, <1>5 DEF ProperCause
    <3>2. t = [[d EXCEPT !.udid = "RD", !.cseq = FALSE] EXCEPT !.udid = "P_MP"]
      BY <1>1, <1>5, <3>1 DEF Progress, Finish, Own
    <3> HIDE DEF t
    <3> QED
      BY <3>2 DEF Sessions
  <2> HIDE DEF t
  <2>2. t.ldid = "SR_DATA" /\ t.udid = "P_MP" /\ ~t.cseq /\ t \in Sessions
    BY <1>3, <2>1 DEF Sessions, Proper
  <2> DEFINE m == Data(t, "P_MP", "REQ")
  <2>3. u = Put(t, m) /\ Answers(t)
    BY <2>2 DEF iec102_slave_seq, Silent, Answers
  <2>4. m \in Transmissions
    BY <2>2, AnswerTypes DEF Labels, Causes
  <2>5. m.type = "P_MP" /\ m.cause = "REQ" /\ m.block = NoBlock /\ m.kind = "SR_DATA" /\ m # NoTx
    BY DEF Data, NoTx
  <2> HIDE DEF m
  <2>6. u.lasttx = m /\ u.cseq = t.cseq /\ u.eventind = t.eventind
    BY <2>2, <2>3, <2>4, PutType
  <2>7. StageAfter(m) = "ended"
    BY <1>2, <1>5, <2>5 DEF StageAfter
  <2> HIDE DEF u
  <2>8. Good(u, m)
    BY <1>3, <1>4, <2>2, <2>5, <2>6, <2>7, PollEnds
  <2> QED
    BY <2>3, <2>6, <2>8 DEF t, u
<1>6. CASE cmd.type = "SYN"
  <2>1. t = [d EXCEPT !.udid = "SYN", !.cseq = FALSE]
    BY <1>1, <1>6 DEF Progress, Finish, Own
  <2> HIDE DEF t
  <2>2. t.ldid = "SR_DATA" /\ t.udid = "SYN" /\ ~t.cseq /\ t.last = cmd
    BY <1>1, <2>1 DEF Sessions
  <2>3. u = ActivConf(t) /\ Answers(t)
    BY <2>2 DEF iec102_slave_seq, Silent, Answers
  <2>4. cmd.cause = "SYNCH"
    BY <1>1, <1>6 DEF ProperCause
  <2>5. /\ tx.type = "SYN" /\ tx.cause = "SYNCH" /\ tx.block = NoBlock /\ tx # NoTx
        /\ u.eventind = t.eventind /\ ~u.cseq
    BY <1>3, <1>6, <2>2, <2>3, <2>4, ActivConfFields DEF CONFIRMED
  <2> HIDE DEF tx
  <2>6. StageAfter(tx) = "ended"
    BY <1>2, <1>6, <2>5 DEF StageAfter
  <2> HIDE DEF u
  <2>7. Good(u, tx)
    BY <1>3, <1>4, <2>5, <2>6, PollEnds
  <2> QED
    BY <2>3, <2>7 DEF t, u, tx
<1>7. CASE cmd.type \in {"NT", "XX"}
  <2> DEFINE l == [d.last EXCEPT !.cause = "REFUSED"]
  <2>1. t = [d EXCEPT !.udid = cmd.type, !.cseq = FALSE, !.last = l]
    <3>1. t = [Finish(d) EXCEPT !.last.cause = "REFUSED"]
      BY <1>1, <1>7 DEF Progress
    <3>2. Finish(d) = [d EXCEPT !.udid = cmd.type, !.cseq = FALSE]
      BY <1>1 DEF Finish, Own
    <3> HIDE DEF t
    <3> QED
      BY <3>1, <3>2 DEF Sessions
  <2>2. l.type = cmd.type /\ l.cause = "REFUSED"
    BY <1>1 DEF Asdus
  <2> HIDE DEF t, l
  <2>3. t.ldid = "SR_DATA" /\ t.udid = cmd.type /\ ~t.cseq /\ t.last = l
    BY <2>1 DEF Sessions
  <2>4. Answers(t)
    BY <1>7, <2>3 DEF Answers, Silent
  <2>5. /\ tx.type = cmd.type /\ tx.cause = "REFUSED" /\ tx.block = NoBlock /\ tx # NoTx
        /\ tx.kind = "SR_DATA"
        /\ u.eventind = t.eventind /\ ~u.cseq
    <3>1. CASE cmd.type = "NT"
      <4>1. u = ActivConf(t)
        BY <2>3, <3>1 DEF iec102_slave_seq, Silent
      <4> QED
        BY <1>3, <2>2, <2>3, <4>1, ActivConfFields DEF CONFIRMED
    <3>2. CASE cmd.type = "XX"
      <4> DEFINE m == Data(t, t.last.type, "REFUSED")
      <4>1. u = [Put(t, m) EXCEPT !.cseq = FALSE]
        BY <2>3, <3>2 DEF iec102_slave_seq, Silent
      <4>2. t \in Sessions /\ "XX" \in Labels /\ "REFUSED" \in Causes
        BY <1>3 DEF Proper, Labels, Types, Causes
      <4>3. m \in Transmissions
        BY <2>2, <2>3, <3>2, <4>2, AnswerTypes
      <4>4. m.type = cmd.type /\ m.cause = "REFUSED" /\ m.block = NoBlock /\ m.kind = "SR_DATA"
        BY <2>2, <2>3 DEF Data, NoTx
      <4> HIDE DEF m, u
      <4>5. /\ Put(t, m) \in Sessions /\ Put(t, m).lasttx = m
            /\ Put(t, m).eventind = t.eventind
        BY <4>2, <4>3, PutType
      <4>6. u.lasttx = m /\ u.eventind = t.eventind /\ ~u.cseq
        BY <4>1, <4>5 DEF Sessions
      <4> QED
        BY <4>4, <4>6 DEF NoTx
    <3> QED
      BY <1>7, <3>1, <3>2
  <2> HIDE DEF tx
  <2>6. StageAfter(tx) = "refused"
    <3>1. tx.type = cmd.type /\ tx.cause = "REFUSED" /\ tx.kind = "SR_DATA"
      BY <2>5
    <3> QED
      BY <1>2, <1>7, <3>1 DEF StageAfter
  <2> HIDE DEF u
  <2>7. Good(u, tx)
    BY <1>3, <1>4, <2>5, <2>6, PollEnds
  <2> QED
    BY <2>4, <2>7 DEF t, u, tx
<1> QED
  BY <1>1, <1>5, <1>6, <1>7

(* Block <<p, k>> is the one that comes at place p, k, and the next place  *)
(* is the cursor's.                                                        *)
LEMMA PlaceNumbers ==
  ASSUME NEW p \in 0 .. Periods - 1, NEW k \in 0 .. Parts - 1
  PROVE  /\ p * Parts + k \in Nat /\ p * Parts + k < Periods * Parts
         /\ (p * Parts + k) \div Parts = p /\ (p * Parts + k) % Parts = k
         /\ k = Parts - 1 => p * Parts + k + 1 = (p + 1) * Parts
<1>1. p * Parts + k \in Nat
  BY Numbers
<1>2. p * Parts + k < Periods * Parts
  BY Numbers
<1>3. (p * Parts + k) \div Parts = p
  BY Numbers
<1>4. (p * Parts + k) % Parts = k
  BY Numbers
<1>5. k = Parts - 1 => p * Parts + k + 1 = (p + 1) * Parts
  BY Numbers
<1> QED
  BY <1>1, <1>2, <1>3, <1>4, <1>5

LEMMA NextPlace ==
  ASSUME NEW l \in Seq(Blocks), NEW p \in 0 .. Periods - 1, NEW k \in 0 .. Parts - 1,
         AtPlace(l, p, k)
  PROVE  LET m == Append(l, <<p, k>>) IN
         /\ Len(l) <= MaxLog /\ InOrder(m) /\ m # <<>>
         /\ k < Parts - 1 => AtPlace(m, p, k + 1)
         /\ k = Parts - 1 => AtPlace(m, p + 1, 0)
         /\ k = Parts - 1 /\ p = Periods - 1 => Len(m) = Periods * Parts
<1> DEFINE n == p * Parts + k
           m == Append(l, <<p, k>>)
<1>1. /\ n \in Nat /\ n < Periods * Parts /\ n \div Parts = p /\ n % Parts = k
      /\ k = Parts - 1 => n + 1 = (p + 1) * Parts
  BY PlaceNumbers
<1>2. Len(l) = n /\ \A i \in 1 .. Len(l) : l[i] = RangeTotals[i]
  BY DEF AtPlace
<1>3. Periods * Parts \in Nat
  BY Numbers
<1>4. RangeTotals[n + 1] = <<p, k>>
  <2> DEFINE h == Periods * Parts
  <2>1. RangeTotals = [i \in 1 .. h |-> <<(i - 1) \div Parts, (i - 1) % Parts>>]
    BY DEF RangeTotals
  <2>2. n + 1 \in 1 .. h /\ (n + 1) - 1 = n
    BY <1>1, <1>3
  <2> HIDE DEF h, n
  <2> QED
    BY <1>1, <2>1, <2>2
<1>5. m \in Seq(Blocks \cup {<<p, k>>}) /\ Len(m) = n + 1
      /\ \A i \in 1 .. n : m[i] = l[i]
  BY <1>2
<1>5a. m[n + 1] = <<p, k>>
  BY <1>2
<1>6. k < Parts - 1 => p * Parts + (k + 1) = n + 1
  BY Numbers
<1> HIDE DEF n, m
<1>7. \A i \in 1 .. Len(m) : m[i] = RangeTotals[i]
  <2> SUFFICES ASSUME NEW i \in 1 .. n + 1 PROVE m[i] = RangeTotals[i]
    BY <1>5
  <2>1. CASE i = n + 1
    BY <1>4, <1>5a, <2>1, Zenon
  <2>2. CASE i # n + 1
    <3>1. i \in 1 .. n
      BY <1>1, <2>2
    <3> QED
      BY <1>2, <1>5, <3>1
  <2> QED
    BY <2>1, <2>2
<1>8. Len(l) <= MaxLog /\ Len(m) <= Periods * Parts
  BY <1>1, <1>2, <1>3, <1>5 DEF MaxLog
<1>9. m # <<>>
  BY <1>1, <1>5
<1>10. k = Parts - 1 => Len(m) = (p + 1) * Parts + 0
  <2>1. ASSUME k = Parts - 1 PROVE Len(m) = (p + 1) * Parts /\ (p + 1) * Parts \in Nat
    BY <1>1, <1>5, <2>1
  <2> QED
    BY <2>1
<1>11. k = Parts - 1 /\ p = Periods - 1 => Len(m) = Periods * Parts
  <2> SUFFICES ASSUME k = Parts - 1, p = Periods - 1 PROVE Len(m) = Periods * Parts
    OBVIOUS
  <2>1. p + 1 = Periods
    BY Numbers
  <2> QED
    BY <1>1, <1>5, <2>1
<1>12. k < Parts - 1 => AtPlace(m, p, k + 1)
  BY <1>5, <1>6, <1>7 DEF AtPlace
<1>13. k = Parts - 1 => AtPlace(m, p + 1, 0)
  BY <1>7, <1>10 DEF AtPlace
<1> QED
  BY <1>7, <1>8, <1>9, <1>11, <1>12, <1>13 DEF InOrder, m

(* A poll while a time range is in progress.                               *)
LEMMA RangePoll ==
  ASSUME Typed, frame.func = "PRR_DATA1", NEW d \in Sessions, d.ldid = "SR_DATA", d.cseq,
         ~d.eventind, Agree(d, cmd, stage, log), cmd.type = "NR"
  PROVE  LET t == Progress(d)
             u == iec102_slave_seq(t)
         IN  Answers(t) /\ Good(u, u.lasttx)
<1> DEFINE t == Progress(d)
           u == iec102_slave_seq(t)
           tx == u.lasttx
           own == [d EXCEPT !.udid = "NR"]
           ends == [d EXCEPT !.udid = "NR", !.cseq = FALSE]
<1>1. /\ stage \in {"accepted", "confirmed", "cancelling", "cancelled"} /\ cmd \in Answered
      /\ cmd.cause = "ACTIV" /\ cmd.obj \in {"ok", "refused"} /\ cmd \in Asdus
      /\ d.last.type = "NR" /\ d.last.obj = cmd.obj /\ d.stampok /\ d.last \in Asdus
      /\ Delivered(cmd, stage, log)
  <2>1. /\ stage \in {"accepted", "confirmed", "cancelling", "cancelled"} /\ cmd \in Answered
        /\ d.last.type = "NR" /\ d.last.obj = cmd.obj /\ d.stampok
        /\ Delivered(cmd, stage, log)
    BY DEF Agree
  <2>2. cmd.cause = "ACTIV" /\ cmd.obj \in {"ok", "refused"} /\ cmd \in Asdus
    BY <2>1 DEF Answered, ProperCause, Asdus, Objs
  <2>3. d.last \in Asdus
    BY <2>1 DEF Sessions, NoAsdu
  <2> QED
    BY <2>1, <2>2, <2>3
<1>2. Running
  BY <1>1 DEF Running
<1>3. Proper(t) /\ t.eventind = d.eventind
  BY ProgressType
<1>4. /\ own \in Sessions /\ own.ldid = "SR_DATA" /\ own.udid = "NR" /\ own.last = d.last
      /\ own.cseq /\ own.stampok = d.stampok /\ own.lastsstamp = d.lastsstamp
      /\ own.itfrom = d.itfrom
      /\ ends \in Sessions /\ ends.ldid = "SR_DATA" /\ ends.udid = "NR" /\ ends.last = d.last
      /\ ~ends.cseq
  BY DEF Sessions, Labels, Types
<1>5. Own(d) = own /\ Finish(d) = ends
  BY <1>1 DEF Own, Finish
<1> HIDE DEF own, ends
<1>6. t.ldid = "SR_DATA" /\ t.udid = "NR" => u = ActivConf(t) /\ Answers(t)
  BY DEF iec102_slave_seq, Silent, Answers
<1>7. CASE stage = "accepted" /\ cmd.obj = "refused"
  <2> DEFINE l == [d.last EXCEPT !.cause = "REFUSED"]
  <2>1. d.last.cause = "ACTIV" /\ log = <<>>
    BY <1>1, <1>7 DEF Agree
  <2>2. t = [ends EXCEPT !.last = l]
    <3>1. t = [ends EXCEPT !.last.cause = "REFUSED"]
      BY <1>1, <1>5, <1>7, <2>1 DEF Progress, CONFIRMED
    <3> QED
      BY <1>4, <3>1 DEF Sessions
  <2>3. l.type = "NR" /\ l.cause = "REFUSED"
    BY <1>1 DEF Asdus
  <2> HIDE DEF t, l
  <2>4. t.ldid = "SR_DATA" /\ t.udid = "NR" /\ ~t.cseq /\ t.last = l
    BY <1>4, <2>2 DEF Sessions
  <2>5. /\ tx.type = "NR" /\ tx.cause = "REFUSED" /\ tx.block = NoBlock /\ tx # NoTx
        /\ tx.kind = "SR_DATA" /\ u.eventind = t.eventind /\ ~u.cseq
    BY <1>3, <1>6, <2>3, <2>4, ActivConfFields DEF CONFIRMED
  <2>6. Delivered(cmd, "refused", log)
    BY <1>1 DEF Delivered
  <2> HIDE DEF tx
  <2>7. StageAfter(tx) = "refused"
    BY <1>2, <2>5 DEF StageAfter
  <2> HIDE DEF u
  <2>8. Good(u, tx)
    BY <1>3, <2>5, <2>6, <2>7, PollEnds
  <2> QED
    BY <1>6, <2>4, <2>8 DEF t, u, tx
<1>8. CASE stage = "accepted" /\ cmd.obj = "ok"
  <2> DEFINE l == [d.last EXCEPT !.cause = "ACTIV_CON"]
  <2>1. /\ d.last.cause = "ACTIV" /\ log = <<>> /\ d.lastsstamp = 0 /\ d.itfrom = 0
    BY <1>1, <1>8 DEF Agree
  <2>2. t = [own EXCEPT !.last = l]
    <3>1. t = [own EXCEPT !.last.cause = "ACTIV_CON"]
      BY <1>1, <1>5, <1>8, <2>1 DEF Progress, CONFIRMED
    <3> QED
      BY <1>4, <3>1 DEF Sessions
  <2>3. l.type = "NR" /\ l.cause = "ACTIV_CON" /\ l.obj = cmd.obj
    BY <1>1 DEF Asdus
  <2> HIDE DEF t, l
  <2>4. /\ t.ldid = "SR_DATA" /\ t.udid = "NR" /\ t.cseq /\ t.last = l
        /\ t.stampok = d.stampok /\ t.lastsstamp = 0 /\ t.itfrom = 0
    BY <1>4, <2>1, <2>2 DEF Sessions
  <2>5. /\ tx.type = "NR" /\ tx.cause = "ACTIV_CON" /\ tx.block = NoBlock /\ tx # NoTx
        /\ tx.kind = "SR_DATA" /\ u.eventind = t.eventind /\ u.cseq = t.cseq
        /\ u.stampok = t.stampok /\ u.last = t.last /\ u.lastsstamp = t.lastsstamp
        /\ u.itfrom = t.itfrom
    <3>1. u = ActivConf(t) /\ t.last.cause \in CONFIRMED
      BY <1>6, <2>3, <2>4 DEF CONFIRMED
    <3>2. t.last.type = "NR" /\ t.last.cause = "ACTIV_CON" /\ t.cseq
      BY <2>3, <2>4
    <3> HIDE DEF t, u
    <3>3. /\ ActivConf(t).lasttx = Mirror(t) /\ ActivConf(t).eventind = t.eventind
          /\ Mirror(t).type = t.last.type /\ Mirror(t).cause = t.last.cause
          /\ Mirror(t).block = NoBlock /\ Mirror(t).kind = "SR_DATA" /\ Mirror(t) # NoTx
      BY <1>3, ActivConfFields
    <3>4. /\ ActivConf(t).cseq = t.cseq /\ ActivConf(t).stampok = t.stampok
          /\ ActivConf(t).last = t.last /\ ActivConf(t).lastsstamp = t.lastsstamp
          /\ ActivConf(t).itfrom = t.itfrom
      BY <1>3, <3>1, <3>2, ActivConfFields
    <3> QED
      BY <3>1, <3>2, <3>3, <3>4
  <2>6. Delivered(cmd, "confirmed", log) /\ AtPlace(log, 0, 0)
    <3>1. 0 * Parts + 0 = 0
      BY Numbers
    <3> QED
      BY <1>1, <2>1, <3>1 DEF Delivered, AtPlace
  <2> HIDE DEF tx
  <2>7. StageAfter(tx) = "confirmed"
    BY <1>2, <2>5 DEF StageAfter
  <2> HIDE DEF u
  <2>8. /\ NextCmd(frame, tx) = cmd /\ NextStage(frame, tx) = "confirmed"
        /\ NextLog(frame, tx) = log
    BY <2>5, <2>7 DEF NextCmd, NextStage, NextLog, Commanded
  <2>9. Agree(u, cmd, "confirmed", log)
    BY <1>1, <1>8, <2>3, <2>4, <2>5, <2>6 DEF Agree, CONFIRMED
  <2>10. Good(u, tx)
    BY <1>3, <2>5, <2>8, <2>9 DEF Good
  <2> QED
    BY <1>6, <2>4, <2>10 DEF t, u, tx
<1>9. CASE stage = "cancelling"
  <2>1. d.last.cause = "DEACTIV_CON"
    BY <1>9 DEF Agree
  <2>2. t = own
    BY <1>1, <1>5, <2>1 DEF Progress, CONFIRMED
  <2> HIDE DEF t
  <2>3. /\ tx.type = "NR" /\ tx.cause = "DEACTIV_CON" /\ tx.block = NoBlock /\ tx # NoTx
        /\ tx.kind = "SR_DATA" /\ u.eventind = t.eventind /\ u.cseq = t.cseq
        /\ u.stampok = t.stampok /\ u.last.cause = "ACTIV_TERM"
        /\ u.last.type = t.last.type /\ u.last.obj = t.last.obj
    BY <1>1, <1>3, <1>4, <1>6, <2>1, <2>2, ActivConfFields
  <2>4. Delivered(cmd, "cancelled", log)
    BY <1>1 DEF Delivered
  <2> HIDE DEF tx
  <2>5. StageAfter(tx) = "cancelled"
    BY <1>2, <2>3 DEF StageAfter
  <2> HIDE DEF u
  <2>6. /\ NextCmd(frame, tx) = cmd /\ NextStage(frame, tx) = "cancelled"
        /\ NextLog(frame, tx) = log
    BY <2>3, <2>5 DEF NextCmd, NextStage, NextLog, Commanded
  <2>7. Agree(u, cmd, "cancelled", log)
    BY <1>1, <1>4, <2>2, <2>3, <2>4 DEF Agree
  <2>8. Good(u, tx)
    BY <1>3, <2>3, <2>6, <2>7 DEF Good
  <2> QED
    BY <1>4, <1>6, <2>2, <2>8 DEF t, u, tx
<1>10. CASE stage \in {"confirmed", "cancelled"} /\ d.last.cause = "ACTIV_TERM"
  <2>1. t = ends
    BY <1>1, <1>5, <1>10 DEF Progress, CONFIRMED
  <2> HIDE DEF t
  <2>2. /\ tx.type = "NR" /\ tx.cause = "ACTIV_TERM" /\ tx.block = NoBlock /\ tx # NoTx
        /\ tx.kind = "SR_DATA" /\ u.eventind = t.eventind /\ ~u.cseq
    BY <1>1, <1>3, <1>4, <1>6, <1>10, <2>1, ActivConfFields DEF CONFIRMED
  <2> HIDE DEF tx
  <2>3. StageAfter(tx) = IF stage = "cancelled" THEN "dropped" ELSE "ended"
    BY <1>2, <2>2 DEF StageAfter
  <2>4. Delivered(cmd, StageAfter(tx), log)
    <3>1. CASE stage = "cancelled"
      BY <1>1, <2>3, <3>1 DEF Delivered
    <3>2. CASE stage = "confirmed"
      <4>1. Len(log) = Periods * Parts
        BY <1>10, <3>2 DEF Agree, CONFIRMED
      <4> QED
        BY <1>1, <2>3, <3>2, <4>1 DEF Delivered
    <3> QED
      BY <1>10, <3>1, <3>2
  <2> HIDE DEF u
  <2>5. Good(u, tx)
    BY <1>3, <2>2, <2>3, <2>4, PollEnds
  <2> QED
    BY <1>4, <1>6, <2>1, <2>5 DEF t, u, tx
<1>11. CASE stage = "confirmed" /\ d.last.cause \in CONFIRMED
  <2> DEFINE p == d.lastsstamp
             k == d.itfrom
             b == <<p, k>>
  <2>1. cmd.obj = "ok" /\ AtPlace(log, p, k) /\ log \in Seq(Blocks)
        /\ p \in 0 .. Periods - 1 /\ k \in 0 .. Parts - 1
    BY <1>11 DEF Agree, CONFIRMED, Typed, Sessions
  <2>2. t = [d EXCEPT !.udid = "M_IT"]
    BY <1>1, <1>11 DEF Progress, CONFIRMED
  <2> HIDE DEF t
  <2>3. /\ t.ldid = "SR_DATA" /\ t.udid = "M_IT" /\ t.last = d.last /\ t.cseq
        /\ t.stampok /\ t.lastsstamp = p /\ t.itfrom = k
    BY <1>1, <2>2 DEF Sessions
  <2>4. u = NextIT(t) /\ Answers(t)
    BY <2>3 DEF iec102_slave_seq, Silent, Answers
  <2> HIDE DEF u
  <2>5. /\ tx = [Data(t, "M_IT", "REQ") EXCEPT !.block = b]
        /\ u.cseq = t.cseq /\ u.stampok /\ u.last.type = t.last.type
        /\ u.last.obj = t.last.obj /\ u.eventind = t.eventind
        /\ \/ /\ k < Parts - 1 /\ u.last.cause = "REQ" /\ u.itfrom = k + 1 /\ u.lastsstamp = p
           \/ /\ k = Parts - 1 /\ u.last.cause = "REQ" /\ u.itfrom = 0 /\ u.lastsstamp = p + 1
           \/ /\ k = Parts - 1 /\ p = Periods - 1 /\ u.last.cause = "ACTIV_TERM"
    <3>1. t.last.type = "NR" /\ t.last.obj # "beyond" /\ t.stampok
      BY <1>1, <2>1, <2>3
    <3>2. /\ u.lasttx = [Data(t, "M_IT", "REQ") EXCEPT !.block = <<t.lastsstamp, t.itfrom>>]
          /\ u.cseq = t.cseq /\ u.stampok /\ u.last.type = t.last.type
          /\ u.last.obj = t.last.obj /\ SameLink(t, u)
          /\ \/ /\ t.itfrom < Parts - 1 /\ u.last.cause = "REQ"
                /\ u.itfrom = t.itfrom + 1 /\ u.lastsstamp = t.lastsstamp
             \/ /\ t.itfrom = Parts - 1 /\ t.lastsstamp < Periods - 1 /\ u.last.cause = "REQ"
                /\ u.itfrom = 0 /\ u.lastsstamp = t.lastsstamp + 1
             \/ /\ t.itfrom = Parts - 1 /\ t.lastsstamp = Periods - 1
                /\ u.last.cause = "ACTIV_TERM"
      BY <1>3, <2>4, <3>1, NextITType
    <3> HIDE DEF p, k
    <3> QED
      BY <2>3, <3>2 DEF SameLink
  <2>6. tx.type = "M_IT" /\ tx.kind = "SR_DATA" /\ tx.block = b
    BY <2>5 DEF Data, NoTx
  <2>7. b # NoBlock
    BY DEF NoBlock
  <2>8. /\ Len(log) <= MaxLog /\ InOrder(Append(log, b)) /\ Append(log, b) # <<>>
        /\ k < Parts - 1 => AtPlace(Append(log, b), p, k + 1)
        /\ k = Parts - 1 => AtPlace(Append(log, b), p + 1, 0)
        /\ k = Parts - 1 /\ p = Periods - 1 => Len(Append(log, b)) = Periods * Parts
    BY <2>1, NextPlace
  <2> HIDE DEF tx, b, p, k
  <2>9. StageAfter(tx) = "confirmed"
    BY <1>1, <1>11, <2>6 DEF StageAfter, Asdus, Types
  <2>10. /\ NextCmd(frame, tx) = cmd /\ NextStage(frame, tx) = "confirmed"
         /\ NextLog(frame, tx) = Append(log, b)
    BY <2>6, <2>7, <2>8, <2>9 DEF NextCmd, NextStage, NextLog, Commanded
  <2>11. Delivered(cmd, "confirmed", Append(log, b))
    BY <2>8 DEF Delivered
  <2>12. Agree(u, cmd, "confirmed", Append(log, b))
    BY <1>1, <2>1, <2>3, <2>5, <2>8, <2>11 DEF Agree, CONFIRMED
  <2>13. tx # NoTx
    BY <2>6 DEF NoTx
  <2>14. Good(u, tx)
    BY <1>3, <2>5, <2>10, <2>12, <2>13 DEF Good
  <2> QED
    BY <2>4, <2>14 DEF t, u, tx
<1>12. \/ stage = "accepted" \/ stage = "cancelling"
       \/ stage = "confirmed" /\ d.last.cause \in CONFIRMED
       \/ stage \in {"confirmed", "cancelled"} /\ d.last.cause = "ACTIV_TERM"
  BY <1>1 DEF Agree
<1> QED
  BY <1>1, <1>7, <1>8, <1>9, <1>10, <1>11, <1>12

LEMMA PollTurn ==
  ASSUME Typed, CountTrue, Clean, trouble = "none", inflight, frame.func = "PRR_DATA1"
  PROVE  Good(Process(session, frame).session, Process(session, frame).tx)
<1> DEFINE c == Counted(session, frame)
           t == iec102_slave(c, frame)
           u == iec102_slave_seq(t)
           d == [c EXCEPT !.ldid = "SR_DATA"]
<1>1. /\ frame \in Frames /\ Proper(c) /\ Process(session, frame).session = u
      /\ Answers(t) => Process(session, frame).tx = u.lasttx
      /\ linked /\ c.commrun /\ Agree(c, cmd, stage, log)
      /\ c.eventind => c.initind /\ c.initflag
  BY TurnStart DEF Fcv
<1>2. t = Class1(c)
  BY DEF iec102_slave
<1>3. Proper(t)
  BY <1>1, SlaveType
<1> HIDE DEF c, t
<1>4. /\ c \in Sessions
      /\ d \in Sessions /\ d.ldid = "SR_DATA" /\ d.cseq = c.cseq /\ d.eventind = c.eventind
      /\ d.last = c.last /\ d.stampok = c.stampok /\ d.lastsstamp = c.lastsstamp
      /\ d.itfrom = c.itfrom
  BY <1>1 DEF Proper, Sessions, Kinds
<1>5. CASE c.initind /\ c.initflag
  <2>1. t = [d EXCEPT !.udid = "M_EI", !.eventind = FALSE]
    BY <1>1, <1>2, <1>5 DEF Class1
  <2> HIDE DEF d
  <2>2. /\ t.ldid = "SR_DATA" /\ t.udid = "M_EI" /\ ~t.eventind /\ t \in Sessions
        /\ t.cseq = c.cseq /\ t.last = c.last /\ t.stampok = c.stampok
        /\ t.lastsstamp = c.lastsstamp /\ t.itfrom = c.itfrom
    BY <1>3, <1>4, <2>1 DEF Sessions, Proper
  <2> DEFINE m == Data(t, "M_EI", "REQ")
             w == Put(t, m)
  <2>3. u = [w EXCEPT !.initflag = FALSE] /\ Answers(t)
    BY <2>2 DEF iec102_slave_seq, Silent, Answers
  <2>4. m \in Transmissions
    BY <2>2, AnswerTypes DEF Labels, Causes
  <2>5. m.type = "M_EI" /\ m.block = NoBlock /\ m.kind = "SR_DATA" /\ m # NoTx
    BY DEF Data, NoTx
  <2> HIDE DEF m
  <2>6. /\ w \in Sessions /\ w.lasttx = m /\ w.eventind = t.eventind /\ w.cseq = t.cseq
        /\ w.last = t.last /\ w.stampok = t.stampok /\ w.lastsstamp = t.lastsstamp
        /\ w.itfrom = t.itfrom
    BY <2>2, <2>4, PutType
  <2> HIDE DEF w, u
  <2>7. /\ u.lasttx = m /\ ~u.eventind /\ u.cseq = c.cseq
        /\ u.last = c.last /\ u.stampok = c.stampok /\ u.lastsstamp = c.lastsstamp
        /\ u.itfrom = c.itfrom
    BY <2>2, <2>3, <2>6 DEF Sessions
  <2>8. Agree(u, cmd, stage, log)
    BY <1>1, <2>7, AgreeFields
  <2>9. Good(u, m)
    BY <1>1, <2>5, <2>7, <2>8, PollStays DEF Types
  <2> QED
    BY <1>1, <2>3, <2>7, <2>9
<1>6. CASE ~(c.initind /\ c.initflag) /\ ~c.cseq
  <2>1. t = [c EXCEPT !.last = NoAsdu, !.ldid = "SR_NACK"]
    BY <1>1, <1>2, <1>6 DEF Class1
  <2>2. t.ldid = "SR_NACK" /\ ~t.eventind /\ ~t.cseq
    BY <1>1, <1>4, <1>6, <2>1 DEF Sessions
  <2>3. /\ Answers(t) /\ u.lasttx = Short(t) /\ Short(t).block = NoBlock /\ Short(t) # NoTx
        /\ u.eventind = t.eventind /\ u.cseq = t.cseq
    BY <1>3, <2>2, ShortTurn
  <2>4. /\ stage \notin {"accepted", "confirmed", "cancelling", "cancelled"}
        /\ Delivered(cmd, stage, log)
    BY <1>1, <1>6 DEF Agree
  <2> HIDE DEF u
  <2>5. Agree(u, cmd, stage, log)
    BY <2>2, <2>3, <2>4 DEF Agree
  <2>6. Good(u, Short(t))
    BY <1>1, <2>2, <2>3, <2>4, <2>5, PollStays DEF Running
  <2> QED
    BY <1>1, <2>3, <2>6
<1>7. CASE ~(c.initind /\ c.initflag) /\ c.cseq
  <2>1. t = Progress(d)
    BY <1>1, <1>2, <1>7 DEF Class1
  <2>2. d.cseq /\ ~d.eventind
    BY <1>1, <1>4, <1>7
  <2> HIDE DEF d
  <2>3. Agree(d, cmd, stage, log)
    BY <1>1, <1>4, AgreeFields
  <2>4. Answers(t) /\ Good(u, u.lasttx)
    BY <1>4, <2>1, <2>2, <2>3, ShortPoll, RangePoll
  <2> QED
    BY <1>1, <2>4
<1> QED
  BY <1>5, <1>6, <1>7

LEMMA TurnClean ==
  ASSUME Plain, Typed, CountTrue, Clean, trouble = "none", SlaveTurn
  PROVE  Clean' /\ answer' # NoTx
<1> DEFINE u == Process(session, frame).session
           tx == Process(session, frame).tx
<1>1. /\ inflight /\ inflight' = FALSE /\ session' = u /\ answer' = tx
      /\ trouble' = trouble /\ frame' = frame /\ fcb' = fcb /\ linked' = linked
      /\ cmd' = cmd /\ stage' = stage /\ log' = log
  BY DEF SlaveTurn, known
<1>2. frame \in Frames
  BY <1>1, FrameAsdu DEF Typed
<1>3. Good(u, tx)
  BY <1>1, <1>2, ResetTurn, StatusTurn, Poll2Turn, PollTurn, DeactivateTurn, NewCommandTurn
     DEF Frames, Functions102
<1> HIDE DEF u, tx
<1>4. (Running <=> Running') /\ StageAfter(answer)' = StageAfter(tx)
  BY <1>1 DEF StageAfter, Running
<1>5. /\ NextCmd(frame, answer)' = NextCmd(frame, tx)
      /\ NextStage(frame, answer)' = NextStage(frame, tx)
      /\ NextLog(frame, answer)' = NextLog(frame, tx)
  BY <1>1, <1>4 DEF NextCmd, NextStage, NextLog, Commanded, Acked
<1>6. Delivered(cmd, stage, log)' /\ (frame.func = "PSC_DATA" =>
         IF frame.asdu.cause = "DEACTIV"
           THEN stage \in {"accepted", "confirmed"} /\ frame.asdu = [cmd EXCEPT !.cause = "DEACTIV"]
           ELSE ~Running)'
  BY <1>1, <1>4 DEF Clean
<1>7. (linked \/ frame.func = "PSC_RESLINK" =>
         Agree(session, NextCmd(frame, answer), NextStage(frame, answer), NextLog(frame, answer)))'
  BY <1>1, <1>3, <1>5 DEF Good
<1>8. (session.eventind => session.initind /\ session.initflag)' /\ answer' # NoTx
  BY <1>1, <1>3 DEF Good
<1> QED
  BY <1>1, <1>6, <1>7, <1>8 DEF Clean

LEMMA CleanInit == Init => Clean
<1> SUFFICES ASSUME Init PROVE Clean
  OBVIOUS
<1>1. /\ session = NewSession /\ frame = NoFrame /\ answer = NoTx /\ linked = FALSE
      /\ stage = "none" /\ log = <<>>
  BY DEF Init
<1>2. ~session.eventind
  BY <1>1 DEF NewSession
<1>3. Delivered(cmd, stage, log)
  BY <1>1, NothingDelivered
<1> QED
  BY <1>1, <1>2, <1>3, NoFrameFields DEF Clean

(* A frame that sets the link up.                                          *)
LEMMA SetupClean ==
  ASSUME Typed, Clean, trouble = "none", NEW func \in {"PSC_RESLINK", "PRR_LINKSTA"},
         NEW bit, Send(func, bit, NoAsdu), linked' = FALSE, Forgotten
  PROVE  Clean'
<1> DEFINE f == [func |-> func, fcb |-> bit, asdu |-> NoAsdu]
<1>1. /\ frame = NoFrame /\ frame' = f /\ inflight' = TRUE
      /\ trouble' = trouble /\ session' = session /\ answer' = answer
      /\ cmd' = NoAsdu /\ stage' = "none" /\ log' = <<>>
  BY DEF Send, Forgotten
<1>2. f.func = func /\ ~Fcv(f)
  BY DEF Fcv
<1>3. answer = NoTx
  BY <1>1 DEF Typed
<1>4. Delivered(cmd', stage', log')
  BY <1>1, NothingDelivered
<1> HIDE DEF f
<1> QED
  BY <1>1, <1>2, <1>3, <1>4 DEF Clean

(* A frame with a count bit on a link that is up.                          *)
LEMMA DataClean ==
  ASSUME Typed, CountTrue, Clean, trouble = "none", linked,
         NEW func \in {"PSC_DATA", "PRR_DATA1", "PRR_DATA2"}, NEW a,
         Send(func, 1 - fcb, a), UNCHANGED <<linked, known>>,
         func = "PSC_DATA" =>
           IF a.cause = "DEACTIV"
             THEN stage \in {"accepted", "confirmed"} /\ a = [cmd EXCEPT !.cause = "DEACTIV"]
             ELSE ~Running
  PROVE  Clean'
<1> DEFINE f == [func |-> func, fcb |-> 1 - fcb, asdu |-> a]
<1>1. /\ frame = NoFrame /\ frame' = f /\ fcb' = 1 - fcb /\ inflight' = TRUE
      /\ trouble' = trouble /\ session' = session /\ answer' = answer
      /\ linked' = linked /\ cmd' = cmd /\ stage' = stage /\ log' = log
  BY DEF Send, known
<1>2. f.func = func /\ f.asdu = a
  OBVIOUS
<1>3. answer = NoTx /\ session.lctrl = fcb /\ fcb \in 0 .. 1
  BY <1>1 DEF Typed, CountTrue
<1>4. session.lctrl # 1 - fcb
  BY <1>3
<1>5. Agree(session, cmd, stage, log)
  BY <1>3 DEF Clean
<1>6. Running <=> Running'
  BY <1>1 DEF Running
<1> HIDE DEF f
<1> QED
  BY <1>1, <1>2, <1>3, <1>4, <1>5, <1>6 DEF Clean

LEMMA ReceiveClean == Typed /\ CountTrue /\ Clean /\ trouble = "none" /\ Receive => Clean'
<1> SUFFICES ASSUME Typed, CountTrue, Clean, trouble = "none", Receive PROVE Clean'
  OBVIOUS
<1>1. /\ frame # NoFrame /\ answer # NoTx /\ frame' = NoFrame /\ answer' = NoTx
      /\ linked' = (linked \/ (frame.func = "PSC_RESLINK" /\ Acknowledged))
      /\ trouble' = trouble /\ session' = session /\ inflight' = inflight
  BY DEF Receive
<1>2. ~inflight /\ linked \in BOOLEAN /\ Len(log) \in Nat /\ MaxLog \in Nat
  BY <1>1, Numbers DEF Typed, MaxLog
<1>3. /\ cmd' = NextCmd(frame, answer) /\ stage' = NextStage(frame, answer)
      /\ log' = NextLog(frame, answer)
  <2>1. CASE frame.func = "PSC_DATA"
    BY <2>1 DEF Receive, NextCmd, NextStage, NextLog, Commanded, Acked, Acknowledged
  <2>2. CASE frame.func = "PRR_DATA1"
    BY <1>2, <2>2 DEF Receive, NextCmd, NextStage, NextLog, Commanded
  <2>3. CASE frame.func \notin {"PSC_DATA", "PRR_DATA1"}
    BY <2>3 DEF Receive, NextCmd, NextStage, NextLog, Commanded
  <2> QED
    BY <2>1, <2>2, <2>3
<1>4. CASE linked \/ frame.func = "PSC_RESLINK"
  <2>1. Agree(session, cmd', stage', log')
    BY <1>1, <1>3, <1>4 DEF Clean
  <2>2. Delivered(cmd', stage', log')
    BY <2>1 DEF Agree
  <2> QED
    BY <1>1, <2>1, <2>2, NoFrameFields DEF Clean
<1>5. CASE ~linked /\ frame.func # "PSC_RESLINK"
  <2>1. ~Fcv(frame)
    BY <1>1, <1>5 DEF CountTrue
  <2>2. cmd' = cmd /\ stage' = stage /\ log' = log
    BY <1>3, <2>1 DEF Fcv, NextCmd, NextStage, NextLog, Commanded
  <2>3. Delivered(cmd', stage', log')
    BY <2>2 DEF Clean
  <2> QED
    BY <1>1, <1>5, <2>3, NoFrameFields DEF Clean
<1> QED
  BY <1>4, <1>5

LEMMA CleanStep == Plain /\ Typed /\ CountTrue /\ Clean /\ [Next]_vars => Clean'
<1> SUFFICES ASSUME Plain, Typed, CountTrue, Clean, [Next]_vars PROVE Clean'
  OBVIOUS
<1>1. trouble' = trouble
  BY DEF Next, SendReset, SendLinkStatus, SendCommand, SendDeactivate, SendPoll, SendPoll2,
         Send, Repeat, GiveUp, Receive, Slave, SlaveTurn, SlaveTurnSplit, vars, link
<1>2. CASE trouble # "none"
  BY <1>1, <1>2 DEF Clean
<1> SUFFICES ASSUME trouble = "none" PROVE Clean'
  BY <1>2
<1>3. CASE SendReset
  BY <1>3, SetupClean DEF SendReset
<1>4. CASE SendLinkStatus
  <2>1. Send("PRR_LINKSTA", fcb, NoAsdu) /\ linked' = FALSE /\ Forgotten
    BY <1>4 DEF SendLinkStatus, Typed
  <2> QED
    BY <2>1, SetupClean
<1>5. ASSUME NEW a \in Commands[trouble], SendCommand(a) PROVE Clean'
  <2>1. /\ linked /\ ~Running /\ Send("PSC_DATA", 1 - fcb, a) /\ UNCHANGED <<linked, known>>
    BY <1>5 DEF SendCommand
  <2>2. a.cause # "DEACTIV"
    <3>1. a \in Answered
      BY DEF Plain, Typed
    <3> QED
      BY <3>1 DEF Answered, ProperCause
  <2> QED
    BY <2>1, <2>2, DataClean
<1>6. CASE SendDeactivate
  <2> DEFINE a == [cmd EXCEPT !.cause = "DEACTIV"]
  <2>1. /\ linked /\ stage \in {"accepted", "confirmed"} /\ Send("PSC_DATA", 1 - fcb, a)
        /\ UNCHANGED <<linked, known>>
    BY <1>6 DEF SendDeactivate
  <2>2. a.cause = "DEACTIV"
    <3>1. cmd \in Asdus \cup {NoAsdu}
      BY SessionAssumption DEF Typed
    <3> QED
      BY <3>1 DEF Asdus, NoAsdu
  <2> QED
    BY <2>1, <2>2, DataClean
<1>7. CASE SendPoll
  BY <1>7, DataClean DEF SendPoll
<1>8. CASE SendPoll2
  BY <1>8, DataClean DEF SendPoll2
<1>9. ~Repeat /\ ~GiveUp
  BY DEF Repeat, GiveUp, InVain, Clean
<1>10. CASE Receive
  BY <1>10, ReceiveClean
<1>11. CASE SlaveTurn
  BY <1>11, TurnClean
<1>12. ~SlaveTurnSplit
  BY DEF SlaveTurnSplit
<1>13. CASE UNCHANGED vars
  <2>1. /\ trouble' = trouble /\ session' = session /\ frame' = frame /\ inflight' = inflight
        /\ answer' = answer /\ fcb' = fcb /\ linked' = linked /\ cmd' = cmd /\ stage' = stage
        /\ log' = log
    BY <1>13 DEF vars, link, known
  <2>2. (Running <=> Running') /\ StageAfter(answer)' = StageAfter(answer)
    BY <2>1 DEF StageAfter, Running
  <2>3. /\ NextCmd(frame, answer)' = NextCmd(frame, answer)
        /\ NextStage(frame, answer)' = NextStage(frame, answer)
        /\ NextLog(frame, answer)' = NextLog(frame, answer)
    BY <2>1, <2>2 DEF NextCmd, NextStage, NextLog, Commanded, Acked
  <2> QED
    BY <2>1, <2>2, <2>3 DEF Clean
<1> QED
  BY <1>3, <1>4, <1>5, <1>6, <1>7, <1>8, <1>9, <1>10, <1>11, <1>12, <1>13 DEF Next, Slave

LEMMA Inductive == ASSUME Plain PROVE Spec => []IInv
<1>1. Init => IInv
  BY TypedInit, CountInit, CleanInit DEF IInv
<1>2. IInv /\ [Next]_vars => IInv'
  BY TypedStep, CountStep, CleanStep DEF IInv
<1> QED
  BY <1>1, <1>2, PTL DEF Spec

(* On a link without trouble, to a slave that is sent the commands it      *)
(* answers in full, the totals of a time range come confirmed, complete    *)
(* and in order for any number of periods and parts, whatever is           *)
(* cancelled, reset or given up in between (iec102_put_ALL_IT,             *)
(* IEC102protocol.c:1299; iec102_deactivation, IEC102protocol.c:112).      *)
THEOREM RangeDelivered == ASSUME Plain PROVE Spec => []TotalsDelivered
<1>1. IInv => TotalsDelivered
  <2> SUFFICES ASSUME IInv, trouble = "none"
               PROVE  DataInOrder /\ CompleteAtEnd /\ ConfirmBeforeData
    BY DEF TotalsDelivered
  <2>1. log \in Seq(Blocks) /\ Delivered(cmd, stage, log)
    BY DEF IInv, Typed, Clean
  <2> QED
    BY <2>1, DeliveredTotals
<1> QED
  BY <1>1, Inductive, PTL

(* Whenever the line is quiet both sides agree whether a command is        *)
(* running, and which (context->cseq, IEC102protocol.c:1699-1885).         *)
THEOREM SidesAgree == ASSUME Plain PROVE Spec => []SessionSound
<1>1. IInv => AgreeOnProgress
  <2> SUFFICES ASSUME IInv, trouble = "none", frame = NoFrame, linked
               PROVE  /\ session.cseq <=> Running
                      /\ session.cseq => session.last.type = cmd.type
    BY DEF AgreeOnProgress
  <2>1. answer = NoTx
    BY DEF IInv, Typed
  <2>2. Agree(session, cmd, stage, log)
    BY <2>1 DEF IInv, Clean
  <2> QED
    BY <2>2 DEF Agree, Running
<1> QED
  BY <1>1, Inductive, SessionTypes, PTL DEF SessionSound

(* On such a link a poll for class 1 data is always answered: none of the  *)
(* answers whose code is commented out is ever due                         *)
(* (iec102_slave_seq, IEC102protocol.c:2128-2166).                         *)
THEOREM PollsAnswered == ASSUME Plain PROVE Spec => EveryPollAnswered
<1>1. IInv /\ [Next]_vars =>
        [trouble = "none" /\ SlaveTurn /\ frame.func = "PRR_DATA1" => answer' # NoTx]_vars
  BY TurnClean DEF IInv
<1> QED
  BY <1>1, Inductive, PTL DEF Spec, EveryPollAnswered
=============================================================================
