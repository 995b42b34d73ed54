---------------------------- MODULE Iec102Slave ----------------------------
(***************************************************************************)
(* What the concentrator does with one frame of an IEC 60870-5-102 master: *)
(* the session a connection keeps (DPA_CONN_CONTEXT) and the functions     *)
(* from a session and a frame to the next session and an answer.           *)
(*                                                                         *)
(* Every call of iec102_rx_frame_seq_tx_process is                         *)
(* iec102_frame_process (the link layer FT12_ll_con_ind and, if it         *)
(* indicates, iec102_slave) and then always iec102_slave_seq.              *)
(*                                                                         *)
(* Types of commands stand for the groups that the code treats alike:      *)
(*   RD   C_RD_NA, C_TI_NA           polling sequences                     *)
(*   SP   C_SP_NA                    single points                         *)
(*   NA   C_CI_NA, NE                totals of the oldest period           *)
(*   NC   C_CI_NC, NG                totals of one past period             *)
(*   ND   C_CI_ND, NH                the same, and a range of addresses    *)
(*   NR   C_CI_NR, NS                totals of a time range                *)
(*   NT   C_CI_NT, NU   and   NJ  C_CI_NJ, NN     not implemented          *)
(*   SYN  C_SYN_TA                   time synchronisation                  *)
(*   XX   a type the code does not know                                    *)
(* C_SP_NB and C_CI_NB, NF are left out: they go the way of NA.            *)
(* The total of a period is sent in Parts frames; a time range covers      *)
(* Periods periods.  A block <<p, k>> is part k of period p.               *)
(***************************************************************************)
EXTENDS Integers, Sequences

CONSTANTS Periods, Parts

ASSUME SlaveAssumption == Periods \in Nat \ {0} /\ Parts \in Nat \ {0}

Types  == {"RD", "SP", "NA", "NC", "ND", "NR", "NT", "NJ", "SYN", "XX"}

(* Causes of transmission; REFUSED stands for the negative ones            *)
(* (TYPE_NAVAILABLE, OBJ_NAVAILABLE, ADDR_NKNOWEN, ...).                   *)
Causes == {"ACTIV", "REQ", "SYNCH", "DEACTIV", "ACTIV_CON", "DEACTIV_CON",
           "ACTIV_TERM", "REFUSED"}

(* The information objects of a command: "ok", "refused" by iec102_check_IT*)
(* or "beyond": a range that starts above the configured information       *)
(* objects, which iec102_check_IT lets pass.                               *)
Objs == {"ok", "refused", "beyond"}

CONFIRMED == {"ACTIV_CON", "REQ"}       \* causes of a sequence under way

Asdus    == [type : Types, cause : Causes, obj : Objs]
NoAsdu   == [type |-> "NONE", cause |-> "NONE", obj |-> "ok"]
NoBlock  == <<>>
NoTx     == [kind |-> "NONE", acd |-> FALSE, type |-> "NONE",
             cause |-> "NONE", block |-> NoBlock]

Elsewhere == Periods        \* a period that was not asked for

(* A frame of the master.  Frame count bits are valid (FCV) in the three   *)
(* functions that carry or ask for data.                                   *)
Fcv(f) == f.func \in {"PSC_DATA", "PRR_DATA1", "PRR_DATA2"}

(* The session after accept: all zero, and zero is the code of SC_ACK.     *)
NewSession ==
    [lctrl |-> 0, commrun |-> FALSE, initind |-> FALSE, eventind |-> FALSE,
     initflag |-> FALSE, cseq |-> FALSE, ldid |-> "SC_ACK", udid |-> "NONE",
     last |-> NoAsdu, lastsstamp |-> 0, itfrom |-> 0, stampok |-> TRUE,
     unfinished |-> FALSE, lasttx |-> NoTx]

----------------------------------------------------------------------------
(* FT12_ll_con_ind, frames of a primary station.  A frame whose count bit  *)
(* did not change is answered with the last frame and not indicated, but   *)
(* PSC_DATA is indicated all the same when no sequence is in progress.     *)

Repeated(s, f) == Fcv(f) /\ f.fcb = s.lctrl

(* Mutant: PSC_DATA is indicated whatever is in progress.                *)
Indicated_Always(s, f) ==
    Repeated(s, f) => s.lasttx # NoTx /\ f.func = "PSC_DATA"

Indicated(s, f) ==
    Repeated(s, f) =>
        s.lasttx # NoTx /\ f.func = "PSC_DATA" /\ ~s.cseq

Counted(s, f) ==
    [s EXCEPT !.lctrl = IF Fcv(f) THEN f.fcb
                        ELSE IF f.func = "PSC_RESLINK" THEN 0 ELSE @]

----------------------------------------------------------------------------
(* iec102_slave *)

(* Mutant: the running command survives the reset.                       *)
ResetLink_Busy(s) ==
    [s EXCEPT !.ldid = "SC_ACK", !.initflag = TRUE, !.commrun = TRUE,
              !.eventind = TRUE, !.initind = TRUE]

ResetLink(s) ==
    [s EXCEPT !.last = NoAsdu, !.cseq = FALSE, !.ldid = "SC_ACK",
              !.initflag = TRUE, !.commrun = TRUE,
              !.eventind = TRUE, !.initind = TRUE]

LinkStatus(s) ==
    [s EXCEPT !.cseq = FALSE, !.ldid = "SR_STAT",
              !.initind = TRUE, !.eventind = FALSE]

(* iec102_deactivation: the request must repeat the running command to the *)
(* byte, and the object bytes are the ones iec102_prepare_IT writes its    *)
(* cursor to.                                                              *)
Deactivates(s, a) ==
    /\ a.type = s.last.type /\ a.obj = s.last.obj
    /\ \/ a.type \in {"SP", "NA"}
       \/ a.type \in {"NR", "ND"} /\ s.itfrom = 0
       \/ a.type = "NC" /\ s.stampok

Deactivate(s, a) ==
    IF s.cseq /\ Deactivates(s, a)
      THEN [s EXCEPT !.ldid = "SC_ACK", !.last.cause = "DEACTIV_CON"]
      ELSE [s EXCEPT !.ldid = "SC_NACK"]

(* The cause of transmission the code expects with each type.              *)
ProperCause(type) == CASE type = "RD"  -> "REQ"
                       [] type = "SYN" -> "SYNCH"
                       [] OTHER        -> "ACTIV"

(* Mutant: no sequence is begun.                                         *)
Command_Forgotten(s, a) ==
    [s EXCEPT !.ldid = "ACK_E5", !.lastsstamp = 0, !.itfrom = 0, !.last = a]

(* A new command for one past period begins where the first byte of its    *)
(* time says (in the last part, here) if the one before was cut short.     *)
Command(s, a) ==
    [s EXCEPT !.ldid = IF a.type \in {"NC", "ND", "XX"} THEN "SC_ACK"
                                                        ELSE "ACK_E5",
              !.cseq = TRUE,
              !.lastsstamp = 0,
              !.itfrom = IF a.type = "NC" /\ s.unfinished THEN Parts - 1
                         ELSE 0,
              !.stampok = TRUE,
              !.last = IF a.cause = ProperCause(a.type)
                         THEN a ELSE [a EXCEPT !.cause = "REFUSED"]]

SendData(s, a) ==
    IF ~s.commrun THEN s
    ELSE IF a.cause = "DEACTIV" THEN Deactivate(s, a)
    ELSE IF s.cseq THEN [s EXCEPT !.ldid = "SC_NACK"]
    ELSE Command(s, a)

(* A poll for class 1 data while a command is in progress: which answer    *)
(* comes next, by the cause the command has reached.                       *)
Own(s)  == [s EXCEPT !.udid = s.last.type]
Finish(s) == [Own(s) EXCEPT !.cseq = FALSE]

Progress(s) ==
    LET type == s.last.type  cause == s.last.cause IN
    CASE type = "RD" ->
           [Finish(s) EXCEPT !.udid = IF cause = "REQ" THEN "P_MP" ELSE "RD"]
      [] type = "SYN" -> Finish(s)
      [] type \in {"NT", "NJ", "XX"} ->
           [Finish(s) EXCEPT !.last.cause = "REFUSED"]
      [] type = "NONE" -> [s EXCEPT !.ldid = "SR_NACK", !.cseq = FALSE]
      [] type = "SP" /\ cause = "ACTIV" ->
           [Finish(s) EXCEPT !.last.cause = "REFUSED"]
      [] type \in {"NA", "NC", "ND", "NR"} /\ cause = "ACTIV" ->
           IF s.last.obj = "refused"
             THEN [Finish(s) EXCEPT !.last.cause = "REFUSED"]
             ELSE [Own(s) EXCEPT !.last.cause = "ACTIV_CON"]
      [] type \in {"NA", "NC", "ND", "NR"}
             /\ cause \in CONFIRMED -> [s EXCEPT !.udid = "M_IT"]
      [] type \in {"SP", "NA", "NC", "ND", "NR"}
             /\ cause = "DEACTIV_CON" -> Own(s)
      [] OTHER -> Finish(s)

Class1(s) ==
    LET d == [s EXCEPT !.ldid = "SR_DATA"] IN
    IF ~s.commrun THEN s
    ELSE IF s.initind /\ s.initflag
           THEN [d EXCEPT !.udid = "M_EI", !.eventind = FALSE]
    ELSE IF s.eventind THEN [d EXCEPT !.udid = "M_SP"]
    ELSE IF ~s.cseq THEN [s EXCEPT !.last = NoAsdu, !.ldid = "SR_NACK"]
    ELSE Progress(d)

iec102_slave(s, f) ==
    CASE f.func = "PSC_RESLINK" -> ResetLink(s)
      [] f.func = "PRR_LINKSTA" -> LinkStatus(s)
      [] f.func = "PSC_DATA"    -> SendData(s, f.asdu)
      [] f.func = "PRR_DATA1"   -> Class1(s)
      [] f.func = "PRR_DATA2"   -> [s EXCEPT !.ldid = "SR_NACK"]

----------------------------------------------------------------------------
(* iec102_slave_seq: an answer is a function of the session alone.         *)

class1ind(s) == s.eventind \/ s.cseq

Put(s, tx) == [s EXCEPT !.lasttx = tx]      \* FT12_102_tx_put

Short(s) ==
    [NoTx EXCEPT !.kind = s.ldid,
                 !.acd = s.ldid # "ACK_E5" /\ class1ind(s)]
Data(s, type, cause) ==
    [NoTx EXCEPT !.kind = "SR_DATA", !.acd = class1ind(s),
                 !.type = type, !.cause = cause]
Mirror(s) == Data(s, s.last.type, s.last.cause)

(* Mutant: a confirmed cancellation stays where it is.                   *)
ActivConf_Stays(s) ==
    LET t == Put(s, Mirror(s)) IN
    IF s.last.cause \in CONFIRMED \cup {"DEACTIV_CON"} /\ s.cseq THEN t
    ELSE [t EXCEPT !.cseq = FALSE]

(* iec102_activ_conf *)
ActivConf(s) ==
    LET t == Put(s, Mirror(s)) IN
    CASE s.last.cause = "DEACTIV_CON" -> [t EXCEPT !.last.cause = "ACTIV_TERM"]
      [] s.last.cause \in CONFIRMED /\ s.cseq -> t
      [] OTHER -> [t EXCEPT !.cseq = FALSE]

(* Mutant: the cursor is not set back for the next period.               *)
NextIT_Cursor(s) ==
    LET t == Put(s, [Data(s, "M_IT", "REQ") EXCEPT !.block =
                        <<s.lastsstamp, s.itfrom>>]) IN
    CASE s.itfrom < Parts - 1 ->
           [t EXCEPT !.last.cause = "REQ", !.itfrom = s.itfrom + 1]
      [] s.itfrom = Parts - 1 /\ s.lastsstamp < Periods - 1 ->
           [t EXCEPT !.last.cause = "REQ", !.lastsstamp = s.lastsstamp + 1]
      [] OTHER -> [t EXCEPT !.last.cause = "ACTIV_TERM", !.lastsstamp = 0]

(* iec102_prepare_IT and iec102_check_resp: the next block of totals.  The *)
(* cursor is lastsstamp (0 is the first period of the range) and itfrom.   *)
(* The oldest period has time stamp 0, which reads nothing.  For one past  *)
(* period the cursor is written over the first byte of its time stamp.  A  *)
(* range beyond the configured objects sends empty blocks, and the time    *)
(* stamp never gets past the first period.                                 *)
NextIT(s) ==
    LET tx   == [Data(s, "M_IT", "REQ") EXCEPT !.block =
                   <<IF s.stampok THEN s.lastsstamp ELSE Elsewhere, s.itfrom>>]
        t    == Put(s, tx)
        more == s.itfrom < Parts - 1
        over == [t EXCEPT !.last.cause = "ACTIV_TERM", !.lastsstamp = 0]
    IN
    CASE s.last.type = "NA" ->
           LET u == [s EXCEPT !.last.cause = "ACTIV_TERM", !.cseq = FALSE]
           IN  Put([u EXCEPT !.unfinished = FALSE],
                   [Mirror(u) EXCEPT !.acd = FALSE])
      [] s.last.type # "NA" /\ s.last.obj = "beyond" ->
           LET u == Put(s, [tx EXCEPT !.block = NoBlock])
           IN  [u EXCEPT !.last.cause = IF s.last.type = "NR" THEN "REQ"
                                        ELSE "ACTIV_TERM"]
      [] s.last.type # "NA" /\ s.last.obj # "beyond" /\ more ->
           [t EXCEPT !.last.cause = "REQ", !.itfrom = s.itfrom + 1,
                     !.stampok = s.stampok /\ s.last.type # "NC",
                     !.unfinished = @ \/ s.last.type = "NC"]
      [] s.last.type = "NR" /\ s.last.obj # "beyond" /\ ~more ->
           IF s.lastsstamp = Periods - 1
             THEN over
             ELSE [t EXCEPT !.last.cause = "REQ", !.itfrom = 0,
                            !.lastsstamp = s.lastsstamp + 1]
      [] OTHER ->
           [over EXCEPT !.stampok = s.stampok /\ s.last.type # "NC",
                        !.unfinished = @ /\ s.last.type # "NC"]

(* Mutant: the confirmation of a time range is left out too.             *)
Silent_Range == {"M_SP", "RD", "SP", "NA", "NC", "ND", "NJ", "NR"}

(* The answers whose code is commented out, and M_SP.                      *)
Silent == {"M_SP", "RD", "SP", "NA", "NC", "ND", "NJ"}

iec102_slave_seq(s) ==
    IF s.ldid # "SR_DATA" THEN Put(s, Short(s)) ELSE
    CASE s.udid \in Silent -> s
      [] s.udid = "M_EI" -> [Put(s, Data(s, "M_EI", "REQ"))
                                EXCEPT !.initflag = FALSE]
      [] s.udid = "P_MP" -> Put(s, Data(s, "P_MP", "REQ"))
      [] s.udid = "M_IT" -> NextIT(s)
      [] s.udid \in {"NR", "NT", "SYN"} \ Silent -> ActivConf(s)
      [] OTHER -> [Put(s, Data(s, s.last.type, "REFUSED"))
                      EXCEPT !.cseq = FALSE]

(* Whether that call put an answer of its own into txframe.                *)
Answers(s) == s.ldid = "SR_DATA" => s.udid \notin Silent

----------------------------------------------------------------------------
(* iec102_frame_process for a complete frame with the right link address,  *)
(* and iec102_rx_frame_seq_tx_process: the session and the answer.         *)
FrameProcess(s, f) ==
    IF Indicated(s, f) THEN iec102_slave(Counted(s, f), f) ELSE s

(* The answer is what iec102_slave_seq has put; if it has put nothing, the *)
(* last frame that FT12_ll_con_ind copied for a repetition, or nothing.    *)
Process(s, f) ==
    LET t == FrameProcess(s, f)
        u == iec102_slave_seq(t)
    IN  [session |-> u,
         tx |-> IF Answers(t) THEN u.lasttx
                ELSE IF Repeated(s, f) THEN s.lasttx ELSE NoTx]

(* A frame that is incomplete, damaged or for another link address.        *)
ProcessGarbage(s) ==
    LET u == iec102_slave_seq(s)
    IN  [session |-> u, tx |-> IF Answers(s) THEN u.lasttx ELSE NoTx]
=============================================================================
