--------------------------- MODULE Iec102Session ---------------------------
(***************************************************************************)
(* One connection between an IEC 60870-5-102 master and the concentrator:  *)
(* the slave of Iec102Slave, the frame and the answer that are under way,  *)
(* and a master that obeys the protocol.  The link is half duplex: the     *)
(* master sends a frame, waits for the answer, and repeats the frame with  *)
(* the same frame count bit when it has waited in vain.  TCP loses         *)
(* nothing, but an answer that comes too late (the slave reads a data base *)
(* for it) is lost to the master, and a frame that arrives in pieces, more *)
(* than 200 ms apart, is lost to the slave.                                *)
(***************************************************************************)
EXTENDS Iec102Slave, SequencesExt

CONSTANTS Troubles,     \* what may be wrong with the link: "none", "late"
                        \* (answers may come too late), "split" (frames
                        \* may arrive in pieces)
          Commands,     \* the ASDUs the master sends, for each trouble
          Deactivable   \* the types of commands it may cancel

ASSUME SessionAssumption ==
    /\ Troubles \subseteq {"none", "late", "split"}
    /\ Commands \in [Troubles -> SUBSET Asdus]
    /\ Deactivable \in [Troubles -> SUBSET Types]

VARIABLES trouble,      \* the kind of link this one is; never changes
          session,      \* the slave's DPA_CONN_CONTEXT
          frame,        \* the frame the master waits for an answer to
          inflight,     \* the frame is on its way to the slave
          answer,       \* the answer on its way to the master, or NoTx
          fcb,          \* the frame count bit the master used last
          linked,       \* the master has reset the link
          cmd,          \* the last command the slave has acknowledged
          stage,        \* how far the master knows it to be: "none",
                        \* "accepted", "confirmed", "ended", "refused",
                        \* "cancelling", "cancelled", "dropped"
          log,          \* the blocks of totals received for it
          acd           \* access demand in the last answer

link   == <<trouble, frame, inflight, answer, fcb, linked>>
known  == <<cmd, stage, log, acd>>
vars   == <<session, link, known>>

NoFrame   == [func |-> "NONE", fcb |-> 0, asdu |-> NoAsdu]
Running   == stage \in {"accepted", "confirmed", "cancelling", "cancelled"}

(* Bound: of more blocks than there are only one is recorded.              *)
MaxLog == Periods * Parts

Init ==
    /\ trouble \in Troubles
    /\ session = NewSession
    /\ frame = NoFrame
    /\ inflight = FALSE
    /\ answer = NoTx
    /\ fcb = 0
    /\ linked = FALSE
    /\ cmd = NoAsdu
    /\ stage = "none"
    /\ log = <<>>
    /\ acd = FALSE

----------------------------------------------------------------------------
(* The master *)

Send(func, bit, asdu) ==
    /\ frame = NoFrame
    /\ frame' = [func |-> func, fcb |-> bit, asdu |-> asdu]
    /\ fcb' = bit
    /\ inflight' = TRUE
    /\ UNCHANGED <<trouble, session, answer>>

Forgotten == cmd' = NoAsdu /\ stage' = "none" /\ log' = <<>> /\ acd' = FALSE

SendReset ==
    /\ Send("PSC_RESLINK", 0, NoAsdu)
    /\ linked' = FALSE
    /\ Forgotten

(* Asks for the status of the link: part of setting it up.                 *)
SendLinkStatus ==
    /\ ~linked
    /\ Send("PRR_LINKSTA", fcb, NoAsdu)
    /\ Forgotten
    /\ UNCHANGED linked

SendCommand(a) ==
    /\ linked
    /\ ~Running
    /\ Send("PSC_DATA", 1 - fcb, a)
    /\ UNCHANGED <<linked, known>>

SendDeactivate ==
    /\ linked
    /\ stage \in {"accepted", "confirmed"}
    /\ cmd.type \in Deactivable[trouble]
    /\ Send("PSC_DATA", 1 - fcb, [cmd EXCEPT !.cause = "DEACTIV"])
    /\ UNCHANGED <<linked, known>>

SendPoll ==
    /\ linked
    /\ Send("PRR_DATA1", 1 - fcb, NoAsdu)
    /\ UNCHANGED <<linked, known>>

SendPoll2 ==
    /\ linked
    /\ Send("PRR_DATA2", 1 - fcb, NoAsdu)
    /\ UNCHANGED <<linked, known>>

(* The master has waited in vain: there is no answer, or it is late.  A    *)
(* late answer is thrown away before the frame is repeated.                *)
InVain ==
    /\ frame # NoFrame
    /\ ~inflight
    /\ answer = NoTx \/ trouble = "late"
    /\ answer' = NoTx

Repeat ==
    /\ InVain
    /\ inflight' = TRUE
    /\ UNCHANGED <<trouble, session, frame, fcb, linked, known>>

GiveUp ==
    /\ InVain
    /\ frame' = NoFrame
    /\ linked' = FALSE
    /\ Forgotten
    /\ UNCHANGED <<trouble, session, inflight, fcb>>

(* What the answer to a poll tells the master about its command.           *)
StageAfter(tx) ==
    LET mirror == tx.type = cmd.type /\ Running IN
    CASE mirror /\ tx.cause = "ACTIV_CON"     -> "confirmed"
      [] mirror /\ tx.cause = "DEACTIV_CON"   -> "cancelled"
      [] mirror /\ tx.cause = "REFUSED"       -> "refused"
      [] mirror /\ tx.cause = "SYNCH"         -> "ended"
      [] mirror /\ tx.cause = "ACTIV_TERM"    ->
           IF stage = "cancelled" THEN "dropped" ELSE "ended"
      [] Running /\ (tx.type = "P_MP" \/ tx.kind = "SR_NACK") -> "ended"
      [] OTHER                                -> stage

Acknowledged == answer.kind \in {"SC_ACK", "ACK_E5"}

Receive ==
    /\ frame # NoFrame
    /\ answer # NoTx
    /\ frame' = NoFrame
    /\ answer' = NoTx
    /\ acd' = IF answer.kind = "ACK_E5" THEN acd ELSE answer.acd
    /\ linked' = (linked \/ (frame.func = "PSC_RESLINK" /\ Acknowledged))
    /\ IF frame.func = "PSC_DATA"
         THEN IF ~Acknowledged THEN UNCHANGED <<cmd, stage, log>>
              ELSE IF frame.asdu.cause = "DEACTIV"
                THEN stage' = "cancelling" /\ UNCHANGED <<cmd, log>>
                ELSE cmd' = frame.asdu /\ stage' = "accepted" /\ log' = <<>>
         ELSE IF frame.func # "PRR_DATA1" THEN UNCHANGED <<cmd, stage, log>>
         ELSE /\ stage' = StageAfter(answer)
              /\ log' = IF answer.block = NoBlock \/ Len(log) > MaxLog
                        THEN log ELSE Append(log, answer.block)
              /\ UNCHANGED cmd
    /\ UNCHANGED <<trouble, session, inflight, fcb>>

----------------------------------------------------------------------------
(* The slave *)

(* iec102_rx_frame_seq_tx_process: the frame is complete.                  *)
SlaveTurn ==
    /\ inflight
    /\ inflight' = FALSE
    /\ session' = Process(session, frame).session
    /\ answer' = Process(session, frame).tx
    /\ UNCHANGED <<trouble, frame, fcb, linked, known>>

(* The same when the frame is not complete after 200 ms: it is lost, and   *)
(* all the same an answer is sent.                                         *)
SlaveTurnSplit ==
    /\ trouble = "split"
    /\ inflight
    /\ inflight' = FALSE
    /\ session' = ProcessGarbage(session).session
    /\ answer' = ProcessGarbage(session).tx
    /\ UNCHANGED <<trouble, frame, fcb, linked, known>>

Slave == SlaveTurn \/ SlaveTurnSplit

Next ==
    \/ SendReset \/ SendLinkStatus
    \/ \E a \in Commands[trouble] : SendCommand(a)
    \/ SendDeactivate \/ SendPoll \/ SendPoll2
    \/ Repeat \/ GiveUp \/ Receive
    \/ Slave

Spec == Init /\ [][Next]_vars

(* The server task runs, and a master that waits goes on.  It sets the     *)
(* link up when it has none, and keeps polling it for class 1 data when it *)
(* has one, whatever else it does.                                         *)
FairSpec ==
    /\ Spec
    /\ WF_vars(Slave) /\ WF_vars(Receive) /\ WF_vars(Repeat \/ GiveUp)
    /\ WF_vars(~linked /\ SendReset)
    /\ SF_vars(SendPoll)

----------------------------------------------------------------------------
(* Properties *)

TypeOK ==
    /\ session.lctrl \in 0 .. 1
    /\ session.last \in Asdus \cup {NoAsdu}
    /\ session.lastsstamp \in 0 .. Periods - 1
    /\ session.itfrom \in 0 .. Parts - 1
    /\ frame.asdu \in Asdus \cup {NoAsdu}
    /\ inflight => frame # NoFrame /\ answer = NoTx
    /\ fcb \in 0 .. 1
    /\ cmd \in Commands[trouble] \cup {NoAsdu}

(* The blocks the master is to get for a command.                          *)
PastTotals  == [k \in 1 .. Parts |-> <<0, k - 1>>]
RangeTotals == [k \in 1 .. Periods * Parts |->
                   <<(k - 1) \div Parts, (k - 1) % Parts>>]
Expected(a) == IF a.type = "NR" THEN RangeTotals ELSE PastTotals

(* The master gets the totals it asked for, each once and in order: none   *)
(* is skipped, repeated or taken from another period.                      *)
DataInOrder == IsPrefix(log, Expected(cmd))

(* When the master is told that a command for totals is done, it has got   *)
(* all of them.                                                            *)
CompleteAtEnd ==
    stage = "ended" /\ cmd.type \in {"NA", "NC", "ND", "NR"}
        => log = Expected(cmd)

(* No block of totals is sent before the command is confirmed.             *)
ConfirmBeforeData == log # <<>> => stage # "accepted"

(* On a link without trouble a master gets the totals of a time range      *)
(* confirmed, complete and in order, whatever it sends, cancels or resets  *)
(* in between (the cursor that iec102_put_ALL_IT writes back into the      *)
(* command, IEC102protocol.c:1565).                                        *)
TotalsDelivered ==
    trouble = "none" => DataInOrder /\ CompleteAtEnd /\ ConfirmBeforeData

(* Whenever the line is quiet both sides agree whether a command is        *)
(* running, and which: the slave is never busy for a command the master    *)
(* has finished with, nor the other way round.                             *)
AgreeOnProgress ==
    trouble = "none" /\ frame = NoFrame /\ linked =>
        /\ session.cseq <=> Running
        /\ session.cseq => session.last.type = cmd.type

(* The session is proper, and the master's view of it true.                *)
SessionSound == TypeOK /\ AgreeOnProgress

(* Unless frames come in pieces, a command the slave acknowledges is the   *)
(* command it works on: the acknowledgement is not for an earlier frame.   *)
AcknowledgedRuns ==
    trouble # "split" /\ answer.kind \in {"SC_ACK", "ACK_E5"} /\ frame.func = "PSC_DATA"
            /\ frame.asdu.cause # "DEACTIV"
        => session.cseq /\ session.last.type = frame.asdu.type

(* A command that is repeated because its acknowledgement was late is not  *)
(* started a second time, what the first has reached stands, and it gets   *)
(* the acknowledgement again that the first got, negative or positive.     *)
CommandOnce ==
    [][trouble = "late" /\ SlaveTurn /\ frame.func = "PSC_DATA" /\ Repeated(session, frame)
            /\ frame.asdu.cause # "DEACTIV"
          => /\ session'.cseq
             /\ session'.last = session.last
             /\ answer'.kind = session.lasttx.kind]_vars

(* On a link without trouble every poll for class 1 data is answered, with *)
(* data, with a confirmation or non-confirmation, or with "no data".       *)
EveryPollAnswered ==
    [][trouble = "none" /\ SlaveTurn /\ frame.func = "PRR_DATA1"
          => answer' # NoTx]_vars

(* A master that keeps polling brings every sequence to its end: the slave *)
(* is not busy for ever.                                                   *)
SequenceEnds ==
    trouble = "none" /\ session.cseq ~> ~session.cseq
=============================================================================
