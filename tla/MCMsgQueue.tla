----------------------------- MODULE MCMsgQueue -----------------------------
(***************************************************************************)
(* The instance of MsgQueue for TLC: its constants are in the cfg file.    *)
(***************************************************************************)
EXTENDS MsgQueue
=============================================================================
