----------------------------- MODULE MCMsgFraming -----------------------------
(***************************************************************************)
(* MsgFraming for TLC: an empty message, one that looks like a head, one   *)
(* longer than the buffers, and one above the limit of recv_msg.           *)
(***************************************************************************)
EXTENDS MsgFraming

MCMagic == 9
MCMessages == {<<>>, <<9, 1>>, <<9, 0, 9, 2>>, <<9, 9, 9, 9, 9>>}

==============================================================================
