------------------------------ MODULE ChannelOps ------------------------------
(***************************************************************************)
(* send_msg and recv_msg of rlib on one direction of the pipe: a message   *)
(* is put into the stream and taken out as a whole, and both calls block.  *)
(* MsgFraming shows that their byte-wise implementation behaves like this. *)
(***************************************************************************)
EXTENDS Integers, Sequences

CONSTANT PipeCap   \* messages the socket buffers of one direction hold

ASSUME PipeAssumption == PipeCap \in Nat \ {0}

\* send_msg blocks while the socket buffers are full.
send_msg(ch, m) ==
    /\ Len(ch) < PipeCap
    /\ ch' = Append(ch, m)

\* recv_msg blocks until a message is there.
recv_msg(ch) ==
    /\ ch # <<>>
    /\ ch' = Tail(ch)

==============================================================================
