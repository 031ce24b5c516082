------------------------------ MODULE MsgChannel ------------------------------
(***************************************************************************)
(* One direction of the pipe as its two users see it: a bounded FIFO queue *)
(* of messages with a blocking write and a blocking read. IpcPipe uses the *)
(* two operators for its two directions; the specification below is what   *)
(* MsgFraming, the transfer of the bytes, is shown to implement.           *)
(***************************************************************************)
EXTENDS ChannelOps

CONSTANT Messages

VARIABLES queue,   \* messages written and not yet read
          got      \* messages read, in the order they were read

ChannelInit == queue = <<>> /\ got = <<>>

Write == \E m \in Messages : send_msg(queue, m) /\ UNCHANGED got

Read == recv_msg(queue) /\ got' = Append(got, Head(queue))

ChannelSpec == ChannelInit /\ [][Write \/ Read]_<<queue, got>>

==============================================================================
