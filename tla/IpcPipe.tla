------------------------------- MODULE IpcPipe -------------------------------
(***************************************************************************)
(* The loop-back TCP connection between the inbound and the outbound       *)
(* thread. Each thread owns one end and keeps it in its ipcPipe field.     *)
(* send_msg and recv_msg of rlib (ChannelOps) put a length-prefixed frame  *)
(* into the stream and take one out. The frames do not say whether they    *)
(* carry a client id or a payload: the tag below is for the properties,    *)
(* and no action looks at it.                                              *)
(***************************************************************************)
EXTENDS Net, ChannelOps

VARIABLES inboundPipe,    \* BaseInbound::ipcPipe is no longer -1
          outboundPipe,   \* BaseOutbound::ipcPipe is no longer -1
          toOut,          \* frames on the way to the outbound thread
          toIn            \* frames on the way to the inbound thread

pipeVars == <<inboundPipe, outboundPipe, toOut, toIn>>

\* makeClientId copies the whole SockAddr, also the bytes recvfrom did not set.
ClientId == Clients \X Junk
makeClientId(c, junk) == <<c, junk>>
parseClientId(id) == id[1]

IdFrame(id) == <<"id", id>>
MsgFrame(d) == <<"msg", d>>
Frame == ({"id"} \X ClientId) \cup ({"msg"} \X Datagram)

\* Mutant: an empty payload is not sent, as quick_send would have it.
forwardMessage_skipEmpty(id, d) ==
    IF d.size = 0 THEN <<IdFrame(id)>> ELSE <<IdFrame(id), MsgFrame(d)>>

\* forwardMessageToOutbound and forwardMessageToInbound: what a call puts into
\* the pipe, with one send_msg for each frame.
forwardMessage(id, d) == <<IdFrame(id), MsgFrame(d)>>

\* ChainedFilters: one conversion in each direction.
convertForward(d)  == [d EXCEPT !.layer = @ + 1]
\* Mutant: the backward conversion is forgotten.
convertBackward_missing(d) == d
convertBackward(d) == [d EXCEPT !.layer = @ - 1]

PipeTypeOK ==
    /\ inboundPipe \in BOOLEAN
    /\ outboundPipe \in BOOLEAN
    /\ toOut \in Seq(Frame)
    /\ toIn \in Seq(Frame)

PipeInit ==
    /\ inboundPipe = FALSE
    /\ outboundPipe = FALSE
    /\ toOut = <<>>
    /\ toIn = <<>>

==============================================================================
