----------------------------- MODULE PlainInbound -----------------------------
(***************************************************************************)
(* PlainInbound::listenForever, the detached inbound thread: it creates    *)
(* the pipe, binds the listening socket, and then serves two descriptors,  *)
(* its end of the pipe and the listening socket. The locals of onEvent     *)
(* that live across a blocking call are                                    *)
(*   inGot  - the frames recv_msg has returned for the current event,      *)
(*   inTodo - the frames send_msg still has to write for it.               *)
(* Both are empty between two events.                                      *)
(***************************************************************************)
EXTENDS IpcPipe

VARIABLES inPc,      \* where in listenForever the thread is
          inBatch,   \* events of the last epoll_wait not yet handled
          inGot, inTodo

inVars == <<inPc, inBatch, inGot, inTodo>>

InTypeOK ==
    /\ inPc \in {"mkpipe", "publish", "bind", "run"}
    /\ inBatch \subseteq {"ipc", "listen"}
    /\ inGot \in Seq(Frame) /\ Len(inGot) <= 1
    /\ inTodo \in Seq(Frame)

InInit ==
    /\ inPc = "mkpipe"
    /\ inBatch = {}
    /\ inGot = <<>>
    /\ inTodo = <<>>

------------------------------------------------------------------------------
(* Setup *)

\* mk_tcp_pipe, and the store of the first end into this->ipcPipe. An
\* exception in a detached thread terminates the process.
InMkPipe ==
    /\ inPc = "mkpipe"
    /\ \/ /\ inboundPipe' = TRUE
          /\ inPc' = "publish"
          /\ UNCHANGED proc
       \/ /\ "mkpipe" \in Faults
          /\ proc' = "mkpipe"
          /\ UNCHANGED <<inboundPipe, inPc>>
    /\ UNCHANGED <<bound, listenQ, conns, connQ, connErr, wireOut, wireBack,
                   sent, replied, outboundPipe, toOut, toIn, inBatch, inGot, inTodo>>

\* The store of the other end into nextHop->ipcPipe, which the outbound
\* thread is spinning on.
InPublish ==
    /\ inPc = "publish"
    /\ outboundPipe' = TRUE
    /\ inPc' = "bind"
    /\ UNCHANGED <<netVars, inboundPipe, toOut, toIn, inBatch, inGot, inTodo>>

\* quick_listen, epoll_create1 and the two epoll_add_fd.
InBind ==
    /\ inPc = "bind"
    /\ \/ /\ bound' = TRUE
          /\ inPc' = "run"
          /\ UNCHANGED proc
       \/ /\ "bind" \in Faults
          /\ proc' = "bind"
          /\ UNCHANGED <<bound, inPc>>
    /\ UNCHANGED <<listenQ, conns, connQ, connErr, wireOut, wireBack, sent,
                   replied, pipeVars, inBatch, inGot, inTodo>>

------------------------------------------------------------------------------
(* The event loop *)

InBetweenEvents == inPc = "run" /\ inGot = <<>> /\ inTodo = <<>>

\* Mutant: listenFd is not registered with epoll.
InReady_noListen == {e \in {"ipc"} : toIn # <<>>}
InReady == {e \in {"ipc", "listen"} : IF e = "ipc" THEN toIn # <<>> ELSE listenQ # <<>>}

\* epoll_wait: level-triggered, sleeps until a descriptor is ready.
InEpollWait ==
    /\ InBetweenEvents
    /\ inBatch = {}
    /\ InReady # {}
    /\ inBatch' = InReady
    /\ UNCHANGED <<netVars, pipeVars, inPc, inGot, inTodo>>

\* epoll_wait returns -1, after a signal for instance, or recvfrom does: the
\* dynamic_assert throws, and nothing is tried again.
InCallFails ==
    /\ InBetweenEvents
    /\ \/ inBatch = {} /\ proc' = "epoll"
       \/ "listen" \in inBatch /\ proc' = "recvfrom"
    /\ proc' \in Faults
    /\ UNCHANGED <<bound, listenQ, conns, connQ, connErr, wireOut, wireBack, sent,
                   replied, pipeVars, inVars>>

\* onEvent(ipcPipe), first recv_msg: the client id.
InRecvId ==
    /\ InBetweenEvents
    /\ "ipc" \in inBatch
    /\ recv_msg(toIn)
    /\ inGot' = <<Head(toIn)>>
    /\ inBatch' = inBatch \ {"ipc"}
    /\ UNCHANGED <<netVars, inboundPipe, outboundPipe, toOut, inPc, inTodo>>

\* onEvent(ipcPipe), second recv_msg, and sendto to the address in the id.
InSendTo ==
    /\ inGot # <<>>
    /\ recv_msg(toIn)
    /\ inGot' = <<>>
    /\ \/ /\ wireBack' = wireBack \cup {<<parseClientId(inGot[1][2]), Head(toIn)[2]>>}
          /\ UNCHANGED proc
       \/ /\ "sendto" \in Faults
          /\ proc' = "sendto"
          /\ UNCHANGED wireBack
    /\ UNCHANGED <<bound, listenQ, conns, connQ, connErr, wireOut, sent, replied,
                   inboundPipe, outboundPipe, toOut, inPc, inBatch, inTodo>>

\* Mutant: a datagram that finds the pipe full is dropped.
InClientEvent_dropIfFull ==
    /\ InBetweenEvents
    /\ "listen" \in inBatch
    /\ listenQ # <<>>
    /\ LET d == Head(listenQ) IN
       \E junk \in Junk :
          inTodo' = IF Len(toOut) = PipeCap THEN <<>>
                    ELSE forwardMessage(makeClientId(d.src, junk), convertForward(d))
    /\ listenQ' = Tail(listenQ)
    /\ inBatch' = inBatch \ {"listen"}
    /\ UNCHANGED <<proc, bound, conns, connQ, connErr, wireOut, wireBack, sent,
                   replied, pipeVars, inPc, inGot>>

\* Mutant: recvfrom leaves the datagram in the socket (MSG_PEEK).
InClientEvent_peek ==
    /\ InBetweenEvents
    /\ "listen" \in inBatch
    /\ listenQ # <<>>
    /\ LET d == Head(listenQ) IN
       \E junk \in Junk :
          inTodo' = forwardMessage(makeClientId(d.src, junk), convertForward(d))
    /\ inBatch' = inBatch \ {"listen"}
    /\ UNCHANGED <<netVars, pipeVars, inPc, inGot>>

\* onEvent(listenFd): recvfrom, the filter, and the call of
\* forwardMessageToOutbound, which sends the id and then the payload.
InClientEvent ==
    /\ InBetweenEvents
    /\ "listen" \in inBatch
    /\ listenQ # <<>>
    /\ LET d == Head(listenQ) IN
       \E junk \in Junk :
          inTodo' = forwardMessage(makeClientId(d.src, junk), convertForward(d))
    /\ listenQ' = Tail(listenQ)
    /\ inBatch' = inBatch \ {"listen"}
    /\ UNCHANGED <<proc, bound, conns, connQ, connErr, wireOut, wireBack, sent,
                   replied, pipeVars, inPc, inGot>>

\* forwardMessageToOutbound: the next of its two blocking send_msg.
InSendMsg ==
    /\ inTodo # <<>>
    /\ send_msg(toOut, Head(inTodo))
    /\ inTodo' = Tail(inTodo)
    /\ UNCHANGED <<netVars, inboundPipe, outboundPipe, toIn, inPc, inBatch, inGot>>

InNext ==
    \/ InMkPipe
    \/ InPublish
    \/ InBind
    \/ InEpollWait
    \/ InCallFails
    \/ InRecvId
    \/ InSendTo
    \/ InClientEvent
    \/ InSendMsg

==============================================================================
