---------------------------- MODULE PlainOutbound ----------------------------
(***************************************************************************)
(* PlainOutbound::listenForever, run by the main thread: it waits for the  *)
(* inbound thread to create the pipe, and then serves its end of the pipe  *)
(* and one connected socket per client id. outGot and outTodo are the      *)
(* locals of onEvent that live across a blocking call, as in PlainInbound. *)
(***************************************************************************)
EXTENDS IpcPipe, ConnectionMapping

CONSTANT MaxEvents   \* EPOLL_MAX_EVENTS

ASSUME MaxEventsAssumption == MaxEvents \in Nat \ {0}

\* The pipe end, called "ipc" below, is none of the connection descriptors.
ASSUME FdsAssumption == "ipc" \notin Fds

VARIABLES outPc, outBatch, outGot, outTodo,
          client2server, server2client   \* connectionMap

outVars == <<outPc, outBatch, outGot, outTodo, client2server, server2client>>

OutTypeOK ==
    /\ outPc \in {"spin", "run"}
    /\ outBatch \subseteq {"ipc"} \cup Fds
    /\ outGot \in Seq(Frame) /\ Len(outGot) <= 2
    /\ outTodo \in Seq(Frame)
    /\ DOMAIN client2server \subseteq ClientId
    /\ client2server \in [DOMAIN client2server -> Fds]
    /\ DOMAIN server2client \subseteq Fds
    /\ server2client \in [DOMAIN server2client -> ClientId]

OutInit ==
    /\ outPc = "spin"
    /\ outBatch = {}
    /\ outGot = <<>>
    /\ outTodo = <<>>
    /\ client2server = EmptyMap
    /\ server2client = EmptyMap

------------------------------------------------------------------------------
\* The busy wait on the volatile ipcPipe, and epoll_add_fd(ipcPipe).
OutSeesPipe ==
    /\ outPc = "spin"
    /\ outboundPipe
    /\ outPc' = "run"
    /\ UNCHANGED <<netVars, pipeVars, outBatch, outGot, outTodo, client2server, server2client>>

OutBetweenEvents == outPc = "run" /\ outGot = <<>> /\ outTodo = <<>>

\* Mutant: a new connection is not registered with epoll.
OutReady_noConn == {e \in {"ipc"} : toOut # <<>>}
OutReady == {e \in {"ipc"} \cup conns :
                IF e = "ipc" THEN toOut # <<>> ELSE connQ[e] # <<>> \/ e \in connErr}

\* epoll_wait reports every ready descriptor, or as many as its array holds.
OutEpollWait ==
    /\ OutBetweenEvents
    /\ outBatch = {}
    /\ \E batch \in SUBSET OutReady :
          /\ batch # {}
          /\ Cardinality(batch) <= MaxEvents
          /\ batch = OutReady \/ Cardinality(batch) = MaxEvents
          /\ outBatch' = batch
    /\ UNCHANGED <<netVars, pipeVars, outPc, outGot, outTodo, client2server, server2client>>

\* epoll_create1 before the busy wait, epoll_add_fd after it, or epoll_wait
\* returns -1, and the exception leaves listenForever.
OutCallFails ==
    /\ outPc = "spin" \/ (OutBetweenEvents /\ outBatch = {})
    /\ "epoll" \in Faults
    /\ proc' = "epoll"
    /\ UNCHANGED <<bound, listenQ, conns, connQ, connErr, wireOut, wireBack, sent,
                   replied, pipeVars, outVars>>

------------------------------------------------------------------------------
(* onEvent(ipcPipe): a client's datagram *)

OutRecvId ==
    /\ OutBetweenEvents
    /\ "ipc" \in outBatch
    /\ recv_msg(toOut)
    /\ outGot' = <<Head(toOut)>>
    /\ outBatch' = outBatch \ {"ipc"}
    /\ UNCHANGED <<netVars, inboundPipe, outboundPipe, toIn, outPc, outTodo,
                   client2server, server2client>>

OutRecvMsg ==
    /\ Len(outGot) = 1
    /\ recv_msg(toOut)
    /\ outGot' = Append(outGot, Head(toOut))
    /\ UNCHANGED <<netVars, inboundPipe, outboundPipe, toIn, outPc, outBatch, outTodo,
                   client2server, server2client>>

\* quick_send: a loop over send that never runs for an empty string, so an
\* empty datagram is not sent at all; send returns the pending error of the
\* socket, and the exception terminates the process.
quick_send(fd, d) ==
    \/ /\ WireSize(d) = 0
       /\ UNCHANGED <<proc, wireOut>>
    \/ /\ WireSize(d) # 0
       /\ fd \notin connErr
       /\ wireOut' = wireOut \cup {<<fd, d>>}
       /\ UNCHANGED proc
    \/ /\ WireSize(d) # 0
       /\ fd \in connErr \/ "send" \in Faults
       /\ proc' = "send"
       /\ UNCHANGED wireOut

\* Mutant: the datagram goes over the connection of some client id.
OutSendKnown_any ==
    /\ Len(outGot) = 2
    /\ outGot[1][2] \in DOMAIN client2server
    /\ \E id \in DOMAIN client2server : quick_send(client2server[id], outGot[2][2])
    /\ outGot' = <<>>
    /\ UNCHANGED <<bound, listenQ, conns, connQ, connErr, wireBack, sent, replied,
                   pipeVars, outPc, outBatch, outTodo, client2server, server2client>>

\* The client id has a connection.
OutSendKnown ==
    /\ Len(outGot) = 2
    /\ outGot[1][2] \in DOMAIN client2server
    /\ quick_send(client2server[outGot[1][2]], outGot[2][2])
    /\ outGot' = <<>>
    /\ UNCHANGED <<bound, listenQ, conns, connQ, connErr, wireBack, sent, replied,
                   pipeVars, outPc, outBatch, outTodo, client2server, server2client>>

\* quick_connect, epoll_add_fd, connectionMap.add and quick_send.
Connect(fd) ==
    /\ conns' = conns \cup {fd}
    /\ client2server' = add_c2s(client2server, outGot[1][2], fd)
    /\ server2client' = add_s2c(server2client, outGot[1][2], fd)
    /\ quick_send(fd, outGot[2][2])
    /\ outGot' = <<>>
    /\ UNCHANGED <<bound, listenQ, connQ, connErr, wireBack, sent, replied,
                   pipeVars, outPc, outBatch, outTodo>>

\* Mutant: a new client takes over a connection that is in use.
OutConnect_shared(fd) ==
    /\ Len(outGot) = 2
    /\ outGot[1][2] \notin DOMAIN client2server
    /\ Connect(fd)

\* Mutant: the map is not consulted.
OutConnect_always(fd) ==
    /\ Len(outGot) = 2
    /\ fd \in Fds \ conns
    /\ Connect(fd)

\* The client id is new. The kernel hands out any descriptor not in use.
OutConnect(fd) ==
    /\ Len(outGot) = 2
    /\ outGot[1][2] \notin DOMAIN client2server
    /\ fd \in Fds \ conns
    /\ Connect(fd)

\* quick_connect throws: no descriptor left, or the name does not resolve.
OutConnectFails ==
    /\ Len(outGot) = 2
    /\ outGot[1][2] \notin DOMAIN client2server
    /\ conns = Fds \/ "connect" \in Faults
    /\ proc' = "connect"
    /\ UNCHANGED <<bound, listenQ, conns, connQ, connErr, wireOut, wireBack, sent,
                   replied, pipeVars, outVars>>

------------------------------------------------------------------------------
(* onEvent(connFd): a datagram of the server *)

OutTakeEvent(fd) ==
    /\ OutBetweenEvents
    /\ fd \in outBatch
    /\ outBatch' = outBatch \ {fd}

\* recv returns the pending error and dynamic_assert throws.
OutRecvFails(fd) ==
    /\ OutTakeEvent(fd)
    /\ fd \in connErr
    /\ proc' = "icmp"
    /\ UNCHANGED <<bound, listenQ, conns, connQ, connErr, wireOut, wireBack, sent, replied,
                   pipeVars, outPc, outGot, outTodo, client2server, server2client>>

\* recv returns 0: epoll_del_fd, connectionMap.del, close_ex.
CloseConn(fd) ==
    /\ conns' = conns \ {fd}
    /\ client2server' = del_c2s(client2server, server2client, fd)
    /\ server2client' = del_s2c(server2client, fd)

\* recv returns a datagram. The dynamic_assert on server2client is reached
\* in both cases; when it holds, forwardMessageToInbound is called.
OutServerEvent(fd) ==
    /\ OutTakeEvent(fd)
    /\ fd \notin connErr
    /\ connQ[fd] # <<>>
    /\ connQ' = [connQ EXCEPT ![fd] = Tail(@)]
    /\ LET d == Head(connQ[fd]) IN
       /\ IF WireSize(d) = 0
          THEN CloseConn(fd)
          ELSE UNCHANGED <<conns, client2server, server2client>>
       /\ IF fd \in DOMAIN server2client'
          THEN /\ outTodo' = forwardMessage(server2client'[fd], convertBackward(d))
               /\ UNCHANGED proc
          ELSE /\ proc' = "connmap_assert"
               /\ UNCHANGED outTodo
    /\ UNCHANGED <<bound, listenQ, connErr, wireOut, wireBack, sent, replied,
                   pipeVars, outPc, outGot>>

\* forwardMessageToInbound: the next of its two blocking send_msg.
OutSendMsg ==
    /\ outTodo # <<>>
    /\ send_msg(toIn, Head(outTodo))
    /\ outTodo' = Tail(outTodo)
    /\ UNCHANGED <<netVars, inboundPipe, outboundPipe, toOut, outPc, outBatch, outGot,
                   client2server, server2client>>

OutNext ==
    \/ OutSeesPipe
    \/ OutEpollWait
    \/ OutCallFails
    \/ OutRecvId
    \/ OutRecvMsg
    \/ OutSendKnown
    \/ \E fd \in Fds : OutConnect(fd)
    \/ OutConnectFails
    \/ \E fd \in Fds : OutRecvFails(fd)
    \/ \E fd \in Fds : OutServerEvent(fd)
    \/ OutSendMsg

==============================================================================
