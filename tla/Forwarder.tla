------------------------------ MODULE Forwarder ------------------------------
(***************************************************************************)
(* Forwarder::runForever: the inbound and the outbound thread of one       *)
(* process, the pipe between them, and the network around them. An         *)
(* uncaught exception in either thread terminates the whole process.       *)
(***************************************************************************)
EXTENDS PlainInbound, PlainOutbound

vars == <<netVars, pipeVars, inVars, outVars>>

Init ==
    /\ NetInit
    /\ PipeInit
    /\ InInit
    /\ OutInit

Environment == NetNext /\ UNCHANGED <<pipeVars, inVars, outVars>>

InboundThread == InNext /\ UNCHANGED outVars

OutboundThread == OutNext /\ UNCHANGED inVars

Next ==
    /\ proc = "running"
    /\ \/ Environment
       \/ InboundThread
       \/ OutboundThread

Spec == Init /\ [][Next]_vars

\* The operating system schedules both threads; clients and server need not
\* do anything.
FairSpec ==
    /\ Spec
    /\ WF_vars(proc = "running" /\ InboundThread)
    /\ WF_vars(proc = "running" /\ OutboundThread)

------------------------------------------------------------------------------
(* The path of a datagram inside the process, oldest frame first: what the *)
(* receiver has read of the current event, the pipe, and what the sender   *)
(* has not written yet.                                                    *)

RequestPath == outGot \o toOut \o inTodo
AnswerPath == inGot \o toIn \o outTodo

\* The frames of a path taken two by two.
Pairs(path) == [i \in 1 .. Len(path) \div 2 |-> <<path[2*i - 1][2], path[2*i][2]>>]

TypeOK == NetTypeOK /\ PipeTypeOK /\ InTypeOK /\ OutTypeOK

\* Between two events the connection map is a bijection between client ids
\* and the open sockets: no socket is open that the map has forgotten, and
\* no id leads to a closed one (connectionMap.add and del with quick_connect
\* and close_ex in PlainOutbound).
ConnectionMapSound ==
    /\ MutuallyInverse(client2server, server2client)
    /\ DOMAIN server2client = conns

\* Ids and payloads alternate along each path, however the two threads
\* interleave their four blocking calls per datagram: recv_msg, which cannot
\* tell a client id from a payload, never takes the one for the other. Each
\* payload follows the id of its own client and is converted exactly once.
Belong(a, b, layer) ==
    /\ a \in {"id"} \X ClientId
    /\ b \in {"msg"} \X DatagramAt(layer)
    /\ b[2].src = parseClientId(a[2])

Aligned(path, layer) ==
    /\ Len(path) % 2 = 0
    /\ \A i \in 1 .. Len(path) : i % 2 = 1 => Belong(path[i], path[i + 1], layer)

FramesAligned == Aligned(RequestPath, 1) /\ Aligned(AnswerPath, 0)

\* Everything a connected socket has carried, and everything waiting in it,
\* belongs to the client the connection map has for it now: a connection
\* never outlives its entry, and no event is pending for a closed one.
ConnectionsRouted ==
    proc = "running" =>
        /\ outBatch \ {"ipc"} \subseteq conns
        /\ \A w \in wireOut :
              w[1] \in conns /\ w[2].src = parseClientId(server2client[w[1]])
        /\ \A fd \in Fds : \A i \in 1 .. Len(connQ[fd]) :
              fd \in conns /\ connQ[fd][i].src = parseClientId(server2client[fd])

\* An answer reaches only the client whose request the server answered, and
\* it reaches it converted back exactly once.
AnswersReachTheirClient ==
    \A w \in wireBack : w[1] = w[2].src /\ w[2].layer = 0

\* A server-side connection carries the datagrams of one client only, each
\* converted exactly once: the server can tell its peers apart.
ConnectionsNotShared ==
    /\ \A w \in wireOut : w[2].layer = 1
    /\ \A v, w \in wireOut : v[1] = w[1] => v[2].src = w[2].src

\* While the process runs, a client id keeps its connection: the server sees
\* one source port for it (nothing but the end of a connection removes it).
ConnectionsSticky ==
    [][\A id \in DOMAIN client2server :
          \/ id \in DOMAIN client2server' /\ client2server'[id] = client2server[id]
          \/ proc' # "running"]_vars

\* Without a failing system call, an exhausted descriptor table or an empty
\* answer of the server, no assertion of the code fails and no exception is
\* thrown: runForever does not end.
NeverTerminates == proc = "running"

\* The two threads never wait for each other, each with a frame to write
\* into a full pipe that the other would have to read.
NoMutualBlock ==
    ~ /\ inTodo # <<>> /\ Len(toOut) = PipeCap
      /\ outTodo # <<>> /\ Len(toIn) = PipeCap

------------------------------------------------------------------------------
(* Liveness *)

\* A request the listening socket has queued leaves towards the server.
RequestsDelivered ==
    \A n \in 1 .. MaxSent :
        (\E i \in DOMAIN listenQ : listenQ[i].seq = n)
            ~> (\E w \in wireOut : w[2].seq = n)

\* An answer a connected socket has queued leaves towards the client.
AnswersDelivered ==
    \A n \in 1 .. MaxReplies :
        (\E fd \in Fds : \E i \in DOMAIN connQ[fd] : connQ[fd][i].seq = n)
            ~> (\E w \in wireBack : w[2].seq = n)

------------------------------------------------------------------------------
(* Refinement *)

\* Threads, pipe and events are hidden: together the two paths are the two
\* queues of the relay.
Relay == INSTANCE UdpRelay WITH assoc <- client2server,
                                fwdQ <- Pairs(RequestPath),
                                bwdQ <- Pairs(AnswerPath)

\* The forwarder implements the relay: inside the process no datagram is
\* lost, duplicated, reordered or given to another client.
ImplementsRelay == Relay!RelaySpec

------------------------------------------------------------------------------
(* What comments and assertions of the code say, and the code does not do *)

\* plain.hpp:171: "connectionMap MUST contain server connfd."
ServerConnFdIsMapped == proc # "connmap_assert"

\* base.hpp:23: the sender id is "$ip@$port": two ids of the connection map
\* stand for two clients.
OneIdPerClient ==
    \A id1, id2 \in DOMAIN client2server :
        parseClientId(id1) = parseClientId(id2) => id1 = id2

\* plain.hpp:113: forwardMessageToInbound is called to "wake up
\* listenThread, and deliver the msg": once called, the answer is sent.
ForwardedAnswerDelivered ==
    \A n \in 1 .. MaxReplies :
        (\E i \in DOMAIN outTodo : outTodo[i][1] = "msg" /\ outTodo[i][2].seq = n)
            ~> (\E w \in wireBack : w[2].seq = n)

==============================================================================
