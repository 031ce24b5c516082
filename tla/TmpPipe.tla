-------------------------------- MODULE TmpPipe --------------------------------
(***************************************************************************)
(* mk_tcp_pipe, run by several forwarder processes of one user on one      *)
(* host. Each draws a port, listens on [::1] at that port, lets a thread   *)
(* accept one connection while it connects to the port itself, waits for   *)
(* the thread, and closes the listening socket. quick_listen sets          *)
(* SO_REUSEPORT, so a second process may listen at the same port; the      *)
(* kernel then gives a new connection to either of the two.                *)
(* A connection is named after the process that opened it.                 *)
(***************************************************************************)
EXTENDS Integers, Sequences

CONSTANTS Procs,      \* forwarder processes that start
          Ports,      \* what get_tmp_tcp_port_number may return
          None

ASSUME TmpPipeAssumption == None \notin Procs

VARIABLES pipePc,    \* where in mk_tcp_pipe a process is
          port,      \* tmp_port
          listening, \* processes whose listenfd is open
          backlog,   \* connections a listening socket holds for accept
          srvSide,   \* connfd_srv_side: the connection accept returned
          lost,      \* connections reset with the socket that held them
          clashed    \* processes that listened at a port together with another

pipeVars == <<pipePc, port, listening, backlog, srvSide, lost, clashed>>

PipeTypeOK ==
    /\ pipePc \in [Procs -> {"draw", "listen", "connect", "join", "close", "up", "failed"}]
    /\ port \in [Procs -> Ports \cup {None}]
    /\ listening \subseteq Procs
    /\ backlog \in [Procs -> Seq(Procs)]
    /\ srvSide \in [Procs -> Procs \cup {None}]
    /\ lost \subseteq Procs
    /\ clashed \subseteq Procs

PipeInit ==
    /\ pipePc = [p \in Procs |-> "draw"]
    /\ port = [p \in Procs |-> None]
    /\ listening = {}
    /\ backlog = [p \in Procs |-> <<>>]
    /\ srvSide = [p \in Procs |-> None]
    /\ lost = {}
    /\ clashed = {}

PipeGoto(p, from, to) == pipePc[p] = from /\ pipePc' = [pipePc EXCEPT ![p] = to]

------------------------------------------------------------------------------

\* get_tmp_tcp_port_number
Draw(p) ==
    /\ PipeGoto(p, "draw", "listen")
    /\ \E n \in Ports : port' = [port EXCEPT ![p] = n]
    /\ UNCHANGED <<listening, backlog, srvSide, lost, clashed>>

ListenersAt(n) == {q \in listening : port[q] = n}

\* quick_listen, and the start of serverThread.
Listen(p) ==
    /\ PipeGoto(p, "listen", "connect")
    /\ clashed' = clashed \cup (IF ListenersAt(port[p]) = {} THEN {}
                               ELSE {p} \cup ListenersAt(port[p]))
    /\ listening' = listening \cup {p}
    /\ UNCHANGED <<port, backlog, srvSide, lost>>

\* Mutant: the thread is joined before quick_connect is called.
Connect_afterJoin(p) ==
    /\ srvSide[p] # None
    /\ PipeGoto(p, "connect", "join")
    /\ \E q \in ListenersAt(port[p]) : backlog' = [backlog EXCEPT ![q] = Append(@, p)]
    /\ UNCHANGED <<port, listening, srvSide, lost, clashed>>

\* quick_connect: the kernel puts the connection into the queue of one of
\* the sockets that listen at the port.
Connect(p) ==
    /\ PipeGoto(p, "connect", "join")
    /\ \E q \in ListenersAt(port[p]) : backlog' = [backlog EXCEPT ![q] = Append(@, p)]
    /\ UNCHANGED <<port, listening, srvSide, lost, clashed>>

\* serverThread: quick_accept, once, as soon as a connection is there.
Accept(p) ==
    /\ p \in listening
    /\ srvSide[p] = None
    /\ backlog[p] # <<>>
    /\ srvSide' = [srvSide EXCEPT ![p] = Head(backlog[p])]
    /\ backlog' = [backlog EXCEPT ![p] = Tail(@)]
    /\ UNCHANGED <<pipePc, port, listening, lost, clashed>>

\* Mutant: serverThread.detach()
Join_detach(p) ==
    /\ PipeGoto(p, "join", "close")
    /\ UNCHANGED <<port, listening, backlog, srvSide, lost, clashed>>

\* serverThread.join()
Join(p) ==
    /\ PipeGoto(p, "join", "close")
    /\ srvSide[p] # None
    /\ UNCHANGED <<port, listening, backlog, srvSide, lost, clashed>>

\* Connections that nobody accepted are reset with the listening socket.
CloseListenFd(p) ==
    /\ listening' = listening \ {p}
    /\ lost' = lost \cup {backlog[p][i] : i \in DOMAIN backlog[p]}
    /\ backlog' = [backlog EXCEPT ![p] = <<>>]

\* close_ex(listenfd), and the return with both ends.
Close(p) ==
    /\ PipeGoto(p, "close", "up")
    /\ CloseListenFd(p)
    /\ UNCHANGED <<port, srvSide, clashed>>

\* quick_listen throws (a socket without SO_REUSEPORT has the port), or
\* quick_connect does, or quick_accept in serverThread: the process ends, and
\* its sockets with it.
Fails(p) ==
    /\ \/ PipeGoto(p, "listen", "failed")
       \/ PipeGoto(p, "connect", "failed")
       \/ PipeGoto(p, "join", "failed") /\ srvSide[p] = None
    /\ CloseListenFd(p)
    /\ UNCHANGED <<port, srvSide, clashed>>

MkTcpPipe(p) == Draw(p) \/ Listen(p) \/ Connect(p) \/ Accept(p) \/ Join(p) \/ Close(p)

PipeNext == \E p \in Procs : MkTcpPipe(p) \/ Fails(p)

PipeSpec == PipeInit /\ [][PipeNext]_pipeVars

PipeFairSpec == PipeSpec /\ \A p \in Procs : WF_pipeVars(MkTcpPipe(p))

------------------------------------------------------------------------------
(* Properties *)

\* Of a process that had its port to itself, the two ends mk_tcp_pipe
\* returns are the two ends of its own connection, whatever other processes
\* do and however many of them share other ports: its inbound and outbound
\* threads talk to each other.
PipeJoinsOwnThreads ==
    \A p \in Procs \ clashed : pipePc[p] = "up" => srvSide[p] = p /\ p \notin lost

\* A process gets through mk_tcp_pipe, or ends with an exception, unless it
\* has itself shared its port with another process. That others share theirs
\* is no excuse.
Returns(p) == pipePc[p] \in {"up", "failed"}
PipeComes == \A p \in Procs : pipePc[p] = "connect" ~> Returns(p) \/ p \in clashed

\* base.hpp:38 and 55: "Inbound.listenForever MUST initialize this field."
\* A process gets through mk_tcp_pipe, or ends with an exception.
IpcPipeInitialized == \A p \in Procs : pipePc[p] = "connect" ~> Returns(p)

==============================================================================
