--------------------------------- MODULE Net ---------------------------------
(***************************************************************************)
(* What the forwarder process sees of the outside world: UDP datagrams,    *)
(* the kernel receive queues of its sockets, the clients and the server.   *)
(* Nothing here is code of the repository; it is modelled from how         *)
(* src/protocols/plain.hpp uses the socket calls.                          *)
(*                                                                         *)
(* A datagram is a record: the client it belongs to (for a reply: the      *)
(* client whose request the server answers), a serial number, how many     *)
(* more forward than backward conversions it went through ("layer"), and   *)
(* the size class of its plain text (0 stands for an empty datagram).      *)
(***************************************************************************)
EXTENDS Integers, Sequences, FiniteSets

CONSTANTS Clients,      \* client addresses (ip and port)
          Junk,         \* contents of the bytes recvfrom leaves unwritten
          Fds,          \* descriptors the process may get for connections
          Sizes,        \* size classes datagrams may have, within {0, 1}
          PadLayers,    \* layers whose wire form is padded, so never empty
          Faults,       \* which system calls may fail (see FaultKinds)
          MaxSent,      \* bound: datagrams the clients send
          MaxReplies,   \* bound: datagrams the server sends
          ListenCap,    \* bound: receive queue of the listening socket
          ConnCap       \* bound: receive queue of a connected socket

FaultKinds == {"mkpipe", "bind", "epoll", "recvfrom", "sendto", "connect", "send", "icmp"}

ASSUME NetAssumption ==
    /\ Junk # {}
    /\ Sizes \subseteq {0, 1}
    /\ Faults \subseteq FaultKinds
    /\ MaxSent \in Nat
    /\ MaxReplies \in Nat
    /\ ListenCap \in Nat
    /\ ConnCap \in Nat

VARIABLES proc,      \* "running", or what terminated the process
          bound,     \* whether listenFd is bound
          listenQ,   \* receive queue of listenFd
          conns,     \* connected sockets, all of them registered in epoll
          connQ,     \* receive queue of each connected socket
          connErr,   \* sockets with a pending error (ICMP unreachable)
          wireOut,   \* <<fd, datagram>> sent towards the server
          wireBack,  \* <<client, datagram>> sent back to a client
          sent,      \* datagrams the clients have sent
          replied    \* datagrams the server has sent

netVars == <<proc, bound, listenQ, conns, connQ, connErr,
             wireOut, wireBack, sent, replied>>

Datagram == [src: Clients, seq: Nat, layer: Int, size: {0, 1}]
DatagramAt(layer) == [src: Clients, seq: Nat, layer: {layer}, size: {0, 1}]

\* The number of bytes on the wire, as a size class: padding (AES) makes the
\* wire form of an empty plain text non-empty.
WireSize(d) == IF d.layer \in PadLayers THEN 1 ELSE d.size

Causes == FaultKinds \cup {"connmap_assert"}

NetTypeOK ==
    /\ proc \in {"running"} \cup Causes
    /\ bound \in BOOLEAN
    /\ listenQ \in Seq(DatagramAt(0))
    /\ conns \subseteq Fds
    /\ connQ \in [Fds -> Seq(DatagramAt(1))]
    /\ connErr \subseteq Fds
    /\ wireOut \subseteq (Fds \X Datagram)
    /\ wireBack \subseteq (Clients \X Datagram)
    /\ sent \in 0 .. MaxSent
    /\ replied \in 0 .. MaxReplies

NetInit ==
    /\ proc = "running"
    /\ bound = FALSE
    /\ listenQ = <<>>
    /\ conns = {}
    /\ connQ = [fd \in Fds |-> <<>>]
    /\ connErr = {}
    /\ wireOut = {}
    /\ wireBack = {}
    /\ sent = 0
    /\ replied = 0

------------------------------------------------------------------------------
\* A datagram of client c reaches the listening socket. One that finds the
\* queue full, or is lost on the way, leaves no trace and is not modelled.
ClientSend(c, size) ==
    /\ bound
    /\ sent < MaxSent
    /\ Len(listenQ) < ListenCap
    /\ listenQ' = Append(listenQ, [src |-> c, seq |-> sent + 1,
                                   layer |-> 0, size |-> size])
    /\ sent' = sent + 1
    /\ UNCHANGED <<proc, bound, conns, connQ, connErr, wireOut, wireBack, replied>>

\* The server answers a datagram d it received over fd, any number of times,
\* to the address d came from. Its answers are in the converted form.
ServerReply(fd, d, size) ==
    /\ <<fd, d>> \in wireOut
    /\ fd \in conns
    /\ replied < MaxReplies
    /\ Len(connQ[fd]) < ConnCap
    /\ connQ' = [connQ EXCEPT ![fd] = Append(@,
                    [src |-> d.src, seq |-> replied + 1, layer |-> 1, size |-> size])]
    /\ replied' = replied + 1
    /\ UNCHANGED <<proc, bound, listenQ, conns, connErr, wireOut, wireBack, sent>>

\* A datagram sent over fd found no listener: the kernel records the ICMP
\* error on the connected socket, for its next send or recv to return.
IcmpArrives(fd) ==
    /\ "icmp" \in Faults
    /\ fd \in conns \ connErr
    /\ \E w \in wireOut : w[1] = fd
    /\ connErr' = connErr \cup {fd}
    /\ UNCHANGED <<proc, bound, listenQ, conns, connQ, wireOut, wireBack, sent, replied>>

NetNext ==
    \/ \E c \in Clients, size \in Sizes : ClientSend(c, size)
    \/ \E fd \in Fds, size \in Sizes :
          \E d \in {w[2] : w \in wireOut} : ServerReply(fd, d, size)
    \/ \E fd \in Fds : IcmpArrives(fd)

==============================================================================
