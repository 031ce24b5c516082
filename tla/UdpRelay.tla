------------------------------- MODULE UdpRelay -------------------------------
(***************************************************************************)
(* What the forwarder promises, without threads, pipe or event loops: a    *)
(* NAT-like relay. Datagrams of clients are accepted in arrival order,     *)
(* converted once, and leave in the same order, each over the connection   *)
(* of its client id; answers are accepted per connection, converted back   *)
(* once, and leave in acceptance order towards the client of that          *)
(* connection. While the relay runs it loses, duplicates and reorders      *)
(* nothing it has accepted. It may terminate at any time, and then does    *)
(* nothing more.                                                           *)
(***************************************************************************)
EXTENDS Net

VARIABLES assoc,   \* the connection of each client id
          fwdQ,    \* accepted requests, <<client id, converted datagram>>
          bwdQ     \* accepted answers, <<client id, datagram converted back>>

relayVars == <<netVars, assoc, fwdQ, bwdQ>>

RelayInit ==
    /\ NetInit
    /\ assoc = [id \in {} |-> id]
    /\ fwdQ = <<>>
    /\ bwdQ = <<>>

\* The listening socket comes up.
Listen ==
    /\ bound' = TRUE
    /\ UNCHANGED <<proc, listenQ, conns, connQ, connErr, wireOut, wireBack, sent,
                   replied, assoc, fwdQ, bwdQ>>

\* The oldest datagram of the listening socket is accepted.
AcceptRequest ==
    /\ listenQ # <<>>
    /\ LET d == Head(listenQ) IN
       \E junk \in Junk :
          fwdQ' = Append(fwdQ, << <<d.src, junk>>, [d EXCEPT !.layer = @ + 1] >>)
    /\ listenQ' = Tail(listenQ)
    /\ UNCHANGED <<proc, bound, conns, connQ, connErr, wireOut, wireBack, sent,
                   replied, assoc, bwdQ>>

\* The oldest accepted request leaves over the connection of its client id,
\* which is made now if there is none. Only an empty one does not leave.
DeliverRequest ==
    /\ fwdQ # <<>>
    /\ LET id == Head(fwdQ)[1]
           d == Head(fwdQ)[2]
           Over(fd) == wireOut' = IF WireSize(d) = 0 THEN wireOut
                                                     ELSE wireOut \cup {<<fd, d>>}
       IN \/ /\ id \in DOMAIN assoc
             /\ Over(assoc[id])
             /\ UNCHANGED <<assoc, conns>>
          \/ /\ id \notin DOMAIN assoc
             /\ \E fd \in Fds \ conns :
                   /\ assoc' = [k \in DOMAIN assoc \cup {id} |->
                                   IF k = id THEN fd ELSE assoc[k]]
                   /\ conns' = conns \cup {fd}
                   /\ Over(fd)
    /\ fwdQ' = Tail(fwdQ)
    /\ UNCHANGED <<proc, bound, listenQ, connQ, connErr, wireBack, sent, replied, bwdQ>>

\* The oldest answer on the connection of id is accepted.
AcceptAnswer(id) ==
    /\ connQ[assoc[id]] # <<>>
    /\ bwdQ' = Append(bwdQ, <<id, [Head(connQ[assoc[id]]) EXCEPT !.layer = @ - 1]>>)
    /\ connQ' = [connQ EXCEPT ![assoc[id]] = Tail(@)]
    /\ UNCHANGED <<proc, bound, listenQ, conns, connErr, wireOut, wireBack, sent,
                   replied, assoc, fwdQ>>

\* The oldest accepted answer leaves to the address in its client id.
DeliverAnswer ==
    /\ bwdQ # <<>>
    /\ wireBack' = wireBack \cup {<<Head(bwdQ)[1][1], Head(bwdQ)[2]>>}
    /\ bwdQ' = Tail(bwdQ)
    /\ UNCHANGED <<proc, bound, listenQ, conns, connQ, connErr, wireOut, sent,
                   replied, assoc, fwdQ>>

\* Some call fails and the process ends; nothing reaches the wire any more.
RelayDies ==
    /\ proc' # "running"
    /\ UNCHANGED <<bound, wireOut, wireBack, sent, replied>>

RelayNext ==
    /\ proc = "running"
    /\ \/ NetNext /\ UNCHANGED <<assoc, fwdQ, bwdQ>>
       \/ Listen
       \/ AcceptRequest
       \/ DeliverRequest
       \/ \E id \in DOMAIN assoc : AcceptAnswer(id)
       \/ DeliverAnswer
       \/ RelayDies

RelaySpec == RelayInit /\ [][RelayNext]_relayVars

==============================================================================
