------------------------------ MODULE QuickSocket ------------------------------
(***************************************************************************)
(* rlib/sys/sio.hpp: quick_listen and quick_connect, on POSIX and on       *)
(* Windows. The addresses getaddrinfo returns are tried in order; the list *)
(* of addresses, sockets and, on Windows, a reference to Winsock are       *)
(* acquired on the way. A socket is the number of its address.             *)
(***************************************************************************)
EXTENDS Integers, Sequences

CONSTANT MaxAddrs   \* bound: addresses getaddrinfo returns

AddrsAssumption == MaxAddrs \in Nat

\* How the system treats an address: no socket for it, setsockopt fails, bind
\* or connect fails, or all goes well.
Outcomes == {"noSocket", "noOption", "refused", "attached"}

VARIABLES platform, fn, udp,
          addrs,     \* psaddr, paddr: the outcome of each address
          listens,   \* whether ::listen succeeds
          held,      \* references to Winsock that others hold
          pc,
          rp,        \* the address that is tried
          open,      \* sockets that are open
          frees,     \* how often freeaddrinfo has been called
          wsa        \* references to Winsock, WSAStartup less WSACleanup

env == <<platform, fn, udp, listens, held>>
vars == <<env, addrs, pc, rp, open, frees, wsa>>

windows == platform = "windows"
resolved == addrs # <<>>

Init ==
    /\ platform \in {"posix", "windows"} /\ fn \in {"listen", "connect"}
    /\ udp \in BOOLEAN /\ listens \in BOOLEAN
    /\ pc = IF windows THEN "startup" ELSE "resolve"
    /\ addrs = <<>> /\ rp = 1 /\ open = {} /\ frees = 0
    /\ held \in {0, 1} /\ wsa = held

\* What rlib_defer runs when quick_connect is left after getaddrinfo.
Deferred == IF fn = "connect" /\ resolved THEN 1 ELSE 0
CleanUp == wsa' = IF windows THEN wsa - Deferred ELSE wsa

Throw ==
    /\ pc' = "threw" /\ frees' = frees + Deferred /\ CleanUp
    /\ UNCHANGED <<addrs, rp>>

Goto(from, to) == pc = from /\ pc' = to

WSAStartup ==
    \/ Goto("startup", "resolve") /\ wsa' = wsa + 1 /\ UNCHANGED <<env, addrs, rp, open, frees>>
    \/ Goto("startup", "threw") /\ UNCHANGED <<env, addrs, rp, open, frees, wsa>>

getaddrinfo ==
    /\ pc = "resolve" /\ UNCHANGED <<env, rp, open, frees>>
    /\ \/ /\ addrs' \in UNION {[1 .. n -> Outcomes] : n \in 1 .. MaxAddrs}
          /\ pc' = "socket" /\ UNCHANGED wsa
       \/ /\ pc' = "threw" /\ UNCHANGED addrs
          /\ wsa' = IF windows THEN wsa - 1 ELSE wsa

\* rp = rp->ai_next; after the last one the function throws.
NextAddr ==
    IF rp < Len(addrs)
    THEN rp' = rp + 1 /\ pc' = "socket" /\ UNCHANGED <<addrs, frees, wsa>>
    ELSE Throw

MakeSocket ==
    /\ pc = "socket" /\ UNCHANGED env
    /\ IF addrs[rp] = "noSocket"
       THEN NextAddr /\ UNCHANGED open
       ELSE open' = open \cup {rp} /\ pc' = "options" /\ UNCHANGED <<addrs, rp, frees, wsa>>

\* SO_REUSEADDR, and SO_REUSEPORT on POSIX.
SetOptions ==
    /\ pc = "options" /\ UNCHANGED <<env, open>>
    /\ IF addrs[rp] = "noOption" THEN Throw
       ELSE pc' = "attach" /\ UNCHANGED <<addrs, rp, frees, wsa>>

\* Mutant: a socket that could not be bound or connected stays open.
Attach_leak ==
    /\ pc = "attach" /\ UNCHANGED env
    /\ IF addrs[rp] = "attached"
       THEN /\ pc' = IF fn = "listen" /\ ~udp THEN "listen" ELSE "return"
            /\ UNCHANGED <<addrs, rp, open, frees, wsa>>
       ELSE UNCHANGED open /\ NextAddr

\* bind or connect
Attach ==
    /\ pc = "attach" /\ UNCHANGED env
    /\ IF addrs[rp] = "attached"
       THEN /\ pc' = IF fn = "listen" /\ ~udp THEN "listen" ELSE "return"
            /\ UNCHANGED <<addrs, rp, open, frees, wsa>>
       ELSE open' = open \ {rp} /\ NextAddr

Listen ==
    /\ pc = "listen" /\ UNCHANGED <<env, open>>
    /\ IF listens THEN pc' = "return" /\ UNCHANGED <<addrs, rp, frees, wsa>>
       ELSE Throw

\* quick_listen frees the list on its way out; on Windows quick_connect does
\* so too, and then its guard does it again.
Return ==
    /\ Goto("return", "returned")
    /\ frees' = frees + (IF fn = "listen" \/ windows THEN 1 ELSE 0) + Deferred
    /\ CleanUp
    /\ UNCHANGED <<env, addrs, rp, open>>

Next ==
    \/ WSAStartup \/ getaddrinfo \/ MakeSocket
    \/ SetOptions \/ Attach \/ Listen \/ Return

Spec == Init /\ [][Next]_vars
FairSpec == Spec /\ WF_vars(Next)

------------------------------------------------------------------------------
(* Properties *)

\* quick_listen and quick_connect return the socket of the first address that
\* can be bound or connected, and throw when an option cannot be set before
\* they come to it.
Stops(k) == addrs[k] \in {"attached", "noOption"}
Reached == {k \in DOMAIN addrs : Stops(k) /\ \A j \in 1 .. k - 1 : ~Stops(j)}
FirstAddressWins ==
    /\ pc = "returned" => rp \in Reached /\ addrs[rp] = "attached"
    /\ pc = "threw" /\ (\E k \in Reached : addrs[k] = "attached") => fn = "listen" /\ ~udp /\ ~listens

\* Only the socket that is returned stays open. An exception leaks at most the
\* one it is about, and none where no address could be bound or connected: it
\* must have been setsockopt or ::listen that failed.
OneSocketLeft ==
    /\ pc = "returned" => open = {rp}
    /\ pc = "threw" =>
          \/ open = {}
          \/ open = {rp} /\ addrs[rp] = "noOption"
          \/ open = {rp} /\ fn = "listen" /\ ~udp /\ ~listens

\* A list that getaddrinfo never made is not freed. A call that returns has
\* freed its list, and quick_connect also when it throws. Only quick_connect on
\* Windows frees it twice, by hand and in its guard. Nothing is said of
\* quick_listen when it throws: it leaks the list.
ListFreed ==
    /\ ~resolved => frees = 0
    /\ pc = "returned" => frees >= 1
    /\ pc = "threw" /\ fn = "connect" /\ resolved => frees = 1
    /\ frees <= 1 \/ (frees = 2 /\ windows /\ fn = "connect" /\ pc = "returned")

\* No call takes away a reference to Winsock that is not its own. A socket of
\* quick_listen has one. quick_connect gives its own back even when it
\* returns, so its socket lives on that of others: in the forwarder, the
\* listening one's. Nothing is said of quick_listen when it throws with a
\* list: it leaks its reference, too.
WinsockHeld == windows /\ pc \in {"returned", "threw"} =>
    /\ wsa \in {held, held + 1}
    /\ fn = "listen" /\ pc = "returned" => wsa = held + 1
    /\ fn = "connect" \/ ~resolved => wsa = held

\* The first address that works is taken, and of what was acquired on the way
\* only that is left over, or given back once too often, which is named above.
SocketsSound == FirstAddressWins /\ OneSocketLeft /\ ListFreed /\ WinsockHeld

\* sio.hpp:143 and 238: freeaddrinfo(psaddr) ends quick_listen. A caller may
\* take it that a call that ends has freed its list, once, and that an
\* exception leaves no socket and no reference to Winsock behind.
AllGivenBack ==
    /\ pc \in {"returned", "threw"} /\ resolved => frees = 1
    /\ pc = "threw" => open = {} /\ wsa = held

\* The call ends, however many addresses fail.
CallEnds == <>(pc \in {"returned", "threw"})

==============================================================================
