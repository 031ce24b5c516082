-------------------------------- MODULE SockNew --------------------------------
(***************************************************************************)
(* wepoll.c: epoll_ctl(EPOLL_CTL_ADD) step by step under the lock of the   *)
(* port, every step of which may fail: the socket under the layers of the  *)
(* provider chain, a place in a poll group, memory, the tree of sockets.   *)
(***************************************************************************)
EXTENDS Naturals, FiniteSets

CONSTANTS Socks, None,
          Depth,       \* layers of service providers; the last one is the base
          GroupSize,   \* POLL_GROUP__MAX_GROUP_SIZE
          MaxGroups    \* bound

\* A port has finitely many sockets, and None is no layer.
AddAssumption ==
    /\ IsFiniteSet(Socks)
    /\ None # Depth
    /\ Depth \in Nat /\ GroupSize \in Nat \ {0} /\ MaxGroups \in Nat

VARIABLES pc, sock,
          at,          \* layer of the handle ws_get_base_socket looks at
          base,        \* base_socket
          layers,      \* base_socket of every registered socket
          groups,      \* poll groups in the queue
          devices,     \* AFD device handles that are open
          taken,       \* sum of all group_size
          cells,       \* sock_states that are allocated
          errno

vars == <<pc, sock, at, base, layers, groups, devices, taken, cells, errno>>
acquired == <<groups, devices, taken, cells>>

Registered == {s \in Socks : layers[s] # None}

Init ==
    /\ pc = "idle" /\ sock = None /\ at = 0 /\ base = None /\ errno = "none"
    /\ layers = [s \in Socks |-> None]
    /\ groups = 0 /\ devices = 0 /\ taken = 0 /\ cells = 0

Goto(from, to) == pc = from /\ pc' = to

\* Return with an error, or go on to give back what has been acquired. EBADF
\* takes priority over other errors.
Fail(error) ==
    /\ pc' = "idle"
    /\ errno' \in {error, "EBADF"}

Call(s) ==
    /\ Goto("idle", "base")
    /\ sock' = s /\ at' = 1
    /\ UNCHANGED <<base, layers, acquired, errno>>

\* What WSAIoctl answers for the handle of a layer: SIO_BASE_HANDLE the base
\* socket, unless a layer intercepts it; SIO_BSP_HANDLE_POLL the handle of the
\* next layer (the base its own), or an error.
SIO_BASE_HANDLE(h) == {Depth, None}
SIO_BSP_HANDLE_POLL(h) == {IF h < Depth THEN h + 1 ELSE h, None}

\* One turn of ws_get_base_socket: the answer of SIO_BASE_HANDLE, or a turn
\* for the next layer. It fails where there is none, and at once where the
\* handle is no socket (WSAENOTSOCK).
GetBaseSocket ==
    /\ pc = "base"
    /\ \E answer \in SIO_BASE_HANDLE(at), next \in SIO_BSP_HANDLE_POLL(at) :
          \/ answer # None /\ pc' = "group" /\ base' = answer /\ UNCHANGED <<at, errno>>
          \/ answer = None /\ next \notin {None, at} /\ at' = next /\ UNCHANGED <<pc, base, errno>>
          \/ answer = None /\ Fail("ENOTSOCK") /\ UNCHANGED <<at, base>>
    /\ UNCHANGED <<sock, layers, acquired>>

\* poll_group_acquire when a group has room.
Acquire ==
    /\ Goto("group", "alloc")
    /\ taken < groups * GroupSize
    /\ taken' = taken + 1
    /\ UNCHANGED <<sock, at, base, layers, groups, devices, cells, errno>>

\* poll_group__new: memory and NtCreateFile in afd_create_device_handle.
OpenDevice ==
    /\ pc = "group" /\ taken = groups * GroupSize /\ groups < MaxGroups
    /\ \/ pc' = "associate" /\ devices' = devices + 1 /\ UNCHANGED errno
       \/ Fail("ENOMEM") /\ UNCHANGED devices
    /\ UNCHANGED <<sock, at, base, layers, groups, taken, cells>>

\* Mutant: no CloseHandle at the label error.
Associate_leak ==
    /\ pc = "associate"
    /\ \/ pc' = "alloc" /\ groups' = groups + 1 /\ taken' = taken + 1 /\ UNCHANGED <<devices, errno>>
       \/ Fail("EINVAL") /\ UNCHANGED <<groups, taken, devices>>
    /\ UNCHANGED <<sock, at, base, layers, cells>>

\* The device joins the completion port; then the group joins the queue.
Associate ==
    /\ pc = "associate"
    /\ \/ pc' = "alloc" /\ groups' = groups + 1 /\ taken' = taken + 1 /\ UNCHANGED <<devices, errno>>
       \/ Fail("EINVAL") /\ devices' = devices - 1 /\ UNCHANGED <<groups, taken>>
    /\ UNCHANGED <<sock, at, base, layers, cells>>

\* sock__alloc; err1 releases the place in the group.
Alloc ==
    /\ pc = "alloc"
    /\ \/ pc' = "register" /\ cells' = cells + 1 /\ UNCHANGED <<taken, errno>>
       \/ Fail("ENOMEM") /\ taken' = taken - 1 /\ UNCHANGED cells
    /\ UNCHANGED <<sock, at, base, layers, groups, devices>>

\* port_register_socket; err2 and err1 free the sock_state and the place.
Register ==
    /\ pc = "register"
    /\ IF layers[sock] = None
       THEN /\ pc' = "idle" /\ errno' = "none"
            /\ layers' = [layers EXCEPT ![sock] = base] /\ UNCHANGED <<cells, taken>>
       ELSE Fail("EEXIST") /\ cells' = cells - 1 /\ taken' = taken - 1 /\ UNCHANGED layers
    /\ UNCHANGED <<sock, at, base, groups, devices>>

\* A registered socket is deleted (its poll is over).
Del(s) ==
    /\ pc = "idle" /\ layers[s] # None
    /\ layers' = [layers EXCEPT ![s] = None]
    /\ taken' = taken - 1 /\ cells' = cells - 1
    /\ UNCHANGED <<pc, sock, at, base, groups, devices, errno>>

Add == GetBaseSocket \/ Acquire \/ OpenDevice \/ Associate \/ Alloc \/ Register
Next == Add \/ \E s \in Socks : Call(s) \/ Del(s)

Spec == Init /\ [][Next]_vars

------------------------------------------------------------------------------
(* Properties *)

\* Whatever step of an addition fails, the port owns afterwards what it
\* owned before: a place and memory for every registered socket, a device
\* for every group.
NothingLeaks == pc = "idle" =>
    /\ taken = Cardinality(Registered) /\ cells = Cardinality(Registered)
    /\ devices = groups /\ taken <= groups * GroupSize

\* What is polled is the base socket, below all layers.
PollsTheBase == \A s \in Registered : layers[s] = Depth

\* A failed addition gives back what it took, and a successful one polls the
\* base socket.
AdditionSound == NothingLeaks /\ PollsTheBase

==============================================================================
