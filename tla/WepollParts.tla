------------------------------ MODULE WepollParts ------------------------------
(***************************************************************************)
(* Parts of wepoll.c next to the life of a port, each with variables of    *)
(* its own: the queue of poll groups, adding a socket step by step, and    *)
(* the one-time initialisation; and what each of them promises.            *)
(***************************************************************************)
EXTENDS EpollHandles

CONSTANTS PlacesPerGroup,                  \* POLL_GROUP__MAX_GROUP_SIZE
          Groups, Head0,                   \* PollGroups
          AddedSocks, Depth, MaxGroups,    \* SockNew
          MaxRuns                          \* WepollInit

VARIABLES next, prev, size, live, closing,                           \* PollGroups
          addPc, sock, layer, base, layers, addGroups, devices,
          taken, cells, errno,                                       \* SockNew
          initPc, done, once, runner, part, up, hasPorts, runs       \* WepollInit

Queue == INSTANCE PollGroups WITH GroupSize <- PlacesPerGroup
Adding == INSTANCE SockNew WITH
    pc <- addPc, at <- layer, groups <- addGroups,
    None <- Null, Socks <- AddedSocks, GroupSize <- PlacesPerGroup
Global == INSTANCE WepollInit WITH
    pc <- initPc, tree <- hasPorts, None <- Null, Threads <- Callers

\* PollGroups: the queue is one ring through the groups that are allocated,
\* and those with room are at the end.
GroupsSound == Queue!RingSound /\ Queue!FullFirst

\* SockNew: a failed addition gives back what it took, and a successful one
\* polls the base socket.
AdditionSound == Adding!AdditionSound

\* WepollInit: nobody passes before all parts are up, and no port is in the
\* tree of handles when it is emptied.
GlobalInitSound == Global!GlobalInitSound

===============================================================================
