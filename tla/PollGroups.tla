------------------------------ MODULE PollGroups ------------------------------
(***************************************************************************)
(* wepoll.c: the poll groups of a port (an AFD device handle for every     *)
(* GroupSize sockets) in an intrusive, circular queue. A node is a group   *)
(* or the head of the queue; a node that is in no queue points to itself.  *)
(***************************************************************************)
EXTENDS Naturals, Sequences, SequencesExt

CONSTANTS Groups,      \* memory for a poll_group
          Head0,       \* the head of poll_group_queue, no group
          GroupSize    \* POLL_GROUP__MAX_GROUP_SIZE

GroupsAssumption == IsFiniteSet(Groups) /\ Head0 \notin Groups /\ GroupSize \in Nat \ {0}

VARIABLES next, prev,   \* the links of the nodes
          size,         \* group_size
          live,         \* groups that are allocated
          closing       \* the port is being deleted

links == <<next, prev>>
vars == <<links, size, live, closing>>
Nodes == Groups \cup {Head0}

is_enqueued(n) == prev[n] # n
queue_first == next[Head0]
queue_last == prev[Head0]

\* The links are functions over the nodes, changed one after the other.
Detached(q, n) ==
    LET q1 == [q EXCEPT !.next[q.prev[n]] = q.next[n]] IN
    [q1 EXCEPT !.prev[q1.next[n]] = q1.prev[n]]
Prepended(q, n) ==
    LET q1 == [q EXCEPT !.next[n] = q.next[Head0], !.prev[n] = Head0] IN
    [q1 EXCEPT !.prev[q1.next[n]] = n, !.next[Head0] = n]
Appended(q, n) ==
    LET q1 == [q EXCEPT !.next[n] = Head0, !.prev[n] = q.prev[Head0]] IN
    [q1 EXCEPT !.next[q1.prev[n]] = n, !.prev[Head0] = n]
Single(q, n) == [q EXCEPT !.next[n] = n, !.prev[n] = n]

Queue == [next |-> next, prev |-> prev]
SetLinks(q) == next' = q.next /\ prev' = q.prev

\* Mutant: the node is not detached from where it was.
MovedToEnd_attached(q, n) == Appended(q, n)
MovedToStart(q, n) == Prepended(Detached(q, n), n)
MovedToEnd(q, n) == Appended(Detached(q, n), n)

Init ==
    /\ next = [n \in Nodes |-> n] /\ prev = [n \in Nodes |-> n]
    /\ size = [g \in Groups |-> 0]
    /\ live = {} /\ closing = FALSE

\* poll_group_acquire: the last group of the queue takes one more socket, or
\* a new one if that is full; a group that has become full moves to the front.
Take(q, g) ==
    /\ size' = [size EXCEPT ![g] = @ + 1]
    /\ SetLinks(IF size[g] + 1 = GroupSize THEN MovedToStart(q, g) ELSE q)

Acquire ==
    /\ ~closing
    /\ IF is_enqueued(Head0) /\ size[queue_last] < GroupSize
       THEN Take(Queue, queue_last) /\ UNCHANGED live
       ELSE \E g \in Groups \ live : live' = live \cup {g} /\ Take(Appended(Single(Queue, g), g), g)
    /\ UNCHANGED closing

\* poll_group_release: the group has room and moves to the end.
Release(g) ==
    /\ g \in live /\ size[g] > 0
    /\ size' = [size EXCEPT ![g] = @ - 1]
    /\ SetLinks(MovedToEnd(Queue, g))
    /\ UNCHANGED <<live, closing>>

\* port_delete has released all sockets; poll_group_delete of the first one.
DeleteFirst ==
    /\ is_enqueued(Head0) /\ \A g \in live : size[g] = 0
    /\ SetLinks(Single(Detached(Queue, queue_first), queue_first))
    /\ live' = live \ {queue_first}
    /\ closing' = (live' # {})
    /\ UNCHANGED size

Next == Acquire \/ (\E g \in Groups : Release(g)) \/ DeleteFirst

Spec == Init /\ [][Next]_vars

------------------------------------------------------------------------------
(* Properties *)

\* The groups met on the way from a node to the head; at most one round.
Walk(link) ==
    LET step[i \in 0 .. Cardinality(Groups) + 1] == IF i = 0 THEN link[Head0] ELSE link[step[i - 1]]
        stops == {i \in DOMAIN step : step[i] = Head0} IN
    IF stops = {} THEN <<Head0>>
    ELSE [i \in 1 .. (CHOOSE j \in stops : \A k \in stops : j <= k) |-> step[i - 1]]

\* The queue is one ring through its head and the live groups, the same in
\* both directions, so port_delete meets and frees every group.
RingSound ==
    /\ ToSet(Walk(next)) = live
    /\ Walk(prev) = Reverse(Walk(next))
    /\ \A g \in Groups \ live : size[g] = 0

\* Full groups come first: looking at the last group is enough to know
\* whether any group has room.
FullFirst == LET w == Walk(next) IN
    \A i, j \in DOMAIN w : i < j /\ size[w[j]] = GroupSize => size[w[i]] = GroupSize

==============================================================================
