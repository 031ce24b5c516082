---------------------------- MODULE TraceableList ----------------------------
(***************************************************************************)
(* rlib/impl/traceable_list.hpp: a doubly linked list whose iterators can  *)
(* be made from the address of an element. Ends are null pointers; the     *)
(* iterator end() is the null pointer with a copy of tail, good for -- as  *)
(* long as tail is that element: callers keep no iterator over a change.   *)
(***************************************************************************)
EXTENDS Naturals, Sequences, SequencesExt, FiniteSets

CONSTANTS Nodes, Nil   \* Nil is no node

NodesAssumption == IsFiniteSet(Nodes) /\ Nil \notin Nodes

VARIABLE list   \* head, tail, m_size and the links of the nodes
VARIABLE live   \* nodes that are allocated

SetLink(l, dir, n, to) == IF n = Nil THEN l ELSE [l EXCEPT ![dir][n] = to]

\* Mutant: an element put before the first one does not become the first.
emplace_one_staleHead(l, where, n) ==
    LET last == where = Nil
        left == IF last THEN l.tail ELSE l.prev[where]
        l1 == [l EXCEPT !.next[n] = where, !.prev[n] = left, !.size = @ + 1,
                        !.head = IF @ = Nil THEN n ELSE @,
                        !.tail = IF last THEN n ELSE @] IN
    SetLink(SetLink(l1, "next", left, n), "prev", where, n)

\* emplace_one(where, ...), where = Nil at end(): push_one and push_back.
emplace_one(l, where, n) ==
    LET last == where = Nil
        left == IF last THEN l.tail ELSE l.prev[where]
        l1 == [l EXCEPT !.next[n] = where, !.prev[n] = left, !.size = @ + 1,
                        !.head = IF @ = where THEN n ELSE @,
                        !.tail = IF last THEN n ELSE @] IN
    SetLink(SetLink(l1, "next", left, n), "prev", where, n)

\* pop_one of an element; the links of a freed node mean nothing. At end() and
\* on an empty list it throws and leaves the list alone (pop_back of an empty
\* list follows a null pointer before that: no caller does it).
pop_one(l, n) ==
    LET left == l.prev[n]
        right == l.next[n]
        l1 == [l EXCEPT !.head = IF @ = n THEN right ELSE @,
                        !.tail = IF @ = n THEN left ELSE @, !.size = @ - 1,
                        !.next[n] = Nil, !.prev[n] = Nil] IN
    SetLink(SetLink(l1, "next", left, right), "prev", right, left)

Init ==
    /\ list = [head |-> Nil, tail |-> Nil, size |-> 0,
               next |-> [n \in Nodes |-> Nil], prev |-> [n \in Nodes |-> Nil]]
    /\ live = {}

\* operator++ and operator--, the elements met by repeating them; at most one
\* more than there are nodes.
Walk(first, link) ==
    LET step[i \in 0 .. Cardinality(Nodes)] ==
            IF i = 0 THEN first ELSE IF step[i - 1] = Nil THEN Nil ELSE link[step[i - 1]]
        ends == {i \in DOMAIN step : step[i] = Nil} \cup {Cardinality(Nodes) + 1} IN
    [i \in 1 .. (CHOOSE j \in ends : \A k \in ends : j <= k) |-> step[i - 1]]

\* push_one, push_front (before head) and push_back (at end()).
Push(n, where) ==
    /\ n \notin live
    /\ list' = emplace_one(list, where, n)
    /\ live' = live \cup {n}

\* pop_some(from, to): pop_one of one element after the other. pop_one,
\* pop_front and pop_back take one element, the destructor all.
PopSome(from, to) ==
    LET w == Walk(list.head, list.next)
        popped[i \in 0 .. to - from] ==
            IF i = 0 THEN list ELSE pop_one(popped[i - 1], w[from + i - 1]) IN
    /\ from < to /\ to <= Len(w) + 1
    /\ list' = popped[to - from]
    /\ live' = live \ {w[i] : i \in from .. to - 1}

Next ==
    \/ \E n \in Nodes, where \in live \cup {Nil} : Push(n, where)
    \/ \E from, to \in 1 .. Cardinality(Nodes) + 1 : PopSome(from, to)

vars == <<list, live>>
Spec == Init /\ [][Next]_vars

------------------------------------------------------------------------------
(* Properties *)

\* The pointers implement a sequence, and the same one whether it is read
\* forwards from begin() or backwards from --end().
Forwards == Walk(list.head, list.next)
Backwards == Reverse(Walk(list.tail, list.prev))
SeqList == INSTANCE SeqList WITH
    Elems <- Nodes, seq <- IF Forwards = Backwards THEN Forwards ELSE <<Nil, Nil>>
ImplementsSeqList == SeqList!Spec

==============================================================================
