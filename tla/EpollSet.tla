------------------------------- MODULE EpollSet -------------------------------
(***************************************************************************)
(* What an epoll port promises: it keeps the events the caller asked for   *)
(* on each socket, and a wait reports some of those, of sockets that are   *)
(* in the set at that moment. A one-shot socket is disarmed by its report. *)
(***************************************************************************)
CONSTANTS Threads, Socks, None

VARIABLES interest,   \* the events asked for, or None: not in the set
          events,     \* what the wait of a thread has reported so far
          closed      \* sockets that have been closed

vars == <<interest, events, closed>>

Init ==
    /\ interest = [s \in Socks |-> None]
    /\ events = [t \in Threads |-> {}]
    /\ closed = {}

\* EPOLL_CTL_ADD and EPOLL_CTL_MOD. Errors and hang-ups are always asked for.
Ctl(s) ==
    /\ s \notin closed \/ interest[s] # None
    /\ \E want \in SUBSET {"IN", "OUT", "RDHUP", "ONESHOT"} :
          interest' = [interest EXCEPT ![s] = want \cup {"ERR", "HUP"}]
    /\ UNCHANGED <<events, closed>>

Del(s) ==
    /\ interest' = [interest EXCEPT ![s] = None]
    /\ UNCHANGED <<events, closed>>

\* A closed socket leaves the set by itself.
Drop(s) == s \in closed /\ Del(s)

Report(t, s) ==
    /\ interest[s] # None
    /\ \E e \in (SUBSET interest[s]) \ {{}} :
          events' = [events EXCEPT ![t] = @ \cup {<<s, e>>}]
    /\ interest' = [interest EXCEPT ![s] = IF "ONESHOT" \in @ THEN {} ELSE @]
    /\ UNCHANGED closed

Return(t) ==
    /\ events' = [events EXCEPT ![t] = {}]
    /\ UNCHANGED <<interest, closed>>

CloseSocket(s) ==
    /\ closed' = closed \cup {s}
    /\ UNCHANGED <<interest, events>>

Next ==
    \/ \E s \in Socks : Ctl(s) \/ Del(s) \/ Drop(s) \/ CloseSocket(s)
    \/ \E t \in Threads : Return(t) \/ \E s \in Socks : Report(t, s)

Spec == Init /\ [][Next]_vars

==============================================================================
