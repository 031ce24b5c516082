------------------------------- MODULE EpollPort -------------------------------
(***************************************************************************)
(* wepoll.c: one epoll port. Threads change the set of sockets and wait    *)
(* for events under one lock; the lock is released while a thread waits at *)
(* the completion port. The kernel answers a poll of a socket with one     *)
(* completion packet, at any time after the poll was submitted.            *)
(* A sock_state is a memory cell; its poll, and the packet that answers    *)
(* it, point into it.                                                      *)
(***************************************************************************)
EXTENDS Naturals, Sequences, SequencesExt

CONSTANTS Threads,
          Cells,       \* memory for a sock_state_t
          Socks,       \* sockets (a closed one does not come back)
          Wants,       \* what callers ask for: sets of epoll events
          Happens,     \* what may happen to a socket: AFD events
          None,
          MaxEvents,   \* maxevents of epoll_wait
          MayFail,     \* calls of the AFD driver may fail
          MayTimeOut,  \* epoll_wait is called with a time-out
          MaxCtl       \* bound: calls of epoll_ctl

VARIABLES cell,       \* sock_state, or None: free memory
          updateQ,    \* sock_update_queue
          deletedQ,   \* sock_deleted_queue
          op,         \* what the kernel polls for a cell (status pending)
          packets,    \* the completion port
          level,      \* what is the case at a socket
          closed,     \* sockets the application has closed
          lock, pc, batch, got, result,   \* the threads
          failed,     \* the last walk along updateQ was cut short
          ctls

kernel == <<op, packets>>
world == <<level, closed>>
queues == <<updateQ, deletedQ>>
threads == <<lock, pc, batch, got, result>>
vars == <<cell, queues, kernel, world, threads, failed, ctls>>

\* SOCK__KNOWN_EPOLL_EVENTS: all flags but EPOLLONESHOT.
Known(user) == user \ {"ONESHOT"}
Always == {"ERR", "HUP"}

If(cond, S) == IF cond THEN S ELSE {}

\* sock__epoll_events_to_afd_events
ToAfd(user) ==
    {"LOCAL_CLOSE"}
    \cup If(user \cap {"IN", "RDNORM"} # {}, {"RECEIVE", "ACCEPT"})
    \cup If(user \cap {"PRI", "RDBAND"} # {}, {"RECEIVE_EXPEDITED"})
    \cup If(user \cap {"OUT", "WRNORM", "WRBAND"} # {}, {"SEND"})
    \cup If(user \cap {"IN", "RDNORM", "RDHUP"} # {}, {"DISCONNECT"})
    \cup If("HUP" \in user, {"ABORT"})
    \cup If("ERR" \in user, {"CONNECT_FAIL"})

\* sock__afd_events_to_epoll_events
ToEpoll(afd) ==
    If(afd \cap {"RECEIVE", "ACCEPT"} # {}, {"IN", "RDNORM"})
    \cup If("RECEIVE_EXPEDITED" \in afd, {"PRI", "RDBAND"})
    \cup If("SEND" \in afd, {"OUT", "WRNORM", "WRBAND"})
    \cup If("DISCONNECT" \in afd, {"IN", "RDNORM", "RDHUP"})
    \cup If("ABORT" \in afd, {"HUP"})
    \cup If("CONNECT_FAIL" \in afd, {"IN", "OUT", "ERR", "RDNORM", "WRNORM", "RDHUP"})

Status == {"IDLE", "PENDING", "CANCELLED"}
Users == SUBSET ((UNION Wants) \cup Always)
Polls == SUBSET ToAfd((UNION Wants) \cup Always)
CellType == [sock : Socks, user : Users, pending : Users, status : Status, deleted : BOOLEAN]
Packet == [cell : Cells, kind : {"events", "cancelled", "failed", "nothing"},
           afd : SUBSET (Happens \cup {"LOCAL_CLOSE"})]

\* Memory is finite, None is nothing else, LOCAL_CLOSE is an answer of the
\* driver, never the state of a socket, and callers ask for what EpollSet says.
PortAssumption ==
    /\ IsFiniteSet(Cells)
    /\ Wants \subseteq SUBSET {"IN", "OUT", "RDHUP", "ONESHOT"}
    /\ None \notin Threads \cup CellType /\ \A flags \in Users \cup Polls : flags # None
    /\ "LOCAL_CLOSE" \notin Happens
    /\ MaxEvents \in Nat \ {0}
    /\ MaxCtl \in Nat

TypeOK ==
    /\ cell \in [Cells -> CellType \cup {None}]
    /\ updateQ \in Seq(Cells) /\ deletedQ \in Seq(Cells)
    /\ op \in [Cells -> {None} \cup Polls]
    /\ packets \in Seq(Packet)
    /\ level \in [Socks -> SUBSET Happens] /\ closed \subseteq Socks
    /\ lock \in Threads \cup {None}
    /\ pc \in [Threads -> {"idle", "ctl", "poll", "gqcs", "back", "feed", "finish"}]
    /\ batch \in [Threads -> Seq(Packet)]
    /\ got \in [Threads -> SUBSET (Socks \X Users)]
    /\ result \in [Threads -> {"none", "events", "timeout", "error", "mistaken"}]
    /\ failed \in BOOLEAN /\ ctls \in 0 .. MaxCtl

Init ==
    /\ cell = [c \in Cells |-> None]
    /\ updateQ = <<>> /\ deletedQ = <<>>
    /\ op = [c \in Cells |-> None] /\ packets = <<>>
    /\ level = [s \in Socks |-> {}] /\ closed = {}
    /\ lock = None
    /\ pc = [t \in Threads |-> "idle"]
    /\ batch = [t \in Threads |-> <<>>]
    /\ got = [t \in Threads |-> {}]
    /\ result = [t \in Threads |-> "none"]
    /\ failed = FALSE /\ ctls = 0

------------------------------------------------------------------------------
(* The AFD driver *)

Answer(c, kind, afd) == [cell |-> c, kind |-> kind, afd |-> afd]

\* The poll of a cell is answered when something it polls for is the case.
Complete(c) ==
    /\ op[c] # None
    /\ LET events == op[c] \cap level[cell[c].sock] IN
          \/ events # {} /\ packets' = Append(packets, Answer(c, "events", events))
          \/ MayFail /\ \E k \in {"failed", "nothing"} :
                packets' = Append(packets, Answer(c, k, {}))
    /\ op' = [op EXCEPT ![c] = None]
    /\ UNCHANGED <<cell, queues, world, threads, failed, ctls>>

\* Something begins, or ceases, to be the case at a socket.
Changes(s) ==
    /\ s \notin closed
    /\ \E e \in Happens :
          level' = [level EXCEPT ![s] = IF e \in @ THEN @ \ {e} ELSE @ \cup {e}]
    /\ UNCHANGED <<cell, queues, kernel, closed, threads, failed, ctls>>

\* closesocket: its polls are answered with AFD_POLL_LOCAL_CLOSE.
CloseSocket(s) ==
    LET polled == {c \in Cells : op[c] # None /\ cell[c].sock = s} IN
    /\ s \notin closed
    /\ closed' = closed \cup {s}
    /\ level' = [level EXCEPT ![s] = {}]
    /\ \E answers \in SetToSeqs({Answer(c, "events", {"LOCAL_CLOSE"}) : c \in polled}) :
          packets' = packets \o answers
    /\ op' = [c \in Cells |-> IF c \in polled THEN None ELSE op[c]]
    /\ UNCHANGED <<cell, queues, threads, failed, ctls>>

\* afd_cancel_poll: nothing to do when the poll has been answered already.
afd_cancel_poll(c) ==
    IF op[c] = None THEN UNCHANGED kernel
    ELSE /\ op' = [op EXCEPT ![c] = None]
         /\ packets' = Append(packets, Answer(c, "cancelled", {}))

------------------------------------------------------------------------------
(* sock_state and the two queues *)

IsEnqueued(c) == Contains(updateQ, c) \/ Contains(deletedQ, c)

\* port_request_socket_update
RequestUpdate(c) == updateQ' = IF IsEnqueued(c) THEN updateQ ELSE Append(updateQ, c)
\* queue_remove: the node is unlinked, if it is in the queue.
Without(q, c) == IF Contains(q, c) THEN RemoveAt(q, CHOOSE i \in DOMAIN q : q[i] = c) ELSE q
\* port_cancel_socket_update
CancelUpdate(c) == updateQ' = Without(updateQ, c)

\* port_find_socket: the registered cells, one per socket.
Registered(s) == {c \in Cells : cell[c] # None /\ ~cell[c].deleted /\ cell[c].sock = s}

\* sock__delete of a cell without a poll: the memory is free at once.
Free(c) ==
    /\ cell' = [cell EXCEPT ![c] = None]
    /\ CancelUpdate(c)
    /\ deletedQ' = Without(deletedQ, c)

\* Mutant: sock__delete frees a cell whose cancelled poll has yet to return.
Delete_now(c) == Free(c) /\ IF cell[c].status = "PENDING" THEN afd_cancel_poll(c) ELSE UNCHANGED kernel

\* Mutant: the pending poll is not cancelled.
Delete_noCancel(c) ==
    IF cell[c].status = "IDLE" THEN Free(c) /\ UNCHANGED kernel
    ELSE /\ cell' = [cell EXCEPT ![c].deleted = TRUE]
         /\ UNCHANGED kernel
         /\ CancelUpdate(c)
         /\ deletedQ' = Append(deletedQ, c)

\* sock__delete: a poll that has yet to return is cancelled, and the cell
\* freed when its packet comes. A failing cancel is ignored.
Delete(c) ==
    IF cell[c].status = "IDLE" THEN Free(c) /\ UNCHANGED kernel
    ELSE /\ \/ /\ cell[c].status = "PENDING"
               /\ afd_cancel_poll(c)
               /\ cell' = [cell EXCEPT ![c].deleted = TRUE, ![c].status = "CANCELLED",
                                       ![c].pending = {}]
            \/ /\ cell[c].status = "CANCELLED" \/ (MayFail /\ op[c] # None)
               /\ cell' = [cell EXCEPT ![c].deleted = TRUE]
               /\ UNCHANGED kernel
         /\ CancelUpdate(c)
         /\ deletedQ' = Append(deletedQ, c)

\* sock_set_event
SetEvent(c, want) ==
    LET user == want \cup Always IN
    /\ cell' = [cell EXCEPT ![c].user = user]
    /\ IF Known(user) \subseteq cell[c].pending THEN UNCHANGED updateQ ELSE RequestUpdate(c)

NewCell(s, want) == [sock |-> s, user |-> want \cup Always, pending |-> {},
                     status |-> "IDLE", deleted |-> FALSE]

------------------------------------------------------------------------------
(* sock_update *)

Covered(c) == Known(cell[c].user) \subseteq cell[c].pending

\* sock_update when all goes well: nothing while the poll covers the interest
\* or is on its way back; a poll that does not cover it is cancelled; a cell
\* without a poll gets one, or is dropped when its socket is closed.
SockUpdate(c) ==
    \/ /\ cell[c].status = "CANCELLED" \/ (cell[c].status = "PENDING" /\ Covered(c))
       /\ CancelUpdate(c)
       /\ UNCHANGED <<cell, deletedQ, kernel>>
    \/ /\ cell[c].status = "PENDING" /\ ~Covered(c)
       /\ afd_cancel_poll(c)
       /\ cell' = [cell EXCEPT ![c].status = "CANCELLED", ![c].pending = {}]
       /\ CancelUpdate(c)
       /\ UNCHANGED deletedQ
    \/ /\ cell[c].status = "IDLE" /\ cell[c].sock \notin closed
       /\ op' = [op EXCEPT ![c] = ToAfd(cell[c].user)]
       /\ cell' = [cell EXCEPT ![c].status = "PENDING", ![c].pending = cell[c].user]
       /\ CancelUpdate(c)
       /\ UNCHANGED <<deletedQ, packets>>
    \/ /\ cell[c].status = "IDLE" /\ cell[c].sock \in closed
       /\ Free(c)
       /\ UNCHANGED kernel

\* The AFD call it makes fails: the cell stays first in the queue.
SockUpdateFails(c) ==
    /\ MayFail
    /\ \/ cell[c].status = "IDLE" /\ cell[c].sock \notin closed
       \/ cell[c].status = "PENDING" /\ ~Covered(c) /\ op[c] # None
    /\ UNCHANGED <<cell, queues, kernel>>

------------------------------------------------------------------------------
(* Threads *)

Goto(t, from, to) == pc[t] = from /\ pc' = [pc EXCEPT ![t] = to]

\* active_poll_count, without the thread that asks.
OthersPoll(t) == \E u \in Threads \ {t} : pc[u] \in {"gqcs", "back"}

\* Return from the call, leaving the lock.
Return(t, r) ==
    /\ pc' = [pc EXCEPT ![t] = "idle"]
    /\ lock' = None
    /\ got' = [got EXCEPT ![t] = {}]
    /\ result' = [result EXCEPT ![t] = r]
    /\ UNCHANGED batch

\* Mutant: no port__update_events_if_polling.
CtlReturns_noUpdate(t) ==
    /\ lock = None /\ pc[t] = "idle"
    /\ ctls < MaxCtl /\ ctls' = ctls + 1
    /\ UNCHANGED <<world, threads, failed>>

\* port_ctl up to port__update_events_if_polling.
CtlReturns(t) ==
    /\ lock = None
    /\ IF OthersPoll(t) THEN Goto(t, "idle", "ctl") /\ lock' = t
                        ELSE pc[t] = "idle" /\ UNCHANGED <<pc, lock>>
    /\ ctls < MaxCtl /\ ctls' = ctls + 1
    /\ UNCHANGED <<world, batch, got, result, failed>>

CtlAdd(t, s, want) ==
    /\ s \notin closed /\ Registered(s) = {}
    /\ \E c \in {d \in Cells : cell[d] = None} :
          /\ cell' = [cell EXCEPT ![c] = NewCell(s, want)]
          /\ RequestUpdate(c)
    /\ CtlReturns(t)
    /\ UNCHANGED <<deletedQ, kernel>>

CtlMod(t, s, want) ==
    /\ \E c \in Registered(s) : SetEvent(c, want)
    /\ CtlReturns(t)
    /\ UNCHANGED <<deletedQ, kernel>>

\* EPOLL_CTL_DEL does not look at the update queue.
CtlDel(t, s) ==
    /\ lock = None /\ pc[t] = "idle"
    /\ \E c \in Registered(s) : Delete(c)
    /\ ctls < MaxCtl /\ ctls' = ctls + 1
    /\ UNCHANGED <<world, threads, failed>>

\* port_wait, up to port__poll.
Wait(t) ==
    /\ lock = None
    /\ Goto(t, "idle", "poll")
    /\ lock' = t
    /\ result' = [result EXCEPT ![t] = "none"]
    /\ UNCHANGED <<cell, queues, kernel, world, batch, got, failed, ctls>>

\* port_wait has its result: it walks along the update queue once more if
\* other threads are polling, and returns.
Leave(t, r) ==
    IF OthersPoll(t)
    THEN /\ pc' = [pc EXCEPT ![t] = "finish"]
         /\ lock' = t
         /\ result' = [result EXCEPT ![t] = r]
         /\ UNCHANGED <<batch, got>>
    ELSE Return(t, "none")

Walking(t) == lock = t /\ pc[t] \in {"ctl", "poll", "finish"}

\* One turn of the loop in port__update_events. Submitting a poll sets the
\* error code of the thread, which port_wait looks at last.
UpdateOne(t) ==
    /\ Walking(t) /\ updateQ # <<>>
    /\ SockUpdate(Head(updateQ))
    /\ failed' = (failed /\ updateQ' # <<>>)
    /\ result' = [result EXCEPT ![t] = IF @ = "timeout" /\ op' # op THEN "mistaken" ELSE @]
    /\ UNCHANGED <<world, lock, pc, batch, got, ctls>>

UpdateFails(t) ==
    /\ Walking(t) /\ updateQ # <<>>
    /\ SockUpdateFails(Head(updateQ))
    /\ failed' = TRUE
    /\ IF pc[t] = "poll" THEN Leave(t, "error")
       ELSE Return(t, IF result[t] = "timeout" THEN "mistaken" ELSE "none")
    /\ UNCHANGED <<world, ctls>>

\* The queue is empty: port__poll leaves the lock and waits.
UpdateDone(t) ==
    /\ Walking(t) /\ updateQ = <<>>
    /\ IF pc[t] = "poll" THEN Goto(t, "poll", "gqcs") /\ lock' = None /\ UNCHANGED <<batch, got, result>>
                         ELSE Return(t, IF result[t] = "mistaken" THEN "mistaken" ELSE "none")
    /\ UNCHANGED <<cell, queues, kernel, world, failed, ctls>>

\* GetQueuedCompletionStatusEx returns up to MaxEvents packets, or times out.
Dequeue(t) ==
    /\ packets # <<>>
    /\ Goto(t, "gqcs", "back")
    /\ LET n == IF Len(packets) < MaxEvents THEN Len(packets) ELSE MaxEvents IN
          /\ batch' = [batch EXCEPT ![t] = SubSeq(packets, 1, n)]
          /\ packets' = SubSeq(packets, n + 1, Len(packets))
    /\ UNCHANGED <<cell, queues, op, world, lock, got, result, failed, ctls>>

TimeOut(t) ==
    /\ MayTimeOut
    /\ Goto(t, "gqcs", "back")
    /\ result' = [result EXCEPT ![t] = "timeout"]
    /\ UNCHANGED <<cell, queues, kernel, world, lock, batch, got, failed, ctls>>

\* EnterCriticalSection in port__poll.
Back(t) ==
    /\ lock = None
    /\ pc[t] = "back"
    /\ IF result[t] = "timeout" THEN Leave(t, "timeout")
       ELSE Goto(t, "back", "feed") /\ lock' = t /\ UNCHANGED <<batch, got, result>>
    /\ UNCHANGED <<cell, queues, kernel, world, failed, ctls>>

\* What a packet says about a cell that is not deleted.
Events(p) ==
    CASE p.kind = "failed" -> {"ERR"}
      [] p.kind = "events" -> ToEpoll(p.afd)
      [] OTHER -> {}

\* What is reported of it: what the user asked for.
Interesting(p) == Events(p) \cap cell[p.cell].user

\* Mutant: delete_pending is not looked at.
Drops_closedOnly(p) == "LOCAL_CLOSE" \in p.afd
\* The packet ends the life of the cell.
Drops(p) == cell[p.cell].deleted \/ "LOCAL_CLOSE" \in p.afd

\* Mutant: the socket is not queued again when there is nothing to report.
Requeue_reported(p) == IF Interesting(p) = {} THEN UNCHANGED updateQ ELSE RequestUpdate(p.cell)
Requeue(p) == RequestUpdate(p.cell)

\* sock_feed_event: the poll of the cell is over. A deleted cell, or one
\* whose socket is closed, is freed; any other is queued for a new poll, and
\* what its user asked for is reported.
FeedOne(t) ==
    LET p == Head(batch[t])
        c == p.cell
        events == Interesting(p) IN
    /\ pc[t] = "feed" /\ batch[t] # <<>>
    /\ batch' = [batch EXCEPT ![t] = Tail(@)]
    /\ IF Drops(p)
       THEN Free(c) /\ UNCHANGED got
       ELSE /\ Requeue(p)
            /\ UNCHANGED deletedQ
            /\ cell' = [cell EXCEPT ![c].status = "IDLE", ![c].pending = {},
                           ![c].user = IF events # {} /\ "ONESHOT" \in @ THEN {} ELSE @]
            /\ got' = [got EXCEPT ![t] = IF events = {} THEN @ ELSE @ \cup {<<cell[c].sock, events>>}]
    /\ UNCHANGED <<kernel, world, lock, pc, result, failed, ctls>>

\* port_wait after port__poll: done with events, else once more, unless the
\* time is over.
FeedDone(t) ==
    /\ pc[t] = "feed" /\ batch[t] = <<>>
    /\ \/ got[t] # {} /\ Leave(t, "events")
       \/ got[t] = {} /\ MayTimeOut /\ Leave(t, "none")
       \/ got[t] = {} /\ Goto(t, "feed", "poll") /\ UNCHANGED <<lock, batch, got, result>>
    /\ UNCHANGED <<cell, queues, kernel, world, failed, ctls>>

------------------------------------------------------------------------------
Ctl(t) == \E s \in Socks :
    \/ CtlDel(t, s)
    \/ \E want \in Wants : CtlAdd(t, s, want) \/ CtlMod(t, s, want)

Proceed(t) ==
    \/ UpdateOne(t) \/ UpdateFails(t) \/ UpdateDone(t)
    \/ Dequeue(t) \/ Back(t) \/ FeedOne(t) \/ FeedDone(t)

Environment ==
    \/ \E c \in Cells : Complete(c)
    \/ \E s \in Socks : Changes(s) \/ CloseSocket(s)

Next == Environment \/ \E t \in Threads : Ctl(t) \/ Wait(t) \/ Proceed(t) \/ TimeOut(t)

Spec == Init /\ [][Next]_vars

\* The kernel answers polls, the system schedules every thread and lets it
\* have the lock some time when that is free again and again, and the
\* application calls epoll_wait in a loop (as the forwarder does).
FairSpec ==
    /\ Spec
    /\ \A c \in Cells : WF_vars(Complete(c))
    /\ \A t \in Threads : WF_vars(Proceed(t)) /\ SF_vars(Back(t)) /\ WF_vars(Wait(t))

------------------------------------------------------------------------------
(* Properties *)

Points(ps, c) == \E i \in DOMAIN ps : ps[i].cell = c
AtMostOnce(ps) == \A i, j \in DOMAIN ps : ps[i].cell = ps[j].cell => i = j
Active(c) == cell[c] # None /\ cell[c].status # "IDLE"

\* A completion packet always points to a cell that is still allocated, and
\* a cell has one poll or one packet on its way, in one place, exactly while
\* its status says so.
PacketsPointToCells ==
    /\ \A c \in Cells :
          /\ Active(c) <=> \/ op[c] # None
                           \/ Points(packets, c)
                           \/ \E t \in Threads : Points(batch[t], c)
          /\ op[c] # None => ~Points(packets, c)
          /\ \A t \in Threads : Points(batch[t], c) =>
                /\ op[c] = None /\ ~Points(packets, c)
                /\ \A u \in Threads \ {t} : ~Points(batch[u], c)
    /\ AtMostOnce(packets)
    /\ \A t \in Threads : AtMostOnce(batch[t])

\* A sock_state is in at most one queue (it has one queue node), the update
\* queue holds registered cells, the other one exactly the deleted cells, so
\* every deleted cell is freed by its packet or by port_delete.
QueuesSound ==
    /\ IsInjective(updateQ) /\ IsInjective(deletedQ)
    /\ \A c \in Cells :
          /\ Contains(updateQ, c) => cell[c] # None /\ ~cell[c].deleted
          /\ Contains(deletedQ, c) <=> cell[c] # None /\ cell[c].deleted
    /\ \A c, d \in Cells :
          c # d /\ cell[c] # None /\ cell[d] # None /\ cell[c].sock = cell[d].sock
             => cell[c].deleted \/ cell[d].deleted

\* Cells are sound: what points into one points into an allocated one.
CellsSound == TypeOK /\ PacketsPointToCells /\ QueuesSound

\* A socket that is not queued for an update has a poll in the kernel for
\* all its user asks for, or one that has been cancelled and will return.
InterestCovered == \A c \in Cells :
    cell[c] # None /\ ~cell[c].deleted /\ ~Contains(updateQ, c) =>
       \/ cell[c].status = "PENDING" /\ Covered(c)
          /\ (op[c] # None => ToAfd(cell[c].user) \subseteq op[c])
       \/ cell[c].status = "CANCELLED"

\* While a thread waits at the completion port and nobody is in the lock, no
\* socket waits for an update: a change of the set by another thread reaches
\* the waiting one, unless the driver has refused a poll.
PollersSeeAllSockets ==
    lock = None /\ (\E t \in Threads : pc[t] \in {"gqcs", "back"}) => updateQ = <<>> \/ failed

\* wepoll.c:1311-1316: a wait that times out returns 0. Its error code is not
\* overwritten by polls it submits for other threads, since none is left to
\* submit, unless the driver has just refused one.
Mistakes(t) == result[t] # "mistaken" /\ result'[t] = "mistaken"
TimeoutReturnsZero == [][\A t \in Threads : Mistakes(t) => failed]_vars

\* Changes of the set reach the driver and the threads that wait, and a
\* time-out is not taken for an error of a poll.
EventsReachWaiters == [](InterestCovered /\ PollersSeeAllSockets) /\ TimeoutReturnsZero

\* The port does what an epoll set promises.
Interest(s) == IF Registered(s) = {} THEN None
               ELSE cell[CHOOSE c \in Registered(s) : TRUE].user
EpollSet == INSTANCE EpollSet WITH interest <- [s \in Socks |-> Interest(s)], events <- got
ImplementsEpollSet == EpollSet!Spec

\* Level-triggered: a socket that has what its user asks for, and goes on
\* having it, is reported in the end.
Due(s) == \E c \in Registered(s) : ToEpoll(level[s]) \cap cell[c].user # {}
Reported(s) == \E t \in Threads : \E e \in got[t] : e[1] = s
DueIsReported == \A s \in Socks : Due(s) ~> (~Due(s) \/ Reported(s))

\* A deleted cell is freed, as long as threads go on waiting.
IsFreed(c) == (cell[c] # None /\ cell[c].deleted) ~> (cell[c] = None)

==============================================================================
