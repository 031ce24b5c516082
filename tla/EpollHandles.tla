----------------------------- MODULE EpollHandles -----------------------------
(***************************************************************************)
(* wepoll.c: the life of an epoll port. Any thread may create, use and     *)
(* close ports at any time. A global tree maps handles to ports; a thread  *)
(* that uses a port holds a reference in its reflock, and epoll_close      *)
(* waits for the references before it frees the port. Handle values and    *)
(* memory are used again once they are closed and freed.                   *)
(***************************************************************************)
EXTENDS Integers, FiniteSets

CONSTANTS Callers,
          Ports,       \* memory cells for a port_state_t
          Handles,     \* values of a kernel handle
          Null,
          GroupSize,   \* POLL_GROUP__MAX_GROUP_SIZE
          MaxSocks     \* bound: sockets registered with a port

ASSUME HandlesAssumption ==
    /\ IsFiniteSet(Callers)
    /\ Null \notin Ports \cup Handles
    /\ GroupSize \in Nat \ {0} /\ MaxSocks \in Nat

VARIABLES at,       \* what a thread is about to do
          hold,     \* the port_state or tree node it has a pointer to
          arg,      \* the completion port it passed, or passes, to the kernel
          tree,     \* epoll__handle_tree
          alive,    \* ports that are allocated
          iocp,     \* iocp_handle of a port
          open,     \* completion ports the kernel has open
          refs,     \* reference count of the reflock
          mark,     \* its other bits: none, DESTROY or POISON
          socks,    \* number of sockets registered with a port
          groups,   \* number of its poll groups
          aborted   \* an assert has ended the process

handlesVars == <<at, hold, arg, tree, alive, iocp, open, refs, mark, socks, groups, aborted>>
reflock == <<refs, mark>>
content == <<socks, groups>>

Using == {"ctl", "wait", "call", "gqcs", "woken", "unref"}
Closing == {"close", "destroy", "await", "poison", "delete"}

HandlesTypeOK ==
    /\ at \in [Callers -> {"idle", "created", "signal"} \cup Using \cup Closing]
    /\ hold \in [Callers -> Ports \cup {Null}]
    /\ arg \in [Callers -> Handles \cup {Null}]
    /\ tree \in [Handles -> Ports \cup {Null}]
    /\ alive \subseteq Ports
    /\ iocp \in [Ports -> Handles \cup {Null}]
    /\ open \subseteq Handles
    /\ refs \in [Ports -> Int]
    /\ mark \in [Ports -> {"none", "destroy", "poison"}]
    /\ socks \in [Ports -> 0 .. MaxSocks]
    /\ groups \in [Ports -> Nat]
    /\ aborted \in BOOLEAN

HandlesInit ==
    /\ at = [t \in Callers |-> "idle"]
    /\ hold = [t \in Callers |-> Null]
    /\ arg = [t \in Callers |-> Null]
    /\ tree = [h \in Handles |-> Null]
    /\ alive = {}
    /\ iocp = [p \in Ports |-> Null]
    /\ open = {}
    /\ refs = [p \in Ports |-> 0]
    /\ mark = [p \in Ports |-> "none"]
    /\ socks = [p \in Ports |-> 0]
    /\ groups = [p \in Ports |-> 0]
    /\ aborted = FALSE

MoveTo(t, from, to) == at[t] = from /\ at' = [at EXCEPT ![t] = to]

------------------------------------------------------------------------------
(* epoll_create *)

\* port_new: memory, a completion port of its own, an empty port.
PortNew(t) ==
    /\ MoveTo(t, "idle", "created")
    /\ \E p \in Ports \ alive, h \in Handles \ open :
          /\ alive' = alive \cup {p}
          /\ open' = open \cup {h}
          /\ hold' = [hold EXCEPT ![t] = p]
          /\ iocp' = [iocp EXCEPT ![p] = h]
          /\ refs' = [refs EXCEPT ![p] = 0]
          /\ mark' = [mark EXCEPT ![p] = "none"]
          /\ socks' = [socks EXCEPT ![p] = 0]
          /\ groups' = [groups EXCEPT ![p] = 0]
    /\ UNCHANGED <<arg, tree, aborted>>

\* ts_tree_add. A handle that is in the tree already leads to port_delete,
\* which asserts that the completion port is closed.
TreeAdd(t) ==
    LET h == iocp[hold[t]] IN
    /\ MoveTo(t, "created", "idle")
    /\ IF tree[h] = Null
       THEN tree' = [tree EXCEPT ![h] = hold[t]] /\ UNCHANGED aborted
       ELSE aborted' = TRUE /\ UNCHANGED tree
    /\ hold' = [hold EXCEPT ![t] = Null]
    /\ UNCHANGED <<arg, alive, iocp, open, reflock, content>>

------------------------------------------------------------------------------
(* epoll_ctl and epoll_wait *)

\* Mutant: the reference is taken only once the lock of the tree is released.
FindAndRef_unlocked(t, h, use) ==
    /\ MoveTo(t, "idle", use)
    /\ tree[h] # Null
    /\ hold' = [hold EXCEPT ![t] = tree[h]]
    /\ UNCHANGED <<arg, tree, alive, iocp, open, reflock, content, aborted>>

\* ts_tree_find_and_ref: an unknown handle is an error (nothing happens).
FindAndRef(t, h, use) ==
    /\ MoveTo(t, "idle", use)
    /\ tree[h] # Null
    /\ hold' = [hold EXCEPT ![t] = tree[h]]
    /\ refs' = [refs EXCEPT ![tree[h]] = @ + 1]
    /\ UNCHANGED <<arg, tree, alive, iocp, open, mark, content, aborted>>

GroupsFull(p) == socks[p] = groups[p] * GroupSize

\* port__ctl_add under the lock of the port: a socket that finds all poll
\* groups full needs a new one, and poll_group__new asks for the completion
\* port, which must be there.
AddSock(t) ==
    LET p == hold[t] IN
    /\ MoveTo(t, "ctl", "unref")
    /\ socks[p] < MaxSocks
    /\ IF GroupsFull(p) /\ iocp[p] = Null
       THEN aborted' = TRUE /\ UNCHANGED content
       ELSE /\ socks' = [socks EXCEPT ![p] = @ + 1]
            /\ groups' = IF GroupsFull(p) THEN [groups EXCEPT ![p] = @ + 1] ELSE groups
            /\ UNCHANGED aborted
    /\ UNCHANGED <<hold, arg, tree, alive, iocp, open, reflock>>

\* The other operations of port_ctl, and those that fail.
CtlOther(t) ==
    LET p == hold[t] IN
    /\ MoveTo(t, "ctl", "unref")
    /\ socks' \in {socks, [socks EXCEPT ![p] = IF @ > 0 THEN @ - 1 ELSE @]}
    /\ UNCHANGED <<hold, arg, tree, alive, iocp, open, reflock, groups, aborted>>

\* port__poll under the lock: port__update_events fails.
CannotUpdate(t) ==
    /\ MoveTo(t, "wait", "unref")
    /\ UNCHANGED <<hold, arg, tree, alive, iocp, open, reflock, content, aborted>>

\* port__poll has left the lock: it reads port_state->iocp_handle ...
LoadHandle(t) ==
    /\ MoveTo(t, "wait", "call")
    /\ arg' = [arg EXCEPT ![t] = iocp[hold[t]]]
    /\ UNCHANGED <<hold, tree, alive, iocp, open, reflock, content, aborted>>

\* ... and calls GetQueuedCompletionStatusEx, which fails unless the value
\* is an open handle by now.
CallGqcs(t) ==
    /\ MoveTo(t, "call", IF arg[t] \in open THEN "gqcs" ELSE "unref")
    /\ arg' = [arg EXCEPT ![t] = IF @ \in open THEN @ ELSE Null]
    /\ UNCHANGED <<hold, tree, alive, iocp, open, reflock, content, aborted>>

\* Packets arrive, or the time is over.
Packets(t) ==
    /\ arg[t] # Null
    /\ MoveTo(t, "gqcs", "woken")
    /\ UNCHANGED <<hold, arg, tree, alive, iocp, open, reflock, content, aborted>>

\* The completion port has been closed under the waiting thread.
Abandoned(t) ==
    /\ arg[t] = Null
    /\ MoveTo(t, "gqcs", "unref")
    /\ UNCHANGED <<hold, arg, tree, alive, iocp, open, reflock, content, aborted>>

\* port__feed_events under the lock; port_wait goes on when none of the
\* packets was of interest.
Feed(t) ==
    /\ MoveTo(t, "woken", "wait") \/ MoveTo(t, "woken", "unref")
    /\ arg' = [arg EXCEPT ![t] = Null]
    /\ UNCHANGED <<hold, tree, alive, iocp, open, reflock, content, aborted>>

\* Mutant: the thread that drops the last reference wakes nobody.
Unref_silent(t) ==
    LET p == hold[t] IN
    /\ MoveTo(t, "unref", "idle")
    /\ hold' = [hold EXCEPT ![t] = Null]
    /\ refs' = [refs EXCEPT ![p] = @ - 1]
    /\ UNCHANGED <<arg, tree, alive, iocp, open, mark, content, aborted>>

\* reflock_unref: the last reference of a reflock marked DESTROY signals.
Unref(t) ==
    LET p == hold[t]
        last == refs[p] = 1 /\ mark[p] = "destroy" IN
    /\ MoveTo(t, "unref", IF last THEN "signal" ELSE "idle")
    /\ hold' = IF last THEN hold ELSE [hold EXCEPT ![t] = Null]
    /\ refs' = [refs EXCEPT ![p] = @ - 1]
    /\ UNCHANGED <<arg, tree, alive, iocp, open, mark, content, aborted>>

------------------------------------------------------------------------------
(* epoll_close *)

\* ts_tree_del_and_ref
DelAndRef(t, h) ==
    /\ MoveTo(t, "idle", "close")
    /\ tree[h] # Null
    /\ hold' = [hold EXCEPT ![t] = tree[h]]
    /\ refs' = [refs EXCEPT ![tree[h]] = @ + 1]
    /\ tree' = [tree EXCEPT ![h] = Null]
    /\ UNCHANGED <<arg, alive, iocp, open, mark, content, aborted>>

\* port_close: CloseHandle ends the waits on the completion port.
PortClose(t) ==
    LET p == hold[t] IN
    /\ MoveTo(t, "close", "destroy")
    /\ iocp' = [iocp EXCEPT ![p] = Null]
    /\ open' = open \ {iocp[p]}
    /\ arg' = [u \in Callers |-> IF at[u] = "gqcs" /\ arg[u] = iocp[p]
                                 THEN Null ELSE arg[u]]
    /\ UNCHANGED <<hold, tree, alive, reflock, content, aborted>>

\* reflock_unref_and_destroy: one atomic addition drops the own reference
\* and sets DESTROY.
UnrefAndDestroy(t) ==
    LET p == hold[t] IN
    /\ MoveTo(t, "destroy", IF refs[p] = 1 THEN "poison" ELSE "await")
    /\ refs' = [refs EXCEPT ![p] = @ - 1]
    /\ mark' = [mark EXCEPT ![p] = "destroy"]
    /\ UNCHANGED <<hold, arg, tree, alive, iocp, open, content, aborted>>

\* NtReleaseKeyedEvent and NtWaitForKeyedEvent on one address meet: each
\* blocks until the other is called.
KeyedEvent(t, c) ==
    /\ at[t] = "signal" /\ at[c] = "await" /\ hold[t] = hold[c]
    /\ at' = [at EXCEPT ![t] = "idle", ![c] = "poison"]
    /\ hold' = [hold EXCEPT ![t] = Null]
    /\ UNCHANGED <<arg, tree, alive, iocp, open, reflock, content, aborted>>

Poison(t) ==
    /\ MoveTo(t, "poison", "delete")
    /\ mark' = [mark EXCEPT ![hold[t]] = "poison"]
    /\ UNCHANGED <<hold, arg, tree, alive, iocp, open, refs, content, aborted>>

\* port_delete frees the sockets, the poll groups and the port.
PortDelete(t) ==
    /\ MoveTo(t, "delete", "idle")
    /\ alive' = alive \ {hold[t]}
    /\ hold' = [hold EXCEPT ![t] = Null]
    /\ UNCHANGED <<arg, tree, iocp, open, reflock, content, aborted>>

------------------------------------------------------------------------------
\* What a thread does by itself once it is inside one of the functions.
Inside(t) ==
    \/ TreeAdd(t)
    \/ AddSock(t) \/ CtlOther(t)
    \/ CannotUpdate(t) \/ LoadHandle(t) \/ CallGqcs(t) \/ Abandoned(t) \/ Feed(t) \/ Unref(t)
    \/ PortClose(t) \/ UnrefAndDestroy(t) \/ Poison(t) \/ PortDelete(t)
    \/ \E c \in Callers : KeyedEvent(t, c)

Calls(t) ==
    \/ PortNew(t)
    \/ \E h \in Handles : FindAndRef(t, h, "ctl") \/ FindAndRef(t, h, "wait") \/ DelAndRef(t, h)

HandlesNext == ~aborted /\ \E t \in Callers : Inside(t) \/ Calls(t) \/ Packets(t)

HandlesSpec == HandlesInit /\ [][HandlesNext]_handlesVars

\* The system schedules every thread; nobody needs to call anything, and no
\* packet needs to arrive.
HandlesFairSpec == HandlesSpec /\ \A t \in Callers : WF_handlesVars(~aborted /\ Inside(t))

------------------------------------------------------------------------------
(* Properties *)

\* No thread uses a port_state after port_delete has freed it, whatever
\* calls race with epoll_close.
NoUseAfterFree == \A t \in Callers :
    at[t] \in Using \cup Closing \cup {"created"} => hold[t] \in alive

\* The asserts of the reflock: references are dropped only while they are
\* counted, the lock is marked once, and nobody holds it when it is poisoned.
ReflockSound == \A t \in Callers :
    LET p == hold[t] IN
    /\ at[t] = "unref" => refs[p] > 0 /\ mark[p] # "poison"
    /\ at[t] = "destroy" => refs[p] > 0 /\ mark[p] = "none"
    /\ at[t] = "poison" => refs[p] = 0 /\ mark[p] = "destroy"

\* wepoll.c:568-571: ts_tree_add never finds the handle of a new port in the
\* tree, as epoll_close takes a handle out before the kernel can reuse it.
NewHandleIsFree == \A t \in Callers : at[t] = "created" => tree[iocp[hold[t]]] = Null

\* A thread waits at the completion port of its own epoll port, unless that
\* port has been closed since the thread entered epoll_wait (the handle it
\* has read may then name another port's completion port).
ForeignWait(t) ==
    /\ at[t] = "gqcs" /\ arg[t] # Null
    /\ \E q \in alive \ {hold[t]} : iocp[q] = arg[t]
ForeignWaitOnlyAfterClose == \A t \in Callers : ForeignWait(t) => iocp[hold[t]] = Null

\* Together: the life of a port_state is sound, from the handle it is found
\* under (wepoll.c:568) to the memory that epoll_close frees (wepoll.c:1223).
PortLifeSound ==
    NoUseAfterFree /\ ReflockSound /\ NewHandleIsFree /\ ForeignWaitOnlyAfterClose

\* epoll_close returns, however many threads are inside epoll_wait or
\* epoll_ctl, unless one of them waits at a foreign completion port.
CloseReturnsIn(t) ==
    at[t] = "close" ~> at[t] = "idle" \/ aborted \/ \E u \in Callers : ForeignWait(u)

\* wepoll.c:1445 assert(port_state->iocp_handle != NULL): a port that gets a
\* new poll group has its completion port.
GroupHasIocp == ~aborted

==============================================================================
