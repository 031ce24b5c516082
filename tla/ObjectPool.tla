------------------------------ MODULE ObjectPool ------------------------------
(***************************************************************************)
(* rlib/pool.hpp: fixed_object_pool. Threads borrow objects, of which at   *)
(* most max_size are made, and wait on a condition variable while there is *)
(* none; new_obj_ready is what they wait for. The list of free objects is  *)
(* a set here: which of them is lent does not matter.                      *)
(***************************************************************************)
CONSTANTS Threads,
          Objects    \* max_size objects

ASSUME ObjectsAssumption == Objects # {}

VARIABLES pc,
          made,      \* buffer: objects that have been constructed
          free,      \* free_list
          ready,     \* new_obj_ready
          held       \* objects a thread has borrowed

vars == <<pc, made, free, ready, held>>

TypeOK ==
    /\ pc \in [Threads -> {"idle", "starved", "waiting", "woken", "notify", "error"}]
    /\ made \subseteq Objects /\ free \subseteq made
    /\ ready \in BOOLEAN
    /\ held \in [Threads -> SUBSET made]

\* fill_full may have been called before the pool is shared.
Init ==
    /\ pc = [t \in Threads |-> "idle"]
    /\ made \in {{}, Objects} /\ free = made
    /\ ready = FALSE
    /\ held = [t \in Threads |-> {}]

Goto(t, from, to) == pc[t] = from /\ pc' = [pc EXCEPT ![t] = to]

\* Mutant: new_obj_ready is not reset.
Take_readyStays(t) ==
    /\ pc' = [pc EXCEPT ![t] = "idle"]
    /\ UNCHANGED ready
    /\ \E o \in IF free # {} THEN free ELSE Objects \ made :
          /\ made' = made \cup {o}
          /\ free' = free \ {o}
          /\ held' = [held EXCEPT ![t] = @ \cup {o}]

\* do_try_borrow_one finds an object, or makes one if there are less than
\* max_size.
Available == free # {} \/ made # Objects
Take(t) ==
    /\ pc' = [pc EXCEPT ![t] = "idle"]
    /\ ready' = FALSE
    /\ \E o \in IF free # {} THEN free ELSE Objects \ made :
          /\ made' = made \cup {o}
          /\ free' = free \ {o}
          /\ held' = [held EXCEPT ![t] = @ \cup {o}]

\* try_borrow_one, alone or in borrow_one.
TryBorrow(t) ==
    /\ pc[t] = "idle"
    /\ IF Available THEN Take(t)
       ELSE pc' = [pc EXCEPT ![t] = "starved"] /\ UNCHANGED <<made, free, ready, held>>

\* borrow_cv.wait: a thread that comes to it, or wakes up, goes on if
\* new_obj_ready is set; then an object must be available.
Recheck(t) ==
    /\ pc[t] \in {"starved", "woken"}
    /\ IF ~ready THEN pc' = [pc EXCEPT ![t] = "waiting"] /\ UNCHANGED <<made, free, ready, held>>
       ELSE IF Available THEN Take(t)
       ELSE pc' = [pc EXCEPT ![t] = "error"] /\ UNCHANGED <<made, free, ready, held>>

\* release_one, under the lock ...
Release(t, o) ==
    /\ o \in held[t]
    /\ Goto(t, "idle", "notify")
    /\ free' = free \cup {o}
    /\ held' = [held EXCEPT ![t] = @ \ {o}]
    /\ ready' = TRUE
    /\ UNCHANGED made

\* ... and after it: notify_one.
Notify(t) ==
    /\ pc[t] = "notify"
    /\ \/ \E u \in Threads : pc[u] = "waiting" /\ pc' = [pc EXCEPT ![t] = "idle", ![u] = "woken"]
       \/ (\A u \in Threads : pc[u] # "waiting") /\ pc' = [pc EXCEPT ![t] = "idle"]
    /\ UNCHANGED <<made, free, ready, held>>

\* A condition variable may wake a thread for no reason.
Spurious(t) == Goto(t, "waiting", "woken") /\ UNCHANGED <<made, free, ready, held>>

Step(t) == Recheck(t) \/ Notify(t)
Next == \E t \in Threads :
    TryBorrow(t) \/ Step(t) \/ Spurious(t) \/ \E o \in Objects : Release(t, o)

Spec == Init /\ [][Next]_vars

\* Threads are scheduled; nobody needs to give an object back.
FairSpec == Spec /\ \A t \in Threads : WF_vars(Step(t))

------------------------------------------------------------------------------
(* Properties *)

\* No object is lent to two borrowers, or is free while it is lent, or lost.
OneOwner ==
    /\ \A t \in Threads : held[t] \cap free = {}
    /\ \A t, u \in Threads : t # u => held[t] \cap held[u] = {}
    /\ made = free \cup UNION {held[t] : t \in Threads}

\* A thread that stops waiting gets an object: borrow_one never throws
\* "unknown par error.".
NeverThrows == \A t \in Threads : pc[t] # "error"

\* When every object is back, no thread is left asleep: one that sleeps is
\* about to be woken, and will find new_obj_ready set.
AllBackNobodySleeps ==
    (\E t \in Threads : pc[t] = "waiting") /\ (\A t \in Threads : held[t] = {}) =>
       ready /\ \E t \in Threads : pc[t] \in {"notify", "woken"}

\* Together: objects and sleepers are accounted for (pool.hpp:75-118).
PoolSound == OneOwner /\ NeverThrows /\ AllBackNobodySleeps

\* pool.hpp:23: a thread waits if borrow_one starves, until others release
\* their object. So it does not wait for ever while an object is free.
ServedWhenFree == \A t \in Threads :
    (pc[t] = "waiting" /\ free # {}) ~> (pc[t] # "waiting" \/ free = {})

==============================================================================
