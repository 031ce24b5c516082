------------------------------ MODULE WepollInit ------------------------------
(***************************************************************************)
(* wepoll.c: the global initialisation. Every function calls init first;   *)
(* the first one to come runs the parts in order, the others wait for it,  *)
(* and a failed run is repeated by the next call.                          *)
(***************************************************************************)
EXTENDS Naturals

CONSTANTS Threads, None,
          MaxRuns    \* bound: runs of the callback

\* None is no thread.
InitAssumption == None \notin Threads /\ MaxRuns \in Nat

Parts == <<"ws", "nt", "reflock", "epoll">>

VARIABLES pc,       \* idle, enter, run, inside (past init)
          done,     \* init__done
          once,     \* init__once is complete
          runner,   \* the thread inside the callback
          part,     \* the part a thread comes to next
          up,       \* parts that have been initialised
          tree,     \* a port is in the tree of handles
          runs

vars == <<pc, done, once, runner, part, up, tree, runs>>

Init ==
    /\ pc = [t \in Threads |-> "idle"]
    /\ done = FALSE /\ once = FALSE /\ runner = None
    /\ part = [t \in Threads |-> 0] /\ up = {} /\ tree = FALSE /\ runs = 0

Goto(t, from, to) == pc[t] = from /\ pc' = [pc EXCEPT ![t] = to]

\* init__done is read without a lock: it may be seen set late, never early.
Call(t) ==
    /\ Goto(t, "idle", "enter") \/ (done /\ Goto(t, "idle", "inside"))
    /\ UNCHANGED <<done, once, runner, part, up, tree, runs>>

\* InitOnceExecuteOnce: one thread at a time, until a callback succeeds.
Enter(t) ==
    /\ runner = None
    /\ IF once THEN Goto(t, "enter", "inside") /\ UNCHANGED <<runner, part, runs>>
       ELSE /\ Goto(t, "enter", "run")
            /\ runs < MaxRuns /\ runs' = runs + 1
            /\ runner' = t /\ part' = [part EXCEPT ![t] = 1]
    /\ UNCHANGED <<done, once, up, tree>>

\* Mutant: a failed callback counts as run.
Fails_complete(t) ==
    /\ Goto(t, "run", "idle")
    /\ once' = TRUE /\ runner' = None
    /\ UNCHANGED <<done, part, up, tree, runs>>

\* The callback returns FALSE, and init -1.
Fails(t) ==
    /\ Goto(t, "run", "idle")
    /\ runner' = None
    /\ UNCHANGED <<done, once, part, up, tree, runs>>

\* A part succeeds, and the next one is called.
PartUp(t, p) ==
    /\ up' = up \cup {p}
    /\ part' = [part EXCEPT ![t] = @ + 1]

At(t, p) == pc[t] = "run" /\ Parts[part[t]] = p
Fallible(t, p) ==
    /\ At(t, p)
    /\ Fails(t) \/ (PartUp(t, p) /\ UNCHANGED <<pc, done, once, runner, tree, runs>>)

\* WSAStartup, the imports from ntdll, NtCreateKeyedEvent.
ws_global_init(t) == Fallible(t, "ws")
nt_global_init(t) == Fallible(t, "nt")
reflock_global_init(t) == Fallible(t, "reflock")

\* The tree of handles is emptied; this cannot fail and completes init.
epoll_global_init(t) ==
    /\ At(t, "epoll") /\ PartUp(t, "epoll")
    /\ tree' = FALSE
    /\ pc' = [pc EXCEPT ![t] = "inside"]
    /\ done' = TRUE /\ once' = TRUE /\ runner' = None
    /\ UNCHANGED runs

\* The function past init; epoll_create adds a port to the tree.
Work(t) ==
    /\ Goto(t, "inside", "idle")
    /\ tree' \in {tree, TRUE}
    /\ UNCHANGED <<done, once, runner, part, up, runs>>

Next == \E t \in Threads :
    \/ Call(t) \/ Enter(t) \/ Work(t)
    \/ ws_global_init(t) \/ nt_global_init(t) \/ reflock_global_init(t) \/ epoll_global_init(t)

Spec == Init /\ [][Next]_vars

------------------------------------------------------------------------------
(* Properties *)

\* A function goes past init only when every part is up.
InsideWhenUp == \A t \in Threads : pc[t] = "inside" => up = {"ws", "nt", "reflock", "epoll"}

\* While a thread is inside the callback, whose last part empties the tree of
\* handles, no port is in that tree to be forgotten.
NoPortYet == runner # None => ~tree

\* Nobody passes before all parts are up, and no port is forgotten.
GlobalInitSound == InsideWhenUp /\ NoPortYet

==============================================================================
