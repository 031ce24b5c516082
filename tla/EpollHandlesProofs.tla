-------------------------- MODULE EpollHandlesProofs --------------------------
(* The invariants of EpollHandles, for any number of threads, ports and    *)
(* handles, any GroupSize and any MaxSocks; and, at the end, those of      *)
(* WepollInit (how a port can come to be), SockNew (how one socket is      *)
(* added to it) and PollGroups (the queue of its poll groups).             *)
EXTENDS WepollParts, Sequences, FiniteSetTheorems, RecursionFacts, TLAPS

\* Threads that are counted in the reference count of a port.
Holders(p) == {t \in Callers : hold[t] = p /\ at[t] \in Using \cup {"close", "destroy"}}
Counted == \A p \in alive : refs[p] = Cardinality(Holders(p))

\* Whoever is inside a function has a pointer to memory in use.
HoldsAlive == \A t \in Callers : at[t] # "idle" => hold[t] \in alive

\* One thread at a time makes or closes a port.
Owns(t) == at[t] \in Closing \cup {"created"}
OneOwner == \A t, u \in Callers : t # u /\ Owns(t) /\ Owns(u) => hold[t] # hold[u]

\* A port in the tree is under its own handle, and nobody has begun to close it.
TreeOK == \A h \in Handles : tree[h] # Null =>
    /\ tree[h] \in alive /\ iocp[tree[h]] = h /\ mark[tree[h]] = "none"
    /\ \A t \in Callers : Owns(t) => hold[t] # tree[h]

\* Each completion port that is open belongs to at most one port.
IocpOK ==
    /\ \A p \in Ports : iocp[p] # Null => p \in alive /\ iocp[p] \in open
    /\ \A p, q \in Ports : iocp[p] # Null /\ iocp[p] = iocp[q] => p = q

\* How far the closing of a port has come.
Phase(t) == LET p == hold[t] IN
    /\ at[t] = "created" => mark[p] = "none" /\ refs[p] = 0 /\ iocp[p] # Null /\ tree[iocp[p]] = Null
    /\ at[t] = "close" => mark[p] = "none" /\ iocp[p] # Null
    /\ at[t] = "destroy" => mark[p] = "none" /\ iocp[p] = Null
    /\ at[t] = "await" => mark[p] = "destroy" /\ iocp[p] = Null
    /\ at[t] = "poison" => mark[p] = "destroy" /\ refs[p] = 0 /\ iocp[p] = Null
    /\ at[t] = "delete" => mark[p] = "poison" /\ refs[p] = 0 /\ iocp[p] = Null
    /\ at[t] = "signal" => mark[p] = "destroy" /\ refs[p] = 0
PhaseOK == \A t \in Callers : Phase(t)
PoisonedUnused == \A p \in alive : mark[p] = "poison" => refs[p] = 0

\* One thread signals, and only to one that awaits it.
SignalOK == \A t, u \in Callers :
    t # u /\ at[t] = "signal" /\ at[u] \in {"signal", "poison"} => hold[t] # hold[u]

\* A thread passes the kernel the completion port of its own port, as long
\* as that is open.
ArgOK == \A t \in Callers :
    at[t] \in {"call", "gqcs"} /\ arg[t] # Null /\ iocp[hold[t]] # Null => arg[t] = iocp[hold[t]]

Shape == /\ HoldsAlive /\ OneOwner /\ TreeOK /\ IocpOK /\ PhaseOK
         /\ PoisonedUnused /\ SignalOK /\ ArgOK
IInv == HandlesTypeOK /\ Counted /\ Shape

------------------------------------------------------------------------------
LEMMA InitIInv == HandlesInit => IInv
<1> SUFFICES ASSUME HandlesInit PROVE IInv
  OBVIOUS
<1>1. HandlesTypeOK
  <2>1. 0 \in 0 .. MaxSocks
    BY HandlesAssumption
  <2>2. socks \in [Ports -> 0 .. MaxSocks] /\ groups \in [Ports -> Nat] /\ refs \in [Ports -> Int]
    BY <2>1 DEF HandlesInit
  <2>3. /\ at \in [Callers -> {"idle", "created", "signal"} \cup Using \cup Closing]
        /\ hold \in [Callers -> Ports \cup {Null}] /\ arg \in [Callers -> Handles \cup {Null}]
    BY DEF HandlesInit
  <2>4. /\ tree \in [Handles -> Ports \cup {Null}] /\ alive \subseteq Ports
        /\ iocp \in [Ports -> Handles \cup {Null}] /\ open \subseteq Handles
        /\ mark \in [Ports -> {"none", "destroy", "poison"}] /\ aborted \in BOOLEAN
    BY DEF HandlesInit
  <2> QED BY <2>2, <2>3, <2>4 DEF HandlesTypeOK
<1>2. Counted
  BY DEF HandlesInit, Counted
<1>3. HoldsAlive /\ OneOwner /\ SignalOK /\ ArgOK
  BY DEF HandlesInit, HoldsAlive, OneOwner, Owns, Closing, SignalOK, ArgOK
<1>4. TreeOK /\ IocpOK /\ PhaseOK /\ PoisonedUnused
  BY DEF HandlesInit, TreeOK, IocpOK, PhaseOK, Phase, PoisonedUnused
<1> QED BY <1>1, <1>2, <1>3, <1>4 DEF IInv, Shape

\* The set of counted threads is finite, so the count of a port is a number,
\* and positive while a counted thread points to it.
LEMMA HoldersFinite == ASSUME NEW p PROVE IsFiniteSet(Holders(p))
<1>1. Holders(p) \subseteq Callers
  BY DEF Holders
<1> QED BY <1>1, HandlesAssumption, FS_Subset

LEMMA CountNat == ASSUME IInv, NEW p \in alive PROVE refs[p] \in Nat
  BY HoldersFinite, FS_CardinalityType DEF IInv, Counted

LEMMA CountPositive ==
    ASSUME IInv, NEW t \in Callers, at[t] \in Using \cup {"close", "destroy"}
    PROVE hold[t] \in alive /\ hold[t] \in Ports /\ refs[hold[t]] \in Nat \ {0}
<1>1. at[t] # "idle"
  BY DEF Using
<1>2. hold[t] \in alive /\ hold[t] \in Ports
  BY <1>1 DEF IInv, Shape, HoldsAlive, HandlesTypeOK
<1>3. t \in Holders(hold[t])
  BY DEF Holders
<1>4. Cardinality(Holders(hold[t])) # 0
  BY <1>3, HoldersFinite, FS_EmptySet
<1> QED BY <1>2, <1>4, CountNat DEF IInv, Counted

\* One more counted thread, one fewer, or the same.
LEMMA CountUp ==
    ASSUME IInv, NEW t \in Callers, NEW p \in alive, hold[t] # p \/ at[t] \notin Using \cup {"close", "destroy"},
           alive' = alive, refs' = [refs EXCEPT ![p] = @ + 1],
           \A u \in Callers \ {t} : hold'[u] = hold[u] /\ at'[u] = at[u],
           hold'[t] = p, at[t] = "idle", at'[t] \in Using \cup {"close", "destroy"}
    PROVE Counted'
<1>1. Holders(p)' = Holders(p) \cup {t} /\ t \notin Holders(p)
  BY DEF Holders, Using
<1>2. Cardinality(Holders(p)') = Cardinality(Holders(p)) + 1
  BY <1>1, HoldersFinite, FS_AddElement
<1>3. ASSUME NEW q \in alive, q # p PROVE refs'[q] = Cardinality(Holders(q)')
  <2>1. Holders(q)' = Holders(q)
    BY <1>3 DEF Holders, Using
  <2>2. refs'[q] = refs[q]
    BY <1>3 DEF IInv, HandlesTypeOK
  <2> QED BY <2>1, <2>2 DEF IInv, Counted
<1>4. refs'[p] = refs[p] + 1 /\ refs[p] = Cardinality(Holders(p))
  BY DEF IInv, HandlesTypeOK, Counted
<1>5. \A q \in alive : refs'[q] = Cardinality(Holders(q)')
  BY <1>2, <1>3, <1>4
<1> QED BY <1>5 DEF Counted

LEMMA CountDown ==
    ASSUME IInv, NEW t \in Callers, NEW p, p = hold[t], at[t] \in Using \cup {"close", "destroy"},
           alive' = alive, refs' = [refs EXCEPT ![p] = @ - 1],
           \A u \in Callers \ {t} : hold'[u] = hold[u] /\ at'[u] = at[u],
           at'[t] \notin Using \cup {"close", "destroy"}
    PROVE Counted'
<1>1. Holders(p)' = Holders(p) \ {t} /\ t \in Holders(p)
  BY DEF Holders
<1>2. p \in alive /\ p \in Ports
  BY CountPositive
<1>3. Cardinality(Holders(p)') = Cardinality(Holders(p)) - 1
  BY <1>1, HoldersFinite, FS_RemoveElement
<1>4. ASSUME NEW q \in alive, q # p PROVE refs'[q] = Cardinality(Holders(q)')
  <2>1. Holders(q)' = Holders(q)
    BY <1>4 DEF Holders
  <2>2. refs'[q] = refs[q]
    BY <1>4 DEF IInv, HandlesTypeOK
  <2> QED BY <2>1, <2>2 DEF IInv, Counted
<1>5. refs'[p] = refs[p] - 1 /\ refs[p] = Cardinality(Holders(p))
  BY <1>2 DEF IInv, HandlesTypeOK, Counted
<1>6. \A q \in alive : refs'[q] = Cardinality(Holders(q)')
  BY <1>3, <1>4, <1>5
<1> QED BY <1>6 DEF Counted

LEMMA CountSame ==
    ASSUME IInv, refs' = refs,
           \A p \in alive' : p \in alive /\ Holders(p)' = Holders(p)
    PROVE Counted'
  BY DEF IInv, Counted

------------------------------------------------------------------------------
(* Steps inside epoll_ctl and epoll_wait leave the handles alone. *)

LEMMA QuietShape ==
    ASSUME IInv, NEW t \in Callers, at[t] \in Using, at'[t] \in Using,
           \A u \in Callers \ {t} : at'[u] = at[u],
           UNCHANGED <<hold, tree, alive, iocp, open, refs, mark>>
    PROVE /\ Counted' /\ HoldsAlive' /\ OneOwner' /\ TreeOK' /\ IocpOK'
          /\ PhaseOK' /\ PoisonedUnused' /\ SignalOK'
<1> USE DEF IInv, Shape
<1>1. \A p : Holders(p)' = Holders(p)
  BY DEF Holders, Using
<1>2. Counted'
  BY <1>1, CountSame
<1>3. \A u \in Callers : Owns(u)' <=> Owns(u)
  BY DEF Owns, Using, Closing
<1>4. HoldsAlive'
  BY DEF HoldsAlive, Using
<1>5. OneOwner' /\ TreeOK' /\ IocpOK' /\ PoisonedUnused'
  BY <1>3 DEF OneOwner, TreeOK, IocpOK, PoisonedUnused
<1>6. PhaseOK'
  BY DEF PhaseOK, Phase, Using
<1>7. SignalOK'
  BY DEF SignalOK, Using
<1> QED BY <1>2, <1>4, <1>5, <1>6, <1>7

LEMMA CtlFact == ASSUME IInv, NEW t \in Callers, AddSock(t) \/ CtlOther(t) PROVE IInv'
<1> USE HandlesAssumption
<1>1. at[t] = "ctl" /\ at' = [at EXCEPT ![t] = "unref"] /\ UNCHANGED <<hold, arg, tree, alive, iocp, open, refs, mark>>
  BY DEF AddSock, CtlOther, MoveTo, reflock
<1>2. at'[t] = "unref" /\ \A u \in Callers \ {t} : at'[u] = at[u]
  BY <1>1 DEF IInv, HandlesTypeOK
<1>3. hold[t] \in Ports
  BY <1>1, CountPositive DEF Using
<1>4. socks' \in [Ports -> 0 .. MaxSocks] /\ groups' \in [Ports -> Nat] /\ aborted' \in BOOLEAN
  <2>1. CASE AddSock(t)
    <3>1. socks[hold[t]] \in 0 .. MaxSocks /\ groups[hold[t]] \in Nat
      BY <1>3 DEF IInv, HandlesTypeOK
    <3>2. socks' = socks \/ (socks[hold[t]] < MaxSocks /\ socks' = [socks EXCEPT ![hold[t]] = @ + 1])
      BY <2>1 DEF AddSock, content
    <3>3. groups' = groups \/ groups' = [groups EXCEPT ![hold[t]] = @ + 1]
      BY <2>1 DEF AddSock, content
    <3>4. socks' \in [Ports -> 0 .. MaxSocks]
      BY <3>1, <3>2 DEF IInv, HandlesTypeOK
    <3>5. groups' \in [Ports -> Nat]
      BY <3>1, <3>3 DEF IInv, HandlesTypeOK
    <3>6. aborted' = TRUE \/ aborted' = aborted
      BY <2>1 DEF AddSock
    <3> QED BY <3>4, <3>5, <3>6 DEF IInv, HandlesTypeOK
  <2>2. CASE CtlOther(t)
    <3>1. socks[hold[t]] \in 0 .. MaxSocks
      BY <1>3 DEF IInv, HandlesTypeOK
    <3>2. socks' = socks \/ socks' = [socks EXCEPT ![hold[t]] = IF @ > 0 THEN @ - 1 ELSE @]
      BY <2>2 DEF CtlOther
    <3>3. socks' \in [Ports -> 0 .. MaxSocks]
      BY <3>1, <3>2 DEF IInv, HandlesTypeOK
    <3> QED BY <2>2, <3>3 DEF CtlOther, IInv, HandlesTypeOK
  <2> QED BY <2>1, <2>2
<1>5. HandlesTypeOK'
  BY <1>1, <1>4 DEF IInv, HandlesTypeOK, Using
<1>6. ArgOK'
  BY <1>1, <1>2 DEF IInv, Shape, ArgOK
<1>7. at[t] \in Using /\ at'[t] \in Using
  BY <1>1, <1>2 DEF Using
<1> QED BY <1>1, <1>2, <1>5, <1>6, <1>7, QuietShape DEF IInv, Shape

LEMMA WaitFact ==
    ASSUME IInv, NEW t \in Callers, CannotUpdate(t) \/ LoadHandle(t) \/ CallGqcs(t) \/ Packets(t) \/ Abandoned(t) \/ Feed(t)
    PROVE IInv'
<1>1. at[t] \in Using /\ UNCHANGED <<hold, tree, alive, iocp, open, refs, mark, socks, groups, aborted>>
  BY DEF CannotUpdate, LoadHandle, CallGqcs, Packets, Abandoned, Feed, MoveTo, Using, reflock, content
<1>2. PICK x \in Using : at' = [at EXCEPT ![t] = x]
  BY DEF CannotUpdate, LoadHandle, CallGqcs, Packets, Abandoned, Feed, MoveTo, Using
<1>3. at'[t] = x /\ \A u \in Callers \ {t} : at'[u] = at[u]
  BY <1>2 DEF IInv, HandlesTypeOK
<1>4. hold[t] \in Ports
  BY <1>1, CountPositive
<1>5. HandlesTypeOK' /\ ArgOK'
  <2>1. at' \in [Callers -> {"idle", "created", "signal"} \cup Using \cup Closing]
    BY <1>2 DEF IInv, HandlesTypeOK
  <2>2. CASE LoadHandle(t)
    <3>1. arg' = [arg EXCEPT ![t] = iocp[hold[t]]] /\ iocp[hold[t]] \in Handles \cup {Null}
      BY <1>4, <2>2 DEF LoadHandle, IInv, HandlesTypeOK
    <3>2. arg' \in [Callers -> Handles \cup {Null}]
      BY <3>1 DEF IInv, HandlesTypeOK
    <3>3. HandlesTypeOK'
      BY <1>1, <2>1, <3>2 DEF IInv, HandlesTypeOK
    <3>4. arg'[t] = iocp[hold[t]] /\ \A u \in Callers \ {t} : arg'[u] = arg[u]
      BY <3>1 DEF IInv, HandlesTypeOK
    <3>5. ArgOK'
      BY <1>1, <1>3, <3>4 DEF IInv, Shape, ArgOK
    <3> QED BY <3>3, <3>5
  <2>3. CASE CallGqcs(t)
    <3>1. at[t] = "call" /\ arg' = [arg EXCEPT ![t] = IF @ \in open THEN @ ELSE Null]
      BY <2>3 DEF CallGqcs, MoveTo
    <3>2. arg' \in [Callers -> Handles \cup {Null}]
      BY <3>1 DEF IInv, HandlesTypeOK
    <3>3. HandlesTypeOK'
      BY <1>1, <2>1, <3>2 DEF IInv, HandlesTypeOK
    <3>4. arg'[t] \in {arg[t], Null} /\ \A u \in Callers \ {t} : arg'[u] = arg[u]
      BY <3>1 DEF IInv, HandlesTypeOK
    <3>5. ArgOK'
      BY <1>1, <1>3, <3>1, <3>4 DEF IInv, Shape, ArgOK
    <3> QED BY <3>3, <3>5
  <2>4. CASE CannotUpdate(t) \/ Packets(t) \/ Abandoned(t)
    <3>1. arg' = arg /\ x \in {"woken", "unref"}
      BY <1>3, <2>4 DEF CannotUpdate, Packets, Abandoned, MoveTo, IInv, HandlesTypeOK
    <3> QED BY <1>1, <1>3, <2>1, <3>1 DEF IInv, Shape, HandlesTypeOK, ArgOK
  <2>5. CASE Feed(t)
    <3>1. x \in {"wait", "unref"} /\ arg' = [arg EXCEPT ![t] = Null]
      BY <1>3, <2>5 DEF Feed, MoveTo, IInv, HandlesTypeOK
    <3>2. arg' \in [Callers -> Handles \cup {Null}] /\ \A u \in Callers \ {t} : arg'[u] = arg[u]
      BY <3>1 DEF IInv, HandlesTypeOK
    <3> QED BY <1>1, <1>3, <2>1, <3>1, <3>2 DEF IInv, Shape, HandlesTypeOK, ArgOK
  <2> QED BY <2>2, <2>3, <2>4, <2>5
<1> QED BY <1>1, <1>3, <1>5, QuietShape DEF IInv, Shape

------------------------------------------------------------------------------
(* Steps that change a reference count. *)

\* A reference taken under the lock of the tree is to a port nobody closes.
LEMMA FindFact ==
    ASSUME IInv, NEW t \in Callers, NEW h \in Handles, NEW use \in {"ctl", "wait"}, FindAndRef(t, h, use)
    PROVE IInv'
<1> DEFINE p == tree[h]
<1>1. /\ at[t] = "idle" /\ at' = [at EXCEPT ![t] = use] /\ hold' = [hold EXCEPT ![t] = p]
      /\ refs' = [refs EXCEPT ![p] = @ + 1] /\ p # Null
      /\ UNCHANGED <<arg, tree, alive, iocp, open, mark, socks, groups, aborted>>
  BY DEF FindAndRef, MoveTo, content
<1>2. p \in alive /\ p \in Ports /\ mark[p] = "none" /\ \A u \in Callers : Owns(u) => hold[u] # p
  BY <1>1 DEF IInv, Shape, TreeOK, HandlesTypeOK
<1>3. /\ at'[t] = use /\ hold'[t] = p
      /\ \A u \in Callers \ {t} : at'[u] = at[u] /\ hold'[u] = hold[u]
      /\ \A q \in Ports \ {p} : refs'[q] = refs[q]
  BY <1>1 DEF IInv, HandlesTypeOK
<1> HIDE DEF p
<1>4. HandlesTypeOK'
  BY <1>1, <1>2 DEF IInv, HandlesTypeOK, Using
<1>5. Counted'
  BY <1>1, <1>2, <1>3, CountUp DEF Using
<1>6. HoldsAlive'
  BY <1>1, <1>2, <1>3 DEF IInv, Shape, HoldsAlive
<1>7. \A u \in Callers : Owns(u)' => u # t /\ Owns(u) /\ hold[u] # p
  BY <1>2, <1>3 DEF Owns, Closing
<1>8. OneOwner' /\ TreeOK' /\ IocpOK'
  <2>1. OneOwner'
    BY <1>3, <1>7 DEF IInv, Shape, OneOwner
  <2>2. TreeOK'
    BY <1>1, <1>3, <1>7 DEF IInv, Shape, TreeOK
  <2>3. IocpOK'
    BY <1>1 DEF IInv, Shape, IocpOK
  <2> QED BY <2>1, <2>2, <2>3
<1>9. \A u \in Callers \ {t} : at[u] \in {"created", "close", "destroy", "await", "poison", "delete", "signal"} =>
          hold[u] # p /\ hold[u] \in Ports
  BY <1>2 DEF IInv, Shape, PhaseOK, Phase, Owns, Closing, HoldsAlive, HandlesTypeOK
<1>10. PhaseOK' /\ PoisonedUnused'
  <2>1. PhaseOK'
    BY <1>1, <1>3, <1>9 DEF IInv, Shape, PhaseOK, Phase
  <2>2. PoisonedUnused'
    BY <1>1, <1>2, <1>3 DEF IInv, Shape, PoisonedUnused, HandlesTypeOK
  <2> QED BY <2>1, <2>2
<1>11. SignalOK' /\ ArgOK'
  BY <1>1, <1>3 DEF IInv, Shape, SignalOK, ArgOK
<1> QED BY <1>4, <1>5, <1>6, <1>8, <1>10, <1>11 DEF IInv, Shape

\* The thread that takes a handle out of the tree is the one that closes.
LEMMA DelFact ==
    ASSUME IInv, NEW t \in Callers, NEW h \in Handles, DelAndRef(t, h) PROVE IInv'
<1> DEFINE p == tree[h]
<1>1. /\ at[t] = "idle" /\ at' = [at EXCEPT ![t] = "close"] /\ hold' = [hold EXCEPT ![t] = p]
      /\ refs' = [refs EXCEPT ![p] = @ + 1] /\ p # Null /\ tree' = [tree EXCEPT ![h] = Null]
      /\ UNCHANGED <<arg, alive, iocp, open, mark, socks, groups, aborted>>
  BY DEF DelAndRef, MoveTo, content
<1>2. /\ p \in alive /\ p \in Ports /\ mark[p] = "none" /\ iocp[p] = h
      /\ \A u \in Callers : Owns(u) => hold[u] # p
  BY <1>1 DEF IInv, Shape, TreeOK, HandlesTypeOK
<1>3. /\ at'[t] = "close" /\ hold'[t] = p
      /\ \A u \in Callers \ {t} : at'[u] = at[u] /\ hold'[u] = hold[u]
      /\ \A q \in Ports \ {p} : refs'[q] = refs[q]
      /\ tree'[h] = Null /\ \A g \in Handles \ {h} : tree'[g] = tree[g]
  BY <1>1 DEF IInv, HandlesTypeOK
<1>4. \A g \in Handles \ {h} : tree[g] # Null => tree[g] # p
  BY <1>2 DEF IInv, Shape, TreeOK
<1>5. h # Null
  BY HandlesAssumption
<1> HIDE DEF p
<1>6. HandlesTypeOK'
  BY <1>1, <1>2 DEF IInv, HandlesTypeOK, Closing
<1>7. Counted'
  BY <1>1, <1>2, <1>3, CountUp DEF Using
<1>8. HoldsAlive'
  BY <1>1, <1>2, <1>3 DEF IInv, Shape, HoldsAlive
<1>9. \A u \in Callers \ {t} : Owns(u)' <=> Owns(u)
  BY <1>3 DEF Owns
<1>10. OneOwner'
  BY <1>2, <1>3, <1>9 DEF IInv, Shape, OneOwner
<1>11. TreeOK'
  BY <1>1, <1>3, <1>4, <1>9 DEF IInv, Shape, TreeOK
<1>12. IocpOK'
  BY <1>1 DEF IInv, Shape, IocpOK
<1>13. \A u \in Callers \ {t} : at[u] \in {"created", "close", "destroy", "await", "poison", "delete", "signal"} =>
          hold[u] # p /\ hold[u] \in Ports
  BY <1>2 DEF IInv, Shape, PhaseOK, Phase, Owns, Closing, HoldsAlive, HandlesTypeOK
<1>14. PhaseOK'
  <2>1. \A u \in Callers \ {t} : at[u] = "created" => iocp[hold[u]] \in Handles
    BY <1>13 DEF IInv, Shape, PhaseOK, Phase, HandlesTypeOK
  <2> QED BY <1>1, <1>2, <1>3, <1>5, <1>13, <2>1 DEF IInv, Shape, PhaseOK, Phase
<1>15. PoisonedUnused' /\ SignalOK' /\ ArgOK'
  <2>1. PoisonedUnused'
    BY <1>1, <1>2, <1>3 DEF IInv, Shape, PoisonedUnused, HandlesTypeOK
  <2> QED BY <1>1, <1>3, <2>1 DEF IInv, Shape, SignalOK, ArgOK
<1> QED BY <1>6, <1>7, <1>8, <1>10, <1>11, <1>12, <1>14, <1>15 DEF IInv, Shape

LEMMA UnrefFact == ASSUME IInv, NEW t \in Callers, Unref(t) PROVE IInv'
<1>0. PICK p : p = hold[t]
  OBVIOUS
<1> DEFINE last == refs[p] = 1 /\ mark[p] = "destroy"
<1>1. /\ at[t] = "unref" /\ at' = [at EXCEPT ![t] = IF last THEN "signal" ELSE "idle"]
      /\ hold' = IF last THEN hold ELSE [hold EXCEPT ![t] = Null]
      /\ refs' = [refs EXCEPT ![p] = @ - 1]
      /\ UNCHANGED <<arg, tree, alive, iocp, open, mark, socks, groups, aborted>>
  BY <1>0 DEF Unref, MoveTo, content
<1>2. p \in alive /\ p \in Ports /\ refs[p] \in Nat \ {0}
  BY <1>0, <1>1, CountPositive DEF Using
<1>3. /\ at'[t] = IF last THEN "signal" ELSE "idle"
      /\ hold'[t] = IF last THEN p ELSE Null
      /\ \A u \in Callers \ {t} : at'[u] = at[u] /\ hold'[u] = hold[u]
      /\ refs'[p] = refs[p] - 1 /\ \A q \in Ports \ {p} : refs'[q] = refs[q]
  BY <1>0, <1>1, <1>2 DEF IInv, HandlesTypeOK
<1>4. HandlesTypeOK'
  BY <1>1, <1>2 DEF IInv, HandlesTypeOK
<1>5. Counted'
  <2>1. at[t] \in Using \cup {"close", "destroy"} /\ at'[t] \notin Using \cup {"close", "destroy"}
    BY <1>1, <1>3 DEF Using
  <2> QED BY <1>0, <1>1, <1>3, <2>1, CountDown
<1>6. HoldsAlive'
  BY <1>0, <1>1, <1>2, <1>3 DEF IInv, Shape, HoldsAlive
<1>7. \A u \in Callers : Owns(u)' <=> u # t /\ Owns(u)
  BY <1>1, <1>3 DEF Owns, Closing
<1>8. OneOwner' /\ TreeOK' /\ IocpOK'
  <2>1. OneOwner'
    BY <1>3, <1>7 DEF IInv, Shape, OneOwner
  <2>2. TreeOK'
    BY <1>1, <1>3, <1>7 DEF IInv, Shape, TreeOK
  <2>3. IocpOK'
    BY <1>1 DEF IInv, Shape, IocpOK
  <2> QED BY <2>1, <2>2, <2>3
<1>9. \A u \in Callers \ {t} : at[u] \in {"created", "poison", "delete", "signal"} => hold[u] # p /\ hold[u] \in Ports
  BY <1>2 DEF IInv, Shape, PhaseOK, Phase, HoldsAlive, HandlesTypeOK
<1>10. PhaseOK'
  <2>1. \A u \in Callers \ {t} : refs'[hold[u]] = refs[hold[u]] \/ hold[u] \notin Ports \/ hold[u] = p
    BY <1>3
  <2>2. at'[t] = "signal" => mark'[p] = "destroy" /\ refs'[p] = 0
    BY <1>1, <1>3
  <2>3. at'[t] \in {"idle", "signal"}
    BY <1>3
  <2> HIDE DEF last
  <2> QED BY <1>1, <1>3, <1>9, <2>1, <2>2, <2>3 DEF IInv, Shape, PhaseOK, Phase
<1>11. PoisonedUnused'
  BY <1>1, <1>2, <1>3 DEF IInv, Shape, PoisonedUnused, HandlesTypeOK
<1>12. SignalOK'
  BY <1>3, <1>9 DEF IInv, Shape, SignalOK
<1>13. ArgOK'
  BY <1>1, <1>3 DEF IInv, Shape, ArgOK
<1> QED BY <1>4, <1>5, <1>6, <1>8, <1>10, <1>11, <1>12, <1>13 DEF IInv, Shape

------------------------------------------------------------------------------
(* epoll_create and epoll_close. *)

LEMMA NewFact == ASSUME IInv, NEW t \in Callers, PortNew(t) PROVE IInv'
<1>1. PICK p \in Ports \ alive, h \in Handles \ open :
          /\ alive' = alive \cup {p} /\ open' = open \cup {h}
          /\ hold' = [hold EXCEPT ![t] = p] /\ iocp' = [iocp EXCEPT ![p] = h]
          /\ refs' = [refs EXCEPT ![p] = 0] /\ mark' = [mark EXCEPT ![p] = "none"]
          /\ socks' = [socks EXCEPT ![p] = 0] /\ groups' = [groups EXCEPT ![p] = 0]
  BY DEF PortNew
<1>2. at[t] = "idle" /\ at' = [at EXCEPT ![t] = "created"] /\ UNCHANGED <<arg, tree, aborted>>
  BY DEF PortNew, MoveTo
<1>3. /\ at'[t] = "created" /\ hold'[t] = p
      /\ \A u \in Callers \ {t} : at'[u] = at[u] /\ hold'[u] = hold[u]
      /\ refs'[p] = 0 /\ mark'[p] = "none" /\ iocp'[p] = h
      /\ \A q \in Ports \ {p} : refs'[q] = refs[q] /\ mark'[q] = mark[q] /\ iocp'[q] = iocp[q]
  BY <1>1, <1>2 DEF IInv, HandlesTypeOK
<1>4. HandlesTypeOK'
  <2>1. 0 \in 0 .. MaxSocks
    BY HandlesAssumption
  <2>2. socks' \in [Ports -> 0 .. MaxSocks] /\ groups' \in [Ports -> Nat] /\ refs' \in [Ports -> Int]
    BY <1>1, <2>1 DEF IInv, HandlesTypeOK
  <2> QED BY <1>1, <1>2, <2>2 DEF IInv, HandlesTypeOK
<1>5. \A u \in Callers \ {t} : at[u] # "idle" => hold[u] # p /\ hold[u] \in alive
  BY <1>1 DEF IInv, Shape, HoldsAlive
<1>6. Counted'
  <2>1. Holders(p)' = {}
    BY <1>3, <1>5 DEF Holders, Using
  <2>2. ASSUME NEW q \in alive PROVE Holders(q)' = Holders(q) /\ refs'[q] = refs[q]
    <3>1. q # p /\ q \in Ports
      BY <1>1 DEF IInv, HandlesTypeOK
    <3>2. Holders(q)' = Holders(q)
      BY <1>2, <1>3, <3>1 DEF Holders, Using
    <3> QED BY <1>3, <3>1, <3>2
  <2>3. refs'[p] = Cardinality(Holders(p)')
    BY <1>3, <2>1, FS_EmptySet
  <2>4. \A q \in alive : refs'[q] = Cardinality(Holders(q)')
    BY <2>2 DEF IInv, Counted
  <2>5. \A q \in alive' : refs'[q] = Cardinality(Holders(q)')
    BY <1>1, <2>3, <2>4
  <2> QED BY <2>5 DEF Counted
<1>7. HoldsAlive'
  BY <1>1, <1>3, <1>5 DEF HoldsAlive
<1>8. \A u \in Callers \ {t} : Owns(u)' => Owns(u) /\ hold[u] # p
  BY <1>3, <1>5 DEF Owns, Closing
<1>9. OneOwner'
  BY <1>3, <1>8 DEF IInv, Shape, OneOwner
<1>10. \A g \in Handles : tree[g] # Null => tree[g] # p /\ tree[g] \in alive /\ tree[g] \in Ports
  BY <1>1 DEF IInv, Shape, TreeOK, HandlesTypeOK
<1>11. TreeOK'
  BY <1>1, <1>2, <1>3, <1>8, <1>10 DEF IInv, Shape, TreeOK
<1>12. IocpOK'
  BY <1>1, <1>3 DEF IInv, Shape, IocpOK
<1>13. h \in Handles /\ h # Null
  BY HandlesAssumption
<1>14. tree[h] = Null
  <2> SUFFICES ASSUME tree[h] # Null PROVE FALSE
    OBVIOUS
  <2>1. PICK q \in Ports : q = tree[h]
    BY <1>10, <1>13
  <2>2. iocp[q] = h
    BY <1>13, <2>1 DEF IInv, Shape, TreeOK
  <2>3. h \in open
    BY <1>13, <2>2 DEF IInv, Shape, IocpOK
  <2> QED BY <1>1, <2>3
<1>15. PhaseOK'
  <2>1. \A u \in Callers \ {t} : at[u] # "idle" => hold[u] \in Ports \ {p}
    BY <1>5 DEF IInv, HandlesTypeOK
  <2> QED BY <1>2, <1>3, <1>13, <1>14, <2>1 DEF IInv, Shape, PhaseOK, Phase
<1>16. PoisonedUnused'
  BY <1>1, <1>3 DEF IInv, Shape, PoisonedUnused, HandlesTypeOK
<1>17. SignalOK'
  BY <1>3 DEF IInv, Shape, SignalOK
<1>18. ArgOK'
  <2>1. \A u \in Callers \ {t} : at[u] # "idle" => hold[u] \in Ports \ {p}
    BY <1>5 DEF IInv, HandlesTypeOK
  <2> QED BY <1>2, <1>3, <2>1 DEF IInv, Shape, ArgOK
<1> QED BY <1>4, <1>6, <1>7, <1>9, <1>11, <1>12, <1>15, <1>16, <1>17, <1>18 DEF IInv, Shape

LEMMA AddFact == ASSUME IInv, NEW t \in Callers, TreeAdd(t) PROVE IInv'
<1> DEFINE p == hold[t]
           h == iocp[p]
<1>1. /\ p \in alive /\ p \in Ports /\ mark[p] = "none" /\ h \in Handles /\ tree[h] = Null
      /\ \A u \in Callers \ {t} : Owns(u) => hold[u] # p
  BY DEF TreeAdd, MoveTo, IInv, Shape, HoldsAlive, PhaseOK, Phase, OneOwner, Owns, HandlesTypeOK
<1>2. /\ at[t] = "created" /\ at' = [at EXCEPT ![t] = "idle"] /\ hold' = [hold EXCEPT ![t] = Null]
      /\ tree' = [tree EXCEPT ![h] = p]
      /\ UNCHANGED <<arg, alive, iocp, open, refs, mark, socks, groups, aborted>>
  BY <1>1 DEF TreeAdd, MoveTo, reflock, content
<1>3. /\ at'[t] = "idle" /\ tree'[h] = p
      /\ \A u \in Callers \ {t} : at'[u] = at[u] /\ hold'[u] = hold[u]
      /\ \A g \in Handles \ {h} : tree'[g] = tree[g]
  BY <1>1, <1>2 DEF IInv, HandlesTypeOK
<1> HIDE DEF p, h
<1>4. HandlesTypeOK'
  BY <1>1, <1>2 DEF IInv, HandlesTypeOK
<1>5. \A q : Holders(q)' = Holders(q)
  BY <1>2, <1>3 DEF Holders, Using
<1>6. Counted'
  BY <1>2, <1>5, CountSame
<1>7. HoldsAlive'
  BY <1>2, <1>3 DEF IInv, Shape, HoldsAlive
<1>8. \A u \in Callers : Owns(u)' <=> u # t /\ Owns(u)
  BY <1>3 DEF Owns, Closing
<1>9. OneOwner' /\ IocpOK' /\ PoisonedUnused'
  BY <1>2, <1>3, <1>8 DEF IInv, Shape, OneOwner, IocpOK, PoisonedUnused
<1>10. TreeOK'
  BY <1>1, <1>2, <1>3, <1>8 DEF h, IInv, Shape, TreeOK
<1>11. PhaseOK'
  <2>1. ASSUME NEW u \in Callers, u # t, at[u] = "created" PROVE iocp[hold[u]] # h /\ iocp[hold[u]] \in Handles
    <3>1. hold[u] # p /\ hold[u] \in Ports
      BY <1>1, <2>1 DEF Owns, IInv, Shape, HoldsAlive, HandlesTypeOK
    <3>2. h # Null
      BY <1>1, HandlesAssumption
    <3>3. iocp[hold[u]] # Null
      BY <2>1 DEF IInv, Shape, PhaseOK, Phase
    <3> QED BY <1>1, <3>1, <3>2, <3>3 DEF h, IInv, Shape, IocpOK, HandlesTypeOK
  <2> QED BY <1>2, <1>3, <2>1 DEF IInv, Shape, PhaseOK, Phase
<1>12. SignalOK' /\ ArgOK'
  BY <1>2, <1>3 DEF IInv, Shape, SignalOK, ArgOK
<1> QED BY <1>4, <1>6, <1>7, <1>9, <1>10, <1>11, <1>12 DEF IInv, Shape

LEMMA CloseFact == ASSUME IInv, NEW t \in Callers, PortClose(t) PROVE IInv'
<1> DEFINE p == hold[t]
<1>1. /\ at[t] = "close" /\ at' = [at EXCEPT ![t] = "destroy"]
      /\ iocp' = [iocp EXCEPT ![p] = Null] /\ open' = open \ {iocp[p]}
      /\ arg' = [u \in Callers |-> IF at[u] = "gqcs" /\ arg[u] = iocp[p] THEN Null ELSE arg[u]]
      /\ UNCHANGED <<hold, tree, alive, refs, mark, socks, groups, aborted>>
  BY DEF PortClose, MoveTo, reflock, content
<1>2. /\ p \in alive /\ p \in Ports /\ mark[p] = "none" /\ iocp[p] # Null
      /\ \A u \in Callers \ {t} : Owns(u) => hold[u] # p
  BY <1>1, CountPositive DEF IInv, Shape, PhaseOK, Phase, OneOwner, Owns, Closing
<1>3. /\ at'[t] = "destroy" /\ \A u \in Callers \ {t} : at'[u] = at[u]
      /\ iocp'[p] = Null /\ \A q \in Ports \ {p} : iocp'[q] = iocp[q]
      /\ \A u \in Callers : arg'[u] \in {arg[u], Null}
  BY <1>1, <1>2 DEF IInv, HandlesTypeOK
<1>4. \A h \in Handles : tree[h] # Null => tree[h] # p /\ tree[h] \in Ports
  BY <1>1 DEF IInv, Shape, TreeOK, Owns, Closing, HandlesTypeOK
<1> HIDE DEF p
<1>5. HandlesTypeOK'
  BY <1>1, <1>2 DEF IInv, HandlesTypeOK, Closing
<1>6. \A q : Holders(q)' = Holders(q)
  BY <1>1, <1>3 DEF Holders
<1>7. Counted'
  BY <1>1, <1>6, CountSame
<1>8. HoldsAlive'
  BY <1>1, <1>3 DEF IInv, Shape, HoldsAlive
<1>9. \A u \in Callers : Owns(u)' <=> Owns(u)
  BY <1>1, <1>3 DEF Owns, Closing
<1>10. OneOwner' /\ PoisonedUnused'
  BY <1>1, <1>9 DEF IInv, Shape, OneOwner, PoisonedUnused
<1>11. TreeOK'
  BY <1>1, <1>3, <1>4, <1>9 DEF IInv, Shape, TreeOK
<1>12. IocpOK'
  BY <1>1, <1>2, <1>3 DEF IInv, Shape, IocpOK
<1>13. PhaseOK'
  <2>1. \A u \in Callers \ {t} : at[u] \in {"created", "close"} => hold[u] # p /\ hold[u] \in Ports
    BY <1>2 DEF Owns, Closing, IInv, Shape, HoldsAlive, HandlesTypeOK
  <2>2. \A u \in Callers : iocp'[hold[u]] = iocp[hold[u]] \/ hold[u] = p \/ hold[u] \notin Ports
    BY <1>3
  <2>3. \A u \in Callers : at[u] # "idle" => hold[u] \in Ports
    BY DEF IInv, Shape, HoldsAlive, HandlesTypeOK
  <2>4. hold[t] = p
    BY DEF p
  <2> QED BY <1>1, <1>2, <1>3, <2>1, <2>2, <2>3, <2>4 DEF IInv, Shape, PhaseOK, Phase
<1>14. SignalOK'
  BY <1>1, <1>3 DEF IInv, Shape, SignalOK
<1>15. ArgOK'
  <2>1. \A u \in Callers : at[u] # "idle" => hold[u] \in Ports
    BY DEF IInv, Shape, HoldsAlive, HandlesTypeOK
  <2> QED BY <1>1, <1>3, <2>1 DEF IInv, Shape, ArgOK
<1> QED BY <1>5, <1>7, <1>8, <1>10, <1>11, <1>12, <1>13, <1>14, <1>15 DEF IInv, Shape

LEMMA DestroyFact == ASSUME IInv, NEW t \in Callers, UnrefAndDestroy(t) PROVE IInv'
<1>0. PICK p : p = hold[t]
  OBVIOUS
<1>1. /\ at[t] = "destroy" /\ at' = [at EXCEPT ![t] = IF refs[p] = 1 THEN "poison" ELSE "await"]
      /\ refs' = [refs EXCEPT ![p] = @ - 1] /\ mark' = [mark EXCEPT ![p] = "destroy"]
      /\ UNCHANGED <<hold, arg, tree, alive, iocp, open, socks, groups, aborted>>
  BY <1>0 DEF UnrefAndDestroy, MoveTo, content
<1>2. /\ p \in alive /\ p \in Ports /\ mark[p] = "none" /\ iocp[p] = Null /\ refs[p] \in Nat \ {0}
      /\ \A u \in Callers \ {t} : Owns(u) => hold[u] # p
  BY <1>0, <1>1, CountPositive DEF IInv, Shape, PhaseOK, Phase, OneOwner, Owns, Closing
<1>3. /\ at'[t] = (IF refs[p] = 1 THEN "poison" ELSE "await") /\ \A u \in Callers \ {t} : at'[u] = at[u]
      /\ refs'[p] = refs[p] - 1 /\ mark'[p] = "destroy"
      /\ \A q \in Ports \ {p} : refs'[q] = refs[q] /\ mark'[q] = mark[q]
  BY <1>1, <1>2 DEF IInv, HandlesTypeOK
<1>4. \A h \in Handles : tree[h] # Null => tree[h] # p /\ tree[h] \in Ports
  BY <1>0, <1>1 DEF IInv, Shape, TreeOK, Owns, Closing, HandlesTypeOK
<1>5. HandlesTypeOK'
  <2>1. at' \in [Callers -> {"idle", "created", "signal"} \cup Using \cup Closing]
    BY <1>1 DEF IInv, HandlesTypeOK, Closing
  <2>2. refs' \in [Ports -> Int] /\ mark' \in [Ports -> {"none", "destroy", "poison"}]
    BY <1>1, <1>2 DEF IInv, HandlesTypeOK
  <2> QED BY <1>1, <2>1, <2>2 DEF IInv, HandlesTypeOK
<1>6. Counted'
  <2>1. at'[t] \notin Using \cup {"close", "destroy"}
    BY <1>3 DEF Using
  <2> QED BY <1>0, <1>1, <1>3, <2>1, CountDown
<1>7. HoldsAlive'
  BY <1>1, <1>3 DEF IInv, Shape, HoldsAlive
<1>8. \A u \in Callers : Owns(u)' <=> Owns(u)
  BY <1>1, <1>3 DEF Owns, Closing
<1>9. OneOwner' /\ IocpOK'
  BY <1>1, <1>8 DEF IInv, Shape, OneOwner, IocpOK
<1>10. TreeOK'
  BY <1>1, <1>3, <1>4, <1>8 DEF IInv, Shape, TreeOK
<1>11. \A u \in Callers \ {t} : at[u] \in {"created", "close", "destroy", "await", "poison", "delete", "signal"} =>
          hold[u] # p /\ hold[u] \in Ports
  BY <1>2 DEF IInv, Shape, PhaseOK, Phase, Owns, Closing, HoldsAlive, HandlesTypeOK
<1>12. PhaseOK'
  <2>1. at'[t] \in {"poison", "await"} /\ (at'[t] = "poison" => refs'[p] = 0)
    BY <1>2, <1>3
  <2> QED BY <1>0, <1>1, <1>2, <1>3, <1>11, <2>1 DEF IInv, Shape, PhaseOK, Phase
<1>13. PoisonedUnused'
  BY <1>1, <1>3 DEF IInv, Shape, PoisonedUnused, HandlesTypeOK
<1>14. SignalOK'
  BY <1>0, <1>1, <1>3, <1>11 DEF IInv, Shape, SignalOK
<1>15. ArgOK'
  BY <1>1, <1>3 DEF IInv, Shape, ArgOK
<1> QED BY <1>5, <1>6, <1>7, <1>9, <1>10, <1>12, <1>13, <1>14, <1>15 DEF IInv, Shape

LEMMA KeyedFact == ASSUME IInv, NEW t \in Callers, NEW c \in Callers, KeyedEvent(t, c) PROVE IInv'
<1>0. PICK p : p = hold[t]
  OBVIOUS
<1>1. /\ at[t] = "signal" /\ at[c] = "await" /\ hold[c] = p
      /\ at' = [at EXCEPT ![t] = "idle", ![c] = "poison"] /\ hold' = [hold EXCEPT ![t] = Null]
      /\ UNCHANGED <<arg, tree, alive, iocp, open, refs, mark, socks, groups, aborted>>
  BY <1>0 DEF KeyedEvent, reflock, content
<1>2. /\ at'[t] = "idle" /\ at'[c] = "poison" /\ t # c /\ hold'[c] = p
      /\ \A u \in Callers \ {t} : hold'[u] = hold[u]
      /\ \A u \in Callers \ {t, c} : at'[u] = at[u]
  BY <1>1 DEF IInv, HandlesTypeOK
<1>3. HandlesTypeOK'
  <2>1. at' \in [Callers -> {"idle", "created", "signal"} \cup Using \cup Closing]
    BY <1>1 DEF IInv, HandlesTypeOK, Closing
  <2> QED BY <1>1, <2>1 DEF IInv, HandlesTypeOK
<1>4. \A q : Holders(q)' = Holders(q)
  BY <1>1, <1>2 DEF Holders, Using
<1>5. Counted'
  BY <1>1, <1>4, CountSame
<1>6. HoldsAlive'
  BY <1>1, <1>2 DEF IInv, Shape, HoldsAlive
<1>7. \A u \in Callers : Owns(u)' => u # t /\ Owns(u)
  BY <1>1, <1>2 DEF Owns, Closing
<1>8. OneOwner' /\ TreeOK' /\ IocpOK' /\ PoisonedUnused'
  <2>1. OneOwner'
    BY <1>2, <1>7 DEF IInv, Shape, OneOwner
  <2>2. TreeOK'
    BY <1>1, <1>2, <1>7 DEF IInv, Shape, TreeOK
  <2>3. IocpOK' /\ PoisonedUnused'
    BY <1>1 DEF IInv, Shape, IocpOK, PoisonedUnused
  <2> QED BY <2>1, <2>2, <2>3
<1>9. PhaseOK'
  <2>1. mark[p] = "destroy" /\ refs[p] = 0 /\ iocp[p] = Null
    BY <1>0, <1>1 DEF IInv, Shape, PhaseOK, Phase
  <2>2. \A u \in Callers : u = t \/ u = c \/ (at'[u] = at[u] /\ hold'[u] = hold[u])
    BY <1>2
  <2>3. ASSUME NEW u \in Callers, u # t, u # c PROVE Phase(u)'
    <3>1. Phase(u)
      BY DEF IInv, Shape, PhaseOK
    <3> QED BY <1>1, <2>2, <2>3, <3>1 DEF Phase
  <2>4. Phase(t)' /\ Phase(c)'
    BY <1>1, <1>2, <2>1 DEF Phase
  <2> QED BY <2>3, <2>4 DEF PhaseOK
<1>10. SignalOK'
  <2>1. \A u \in Callers \ {t} : at[u] = "signal" => hold[u] # p
    BY <1>0, <1>1 DEF IInv, Shape, SignalOK
  <2> QED BY <1>1, <1>2, <2>1 DEF IInv, Shape, SignalOK
<1>11. ArgOK'
  BY <1>1, <1>2 DEF IInv, Shape, ArgOK
<1> QED BY <1>3, <1>5, <1>6, <1>8, <1>9, <1>10, <1>11 DEF IInv, Shape

LEMMA PoisonFact == ASSUME IInv, NEW t \in Callers, Poison(t) PROVE IInv'
<1>0. PICK p : p = hold[t]
  OBVIOUS
<1>1. /\ at[t] = "poison" /\ at' = [at EXCEPT ![t] = "delete"] /\ mark' = [mark EXCEPT ![p] = "poison"]
      /\ UNCHANGED <<hold, arg, tree, alive, iocp, open, refs, socks, groups, aborted>>
  BY <1>0 DEF Poison, MoveTo, content
<1>2. /\ p \in alive /\ p \in Ports /\ mark[p] = "destroy" /\ refs[p] = 0 /\ iocp[p] = Null
      /\ \A u \in Callers \ {t} : Owns(u) \/ at[u] = "signal" => hold[u] # p
  BY <1>0, <1>1 DEF IInv, Shape, HoldsAlive, PhaseOK, Phase, OneOwner, SignalOK, Owns, Closing, HandlesTypeOK
<1>3. /\ at'[t] = "delete" /\ \A u \in Callers \ {t} : at'[u] = at[u]
      /\ mark'[p] = "poison" /\ \A q \in Ports \ {p} : mark'[q] = mark[q]
  BY <1>1, <1>2 DEF IInv, HandlesTypeOK
<1>4. HandlesTypeOK'
  <2>1. at' \in [Callers -> {"idle", "created", "signal"} \cup Using \cup Closing]
    BY <1>1 DEF IInv, HandlesTypeOK, Closing
  <2> QED BY <1>1, <2>1 DEF IInv, HandlesTypeOK
<1>5. \A q : Holders(q)' = Holders(q)
  BY <1>1, <1>3 DEF Holders, Using
<1>6. Counted'
  BY <1>1, <1>5, CountSame
<1>7. HoldsAlive'
  BY <1>1, <1>3 DEF IInv, Shape, HoldsAlive
<1>8. \A u \in Callers : Owns(u)' <=> Owns(u)
  BY <1>1, <1>3 DEF Owns, Closing
<1>9. OneOwner' /\ IocpOK'
  BY <1>1, <1>8 DEF IInv, Shape, OneOwner, IocpOK
<1>10. TreeOK'
  <2>1. \A h \in Handles : tree[h] # Null => tree[h] # p /\ tree[h] \in Ports
    BY <1>2 DEF IInv, Shape, TreeOK, HandlesTypeOK
  <2> QED BY <1>1, <1>3, <1>8, <2>1 DEF IInv, Shape, TreeOK
<1>11. PhaseOK'
  <2>1. \A u \in Callers \ {t} : at[u] \in {"created", "close", "destroy", "await", "poison", "delete", "signal"} =>
            hold[u] # p /\ hold[u] \in Ports
    BY <1>2 DEF Owns, Closing, IInv, Shape, HoldsAlive, HandlesTypeOK
  <2> QED BY <1>0, <1>1, <1>2, <1>3, <2>1 DEF IInv, Shape, PhaseOK, Phase
<1>12. PoisonedUnused'
  BY <1>1, <1>2, <1>3 DEF IInv, Shape, PoisonedUnused, HandlesTypeOK
<1>13. SignalOK' /\ ArgOK'
  BY <1>1, <1>3 DEF IInv, Shape, SignalOK, ArgOK
<1> QED BY <1>4, <1>6, <1>7, <1>9, <1>10, <1>11, <1>12, <1>13 DEF IInv, Shape

\* Nobody points to a port that is freed: its count is zero, its closer is
\* the only one, and whoever has signalled has been answered.
LEMMA DeleteFact == ASSUME IInv, NEW t \in Callers, PortDelete(t) PROVE IInv'
<1>0. PICK p : p = hold[t]
  OBVIOUS
<1>1. /\ at[t] = "delete" /\ at' = [at EXCEPT ![t] = "idle"] /\ hold' = [hold EXCEPT ![t] = Null]
      /\ alive' = alive \ {p} /\ UNCHANGED <<arg, tree, iocp, open, refs, mark, socks, groups, aborted>>
  BY <1>0 DEF PortDelete, MoveTo, reflock, content
<1>2. p \in alive /\ p \in Ports /\ mark[p] = "poison" /\ refs[p] = 0 /\ iocp[p] = Null
  BY <1>0, <1>1 DEF IInv, Shape, HoldsAlive, PhaseOK, Phase, HandlesTypeOK
<1>3. /\ at'[t] = "idle" /\ \A u \in Callers \ {t} : at'[u] = at[u] /\ hold'[u] = hold[u]
  BY <1>1 DEF IInv, HandlesTypeOK
<1>4. ASSUME NEW u \in Callers, u # t, at[u] # "idle" PROVE hold[u] # p
  <2>1. CASE at[u] \in Using \cup {"close", "destroy"}
    BY <1>2, <2>1, CountPositive
  <2>2. CASE at[u] = "signal"
    BY <1>2, <2>2 DEF IInv, Shape, PhaseOK, Phase
  <2>3. CASE Owns(u)
    BY <1>0, <1>1, <1>4, <2>3 DEF IInv, Shape, OneOwner, Owns, Closing
  <2> QED BY <1>4, <2>1, <2>2, <2>3 DEF Owns, IInv, HandlesTypeOK
<1>5. HandlesTypeOK'
  BY <1>1 DEF IInv, HandlesTypeOK
<1>6. Counted'
  <2>1. \A q : Holders(q)' = Holders(q)
    BY <1>1, <1>3 DEF Holders, Using
  <2> QED BY <1>1, <2>1, CountSame
<1>7. HoldsAlive'
  BY <1>1, <1>3, <1>4 DEF IInv, Shape, HoldsAlive
<1>8. \A u \in Callers : Owns(u)' <=> u # t /\ Owns(u)
  BY <1>3 DEF Owns, Closing
<1>9. OneOwner'
  BY <1>3, <1>8 DEF IInv, Shape, OneOwner
<1>10. TreeOK'
  <2>1. \A h \in Handles : tree[h] # Null => tree[h] # p
    BY <1>2 DEF IInv, Shape, TreeOK
  <2> QED BY <1>1, <1>3, <1>8, <2>1 DEF IInv, Shape, TreeOK
<1>11. IocpOK'
  BY <1>1, <1>2 DEF IInv, Shape, IocpOK
<1>12. PhaseOK' /\ PoisonedUnused'
  BY <1>1, <1>3 DEF IInv, Shape, PhaseOK, Phase, PoisonedUnused
<1>13. SignalOK' /\ ArgOK'
  BY <1>1, <1>3 DEF IInv, Shape, SignalOK, ArgOK
<1> QED BY <1>5, <1>6, <1>7, <1>9, <1>10, <1>11, <1>12, <1>13 DEF IInv, Shape

------------------------------------------------------------------------------
LEMMA NextIInv == IInv /\ [HandlesNext]_handlesVars => IInv'
<1>1. ASSUME IInv, NEW t \in Callers, Inside(t) PROVE IInv'
  BY <1>1, AddFact, CtlFact, WaitFact, UnrefFact, CloseFact, DestroyFact, PoisonFact, DeleteFact, KeyedFact
  DEF Inside
<1>2. ASSUME IInv, NEW t \in Callers, Calls(t) PROVE IInv'
  BY <1>2, NewFact, FindFact, DelFact DEF Calls
<1>3. ASSUME IInv, NEW t \in Callers, Packets(t) PROVE IInv'
  BY <1>3, WaitFact
<1>4. ASSUME IInv, UNCHANGED handlesVars PROVE IInv'
  <2>1. \A q : Holders(q)' = Holders(q)
    BY <1>4 DEF handlesVars, Holders
  <2>2. Counted'
    BY <1>4, <2>1, CountSame DEF handlesVars
  <2>3. HandlesTypeOK'
    BY <1>4 DEF handlesVars, IInv, HandlesTypeOK
  <2>4. HoldsAlive' /\ OneOwner' /\ TreeOK' /\ IocpOK'
    BY <1>4 DEF handlesVars, IInv, Shape, HoldsAlive, OneOwner, TreeOK, IocpOK, Owns
  <2>5. PhaseOK' /\ PoisonedUnused' /\ SignalOK' /\ ArgOK'
    BY <1>4 DEF handlesVars, IInv, Shape, PhaseOK, Phase, PoisonedUnused, SignalOK, ArgOK
  <2> QED BY <2>2, <2>3, <2>4, <2>5 DEF IInv, Shape
<1> QED BY <1>1, <1>2, <1>3, <1>4 DEF HandlesNext

LEMMA HandlesInvariant == HandlesSpec => []IInv
  BY InitIInv, NextIInv, PTL DEF HandlesSpec

\* The variables of the handle tree, the ports and the threads keep their types.
THEOREM Typed == HandlesSpec => []HandlesTypeOK
<1>1. IInv => HandlesTypeOK
  BY DEF IInv
<1> QED BY <1>1, HandlesInvariant, PTL

\* No thread uses a port_state that epoll_close has freed, whatever number of
\* threads race with it.
THEOREM PortsNotUsedAfterFree == HandlesSpec => []NoUseAfterFree
<1>1. IInv => NoUseAfterFree
  BY DEF IInv, Shape, HoldsAlive, NoUseAfterFree, Using, Closing
<1> QED BY <1>1, HandlesInvariant, PTL

\* No assert of reflock_unref, reflock_unref_and_destroy and the poison fails.
THEOREM ReflockAlwaysSound == HandlesSpec => []ReflockSound
<1>1. ASSUME IInv, NEW t \in Callers, at[t] = "unref" PROVE refs[hold[t]] > 0 /\ mark[hold[t]] # "poison"
  <2>1. hold[t] \in alive /\ refs[hold[t]] \in Nat \ {0}
    BY <1>1, CountPositive DEF Using
  <2> QED BY <1>1, <2>1 DEF IInv, Shape, PoisonedUnused
<1>2. ASSUME IInv, NEW t \in Callers, at[t] = "destroy" PROVE refs[hold[t]] > 0 /\ mark[hold[t]] = "none"
  BY <1>2, CountPositive DEF IInv, Shape, PhaseOK, Phase
<1>3. ASSUME IInv, NEW t \in Callers, at[t] = "poison" PROVE refs[hold[t]] = 0 /\ mark[hold[t]] = "destroy"
  BY <1>3 DEF IInv, Shape, PhaseOK, Phase
<1>4. IInv => ReflockSound
  BY <1>1, <1>2, <1>3 DEF ReflockSound
<1> QED BY <1>4, HandlesInvariant, PTL

\* ts_tree_add never finds the handle of a new port in the tree.
THEOREM NewHandleAlwaysFree == HandlesSpec => []NewHandleIsFree
<1>1. IInv => NewHandleIsFree
  BY DEF IInv, Shape, PhaseOK, Phase, NewHandleIsFree
<1> QED BY <1>1, HandlesInvariant, PTL

\* A thread in epoll_wait waits at a foreign completion port only if its own
\* port has been closed since.
THEOREM ForeignWaitMeansClosed == HandlesSpec => []ForeignWaitOnlyAfterClose
<1>1. ASSUME IInv, NEW t \in Callers, ForeignWait(t) PROVE iocp[hold[t]] = Null
  <2> SUFFICES ASSUME iocp[hold[t]] # Null PROVE FALSE
    OBVIOUS
  <2>1. at[t] = "gqcs" /\ arg[t] # Null
    BY <1>1 DEF ForeignWait
  <2>2. PICK q \in alive \ {hold[t]} : iocp[q] = arg[t]
    BY <1>1 DEF ForeignWait
  <2>3. arg[t] = iocp[hold[t]]
    BY <1>1, <2>1 DEF IInv, Shape, ArgOK
  <2>4. hold[t] \in Ports /\ q \in Ports
    BY <1>1, <2>1, <2>2 DEF IInv, Shape, HoldsAlive, HandlesTypeOK
  <2> QED BY <1>1, <2>1, <2>2, <2>3, <2>4 DEF IInv, Shape, IocpOK
<1>2. IInv => ForeignWaitOnlyAfterClose
  BY <1>1 DEF ForeignWaitOnlyAfterClose
<1> QED BY <1>2, HandlesInvariant, PTL

\* The life of a port_state is sound (epoll_create, epoll_ctl, epoll_wait and
\* epoll_close racing with each other), for any number of threads and ports.
THEOREM PortLifeCorrect == HandlesSpec => []PortLifeSound
<1>1. NoUseAfterFree /\ ReflockSound /\ NewHandleIsFree /\ ForeignWaitOnlyAfterClose => PortLifeSound
  BY DEF PortLifeSound
<1> QED BY <1>1, PortsNotUsedAfterFree, ReflockAlwaysSound, NewHandleAlwaysFree, ForeignWaitMeansClosed, PTL

------------------------------------------------------------------------------
(* The global initialisation, through which every call passes first *)

AllParts == {"ws", "nt", "reflock", "epoll"}

GlobalTypes ==
    /\ initPc \in [Callers -> {"idle", "enter", "run", "inside"}]
    /\ part \in [Callers -> 0 .. 5]
    /\ up \subseteq AllParts

\* The thread inside the callback is alone there, init is not complete, and
\* the parts before the one it comes to are up.
RunnerInside ==
    /\ \A t \in Callers : initPc[t] = "run" <=> runner = t
    /\ runner # Null => runner \in Callers /\ ~once /\ part[runner] \in 1 .. 4
    /\ \A t \in Callers, i \in 1 .. 4 :
          initPc[t] = "run" /\ i < part[t] => Global!Parts[i] \in up

\* Threads pass, and ports are made, only once init is complete.
CompleteFirst ==
    /\ once => up = AllParts
    /\ ~once => ~done /\ ~hasPorts /\ \A t \in Callers : initPc[t] # "inside"

GlobalInv == GlobalTypes /\ RunnerInside /\ CompleteFirst

LEMMA PartsFact ==
    /\ Global!Parts[1] = "ws" /\ Global!Parts[2] = "nt"
    /\ Global!Parts[3] = "reflock" /\ Global!Parts[4] = "epoll"
  BY DEF Global!Parts

LEMMA GlobalInit == ASSUME Global!InitAssumption, Global!Init PROVE GlobalInv
  <1>1. \A t \in Callers : initPc[t] = "idle" /\ part[t] = 0
    BY DEF Global!Init
  <1>2. runner = Null /\ ~once /\ ~done /\ ~hasPorts /\ Null \notin Callers
    BY DEF Global!Init, Global!InitAssumption
  <1>3. GlobalTypes
    BY DEF Global!Init, GlobalTypes
  <1>4. RunnerInside /\ CompleteFirst
    BY <1>1, <1>2 DEF RunnerInside, CompleteFirst
  <1> QED
    BY <1>3, <1>4 DEF GlobalInv

\* A call comes to the initialisation, or sees that it is done.
LEMMA CallKeeps ==
    ASSUME Global!InitAssumption, GlobalInv, NEW t \in Callers, Global!Call(t) PROVE GlobalInv'
  BY DEF Global!InitAssumption, Global!Call, Global!Goto, GlobalInv, GlobalTypes, RunnerInside,
         CompleteFirst

\* One thread at a time enters the callback, unless it has succeeded.
LEMMA EnterKeeps ==
    ASSUME Global!InitAssumption, GlobalInv, NEW t \in Callers, Global!Enter(t) PROVE GlobalInv'
  <1> USE DEF Global!Enter, Global!Goto, GlobalInv, GlobalTypes, RunnerInside, CompleteFirst
  <1>1. CASE once
    BY <1>1
  <1>2. CASE ~once
    BY <1>2 DEF Global!InitAssumption
  <1> QED
    BY <1>1, <1>2

\* A part comes up, the next one is called; or the callback fails.
LEMMA PartKeeps ==
    ASSUME Global!InitAssumption, GlobalInv, NEW t \in Callers, NEW i \in 1 .. 3,
           Global!Fallible(t, Global!Parts[i])
    PROVE  GlobalInv'
  <1> USE DEF GlobalInv, GlobalTypes, RunnerInside, CompleteFirst
  <1>1. initPc[t] = "run" /\ runner = t /\ ~once /\ part[t] \in 1 .. 4
    BY DEF Global!Fallible, Global!At, Global!InitAssumption
  <1>2. part[t] = i
    BY <1>1, PartsFact DEF Global!Fallible, Global!At
  <1>3. CASE Global!Fails(t)
    BY <1>1, <1>3 DEF Global!Fails, Global!Goto, Global!InitAssumption
  <1>4. CASE Global!PartUp(t, Global!Parts[i]) /\ UNCHANGED <<initPc, done, once, runner, hasPorts, runs>>
    <2>1. part' = [part EXCEPT ![t] = i + 1] /\ up' = up \cup {Global!Parts[i]}
      BY <1>2, <1>4 DEF Global!PartUp
    <2>2. Global!Parts[i] \in AllParts
      BY PartsFact DEF AllParts
    <2>3. GlobalTypes' /\ CompleteFirst'
      BY <1>1, <1>4, <2>1, <2>2
    <2>4. \A u \in Callers : initPc[u] = "run" => u = t
      BY <1>1
    <2>5. RunnerInside'
      BY <1>1, <1>2, <1>4, <2>1, <2>4
    <2> QED
      BY <2>3, <2>5
  <1> QED
    BY <1>3, <1>4 DEF Global!Fallible

\* The last part completes the initialisation: all others are up.
LEMMA LastPartKeeps ==
    ASSUME Global!InitAssumption, GlobalInv, NEW t \in Callers, Global!epoll_global_init(t)
    PROVE  GlobalInv'
  <1> USE DEF GlobalInv, GlobalTypes, RunnerInside, CompleteFirst
  <1>1. initPc[t] = "run" /\ runner = t /\ ~once /\ part[t] \in 1 .. 4
    BY DEF Global!epoll_global_init, Global!At, Global!InitAssumption
  <1>2. part[t] = 4
    BY <1>1, PartsFact DEF Global!epoll_global_init, Global!At
  <1>3. up' = AllParts
    <2>1. \A i \in 1 .. 3 : Global!Parts[i] \in up
      BY <1>1, <1>2
    <2>2. {"ws", "nt", "reflock"} \subseteq up
      BY <2>1, PartsFact
    <2>3. up \subseteq AllParts /\ up' = up \cup {"epoll"}
      BY DEF Global!epoll_global_init, Global!PartUp
    <2> QED
      BY <2>2, <2>3 DEF AllParts
  <1>4. /\ part' = [part EXCEPT ![t] = 5] /\ initPc' = [initPc EXCEPT ![t] = "inside"]
        /\ hasPorts' = FALSE /\ done' = TRUE /\ once' = TRUE /\ runner' = Null
    BY <1>2 DEF Global!epoll_global_init, Global!PartUp
  <1>5. GlobalTypes' /\ CompleteFirst'
    <2>1. GlobalTypes'
      BY <1>3, <1>4
    <2>2. CompleteFirst'
      BY <1>3, <1>4
    <2> QED
      BY <2>1, <2>2
  <1>6. \A u \in Callers : initPc'[u] # "run"
    BY <1>1, <1>4
  <1>7. Null \notin Callers
    BY DEF Global!InitAssumption
  <1>8. RunnerInside'
    BY <1>4, <1>6, <1>7
  <1> QED
    BY <1>5, <1>8

\* A port is made only by a thread that has passed.
LEMMA WorkKeeps ==
    ASSUME Global!InitAssumption, GlobalInv, NEW t \in Callers, Global!Work(t) PROVE GlobalInv'
  BY DEF Global!InitAssumption, Global!Work, Global!Goto, GlobalInv, GlobalTypes, RunnerInside,
         CompleteFirst

LEMMA GlobalNext ==
    ASSUME Global!InitAssumption, GlobalInv, [Global!Next]_(Global!vars) PROVE GlobalInv'
  <1>1. CASE UNCHANGED Global!vars
    BY <1>1 DEF Global!vars, GlobalInv, GlobalTypes, RunnerInside, CompleteFirst
  <1>2. ASSUME NEW t \in Callers,
               \/ Global!ws_global_init(t) \/ Global!nt_global_init(t)
               \/ Global!reflock_global_init(t)
        PROVE  GlobalInv'
    <2>1. \E i \in 1 .. 3 : Global!Fallible(t, Global!Parts[i])
      BY <1>2, PartsFact
      DEF Global!ws_global_init, Global!nt_global_init, Global!reflock_global_init
    <2> QED
      BY <2>1, PartKeeps
  <1> QED
    BY <1>1, <1>2, CallKeeps, EnterKeeps, LastPartKeeps, WorkKeeps DEF Global!Next

\* A function of wepoll goes past init() only when every part is up, and the
\* last part, which empties the tree of handles, never finds a port there,
\* however many threads come first and whichever part fails.
THEOREM GlobalInitCorrect ==
    ASSUME Global!InitAssumption PROVE Global!Spec => []GlobalInitSound
  <1>1. Global!Init => GlobalInv
    BY GlobalInit
  <1>2. GlobalInv /\ [Global!Next]_(Global!vars) => GlobalInv'
    BY GlobalNext
  <1>3. GlobalInv => GlobalInitSound
    BY DEF GlobalInv, RunnerInside, CompleteFirst, AllParts, GlobalInitSound, Global!GlobalInitSound,
           Global!InsideWhenUp, Global!NoPortYet
  <1> QED
    BY <1>1, <1>2, <1>3, PTL DEF Global!Spec

------------------------------------------------------------------------------
(* Adding a socket to a port, step by step *)

\* SockNew counts with its own copy of FiniteSets, which is the same.
LEMMA SameFinite == ASSUME NEW S PROVE Adding!IsFiniteSet(S) <=> IsFiniteSet(S)
  BY DEF Adding!IsFiniteSet, IsFiniteSet
LEMMA SameCardinality == ASSUME NEW S PROVE Adding!Cardinality(S) = Cardinality(S)
  BY DEF Adding!Cardinality, Cardinality

\* Sockets that are registered, and the places in all groups.
Count == Cardinality(Adding!Registered)
Room == addGroups * PlacesPerGroup

AddTypes ==
    /\ addPc \in {"idle", "base", "group", "associate", "alloc", "register"}
    /\ layers \in [AddedSocks -> {Null, Depth}]
    /\ taken \in Nat /\ cells \in Nat /\ addGroups \in Nat /\ devices \in Nat
    /\ addPc # "idle" => sock \in AddedSocks
    /\ addPc \in {"group", "associate", "alloc", "register"} => base = Depth

\* What an addition has taken so far, at each of its steps, above what the
\* registered sockets and the groups of the queue have.
AcquiredSoFar ==
    /\ taken = Count + (IF addPc \in {"alloc", "register"} THEN 1 ELSE 0)
    /\ cells = Count + (IF addPc = "register" THEN 1 ELSE 0)
    /\ devices = addGroups + (IF addPc = "associate" THEN 1 ELSE 0)
    /\ taken <= Room
    /\ addPc = "associate" => taken = Room

AddInv == AddTypes /\ AcquiredSoFar

LEMMA CountFact ==
    ASSUME Adding!AddAssumption
    PROVE  /\ IsFiniteSet(Adding!Registered) /\ Count \in Nat
           /\ Adding!Registered \subseteq AddedSocks
  <1>1. Adding!Registered \subseteq AddedSocks
    BY DEF Adding!Registered
  <1> QED
    BY <1>1, SameFinite, FS_Subset, FS_CardinalityType DEF Adding!AddAssumption, Count

\* Before the last step nothing is registered, and nothing deregistered.
LEMMA SameCount == ASSUME layers' = layers PROVE Count' = Count
  BY DEF Count, Adding!Registered

LEMMA AddInit == ASSUME Adding!AddAssumption, Adding!Init PROVE AddInv
  <1>1. Adding!Registered = {}
    BY DEF Adding!Init, Adding!Registered
  <1>2. Count = 0 /\ Room = 0
    BY <1>1, FS_EmptySet DEF Count, Room, Adding!Init, Adding!AddAssumption
  <1> QED
    BY <1>2 DEF Adding!Init, AddInv, AddTypes, AcquiredSoFar

LEMMA AddStepKeeps ==
    ASSUME Adding!AddAssumption, AddInv, layers' = layers,
           \/ \E s \in AddedSocks : Adding!Call(s)
           \/ Adding!GetBaseSocket \/ Adding!Acquire \/ Adding!OpenDevice
           \/ Adding!Associate \/ Adding!Alloc
    PROVE  AddInv'
  <1>1. Count' = Count /\ Count \in Nat /\ PlacesPerGroup \in Nat \ {0} /\ Room \in Nat
    BY SameCount, CountFact DEF Adding!AddAssumption, AddInv, AddTypes, Room
  <1> USE DEF AddInv, AddTypes, AcquiredSoFar, Adding!Goto, Adding!Fail, Adding!acquired
  <1>2. ASSUME NEW s \in AddedSocks, Adding!Call(s) PROVE AddInv'
    BY <1>1, <1>2 DEF Adding!Call, Room
  <1>3. CASE Adding!GetBaseSocket
    <2>1. \/ addPc' = "group" /\ base' = Depth
          \/ addPc' \in {"idle", "base"}
      BY <1>3 DEF Adding!GetBaseSocket, Adding!SIO_BASE_HANDLE
    <2>2. UNCHANGED <<sock, layers, addGroups, devices, taken, cells>>
      BY <1>3 DEF Adding!GetBaseSocket
    <2>3. addPc = "base"
      BY <1>3 DEF Adding!GetBaseSocket
    <2> QED
      BY <1>1, <2>1, <2>2, <2>3 DEF Room
  <1>4. CASE Adding!Acquire
    BY <1>1, <1>4 DEF Adding!Acquire, Room
  <1>5. CASE Adding!OpenDevice
    BY <1>1, <1>5 DEF Adding!OpenDevice, Room
  <1>6. CASE Adding!Associate
    <2>1. (addGroups + 1) * PlacesPerGroup = Room + PlacesPerGroup
      BY <1>1 DEF Room
    <2>2. Room' = IF addPc' = "alloc" THEN Room + PlacesPerGroup ELSE Room
      BY <2>1, <1>6 DEF Adding!Associate, Room
    <2> QED
      BY <1>1, <1>6, <2>2 DEF Adding!Associate
  <1>7. CASE Adding!Alloc
    BY <1>1, <1>7 DEF Adding!Alloc, Room
  <1> QED
    BY <1>2, <1>3, <1>4, <1>5, <1>6, <1>7

\* The last step makes a place, memory and a layer belong to the socket; a
\* socket that is there already gets the place and the memory back.
LEMMA RegisterKeeps == ASSUME Adding!AddAssumption, AddInv, Adding!Register PROVE AddInv'
  <1> USE DEF AddInv, AddTypes, AcquiredSoFar, Adding!Fail
  <1>0. Count \in Nat /\ sock \in AddedSocks /\ base = Depth /\ addPc = "register" /\ Null # Depth
    BY CountFact DEF Adding!Register, Adding!AddAssumption
  <1>1. Room' = Room /\ UNCHANGED <<sock, base, addGroups, devices>>
    BY DEF Adding!Register, Room
  <1>2. CASE layers[sock] = Null
    <2>1. layers' = [layers EXCEPT ![sock] = Depth]
      BY <1>0, <1>2 DEF Adding!Register
    <2>2. sock \notin Adding!Registered /\ Adding!Registered' = Adding!Registered \cup {sock}
      BY <1>0, <1>2, <2>1 DEF Adding!Registered
    <2>3. Count' = Count + 1
      BY <2>2, CountFact, FS_AddElement DEF Count
    <2> QED
      BY <1>0, <1>1, <1>2, <2>1, <2>3 DEF Adding!Register
  <1>3. CASE layers[sock] # Null
    <2>1. layers' = layers /\ Count' = Count
      BY <1>3, SameCount DEF Adding!Register
    <2>2. addPc' = "idle" /\ taken' = taken - 1 /\ cells' = cells - 1
      BY <1>3 DEF Adding!Register
    <2>3. taken = Count + 1 /\ cells = Count + 1 /\ devices = addGroups /\ taken <= Room
      BY <1>0
    <2>4. taken' = Count /\ cells' = Count
      BY <1>0, <2>2, <2>3
    <2>5. AddTypes'
      BY <1>0, <1>1, <2>1, <2>2, <2>4
    <2>6. taken' <= Room
      BY <1>0, <2>2, <2>3 DEF Room, Adding!AddAssumption
    <2>7. AcquiredSoFar'
      BY <1>0, <1>1, <2>1, <2>2, <2>3, <2>4, <2>6
    <2> QED
      BY <2>5, <2>7
  <1> QED
    BY <1>2, <1>3

\* A socket that is deleted gives back its place and its memory.
LEMMA DelKeeps ==
    ASSUME Adding!AddAssumption, AddInv, NEW s \in AddedSocks, Adding!Del(s) PROVE AddInv'
  <1> USE DEF AddInv, AddTypes, AcquiredSoFar
  <1>1. s \in Adding!Registered
    BY DEF Adding!Del, Adding!Registered
  <1>2. Adding!Registered' = Adding!Registered \ {s}
    BY <1>1 DEF Adding!Del, Adding!Registered
  <1>3. Count' = Count - 1 /\ Count' \in Nat
    BY <1>1, <1>2, CountFact, FS_RemoveElement, FS_CardinalityType DEF Count
  <1>4. Count \in Nat /\ Room' = Room
    BY CountFact DEF Room, Adding!Del
  <1>5. /\ addPc = "idle" /\ taken' = taken - 1 /\ cells' = cells - 1
        /\ UNCHANGED <<addPc, sock, base, addGroups, devices>>
    BY DEF Adding!Del
  <1>6. taken = Count /\ cells = Count /\ devices = addGroups /\ taken <= Room
    BY <1>4, <1>5
  <1>7. taken' = Count' /\ cells' = Count'
    BY <1>3, <1>5, <1>6
  <1>8. layers' \in [AddedSocks -> {Null, Depth}]
    BY DEF Adding!Del
  <1>9. AddTypes'
    BY <1>3, <1>5, <1>7, <1>8
  <1>10. taken' <= Room
    BY <1>4, <1>5, <1>6 DEF Room, Adding!AddAssumption
  <1>11. AcquiredSoFar'
    BY <1>3, <1>4, <1>5, <1>6, <1>7, <1>10
  <1> QED
    BY <1>9, <1>11

LEMMA AddNext == ASSUME Adding!AddAssumption, AddInv, [Adding!Next]_(Adding!vars) PROVE AddInv'
  <1>1. CASE UNCHANGED Adding!vars
    <2>1. Count' = Count
      BY <1>1, SameCount DEF Adding!vars
    <2> QED
      BY <1>1, <2>1 DEF Adding!vars, AddInv, AddTypes, AcquiredSoFar, Room
  <1>2. CASE \/ \E s \in AddedSocks : Adding!Call(s)
             \/ Adding!GetBaseSocket \/ Adding!Acquire \/ Adding!OpenDevice
             \/ Adding!Associate \/ Adding!Alloc
    <2>1. layers' = layers
      BY <1>2 DEF Adding!Call, Adding!GetBaseSocket, Adding!Acquire, Adding!OpenDevice,
                  Adding!Associate, Adding!Alloc
    <2> QED
      BY <1>2, <2>1, AddStepKeeps
  <1> QED
    BY <1>1, <1>2, RegisterKeeps, DelKeeps DEF Adding!Next, Adding!Add

\* Whatever step of EPOLL_CTL_ADD fails (port_ctl, sock_new, poll_group_acquire
\* and their labels err and error), the port is left with a place and memory
\* for each registered socket and a device for each group, and a registered
\* socket is polled below all service providers.
THEOREM AdditionCorrect ==
    ASSUME Adding!AddAssumption PROVE Adding!Spec => []AdditionSound
  <1>1. Adding!Init => AddInv
    BY AddInit
  <1>2. AddInv /\ [Adding!Next]_(Adding!vars) => AddInv'
    BY AddNext
  <1>3. AddInv => AdditionSound
    <2>1. Count \in Nat /\ Adding!Cardinality(Adding!Registered) = Count
      BY CountFact, SameCardinality DEF Count
    <2> QED
      BY <2>1 DEF AddInv, AddTypes, AcquiredSoFar, Room, AdditionSound, Adding!AdditionSound,
                  Adding!NothingLeaks, Adding!PollsTheBase, Adding!Registered
  <1> QED
    BY <1>1, <1>2, <1>3, PTL DEF Adding!Spec

------------------------------------------------------------------------------
(* The queue of poll groups. Its links are described by the row of groups  *)
(* that they make; removing, appending and prepending a node change the    *)
(* row as they would change a sequence.                                    *)

LEMMA QueueFinite == ASSUME NEW S PROVE Queue!IsFiniteSet(S) <=> IsFiniteSet(S)
  BY DEF Queue!IsFiniteSet, IsFiniteSet
LEMMA QueueCardinality == ASSUME NEW S PROVE Queue!Cardinality(S) = Cardinality(S)
  BY DEF Queue!Cardinality, Cardinality

\* The queue of a port as a row of n different groups, w, from the head on.
Place(n, w, i) == IF i \in 1 .. n THEN w[i] ELSE Head0
Links == [next: [Queue!Nodes -> Queue!Nodes], prev: [Queue!Nodes -> Queue!Nodes]]
Ring(q, n, w) ==
    /\ q \in Links /\ n \in Nat /\ w \in [1 .. n -> Groups]
    /\ \A i, j \in 1 .. n : w[i] = w[j] => i = j
    /\ \A i \in 0 .. n : /\ q.next[Place(n, w, i)] = Place(n, w, i + 1)
                         /\ q.prev[Place(n, w, i + 1)] = Place(n, w, i)
Members(n, w) == {w[i] : i \in 1 .. n}
Ordered(n, w, sz) == \A i, j \in 1 .. n :
    i < j /\ sz[w[j]] = PlacesPerGroup => sz[w[i]] = PlacesPerGroup

\* The places of the row are different nodes, except that the head closes it.
LEMMA Places ==
    ASSUME Queue!GroupsAssumption, NEW q, NEW n, NEW w, Ring(q, n, w)
    PROVE  /\ n \in Nat
           /\ \A i \in 0 .. n + 1 : Place(n, w, i) \in Queue!Nodes
           /\ \A i \in 0 .. n, j \in 0 .. n : Place(n, w, i) = Place(n, w, j) => i = j
           /\ \A i \in 1 .. n + 1, j \in 1 .. n + 1 : Place(n, w, i) = Place(n, w, j) => i = j
  BY DEF Ring, Place, Queue!Nodes, Queue!GroupsAssumption

\* queue_remove: the neighbours of a node become neighbours.
LEMMA DetachRing ==
    ASSUME Queue!GroupsAssumption, NEW q, NEW n, NEW w, Ring(q, n, w), NEW k \in 1 .. n
    PROVE  \E v : /\ Ring(Queue!Detached(q, w[k]), n - 1, v)
                  /\ Members(n - 1, v) = Members(n, w) \ {w[k]}
                  /\ \A sz : Ordered(n, w, sz) => Ordered(n - 1, v, sz)
  <1> DEFINE v == [i \in 1 .. n - 1 |-> IF i < k THEN w[i] ELSE w[i + 1]]
             P(i) == Place(n, w, i)
             r == Queue!Detached(q, w[k])
  <1>1. /\ n \in Nat /\ \A i \in 0 .. n + 1 : P(i) \in Queue!Nodes
        /\ \A i \in 0 .. n, j \in 0 .. n : P(i) = P(j) => i = j
        /\ \A i \in 1 .. n + 1, j \in 1 .. n + 1 : P(i) = P(j) => i = j
    BY Places
  <1>2. /\ q \in Links /\ w \in [1 .. n -> Groups] /\ \A i, j \in 1 .. n : w[i] = w[j] => i = j
        /\ \A i \in 0 .. n : q.next[P(i)] = P(i + 1) /\ q.prev[P(i + 1)] = P(i)
    BY DEF Ring
  <1>3. w[k] = P(k) /\ k - 1 \in 0 .. n /\ k \in 0 .. n /\ (k - 1) + 1 = k
    BY <1>1 DEF Place
  <1>4. q.next[w[k]] = P(k + 1) /\ q.prev[w[k]] = P(k - 1) /\ w[k] # P(k - 1)
    <2>1. P(k) # P(k - 1)
      BY <1>1, <1>3
    <2> HIDE DEF P
    <2> QED BY <1>2, <1>3, <2>1
  <1>5. P(k - 1) \in Queue!Nodes /\ P(k + 1) \in Queue!Nodes /\ w[k] \in Queue!Nodes
    BY <1>1, <1>3
  <1>6. r = [next |-> [q.next EXCEPT ![P(k - 1)] = P(k + 1)], prev |-> [q.prev EXCEPT ![P(k + 1)] = P(k - 1)]]
    <2> DEFINE q1 == [q EXCEPT !.next[P(k - 1)] = P(k + 1)]
    <2>1. r = [q1 EXCEPT !.prev[q1.next[w[k]]] = q1.prev[w[k]]]
      BY <1>4 DEF Queue!Detached
    <2> HIDE DEF P
    <2>2. q1.next = [q.next EXCEPT ![P(k - 1)] = P(k + 1)] /\ q1.prev = q.prev
      BY <1>2 DEF Links
    <2>3. q1.next[w[k]] = P(k + 1) /\ q1.prev[w[k]] = P(k - 1)
      BY <1>2, <1>4, <1>5, <2>2 DEF Links
    <2>4. q1 \in Links
      BY <1>2, <1>5 DEF Links
    <2> HIDE DEF q1
    <2> QED BY <1>2, <2>1, <2>2, <2>3, <2>4 DEF Links
  <1>7. r \in Links /\ \A m \in Queue!Nodes :
            /\ r.next[m] = IF m = P(k - 1) THEN P(k + 1) ELSE q.next[m]
            /\ r.prev[m] = IF m = P(k + 1) THEN P(k - 1) ELSE q.prev[m]
    <2> HIDE DEF P, r
    <2> QED BY <1>2, <1>5, <1>6 DEF Links
  <1>8. \A i \in 0 .. n : Place(n - 1, v, i) = IF i < k THEN P(i) ELSE P(i + 1)
    BY <1>1 DEF Place
  <1>9. v \in [1 .. n - 1 -> Groups] /\ n - 1 \in Nat
    BY <1>1, <1>2
  <1>10. ASSUME NEW i \in 1 .. n - 1, NEW j \in 1 .. n - 1, v[i] = v[j] PROVE i = j
    <2>1. /\ i \in 1 .. n /\ i + 1 \in 1 .. n /\ j \in 1 .. n /\ j + 1 \in 1 .. n
      BY <1>1
    <2> QED BY <1>2, <1>10, <2>1
  <1>11. ASSUME NEW i \in 0 .. n - 1
         PROVE  /\ r.next[Place(n - 1, v, i)] = Place(n - 1, v, i + 1)
                /\ r.prev[Place(n - 1, v, i + 1)] = Place(n - 1, v, i)
    <2>1. i \in 0 .. n /\ i + 1 \in 0 .. n /\ i + 1 \in 1 .. n + 1 /\ (i + 1) + 1 \in 1 .. n + 1
          /\ (i + 1) + 1 \in 0 .. n + 1 /\ i \in 0 .. n + 1 /\ k - 1 \in 0 .. n
          /\ k + 1 \in 1 .. n + 1
      BY <1>1
    <2> HIDE DEF v, r, P
    <2>2. CASE i < k - 1
      <3>1. Place(n - 1, v, i) = P(i) /\ Place(n - 1, v, i + 1) = P(i + 1)
        BY <1>8, <2>1, <2>2
      <3>2. P(i) # P(k - 1) /\ P(i + 1) # P(k + 1)
        BY <1>1, <2>1, <2>2
      <3>3. P(i) \in Queue!Nodes /\ P(i + 1) \in Queue!Nodes
        BY <1>1, <2>1
      <3>4. r.next[P(i)] = q.next[P(i)] /\ r.prev[P(i + 1)] = q.prev[P(i + 1)]
        BY <1>7, <3>2, <3>3
      <3> QED BY <1>2, <2>1, <3>1, <3>4
    <2>3. CASE i = k - 1
      <3>1. Place(n - 1, v, i) = P(k - 1) /\ Place(n - 1, v, i + 1) = P(k + 1)
        BY <1>8, <2>1, <2>3
      <3> QED BY <1>5, <1>7, <3>1
    <2>4. CASE i > k - 1
      <3>1. Place(n - 1, v, i) = P(i + 1) /\ Place(n - 1, v, i + 1) = P((i + 1) + 1)
        BY <1>8, <2>1, <2>4
      <3>2. P(i + 1) # P(k - 1) /\ P((i + 1) + 1) # P(k + 1)
        BY <1>1, <2>1, <2>4
      <3>3. P(i + 1) \in Queue!Nodes /\ P((i + 1) + 1) \in Queue!Nodes
        BY <1>1, <2>1
      <3>4. r.next[P(i + 1)] = q.next[P(i + 1)] /\ r.prev[P((i + 1) + 1)] = q.prev[P((i + 1) + 1)]
        BY <1>7, <3>2, <3>3
      <3> QED BY <1>2, <2>1, <3>1, <3>4
    <2> QED BY <2>1, <2>2, <2>3, <2>4
  <1>12. Ring(r, n - 1, v)
    <2> HIDE DEF v, r
    <2> QED BY <1>7, <1>9, <1>10, <1>11 DEF Ring
  <1>13. Members(n - 1, v) = Members(n, w) \ {w[k]}
    <2>1. ASSUME NEW i \in 1 .. n - 1 PROVE v[i] \in Members(n, w) \ {w[k]}
      <3>1. i \in 1 .. n /\ i + 1 \in 1 .. n
        BY <1>1
      <3>2. CASE i < k
        BY <1>2, <3>1, <3>2 DEF Members
      <3>3. CASE ~(i < k)
        BY <1>2, <3>1, <3>3 DEF Members
      <3> QED BY <3>2, <3>3
    <2>2. ASSUME NEW i \in 1 .. n, i # k PROVE \E j \in 1 .. n - 1 : v[j] = w[i]
      <3>1. CASE i < k
        BY <1>1, <3>1
      <3>2. CASE i > k
        <4>1. i - 1 \in 1 .. n - 1 /\ ~(i - 1 < k) /\ (i - 1) + 1 = i
          BY <1>1, <3>2
        <4>2. v[i - 1] = w[i]
          BY <4>1
        <4> HIDE DEF v
        <4> QED BY <4>1, <4>2
      <3> QED BY <2>2, <3>1, <3>2
    <2> HIDE DEF v
    <2> QED BY <2>1, <2>2 DEF Members
  <1>14. ASSUME NEW sz, Ordered(n, w, sz) PROVE Ordered(n - 1, v, sz)
    <2> SUFFICES ASSUME NEW i \in 1 .. n - 1, NEW j \in 1 .. n - 1, i < j, sz[v[j]] = PlacesPerGroup
                 PROVE  sz[v[i]] = PlacesPerGroup
      BY DEF Ordered
    <2> DEFINE a == IF i < k THEN i ELSE i + 1
               b == IF j < k THEN j ELSE j + 1
    <2>1. a \in 1 .. n /\ b \in 1 .. n /\ a < b /\ v[i] = w[a] /\ v[j] = w[b]
      BY <1>1
    <2> HIDE DEF a, b, v
    <2> QED BY <1>14, <2>1 DEF Ordered
  <1> QED
    <2> HIDE DEF v, r
    <2>1. Ring(r, n - 1, v) /\ Members(n - 1, v) = Members(n, w) \ {w[k]}
          /\ \A sz : Ordered(n, w, sz) => Ordered(n - 1, v, sz)
      BY <1>12, <1>13, <1>14
    <2> QED BY <2>1 DEF r

\* queue_append: a node that is in no queue becomes the last one.
LEMMA AppendRing ==
    ASSUME Queue!GroupsAssumption, NEW q, NEW n, NEW w, Ring(q, n, w),
           NEW g \in Groups, g \notin Members(n, w)
    PROVE  \E v : /\ Ring(Queue!Appended(q, g), n + 1, v)
                  /\ Members(n + 1, v) = Members(n, w) \cup {g}
                  /\ \A sz : Ordered(n, w, sz) /\ sz[g] # PlacesPerGroup => Ordered(n + 1, v, sz)
  <1> DEFINE v == [i \in 1 .. n + 1 |-> IF i = n + 1 THEN g ELSE w[i]]
             P(i) == Place(n, w, i)
             r == Queue!Appended(q, g)
  <1>1. /\ n \in Nat /\ \A i \in 0 .. n + 1 : P(i) \in Queue!Nodes
        /\ \A i \in 0 .. n, j \in 0 .. n : P(i) = P(j) => i = j
        /\ \A i \in 1 .. n + 1, j \in 1 .. n + 1 : P(i) = P(j) => i = j
    BY Places
  <1>2. /\ q \in Links /\ w \in [1 .. n -> Groups] /\ \A i, j \in 1 .. n : w[i] = w[j] => i = j
        /\ \A i \in 0 .. n : q.next[P(i)] = P(i + 1) /\ q.prev[P(i + 1)] = P(i)
    BY DEF Ring
  <1>3. /\ \A i \in 0 .. n + 1 : P(i) # g
        /\ P(n + 1) = Head0 /\ P(0) = Head0 /\ g # Head0
        /\ g \in Queue!Nodes /\ Head0 \in Queue!Nodes
    BY <1>1, <1>2 DEF Place, Members, Queue!Nodes, Queue!GroupsAssumption
  <1>4. q.prev[Head0] = P(n)
    BY <1>1, <1>2, <1>3
  <1>5. r = [next |-> [q.next EXCEPT ![g] = Head0, ![P(n)] = g],
             prev |-> [q.prev EXCEPT ![g] = P(n), ![Head0] = g]]
    <2> DEFINE q1 == [q EXCEPT !.next[g] = Head0, !.prev[g] = P(n)]
    <2>1. r = [q1 EXCEPT !.next[q1.prev[g]] = g, !.prev[Head0] = g]
      BY <1>4 DEF Queue!Appended
    <2> HIDE DEF P
    <2>2. q1.next = [q.next EXCEPT ![g] = Head0] /\ q1.prev = [q.prev EXCEPT ![g] = P(n)]
      BY <1>2 DEF Links
    <2>3. q1.prev[g] = P(n)
      BY <1>2, <1>3, <2>2 DEF Links
    <2>4. q1 \in Links
      <3>1. P(n) \in Queue!Nodes
        BY <1>1
      <3> QED BY <1>2, <1>3, <3>1 DEF Links
    <2> HIDE DEF q1
    <2> QED BY <1>2, <2>1, <2>2, <2>3, <2>4 DEF Links
  <1>6. r \in Links /\ \A m \in Queue!Nodes :
            /\ r.next[m] = IF m = P(n) THEN g ELSE IF m = g THEN Head0 ELSE q.next[m]
            /\ r.prev[m] = IF m = Head0 THEN g ELSE IF m = g THEN P(n) ELSE q.prev[m]
    <2>1. P(n) \in Queue!Nodes /\ P(n) # g
      BY <1>1, <1>3
    <2> HIDE DEF P, r
    <2> QED BY <1>2, <1>3, <1>5, <2>1 DEF Links
  <1>7. /\ \A i \in 0 .. n : Place(n + 1, v, i) = P(i)
        /\ Place(n + 1, v, n + 1) = g /\ Place(n + 1, v, (n + 1) + 1) = Head0
    BY <1>1 DEF Place
  <1>8. v \in [1 .. n + 1 -> Groups] /\ n + 1 \in Nat
    BY <1>1, <1>2
  <1>9. ASSUME NEW i \in 1 .. n + 1, NEW j \in 1 .. n + 1, v[i] = v[j] PROVE i = j
    <2>1. \A a \in 1 .. n : w[a] # g
      BY DEF Members
    <2> QED BY <1>1, <1>2, <1>9, <2>1
  <1>10. ASSUME NEW i \in 0 .. n + 1
         PROVE  /\ r.next[Place(n + 1, v, i)] = Place(n + 1, v, i + 1)
                /\ r.prev[Place(n + 1, v, i + 1)] = Place(n + 1, v, i)
    <2> HIDE DEF v, r, P
    <2>1. CASE i < n
      <3>1. i \in 0 .. n /\ i + 1 \in 0 .. n /\ n \in 0 .. n /\ i + 1 \in 1 .. n + 1 /\ n + 1 \in 1 .. n + 1
            /\ i \in 0 .. n + 1 /\ i + 1 \in 0 .. n + 1 /\ i # n /\ i + 1 # n + 1
        BY <1>1, <2>1
      <3>2. Place(n + 1, v, i) = P(i) /\ Place(n + 1, v, i + 1) = P(i + 1)
        BY <1>7, <3>1
      <3>3. P(i) # P(n) /\ P(i) # g /\ P(i + 1) # Head0 /\ P(i + 1) # g
        BY <1>1, <1>3, <3>1
      <3>4. P(i) \in Queue!Nodes /\ P(i + 1) \in Queue!Nodes
        BY <1>1, <3>1
      <3>5. r.next[P(i)] = q.next[P(i)] /\ r.prev[P(i + 1)] = q.prev[P(i + 1)]
        BY <1>6, <3>3, <3>4
      <3> QED BY <1>2, <3>1, <3>2, <3>5
    <2>2. CASE i = n
      <3>1. Place(n + 1, v, i) = P(n) /\ Place(n + 1, v, i + 1) = g /\ P(n) \in Queue!Nodes
        BY <1>1, <1>7, <2>2
      <3> QED BY <1>3, <1>6, <3>1
    <2>3. CASE i = n + 1
      <3>1. Place(n + 1, v, i) = g /\ Place(n + 1, v, i + 1) = Head0 /\ P(n) # g
        BY <1>1, <1>3, <1>7, <2>3
      <3> QED BY <1>3, <1>6, <3>1
    <2> QED BY <1>1, <2>1, <2>2, <2>3
  <1>11. Ring(r, n + 1, v)
    <2> HIDE DEF v, r
    <2> QED BY <1>6, <1>8, <1>9, <1>10 DEF Ring
  <1>12. Members(n + 1, v) = Members(n, w) \cup {g}
    <2>1. \A i \in 1 .. n + 1 : i = n + 1 \/ i \in 1 .. n
      BY <1>1
    <2>2. v[n + 1] = g /\ n + 1 \in 1 .. n + 1 /\ \A i \in 1 .. n : i \in 1 .. n + 1 /\ v[i] = w[i]
      BY <1>1
    <2> HIDE DEF v
    <2> QED BY <2>1, <2>2 DEF Members
  <1>13. ASSUME NEW sz, Ordered(n, w, sz), sz[g] # PlacesPerGroup PROVE Ordered(n + 1, v, sz)
    <2> SUFFICES ASSUME NEW i \in 1 .. n + 1, NEW j \in 1 .. n + 1, i < j, sz[v[j]] = PlacesPerGroup
                 PROVE  sz[v[i]] = PlacesPerGroup
      BY DEF Ordered
    <2>1. j # n + 1
      BY <1>1, <1>13
    <2>2. i \in 1 .. n /\ j \in 1 .. n /\ v[i] = w[i] /\ v[j] = w[j]
      BY <1>1, <2>1
    <2> HIDE DEF v
    <2> QED BY <1>13, <2>2 DEF Ordered
  <1> QED
    <2> HIDE DEF v, r
    <2>1. Ring(r, n + 1, v) /\ Members(n + 1, v) = Members(n, w) \cup {g}
          /\ \A sz : Ordered(n, w, sz) /\ sz[g] # PlacesPerGroup => Ordered(n + 1, v, sz)
      BY <1>11, <1>12, <1>13
    <2> QED BY <2>1 DEF r

\* queue_prepend: or the first one.
LEMMA PrependRing ==
    ASSUME Queue!GroupsAssumption, NEW q, NEW n, NEW w, Ring(q, n, w),
           NEW g \in Groups, g \notin Members(n, w)
    PROVE  \E v : /\ Ring(Queue!Prepended(q, g), n + 1, v)
                  /\ Members(n + 1, v) = Members(n, w) \cup {g}
                  /\ \A sz : Ordered(n, w, sz) /\ sz[g] = PlacesPerGroup => Ordered(n + 1, v, sz)
  <1> DEFINE v == [i \in 1 .. n + 1 |-> IF i = 1 THEN g ELSE w[i - 1]]
             P(i) == Place(n, w, i)
             r == Queue!Prepended(q, g)
  <1>1. /\ n \in Nat /\ \A i \in 0 .. n + 1 : P(i) \in Queue!Nodes
        /\ \A i \in 0 .. n, j \in 0 .. n : P(i) = P(j) => i = j
        /\ \A i \in 1 .. n + 1, j \in 1 .. n + 1 : P(i) = P(j) => i = j
    BY Places
  <1>2. /\ q \in Links /\ w \in [1 .. n -> Groups] /\ \A i, j \in 1 .. n : w[i] = w[j] => i = j
        /\ \A i \in 0 .. n : q.next[P(i)] = P(i + 1) /\ q.prev[P(i + 1)] = P(i)
    BY DEF Ring
  <1>3. /\ \A i \in 0 .. n + 1 : P(i) # g
        /\ P(n + 1) = Head0 /\ P(0) = Head0 /\ g # Head0
        /\ g \in Queue!Nodes /\ Head0 \in Queue!Nodes
    BY <1>1, <1>2 DEF Place, Members, Queue!Nodes, Queue!GroupsAssumption
  <1>4. q.next[Head0] = P(1)
    <2>1. 0 \in 0 .. n /\ 0 + 1 = 1
      BY <1>1
    <2> QED BY <1>2, <1>3, <2>1
  <1>5. r = [next |-> [q.next EXCEPT ![g] = P(1), ![Head0] = g],
             prev |-> [q.prev EXCEPT ![g] = Head0, ![P(1)] = g]]
    <2> DEFINE q1 == [q EXCEPT !.next[g] = P(1), !.prev[g] = Head0]
    <2>1. r = [q1 EXCEPT !.prev[q1.next[g]] = g, !.next[Head0] = g]
      BY <1>4 DEF Queue!Prepended
    <2> HIDE DEF P
    <2>2. q1.next = [q.next EXCEPT ![g] = P(1)] /\ q1.prev = [q.prev EXCEPT ![g] = Head0]
      BY <1>2 DEF Links
    <2>3. q1.next[g] = P(1)
      BY <1>2, <1>3, <2>2 DEF Links
    <2>4. q1 \in Links
      <3>1. P(1) \in Queue!Nodes
        BY <1>1
      <3> QED BY <1>2, <1>3, <3>1 DEF Links
    <2> HIDE DEF q1
    <2> QED BY <1>2, <2>1, <2>2, <2>3, <2>4 DEF Links
  <1>6. r \in Links /\ \A m \in Queue!Nodes :
            /\ r.next[m] = IF m = Head0 THEN g ELSE IF m = g THEN P(1) ELSE q.next[m]
            /\ r.prev[m] = IF m = P(1) THEN g ELSE IF m = g THEN Head0 ELSE q.prev[m]
    <2>1. P(1) \in Queue!Nodes /\ P(1) # g
      BY <1>1, <1>3
    <2> HIDE DEF P, r
    <2> QED BY <1>2, <1>3, <1>5, <2>1 DEF Links
  <1>7. /\ \A i \in 1 .. n + 1 : Place(n + 1, v, i + 1) = P(i)
        /\ Place(n + 1, v, 0) = Head0 /\ Place(n + 1, v, 1) = g
    <2>1. ASSUME NEW i \in 1 .. n + 1 PROVE Place(n + 1, v, i + 1) = P(i)
      <3>1. CASE i = n + 1
        BY <1>1, <1>3, <3>1 DEF Place
      <3>2. CASE i # n + 1
        BY <1>1, <3>2 DEF Place
      <3> QED BY <3>1, <3>2
    <2>2. Place(n + 1, v, 0) = Head0 /\ Place(n + 1, v, 1) = g
      BY <1>1 DEF Place
    <2> HIDE DEF v, P
    <2> QED BY <2>1, <2>2
  <1>8. v \in [1 .. n + 1 -> Groups] /\ n + 1 \in Nat
    BY <1>1, <1>2
  <1>9. ASSUME NEW i \in 1 .. n + 1, NEW j \in 1 .. n + 1, v[i] = v[j] PROVE i = j
    <2>1. \A a \in 1 .. n : w[a] # g
      BY DEF Members
    <2>2. \A a \in 1 .. n + 1 : a # 1 => a - 1 \in 1 .. n
      BY <1>1
    <2> QED BY <1>1, <1>2, <1>9, <2>1, <2>2
  <1>10. ASSUME NEW i \in 0 .. n + 1
         PROVE  /\ r.next[Place(n + 1, v, i)] = Place(n + 1, v, i + 1)
                /\ r.prev[Place(n + 1, v, i + 1)] = Place(n + 1, v, i)
    <2> HIDE DEF v, r, P
    <2>1. CASE i = 0
      <3>1. Place(n + 1, v, i) = Head0 /\ Place(n + 1, v, i + 1) = g /\ P(1) # g
        BY <1>1, <1>3, <1>7, <2>1
      <3> QED BY <1>3, <1>6, <3>1
    <2>2. CASE i = 1
      <3>1. 1 \in 1 .. n + 1 /\ 1 \in 0 .. n + 1
        BY <1>1
      <3>2. Place(n + 1, v, i) = g /\ Place(n + 1, v, i + 1) = P(1) /\ P(1) \in Queue!Nodes /\ P(1) # g
        BY <1>1, <1>3, <1>7, <2>2, <3>1
      <3> QED BY <1>3, <1>6, <3>2
    <2>3. CASE i > 1
      <3>1. /\ i - 1 \in 0 .. n /\ i - 1 \in 1 .. n + 1 /\ i \in 1 .. n + 1 /\ i # 1 /\ i - 1 # 0 /\ (i - 1) + 1 = i
            /\ 0 \in 0 .. n /\ 1 \in 1 .. n + 1 /\ i - 1 \in 0 .. n + 1
        BY <1>1, <2>3
      <3>2. Place(n + 1, v, i) = P(i - 1) /\ Place(n + 1, v, i + 1) = P(i)
        BY <1>7, <3>1
      <3>3. P(i - 1) # Head0 /\ P(i - 1) # g /\ P(i) # P(1) /\ P(i) # g
        <4>1. P(i - 1) # P(0) /\ P(i) # P(1)
          BY <1>1, <3>1
        <4> QED BY <1>3, <3>1, <4>1
      <3>4. P(i - 1) \in Queue!Nodes /\ P(i) \in Queue!Nodes
        BY <1>1, <3>1
      <3>5. r.next[P(i - 1)] = q.next[P(i - 1)] /\ r.prev[P(i)] = q.prev[P(i)]
        BY <1>6, <3>3, <3>4
      <3>6. q.next[P(i - 1)] = P(i) /\ q.prev[P(i)] = P(i - 1)
        BY <1>2, <3>1
      <3> QED BY <3>2, <3>5, <3>6
    <2> QED BY <1>1, <2>1, <2>2, <2>3
  <1>11. Ring(r, n + 1, v)
    <2> HIDE DEF v, r
    <2> QED BY <1>6, <1>8, <1>9, <1>10 DEF Ring
  <1>12. Members(n + 1, v) = Members(n, w) \cup {g}
    <2>1. \A i \in 1 .. n + 1 : i = 1 \/ (i - 1 \in 1 .. n /\ v[i] = w[i - 1])
      BY <1>1
    <2>2. v[1] = g /\ 1 \in 1 .. n + 1 /\ \A i \in 1 .. n : i + 1 \in 1 .. n + 1 /\ v[i + 1] = w[i]
      BY <1>1
    <2> HIDE DEF v
    <2> QED BY <2>1, <2>2 DEF Members
  <1>13. ASSUME NEW sz, Ordered(n, w, sz), sz[g] = PlacesPerGroup PROVE Ordered(n + 1, v, sz)
    <2> SUFFICES ASSUME NEW i \in 1 .. n + 1, NEW j \in 1 .. n + 1, i < j, sz[v[j]] = PlacesPerGroup
                 PROVE  sz[v[i]] = PlacesPerGroup
      BY DEF Ordered
    <2>1. CASE i = 1
      BY <1>1, <1>13, <2>1
    <2>2. CASE i # 1
      <3>1. i - 1 \in 1 .. n /\ j - 1 \in 1 .. n /\ v[i] = w[i - 1] /\ v[j] = w[j - 1] /\ i - 1 < j - 1
        BY <1>1, <2>2
      <3> HIDE DEF v
      <3> QED BY <1>13, <3>1 DEF Ordered
    <2> QED BY <2>1, <2>2
  <1> QED
    <2> HIDE DEF v, r
    <2>1. Ring(r, n + 1, v) /\ Members(n + 1, v) = Members(n, w) \cup {g}
          /\ \A sz : Ordered(n, w, sz) /\ sz[g] = PlacesPerGroup => Ordered(n + 1, v, sz)
      BY <1>11, <1>12, <1>13
    <2> QED BY <2>1 DEF r

\* poll_group_new: a node that is in no queue points to itself.
LEMMA SingleRing ==
    ASSUME Queue!GroupsAssumption, NEW q, NEW n, NEW w, Ring(q, n, w),
           NEW g \in Groups, g \notin Members(n, w)
    PROVE  Ring(Queue!Single(q, g), n, w)
  <1> DEFINE P(i) == Place(n, w, i)
             r == Queue!Single(q, g)
  <1>1. n \in Nat /\ \A i \in 0 .. n + 1 : P(i) \in Queue!Nodes
    BY Places
  <1>2. /\ q \in Links /\ w \in [1 .. n -> Groups] /\ \A i, j \in 1 .. n : w[i] = w[j] => i = j
        /\ \A i \in 0 .. n : q.next[P(i)] = P(i + 1) /\ q.prev[P(i + 1)] = P(i)
    BY DEF Ring
  <1>3. (\A i \in 0 .. n + 1 : P(i) # g) /\ g \in Queue!Nodes
    BY <1>1, <1>2 DEF Place, Members, Queue!Nodes, Queue!GroupsAssumption
  <1>4. r \in Links /\ \A m \in Queue!Nodes : m # g => r.next[m] = q.next[m] /\ r.prev[m] = q.prev[m]
    <2>1. r = [next |-> [q.next EXCEPT ![g] = g], prev |-> [q.prev EXCEPT ![g] = g]]
      <3>1. r = [q EXCEPT !.next[g] = g, !.prev[g] = g]
        BY DEF Queue!Single
      <3> HIDE DEF r
      <3> QED BY <1>2, <3>1 DEF Links
    <2> HIDE DEF r
    <2> QED BY <1>2, <1>3, <2>1 DEF Links
  <1>5. \A i \in 0 .. n : r.next[P(i)] = P(i + 1) /\ r.prev[P(i + 1)] = P(i)
    <2> TAKE i \in 0 .. n
    <2>1. i \in 0 .. n + 1 /\ i + 1 \in 0 .. n + 1
      BY <1>1
    <2> HIDE DEF r, P
    <2> QED BY <1>1, <1>2, <1>3, <1>4, <2>1
  <1> QED
    <2> HIDE DEF r
    <2>1. Ring(r, n, w)
      BY <1>1, <1>2, <1>4, <1>5 DEF Ring
    <2> QED BY <2>1 DEF r

\* Whether the full groups are first depends on the groups in the queue only.
LEMMA SameOrder ==
    ASSUME NEW n, NEW w, NEW s, NEW t, Ordered(n, w, s), \A g \in Members(n, w) : t[g] = s[g]
    PROVE  Ordered(n, w, t)
  BY DEF Ordered, Members

\* poll_group_acquire, once the group is in the queue and has room.
LEMMA TakeRing ==
    ASSUME Queue!GroupsAssumption, NEW q, NEW n, NEW w, Ring(q, n, w), NEW sz \in [Groups -> Nat],
           NEW g \in Members(n, w), Ordered(n, w, sz), sz[g] < PlacesPerGroup
    PROVE  \E v : /\ Ring(IF sz[g] + 1 = PlacesPerGroup THEN Queue!MovedToStart(q, g) ELSE q, n, v)
                  /\ Members(n, v) = Members(n, w)
                  /\ Ordered(n, v, [sz EXCEPT ![g] = @ + 1])
  <1> DEFINE t == [sz EXCEPT ![g] = @ + 1]
  <1>1. n \in Nat /\ w \in [1 .. n -> Groups] /\ PlacesPerGroup \in Nat
    BY DEF Ring, Queue!GroupsAssumption
  <1>2. PICK k \in 1 .. n : g = w[k]
    BY DEF Members
  <1>3. g \in Groups
    BY <1>1, <1>2
  <1>4. t[g] = sz[g] + 1 /\ \A h \in Groups : h # g => t[h] = sz[h]
    BY <1>3
  <1>5. Members(n, w) \subseteq Groups
    BY <1>1 DEF Members
  <1> HIDE DEF t
  <1>6. CASE sz[g] + 1 = PlacesPerGroup
    <2>1. PICK u : /\ Ring(Queue!Detached(q, g), n - 1, u)
                   /\ Members(n - 1, u) = Members(n, w) \ {g}
                   /\ \A s : Ordered(n, w, s) => Ordered(n - 1, u, s)
      BY <1>2, DetachRing
    <2>2. Ordered(n - 1, u, t)
      BY <1>4, <1>5, <2>1, SameOrder
    <2>3. g \notin Members(n - 1, u) /\ (n - 1) + 1 = n
      BY <1>1, <2>1
    <2>4. PICK v : /\ Ring(Queue!Prepended(Queue!Detached(q, g), g), n, v)
                   /\ Members(n, v) = Members(n - 1, u) \cup {g}
                   /\ \A s : Ordered(n - 1, u, s) /\ s[g] = PlacesPerGroup => Ordered(n, v, s)
      <3>1. \E v : /\ Ring(Queue!Prepended(Queue!Detached(q, g), g), (n - 1) + 1, v)
                   /\ Members((n - 1) + 1, v) = Members(n - 1, u) \cup {g}
                   /\ \A s : Ordered(n - 1, u, s) /\ s[g] = PlacesPerGroup => Ordered((n - 1) + 1, v, s)
        BY <1>3, <2>1, <2>3, PrependRing
      <3> QED BY <2>3, <3>1
    <2>5. Ordered(n, v, t) /\ Members(n, v) = Members(n, w)
      BY <1>4, <1>6, <2>1, <2>2, <2>4
    <2> QED BY <1>6, <2>4, <2>5 DEF Queue!MovedToStart, t
  <1>7. CASE sz[g] + 1 # PlacesPerGroup
    <2>1. Ordered(n, w, t)
      <3> SUFFICES ASSUME NEW i \in 1 .. n, NEW j \in 1 .. n, i < j, t[w[j]] = PlacesPerGroup
                   PROVE  t[w[i]] = PlacesPerGroup
        BY DEF Ordered
      <3>1. w[i] \in Groups /\ w[j] \in Groups
        BY <1>1
      <3>2. w[j] # g /\ sz[w[j]] = PlacesPerGroup
        BY <1>4, <1>7, <3>1
      <3>3. sz[w[i]] = PlacesPerGroup
        BY <3>2 DEF Ordered
      <3>4. w[i] # g
        BY <1>1, <1>3, <3>3
      <3> QED BY <1>4, <3>1, <3>3, <3>4
    <2> QED BY <1>7, <2>1 DEF t
  <1> QED BY <1>6, <1>7

\* poll_group_release and the move to the end.
LEMMA GiveRing ==
    ASSUME Queue!GroupsAssumption, NEW q, NEW n, NEW w, Ring(q, n, w), NEW sz \in [Groups -> Nat],
           NEW g \in Members(n, w), Ordered(n, w, sz), sz[g] > 0, sz[g] <= PlacesPerGroup
    PROVE  \E v : /\ Ring(Queue!MovedToEnd(q, g), n, v)
                  /\ Members(n, v) = Members(n, w)
                  /\ Ordered(n, v, [sz EXCEPT ![g] = @ - 1])
  <1> DEFINE t == [sz EXCEPT ![g] = @ - 1]
  <1>1. n \in Nat /\ w \in [1 .. n -> Groups] /\ PlacesPerGroup \in Nat
    BY DEF Ring, Queue!GroupsAssumption
  <1>2. PICK k \in 1 .. n : g = w[k]
    BY DEF Members
  <1>3. g \in Groups
    BY <1>1, <1>2
  <1>4. t[g] = sz[g] - 1 /\ \A h \in Groups : h # g => t[h] = sz[h]
    BY <1>3
  <1>5. Members(n, w) \subseteq Groups /\ t[g] # PlacesPerGroup
    BY <1>1, <1>3, <1>4 DEF Members
  <1> HIDE DEF t
  <1>6. PICK u : /\ Ring(Queue!Detached(q, g), n - 1, u)
                 /\ Members(n - 1, u) = Members(n, w) \ {g}
                 /\ \A s : Ordered(n, w, s) => Ordered(n - 1, u, s)
    BY <1>2, DetachRing
  <1>7. Ordered(n - 1, u, t)
    BY <1>4, <1>5, <1>6, SameOrder
  <1>8. g \notin Members(n - 1, u) /\ (n - 1) + 1 = n
    BY <1>1, <1>6
  <1>9. PICK v : /\ Ring(Queue!Appended(Queue!Detached(q, g), g), n, v)
                 /\ Members(n, v) = Members(n - 1, u) \cup {g}
                 /\ \A s : Ordered(n - 1, u, s) /\ s[g] # PlacesPerGroup => Ordered(n, v, s)
    <2>1. \E v : /\ Ring(Queue!Appended(Queue!Detached(q, g), g), (n - 1) + 1, v)
                 /\ Members((n - 1) + 1, v) = Members(n - 1, u) \cup {g}
                 /\ \A s : Ordered(n - 1, u, s) /\ s[g] # PlacesPerGroup => Ordered((n - 1) + 1, v, s)
      BY <1>3, <1>6, <1>8, AppendRing
    <2> QED BY <1>8, <2>1
  <1>10. Ordered(n, v, t) /\ Members(n, v) = Members(n, w)
    BY <1>5, <1>6, <1>7, <1>9
  <1> QED BY <1>9, <1>10 DEF Queue!MovedToEnd, t

\* A row of different groups is no longer than there are groups.
LEMMA RowFits ==
    ASSUME IsFiniteSet(Groups), NEW n \in Nat, NEW u \in [1 .. n -> Groups],
           \A i, j \in 1 .. n : u[i] = u[j] => i = j
    PROVE  n <= Cardinality(Groups) /\ Cardinality(Groups) \in Nat
  <1>1. u \in Injection(1 .. n, Groups)
    BY DEF Injection, IsInjective
  <1>2. IsFiniteSet(1 .. n) /\ Cardinality(1 .. n) = n
    BY FS_Interval
  <1>3. Cardinality(1 .. n) <= Cardinality(Groups)
    BY <1>1, <1>2, FS_Injection
  <1>4. Cardinality(Groups) \in Nat
    BY FS_CardinalityType
  <1> QED BY <1>2, <1>3, <1>4

\* Following a link from the head meets the groups of the row, one by one.
LEMMA WalkIs ==
    ASSUME Queue!GroupsAssumption, NEW link \in [Queue!Nodes -> Queue!Nodes],
           NEW n \in Nat, NEW u \in [1 .. n -> Groups], \A i, j \in 1 .. n : u[i] = u[j] => i = j,
           link[Head0] = Place(n, u, 1), \A i \in 1 .. n : link[u[i]] = Place(n, u, i + 1)
    PROVE  Queue!Walk(link) = u
  <1> DEFINE N == Queue!Cardinality(Groups) + 1
             Body(f) == [i \in 0 .. Queue!Cardinality(Groups) + 1 |->
                            IF i = 0 THEN link[Head0] ELSE link[f[i - 1]]]
             step == CHOOSE f : f = Body(f)
             stops == {i \in DOMAIN step : step[i] = Head0}
             F == [i \in 1 .. N |-> link]
  <1>1. Queue!Walk(link) = IF stops = {} THEN <<Head0>>
                           ELSE [i \in 1 .. (CHOOSE j \in stops : \A k \in stops : j <= k) |-> step[i - 1]]
    BY Zenon DEF Queue!Walk
  <1>2. IsFiniteSet(Groups) /\ Head0 \notin Groups
    BY QueueFinite DEF Queue!GroupsAssumption
  <1>3. N \in Nat /\ n <= N
    <2>1. n <= Cardinality(Groups) /\ Cardinality(Groups) \in Nat
      BY <1>2, RowFits
    <2>2. Queue!Cardinality(Groups) = Cardinality(Groups)
      BY QueueCardinality, Zenon
    <2> QED BY <2>1, <2>2
  <1>4. link[Head0] \in Queue!Nodes /\ Head0 \in Queue!Nodes
    BY DEF Queue!Nodes
  <1>5. PICK g : g \in [0 .. N -> Queue!Nodes] /\ g[0] = link[Head0]
                 /\ \A i \in 1 .. N : g[i] = F[i][g[i - 1]]
    <2>1. \A i \in 1 .. N : F[i] \in [Queue!Nodes -> Queue!Nodes]
      OBVIOUS
    <2> HIDE DEF F, N
    <2>2. \E g : Computes(Queue!Nodes, N, link[Head0], F, g)
      BY <1>3, <1>4, <2>1, Recursion, Zenon
    <2> QED BY <2>2 DEF Computes
  <1>6. /\ \A i \in 1 .. N : i - 1 \in 0 .. N /\ i \in 0 .. N /\ i # 0
        /\ \A i \in 0 .. N : i = 0 \/ i \in 1 .. N
        /\ 0 \in 0 .. N
    <2> HIDE DEF N
    <2> QED BY <1>3
  <1>7. \A i \in 1 .. N : F[i] = link
    BY Zenon
  <1>8. g = Body(g)
    <2>1. \A i \in 1 .. N : g[i] = link[g[i - 1]]
      <3> HIDE DEF F, N
      <3> QED BY <1>5, <1>7
    <2>2. DOMAIN g = 0 .. N /\ g = [i \in 0 .. N |-> g[i]]
      <3> HIDE DEF F, N
      <3> QED BY <1>5
    <2>3. Body(g) = [i \in 0 .. N |-> IF i = 0 THEN link[Head0] ELSE link[g[i - 1]]]
      BY Zenon
    <2> HIDE DEF F, N, Body
    <2>4. \A i \in 0 .. N : g[i] = IF i = 0 THEN link[Head0] ELSE link[g[i - 1]]
      BY <1>5, <1>6, <2>1
    <2>5. [i \in 0 .. N |-> g[i]] = [i \in 0 .. N |-> IF i = 0 THEN link[Head0] ELSE link[g[i - 1]]]
      BY <2>4
    <2> QED BY <2>2, <2>3, <2>5, Zenon
  <1>9. step = Body(step)
    <2> HIDE DEF Body
    <2> QED BY <1>8
  <1>10. /\ DOMAIN step = 0 .. N /\ step[0] = link[Head0]
         /\ \A i \in 1 .. N : step[i] = link[step[i - 1]]
    <2>1. DOMAIN step = 0 .. N
      <3> HIDE DEF step
      <3> QED BY <1>9, Zenon
    <2>2. \A i \in 0 .. N : step[i] = IF i = 0 THEN link[Head0] ELSE link[step[i - 1]]
      <3> HIDE DEF step
      <3> QED BY <1>9, Zenon
    <2> HIDE DEF step, N
    <2> QED BY <1>6, <2>1, <2>2, Zenon
  <1> HIDE DEF step, N, F
  <1> DEFINE S == {i \in 0 .. n : step[i] = Place(n, u, i + 1)}
  <1>11. S = 0 .. n
    <2>1. 0 \in S
      BY <1>10
    <2>2. ASSUME NEW i \in 1 .. n, i - 1 \in S PROVE i \in S
      <3>1. step[i - 1] = Place(n, u, i)
        BY <2>2
      <3>2. Place(n, u, i) = u[i] /\ i \in 1 .. N
        BY <1>3 DEF Place
      <3>3. step[i] = Place(n, u, i + 1)
        BY <1>10, <3>1, <3>2
      <3> QED BY <3>3
    <2>3. S \in SUBSET (0 .. n)
      OBVIOUS
    <2> HIDE DEF S
    <2> QED BY <2>1, <2>2, <2>3, AllTheWay
  <1>12. \A i \in 0 .. n : step[i] = Place(n, u, i + 1)
    BY <1>11
  <1>13. n \in stops /\ \A i \in stops : i \in Nat /\ n <= i
    <2>1. step[n] = Head0 /\ n \in 0 .. N
      BY <1>3, <1>12 DEF Place
    <2>2. ASSUME NEW i \in 0 .. N, i < n PROVE step[i] # Head0
      <3>1. i \in 0 .. n /\ i + 1 \in 1 .. n
        BY <1>3, <2>2
      <3>2. step[i] = u[i + 1]
        BY <1>12, <3>1 DEF Place
      <3> QED BY <1>2, <3>1, <3>2
    <2>3. \A i \in 0 .. N : i \in Nat
      BY <1>3
    <2> QED BY <1>10, <2>1, <2>2, <2>3
  <1> DEFINE first == CHOOSE j \in stops : \A k \in stops : j <= k
  <1>14. first = n
    <2> HIDE DEF stops
    <2>1. n \in stops /\ \A k \in stops : n <= k
      BY <1>13
    <2>2. first \in stops /\ \A k \in stops : first <= k
      BY <2>1, Zenon
    <2> HIDE DEF first
    <2> QED BY <1>13, <2>2
  <1>15. Queue!Walk(link) = [i \in 1 .. n |-> step[i - 1]]
    <2>1. stops # {}
      BY <1>13
    <2> HIDE DEF stops
    <2>2. Queue!Walk(link) = [i \in 1 .. first |-> step[i - 1]]
      BY <1>1, <2>1, Zenon
    <2> HIDE DEF first
    <2> QED BY <1>14, <2>2, Zenon
  <1>16. \A i \in 1 .. n : step[i - 1] = u[i]
    <2> TAKE i \in 1 .. n
    <2>1. i - 1 \in 0 .. n /\ (i - 1) + 1 = i
      OBVIOUS
    <2> QED BY <1>12, <2>1 DEF Place
  <1> QED BY <1>15, <1>16

\* Both directions of a ring.
LEMMA RingWalks ==
    ASSUME Queue!GroupsAssumption, NEW q, NEW n, NEW w, Ring(q, n, w)
    PROVE  /\ Queue!Walk(q.next) = w /\ Queue!Walk(q.prev) = Queue!Reverse(Queue!Walk(q.next))
           /\ Queue!ToSet(Queue!Walk(q.next)) = Members(n, w) /\ DOMAIN w = 1 .. n
  <1> DEFINE u == [i \in 1 .. n |-> w[(n - i) + 1]]
  <1>1. /\ n \in Nat /\ w \in [1 .. n -> Groups] /\ \A i, j \in 1 .. n : w[i] = w[j] => i = j
        /\ q.next \in [Queue!Nodes -> Queue!Nodes] /\ q.prev \in [Queue!Nodes -> Queue!Nodes]
        /\ \A i \in 0 .. n : q.next[Place(n, w, i)] = Place(n, w, i + 1)
        /\ \A i \in 0 .. n : q.prev[Place(n, w, i + 1)] = Place(n, w, i)
    BY DEF Ring, Links
  <1>2. Place(n, w, 0) = Head0 /\ Place(n, w, n + 1) = Head0 /\ \A i \in 1 .. n : Place(n, w, i) = w[i]
    BY <1>1 DEF Place
  <1>3. Queue!Walk(q.next) = w
    <2>1. 0 \in 0 .. n /\ 0 + 1 = 1 /\ \A i \in 1 .. n : i \in 0 .. n
      BY <1>1
    <2>2. q.next[Head0] = Place(n, w, 1) /\ \A i \in 1 .. n : q.next[w[i]] = Place(n, w, i + 1)
      BY <1>1, <1>2, <2>1
    <2> QED BY <1>1, <2>2, WalkIs
  <1>4. u \in [1 .. n -> Groups] /\ \A i, j \in 1 .. n : u[i] = u[j] => i = j
    <2>1. \A i \in 1 .. n : (n - i) + 1 \in 1 .. n
      BY <1>1
    <2>2. \A i \in 1 .. n, j \in 1 .. n : (n - i) + 1 = (n - j) + 1 => i = j
      BY <1>1
    <2>3. u \in [1 .. n -> Groups]
      BY <1>1, <2>1
    <2>4. ASSUME NEW i \in 1 .. n, NEW j \in 1 .. n, u[i] = u[j] PROVE i = j
      <3>1. w[(n - i) + 1] = w[(n - j) + 1]
        BY <2>4
      <3> HIDE DEF u
      <3> QED BY <1>1, <2>1, <2>2, <3>1
    <2> HIDE DEF u
    <2> QED BY <2>3, <2>4
  <1>5. \A i \in 0 .. n : Place(n, u, i + 1) = Place(n, w, n - i)
    <2> TAKE i \in 0 .. n
    <2>1. CASE i = n
      BY <1>1, <2>1 DEF Place
    <2>2. CASE i # n
      <3>1. i + 1 \in 1 .. n /\ n - i \in 1 .. n /\ (n - (i + 1)) + 1 = n - i
        BY <1>1, <2>2
      <3> QED BY <3>1 DEF Place
    <2> QED BY <2>1, <2>2
  <1>6. Queue!Walk(q.prev) = u
    <2>1. q.prev[Head0] = Place(n, u, 1)
      <3>1. n \in 0 .. n /\ 0 \in 0 .. n /\ 0 + 1 = 1 /\ n - 0 = n
        BY <1>1
      <3> HIDE DEF u
      <3> QED BY <1>1, <1>2, <1>5, <3>1
    <2>2. ASSUME NEW i \in 1 .. n PROVE q.prev[u[i]] = Place(n, u, i + 1)
      <3>1. /\ i \in 0 .. n /\ n - i \in 0 .. n /\ (n - i) + 1 \in 1 .. n
            /\ u[i] = w[(n - i) + 1]
        BY <1>1
      <3>2. Place(n, w, (n - i) + 1) = u[i]
        BY <1>2, <3>1
      <3>3. q.prev[u[i]] = Place(n, w, n - i)
        <4> HIDE DEF u
        <4> QED BY <1>1, <3>1, <3>2
      <3> HIDE DEF u
      <3> QED BY <1>5, <3>1, <3>3
    <2> HIDE DEF u
    <2> QED BY <1>1, <1>4, <2>1, <2>2, WalkIs
  <1>7. DOMAIN w = 1 .. n /\ Len(w) = n
    BY <1>1
  <1>8. u = Queue!Reverse(w)
    BY <1>7, Zenon DEF Queue!Reverse
  <1>9. Queue!ToSet(w) = Members(n, w)
    BY <1>7 DEF Queue!ToSet, Members
  <1> QED
    <2> HIDE DEF u
    <2> QED BY <1>3, <1>6, <1>7, <1>8, <1>9

\* A row of groups is the queue of the port, holds the live groups and has
\* those with room behind the full ones; a group that is not live is empty.
QueueInv ==
    /\ \E n, w : Ring(Queue!Queue, n, w) /\ Members(n, w) = live /\ Ordered(n, w, size)
    /\ size \in [Groups -> Nat] /\ live \subseteq Groups
    /\ \A g \in Groups : size[g] <= PlacesPerGroup /\ (g \notin live => size[g] = 0)

LEMMA QueueInit == ASSUME Queue!GroupsAssumption, Queue!Init PROVE QueueInv
  <1> DEFINE w == [i \in 1 .. 0 |-> Head0]
  <1>1. /\ Queue!Queue = [next |-> [m \in Queue!Nodes |-> m], prev |-> [m \in Queue!Nodes |-> m]]
        /\ size = [g \in Groups |-> 0] /\ live = {}
    BY DEF Queue!Init, Queue!Queue
  <1>2. Head0 \in Queue!Nodes /\ PlacesPerGroup \in Nat
    BY DEF Queue!Nodes, Queue!GroupsAssumption
  <1>3. Ring(Queue!Queue, 0, w)
    <2>1. Queue!Queue \in Links /\ w \in [1 .. 0 -> Groups]
      BY <1>1 DEF Links
    <2>2. Place(0, w, 0) = Head0 /\ Place(0, w, 0 + 1) = Head0
      BY DEF Place
    <2>3. Queue!Queue.next[Head0] = Head0 /\ Queue!Queue.prev[Head0] = Head0
      BY <1>1, <1>2
    <2>4. \A i \in 0 .. 0 : i = 0
      OBVIOUS
    <2> HIDE DEF w
    <2> QED BY <2>1, <2>2, <2>3, <2>4 DEF Ring
  <1>4. Members(0, w) = live /\ Ordered(0, w, size)
    BY <1>1 DEF Members, Ordered
  <1> HIDE DEF w
  <1> QED BY <1>1, <1>2, <1>3, <1>4 DEF QueueInv

\* What a step leaves behind, given the row it leaves behind.
LEMMA QueueAfter ==
    ASSUME NEW q, NEW n, NEW w, Ring(q, n, w), Queue!SetLinks(q),
           Members(n, w) = live', Ordered(n, w, size'),
           size' \in [Groups -> Nat], live' \subseteq Groups,
           \A g \in Groups : size'[g] <= PlacesPerGroup /\ (g \notin live' => size'[g] = 0)
    PROVE  QueueInv'
  <1>1. Queue!Queue' = q
    <2>1. next' = q.next /\ prev' = q.prev /\ q \in Links
      BY DEF Queue!SetLinks, Ring
    <2> QED BY <2>1 DEF Queue!Queue, Links
  <1>2. QueueInv' = (/\ \E m, u : Ring(Queue!Queue', m, u) /\ Members(m, u) = live' /\ Ordered(m, u, size')
                     /\ size' \in [Groups -> Nat] /\ live' \subseteq Groups
                     /\ \A g \in Groups : size'[g] <= PlacesPerGroup /\ (g \notin live' => size'[g] = 0))
    BY DEF QueueInv, Ring, Members, Ordered, Links, Place, Queue!Nodes
  <1> QED BY <1>1, <1>2

LEMMA QueueAcquire == ASSUME Queue!GroupsAssumption, QueueInv, Queue!Acquire PROVE QueueInv'
  <1>1. PICK n, w : Ring(Queue!Queue, n, w) /\ Members(n, w) = live /\ Ordered(n, w, size)
    BY DEF QueueInv
  <1>2. /\ size \in [Groups -> Nat] /\ live \subseteq Groups /\ PlacesPerGroup \in Nat \ {0}
        /\ \A g \in Groups : size[g] <= PlacesPerGroup /\ (g \notin live => size[g] = 0)
    BY DEF QueueInv, Queue!GroupsAssumption
  \* The group that is taken, and the queue and the groups before it is.
  <1>3. ASSUME NEW g, NEW q, NEW m, NEW u, Ring(q, m, u), Members(m, u) = live', Ordered(m, u, size),
               g \in live', live \subseteq live', live' \subseteq Groups, size[g] < PlacesPerGroup,
               Queue!Take(q, g)
        PROVE  QueueInv'
    <2> DEFINE t == [size EXCEPT ![g] = @ + 1]
               r == IF size[g] + 1 = PlacesPerGroup THEN Queue!MovedToStart(q, g) ELSE q
    <2>1. size' = t /\ Queue!SetLinks(r)
      BY <1>3 DEF Queue!Take
    <2>2. PICK v : Ring(r, m, v) /\ Members(m, v) = Members(m, u) /\ Ordered(m, v, t)
      BY <1>2, <1>3, TakeRing
    <2>3. /\ t \in [Groups -> Nat]
          /\ \A h \in Groups : t[h] <= PlacesPerGroup /\ (h \notin live' => t[h] = 0)
      BY <1>2, <1>3
    <2> HIDE DEF t, r
    <2> QED BY <1>3, <2>1, <2>2, <2>3, QueueAfter
  <1>4. CASE Queue!is_enqueued(Head0) /\ size[Queue!queue_last] < PlacesPerGroup
    <2>1. /\ n \in Nat /\ w \in [1 .. n -> Groups] /\ prev[Place(n, w, n + 1)] = Place(n, w, n)
      BY <1>1 DEF Ring, Queue!Queue
    <2>2. prev[Head0] = Place(n, w, n) /\ prev[Head0] # Head0
      BY <1>4, <2>1 DEF Place, Queue!is_enqueued
    <2>3. Queue!queue_last \in live
      BY <1>1, <2>1, <2>2 DEF Place, Members, Queue!queue_last
    <2>4. Queue!Take(Queue!Queue, Queue!queue_last) /\ live' = live
      BY <1>4 DEF Queue!Acquire
    <2>5. size[Queue!queue_last] < PlacesPerGroup
      BY <1>4
    <2> QED BY <1>1, <1>2, <1>3, <2>3, <2>4, <2>5
  <1>5. CASE ~(Queue!is_enqueued(Head0) /\ size[Queue!queue_last] < PlacesPerGroup)
    <2>1. PICK g \in Groups \ live :
              /\ live' = live \cup {g}
              /\ Queue!Take(Queue!Appended(Queue!Single(Queue!Queue, g), g), g)
      BY <1>5 DEF Queue!Acquire
    <2>2. Ring(Queue!Single(Queue!Queue, g), n, w)
      BY <1>1, <2>1, SingleRing
    <2>3. PICK u : /\ Ring(Queue!Appended(Queue!Single(Queue!Queue, g), g), n + 1, u)
                   /\ Members(n + 1, u) = Members(n, w) \cup {g}
                   /\ \A s : Ordered(n, w, s) /\ s[g] # PlacesPerGroup => Ordered(n + 1, u, s)
      BY <1>1, <2>1, <2>2, AppendRing
    <2>4. size[g] = 0 /\ size[g] < PlacesPerGroup /\ size[g] # PlacesPerGroup
      BY <1>2, <2>1
    <2>5. Ordered(n + 1, u, size) /\ Members(n + 1, u) = live'
      BY <1>1, <2>1, <2>3, <2>4
    <2>6. g \in live' /\ live \subseteq live' /\ live' \subseteq Groups
      BY <1>2, <2>1
    <2> QED BY <1>3, <2>1, <2>3, <2>4, <2>5, <2>6
  <1> QED BY <1>4, <1>5

LEMMA QueueRelease ==
    ASSUME Queue!GroupsAssumption, QueueInv, NEW g \in Groups, Queue!Release(g) PROVE QueueInv'
  <1>1. PICK n, w : Ring(Queue!Queue, n, w) /\ Members(n, w) = live /\ Ordered(n, w, size)
    BY DEF QueueInv
  <1>2. /\ size \in [Groups -> Nat] /\ live \subseteq Groups /\ PlacesPerGroup \in Nat \ {0}
        /\ \A h \in Groups : size[h] <= PlacesPerGroup /\ (h \notin live => size[h] = 0)
    BY DEF QueueInv, Queue!GroupsAssumption
  <1> DEFINE t == [size EXCEPT ![g] = @ - 1]
  <1>3. /\ g \in live /\ size[g] > 0 /\ size' = t /\ live' = live
        /\ Queue!SetLinks(Queue!MovedToEnd(Queue!Queue, g))
    BY DEF Queue!Release
  <1>4. PICK v : /\ Ring(Queue!MovedToEnd(Queue!Queue, g), n, v)
                 /\ Members(n, v) = Members(n, w) /\ Ordered(n, v, t)
    BY <1>1, <1>2, <1>3, GiveRing
  <1>5. /\ t \in [Groups -> Nat]
        /\ \A h \in Groups : t[h] <= PlacesPerGroup /\ (h \notin live => t[h] = 0)
    BY <1>2, <1>3
  <1> HIDE DEF t
  <1> QED BY <1>1, <1>2, <1>3, <1>4, <1>5, QueueAfter

LEMMA QueueDelete == ASSUME Queue!GroupsAssumption, QueueInv, Queue!DeleteFirst PROVE QueueInv'
  <1>1. PICK n, w : Ring(Queue!Queue, n, w) /\ Members(n, w) = live /\ Ordered(n, w, size)
    BY DEF QueueInv
  <1>2. /\ size \in [Groups -> Nat] /\ live \subseteq Groups /\ PlacesPerGroup \in Nat \ {0}
        /\ \A h \in Groups : size[h] <= PlacesPerGroup /\ (h \notin live => size[h] = 0)
    BY DEF QueueInv, Queue!GroupsAssumption
  <1> DEFINE f == Queue!queue_first
             q == Queue!Single(Queue!Detached(Queue!Queue, f), f)
  <1>3. /\ Queue!is_enqueued(Head0) /\ \A g \in live : size[g] = 0
        /\ Queue!SetLinks(q) /\ live' = live \ {f} /\ size' = size
    BY DEF Queue!DeleteFirst
  <1>4. /\ n \in Nat /\ w \in [1 .. n -> Groups]
        /\ next[Place(n, w, 0)] = Place(n, w, 0 + 1) /\ prev[Place(n, w, n + 1)] = Place(n, w, n)
    BY <1>1 DEF Ring, Queue!Queue
  <1>5. n # 0
    BY <1>3, <1>4 DEF Place, Queue!is_enqueued
  <1>6. 1 \in 1 .. n /\ f = w[1] /\ f \in Groups
    BY <1>4, <1>5 DEF Place, Queue!queue_first
  <1>7. PICK v : /\ Ring(Queue!Detached(Queue!Queue, f), n - 1, v)
                 /\ Members(n - 1, v) = Members(n, w) \ {f}
                 /\ \A s : Ordered(n, w, s) => Ordered(n - 1, v, s)
    BY <1>1, <1>6, DetachRing
  <1>8. Ring(q, n - 1, v)
    <2> HIDE DEF f
    <2> QED BY <1>6, <1>7, SingleRing
  <1> HIDE DEF q, f
  <1>9. \A h \in Groups : size[h] <= PlacesPerGroup /\ (h \notin live' => size[h] = 0)
    BY <1>2, <1>3
  <1> QED BY <1>1, <1>2, <1>3, <1>7, <1>8, <1>9, QueueAfter

LEMMA QueueSound == ASSUME Queue!GroupsAssumption, QueueInv PROVE GroupsSound
  <1>1. PICK n, w : Ring(Queue!Queue, n, w) /\ Members(n, w) = live /\ Ordered(n, w, size)
    BY DEF QueueInv
  <1>2. Queue!Queue.next = next /\ Queue!Queue.prev = prev
    BY DEF Queue!Queue
  <1>3. /\ Queue!Walk(next) = w /\ Queue!Walk(prev) = Queue!Reverse(Queue!Walk(next))
        /\ Queue!ToSet(Queue!Walk(next)) = live /\ DOMAIN w = 1 .. n
    BY <1>1, <1>2, RingWalks
  <1>4. Queue!RingSound
    BY <1>3, Zenon DEF Queue!RingSound, QueueInv
  <1>5. Queue!FullFirst
    <2>1. \A i, j \in DOMAIN w : i < j /\ size[w[j]] = PlacesPerGroup => size[w[i]] = PlacesPerGroup
      BY <1>1, <1>3, Zenon DEF Ordered
    <2> QED BY <1>3, <2>1, Zenon DEF Queue!FullFirst
  <1> QED BY <1>4, <1>5 DEF GroupsSound

\* GroupsSound (poll_group_acquire, poll_group_release and the deletion of the
\* groups in port_delete): the queue of a port is one ring through its groups,
\* the same in both directions, and the full groups come first, so looking at
\* the last one tells whether any has room; whatever their number and size.
THEOREM GroupsCorrect == ASSUME Queue!GroupsAssumption PROVE Queue!Spec => []GroupsSound
  <1>1. Queue!Init => QueueInv
    BY QueueInit
  <1>2. QueueInv /\ [Queue!Next]_(Queue!vars) => QueueInv'
    <2> SUFFICES ASSUME QueueInv, [Queue!Next]_(Queue!vars) PROVE QueueInv'
      OBVIOUS
    <2>1. CASE Queue!Acquire
      BY <2>1, QueueAcquire
    <2>2. ASSUME NEW g \in Groups, Queue!Release(g) PROVE QueueInv'
      BY <2>2, QueueRelease
    <2>3. CASE Queue!DeleteFirst
      BY <2>3, QueueDelete
    <2>4. CASE UNCHANGED Queue!vars
      <3>1. next' = next /\ prev' = prev /\ size' = size /\ live' = live
        BY <2>4 DEF Queue!vars, Queue!links
      <3>2. Queue!Queue' = Queue!Queue
        BY <3>1 DEF Queue!Queue
      <3>3. PICK n, w : Ring(Queue!Queue, n, w) /\ Members(n, w) = live /\ Ordered(n, w, size)
        BY DEF QueueInv
      <3>4. Queue!SetLinks(Queue!Queue)
        BY <3>1 DEF Queue!SetLinks, Queue!Queue
      <3>5. /\ size \in [Groups -> Nat] /\ live \subseteq Groups
            /\ \A g \in Groups : size[g] <= PlacesPerGroup /\ (g \notin live => size[g] = 0)
        BY DEF QueueInv
      <3> QED BY <3>1, <3>3, <3>4, <3>5, QueueAfter
    <2> QED BY <2>1, <2>2, <2>3, <2>4 DEF Queue!Next
  <1>3. QueueInv => GroupsSound
    BY QueueSound
  <1> QED BY <1>1, <1>2, <1>3, PTL DEF Queue!Spec

==============================================================================
