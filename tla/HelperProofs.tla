----------------------------- MODULE HelperProofs ----------------------------
(* Helpers of the forwarder, each on its own and for every value of its    *)
(* constants: MappingCalls keeps the two maps inverse and implements       *)
(* Injection, ObjectPool accounts for its objects and sleepers, ReadAll    *)
(* returns the beginning of its stream, QuickSocket the socket of the      *)
(* first address that works, TraceableList implements a sequence, and      *)
(* AesModes gives back the message that it encrypted.                      *)
EXTENDS HelperParts, FiniteSetTheorems, SequenceTheorems, RecursionFacts, TLAPS

------------------------------------------------------------------------------
(* The maps *)

\* What the maps hold: functions whose domains are the ids in use.
IsMap(m) == m = [x \in DOMAIN m |-> m[x]]
MapsOK ==
    /\ IsMap(c2s) /\ DOMAIN c2s \subseteq Clients /\ \A c \in DOMAIN c2s : c2s[c] \in Servers
    /\ IsMap(s2c) /\ DOMAIN s2c \subseteq Servers /\ \A s \in DOMAIN s2c : s2c[s] \in Clients
MapInv == MapsOK /\ StaysInverse

\* Erasing a key.
LEMMA EraseFact == ASSUME NEW m, NEW k, IsMap(m)
    PROVE /\ DOMAIN Erase(m, k) = DOMAIN m \ {k}
          /\ IsMap(Erase(m, k))
          /\ \A x \in DOMAIN m \ {k} : Erase(m, k)[x] = m[x]
  BY DEF Erase, IsMap

\* Deleting an id with operator[]: a present one goes with its partner, an
\* absent one leaves both maps as they were.
LEMMA DelClientFact == ASSUME MapInv, NEW c \in Clients, DelClient(c)
    PROVE /\ c2s' = Erase(c2s, c)
          /\ s2c' = Erase(s2c, IF c \in DOMAIN c2s THEN c2s[c] ELSE 0)
<1>1. CASE c \in DOMAIN c2s
  BY <1>1 DEF DelClient, Index
<1>2. CASE c \notin DOMAIN c2s
  <2>1. Index(c2s, c, 0) = Store(c2s, c, 0)
    BY <1>2 DEF Index
  <2>2. Store(c2s, c, 0)[c] = 0 /\ Erase(Store(c2s, c, 0), c) = Erase(c2s, c)
    BY <1>2 DEF Store, Erase
  <2> QED BY <1>2, <2>1, <2>2 DEF DelClient
<1> QED BY <1>1, <1>2

LEMMA DelServerFact == ASSUME MapInv, NEW s \in Servers, DelServer(s)
    PROVE /\ s2c' = Erase(s2c, s)
          /\ c2s' = Erase(c2s, IF s \in DOMAIN s2c THEN s2c[s] ELSE NoClient)
<1>1. CASE s \in DOMAIN s2c
  BY <1>1 DEF DelServer, Index
<1>2. CASE s \notin DOMAIN s2c
  <2>1. Index(s2c, s, NoClient) = Store(s2c, s, NoClient)
    BY <1>2 DEF Index
  <2>2. Store(s2c, s, NoClient)[s] = NoClient /\ Erase(Store(s2c, s, NoClient), s) = Erase(s2c, s)
    BY <1>2 DEF Store, Erase
  <2> QED BY <1>2, <2>1, <2>2 DEF DelServer
<1> QED BY <1>1, <1>2

\* The map starts empty on both sides.
LEMMA InitMapInv == MapInit => MapInv
  BY DEF MapInit, MapInv, IsMap, MapsOK, StaysInverse, MutuallyInverse, EmptyMap

\* Every call keeps the maps inverse of each other.
LEMMA NextMapInv == MapInv /\ [MapNext]_maps => MapInv'
<1> SUFFICES ASSUME MapInv, [MapNext]_maps PROVE MapInv'
  OBVIOUS
<1>0. IsMap(c2s) /\ IsMap(s2c)
  BY DEF MapInv, MapsOK
<1>1. ASSUME NEW c \in Clients, NEW s \in Servers, Add(c, s) PROVE MapInv'
  <2>1. c2s' = Store(c2s, c, s) /\ s2c' = Store(s2c, s, c) /\ c \notin DOMAIN c2s /\ s \notin DOMAIN s2c
    BY <1>1 DEF Add, add_c2s, add_s2c
  <2>2. /\ DOMAIN c2s' = DOMAIN c2s \cup {c} /\ IsMap(c2s') /\ c2s'[c] = s
        /\ \A d \in DOMAIN c2s \ {c} : c2s'[d] = c2s[d]
    BY <1>0, <2>1 DEF Store, IsMap
  <2>3. /\ DOMAIN s2c' = DOMAIN s2c \cup {s} /\ IsMap(s2c') /\ s2c'[s] = c
        /\ \A t \in DOMAIN s2c \ {s} : s2c'[t] = s2c[t]
    BY <1>0, <2>1 DEF Store, IsMap
  <2>4. MapsOK'
    BY <2>1, <2>2, <2>3 DEF MapInv, MapsOK
  <2>5. StaysInverse'
    BY <2>1, <2>2, <2>3 DEF MapInv, StaysInverse, MutuallyInverse
  <2> QED BY <2>4, <2>5 DEF MapInv
<1>2. ASSUME NEW c \in Clients, DelClient(c) PROVE MapInv'
  <2> DEFINE s == IF c \in DOMAIN c2s THEN c2s[c] ELSE 0
  <2>1. c2s' = Erase(c2s, c) /\ s2c' = Erase(s2c, s)
    BY <1>2, DelClientFact
  <2>2. /\ DOMAIN c2s' = DOMAIN c2s \ {c} /\ IsMap(c2s')
        /\ \A d \in DOMAIN c2s \ {c} : c2s'[d] = c2s[d]
    BY <1>0, <2>1, EraseFact
  <2>3. /\ DOMAIN s2c' = DOMAIN s2c \ {s} /\ IsMap(s2c')
        /\ \A t \in DOMAIN s2c \ {s} : s2c'[t] = s2c[t]
    BY <1>0, <2>1, EraseFact
  <2>4. MapsOK'
    BY <2>2, <2>3 DEF MapInv, MapsOK
  <2>5. \A d \in DOMAIN c2s \ {c} : c2s[d] # s
    BY IdsAssumption DEF MapInv, MapsOK, StaysInverse, MutuallyInverse
  <2>6. \A t \in DOMAIN s2c \ {s} : s2c[t] # c
    BY DEF MapInv, StaysInverse, MutuallyInverse
  <2>7. StaysInverse'
    BY <2>2, <2>3, <2>5, <2>6 DEF MapInv, StaysInverse, MutuallyInverse
  <2> QED BY <2>4, <2>7 DEF MapInv
<1>3. ASSUME NEW s \in Servers, DelServer(s) PROVE MapInv'
  <2> DEFINE c == IF s \in DOMAIN s2c THEN s2c[s] ELSE NoClient
  <2>1. s2c' = Erase(s2c, s) /\ c2s' = Erase(c2s, c)
    BY <1>3, DelServerFact
  <2>2. /\ DOMAIN c2s' = DOMAIN c2s \ {c} /\ IsMap(c2s')
        /\ \A d \in DOMAIN c2s \ {c} : c2s'[d] = c2s[d]
    BY <1>0, <2>1, EraseFact
  <2>3. /\ DOMAIN s2c' = DOMAIN s2c \ {s} /\ IsMap(s2c')
        /\ \A t \in DOMAIN s2c \ {s} : s2c'[t] = s2c[t]
    BY <1>0, <2>1, EraseFact
  <2>4. MapsOK'
    BY <2>2, <2>3 DEF MapInv, MapsOK
  <2>5. \A t \in DOMAIN s2c \ {s} : s2c[t] # c
    BY IdsAssumption DEF MapInv, MapsOK, StaysInverse, MutuallyInverse
  <2>6. \A d \in DOMAIN c2s \ {c} : c2s[d] # s
    BY DEF MapInv, StaysInverse, MutuallyInverse
  <2>7. StaysInverse'
    BY <2>2, <2>3, <2>5, <2>6 DEF MapInv, StaysInverse, MutuallyInverse
  <2> QED BY <2>4, <2>7 DEF MapInv
<1>4. CASE UNCHANGED maps
  BY <1>4 DEF maps, MapInv, MapsOK, StaysInverse, MutuallyInverse
<1> QED BY <1>1, <1>2, <1>3, <1>4 DEF MapNext

LEMMA TypedAndInverse == MapSpec => []MapInv
  BY InitMapInv, NextMapInv, PTL DEF MapSpec

\* For any number of clients and sockets, and any order of calls, also with
\* ids the maps do not hold (InjectiveConnectionMapping).
THEOREM AlwaysInverse == MapSpec => []StaysInverse
<1>1. MapInv => StaysInverse
  BY DEF MapInv
<1> QED BY <1>1, TypedAndInverse, PTL

\* InjectiveConnectionMapping implements a one-to-one relation.
Pairs == {<<c, c2s[c]>> : c \in DOMAIN c2s}
THEOREM IsInjection == MapSpec => ImplementsInjection
<1>1. MapInit => OneRelation!Init
  BY DEF MapInit, OneRelation!Init, EmptyMap
<1>2. MapInv /\ [MapNext]_maps => [OneRelation!Next]_Pairs
  <2> SUFFICES ASSUME MapInv, [MapNext]_maps PROVE [OneRelation!Next]_Pairs
    OBVIOUS
  <2>0. IsMap(c2s)
    BY DEF MapInv, MapsOK
  <2>1. ASSUME NEW c \in Clients, NEW s \in Servers, Add(c, s) PROVE OneRelation!Add(c, s)
    <3>1. c2s' = Store(c2s, c, s) /\ c \notin DOMAIN c2s /\ s \notin DOMAIN s2c
      BY <2>1 DEF Add, add_c2s
    <3>2. \A p \in Pairs : p[1] # c /\ p[2] # s
      BY <3>1 DEF Pairs, MapInv, StaysInverse, MutuallyInverse
    <3>3. /\ DOMAIN c2s' = DOMAIN c2s \cup {c} /\ c2s'[c] = s
          /\ \A d \in DOMAIN c2s : c2s'[d] = c2s[d]
      BY <2>0, <3>1 DEF Store, IsMap
    <3>4. Pairs' = Pairs \cup {<<c, s>>}
      BY <3>3 DEF Pairs
    <3> QED BY <3>2, <3>4 DEF OneRelation!Add, Pairs
  <2>2. ASSUME NEW c \in Clients, DelClient(c) PROVE OneRelation!DelClient(c)
    <3>1. c2s' = Erase(c2s, c)
      BY <2>2, DelClientFact
    <3>2. DOMAIN c2s' = DOMAIN c2s \ {c} /\ \A d \in DOMAIN c2s \ {c} : c2s'[d] = c2s[d]
      BY <2>0, <3>1, EraseFact
    <3>3. Pairs' = {p \in Pairs : p[1] # c}
      BY <3>2 DEF Pairs
    <3> QED BY <3>3 DEF OneRelation!DelClient, Pairs
  <2>3. ASSUME NEW s \in Servers, DelServer(s) PROVE OneRelation!DelServer(s)
    <3> DEFINE c == IF s \in DOMAIN s2c THEN s2c[s] ELSE NoClient
    <3>1. c2s' = Erase(c2s, c)
      BY <2>3, DelServerFact
    <3>2. \A d \in DOMAIN c2s : d # c <=> c2s[d] # s
      BY IdsAssumption DEF MapInv, MapsOK, StaysInverse, MutuallyInverse
    <3>3. DOMAIN c2s' = DOMAIN c2s \ {c} /\ \A d \in DOMAIN c2s \ {c} : c2s'[d] = c2s[d]
      BY <2>0, <3>1, EraseFact
    <3>4. Pairs' = {p \in Pairs : p[2] # s}
      BY <3>2, <3>3 DEF Pairs
    <3> QED BY <3>4 DEF OneRelation!DelServer, Pairs
  <2>4. CASE UNCHANGED maps
    BY <2>4 DEF maps, Pairs
  <2> QED BY <2>1, <2>2, <2>3, <2>4 DEF MapNext, OneRelation!Next
<1> QED BY <1>1, <1>2, TypedAndInverse, PTL DEF MapSpec, OneRelation!Spec, ImplementsInjection, Pairs

------------------------------------------------------------------------------
(* The pool *)

\* Whoever has set new_obj_ready has left a free object.
ReadyHasFree == ready => free # {}

\* A thread goes to sleep only while somebody holds an object, who will set
\* new_obj_ready when it gives the object back.
SomeoneHolds ==
    (\E t \in Threads : pc[t] \in {"starved", "waiting", "woken"}) /\ ~ready =>
        \E u \in Threads : held[u] # {}

PoolInv == TypeOK /\ OneOwner /\ ReadyHasFree /\ NeverThrows /\ SomeoneHolds /\ AllBackNobodySleeps

LEMMA InitPoolInv == Init => PoolInv
<1> SUFFICES ASSUME Init PROVE PoolInv
  OBVIOUS
<1>1. TypeOK
  BY DEF Init, TypeOK
<1>2. \A t \in Threads : held[t] = {} /\ pc[t] = "idle"
  BY DEF Init
<1>3. OneOwner
  BY <1>2 DEF Init, OneOwner
<1>4. ReadyHasFree /\ NeverThrows /\ SomeoneHolds /\ AllBackNobodySleeps
  BY <1>2 DEF Init, ReadyHasFree, NeverThrows, SomeoneHolds, AllBackNobodySleeps
<1> QED BY <1>1, <1>3, <1>4 DEF PoolInv

\* A thread that takes an object becomes its only owner.
LEMMA TakeFact == ASSUME PoolInv, NEW t \in Threads, Available, Take(t) PROVE PoolInv'
<1> USE DEF PoolInv, TypeOK
<1>1. PICK o \in IF free # {} THEN free ELSE Objects \ made :
          made' = made \cup {o} /\ free' = free \ {o} /\ held' = [held EXCEPT ![t] = @ \cup {o}]
  BY DEF Take
<1>2. o \in Objects /\ (o \in free \/ o \notin made) /\ (o \in free <=> o \in made)
  BY DEF Available
<1>3. \A u \in Threads : o \notin held[u]
  BY <1>2 DEF OneOwner
<1>4. pc' = [pc EXCEPT ![t] = "idle"] /\ ready' = FALSE
  BY DEF Take
<1>5. TypeOK'
  BY <1>1, <1>2, <1>4
<1>6. held'[t] = held[t] \cup {o} /\ \A u \in Threads \ {t} : held'[u] = held[u]
  BY <1>1
<1>7. OneOwner'
  <2>1. \A u \in Threads : held'[u] \cap free' = {}
    BY <1>1, <1>3, <1>6 DEF OneOwner
  <2>2. \A u, v \in Threads : u # v => held'[u] \cap held'[v] = {}
    BY <1>3, <1>6 DEF OneOwner
  <2>3. UNION {held'[u] : u \in Threads} = {o} \cup UNION {held[u] : u \in Threads}
    BY <1>6
  <2>4. made' = free' \cup UNION {held'[u] : u \in Threads}
    BY <1>1, <2>3 DEF OneOwner
  <2> QED BY <2>1, <2>2, <2>4 DEF OneOwner
<1>8. held'[t] # {}
  BY <1>6
<1>9. ReadyHasFree' /\ NeverThrows'
  BY <1>4 DEF ReadyHasFree, NeverThrows
<1>10. SomeoneHolds' /\ AllBackNobodySleeps'
  BY <1>8 DEF SomeoneHolds, AllBackNobodySleeps
<1> QED BY <1>5, <1>7, <1>9, <1>10

\* When nothing is available, every object is with a borrower.
LEMMA StarvedFact == ASSUME PoolInv, ~Available PROVE \E u \in Threads : held[u] # {}
<1>1. free = {} /\ made = Objects
  BY DEF Available
<1>2. UNION {held[u] : u \in Threads} # {}
  BY <1>1, ObjectsAssumption DEF PoolInv, OneOwner
<1> QED BY <1>2

LEMMA TryBorrowFact == ASSUME PoolInv, NEW t \in Threads, TryBorrow(t) PROVE PoolInv'
<1>1. CASE Available
  BY <1>1, TakeFact DEF TryBorrow
<1>2. CASE ~Available
  <2>1. pc[t] = "idle" /\ pc' = [pc EXCEPT ![t] = "starved"] /\ UNCHANGED <<made, free, ready, held>>
    BY <1>2 DEF TryBorrow
  <2>2. \E u \in Threads : held'[u] # {}
    BY <1>2, <2>1, StarvedFact
  <2> QED BY <2>1, <2>2
    DEF PoolInv, TypeOK, OneOwner, ReadyHasFree, NeverThrows, SomeoneHolds, AllBackNobodySleeps
<1> QED BY <1>1, <1>2

LEMMA RecheckFact == ASSUME PoolInv, NEW t \in Threads, Recheck(t) PROVE PoolInv'
<1>1. CASE ~ready
  <2>1. pc' = [pc EXCEPT ![t] = "waiting"] /\ UNCHANGED <<made, free, ready, held>>
    BY <1>1 DEF Recheck
  <2>2. \E u \in Threads : held'[u] # {}
    BY <1>1, <2>1 DEF Recheck, PoolInv, SomeoneHolds
  <2> QED BY <2>1, <2>2
    DEF PoolInv, TypeOK, OneOwner, ReadyHasFree, NeverThrows, SomeoneHolds, AllBackNobodySleeps
<1>2. CASE ready
  <2>1. Available
    BY <1>2 DEF PoolInv, ReadyHasFree, Available
  <2> QED BY <1>2, <2>1, TakeFact DEF Recheck
<1> QED BY <1>1, <1>2

\* An object that is given back is free and nobody's.
LEMMA ReleaseFact == ASSUME PoolInv, NEW t \in Threads, NEW o \in Objects, Release(t, o) PROVE PoolInv'
<1> USE DEF PoolInv, TypeOK
<1>1. /\ o \in held[t] /\ pc[t] = "idle" /\ pc' = [pc EXCEPT ![t] = "notify"]
      /\ free' = free \cup {o} /\ ready' = TRUE /\ made' = made
      /\ held'[t] = held[t] \ {o} /\ \A u \in Threads \ {t} : held'[u] = held[u]
      /\ held' \in [Threads -> SUBSET made]
  BY DEF Release, Goto
<1>2. TypeOK'
  BY <1>1
<1>3. OneOwner'
  <2>1. \A u \in Threads \ {t} : o \notin held[u]
    BY <1>1 DEF OneOwner
  <2>2. \A u \in Threads : held'[u] = held[u] \ {o}
    BY <1>1, <2>1
  <2>3. UNION {held'[u] : u \in Threads} = (UNION {held[u] : u \in Threads}) \ {o}
    BY <2>2
  <2>4. o \in made
    BY <1>1
  <2>5. made' = free' \cup UNION {held'[u] : u \in Threads}
    BY <1>1, <2>3, <2>4 DEF OneOwner
  <2>6. \A u \in Threads : held'[u] \cap free' = {}
    BY <1>1, <2>2 DEF OneOwner
  <2>7. \A u, v \in Threads : u # v => held'[u] \cap held'[v] = {}
    BY <2>2 DEF OneOwner
  <2> QED BY <2>5, <2>6, <2>7 DEF OneOwner
<1>4. ReadyHasFree' /\ NeverThrows' /\ SomeoneHolds'
  BY <1>1 DEF ReadyHasFree, NeverThrows, SomeoneHolds
<1>5. AllBackNobodySleeps'
  BY <1>1 DEF AllBackNobodySleeps
<1> QED BY <1>2, <1>3, <1>4, <1>5

LEMMA NotifyFact == ASSUME PoolInv, NEW t \in Threads, Notify(t) PROVE PoolInv'
<1>0. UNCHANGED <<made, free, ready, held>>
  BY DEF Notify
<1>1. ASSUME NEW u \in Threads, pc[u] = "waiting", pc' = [pc EXCEPT ![t] = "idle", ![u] = "woken"]
      PROVE PoolInv'
  <2>1. /\ pc' \in [Threads -> {"idle", "starved", "waiting", "woken", "notify", "error"}]
        /\ pc'[u] = "woken" /\ \A v \in Threads \ {u} : pc'[v] = IF v = t THEN "idle" ELSE pc[v]
    BY <1>1 DEF PoolInv, TypeOK, Notify
  <2> QED BY <1>0, <1>1, <2>1
    DEF PoolInv, TypeOK, OneOwner, ReadyHasFree, NeverThrows, SomeoneHolds, AllBackNobodySleeps
<1>2. ASSUME \A u \in Threads : pc[u] # "waiting", pc' = [pc EXCEPT ![t] = "idle"] PROVE PoolInv'
  BY <1>0, <1>2
  DEF PoolInv, TypeOK, OneOwner, ReadyHasFree, NeverThrows, SomeoneHolds, AllBackNobodySleeps
<1> QED BY <1>1, <1>2 DEF Notify

LEMMA SpuriousFact == ASSUME PoolInv, NEW t \in Threads, Spurious(t) PROVE PoolInv'
  BY DEF Spurious, Goto,
     PoolInv, TypeOK, OneOwner, ReadyHasFree, NeverThrows, SomeoneHolds, AllBackNobodySleeps

LEMMA NextPoolInv == PoolInv /\ [Next]_vars => PoolInv'
<1>1. ASSUME PoolInv, Next PROVE PoolInv'
  BY <1>1, TryBorrowFact, RecheckFact, NotifyFact, SpuriousFact, ReleaseFact DEF Next, Step
<1>2. ASSUME PoolInv, UNCHANGED vars PROVE PoolInv'
  BY <1>2
  DEF vars, PoolInv, TypeOK, OneOwner, ReadyHasFree, NeverThrows, SomeoneHolds, AllBackNobodySleeps
<1> QED BY <1>1, <1>2

LEMMA PoolInvHolds == Spec => []PoolInv
  BY InitPoolInv, NextPoolInv, PTL DEF Spec

\* The variables of fixed_object_pool stay within their types.
THEOREM Typed == Spec => []TypeOK
<1>1. PoolInv => TypeOK
  BY DEF PoolInv
<1> QED BY <1>1, PoolInvHolds, PTL

\* No object is lent twice, free while lent, or lost (fixed_object_pool).
THEOREM AlwaysOneOwner == Spec => []OneOwner
<1>1. PoolInv => OneOwner
  BY DEF PoolInv
<1> QED BY <1>1, PoolInvHolds, PTL

\* A thread that the condition variable lets go finds an object (borrow_one).
THEOREM BorrowNeverThrows == Spec => []NeverThrows
<1>1. PoolInv => NeverThrows
  BY DEF PoolInv
<1> QED BY <1>1, PoolInvHolds, PTL

\* When all objects are back, no thread is left asleep (release_one).
THEOREM NobodyLeftAsleep == Spec => []AllBackNobodySleeps
<1>1. PoolInv => AllBackNobodySleeps
  BY DEF PoolInv
<1> QED BY <1>1, PoolInvHolds, PTL

\* Objects and sleepers of fixed_object_pool are accounted for, for any number
\* of threads and objects (borrow_one, release_one).
THEOREM PoolCorrect == Spec => []PoolSound
<1>1. OneOwner /\ NeverThrows /\ AllBackNobodySleeps => PoolSound
  BY DEF PoolSound
<1> QED BY <1>1, AlwaysOneOwner, BorrowNeverThrows, NobodyLeftAsleep, PTL

------------------------------------------------------------------------------
(* readall *)

\* The bytes taken so far fill the buffer up to where the next read begins,
\* and the buffer has room for a second half.
Filled(n) == \A k \in 0 .. n - 1 : buffer[k] = k + 1
StreamInv ==
    /\ current \in Nat /\ size = current /\ DOMAIN buffer = 0 .. size - 1
    /\ sent \in Nat /\ taken \in Nat /\ taken <= sent
    /\ readPc \in {"first", "loop", "returned", "failed"}
    /\ readPc = "first" => taken = 0 /\ currvptr = 0
    /\ readPc = "loop" => taken = Stream!half /\ currvptr = Stream!half /\ Filled(taken)
    /\ readPc = "returned" => result = taken /\ Filled(taken)

LEMMA HalfFact ==
    ASSUME current \in Nat
    PROVE  Stream!half \in Nat /\ 2 * Stream!half <= current
  BY DEF Stream!half

\* A read into the buffer behind the bytes that are there.
LEMMA ReadFact ==
    ASSUME StreamInv, NEW ret \in 0 .. Stream!half, Stream!Read(ret),
           currvptr = taken, taken \in {0, Stream!half}, Filled(taken)
    PROVE  /\ taken' = taken + ret /\ taken' <= sent
           /\ DOMAIN buffer' = DOMAIN buffer
           /\ \A k \in 0 .. taken + ret - 1 : buffer'[k] = k + 1
  <1>1. Stream!half \in Nat /\ 2 * Stream!half <= current /\ ret \in Nat
    BY HalfFact DEF StreamInv
  <1>2. taken' = taken + ret
    BY DEF Stream!Read
  <1>3. taken + ret <= sent
    BY <1>1 DEF Stream!Read, Stream!Smaller, StreamInv
  <1>4. buffer' = [k \in DOMAIN buffer |->
                      IF k \in taken .. taken + ret - 1 THEN k + 1 ELSE buffer[k]]
    <2>1. \A k \in taken .. taken + ret - 1 : taken + k - currvptr + 1 = k + 1
      BY <1>1 DEF StreamInv
    <2> QED
      BY <2>1 DEF Stream!Read
  <1>5. \A k \in 0 .. taken + ret - 1 : k \in DOMAIN buffer
    BY <1>1 DEF StreamInv
  <1>6. \A k \in 0 .. taken + ret - 1 : k \in 0 .. taken - 1 \/ k \in taken .. taken + ret - 1
    BY <1>1 DEF StreamInv
  <1> QED
    BY <1>2, <1>3, <1>4, <1>5, <1>6 DEF Filled

LEMMA ReadFirstKeeps == ASSUME StreamInv, Stream!ReadFirst PROVE StreamInv'
  <1>1. PICK ret \in 0 .. Stream!half :
           /\ Stream!Read(ret)
           /\ IF ret < Stream!half THEN readPc' = "returned" /\ result' = ret /\ UNCHANGED currvptr
              ELSE readPc' = "loop" /\ currvptr' = Stream!half /\ UNCHANGED result
    BY DEF Stream!ReadFirst
  <1>2. /\ readPc = "first" /\ taken = 0 /\ currvptr = 0
        /\ UNCHANGED <<sent, closed, size, current>>
    BY DEF Stream!ReadFirst, Stream!peer, StreamInv
  <1>3. Filled(0)
    BY DEF Filled
  <1>4. /\ taken' = ret /\ taken' <= sent /\ DOMAIN buffer' = DOMAIN buffer
        /\ \A k \in 0 .. ret - 1 : buffer'[k] = k + 1
    BY <1>1, <1>2, <1>3, ReadFact
  <1>5. Stream!half \in Nat /\ ret \in Nat /\ (~(ret < Stream!half) => ret = Stream!half)
    BY HalfFact DEF StreamInv
  <1>6. Stream!half' = Stream!half
    BY <1>2 DEF Stream!half
  <1>7. Filled(taken)'
    BY <1>4 DEF Filled
  <1> QED
    BY <1>1, <1>2, <1>4, <1>5, <1>6, <1>7 DEF StreamInv

LEMMA ReadNextKeeps == ASSUME StreamInv, Stream!ReadNext PROVE StreamInv'
  <1>1. PICK ret \in 0 .. Stream!half :
           Stream!Read(ret) /\ readPc' = "returned" /\ result' = ret + Stream!half
    BY DEF Stream!ReadNext
  <1>2. /\ taken = Stream!half /\ currvptr = Stream!half /\ Filled(taken)
        /\ UNCHANGED <<sent, closed, size, current>>
    BY DEF Stream!ReadNext, Stream!peer, StreamInv
  <1>3. /\ taken' = taken + ret /\ taken' <= sent /\ DOMAIN buffer' = DOMAIN buffer
        /\ \A k \in 0 .. taken + ret - 1 : buffer'[k] = k + 1
    BY <1>1, <1>2, ReadFact
  <1>4. Stream!half \in Nat /\ ret \in Nat
    BY HalfFact DEF StreamInv
  <1>5. Filled(taken)'
    <2>1. \A k \in 0 .. taken' - 1 : buffer'[k] = k + 1
      BY <1>2, <1>3, <1>4
    <2> QED
      BY <2>1 DEF Filled
  <1>6. result' = taken'
    BY <1>1, <1>2, <1>3, <1>4
  <1> QED
    BY <1>1, <1>2, <1>3, <1>4, <1>5, <1>6 DEF StreamInv

LEMMA StreamNext ==
    ASSUME StreamInv, [Stream!Next]_(Stream!vars) PROVE StreamInv'
  <1>1. CASE Stream!Send \/ Stream!Close \/ Stream!Fail \/ UNCHANGED Stream!vars
    <2>1. /\ UNCHANGED <<taken, size, current, currvptr, buffer, result>>
          /\ sent' = sent \/ sent' = sent + 1
          /\ readPc' \in {readPc, "failed"}
      BY <1>1 DEF Stream!Send, Stream!Close, Stream!Fail, Stream!vars, Stream!peer
    <2>2. Stream!half' = Stream!half /\ (Filled(taken) => Filled(taken)')
      BY <2>1 DEF Stream!half, Filled
    <2> QED
      BY <2>1, <2>2 DEF StreamInv
  <1> QED
    BY <1>1, ReadFirstKeeps, ReadNextKeeps DEF Stream!Next

\* What readall and recvall return are the first bytes of the stream, without
\* a gap, and none that was read is dropped, however the stream is cut into
\* reads and whatever the size of the buffer.
THEOREM ReadAllCorrect ==
    ASSUME Stream!StreamAssumption PROVE Stream!Spec => []Stream!PrefixReturned
  <1>1. Stream!Init => StreamInv
    BY DEF Stream!Init, Stream!StreamAssumption, StreamInv
  <1>2. StreamInv /\ [Stream!Next]_(Stream!vars) => StreamInv'
    BY StreamNext
  <1>3. StreamInv => Stream!PrefixReturned
    BY DEF StreamInv, Filled, Stream!PrefixReturned
  <1> QED
    BY <1>1, <1>2, <1>3, PTL DEF Stream!Spec

------------------------------------------------------------------------------
(* quick_listen and quick_connect *)

Trying == {"socket", "options", "attach", "listen", "return", "returned"}

SockTypes ==
    /\ sockPc \in {"startup", "resolve", "threw"} \cup Trying
    /\ addrs \in Seq(Sock!Outcomes) /\ rp \in Nat \ {0}
    /\ fn \in {"listen", "connect"} /\ wsaHeld \in {0, 1}

\* Before the list of addresses is there, nothing has been acquired but
\* Winsock; with the list, one of them is being tried, or was the last one.
Begun ==
    /\ sockPc \in {"startup", "resolve"} => addrs = <<>> /\ rp = 1 /\ open = {} /\ frees = 0
    /\ sockPc \in Trying => rp \in 1 .. Len(addrs)
    /\ sockPc = "threw" => addrs = <<>> \/ rp \in 1 .. Len(addrs)

\* The addresses before the one that is tried have failed, and left nothing.
Tried ==
    /\ \A j \in 1 .. rp - 1 : j \in 1 .. Len(addrs) => ~Sock!Stops(j)
    /\ sockPc = "socket" => open = {}
    /\ sockPc = "options" => open = {rp} /\ addrs[rp] # "noSocket"
    /\ sockPc = "attach" => open = {rp} /\ addrs[rp] \in {"refused", "attached"}
    /\ sockPc \in {"listen", "return", "returned"} => open = {rp} /\ addrs[rp] = "attached"
    /\ sockPc = "listen" => fn = "listen" /\ ~udp
    /\ sockPc = "threw" => open \subseteq {rp} /\ (addrs = <<>> => open = {})

\* Why an address list ends in an exception.
Thrown == sockPc = "threw" /\ addrs # <<>> =>
    \/ addrs[rp] = "noOption"
    \/ addrs[rp] = "attached" /\ fn = "listen" /\ ~udp /\ ~listens
    \/ ~Sock!Stops(rp) /\ rp = Len(addrs) /\ open = {}

\* What has been given back: the list and the reference to Winsock.
GivenBack ==
    /\ sockPc \in Trying \ {"returned"} => frees = 0
    /\ sockPc = "returned" =>
          frees = (IF fn = "listen" \/ Sock!windows THEN 1 ELSE 0) + Sock!Deferred
    /\ sockPc = "threw" => frees = Sock!Deferred
    /\ Sock!windows =>
          /\ sockPc = "startup" => wsa = wsaHeld
          /\ sockPc \in {"resolve"} \cup (Trying \ {"returned"}) => wsa = wsaHeld + 1
          /\ sockPc = "returned" => wsa = wsaHeld + 1 - Sock!Deferred
          /\ sockPc = "threw" =>
                wsa = IF Sock!resolved THEN wsaHeld + 1 - Sock!Deferred ELSE wsaHeld

SockInv == SockTypes /\ Begun /\ Tried /\ Thrown /\ GivenBack

LEMMA SockInit == ASSUME Sock!Init PROVE SockInv
  <1>1. addrs = <<>> /\ Len(addrs) = 0 /\ rp = 1
    BY DEF Sock!Init
  <1>2. SockTypes
    BY DEF Sock!Init, SockTypes
  <1>3. sockPc \in {"startup", "resolve"} /\ open = {} /\ frees = 0
    BY DEF Sock!Init
  <1>4. Begun /\ Tried /\ Thrown
    BY <1>1, <1>3 DEF Begun, Tried, Thrown, Trying
  <1>5. GivenBack
    BY DEF Sock!Init, GivenBack, Trying
  <1> QED
    BY <1>2, <1>4, <1>5 DEF SockInv

LEMMA StartupKeeps == ASSUME SockInv, Sock!WSAStartup PROVE SockInv'
  <1>1. /\ sockPc = "startup"
        /\ UNCHANGED <<platform, fn, udp, listens, wsaHeld, addrs, rp, open, frees>>
        /\ \/ sockPc' = "resolve" /\ wsa' = wsa + 1
           \/ sockPc' = "threw" /\ wsa' = wsa
    BY DEF Sock!WSAStartup, Sock!Goto, Sock!env
  <1> QED
    BY <1>1 DEF SockInv, SockTypes, Begun, Tried, Thrown, GivenBack, Trying, Sock!Stops,
                Sock!Deferred, Sock!windows, Sock!resolved

LEMMA ResolveKeeps == ASSUME Sock!AddrsAssumption, SockInv, Sock!getaddrinfo PROVE SockInv'
  <1>1. /\ sockPc = "resolve" /\ rp = 1
        /\ UNCHANGED <<platform, fn, udp, listens, wsaHeld, rp, open, frees>>
    BY DEF Sock!getaddrinfo, Sock!env, SockInv, Begun
  <1>2. CASE /\ addrs' \in UNION {[1 .. n -> Sock!Outcomes] : n \in 1 .. MaxAddrs}
             /\ sockPc' = "socket" /\ UNCHANGED wsa
    <2>1. PICK n \in 1 .. MaxAddrs : addrs' \in [1 .. n -> Sock!Outcomes]
      BY <1>2
    <2>2. addrs' \in Seq(Sock!Outcomes) /\ Len(addrs') = n /\ n \in Nat /\ n >= 1
      BY <2>1 DEF Sock!AddrsAssumption
    <2>3. 1 \in 1 .. Len(addrs')
      BY <2>2
    <2> QED
      BY <1>1, <1>2, <2>2, <2>3 DEF SockInv, SockTypes, Begun, Tried, Thrown, GivenBack, Trying,
         Sock!windows
  <1>3. CASE /\ sockPc' = "threw" /\ UNCHANGED addrs
             /\ wsa' = IF Sock!windows THEN wsa - 1 ELSE wsa
    BY <1>1, <1>3 DEF SockInv, SockTypes, Begun, Tried, Thrown, GivenBack, Trying, Sock!Stops,
       Sock!Deferred, Sock!windows, Sock!resolved
  <1> QED
    BY <1>2, <1>3 DEF Sock!getaddrinfo

\* An exception gives back the list and Winsock, and is about one address.
LEMMA ThrowKeeps ==
    ASSUME SockInv, sockPc \in Trying \ {"returned"}, UNCHANGED Sock!env,
           open' \subseteq {rp}, Sock!Throw,
           \/ addrs[rp] = "noOption"
           \/ addrs[rp] = "attached" /\ fn = "listen" /\ ~udp /\ ~listens
           \/ ~Sock!Stops(rp) /\ rp = Len(addrs) /\ open' = {}
    PROVE  SockInv'
  <1>1. /\ sockPc' = "threw" /\ frees' = frees + Sock!Deferred /\ UNCHANGED <<addrs, rp>>
        /\ wsa' = IF Sock!windows THEN wsa - Sock!Deferred ELSE wsa
        /\ UNCHANGED <<platform, fn, udp, listens, wsaHeld>>
    BY DEF Sock!Throw, Sock!CleanUp, Sock!env
  <1>2. Sock!Deferred' = Sock!Deferred /\ Sock!Deferred \in {0, 1} /\ Sock!windows' = Sock!windows
    BY <1>1 DEF Sock!Deferred, Sock!resolved, Sock!windows
  <1>3. rp \in 1 .. Len(addrs) /\ SockTypes'
    BY <1>1 DEF SockInv, SockTypes, Begun
  <1>4. Begun' /\ Thrown'
    BY <1>1, <1>3 DEF Begun, Thrown, Trying, Sock!Stops
  <1>5. Tried'
    <2>1. addrs # <<>>
      BY <1>3
    <2> QED BY <1>1, <2>1 DEF SockInv, Tried, Trying, Sock!Stops
  <1>6. frees = 0 /\ (Sock!windows => wsa = wsaHeld + 1) /\ wsaHeld \in {0, 1}
    BY DEF SockInv, SockTypes, GivenBack
  <1>7. Sock!resolved /\ Sock!resolved' /\ rp \in 1 .. Len(addrs)
    BY <1>1, <1>3 DEF SockTypes, Sock!resolved
  <1>8. GivenBack'
    BY <1>1, <1>2, <1>6, <1>7 DEF GivenBack, Trying
  <1> QED
    BY <1>3, <1>4, <1>5, <1>8 DEF SockInv

\* The next address is tried, when the one before has left no socket.
LEMMA NextAddrKeeps ==
    ASSUME SockInv, sockPc \in Trying \ {"returned"}, UNCHANGED Sock!env, open' = {},
           ~Sock!Stops(rp), Sock!NextAddr
    PROVE  SockInv'
  <1>0. rp \in 1 .. Len(addrs) /\ rp \in Nat /\ Len(addrs) \in Nat
    BY DEF SockInv, SockTypes, Begun
  <1>1. CASE ~(rp < Len(addrs))
    <2>1. rp = Len(addrs) /\ Sock!Throw
      BY <1>0, <1>1 DEF Sock!NextAddr
    <2> QED
      BY <2>1, ThrowKeeps
  <1>2. CASE rp < Len(addrs)
    <2>1. /\ rp' = rp + 1 /\ sockPc' = "socket" /\ UNCHANGED <<addrs, frees, wsa>>
          /\ UNCHANGED <<platform, fn, udp, listens, wsaHeld>>
      BY <1>2 DEF Sock!NextAddr, Sock!env
    <2>2. SockTypes' /\ Begun'
      BY <1>0, <1>2, <2>1 DEF SockInv, SockTypes, Begun, Trying
    <2>3. \A j \in 1 .. rp : j \in 1 .. Len(addrs) => ~Sock!Stops(j)
      BY <1>0 DEF SockInv, Tried
    <2>4. \A j : Sock!Stops(j)' <=> Sock!Stops(j)
      BY <2>1 DEF Sock!Stops
    <2>5. Tried' /\ Thrown'
      BY <1>0, <2>1, <2>3, <2>4 DEF Tried, Thrown
    <2>6. GivenBack'
      BY <2>1 DEF SockInv, GivenBack, Trying, Sock!windows
    <2> QED
      BY <2>2, <2>5, <2>6 DEF SockInv
  <1> QED
    BY <1>1, <1>2

\* A step that goes on with the same address.
LEMMA GoesOn ==
    ASSUME SockInv, sockPc \in Trying \ {"returned"}, sockPc' \in Trying \ {"returned"},
           UNCHANGED Sock!env, UNCHANGED <<addrs, rp, frees, wsa>>,
           sockPc' = "socket" => open' = {},
           sockPc' # "socket" => open' = {rp},
           sockPc' = "options" => addrs[rp] # "noSocket",
           sockPc' = "attach" => addrs[rp] \in {"refused", "attached"},
           sockPc' \in {"listen", "return"} => addrs[rp] = "attached",
           sockPc' = "listen" => fn = "listen" /\ ~udp
    PROVE  SockInv'
  <1>1. UNCHANGED <<platform, fn, udp, listens, wsaHeld>>
    BY DEF Sock!env
  <1>2. SockTypes' /\ Begun' /\ Thrown'
    BY <1>1 DEF SockInv, SockTypes, Begun, Thrown, Trying
  <1>3. \A j : Sock!Stops(j)' <=> Sock!Stops(j)
    BY DEF Sock!Stops
  <1>4. Tried'
    BY <1>1, <1>3 DEF SockInv, Tried, Trying
  <1>5. GivenBack'
    BY <1>1 DEF SockInv, GivenBack, Trying, Sock!windows
  <1> QED
    BY <1>2, <1>4, <1>5 DEF SockInv

LEMMA AddrFact ==
    ASSUME SockInv, sockPc \in Trying
    PROVE  rp \in 1 .. Len(addrs) /\ addrs[rp] \in {"noSocket", "noOption", "refused", "attached"}
  <1>1. rp \in 1 .. Len(addrs) /\ addrs \in Seq(Sock!Outcomes)
    BY DEF SockInv, SockTypes, Begun
  <1> QED
    BY <1>1 DEF Sock!Outcomes

LEMMA SockStepKeeps ==
    ASSUME SockInv, Sock!MakeSocket \/ Sock!SetOptions \/ Sock!Attach \/ Sock!Listen
    PROVE  SockInv'
  <1>0. sockPc \in Trying \ {"returned"} /\ UNCHANGED Sock!env
    BY DEF Sock!MakeSocket, Sock!SetOptions, Sock!Attach, Sock!Listen, Trying
  <1>1. CASE Sock!MakeSocket
    <2>1. sockPc = "socket" /\ open = {}
      BY <1>1 DEF Sock!MakeSocket, SockInv, Tried
    <2>2. CASE addrs[rp] = "noSocket"
      BY <1>0, <1>1, <2>1, <2>2, NextAddrKeeps DEF Sock!MakeSocket, Sock!Stops
    <2>3. CASE addrs[rp] # "noSocket"
      <3>1. sockPc' = "options" /\ open' = {rp} /\ UNCHANGED <<addrs, rp, frees, wsa>>
        BY <1>1, <2>1, <2>3 DEF Sock!MakeSocket
      <3> QED
        BY <1>0, <2>3, <3>1, GoesOn DEF Trying
    <2> QED
      BY <2>2, <2>3
  <1>2. CASE Sock!SetOptions
    <2>1. sockPc = "options" /\ open = {rp} /\ open' = open /\ addrs[rp] # "noSocket"
      BY <1>2 DEF Sock!SetOptions, SockInv, Tried
    <2>2. CASE addrs[rp] = "noOption"
      BY <1>0, <1>2, <2>1, <2>2, ThrowKeeps DEF Sock!SetOptions
    <2>3. CASE addrs[rp] # "noOption"
      <3>1. sockPc' = "attach" /\ UNCHANGED <<addrs, rp, frees, wsa>>
        BY <1>2, <2>3 DEF Sock!SetOptions
      <3>2. addrs[rp] \in {"refused", "attached"}
        BY <1>0, <2>1, <2>3, AddrFact
      <3> QED
        BY <1>0, <2>1, <3>1, <3>2, GoesOn DEF Trying
    <2> QED
      BY <2>2, <2>3
  <1>3. CASE Sock!Attach
    <2>1. sockPc = "attach" /\ open = {rp} /\ addrs[rp] \in {"refused", "attached"}
      BY <1>3 DEF Sock!Attach, SockInv, Tried
    <2>2. CASE addrs[rp] = "attached"
      <3>1. /\ sockPc' = IF fn = "listen" /\ ~udp THEN "listen" ELSE "return"
            /\ UNCHANGED <<addrs, rp, open, frees, wsa>>
        BY <1>3, <2>2 DEF Sock!Attach
      <3> QED
        BY <1>0, <2>1, <2>2, <3>1, GoesOn DEF Trying
    <2>3. CASE addrs[rp] # "attached"
      <3>1. open' = {} /\ Sock!NextAddr
        BY <1>3, <2>1, <2>3 DEF Sock!Attach
      <3> QED
        BY <1>0, <2>1, <2>3, <3>1, NextAddrKeeps DEF Sock!Stops
    <2> QED
      BY <2>2, <2>3
  <1>4. CASE Sock!Listen
    <2>1. /\ sockPc = "listen" /\ open = {rp} /\ open' = open /\ addrs[rp] = "attached"
          /\ fn = "listen" /\ ~udp
      BY <1>4 DEF Sock!Listen, SockInv, Tried
    <2>2. CASE listens
      <3>1. sockPc' = "return" /\ UNCHANGED <<addrs, rp, frees, wsa>>
        BY <1>4, <2>2 DEF Sock!Listen
      <3> QED
        BY <1>0, <2>1, <3>1, GoesOn DEF Trying
    <2>3. CASE ~listens
      BY <1>0, <1>4, <2>1, <2>3, ThrowKeeps DEF Sock!Listen
    <2> QED
      BY <2>2, <2>3
  <1> QED
    BY <1>1, <1>2, <1>3, <1>4

LEMMA ReturnKeeps == ASSUME SockInv, Sock!Return PROVE SockInv'
  <1>1. /\ sockPc = "return" /\ sockPc' = "returned"
        /\ frees' = frees + (IF fn = "listen" \/ Sock!windows THEN 1 ELSE 0) + Sock!Deferred
        /\ wsa' = IF Sock!windows THEN wsa - Sock!Deferred ELSE wsa
        /\ UNCHANGED <<platform, fn, udp, listens, wsaHeld, addrs, rp, open>>
    BY DEF Sock!Return, Sock!Goto, Sock!CleanUp, Sock!env
  <1>2. Sock!Deferred' = Sock!Deferred /\ Sock!Deferred \in {0, 1} /\ Sock!windows' = Sock!windows
    BY <1>1 DEF Sock!Deferred, Sock!resolved, Sock!windows
  <1>3. SockTypes' /\ Begun' /\ Thrown'
    BY <1>1 DEF SockInv, SockTypes, Begun, Thrown, Trying
  <1>4. \A j : Sock!Stops(j)' <=> Sock!Stops(j)
    BY <1>1 DEF Sock!Stops
  <1>5. Tried'
    BY <1>1, <1>4 DEF SockInv, Tried
  <1>6. frees = 0 /\ (Sock!windows => wsa = wsaHeld + 1) /\ wsaHeld \in {0, 1}
    BY <1>1 DEF SockInv, SockTypes, GivenBack, Trying
  <1>7. GivenBack'
    BY <1>1, <1>2, <1>6 DEF GivenBack, Trying
  <1> QED
    BY <1>3, <1>5, <1>7 DEF SockInv

LEMMA SockNext ==
    ASSUME Sock!AddrsAssumption, SockInv, [Sock!Next]_(Sock!vars) PROVE SockInv'
  <1>1. CASE UNCHANGED Sock!vars
    <2>1. UNCHANGED <<platform, fn, udp, listens, wsaHeld, addrs, sockPc, rp, open, frees, wsa>>
      BY <1>1 DEF Sock!vars, Sock!env
    <2> QED
      BY <2>1 DEF SockInv, SockTypes, Begun, Tried, Thrown, GivenBack, Sock!Stops,
                  Sock!Deferred, Sock!windows, Sock!resolved
  <1> QED
    BY <1>1, StartupKeeps, ResolveKeeps, SockStepKeeps, ReturnKeeps DEF Sock!Next

\* Which address decides: the one that was tried last.
LEMMA LastDecides ==
    ASSUME SockInv, NEW k \in Sock!Reached, sockPc \in {"returned", "threw"}, addrs # <<>>
    PROVE  rp \in 1 .. Len(addrs) /\ (Sock!Stops(rp) => k = rp)
  <1>1. addrs \in Seq(Sock!Outcomes) /\ DOMAIN addrs = 1 .. Len(addrs) /\ Len(addrs) \in Nat
    BY DEF SockInv, SockTypes
  <1>2. rp \in 1 .. Len(addrs)
    BY DEF SockInv, Begun, Trying
  <1>3. k \in 1 .. Len(addrs) /\ Sock!Stops(k) /\ \A j \in 1 .. k - 1 : ~Sock!Stops(j)
    BY <1>1 DEF Sock!Reached
  <1>4. \A j \in 1 .. rp - 1 : j \in 1 .. Len(addrs) => ~Sock!Stops(j)
    BY DEF SockInv, Tried
  <1>5. ~(k < rp)
    BY <1>1, <1>2, <1>3, <1>4
  <1>6. Sock!Stops(rp) => ~(rp < k)
    BY <1>1, <1>2, <1>3
  <1> QED
    BY <1>1, <1>2, <1>3, <1>5, <1>6

LEMMA FirstWins == ASSUME SockInv PROVE Sock!FirstAddressWins
  <1>1. addrs \in Seq(Sock!Outcomes) /\ DOMAIN addrs = 1 .. Len(addrs) /\ Len(addrs) \in Nat
    BY DEF SockInv, SockTypes
  <1>2. ASSUME sockPc = "returned" PROVE rp \in Sock!Reached /\ addrs[rp] = "attached"
    <2>1. rp \in 1 .. Len(addrs) /\ addrs[rp] = "attached"
      BY <1>2 DEF SockInv, Begun, Tried, Trying
    <2>2. \A j \in 1 .. rp - 1 : ~Sock!Stops(j)
      BY <1>1, <2>1 DEF SockInv, Tried
    <2> QED
      BY <1>1, <2>1, <2>2 DEF Sock!Reached, Sock!Stops
  <1>3. ASSUME sockPc = "threw", NEW k \in Sock!Reached, addrs[k] = "attached"
        PROVE  fn = "listen" /\ ~udp /\ ~listens
    <2>1. k \in 1 .. Len(addrs) /\ Sock!Stops(k) /\ \A j \in 1 .. k - 1 : ~Sock!Stops(j)
      BY <1>1 DEF Sock!Reached
    <2>2. addrs # <<>>
      BY <1>1, <2>1
    <2>3. rp \in 1 .. Len(addrs) /\ (Sock!Stops(rp) => k = rp)
      BY <1>3, <2>2, LastDecides
    <2>4. \A j \in 1 .. rp - 1 : j \in 1 .. Len(addrs) => ~Sock!Stops(j)
      BY DEF SockInv, Tried
    <2>5. ~(~Sock!Stops(rp) /\ rp = Len(addrs))
      <3> SUFFICES ASSUME ~Sock!Stops(rp), rp = Len(addrs) PROVE FALSE
        OBVIOUS
      <3>1. k = rp \/ k \in 1 .. rp - 1
        BY <1>1, <2>1
      <3> QED
        BY <2>1, <2>4, <3>1
    <2>6. addrs[rp] = "noOption" => Sock!Stops(rp)
      BY DEF Sock!Stops
    <2>7. addrs[rp] # "noOption"
      BY <1>3, <2>3, <2>6
    <2> QED
      BY <1>3, <2>2, <2>5, <2>7 DEF SockInv, Thrown
  <1> QED
    BY <1>2, <1>3 DEF Sock!FirstAddressWins

\* quick_listen and quick_connect return the socket of the first address that
\* can be bound or connected and leave no other open; an exception leaves open
\* only a socket on which an option or ::listen failed; a call that returns
\* has freed its list, and only quick_connect on Windows twice; quick_connect
\* has freed it and has given its reference to Winsock back also when it
\* throws; and neither takes a reference of others. For lists of any length.
THEOREM QuickSocketCorrect ==
    ASSUME Sock!AddrsAssumption PROVE Sock!Spec => []Sock!SocketsSound
  <1>1. Sock!Init => SockInv
    BY SockInit
  <1>2. SockInv /\ [Sock!Next]_(Sock!vars) => SockInv'
    BY SockNext
  <1>3. SockInv => Sock!SocketsSound
    <2> SUFFICES ASSUME SockInv PROVE Sock!SocketsSound
      OBVIOUS
    <2>1. Sock!OneSocketLeft
      BY DEF SockInv, Tried, Thrown, Sock!OneSocketLeft
    <2>2. Sock!ListFreed
      BY DEF SockInv, SockTypes, Begun, GivenBack, Trying, Sock!ListFreed, Sock!Deferred,
             Sock!windows, Sock!resolved
    <2>3. Sock!WinsockHeld
      <3> SUFFICES ASSUME Sock!windows, sockPc \in {"returned", "threw"}
                   PROVE  /\ wsa \in {wsaHeld, wsaHeld + 1}
                          /\ fn = "listen" /\ sockPc = "returned" => wsa = wsaHeld + 1
                          /\ fn = "connect" \/ ~Sock!resolved => wsa = wsaHeld
        BY DEF Sock!WinsockHeld
      <3>1. sockPc = "returned" => Sock!resolved
        BY DEF SockInv, SockTypes, Begun, Trying, Sock!resolved
      <3>2. wsaHeld \in {0, 1} /\ fn \in {"listen", "connect"}
        BY DEF SockInv, SockTypes
      <3>3. wsa = IF Sock!resolved THEN wsaHeld + 1 - Sock!Deferred ELSE wsaHeld
        BY <3>1 DEF SockInv, GivenBack
      <3> QED BY <3>1, <3>2, <3>3 DEF Sock!Deferred
    <2> QED
      BY <2>1, <2>2, <2>3, FirstWins DEF Sock!SocketsSound
  <1> QED
    BY <1>1, <1>2, <1>3, PTL DEF Sock!Spec

\* The helpers of sio.hpp side by side: the sockets that quick_listen and
\* quick_connect make, and the bytes that readall returns.
THEOREM SocketsCorrect ==
    ASSUME Sock!AddrsAssumption, Stream!StreamAssumption
    PROVE  Sock!Spec /\ Stream!Spec => []SocketsSound
  <1>1. Sock!SocketsSound /\ Stream!PrefixReturned => SocketsSound
    BY DEF SocketsSound
  <1> QED
    BY <1>1, QuickSocketCorrect, ReadAllCorrect, PTL

------------------------------------------------------------------------------
(* The list: its pointers link the allocated nodes as one row, and         *)
(* reading that row in either direction gives a sequence.                  *)

\* The list's own instances of the library's operators are the library's.
LEMMA ListFinite == ASSUME NEW S PROVE List!IsFiniteSet(S) <=> IsFiniteSet(S)
  BY DEF List!IsFiniteSet, IsFiniteSet

\* Likewise for the size of a set.
LEMMA ListCardinality == ASSUME NEW S PROVE List!Cardinality(S) = Cardinality(S)
  BY DEF List!Cardinality, Cardinality

\* The list as a row of n different nodes, w, from head to tail.
OrNil == Nodes \cup {Nil}
Lists == [head: OrNil, tail: OrNil, size: Int, next: [Nodes -> OrNil], prev: [Nodes -> OrNil]]
NodeAt(n, w, i) == IF i \in 1 .. n THEN w[i] ELSE Nil
Linked(l, n, w) ==
    /\ l \in Lists /\ n \in Nat /\ w \in [1 .. n -> Nodes]
    /\ \A i, j \in 1 .. n : w[i] = w[j] => i = j
    /\ l.head = NodeAt(n, w, 1) /\ l.tail = NodeAt(n, w, n) /\ l.size = n
    /\ \A i \in 1 .. n : l.next[w[i]] = NodeAt(n, w, i + 1) /\ l.prev[w[i]] = NodeAt(n, w, i - 1)
RowOf(n, w) == {w[i] : i \in 1 .. n}

\* Writing through a pointer: nothing if it is null, one link of one node if not.
LEMMA SetNext ==
    ASSUME List!NodesAssumption, NEW l \in Lists, NEW n \in OrNil, NEW to \in OrNil
    PROVE  LET r == List!SetLink(l, "next", n, to) IN
           /\ r \in Lists
           /\ r.head = l.head /\ r.tail = l.tail /\ r.size = l.size /\ r.prev = l.prev
           /\ \A m \in Nodes : r.next[m] = IF m = n THEN to ELSE l.next[m]
  <1> DEFINE r == [l EXCEPT !.next[n] = to]
  <1>1. CASE n = Nil
    BY <1>1 DEF List!SetLink, List!NodesAssumption
  <1>2. CASE n # Nil
    <2>1. List!SetLink(l, "next", n, to) = r
      BY <1>2 DEF List!SetLink
    <2>2. n \in Nodes /\ r \in Lists
      BY <1>2 DEF OrNil, Lists
    <2>3. /\ r.head = l.head /\ r.tail = l.tail /\ r.size = l.size /\ r.prev = l.prev
          /\ \A m \in Nodes : r.next[m] = IF m = n THEN to ELSE l.next[m]
      BY <2>2 DEF Lists
    <2> HIDE DEF r
    <2> QED BY <2>1, <2>2, <2>3
  <1> QED BY <1>1, <1>2

\* The same for the other link.
LEMMA SetPrev ==
    ASSUME List!NodesAssumption, NEW l \in Lists, NEW n \in OrNil, NEW to \in OrNil
    PROVE  LET r == List!SetLink(l, "prev", n, to) IN
           /\ r \in Lists
           /\ r.head = l.head /\ r.tail = l.tail /\ r.size = l.size /\ r.next = l.next
           /\ \A m \in Nodes : r.prev[m] = IF m = n THEN to ELSE l.prev[m]
  <1> DEFINE r == [l EXCEPT !.prev[n] = to]
  <1>1. CASE n = Nil
    BY <1>1 DEF List!SetLink, List!NodesAssumption
  <1>2. CASE n # Nil
    <2>1. List!SetLink(l, "prev", n, to) = r
      BY <1>2 DEF List!SetLink
    <2>2. n \in Nodes /\ r \in Lists
      BY <1>2 DEF OrNil, Lists
    <2>3. /\ r.head = l.head /\ r.tail = l.tail /\ r.size = l.size /\ r.next = l.next
          /\ \A m \in Nodes : r.prev[m] = IF m = n THEN to ELSE l.prev[m]
      BY <2>2 DEF Lists
    <2> HIDE DEF r
    <2> QED BY <2>1, <2>2, <2>3
  <1> QED BY <1>1, <1>2

\* What a place of the row holds: a node of its own inside 1 .. n, null outside.
LEMMA NodesAt ==
    ASSUME List!NodesAssumption, NEW l, NEW n, NEW w, Linked(l, n, w)
    PROVE  /\ n \in Nat
           /\ \A i \in Int : NodeAt(n, w, i) \in OrNil /\ (i \notin 1 .. n => NodeAt(n, w, i) = Nil)
           /\ \A i \in 1 .. n : NodeAt(n, w, i) = w[i] /\ w[i] \in Nodes /\ w[i] # Nil
           /\ \A i, j \in Int : NodeAt(n, w, i) = NodeAt(n, w, j) =>
                 i = j \/ (i \notin 1 .. n /\ j \notin 1 .. n)
  BY DEF Linked, NodeAt, OrNil, List!NodesAssumption

\* A row with an element put in at place k, and one without that at place k.
With(n, w, k, e) == [i \in 1 .. n + 1 |-> IF i < k THEN w[i] ELSE IF i = k THEN e ELSE w[i - 1]]
WithOut(n, w, k) == [i \in 1 .. n - 1 |-> IF i < k THEN w[i] ELSE w[i + 1]]

\* emplace_one before the element at place k, or at end().
LEMMA EmplaceLinks ==
    ASSUME List!NodesAssumption, NEW l, NEW n, NEW w, Linked(l, n, w), NEW k \in 1 .. n + 1,
           NEW e \in Nodes, e \notin RowOf(n, w)
    PROVE  Linked(List!emplace_one(l, NodeAt(n, w, k), e), n + 1, With(n, w, k, e))
  <1> DEFINE P(i) == NodeAt(n, w, i)
             v == With(n, w, k, e)
             r == List!emplace_one(l, P(k), e)
             l1 == [head |-> IF k = 1 THEN e ELSE l.head, tail |-> IF k = n + 1 THEN e ELSE l.tail,
                    size |-> l.size + 1,
                    next |-> [l.next EXCEPT ![e] = P(k)], prev |-> [l.prev EXCEPT ![e] = P(k - 1)]]
  <1>1. /\ n \in Nat /\ k \in Nat /\ k >= 1 /\ k <= n + 1
        /\ \A i \in Int : P(i) \in OrNil /\ (i \notin 1 .. n => P(i) = Nil)
        /\ \A i \in 1 .. n : P(i) = w[i] /\ w[i] \in Nodes /\ w[i] # Nil
        /\ \A i, j \in Int : P(i) = P(j) => i = j \/ (i \notin 1 .. n /\ j \notin 1 .. n)
    BY NodesAt
  <1>2. /\ l \in Lists /\ w \in [1 .. n -> Nodes] /\ \A i, j \in 1 .. n : w[i] = w[j] => i = j
        /\ l.head = P(1) /\ l.tail = P(n) /\ l.size = n
        /\ \A i \in 1 .. n : l.next[w[i]] = P(i + 1) /\ l.prev[w[i]] = P(i - 1)
    BY DEF Linked
  <1>3. e \in OrNil /\ e # Nil /\ \A i \in Int : P(i) # e
    BY <1>1 DEF RowOf, OrNil, List!NodesAssumption
  <1>4. P(k) = Nil <=> k = n + 1
    <2> HIDE DEF P
    <2> QED BY <1>1
  <1>5. (IF P(k) = Nil THEN l.tail ELSE l.prev[P(k)]) = P(k - 1)
    <2>1. CASE k = n + 1
      <3>1. k - 1 = n
        BY <1>1, <2>1
      <3> HIDE DEF P
      <3> QED BY <1>2, <1>4, <2>1, <3>1
    <2>2. CASE k # n + 1
      <3>1. k \in 1 .. n
        BY <1>1, <2>2
      <3> HIDE DEF P
      <3> QED BY <1>1, <1>2, <1>4, <2>2, <3>1
    <2> QED BY <2>1, <2>2
  <1>6. l.head = P(k) <=> k = 1
    <2>1. P(1) = P(k) => 1 = k \/ (1 \notin 1 .. n /\ k \notin 1 .. n)
      BY <1>1
    <2> HIDE DEF P
    <2> QED BY <1>1, <1>2, <2>1
  <1>7. r = List!SetLink(List!SetLink(l1, "next", P(k - 1), e), "prev", P(k), e)
    <2> DEFINE a == [l EXCEPT !.next[e] = P(k), !.prev[e] = P(k - 1), !.size = @ + 1,
                              !.head = IF @ = P(k) THEN e ELSE @,
                              !.tail = IF P(k) = Nil THEN e ELSE @]
    <2>1. r = List!SetLink(List!SetLink(a, "next", P(k - 1), e), "prev", P(k), e)
      BY <1>5 DEF List!emplace_one
    <2>2. a = l1
      <3> HIDE DEF P
      <3>1. DOMAIN a = {"head", "tail", "size", "next", "prev"} /\ a = [f \in DOMAIN a |-> a[f]]
        BY <1>2 DEF Lists
      <3>2. a = [head |-> a.head, tail |-> a.tail, size |-> a.size, next |-> a.next, prev |-> a.prev]
        <4> HIDE DEF a
        <4> QED BY <3>1
      <3>3. /\ a.head = (IF l.head = P(k) THEN e ELSE l.head)
            /\ a.tail = (IF P(k) = Nil THEN e ELSE l.tail) /\ a.size = l.size + 1
            /\ a.next = [l.next EXCEPT ![e] = P(k)] /\ a.prev = [l.prev EXCEPT ![e] = P(k - 1)]
        BY <1>2 DEF Lists
      <3> HIDE DEF a
      <3> QED BY <1>4, <1>6, <3>2, <3>3
    <2> HIDE DEF a, l1, P
    <2> QED BY <2>1, <2>2
  <1>8. l1 \in Lists
    <2>1. P(k) \in OrNil /\ P(k - 1) \in OrNil
      BY <1>1
    <2> HIDE DEF P
    <2> QED BY <1>2, <1>3, <2>1 DEF Lists
  <1>9. /\ r \in Lists /\ r.head = l1.head /\ r.tail = l1.tail /\ r.size = l1.size
        /\ \A m \in Nodes : /\ r.next[m] = IF m = P(k - 1) THEN e ELSE l1.next[m]
                            /\ r.prev[m] = IF m = P(k) THEN e ELSE l1.prev[m]
    <2> DEFINE l2 == List!SetLink(l1, "next", P(k - 1), e)
    <2>1. P(k) \in OrNil /\ P(k - 1) \in OrNil
      BY <1>1
    <2> HIDE DEF P, l1
    <2>2. /\ l2 \in Lists /\ l2.head = l1.head /\ l2.tail = l1.tail /\ l2.size = l1.size
          /\ l2.prev = l1.prev
          /\ \A m \in Nodes : l2.next[m] = IF m = P(k - 1) THEN e ELSE l1.next[m]
      BY <1>3, <1>8, <2>1, SetNext
    <2> DEFINE l3 == List!SetLink(l2, "prev", P(k), e)
    <2>3. r = l3
      BY <1>7
    <2> HIDE DEF l2, r
    <2>4. /\ l3 \in Lists /\ l3.head = l2.head /\ l3.tail = l2.tail /\ l3.size = l2.size
          /\ l3.next = l2.next
          /\ \A m \in Nodes : l3.prev[m] = IF m = P(k) THEN e ELSE l2.prev[m]
      <3>1. l2 \in Lists /\ P(k) \in OrNil /\ e \in OrNil
        BY <1>3, <2>1, <2>2
      <3> HIDE DEF P
      <3> QED BY <3>1, SetPrev
    <2> HIDE DEF l3
    <2> QED BY <2>2, <2>3, <2>4
  <1>10. \A m \in Nodes : /\ l1.next[m] = IF m = e THEN P(k) ELSE l.next[m]
                          /\ l1.prev[m] = IF m = e THEN P(k - 1) ELSE l.prev[m]
    <2> HIDE DEF P
    <2> QED BY <1>2 DEF Lists
  <1>11. \A i \in 0 .. n + 2 : NodeAt(n + 1, v, i) = IF i < k THEN P(i) ELSE IF i = k THEN e ELSE P(i - 1)
    BY <1>1 DEF NodeAt, With
  <1>12. v \in [1 .. n + 1 -> Nodes] /\ n + 1 \in Nat
    <2>1. \A i \in 1 .. n + 1 : (i < k => i \in 1 .. n) /\ (i >= k /\ i # k => i - 1 \in 1 .. n)
      BY <1>1
    <2> QED BY <1>1, <1>2, <2>1 DEF With
  <1>13. ASSUME NEW i \in 1 .. n + 1, NEW j \in 1 .. n + 1, v[i] = v[j] PROVE i = j
    <2> DEFINE at(x) == IF x < k THEN x ELSE IF x = k THEN 0 ELSE x - 1
    <2>1. \A x \in 1 .. n + 1 : /\ x # k => at(x) \in 1 .. n /\ v[x] = w[at(x)]
                                /\ x = k => v[x] = e
      BY <1>1 DEF With
    <2>2. \A x \in 1 .. n : w[x] # e
      BY DEF RowOf
    <2>3. i # k /\ j # k => at(i) # at(j) \/ i = j
      BY <1>1
    <2> HIDE DEF at, v
    <2> QED BY <1>2, <1>13, <2>1, <2>2, <2>3
  <1>14. r.head = NodeAt(n + 1, v, 1) /\ r.tail = NodeAt(n + 1, v, n + 1) /\ r.size = n + 1
    <2>1. /\ NodeAt(n + 1, v, 1) = IF 1 < k THEN P(1) ELSE IF 1 = k THEN e ELSE P(1 - 1)
          /\ NodeAt(n + 1, v, n + 1) = IF n + 1 < k THEN P(n + 1) ELSE IF n + 1 = k THEN e ELSE P((n + 1) - 1)
      BY <1>1, <1>11
    <2>2. r.head = (IF k = 1 THEN e ELSE l.head) /\ r.tail = (IF k = n + 1 THEN e ELSE l.tail)
          /\ r.size = l.size + 1
      BY <1>9
    <2>3. (n + 1) - 1 = n
      BY <1>1
    <2> HIDE DEF P, r, v
    <2> QED BY <1>1, <1>2, <2>1, <2>2, <2>3
  <1>15. ASSUME NEW i \in 1 .. n + 1
         PROVE  r.next[v[i]] = NodeAt(n + 1, v, i + 1) /\ r.prev[v[i]] = NodeAt(n + 1, v, i - 1)
    <2>1. /\ NodeAt(n + 1, v, i + 1) = IF i + 1 < k THEN P(i + 1) ELSE IF i + 1 = k THEN e ELSE P((i + 1) - 1)
          /\ NodeAt(n + 1, v, i - 1) = IF i - 1 < k THEN P(i - 1) ELSE IF i - 1 = k THEN e ELSE P((i - 1) - 1)
          /\ (i + 1) - 1 = i
      <3>1. i + 1 \in 0 .. n + 2 /\ i - 1 \in 0 .. n + 2
        BY <1>1
      <3> HIDE DEF P, v
      <3> QED BY <1>11, <3>1
    <2> HIDE DEF P, r, l1
    <2>2. CASE i < k
      <3>1. v[i] = P(i) /\ P(i) = w[i] /\ i \in 1 .. n /\ w[i] \in Nodes
        BY <1>1, <2>2 DEF With
      <3>2. w[i] # e /\ w[i] # P(k) /\ (w[i] = P(k - 1) <=> i = k - 1)
        BY <1>1, <1>3, <2>2, <3>1
      <3> HIDE DEF v
      <3>3. r.prev[v[i]] = P(i - 1)
        BY <1>2, <1>9, <1>10, <3>1, <3>2
      <3>4. r.next[v[i]] = IF i = k - 1 THEN e ELSE P(i + 1)
        BY <1>2, <1>9, <1>10, <3>1, <3>2
      <3> QED BY <1>1, <2>1, <2>2, <3>3, <3>4
    <2>3. CASE i = k
      <3>1. v[i] = e
        BY <2>3 DEF With
      <3>2. e # P(k - 1) /\ e # P(k)
        BY <1>1, <1>3
      <3> HIDE DEF v
      <3>3. r.next[v[i]] = P(k) /\ r.prev[v[i]] = P(k - 1)
        BY <1>9, <1>10, <3>1, <3>2
      <3> QED BY <1>1, <2>1, <2>3, <3>3
    <2>4. CASE i > k
      <3>1. v[i] = P(i - 1) /\ P(i - 1) = w[i - 1] /\ i - 1 \in 1 .. n /\ w[i - 1] \in Nodes
        BY <1>1, <2>4 DEF With
      <3>2. w[i - 1] # e /\ w[i - 1] # P(k - 1) /\ (w[i - 1] = P(k) <=> i - 1 = k)
        BY <1>1, <1>3, <2>4, <3>1
      <3> HIDE DEF v
      <3>3. r.next[v[i]] = P((i - 1) + 1) /\ (i - 1) + 1 = i
        BY <1>2, <1>9, <1>10, <3>1, <3>2
      <3>4. r.prev[v[i]] = IF i - 1 = k THEN e ELSE P((i - 1) - 1)
        BY <1>2, <1>9, <1>10, <3>1, <3>2
      <3> QED BY <1>1, <2>1, <2>4, <3>3, <3>4
    <2> QED BY <1>1, <2>2, <2>3, <2>4
  <1> QED
    <2> HIDE DEF r, v
    <2>1. Linked(r, n + 1, v)
      BY <1>9, <1>12, <1>13, <1>14, <1>15 DEF Linked
    <2> QED BY <2>1 DEF r, v

\* pop_one of the element at place k.
LEMMA PopLinks ==
    ASSUME List!NodesAssumption, NEW l, NEW n, NEW w, Linked(l, n, w), NEW k \in 1 .. n
    PROVE  Linked(List!pop_one(l, w[k]), n - 1, WithOut(n, w, k))
  <1> DEFINE P(i) == NodeAt(n, w, i)
             v == WithOut(n, w, k)
             r == List!pop_one(l, w[k])
             l1 == [head |-> IF k = 1 THEN P(k + 1) ELSE l.head, tail |-> IF k = n THEN P(k - 1) ELSE l.tail,
                    size |-> l.size - 1,
                    next |-> [l.next EXCEPT ![w[k]] = Nil], prev |-> [l.prev EXCEPT ![w[k]] = Nil]]
  <1>1. /\ n \in Nat /\ k \in Nat /\ k >= 1 /\ k <= n
        /\ \A i \in Int : P(i) \in OrNil /\ (i \notin 1 .. n => P(i) = Nil)
        /\ \A i \in 1 .. n : P(i) = w[i] /\ w[i] \in Nodes /\ w[i] # Nil
        /\ \A i, j \in Int : P(i) = P(j) => i = j \/ (i \notin 1 .. n /\ j \notin 1 .. n)
    BY NodesAt
  <1>2. /\ l \in Lists /\ w \in [1 .. n -> Nodes] /\ \A i, j \in 1 .. n : w[i] = w[j] => i = j
        /\ l.head = P(1) /\ l.tail = P(n) /\ l.size = n
        /\ \A i \in 1 .. n : l.next[w[i]] = P(i + 1) /\ l.prev[w[i]] = P(i - 1)
    BY DEF Linked
  <1>3. P(k) = w[k] /\ w[k] \in Nodes /\ l.next[w[k]] = P(k + 1) /\ l.prev[w[k]] = P(k - 1)
    BY <1>1, <1>2
  <1>4. (l.head = w[k] <=> k = 1) /\ (l.tail = w[k] <=> k = n)
    <2>1. /\ P(1) = P(k) => 1 = k \/ (1 \notin 1 .. n /\ k \notin 1 .. n)
          /\ P(n) = P(k) => n = k \/ (n \notin 1 .. n /\ k \notin 1 .. n)
      BY <1>1
    <2> HIDE DEF P
    <2> QED BY <1>1, <1>2, <1>3, <2>1
  <1>5. P(k + 1) \in OrNil /\ P(k - 1) \in OrNil /\ Nil \in OrNil
    BY <1>1 DEF OrNil
  <1>6. r = List!SetLink(List!SetLink(l1, "next", P(k - 1), P(k + 1)), "prev", P(k + 1), P(k - 1))
    <2> DEFINE a == [l EXCEPT !.head = IF @ = w[k] THEN P(k + 1) ELSE @,
                              !.tail = IF @ = w[k] THEN P(k - 1) ELSE @, !.size = @ - 1,
                              !.next[w[k]] = Nil, !.prev[w[k]] = Nil]
    <2>1. r = List!SetLink(List!SetLink(a, "next", P(k - 1), P(k + 1)), "prev", P(k + 1), P(k - 1))
      BY <1>3 DEF List!pop_one
    <2>2. a = l1
      <3> HIDE DEF P
      <3>1. DOMAIN a = {"head", "tail", "size", "next", "prev"} /\ a = [f \in DOMAIN a |-> a[f]]
        BY <1>2 DEF Lists
      <3>2. a = [head |-> a.head, tail |-> a.tail, size |-> a.size, next |-> a.next, prev |-> a.prev]
        <4> HIDE DEF a
        <4> QED BY <3>1
      <3>3. /\ a.head = (IF l.head = w[k] THEN P(k + 1) ELSE l.head)
            /\ a.tail = (IF l.tail = w[k] THEN P(k - 1) ELSE l.tail) /\ a.size = l.size - 1
            /\ a.next = [l.next EXCEPT ![w[k]] = Nil] /\ a.prev = [l.prev EXCEPT ![w[k]] = Nil]
        BY <1>2 DEF Lists
      <3> HIDE DEF a
      <3> QED BY <1>4, <3>2, <3>3
    <2> HIDE DEF a, l1, P
    <2> QED BY <2>1, <2>2
  <1>7. l1 \in Lists
    <2> HIDE DEF P
    <2> QED BY <1>2, <1>3, <1>5 DEF Lists
  <1>8. /\ r \in Lists /\ r.head = l1.head /\ r.tail = l1.tail /\ r.size = l1.size
        /\ \A m \in Nodes : /\ r.next[m] = IF m = P(k - 1) THEN P(k + 1) ELSE l1.next[m]
                            /\ r.prev[m] = IF m = P(k + 1) THEN P(k - 1) ELSE l1.prev[m]
    <2> DEFINE l2 == List!SetLink(l1, "next", P(k - 1), P(k + 1))
    <2> HIDE DEF P, l1
    <2>1. /\ l2 \in Lists /\ l2.head = l1.head /\ l2.tail = l1.tail /\ l2.size = l1.size
          /\ l2.prev = l1.prev
          /\ \A m \in Nodes : l2.next[m] = IF m = P(k - 1) THEN P(k + 1) ELSE l1.next[m]
      BY <1>5, <1>7, SetNext
    <2> DEFINE l3 == List!SetLink(l2, "prev", P(k + 1), P(k - 1))
    <2>2. r = l3
      BY <1>6
    <2> HIDE DEF l2, r
    <2>3. /\ l3 \in Lists /\ l3.head = l2.head /\ l3.tail = l2.tail /\ l3.size = l2.size
          /\ l3.next = l2.next
          /\ \A m \in Nodes : l3.prev[m] = IF m = P(k + 1) THEN P(k - 1) ELSE l2.prev[m]
      <3>1. l2 \in Lists
        BY <2>1
      <3> HIDE DEF P
      <3> QED BY <1>5, <3>1, SetPrev
    <2> HIDE DEF l3
    <2> QED BY <2>1, <2>2, <2>3
  <1>9. \A m \in Nodes : m # w[k] => l1.next[m] = l.next[m] /\ l1.prev[m] = l.prev[m]
    <2> HIDE DEF P
    <2> QED BY <1>2 DEF Lists
  <1>10. \A i \in 0 .. n : NodeAt(n - 1, v, i) = IF i < k THEN P(i) ELSE P(i + 1)
    BY <1>1 DEF NodeAt, WithOut
  <1>11. v \in [1 .. n - 1 -> Nodes] /\ n - 1 \in Nat
    BY <1>1, <1>2 DEF WithOut
  <1>12. ASSUME NEW i \in 1 .. n - 1, NEW j \in 1 .. n - 1, v[i] = v[j] PROVE i = j
    <2>1. /\ i \in 1 .. n /\ i + 1 \in 1 .. n /\ j \in 1 .. n /\ j + 1 \in 1 .. n
      BY <1>1
    <2>2. v[i] = (IF i < k THEN w[i] ELSE w[i + 1]) /\ v[j] = (IF j < k THEN w[j] ELSE w[j + 1])
      BY DEF WithOut
    <2> HIDE DEF v
    <2> DEFINE a == IF i < k THEN i ELSE i + 1
               b == IF j < k THEN j ELSE j + 1
    <2>3. a \in 1 .. n /\ b \in 1 .. n /\ w[a] = v[i] /\ w[b] = v[j]
      BY <2>1, <2>2
    <2>4. a = b => i = j
      BY <1>1
    <2> HIDE DEF a, b
    <2>5. a = b
      BY <1>2, <1>12, <2>3
    <2> QED BY <2>4, <2>5
  <1>13. r.head = NodeAt(n - 1, v, 1) /\ r.tail = NodeAt(n - 1, v, n - 1) /\ r.size = n - 1
    <2>1. /\ NodeAt(n - 1, v, 1) = IF 1 < k THEN P(1) ELSE P(1 + 1)
          /\ NodeAt(n - 1, v, n - 1) = IF n - 1 < k THEN P(n - 1) ELSE P((n - 1) + 1)
      BY <1>1, <1>10
    <2>2. r.head = (IF k = 1 THEN P(k + 1) ELSE l.head) /\ r.tail = (IF k = n THEN P(k - 1) ELSE l.tail)
          /\ r.size = l.size - 1
      BY <1>8
    <2>3. (n - 1) + 1 = n
      BY <1>1
    <2> HIDE DEF P, r, v
    <2> QED BY <1>1, <1>2, <2>1, <2>2, <2>3
  <1>14. ASSUME NEW i \in 1 .. n - 1
         PROVE  r.next[v[i]] = NodeAt(n - 1, v, i + 1) /\ r.prev[v[i]] = NodeAt(n - 1, v, i - 1)
    <2>1. /\ NodeAt(n - 1, v, i + 1) = IF i + 1 < k THEN P(i + 1) ELSE P((i + 1) + 1)
          /\ NodeAt(n - 1, v, i - 1) = IF i - 1 < k THEN P(i - 1) ELSE P((i - 1) + 1)
      <3>1. i + 1 \in 0 .. n /\ i - 1 \in 0 .. n
        BY <1>1
      <3> HIDE DEF P, v
      <3> QED BY <1>10, <3>1
    <2> HIDE DEF P, r, l1
    <2>2. CASE i < k
      <3>1. v[i] = P(i) /\ P(i) = w[i] /\ i \in 1 .. n /\ w[i] \in Nodes
        BY <1>1, <2>2 DEF WithOut
      <3>2. w[i] # w[k] /\ w[i] # P(k + 1) /\ (w[i] = P(k - 1) <=> i = k - 1)
        BY <1>1, <1>3, <2>2, <3>1
      <3> HIDE DEF v
      <3>3. r.prev[v[i]] = P(i - 1)
        BY <1>2, <1>8, <1>9, <3>1, <3>2
      <3>4. r.next[v[i]] = IF i = k - 1 THEN P(k + 1) ELSE P(i + 1)
        BY <1>2, <1>8, <1>9, <3>1, <3>2
      <3> QED BY <1>1, <2>1, <2>2, <3>3, <3>4
    <2>3. CASE i >= k
      <3>1. v[i] = P(i + 1) /\ P(i + 1) = w[i + 1] /\ i + 1 \in 1 .. n /\ w[i + 1] \in Nodes
        BY <1>1, <2>3 DEF WithOut
      <3>2. w[i + 1] # w[k] /\ w[i + 1] # P(k - 1) /\ (w[i + 1] = P(k + 1) <=> i = k)
        BY <1>1, <1>3, <2>3, <3>1
      <3> HIDE DEF v
      <3>3. r.next[v[i]] = P((i + 1) + 1)
        BY <1>2, <1>8, <1>9, <3>1, <3>2
      <3>4. r.prev[v[i]] = IF i = k THEN P(k - 1) ELSE P((i + 1) - 1)
        BY <1>2, <1>8, <1>9, <3>1, <3>2
      <3>5. (i + 1) - 1 = i /\ (i - 1) + 1 = i
        BY <1>1
      <3> QED BY <1>1, <2>1, <2>3, <3>3, <3>4, <3>5
    <2> QED BY <1>1, <2>2, <2>3
  <1> QED
    <2> HIDE DEF r, v
    <2>1. Linked(r, n - 1, v)
      BY <1>8, <1>11, <1>12, <1>13, <1>14 DEF Linked
    <2> QED BY <2>1 DEF r, v

\* A row of different nodes is no longer than there are nodes.
LEMMA RowFitsNodes ==
    ASSUME IsFiniteSet(Nodes), NEW n \in Nat, NEW u \in [1 .. n -> Nodes],
           \A i, j \in 1 .. n : u[i] = u[j] => i = j
    PROVE  n <= Cardinality(Nodes) /\ Cardinality(Nodes) \in Nat
  <1>1. u \in Injection(1 .. n, Nodes)
    BY DEF Injection, IsInjective
  <1>2. IsFiniteSet(1 .. n) /\ Cardinality(1 .. n) = n
    BY FS_Interval
  <1>3. Cardinality(1 .. n) <= Cardinality(Nodes)
    BY <1>1, <1>2, FS_Injection
  <1>4. Cardinality(Nodes) \in Nat
    BY FS_CardinalityType
  <1> QED BY <1>2, <1>3, <1>4

\* Repeating operator++, or --, meets the nodes of the row one by one.
LEMMA StepsMeetRow ==
    ASSUME List!NodesAssumption, NEW link \in [Nodes -> OrNil], NEW first \in OrNil,
           NEW n \in Nat, NEW u \in [1 .. n -> Nodes], \A i, j \in 1 .. n : u[i] = u[j] => i = j,
           first = NodeAt(n, u, 1), \A i \in 1 .. n : link[u[i]] = NodeAt(n, u, i + 1)
    PROVE  List!Walk(first, link) = u
  <1> DEFINE N == List!Cardinality(Nodes)
             Body(f) == [i \in 0 .. List!Cardinality(Nodes) |->
                            IF i = 0 THEN first ELSE IF f[i - 1] = Nil THEN Nil ELSE link[f[i - 1]]]
             step == CHOOSE f : f = Body(f)
             ends == {i \in DOMAIN step : step[i] = Nil} \cup {N + 1}
             After == [x \in OrNil |-> IF x = Nil THEN Nil ELSE link[x]]
             F == [i \in 1 .. N |-> After]
  <1>1. List!Walk(first, link) = [i \in 1 .. (CHOOSE j \in ends : \A k \in ends : j <= k) |-> step[i - 1]]
    BY Zenon DEF List!Walk
  <1>2. IsFiniteSet(Nodes) /\ Nil \notin Nodes /\ OrNil = Nodes \cup {Nil}
    BY ListFinite DEF List!NodesAssumption, OrNil
  <1>3. N \in Nat /\ n <= N
    <2>1. n <= Cardinality(Nodes) /\ Cardinality(Nodes) \in Nat
      BY <1>2, RowFitsNodes
    <2>2. List!Cardinality(Nodes) = Cardinality(Nodes)
      BY ListCardinality, Zenon
    <2> QED BY <2>1, <2>2
  <1>4. After \in [OrNil -> OrNil] /\ \A x \in OrNil : After[x] = IF x = Nil THEN Nil ELSE link[x]
    BY <1>2
  <1>5. PICK g : g \in [0 .. N -> OrNil] /\ g[0] = first /\ \A i \in 1 .. N : g[i] = F[i][g[i - 1]]
    <2>1. \A i \in 1 .. N : F[i] \in [OrNil -> OrNil]
      <3> HIDE DEF N, After
      <3> QED BY <1>4
    <2> HIDE DEF F, N
    <2>2. \E g : Computes(OrNil, N, first, F, g)
      BY <1>3, <2>1, Recursion, Zenon
    <2> QED BY <2>2 DEF Computes
  <1>6. /\ \A i \in 1 .. N : i - 1 \in 0 .. N /\ i \in 0 .. N /\ i # 0
        /\ \A i \in 0 .. N : i = 0 \/ i \in 1 .. N
        /\ 0 \in 0 .. N
    <2> HIDE DEF N
    <2> QED BY <1>3
  <1>7. \A i \in 1 .. N : F[i] = After
    BY Zenon
  <1>8. g = Body(g)
    <2>1. \A i \in 1 .. N : g[i] = IF g[i - 1] = Nil THEN Nil ELSE link[g[i - 1]]
      <3> HIDE DEF F, N, After
      <3> QED BY <1>4, <1>5, <1>6, <1>7
    <2>2. DOMAIN g = 0 .. N /\ g = [i \in 0 .. N |-> g[i]]
      <3> HIDE DEF F, N
      <3> QED BY <1>5
    <2>3. Body(g) = [i \in 0 .. N |-> IF i = 0 THEN first ELSE IF g[i - 1] = Nil THEN Nil ELSE link[g[i - 1]]]
      BY Zenon
    <2> HIDE DEF F, N, Body
    <2>4. \A i \in 0 .. N : g[i] = IF i = 0 THEN first ELSE IF g[i - 1] = Nil THEN Nil ELSE link[g[i - 1]]
      BY <1>5, <1>6, <2>1
    <2>5. [i \in 0 .. N |-> g[i]]
          = [i \in 0 .. N |-> IF i = 0 THEN first ELSE IF g[i - 1] = Nil THEN Nil ELSE link[g[i - 1]]]
      BY <2>4
    <2> QED BY <2>2, <2>3, <2>5, Zenon
  <1>9. step = Body(step)
    <2> HIDE DEF Body
    <2> QED BY <1>8
  <1>10. /\ DOMAIN step = 0 .. N /\ step[0] = first
         /\ \A i \in 1 .. N : step[i] = IF step[i - 1] = Nil THEN Nil ELSE link[step[i - 1]]
    <2>1. DOMAIN step = 0 .. N
      <3> HIDE DEF step
      <3> QED BY <1>9, Zenon
    <2>2. \A i \in 0 .. N : step[i] = IF i = 0 THEN first
                                      ELSE IF step[i - 1] = Nil THEN Nil ELSE link[step[i - 1]]
      <3> HIDE DEF step
      <3> QED BY <1>9, Zenon
    <2> HIDE DEF step, N
    <2> QED BY <1>6, <2>1, <2>2, Zenon
  <1> HIDE DEF step, N, F, After
  <1> DEFINE S == {i \in 0 .. n : step[i] = NodeAt(n, u, i + 1)}
  <1>11. S = 0 .. n
    <2>1. 0 \in S
      BY <1>10
    <2>2. ASSUME NEW i \in 1 .. n, i - 1 \in S PROVE i \in S
      <3>1. step[i - 1] = NodeAt(n, u, i)
        BY <2>2
      <3>2. NodeAt(n, u, i) = u[i] /\ u[i] # Nil /\ i \in 1 .. N
        BY <1>2, <1>3 DEF NodeAt
      <3>3. step[i] = NodeAt(n, u, i + 1)
        BY <1>10, <3>1, <3>2
      <3> QED BY <3>3
    <2>3. S \in SUBSET (0 .. n)
      OBVIOUS
    <2> HIDE DEF S
    <2> QED BY <2>1, <2>2, <2>3, AllTheWay
  <1>12. \A i \in 0 .. n : step[i] = NodeAt(n, u, i + 1)
    BY <1>11
  <1>13. n \in ends /\ \A i \in ends : i \in Nat /\ n <= i
    <2>1. step[n] = Nil /\ n \in 0 .. N
      BY <1>3, <1>12 DEF NodeAt
    <2>2. ASSUME NEW i \in 0 .. N, i < n PROVE step[i] # Nil
      <3>1. i \in 0 .. n /\ i + 1 \in 1 .. n
        BY <1>3, <2>2
      <3>2. step[i] = u[i + 1]
        BY <1>12, <3>1 DEF NodeAt
      <3> QED BY <1>2, <3>1, <3>2
    <2>3. \A i \in 0 .. N : i \in Nat
      BY <1>3
    <2>4. N + 1 \in Nat /\ n <= N + 1
      BY <1>3
    <2> QED BY <1>10, <2>1, <2>2, <2>3, <2>4
  <1> DEFINE shortest == CHOOSE j \in ends : \A k \in ends : j <= k
  <1>14. shortest = n
    <2> HIDE DEF ends
    <2>1. n \in ends /\ \A k \in ends : n <= k
      BY <1>13
    <2>2. shortest \in ends /\ \A k \in ends : shortest <= k
      BY <2>1, Zenon
    <2> HIDE DEF shortest
    <2> QED BY <1>13, <2>2
  <1>15. List!Walk(first, link) = [i \in 1 .. n |-> step[i - 1]]
    <2>1. List!Walk(first, link) = [i \in 1 .. shortest |-> step[i - 1]]
      BY <1>1, Zenon
    <2> HIDE DEF shortest
    <2> QED BY <1>14, <2>1, Zenon
  <1>16. \A i \in 1 .. n : step[i - 1] = u[i]
    <2> TAKE i \in 1 .. n
    <2>1. i - 1 \in 0 .. n /\ (i - 1) + 1 = i
      OBVIOUS
    <2> QED BY <1>12, <2>1 DEF NodeAt
  <1>17. u = [i \in 1 .. n |-> u[i]]
    OBVIOUS
  <1>18. [i \in 1 .. n |-> step[i - 1]] = [i \in 1 .. n |-> u[i]]
    BY <1>16
  <1> QED BY <1>15, <1>17, <1>18, Zenon

\* Reading the list in either direction.
LEMMA BothDirections ==
    ASSUME List!NodesAssumption, NEW l, NEW n, NEW w, Linked(l, n, w)
    PROVE  /\ List!Walk(l.head, l.next) = w
           /\ List!Reverse(List!Walk(l.tail, l.prev)) = w
           /\ Len(w) = n /\ DOMAIN w = 1 .. n
  <1> DEFINE u == [i \in 1 .. n |-> w[(n - i) + 1]]
  <1>1. /\ n \in Nat /\ w \in [1 .. n -> Nodes] /\ \A i, j \in 1 .. n : w[i] = w[j] => i = j
        /\ l.next \in [Nodes -> OrNil] /\ l.prev \in [Nodes -> OrNil] /\ l.head \in OrNil /\ l.tail \in OrNil
        /\ l.head = NodeAt(n, w, 1) /\ l.tail = NodeAt(n, w, n)
        /\ \A i \in 1 .. n : l.next[w[i]] = NodeAt(n, w, i + 1) /\ l.prev[w[i]] = NodeAt(n, w, i - 1)
    BY DEF Linked, Lists
  <1>2. List!Walk(l.head, l.next) = w
    <2> DEFINE first == l.head
               link == l.next
    <2>1. /\ n \in Nat /\ w \in [1 .. n -> Nodes] /\ \A i, j \in 1 .. n : w[i] = w[j] => i = j
          /\ link \in [Nodes -> OrNil] /\ first \in OrNil /\ first = NodeAt(n, w, 1)
      BY <1>1
    <2>2. \A i \in 1 .. n : link[w[i]] = NodeAt(n, w, i + 1)
      BY <1>1
    <2> HIDE DEF first, link
    <2>3. List!Walk(first, link) = w
      BY <2>1, <2>2, StepsMeetRow
    <2> QED BY <2>3 DEF first, link
  <1>3. u \in [1 .. n -> Nodes] /\ \A i, j \in 1 .. n : u[i] = u[j] => i = j
    <2>1. \A i \in 1 .. n : (n - i) + 1 \in 1 .. n
      BY <1>1
    <2>2. \A i \in 1 .. n, j \in 1 .. n : (n - i) + 1 = (n - j) + 1 => i = j
      BY <1>1
    <2>3. u \in [1 .. n -> Nodes]
      BY <1>1, <2>1
    <2>4. ASSUME NEW i \in 1 .. n, NEW j \in 1 .. n, u[i] = u[j] PROVE i = j
      <3>1. w[(n - i) + 1] = w[(n - j) + 1]
        BY <2>4
      <3> HIDE DEF u
      <3> QED BY <1>1, <2>1, <2>2, <3>1
    <2> HIDE DEF u
    <2> QED BY <2>3, <2>4
  <1>4. \A i \in 0 .. n : NodeAt(n, u, i + 1) = NodeAt(n, w, n - i)
    <2> TAKE i \in 0 .. n
    <2>1. CASE i = n
      BY <1>1, <2>1 DEF NodeAt
    <2>2. CASE i # n
      <3>1. i + 1 \in 1 .. n /\ n - i \in 1 .. n /\ (n - (i + 1)) + 1 = n - i
        BY <1>1, <2>2
      <3> QED BY <3>1 DEF NodeAt
    <2> QED BY <2>1, <2>2
  <1>5. List!Walk(l.tail, l.prev) = u
    <2>1. l.tail = NodeAt(n, u, 1)
      <3>1. 0 \in 0 .. n /\ 0 + 1 = 1 /\ n - 0 = n
        BY <1>1
      <3> HIDE DEF u
      <3> QED BY <1>1, <1>4, <3>1
    <2>2. ASSUME NEW i \in 1 .. n PROVE l.prev[u[i]] = NodeAt(n, u, i + 1)
      <3>1. /\ i \in 0 .. n /\ (n - i) + 1 \in 1 .. n /\ ((n - i) + 1) - 1 = n - i
            /\ u[i] = w[(n - i) + 1]
        BY <1>1
      <3> HIDE DEF u
      <3> QED BY <1>1, <1>4, <3>1
    <2> HIDE DEF u
    <2>3. l.prev \in [Nodes -> OrNil] /\ l.tail \in OrNil /\ n \in Nat
      BY <1>1
    <2> DEFINE first == l.tail
               link == l.prev
    <2>4. /\ link \in [Nodes -> OrNil] /\ first \in OrNil /\ first = NodeAt(n, u, 1)
          /\ \A i \in 1 .. n : link[u[i]] = NodeAt(n, u, i + 1)
      BY <2>1, <2>2, <2>3
    <2>5. List!Walk(first, link) = u
      <3> HIDE DEF first, link
      <3> QED BY <1>3, <2>3, <2>4, StepsMeetRow
    <2> QED BY <2>5
  <1>6. DOMAIN w = 1 .. n /\ Len(w) = n /\ Len(u) = n /\ DOMAIN u = 1 .. n
    BY <1>1, <1>3
  <1>7. List!Reverse(u) = w
    <2>1. \A i \in 1 .. n : (n - i) + 1 \in 1 .. n /\ (n - ((n - i) + 1)) + 1 = i
      BY <1>1
    <2>2. \A i \in 1 .. n : u[(n - i) + 1] = w[i]
      BY <2>1
    <2>3. List!Reverse(u) = [i \in 1 .. n |-> u[(n - i) + 1]]
      <3> HIDE DEF u
      <3> QED BY <1>6, Zenon DEF List!Reverse
    <2>4. w = [i \in 1 .. n |-> w[i]]
      BY <1>1
    <2> HIDE DEF u
    <2> QED BY <2>2, <2>3, <2>4
  <1> QED
    <2> HIDE DEF u
    <2> QED BY <1>2, <1>5, <1>6, <1>7


\* A row without the d elements from place k on.
Cut(n, w, k, d) == [i \in 1 .. n - d |-> IF i < k THEN w[i] ELSE w[i + d]]

\* pop_some: after d turns of the loop, the d elements from place k on are out.
LEMMA PopsInTurn ==
    ASSUME List!NodesAssumption, NEW l, NEW n, NEW w, Linked(l, n, w), NEW k \in 1 .. n,
           NEW m \in Nat, k + m <= n + 1, NEW h, h[0] = l,
           \A i \in 1 .. m : LET popped == List!pop_one(h[i - 1], w[k + i - 1]) IN
                             popped \in Lists => h[i] = popped
    PROVE  \A i \in 0 .. m : Linked(h[i], n - i, Cut(n, w, k, i))
  <1> DEFINE S == {i \in 0 .. m : Linked(h[i], n - i, Cut(n, w, k, i))}
  <1>1. n \in Nat /\ w \in [1 .. n -> Nodes]
    BY DEF Linked
  <1>2. 0 \in S
    <2>1. w = [i \in 1 .. n |-> w[i]]
      BY <1>1
    <2>2. Cut(n, w, k, 0) = [i \in 1 .. n |-> w[i]]
      <3>1. \A i \in 1 .. n : i + 0 = i
        BY <1>1
      <3>2. n - 0 = n
        BY <1>1
      <3> QED BY <3>1, <3>2 DEF Cut
    <2>3. Cut(n, w, k, 0) = w /\ n - 0 = n
      BY <1>1, <2>1, <2>2
    <2> QED BY <2>3
  <1>3. ASSUME NEW i \in 1 .. m, i - 1 \in S PROVE i \in S
    <2> DEFINE before == Cut(n, w, k, i - 1)
    <2>1. Linked(h[i - 1], n - (i - 1), before)
      BY <1>3
    <2>2. k \in 1 .. n - (i - 1) /\ before[k] = w[k + i - 1]
      <3>1. k \in 1 .. n - (i - 1) /\ k + (i - 1) = k + i - 1
        BY <1>1
      <3> QED BY <3>1 DEF Cut
    <2>3. WithOut(n - (i - 1), before, k) = Cut(n, w, k, i)
      <3>1. (n - (i - 1)) - 1 = n - i
        BY <1>1
      <3>2. \A j \in 1 .. n - i : /\ j \in 1 .. n - (i - 1) /\ j + 1 \in 1 .. n - (i - 1)
                                  /\ ~(j < k) => ~(j + 1 < k) /\ (j + 1) + (i - 1) = j + i
        BY <1>1
      <3>3. \A j \in 1 .. n - i : (IF j < k THEN before[j] ELSE before[j + 1])
                                  = (IF j < k THEN w[j] ELSE w[j + i])
        BY <3>2 DEF Cut
      <3> HIDE DEF before
      <3> QED BY <3>1, <3>3 DEF WithOut, Cut
    <2> HIDE DEF before
    <2>4. Linked(List!pop_one(h[i - 1], before[k]), (n - (i - 1)) - 1, WithOut(n - (i - 1), before, k))
      BY <2>1, <2>2, PopLinks
    <2>5. (n - (i - 1)) - 1 = n - i
      BY <1>1
    <2>6. List!pop_one(h[i - 1], before[k]) \in Lists
      BY <2>4 DEF Linked
    <2>7. h[i] = List!pop_one(h[i - 1], before[k])
      BY <2>2, <2>6
    <2> QED BY <2>3, <2>4, <2>5, <2>7
  <1>4. S \in SUBSET (0 .. m)
    OBVIOUS
  <1>5. S = 0 .. m
    <2> HIDE DEF S
    <2> QED BY <1>2, <1>3, <1>4, AllTheWay
  <1> QED BY <1>5

\* A row, as a sequence.
LEMMA RowIsSeq ==
    ASSUME NEW S, NEW n \in Nat, NEW w \in [1 .. n -> S]
    PROVE  w \in Seq(S) /\ Len(w) = n /\ DOMAIN w = 1 .. n
  BY SeqDef

\* InsertAt of the abstract list is the row With describes.
LEMMA InsertedIsWith ==
    ASSUME NEW n \in Nat, NEW w \in [1 .. n -> Nodes], NEW k \in 1 .. n + 1, NEW e \in Nodes
    PROVE  List!SeqList!InsertAt(w, k, e) = With(n, w, k, e)
  <1> DEFINE a == SubSeq(w, 1, k - 1)
             b == SubSeq(w, k, Len(w))
             v == With(n, w, k, e)
  <1>1. w \in Seq(Nodes) /\ Len(w) = n
    BY RowIsSeq
  <1>2. /\ a \in Seq(Nodes) /\ Len(a) = k - 1 /\ \A i \in 1 .. k - 1 : a[i] = w[i]
    <2>1. \A i \in 1 .. k - 1 : w[i] \in Nodes
      OBVIOUS
    <2>2. /\ a \in Seq(Nodes) /\ Len(a) = IF 1 <= k - 1 THEN (k - 1) - 1 + 1 ELSE 0
          /\ \A i \in 1 .. (k - 1) - 1 + 1 : a[i] = w[1 + i - 1]
      BY <2>1, SubSeqProperties
    <2> HIDE DEF a
    <2> QED BY <2>2
  <1>3. /\ b \in Seq(Nodes) /\ Len(b) = (n - k) + 1 /\ \A i \in 1 .. (n - k) + 1 : b[i] = w[(k + i) - 1]
    <2>1. \A i \in k .. n : w[i] \in Nodes
      OBVIOUS
    <2>2. /\ b \in Seq(Nodes) /\ Len(b) = IF k <= n THEN n - k + 1 ELSE 0
          /\ \A i \in 1 .. n - k + 1 : b[i] = w[k + i - 1]
      BY <1>1, <2>1, SubSeqProperties
    <2> HIDE DEF b
    <2> QED BY <2>2
  <1>4. List!SeqList!InsertAt(w, k, e) = (a \o <<e>>) \o b
    BY Zenon DEF List!SeqList!InsertAt
  <1>5. v \in Seq(Nodes) /\ Len(v) = n + 1
    <2>1. \A i \in 1 .. n + 1 : (i < k => i \in 1 .. n) /\ (i >= k /\ i # k => i - 1 \in 1 .. n)
      OBVIOUS
    <2>2. v \in [1 .. n + 1 -> Nodes]
      BY <2>1 DEF With
    <2> HIDE DEF v
    <2> QED BY <2>2, RowIsSeq
  <1>6. <<e>> \in Seq(Nodes) /\ Len(<<e>>) = 1 /\ <<e>>[1] = e
    OBVIOUS
  <1> DEFINE c == a \o <<e>>
  <1>7. c \in Seq(Nodes) /\ Len(c) = k /\ \A i \in 1 .. k : c[i] = IF i < k THEN w[i] ELSE e
    <2> HIDE DEF a
    <2> DEFINE one == <<e>>
    <2>1. one \in Seq(Nodes) /\ Len(one) = 1 /\ one[1] = e
      BY <1>6
    <2> HIDE DEF one
    <2>2. /\ a \o one \in Seq(Nodes) /\ Len(a \o one) = Len(a) + Len(one)
          /\ \A i \in 1 .. Len(a) + Len(one) : (a \o one)[i] = IF i <= Len(a) THEN a[i] ELSE one[i - Len(a)]
      BY <1>2, <2>1, ConcatProperties
    <2>3. \A i \in 1 .. k : (a \o one)[i] = IF i < k THEN w[i] ELSE e
      <3> TAKE i \in 1 .. k
      <3>1. i <= Len(a) <=> i < k
        BY <1>2
      <3>2. i = k => i - Len(a) = 1
        BY <1>2
      <3>3. i \in 1 .. Len(a) + Len(one)
        BY <1>2, <2>1
      <3> QED BY <1>2, <2>1, <2>2, <3>1, <3>2, <3>3
    <2> QED BY <1>2, <2>1, <2>2, <2>3 DEF one
  <1> HIDE DEF a, b, c
  <1>8. /\ c \o b \in Seq(Nodes) /\ Len(c \o b) = Len(c) + Len(b)
        /\ \A i \in 1 .. Len(c) + Len(b) : (c \o b)[i] = IF i <= Len(c) THEN c[i] ELSE b[i - Len(c)]
    BY <1>3, <1>7, ConcatProperties
  <1>9. Len(c \o b) = n + 1
    BY <1>3, <1>7, <1>8
  <1>10. \A i \in 1 .. n + 1 : (c \o b)[i] = v[i]
    <2> TAKE i \in 1 .. n + 1
    <2>1. v[i] = IF i < k THEN w[i] ELSE IF i = k THEN e ELSE w[i - 1]
      BY DEF With
    <2>2. i \in 1 .. Len(c) + Len(b)
      BY <1>3, <1>7
    <2> HIDE DEF v
    <2>3. CASE i <= k
      <3>1. i <= Len(c) /\ i \in 1 .. k
        BY <1>7, <2>3
      <3>2. (c \o b)[i] = c[i]
        BY <1>8, <2>2, <3>1
      <3> QED BY <1>7, <2>1, <2>3, <3>1, <3>2
    <2>4. CASE i > k
      <3>1. i - k \in 1 .. (n - k) + 1 /\ (k + (i - k)) - 1 = i - 1
        BY <2>4
      <3>2. (c \o b)[i] = b[i - k]
        BY <1>7, <1>8, <2>2, <2>4
      <3>3. b[i - k] = w[(k + (i - k)) - 1]
        BY <1>3, <3>1
      <3>4. ~(i < k) /\ i # k
        BY <2>4
      <3> QED BY <2>1, <3>1, <3>2, <3>3, <3>4
    <2>5. i <= k \/ i > k
      OBVIOUS
    <2> QED BY <2>3, <2>4, <2>5
  <1> HIDE DEF v
  <1>11. c \o b = v
    BY <1>5, <1>8, <1>9, <1>10, SeqEqual
  <1> QED BY <1>4, <1>11 DEF c, v

\* The range Take leaves out is the row Cut describes.
LEMMA TakenIsCut ==
    ASSUME NEW n \in Nat, NEW w \in [1 .. n -> Nodes], NEW k \in 1 .. n, NEW d \in Nat, k + d <= n + 1
    PROVE  SubSeq(w, 1, k - 1) \o SubSeq(w, k + d, Len(w)) = Cut(n, w, k, d)
  <1> DEFINE a == SubSeq(w, 1, k - 1)
             b == SubSeq(w, k + d, Len(w))
             v == Cut(n, w, k, d)
  <1>1. w \in Seq(Nodes) /\ Len(w) = n
    BY RowIsSeq
  <1>2. /\ a \in Seq(Nodes) /\ Len(a) = k - 1 /\ \A i \in 1 .. k - 1 : a[i] = w[i]
    <2>1. \A i \in 1 .. k - 1 : w[i] \in Nodes
      OBVIOUS
    <2>2. /\ a \in Seq(Nodes) /\ Len(a) = IF 1 <= k - 1 THEN (k - 1) - 1 + 1 ELSE 0
          /\ \A i \in 1 .. (k - 1) - 1 + 1 : a[i] = w[1 + i - 1]
      BY <2>1, SubSeqProperties
    <2> HIDE DEF a
    <2> QED BY <2>2
  <1>3. /\ b \in Seq(Nodes) /\ Len(b) = (n - (k + d)) + 1
        /\ \A i \in 1 .. (n - (k + d)) + 1 : b[i] = w[((k + d) + i) - 1]
    <2>1. \A i \in k + d .. n : w[i] \in Nodes
      OBVIOUS
    <2>2. k + d \in Int
      OBVIOUS
    <2>3. /\ b \in Seq(Nodes) /\ Len(b) = IF k + d <= n THEN n - (k + d) + 1 ELSE 0
          /\ \A i \in 1 .. n - (k + d) + 1 : b[i] = w[(k + d) + i - 1]
      BY <1>1, <2>1, <2>2, SubSeqProperties
    <2> HIDE DEF b
    <2> QED BY <2>3
  <1>4. v \in Seq(Nodes) /\ Len(v) = n - d
    <2>1. \A i \in 1 .. n - d : i \in 1 .. n /\ i + d \in 1 .. n
      OBVIOUS
    <2>2. v \in [1 .. n - d -> Nodes] /\ n - d \in Nat
      BY <2>1 DEF Cut
    <2> HIDE DEF v
    <2> QED BY <2>2, RowIsSeq
  <1> HIDE DEF a, b
  <1>5. /\ a \o b \in Seq(Nodes) /\ Len(a \o b) = Len(a) + Len(b)
        /\ \A i \in 1 .. Len(a) + Len(b) : (a \o b)[i] = IF i <= Len(a) THEN a[i] ELSE b[i - Len(a)]
    BY <1>2, <1>3, ConcatProperties
  <1>6. Len(a \o b) = n - d
    BY <1>2, <1>3, <1>5
  <1>7. \A i \in 1 .. n - d : (a \o b)[i] = v[i]
    <2> TAKE i \in 1 .. n - d
    <2>1. v[i] = IF i < k THEN w[i] ELSE w[i + d]
      BY DEF Cut
    <2>2. i \in 1 .. Len(a) + Len(b)
      BY <1>2, <1>3
    <2> HIDE DEF v
    <2>3. CASE i < k
      <3>1. i <= Len(a) /\ i \in 1 .. k - 1
        BY <1>2, <2>3
      <3>2. (a \o b)[i] = a[i]
        BY <1>5, <2>2, <3>1
      <3> QED BY <1>2, <2>1, <2>3, <3>1, <3>2
    <2>4. CASE i >= k
      <3>1. i - (k - 1) \in 1 .. (n - (k + d)) + 1 /\ ((k + d) + (i - (k - 1))) - 1 = i + d
        BY <2>4
      <3>2. (a \o b)[i] = b[i - (k - 1)]
        BY <1>2, <1>5, <2>2, <2>4
      <3>3. b[i - (k - 1)] = w[((k + d) + (i - (k - 1))) - 1]
        BY <1>3, <3>1
      <3>4. ~(i < k)
        BY <2>4
      <3> QED BY <2>1, <3>1, <3>2, <3>3, <3>4
    <2>5. i < k \/ i >= k
      OBVIOUS
    <2> QED BY <2>3, <2>4, <2>5
  <1> HIDE DEF v
  <1>8. a \o b = v
    BY <1>4, <1>5, <1>6, <1>7, SeqEqual
  <1> QED BY <1>8 DEF a, b, v


\* The list is linked as a row of the nodes that are allocated.
ListInv == \E n, w : Linked(list, n, w) /\ RowOf(n, w) = live
RowSeq == IF List!Forwards = List!Backwards THEN List!Forwards ELSE <<Nil, Nil>>

\* Reading the list in both directions gives the row it is linked as.
LEMMA ListIsRow ==
    ASSUME List!NodesAssumption, NEW n, NEW w, Linked(list, n, w) PROVE RowSeq = w
  BY BothDirections DEF RowSeq, List!Forwards, List!Backwards


\* The same after a step.
LEMMA ListIsRowNext ==
    ASSUME List!NodesAssumption, NEW n, NEW w, Linked(list', n, w) PROVE RowSeq' = w
  BY BothDirections DEF RowSeq, List!Forwards, List!Backwards

\* The empty list is the empty row.
LEMMA ListInit == ASSUME List!NodesAssumption, List!Init PROVE ListInv /\ RowSeq = <<>>
  <1> DEFINE w == [i \in 1 .. 0 |-> Nil]
  <1>1. Linked(list, 0, w)
    <2>1. list \in Lists /\ w \in [1 .. 0 -> Nodes]
      BY DEF List!Init, Lists, OrNil
    <2>2. list.head = Nil /\ list.tail = Nil /\ list.size = 0
      BY DEF List!Init
    <2>3. NodeAt(0, w, 1) = Nil /\ NodeAt(0, w, 0) = Nil
      BY DEF NodeAt
    <2> HIDE DEF w
    <2> QED BY <2>1, <2>2, <2>3 DEF Linked
  <1>2. RowOf(0, w) = live
    BY DEF RowOf, List!Init
  <1>3. w = <<>>
    OBVIOUS
  <1>4. RowSeq = w
    <2> HIDE DEF w
    <2> QED BY <1>1, ListIsRow
  <1> HIDE DEF w
  <1> QED BY <1>1, <1>2, <1>3, <1>4 DEF ListInv

\* push_one, push_front and push_back: one element comes in, before any other or last.
LEMMA ListPush ==
    ASSUME List!NodesAssumption, ListInv, NEW e \in Nodes, NEW where \in live \cup {Nil},
           List!Push(e, where)
    PROVE  ListInv' /\ \E x \in Nodes \ List!SeqList!ToSet(RowSeq), i \in 1 .. Len(RowSeq) + 1 :
                          RowSeq' = List!SeqList!InsertAt(RowSeq, i, x)
  <1>1. PICK n, w : Linked(list, n, w) /\ RowOf(n, w) = live
    BY DEF ListInv
  <1>2. n \in Nat /\ w \in [1 .. n -> Nodes]
    BY <1>1 DEF Linked
  <1>3. PICK k \in 1 .. n + 1 : where = NodeAt(n, w, k)
    <2>1. CASE where = Nil
      <3>1. n + 1 \in 1 .. n + 1 /\ where = NodeAt(n, w, n + 1)
        BY <1>2, <2>1 DEF NodeAt
      <3> QED BY <3>1
    <2>2. CASE where # Nil
      <3>1. PICK i \in 1 .. n : where = w[i]
        BY <1>1, <2>2 DEF RowOf
      <3>2. i \in 1 .. n + 1 /\ where = NodeAt(n, w, i)
        BY <1>2, <3>1 DEF NodeAt
      <3> QED BY <3>2
    <2> QED BY <2>1, <2>2
  <1>4. e \notin RowOf(n, w) /\ live' = live \cup {e} /\ list' = List!emplace_one(list, where, e)
    BY <1>1 DEF List!Push
  <1>5. Linked(list', n + 1, With(n, w, k, e))
    BY <1>1, <1>3, <1>4, EmplaceLinks
  <1>6. RowOf(n + 1, With(n, w, k, e)) = live'
    <2> DEFINE v == With(n, w, k, e)
    <2>1. \A i \in 1 .. n + 1 : v[i] = IF i < k THEN w[i] ELSE IF i = k THEN e ELSE w[i - 1]
      BY DEF With
    <2>2. \A i \in 1 .. n + 1 : (i < k => i \in 1 .. n) /\ (i >= k /\ i # k => i - 1 \in 1 .. n)
      BY <1>2
    <2>3. \A i \in 1 .. n + 1 : v[i] \in RowOf(n, w) \cup {e}
      BY <1>2, <2>1, <2>2 DEF RowOf
    <2>4. v[k] = e
      BY <1>2, <2>1
    <2>5. ASSUME NEW i \in 1 .. n PROVE \E j \in 1 .. n + 1 : v[j] = w[i]
      <3>1. CASE i < k
        BY <1>2, <2>1, <3>1
      <3>2. CASE i >= k
        <4>1. i + 1 \in 1 .. n + 1 /\ ~(i + 1 < k) /\ i + 1 # k /\ (i + 1) - 1 = i
          BY <1>2, <3>2
        <4>2. v[i + 1] = w[i]
          BY <2>1, <4>1
        <4> HIDE DEF v
        <4> QED BY <4>1, <4>2
      <3> QED BY <1>2, <3>1, <3>2
    <2> HIDE DEF v
    <2>6. RowOf(n + 1, v) = live'
      <3>1. RowOf(n, w) \subseteq RowOf(n + 1, v)
        BY <2>5 DEF RowOf
      <3>2. e \in RowOf(n + 1, v)
        BY <2>4 DEF RowOf
      <3>3. RowOf(n + 1, v) \subseteq RowOf(n, w) \cup {e}
        BY <2>3 DEF RowOf
      <3> QED BY <1>4, <1>1, <3>1, <3>2, <3>3
    <2> QED BY <2>6 DEF v
  <1>7. RowSeq = w /\ RowSeq' = With(n, w, k, e)
    BY <1>1, <1>5, ListIsRow, ListIsRowNext
  <1>8. Len(w) = n /\ DOMAIN w = 1 .. n
    BY <1>2, RowIsSeq
  <1>9. RowSeq' = List!SeqList!InsertAt(RowSeq, k, e)
    BY <1>2, <1>7, InsertedIsWith
  <1>10. e \in Nodes \ List!SeqList!ToSet(RowSeq)
    <2>1. List!SeqList!ToSet(w) = RowOf(n, w)
      BY <1>8 DEF List!SeqList!ToSet, RowOf
    <2> QED BY <1>4, <1>7, <2>1
  <1>11. ListInv'
    BY <1>5, <1>6 DEF ListInv
  <1>12. k \in 1 .. Len(RowSeq) + 1
    BY <1>7, <1>8
  <1> QED BY <1>9, <1>10, <1>11, <1>12

\* pop_some(from, to): the elements at from .. to - 1 are out.
LEMMA ListPop ==
    ASSUME List!NodesAssumption, ListInv, NEW from \in Nat \ {0}, NEW to \in Nat, List!PopSome(from, to)
    PROVE  ListInv' /\ \E a \in DOMAIN RowSeq, z \in 2 .. Len(RowSeq) + 1 :
                          /\ a < z
                          /\ RowSeq' = SubSeq(RowSeq, 1, a - 1) \o SubSeq(RowSeq, z, Len(RowSeq))
  <1>1. PICK n, w : Linked(list, n, w) /\ RowOf(n, w) = live
    BY DEF ListInv
  <1>2. n \in Nat /\ w \in [1 .. n -> Nodes] /\ list \in Lists /\ \A i, j \in 1 .. n : w[i] = w[j] => i = j
    BY <1>1 DEF Linked
  <1>3. List!Walk(list.head, list.next) = w /\ Len(w) = n /\ DOMAIN w = 1 .. n /\ RowSeq = w
    BY <1>1, BothDirections, ListIsRow
  <1> DEFINE W == List!Walk(list.head, list.next)
             Body(f) == [i \in 0 .. to - from |->
                            IF i = 0 THEN list ELSE List!pop_one(f[i - 1], W[from + i - 1])]
             popped == CHOOSE f : f = Body(f)
             m == to - from
  <1>4. /\ from < to /\ to <= Len(W) + 1 /\ list' = popped[to - from]
        /\ live' = live \ {W[i] : i \in from .. to - 1}
    BY Zenon DEF List!PopSome
  <1>5. /\ m \in Nat /\ from + m = to /\ from \in 1 .. n /\ from + m <= n + 1 /\ m # 0 /\ to \in 2 .. n + 1
        /\ m \in 0 .. m
    BY <1>3, <1>4
  <1> DEFINE Pop(i) == [l \in Lists |-> IF List!pop_one(l, W[from + i - 1]) \in Lists
                                        THEN List!pop_one(l, W[from + i - 1]) ELSE l]
             F == [i \in 1 .. m |-> Pop(i)]
  <1>6. /\ \A i \in 1 .. m : i - 1 \in 0 .. m /\ i \in 0 .. m /\ i # 0
        /\ \A i \in 0 .. m : i = 0 \/ i \in 1 .. m
        /\ 0 \in 0 .. m
    <2> HIDE DEF m
    <2> QED BY <1>5
  <1>7. PICK g : Computes(Lists, m, list, F, g)
    <2>1. \A i \in 1 .. m : F[i] \in [Lists -> Lists]
      <3>1. \A i \in 1 .. m : Pop(i) \in [Lists -> Lists] /\ F[i] = Pop(i)
        <4> HIDE DEF W, m, Lists
        <4> QED OBVIOUS
      <3> HIDE DEF Pop, F, m
      <3> QED BY <3>1
    <2> HIDE DEF F, m
    <2> QED BY <1>2, <1>5, <2>1, Recursion, Zenon
  <1>8. g \in [0 .. m -> Lists] /\ g[0] = list /\ \A i \in 1 .. m : g[i] = F[i][g[i - 1]]
    <2> HIDE DEF F, m
    <2> QED BY <1>7 DEF Computes
  <1>9. \A i \in 1 .. m : List!pop_one(g[i - 1], W[from + i - 1]) \in Lists
                          => g[i] = List!pop_one(g[i - 1], W[from + i - 1])
    <2> TAKE i \in 1 .. m
    <2>1. F[i] = Pop(i)
      BY Zenon
    <2>2. g[i - 1] \in Lists /\ g[i] = F[i][g[i - 1]]
      <3> HIDE DEF F, m, Lists
      <3> QED BY <1>6, <1>8
    <2> HIDE DEF F, m, W, Lists
    <2> QED BY <2>1, <2>2
  <1>10. \A i \in 0 .. m : Linked(g[i], n - i, Cut(n, w, from, i))
    <2> HIDE DEF F, m
    <2>1. \A i \in 1 .. m : LET p == List!pop_one(g[i - 1], w[from + i - 1]) IN p \in Lists => g[i] = p
      BY <1>3, <1>9, Zenon
    <2> QED BY <1>1, <1>5, <1>8, <2>1, PopsInTurn
  <1>11. \A i \in 1 .. m : List!pop_one(g[i - 1], W[from + i - 1]) = g[i]
    <2> TAKE i \in 1 .. m
    <2> HIDE DEF m, F
    <2> DEFINE x == List!pop_one(g[i - 1], W[from + i - 1])
    <2>1. Linked(g[i - 1], n - (i - 1), Cut(n, w, from, i - 1))
      BY <1>6, <1>10
    <2>2. from \in 1 .. n - (i - 1) /\ Cut(n, w, from, i - 1)[from] = W[from + i - 1]
      <3>1. from \in 1 .. n - (i - 1) /\ from + (i - 1) = from + i - 1 /\ ~(from < from)
        BY <1>2, <1>5
      <3>2. Cut(n, w, from, i - 1)[from] = w[from + (i - 1)]
        BY <3>1 DEF Cut
      <3> QED BY <1>3, <3>1, <3>2
    <2>3. x \in Lists
      <3> DEFINE v == Cut(n, w, from, i - 1)
                 l == n - (i - 1)
      <3>1. Linked(g[i - 1], l, v) /\ from \in 1 .. l /\ x = List!pop_one(g[i - 1], v[from])
        BY <2>1, <2>2
      <3> HIDE DEF x, v, l
      <3>2. Linked(List!pop_one(g[i - 1], v[from]), l - 1, WithOut(l, v, from))
        BY <3>1, PopLinks
      <3> QED BY <3>1, <3>2 DEF Linked
    <2> QED BY <1>9, <2>3
  <1>12. g = Body(g)
    <2>1. Body(g) = [i \in 0 .. m |-> IF i = 0 THEN list ELSE List!pop_one(g[i - 1], W[from + i - 1])]
      BY Zenon
    <2> HIDE DEF F, m, W, Body
    <2>2. DOMAIN g = 0 .. m /\ g = [i \in 0 .. m |-> g[i]]
      BY <1>8
    <2>3. \A i \in 0 .. m : g[i] = IF i = 0 THEN list ELSE List!pop_one(g[i - 1], W[from + i - 1])
      BY <1>6, <1>8, <1>11, Zenon
    <2>4. [i \in 0 .. m |-> g[i]] = [i \in 0 .. m |-> IF i = 0 THEN list ELSE List!pop_one(g[i - 1], W[from + i - 1])]
      BY <2>3
    <2> QED BY <2>1, <2>2, <2>4, Zenon
  <1>13. popped = Body(popped)
    <2> HIDE DEF Body
    <2> QED BY <1>12
  <1>14. popped[0] = list /\ \A i \in 1 .. m : popped[i] = List!pop_one(popped[i - 1], W[from + i - 1])
    <2>1. \A i \in 0 .. m : popped[i] = IF i = 0 THEN list ELSE List!pop_one(popped[i - 1], W[from + i - 1])
      <3> HIDE DEF popped, W
      <3> QED BY <1>13, Zenon
    <2> HIDE DEF popped, m, W
    <2> QED BY <1>6, <2>1, Zenon
  <1> HIDE DEF popped, m, F, Body
  <1>15. Linked(list', n - m, Cut(n, w, from, m))
    <2>1. \A i \in 1 .. m : LET p == List!pop_one(popped[i - 1], w[from + i - 1]) IN p \in Lists => popped[i] = p
      <3> HIDE DEF W
      <3>1. W = w
        BY <1>3 DEF W
      <3> QED BY <1>14, <3>1, Zenon
    <2>2. \A i \in 0 .. m : Linked(popped[i], n - i, Cut(n, w, from, i))
      BY <1>1, <1>5, <1>14, <2>1, PopsInTurn
    <2> QED BY <1>4, <1>5, <2>2 DEF m
  <1>16. RowOf(n - m, Cut(n, w, from, m)) = live'
    <2> DEFINE v == Cut(n, w, from, m)
    <2>1. live' = RowOf(n, w) \ {w[i] : i \in from .. to - 1}
      BY <1>1, <1>3, <1>4
    <2>2. \A i \in 1 .. n - m : v[i] = IF i < from THEN w[i] ELSE w[i + m]
      BY DEF Cut
    <2> HIDE DEF v
    <2>3. ASSUME NEW i \in 1 .. n - m PROVE v[i] \in live'
      <3> DEFINE j == IF i < from THEN i ELSE i + m
      <3>1. j \in 1 .. n /\ ~(j \in from .. to - 1)
        BY <1>2, <1>5
      <3>2. v[i] = w[j]
        BY <2>2
      <3> HIDE DEF j
      <3>3. \A l \in from .. to - 1 : l \in 1 .. n /\ l # j
        BY <1>2, <1>5, <3>1
      <3>4. \A l \in from .. to - 1 : w[l] # w[j]
        BY <1>2, <3>1, <3>3
      <3> QED BY <2>1, <3>1, <3>2, <3>4 DEF RowOf
    <2>4. ASSUME NEW x \in live' PROVE \E i \in 1 .. n - m : v[i] = x
      <3>1. PICK j \in 1 .. n : x = w[j] /\ ~(j \in from .. to - 1)
        BY <2>1 DEF RowOf
      <3>2. CASE j < from
        <4>1. j \in 1 .. n - m
          BY <1>2, <1>5, <3>1, <3>2
        <4> QED BY <2>2, <3>1, <3>2, <4>1
      <3>3. CASE j >= from
        <4>1. j - m \in 1 .. n - m /\ ~(j - m < from) /\ (j - m) + m = j
          BY <1>2, <1>5, <3>1, <3>3
        <4> QED BY <2>2, <3>1, <4>1
      <3>4. j < from \/ j >= from
        OBVIOUS
      <3> QED BY <3>2, <3>3, <3>4
    <2>5. RowOf(n - m, v) = live'
      BY <2>3, <2>4 DEF RowOf
    <2> QED BY <2>5 DEF v
  <1>17. RowSeq' = Cut(n, w, from, m)
    BY <1>15, ListIsRowNext
  <1>18. RowSeq' = SubSeq(w, 1, from - 1) \o SubSeq(w, to, Len(w))
    BY <1>2, <1>5, <1>17, TakenIsCut
  <1>19. ListInv'
    BY <1>15, <1>16 DEF ListInv
  <1>20. from \in DOMAIN RowSeq /\ to \in 2 .. Len(RowSeq) + 1 /\ from < to
    BY <1>3, <1>4, <1>5
  <1> QED BY <1>3, <1>18, <1>19, <1>20

\* The list with its pointers implements a sequence, the same in both directions.
THEOREM ListIsSequence == ASSUME List!NodesAssumption PROVE List!Spec => ImplementsSeqList
  <1>1. List!Init => ListInv /\ List!SeqList!Init
    BY ListInit DEF List!SeqList!Init, RowSeq
  <1>2. ListInv /\ [List!Next]_List!vars
        => ListInv' /\ [List!SeqList!Put \/ List!SeqList!Take]_RowSeq
    <2> SUFFICES ASSUME ListInv, [List!Next]_List!vars
                 PROVE  ListInv' /\ [List!SeqList!Put \/ List!SeqList!Take]_RowSeq
      OBVIOUS
    <2>1. CASE List!Next
      <3>1. CASE \E n \in Nodes, where \in live \cup {Nil} : List!Push(n, where)
        <4>1. PICK e \in Nodes, where \in live \cup {Nil} : List!Push(e, where)
          BY <3>1
        <4>2. ListInv' /\ \E x \in Nodes \ List!SeqList!ToSet(RowSeq), i \in 1 .. Len(RowSeq) + 1 :
                             RowSeq' = List!SeqList!InsertAt(RowSeq, i, x)
          BY <4>1, ListPush
        <4> QED BY <4>2, Zenon DEF List!SeqList!Put, RowSeq
      <3>2. CASE \E from, to \in 1 .. List!Cardinality(Nodes) + 1 : List!PopSome(from, to)
        <4>1. List!Cardinality(Nodes) \in Nat
          <5>1. Cardinality(Nodes) \in Nat
            BY ListFinite, FS_CardinalityType DEF List!NodesAssumption
          <5> QED BY <5>1, ListCardinality, Zenon
        <4>2. PICK from \in Nat \ {0}, to \in Nat : List!PopSome(from, to)
          <5> DEFINE N == List!Cardinality(Nodes)
          <5>1. \A i \in 1 .. N + 1 : i \in Nat \ {0} /\ i \in Nat
            <6> HIDE DEF N
            <6> QED BY <4>1 DEF N
          <5> HIDE DEF N
          <5> QED BY <3>2, <5>1, Zenon DEF N
        <4>3. ListInv' /\ \E a \in DOMAIN RowSeq, z \in 2 .. Len(RowSeq) + 1 :
                             /\ a < z
                             /\ RowSeq' = SubSeq(RowSeq, 1, a - 1) \o SubSeq(RowSeq, z, Len(RowSeq))
          BY <4>2, ListPop
        <4> QED BY <4>3, Zenon DEF List!SeqList!Take, RowSeq
      <3> QED BY <2>1, <3>1, <3>2, Zenon DEF List!Next
    <2>2. CASE UNCHANGED List!vars
      <3>1. list' = list /\ live' = live
        BY <2>2 DEF List!vars
      <3>2. ListInv'
        BY <3>1 DEF ListInv, Linked
      <3>3. RowSeq' = RowSeq
        BY <3>1 DEF RowSeq, List!Forwards, List!Backwards
      <3> QED BY <3>2, <3>3
    <2> QED BY <2>1, <2>2
  <1> QED BY <1>1, <1>2, PTL DEF List!Spec, ImplementsSeqList, List!ImplementsSeqList, List!SeqList!Spec, RowSeq

------------------------------------------------------------------------------
(* The modes of plusaes: what is done of an encryption is enciphered block  *)
(* by block, what is done of a decryption of it is the message again, and   *)
(* the counter is a number with as many digits as a block has bytes.        *)

\* Messages, and what is made of them.
ByteSeqs == Seq(Modes!Bytes)

\* Block b of a message with its padding; block b of any bytes; what it is combined
\* with; and that the first n blocks of x are message m encrypted.
Pattern(m, b) == [j \in 1 .. kStateSize |->
    IF b * kStateSize + j <= Len(m) THEN m[b * kStateSize + j] ELSE kStateSize - (Len(m) % kStateSize)]
Part(x, b) == [j \in 1 .. kStateSize |-> x[b * kStateSize + j]]
Before(mode, iv, x, b) ==
    IF mode = "ecb" THEN Modes!Zeros ELSE IF b = 0 THEN iv ELSE Part(x, b - 1)
Enciphered(mode, iv, m, x, n) ==
    \A b \in 0 .. n - 1 : Part(x, b) = encrypt_state(Modes!xor_data(Pattern(m, b), Before(mode, iv, x, b)))
Total(pads, m) == (Len(m) \div kStateSize) + (IF pads THEN 1 ELSE 0)

\* The cipher and ^ take blocks to blocks and are undone.
LEMMA ModesTypes == ASSUME Modes!ModesAssumption
    PROVE  /\ kStateSize \in Nat \ {0} /\ Base \in Nat /\ kStateSize < Base
           /\ Modes!Zeros \in Modes!States
           /\ \A x \in Modes!States : encrypt_state(x) \in Modes!States /\ decrypt_state(x) \in Modes!States
                                      /\ decrypt_state(encrypt_state(x)) = x
           /\ \A x, y \in Modes!States : Modes!xor_data(x, y) \in Modes!States
                                         /\ Modes!xor_data(Modes!xor_data(x, y), y) = x
  <1>1. /\ kStateSize \in Nat \ {0} /\ Base \in Nat /\ kStateSize < Base
        /\ \A x \in Modes!States : encrypt_state(x) \in Modes!States /\ decrypt_state(x) \in Modes!States
                                   /\ decrypt_state(encrypt_state(x)) = x
        /\ \A a, b \in Modes!Bytes : xor_byte(a, b) \in Modes!Bytes /\ xor_byte(xor_byte(a, b), b) = a
    BY DEF Modes!ModesAssumption
  <1>2. Modes!Zeros \in Modes!States
    BY <1>1 DEF Modes!Zeros, Modes!States, Modes!Bytes
  <1>3. ASSUME NEW x \in Modes!States, NEW y \in Modes!States
        PROVE  Modes!xor_data(x, y) \in Modes!States /\ Modes!xor_data(Modes!xor_data(x, y), y) = x
    <2> DEFINE z == [k \in 1 .. kStateSize |-> xor_byte(x[k], y[k])]
    <2>1. \A k \in 1 .. kStateSize : x[k] \in Modes!Bytes /\ y[k] \in Modes!Bytes
      BY DEF Modes!States
    <2>2. z \in Modes!States /\ Modes!xor_data(x, y) = z
      BY <1>1, <2>1 DEF Modes!States, Modes!xor_data
    <2>3. \A k \in 1 .. kStateSize : xor_byte(z[k], y[k]) = x[k]
      BY <1>1, <2>1
    <2>4. x = [k \in 1 .. kStateSize |-> x[k]]
      BY DEF Modes!States
    <2> HIDE DEF z
    <2>5. Modes!xor_data(z, y) = [k \in 1 .. kStateSize |-> x[k]]
      BY <2>3 DEF Modes!xor_data
    <2> QED BY <2>2, <2>4, <2>5
  <1> QED BY <1>1, <1>2, <1>3

\* A place in a row of blocks is a place in one of them.
LEMMA Places == ASSUME Modes!ModesAssumption, NEW n \in Nat, NEW k \in 1 .. n * kStateSize
    PROVE  \E b \in 0 .. n - 1, j \in 1 .. kStateSize : k = b * kStateSize + j
  <1> DEFINE K == kStateSize
             b == (k - 1) \div K
             r == (k - 1) % K
  <1>1. K \in Nat \ {0}
    BY ModesTypes
  <1> HIDE DEF K
  <1>2. k - 1 \in Nat /\ n * K \in Nat /\ k <= n * K
    BY <1>1 DEF K
  <1>3. k - 1 = b * K + r /\ r \in 0 .. K - 1 /\ b \in Nat
    BY <1>1, <1>2, DivFacts
  <1> HIDE DEF b, r
  <1>4. b * K \in Nat
    BY <1>1, <1>3
  <1>5. b < n
    <2>1. ~(b < n) => n * K <= b * K
      <3>1. n < b => n * K + K <= b * K
        BY <1>1, <1>3, MulStep
      <3> QED BY <1>1, <1>2, <1>3, <1>4, <3>1
    <2> QED BY <1>2, <1>3, <1>4, <2>1
  <1>6. b \in 0 .. n - 1 /\ r + 1 \in 1 .. K /\ k = b * K + (r + 1)
    BY <1>1, <1>2, <1>3, <1>4, <1>5
  <1> QED BY <1>6 DEF K

\* A block that lies within a sequence.
LEMMA BlockIsPart ==
    ASSUME Modes!ModesAssumption, NEW S, NEW x \in Seq(S), NEW b \in Nat, NEW n \in Nat, b < n, n * kStateSize <= Len(x)
    PROVE  /\ Modes!BlockAt(x, b) = Part(x, b) /\ Part(x, b) \in [1 .. kStateSize -> S]
           /\ \A j \in 1 .. kStateSize : b * kStateSize + j \in 1 .. Len(x)
  <1> DEFINE K == kStateSize
             y == SubSeq(x, b * K + 1, (b + 1) * K)
  <1>1. K \in Nat \ {0}
    BY ModesTypes
  <1> HIDE DEF K
  <1>2. b * K \in Nat /\ (b + 1) * K = b * K + K /\ b * K + K <= Len(x) /\ Len(x) \in Nat
    <2>1. b * K + K <= n * K /\ n * K <= Len(x)
      BY <1>1, MulStep DEF K
    <2>2. b * K \in Nat /\ (b + 1) * K = b * K + K /\ n * K \in Nat
      BY <1>1
    <2> QED BY <1>1, <2>1, <2>2
  <1>3. \A j \in 1 .. K : b * K + j \in 1 .. Len(x)
    <2> DEFINE p == b * K
    <2> HIDE DEF p
    <2>1. p \in Nat /\ p + K <= Len(x)
      BY <1>2 DEF p
    <2>2. \A j \in 1 .. K : p + j \in 1 .. Len(x)
      BY <1>1, <1>2, <2>1
    <2> QED BY <2>2 DEF p
  <1>4. \A j \in 1 .. K : x[b * K + j] \in S
    BY <1>3
  <1>5. y = [j \in 1 .. K |-> x[b * K + j]]
    <2> DEFINE p == b * K
               q == (b + 1) * K
    <2>1. p \in Nat /\ q = p + K /\ q <= Len(x)
      BY <1>2
    <2>2. \A j \in 1 .. K : x[p + j] \in S
      BY <1>4
    <2> HIDE DEF p, q
    <2>3. p + 1 \in Int /\ q \in Int /\ \A j \in p + 1 .. q : x[j] \in S
      BY <1>1, <1>2, <2>1
    <2>4. /\ SubSeq(x, p + 1, q) \in Seq(S) /\ Len(SubSeq(x, p + 1, q)) = IF p + 1 <= q THEN q - (p + 1) + 1 ELSE 0
          /\ \A j \in 1 .. q - (p + 1) + 1 : SubSeq(x, p + 1, q)[j] = x[(p + 1) + j - 1]
      BY <2>3, SubSeqProperties
    <2> DEFINE z == SubSeq(x, p + 1, q)
    <2> HIDE DEF z
    <2>5. z \in Seq(S) /\ Len(z) = K /\ \A j \in 1 .. K : z[j] = x[p + j]
      <3>1. q - (p + 1) + 1 = K /\ (p + 1 <= q) /\ \A j \in 1 .. K : (p + 1) + j - 1 = p + j
        BY <1>1, <2>1
      <3> QED BY <2>4, <3>1 DEF z
    <2>6. z = [j \in 1 .. K |-> x[p + j]]
      <3>1. z = [j \in 1 .. K |-> z[j]]
        BY <1>1, <2>5
      <3> QED BY <2>5, <3>1
    <2> QED BY <2>6 DEF p, q, z
  <1>6. Modes!BlockAt(x, b) = y
    BY DEF Modes!BlockAt, K
  <1> QED BY <1>3, <1>4, <1>5, <1>6 DEF Part, K

\* The bytes of the output buffer and behind it, written or not.
Written == 0 .. Base
Buffers == [Modes!Space -> Written]
SpaceLen == MaxBlocks * kStateSize + Room

\* The output buffer, as a sequence.
LEMMA BufferIsSeq == ASSUME Modes!ModesAssumption, NEW x \in Buffers
    PROVE  /\ x \in Seq(Written) /\ Len(x) = SpaceLen /\ DOMAIN x = Modes!Space /\ SpaceLen \in Nat
           /\ Modes!Space = 1 .. SpaceLen
           /\ MaxBlocks * kStateSize \in Nat /\ MaxBlocks * kStateSize <= SpaceLen
  <1>1. MaxBlocks \in Nat /\ kStateSize \in Nat /\ Room \in Nat
    BY DEF Modes!ModesAssumption
  <1>2. MaxBlocks * kStateSize \in Nat
    BY <1>1
  <1>3. SpaceLen \in Nat /\ MaxBlocks * kStateSize <= SpaceLen
    BY <1>1, <1>2 DEF SpaceLen
  <1>4. x \in [1 .. SpaceLen -> Written] /\ Modes!Space = 1 .. SpaceLen
    BY DEF Buffers, Modes!Space, SpaceLen
  <1>5. x \in Seq(Written) /\ Len(x) = SpaceLen /\ DOMAIN x = 1 .. SpaceLen
    BY <1>3, <1>4, RowIsSeq
  <1> QED BY <1>2, <1>3, <1>4, <1>5, Zenon

\* What memcpy leaves in the buffer.
LEMMA CopyFacts ==
    ASSUME Modes!ModesAssumption, NEW x \in Buffers, NEW at \in Nat, NEW n \in Nat, NEW y \in [1 .. n -> Written]
    PROVE  /\ Modes!memcpy(x, at, y) \in Buffers
           /\ \A k \in Modes!Space : Modes!memcpy(x, at, y)[k] = IF k \in at + 1 .. at + n THEN y[k - at] ELSE x[k]
  <1>1. \A k \in Modes!Space : k \in Nat /\ x[k] \in Written
    BY BufferIsSeq DEF Buffers
  <1>2. \A k \in Modes!Space : (k - at \in DOMAIN y) = (k \in at + 1 .. at + n)
    BY <1>1
  <1>3. \A k \in Modes!Space : k - at \in DOMAIN y => y[k - at] \in Written
    OBVIOUS
  <1>4. Modes!memcpy(x, at, y) = [k \in Modes!Space |-> IF k - at \in DOMAIN y THEN y[k - at] ELSE x[k]]
    BY DEF Modes!memcpy
  <1> QED BY <1>1, <1>2, <1>3, <1>4 DEF Buffers

\* Only the bytes of a block decide what it is.
LEMMA SameParts ==
    ASSUME Modes!ModesAssumption, NEW x, NEW y, NEW n \in Nat, \A k \in 1 .. n * kStateSize : x[k] = y[k]
    PROVE  \A b \in 0 .. n - 1 : Part(x, b) = Part(y, b)
  <1> DEFINE K == kStateSize
  <1>1. K \in Nat \ {0}
    BY ModesTypes
  <1> HIDE DEF K
  <1> TAKE b \in 0 .. n - 1
  <1>2. b * K \in Nat /\ b * K + K <= n * K /\ n * K \in Nat
    BY <1>1, MulStep
  <1>3. \A j \in 1 .. K : b * K + j \in 1 .. n * K
    <2> DEFINE p == b * K
               q == n * K
    <2> HIDE DEF p, q
    <2>1. p \in Nat /\ q \in Nat /\ p + K <= q
      BY <1>2 DEF p, q
    <2>2. \A j \in 1 .. K : p + j \in 1 .. q
      BY <1>1, <2>1
    <2> QED BY <2>2 DEF p, q
  <1>4. \A j \in 1 .. K : x[b * K + j] = y[b * K + j]
    BY <1>3 DEF K
  <1> QED BY <1>4 DEF Part, K

\* The next block goes behind those that are done.
LEMMA OneMoreBlock ==
    ASSUME Modes!ModesAssumption, NEW mode, NEW iv, NEW m, NEW n \in Nat, NEW x \in Buffers,
           (n + 1) * kStateSize <= SpaceLen, Enciphered(mode, iv, m, x, n), NEW y \in Modes!States,
           y = encrypt_state(Modes!xor_data(Pattern(m, n), Before(mode, iv, x, n)))
    PROVE  Enciphered(mode, iv, m, Modes!memcpy(x, n * kStateSize, y), n + 1)
  <1> DEFINE K == kStateSize
             z == Modes!memcpy(x, n * K, y)
  <1>1. K \in Nat \ {0} /\ Base \in Nat
    BY ModesTypes
  <1>2. n * K \in Nat /\ n * K + K <= SpaceLen /\ Modes!Space = 1 .. SpaceLen /\ SpaceLen \in Nat
    <2>1. SpaceLen \in Nat /\ Modes!Space = 1 .. SpaceLen
      BY BufferIsSeq
    <2>2. (n + 1) * K = n * K + K /\ n * K \in Nat
      BY <1>1
    <2> QED BY <2>1, <2>2
  <1>3. y \in [1 .. K -> Written] /\ y = [j \in 1 .. K |-> y[j]]
    <2>1. \A k \in Modes!Bytes : k \in Written
      BY <1>1 DEF Modes!Bytes, Written
    <2> QED BY <2>1 DEF Modes!States
  <1>4. \A k \in Modes!Space : z[k] = IF k \in n * K + 1 .. n * K + K THEN y[k - n * K] ELSE x[k]
    <2> DEFINE p == n * K
    <2>1. p \in Nat /\ K \in Nat /\ y \in [1 .. K -> Written]
      BY <1>1, <1>2, <1>3
    <2> HIDE DEF K, p
    <2>2. \A k \in Modes!Space : Modes!memcpy(x, p, y)[k] = IF k \in p + 1 .. p + K THEN y[k - p] ELSE x[k]
      BY <2>1, CopyFacts
    <2> QED BY <2>2 DEF p
  <1> HIDE DEF K, z
  <1>5. \A k \in 1 .. n * K : z[k] = x[k]
    <2> DEFINE p == n * K
    <2> HIDE DEF p
    <2>1. p \in Nat /\ p + K <= SpaceLen /\ \A k \in Modes!Space : k \notin p + 1 .. p + K => z[k] = x[k]
      BY <1>2, <1>4 DEF p
    <2>2. \A k \in 1 .. p : k \in 1 .. SpaceLen /\ k \notin p + 1 .. p + K
      BY <1>1, <1>2, <2>1
    <2>3. \A k \in 1 .. p : z[k] = x[k]
      BY <1>2, <2>1, <2>2
    <2> QED BY <2>3 DEF p
  <1>6. \A b \in 0 .. n - 1 : Part(z, b) = Part(x, b)
    BY <1>5, SameParts DEF K
  <1>7. Part(z, n) = y
    <2> DEFINE p == n * K
    <2>1. Part(z, n) = [j \in 1 .. K |-> z[p + j]]
      BY DEF Part, K
    <2> HIDE DEF p
    <2>2. p \in Nat /\ p + K <= SpaceLen /\ \A k \in Modes!Space : k \in p + 1 .. p + K => z[k] = y[k - p]
      BY <1>2, <1>4 DEF p
    <2>3. \A j \in 1 .. K : p + j \in 1 .. SpaceLen /\ p + j \in p + 1 .. p + K /\ (p + j) - p = j
      BY <1>1, <1>2, <2>2
    <2>4. \A j \in 1 .. K : z[p + j] = y[j]
      BY <1>2, <2>2, <2>3
    <2> QED BY <1>3, <2>1, <2>4
  <1>8. \A b \in 0 .. n : Before(mode, iv, z, b) = Before(mode, iv, x, b)
    <2>1. \A b \in 0 .. n : b # 0 => b - 1 \in 0 .. n - 1
      OBVIOUS
    <2> QED BY <1>6, <2>1 DEF Before
  <1>9. ASSUME NEW b \in 0 .. n
        PROVE  Part(z, b) = encrypt_state(Modes!xor_data(Pattern(m, b), Before(mode, iv, z, b)))
    <2>1. CASE b = n
      BY <1>7, <1>8, <2>1
    <2>2. CASE b # n
      <3>1. b \in 0 .. n - 1
        BY <2>2
      <3> QED BY <1>6, <1>8, <3>1 DEF Enciphered
    <2> QED BY <2>1, <2>2
  <1>10. (n + 1) - 1 = n
    OBVIOUS
  <1> QED BY <1>9, <1>10 DEF Enciphered, z, K

\* What is enciphered is bytes.
LEMMA EncipheredBytes ==
    ASSUME Modes!ModesAssumption, NEW mode, NEW iv \in Modes!States, NEW m \in ByteSeqs, NEW n \in Nat, NEW x,
           Enciphered(mode, iv, m, x, n), \A b \in 0 .. n - 1 : Pattern(m, b) \in Modes!States
    PROVE  /\ \A b \in 0 .. n - 1 : Part(x, b) \in Modes!States
           /\ \A k \in 1 .. n * kStateSize : x[k] \in Modes!Bytes
  <1> DEFINE S == {b \in 0 .. n : b < n => Part(x, b) \in Modes!States}
  <1>1. ASSUME NEW b \in 0 .. n - 1, Before(mode, iv, x, b) \in Modes!States PROVE Part(x, b) \in Modes!States
    BY <1>1, ModesTypes DEF Enciphered
  <1>2. 0 \in S
    <2>1. Before(mode, iv, x, 0) \in Modes!States
      BY ModesTypes DEF Before
    <2>2. 0 < n => 0 \in 0 .. n - 1
      OBVIOUS
    <2> QED BY <1>1, <2>1, <2>2
  <1>3. ASSUME NEW b \in 1 .. n, b - 1 \in S PROVE b \in S
    <2>1. Before(mode, iv, x, b) \in Modes!States
      <3>1. b # 0 /\ b - 1 < n
        OBVIOUS
      <3> QED BY <1>3, <3>1, ModesTypes DEF Before
    <2>2. b < n => b \in 0 .. n - 1
      OBVIOUS
    <2> QED BY <1>1, <2>1, <2>2
  <1>4. S = 0 .. n
    <2> S \in SUBSET (0 .. n)
      OBVIOUS
    <2> HIDE DEF S
    <2> QED BY <1>2, <1>3, AllTheWay
  <1>5. \A b \in 0 .. n - 1 : Part(x, b) \in Modes!States
    <2>1. \A b \in 0 .. n - 1 : b \in 0 .. n /\ b < n
      OBVIOUS
    <2> QED BY <1>4, <2>1
  <1>6. ASSUME NEW k \in 1 .. n * kStateSize PROVE x[k] \in Modes!Bytes
    <2>1. PICK b \in 0 .. n - 1, j \in 1 .. kStateSize : k = b * kStateSize + j
      BY Places
    <2>2. Part(x, b)[j] = x[k] /\ Part(x, b)[j] \in Modes!Bytes
      BY <1>5, <2>1 DEF Part, Modes!States
    <2> QED BY <2>2
  <1> QED BY <1>5, <1>6

\* Bytes of the last block that the message has.
Rest(m) == Len(m) % kStateSize

\* How long a message is with its padding, and what the padding is.
LEMMA TotalFacts ==
    ASSUME Modes!ModesAssumption, NEW m \in ByteSeqs, NEW pads \in BOOLEAN, pads \/ Rest(m) = 0
    PROVE  /\ Rest(m) \in 0 .. kStateSize - 1 /\ Len(m) \div kStateSize \in Nat /\ Total(pads, m) \in Nat
           /\ Len(m) = (Len(m) \div kStateSize) * kStateSize + Rest(m)
           /\ (Len(m) \div kStateSize) * kStateSize \in Nat
           /\ Total(pads, m) * kStateSize = IF pads THEN Len(m) + (kStateSize - Rest(m)) ELSE Len(m)
           /\ Total(pads, m) = IF pads THEN (Len(m) \div kStateSize) + 1 ELSE Len(m) \div kStateSize
           /\ kStateSize - Rest(m) \in 1 .. kStateSize /\ kStateSize - Rest(m) \in Modes!Bytes
  <1> DEFINE K == kStateSize
             l == Len(m)
             q == l \div K
             r == l % K
  <1>1. K \in Nat \ {0} /\ Base \in Nat /\ K < Base
    BY ModesTypes
  <1>2. l \in Nat
    BY DEF ByteSeqs
  <1> HIDE DEF K, l
  <1>3. l = q * K + r /\ r \in 0 .. K - 1 /\ q \in Nat
    BY <1>1, <1>2, DivFacts
  <1>4. q * K \in Nat /\ (q + 1) * K = q * K + K
    BY <1>1, <1>3
  <1>5. K - r \in 1 .. K /\ K - r \in Modes!Bytes
    BY <1>1, <1>3 DEF Modes!Bytes
  <1> HIDE DEF q, r
  <1>6. Total(pads, m) = (IF pads THEN q + 1 ELSE q) /\ Total(pads, m) \in Nat
    BY <1>3 DEF Total, q, K, l
  <1>7. Total(pads, m) * K = IF pads THEN l + (K - r) ELSE l
    <2>1. CASE pads
      <3> DEFINE p == q * K
      <3>1. (q + 1) * K = p + K /\ p \in Nat /\ l = p + r
        BY <1>3, <1>4
      <3> HIDE DEF p
      <3>2. (q + 1) * K = l + (K - r)
        BY <1>1, <1>3, <3>1
      <3> QED BY <1>6, <2>1, <3>2
    <2>2. CASE ~pads
      <3>1. r = 0
        BY <2>2 DEF Rest, r, K, l
      <3> QED BY <1>1, <1>2, <1>3, <1>4, <1>6, <2>2, <3>1
    <2> QED BY <2>1, <2>2
  <1> QED BY <1>3, <1>4, <1>5, <1>6, <1>7 DEF q, r, l, K, Rest

\* The blocks of a message are blocks, those before the last its own bytes.
LEMMA PatternFacts ==
    ASSUME Modes!ModesAssumption, NEW m \in ByteSeqs, NEW pads \in BOOLEAN, pads \/ Rest(m) = 0
    PROVE  /\ \A b \in Nat : Pattern(m, b) \in Modes!States
           /\ \A b \in Nat : b < Len(m) \div kStateSize => Modes!BlockAt(m, b) = Pattern(m, b)
  <1>1. ASSUME NEW b \in Nat PROVE Pattern(m, b) \in Modes!States
    <2> DEFINE K == kStateSize
    <2>1. b * K \in Nat /\ Len(m) \in Nat
      BY ModesTypes DEF ByteSeqs
    <2>2. \A j \in 1 .. K : b * K + j \in Nat \ {0}
      <3> DEFINE p == b * K
      <3> HIDE DEF p
      <3> QED BY <2>1
    <2>3. \A j \in 1 .. K : b * K + j <= Len(m) => m[b * K + j] \in Modes!Bytes
      BY <2>1, <2>2 DEF ByteSeqs
    <2>4. K - Rest(m) \in Modes!Bytes
      BY TotalFacts
    <2>5. Pattern(m, b) = [j \in 1 .. K |-> IF b * K + j <= Len(m) THEN m[b * K + j] ELSE K - Rest(m)]
      BY DEF Pattern, Rest
    <2> HIDE DEF K
    <2> QED BY <2>3, <2>4, <2>5 DEF Modes!States, K
  <1>2. ASSUME NEW b \in Nat, b < Len(m) \div kStateSize PROVE Modes!BlockAt(m, b) = Pattern(m, b)
    <2> DEFINE n == Len(m) \div kStateSize
    <2>1. n \in Nat /\ n * kStateSize <= Len(m) /\ m \in Seq(Modes!Bytes)
      <3> DEFINE p == n * kStateSize
      <3>1. n \in Nat /\ Len(m) = p + Rest(m) /\ p \in Nat /\ Rest(m) \in 0 .. kStateSize - 1
        BY TotalFacts
      <3> HIDE DEF p, n
      <3>2. p <= Len(m)
        BY <3>1, ModesTypes
      <3> QED BY <3>1, <3>2 DEF p, ByteSeqs
    <2> HIDE DEF n
    <2>2. Modes!BlockAt(m, b) = Part(m, b) /\ \A j \in 1 .. kStateSize : b * kStateSize + j \in 1 .. Len(m)
      BY <1>2, <2>1, BlockIsPart DEF n
    <2>3. \A j \in 1 .. kStateSize : b * kStateSize + j <= Len(m)
      <3>1. Len(m) \in Nat
        BY DEF ByteSeqs
      <3>2. \A k \in 1 .. Len(m) : k <= Len(m)
        BY <3>1
      <3> QED BY <2>2, <3>2
    <2> QED BY <2>2, <2>3 DEF Part, Pattern
  <1> QED BY <1>1, <1>2

\* The last block is what is left of the message, filled up.
LEMMA LastIsPattern ==
    ASSUME Modes!ModesAssumption, NEW m \in ByteSeqs
    PROVE  SubSeq(m, (Len(m) \div kStateSize) * kStateSize + 1, Len(m))
              \o Modes!Fill(kStateSize - Rest(m), kStateSize - Rest(m))
           = Pattern(m, Len(m) \div kStateSize)
  <1> DEFINE K == kStateSize
             p == (Len(m) \div K) * K
             l == Len(m)
             r == Rest(m)
             a == SubSeq(m, p + 1, l)
             f == Modes!Fill(K - r, K - r)
             v == Pattern(m, Len(m) \div K)
  <1>1. K \in Nat \ {0}
    BY ModesTypes
  <1>2. p \in Nat /\ l = p + r /\ r \in 0 .. K - 1 /\ l \in Nat /\ K - r \in Modes!Bytes /\ K - r \in Nat
    <2>1. p \in Nat /\ l = p + r /\ r \in 0 .. K - 1 /\ K - r \in Modes!Bytes
      BY TotalFacts
    <2>2. l \in Nat
      BY DEF ByteSeqs
    <2> QED BY <1>1, <2>1, <2>2
  <1>3. v = [j \in 1 .. K |-> IF p + j <= l THEN m[p + j] ELSE K - r]
    BY DEF Pattern, Rest
  <1>4. f = [k \in 1 .. K - r |-> K - r]
    BY DEF Modes!Fill
  <1> HIDE DEF K, p, l, r, v, f
  <1>5. a \in Seq(Modes!Bytes) /\ Len(a) = r /\ \A j \in 1 .. r : a[j] = m[p + j]
    <2>1. \A k \in p + 1 .. l : m[k] \in Modes!Bytes
      <3>1. \A k \in p + 1 .. l : k \in 1 .. l
        BY <1>2
      <3> QED BY <3>1 DEF l, ByteSeqs
    <2>2. p + 1 \in Int /\ l \in Int
      BY <1>2
    <2>3. /\ a \in Seq(Modes!Bytes) /\ Len(a) = IF p + 1 <= l THEN l - (p + 1) + 1 ELSE 0
          /\ \A j \in 1 .. l - (p + 1) + 1 : a[j] = m[(p + 1) + j - 1]
      BY <2>1, <2>2, SubSeqProperties
    <2> HIDE DEF a
    <2>4. l - (p + 1) + 1 = r /\ (p + 1 <= l <=> r # 0) /\ \A j \in 1 .. r : (p + 1) + j - 1 = p + j
      BY <1>1, <1>2
    <2> QED BY <1>1, <1>2, <2>3, <2>4
  <1>6. f \in Seq(Modes!Bytes) /\ Len(f) = K - r /\ \A j \in 1 .. K - r : f[j] = K - r
    <2>1. f \in [1 .. K - r -> Modes!Bytes]
      BY <1>2, <1>4
    <2> QED BY <1>2, <1>4, <2>1, RowIsSeq
  <1> HIDE DEF a
  <1>7. /\ a \o f \in Seq(Modes!Bytes) /\ Len(a \o f) = Len(a) + Len(f)
        /\ \A j \in 1 .. Len(a) + Len(f) : (a \o f)[j] = IF j <= Len(a) THEN a[j] ELSE f[j - Len(a)]
    BY <1>5, <1>6, ConcatProperties
  <1> DEFINE c == a \o f
  <1> HIDE DEF c
  <1>8. Len(a) + Len(f) = K
    BY <1>1, <1>2, <1>5, <1>6
  <1>9. ASSUME NEW j \in 1 .. K PROVE c[j] = IF p + j <= l THEN m[p + j] ELSE K - r
    <2>1. c[j] = IF j <= r THEN a[j] ELSE f[j - r]
      BY <1>5, <1>7, <1>8 DEF c
    <2>2. (p + j <= l <=> j <= r) /\ (j <= r => j \in 1 .. r) /\ (~(j <= r) => j - r \in 1 .. K - r)
      BY <1>1, <1>2
    <2> QED BY <1>5, <1>6, <2>1, <2>2
  <1>10. c = [j \in 1 .. K |-> c[j]]
    <2>1. c \in Seq(Modes!Bytes) /\ Len(c) = K
      BY <1>7, <1>8 DEF c
    <2> QED BY <1>1, <2>1
  <1>11. c = v
    BY <1>3, <1>9, <1>10
  <1> QED BY <1>11 DEF c, v, a, f, p, l, r, K

\* The types, while a call is checked, goes on and has returned.
ModesTyped ==
    /\ call \in Modes!Calls \cup Modes!CtrCalls
    /\ data \in ByteSeqs /\ (plain = Modes!NoMessage \/ plain \in ByteSeqs)
    /\ out \in Buffers /\ blocks \in Nat /\ padded_size \in Nat
    /\ modePc \in {"check", "blocks"} => call.op # "crypt"
    /\ modePc = "bytes" => call.op = "crypt"

\* An encryption: the blocks that are done are enciphered, and all of them fit.
Encrypting == call.op = "encrypt" =>
    /\ plain = data /\ padded_size = 0
    /\ modePc = "check" => blocks = 0
    /\ modePc = "blocks" => /\ blocks <= Len(data) \div kStateSize
                            /\ Enciphered(call.mode, call.iv, data, out, blocks)
    /\ modePc = "Ok" => Enciphered(call.mode, call.iv, data, out, Total(call.pads, data))
    /\ modePc \in {"blocks", "Ok"} => /\ call.pads \/ Rest(data) = 0
                                      /\ call.key_ok /\ Total(call.pads, data) * kStateSize <= call.size

\* A decryption of something: whole blocks, and the size holds all but the last
\* of them.
Decrypting == call.op = "decrypt" =>
    /\ modePc = "check" => blocks = 0
    /\ modePc = "blocks" /\ data # <<>> => \E n \in Nat :
          /\ Len(data) = n * kStateSize /\ blocks < n /\ (n - 1) * kStateSize <= call.size
          /\ call.pads \/ n * kStateSize <= call.size

\* The user's own data: it is what the message was enciphered to, and what has been
\* deciphered of it is the message. It may be no block at all.
OwnData == call.op = "decrypt" /\ plain # Modes!NoMessage =>
    LET n == Total(call.pads, plain) IN
    /\ call.pads \/ Rest(plain) = 0
    /\ call.key_ok /\ Len(data) = n * kStateSize /\ n * kStateSize <= MaxBlocks * kStateSize
    /\ Enciphered(call.mode, call.iv, plain, data, n)
    /\ modePc \in {"check", "blocks"} =>
          padded_size = 0 /\ \A k \in 1 .. blocks * kStateSize : out[k] = plain[k]
    /\ modePc = "Ok" => Len(data) - padded_size = Len(plain) /\ \A k \in 1 .. Len(plain) : out[k] = plain[k]
    /\ n # 0 /\ call.size >= Len(data) => modePc \in {"check", "blocks", "Ok"}

\* What a call may have written past its size.
Within(x) == \A k \in Modes!Space :
    k > call.size /\ x[k] # Modes!Untouched => Modes!FirstBlockUnasked /\ k <= kStateSize

\* The inductive invariant of ECB and CBC.
BlocksInv == ModesTyped /\ Modes!InBounds /\ Encrypting /\ Decrypting /\ OwnData

\* The types of a call of ECB or CBC.
LEMMA CallTypes == ASSUME Modes!ModesAssumption, ModesTyped, call.op # "crypt"
    PROVE  /\ call \in Modes!Calls /\ call.op \in {"encrypt", "decrypt"} /\ call.mode \in {"ecb", "cbc"}
           /\ call.pads \in BOOLEAN /\ call.key_ok \in BOOLEAN /\ call.iv \in Modes!States
           /\ call.size \in Nat /\ call.size <= MaxBlocks * kStateSize /\ MaxBlocks * kStateSize \in Nat
  <1>1. call \in Modes!Calls
    BY DEF ModesTyped, Modes!CtrCalls
  <1>2. MaxBlocks * kStateSize \in Nat
    <2>1. MaxBlocks \in Nat /\ kStateSize \in Nat
      BY DEF Modes!ModesAssumption
    <2> QED BY <2>1
  <1>3. /\ call.op \in {"encrypt", "decrypt"} /\ call.mode \in {"ecb", "cbc"} /\ call.iv \in Ivs
        /\ call.pads \in BOOLEAN /\ call.key_ok \in BOOLEAN /\ call.size \in 0 .. MaxBlocks * kStateSize
    BY <1>1 DEF Modes!Calls, Modes!Sizes
  <1>4. call.iv \in Modes!States
    BY <1>3 DEF Modes!ModesAssumption
  <1>5. call.size \in Nat /\ call.size <= MaxBlocks * kStateSize
    BY <1>2, <1>3
  <1> QED BY <1>1, <1>2, <1>3, <1>4, <1>5

\* A call begins with nothing done.
LEMMA BlocksInit == ASSUME Modes!ModesAssumption, Modes!Init PROVE BlocksInv
  <1>1. data \in ByteSeqs
    BY DEF Modes!Init, Modes!ModesAssumption, ByteSeqs
  <1>2. call \in Modes!Calls \cup Modes!CtrCalls /\ blocks = 0 /\ padded_size = 0
    BY DEF Modes!Init
  <1>3. /\ call.op = "decrypt" => plain = Modes!NoMessage
        /\ call.op # "decrypt" => plain = data
    BY Zenon DEF Modes!Init
  <1>4. modePc \in {"check", "bytes", "InvalidNonceSize", "InvalidKeySize"}
    BY DEF Modes!Init
  <1>5. call.op # "crypt" => call \in Modes!Calls /\ modePc = "check"
    BY DEF Modes!Init, Modes!CtrCalls
  <1>6. call.op = "crypt" => modePc # "check"
    BY DEF Modes!Init
  <1>7. out \in Buffers /\ \A k \in Modes!Space : out[k] = Base
    <2>1. out = [k \in Modes!Space |-> Base]
      BY DEF Modes!Init, Modes!Untouched
    <2>2. Base \in Written
      BY ModesTypes DEF Written
    <2> QED BY <2>1, <2>2 DEF Buffers
  <1>8. Modes!InBounds
    BY <1>7 DEF Modes!InBounds, Modes!Untouched
  <1>9. ModesTyped
    BY <1>1, <1>2, <1>3, <1>4, <1>5, <1>6, <1>7 DEF ModesTyped
  <1>10. Encrypting /\ OwnData
    BY <1>2, <1>3, <1>5 DEF Encrypting, OwnData
  <1>11. Decrypting
    BY <1>2, <1>5 DEF Decrypting
  <1> QED BY <1>8, <1>9, <1>10, <1>11 DEF BlocksInv

\* The checks let the blocks through that fit, and one's own data.
LEMMA CheckKeeps == ASSUME Modes!ModesAssumption, BlocksInv, Modes!Check PROVE BlocksInv'
  <1>1. /\ modePc = "check" /\ ModesTyped /\ call.op # "crypt"
        /\ plain' = plain /\ call' = call /\ data' = data /\ out' = out /\ blocks' = blocks /\ padded_size' = padded_size
    BY DEF Modes!Check, BlocksInv, ModesTyped
  <1> DEFINE e == IF call.op = "encrypt" THEN Modes!check_encrypt_cond ELSE Modes!check_decrypt_cond
  <1>2. modePc' = IF e = "Ok" THEN "blocks" ELSE e
    BY Zenon DEF Modes!Check
  <1>3. e \in {"Ok", "InvalidDataSize", "InvalidKeySize", "InvalidBufferSize"}
    BY DEF Modes!check_encrypt_cond, Modes!check_decrypt_cond
  <1>4. /\ call.op \in {"encrypt", "decrypt"} /\ call.pads \in BOOLEAN /\ call.key_ok \in BOOLEAN
        /\ call.size \in Nat /\ data \in ByteSeqs /\ Len(data) \in Nat
    BY <1>1, CallTypes DEF ModesTyped, ByteSeqs
  <1>5. /\ (e = "Ok" /\ modePc' = "blocks") \/ (e # "Ok" /\ modePc' = e)
        /\ modePc' \notin {"check", "bytes", "Ok"}
    <2> HIDE DEF e
    <2> QED BY <1>2, <1>3
  <1>6. kStateSize \in Nat \ {0}
    BY ModesTypes
  <1>7. ModesTyped'
    BY <1>1, <1>5 DEF ModesTyped, Buffers, Modes!Calls, Modes!CtrCalls
  <1>8. Modes!InBounds'
    BY <1>1 DEF BlocksInv, Modes!InBounds, Modes!FirstBlockUnasked
  <1>9. Encrypting'
    <2> SUFFICES ASSUME call.op = "encrypt" PROVE Encrypting'
      BY <1>1 DEF Encrypting
    <2>1. plain = data /\ padded_size = 0 /\ blocks = 0
      BY <1>1 DEF BlocksInv, Encrypting
    <2>2. CASE e = "Ok"
      <3>1. (call.pads \/ Rest(data) = 0) /\ call.key_ok /\ ~(call.size < Modes!OutputSize)
        BY <2>2 DEF Modes!check_encrypt_cond, Modes!Rem, Rest
      <3>2. Modes!OutputSize = Total(call.pads, data) * kStateSize /\ Modes!OutputSize \in Nat
        <4>1. Total(call.pads, data) * kStateSize = IF call.pads THEN Len(data) + (kStateSize - Rest(data)) ELSE Len(data)
          BY <1>4, <3>1, TotalFacts
        <4>2. Rest(data) \in 0 .. kStateSize - 1
          BY <1>4, <3>1, TotalFacts
        <4>3. Modes!OutputSize = IF call.pads THEN Len(data) + kStateSize - Rest(data) ELSE Len(data)
          BY DEF Modes!OutputSize, Modes!get_padded_encrypted_size, Rest
        <4> QED BY <1>4, <1>6, <4>1, <4>2, <4>3
      <3>3. Total(call.pads, data) * kStateSize <= call.size
        BY <1>4, <3>1, <3>2
      <3>4. 0 <= Len(data) \div kStateSize
        BY <1>4, <1>6
      <3>5. Enciphered(call.mode, call.iv, data, out, 0)
        BY DEF Enciphered
      <3> QED BY <1>1, <1>5, <2>1, <3>1, <3>3, <3>4, <3>5 DEF Encrypting
    <2>3. CASE e # "Ok"
      BY <1>1, <1>3, <1>5, <2>1, <2>3 DEF Encrypting
    <2> QED BY <2>2, <2>3
  <1>10. Decrypting'
    <2> SUFFICES ASSUME call.op = "decrypt" PROVE Decrypting'
      BY <1>1 DEF Decrypting
    <2>1. blocks = 0
      BY <1>1 DEF BlocksInv, Decrypting
    <2>2. CASE e = "Ok" /\ data = <<>>
      BY <1>1, <1>5, <2>1, <2>2 DEF Decrypting
    <2>3. CASE e = "Ok" /\ data # <<>>
      <3>1. /\ Len(data) % kStateSize = 0
            /\ call.pads => data # <<>> /\ ~(call.size < Len(data) - kStateSize)
            /\ ~call.pads => ~(call.size < Len(data))
        BY <2>3 DEF Modes!check_decrypt_cond, Modes!Rem
      <3> DEFINE n == Len(data) \div kStateSize
      <3>3. n \in Nat /\ Len(data) = n * kStateSize
        <4>1. Rest(data) = 0
          BY <3>1 DEF Rest
        <4>2. n \in Nat /\ Len(data) = n * kStateSize + Rest(data) /\ n * kStateSize \in Nat
          BY <1>4, <4>1, TotalFacts
        <4> HIDE DEF n
        <4> QED BY <4>1, <4>2
      <3> HIDE DEF n
      <3>4. Len(data) # 0
        BY <1>4, <2>3 DEF ByteSeqs
      <3>5. n # 0 /\ (n - 1) * kStateSize = Len(data) - kStateSize
        BY <1>6, <3>3, <3>4
      <3>6. blocks < n /\ (n - 1) * kStateSize <= call.size /\ (call.pads \/ n * kStateSize <= call.size)
        BY <1>4, <1>6, <2>1, <3>1, <3>3, <3>5
      <3> QED BY <1>1, <1>5, <2>1, <3>3, <3>6 DEF Decrypting
    <2>4. CASE e # "Ok"
      BY <1>1, <1>3, <1>5, <2>1, <2>4 DEF Decrypting
    <2> QED BY <2>2, <2>3, <2>4
  <1>11. OwnData'
    <2> SUFFICES ASSUME call.op = "decrypt", plain # Modes!NoMessage PROVE OwnData'
      BY <1>1 DEF OwnData
    <2>1. Total(call.pads, plain) # 0 /\ call.size >= Len(data) => e = "Ok"
      <3> DEFINE n == Total(call.pads, plain)
      <3> SUFFICES ASSUME n # 0, call.size >= Len(data) PROVE e = "Ok"
        OBVIOUS
      <3>1. n # 0 /\ Len(data) = n * kStateSize /\ call.key_ok /\ (call.pads \/ Rest(plain) = 0)
        BY DEF BlocksInv, OwnData
      <3>2. n \in Nat
        BY <1>1, <1>4, <3>1, TotalFacts DEF ModesTyped
      <3> HIDE DEF n
      <3>3. Len(data) % kStateSize = 0
        <4>1. Len(data) = n * kStateSize + 0 /\ 0 \in 0 .. kStateSize - 1
          BY <1>4, <1>6, <3>1
        <4>2. (n * kStateSize + 0) % kStateSize = 0
          BY <1>6, <3>2, <4>1, DivUnique
        <4> QED BY <4>1, <4>2
      <3>4. data # <<>>
        <4>1. n * kStateSize # 0
          BY <1>6, <3>1, <3>2
        <4> QED BY <3>1, <4>1
      <3> QED BY <1>4, <1>6, <3>1, <3>3, <3>4 DEF Modes!check_decrypt_cond, Modes!Rem
    <2>2. modePc' # "Ok" /\ (modePc' = "blocks" \/ ~(Total(call.pads, plain) # 0 /\ call.size >= Len(data)))
      BY <1>5, <2>1
    <2>3. modePc = "check"
      BY <1>1
    <2> HIDE DEF e
    <2> QED BY <1>1, <2>2, <2>3 DEF BlocksInv, OwnData
  <1> QED BY <1>7, <1>8, <1>9, <1>10, <1>11 DEF BlocksInv

\* Nothing behind the size is written by a copy that ends before it.
LEMMA CopyInBounds ==
    ASSUME Modes!ModesAssumption, NEW x \in Buffers, NEW at \in Nat, NEW n \in Nat, NEW y \in [1 .. n -> Written],
           NEW l \in Nat, at + n <= l
    PROVE  \A k \in Modes!Space : k > l => Modes!memcpy(x, at, y)[k] = x[k]
  <1> TAKE k \in Modes!Space
  <1>1. k \in Nat
    BY BufferIsSeq
  <1>2. k > l => ~(k \in at + 1 .. at + n)
    BY <1>1
  <1>3. Modes!memcpy(x, at, y)[k] = IF k \in at + 1 .. at + n THEN y[k - at] ELSE x[k]
    BY CopyFacts
  <1> QED BY <1>2, <1>3

\* A block may be written to the buffer.
LEMMA StateIsWritten == ASSUME Modes!ModesAssumption, NEW x \in Modes!States
    PROVE  x \in [1 .. kStateSize -> Written] /\ kStateSize \in Nat
  <1>1. \A k \in Modes!Bytes : k \in Written
    BY ModesTypes DEF Modes!Bytes, Written
  <1> QED BY <1>1, ModesTypes DEF Modes!States

\* One block of an encryption, padded or not.
LEMMA EncryptOne ==
    ASSUME Modes!ModesAssumption, BlocksInv, call.op = "encrypt", modePc = "blocks",
           (blocks + 1) * kStateSize <= call.size, NEW y,
           y = Modes!memcpy(out, blocks * kStateSize,
                            encrypt_state(Modes!xor_data(Pattern(data, blocks), Modes!Previous(out))))
    PROVE  y \in Buffers /\ Enciphered(call.mode, call.iv, data, y, blocks + 1) /\ Within(y)
  <1>1. /\ call.iv \in Modes!States /\ call.size \in Nat /\ call.size <= MaxBlocks * kStateSize
        /\ data \in ByteSeqs /\ out \in Buffers /\ blocks \in Nat /\ call.pads \in BOOLEAN
        /\ MaxBlocks * kStateSize \in Nat
    BY CallTypes DEF BlocksInv, ModesTyped
  <1>2. Enciphered(call.mode, call.iv, data, out, blocks) /\ (call.pads \/ Rest(data) = 0)
    BY DEF BlocksInv, Encrypting
  <1> DEFINE K == kStateSize
             p == blocks * K
  <1>3. K \in Nat \ {0} /\ p \in Nat /\ (blocks + 1) * K = p + K
    BY <1>1, ModesTypes
  <1>4. out \in Seq(Written) /\ Len(out) = SpaceLen /\ SpaceLen \in Nat /\ MaxBlocks * K <= SpaceLen
    BY <1>1, BufferIsSeq
  <1> HIDE DEF p
  <1>5. p + K <= call.size /\ p + K <= SpaceLen /\ p <= Len(out)
    BY <1>1, <1>3, <1>4
  <1>6. \A b \in Nat : Pattern(data, b) \in Modes!States
    BY <1>1, <1>2, PatternFacts
  <1>7. \A b \in 0 .. blocks - 1 : Part(out, b) \in Modes!States
    <2>1. \A b \in 0 .. blocks - 1 : Pattern(data, b) \in Modes!States
      BY <1>1, <1>6
    <2> DEFINE mode == call.mode
               iv == call.iv
    <2>2. iv \in Modes!States /\ Enciphered(mode, iv, data, out, blocks)
      BY <1>1, <1>2
    <2> HIDE DEF mode, iv
    <2> QED BY <1>1, <2>1, <2>2, EncipheredBytes
  <1>8. blocks # 0 => /\ blocks - 1 \in 0 .. blocks - 1 /\ blocks - 1 \in Nat /\ blocks - 1 < blocks
                      /\ Modes!BlockAt(out, blocks - 1) = Part(out, blocks - 1)
    <2>1. blocks # 0 => blocks - 1 \in 0 .. blocks - 1 /\ blocks - 1 \in Nat /\ blocks - 1 < blocks
      BY <1>1
    <2>2. blocks * kStateSize <= Len(out)
      BY <1>5 DEF p
    <2>3. blocks # 0 => Modes!BlockAt(out, blocks - 1) = Part(out, blocks - 1)
      BY <1>1, <1>4, <2>1, <2>2, BlockIsPart
    <2> QED BY <2>1, <2>3
  <1>9. Modes!Previous(out) = Before(call.mode, call.iv, out, blocks)
    BY <1>8 DEF Modes!Previous, Before
  <1>10. Before(call.mode, call.iv, out, blocks) \in Modes!States
    BY <1>1, <1>7, <1>8, ModesTypes DEF Before
  <1> DEFINE z == encrypt_state(Modes!xor_data(Pattern(data, blocks), Before(call.mode, call.iv, out, blocks)))
  <1>11. z \in Modes!States
    BY <1>1, <1>6, <1>10, ModesTypes
  <1>12. y = Modes!memcpy(out, p, z)
    BY <1>9 DEF p
  <1>13. Enciphered(call.mode, call.iv, data, y, blocks + 1)
    <2>1. (blocks + 1) * kStateSize <= SpaceLen
      BY <1>3, <1>5
    <2> HIDE DEF K
    <2> QED BY <1>1, <1>2, <1>11, <1>12, <2>1, OneMoreBlock DEF p, K
  <1> HIDE DEF z
  <1>14. z \in [1 .. K -> Written]
    BY <1>11, StateIsWritten
  <1> HIDE DEF K
  <1>15. y \in Buffers
    <2>1. p \in Nat /\ K \in Nat /\ out \in Buffers
      BY <1>1, <1>3
    <2>2. Modes!memcpy(out, p, z) \in Buffers
      BY <1>14, <2>1, CopyFacts
    <2> QED BY <1>12, <2>2
  <1>16. Within(y)
    <2>1. Within(out)
      BY DEF BlocksInv, Modes!InBounds, Within
    <2> DEFINE l == call.size
    <2>2. l \in Nat /\ p \in Nat /\ K \in Nat /\ p + K <= l /\ out \in Buffers
      BY <1>1, <1>3, <1>5
    <2> HIDE DEF l
    <2>3. \A k \in Modes!Space : k > l => Modes!memcpy(out, p, z)[k] = out[k]
      BY <1>14, <2>2, CopyInBounds
    <2> QED BY <1>12, <2>1, <2>3 DEF l, Within
  <1> QED BY <1>13, <1>15, <1>16

\* A block of the message is enciphered.
LEMMA EncryptBlockKeeps == ASSUME Modes!ModesAssumption, BlocksInv, Modes!EncryptBlock PROVE BlocksInv'
  <1>1. /\ modePc = "blocks" /\ call.op = "encrypt" /\ blocks < Len(data) \div kStateSize
        /\ out' = Modes!memcpy(out, blocks * kStateSize, encrypt_state(Modes!xor_data(Modes!BlockAt(data, blocks), Modes!Previous(out))))
        /\ blocks' = blocks + 1
        /\ plain' = plain /\ call' = call /\ data' = data /\ modePc' = modePc /\ padded_size' = padded_size
    BY DEF Modes!EncryptBlock, Modes!BlocksOf
  <1>2. data \in ByteSeqs /\ blocks \in Nat /\ call.size \in Nat /\ call.pads \in BOOLEAN
    BY <1>1, CallTypes DEF BlocksInv, ModesTyped
  <1>3. /\ call.pads \/ Rest(data) = 0
        /\ Total(call.pads, data) * kStateSize <= call.size /\ plain = data /\ padded_size = 0 /\ call.key_ok
    BY <1>1 DEF BlocksInv, Encrypting
  <1> DEFINE q == Len(data) \div kStateSize
             n == Total(call.pads, data)
  <1>4. q \in Nat /\ n \in Nat /\ q <= n
    BY <1>2, <1>3, TotalFacts
  <1> HIDE DEF q, n
  <1>5. blocks + 1 <= q /\ blocks < n
    BY <1>1, <1>2, <1>4 DEF q
  <1>6. (blocks + 1) * kStateSize <= call.size
    <2>1. blocks * kStateSize + kStateSize <= n * kStateSize /\ n * kStateSize <= call.size
      BY <1>2, <1>3, <1>4, <1>5, ModesTypes, MulStep DEF n
    <2>2. (blocks + 1) * kStateSize = blocks * kStateSize + kStateSize /\ n * kStateSize \in Nat /\ blocks * kStateSize \in Nat
      BY <1>2, <1>4, ModesTypes
    <2> QED BY <1>2, <2>1, <2>2, ModesTypes
  <1>7. Modes!BlockAt(data, blocks) = Pattern(data, blocks)
    BY <1>1, <1>2, <1>3, PatternFacts
  <1>8. /\ out' \in Buffers /\ Enciphered(call.mode, call.iv, data, out', blocks + 1)
        /\ Within(out')
    BY <1>1, <1>6, <1>7, EncryptOne
  <1>9. ModesTyped'
    BY <1>1, <1>8 DEF BlocksInv, ModesTyped, Buffers, Modes!Calls, Modes!CtrCalls
  <1>10. Modes!InBounds'
    BY <1>1, <1>8 DEF Modes!InBounds, Modes!FirstBlockUnasked, Within
  <1>11. Encrypting'
    BY <1>1, <1>3, <1>5, <1>8 DEF Encrypting, q
  <1>12. Decrypting' /\ OwnData'
    BY <1>1 DEF Decrypting, OwnData
  <1> QED BY <1>9, <1>10, <1>11, <1>12 DEF BlocksInv

\* The block with the padding is enciphered, if there is one.
LEMMA EncryptLastKeeps == ASSUME Modes!ModesAssumption, BlocksInv, Modes!EncryptLast PROVE BlocksInv'
  <1>1. /\ modePc = "blocks" /\ call.op = "encrypt" /\ blocks = Len(data) \div kStateSize
        /\ out' = IF call.pads \/ (call.mode = "cbc" /\ data = <<>>)
                  THEN Modes!memcpy(out, blocks * kStateSize, encrypt_state(Modes!xor_data(Modes!LastBlock, Modes!Previous(out))))
                  ELSE out
        /\ modePc' = "Ok" /\ blocks' = blocks
        /\ plain' = plain /\ call' = call /\ data' = data /\ padded_size' = padded_size
    BY DEF Modes!EncryptLast, Modes!BlocksOf
  <1>2. data \in ByteSeqs /\ blocks \in Nat /\ call.size \in Nat /\ call.pads \in BOOLEAN
    BY <1>1, CallTypes DEF BlocksInv, ModesTyped
  <1>3. /\ call.pads \/ Rest(data) = 0
        /\ Total(call.pads, data) * kStateSize <= call.size /\ plain = data /\ padded_size = 0 /\ call.key_ok
        /\ Enciphered(call.mode, call.iv, data, out, blocks)
    BY <1>1 DEF BlocksInv, Encrypting
  <1>4. Total(call.pads, data) = IF call.pads THEN blocks + 1 ELSE blocks
    BY <1>1, <1>2, <1>3, TotalFacts
  <1>5. /\ out' \in Buffers /\ Enciphered(call.mode, call.iv, data, out', Total(call.pads, data))
        /\ Within(out')
    <2>1. Modes!LastBlock = Pattern(data, blocks)
      BY <1>1, <1>2, LastIsPattern DEF Modes!LastBlock, Modes!Rem, Rest
    <2>2. CASE call.pads
      <3>1. (blocks + 1) * kStateSize <= call.size
        BY <1>3, <1>4, <2>2
      <3> QED BY <1>1, <1>4, <2>1, <2>2, <3>1, EncryptOne
    <2>3. CASE ~call.pads /\ ~(call.mode = "cbc" /\ data = <<>>)
      BY <1>1, <1>3, <1>4, <2>3 DEF BlocksInv, ModesTyped, Modes!InBounds, Within
    <2>4. CASE ~call.pads /\ call.mode = "cbc" /\ data = <<>>
      <3> DEFINE y == encrypt_state(Modes!xor_data(Pattern(data, 0), call.iv))
      <3>1. blocks = 0
        <4>1. Rest(data) = 0 /\ Len(data) = 0
          BY <1>3, <2>4
        <4>2. kStateSize \in Nat \ {0} /\ 0 * kStateSize + 0 = 0
          BY ModesTypes
        <4>3. (0 * kStateSize + 0) \div kStateSize = 0
          BY <4>2, DivUnique
        <4> QED BY <1>1, <4>1, <4>2, <4>3
      <3>2. y \in Modes!States
        <4>1. Pattern(data, 0) \in Modes!States /\ call.iv \in Modes!States
          BY <1>1, <1>2, <1>3, PatternFacts, CallTypes DEF BlocksInv
        <4> QED BY <4>1, ModesTypes
      <3>3. out' = Modes!memcpy(out, 0, y)
        <4>1. Modes!Previous(out) = call.iv /\ blocks * kStateSize = 0
          BY <2>4, <3>1, ModesTypes DEF Modes!Previous
        <4> QED BY <1>1, <2>1, <2>4, <3>1, <4>1
      <3> HIDE DEF y
      <3>4. y \in [1 .. kStateSize -> Written] /\ kStateSize \in Nat /\ 0 \in Nat /\ out \in Buffers
        BY <3>2, StateIsWritten DEF BlocksInv, ModesTyped
      <3>5. /\ out' \in Buffers
            /\ \A k \in Modes!Space : out'[k] = IF k \in 0 + 1 .. 0 + kStateSize THEN y[k - 0] ELSE out[k]
        <4>1. /\ Modes!memcpy(out, 0, y) \in Buffers
              /\ \A k \in Modes!Space : Modes!memcpy(out, 0, y)[k] = IF k \in 0 + 1 .. 0 + kStateSize THEN y[k - 0] ELSE out[k]
          BY <3>4, CopyFacts
        <4> QED BY <3>3, <4>1
      <3>6. Within(out')
        <4>1. Within(out) /\ Modes!FirstBlockUnasked
          BY <1>1, <2>4 DEF BlocksInv, Modes!InBounds, Modes!FirstBlockUnasked, Within
        <4>2. \A k \in 0 + 1 .. 0 + kStateSize : k <= kStateSize
          BY <3>4
        <4> QED BY <3>5, <4>1, <4>2 DEF Within
      <3>7. Enciphered(call.mode, call.iv, data, out', 0) /\ Total(call.pads, data) = 0
        BY <1>4, <2>4, <3>1 DEF Enciphered
      <3> QED BY <3>5, <3>6, <3>7
    <2> QED BY <2>2, <2>3, <2>4
  <1>6. ModesTyped'
    BY <1>1, <1>5 DEF BlocksInv, ModesTyped, Buffers, Modes!Calls, Modes!CtrCalls
  <1>7. Modes!InBounds'
    BY <1>1, <1>5 DEF Modes!InBounds, Modes!FirstBlockUnasked, Within
  <1>8. Encrypting'
    BY <1>1, <1>3, <1>5 DEF Encrypting
  <1>9. Decrypting' /\ OwnData'
    BY <1>1 DEF Decrypting, OwnData
  <1> QED BY <1>6, <1>7, <1>8, <1>9 DEF BlocksInv

\* A block of ciphertext becomes a block, and one's own the block of the message.
LEMMA DecipherFacts ==
    ASSUME Modes!ModesAssumption, BlocksInv, call.op = "decrypt", modePc = "blocks",
           NEW n \in Nat, Len(data) = n * kStateSize, blocks < n
    PROVE  /\ Modes!Deciphered \in Modes!States
           /\ plain # Modes!NoMessage => /\ Modes!Deciphered = Pattern(plain, blocks)
                                         /\ n = Total(call.pads, plain) /\ plain \in ByteSeqs
                                         /\ (call.pads \/ Rest(plain) = 0) /\ call.pads \in BOOLEAN
  <1>1. /\ call.iv \in Modes!States /\ data \in Seq(Modes!Bytes) /\ blocks \in Nat /\ call.pads \in BOOLEAN
        /\ plain = Modes!NoMessage \/ plain \in ByteSeqs
    BY CallTypes DEF BlocksInv, ModesTyped, ByteSeqs
  <1>2. n * kStateSize <= Len(data)
    <2>1. Len(data) \in Nat
      BY <1>1
    <2> QED BY <2>1
  <1>3. Modes!BlockAt(data, blocks) = Part(data, blocks) /\ Part(data, blocks) \in Modes!States
    <2> DEFINE S == Modes!Bytes
    <2>1. data \in Seq(S)
      BY <1>1
    <2> HIDE DEF S
    <2>2. Modes!BlockAt(data, blocks) = Part(data, blocks) /\ Part(data, blocks) \in [1 .. kStateSize -> S]
      BY <1>1, <1>2, <2>1, BlockIsPart
    <2> QED BY <2>2 DEF S, Modes!States
  <1>4. blocks # 0 => Modes!BlockAt(data, blocks - 1) = Part(data, blocks - 1) /\ Part(data, blocks - 1) \in Modes!States
    <2> DEFINE S == Modes!Bytes
    <2>1. data \in Seq(S)
      BY <1>1
    <2> HIDE DEF S
    <2>2. blocks # 0 => blocks - 1 \in Nat /\ blocks - 1 < n
      BY <1>1
    <2>3. blocks # 0 => Modes!BlockAt(data, blocks - 1) = Part(data, blocks - 1) /\ Part(data, blocks - 1) \in [1 .. kStateSize -> S]
      BY <1>1, <1>2, <2>1, <2>2, BlockIsPart
    <2> QED BY <2>3 DEF S, Modes!States
  <1> DEFINE v == Before(call.mode, call.iv, data, blocks)
  <1>5. Modes!Previous(data) = v /\ v \in Modes!States
    BY <1>1, <1>4, ModesTypes DEF Modes!Previous, Before
  <1>6. Modes!Deciphered = Modes!xor_data(decrypt_state(Part(data, blocks)), v)
    BY <1>3, <1>5 DEF Modes!Deciphered
  <1> HIDE DEF v
  <1>7. Modes!Deciphered \in Modes!States
    BY <1>3, <1>5, <1>6, ModesTypes
  <1>8. ASSUME plain # Modes!NoMessage
        PROVE  /\ Modes!Deciphered = Pattern(plain, blocks)
               /\ n = Total(call.pads, plain) /\ plain \in ByteSeqs
               /\ (call.pads \/ Rest(plain) = 0)
    <2> DEFINE N == Total(call.pads, plain)
    <2>1. /\ plain \in ByteSeqs /\ (call.pads \/ Rest(plain) = 0) /\ Len(data) = N * kStateSize
          /\ Enciphered(call.mode, call.iv, plain, data, N)
      BY <1>1, <1>8 DEF BlocksInv, OwnData
    <2>2. N \in Nat
      BY <1>1, <2>1, TotalFacts
    <2> HIDE DEF N
    <2>3. n = N
      BY <2>1, <2>2, SameQuotient, ModesTypes
    <2>4. Pattern(plain, blocks) \in Modes!States
      BY <1>1, <2>1, PatternFacts
    <2>5. blocks \in 0 .. N - 1
      BY <1>1, <2>3
    <2>6. Part(data, blocks) = encrypt_state(Modes!xor_data(Pattern(plain, blocks), v))
      BY <2>1, <2>5 DEF Enciphered, v
    <2>7. decrypt_state(Part(data, blocks)) = Modes!xor_data(Pattern(plain, blocks), v)
      BY <1>5, <2>4, <2>6, ModesTypes
    <2>8. Modes!Deciphered = Pattern(plain, blocks)
      BY <1>5, <1>6, <2>4, <2>7, ModesTypes
    <2> QED BY <2>1, <2>3, <2>8 DEF N
  <1> QED BY <1>1, <1>7, <1>8

\* A block of the message, or the beginning of its last one, behind those that are there.
LEMMA MessageGrows ==
    ASSUME Modes!ModesAssumption, NEW m \in ByteSeqs, NEW x \in Buffers, NEW b \in Nat, NEW p \in Nat, p = b * kStateSize,
           NEW t \in Nat, t <= kStateSize, NEW y \in [1 .. t -> Written], \A j \in 1 .. t : y[j] = Pattern(m, b)[j],
           p + t <= Len(m), p + t <= SpaceLen, \A k \in 1 .. p : x[k] = m[k]
    PROVE  \A k \in 1 .. p + t : Modes!memcpy(x, p, y)[k] = m[k]
  <1> DEFINE K == kStateSize
             l == Len(m)
             v == Pattern(m, b)
             z == Modes!memcpy(x, p, y)
  <1>1. K \in Nat \ {0} /\ p \in Nat /\ l \in Nat /\ Modes!Space = 1 .. SpaceLen /\ SpaceLen \in Nat
    BY ModesTypes, BufferIsSeq DEF ByteSeqs
  <1>2. \A j \in 1 .. K : v[j] = IF p + j <= l THEN m[p + j] ELSE K - (l % K)
    BY DEF Pattern
  <1>3. /\ t \in Nat /\ t <= K /\ p + t <= l /\ p + t <= SpaceLen /\ \A j \in 1 .. t : y[j] = v[j]
        /\ \A k \in 1 .. p : x[k] = m[k]
    BY <1>1
  <1>4. \A k \in Modes!Space : z[k] = IF k \in p + 1 .. p + t THEN y[k - p] ELSE x[k]
    BY CopyFacts, SMTT(60)
  <1> HIDE DEF K, l, v, z
  <1>5. ASSUME NEW k \in 1 .. p + t PROVE z[k] = m[k]
    <2>1. k \in Modes!Space
      BY <1>1, <1>3
    <2>2. CASE k <= p
      <3>1. k \in 1 .. p /\ k \notin p + 1 .. p + t
        BY <1>1, <1>3, <2>2
      <3> QED BY <1>3, <1>4, <2>1, <3>1
    <2>3. CASE ~(k <= p)
      <3> DEFINE j == k - p
      <3>1. k \in p + 1 .. p + t /\ j \in 1 .. t /\ k = p + j
        BY <1>1, <1>3, <2>3
      <3> HIDE DEF j
      <3>3. j \in 1 .. K /\ k <= l
        BY <1>1, <1>3, <3>1
      <3>2. v[j] = m[k]
        BY <1>2, <3>1, <3>3
      <3>4. y[j] = v[j]
        BY <1>3, <3>1
      <3> QED BY <1>4, <2>1, <3>1, <3>2, <3>4 DEF j
    <2> QED BY <2>2, <2>3
  <1> QED BY <1>5 DEF z

\* Nothing has no blocks.
LEMMA NoBlocks == ASSUME Modes!ModesAssumption PROVE Len(<<>>) \div kStateSize = 0
  <1>1. kStateSize \in Nat \ {0} /\ 0 * kStateSize + 0 = 0
    BY ModesTypes
  <1>2. (0 * kStateSize + 0) \div kStateSize = 0
    BY <1>1, DivUnique
  <1> QED BY <1>1, <1>2

\* A block before the last is deciphered.
LEMMA DecryptBlockKeeps == ASSUME Modes!ModesAssumption, BlocksInv, Modes!DecryptBlock PROVE BlocksInv'
  <1>1. /\ modePc = "blocks" /\ call.op = "decrypt" /\ blocks + 1 < Len(data) \div kStateSize
        /\ out' = Modes!memcpy(out, blocks * kStateSize, Modes!Deciphered)
        /\ blocks' = blocks + 1
        /\ plain' = plain /\ call' = call /\ data' = data /\ modePc' = modePc /\ padded_size' = padded_size
    BY DEF Modes!DecryptBlock, Modes!BlocksOf
  <1>2. data \in ByteSeqs /\ blocks \in Nat /\ call.size \in Nat /\ out \in Buffers
        /\ call.size <= MaxBlocks * kStateSize
    BY <1>1, CallTypes DEF BlocksInv, ModesTyped
  <1>3. PICK n \in Nat : /\ Len(data) = n * kStateSize /\ blocks < n /\ (n - 1) * kStateSize <= call.size
                         /\ call.pads \/ n * kStateSize <= call.size
    <2>1. data # <<>>
      BY <1>1, <1>2, NoBlocks
    <2> QED BY <1>1, <2>1 DEF BlocksInv, Decrypting
  <1> DEFINE K == kStateSize
             p == blocks * K
             y == Modes!Deciphered
             z == Modes!memcpy(out, p, y)
  <1>4. K \in Nat \ {0} /\ p \in Nat /\ (blocks + 1) * K = p + K
    BY <1>2, ModesTypes
  <1>5. blocks < n - 1
    <2>1. (n * K + 0) \div K = n
      BY <1>4, DivUnique
    <2>2. n * K + 0 = n * K
      BY <1>4
    <2>3. blocks + 1 < n
      BY <1>1, <1>3, <2>1, <2>2
    <2> QED BY <1>2, <2>3
  <1>6. y \in Modes!States /\ (plain # Modes!NoMessage => y = Pattern(plain, blocks)
            /\ n = Total(call.pads, plain) /\ plain \in ByteSeqs /\ (call.pads \/ Rest(plain) = 0) /\ call.pads \in BOOLEAN)
    BY <1>1, <1>3, DecipherFacts
  <1>7. y \in [1 .. K -> Written]
    BY <1>6, StateIsWritten
  <1>8. (n - 1) * K \in Nat /\ p + K <= (n - 1) * K /\ p + K <= call.size /\ p + K <= SpaceLen /\ n - 1 \in Nat
    <2>1. n - 1 \in Nat
      BY <1>2, <1>5
    <2>2. p + K <= (n - 1) * K /\ (n - 1) * K \in Nat
      BY <1>2, <1>4, <1>5, <2>1, MulStep
    <2>3. MaxBlocks * K <= SpaceLen /\ MaxBlocks * K \in Nat /\ SpaceLen \in Nat
      BY <1>2, BufferIsSeq
    <2> DEFINE q == (n - 1) * K
               w == MaxBlocks * K
    <2>4. q \in Nat /\ p + K <= q /\ q <= call.size /\ call.size <= w /\ w <= SpaceLen /\ w \in Nat /\ SpaceLen \in Nat
      BY <1>2, <1>3, <2>2, <2>3
    <2> HIDE DEF p, q, w
    <2>5. p + K <= call.size /\ p + K <= SpaceLen
      BY <1>2, <1>4, <2>4
    <2> QED BY <2>1, <2>2, <2>5
  <1>9. z \in Buffers
    <2> HIDE DEF K, p, y
    <2> QED BY <1>2, <1>4, <1>7, CopyFacts
  <1>10. Within(z)
    <2> DEFINE l == call.size
    <2>1. l \in Nat /\ p + K <= l /\ K \in Nat
      BY <1>1, <1>2, <1>4, <1>8
    <2>2. Within(out)
      BY <1>1 DEF BlocksInv, Modes!InBounds, Within
    <2> HIDE DEF l, K, p, y
    <2>3. \A k \in Modes!Space : k > l => z[k] = out[k]
      BY <1>2, <1>4, <1>7, <2>1, CopyInBounds
    <2> HIDE DEF z
    <2> QED BY <2>2, <2>3 DEF l, Within
  <1>11. ModesTyped'
    <2>1. out' \in Buffers /\ blocks' \in Nat
      BY <1>1, <1>2, <1>9
    <2> HIDE DEF z
    <2> QED BY <1>1, <2>1 DEF BlocksInv, ModesTyped, Buffers, Modes!Calls, Modes!CtrCalls
  <1>12. Modes!InBounds'
    <2>1. out' = z
      BY <1>1
    <2> HIDE DEF z
    <2> QED BY <1>1, <1>10, <2>1 DEF Modes!InBounds, Modes!FirstBlockUnasked, Within
  <1>13. Decrypting'
    <2>1. blocks' < n
      BY <1>1, <1>2, <1>5
    <2> QED BY <1>1, <1>3, <2>1 DEF Decrypting
  <1>14. OwnData'
    <2> SUFFICES ASSUME plain # Modes!NoMessage PROVE OwnData'
      BY <1>1 DEF OwnData
    <2>1. \A k \in 1 .. blocks * kStateSize : out[k] = plain[k]
      BY <1>1 DEF BlocksInv, OwnData
    <2>2. /\ y = Pattern(plain, blocks) /\ n = Total(call.pads, plain) /\ plain \in ByteSeqs
          /\ (call.pads \/ Rest(plain) = 0) /\ call.pads \in BOOLEAN
      BY <1>6
    <2>3. p + K <= Len(plain)
      <3> DEFINE t == (n - 1) * K
      <3>1. n * K = t + K
        BY <1>3, <1>4, <1>8
      <3>2. /\ n * K = IF call.pads THEN Len(plain) + (K - Rest(plain)) ELSE Len(plain)
            /\ Rest(plain) \in 0 .. K - 1 /\ Len(plain) \in Nat
        BY <2>2, TotalFacts DEF ByteSeqs
      <3>3. t \in Nat /\ p + K <= t
        BY <1>8
      <3> HIDE DEF t, p
      <3> QED BY <1>4, <3>1, <3>2, <3>3
    <2>4. \A k \in 1 .. p + K : z[k] = plain[k]
      <3>1. /\ K \in Nat /\ K <= kStateSize /\ \A j \in 1 .. K : y[j] = Pattern(plain, blocks)[j]
            /\ p = blocks * kStateSize /\ \A k \in 1 .. p : out[k] = plain[k]
        BY <1>4, <2>1, <2>2
      <3>2. p \in Nat /\ p + K <= SpaceLen
        BY <1>4, <1>8
      <3>3. blocks \in Nat /\ out \in Buffers /\ plain \in ByteSeqs /\ p + K <= Len(plain) /\ y \in [1 .. K -> Written]
        BY <1>2, <1>7, <2>2, <2>3
      <3>4. z = Modes!memcpy(out, p, y)
        OBVIOUS
      <3> HIDE DEF y, p, K, z
      <3>5. \A k \in 1 .. p + K : Modes!memcpy(out, p, y)[k] = plain[k]
        BY <3>1, <3>2, <3>3, MessageGrows
      <3> QED BY <3>4, <3>5
    <2>5. \A k \in 1 .. blocks' * kStateSize : out'[k] = plain[k]
      <3>1. blocks' * kStateSize = p + K /\ out' = z
        BY <1>1, <1>4
      <3> HIDE DEF z, p, K
      <3> QED BY <2>4, <3>1
    <2> HIDE DEF z
    <2> QED BY <1>1, <2>5 DEF BlocksInv, OwnData
  <1>15. Encrypting'
    BY <1>1 DEF Encrypting
  <1> QED BY <1>11, <1>12, <1>13, <1>14, <1>15 DEF BlocksInv

\* The last block of a message ends in its padding.
LEMMA LastBlockFacts ==
    ASSUME Modes!ModesAssumption, NEW m \in ByteSeqs, NEW pads \in BOOLEAN, pads \/ Rest(m) = 0,
           NEW b \in Nat, b + 1 = Total(pads, m), NEW p \in Nat, p = b * kStateSize
    PROVE  /\ Len(m) = p + (IF pads THEN Rest(m) ELSE kStateSize)
           /\ pads => /\ Pattern(m, b)[kStateSize] = kStateSize - Rest(m)
                      /\ Modes!check_padding(kStateSize - Rest(m), Pattern(m, b))
  <1> DEFINE K == kStateSize
             l == Len(m)
             q == l \div K
             r == Rest(m)
             v == Pattern(m, b)
  <1>1. K \in Nat \ {0} /\ l \in Nat
    BY ModesTypes DEF ByteSeqs
  <1>2. r \in 0 .. K - 1 /\ q \in Nat /\ l = q * K + r /\ Total(pads, m) = (IF pads THEN q + 1 ELSE q)
    BY TotalFacts
  <1>3. \A j \in 1 .. K : v[j] = IF p + j <= l THEN m[p + j] ELSE K - r
    BY DEF Pattern, Rest
  <1> HIDE DEF K, l, q, r, v
  <1>4. IF pads THEN b = q ELSE q = b + 1 /\ r = 0
    BY <1>2 DEF r
  <1>5. (b + 1) * K = p + K /\ p = b * K
    BY <1>1 DEF K
  <1>6. l = p + (IF pads THEN r ELSE K)
    <2>1. CASE pads
      BY <1>2, <1>4, <1>5, <2>1
    <2>2. CASE ~pads
      <3>1. q * K = p + K
        BY <1>4, <1>5, <2>2
      <3> QED BY <1>1, <1>2, <1>4, <2>2, <3>1
    <2> QED BY <2>1, <2>2
  <1>7. ASSUME pads, NEW j \in 1 .. K, r < j PROVE v[j] = K - r
    <2>1. ~(p + j <= l)
      BY <1>1, <1>2, <1>6, <1>7
    <2> QED BY <1>3, <2>1
  <1>8. ASSUME pads PROVE v[K] = K - r /\ Modes!check_padding(K - r, v)
    <2>1. K \in 1 .. K /\ r < K /\ K - r <= K
      BY <1>1, <1>2
    <2>2. \A k \in 0 .. K - r - 1 : K - k \in 1 .. K /\ r < K - k
      BY <1>1, <1>2
    <2>3. \A k \in 0 .. K - r - 1 : v[K - k] = K - r
      BY <1>7, <1>8, <2>2
    <2>4. v[K] = K - r
      BY <1>7, <1>8, <2>1
    <2> QED BY <2>1, <2>3, <2>4 DEF Modes!check_padding, K
  <1> QED BY <1>6, <1>8 DEF K, l, r, v

\* The beginning of a block.
LEMMA FirstOf == ASSUME Modes!ModesAssumption, NEW y \in Modes!States, NEW t \in Nat, t <= kStateSize
    PROVE  SubSeq(y, 1, t) \in [1 .. t -> Written] /\ \A j \in 1 .. t : SubSeq(y, 1, t)[j] = y[j]
  <1>1. \A j \in 1 .. t : j \in 1 .. kStateSize
    BY ModesTypes
  <1>2. y \in [1 .. kStateSize -> Written] /\ kStateSize \in Nat
    BY StateIsWritten
  <1>3. \A j \in 1 .. t : y[j] \in Written
    BY <1>1, <1>2
  <1>4. /\ SubSeq(y, 1, t) \in Seq(Written) /\ Len(SubSeq(y, 1, t)) = IF 1 <= t THEN t - 1 + 1 ELSE 0
        /\ \A j \in 1 .. t - 1 + 1 : SubSeq(y, 1, t)[j] = y[1 + j - 1]
    <2>1. y \in Seq(Written)
      BY <1>2, RowIsSeq
    <2>2. 1 \in Int /\ t \in Int /\ \A i \in 1 .. t : y[i] \in Written
      BY <1>3
    <2> HIDE DEF Written
    <2> QED BY <2>1, <2>2, SubSeqProperties
  <1> DEFINE x == SubSeq(y, 1, t)
  <1> HIDE DEF x
  <1>5. t - 1 + 1 = t /\ (IF 1 <= t THEN t - 1 + 1 ELSE 0) = t /\ \A j \in 1 .. t : 1 + j - 1 = j
    OBVIOUS
  <1>6. x \in Seq(Written) /\ Len(x) = t /\ \A j \in 1 .. t : x[j] = y[j]
    BY <1>4, <1>5 DEF x
  <1>7. x \in [1 .. t -> Written]
    BY <1>6
  <1> QED BY <1>6, <1>7 DEF x

\* A decryption in CBC mode writes its only block before it clears the buffer:
\* past the size, if that is less than a block.
LEMMA ClearedFacts ==
    ASSUME Modes!ModesAssumption, BlocksInv, call.op = "decrypt", modePc = "blocks", NEW y \in Modes!States,
           blocks = 0 => Len(data) = kStateSize /\ (call.pads \/ kStateSize <= call.size), NEW x,
           x = IF call.mode = "cbc" /\ blocks = 0
               THEN Modes!memcpy(Modes!memcpy(out, 0, y), 0, Modes!Fill(call.size, 0)) ELSE out
    PROVE  x \in Buffers /\ Within(x) /\ (blocks # 0 => x = out)
  <1>1. out \in Buffers /\ call.size \in Nat /\ Base \in Nat /\ kStateSize \in Nat /\ 0 \in Nat
    BY CallTypes, ModesTypes DEF BlocksInv, ModesTyped
  <1>2. Within(out)
    BY DEF BlocksInv, Modes!InBounds, Within
  <1> DEFINE l == call.size
             f == Modes!Fill(l, 0)
             w == Modes!memcpy(out, 0, y)
             z == Modes!memcpy(w, 0, f)
  <1>3. x = IF call.mode = "cbc" /\ blocks = 0 THEN z ELSE out
    OBVIOUS
  <1>4. f \in [1 .. l -> Written] /\ l \in Nat /\ 0 + l <= l
    BY <1>1 DEF Modes!Fill, Written
  <1>5. y \in [1 .. kStateSize -> Written]
    BY StateIsWritten
  <1> HIDE DEF l, f
  <1>6. w \in Buffers /\ \A k \in Modes!Space : w[k] = IF k \in 0 + 1 .. 0 + kStateSize THEN y[k - 0] ELSE out[k]
    BY <1>1, <1>5, CopyFacts
  <1> HIDE DEF w
  <1>7. z \in Buffers /\ \A k \in Modes!Space : k > l => z[k] = w[k]
    BY <1>1, <1>4, <1>6, CopyFacts, CopyInBounds
  <1> HIDE DEF z
  <1>8. ASSUME call.mode = "cbc", blocks = 0 PROVE Within(z)
    <2> SUFFICES ASSUME NEW k \in Modes!Space, k > l, z[k] # Modes!Untouched
                 PROVE  Modes!FirstBlockUnasked /\ k <= kStateSize
      BY DEF Within, l
    <2>1. w[k] # Modes!Untouched /\ k \in Nat
      BY <1>1, <1>7, BufferIsSeq
    <2>2. CASE k \in 0 + 1 .. 0 + kStateSize
      <3>1. k <= kStateSize /\ ~(kStateSize <= l)
        BY <1>1, <1>4, <2>1, <2>2
      <3> QED BY <1>8, <3>1 DEF Modes!FirstBlockUnasked, l
    <2>3. CASE k \notin 0 + 1 .. 0 + kStateSize
      <3>1. out[k] # Modes!Untouched
        BY <1>6, <2>1, <2>3
      <3> QED BY <1>2, <3>1 DEF Within, l
    <2> QED BY <2>2, <2>3
  <1> QED BY <1>1, <1>2, <1>3, <1>7, <1>8

\* What is left of the last block goes into the buffer, unless it is refused.
LEMMA LastWritten ==
    ASSUME Modes!ModesAssumption, NEW x \in Buffers, NEW p \in Nat, NEW y \in Modes!States, NEW t \in Nat, t <= kStateSize,
           NEW l \in Nat, p + t <= l
    PROVE  /\ Modes!memcpy(x, p, SubSeq(y, 1, t)) \in Buffers
           /\ \A k \in Modes!Space : k > l => Modes!memcpy(x, p, SubSeq(y, 1, t))[k] = x[k]
  <1> DEFINE z == SubSeq(y, 1, t)
  <1>1. z \in [1 .. t -> Written]
    BY FirstOf
  <1> HIDE DEF z
  <1>2. Modes!memcpy(x, p, z) \in Buffers
    BY <1>1, CopyFacts
  <1>3. \A k \in Modes!Space : k > l => Modes!memcpy(x, p, z)[k] = x[k]
    BY <1>1, CopyInBounds
  <1> QED BY <1>2, <1>3 DEF z

\* The last block is deciphered, and one's own is not refused.
LEMMA DecryptLastKeeps == ASSUME Modes!ModesAssumption, BlocksInv, Modes!DecryptLast PROVE BlocksInv'
  <1> DEFINE K == kStateSize
             p == blocks * K
             y == Modes!Deciphered
             buf == IF call.mode = "cbc" /\ blocks = 0
                    THEN Modes!memcpy(Modes!memcpy(out, 0, y), 0, Modes!Fill(call.size, 0)) ELSE out
             t == IF call.pads THEN K - y[K] ELSE K
  <1>1. /\ modePc = "blocks" /\ call.op = "decrypt" /\ blocks + 1 = Len(data) \div kStateSize
        /\ blocks' = blocks /\ plain' = plain /\ call' = call /\ data' = data
        /\ padded_size' = IF call.pads THEN y[K] ELSE padded_size
    BY DEF Modes!DecryptLast, Modes!BlocksOf
  <1>2. \/ call.pads /\ ~Modes!check_padding(y[K], y) /\ modePc' = "InvalidKey" /\ out' = buf
        \/ /\ call.pads => Modes!check_padding(y[K], y)
           /\ call.pads => call.size >= p + t
           /\ modePc' = "Ok" /\ out' = Modes!memcpy(buf, p, SubSeq(y, 1, t))
        \/ /\ call.pads => Modes!check_padding(y[K], y)
           /\ call.pads /\ ~(call.size >= p + t)
           /\ modePc' = "InvalidBufferSize" /\ out' = buf
    BY DEF Modes!DecryptLast, Modes!Kept, Modes!Fits
  <1>3. data \in ByteSeqs /\ blocks \in Nat /\ call.size \in Nat /\ out \in Buffers /\ call.pads \in BOOLEAN
        /\ call.size <= MaxBlocks * kStateSize /\ padded_size \in Nat
    BY <1>1, CallTypes DEF BlocksInv, ModesTyped
  <1>4. PICK n \in Nat : /\ Len(data) = n * kStateSize /\ blocks < n /\ (n - 1) * kStateSize <= call.size
                         /\ call.pads \/ n * kStateSize <= call.size
    <2>1. data # <<>>
      BY <1>1, <1>3, NoBlocks
    <2> QED BY <1>1, <2>1 DEF BlocksInv, Decrypting
  <1>5. K \in Nat \ {0} /\ Base \in Nat /\ p \in Nat /\ (blocks + 1) * K = p + K
    BY <1>3, ModesTypes
  <1>6. n = blocks + 1
    <2>1. (n * K + 0) \div K = n
      BY <1>5, DivUnique
    <2>2. n * K + 0 = n * K
      BY <1>5
    <2> QED BY <1>1, <1>3, <1>4, <2>1, <2>2
  <1>7. y \in Modes!States /\ (plain # Modes!NoMessage => y = Pattern(plain, blocks)
            /\ n = Total(call.pads, plain) /\ plain \in ByteSeqs /\ (call.pads \/ Rest(plain) = 0) /\ call.pads \in BOOLEAN)
    BY <1>1, <1>4, DecipherFacts
  <1>8. y[K] \in Nat
    <2>1. K \in 1 .. kStateSize
      BY <1>5
    <2> HIDE DEF y
    <2> QED BY <1>5, <1>7, <2>1 DEF Modes!States, Modes!Bytes
  <1>9. buf \in Buffers /\ Within(buf) /\ (blocks # 0 => buf = out)
    <2>1. blocks = 0 => Len(data) = kStateSize /\ (call.pads \/ kStateSize <= call.size)
      <3> SUFFICES ASSUME blocks = 0 PROVE Len(data) = kStateSize /\ (call.pads \/ kStateSize <= call.size)
        OBVIOUS
      <3>1. n = 1 /\ 1 * kStateSize = kStateSize
        BY <1>5, <1>6
      <3> QED BY <1>4, <3>1
    <2> HIDE DEF y
    <2> QED BY <1>1, <1>7, <2>1, ClearedFacts
  <1> HIDE DEF y, buf
  <1>10. CASE \/ call.pads /\ ~Modes!check_padding(y[K], y) /\ modePc' = "InvalidKey" /\ out' = buf
              \/ /\ call.pads => Modes!check_padding(y[K], y)
                 /\ call.pads /\ ~(call.size >= p + t)
                 /\ modePc' = "InvalidBufferSize" /\ out' = buf
    <2>1. modePc' \in {"InvalidKey", "InvalidBufferSize"} /\ out' = buf /\ padded_size' = y[K] /\ call.pads
      BY <1>1, <1>10
    <2>2. ModesTyped'
      <3>1. out' \in Buffers /\ padded_size' \in Nat
        BY <1>8, <1>9, <2>1
      <3> QED BY <1>1, <2>1, <3>1 DEF BlocksInv, ModesTyped, Buffers, Modes!Calls, Modes!CtrCalls
    <2>3. Modes!InBounds'
      BY <1>1, <1>9, <2>1 DEF Modes!InBounds, Modes!FirstBlockUnasked, Within
    <2>4. Encrypting' /\ Decrypting'
      BY <1>1, <2>1 DEF BlocksInv, Encrypting, Decrypting
    <2>5. OwnData'
      <3> SUFFICES ASSUME plain # Modes!NoMessage PROVE OwnData'
        BY <1>1 DEF OwnData
      <3> DEFINE r == Rest(plain)
      <3>1. y = Pattern(plain, blocks) /\ plain \in ByteSeqs /\ blocks + 1 = Total(call.pads, plain)
        BY <1>6, <1>7
      <3>2. y[K] = K - r /\ Modes!check_padding(K - r, y)
        BY <1>3, <1>5, <1>7, <2>1, <3>1, LastBlockFacts
      <3>3. r \in 0 .. K - 1
        BY <1>3, <1>7, <2>1, <3>1, TotalFacts
      <3>4. Modes!check_padding(y[K], y)
        BY <3>2
      <3>5. t = r /\ ~(call.size >= p + t)
        <4> HIDE DEF r
        <4>1. t = K - (K - r)
          BY <2>1, <3>2
        <4> QED BY <1>5, <1>10, <3>3, <3>4, <4>1
      <3>6. ~(call.size >= Len(data))
        <4>1. Len(data) = p + K
          BY <1>4, <1>5, <1>6
        <4> HIDE DEF p, r, t
        <4> QED BY <1>3, <1>5, <3>3, <3>5, <4>1
      <3> HIDE DEF p, r, t
      <3> QED BY <1>1, <2>1, <3>6 DEF BlocksInv, OwnData
    <2> QED BY <2>2, <2>3, <2>4, <2>5 DEF BlocksInv
  <1>11. CASE /\ call.pads => Modes!check_padding(y[K], y)
              /\ call.pads => call.size >= p + t
              /\ modePc' = "Ok" /\ out' = Modes!memcpy(buf, p, SubSeq(y, 1, t))
    <2> DEFINE z == Modes!memcpy(buf, p, SubSeq(y, 1, t))
    <2>1. t \in Nat /\ t <= K
      <3>1. call.pads => y[K] <= K
        BY <1>11 DEF Modes!check_padding
      <3> QED BY <1>5, <1>8, <3>1
    <2>2. p + t <= call.size
      <3>1. ~call.pads => p + K <= call.size
        BY <1>4, <1>5, <1>6
      <3>2. call.pads => call.size >= p + t
        BY <1>11
      <3>3. ~call.pads => t = K
        OBVIOUS
      <3> HIDE DEF p, t
      <3> QED BY <1>3, <1>5, <2>1, <3>1, <3>2, <3>3
    <2>3. z \in Buffers /\ Within(z)
      <3> DEFINE l == call.size
      <3>1. /\ l \in Nat /\ p \in Nat /\ t \in Nat /\ t <= kStateSize /\ p + t <= l /\ buf \in Buffers /\ y \in Modes!States
        BY <1>3, <1>5, <1>7, <1>9, <2>1, <2>2
      <3> HIDE DEF p, t, l
      <3>2. z \in Buffers /\ \A k \in Modes!Space : k > l => z[k] = buf[k]
        BY <3>1, LastWritten
      <3> HIDE DEF z
      <3> QED BY <1>9, <3>2 DEF l, Within
    <2>4. modePc' = "Ok" /\ out' = z
      BY <1>11
    <2>5. ModesTyped'
      <3>1. out' \in Buffers /\ padded_size' \in Nat
        BY <1>1, <1>3, <1>8, <2>3, <2>4
      <3> HIDE DEF z
      <3> QED BY <1>1, <2>4, <3>1 DEF BlocksInv, ModesTyped, Buffers, Modes!Calls, Modes!CtrCalls
    <2>6. Modes!InBounds'
      <3> HIDE DEF z
      <3> QED BY <1>1, <2>3, <2>4 DEF Modes!InBounds, Modes!FirstBlockUnasked, Within
    <2>7. Encrypting' /\ Decrypting'
      BY <1>1, <2>4 DEF BlocksInv, Encrypting, Decrypting
    <2>8. OwnData'
      <3> SUFFICES ASSUME plain # Modes!NoMessage PROVE OwnData'
        BY <1>1 DEF OwnData
      <3> DEFINE r == Rest(plain)
                 m == plain
      <3>1. y = Pattern(plain, blocks) /\ plain \in ByteSeqs /\ blocks + 1 = Total(call.pads, plain)
            /\ (call.pads \/ Rest(plain) = 0)
        BY <1>6, <1>7
      <3>2. Len(plain) = p + (IF call.pads THEN r ELSE K) /\ (call.pads => y[K] = K - r)
        BY <1>3, <1>5, <3>1, LastBlockFacts
      <3>3. r \in 0 .. K - 1
        BY <1>3, <3>1, TotalFacts
      <3>4. t = IF call.pads THEN r ELSE K
        <4> HIDE DEF r
        <4> QED BY <1>5, <3>2, <3>3
      <3>5. Len(plain) = p + t /\ \A k \in 1 .. p : out[k] = plain[k]
        <4>1. \A k \in 1 .. blocks * kStateSize : out[k] = plain[k]
          BY <1>1 DEF BlocksInv, OwnData
        <4> QED BY <3>2, <3>4, <4>1
      <3>6. \A k \in 1 .. p : buf[k] = plain[k]
        <4>1. CASE blocks = 0
          <5>1. p = 0
            BY <1>5, <4>1
          <5> HIDE DEF p
          <5> QED BY <5>1
        <4>2. CASE blocks # 0
          BY <1>9, <3>5, <4>2
        <4> QED BY <4>1, <4>2
      <3>7. p + t <= SpaceLen
        <4>1. MaxBlocks * kStateSize \in Nat /\ MaxBlocks * kStateSize <= SpaceLen /\ SpaceLen \in Nat
          BY <1>3, BufferIsSeq
        <4> DEFINE w == MaxBlocks * kStateSize
        <4>2. w \in Nat /\ w <= SpaceLen /\ SpaceLen \in Nat /\ call.size <= w
          BY <1>3, <4>1
        <4> HIDE DEF w, p, t
        <4> QED BY <1>3, <1>5, <2>1, <2>2, <4>2
      <3>8. \A k \in 1 .. p + t : z[k] = plain[k]
        <4> DEFINE f == SubSeq(y, 1, t)
        <4>1. /\ blocks \in Nat /\ plain \in ByteSeqs /\ p \in Nat /\ p = blocks * kStateSize
              /\ t \in Nat /\ t <= kStateSize /\ p + t <= SpaceLen /\ y \in Modes!States
              /\ buf \in Buffers /\ \A k \in 1 .. p : buf[k] = plain[k]
          BY <1>3, <1>5, <1>7, <1>9, <2>1, <3>1, <3>6, <3>7
        <4>2. p + t <= Len(plain)
          <5> HIDE DEF p, t
          <5> QED BY <3>5, <4>1
        <4> HIDE DEF p, t, m
        <4>3. f \in [1 .. t -> Written] /\ \A j \in 1 .. t : f[j] = Pattern(plain, blocks)[j]
          BY <3>1, <4>1, FirstOf
        <4>4. z = Modes!memcpy(buf, p, f)
          OBVIOUS
        <4> HIDE DEF f, z
        <4>5. \A k \in 1 .. p + t : Modes!memcpy(buf, p, f)[k] = plain[k]
          <5> HIDE DEF K, r
          <5>1. /\ blocks \in Nat /\ plain \in ByteSeqs /\ p \in Nat /\ p = blocks * kStateSize
                /\ t \in Nat /\ t <= kStateSize /\ p + t <= SpaceLen /\ p + t <= Len(plain) /\ buf \in Buffers
            BY <4>1, <4>2
          <5>2. \A k \in 1 .. p : buf[k] = plain[k]
            BY <4>1
          <5>3. f \in [1 .. t -> Written]
            BY <4>3
          <5>4. \A j \in 1 .. t : f[j] = Pattern(plain, blocks)[j]
            BY <4>3
          <5> QED BY <5>1, <5>2, <5>3, <5>4, MessageGrows, SMTT(60)
        <4> QED BY <4>4, <4>5
      <3>9. Len(data) - padded_size' = Len(plain)
        <4>1. Len(data) = p + K
          BY <1>4, <1>5, <1>6
        <4>2. padded_size' = IF call.pads THEN K - r ELSE 0
          <5>1. ~call.pads => padded_size' = 0
            BY <1>1 DEF BlocksInv, OwnData
          <5> QED BY <1>1, <3>2, <5>1
        <4> HIDE DEF p, r, t
        <4> QED BY <1>5, <3>2, <3>3, <4>1, <4>2
      <3>10. \A k \in 1 .. Len(plain) : out'[k] = plain[k]
        <4> HIDE DEF p, t, z
        <4> QED BY <2>4, <3>5, <3>8
      <3>11. Len(data') - padded_size' = Len(plain') /\ \A k \in 1 .. Len(plain') : out'[k] = plain'[k]
        BY <1>1, <3>9, <3>10
      <3> HIDE DEF z, p, t, r
      <3> QED BY <1>1, <2>4, <3>11 DEF BlocksInv, OwnData
    <2> QED BY <2>5, <2>6, <2>7, <2>8 DEF BlocksInv
  <1> HIDE DEF p, t
  <1> QED BY <1>2, <1>10, <1>11

\* A decryption of nothing ends with the process.
LEMMA DecryptNothingKeeps == ASSUME Modes!ModesAssumption, BlocksInv, Modes!DecryptNothing PROVE BlocksInv'
  <1>1. /\ modePc = "blocks" /\ call.op = "decrypt" /\ data = <<>> /\ modePc' = "crashed"
        /\ plain' = plain /\ call' = call /\ data' = data /\ blocks' = blocks /\ padded_size' = padded_size
    BY DEF Modes!DecryptNothing
  <1>2. out' \in Buffers
    <2>1. PICK b \in Modes!Bytes : out' = [k \in Modes!Space |-> b]
      BY DEF Modes!DecryptNothing
    <2>2. b \in Written
      BY ModesTypes DEF Modes!Bytes, Written
    <2> QED BY <2>1, <2>2 DEF Buffers
  <1>3. ModesTyped'
    BY <1>1, <1>2 DEF BlocksInv, ModesTyped, Buffers, Modes!Calls, Modes!CtrCalls
  <1>4. Modes!InBounds' /\ Encrypting' /\ Decrypting'
    BY <1>1 DEF Modes!InBounds, Encrypting, Decrypting
  <1>5. OwnData'
    <2> SUFFICES ASSUME plain # Modes!NoMessage PROVE OwnData'
      BY <1>1 DEF OwnData
    <2> DEFINE n == Total(call.pads, plain)
    <2>1. Len(data) = n * kStateSize /\ (call.pads \/ Rest(plain) = 0) /\ plain \in ByteSeqs /\ call.pads \in BOOLEAN
      BY <1>1, CallTypes DEF BlocksInv, OwnData, ModesTyped
    <2>2. n \in Nat /\ kStateSize \in Nat \ {0}
      BY <2>1, TotalFacts, ModesTypes
    <2> HIDE DEF n
    <2>3. n = 0
      <3>1. n * kStateSize = 0
        BY <1>1, <2>1
      <3> QED BY <2>2, <3>1
    <2> QED BY <1>1, <2>3 DEF BlocksInv, OwnData, n
  <1> QED BY <1>3, <1>4, <1>5 DEF BlocksInv

\* A copy of what is enciphered is enciphered.
LEMMA CopyEnciphered ==
    ASSUME Modes!ModesAssumption, NEW mode, NEW iv, NEW m, NEW x, NEW y, NEW n \in Nat,
           \A k \in 1 .. n * kStateSize : x[k] = y[k], Enciphered(mode, iv, m, x, n)
    PROVE  Enciphered(mode, iv, m, y, n)
  <1>1. \A b \in 0 .. n - 1 : Part(x, b) = Part(y, b)
    BY SameParts
  <1>2. \A b \in 0 .. n - 1 : Before(mode, iv, x, b) = Before(mode, iv, y, b)
    <2>1. \A b \in 0 .. n - 1 : b # 0 => b - 1 \in 0 .. n - 1
      OBVIOUS
    <2> QED BY <1>1, <2>1 DEF Before
  <1> QED BY <1>1, <1>2 DEF Enciphered

\* What was encrypted is decrypted.
LEMMA DecryptKeeps == ASSUME Modes!ModesAssumption, BlocksInv, Modes!Decrypt PROVE BlocksInv'
  <1> DEFINE K == kStateSize
             n == Total(call.pads, data)
             d == SubSeq(out, 1, Modes!OutputSize)
  <1>1. /\ modePc = "Ok" /\ call.op = "encrypt" /\ data' = d
        /\ modePc' = "check" /\ blocks' = 0
        /\ out' = [k \in Modes!Space |-> Modes!Untouched]
        /\ plain' = plain /\ padded_size' = padded_size
    BY DEF Modes!Decrypt
  <1>2. PICK sz \in Modes!Sizes : call' = [call EXCEPT !.op = "decrypt", !.size = sz]
    BY DEF Modes!Decrypt
  <1>3. /\ data \in ByteSeqs /\ call.size \in Nat /\ out \in Buffers /\ call.pads \in BOOLEAN
        /\ call.size <= MaxBlocks * kStateSize /\ call.iv \in Modes!States /\ call \in Modes!Calls
        /\ MaxBlocks * kStateSize \in Nat
    BY <1>1, CallTypes DEF BlocksInv, ModesTyped
  <1>4. /\ plain = data /\ padded_size = 0 /\ (call.pads \/ Rest(data) = 0) /\ call.key_ok
        /\ n * kStateSize <= call.size
        /\ Enciphered(call.mode, call.iv, data, out, n)
    BY <1>1 DEF BlocksInv, Encrypting
  <1>5. K \in Nat \ {0} /\ n \in Nat /\ n * K \in Nat /\ (call.pads => n # 0)
    <2>1. K \in Nat \ {0}
      BY ModesTypes
    <2>2. n \in Nat /\ (call.pads => n = (Len(data) \div kStateSize) + 1) /\ Len(data) \div kStateSize \in Nat
      BY <1>3, <1>4, TotalFacts
    <2> HIDE DEF n
    <2> QED BY <2>1, <2>2
  <1>6. Modes!OutputSize = n * K
    <2>1. n * K = IF call.pads THEN Len(data) + (K - Rest(data)) ELSE Len(data)
      BY <1>3, <1>4, TotalFacts
    <2>2. Rest(data) \in 0 .. K - 1 /\ Len(data) \in Nat
      BY <1>3, <1>4, TotalFacts DEF ByteSeqs
    <2>3. Modes!OutputSize = IF call.pads THEN Len(data) + K - Rest(data) ELSE Len(data)
      BY DEF Modes!OutputSize, Modes!get_padded_encrypted_size, Rest
    <2> HIDE DEF n
    <2> QED BY <1>5, <2>1, <2>2, <2>3
  <1> HIDE DEF n
  <1>7. \A k \in 1 .. n * kStateSize : out[k] \in Modes!Bytes
    <2> DEFINE mode == call.mode
               iv == call.iv
    <2>1. iv \in Modes!States /\ Enciphered(mode, iv, data, out, n)
      BY <1>3, <1>4
    <2>2. \A b \in 0 .. n - 1 : Pattern(data, b) \in Modes!States
      <3>1. \A b \in Nat : Pattern(data, b) \in Modes!States
        BY <1>3, <1>4, PatternFacts
      <3>2. \A b \in 0 .. n - 1 : b \in Nat
        BY <1>5
      <3> QED BY <3>1, <3>2
    <2> HIDE DEF mode, iv
    <2> QED BY <1>3, <1>5, <2>1, <2>2, EncipheredBytes
  <1> DEFINE l == n * K
  <1>8. d \in ByteSeqs /\ Len(d) = l /\ \A k \in 1 .. l : d[k] = out[k]
    <2>1. d = SubSeq(out, 1, l) /\ l \in Nat /\ \A k \in 1 .. l : out[k] \in Modes!Bytes
      BY <1>5, <1>6, <1>7
    <2> HIDE DEF l, d
    <2>2. /\ SubSeq(out, 1, l) \in Seq(Modes!Bytes) /\ Len(SubSeq(out, 1, l)) = IF 1 <= l THEN l - 1 + 1 ELSE 0
          /\ \A j \in 1 .. l - 1 + 1 : SubSeq(out, 1, l)[j] = out[1 + j - 1]
      <3>1. 1 \in Int /\ l \in Int
        BY <2>1
      <3> QED BY <2>1, <3>1, SubSeqProperties
    <2>3. l - 1 + 1 = l /\ (IF 1 <= l THEN l - 1 + 1 ELSE 0) = l /\ \A j \in 1 .. l : 1 + j - 1 = j
      BY <2>1
    <2> QED BY <2>1, <2>2, <2>3 DEF ByteSeqs
  <1> HIDE DEF d
  <1>9. Enciphered(call.mode, call.iv, data, d, n)
    <2> DEFINE mode == call.mode
               iv == call.iv
    <2>1. Enciphered(mode, iv, data, out, n)
      BY <1>4
    <2>2. \A k \in 1 .. n * kStateSize : out[k] = d[k]
      BY <1>8
    <2> HIDE DEF mode, iv
    <2>3. Enciphered(mode, iv, data, d, n)
      BY <1>5, <2>1, <2>2, CopyEnciphered
    <2> QED BY <2>3 DEF mode, iv
  <1>10. /\ call' \in Modes!Calls /\ call'.op = "decrypt" /\ call'.mode = call.mode /\ call'.iv = call.iv
         /\ call'.pads = call.pads /\ call'.key_ok = call.key_ok
    BY <1>2, <1>3 DEF Modes!Calls
  <1>11. out' \in Buffers /\ \A k \in Modes!Space : out'[k] = Modes!Untouched
    <2>1. Modes!Untouched \in Written
      BY ModesTypes DEF Modes!Untouched, Written
    <2> QED BY <1>1, <2>1 DEF Buffers
  <1>12. ModesTyped'
    <2>1. data' \in ByteSeqs
      BY <1>1, <1>8
    <2> QED BY <1>1, <1>3, <1>4, <1>10, <1>11, <2>1 DEF ModesTyped, BlocksInv, ByteSeqs, Buffers, Modes!Calls, Modes!CtrCalls, Modes!NoMessage
  <1>13. Modes!InBounds'
    BY <1>11 DEF Modes!InBounds
  <1>14. Encrypting'
    BY <1>10 DEF Encrypting
  <1>15. Decrypting'
    BY <1>1, <1>10 DEF Decrypting
  <1>16. n * kStateSize <= MaxBlocks * kStateSize
    <2> DEFINE w == MaxBlocks * kStateSize
    <2>1. l \in Nat /\ l <= call.size /\ call.size <= w /\ w \in Nat
      BY <1>3, <1>4, <1>5
    <2> HIDE DEF w, l
    <2>2. l <= w
      BY <1>3, <2>1
    <2> QED BY <2>2 DEF l, w
  <1>17. OwnData'
    <2>1. Total(call'.pads, plain') = n
      BY <1>1, <1>4, <1>10 DEF n
    <2>2. \A k \in 1 .. blocks' * kStateSize : out'[k] = plain'[k]
      <3>1. blocks' * kStateSize = 0
        BY <1>1, <1>5
      <3> QED BY <3>1
    <2>3. /\ call'.pads \/ Rest(plain') = 0
          /\ call'.key_ok /\ Len(data') = n * kStateSize /\ n * kStateSize <= MaxBlocks * kStateSize
          /\ Enciphered(call'.mode, call'.iv, plain', data', n)
          /\ padded_size' = 0 /\ modePc' = "check"
      BY <1>1, <1>4, <1>8, <1>9, <1>10, <1>16
    <2> HIDE DEF l
    <2> QED BY <2>1, <2>2, <2>3 DEF OwnData
  <1> QED BY <1>12, <1>13, <1>14, <1>15, <1>17 DEF BlocksInv

\* Power is the function its recursion describes.
LEMMA PowerFacts == ASSUME Modes!ModesAssumption
    PROVE  /\ Modes!Power \in [0 .. kStateSize -> Nat] /\ Modes!Power[0] = 1
           /\ \A k \in 1 .. kStateSize : Modes!Power[k] = Base * Modes!Power[k - 1]
  <1> DEFINE K == kStateSize
             Body(f) == [k \in 0 .. kStateSize |-> IF k = 0 THEN 1 ELSE Base * f[k - 1]]
             power == CHOOSE f : f = Body(f)
  <1>1. K \in Nat /\ Base \in Nat
    BY ModesTypes
  <1>2. Modes!Power = power
    BY Zenon DEF Modes!Power
  <1>3. PICK g : g \in [0 .. K -> Nat] /\ g[0] = 1 /\ \A k \in 1 .. K : g[k] = Base * g[k - 1]
    <2> DEFINE c == [k \in 1 .. K |-> 0]
    <2>1. c \in [1 .. K -> Nat] /\ \A k \in 1 .. K : c[k] = 0
      OBVIOUS
    <2> HIDE DEF c, K
    <2>2. PICK g : g \in [0 .. K -> Nat] /\ g[0] = 1 /\ \A k \in 1 .. K : g[k] = Base * g[k - 1] + c[k]
      <3>1. 1 \in Nat
        OBVIOUS
      <3>2. \E g : MultiplyAdd(K, 1, Base, c, g)
        BY <1>1, <2>1, <3>1, Horner, Zenon
      <3> QED BY <3>2 DEF MultiplyAdd
    <2>3. \A k \in 1 .. K : g[k] = Base * g[k - 1]
      <3> TAKE k \in 1 .. K
      <3>1. g[k - 1] \in Nat
        BY <1>1, <2>2
      <3> DEFINE v == Base * g[k - 1]
      <3>2. v \in Nat
        BY <1>1, <3>1
      <3>3. g[k] = v + c[k] /\ c[k] = 0
        BY <2>1, <2>2
      <3> HIDE DEF v
      <3>4. g[k] = v
        BY <3>2, <3>3
      <3> QED BY <3>4 DEF v
    <2> QED BY <2>2, <2>3
  <1>4. g = Body(g)
    <2> HIDE DEF K
    <2>1. \A k \in 0 .. K : g[k] = IF k = 0 THEN 1 ELSE Base * g[k - 1]
      BY <1>1, <1>3
    <2>2. g = [k \in 0 .. K |-> g[k]]
      BY <1>3
    <2>3. [k \in 0 .. K |-> g[k]] = [k \in 0 .. K |-> IF k = 0 THEN 1 ELSE Base * g[k - 1]]
      BY <2>1
    <2> QED BY <2>2, <2>3, Zenon DEF K
  <1>5. power = Body(power)
    <2> HIDE DEF Body
    <2> QED BY <1>4
  <1>6. \A k \in 0 .. K : power[k] = IF k = 0 THEN 1 ELSE Base * power[k - 1]
    <2> HIDE DEF power
    <2> QED BY <1>5, Zenon
  <1>7. DOMAIN power = 0 .. K /\ power = [k \in 0 .. K |-> power[k]]
    <2> DEFINE rhs == [k \in 0 .. K |-> IF k = 0 THEN 1 ELSE Base * power[k - 1]]
    <2>1. power = rhs
      <3> HIDE DEF power
      <3> QED BY <1>5, Zenon
    <2> HIDE DEF power
    <2>2. DOMAIN rhs = 0 .. K /\ rhs = [k \in 0 .. K |-> rhs[k]]
      OBVIOUS
    <2> HIDE DEF rhs
    <2> QED BY <2>1, <2>2
  <1> HIDE DEF power, K
  <1> DEFINE S == {k \in 0 .. K : power[k] \in Nat}
  <1>8. S = 0 .. K
    <2>1. 0 \in S
      BY <1>1, <1>6
    <2>2. ASSUME NEW k \in 1 .. K, k - 1 \in S PROVE k \in S
      <3>1. power[k - 1] \in Nat /\ k \in 0 .. K /\ k # 0
        BY <2>2
      <3>2. power[k] = Base * power[k - 1]
        BY <1>6, <3>1
      <3> QED BY <1>1, <3>1, <3>2
    <2>3. S \in SUBSET (0 .. K)
      OBVIOUS
    <2> HIDE DEF S
    <2> QED BY <1>1, <2>1, <2>2, <2>3, AllTheWay
  <1>9. power \in [0 .. K -> Nat]
    <2>1. \A k \in 0 .. K : power[k] \in Nat
      BY <1>8
    <2> QED BY <1>7, <2>1
  <1>10. power[0] = 1 /\ \A k \in 1 .. K : power[k] = Base * power[k - 1]
    BY <1>1, <1>6
  <1> QED BY <1>2, <1>9, <1>10 DEF K

\* The numbers that the beginnings of some bytes are.
Prefixes(c, g) ==
    /\ g \in [0 .. Len(c) -> Nat] /\ g[0] = 0
    /\ \A k \in 1 .. Len(c) : g[k] = Base * g[k - 1] + c[k]

\* Number is the last of the numbers its recursion describes.
LEMMA NumberFacts == ASSUME Modes!ModesAssumption, NEW c \in ByteSeqs
    PROVE  \E g : Prefixes(c, g) /\ Modes!Number(c) = g[Len(c)]
  <1> DEFINE N == Len(c)
             Body(f) == [k \in 0 .. Len(c) |-> IF k = 0 THEN 0 ELSE Base * f[k - 1] + c[k]]
             n == CHOOSE f : f = Body(f)
  <1>1. N \in Nat /\ Base \in Nat /\ c \in [1 .. N -> Nat]
    <2>1. \A k \in 1 .. N : c[k] \in Modes!Bytes
      BY DEF ByteSeqs
    <2>2. c \in [1 .. Len(c) -> Modes!Bytes] /\ Len(c) \in Nat
      BY DEF ByteSeqs
    <2> QED BY <2>1, <2>2, ModesTypes DEF Modes!Bytes
  <1>2. Modes!Number(c) = n[N]
    BY Zenon DEF Modes!Number
  <1>3. PICK g : g \in [0 .. N -> Nat] /\ g[0] = 0 /\ \A k \in 1 .. N : g[k] = Base * g[k - 1] + c[k]
    <2> HIDE DEF N
    <2>1. 0 \in Nat
      OBVIOUS
    <2>2. \E g : MultiplyAdd(N, 0, Base, c, g)
      BY <1>1, <2>1, Horner, Zenon
    <2> QED BY <2>2 DEF MultiplyAdd
  <1>4. g = Body(g)
    <2> HIDE DEF N
    <2>1. \A k \in 0 .. N : g[k] = IF k = 0 THEN 0 ELSE Base * g[k - 1] + c[k]
      BY <1>1, <1>3
    <2>2. g = [k \in 0 .. N |-> g[k]]
      BY <1>3
    <2>3. [k \in 0 .. N |-> g[k]] = [k \in 0 .. N |-> IF k = 0 THEN 0 ELSE Base * g[k - 1] + c[k]]
      BY <2>1
    <2> QED BY <2>2, <2>3, Zenon DEF N
  <1>5. n = Body(n)
    <2> HIDE DEF Body
    <2> QED BY <1>4
  <1>6. \A k \in 0 .. N : n[k] = IF k = 0 THEN 0 ELSE Base * n[k - 1] + c[k]
    <2> HIDE DEF n
    <2> QED BY <1>5, Zenon
  <1>7. n = [k \in 0 .. N |-> n[k]]
    <2> DEFINE rhs == [k \in 0 .. N |-> IF k = 0 THEN 0 ELSE Base * n[k - 1] + c[k]]
    <2>1. n = rhs
      <3> HIDE DEF n
      <3> QED BY <1>5, Zenon
    <2> HIDE DEF n
    <2>2. rhs = [k \in 0 .. N |-> rhs[k]]
      OBVIOUS
    <2> HIDE DEF rhs
    <2> QED BY <2>1, <2>2
  <1> HIDE DEF n, N
  <1> DEFINE S == {k \in 0 .. N : n[k] \in Nat}
  <1>8. S = 0 .. N
    <2>1. 0 \in S
      BY <1>1, <1>6
    <2>2. ASSUME NEW k \in 1 .. N, k - 1 \in S PROVE k \in S
      <3>1. n[k - 1] \in Nat /\ k \in 0 .. N /\ k # 0 /\ c[k] \in Nat
        BY <1>1, <2>2
      <3>2. n[k] = Base * n[k - 1] + c[k]
        BY <1>6, <3>1
      <3>3. Base * n[k - 1] \in Nat
        BY <1>1, <3>1
      <3> QED BY <3>1, <3>2, <3>3
    <2>3. S \in SUBSET (0 .. N)
      OBVIOUS
    <2> HIDE DEF S
    <2> QED BY <1>1, <2>1, <2>2, <2>3, AllTheWay
  <1>9. n \in [0 .. N -> Nat]
    <2>1. \A k \in 0 .. N : n[k] \in Nat
      BY <1>8
    <2> QED BY <1>7, <2>1
  <1>10. n[0] = 0 /\ \A k \in 1 .. N : n[k] = Base * n[k - 1] + c[k]
    BY <1>1, <1>6
  <1>11. Prefixes(c, n)
    BY <1>9, <1>10 DEF Prefixes, N
  <1> QED BY <1>2, <1>11 DEF N

\* No power is zero.
LEMMA PowersPositive == ASSUME Modes!ModesAssumption
    PROVE  \A k \in 0 .. kStateSize : Modes!Power[k] \in Nat \ {0}
  <1> DEFINE K == kStateSize
             P == Modes!Power
             S == {k \in 0 .. K : P[k] # 0}
  <1>1. /\ K \in Nat /\ Base \in Nat /\ Base # 0 /\ P \in [0 .. K -> Nat] /\ P[0] = 1
        /\ \A k \in 1 .. K : P[k] = Base * P[k - 1]
    BY ModesTypes, PowerFacts
  <1> HIDE DEF K, P
  <1>2. S = 0 .. K
    <2>1. 0 \in S
      BY <1>1
    <2>2. ASSUME NEW k \in 1 .. K, k - 1 \in S PROVE k \in S
      <3> DEFINE v == P[k - 1]
      <3>1. v \in Nat /\ v # 0 /\ P[k] = Base * v /\ k \in 0 .. K
        BY <1>1, <2>2
      <3> HIDE DEF v
      <3>2. Base * v # 0
        BY <1>1, <3>1
      <3> QED BY <3>1, <3>2
    <2>3. S \in SUBSET (0 .. K)
      OBVIOUS
    <2> HIDE DEF S
    <2> QED BY <1>1, <2>1, <2>2, <2>3, AllTheWay
  <1>3. \A k \in 0 .. K : P[k] \in Nat \ {0}
    BY <1>1, <1>2
  <1> QED BY <1>3 DEF P, K

\* A block is a sequence of bytes.
LEMMA StateIsSeq == ASSUME Modes!ModesAssumption, NEW c \in Modes!States
    PROVE  /\ c \in ByteSeqs /\ Len(c) = kStateSize
           /\ \A k \in 1 .. kStateSize : c[k] \in Nat /\ c[k] <= Base - 1
  <1>1. kStateSize \in Nat /\ c \in [1 .. kStateSize -> Modes!Bytes] /\ Base \in Nat
    BY ModesTypes DEF Modes!States
  <1>2. c \in ByteSeqs /\ Len(c) = kStateSize
    BY <1>1, RowIsSeq DEF ByteSeqs
  <1>3. \A k \in 1 .. kStateSize : c[k] \in Nat /\ c[k] <= Base - 1
    BY <1>1 DEF Modes!Bytes
  <1> QED BY <1>2, <1>3

\* A number of k bytes is less than the power k of what a byte can be.
LEMMA NumberBelow == ASSUME Modes!ModesAssumption, NEW c \in Modes!States, NEW g, Prefixes(c, g)
    PROVE  \A k \in 0 .. kStateSize : g[k] \in Nat /\ g[k] + 1 <= Modes!Power[k]
  <1> DEFINE K == kStateSize
             P == Modes!Power
             S == {k \in 0 .. K : g[k] + 1 <= P[k]}
  <1>1. /\ K \in Nat /\ Base \in Nat /\ P \in [0 .. K -> Nat] /\ P[0] = 1
        /\ \A k \in 1 .. K : P[k] = Base * P[k - 1]
    BY ModesTypes, PowerFacts
  <1>2. Len(c) = K /\ \A k \in 1 .. K : c[k] \in Nat /\ c[k] <= Base - 1
    BY StateIsSeq
  <1>3. g \in [0 .. K -> Nat] /\ g[0] = 0 /\ \A k \in 1 .. K : g[k] = Base * g[k - 1] + c[k]
    BY <1>2 DEF Prefixes
  <1> HIDE DEF K, P
  <1>4. S = 0 .. K
    <2>1. 0 \in S
      BY <1>1, <1>3
    <2>2. ASSUME NEW k \in 1 .. K, k - 1 \in S PROVE k \in S
      <3> DEFINE v == P[k - 1]
                 w == g[k - 1]
                 x == Base * w
                 y == Base * v
      <3>1. v \in Nat /\ w \in Nat /\ w + 1 <= v /\ P[k] = Base * v /\ g[k] = Base * w + c[k] /\ k \in 0 .. K
        BY <1>1, <1>3, <2>2
      <3>2. P[k] = y /\ g[k] = x + c[k]
        BY <3>1
      <3> HIDE DEF v, w
      <3>3. x \in Nat /\ y \in Nat /\ x + Base <= y
        <4>1. w * Base + Base <= v * Base
          BY <1>1, <3>1, MulStep
        <4> QED BY <1>1, <3>1, <4>1
      <3> HIDE DEF x, y
      <3>4. x + c[k] + 1 <= y
        BY <1>1, <1>2, <3>3
      <3> QED BY <3>1, <3>2, <3>4
    <2>3. S \in SUBSET (0 .. K)
      OBVIOUS
    <2> HIDE DEF S
    <2> QED BY <1>1, <2>1, <2>2, <2>3, AllTheWay
  <1>5. \A k \in 0 .. K : g[k] \in Nat /\ g[k] + 1 <= P[k]
    BY <1>3, <1>4
  <1> QED BY <1>5 DEF P, K

\* incr_counter adds one, and starts from zero behind the last number.
LEMMA IncrementAddsOne == ASSUME Modes!ModesAssumption, NEW c \in Modes!States, NEW d, d = Modes!incr_counter(c)
    PROVE  /\ d \in Modes!States
           /\ Modes!Number(c) \in Nat
           /\ \/ Modes!Number(c) + 1 < Modes!Power[kStateSize] /\ Modes!Number(d) = Modes!Number(c) + 1
              \/ Modes!Number(c) + 1 = Modes!Power[kStateSize] /\ Modes!Number(d) = 0
  <1> DEFINE K == kStateSize
             P == Modes!Power
             Carry(k) == \A j \in k + 1 .. K : c[j] = Base - 1
  <1>1. /\ K \in Nat /\ Base \in Nat \ {0} /\ P \in [0 .. K -> Nat] /\ P[0] = 1
        /\ \A k \in 1 .. K : P[k] = Base * P[k - 1]
    BY ModesTypes, PowerFacts
  <1>2. \A k \in 1 .. K : c[k] \in Nat /\ c[k] <= Base - 1
    BY StateIsSeq
  <1>3. d = [k \in 1 .. K |-> IF Carry(k) THEN (c[k] + 1) % Base ELSE c[k]]
    BY DEF Modes!incr_counter
  <1> HIDE DEF K, P, Carry
  <1>4. \A k \in 1 .. K : d[k] = IF ~Carry(k) THEN c[k] ELSE IF c[k] = Base - 1 THEN 0 ELSE c[k] + 1
    <2> TAKE k \in 1 .. K
    <2>1. c[k] \in Nat /\ c[k] <= Base - 1
      BY <1>2
    <2>2. c[k] = Base - 1 => (c[k] + 1) % Base = 0
      <3>1. c[k] = Base - 1 => c[k] + 1 = Base
        BY <1>1
      <3> QED BY <1>1, <3>1, ModFull
    <2>3. c[k] # Base - 1 => (c[k] + 1) % Base = c[k] + 1
      <3> DEFINE a == c[k]
      <3>1. a \in Nat /\ a <= Base - 1 /\ Base \in Nat \ {0}
        BY <1>1, <2>1
      <3> HIDE DEF a
      <3>2. a # Base - 1 => a + 1 \in Nat /\ a + 1 < Base
        BY <3>1
      <3>3. a # Base - 1 => (a + 1) % Base = a + 1
        BY <3>1, <3>2, ModSmall
      <3> QED BY <3>3 DEF a
    <2> QED BY <1>3, <2>2, <2>3
  <1>5. d \in Modes!States
    <2>1. \A k \in 1 .. K : d[k] \in 0 .. Base - 1
      <3> TAKE k \in 1 .. K
      <3> DEFINE a == c[k]
                 b == d[k]
      <3>1. a \in Nat /\ a <= Base - 1 /\ (b = a \/ b = 0 \/ (a # Base - 1 /\ b = a + 1))
        BY <1>2, <1>4
      <3> HIDE DEF a, b
      <3>2. b \in 0 .. Base - 1
        BY <1>1, <3>1
      <3> QED BY <3>2 DEF b
    <2>2. d = [k \in 1 .. K |-> d[k]]
      BY <1>3
    <2>3. d \in [1 .. K -> 0 .. Base - 1]
      BY <2>1, <2>2
    <2> QED BY <2>3 DEF Modes!States, Modes!Bytes, K
  <1>6. PICK g : Prefixes(c, g) /\ Modes!Number(c) = g[K]
    BY StateIsSeq, NumberFacts DEF K
  <1>7. PICK h : Prefixes(d, h) /\ Modes!Number(d) = h[K]
    BY <1>5, StateIsSeq, NumberFacts DEF K
  <1>8. /\ g \in [0 .. K -> Nat] /\ g[0] = 0 /\ \A k \in 1 .. K : g[k] = Base * g[k - 1] + c[k]
        /\ h \in [0 .. K -> Nat] /\ h[0] = 0 /\ \A k \in 1 .. K : h[k] = Base * h[k - 1] + d[k]
    BY <1>5, <1>6, <1>7, StateIsSeq DEF Prefixes, K
  <1>9. \A k \in 0 .. K : g[k] \in Nat /\ g[k] + 1 <= P[k]
    BY <1>6, NumberBelow DEF P, K
  <1> DEFINE S == {k \in 0 .. K :
                /\ ~Carry(k) => h[k] = g[k]
                /\ Carry(k) => \/ g[k] + 1 < P[k] /\ h[k] = g[k] + 1
                               \/ g[k] + 1 = P[k] /\ h[k] = 0}
  <1>10. S = 0 .. K
    <2>1. 0 \in S
      <3>1. Carry(0) => g[0] + 1 = P[0] /\ h[0] = 0
        BY <1>1, <1>8
      <3> QED BY <1>1, <1>8, <3>1
    <2>2. ASSUME NEW k \in 1 .. K, k - 1 \in S PROVE k \in S
      <3> DEFINE v == g[k - 1]
                 w == h[k - 1]
                 p == P[k - 1]
      <3>0. k - 1 \in 0 .. K /\ k \in 0 .. K
        BY <1>1
      <3>1. v \in Nat /\ w \in Nat /\ p \in Nat /\ v + 1 <= p /\ c[k] \in Nat /\ c[k] <= Base - 1 /\ k \in 0 .. K
        BY <1>1, <1>2, <1>8, <1>9, <3>0
      <3>9. g[k] = Base * v + c[k] /\ h[k] = Base * w + d[k] /\ P[k] = Base * p
        BY <1>1, <1>8
      <3>2. Carry(k - 1) <=> Carry(k) /\ c[k] = Base - 1
        <4>1. (k - 1) + 1 .. K = {k} \cup (k + 1 .. K)
          BY <1>1
        <4> QED BY <4>1 DEF Carry
      <3>3. /\ ~Carry(k - 1) => w = v
            /\ Carry(k - 1) => \/ v + 1 < p /\ w = v + 1
                               \/ v + 1 = p /\ w = 0
        BY <2>2
      <3>4. g[k] + 1 <= P[k] /\ g[k] \in Nat /\ P[k] \in Nat
        BY <1>1, <1>9, <3>0
      <3>5. d[k] = IF ~Carry(k) THEN c[k] ELSE IF c[k] = Base - 1 THEN 0 ELSE c[k] + 1
        BY <1>4
      <3> HIDE DEF v, w, p
      <3>6. CASE ~Carry(k)
        <4>1. w = v /\ d[k] = c[k]
          BY <3>2, <3>3, <3>5, <3>6
        <4>2. h[k] = g[k]
          BY <3>9, <4>1
        <4> QED BY <3>1, <3>6, <4>2
      <3>7. CASE Carry(k) /\ c[k] # Base - 1
        <4> DEFINE x == Base * v
                   y == Base * p
        <4>1. w = v /\ d[k] = c[k] + 1
          BY <3>2, <3>3, <3>5, <3>7
        <4>2. g[k] = x + c[k] /\ h[k] = x + d[k] /\ P[k] = y
          BY <3>9, <4>1
        <4>3. x \in Nat /\ y \in Nat /\ x + Base <= y
          <5>1. v * Base + Base <= p * Base
            <6>1. v < p
              BY <3>1
            <6> QED BY <1>1, <3>1, <6>1, MulStep
          <5> QED BY <1>1, <3>1, <5>1
        <4> HIDE DEF x, y
        <4>4. h[k] = g[k] + 1 /\ g[k] + 1 < P[k]
          <5> DEFINE a == c[k]
          <5>1. a \in Nat /\ a <= Base - 1 /\ a # Base - 1 /\ Base \in Nat
            BY <1>1, <3>1, <3>7
          <5>2. g[k] = x + a /\ h[k] = x + (a + 1) /\ P[k] = y
            BY <4>1, <4>2
          <5> HIDE DEF a
          <5> QED BY <4>3, <5>1, <5>2
        <4> QED BY <3>1, <3>7, <4>4
      <3>8. CASE Carry(k) /\ c[k] = Base - 1
        <4> DEFINE x == Base * v
        <4>1. d[k] = 0 /\ (\/ v + 1 < p /\ w = v + 1
                           \/ v + 1 = p /\ w = 0)
          BY <3>2, <3>3, <3>5, <3>8
        <4>2. x \in Nat /\ g[k] = x + (Base - 1) /\ Base * (v + 1) = x + Base
          BY <1>1, <3>1, <3>8, <3>9
        <4>3. CASE v + 1 < p /\ w = v + 1
          <5> DEFINE y == Base * p
                     z == Base * w
          <5>1. z \in Nat /\ y \in Nat /\ z + Base <= y /\ h[k] = z + d[k] /\ P[k] = y /\ z = x + Base
            <6>1. w * Base + Base <= p * Base
              BY <1>1, <3>1, <4>3, MulStep
            <6> QED BY <1>1, <3>1, <3>9, <4>2, <4>3, <6>1
          <5> HIDE DEF x, y, z
          <5>2. h[k] = g[k] + 1 /\ g[k] + 1 < P[k]
            BY <1>1, <3>1, <4>1, <4>2, <5>1
          <5> QED BY <3>1, <3>8, <5>2
        <4>4. CASE v + 1 = p /\ w = 0
          <5>1. h[k] = 0 /\ P[k] = x + Base
            BY <1>1, <3>1, <3>9, <4>1, <4>2, <4>4
          <5> HIDE DEF x
          <5>2. g[k] + 1 = P[k]
            BY <1>1, <4>2, <5>1
          <5> QED BY <3>1, <3>8, <5>1, <5>2
        <4> QED BY <4>1, <4>3, <4>4
      <3> QED BY <3>6, <3>7, <3>8
    <2>3. S \in SUBSET (0 .. K)
      OBVIOUS
    <2> HIDE DEF S
    <2> QED BY <1>1, <2>1, <2>2, <2>3, AllTheWay
  <1>11. K \in S /\ Carry(K)
    <2>1. K \in 0 .. K /\ K + 1 .. K = {}
      BY <1>1
    <2> QED BY <1>10, <2>1 DEF Carry
  <1>12. \/ g[K] + 1 < P[K] /\ h[K] = g[K] + 1
         \/ g[K] + 1 = P[K] /\ h[K] = 0
    BY <1>11
  <1>13. g[K] \in Nat
    BY <1>1, <1>9
  <1> QED BY <1>5, <1>6, <1>7, <1>12, <1>13 DEF P, K

\* The counter begins with the nonce, as its most significant bytes.
LEMMA PaddedNumber ==
    ASSUME Modes!ModesAssumption, NEW c \in ByteSeqs, Len(c) <= kStateSize, NEW d,
           d = [k \in 1 .. kStateSize |-> IF k \in DOMAIN c THEN c[k] ELSE 0]
    PROVE  /\ d \in Modes!States /\ Modes!Number(d) \in Nat /\ Modes!Number(d) < Modes!Power[kStateSize]
           /\ Modes!Number(d) = Modes!Number(c) * Modes!Power[kStateSize - Len(c)]
  <1> DEFINE K == kStateSize
             P == Modes!Power
             L == Len(c)
  <1>1. /\ K \in Nat /\ Base \in Nat \ {0} /\ P \in [0 .. K -> Nat] /\ P[0] = 1
        /\ \A k \in 1 .. K : P[k] = Base * P[k - 1]
    BY ModesTypes, PowerFacts
  <1>2. L \in Nat /\ L <= K /\ DOMAIN c = 1 .. L /\ \A k \in 1 .. L : c[k] \in 0 .. Base - 1
    <2>1. c \in Seq(Modes!Bytes)
      BY DEF ByteSeqs
    <2> DEFINE B == Modes!Bytes
    <2> HIDE DEF B
    <2>2. Len(c) \in Nat /\ DOMAIN c = 1 .. Len(c) /\ \A k \in 1 .. Len(c) : c[k] \in B
      BY <2>1 DEF B
    <2> QED BY <2>2 DEF B, Modes!Bytes
  <1>3. d = [k \in 1 .. K |-> IF k \in DOMAIN c THEN c[k] ELSE 0]
    OBVIOUS
  <1>4. PICK g : Prefixes(c, g) /\ Modes!Number(c) = g[L]
    BY NumberFacts
  <1>5. g \in [0 .. L -> Nat] /\ g[0] = 0 /\ \A k \in 1 .. L : g[k] = Base * g[k - 1] + c[k]
    BY <1>4 DEF Prefixes
  <1> HIDE DEF K, P, L
  <1>6. d \in Modes!States
    <2>1. \A k \in 1 .. K : (IF k \in DOMAIN c THEN c[k] ELSE 0) \in 0 .. Base - 1
      BY <1>1, <1>2
    <2>2. d \in [1 .. K -> 0 .. Base - 1]
      BY <1>3, <2>1
    <2> QED BY <2>2 DEF Modes!States, Modes!Bytes, K
  <1>7. PICK h : Prefixes(d, h) /\ Modes!Number(d) = h[K]
    BY <1>6, StateIsSeq, NumberFacts DEF K
  <1>8. h \in [0 .. K -> Nat] /\ h[0] = 0 /\ \A k \in 1 .. K : h[k] = Base * h[k - 1] + d[k]
    BY <1>6, <1>7, StateIsSeq DEF Prefixes, K
  <1>9. \A k \in 0 .. K : h[k] \in Nat /\ h[k] + 1 <= P[k]
    BY <1>6, <1>7, NumberBelow DEF P, K
  <1> DEFINE S == {k \in 0 .. L : h[k] = g[k]}
  <1>10. S = 0 .. L
    <2>1. 0 \in S
      BY <1>2, <1>5, <1>8
    <2>2. ASSUME NEW k \in 1 .. L, k - 1 \in S PROVE k \in S
      <3>0. k \in 1 .. K /\ k \in 0 .. L /\ k \in DOMAIN c
        BY <1>1, <1>2
      <3>1. k \in 1 .. K /\ d[k] = c[k] /\ k \in 0 .. L
        BY <1>3, <3>0
      <3>2. h[k - 1] = g[k - 1]
        BY <2>2
      <3>3. h[k] = g[k]
        BY <1>5, <1>8, <3>1, <3>2
      <3> QED BY <3>1, <3>3
    <2>3. S \in SUBSET (0 .. L)
      OBVIOUS
    <2> HIDE DEF S
    <2> QED BY <1>2, <2>1, <2>2, <2>3, AllTheWay
  <1> DEFINE a == g[L]
             M == K - L
             T == {k \in 0 .. M : h[L + k] = a * P[k]}
  <1>11. a \in Nat /\ h[L] = a /\ M \in Nat /\ L + M = K
    <2>1. L \in 0 .. L
      BY <1>2
    <2>2. h[L] = a
      BY <1>10, <2>1
    <2>3. a \in Nat
      BY <1>5, <2>1
    <2> HIDE DEF a
    <2>4. M \in Nat /\ L + M = K
      BY <1>1, <1>2
    <2> QED BY <2>2, <2>3, <2>4
  <1> HIDE DEF a, M
  <1>12. T = 0 .. M
    <2>1. 0 \in T
      <3>1. L + 0 = L /\ a * 1 = a /\ 0 \in 0 .. M
        BY <1>2, <1>11
      <3> QED BY <1>1, <1>11, <3>1
    <2>2. ASSUME NEW k \in 1 .. M, k - 1 \in T PROVE k \in T
      <3> DEFINE p == P[k - 1]
                 n == L + k
                 w == h[n - 1]
      <3>1. n \in 1 .. K /\ n \notin 1 .. L /\ k \in 1 .. K /\ k - 1 \in 0 .. K /\ k \in 0 .. M /\ n - 1 = L + (k - 1)
        BY <1>1, <1>2, <1>11
      <3>2. p \in Nat /\ P[k] = Base * p
        BY <1>1, <3>1
      <3>3. w = a * p
        <4>1. h[L + (k - 1)] = a * p
          BY <2>2
        <4> QED BY <3>1, <4>1
      <3>4. d[n] = 0 /\ h[n] = Base * w + d[n]
        <4>1. d[n] = 0
          BY <1>2, <1>3, <3>1
        <4> QED BY <1>8, <3>1, <4>1
      <3> HIDE DEF p, n, w
      <3>5. h[n] = Base * (a * p)
        <4> DEFINE x == Base * (a * p)
        <4>1. x \in Nat
          BY <1>1, <1>11, <3>2
        <4>2. h[n] = x + 0
          BY <3>3, <3>4
        <4> HIDE DEF x
        <4>3. h[n] = x
          BY <4>1, <4>2
        <4> QED BY <4>3 DEF x
      <3>6. Base * (a * p) = a * (Base * p)
        BY <1>1, <1>11, <3>2
      <3>7. h[n] = a * P[k]
        BY <3>2, <3>5, <3>6
      <3> QED BY <3>1, <3>7 DEF n
    <2>3. T \in SUBSET (0 .. M)
      OBVIOUS
    <2> HIDE DEF T
    <2> QED BY <1>11, <2>1, <2>2, <2>3, AllTheWay
  <1>13. h[K] = a * P[M]
    <2>1. M \in T
      BY <1>11, <1>12
    <2> QED BY <1>11, <2>1
  <1>14. h[K] \in Nat /\ h[K] < P[K]
    <2>1. h[K] \in Nat /\ h[K] + 1 <= P[K] /\ P[K] \in Nat
      BY <1>1, <1>9
    <2> QED BY <2>1
  <1> QED BY <1>4, <1>6, <1>7, <1>13, <1>14 DEF a, M, L, P, K

\* Where the counter begins, and the inductive invariant of crypt_ctr: u blocks of
\* key stream were begun, and blkpos bytes of the last one are used.
From == Modes!Number(call.nonce) * Modes!Power[kStateSize - Len(call.nonce)]
Counting == call.op = "crypt" /\ modePc \in {"bytes", "Ok"} =>
    /\ call.nonce \in ByteSeqs /\ Len(call.nonce) <= kStateSize
    /\ counter \in Modes!States /\ blk \in Modes!States /\ blkpos \in 1 .. kStateSize
    /\ \E u \in Nat : /\ blocks + kStateSize = u * kStateSize + blkpos
                      /\ Modes!Number(counter) = (From + u) % Modes!Power[kStateSize]

\* The counter begins with a number.
LEMMA FromIsNat == ASSUME Modes!ModesAssumption, call.nonce \in ByteSeqs, Len(call.nonce) <= kStateSize
    PROVE  From \in Nat
  <1> DEFINE c == call.nonce
             k == kStateSize - Len(c)
  <1>1. c \in ByteSeqs /\ k \in 0 .. kStateSize
    <2>1. Len(c) \in Nat
      BY DEF ByteSeqs
    <2> QED BY <2>1, ModesTypes
  <1> HIDE DEF c
  <1>2. PICK g : Prefixes(c, g) /\ Modes!Number(c) = g[Len(c)]
    BY <1>1, NumberFacts
  <1>3. Modes!Number(c) \in Nat
    <2>1. g \in [0 .. Len(c) -> Nat] /\ Len(c) \in Nat
      BY <1>1, <1>2 DEF Prefixes, ByteSeqs
    <2> QED BY <1>2, <2>1
  <1>4. Modes!Power[k] \in Nat
    <2> HIDE DEF k
    <2> QED BY <1>1, PowersPositive
  <1>5. Modes!Number(c) * Modes!Power[k] \in Nat
    BY <1>3, <1>4
  <1> QED BY <1>5 DEF From, c

\* crypt_ctr has begun no block yet.
LEMMA CountingInit == ASSUME Modes!ModesAssumption, Modes!Init PROVE Counting
  <1> SUFFICES ASSUME call.op = "crypt", modePc \in {"bytes", "Ok"} PROVE Counting
    BY DEF Counting
  <1> DEFINE c == call.nonce
             K == kStateSize
  <1>1. call \in Modes!CtrCalls /\ blk = Modes!Zeros /\ blocks = 0 /\ blkpos = kStateSize
    BY DEF Modes!Init, Modes!Calls
  <1>2. c \in ByteSeqs
    BY <1>1 DEF Modes!CtrCalls, Modes!ModesAssumption, ByteSeqs
  <1>3. Len(c) <= K
    <2>1. ~(Len(c) > K)
      BY DEF Modes!Init
    <2> QED BY <1>2, <2>1, ModesTypes DEF ByteSeqs
  <1>4. counter = [k \in 1 .. kStateSize |-> IF k \in DOMAIN c THEN c[k] ELSE 0]
    BY Zenon DEF Modes!Init
  <1>5. /\ counter \in Modes!States /\ Modes!Number(counter) \in Nat /\ Modes!Number(counter) < Modes!Power[K]
        /\ Modes!Number(counter) = From
    <2>1. /\ counter \in Modes!States /\ Modes!Number(counter) \in Nat /\ Modes!Number(counter) < Modes!Power[K]
          /\ Modes!Number(counter) = Modes!Number(c) * Modes!Power[K - Len(c)]
      <3> HIDE DEF c
      <3> QED BY <1>2, <1>3, <1>4, PaddedNumber
    <2> QED BY <2>1 DEF From
  <1>6. K \in Nat \ {0} /\ Modes!Zeros \in Modes!States /\ Modes!Power[K] \in Nat \ {0}
    <2>1. K \in Nat \ {0} /\ Modes!Zeros \in Modes!States
      BY ModesTypes
    <2>2. K \in 0 .. K
      BY <2>1
    <2> QED BY <2>1, <2>2, PowersPositive
  <1>7. blkpos \in 1 .. K /\ blocks + K = 0 * K + blkpos
    BY <1>1, <1>6
  <1>8. Modes!Number(counter) = (From + 0) % Modes!Power[K]
    <2> DEFINE a == From
               p == Modes!Power[K]
    <2>1. a \in Nat /\ p \in Nat \ {0} /\ a < p
      BY <1>5, <1>6
    <2> HIDE DEF a, p
    <2>2. (a + 0) % p = a
      <3>1. a + 0 = a
        BY <2>1
      <3> QED BY <2>1, <3>1, ModSmall
    <2> QED BY <1>5, <2>2 DEF a, p
  <1> QED BY <1>1, <1>2, <1>3, <1>5, <1>6, <1>7, <1>8 DEF Counting

\* A byte of crypt_ctr uses the key stream, or begins a block of it.
LEMMA CryptByteKeeps == ASSUME Modes!ModesAssumption, BlocksInv, Counting, Modes!CryptByte
    PROVE  BlocksInv' /\ Counting'
  <1> DEFINE K == kStateSize
             fresh == blkpos = K
             b == IF fresh THEN encrypt_state(counter) ELSE blk
             q == IF fresh THEN 0 ELSE blkpos
             x == b[q + 1]
  <1>1. /\ modePc = "bytes" /\ blocks < Len(data)
        /\ counter' = (IF fresh THEN Modes!incr_counter(counter) ELSE counter)
        /\ blk' = b /\ blkpos' = q + 1
        /\ data' = [data EXCEPT ![blocks + 1] = xor_byte(@, x)]
        /\ blocks' = blocks + 1
        /\ plain' = plain /\ call' = call /\ out' = out /\ modePc' = modePc /\ padded_size' = padded_size
    BY DEF Modes!CryptByte
  <1>2. call.op = "crypt" /\ data \in Seq(Modes!Bytes) /\ blocks \in Nat
    BY <1>1 DEF BlocksInv, ModesTyped, ByteSeqs
  <1>3. /\ call.nonce \in ByteSeqs /\ Len(call.nonce) <= kStateSize
        /\ counter \in Modes!States /\ blk \in Modes!States /\ blkpos \in 1 .. K
    BY <1>1, <1>2 DEF Counting
  <1>4. PICK u \in Nat : /\ blocks + K = u * K + blkpos
                         /\ Modes!Number(counter) = (From + u) % Modes!Power[K]
    BY <1>1, <1>2 DEF Counting
  <1>5. K \in Nat \ {0} /\ encrypt_state(counter) \in Modes!States /\ From \in Nat
    BY <1>3, ModesTypes, FromIsNat
  <1>6. Modes!Power[K] \in Nat \ {0}
    <2>1. K \in 0 .. K
      BY <1>5
    <2> QED BY <2>1, PowersPositive
  <1>7. b \in Modes!States /\ q + 1 \in 1 .. K
    BY <1>3, <1>5
  <1>8. x \in Modes!Bytes
    <2> HIDE DEF b, q
    <2> QED BY <1>7 DEF Modes!States
  <1> HIDE DEF x, b
  <1>9. data' \in ByteSeqs
    <2> DEFINE B == Modes!Bytes
               l == Len(data)
               y == xor_byte(data[blocks + 1], x)
    <2>1. l \in Nat /\ data \in [1 .. l -> B] /\ blocks + 1 \in 1 .. l
      BY <1>1, <1>2
    <2>2. y \in B
      <3>1. data[blocks + 1] \in B
        <4> HIDE DEF B, l
        <4> QED BY <2>1
      <3> QED BY <1>8, <3>1 DEF Modes!ModesAssumption
    <2>3. data' = [data EXCEPT ![blocks + 1] = y]
      BY <1>1
    <2> HIDE DEF B, l, y
    <2>4. data' \in [1 .. l -> B]
      BY <2>1, <2>2, <2>3
    <2>5. data' \in Seq(B)
      BY <2>1, <2>4, RowIsSeq
    <2> QED BY <2>5 DEF B, ByteSeqs
  <1>10. ModesTyped'
    <2>1. blocks' \in Nat
      BY <1>1, <1>2
    <2> QED BY <1>1, <1>2, <1>9, <2>1 DEF BlocksInv, ModesTyped, Buffers, Modes!Calls, Modes!CtrCalls
  <1>11. BlocksInv'
    BY <1>1, <1>2, <1>10 DEF BlocksInv, Modes!InBounds, Encrypting, Decrypting, OwnData
  <1>12. From' = From
    BY <1>1 DEF From, Modes!Number, Modes!Power
  <1>13. /\ counter' \in Modes!States
         /\ \E w \in Nat : /\ blocks' + K = w * K + blkpos'
                           /\ Modes!Number(counter') = (From + w) % Modes!Power[K]
    <2>1. CASE fresh
      <3> DEFINE p == Modes!Power[K]
                 r == Modes!Number(counter)
                 s == Modes!Number(counter')
                 a == From + u
      <3>1. counter' = Modes!incr_counter(counter)
        BY <1>1, <2>1
      <3>2. /\ counter' \in Modes!States /\ r \in Nat
            /\ \/ r + 1 < p /\ s = r + 1
               \/ r + 1 = p /\ s = 0
        BY <1>3, <3>1, IncrementAddsOne
      <3>3. a \in Nat /\ p \in Nat \ {0} /\ r = a % p /\ a + 1 = From + (u + 1)
        BY <1>4, <1>5, <1>6
      <3> HIDE DEF p, r, s, a
      <3>4. s = (a + 1) % p
        <4>1. /\ r + 1 < p => (a + 1) % p = r + 1
              /\ r + 1 = p => (a + 1) % p = 0
          BY <3>3, ModNext, ZenonT(60)
        <4> QED BY <3>2, <4>1, Zenon
      <3>5. blocks' + K = (u + 1) * K + blkpos'
        <4> DEFINE m == u * K
        <4>1. m \in Nat /\ (u + 1) * K = m + K /\ blocks + K = m + K /\ blkpos' = 1 /\ blocks' = blocks + 1
          BY <1>1, <1>4, <1>5, <2>1
        <4> HIDE DEF m
        <4> QED BY <1>2, <1>5, <4>1
      <3>6. u + 1 \in Nat /\ s = (From + (u + 1)) % p
        BY <3>3, <3>4
      <3> QED BY <3>2, <3>5, <3>6 DEF s, p
    <2>2. CASE ~fresh
      <3>1. counter' = counter /\ blkpos' = blkpos + 1
        BY <1>1, <2>2
      <3>2. blocks' + K = u * K + blkpos'
        <4> DEFINE m == u * K
        <4>1. m \in Nat /\ blocks + K = m + blkpos /\ blocks' = blocks + 1 /\ blkpos \in Nat
          BY <1>1, <1>3, <1>4, <1>5
        <4> HIDE DEF m
        <4>2. blocks' + K = m + blkpos'
          BY <1>2, <1>5, <3>1, <4>1
        <4> QED BY <4>2 DEF m
      <3> QED BY <1>3, <1>4, <3>1, <3>2
    <2> QED BY <2>1, <2>2
  <1>14. Counting'
    <2>1. blk' \in Modes!States /\ blkpos' \in 1 .. kStateSize
      BY <1>1, <1>7
    <2>2. call' = call /\ From' = From
      BY <1>1, <1>12
    <2>3. \E w \in Nat : /\ blocks' + kStateSize = w * kStateSize + blkpos'
                         /\ Modes!Number(counter') = (From' + w) % Modes!Power[kStateSize]
      BY <1>12, <1>13
    <2> QED BY <1>3, <1>13, <2>1, <2>2, <2>3 DEF Counting, Modes!Number, Modes!Power
  <1> QED BY <1>11, <1>14

\* crypt_ctr returns.
LEMMA CryptReturnKeeps == ASSUME Modes!ModesAssumption, BlocksInv, Counting, Modes!CryptReturn
    PROVE  BlocksInv' /\ Counting'
  <1>1. /\ modePc = "bytes" /\ modePc' = "Ok" /\ call.op = "crypt"
        /\ plain' = plain /\ call' = call /\ data' = data /\ out' = out /\ blocks' = blocks
        /\ padded_size' = padded_size /\ counter' = counter /\ blk' = blk /\ blkpos' = blkpos
    BY DEF Modes!CryptReturn, Modes!ctrVars, BlocksInv, ModesTyped
  <1>2. BlocksInv'
    <2>1. ModesTyped'
      BY <1>1 DEF BlocksInv, ModesTyped, Buffers, Modes!Calls, Modes!CtrCalls
    <2> QED BY <1>1, <2>1 DEF BlocksInv, Modes!InBounds, Encrypting, Decrypting, OwnData
  <1>3. Counting'
    <2>1. /\ call.nonce \in ByteSeqs /\ Len(call.nonce) <= kStateSize
          /\ counter \in Modes!States /\ blk \in Modes!States /\ blkpos \in 1 .. kStateSize
      BY <1>1 DEF Counting
    <2>2. PICK u \in Nat : /\ blocks + kStateSize = u * kStateSize + blkpos
                           /\ Modes!Number(counter) = (From + u) % Modes!Power[kStateSize]
      BY <1>1 DEF Counting
    <2>3. From' = From /\ Modes!Number(counter)' = Modes!Number(counter)
      BY <1>1 DEF From, Modes!Number, Modes!Power
    <2>4. /\ blocks' + kStateSize = u * kStateSize + blkpos'
          /\ Modes!Number(counter)' = (From' + u) % Modes!Power[kStateSize]
      BY <1>1, <2>2, <2>3, Zenon
    <2>5. \E w \in Nat : /\ blocks' + kStateSize = w * kStateSize + blkpos'
                         /\ Modes!Number(counter)' = (From' + w) % Modes!Power[kStateSize]
      BY <2>4
    <2> QED BY <1>1, <2>1, <2>5 DEF Counting
  <1> QED BY <1>2, <1>3

\* Every step keeps both invariants.
LEMMA ModesNext == ASSUME Modes!ModesAssumption, BlocksInv, Counting, [Modes!Next]_Modes!vars
    PROVE  BlocksInv' /\ Counting'
  <1>1. CASE Modes!Check
    <2>1. call' = call /\ call.op # "crypt"
      BY <1>1 DEF Modes!Check, BlocksInv, ModesTyped
    <2> QED BY <1>1, <2>1, CheckKeeps DEF Counting
  <1>2. CASE Modes!EncryptBlock
    BY <1>2, EncryptBlockKeeps DEF Modes!EncryptBlock, Counting
  <1>3. CASE Modes!EncryptLast
    BY <1>3, EncryptLastKeeps DEF Modes!EncryptLast, Counting
  <1>4. CASE Modes!DecryptBlock
    BY <1>4, DecryptBlockKeeps DEF Modes!DecryptBlock, Counting
  <1>5. CASE Modes!DecryptLast
    BY <1>5, DecryptLastKeeps DEF Modes!DecryptLast, Counting
  <1>6. CASE Modes!Decrypt
    <2>1. modePc' = "check"
      BY <1>6 DEF Modes!Decrypt
    <2> QED BY <1>6, <2>1, DecryptKeeps DEF Counting
  <1>7. CASE Modes!CryptByte
    BY <1>7, CryptByteKeeps
  <1>8. CASE Modes!CryptReturn
    BY <1>8, CryptReturnKeeps
  <1>9. CASE UNCHANGED Modes!vars
    <2>1. /\ plain' = plain /\ call' = call /\ data' = data /\ out' = out /\ blocks' = blocks /\ modePc' = modePc
          /\ padded_size' = padded_size /\ counter' = counter /\ blk' = blk /\ blkpos' = blkpos
      BY <1>9 DEF Modes!vars
    <2>2. ModesTyped'
      BY <2>1 DEF BlocksInv, ModesTyped, Buffers, Modes!Calls, Modes!CtrCalls
    <2>3. BlocksInv'
      BY <2>1, <2>2 DEF BlocksInv, Modes!InBounds, Modes!FirstBlockUnasked, Encrypting, Decrypting, OwnData
    <2>4. Counting'
      <3> SUFFICES ASSUME call.op = "crypt", modePc \in {"bytes", "Ok"} PROVE Counting'
        BY <2>1 DEF Counting
      <3>1. /\ call.nonce \in ByteSeqs /\ Len(call.nonce) <= kStateSize
            /\ counter \in Modes!States /\ blk \in Modes!States /\ blkpos \in 1 .. kStateSize
        BY DEF Counting
      <3>2. PICK u \in Nat : /\ blocks + kStateSize = u * kStateSize + blkpos
                             /\ Modes!Number(counter) = (From + u) % Modes!Power[kStateSize]
        BY DEF Counting
      <3>3. From' = From /\ Modes!Number(counter)' = Modes!Number(counter)
        BY <2>1 DEF From, Modes!Number, Modes!Power
      <3>4. /\ blocks' + kStateSize = u * kStateSize + blkpos'
            /\ Modes!Number(counter)' = (From' + u) % Modes!Power[kStateSize]
        BY <2>1, <3>2, <3>3, Zenon
      <3>5. \E w \in Nat : /\ blocks' + kStateSize = w * kStateSize + blkpos'
                           /\ Modes!Number(counter)' = (From' + w) % Modes!Power[kStateSize]
        BY <3>4
      <3> QED BY <2>1, <3>1, <3>5 DEF Counting
    <2> QED BY <2>3, <2>4
  <1>10. CASE Modes!DecryptNothing
    BY <1>10, DecryptNothingKeeps DEF Modes!DecryptNothing, Counting
  <1> QED BY <1>1, <1>2, <1>3, <1>4, <1>5, <1>6, <1>7, <1>8, <1>9, <1>10 DEF Modes!Next

\* What the invariants say of the calls.
LEMMA ModesPromise == ASSUME Modes!ModesAssumption, BlocksInv, Counting PROVE ModesSound
  <1>1. Modes!RoundTrip
    <2> SUFFICES ASSUME call.op = "decrypt", modePc = "Ok", plain # Modes!NoMessage
                 PROVE  SubSeq(out, 1, Len(data) - padded_size) = plain
      BY DEF Modes!RoundTrip, Modes!Decrypted
    <2> DEFINE n == Len(plain)
               S == Modes!Bytes
               y == SubSeq(out, 1, n)
    <2>1. Len(data) - padded_size = n /\ \A k \in 1 .. n : out[k] = plain[k]
      BY DEF BlocksInv, OwnData
    <2>2. plain \in Seq(S)
      BY DEF BlocksInv, ModesTyped, ByteSeqs
    <2> HIDE DEF S
    <2>3. n \in Nat /\ plain = [k \in 1 .. n |-> plain[k]] /\ \A k \in 1 .. n : plain[k] \in S
      BY <2>2
    <2> HIDE DEF n, y
    <2>4. SubSeq(out, 1, n) \in Seq(S) /\ Len(SubSeq(out, 1, n)) = (IF 1 <= n THEN n - 1 + 1 ELSE 0)
          /\ \A j \in 1 .. n - 1 + 1 : SubSeq(out, 1, n)[j] = out[1 + j - 1]
      <3>1. 1 \in Int /\ n \in Int /\ \A k \in 1 .. n : out[k] \in S
        BY <2>1, <2>3
      <3> QED BY <3>1, SubSeqProperties
    <2>5. n - 1 + 1 = n /\ (IF 1 <= n THEN n - 1 + 1 ELSE 0) = n /\ \A j \in 1 .. n : 1 + j - 1 = j
      BY <2>3
    <2>6. y \in Seq(S) /\ Len(y) = n /\ \A j \in 1 .. n : y[j] = plain[j]
      BY <2>1, <2>4, <2>5 DEF y
    <2>7. y = [j \in 1 .. n |-> y[j]]
      BY <2>6
    <2>8. y = plain
      BY <2>3, <2>6, <2>7
    <2> QED BY <2>1, <2>8 DEF y
  <1>2. Modes!OwnDataAccepted
    <2> SUFFICES ASSUME call.op = "decrypt", plain # Modes!NoMessage, call.key_ok, call.size >= Len(data),
                        call.pads \/ plain # <<>>
                 PROVE  modePc \in {"check", "blocks", "Ok"}
      BY DEF Modes!OwnDataAccepted
    <2> DEFINE n == Total(call.pads, plain)
    <2>1. /\ plain \in ByteSeqs /\ (call.pads \/ Rest(plain) = 0) /\ call.pads \in BOOLEAN
          /\ Len(plain) \in Nat /\ kStateSize \in Nat \ {0}
      BY CallTypes, ModesTypes DEF BlocksInv, OwnData, ModesTyped, ByteSeqs
    <2>2. /\ n \in Nat /\ Rest(plain) \in 0 .. kStateSize - 1
          /\ n * kStateSize = IF call.pads THEN Len(plain) + (kStateSize - Rest(plain)) ELSE Len(plain)
      BY <2>1, TotalFacts
    <2> HIDE DEF n
    <2>3. plain # <<>> => Len(plain) # 0
      BY <2>1 DEF ByteSeqs
    <2>4. n * kStateSize # 0
      BY <2>1, <2>2, <2>3
    <2>5. n # 0
      BY <2>1, <2>4
    <2> QED BY <2>5 DEF BlocksInv, OwnData, n
  <1>3. Modes!InBounds
    BY DEF BlocksInv
  <1>4. Modes!CounterCounts
    <2> SUFFICES ASSUME call.op = "crypt", modePc \in {"bytes", "Ok"}
                 PROVE  Modes!Number(counter) = (From + ((blocks + kStateSize - 1) \div kStateSize)) % Modes!Power[kStateSize]
      BY DEF Modes!CounterCounts, From
    <2> DEFINE K == kStateSize
    <2>1. PICK u \in Nat : /\ blocks + K = u * K + blkpos
                           /\ Modes!Number(counter) = (From + u) % Modes!Power[K]
      BY DEF Counting
    <2>2. K \in Nat \ {0} /\ blkpos \in 1 .. K /\ blocks \in Nat
      BY ModesTypes DEF Counting, BlocksInv, ModesTyped
    <2>3. (blocks + K - 1) \div K = u
      <3> DEFINE x == u * K
                 r == blkpos - 1
      <3>1. x \in Nat /\ blocks + K = x + blkpos /\ r \in 0 .. K - 1
        BY <2>1, <2>2
      <3>2. (x + r) \div K = u
        BY <2>2, <3>1, DivUnique
      <3> HIDE DEF x
      <3>3. blocks + K - 1 = x + r
        BY <2>2, <3>1
      <3> QED BY <3>2, <3>3
    <2> QED BY <2>1, <2>3
  <1> QED BY <1>1, <1>2, <1>3, <1>4 DEF ModesSound

\* plusaes, for every size of a block, every cipher that can be undone and
\* every length of the message: what was encrypted comes back; one's own data
\* is never refused; a call writes no byte past the size its caller names but
\* the first block of those FirstBlockUnasked names, and unless it decrypts
\* nothing without padding; and the counter of crypt_ctr stands at the nonce
\* plus the blocks that were begun.
THEOREM ModesCorrect == ASSUME Modes!ModesAssumption PROVE Modes!Spec => []ModesSound
  <1>1. Modes!Init => BlocksInv /\ Counting
    BY BlocksInit, CountingInit
  <1>2. BlocksInv /\ Counting /\ [Modes!Next]_Modes!vars => BlocksInv' /\ Counting'
    BY ModesNext
  <1>3. BlocksInv /\ Counting => ModesSound
    BY ModesPromise
  <1> QED BY <1>1, <1>2, <1>3, PTL DEF Modes!Spec

==============================================================================
