---------------------------- MODULE EpollPortProofs ----------------------------
(***************************************************************************)
(* Proofs about EpollPort, for every number of threads, cells and sockets. *)
(***************************************************************************)
EXTENDS EpollPort, Integers, FiniteSetTheorems, SequenceTheorems, TLAPS

------------------------------------------------------------------------------
(* Queues of cells *)

LEMMA AppendQueue ==
    ASSUME NEW S, NEW q \in Seq(S), NEW c \in S
    PROVE  /\ Append(q, c) \in Seq(S)
           /\ \A d : Contains(Append(q, c), d) <=> Contains(q, d) \/ d = c
           /\ IsInjective(q) /\ ~Contains(q, c) => IsInjective(Append(q, c))
  <1>0. PICK n \in Nat : n = Len(q)
    BY LenProperties
  <1>1. /\ Append(q, c) \in Seq(S) /\ Len(Append(q, c)) = n + 1
        /\ \A i \in 1 .. n : Append(q, c)[i] = q[i]
        /\ Append(q, c)[n + 1] = c
    BY <1>0, AppendProperties
  <1>2. PICK a \in Seq(S) : a = Append(q, c)
    BY <1>1
  <1>3. \A i \in 1 .. n + 1 : i \in 1 .. n \/ i = n + 1
    OBVIOUS
  <1>4. \A i \in 1 .. n : i \in 1 .. n + 1 /\ i # n + 1
    OBVIOUS
  <1>5. n + 1 \in 1 .. n + 1
    OBVIOUS
  <1>6. \A d : Contains(a, d) <=> Contains(q, d) \/ d = c
    BY <1>0, <1>1, <1>2, <1>3, <1>4, <1>5, Zenon DEF Contains
  <1>7. DOMAIN a = 1 .. n + 1 /\ DOMAIN q = 1 .. n
    BY <1>0, <1>1, <1>2, LenProperties
  <1>8. ASSUME IsInjective(q), ~Contains(q, c) PROVE IsInjective(a)
    <2>1. \A i \in 1 .. n : q[i] # c
      BY <1>0, <1>8 DEF Contains
    <2>2. \A i, j \in 1 .. n : q[i] = q[j] => i = j
      BY <1>7, <1>8 DEF IsInjective
    <2>3. \A i, j \in 1 .. n + 1 : a[i] = a[j] => i = j
      BY <1>1, <1>2, <1>3, <1>4, <2>1, <2>2, Zenon
    <2> QED
      BY <1>7, <2>3 DEF IsInjective
  <1> QED
    BY <1>1, <1>2, <1>6, <1>8

(* Unlinking takes an element out of a queue that holds it at most once.   *)
LEMMA WithoutQueue ==
    ASSUME NEW S, NEW q \in Seq(S), IsInjective(q), NEW c
    PROVE  /\ Without(q, c) \in Seq(S) /\ IsInjective(Without(q, c))
           /\ \A d : Contains(Without(q, c), d) <=> Contains(q, d) /\ d # c
  <1>0. PICK n \in Nat : n = Len(q) /\ DOMAIN q = 1 .. n
    BY LenProperties
  <1>1. CASE ~Contains(q, c)
    <2>1. Without(q, c) = q
      BY <1>1 DEF Without
    <2> QED
      BY <1>1, <2>1
  <1>2. CASE Contains(q, c)
    <2>1. PICK k \in 1 .. n : q[k] = c /\ Without(q, c) = RemoveAt(q, k)
      <3>1. \E i \in DOMAIN q : q[i] = c
        BY <1>0, <1>2 DEF Contains
      <3>2. (CHOOSE i \in DOMAIN q : q[i] = c) \in DOMAIN q
            /\ q[CHOOSE i \in DOMAIN q : q[i] = c] = c
        BY <3>1
      <3> QED
        BY <1>0, <1>2, <3>2 DEF Without
    <2>2. \A i \in 1 .. n : q[i] \in S
      BY <1>0, ElementOfSeq
    <2>3. PICK u \in Seq(S) : u = SubSeq(q, 1, k - 1) /\ Len(u) = k - 1
                            /\ \A i \in 1 .. k - 1 : u[i] = q[i]
      <3>1. \A i \in 1 .. k - 1 : q[i] \in S
        BY <2>2
      <3>2. /\ SubSeq(q, 1, k - 1) \in Seq(S)
            /\ Len(SubSeq(q, 1, k - 1)) = IF 1 <= k - 1 THEN k - 1 - 1 + 1 ELSE 0
            /\ \A i \in 1 .. k - 1 - 1 + 1 : SubSeq(q, 1, k - 1)[i] = q[1 + i - 1]
        BY <3>1, SubSeqProperties
      <3>3. (IF 1 <= k - 1 THEN k - 1 - 1 + 1 ELSE 0) = k - 1 /\ k - 1 - 1 + 1 = k - 1
            /\ \A i \in 1 .. k - 1 : 1 + i - 1 = i
        OBVIOUS
      <3> QED
        BY <3>2, <3>3
    <2>4. PICK v \in Seq(S) : v = SubSeq(q, k + 1, n) /\ Len(v) = n - k
                            /\ \A i \in 1 .. n - k : v[i] = q[k + i]
      <3>1. \A i \in k + 1 .. n : q[i] \in S
        BY <2>2
      <3>2. /\ SubSeq(q, k + 1, n) \in Seq(S)
            /\ Len(SubSeq(q, k + 1, n)) = IF k + 1 <= n THEN n - (k + 1) + 1 ELSE 0
            /\ \A i \in 1 .. n - (k + 1) + 1 : SubSeq(q, k + 1, n)[i] = q[(k + 1) + i - 1]
        BY <3>1, SubSeqProperties
      <3>3. (IF k + 1 <= n THEN n - (k + 1) + 1 ELSE 0) = n - k /\ n - (k + 1) + 1 = n - k
            /\ \A i \in 1 .. n - k : (k + 1) + i - 1 = k + i
        OBVIOUS
      <3>4. \A i \in 1 .. n - k : SubSeq(q, k + 1, n)[i] = q[k + i]
        BY <3>2, <3>3, Zenon
      <3>5. Len(SubSeq(q, k + 1, n)) = n - k
        BY <3>2, <3>3, Zenon
      <3> QED
        BY <3>2, <3>4, <3>5, Zenon
    <2>5. PICK w \in Seq(S) : w = Without(q, c) /\ DOMAIN w = 1 .. n - 1 /\ Len(w) = n - 1
                            /\ \A i \in 1 .. n - 1 : w[i] = q[IF i < k THEN i ELSE i + 1]
      <3>1. Without(q, c) = u \o v
        BY <1>0, <2>1, <2>3, <2>4 DEF RemoveAt
      <3>2. /\ u \o v \in Seq(S) /\ Len(u \o v) = (k - 1) + (n - k)
            /\ \A i \in 1 .. (k - 1) + (n - k) :
                  (u \o v)[i] = IF i <= k - 1 THEN u[i] ELSE v[i - (k - 1)]
        <4>1. /\ u \o v \in Seq(S) /\ Len(u \o v) = Len(u) + Len(v)
              /\ \A i \in 1 .. Len(u) + Len(v) :
                    (u \o v)[i] = IF i <= Len(u) THEN u[i] ELSE v[i - Len(u)]
          BY ConcatProperties
        <4>2. Len(u) = k - 1 /\ Len(v) = n - k
          BY <2>3, <2>4
        <4> QED
          BY <4>1, <4>2, Zenon
      <3>3. (k - 1) + (n - k) = n - 1
        OBVIOUS
      <3>4. ASSUME NEW i \in 1 .. n - 1 PROVE (u \o v)[i] = q[IF i < k THEN i ELSE i + 1]
        <4>1. CASE i < k
          <5>1. i <= k - 1 /\ i \in 1 .. k - 1
            BY <4>1
          <5> QED
            BY <2>3, <3>2, <3>3, <4>1, <5>1
        <4>2. CASE ~(i < k)
          <5>1. ~(i <= k - 1) /\ i - (k - 1) \in 1 .. n - k /\ k + (i - (k - 1)) = i + 1
            BY <4>2
          <5>2. (u \o v)[i] = v[i - (k - 1)] /\ v[i - (k - 1)] = q[k + (i - (k - 1))]
            BY <2>4, <3>2, <3>3, <5>1
          <5> QED
            BY <4>2, <5>1, <5>2
        <4> QED
          BY <4>1, <4>2
      <3>5. DOMAIN (u \o v) = 1 .. n - 1
        BY <3>2, <3>3, LenProperties
      <3> QED
        BY <3>1, <3>2, <3>3, <3>4, <3>5
    <2>6. \A i, j \in 1 .. n : q[i] = q[j] => i = j
      BY <1>0 DEF IsInjective
    <2>7. IsInjective(w)
      <3>1. ASSUME NEW i \in 1 .. n - 1, NEW j \in 1 .. n - 1, w[i] = w[j] PROVE i = j
        <4>1. /\ (IF i < k THEN i ELSE i + 1) \in 1 .. n
              /\ (IF j < k THEN j ELSE j + 1) \in 1 .. n
          OBVIOUS
        <4>2. (IF i < k THEN i ELSE i + 1) = (IF j < k THEN j ELSE j + 1)
          BY <2>5, <2>6, <3>1, <4>1
        <4> QED
          BY <4>2
      <3> QED
        BY <2>5, <3>1 DEF IsInjective
    <2>8. ASSUME NEW d PROVE Contains(w, d) <=> Contains(q, d) /\ d # c
      <3>1. ASSUME NEW i \in 1 .. n - 1, w[i] = d
            PROVE  \E j \in 1 .. n : q[j] = d /\ j # k
        <4>1. (IF i < k THEN i ELSE i + 1) \in 1 .. n /\ (IF i < k THEN i ELSE i + 1) # k
          OBVIOUS
        <4> QED
          BY <2>5, <3>1, <4>1
      <3>2. ASSUME NEW j \in 1 .. n, q[j] = d, d # c
            PROVE  \E i \in 1 .. n - 1 : w[i] = d
        <4>1. j # k
          BY <2>1, <3>2
        <4>2. CASE j < k
          <5>1. j \in 1 .. n - 1
            BY <4>2
          <5> QED
            BY <2>5, <3>2, <4>2, <5>1
        <4>3. CASE j > k
          <5>1. j - 1 \in 1 .. n - 1 /\ ~(j - 1 < k) /\ (j - 1) + 1 = j
            BY <4>3
          <5>2. w[j - 1] = q[(j - 1) + 1]
            BY <2>5, <5>1
          <5> QED
            BY <3>2, <5>1, <5>2
        <4> QED
          BY <4>1, <4>2, <4>3
      <3>3. Contains(w, d) <=> \E i \in 1 .. n - 1 : w[i] = d
        BY <2>5 DEF Contains
      <3>4. Contains(q, d) <=> \E j \in 1 .. n : q[j] = d
        BY <1>0 DEF Contains
      <3>5. \A j \in 1 .. n : q[j] = c => j = k
        BY <2>1, <2>6
      <3> QED
        BY <3>1, <3>2, <3>3, <3>4, <3>5
    <2> QED
      BY <2>5, <2>7, <2>8
  <1> QED
    BY <1>1, <1>2

------------------------------------------------------------------------------
(* Sequences of packets *)

LEMMA NoPackets ==
    ASSUME NEW S
    PROVE  <<>> \in Seq(S) /\ AtMostOnce(<<>>) /\ \A c : ~Points(<<>>, c)
  <1>1. DOMAIN <<>> = {}
    OBVIOUS
  <1> QED
    BY <1>1, EmptySeq DEF AtMostOnce, Points

LEMMA AppendPacket ==
    ASSUME NEW S, NEW ps \in Seq(S), NEW p \in S
    PROVE  /\ Append(ps, p) \in Seq(S)
           /\ \A c : Points(Append(ps, p), c) <=> Points(ps, c) \/ c = p.cell
           /\ AtMostOnce(ps) /\ ~Points(ps, p.cell) => AtMostOnce(Append(ps, p))
           /\ \A x \in DOMAIN Append(ps, p) :
                 (\E y \in DOMAIN ps : Append(ps, p)[x] = ps[y]) \/ Append(ps, p)[x] = p
  <1>0. PICK n \in Nat : n = Len(ps) /\ DOMAIN ps = 1 .. n
    BY LenProperties
  <1>1. /\ Append(ps, p) \in Seq(S) /\ Len(Append(ps, p)) = n + 1
        /\ \A i \in 1 .. n : Append(ps, p)[i] = ps[i]
        /\ Append(ps, p)[n + 1] = p
    BY <1>0, AppendProperties
  <1>2. PICK a \in Seq(S) : a = Append(ps, p) /\ DOMAIN a = 1 .. n + 1
    BY <1>1, LenProperties
  <1>3. /\ \A i \in 1 .. n + 1 : i \in 1 .. n \/ i = n + 1
        /\ \A i \in 1 .. n : i \in 1 .. n + 1 /\ i # n + 1
        /\ n + 1 \in 1 .. n + 1
    OBVIOUS
  <1>4. \A i \in 1 .. n : a[i] = ps[i]
    BY <1>1, <1>2
  <1>5. a[n + 1] = p
    BY <1>1, <1>2
  <1>6. \A c : Points(a, c) <=> Points(ps, c) \/ c = p.cell
    BY <1>0, <1>2, <1>3, <1>4, <1>5, Zenon DEF Points
  <1>7. ASSUME AtMostOnce(ps), ~Points(ps, p.cell) PROVE AtMostOnce(a)
    <2>1. \A i \in 1 .. n : ps[i].cell # p.cell
      BY <1>0, <1>7 DEF Points
    <2>2. \A i, j \in 1 .. n : ps[i].cell = ps[j].cell => i = j
      BY <1>0, <1>7 DEF AtMostOnce
    <2> QED
      BY <1>2, <1>3, <1>4, <1>5, <2>1, <2>2 DEF AtMostOnce
  <1>8. \A x \in DOMAIN a : (\E y \in DOMAIN ps : a[x] = ps[y]) \/ a[x] = p
    BY <1>0, <1>2, <1>3, <1>4, <1>5, Zenon
  <1> QED
    BY <1>2, <1>6, <1>7, <1>8, Zenon

(* Packets that go to the end of others.                                   *)
LEMMA JoinPackets ==
    ASSUME NEW S, NEW ps \in Seq(S), NEW qs \in Seq(S)
    PROVE  /\ ps \o qs \in Seq(S)
           /\ \A c : Points(ps \o qs, c) <=> Points(ps, c) \/ Points(qs, c)
           /\ AtMostOnce(ps \o qs) <=>
                 /\ AtMostOnce(ps) /\ AtMostOnce(qs)
                 /\ \A c : ~(Points(ps, c) /\ Points(qs, c))
           /\ \A x \in DOMAIN (ps \o qs) :
                 \/ \E y \in DOMAIN ps : (ps \o qs)[x] = ps[y]
                 \/ \E y \in DOMAIN qs : (ps \o qs)[x] = qs[y]
           /\ \A y \in DOMAIN ps : \E x \in DOMAIN (ps \o qs) : (ps \o qs)[x] = ps[y]
           /\ \A y \in DOMAIN qs : \E x \in DOMAIN (ps \o qs) : (ps \o qs)[x] = qs[y]
  <1>0. PICK m \in Nat, n \in Nat : /\ m = Len(ps) /\ DOMAIN ps = 1 .. m
                                   /\ n = Len(qs) /\ DOMAIN qs = 1 .. n
    BY LenProperties
  <1>1. /\ ps \o qs \in Seq(S) /\ Len(ps \o qs) = Len(ps) + Len(qs)
        /\ \A i \in 1 .. Len(ps) + Len(qs) :
              (ps \o qs)[i] = IF i <= Len(ps) THEN ps[i] ELSE qs[i - Len(ps)]
    BY ConcatProperties
  <1>2. PICK a \in Seq(S) : a = ps \o qs /\ DOMAIN a = 1 .. m + n
    BY <1>0, <1>1, LenProperties
  <1>3. \A i \in 1 .. m + n : a[i] = IF i <= m THEN ps[i] ELSE qs[i - m]
    BY <1>0, <1>1, <1>2, Zenon
  <1>4. \A i \in 1 .. m : i \in 1 .. m + n /\ a[i] = ps[i]
    BY <1>3
  <1>5. \A i \in 1 .. n : m + i \in 1 .. m + n /\ a[m + i] = qs[i]
    <2>1. \A i \in 1 .. n : m + i \in 1 .. m + n /\ ~(m + i <= m) /\ (m + i) - m = i
      OBVIOUS
    <2> QED
      BY <1>3, <2>1, Zenon
  <1>6. \A i \in 1 .. m + n : i \in 1 .. m \/ \E j \in 1 .. n : i = m + j
    <2>1. ASSUME NEW i \in 1 .. m + n, i \notin 1 .. m PROVE \E j \in 1 .. n : i = m + j
      <3>1. i - m \in 1 .. n /\ i = m + (i - m)
        BY <2>1
      <3> QED
        BY <3>1
    <2> QED
      BY <2>1
  <1>7. /\ \A x \in 1 .. m + n : \/ \E y \in 1 .. m : x = y /\ a[x] = ps[y]
                               \/ \E y \in 1 .. n : x = m + y /\ a[x] = qs[y]
        /\ \A y \in 1 .. m : \E x \in 1 .. m + n : x = y /\ a[x] = ps[y]
        /\ \A y \in 1 .. n : \E x \in 1 .. m + n : x = m + y /\ a[x] = qs[y]
    <2>1. ASSUME NEW x \in 1 .. m + n
          PROVE  \/ \E y \in 1 .. m : x = y /\ a[x] = ps[y]
                 \/ \E y \in 1 .. n : x = m + y /\ a[x] = qs[y]
      <3>1. CASE x \in 1 .. m
        BY <1>4, <3>1
      <3>2. CASE \E y \in 1 .. n : x = m + y
        BY <1>5, <3>2
      <3> QED
        BY <1>6, <3>1, <3>2
    <2>2. ASSUME NEW y \in 1 .. m PROVE \E x \in 1 .. m + n : x = y /\ a[x] = ps[y]
      BY <1>4
    <2>3. ASSUME NEW y \in 1 .. n PROVE \E x \in 1 .. m + n : x = m + y /\ a[x] = qs[y]
      BY <1>5
    <2> QED
      BY <2>1, <2>2, <2>3
  <1>11. ASSUME NEW c PROVE Points(a, c) <=> Points(ps, c) \/ Points(qs, c)
    <2>1. ASSUME Points(a, c) PROVE Points(ps, c) \/ Points(qs, c)
      <3>1. PICK x \in 1 .. m + n : a[x].cell = c
        BY <1>2, <2>1 DEF Points
      <3>2. (\E y \in 1 .. m : a[x] = ps[y]) \/ \E y \in 1 .. n : a[x] = qs[y]
        BY <1>7, <3>1
      <3> QED
        BY <1>0, <3>1, <3>2 DEF Points
    <2>2. ASSUME Points(ps, c) PROVE Points(a, c)
      <3>1. PICK y \in 1 .. m : ps[y].cell = c
        BY <1>0, <2>2 DEF Points
      <3>2. \E x \in 1 .. m + n : a[x] = ps[y]
        BY <1>7
      <3> QED
        BY <1>2, <3>1, <3>2 DEF Points
    <2>3. ASSUME Points(qs, c) PROVE Points(a, c)
      <3>1. PICK y \in 1 .. n : qs[y].cell = c
        BY <1>0, <2>3 DEF Points
      <3>2. \E x \in 1 .. m + n : a[x] = qs[y]
        BY <1>7
      <3> QED
        BY <1>2, <3>1, <3>2 DEF Points
    <2> QED
      BY <2>1, <2>2, <2>3
  <1>8. AtMostOnce(a) => AtMostOnce(ps) /\ AtMostOnce(qs) /\ \A c : ~(Points(ps, c) /\ Points(qs, c))
    <2> SUFFICES ASSUME AtMostOnce(a)
                 PROVE  AtMostOnce(ps) /\ AtMostOnce(qs) /\ \A c : ~(Points(ps, c) /\ Points(qs, c))
      OBVIOUS
    <2>0. \A i, j \in 1 .. m + n : a[i].cell = a[j].cell => i = j
      BY <1>2 DEF AtMostOnce
    <2>1. AtMostOnce(ps)
      BY <1>0, <1>4, <2>0, Zenon DEF AtMostOnce
    <2>2. AtMostOnce(qs)
      <3>1. ASSUME NEW i \in 1 .. n, NEW j \in 1 .. n, qs[i].cell = qs[j].cell PROVE i = j
        <4>1. /\ m + i \in 1 .. m + n /\ m + j \in 1 .. m + n
              /\ a[m + i] = qs[i] /\ a[m + j] = qs[j]
          BY <1>5
        <4>2. m + i = m + j
          BY <2>0, <3>1, <4>1
        <4> QED
          BY <4>2
      <3> QED
        BY <1>0, <3>1 DEF AtMostOnce
    <2>3. \A i \in 1 .. m, j \in 1 .. n : i # m + j
      OBVIOUS
    <2>4. \A i \in 1 .. m, j \in 1 .. n : ps[i].cell # qs[j].cell
      BY <1>4, <1>5, <2>0, <2>3, Zenon
    <2> QED
      BY <1>0, <2>1, <2>2, <2>4, Zenon DEF Points
  <1>9. AtMostOnce(ps) /\ AtMostOnce(qs) /\ (\A c : ~(Points(ps, c) /\ Points(qs, c))) => AtMostOnce(a)
    <2> SUFFICES ASSUME AtMostOnce(ps), AtMostOnce(qs), \A c : ~(Points(ps, c) /\ Points(qs, c)),
                        NEW i \in 1 .. m + n, NEW j \in 1 .. m + n, a[i].cell = a[j].cell
                 PROVE  i = j
      BY <1>2, Zenon DEF AtMostOnce
    <2>1. \A x \in 1 .. m, y \in 1 .. n : ps[x].cell # qs[y].cell
      BY <1>0, Zenon DEF Points
    <2>2. CASE i \in 1 .. m /\ j \in 1 .. m
      BY <1>0, <1>4, <2>2, Zenon DEF AtMostOnce
    <2>3. CASE i \in 1 .. m /\ j \notin 1 .. m
      <3>1. PICK y \in 1 .. n : a[j] = qs[y]
        BY <1>7, <2>3
      <3>2. a[i] = ps[i]
        BY <1>4, <2>3
      <3> QED
        BY <2>1, <2>3, <3>1, <3>2
    <2>4. CASE i \notin 1 .. m /\ j \in 1 .. m
      <3>1. PICK y \in 1 .. n : a[i] = qs[y]
        BY <1>7, <2>4
      <3>2. a[j] = ps[j]
        BY <1>4, <2>4
      <3> QED
        BY <2>1, <2>4, <3>1, <3>2
    <2>5. CASE i \notin 1 .. m /\ j \notin 1 .. m
      <3>1. PICK x \in 1 .. n, y \in 1 .. n : i = m + x /\ j = m + y
        BY <1>6, <2>5, Zenon
      <3>2. qs[x].cell = qs[y].cell
        BY <1>5, <3>1, Zenon
      <3> QED
        BY <1>0, <3>1, <3>2, Zenon DEF AtMostOnce
    <2> QED
      BY <2>2, <2>3, <2>4, <2>5
  <1>10. /\ \A x \in DOMAIN a : \/ \E y \in DOMAIN ps : a[x] = ps[y]
                               \/ \E y \in DOMAIN qs : a[x] = qs[y]
         /\ \A y \in DOMAIN ps : \E x \in DOMAIN a : a[x] = ps[y]
         /\ \A y \in DOMAIN qs : \E x \in DOMAIN a : a[x] = qs[y]
    <2>1. DOMAIN a = 1 .. m + n /\ DOMAIN ps = 1 .. m /\ DOMAIN qs = 1 .. n
      BY <1>0, <1>2
    <2>2. \A x \in 1 .. m + n : \/ \E y \in 1 .. m : a[x] = ps[y]
                               \/ \E y \in 1 .. n : a[x] = qs[y]
      BY <1>7, Zenon
    <2>3. /\ \A y \in 1 .. m : \E x \in 1 .. m + n : a[x] = ps[y]
          /\ \A y \in 1 .. n : \E x \in 1 .. m + n : a[x] = qs[y]
      BY <1>7, Zenon
    <2> QED
      BY <2>1, <2>2, <2>3, Zenon
  <1> QED
    BY <1>2, <1>8, <1>9, <1>10, <1>11, Zenon

(* The first packets and the others.                                       *)
LEMMA CutPackets ==
    ASSUME NEW S, NEW ps \in Seq(S), NEW k \in 0 .. Len(ps)
    PROVE  /\ SubSeq(ps, 1, k) \in Seq(S) /\ SubSeq(ps, k + 1, Len(ps)) \in Seq(S)
           /\ ps = SubSeq(ps, 1, k) \o SubSeq(ps, k + 1, Len(ps))
  <1>0. PICK n \in Nat : n = Len(ps)
    BY LenProperties
  <1>1. \A i \in 1 .. n : ps[i] \in S
    BY <1>0, ElementOfSeq
  <1>2. k \in 0 .. n
    BY <1>0
  <1>3. \A i \in 1 .. k : ps[i] \in S
    BY <1>1, <1>2
  <1>4. \A i \in k + 1 .. n : ps[i] \in S
    BY <1>1, <1>2
  <1>5. SubSeq(ps, 1, k) \in Seq(S) /\ SubSeq(ps, k + 1, n) \in Seq(S)
    BY <1>2, <1>3, <1>4, SubSeqProperties
  <1>6. 1 \in 1 .. n + 1 /\ k \in 1 - 1 .. n /\ n \in k .. n
    BY <1>2
  <1>7. SubSeq(ps, 1, k) \o SubSeq(ps, k + 1, n) = SubSeq(ps, 1, n)
    BY <1>0, <1>6, ConcatAdjacentSubSeq
  <1>8. SubSeq(ps, 1, n) = ps
    BY <1>0, SubSeqFull
  <1> QED
    BY <1>0, <1>5, <1>7, <1>8

LEMMA FirstPacket ==
    ASSUME NEW S, NEW ps \in Seq(S), ps # <<>>
    PROVE  /\ Head(ps) \in S /\ Tail(ps) \in Seq(S) /\ Points(ps, Head(ps).cell)
           /\ \A c : Points(ps, c) <=> Points(Tail(ps), c) \/ c = Head(ps).cell
           /\ AtMostOnce(ps) => AtMostOnce(Tail(ps)) /\ ~Points(Tail(ps), Head(ps).cell)
           /\ \A x \in DOMAIN Tail(ps) : \E y \in DOMAIN ps : Tail(ps)[x] = ps[y]
           /\ \E y \in DOMAIN ps : Head(ps) = ps[y]
  <1>0. PICK n \in Nat : n = Len(ps) /\ DOMAIN ps = 1 .. n /\ n # 0
    BY LenProperties, EmptySeq
  <1>1. /\ Head(ps) \in S /\ Tail(ps) \in Seq(S) /\ Len(Tail(ps)) = n - 1
        /\ \A i \in 1 .. Len(Tail(ps)) : Tail(ps)[i] = ps[i + 1]
    BY <1>0, HeadTailProperties
  <1>2. Head(ps) = ps[1]
    OBVIOUS
  <1>3. PICK w \in Seq(S) : w = Tail(ps) /\ DOMAIN w = 1 .. n - 1
                          /\ \A i \in 1 .. n - 1 : w[i] = ps[i + 1]
    BY <1>1, LenProperties
  <1>4. /\ 1 \in 1 .. n
        /\ \A i \in 1 .. n - 1 : i + 1 \in 1 .. n /\ i + 1 # 1
        /\ \A i, j \in 1 .. n - 1 : i + 1 = j + 1 => i = j
        /\ \A i \in 1 .. n : i = 1 \/ \E j \in 1 .. n - 1 : i = j + 1
    <2>1. ASSUME NEW i \in 1 .. n, i # 1 PROVE \E j \in 1 .. n - 1 : i = j + 1
      <3>1. i - 1 \in 1 .. n - 1 /\ i = (i - 1) + 1
        BY <2>1
      <3> QED
        BY <3>1
    <2> QED
      BY <1>0, <2>1
  <1>5. ASSUME NEW c PROVE Points(ps, c) <=> Points(w, c) \/ c = Head(ps).cell
    <2>1. ASSUME Points(ps, c), c # Head(ps).cell PROVE Points(w, c)
      <3>1. PICK i \in 1 .. n : ps[i].cell = c
        BY <1>0, <2>1 DEF Points
      <3>2. i # 1
        BY <1>2, <2>1, <3>1
      <3>3. PICK j \in 1 .. n - 1 : i = j + 1
        BY <1>4, <3>2
      <3>4. w[j] = ps[i]
        BY <1>3, <3>3
      <3> QED
        BY <1>3, <3>1, <3>4 DEF Points
    <2>2. ASSUME Points(w, c) PROVE Points(ps, c)
      <3>1. PICK j \in 1 .. n - 1 : w[j].cell = c
        BY <1>3, <2>2 DEF Points
      <3>2. w[j] = ps[j + 1] /\ j + 1 \in 1 .. n
        BY <1>3, <1>4
      <3> QED
        BY <1>0, <3>1, <3>2 DEF Points
    <2>3. ASSUME c = Head(ps).cell PROVE Points(ps, c)
      BY <1>0, <1>2, <1>4, <2>3 DEF Points
    <2> QED
      BY <2>1, <2>2, <2>3
  <1>6. AtMostOnce(ps) => AtMostOnce(w) /\ ~Points(w, Head(ps).cell)
    BY <1>0, <1>2, <1>3, <1>4 DEF AtMostOnce, Points
  <1>7. /\ \A x \in DOMAIN w : \E y \in DOMAIN ps : w[x] = ps[y]
        /\ \E y \in DOMAIN ps : Head(ps) = ps[y]
    BY <1>0, <1>2, <1>3, <1>4, Zenon
  <1> QED
    BY <1>1, <1>3, <1>5, <1>6, <1>7, Zenon

(* The answers to the polls of some cells, in any order.                   *)
LEMMA AnswerPackets ==
    ASSUME NEW polled, IsFiniteSet(polled), polled \subseteq Cells, NEW qs,
           qs \in SetToSeqs({Answer(c, "events", {"LOCAL_CLOSE"}) : c \in polled})
    PROVE  /\ qs \in Seq(Packet) /\ AtMostOnce(qs)
           /\ \A c : Points(qs, c) <=> c \in polled
           /\ \A x \in DOMAIN qs : qs[x].afd = {"LOCAL_CLOSE"}
  <1> DEFINE A(c) == Answer(c, "events", {"LOCAL_CLOSE"})
             T == {A(c) : c \in polled}
  <1>1. \A c \in polled : A(c) \in Packet /\ A(c).cell = c /\ A(c).afd = {"LOCAL_CLOSE"}
    BY DEF Answer, Packet
  <1>2. IsFiniteSet(T)
    <2>1. [c \in polled |-> A(c)] \in Surjection(polled, T)
      BY DEF Surjection
    <2> QED
      BY <2>1, FS_Surjection
  <1>3. PICK n \in Nat : n = Cardinality(T)
    BY <1>2, FS_CardinalityType
  <1>4. qs \in [1 .. n -> T] /\ \A i, j \in 1 .. n : i # j => qs[i] # qs[j]
    BY <1>3 DEF SetToSeqs
  <1>5. qs \in Injection(1 .. n, T)
    BY <1>4 DEF Injection, IsInjective
  <1>6. qs \in Surjection(1 .. n, T)
    <2>1. Cardinality(1 .. n) = n
      <3>1. 1 \in Int /\ n \in Int /\ (IF 1 > n THEN 0 ELSE n - 1 + 1) = n
        OBVIOUS
      <3> QED
        BY <3>1, FS_Interval
    <2> QED
      BY <1>2, <1>3, <1>5, <2>1, FS_Injection
  <1>7. DOMAIN qs = 1 .. n /\ \A i \in 1 .. n : \E c \in polled : qs[i] = A(c)
    BY <1>4
  <1>8. \A c \in polled : \E i \in 1 .. n : qs[i] = A(c)
    BY <1>6 DEF Surjection
  <1> HIDE DEF A, T
  <1>9. \A i \in 1 .. n : qs[i] \in Packet
    BY <1>1, <1>7
  <1>10. qs \in Seq(Packet)
    BY <1>4, <1>7, <1>9, SeqDef
  <1>11. AtMostOnce(qs)
    BY <1>1, <1>4, <1>7 DEF AtMostOnce
  <1>12. \A c : Points(qs, c) <=> c \in polled
    BY <1>1, <1>7, <1>8 DEF Points
  <1>13. \A x \in DOMAIN qs : qs[x].afd = {"LOCAL_CLOSE"}
    BY <1>1, <1>7
  <1> QED
    BY <1>10, <1>11, <1>12, <1>13

------------------------------------------------------------------------------
(* Cells *)

\* A cell with new contents, and the cell of the same socket.
Becomes(c, x) == cell' = [cell EXCEPT ![c] = x]
Of(c, user, pending, status, deleted) ==
    [sock |-> cell[c].sock, user |-> user, pending |-> pending,
     status |-> status, deleted |-> deleted]

LEMMA Monotone ==
    /\ \A u \in Users : ToAfd(u) \in Polls
    /\ \A u, v : Known(u) \subseteq v => ToAfd(u) \subseteq ToAfd(v)
  <1>1. ASSUME NEW u, NEW v, Known(u) \subseteq v PROVE ToAfd(u) \subseteq ToAfd(v)
    BY <1>1 DEF ToAfd, Known, If
  <1>2. \A u \in Users : ToAfd(u) \in Polls
    <2>1. \A u \in Users : Known(u) \subseteq (UNION Wants) \cup Always
      BY DEF Known, Users
    <2> QED
      BY <1>1, <2>1, Zenon DEF Polls
  <1> QED
    BY <1>1, <1>2

LEMMA Contents ==
    ASSUME PortAssumption, TypeOK, NEW c \in Cells, cell[c] # None
    PROVE  /\ cell[c] \in CellType
           /\ cell[c].sock \in Socks /\ cell[c].user \in Users /\ cell[c].pending \in Users
           /\ cell[c].status \in Status /\ cell[c].deleted \in BOOLEAN
           /\ cell[c] = Of(c, cell[c].user, cell[c].pending, cell[c].status, cell[c].deleted)
           /\ \A u \in Users, p \in Users, s \in Status, d \in BOOLEAN :
                 Of(c, u, p, s, d) \in CellType
  <1>1. cell[c] \in CellType
    BY DEF TypeOK
  <1> QED
    BY <1>1 DEF CellType, Of, Users

\* The edits of a cell in the actions, field by field.
LEMMA Edits ==
    ASSUME PortAssumption, TypeOK, NEW c \in Cells, cell[c] # None
    PROVE  /\ \A s, p, d : cell' = [cell EXCEPT ![c].deleted = d, ![c].status = s, ![c].pending = p]
                 => Becomes(c, Of(c, cell[c].user, p, s, d))
           /\ \A d : cell' = [cell EXCEPT ![c].deleted = d]
                 => Becomes(c, Of(c, cell[c].user, cell[c].pending, cell[c].status, d))
           /\ \A s, p : cell' = [cell EXCEPT ![c].status = s, ![c].pending = p]
                 => Becomes(c, Of(c, cell[c].user, p, s, cell[c].deleted))
           /\ \A u : cell' = [cell EXCEPT ![c].user = u]
                 => Becomes(c, Of(c, u, cell[c].pending, cell[c].status, cell[c].deleted))
           /\ \A s, p, b : cell' = [cell EXCEPT ![c].status = s, ![c].pending = p,
                                               ![c].user = IF b /\ "ONESHOT" \in @ THEN {} ELSE @]
                 => Becomes(c, Of(c, IF b /\ "ONESHOT" \in cell[c].user THEN {} ELSE cell[c].user,
                                  p, s, cell[c].deleted))
  <1>1. cell[c] = [sock |-> cell[c].sock, user |-> cell[c].user, pending |-> cell[c].pending,
                   status |-> cell[c].status, deleted |-> cell[c].deleted]
    BY Contents DEF Of
  <1>2. cell \in [Cells -> CellType \cup {None}]
    BY DEF TypeOK
  <1> QED
    BY <1>1, <1>2 DEF Becomes, Of

LEMMA Become ==
    ASSUME PortAssumption, TypeOK, NEW c \in Cells, NEW x \in CellType \cup {None}, Becomes(c, x)
    PROVE  /\ cell' \in [Cells -> CellType \cup {None}]
           /\ cell'[c] = x
           /\ \A d \in Cells \ {c} : cell'[d] = cell[d]
  BY DEF Becomes, TypeOK

LEMMA OfFields ==
    \A c, u, p, s, d :
        /\ Of(c, u, p, s, d).sock = cell[c].sock
        /\ Of(c, u, p, s, d).user = u
        /\ Of(c, u, p, s, d).pending = p
        /\ Of(c, u, p, s, d).status = s
        /\ Of(c, u, p, s, d).deleted = d
  BY DEF Of

------------------------------------------------------------------------------
(* Packets and the cells they point to *)

LEMMA FlightSame ==
    ASSUME PacketsPointToCells, UNCHANGED <<op, packets, batch>>,
           \A c \in Cells : Active(c)' <=> Active(c)
    PROVE  PacketsPointToCells'
  <1>1. /\ \A c : Points(packets, c)' <=> Points(packets, c)
        /\ \A t, c : Points(batch[t], c)' <=> Points(batch[t], c)
        /\ AtMostOnce(packets)' <=> AtMostOnce(packets)
        /\ \A t : AtMostOnce(batch[t])' <=> AtMostOnce(batch[t])
    BY DEF Points, AtMostOnce
  <1> QED
    BY <1>1, Zenon DEF PacketsPointToCells

(* A poll is answered.                                                     *)
LEMMA PollAnswered ==
    ASSUME TypeOK, PacketsPointToCells, NEW c \in Cells, op[c] # None,
           NEW p \in Packet, p.cell = c,
           op' = [op EXCEPT ![c] = None], packets' = Append(packets, p), batch' = batch,
           \A d \in Cells : Active(d)' <=> Active(d)
    PROVE  PacketsPointToCells' /\ packets' \in Seq(Packet)
  <1>1. packets \in Seq(Packet) /\ op \in [Cells -> {None} \cup Polls]
    BY DEF TypeOK, Polls
  <1>2. /\ packets' \in Seq(Packet)
        /\ \A d : Points(packets', d) <=> Points(packets, d) \/ d = c
        /\ AtMostOnce(packets) /\ ~Points(packets, c) => AtMostOnce(packets')
    BY <1>1, AppendPacket
  <1>3. \A t, d : Points(batch'[t], d) <=> Points(batch[t], d)
    BY DEF Points
  <1>4. op'[c] = None /\ \A d \in Cells : d # c => op'[d] = op[d]
    BY <1>1
  <1>5. /\ Active(c) /\ ~Points(packets, c)
        /\ \A t \in Threads : ~Points(batch[t], c)
    BY Zenon DEF PacketsPointToCells
  <1>6. AtMostOnce(packets') /\ \A t \in Threads : AtMostOnce(batch'[t])
    BY <1>2, <1>5, Zenon DEF PacketsPointToCells
  <1>7. ASSUME NEW d \in Cells
        PROVE  /\ Active(d)' <=> \/ op'[d] # None \/ Points(packets', d)
                                \/ \E t \in Threads : Points(batch'[t], d)
               /\ op'[d] # None => ~Points(packets', d)
               /\ \A t \in Threads : Points(batch'[t], d) =>
                     /\ op'[d] = None /\ ~Points(packets', d)
                     /\ \A u \in Threads \ {t} : ~Points(batch'[u], d)
    <2>1. CASE d = c
      BY <1>2, <1>3, <1>4, <1>5, <2>1, Zenon
    <2>2. CASE d # c
      BY <1>2, <1>3, <1>4, <2>2, Zenon DEF PacketsPointToCells
    <2> QED
      BY <2>1, <2>2
  <1>8. PacketsPointToCells'
    <2>1. AtMostOnce(packets)' /\ \A t \in Threads : AtMostOnce(batch[t])'
      BY <1>6 DEF AtMostOnce
    <2>2. (\A d : Points(packets', d) <=> Points(packets, d)')
          /\ (\A t, d : Points(batch'[t], d) <=> Points(batch[t], d)')
      BY DEF Points
    <2> QED
      BY <1>7, <2>1, <2>2, Zenon DEF PacketsPointToCells
  <1> QED
    BY <1>2, <1>8

(* A cell without a poll gets one.                                         *)
LEMMA PollSubmitted ==
    ASSUME TypeOK, PacketsPointToCells, NEW c \in Cells, ~Active(c), NEW x, x # None,
           op' = [op EXCEPT ![c] = x], packets' = packets, batch' = batch,
           Active(c)', \A d \in Cells \ {c} : Active(d)' <=> Active(d)
    PROVE  PacketsPointToCells'
  <1>1. op'[c] = x /\ \A d \in Cells : d # c => op'[d] = op[d]
    BY DEF TypeOK
  <1>2. /\ \A d : Points(packets, d)' <=> Points(packets, d)
        /\ \A t, d : Points(batch[t], d)' <=> Points(batch[t], d)
        /\ AtMostOnce(packets)' <=> AtMostOnce(packets)
        /\ \A t : AtMostOnce(batch[t])' <=> AtMostOnce(batch[t])
    BY DEF Points, AtMostOnce
  <1>3. ~Points(packets, c) /\ \A t \in Threads : ~Points(batch[t], c)
    BY Zenon DEF PacketsPointToCells
  <1> QED
    BY <1>1, <1>2, <1>3, Zenon DEF PacketsPointToCells

(* A thread takes the first packets from the port.                         *)
LEMMA PacketsTaken ==
    ASSUME TypeOK, PacketsPointToCells, NEW t \in Threads, batch[t] = <<>>,
           NEW n \in 0 .. Len(packets),
           batch' = [batch EXCEPT ![t] = SubSeq(packets, 1, n)],
           packets' = SubSeq(packets, n + 1, Len(packets)),
           op' = op, \A d \in Cells : Active(d)' <=> Active(d)
    PROVE  PacketsPointToCells' /\ packets' \in Seq(Packet) /\ batch'[t] \in Seq(Packet)
  <1>1. packets \in Seq(Packet) /\ batch \in [Threads -> Seq(Packet)]
    BY DEF TypeOK
  <1>2. batch'[t] = SubSeq(packets, 1, n) /\ \A u \in Threads : u # t => batch'[u] = batch[u]
    BY <1>1
  <1>3. batch'[t] \in Seq(Packet) /\ packets' \in Seq(Packet) /\ packets = batch'[t] \o packets'
    BY <1>1, <1>2, CutPackets
  <1>4. /\ \A d : Points(packets, d) <=> Points(batch'[t], d) \/ Points(packets', d)
        /\ AtMostOnce(packets) <=> /\ AtMostOnce(batch'[t]) /\ AtMostOnce(packets')
                                   /\ \A d : ~(Points(batch'[t], d) /\ Points(packets', d))
    <2>1. PICK x \in Seq(Packet), y \in Seq(Packet) : x = batch'[t] /\ y = packets'
      BY <1>3
    <2>2. packets = x \o y
      BY <1>3, <2>1
    <2>3. /\ \A d : Points(x \o y, d) <=> Points(x, d) \/ Points(y, d)
          /\ AtMostOnce(x \o y) <=> /\ AtMostOnce(x) /\ AtMostOnce(y)
                                    /\ \A d : ~(Points(x, d) /\ Points(y, d))
      BY JoinPackets
    <2> QED
      BY <2>1, <2>2, <2>3, Zenon
  <1>5. /\ AtMostOnce(batch'[t]) /\ AtMostOnce(packets')
        /\ \A d : ~(Points(batch'[t], d) /\ Points(packets', d))
    BY <1>4, Zenon DEF PacketsPointToCells
  <1>6. \A d : ~Points(batch[t], d)
    BY NoPackets
  <1>7. AtMostOnce(packets') /\ \A u \in Threads : AtMostOnce(batch'[u])
    <2>1. ASSUME NEW u \in Threads PROVE AtMostOnce(batch'[u])
      BY <1>2, <1>5, Zenon DEF PacketsPointToCells
    <2> QED
      BY <1>5, <2>1
  <1>8. ASSUME NEW d \in Cells
        PROVE  /\ Active(d)' <=> \/ op'[d] # None \/ Points(packets', d)
                                \/ \E u \in Threads : Points(batch'[u], d)
               /\ op'[d] # None => ~Points(packets', d)
               /\ \A u \in Threads : Points(batch'[u], d) =>
                     /\ op'[d] = None /\ ~Points(packets', d)
                     /\ \A v \in Threads \ {u} : ~Points(batch'[v], d)
    <2>1. /\ Active(d) <=> \/ op[d] # None \/ Points(packets, d)
                           \/ \E u \in Threads : Points(batch[u], d)
          /\ op[d] # None => ~Points(packets, d)
          /\ \A u \in Threads : Points(batch[u], d) =>
                /\ op[d] = None /\ ~Points(packets, d)
                /\ \A v \in Threads \ {u} : ~Points(batch[v], d)
      BY Zenon DEF PacketsPointToCells
    <2>2. Points(packets, d) <=> Points(batch'[t], d) \/ Points(packets', d)
      BY <1>4
    <2>3. ~(Points(batch'[t], d) /\ Points(packets', d)) /\ ~Points(batch[t], d)
      BY <1>5, <1>6
    <2>4. \A u \in Threads : u # t => (Points(batch'[u], d) <=> Points(batch[u], d))
      BY <1>2, Zenon
    <2>5. Active(d)' <=> \/ op'[d] # None \/ Points(packets', d)
                        \/ \E u \in Threads : Points(batch'[u], d)
      BY <2>1, <2>2, <2>3, <2>4, Zenon
    <2>6. op'[d] # None => ~Points(packets', d)
      BY <2>1, <2>2
    <2>7. ASSUME NEW u \in Threads, Points(batch'[u], d)
          PROVE  /\ op'[d] = None /\ ~Points(packets', d)
                 /\ \A v \in Threads \ {u} : ~Points(batch'[v], d)
      <3>1. CASE u = t
        BY <2>1, <2>2, <2>3, <2>4, <2>7, <3>1, Zenon
      <3>2. CASE u # t
        BY <2>1, <2>2, <2>3, <2>4, <2>7, <3>2, Zenon
      <3> QED
        BY <3>1, <3>2
    <2> QED
      BY <2>5, <2>6, <2>7
  <1>9. PacketsPointToCells'
    <2>1. AtMostOnce(packets)' /\ \A u \in Threads : AtMostOnce(batch[u])'
      BY <1>7 DEF AtMostOnce
    <2>2. (\A d : Points(packets', d) <=> Points(packets, d)')
          /\ (\A u, d : Points(batch'[u], d) <=> Points(batch[u], d)')
      BY DEF Points
    <2> QED
      BY <1>8, <2>1, <2>2, Zenon DEF PacketsPointToCells
  <1> QED
    BY <1>3, <1>9

(* A thread is done with its first packet, and the cell is not active.     *)
LEMMA PacketFed ==
    ASSUME TypeOK, PacketsPointToCells, NEW t \in Threads, batch[t] # <<>>,
           batch' = [batch EXCEPT ![t] = Tail(@)], packets' = packets, op' = op,
           NEW p, p = Head(batch[t]), ~Active(p.cell)',
           \A d \in Cells \ {p.cell} : Active(d)' <=> Active(d)
    PROVE  PacketsPointToCells' /\ batch'[t] \in Seq(Packet)
  <1>1. batch \in [Threads -> Seq(Packet)] /\ batch[t] \in Seq(Packet)
    BY DEF TypeOK
  <1>2. batch'[t] = Tail(batch[t]) /\ \A u \in Threads : u # t => batch'[u] = batch[u]
    BY <1>1
  <1>3. p \in Packet
    BY <1>1, FirstPacket
  <1>4. /\ batch'[t] \in Seq(Packet) /\ Points(batch[t], p.cell)
        /\ \A d : Points(batch[t], d) <=> Points(batch'[t], d) \/ d = p.cell
        /\ AtMostOnce(batch[t]) => AtMostOnce(batch'[t]) /\ ~Points(batch'[t], p.cell)
    <2>1. PICK b \in Seq(Packet) : b = batch[t]
      BY <1>1
    <2>2. /\ Tail(b) \in Seq(Packet) /\ Points(b, Head(b).cell)
          /\ \A d : Points(b, d) <=> Points(Tail(b), d) \/ d = Head(b).cell
          /\ AtMostOnce(b) => AtMostOnce(Tail(b)) /\ ~Points(Tail(b), Head(b).cell)
      BY <2>1, FirstPacket
    <2>3. p = Head(b) /\ batch'[t] = Tail(b)
      BY <1>2, <2>1
    <2> QED
      BY <2>1, <2>2, <2>3, Zenon
  <1>5. AtMostOnce(batch'[t]) /\ ~Points(batch'[t], p.cell)
    BY <1>4, Zenon DEF PacketsPointToCells
  <1>6. p.cell \in Cells
    BY <1>3 DEF Packet
  <1>7. ASSUME NEW d \in Cells
        PROVE  /\ Active(d)' <=> \/ op'[d] # None \/ Points(packets', d)
                                \/ \E u \in Threads : Points(batch'[u], d)
               /\ op'[d] # None => ~Points(packets', d)
               /\ \A u \in Threads : Points(batch'[u], d) =>
                     /\ op'[d] = None /\ ~Points(packets', d)
                     /\ \A v \in Threads \ {u} : ~Points(batch'[v], d)
    <2>1. /\ Active(d) <=> \/ op[d] # None \/ Points(packets, d)
                           \/ \E u \in Threads : Points(batch[u], d)
          /\ op[d] # None => ~Points(packets, d)
          /\ \A u \in Threads : Points(batch[u], d) =>
                /\ op[d] = None /\ ~Points(packets, d)
                /\ \A v \in Threads \ {u} : ~Points(batch[v], d)
      BY Zenon DEF PacketsPointToCells
    <2>2. \A u \in Threads : u # t => (Points(batch'[u], d) <=> Points(batch[u], d))
      BY <1>2, Zenon
    <2>3. Points(packets', d) <=> Points(packets, d)
      OBVIOUS
    <2>4. CASE d = p.cell
      <3>1. ~Active(d)' /\ Points(batch[t], d) /\ ~Points(batch'[t], d)
        BY <1>3, <1>4, <1>5, <2>4
      <3>2. op[d] = None /\ ~Points(packets, d) /\ \A v \in Threads : v # t => ~Points(batch[v], d)
        BY <2>1, <3>1, Zenon
      <3> QED
        BY <2>2, <3>1, <3>2, Zenon
    <2>5. CASE d # p.cell
      <3>1. Active(d)' <=> Active(d)
        BY <1>3, <2>5
      <3>2. \A u \in Threads : Points(batch'[u], d) <=> Points(batch[u], d)
        BY <1>4, <2>2, <2>5, Zenon
      <3> QED
        BY <2>1, <3>1, <3>2, Zenon
    <2> QED
      BY <2>4, <2>5
  <1>8. \A u \in Threads : AtMostOnce(batch'[u])
    BY <1>2, <1>5, Zenon DEF PacketsPointToCells
  <1>9. PacketsPointToCells'
    <2>1. AtMostOnce(packets)' /\ \A u \in Threads : AtMostOnce(batch[u])'
      BY <1>8 DEF AtMostOnce, PacketsPointToCells
    <2>2. (\A d : Points(packets', d) <=> Points(packets, d)')
          /\ (\A u, d : Points(batch'[u], d) <=> Points(batch[u], d)')
      BY DEF Points
    <2> QED
      BY <1>7, <2>1, <2>2, Zenon DEF PacketsPointToCells
  <1> QED
    BY <1>4, <1>9

(* The polls of some cells are answered.                                   *)
LEMMA PollsAnswered ==
    ASSUME TypeOK, PacketsPointToCells, NEW polled, polled \subseteq Cells,
           \A c \in polled : op[c] # None,
           NEW qs \in Seq(Packet), AtMostOnce(qs), \A c : Points(qs, c) <=> c \in polled,
           packets' = packets \o qs, batch' = batch,
           op' = [c \in Cells |-> IF c \in polled THEN None ELSE op[c]],
           \A d \in Cells : Active(d)' <=> Active(d)
    PROVE  PacketsPointToCells' /\ packets' \in Seq(Packet)
  <1>1. packets \in Seq(Packet)
    BY DEF TypeOK
  <1>2. /\ packets' \in Seq(Packet)
        /\ \A d : Points(packets', d) <=> Points(packets, d) \/ d \in polled
    BY <1>1, JoinPackets
  <1>3. \A c \in polled : ~Points(packets, c)
    BY Zenon DEF PacketsPointToCells
  <1>4. AtMostOnce(packets')
    <2>1. AtMostOnce(packets) /\ \A c : ~(Points(packets, c) /\ Points(qs, c))
      BY <1>3, Zenon DEF PacketsPointToCells
    <2> QED
      BY <1>1, <2>1, JoinPackets
  <1>5. ASSUME NEW d \in Cells
        PROVE  /\ Active(d)' <=> \/ op'[d] # None \/ Points(packets', d)
                                \/ \E u \in Threads : Points(batch'[u], d)
               /\ op'[d] # None => ~Points(packets', d)
               /\ \A u \in Threads : Points(batch'[u], d) =>
                     /\ op'[d] = None /\ ~Points(packets', d)
                     /\ \A v \in Threads \ {u} : ~Points(batch'[v], d)
    <2>1. /\ Active(d) <=> \/ op[d] # None \/ Points(packets, d)
                           \/ \E u \in Threads : Points(batch[u], d)
          /\ op[d] # None => ~Points(packets, d)
          /\ \A u \in Threads : Points(batch[u], d) =>
                /\ op[d] = None /\ ~Points(packets, d)
                /\ \A v \in Threads \ {u} : ~Points(batch[v], d)
      BY Zenon DEF PacketsPointToCells
    <2>2. op'[d] = IF d \in polled THEN None ELSE op[d]
      OBVIOUS
    <2>3. \A u : Points(batch'[u], d) <=> Points(batch[u], d)
      OBVIOUS
    <2>4. Points(packets', d) <=> Points(packets, d) \/ d \in polled
      BY <1>2
    <2>5. d \in polled => op[d] # None
      OBVIOUS
    <2> QED
      BY <2>1, <2>2, <2>3, <2>4, <2>5, Zenon
  <1>6. PacketsPointToCells'
    <2>1. AtMostOnce(packets)' /\ \A u \in Threads : AtMostOnce(batch[u])'
      BY <1>4 DEF AtMostOnce, PacketsPointToCells
    <2>2. (\A d : Points(packets', d) <=> Points(packets, d)')
          /\ (\A u, d : Points(batch'[u], d) <=> Points(batch[u], d)')
      BY DEF Points
    <2> QED
      BY <1>5, <2>1, <2>2, Zenon DEF PacketsPointToCells
  <1> QED
    BY <1>2, <1>6

------------------------------------------------------------------------------
(* The two queues *)

(* Queues grow and shrink with what the cells say of themselves.           *)
LEMMA QueueStep ==
    ASSUME QueuesSound, IsInjective(updateQ'), IsInjective(deletedQ'),
           \A c \in Cells :
              /\ Contains(updateQ', c) => cell'[c] # None /\ ~cell'[c].deleted
              /\ Contains(deletedQ', c) <=> cell'[c] # None /\ cell'[c].deleted
              /\ cell'[c] # None /\ ~cell'[c].deleted =>
                    cell[c] # None /\ ~cell[c].deleted
              /\ cell'[c] # None /\ cell[c] # None => cell'[c].sock = cell[c].sock
    PROVE  QueuesSound'
  <1>1. \A c, d \in Cells :
          c # d /\ cell'[c] # None /\ cell'[d] # None /\ cell'[c].sock = cell'[d].sock
             => cell'[c].deleted \/ cell'[d].deleted
    BY Zenon DEF QueuesSound
  <1>2. /\ (\A c : Contains(updateQ, c)' <=> Contains(updateQ', c))
        /\ (\A c : Contains(deletedQ, c)' <=> Contains(deletedQ', c))
        /\ (IsInjective(updateQ)' <=> IsInjective(updateQ'))
        /\ (IsInjective(deletedQ)' <=> IsInjective(deletedQ'))
    BY DEF Contains, IsInjective
  <1> QED
    BY <1>1, <1>2, Zenon DEF QueuesSound

LEMMA Enqueued ==
    ASSUME TypeOK, QueuesSound, NEW c \in Cells, RequestUpdate(c)
    PROVE  /\ updateQ' \in Seq(Cells) /\ IsInjective(updateQ')
           /\ \A d : Contains(updateQ', d) <=>
                 Contains(updateQ, d) \/ (d = c /\ ~Contains(deletedQ, c))
  <1>1. updateQ \in Seq(Cells) /\ IsInjective(updateQ)
    BY DEF TypeOK, QueuesSound
  <1>2. CASE IsEnqueued(c)
    <2>1. updateQ' = updateQ
      BY <1>2 DEF RequestUpdate
    <2>2. Contains(updateQ, c) \/ Contains(deletedQ, c)
      BY <1>2 DEF IsEnqueued
    <2> QED
      BY <1>1, <2>1, <2>2, Zenon
  <1>3. CASE ~IsEnqueued(c)
    <2>1. updateQ' = Append(updateQ, c)
      BY <1>3 DEF RequestUpdate
    <2>2. ~Contains(updateQ, c) /\ ~Contains(deletedQ, c)
      BY <1>3 DEF IsEnqueued
    <2>3. /\ Append(updateQ, c) \in Seq(Cells)
          /\ \A d : Contains(Append(updateQ, c), d) <=> Contains(updateQ, d) \/ d = c
          /\ IsInjective(updateQ) /\ ~Contains(updateQ, c) => IsInjective(Append(updateQ, c))
      BY <1>1, AppendQueue
    <2> QED
      BY <1>1, <2>1, <2>2, <2>3, Zenon
  <1> QED
    BY <1>2, <1>3

LEMMA Unlinked ==
    ASSUME TypeOK, QueuesSound, NEW c
    PROVE  /\ CancelUpdate(c) =>
                 /\ updateQ' \in Seq(Cells) /\ IsInjective(updateQ')
                 /\ \A d : Contains(updateQ', d) <=> Contains(updateQ, d) /\ d # c
           /\ deletedQ' = Without(deletedQ, c) =>
                 /\ deletedQ' \in Seq(Cells) /\ IsInjective(deletedQ')
                 /\ \A d : Contains(deletedQ', d) <=> Contains(deletedQ, d) /\ d # c
  <1>1. /\ updateQ \in Seq(Cells) /\ IsInjective(updateQ)
        /\ deletedQ \in Seq(Cells) /\ IsInjective(deletedQ)
    BY DEF TypeOK, QueuesSound
  <1>2. ASSUME CancelUpdate(c)
        PROVE  /\ updateQ' \in Seq(Cells) /\ IsInjective(updateQ')
               /\ \A d : Contains(updateQ', d) <=> Contains(updateQ, d) /\ d # c
    <2>1. updateQ' = Without(updateQ, c)
      BY <1>2 DEF CancelUpdate
    <2>2. /\ Without(updateQ, c) \in Seq(Cells) /\ IsInjective(Without(updateQ, c))
          /\ \A d : Contains(Without(updateQ, c), d) <=> Contains(updateQ, d) /\ d # c
      BY <1>1, WithoutQueue
    <2> QED
      BY <2>1, <2>2, Zenon
  <1>3. ASSUME deletedQ' = Without(deletedQ, c)
        PROVE  /\ deletedQ' \in Seq(Cells) /\ IsInjective(deletedQ')
               /\ \A d : Contains(deletedQ', d) <=> Contains(deletedQ, d) /\ d # c
    <2>1. /\ Without(deletedQ, c) \in Seq(Cells) /\ IsInjective(Without(deletedQ, c))
          /\ \A d : Contains(Without(deletedQ, c), d) <=> Contains(deletedQ, d) /\ d # c
      BY <1>1, WithoutQueue
    <2> QED
      BY <1>3, <2>1, Zenon
  <1> QED
    BY <1>2, <1>3

(* What a change of one cell does, apart from its packets: the cell stays   *)
(* what it is for its socket, and may enter or leave the update queue.     *)
LEMMA CellKept ==
    ASSUME PortAssumption, TypeOK, QueuesSound, NEW c \in Cells, cell[c] # None,
           NEW u \in Users, NEW p \in Users, NEW s \in Status,
           Becomes(c, Of(c, u, p, s, cell[c].deleted)),
           CancelUpdate(c) \/ updateQ' = updateQ \/ (RequestUpdate(c) /\ ~cell[c].deleted),
           deletedQ' = deletedQ
    PROVE  /\ cell' \in [Cells -> CellType \cup {None}]
           /\ updateQ' \in Seq(Cells) /\ deletedQ' \in Seq(Cells) /\ QueuesSound'
           /\ cell'[c] = Of(c, u, p, s, cell[c].deleted) /\ cell'[c] # None
           /\ \A d \in Cells \ {c} :
                 cell'[d] = cell[d] /\ (Contains(updateQ, d) => Contains(updateQ', d))
  <1>1. Of(c, u, p, s, cell[c].deleted) \in CellType /\ cell[c].deleted \in BOOLEAN
    BY Contents
  <1>2. /\ cell' \in [Cells -> CellType \cup {None}]
        /\ cell'[c] = Of(c, u, p, s, cell[c].deleted)
        /\ \A d \in Cells \ {c} : cell'[d] = cell[d]
    BY <1>1, Become
  <1>3. /\ cell'[c] # None /\ cell'[c].sock = cell[c].sock
        /\ cell'[c].deleted = cell[c].deleted
    BY <1>1, <1>2, OfFields DEF PortAssumption
  <1>4. /\ updateQ' \in Seq(Cells) /\ IsInjective(updateQ')
        /\ \A d : Contains(updateQ', d) => Contains(updateQ, d) \/ (d = c /\ ~cell[c].deleted)
        /\ \A d : d # c /\ Contains(updateQ, d) => Contains(updateQ', d)
    <2>1. CASE CancelUpdate(c)
      BY <2>1, Unlinked, Zenon
    <2>2. CASE updateQ' = updateQ
      BY <2>2, Zenon DEF TypeOK, QueuesSound
    <2>3. CASE RequestUpdate(c) /\ ~cell[c].deleted
      BY <2>3, Enqueued, Zenon
    <2> QED
      BY <2>1, <2>2, <2>3
  <1>5. deletedQ' \in Seq(Cells) /\ IsInjective(deletedQ')
    BY DEF TypeOK, QueuesSound
  <1>6. \A d \in Cells :
          /\ Contains(updateQ', d) => cell'[d] # None /\ ~cell'[d].deleted
          /\ Contains(deletedQ', d) <=> cell'[d] # None /\ cell'[d].deleted
          /\ cell'[d] # None /\ ~cell'[d].deleted => cell[d] # None /\ ~cell[d].deleted
          /\ cell'[d] # None /\ cell[d] # None => cell'[d].sock = cell[d].sock
    <2>1. ASSUME NEW d \in Cells
          PROVE  /\ (cell'[d] # None <=> cell[d] # None)
                 /\ cell[d] # None => /\ cell'[d].deleted = cell[d].deleted
                                      /\ cell'[d].sock = cell[d].sock
      BY <1>2, <1>3
    <2>2. \A d \in Cells :
            /\ Contains(updateQ, d) => cell[d] # None /\ ~cell[d].deleted
            /\ Contains(deletedQ, d) <=> cell[d] # None /\ cell[d].deleted
      BY DEF QueuesSound
    <2> QED
      BY <1>4, <2>1, <2>2, Zenon
  <1>7. QueuesSound'
    BY <1>4, <1>5, <1>6, QueueStep
  <1>8. \A d \in Cells \ {c} :
          cell'[d] = cell[d] /\ (Contains(updateQ, d) => Contains(updateQ', d))
    <2>1. \A d \in Cells \ {c} : d # c
      OBVIOUS
    <2> QED
      BY <1>2, <1>4, <2>1, Zenon
  <1> QED
    BY <1>2, <1>3, <1>4, <1>5, <1>7, <1>8

(* The memory of a cell is freed.                                          *)
LEMMA CellFreed ==
    ASSUME PortAssumption, TypeOK, QueuesSound, NEW c \in Cells, Free(c)
    PROVE  /\ cell' \in [Cells -> CellType \cup {None}]
           /\ updateQ' \in Seq(Cells) /\ deletedQ' \in Seq(Cells) /\ QueuesSound'
           /\ cell'[c] = None /\ \A d \in Cells \ {c} : cell'[d] = cell[d]
           /\ \A d : Contains(updateQ', d) <=> Contains(updateQ, d) /\ d # c
  <1>1. /\ cell' \in [Cells -> CellType \cup {None}]
        /\ cell'[c] = None
        /\ \A d \in Cells \ {c} : cell'[d] = cell[d]
    BY DEF Free, TypeOK
  <1>2. CancelUpdate(c) /\ deletedQ' = Without(deletedQ, c)
    BY DEF Free
  <1>3. /\ updateQ' \in Seq(Cells) /\ IsInjective(updateQ')
        /\ \A d : Contains(updateQ', d) <=> Contains(updateQ, d) /\ d # c
        /\ deletedQ' \in Seq(Cells) /\ IsInjective(deletedQ')
        /\ \A d : Contains(deletedQ', d) <=> Contains(deletedQ, d) /\ d # c
    BY <1>2, Unlinked, Zenon
  <1>4. \A d \in Cells :
          /\ Contains(updateQ, d) => cell[d] # None /\ ~cell[d].deleted
          /\ Contains(deletedQ, d) <=> cell[d] # None /\ cell[d].deleted
    BY DEF QueuesSound
  <1>5. \A d \in Cells :
          /\ Contains(updateQ', d) => cell'[d] # None /\ ~cell'[d].deleted
          /\ Contains(deletedQ', d) <=> cell'[d] # None /\ cell'[d].deleted
          /\ cell'[d] # None /\ ~cell'[d].deleted => cell[d] # None /\ ~cell[d].deleted
          /\ cell'[d] # None /\ cell[d] # None => cell'[d].sock = cell[d].sock
    <2>1. ASSUME NEW d \in Cells, d # c PROVE cell'[d] = cell[d]
      BY <1>1, <2>1
    <2> QED
      BY <1>1, <1>3, <1>4, <2>1, Zenon
  <1>6. QueuesSound'
    BY <1>3, <1>5, QueueStep
  <1> QED
    BY <1>1, <1>3, <1>6

(* A registered cell goes from the update queue to that of the deleted.    *)
LEMMA CellMarked ==
    ASSUME PortAssumption, TypeOK, QueuesSound, NEW c \in Cells, cell[c] # None, ~cell[c].deleted,
           NEW u \in Users, NEW p \in Users, NEW s \in Status,
           Becomes(c, Of(c, u, p, s, TRUE)),
           CancelUpdate(c), deletedQ' = Append(deletedQ, c)
    PROVE  /\ cell' \in [Cells -> CellType \cup {None}]
           /\ updateQ' \in Seq(Cells) /\ deletedQ' \in Seq(Cells) /\ QueuesSound'
           /\ cell'[c] = Of(c, u, p, s, TRUE) /\ cell'[c] # None
           /\ \A d \in Cells \ {c} :
                 cell'[d] = cell[d] /\ (Contains(updateQ, d) => Contains(updateQ', d))
  <1>1. Of(c, u, p, s, TRUE) \in CellType
    BY Contents
  <1>2. /\ cell' \in [Cells -> CellType \cup {None}]
        /\ cell'[c] = Of(c, u, p, s, TRUE)
        /\ \A d \in Cells \ {c} : cell'[d] = cell[d]
    BY <1>1, Become
  <1>3. cell'[c] # None /\ cell'[c].sock = cell[c].sock /\ cell'[c].deleted
    <2>1. cell'[c] # None
      BY <1>1, <1>2 DEF PortAssumption
    <2>2. cell'[c].sock = cell[c].sock /\ cell'[c].deleted = TRUE
      BY <1>2 DEF Of
    <2> QED
      BY <2>1, <2>2
  <1>4. /\ updateQ' \in Seq(Cells) /\ IsInjective(updateQ')
        /\ \A d : Contains(updateQ', d) <=> Contains(updateQ, d) /\ d # c
    BY Unlinked, Zenon
  <1>5. \A d \in Cells :
          /\ Contains(updateQ, d) => cell[d] # None /\ ~cell[d].deleted
          /\ Contains(deletedQ, d) <=> cell[d] # None /\ cell[d].deleted
    BY DEF QueuesSound
  <1>6. /\ deletedQ' \in Seq(Cells) /\ IsInjective(deletedQ')
        /\ \A d : Contains(deletedQ', d) <=> Contains(deletedQ, d) \/ d = c
    <2>1. deletedQ \in Seq(Cells) /\ IsInjective(deletedQ) /\ ~Contains(deletedQ, c)
      BY <1>5 DEF TypeOK, QueuesSound
    <2>2. /\ Append(deletedQ, c) \in Seq(Cells)
          /\ \A d : Contains(Append(deletedQ, c), d) <=> Contains(deletedQ, d) \/ d = c
          /\ IsInjective(deletedQ) /\ ~Contains(deletedQ, c) => IsInjective(Append(deletedQ, c))
      BY <2>1, AppendQueue
    <2> QED
      BY <2>1, <2>2, Zenon
  <1>7. \A d \in Cells :
          /\ Contains(updateQ', d) => cell'[d] # None /\ ~cell'[d].deleted
          /\ Contains(deletedQ', d) <=> cell'[d] # None /\ cell'[d].deleted
          /\ cell'[d] # None /\ ~cell'[d].deleted => cell[d] # None /\ ~cell[d].deleted
          /\ cell'[d] # None /\ cell[d] # None => cell'[d].sock = cell[d].sock
    <2>1. ASSUME NEW d \in Cells, d # c PROVE cell'[d] = cell[d]
      BY <1>2, <2>1
    <2> QED
      BY <1>3, <1>4, <1>5, <1>6, <2>1, Zenon
  <1>8. QueuesSound'
    BY <1>4, <1>6, <1>7, QueueStep
  <1>9. \A d \in Cells \ {c} :
          cell'[d] = cell[d] /\ (Contains(updateQ, d) => Contains(updateQ', d))
    <2>1. \A d \in Cells \ {c} : d # c
      OBVIOUS
    <2> QED
      BY <1>2, <1>4, <2>1, Zenon
  <1> QED
    BY <1>2, <1>3, <1>4, <1>6, <1>8, <1>9

(* Free memory becomes the cell of a socket that is not registered.        *)
LEMMA CellTaken ==
    ASSUME PortAssumption, TypeOK, QueuesSound, NEW c \in Cells, cell[c] = None,
           NEW s \in Socks, Registered(s) = {}, NEW want \in Wants,
           Becomes(c, NewCell(s, want)), RequestUpdate(c), deletedQ' = deletedQ
    PROVE  /\ cell' \in [Cells -> CellType \cup {None}]
           /\ updateQ' \in Seq(Cells) /\ deletedQ' \in Seq(Cells) /\ QueuesSound'
           /\ cell'[c] = NewCell(s, want) /\ \A d \in Cells \ {c} : cell'[d] = cell[d]
           /\ cell'[c] # None /\ Contains(updateQ', c)
           /\ \A d : d # c => (Contains(updateQ', d) <=> Contains(updateQ, d))
  <1>1. NewCell(s, want) \in CellType
    <2>1. want \cup Always \in Users /\ {} \in Users
      BY DEF Users
    <2> QED
      BY <2>1 DEF NewCell, CellType, Status, Users
  <1>2. /\ cell' \in [Cells -> CellType \cup {None}]
        /\ cell'[c] = NewCell(s, want)
        /\ \A d \in Cells \ {c} : cell'[d] = cell[d]
    BY <1>1, Become
  <1>3. cell'[c] # None /\ cell'[c].sock = s /\ ~cell'[c].deleted
    <2>1. cell'[c] # None
      BY <1>1, <1>2 DEF PortAssumption
    <2>2. cell'[c].sock = s /\ cell'[c].deleted = FALSE
      BY <1>2 DEF NewCell
    <2> QED
      BY <2>1, <2>2
  <1>4. \A d \in Cells :
          /\ Contains(updateQ, d) => cell[d] # None /\ ~cell[d].deleted
          /\ Contains(deletedQ, d) <=> cell[d] # None /\ cell[d].deleted
    BY DEF QueuesSound
  <1>5. /\ updateQ' \in Seq(Cells) /\ IsInjective(updateQ')
        /\ \A d : Contains(updateQ', d) <=> Contains(updateQ, d) \/ d = c
    BY <1>4, Enqueued, Zenon
  <1>6. deletedQ' \in Seq(Cells) /\ IsInjective(deletedQ')
    BY DEF TypeOK, QueuesSound
  <1>7. \A d \in Cells :
          /\ Contains(updateQ', d) => cell'[d] # None /\ ~cell'[d].deleted
          /\ Contains(deletedQ', d) <=> cell'[d] # None /\ cell'[d].deleted
    <2>1. ASSUME NEW d \in Cells, d # c PROVE cell'[d] = cell[d]
      BY <1>2, <2>1
    <2> QED
      BY <1>3, <1>4, <1>5, <2>1, Zenon
  <1>8. ASSUME NEW d \in Cells, NEW e \in Cells, d # e, cell'[d] # None, cell'[e] # None,
               cell'[d].sock = cell'[e].sock, ~cell'[d].deleted, ~cell'[e].deleted
        PROVE  FALSE
    <2>1. ASSUME NEW x \in Cells, x # c, cell'[x] # None, cell'[x].sock = s, ~cell'[x].deleted
          PROVE  FALSE
      <3>1. cell[x] = cell'[x]
        BY <1>2, <2>1
      <3>2. x \in Registered(s)
        BY <2>1, <3>1 DEF Registered
      <3> QED
        BY <3>2
    <2>2. d # c /\ e # c
      BY <1>3, <1>8, <2>1
    <2>3. cell[d] = cell'[d] /\ cell[e] = cell'[e]
      BY <1>2, <2>2
    <2> QED
      BY <1>8, <2>3, Zenon DEF QueuesSound
  <1>9. QueuesSound'
    <2>1. /\ (\A d : Contains(updateQ, d)' <=> Contains(updateQ', d))
          /\ (\A d : Contains(deletedQ, d)' <=> Contains(deletedQ', d))
          /\ (IsInjective(updateQ)' <=> IsInjective(updateQ'))
          /\ (IsInjective(deletedQ)' <=> IsInjective(deletedQ'))
      BY DEF Contains, IsInjective
    <2> QED
      BY <1>5, <1>6, <1>7, <1>8, <2>1, Zenon DEF QueuesSound
  <1> QED
    BY <1>2, <1>3, <1>5, <1>6, <1>9, Zenon

------------------------------------------------------------------------------
(* What is kept of the cells, the queues and the polls. A poll in the       *)
(* kernel is the one its cell remembers, and a cell that nobody has to     *)
(* look at has what its user asks for, or a poll that is coming back.      *)

CoveredAt(c) == cell[c] # None /\ ~cell[c].deleted /\ ~Contains(updateQ, c) =>
    \/ cell[c].status = "PENDING" /\ Covered(c)
    \/ cell[c].status = "CANCELLED"

PollMatchesAt(c) == cell[c] # None =>
    /\ cell[c].status # "PENDING" => cell[c].pending = {}
    /\ cell[c].status = "CANCELLED" => op[c] = None
    /\ cell[c].status = "PENDING" /\ op[c] # None => op[c] = ToAfd(cell[c].pending)

Data ==
    /\ cell \in [Cells -> CellType \cup {None}]
    /\ updateQ \in Seq(Cells) /\ deletedQ \in Seq(Cells)
    /\ op \in [Cells -> {None} \cup Polls]
    /\ packets \in Seq(Packet)
    /\ batch \in [Threads -> Seq(Packet)]
    /\ PacketsPointToCells /\ QueuesSound
    /\ \A c \in Cells : CoveredAt(c) /\ PollMatchesAt(c)

LEMMA SameCell ==
    ASSUME NEW c, CoveredAt(c), PollMatchesAt(c),
           cell'[c] = cell[c], Contains(updateQ, c) => Contains(updateQ', c),
           op'[c] = op[c] \/ op'[c] = None
    PROVE  CoveredAt(c)' /\ PollMatchesAt(c)'
  <1>1. Contains(updateQ, c)' <=> Contains(updateQ', c)
    BY DEF Contains
  <1> QED
    BY <1>1 DEF CoveredAt, PollMatchesAt, Covered

(* Only polls and packets change.                                          *)
LEMMA SameCells ==
    ASSUME Data, UNCHANGED <<cell, updateQ, deletedQ, batch>>,
           \A c \in Cells : op'[c] = op[c] \/ op'[c] = None
    PROVE  /\ cell' \in [Cells -> CellType \cup {None}]
           /\ updateQ' \in Seq(Cells) /\ deletedQ' \in Seq(Cells)
           /\ batch' \in [Threads -> Seq(Packet)]
           /\ QueuesSound' /\ \A c \in Cells : CoveredAt(c)' /\ PollMatchesAt(c)'
           /\ \A c \in Cells : Active(c)' <=> Active(c)
  <1>1. /\ \A c : Contains(updateQ, c)' <=> Contains(updateQ, c)
        /\ \A c : Contains(deletedQ, c)' <=> Contains(deletedQ, c)
        /\ IsInjective(updateQ)' <=> IsInjective(updateQ)
        /\ IsInjective(deletedQ)' <=> IsInjective(deletedQ)
    BY DEF Contains, IsInjective
  <1>2. QueuesSound'
    BY <1>1, Zenon DEF QueuesSound, Data
  <1>3. \A c \in Cells : CoveredAt(c)' /\ PollMatchesAt(c)'
    BY SameCell, Zenon DEF Data
  <1>4. \A c \in Cells : Active(c)' <=> Active(c)
    BY DEF Active
  <1> QED
    BY <1>2, <1>3, <1>4 DEF Data

LEMMA DataSame ==
    ASSUME Data, UNCHANGED <<cell, updateQ, deletedQ, op, packets, batch>>
    PROVE  Data'
  <1>1. /\ cell' \in [Cells -> CellType \cup {None}]
        /\ updateQ' \in Seq(Cells) /\ deletedQ' \in Seq(Cells)
        /\ batch' \in [Threads -> Seq(Packet)]
        /\ QueuesSound' /\ \A c \in Cells : CoveredAt(c)' /\ PollMatchesAt(c)'
        /\ \A c \in Cells : Active(c)' <=> Active(c)
    BY SameCells
  <1>2. PacketsPointToCells'
    BY <1>1, FlightSame DEF Data
  <1> QED
    BY <1>1, <1>2 DEF Data

LEMMA CompleteData ==
    ASSUME PortAssumption, TypeOK, Data, NEW c \in Cells, Complete(c)
    PROVE  Data'
  <1>1. /\ UNCHANGED <<cell, updateQ, deletedQ, batch>>
        /\ op[c] # None /\ op' = [op EXCEPT ![c] = None]
    BY DEF Complete, queues, threads
  <1>2. cell[c] # None
    BY <1>1, Zenon DEF Data, PacketsPointToCells, Active
  <1>3. PICK p \in Packet : p.cell = c /\ packets' = Append(packets, p)
    <2>1. level[cell[c].sock] \subseteq Happens
      BY <1>2, Contents DEF TypeOK
    <2>2. op[c] \cap level[cell[c].sock] \in SUBSET (Happens \cup {"LOCAL_CLOSE"})
          /\ {} \in SUBSET (Happens \cup {"LOCAL_CLOSE"})
      BY <2>1
    <2>3. \A k \in {"events", "cancelled", "failed", "nothing"},
             e \in SUBSET (Happens \cup {"LOCAL_CLOSE"}) :
             Answer(c, k, e) \in Packet /\ Answer(c, k, e).cell = c
      BY DEF Answer, Packet
    <2>4. \/ packets' = Append(packets, Answer(c, "events", op[c] \cap level[cell[c].sock]))
          \/ \E k \in {"failed", "nothing"} : packets' = Append(packets, Answer(c, k, {}))
      BY DEF Complete
    <2> QED
      BY <2>2, <2>3, <2>4
  <1>4. op' \in [Cells -> {None} \cup Polls] /\ \A d \in Cells : op'[d] = op[d] \/ op'[d] = None
    BY <1>1 DEF Data
  <1>5. /\ cell' \in [Cells -> CellType \cup {None}]
        /\ updateQ' \in Seq(Cells) /\ deletedQ' \in Seq(Cells)
        /\ batch' \in [Threads -> Seq(Packet)]
        /\ QueuesSound' /\ \A d \in Cells : CoveredAt(d)' /\ PollMatchesAt(d)'
        /\ \A d \in Cells : Active(d)' <=> Active(d)
    BY <1>1, <1>4, SameCells
  <1>6. PacketsPointToCells' /\ packets' \in Seq(Packet)
    BY <1>1, <1>3, <1>5, PollAnswered DEF Data
  <1> QED
    BY <1>4, <1>5, <1>6 DEF Data

LEMMA CloseSocketData ==
    ASSUME PortAssumption, TypeOK, Data, NEW s \in Socks, CloseSocket(s)
    PROVE  Data'
  <1>1. PICK polled : polled = {c \in Cells : op[c] # None /\ cell[c].sock = s}
    OBVIOUS
  <1>2. /\ UNCHANGED <<cell, updateQ, deletedQ, batch>>
        /\ op' = [c \in Cells |-> IF c \in polled THEN None ELSE op[c]]
    BY <1>1 DEF CloseSocket, queues, threads
  <1>3. polled \subseteq Cells /\ \A c \in polled : op[c] # None
    BY <1>1
  <1>4. PICK qs : /\ qs \in SetToSeqs({Answer(c, "events", {"LOCAL_CLOSE"}) : c \in polled})
                  /\ packets' = packets \o qs
    BY <1>1, Zenon DEF CloseSocket
  <1>5. IsFiniteSet(polled)
    BY <1>3, FS_Subset DEF PortAssumption
  <1>6. /\ qs \in Seq(Packet) /\ AtMostOnce(qs)
        /\ \A c : Points(qs, c) <=> c \in polled
    BY <1>3, <1>4, <1>5, AnswerPackets
  <1>7. op' \in [Cells -> {None} \cup Polls] /\ \A d \in Cells : op'[d] = op[d] \/ op'[d] = None
    BY <1>2 DEF Data
  <1>8. /\ cell' \in [Cells -> CellType \cup {None}]
        /\ updateQ' \in Seq(Cells) /\ deletedQ' \in Seq(Cells)
        /\ batch' \in [Threads -> Seq(Packet)]
        /\ QueuesSound' /\ \A d \in Cells : CoveredAt(d)' /\ PollMatchesAt(d)'
        /\ \A d \in Cells : Active(d)' <=> Active(d)
    BY <1>2, <1>7, SameCells
  <1>9. PacketsPointToCells' /\ packets' \in Seq(Packet)
    <2>1. PacketsPointToCells
      BY DEF Data
    <2> QED
      BY <1>2, <1>3, <1>4, <1>6, <1>8, <2>1, PollsAnswered
  <1> QED
    BY <1>7, <1>8, <1>9 DEF Data

LEMMA CancelPoll ==
    ASSUME PortAssumption, TypeOK, Data, NEW c \in Cells, afd_cancel_poll(c), batch' = batch,
           \A d \in Cells : Active(d)' <=> Active(d)
    PROVE  /\ PacketsPointToCells' /\ packets' \in Seq(Packet)
           /\ op' \in [Cells -> {None} \cup Polls]
           /\ op'[c] = None /\ \A d \in Cells \ {c} : op'[d] = op[d]
  <1>1. CASE op[c] = None
    <2>1. UNCHANGED <<op, packets, batch>>
      BY <1>1 DEF afd_cancel_poll, kernel
    <2>2. PacketsPointToCells'
      BY <2>1, FlightSame DEF Data
    <2> QED
      BY <1>1, <2>1, <2>2 DEF Data
  <1>2. CASE op[c] # None
    <2>1. /\ op' = [op EXCEPT ![c] = None]
          /\ packets' = Append(packets, Answer(c, "cancelled", {}))
      BY <1>2 DEF afd_cancel_poll
    <2>2. Answer(c, "cancelled", {}) \in Packet /\ Answer(c, "cancelled", {}).cell = c
      BY DEF Answer, Packet
    <2>3. PacketsPointToCells' /\ packets' \in Seq(Packet)
      BY <1>2, <2>1, <2>2, PollAnswered DEF Data
    <2> QED
      BY <2>1, <2>3 DEF Data
  <1> QED
    BY <1>1, <1>2

LEMMA DequeueData ==
    ASSUME PortAssumption, TypeOK, Data, NEW t \in Threads, batch[t] = <<>>, Dequeue(t)
    PROVE  Data'
  <1>1. PICK n \in 0 .. Len(packets) :
           /\ batch' = [batch EXCEPT ![t] = SubSeq(packets, 1, n)]
           /\ packets' = SubSeq(packets, n + 1, Len(packets))
    <2>1. Len(packets) \in Nat /\ MaxEvents \in Nat
      BY LenProperties DEF Data, PortAssumption
    <2>2. (IF Len(packets) < MaxEvents THEN Len(packets) ELSE MaxEvents) \in 0 .. Len(packets)
      BY <2>1
    <2> QED
      BY <2>2 DEF Dequeue
  <1>2. UNCHANGED <<cell, updateQ, deletedQ, op>>
    BY DEF Dequeue, queues
  <1>3. \A d \in Cells : Active(d)' <=> Active(d)
    BY <1>2 DEF Active
  <1>4. PacketsPointToCells' /\ packets' \in Seq(Packet) /\ batch'[t] \in Seq(Packet)
    BY <1>1, <1>2, <1>3, PacketsTaken DEF Data
  <1>5. batch' \in [Threads -> Seq(Packet)]
    BY <1>1, <1>4 DEF Data
  <1>6. /\ \A c : Contains(updateQ, c)' <=> Contains(updateQ, c)
        /\ \A c : Contains(deletedQ, c)' <=> Contains(deletedQ, c)
        /\ IsInjective(updateQ)' <=> IsInjective(updateQ)
        /\ IsInjective(deletedQ)' <=> IsInjective(deletedQ)
    BY <1>2 DEF Contains, IsInjective
  <1>7. QueuesSound'
    BY <1>2, <1>6, Zenon DEF QueuesSound, Data
  <1>8. \A c \in Cells : CoveredAt(c)' /\ PollMatchesAt(c)'
    BY <1>2, SameCell, Zenon DEF Data
  <1> QED
    BY <1>2, <1>4, <1>5, <1>7, <1>8 DEF Data

(* One cell changes.                                                       *)
LEMMA OneCell ==
    ASSUME Data, NEW c \in Cells,
           cell' \in [Cells -> CellType \cup {None}],
           updateQ' \in Seq(Cells), deletedQ' \in Seq(Cells),
           op' \in [Cells -> {None} \cup Polls], packets' \in Seq(Packet),
           batch' \in [Threads -> Seq(Packet)],
           PacketsPointToCells', QueuesSound', CoveredAt(c)', PollMatchesAt(c)',
           \A d \in Cells \ {c} : /\ cell'[d] = cell[d] /\ op'[d] = op[d]
                                  /\ Contains(updateQ, d) => Contains(updateQ', d)
    PROVE  Data'
  <1>1. ASSUME NEW d \in Cells PROVE CoveredAt(d)' /\ PollMatchesAt(d)'
    <2>1. CASE d = c
      BY <2>1
    <2>2. CASE d # c
      BY <2>2, SameCell DEF Data
    <2> QED
      BY <2>1, <2>2
  <1> QED
    BY <1>1 DEF Data

LEMMA SetEventData ==
    ASSUME PortAssumption, TypeOK, Data, NEW c \in Cells, cell[c] # None, ~cell[c].deleted,
           NEW want \in Wants, SetEvent(c, want), UNCHANGED <<deletedQ, op, packets, batch>>
    PROVE  /\ Data'
           /\ cell'[c] = Of(c, want \cup Always, cell[c].pending, cell[c].status, cell[c].deleted)
           /\ \A d \in Cells \ {c} : cell'[d] = cell[d]
  <1>1. PICK u \in Users : u = want \cup Always
    BY DEF Users
  <1>2. /\ cell[c] \in CellType /\ cell[c].pending \in Users /\ cell[c].status \in Status
        /\ cell[c].deleted \in BOOLEAN
    BY Contents
  <1>3. Becomes(c, Of(c, u, cell[c].pending, cell[c].status, cell[c].deleted))
    BY <1>1, Edits DEF SetEvent
  <1>4. IF Known(u) \subseteq cell[c].pending THEN updateQ' = updateQ ELSE RequestUpdate(c)
    BY <1>1 DEF SetEvent
  <1>5. QueuesSound
    BY DEF Data
  <1>6. /\ cell' \in [Cells -> CellType \cup {None}]
        /\ updateQ' \in Seq(Cells) /\ deletedQ' \in Seq(Cells) /\ QueuesSound'
        /\ cell'[c] = Of(c, u, cell[c].pending, cell[c].status, cell[c].deleted) /\ cell'[c] # None
        /\ \A d \in Cells \ {c} :
              cell'[d] = cell[d] /\ (Contains(updateQ, d) => Contains(updateQ', d))
    BY <1>2, <1>3, <1>4, <1>5, CellKept
  <1>7. /\ cell'[c].user = u /\ cell'[c].pending = cell[c].pending
        /\ cell'[c].status = cell[c].status /\ (cell'[c].deleted <=> cell[c].deleted)
    BY <1>6, OfFields
  <1>8. \A d \in Cells : Active(d)' <=> Active(d)
    BY <1>6, <1>7 DEF Active
  <1>9. PacketsPointToCells'
    BY <1>8, FlightSame DEF Data
  <1>10. CoveredAt(c)'
    <2>1. Contains(updateQ, c)' <=> Contains(updateQ', c)
      BY DEF Contains
    <2>2. CASE Known(u) \subseteq cell[c].pending
      <3>1. Contains(updateQ', c) <=> Contains(updateQ, c)
        BY <1>4, <2>2
      <3>2. CoveredAt(c)
        BY DEF Data
      <3> QED
        BY <1>7, <2>1, <2>2, <3>1, <3>2 DEF CoveredAt, Covered
    <2>3. CASE ~(Known(u) \subseteq cell[c].pending)
      <3>1. ~Contains(deletedQ, c)
        BY <1>5 DEF QueuesSound
      <3>2. Contains(updateQ', c)
        BY <1>4, <1>5, <2>3, <3>1, Enqueued
      <3> QED
        BY <2>1, <3>2 DEF CoveredAt
    <2> QED
      BY <2>2, <2>3
  <1>11. PollMatchesAt(c)'
    <2>1. PollMatchesAt(c)
      BY DEF Data
    <2> QED
      BY <1>7, <2>1 DEF PollMatchesAt
  <1>12. Data'
    <2>1. /\ op' \in [Cells -> {None} \cup Polls] /\ packets' \in Seq(Packet)
          /\ batch' \in [Threads -> Seq(Packet)] /\ op' = op
      BY DEF Data
    <2> QED
      BY <1>6, <1>9, <1>10, <1>11, <2>1, OneCell
  <1> QED
    BY <1>1, <1>6, <1>12

LEMMA AddData ==
    ASSUME PortAssumption, TypeOK, Data, NEW c \in Cells, cell[c] = None,
           NEW s \in Socks, Registered(s) = {}, NEW want \in Wants,
           cell' = [cell EXCEPT ![c] = NewCell(s, want)], RequestUpdate(c),
           UNCHANGED <<deletedQ, op, packets, batch>>
    PROVE  /\ Data'
           /\ cell'[c] = NewCell(s, want) /\ cell'[c] # None
           /\ \A d \in Cells \ {c} : cell'[d] = cell[d]
  <1>1. QueuesSound /\ Becomes(c, NewCell(s, want))
    BY DEF Data, Becomes
  <1>2. /\ cell' \in [Cells -> CellType \cup {None}]
        /\ updateQ' \in Seq(Cells) /\ deletedQ' \in Seq(Cells) /\ QueuesSound'
        /\ cell'[c] = NewCell(s, want) /\ \A d \in Cells \ {c} : cell'[d] = cell[d]
        /\ cell'[c] # None /\ Contains(updateQ', c)
        /\ \A d : d # c => (Contains(updateQ', d) <=> Contains(updateQ, d))
    BY <1>1, CellTaken
  <1>3. cell'[c].status = "IDLE" /\ cell'[c].pending = {}
    BY <1>2 DEF NewCell
  <1>4. \A d \in Cells : Active(d)' <=> Active(d)
    BY <1>2, <1>3 DEF Active
  <1>5. PacketsPointToCells'
    BY <1>4, FlightSame DEF Data
  <1>6. CoveredAt(c)'
    <2>1. Contains(updateQ, c)' <=> Contains(updateQ', c)
      BY DEF Contains
    <2> QED
      BY <1>2, <2>1 DEF CoveredAt
  <1>7. PollMatchesAt(c)'
    BY <1>3 DEF PollMatchesAt
  <1>8. \A d \in Cells \ {c} : /\ cell'[d] = cell[d] /\ op'[d] = op[d]
                               /\ Contains(updateQ, d) => Contains(updateQ', d)
    <2>1. \A d \in Cells \ {c} : d # c
      OBVIOUS
    <2> QED
      BY <1>2, <2>1, Zenon
  <1>9. Data'
    <2>1. /\ op' \in [Cells -> {None} \cup Polls] /\ packets' \in Seq(Packet)
          /\ batch' \in [Threads -> Seq(Packet)]
      BY DEF Data
    <2> QED
      BY <1>2, <1>5, <1>6, <1>7, <1>8, <2>1, OneCell
  <1> QED
    BY <1>2, <1>9

LEMMA FreeData ==
    ASSUME PortAssumption, TypeOK, Data, NEW c \in Cells, ~Active(c), Free(c),
           UNCHANGED <<op, packets, batch>>
    PROVE  /\ Data'
           /\ cell'[c] = None
           /\ \A d \in Cells \ {c} : cell'[d] = cell[d]
  <1>1. QueuesSound
    BY DEF Data
  <1>2. /\ cell' \in [Cells -> CellType \cup {None}]
        /\ updateQ' \in Seq(Cells) /\ deletedQ' \in Seq(Cells) /\ QueuesSound'
        /\ cell'[c] = None /\ \A d \in Cells \ {c} : cell'[d] = cell[d]
        /\ \A d : Contains(updateQ', d) <=> Contains(updateQ, d) /\ d # c
    BY <1>1, CellFreed
  <1>3. \A d \in Cells : Active(d)' <=> Active(d)
    BY <1>2 DEF Active
  <1>4. PacketsPointToCells'
    BY <1>3, FlightSame DEF Data
  <1>5. CoveredAt(c)' /\ PollMatchesAt(c)'
    BY <1>2 DEF CoveredAt, PollMatchesAt
  <1>6. \A d \in Cells \ {c} : /\ cell'[d] = cell[d] /\ op'[d] = op[d]
                               /\ Contains(updateQ, d) => Contains(updateQ', d)
    <2>1. \A d \in Cells \ {c} : d # c
      OBVIOUS
    <2> QED
      BY <1>2, <2>1, Zenon
  <1>7. Data'
    <2>1. /\ op' \in [Cells -> {None} \cup Polls] /\ packets' \in Seq(Packet)
          /\ batch' \in [Threads -> Seq(Packet)]
      BY DEF Data
    <2> QED
      BY <1>2, <1>4, <1>5, <1>6, <2>1, OneCell
  <1> QED
    BY <1>2, <1>7

LEMMA DeleteData ==
    ASSUME PortAssumption, TypeOK, Data, NEW c \in Cells, cell[c] # None, ~cell[c].deleted,
           Delete(c), batch' = batch
    PROVE  /\ Data'
           /\ cell'[c] = None \/ (cell'[c].deleted /\ cell'[c].sock = cell[c].sock)
           /\ \A d \in Cells \ {c} : cell'[d] = cell[d]
  <1>1. QueuesSound /\ cell[c].status \in Status
    BY Contents DEF Data
  <1>2. CASE cell[c].status = "IDLE"
    <2>1. Free(c) /\ UNCHANGED <<op, packets>>
      BY <1>2 DEF Delete, kernel
    <2>2. ~Active(c)
      BY <1>2 DEF Active
    <2> QED
      BY <2>1, <2>2, FreeData
  <1>3. CASE cell[c].status # "IDLE"
    <2>0. CancelUpdate(c) /\ deletedQ' = Append(deletedQ, c)
      BY <1>3 DEF Delete
    <2>1. cell[c].user \in Users /\ cell[c].pending \in Users /\ {} \in Users
          /\ "CANCELLED" \in Status
      BY Contents DEF Users, Status
    <2>2. PICK p \in Users, s \in Status : 
             /\ s # "IDLE" /\ Becomes(c, Of(c, cell[c].user, p, s, TRUE))
             /\ \/ p = {} /\ s = "CANCELLED" /\ afd_cancel_poll(c)
                \/ p = cell[c].pending /\ s = cell[c].status /\ UNCHANGED <<op, packets>>
      <3>1. CASE /\ afd_cancel_poll(c)
                 /\ cell' = [cell EXCEPT ![c].deleted = TRUE, ![c].status = "CANCELLED",
                                         ![c].pending = {}]
        <4>1. Becomes(c, Of(c, cell[c].user, {}, "CANCELLED", TRUE))
          BY <3>1, Edits
        <4> QED
          BY <2>1, <3>1, <4>1
      <3>2. CASE cell' = [cell EXCEPT ![c].deleted = TRUE] /\ UNCHANGED kernel
        <4>1. Becomes(c, Of(c, cell[c].user, cell[c].pending, cell[c].status, TRUE))
          BY <3>2, Edits
        <4> QED
          BY <1>1, <1>3, <2>1, <3>2, <4>1 DEF kernel
      <3> QED
        BY <1>3, <3>1, <3>2 DEF Delete
    <2>3. /\ cell' \in [Cells -> CellType \cup {None}]
          /\ updateQ' \in Seq(Cells) /\ deletedQ' \in Seq(Cells) /\ QueuesSound'
          /\ cell'[c] = Of(c, cell[c].user, p, s, TRUE) /\ cell'[c] # None
          /\ \A d \in Cells \ {c} :
                cell'[d] = cell[d] /\ (Contains(updateQ, d) => Contains(updateQ', d))
      BY <1>1, <2>0, <2>1, <2>2, CellMarked
    <2>4. cell'[c].status = s /\ cell'[c].pending = p
      BY <2>3 DEF Of
    <2>5. cell'[c].deleted = TRUE /\ cell'[c].sock = cell[c].sock
      BY <2>3 DEF Of
    <2>6. \A d \in Cells : Active(d)' <=> Active(d)
      BY <1>3, <2>2, <2>3, <2>4 DEF Active
    <2>7. /\ PacketsPointToCells' /\ packets' \in Seq(Packet)
          /\ op' \in [Cells -> {None} \cup Polls]
          /\ \/ s = "CANCELLED" /\ p = {} /\ op'[c] = None
             \/ p = cell[c].pending /\ s = cell[c].status /\ op'[c] = op[c]
          /\ \A d \in Cells \ {c} : op'[d] = op[d]
      <3>1. CASE p = {} /\ s = "CANCELLED" /\ afd_cancel_poll(c)
        <4>1. /\ PacketsPointToCells' /\ packets' \in Seq(Packet)
              /\ op' \in [Cells -> {None} \cup Polls]
              /\ op'[c] = None /\ \A d \in Cells \ {c} : op'[d] = op[d]
          BY <2>6, <3>1, CancelPoll
        <4> QED
          BY <3>1, <4>1
      <3>2. CASE p = cell[c].pending /\ s = cell[c].status /\ UNCHANGED <<op, packets>>
        <4>1. PacketsPointToCells'
          BY <2>6, <3>2, FlightSame DEF Data
        <4> QED
          BY <3>2, <4>1 DEF Data
      <3> QED
        BY <2>2, <3>1, <3>2
    <2>8. CoveredAt(c)'
      BY <2>5 DEF CoveredAt
    <2>9. PollMatchesAt(c)'
      <3>1. PollMatchesAt(c)
        BY DEF Data
      <3> QED
        BY <2>4, <2>7, <3>1 DEF PollMatchesAt
    <2>10. Data'
      <3>1. batch' \in [Threads -> Seq(Packet)]
        BY DEF Data
      <3>2. \A d \in Cells \ {c} : /\ cell'[d] = cell[d] /\ op'[d] = op[d]
                                   /\ Contains(updateQ, d) => Contains(updateQ', d)
        BY <2>3, <2>7
      <3> QED
        BY <2>3, <2>7, <2>8, <2>9, <3>1, <3>2, OneCell
    <2> QED
      BY <2>3, <2>5, <2>10
  <1> QED
    BY <1>2, <1>3

LEMMA QueuedCells ==
    ASSUME TypeOK, QueuesSound, updateQ # <<>>
    PROVE  /\ Head(updateQ) \in Cells /\ Contains(updateQ, Head(updateQ))
           /\ cell[Head(updateQ)] # None /\ ~cell[Head(updateQ)].deleted
  <1>1. PICK q \in Seq(Cells) : q = updateQ
    BY DEF TypeOK
  <1>2. PICK n \in Nat : n = Len(q) /\ DOMAIN q = 1 .. n /\ n # 0
    BY <1>1, LenProperties, EmptySeq
  <1>3. 1 \in 1 .. n
    BY <1>2
  <1>4. Head(q) = q[1] /\ q[1] \in Cells
    BY <1>2, <1>3, ElementOfSeq
  <1>5. Contains(q, Head(q))
    BY <1>2, <1>3, <1>4 DEF Contains
  <1> QED
    BY <1>1, <1>4, <1>5 DEF QueuesSound

LEMMA UpdateData ==
    ASSUME PortAssumption, TypeOK, Data, NEW c \in Cells, cell[c] # None, ~cell[c].deleted,
           SockUpdate(c), batch' = batch
    PROVE  /\ Data'
           /\ \/ /\ cell'[c] # None /\ cell'[c].sock = cell[c].sock
                 /\ cell'[c].user = cell[c].user /\ ~cell'[c].deleted
              \/ cell'[c] = None /\ cell[c].sock \in closed
           /\ \A d \in Cells \ {c} : cell'[d] = cell[d]
  <1>0. /\ QueuesSound /\ PollMatchesAt(c)
        /\ op \in [Cells -> {None} \cup Polls] /\ packets \in Seq(Packet)
        /\ batch' \in [Threads -> Seq(Packet)]
    BY DEF Data
  <1>1. /\ cell[c].status \in Status /\ cell[c].user \in Users /\ cell[c].pending \in Users
        /\ {} \in Users /\ "CANCELLED" \in Status /\ "PENDING" \in Status
        /\ cell[c].deleted \in BOOLEAN
        /\ cell[c] = Of(c, cell[c].user, cell[c].pending, cell[c].status, cell[c].deleted)
    BY Contents DEF Users, Status
  <1>2. CASE /\ cell[c].status = "IDLE" /\ cell[c].sock \in closed
             /\ Free(c) /\ UNCHANGED kernel
    <2>1. ~Active(c) /\ UNCHANGED <<op, packets>>
      BY <1>2 DEF Active, kernel
    <2> QED
      BY <1>2, <2>1, FreeData
  <1>3. ASSUME NEW p \in Users, NEW s \in Status,
               Becomes(c, Of(c, cell[c].user, p, s, cell[c].deleted)),
               CancelUpdate(c), deletedQ' = deletedQ
        PROVE  /\ cell' \in [Cells -> CellType \cup {None}]
               /\ updateQ' \in Seq(Cells) /\ deletedQ' \in Seq(Cells) /\ QueuesSound'
               /\ cell'[c] # None /\ cell'[c].sock = cell[c].sock /\ cell'[c].user = cell[c].user
               /\ ~cell'[c].deleted /\ cell'[c].pending = p /\ cell'[c].status = s
               /\ \A d \in Cells \ {c} :
                     cell'[d] = cell[d] /\ (Contains(updateQ, d) => Contains(updateQ', d))
    <2>1. /\ cell' \in [Cells -> CellType \cup {None}]
          /\ updateQ' \in Seq(Cells) /\ deletedQ' \in Seq(Cells) /\ QueuesSound'
          /\ cell'[c] = Of(c, cell[c].user, p, s, cell[c].deleted) /\ cell'[c] # None
          /\ \A d \in Cells \ {c} :
                cell'[d] = cell[d] /\ (Contains(updateQ, d) => Contains(updateQ', d))
      BY <1>0, <1>1, <1>3, CellKept
    <2>2. /\ cell'[c].sock = cell[c].sock /\ cell'[c].user = cell[c].user
          /\ cell'[c].pending = p /\ cell'[c].status = s /\ cell'[c].deleted = cell[c].deleted
      BY <2>1, OfFields
    <2> QED
      BY <2>1, <2>2
  <1>4. CASE /\ cell[c].status = "CANCELLED" \/ (cell[c].status = "PENDING" /\ Covered(c))
             /\ CancelUpdate(c)
             /\ UNCHANGED <<cell, deletedQ, kernel>>
    <2>1. /\ Becomes(c, Of(c, cell[c].user, cell[c].pending, cell[c].status, cell[c].deleted))
          /\ UNCHANGED <<op, packets>>
      BY <1>1, <1>4 DEF Becomes, Data, kernel
    <2>2. /\ cell' \in [Cells -> CellType \cup {None}]
          /\ updateQ' \in Seq(Cells) /\ deletedQ' \in Seq(Cells) /\ QueuesSound'
          /\ cell'[c] # None /\ cell'[c].sock = cell[c].sock /\ cell'[c].user = cell[c].user
          /\ ~cell'[c].deleted /\ cell'[c].pending = cell[c].pending /\ cell'[c].status = cell[c].status
          /\ \A d \in Cells \ {c} :
                cell'[d] = cell[d] /\ (Contains(updateQ, d) => Contains(updateQ', d))
      BY <1>1, <1>3, <1>4, <2>1
    <2>3. PacketsPointToCells'
      <3>1. \A d \in Cells : Active(d)' <=> Active(d)
        BY <1>4 DEF Active
      <3> QED
        BY <2>1, <3>1, FlightSame DEF Data
    <2>4. CoveredAt(c)' /\ PollMatchesAt(c)'
      BY <1>0, <1>4, <2>1 DEF CoveredAt, PollMatchesAt, Covered
    <2>5. Data'
      BY <1>0, <2>1, <2>2, <2>3, <2>4, OneCell
    <2> QED
      BY <2>2, <2>5
  <1>5. CASE /\ cell[c].status = "PENDING" /\ ~Covered(c)
             /\ afd_cancel_poll(c)
             /\ cell' = [cell EXCEPT ![c].status = "CANCELLED", ![c].pending = {}]
             /\ CancelUpdate(c)
             /\ UNCHANGED deletedQ
    <2>1. Becomes(c, Of(c, cell[c].user, {}, "CANCELLED", cell[c].deleted))
      BY <1>5, Edits
    <2>2. /\ cell' \in [Cells -> CellType \cup {None}]
          /\ updateQ' \in Seq(Cells) /\ deletedQ' \in Seq(Cells) /\ QueuesSound'
          /\ cell'[c] # None /\ cell'[c].sock = cell[c].sock /\ cell'[c].user = cell[c].user
          /\ ~cell'[c].deleted /\ cell'[c].pending = {} /\ cell'[c].status = "CANCELLED"
          /\ \A d \in Cells \ {c} :
                cell'[d] = cell[d] /\ (Contains(updateQ, d) => Contains(updateQ', d))
      BY <1>1, <1>3, <1>5, <2>1
    <2>3. \A d \in Cells : Active(d)' <=> Active(d)
      BY <1>5, <2>2 DEF Active
    <2>4. /\ PacketsPointToCells' /\ packets' \in Seq(Packet)
          /\ op' \in [Cells -> {None} \cup Polls]
          /\ op'[c] = None /\ \A d \in Cells \ {c} : op'[d] = op[d]
      BY <1>5, <2>3, CancelPoll
    <2>5. CoveredAt(c)' /\ PollMatchesAt(c)'
      BY <2>2, <2>4 DEF CoveredAt, PollMatchesAt
    <2>6. Data'
      BY <1>0, <2>2, <2>4, <2>5, OneCell
    <2> QED
      BY <2>2, <2>6
  <1>6. CASE /\ cell[c].status = "IDLE" /\ cell[c].sock \notin closed
             /\ op' = [op EXCEPT ![c] = ToAfd(cell[c].user)]
             /\ cell' = [cell EXCEPT ![c].status = "PENDING", ![c].pending = cell[c].user]
             /\ CancelUpdate(c)
             /\ UNCHANGED <<deletedQ, packets>>
    <2>1. Becomes(c, Of(c, cell[c].user, cell[c].user, "PENDING", cell[c].deleted))
      BY <1>6, Edits
    <2>2. /\ cell' \in [Cells -> CellType \cup {None}]
          /\ updateQ' \in Seq(Cells) /\ deletedQ' \in Seq(Cells) /\ QueuesSound'
          /\ cell'[c] # None /\ cell'[c].sock = cell[c].sock /\ cell'[c].user = cell[c].user
          /\ ~cell'[c].deleted /\ cell'[c].pending = cell[c].user /\ cell'[c].status = "PENDING"
          /\ \A d \in Cells \ {c} :
                cell'[d] = cell[d] /\ (Contains(updateQ, d) => Contains(updateQ', d))
      BY <1>1, <1>3, <1>6, <2>1
    <2>3. PICK x \in Polls : x = ToAfd(cell[c].user)
      BY <1>1, Monotone
    <2>4. x # None
      BY DEF PortAssumption
    <2>5. ~Active(c) /\ Active(c)' /\ \A d \in Cells \ {c} : Active(d)' <=> Active(d)
      BY <1>6, <2>2 DEF Active
    <2>6. op' = [op EXCEPT ![c] = x] /\ packets' = packets
      BY <1>6, <2>3
    <2>7. PacketsPointToCells'
      BY <2>4, <2>5, <2>6, PollSubmitted DEF Data
    <2>8. /\ op' \in [Cells -> {None} \cup Polls] /\ packets' \in Seq(Packet)
          /\ op'[c] = x /\ \A d \in Cells \ {c} : op'[d] = op[d]
      BY <1>0, <2>6
    <2>9. CoveredAt(c)' /\ PollMatchesAt(c)'
      BY <2>2, <2>3, <2>8 DEF CoveredAt, PollMatchesAt, Covered, Known
    <2>10. Data'
      BY <1>0, <2>2, <2>7, <2>8, <2>9, OneCell
    <2> QED
      BY <2>2, <2>10
  <1> QED
    BY <1>2, <1>4, <1>5, <1>6 DEF SockUpdate

(* The packet at hand points to an active cell without a poll.             *)
LEMMA AtHand ==
    ASSUME TypeOK, PacketsPointToCells, NEW t \in Threads, batch[t] # <<>>
    PROVE  /\ Head(batch[t]) \in Packet /\ Head(batch[t]).cell \in Cells
           /\ Active(Head(batch[t]).cell) /\ op[Head(batch[t]).cell] = None
           /\ \E i \in DOMAIN batch[t] : Head(batch[t]) = batch[t][i]
  <1>1. batch[t] \in Seq(Packet)
    BY DEF TypeOK
  <1>2. PICK b \in Seq(Packet) : b = batch[t]
    BY <1>1
  <1>3. /\ Head(b) \in Packet /\ Points(b, Head(b).cell)
        /\ \E y \in DOMAIN b : Head(b) = b[y]
    BY <1>2, FirstPacket
  <1>4. Head(b).cell \in Cells
    BY <1>3 DEF Packet
  <1>5. Active(Head(b).cell) /\ op[Head(b).cell] = None
    BY <1>2, <1>3, <1>4, Zenon DEF PacketsPointToCells
  <1> QED
    BY <1>2, <1>3, <1>4, <1>5

(* What its packet does to a cell, and to the report of the thread.        *)
Fed(t, p, c) ==
    \/ Drops(p) /\ cell'[c] = None /\ got' = got
    \/ /\ ~Drops(p) /\ cell'[c] # None /\ cell'[c].sock = cell[c].sock
       /\ ~cell[c].deleted /\ ~cell'[c].deleted
       /\ cell'[c].user = IF Interesting(p) # {} /\ "ONESHOT" \in cell[c].user
                          THEN {} ELSE cell[c].user
       /\ got' = [got EXCEPT ![t] = IF Interesting(p) = {} THEN @
                                   ELSE @ \cup {<<cell[c].sock, Interesting(p)>>}]

LEMMA FeedData ==
    ASSUME PortAssumption, TypeOK, Data, NEW t \in Threads, FeedOne(t),
           NEW p, p = Head(batch[t]), NEW c, c = p.cell
    PROVE  /\ Data'
           /\ c \in Cells /\ cell[c] # None
           /\ Fed(t, p, c)
           /\ \A d \in Cells \ {c} : cell'[d] = cell[d]
  <1>0. /\ QueuesSound /\ PacketsPointToCells
        /\ op \in [Cells -> {None} \cup Polls] /\ packets \in Seq(Packet)
        /\ batch \in [Threads -> Seq(Packet)]
    BY DEF Data
  <1>1. /\ batch[t] # <<>> /\ batch' = [batch EXCEPT ![t] = Tail(@)]
        /\ op' = op /\ packets' = packets
    BY DEF FeedOne, kernel
  <1>2. p \in Packet /\ c \in Cells /\ Active(c) /\ op[c] = None
    BY <1>0, <1>1, AtHand
  <1>3. /\ cell[c] # None /\ cell[c].sock \in Socks /\ cell[c].user \in Users
        /\ cell[c].deleted \in BOOLEAN
    BY <1>2, Contents DEF Active
  <1>4. CASE Drops(p)
    <2>1. Free(c) /\ got' = got
      BY <1>4 DEF FeedOne
    <2>2. /\ cell' \in [Cells -> CellType \cup {None}]
          /\ updateQ' \in Seq(Cells) /\ deletedQ' \in Seq(Cells) /\ QueuesSound'
          /\ cell'[c] = None /\ \A d \in Cells \ {c} : cell'[d] = cell[d]
          /\ \A d : Contains(updateQ', d) <=> Contains(updateQ, d) /\ d # c
      BY <1>0, <1>2, <2>1, CellFreed
    <2>3. ~Active(c)' /\ \A d \in Cells \ {c} : Active(d)' <=> Active(d)
      BY <2>2 DEF Active
    <2>4. PacketsPointToCells' /\ batch'[t] \in Seq(Packet)
      BY <1>0, <1>1, <2>3, PacketFed
    <2>5. CoveredAt(c)' /\ PollMatchesAt(c)'
      BY <2>2 DEF CoveredAt, PollMatchesAt
    <2>6. \A d \in Cells \ {c} : /\ cell'[d] = cell[d] /\ op'[d] = op[d]
                                 /\ Contains(updateQ, d) => Contains(updateQ', d)
      <3>1. \A d \in Cells \ {c} : d # c
        OBVIOUS
      <3> QED
        BY <1>1, <2>2, <3>1, Zenon
    <2>7. batch' \in [Threads -> Seq(Packet)] /\ op' \in [Cells -> {None} \cup Polls]
          /\ packets' \in Seq(Packet)
      BY <1>0, <1>1, <2>4
    <2>8. Data'
      BY <1>2, <2>2, <2>4, <2>5, <2>6, <2>7, OneCell
    <2> QED
      BY <1>2, <1>3, <1>4, <2>1, <2>2, <2>8 DEF Fed
  <1>5. CASE ~Drops(p)
    <2>1. ~cell[c].deleted
      BY <1>5 DEF Drops
    <2>2. PICK u \in Users : u = IF Interesting(p) # {} /\ "ONESHOT" \in cell[c].user
                                 THEN {} ELSE cell[c].user
      BY <1>3 DEF Users
    <2>3. /\ RequestUpdate(c) /\ deletedQ' = deletedQ
          /\ cell' = [cell EXCEPT ![c].status = "IDLE", ![c].pending = {},
                         ![c].user = IF Interesting(p) # {} /\ "ONESHOT" \in @ THEN {} ELSE @]
          /\ got' = [got EXCEPT ![t] = IF Interesting(p) = {} THEN @
                                       ELSE @ \cup {<<cell[c].sock, Interesting(p)>>}]
      BY <1>5 DEF FeedOne, Requeue
    <2>4. Becomes(c, Of(c, u, {}, "IDLE", cell[c].deleted))
      <3>1. PICK b \in BOOLEAN : b <=> Interesting(p) # {}
        OBVIOUS
      <3>2. cell' = [cell EXCEPT ![c].status = "IDLE", ![c].pending = {},
                         ![c].user = IF b /\ "ONESHOT" \in @ THEN {} ELSE @]
        BY <2>3, <3>1
      <3>3. Becomes(c, Of(c, IF b /\ "ONESHOT" \in cell[c].user THEN {} ELSE cell[c].user,
                          {}, "IDLE", cell[c].deleted))
        BY <1>2, <1>3, <3>2, Edits
      <3> QED
        BY <2>2, <3>1, <3>3
    <2>5. {} \in Users /\ "IDLE" \in Status
      BY DEF Users, Status
    <2>6. /\ cell' \in [Cells -> CellType \cup {None}]
          /\ updateQ' \in Seq(Cells) /\ deletedQ' \in Seq(Cells) /\ QueuesSound'
          /\ cell'[c] = Of(c, u, {}, "IDLE", cell[c].deleted) /\ cell'[c] # None
          /\ \A d \in Cells \ {c} :
                cell'[d] = cell[d] /\ (Contains(updateQ, d) => Contains(updateQ', d))
      <3>1. CancelUpdate(c) \/ updateQ' = updateQ \/ (RequestUpdate(c) /\ ~cell[c].deleted)
        BY <2>1, <2>3
      <3>2. deletedQ' = deletedQ
        BY <2>3
      <3> QED
        BY <1>0, <1>2, <1>3, <2>4, <2>5, <3>1, <3>2, CellKept
    <2>7. /\ cell'[c].sock = cell[c].sock /\ cell'[c].user = u
          /\ cell'[c].pending = {} /\ cell'[c].status = "IDLE" /\ cell'[c].deleted = cell[c].deleted
      BY <2>6, OfFields
    <2>8. ~Active(c)' /\ \A d \in Cells \ {c} : Active(d)' <=> Active(d)
      BY <2>6, <2>7 DEF Active
    <2>9. PacketsPointToCells' /\ batch'[t] \in Seq(Packet)
      BY <1>0, <1>1, <2>8, PacketFed
    <2>10. CoveredAt(c)'
      <3>1. ~Contains(deletedQ, c)
        BY <1>0, <1>2, <2>1, Zenon DEF QueuesSound
      <3>2. Contains(updateQ', c)
        BY <1>0, <1>2, <2>3, <3>1, Enqueued
      <3>3. Contains(updateQ, c)' <=> Contains(updateQ', c)
        BY DEF Contains
      <3> QED
        BY <3>2, <3>3 DEF CoveredAt
    <2>11. PollMatchesAt(c)'
      BY <2>7 DEF PollMatchesAt
    <2>12. batch' \in [Threads -> Seq(Packet)] /\ op' \in [Cells -> {None} \cup Polls]
           /\ packets' \in Seq(Packet)
      BY <1>0, <1>1, <2>9
    <2>13. \A d \in Cells \ {c} : /\ cell'[d] = cell[d] /\ op'[d] = op[d]
                                  /\ Contains(updateQ, d) => Contains(updateQ', d)
      BY <1>1, <2>6
    <2>14. Data'
      BY <1>2, <2>6, <2>9, <2>10, <2>11, <2>12, <2>13, OneCell
    <2> QED
      <3>1. Fed(t, p, c)
        BY <1>3, <1>5, <2>1, <2>2, <2>3, <2>6, <2>7 DEF Fed
      <3> QED
        BY <1>2, <1>3, <2>6, <2>14, <3>1
  <1> QED
    BY <1>4, <1>5

------------------------------------------------------------------------------
(* The threads. A thread has packets in hand between its return from the   *)
(* completion port and the end of their treatment, and not after a         *)
(* time-out; it holds the lock in the parts of the calls that need it.     *)

Held == {"ctl", "poll", "feed", "finish"}
Places == {"idle", "ctl", "poll", "gqcs", "back", "feed", "finish"}
Results == {"none", "events", "timeout", "error", "mistaken"}

LockHeld == \A t \in Threads : lock = t <=> pc[t] \in Held

BatchKept == \A t \in Threads :
    pc[t] \notin {"back", "feed"} \/ (pc[t] = "back" /\ result[t] = "timeout") => batch[t] = <<>>

MayResult(place, r) ==
    /\ place \in {"idle", "ctl"} => r \in {"none", "mistaken"}
    /\ place \in {"poll", "gqcs", "feed"} => r = "none"
    /\ place = "back" => r \in {"none", "timeout"}

Control ==
    /\ level \in [Socks -> SUBSET Happens] /\ closed \subseteq Socks
    /\ lock \in Threads \cup {None}
    /\ pc \in [Threads -> Places]
    /\ got \in [Threads -> SUBSET (Socks \X Users)]
    /\ result \in [Threads -> Results]
    /\ failed \in BOOLEAN /\ ctls \in 0 .. MaxCtl
    /\ LockHeld /\ BatchKept
    /\ \A t \in Threads : MayResult(pc[t], result[t])

LEMMA Types == TypeOK <=>
    /\ cell \in [Cells -> CellType \cup {None}]
    /\ updateQ \in Seq(Cells) /\ deletedQ \in Seq(Cells)
    /\ op \in [Cells -> {None} \cup Polls]
    /\ packets \in Seq(Packet)
    /\ batch \in [Threads -> Seq(Packet)]
    /\ level \in [Socks -> SUBSET Happens] /\ closed \subseteq Socks
    /\ lock \in Threads \cup {None}
    /\ pc \in [Threads -> Places]
    /\ got \in [Threads -> SUBSET (Socks \X Users)]
    /\ result \in [Threads -> Results]
    /\ failed \in BOOLEAN /\ ctls \in 0 .. MaxCtl
  BY DEF TypeOK, Places, Results

(* A thread goes to another place, or stays.                               *)
LEMMA ThreadStep ==
    ASSUME PortAssumption, Control, NEW t \in Threads, NEW x \in Places, NEW r \in Results,
           pc' = [pc EXCEPT ![t] = x], result' = [result EXCEPT ![t] = r],
           \/ lock \in {t, None} /\ lock' = (IF x \in Held THEN t ELSE None)
           \/ lock' = lock /\ (x \in Held <=> pc[t] \in Held),
           x \notin {"back", "feed"} \/ (x = "back" /\ r = "timeout") => batch'[t] = <<>>,
           \A u \in Threads \ {t} : batch'[u] = batch[u],
           MayResult(x, r),
           level' = level, closed' = closed,
           got' \in [Threads -> SUBSET (Socks \X Users)],
           failed' \in BOOLEAN, ctls' \in 0 .. MaxCtl
    PROVE  Control'
  <1>1. /\ pc'[t] = x /\ result'[t] = r
        /\ \A u \in Threads \ {t} : pc'[u] = pc[u] /\ result'[u] = result[u]
    BY DEF Control
  <1>2. pc' \in [Threads -> Places] /\ result' \in [Threads -> Results]
        /\ lock' \in Threads \cup {None}
    BY DEF Control
  <1>3. LockHeld'
    <2>1. \A u \in Threads : u # None
      BY DEF PortAssumption
    <2>2. \A u \in Threads : lock = u <=> pc[u] \in Held
      BY DEF Control, LockHeld
    <2>3. ASSUME NEW u \in Threads PROVE lock' = u <=> pc'[u] \in Held
      <3>1. CASE u = t
        BY <1>1, <2>1, <2>2, <3>1
      <3>2. CASE u # t
        BY <1>1, <2>1, <2>2, <3>2
      <3> QED
        BY <3>1, <3>2
    <2> QED
      BY <2>3 DEF LockHeld
  <1>4. BatchKept'
    <2>1. ASSUME NEW u \in Threads
          PROVE  pc'[u] \notin {"back", "feed"} \/ (pc'[u] = "back" /\ result'[u] = "timeout")
                    => batch'[u] = <<>>
      <3>1. CASE u = t
        BY <1>1, <3>1
      <3>2. CASE u # t
        BY <1>1, <3>2 DEF Control, BatchKept
      <3> QED
        BY <3>1, <3>2
    <2> QED
      BY <2>1 DEF BatchKept
  <1>5. ASSUME NEW u \in Threads PROVE MayResult(pc'[u], result'[u])
    <2>1. CASE u = t
      BY <1>1, <2>1
    <2>2. CASE u # t
      BY <1>1, <2>2 DEF Control
    <2> QED
      BY <2>1, <2>2
  <1> QED
    BY <1>2, <1>3, <1>4, <1>5 DEF Control, MayResult

(* Nothing happens to the threads.                                         *)
LEMMA ThreadsSame ==
    ASSUME Control, UNCHANGED <<lock, pc, batch, got, result, failed, ctls>>,
           level' \in [Socks -> SUBSET Happens], closed' \subseteq Socks
    PROVE  Control'
  BY DEF Control, LockHeld, BatchKept, MayResult

LEMMA LeaveControl ==
    ASSUME PortAssumption, Control, NEW t \in Threads, NEW r \in Results, Leave(t, r),
           lock \in {t, None}, batch[t] = <<>>,
           UNCHANGED <<level, closed, ctls>>, failed' \in BOOLEAN
    PROVE  Control'
  <1>1. CASE OthersPoll(t)
    <2>1. /\ pc' = [pc EXCEPT ![t] = "finish"] /\ lock' = t
          /\ result' = [result EXCEPT ![t] = r] /\ UNCHANGED <<batch, got>>
      BY <1>1 DEF Leave
    <2>2. "finish" \in Places /\ "finish" \in Held /\ MayResult("finish", r)
      BY DEF Places, Held, MayResult
    <2>3. got' \in [Threads -> SUBSET (Socks \X Users)] /\ ctls' \in 0 .. MaxCtl
      BY <2>1 DEF Control
    <2> QED
      BY <2>1, <2>2, <2>3, ThreadStep
  <1>2. CASE ~OthersPoll(t)
    <2>1. /\ pc' = [pc EXCEPT ![t] = "idle"] /\ lock' = None
          /\ result' = [result EXCEPT ![t] = "none"]
          /\ got' = [got EXCEPT ![t] = {}] /\ UNCHANGED batch
      BY <1>2 DEF Leave, Return
    <2>2. "idle" \in Places /\ "idle" \notin Held /\ MayResult("idle", "none")
          /\ "none" \in Results
      BY DEF Places, Held, MayResult, Results
    <2>3. got' \in [Threads -> SUBSET (Socks \X Users)] /\ ctls' \in 0 .. MaxCtl
      BY <2>1 DEF Control
    <2> QED
      BY <2>1, <2>2, <2>3, ThreadStep
  <1> QED
    BY <1>1, <1>2

LEMMA ReturnControl ==
    ASSUME PortAssumption, Control, NEW t \in Threads, NEW r \in {"none", "mistaken"}, Return(t, r),
           lock \in {t, None}, batch[t] = <<>>,
           UNCHANGED <<level, closed, ctls>>, failed' \in BOOLEAN
    PROVE  Control'
  <1>1. /\ pc' = [pc EXCEPT ![t] = "idle"] /\ lock' = None
        /\ result' = [result EXCEPT ![t] = r]
        /\ got' = [got EXCEPT ![t] = {}] /\ UNCHANGED batch
    BY DEF Return
  <1>2. "idle" \in Places /\ "idle" \notin Held /\ MayResult("idle", r) /\ r \in Results
    BY DEF Places, Held, MayResult, Results
  <1>3. got' \in [Threads -> SUBSET (Socks \X Users)] /\ ctls' \in 0 .. MaxCtl
    BY <1>1 DEF Control
  <1> QED
    BY <1>1, <1>2, <1>3, ThreadStep

Inv == Data /\ Control

LEMMA InvTypes == ASSUME Inv PROVE TypeOK
  BY Types DEF Inv, Data, Control

LEMMA CtlReturnsControl ==
    ASSUME PortAssumption, Control, NEW t \in Threads, CtlReturns(t)
    PROVE  Control' /\ batch' = batch
  <1>1. /\ UNCHANGED <<level, closed, batch, got, result, failed>>
        /\ lock = None /\ ctls < MaxCtl /\ ctls' = ctls + 1
    BY DEF CtlReturns, world
  <1>2. ctls' \in 0 .. MaxCtl
    BY <1>1 DEF Control, PortAssumption
  <1>3. pc[t] = "idle" /\ batch[t] = <<>> /\ result[t] \in {"none", "mistaken"}
    <2>1. pc[t] = "idle"
      BY DEF CtlReturns, Goto
    <2> QED
      BY <2>1 DEF Control, BatchKept, MayResult
  <1>4. result' = [result EXCEPT ![t] = result[t]] /\ result[t] \in Results
        /\ got' \in [Threads -> SUBSET (Socks \X Users)] /\ failed' \in BOOLEAN
    BY <1>1 DEF Control
  <1>5. CASE OthersPoll(t)
    <2>1. pc' = [pc EXCEPT ![t] = "ctl"] /\ lock' = t
      BY <1>5 DEF CtlReturns, Goto
    <2>2. "ctl" \in Places /\ "ctl" \in Held /\ MayResult("ctl", result[t])
      BY <1>3 DEF Places, Held, MayResult
    <2>3. Control'
      BY <1>1, <1>2, <1>3, <1>4, <2>1, <2>2, ThreadStep
    <2> QED
      BY <1>1, <2>3
  <1>6. CASE ~OthersPoll(t)
    <2>1. UNCHANGED <<pc, lock>>
      BY <1>6 DEF CtlReturns
    <2> QED
      BY <1>1, <1>2, <2>1, ThreadsSame DEF Control, LockHeld, BatchKept, MayResult
  <1> QED
    BY <1>5, <1>6

LEMMA EnvironmentInv == ASSUME PortAssumption, Inv, Environment PROVE Inv'
  <1>0. TypeOK /\ Data /\ Control
    BY InvTypes DEF Inv
  <1>1. ASSUME NEW c \in Cells, Complete(c) PROVE Inv'
    <2>1. Data'
      BY <1>0, <1>1, CompleteData
    <2>2. Control'
      BY <1>0, <1>1, ThreadsSame DEF Complete, world, threads, Control
    <2> QED
      BY <2>1, <2>2 DEF Inv
  <1>2. ASSUME NEW s \in Socks, Changes(s) PROVE Inv'
    <2>1. Data'
      BY <1>0, <1>2, DataSame DEF Changes, queues, kernel, threads
    <2>2. level' \in [Socks -> SUBSET Happens] /\ closed' = closed
      BY <1>0, <1>2 DEF Changes, Control
    <2>3. Control'
      BY <1>0, <1>2, <2>2, ThreadsSame DEF Changes, threads, Control
    <2> QED
      BY <2>1, <2>3 DEF Inv
  <1>3. ASSUME NEW s \in Socks, CloseSocket(s) PROVE Inv'
    <2>1. Data'
      BY <1>0, <1>3, CloseSocketData
    <2>2. level' \in [Socks -> SUBSET Happens] /\ closed' \subseteq Socks
      BY <1>0, <1>3 DEF CloseSocket, Control
    <2>3. UNCHANGED <<lock, pc, batch, got, result, failed, ctls>>
      BY <1>3 DEF CloseSocket, threads
    <2>4. Control'
      BY <1>0, <2>2, <2>3, ThreadsSame
    <2> QED
      BY <2>1, <2>4 DEF Inv
  <1> QED
    BY <1>1, <1>2, <1>3 DEF Environment

LEMMA RegisteredCell ==
    ASSUME Inv, NEW s, NEW c \in Registered(s)
    PROVE  c \in Cells /\ cell[c] # None /\ ~cell[c].deleted /\ cell[c].sock = s
  BY DEF Registered

LEMMA CtlInv == ASSUME PortAssumption, Inv, NEW t \in Threads, Ctl(t) PROVE Inv'
  <1>0. TypeOK /\ Data /\ Control
    BY InvTypes DEF Inv
  <1>1. ASSUME NEW s \in Socks, NEW want \in Wants, CtlAdd(t, s, want) PROVE Inv'
    <2>1. Control' /\ batch' = batch
      BY <1>0, <1>1, CtlReturnsControl DEF CtlAdd
    <2>2. PICK c \in Cells : /\ cell[c] = None
                             /\ cell' = [cell EXCEPT ![c] = NewCell(s, want)]
                             /\ RequestUpdate(c)
      BY <1>1 DEF CtlAdd
    <2>3. Registered(s) = {} /\ UNCHANGED <<deletedQ, op, packets>>
      BY <1>1 DEF CtlAdd, kernel
    <2>4. Data'
      BY <1>0, <2>1, <2>2, <2>3, AddData
    <2> QED
      BY <2>1, <2>4 DEF Inv
  <1>2. ASSUME NEW s \in Socks, NEW want \in Wants, CtlMod(t, s, want) PROVE Inv'
    <2>1. Control' /\ batch' = batch
      BY <1>0, <1>2, CtlReturnsControl DEF CtlMod
    <2>2. PICK c \in Registered(s) : SetEvent(c, want)
      BY <1>2 DEF CtlMod
    <2>3. UNCHANGED <<deletedQ, op, packets>>
      BY <1>2 DEF CtlMod, kernel
    <2>4. Data'
      BY <1>0, <2>1, <2>2, <2>3, RegisteredCell, SetEventData
    <2> QED
      BY <2>1, <2>4 DEF Inv
  <1>3. ASSUME NEW s \in Socks, CtlDel(t, s) PROVE Inv'
    <2>1. PICK c \in Registered(s) : Delete(c)
      BY <1>3 DEF CtlDel
    <2>2. UNCHANGED <<level, closed, lock, pc, batch, got, result, failed>>
          /\ ctls < MaxCtl /\ ctls' = ctls + 1
      BY <1>3 DEF CtlDel, world, threads
    <2>3. Data'
      BY <1>0, <2>1, <2>2, RegisteredCell, DeleteData
    <2>4. Control'
      <3>1. ctls' \in 0 .. MaxCtl
        BY <1>0, <2>2 DEF Control, PortAssumption
      <3> QED
        BY <1>0, <2>2, <3>1 DEF Control, LockHeld, BatchKept, MayResult
    <2> QED
      BY <2>3, <2>4 DEF Inv
  <1> QED
    BY <1>1, <1>2, <1>3 DEF Ctl

LEMMA UpdateInv ==
    ASSUME PortAssumption, Inv, NEW t \in Threads,
           UpdateOne(t) \/ UpdateFails(t) \/ UpdateDone(t)
    PROVE  Inv'
  <1>0. TypeOK /\ Data /\ Control /\ QueuesSound
    BY InvTypes DEF Inv, Data
  <1>1. lock = t /\ pc[t] \in {"ctl", "poll", "finish"} /\ batch[t] = <<>>
        /\ MayResult(pc[t], result[t])
        /\ result[t] \in Results /\ pc[t] \in Places
    BY <1>0 DEF UpdateOne, UpdateFails, UpdateDone, Walking, Control, BatchKept
  <1>2. CASE UpdateOne(t)
    <2>1. UNCHANGED <<level, closed, lock, pc, batch, got, ctls>>
          /\ failed' = (failed /\ updateQ' # <<>>)
      BY <1>2 DEF UpdateOne, world
    <2>2. PICK c : c = Head(updateQ)
      OBVIOUS
    <2>3. c \in Cells /\ cell[c] # None /\ ~cell[c].deleted /\ SockUpdate(c)
      BY <1>0, <1>2, <2>2, QueuedCells DEF UpdateOne
    <2>4. Data'
      BY <1>0, <2>1, <2>3, UpdateData
    <2>5. PICK r \in Results : result' = [result EXCEPT ![t] = r]
                              /\ (result[t] # "timeout" => r = result[t])
      BY <1>1, <1>2 DEF UpdateOne, Results
    <2>6. failed' \in BOOLEAN
      BY <1>0, <2>1, Zenon
    <2>7. pc' = [pc EXCEPT ![t] = pc[t]] /\ lock' = lock
      BY <1>0, <2>1 DEF Control
    <2>8. MayResult(pc[t], r) /\ pc[t] \notin {"back", "feed"}
      BY <1>1, <2>5 DEF MayResult
    <2>9. got' \in [Threads -> SUBSET (Socks \X Users)] /\ ctls' \in 0 .. MaxCtl
      BY <1>0, <2>1 DEF Control
    <2>10. Control'
      BY <1>0, <1>1, <2>1, <2>5, <2>6, <2>7, <2>8, <2>9, ThreadStep
    <2> QED
      BY <2>4, <2>10 DEF Inv
  <1>3. CASE UpdateFails(t)
    <2>1. UNCHANGED <<cell, updateQ, deletedQ, op, packets, level, closed, ctls>> /\ failed' \in BOOLEAN
      BY <1>3 DEF UpdateFails, SockUpdateFails, queues, kernel, world
    <2>2. CASE pc[t] = "poll"
      <3>1. Leave(t, "error") /\ "error" \in Results
        BY <1>3, <2>2 DEF UpdateFails, Results
      <3>2. batch' = batch
        BY <3>1 DEF Leave, Return
      <3>3. Data'
        BY <1>0, <2>1, <3>2, DataSame
      <3>4. Control'
        BY <1>0, <1>1, <2>1, <3>1, LeaveControl
      <3> QED
        BY <3>3, <3>4 DEF Inv
    <2>3. CASE pc[t] # "poll"
      <3>1. PICK r \in {"none", "mistaken"} : Return(t, r)
        BY <1>3, <2>3 DEF UpdateFails
      <3>2. batch' = batch
        BY <3>1 DEF Return
      <3>3. Data'
        BY <1>0, <2>1, <3>2, DataSame
      <3>4. Control'
        BY <1>0, <1>1, <2>1, <3>1, ReturnControl
      <3> QED
        BY <3>3, <3>4 DEF Inv
    <2> QED
      BY <2>2, <2>3
  <1>4. CASE UpdateDone(t)
    <2>1. UNCHANGED <<cell, updateQ, deletedQ, op, packets, level, closed, failed, ctls>>
      BY <1>4 DEF UpdateDone, queues, kernel, world
    <2>2. failed' \in BOOLEAN /\ ctls' \in 0 .. MaxCtl
      BY <1>0, <2>1 DEF Control
    <2>3. CASE pc[t] = "poll"
      <3>1. /\ pc' = [pc EXCEPT ![t] = "gqcs"] /\ lock' = None
            /\ UNCHANGED <<batch, got, result>>
        BY <1>4, <2>3 DEF UpdateDone, Goto
      <3>2. "gqcs" \in Places /\ "gqcs" \notin Held /\ MayResult("gqcs", result[t])
        BY <1>1, <2>3 DEF Places, Held, MayResult
      <3>3. result' = [result EXCEPT ![t] = result[t]]
            /\ got' \in [Threads -> SUBSET (Socks \X Users)]
        BY <1>0, <3>1 DEF Control
      <3>4. Control'
        BY <1>0, <1>1, <2>1, <2>2, <3>1, <3>2, <3>3, ThreadStep
      <3>5. Data'
        BY <1>0, <2>1, <3>1, DataSame
      <3> QED
        BY <3>4, <3>5 DEF Inv
    <2>4. CASE pc[t] # "poll"
      <3>1. PICK r \in {"none", "mistaken"} : Return(t, r)
        BY <1>4, <2>4 DEF UpdateDone
      <3>2. batch' = batch
        BY <3>1 DEF Return
      <3>3. Data'
        BY <1>0, <2>1, <3>2, DataSame
      <3>4. Control'
        BY <1>0, <1>1, <2>1, <2>2, <3>1, ReturnControl
      <3> QED
        BY <3>3, <3>4 DEF Inv
    <2> QED
      BY <2>3, <2>4
  <1> QED
    BY <1>2, <1>3, <1>4

(* Reports are about sockets, and events that their users ask for.         *)
LEMMA Reports ==
    ASSUME PortAssumption, Inv, NEW t \in Threads, FeedOne(t)
    PROVE  got' \in [Threads -> SUBSET (Socks \X Users)]
  <1>0. TypeOK /\ Data /\ Control
    BY InvTypes DEF Inv
  <1>1. PICK p : p = Head(batch[t])
    OBVIOUS
  <1> DEFINE c == p.cell
  <1>2. /\ c \in Cells /\ cell[c] # None
        /\ \/ got' = got
           \/ got' = [got EXCEPT ![t] = IF Interesting(p) = {} THEN @
                                        ELSE @ \cup {<<cell[c].sock, Interesting(p)>>}]
    <2>1. batch[t] # <<>> /\ PacketsPointToCells
      BY <1>0 DEF FeedOne, Data
    <2>2. c \in Cells /\ cell[c] # None
      BY <1>0, <1>1, <2>1, AtHand DEF Active
    <2>3. IF Drops(p) THEN got' = got
          ELSE got' = [got EXCEPT ![t] = IF Interesting(p) = {} THEN @
                                         ELSE @ \cup {<<cell[c].sock, Interesting(p)>>}]
      BY <1>1 DEF FeedOne
    <2> QED
      BY <2>2, <2>3
  <1>3. cell[c].sock \in Socks /\ cell[c].user \in Users
    BY <1>0, <1>2, Contents
  <1>4. PICK e \in Users : e = Interesting(p)
    BY <1>1, <1>3 DEF Interesting, Users
  <1>5. got \in [Threads -> SUBSET (Socks \X Users)]
    BY <1>0 DEF Control
  <1>6. <<cell[c].sock, e>> \in Socks \X Users
    BY <1>3
  <1> QED
    BY <1>2, <1>4, <1>5, <1>6

LEMMA WaitInv ==
    ASSUME PortAssumption, Inv, NEW t \in Threads,
           Wait(t) \/ TimeOut(t) \/ Dequeue(t) \/ Back(t) \/ FeedOne(t) \/ FeedDone(t)
    PROVE  Inv'
  <1>0. /\ TypeOK /\ Data /\ Control
        /\ result \in [Threads -> Results] /\ pc \in [Threads -> Places]
        /\ got \in [Threads -> SUBSET (Socks \X Users)] /\ batch \in [Threads -> Seq(Packet)]
        /\ failed \in BOOLEAN /\ ctls \in 0 .. MaxCtl
        /\ LockHeld /\ BatchKept /\ MayResult(pc[t], result[t])
        /\ result = [result EXCEPT ![t] = result[t]]
        /\ t # None
    BY InvTypes DEF Inv, Control, Data, PortAssumption
  <1>1. CASE Wait(t)
    <2>1. Data'
      BY <1>0, <1>1, DataSame DEF Wait, queues, kernel
    <2>2. /\ pc' = [pc EXCEPT ![t] = "poll"] /\ pc[t] = "idle" /\ lock = None /\ lock' = t
          /\ result' = [result EXCEPT ![t] = "none"]
          /\ UNCHANGED <<level, closed, batch, got, failed, ctls>>
      BY <1>1 DEF Wait, Goto, world
    <2>3. "poll" \in Places /\ "poll" \in Held /\ MayResult("poll", "none") /\ "none" \in Results
      BY DEF Places, Held, MayResult, Results
    <2>4. batch[t] = <<>>
      BY <1>0, <2>2 DEF BatchKept
    <2>5. Control'
      BY <1>0, <2>2, <2>3, <2>4, ThreadStep
    <2> QED
      BY <2>1, <2>5 DEF Inv
  <1>2. CASE TimeOut(t)
    <2>1. Data'
      BY <1>0, <1>2, DataSame DEF TimeOut, queues, kernel
    <2>2. /\ pc' = [pc EXCEPT ![t] = "back"] /\ pc[t] = "gqcs" /\ lock' = lock
          /\ result' = [result EXCEPT ![t] = "timeout"]
          /\ UNCHANGED <<level, closed, batch, got, failed, ctls>>
      BY <1>2 DEF TimeOut, Goto, world
    <2>3. /\ "back" \in Places /\ "back" \notin Held /\ "gqcs" \notin Held
          /\ MayResult("back", "timeout") /\ "timeout" \in Results
      BY DEF Places, Held, MayResult, Results
    <2>4. batch[t] = <<>>
      BY <1>0, <2>2 DEF BatchKept
    <2>5. Control'
      BY <1>0, <2>2, <2>3, <2>4, ThreadStep
    <2> QED
      BY <2>1, <2>5 DEF Inv
  <1>3. CASE Dequeue(t)
    <2>1. /\ pc' = [pc EXCEPT ![t] = "back"] /\ pc[t] = "gqcs" /\ lock' = lock
          /\ UNCHANGED <<level, closed, got, result, failed, ctls>>
          /\ \A u \in Threads \ {t} : batch'[u] = batch[u]
      BY <1>0, <1>3 DEF Dequeue, Goto, world
    <2>2. batch[t] = <<>> /\ result[t] = "none"
      BY <1>0, <2>1 DEF BatchKept, MayResult
    <2>3. Data'
      BY <1>0, <1>3, <2>2, DequeueData
    <2>4. /\ "back" \in Places /\ "back" \notin Held /\ "gqcs" \notin Held
          /\ MayResult("back", "none") /\ "none" \in Results
      BY DEF Places, Held, MayResult, Results
    <2>5. Control'
      BY <1>0, <2>1, <2>2, <2>4, ThreadStep
    <2> QED
      BY <2>3, <2>5 DEF Inv
  <1>4. CASE Back(t)
    <2>1. /\ lock = None /\ pc[t] = "back"
          /\ UNCHANGED <<cell, updateQ, deletedQ, op, packets, level, closed, failed, ctls>>
      BY <1>4 DEF Back, queues, kernel, world
    <2>2. CASE result[t] = "timeout"
      <3>1. Leave(t, "timeout") /\ "timeout" \in Results /\ batch[t] = <<>>
        BY <1>0, <1>4, <2>1, <2>2 DEF Back, Results, BatchKept
      <3>2. batch' = batch
        BY <3>1 DEF Leave, Return
      <3>3. Data'
        BY <1>0, <2>1, <3>2, DataSame
      <3>4. Control'
        BY <1>0, <2>1, <3>1, LeaveControl
      <3> QED
        BY <3>3, <3>4 DEF Inv
    <2>3. CASE result[t] # "timeout"
      <3>1. pc' = [pc EXCEPT ![t] = "feed"] /\ lock' = t /\ UNCHANGED <<batch, got, result>>
        BY <1>4, <2>3 DEF Back, Goto
      <3>2. result[t] = "none"
        BY <1>0, <2>1, <2>3 DEF MayResult
      <3>3. "feed" \in Places /\ "feed" \in Held /\ MayResult("feed", "none") /\ "none" \in Results
        BY DEF Places, Held, MayResult, Results
      <3>4. Data'
        BY <1>0, <2>1, <3>1, DataSame
      <3>5. Control'
        BY <1>0, <2>1, <3>1, <3>2, <3>3, ThreadStep
      <3> QED
        BY <3>4, <3>5 DEF Inv
    <2> QED
      BY <2>2, <2>3
  <1>5. CASE FeedOne(t)
    <2>1. Data'
      BY <1>0, <1>5, FeedData
    <2>2. /\ pc[t] = "feed" /\ UNCHANGED <<level, closed, lock, pc, result, failed, ctls>>
          /\ \A u \in Threads \ {t} : batch'[u] = batch[u]
      BY <1>0, <1>5 DEF FeedOne, world
    <2>3. got' \in [Threads -> SUBSET (Socks \X Users)]
      BY <1>5, Reports
    <2>4. /\ pc' = [pc EXCEPT ![t] = "feed"] /\ result' = [result EXCEPT ![t] = result[t]]
          /\ result[t] \in Results /\ MayResult("feed", result[t])
      BY <1>0, <2>2
    <2>5. "feed" \in Places
      BY DEF Places
    <2>6. Control'
      BY <1>0, <2>2, <2>3, <2>4, <2>5, ThreadStep
    <2> QED
      BY <2>1, <2>6 DEF Inv
  <1>6. CASE FeedDone(t)
    <2>1. /\ pc[t] = "feed" /\ batch[t] = <<>>
          /\ UNCHANGED <<cell, updateQ, deletedQ, op, packets, level, closed, failed, ctls>>
      BY <1>6 DEF FeedDone, queues, kernel, world
    <2>2. lock = t
      BY <1>0, <2>1 DEF LockHeld, Held
    <2>3. CASE \E r \in {"events", "none"} : Leave(t, r)
      <3>1. PICK r \in Results : Leave(t, r)
        BY <2>3 DEF Results
      <3>2. batch' = batch
        BY <3>1 DEF Leave, Return
      <3>3. Data'
        BY <1>0, <2>1, <3>2, DataSame
      <3>4. Control'
        BY <1>0, <2>1, <2>2, <3>1, LeaveControl
      <3> QED
        BY <3>3, <3>4 DEF Inv
    <2>4. CASE pc' = [pc EXCEPT ![t] = "poll"] /\ UNCHANGED <<lock, batch, got, result>>
      <3>1. result[t] = "none"
        BY <1>0, <2>1 DEF MayResult
      <3>2. "poll" \in Places /\ "poll" \in Held /\ MayResult("poll", "none") /\ "none" \in Results
        BY DEF Places, Held, MayResult, Results
      <3>3. Data'
        BY <1>0, <2>1, <2>4, DataSame
      <3>4. Control'
        BY <1>0, <2>1, <2>2, <2>4, <3>1, <3>2, ThreadStep
      <3> QED
        BY <3>3, <3>4 DEF Inv
    <2> QED
      BY <1>6, <2>3, <2>4 DEF FeedDone, Goto
  <1> QED
    BY <1>1, <1>2, <1>3, <1>4, <1>5, <1>6

LEMMA StepInv == ASSUME PortAssumption, Inv, [Next]_vars PROVE Inv'
  <1>1. CASE Environment
    BY <1>1, EnvironmentInv
  <1>2. ASSUME NEW t \in Threads, Ctl(t) \/ Wait(t) \/ Proceed(t) \/ TimeOut(t) PROVE Inv'
    BY <1>2, CtlInv, UpdateInv, WaitInv DEF Proceed
  <1>3. CASE UNCHANGED vars
    <2>1. UNCHANGED <<cell, updateQ, deletedQ, op, packets, batch>>
      BY <1>3 DEF vars, queues, kernel, threads
    <2>2. UNCHANGED <<level, closed, lock, pc, batch, got, result, failed, ctls>>
      BY <1>3 DEF vars, world, threads
    <2>3. Data'
      BY <2>1, DataSame DEF Inv
    <2>4. Control'
      BY <2>2, ThreadsSame DEF Inv, Control
    <2> QED
      BY <2>3, <2>4 DEF Inv
  <1> QED
    BY <1>1, <1>2, <1>3 DEF Next

LEMMA InitInv == ASSUME PortAssumption, Init PROVE Inv
  <1>1. /\ <<>> \in Seq(Cells) /\ <<>> \in Seq(Packet)
        /\ AtMostOnce(<<>>) /\ \A c : ~Points(<<>>, c)
    BY NoPackets, EmptySeq
  <1>2. /\ IsInjective(<<>>) /\ \A c : ~Contains(<<>>, c)
    <2>1. DOMAIN <<>> = {} /\ Len(<<>>) = 0 /\ 1 .. 0 = {}
      BY EmptySeq
    <2> QED
      BY <2>1 DEF IsInjective, Contains
  <1>3. \A c \in Cells : cell[c] = None /\ op[c] = None
    BY DEF Init
  <1>4. \A t \in Threads : batch[t] = <<>> /\ pc[t] = "idle" /\ result[t] = "none"
    BY DEF Init
  <1>5. PacketsPointToCells
    <2>1. packets = <<>>
      BY DEF Init
    <2> QED
      BY <1>1, <1>3, <1>4, <2>1, Zenon DEF PacketsPointToCells, Active
  <1>6. QueuesSound
    <2>1. updateQ = <<>> /\ deletedQ = <<>>
      BY DEF Init
    <2> QED
      BY <1>2, <1>3, <2>1, Zenon DEF QueuesSound
  <1>7. \A c \in Cells : CoveredAt(c) /\ PollMatchesAt(c)
    BY <1>3, Zenon DEF CoveredAt, PollMatchesAt
  <1>8. Data
    <2>1. /\ cell \in [Cells -> CellType \cup {None}]
          /\ op \in [Cells -> {None} \cup Polls]
          /\ batch \in [Threads -> Seq(Packet)]
      BY <1>1 DEF Init
    <2>2. updateQ = <<>> /\ deletedQ = <<>> /\ packets = <<>>
      BY DEF Init
    <2> QED
      BY <1>1, <1>5, <1>6, <1>7, <2>1, <2>2 DEF Data
  <1>9. Control
    <2>1. LockHeld
      BY <1>4 DEF LockHeld, Held, Init, PortAssumption
    <2>2. BatchKept
      BY <1>4 DEF BatchKept
    <2>3. \A t \in Threads : MayResult(pc[t], result[t])
      BY <1>4 DEF MayResult
    <2>4. /\ level \in [Socks -> SUBSET Happens] /\ closed \subseteq Socks
          /\ lock \in Threads \cup {None}
          /\ pc \in [Threads -> Places]
          /\ result \in [Threads -> Results]
          /\ failed \in BOOLEAN
      BY DEF Init, Places, Results
    <2>5. got \in [Threads -> SUBSET (Socks \X Users)]
      BY DEF Init
    <2>6. ctls \in 0 .. MaxCtl
      BY DEF Init, PortAssumption
    <2> QED
      BY <2>1, <2>2, <2>3, <2>4, <2>5, <2>6 DEF Control
  <1> QED
    BY <1>8, <1>9 DEF Inv

(* The cells of a port are sound whatever its users and the driver do: a   *)
(* completion packet points to a sock_state that is still allocated and    *)
(* waits for it, and a sock_state is in the queue it belongs to and in no   *)
(* other.                                                                  *)
THEOREM CellsAreSound == ASSUME PortAssumption PROVE Spec => []CellsSound
  <1>1. Init => Inv
    BY InitInv
  <1>2. Inv /\ [Next]_vars => Inv'
    BY StepInv
  <1>3. Inv => CellsSound
    BY InvTypes DEF Inv, Data, CellsSound
  <1> QED
    BY <1>1, <1>2, <1>3, PTL DEF Spec

------------------------------------------------------------------------------
(* Waiting threads. A time-out comes when nobody is in the lock, so that   *)
(* its thread finds no socket that waits for an update, if the driver has  *)
(* done its work; and nobody adds one before the thread leaves the lock.   *)

TimeoutsSubmitNothing == \A t \in Threads :
    pc[t] = "finish" /\ result[t] = "timeout" => updateQ = <<>> \/ failed

Wake == PollersSeeAllSockets /\ TimeoutsSubmitNothing

(* The lock is taken: nothing is asked of those who wait.                  *)
LEMMA LockedWake ==
    ASSUME PortAssumption, NEW t \in Threads, lock' = t, TimeoutsSubmitNothing'
    PROVE  Wake'
  BY DEF Wake, PollersSeeAllSockets, PortAssumption

LEMMA LeaveWake ==
    ASSUME PortAssumption, Inv, Wake, NEW t \in Threads,
           NEW r \in {"none", "events", "timeout", "error"}, Leave(t, r),
           updateQ' = updateQ, failed' = failed,
           r = "timeout" => updateQ = <<>> \/ failed
    PROVE  Wake'
  <1>0. /\ pc \in [Threads -> Places] /\ result \in [Threads -> Results] /\ t # None
    BY DEF Inv, Control, PortAssumption
  <1>1. CASE OthersPoll(t)
    <2>1. /\ pc' = [pc EXCEPT ![t] = "finish"] /\ lock' = t
          /\ result' = [result EXCEPT ![t] = r]
      BY <1>1 DEF Leave
    <2>2. TimeoutsSubmitNothing'
      BY <1>0, <2>1 DEF Wake, TimeoutsSubmitNothing
    <2> QED
      BY <2>1, <2>2, LockedWake
  <1>2. CASE ~OthersPoll(t)
    <2>1. /\ pc' = [pc EXCEPT ![t] = "idle"] /\ result' = [result EXCEPT ![t] = "none"]
      BY <1>2 DEF Leave, Return
    <2>2. \A u \in Threads : pc'[u] \notin {"gqcs", "back"}
      BY <1>0, <1>2, <2>1 DEF OthersPoll
    <2>3. TimeoutsSubmitNothing'
      BY <1>0, <2>1 DEF Wake, TimeoutsSubmitNothing
    <2> QED
      BY <2>2, <2>3 DEF Wake, PollersSeeAllSockets
  <1> QED
    BY <1>1, <1>2

LEMMA SameWake ==
    ASSUME Wake, UNCHANGED <<updateQ, lock, pc, result, failed>>
    PROVE  Wake'
  BY DEF Wake, PollersSeeAllSockets, TimeoutsSubmitNothing

LEMMA EnvironmentWake == ASSUME Wake, Environment PROVE Wake'
  <1>1. UNCHANGED <<updateQ, lock, pc, result, failed>>
    BY DEF Environment, Complete, Changes, CloseSocket, queues, threads
  <1> QED
    BY <1>1, SameWake

(* Sockets change while the lock is free: the thread that changes them     *)
(* keeps it, if anyone waits.                                              *)
LEMMA CtlWake == ASSUME PortAssumption, Inv, Wake, NEW t \in Threads, Ctl(t) PROVE Wake'
  <1>0. /\ pc \in [Threads -> Places] /\ lock = None /\ pc[t] = "idle"
        /\ UNCHANGED <<result, failed>> /\ t # None
        /\ \A u \in Threads : pc[u] # "finish"
    <2>1. lock = None /\ pc[t] = "idle" /\ UNCHANGED <<result, failed>>
      BY DEF Ctl, CtlDel, CtlAdd, CtlMod, CtlReturns, Goto, threads
    <2>2. pc \in [Threads -> Places] /\ t # None /\ LockHeld /\ \A u \in Threads : u # None
      BY DEF Inv, Control, PortAssumption
    <2> QED
      BY <2>1, <2>2 DEF LockHeld, Held
  <1>1. CASE OthersPoll(t) /\ CtlReturns(t)
    <2>1. pc' = [pc EXCEPT ![t] = "ctl"] /\ lock' = t
      BY <1>1 DEF CtlReturns, Goto
    <2>2. TimeoutsSubmitNothing'
      BY <1>0, <2>1 DEF Wake, TimeoutsSubmitNothing
    <2> QED
      BY <2>1, <2>2, LockedWake
  <1>2. CASE ~OthersPoll(t) /\ CtlReturns(t)
    <2>1. UNCHANGED <<pc, lock>>
      BY <1>2 DEF CtlReturns
    <2>2. \A u \in Threads : pc'[u] \notin {"gqcs", "back"}
      BY <1>0, <1>2, <2>1 DEF OthersPoll
    <2>3. TimeoutsSubmitNothing'
      BY <1>0, <2>1 DEF Wake, TimeoutsSubmitNothing
    <2> QED
      BY <2>2, <2>3 DEF Wake, PollersSeeAllSockets
  <1>3. ASSUME NEW s \in Socks, CtlDel(t, s) PROVE Wake'
    <2>1. UNCHANGED <<lock, pc, result, failed>>
      BY <1>3 DEF CtlDel, threads
    <2>2. PICK c \in Registered(s) : CancelUpdate(c)
      BY <1>3 DEF CtlDel, Delete, Free
    <2>3. updateQ = <<>> => updateQ' = <<>>
      <3>1. ~Contains(<<>>, c)
        BY EmptySeq DEF Contains
      <3> QED
        BY <2>2, <3>1 DEF CancelUpdate, Without
    <2> QED
      BY <2>1, <2>3 DEF Wake, PollersSeeAllSockets, TimeoutsSubmitNothing
  <1> QED
    BY <1>1, <1>2, <1>3 DEF Ctl, CtlAdd, CtlMod

LEMMA UpdateWake ==
    ASSUME PortAssumption, Inv, Wake, NEW t \in Threads,
           UpdateOne(t) \/ UpdateFails(t) \/ UpdateDone(t)
    PROVE  Wake'
  <1>0. /\ pc \in [Threads -> Places] /\ result \in [Threads -> Results]
        /\ lock = t /\ t # None /\ pc[t] \in {"ctl", "poll", "finish"}
        /\ MayResult(pc[t], result[t])
        /\ \A u \in Threads \ {t} : pc[u] # "finish"
    <2>1. lock = t /\ pc[t] \in {"ctl", "poll", "finish"}
      BY DEF UpdateOne, UpdateFails, UpdateDone, Walking
    <2>2. /\ pc \in [Threads -> Places] /\ result \in [Threads -> Results]
          /\ LockHeld /\ MayResult(pc[t], result[t]) /\ t # None
      BY DEF Inv, Control, PortAssumption
    <2> QED
      BY <2>1, <2>2 DEF LockHeld, Held
  <1>1. CASE UpdateOne(t)
    <2>1. /\ updateQ # <<>> /\ UNCHANGED <<lock, pc>> /\ (failed' = (failed /\ updateQ' # <<>>))
          /\ result' = [result EXCEPT ![t] = IF @ = "timeout" /\ op' # op THEN "mistaken" ELSE @]
      BY <1>1 DEF UpdateOne
    <2>2. failed' => failed
      BY <2>1, Zenon
    <2>3. TimeoutsSubmitNothing'
      <3>1. updateQ' = <<>> \/ (failed => failed')
        BY <2>1, Zenon
      <3>2. pc[t] = "finish" /\ result'[t] = "timeout" => failed
        BY <1>0, <2>1 DEF Wake, TimeoutsSubmitNothing
      <3> QED
        BY <1>0, <2>1, <3>1, <3>2 DEF TimeoutsSubmitNothing
    <2> QED
      BY <1>0, <2>1, <2>3, LockedWake
  <1>2. CASE UpdateFails(t)
    BY <1>2 DEF UpdateFails, Wake, PollersSeeAllSockets, TimeoutsSubmitNothing
  <1>3. CASE UpdateDone(t)
    <2>1. updateQ = <<>> /\ updateQ' = <<>> /\ failed' = failed
      BY <1>3 DEF UpdateDone, queues
    <2>2. CASE pc[t] = "poll"
      <3>1. UNCHANGED result
        BY <1>3, <2>2 DEF UpdateDone
      <3> QED
        BY <2>1, <3>1 DEF Wake, PollersSeeAllSockets, TimeoutsSubmitNothing
    <2>3. CASE pc[t] # "poll"
      BY <2>1 DEF Wake, PollersSeeAllSockets, TimeoutsSubmitNothing
    <2> QED
      BY <2>2, <2>3
  <1> QED
    BY <1>1, <1>2, <1>3

LEMMA WaitWake ==
    ASSUME PortAssumption, Inv, Wake, NEW t \in Threads,
           Wait(t) \/ TimeOut(t) \/ Dequeue(t) \/ Back(t) \/ FeedOne(t) \/ FeedDone(t)
    PROVE  Wake'
  <1>0. /\ pc \in [Threads -> Places] /\ result \in [Threads -> Results]
        /\ LockHeld /\ MayResult(pc[t], result[t])
        /\ t # None
    BY DEF Inv, Control, PortAssumption
  <1>1. CASE Wait(t)
    <2>1. /\ lock' = t /\ pc' = [pc EXCEPT ![t] = "poll"]
          /\ result' = [result EXCEPT ![t] = "none"] /\ UNCHANGED <<updateQ, failed>>
      BY <1>1 DEF Wait, Goto, queues
    <2>2. TimeoutsSubmitNothing'
      BY <1>0, <2>1 DEF Wake, TimeoutsSubmitNothing
    <2> QED
      BY <2>1, <2>2, LockedWake
  <1>2. CASE TimeOut(t)
    <2>1. /\ pc[t] = "gqcs" /\ pc' = [pc EXCEPT ![t] = "back"]
          /\ result' = [result EXCEPT ![t] = "timeout"] /\ UNCHANGED <<updateQ, lock, failed>>
      BY <1>2 DEF TimeOut, Goto, queues
    <2> QED
      BY <1>0, <2>1 DEF Wake, PollersSeeAllSockets, TimeoutsSubmitNothing
  <1>3. CASE Dequeue(t)
    <2>1. /\ pc[t] = "gqcs" /\ pc' = [pc EXCEPT ![t] = "back"]
          /\ UNCHANGED <<updateQ, lock, result, failed>>
      BY <1>3 DEF Dequeue, Goto, queues
    <2> QED
      BY <1>0, <2>1 DEF Wake, PollersSeeAllSockets, TimeoutsSubmitNothing
  <1>4. CASE Back(t)
    <2>1. lock = None /\ pc[t] = "back" /\ UNCHANGED <<updateQ, failed>>
      BY <1>4 DEF Back, queues
    <2>2. CASE result[t] = "timeout"
      <3>1. updateQ = <<>> \/ failed
        BY <2>1 DEF Wake, PollersSeeAllSockets
      <3> QED
        BY <1>4, <2>1, <2>2, <3>1, LeaveWake DEF Back
    <2>3. CASE result[t] # "timeout"
      <3>1. lock' = t /\ pc' = [pc EXCEPT ![t] = "feed"] /\ UNCHANGED result
        BY <1>4, <2>3 DEF Back, Goto
      <3>2. TimeoutsSubmitNothing'
        BY <1>0, <2>1, <3>1 DEF Wake, TimeoutsSubmitNothing
      <3> QED
        BY <3>1, <3>2, LockedWake
    <2> QED
      BY <2>2, <2>3
  <1>5. CASE FeedOne(t)
    <2>1. pc[t] = "feed" /\ UNCHANGED <<lock, pc, result, failed>>
      BY <1>5 DEF FeedOne
    <2>2. lock = t /\ \A u \in Threads : pc[u] # "finish"
      BY <1>0, <2>1 DEF LockHeld, Held
    <2>3. TimeoutsSubmitNothing'
      BY <2>1, <2>2 DEF Wake, TimeoutsSubmitNothing
    <2> QED
      BY <2>1, <2>2, <2>3, LockedWake
  <1>6. CASE FeedDone(t)
    <2>1. pc[t] = "feed" /\ UNCHANGED <<updateQ, failed>>
      BY <1>6 DEF FeedDone, queues
    <2>2. CASE \E r \in {"events", "none"} : Leave(t, r)
      BY <2>1, <2>2, LeaveWake
    <2>3. CASE pc' = [pc EXCEPT ![t] = "poll"] /\ UNCHANGED <<lock, result>>
      <3>1. lock' = t
        BY <1>0, <2>1, <2>3 DEF LockHeld, Held
      <3>2. TimeoutsSubmitNothing'
        BY <1>0, <2>1, <2>3 DEF Wake, TimeoutsSubmitNothing
      <3> QED
        BY <3>1, <3>2, LockedWake
    <2> QED
      BY <1>6, <2>2, <2>3 DEF FeedDone, Goto
  <1> QED
    BY <1>1, <1>2, <1>3, <1>4, <1>5, <1>6

(* The polls of the cells nobody looks at cover what their users ask for.  *)
LEMMA Interested == ASSUME PortAssumption, Inv PROVE InterestCovered
  <1> SUFFICES ASSUME NEW c \in Cells, cell[c] # None, ~cell[c].deleted, ~Contains(updateQ, c)
               PROVE  \/ cell[c].status = "PENDING" /\ Covered(c)
                         /\ (op[c] # None => ToAfd(cell[c].user) \subseteq op[c])
                      \/ cell[c].status = "CANCELLED"
    BY DEF InterestCovered
  <1>1. \/ cell[c].status = "PENDING" /\ Covered(c)
        \/ cell[c].status = "CANCELLED"
    BY DEF Inv, Data, CoveredAt
  <1>2. ASSUME cell[c].status = "PENDING", Covered(c), op[c] # None
        PROVE  ToAfd(cell[c].user) \subseteq op[c]
    <2>1. op[c] = ToAfd(cell[c].pending)
      BY <1>2 DEF Inv, Data, PollMatchesAt
    <2> QED
      BY <1>2, <2>1, Monotone DEF Covered
  <1> QED
    BY <1>1, <1>2

(* A thread whose wait has timed out finds a poll to submit for others     *)
(* only after the driver has refused one.                                  *)
LEMMA NoMistake ==
    ASSUME PortAssumption, Inv, Wake, [Next]_vars, NEW t \in Threads, Mistakes(t)
    PROVE  failed
  <1>0. /\ pc \in [Threads -> Places] /\ result \in [Threads -> Results]
        /\ MayResult(pc[t], result[t])
    BY DEF Inv, Control
  <1>1. CASE UNCHANGED result
    BY <1>1 DEF Mistakes
  <1>2. ASSUME NEW u \in Threads, Wait(u) \/ TimeOut(u) PROVE FALSE
    BY <1>0, <1>2 DEF Mistakes, Wait, TimeOut
  <1>3. ASSUME NEW u \in Threads, NEW r \in {"none", "events", "timeout", "error"}, Leave(u, r)
        PROVE  FALSE
    BY <1>0, <1>3 DEF Mistakes, Leave, Return
  <1>4. ASSUME NEW u \in Threads, UpdateOne(u) PROVE failed
    <2>1. updateQ # <<>> /\ pc[u] \in {"ctl", "poll", "finish"}
      BY <1>4 DEF UpdateOne, Walking
    <2>2. u = t /\ result[t] = "timeout"
      BY <1>0, <1>4 DEF Mistakes, UpdateOne
    <2> QED
      BY <1>0, <2>1, <2>2 DEF MayResult, Wake, TimeoutsSubmitNothing
  <1>5. ASSUME NEW u \in Threads, UpdateFails(u) PROVE failed
    <2>1. updateQ # <<>> /\ pc[u] \in {"ctl", "poll", "finish"}
      BY <1>5 DEF UpdateFails, Walking
    <2>2. u = t /\ result[t] = "timeout"
      BY <1>0, <1>3, <1>5 DEF Mistakes, UpdateFails, Return
    <2> QED
      BY <1>0, <2>1, <2>2 DEF MayResult, Wake, TimeoutsSubmitNothing
  <1>6. ASSUME NEW u \in Threads, UpdateDone(u) PROVE FALSE
    BY <1>0, <1>6 DEF Mistakes, UpdateDone, Return
  <1>7. ASSUME NEW u \in Threads, Dequeue(u) \/ FeedOne(u) \/ Ctl(u) PROVE UNCHANGED result
    BY <1>7 DEF Dequeue, FeedOne, Ctl, CtlAdd, CtlMod, CtlDel, CtlReturns, threads
  <1>8. ASSUME NEW u \in Threads, Back(u) \/ FeedDone(u)
        PROVE  UNCHANGED result \/ \E r \in {"none", "events", "timeout", "error"} : Leave(u, r)
    BY <1>8 DEF Back, FeedDone
  <1>9. CASE Environment \/ UNCHANGED vars
    BY <1>1, <1>9 DEF Environment, Complete, Changes, CloseSocket, vars, threads
  <1> QED
    BY <1>1, <1>2, <1>3, <1>4, <1>5, <1>6, <1>7, <1>8, <1>9 DEF Next, Proceed

(* Threads that wait see every change of the set, and a time-out is not    *)
(* taken for an error, whatever the number of threads and sockets.         *)
THEOREM EventsReach == ASSUME PortAssumption PROVE Spec => EventsReachWaiters
  <1>1. Init => Inv /\ Wake
    <2>1. Init => Wake
      BY DEF Init, Wake, PollersSeeAllSockets, TimeoutsSubmitNothing
    <2> QED
      BY <2>1, InitInv
  <1>2. Inv /\ Wake /\ [Next]_vars => (Inv /\ Wake)'
    <2> SUFFICES ASSUME Inv, Wake, [Next]_vars PROVE Inv' /\ Wake'
      OBVIOUS
    <2>1. CASE Environment
      BY <2>1, EnvironmentWake, StepInv
    <2>2. ASSUME NEW t \in Threads, Ctl(t) \/ Wait(t) \/ Proceed(t) \/ TimeOut(t) PROVE Wake'
      BY <2>2, CtlWake, UpdateWake, WaitWake DEF Proceed
    <2>3. CASE UNCHANGED vars
      <3>1. UNCHANGED <<updateQ, lock, pc, result, failed>>
        BY <2>3 DEF vars, queues, threads
      <3> QED
        BY <3>1, SameWake, StepInv
    <2> QED
      BY <2>1, <2>2, <2>3, StepInv DEF Next
  <1>3. Inv /\ Wake => InterestCovered /\ PollersSeeAllSockets
    BY Interested DEF Wake
  <1>4. Inv /\ Wake /\ [Next]_vars => [\A t \in Threads : Mistakes(t) => failed]_vars
    BY NoMistake
  <1> QED
    BY <1>1, <1>2, <1>3, <1>4, PTL DEF Spec, EventsReachWaiters, TimeoutReturnsZero

------------------------------------------------------------------------------
(* A packet that says a socket has been closed is right.                   *)

InFlight(p) == \/ \E i \in DOMAIN packets : p = packets[i]
               \/ \E t \in Threads : \E i \in DOMAIN batch[t] : p = batch[t][i]

ToldOfClosed == \A p \in Packet :
    InFlight(p) /\ "LOCAL_CLOSE" \in p.afd => cell[p.cell].sock \in closed

SameSocks == \A c \in Cells : cell[c] # None /\ cell'[c] # None => cell'[c].sock = cell[c].sock

LEMMA ToldStep ==
    ASSUME ToldOfClosed, PacketsPointToCells, PacketsPointToCells', SameSocks,
           closed \subseteq closed',
           \A p \in Packet : InFlight(p)' =>
              \/ InFlight(p) \/ "LOCAL_CLOSE" \notin p.afd \/ cell'[p.cell].sock \in closed'
    PROVE  ToldOfClosed'
  <1> SUFFICES ASSUME NEW p \in Packet, InFlight(p)', "LOCAL_CLOSE" \in p.afd
               PROVE  cell'[p.cell].sock \in closed'
    BY Zenon DEF ToldOfClosed
  <1>1. p.cell \in Cells
    BY DEF Packet
  <1>2. ASSUME InFlight(p) PROVE cell'[p.cell].sock \in closed'
    <2>1. cell[p.cell] # None /\ cell[p.cell].sock \in closed
      <3>1. Points(packets, p.cell) \/ \E t \in Threads : Points(batch[t], p.cell)
        BY <1>2 DEF InFlight, Points
      <3> QED
        BY <1>1, <1>2, <3>1, Zenon DEF PacketsPointToCells, Active, ToldOfClosed
    <2>2. Points(packets, p.cell)' \/ \E t \in Threads : Points(batch[t], p.cell)'
      BY DEF InFlight, Points
    <2>3. cell'[p.cell] # None
      BY <1>1, <2>2, Zenon DEF PacketsPointToCells, Active
    <2> QED
      BY <1>1, <2>1, <2>3 DEF SameSocks
  <1> QED
    BY <1>2

LEMMA SameFlight ==
    ASSUME UNCHANGED <<packets, batch>>
    PROVE  \A p : InFlight(p)' <=> InFlight(p)
  BY DEF InFlight

LEMMA AppendFlight ==
    ASSUME packets \in Seq(Packet), NEW q \in Packet, packets' = Append(packets, q), batch' = batch
    PROVE  \A p : InFlight(p)' => InFlight(p) \/ p = q
  <1> SUFFICES ASSUME NEW p, InFlight(p)', p # q PROVE InFlight(p)
    OBVIOUS
  <1>1. CASE \E i \in DOMAIN packets' : p = packets'[i]
    <2>1. PICK i \in DOMAIN Append(packets, q) : p = Append(packets, q)[i]
      BY <1>1
    <2>2. (\E y \in DOMAIN packets : Append(packets, q)[i] = packets[y]) \/ Append(packets, q)[i] = q
      BY <2>1, AppendPacket
    <2> QED
      BY <2>1, <2>2 DEF InFlight
  <1>2. CASE \E t \in Threads : \E i \in DOMAIN batch'[t] : p = batch'[t][i]
    BY <1>2 DEF InFlight
  <1> QED
    BY <1>1, <1>2 DEF InFlight

LEMMA CancelFlight ==
    ASSUME packets \in Seq(Packet), NEW c \in Cells, afd_cancel_poll(c), batch' = batch
    PROVE  \A p : InFlight(p)' => InFlight(p) \/ "LOCAL_CLOSE" \notin p.afd
  <1>1. CASE op[c] = None
    BY <1>1, SameFlight DEF afd_cancel_poll, kernel
  <1>2. CASE op[c] # None
    <2>1. packets' = Append(packets, Answer(c, "cancelled", {}))
      BY <1>2 DEF afd_cancel_poll
    <2>2. Answer(c, "cancelled", {}) \in Packet /\ Answer(c, "cancelled", {}).afd = {}
      BY DEF Answer, Packet
    <2>3. \A p : InFlight(p)' => InFlight(p) \/ p = Answer(c, "cancelled", {})
      BY <2>1, <2>2, AppendFlight
    <2> QED
      BY <2>2, <2>3
  <1> QED
    BY <1>1, <1>2

(* Taking packets from the port, and treating one, adds none.              *)
LEMMA TakenFlight ==
    ASSUME TypeOK, PacketsPointToCells, NEW t \in Threads, batch[t] = <<>>, Dequeue(t), PortAssumption
    PROVE  \A p : InFlight(p)' => InFlight(p)
  <1>1. packets \in Seq(Packet) /\ batch \in [Threads -> Seq(Packet)]
    BY DEF TypeOK
  <1>2. PICK n \in 0 .. Len(packets) :
           /\ batch' = [batch EXCEPT ![t] = SubSeq(packets, 1, n)]
           /\ packets' = SubSeq(packets, n + 1, Len(packets))
    <2>1. Len(packets) \in Nat /\ MaxEvents \in Nat
      BY <1>1, LenProperties DEF PortAssumption
    <2>2. (IF Len(packets) < MaxEvents THEN Len(packets) ELSE MaxEvents) \in 0 .. Len(packets)
      BY <2>1
    <2> QED
      BY <2>2 DEF Dequeue
  <1>3. PICK x \in Seq(Packet), y \in Seq(Packet) :
           x = SubSeq(packets, 1, n) /\ y = SubSeq(packets, n + 1, Len(packets)) /\ packets = x \o y
    <2>1. /\ SubSeq(packets, 1, n) \in Seq(Packet)
          /\ SubSeq(packets, n + 1, Len(packets)) \in Seq(Packet)
          /\ packets = SubSeq(packets, 1, n) \o SubSeq(packets, n + 1, Len(packets))
      BY <1>1, CutPackets
    <2> QED
      BY <2>1, Zenon
  <1>4. /\ \A i \in DOMAIN x : \E j \in DOMAIN (x \o y) : (x \o y)[j] = x[i]
        /\ \A i \in DOMAIN y : \E j \in DOMAIN (x \o y) : (x \o y)[j] = y[i]
    BY JoinPackets
  <1>5. /\ \A i \in DOMAIN x : \E j \in DOMAIN packets : packets[j] = x[i]
        /\ \A i \in DOMAIN y : \E j \in DOMAIN packets : packets[j] = y[i]
    <2>1. PICK w : w = x \o y
      OBVIOUS
    <2>2. packets = w
      BY <1>3, <2>1
    <2>3. /\ \A i \in DOMAIN x : \E j \in DOMAIN w : w[j] = x[i]
          /\ \A i \in DOMAIN y : \E j \in DOMAIN w : w[j] = y[i]
      BY <1>4, <2>1
    <2> QED
      BY <2>2, <2>3
  <1>6. batch'[t] = x /\ packets' = y /\ \A u \in Threads : u # t => batch'[u] = batch[u]
    BY <1>1, <1>2, <1>3
  <1> SUFFICES ASSUME NEW p, InFlight(p)' PROVE InFlight(p)
    OBVIOUS
  <1>7. CASE \E i \in DOMAIN packets' : p = packets'[i]
    BY <1>5, <1>6, <1>7, Zenon DEF InFlight
  <1>8. CASE \E u \in Threads : \E i \in DOMAIN batch'[u] : p = batch'[u][i]
    <2>1. PICK u \in Threads : \E i \in DOMAIN batch'[u] : p = batch'[u][i]
      BY <1>8
    <2>2. CASE u = t
      BY <1>5, <1>6, <2>1, <2>2, Zenon DEF InFlight
    <2>3. CASE u # t
      BY <1>6, <2>1, <2>3, Zenon DEF InFlight
    <2> QED
      BY <2>2, <2>3
  <1> QED
    BY <1>7, <1>8 DEF InFlight

LEMMA FedFlight ==
    ASSUME TypeOK, NEW t \in Threads, batch[t] # <<>>,
           batch' = [batch EXCEPT ![t] = Tail(@)], packets' = packets
    PROVE  \A p : InFlight(p)' => InFlight(p)
  <1>1. PICK b \in Seq(Packet) : b = batch[t]
    BY DEF TypeOK
  <1>2. batch'[t] = Tail(b) /\ \A u \in Threads : u # t => batch'[u] = batch[u]
    BY <1>1 DEF TypeOK
  <1>3. \A i \in DOMAIN Tail(b) : \E j \in DOMAIN b : Tail(b)[i] = b[j]
    BY <1>1, FirstPacket
  <1> SUFFICES ASSUME NEW p, InFlight(p)' PROVE InFlight(p)
    OBVIOUS
  <1>4. CASE \E i \in DOMAIN packets' : p = packets'[i]
    BY <1>4 DEF InFlight
  <1>5. CASE \E u \in Threads : \E i \in DOMAIN batch'[u] : p = batch'[u][i]
    <2>1. PICK u \in Threads : \E i \in DOMAIN batch'[u] : p = batch'[u][i]
      BY <1>5
    <2>2. CASE u = t
      <3>1. PICK i \in DOMAIN Tail(b) : p = Tail(b)[i]
        BY <1>2, <2>1, <2>2
      <3>2. \E j \in DOMAIN b : p = b[j]
        BY <1>3, <3>1
      <3> QED
        BY <1>1, <3>2 DEF InFlight
    <2>3. CASE u # t
      <3>1. batch'[u] = batch[u]
        BY <1>2, <2>3
      <3>2. \E i \in DOMAIN batch[u] : p = batch[u][i]
        BY <2>1, <3>1
      <3> QED
        BY <3>2, Zenon DEF InFlight
    <2> QED
      BY <2>2, <2>3
  <1> QED
    BY <1>4, <1>5 DEF InFlight

LEMMA ClosedFlight ==
    ASSUME TypeOK, PortAssumption, NEW s \in Socks, CloseSocket(s)
    PROVE  \A p \in Packet : InFlight(p)' => InFlight(p) \/ cell'[p.cell].sock = s
  <1>1. PICK polled : polled = {c \in Cells : op[c] # None /\ cell[c].sock = s}
    OBVIOUS
  <1>2. polled \subseteq Cells
    BY <1>1
  <1>3. PICK qs : /\ qs \in SetToSeqs({Answer(c, "events", {"LOCAL_CLOSE"}) : c \in polled})
                  /\ packets' = packets \o qs
    BY <1>1, Zenon DEF CloseSocket
  <1>4. IsFiniteSet(polled)
    BY <1>2, FS_Subset DEF PortAssumption
  <1>5. /\ qs \in Seq(Packet)
        /\ \A c : Points(qs, c) <=> c \in polled
    BY <1>2, <1>3, <1>4, AnswerPackets
  <1>6. packets \in Seq(Packet) /\ batch' = batch /\ cell' = cell
    BY DEF TypeOK, CloseSocket, threads
  <1>7. \A x \in DOMAIN (packets \o qs) :
           \/ \E y \in DOMAIN packets : (packets \o qs)[x] = packets[y]
           \/ \E y \in DOMAIN qs : (packets \o qs)[x] = qs[y]
    BY <1>5, <1>6, JoinPackets
  <1> SUFFICES ASSUME NEW p \in Packet, InFlight(p)', ~InFlight(p) PROVE cell'[p.cell].sock = s
    OBVIOUS
  <1>8. \E y \in DOMAIN qs : p = qs[y]
    <2>1. \E x \in DOMAIN packets' : p = packets'[x]
      BY <1>6 DEF InFlight
    <2> QED
      BY <1>3, <1>7, <2>1, Zenon DEF InFlight
  <1>9. p.cell \in polled
    BY <1>5, <1>8 DEF Points
  <1> QED
    BY <1>1, <1>6, <1>9

------------------------------------------------------------------------------
(* The set of sockets that a port stands for                               *)

Live(c) == cell[c] # None /\ ~cell[c].deleted

InterestOfLive == \A s \in Socks :
    /\ \A c \in Cells : Live(c) /\ cell[c].sock = s => Interest(s) = cell[c].user
    /\ (\A c \in Cells : Live(c) => cell[c].sock # s) => Interest(s) = None

LEMMA InterestIs == QueuesSound => InterestOfLive
  <1> SUFFICES ASSUME QueuesSound, NEW s \in Socks
               PROVE  /\ \A c \in Cells : Live(c) /\ cell[c].sock = s => Interest(s) = cell[c].user
                      /\ (\A c \in Cells : Live(c) => cell[c].sock # s) => Interest(s) = None
    BY DEF InterestOfLive
  <1>1. ASSUME NEW c \in Cells, Live(c), cell[c].sock = s PROVE Interest(s) = cell[c].user
    <2>1. c \in Registered(s)
      BY <1>1 DEF Registered, Live
    <2>2. \A d \in Registered(s) : d = c
      BY <1>1, Zenon DEF Registered, Live, QueuesSound
    <2>3. (CHOOSE d \in Registered(s) : TRUE) = c
      BY <2>1, <2>2
    <2> QED
      BY <2>1, <2>3 DEF Interest
  <1>2. ASSUME \A c \in Cells : Live(c) => cell[c].sock # s PROVE Interest(s) = None
    <2>1. Registered(s) = {}
      BY <1>2 DEF Registered, Live
    <2> QED
      BY <2>1 DEF Interest
  <1> QED
    BY <1>1, <1>2

(* A change of one cell changes what is asked of its socket, and no other. *)
LEMMA OneSocket ==
    ASSUME QueuesSound, QueuesSound', NEW c \in Cells, NEW s \in Socks,
           \A d \in Cells \ {c} : cell'[d] = cell[d],
           cell[c] # None => cell[c].sock = s, cell'[c] # None => cell'[c].sock = s
    PROVE  /\ \A x \in Socks \ {s} : Interest(x)' = Interest(x)
           /\ Live(c)' => Interest(s)' = cell'[c].user
           /\ Live(c) => Interest(s) = cell[c].user
           /\ Live(c) /\ ~Live(c)' => Interest(s)' = None
           /\ ~Live(c) /\ ~Live(c)' => Interest(s)' = Interest(s)
  <1>1. \A x \in Socks :
          /\ \A d \in Cells : Live(d)' /\ cell'[d].sock = x => Interest(x)' = cell'[d].user
          /\ (\A d \in Cells : Live(d)' => cell'[d].sock # x) => Interest(x)' = None
    <2>1. (QueuesSound => InterestOfLive)'
      BY InterestIs, PTL
    <2> QED
      BY <2>1 DEF InterestOfLive
  <1>2. \A x \in Socks :
          /\ \A d \in Cells : Live(d) /\ cell[d].sock = x => Interest(x) = cell[d].user
          /\ (\A d \in Cells : Live(d) => cell[d].sock # x) => Interest(x) = None
    BY InterestIs DEF InterestOfLive
  <1>3. \A d \in Cells \ {c} : (Live(d)' <=> Live(d))
    BY DEF Live
  <1>4. (Live(c) => cell[c].sock = s) /\ (Live(c)' => cell'[c].sock = s)
    BY DEF Live
  <1>5. ASSUME NEW x \in Socks,
               x # s \/ (~Live(c) /\ ~Live(c)')
        PROVE  Interest(x)' = Interest(x)
    <2>1. CASE \E d \in Cells : Live(d) /\ cell[d].sock = x
      <3>1. PICK d \in Cells : Live(d) /\ cell[d].sock = x
        BY <2>1
      <3>2. d # c
        BY <1>4, <1>5, <3>1
      <3>3. cell'[d] = cell[d] /\ Live(d)'
        BY <1>3, <3>1, <3>2
      <3>4. Interest(x) = cell[d].user
        BY <1>2, <3>1
      <3>5. Interest(x)' = cell'[d].user
        BY <1>1, <3>1, <3>3
      <3> QED
        BY <3>3, <3>4, <3>5
    <2>2. CASE \A d \in Cells : Live(d) => cell[d].sock # x
      <3>1. \A d \in Cells : Live(d)' => cell'[d].sock # x
        <4>1. ASSUME NEW d \in Cells, Live(d)' PROVE cell'[d].sock # x
          <5>1. CASE d = c
            BY <1>4, <1>5, <4>1, <5>1
          <5>2. CASE d # c
            BY <1>3, <2>2, <4>1, <5>2
          <5> QED
            BY <5>1, <5>2
        <4> QED
          BY <4>1
      <3>2. Interest(x)' = None
        BY <1>1, <3>1
      <3> QED
        BY <1>2, <2>2, <3>2
    <2> QED
      BY <2>1, <2>2
  <1>6. ASSUME Live(c), ~Live(c)' PROVE Interest(s)' = None
    <2>1. ASSUME NEW d \in Cells, Live(d)', cell'[d].sock = s PROVE FALSE
      <3>1. d # c
        BY <1>6, <2>1
      <3>2. cell'[d] = cell[d] /\ Live(d)
        BY <1>3, <2>1, <3>1
      <3> QED
        BY <1>4, <1>6, <2>1, <3>1, <3>2, Zenon DEF QueuesSound, Live
    <2> QED
      BY <1>1, <2>1
  <1> QED
    BY <1>1, <1>2, <1>4, <1>5, <1>6

LEMMA SameInterest ==
    ASSUME cell' = cell
    PROVE  \A s : Interest(s)' = Interest(s)
  BY DEF Interest, Registered

------------------------------------------------------------------------------
(* Each action keeps packets true about closed sockets. What it does to    *)
(* the cells is known from the lemmas about the data.                      *)

LEMMA ToldSame ==
    ASSUME Inv, Inv', ToldOfClosed, UNCHANGED <<packets, batch, closed>>, SameSocks
    PROVE  ToldOfClosed'
  BY SameFlight, ToldStep DEF Inv, Data

LEMMA EnvironmentTold ==
    ASSUME PortAssumption, Inv, Inv', ToldOfClosed, Environment PROVE ToldOfClosed'
  <1>0. TypeOK /\ PacketsPointToCells /\ packets \in Seq(Packet) /\ PacketsPointToCells'
    BY InvTypes DEF Inv, Data
  <1>1. ASSUME NEW c \in Cells, Complete(c) PROVE ToldOfClosed'
    <2>1. UNCHANGED <<cell, closed, batch>>
      BY <1>1 DEF Complete, world, threads
    <2>2. cell[c] # None
      BY <1>0, <1>1, Zenon DEF Complete, PacketsPointToCells, Active
    <2>3. level[cell[c].sock] \subseteq Happens
      BY <1>0, <2>2, Contents DEF TypeOK
    <2>4. PICK q \in Packet : packets' = Append(packets, q) /\ "LOCAL_CLOSE" \notin q.afd
      <3>1. ASSUME NEW k \in {"events", "cancelled", "failed", "nothing"},
                   NEW e \in SUBSET Happens
            PROVE  Answer(c, k, e) \in Packet /\ "LOCAL_CLOSE" \notin Answer(c, k, e).afd
        BY DEF Answer, Packet, PortAssumption
      <3>2. op[c] \cap level[cell[c].sock] \in SUBSET Happens /\ {} \in SUBSET Happens
        BY <2>3
      <3>3. \/ packets' = Append(packets, Answer(c, "events", op[c] \cap level[cell[c].sock]))
            \/ \E k \in {"failed", "nothing"} : packets' = Append(packets, Answer(c, k, {}))
        BY <1>1 DEF Complete
      <3> QED
        BY <3>1, <3>2, <3>3
    <2>5. \A p : InFlight(p)' => InFlight(p) \/ p = q
      BY <1>0, <2>1, <2>4, AppendFlight
    <2>6. SameSocks
      BY <2>1 DEF SameSocks
    <2> QED
      BY <1>0, <2>1, <2>4, <2>5, <2>6, ToldStep
  <1>2. ASSUME NEW s \in Socks, Changes(s) PROVE ToldOfClosed'
    <2>1. UNCHANGED <<packets, batch, closed>> /\ SameSocks
      BY <1>2 DEF Changes, kernel, threads, SameSocks
    <2> QED
      BY <2>1, ToldSame
  <1>3. ASSUME NEW s \in Socks, CloseSocket(s) PROVE ToldOfClosed'
    <2>1. \A p \in Packet : InFlight(p)' => InFlight(p) \/ cell'[p.cell].sock = s
      BY <1>0, <1>3, ClosedFlight
    <2>2. closed' = closed \cup {s} /\ SameSocks
      BY <1>3 DEF CloseSocket, SameSocks
    <2> QED
      BY <1>0, <2>1, <2>2, ToldStep
  <1> QED
    BY <1>1, <1>2, <1>3 DEF Environment

LEMMA CtlTold ==
    ASSUME PortAssumption, Inv, Inv', ToldOfClosed, NEW t \in Threads, Ctl(t) PROVE ToldOfClosed'
  <1>0. /\ TypeOK /\ Data /\ PacketsPointToCells /\ packets \in Seq(Packet)
        /\ PacketsPointToCells' /\ UNCHANGED <<closed, batch>>
    BY InvTypes DEF Inv, Data, Ctl, CtlAdd, CtlMod, CtlReturns, CtlDel, world, threads
  <1>1. ASSUME NEW s \in Socks, NEW want \in Wants, CtlAdd(t, s, want) PROVE ToldOfClosed'
    <2>1. PICK c \in Cells : cell[c] = None /\ cell' = [cell EXCEPT ![c] = NewCell(s, want)]
      BY <1>1 DEF CtlAdd
    <2>2. SameSocks
      BY <2>1, <1>0 DEF SameSocks, TypeOK
    <2> QED
      BY <1>0, <1>1, <2>2, ToldSame DEF CtlAdd, kernel
  <1>2. ASSUME NEW s \in Socks, NEW want \in Wants, CtlMod(t, s, want) PROVE ToldOfClosed'
    <2>1. PICK c \in Registered(s) : SetEvent(c, want)
      BY <1>2 DEF CtlMod
    <2>2. UNCHANGED <<deletedQ, op, packets>>
      BY <1>2 DEF CtlMod, kernel
    <2>3. /\ cell'[c] = Of(c, want \cup Always, cell[c].pending, cell[c].status, cell[c].deleted)
          /\ \A d \in Cells \ {c} : cell'[d] = cell[d]
      BY <1>0, <2>1, <2>2, RegisteredCell, SetEventData
    <2>4. SameSocks
      BY <2>3, OfFields DEF SameSocks
    <2> QED
      BY <1>0, <2>2, <2>4, ToldSame
  <1>3. ASSUME NEW s \in Socks, CtlDel(t, s) PROVE ToldOfClosed'
    <2>1. PICK c \in Registered(s) : Delete(c)
      BY <1>3 DEF CtlDel
    <2>2. /\ cell'[c] = None \/ (cell'[c].deleted /\ cell'[c].sock = cell[c].sock)
          /\ \A d \in Cells \ {c} : cell'[d] = cell[d]
      BY <1>0, <2>1, RegisteredCell, DeleteData
    <2>3. SameSocks
      BY <2>2 DEF SameSocks
    <2>4. c \in Cells
      BY RegisteredCell
    <2>5. UNCHANGED <<op, packets>> \/ afd_cancel_poll(c)
      BY <2>1 DEF Delete, kernel
    <2>6. \A p : InFlight(p)' => InFlight(p) \/ "LOCAL_CLOSE" \notin p.afd
      BY <1>0, <2>4, <2>5, SameFlight, CancelFlight
    <2> QED
      BY <1>0, <2>3, <2>6, ToldStep
  <1> QED
    BY <1>1, <1>2, <1>3 DEF Ctl

LEMMA ThreadTold ==
    ASSUME PortAssumption, Inv, Inv', ToldOfClosed, NEW t \in Threads,
           Wait(t) \/ Proceed(t) \/ TimeOut(t)
    PROVE  ToldOfClosed'
  <1>0. /\ TypeOK /\ Data /\ PacketsPointToCells /\ packets \in Seq(Packet)
        /\ PacketsPointToCells' /\ QueuesSound
    BY InvTypes DEF Inv, Data
  <1>1. CASE UpdateOne(t)
    <2>1. UNCHANGED <<closed, batch>> /\ updateQ # <<>>
      BY <1>1 DEF UpdateOne, world
    <2>2. PICK c : c = Head(updateQ)
      OBVIOUS
    <2>3. c \in Cells /\ cell[c] # None /\ ~cell[c].deleted /\ SockUpdate(c)
      BY <1>0, <1>1, <2>1, <2>2, QueuedCells DEF UpdateOne
    <2>4. /\ \/ cell'[c] # None /\ cell'[c].sock = cell[c].sock
             \/ cell'[c] = None
          /\ \A d \in Cells \ {c} : cell'[d] = cell[d]
      BY <1>0, <2>1, <2>3, UpdateData
    <2>5. SameSocks
      BY <2>4 DEF SameSocks
    <2>6. UNCHANGED packets \/ afd_cancel_poll(c)
      BY <2>3 DEF SockUpdate, kernel
    <2>7. \A p : InFlight(p)' => InFlight(p) \/ "LOCAL_CLOSE" \notin p.afd
      BY <1>0, <2>1, <2>3, <2>6, SameFlight, CancelFlight
    <2> QED
      BY <1>0, <2>1, <2>5, <2>7, ToldStep
  <1>2. CASE UpdateFails(t) \/ UpdateDone(t) \/ Wait(t) \/ TimeOut(t) \/ Back(t) \/ FeedDone(t)
    <2>1. UNCHANGED <<cell, packets, batch, closed>>
      BY <1>2 DEF UpdateFails, SockUpdateFails, UpdateDone, Wait, TimeOut, Back, FeedDone,
                  Leave, Return, kernel, world
    <2> QED
      BY <2>1, ToldSame DEF SameSocks
  <1>3. CASE Dequeue(t)
    <2>1. UNCHANGED <<cell, closed>>
      BY <1>3 DEF Dequeue, world
    <2>2. batch[t] = <<>>
      BY <1>3 DEF Dequeue, Goto, Inv, Control, BatchKept
    <2>3. \A p : InFlight(p)' => InFlight(p)
      BY <1>0, <1>3, <2>2, TakenFlight
    <2> QED
      BY <1>0, <2>1, <2>3, ToldStep DEF SameSocks
  <1>4. CASE FeedOne(t)
    <2>1. PICK p : p = Head(batch[t])
      OBVIOUS
    <2>2. PICK c : c = p.cell
      OBVIOUS
    <2>3. Fed(t, p, c) /\ \A d \in Cells \ {c} : cell'[d] = cell[d]
      BY <1>0, <1>4, <2>1, <2>2, FeedData
    <2>4. SameSocks
      BY <2>3 DEF SameSocks, Fed
    <2>5. /\ batch[t] # <<>> /\ batch' = [batch EXCEPT ![t] = Tail(@)]
          /\ packets' = packets /\ closed' = closed
      BY <1>4 DEF FeedOne, kernel, world
    <2>6. \A q : InFlight(q)' => InFlight(q)
      BY <1>0, <2>5, FedFlight
    <2> QED
      BY <1>0, <2>4, <2>5, <2>6, ToldStep
  <1> QED
    BY <1>1, <1>2, <1>3, <1>4 DEF Proceed

------------------------------------------------------------------------------
(* The port is an epoll set.                                               *)

LEMMA SameSet ==
    ASSUME \A x \in Socks : Interest(x)' = Interest(x), got' = got, closed' = closed
    PROVE  UNCHANGED EpollSet!vars
  <1>1. [x \in Socks |-> Interest(x)]' = [x \in Socks |-> Interest(x)]
    OBVIOUS
  <1> QED
    BY <1>1 DEF EpollSet!vars

LEMMA AskedOf ==
    ASSUME NEW s \in Socks, NEW v, \A x \in Socks \ {s} : Interest(x)' = Interest(x),
           Interest(s)' = v
    PROVE  [x \in Socks |-> Interest(x)]' = [[x \in Socks |-> Interest(x)] EXCEPT ![s] = v]
  OBVIOUS

LEMMA CtlRefines ==
    ASSUME PortAssumption, Inv, Inv', NEW t \in Threads, Ctl(t)
    PROVE  EpollSet!Next
  <1>0. TypeOK /\ Data /\ QueuesSound /\ QueuesSound' /\ UNCHANGED <<closed, batch>>
    BY InvTypes DEF Inv, Data, Ctl, CtlAdd, CtlMod, CtlReturns, CtlDel, world, threads
  <1>1. got' = got
    BY DEF Ctl, CtlAdd, CtlMod, CtlReturns, CtlDel, threads
  <1>2. \A want \in Wants : want \in SUBSET {"IN", "OUT", "RDHUP", "ONESHOT"}
    BY DEF PortAssumption
  <1>3. ASSUME NEW s \in Socks, NEW want \in Wants, CtlAdd(t, s, want) PROVE EpollSet!Ctl(s)
    <2>1. PICK c \in Cells : /\ cell[c] = None
                             /\ cell' = [cell EXCEPT ![c] = NewCell(s, want)]
                             /\ RequestUpdate(c)
      BY <1>3 DEF CtlAdd
    <2>2. Registered(s) = {} /\ s \notin closed /\ UNCHANGED <<deletedQ, op, packets>>
      BY <1>3 DEF CtlAdd, kernel
    <2>3. /\ cell'[c] = NewCell(s, want) /\ cell'[c] # None
          /\ \A d \in Cells \ {c} : cell'[d] = cell[d]
      BY <1>0, <2>1, <2>2, AddData
    <2>4. /\ cell'[c].sock = s /\ cell'[c].user = want \cup Always /\ cell'[c].deleted = FALSE
      BY <2>3 DEF NewCell
    <2>5. Live(c)'
      BY <2>3, <2>4 DEF Live
    <2>6. /\ \A x \in Socks \ {s} : Interest(x)' = Interest(x)
          /\ Interest(s)' = want \cup Always
      BY <1>0, <2>1, <2>3, <2>4, <2>5, OneSocket
    <2>7. [x \in Socks |-> Interest(x)]'
             = [[x \in Socks |-> Interest(x)] EXCEPT ![s] = want \cup {"ERR", "HUP"}]
      BY <2>6, AskedOf DEF Always
    <2> QED
      BY <1>0, <1>1, <1>2, <2>2, <2>7 DEF EpollSet!Ctl
  <1>4. ASSUME NEW s \in Socks, NEW want \in Wants, CtlMod(t, s, want) PROVE EpollSet!Ctl(s)
    <2>1. PICK c \in Registered(s) : SetEvent(c, want)
      BY <1>4 DEF CtlMod
    <2>2. c \in Cells /\ cell[c] # None /\ ~cell[c].deleted /\ cell[c].sock = s
      BY RegisteredCell
    <2>3. UNCHANGED <<deletedQ, op, packets>>
      BY <1>4 DEF CtlMod, kernel
    <2>4. /\ Data'
          /\ cell'[c] = Of(c, want \cup Always, cell[c].pending, cell[c].status, cell[c].deleted)
          /\ \A d \in Cells \ {c} : cell'[d] = cell[d]
      BY <1>0, <2>1, <2>2, <2>3, SetEventData
    <2>5. cell'[c].sock = s /\ cell'[c].user = want \cup Always /\ (cell'[c].deleted = cell[c].deleted)
      BY <2>2, <2>4, OfFields
    <2>6. cell'[c] # None
      <3>1. want \cup Always \in Users
        BY DEF Users
      <3>2. /\ cell[c].pending \in Users /\ cell[c].status \in Status /\ cell[c].deleted \in BOOLEAN
            /\ \A u \in Users, p \in Users, x \in Status, d \in BOOLEAN : Of(c, u, p, x, d) \in CellType
        BY <1>0, <2>2, Contents
      <3>3. Of(c, want \cup Always, cell[c].pending, cell[c].status, cell[c].deleted) \in CellType
        BY <3>1, <3>2
      <3> QED
        BY <2>4, <3>3 DEF PortAssumption
    <2>7. Live(c)' /\ Live(c)
      BY <2>2, <2>5, <2>6 DEF Live
    <2>8. /\ \A x \in Socks \ {s} : Interest(x)' = Interest(x)
          /\ Interest(s)' = want \cup Always /\ Interest(s) = cell[c].user
      BY <1>0, <2>2, <2>4, <2>5, <2>7, OneSocket
    <2>9. Interest(s) # None
      BY <1>0, <2>2, <2>8, Contents DEF PortAssumption
    <2>10. [x \in Socks |-> Interest(x)]'
             = [[x \in Socks |-> Interest(x)] EXCEPT ![s] = want \cup {"ERR", "HUP"}]
      BY <2>8, AskedOf DEF Always
    <2> QED
      BY <1>0, <1>1, <1>2, <2>9, <2>10 DEF EpollSet!Ctl
  <1>5. ASSUME NEW s \in Socks, CtlDel(t, s) PROVE EpollSet!Del(s)
    <2>1. PICK c \in Registered(s) : Delete(c)
      BY <1>5 DEF CtlDel
    <2>2. c \in Cells /\ cell[c] # None /\ ~cell[c].deleted /\ cell[c].sock = s
      BY RegisteredCell
    <2>3. /\ cell'[c] = None \/ (cell'[c].deleted /\ cell'[c].sock = cell[c].sock)
          /\ \A d \in Cells \ {c} : cell'[d] = cell[d]
      BY <1>0, <2>1, <2>2, DeleteData
    <2>4. Live(c) /\ ~Live(c)'
      BY <2>2, <2>3 DEF Live
    <2>5. /\ \A x \in Socks \ {s} : Interest(x)' = Interest(x)
          /\ Interest(s)' = None
      BY <1>0, <2>2, <2>3, <2>4, OneSocket
    <2>6. [x \in Socks |-> Interest(x)]' = [[x \in Socks |-> Interest(x)] EXCEPT ![s] = None]
      BY <2>5, AskedOf
    <2> QED
      BY <1>0, <1>1, <2>6 DEF EpollSet!Del
  <1> QED
    BY <1>3, <1>4, <1>5 DEF Ctl, EpollSet!Next

LEMMA ReturnRefines ==
    ASSUME NEW t \in Threads, NEW r,
           Leave(t, r) \/ Return(t, r), cell' = cell, closed' = closed
    PROVE  EpollSet!Next \/ UNCHANGED EpollSet!vars
  <1>1. \A x \in Socks : Interest(x)' = Interest(x)
    BY SameInterest
  <1>2. [x \in Socks |-> Interest(x)]' = [x \in Socks |-> Interest(x)]
    BY <1>1
  <1>3. CASE got' = [got EXCEPT ![t] = {}]
    <2>1. EpollSet!Return(t)
      BY <1>2, <1>3 DEF EpollSet!Return
    <2> QED
      BY <2>1 DEF EpollSet!Next
  <1>4. CASE got' = got
    BY <1>1, <1>4, SameSet
  <1> QED
    BY <1>3, <1>4 DEF Leave, Return

LEMMA EnvironmentRefines ==
    ASSUME PortAssumption, Inv, Environment
    PROVE  EpollSet!Next \/ UNCHANGED EpollSet!vars
  <1>0. cell' = cell /\ got' = got
    BY DEF Environment, Complete, Changes, CloseSocket, threads
  <1>1. \A x \in Socks : Interest(x)' = Interest(x)
    BY <1>0, SameInterest
  <1>2. ASSUME NEW s \in Socks, CloseSocket(s) PROVE EpollSet!Next
    <2>1. [x \in Socks |-> Interest(x)]' = [x \in Socks |-> Interest(x)]
      BY <1>1
    <2>2. EpollSet!CloseSocket(s)
      BY <1>0, <1>2, <2>1 DEF CloseSocket, EpollSet!CloseSocket
    <2> QED
      BY <2>2 DEF EpollSet!Next
  <1>3. ASSUME closed' = closed PROVE UNCHANGED EpollSet!vars
    BY <1>0, <1>1, <1>3, SameSet
  <1> QED
    BY <1>2, <1>3 DEF Environment, Complete, Changes, world

(* A socket is left out when the driver said that it has been closed.      *)
LEMMA DropRefines ==
    ASSUME PortAssumption, QueuesSound, QueuesSound', NEW c \in Cells, cell[c] # None,
           cell[c].sock \in Socks,
           cell'[c] = None, \A d \in Cells \ {c} : cell'[d] = cell[d],
           cell[c].deleted \/ cell[c].sock \in closed, got' = got, closed' = closed
    PROVE  EpollSet!Next \/ UNCHANGED EpollSet!vars
  <1>1. PICK s \in Socks : s = cell[c].sock
    OBVIOUS
  <1>2. ~Live(c)'
    BY DEF Live
  <1>3. /\ \A x \in Socks \ {s} : Interest(x)' = Interest(x)
        /\ Live(c) /\ ~Live(c)' => Interest(s)' = None
        /\ ~Live(c) /\ ~Live(c)' => Interest(s)' = Interest(s)
    BY <1>1, OneSocket
  <1>4. CASE cell[c].deleted
    <2>1. Interest(s)' = Interest(s)
      BY <1>2, <1>3, <1>4 DEF Live
    <2>2. \A x \in Socks : Interest(x)' = Interest(x)
      BY <1>3, <2>1
    <2> QED
      BY <2>2, SameSet
  <1>5. CASE ~cell[c].deleted
    <2>1. Interest(s)' = None
      BY <1>2, <1>3, <1>5 DEF Live
    <2>2. [x \in Socks |-> Interest(x)]' = [[x \in Socks |-> Interest(x)] EXCEPT ![s] = None]
      BY <1>3, <2>1, AskedOf
    <2>3. EpollSet!Drop(s)
      BY <1>1, <1>5, <2>2 DEF EpollSet!Drop, EpollSet!Del
    <2> QED
      BY <2>3 DEF EpollSet!Next
  <1> QED
    BY <1>4, <1>5

LEMMA FeedRefines ==
    ASSUME PortAssumption, Inv, Inv', ToldOfClosed, NEW t \in Threads, FeedOne(t)
    PROVE  EpollSet!Next \/ UNCHANGED EpollSet!vars
  <1>0. /\ TypeOK /\ Data /\ QueuesSound /\ QueuesSound' /\ PacketsPointToCells
        /\ got \in [Threads -> SUBSET (Socks \X Users)]
        /\ batch[t] # <<>> /\ closed' = closed
    BY InvTypes DEF Inv, Data, Control, FeedOne, world
  <1>1. PICK p : p = Head(batch[t])
    OBVIOUS
  <1>2. PICK c : c = p.cell
    OBVIOUS
  <1>3. p \in Packet /\ c \in Cells /\ cell[c] # None /\ InFlight(p)
    BY <1>0, <1>1, <1>2, AtHand DEF InFlight, Active
  <1>4. cell[c].sock \in Socks /\ cell[c].user \in Users
    BY <1>0, <1>3, Contents
  <1>5. PICK s \in Socks : s = cell[c].sock
    BY <1>4
  <1>6. Fed(t, p, c) /\ \A d \in Cells \ {c} : cell'[d] = cell[d]
    BY <1>0, <1>1, <1>2, FeedData
  <1>7. CASE Drops(p) /\ cell'[c] = None /\ got' = got
    <2>1. cell[c].deleted \/ cell[c].sock \in closed
      BY <1>2, <1>3, <1>7 DEF Drops, ToldOfClosed
    <2> QED
      BY <1>0, <1>3, <1>4, <1>6, <1>7, <2>1, DropRefines
  <1>8. CASE ~(Drops(p) /\ cell'[c] = None /\ got' = got)
    <2>1. /\ Live(c) /\ Live(c)' /\ cell'[c].sock = s
          /\ cell'[c].user = IF Interesting(p) # {} /\ "ONESHOT" \in cell[c].user
                             THEN {} ELSE cell[c].user
      BY <1>3, <1>5, <1>6, <1>8 DEF Live, Fed
    <2>2. /\ \A x \in Socks \ {s} : Interest(x)' = Interest(x)
          /\ Interest(s)' = cell'[c].user /\ Interest(s) = cell[c].user
      BY <1>0, <1>3, <1>5, <1>6, <2>1, OneSocket
    <2>3. got' = [got EXCEPT ![t] = IF Interesting(p) = {} THEN @
                                    ELSE @ \cup {<<s, Interesting(p)>>}]
      BY <1>5, <1>6, <1>8 DEF Fed
    <2>4. CASE Interesting(p) = {}
      <3>1. got' = got
        BY <1>0, <2>3, <2>4
      <3>2. \A x \in Socks : Interest(x)' = Interest(x)
        BY <2>1, <2>2, <2>4
      <3> QED
        BY <1>0, <3>1, <3>2, SameSet
    <2>5. CASE Interesting(p) # {}
      <3>1. PICK e : e = Interesting(p) /\ e \in (SUBSET Interest(s)) \ {{}}
        BY <1>2, <2>2, <2>5 DEF Interesting
      <3>2. got' = [got EXCEPT ![t] = @ \cup {<<s, e>>}]
        BY <2>3, <2>5, <3>1
      <3>3. PICK v : v = IF "ONESHOT" \in Interest(s) THEN {} ELSE Interest(s)
        OBVIOUS
      <3>4. Interest(s)' = v
        BY <2>1, <2>2, <2>5, <3>3
      <3>5. [x \in Socks |-> Interest(x)]' = [[x \in Socks |-> Interest(x)] EXCEPT ![s] = v]
        BY <2>2, <3>4, AskedOf
      <3>6. [x \in Socks |-> Interest(x)][s] = Interest(s)
        OBVIOUS
      <3>7. Interest(s) # None
        BY <1>4, <2>2 DEF PortAssumption
      <3>8. EpollSet!Report(t, s)
        <4>1. [x \in Socks |-> Interest(x)]'
                 = [[x \in Socks |-> Interest(x)] EXCEPT ![s] = IF "ONESHOT" \in @ THEN {} ELSE @]
          BY <3>3, <3>5, <3>6
        <4>2. \E f \in (SUBSET [x \in Socks |-> Interest(x)][s]) \ {{}} :
                 got' = [got EXCEPT ![t] = @ \cup {<<s, f>>}]
          BY <3>1, <3>2, <3>6
        <4> QED
          BY <1>0, <3>6, <3>7, <4>1, <4>2 DEF EpollSet!Report
      <3> QED
        BY <3>8 DEF EpollSet!Next
    <2> QED
      BY <2>4, <2>5
  <1> QED
    BY <1>7, <1>8

LEMMA ThreadRefines ==
    ASSUME PortAssumption, Inv, Inv', ToldOfClosed, NEW t \in Threads,
           Wait(t) \/ Proceed(t) \/ TimeOut(t)
    PROVE  EpollSet!Next \/ UNCHANGED EpollSet!vars
  <1>0. TypeOK /\ Data /\ QueuesSound /\ QueuesSound'
    BY InvTypes DEF Inv, Data
  <1>1. CASE UpdateOne(t)
    <2>1. UNCHANGED <<closed, batch, got>> /\ updateQ # <<>>
      BY <1>1 DEF UpdateOne, world
    <2>2. PICK c : c = Head(updateQ)
      OBVIOUS
    <2>3. c \in Cells /\ cell[c] # None /\ ~cell[c].deleted /\ SockUpdate(c)
      BY <1>0, <1>1, <2>1, <2>2, QueuedCells DEF UpdateOne
    <2>4. /\ \/ /\ cell'[c] # None /\ cell'[c].sock = cell[c].sock
                /\ cell'[c].user = cell[c].user /\ ~cell'[c].deleted
             \/ cell'[c] = None /\ cell[c].sock \in closed
          /\ \A d \in Cells \ {c} : cell'[d] = cell[d]
      BY <1>0, <2>1, <2>3, UpdateData
    <2>5. cell[c].sock \in Socks
      BY <1>0, <2>3, Contents
    <2>6. CASE cell'[c] = None /\ cell[c].sock \in closed
      BY <1>0, <2>1, <2>3, <2>4, <2>5, <2>6, DropRefines
    <2>7. CASE /\ cell'[c] # None /\ cell'[c].sock = cell[c].sock
               /\ cell'[c].user = cell[c].user /\ ~cell'[c].deleted
      <3>1. PICK s \in Socks : s = cell[c].sock
        BY <2>5
      <3>2. Live(c) /\ Live(c)'
        BY <2>3, <2>7 DEF Live
      <3>3. /\ \A x \in Socks \ {s} : Interest(x)' = Interest(x)
            /\ Interest(s)' = cell'[c].user /\ Interest(s) = cell[c].user
        BY <1>0, <2>3, <2>4, <2>7, <3>1, <3>2, OneSocket
      <3>4. \A x \in Socks : Interest(x)' = Interest(x)
        BY <2>7, <3>3
      <3> QED
        BY <2>1, <3>4, SameSet
    <2> QED
      BY <2>4, <2>6, <2>7
  <1>2. CASE \E r : Leave(t, r) \/ Return(t, r)
    <2>1. (cell' = cell /\ closed' = closed) \/ UpdateOne(t) \/ FeedOne(t)
      BY DEF Proceed, Wait, TimeOut, UpdateFails, SockUpdateFails, UpdateDone, Back, FeedDone,
             Dequeue, world
    <2> QED
      BY <1>1, <1>2, <2>1, FeedRefines, ReturnRefines
  <1>3. CASE FeedOne(t)
    BY <1>3, FeedRefines
  <1>4. CASE UNCHANGED <<cell, got, closed>>
    BY <1>4, SameInterest, SameSet
  <1>5. \/ UpdateOne(t) \/ FeedOne(t) \/ UNCHANGED <<cell, got, closed>>
        \/ \E r : Leave(t, r) \/ Return(t, r)
    BY DEF Proceed, Wait, TimeOut, UpdateFails, SockUpdateFails, UpdateDone, Back, FeedDone,
           Dequeue, world
  <1> QED
    BY <1>1, <1>2, <1>3, <1>4, <1>5

LEMMA ToldInit == ASSUME Init PROVE ToldOfClosed
  <1>1. ~\E p \in Packet : InFlight(p)
    <2>1. DOMAIN <<>> = {}
      BY EmptySeq
    <2> QED
      BY <2>1 DEF Init, InFlight
  <1> QED
    BY <1>1 DEF ToldOfClosed

LEMMA Told ==
    ASSUME PortAssumption, Inv, Inv', ToldOfClosed, [Next]_vars PROVE ToldOfClosed'
  <1>1. CASE Next
    BY <1>1, EnvironmentTold, CtlTold, ThreadTold DEF Next, Proceed
  <1>2. CASE UNCHANGED vars
    <2>1. UNCHANGED <<packets, batch, closed>> /\ SameSocks
      BY <1>2 DEF vars, kernel, world, threads, SameSocks
    <2> QED
      BY <2>1, ToldSame
  <1> QED
    BY <1>1, <1>2

LEMMA InitRefines == ASSUME PortAssumption, Init PROVE EpollSet!Init
  <1>1. \A s \in Socks : Interest(s) = None
    BY DEF Init, Interest, Registered
  <1>2. [s \in Socks |-> Interest(s)] = [s \in Socks |-> None]
    BY <1>1
  <1> QED
    BY <1>2 DEF Init, EpollSet!Init

LEMMA StepRefines ==
    ASSUME PortAssumption, Inv, Inv', ToldOfClosed, [Next]_vars
    PROVE  [EpollSet!Next]_(EpollSet!vars)
  <1>1. CASE Next
    BY <1>1, EnvironmentRefines, CtlRefines, ThreadRefines DEF Next
  <1>2. CASE UNCHANGED vars
    <2>1. cell' = cell /\ got' = got /\ closed' = closed
      BY <1>2 DEF vars, world, threads
    <2> QED
      BY <2>1, SameInterest, SameSet
  <1> QED
    BY <1>1, <1>2

\* The port does what epoll promises (wepoll.c, port_ctl and port_wait): what
\* a call of epoll_wait reports is asked for, of a socket in the set, a report
\* disarms a one-shot socket, and a socket leaves the set only when its user
\* removes or closes it, whatever threads call and the driver answers.
THEOREM PortIsEpollSet == ASSUME PortAssumption PROVE Spec => ImplementsEpollSet
  <1>1. Init => Inv /\ ToldOfClosed /\ EpollSet!Init
    BY InitInv, ToldInit, InitRefines
  <1>2. Inv /\ ToldOfClosed /\ [Next]_vars => (Inv /\ ToldOfClosed)'
    BY StepInv, Told
  <1>3. Inv /\ Inv' /\ ToldOfClosed /\ [Next]_vars => [EpollSet!Next]_(EpollSet!vars)
    BY StepRefines
  <1> QED
    BY <1>1, <1>2, <1>3, PTL DEF Spec, ImplementsEpollSet, EpollSet!Spec

==============================================================================
