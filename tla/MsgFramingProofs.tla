--------------------------- MODULE MsgFramingProofs ---------------------------
(***************************************************************************)
(* Proofs about MsgFraming, for every set of messages, every limit and     *)
(* every size of the socket buffers.                                       *)
(*                                                                         *)
(* The argument lays all bytes the writer has given to sendn in one row,   *)
(* head and body of every message in turn. At every moment this row is     *)
(* what the reader has consumed, what it holds of the current head or      *)
(* body, the stream, and what the writer has left, in this order: a send   *)
(* or recv moves bytes across one of the borders and leaves the row as it  *)
(* is. What the reader takes for a head is one, because the place where it *)
(* begins is the place where a message begins.                             *)
(***************************************************************************)
EXTENDS MsgFraming, SequenceTheorems, TLAPS

------------------------------------------------------------------------------
(* The row of bytes *)

\* What the writer has left, head and body one after the other.
LeftOf(parts) == CASE Len(parts) = 0 -> <<>>
                   [] Len(parts) = 1 -> parts[1]
                   [] OTHER -> parts[1] \o parts[2]
Left == LeftOf(toSend)

\* row holds the messages in sent; start[i] bytes come before message i. A
\* message has at least the bytes of its head.
Holds(row, start, sent) ==
    /\ start \in [1 .. Len(sent) + 1 -> Nat]
    /\ start[1] = 0
    /\ Len(row) = start[Len(sent) + 1]
    /\ \A i \in 1 .. Len(sent) :
          /\ start[i + 1] = start[i] + HeadLen + Len(sent[i])
          /\ row[start[i] + 1] = Magic
          /\ row[start[i] + 2] = Len(sent[i])
          /\ \A j \in 1 .. Len(sent[i]) : row[start[i] + (HeadLen + j)] = sent[i][j]
    /\ \A i, j \in 1 .. Len(sent) + 1 : i <= j => start[j] >= start[i] + HeadLen * (j - i)

\* What the reader has consumed of the message it is in.
Consumed == CASE rPc = "idle" -> 0
              [] rPc = "head" -> Len(rBuf)
              [] rPc = "body" -> HeadLen + Len(rBuf)

\* The bytes of the row from place at + 1 on are those of s.
LiesAt(row, s, at) == \A i \in 1 .. Len(s) : s[i] = row[at + i]

\* The place in the row the reader has got to.
Place(start) == start[Len(got) + 1] + Consumed

\* Reader, stream and writer divide the row among them.
Divided(row, at) ==
    /\ at + Len(stream) + Len(Left) = Len(row)
    /\ LiesAt(row, rBuf, at - Len(rBuf))
    /\ LiesAt(row, stream, at)
    /\ LiesAt(row, Left, at + Len(stream))

\* The reader returns the messages of the writer in order; in the body of a
\* message it knows its length.
InOrder ==
    /\ Len(got) <= Len(sentMsgs)
    /\ \A i \in 1 .. Len(got) : got[i] = sentMsgs[i]
    /\ rPc = "idle" => rBuf = <<>>
    /\ rPc = "body" => Len(got) < Len(sentMsgs) /\ rLen = Len(sentMsgs[Len(got) + 1])

Row(row, start) == Holds(row, start, sentMsgs) /\ Divided(row, Place(start))

Inv ==
    /\ TypeOK
    /\ RefusesOnlyOversized
    /\ InOrder
    /\ \E row \in Seq(Nat) : \E start \in [1 .. Len(sentMsgs) + 1 -> Nat] : Row(row, start)

LEMMA Types ==
    ASSUME TypeOK
    PROVE  /\ stream \in Seq(Nat) /\ Len(stream) \in Nat
           /\ toSend \in Seq(Seq(Nat)) /\ Len(toSend) \in Nat /\ Len(toSend) <= 2
           /\ rBuf \in Seq(Nat) /\ Len(rBuf) \in Nat
           /\ sentMsgs \in Seq(Messages) /\ Len(sentMsgs) \in Nat
           /\ sentMsgs \in Seq(Seq(Nat))
           /\ got \in Seq(Seq(Nat)) /\ Len(got) \in Nat
           /\ rLen \in Nat /\ Magic \in Nat /\ BufSize \in Nat \ {0} /\ MsgLimit \in Nat
  <1>1. sentMsgs \in Seq(Messages) /\ Messages \subseteq Seq(Nat)
    BY FramingAssumption DEF TypeOK
  <1>4. sentMsgs \in Seq(Seq(Nat))
    BY <1>1, SeqMonotonic
  <1>2. toSend \in Seq(Seq(Nat))
    BY DEF TypeOK
  <1>6. Len(toSend) \in Nat /\ Len(toSend) <= 2
    BY <1>2, LenProperties DEF TypeOK
  <1>3. stream \in Seq(Nat) /\ rBuf \in Seq(Nat) /\ got \in Seq(Seq(Nat)) /\ rLen \in Nat
    BY FramingAssumption DEF TypeOK
  <1>5. /\ Len(stream) \in Nat /\ Len(rBuf) \in Nat /\ Len(sentMsgs) \in Nat
        /\ Len(got) \in Nat
    BY <1>1, <1>3, LenProperties
  <1>7. Magic \in Nat /\ BufSize \in Nat \ {0} /\ MsgLimit \in Nat
    BY FramingAssumption
  <1> QED
    BY <1>1, <1>2, <1>3, <1>4, <1>5, <1>6, <1>7

LEMMA LeftOfType ==
    ASSUME NEW parts \in Seq(Seq(Nat)), Len(parts) <= 2
    PROVE  LeftOf(parts) \in Seq(Nat) /\ Len(LeftOf(parts)) \in Nat
  <1>0. \A i \in 1 .. Len(parts) : parts[i] \in Seq(Nat)
    BY ElementOfSeq
  <1>1. CASE Len(parts) = 0
    BY <1>1, EmptySeq DEF LeftOf
  <1>2. CASE Len(parts) = 1
    <2>1. parts[1] \in Seq(Nat)
      BY <1>0, <1>2
    <2>2. LeftOf(parts) = parts[1]
      BY <1>2 DEF LeftOf
    <2> QED
      BY <2>1, <2>2, LenProperties
  <1>3. CASE Len(parts) = 2
    <2>1. parts[1] \in Seq(Nat) /\ parts[2] \in Seq(Nat)
      BY <1>0, <1>3
    <2>2. LeftOf(parts) = parts[1] \o parts[2]
      BY <1>3 DEF LeftOf
    <2> QED
      BY <2>1, <2>2, ConcatProperties, LenProperties
  <1>4. Len(parts) = 0 \/ Len(parts) = 1 \/ Len(parts) = 2
    <2>1. Len(parts) \in Nat
      BY LenProperties
    <2>2. \A n \in Nat : n <= 2 => n = 0 \/ n = 1 \/ n = 2
      OBVIOUS
    <2> QED
      BY <2>1, <2>2, Zenon
  <1> QED
    BY <1>1, <1>2, <1>3, <1>4

LEMMA LeftType ==
    ASSUME TypeOK
    PROVE  Left \in Seq(Nat) /\ Len(Left) \in Nat
  BY Types, LeftOfType DEF Left

LEMMA LeftOfCases ==
    ASSUME NEW parts
    PROVE  /\ Len(parts) = 0 => LeftOf(parts) = <<>>
           /\ Len(parts) = 1 => LeftOf(parts) = parts[1]
           /\ Len(parts) = 2 => LeftOf(parts) = parts[1] \o parts[2]
  <1>1. Len(parts) = 0 => LeftOf(parts) = <<>>
    BY DEF LeftOf
  <1>2. Len(parts) = 1 => LeftOf(parts) = parts[1]
    BY DEF LeftOf
  <1>3. Len(parts) = 2 => LeftOf(parts) = parts[1] \o parts[2]
    BY DEF LeftOf
  <1> QED
    BY <1>1, <1>2, <1>3

LEMMA Joined ==
    ASSUME NEW a \in Seq(Nat), NEW rest \in Seq(Seq(Nat))
    PROVE  /\ <<a>> \o rest \in Seq(Seq(Nat))
           /\ Len(<<a>> \o rest) = 1 + Len(rest) /\ Len(rest) \in Nat
           /\ (<<a>> \o rest)[1] = a
           /\ Len(rest) = 1 => (<<a>> \o rest)[2] = rest[1]
  <1>1. <<a>> \in Seq(Seq(Nat)) /\ Len(<<a>>) = 1 /\ <<a>>[1] = a
    OBVIOUS
  <1>2. PICK one \in Seq(Seq(Nat)) : one = <<a>>
    BY <1>1
  <1>3. Len(one) = 1 /\ one[1] = a /\ Len(rest) \in Nat
    BY <1>1, <1>2, LenProperties
  <1>4. /\ one \o rest \in Seq(Seq(Nat)) /\ Len(one \o rest) = Len(one) + Len(rest)
        /\ \A i \in 1 .. Len(one) + Len(rest) :
              (one \o rest)[i] = IF i <= Len(one) THEN one[i] ELSE rest[i - Len(one)]
    BY ConcatProperties
  <1>5. \A l \in Nat : 1 \in 1 .. 1 + l /\ 1 <= 1 /\ (l = 1 => 2 \in 1 .. 1 + l) /\ ~(2 <= 1) /\ 2 - 1 = 1
    OBVIOUS
  <1>6. (one \o rest)[1] = a
    BY <1>3, <1>4, <1>5
  <1>7. Len(rest) = 1 => (one \o rest)[2] = rest[1]
    BY <1>3, <1>4, <1>5
  <1>8. Len(one \o rest) = 1 + Len(rest)
    BY <1>3, <1>4
  <1> QED
    BY <1>2, <1>3, <1>4, <1>6, <1>7, <1>8, Zenon

(* The first part comes first, whatever is left of it.                     *)
LEMMA FirstPart ==
    ASSUME NEW parts \in Seq(Seq(Nat)), parts # <<>>, Len(parts) <= 2
    PROVE  /\ Head(parts) \in Seq(Nat) /\ LeftOf(Tail(parts)) \in Seq(Nat)
           /\ Tail(parts) \in Seq(Seq(Nat)) /\ Len(Tail(parts)) <= 2
           /\ LeftOf(parts) = Head(parts) \o LeftOf(Tail(parts))
           /\ \A a \in Seq(Nat) :
                 /\ LeftOf(<<a>> \o Tail(parts)) = a \o LeftOf(Tail(parts))
                 /\ <<a>> \o Tail(parts) \in Seq(Seq(Nat))
                 /\ Len(<<a>> \o Tail(parts)) <= 2
  <1>1. /\ Tail(parts) \in Seq(Seq(Nat)) /\ Len(Tail(parts)) = Len(parts) - 1
        /\ Head(parts) \in Seq(Nat) /\ Len(parts) \in Nat
        /\ parts = <<Head(parts)>> \o Tail(parts)
    BY HeadTailProperties, LenProperties
  <1>2. PICK rest \in Seq(Seq(Nat)) : rest = Tail(parts)
    BY <1>1
  <1>3. Len(rest) \in Nat /\ Len(rest) <= 1
    BY <1>1, <1>2
  <1>4. Len(rest) = 0 \/ Len(rest) = 1
    <2>1. \A l \in Nat : l <= 1 => l = 0 \/ l = 1
      OBVIOUS
    <2> QED
      BY <1>3, <2>1, Zenon
  <1>5. /\ \A l \in Nat : l <= 1 => 1 + l <= 2 /\ l <= 2
        /\ 1 + 0 = 1 /\ 1 + 1 = 2
    OBVIOUS
  <1>6. LeftOf(rest) \in Seq(Nat) /\ Len(rest) <= 2
    BY <1>3, <1>5, LeftOfType
  <1>7. ASSUME NEW a \in Seq(Nat)
        PROVE  /\ LeftOf(<<a>> \o rest) = a \o LeftOf(rest)
               /\ <<a>> \o rest \in Seq(Seq(Nat)) /\ Len(<<a>> \o rest) <= 2
    <2>1. /\ <<a>> \o rest \in Seq(Seq(Nat)) /\ Len(<<a>> \o rest) = 1 + Len(rest)
          /\ (<<a>> \o rest)[1] = a
          /\ Len(rest) = 1 => (<<a>> \o rest)[2] = rest[1]
      BY Joined
    <2>2. Len(<<a>> \o rest) <= 2
      BY <1>3, <1>5, <2>1, Zenon
    <2>3. CASE Len(rest) = 0
      <3>1. LeftOf(<<a>> \o rest) = a /\ LeftOf(rest) = <<>>
        BY <1>5, <2>1, <2>3, LeftOfCases, Zenon
      <3>2. a \o <<>> = a
        BY ConcatEmptySeq
      <3> QED
        BY <2>1, <2>2, <3>1, <3>2, Zenon
    <2>4. CASE Len(rest) = 1
      <3>1. LeftOf(<<a>> \o rest) = a \o rest[1] /\ LeftOf(rest) = rest[1]
        BY <1>5, <2>1, <2>4, LeftOfCases, Zenon
      <3> QED
        BY <2>1, <2>2, <3>1, Zenon
    <2> QED
      BY <1>4, <2>3, <2>4, Zenon
  <1>8. LeftOf(parts) = Head(parts) \o LeftOf(rest)
    BY <1>1, <1>2, <1>7, Zenon
  <1> QED
    BY <1>1, <1>2, <1>6, <1>7, <1>8, Zenon

(* The reader is not before the bytes it holds.                            *)
LEMMA PlaceType ==
    ASSUME TypeOK, InOrder, NEW start \in [1 .. Len(sentMsgs) + 1 -> Nat]
    PROVE  /\ Len(got) + 1 \in 1 .. Len(sentMsgs) + 1 /\ start[Len(got) + 1] \in Nat
           /\ Consumed \in Nat /\ Place(start) \in Nat
           /\ Place(start) - Len(rBuf) \in Nat
  <1>1. Len(got) + 1 \in 1 .. Len(sentMsgs) + 1 /\ Len(rBuf) \in Nat
    BY Types DEF InOrder
  <1>2. start[Len(got) + 1] \in Nat
    BY <1>1
  <1>3. rPc \in {"idle", "head", "body"} /\ (rPc = "idle" => Len(rBuf) = 0)
    BY EmptySeq DEF TypeOK, InOrder
  <1>4. Consumed \in Nat /\ Consumed >= Len(rBuf)
    BY <1>1, <1>3 DEF Consumed, HeadLen
  <1> QED
    BY <1>1, <1>2, <1>4 DEF Place

------------------------------------------------------------------------------
(* Bytes in the row *)

LEMMA Concat ==
    ASSUME NEW s \in Seq(Nat), NEW t \in Seq(Nat)
    PROVE  /\ s \o t \in Seq(Nat) /\ Len(s \o t) = Len(s) + Len(t)
           /\ Len(s) \in Nat /\ Len(t) \in Nat
           /\ \A i \in 1 .. Len(s) : (s \o t)[i] = s[i]
           /\ \A i \in 1 .. Len(t) : (s \o t)[Len(s) + i] = t[i]
  <1>1. /\ s \o t \in Seq(Nat) /\ Len(s \o t) = Len(s) + Len(t)
        /\ Len(s) \in Nat /\ Len(t) \in Nat
        /\ \A i \in 1 .. Len(s) + Len(t) :
              (s \o t)[i] = IF i <= Len(s) THEN s[i] ELSE t[i - Len(s)]
    BY ConcatProperties, LenProperties
  <1>2. ASSUME NEW i \in 1 .. Len(s) PROVE (s \o t)[i] = s[i]
    <2>1. i \in 1 .. Len(s) + Len(t) /\ i <= Len(s)
      BY <1>1
    <2> QED
      BY <1>1, <2>1
  <1>3. ASSUME NEW i \in 1 .. Len(t) PROVE (s \o t)[Len(s) + i] = t[i]
    <2>1. Len(s) + i \in 1 .. Len(s) + Len(t) /\ ~(Len(s) + i <= Len(s))
          /\ (Len(s) + i) - Len(s) = i
      BY <1>1
    <2> QED
      BY <1>1, <2>1
  <1> QED
    BY <1>1, <1>2, <1>3

LEMMA LiesJoin ==
    ASSUME NEW row \in Seq(Nat), NEW s \in Seq(Nat), NEW t \in Seq(Nat), NEW at \in Int,
           LiesAt(row, s, at), LiesAt(row, t, at + Len(s))
    PROVE  LiesAt(row, s \o t, at)
  <1>1. /\ Len(s \o t) = Len(s) + Len(t) /\ Len(s) \in Nat /\ Len(t) \in Nat
        /\ \A i \in 1 .. Len(s) + Len(t) :
              (s \o t)[i] = IF i <= Len(s) THEN s[i] ELSE t[i - Len(s)]
    BY ConcatProperties, LenProperties
  <1> SUFFICES ASSUME NEW i \in 1 .. Len(s) + Len(t)
               PROVE  (s \o t)[i] = row[at + i]
    BY <1>1 DEF LiesAt
  <1>2. CASE i <= Len(s)
    <2>1. i \in 1 .. Len(s)
      BY <1>1, <1>2
    <2>2. s[i] = row[at + i]
      BY <2>1 DEF LiesAt
    <2> QED
      BY <1>1, <1>2, <2>2
  <1>3. CASE i > Len(s)
    <2>1. i - Len(s) \in 1 .. Len(t)
      BY <1>1, <1>3
    <2>2. t[i - Len(s)] = row[(at + Len(s)) + (i - Len(s))]
      BY <2>1 DEF LiesAt
    <2>3. (at + Len(s)) + (i - Len(s)) = at + i
      BY <1>1
    <2> QED
      BY <1>1, <1>3, <2>2, <2>3
  <1> QED
    BY <1>1, <1>2, <1>3

LEMMA LiesSplit ==
    ASSUME NEW row \in Seq(Nat), NEW s \in Seq(Nat), NEW t \in Seq(Nat), NEW at \in Int,
           LiesAt(row, s \o t, at)
    PROVE  LiesAt(row, s, at) /\ LiesAt(row, t, at + Len(s))
  <1>1. /\ Len(s \o t) = Len(s) + Len(t) /\ Len(s) \in Nat /\ Len(t) \in Nat
        /\ \A i \in 1 .. Len(s) + Len(t) :
              (s \o t)[i] = IF i <= Len(s) THEN s[i] ELSE t[i - Len(s)]
    BY ConcatProperties, LenProperties
  <1>2. \A i \in 1 .. Len(s) + Len(t) : (s \o t)[i] = row[at + i]
    BY <1>1 DEF LiesAt
  <1>3. ASSUME NEW i \in 1 .. Len(s) PROVE s[i] = row[at + i]
    <2>1. i \in 1 .. Len(s) + Len(t) /\ i <= Len(s)
      BY <1>1
    <2>2. (s \o t)[i] = s[i]
      BY <1>1, <2>1
    <2> QED
      BY <1>2, <2>1, <2>2
  <1>4. ASSUME NEW i \in 1 .. Len(t) PROVE t[i] = row[(at + Len(s)) + i]
    <2>1. Len(s) + i \in 1 .. Len(s) + Len(t) /\ ~(Len(s) + i <= Len(s))
      BY <1>1
    <2>2. (s \o t)[Len(s) + i] = t[(Len(s) + i) - Len(s)]
      BY <1>1, <2>1
    <2>3. (s \o t)[Len(s) + i] = row[at + (Len(s) + i)]
      BY <1>2, <2>1
    <2>4. (Len(s) + i) - Len(s) = i /\ at + (Len(s) + i) = (at + Len(s)) + i
      BY <1>1
    <2> QED
      BY <2>2, <2>3, <2>4
  <1> QED
    BY <1>3, <1>4 DEF LiesAt

LEMMA LiesInLonger ==
    ASSUME NEW row \in Seq(Nat), NEW new \in Seq(Nat), NEW s \in Seq(Nat), NEW at \in Nat,
           at + Len(s) <= Len(row), LiesAt(row, s, at)
    PROVE  LiesAt(row \o new, s, at)
  <1>1. /\ Len(row) \in Nat /\ Len(s) \in Nat /\ Len(new) \in Nat
        /\ \A i \in 1 .. Len(row) + Len(new) :
              (row \o new)[i] = IF i <= Len(row) THEN row[i] ELSE new[i - Len(row)]
    BY ConcatProperties, LenProperties
  <1> SUFFICES ASSUME NEW i \in 1 .. Len(s)
               PROVE  s[i] = (row \o new)[at + i]
    BY DEF LiesAt
  <1>2. at + i \in 1 .. Len(row) + Len(new) /\ at + i <= Len(row)
    BY <1>1
  <1>3. s[i] = row[at + i]
    BY DEF LiesAt
  <1> QED
    BY <1>1, <1>2, <1>3

LEMMA NewLiesAtEnd ==
    ASSUME NEW row \in Seq(Nat), NEW new \in Seq(Nat)
    PROVE  LiesAt(row \o new, new, Len(row))
  <1>1. /\ Len(row) \in Nat /\ Len(new) \in Nat
        /\ \A i \in 1 .. Len(row) + Len(new) :
              (row \o new)[i] = IF i <= Len(row) THEN row[i] ELSE new[i - Len(row)]
    BY ConcatProperties, LenProperties
  <1> SUFFICES ASSUME NEW i \in 1 .. Len(new)
               PROVE  new[i] = (row \o new)[Len(row) + i]
    BY DEF LiesAt
  <1>2. /\ Len(row) + i \in 1 .. Len(row) + Len(new) /\ ~(Len(row) + i <= Len(row))
        /\ (Len(row) + i) - Len(row) = i
    BY <1>1
  <1> QED
    BY <1>1, <1>2

(* A sequence is its first k elements and the others.                      *)
LEMMA CutAt ==
    ASSUME NEW s \in Seq(Nat), NEW k \in 0 .. Len(s)
    PROVE  /\ SubSeq(s, 1, k) \in Seq(Nat) /\ Len(SubSeq(s, 1, k)) = k
           /\ SubSeq(s, k + 1, Len(s)) \in Seq(Nat)
           /\ Len(SubSeq(s, k + 1, Len(s))) = Len(s) - k
           /\ SubSeq(s, 1, k) \o SubSeq(s, k + 1, Len(s)) = s
  <1>0. Len(s) \in Nat /\ k \in Nat /\ k <= Len(s)
    BY LenProperties
  <1>1. \A i \in 1 .. Len(s) : s[i] \in Nat
    BY ElementOfSeq
  <1>2. \A i \in 1 .. k : s[i] \in Nat
    BY <1>0, <1>1
  <1>3. SubSeq(s, 1, k) \in Seq(Nat) /\ Len(SubSeq(s, 1, k)) = k
    BY <1>0, <1>2, SubSeqProperties
  <1>4. \A i \in k + 1 .. Len(s) : s[i] \in Nat
    BY <1>0, <1>1
  <1>5. SubSeq(s, k + 1, Len(s)) \in Seq(Nat) /\ Len(SubSeq(s, k + 1, Len(s))) = Len(s) - k
    BY <1>0, <1>4, SubSeqProperties
  <1>6. SubSeq(s, 1, k) \o SubSeq(s, k + 1, Len(s)) = SubSeq(s, 1, Len(s))
    <2>1. 1 \in 1 .. Len(s) + 1 /\ k \in 1 - 1 .. Len(s) /\ Len(s) \in k .. Len(s)
      BY <1>0
    <2> QED
      BY <2>1, ConcatAdjacentSubSeq
  <1>7. SubSeq(s, 1, Len(s)) = s
    BY SubSeqFull
  <1> QED
    BY <1>3, <1>5, <1>6, <1>7

------------------------------------------------------------------------------
(* The writing thread *)

LEMMA CallSendStep ==
    ASSUME Inv, proc = "running", NEW m \in Messages, CallSend(m)
    PROVE  Inv'
  <1>0. PICK n \in Nat : n = Len(sentMsgs)
    BY Types DEF Inv
  <1> DEFINE frame == HeadOf(m) \o m
  <1>1. /\ m \in Seq(Nat) /\ HeadOf(m) \in Seq(Nat) /\ Len(m) \in Nat
        /\ Len(HeadOf(m)) = HeadLen /\ HeadOf(m)[1] = Magic /\ HeadOf(m)[2] = Len(m)
    BY FramingAssumption, LenProperties DEF HeadOf, HeadLen
  <1>2. /\ toSend = <<>> /\ toSend' = <<HeadOf(m), m>> /\ sentMsgs' = Append(sentMsgs, m)
        /\ n < MaxMsgs /\ UNCHANGED <<proc, stream, rPc, rLen, rBuf, got>>
    BY <1>0 DEF CallSend, readerVars
  <1>3. /\ sentMsgs \in Seq(Messages) /\ n \in Nat
        /\ sentMsgs' \in Seq(Messages) /\ Len(sentMsgs') = n + 1 /\ sentMsgs'[n + 1] = m
        /\ \A i \in 1 .. n : sentMsgs'[i] = sentMsgs[i]
    BY <1>0, <1>2, Types, AppendProperties DEF Inv
  <1>4. TypeOK'
    <2>1. toSend' \in Seq(Seq(Nat)) /\ Len(toSend') = 2
      BY <1>1, <1>2
    <2>2. Len(sentMsgs') <= MaxMsgs
      BY <1>2, <1>3, FramingAssumption
    <2> QED
      BY <1>2, <1>3, <2>1, <2>2 DEF Inv, TypeOK
  <1>5. RefusesOnlyOversized'
    BY <1>2 DEF RefusesOnlyOversized
  <1>6. InOrder'
    <2>0. InOrder /\ TypeOK
      BY DEF Inv
    <2>1. Len(got) <= n /\ Len(got) \in Nat
      BY <1>0, <2>0, Types DEF InOrder
    <2>2. \A i \in 1 .. Len(got) : got[i] = sentMsgs'[i]
      <3>1. \A i \in 1 .. Len(got) : got[i] = sentMsgs[i] /\ i \in 1 .. n
        BY <2>0, <2>1 DEF InOrder
      <3> QED
        BY <1>3, <3>1
    <2>3. rPc = "body" => Len(got) + 1 \in 1 .. n
      BY <1>0, <2>0, <2>1 DEF InOrder
    <2>4. rPc = "body" => rLen = Len(sentMsgs'[Len(got) + 1])
      BY <1>3, <2>0, <2>3 DEF InOrder
    <2>5. Len(got) <= n + 1 /\ (rPc = "body" => Len(got) < n + 1)
      BY <2>1
    <2>6. rPc = "idle" => rBuf = <<>>
      BY <2>0 DEF InOrder
    <2> QED
      BY <1>2, <1>3, <2>2, <2>4, <2>5, <2>6, Zenon DEF InOrder
  <1>7. PICK row \in Seq(Nat), start \in [1 .. n + 1 -> Nat] : Row(row, start)
    BY <1>0 DEF Inv
  <1> DEFINE row2 == row \o frame
             start2 == [i \in 1 .. n + 2 |->
                           IF i <= n + 1 THEN start[i] ELSE start[n + 1] + HeadLen + Len(m)]
  <1>8. /\ frame \in Seq(Nat) /\ Len(frame) = HeadLen + Len(m)
        /\ frame[1] = Magic /\ frame[2] = Len(m)
        /\ \A j \in 1 .. Len(m) : frame[HeadLen + j] = m[j]
    <2>1. /\ frame \in Seq(Nat) /\ Len(frame) = Len(HeadOf(m)) + Len(m)
          /\ \A i \in 1 .. Len(HeadOf(m)) : frame[i] = HeadOf(m)[i]
          /\ \A j \in 1 .. Len(m) : frame[Len(HeadOf(m)) + j] = m[j]
      BY <1>1, Concat
    <2> HIDE DEF frame
    <2>2. 1 \in 1 .. HeadLen /\ 2 \in 1 .. HeadLen
      BY DEF HeadLen
    <2> QED
      BY <1>1, <2>1, <2>2
  <1> HIDE DEF frame
  <1>9. /\ Len(row) \in Nat /\ row2 \in Seq(Nat) /\ Len(row2) = Len(row) + HeadLen + Len(m)
        /\ \A i \in 1 .. Len(row) : row2[i] = row[i]
        /\ \A i \in 1 .. HeadLen + Len(m) : row2[Len(row) + i] = frame[i]
    <2>1. /\ Len(row) \in Nat /\ row2 \in Seq(Nat) /\ Len(row2) = Len(row) + Len(frame)
          /\ \A i \in 1 .. Len(row) : row2[i] = row[i]
          /\ \A i \in 1 .. Len(frame) : row2[Len(row) + i] = frame[i]
      BY <1>8, Concat
    <2> HIDE DEF row2
    <2> QED
      BY <1>1, <1>8, <2>1 DEF HeadLen
  <1>10. /\ start2 \in [1 .. n + 2 -> Nat]
         /\ \A i \in 1 .. n + 1 : start2[i] = start[i]
         /\ start2[n + 2] = start[n + 1] + HeadLen + Len(m)
         /\ start[n + 1] = Len(row) /\ start[1] = 0
    BY <1>0, <1>1, <1>3, <1>7 DEF Row, Holds, HeadLen
  <1> HIDE DEF row2, start2
  <1>11. Holds(row2, start2, sentMsgs')
    <2>1. ASSUME NEW i \in 1 .. n
          PROVE  /\ start2[i + 1] = start2[i] + HeadLen + Len(sentMsgs'[i])
                 /\ row2[start2[i] + 1] = Magic
                 /\ row2[start2[i] + 2] = Len(sentMsgs'[i])
                 /\ \A j \in 1 .. Len(sentMsgs'[i]) :
                       row2[start2[i] + (HeadLen + j)] = sentMsgs'[i][j]
      <3>1. /\ start[i + 1] = start[i] + HeadLen + Len(sentMsgs[i])
            /\ row[start[i] + 1] = Magic /\ row[start[i] + 2] = Len(sentMsgs[i])
            /\ \A j \in 1 .. Len(sentMsgs[i]) : row[start[i] + (HeadLen + j)] = sentMsgs[i][j]
        BY <1>0, <1>7 DEF Row, Holds
      <3>2. start2[i + 1] = start[i + 1] /\ start2[i] = start[i] /\ sentMsgs'[i] = sentMsgs[i]
        BY <1>3, <1>10
      <3>3. start[i] \in Nat /\ start[i + 1] \in Nat /\ start[i + 1] <= Len(row)
        <4>1. i \in 1 .. n + 1 /\ i + 1 \in 1 .. n + 1 /\ n + 1 \in 1 .. n + 1
          BY <1>3
        <4>4. \A a, b \in 1 .. n + 1 : a <= b => start[b] >= start[a] + HeadLen * (b - a)
          BY <1>0, <1>7 DEF Row, Holds
        <4>2. start[n + 1] >= start[i + 1] + HeadLen * ((n + 1) - (i + 1))
          BY <1>3, <4>1, <4>4
        <4>3. start[i] \in Nat /\ start[i + 1] \in Nat
          BY <4>1
        <4> QED
          BY <1>3, <1>10, <4>2, <4>3 DEF HeadLen
      <3>4. Len(sentMsgs[i]) \in Nat
        BY <1>0, <1>3, FramingAssumption, ElementOfSeq, LenProperties
      <3>5. \A x \in 1 .. HeadLen + Len(sentMsgs[i]) : row2[start[i] + x] = row[start[i] + x]
        <4>1. start[i] + HeadLen + Len(sentMsgs[i]) <= Len(row)
          BY <3>1, <3>3
        <4>2. ASSUME NEW x \in 1 .. HeadLen + Len(sentMsgs[i])
              PROVE  start[i] + x \in 1 .. Len(row)
          <5>1. Len(row) \in Nat
            BY <1>9
          <5>2. x \in Nat /\ x >= 1 /\ x <= HeadLen + Len(sentMsgs[i])
            BY <3>4 DEF HeadLen
          <5>3. \A a, x0, l, r0 \in Nat :
                   x0 >= 1 /\ x0 <= HeadLen + l /\ a + HeadLen + l <= r0
                   => a + x0 \in 1 .. r0
            BY DEF HeadLen
          <5> QED
            BY <3>3, <3>4, <4>1, <5>1, <5>2, <5>3, Zenon
        <4> QED
          BY <1>9, <4>2
      <3>6. row2[start[i] + 1] = row[start[i] + 1] /\ row2[start[i] + 2] = row[start[i] + 2]
        BY <3>4, <3>5 DEF HeadLen
      <3>7. ASSUME NEW j \in 1 .. Len(sentMsgs[i])
            PROVE  row2[start[i] + (HeadLen + j)] = sentMsgs[i][j]
        <4>1. HeadLen + j \in 1 .. HeadLen + Len(sentMsgs[i])
          BY <3>4 DEF HeadLen
        <4>2. row2[start[i] + (HeadLen + j)] = row[start[i] + (HeadLen + j)]
          BY <3>5, <4>1
        <4> QED
          BY <3>1, <4>2
      <3> QED
        BY <3>1, <3>2, <3>6, <3>7
    <2>2. /\ start2[(n + 1) + 1] = start2[n + 1] + HeadLen + Len(sentMsgs'[n + 1])
          /\ row2[start2[n + 1] + 1] = Magic
          /\ row2[start2[n + 1] + 2] = Len(sentMsgs'[n + 1])
          /\ \A j \in 1 .. Len(sentMsgs'[n + 1]) :
                row2[start2[n + 1] + (HeadLen + j)] = sentMsgs'[n + 1][j]
      <3>1. start2[n + 1] = Len(row) /\ (n + 1) + 1 = n + 2
        BY <1>3, <1>10
      <3>2. row2[Len(row) + 1] = frame[1] /\ row2[Len(row) + 2] = frame[2]
        BY <1>1, <1>9 DEF HeadLen
      <3>3. ASSUME NEW j \in 1 .. Len(m)
            PROVE  row2[Len(row) + (HeadLen + j)] = m[j]
        <4>1. HeadLen + j \in 1 .. HeadLen + Len(m)
          BY <1>1 DEF HeadLen
        <4>2. row2[Len(row) + (HeadLen + j)] = frame[HeadLen + j]
          BY <1>9, <4>1
        <4> QED
          BY <1>8, <4>2
      <3> QED
        BY <1>3, <1>8, <1>10, <3>1, <3>2, <3>3
    <2>3. ASSUME NEW i \in 1 .. n + 2, NEW j \in 1 .. n + 2, i <= j
          PROVE  start2[j] >= start2[i] + HeadLen * (j - i)
      <3>1. \A a, b \in 1 .. n + 1 : a <= b => start[b] >= start[a] + HeadLen * (b - a)
        BY <1>0, <1>7 DEF Row, Holds
      <3>2. CASE j <= n + 1
        <4>1. i \in 1 .. n + 1 /\ j \in 1 .. n + 1
          BY <1>3, <2>3, <3>2
        <4>2. start2[i] = start[i] /\ start2[j] = start[j]
          BY <1>10, <4>1
        <4> QED
          BY <2>3, <3>1, <4>1, <4>2
      <3>3. CASE j = n + 2 /\ i <= n + 1
        <4>1. start[n + 1] >= start[i] + HeadLen * ((n + 1) - i)
          BY <1>3, <3>1, <3>3
        <4>2. start[i] \in Nat /\ start[n + 1] \in Nat /\ start2[i] = start[i]
          BY <1>3, <1>10, <3>3
        <4> QED
          BY <1>1, <1>3, <1>10, <3>3, <4>1, <4>2 DEF HeadLen
      <3>4. CASE j = n + 2 /\ i = n + 2
        <4>1. start2[n + 2] \in Nat
          BY <1>3, <1>10
        <4> QED
          BY <1>3, <3>4, <4>1 DEF HeadLen
      <3> QED
        BY <1>3, <3>2, <3>3, <3>4
    <2>4. Len(row2) = start2[n + 2] /\ start2[1] = 0
      BY <1>3, <1>9, <1>10, 1 \in 1 .. n + 1
    <2>5. \A i \in 1 .. n + 1 : i \in 1 .. n \/ i = n + 1
      BY <1>3
    <2>6. Len(sentMsgs') + 1 = n + 2
      BY <1>3
    <2> QED
      BY <1>3, <1>10, <2>1, <2>2, <2>3, <2>4, <2>5, <2>6 DEF Holds
  <1>12. PICK at \in Nat : at = Place(start)
    BY <1>0, PlaceType DEF Inv
  <1>13. Place(start2)' = at
    <2>1. Len(got) \in Nat /\ Len(got) <= n
      BY <1>0, Types DEF Inv, InOrder
    <2>2. Len(got) + 1 \in 1 .. n + 1
      BY <2>1
    <2>3. start2[Len(got) + 1] = start[Len(got) + 1] /\ Consumed' = Consumed
      BY <1>2, <1>10, <2>2 DEF Consumed
    <2> QED
      BY <1>2, <1>12, <2>3 DEF Place
  <1>14. Divided(row2, at)'
    <2>1. /\ at + Len(stream) + Len(Left) = Len(row)
          /\ LiesAt(row, rBuf, at - Len(rBuf))
          /\ LiesAt(row, stream, at)
      BY <1>7, <1>12 DEF Row, Divided
    <2>2. at - Len(rBuf) \in Nat /\ Len(rBuf) \in Nat
      BY <1>0, <1>12, PlaceType, Types DEF Inv
    <2>3. Left = <<>> /\ Left' = frame
      BY <1>2 DEF Left, LeftOf, frame
    <2>4. Len(Left) = 0 /\ Len(stream) \in Nat
      BY <2>3, Types DEF Inv
    <2>6. at + Len(stream) = Len(row)
      BY <2>1, <2>4
    <2>7. LiesAt(row2, rBuf, at - Len(rBuf)) /\ LiesAt(row2, stream, at)
      <3>1. stream \in Seq(Nat) /\ rBuf \in Seq(Nat)
        BY Types DEF Inv
      <3>2. (at - Len(rBuf)) + Len(rBuf) <= Len(row) /\ at + Len(stream) <= Len(row)
        BY <1>9, <2>2, <2>4, <2>6
      <3> QED
        BY <1>8, <2>1, <2>2, <3>1, <3>2, LiesInLonger DEF row2
    <2>8. LiesAt(row2, frame, Len(row))
      BY <1>8, NewLiesAtEnd DEF row2
    <2>9. at + Len(stream) + Len(frame) = Len(row2)
      <3>1. \A c, d \in Nat : c + (HeadLen + d) = c + HeadLen + d
        BY DEF HeadLen
      <3>2. Len(row) \in Nat /\ Len(m) \in Nat
        BY <1>1, <1>9
      <3>3. at + Len(stream) + Len(frame) = Len(row) + (HeadLen + Len(m))
        BY <1>8, <2>6, Zenon
      <3> QED
        BY <1>9, <3>1, <3>2, <3>3, Zenon
    <2> QED
      BY <1>2, <2>3, <2>6, <2>7, <2>8, <2>9, Zenon DEF Divided
  <1> QED
    <2>1. row2 \in Seq(Nat) /\ start2 \in [1 .. Len(sentMsgs') + 1 -> Nat]
      BY <1>3, <1>9, <1>10
    <2>2. Row(row2, start2)'
      BY <1>11, <1>13, <1>14 DEF Row
    <2> QED
      BY <1>4, <1>5, <1>6, <2>1, <2>2 DEF Inv

(* Every state of Inv comes with its row and the reader's place in it.     *)
LEMMA Witnesses ==
    ASSUME Inv
    PROVE  \E row \in Seq(Nat), start \in [1 .. Len(sentMsgs) + 1 -> Nat], at \in Nat :
              Holds(row, start, sentMsgs) /\ at = Place(start) /\ Divided(row, at)
  <1>1. PICK row \in Seq(Nat), start \in [1 .. Len(sentMsgs) + 1 -> Nat] : Row(row, start)
    BY DEF Inv
  <1>2. Place(start) \in Nat
    BY PlaceType DEF Inv
  <1> QED
    BY <1>1, <1>2 DEF Row

(* Bytes that go from the front of what is left to the end of the stream. *)
LEMMA Moved ==
    ASSUME NEW row \in Seq(Nat), NEW s \in Seq(Nat), NEW b \in Seq(Nat), NEW l \in Seq(Nat),
           NEW at \in Int, LiesAt(row, s, at), LiesAt(row, b \o l, at + Len(s))
    PROVE  /\ LiesAt(row, s \o b, at) /\ LiesAt(row, l, at + Len(s \o b))
           /\ at + Len(s \o b) + Len(l) = at + Len(s) + Len(b \o l)
  <1>1. /\ Len(s) \in Nat /\ Len(b) \in Nat /\ Len(l) \in Nat
        /\ Len(s \o b) = Len(s) + Len(b) /\ Len(b \o l) = Len(b) + Len(l)
    BY Concat
  <1>2. at + Len(s) \in Int
    BY <1>1
  <1>3. LiesAt(row, b, at + Len(s)) /\ LiesAt(row, l, (at + Len(s)) + Len(b))
    BY <1>2, LiesSplit
  <1>4. LiesAt(row, s \o b, at)
    BY <1>3, LiesJoin
  <1>5. /\ (at + Len(s)) + Len(b) = at + Len(s \o b)
        /\ at + Len(s \o b) + Len(l) = at + Len(s) + Len(b \o l)
    BY <1>1
  <1> QED
    BY <1>3, <1>4, <1>5

LEMMA SendSomeStep ==
    ASSUME Inv, SendSome
    PROVE  Inv'
  <1>1. /\ toSend \in Seq(Seq(Nat)) /\ Len(toSend) <= 2 /\ toSend # <<>>
        /\ stream \in Seq(Nat) /\ Len(stream) \in Nat
    BY Types DEF Inv, SendSome
  <1> DEFINE a == Head(toSend)
  <1>2. PICK k \in 1 .. Len(a) : Put(k) /\ toSend' = <<SubSeq(a, k + 1, Len(a))>> \o Tail(toSend)
    BY DEF SendSome
  <1>3. /\ stream' = stream \o SubSeq(a, 1, k) /\ Len(stream) + k <= BufSize
        /\ UNCHANGED <<proc, sentMsgs, rPc, rLen, rBuf, got>>
    BY <1>2 DEF Put, readerVars
  <1>4. a \in Seq(Nat) /\ Len(a) \in Nat /\ k \in 0 .. Len(a)
    BY <1>1, <1>2, FirstPart, LenProperties
  <1>5. PICK b \in Seq(Nat), c \in Seq(Nat) :
           b = SubSeq(a, 1, k) /\ c = SubSeq(a, k + 1, Len(a)) /\ Len(b) = k /\ a = b \o c
    BY <1>4, CutAt
  <1>6. PICK d \in Seq(Nat) : d = LeftOf(Tail(toSend))
    BY <1>1, FirstPart
  <1>7. Left = b \o (c \o d) /\ Left' = c \o d
    <2>1. Left = (b \o c) \o d
      BY <1>1, <1>5, <1>6, FirstPart DEF Left
    <2>2. Left' = c \o d
      BY <1>1, <1>2, <1>5, <1>6, FirstPart DEF Left
    <2> QED
      BY <2>1, <2>2, ConcatAssociative
  <1>8. stream' = stream \o b /\ stream' \in Seq(Nat) /\ Len(stream') <= BufSize
    BY <1>1, <1>3, <1>5, Concat
  <1>9. toSend' \in Seq(Seq(Nat)) /\ Len(toSend') <= 2
    BY <1>1, <1>2, <1>5, FirstPart
  <1>10. TypeOK'
    BY <1>3, <1>8, <1>9 DEF Inv, TypeOK
  <1>11. PICK row \in Seq(Nat), start \in [1 .. Len(sentMsgs) + 1 -> Nat], at \in Nat :
            Holds(row, start, sentMsgs) /\ at = Place(start) /\ Divided(row, at)
    BY Witnesses
  <1>12. Divided(row, at)'
    <2>1. /\ LiesAt(row, rBuf, at - Len(rBuf)) /\ LiesAt(row, stream, at)
          /\ LiesAt(row, b \o (c \o d), at + Len(stream))
          /\ at + Len(stream) + Len(b \o (c \o d)) = Len(row)
      BY <1>7, <1>11 DEF Divided
    <2>2. c \o d \in Seq(Nat) /\ at \in Int
      BY Concat
    <2>3. /\ LiesAt(row, stream \o b, at) /\ LiesAt(row, c \o d, at + Len(stream \o b))
          /\ at + Len(stream \o b) + Len(c \o d) = Len(row)
      <3>1. PICK l \in Seq(Nat) : l = c \o d
        BY <2>2
      <3>2. LiesAt(row, b \o l, at + Len(stream))
        BY <2>1, <3>1
      <3>3. /\ LiesAt(row, stream \o b, at) /\ LiesAt(row, l, at + Len(stream \o b))
            /\ at + Len(stream \o b) + Len(l) = at + Len(stream) + Len(b \o l)
        BY <1>1, <2>1, <2>2, <3>2, Moved
      <3> QED
        BY <2>1, <3>1, <3>3, Zenon
    <2> QED
      BY <1>3, <1>7, <1>8, <2>1, <2>3, Zenon DEF Divided
  <1>13. Place(start)' = at
    BY <1>3, <1>11 DEF Place, Consumed
  <1>14. InOrder' /\ RefusesOnlyOversized'
    BY <1>3 DEF Inv, InOrder, RefusesOnlyOversized
  <1>15. Row(row, start)'
    BY <1>3, <1>11, <1>12, <1>13 DEF Row
  <1> QED
    BY <1>3, <1>10, <1>14, <1>15 DEF Inv

(* A step that moves no byte and of the reader's state changes nothing.    *)
LEMMA NothingMoves ==
    ASSUME Inv, TypeOK', Left' = Left, UNCHANGED <<stream, rPc, rLen, rBuf, sentMsgs, got>>,
           proc' \in {proc, "socket"}
    PROVE  Inv'
  <1>1. PICK row \in Seq(Nat), start \in [1 .. Len(sentMsgs) + 1 -> Nat] : Row(row, start)
    BY DEF Inv
  <1>2. Row(row, start)'
    BY <1>1 DEF Row, Divided, Place, Consumed
  <1>3. InOrder' /\ RefusesOnlyOversized'
    BY DEF Inv, InOrder, RefusesOnlyOversized
  <1> QED
    BY <1>2, <1>3 DEF Inv

LEMMA SendnReturnsStep ==
    ASSUME Inv, SendnReturns
    PROVE  Inv'
  <1>1. /\ toSend \in Seq(Seq(Nat)) /\ Len(toSend) <= 2 /\ toSend # <<>>
        /\ Head(toSend) = <<>> /\ toSend' = Tail(toSend)
        /\ UNCHANGED <<proc, stream, sentMsgs, rPc, rLen, rBuf, got>>
    BY Types DEF Inv, SendnReturns, readerVars
  <1>2. toSend' \in Seq(Seq(Nat)) /\ Len(toSend') <= 2 /\ Left' = Left
    <2>1. /\ Tail(toSend) \in Seq(Seq(Nat)) /\ Len(Tail(toSend)) <= 2
          /\ LeftOf(Tail(toSend)) \in Seq(Nat)
          /\ LeftOf(toSend) = <<>> \o LeftOf(Tail(toSend))
      BY <1>1, FirstPart
    <2>2. <<>> \o LeftOf(Tail(toSend)) = LeftOf(Tail(toSend))
      BY <2>1, ConcatEmptySeq
    <2> QED
      BY <1>1, <2>1, <2>2 DEF Left
  <1>3. TypeOK'
    BY <1>1, <1>2 DEF Inv, TypeOK
  <1> QED
    BY <1>1, <1>2, <1>3, NothingMoves

LEMMA FailsStep ==
    ASSUME Inv, SendFails \/ RecvFails
    PROVE  Inv'
  <1>1. proc' = "socket" /\ UNCHANGED <<stream, toSend, sentMsgs, rPc, rLen, rBuf, got>>
    BY DEF SendFails, RecvFails, writerVars, readerVars
  <1>2. TypeOK' /\ Left' = Left
    BY <1>1 DEF Inv, TypeOK, Left
  <1> QED
    BY <1>1, <1>2, NothingMoves

------------------------------------------------------------------------------
(* The reading thread *)

LEMMA CallRecvStep ==
    ASSUME Inv, CallRecv
    PROVE  Inv'
  <1>1. /\ rPc = "idle" /\ rPc' = "head" /\ rBuf' = <<>> /\ rBuf = <<>>
        /\ UNCHANGED <<proc, stream, toSend, sentMsgs, rLen, got>>
    BY DEF Inv, InOrder, CallRecv, writerVars
  <1>2. TypeOK'
    <2>1. Len(rBuf') <= HeadLen /\ rBuf' \in Seq(Nat)
      BY <1>1, EmptySeq DEF HeadLen
    <2> QED
      BY <1>1, <2>1 DEF Inv, TypeOK
  <1>3. PICK row \in Seq(Nat), start \in [1 .. Len(sentMsgs) + 1 -> Nat], at \in Nat :
           Holds(row, start, sentMsgs) /\ at = Place(start) /\ Divided(row, at)
    BY Witnesses
  <1>4. Divided(row, at)'
    BY <1>1, <1>3 DEF Divided, Left
  <1>5. Place(start)' = at
    <2>1. Consumed = 0 /\ Consumed' = 0
      BY <1>1, EmptySeq DEF Consumed
    <2> QED
      BY <1>1, <1>3, <2>1 DEF Place
  <1>6. Row(row, start)'
    BY <1>1, <1>3, <1>4, <1>5 DEF Row
  <1>7. InOrder' /\ RefusesOnlyOversized'
    BY <1>1 DEF Inv, InOrder, RefusesOnlyOversized
  <1> QED
    BY <1>1, <1>2, <1>6, <1>7 DEF Inv

(* Bytes that go from the front of the stream to the end of the buffer.   *)
LEMMA Received ==
    ASSUME NEW row \in Seq(Nat), NEW r \in Seq(Nat), NEW b \in Seq(Nat), NEW s \in Seq(Nat),
           NEW at \in Int, LiesAt(row, r, at - Len(r)), LiesAt(row, b \o s, at)
    PROVE  /\ LiesAt(row, r \o b, (at + Len(b)) - Len(r \o b))
           /\ LiesAt(row, s, at + Len(b))
           /\ at + Len(b) + Len(s) = at + Len(b \o s)
  <1>1. /\ Len(r) \in Nat /\ Len(b) \in Nat /\ Len(s) \in Nat
        /\ Len(r \o b) = Len(r) + Len(b) /\ Len(b \o s) = Len(b) + Len(s)
    BY Concat
  <1>2. LiesAt(row, b, at) /\ LiesAt(row, s, at + Len(b))
    BY LiesSplit
  <1>3. /\ at - Len(r) \in Int /\ (at - Len(r)) + Len(r) = at
        /\ (at + Len(b)) - Len(r \o b) = at - Len(r)
        /\ at + Len(b) + Len(s) = at + Len(b \o s)
    BY <1>1
  <1>4. LiesAt(row, r \o b, at - Len(r))
    BY <1>2, <1>3, LiesJoin, Zenon
  <1> QED
    BY <1>2, <1>3, <1>4, Zenon

LEMMA RecvSomeStep ==
    ASSUME Inv, RecvSome
    PROVE  Inv'
  <1>1. /\ stream \in Seq(Nat) /\ Len(stream) \in Nat /\ rBuf \in Seq(Nat) /\ Len(rBuf) \in Nat
        /\ rLen \in Nat /\ BufSize \in Nat /\ Left \in Seq(Nat)
    BY Types, LeftType DEF Inv
  <1>2. PICK k \in 1 .. Len(stream) : k <= nleft /\ Take(k)
    BY DEF RecvSome
  <1>3. /\ rPc # "idle" /\ rBuf' = rBuf \o SubSeq(stream, 1, k)
        /\ stream' = SubSeq(stream, k + 1, Len(stream))
        /\ UNCHANGED <<proc, toSend, sentMsgs, rPc, rLen, got>>
    BY <1>2 DEF Take, writerVars
  <1>4. k \in 0 .. Len(stream) /\ k \in Nat /\ k <= Len(stream)
    BY <1>1, <1>2
  <1>5. PICK b \in Seq(Nat), c \in Seq(Nat) :
           /\ b = SubSeq(stream, 1, k) /\ c = SubSeq(stream, k + 1, Len(stream))
           /\ Len(b) = k /\ Len(c) = Len(stream) - k /\ stream = b \o c
    <2>1. /\ SubSeq(stream, 1, k) \in Seq(Nat) /\ Len(SubSeq(stream, 1, k)) = k
          /\ SubSeq(stream, k + 1, Len(stream)) \in Seq(Nat)
          /\ Len(SubSeq(stream, k + 1, Len(stream))) = Len(stream) - k
          /\ SubSeq(stream, 1, k) \o SubSeq(stream, k + 1, Len(stream)) = stream
      BY <1>1, <1>4, CutAt
    <2> QED
      BY <2>1, Zenon
  <1>6. /\ rBuf' = rBuf \o b /\ stream' = c
        /\ rBuf' \in Seq(Nat) /\ Len(rBuf') = Len(rBuf) + k
    BY <1>1, <1>3, <1>5, Concat
  <1>7. TypeOK'
    <2>1. Len(c) <= BufSize
      BY <1>1, <1>4, <1>5 DEF Inv, TypeOK
    <2>2. Len(rBuf') <= IF rPc = "body" THEN rLen ELSE HeadLen
      <3>1. rPc \in {"head", "body"}
        BY <1>3 DEF Inv, TypeOK
      <3>2. CASE rPc = "body"
        <4>1. k <= rLen - Len(rBuf)
          BY <1>2, <3>2 DEF nleft
        <4> QED
          BY <1>1, <1>4, <1>6, <3>2, <4>1
      <3>3. CASE rPc = "head"
        <4>1. k <= HeadLen - Len(rBuf)
          BY <1>2, <3>3 DEF nleft
        <4> QED
          BY <1>1, <1>4, <1>6, <3>3, <4>1 DEF HeadLen
      <3> QED
        BY <3>1, <3>2, <3>3
    <2> QED
      BY <1>3, <1>6, <2>1, <2>2 DEF Inv, TypeOK
  <1>8. PICK row \in Seq(Nat), start \in [1 .. Len(sentMsgs) + 1 -> Nat], at \in Nat :
           Holds(row, start, sentMsgs) /\ at = Place(start) /\ Divided(row, at)
    BY Witnesses
  <1>9. Divided(row, at + k)'
    <2>1. /\ LiesAt(row, rBuf, at - Len(rBuf)) /\ LiesAt(row, b \o c, at)
          /\ LiesAt(row, Left, at + Len(b \o c))
          /\ at + Len(b \o c) + Len(Left) = Len(row)
      BY <1>5, <1>8 DEF Divided
    <2>2. /\ LiesAt(row, rBuf \o b, (at + k) - Len(rBuf \o b)) /\ LiesAt(row, c, at + k)
          /\ at + k + Len(c) = at + Len(b \o c)
      <3>1. at \in Int
        OBVIOUS
      <3>2. /\ LiesAt(row, rBuf \o b, (at + Len(b)) - Len(rBuf \o b))
            /\ LiesAt(row, c, at + Len(b))
            /\ at + Len(b) + Len(c) = at + Len(b \o c)
        BY <1>1, <2>1, <3>1, Received
      <3> QED
        BY <1>5, <3>2, Zenon
    <2>3. Left' = Left
      BY <1>3 DEF Left
    <2> QED
      BY <1>6, <2>1, <2>2, <2>3, Zenon DEF Divided
  <1>10. Place(start)' = at + k
    <2>1. start[Len(got) + 1] \in Nat
      BY PlaceType DEF Inv
    <2>2. rPc \in {"head", "body"}
      BY <1>3 DEF Inv, TypeOK
    <2>3. Consumed \in Nat /\ Consumed' = Consumed + k
      <3>1. CASE rPc = "head"
        <4>1. Consumed = Len(rBuf) /\ Consumed' = Len(rBuf')
          BY <1>3, <3>1 DEF Consumed
        <4> QED
          BY <1>1, <1>6, <4>1
      <3>2. CASE rPc = "body"
        <4>1. Consumed = HeadLen + Len(rBuf) /\ Consumed' = HeadLen + Len(rBuf')
          BY <1>3, <3>2 DEF Consumed
        <4>2. \A x, y \in Nat : HeadLen + x \in Nat /\ HeadLen + (x + y) = HeadLen + x + y
          BY DEF HeadLen
        <4>3. Len(rBuf) \in Nat /\ k \in Nat /\ Len(rBuf') = Len(rBuf) + k
          BY <1>1, <1>4, <1>6
        <4>4. Consumed' = HeadLen + (Len(rBuf) + k)
          BY <4>1, <4>3, Zenon
        <4>5. HeadLen + (Len(rBuf) + k) = HeadLen + Len(rBuf) + k
          BY <4>2, <4>3
        <4> QED
          BY <4>1, <4>2, <4>3, <4>4, <4>5, Zenon
      <3> QED
        BY <2>2, <3>1, <3>2
    <2>4. Place(start)' = start[Len(got) + 1] + Consumed' /\ at = start[Len(got) + 1] + Consumed
      BY <1>3, <1>8 DEF Place
    <2>5. \A x, y, z \in Nat : x + (y + z) = x + y + z
      OBVIOUS
    <2> QED
      BY <1>4, <2>1, <2>3, <2>4, <2>5, Zenon
  <1>11. Row(row, start)'
    BY <1>3, <1>8, <1>9, <1>10 DEF Row
  <1>12. InOrder' /\ RefusesOnlyOversized'
    BY <1>3 DEF Inv, InOrder, RefusesOnlyOversized
  <1> QED
    BY <1>3, <1>7, <1>11, <1>12 DEF Inv

(* What recvn has read for a head is the head of the next message.        *)
LEMMA HeadIsHead ==
    ASSUME Inv, rPc = "head", nleft <= 0
    PROVE  /\ Len(rBuf) = HeadLen /\ Len(got) < Len(sentMsgs)
           /\ rBuf[1] = Magic /\ rBuf[2] = Len(sentMsgs[Len(got) + 1])
  <1>1. Len(rBuf) \in Nat /\ Len(stream) \in Nat /\ Len(Left) \in Nat
    BY Types, LeftType DEF Inv
  <1>2. Len(rBuf) = HeadLen
    <2>1. Len(rBuf) <= HeadLen
      BY DEF Inv, TypeOK
    <2>2. HeadLen - Len(rBuf) <= 0
      BY DEF nleft
    <2>3. \A x \in Nat : x <= HeadLen /\ HeadLen - x <= 0 => x = HeadLen
      BY DEF HeadLen
    <2> QED
      BY <1>1, <2>1, <2>2, <2>3, Zenon
  <1>3. PICK row \in Seq(Nat), start \in [1 .. Len(sentMsgs) + 1 -> Nat], at \in Nat :
           Holds(row, start, sentMsgs) /\ at = Place(start) /\ Divided(row, at)
    BY Witnesses
  <1>4. PICK g \in Nat : g = Len(got)
    BY Types DEF Inv
  <1>5. PICK n \in Nat : n = Len(sentMsgs)
    BY Types DEF Inv
  <1>6. g <= n /\ start[g + 1] \in Nat /\ start[n + 1] \in Nat
    <2>1. g <= n /\ start[g + 1] \in Nat
      BY <1>4, <1>5, PlaceType DEF Inv, InOrder
    <2>2. n + 1 \in 1 .. n + 1
      OBVIOUS
    <2> QED
      BY <1>5, <2>1, <2>2
  <1>7. at = start[g + 1] + HeadLen
    BY <1>2, <1>3, <1>4 DEF Place, Consumed
  <1>8. start[n + 1] = start[g + 1] + HeadLen + Len(stream) + Len(Left)
    BY <1>3, <1>5, <1>7 DEF Holds, Divided
  <1>9. g < n
    <2>1. g # n
      <3>1. \A a, b, c \in Nat : a # a + HeadLen + b + c
        BY DEF HeadLen
      <3> QED
        BY <1>1, <1>6, <1>8, <3>1, Zenon
    <2> QED
      BY <1>6, <2>1
  <1>10. g + 1 \in 1 .. Len(sentMsgs)
    BY <1>5, <1>9
  <1>11. /\ row[start[g + 1] + 1] = Magic
         /\ row[start[g + 1] + 2] = Len(sentMsgs[g + 1])
    BY <1>3, <1>10 DEF Holds
  <1>12. at - Len(rBuf) = start[g + 1]
    BY <1>2, <1>6, <1>7 DEF HeadLen
  <1>13. \A i \in 1 .. Len(rBuf) : rBuf[i] = row[start[g + 1] + i]
    BY <1>3, <1>12 DEF Divided, LiesAt
  <1>14. 1 \in 1 .. Len(rBuf) /\ 2 \in 1 .. Len(rBuf)
    BY <1>2 DEF HeadLen
  <1>15. rBuf[1] = Magic /\ rBuf[2] = Len(sentMsgs[g + 1])
    BY <1>11, <1>13, <1>14, Zenon
  <1> QED
    BY <1>2, <1>4, <1>5, <1>9, <1>15

LEMMA CheckHeadStep ==
    ASSUME Inv, proc = "running", CheckHead
    PROVE  Inv'
  <1>1. /\ rPc = "head" /\ nleft <= 0
        /\ UNCHANGED <<stream, toSend, sentMsgs>>
    BY DEF CheckHead, writerVars
  <1>2. /\ Len(rBuf) = HeadLen /\ Len(got) < Len(sentMsgs)
        /\ rBuf[1] = Magic /\ rBuf[2] = Len(sentMsgs[Len(got) + 1])
    BY <1>1, HeadIsHead
  <1>3. Len(sentMsgs[Len(got) + 1]) \in Nat /\ MsgLimit \in Nat
    <2>1. /\ Len(got) \in Nat /\ Len(sentMsgs) \in Nat /\ MsgLimit \in Nat
          /\ sentMsgs \in Seq(Seq(Nat))
      BY Types DEF Inv
    <2>2. Len(got) + 1 \in 1 .. Len(sentMsgs)
      BY <1>2, <2>1
    <2>3. sentMsgs[Len(got) + 1] \in Seq(Nat)
      BY <2>1, <2>2, ElementOfSeq
    <2> QED
      BY <2>1, <2>3, LenProperties
  <1>4. CASE rBuf[2] <= MsgLimit
    <2>1. /\ rPc' = "body" /\ rLen' = rBuf[2] /\ rBuf' = <<>> /\ UNCHANGED <<proc, got>>
      BY <1>2, <1>4 DEF CheckHead
    <2>2. TypeOK'
      <3>1. rLen' \in 0 .. MsgLimit
        BY <1>2, <1>3, <1>4, <2>1
      <3>2. rBuf' \in Seq(Nat) /\ Len(rBuf') = 0 /\ 0 <= rLen'
        BY <2>1, <3>1, EmptySeq
      <3> QED
        BY <1>1, <2>1, <3>1, <3>2 DEF Inv, TypeOK
    <2>3. InOrder' /\ RefusesOnlyOversized'
      BY <1>1, <1>2, <2>1 DEF Inv, InOrder, RefusesOnlyOversized
    <2>4. PICK row \in Seq(Nat), start \in [1 .. Len(sentMsgs) + 1 -> Nat], at \in Nat :
             Holds(row, start, sentMsgs) /\ at = Place(start) /\ Divided(row, at)
      BY Witnesses
    <2>5. Place(start)' = at
      <3>1. Consumed = HeadLen /\ Consumed' = HeadLen
        <4>1. Consumed' = HeadLen + Len(rBuf') /\ Len(rBuf') = 0
          BY <2>1, EmptySeq DEF Consumed
        <4>2. Consumed = HeadLen /\ HeadLen + 0 = HeadLen
          BY <1>1, <1>2 DEF Consumed, HeadLen
        <4> QED
          BY <4>1, <4>2, Zenon
      <3> QED
        BY <2>1, <2>4, <3>1 DEF Place
    <2>6. Divided(row, at)'
      <3>1. LiesAt(row, <<>>, at - Len(rBuf'))
        BY EmptySeq DEF LiesAt
      <3> QED
        BY <1>1, <2>1, <2>4, <3>1 DEF Divided, Left
    <2>7. Row(row, start)'
      BY <1>1, <2>4, <2>5, <2>6 DEF Row
    <2> QED
      BY <1>1, <2>2, <2>3, <2>7 DEF Inv
  <1>5. CASE ~(rBuf[2] <= MsgLimit)
    <2>1. proc' = "length" /\ UNCHANGED <<rPc, rLen, rBuf, got>>
      BY <1>2, <1>5 DEF CheckHead, readerVars
    <2>2. TypeOK' /\ Left' = Left
      BY <1>1, <2>1 DEF Inv, TypeOK, Left
    <2>3. InOrder'
      BY <1>1, <2>1 DEF Inv, InOrder
    <2>4. RefusesOnlyOversized'
      <3>1. Len(sentMsgs[Len(got) + 1]) > MsgLimit
        BY <1>2, <1>3, <1>5
      <3> QED
        BY <1>1, <2>1, <3>1 DEF RefusesOnlyOversized
    <2>5. PICK row \in Seq(Nat), start \in [1 .. Len(sentMsgs) + 1 -> Nat] : Row(row, start)
      BY DEF Inv
    <2>6. Row(row, start)'
      BY <1>1, <2>1, <2>2, <2>5 DEF Row, Divided, Place, Consumed
    <2> QED
      BY <1>1, <2>2, <2>3, <2>4, <2>6 DEF Inv
  <1> QED
    BY <1>4, <1>5

(* What recvn has read for a body is the next message of the writer.      *)
LEMMA BodyIsMessage ==
    ASSUME Inv, rPc = "body", nleft <= 0
    PROVE  rBuf = sentMsgs[Len(got) + 1] /\ Len(rBuf) = rLen
  <1>1. rBuf \in Seq(Nat) /\ Len(rBuf) \in Nat /\ rLen \in Nat
    BY Types DEF Inv
  <1>2. Len(rBuf) = rLen
    <2>1. Len(rBuf) <= rLen
      BY DEF Inv, TypeOK
    <2>2. rLen - Len(rBuf) <= 0
      BY DEF nleft
    <2>3. \A x, y \in Nat : x <= y /\ y - x <= 0 => x = y
      OBVIOUS
    <2> QED
      BY <1>1, <2>1, <2>2, <2>3, Zenon
  <1>3. PICK row \in Seq(Nat), start \in [1 .. Len(sentMsgs) + 1 -> Nat], at \in Nat :
           Holds(row, start, sentMsgs) /\ at = Place(start) /\ Divided(row, at)
    BY Witnesses
  <1>4. PICK g \in Nat : g = Len(got)
    BY Types DEF Inv
  <1>5. g < Len(sentMsgs) /\ rLen = Len(sentMsgs[g + 1])
    BY <1>4 DEF Inv, InOrder
  <1>6. g + 1 \in 1 .. Len(sentMsgs)
    <2>1. Len(sentMsgs) \in Nat
      BY Types DEF Inv
    <2> QED
      BY <1>5, <2>1
  <1>7. PICK m \in Seq(Nat) : m = sentMsgs[g + 1]
    <2>1. sentMsgs \in Seq(Seq(Nat))
      BY Types DEF Inv
    <2> QED
      BY <1>6, <2>1, ElementOfSeq
  <1>8. \A j \in 1 .. Len(m) : row[start[g + 1] + (HeadLen + j)] = m[j]
    BY <1>3, <1>6, <1>7 DEF Holds
  <1>9. start[g + 1] \in Nat /\ at = start[g + 1] + (HeadLen + Len(rBuf))
    BY <1>3, <1>4, PlaceType DEF Inv, Place, Consumed
  <1>10. \A j \in 1 .. Len(rBuf) : rBuf[j] = row[start[g + 1] + (HeadLen + j)]
    <2>1. at - Len(rBuf) = start[g + 1] + HeadLen
      <3>1. \A a, l \in Nat : (a + (HeadLen + l)) - l = a + HeadLen
        BY DEF HeadLen
      <3> QED
        BY <1>1, <1>9, <3>1, Zenon
    <2>2. \A j \in 1 .. Len(rBuf) : rBuf[j] = row[(start[g + 1] + HeadLen) + j]
      BY <1>3, <2>1 DEF Divided, LiesAt
    <2>3. \A a \in Nat : \A j \in 1 .. Len(rBuf) : (a + HeadLen) + j = a + (HeadLen + j)
      BY <1>1 DEF HeadLen
    <2> QED
      BY <1>9, <2>2, <2>3, Zenon
  <1>11. Len(rBuf) = Len(m) /\ \A j \in 1 .. Len(rBuf) : rBuf[j] = m[j]
    BY <1>2, <1>5, <1>7, <1>8, <1>10, Zenon
  <1>12. rBuf = m
    BY <1>1, <1>11, SeqEqual
  <1> QED
    BY <1>2, <1>4, <1>7, <1>12

LEMMA RecvReturnsStep ==
    ASSUME Inv, proc = "running", RecvReturns
    PROVE  Inv'
  <1>1. /\ rPc = "body" /\ nleft <= 0 /\ rPc' = "idle" /\ rBuf' = <<>>
        /\ got' = Append(got, rBuf)
        /\ UNCHANGED <<proc, stream, toSend, sentMsgs, rLen>>
    BY DEF RecvReturns, writerVars
  <1>2. rBuf = sentMsgs[Len(got) + 1] /\ Len(rBuf) = rLen
    BY <1>1, BodyIsMessage
  <1>3. PICK g \in Nat : g = Len(got)
    BY Types DEF Inv
  <1>4. /\ rBuf \in Seq(Nat) /\ Len(rBuf) \in Nat /\ got \in Seq(Seq(Nat))
        /\ Len(sentMsgs) \in Nat
    BY Types DEF Inv
  <1>5. /\ got' \in Seq(Seq(Nat)) /\ Len(got') = g + 1 /\ got'[g + 1] = rBuf
        /\ \A i \in 1 .. g : got'[i] = got[i]
    BY <1>1, <1>3, <1>4, AppendProperties
  <1>6. g < Len(sentMsgs) /\ \A i \in 1 .. g : got[i] = sentMsgs[i]
    BY <1>1, <1>3 DEF Inv, InOrder
  <1>7. TypeOK'
    <2>1. rBuf' \in Seq(Nat) /\ Len(rBuf') <= HeadLen
      BY <1>1, EmptySeq DEF HeadLen
    <2> QED
      BY <1>1, <1>5, <2>1 DEF Inv, TypeOK
  <1>8. InOrder'
    <2>1. \A i \in 1 .. g + 1 : i \in 1 .. g \/ i = g + 1
      BY <1>3
    <2>2. \A i \in 1 .. g + 1 : got'[i] = sentMsgs[i]
      BY <1>2, <1>3, <1>5, <1>6, <2>1, Zenon
    <2>3. g + 1 <= Len(sentMsgs)
      BY <1>4, <1>6
    <2> QED
      BY <1>1, <1>5, <2>2, <2>3 DEF InOrder
  <1>9. RefusesOnlyOversized'
    BY <1>1 DEF RefusesOnlyOversized
  <1>10. PICK row \in Seq(Nat), start \in [1 .. Len(sentMsgs) + 1 -> Nat], at \in Nat :
            Holds(row, start, sentMsgs) /\ at = Place(start) /\ Divided(row, at)
    BY Witnesses
  <1>11. Place(start)' = at
    <2>1. g + 1 \in 1 .. Len(sentMsgs)
      BY <1>4, <1>6
    <2>2. start[(g + 1) + 1] = start[g + 1] + HeadLen + Len(rBuf)
      BY <1>2, <1>3, <1>10, <2>1 DEF Holds
    <2>3. Place(start)' = start[(g + 1) + 1] + 0
      BY <1>1, <1>5 DEF Place, Consumed
    <2>4. at = start[g + 1] + (HeadLen + Len(rBuf))
      BY <1>1, <1>3, <1>10 DEF Place, Consumed
    <2>5. start[g + 1] \in Nat
      BY <1>3, PlaceType DEF Inv
    <2>6. \A a, l \in Nat : (a + HeadLen + l) + 0 = a + (HeadLen + l)
      BY DEF HeadLen
    <2> QED
      BY <1>4, <2>2, <2>3, <2>4, <2>5, <2>6, Zenon
  <1>12. Divided(row, at)'
    <2>1. LiesAt(row, <<>>, at - Len(rBuf'))
      BY EmptySeq DEF LiesAt
    <2> QED
      BY <1>1, <1>10, <2>1 DEF Divided, Left
  <1>13. Row(row, start)'
    BY <1>1, <1>10, <1>11, <1>12 DEF Row
  <1> QED
    BY <1>1, <1>7, <1>8, <1>9, <1>13 DEF Inv

------------------------------------------------------------------------------
(* The invariant *)

LEMMA InitInv ==
    ASSUME Init
    PROVE  Inv
  <1>1. /\ proc = "running" /\ stream = <<>> /\ toSend = <<>> /\ rPc = "idle" /\ rLen = 0
        /\ rBuf = <<>> /\ sentMsgs = <<>> /\ got = <<>>
    BY DEF Init
  <1>2. TypeOK
    <2>1. /\ stream \in Seq(Nat) /\ toSend \in Seq(Seq(Nat)) /\ rBuf \in Seq(Nat)
          /\ sentMsgs \in Seq(Messages) /\ got \in Seq(Seq(Nat))
          /\ Len(stream) = 0 /\ Len(toSend) = 0 /\ Len(rBuf) = 0 /\ Len(sentMsgs) = 0
      BY <1>1, EmptySeq
    <2>2. 0 <= BufSize /\ 0 <= MaxMsgs /\ 0 \in 0 .. MsgLimit
      BY FramingAssumption
    <2> QED
      BY <1>1, <2>1, <2>2 DEF TypeOK, HeadLen
  <1>3. RefusesOnlyOversized /\ InOrder
    BY <1>1, EmptySeq DEF RefusesOnlyOversized, InOrder
  <1>4. PICK row \in Seq(Nat) : row = <<>> /\ Len(row) = 0
    BY EmptySeq
  <1>5. PICK start \in [1 .. Len(sentMsgs) + 1 -> Nat] : start = [i \in 1 .. 0 + 1 |-> 0]
    BY <1>1, EmptySeq
  <1>6. Len(sentMsgs) = 0 /\ Len(got) = 0 /\ Len(rBuf) = 0 /\ Len(stream) = 0
    BY <1>1, EmptySeq
  <1>7. Holds(row, start, sentMsgs)
    BY <1>4, <1>5, <1>6 DEF Holds, HeadLen
  <1>8. Place(start) = 0
    BY <1>1, <1>5, <1>6 DEF Place, Consumed
  <1>9. Divided(row, 0)
    <2>1. Left = <<>> /\ Len(Left) = 0
      BY <1>1, EmptySeq, LeftOfCases DEF Left
    <2>2. \A at : LiesAt(row, <<>>, at)
      BY EmptySeq DEF LiesAt
    <2>3. 0 + Len(stream) + Len(Left) = Len(row)
      BY <1>4, <1>6, <2>1
    <2> QED
      BY <1>1, <2>1, <2>2, <2>3 DEF Divided
  <1> QED
    BY <1>2, <1>3, <1>7, <1>8, <1>9 DEF Inv, Row

LEMMA StutterInv ==
    ASSUME Inv, UNCHANGED vars
    PROVE  Inv'
  <1>1. UNCHANGED <<proc, stream, toSend, sentMsgs, rPc, rLen, rBuf, got>>
    BY DEF vars, writerVars, readerVars
  <1>2. TypeOK' /\ Left' = Left
    BY <1>1 DEF Inv, TypeOK, Left
  <1> QED
    BY <1>1, <1>2, NothingMoves

LEMMA NextInv ==
    ASSUME Inv, [Next]_vars
    PROVE  Inv'
  <1>1. CASE Next
    <2>1. proc = "running"
      BY <1>1 DEF Next
    <2>2. CASE \E m \in Messages : CallSend(m)
      BY <2>1, <2>2, CallSendStep
    <2>3. CASE SendMsg
      BY <2>3, SendSomeStep, SendnReturnsStep DEF SendMsg
    <2>4. CASE RecvMsg
      BY <2>1, <2>4, CallRecvStep, RecvSomeStep, CheckHeadStep, RecvReturnsStep DEF RecvMsg
    <2>5. CASE SendFails \/ RecvFails
      BY <2>5, FailsStep
    <2> QED
      BY <1>1, <2>2, <2>3, <2>4, <2>5 DEF Next
  <1>2. CASE UNCHANGED vars
    BY <1>2, StutterInv
  <1> QED
    BY <1>1, <1>2

THEOREM InvHolds == Spec => []Inv
  <1>1. Init => Inv
    BY InitInv
  <1>2. Inv /\ [Next]_vars => Inv'
    BY NextInv
  <1> QED
    BY <1>1, <1>2, PTL DEF Spec

(* recv_msg stays within its buffers, finds its magic number in every head *)
(* and refuses a message only for a length above the limit, whatever bytes *)
(* the messages have and however many bytes the single send and recv calls *)
(* move (sio.hpp, send_msg and recv_msg).                                  *)
THEOREM FramesCorrect == Spec => []FramesSound
  <1>1. Inv => FramesSound
    BY DEF Inv, FramesSound
  <1> QED
    BY <1>1, InvHolds, PTL

------------------------------------------------------------------------------
(* The stream implements the channel. Its queue holds the messages whose   *)
(* last byte the writer has given away and that recv_msg has not returned: *)
(* sentMsgs from Len(got) + 1 on, without the last one while the writer    *)
(* has bytes left. A message enters the queue when its last byte is sent.  *)

Queue == SubSeq(Written, Len(got) + 1, Len(Written))

LEMMA PartsEmpty ==
    ASSUME NEW parts \in Seq(Seq(Nat)), Len(parts) <= 2
    PROVE  (\A i \in DOMAIN parts : parts[i] = <<>>) <=> LeftOf(parts) = <<>>
  <1>0. 1 .. 0 = {} /\ 1 .. 1 = {1} /\ 1 .. 2 = {1, 2}
    OBVIOUS
  <1>1. Len(parts) \in Nat
    BY LenProperties
  <1>2. DOMAIN parts = 1 .. Len(parts) /\ \A i \in 1 .. Len(parts) : parts[i] \in Seq(Nat)
    BY LenProperties, ElementOfSeq
  <1>3. CASE Len(parts) = 0
    <2>1. DOMAIN parts = {} /\ LeftOf(parts) = <<>>
      BY <1>0, <1>2, <1>3, LeftOfCases, Zenon
    <2> QED
      BY <2>1
  <1>4. CASE Len(parts) = 1
    <2>1. DOMAIN parts = {1} /\ LeftOf(parts) = parts[1]
      BY <1>0, <1>2, <1>4, LeftOfCases, Zenon
    <2> QED
      BY <2>1
  <1>5. CASE Len(parts) = 2
    <2>1. DOMAIN parts = {1, 2} /\ LeftOf(parts) = parts[1] \o parts[2]
      BY <1>0, <1>2, <1>5, LeftOfCases, Zenon
    <2>2. parts[1] \in Seq(Nat) /\ parts[2] \in Seq(Nat)
      BY <1>2, <1>5
    <2>3. parts[1] \o parts[2] = <<>> <=> parts[1] = <<>> /\ parts[2] = <<>>
      BY <2>2, Concat, EmptySeq
    <2> QED
      BY <2>1, <2>3
  <1>6. Len(parts) = 0 \/ Len(parts) = 1 \/ Len(parts) = 2
    <2>1. \A n \in Nat : n <= 2 => n = 0 \/ n = 1 \/ n = 2
      OBVIOUS
    <2> QED
      BY <1>1, <2>1, Zenon
  <1> QED
    BY <1>3, <1>4, <1>5, <1>6

LEMMA AllEmpty == TypeOK => ((\A i \in DOMAIN toSend : toSend[i] = <<>>) <=> Left = <<>>)
  BY Types, PartsEmpty DEF Left

(* While the writer has bytes left the reader waits for its message.      *)
LEMMA Behind == Inv /\ Left # <<>> => Len(got) < Len(sentMsgs)
  <1> SUFFICES ASSUME Inv, Left # <<>> PROVE Len(got) < Len(sentMsgs)
    OBVIOUS
  <1>1. PICK g \in Nat, n \in Nat : g = Len(got) /\ n = Len(sentMsgs)
    BY Types DEF Inv
  <1>2. PICK row \in Seq(Nat), start \in [1 .. n + 1 -> Nat] :
           Holds(row, start, sentMsgs) /\ Place(start) \in Nat /\ Divided(row, Place(start))
    BY <1>1, Witnesses
  <1>3. start[g + 1] \in Nat /\ Consumed \in Nat /\ g <= n
    BY <1>1, <1>2, PlaceType DEF Inv, InOrder
  <1>4. Len(stream) \in Nat /\ Len(Left) \in Nat /\ Len(Left) # 0
    BY Types, LeftType, EmptySeq DEF Inv
  <1>5. start[g + 1] + Consumed + Len(stream) + Len(Left) = start[n + 1]
    BY <1>1, <1>2 DEF Holds, Divided, Place
  <1>6. g # n
    <2>1. \A a, b, c, d \in Nat : a + b + c + d = a => d = 0
      OBVIOUS
    <2> QED
      BY <1>3, <1>4, <1>5, <2>1, Zenon
  <1> QED
    BY <1>1, <1>3, <1>6

LEMMA QueueIs ==
    Inv => Queue = SubSeq(sentMsgs, Len(got) + 1,
                          IF Left = <<>> THEN Len(sentMsgs) ELSE Len(sentMsgs) - 1)
  <1> SUFFICES ASSUME Inv
               PROVE  Queue = SubSeq(sentMsgs, Len(got) + 1,
                                     IF Left = <<>> THEN Len(sentMsgs) ELSE Len(sentMsgs) - 1)
    OBVIOUS
  <1>1. PICK g \in Nat, n \in Nat : g = Len(got) /\ n = Len(sentMsgs)
    BY Types DEF Inv
  <1>2. (\A i \in DOMAIN toSend : toSend[i] = <<>>) <=> Left = <<>>
    BY AllEmpty DEF Inv
  <1>3. CASE Left = <<>>
    BY <1>2, <1>3 DEF Queue, Written
  <1>4. CASE Left # <<>>
    <2>1. sentMsgs \in Seq(Messages)
      BY Types DEF Inv
    <2>2. g < n
      BY <1>1, <1>4, Behind
    <2>3. \A i \in 1 .. n : sentMsgs[i] \in Messages
      BY <1>1, <2>1, ElementOfSeq
    <2>4. Written = SubSeq(sentMsgs, 1, n - 1)
      BY <1>1, <1>2, <1>4 DEF Written, Front
    <2>5. Len(Written) = n - 1
      <3>1. \A i \in 1 .. n - 1 : sentMsgs[i] \in Messages
        BY <2>3
      <3>2. Len(SubSeq(sentMsgs, 1, n - 1)) = IF 1 <= n - 1 THEN (n - 1) - 1 + 1 ELSE 0
        BY <3>1, SubSeqProperties
      <3> QED
        BY <2>2, <2>4, <3>2
    <2>6. Queue = SubSeq(SubSeq(sentMsgs, 1, n - 1), g + 1, n - 1)
      BY <1>1, <2>4, <2>5 DEF Queue
    <2>7. CASE g + 1 <= n - 1
      <3>1. /\ 1 \in 1 .. Len(sentMsgs) /\ n - 1 \in 1 .. Len(sentMsgs)
            /\ g + 1 \in 1 .. (n - 1) - 1 + 1 /\ n - 1 \in 1 .. (n - 1) - 1 + 1
            /\ 1 + (g + 1) - 1 = g + 1 /\ 1 + (n - 1) - 1 = n - 1
        BY <1>1, <2>2, <2>7
      <3>2. SubSeq(SubSeq(sentMsgs, 1, n - 1), g + 1, n - 1) =
            SubSeq(sentMsgs, 1 + (g + 1) - 1, 1 + (n - 1) - 1)
        BY <2>1, <3>1, SubSeqOfSubSeq
      <3> QED
        BY <1>1, <1>4, <2>6, <3>1, <3>2
    <2>8. CASE ~(g + 1 <= n - 1)
      <3>1. n - 1 < g + 1 /\ g + 1 \in Int /\ n - 1 \in Int
        BY <2>8
      <3>2. /\ SubSeq(SubSeq(sentMsgs, 1, n - 1), g + 1, n - 1) = <<>>
            /\ SubSeq(sentMsgs, g + 1, n - 1) = <<>>
        BY <3>1, SubSeqEmpty
      <3> QED
        BY <1>1, <1>4, <2>6, <3>2
    <2> QED
      BY <2>7, <2>8
  <1> QED
    BY <1>3, <1>4

(* The stream holds what the messages after the current one need for their *)
(* heads at least.                                                         *)
LEMMA StreamHoldsHeads ==
    Inv /\ Len(got) < Len(sentMsgs)
    => HeadLen * (Len(sentMsgs) - Len(got) - 1) <= Len(stream) + Len(Left)
  <1> SUFFICES ASSUME Inv, Len(got) < Len(sentMsgs)
               PROVE  HeadLen * (Len(sentMsgs) - Len(got) - 1) <= Len(stream) + Len(Left)
    OBVIOUS
  <1>1. PICK g \in Nat, n \in Nat : g = Len(got) /\ n = Len(sentMsgs)
    BY Types DEF Inv
  <1>2. PICK row \in Seq(Nat), start \in [1 .. n + 1 -> Nat] :
           Holds(row, start, sentMsgs) /\ Divided(row, Place(start))
    BY <1>1, Witnesses
  <1>3. g + 1 \in 1 .. n /\ g + 1 \in 1 .. n + 1 /\ (g + 1) + 1 \in 1 .. n + 1
        /\ n + 1 \in 1 .. n + 1 /\ (g + 1) + 1 <= n + 1
    BY <1>1
  <1>4. start[g + 1] \in Nat /\ start[(g + 1) + 1] \in Nat /\ start[n + 1] \in Nat
    BY <1>3
  <1>5. PICK m \in Nat : m = Len(sentMsgs[g + 1])
    <2>1. sentMsgs \in Seq(Seq(Nat))
      BY Types DEF Inv
    <2>2. sentMsgs[g + 1] \in Seq(Nat)
      BY <1>1, <1>3, <2>1, ElementOfSeq
    <2> QED
      BY <2>2, LenProperties
  <1>6. start[(g + 1) + 1] = start[g + 1] + HeadLen + m
    BY <1>1, <1>2, <1>3, <1>5 DEF Holds
  <1>7. start[n + 1] >= start[(g + 1) + 1] + HeadLen * ((n + 1) - ((g + 1) + 1))
    BY <1>1, <1>2, <1>3 DEF Holds
  <1>8. PICK c \in Nat : c = Consumed
    BY <1>1, <1>2, PlaceType DEF Inv
  <1>9. c <= HeadLen + m
    <2>1. rPc \in {"idle", "head", "body"}
      BY DEF Inv, TypeOK
    <2>2. CASE rPc = "idle"
      BY <1>8, <2>2 DEF Consumed, HeadLen
    <2>3. CASE rPc = "head"
      <3>1. c = Len(rBuf) /\ Len(rBuf) <= HeadLen
        BY <1>8, <2>3 DEF Consumed, Inv, TypeOK
      <3> QED
        BY <3>1 DEF HeadLen
    <2>4. CASE rPc = "body"
      <3>1. c = HeadLen + Len(rBuf) /\ Len(rBuf) <= rLen
        BY <1>8, <2>4 DEF Consumed, Inv, TypeOK
      <3>2. rLen = m
        BY <1>1, <1>5, <2>4 DEF Inv, InOrder
      <3>3. Len(rBuf) \in Nat
        BY Types DEF Inv
      <3> QED
        BY <3>1, <3>2, <3>3 DEF HeadLen
    <2> QED
      BY <2>1, <2>2, <2>3, <2>4
  <1>10. PICK s \in Nat, l \in Nat : s = Len(stream) /\ l = Len(Left)
    BY Types, LeftType DEF Inv
  <1>11. start[g + 1] + c + s + l = start[n + 1]
    BY <1>1, <1>2, <1>8, <1>10 DEF Holds, Divided, Place
  <1>12. PICK x \in Nat, y \in Nat, z \in Nat :
            x = start[g + 1] /\ y = start[(g + 1) + 1] /\ z = start[n + 1]
    BY <1>4
  <1>13. y = x + HeadLen + m /\ z >= y + HeadLen * ((n + 1) - ((g + 1) + 1))
         /\ x + c + s + l = z
    BY <1>6, <1>7, <1>11, <1>12
  <1>14. HeadLen * (n - g - 1) <= s + l
    BY <1>9, <1>13 DEF HeadLen
  <1> QED
    BY <1>1, <1>10, <1>14

(* The same of the state after a step.                                     *)
LEMMA After ==
    ASSUME Inv'
    PROVE  /\ Left' # <<>> => Len(got') < Len(sentMsgs')
           /\ Queue' = SubSeq(sentMsgs', Len(got') + 1,
                              IF Left' = <<>> THEN Len(sentMsgs') ELSE Len(sentMsgs') - 1)
           /\ Len(got') < Len(sentMsgs')
              => HeadLen * (Len(sentMsgs') - Len(got') - 1) <= Len(stream') + Len(Left')
  <1>1. (Inv /\ Left # <<>> => Len(got) < Len(sentMsgs))'
    BY Behind, PTL
  <1>2. (Inv => Queue = SubSeq(sentMsgs, Len(got) + 1,
                              IF Left = <<>> THEN Len(sentMsgs) ELSE Len(sentMsgs) - 1))'
    BY QueueIs, PTL
  <1>3. (Inv /\ Len(got) < Len(sentMsgs)
         => HeadLen * (Len(sentMsgs) - Len(got) - 1) <= Len(stream) + Len(Left))'
    BY StreamHoldsHeads, PTL
  <1> QED
    BY <1>1, <1>2, <1>3

(* A step that keeps what is sent, returned and left does not show.       *)
LEMMA QueueStays ==
    ASSUME Inv, Inv', UNCHANGED <<sentMsgs, got>>, (Left = <<>>) <=> (Left' = <<>>)
    PROVE  Queue' = Queue /\ got' = got
  BY QueueIs, After

(* A message announced does not show before its last byte is sent.         *)
LEMMA CallSendQueue ==
    ASSUME Inv, Inv', NEW m \in Messages, CallSend(m)
    PROVE  Queue' = Queue /\ got' = got
  <1>1. PICK g \in Nat, n \in Nat : g = Len(got) /\ n = Len(sentMsgs)
    BY Types DEF Inv
  <1>2. /\ toSend = <<>> /\ toSend' = <<HeadOf(m), m>> /\ sentMsgs' = Append(sentMsgs, m)
        /\ got' = got
    BY DEF CallSend, readerVars
  <1>3. /\ sentMsgs \in Seq(Messages) /\ sentMsgs' \in Seq(Messages)
        /\ Len(sentMsgs') = n + 1 /\ sentMsgs'[n + 1] = m
        /\ \A i \in 1 .. n : sentMsgs'[i] = sentMsgs[i]
    BY <1>1, <1>2, Types, AppendProperties DEF Inv
  <1>4. Left = <<>>
    BY <1>2, EmptySeq, LeftOfCases DEF Left
  <1>5. Left' # <<>>
    <2>1. m \in Seq(Nat) /\ HeadOf(m) \in Seq(Nat) /\ Len(HeadOf(m)) = HeadLen
      BY FramingAssumption, LenProperties DEF HeadOf, HeadLen
    <2>2. Left' = HeadOf(m) \o m
      BY <1>2 DEF Left, LeftOf
    <2>3. Len(HeadOf(m) \o m) = Len(HeadOf(m)) + Len(m) /\ Len(m) \in Nat
      BY <2>1, Concat
    <2>4. HeadLen + Len(m) # 0
      BY <2>3 DEF HeadLen
    <2> QED
      BY <2>1, <2>2, <2>3, <2>4, EmptySeq, Zenon
  <1>6. Queue = SubSeq(sentMsgs, g + 1, n)
    BY <1>1, <1>4, QueueIs
  <1>7. Queue' = SubSeq(sentMsgs', g + 1, n)
    <2>1. Queue' = SubSeq(sentMsgs', g + 1, (n + 1) - 1)
      BY <1>1, <1>2, <1>3, <1>5, After, Zenon
    <2>2. (n + 1) - 1 = n
      OBVIOUS
    <2> QED
      BY <2>1, <2>2
  <1>8. SubSeq(sentMsgs', g + 1, n) = SubSeq(sentMsgs, g + 1, n)
    <2>1. \A i \in g + 1 .. n : sentMsgs[i] \in Messages /\ sentMsgs'[i] = sentMsgs[i]
                               /\ i \in 1 .. n
      <3>1. \A i \in g + 1 .. n : i \in 1 .. n
        OBVIOUS
      <3>2. \A i \in 1 .. n : sentMsgs[i] \in Messages
        BY <1>1, <1>3, ElementOfSeq
      <3> QED
        BY <1>3, <3>1, <3>2, Zenon
    <2>2. /\ SubSeq(sentMsgs, g + 1, n) \in Seq(Messages)
          /\ Len(SubSeq(sentMsgs, g + 1, n)) = IF g + 1 <= n THEN n - (g + 1) + 1 ELSE 0
          /\ \A i \in 1 .. n - (g + 1) + 1 : SubSeq(sentMsgs, g + 1, n)[i] = sentMsgs[(g + 1) + i - 1]
      BY <2>1, SubSeqProperties
    <2>3. /\ SubSeq(sentMsgs', g + 1, n) \in Seq(Messages)
          /\ Len(SubSeq(sentMsgs', g + 1, n)) = IF g + 1 <= n THEN n - (g + 1) + 1 ELSE 0
          /\ \A i \in 1 .. n - (g + 1) + 1 : SubSeq(sentMsgs', g + 1, n)[i] = sentMsgs'[(g + 1) + i - 1]
      BY <2>1, SubSeqProperties
    <2>4. \A i \in 1 .. n - (g + 1) + 1 : (g + 1) + i - 1 \in g + 1 .. n
      OBVIOUS
    <2>5. \A i \in 1 .. n - (g + 1) + 1 :
             SubSeq(sentMsgs', g + 1, n)[i] = SubSeq(sentMsgs, g + 1, n)[i]
      BY <2>1, <2>2, <2>3, <2>4, Zenon
    <2>6. (IF g + 1 <= n THEN n - (g + 1) + 1 ELSE 0) <= n - (g + 1) + 1
          \/ (IF g + 1 <= n THEN n - (g + 1) + 1 ELSE 0) = 0
      OBVIOUS
    <2>7. \A i \in 1 .. Len(SubSeq(sentMsgs, g + 1, n)) : i \in 1 .. n - (g + 1) + 1
      BY <2>2, <2>6
    <2> QED
      BY <2>2, <2>3, <2>5, <2>7, SeqEqual
  <1> QED
    BY <1>2, <1>6, <1>7, <1>8

(* The send call that takes the last byte writes the message.             *)
LEMMA SendSomeQueue ==
    ASSUME Inv, Inv', SendSome
    PROVE  Channel!Write \/ (Queue' = Queue /\ got' = got)
  <1>1. PICK g \in Nat, n \in Nat : g = Len(got) /\ n = Len(sentMsgs)
    BY Types DEF Inv
  <1>2. UNCHANGED <<sentMsgs, got>>
    BY DEF SendSome, Put, readerVars
  <1>3. Left # <<>>
    <2>1. toSend \in Seq(Seq(Nat)) /\ Len(toSend) <= 2 /\ toSend # <<>>
      BY Types DEF Inv, SendSome
    <2>2. /\ Head(toSend) \in Seq(Nat) /\ LeftOf(Tail(toSend)) \in Seq(Nat)
          /\ Left = Head(toSend) \o LeftOf(Tail(toSend))
      BY <2>1, FirstPart DEF Left
    <2>3. Len(Left) = Len(Head(toSend)) + Len(LeftOf(Tail(toSend)))
          /\ Len(Head(toSend)) \in Nat /\ Len(LeftOf(Tail(toSend))) \in Nat
      BY <2>2, Concat
    <2>4. Len(Head(toSend)) # 0
      BY <2>3 DEF SendSome
    <2>5. Len(Left) # 0
      BY <2>3, <2>4
    <2> QED
      BY <2>5, EmptySeq
  <1>4. CASE Left' # <<>>
    BY <1>2, <1>3, <1>4, QueueStays
  <1>5. CASE Left' = <<>>
    <2>1. g < n
      BY <1>1, <1>3, Behind
    <2>2. Queue = SubSeq(sentMsgs, g + 1, n - 1)
      BY <1>1, <1>3, QueueIs
    <2>3. Queue' = SubSeq(sentMsgs, g + 1, n)
      BY <1>1, <1>2, <1>5, After, Zenon
    <2>4. sentMsgs \in Seq(Messages) /\ g + 1 \in 1 .. Len(sentMsgs) /\ n \in g + 1 .. Len(sentMsgs)
      BY <1>1, <2>1, Types DEF Inv
    <2>5. sentMsgs[n] \in Messages
      BY <1>1, <2>1, <2>4, ElementOfSeq
    <2>6. Queue \in Seq(Messages) /\ Len(Queue) = n - g - 1
      <3>1. \A i \in g + 1 .. n - 1 : sentMsgs[i] \in Messages
        BY <1>1, <2>4, ElementOfSeq
      <3>2. /\ Queue \in Seq(Messages)
            /\ Len(Queue) = IF g + 1 <= n - 1 THEN (n - 1) - (g + 1) + 1 ELSE 0
        BY <2>2, <3>1, SubSeqProperties
      <3>3. (IF g + 1 <= n - 1 THEN (n - 1) - (g + 1) + 1 ELSE 0) = n - g - 1
        BY <2>1
      <3> QED
        BY <3>2, <3>3
    <2>7. Queue' = Append(Queue, sentMsgs[n])
      <3>1. SubSeq(sentMsgs, g + 1, n) = SubSeq(sentMsgs, g + 1, n - 1) \o <<sentMsgs[n]>>
        BY <2>4, SubSeqRecursiveSecond
      <3>2. Append(Queue, sentMsgs[n]) = Queue \o <<sentMsgs[n]>>
        BY <2>5, <2>6, AppendIsConcat
      <3> QED
        BY <2>2, <2>3, <3>1, <3>2, Zenon
    <2>8. Len(Queue) < BufSize \div HeadLen + 1
      <3>1. HeadLen * (n - g - 1) <= Len(stream') + Len(Left')
        BY <1>1, <1>2, <2>1, After, Zenon
      <3>2. PICK s \in Nat : s = Len(stream') /\ s <= BufSize
        <4>1. stream' \in Seq(Nat) /\ Len(stream') <= BufSize
          BY DEF Inv, TypeOK
        <4> QED
          BY <4>1, LenProperties
      <3>3. Len(Left') = 0
        BY <1>5, EmptySeq
      <3>4. 2 * (n - g - 1) <= BufSize
        BY <3>1, <3>2, <3>3, FramingAssumption DEF HeadLen
      <3>5. BufSize \in Nat
        BY FramingAssumption
      <3>6. n - g - 1 < BufSize \div 2 + 1
        BY <2>1, <3>4, <3>5
      <3> QED
        BY <2>6, <3>6 DEF HeadLen
    <2>9. Channel!send_msg(Queue, sentMsgs[n])
      BY <2>7, <2>8 DEF Channel!send_msg
    <2> QED
      BY <1>2, <2>5, <2>9 DEF Channel!Write, Queue
  <1> QED
    BY <1>4, <1>5

(* recv_msg takes the first message out of the queue.                     *)
LEMMA RecvReturnsQueue ==
    ASSUME Inv, Inv', RecvReturns
    PROVE  Channel!Read
  <1>1. PICK g \in Nat, n \in Nat : g = Len(got) /\ n = Len(sentMsgs)
    BY Types DEF Inv
  <1>2. /\ rPc = "body" /\ nleft <= 0 /\ got' = Append(got, rBuf)
        /\ UNCHANGED <<toSend, sentMsgs>>
    BY DEF RecvReturns, writerVars
  <1>3. rBuf = sentMsgs[g + 1]
    BY <1>1, <1>2, BodyIsMessage
  <1>4. Len(got') = g + 1 /\ Left' = Left
    <2>1. rBuf \in Seq(Nat) /\ got \in Seq(Seq(Nat))
      BY Types DEF Inv
    <2>2. Len(got') = g + 1
      BY <1>1, <1>2, <2>1, AppendProperties
    <2> QED
      BY <1>2, <2>2 DEF Left
  <1> DEFINE w == IF Left = <<>> THEN n ELSE n - 1
  <1>5. w \in Int /\ g + 1 <= w /\ w <= n
    <2>1. g < n
      BY <1>1, <1>2 DEF Inv, InOrder
    <2>2. Left # <<>> => g + 1 < n
      BY <1>1, <1>2, <1>4, After, Zenon
    <2> QED
      BY <2>1, <2>2
  <1>6. Queue = SubSeq(sentMsgs, g + 1, w) /\ Queue' = SubSeq(sentMsgs, (g + 1) + 1, w)
    <2>1. Queue = SubSeq(sentMsgs, g + 1, w)
      BY <1>1, QueueIs
    <2>2. Queue' = SubSeq(sentMsgs, (g + 1) + 1, w)
      BY <1>1, <1>2, <1>4, After, Zenon
    <2> QED
      BY <2>1, <2>2
  <1> HIDE DEF w
  <1>7. sentMsgs \in Seq(Messages) /\ g + 1 \in 1 .. Len(sentMsgs) /\ w \in g + 1 .. Len(sentMsgs)
    <2>1. sentMsgs \in Seq(Messages)
      BY Types DEF Inv
    <2>2. g + 1 \in 1 .. n /\ w \in g + 1 .. n
      BY <1>5
    <2> QED
      BY <1>1, <2>1, <2>2
  <1>8. Head(Queue) = rBuf /\ Queue' = Tail(Queue)
    BY <1>3, <1>6, <1>7, HeadTailOfSubSeq
  <1>9. Queue # <<>>
    <2>1. \A i \in g + 1 .. w : sentMsgs[i] \in Messages
      BY <1>7, ElementOfSeq
    <2>2. Len(Queue) = IF g + 1 <= w THEN w - (g + 1) + 1 ELSE 0
      BY <1>5, <1>6, <2>1, SubSeqProperties
    <2>3. Len(Queue) # 0
      BY <1>5, <2>2
    <2> QED
      BY <2>3, EmptySeq
  <1>10. Channel!recv_msg(Queue)
    BY <1>8, <1>9 DEF Channel!recv_msg
  <1> QED
    BY <1>2, <1>8, <1>10 DEF Channel!Read, Queue

LEMMA NextChannel ==
    ASSUME Inv, Inv', [Next]_vars
    PROVE  Channel!Write \/ Channel!Read \/ (Queue' = Queue /\ got' = got)
  <1>1. CASE \E m \in Messages : CallSend(m)
    BY <1>1, CallSendQueue
  <1>2. CASE SendSome
    BY <1>2, SendSomeQueue
  <1>3. CASE SendnReturns
    <2>1. Left' = Left
      <3>1. toSend \in Seq(Seq(Nat)) /\ Len(toSend) <= 2 /\ toSend # <<>>
            /\ Head(toSend) = <<>> /\ toSend' = Tail(toSend)
        BY <1>3, Types DEF Inv, SendnReturns
      <3>2. /\ LeftOf(Tail(toSend)) \in Seq(Nat)
            /\ LeftOf(toSend) = <<>> \o LeftOf(Tail(toSend))
        BY <3>1, FirstPart
      <3> QED
        BY <3>1, <3>2, ConcatEmptySeq DEF Left
    <2> QED
      BY <1>3, <2>1, QueueStays DEF SendnReturns, readerVars
  <1>4. CASE CallRecv \/ RecvSome \/ CheckHead \/ SendFails \/ RecvFails
    <2>1. UNCHANGED <<toSend, sentMsgs, got>>
      BY <1>4 DEF CallRecv, RecvSome, Take, CheckHead, SendFails, RecvFails, writerVars, readerVars
    <2> QED
      BY <2>1, QueueStays DEF Left
  <1>5. CASE RecvReturns
    BY <1>5, RecvReturnsQueue
  <1>6. CASE UNCHANGED vars
    <2>1. UNCHANGED <<toSend, sentMsgs, got>>
      BY <1>6 DEF vars, writerVars, readerVars
    <2> QED
      BY <2>1, QueueStays DEF Left
  <1> QED
    BY <1>1, <1>2, <1>3, <1>4, <1>5, <1>6 DEF Next, SendMsg, RecvMsg

LEMMA InitChannel ==
    ASSUME Init
    PROVE  Channel!ChannelInit
  <1>1. toSend = <<>> /\ sentMsgs = <<>> /\ got = <<>>
    BY DEF Init
  <1>2. Written = <<>>
    BY <1>1 DEF Written
  <1>3. SubSeq(<<>>, 0 + 1, 0) = <<>>
    BY SubSeqEmpty
  <1>4. SubSeq(Written, Len(got) + 1, Len(Written)) = <<>>
    BY <1>1, <1>2, <1>3, EmptySeq
  <1> QED
    BY <1>1, <1>4 DEF Channel!ChannelInit

(* send_msg and recv_msg implement the channel the two threads of the      *)
(* forwarder rely on: recv_msg returns exactly the messages of send_msg,   *)
(* whole and in order, whatever their bytes and lengths, the size of the   *)
(* socket buffers and the number of bytes a single call moves.             *)
THEOREM FramingIsChannel == Spec => ImplementsChannel
  <1>1. Init => Channel!ChannelInit
    BY InitChannel
  <1>2. Inv /\ Inv' /\ [Next]_vars
        => [Channel!Write \/ Channel!Read]_<<SubSeq(Written, Len(got) + 1, Len(Written)), got>>
    BY NextChannel DEF Queue
  <1> QED
    BY <1>1, <1>2, InvHolds, PTL DEF Spec, ImplementsChannel, Channel!ChannelSpec

==============================================================================
