-------------------------------- MODULE SeqList --------------------------------
(***************************************************************************)
(* What a list of objects promises: a sequence in which an object can be   *)
(* put before any other or at the end, and a range of which can be taken.  *)
(***************************************************************************)
EXTENDS Naturals, Sequences, SequencesExt

CONSTANT Elems
VARIABLE seq

Init == seq = <<>>

Put == \E e \in Elems \ ToSet(seq), i \in 1 .. Len(seq) + 1 : seq' = InsertAt(seq, i, e)

\* from .. to - 1
Take == \E from \in DOMAIN seq, to \in 2 .. Len(seq) + 1 :
    /\ from < to
    /\ seq' = SubSeq(seq, 1, from - 1) \o SubSeq(seq, to, Len(seq))

Spec == Init /\ [][Put \/ Take]_seq

==============================================================================
