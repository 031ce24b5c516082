------------------------------- MODULE Strings -------------------------------
(***************************************************************************)
(* rlib::string: split, join, replace and format, loop by loop. A string   *)
(* is a sequence of letters. In a format, the pair {} is one letter,       *)
(* called Hole, for no loop takes it apart; Escape is the backslash.       *)
(***************************************************************************)
EXTENDS Naturals, Sequences

LOCAL INSTANCE SequencesExt

CONSTANTS Letters, MaxLen,  \* the strings split and replaced in
          Needles,          \* dividers and replaced strings, not empty
          Formats, Args     \* what is formatted: the arguments by name

Hole == "{}"
Escape == "\\"
None == <<>>

VARIABLES op, input, needle, to, nargs, \* the call
          text,       \* *this
          pos, prev,  \* where the loop searches, and from where it copies
          buf,        \* split: the pieces; format: the output
          escaped, pc

vars == <<op, input, needle, to, nargs, text, pos, prev, buf, escaped, pc>>
call == <<op, input, needle, to, nargs>>

\* std::string::find: positions count from 0; npos is the length.
substr(s, from, n) == SubSeq(s, from + 1, IF from + n < Len(s) THEN from + n ELSE Len(s))
Hits(s, what, from) == {p \in from .. Len(s) - Len(what) : substr(s, p, Len(what)) = what}
find(s, what, from) == IF Hits(s, what, from) = {} THEN Len(s)
                       ELSE CHOOSE p \in Hits(s, what, from) : \A q \in Hits(s, what, from) : p <= q
Found(p) == p < Len(text)

\* string::join, called on the divider.
join(divider, pieces) == FoldLeft(LAMBDA s, p : s \o divider \o p, Head(pieces), Tail(pieces))

Init ==
    /\ \/ op = "split" /\ input \in BoundedSeq(Letters, MaxLen) /\ needle \in Needles /\ to = None /\ nargs = 0
       \/ op = "replace" /\ input \in BoundedSeq(Letters, MaxLen) /\ needle \in Needles /\ nargs = 0
          /\ to \in Needles \cup {None}
       \/ op = "format" /\ input \in Formats /\ needle = <<Hole>> /\ to = None /\ nargs \in 0 .. Len(Args)
    /\ text = input /\ pos = 0 /\ prev = 0 /\ buf = None /\ escaped = FALSE /\ pc = "loop"

\* string::split.
Skipped(p) == p + Len(needle)
Split ==
    LET p == find(text, needle, pos) IN
    /\ pc = "loop" /\ op = "split"
    /\ IF Found(p)
       THEN /\ buf' = Append(buf, substr(text, prev, p - prev))
            /\ pos' = Skipped(p) /\ prev' = pos' /\ UNCHANGED pc
       ELSE /\ buf' = Append(buf, substr(text, prev, Len(text) - prev))
            /\ pc' = "returned" /\ UNCHANGED <<pos, prev>>
    /\ UNCHANGED <<call, text, escaped>>

\* string::replace. What is put in is not searched again.
\* Mutant: the search goes on one letter further, inside what was put in.
After_next(p) == p + 1
After(p) == p + Len(to)
Replace ==
    LET p == find(text, needle, pos) IN
    /\ pc = "loop" /\ op = "replace"
    /\ IF Found(p)
       THEN /\ text' = substr(text, 0, p) \o to \o substr(text, p + Len(needle), Len(text))
            /\ pos' = After(p) /\ UNCHANGED pc
       ELSE pc' = "returned" /\ UNCHANGED <<text, pos>>
    /\ UNCHANGED <<call, prev, buf, escaped>>

\* The inner loop of _format_string_helper: every escaped hole loses its escape.
Unescaped(s) == [k \in {j \in 1 .. Len(s) : ~(s[j] = Escape /\ j < Len(s) /\ s[j + 1] = Hole)} |-> s[k]]
Compact(f) == LET idx == SetToSortSeq(DOMAIN f, <) IN [k \in DOMAIN idx |-> f[idx[k]]]

\* _format_string_helper.
Escaping(p) == p # 0 /\ text[p] = Escape
Taken == SelectSeq(buf, LAMBDA x : Contains(Args, x))
Used == Len(Taken)
Format ==
    LET p == find(text, needle, pos)
        cut == substr(text, prev, p - prev) IN
    /\ pc = "loop" /\ op = "format"
    /\ IF ~Found(p)
       THEN /\ IF Used = nargs
               THEN pc' = "returned" /\ buf' = buf \o substr(text, prev, Len(text) - prev)
               ELSE pc' = "threw" /\ UNCHANGED buf
            /\ UNCHANGED <<pos, prev, escaped>>
       ELSE IF Escaping(p)
       THEN escaped' = TRUE /\ pos' = p + 1 /\ UNCHANGED <<prev, buf, pc>>
       ELSE /\ UNCHANGED escaped
            /\ IF Used = nargs
               THEN pc' = "threw" /\ UNCHANGED <<pos, prev, buf>>
               ELSE /\ buf' = Append(buf \o (IF escaped THEN Compact(Unescaped(cut)) ELSE cut), Args[Used + 1])
                    /\ pos' = p + 1 /\ prev' = p + 1 /\ UNCHANGED pc
    /\ UNCHANGED <<call, text>>

Next == Split \/ Replace \/ Format

Spec == Init /\ [][Next]_vars

------------------------------------------------------------------------------
(* Properties *)

\* join undoes split, and no piece holds the divider: a configuration with
\* three parts has two dividers (PlainInbound::loadConfig counts the parts).
SplitsAtDividers == pc = "returned" /\ op = "split" =>
    /\ join(needle, buf) = input
    /\ \A k \in DOMAIN buf : Hits(buf[k], needle, 0) = {}

\* replace gives what joining the pieces with the replacement gives.
RECURSIVE Pieces(_)
Pieces(s) ==
    LET p == find(s, needle, 0) IN
    IF p = Len(s) THEN <<s>> ELSE <<substr(s, 0, p)>> \o Pieces(substr(s, p + Len(needle), Len(s)))
ReplacesEach == pc = "returned" /\ op = "replace" => text = join(to, Pieces(input))

\* A format with as many arguments as holes gets them in order, any other
\* throws; and whatever is no hole and no escape comes out in its order.
IsHole(s, k) == s[k] = Hole /\ ~(k > 1 /\ s[k - 1] = Escape)
Holes(s) == {k \in DOMAIN s : IsHole(s, k)}
ArgumentsInOrder == op = "format" /\ pc # "loop" =>
    /\ pc = "returned" <=> Cardinality(Holes(input)) = nargs
    /\ Taken = SubSeq(Args, 1, Used)
    /\ pc = "returned" => LET Other(x) == x \notin {Hole, Escape} /\ ~Contains(Args, x) IN
                           SelectSeq(buf, Other) = SelectSeq(input, Other)

\* "Replace `\{}` to `{}`": no escape that hides a hole is left.
EscapesRemoved == op = "format" /\ pc = "returned" =>
    ~\E k \in 1 .. Len(buf) - 1 : buf[k] = Escape /\ buf[k + 1] = Hole

==============================================================================
