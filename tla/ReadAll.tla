------------------------------- MODULE ReadAll -------------------------------
(***************************************************************************)
(* rlib/sys/sio.hpp: fdIO::readall and sockIO::recvall, which read from a  *)
(* stream into a buffer that is to grow, and their callers quick_readall   *)
(* and quick_recvall. The k-th byte of the stream is the number k.         *)
(***************************************************************************)
EXTENDS Integers

CONSTANTS Sizes,       \* sizes of the buffer, above 0: of the caller's, or initSize
          StreamLen    \* bound: bytes the peer sends

StreamAssumption == Sizes \subseteq Nat \ {0} /\ StreamLen \in Nat

VARIABLES pc,
          pvptr,     \* what *pvptr is at the call: NULL, a malloced buffer, or not set
          sent,      \* bytes the peer has sent so far
          closed,    \* whether the peer has closed
          taken,     \* bytes read so far
          size,      \* bytes vptr points to
          current, currvptr,
          buffer,    \* byte -> number, 0 where nothing has been written
          result

vars == <<pc, pvptr, sent, closed, taken, size, current, currvptr, buffer, result>>
peer == <<sent, closed>>

\* quick_readall leaves ptr as it is, which may be anything; quick_recvall sets
\* it to NULL.
Init ==
    /\ pvptr \in {"NULL", "malloced", "unset"}
    /\ current \in Sizes /\ size = current /\ currvptr = 0
    /\ buffer = [k \in 0 .. size - 1 |-> 0]
    /\ pc = "first" /\ sent = 0 /\ closed = FALSE /\ taken = 0 /\ result = 0

Send == ~closed /\ sent < StreamLen /\ sent' = sent + 1
        /\ UNCHANGED <<pc, pvptr, closed, taken, size, current, currvptr, buffer, result>>
Close == ~closed /\ closed' = TRUE
         /\ UNCHANGED <<pc, pvptr, sent, taken, size, current, currvptr, buffer, result>>

half == current \div 2
Smaller(a, b) == IF a <= b THEN a ELSE b

\* read and recv wait for a byte or the end of the stream, unless they are
\* asked for none, and return some of the bytes that are there.
Read(ret) ==
    /\ IF half = 0 \/ (closed /\ sent = taken) THEN ret = 0
       ELSE ret \in 1 .. Smaller(half, sent - taken)
    /\ taken' = taken + ret
    /\ buffer' = [k \in DOMAIN buffer |->
                    IF k \in currvptr .. currvptr + ret - 1 THEN taken + k - currvptr + 1 ELSE buffer[k]]

ReadFirst ==
    /\ pc = "first" /\ UNCHANGED <<pvptr, peer, size, current>>
    /\ \E ret \in 0 .. half :
          /\ Read(ret)
          /\ IF ret < half THEN pc' = "returned" /\ result' = ret /\ UNCHANGED currvptr
             ELSE pc' = "loop" /\ currvptr' = half /\ UNCHANGED result

\* A read that is asked for half of current never returns current: the rest
\* of the loop, realloc and the next round, is not reached.
ReadNext ==
    /\ pc = "loop" /\ UNCHANGED <<pvptr, peer, size, current, currvptr>>
    /\ \E ret \in 0 .. half : Read(ret) /\ pc' = "returned" /\ result' = ret + half

\* Errors; on Windows WSAEINTR is tried again.
Fail ==
    /\ pc \in {"first", "loop"} /\ pc' = "failed"
    /\ UNCHANGED <<pvptr, peer, taken, size, current, currvptr, buffer, result>>

Next == Send \/ Close \/ ReadFirst \/ ReadNext \/ Fail
Spec == Init /\ [][Next]_vars

\* The thread that reads is scheduled; the peer need not send.
FairSpec == Spec /\ WF_vars(ReadFirst \/ ReadNext)

------------------------------------------------------------------------------
(* Properties *)

\* What is returned are the first bytes of the stream, none missing, and no
\* byte has been taken from the stream and dropped.
PrefixReturned == pc = "returned" =>
    result = taken /\ \A k \in 0 .. result - 1 : buffer[k] = k + 1

\* A stream that has ended is not waited for.
EndIsSeen == closed ~> pc \in {"returned", "failed"}

\* sio.hpp:333: "pvptr must be a malloc/calloced buffer, I'll malloc one if
\* *pvptr is NULL": bytes are only written to such a buffer.
BufferIsMalloced == taken > 0 => pvptr \in {"NULL", "malloced"}

==============================================================================
