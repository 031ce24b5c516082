------------------------------ MODULE MsgFraming ------------------------------
(***************************************************************************)
(* sockIO::send_msg and sockIO::recv_msg on one direction of the pipe, at  *)
(* the level of the bytes: a head with a magic number and the length, then *)
(* the body, each moved by a loop (sendn, recvn) over send and recv calls  *)
(* that transfer any number of bytes. The writing thread and the reading   *)
(* thread run at the same time on the bounded stream between them.         *)
(*                                                                         *)
(* A byte is a number, so that a body may look like a head. The head has   *)
(* two bytes here, one for its 4-byte magic and one for its 8-byte length. *)
(* EINTR makes a loop call again and changes nothing: a stuttering step.   *)
(***************************************************************************)
EXTENDS Integers, SequencesExt

CONSTANTS Messages,   \* the byte strings the writer may send
          Magic,      \* packed_msg_head::magic
          MsgLimit,   \* the length recv_msg refuses to exceed (2 GiB)
          BufSize,    \* bytes the socket buffers of one direction hold
          MayFail,    \* whether send or recv may fail
          MaxMsgs     \* bound: messages the writer sends

ASSUME FramingAssumption ==
    /\ Messages \subseteq Seq(Nat)
    /\ Magic \in Nat
    /\ MsgLimit \in Nat
    /\ BufSize \in Nat \ {0}
    /\ MayFail \in BOOLEAN
    /\ MaxMsgs \in Nat

VARIABLES proc,      \* "running", or what terminated the process
          stream,    \* bytes in the socket buffers
          toSend,    \* what the current send_msg has left, head and body
          rPc,       \* which recvn the reader is in
          rLen,      \* head.len of the message being read
          rBuf,      \* what the current recvn has read
          sentMsgs,  \* messages given to send_msg
          got        \* messages recv_msg has returned

writerVars == <<toSend, sentMsgs>>
readerVars == <<rPc, rLen, rBuf, got>>
vars == <<proc, stream, writerVars, readerVars>>

HeadOf(m) == <<Magic, Len(m)>>
HeadLen == 2

TypeOK ==
    /\ proc \in {"running", "magic", "length", "socket"}
    /\ stream \in Seq(Nat) /\ Len(stream) <= BufSize
    /\ toSend \in Seq(Seq(Nat)) /\ Len(toSend) <= 2
    /\ rPc \in {"idle", "head", "body"}
    /\ rLen \in 0 .. MsgLimit
    /\ rBuf \in Seq(Nat) /\ Len(rBuf) <= IF rPc = "body" THEN rLen ELSE HeadLen
    /\ sentMsgs \in Seq(Messages) /\ Len(sentMsgs) <= MaxMsgs
    /\ got \in Seq(Seq(Nat))

Init ==
    /\ proc = "running"
    /\ stream = <<>>
    /\ toSend = <<>>
    /\ rPc = "idle" /\ rLen = 0 /\ rBuf = <<>>
    /\ sentMsgs = <<>> /\ got = <<>>

------------------------------------------------------------------------------
(* The writing thread *)

\* send_msg fills in the head; it does not look at the limit.
CallSend(m) ==
    /\ toSend = <<>>
    /\ Len(sentMsgs) < MaxMsgs
    /\ toSend' = <<HeadOf(m), m>>
    /\ sentMsgs' = Append(sentMsgs, m)
    /\ UNCHANGED <<proc, stream, readerVars>>

\* send takes some of the bytes, as many as there is room for at most.
Put(k) ==
    LET left == Head(toSend) IN
    /\ k \in 1 .. Len(left)
    /\ Len(stream) + k <= BufSize
    /\ stream' = stream \o SubSeq(left, 1, k)
    /\ UNCHANGED <<proc, sentMsgs, readerVars>>

\* Mutant: a short write is taken for a complete one.
SendSome_short ==
    /\ toSend # <<>>
    /\ \E k \in 1 .. Len(Head(toSend)) : Put(k) /\ toSend' = Tail(toSend)

\* Mutant: the writer waits until all that is left fits.
SendSome_all ==
    /\ toSend # <<>>
    /\ Put(Len(Head(toSend)))
    /\ toSend' = <<(<<>>)>> \o Tail(toSend)

\* The loop of sendn goes on with what is left.
SendSome ==
    /\ toSend # <<>>
    /\ LET left == Head(toSend) IN
       \E k \in 1 .. Len(left) :
          Put(k) /\ toSend' = <<SubSeq(left, k + 1, Len(left))>> \o Tail(toSend)

\* sendn returns, at once for an empty body.
SendnReturns ==
    /\ toSend # <<>>
    /\ Head(toSend) = <<>>
    /\ toSend' = Tail(toSend)
    /\ UNCHANGED <<proc, stream, sentMsgs, readerVars>>

SendFails ==
    /\ MayFail
    /\ toSend # <<>>
    /\ Head(toSend) # <<>>
    /\ proc' = "socket"
    /\ UNCHANGED <<stream, writerVars, readerVars>>

------------------------------------------------------------------------------
(* The reading thread *)

CallRecv ==
    /\ rPc = "idle"
    /\ rPc' = "head"
    /\ rBuf' = <<>>
    /\ UNCHANGED <<proc, stream, writerVars, rLen, got>>

nleft == (IF rPc = "head" THEN HeadLen ELSE rLen) - Len(rBuf)

\* recv returns some of the bytes that are there.
Take(k) ==
    /\ rPc # "idle"
    /\ nleft > 0
    /\ rBuf' = rBuf \o SubSeq(stream, 1, k)
    /\ stream' = SubSeq(stream, k + 1, Len(stream))
    /\ UNCHANGED <<proc, writerVars, rPc, rLen, got>>

\* Mutant: recv is asked for more than what is left of the head or body.
RecvSome_greedy == \E k \in 1 .. Len(stream) : Take(k)

\* The loop of recvn asks for what is left.
RecvSome == \E k \in 1 .. Len(stream) : k <= nleft /\ Take(k)

\* The head is complete: recv_msg throws on a wrong magic and on a length
\* above the limit, else it goes on with the body.
CheckHead ==
    /\ rPc = "head"
    /\ nleft <= 0
    /\ IF rBuf[1] = Magic /\ rBuf[2] <= MsgLimit
       THEN /\ rPc' = "body"
            /\ rLen' = rBuf[2]
            /\ rBuf' = <<>>
            /\ UNCHANGED <<proc, got>>
       ELSE /\ proc' = IF rBuf[1] # Magic THEN "magic" ELSE "length"
            /\ UNCHANGED readerVars
    /\ UNCHANGED <<stream, writerVars>>

RecvReturns ==
    /\ rPc = "body"
    /\ nleft <= 0
    /\ got' = Append(got, rBuf)
    /\ rPc' = "idle"
    /\ rBuf' = <<>>
    /\ UNCHANGED <<proc, stream, writerVars, rLen>>

\* An error, or the end of the stream in the middle of a message.
RecvFails ==
    /\ MayFail
    /\ rPc # "idle"
    /\ nleft > 0
    /\ proc' = "socket"
    /\ UNCHANGED <<stream, writerVars, readerVars>>

------------------------------------------------------------------------------
\* What a call of send_msg, and the loop of recv_msg calls, do without a
\* failing system call.
SendMsg == SendSome \/ SendnReturns
RecvMsg == CallRecv \/ RecvSome \/ CheckHead \/ RecvReturns

Next ==
    /\ proc = "running"
    /\ \/ \E m \in Messages : CallSend(m)
       \/ SendMsg
       \/ RecvMsg
       \/ SendFails
       \/ RecvFails

Spec == Init /\ [][Next]_vars

\* Both threads are scheduled; the writer need not call send_msg again, and
\* no call need fail.
FairSpec ==
    /\ Spec
    /\ WF_vars(proc = "running" /\ SendMsg)
    /\ WF_vars(proc = "running" /\ RecvMsg)

------------------------------------------------------------------------------
(* Properties *)

\* Messages whose last byte is in the stream, or beyond.
Written == IF \A i \in DOMAIN toSend : toSend[i] = <<>> THEN sentMsgs ELSE Front(sentMsgs)

\* The byte stream implements the channel: whatever the sizes of the single
\* transfers, recv_msg returns exactly the messages of send_msg, whole and
\* in order, also empty ones, ones that do not fit into the socket buffers
\* and ones whose body looks like a head.
Channel == INSTANCE MsgChannel WITH
               queue <- SubSeq(Written, Len(got) + 1, Len(Written)),
               PipeCap <- BufSize \div HeadLen + 1
ImplementsChannel == Channel!ChannelSpec

\* recv_msg never loses the frame boundary: it finds its magic number in
\* every head, and the only message it refuses is one above the limit.
RefusesOnlyOversized ==
    /\ proc # "magic"
    /\ proc = "length" => Len(sentMsgs[Len(got) + 1]) > MsgLimit

\* So frames are sound: recv_msg keeps within its buffers (sio.hpp:654-661)
\* and refuses a message only for its length.
FramesSound == TypeOK /\ RefusesOnlyOversized

\* Every message given to send_msg is returned by recv_msg, however small
\* the socket buffers, unless the process ends.
EveryMessageArrives ==
    \A n \in 1 .. MaxMsgs :
        Len(sentMsgs) >= n ~> Len(got) >= n \/ proc # "running"

==============================================================================
