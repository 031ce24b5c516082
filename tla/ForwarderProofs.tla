--------------------------- MODULE ForwarderProofs ---------------------------
(***************************************************************************)
(* Proofs about Forwarder, for every value of its constants: number of     *)
(* clients and descriptors, capacities, bounds and faults.                 *)
(*                                                                         *)
(* The argument follows a datagram. A path (what the receiving thread has  *)
(* read, the pipe, what the sending thread has not written) changes in     *)
(* three ways only: a frame moves from one stretch to the one before it    *)
(* and the path stays as it is, a pair of frames is put at its end, or a   *)
(* pair is taken off its front.                                            *)
(***************************************************************************)
EXTENDS Forwarder, SequenceTheorems, FiniteSetTheorems, TLAPS

Inv ==
    /\ TypeOK
    /\ FramesAligned
    /\ ConnectionMapSound
    /\ ConnectionsRouted
    /\ AnswersReachTheirClient
    /\ ConnectionsNotShared

------------------------------------------------------------------------------
(* Paths *)

(* recv_msg moves a frame from the pipe to what the receiver has got.      *)
LEMMA RecvKeepsPath ==
    ASSUME NEW S, NEW got \in Seq(S), NEW ch \in Seq(S), NEW todo \in Seq(S), ch # <<>>
    PROVE  /\ Head(ch) \in S
           /\ Append(got, Head(ch)) \in Seq(S)
           /\ Tail(ch) \in Seq(S)
           /\ Append(got, Head(ch)) \o Tail(ch) \o todo = got \o ch \o todo
  <1>1. Append(got, Head(ch)) \o Tail(ch) = got \o ch
    OBVIOUS
  <1> QED
    BY <1>1

(* send_msg moves a frame from what the sender has to write to the pipe.   *)
LEMMA SendKeepsPath ==
    ASSUME NEW S, NEW ch \in Seq(S), NEW todo \in Seq(S), todo # <<>>
    PROVE  /\ Append(ch, Head(todo)) \in Seq(S)
           /\ Tail(todo) \in Seq(S)
           /\ Append(ch, Head(todo)) \o Tail(todo) = ch \o todo
  OBVIOUS

(* The two frames at the front of an aligned path belong together, and the *)
(* path stays aligned without them.                                        *)
LEMMA TakePair ==
    ASSUME NEW S, NEW a \in S, NEW b \in S, NEW t \in Seq(S), NEW layer,
           NEW path, path = <<a, b>> \o t, Aligned(path, layer)
    PROVE  Belong(a, b, layer) /\ Aligned(t, layer)
  <1>1. Len(path) = Len(t) + 2
    BY ConcatProperties, <<a, b>> \in Seq(S)
  <1>2. \A i \in 1 .. Len(t) : t[i] = path[i + 2]
    BY ConcatProperties, <<a, b>> \in Seq(S)
  <1>3. path[1] = a /\ path[2] = b
    BY ConcatProperties, <<a, b>> \in Seq(S)
  <1>4. Len(t) \in Nat /\ Len(t) % 2 = 0
    BY <1>1 DEF Aligned
  <1>5. ASSUME NEW i \in 1 .. Len(t), i % 2 = 1
        PROVE  Belong(t[i], t[i + 1], layer)
    <2>1. i + 2 \in 1 .. Len(path) /\ (i + 2) % 2 = 1
      BY <1>1, <1>4, <1>5
    <2>2. i + 1 \in 1 .. Len(t)
      BY <1>4, <1>5
    <2>3. t[i] = path[i + 2] /\ t[i + 1] = path[(i + 2) + 1]
      BY <1>2, <2>2
    <2> QED
      BY <2>1, <2>3 DEF Aligned
  <1>6. Belong(a, b, layer)
    BY <1>1, <1>3, <1>4, 1 \in 1 .. Len(path) DEF Aligned
  <1> QED
    BY <1>4, <1>5, <1>6 DEF Aligned

(* forwardMessage puts two frames that belong together at the end.         *)
LEMMA AddPair ==
    ASSUME NEW S, NEW s \in Seq(S), NEW a \in S, NEW b \in S, NEW layer,
           Belong(a, b, layer), Aligned(s, layer)
    PROVE  Aligned(s \o <<a, b>>, layer)
  <1> DEFINE u == s \o <<a, b>>
  <1>1. Len(u) = Len(s) + 2
    BY ConcatProperties, <<a, b>> \in Seq(S)
  <1>2. \A i \in 1 .. Len(s) : u[i] = s[i]
    BY ConcatProperties, <<a, b>> \in Seq(S)
  <1>3. u[Len(s) + 1] = a /\ u[Len(s) + 2] = b
    BY ConcatProperties, <<a, b>> \in Seq(S)
  <1>4. Len(s) \in Nat /\ Len(s) % 2 = 0
    BY DEF Aligned
  <1>5. ASSUME NEW i \in 1 .. Len(u), i % 2 = 1
        PROVE  Belong(u[i], u[i + 1], layer)
    <2>1. CASE i \in 1 .. Len(s)
      <3>1. i + 1 \in 1 .. Len(s)
        BY <2>1, <1>4, <1>5
      <3> QED
        BY <2>1, <3>1, <1>2, <1>5 DEF Aligned
    <2>2. CASE i = Len(s) + 1
      BY <2>2, <1>3, <1>4
    <2> QED
      BY <2>1, <2>2, <1>1, <1>4, <1>5
  <1>6. Len(u) % 2 = 0
    BY <1>1, <1>4
  <1> QED
    BY <1>5, <1>6 DEF Aligned

LEMMA TwoFrames ==
    ASSUME NEW S, NEW got \in Seq(S), Len(got) = 2
    PROVE  got = <<got[1], got[2]>> /\ got[1] \in S /\ got[2] \in S
  OBVIOUS

LEMMA SecondFrame ==
    ASSUME NEW S, NEW got \in Seq(S), got # <<>>, Len(got) <= 1, NEW b \in S
    PROVE  LET both == Append(got, b)
           IN  both \in Seq(S) /\ Len(both) = 2 /\ both[1] = got[1] /\ both[2] = b
  <1>1. Len(got) \in Nat \ {0}
    BY EmptySeq
  <1>2. Len(got) = 1
    BY <1>1
  <1> QED
    BY <1>2, AppendProperties

(* The event handler that has read both frames of a datagram drops them.   *)
LEMMA HandlerDone ==
    ASSUME NEW S, NEW got \in Seq(S), NEW ch \in Seq(S), NEW todo \in Seq(S),
           NEW layer, Len(got) = 2, Aligned(got \o ch \o todo, layer)
    PROVE  /\ Belong(got[1], got[2], layer)
           /\ Aligned(<<>> \o ch \o todo, layer)
  <1>1. got = <<got[1], got[2]>> /\ got[1] \in S /\ got[2] \in S
    BY TwoFrames, Zenon
  <1> DEFINE a == got[1]
             b == got[2]
             path == got \o ch \o todo
  <1>2. Aligned(path, layer)
    OBVIOUS
  <1>3. path = <<a, b>> \o ch \o todo /\ a \in S /\ b \in S
    BY <1>1, Zenon
  <1> HIDE DEF a, b, path
  <1>4. <<a, b>> \o ch \o todo = <<a, b>> \o (ch \o todo)
    BY <1>3
  <1>5. ch \o todo \in Seq(S) /\ <<>> \o ch = ch
    OBVIOUS
  <1>6. path = <<a, b>> \o (ch \o todo)
    BY <1>3, <1>4, Zenon
  <1>7. Belong(a, b, layer) /\ Aligned(ch \o todo, layer)
    BY <1>2, <1>3, <1>5, <1>6, TakePair
  <1> QED
    BY <1>5, <1>7, Zenon DEF a, b

------------------------------------------------------------------------------
(* The environment *)

LEMMA ClientSendStep ==
    ASSUME Inv, proc = "running", Environment,
           NEW c \in Clients, NEW size \in Sizes, ClientSend(c, size)
    PROVE  Inv'
  <1>1. TypeOK'
    <2> DEFINE d == [src |-> c, seq |-> sent + 1, layer |-> 0, size |-> size]
    <2>1. d \in DatagramAt(0)
      BY NetAssumption DEF Inv, TypeOK, NetTypeOK, DatagramAt
    <2>2. listenQ' = Append(listenQ, d)
      BY DEF ClientSend
    <2> HIDE DEF d
    <2>3. NetTypeOK'
      BY <2>1, <2>2, NetAssumption DEF Inv, TypeOK, NetTypeOK, ClientSend
    <2> QED
      BY <2>3 DEF Inv, TypeOK, PipeTypeOK, InTypeOK, OutTypeOK, Environment,
                  pipeVars, inVars, outVars
  <1>2. FramesAligned'
    BY DEF Inv, FramesAligned, RequestPath, AnswerPath, Environment, pipeVars, inVars, outVars
  <1>3. ConnectionMapSound'
    BY DEF Inv, ConnectionMapSound, Environment, ClientSend, outVars
  <1>4. ConnectionsRouted'
    BY DEF Inv, ConnectionsRouted, Environment, ClientSend, outVars
  <1>5. AnswersReachTheirClient' /\ ConnectionsNotShared'
    BY DEF Inv, AnswersReachTheirClient, ConnectionsNotShared, ClientSend
  <1> QED
    BY <1>1, <1>2, <1>3, <1>4, <1>5 DEF Inv

LEMMA ServerReplyStep ==
    ASSUME Inv, proc = "running", Environment,
           NEW fd \in Fds, NEW d, NEW size \in Sizes, ServerReply(fd, d, size)
    PROVE  Inv'
  <1> DEFINE e == [src |-> d.src, seq |-> replied + 1, layer |-> 1, size |-> size]
  <1>1. <<fd, d>> \in wireOut /\ d \in Datagram /\ d.src = parseClientId(server2client[fd])
    BY DEF Inv, TypeOK, NetTypeOK, ConnectionsRouted, ServerReply
  <1>2. e \in DatagramAt(1)
    BY <1>1, NetAssumption DEF Inv, TypeOK, NetTypeOK, Datagram, DatagramAt
  <1>3. connQ' = [connQ EXCEPT ![fd] = Append(@, e)] /\ fd \in conns
    BY DEF ServerReply
  <1>4. e.src = parseClientId(server2client[fd])
    BY <1>1
  <1> HIDE DEF e
  <1>5. TypeOK'
    <2>1. NetTypeOK'
      BY <1>2, <1>3, NetAssumption DEF Inv, TypeOK, NetTypeOK, ServerReply
    <2> QED
      BY <2>1 DEF Inv, TypeOK, PipeTypeOK, InTypeOK, OutTypeOK, Environment,
                  pipeVars, inVars, outVars
  <1>6. FramesAligned'
    BY DEF Inv, FramesAligned, RequestPath, AnswerPath, Environment, pipeVars, inVars, outVars
  <1>7. ConnectionMapSound'
    BY DEF Inv, ConnectionMapSound, Environment, ServerReply, outVars
  <1>8. ConnectionsRouted'
    <2>1. ASSUME NEW g \in Fds, NEW i \in 1 .. Len(connQ'[g])
          PROVE  g \in conns /\ connQ'[g][i].src = parseClientId(server2client[g])
      <3>1. CASE g # fd
        BY <3>1, <1>3 DEF Inv, TypeOK, NetTypeOK, ConnectionsRouted
      <3>2. CASE g = fd
        <4>1. connQ[fd] \in Seq(DatagramAt(1)) /\ connQ'[fd] = Append(connQ[fd], e)
          BY <1>3 DEF Inv, TypeOK, NetTypeOK
        <4>2. CASE i \in 1 .. Len(connQ[fd])
          BY <4>1, <4>2, <3>2, <1>3 DEF Inv, ConnectionsRouted
        <4>3. CASE i = Len(connQ[fd]) + 1
          BY <4>1, <4>3, <3>2, <1>3, <1>4
        <4> QED
          BY <4>1, <4>2, <4>3, <3>2
      <3> QED
        BY <3>1, <3>2
    <2> QED
      BY <2>1 DEF Inv, ConnectionsRouted, Environment, ServerReply, outVars
  <1>9. AnswersReachTheirClient' /\ ConnectionsNotShared'
    BY DEF Inv, AnswersReachTheirClient, ConnectionsNotShared, ServerReply
  <1> QED
    BY <1>5, <1>6, <1>7, <1>8, <1>9 DEF Inv

LEMMA IcmpArrivesStep ==
    ASSUME Inv, proc = "running", Environment, NEW fd \in Fds, IcmpArrives(fd)
    PROVE  Inv'
  <1>1. TypeOK'
    BY DEF Inv, TypeOK, NetTypeOK, PipeTypeOK, InTypeOK, OutTypeOK, Environment,
           IcmpArrives, pipeVars, inVars, outVars
  <1>2. FramesAligned'
    BY DEF Inv, FramesAligned, RequestPath, AnswerPath, Environment, pipeVars, inVars, outVars
  <1>3. ConnectionMapSound'
    BY DEF Inv, ConnectionMapSound, Environment, IcmpArrives, outVars
  <1>4. ConnectionsRouted'
    BY DEF Inv, ConnectionsRouted, Environment, IcmpArrives, outVars
  <1>5. AnswersReachTheirClient' /\ ConnectionsNotShared'
    BY DEF Inv, AnswersReachTheirClient, ConnectionsNotShared, IcmpArrives
  <1> QED
    BY <1>1, <1>2, <1>3, <1>4, <1>5 DEF Inv

LEMMA EnvironmentStep ==
    ASSUME Inv, proc = "running", Environment
    PROVE  Inv'
  BY ClientSendStep, ServerReplyStep, IcmpArrivesStep DEF Environment, NetNext

------------------------------------------------------------------------------
(* The inbound thread *)

LEMMA InSetupStep ==
    ASSUME Inv, proc = "running", InMkPipe \/ InPublish \/ InBind \/ InEpollWait \/ InCallFails,
           UNCHANGED outVars
    PROVE  Inv'
  <1>1. TypeOK'
    <2>1. CASE InMkPipe
      BY <2>1 DEF Inv, TypeOK, NetTypeOK, PipeTypeOK, InTypeOK, OutTypeOK, InMkPipe,
                  Causes, FaultKinds, outVars
    <2>2. CASE InPublish
      BY <2>2 DEF Inv, TypeOK, NetTypeOK, PipeTypeOK, InTypeOK, OutTypeOK, InPublish,
                  netVars, outVars
    <2>3. CASE InBind
      BY <2>3 DEF Inv, TypeOK, NetTypeOK, PipeTypeOK, InTypeOK, OutTypeOK, InBind,
                  Causes, FaultKinds, pipeVars, outVars
    <2>4. CASE InEpollWait
      BY <2>4 DEF Inv, TypeOK, NetTypeOK, PipeTypeOK, InTypeOK, OutTypeOK, InEpollWait,
                  InReady, netVars, pipeVars, outVars
    <2>5. CASE InCallFails
      BY <2>5 DEF Inv, TypeOK, NetTypeOK, PipeTypeOK, InTypeOK, OutTypeOK, InCallFails,
                  Causes, FaultKinds, pipeVars, inVars, outVars
    <2> QED
      BY <2>1, <2>2, <2>3, <2>4, <2>5
  <1>2. UNCHANGED <<conns, connQ, wireOut, wireBack, toOut, toIn, inGot, inTodo>>
    BY DEF InMkPipe, InPublish, InBind, InEpollWait, InCallFails, netVars, pipeVars, inVars
  <1>3. FramesAligned'
    BY <1>2 DEF Inv, FramesAligned, RequestPath, AnswerPath, outVars
  <1>4. ConnectionMapSound'
    BY <1>2 DEF Inv, ConnectionMapSound, outVars
  <1>5. ConnectionsRouted'
    BY <1>2 DEF Inv, ConnectionsRouted, outVars
  <1>6. AnswersReachTheirClient' /\ ConnectionsNotShared'
    BY <1>2 DEF Inv, AnswersReachTheirClient, ConnectionsNotShared
  <1> QED
    BY <1>1, <1>3, <1>4, <1>5, <1>6 DEF Inv

LEMMA InRecvIdStep ==
    ASSUME Inv, proc = "running", InRecvId, UNCHANGED outVars
    PROVE  Inv'
  <1>1. /\ inGot \in Seq(Frame) /\ inGot = <<>>
        /\ toIn \in Seq(Frame) /\ toIn # <<>> /\ outTodo \in Seq(Frame)
    BY DEF Inv, TypeOK, PipeTypeOK, InTypeOK, OutTypeOK, InRecvId, InBetweenEvents, recv_msg
  <1>2. inGot' = Append(inGot, Head(toIn)) /\ toIn' = Tail(toIn)
    BY <1>1 DEF InRecvId, recv_msg
  <1>3. /\ inGot' \in Seq(Frame) /\ toIn' \in Seq(Frame)
        /\ inGot' \o toIn' \o outTodo = AnswerPath
    BY <1>1, <1>2, RecvKeepsPath DEF AnswerPath
  <1>4. TypeOK'
    BY <1>3 DEF Inv, TypeOK, NetTypeOK, PipeTypeOK, InTypeOK, OutTypeOK, InRecvId,
                netVars, outVars
  <1>5. FramesAligned'
    BY <1>3 DEF Inv, FramesAligned, RequestPath, AnswerPath, InRecvId, outVars
  <1>6. ConnectionMapSound' /\ ConnectionsRouted' /\ AnswersReachTheirClient'
                            /\ ConnectionsNotShared'
    BY DEF Inv, ConnectionMapSound, ConnectionsRouted, AnswersReachTheirClient,
           ConnectionsNotShared, InRecvId, netVars, outVars
  <1> QED
    BY <1>4, <1>5, <1>6 DEF Inv

LEMMA InSendToStep ==
    ASSUME Inv, proc = "running", InSendTo, UNCHANGED outVars
    PROVE  Inv'
  <1> DEFINE both == Append(inGot, Head(toIn))
  <1>1. /\ inGot \in Seq(Frame) /\ inGot # <<>> /\ Len(inGot) <= 1
        /\ toIn \in Seq(Frame) /\ toIn # <<>> /\ outTodo \in Seq(Frame)
    BY DEF Inv, TypeOK, PipeTypeOK, InTypeOK, OutTypeOK, InSendTo, recv_msg
  <1>2. /\ both \in Seq(Frame) /\ Tail(toIn) \in Seq(Frame)
        /\ both \o Tail(toIn) \o outTodo = AnswerPath
    BY <1>1, RecvKeepsPath DEF AnswerPath
  <1>3. Len(both) = 2 /\ both[1] = inGot[1] /\ both[2] = Head(toIn)
    BY <1>1, RecvKeepsPath, SecondFrame
  <1>4. Aligned(both \o Tail(toIn) \o outTodo, 0)
    BY <1>2 DEF Inv, FramesAligned
  <1> HIDE DEF both
  <1>5. Belong(both[1], both[2], 0) /\ Aligned(<<>> \o Tail(toIn) \o outTodo, 0)
    BY <1>1, <1>2, <1>3, <1>4, HandlerDone
  <1>6. Belong(inGot[1], Head(toIn), 0)
    BY <1>3, <1>5
  <1>7. wireBack' \subseteq wireBack \cup {<<parseClientId(inGot[1][2]), Head(toIn)[2]>>}
    BY DEF InSendTo
  <1>8. /\ parseClientId(inGot[1][2]) \in Clients
        /\ Head(toIn)[2] \in Datagram
        /\ Head(toIn)[2].src = parseClientId(inGot[1][2])
        /\ Head(toIn)[2].layer = 0
    BY <1>6 DEF Belong, ClientId, parseClientId, Datagram, DatagramAt
  <1>9. TypeOK'
    <2>1. wireBack' \subseteq (Clients \X Datagram)
      BY <1>7, <1>8 DEF Inv, TypeOK, NetTypeOK
    <2> QED
      BY <1>2, <2>1 DEF Inv, TypeOK, NetTypeOK, PipeTypeOK, InTypeOK, OutTypeOK, InSendTo,
                        recv_msg, Causes, FaultKinds, outVars
  <1>10. FramesAligned'
    BY <1>5 DEF Inv, FramesAligned, RequestPath, AnswerPath, InSendTo, recv_msg, outVars
  <1>11. AnswersReachTheirClient'
    BY <1>7, <1>8 DEF Inv, AnswersReachTheirClient
  <1>12. ConnectionMapSound' /\ ConnectionsRouted' /\ ConnectionsNotShared'
    BY DEF Inv, ConnectionMapSound, ConnectionsRouted, ConnectionsNotShared, InSendTo, outVars
  <1> QED
    BY <1>9, <1>10, <1>11, <1>12 DEF Inv

LEMMA InClientEventStep ==
    ASSUME Inv, proc = "running", InClientEvent, UNCHANGED outVars
    PROVE  Inv'
  <1> DEFINE d == Head(listenQ)
  <1>1. /\ listenQ \in Seq(DatagramAt(0)) /\ listenQ # <<>> /\ inTodo = <<>>
        /\ outGot \in Seq(Frame) /\ toOut \in Seq(Frame)
    BY DEF Inv, TypeOK, NetTypeOK, PipeTypeOK, InTypeOK, OutTypeOK, InClientEvent,
           InBetweenEvents
  <1>2. d \in DatagramAt(0) /\ Tail(listenQ) \in Seq(DatagramAt(0))
    BY <1>1, HeadTailProperties
  <1> HIDE DEF d
  <1>3. PICK junk \in Junk :
            inTodo' = forwardMessage(makeClientId(d.src, junk), convertForward(d))
    BY DEF InClientEvent, d
  <1> DEFINE a == IdFrame(makeClientId(d.src, junk))
             b == MsgFrame(convertForward(d))
  <1>4. Belong(a, b, 1) /\ a \in Frame /\ b \in Frame
    BY <1>2 DEF Belong, Frame, IdFrame, MsgFrame, makeClientId, parseClientId, ClientId,
                convertForward, DatagramAt, Datagram
  <1>5. inTodo' = <<a, b>>
    BY <1>3 DEF forwardMessage
  <1> HIDE DEF a, b
  <1>6. TypeOK'
    <2>1. inTodo' \in Seq(Frame)
      BY <1>4, <1>5
    <2> QED
      BY <1>1, <1>2, <2>1 DEF Inv, TypeOK, NetTypeOK, PipeTypeOK, InTypeOK, OutTypeOK,
                              InClientEvent, pipeVars, outVars
  <1>7. FramesAligned'
    <2>1. outGot \o toOut \in Seq(Frame)
      BY <1>1
    <2>2. RequestPath = outGot \o toOut
      BY <1>1, <2>1, ConcatEmptySeq DEF RequestPath
    <2>3. Aligned(outGot \o toOut \o <<a, b>>, 1)
      BY <1>4, <2>1, <2>2, AddPair DEF Inv, FramesAligned
    <2> QED
      BY <1>5, <2>3 DEF Inv, FramesAligned, RequestPath, AnswerPath, InClientEvent,
                        pipeVars, outVars
  <1>8. ConnectionMapSound' /\ ConnectionsRouted' /\ AnswersReachTheirClient'
                            /\ ConnectionsNotShared'
    BY DEF Inv, ConnectionMapSound, ConnectionsRouted, AnswersReachTheirClient,
           ConnectionsNotShared, InClientEvent, outVars
  <1> QED
    BY <1>6, <1>7, <1>8 DEF Inv

LEMMA InSendMsgStep ==
    ASSUME Inv, proc = "running", InSendMsg, UNCHANGED outVars
    PROVE  Inv'
  <1>1. /\ outGot \in Seq(Frame) /\ toOut \in Seq(Frame)
        /\ inTodo \in Seq(Frame) /\ inTodo # <<>>
    BY DEF Inv, TypeOK, PipeTypeOK, InTypeOK, OutTypeOK, InSendMsg
  <1>2. toOut' = Append(toOut, Head(inTodo)) /\ inTodo' = Tail(inTodo)
    BY DEF InSendMsg, send_msg
  <1>3. /\ toOut' \in Seq(Frame) /\ inTodo' \in Seq(Frame)
        /\ outGot \o toOut' \o inTodo' = RequestPath
    <2>1. /\ Append(toOut, Head(inTodo)) \in Seq(Frame) /\ Tail(inTodo) \in Seq(Frame)
          /\ Append(toOut, Head(inTodo)) \o Tail(inTodo) = toOut \o inTodo
      BY <1>1, SendKeepsPath
    <2>2. toOut' \in Seq(Frame) /\ inTodo' \in Seq(Frame) /\ toOut' \o inTodo' = toOut \o inTodo
      BY <1>2, <2>1, Zenon
    <2>3. outGot \o toOut \o inTodo = outGot \o (toOut \o inTodo)
      BY <1>1
    <2>4. toOut' \in Seq(Frame) /\ inTodo' \in Seq(Frame) =>
              outGot \o toOut' \o inTodo' = outGot \o (toOut' \o inTodo')
      BY <1>1
    <2> QED
      BY <2>2, <2>3, <2>4, Zenon DEF RequestPath
  <1>4. TypeOK'
    BY <1>3 DEF Inv, TypeOK, NetTypeOK, PipeTypeOK, InTypeOK, OutTypeOK, InSendMsg,
                netVars, outVars
  <1>5. FramesAligned'
    BY <1>3 DEF Inv, FramesAligned, RequestPath, AnswerPath, InSendMsg, outVars
  <1>6. ConnectionMapSound' /\ ConnectionsRouted' /\ AnswersReachTheirClient'
                            /\ ConnectionsNotShared'
    BY DEF Inv, ConnectionMapSound, ConnectionsRouted, AnswersReachTheirClient,
           ConnectionsNotShared, InSendMsg, netVars, outVars
  <1> QED
    BY <1>4, <1>5, <1>6 DEF Inv

LEMMA InboundStep ==
    ASSUME Inv, proc = "running", InboundThread
    PROVE  Inv'
  BY InSetupStep, InRecvIdStep, InSendToStep, InClientEventStep, InSendMsgStep
     DEF InboundThread, InNext

------------------------------------------------------------------------------
(* The outbound thread *)

LEMMA OutWaitStep ==
    ASSUME Inv, proc = "running", OutSeesPipe \/ OutEpollWait \/ OutCallFails \/ OutConnectFails,
           UNCHANGED inVars
    PROVE  Inv'
  <1>1. TypeOK'
    <2>1. CASE OutSeesPipe
      BY <2>1 DEF Inv, TypeOK, NetTypeOK, PipeTypeOK, InTypeOK, OutTypeOK, OutSeesPipe,
                  netVars, pipeVars, inVars
    <2>2. CASE OutEpollWait
      BY <2>2 DEF Inv, TypeOK, NetTypeOK, PipeTypeOK, InTypeOK, OutTypeOK, OutEpollWait,
                  OutReady, netVars, pipeVars, inVars
    <2>3. CASE OutConnectFails
      BY <2>3 DEF Inv, TypeOK, NetTypeOK, PipeTypeOK, InTypeOK, OutTypeOK, OutConnectFails,
                  Causes, FaultKinds, pipeVars, inVars, outVars
    <2>4. CASE OutCallFails
      BY <2>4 DEF Inv, TypeOK, NetTypeOK, PipeTypeOK, InTypeOK, OutTypeOK, OutCallFails,
                  Causes, FaultKinds, pipeVars, inVars, outVars
    <2> QED
      BY <2>1, <2>2, <2>3, <2>4
  <1>2. /\ UNCHANGED <<conns, connQ, wireOut, wireBack, toOut, toIn, outGot, outTodo,
                       client2server, server2client>>
        /\ outBatch' \subseteq outBatch \cup {"ipc"} \cup conns
    BY DEF OutSeesPipe, OutEpollWait, OutCallFails, OutConnectFails, OutReady, netVars, pipeVars, outVars
  <1>3. FramesAligned'
    BY <1>2 DEF Inv, FramesAligned, RequestPath, AnswerPath, inVars
  <1>4. ConnectionMapSound'
    BY <1>2 DEF Inv, ConnectionMapSound
  <1>5. ConnectionsRouted'
    BY <1>2 DEF Inv, ConnectionsRouted
  <1>6. AnswersReachTheirClient' /\ ConnectionsNotShared'
    BY <1>2 DEF Inv, AnswersReachTheirClient, ConnectionsNotShared
  <1> QED
    BY <1>1, <1>3, <1>4, <1>5, <1>6 DEF Inv

LEMMA OutRecvStep ==
    ASSUME Inv, proc = "running", OutRecvId \/ OutRecvMsg, UNCHANGED inVars
    PROVE  Inv'
  <1>1. /\ outGot \in Seq(Frame)
        /\ toOut \in Seq(Frame) /\ toOut # <<>> /\ inTodo \in Seq(Frame)
    BY DEF Inv, TypeOK, PipeTypeOK, InTypeOK, OutTypeOK, OutRecvId, OutRecvMsg, recv_msg
  <1>2. /\ outGot' = Append(outGot, Head(toOut)) /\ toOut' = Tail(toOut)
        /\ Len(outGot) <= 1
    <2>1. CASE OutRecvId
      <3>1. outGot = <<>> /\ outGot' = <<Head(toOut)>> /\ toOut' = Tail(toOut)
        BY <2>1 DEF OutRecvId, OutBetweenEvents, recv_msg
      <3> QED
        BY <3>1
    <2>2. CASE OutRecvMsg
      BY <2>2 DEF OutRecvMsg, recv_msg
    <2> QED
      BY <2>1, <2>2
  <1>3. /\ outGot' \in Seq(Frame) /\ toOut' \in Seq(Frame)
        /\ outGot' \o toOut' \o inTodo = RequestPath
    BY <1>1, <1>2, RecvKeepsPath DEF RequestPath
  <1>4. Len(outGot') <= 2
    BY <1>1, <1>2, RecvKeepsPath, AppendProperties
  <1>5. outBatch' \subseteq outBatch
    BY DEF OutRecvId, OutRecvMsg
  <1>6. TypeOK'
    BY <1>3, <1>4, <1>5 DEF Inv, TypeOK, NetTypeOK, PipeTypeOK, InTypeOK, OutTypeOK,
                OutRecvId, OutRecvMsg, netVars, inVars
  <1>7. FramesAligned'
    BY <1>3 DEF Inv, FramesAligned, RequestPath, AnswerPath, OutRecvId, OutRecvMsg, inVars
  <1>8. ConnectionMapSound' /\ ConnectionsRouted' /\ AnswersReachTheirClient'
                            /\ ConnectionsNotShared'
    BY <1>5 DEF Inv, ConnectionMapSound, ConnectionsRouted, AnswersReachTheirClient,
           ConnectionsNotShared, OutRecvId, OutRecvMsg, netVars
  <1> QED
    BY <1>6, <1>7, <1>8 DEF Inv

LEMMA OutSendMsgStep ==
    ASSUME Inv, proc = "running", OutSendMsg, UNCHANGED inVars
    PROVE  Inv'
  <1>1. /\ inGot \in Seq(Frame) /\ toIn \in Seq(Frame)
        /\ outTodo \in Seq(Frame) /\ outTodo # <<>>
    BY DEF Inv, TypeOK, PipeTypeOK, InTypeOK, OutTypeOK, OutSendMsg
  <1>2. toIn' = Append(toIn, Head(outTodo)) /\ outTodo' = Tail(outTodo)
    BY DEF OutSendMsg, send_msg
  <1>3. /\ toIn' \in Seq(Frame) /\ outTodo' \in Seq(Frame)
        /\ inGot \o toIn' \o outTodo' = AnswerPath
    <2>1. /\ Append(toIn, Head(outTodo)) \in Seq(Frame) /\ Tail(outTodo) \in Seq(Frame)
          /\ Append(toIn, Head(outTodo)) \o Tail(outTodo) = toIn \o outTodo
      BY <1>1, SendKeepsPath
    <2>2. toIn' \in Seq(Frame) /\ outTodo' \in Seq(Frame) /\ toIn' \o outTodo' = toIn \o outTodo
      BY <1>2, <2>1, Zenon
    <2>3. inGot \o toIn \o outTodo = inGot \o (toIn \o outTodo)
      BY <1>1
    <2>4. toIn' \in Seq(Frame) /\ outTodo' \in Seq(Frame) =>
              inGot \o toIn' \o outTodo' = inGot \o (toIn' \o outTodo')
      BY <1>1
    <2> QED
      BY <2>2, <2>3, <2>4, Zenon DEF AnswerPath
  <1>4. TypeOK'
    BY <1>3 DEF Inv, TypeOK, NetTypeOK, PipeTypeOK, InTypeOK, OutTypeOK, OutSendMsg,
                netVars, inVars
  <1>5. FramesAligned'
    BY <1>3 DEF Inv, FramesAligned, RequestPath, AnswerPath, OutSendMsg, inVars
  <1>6. ConnectionMapSound' /\ ConnectionsRouted' /\ AnswersReachTheirClient'
                            /\ ConnectionsNotShared'
    BY DEF Inv, ConnectionMapSound, ConnectionsRouted, AnswersReachTheirClient,
           ConnectionsNotShared, OutSendMsg, netVars
  <1> QED
    BY <1>4, <1>5, <1>6 DEF Inv

(* What the handler of a client's datagram has read: an id, and a payload  *)
(* of the client of that id; the path stays aligned without the two.       *)
LEMMA RequestRead ==
    ASSUME Inv, Len(outGot) = 2
    PROVE  /\ outGot[1][2] \in ClientId
           /\ outGot[2][2] \in Datagram
           /\ outGot[2][2].layer = 1
           /\ outGot[2][2].src = parseClientId(outGot[1][2])
           /\ Aligned(<<>> \o toOut \o inTodo, 1)
  <1>1. outGot \in Seq(Frame) /\ toOut \in Seq(Frame) /\ inTodo \in Seq(Frame)
    BY DEF Inv, TypeOK, PipeTypeOK, InTypeOK, OutTypeOK
  <1>2. Aligned(outGot \o toOut \o inTodo, 1)
    BY DEF Inv, FramesAligned, RequestPath
  <1>3. Belong(outGot[1], outGot[2], 1) /\ Aligned(<<>> \o toOut \o inTodo, 1)
    BY <1>1, <1>2, HandlerDone
  <1> QED
    BY <1>3 DEF Belong, ClientId, Datagram, DatagramAt

(* InjectiveConnectionMapping: add and del keep the maps inverse.          *)
LEMMA AddKeepsInverse ==
    ASSUME NEW c2s, NEW s2c, MutuallyInverse(c2s, s2c),
           NEW c, c \notin DOMAIN c2s, NEW s, s \notin DOMAIN s2c
    PROVE  MutuallyInverse(add_c2s(c2s, c, s), add_s2c(s2c, c, s))
  BY DEF MutuallyInverse, add_c2s, add_s2c, Store

LEMMA DelKeepsInverse ==
    ASSUME NEW c2s, NEW s2c, MutuallyInverse(c2s, s2c), NEW s \in DOMAIN s2c
    PROVE  MutuallyInverse(del_c2s(c2s, s2c, s), del_s2c(s2c, s))
  BY DEF MutuallyInverse, del_c2s, del_s2c, Erase

LEMMA OutSendKnownStep ==
    ASSUME Inv, proc = "running", OutSendKnown, UNCHANGED inVars
    PROVE  Inv'
  <1> DEFINE id == outGot[1][2]
             d == outGot[2][2]
             fd == client2server[id]
  <1>1. Len(outGot) = 2 /\ id \in DOMAIN client2server
    BY DEF OutSendKnown
  <1>2. d \in Datagram /\ d.layer = 1 /\ d.src = parseClientId(id)
    BY <1>1, RequestRead
  <1>3. Aligned(<<>> \o toOut \o inTodo, 1)
    BY <1>1, RequestRead
  <1>4. fd \in conns /\ server2client[fd] = id /\ fd \in Fds
    BY <1>1 DEF Inv, TypeOK, OutTypeOK, ConnectionMapSound, MutuallyInverse
  <1>5. wireOut' \subseteq wireOut \cup {<<fd, d>>}
    BY DEF OutSendKnown, quick_send
  <1>6. proc' \in {"running", "send"} /\ outGot' = <<>>
    BY DEF OutSendKnown, quick_send
  <1>7. UNCHANGED <<bound, listenQ, conns, connQ, connErr, wireBack, sent, replied, pipeVars,
                    outPc, outBatch, outTodo, client2server, server2client>>
    BY DEF OutSendKnown
  <1> HIDE DEF id, d, fd
  <1>8. TypeOK'
    <2>1. wireOut' \subseteq (Fds \X Datagram)
      BY <1>2, <1>4, <1>5 DEF Inv, TypeOK, NetTypeOK
    <2> QED
      BY <1>6, <1>7, <2>1 DEF Inv, TypeOK, NetTypeOK, PipeTypeOK, InTypeOK, OutTypeOK,
                              Causes, FaultKinds, pipeVars, inVars
  <1>9. FramesAligned'
    BY <1>3, <1>6, <1>7 DEF Inv, FramesAligned, RequestPath, AnswerPath, pipeVars, inVars
  <1>10. ConnectionMapSound' /\ AnswersReachTheirClient'
    BY <1>7 DEF Inv, ConnectionMapSound, AnswersReachTheirClient
  <1>11. \A w \in wireOut' :
            w[1] \in conns /\ w[2].src = parseClientId(server2client[w[1]]) /\ w[2].layer = 1
    BY <1>2, <1>4, <1>5 DEF Inv, ConnectionsRouted, ConnectionsNotShared
  <1>12. ConnectionsRouted'
    BY <1>7, <1>11 DEF Inv, ConnectionsRouted
  <1>13. ConnectionsNotShared'
    BY <1>11 DEF ConnectionsNotShared
  <1> QED
    BY <1>8, <1>9, <1>10, <1>12, <1>13 DEF Inv

LEMMA OutConnectStep ==
    ASSUME Inv, proc = "running", NEW fd \in Fds, OutConnect(fd), UNCHANGED inVars
    PROVE  Inv'
  <1> DEFINE id == outGot[1][2]
             d == outGot[2][2]
  <1>1. Len(outGot) = 2 /\ id \notin DOMAIN client2server /\ fd \notin conns
    BY DEF OutConnect, Connect
  <1>2. d \in Datagram /\ d.layer = 1 /\ d.src = parseClientId(id) /\ id \in ClientId
    BY <1>1, RequestRead
  <1>3. Aligned(<<>> \o toOut \o inTodo, 1)
    BY <1>1, RequestRead
  <1>4. /\ client2server' = add_c2s(client2server, id, fd)
        /\ server2client' = add_s2c(server2client, id, fd)
        /\ conns' = conns \cup {fd}
    BY DEF OutConnect, Connect
  <1>5. wireOut' \subseteq wireOut \cup {<<fd, d>>}
    BY DEF OutConnect, Connect, quick_send
  <1>6. proc' \in {"running", "send"} /\ outGot' = <<>>
    BY DEF OutConnect, Connect, quick_send
  <1>7. UNCHANGED <<bound, listenQ, connQ, connErr, wireBack, sent, replied, pipeVars,
                    outPc, outBatch, outTodo>>
    BY DEF OutConnect, Connect
  <1> HIDE DEF id, d
  <1>8. TypeOK'
    <2>1. wireOut' \subseteq (Fds \X Datagram)
      BY <1>2, <1>5 DEF Inv, TypeOK, NetTypeOK
    <2>2. NetTypeOK'
      BY <1>4, <1>6, <1>7, <2>1 DEF Inv, TypeOK, NetTypeOK, Causes, FaultKinds
    <2>3. /\ DOMAIN client2server' \subseteq ClientId
          /\ client2server' \in [DOMAIN client2server' -> Fds]
          /\ DOMAIN server2client' \subseteq Fds
          /\ server2client' \in [DOMAIN server2client' -> ClientId]
      BY <1>2, <1>4 DEF Inv, TypeOK, OutTypeOK, add_c2s, add_s2c, Store
    <2> QED
      BY <1>6, <1>7, <2>2, <2>3 DEF Inv, TypeOK, PipeTypeOK, InTypeOK, OutTypeOK,
                                    pipeVars, inVars
  <1>9. FramesAligned'
    BY <1>3, <1>6, <1>7 DEF Inv, FramesAligned, RequestPath, AnswerPath, pipeVars, inVars
  <1>10. ConnectionMapSound'
    <2>1. fd \notin DOMAIN server2client
      BY <1>1 DEF Inv, ConnectionMapSound
    <2>2. MutuallyInverse(client2server', server2client')
      BY <1>1, <1>4, <2>1, AddKeepsInverse DEF Inv, ConnectionMapSound
    <2> QED
      BY <1>4, <2>2 DEF Inv, ConnectionMapSound, add_s2c, Store
  <1>11. /\ server2client'[fd] = id
         /\ \A g \in conns : server2client'[g] = server2client[g]
    BY <1>1, <1>4 DEF Inv, ConnectionMapSound, add_s2c, Store
  <1>12. \A w \in wireOut' :
            /\ w[1] \in conns'
            /\ w[2].src = parseClientId(server2client'[w[1]])
            /\ w[2].layer = 1
    BY <1>2, <1>4, <1>5, <1>11 DEF Inv, ConnectionsRouted, ConnectionsNotShared
  <1>13. ConnectionsRouted'
    BY <1>4, <1>7, <1>11, <1>12 DEF Inv, ConnectionsRouted
  <1>14. ConnectionsNotShared'
    BY <1>12 DEF ConnectionsNotShared
  <1>15. AnswersReachTheirClient'
    BY <1>7 DEF Inv, AnswersReachTheirClient
  <1> QED
    BY <1>8, <1>9, <1>10, <1>13, <1>14, <1>15 DEF Inv

LEMMA OutRecvFailsStep ==
    ASSUME Inv, proc = "running", NEW fd \in Fds, OutRecvFails(fd), UNCHANGED inVars
    PROVE  Inv'
  <1>1. TypeOK'
    BY DEF Inv, TypeOK, NetTypeOK, PipeTypeOK, InTypeOK, OutTypeOK, OutRecvFails,
           OutTakeEvent, Causes, FaultKinds, pipeVars, inVars
  <1>2. FramesAligned'
    BY DEF Inv, FramesAligned, RequestPath, AnswerPath, OutRecvFails, pipeVars, inVars
  <1>3. ConnectionMapSound' /\ AnswersReachTheirClient' /\ ConnectionsNotShared'
    BY DEF Inv, ConnectionMapSound, AnswersReachTheirClient, ConnectionsNotShared, OutRecvFails
  <1>4. ConnectionsRouted'
    BY DEF ConnectionsRouted, OutRecvFails
  <1> QED
    BY <1>1, <1>2, <1>3, <1>4 DEF Inv

(* The empty answer: the connection goes, and the process with it.         *)
LEMMA EmptyAnswerStep ==
    ASSUME Inv, proc = "running", NEW fd \in Fds, OutServerEvent(fd), UNCHANGED inVars,
           WireSize(Head(connQ[fd])) = 0
    PROVE  Inv'
  <1>1. fd \in conns /\ fd \in DOMAIN server2client
    BY FdsAssumption DEF Inv, ConnectionMapSound, ConnectionsRouted, OutServerEvent, OutTakeEvent
  <1>2. CloseConn(fd)
    BY DEF OutServerEvent
  <1>3. fd \notin DOMAIN server2client'
    BY <1>2 DEF CloseConn, del_s2c, Erase
  <1>4. proc' = "connmap_assert" /\ UNCHANGED outTodo
    BY <1>3 DEF OutServerEvent
  <1>5. connQ' = [connQ EXCEPT ![fd] = Tail(@)] /\ connQ[fd] # <<>> /\ outBatch' \subseteq outBatch
    BY DEF OutServerEvent, OutTakeEvent
  <1>6. UNCHANGED <<bound, listenQ, connErr, wireOut, wireBack, sent, replied,
                    pipeVars, outPc, outGot>>
    BY DEF OutServerEvent
  <1>7. TypeOK'
    <2>1. NetTypeOK'
      BY <1>2, <1>4, <1>5, <1>6 DEF Inv, TypeOK, NetTypeOK, CloseConn, Causes
    <2>2. /\ DOMAIN client2server' \subseteq ClientId
          /\ client2server' \in [DOMAIN client2server' -> Fds]
          /\ DOMAIN server2client' \subseteq Fds
          /\ server2client' \in [DOMAIN server2client' -> ClientId]
      BY <1>2 DEF Inv, TypeOK, OutTypeOK, CloseConn, del_c2s, del_s2c, Erase
    <2> QED
      BY <1>4, <1>5, <1>6, <2>1, <2>2 DEF Inv, TypeOK, PipeTypeOK, InTypeOK, OutTypeOK,
                                          pipeVars, inVars
  <1>8. FramesAligned'
    BY <1>4, <1>6 DEF Inv, FramesAligned, RequestPath, AnswerPath, pipeVars, inVars
  <1>9. ConnectionMapSound'
    <2>1. MutuallyInverse(client2server', server2client')
      BY <1>1, <1>2, DelKeepsInverse DEF Inv, ConnectionMapSound, CloseConn
    <2> QED
      BY <1>2, <2>1 DEF Inv, ConnectionMapSound, CloseConn, del_s2c, Erase
  <1>10. ConnectionsRouted'
    BY <1>4 DEF ConnectionsRouted
  <1>11. AnswersReachTheirClient' /\ ConnectionsNotShared'
    BY <1>6 DEF Inv, AnswersReachTheirClient, ConnectionsNotShared
  <1> QED
    BY <1>7, <1>8, <1>9, <1>10, <1>11 DEF Inv

LEMMA AnswerStep ==
    ASSUME Inv, proc = "running", NEW fd \in Fds, OutServerEvent(fd), UNCHANGED inVars,
           WireSize(Head(connQ[fd])) # 0
    PROVE  Inv'
  <1> DEFINE d == Head(connQ[fd])
             a == IdFrame(server2client[fd])
             b == MsgFrame(convertBackward(d))
  <1>1. fd \in conns /\ fd \in DOMAIN server2client /\ server2client[fd] \in ClientId
    BY FdsAssumption DEF Inv, TypeOK, OutTypeOK, ConnectionMapSound, ConnectionsRouted,
                         OutServerEvent, OutTakeEvent
  <1>2. UNCHANGED <<conns, client2server, server2client>>
    BY DEF OutServerEvent
  <1>3. outTodo' = <<a, b>> /\ UNCHANGED proc
    BY <1>1, <1>2 DEF OutServerEvent, forwardMessage
  <1>4. /\ connQ' = [connQ EXCEPT ![fd] = Tail(@)] /\ connQ[fd] # <<>>
        /\ connQ[fd] \in Seq(DatagramAt(1))
        /\ outTodo = <<>> /\ outBatch' \subseteq outBatch
    BY DEF OutServerEvent, OutTakeEvent, OutBetweenEvents, Inv, TypeOK, NetTypeOK
  <1>5. UNCHANGED <<bound, listenQ, connErr, wireOut, wireBack, sent, replied,
                    pipeVars, outPc, outGot>>
    BY DEF OutServerEvent
  <1>d. d = connQ[fd][1]
    BY <1>4
  <1>6. /\ d \in DatagramAt(1) /\ Tail(connQ[fd]) \in Seq(DatagramAt(1))
        /\ Len(connQ[fd]) \in Nat \ {0}
        /\ Len(Tail(connQ[fd])) = Len(connQ[fd]) - 1
        /\ \A i \in 1 .. Len(Tail(connQ[fd])) : Tail(connQ[fd])[i] = connQ[fd][i + 1]
    BY <1>4, HeadTailProperties, EmptySeq
  <1>7. d.src = parseClientId(server2client[fd])
    BY <1>d, <1>6 DEF Inv, ConnectionsRouted
  <1> HIDE DEF d
  <1>8. Belong(a, b, 0) /\ a \in Frame /\ b \in Frame
    BY <1>1, <1>6, <1>7 DEF Belong, Frame, IdFrame, MsgFrame, convertBackward,
                            DatagramAt, Datagram
  <1> HIDE DEF a, b
  <1>9. TypeOK'
    <2>1. NetTypeOK'
      BY <1>2, <1>3, <1>4, <1>5, <1>6 DEF Inv, TypeOK, NetTypeOK
    <2>2. outTodo' \in Seq(Frame)
      BY <1>3, <1>8
    <2> QED
      BY <1>2, <1>4, <1>5, <2>1, <2>2 DEF Inv, TypeOK, PipeTypeOK, InTypeOK, OutTypeOK,
                                          pipeVars, inVars
  <1>10. FramesAligned'
    <2>1. inGot \in Seq(Frame) /\ toIn \in Seq(Frame)
      BY DEF Inv, TypeOK, PipeTypeOK, InTypeOK
    <2>2. inGot \o toIn \in Seq(Frame)
      BY <2>1
    <2>3. AnswerPath = inGot \o toIn
      BY <1>4, <2>2, ConcatEmptySeq DEF AnswerPath
    <2>4. Aligned(inGot \o toIn \o <<a, b>>, 0)
      BY <1>8, <2>2, <2>3, AddPair DEF Inv, FramesAligned
    <2> QED
      BY <1>3, <1>5, <2>4 DEF Inv, FramesAligned, RequestPath, AnswerPath, pipeVars, inVars
  <1>11. ConnectionsRouted'
    <2>1. ASSUME NEW g \in Fds, NEW i \in 1 .. Len(connQ'[g])
          PROVE  g \in conns /\ connQ'[g][i].src = parseClientId(server2client[g])
      <3>1. CASE g # fd
        BY <3>1, <1>4 DEF Inv, TypeOK, NetTypeOK, ConnectionsRouted
      <3>2. CASE g = fd
        <4>1. connQ'[g] = Tail(connQ[fd])
          BY <3>2, <1>4 DEF Inv, TypeOK, NetTypeOK
        <4>2. connQ'[g][i] = connQ[fd][i + 1] /\ i + 1 \in 1 .. Len(connQ[fd])
          BY <4>1, <1>6
        <4> QED
          BY <4>2, <3>2 DEF Inv, ConnectionsRouted
      <3> QED
        BY <3>1, <3>2
    <2> QED
      BY <1>2, <1>3, <1>4, <1>5, <2>1 DEF Inv, ConnectionsRouted
  <1>12. ConnectionMapSound' /\ AnswersReachTheirClient' /\ ConnectionsNotShared'
    BY <1>2, <1>5 DEF Inv, ConnectionMapSound, AnswersReachTheirClient, ConnectionsNotShared
  <1> QED
    BY <1>9, <1>10, <1>11, <1>12 DEF Inv

LEMMA OutboundStep ==
    ASSUME Inv, proc = "running", OutboundThread
    PROVE  Inv'
  BY OutWaitStep, OutRecvStep, OutSendKnownStep, OutConnectStep, OutRecvFailsStep,
     EmptyAnswerStep, AnswerStep, OutSendMsgStep DEF OutboundThread, OutNext

------------------------------------------------------------------------------
(* Theorems *)

LEMMA InitInv == Init => Inv
  <1> SUFFICES ASSUME Init PROVE Inv
    OBVIOUS
  <1> USE DEF Init, NetInit, PipeInit, InInit, OutInit
  <1>1. TypeOK
    <2>1. (\A S : <<>> \in Seq(S)) /\ Len(<<>>) = 0
      BY EmptySeq
    <2>2. NetTypeOK
      <3>1. listenQ \in Seq(DatagramAt(0)) /\ connQ \in [Fds -> Seq(DatagramAt(1))]
        BY <2>1
      <3>2. sent \in 0 .. MaxSent /\ replied \in 0 .. MaxReplies
        BY NetAssumption
      <3> QED
        BY <3>1, <3>2 DEF NetTypeOK
    <2>3. PipeTypeOK
      BY <2>1 DEF PipeTypeOK
    <2>4. InTypeOK
      BY <2>1 DEF InTypeOK
    <2>5. OutTypeOK
      BY <2>1 DEF OutTypeOK, EmptyMap
    <2> QED
      BY <2>2, <2>3, <2>4, <2>5 DEF TypeOK
  <1>2. FramesAligned
    <2>1. RequestPath = <<>> /\ AnswerPath = <<>>
      BY DEF RequestPath, AnswerPath
    <2> QED
      BY <2>1 DEF FramesAligned, Aligned
  <1>3. ConnectionMapSound
    BY DEF ConnectionMapSound, MutuallyInverse, EmptyMap
  <1>4. ConnectionsRouted /\ AnswersReachTheirClient /\ ConnectionsNotShared
    BY DEF ConnectionsRouted, AnswersReachTheirClient, ConnectionsNotShared
  <1> QED
    BY <1>1, <1>2, <1>3, <1>4 DEF Inv

LEMMA NextInv == Inv /\ [Next]_vars => Inv'
  <1> SUFFICES ASSUME Inv, [Next]_vars PROVE Inv'
    OBVIOUS
  <1>1. CASE Next
    BY <1>1, EnvironmentStep, InboundStep, OutboundStep DEF Next
  <1>2. CASE UNCHANGED vars
    BY <1>2 DEF vars, netVars, pipeVars, inVars, outVars, Inv, TypeOK, NetTypeOK, PipeTypeOK,
                InTypeOK, OutTypeOK, FramesAligned, RequestPath, AnswerPath,
                ConnectionMapSound, ConnectionsRouted, AnswersReachTheirClient,
                ConnectionsNotShared
  <1> QED
    BY <1>1, <1>2

(* Every variable keeps its type, in both threads, the pipe and the sockets, *)
(* and no handler ever holds more than the two frames of one datagram.       *)
THEOREM TypeCorrect == Spec => []TypeOK
  <1>1. Inv => TypeOK
    BY DEF Inv
  <1> QED
    BY <1>1, InitInv, NextInv, PTL DEF Spec

(* The connection map of PlainOutbound stays a bijection between client ids  *)
(* and open sockets.                                                         *)
THEOREM MapCorrect == Spec => []ConnectionMapSound
  <1>1. Inv => ConnectionMapSound
    BY DEF Inv
  <1> QED
    BY <1>1, InitInv, NextInv, PTL DEF Spec

(* recv_msg of either thread never takes a client id for a payload, or the   *)
(* payload of one client for that of another.                                *)
THEOREM FramingCorrect == Spec => []FramesAligned
  <1>1. Inv => FramesAligned
    BY DEF Inv
  <1> QED
    BY <1>1, InitInv, NextInv, PTL DEF Spec

(* A connection and all that waits in it belong to the client its entry in   *)
(* the connection map names.                                                 *)
THEOREM RoutingCorrect == Spec => []ConnectionsRouted
  <1>1. Inv => ConnectionsRouted
    BY DEF Inv
  <1> QED
    BY <1>1, InitInv, NextInv, PTL DEF Spec

(* An answer leaves only to the client whose request was answered, converted *)
(* back exactly once.                                                        *)
THEOREM AnswersCorrect == Spec => []AnswersReachTheirClient
  <1>1. Inv => AnswersReachTheirClient
    BY DEF Inv
  <1> QED
    BY <1>1, InitInv, NextInv, PTL DEF Spec

(* No two clients share a connection towards the server.                     *)
THEOREM SeparationCorrect == Spec => []ConnectionsNotShared
  <1>1. Inv => ConnectionsNotShared
    BY DEF Inv
  <1> QED
    BY <1>1, InitInv, NextInv, PTL DEF Spec

(* A client id keeps its connection as long as the process runs: the only    *)
(* step that takes an entry out of the map ends the process.                 *)
LEMMA StickyStep ==
    ASSUME Inv, [Next]_vars, NEW id \in DOMAIN client2server, proc' = "running"
    PROVE  id \in DOMAIN client2server' /\ client2server'[id] = client2server[id]
  <1>1. CASE UNCHANGED client2server
    BY <1>1
  <1>2. CASE \E fd \in Fds : proc = "running" /\ OutConnect(fd)
    BY <1>2 DEF OutConnect, Connect, add_c2s, Store
  <1>3. CASE \E fd \in Fds : proc = "running" /\ OutServerEvent(fd) /\ UNCHANGED inVars
    <2>1. PICK fd \in Fds : proc = "running" /\ OutServerEvent(fd) /\ UNCHANGED inVars
      BY <1>3
    <2>2. CASE WireSize(Head(connQ[fd])) = 0
      <3>1. fd \notin DOMAIN server2client'
        BY <2>1, <2>2 DEF OutServerEvent, CloseConn, del_s2c, Erase
      <3> QED
        BY <2>1, <3>1 DEF OutServerEvent
    <2>3. CASE WireSize(Head(connQ[fd])) # 0
      BY <2>1, <2>3 DEF OutServerEvent
    <2> QED
      BY <2>2, <2>3
  <1>4. \/ UNCHANGED client2server
        \/ \E fd \in Fds : proc = "running" /\ OutConnect(fd)
        \/ \E fd \in Fds : proc = "running" /\ OutServerEvent(fd) /\ UNCHANGED inVars
    BY DEF Next, vars, Environment, InboundThread, OutboundThread, outVars, OutNext,
           OutSeesPipe, OutEpollWait, OutCallFails, OutRecvId, OutRecvMsg, OutSendKnown,
           OutConnectFails,
           OutRecvFails, OutSendMsg
  <1> QED
    BY <1>1, <1>2, <1>3, <1>4

THEOREM StickyCorrect == Spec => ConnectionsSticky
  <1>1. Inv /\ [Next]_vars =>
            [\A id \in DOMAIN client2server :
                \/ id \in DOMAIN client2server' /\ client2server'[id] = client2server[id]
                \/ proc' # "running"]_vars
    BY StickyStep
  <1> QED
    BY <1>1, InitInv, NextInv, PTL DEF Spec, ConnectionsSticky

------------------------------------------------------------------------------
(* Load *)

\* Every frame on the way to the outbound thread comes from a datagram the
\* clients have sent, and two of those frames are gone for good before the
\* first answer can exist.
RequestFrames == Len(outGot) + Len(toOut) + Len(inTodo)
AnswerExists ==
    \/ inGot # <<>> \/ toIn # <<>> \/ outTodo # <<>>
    \/ \E fd \in Fds : connQ[fd] # <<>>
LoadInv ==
    /\ 2 * Len(listenQ) + RequestFrames + (IF wireOut = {} THEN 0 ELSE 2) <= 2 * sent
    /\ AnswerExists => wireOut # {}

LEMMA LoadTypes ==
    ASSUME Inv
    PROVE  /\ listenQ \in Seq(DatagramAt(0)) /\ sent \in Nat
           /\ outGot \in Seq(Frame) /\ toOut \in Seq(Frame) /\ inTodo \in Seq(Frame)
           /\ inGot \in Seq(Frame) /\ toIn \in Seq(Frame) /\ outTodo \in Seq(Frame)
           /\ connQ \in [Fds -> Seq(DatagramAt(1))]
           /\ Len(listenQ) \in Nat /\ Len(outGot) \in Nat /\ Len(toOut) \in Nat
           /\ Len(inTodo) \in Nat
  <1>1. /\ listenQ \in Seq(DatagramAt(0)) /\ sent \in Nat
        /\ outGot \in Seq(Frame) /\ toOut \in Seq(Frame) /\ inTodo \in Seq(Frame)
        /\ inGot \in Seq(Frame) /\ toIn \in Seq(Frame) /\ outTodo \in Seq(Frame)
        /\ connQ \in [Fds -> Seq(DatagramAt(1))]
    BY NetAssumption DEF Inv, TypeOK, NetTypeOK, PipeTypeOK, InTypeOK, OutTypeOK
  <1> QED
    BY <1>1, LenProperties

LEMMA EnvironmentLoads ==
    ASSUME Inv, LoadInv, Environment
    PROVE  LoadInv'
  <1>0. UNCHANGED <<inGot, toIn, outTodo, outGot, toOut, inTodo>>
    BY DEF Environment, pipeVars, inVars, outVars
  <1>1. CASE \E c \in Clients, size \in Sizes : ClientSend(c, size)
    <2>1. PICK c \in Clients, size \in Sizes : ClientSend(c, size)
      BY <1>1
    <2> DEFINE d == [src |-> c, seq |-> sent + 1, layer |-> 0, size |-> size]
    <2>2. d \in DatagramAt(0)
      BY LoadTypes, NetAssumption DEF DatagramAt
    <2>3. listenQ' = Append(listenQ, d) /\ sent' = sent + 1 /\ UNCHANGED <<wireOut, connQ>>
      BY <2>1 DEF ClientSend
    <2> HIDE DEF d
    <2>4. Len(listenQ') = Len(listenQ) + 1
      BY <2>2, <2>3, LoadTypes, AppendProperties
    <2>5. RequestFrames' = RequestFrames /\ (AnswerExists' <=> AnswerExists)
      BY <1>0, <2>3 DEF RequestFrames, AnswerExists
    <2>6. RequestFrames \in Nat
      BY LoadTypes DEF RequestFrames
    <2> QED
      BY <2>3, <2>4, <2>5, <2>6, LoadTypes DEF LoadInv
  <1>2. CASE \E fd \in Fds, size \in Sizes :
                \E d \in {w[2] : w \in wireOut} : ServerReply(fd, d, size)
    <2>1. wireOut # {} /\ UNCHANGED <<listenQ, wireOut, sent>>
      BY <1>2 DEF ServerReply
    <2> QED
      BY <1>0, <2>1 DEF LoadInv, RequestFrames, AnswerExists
  <1>3. CASE \E fd \in Fds : IcmpArrives(fd)
    BY <1>0, <1>3 DEF IcmpArrives, LoadInv, RequestFrames, AnswerExists
  <1> QED
    BY <1>1, <1>2, <1>3 DEF Environment, NetNext

LEMMA InboundLoads ==
    ASSUME Inv, LoadInv, InboundThread
    PROVE  LoadInv'
  <1>0. UNCHANGED <<outGot, outTodo, connQ, wireOut, sent>>
    BY DEF InboundThread, InNext, InMkPipe, InPublish, InBind, InEpollWait, InCallFails,
           InRecvId, InSendTo, InClientEvent, InSendMsg, netVars, outVars
  <1>1. CASE InMkPipe \/ InPublish \/ InBind \/ InEpollWait \/ InCallFails
    <2>1. UNCHANGED <<listenQ, inGot, inTodo, toIn, toOut>>
      BY <1>1 DEF InMkPipe, InPublish, InBind, InEpollWait, InCallFails,
                  netVars, pipeVars, inVars
    <2> QED
      BY <1>0, <2>1 DEF LoadInv, RequestFrames, AnswerExists
  <1>2. CASE InRecvId \/ InSendTo
    <2>1. UNCHANGED <<listenQ, inTodo, toOut>> /\ toIn # <<>>
      BY <1>2 DEF InRecvId, InSendTo, recv_msg, netVars
    <2> QED
      BY <1>0, <2>1 DEF LoadInv, RequestFrames, AnswerExists
  <1>3. CASE InClientEvent
    <2>1. /\ inTodo = <<>> /\ listenQ # <<>> /\ listenQ' = Tail(listenQ)
          /\ UNCHANGED <<inGot, toIn, toOut>>
      BY <1>3 DEF InClientEvent, InBetweenEvents, pipeVars
    <2>2. Len(inTodo) = 0 /\ Len(inTodo') = 2
      BY <1>3, <2>1 DEF InClientEvent, forwardMessage
    <2>3. Len(listenQ') = Len(listenQ) - 1
      BY <2>1, LoadTypes, HeadTailProperties
    <2> QED
      BY <1>0, <2>1, <2>2, <2>3, LoadTypes DEF LoadInv, RequestFrames, AnswerExists
  <1>4. CASE InSendMsg
    <2>1. /\ inTodo # <<>> /\ inTodo' = Tail(inTodo) /\ toOut' = Append(toOut, Head(inTodo))
          /\ UNCHANGED <<listenQ, inGot, toIn>>
      BY <1>4 DEF InSendMsg, send_msg, netVars
    <2>2. Head(inTodo) \in Frame /\ Len(inTodo') = Len(inTodo) - 1
      BY <2>1, LoadTypes, HeadTailProperties
    <2>3. Len(toOut') = Len(toOut) + 1
      BY <2>1, <2>2, LoadTypes, AppendProperties
    <2> QED
      BY <1>0, <2>1, <2>2, <2>3, LoadTypes DEF LoadInv, RequestFrames, AnswerExists
  <1> QED
    BY <1>1, <1>2, <1>3, <1>4 DEF InboundThread, InNext

LEMMA OutboundLoads ==
    ASSUME Inv, LoadInv, OutboundThread
    PROVE  LoadInv'
  <1>0. UNCHANGED <<inGot, inTodo, listenQ, sent>>
    BY DEF OutboundThread, OutNext, OutSeesPipe, OutEpollWait, OutCallFails, OutRecvId,
           OutRecvMsg, OutSendKnown, OutConnect, Connect, OutConnectFails, OutRecvFails,
           OutServerEvent, OutSendMsg, netVars, inVars
  <1>1. CASE OutSeesPipe \/ OutEpollWait \/ OutCallFails \/ OutConnectFails
             \/ \E fd \in Fds : OutRecvFails(fd)
    <2>1. UNCHANGED <<outGot, outTodo, toIn, toOut, connQ, wireOut>>
      BY <1>1 DEF OutSeesPipe, OutEpollWait, OutCallFails, OutConnectFails, OutRecvFails,
                  netVars, pipeVars, outVars
    <2> QED
      BY <1>0, <2>1 DEF LoadInv, RequestFrames, AnswerExists
  <1>2. CASE OutRecvId \/ OutRecvMsg
    <2>1. toOut # <<>> /\ toOut' = Tail(toOut) /\ UNCHANGED <<outTodo, toIn, connQ, wireOut>>
      BY <1>2 DEF OutRecvId, OutRecvMsg, recv_msg, netVars
    <2>2. outGot' = Append(outGot, Head(toOut))
      <3>1. CASE OutRecvId
        <4>1. outGot = <<>> /\ outGot' = <<Head(toOut)>>
          BY <3>1 DEF OutRecvId, OutBetweenEvents
        <4> QED
          BY <4>1
      <3>2. CASE OutRecvMsg
        BY <3>2 DEF OutRecvMsg
      <3> QED
        BY <1>2, <3>1, <3>2
    <2>3. Head(toOut) \in Frame /\ Len(toOut') = Len(toOut) - 1
      BY <2>1, LoadTypes, HeadTailProperties
    <2>4. Len(outGot') = Len(outGot) + 1
      BY <2>2, <2>3, LoadTypes, AppendProperties
    <2> QED
      BY <1>0, <2>1, <2>3, <2>4, LoadTypes DEF LoadInv, RequestFrames, AnswerExists
  <1>3. CASE OutSendKnown \/ \E fd \in Fds : OutConnect(fd)
    <2>1. /\ Len(outGot) = 2 /\ outGot' = <<>> /\ wireOut \subseteq wireOut'
          /\ UNCHANGED <<outTodo, toIn, toOut, connQ>>
      BY <1>3 DEF OutSendKnown, OutConnect, Connect, quick_send, pipeVars
    <2>2. Len(outGot') = 0
      BY <2>1
    <2> QED
      BY <1>0, <2>1, <2>2, LoadTypes DEF LoadInv, RequestFrames, AnswerExists
  <1>4. CASE \E fd \in Fds : OutServerEvent(fd)
    <2>1. /\ \E fd \in Fds : connQ[fd] # <<>>
          /\ UNCHANGED <<wireOut, outGot, toOut>>
      BY <1>4 DEF OutServerEvent, pipeVars
    <2> QED
      BY <1>0, <2>1 DEF LoadInv, RequestFrames, AnswerExists
  <1>5. CASE OutSendMsg
    <2>1. outTodo # <<>> /\ UNCHANGED <<wireOut, outGot, toOut>>
      BY <1>5 DEF OutSendMsg, netVars
    <2> QED
      BY <1>0, <2>1 DEF LoadInv, RequestFrames, AnswerExists
  <1> QED
    BY <1>1, <1>2, <1>3, <1>4, <1>5 DEF OutboundThread, OutNext

LEMMA LoadKept == Spec => []LoadInv
  <1>1. Init => LoadInv
    BY DEF Init, NetInit, PipeInit, InInit, OutInit, LoadInv, RequestFrames, AnswerExists
  <1>2. Inv /\ LoadInv /\ [Next]_vars => LoadInv'
    <2> SUFFICES ASSUME Inv, LoadInv, [Next]_vars PROVE LoadInv'
      OBVIOUS
    <2>1. CASE Next
      BY <2>1, EnvironmentLoads, InboundLoads, OutboundLoads DEF Next
    <2>2. CASE UNCHANGED vars
      BY <2>2 DEF vars, netVars, pipeVars, inVars, outVars, LoadInv, RequestFrames, AnswerExists
    <2> QED
      BY <2>1, <2>2
  <1> QED
    BY <1>1, <1>2, InitInv, NextInv, PTL DEF Spec

(* The threshold at which the blocking send_msg calls of the two threads   *)
(* (plain.hpp:46 and 115) can wait for each other: up to one datagram more *)
(* than fits into the pipe they never do, whatever is lost or fails.       *)
THEOREM BlockNeedsLoad == Spec => [](2 * (sent - 1) <= PipeCap => NoMutualBlock)
  <1>1. Inv /\ LoadInv => (2 * (sent - 1) <= PipeCap => NoMutualBlock)
    <2> SUFFICES ASSUME Inv, LoadInv, 2 * (sent - 1) <= PipeCap,
                        inTodo # <<>>, Len(toOut) = PipeCap, outTodo # <<>>
                 PROVE  FALSE
      BY DEF NoMutualBlock
    <2>1. Len(inTodo) # 0
      BY LoadTypes, EmptySeq
    <2>2. wireOut # {}
      BY DEF LoadInv, AnswerExists
    <2> QED
      BY <2>1, <2>2, LoadTypes, PipeAssumption DEF LoadInv, RequestFrames
  <1> QED
    BY <1>1, LoadKept, InitInv, NextInv, PTL DEF Spec

(* With at most so many datagrams altogether the two threads never block   *)
(* each other; with one more they can, as the run full_pipes shows.        *)
THEOREM NeverBlocked ==
    ASSUME 2 * (MaxSent - 1) <= PipeCap
    PROVE  Spec => []NoMutualBlock
  <1>1. Inv /\ (2 * (sent - 1) <= PipeCap => NoMutualBlock) => NoMutualBlock
    BY NetAssumption, PipeAssumption DEF Inv, TypeOK, NetTypeOK
  <1> QED
    BY <1>1, BlockNeedsLoad, InitInv, NextInv, PTL DEF Spec

------------------------------------------------------------------------------
(* Termination *)

\* No socket has an error pending, and no answer in a queue is empty on the
\* wire, the one thing recv cannot tell from the end of a connection.
AliveInv ==
    /\ NeverTerminates
    /\ connErr = {}
    /\ \A fd \in Fds : \A i \in 1 .. Len(connQ[fd]) : WireSize(connQ[fd][i]) # 0

(* A descriptor is left for a new client id: the open ones have one id     *)
(* each, and there are no more ids than descriptors.                       *)
LEMMA DescriptorLeft ==
    ASSUME Inv, IsFiniteSet(Fds), IsFiniteSet(ClientId),
           Cardinality(ClientId) <= Cardinality(Fds),
           NEW id \in ClientId, id \notin DOMAIN client2server
    PROVE  conns # Fds
  <1> SUFFICES ASSUME conns = Fds PROVE FALSE
    OBVIOUS
  <1> DEFINE used == DOMAIN client2server
  <1>1. /\ used \subseteq ClientId \ {id}
        /\ server2client \in [Fds -> used]
        /\ \A s, t \in Fds : server2client[s] = server2client[t] => s = t
    BY DEF Inv, TypeOK, OutTypeOK, ConnectionMapSound, MutuallyInverse
  <1>2. IsFiniteSet(ClientId \ {id})
        /\ Cardinality(ClientId \ {id}) = Cardinality(ClientId) - 1
    BY FS_RemoveElement
  <1>3. IsFiniteSet(used) /\ Cardinality(used) <= Cardinality(ClientId \ {id})
    BY <1>1, <1>2, FS_Subset
  <1>4. server2client \in Injection(Fds, used)
    BY <1>1 DEF Injection, IsInjective
  <1>5. Cardinality(Fds) <= Cardinality(used)
    BY <1>3, <1>4, FS_Injection
  <1>6. /\ Cardinality(Fds) \in Nat /\ Cardinality(ClientId) \in Nat
        /\ Cardinality(used) \in Nat
    BY <1>3, FS_CardinalityType
  <1> QED
    BY <1>2, <1>3, <1>5, <1>6

(* What a server sends is never empty on the wire.                         *)
LEMMA AnswersNotEmpty ==
    ASSUME 1 \in PadLayers \/ 0 \notin Sizes, NEW d, d.layer = 1, d.size \in Sizes
    PROVE  WireSize(d) # 0
  BY NetAssumption DEF WireSize

LEMMA EnvironmentLives ==
    ASSUME Faults = {}, 1 \in PadLayers \/ 0 \notin Sizes, Inv, AliveInv, Environment
    PROVE  AliveInv'
  <1>1. CASE \E c \in Clients, size \in Sizes : ClientSend(c, size)
    BY <1>1 DEF ClientSend, AliveInv, NeverTerminates
  <1>2. CASE \E fd \in Fds, size \in Sizes :
                \E d \in {w[2] : w \in wireOut} : ServerReply(fd, d, size)
    <2>1. PICK fd \in Fds, size \in Sizes, d \in {w[2] : w \in wireOut} :
              ServerReply(fd, d, size)
      BY <1>2
    <2> DEFINE e == [src |-> d.src, seq |-> replied + 1, layer |-> 1, size |-> size]
    <2>2. connQ' = [connQ EXCEPT ![fd] = Append(@, e)] /\ UNCHANGED <<proc, connErr>>
      BY <2>1 DEF ServerReply
    <2>3. WireSize(e) # 0
      BY AnswersNotEmpty
    <2>4. e \in DatagramAt(1)
      <3>1. d \in Datagram
        BY DEF Inv, TypeOK, NetTypeOK
      <3> QED
        BY <3>1, NetAssumption DEF Inv, TypeOK, NetTypeOK, Datagram, DatagramAt
    <2> HIDE DEF e
    <2>5. connQ \in [Fds -> Seq(DatagramAt(1))]
      BY DEF Inv, TypeOK, NetTypeOK
    <2>6. ASSUME NEW g \in Fds, NEW i \in 1 .. Len(connQ'[g])
          PROVE  WireSize(connQ'[g][i]) # 0
      <3>1. CASE g # fd
        BY <2>2, <2>5, <3>1 DEF AliveInv
      <3>2. CASE g = fd
        <4>1. connQ'[fd] = Append(connQ[fd], e) /\ connQ[fd] \in Seq(DatagramAt(1))
          BY <2>2, <2>5
        <4>2. CASE i \in 1 .. Len(connQ[fd])
          <5>1. connQ'[fd][i] = connQ[fd][i]
            BY <2>4, <4>1, <4>2, AppendProperties
          <5> QED
            BY <3>2, <4>2, <5>1 DEF AliveInv
        <4>3. CASE i = Len(connQ[fd]) + 1
          <5>1. connQ'[fd][i] = e
            BY <2>4, <4>1, <4>3, AppendProperties
          <5> QED
            BY <2>3, <3>2, <5>1
        <4>4. Len(connQ'[fd]) = Len(connQ[fd]) + 1 /\ Len(connQ[fd]) \in Nat
          BY <2>4, <4>1, AppendProperties, LenProperties
        <4> QED
          BY <3>2, <4>2, <4>3, <4>4
      <3> QED
        BY <3>1, <3>2
    <2> QED
      BY <2>2, <2>6 DEF AliveInv, NeverTerminates
  <1>3. CASE \E fd \in Fds : IcmpArrives(fd)
    BY <1>3 DEF IcmpArrives
  <1> QED
    BY <1>1, <1>2, <1>3 DEF Environment, NetNext

LEMMA InboundLives ==
    ASSUME Faults = {}, AliveInv, InboundThread
    PROVE  AliveInv'
  <1>1. UNCHANGED <<connErr, connQ, proc>>
    BY DEF InboundThread, InNext, InMkPipe, InPublish, InBind, InEpollWait, InCallFails,
           InRecvId, InSendTo, InClientEvent, InSendMsg, netVars
  <1> QED
    BY <1>1 DEF AliveInv, NeverTerminates

LEMMA OutboundLives ==
    ASSUME Faults = {}, IsFiniteSet(Fds), IsFiniteSet(ClientId),
           Cardinality(ClientId) <= Cardinality(Fds), Inv, AliveInv, OutboundThread
    PROVE  AliveInv'
  <1>1. CASE OutSeesPipe \/ OutEpollWait \/ OutRecvId \/ OutRecvMsg \/ OutSendMsg
    BY <1>1 DEF OutSeesPipe, OutEpollWait, OutRecvId, OutRecvMsg, OutSendMsg, netVars,
                AliveInv, NeverTerminates
  <1>2. CASE OutCallFails
    BY <1>2 DEF OutCallFails
  <1>3. CASE OutSendKnown \/ \E fd \in Fds : OutConnect(fd)
    <2>1. UNCHANGED <<connErr, connQ, proc>>
      BY <1>3 DEF OutSendKnown, OutConnect, Connect, quick_send, AliveInv
    <2> QED
      BY <2>1 DEF AliveInv, NeverTerminates
  <1>4. CASE OutConnectFails
    <2>1. Len(outGot) = 2 /\ outGot[1][2] \notin DOMAIN client2server /\ conns = Fds
      BY <1>4 DEF OutConnectFails
    <2>2. outGot[1][2] \in ClientId
      BY <2>1, RequestRead
    <2> QED
      BY <2>1, <2>2, DescriptorLeft
  <1>5. CASE \E fd \in Fds : OutRecvFails(fd)
    BY <1>5 DEF OutRecvFails, AliveInv
  <1>6. CASE \E fd \in Fds : OutServerEvent(fd)
    <2>1. PICK fd \in Fds : OutServerEvent(fd)
      BY <1>6
    <2>2. /\ connQ \in [Fds -> Seq(DatagramAt(1))] /\ connQ[fd] # <<>>
          /\ connQ' = [connQ EXCEPT ![fd] = Tail(@)] /\ UNCHANGED connErr
      BY <2>1 DEF OutServerEvent, Inv, TypeOK, NetTypeOK
    <2>3. /\ Head(connQ[fd]) = connQ[fd][1] /\ 1 \in 1 .. Len(connQ[fd])
          /\ Len(connQ[fd]) \in Nat
          /\ Len(Tail(connQ[fd])) = Len(connQ[fd]) - 1
          /\ \A i \in 1 .. Len(Tail(connQ[fd])) : Tail(connQ[fd])[i] = connQ[fd][i + 1]
      BY <2>2, HeadTailProperties, EmptySeq, LenProperties
    <2>4. WireSize(Head(connQ[fd])) # 0
      BY <2>3 DEF AliveInv
    <2>5. fd \in DOMAIN server2client
      BY <2>1, <2>3, FdsAssumption
         DEF Inv, ConnectionMapSound, ConnectionsRouted, AliveInv, NeverTerminates
    <2>6. UNCHANGED proc
      BY <2>1, <2>4, <2>5 DEF OutServerEvent
    <2>7. ASSUME NEW g \in Fds, NEW i \in 1 .. Len(connQ'[g])
          PROVE  WireSize(connQ'[g][i]) # 0
      <3>1. CASE g # fd
        BY <2>2, <3>1 DEF AliveInv
      <3>2. CASE g = fd
        <4>1. connQ'[g] = Tail(connQ[fd])
          BY <2>2, <3>2
        <4>2. connQ'[g][i] = connQ[fd][i + 1] /\ i + 1 \in 1 .. Len(connQ[fd])
          BY <2>3, <4>1
        <4> QED
          BY <4>2 DEF AliveInv
      <3> QED
        BY <3>1, <3>2
    <2> QED
      BY <2>2, <2>6, <2>7 DEF AliveInv, NeverTerminates
  <1> QED
    BY <1>1, <1>2, <1>3, <1>4, <1>5, <1>6 DEF OutboundThread, OutNext

(* Without a failing system call, with a descriptor for every client id,   *)
(* and with a filter that pads answers or a server that sends no empty     *)
(* one, no assertion of the event loops fails and nothing is thrown:       *)
(* runForever does not end, however the two threads interleave.            *)
THEOREM StaysAlive ==
    ASSUME Faults = {}, 1 \in PadLayers \/ 0 \notin Sizes,
           IsFiniteSet(Fds), IsFiniteSet(ClientId), Cardinality(ClientId) <= Cardinality(Fds)
    PROVE  Spec => []NeverTerminates
  <1>1. Init => AliveInv
    BY DEF Init, NetInit, AliveInv, NeverTerminates
  <1>2. Inv /\ AliveInv /\ [Next]_vars => AliveInv'
    <2> SUFFICES ASSUME Inv, AliveInv, [Next]_vars PROVE AliveInv'
      OBVIOUS
    <2>1. CASE Next
      BY <2>1, EnvironmentLives, InboundLives, OutboundLives DEF Next
    <2>2. CASE UNCHANGED vars
      BY <2>2 DEF vars, netVars, AliveInv, NeverTerminates
    <2> QED
      BY <2>1, <2>2
  <1>3. AliveInv => NeverTerminates
    BY DEF AliveInv
  <1> QED
    BY <1>1, <1>2, <1>3, InitInv, NextInv, PTL DEF Spec

------------------------------------------------------------------------------
(* The forwarder implements UdpRelay. The two paths are the queues of the  *)
(* relay: a step that moves a frame along its path is a stutter, one that  *)
(* accepts a datagram puts a pair at the end of a path, and one that       *)
(* delivers it takes the first pair. What has been proved above says that  *)
(* paths are pairs.                                                        *)

------------------------------------------------------------------------------
(* Pairs of a path *)

PairOf(a, b) == <<a[2], b[2]>>
PairsOver(S) == {PairOf(a, b) : a \in S, b \in S}

(* The frames of a path taken two by two are a sequence, half as long.     *)
LEMMA PairsIsSeq ==
    ASSUME NEW S, NEW path \in Seq(S)
    PROVE  /\ Pairs(path) \in Seq(PairsOver(S))
           /\ Len(Pairs(path)) = Len(path) \div 2
           /\ \A i \in 1 .. Len(path) \div 2 :
                 Pairs(path)[i] = PairOf(path[2*i - 1], path[2*i])
  <1> DEFINE n == Len(path) \div 2
             f == [i \in 1 .. n |-> PairOf(path[2*i - 1], path[2*i])]
  <1>1. n \in Nat
    OBVIOUS
  <1>2. ASSUME NEW i \in 1 .. n
        PROVE  path[2*i - 1] \in S /\ path[2*i] \in S
    <2>1. 2*i - 1 \in 1 .. Len(path) /\ 2*i \in 1 .. Len(path)
      OBVIOUS
    <2> QED
      BY <2>1, ElementOfSeq
  <1> HIDE DEF n
  <1>3. f \in [1 .. n -> PairsOver(S)]
    BY <1>2 DEF PairsOver
  <1>4. f = Pairs(path)
    BY DEF Pairs, n, PairOf
  <1>5. f \in Seq(PairsOver(S)) /\ Len(f) = n
    BY <1>1, <1>3, IsASeq, LenProperties
  <1>6. \A i \in 1 .. n : f[i] = PairOf(path[2*i - 1], path[2*i])
    OBVIOUS
  <1> HIDE DEF f
  <1> QED
    BY <1>4, <1>5, <1>6 DEF n

(* A pair of frames at the end of a path is a pair at the end of its pairs. *)
LEMMA PairAdded ==
    ASSUME NEW S, NEW s \in Seq(S), NEW a \in S, NEW b \in S, Len(s) % 2 = 0
    PROVE  Pairs(s \o <<a, b>>) = Append(Pairs(s), PairOf(a, b))
  <1> DEFINE u == s \o <<a, b>>
             n == Len(s) \div 2
             P == PairsOver(S)
             q == Append(Pairs(s), PairOf(a, b))
  <1>1. u \in Seq(S) /\ Len(u) = Len(s) + 2 /\ Len(s) \in Nat
    BY ConcatProperties, <<a, b>> \in Seq(S)
  <1>2. \A i \in 1 .. Len(s) : u[i] = s[i]
    BY ConcatProperties, <<a, b>> \in Seq(S)
  <1>3. u[Len(s) + 1] = a /\ u[Len(s) + 2] = b
    BY ConcatProperties, <<a, b>> \in Seq(S)
  <1> HIDE DEF u
  <1>4. n \in Nat /\ Len(s) = 2 * n /\ Len(s) \div 2 = n /\ Len(u) \div 2 = n + 1
    BY <1>1
  <1>5. Pairs(u) \in Seq(P) /\ Len(Pairs(u)) = n + 1
    BY <1>1, <1>4, PairsIsSeq
  <1>6. PairOf(a, b) \in P
    BY DEF PairsOver
  <1>7. Pairs(s) \in Seq(P) /\ Len(Pairs(s)) = n
    BY PairsIsSeq
  <1> HIDE DEF P, n
  <1>8. /\ q \in Seq(P) /\ Len(q) = n + 1 /\ q[n + 1] = PairOf(a, b)
        /\ \A i \in 1 .. n : q[i] = Pairs(s)[i]
    BY <1>6, <1>7, AppendProperties
  <1>9. ASSUME NEW i \in 1 .. n + 1
        PROVE  Pairs(u)[i] = q[i]
    <2>1. Pairs(u)[i] = PairOf(u[2*i - 1], u[2*i])
      BY <1>1, <1>4, PairsIsSeq
    <2>2. CASE i = n + 1
      <3>1. u[2*i - 1] = a /\ u[2*i] = b
        BY <1>3, <1>4, <2>2
      <3> QED
        BY <1>8, <2>1, <2>2, <3>1
    <2>3. CASE i \in 1 .. n
      <3>1. 2*i - 1 \in 1 .. Len(s) /\ 2*i \in 1 .. Len(s)
        BY <1>4, <2>3
      <3>2. u[2*i - 1] = s[2*i - 1] /\ u[2*i] = s[2*i]
        BY <1>2, <3>1
      <3>3. q[i] = Pairs(s)[i]
        BY <1>8, <2>3
      <3>4. Pairs(s)[i] = PairOf(s[2*i - 1], s[2*i])
        BY <1>4, <2>3, PairsIsSeq
      <3> QED
        BY <2>1, <3>2, <3>3, <3>4
    <2>4. i = n + 1 \/ i \in 1 .. n
      BY <1>4
    <2> QED
      BY <2>2, <2>3, <2>4
  <1> HIDE DEF q
  <1>10. Pairs(u) = q
    BY <1>4, <1>5, <1>8, <1>9, SeqEqual
  <1> QED
    BY <1>10 DEF u, q

(* The two frames at the front of a path are the first of its pairs.       *)
LEMMA PairTaken ==
    ASSUME NEW S, NEW a \in S, NEW b \in S, NEW t \in Seq(S), Len(t) % 2 = 0
    PROVE  LET p == Pairs(<<a, b>> \o t)
           IN  p # <<>> /\ Head(p) = PairOf(a, b) /\ Tail(p) = Pairs(t)
  <1> DEFINE u == <<a, b>> \o t
             n == Len(t) \div 2
             P == PairsOver(S)
             p == Pairs(u)
  <1>1. u \in Seq(S) /\ Len(u) = Len(t) + 2 /\ Len(t) \in Nat
    BY ConcatProperties, <<a, b>> \in Seq(S)
  <1>2. \A i \in 1 .. Len(t) : u[i + 2] = t[i]
    BY ConcatProperties, <<a, b>> \in Seq(S)
  <1>3. u[1] = a /\ u[2] = b
    BY ConcatProperties, <<a, b>> \in Seq(S)
  <1> HIDE DEF u
  <1>4. n \in Nat /\ Len(t) = 2 * n /\ Len(u) \div 2 = n + 1
    BY <1>1
  <1>5. p \in Seq(P) /\ Len(p) = n + 1
    BY <1>1, <1>4, PairsIsSeq
  <1>6. Pairs(t) \in Seq(P) /\ Len(Pairs(t)) = n
    BY PairsIsSeq
  <1>7. \A i \in 1 .. n + 1 : p[i] = PairOf(u[2*i - 1], u[2*i])
    BY <1>1, <1>4, PairsIsSeq
  <1>8. p[1] = PairOf(a, b)
    BY <1>3, <1>4, <1>7
  <1> HIDE DEF P, p
  <1>9. p # <<>>
    BY <1>4, <1>5
  <1>10. /\ Head(p) = p[1] /\ Tail(p) \in Seq(P) /\ Len(Tail(p)) = n
         /\ \A i \in 1 .. n : Tail(p)[i] = p[i + 1]
    BY <1>4, <1>5, <1>9, HeadTailProperties
  <1>11. ASSUME NEW i \in 1 .. n
         PROVE  Tail(p)[i] = Pairs(t)[i]
    <2>1. i + 1 \in 1 .. n + 1 /\ 2*i - 1 \in 1 .. Len(t) /\ 2*i \in 1 .. Len(t)
      BY <1>4
    <2>2. Tail(p)[i] = PairOf(u[2*(i + 1) - 1], u[2*(i + 1)])
      BY <1>7, <1>10, <2>1
    <2>3. u[2*(i + 1) - 1] = t[2*i - 1] /\ u[2*(i + 1)] = t[2*i]
      <3>1. 2*(i + 1) - 1 = (2*i - 1) + 2 /\ 2*(i + 1) = 2*i + 2
        BY <1>4
      <3> QED
        BY <1>2, <2>1, <3>1
    <2>4. Pairs(t)[i] = PairOf(t[2*i - 1], t[2*i])
      BY PairsIsSeq
    <2> QED
      BY <2>2, <2>3, <2>4
  <1> HIDE DEF n
  <1>12. Tail(p) = Pairs(t)
    BY <1>4, <1>6, <1>10, <1>11, SeqEqual
  <1> QED
    BY <1>8, <1>9, <1>10, <1>12 DEF p, u

------------------------------------------------------------------------------
(* Steps *)

(* A step that leaves the network, the map and both paths alone is one the *)
(* relay does not see.                                                     *)
LEMMA Stutter ==
    ASSUME UNCHANGED <<netVars, client2server, RequestPath, AnswerPath>>
    PROVE  UNCHANGED Relay!relayVars
  BY DEF Relay!relayVars, Relay!netVars, netVars

(* A step that ends the process ends the relay.                            *)
LEMMA Dies ==
    ASSUME proc = "running", proc' # "running",
           UNCHANGED <<bound, wireOut, wireBack, sent, replied>>
    PROVE  Relay!RelayNext
  BY DEF Relay!RelayNext, Relay!RelayDies

LEMMA EnvironmentRelays ==
    ASSUME proc = "running", Environment
    PROVE  Relay!RelayNext
  <1>1. Relay!NetNext
    BY DEF Environment, NetNext, Relay!NetNext, ClientSend, Relay!ClientSend, ServerReply,
           Relay!ServerReply, IcmpArrives, Relay!IcmpArrives
  <1>2. UNCHANGED <<client2server, RequestPath, AnswerPath>>
    BY DEF Environment, pipeVars, inVars, outVars, RequestPath, AnswerPath
  <1> QED
    BY <1>1, <1>2 DEF Relay!RelayNext

(* Setting up, waiting and reading or writing a frame are not seen.        *)
LEMMA InQuietStep ==
    ASSUME Inv, proc = "running", UNCHANGED outVars,
           \/ InMkPipe \/ InPublish \/ InBind \/ InEpollWait \/ InCallFails
           \/ InRecvId \/ InSendMsg
    PROVE  Relay!RelayNext \/ UNCHANGED Relay!relayVars
  <1>1. CASE InMkPipe
    <2>1. CASE proc' = "running"
      BY <1>1, <2>1, Stutter DEF InMkPipe, netVars, outVars, RequestPath, AnswerPath
    <2>2. CASE proc' # "running"
      BY <1>1, <2>2, Dies DEF InMkPipe
    <2> QED
      BY <2>1, <2>2
  <1>2. CASE InPublish
    BY <1>2, Stutter DEF InPublish, netVars, outVars, RequestPath, AnswerPath
  <1>3. CASE InBind
    <2>1. CASE bound' = TRUE /\ UNCHANGED proc
      <3>1. UNCHANGED <<RequestPath, AnswerPath>>
        BY <1>3 DEF InBind, pipeVars, outVars, RequestPath, AnswerPath
      <3>2. Relay!Listen
        BY <1>3, <2>1, <3>1 DEF InBind, outVars, Relay!Listen
      <3> QED
        BY <3>2 DEF Relay!RelayNext
    <2>2. CASE proc' = "bind" /\ UNCHANGED bound
      BY <1>3, <2>2, Dies DEF InBind
    <2> QED
      BY <1>3, <2>1, <2>2 DEF InBind
  <1>4. CASE InEpollWait
    BY <1>4, Stutter DEF InEpollWait, netVars, pipeVars, outVars, RequestPath, AnswerPath
  <1>5. CASE InCallFails
    BY <1>5, Dies DEF InCallFails
  <1>6. CASE InRecvId
    <2>1. /\ inGot \in Seq(Frame) /\ inGot = <<>>
          /\ toIn \in Seq(Frame) /\ toIn # <<>> /\ outTodo \in Seq(Frame)
      BY <1>6 DEF Inv, TypeOK, PipeTypeOK, InTypeOK, OutTypeOK, InRecvId, InBetweenEvents,
                  recv_msg
    <2>2. inGot' = Append(inGot, Head(toIn)) /\ toIn' = Tail(toIn)
      BY <1>6, <2>1 DEF InRecvId, recv_msg
    <2>3. inGot' \o toIn' \o outTodo = AnswerPath
      BY <2>1, <2>2, RecvKeepsPath DEF AnswerPath
    <2>4. UNCHANGED <<netVars, client2server, RequestPath, AnswerPath>>
      BY <1>6, <2>3 DEF InRecvId, outVars, RequestPath, AnswerPath
    <2> QED
      BY <2>4, Stutter
  <1>7. CASE InSendMsg
    <2>1. /\ outGot \in Seq(Frame) /\ toOut \in Seq(Frame)
          /\ inTodo \in Seq(Frame) /\ inTodo # <<>>
      BY <1>7 DEF Inv, TypeOK, PipeTypeOK, InTypeOK, OutTypeOK, InSendMsg
    <2>2. toOut' = Append(toOut, Head(inTodo)) /\ inTodo' = Tail(inTodo)
      BY <1>7 DEF InSendMsg, send_msg
    <2>3. toOut' \in Seq(Frame) /\ inTodo' \in Seq(Frame) /\ toOut' \o inTodo' = toOut \o inTodo
      <3>1. /\ Append(toOut, Head(inTodo)) \in Seq(Frame) /\ Tail(inTodo) \in Seq(Frame)
            /\ Append(toOut, Head(inTodo)) \o Tail(inTodo) = toOut \o inTodo
        BY <2>1, SendKeepsPath
      <3> QED
        BY <2>2, <3>1, Zenon
    <2>4. outGot \o toOut' \o inTodo' = RequestPath
      <3>1. outGot \o toOut \o inTodo = outGot \o (toOut \o inTodo)
        BY <2>1
      <3>2. toOut' \in Seq(Frame) /\ inTodo' \in Seq(Frame) =>
                outGot \o toOut' \o inTodo' = outGot \o (toOut' \o inTodo')
        BY <2>1
      <3> QED
        BY <2>3, <3>1, <3>2, Zenon DEF RequestPath
    <2>5. UNCHANGED <<netVars, client2server, RequestPath, AnswerPath>>
      BY <1>7, <2>4 DEF InSendMsg, outVars, RequestPath, AnswerPath
    <2> QED
      BY <2>5, Stutter
  <1> QED
    BY <1>1, <1>2, <1>3, <1>4, <1>5, <1>6, <1>7

LEMMA OutQuietStep ==
    ASSUME Inv, proc = "running", UNCHANGED inVars,
           \/ OutSeesPipe \/ OutEpollWait \/ OutCallFails \/ OutRecvId \/ OutRecvMsg
           \/ OutConnectFails \/ OutSendMsg
           \/ \E fd \in Fds : OutRecvFails(fd)
    PROVE  Relay!RelayNext \/ UNCHANGED Relay!relayVars
  <1>1. CASE OutSeesPipe \/ OutEpollWait
    BY <1>1, Stutter DEF OutSeesPipe, OutEpollWait, netVars, pipeVars, inVars,
                         RequestPath, AnswerPath
  <1>2. CASE OutCallFails \/ OutConnectFails \/ \E fd \in Fds : OutRecvFails(fd)
    BY <1>2, Dies DEF OutCallFails, OutConnectFails, OutRecvFails
  <1>3. CASE OutRecvId \/ OutRecvMsg
    <2>1. /\ outGot \in Seq(Frame)
          /\ toOut \in Seq(Frame) /\ toOut # <<>> /\ inTodo \in Seq(Frame)
      BY <1>3 DEF Inv, TypeOK, PipeTypeOK, InTypeOK, OutTypeOK, OutRecvId, OutRecvMsg, recv_msg
    <2>2. outGot' = Append(outGot, Head(toOut)) /\ toOut' = Tail(toOut)
      <3>1. CASE OutRecvId
        <4>1. outGot = <<>> /\ outGot' = <<Head(toOut)>> /\ toOut' = Tail(toOut)
          BY <3>1 DEF OutRecvId, OutBetweenEvents, recv_msg
        <4> QED
          BY <4>1
      <3>2. CASE OutRecvMsg
        BY <3>2 DEF OutRecvMsg, recv_msg
      <3> QED
        BY <1>3, <3>1, <3>2
    <2>3. outGot' \o toOut' \o inTodo = RequestPath
      BY <2>1, <2>2, RecvKeepsPath DEF RequestPath
    <2>4. UNCHANGED <<netVars, client2server, RequestPath, AnswerPath>>
      BY <1>3, <2>3 DEF OutRecvId, OutRecvMsg, inVars, RequestPath, AnswerPath
    <2> QED
      BY <2>4, Stutter
  <1>4. CASE OutSendMsg
    <2>1. /\ inGot \in Seq(Frame) /\ toIn \in Seq(Frame)
          /\ outTodo \in Seq(Frame) /\ outTodo # <<>>
      BY <1>4 DEF Inv, TypeOK, PipeTypeOK, InTypeOK, OutTypeOK, OutSendMsg
    <2>2. toIn' = Append(toIn, Head(outTodo)) /\ outTodo' = Tail(outTodo)
      BY <1>4 DEF OutSendMsg, send_msg
    <2>3. toIn' \in Seq(Frame) /\ outTodo' \in Seq(Frame) /\ toIn' \o outTodo' = toIn \o outTodo
      <3>1. /\ Append(toIn, Head(outTodo)) \in Seq(Frame) /\ Tail(outTodo) \in Seq(Frame)
            /\ Append(toIn, Head(outTodo)) \o Tail(outTodo) = toIn \o outTodo
        BY <2>1, SendKeepsPath
      <3> QED
        BY <2>2, <3>1, Zenon
    <2>4. inGot \o toIn' \o outTodo' = AnswerPath
      <3>1. inGot \o toIn \o outTodo = inGot \o (toIn \o outTodo)
        BY <2>1
      <3>2. toIn' \in Seq(Frame) /\ outTodo' \in Seq(Frame) =>
                inGot \o toIn' \o outTodo' = inGot \o (toIn' \o outTodo')
        BY <2>1
      <3> QED
        BY <2>3, <3>1, <3>2, Zenon DEF AnswerPath
    <2>5. UNCHANGED <<netVars, client2server, RequestPath, AnswerPath>>
      BY <1>4, <2>4 DEF OutSendMsg, inVars, RequestPath, AnswerPath
    <2> QED
      BY <2>5, Stutter
  <1> QED
    BY <1>1, <1>2, <1>3, <1>4

(* The handler that has read both frames of a datagram takes the first     *)
(* pair of its path.                                                       *)
LEMMA PathTaken ==
    ASSUME NEW S, NEW got \in Seq(S), NEW ch \in Seq(S), NEW todo \in Seq(S),
           Len(got) = 2, NEW layer, Aligned(got \o ch \o todo, layer)
    PROVE  /\ Pairs(got \o ch \o todo) # <<>>
           /\ Head(Pairs(got \o ch \o todo)) = PairOf(got[1], got[2])
           /\ Tail(Pairs(got \o ch \o todo)) = Pairs(<<>> \o ch \o todo)
  <1> DEFINE t == <<>> \o ch \o todo
             path == got \o ch \o todo
  <1>1. got = <<got[1], got[2]>> /\ got[1] \in S /\ got[2] \in S
    BY TwoFrames, Zenon
  <1>2. Aligned(t, layer)
    BY HandlerDone
  <1>3. t \in Seq(S) /\ path = got \o t
    OBVIOUS
  <1>4. path = <<got[1], got[2]>> \o t
    BY <1>1, <1>3, Zenon
  <1> HIDE DEF t
  <1>5. Len(t) % 2 = 0
    BY <1>2 DEF Aligned
  <1> DEFINE p == Pairs(<<got[1], got[2]>> \o t)
  <1>6. p # <<>> /\ Head(p) = PairOf(got[1], got[2]) /\ Tail(p) = Pairs(t)
    BY <1>1, <1>3, <1>5, PairTaken
  <1>7. Pairs(path) = p
    BY <1>4, Zenon
  <1> HIDE DEF p, path
  <1> QED
    BY <1>6, <1>7, Zenon DEF t, path

LEMMA RequestTaken ==
    ASSUME Inv, Len(outGot) = 2, outGot' = <<>>, UNCHANGED <<toOut, inTodo>>
    PROVE  /\ Pairs(RequestPath) # <<>>
           /\ Head(Pairs(RequestPath)) = <<outGot[1][2], outGot[2][2]>>
           /\ Pairs(RequestPath)' = Tail(Pairs(RequestPath))
  <1>1. outGot \in Seq(Frame) /\ toOut \in Seq(Frame) /\ inTodo \in Seq(Frame)
    BY DEF Inv, TypeOK, PipeTypeOK, InTypeOK, OutTypeOK
  <1>2. Aligned(outGot \o toOut \o inTodo, 1)
    BY DEF Inv, FramesAligned, RequestPath
  <1>3. RequestPath' = <<>> \o toOut \o inTodo
    BY DEF RequestPath
  <1> QED
    BY <1>1, <1>2, <1>3, PathTaken DEF PairOf, RequestPath

LEMMA SendKnownRelays ==
    ASSUME Inv, proc = "running", OutSendKnown, UNCHANGED inVars
    PROVE  Relay!RelayNext
  <1>1. CASE proc' # "running"
    BY <1>1, Dies DEF OutSendKnown, quick_send
  <1>2. CASE proc' = "running"
    <2> DEFINE id == outGot[1][2]
               d == outGot[2][2]
    <2>1. /\ Pairs(RequestPath) # <<>>
          /\ Head(Pairs(RequestPath)) = <<id, d>>
          /\ Pairs(RequestPath)' = Tail(Pairs(RequestPath))
      BY RequestTaken DEF OutSendKnown, pipeVars, inVars
    <2>2. Pairs(AnswerPath)' = Pairs(AnswerPath)
      BY DEF OutSendKnown, pipeVars, inVars, AnswerPath
    <2>3. /\ id \in DOMAIN client2server /\ quick_send(client2server[id], d)
          /\ UNCHANGED <<bound, listenQ, conns, connQ, connErr, wireBack, sent, replied,
                         client2server>>
      BY DEF OutSendKnown
    <2> HIDE DEF id, d
    <2>4. wireOut' = IF WireSize(d) = 0 THEN wireOut
                                        ELSE wireOut \cup {<<client2server[id], d>>}
      BY <1>2, <2>3 DEF quick_send
    <2>5. Relay!WireSize(d) = WireSize(d)
      BY DEF WireSize, Relay!WireSize
    <2> DEFINE h == Head(Pairs(RequestPath))
    <2>6. h[1] = id /\ h[2] = d
      BY <2>1
    <2> HIDE DEF h
    <2>7. /\ h[1] \in DOMAIN client2server
          /\ wireOut' = IF Relay!WireSize(h[2]) = 0 THEN wireOut
                           ELSE wireOut \cup {<<client2server[h[1]], h[2]>>}
          /\ UNCHANGED <<client2server, conns>>
      BY <2>3, <2>4, <2>5, <2>6
    <2>8. UNCHANGED <<proc, bound, listenQ, connQ, connErr, wireBack, sent, replied,
                      Pairs(AnswerPath)>>
      BY <1>2, <2>2, <2>3
    <2>9. Relay!DeliverRequest
      BY <2>1, <2>7, <2>8, Zenon DEF Relay!DeliverRequest, h
    <2> QED
      BY <2>9 DEF Relay!RelayNext
  <1> QED
    BY <1>1, <1>2

LEMMA ConnectRelays ==
    ASSUME Inv, proc = "running", NEW fd \in Fds, OutConnect(fd), UNCHANGED inVars
    PROVE  Relay!RelayNext
  <1>1. CASE proc' # "running"
    BY <1>1, Dies DEF OutConnect, Connect, quick_send
  <1>2. CASE proc' = "running"
    <2> DEFINE id == outGot[1][2]
               d == outGot[2][2]
    <2>1. /\ Pairs(RequestPath) # <<>>
          /\ Head(Pairs(RequestPath)) = <<id, d>>
          /\ Pairs(RequestPath)' = Tail(Pairs(RequestPath))
      BY RequestTaken DEF OutConnect, Connect, pipeVars, inVars
    <2>2. Pairs(AnswerPath)' = Pairs(AnswerPath)
      BY DEF OutConnect, Connect, pipeVars, inVars, AnswerPath
    <2>3. /\ id \notin DOMAIN client2server /\ fd \in Fds \ conns
          /\ quick_send(fd, d)
          /\ conns' = conns \cup {fd}
          /\ client2server' = [k \in DOMAIN client2server \cup {id} |->
                                  IF k = id THEN fd ELSE client2server[k]]
          /\ UNCHANGED <<bound, listenQ, connQ, connErr, wireBack, sent, replied>>
      BY DEF OutConnect, Connect, add_c2s, Store
    <2> HIDE DEF id, d
    <2>4. wireOut' = IF WireSize(d) = 0 THEN wireOut ELSE wireOut \cup {<<fd, d>>}
      BY <1>2, <2>3 DEF quick_send
    <2>5. Relay!WireSize(d) = WireSize(d)
      BY DEF WireSize, Relay!WireSize
    <2> DEFINE h == Head(Pairs(RequestPath))
    <2>6. h[1] = id /\ h[2] = d
      BY <2>1
    <2> HIDE DEF h
    <2>7. /\ h[1] \notin DOMAIN client2server
          /\ fd \in Fds \ conns
          /\ client2server' = [k \in DOMAIN client2server \cup {h[1]} |->
                                  IF k = h[1] THEN fd ELSE client2server[k]]
          /\ conns' = conns \cup {fd}
          /\ wireOut' = IF Relay!WireSize(h[2]) = 0 THEN wireOut
                           ELSE wireOut \cup {<<fd, h[2]>>}
      BY <2>3, <2>4, <2>5, <2>6
    <2>8. UNCHANGED <<proc, bound, listenQ, connQ, connErr, wireBack, sent, replied,
                      Pairs(AnswerPath)>>
      BY <1>2, <2>2, <2>3
    <2>9. Relay!DeliverRequest
      BY <2>1, <2>7, <2>8, Zenon DEF Relay!DeliverRequest, h
    <2> QED
      BY <2>9 DEF Relay!RelayNext
  <1> QED
    BY <1>1, <1>2

LEMMA SendToRelays ==
    ASSUME Inv, proc = "running", InSendTo, UNCHANGED outVars
    PROVE  Relay!RelayNext
  <1>1. CASE proc' # "running"
    BY <1>1, Dies DEF InSendTo
  <1>2. CASE proc' = "running"
    <2> DEFINE both == Append(inGot, Head(toIn))
               h == Head(Pairs(AnswerPath))
    <2>1. /\ inGot \in Seq(Frame) /\ inGot # <<>> /\ Len(inGot) <= 1
          /\ toIn \in Seq(Frame) /\ toIn # <<>> /\ outTodo \in Seq(Frame)
      BY DEF Inv, TypeOK, PipeTypeOK, InTypeOK, OutTypeOK, InSendTo, recv_msg
    <2>a. both \in Seq(Frame) /\ Tail(toIn) \in Seq(Frame)
      BY <2>1, RecvKeepsPath
    <2>2. both \o Tail(toIn) \o outTodo = AnswerPath
      BY <2>1, RecvKeepsPath DEF AnswerPath
    <2>3. Len(both) = 2 /\ both[1] = inGot[1] /\ both[2] = Head(toIn)
      BY <2>1, RecvKeepsPath, SecondFrame
    <2>4. Aligned(both \o Tail(toIn) \o outTodo, 0)
      BY <2>2 DEF Inv, FramesAligned
    <2> HIDE DEF both
    <2> DEFINE p == Pairs(both \o Tail(toIn) \o outTodo)
    <2>5. /\ p # <<>> /\ Head(p) = PairOf(both[1], both[2])
          /\ Tail(p) = Pairs(<<>> \o Tail(toIn) \o outTodo)
      <3> DEFINE rest == Tail(toIn)
      <3>1. rest \in Seq(Frame) /\ Aligned(both \o rest \o outTodo, 0)
        BY <2>a, <2>4
      <3>2. outTodo \in Seq(Frame) /\ both \in Seq(Frame) /\ Len(both) = 2
        BY <2>1, <2>a, <2>3
      <3> HIDE DEF rest
      <3>3. /\ Pairs(both \o rest \o outTodo) # <<>>
            /\ Head(Pairs(both \o rest \o outTodo)) = PairOf(both[1], both[2])
            /\ Tail(Pairs(both \o rest \o outTodo)) = Pairs(<<>> \o rest \o outTodo)
        BY <3>1, <3>2, PathTaken
      <3> QED
        BY <3>3, Zenon DEF rest
    <2>6. p = Pairs(AnswerPath)
      BY <2>2, Zenon
    <2>7. AnswerPath' = <<>> \o Tail(toIn) \o outTodo
      BY DEF AnswerPath, InSendTo, recv_msg, outVars
    <2> HIDE DEF p
    <2>8. Pairs(AnswerPath) # <<>> /\ Pairs(AnswerPath)' = Tail(Pairs(AnswerPath))
      BY <2>5, <2>6, <2>7
    <2>9. h[1] = inGot[1][2] /\ h[2] = Head(toIn)[2]
      BY <2>3, <2>5, <2>6 DEF PairOf
    <2> HIDE DEF h
    <2>10. wireBack' = wireBack \cup {<<h[1][1], h[2]>>}
      BY <1>2, <2>9 DEF InSendTo, parseClientId
    <2>11. Pairs(RequestPath)' = Pairs(RequestPath)
      BY DEF InSendTo, outVars, RequestPath
    <2>12. UNCHANGED <<proc, bound, listenQ, conns, connQ, connErr, wireOut, sent,
                       replied, client2server, Pairs(RequestPath)>>
      BY <1>2, <2>11 DEF InSendTo, outVars
    <2>13. Relay!DeliverAnswer
      BY <2>8, <2>10, <2>12, Zenon DEF Relay!DeliverAnswer, h
    <2> QED
      BY <2>13 DEF Relay!RelayNext
  <1> QED
    BY <1>1, <1>2

(* A pair of frames handed to forwardMessage ends up at the end of a path  *)
(* whose sender had nothing left to write.                                 *)
LEMMA PathExtended ==
    ASSUME NEW S, NEW got \in Seq(S), NEW ch \in Seq(S), NEW a \in S, NEW b \in S,
           NEW layer, Aligned(got \o ch \o <<>>, layer)
    PROVE  Pairs(got \o ch \o <<a, b>>) = Append(Pairs(got \o ch \o <<>>), PairOf(a, b))
  <1> DEFINE s == got \o ch
  <1>1. s \in Seq(S) /\ s \o <<>> = s
    BY ConcatProperties, ConcatEmptySeq
  <1> HIDE DEF s
  <1>2. Len(s) % 2 = 0
    BY <1>1 DEF Aligned, s
  <1>3. Pairs(s \o <<a, b>>) = Append(Pairs(s), PairOf(a, b))
    BY <1>1, <1>2, PairAdded
  <1> QED
    BY <1>1, <1>3, Zenon DEF s

LEMMA ClientEventRelays ==
    ASSUME Inv, proc = "running", InClientEvent, UNCHANGED outVars
    PROVE  Relay!RelayNext
  <1> DEFINE d == Head(listenQ)
  <1>1. /\ listenQ \in Seq(DatagramAt(0)) /\ listenQ # <<>> /\ inTodo = <<>>
        /\ outGot \in Seq(Frame) /\ toOut \in Seq(Frame)
    BY DEF Inv, TypeOK, NetTypeOK, PipeTypeOK, InTypeOK, OutTypeOK, InClientEvent,
           InBetweenEvents
  <1>2. d \in DatagramAt(0)
    BY <1>1, HeadTailProperties
  <1> HIDE DEF d
  <1>3. PICK junk \in Junk :
            inTodo' = forwardMessage(makeClientId(d.src, junk), convertForward(d))
    BY DEF InClientEvent, d
  <1> DEFINE id == <<d.src, junk>>
             e == [d EXCEPT !.layer = @ + 1]
             a == IdFrame(id)
             b == MsgFrame(e)
  <1>4. a \in Frame /\ b \in Frame /\ PairOf(a, b) = <<id, e>>
    BY <1>2 DEF Frame, IdFrame, MsgFrame, ClientId, DatagramAt, Datagram, PairOf
  <1>5. inTodo' = <<a, b>>
    BY <1>3 DEF forwardMessage, makeClientId, convertForward
  <1> HIDE DEF id, e, a, b
  <1>6. RequestPath' = outGot \o toOut \o <<a, b>>
    BY <1>5 DEF RequestPath, InClientEvent, pipeVars, outVars
  <1>7. RequestPath = outGot \o toOut \o <<>>
    BY <1>1 DEF RequestPath
  <1>8. Pairs(outGot \o toOut \o <<a, b>>)
            = Append(Pairs(outGot \o toOut \o <<>>), PairOf(a, b))
    BY <1>1, <1>4, <1>7, PathExtended DEF Inv, FramesAligned
  <1>9. Pairs(RequestPath)' = Append(Pairs(RequestPath), <<id, e>>)
    BY <1>4, <1>6, <1>7, <1>8, Zenon
  <1>10. Pairs(AnswerPath)' = Pairs(AnswerPath)
    BY DEF InClientEvent, pipeVars, outVars, AnswerPath
  <1>11. /\ listenQ # <<>> /\ listenQ' = Tail(listenQ)
         /\ UNCHANGED <<proc, bound, conns, connQ, connErr, wireOut, wireBack, sent,
                        replied, client2server, Pairs(AnswerPath)>>
    BY <1>10 DEF InClientEvent, outVars
  <1>12. Relay!AcceptRequest
    BY <1>9, <1>11, Zenon DEF Relay!AcceptRequest, id, e, d
  <1> QED
    BY <1>12 DEF Relay!RelayNext

LEMMA ServerEventRelays ==
    ASSUME Inv, proc = "running", NEW fd \in Fds, OutServerEvent(fd), UNCHANGED inVars
    PROVE  Relay!RelayNext
  <1>1. CASE WireSize(Head(connQ[fd])) = 0
    <2>1. fd \notin DOMAIN server2client'
      BY <1>1 DEF OutServerEvent, CloseConn, del_s2c, Erase
    <2> QED
      BY <2>1, Dies DEF OutServerEvent
  <1>2. CASE WireSize(Head(connQ[fd])) # 0
    <2> DEFINE id == server2client[fd]
               d == Head(connQ[fd])
               e == [d EXCEPT !.layer = @ - 1]
               a == IdFrame(id)
               b == MsgFrame(e)
    <2>1. /\ fd \in DOMAIN server2client /\ id \in ClientId
          /\ id \in DOMAIN client2server /\ client2server[id] = fd
      BY FdsAssumption DEF Inv, TypeOK, OutTypeOK, ConnectionMapSound, MutuallyInverse,
                           ConnectionsRouted, OutServerEvent, OutTakeEvent
    <2>2. UNCHANGED <<conns, client2server, server2client>>
      BY <1>2 DEF OutServerEvent
    <2>3. outTodo' = <<a, b>> /\ UNCHANGED proc
      BY <2>1, <2>2 DEF OutServerEvent, forwardMessage, convertBackward
    <2>4. /\ connQ[fd] # <<>> /\ connQ' = [connQ EXCEPT ![fd] = Tail(@)]
          /\ connQ[fd] \in Seq(DatagramAt(1)) /\ outTodo = <<>>
          /\ inGot \in Seq(Frame) /\ toIn \in Seq(Frame)
      BY DEF OutServerEvent, OutTakeEvent, OutBetweenEvents, Inv, TypeOK, NetTypeOK,
             PipeTypeOK, InTypeOK
    <2>5. d \in DatagramAt(1)
      BY <2>4, HeadTailProperties
    <2> HIDE DEF id, d
    <2>6. a \in Frame /\ b \in Frame /\ PairOf(a, b) = <<id, e>>
      BY <2>1, <2>5 DEF Frame, IdFrame, MsgFrame, DatagramAt, Datagram, PairOf
    <2> HIDE DEF e, a, b
    <2>7. AnswerPath' = inGot \o toIn \o <<a, b>>
      BY <2>3 DEF AnswerPath, OutServerEvent, pipeVars, inVars
    <2>8. AnswerPath = inGot \o toIn \o <<>>
      BY <2>4 DEF AnswerPath
    <2>9. Pairs(inGot \o toIn \o <<a, b>>)
              = Append(Pairs(inGot \o toIn \o <<>>), PairOf(a, b))
      BY <2>4, <2>6, <2>8, PathExtended DEF Inv, FramesAligned
    <2>10. Pairs(AnswerPath)' = Append(Pairs(AnswerPath), <<id, e>>)
      BY <2>6, <2>7, <2>8, <2>9
    <2>11. Pairs(RequestPath)' = Pairs(RequestPath)
      BY DEF OutServerEvent, pipeVars, inVars, RequestPath
    <2>12. UNCHANGED <<proc, bound, listenQ, conns, connErr, wireOut, wireBack, sent,
                       replied, client2server, Pairs(RequestPath)>>
      BY <2>2, <2>3, <2>11 DEF OutServerEvent
    <2>13. Relay!AcceptAnswer(id)
      <3>1. e = [Head(connQ[client2server[id]]) EXCEPT !.layer = @ - 1]
        BY <2>1, Zenon DEF e, d
      <3>2. /\ connQ[client2server[id]] # <<>>
            /\ connQ' = [connQ EXCEPT ![client2server[id]] = Tail(@)]
        BY <2>1, <2>4
      <3> QED
        BY <2>10, <2>12, <3>1, <3>2, Zenon DEF Relay!AcceptAnswer
    <2> QED
      BY <2>1, <2>13 DEF Relay!RelayNext
  <1> QED
    BY <1>1, <1>2

------------------------------------------------------------------------------
(* Theorem *)

LEMMA InitRelays == Init => Relay!RelayInit
  <1> SUFFICES ASSUME Init PROVE Relay!RelayInit
    OBVIOUS
  <1>1. RequestPath = <<>> /\ AnswerPath = <<>>
    BY DEF Init, PipeInit, InInit, OutInit, RequestPath, AnswerPath
  <1>2. Pairs(<<>>) = <<>>
    BY DEF Pairs
  <1> QED
    BY <1>1, <1>2 DEF Init, NetInit, OutInit, EmptyMap, Relay!RelayInit, Relay!NetInit

LEMMA NextRelays == Inv /\ [Next]_vars => [Relay!RelayNext]_(Relay!relayVars)
  <1> SUFFICES ASSUME Inv, [Next]_vars
               PROVE  Relay!RelayNext \/ UNCHANGED Relay!relayVars
    OBVIOUS
  <1>1. CASE Next
    <2>1. CASE proc = "running" /\ Environment
      BY <2>1, EnvironmentRelays
    <2>2. CASE proc = "running" /\ InboundThread
      BY <2>2, InQuietStep, SendToRelays, ClientEventRelays DEF InboundThread, InNext
    <2>3. CASE proc = "running" /\ OutboundThread
      BY <2>3, OutQuietStep, SendKnownRelays, ConnectRelays, ServerEventRelays
         DEF OutboundThread, OutNext
    <2> QED
      BY <1>1, <2>1, <2>2, <2>3 DEF Next
  <1>2. CASE UNCHANGED vars
    BY <1>2, Stutter DEF vars, pipeVars, inVars, outVars, RequestPath, AnswerPath
  <1> QED
    BY <1>1, <1>2

(* The forwarder implements the relay: whatever the interleaving of its two *)
(* threads, and whichever call fails, it loses, duplicates, reorders and    *)
(* misdirects none of the datagrams it has read from a socket.              *)
THEOREM RelayCorrect == Spec => ImplementsRelay
  <1> QED
    BY InitRelays, NextRelays, InitInv, NextInv, PTL
       DEF Spec, ImplementsRelay, Relay!RelaySpec

==============================================================================
