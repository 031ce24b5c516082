----------------------------- MODULE StartupProofs -----------------------------
(***************************************************************************)
(* How a forwarder comes up. For any number of processes and ports,        *)
(* mk_tcp_pipe joins the two threads of every process that has its port to *)
(* itself; and for every command line, main runs what it asks for.         *)
(***************************************************************************)
EXTENDS TmpPipe, HelperParts, SequenceTheorems, RecursionFacts, TLAPS

------------------------------------------------------------------------------
(* The pipe *)

\* How far the connection of a process that has its port to itself has come.
OwnConnection(p) ==
    /\ pipePc[p] \in {"draw", "listen", "connect", "failed"} =>
          backlog[p] = <<>> /\ srvSide[p] = None
    /\ pipePc[p] = "join" => \/ backlog[p] = <<p>> /\ srvSide[p] = None
                             \/ backlog[p] = <<>> /\ srvSide[p] = p
    /\ pipePc[p] \in {"close", "up"} => backlog[p] = <<>> /\ srvSide[p] = p

\* Two listening sockets at one port are a clash of their processes.
PortsApart == \A p, q \in listening : port[p] = port[q] /\ p # q => p \in clashed

\* Only a connection of a process in a clash waits at another process, or is
\* reset before its own process fails.
NoneStray ==
    /\ \A p \in Procs : \A i \in DOMAIN backlog[p] : backlog[p][i] \in clashed \cup {p}
    /\ \A p \in lost : pipePc[p] = "failed" \/ p \in clashed

AloneOnPort == \A p \in Procs \ clashed : OwnConnection(p)

Separate == PortsApart /\ NoneStray /\ AloneOnPort

\* Which processes have their listening socket open.
ListensWhile == \A p \in Procs : p \in listening <=> pipePc[p] \in {"connect", "join", "close"}

PipeInv == PipeTypeOK /\ ListensWhile /\ Separate

LEMMA PipeInitInv == PipeInit => PipeInv
  <1> SUFFICES ASSUME PipeInit PROVE PipeInv
    OBVIOUS
  <1>1. <<>> \in Seq(Procs)
    OBVIOUS
  <1>2. PipeTypeOK
    BY <1>1 DEF PipeInit, PipeTypeOK
  <1>3. ListensWhile /\ Separate
    BY DEF PipeInit, ListensWhile, Separate, PortsApart, NoneStray, AloneOnPort, OwnConnection
  <1> QED BY <1>2, <1>3 DEF PipeInv

LEMMA PipeNextType == PipeTypeOK /\ ListensWhile /\ PipeNext => PipeTypeOK' /\ ListensWhile'
  <1> SUFFICES ASSUME PipeTypeOK, ListensWhile, NEW p \in Procs,
                      MkTcpPipe(p) \/ Fails(p)
               PROVE  PipeTypeOK' /\ ListensWhile'
    BY DEF PipeNext
  <1> USE DEF PipeTypeOK, ListensWhile, PipeGoto
  <1>1. CASE Draw(p)
    BY <1>1 DEF Draw
  <1>2. CASE Listen(p)
    <2>1. clashed' \subseteq Procs
      BY <1>2 DEF Listen, ListenersAt
    <2> QED BY <1>2, <2>1 DEF Listen
  <1>3. CASE Connect(p)
    <2>1. PICK q \in listening : backlog' = [backlog EXCEPT ![q] = Append(@, p)]
      BY <1>3 DEF Connect, ListenersAt
    <2>2. Append(backlog[q], p) \in Seq(Procs)
      BY <2>1
    <2> QED BY <1>3, <2>1, <2>2 DEF Connect
  <1>4. CASE Accept(p)
    <2>1. Head(backlog[p]) \in Procs /\ Tail(backlog[p]) \in Seq(Procs)
      BY <1>4 DEF Accept
    <2> QED BY <1>4, <2>1 DEF Accept
  <1>5. CASE Join(p)
    BY <1>5 DEF Join
  <1>6. ASSUME CloseListenFd(p)
        PROVE  lost' \subseteq Procs /\ backlog' \in [Procs -> Seq(Procs)]
    <2>1. \A i \in DOMAIN backlog[p] : backlog[p][i] \in Procs
      OBVIOUS
    <2>2. <<>> \in Seq(Procs)
      OBVIOUS
    <2> QED BY <1>6, <2>1, <2>2 DEF CloseListenFd
  <1>7. CASE Close(p)
    BY <1>6, <1>7 DEF Close, CloseListenFd
  <1>8. CASE Fails(p)
    BY <1>6, <1>8 DEF Fails, CloseListenFd
  <1> QED BY <1>1, <1>2, <1>3, <1>4, <1>5, <1>7, <1>8 DEF MkTcpPipe

LEMMA NextPortsApart == PipeInv /\ PipeNext => PortsApart' /\ clashed \subseteq clashed'
  <1> SUFFICES ASSUME PipeInv, NEW p \in Procs, MkTcpPipe(p) \/ Fails(p)
               PROVE  PortsApart' /\ clashed \subseteq clashed'
    BY DEF PipeNext
  <1>1. PipeTypeOK /\ ListensWhile /\ PortsApart
    BY DEF PipeInv, Separate
  <1> USE DEF PipeTypeOK, ListensWhile, PortsApart, PipeGoto
  <1>2. CASE Draw(p)
    <2>1. p \notin listening
      BY <1>1, <1>2 DEF Draw
    <2>2. \A q \in listening : port'[q] = port[q]
      BY <1>1, <1>2, <2>1 DEF Draw
    <2> QED BY <1>1, <1>2, <2>2 DEF Draw
  <1>3. CASE Listen(p)
    <2>1. \A q \in listening : port[q] = port[p] => p \in clashed' /\ q \in clashed'
      BY <1>3 DEF Listen, ListenersAt
    <2> QED BY <1>1, <1>3, <2>1 DEF Listen
  <1>4. CASE Connect(p) \/ Accept(p) \/ Join(p)
    BY <1>1, <1>4 DEF Connect, Accept, Join
  <1>5. CASE Close(p) \/ Fails(p)
    <2>1. listening' \subseteq listening /\ UNCHANGED <<port, clashed>>
      BY <1>5 DEF Close, Fails, CloseListenFd
    <2> QED BY <1>1, <2>1
  <1> QED BY <1>2, <1>3, <1>4, <1>5 DEF MkTcpPipe

LEMMA NextSeparate == PipeInv /\ PipeNext => Separate'
  <1> SUFFICES ASSUME PipeInv, NEW p \in Procs, MkTcpPipe(p) \/ Fails(p)
               PROVE  NoneStray' /\ AloneOnPort'
    BY NextPortsApart DEF PipeNext, Separate
  <1>1. /\ PipeTypeOK /\ ListensWhile
        /\ PortsApart /\ NoneStray /\ AloneOnPort
        /\ clashed \subseteq clashed'
    BY NextPortsApart DEF PipeInv, Separate, PipeNext
  <1>2. \A q \in Procs : backlog[q] \in Seq(Procs)
    BY <1>1 DEF PipeTypeOK
  <1> USE TmpPipeAssumption
      DEF PipeTypeOK, ListensWhile, PortsApart, NoneStray, AloneOnPort, OwnConnection, PipeGoto
  <1>3. CASE Draw(p)
    BY <1>1, <1>3 DEF Draw
  <1>4. CASE Listen(p)
    <2>1. NoneStray'
      BY <1>1, <1>4 DEF Listen
    <2>2. AloneOnPort'
      BY <1>1, <1>4 DEF Listen
    <2> QED BY <2>1, <2>2
  <1>5. CASE Connect(p)
    <2>1. PICK q \in ListenersAt(port[p]) : backlog' = [backlog EXCEPT ![q] = Append(@, p)]
      BY <1>5 DEF Connect
    <2>2. q \in Procs /\ (q # p => p \in clashed /\ q \in clashed)
      BY <1>1, <1>5, <2>1 DEF Connect, ListenersAt
    <2>3. UNCHANGED <<listening, srvSide, lost, clashed>>
      BY <1>5 DEF Connect
    <2>4. /\ \A r \in Procs \ {q} : backlog'[r] = backlog[r]
          /\ backlog'[q] = Append(backlog[q], p)
          /\ \A r \in Procs \ {p} : pipePc'[r] = pipePc[r]
          /\ pipePc'[p] = "join" /\ pipePc[p] = "connect"
      BY <1>1, <1>5, <2>1, <2>2 DEF Connect
    <2>5. \A i \in DOMAIN backlog'[q] :
             \/ backlog'[q][i] = p
             \/ i \in DOMAIN backlog[q] /\ backlog'[q][i] = backlog[q][i]
      BY <1>2, <2>2, <2>4
    <2>6. NoneStray'
      <3>1. \A r \in Procs : \A i \in DOMAIN backlog'[r] : backlog'[r][i] \in clashed \cup {r}
        <4>1. p \in clashed \cup {q}
          BY <2>2
        <4>2. \A i \in DOMAIN backlog[q] : backlog[q][i] \in clashed \cup {q}
          BY <1>1, <2>2
        <4>3. \A i \in DOMAIN backlog'[q] : backlog'[q][i] \in clashed \cup {q}
          BY <2>5, <4>1, <4>2
        <4> QED BY <1>1, <2>4, <4>3
      <3>2. \A r \in lost : pipePc'[r] = "failed" \/ r \in clashed
        BY <1>1, <2>4
      <3> QED BY <2>3, <3>1, <3>2
    <2>7. ASSUME NEW r \in Procs \ clashed PROVE OwnConnection(r)'
      <3>1. CASE r = p
        <4>1. q = p /\ backlog[p] = <<>> /\ srvSide[p] = None
          BY <1>1, <2>2, <2>4, <3>1
        <4>2. Append(<<>>, p) = <<p>>
          OBVIOUS
        <4> QED BY <2>3, <2>4, <3>1, <4>1, <4>2
      <3>2. CASE r # p
        <4>1. r # q
          BY <2>2, <3>2
        <4> QED BY <1>1, <2>3, <2>4, <3>2, <4>1
      <3> QED BY <3>1, <3>2
    <2> HIDE DEF OwnConnection
    <2> QED BY <2>3, <2>6, <2>7
  <1>6. CASE Accept(p)
    <2>1. /\ \A r \in Procs \ {p} : backlog'[r] = backlog[r] /\ srvSide'[r] = srvSide[r]
          /\ backlog'[p] = Tail(backlog[p]) /\ srvSide'[p] = Head(backlog[p])
          /\ UNCHANGED <<pipePc, lost, clashed>>
      BY <1>1, <1>6 DEF Accept
    <2>2. ASSUME NEW i \in DOMAIN backlog'[p]
          PROVE  i + 1 \in DOMAIN backlog[p] /\ backlog'[p][i] = backlog[p][i + 1]
      <3>1. backlog[p] \in Seq(Procs) /\ backlog[p] # <<>>
        BY <1>2, <1>6 DEF Accept
      <3>2. i \in DOMAIN Tail(backlog[p])
        BY <2>1
      <3>3. i + 1 \in DOMAIN backlog[p] /\ Tail(backlog[p])[i] = backlog[p][i + 1]
        BY <3>1, <3>2
      <3> QED BY <2>1, <3>3
    <2>3. NoneStray'
      <3>1. \A i \in DOMAIN backlog'[p] : backlog'[p][i] \in clashed \cup {p}
        BY <1>1, <2>2
      <3>2. \A r \in Procs : \A i \in DOMAIN backlog'[r] : backlog'[r][i] \in clashed \cup {r}
        BY <1>1, <2>1, <3>1
      <3>3. \A r \in lost : pipePc[r] = "failed" \/ r \in clashed
        BY <1>1
      <3> QED BY <2>1, <3>2, <3>3
    <2>4. ASSUME NEW r \in Procs \ clashed PROVE OwnConnection(r)'
      <3>1. CASE r = p
        <4>1. pipePc[p] = "join" /\ backlog[p] = <<p>>
          BY <1>1, <1>6, <3>1 DEF Accept
        <4>2. Head(<<p>>) = p /\ Tail(<<p>>) = <<>>
          OBVIOUS
        <4> QED BY <2>1, <3>1, <4>1, <4>2
      <3>2. CASE r # p
        BY <1>1, <2>1, <3>2
      <3> QED BY <3>1, <3>2
    <2> HIDE DEF OwnConnection
    <2> QED BY <2>1, <2>3, <2>4
  <1>7. CASE Join(p)
    BY <1>1, <1>7 DEF Join
  <1>8. CASE Close(p) \/ Fails(p)
    <2>1. /\ \A r \in Procs \ {p} : backlog'[r] = backlog[r] /\ pipePc'[r] = pipePc[r]
          /\ backlog'[p] = <<>>
          /\ lost' = lost \cup {backlog[p][i] : i \in DOMAIN backlog[p]}
          /\ UNCHANGED <<srvSide, clashed>>
      BY <1>1, <1>8 DEF Close, Fails, CloseListenFd
    <2>2. \/ pipePc[p] = "close" /\ pipePc'[p] = "up"
          \/ /\ pipePc[p] \in {"listen", "connect", "join"} /\ pipePc'[p] = "failed"
             /\ pipePc[p] = "join" => srvSide[p] = None
      BY <1>1, <1>8 DEF Close, Fails
    <2>3. \A r \in lost' : pipePc'[r] = "failed" \/ r \in clashed
      <3>1. \A r \in lost : pipePc'[r] = "failed" \/ r \in clashed
        BY <1>1, <2>1, <2>2
      <3>2. ASSUME NEW i \in DOMAIN backlog[p], backlog[p][i] \notin clashed
            PROVE  pipePc'[p] = "failed" /\ backlog[p][i] = p
        <4>1. backlog[p][i] = p /\ p \notin clashed
          BY <1>1, <3>2
        <4>2. backlog[p] # <<>>
          OBVIOUS
        <4> QED BY <1>1, <2>2, <4>1, <4>2
      <3> QED BY <2>1, <3>1, <3>2
    <2>4. NoneStray'
      <3>1. \A r \in Procs : \A i \in DOMAIN backlog'[r] : backlog'[r][i] \in clashed \cup {r}
        BY <1>1, <2>1
      <3> QED BY <2>1, <2>3, <3>1
    <2>5. AloneOnPort'
      BY <1>1, <2>1, <2>2
    <2> QED BY <2>4, <2>5
  <1> QED BY <1>3, <1>4, <1>5, <1>6, <1>7, <1>8 DEF MkTcpPipe

LEMMA PipeSpecInv == PipeSpec => []PipeInv
  <1>1. PipeInit => PipeInv
    BY PipeInitInv
  <1>2. PipeInv /\ [PipeNext]_pipeVars => PipeInv'
    <2>1. PipeInv /\ UNCHANGED pipeVars => PipeInv'
      BY DEF PipeInv, PipeTypeOK, ListensWhile, Separate, PortsApart, NoneStray,
             AloneOnPort, OwnConnection, pipeVars
    <2>2. PipeInv /\ PipeNext => PipeInv'
      BY PipeNextType, NextSeparate DEF PipeInv
    <2> QED BY <2>1, <2>2
  <1> QED BY <1>1, <1>2, PTL DEF PipeSpec

\* The type invariant of mk_tcp_pipe's state.
THEOREM TmpPipeTypeCorrect == PipeSpec => []PipeTypeOK
  <1>1. PipeInv => PipeTypeOK
    BY DEF PipeInv
  <1> QED BY <1>1, PipeSpecInv, PTL

\* A process that has had its port to itself gets from mk_tcp_pipe the two
\* ends of one connection, and nobody else's reset has hit it, even while
\* other processes share theirs.
THEOREM PipeCorrect == PipeSpec => []PipeJoinsOwnThreads
  <1>1. PipeInv => PipeJoinsOwnThreads
    BY DEF PipeInv, Separate, NoneStray, AloneOnPort, OwnConnection, PipeJoinsOwnThreads
  <1> QED BY <1>1, PipeSpecInv, PTL

------------------------------------------------------------------------------
(* The command line *)

\* Arguments of the two forms, with texts of T.
Words(W, T) == \A w \in W :
    /\ w[1] \in T
    /\ w = <<w[1]>> \/ (w = <<w[1], w[2]>> /\ w[2] \in T)

\* What the beginnings of a command line give an option.
Gathers(T, c, name, g) ==
    /\ g \in [0 .. Len(c) -> Seq(T)] /\ g[0] = <<>>
    /\ \A k \in 1 .. Len(c) :
          g[k] = IF c[k][1] = name THEN Append(g[k - 1], Main!ValueAt(c, k)) ELSE g[k - 1]

\* A line that is correct, of arguments of W.
Line(W, c) == c \in Seq(W) /\ Main!IsCorrect(c)

\* The length of an argument tells its form.
LEMMA WordLength == ASSUME NEW W, NEW T, Words(W, T), NEW w \in W
    PROVE  /\ Len(w) \in {1, 2} /\ w[1] \in T /\ (Len(w) = 2 => w[2] \in T)
           /\ Len(w) = 1 => w = <<w[1]>>
<1>1. CASE w = <<w[1]>>
  <2>1. Len(<<w[1]>>) = 1
    OBVIOUS
  <2> QED BY <1>1, <2>1 DEF Words
<1>2. CASE w = <<w[1], w[2]>>
  <2>1. Len(<<w[1], w[2]>>) = 2
    OBVIOUS
  <2>2. w[2] \in T \/ w = <<w[1]>>
    BY DEF Words
  <2> QED BY <1>1, <1>2, <2>1, <2>2 DEF Words
<1> QED BY <1>1, <1>2 DEF Words

\* Each option of a correct line has its value, one of the texts.
LEMMA ValueText ==
    ASSUME NEW W, NEW T, Words(W, T), NEW c, Line(W, c), NEW k \in 1 .. Len(c), c[k][1] \in Main!Valued
    PROVE  /\ Main!ValueAt(c, k) \in T
           /\ Len(c[k]) # 2 => /\ Len(c[k]) = 1 /\ k + 1 \in 1 .. Len(c)
                               /\ Len(c[k + 1]) = 1 /\ c[k + 1][1] \notin Main!Options
<1>1. Len(c) \in Nat /\ DOMAIN c = 1 .. Len(c) /\ \A j \in 1 .. Len(c) : c[j] \in W
  BY DEF Line
<1>2. Len(c[k]) \in {1, 2} /\ (Len(c[k]) = 2 => c[k][2] \in T)
  BY <1>1, WordLength
<1>3. CASE Len(c[k]) = 2
  BY <1>2, <1>3 DEF Main!ValueAt
<1>4. CASE Len(c[k]) # 2
  <2>1. k < Len(c) /\ Len(c[k + 1]) = 1
    BY <1>1, <1>4 DEF Line, Main!IsCorrect
  <2>2. k + 1 \in 1 .. Len(c) /\ Len(c[k]) = 1 /\ (k + 1) - 1 = k /\ k + 1 > 1
    BY <1>1, <1>2, <1>4, <2>1
  <2>3. c[k + 1][1] \in T
    BY <1>1, <2>2, WordLength
  <2>4. Main!IsValue(c, k + 1)
    BY <2>2 DEF Main!IsValue
  <2>5. c[k + 1][1] \notin Main!Options
    BY <1>1, <2>2, <2>4 DEF Line, Main!IsCorrect
  <2> QED BY <1>4, <2>1, <2>2, <2>3, <2>5 DEF Main!ValueAt
<1> QED BY <1>3, <1>4

\* Given is the last of what its recursion gathers.
LEMMA GivenFacts ==
    ASSUME NEW W, NEW T, Words(W, T), NEW c, Line(W, c), NEW name \in Main!Valued
    PROVE  \E g : Gathers(T, c, name, g) /\ Main!Given(c, name) = g[Len(c)]
  <1> DEFINE N == Len(c)
             V(k) == Main!ValueAt(c, k)
             Body(f) == [k \in 0 .. Len(c) |->
                           IF k = 0 THEN <<>> ELSE IF c[k][1] = name THEN Append(f[k - 1], Main!ValueAt(c, k)) ELSE f[k - 1]]
             n == CHOOSE f : f = Body(f)
             F == [k \in 1 .. N |-> [s \in Seq(T) |-> IF c[k][1] = name THEN Append(s, V(k)) ELSE s]]
  <1>1. N \in Nat
    BY DEF Line
  <1>2. Main!Given(c, name) = n[N]
    BY Zenon DEF Main!Given
  <1>3. ASSUME NEW k \in 1 .. N, NEW s \in Seq(T) PROVE (IF c[k][1] = name THEN Append(s, V(k)) ELSE s) \in Seq(T)
    <2>1. CASE c[k][1] = name
      <3>1. V(k) \in T
        BY <2>1, ValueText
      <3> HIDE DEF V
      <3> QED BY <3>1
    <2> QED BY <2>1
  <1>4. \A k \in 1 .. N : F[k] \in [Seq(T) -> Seq(T)]
    <2> HIDE DEF V, N
    <2> QED BY <1>3
  <1>5. <<>> \in Seq(T)
    OBVIOUS
  <1>6. PICK g : Computes(Seq(T), N, <<>>, F, g)
    <2> HIDE DEF F, N
    <2> QED BY <1>1, <1>4, <1>5, Recursion, Zenon
  <1>7. /\ g \in [0 .. N -> Seq(T)] /\ g[0] = <<>>
        /\ \A k \in 1 .. N : g[k] = IF c[k][1] = name THEN Append(g[k - 1], V(k)) ELSE g[k - 1]
    <2>1. g \in [0 .. N -> Seq(T)] /\ g[0] = <<>> /\ \A k \in 1 .. N : g[k] = F[k][g[k - 1]]
      <3> HIDE DEF F, N
      <3> QED BY <1>6 DEF Computes
    <2>2. \A k \in 1 .. N : k - 1 \in 0 .. N /\ g[k - 1] \in Seq(T)
      <3> HIDE DEF F, N
      <3> QED BY <1>1, <2>1
    <2>3. \A k \in 1 .. N : F[k][g[k - 1]] = IF c[k][1] = name THEN Append(g[k - 1], V(k)) ELSE g[k - 1]
      <3> HIDE DEF V, N
      <3> QED BY <2>2
    <2> QED BY <2>1, <2>3
  <1>8. g = Body(g)
    <2> HIDE DEF N, V
    <2>1. \A k \in 0 .. N : g[k] = IF k = 0 THEN <<>> ELSE IF c[k][1] = name THEN Append(g[k - 1], V(k)) ELSE g[k - 1]
      <3>1. \A k \in 0 .. N : k # 0 => k \in 1 .. N
        BY <1>1
      <3> QED BY <1>7, <3>1, Zenon
    <2>2. g = [k \in 0 .. N |-> g[k]]
      BY <1>7
    <2>3. [k \in 0 .. N |-> g[k]]
          = [k \in 0 .. N |-> IF k = 0 THEN <<>> ELSE IF c[k][1] = name THEN Append(g[k - 1], V(k)) ELSE g[k - 1]]
      BY <2>1
    <2> QED BY <2>2, <2>3, Zenon DEF N, V
  <1>9. n = Body(n)
    <2> HIDE DEF Body
    <2> QED BY <1>8
  <1>10. \A k \in 0 .. N : n[k] = IF k = 0 THEN <<>> ELSE IF c[k][1] = name THEN Append(n[k - 1], V(k)) ELSE n[k - 1]
    <2> HIDE DEF n
    <2> QED BY <1>9, Zenon
  <1>11. \A k \in 0 .. N : n[k] = g[k]
    <2> DEFINE S == {k \in Nat : k <= N => n[k] = g[k]}
    <2> HIDE DEF n, V, N
    <2>1. 0 \in S
      <3>1. 0 \in 0 .. N
        BY <1>1
      <3> QED BY <1>7, <1>10, <3>1
    <2>2. \A k \in Nat : k \in S => k + 1 \in S
      <3> SUFFICES ASSUME NEW k \in Nat, k \in S, k + 1 <= N PROVE n[k + 1] = g[k + 1]
        BY <1>1
      <3>1. k + 1 \in 0 .. N /\ k + 1 \in 1 .. N /\ (k + 1) - 1 = k /\ k + 1 # 0 /\ k <= N
        BY <1>1
      <3>2. n[k] = g[k]
        BY <3>1
      <3> QED BY <1>7, <1>10, <3>1, <3>2
    <2>3. Nat \subseteq S
      <3> HIDE DEF S
      <3>1. S \subseteq Nat
        BY DEF S
      <3> QED BY <2>1, <2>2, <3>1, Induct
    <2> QED BY <1>1, <2>3
  <1>12. n[N] = g[N]
    <2>1. N \in 0 .. N
      BY <1>1
    <2> HIDE DEF n, N
    <2> QED BY <1>11, <2>1
  <1>13. Gathers(T, c, name, g)
    BY <1>7, Zenon DEF Gathers
  <1> QED BY <1>2, <1>12, <1>13

\* The first place of an option, the number of arguments it takes, and the
\* line without them.
FirstPlace(c, name, p, w) ==
    /\ name \in Main!Valued /\ p \in 1 .. Len(c) /\ c[p][1] = name
    /\ \A j \in 1 .. p - 1 : c[j][1] # name
    /\ w = IF Len(c[p]) = 2 THEN 1 ELSE 2
Without(c, p, w) == SubSeq(c, 1, p - 1) \o SubSeq(c, p + w, Len(c))

\* Where the arguments of the shorter line were.
Was(p, w, k) == IF k < p THEN k ELSE k + w

\* The shorter line holds the other arguments, in their order.
LEMMA WithoutSeq ==
    ASSUME NEW W, NEW T, Words(W, T), NEW c, Line(W, c), NEW name, NEW p, NEW w, FirstPlace(c, name, p, w)
    PROVE  /\ p + w - 1 <= Len(c) /\ w \in {1, 2}
           /\ Without(c, p, w) \in Seq(W) /\ Len(Without(c, p, w)) = Len(c) - w
           /\ \A k \in 1 .. Len(c) - w : Was(p, w, k) \in 1 .. Len(c) /\ Without(c, p, w)[k] = c[Was(p, w, k)]
           /\ w = 2 => Len(c[p]) = 1 /\ c[p + 1][1] \notin Main!Options
<1> DEFINE N == Len(c)
<1>1. N \in Nat /\ \A j \in 1 .. N : c[j] \in W
  BY DEF Line
<1>2. p \in 1 .. N /\ c[p][1] \in Main!Valued
  BY DEF FirstPlace
<1>3. w \in {1, 2} /\ p + w - 1 <= N /\ (w = 2 => Len(c[p]) = 1 /\ c[p + 1][1] \notin Main!Options)
  <2>1. CASE Len(c[p]) = 2
    BY <1>1, <1>2, <2>1 DEF FirstPlace
  <2>2. CASE Len(c[p]) # 2
    <3>1. w = 2
      BY <2>2 DEF FirstPlace
    <3>2. Len(c[p]) = 1 /\ p + 1 \in 1 .. N /\ c[p + 1][1] \notin Main!Options
      BY <1>2, <2>2, ValueText
    <3> QED BY <1>1, <1>2, <3>1, <3>2
  <2> QED BY <2>1, <2>2
<1> DEFINE s == SubSeq(c, 1, p - 1)
           t == SubSeq(c, p + w, N)
<1>4. s \in Seq(W) /\ Len(s) = p - 1 /\ \A i \in 1 .. p - 1 : s[i] = c[i]
  <2> HIDE DEF N
  <2>1. 1 \in Int /\ p - 1 \in Int /\ \A i \in 1 .. p - 1 : c[i] \in W
    BY <1>1, <1>2
  <2>2. /\ SubSeq(c, 1, p - 1) \in Seq(W)
        /\ Len(SubSeq(c, 1, p - 1)) = IF 1 <= p - 1 THEN (p - 1) - 1 + 1 ELSE 0
        /\ \A i \in 1 .. (p - 1) - 1 + 1 : SubSeq(c, 1, p - 1)[i] = c[1 + i - 1]
    BY <2>1, SubSeqProperties
  <2>3. /\ (IF 1 <= p - 1 THEN (p - 1) - 1 + 1 ELSE 0) = p - 1 /\ (p - 1) - 1 + 1 = p - 1
        /\ \A i \in 1 .. p - 1 : 1 + i - 1 = i
    BY <1>1, <1>2
  <2> QED BY <2>2, <2>3
<1>5. t \in Seq(W) /\ Len(t) = N - p - w + 1 /\ \A i \in 1 .. N - p - w + 1 : t[i] = c[p + w + i - 1]
  <2> HIDE DEF N
  <2>1. p + w \in Int /\ N \in Int /\ \A i \in p + w .. N : c[i] \in W
    BY <1>1, <1>2, <1>3
  <2>2. /\ SubSeq(c, p + w, N) \in Seq(W)
        /\ Len(SubSeq(c, p + w, N)) = IF p + w <= N THEN N - (p + w) + 1 ELSE 0
        /\ \A i \in 1 .. N - (p + w) + 1 : SubSeq(c, p + w, N)[i] = c[p + w + i - 1]
    BY <2>1, SubSeqProperties
  <2>3. (IF p + w <= N THEN N - (p + w) + 1 ELSE 0) = N - p - w + 1 /\ N - (p + w) + 1 = N - p - w + 1
    BY <1>1, <1>2, <1>3
  <2> QED BY <2>2, <2>3
<1>6. /\ s \o t \in Seq(W) /\ Len(s \o t) = Len(s) + Len(t)
      /\ \A i \in 1 .. Len(s) + Len(t) : (s \o t)[i] = IF i <= Len(s) THEN s[i] ELSE t[i - Len(s)]
  <2> HIDE DEF s, t, N
  <2> QED BY <1>4, <1>5, ConcatProperties
<1>7. Without(c, p, w) = s \o t
  BY DEF Without
<1> HIDE DEF s, t, N
<1>8. Len(s) + Len(t) = N - w
  BY <1>1, <1>2, <1>3, <1>4, <1>5
<1>9. ASSUME NEW k \in 1 .. N - w PROVE Was(p, w, k) \in 1 .. N /\ (s \o t)[k] = c[Was(p, w, k)]
  <2>1. k \in 1 .. Len(s) + Len(t)
    BY <1>8
  <2>2. CASE k < p
    BY <1>1, <1>2, <1>3, <1>4, <1>6, <2>1, <2>2 DEF Was
  <2>3. CASE k >= p
    <3>1. k - Len(s) \in 1 .. N - p - w + 1 /\ ~(k <= Len(s)) /\ p + w + (k - Len(s)) - 1 = k + w
      BY <1>1, <1>2, <1>3, <1>4, <2>3
    <3>2. (s \o t)[k] = t[k - Len(s)]
      BY <1>6, <2>1, <3>1
    <3>3. t[k - Len(s)] = c[k + w]
      BY <1>5, <3>1
    <3>4. Was(p, w, k) = k + w /\ k + w \in 1 .. N
      BY <1>1, <1>2, <1>3, <2>3 DEF Was
    <3> QED BY <3>2, <3>3, <3>4
  <2>4. k < p \/ k >= p
    BY <1>2, <1>3, <1>1
  <2> QED BY <2>2, <2>3, <2>4, Zenon
<1> QED BY <1>3, <1>6, <1>7, <1>8, <1>9 DEF N

\* The shorter line is correct, and each of its options has the value it had.
LEMMA WithoutLine ==
    ASSUME NEW W, NEW T, Words(W, T), NEW c, Line(W, c), NEW name, NEW p, NEW w, FirstPlace(c, name, p, w)
    PROVE  LET d == Without(c, p, w) IN
           /\ Line(W, d)
           /\ \A k \in 1 .. Len(d) : d[k][1] \in Main!Valued =>
                 Main!ValueAt(d, k) = Main!ValueAt(c, Was(p, w, k))
<1> DEFINE d == Without(c, p, w)
           N == Len(c)
           Single(e, k) == Len(e[k]) = 1 /\ e[k][1] \in Main!Valued
<1>0. N \in Nat /\ DOMAIN c = 1 .. N /\ p \in 1 .. N /\ c[p][1] \in Main!Valued
  BY DEF Line, FirstPlace
<1>1. /\ w \in {1, 2} /\ p + w - 1 <= N
      /\ d \in Seq(W) /\ Len(d) = N - w
      /\ \A k \in 1 .. N - w : Was(p, w, k) \in 1 .. N /\ d[k] = c[Was(p, w, k)]
      /\ w = 2 => Len(c[p]) = 1 /\ c[p + 1][1] \notin Main!Options
  BY WithoutSeq
<1>2. \A k \in 1 .. N : /\ c[k][1] \in Main!Flags => Len(c[k]) = 1
                        /\ c[k][1] \in Main!Valued => Len(c[k]) = 2 \/ (k < N /\ Len(c[k + 1]) = 1)
                        /\ (k > 1 /\ Single(c, k - 1)) <=> c[k][1] \notin Main!Options
  BY <1>0 DEF Line, Main!IsCorrect, Main!IsValue
<1>3. Main!Valued \subseteq Main!Options
  BY DEF Main!Options
<1> HIDE DEF d, N
\* No value stands at the seam.
<1>4. ~(p > 1 /\ Single(c, p - 1))
  <2>1. c[p][1] \in Main!Options
    BY <1>0, <1>3
  <2> HIDE DEF Single
  <2> QED BY <1>0, <1>2, <2>1
<1>5. p + w <= N => ~Single(c, p + w - 1)
  <2>1. CASE w = 1
    <3>1. Len(c[p]) = 2
      BY <2>1 DEF FirstPlace
    <3>2. p + w - 1 = p
      BY <1>0, <2>1
    <3> QED BY <3>1, <3>2
  <2>2. CASE w = 2
    <3>1. p + w - 1 = p + 1
      BY <1>0, <2>2
    <3> QED BY <1>1, <1>3, <2>2, <3>1
  <2> QED BY <1>1, <2>1, <2>2
\* The argument before, and the argument behind.
<1>6. ASSUME NEW k \in 1 .. N - w
      PROVE  k > 1 /\ Single(d, k - 1) <=> Was(p, w, k) > 1 /\ Single(c, Was(p, w, k) - 1)
  <2>1. CASE k < p
    <3>1. Was(p, w, k) = k /\ (k > 1 => k - 1 \in 1 .. N - w /\ Was(p, w, k - 1) = k - 1)
      BY <1>0, <1>1, <2>1 DEF Was
    <3>2. k > 1 => d[k - 1] = c[k - 1]
      BY <1>1, <3>1
    <3>3. (k > 1 <=> Was(p, w, k) > 1) /\ (k > 1 => d[k - 1] = c[Was(p, w, k) - 1])
      BY <3>1, <3>2
    <3>4. CASE k > 1
      <4>1. Was(p, w, k) > 1 /\ d[k - 1] = c[Was(p, w, k) - 1]
        BY <3>3, <3>4, Zenon
      <4> QED BY <3>4, <4>1, Zenon
    <3>5. CASE ~(k > 1)
      BY <3>3, <3>5, Zenon
    <3> HIDE DEF Single
    <3> QED BY <3>4, <3>5, Zenon
  <2>2. CASE k = p
    <3>1. Was(p, w, k) = p + w /\ p + w <= N /\ (p > 1 => p - 1 \in 1 .. N - w /\ Was(p, w, p - 1) = p - 1)
      BY <1>0, <1>1, <2>2 DEF Was
    <3>2. ~(p > 1 /\ Single(d, p - 1))
      BY <1>1, <1>4, <3>1
    <3>3. ~Single(c, p + w - 1)
      BY <1>5, <3>1
    <3>4. ~(k > 1 /\ Single(d, k - 1))
      BY <2>2, <3>2, Zenon
    <3>5. ~Single(c, Was(p, w, k) - 1)
      <4>1. c[Was(p, w, k) - 1] = c[p + w - 1]
        BY <1>0, <1>1, <3>1
      <4> QED BY <3>3, <4>1
    <3> HIDE DEF Single
    <3> QED BY <3>4, <3>5, Zenon
  <2>3. CASE k > p
    <3>1. /\ Was(p, w, k) = k + w /\ k > 1 /\ k + w > 1
          /\ k - 1 \in 1 .. N - w /\ Was(p, w, k - 1) = k + w - 1
      BY <1>0, <1>1, <2>3 DEF Was
    <3>2. d[k - 1] = c[k + w - 1]
      BY <1>1, <3>1
    <3>3. (k > 1 <=> Was(p, w, k) > 1) /\ d[k - 1] = c[Was(p, w, k) - 1]
      BY <1>1, <3>1, <3>2
    <3> QED BY <3>3, Zenon
  <2>4. k < p \/ k = p \/ k > p
    BY <1>0, <1>1
  <2> QED BY <2>1, <2>2, <2>3, <2>4, Zenon
<1>7. ASSUME NEW k \in 1 .. N - w, d[k][1] \in Main!Valued, Len(d[k]) # 2
      PROVE  k < N - w /\ Was(p, w, k + 1) = Was(p, w, k) + 1 /\ d[k + 1] = c[Was(p, w, k) + 1]
             /\ Len(d[k + 1]) = 1
  <2> DEFINE j == Was(p, w, k)
  <2>1. j \in 1 .. N /\ d[k] = c[j]
    BY <1>1
  <2> HIDE DEF j
  <2>2. j < N /\ Len(c[j + 1]) = 1
    BY <1>2, <1>7, <2>1
  <2>3. Len(c[j]) = 1 /\ c[j + 1][1] \notin Main!Options
    BY <1>7, <2>1, ValueText DEF N
  <2>4. k + 1 # p
    <3> SUFFICES ASSUME k + 1 = p PROVE FALSE
      OBVIOUS
    <3>1. j = k
      BY <1>0, <1>1 DEF j, Was
    <3> QED BY <1>0, <1>3, <2>3, <3>1
  <2>5. k < N - w
    BY <1>0, <1>1, <2>2, <2>4 DEF j, Was
  <2>6. Was(p, w, k + 1) = j + 1
    BY <1>0, <1>1, <2>4 DEF j, Was
  <2>7. d[k + 1] = c[j + 1]
    BY <1>0, <1>1, <2>5, <2>6
  <2> QED BY <2>2, <2>5, <2>6, <2>7 DEF j
<1>8. Main!IsCorrect(d)
  <2> SUFFICES ASSUME NEW k \in 1 .. N - w
               PROVE  /\ d[k][1] \in Main!Flags => Len(d[k]) = 1
                      /\ d[k][1] \in Main!Valued => Len(d[k]) = 2 \/ (k < N - w /\ Len(d[k + 1]) = 1)
                      /\ (k > 1 /\ Single(d, k - 1)) <=> d[k][1] \notin Main!Options
    <3>1. DOMAIN d = 1 .. N - w
      BY <1>1
    <3> QED BY <1>1, <3>1 DEF Main!IsCorrect, Main!IsValue
  <2> DEFINE j == Was(p, w, k)
  <2>1. j \in 1 .. N /\ d[k] = c[j]
    BY <1>1
  <2>2. k > 1 /\ Single(d, k - 1) <=> j > 1 /\ Single(c, j - 1)
    BY <1>6
  <2>3. d[k][1] \in Main!Valued => Len(d[k]) = 2 \/ (k < N - w /\ Len(d[k + 1]) = 1)
    BY <1>7
  <2> HIDE DEF j, Single
  <2> QED BY <1>2, <2>1, <2>2, <2>3
<1>9. ASSUME NEW k \in 1 .. Len(d), d[k][1] \in Main!Valued
      PROVE  Main!ValueAt(d, k) = Main!ValueAt(c, Was(p, w, k))
  <2>1. k \in 1 .. N - w
    BY <1>1
  <2>2. d[k] = c[Was(p, w, k)]
    BY <1>1, <2>1
  <2>3. CASE Len(d[k]) = 2
    BY <2>2, <2>3 DEF Main!ValueAt
  <2>4. CASE Len(d[k]) # 2
    <3>1. d[k + 1] = c[Was(p, w, k) + 1]
      BY <1>7, <1>9, <2>1, <2>4
    <3> QED BY <2>2, <2>4, <3>1 DEF Main!ValueAt
  <2> QED BY <2>3, <2>4
<1> QED BY <1>1, <1>8, <1>9 DEF Line, d

\* Appending to the second part of a sequence.
AppendsBehind(S) == \A s, t \in Seq(S) : \A e \in S : Append(s \o t, e) = s \o Append(t, e)
LEMMA AppendBehind == ASSUME NEW S PROVE AppendsBehind(S)
<1> SUFFICES ASSUME NEW s \in Seq(S), NEW t \in Seq(S), NEW e \in S
             PROVE  Append(s \o t, e) = s \o Append(t, e)
  BY DEF AppendsBehind
<1>1. s \o t \in Seq(S) /\ <<e>> \in Seq(S)
  OBVIOUS
<1>2. Append(s \o t, e) = (s \o t) \o <<e>> /\ Append(t, e) = t \o <<e>>
  BY <1>1, AppendIsConcat
<1>3. (s \o t) \o <<e>> = s \o (t \o <<e>>)
  BY <1>1, ConcatAssociative
<1> QED BY <1>2, <1>3, Zenon

\* Taking an option takes the first of the values given to it, and nothing
\* from those given to the others.
LEMMA TakenGiven ==
    ASSUME NEW W, NEW T, Words(W, T), NEW c, Line(W, c), NEW name, NEW p, NEW w, FirstPlace(c, name, p, w),
           NEW n \in Main!Valued
    PROVE  /\ Main!Given(c, n) = (IF n = name THEN <<Main!ValueAt(c, p)>> ELSE <<>>) \o Main!Given(Without(c, p, w), n)
           /\ Main!Given(Without(c, p, w), n) \in Seq(T) /\ Main!ValueAt(c, p) \in T
<1> DEFINE d == Without(c, p, w)
           N == Len(c)
           M == Len(d)
           V(k) == Main!ValueAt(c, k)
           U(k) == Main!ValueAt(d, k)
           pre == IF n = name THEN <<V(p)>> ELSE <<>>
<1>1. PICK g : Gathers(T, c, n, g) /\ Main!Given(c, n) = g[N]
  BY GivenFacts
<1>2. Line(W, d) /\ \A k \in 1 .. M : d[k][1] \in Main!Valued => U(k) = V(Was(p, w, k))
  BY WithoutLine
<1>3. PICK h : Gathers(T, d, n, h) /\ Main!Given(d, n) = h[M]
  <2> HIDE DEF d
  <2> QED BY <1>2, GivenFacts
<1>4. /\ w \in {1, 2} /\ p + w - 1 <= N /\ M = N - w
      /\ \A k \in 1 .. M : d[k] = c[Was(p, w, k)]
      /\ w = 2 => c[p + 1][1] \notin Main!Options
  <2>1. /\ p + w - 1 <= Len(c) /\ w \in {1, 2}
        /\ Len(Without(c, p, w)) = Len(c) - w
        /\ \A k \in 1 .. Len(c) - w : Without(c, p, w)[k] = c[Was(p, w, k)]
        /\ w = 2 => c[p + 1][1] \notin Main!Options
    BY WithoutSeq
  <2> QED BY <2>1
<1>5. /\ N \in Nat /\ p \in 1 .. N /\ c[p][1] = name /\ name \in Main!Valued /\ n \in Main!Options
      /\ \A j \in 1 .. p - 1 : c[j][1] # name
  BY DEF Line, FirstPlace, Main!Options
<1>6. V(p) \in T
  BY <1>5, ValueText
<1>0. AppendsBehind(T)
  BY AppendBehind
<1> HIDE DEF d, N, M, V, U
<1>7. /\ g \in [0 .. N -> Seq(T)] /\ g[0] = <<>>
      /\ \A k \in 1 .. N : g[k] = IF c[k][1] = n THEN Append(g[k - 1], V(k)) ELSE g[k - 1]
  BY <1>1 DEF Gathers, N, V
<1>8. /\ h \in [0 .. M -> Seq(T)] /\ h[0] = <<>>
      /\ \A k \in 1 .. M : h[k] = IF d[k][1] = n THEN Append(h[k - 1], U(k)) ELSE h[k - 1]
  BY <1>3 DEF Gathers, M, U
<1>9. ASSUME NEW k \in 1 .. M, d[k][1] = n PROVE U(k) = V(Was(p, w, k)) /\ U(k) \in T
  <2>1. U(k) = V(Was(p, w, k))
    BY <1>2, <1>9
  <2>2. U(k) \in T
    BY <1>2, <1>9, ValueText DEF M, U
  <2> QED BY <2>1, <2>2
<1>10. pre \in Seq(T)
  BY <1>6
<1> DEFINE FrontSame(k) == k <= p - 1 => h[k] = g[k] /\ (n = name => g[k] = <<>>)
           RestMoved(k) == k >= p - 1 => g[k + w] = pre \o h[k]
           S == {k \in Nat : k <= M => FrontSame(k) /\ RestMoved(k)}
<1> HIDE DEF pre
\* Where the option stood.
<1>11. ASSUME h[p - 1] = g[p - 1], n = name => g[p - 1] = <<>>, p - 1 <= M
       PROVE  RestMoved(p - 1)
  <2>1. p \in 1 .. N /\ p - 1 \in 0 .. N /\ p - 1 \in 0 .. M /\ (p - 1) + w = IF w = 1 THEN p ELSE p + 1
    BY <1>4, <1>5
  <2>2. g[p] = pre \o h[p - 1]
    <3>1. g[p] = IF c[p][1] = n THEN Append(g[p - 1], V(p)) ELSE g[p - 1]
      BY <1>7, <2>1
    <3>2. CASE n = name
      <4>1. g[p] = <<V(p)>> /\ h[p - 1] = <<>>
        <5>1. g[p] = Append(<<>>, V(p)) /\ h[p - 1] = <<>>
          BY <1>5, <1>11, <3>1, <3>2
        <5>2. \A e \in T : Append(<<>>, e) = <<e>>
          OBVIOUS
        <5> QED BY <1>6, <5>1, <5>2
      <4>2. pre = <<V(p)>> /\ <<V(p)>> \o <<>> = <<V(p)>>
        <5>1. <<V(p)>> \in Seq(T)
          BY <1>6
        <5> QED BY <3>2, <5>1, ConcatEmptySeq DEF pre
      <4> QED BY <4>1, <4>2
    <3>3. CASE n # name
      <4>1. g[p] = h[p - 1] /\ pre = <<>>
        BY <1>5, <1>11, <3>1, <3>3 DEF pre
      <4>2. h[p - 1] \in Seq(T)
        BY <1>8, <2>1
      <4> QED BY <4>1, <4>2, ConcatEmptySeq
    <3> QED BY <3>2, <3>3
  <2>3. w = 2 => g[p + 1] = g[p]
    <3> SUFFICES ASSUME w = 2 PROVE g[p + 1] = g[p]
      OBVIOUS
    <3>1. p + 1 \in 1 .. N /\ (p + 1) - 1 = p /\ c[p + 1][1] # n
      BY <1>4, <1>5
    <3> QED BY <1>7, <3>1
  <2> QED BY <1>4, <2>1, <2>2, <2>3
<1>12. 0 \in S
  <2>1. FrontSame(0)
    BY <1>7, <1>8
  <2>2. 0 <= M => RestMoved(0)
    <3> SUFFICES ASSUME 0 <= M, 0 >= p - 1 PROVE g[0 + w] = pre \o h[0]
      OBVIOUS
    <3>1. p - 1 = 0
      BY <1>5
    <3>2. RestMoved(p - 1)
      BY <1>7, <1>8, <1>11, <3>1
    <3> QED BY <3>1, <3>2
  <2> QED BY <2>1, <2>2
<1>13. ASSUME NEW k \in Nat, k \in S PROVE k + 1 \in S
  <2> SUFFICES ASSUME k + 1 <= M PROVE FrontSame(k + 1) /\ RestMoved(k + 1)
    OBVIOUS
  <2> DEFINE j == k + 1
  <2>1. j \in 1 .. M /\ j - 1 = k /\ k \in 0 .. M /\ k <= M /\ M \in Nat
    BY <1>4, <1>5
  <2>2. FrontSame(k) /\ RestMoved(k)
    BY <1>13, <2>1
  <2>3. h[j] = IF d[j][1] = n THEN Append(h[k], U(j)) ELSE h[k]
    BY <1>8, <2>1
  <2> HIDE DEF j
  <2>4. FrontSame(j)
    <3> SUFFICES ASSUME j <= p - 1 PROVE h[j] = g[j] /\ (n = name => g[j] = <<>>)
      OBVIOUS
    <3>1. j \in 1 .. N /\ j \in 1 .. p - 1 /\ Was(p, w, j) = j /\ k <= p - 1
      BY <1>4, <1>5, <2>1 DEF Was
    <3>2. d[j] = c[j] /\ (d[j][1] = n => U(j) = V(j))
      BY <1>4, <1>9, <2>1, <3>1
    <3>3. g[j] = IF c[j][1] = n THEN Append(g[k], V(j)) ELSE g[k]
      BY <1>7, <2>1, <3>1
    <3>4. h[k] = g[k] /\ (n = name => g[k] = <<>>)
      BY <2>2, <3>1
    <3>5. h[j] = g[j]
      BY <2>3, <3>2, <3>3, <3>4
    <3>6. n = name => c[j][1] # n
      BY <1>5, <3>1
    <3> QED BY <3>3, <3>4, <3>5, <3>6
  <2>5. RestMoved(j)
    <3>1. CASE j = p - 1
      <4>1. h[p - 1] = g[p - 1] /\ (n = name => g[p - 1] = <<>>)
        BY <2>1, <2>4, <3>1, <1>5
      <4>2. p - 1 <= M
        BY <2>1, <3>1
      <4> HIDE DEF RestMoved, FrontSame
      <4>3. RestMoved(p - 1)
        BY <1>11, <4>1, <4>2
      <4> QED BY <3>1, <4>3
    <3>2. CASE j >= p
      <4>1. /\ j + w \in 1 .. N /\ (j + w) - 1 = k + w /\ Was(p, w, j) = j + w /\ k >= p - 1
        BY <1>4, <1>5, <2>1, <3>2 DEF Was
      <4>2. d[j] = c[j + w] /\ (d[j][1] = n => U(j) = V(j + w) /\ U(j) \in T)
        BY <1>4, <1>9, <2>1, <4>1
      <4>3. g[j + w] = IF c[j + w][1] = n THEN Append(g[k + w], V(j + w)) ELSE g[k + w]
        BY <1>7, <4>1
      <4>4. g[k + w] = pre \o h[k] /\ h[k] \in Seq(T)
        BY <1>8, <2>1, <2>2, <4>1
      <4>5. CASE d[j][1] = n
        <5>1. g[j + w] = Append(pre \o h[k], U(j)) /\ h[j] = Append(h[k], U(j)) /\ U(j) \in T
          BY <2>3, <4>2, <4>3, <4>4, <4>5
        <5>2. Append(pre \o h[k], U(j)) = pre \o Append(h[k], U(j))
          BY <1>0, <1>10, <4>4, <5>1, Zenon DEF AppendsBehind
        <5> QED BY <5>1, <5>2
      <4>6. CASE d[j][1] # n
        BY <2>3, <4>2, <4>3, <4>4, <4>6
      <4> QED BY <4>5, <4>6
    <3>3. j < p - 1 \/ j = p - 1 \/ j >= p
      BY <1>5, <2>1
    <3>4. CASE j < p - 1
      BY <1>5, <2>1, <3>4
    <3> HIDE DEF RestMoved
    <3> QED BY <3>1, <3>2, <3>3, <3>4, Zenon
  <2> QED BY <2>4, <2>5 DEF j
<1>14. Nat \subseteq S
  <2> HIDE DEF S
  <2>1. S \subseteq Nat
    BY DEF S
  <2> QED BY <1>12, <1>13, <2>1, Induct
<1>15. M \in Nat /\ M >= p - 1 /\ M + w = N /\ M \in 0 .. M
  BY <1>4, <1>5
<1>16. g[N] = pre \o h[M]
  <2>1. RestMoved(M)
    BY <1>14, <1>15
  <2> QED BY <1>15, <2>1
<1>17. h[M] \in Seq(T)
  BY <1>8, <1>15
<1> QED BY <1>1, <1>3, <1>6, <1>16, <1>17 DEF d, V, pre

\* An option that is not on the line is given nothing.
LEMMA NoneGiven ==
    ASSUME NEW W, NEW T, Words(W, T), NEW c, Line(W, c), NEW n \in Main!Valued,
           \A k \in 1 .. Len(c) : c[k][1] # n
    PROVE  Main!Given(c, n) = <<>>
<1>1. PICK g : Gathers(T, c, n, g) /\ Main!Given(c, n) = g[Len(c)]
  BY GivenFacts
<1> DEFINE N == Len(c)
           S == {k \in Nat : k <= N => g[k] = <<>>}
<1>2. N \in Nat
  BY DEF Line
<1>3. g[0] = <<>> /\ \A k \in 1 .. N : g[k] = g[k - 1]
  BY <1>1 DEF Gathers
<1> HIDE DEF N
<1>4. 0 \in S
  BY <1>3
<1>5. ASSUME NEW k \in Nat, k \in S PROVE k + 1 \in S
  <2>1. k + 1 <= N => k + 1 \in 1 .. N /\ (k + 1) - 1 = k /\ k <= N
    BY <1>2
  <2> QED BY <1>3, <1>5, <2>1
<1>6. Nat \subseteq S
  <2> HIDE DEF S
  <2>1. S \subseteq Nat
    BY DEF S
  <2> QED BY <1>4, <1>5, <2>1, Induct
<1>7. g[N] = <<>>
  BY <1>2, <1>6
<1> QED BY <1>1, <1>7 DEF N

\* Where main stands: before an option is read, and behind all readings.
AtInbound == {"help", "-i"}
AtOutbound == AtInbound \cup {"-o"}
AtLog == AtOutbound \cup {"--log"}
AtFilter == AtLog \cup {"--filter"}
Built == {"inbound", "outbound", "filters", "running"}

ArgWords == {argv[k] : k \in DOMAIN argv}
Texts == {argv[k][1] : k \in DOMAIN argv} \cup {argv[k][2] : k \in DOMAIN argv}

\* While a correct line is read: the rest is correct, without flags, and what
\* was read of each option and what is left of it are what was given to it.
Reading ==
    /\ Line(ArgWords, args)
    /\ mainPc # "help" => \A k \in 1 .. Len(args) : args[k][1] \notin Main!Flags
    /\ Main!Given(argv, "-i")
       = (IF mainPc \in AtInbound THEN <<>> ELSE <<inboundConfig>>) \o Main!Given(args, "-i")
    /\ Main!Given(argv, "-o")
       = (IF mainPc \in AtOutbound THEN <<>> ELSE <<outboundConfig>>) \o Main!Given(args, "-o")
    /\ IF mainPc \in AtLog THEN Main!Given(argv, "--log") = Main!Given(args, "--log")
       ELSE \/ Main!Given(args, "--log") = <<>>
            \/ Len(Main!Given(argv, "--log")) = Len(Main!Given(args, "--log")) + 1
    /\ filterConfigs \in Seq(Texts)
    /\ mainPc \in AtFilter => Main!Given(argv, "--filter") = filterConfigs \o Main!Given(args, "--filter")
    /\ mainPc \in Built /\ Main!NoEmpty =>
          Main!Given(argv, "--filter") = filterConfigs /\ Main!Given(args, "--filter") = <<>>

\* The filters built are the first of those that were read.
Chained ==
    /\ chain \in Seq(Texts) /\ Len(chain) <= Len(filterConfigs)
    /\ \A k \in 1 .. Len(chain) : chain[k] = filterConfigs[k]
    /\ mainPc \notin {"filters", "running"} => chain = <<>>
    /\ mainPc = "running" => Len(chain) = Len(filterConfigs)

StartInv ==
    /\ argv \in CommandLines
    /\ mainPc \in AtFilter \cup Built /\ Main!Correct => Reading /\ Chained

\* The arguments of a command line have one of the two forms.
LEMMA ArgWordsOK == ASSUME Main!CommandLinesAssumption, argv \in CommandLines
    PROVE Words(ArgWords, Texts) /\ argv \in Seq(ArgWords)
<1>1. argv \in Seq(ArgWords) /\ \A k \in DOMAIN argv : argv[k] = <<argv[k][1]>> \/ argv[k] = <<argv[k][1], argv[k][2]>>
  BY DEF Main!CommandLinesAssumption, ArgWords
<1> QED BY <1>1 DEF Words, ArgWords, Texts

\* The argument that is found is the first.
LEMMA FoundFirst ==
    ASSUME NEW n \in Main!Valued, NEW W, args \in Seq(W), Main!Has(n)
    PROVE  FirstPlace(args, n, Main!pos(n), Main!Width(n))
<1> DEFINE P == Main!Where(n)
<1>1. DOMAIN args = 1 .. Len(args) /\ Len(args) \in Nat
  OBVIOUS
<1>2. P \subseteq Nat /\ P # {} /\ P = {k \in 1 .. Len(args) : args[k][1] = n}
  BY <1>1 DEF Main!Has, Main!Where
<1>3. \E k \in P : \A j \in P : k <= j
  <2> HIDE DEF P
  <2> QED BY <1>2, Smallest
<1>4. Main!pos(n) \in P /\ \A j \in P : Main!pos(n) <= j
  BY <1>3, Zenon DEF Main!pos
<1> DEFINE p == Main!pos(n)
<1> HIDE DEF P, p
<1>5. p \in 1 .. Len(args) /\ args[p][1] = n /\ \A j \in 1 .. p - 1 : args[j][1] # n
  <2>1. p \in P /\ \A j \in P : p <= j
    BY <1>4 DEF p
  <2>2. ASSUME NEW j \in 1 .. p - 1, args[j][1] = n PROVE FALSE
    <3>1. p \in 1 .. Len(args)
      BY <1>2, <2>1
    <3>2. j \in 1 .. Len(args) /\ ~(p <= j)
      BY <1>1, <3>1
    <3>3. j \in P
      BY <1>2, <2>2, <3>2
    <3> QED BY <2>1, <3>2, <3>3
  <2> QED BY <1>2, <2>1, <2>2
<1>6. Main!Width(n) = IF Len(args[p]) = 2 THEN 1 ELSE 2
  BY DEF Main!Width, Main!useEqualSym, p
<1> QED BY <1>5, <1>6 DEF FirstPlace, p

\* Reading an option takes its first value, which it returns.
LEMMA TakeOne ==
    ASSUME Main!CommandLinesAssumption, argv \in CommandLines, Line(ArgWords, args),
           NEW n \in Main!Valued, Main!Has(n), Main!Erase(n)
    PROVE  /\ Line(ArgWords, args')
           /\ \A k \in 1 .. Len(args') : \E j \in 1 .. Len(args) : args'[k] = args[j]
           /\ Main!Value(n) \in Texts
           /\ Main!Given(args, n) = <<Main!Value(n)>> \o Main!Given(args', n)
           /\ \A m \in Main!Valued : /\ Main!Given(args', m) \in Seq(Texts)
                                     /\ m # n => Main!Given(args, m) = Main!Given(args', m)
<1> DEFINE p == Main!pos(n)
           w == Main!Width(n)
           W == ArgWords
           T == Texts
<1>1. Words(W, T)
  BY ArgWordsOK
<1>2. FirstPlace(args, n, p, w)
  <2>1. args \in Seq(W)
    BY DEF Line
  <2> QED BY <2>1, FoundFirst
<1>3. args' = Without(args, p, w)
  BY DEF Main!Erase, Without
<1>4. Main!Value(n) = Main!ValueAt(args, p)
  <2>1. p \in 1 .. Len(args) /\ args[p][1] \in Main!Valued
    BY <1>2 DEF FirstPlace
  <2> HIDE DEF p, W, T
  <2>2. Len(args[p]) # 2 => Len(args[p + 1]) = 1
    BY <1>1, <2>1, ValueText DEF W
  <2> QED BY <2>2 DEF Main!Value, Main!ValueAt, Main!useEqualSym, p
<1> HIDE DEF p, w, W, T
<1>5. Line(W, args)
  BY DEF W
<1>6. Line(W, Without(args, p, w))
  BY <1>1, <1>2, <1>5, WithoutLine
<1>7. /\ Len(Without(args, p, w)) = Len(args) - w
      /\ \A k \in 1 .. Len(args) - w : Was(p, w, k) \in 1 .. Len(args) /\ Without(args, p, w)[k] = args[Was(p, w, k)]
  BY <1>1, <1>2, <1>5, WithoutSeq
<1>8. \A k \in 1 .. Len(Without(args, p, w)) : \E j \in 1 .. Len(args) : Without(args, p, w)[k] = args[j]
  BY <1>7
<1>9. ASSUME NEW m \in Main!Valued
      PROVE  /\ Main!Given(args, m) = (IF m = n THEN <<Main!ValueAt(args, p)>> ELSE <<>>) \o Main!Given(Without(args, p, w), m)
             /\ Main!Given(Without(args, p, w), m) \in Seq(T) /\ Main!ValueAt(args, p) \in T
  BY <1>1, <1>2, <1>5, TakenGiven
<1>10. \A s \in Seq(T) : <<>> \o s = s
  BY ConcatEmptySeq
<1> DEFINE d == Without(args, p, w)
<1> HIDE DEF d
<1>11. /\ Main!Given(args, n) = <<Main!ValueAt(args, p)>> \o Main!Given(d, n)
       /\ Main!ValueAt(args, p) \in T
  BY <1>9 DEF d
<1>12. \A m \in Main!Valued : Main!Given(d, m) \in Seq(T) /\ (m # n => Main!Given(args, m) = Main!Given(d, m))
  BY <1>9, <1>10 DEF d
<1> QED BY <1>3, <1>4, <1>6, <1>8, <1>11, <1>12 DEF d, W, T

\* What is left for an option is a sequence, empty when there is none.
LEMMA LeftFacts ==
    ASSUME Main!CommandLinesAssumption, argv \in CommandLines, NEW c, Line(ArgWords, c), NEW n \in Main!Valued
    PROVE  /\ Main!Given(c, n) \in Seq(Texts)
           /\ (\A k \in 1 .. Len(c) : c[k][1] # n) => Main!Given(c, n) = <<>>
<1>1. Words(ArgWords, Texts)
  BY ArgWordsOK
<1>2. PICK g : Gathers(Texts, c, n, g) /\ Main!Given(c, n) = g[Len(c)]
  BY <1>1, GivenFacts
<1>3. Len(c) \in 0 .. Len(c) /\ g \in [0 .. Len(c) -> Seq(Texts)]
  BY <1>2 DEF Gathers, Line
<1>4. (\A k \in 1 .. Len(c) : c[k][1] # n) => Main!Given(c, n) = <<>>
  BY <1>1, NoneGiven
<1> QED BY <1>2, <1>3, <1>4

\* Nothing was read when the program starts.
LEMMA StartInit == ASSUME Main!CommandLinesAssumption, Main!Init PROVE StartInv
<1>1. argv \in CommandLines /\ args = argv /\ mainPc = "help" /\ filterConfigs = <<>> /\ chain = <<>>
  BY DEF Main!Init
<1> SUFFICES ASSUME Main!Correct PROVE Reading /\ Chained
  BY <1>1 DEF StartInv
<1>2. Line(ArgWords, args)
  BY <1>1, ArgWordsOK DEF Line, Main!Correct
<1>3. \A n \in Main!Valued : Main!Given(args, n) \in Seq(Texts)
  BY <1>1, <1>2, LeftFacts
<1>4. \A n \in Main!Valued : Main!Given(args, n) = <<>> \o Main!Given(args, n)
  BY <1>3, ConcatEmptySeq
<1>5. {"-i", "-o", "--log", "--filter"} \subseteq Main!Valued
  BY DEF Main!Valued
<1>6. <<>> \in Seq(Texts) /\ Len(<<>>) = 0
  OBVIOUS
<1>7. Reading
  BY <1>1, <1>2, <1>4, <1>5, <1>6, Zenon DEF Reading, AtInbound, AtOutbound, AtLog, AtFilter, Built
<1>8. Chained
  BY <1>1, <1>6 DEF Chained
<1> QED BY <1>7, <1>8

\* What is not found is not there.
LEMMA NotFound == ASSUME Main!CommandLinesAssumption, argv \in CommandLines, Line(ArgWords, args),
                         NEW n \in Main!Valued
    PROVE  Main!Has(n) <=> Main!Given(args, n) # <<>>
<1>1. DOMAIN args = 1 .. Len(args)
  BY DEF Line
<1>2. ASSUME ~Main!Has(n) PROVE Main!Given(args, n) = <<>>
  <2>1. \A k \in 1 .. Len(args) : args[k][1] # n
    BY <1>1, <1>2 DEF Main!Has, Main!Where
  <2> QED BY <2>1, LeftFacts
<1>3. ASSUME Main!Has(n) PROVE Main!Given(args, n) # <<>>
  <2> DEFINE p == Main!pos(n)
             w == Main!Width(n)
             d == Without(args, p, w)
             x == Main!ValueAt(args, p)
  <2>1. Words(ArgWords, Texts)
    BY ArgWordsOK
  <2>2. FirstPlace(args, n, p, w)
    <3>1. args \in Seq(ArgWords)
      BY DEF Line
    <3> QED BY <1>3, <3>1, FoundFirst
  <2> HIDE DEF p, w
  <2>3. Main!Given(args, n) = <<x>> \o Main!Given(d, n) /\ Main!Given(d, n) \in Seq(Texts) /\ x \in Texts
    <3>1. /\ Main!Given(args, n) = (IF n = n THEN <<Main!ValueAt(args, p)>> ELSE <<>>)
                                   \o Main!Given(Without(args, p, w), n)
          /\ Main!Given(Without(args, p, w), n) \in Seq(Texts) /\ Main!ValueAt(args, p) \in Texts
      BY <2>1, <2>2, TakenGiven
    <3> QED BY <3>1
  <2> DEFINE y == Main!Given(d, n)
  <2> HIDE DEF x, d, y
  <2>4. Len(<<x>> \o y) = Len(<<x>>) + Len(y) /\ Len(<<x>>) = 1 /\ Len(y) \in Nat
    BY <2>3 DEF y
  <2> QED BY <2>3, <2>4 DEF y
<1> QED BY <1>2, <1>3

\* Behind the flags there is none.
LEMMA HelpStep ==
    ASSUME Main!CommandLinesAssumption, argv \in CommandLines, Reading, Chained, Main!CheckHelp, mainPc' = "-i"
    PROVE  Reading' /\ Chained'
<1>1. mainPc = "help" /\ UNCHANGED <<argv, args, inboundConfig, outboundConfig, filterConfigs, chain>>
  BY DEF Main!CheckHelp, Main!line, Main!configs
<1>2. \A f \in Main!Flags : ~Main!Defined(f)
  BY DEF Main!CheckHelp
<1>3. ASSUME NEW k \in 1 .. Len(args) PROVE args[k][1] \notin Main!Flags
  <2> SUFFICES ASSUME args[k][1] \in Main!Flags PROVE FALSE
    OBVIOUS
  <2>1. k \in DOMAIN args /\ args[k] \in ArgWords
    BY DEF Reading, Line
  <2>2. Len(args[k]) = 1
    BY <2>1 DEF Reading, Line, Main!IsCorrect
  <2>3. args[k] = <<args[k][1]>>
    BY <2>1, <2>2, ArgWordsOK, WordLength
  <2> QED BY <1>2, <2>1, <2>3 DEF Main!Defined
<1>4. Reading'
  BY <1>1, <1>3 DEF Reading, AtInbound, AtOutbound, AtLog, AtFilter, Built, ArgWords, Texts, Main!NoEmpty
<1>5. Chained'
  BY <1>1 DEF Chained, Texts
<1> QED BY <1>4, <1>5

\* The first -i is read.
LEMMA InboundStep ==
    ASSUME Main!CommandLinesAssumption, argv \in CommandLines, Reading, Chained,
           Main!TakeRequired("-i", "-o"), mainPc' = "-o"
    PROVE  Reading' /\ Chained'
<1> DEFINE n == "-i"
<1>1. /\ mainPc = "-i" /\ UNCHANGED <<argv, outboundConfig, filterConfigs, chain>>
      /\ Main!Has(n) /\ Main!Erase(n) /\ inboundConfig' = Main!Value(n)
  BY DEF Main!TakeRequired, Main!line, Main!Throw, Main!ThrowDangling
<1>2. n \in Main!Valued /\ {"-i", "-o", "--log", "--filter"} \subseteq Main!Valued
  BY DEF Main!Valued
<1>3. Line(ArgWords, args)
  BY DEF Reading
<1>4. /\ Line(ArgWords, args')
      /\ \A k \in 1 .. Len(args') : \E j \in 1 .. Len(args) : args'[k] = args[j]
      /\ Main!Given(args, n) = <<Main!Value(n)>> \o Main!Given(args', n)
      /\ \A m \in Main!Valued : m # n => Main!Given(args, m) = Main!Given(args', m)
  BY <1>1, <1>2, <1>3, TakeOne
<1>5. \A k \in 1 .. Len(args') : args'[k][1] \notin Main!Flags
  BY <1>1, <1>4 DEF Reading
<1>6. Main!Given(argv, n) = <<inboundConfig'>> \o Main!Given(args', n)
  <2>1. Main!Given(argv, n) = <<>> \o Main!Given(args, n)
    BY <1>1 DEF Reading, AtInbound, AtOutbound
  <2>2. Main!Given(args, n) \in Seq(Texts)
    BY <1>2, <1>3, LeftFacts
  <2>3. Main!Given(argv, n) = Main!Given(args, n)
    BY <2>1, <2>2, ConcatEmptySeq
  <2> QED BY <1>1, <1>4, <2>3
<1>7. /\ Main!Given(args, "-o") = Main!Given(args', "-o")
      /\ Main!Given(args, "--log") = Main!Given(args', "--log")
      /\ Main!Given(args, "--filter") = Main!Given(args', "--filter")
  <2>1. n # "-o" /\ n # "--log" /\ n # "--filter"
    OBVIOUS
  <2> QED BY <1>2, <1>4, <2>1
<1>8. Reading'
  <2> HIDE DEF n
  <2>1. ArgWords' = ArgWords /\ Texts' = Texts
    BY <1>1 DEF ArgWords, Texts
  <2>2. mainPc' # "help" /\ mainPc' \notin AtInbound /\ mainPc' \in AtLog /\ mainPc' \in AtFilter /\ mainPc' \notin Built
    BY DEF AtInbound, AtOutbound, AtLog, AtFilter, Built
  <2>3. mainPc \in AtLog /\ mainPc \in AtFilter /\ mainPc \notin Built
    BY <1>1 DEF AtInbound, AtOutbound, AtLog, AtFilter, Built
  <2>4. mainPc \in AtOutbound /\ mainPc' \in AtOutbound
    BY <1>1 DEF AtInbound, AtOutbound
  <2>5. n = "-i"
    BY DEF n
  <2> QED BY <1>1, <1>4, <1>5, <1>6, <1>7, <2>1, <2>2, <2>3, <2>4, <2>5 DEF Reading
<1>9. Chained'
  BY <1>1 DEF Chained, Texts
<1> QED BY <1>8, <1>9

\* The first -o is read.
LEMMA OutboundStep ==
    ASSUME Main!CommandLinesAssumption, argv \in CommandLines, Reading, Chained,
           Main!TakeRequired("-o", "--log"), mainPc' = "--log"
    PROVE  Reading' /\ Chained'
<1> DEFINE n == "-o"
<1>1. /\ mainPc = "-o" /\ UNCHANGED <<argv, inboundConfig, filterConfigs, chain>>
      /\ Main!Has(n) /\ Main!Erase(n) /\ outboundConfig' = Main!Value(n)
  BY DEF Main!TakeRequired, Main!line, Main!Throw, Main!ThrowDangling
<1>2. n \in Main!Valued /\ {"-i", "-o", "--log", "--filter"} \subseteq Main!Valued
  BY DEF Main!Valued
<1>3. Line(ArgWords, args)
  BY DEF Reading
<1>4. /\ Line(ArgWords, args')
      /\ \A k \in 1 .. Len(args') : \E j \in 1 .. Len(args) : args'[k] = args[j]
      /\ Main!Given(args, n) = <<Main!Value(n)>> \o Main!Given(args', n)
      /\ \A m \in Main!Valued : m # n => Main!Given(args, m) = Main!Given(args', m)
  BY <1>1, <1>2, <1>3, TakeOne
<1>5. \A k \in 1 .. Len(args') : args'[k][1] \notin Main!Flags
  BY <1>1, <1>4 DEF Reading
<1>6. Main!Given(argv, n) = <<outboundConfig'>> \o Main!Given(args', n)
  <2>1. Main!Given(argv, n) = <<>> \o Main!Given(args, n)
    BY <1>1 DEF Reading, AtInbound, AtOutbound
  <2>2. Main!Given(args, n) \in Seq(Texts)
    BY <1>2, <1>3, LeftFacts
  <2>3. Main!Given(argv, n) = Main!Given(args, n)
    BY <2>1, <2>2, ConcatEmptySeq
  <2> QED BY <1>1, <1>4, <2>3
<1>7. /\ Main!Given(args, "-i") = Main!Given(args', "-i")
      /\ Main!Given(args, "--log") = Main!Given(args', "--log")
      /\ Main!Given(args, "--filter") = Main!Given(args', "--filter")
  <2>1. n # "-i" /\ n # "--log" /\ n # "--filter"
    OBVIOUS
  <2> QED BY <1>2, <1>4, <2>1
<1>8. Reading'
  <2> HIDE DEF n
  <2>1. ArgWords' = ArgWords /\ Texts' = Texts
    BY <1>1 DEF ArgWords, Texts
  <2>2. mainPc' # "help" /\ mainPc' \notin AtInbound /\ mainPc' \in AtLog /\ mainPc' \in AtFilter /\ mainPc' \notin Built
    BY DEF AtInbound, AtOutbound, AtLog, AtFilter, Built
  <2>3. mainPc \in AtLog /\ mainPc \in AtFilter /\ mainPc \notin Built
    BY <1>1 DEF AtInbound, AtOutbound, AtLog, AtFilter, Built
  <2>4. mainPc \notin AtInbound /\ mainPc' \notin AtOutbound
    BY <1>1 DEF AtInbound, AtOutbound
  <2>5. n = "-o"
    BY DEF n
  <2> QED BY <1>1, <1>4, <1>5, <1>6, <1>7, <2>1, <2>2, <2>3, <2>4, <2>5 DEF Reading
<1>9. Chained'
  BY <1>1 DEF Chained, Texts
<1> QED BY <1>8, <1>9

\* The first --log is read, if there is one.
LEMMA LogStep ==
    ASSUME Main!CommandLinesAssumption, argv \in CommandLines, Reading, Chained,
           Main!TakeLog, mainPc' = "--filter"
    PROVE  Reading' /\ Chained'
<1> DEFINE n == "--log"
<1>1. /\ mainPc = "--log" /\ UNCHANGED <<argv, inboundConfig, outboundConfig, filterConfigs, chain>>
      /\ \/ ~Main!Has(n) /\ UNCHANGED args
         \/ Main!Has(n) /\ Main!Erase(n)
  BY DEF Main!TakeLog, Main!line, Main!configs, Main!Throw, Main!ThrowDangling
<1>2. n \in Main!Valued /\ {"-i", "-o", "--log", "--filter"} \subseteq Main!Valued
  BY DEF Main!Valued
<1>3. Line(ArgWords, args)
  BY DEF Reading
<1>4. /\ Line(ArgWords, args')
      /\ \A k \in 1 .. Len(args') : \E j \in 1 .. Len(args) : args'[k] = args[j]
      /\ \A m \in Main!Valued : m # n => Main!Given(args, m) = Main!Given(args', m)
  <2>1. CASE UNCHANGED args
    BY <1>3, <2>1
  <2>2. CASE Main!Has(n) /\ Main!Erase(n)
    BY <1>2, <1>3, <2>2, TakeOne
  <2> QED BY <1>1, <2>1, <2>2
<1>5. \A k \in 1 .. Len(args') : args'[k][1] \notin Main!Flags
  BY <1>1, <1>4 DEF Reading
<1>6. \/ Main!Given(args', n) = <<>>
      \/ Len(Main!Given(argv, n)) = Len(Main!Given(args', n)) + 1
  <2>1. Main!Given(argv, n) = Main!Given(args, n)
    BY <1>1 DEF Reading, AtInbound, AtOutbound, AtLog
  <2>2. CASE ~Main!Has(n) /\ UNCHANGED args
    <3>1. Main!Given(args, n) = <<>>
      BY <1>2, <1>3, <2>2, NotFound
    <3> QED BY <2>2, <3>1
  <2>3. CASE Main!Has(n) /\ Main!Erase(n)
    <3> DEFINE x == Main!Value(n)
               y == Main!Given(args', n)
    <3>1. Main!Given(args, n) = <<x>> \o y /\ x \in Texts /\ y \in Seq(Texts)
      BY <1>2, <1>3, <2>3, TakeOne
    <3> HIDE DEF x, y
    <3>2. Len(<<x>> \o y) = Len(y) + 1
      BY <3>1
    <3> QED BY <2>1, <3>1, <3>2 DEF y
  <2> QED BY <1>1, <2>2, <2>3
<1>7. /\ Main!Given(args, "-i") = Main!Given(args', "-i")
      /\ Main!Given(args, "-o") = Main!Given(args', "-o")
      /\ Main!Given(args, "--filter") = Main!Given(args', "--filter")
  <2>1. n # "-i" /\ n # "-o" /\ n # "--filter"
    OBVIOUS
  <2> QED BY <1>2, <1>4, <2>1
<1>8. Reading'
  <2> HIDE DEF n
  <2>1. ArgWords' = ArgWords /\ Texts' = Texts
    BY <1>1 DEF ArgWords, Texts
  <2>2. mainPc' # "help" /\ mainPc' \notin AtInbound /\ mainPc' \notin AtOutbound /\ mainPc' \notin AtLog
        /\ mainPc' \in AtFilter /\ mainPc' \notin Built
    BY DEF AtInbound, AtOutbound, AtLog, AtFilter, Built
  <2>3. mainPc \notin AtInbound /\ mainPc \notin AtOutbound /\ mainPc \in AtFilter
    BY <1>1 DEF AtInbound, AtOutbound, AtLog, AtFilter, Built
  <2>4. n = "--log"
    BY DEF n
  <2> QED BY <1>1, <1>4, <1>5, <1>6, <1>7, <2>1, <2>2, <2>3, <2>4 DEF Reading
<1>9. Chained'
  BY <1>1 DEF Chained, Texts
<1> QED BY <1>8, <1>9

\* A --filter is read, and the first of those left is added to those read; the
\* loop ends when none is left, or at an empty text.
LEMMA FilterStep ==
    ASSUME Main!CommandLinesAssumption, argv \in CommandLines, Reading, Chained,
           Main!TakeFilter, mainPc' \in {"--filter", "inbound"}
    PROVE  Reading' /\ Chained'
<1> DEFINE n == "--filter"
           v == Main!Value(n)
<1>1. /\ mainPc = "--filter" /\ UNCHANGED <<argv, inboundConfig, outboundConfig, chain>>
      /\ \/ ~Main!Has(n) /\ mainPc' = "inbound" /\ UNCHANGED <<args, filterConfigs>>
         \/ Main!Has(n) /\ Main!Erase(n) /\ v = "" /\ mainPc' = "inbound" /\ UNCHANGED filterConfigs
         \/ Main!Has(n) /\ Main!Erase(n) /\ mainPc' = "--filter" /\ filterConfigs' = Append(filterConfigs, v)
  BY DEF Main!TakeFilter, Main!AfterEmpty, Main!Empty, Main!line, Main!configs, Main!Throw, Main!ThrowDangling
<1>2. n \in Main!Valued /\ {"-i", "-o", "--log", "--filter"} \subseteq Main!Valued
  BY DEF Main!Valued
<1>3. Line(ArgWords, args) /\ filterConfigs \in Seq(Texts) /\ Main!Given(argv, n) = filterConfigs \o Main!Given(args, n)
  BY <1>1 DEF Reading, AtFilter
<1>4. Main!Has(n) /\ Main!Erase(n) =>
      v \in Texts /\ Main!Given(args, n) = <<v>> \o Main!Given(args', n) /\ Main!Given(args', n) \in Seq(Texts)
  BY <1>2, <1>3, TakeOne
<1>5. /\ Line(ArgWords, args')
      /\ \A k \in 1 .. Len(args') : \E j \in 1 .. Len(args) : args'[k] = args[j]
      /\ \A m \in Main!Valued : m # n => Main!Given(args, m) = Main!Given(args', m)
  <2>1. CASE UNCHANGED args
    BY <1>3, <2>1
  <2>2. CASE Main!Has(n) /\ Main!Erase(n)
    BY <1>2, <1>3, <2>2, TakeOne
  <2> QED BY <1>1, <2>1, <2>2
<1>6. \A k \in 1 .. Len(args') : args'[k][1] \notin Main!Flags
  BY <1>1, <1>5 DEF Reading
<1>7. /\ Main!Given(args, "-i") = Main!Given(args', "-i")
      /\ Main!Given(args, "-o") = Main!Given(args', "-o")
      /\ Main!Given(args, "--log") = Main!Given(args', "--log")
  <2>1. n # "-i" /\ n # "-o" /\ n # "--log"
    OBVIOUS
  <2> QED BY <1>2, <1>5, <2>1
<1>8. filterConfigs' \in Seq(Texts)
  <2>1. CASE UNCHANGED filterConfigs
    BY <1>3, <2>1
  <2>2. CASE Main!Has(n) /\ Main!Erase(n) /\ filterConfigs' = Append(filterConfigs, v)
    <3>1. v \in Texts
      BY <1>4, <2>2
    <3> HIDE DEF v
    <3> QED BY <1>3, <2>2, <3>1, AppendProperties
  <2> QED BY <1>1, <2>1, <2>2
<1>9. mainPc' = "--filter" => Main!Given(argv, n) = filterConfigs' \o Main!Given(args', n)
  <2> SUFFICES ASSUME mainPc' = "--filter" PROVE Main!Given(argv, n) = filterConfigs' \o Main!Given(args', n)
    OBVIOUS
  <2> DEFINE y == Main!Given(args', n)
             c == filterConfigs
  <2>1. Main!Has(n) /\ Main!Erase(n) /\ filterConfigs' = Append(c, v)
    BY <1>1
  <2>2. v \in Texts /\ Main!Given(argv, n) = c \o (<<v>> \o y) /\ y \in Seq(Texts) /\ c \in Seq(Texts)
    BY <1>3, <1>4, <2>1
  <2> HIDE DEF v, y, c
  <2>3. <<v>> \in Seq(Texts) /\ Append(c, v) = c \o <<v>>
    BY <2>2, AppendIsConcat
  <2>4. (c \o <<v>>) \o y = c \o (<<v>> \o y)
    BY <2>2, <2>3, ConcatAssociative
  <2> QED BY <2>1, <2>2, <2>3, <2>4 DEF y
<1>10. mainPc' = "inbound" /\ Main!NoEmpty => Main!Given(argv, n) = filterConfigs' /\ Main!Given(args', n) = <<>>
  <2> SUFFICES ASSUME mainPc' = "inbound", Main!NoEmpty
               PROVE  Main!Given(argv, n) = filterConfigs' /\ Main!Given(args', n) = <<>>
    OBVIOUS
  <2>1. CASE ~Main!Has(n) /\ UNCHANGED <<args, filterConfigs>>
    <3>1. Main!Given(args, n) = <<>>
      BY <1>2, <1>3, <2>1, NotFound
    <3>2. filterConfigs \o <<>> = filterConfigs
      BY <1>3, ConcatEmptySeq
    <3> QED BY <1>3, <2>1, <3>1, <3>2
  <2>2. CASE Main!Has(n) /\ Main!Erase(n) /\ v = "" /\ UNCHANGED filterConfigs
    <3> DEFINE y == Main!Given(args', n)
               c == filterConfigs
               z == Main!Given(argv, n)
    <3>1. v \in Texts /\ z = c \o (<<v>> \o y) /\ y \in Seq(Texts) /\ c \in Seq(Texts)
      BY <1>3, <1>4, <2>2
    <3>2. \A j \in DOMAIN z : z[j] # ""
      BY <1>2 DEF Main!NoEmpty, Main!Empty
    <3> HIDE DEF v, y, c, z
    <3> DEFINE t == <<v>> \o y
    <3>3. t \in Seq(Texts) /\ Len(t) = 1 + Len(y) /\ t[1] = v /\ Len(y) \in Nat
      <4>1. <<v>> \in Seq(Texts) /\ Len(<<v>>) = 1 /\ <<v>>[1] = v
        BY <3>1
      <4>2. /\ t \in Seq(Texts) /\ Len(t) = Len(<<v>>) + Len(y)
            /\ \A i \in 1 .. Len(<<v>>) + Len(y) : t[i] = IF i <= Len(<<v>>) THEN <<v>>[i] ELSE y[i - Len(<<v>>)]
        BY <3>1, <4>1, ConcatProperties
      <4>3. Len(y) \in Nat
        BY <3>1
      <4> QED BY <4>1, <4>2, <4>3
    <3> HIDE DEF t
    <3>4. /\ z \in Seq(Texts) /\ Len(z) = Len(c) + Len(t)
          /\ \A i \in 1 .. Len(c) + Len(t) : z[i] = IF i <= Len(c) THEN c[i] ELSE t[i - Len(c)]
      <4>1. z = c \o t
        BY <3>1 DEF t
      <4> QED BY <3>1, <3>3, <4>1, ConcatProperties
    <3>5. Len(c) \in Nat /\ Len(c) + 1 \in 1 .. Len(c) + Len(t) /\ ~(Len(c) + 1 <= Len(c)) /\ (Len(c) + 1) - Len(c) = 1
      BY <3>1, <3>3
    <3>6. z[Len(c) + 1] = v /\ Len(c) + 1 \in DOMAIN z
      BY <3>3, <3>4, <3>5
    <3> QED BY <2>2, <3>2, <3>6
  <2> QED BY <1>1, <2>1, <2>2
<1>11. Reading'
  <2> HIDE DEF n, v
  <2>1. ArgWords' = ArgWords /\ Texts' = Texts /\ (Main!NoEmpty' <=> Main!NoEmpty)
    BY <1>1 DEF ArgWords, Texts, Main!NoEmpty
  <2>2. mainPc' # "help" /\ mainPc' \notin AtInbound /\ mainPc' \notin AtOutbound /\ mainPc' \notin AtLog
    BY DEF AtInbound, AtOutbound, AtLog, AtFilter, Built
  <2>3. mainPc \notin AtInbound /\ mainPc \notin AtOutbound /\ mainPc \notin AtLog
    BY <1>1 DEF AtInbound, AtOutbound, AtLog, AtFilter, Built
  <2>4. (mainPc' \in AtFilter => mainPc' = "--filter") /\ (mainPc' \in Built => mainPc' = "inbound")
    BY DEF AtInbound, AtOutbound, AtLog, AtFilter, Built
  <2>5. n = "--filter"
    BY DEF n
  <2> QED BY <1>1, <1>5, <1>6, <1>7, <1>8, <1>9, <1>10, <2>1, <2>2, <2>3, <2>4, <2>5 DEF Reading
<1>12. Chained'
  <2>1. chain' = <<>> /\ filterConfigs' \in Seq(Texts)' /\ mainPc' # "running"
    BY <1>1, <1>8 DEF Chained, Texts
  <2> QED BY <2>1 DEF Chained
<1> QED BY <1>11, <1>12

\* Behind the readings main builds the sockets and the filters, and runs.
LEMMA BuiltStep ==
    ASSUME Main!CommandLinesAssumption, argv \in CommandLines, Reading, Chained,
           \/ Main!Build(inboundConfig, "inbound", "outbound") \/ Main!Build(outboundConfig, "outbound", "filters")
           \/ Main!BuildFilter \/ Main!Run,
           mainPc' \in Built
    PROVE  Reading' /\ Chained'
<1>1. UNCHANGED <<argv, args, inboundConfig, outboundConfig, filterConfigs>> /\ mainPc \in Built
  BY DEF Main!Build, Main!BuildFilter, Main!Run, Main!line, Main!configs, Built
<1>2. Reading'
  <2>1. ArgWords' = ArgWords /\ Texts' = Texts /\ (Main!NoEmpty' <=> Main!NoEmpty)
    BY <1>1 DEF ArgWords, Texts, Main!NoEmpty
  <2>2. \A x \in Built : x # "help" /\ x \notin AtInbound /\ x \notin AtOutbound /\ x \notin AtLog /\ x \notin AtFilter
    BY DEF AtInbound, AtOutbound, AtLog, AtFilter, Built
  <2>3. /\ mainPc # "help" /\ mainPc \notin AtInbound /\ mainPc \notin AtOutbound /\ mainPc \notin AtLog
        /\ mainPc' \notin AtInbound /\ mainPc' \notin AtOutbound /\ mainPc' \notin AtLog /\ mainPc' \notin AtFilter
    BY <1>1, <2>2
  <2> QED BY <1>1, <2>1, <2>3 DEF Reading
<1>3. Texts' = Texts
  BY <1>1 DEF Texts
<1>4. ASSUME UNCHANGED chain PROVE mainPc' \notin {"filters", "running"} => chain' = <<>>
  BY <1>4 DEF Chained, Main!Build, Main!BuildFilter, Main!Run, Main!Refuse, Main!Throw, Built
<1>5. CASE Main!Build(inboundConfig, "inbound", "outbound") \/ Main!Build(outboundConfig, "outbound", "filters")
  <2>1. UNCHANGED chain /\ mainPc' # "running"
    BY <1>5 DEF Main!Build, Main!configs, Main!Refuse, Main!Throw, Built
  <2> QED BY <1>1, <1>2, <1>3, <1>4, <2>1 DEF Chained
<1>6. CASE Main!BuildFilter
  <2> DEFINE k == Len(chain)
             config == filterConfigs[k + 1]
  <2>1. mainPc' = "filters" /\ chain' = Append(chain, config) /\ k < Len(filterConfigs)
    BY <1>6 DEF Main!BuildFilter, Main!Refuse, Main!Throw, Built
  <2>2. k \in Nat /\ k + 1 \in 1 .. Len(filterConfigs) /\ Len(filterConfigs) \in Nat /\ config \in Texts
    <3>1. k \in Nat /\ Len(filterConfigs) \in Nat
      BY DEF Chained, Reading
    <3>2. k + 1 \in 1 .. Len(filterConfigs)
      BY <2>1, <3>1
    <3> HIDE DEF k
    <3> QED BY <3>1, <3>2, ElementOfSeq DEF Reading
  <2> HIDE DEF config
  <2>3. /\ chain' \in Seq(Texts) /\ Len(chain') = k + 1 /\ chain'[k + 1] = config
        /\ \A j \in 1 .. k : chain'[j] = chain[j]
    BY <2>1, <2>2, AppendProperties DEF Chained
  <2>4. \A j \in 1 .. k + 1 : chain'[j] = filterConfigs[j]
    <3> SUFFICES ASSUME NEW j \in 1 .. k + 1 PROVE chain'[j] = filterConfigs[j]
      OBVIOUS
    <3>1. CASE j = k + 1
      BY <2>3, <3>1 DEF config
    <3>2. CASE j \in 1 .. k
      BY <2>3, <3>2 DEF Chained
    <3> QED BY <2>2, <3>1, <3>2
  <2>5. k + 1 <= Len(filterConfigs)
    BY <2>2
  <2> QED BY <1>1, <1>2, <1>3, <2>1, <2>3, <2>4, <2>5 DEF Chained
<1>7. CASE Main!Run
  <2>1. UNCHANGED chain /\ mainPc' = "running" /\ Len(chain) = Len(filterConfigs)
    BY <1>7 DEF Main!Run, Main!configs
  <2> QED BY <1>1, <1>2, <1>3, <2>1 DEF Chained
<1> QED BY <1>5, <1>6, <1>7

\* Every step of main, as far as it goes on.
LEMMA StartNext == ASSUME Main!CommandLinesAssumption, StartInv, [Main!Next]_Main!vars PROVE StartInv'
<1>1. CASE UNCHANGED Main!vars
  BY <1>1 DEF Main!vars, StartInv, Reading, Chained, ArgWords, Texts, Main!Correct, Main!NoEmpty
<1>2. CASE Main!Next
  <2>1. argv' = argv
    BY <1>2 DEF Main!Next, Main!CheckHelp, Main!TakeRequired, Main!TakeLog, Main!TakeFilter, Main!Build,
                Main!BuildFilter, Main!Run, Main!Handle, Main!line
  <2>2. argv \in CommandLines /\ argv' \in CommandLines
    BY <2>1 DEF StartInv
  <2> SUFFICES ASSUME mainPc' \in AtFilter \cup Built, Main!Correct PROVE Reading' /\ Chained'
    BY <2>1, <2>2 DEF StartInv, Main!Correct
  <2> DEFINE Live == {"help", "-i", "-o", "--log", "--filter", "inbound", "outbound", "filters", "running"}
  <2>3. AtFilter \cup Built = Live
    BY DEF AtInbound, AtOutbound, AtLog, AtFilter, Built
  <2>4. mainPc \in Live => Reading /\ Chained
    BY <2>3, Zenon DEF StartInv
  <2>5. mainPc' \in Live
    BY <2>3
  <2>6. CASE Main!CheckHelp
    <3>1. mainPc = "help" /\ mainPc' = "-i"
      BY <2>5, <2>6 DEF Main!CheckHelp
    <3> QED BY <2>2, <2>4, <2>6, <3>1, HelpStep
  <2>7. CASE Main!TakeRequired("-i", "-o")
    <3>1. mainPc = "-i" /\ mainPc' = "-o"
      BY <2>5, <2>7 DEF Main!TakeRequired, Main!Throw, Main!ThrowDangling
    <3> QED BY <2>2, <2>4, <2>7, <3>1, InboundStep
  <2>8. CASE Main!TakeRequired("-o", "--log")
    <3>1. mainPc = "-o" /\ mainPc' = "--log"
      BY <2>5, <2>8 DEF Main!TakeRequired, Main!Throw, Main!ThrowDangling
    <3> QED BY <2>2, <2>4, <2>8, <3>1, OutboundStep
  <2>9. CASE Main!TakeLog
    <3>1. mainPc = "--log" /\ mainPc' = "--filter"
      BY <2>5, <2>9 DEF Main!TakeLog, Main!Throw, Main!ThrowDangling
    <3> QED BY <2>2, <2>4, <2>9, <3>1, LogStep
  <2>10. CASE Main!TakeFilter
    <3>1. mainPc = "--filter" /\ mainPc' \in {"--filter", "inbound"}
      BY <2>5, <2>10 DEF Main!TakeFilter, Main!AfterEmpty, Main!Throw, Main!ThrowDangling
    <3> QED BY <2>2, <2>4, <2>10, <3>1, FilterStep
  <2>11. CASE \/ Main!Build(inboundConfig, "inbound", "outbound") \/ Main!Build(outboundConfig, "outbound", "filters")
              \/ Main!BuildFilter \/ Main!Run
    <3>1. mainPc \in Live /\ mainPc' \in Built
      BY <2>5, <2>11 DEF Main!Build, Main!BuildFilter, Main!Run, Main!Refuse, Main!Throw, Built
    <3> HIDE DEF Live
    <3> QED BY <2>2, <2>4, <2>11, <3>1, BuiltStep
  <2>12. CASE Main!Handle
    BY <2>5, <2>12 DEF Main!Handle
  <2> HIDE DEF Live
  <2> QED BY <1>2, <2>6, <2>7, <2>8, <2>9, <2>10, <2>11, <2>12 DEF Main!Next
<1> QED BY <1>1, <1>2

\* Where main runs the forwarder the invariant is what was promised.
LEMMA StartPromise == ASSUME Main!CommandLinesAssumption, StartInv PROVE Main!StartsAsAsked
<1> SUFFICES ASSUME mainPc = "running", Main!Correct, Main!NoEmpty
             PROVE  /\ inboundConfig = Main!Given(argv, "-i")[1] /\ outboundConfig = Main!Given(argv, "-o")[1]
                    /\ filterConfigs = Main!Given(argv, "--filter") /\ chain = filterConfigs
                    /\ (\A n \in {"-i", "-o", "--log"} : Len(Main!Given(argv, n)) <= 1) => args = <<>>
  BY DEF Main!StartsAsAsked, Main!RunsAsAsked, Main!AllArgDone
<1>1. Reading /\ Chained /\ argv \in CommandLines
  BY DEF StartInv, Built
<1>2. {"-i", "-o", "--log", "--filter"} = Main!Valued
  BY DEF Main!Valued
<1> DEFINE Left(n) == Main!Given(args, n)
           Asked(n) == Main!Given(argv, n)
<1>3. Line(ArgWords, args)
  BY <1>1 DEF Reading
<1>4. \A n \in Main!Valued : Left(n) \in Seq(Texts) /\ Len(Left(n)) \in Nat /\ (Main!Has(n) <=> Left(n) # <<>>)
  <2> TAKE n \in Main!Valued
  <2>1. Left(n) \in Seq(Texts)
    BY <1>1, <1>3, LeftFacts
  <2>2. Main!Has(n) <=> Left(n) # <<>>
    BY <1>1, <1>3, NotFound
  <2>3. Len(Left(n)) \in Nat
    BY <2>1, LenProperties
  <2> QED BY <2>1, <2>2, <2>3
<1>5. /\ Asked("-i") = <<inboundConfig>> \o Left("-i")
      /\ Asked("-o") = <<outboundConfig>> \o Left("-o")
      /\ Left("--log") = <<>> \/ Len(Asked("--log")) = Len(Left("--log")) + 1
      /\ Asked("--filter") = filterConfigs /\ Left("--filter") = <<>>
  BY <1>1 DEF Reading, AtInbound, AtOutbound, AtLog, Built
<1> HIDE DEF Left, Asked
<1>6. \A x : \A s \in Seq(Texts) : (<<x>> \o s)[1] = x /\ Len(<<x>> \o s) = Len(s) + 1
  <2> TAKE x
  <2> TAKE s \in Seq(Texts)
  <2> DEFINE X == {x} \cup Texts
  <2>1. <<x>> \in Seq(X) /\ Len(<<x>>) = 1 /\ <<x>>[1] = x
    OBVIOUS
  <2>2. s \in Seq(X) /\ Len(s) \in Nat
    OBVIOUS
  <2> HIDE DEF X
  <2>3. /\ Len(<<x>> \o s) = Len(<<x>>) + Len(s)
        /\ \A i \in 1 .. Len(<<x>>) + Len(s) : (<<x>> \o s)[i] = IF i <= Len(<<x>>) THEN <<x>>[i] ELSE s[i - Len(<<x>>)]
    BY <2>1, <2>2, ConcatProperties
  <2>4. 1 \in 1 .. Len(<<x>>) + Len(s) /\ 1 <= Len(<<x>>)
    BY <2>1, <2>2
  <2>5. (<<x>> \o s)[1] = x
    BY <2>1, <2>3, <2>4
  <2> QED BY <2>1, <2>2, <2>3, <2>5
<1>7. Asked("-i")[1] = inboundConfig /\ Asked("-o")[1] = outboundConfig
      /\ Len(Asked("-i")) = Len(Left("-i")) + 1 /\ Len(Asked("-o")) = Len(Left("-o")) + 1
  BY <1>2, <1>4, <1>5, <1>6
<1>8. chain = filterConfigs
  <2>1. chain \in Seq(Texts) /\ filterConfigs \in Seq(Texts) /\ Len(chain) = Len(filterConfigs)
        /\ \A k \in 1 .. Len(chain) : chain[k] = filterConfigs[k]
    BY <1>1 DEF Reading, Chained
  <2> QED BY <2>1, SeqEqual
<1>9. ASSUME \A n \in {"-i", "-o", "--log"} : Len(Asked(n)) <= 1 PROVE args = <<>>
  <2>1. \A n \in Main!Valued : Left(n) = <<>>
    <3>1. Len(Left("-i")) = 0 /\ Len(Left("-o")) = 0 /\ (Left("--log") = <<>> \/ Len(Left("--log")) = 0)
      BY <1>2, <1>4, <1>5, <1>7, <1>9
    <3>2. \A n \in Main!Valued : Len(Left(n)) = 0 => Left(n) = <<>>
      BY <1>4, EmptySeq
    <3> QED BY <1>2, <1>5, <3>1, <3>2
  <2>2. \A n \in Main!Valued : ~Main!Has(n)
    BY <1>4, <2>1
  <2>3. args \in Seq(ArgWords) /\ DOMAIN args = 1 .. Len(args) /\ Len(args) \in Nat
    BY <1>3 DEF Line
  <2>4. \A k \in 1 .. Len(args) : args[k][1] \notin Main!Options
    BY <1>1, <2>2, <2>3 DEF Main!Options, Main!Has, Main!Where, Reading
  <2>5. Len(args) = 0
    <3> SUFFICES ASSUME Len(args) # 0 PROVE FALSE
      OBVIOUS
    <3>1. 1 \in DOMAIN args /\ 1 \in 1 .. Len(args) /\ ~(1 > 1)
      BY <2>3
    <3>2. ~Main!IsValue(args, 1)
      BY <3>1 DEF Main!IsValue
    <3>3. args[1][1] \in Main!Options
      BY <1>3, <3>1, <3>2 DEF Line, Main!IsCorrect
    <3> QED BY <2>4, <3>1, <3>3
  <2> QED BY <2>3, <2>5
<1> QED BY <1>5, <1>7, <1>8, <1>9 DEF Asked

\* opt_parser and main, for every command line: when the forwarder runs after
\* a correct one without an empty value, it has the first -i and the first -o
\* of it and every --filter in order, and when no option but --filter was given
\* twice, nothing is left on the line.
THEOREM StartCorrect == ASSUME Main!CommandLinesAssumption PROVE Main!Spec => []StartsAsAsked
  <1>1. Main!Init => StartInv
    BY StartInit
  <1>2. StartInv /\ [Main!Next]_Main!vars => StartInv'
    BY StartNext
  <1>3. StartInv => StartsAsAsked
    BY StartPromise DEF StartsAsAsked
  <1> QED BY <1>1, <1>2, <1>3, PTL DEF Main!Spec

==============================================================================
