----------------------- MODULE WebSocketTunnelProofs -----------------------
(***************************************************************************)
(* Proofs about WebSocketTunnel for any number of upstreams, any order of  *)
(* trying them, any buffer limit, any socket, and clients and upstreams    *)
(* that send any number of units.                                          *)
(***************************************************************************)
EXTENDS WebSocketTunnel, SequenceTheorems, TLAPS

USE DEF network, tunnel, carried, setup

----------------------------------------------------------------------------
(* The units a party sends, and what of them is on its way.                *)

LEMMA Counts ==
    /\ AnyCount \subseteq Nat
    /\ \A p \in Parties : \A n \in Nat : n <= MaxSent[p] => n \in AnyCount
  BY TunnelAssumption DEF AnyCount, Parties

LEMMA StretchFromFirst ==
    ASSUME NEW p, NEW n \in Nat
    PROVE  /\ Stretch(p, 1, n) = [i \in 1 .. n |-> <<p, i>>]
           /\ Stretch(p, 1, n) \in Seq({p} \X Nat)
           /\ Len(Stretch(p, 1, n)) = n
  <1>1. Stretch(p, 1, n) = [i \in 1 .. n |-> <<p, i>>]
    BY DEF Stretch
  <1>2. QED
    BY <1>1

\* The units of a party fit the types when the party may send that many.
LEMMA StretchType ==
    ASSUME NEW p \in Parties, NEW first \in Nat \ {0}, NEW last \in Nat,
           first <= last + 1, last <= MaxSent[p]
    PROVE  Stretch(p, first, last) \in Seq(Units)
  <1> DEFINE n == last - first + 1
  <1>1. n \in Nat
    OBVIOUS
  <1>2. \A i \in 1 .. n : first + i - 1 \in Nat /\ first + i - 1 <= MaxSent[p]
    BY TunnelAssumption
  <1>3. \A i \in 1 .. n : <<p, first + i - 1>> \in Units
    BY <1>2, Counts DEF Units
  <1>4. QED
    BY <1>1, <1>3 DEF Stretch

\* What a read appends goes on where the last one ended.
LEMMA StretchGrows ==
    ASSUME NEW p, NEW t \in Nat, NEW n \in Nat
    PROVE  Stretch(p, 1, t) \o Stretch(p, t + 1, t + n) = Stretch(p, 1, t + n)
  <1> DEFINE S == {p} \X Nat
             a == Stretch(p, 1, t)
             b == Stretch(p, t + 1, t + n)
             c == Stretch(p, 1, t + n)
  <1>1. /\ a \in Seq(S) /\ Len(a) = t
        /\ \A i \in 1 .. t : a[i] = <<p, i>>
    <2>1. a = [i \in 1 .. t |-> <<p, i>>]
      BY DEF Stretch
    <2>2. QED
      BY <2>1
  <1>2. /\ b \in Seq(S) /\ Len(b) = n
        /\ \A i \in 1 .. n : b[i] = <<p, t + i>>
    <2>1. b = [i \in 1 .. n |-> <<p, t + i>>]
      BY DEF Stretch
    <2>2. QED
      BY <2>1
  <1>3. /\ c \in Seq(S) /\ Len(c) = t + n
        /\ \A i \in 1 .. t + n : c[i] = <<p, i>>
    <2>1. c = [i \in 1 .. t + n |-> <<p, i>>]
      BY DEF Stretch
    <2>2. QED
      BY <2>1
  <1> HIDE DEF a, b, c, S
  <1>4. /\ a \o b \in Seq(S) /\ Len(a \o b) = t + n
        /\ \A i \in 1 .. t + n : (a \o b)[i] = IF i <= t THEN a[i] ELSE b[i - t]
    BY <1>1, <1>2, ConcatProperties
  <1>5. \A i \in 1 .. t + n : (a \o b)[i] = <<p, i>>
    BY <1>1, <1>2, <1>4
  <1>6. a \o b = c
    BY <1>3, <1>4, <1>5, SeqEqual
  <1>7. QED
    BY <1>6 DEF a, b, c

\* A flush that hands the first n queued units to the socket.
LEMMA FlushedPrefix ==
    ASSUME NEW S, NEW b \in Seq(S), NEW o \in 0 .. Len(b), NEW n \in 0 .. Len(b) - o
    PROVE  /\ SubSeq(b, o + 1, Len(b)) \in Seq(S)
           /\ Len(SubSeq(b, o + 1, Len(b))) = Len(b) - o
           /\ SubSeq(SubSeq(b, o + 1, Len(b)), 1, n) \in Seq(S)
           /\ Len(SubSeq(SubSeq(b, o + 1, Len(b)), 1, n)) = n
           /\ SubSeq(b, o + n + 1, Len(b)) \in Seq(S)
           /\ SubSeq(SubSeq(b, o + 1, Len(b)), 1, n) \o SubSeq(b, o + n + 1, Len(b))
                = SubSeq(b, o + 1, Len(b))
  <1> DEFINE u == SubSeq(b, o + 1, Len(b))
             w == SubSeq(u, 1, n)
             v == SubSeq(b, o + n + 1, Len(b))
  <1>0. o \in Nat /\ n \in Nat /\ Len(b) \in Nat
    OBVIOUS
  <1>1. /\ u \in Seq(S) /\ Len(u) = Len(b) - o
        /\ \A i \in 1 .. Len(b) - o : u[i] = b[o + i]
    BY <1>0, SubSeqProperties
  <1>2. /\ v \in Seq(S) /\ Len(v) = Len(b) - o - n
        /\ \A i \in 1 .. Len(b) - o - n : v[i] = b[o + n + i]
    BY <1>0, SubSeqProperties
  <1> HIDE DEF u, v
  <1>3. /\ w \in Seq(S) /\ Len(w) = n
        /\ \A i \in 1 .. n : w[i] = u[i]
    BY <1>0, <1>1, SubSeqProperties
  <1> HIDE DEF w
  <1>4. /\ w \o v \in Seq(S) /\ Len(w \o v) = Len(b) - o
        /\ \A i \in 1 .. Len(b) - o : (w \o v)[i] = IF i <= n THEN w[i] ELSE v[i - n]
    BY <1>0, <1>2, <1>3, ConcatProperties
  <1>5. \A i \in 1 .. Len(b) - o : (w \o v)[i] = u[i]
    <2>1. ASSUME NEW i \in 1 .. Len(b) - o, i <= n
          PROVE  (w \o v)[i] = u[i]
      BY <1>0, <1>3, <1>4, <2>1
    <2>2. ASSUME NEW i \in 1 .. Len(b) - o, ~(i <= n)
          PROVE  (w \o v)[i] = u[i]
      <3>1. i - n \in 1 .. Len(b) - o - n /\ o + n + (i - n) = o + i
        BY <1>0, <2>2
      <3>2. v[i - n] = b[o + i]
        BY <3>1, <1>2
      <3>3. QED
        BY <1>0, <1>1, <1>4, <2>2, <3>2
    <2>3. QED
      BY <2>1, <2>2
  <1>6. w \o v = u
    BY <1>1, <1>4, <1>5, SeqEqual
  <1>7. QED
    BY <1>1, <1>2, <1>3, <1>6 DEF u, v, w

\* A buffer of which nothing has been sent.
LEMMA AllUnsent ==
    ASSUME NEW S, NEW s \in Seq(S)
    PROVE  SubSeq(s, 0 + 1, Len(s)) = s
  <1>1. 0 + 1 = 1
    OBVIOUS
  <1>2. SubSeq(s, 1, Len(s)) = s
    BY SubSeqFull
  <1>3. QED
    BY <1>1, <1>2

LEMMA ConcatAssoc ==
    \A s, t, u \in Seq(Units) : (s \o t) \o u = s \o (t \o u)
  BY ConcatAssociative

LEMMA ConcatLen ==
    \A s, t \in Seq(Units) : Len(s \o t) = Len(s) + Len(t)
  BY ConcatProperties

LEMMA ConcatLonger ==
    ASSUME NEW S, NEW s \in Seq(S), NEW t \in Seq(S)
    PROVE  Len(s) <= Len(s \o t)
  <1>1. Len(s \o t) = Len(s) + Len(t) /\ Len(s) \in Nat /\ Len(t) \in Nat
    BY ConcatProperties
  <1>2. QED
    BY <1>1

----------------------------------------------------------------------------
(* Type correctness.                                                       *)

\* No party has been heard more than it has said, nor says more than it may.
Heard ==
    /\ peer \in Upstreams
    /\ \A p \in Parties : taken[p] <= sent[p] /\ sent[p] <= MaxSent[p]

\* What the sizes of the buffers rest on: nothing has been sent from them before
\* the upgrade, and only a connection epoll has closed has a last flush.
Staged ==
    /\ phase = "connecting" => \A side \in Sides : offset[side] = 0
    /\ task.job = "last_flush" => phase = "closed" /\ cause = "epoll"

Typed == TypeOK /\ Heard /\ Staged

\* What the actions read has the expected types.
LEMMA Operands ==
    ASSUME Typed, NEW side \in Sides
    PROVE  /\ Other(side) \in Sides /\ Party(side) \in Parties
           /\ Party("upstream") = peer /\ Party("client") = "client"
           /\ sent[Party(side)] \in Nat /\ taken[Party(side)] \in Nat
           /\ Waiting(side) \in Nat
           /\ Waiting(side) = sent[Party(side)] - taken[Party(side)]
           /\ buffer[side] \in Seq(Units) /\ offset[side] \in 0 .. Len(buffer[side])
           /\ Unsent(side) \in Seq(Units)
           /\ Len(Unsent(side)) = Len(buffer[side]) - offset[side]
  <1>1. Other(side) \in Sides /\ Party(side) \in Parties
    BY DEF Typed, Heard, Other, Party, Sides, Parties
  <1>2. sent[Party(side)] \in Nat /\ taken[Party(side)] \in Nat /\ taken[Party(side)] <= sent[Party(side)]
    BY <1>1, Counts DEF Typed, TypeOK, Heard
  <1>3. buffer[side] \in Seq(Units) /\ offset[side] \in 0 .. Len(buffer[side])
    BY DEF Typed, TypeOK
  <1>4. 0 \in 0 .. Len(buffer[side]) - offset[side]
    BY <1>3
  <1>5. Unsent(side) \in Seq(Units) /\ Len(Unsent(side)) = Len(buffer[side]) - offset[side]
    BY <1>3, <1>4, FlushedPrefix DEF Unsent
  <1>6. Party("upstream") = peer /\ Party("client") = "client"
    BY DEF Party
  <1>7. QED
    BY <1>1, <1>2, <1>3, <1>5, <1>6 DEF Waiting

LEMMA InitTyped == Init => Typed
  <1> SUFFICES ASSUME Init PROVE Typed
    OBVIOUS
  <1>1. left \in Seq(Upstreams) /\ peer \in Upstreams
    <2>1. PICK order \in Orders : left = Tail(order) /\ peer = Head(order)
      BY DEF Init
    <2>2. order \in Seq(Upstreams) /\ order # <<>>
      BY TunnelAssumption
    <2>3. QED
      BY <2>1, <2>2, HeadTailProperties
  <1>2. PICK early \in 0 .. MaxSent["client"] : \E held \in IF client_tls THEN 0 .. early ELSE {0} :
         /\ sent = [p \in Parties |-> IF p = "client" THEN early ELSE 0]
         /\ taken = [p \in Parties |-> IF p = "client" THEN early - held ELSE 0]
         /\ decrypted = [client |-> held, upstream |-> 0]
    BY DEF Init
  <1>3. PICK held \in IF client_tls THEN 0 .. early ELSE {0} :
         /\ sent = [p \in Parties |-> IF p = "client" THEN early ELSE 0]
         /\ taken = [p \in Parties |-> IF p = "client" THEN early - held ELSE 0]
         /\ decrypted = [client |-> held, upstream |-> 0]
    BY <1>2
  <1>4. MaxSent["client"] \in Nat /\ "client" \in Parties /\ \A p \in Parties : MaxSent[p] \in Nat
    BY TunnelAssumption DEF Parties
  <1>5. early \in Nat /\ held \in Nat /\ early <= MaxSent["client"] /\ held <= early
    BY <1>4
  <1>6. /\ early \in AnyCount /\ held \in AnyCount /\ early - held \in AnyCount /\ 0 \in AnyCount
    BY <1>4, <1>5, Counts
  <1>7. decrypted \in [Sides -> AnyCount]
    BY <1>3, <1>6 DEF Sides
  <1>8. sent \in [Parties -> AnyCount] /\ taken \in [Parties -> AnyCount]
    BY <1>3, <1>6
  <1>9. \A p \in Parties : taken[p] <= sent[p] /\ sent[p] <= MaxSent[p]
    BY <1>3, <1>4, <1>5
  <1>10. QED
    BY <1>1, <1>7, <1>8, <1>9, SettingsAssumption, TunnelAssumption
    DEF Init, Typed, TypeOK, Heard, Staged, Idle, Phases, Causes, Stages, Jobs, Sides

LEMMA PeersTyped ==
    ASSUME Typed, Peers
    PROVE  Typed'
  <1> USE DEF Typed, TypeOK, Heard, Staged
  <1>1. ASSUME NEW p \in Parties, PeerSends(p)
        PROVE  Typed'
    <2>0. sent[p] \in Nat /\ MaxSent[p] \in Nat
      BY Counts, TunnelAssumption
    <2>1. sent[p] + 1 <= MaxSent[p]
      BY <1>1, <2>0 DEF PeerSends
    <2>2. sent[p] + 1 \in AnyCount
      BY <2>0, <2>1, Counts
    <2>3. \A q \in Parties : sent[q] \in Nat /\ taken[q] \in Nat
      BY Counts
    <2>4. QED
      BY <1>1, <2>0, <2>1, <2>2, <2>3 DEF PeerSends
  <1>2. ASSUME NEW p \in Parties, PeerLeaves(p)
        PROVE  Typed'
    BY <1>2 DEF PeerLeaves
  <1>3. ASSUME NEW u \in Upstreams, UpstreamAnswers(u)
        PROVE  Typed'
    BY <1>3 DEF UpstreamAnswers
  <1>4. ASSUME NEW side \in Sides, PeerReads(side)
        PROVE  Typed'
    <2>1. drained[side] \in Nat /\ Len(wire[side]) \in Nat
      OBVIOUS
    <2>2. /\ drained[side] + 1 \in Nat /\ drained[side] + 1 <= Len(wire[side])
          /\ Len(wire[side]) <= drained[side] + 1 + SocketRoom
      BY <1>4, <2>1, TunnelAssumption DEF PeerReads
    <2>3. QED
      BY <1>4, <2>2 DEF PeerReads
  <1>5. CASE Tick
    BY <1>5, SettingsAssumption DEF Tick
  <1>6. QED
    BY <1>1, <1>2, <1>3, <1>4, <1>5 DEF Peers

\* close_now keeps the types whatever else a handler did before it.
LEMMA CloseTyped ==
    ASSUME Typed, NEW why \in Causes, close_now(why)
    PROVE  /\ phase' \in Phases /\ cause' \in Causes
           /\ left' = left /\ peer' = peer /\ stage' = stage
           /\ interest' \in [Sides -> SUBSET Events] /\ task' \in [job : Jobs, side : Sides]
           /\ Staged'
  BY DEF close_now, close_and, Phases, Idle, Jobs, Sides, Staged

LEMMA SetupTyped ==
    ASSUME Typed, Setup
    PROVE  Typed'
  <1> USE DEF Typed, TypeOK, Heard, Staged
  <1>0. 0 \in AnyCount /\ "client" \in Parties /\ peer \in Parties
    BY Counts, TunnelAssumption DEF Parties
  <1>1. CASE TcpConnected \/ TlsConnected \/ RequestWritten
    BY <1>1 DEF TcpConnected, TlsConnected, RequestWritten, Enter, Stages
  <1>2. ASSUME next_upstream
        PROVE  /\ left' \in Seq(Upstreams) /\ peer' \in Upstreams /\ stage' \in Stages
               /\ decrypted' \in [Sides -> AnyCount] /\ phase' \in Phases
    <2>1. CASE left = <<>> /\ phase' = "refused" /\ UNCHANGED setup
      BY <1>0, <1>2, <2>1 DEF next_upstream, Phases, Sides
    <2>2. CASE left # <<>> /\ phase' = phase /\ peer' = Head(left) /\ stage' = "tcp" /\ left' = Tail(left)
      <3>1. Head(left) \in Upstreams /\ Tail(left) \in Seq(Upstreams)
        BY <2>2, HeadTailProperties
      <3>2. QED
        BY <1>0, <1>2, <2>2, <3>1 DEF next_upstream, Stages, Sides
    <2>3. QED
      BY <1>2, <2>1, <2>2 DEF next_upstream
  <1>3. ASSUME NEW queued, attempt_failed(queued), phase = "connecting", UNCHANGED task
        PROVE  /\ buffer' \in [Sides -> Seq(Units)] /\ offset' \in [Sides -> Nat]
               /\ \A side \in Sides : /\ offset'[side] <= Len(buffer'[side])
                                     /\ Len(buffer'[side]) <= websocket_proxy_buffer_limit
               /\ Staged'
    BY <1>3, TunnelAssumption DEF attempt_failed
  <1>4. CASE AttemptFails
    <2>1. attempt_failed(buffer) /\ phase = "connecting" /\ task' = task
      BY <1>4 DEF AttemptFails
    <2>2. next_upstream
      BY <2>1 DEF attempt_failed
    <2>3. QED
      BY <1>2, <1>4, <1>3, <2>1, <2>2 DEF AttemptFails
  <1>5. ASSUME NEW n \in AnyCount, UpstreamAgrees(n)
        PROVE  Typed'
    <2> DEFINE early == taken["client"]
               queued == [client   |-> buffer["client"] \o Stretch(peer, 1, n),
                          upstream |-> buffer["upstream"] \o Stretch("client", 1, early)]
    <2>1. n \in Nat /\ n <= sent[peer] /\ n <= MaxSent[peer] /\ MaxSent[peer] \in Nat
      <3>1. n \in 0 .. Waiting("upstream") /\ "upstream" \in Sides
        BY <1>5 DEF UpstreamAgrees, Sides
      <3>2. Waiting("upstream") = sent[peer] - taken[peer] /\ sent[peer] \in Nat /\ taken[peer] \in Nat
        BY <3>1, Operands, Zenon
      <3>3. sent[peer] <= MaxSent[peer] /\ MaxSent[peer] \in Nat
        BY <1>0, TunnelAssumption
      <3> HIDE DEF Typed, TypeOK, Heard, Staged
      <3>4. QED
        BY <3>1, <3>2, <3>3
    <2>2. early \in Nat /\ early <= MaxSent["client"]
      <3>1. taken["client"] <= sent["client"] /\ sent["client"] <= MaxSent["client"]
        BY <1>0
      <3>2. taken["client"] \in Nat /\ sent["client"] \in Nat /\ MaxSent["client"] \in Nat
        BY <1>0, Counts, TunnelAssumption
      <3> HIDE DEF Typed, TypeOK, Heard, Staged
      <3>3. QED
        BY <3>1, <3>2
    <2>3. queued \in [Sides -> Seq(Units)]
      <3>1. Stretch(peer, 1, n) \in Seq(Units)
        BY <1>0, <2>1, StretchType
      <3>2. Stretch("client", 1, early) \in Seq(Units)
        BY <1>0, <2>2, StretchType
      <3>3. buffer["client"] \in Seq(Units) /\ buffer["upstream"] \in Seq(Units)
        BY DEF Sides
      <3>4. queued["client"] \in Seq(Units) /\ queued["upstream"] \in Seq(Units)
        BY <3>1, <3>2, <3>3
      <3>5. QED
        BY <3>4 DEF Sides
    <2>4. taken' \in [Parties -> AnyCount] /\ \A p \in Parties : taken'[p] <= sent[p]
      BY <1>0, <1>5, <2>1 DEF UpstreamAgrees
    <2>5. \A side \in Sides : Len(buffer[side]) <= Len(queued[side])
      <3>1. Stretch(peer, 1, n) \in Seq(Units)
        BY <1>0, <2>1, StretchType
      <3>2. Stretch("client", 1, early) \in Seq(Units)
        BY <1>0, <2>2, StretchType
      <3>3. buffer["client"] \in Seq(Units) /\ buffer["upstream"] \in Seq(Units)
        BY DEF Sides
      <3>4. /\ Len(buffer["client"]) <= Len(queued["client"])
            /\ Len(buffer["upstream"]) <= Len(queued["upstream"])
        BY <3>1, <3>2, <3>3, ConcatLonger
      <3>5. QED
        BY <3>4 DEF Sides
    <2> HIDE DEF queued
    <2>6. ASSUME fits("client", n), fits("upstream", early)
           PROVE  \A side \in Sides : Len(queued[side]) <= websocket_proxy_buffer_limit
      <3>1. Stretch(peer, 1, n) \in Seq(Units) /\ Len(Stretch(peer, 1, n)) = n
        <4>1. Stretch(peer, 1, n) \in Seq(Units)
          BY <1>0, <2>1, StretchType
        <4>2. Len(Stretch(peer, 1, n)) = n
          BY <2>1, StretchFromFirst, Zenon
        <4>3. QED
          BY <4>1, <4>2
      <3>2. Stretch("client", 1, early) \in Seq(Units) /\ Len(Stretch("client", 1, early)) = early
        <4>1. Stretch("client", 1, early) \in Seq(Units)
          BY <1>0, <2>2, StretchType
        <4>2. Len(Stretch("client", 1, early)) = early
          BY <2>2, StretchFromFirst, Zenon
        <4>3. QED
          BY <4>1, <4>2
      <3>3. /\ buffer["client"] \in Seq(Units) /\ buffer["upstream"] \in Seq(Units)
            /\ offset["client"] = 0 /\ offset["upstream"] = 0
        BY <1>5 DEF Sides, UpstreamAgrees
      <3>4. /\ Len(Unsent("client")) = Len(buffer["client"]) - offset["client"]
            /\ Len(Unsent("upstream")) = Len(buffer["upstream"]) - offset["upstream"]
        BY Operands, Zenon DEF Sides
      <3>5. /\ Len(buffer["client"]) + n <= websocket_proxy_buffer_limit
            /\ Len(buffer["upstream"]) + early <= websocket_proxy_buffer_limit
        BY <2>6, <3>3, <3>4 DEF fits
      <3>6. /\ Len(queued["client"]) = Len(buffer["client"]) + n
            /\ Len(queued["upstream"]) = Len(buffer["upstream"]) + early
        <4>1. /\ Len(buffer["client"] \o Stretch(peer, 1, n)) = Len(buffer["client"]) + n
              /\ Len(buffer["upstream"] \o Stretch("client", 1, early)) = Len(buffer["upstream"]) + early
          <5>1. /\ Len(buffer["client"] \o Stretch(peer, 1, n))
                     = Len(buffer["client"]) + Len(Stretch(peer, 1, n))
                /\ Len(buffer["upstream"] \o Stretch("client", 1, early))
                     = Len(buffer["upstream"]) + Len(Stretch("client", 1, early))
            BY <3>1, <3>2, <3>3, ConcatLen, Zenon
          <5>2. QED
            BY <3>1, <3>2, <5>1
        <4>2. QED
          BY <4>1 DEF queued
      <3>7. QED
        BY <3>5, <3>6 DEF Sides
    <2>7. CASE /\ fits("client", n) /\ fits("upstream", early)
               /\ buffer' = queued
               /\ \E held \in IF peer \in Https THEN 0 .. Waiting("upstream") - n ELSE {0} :
                    decrypted' = [decrypted EXCEPT !["upstream"] = held]
               /\ phase' = "writing" /\ stage' = "done"
               /\ interest' = [client   |-> {"OUT"},
                               upstream |-> {"IN"} \cup (IF early = 0 THEN {} ELSE {"OUT"})]
               /\ UNCHANGED <<cause, left, peer, task, offset>>
      <3>1. Waiting("upstream") = sent[peer] - taken[peer] /\ sent[peer] \in Nat /\ taken[peer] \in Nat
        BY Operands, Zenon DEF Sides
      <3>2. PICK held \in IF peer \in Https THEN 0 .. Waiting("upstream") - n ELSE {0} :
                    decrypted' = [decrypted EXCEPT !["upstream"] = held]
        BY <2>7
      <3>3. held \in Nat /\ held <= MaxSent[peer]
        BY <1>0, <2>1, <3>1, TunnelAssumption
      <3>4. decrypted' \in [Sides -> AnyCount]
        BY <1>0, <3>2, <3>3, Counts
      <3>5. interest' \in [Sides -> SUBSET Events]
        BY <2>7 DEF Sides, Events
      <3>6. \A side \in Sides : offset[side] \in Nat /\ offset[side] <= Len(queued[side])
        BY <2>3, <2>5
      <3>7. \A side \in Sides : Len(queued[side]) <= websocket_proxy_buffer_limit
        BY <2>7, <2>6
      <3>8. QED
        BY <1>5, <2>3, <2>4, <2>7, <3>4, <3>5, <3>6, <3>7 DEF UpstreamAgrees, Phases, Stages
    <2>8. CASE close_now("limit") /\ UNCHANGED <<buffer, offset, decrypted>>
      BY <1>5, <2>4, <2>8, CloseTyped DEF UpstreamAgrees, Causes
    <2>9. CASE attempt_failed(queued) /\ UNCHANGED <<cause, interest, task>>
      <3>1. phase = "connecting" /\ task' = task
        BY <1>5, <2>9 DEF UpstreamAgrees
      <3>2. next_upstream
        BY <2>9 DEF attempt_failed
      <3>3. QED
        BY <1>2, <1>5, <1>3, <2>4, <2>9, <3>1, <3>2, SMTT(60) DEF UpstreamAgrees
    <2>10. QED
      BY <1>5, <2>7, <2>8, <2>9, Zenon DEF UpstreamAgrees, queued
  <1>6. CASE ResponseWritten
    <2>1. interest' \in [Sides -> SUBSET Events]
      BY <1>6 DEF ResponseWritten, update_websocket_proxy_events, Events
    <2>2. QED
      BY <1>6, <2>1, SettingsAssumption DEF ResponseWritten, Phases, Jobs, Sides
  <1>7. CASE ResponseFails
    BY <1>7, CloseTyped DEF ResponseFails, Causes
  <1>8. CASE FirstUpdateFails
    BY <1>8, SettingsAssumption
    DEF FirstUpdateFails, close_and, Phases, Causes, Jobs, Sides
  <1>9. QED
    BY <1>1, <1>4, <1>5, <1>6, <1>7, <1>8 DEF Setup

LEMMA HandlerTyped ==
    ASSUME Typed, Handler
    PROVE  Typed'
  <1> USE DEF Typed, TypeOK, Heard, Staged
  <1>1. ASSUME NEW side \in Sides, NEW n \in AnyCount, Receive(side, n)
        PROVE  Typed'
    <2> DEFINE to    == Other(side)
               from  == Party(side)
               first == taken[from] + 1
               units == Stretch(from, first, first + n - 1)
    <2> HIDE DEF Typed, TypeOK, Heard
    <2>0. n \in Nat /\ n \in 1 .. Waiting(side)
      BY <1>1, Counts DEF Receive
    <2>1. /\ to \in Sides /\ from \in Parties /\ taken[from] \in Nat /\ sent[from] \in Nat
          /\ Waiting(side) = sent[from] - taken[from]
      BY Operands, Zenon
    <2> HIDE DEF from, to
    <2>2. n \in Nat /\ n >= 1 /\ taken[from] + n <= sent[from]
      BY <2>0, <2>1
    <2>3. /\ first \in Nat \ {0} /\ first + n - 1 \in Nat /\ first + n - 1 = taken[from] + n
          /\ first <= first + n - 1 + 1
      BY <2>1, <2>2
    <2>4. first + n - 1 <= sent[from] /\ first + n - 1 <= MaxSent[from] /\ MaxSent[from] \in Nat
      <3>1. sent[from] <= MaxSent[from] /\ MaxSent[from] \in Nat
        BY <2>1, TunnelAssumption DEF Typed, Heard
      <3>2. QED
        BY <2>1, <2>2, <2>3, <3>1
    <2>5. units \in Seq(Units)
      BY <2>1, <2>3, <2>4, StretchType
    <2>6. Unsent(to) \in Seq(Units)
      BY <2>1, Operands, Zenon
    <2> HIDE DEF units
    <2>7. /\ taken' = [taken EXCEPT ![from] = first + n - 1]
          /\ decrypted' = [decrypted EXCEPT ![side] = IF n >= decrypted[side] THEN 0 ELSE decrypted[side] - n]
          /\ extra' = [extra EXCEPT ![side] = {}] /\ quiet' = 0
          /\ buffer' = [buffer EXCEPT ![to] = Unsent(to) \o (IF fits(to, n) THEN units ELSE <<>>)]
          /\ offset' = [offset EXCEPT ![to] = 0]
          /\ UNCHANGED <<wire, network>>
      BY <1>1, Zenon DEF Receive, compact_websocket_proxy_buffer, to, from, units
    <2>8. taken' \in [Parties -> AnyCount] /\ \A p \in Parties : taken'[p] <= sent'[p]
      BY <2>1, <2>3, <2>4, <2>7, Counts DEF Typed, TypeOK, Heard
    <2>9. decrypted' \in [Sides -> AnyCount]
      <3>1. decrypted[side] \in Nat /\ decrypted[side] \in AnyCount
        BY Counts DEF Typed, TypeOK
      <3>2. PICK p \in Parties : decrypted[side] <= MaxSent[p] /\ MaxSent[p] \in Nat
        BY <3>1, TunnelAssumption DEF AnyCount
      <3>3. (IF n >= decrypted[side] THEN 0 ELSE decrypted[side] - n) \in AnyCount
        BY <2>2, <3>1, <3>2, Counts
      <3>4. QED
        BY <2>7, <3>3 DEF Typed, TypeOK
    <2>10. buffer' \in [Sides -> Seq(Units)]
      <3>1. Unsent(to) \o (IF fits(to, n) THEN units ELSE <<>>) \in Seq(Units)
        BY <2>5, <2>6
      <3>2. QED
        BY <2>7, <3>1 DEF Typed, TypeOK
    <2>11. offset' \in [Sides -> Nat] /\ \A s \in Sides : offset'[s] <= Len(buffer'[s])
      <3>1. offset \in [Sides -> Nat] /\ \A s \in Sides : offset[s] <= Len(buffer[s])
        BY DEF Typed, TypeOK
      <3>2. \A s \in Sides : Len(buffer'[s]) \in Nat
        BY <2>10
      <3>3. \A s \in Sides \ {to} : offset'[s] = offset[s] /\ buffer'[s] = buffer[s]
        BY <2>1, <2>7, <3>1 DEF Typed, TypeOK
      <3>4. offset'[to] = 0
        BY <2>1, <2>7, <3>1
      <3>5. QED
        BY <2>1, <2>7, <3>1, <3>2, <3>3, <3>4
    <2>12. extra' \in [Sides -> SUBSET Events] /\ quiet' \in 0 .. idle_timeout_seconds
      BY <2>7, SettingsAssumption DEF Typed, TypeOK
    <2>13. \A s \in Sides : Len(buffer'[s]) <= websocket_proxy_buffer_limit
      <3>1. \A s \in Sides : Len(buffer[s]) <= websocket_proxy_buffer_limit
        BY DEF Typed, TypeOK
      <3>2. /\ Len(Unsent(to)) = Len(buffer[to]) - offset[to]
            /\ offset[to] \in Nat /\ Len(buffer[to]) \in Nat
        <4>1. Len(Unsent(to)) = Len(buffer[to]) - offset[to]
          BY <2>1, Operands, Zenon
        <4>2. QED
          BY <2>1, <4>1 DEF Typed, TypeOK
      <3>3. Len(units) = n
        BY <2>2, <2>3 DEF units, Stretch
      <3>4. Len(Unsent(to) \o (IF fits(to, n) THEN units ELSE <<>>)) <= websocket_proxy_buffer_limit
        <4>1. CASE fits(to, n)
          <5>1. Len(Unsent(to) \o units) = Len(Unsent(to)) + n
            BY <2>5, <2>6, <3>3, ConcatProperties
          <5>2. QED
            BY <4>1, <5>1 DEF fits
        <4>2. CASE ~fits(to, n)
          <5>1. Unsent(to) \o <<>> = Unsent(to)
            BY <2>6, ConcatEmptySeq
          <5>2. Len(Unsent(to)) <= websocket_proxy_buffer_limit
            BY <2>1, <3>1, <3>2, TunnelAssumption
          <5>3. QED
            BY <4>2, <5>1, <5>2
        <4>3. QED
          BY <4>1, <4>2
      <3>5. QED
        BY <2>1, <2>7, <3>1, <3>4 DEF Typed, TypeOK
    <2>14. phase = "websocket_proxy" /\ Staged
      BY <1>1 DEF Receive, Reading, Typed
    <2>15. CASE /\ task' = [task EXCEPT !.job = "relay"]
                /\ retry' \in {"moved", retry}
                /\ UNCHANGED <<phase, cause, interest, setup>>
      BY <2>7, <2>8, <2>9, <2>10, <2>11, <2>12, <2>15, <2>13, <2>14
      DEF Typed, TypeOK, Heard, Staged, Jobs
    <2>16. CASE close_now("limit") /\ UNCHANGED retry
      <3>1. /\ phase' \in Phases /\ cause' \in Causes
            /\ left' = left /\ peer' = peer /\ stage' = stage
            /\ interest' \in [Sides -> SUBSET Events] /\ task' \in [job : Jobs, side : Sides]
            /\ Staged'
        BY <2>16, CloseTyped DEF Causes
      <3>2. QED
        BY <2>7, <2>8, <2>9, <2>10, <2>11, <2>12, <2>16, <2>13, <3>1 DEF Typed, TypeOK, Heard
    <2>17. QED
      BY <1>1, <2>15, <2>16, Zenon DEF Receive
  <1>2. ASSUME NEW side \in Sides, NEW n \in AnyCount, Transmit(side, n)
        PROVE  Typed'
    <2>1. /\ buffer[side] \in Seq(Units) /\ offset[side] \in 0 .. Len(buffer[side])
          /\ Unsent(side) \in Seq(Units) /\ Len(Unsent(side)) = Len(buffer[side]) - offset[side]
      BY Operands, Zenon
    <2>2. n \in 0 .. Len(buffer[side]) - offset[side] /\ n \in Nat
      BY <1>2, <2>1 DEF Transmit
    <2>3. SubSeq(Unsent(side), 1, n) \in Seq(Units)
      BY <2>1, <2>2, FlushedPrefix DEF Unsent
    <2>4. wire[side] \o SubSeq(Unsent(side), 1, n) \in Seq(Units)
      BY <2>3
    <2>5. offset[side] + n \in Nat /\ offset[side] + n <= Len(buffer[side])
      BY <2>1, <2>2
    <2>6. wire' \in [Sides -> Seq(Units)]
      BY <1>2, <2>4 DEF Transmit
    <2>7. offset' \in [Sides -> Nat] /\ \A s \in Sides : offset'[s] <= Len(buffer[s])
      BY <1>2, <2>5 DEF Transmit
    <2>8. retry' \in {"none", retry} /\ extra' \in [Sides -> SUBSET Events]
          /\ quiet' \in 0 .. idle_timeout_seconds
      BY <1>2, SettingsAssumption DEF Transmit
    <2>9. \A s \in Sides : drained[s] <= Len(wire'[s]) /\ Len(wire'[s]) <= drained[s] + SocketRoom
      <3>1. Len(SubSeq(Unsent(side), 1, n)) = n
        BY <2>1, <2>2, FlushedPrefix DEF Unsent
      <3>2. Len(wire[side] \o SubSeq(Unsent(side), 1, n)) = Len(wire[side]) + n
        BY <2>3, <3>1, ConcatProperties
      <3>3. n <= SocketRoom - (Len(wire[side]) - drained[side])
        BY <1>2 DEF Transmit, Room
      <3>4. drained[side] <= Len(wire[side]) + n /\ Len(wire[side]) + n <= drained[side] + SocketRoom
        <4>1. /\ drained[side] \in Nat /\ Len(wire[side]) \in Nat /\ SocketRoom \in Nat
              /\ drained[side] <= Len(wire[side])
          BY TunnelAssumption
        <4> HIDE DEF Typed, TypeOK, Heard, Staged
        <4>2. QED
          BY <2>2, <3>3, <4>1
      <3>5. QED
        BY <1>2, <3>2, <3>4 DEF Transmit
    <2>10. Staged'
      BY <1>2 DEF Transmit, Flushing
    <2>11. QED
      BY <1>2, <2>6, <2>7, <2>8, <2>9, <2>10 DEF Transmit
  <1>3. ASSUME NEW side \in Sides, ReceiveBlocked(side)
        PROVE  Typed'
    <2>1. PICK wants \in Wants(Tls(side)) : extra' = [extra EXCEPT ![side] = wants]
      BY <1>3 DEF ReceiveBlocked
    <2>2. wants \in SUBSET Events
      BY DEF Wants, Events
    <2>3. extra' \in [Sides -> SUBSET Events]
      BY <2>1, <2>2
    <2>4. QED
      BY <1>3, <2>3 DEF ReceiveBlocked, Jobs
  <1>4. next_task \in [job : Jobs, side : Sides] /\ next_task.job # "last_flush"
    BY DEF next_task, Jobs
  <1>5. ASSUME NEW side \in Sides, Flushing(side)
         PROVE  phase \in {"websocket_proxy", "closed"}
    BY <1>5 DEF Flushing
  <1>6. ASSUME NEW side \in Sides, TransmitBlocked(side)
        PROVE  Typed'
    <2>1. extra' \in [Sides -> SUBSET Events]
      BY <1>6 DEF TransmitBlocked, Wants, Events
    <2>2. Staged'
      BY <1>4, <1>6, <1>5 DEF TransmitBlocked
    <2>3. QED
      BY <1>4, <1>6, <2>1, <2>2 DEF TransmitBlocked
  <1>7. ASSUME NEW side \in Sides, Transmitted(side)
        PROVE  Typed'
    <2>1. Staged'
      BY <1>4, <1>7, <1>5 DEF Transmitted
    <2>2. buffer' \in [Sides -> Seq(Units)] /\ offset' \in [Sides -> Nat]
      BY <1>7 DEF Transmitted
    <2>3. \A s \in Sides : offset'[s] <= Len(buffer'[s]) /\ Len(buffer'[s]) <= websocket_proxy_buffer_limit
      BY <1>7, TunnelAssumption DEF Transmitted
    <2>4. QED
      BY <1>4, <1>7, <2>1, <2>2, <2>3 DEF Transmitted
  <1>8. ASSUME NEW side \in Sides, ReceiveEnds(side) \/ TransmitFails(side)
        PROVE  Typed'
    BY <1>8, CloseTyped DEF ReceiveEnds, TransmitFails, Causes
  <1>9. CASE EndHandler
    BY <1>9 DEF EndHandler, update_websocket_proxy_events, Idle, Jobs, Sides, Events
  <1>10. CASE EndHandlerFails
    BY <1>10, CloseTyped DEF EndHandlerFails, Causes
  <1>11. QED
    BY <1>1, <1>2, <1>3, <1>6, <1>7, <1>8, <1>9, <1>10 DEF Handler

LEMMA EventsTyped ==
    ASSUME Typed, (\E side \in Sides : WakeUp(side) \/ HangUp(side)) \/ Expire
    PROVE  Typed'
  <1> USE DEF Typed, TypeOK, Heard, Staged
  <1>1. ASSUME NEW side \in Sides, WakeUp(side)
        PROVE  Typed'
    BY <1>1 DEF WakeUp, Jobs
  <1>2. ASSUME NEW side \in Sides, HangUp(side)
        PROVE  Typed'
    BY <1>2, CloseTyped DEF HangUp, Causes
  <1>3. CASE Expire
    BY <1>3, CloseTyped DEF Expire, Causes
  <1>4. QED
    BY <1>1, <1>2, <1>3

LEMMA NextTyped == Typed /\ [Next]_vars => Typed'
  <1> SUFFICES ASSUME Typed, [Next]_vars PROVE Typed'
    OBVIOUS
  <1>1. CASE UNCHANGED vars
    BY <1>1
    DEF Typed, TypeOK, Heard, Staged, vars
  <1>2. QED
    BY <1>1, PeersTyped, SetupTyped, HandlerTyped, EventsTyped DEF Next

(***************************************************************************)
(* The state of the tunnel keeps its types and sizes: no flush or append   *)
(* of server.cpp leaves an offset behind the end of its buffer, no buffer  *)
(* grows past websocket_proxy_buffer_limit, and no socket holds more than  *)
(* its room.                                                               *)
(***************************************************************************)
THEOREM TunnelTypeOK == Safety => []TypeOK
  <1>1. Safety => []Typed
    BY InitTyped, NextTyped, PTL DEF Safety
  <1>2. Typed => TypeOK
    BY DEF Typed
  <1>3. QED
    BY <1>1, <1>2, PTL

----------------------------------------------------------------------------
(***************************************************************************)
(* Nothing is lost inside.  Before the tunnel is set up nothing is queued, *)
(* not even after an attempt that failed with its buffers filled: this is  *)
(* what makes the first units queued the first units sent.                 *)
(***************************************************************************)
Untouched ==
    phase = "connecting" => \A side \in Sides : buffer[side] = <<>> /\ wire[side] = <<>>

Intact == Untouched /\ NothingLostInside

\* What the server holds for one side is what the other has said so far.
Conveyed(side) ==
    wire[side] \o Unsent(side) = Stretch(Party(Other(side)), 1, taken[Party(Other(side))])

LEMMA IntactByContents ==
    ASSUME Intact, UNCHANGED <<buffer, offset, wire, taken, peer>>,
           carrying' => carrying,
           phase' = phase \/ (phase # "connecting" /\ phase' # "connecting")
    PROVE  Intact'
  BY DEF Intact, Untouched, NothingLostInside, carrying, Unsent, Party, Other

LEMMA ClosedIntact ==
    ASSUME phase' \in {"closed", "refused"}, task'.job # "last_flush"
    PROVE  Intact'
  BY DEF Intact, Untouched, NothingLostInside, carrying

LEMMA SetupIntact ==
    ASSUME Typed, Intact, Setup
    PROVE  Intact'
  <1>1. CASE TcpConnected \/ TlsConnected \/ RequestWritten
    BY <1>1, IntactByContents DEF TcpConnected, TlsConnected, RequestWritten, Enter, carrying
  <1>2. ASSUME NEW queued, attempt_failed(queued), phase = "connecting", UNCHANGED <<wire, task>>
        PROVE  Intact'
    <2>1. phase' \in {"connecting", "refused"}
      BY <1>2 DEF attempt_failed, next_upstream
    <2>2. \A side \in Sides : buffer'[side] = <<>> /\ wire'[side] = <<>>
      BY <1>2 DEF attempt_failed, Intact, Untouched
    <2>3. task'.job # "last_flush"
      BY <1>2 DEF Typed, Staged
    <2>4. QED
      BY <2>1, <2>2, <2>3 DEF Intact, Untouched, NothingLostInside, carrying
  <1>3. CASE AttemptFails
    BY <1>2, <1>3 DEF AttemptFails
  <1>4. ASSUME NEW n \in AnyCount, UpstreamAgrees(n)
        PROVE  Intact'
    <2> DEFINE early == taken["client"]
               queued == [client   |-> buffer["client"] \o Stretch(peer, 1, n),
                          upstream |-> buffer["upstream"] \o Stretch("client", 1, early)]
    <2>1. CASE buffer' = queued /\ phase' = "writing" /\ UNCHANGED <<peer, offset>>
      <3>1. n \in Nat /\ early \in Nat /\ "client" \in Parties /\ peer \in Parties /\ peer # "client"
        BY Counts, TunnelAssumption DEF Typed, TypeOK, Heard, Parties
      <3>2. \A side \in Sides : buffer[side] = <<>> /\ wire[side] = <<>>
        BY <1>4 DEF UpstreamAgrees, Intact, Untouched
      <3>3. offset["client"] = 0 /\ offset["upstream"] = 0
        <4>1. \A side \in Sides : offset[side] \in 0 .. Len(buffer[side])
          BY Operands, Zenon
        <4>2. QED
          BY <3>2, <4>1 DEF Sides
      <3>4. Stretch(peer, 1, n) \in Seq({peer} \X Nat) /\ Stretch("client", 1, early) \in Seq({"client"} \X Nat)
        BY <3>1, StretchFromFirst, Zenon
      <3>5. taken'[peer] = n /\ taken'["client"] = early
        BY <1>4, <3>1 DEF UpstreamAgrees, Typed, TypeOK
      <3>6. buffer'["client"] = Stretch(peer, 1, n) /\ buffer'["upstream"] = Stretch("client", 1, early)
        BY <2>1, <3>2, <3>4, ConcatEmptySeq DEF Sides
      <3>7. Unsent("client")' = Stretch(peer, 1, n) /\ Unsent("upstream")' = Stretch("client", 1, early)
        <4>1. /\ SubSeq(Stretch(peer, 1, n), 0 + 1, Len(Stretch(peer, 1, n))) = Stretch(peer, 1, n)
              /\ SubSeq(Stretch("client", 1, early), 0 + 1, Len(Stretch("client", 1, early)))
                   = Stretch("client", 1, early)
          BY <3>4, AllUnsent, Zenon
        <4>2. offset' = offset
          BY <2>1
        <4>3. QED
          BY <3>3, <3>6, <4>1, <4>2 DEF Unsent
      <3>8. wire'["client"] = <<>> /\ wire'["upstream"] = <<>>
        BY <1>4, <3>2 DEF UpstreamAgrees, Sides
      <3>9. /\ wire'["client"] \o Unsent("client")' = Stretch(peer, 1, n)
            /\ wire'["upstream"] \o Unsent("upstream")' = Stretch("client", 1, early)
        BY <3>4, <3>7, <3>8, ConcatEmptySeq
      <3>10. Party(Other("client"))' = peer /\ Party(Other("upstream"))' = "client"
        BY <2>1 DEF Party, Other
      <3>11. Conveyed("client")' /\ Conveyed("upstream")'
        BY <3>5, <3>9, <3>10 DEF Conveyed
      <3>12. QED
        BY <2>1, <3>11 DEF Intact, Untouched, NothingLostInside, carrying, Conveyed, Sides
    <2>2. CASE close_now("limit")
      BY <2>2, ClosedIntact DEF close_now, close_and, Idle
    <2>3. CASE attempt_failed(queued) /\ UNCHANGED task
      BY <1>2, <1>4, <2>3 DEF UpstreamAgrees
    <2>4. QED
      BY <1>4, <2>1, <2>2, <2>3, Zenon DEF UpstreamAgrees
  <1>5. CASE ResponseWritten
    BY <1>5, IntactByContents DEF ResponseWritten, carrying
  <1>6. CASE ResponseFails
    BY <1>6, ClosedIntact DEF ResponseFails, close_now, close_and, Idle
  <1>7. CASE FirstUpdateFails
    BY <1>7, IntactByContents DEF FirstUpdateFails, close_and, carrying
  <1>8. QED
    BY <1>1, <1>3, <1>4, <1>5, <1>6, <1>7 DEF Setup

LEMMA HandlerIntact ==
    ASSUME Typed, Intact, Handler
    PROVE  Intact'
  <1>1. ASSUME NEW side \in Sides, NEW n \in AnyCount, Receive(side, n)
        PROVE  Intact'
    <2> DEFINE to    == Other(side)
               from  == Party(side)
               first == taken[from] + 1
               units == Stretch(from, first, first + n - 1)
    <2>1. CASE close_now("limit")
      BY <2>1, ClosedIntact DEF close_now, close_and, Idle
    <2>2. CASE fits(to, n) /\ UNCHANGED <<phase, setup>>
      <3>1. /\ to \in Sides /\ from \in Parties /\ taken[from] \in Nat
            /\ Unsent(to) \in Seq(Units) /\ Unsent(side) \in Seq(Units)
            /\ Other(to) = side /\ to # side
        BY Operands DEF Other, Sides
      <3>2. n \in Nat /\ first + n - 1 = taken[from] + n /\ n \in 1 .. Waiting(side)
        BY <1>1, <3>1, Counts DEF Receive
      <3>3. phase = "websocket_proxy"
        BY <1>1 DEF Receive, Reading
      <3>4. Conveyed(to) /\ Conveyed(side)
        BY <3>1, <3>3 DEF Intact, NothingLostInside, carrying, Conveyed
      <3>5. /\ buffer' = [buffer EXCEPT ![to] = Unsent(to) \o units]
            /\ offset' = [offset EXCEPT ![to] = 0]
            /\ taken' = [taken EXCEPT ![from] = first + n - 1]
            /\ wire' = wire /\ peer' = peer
        BY <1>1, <2>2 DEF Receive, compact_websocket_proxy_buffer
      <3>6. units = Stretch(from, taken[from] + 1, taken[from] + n) /\ units \in Seq(Units)
        <4>1. /\ Waiting(side) = sent[from] - taken[from] /\ sent[from] \in Nat
              /\ sent[from] <= MaxSent[from] /\ MaxSent[from] \in Nat
          BY <3>1, Operands, TunnelAssumption DEF Typed, Heard
        <4>2. taken[from] + n <= MaxSent[from] /\ taken[from] + n \in Nat /\ first \in Nat \ {0}
              /\ first <= taken[from] + n + 1
          <5> HIDE DEF from
          <5>1. QED
            BY <3>1, <3>2, <4>1, SMTT(60)
        <4>3. units = Stretch(from, first, taken[from] + n)
          BY <3>2
        <4>4. QED
          BY <3>1, <4>2, <4>3, StretchType
      <3> HIDE DEF units, first
      <3>7. wire[to] \in Seq(Units)
        BY <3>1 DEF Typed, TypeOK
      <3>8. Unsent(to) \o units \in Seq(Units)
        BY <3>1, <3>6
      <3>9. Unsent(to)' = Unsent(to) \o units
        <4>1. buffer'[to] = Unsent(to) \o units /\ offset'[to] = 0
          BY <3>1, <3>5 DEF Typed, TypeOK
        <4>2. SubSeq(Unsent(to) \o units, 0 + 1, Len(Unsent(to) \o units)) = Unsent(to) \o units
          BY <3>8, AllUnsent, Zenon
        <4>3. QED
          BY <4>1, <4>2 DEF Unsent
      <3>10. wire[to] \o (Unsent(to) \o units) = Stretch(from, 1, taken[from] + n)
        <4>1. wire[to] \o Unsent(to) = Stretch(from, 1, taken[from])
          BY <3>1, <3>4 DEF Conveyed
        <4>2. wire[to] \o (Unsent(to) \o units) = (wire[to] \o Unsent(to)) \o units
          BY <3>1, <3>6, <3>7, ConcatAssoc, Zenon
        <4>3. Stretch(from, 1, taken[from]) \o Stretch(from, taken[from] + 1, taken[from] + n)
                = Stretch(from, 1, taken[from] + n)
          BY <3>1, <3>2, StretchGrows
        <4>4. QED
          BY <3>6, <4>1, <4>2, <4>3, Zenon
      <3>11. taken'[from] = taken[from] + n
        BY <3>1, <3>2, <3>5 DEF Typed, TypeOK
      <3>12. Party(Other(to))' = from /\ Party(Other(side))' = Party(to)
        BY <3>1, <3>5 DEF Party
      <3>13. Conveyed(to)'
        BY <3>5, <3>9, <3>10, <3>11, <3>12 DEF Conveyed
      <3>14. Unsent(side)' = Unsent(side)
        BY <3>1, <3>5 DEF Unsent, Typed, TypeOK
      <3>15. taken'[Party(to)] = taken[Party(to)]
        <4>1. Party(to) \in Parties /\ Party(to) # from
          BY <3>1, TunnelAssumption DEF Party, Parties, Typed, Heard, Sides, Other
        <4>2. QED
          BY <3>5, <4>1 DEF Typed, TypeOK
      <3>16. Conveyed(side)'
        BY <3>4, <3>5, <3>12, <3>14, <3>15 DEF Conveyed
      <3>17. Sides = {to, side}
        BY <3>1 DEF Sides
      <3>18. QED
        BY <2>2, <3>3, <3>13, <3>16, <3>17 DEF Intact, Untouched, NothingLostInside, carrying, Conveyed
    <2>3. QED
      BY <1>1, <2>1, <2>2, Zenon DEF Receive
  <1>2. ASSUME NEW side \in Sides, NEW n \in AnyCount, Transmit(side, n)
        PROVE  Intact'
    <2>1. /\ buffer[side] \in Seq(Units) /\ offset[side] \in 0 .. Len(buffer[side])
          /\ Unsent(side) \in Seq(Units) /\ Len(Unsent(side)) = Len(buffer[side]) - offset[side]
          /\ wire[side] \in Seq(Units)
      BY Operands DEF Typed, TypeOK
    <2>2. n \in 0 .. Len(buffer[side]) - offset[side] /\ n \in Nat
      BY <1>2, <2>1, Counts DEF Transmit
    <2> DEFINE go == SubSeq(Unsent(side), 1, n)
               stay == SubSeq(buffer[side], offset[side] + n + 1, Len(buffer[side]))
    <2>3. go \in Seq(Units) /\ stay \in Seq(Units) /\ go \o stay = Unsent(side)
      BY <2>1, <2>2, FlushedPrefix DEF Unsent
    <2>4. /\ wire' = [wire EXCEPT ![side] = wire[side] \o go]
          /\ offset' = [offset EXCEPT ![side] = offset[side] + n]
          /\ phase' = phase /\ phase # "connecting" /\ carrying
          /\ taken' = taken /\ peer' = peer /\ buffer' = buffer
      BY <1>2 DEF Transmit, Flushing, carrying, Typed, Staged
    <2>5. Unsent(side)' = stay
      BY <2>4 DEF Unsent, Typed, TypeOK
    <2> HIDE DEF go, stay
    <2>6. wire'[side] \o Unsent(side)' = wire[side] \o Unsent(side)
      <3>1. wire'[side] = wire[side] \o go
        BY <2>4 DEF Typed, TypeOK
      <3>2. (wire[side] \o go) \o stay = wire[side] \o (go \o stay)
        BY <2>1, <2>3, ConcatAssoc, Zenon
      <3>3. QED
        BY <2>3, <2>5, <3>1, <3>2
    <2>7. ASSUME NEW s \in Sides
          PROVE  wire'[s] \o Unsent(s)' = wire[s] \o Unsent(s) /\ Party(Other(s))' = Party(Other(s))
      BY <2>4, <2>6 DEF Unsent, Typed, TypeOK, Party, Other
    <2>8. QED
      BY <2>4, <2>7 DEF Intact, Untouched, NothingLostInside, carrying
  <1>3. ASSUME NEW side \in Sides, Transmitted(side)
        PROVE  Intact'
    <2>1. ASSUME NEW s \in Sides
          PROVE  wire'[s] \o Unsent(s)' = wire[s] \o Unsent(s) /\ Party(Other(s))' = Party(Other(s))
      <3>1. CASE s = side
        <4>1. buffer'[s] = <<>> /\ offset'[s] = 0 /\ Unsent(s) = <<>> /\ wire' = wire
          BY <1>3, <3>1 DEF Transmitted, Typed, TypeOK
        <4>2. Unsent(s)' = <<>>
          BY <4>1 DEF Unsent
        <4>3. QED
          BY <1>3, <4>1, <4>2 DEF Transmitted, Party, Other
      <3>2. CASE s # side
        BY <1>3, <3>2 DEF Transmitted, Unsent, Party, Other, Typed, TypeOK
      <3>3. QED
        BY <3>1, <3>2
    <2>2. phase' = phase /\ phase # "connecting" /\ carrying /\ taken' = taken /\ peer' = peer
      BY <1>3 DEF Transmitted, Flushing, carrying, Typed, Staged
    <2>3. QED
      BY <2>1, <2>2 DEF Intact, Untouched, NothingLostInside, carrying
  <1>4. ASSUME NEW side \in Sides, ReceiveBlocked(side) \/ TransmitBlocked(side)
        PROVE  Intact'
    BY <1>4, IntactByContents DEF ReceiveBlocked, TransmitBlocked, Reading, Flushing, carrying
  <1>5. ASSUME NEW side \in Sides, ReceiveEnds(side) \/ TransmitFails(side)
        PROVE  Intact'
    BY <1>5, ClosedIntact DEF ReceiveEnds, TransmitFails, close_now, close_and, Idle
  <1>6. CASE EndHandler
    BY <1>6, IntactByContents DEF EndHandler, carrying
  <1>7. CASE EndHandlerFails
    BY <1>7, ClosedIntact DEF EndHandlerFails, close_now, close_and, Idle
  <1>8. QED
    BY <1>1, <1>2, <1>3, <1>4, <1>5, <1>6, <1>7 DEF Handler

LEMMA NextIntact == Typed /\ Intact /\ [Next]_vars => Intact'
  <1> SUFFICES ASSUME Typed, Intact, [Next]_vars PROVE Intact'
    OBVIOUS
  <1>1. CASE Peers
    BY <1>1, IntactByContents
    DEF Peers, PeerSends, PeerLeaves, UpstreamAnswers, PeerReads, Tick, carrying
  <1>2. ASSUME NEW side \in Sides, WakeUp(side) \/ HangUp(side)
        PROVE  Intact'
    BY <1>2, IntactByContents, ClosedIntact
    DEF WakeUp, HangUp, close_now, close_and, Idle, carrying
  <1>3. CASE Expire
    BY <1>3, ClosedIntact DEF Expire, close_now, close_and, Idle
  <1>4. CASE UNCHANGED vars
    BY <1>4, IntactByContents DEF vars, carrying
  <1>5. QED
    BY <1>1, <1>2, <1>3, <1>4, SetupIntact, HandlerIntact DEF Next

LEMMA InitIntact == Init => Intact
  BY DEF Init, Intact, Untouched, NothingLostInside, carrying

(***************************************************************************)
(* Until the last handler has ended every unit the server has received     *)
(* from one end is on the wire to the other or in its buffer, in its place:*)
(* appends, partial sends and compactions (server.cpp) drop and repeat     *)
(* nothing, and no failed attempt leaves anything behind.                  *)
(***************************************************************************)
THEOREM NothingIsLostInside == Safety => []NothingLostInside
  <1>1. Init => Typed /\ Intact
    BY InitTyped, InitIntact
  <1>2. Typed /\ Intact /\ [Next]_vars => (Typed /\ Intact)'
    BY NextTyped, NextIntact
  <1>3. Typed /\ Intact => NothingLostInside
    BY DEF Intact
  <1>4. QED
    BY <1>1, <1>2, <1>3, PTL DEF Safety

----------------------------------------------------------------------------
(* The events the descriptors are registered for.                          *)

\* A handler in progress will go through update_websocket_proxy_events, or close.
LEMMA HandlerWatched ==
    ASSUME Typed, Handler
    PROVE  NoLostWakeup'
  <1> SUFFICES ASSUME phase' = "websocket_proxy", task' = Idle
               PROVE  \A side \in Sides :
                         /\ "IN" \in interest'[side]
                         /\ Unsent(side)' # <<>> => "OUT" \in interest'[side]
    BY DEF NoLostWakeup
  <1> USE DEF Idle
  <1>1. ASSUME NEW side \in Sides, NEW n \in AnyCount, Receive(side, n)
        PROVE  FALSE
    BY <1>1 DEF Receive, Reading, close_now, close_and, Idle
  <1>2. ASSUME NEW side \in Sides, NEW n \in AnyCount, Transmit(side, n)
        PROVE  FALSE
    BY <1>2 DEF Transmit, Flushing
  <1>3. ASSUME NEW side \in Sides, ReceiveBlocked(side) \/ ReceiveEnds(side)
        PROVE  FALSE
    BY <1>3 DEF ReceiveBlocked, ReceiveEnds, Reading, close_now, close_and, Idle
  <1>4. phase = "websocket_proxy" => next_task.job # "idle"
    BY DEF next_task, Typed, TypeOK, Staged
  <1>5. ASSUME NEW side \in Sides, TransmitBlocked(side) \/ Transmitted(side) \/ TransmitFails(side)
        PROVE  FALSE
    BY <1>4, <1>5 DEF TransmitBlocked, Transmitted, TransmitFails, close_now, close_and, Idle
  <1>6. CASE EndHandler
    <2> TAKE side \in Sides
    <2>1. /\ interest'[side] = {"IN"} \cup extra[side] \cup (IF buffer[side] = <<>> THEN {} ELSE {"OUT"})
          /\ buffer' = buffer /\ offset' = offset
      BY <1>6 DEF EndHandler, update_websocket_proxy_events
    <2>2. buffer[side] = <<>> => Unsent(side)' = <<>>
      <3>1. offset[side] \in 0 .. Len(buffer[side])
        BY Operands, Zenon
      <3>2. QED
        BY <2>1, <3>1 DEF Unsent
    <2>3. QED
      BY <2>1, <2>2
  <1>7. CASE EndHandlerFails
    BY <1>7 DEF EndHandlerFails, close_now, close_and, Idle
  <1>8. QED
    BY <1>1, <1>2, <1>3, <1>5, <1>6, <1>7 DEF Handler

LEMMA NextWatched == Typed /\ NoLostWakeup /\ [Next]_vars => NoLostWakeup'
  <1> SUFFICES ASSUME Typed, NoLostWakeup, [Next]_vars PROVE NoLostWakeup'
    OBVIOUS
  <1> USE DEF NoLostWakeup
  <1>1. CASE Peers
    BY <1>1 DEF Peers, PeerSends, PeerLeaves, UpstreamAnswers, PeerReads, Tick, Unsent
  <1>2. CASE Setup
    <2>1. CASE TcpConnected \/ TlsConnected \/ RequestWritten
      BY <2>1 DEF TcpConnected, TlsConnected, RequestWritten, Enter
    <2>2. CASE AttemptFails
      BY <2>2 DEF AttemptFails, attempt_failed, next_upstream
    <2>3. ASSUME NEW n \in AnyCount, UpstreamAgrees(n)
          PROVE  NoLostWakeup'
      BY <2>3 DEF UpstreamAgrees, attempt_failed, next_upstream, close_now, close_and, Idle
    <2>4. CASE ResponseWritten
      BY <2>4 DEF ResponseWritten, Idle
    <2>5. CASE ResponseFails
      BY <2>5 DEF ResponseFails, close_now, close_and, Idle
    <2>6. CASE FirstUpdateFails
      BY <2>6 DEF FirstUpdateFails, close_and
    <2>7. QED
      BY <1>2, <2>1, <2>2, <2>3, <2>4, <2>5, <2>6 DEF Setup
  <1>3. CASE Handler
    BY <1>3, HandlerWatched
  <1>4. ASSUME NEW side \in Sides, WakeUp(side) \/ HangUp(side)
        PROVE  NoLostWakeup'
    BY <1>4 DEF WakeUp, HangUp, close_now, close_and, Idle
  <1>5. CASE Expire
    BY <1>5 DEF Expire, close_now, close_and, Idle
  <1>6. CASE UNCHANGED vars
    BY <1>6 DEF vars, Unsent
  <1>7. QED
    BY <1>1, <1>2, <1>3, <1>4, <1>5, <1>6 DEF Next

(***************************************************************************)
(* Between two events no queued byte waits for an event its descriptor is  *)
(* not registered for, whichever side's handler queued it: every handler   *)
(* ends in update_websocket_proxy_events (server.cpp), for both sides.     *)
(***************************************************************************)
THEOREM NoWakeupIsLost == Safety => []NoLostWakeup
  <1>1. Init => Typed /\ NoLostWakeup
    BY InitTyped DEF Init, NoLostWakeup
  <1>2. Typed /\ NoLostWakeup /\ [Next]_vars => (Typed /\ NoLostWakeup)'
    BY NextTyped, NextWatched
  <1>3. QED
    BY <1>1, <1>2, PTL DEF Safety

----------------------------------------------------------------------------
(* Closing for the buffer limit.                                           *)

\* Only closed connections have been given a reason.
Reasoned == cause # "none" => phase = "closed"

Honest == Reasoned /\ OverflowIsReal

LEMMA HonestByContents ==
    ASSUME Honest, UNCHANGED <<taken, wire, peer, cause>>, phase' = phase \/ phase # "closed"
    PROVE  Honest'
  BY DEF Honest, Reasoned, OverflowIsReal, Party, Other

LEMMA HonestByReason ==
    ASSUME NEW why, NEW next, close_and(why, next), why # "limit"
    PROVE  Honest'
  BY DEF Honest, Reasoned, OverflowIsReal, close_and

\* While a connection is not closed its cause says nothing.
LEMMA HonestUnclosed ==
    ASSUME Honest, phase # "closed", cause' = cause
    PROVE  Honest'
  BY DEF Honest, Reasoned, OverflowIsReal

\* A flush comes before the closing, or after one that the limit did not cause.
LEMMA HonestFlush ==
    ASSUME Typed, Honest, NEW side \in Sides, Flushing(side), UNCHANGED <<phase, cause>>
    PROVE  Honest'
  BY DEF Typed, Staged, Flushing, Honest, Reasoned, OverflowIsReal

LEMMA NextHonest == Typed /\ Intact /\ Honest /\ [Next]_vars => Honest'
  <1> SUFFICES ASSUME Typed, Intact, Honest, [Next]_vars PROVE Honest'
    OBVIOUS
  <1>1. CASE Peers
    BY <1>1, HonestByContents DEF Peers, PeerSends, PeerLeaves, UpstreamAnswers, PeerReads, Tick
  <1>2. CASE TcpConnected \/ TlsConnected \/ RequestWritten \/ AttemptFails \/ ResponseWritten
    BY <1>2, HonestUnclosed
    DEF TcpConnected, TlsConnected, RequestWritten, AttemptFails, ResponseWritten, Enter
  <1>3. ASSUME NEW n \in AnyCount, UpstreamAgrees(n)
        PROVE  Honest'
    <2> DEFINE early == taken["client"]
    <2>1. CASE UNCHANGED cause
      BY <1>3, <2>1, HonestUnclosed DEF UpstreamAgrees
    <2>2. CASE ~(fits("client", n) /\ fits("upstream", early)) /\ close_now("limit")
      <3>1. \A side \in Sides : Unsent(side) = <<>> /\ wire[side] = <<>>
        <4>1. ASSUME NEW side \in Sides
              PROVE  Unsent(side) = <<>> /\ wire[side] = <<>>
          <5>1. buffer[side] = <<>> /\ wire[side] = <<>>
            BY <1>3 DEF UpstreamAgrees, Intact, Untouched
          <5>2. offset[side] \in 0 .. Len(buffer[side])
            BY Operands, Zenon
          <5>3. QED
            BY <5>1, <5>2 DEF Unsent
        <4>2. QED
          BY <4>1
      <3>2. n \in Nat /\ early \in Nat /\ "client" \in Parties /\ peer \in Parties /\ peer # "client"
        BY Counts, TunnelAssumption DEF Typed, TypeOK, Heard, Parties
      <3>3. taken'[peer] = n /\ taken'["client"] = early /\ wire' = wire /\ peer' = peer
        BY <1>3, <2>2, <3>2 DEF UpstreamAgrees, close_now, close_and, Typed, TypeOK
      <3>4. Party(Other("client"))' = peer /\ Party(Other("upstream"))' = "client"
        BY <3>3 DEF Party, Other
      <3>5. n > websocket_proxy_buffer_limit \/ early > websocket_proxy_buffer_limit
        BY <2>2, <3>1, <3>2, TunnelAssumption DEF fits, Sides
      <3>6. /\ taken'[Party(Other("client"))'] - Len(wire'["client"]) = n
            /\ taken'[Party(Other("upstream"))'] - Len(wire'["upstream"]) = early
        BY <3>1, <3>2, <3>3, <3>4 DEF Sides
      <3>7. QED
        BY <2>2, <3>5, <3>6 DEF Honest, Reasoned, OverflowIsReal, close_now, close_and, Sides
    <2>3. QED
      BY <1>3, <2>1, <2>2 DEF UpstreamAgrees
  <1>4. ASSUME NEW side \in Sides, NEW n \in AnyCount, Receive(side, n)
        PROVE  Honest'
    <2> DEFINE to   == Other(side)
               from == Party(side)
    <2>1. CASE UNCHANGED cause
      BY <1>4, <2>1, HonestUnclosed DEF Receive, Reading
    <2>2. CASE ~fits(to, n) /\ close_now("limit")
      <3>1. /\ to \in Sides /\ from \in Parties /\ taken[from] \in Nat
            /\ Unsent(to) \in Seq(Units) /\ Other(to) = side /\ wire[to] \in Seq(Units)
        BY Operands DEF Other, Sides, Typed, TypeOK
      <3>2. n \in Nat
        BY Counts
      <3>3. Len(wire[to]) + Len(Unsent(to)) = taken[from]
        <4>1. wire[to] \o Unsent(to) = Stretch(from, 1, taken[from])
          BY <1>4, <3>1 DEF Intact, NothingLostInside, carrying, Receive, Reading
        <4>2. Len(wire[to] \o Unsent(to)) = Len(wire[to]) + Len(Unsent(to))
          BY <3>1, ConcatProperties
        <4>3. Len(Stretch(from, 1, taken[from])) = taken[from]
          BY <3>1, StretchFromFirst, Zenon
        <4>4. QED
          BY <4>1, <4>2, <4>3
      <3>4. taken'[from] = taken[from] + n /\ wire' = wire /\ peer' = peer
        <4>1. taken' = [taken EXCEPT ![from] = taken[from] + 1 + n - 1] /\ wire' = wire /\ peer' = peer
          BY <1>4, <2>2 DEF Receive, close_now, close_and, Idle
        <4>2. taken[from] + 1 + n - 1 = taken[from] + n
          BY <3>1, <3>2
        <4>3. QED
          BY <3>1, <4>1, <4>2 DEF Typed, TypeOK
      <3>5. Party(Other(to))' = from
        BY <3>1, <3>4 DEF Party
      <3>6. Len(Unsent(to)) + n > websocket_proxy_buffer_limit
        BY <2>2, <3>1, <3>2, TunnelAssumption DEF fits
      <3>7. taken'[from] - Len(wire'[to]) > websocket_proxy_buffer_limit
        <4> HIDE DEF to, from
        <4>1. Len(wire[to]) \in Nat /\ Len(Unsent(to)) \in Nat
          BY <3>1
        <4>2. QED
          BY <3>1, <3>2, <3>3, <3>4, <3>6, <4>1, TunnelAssumption
      <3>8. QED
        BY <2>2, <3>1, <3>5, <3>7 DEF Honest, Reasoned, OverflowIsReal, close_now, close_and, Idle
    <2>3. QED
      BY <1>4, <2>1, <2>2 DEF Receive
  <1>5. ASSUME NEW side \in Sides, NEW n \in AnyCount, Transmit(side, n)
        PROVE  Honest'
    BY <1>5, HonestFlush DEF Transmit
  <1>6. ASSUME NEW side \in Sides,
               \/ ReceiveBlocked(side) \/ TransmitBlocked(side) \/ Transmitted(side) \/ WakeUp(side)
        PROVE  Honest'
    BY <1>6, HonestUnclosed, HonestFlush
    DEF ReceiveBlocked, TransmitBlocked, Transmitted, WakeUp, Reading
  <1>7. ASSUME NEW side \in Sides, ReceiveEnds(side) \/ TransmitFails(side) \/ HangUp(side)
        PROVE  Honest'
    BY <1>7, HonestByReason DEF ReceiveEnds, TransmitFails, HangUp, close_now
  <1>8. CASE EndHandler
    BY <1>8, HonestUnclosed DEF EndHandler
  <1>9. CASE ResponseFails \/ FirstUpdateFails \/ EndHandlerFails \/ Expire
    BY <1>9, HonestByReason DEF ResponseFails, FirstUpdateFails, EndHandlerFails, Expire, close_now
  <1>10. CASE UNCHANGED vars
    BY <1>10, HonestByContents DEF vars
  <1>11. QED
    BY <1>1, <1>2, <1>3, <1>4, <1>5, <1>6, <1>7, <1>8, <1>9, <1>10 DEF Next, Setup, Handler

(***************************************************************************)
(* A tunnel is closed for its buffer limit only when one side really is    *)
(* that far behind: what append_websocket_proxy_buffer measures is what    *)
(* has been received and not passed on, never bytes already sent.          *)
(***************************************************************************)
THEOREM OverflowsAreReal == Safety => []OverflowIsReal
  <1>1. Init => Typed /\ Intact /\ Honest
    BY InitTyped, InitIntact DEF Init, Honest, Reasoned, OverflowIsReal
  <1>2. Typed /\ Intact /\ Honest /\ [Next]_vars => (Typed /\ Intact /\ Honest)'
    BY NextTyped, NextIntact, NextHonest
  <1>3. Typed /\ Intact /\ Honest => OverflowIsReal
    BY DEF Honest
  <1>4. QED
    BY <1>1, <1>2, <1>3, PTL DEF Safety

----------------------------------------------------------------------------
(***************************************************************************)
(* The tunnel implements DuplexChannel.                                    *)
(***************************************************************************)

\* A step that changes nothing the channel shows.
LEMMA Unseen ==
    ASSUME UNCHANGED <<peer, sent, wire>>, carrying' = carrying
    PROVE  UNCHANGED Channel!vars
  BY DEF Channel!vars

\* A handler that goes on looks the same to the channel, one that ends a closed
\* connection closes the channel.
LEMMA Closes ==
    ASSUME UNCHANGED <<peer, sent, wire>>, carrying, ~carrying'
    PROVE  Channel!Close
  BY DEF Channel!Close, carrying

\* Giving an upstream up links the client to the next one, or closes the channel.
LEMMA GivesUp ==
    ASSUME Typed, Untouched, phase = "connecting", next_upstream, UNCHANGED <<sent, wire, task>>
    PROVE  [Channel!Next]_(Channel!vars)
  <1>1. CASE left = <<>> /\ phase' = "refused" /\ UNCHANGED setup
    <2>1. Channel!Close
      BY <1>1, Closes DEF carrying, Typed, Staged
    <2>2. QED
      BY <2>1 DEF Channel!Next
  <1>2. CASE left # <<>> /\ phase' = phase /\ peer' = Head(left)
    <2>1. Head(left) \in Upstreams
      BY <1>2, HeadTailProperties DEF Typed, TypeOK
    <2>2. Channel!Link(Head(left))
      BY <1>2 DEF Channel!Link, Channel!Sides, Sides, Untouched, carrying
    <2>3. QED
      BY <2>1, <2>2 DEF Channel!Next
  <1>3. QED
    BY <1>1, <1>2 DEF next_upstream

\* A flush delivers the next units of the other end.
LEMMA Delivers ==
    ASSUME Typed, Intact, NEW side \in Sides, NEW n \in AnyCount, Transmit(side, n)
    PROVE  Channel!Deliver(side)
  <1> DEFINE from == Party(Other(side))
             go   == SubSeq(Unsent(side), 1, n)
             m    == Len(wire[side]) + n
  <1>1. /\ Unsent(side) \in Seq(Units) /\ wire[side] \in Seq(Units)
        /\ from \in Parties /\ taken[from] \in Nat /\ sent[from] \in Nat /\ taken[from] <= sent[from]
    <2>1. Other(side) \in Sides /\ Unsent(side) \in Seq(Units)
      BY Operands, Zenon
    <2>2. from \in Parties /\ taken[from] \in Nat /\ sent[from] \in Nat
      BY <2>1, Operands, Zenon
    <2>3. QED
      BY <2>1, <2>2 DEF Typed, TypeOK, Heard
  <1>2. n \in 1 .. Len(Unsent(side)) /\ n \in Nat /\ phase # "connecting" /\ carrying
    BY Counts DEF Transmit, Flushing, carrying, Typed, Staged
  <1>3. wire[side] \o Unsent(side) = Stretch(from, 1, taken[from])
    BY <1>2 DEF Intact, NothingLostInside, carrying
  <1>4. Channel!Source(side) = from
    BY DEF Channel!Source, Party, Other, Sides
  <1>5. wire' = [wire EXCEPT ![side] = wire[side] \o go]
    BY DEF Transmit
  <1>6. UNCHANGED <<peer, sent, carrying>> /\ peer # NoUpstream
    BY TunnelAssumption DEF Transmit, Typed, Heard, Parties, carrying
  <1>7. /\ Len(wire[side]) \in Nat /\ Len(Unsent(side)) \in Nat
        /\ Len(wire[side]) + Len(Unsent(side)) = taken[from]
    <2>1. Len(wire[side] \o Unsent(side)) = Len(wire[side]) + Len(Unsent(side))
      BY <1>1, ConcatProperties
    <2>2. Len(Stretch(from, 1, taken[from])) = taken[from]
      BY <1>1, StretchFromFirst, Zenon
    <2>3. Len(wire[side]) \in Nat /\ Len(Unsent(side)) \in Nat
      BY <1>1, LenProperties
    <2>4. QED
      BY <1>3, <2>1, <2>2, <2>3, Zenon
  <1> HIDE DEF from
  <1>8. m \in Len(wire[side]) + 1 .. sent[from] /\ m \in Nat
    BY <1>1, <1>2, <1>7
  <1>9. wire[side] \o go = Channel!Stream(from, m)
    <2>1. go \in Seq(Units) /\ Len(go) = n /\ \A i \in 1 .. n : go[i] = Unsent(side)[i]
      BY <1>1, <1>2, SubSeqProperties
    <2> HIDE DEF go
    <2>2. /\ wire[side] \o go \in Seq(Units) /\ Len(wire[side] \o go) = m
          /\ \A i \in 1 .. m : (wire[side] \o go)[i]
                = IF i <= Len(wire[side]) THEN wire[side][i] ELSE go[i - Len(wire[side])]
      BY <1>1, <2>1, ConcatProperties
    <2>3. \A i \in 1 .. taken[from] : (wire[side] \o Unsent(side))[i]
                = IF i <= Len(wire[side]) THEN wire[side][i] ELSE Unsent(side)[i - Len(wire[side])]
      BY <1>1, <1>7, ConcatProperties
    <2>4. \A i \in 1 .. taken[from] : (wire[side] \o Unsent(side))[i] = <<from, i>>
      <3>1. Stretch(from, 1, taken[from]) = [i \in 1 .. taken[from] |-> <<from, i>>]
        BY <1>1, StretchFromFirst, Zenon
      <3>2. QED
        BY <1>3, <3>1
    <2>5. ASSUME NEW i \in 1 .. m
          PROVE  (wire[side] \o go)[i] = <<from, i>>
      <3>1. i \in 1 .. taken[from]
        BY <1>2, <1>7
      <3>2. CASE i <= Len(wire[side])
        BY <2>2, <2>3, <2>4, <3>1, <3>2
      <3>3. CASE ~(i <= Len(wire[side]))
        <4>1. i - Len(wire[side]) \in 1 .. n
          BY <1>2, <1>7, <3>3
        <4>2. go[i - Len(wire[side])] = Unsent(side)[i - Len(wire[side])]
          BY <2>1, <4>1
        <4>3. QED
          BY <2>2, <2>3, <2>4, <3>1, <3>3, <4>2
      <3>4. QED
        BY <3>2, <3>3
    <2>6. wire[side] \o go = [i \in 1 .. m |-> <<from, i>>]
      <3> DEFINE whole == wire[side] \o go
      <3> HIDE DEF whole
      <3>1. whole \in [1 .. m -> Units]
        <4>1. whole \in Seq(Units) /\ Len(whole) = m
          BY <2>2 DEF whole
        <4>2. whole \in [1 .. Len(whole) -> Units]
          BY <4>1, LenProperties, Zenon
        <4>3. QED
          BY <4>1, <4>2, Zenon
      <3>2. \A i \in 1 .. m : whole[i] = <<from, i>>
        BY <2>5 DEF whole
      <3>3. whole = [i \in 1 .. m |-> <<from, i>>]
        BY <3>1, <3>2
      <3>4. QED
        BY <3>3 DEF whole
    <2>7. QED
      BY <2>6 DEF Channel!Stream
  <1>10. QED
    BY <1>2, <1>4, <1>5, <1>6, <1>8, <1>9 DEF Channel!Deliver

LEMMA StepImplementsChannel ==
    ASSUME Typed, Intact, [Next]_vars
    PROVE  [Channel!Next]_(Channel!vars)
  <1>1. ASSUME NEW p \in Parties, PeerSends(p)
        PROVE  Channel!Next
    <2>1. Channel!Send(p)
      BY <1>1 DEF PeerSends, Channel!Send, carrying
    <2>2. QED
      BY <2>1 DEF Channel!Next, Channel!Parties, Parties
  <1>2. ASSUME \/ \E p \in Parties : PeerLeaves(p)
               \/ \E u \in Upstreams : UpstreamAnswers(u)
               \/ \E side \in Sides : PeerReads(side)
               \/ Tick
        PROVE  UNCHANGED Channel!vars
    BY <1>2, Unseen DEF PeerLeaves, UpstreamAnswers, PeerReads, Tick, carrying
  <1>3. CASE TcpConnected \/ TlsConnected \/ RequestWritten
    BY <1>3, Unseen DEF TcpConnected, TlsConnected, RequestWritten, Enter, carrying
  <1>4. CASE AttemptFails
    BY <1>4, GivesUp DEF AttemptFails, attempt_failed, Intact
  <1>5. ASSUME NEW n \in AnyCount, UpstreamAgrees(n)
        PROVE  [Channel!Next]_(Channel!vars)
    <2> DEFINE queued == [client   |-> buffer["client"] \o Stretch(peer, 1, n),
                          upstream |-> buffer["upstream"] \o Stretch("client", 1, taken["client"])]
    <2>1. phase = "connecting" /\ UNCHANGED <<sent, wire>>
      BY <1>5 DEF UpstreamAgrees
    <2>2. CASE phase' = "writing" /\ UNCHANGED peer
      BY <2>1, <2>2, Unseen DEF carrying
    <2>3. CASE close_now("limit")
      <3>1. Channel!Close
        BY <2>1, <2>3, Closes DEF close_now, close_and, Idle, carrying
      <3>2. QED
        BY <3>1 DEF Channel!Next
    <2>4. CASE attempt_failed(queued) /\ UNCHANGED task
      BY <2>1, <2>4, GivesUp DEF attempt_failed, Intact
    <2>5. QED
      BY <1>5, <2>2, <2>3, <2>4, Zenon DEF UpstreamAgrees
  <1>6. CASE ResponseWritten
    BY <1>6, Unseen DEF ResponseWritten, carrying
  <1>7. CASE FirstUpdateFails
    BY <1>7, Unseen DEF FirstUpdateFails, close_and, carrying
  <1>8. ASSUME NEW why, close_now(why), carrying, UNCHANGED <<sent, wire>>
        PROVE  [Channel!Next]_(Channel!vars)
    <2>1. Channel!Close
      BY <1>8, Closes DEF close_now, close_and, Idle, carrying
    <2>2. QED
      BY <2>1 DEF Channel!Next
  <1>9. CASE ResponseFails \/ EndHandlerFails \/ Expire
    BY <1>8, <1>9 DEF ResponseFails, EndHandlerFails, Expire, carrying
  <1>10. ASSUME NEW side \in Sides, NEW n \in AnyCount, Receive(side, n)
        PROVE  [Channel!Next]_(Channel!vars)
    <2>1. CASE UNCHANGED <<phase, setup>>
      BY <1>10, <2>1, Unseen DEF Receive, Reading, carrying
    <2>2. CASE close_now("limit")
      BY <1>8, <1>10, <2>2 DEF Receive, Reading, carrying
    <2>3. QED
      BY <1>10, <2>1, <2>2 DEF Receive
  <1>11. ASSUME NEW side \in Sides, NEW n \in AnyCount, Transmit(side, n)
         PROVE  Channel!Next
    <2>1. Channel!Deliver(side)
      BY <1>11, Delivers
    <2>2. QED
      BY <2>1 DEF Channel!Next, Channel!Sides, Sides
  <1>12. ASSUME NEW side \in Sides, ReceiveBlocked(side) \/ WakeUp(side)
         PROVE  UNCHANGED Channel!vars
    BY <1>12, Unseen DEF ReceiveBlocked, WakeUp, Reading, carrying
  <1>13. ASSUME NEW side \in Sides, TransmitBlocked(side) \/ Transmitted(side)
         PROVE  [Channel!Next]_(Channel!vars)
    <2>1. /\ UNCHANGED <<peer, sent, wire, phase>> /\ Flushing(side)
          /\ task' = next_task
      BY <1>13 DEF TransmitBlocked, Transmitted
    <2>2. CASE task.job = "last_flush"
      <3>1. phase' = "closed" /\ task'.job = "idle"
        BY <2>1, <2>2 DEF Typed, TypeOK, Staged, next_task
      <3>2. Channel!Close
        BY <2>1, <2>2, <3>1, Closes DEF carrying
      <3>3. QED
        BY <3>2 DEF Channel!Next
    <2>3. CASE task.job # "last_flush"
      <3>1. phase = "websocket_proxy"
        BY <2>1, <2>3 DEF Flushing
      <3>2. QED
        BY <2>1, <3>1, Unseen DEF carrying
    <2>4. QED
      BY <2>2, <2>3
  <1>14. ASSUME NEW side \in Sides, ReceiveEnds(side) \/ TransmitFails(side) \/ HangUp(side)
         PROVE  [Channel!Next]_(Channel!vars)
    BY <1>8, <1>14 DEF ReceiveEnds, TransmitFails, HangUp, Reading, Flushing, carrying
  <1>15. CASE EndHandler
    BY <1>15, Unseen DEF EndHandler, carrying
  <1>16. CASE UNCHANGED vars
    BY <1>16, Unseen DEF vars, carrying
  <1>17. QED
    BY <1>1, <1>2, <1>3, <1>4, <1>5, <1>6, <1>9, <1>10, <1>11, <1>12, <1>14, <1>15, <1>16,
       <1>7, <1>13
    DEF Next, Peers, Setup, Handler

LEMMA InitImplementsChannel == Init => Channel!Init
  <1> SUFFICES ASSUME Init PROVE Channel!Init
    OBVIOUS
  <1>1. Typed
    BY InitTyped
  <1>2. sent \in [Parties -> Nat] /\ peer \in Upstreams
    BY <1>1, Counts DEF Typed, TypeOK, Heard
  <1>3. QED
    BY <1>2 DEF Init, carrying, Channel!Init, Channel!Parties, Channel!Sides, Parties, Sides

(***************************************************************************)
(* The tunnel implements DuplexChannel: each end gets what the other sent, *)
(* each unit once and in order from the first, and nothing of an upstream  *)
(* that try_start_websocket_proxy gave up, or after the handler in which   *)
(* close_now was called.                                                   *)
(***************************************************************************)
THEOREM TunnelImplementsDuplexChannel == Safety => ImplementsDuplexChannel
  <1>1. Init => Typed /\ Intact
    BY InitTyped, InitIntact
  <1>2. Typed /\ Intact /\ [Next]_vars => (Typed /\ Intact)'
    BY NextTyped, NextIntact
  <1>3. Typed /\ Intact /\ [Next]_vars => [Channel!Next]_(Channel!vars)
    BY StepImplementsChannel
  <1>4. QED
    BY <1>1, <1>2, <1>3, InitImplementsChannel, PTL DEF Safety, ImplementsDuplexChannel, Channel!Spec
============================================================================
