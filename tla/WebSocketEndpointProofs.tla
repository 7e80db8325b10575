---------------------- MODULE WebSocketEndpointProofs ----------------------
(***************************************************************************)
(* Proofs about WebSocketEndpoint: the frames of a client are answered     *)
(* once, in order and completely, for every frame, every number of frames, *)
(* every limit and every way the bytes are cut.                            *)
(***************************************************************************)
EXTENDS WebSocketEndpoint, CommonLemmas

Answer == [op : {"data", "pong", "close"}, to : 1 .. MaxFrames]

----------------------------------------------------------------------------
(* The units of the first n frames of fs, and the replies owed for them.   *)

FrameUnits(fs, i) == [k \in 1 .. frame_units(fs[i]) |-> <<i, k>>]
StreamOf(fs, n) == FlattenSeq([i \in 1 .. n |-> FrameUnits(fs, i)])

ReplyTo(fs, i) ==
    LET kind == fs[i].kind
        op   == IF kind = "ping" THEN "pong" ELSE IF kind = "data" THEN "data" ELSE "close"
    IN  IF kind = "pong" THEN <<>> ELSE <<[op |-> op, to |-> i]>>
RepliesOf(fs, n) == FlattenSeq([i \in 1 .. n |-> ReplyTo(fs, i)])

LEMMA FrameAtIndex ==
    ASSUME NEW fs \in Seq(Frames), NEW i \in 1 .. Len(fs)
    PROVE  /\ fs[i] \in Frames /\ fs[i].kind \in Kinds /\ fs[i].length \in Nat
           /\ header_units(fs[i]) \in {1, 2}
           /\ frame_units(fs[i]) \in Nat /\ frame_units(fs[i]) >= 2
           /\ frame_units(fs[i]) > header_units(fs[i])
  <1>1. fs[i] \in Frames
    OBVIOUS
  <1>2. fs[i].kind \in Kinds /\ fs[i].length \in Nat
    BY <1>1, EndpointAssumption
  <1>3. header_units(fs[i]) \in {1, 2}
    BY Zenon DEF header_units
  <1> HIDE DEF header_units
  <1>4. QED
    BY <1>1, <1>2, <1>3 DEF frame_units

LEMMA FrameUnitsTyped ==
    ASSUME NEW fs \in Seq(Frames), NEW i \in 1 .. Len(fs)
    PROVE  /\ FrameUnits(fs, i) \in Seq(Nat \X Nat)
           /\ Len(FrameUnits(fs, i)) = frame_units(fs[i])
           /\ FrameUnits(fs, i)[1] = <<i, 1>>
  <1> DEFINE n == frame_units(fs[i])
  <1>1. n \in Nat /\ n >= 2 /\ i \in Nat
    BY FrameAtIndex
  <1>2. FrameUnits(fs, i) = [k \in 1 .. n |-> <<i, k>>]
    BY Zenon DEF FrameUnits
  <1> HIDE DEF n
  <1>3. \A k \in 1 .. n : <<i, k>> \in Nat \X Nat
    BY <1>1
  <1>4. FrameUnits(fs, i) \in Seq(Nat \X Nat) /\ Len(FrameUnits(fs, i)) = n
    BY <1>1, <1>2, <1>3
  <1>5. FrameUnits(fs, i)[1] = <<i, 1>>
    BY <1>1, <1>2
  <1>6. QED
    BY <1>4, <1>5 DEF n

LEMMA StreamTyped ==
    ASSUME NEW fs \in Seq(Frames), NEW n \in 0 .. Len(fs)
    PROVE  StreamOf(fs, n) \in Seq(Nat \X Nat)
  <1> DEFINE u == [i \in 1 .. n |-> FrameUnits(fs, i)]
  <1>1. \A i \in 1 .. n : FrameUnits(fs, i) \in Seq(Nat \X Nat)
    BY FrameUnitsTyped
  <1>2. u \in Seq(Seq(Nat \X Nat))
    BY <1>1
  <1> HIDE DEF u
  <1>3. FlattenSeq(u) \in Seq(Nat \X Nat)
    BY <1>2, FlattenTyped
  <1>4. QED
    BY <1>3, Zenon DEF StreamOf, u

LEMMA StreamEmpty ==
    ASSUME NEW fs
    PROVE  StreamOf(fs, 0) = <<>>
  <1> DEFINE u == [i \in 1 .. 0 |-> FrameUnits(fs, i)]
  <1>1. u = <<>> /\ Len(u) = 0
    OBVIOUS
  <1> HIDE DEF u
  <1>2. FlattenSeq(u) = <<>>
    BY <1>1, FlattenIs, Zenon
  <1>3. QED
    BY <1>2, Zenon DEF StreamOf, u

LEMMA StreamStep ==
    ASSUME NEW fs \in Seq(Frames), NEW n \in 0 .. Len(fs), n < Len(fs)
    PROVE  /\ StreamOf(fs, n + 1) = StreamOf(fs, n) \o FrameUnits(fs, n + 1)
           /\ Len(StreamOf(fs, n + 1)) = Len(StreamOf(fs, n)) + frame_units(fs[n + 1])
  <1> DEFINE u == [i \in 1 .. n |-> FrameUnits(fs, i)]
             v == [i \in 1 .. n + 1 |-> FrameUnits(fs, i)]
  <1>1. \A i \in 1 .. Len(fs) : FrameUnits(fs, i) \in Seq(Nat \X Nat)
    BY FrameUnitsTyped
  <1>2. /\ u \in Seq(Seq(Nat \X Nat)) /\ v \in Seq(Seq(Nat \X Nat))
        /\ Len(u) = n /\ Len(v) = n + 1
    BY <1>1
  <1>3. \A i \in 1 .. Len(u) : u[i] = v[i]
    BY <1>2
  <1>4. v[Len(v)] = FrameUnits(fs, n + 1)
    BY <1>2
  <1>5. StreamOf(fs, n) = FlattenSeq(u) /\ StreamOf(fs, n + 1) = FlattenSeq(v)
    BY Zenon DEF StreamOf
  <1> HIDE DEF u, v
  <1>6. Len(v) = Len(u) + 1
    BY <1>2
  <1>7. FlattenSeq(v) = FlattenSeq(u) \o v[Len(v)]
    BY <1>2, <1>3, <1>6, FlattenStep
  <1>8. StreamOf(fs, n + 1) = StreamOf(fs, n) \o FrameUnits(fs, n + 1)
    BY <1>4, <1>5, <1>7, Zenon
  <1>9. n + 1 \in 1 .. Len(fs)
    OBVIOUS
  <1>10. /\ StreamOf(fs, n) \in Seq(Nat \X Nat) /\ FrameUnits(fs, n + 1) \in Seq(Nat \X Nat)
         /\ Len(FrameUnits(fs, n + 1)) = frame_units(fs[n + 1])
    BY <1>9, StreamTyped, FrameUnitsTyped, Zenon
  <1>11. QED
    BY <1>8, <1>10

\* The units of the first n frames begin the units of the first m.
Begins(s, t) == Len(s) <= Len(t) /\ \A k \in 1 .. Len(s) : t[k] = s[k]

LEMMA BeginsFurther ==
    ASSUME NEW S, NEW r \in Seq(S), NEW s \in Seq(S), NEW t \in Seq(S), Begins(r, s)
    PROVE  Begins(r, s \o t)
  BY DEF Begins

LEMMA StreamPrefix ==
    ASSUME NEW fs \in Seq(Frames), NEW n \in 0 .. Len(fs)
    PROVE  \A m \in n .. Len(fs) : Begins(StreamOf(fs, n), StreamOf(fs, m))
  <1> DEFINE Bad == {m \in n .. Len(fs) : ~Begins(StreamOf(fs, n), StreamOf(fs, m))}
  <1>1. SUFFICES ASSUME Bad # {} PROVE FALSE
    BY Zenon
  <1> DEFINE m == Min(Bad)
  <1>2. m \in Bad /\ \A y \in Bad : m <= y
    <2>1. Bad \in SUBSET Nat
      OBVIOUS
    <2> HIDE DEF Bad
    <2>2. QED
      BY <1>1, <2>1, Least
  <1>3. m \in n .. Len(fs) /\ ~Begins(StreamOf(fs, n), StreamOf(fs, m))
    BY <1>2, Zenon
  <1> HIDE DEF m
  <1>4. m # n
    <2>1. Begins(StreamOf(fs, n), StreamOf(fs, n))
      BY StreamTyped DEF Begins
    <2>2. QED
      BY <1>3, <2>1, Zenon
  <1> DEFINE p == m - 1
  <1>5. /\ p \in n .. Len(fs) /\ p \in 0 .. Len(fs) /\ p < Len(fs) /\ ~(m <= p)
        /\ p + 1 = m /\ m \in 1 .. Len(fs)
    BY <1>3, <1>4
  <1> HIDE DEF p
  <1>6. Begins(StreamOf(fs, n), StreamOf(fs, p))
    BY <1>2, <1>5, Zenon
  <1>7. StreamOf(fs, m) = StreamOf(fs, p) \o FrameUnits(fs, m)
    BY <1>5, StreamStep
  <1>8. /\ StreamOf(fs, n) \in Seq(Nat \X Nat) /\ StreamOf(fs, p) \in Seq(Nat \X Nat)
        /\ FrameUnits(fs, m) \in Seq(Nat \X Nat)
    BY <1>5, StreamTyped, FrameUnitsTyped, Zenon
  <1>9. QED
    BY <1>3, <1>6, <1>7, <1>8, BeginsFurther, Zenon

\* Where the next frame begins in the stream, and where it ends.
LEMMA NextFrame ==
    ASSUME NEW fs \in Seq(Frames), NEW n \in 0 .. Len(fs), n < Len(fs)
    PROVE  LET s == StreamOf(fs, Len(fs))
               b == Len(StreamOf(fs, n))
           IN  /\ b \in Nat /\ b < Len(s) /\ s[b + 1] = <<n + 1, 1>>
               /\ b + frame_units(fs[n + 1]) <= Len(s)
  <1> DEFINE s == StreamOf(fs, Len(fs))
             r == StreamOf(fs, n)
             q == StreamOf(fs, n + 1)
             u == FrameUnits(fs, n + 1)
             z == frame_units(fs[n + 1])
  <1>1. n + 1 \in 1 .. Len(fs) /\ n + 1 \in 0 .. Len(fs) /\ Len(fs) \in n + 1 .. Len(fs)
        /\ Len(fs) \in 0 .. Len(fs)
    OBVIOUS
  <1>2. /\ s \in Seq(Nat \X Nat) /\ r \in Seq(Nat \X Nat) /\ q \in Seq(Nat \X Nat)
        /\ u \in Seq(Nat \X Nat) /\ Len(u) = z /\ u[1] = <<n + 1, 1>>
    BY <1>1, StreamTyped, FrameUnitsTyped, Zenon
  <1>3. z \in Nat /\ z >= 2
    BY <1>1, FrameAtIndex, Zenon
  <1>4. q = r \o u /\ Len(q) = Len(r) + z
    BY StreamStep, Zenon
  <1>5. Begins(q, s)
    BY <1>1, StreamPrefix, Zenon
  <1> HIDE DEF s, r, q, u, z
  <1>6. Len(r) \in Nat /\ Len(r) + z <= Len(s) /\ Len(r) < Len(s) /\ Len(r) + 1 \in 1 .. Len(q)
    <2>1. Len(q) <= Len(s)
      BY <1>5, Zenon DEF Begins
    <2>2. Len(q) \in Nat /\ Len(s) \in Nat /\ Len(r) \in Nat
      BY <1>2
    <2>3. QED
      BY <1>3, <1>4, <2>1, <2>2
  <1>7. s[Len(r) + 1] = q[Len(r) + 1]
    BY <1>5, <1>6, Zenon DEF Begins
  <1>8. q[Len(r) + 1] = u[1]
    BY <1>2, <1>3, <1>4
  <1>9. QED
    BY <1>2, <1>6, <1>7, <1>8, Zenon DEF s, r, z

\* A new frame changes nothing of what was sent before.
LEMMA StreamAppend ==
    ASSUME NEW fs \in Seq(Frames), NEW f \in Frames, NEW n \in 0 .. Len(fs)
    PROVE  /\ StreamOf(Append(fs, f), n) = StreamOf(fs, n)
           /\ RepliesOf(Append(fs, f), n) = RepliesOf(fs, n)
  <1>1. \A i \in 1 .. n : Append(fs, f)[i] = fs[i]
    OBVIOUS
  <1>2. [i \in 1 .. n |-> FrameUnits(Append(fs, f), i)] = [i \in 1 .. n |-> FrameUnits(fs, i)]
    BY <1>1, Zenon DEF FrameUnits
  <1>3. [i \in 1 .. n |-> ReplyTo(Append(fs, f), i)] = [i \in 1 .. n |-> ReplyTo(fs, i)]
    BY <1>1, Zenon DEF ReplyTo
  <1>4. QED
    BY <1>2, <1>3, Zenon DEF StreamOf, RepliesOf

LEMMA ReplyTyped ==
    ASSUME NEW fs \in Seq(Frames), Len(fs) <= MaxFrames, NEW i \in 1 .. Len(fs)
    PROVE  ReplyTo(fs, i) \in Seq(Answer)
  <1>1. i \in 1 .. MaxFrames
    BY EndpointAssumption
  <1>2. \A op \in {"data", "pong", "close"} : [op |-> op, to |-> i] \in Answer
    BY <1>1 DEF Answer
  <1>3. <<>> \in Seq(Answer) /\ \A a \in Answer : <<a>> \in Seq(Answer)
    OBVIOUS
  <1>4. QED
    BY <1>2, <1>3, Zenon DEF ReplyTo

LEMMA RepliesTyped ==
    ASSUME NEW fs \in Seq(Frames), Len(fs) <= MaxFrames, NEW n \in 0 .. Len(fs)
    PROVE  RepliesOf(fs, n) \in Seq(Answer)
  <1> DEFINE u == [i \in 1 .. n |-> ReplyTo(fs, i)]
  <1>1. \A i \in 1 .. n : ReplyTo(fs, i) \in Seq(Answer)
    BY ReplyTyped
  <1>2. u \in Seq(Seq(Answer))
    BY <1>1
  <1> HIDE DEF u
  <1>3. FlattenSeq(u) \in Seq(Answer)
    BY <1>2, FlattenTyped
  <1>4. QED
    BY <1>3, Zenon DEF RepliesOf, u

LEMMA RepliesEmpty ==
    ASSUME NEW fs
    PROVE  RepliesOf(fs, 0) = <<>>
  <1> DEFINE u == [i \in 1 .. 0 |-> ReplyTo(fs, i)]
  <1>1. u = <<>> /\ Len(u) = 0
    OBVIOUS
  <1> HIDE DEF u
  <1>2. FlattenSeq(u) = <<>>
    BY <1>1, FlattenIs, Zenon
  <1>3. QED
    BY <1>2, Zenon DEF RepliesOf, u

LEMMA RepliesStep ==
    ASSUME NEW fs \in Seq(Frames), Len(fs) <= MaxFrames, NEW n \in 0 .. Len(fs), n < Len(fs)
    PROVE  RepliesOf(fs, n + 1) = RepliesOf(fs, n) \o ReplyTo(fs, n + 1)
  <1> DEFINE u == [i \in 1 .. n |-> ReplyTo(fs, i)]
             v == [i \in 1 .. n + 1 |-> ReplyTo(fs, i)]
  <1>1. \A i \in 1 .. Len(fs) : ReplyTo(fs, i) \in Seq(Answer)
    BY ReplyTyped
  <1>2. /\ u \in Seq(Seq(Answer)) /\ v \in Seq(Seq(Answer))
        /\ Len(u) = n /\ Len(v) = n + 1
    BY <1>1
  <1>3. \A i \in 1 .. Len(u) : u[i] = v[i]
    BY <1>2
  <1>4. v[Len(v)] = ReplyTo(fs, n + 1)
    BY <1>2
  <1>5. RepliesOf(fs, n) = FlattenSeq(u) /\ RepliesOf(fs, n + 1) = FlattenSeq(v)
    BY Zenon DEF RepliesOf
  <1> HIDE DEF u, v
  <1>6. Len(v) = Len(u) + 1
    BY <1>2
  <1>7. FlattenSeq(v) = FlattenSeq(u) \o v[Len(v)]
    BY <1>2, <1>3, <1>6, FlattenStep
  <1>8. QED
    BY <1>4, <1>5, <1>7, Zenon

----------------------------------------------------------------------------
(***************************************************************************)
(* Of the frames fs the first n are consumed, r units are received, those  *)
(* in buf are left and the answers given are the ones owed, with nothing   *)
(* but Close frames to a frame that is refused behind them.                *)
(***************************************************************************)
Consumed(fs, n, r, buf) ==
    /\ Len(StreamOf(fs, n)) <= r
    /\ buf = SubSeq(StreamOf(fs, Len(fs)), Len(StreamOf(fs, n)) + 1, r)
    /\ \A i \in 1 .. n : Acceptable(fs[i])

Answered(fs, n, given) ==
    /\ Begins(RepliesOf(fs, n), given)
    /\ Len(RepliesOf(fs, n)) < Len(given) => n < Len(fs) /\ ~Acceptable(fs[n + 1])
    /\ \A k \in 1 .. Len(given) :
         Len(RepliesOf(fs, n)) < k => given[k] = [op |-> "close", to |-> n + 1]

LEMMA FirstBuffered ==
    ASSUME NEW fs \in Seq(Frames), NEW n \in 0 .. Len(fs),
           NEW r \in Nat, r <= Len(StreamOf(fs, Len(fs))),
           NEW buf, Consumed(fs, n, r, buf)
    PROVE  /\ buf \in Seq(Nat \X Nat) /\ Len(buf) = r - Len(StreamOf(fs, n))
           /\ buf # <<>> => n < Len(fs) /\ Head(buf)[1] = n + 1
  <1> DEFINE s == StreamOf(fs, Len(fs))
             b == Len(StreamOf(fs, n))
  <1>1. /\ s \in Seq(Nat \X Nat) /\ b \in Nat /\ r <= Len(s) /\ b <= r
        /\ buf = SubSeq(s, b + 1, r)
    <2>1. Len(fs) \in 0 .. Len(fs)
      OBVIOUS
    <2>2. s \in Seq(Nat \X Nat) /\ StreamOf(fs, n) \in Seq(Nat \X Nat)
      BY <2>1, StreamTyped, Zenon
    <2>3. b \in Nat
      BY <2>2
    <2>4. QED
      BY <2>2, <2>3, Zenon DEF Consumed
  <1>2. n = Len(fs) => b = Len(s)
    BY Zenon
  <1> HIDE DEF s, b
  <1>3. buf \in Seq(Nat \X Nat) /\ Len(buf) = r - b
    BY <1>1
  <1>4. ASSUME buf # <<>> PROVE n < Len(fs) /\ Head(buf)[1] = n + 1
    <2>1. b < r /\ Head(buf) = s[b + 1]
      BY <1>1, <1>3, <1>4
    <2>2. n < Len(fs)
      BY <1>1, <1>2, <2>1
    <2>3. s[b + 1] = <<n + 1, 1>>
      BY <2>2, NextFrame, Zenon DEF s, b
    <2>4. QED
      BY <2>1, <2>2, <2>3
  <1>5. QED
    BY <1>3, <1>4 DEF b

\* The client begins another frame.
LEMMA FrameBegun ==
    ASSUME NEW fs \in Seq(Frames), NEW f \in Frames, NEW n \in 0 .. Len(fs),
           NEW r \in Nat, r <= Len(StreamOf(fs, Len(fs))),
           NEW buf, Consumed(fs, n, r, buf), NEW given, Answered(fs, n, given)
    PROVE  /\ Consumed(Append(fs, f), n, r, buf) /\ Answered(Append(fs, f), n, given)
           /\ n \in 0 .. Len(Append(fs, f))
           /\ Len(StreamOf(fs, Len(fs))) < Len(StreamOf(Append(fs, f), Len(Append(fs, f))))
  <1> DEFINE gs == Append(fs, f)
             s == StreamOf(fs, Len(fs))
             t == StreamOf(gs, Len(gs))
             b == Len(StreamOf(fs, n))
  <1>1. /\ gs \in Seq(Frames) /\ Len(gs) = Len(fs) + 1 /\ Len(fs) \in 0 .. Len(fs)
        /\ Len(fs) \in 0 .. Len(gs) /\ Len(gs) \in 0 .. Len(gs) /\ Len(gs) \in Len(fs) .. Len(gs)
        /\ n \in 0 .. Len(gs) /\ Len(fs) < Len(gs)
    OBVIOUS
  <1>2. \A i \in 1 .. Len(fs) : gs[i] = fs[i]
    OBVIOUS
  <1> HIDE DEF gs
  <1>3. /\ StreamOf(gs, n) = StreamOf(fs, n) /\ RepliesOf(gs, n) = RepliesOf(fs, n)
        /\ StreamOf(gs, Len(fs)) = s
    BY <1>1, StreamAppend, Zenon DEF gs
  <1>4. Begins(s, t)
    BY <1>1, <1>3, StreamPrefix, Zenon
  <1>5. Len(s) < Len(t)
    BY <1>1, <1>3, NextFrame, Zenon
  <1>6. /\ s \in Seq(Nat \X Nat) /\ t \in Seq(Nat \X Nat) /\ b \in Nat
    <2>1. StreamOf(fs, n) \in Seq(Nat \X Nat) /\ s \in Seq(Nat \X Nat) /\ t \in Seq(Nat \X Nat)
      BY <1>1, StreamTyped, Zenon
    <2>2. QED
      BY <2>1
  <1>7. b <= r /\ buf = SubSeq(s, b + 1, r) /\ r <= Len(s) /\ \A i \in 1 .. n : Acceptable(fs[i])
    BY Zenon DEF Consumed
  <1> HIDE DEF s, t, b
  <1>8. SubSeq(t, b + 1, r) = SubSeq(s, b + 1, r)
    <2>1. \A k \in b + 1 .. r : t[k] = s[k]
      <3>1. \A k \in b + 1 .. r : k \in 1 .. Len(s)
        BY <1>6, <1>7
      <3>2. QED
        BY <1>4, <3>1, Zenon DEF Begins
    <2>2. r <= Len(t)
      BY <1>5, <1>6, <1>7
    <2>3. QED
      BY <1>6, <1>7, <2>1, <2>2
  <1>9. \A i \in 1 .. n : gs[i] = fs[i]
    BY <1>2
  <1>10. Consumed(gs, n, r, buf)
    <2>1. \A i \in 1 .. n : Acceptable(gs[i])
      BY <1>7, <1>9, Zenon
    <2>2. QED
      BY <1>3, <1>7, <1>8, <2>1, Zenon DEF Consumed, s, t, b
  <1>11. Answered(gs, n, given)
    <2>1. n < Len(fs) => n < Len(gs) /\ gs[n + 1] = fs[n + 1]
      BY <1>1, <1>2
    <2>2. QED
      BY <1>3, <2>1, Zenon DEF Answered
  <1>12. QED
    BY <1>1, <1>5, <1>10, <1>11, Zenon DEF s, t, gs

LEMMA Adjacent ==
    ASSUME NEW S, NEW s \in Seq(S), NEW b \in Nat, NEW r \in Nat, NEW q \in Nat,
           b <= r, r <= q, q <= Len(s)
    PROVE  SubSeq(s, b + 1, r) \o SubSeq(s, r + 1, q) = SubSeq(s, b + 1, q)
  <1> DEFINE x == SubSeq(s, b + 1, r)
             y == SubSeq(s, r + 1, q)
             z == SubSeq(s, b + 1, q)
  <1>1. /\ x \in Seq(S) /\ Len(x) = r - b
        /\ \A i \in 1 .. r - b : x[i] = s[b + i]
    OBVIOUS
  <1>2. /\ y \in Seq(S) /\ Len(y) = q - r
        /\ \A i \in 1 .. q - r : y[i] = s[r + i]
    OBVIOUS
  <1>3. /\ z \in Seq(S) /\ Len(z) = q - b
        /\ \A i \in 1 .. q - b : z[i] = s[b + i]
    OBVIOUS
  <1> HIDE DEF x, y, z
  <1>4. x \o y \in Seq(S) /\ Len(x \o y) = q - b
    <2>1. x \o y \in Seq(S) /\ Len(x \o y) = Len(x) + Len(y)
      BY <1>1, <1>2, ConcatProperties, Zenon
    <2>2. QED
      BY <1>1, <1>2, <2>1, SMT
  <1>5. ASSUME NEW i \in 1 .. q - b PROVE (x \o y)[i] = z[i]
    <2>1. CASE i <= r - b
      BY <1>1, <1>2, <1>3, <2>1
    <2>2. CASE ~(i <= r - b)
      <3>1. i - (r - b) \in 1 .. q - r /\ r + (i - (r - b)) = b + i
        BY <2>2
      <3>2. (x \o y)[i] = y[i - (r - b)]
        BY <1>1, <1>2, <2>2
      <3>3. QED
        BY <1>2, <1>3, <3>1, <3>2
    <2>3. QED
      BY <2>1, <2>2
  <1>6. x \o y = z
    BY <1>3, <1>4, <1>5, SeqEqual
  <1>7. QED
    BY <1>6 DEF x, y, z

\* m more units arrive.
LEMMA UnitsArrived ==
    ASSUME NEW fs \in Seq(Frames), NEW n \in 0 .. Len(fs), NEW r \in Nat, NEW m \in Nat,
           r + m <= Len(StreamOf(fs, Len(fs))), NEW buf, Consumed(fs, n, r, buf)
    PROVE  Consumed(fs, n, r + m, buf \o SubSeq(StreamOf(fs, Len(fs)), r + 1, r + m))
  <1> DEFINE s == StreamOf(fs, Len(fs))
             b == Len(StreamOf(fs, n))
  <1>1. s \in Seq(Nat \X Nat) /\ b \in Nat
    <2>1. Len(fs) \in 0 .. Len(fs)
      OBVIOUS
    <2>2. StreamOf(fs, n) \in Seq(Nat \X Nat) /\ s \in Seq(Nat \X Nat)
      BY <2>1, StreamTyped, Zenon
    <2>3. QED
      BY <2>2
  <1>2. b <= r /\ buf = SubSeq(s, b + 1, r) /\ r + m <= Len(s)
    BY Zenon DEF Consumed
  <1> HIDE DEF s, b
  <1>3. SubSeq(s, b + 1, r) \o SubSeq(s, r + 1, r + m) = SubSeq(s, b + 1, r + m)
    <2>1. r + m \in Nat /\ r <= r + m
      OBVIOUS
    <2>2. QED
      BY <1>1, <1>2, <2>1, Adjacent
  <1>4. b <= r + m
    BY <1>1, <1>2
  <1>5. QED
    BY <1>2, <1>3, <1>4, Zenon DEF Consumed, s, b

\* The frame at the front is refused: it stays, and a Close is queued.
LEMMA CloseQueued ==
    ASSUME NEW fs \in Seq(Frames), Len(fs) <= MaxFrames, NEW n \in 0 .. Len(fs), n < Len(fs),
           ~Acceptable(fs[n + 1]), NEW given \in Seq(Answer), Answered(fs, n, given)
    PROVE  Answered(fs, n, Append(given, [op |-> "close", to |-> n + 1]))
  <1> DEFINE o == RepliesOf(fs, n)
             c == [op |-> "close", to |-> n + 1]
             g == Append(given, c)
  <1>1. o \in Seq(Answer)
    BY RepliesTyped
  <1>2. /\ Len(o) <= Len(given) /\ \A k \in 1 .. Len(o) : given[k] = o[k]
        /\ \A k \in 1 .. Len(given) : Len(o) < k => given[k] = c
    BY Zenon DEF Answered, Begins
  <1> HIDE DEF o, c
  <1>3. /\ Len(g) = Len(given) + 1 /\ g[Len(g)] = c
        /\ \A k \in 1 .. Len(given) : g[k] = given[k]
    OBVIOUS
  <1> HIDE DEF g
  <1>4. Begins(o, g)
    BY <1>1, <1>2, <1>3 DEF Begins
  <1>5. ASSUME NEW k \in 1 .. Len(g), Len(o) < k PROVE g[k] = c
    <2>1. k = Len(g) \/ k \in 1 .. Len(given)
      BY <1>3
    <2>2. QED
      BY <1>2, <1>3, <1>5, <2>1, Zenon
  <1>6. QED
    BY <1>4, <1>5, Zenon DEF Answered, o, c, g

LEMMA Remaining ==
    ASSUME NEW S, NEW s \in Seq(S), NEW b \in Nat, NEW r \in Nat, NEW z \in Nat,
           b + z <= r, r <= Len(s)
    PROVE  SubSeq(SubSeq(s, b + 1, r), z + 1, r - b) = SubSeq(s, (b + z) + 1, r)
  <1> DEFINE x == SubSeq(s, b + 1, r)
             y == SubSeq(x, z + 1, r - b)
             t == SubSeq(s, (b + z) + 1, r)
  <1>1. /\ x \in Seq(S) /\ Len(x) = r - b
        /\ \A i \in 1 .. r - b : x[i] = s[b + i]
    OBVIOUS
  <1>2. /\ t \in Seq(S) /\ Len(t) = r - (b + z)
        /\ \A i \in 1 .. r - (b + z) : t[i] = s[(b + z) + i]
    OBVIOUS
  <1> HIDE DEF x, t
  <1>3. /\ y \in Seq(S) /\ Len(y) = r - (b + z)
        /\ \A i \in 1 .. r - (b + z) : y[i] = x[z + i]
    BY <1>1
  <1> HIDE DEF y
  <1>4. ASSUME NEW i \in 1 .. r - (b + z) PROVE y[i] = t[i]
    <2>1. z + i \in 1 .. r - b /\ b + (z + i) = (b + z) + i
      OBVIOUS
    <2>2. QED
      BY <1>1, <1>2, <1>3, <2>1
  <1>5. y = t
    BY <1>2, <1>3, <1>4, SeqEqual
  <1>6. QED
    BY <1>5 DEF x, y, t

\* The frame at the front is whole and acceptable: it is consumed.
LEMMA FrameConsumed ==
    ASSUME NEW fs \in Seq(Frames), NEW n \in 0 .. Len(fs), n < Len(fs),
           NEW r \in Nat, r <= Len(StreamOf(fs, Len(fs))),
           NEW buf, Consumed(fs, n, r, buf),
           Acceptable(fs[n + 1]), frame_units(fs[n + 1]) <= Len(buf)
    PROVE  Consumed(fs, n + 1, r, SubSeq(buf, frame_units(fs[n + 1]) + 1, Len(buf)))
  <1> DEFINE s == StreamOf(fs, Len(fs))
             b == Len(StreamOf(fs, n))
             z == frame_units(fs[n + 1])
  <1>1. s \in Seq(Nat \X Nat) /\ b \in Nat /\ z \in Nat
    <2>1. Len(fs) \in 0 .. Len(fs) /\ n + 1 \in 1 .. Len(fs)
      OBVIOUS
    <2>2. StreamOf(fs, n) \in Seq(Nat \X Nat) /\ s \in Seq(Nat \X Nat) /\ z \in Nat
      BY <2>1, StreamTyped, FrameAtIndex, Zenon
    <2>3. QED
      BY <2>2
  <1>2. /\ b <= r /\ buf = SubSeq(s, b + 1, r) /\ r <= Len(s)
        /\ \A i \in 1 .. n : Acceptable(fs[i])
    BY Zenon DEF Consumed
  <1>3. Len(StreamOf(fs, n + 1)) = b + z
    BY StreamStep, Zenon
  <1>4. Len(buf) = r - b /\ z <= Len(buf)
    BY FirstBuffered, Zenon
  <1> HIDE DEF s, b, z
  <1>5. b + z <= r
    BY <1>1, <1>4
  <1>6. SubSeq(buf, z + 1, Len(buf)) = SubSeq(s, (b + z) + 1, r)
    <2>1. SubSeq(SubSeq(s, b + 1, r), z + 1, r - b) = SubSeq(s, (b + z) + 1, r)
      BY <1>1, <1>2, <1>5, Remaining
    <2>2. QED
      BY <1>2, <1>4, <2>1, Zenon
  <1>7. \A i \in 1 .. n + 1 : Acceptable(fs[i])
    <2>1. \A i \in 1 .. n + 1 : i \in 1 .. n \/ i = n + 1
      OBVIOUS
    <2>2. QED
      BY <1>2, <2>1, Zenon
  <1>8. QED
    BY <1>3, <1>5, <1>6, <1>7, Zenon DEF Consumed, s, b, z

\* Its reply is the next one owed.
LEMMA FrameAnswered ==
    ASSUME NEW fs \in Seq(Frames), Len(fs) <= MaxFrames, NEW n \in 0 .. Len(fs), n < Len(fs),
           Acceptable(fs[n + 1]), NEW given \in Seq(Answer), Answered(fs, n, given)
    PROVE  Answered(fs, n + 1, given \o ReplyTo(fs, n + 1))
  <1> DEFINE o == RepliesOf(fs, n)
             a == ReplyTo(fs, n + 1)
             p == RepliesOf(fs, n + 1)
  <1>1. n + 1 \in 1 .. Len(fs) /\ n + 1 \in 0 .. Len(fs)
    OBVIOUS
  <1>2. o \in Seq(Answer) /\ a \in Seq(Answer) /\ p \in Seq(Answer)
    BY <1>1, RepliesTyped, ReplyTyped, Zenon
  <1>3. p = o \o a
    BY RepliesStep, Zenon
  <1>4. Len(o) <= Len(given) /\ \A k \in 1 .. Len(o) : given[k] = o[k]
    BY Zenon DEF Answered, Begins
  <1>5. ~(Len(o) < Len(given))
    BY Zenon DEF Answered
  <1> HIDE DEF o, a, p
  <1>6. Len(o) = Len(given)
    BY <1>2, <1>4, <1>5
  <1>7. given = o
    BY <1>2, <1>4, <1>6, SeqEqual
  <1>8. Begins(p, p) /\ ~(Len(p) < Len(p)) /\ \A k \in 1 .. Len(p) : ~(Len(p) < k)
    BY <1>2 DEF Begins
  <1>9. given \o a = p
    BY <1>3, <1>7, Zenon
  <1>10. Answered(fs, n + 1, p)
    BY <1>8, Zenon DEF Answered, p
  <1>11. QED
    BY <1>9, <1>10, Zenon DEF a

LEMMA NothingYet ==
    ASSUME NEW fs \in Seq(Frames), NEW r \in Nat, r <= Len(StreamOf(fs, Len(fs)))
    PROVE  /\ Consumed(fs, 0, r, SubSeq(StreamOf(fs, Len(fs)), 1, r))
           /\ Answered(fs, 0, <<>>)
  <1>1. StreamOf(fs, 0) = <<>> /\ RepliesOf(fs, 0) = <<>>
    BY StreamEmpty, RepliesEmpty, Zenon
  <1>2. Len(StreamOf(fs, 0)) = 0 /\ Len(StreamOf(fs, 0)) <= r /\ Len(StreamOf(fs, 0)) + 1 = 1
    BY <1>1
  <1>3. Consumed(fs, 0, r, SubSeq(StreamOf(fs, Len(fs)), 1, r))
    <2>1. 1 .. 0 = {}
      OBVIOUS
    <2>2. QED
      BY <1>2, <2>1, Zenon DEF Consumed
  <1>4. Answered(fs, 0, <<>>)
    BY <1>1 DEF Answered, Begins
  <1>5. QED
    BY <1>3, <1>4

----------------------------------------------------------------------------
(* The inductive invariant.                                                *)

\* No unit is received that was not sent, and none is sent that belongs to no frame.
Reception ==
    /\ Len(frames) <= MaxFrames
    /\ units_received <= units_sent /\ units_sent <= Len(Stream)

Faithful(n) ==
    /\ Consumed(frames, n, units_received, request_buffer_)
    /\ Answered(frames, n, answers \o response_buffer_)

Intact == \E n \in 0 .. Len(frames) : Faithful(n)

EndpointInv == EndpointTypeOK /\ Reception /\ Intact

LEMMA StreamIs ==
    ASSUME frames \in Seq(Frames)
    PROVE  /\ Stream = StreamOf(frames, Len(frames))
           /\ \A n : UnitsUpTo(n) = StreamOf(frames, n)
           /\ \A n : RepliesUpTo(n) = RepliesOf(frames, n)
  <1>1. DOMAIN frames = 1 .. Len(frames)
    OBVIOUS
  <1>2. \A i : UnitsOf(i) = FrameUnits(frames, i) /\ Reply(i) = ReplyTo(frames, i)
    BY Zenon DEF UnitsOf, FrameUnits, Reply, ReplyTo
  <1>3. QED
    BY <1>1, <1>2, Zenon DEF Stream, StreamOf, UnitsUpTo, RepliesUpTo, RepliesOf

\* The first unit of the buffer begins the first frame that is not consumed.
LEMMA FirstFrameIs ==
    ASSUME EndpointInv, NEW n \in 0 .. Len(frames), Faithful(n), request_buffer_ # <<>>
    PROVE  /\ n < Len(frames) /\ FrameAt = n + 1 /\ FirstFrame = frames[n + 1]
           /\ n + 1 \in 1 .. Len(frames) /\ FrameAt \in 1 .. MaxFrames
           /\ FirstFrame.kind \in Kinds
           /\ complete => Len(request_buffer_) >= frame_units(FirstFrame)
           /\ refused => ~Acceptable(FirstFrame)
           /\ ~refused /\ complete => Acceptable(FirstFrame)
  <1>1. frames \in Seq(Frames) /\ units_received \in Nat /\ Len(frames) <= MaxFrames
    BY Zenon DEF EndpointInv, EndpointTypeOK, Reception
  <1>2. units_received <= Len(StreamOf(frames, Len(frames)))
    <2>1. StreamOf(frames, Len(frames)) \in Seq(Nat \X Nat) /\ units_sent \in Nat
      BY <1>1, StreamTyped DEF EndpointInv, EndpointTypeOK
    <2>2. units_received <= units_sent /\ units_sent <= Len(StreamOf(frames, Len(frames)))
      BY <1>1, StreamIs, Zenon DEF EndpointInv, Reception
    <2>3. QED
      BY <1>1, <2>1, <2>2
  <1>3. n < Len(frames) /\ Head(request_buffer_)[1] = n + 1
    <2>1. Consumed(frames, n, units_received, request_buffer_)
      BY Zenon DEF Faithful
    <2>2. QED
      BY <1>1, <1>2, <2>1, FirstBuffered, Zenon
  <1>4. n + 1 \in 1 .. Len(frames) /\ n + 1 \in 1 .. MaxFrames
    BY <1>1, <1>3, EndpointAssumption
  <1>5. FrameAt = n + 1 /\ FirstFrame = frames[n + 1]
    BY <1>3, Zenon DEF FrameAt, FirstFrame
  <1>6. frames[n + 1].kind \in Kinds /\ frames[n + 1].length \in Nat
    BY <1>1, <1>4, FrameAtIndex, Zenon
  <1> HIDE DEF FirstFrame
  <1>7. complete => length_known /\ Len(request_buffer_) >= frame_units(FirstFrame)
    BY Zenon DEF complete
  <1>8. refused <=> FirstFrame.kind = "fragment" \/ too_long
    BY Zenon DEF refused
  <1>9. too_long <=> length_known /\ FirstFrame.length > websocket_max_frame_bytes
    BY Zenon DEF too_long
  <1>10. Acceptable(FirstFrame) <=>
           FirstFrame.kind # "fragment" /\ ~(FirstFrame.length > websocket_max_frame_bytes)
    BY <1>5, <1>6, EndpointAssumption DEF Acceptable
  <1>11. QED
    BY <1>3, <1>4, <1>5, <1>6, <1>7, <1>8, <1>9, <1>10, Zenon

LEMMA InvParts ==
    ASSUME EndpointInv
    PROVE  /\ frames \in Seq(Frames) /\ Len(frames) <= MaxFrames
           /\ units_received \in Nat /\ units_sent \in Nat
           /\ Stream = StreamOf(frames, Len(frames)) /\ Len(Stream) \in Nat
           /\ units_received <= units_sent /\ units_sent <= Len(Stream)
           /\ units_received <= Len(StreamOf(frames, Len(frames)))
           /\ request_buffer_ \in Seq(Nat \X Nat)
           /\ answers \in Seq(Answer) /\ response_buffer_ \in Seq(Answer)
           /\ Intact
  <1>1. /\ frames \in Seq(Frames) /\ units_received \in Nat /\ units_sent \in Nat
        /\ Len(frames) <= MaxFrames
        /\ units_received <= units_sent /\ units_sent <= Len(Stream)
        /\ answers \in Seq(Answer) /\ response_buffer_ \in Seq(Answer)
        /\ request_buffer_ \in Seq(Nat \X Nat) /\ Intact
    BY Zenon DEF EndpointInv, EndpointTypeOK, Reception, Answer
  <1>2. Stream = StreamOf(frames, Len(frames))
    BY <1>1, StreamIs, Zenon
  <1>3. StreamOf(frames, Len(frames)) \in Seq(Nat \X Nat)
    BY <1>1, StreamTyped
  <1>4. Len(Stream) \in Nat /\ units_received <= Len(Stream)
    BY <1>1, <1>2, <1>3
  <1>5. QED
    BY <1>1, <1>2, <1>4, Zenon

contents == <<frames, units_received, request_buffer_, answers, response_buffer_>>

\* A step that moves no unit and no answer.
LEMMA Unmoved ==
    ASSUME EndpointInv, UNCHANGED contents
    PROVE  Intact' /\ (units_sent' = units_sent => Reception')
  <1>1. /\ frames' = frames /\ units_received' = units_received /\ answers' = answers
        /\ request_buffer_' = request_buffer_ /\ response_buffer_' = response_buffer_
    BY Zenon DEF contents
  <1>2. Intact'
    BY <1>1, Zenon DEF EndpointInv, Intact, Faithful
  <1>3. units_sent' = units_sent => Reception'
    BY <1>1, Zenon DEF EndpointInv, Reception, Stream, UnitsOf
  <1>4. QED
    BY <1>2, <1>3

Waits ==
    \/ HandshakeWritten \/ EndpointHangUp \/ EndpointExpires \/ EndpointWakesUp
    \/ EndpointReadBlocks \/ EndpointReadEnds \/ FrameIncomplete
    \/ AnswerBlocked \/ AllAnswersSent \/ AnswerFails
    \/ ClientReadsAnswer \/ ClientHangsUp \/ EndpointTick

LEMMA WantsAre == \A wants \in Wants(client_tls) : wants \in SUBSET Events
  BY DEF Wants

LEMMA ClosesTyped ==
    ASSUME EndpointTypeOK, EndpointCloses
    PROVE  EndpointTypeOK' /\ UNCHANGED contents /\ units_sent' = units_sent
  <1>1. EndpointTypeOK'
    BY DEF EndpointTypeOK, EndpointCloses, peer_vars, Steps, Events
  <1>2. QED
    BY <1>1, Zenon DEF EndpointCloses, peer_vars, contents

LEMMA WaitsTyped ==
    ASSUME EndpointTypeOK, Waits
    PROVE  EndpointTypeOK' /\ UNCHANGED contents /\ units_sent' = units_sent
  <1>1. UNCHANGED contents /\ units_sent' = units_sent
    BY Zenon DEF Waits, HandshakeWritten, EndpointHangUp, EndpointExpires, EndpointWakesUp,
        EndpointReadBlocks, EndpointReadEnds, FrameIncomplete, AnswerBlocked, AllAnswersSent,
        AnswerFails, ClientReadsAnswer, ClientHangsUp, EndpointTick, EndpointCloses,
        endpoint_only, peer_vars, contents
  <1> SUFFICES EndpointTypeOK'
    BY <1>1
  <1>2. EndpointCloses => EndpointTypeOK'
    BY ClosesTyped, Zenon
  <1>3. idle_timeout_seconds \in Nat /\ client_tls \in BOOLEAN
    BY SettingsAssumption
  <1>4. CASE HandshakeWritten
    BY <1>3, <1>4 DEF HandshakeWritten, EndpointTypeOK, peer_vars, Steps, Events
  <1>5. CASE EndpointHangUp \/ EndpointExpires \/ EndpointReadEnds \/ AnswerFails
    BY <1>2, <1>5, Zenon DEF EndpointHangUp, EndpointExpires, EndpointReadEnds, AnswerFails
  <1>6. CASE EndpointWakesUp
    BY <1>6 DEF EndpointWakesUp, EndpointTypeOK, peer_vars, Steps
  <1>7. CASE EndpointReadBlocks
    <2>1. events_' \in SUBSET Events
      BY <1>7, WantsAre DEF EndpointReadBlocks, Events
    <2>2. step' \in Steps
      BY <1>7 DEF EndpointReadBlocks, Steps
    <2>3. QED
      BY <1>7, <2>1, <2>2 DEF EndpointReadBlocks, EndpointTypeOK, peer_vars
  <1>8. CASE FrameIncomplete
    BY <1>8 DEF FrameIncomplete, after_processing, EndpointTypeOK, peer_vars, Steps
  <1>9. CASE AnswerBlocked
    <2>1. events_' \in SUBSET Events
      BY <1>9, WantsAre DEF AnswerBlocked, Events
    <2>2. QED
      BY <1>9, <2>1 DEF AnswerBlocked, EndpointTypeOK, peer_vars, Steps
  <1>10. CASE AllAnswersSent
    <2>1. CASE EndpointCloses
      BY <1>2, <2>1
    <2>2. CASE ~EndpointCloses
      BY <1>10, <2>2 DEF AllAnswersSent, EndpointTypeOK, peer_vars, Steps, Events
    <2>3. QED
      BY <2>1, <2>2
  <1>11. CASE ClientReadsAnswer \/ ClientHangsUp
    <2>1. answers_read' \in Nat /\ hung_up' \in BOOLEAN
      <3>1. answers_read \in Nat /\ answers_read + 1 \in Nat /\ hung_up \in BOOLEAN
        BY DEF EndpointTypeOK
      <3>2. QED
        BY <1>11, <3>1, Zenon DEF ClientReadsAnswer, ClientHangsUp
    <2>2. QED
      BY <1>11, <2>1, Zenon DEF ClientReadsAnswer, ClientHangsUp, endpoint_only, EndpointTypeOK
  <1>12. CASE EndpointTick
    BY <1>3, <1>12 DEF EndpointTick, endpoint_only, EndpointTypeOK, peer_vars
  <1>13. QED
    BY <1>4, <1>5, <1>6, <1>7, <1>8, <1>9, <1>10, <1>11, <1>12, Zenon DEF Waits

LEMMA WaitsKeeps == EndpointInv /\ Waits => EndpointInv'
  BY WaitsTyped, Unmoved, Zenon DEF EndpointInv

\* The client sends a unit, or begins a frame with its first one.
LEMMA ClientKeeps ==
    ASSUME EndpointInv, ClientSendsUnit \/ \E frame \in Frames : ClientBeginsFrame(frame)
    PROVE  EndpointInv'
  <1>1. /\ endpoint_only /\ UNCHANGED <<hung_up, answers_read, endpoint_quiet>>
        /\ units_sent' = units_sent + 1
    BY Zenon DEF ClientSendsUnit, ClientBeginsFrame
  <1>2. units_received' = units_received /\ request_buffer_' = request_buffer_
        /\ answers' = answers /\ response_buffer_' = response_buffer_
    BY <1>1, Zenon DEF endpoint_only
  <1>3. frames' \in Seq(Frames) => EndpointTypeOK'
    <2>1. units_sent + 1 \in Nat
      BY InvParts
    <2>2. QED
      BY <1>1, <2>1, Zenon DEF endpoint_only, EndpointInv, EndpointTypeOK
  <1>4. CASE ClientSendsUnit
    <2>1. frames' = frames /\ units_sent < Len(Stream)
      BY <1>4, Zenon DEF ClientSendsUnit
    <2>2. Stream' = Stream
      BY <2>1, Zenon DEF Stream, UnitsOf
    <2>3. Reception'
      <3>1. units_received <= units_sent + 1 /\ units_sent + 1 <= Len(Stream)
        BY <2>1, InvParts
      <3>2. QED
        BY <1>1, <1>2, <2>1, <2>2, <3>1, Zenon DEF EndpointInv, Reception
    <2>4. Intact'
      BY <1>2, <2>1, Unmoved, Zenon DEF contents
    <2>5. QED
      BY <1>3, <2>1, <2>3, <2>4, InvParts, Zenon DEF EndpointInv
  <1>5. ASSUME NEW frame \in Frames, ClientBeginsFrame(frame)
        PROVE  EndpointInv'
    <2>1. frames' = Append(frames, frame) /\ units_sent = Len(Stream) /\ Len(frames) < MaxFrames
      BY <1>5, Zenon DEF ClientBeginsFrame
    <2>2. PICK n \in 0 .. Len(frames) : Faithful(n)
      BY InvParts, Zenon DEF Intact
    <2>3. /\ Consumed(frames', n, units_received, request_buffer_)
          /\ Answered(frames', n, answers \o response_buffer_)
          /\ n \in 0 .. Len(frames')
          /\ Len(Stream) < Len(StreamOf(frames', Len(frames')))
      BY <2>1, <2>2, InvParts, FrameBegun DEF Faithful
    <2>4. frames' \in Seq(Frames) /\ Len(frames') <= MaxFrames
      BY <2>1, InvParts, EndpointAssumption
    <2>5. Stream' = StreamOf(frames', Len(frames'))
      <3>1. DOMAIN frames' = 1 .. Len(frames')
        BY <2>4
      <3>2. QED
        BY <3>1, Zenon DEF Stream, UnitsOf, StreamOf, FrameUnits
    <2>6. Reception'
      <3>1. StreamOf(frames', Len(frames')) \in Seq(Nat \X Nat)
        BY <2>4, StreamTyped
      <3>2. Len(StreamOf(frames', Len(frames'))) \in Nat
        BY <3>1
      <3>3. units_received <= units_sent + 1 /\ units_sent + 1 <= Len(StreamOf(frames', Len(frames')))
        BY <2>1, <2>3, <3>2, InvParts
      <3>4. QED
        BY <1>1, <1>2, <2>4, <2>5, <3>3, Zenon DEF Reception
    <2>7. Intact'
      BY <1>2, <2>3, Zenon DEF Intact, Faithful
    <2>8. QED
      BY <1>3, <2>4, <2>6, <2>7, Zenon DEF EndpointInv
  <1>6. QED
    BY <1>4, <1>5, Zenon

LEMMA ReceiveKeeps ==
    ASSUME EndpointInv, NEW m \in 1 .. Len(Stream), EndpointReceives(m)
    PROVE  EndpointInv'
  <1>1. /\ m \in 1 .. units_sent - units_received /\ units_received' = units_received + m
        /\ request_buffer_' =
             request_buffer_ \o SubSeq(Stream, units_received + 1, units_received + m)
        /\ step' = "process" /\ endpoint_quiet' = 0
        /\ UNCHANGED <<endpoint_phase, response_buffer_, websocket_close_after_write_, events_,
                       answers, frames, units_sent, hung_up, answers_read>>
    BY Zenon DEF EndpointReceives, peer_vars
  <1>2. m \in Nat /\ units_received + m \in Nat /\ units_received + m <= units_sent
        /\ units_received + m <= Len(Stream)
    BY <1>1, InvParts
  <1>3. Stream' = Stream
    BY <1>1, Zenon DEF Stream, UnitsOf
  <1>4. Reception'
    BY <1>1, <1>2, <1>3, Zenon DEF EndpointInv, Reception
  <1>5. PICK n \in 0 .. Len(frames) : Faithful(n)
    BY InvParts, Zenon DEF Intact
  <1>6. Consumed(frames, n, units_received + m, request_buffer_')
    <2>1. Stream = StreamOf(frames, Len(frames))
          /\ Consumed(frames, n, units_received, request_buffer_)
      BY <1>5, InvParts, Zenon DEF Faithful
    <2>2. frames \in Seq(Frames) /\ units_received \in Nat
      BY InvParts, Zenon
    <2>3. units_received + m <= Len(StreamOf(frames, Len(frames)))
      BY <1>2, <2>1, Zenon
    <2>4. Consumed(frames, n, units_received + m, request_buffer_
                    \o SubSeq(StreamOf(frames, Len(frames)), units_received + 1, units_received + m))
      BY <1>2, <2>1, <2>2, <2>3, UnitsArrived, Zenon
    <2>5. QED
      BY <1>1, <2>1, <2>4, Zenon
  <1>7. Intact'
    BY <1>1, <1>5, <1>6, Zenon DEF Intact, Faithful
  <1>8. request_buffer_' \in Seq(Nat \X Nat)
    <2>1. units_received + m <= Len(StreamOf(frames, Len(frames)))
      BY <1>2, InvParts, Zenon
    <2>2. QED
      BY <1>2, <1>5, <1>6, <2>1, InvParts, FirstBuffered, Zenon
  <1>9. EndpointTypeOK'
    <2>1. 0 \in 0 .. idle_timeout_seconds /\ "process" \in Steps
      BY SettingsAssumption DEF Steps
    <2>2. QED
      BY <1>1, <1>2, <1>8, <2>1, Zenon DEF EndpointInv, EndpointTypeOK
  <1>10. QED
    BY <1>4, <1>7, <1>9, Zenon DEF EndpointInv

\* The rest of a queued answer's step: it is one of the answers, behind the others.
LEMMA QueuedTyped ==
    ASSUME EndpointInv, request_buffer_ # <<>>, NEW op \in {"data", "pong", "close"},
           queue_websocket_frame(op)
    PROVE  /\ response_buffer_' \in Seq(Answer) /\ events_' \in SUBSET Events
           /\ answers \o response_buffer_' =
                Append(answers \o response_buffer_, [op |-> op, to |-> FrameAt])
           /\ answers \o response_buffer_' =
                (answers \o response_buffer_) \o <<[op |-> op, to |-> FrameAt]>>
  <1> DEFINE a == [op |-> op, to |-> FrameAt]
  <1>1. PICK n \in 0 .. Len(frames) : Faithful(n)
    BY InvParts, Zenon DEF Intact
  <1>2. FrameAt \in 1 .. MaxFrames
    BY <1>1, FirstFrameIs, Zenon
  <1>3. a \in Answer
    BY <1>2 DEF Answer
  <1>4. response_buffer_' = Append(response_buffer_, a) /\ events_' = {"IN", "OUT"}
    BY Zenon DEF queue_websocket_frame
  <1>5. answers \in Seq(Answer) /\ response_buffer_ \in Seq(Answer)
    BY InvParts, Zenon
  <1> HIDE DEF a
  <1>6. response_buffer_' \in Seq(Answer)
    BY <1>3, <1>4, <1>5
  <1>7. answers \o Append(response_buffer_, a) = Append(answers \o response_buffer_, a)
    BY <1>3, <1>5
  <1>8. Append(answers \o response_buffer_, a) = (answers \o response_buffer_) \o <<a>>
    BY <1>3, <1>5
  <1>9. QED
    BY <1>4, <1>6, <1>7, <1>8 DEF a, Events

LEMMA RefuseKeeps ==
    ASSUME EndpointInv, FrameRefused
    PROVE  EndpointInv'
  <1>1. /\ refused /\ queue_websocket_frame("close") /\ websocket_close_after_write_' = TRUE
        /\ step' = after_processing
        /\ UNCHANGED <<endpoint_phase, request_buffer_, endpoint_quiet, units_received, answers,
                       frames, units_sent, hung_up, answers_read>>
    BY Zenon DEF FrameRefused, peer_vars
  <1>2. request_buffer_ # <<>>
    BY <1>1, Zenon DEF refused
  <1>3. PICK n \in 0 .. Len(frames) : Faithful(n)
    BY InvParts, Zenon DEF Intact
  <1>4. /\ n < Len(frames) /\ FrameAt = n + 1 /\ ~Acceptable(frames[n + 1])
    BY <1>1, <1>2, <1>3, FirstFrameIs, Zenon
  <1>5. /\ response_buffer_' \in Seq(Answer) /\ events_' \in SUBSET Events
        /\ answers \o response_buffer_' =
             Append(answers \o response_buffer_, [op |-> "close", to |-> FrameAt])
    BY <1>1, <1>2, QueuedTyped, Zenon
  <1>6. Answered(frames, n, answers \o response_buffer_')
    <2>1. answers \o response_buffer_ \in Seq(Answer)
      BY InvParts
    <2>2. /\ frames \in Seq(Frames) /\ Len(frames) <= MaxFrames
          /\ Answered(frames, n, answers \o response_buffer_)
      BY <1>3, InvParts, Zenon DEF Faithful
    <2>3. QED
      BY <1>4, <1>5, <2>1, <2>2, CloseQueued, Zenon
  <1>7. Intact'
    BY <1>1, <1>3, <1>6, Zenon DEF Intact, Faithful
  <1>8. Reception'
    <2>1. Stream' = Stream
      BY <1>1, Zenon DEF Stream, UnitsOf
    <2>2. QED
      BY <1>1, <2>1, Zenon DEF EndpointInv, Reception
  <1>9. EndpointTypeOK'
    <2>1. step' \in Steps
      BY <1>1 DEF after_processing, Steps
    <2>2. QED
      BY <1>1, <1>5, <2>1, Zenon DEF EndpointInv, EndpointTypeOK, Answer
  <1>10. QED
    BY <1>7, <1>8, <1>9, Zenon DEF EndpointInv

LEMMA HandleKeeps ==
    ASSUME EndpointInv, FrameHandled
    PROVE  EndpointInv'
  <1> DEFINE kind == FirstFrame.kind
  <1>1. /\ ~refused /\ complete
        /\ request_buffer_' =
             SubSeq(request_buffer_, consumed_units(FirstFrame) + 1, Len(request_buffer_))
        /\ UNCHANGED <<endpoint_phase, endpoint_quiet, units_received, answers,
                       frames, units_sent, hung_up, answers_read>>
    BY Zenon DEF FrameHandled, peer_vars
  <1>2. request_buffer_ # <<>>
    BY <1>1, Zenon DEF complete
  <1>3. PICK n \in 0 .. Len(frames) : Faithful(n)
    BY InvParts, Zenon DEF Intact
  <1>4. /\ n < Len(frames) /\ FrameAt = n + 1 /\ FirstFrame = frames[n + 1]
        /\ Acceptable(frames[n + 1]) /\ Len(request_buffer_) >= frame_units(frames[n + 1])
        /\ n + 1 \in 1 .. Len(frames)
    BY <1>1, <1>2, <1>3, FirstFrameIs, Zenon
  <1>5. Consumed(frames, n + 1, units_received, request_buffer_')
    <2>1. frame_units(frames[n + 1]) <= Len(request_buffer_)
      <3>1. frame_units(frames[n + 1]) \in Nat /\ Len(request_buffer_) \in Nat
        BY <1>4, InvParts, FrameAtIndex
      <3>2. QED
        BY <1>4, <3>1
    <2>2. request_buffer_' =
            SubSeq(request_buffer_, frame_units(frames[n + 1]) + 1, Len(request_buffer_))
      BY <1>1, <1>4, Zenon DEF consumed_units
    <2>3. Consumed(frames, n, units_received, request_buffer_)
      BY <1>3, Zenon DEF Faithful
    <2>4. /\ frames \in Seq(Frames) /\ units_received \in Nat
          /\ units_received <= Len(StreamOf(frames, Len(frames)))
      BY InvParts, Zenon
    <2>5. QED
      BY <1>4, <2>1, <2>2, <2>3, <2>4, FrameConsumed, Zenon
  <1>6. /\ response_buffer_' \in Seq(Answer) /\ events_' \in SUBSET Events
        /\ answers \o response_buffer_' =
             (answers \o response_buffer_) \o ReplyTo(frames, n + 1)
        /\ step' \in Steps /\ websocket_close_after_write_' \in BOOLEAN
    <2>1. step \in Steps /\ after_processing \in Steps /\ websocket_close_after_write_ \in BOOLEAN
          /\ events_ \in SUBSET Events
      BY DEF EndpointInv, EndpointTypeOK, after_processing, Steps
    <2>2. CASE kind = "pong"
      <3>1. /\ response_buffer_' = response_buffer_ /\ events_' = events_ /\ step' = step
            /\ websocket_close_after_write_' = websocket_close_after_write_
        BY <2>2 DEF FrameHandled
      <3>2. ReplyTo(frames, n + 1) = <<>>
        BY <1>4, <2>2, Zenon DEF ReplyTo
      <3>3. (answers \o response_buffer_) \o <<>> = answers \o response_buffer_
            /\ response_buffer_ \in Seq(Answer)
        BY InvParts
      <3>4. QED
        BY <2>1, <3>1, <3>2, <3>3, Zenon
    <2>3. CASE kind \in {"data", "ping", "close", "reserved"}
      <3>1. /\ queue_websocket_frame(reply_op(kind))
            /\ step' \in Steps /\ websocket_close_after_write_' \in BOOLEAN
        BY <2>1, <2>3 DEF FrameHandled
      <3>2. /\ reply_op(kind) \in {"data", "pong", "close"}
            /\ ReplyTo(frames, n + 1) = <<[op |-> reply_op(kind), to |-> n + 1]>>
        BY <1>4, <2>3 DEF reply_op, ReplyTo
      <3>3. /\ response_buffer_' \in Seq(Answer) /\ events_' \in SUBSET Events
            /\ answers \o response_buffer_' =
                 (answers \o response_buffer_) \o <<[op |-> reply_op(kind), to |-> FrameAt]>>
        BY <1>2, <3>1, <3>2, QueuedTyped, Zenon
      <3>4. QED
        BY <1>4, <3>1, <3>2, <3>3, Zenon
    <2>4. kind # "fragment"
      BY <1>4, Zenon DEF Acceptable
    <2>5. kind \in Kinds
      BY <1>2, <1>3, FirstFrameIs, Zenon
    <2>6. QED
      BY <2>2, <2>3, <2>4, <2>5 DEF Kinds
  <1>7. Answered(frames, n + 1, answers \o response_buffer_')
    <2>1. answers \o response_buffer_ \in Seq(Answer)
      BY InvParts
    <2>2. /\ frames \in Seq(Frames) /\ Len(frames) <= MaxFrames
          /\ Answered(frames, n, answers \o response_buffer_)
      BY <1>3, InvParts, Zenon DEF Faithful
    <2>3. QED
      BY <1>4, <1>6, <2>1, <2>2, FrameAnswered, Zenon
  <1>8. n + 1 \in 0 .. Len(frames)
    BY <1>4
  <1>9. Intact'
    BY <1>1, <1>5, <1>7, <1>8, Zenon DEF Intact, Faithful
  <1>10. Reception'
    <2>1. Stream' = Stream
      BY <1>1, Zenon DEF Stream, UnitsOf
    <2>2. QED
      BY <1>1, <2>1, Zenon DEF EndpointInv, Reception
  <1>11. request_buffer_' \in Seq(Nat \X Nat)
    BY <1>5, <1>8, InvParts, FirstBuffered, Zenon
  <1>12. EndpointTypeOK'
    BY <1>1, <1>6, <1>11, Zenon DEF EndpointInv, EndpointTypeOK, Answer
  <1>13. QED
    BY <1>9, <1>10, <1>12, Zenon DEF EndpointInv

LEMMA SendKeeps ==
    ASSUME EndpointInv, AnswerSent
    PROVE  EndpointInv'
  <1>1. /\ response_buffer_ # <<>> /\ answers' = Append(answers, Head(response_buffer_))
        /\ response_buffer_' = Tail(response_buffer_)
        /\ UNCHANGED <<endpoint_phase, request_buffer_, websocket_close_after_write_, events_,
                       step, endpoint_quiet, units_received, frames, units_sent, hung_up,
                       answers_read>>
    BY Zenon DEF AnswerSent, peer_vars
  <1>2. answers \in Seq(Answer) /\ response_buffer_ \in Seq(Answer)
    BY InvParts, Zenon
  <1>3. answers' \in Seq(Answer) /\ response_buffer_' \in Seq(Answer)
    BY <1>1, <1>2
  <1>4. answers' \o response_buffer_' = answers \o response_buffer_
    BY <1>1, <1>2
  <1>5. Intact'
    BY <1>1, <1>4, Zenon DEF EndpointInv, Intact, Faithful
  <1>6. Reception'
    <2>1. Stream' = Stream
      BY <1>1, Zenon DEF Stream, UnitsOf
    <2>2. QED
      BY <1>1, <2>1, Zenon DEF EndpointInv, Reception
  <1>7. EndpointTypeOK'
    BY <1>1, <1>3, Zenon DEF EndpointInv, EndpointTypeOK, Answer
  <1>8. QED
    BY <1>5, <1>6, <1>7, Zenon DEF EndpointInv

LEMMA InitInv == EndpointInit => EndpointInv
  <1> SUFFICES ASSUME EndpointInit PROVE EndpointInv
    OBVIOUS
  <1>1. /\ step = "idle" /\ units_received = units_sent
        /\ request_buffer_ = SubSeq(Stream, 1, units_received)
        /\ response_buffer_ = <<>> /\ websocket_close_after_write_ = FALSE
        /\ endpoint_quiet = 0 /\ hung_up = FALSE /\ answers = <<>> /\ answers_read = 0
        /\ (EndpointAbsent \/ EndpointBegins)
    BY Zenon DEF EndpointInit
  <1>2. /\ endpoint_phase \in {"writing", "websocket", "closed"} /\ events_ \in SUBSET Events
    BY <1>1 DEF EndpointAbsent, EndpointBegins, Events
  <1>3. /\ frames \in Seq(Frames) /\ Len(frames) <= MaxFrames /\ units_sent \in Nat
        /\ units_sent <= Len(StreamOf(frames, Len(frames)))
    <2>1. CASE frames = <<>> /\ units_sent = 0
      <3>1. frames \in Seq(Frames) /\ Len(frames) = 0
        BY <2>1
      <3>2. StreamOf(frames, Len(frames)) = <<>>
        BY <3>1, StreamEmpty, Zenon
      <3>3. QED
        BY <2>1, <3>1, <3>2, EndpointAssumption
    <2>2. ASSUME NEW n \in 1 .. MaxFrames, frames \in [1 .. n -> Frames],
                 units_sent \in Len(Stream) - frame_units(Last(frames)) + 1 .. Len(Stream)
          PROVE  /\ frames \in Seq(Frames) /\ Len(frames) <= MaxFrames /\ units_sent \in Nat
                 /\ units_sent <= Len(StreamOf(frames, Len(frames)))
      <3> DEFINE m == n - 1
      <3>1. n \in Nat /\ m \in Nat /\ m + 1 = n /\ n <= MaxFrames
        BY EndpointAssumption
      <3>2. frames \in Seq(Frames) /\ Len(frames) = n
        BY <2>2, <3>1
      <3>3. m \in 0 .. Len(frames) /\ m < Len(frames) /\ m + 1 \in 1 .. Len(frames)
        BY <3>1, <3>2
      <3>4. Last(frames) = frames[m + 1]
        BY <3>1, <3>2 DEF Last
      <3>5. frame_units(frames[m + 1]) \in Nat
        BY <3>2, <3>3, FrameAtIndex, Zenon
      <3>6. Stream = StreamOf(frames, m + 1)
        BY <3>1, <3>2, StreamIs, Zenon
      <3>7. Len(StreamOf(frames, m + 1)) = Len(StreamOf(frames, m)) + frame_units(frames[m + 1])
        BY <3>2, <3>3, StreamStep, Zenon
      <3>8. Len(StreamOf(frames, m)) \in Nat
        <4>1. StreamOf(frames, m) \in Seq(Nat \X Nat)
          BY <3>2, <3>3, StreamTyped, Zenon
        <4>2. QED
          BY <4>1
      <3>9. units_sent \in Nat /\ units_sent <= Len(StreamOf(frames, m + 1))
        BY <2>2, <3>4, <3>5, <3>6, <3>7, <3>8
      <3>10. QED
        BY <3>1, <3>2, <3>9, Zenon
    <2>3. QED
      BY <1>1, <2>1, <2>2, Zenon DEF EndpointAbsent, EndpointBegins
  <1>4. Stream = StreamOf(frames, Len(frames))
    BY <1>3, StreamIs, Zenon
  <1>5. Reception
    BY <1>1, <1>3, <1>4 DEF Reception
  <1>6. answers \o response_buffer_ = <<>>
    BY <1>1
  <1>7. /\ Consumed(frames, 0, units_received, request_buffer_)
        /\ Answered(frames, 0, answers \o response_buffer_)
    BY <1>1, <1>3, <1>4, <1>6, NothingYet, Zenon
  <1>8. 0 \in 0 .. Len(frames)
    BY <1>3
  <1>9. Intact
    BY <1>7, <1>8, Zenon DEF Intact, Faithful
  <1>10. EndpointTypeOK
    <2>1. request_buffer_ \in Seq(Nat \X Nat)
      BY <1>1, <1>3, <1>7, <1>8, FirstBuffered, Zenon
    <2>2. 0 \in 0 .. idle_timeout_seconds /\ 0 \in Nat /\ "idle" \in Steps
      BY SettingsAssumption DEF Steps
    <2>3. response_buffer_ \in Seq(Answer) /\ answers \in Seq(Answer)
      BY <1>1
    <2>4. QED
      BY <1>1, <1>2, <1>3, <2>1, <2>2, <2>3, Zenon DEF EndpointTypeOK, Answer
  <1>11. QED
    BY <1>5, <1>9, <1>10, Zenon DEF EndpointInv

LEMMA NextInv == EndpointInv /\ [EndpointNext]_endpoint_vars => EndpointInv'
  <1> SUFFICES ASSUME EndpointInv, [EndpointNext]_endpoint_vars PROVE EndpointInv'
    OBVIOUS
  <1>1. CASE UNCHANGED endpoint_vars
    <2>1. EndpointTypeOK'
      BY <1>1, Zenon DEF EndpointInv, EndpointTypeOK, endpoint_vars, peer_vars
    <2>2. UNCHANGED contents /\ units_sent' = units_sent
      BY <1>1, Zenon DEF endpoint_vars, peer_vars, contents
    <2>3. QED
      BY <2>1, <2>2, Unmoved, Zenon DEF EndpointInv
  <1>2. CASE EndpointNext
    <2>1. \/ Waits \/ ClientSendsUnit \/ \E frame \in Frames : ClientBeginsFrame(frame)
          \/ \E m \in 1 .. Len(Stream) : EndpointReceives(m)
          \/ FrameRefused \/ FrameHandled \/ AnswerSent
      BY <1>2, Zenon DEF EndpointNext, EndpointHandler, Waits
    <2>2. QED
      BY <2>1, WaitsKeeps, ClientKeeps, ReceiveKeeps, RefuseKeeps, HandleKeeps, SendKeeps, Zenon
  <1>3. QED
    BY <1>1, <1>2

LEMMA InvHolds == EndpointSafety => []EndpointInv
  BY InitInv, NextInv, PTL DEF EndpointSafety

(***************************************************************************)
(* Every variable of the endpoint keeps its type, and every answer it      *)
(* queues (queue_websocket_frame) is to a frame the client has sent.       *)
(***************************************************************************)
THEOREM EndpointTypeHolds == EndpointSafety => []EndpointTypeOK
  <1>1. EndpointInv => EndpointTypeOK
    BY Zenon DEF EndpointInv
  <1>2. QED
    BY <1>1, InvHolds, PTL

(***************************************************************************)
(* process_websocket_frames consumes whole frames only and answers each of *)
(* them once and in order, wherever the client's bytes are cut and however *)
(* many frames, of whatever length, it sends.                              *)
(***************************************************************************)
THEOREM AnswersAreFaithful == EndpointSafety => []AnswersFaithful
  <1>1. ASSUME EndpointInv PROVE AnswersFaithful
    <2>1. PICK n \in 0 .. Len(frames) : Faithful(n)
      BY <1>1, InvParts, Zenon DEF Intact
    <2> DEFINE given == answers \o response_buffer_
               owed == RepliesOf(frames, n)
    <2>2. /\ frames \in Seq(Frames) /\ Len(frames) <= MaxFrames
          /\ answers \in Seq(Answer) /\ response_buffer_ \in Seq(Answer)
      BY <1>1, InvParts, Zenon
    <2>3. /\ Stream = StreamOf(frames, Len(frames)) /\ UnitsUpTo(n) = StreamOf(frames, n)
          /\ RepliesUpTo(n) = owed
      BY <2>2, StreamIs, Zenon
    <2>4. given \in Seq(Answer) /\ owed \in Seq(Answer)
      BY <2>2, RepliesTyped
    <2>5. /\ request_buffer_ = SubSeq(Stream, Len(UnitsUpTo(n)) + 1, units_received)
          /\ \A i \in 1 .. n : Acceptable(frames[i])
      BY <2>1, <2>3, Zenon DEF Faithful, Consumed
    <2>6. /\ Len(owed) <= Len(given) /\ \A k \in 1 .. Len(owed) : given[k] = owed[k]
          /\ Len(owed) < Len(given) => n < Len(frames) /\ ~Acceptable(frames[n + 1])
          /\ \A k \in 1 .. Len(given) : Len(owed) < k => given[k] = [op |-> "close", to |-> n + 1]
      BY <2>1, Zenon DEF Faithful, Answered, Begins
    <2> HIDE DEF given, owed
    <2>7. IsPrefix(owed, given)
      <3>1. /\ SubSeq(owed, 1, Len(owed)) \in Seq(Answer) /\ SubSeq(given, 1, Len(owed)) \in Seq(Answer)
            /\ Len(SubSeq(owed, 1, Len(owed))) = Len(owed)
            /\ Len(SubSeq(given, 1, Len(owed))) = Len(owed)
            /\ \A k \in 1 .. Len(owed) :
                 SubSeq(owed, 1, Len(owed))[k] = owed[k] /\ SubSeq(given, 1, Len(owed))[k] = given[k]
        BY <2>4, <2>6
      <3>2. SubSeq(owed, 1, Len(owed)) = SubSeq(given, 1, Len(owed))
        BY <2>6, <3>1, SeqEqual
      <3>3. QED
        BY <2>6, <3>2 DEF IsPrefix
    <2>8. ASSUME NEW k \in Len(owed) + 1 .. Len(given)
          PROVE  given[k] = [op |-> "close", to |-> n + 1] /\ ~Acceptable(frames[n + 1])
      <3>1. k \in 1 .. Len(given) /\ Len(owed) < k /\ Len(owed) < Len(given)
        BY <2>4
      <3>2. QED
        BY <2>6, <3>1, Zenon
    <2>9. QED
      BY <2>3, <2>5, <2>7, <2>8, Zenon DEF AnswersFaithful, given
  <1>2. QED
    BY <1>1, InvHolds, PTL

----------------------------------------------------------------------------
(***************************************************************************)
(* NoFrameForgotten is about an endpoint between two events.  It holds as  *)
(* soon as process_websocket_frames is left.                               *)
(***************************************************************************)
Outside == endpoint_phase = "websocket" /\ step \in {"idle", "read", "flush"}

Settled == Outside => websocket_close_after_write_ \/ (~refused /\ ~complete)

LEMMA SameFront ==
    ASSUME frames' = frames, request_buffer_' = request_buffer_
    PROVE  (refused' <=> refused) /\ (complete' <=> complete)
  <1>1. FirstFrame' = FirstFrame
    BY Zenon DEF FirstFrame, FrameAt
  <1>2. length_known' <=> length_known
    BY <1>1, Zenon DEF length_known
  <1>3. QED
    BY <1>1, <1>2, Zenon DEF refused, complete, too_long

\* A step between two points outside process_websocket_frames.
LEMMA SettledStays ==
    ASSUME Settled, Outside, frames' = frames, request_buffer_' = request_buffer_,
           websocket_close_after_write_' = websocket_close_after_write_
    PROVE  Settled'
  BY SameFront, Zenon DEF Settled

LEMMA NextSettled == EndpointInv /\ Settled /\ [EndpointNext]_endpoint_vars => Settled'
  <1> SUFFICES ASSUME EndpointInv, Settled, [EndpointNext]_endpoint_vars PROVE Settled'
    OBVIOUS
  <1>1. CASE \/ UNCHANGED endpoint_vars \/ ClientSendsUnit \/ ClientReadsAnswer \/ ClientHangsUp
             \/ EndpointTick
    <2>1. /\ frames' = frames /\ request_buffer_' = request_buffer_
          /\ websocket_close_after_write_' = websocket_close_after_write_
          /\ endpoint_phase' = endpoint_phase /\ step' = step
      BY <1>1, Zenon DEF endpoint_vars, peer_vars, ClientSendsUnit, ClientReadsAnswer,
          ClientHangsUp, EndpointTick, endpoint_only
    <2>2. Outside' <=> Outside
      BY <2>1, Zenon DEF Outside
    <2>3. QED
      BY <2>1, <2>2, SameFront, Zenon DEF Settled
  <1>2. ASSUME NEW frame \in Frames, ClientBeginsFrame(frame) PROVE Settled'
    <2>1. /\ frames' = Append(frames, frame) /\ request_buffer_' = request_buffer_
          /\ websocket_close_after_write_' = websocket_close_after_write_
          /\ endpoint_phase' = endpoint_phase /\ step' = step
      BY <1>2, Zenon DEF ClientBeginsFrame, endpoint_only
    <2>2. Outside' <=> Outside
      BY <2>1, Zenon DEF Outside
    <2>3. CASE request_buffer_ = <<>>
      BY <2>1, <2>3, Zenon DEF Settled, refused, complete
    <2>4. CASE request_buffer_ # <<>>
      <3>1. PICK n \in 0 .. Len(frames) : Faithful(n)
        BY InvParts, Zenon DEF Intact
      <3>2. FrameAt = n + 1 /\ n + 1 \in 1 .. Len(frames)
        BY <2>4, <3>1, FirstFrameIs, Zenon
      <3>3. frames'[n + 1] = frames[n + 1]
        BY <2>1, <3>2, InvParts
      <3>4. FirstFrame' = FirstFrame
        BY <2>1, <3>2, <3>3, Zenon DEF FirstFrame, FrameAt
      <3>5. length_known' <=> length_known
        BY <2>1, <3>4, Zenon DEF length_known
      <3>6. (refused' <=> refused) /\ (complete' <=> complete)
        BY <2>1, <3>4, <3>5, Zenon DEF refused, complete, too_long
      <3>7. QED
        BY <2>1, <2>2, <3>6, Zenon DEF Settled
    <2>5. QED
      BY <2>3, <2>4
  <1>3. CASE \/ HandshakeWritten \/ EndpointHangUp \/ EndpointExpires \/ EndpointReadEnds
             \/ AnswerFails \/ EndpointCloses \/ \E m \in 1 .. Len(Stream) : EndpointReceives(m)
    <2>1. endpoint_phase' = "closed" \/ step' \in {"process", "process_early"}
      BY <1>3, Zenon DEF HandshakeWritten, EndpointHangUp, EndpointExpires, EndpointReadEnds,
          AnswerFails, EndpointCloses, EndpointReceives
    <2>2. ~Outside'
      BY <2>1 DEF Outside
    <2>3. QED
      BY <2>2, Zenon DEF Settled
  <1>4. CASE EndpointWakesUp \/ EndpointReadBlocks \/ AnswerSent \/ AnswerBlocked
    <2>1. /\ Outside /\ frames' = frames /\ request_buffer_' = request_buffer_
          /\ websocket_close_after_write_' = websocket_close_after_write_
      BY <1>4, Zenon DEF EndpointWakesUp, EndpointReadBlocks, AnswerSent, AnswerBlocked, In,
          Outside, peer_vars
    <2>2. QED
      BY <2>1, SettledStays, Zenon
  <1>5. CASE AllAnswersSent /\ ~EndpointCloses
    <2>1. /\ Outside /\ frames' = frames /\ request_buffer_' = request_buffer_
          /\ websocket_close_after_write_' = websocket_close_after_write_
      BY <1>5, Zenon DEF AllAnswersSent, In, Outside, peer_vars
    <2>2. QED
      BY <2>1, SettledStays, Zenon
  <1>6. CASE FrameIncomplete
    <2>1. ~refused /\ ~complete /\ frames' = frames /\ request_buffer_' = request_buffer_
      BY <1>6, Zenon DEF FrameIncomplete, peer_vars
    <2>2. QED
      BY <2>1, SameFront, Zenon DEF Settled
  <1>7. CASE FrameRefused
    BY <1>7, Zenon DEF FrameRefused, Settled
  <1>8. CASE FrameHandled
    <2>1. CASE websocket_close_after_write_' = TRUE
      BY <2>1, Zenon DEF Settled
    <2>2. CASE step' = step
      <3>1. step' \in {"process", "process_early"}
        BY <1>8, <2>2, Zenon DEF FrameHandled, Processing
      <3>2. ~Outside'
        BY <3>1 DEF Outside
      <3>3. QED
        BY <3>2, Zenon DEF Settled
    <2>3. QED
      BY <1>8, <2>1, <2>2, Zenon DEF FrameHandled
  <1>9. QED
    BY <1>1, <1>2, <1>3, <1>4, <1>5, <1>6, <1>7, <1>8, Zenon DEF EndpointNext, EndpointHandler

(***************************************************************************)
(* No frame that could be answered or refused waits in request_buffer_     *)
(* while the endpoint waits for an event, not even one that came with the  *)
(* upgrade request (finish_response), however the bytes were cut.          *)
(***************************************************************************)
THEOREM NoFrameIsForgotten == EndpointSafety => []NoFrameForgotten
  <1>1. EndpointInit => Settled
    <2>1. EndpointInit => endpoint_phase \in {"writing", "closed"}
      BY Zenon DEF EndpointInit, EndpointAbsent, EndpointBegins
    <2>2. endpoint_phase \in {"writing", "closed"} => ~Outside
      BY DEF Outside
    <2>3. QED
      BY <2>1, <2>2, Zenon DEF Settled
  <1>2. Settled => NoFrameForgotten
    BY Zenon DEF Settled, NoFrameForgotten, Outside, In
  <1>3. QED
    BY <1>1, <1>2, NextSettled, InvHolds, PTL DEF EndpointSafety
============================================================================
