-------------------------- MODULE ChunkedBodyProofs --------------------------
(***************************************************************************)
(* Both decoders of a chunked body give a handler what the client sent,    *)
(* for every body and every way its bytes arrive.                          *)
(***************************************************************************)
EXTENDS ChunkedBody, CommonLemmas

----------------------------------------------------------------------------
(* The beginnings of a concatenation.                                      *)

\* The concatenation of the sequences before ss[i].
Upto(ss, i) == IF i = 1 THEN <<>> ELSE Joined(ss, i - 1)

LEMMA UptoTyped ==
    ASSUME NEW S, NEW ss \in Seq(Seq(S)), NEW i \in 1 .. Len(ss) + 1
    PROVE  Upto(ss, i) \in Seq(S) /\ Len(Upto(ss, i)) \in Nat
  <1>1. CASE i = 1
    BY <1>1 DEF Upto
  <1>2. CASE i # 1
    <2>1. i - 1 \in Nat /\ i - 1 # 0 /\ \A j \in 1 .. i - 1 : ss[j] \in Seq(S)
      BY <1>2
    <2>2. Joined(ss, i - 1) \in Seq(S)
      BY <2>1, JoinedTyped
    <2>3. QED
      BY <1>2, <2>2 DEF Upto
  <1>3. QED
    BY <1>1, <1>2

LEMMA UptoNext ==
    ASSUME NEW S, NEW ss \in Seq(Seq(S)), NEW i \in 1 .. Len(ss)
    PROVE  Upto(ss, i + 1) = Upto(ss, i) \o ss[i]
  <1>1. ss[i] \in Seq(S) /\ i + 1 # 1 /\ (i + 1) - 1 = i
    OBVIOUS
  <1>2. Upto(ss, i + 1) = Joined(ss, i)
    BY <1>1, Zenon DEF Upto
  <1>3. CASE i = 1
    <2>1. <<>> \o ss[1] = ss[1]
      BY <1>1, <1>3, ConcatEmptySeq
    <2>2. QED
      BY <1>2, <1>3, <2>1, JoinedFirst, Zenon DEF Upto
  <1>4. CASE i # 1
    <2>1. i - 1 \in Nat /\ i - 1 # 0 /\ i \in Nat /\ i = (i - 1) + 1
      BY <1>4
    <2>2. Joined(ss, i) = Joined(ss, i - 1) \o ss[i]
      BY <2>1, JoinedNext, Zenon
    <2>3. QED
      BY <1>2, <1>4, <2>2, Zenon DEF Upto
  <1>5. QED
    BY <1>3, <1>4

LEMMA UptoAll ==
    ASSUME NEW S, NEW ss \in Seq(Seq(S))
    PROVE  FlattenSeq(ss) = Upto(ss, Len(ss) + 1)
  <1>1. Len(ss) \in Nat /\ (Len(ss) + 1) - 1 = Len(ss) /\ (Len(ss) = 0 => ss = <<>>)
    OBVIOUS
  <1>2. Len(ss) + 1 = 1 <=> Len(ss) = 0
    BY <1>1
  <1>3. QED
    BY <1>1, <1>2, FlattenIs, Zenon DEF Upto

\* What comes before ss[i] is a prefix of the whole.
Begins(s, t) == Len(s) <= Len(t) /\ \A k \in 1 .. Len(s) : t[k] = s[k]

LEMMA ConcatAt ==
    ASSUME NEW S, NEW s \in Seq(S), NEW t \in Seq(S)
    PROVE  /\ s \o t \in Seq(S) /\ Len(s \o t) = Len(s) + Len(t)
           /\ \A k \in 1 .. Len(s) : (s \o t)[k] = s[k]
           /\ \A k \in 1 .. Len(t) : (s \o t)[Len(s) + k] = t[k]
  <1> DEFINE w == s \o t
  <1>1. w \in Seq(S) /\ Len(w) = Len(s) + Len(t) /\ Len(s) \in Nat /\ Len(t) \in Nat
    OBVIOUS
  <1>2. \A k \in 1 .. Len(s) + Len(t) : w[k] = IF k <= Len(s) THEN s[k] ELSE t[k - Len(s)]
    BY ConcatProperties
  <1> HIDE DEF w
  <1>3. \A k \in 1 .. Len(s) : w[k] = s[k]
    BY <1>1, <1>2
  <1>4. ASSUME NEW k \in 1 .. Len(t) PROVE w[Len(s) + k] = t[k]
    <2>1. Len(s) + k \in 1 .. Len(s) + Len(t) /\ ~(Len(s) + k <= Len(s)) /\ (Len(s) + k) - Len(s) = k
      BY <1>1
    <2>2. QED
      BY <1>2, <2>1, Zenon
  <1>5. QED
    BY <1>1, <1>3, <1>4 DEF w

LEMMA SubSeqAt ==
    ASSUME NEW S, NEW s \in Seq(S), NEW a \in Nat, NEW z \in Nat, a <= z, z <= Len(s)
    PROVE  /\ SubSeq(s, a + 1, z) \in Seq(S) /\ Len(SubSeq(s, a + 1, z)) = z - a
           /\ \A k \in 1 .. z - a : SubSeq(s, a + 1, z)[k] = s[a + k]
  <1>1. \A i \in a + 1 .. z : s[i] \in S
    OBVIOUS
  <1>2. SubSeq(s, a + 1, z) \in Seq(S)
    BY <1>1, SubSeqProperties
  <1>3. QED
    BY <1>2

LEMMA BeginsLonger ==
    ASSUME NEW S, NEW s \in Seq(S), NEW t \in Seq(S), NEW w \in Seq(S), Begins(s \o t, w)
    PROVE  /\ Begins(s, w)
           /\ Len(s) + Len(t) <= Len(w)
           /\ \A k \in 1 .. Len(t) : w[Len(s) + k] = t[k]
  <1> DEFINE l == Len(s) + Len(t)
  <1>1. Len(s \o t) = l /\ Len(s) \in Nat /\ Len(t) \in Nat
    OBVIOUS
  <1>2. \A k \in 1 .. l : (s \o t)[k] = IF k <= Len(s) THEN s[k] ELSE t[k - Len(s)]
    BY ConcatProperties
  <1>3. l <= Len(w) /\ \A k \in 1 .. l : w[k] = (s \o t)[k]
    BY <1>1, Zenon DEF Begins
  <1>4. \A k \in 1 .. l : w[k] = IF k <= Len(s) THEN s[k] ELSE t[k - Len(s)]
    BY <1>2, <1>3, Zenon
  <1>5. Len(s) <= Len(w) /\ \A k \in 1 .. Len(s) : w[k] = s[k]
    BY <1>1, <1>3, <1>4
  <1>6. ASSUME NEW k \in 1 .. Len(t) PROVE w[Len(s) + k] = t[k]
    <2>1. Len(s) + k \in 1 .. l /\ ~(Len(s) + k <= Len(s)) /\ (Len(s) + k) - Len(s) = k
      BY <1>1
    <2>2. QED
      BY <1>4, <2>1, Zenon
  <1>7. QED
    BY <1>3, <1>5, <1>6 DEF Begins

LEMMA UptoBegins ==
    ASSUME NEW S, NEW ss \in Seq(Seq(S)), NEW i \in 1 .. Len(ss) + 1
    PROVE  Begins(Upto(ss, i), FlattenSeq(ss))
  <1> DEFINE w == FlattenSeq(ss)
             n == Len(ss)
             Bad == {j \in 0 .. n : ~Begins(Upto(ss, n + 1 - j), w)}
  <1>1. n \in Nat /\ w \in Seq(S) /\ w = Upto(ss, n + 1)
    BY FlattenTyped, UptoAll
  <1> HIDE DEF n, w
  <1>2. Bad = {}
    <2>1. SUFFICES ASSUME Bad # {} PROVE FALSE
      BY Zenon
    <2> DEFINE m == Min(Bad)
    <2>2. m \in Bad /\ \A y \in Bad : m <= y
      <3>1. Bad \in SUBSET Nat
        BY <1>1
      <3> HIDE DEF Bad
      <3>2. QED
        BY <2>1, <3>1, Least
    <2>3. m \in 0 .. n /\ ~Begins(Upto(ss, n + 1 - m), w)
      BY <2>2, Zenon
    <2> HIDE DEF m
    <2>4. m # 0
      <3>1. Begins(w, w)
        BY <1>1 DEF Begins
      <3>2. m = 0 => n + 1 - m = n + 1
        BY <1>1
      <3>3. QED
        BY <1>1, <2>3, <3>1, <3>2, Zenon
    <2> DEFINE i0 == n + 1 - m
    <2>5. /\ m - 1 \in 0 .. n /\ ~(m <= m - 1) /\ i0 \in 1 .. n /\ n + 1 - (m - 1) = i0 + 1
          /\ i0 \in 1 .. n + 1
      BY <1>1, <2>3, <2>4
    <2>6. Begins(Upto(ss, i0 + 1), w)
      BY <2>2, <2>5, Zenon
    <2> HIDE DEF i0, Bad
    <2>7. Upto(ss, i0 + 1) = Upto(ss, i0) \o ss[i0] /\ ss[i0] \in Seq(S) /\ Upto(ss, i0) \in Seq(S)
      BY <2>5, UptoNext, UptoTyped, SMTT(60) DEF n
    <2>8. Begins(Upto(ss, i0), w)
      <3>1. Begins(Upto(ss, i0) \o ss[i0], w)
        BY <2>6, <2>7, Zenon
      <3>2. QED
        BY <1>1, <2>7, <3>1, BeginsLonger, Zenon
    <2>9. QED
      BY <2>3, <2>8, Zenon DEF i0
  <1>3. n + 1 - i \in 0 .. n /\ n + 1 - (n + 1 - i) = i
    BY <1>1 DEF n
  <1>4. QED
    BY <1>2, <1>3, Zenon DEF w

----------------------------------------------------------------------------
(* Where the parts of an encoded body are.                                 *)

LEMMA ByteFacts ==
    /\ {"CR", "LF", "SP", ";", "x"} \subseteq Bytes
    /\ "0" \in Bytes /\ "0" \in DOMAIN Digit /\ Digit["0"] = 0 /\ "x" \notin DOMAIN Digit
    /\ CrLf \in Seq(Bytes) /\ Len(CrLf) = 2 /\ CrLf[1] = "CR" /\ CrLf[2] = "LF"
  <1>1. ToSet(HexDigits) = {HexDigits[i] : i \in 1 .. 16} /\ DOMAIN HexDigits = 1 .. 16
    BY DEF ToSet, HexDigits
  <1>2. HexDigits[1] = "0" /\ \A i \in 1 .. 16 : (HexDigits[i] = "0" => i = 1) /\ HexDigits[i] # "x"
    BY DEF HexDigits
  <1>3. DOMAIN Digit = ToSet(HexDigits)
    BY DEF Digit
  <1>4. "0" \in ToSet(HexDigits) /\ "x" \notin ToSet(HexDigits)
    BY <1>1, <1>2
  <1>5. (CHOOSE i \in DOMAIN HexDigits : HexDigits[i] = "0") = 1
    BY <1>1, <1>2
  <1>6. Digit["0"] = 0
    BY <1>4, <1>5 DEF Digit
  <1>7. QED
    BY <1>3, <1>4, <1>6 DEF Bytes, CrLf

Parts(chs) == [i \in DOMAIN chs |-> Encoded(chs[i])]
Datas(chs) == [i \in DOMAIN chs |-> chs[i].data]

\* The bytes a client sends for the chunks chs and the trailer tr.
Whole(chs, tr) == FlattenSeq(Parts(chs)) \o <<"0">> \o CrLf \o tr \o CrLf \o <<"x">>

\* The number of the bytes, and the data, before the chunk i.
Off(chs, i) == Len(Upto(Parts(chs), i))
Got(chs, i) == Upto(Datas(chs), i)

LEMMA ChunkFacts ==
    ASSUME NEW c \in Chunks
    PROVE  /\ c.form \in Forms /\ c.line \in Seq(Bytes) /\ c.data \in Seq(Bytes)
           /\ Len(c.line) \in Nat /\ Len(c.data) \in Nat
           /\ \A k \in 1 .. Len(c.line) : c.line[k] # "CR"
           /\ c.form = "no_size" => chunk_size(c.line) = NoSize
           /\ c.form # "no_size" => chunk_size(c.line) = Len(c.data) /\ Len(c.data) > 0
  <1>1. c \in [form : Forms, line : Seq(Bytes), data : Seq(Bytes)]
    BY ChunksAssumption, Zenon
  <1>2. c.form \in Forms /\ c.line \in Seq(Bytes) /\ c.data \in Seq(Bytes)
    BY <1>1
  <1>3. \A k \in 1 .. Len(c.line) : c.line[k] # "CR"
    <2>1. ~Contains(c.line, "CR")
      BY ChunksAssumption, Zenon
    <2>2. QED
      BY <1>2, <2>1 DEF Contains
  <1>4. c.data # <<>> => Len(c.data) > 0
    BY <1>2
  <1>5. QED
    BY <1>2, <1>3, <1>4, ChunksAssumption

LEMMA EncodedTyped ==
    ASSUME NEW c \in Chunks
    PROVE  /\ Encoded(c) \in Seq(Bytes)
           /\ Len(Encoded(c)) = Len(c.line) + Len(c.data) + (IF c.form = "no_end" THEN 3 ELSE 4)
           /\ \A k \in 1 .. Len(c.line) : Encoded(c)[k] = c.line[k]
           /\ Encoded(c)[Len(c.line) + 1] = "CR" /\ Encoded(c)[Len(c.line) + 2] = "LF"
           /\ \A k \in 1 .. Len(c.data) : Encoded(c)[Len(c.line) + 2 + k] = c.data[k]
           /\ c.form = "no_end" => Encoded(c)[Len(c.line) + Len(c.data) + 3] = "x"
           /\ c.form # "no_end" => /\ Encoded(c)[Len(c.line) + Len(c.data) + 3] = "CR"
                                   /\ Encoded(c)[Len(c.line) + Len(c.data) + 4] = "LF"
  <1> DEFINE L == c.line
             D == c.data
             E == IF c.form = "no_end" THEN <<"x">> ELSE CrLf
  <1>1. L \in Seq(Bytes) /\ D \in Seq(Bytes) /\ Len(L) \in Nat /\ Len(D) \in Nat
    BY ChunkFacts
  <1>2. E \in Seq(Bytes) /\ Len(E) = (IF c.form = "no_end" THEN 1 ELSE 2)
    <2>1. <<"x">> \in Seq(Bytes) /\ Len(<<"x">>) = 1
      <3>1. "x" \in Bytes
        BY ByteFacts
      <3>2. QED
        BY <3>1
    <2>2. QED
      BY <2>1, ByteFacts, Zenon
  <1>3. /\ c.form = "no_end" => E[1] = "x"
        /\ c.form # "no_end" => E[1] = "CR" /\ E[2] = "LF"
    BY ByteFacts
  <1>4. Encoded(c) = ((L \o CrLf) \o D) \o E
    BY DEF Encoded, SizeLine
  <1>5. CrLf \in Seq(Bytes) /\ Len(CrLf) = 2 /\ CrLf[1] = "CR" /\ CrLf[2] = "LF"
    BY ByteFacts
  <1> HIDE DEF L, D, E
  <1> DEFINE P == L \o CrLf
             Q == P \o D
  <1>6. /\ P \in Seq(Bytes) /\ Len(P) = Len(L) + 2 /\ (\A k \in 1 .. Len(L) : P[k] = L[k])
        /\ P[Len(L) + 1] = "CR" /\ P[Len(L) + 2] = "LF"
    <2>1. /\ P \in Seq(Bytes) /\ Len(P) = Len(L) + Len(CrLf) /\ (\A k \in 1 .. Len(L) : P[k] = L[k])
          /\ \A k \in 1 .. Len(CrLf) : P[Len(L) + k] = CrLf[k]
      <3>1. L \in Seq(Bytes) /\ CrLf \in Seq(Bytes)
        BY <1>1, <1>5, Zenon
      <3>2. QED
        BY <3>1, ConcatAt
    <2> HIDE DEF P
    <2>2. 1 \in 1 .. Len(CrLf) /\ 2 \in 1 .. Len(CrLf)
      BY <1>5
    <2>3. QED
      BY <1>5, <2>1, <2>2
  <1> HIDE DEF P
  <1>7. /\ Q \in Seq(Bytes) /\ Len(Q) = Len(L) + 2 + Len(D) /\ (\A k \in 1 .. Len(L) : Q[k] = L[k])
        /\ Q[Len(L) + 1] = "CR" /\ Q[Len(L) + 2] = "LF"
        /\ \A k \in 1 .. Len(D) : Q[Len(L) + 2 + k] = D[k]
    <2>1. /\ Q \in Seq(Bytes) /\ Len(Q) = Len(P) + Len(D) /\ (\A k \in 1 .. Len(P) : Q[k] = P[k])
          /\ \A k \in 1 .. Len(D) : Q[Len(P) + k] = D[k]
      <3>1. P \in Seq(Bytes) /\ D \in Seq(Bytes)
        BY <1>1, <1>6, Zenon
      <3>2. QED
        BY <3>1, ConcatAt
    <2> HIDE DEF Q
    <2>2. QED
      BY <1>1, <1>6, <2>1
  <1> HIDE DEF Q
  <1>8. Encoded(c) = Q \o E
    BY <1>4 DEF P, Q
  <1>9. /\ Encoded(c) \in Seq(Bytes) /\ Len(Encoded(c)) = Len(L) + 2 + Len(D) + Len(E)
        /\ \A k \in 1 .. Len(Q) : Encoded(c)[k] = Q[k]
        /\ \A k \in 1 .. Len(E) : Encoded(c)[Len(Q) + k] = E[k]
    <2>1. /\ Q \o E \in Seq(Bytes) /\ Len(Q \o E) = Len(Q) + Len(E)
          /\ (\A k \in 1 .. Len(Q) : (Q \o E)[k] = Q[k])
          /\ \A k \in 1 .. Len(E) : (Q \o E)[Len(Q) + k] = E[k]
      <3>1. Q \in Seq(Bytes) /\ E \in Seq(Bytes)
        BY <1>2, <1>7, Zenon
      <3>2. QED
        BY <3>1, ConcatAt
    <2>2. Len(Q) = Len(L) + 2 + Len(D)
      BY <1>7
    <2>3. QED
      BY <1>8, <2>1, <2>2, Zenon
  <1>10. /\ (\A k \in 1 .. Len(L) : Encoded(c)[k] = L[k])
         /\ Encoded(c)[Len(L) + 1] = "CR" /\ Encoded(c)[Len(L) + 2] = "LF"
         /\ \A k \in 1 .. Len(D) : Encoded(c)[Len(L) + 2 + k] = D[k]
    BY <1>1, <1>7, <1>9
  <1>11. /\ c.form = "no_end" => Encoded(c)[Len(L) + Len(D) + 3] = "x"
         /\ c.form # "no_end" => /\ Encoded(c)[Len(L) + Len(D) + 3] = "CR"
                                 /\ Encoded(c)[Len(L) + Len(D) + 4] = "LF"
    BY <1>1, <1>2, <1>3, <1>7, <1>9, SMTT(60)
  <1>12. Len(Encoded(c)) = Len(L) + Len(D) + (IF c.form = "no_end" THEN 3 ELSE 4)
    <2>1. c.form = "no_end" => Len(E) = 1
      BY <1>2, Zenon
    <2>2. c.form # "no_end" => Len(E) = 2
      BY <1>2, Zenon
    <2>3. Len(Encoded(c)) = Len(L) + 2 + Len(D) + Len(E)
      BY <1>9, Zenon
    <2>4. CASE c.form = "no_end"
      <3>1. Len(E) = 1
        BY <2>1, <2>4, Zenon
      <3>2. Len(Encoded(c)) = Len(L) + Len(D) + 3
        BY <1>1, <2>3, <3>1
      <3>3. QED
        BY <2>4, <3>2, Zenon
    <2>5. CASE c.form # "no_end"
      <3>1. Len(E) = 2
        BY <2>2, <2>5, Zenon
      <3>2. Len(Encoded(c)) = Len(L) + Len(D) + 4
        BY <1>1, <2>3, <3>1
      <3>3. QED
        BY <2>5, <3>2, Zenon
    <2>6. QED
      BY <2>4, <2>5
  <1>13. QED
    BY <1>9, <1>10, <1>11, <1>12 DEF L, D

LEMMA PartsTyped ==
    ASSUME NEW chs \in Seq(Chunks)
    PROVE  /\ Parts(chs) \in Seq(Seq(Bytes)) /\ Len(Parts(chs)) = Len(chs)
           /\ Datas(chs) \in Seq(Seq(Bytes)) /\ Len(Datas(chs)) = Len(chs)
           /\ \A i \in 1 .. Len(chs) : /\ chs[i] \in Chunks
                                       /\ Parts(chs)[i] = Encoded(chs[i]) /\ Datas(chs)[i] = chs[i].data
  <1>1. Len(chs) \in Nat /\ DOMAIN chs = 1 .. Len(chs) /\ \A i \in 1 .. Len(chs) : chs[i] \in Chunks
    OBVIOUS
  <1>2. \A i \in 1 .. Len(chs) : Encoded(chs[i]) \in Seq(Bytes) /\ chs[i].data \in Seq(Bytes)
    BY <1>1, EncodedTyped, ChunkFacts
  <1>3. /\ Parts(chs) = [i \in 1 .. Len(chs) |-> Encoded(chs[i])]
        /\ Datas(chs) = [i \in 1 .. Len(chs) |-> chs[i].data]
    BY <1>1, Zenon DEF Parts, Datas
  <1>4. QED
    BY <1>1, <1>2, <1>3

\* The chunk c is encoded behind the first o of the bytes b.
ChunkAt(b, o, c) ==
    /\ \A k \in 1 .. Len(c.line) : b[o + k] = c.line[k]
    /\ b[o + Len(c.line) + 1] = "CR" /\ b[o + Len(c.line) + 2] = "LF"
    /\ \A k \in 1 .. Len(c.data) : b[o + Len(c.line) + 2 + k] = c.data[k]
    /\ c.form = "no_end" => b[o + Len(c.line) + Len(c.data) + 3] = "x"
    /\ c.form # "no_end" => /\ b[o + Len(c.line) + Len(c.data) + 3] = "CR"
                            /\ b[o + Len(c.line) + Len(c.data) + 4] = "LF"

\* The last chunk and the trailer tr are, and the next request begins.
EndAt(b, o, tr) ==
    /\ Len(b) = o + Len(tr) + 6
    /\ b[o + 1] = "0" /\ b[o + 2] = "CR" /\ b[o + 3] = "LF"
    /\ \A k \in 1 .. Len(tr) : b[o + 3 + k] = tr[k]
    /\ b[o + Len(tr) + 4] = "CR" /\ b[o + Len(tr) + 5] = "LF" /\ b[o + Len(tr) + 6] = "x"

Width(c) == Len(c.line) + Len(c.data) + (IF c.form = "no_end" THEN 3 ELSE 4)

LEMMA EndAtEnd ==
    ASSUME NEW p \in Seq(Bytes), NEW tr \in Seq(Bytes)
    PROVE  LET b == p \o <<"0">> \o CrLf \o tr \o CrLf \o <<"x">>
           IN  b \in Seq(Bytes) /\ EndAt(b, Len(p), tr) /\ Begins(p, b)
  <1> DEFINE z == <<"0">>
             x == <<"x">>
  <1>1. /\ z \in Seq(Bytes) /\ Len(z) = 1 /\ z[1] = "0"
        /\ x \in Seq(Bytes) /\ Len(x) = 1 /\ x[1] = "x"
    <2>1. "0" \in Bytes /\ "x" \in Bytes
      BY ByteFacts
    <2>2. QED
      BY <2>1
  <1>2. CrLf \in Seq(Bytes) /\ Len(CrLf) = 2 /\ CrLf[1] = "CR" /\ CrLf[2] = "LF"
    BY ByteFacts
  <1>3. Len(p) \in Nat /\ Len(tr) \in Nat
    OBVIOUS
  <1> HIDE DEF z, x
  <1> DEFINE b1 == p \o z
  <1>4. /\ b1 \in Seq(Bytes) /\ Len(b1) = Len(p) + 1 /\ (\A k \in 1 .. Len(p) : b1[k] = p[k])
        /\ b1[Len(p) + 1] = "0"
    <2>1. /\ b1 \in Seq(Bytes) /\ Len(b1) = Len(p) + Len(z) /\ (\A k \in 1 .. Len(p) : b1[k] = p[k])
          /\ \A k \in 1 .. Len(z) : b1[Len(p) + k] = z[k]
      BY <1>1, ConcatAt
    <2> HIDE DEF b1
    <2>2. QED
      BY <1>1, <2>1
  <1> HIDE DEF b1
  <1> DEFINE b2 == b1 \o CrLf
  <1>5. /\ b2 \in Seq(Bytes) /\ Len(b2) = Len(p) + 3 /\ (\A k \in 1 .. Len(p) : b2[k] = p[k])
        /\ b2[Len(p) + 1] = "0" /\ b2[Len(p) + 2] = "CR" /\ b2[Len(p) + 3] = "LF"
    <2>1. /\ b2 \in Seq(Bytes) /\ Len(b2) = Len(b1) + Len(CrLf) /\ (\A k \in 1 .. Len(b1) : b2[k] = b1[k])
          /\ \A k \in 1 .. Len(CrLf) : b2[Len(b1) + k] = CrLf[k]
      <3>1. b1 \in Seq(Bytes) /\ CrLf \in Seq(Bytes)
        BY <1>2, <1>4, Zenon
      <3>2. QED
        BY <3>1, ConcatAt
    <2> HIDE DEF b2
    <2>2. /\ Len(b1) + 1 = Len(p) + 2 /\ Len(b1) + 2 = Len(p) + 3 /\ Len(p) + 1 \in 1 .. Len(b1)
          /\ 1 \in 1 .. Len(CrLf) /\ 2 \in 1 .. Len(CrLf) /\ Len(b1) + Len(CrLf) = Len(p) + 3
      BY <1>2, <1>3, <1>4
    <2>3. b2[Len(p) + 1] = "0" /\ b2[Len(p) + 2] = "CR" /\ b2[Len(p) + 3] = "LF"
      BY <1>2, <1>4, <2>1, <2>2, Zenon
    <2>4. \A k \in 1 .. Len(p) : b2[k] = p[k]
      BY <1>3, <1>4, <2>1
    <2>5. QED
      BY <2>1, <2>2, <2>3, <2>4, Zenon
  <1> HIDE DEF b2
  <1> DEFINE b3 == b2 \o tr
  <1>6. /\ b3 \in Seq(Bytes) /\ Len(b3) = Len(p) + 3 + Len(tr) /\ (\A k \in 1 .. Len(p) : b3[k] = p[k])
        /\ b3[Len(p) + 1] = "0" /\ b3[Len(p) + 2] = "CR" /\ b3[Len(p) + 3] = "LF"
        /\ \A k \in 1 .. Len(tr) : b3[Len(p) + 3 + k] = tr[k]
    <2>1. /\ b3 \in Seq(Bytes) /\ Len(b3) = Len(b2) + Len(tr) /\ (\A k \in 1 .. Len(b2) : b3[k] = b2[k])
          /\ \A k \in 1 .. Len(tr) : b3[Len(b2) + k] = tr[k]
      <3>1. b2 \in Seq(Bytes)
        BY <1>5, Zenon
      <3>2. QED
        BY <3>1, ConcatAt
    <2> HIDE DEF b3
    <2>2. QED
      BY <1>3, <1>5, <2>1
  <1> HIDE DEF b3
  <1> DEFINE b4 == b3 \o CrLf
             n == Len(p) + 3 + Len(tr)
  <1>7. /\ b4 \in Seq(Bytes) /\ Len(b4) = n + 2 /\ (\A k \in 1 .. n : b4[k] = b3[k])
        /\ b4[n + 1] = "CR" /\ b4[n + 2] = "LF"
    <2>1. /\ b4 \in Seq(Bytes) /\ Len(b4) = Len(b3) + Len(CrLf) /\ (\A k \in 1 .. Len(b3) : b4[k] = b3[k])
          /\ \A k \in 1 .. Len(CrLf) : b4[Len(b3) + k] = CrLf[k]
      <3>1. b3 \in Seq(Bytes) /\ CrLf \in Seq(Bytes)
        BY <1>2, <1>6, Zenon
      <3>2. QED
        BY <3>1, ConcatAt
    <2> HIDE DEF b4
    <2>2. QED
      BY <1>2, <1>3, <1>6, <2>1
  <1> HIDE DEF b4
  <1> DEFINE b == b4 \o x
  <1>8. /\ b \in Seq(Bytes) /\ Len(b) = n + 3 /\ (\A k \in 1 .. n : b[k] = b3[k])
        /\ b[n + 1] = "CR" /\ b[n + 2] = "LF" /\ b[n + 3] = "x"
    <2>1. /\ b \in Seq(Bytes) /\ Len(b) = Len(b4) + Len(x) /\ (\A k \in 1 .. Len(b4) : b[k] = b4[k])
          /\ \A k \in 1 .. Len(x) : b[Len(b4) + k] = x[k]
      <3>1. b4 \in Seq(Bytes) /\ x \in Seq(Bytes)
        BY <1>1, <1>7, Zenon
      <3>2. QED
        BY <3>1, ConcatAt
    <2> HIDE DEF b
    <2>2. /\ Len(b4) + 1 = n + 3 /\ n + 1 \in 1 .. Len(b4) /\ n + 2 \in 1 .. Len(b4) /\ 1 \in 1 .. Len(x)
          /\ Len(b4) + Len(x) = n + 3 /\ \A k \in 1 .. n : k \in 1 .. Len(b4)
      BY <1>1, <1>3, <1>7
    <2>3. QED
      BY <1>1, <1>7, <2>1, <2>2, Zenon
  <1>9. b = p \o <<"0">> \o CrLf \o tr \o CrLf \o <<"x">>
    BY DEF b1, b2, b3, b4, z, x
  <1> HIDE DEF b
  <1>10. /\ Len(b) = Len(p) + Len(tr) + 6 /\ (\A k \in 1 .. Len(p) : b[k] = p[k])
         /\ b[Len(p) + 1] = "0" /\ b[Len(p) + 2] = "CR" /\ b[Len(p) + 3] = "LF"
         /\ \A k \in 1 .. Len(tr) : b[Len(p) + 3 + k] = tr[k]
    BY <1>3, <1>6, <1>8, SMTT(60)
  <1>11. b[Len(p) + Len(tr) + 4] = "CR" /\ b[Len(p) + Len(tr) + 5] = "LF" /\ b[Len(p) + Len(tr) + 6] = "x"
    <2>1. Len(p) + Len(tr) + 4 = n + 1 /\ Len(p) + Len(tr) + 5 = n + 2 /\ Len(p) + Len(tr) + 6 = n + 3
      BY <1>3
    <2>2. QED
      BY <1>8, <2>1, Zenon
  <1>12. EndAt(b, Len(p), tr)
    BY <1>10, <1>11, Zenon DEF EndAt
  <1>13. Begins(p, b)
    <2>1. Len(p) <= Len(b)
      BY <1>3, <1>10
    <2>2. QED
      BY <1>10, <2>1, Zenon DEF Begins
  <1>14. QED
    BY <1>8, <1>9, <1>12, <1>13, Zenon

LEMMA Layout ==
    ASSUME NEW chs \in Seq(Chunks), NEW tr \in Trailers
    PROVE  /\ Whole(chs, tr) \in Seq(Bytes) /\ tr \in Seq(Bytes)
           /\ Off(chs, 1) = 0
           /\ \A i \in 1 .. Len(chs) + 1 : Off(chs, i) \in Nat /\ Off(chs, i) <= Off(chs, Len(chs) + 1)
           /\ \A i \in 1 .. Len(chs) : /\ ChunkAt(Whole(chs, tr), Off(chs, i), chs[i])
                                       /\ Off(chs, i + 1) = Off(chs, i) + Width(chs[i])
           /\ EndAt(Whole(chs, tr), Off(chs, Len(chs) + 1), tr)
  <1> DEFINE ps == Parts(chs)
             n == Len(chs)
             p == FlattenSeq(ps)
             b == Whole(chs, tr)
  <1>1. /\ ps \in Seq(Seq(Bytes)) /\ Len(ps) = n /\ n \in Nat
        /\ \A i \in 1 .. n : chs[i] \in Chunks /\ ps[i] = Encoded(chs[i])
    BY PartsTyped
  <1>2. tr \in Seq(Bytes)
    BY TrailersAssumption
  <1> HIDE DEF ps, n
  <1>3. p \in Seq(Bytes) /\ p = Upto(ps, n + 1)
    BY <1>1, FlattenTyped, UptoAll, Zenon
  <1>4. b = p \o <<"0">> \o CrLf \o tr \o CrLf \o <<"x">>
    BY Zenon DEF Whole, ps
  <1> HIDE DEF p, b
  <1>5. b \in Seq(Bytes) /\ EndAt(b, Len(p), tr) /\ Begins(p, b)
    BY <1>2, <1>3, <1>4, EndAtEnd, Zenon
  <1>6. ASSUME NEW i \in 1 .. n + 1
        PROVE  /\ Upto(ps, i) \in Seq(Bytes) /\ Off(chs, i) \in Nat /\ Off(chs, i) = Len(Upto(ps, i))
               /\ Begins(Upto(ps, i), p)
    BY <1>1, UptoTyped, UptoBegins, Zenon DEF Off, ps, p
  <1>7. Off(chs, n + 1) = Len(p) /\ Off(chs, 1) = 0
    <2>1. n + 1 \in 1 .. n + 1 /\ Len(<<>>) = 0
      BY <1>1
    <2>2. Off(chs, 1) = 0
      BY <2>1, Zenon DEF Off, Upto
    <2>3. Off(chs, n + 1) = Len(p)
      BY <1>3, <1>6, <2>1, Zenon
    <2>4. QED
      BY <2>2, <2>3
  <1>8. ASSUME NEW i \in 1 .. n
        PROVE  ChunkAt(b, Off(chs, i), chs[i]) /\ Off(chs, i + 1) = Off(chs, i) + Width(chs[i])
    <2> DEFINE u == Upto(ps, i)
               e == Encoded(chs[i])
               c == chs[i]
    <2>1. i \in 1 .. n + 1 /\ i + 1 \in 1 .. n + 1 /\ c \in Chunks /\ ps[i] = e
      BY <1>1
    <2>2. u \in Seq(Bytes) /\ Off(chs, i) = Len(u) /\ Len(u) \in Nat
      BY <1>6, <2>1, Zenon
    <2>3. Upto(ps, i + 1) = u \o e
      BY <1>1, <2>1, UptoNext, Zenon
    <2>4. e \in Seq(Bytes) /\ Len(e) = Width(c)
      BY <2>1, EncodedTyped, Zenon DEF Width
    <2>5. Begins(u \o e, p) /\ Off(chs, i + 1) = Len(u \o e)
      BY <1>6, <2>1, <2>3, Zenon
    <2> HIDE DEF u, e, c
    <2>6. Len(u) + Len(e) <= Len(p) /\ \A k \in 1 .. Len(e) : p[Len(u) + k] = e[k]
      BY <1>3, <2>2, <2>4, <2>5, BeginsLonger, Zenon
    <2>7. Off(chs, i + 1) = Len(u) + Width(c)
      BY <2>2, <2>4, <2>5
    <2>8. \A k \in 1 .. Len(p) : b[k] = p[k]
      BY <1>5, Zenon DEF Begins
    <2>9. \A k \in 1 .. Len(e) : b[Len(u) + k] = e[k]
      <3>1. ASSUME NEW k \in 1 .. Len(e) PROVE Len(u) + k \in 1 .. Len(p)
        BY <1>3, <2>2, <2>4, <2>6
      <3>2. QED
        BY <2>6, <2>8, <3>1, Zenon
    <2>10. ChunkAt(b, Len(u), c)
      <3> DEFINE l == Len(c.line)
                 d == Len(c.data)
      <3>1. l \in Nat /\ d \in Nat
        BY <2>1, ChunkFacts, Zenon
      <3>2. /\ Len(e) = l + d + (IF c.form = "no_end" THEN 3 ELSE 4)
            /\ \A k \in 1 .. l : e[k] = c.line[k]
            /\ e[l + 1] = "CR" /\ e[l + 2] = "LF"
            /\ \A k \in 1 .. d : e[l + 2 + k] = c.data[k]
            /\ c.form = "no_end" => e[l + d + 3] = "x"
            /\ c.form # "no_end" => e[l + d + 3] = "CR" /\ e[l + d + 4] = "LF"
        BY <2>1, EncodedTyped, Zenon DEF e, c
      <3> DEFINE short == c.form = "no_end"
      <3> HIDE DEF l, d, short
      <3>3. Len(e) = (IF short THEN l + d + 3 ELSE l + d + 4)
        BY <3>1, <3>2 DEF short
      <3>4. /\ \A k \in 1 .. l : k \in 1 .. Len(e)
            /\ l + 1 \in 1 .. Len(e) /\ l + 2 \in 1 .. Len(e) /\ l + d + 3 \in 1 .. Len(e)
            /\ \A k \in 1 .. d : l + 2 + k \in 1 .. Len(e)
            /\ ~short => l + d + 4 \in 1 .. Len(e)
        BY <3>1, <3>3
      <3>5. /\ Len(u) + (l + 1) = Len(u) + l + 1 /\ Len(u) + (l + 2) = Len(u) + l + 2
            /\ Len(u) + (l + d + 3) = Len(u) + l + d + 3 /\ Len(u) + (l + d + 4) = Len(u) + l + d + 4
            /\ \A k \in 1 .. d : Len(u) + (l + 2 + k) = Len(u) + l + 2 + k
        BY <2>2, <3>1
      <3>6. \A k \in 1 .. l : b[Len(u) + k] = c.line[k]
        BY <2>9, <3>2, <3>4, Zenon
      <3>7. b[Len(u) + l + 1] = "CR" /\ b[Len(u) + l + 2] = "LF"
        BY <2>9, <3>2, <3>4, <3>5, Zenon
      <3>8. \A k \in 1 .. d : b[Len(u) + l + 2 + k] = c.data[k]
        BY <2>9, <3>2, <3>4, <3>5, Zenon
      <3>9. short => b[Len(u) + l + d + 3] = "x"
        BY <2>9, <3>2, <3>4, <3>5, Zenon DEF short
      <3>10. ~short => b[Len(u) + l + d + 3] = "CR" /\ b[Len(u) + l + d + 4] = "LF"
        BY <2>9, <3>2, <3>4, <3>5, Zenon DEF short
      <3>11. QED
        BY <3>6, <3>7, <3>8, <3>9, <3>10, Zenon DEF ChunkAt, l, d, short
    <2>11. QED
      BY <2>2, <2>7, <2>10, Zenon DEF c
  <1>9. \A i \in 1 .. n + 1 : Off(chs, i) \in Nat /\ Off(chs, i) <= Off(chs, n + 1)
    BY <1>6, <1>7, Zenon DEF Begins
  <1>10. QED
    BY <1>2, <1>5, <1>7, <1>8, <1>9, Zenon DEF n, b

LEMMA GotFacts ==
    ASSUME NEW chs \in Seq(Chunks)
    PROVE  /\ Got(chs, 1) = <<>>
           /\ \A i \in 1 .. Len(chs) + 1 : Got(chs, i) \in Seq(Bytes)
           /\ \A i \in 1 .. Len(chs) : Got(chs, i + 1) = Got(chs, i) \o chs[i].data
           /\ Got(chs, Len(chs) + 1) = FlattenSeq([i \in DOMAIN chs |-> chs[i].data])
  <1> DEFINE ds == Datas(chs)
  <1>1. /\ ds \in Seq(Seq(Bytes)) /\ Len(ds) = Len(chs)
        /\ \A i \in 1 .. Len(chs) : ds[i] = chs[i].data
    BY PartsTyped, Zenon
  <1>2. FlattenSeq([i \in DOMAIN chs |-> chs[i].data]) = FlattenSeq(ds)
    BY Zenon DEF Datas
  <1> HIDE DEF ds
  <1>3. \A i \in 1 .. Len(chs) + 1 : Upto(ds, i) \in Seq(Bytes)
    BY <1>1, UptoTyped, Zenon
  <1>4. \A i \in 1 .. Len(chs) : Upto(ds, i + 1) = Upto(ds, i) \o ds[i]
    BY <1>1, UptoNext, Zenon
  <1>5. FlattenSeq(ds) = Upto(ds, Len(chs) + 1)
    BY <1>1, UptoAll, Zenon
  <1>6. Got(chs, 1) = <<>>
    BY Zenon DEF Got, Upto
  <1>7. QED
    BY <1>1, <1>2, <1>3, <1>4, <1>5, <1>6, Zenon DEF Got, ds

----------------------------------------------------------------------------
(* decode_chunked_body.  Runs(f, bytes, n): f[k] is what k rounds of its   *)
(* loop have made of the bytes, up to n of them.                           *)
Runs(f, bytes, n) ==
    f = [k \in 0 .. n |-> IF k = 0 THEN Decode("decoding", <<>>, 0) ELSE decode_chunk(bytes, f[k - 1])]

LEMMA RunsExist ==
    ASSUME NEW bytes, NEW n \in Nat
    PROVE  \E f : Runs(f, bytes, n)
  <1> DEFINE Bad == {k \in Nat : ~ \E f : Runs(f, bytes, k)}
             first == Decode("decoding", <<>>, 0)
  <1>1. Bad = {}
    <2>1. SUFFICES ASSUME Bad # {} PROVE FALSE
      BY Zenon
    <2> DEFINE m == Min(Bad)
    <2>2. m \in Bad /\ \A y \in Bad : m <= y
      <3>1. Bad \in SUBSET Nat
        OBVIOUS
      <3> HIDE DEF Bad
      <3>2. QED
        BY <2>1, <3>1, Least
    <2>3. m \in Nat /\ ~ \E f : Runs(f, bytes, m)
      BY <2>2, Zenon
    <2> HIDE DEF m
    <2>4. m # 0
      <3>1. ASSUME m = 0 PROVE FALSE
        <4>1. Runs([i \in 0 .. 0 |-> Decode("decoding", <<>>, 0)], bytes, 0)
          BY DEF Runs
        <4>2. QED
          BY <2>3, <3>1, <4>1, Zenon
      <3>2. QED
        BY <3>1
    <2>5. m - 1 \in Nat /\ ~(m <= m - 1)
      BY <2>3, <2>4
    <2>6. PICK g : Runs(g, bytes, m - 1)
      BY <2>2, <2>5, Zenon
    <2> DEFINE f == [i \in 0 .. m |-> IF i < m THEN g[i] ELSE decode_chunk(bytes, g[i - 1])]
    <2> HIDE DEF first
    <2>7. ASSUME NEW i \in 0 .. m
          PROVE  f[i] = IF i = 0 THEN first ELSE decode_chunk(bytes, f[i - 1])
      <3>1. CASE i < m
        <4>1. i \in 0 .. m - 1 /\ f[i] = g[i]
          BY <2>3, <3>1
        <4>2. f[i] = IF i = 0 THEN first ELSE decode_chunk(bytes, g[i - 1])
          <5>1. g[i] = IF i = 0 THEN first ELSE decode_chunk(bytes, g[i - 1])
            BY <2>6, <4>1, Zenon DEF Runs, first
          <5>2. QED
            BY <4>1, <5>1, Zenon
        <4>3. i # 0 => f[i - 1] = g[i - 1]
          BY <2>3, <3>1
        <4> HIDE DEF f
        <4>4. QED
          BY <4>2, <4>3, Zenon
      <3>2. CASE ~(i < m)
        <4>1. i = m /\ i # 0
          BY <2>3, <2>4, <3>2
        <4>2. f[i] = decode_chunk(bytes, g[i - 1])
          BY <3>2, Zenon
        <4>3. f[i - 1] = g[i - 1]
          BY <2>3, <4>1
        <4> HIDE DEF f
        <4>4. QED
          BY <4>1, <4>2, <4>3, Zenon
      <3>3. QED
        BY <3>1, <3>2
    <2>8. f = [i \in 0 .. m |-> f[i]]
      BY Zenon
    <2> HIDE DEF f
    <2>9. Runs(f, bytes, m)
      BY <2>7, <2>8, Zenon DEF Runs, first
    <2>10. QED
      BY <2>3, <2>9, Zenon
  <1>2. QED
    BY <1>1, Zenon

\* What a round makes of its chunk.
LEMMA ChunkCut ==
    ASSUME NEW bytes, NEW r, r.state = "decoding", line_ends(bytes, r.consumed) = {}
    PROVE  decode_chunk(bytes, r) = Decode("incomplete", <<>>, 0)
  BY Zenon DEF decode_chunk

\* The line of the chunk ends at e and says size.
Line(bytes, r, e, size) ==
    /\ r.state = "decoding" /\ line_ends(bytes, r.consumed) # {}
    /\ Min(line_ends(bytes, r.consumed)) = e
    /\ chunk_size(SubSeq(bytes, r.consumed + 1, e)) = size

LEMMA ChunkNoSize ==
    ASSUME NEW bytes, NEW r, NEW e, Line(bytes, r, e, NoSize)
    PROVE  decode_chunk(bytes, r) = Decode("malformed", <<>>, 0)
  BY Zenon DEF decode_chunk, Line

\* The empty lines among the line ends behind a cursor.
Blank(bytes, cursor) ==
    {i \in line_ends(bytes, cursor) : i = cursor \/ i - 2 \in line_ends(bytes, cursor)}

LEMMA ChunkLast ==
    ASSUME NEW bytes, NEW r, NEW e, Line(bytes, r, e, 0)
    PROVE  /\ Blank(bytes, e + 2) = {} => decode_chunk(bytes, r) = Decode("incomplete", <<>>, 0)
           /\ Blank(bytes, e + 2) # {} =>
                decode_chunk(bytes, r) = Decode("complete", r.body, Min(Blank(bytes, e + 2)) + 2)
  <1>1. 0 # NoSize
    BY DEF NoSize
  <1>2. QED
    BY <1>1, Zenon DEF decode_chunk, Line, Blank

LEMMA ChunkData ==
    ASSUME NEW bytes, NEW r, NEW e, NEW size, Line(bytes, r, e, size), size # NoSize, size # 0,
           NEW further, further = line_ends(bytes, e + 2)
    PROVE  LET next == e + 2 + size + 2
           IN  /\ Len(bytes) < next => decode_chunk(bytes, r) = Decode("incomplete", <<>>, 0)
               /\ ~(Len(bytes) < next) /\ e + 2 + size \notin further =>
                    decode_chunk(bytes, r) = Decode("malformed", <<>>, 0)
               /\ ~(Len(bytes) < next) /\ e + 2 + size \in further =>
                    decode_chunk(bytes, r) =
                      Decode("decoding", r.body \o SubSeq(bytes, e + 2 + 1, e + 2 + size), next)
  BY Zenon DEF decode_chunk, Line

LEMMA ChunkAfter ==
    ASSUME NEW bytes, NEW r, r.state # "decoding"
    PROVE  decode_chunk(bytes, r) = r
  BY Zenon DEF decode_chunk

\* The first line end behind a line without a CR.
LEMMA LineEnds ==
    ASSUME NEW bytes \in Seq(Bytes), NEW o \in Nat, NEW line \in Seq(Bytes),
           \A k \in 1 .. Len(line) : line[k] # "CR",
           \A k \in 1 .. Len(line) : o + k <= Len(bytes) => bytes[o + k] = line[k],
           o + Len(line) + 2 <= Len(bytes) =>
             bytes[o + Len(line) + 1] = "CR" /\ bytes[o + Len(line) + 2] = "LF"
    PROVE  /\ Len(bytes) < o + Len(line) + 2 => line_ends(bytes, o) = {}
           /\ o + Len(line) + 2 <= Len(bytes) => /\ line_ends(bytes, o) # {}
                                                 /\ Min(line_ends(bytes, o)) = o + Len(line)
                                                 /\ SubSeq(bytes, o + 1, o + Len(line)) = line
  <1> DEFINE T == line_ends(bytes, o)
             n == Len(bytes)
             l == Len(line)
  <1>1. n \in Nat /\ l \in Nat
    OBVIOUS
  <1>2. T = {i \in o .. n - 2 : bytes[i + 1] = "CR" /\ bytes[i + 2] = "LF"}
    BY Zenon DEF line_ends
  <1> HIDE DEF T, n, l
  <1>3. ASSUME NEW i \in T PROVE i \in Nat /\ o + l <= i /\ i + 2 <= n
    <2>1. i \in o .. n - 2 /\ bytes[i + 1] = "CR"
      BY <1>2, Zenon
    <2>2. ASSUME i < o + l PROVE FALSE
      <3>1. (i + 1) - o \in 1 .. l /\ o + ((i + 1) - o) = i + 1 /\ o + ((i + 1) - o) <= n
        BY <1>1, <2>1, <2>2
      <3>2. bytes[i + 1] = line[(i + 1) - o] /\ line[(i + 1) - o] # "CR"
        BY <3>1, Zenon DEF l, n
      <3>3. QED
        BY <2>1, <3>2, Zenon
    <2>3. QED
      BY <1>1, <2>1, <2>2
  <1>4. ASSUME n < o + l + 2 PROVE T = {}
    BY <1>1, <1>3, <1>4
  <1>5. ASSUME o + l + 2 <= n
        PROVE  T # {} /\ Min(T) = o + l /\ SubSeq(bytes, o + 1, o + l) = line
    <2>1. o + l \in o .. n - 2 /\ (o + l) + 1 = o + l + 1 /\ (o + l) + 2 = o + l + 2
      BY <1>1, <1>5
    <2>2. bytes[(o + l) + 1] = "CR" /\ bytes[(o + l) + 2] = "LF"
      BY <1>5, <2>1, Zenon DEF l, n
    <2>3. o + l \in T
      BY <1>2, <2>1, <2>2, Zenon
    <2>4. T \in SUBSET Nat
      BY <1>3, Zenon
    <2>5. Min(T) \in T /\ Min(T) <= o + l
      BY <2>3, <2>4, Least, Zenon
    <2>6. Min(T) = o + l
      <3> DEFINE e == Min(T)
      <3>1. e \in Nat /\ o + l <= e /\ e <= o + l
        BY <1>3, <2>5, Zenon
      <3> HIDE DEF e
      <3>2. e = o + l
        BY <1>1, <3>1
      <3>3. QED
        BY <3>2 DEF e
    <2> DEFINE s == SubSeq(bytes, o + 1, o + l)
    <2>7. s \in Seq(Bytes) /\ Len(s) = l /\ \A k \in 1 .. l : s[k] = bytes[o + k]
      <3>1. o + l \in Nat /\ o <= o + l /\ o + l <= Len(bytes) /\ (o + l) - o = l
        BY <1>1, <1>5 DEF n
      <3>2. /\ s \in Seq(Bytes) /\ Len(s) = (o + l) - o
            /\ \A k \in 1 .. (o + l) - o : s[k] = bytes[o + k]
        BY <3>1, SubSeqAt
      <3>3. QED
        BY <3>1, <3>2, Zenon
    <2> HIDE DEF s
    <2>8. \A k \in 1 .. l : s[k] = line[k]
      <3>1. \A k \in 1 .. l : o + k <= n
        BY <1>1, <1>5
      <3>2. QED
        BY <2>7, <3>1, Zenon DEF l, n
    <2>9. s = line
      BY <2>7, <2>8, SeqEqual, Zenon DEF l
    <2>10. QED
      BY <2>3, <2>6, <2>9, Zenon DEF s
  <1>6. QED
    BY <1>4, <1>5, Zenon DEF T, n, l

LEMMA PrefixAt ==
    ASSUME NEW S, NEW s \in Seq(S), NEW m \in Nat, m <= Len(s)
    PROVE  /\ SubSeq(s, 1, m) \in Seq(S) /\ Len(SubSeq(s, 1, m)) = m
           /\ \A k \in 1 .. m : SubSeq(s, 1, m)[k] = s[k]
  <1>1. \A i \in 1 .. m : s[i] \in S
    OBVIOUS
  <1>2. SubSeq(s, 1, m) \in Seq(S)
    BY <1>1, SubSeqProperties
  <1>3. QED
    BY <1>2

(***************************************************************************)
(* What the loop has made of the first m bytes: it has come to the chunk   *)
(* i, all before it are proper and their data is in the result; or it is   *)
(* done.                                                                   *)
(***************************************************************************)
Going(m, chs, r, i) ==
    /\ r = Decode("decoding", Got(chs, i), Off(chs, i))
    /\ Off(chs, i) <= m /\ i - 1 <= Off(chs, i)
    /\ \A j \in 1 .. i - 1 : chs[j].form = "proper"

Done(m, chs, tr, r) ==
    \/ r = Decode("incomplete", <<>>, 0)
    \/ r = Decode("malformed", <<>>, 0) /\ \E j \in 1 .. Len(chs) : chs[j].form # "proper"
    \/ /\ r = Decode("complete", Got(chs, Len(chs) + 1), Len(Whole(chs, tr)) - 1)
       /\ Len(Whole(chs, tr)) - 1 <= m /\ \A j \in 1 .. Len(chs) : chs[j].form = "proper"

LEMMA DecodeFields ==
    ASSUME NEW a, NEW d, NEW c
    PROVE  Decode(a, d, c).state = a /\ Decode(a, d, c).body = d /\ Decode(a, d, c).consumed = c
  BY DEF Decode

LEMMA FormFacts ==
    ASSUME NEW c \in Chunks
    PROVE  /\ c.form = "no_end" => c.form # "proper" /\ c.form # "no_size"
           /\ c.form = "no_size" => c.form # "proper"
           /\ c.form # "no_end" /\ c.form # "no_size" => c.form = "proper"
  BY ChunkFacts DEF Forms

\* A chunk in the middle.
LEMMA ChunkDecoded ==
    ASSUME NEW chs \in Seq(Chunks), NEW tr \in Trailers, NEW m \in Nat, m <= Len(Whole(chs, tr)),
           NEW i \in 1 .. Len(chs), NEW r, Going(m, chs, r, i),
           NEW bytes, bytes = SubSeq(Whole(chs, tr), 1, m)
    PROVE  Done(m, chs, tr, decode_chunk(bytes, r)) \/ Going(m, chs, decode_chunk(bytes, r), i + 1)
  <1> DEFINE b == Whole(chs, tr)
             o == Off(chs, i)
             c == chs[i]
             l == Len(c.line)
             d == Len(c.data)
             g == Got(chs, i)
             q == decode_chunk(bytes, r)
             ends == line_ends(bytes, o)
             further == line_ends(bytes, o + l + 2)
  <1>1. /\ b \in Seq(Bytes) /\ o \in Nat /\ ChunkAt(b, o, c) /\ Off(chs, i + 1) = o + Width(c)
        /\ c \in Chunks /\ i \in Nat
    <2>1. i \in 1 .. Len(chs) + 1 /\ c \in Chunks /\ i \in Nat
      OBVIOUS
    <2>2. QED
      BY <2>1, Layout, Zenon
  <1>2. /\ l \in Nat /\ d \in Nat /\ c.line \in Seq(Bytes) /\ c.data \in Seq(Bytes)
        /\ (\A k \in 1 .. l : c.line[k] # "CR")
        /\ c.form = "no_size" => chunk_size(c.line) = NoSize
        /\ c.form # "no_size" => chunk_size(c.line) = d /\ d > 0
    BY <1>1, ChunkFacts, Zenon
  <1>3. bytes \in Seq(Bytes) /\ Len(bytes) = m /\ \A k \in 1 .. m : bytes[k] = b[k]
    BY <1>1, PrefixAt
  <1>4. r.state = "decoding" /\ r.body = g /\ r.consumed = o /\ o <= m /\ i - 1 <= o
    <2>1. r = Decode("decoding", g, o) /\ o <= m /\ i - 1 <= o
      BY Zenon DEF Going
    <2> HIDE DEF g, o
    <2>2. QED
      BY <2>1 DEF Decode
  <1>5. \A j \in 1 .. i - 1 : chs[j].form = "proper"
    BY Zenon DEF Going
  <1>6. /\ \A k \in 1 .. l : b[o + k] = c.line[k]
        /\ b[o + l + 1] = "CR" /\ b[o + l + 2] = "LF"
        /\ \A k \in 1 .. d : b[o + l + 2 + k] = c.data[k]
        /\ c.form = "no_end" => b[o + l + d + 3] = "x"
        /\ c.form # "no_end" => b[o + l + d + 3] = "CR" /\ b[o + l + d + 4] = "LF"
    BY <1>1, Zenon DEF ChunkAt
  <1>7. g \in Seq(Bytes) /\ Got(chs, i + 1) = g \o c.data
    <2>1. i \in 1 .. Len(chs) + 1
      OBVIOUS
    <2>2. QED
      BY <2>1, GotFacts, Zenon
  <1> HIDE DEF b, o, l, d, g, q, ends, further
  <1>8. /\ m < o + l + 2 => ends = {}
        /\ o + l + 2 <= m => ends # {} /\ Min(ends) = o + l /\ SubSeq(bytes, o + 1, o + l) = c.line
    <2>1. ASSUME NEW k \in 1 .. l, o + k <= Len(bytes) PROVE bytes[o + k] = c.line[k]
      <3>1. o + k \in 1 .. m
        BY <1>1, <1>2, <1>3, <2>1
      <3>2. QED
        BY <1>3, <1>6, <3>1, Zenon
    <2>2. ASSUME o + l + 2 <= Len(bytes) PROVE bytes[o + l + 1] = "CR" /\ bytes[o + l + 2] = "LF"
      <3>1. o + l + 1 \in 1 .. m /\ o + l + 2 \in 1 .. m
        BY <1>1, <1>2, <1>3, <2>2
      <3>2. QED
        BY <1>3, <1>6, <3>1, Zenon
    <2>3. /\ Len(bytes) < o + l + 2 => ends = {}
          /\ o + l + 2 <= Len(bytes) =>
               ends # {} /\ Min(ends) = o + l /\ SubSeq(bytes, o + 1, o + l) = c.line
      <3>1. bytes \in Seq(Bytes) /\ o \in Nat /\ c.line \in Seq(Bytes)
        BY <1>1, <1>2, <1>3, Zenon
      <3>2. /\ \A k \in 1 .. l : c.line[k] # "CR"
            /\ \A k \in 1 .. l : o + k <= Len(bytes) => bytes[o + k] = c.line[k]
            /\ o + l + 2 <= Len(bytes) => bytes[o + l + 1] = "CR" /\ bytes[o + l + 2] = "LF"
        BY <1>2, <2>1, <2>2, Zenon
      <3>3. QED
        BY <3>1, <3>2, LineEnds, Zenon DEF ends, l
    <2>4. QED
      BY <1>3, <2>3, Zenon
  <1>9. CASE m < o + l + 2
    BY <1>4, <1>8, <1>9, ChunkCut, Zenon DEF ends, q, Done
  <1>10. CASE o + l + 2 <= m /\ c.form = "no_size"
    <2>1. q = Decode("malformed", <<>>, 0)
      <3>1. Line(bytes, r, o + l, NoSize)
        BY <1>2, <1>4, <1>8, <1>10, Zenon DEF Line, ends
      <3>2. QED
        BY <3>1, ChunkNoSize, Zenon DEF q
    <2>2. c.form # "proper"
      BY <1>1, <1>10, FormFacts, Zenon
    <2>3. QED
      BY <2>1, <2>2, Zenon DEF Done, q
  <1>11. CASE o + l + 2 <= m /\ c.form # "no_size"
    <2>1. d \in Nat /\ d > 0 /\ d # 0 /\ d # NoSize
      BY <1>2, <1>11 DEF NoSize
    <2>2. /\ ends # {} /\ Min(ends) = o + l
          /\ chunk_size(SubSeq(bytes, o + 1, o + l)) = d
      BY <1>2, <1>8, <1>11, Zenon
    <2>3. /\ Len(bytes) < o + l + 2 + d + 2 => q = Decode("incomplete", <<>>, 0)
          /\ ~(Len(bytes) < o + l + 2 + d + 2) /\ o + l + 2 + d \notin further =>
               q = Decode("malformed", <<>>, 0)
          /\ ~(Len(bytes) < o + l + 2 + d + 2) /\ o + l + 2 + d \in further =>
               q = Decode("decoding", g \o SubSeq(bytes, o + l + 2 + 1, o + l + 2 + d), o + l + 2 + d + 2)
      <3>1. Line(bytes, r, o + l, d)
        BY <1>4, <2>2, Zenon DEF Line, ends
      <3>2. QED
        BY <1>4, <2>1, <3>1, ChunkData, Zenon DEF q, further
    <2>4. CASE m < o + l + 2 + d + 2
      BY <1>3, <2>3, <2>4, Zenon DEF Done, q
    <2>5. CASE ~(m < o + l + 2 + d + 2)
      <3>1. /\ o + l + d + 3 \in 1 .. m /\ o + l + d + 4 \in 1 .. m
            /\ (o + l + 2 + d) + 1 = o + l + d + 3 /\ (o + l + 2 + d) + 2 = o + l + d + 4
            /\ o + l + 2 + d \in o + l + 2 .. m - 2
        BY <1>1, <1>2, <2>5
      <3>2. bytes[(o + l + 2 + d) + 1] = b[o + l + d + 3] /\ bytes[(o + l + 2 + d) + 2] = b[o + l + d + 4]
        BY <1>3, <3>1, Zenon
      <3>3. further = {p \in o + l + 2 .. m - 2 : bytes[p + 1] = "CR" /\ bytes[p + 2] = "LF"}
        BY <1>3, Zenon DEF line_ends, further
      <3>4. CASE c.form = "no_end"
        <4>1. o + l + 2 + d \notin further
          BY <1>6, <3>2, <3>3, <3>4, Zenon
        <4>2. c.form # "proper"
          BY <1>1, <3>4, FormFacts, Zenon
        <4>3. QED
          BY <1>3, <2>3, <2>5, <4>1, <4>2, Zenon DEF Done, q
      <3>5. CASE c.form # "no_end"
        <4>1. o + l + 2 + d \in further
          BY <1>6, <3>1, <3>2, <3>3, <3>5, Zenon
        <4> DEFINE s == SubSeq(bytes, o + l + 2 + 1, o + l + 2 + d)
        <4>2. q = Decode("decoding", g \o s, o + l + 2 + d + 2)
          BY <1>3, <2>3, <2>5, <4>1, Zenon
        <4>3. s = c.data
          <5> DEFINE at == o + l + 2
                     to == o + l + 2 + d
          <5>1. at \in Nat /\ to \in Nat /\ at <= to /\ to <= Len(bytes) /\ to - at = d
            BY <1>1, <1>2, <1>3, <2>5, SMTT(60)
          <5> HIDE DEF at, to, s
          <5>2. s = SubSeq(bytes, at + 1, to)
            BY Zenon DEF s, at, to
          <5>3. s \in Seq(Bytes) /\ Len(s) = d /\ \A k \in 1 .. d : s[k] = bytes[o + l + 2 + k]
            <6>1. /\ SubSeq(bytes, at + 1, to) \in Seq(Bytes) /\ Len(SubSeq(bytes, at + 1, to)) = to - at
                  /\ \A k \in 1 .. to - at : SubSeq(bytes, at + 1, to)[k] = bytes[at + k]
              BY <1>3, <5>1, SubSeqAt
            <6>2. QED
              BY <5>1, <5>2, <6>1, Zenon DEF at
          <5>4. \A k \in 1 .. d : o + l + 2 + k \in 1 .. m
            BY <1>1, <1>2, <2>5
          <5>5. \A k \in 1 .. d : s[k] = c.data[k]
            BY <1>3, <1>6, <5>3, <5>4, Zenon
          <5>6. QED
            BY <1>2, <5>3, <5>5, SeqEqual, Zenon DEF d
        <4>4. c.form = "proper"
          BY <1>1, <1>11, <3>5, FormFacts, Zenon
        <4>5. Off(chs, i + 1) = o + l + 2 + d + 2
          <5>1. Width(c) = l + d + 4
            BY <3>5, Zenon DEF Width, l, d
          <5>2. QED
            BY <1>1, <1>2, <5>1
        <4>6. Off(chs, i + 1) <= m /\ (i + 1) - 1 <= Off(chs, i + 1)
          BY <1>1, <1>2, <1>4, <2>5, <4>5
        <4>7. \A j \in 1 .. (i + 1) - 1 : chs[j].form = "proper"
          <5>1. \A j \in 1 .. (i + 1) - 1 : j = i \/ j \in 1 .. i - 1
            BY <1>1
          <5>2. QED
            BY <1>5, <4>4, <5>1, Zenon DEF c
        <4>8. Going(m, chs, q, i + 1)
          BY <1>7, <4>2, <4>3, <4>5, <4>6, <4>7, Zenon DEF Going
        <4>9. QED
          BY <4>8 DEF q
      <3>6. QED
        BY <3>4, <3>5
    <2>6. QED
      BY <2>4, <2>5
  <1>12. m < o + l + 2 \/ o + l + 2 <= m
    BY <1>1, <1>2
  <1>13. QED
    BY <1>9, <1>10, <1>11, <1>12, Zenon

LEMMA LastSize == chunk_size(<<"0">>) = 0
  <1> DEFINE z == <<"0">>
  <1>1. z \in Seq(Bytes) /\ Len(z) = 1 /\ z[1] = "0" /\ DOMAIN z = 1 .. 1 /\ z # <<>>
    <2>1. "0" \in Bytes
      BY ByteFacts
    <2>2. QED
      BY <2>1
  <1>2. {i \in DOMAIN z : z[i] = ";"} = {}
    <2> HIDE DEF z
    <2>1. \A i \in DOMAIN z : i = 1
      BY <1>1
    <2>2. "0" # ";"
      OBVIOUS
    <2>3. QED
      BY <1>1, <2>1, <2>2, Zenon
  <1>3. trim(z) = z
    <2> DEFINE kept == {i \in DOMAIN z : z[i] \notin {"CR", "LF", "SP"}}
    <2>1. kept = {1}
      BY <1>1
    <2>2. Min({1}) = 1 /\ Max({1}) = 1
      BY DEF Min, Max
    <2>3. SubSeq(z, 1, 1) = z
      BY <1>1, SubSeqFull, Zenon
    <2>4. trim(z) = IF kept = {} THEN <<>> ELSE SubSeq(z, Min(kept), Max(kept))
      BY Zenon DEF trim
    <2> HIDE DEF kept, z
    <2>5. kept # {}
      BY <2>1
    <2>6. QED
      BY <2>1, <2>2, <2>3, <2>4, <2>5, Zenon
  <1>4. ToSet(z) \subseteq DOMAIN Digit
    <2>1. ToSet(z) = {"0"}
      BY DEF ToSet
    <2>2. QED
      BY <2>1, ByteFacts, Zenon
  <1> HIDE DEF z
  <1> DEFINE Parsed(f) == f = [i \in 0 .. Len(z) |-> IF i = 0 THEN 0 ELSE 16 * f[i - 1] + Digit[z[i]]]
             f0 == CHOOSE f : Parsed(f)
  <1>5. Parsed(f0)
    <2>1. Digit["0"] = 0 /\ 0 .. Len(z) = {0, 1}
      <3>1. Digit["0"] = 0 /\ Len(z) = 1
        BY <1>1, ByteFacts, Zenon
      <3>2. QED
        BY <3>1
    <2>2. Parsed([i \in 0 .. Len(z) |-> 0])
      BY <1>1, <2>1
    <2> HIDE DEF Parsed
    <2>3. QED
      BY <2>2, Zenon
  <1>6. f0[1] = 0
    <2>1. Digit["0"] = 0 /\ 0 \in 0 .. Len(z) /\ 1 \in 0 .. Len(z) /\ 1 - 1 = 0 /\ 1 # 0
      <3>1. Digit["0"] = 0 /\ Len(z) = 1
        BY <1>1, ByteFacts, Zenon
      <3>2. QED
        BY <3>1
    <2>2. f0 = [i \in 0 .. Len(z) |-> IF i = 0 THEN 0 ELSE 16 * f0[i - 1] + Digit[z[i]]]
      BY <1>5
    <2> HIDE DEF f0
    <2>3. f0[0] = 0 /\ f0[1] = 16 * f0[0] + Digit["0"]
      BY <1>1, <2>1, <2>2
    <2>4. QED
      BY <2>1, <2>3
  <1>7. parse_hex_size(z) = f0[Len(z)]
    BY <1>1, <1>4, Zenon DEF parse_hex_size
  <1>8. chunk_size(z) = parse_hex_size(trim(z))
    BY <1>2, Zenon DEF chunk_size
  <1> HIDE DEF f0
  <1>9. QED
    BY <1>1, <1>3, <1>6, <1>7, <1>8, Zenon DEF z

LEMMA TrailerFacts ==
    ASSUME NEW tr \in Trailers
    PROVE  /\ tr \in Seq(Bytes) /\ Len(tr) \in Nat
           /\ Len(tr) # 0 => Len(tr) > 1 /\ tr[Len(tr) - 1] = "CR"
           /\ \A k \in 1 .. Len(tr) : tr[k] = "CR" =>
                k > 1 /\ k < Len(tr) /\ tr[k + 1] = "LF" /\ (k > 2 => tr[k - 2] # "CR")
  <1>1. tr \in Seq(Bytes)
    BY TrailersAssumption
  <1>2. DOMAIN tr = 1 .. Len(tr) /\ Len(tr) \in Nat /\ (Len(tr) # 0 => tr # <<>>)
    BY <1>1
  <1>3. QED
    BY <1>1, <1>2, TrailersAssumption, Zenon

\* The last chunk and the trailer.
LEMMA LastDecoded ==
    ASSUME NEW chs \in Seq(Chunks), NEW tr \in Trailers, NEW m \in Nat, m <= Len(Whole(chs, tr)),
           NEW r, Going(m, chs, r, Len(chs) + 1),
           NEW bytes, bytes = SubSeq(Whole(chs, tr), 1, m)
    PROVE  Done(m, chs, tr, decode_chunk(bytes, r))
  <1> DEFINE b == Whole(chs, tr)
             n == Len(chs)
             o == Off(chs, n + 1)
             g == Got(chs, n + 1)
             t == Len(tr)
             q == decode_chunk(bytes, r)
             ends == line_ends(bytes, o)
             further == line_ends(bytes, o + 1 + 2)
             blank == {i \in further : i = o + 1 + 2 \/ i - 2 \in further}
             z == <<"0">>
  <1>1. b \in Seq(Bytes) /\ o \in Nat /\ EndAt(b, o, tr) /\ n \in Nat
    <2>1. n + 1 \in 1 .. n + 1 /\ n \in Nat
      OBVIOUS
    <2>2. QED
      BY <2>1, Layout, Zenon
  <1>2. /\ t \in Nat
        /\ \A k \in 1 .. t : tr[k] = "CR" => k > 1 /\ (k > 2 => tr[k - 2] # "CR")
    BY TrailerFacts, Zenon
  <1>3. bytes \in Seq(Bytes) /\ Len(bytes) = m /\ \A k \in 1 .. m : bytes[k] = b[k]
    BY <1>1, PrefixAt
  <1>4. r.state = "decoding" /\ r.body = g /\ r.consumed = o
    <2>1. r = Decode("decoding", g, o)
      BY Zenon DEF Going
    <2> HIDE DEF g, o
    <2>2. QED
      BY <2>1 DEF Decode
  <1>5. \A j \in 1 .. n : chs[j].form = "proper"
    <2>1. (n + 1) - 1 = n
      BY <1>1
    <2>2. QED
      BY <2>1, Zenon DEF Going
  <1>6. /\ Len(b) = o + t + 6 /\ b[o + 1] = "0" /\ b[o + 2] = "CR" /\ b[o + 3] = "LF"
        /\ \A k \in 1 .. t : b[o + 3 + k] = tr[k]
        /\ b[o + t + 4] = "CR" /\ b[o + t + 5] = "LF"
    BY <1>1, Zenon DEF EndAt
  <1>7. z \in Seq(Bytes) /\ Len(z) = 1 /\ z[1] = "0"
    <2>1. "0" \in Bytes
      BY ByteFacts
    <2>2. QED
      BY <2>1
  <1>8. chunk_size(z) = 0
    BY LastSize
  <1> HIDE DEF b, n, o, g, t, q, ends, z
  <1>9. /\ Len(bytes) < o + 1 + 2 => ends = {}
        /\ o + 1 + 2 <= Len(bytes) => ends # {} /\ Min(ends) = o + 1 /\ SubSeq(bytes, o + 1, o + 1) = z
    <2>1. \A k \in 1 .. Len(z) : z[k] # "CR"
      BY <1>7
    <2>2. \A k \in 1 .. Len(z) : o + k <= Len(bytes) => bytes[o + k] = z[k]
      <3>1. ASSUME o + 1 <= m PROVE bytes[o + 1] = z[1]
        <4>1. o + 1 \in 1 .. m
          BY <1>1, <3>1
        <4>2. QED
          BY <1>3, <1>6, <1>7, <4>1, Zenon
      <3>2. \A k \in 1 .. Len(z) : k = 1
        BY <1>7
      <3>3. QED
        BY <1>3, <3>1, <3>2, Zenon
    <2>3. ASSUME o + Len(z) + 2 <= Len(bytes)
          PROVE  bytes[o + Len(z) + 1] = "CR" /\ bytes[o + Len(z) + 2] = "LF"
      <3>1. o + 2 \in 1 .. m /\ o + 3 \in 1 .. m /\ o + Len(z) + 1 = o + 2 /\ o + Len(z) + 2 = o + 3
        BY <1>1, <1>3, <1>7, <2>3
      <3>2. QED
        BY <1>3, <1>6, <3>1, Zenon
    <2>4. /\ Len(bytes) < o + Len(z) + 2 => ends = {}
          /\ o + Len(z) + 2 <= Len(bytes) =>
               ends # {} /\ Min(ends) = o + Len(z) /\ SubSeq(bytes, o + 1, o + Len(z)) = z
      BY <1>1, <1>3, <1>7, <2>1, <2>2, <2>3, LineEnds, Zenon DEF ends
    <2>5. QED
      BY <1>7, <2>4, Zenon
  <1>10. CASE Len(bytes) < o + 1 + 2
    BY <1>4, <1>9, <1>10, ChunkCut, Zenon DEF ends, q, Done
  <1>11. CASE o + 1 + 2 <= Len(bytes)
    <2>1. Line(bytes, r, o + 1, 0)
      BY <1>4, <1>8, <1>9, <1>11, Zenon DEF Line, ends
    <2>2. /\ blank = {} => q = Decode("incomplete", <<>>, 0)
          /\ blank # {} => q = Decode("complete", g, Min(blank) + 2)
      <3>1. blank = Blank(bytes, o + 1 + 2)
        BY Zenon DEF Blank
      <3> HIDE DEF blank
      <3>2. QED
        BY <1>4, <2>1, <3>1, ChunkLast, Zenon DEF q
    <2>3. further = {p \in o + 1 + 2 .. m - 2 : bytes[p + 1] = "CR" /\ bytes[p + 2] = "LF"}
      BY <1>3, Zenon DEF line_ends
    <2> HIDE DEF further
    <2>4. ASSUME NEW p \in blank PROVE p = o + t + 3 /\ p + 2 <= m
      <3>1. p \in further /\ (p = o + 1 + 2 \/ p - 2 \in further)
        BY Zenon
      <3>2. p \in o + 1 + 2 .. m - 2 /\ bytes[p + 1] = "CR"
        BY <2>3, <3>1, Zenon
      <3>3. p - 2 \in further => p - 2 \in o + 1 + 2 .. m - 2 /\ bytes[(p - 2) + 1] = "CR"
        BY <2>3, Zenon
      <3>4. p \in Nat /\ p + 2 <= m /\ m <= o + t + 6
        BY <1>1, <1>6, <3>2 DEF b
      <3>5. bytes[p + 1] = b[p + 1]
        <4>1. p + 1 \in 1 .. m
          BY <3>4
        <4>2. QED
          BY <1>3, <4>1, Zenon
      <3>6. ~(p < o + t + 3)
        <4>1. SUFFICES ASSUME p < o + t + 3 PROVE FALSE
          OBVIOUS
        <4> DEFINE k == p - o - 2
        <4>2. k \in 1 .. t /\ o + 3 + k = p + 1 /\ (p = o + 1 + 2 <=> k = 1)
          BY <1>1, <1>2, <3>2, <3>4, <4>1
        <4>3. tr[k] = "CR"
          BY <1>6, <3>2, <3>5, <4>2, Zenon
        <4>4. k > 1 /\ (k > 2 => tr[k - 2] # "CR")
          BY <1>2, <4>2, <4>3, Zenon
        <4>5. p - 2 \in further
          BY <3>1, <4>2, <4>4
        <4>6. p - 2 \in o + 1 + 2 .. m - 2 /\ bytes[(p - 2) + 1] = "CR"
          BY <3>3, <4>5, Zenon
        <4>7. k > 2 /\ k - 2 \in 1 .. t /\ o + 3 + (k - 2) = (p - 2) + 1 /\ (p - 2) + 1 \in 1 .. m
          BY <1>1, <1>2, <3>4, <4>1, <4>2, <4>6
        <4>8. tr[k - 2] = "CR"
          BY <1>3, <1>6, <4>6, <4>7, Zenon
        <4>9. QED
          BY <4>4, <4>7, <4>8, Zenon
      <3>7. p # o + t + 4
        <4>1. o + t + 4 + 1 = o + t + 5
          BY <1>1, <1>2
        <4>2. "LF" # "CR"
          OBVIOUS
        <4>3. QED
          BY <1>6, <3>2, <3>5, <4>1, <4>2, Zenon
      <3>8. QED
        BY <1>1, <1>2, <3>4, <3>6, <3>7
    <2>5. CASE blank = {}
      BY <2>2, <2>5, Zenon DEF Done, q
    <2>6. CASE blank # {}
      <3>1. blank = {o + t + 3} /\ o + t + 3 \in Nat /\ o + t + 3 + 2 <= m
        <4> HIDE DEF blank
        <4>1. QED
          BY <1>1, <1>2, <2>4, <2>6
      <3> HIDE DEF blank
      <3>2. Min(blank) = o + t + 3
        <4>1. Min(blank) \in blank
          BY <2>6, <3>1, Least
        <4>2. QED
          BY <3>1, <4>1, Zenon
      <3>3. (o + t + 3) + 2 = Len(b) - 1 /\ Len(b) - 1 <= m
        BY <1>1, <1>2, <1>6, <3>1
      <3>4. q = Decode("complete", g, Len(b) - 1)
        BY <2>2, <2>6, <3>2, <3>3, Zenon
      <3>5. QED
        BY <1>5, <3>3, <3>4, Zenon DEF Done, q, g, b, n
    <2>7. QED
      BY <2>5, <2>6
  <1>12. QED
    BY <1>1, <1>3, <1>10, <1>11

\* decode_chunked_body, for every beginning of every body.
LEMMA BodyDecoded ==
    ASSUME NEW chs \in Seq(Chunks), NEW tr \in Trailers, NEW m \in Nat, m <= Len(Whole(chs, tr))
    PROVE  Done(m, chs, tr, decode_chunked_body(SubSeq(Whole(chs, tr), 1, m)))
  <1> DEFINE bytes == SubSeq(Whole(chs, tr), 1, m)
             n == Len(chs)
             f == CHOOSE g : Runs(g, bytes, Len(bytes) + 1)
  <1>1. n \in Nat /\ Len(bytes) = m
    <2>1. Whole(chs, tr) \in Seq(Bytes)
      BY Layout, Zenon
    <2>2. QED
      BY <2>1, PrefixAt
  <1>2. Runs(f, bytes, Len(bytes) + 1) /\ decode_chunked_body(bytes) = f[Len(bytes) + 1]
    <2>1. Len(bytes) + 1 \in Nat
      BY <1>1
    <2> HIDE DEF bytes
    <2>2. Runs(f, bytes, Len(bytes) + 1)
      BY <2>1, RunsExist, Zenon
    <2>3. QED
      BY <2>2, Zenon DEF decode_chunked_body, Runs
  <1> HIDE DEF f
  <1>3. \A k \in 0 .. m + 1 : f[k] = IF k = 0 THEN Decode("decoding", <<>>, 0) ELSE decode_chunk(bytes, f[k - 1])
    BY <1>1, <1>2, Zenon DEF Runs
  <1> DEFINE Ok(k) == Done(m, chs, tr, f[k]) \/ (k <= n /\ Going(m, chs, f[k], k + 1))
  <1>4. Ok(0)
    <2>1. f[0] = Decode("decoding", <<>>, 0)
      <3>1. 0 \in 0 .. m + 1
        OBVIOUS
      <3>2. QED
        BY <1>3, <3>1, Zenon
    <2>2. Off(chs, 1) = 0 /\ Got(chs, 1) = <<>>
      BY Layout, GotFacts, Zenon
    <2>3. 0 + 1 = 1 /\ 1 - 1 <= 0 /\ 0 <= m /\ 0 <= n /\ \A j \in 1 .. 1 - 1 : FALSE
      BY <1>1
    <2>4. QED
      BY <2>1, <2>2, <2>3, Zenon DEF Going
  <1>5. ASSUME NEW k \in 0 .. m, Ok(k) PROVE Ok(k + 1)
    <2>1. f[k + 1] = decode_chunk(bytes, f[k])
      <3>1. k + 1 \in 0 .. m + 1 /\ k + 1 # 0 /\ (k + 1) - 1 = k
        OBVIOUS
      <3>2. QED
        BY <1>3, <3>1, Zenon
    <2>2. CASE Done(m, chs, tr, f[k])
      <3>1. f[k].state # "decoding"
        BY <2>2 DEF Done, Decode
      <3>2. QED
        BY <2>1, <2>2, <3>1, ChunkAfter, Zenon
    <2>3. CASE k <= n /\ Going(m, chs, f[k], k + 1)
      <3>1. CASE k = n
        <4>1. Done(m, chs, tr, decode_chunk(bytes, f[k]))
          BY <2>3, <3>1, LastDecoded, Zenon
        <4>2. QED
          BY <2>1, <4>1, Zenon
      <3>2. CASE k # n
        <4>1. k + 1 \in 1 .. n /\ k + 1 <= n
          BY <1>1, <2>3, <3>2
        <4>2. Done(m, chs, tr, decode_chunk(bytes, f[k])) \/ Going(m, chs, decode_chunk(bytes, f[k]), (k + 1) + 1)
          BY <2>3, <4>1, ChunkDecoded, Zenon
        <4>3. QED
          BY <2>1, <4>1, <4>2, Zenon
      <3>3. QED
        BY <3>1, <3>2
    <2>4. QED
      BY <1>5, <2>2, <2>3, Zenon
  <1>6. Ok(m + 1)
    <2> DEFINE Bad == {k \in 0 .. m + 1 : ~Ok(k)}
    <2>1. Bad = {}
      <3>1. SUFFICES ASSUME Bad # {} PROVE FALSE
        BY Zenon
      <3> HIDE DEF Ok
      <3> DEFINE x == Min(Bad)
      <3>2. x \in Bad /\ \A y \in Bad : x <= y
        <4>1. Bad \in SUBSET Nat
          OBVIOUS
        <4> HIDE DEF Bad
        <4>2. QED
          BY <3>1, <4>1, Least
      <3>3. x \in 0 .. m + 1 /\ ~Ok(x)
        BY <3>2, Zenon
      <3> HIDE DEF x
      <3>4. x # 0
        BY <1>4, <3>3, Zenon
      <3>5. x - 1 \in 0 .. m /\ x - 1 \in 0 .. m + 1 /\ ~(x <= x - 1) /\ (x - 1) + 1 = x
        BY <3>3, <3>4
      <3>6. Ok(x - 1)
        BY <3>2, <3>5, Zenon
      <3>7. QED
        BY <1>5, <3>3, <3>5, <3>6, Zenon
    <2>2. m + 1 \in 0 .. m + 1
      OBVIOUS
    <2> HIDE DEF Ok
    <2>3. QED
      BY <2>1, <2>2, Zenon
  <1>7. ~(m + 1 <= n /\ Going(m, chs, f[m + 1], (m + 1) + 1))
    <2> SUFFICES ASSUME m + 1 <= n, Going(m, chs, f[m + 1], (m + 1) + 1) PROVE FALSE
      OBVIOUS
    <2> DEFINE o == Off(chs, (m + 1) + 1)
    <2>1. o <= m /\ ((m + 1) + 1) - 1 <= o
      BY Zenon DEF Going
    <2>2. o \in Nat
      <3>1. (m + 1) + 1 \in 1 .. Len(chs) + 1
        BY <1>1
      <3>2. QED
        BY <3>1, Layout, Zenon
    <2> HIDE DEF o
    <2>3. QED
      BY <2>1, <2>2
  <1>8. QED
    BY <1>1, <1>2, <1>6, <1>7, Zenon

----------------------------------------------------------------------------
(* RequestBodyAccumulator: what it has been given is in memory or in the   *)
(* file, never in both.                                                    *)

AccOK(acc) ==
    /\ acc \in [memory : Seq(Bytes), spooled : BOOLEAN, file : Seq(Bytes)]
    /\ IF acc.spooled THEN acc.memory = <<>> ELSE acc.file = <<>>

LEMMA NewAccumulatorOK == AccOK(NewAccumulator) /\ finish(NewAccumulator) = <<>>
  <1>1. <<>> \in Seq(Bytes)
    OBVIOUS
  <1>2. QED
    BY <1>1 DEF AccOK, NewAccumulator, finish

LEMMA Accumulated ==
    ASSUME NEW acc, AccOK(acc)
    PROVE  finish(acc) \in Seq(Bytes) /\ size_of(acc) = Len(finish(acc)) /\ Len(finish(acc)) \in Nat
  <1>1. acc.memory \in Seq(Bytes) /\ acc.file \in Seq(Bytes)
    BY DEF AccOK
  <1> DEFINE me == acc.memory
             fi == acc.file
  <1>2. CASE acc.spooled
    <2>1. me = <<>> /\ finish(acc) = fi
      BY <1>2, Zenon DEF AccOK, finish
    <2>2. size_of(acc) = Len(me) + Len(fi)
      BY Zenon DEF size_of
    <2> HIDE DEF me, fi
    <2>3. QED
      BY <1>1, <2>1, <2>2 DEF fi, me
  <1>3. CASE ~acc.spooled
    <2>1. fi = <<>> /\ finish(acc) = me
      BY <1>3, Zenon DEF AccOK, finish
    <2>2. size_of(acc) = Len(me) + Len(fi)
      BY Zenon DEF size_of
    <2> HIDE DEF me, fi
    <2>3. QED
      BY <1>1, <2>1, <2>2 DEF fi, me
  <1>4. QED
    BY <1>2, <1>3, Zenon

LEMMA Appended ==
    ASSUME NEW acc, AccOK(acc), NEW data \in Seq(Bytes)
    PROVE  AccOK(append(acc, data)) /\ finish(append(acc, data)) = finish(acc) \o data
  <1> DEFINE me == acc.memory
             fi == acc.file
  <1>1. /\ me \in Seq(Bytes) /\ fi \in Seq(Bytes) /\ acc.spooled \in BOOLEAN
        /\ acc = [memory |-> me, spooled |-> acc.spooled, file |-> fi]
    BY DEF AccOK
  <1>2. me \o data \in Seq(Bytes) /\ fi \o me \in Seq(Bytes) /\ (fi \o me) \o data \in Seq(Bytes)
    BY <1>1, ConcatProperties
  <1>3. CASE ~acc.spooled /\ Len(me) + Len(data) <= memory_limit_
    <2>1. append(acc, data) = [acc EXCEPT !.memory = me \o data]
      BY <1>3, Zenon DEF append
    <2>2. append(acc, data) = [memory |-> me \o data, spooled |-> FALSE, file |-> fi]
      <3>1. acc.spooled = FALSE
        BY <1>1, <1>3
      <3>2. ASSUME NEW m2
            PROVE  [acc EXCEPT !.memory = m2] = [memory |-> m2, spooled |-> acc.spooled, file |-> acc.file]
        BY DEF AccOK
      <3>3. QED
        BY <2>1, <3>1, <3>2, Zenon
    <2>3. fi = <<>> /\ finish(acc) = me
      BY <1>3, Zenon DEF AccOK, finish
    <2> HIDE DEF me, fi
    <2>4. QED
      BY <1>1, <1>2, <2>2, <2>3, SMTT(60) DEF AccOK, finish
  <1>4. CASE ~(~acc.spooled /\ Len(me) + Len(data) <= memory_limit_)
    <2>1. append(acc, data) = [memory |-> <<>>, spooled |-> TRUE, file |-> (fi \o me) \o data]
      BY <1>4, Zenon DEF append
    <2>2. finish(acc) = fi \o me
      <3>1. acc.spooled => me = <<>> /\ finish(acc) = fi
        BY Zenon DEF AccOK, finish
      <3>2. ~acc.spooled => fi = <<>> /\ finish(acc) = me
        BY Zenon DEF AccOK, finish
      <3>3. fi \o <<>> = fi /\ <<>> \o me = me
        BY <1>1, ConcatEmptySeq
      <3>4. QED
        BY <3>1, <3>2, <3>3, Zenon
    <2> DEFINE f2 == (fi \o me) \o data
    <2>3. f2 \in Seq(Bytes) /\ <<>> \in Seq(Bytes) /\ f2 = finish(acc) \o data
      BY <1>2, <2>2
    <2>4. append(acc, data) = [memory |-> <<>>, spooled |-> TRUE, file |-> f2]
      BY <2>1
    <2> HIDE DEF me, fi, f2
    <2>5. QED
      BY <2>3, <2>4 DEF AccOK, finish
  <1>5. QED
    BY <1>3, <1>4

----------------------------------------------------------------------------
(* process_chunked_http1_body_stream.  Where the decoder is after p bytes, *)
(* what it keeps of the line it reads and what the accumulator has got.    *)

StreamOK(s) ==
    s \in [phase : {"size_line", "data", "data_crlf", "trailer_line"}, line_buffer : Seq(Bytes),
           chunk_remaining : Nat, crlf_seen : {0, 1}]

\* A line of the bytes w begins behind the byte from; the first p bytes are read.
InLine(w, from, p, s) ==
    /\ from \in Nat /\ from <= p /\ s.line_buffer = SubSeq(w, from + 1, p)
    /\ \A k \in from + 1 .. p : w[k] # "LF"

InSize(chs, tr, s, acc, p, i) ==
    /\ s.phase = "size_line" /\ s.crlf_seen = 0 /\ finish(acc) = Got(chs, i)
    /\ InLine(Whole(chs, tr), Off(chs, i), p, s)

InData(chs, tr, s, acc, p, i) ==
    /\ i <= Len(chs) /\ chs[i].form # "no_size" /\ ~BareLf(SizeLine(chs[i]))
    /\ s.phase = "data" /\ s.line_buffer = <<>> /\ s.crlf_seen = 0
    /\ s.chunk_remaining \in 1 .. Len(chs[i].data)
    /\ p = Off(chs, i) + Len(chs[i].line) + 2 + (Len(chs[i].data) - s.chunk_remaining)
    /\ finish(acc) = Got(chs, i) \o SubSeq(chs[i].data, 1, Len(chs[i].data) - s.chunk_remaining)

InCrLf(chs, tr, s, acc, p, i) ==
    /\ i <= Len(chs) /\ chs[i].form # "no_size" /\ ~BareLf(SizeLine(chs[i]))
    /\ s.phase = "data_crlf" /\ s.line_buffer = <<>>
    /\ p = Off(chs, i) + Len(chs[i].line) + 2 + Len(chs[i].data) + s.crlf_seen
    /\ s.crlf_seen = 1 => chs[i].form = "proper"
    /\ finish(acc) = Got(chs, i + 1)

\* A chunk the decoder has taken.
Clean(c) == c.form = "proper" /\ ~BareLf(SizeLine(c))

\* The byte k is no bare LF.
NotBare(x, k) == x[k] = "LF" => k # 1 /\ x[k - 1] = "CR"

LEMMA NothingBare ==
    ASSUME NEW x, \A k \in DOMAIN x : NotBare(x, k)
    PROVE  ~BareLf(x)
  BY Zenon DEF BareLf, NotBare

\* A line of the trailer, or the empty line behind it, begins behind the byte from.
LineStart(chs, tr, from) ==
    LET first == Off(chs, Len(chs) + 1) + 3
    IN  /\ from \in first .. first + Len(tr)
        /\ from # first => /\ from >= first + 2
                           /\ Whole(chs, tr)[from - 1] = "CR" /\ Whole(chs, tr)[from] = "LF"
        /\ \A k \in 1 .. from - first : NotBare(tr, k)

InTrailer(chs, tr, s, acc, p, i) ==
    /\ i = Len(chs) + 1 /\ s.phase = "trailer_line" /\ finish(acc) = Got(chs, i)
    /\ \E from \in Nat : LineStart(chs, tr, from) /\ InLine(Whole(chs, tr), from, p, s)

At(chs, tr, s, acc, p, i) ==
    /\ i \in 1 .. Len(chs) + 1 /\ \A j \in 1 .. i - 1 : Clean(chs[j])
    /\ \/ InSize(chs, tr, s, acc, p, i) \/ InData(chs, tr, s, acc, p, i)
       \/ InCrLf(chs, tr, s, acc, p, i) \/ InTrailer(chs, tr, s, acc, p, i)

Reads(chs, tr, a, u, s, acc) ==
    /\ a \in Nat /\ a <= Len(Whole(chs, tr)) /\ StreamOK(s) /\ AccOK(acc)
    /\ \E p \in 0 .. a : /\ u = SubSeq(Whole(chs, tr), p + 1, a) /\ Len(finish(acc)) <= p
                         /\ \E i \in 1 .. Len(chs) + 1 : At(chs, tr, s, acc, p, i)

LEMMA ChunkPlace ==
    ASSUME NEW chs \in Seq(Chunks), NEW tr \in Trailers, NEW i \in 1 .. Len(chs)
    PROVE  LET w == Whole(chs, tr)
               o == Off(chs, i)
               c == chs[i]
               l == Len(c.line)
               d == Len(c.data)
           IN  /\ w \in Seq(Bytes) /\ o \in Nat /\ l \in Nat /\ d \in Nat /\ c \in Chunks
               /\ \A k \in 1 .. l : w[o + k] = c.line[k] /\ c.line[k] # "CR"
               /\ w[o + l + 1] = "CR" /\ w[o + l + 2] = "LF"
               /\ \A k \in 1 .. d : w[o + l + 2 + k] = c.data[k]
               /\ c.form = "no_end" => w[o + l + d + 3] = "x"
               /\ c.form = "proper" =>
                    /\ w[o + l + d + 3] = "CR" /\ w[o + l + d + 4] = "LF"
                    /\ Off(chs, i + 1) = o + l + d + 4
               /\ o + l + d + 3 <= Off(chs, i + 1) /\ Off(chs, i + 1) + 6 <= Len(w) /\ Off(chs, i + 1) \in Nat
  <1> DEFINE w == Whole(chs, tr)
             o == Off(chs, i)
             c == chs[i]
             l == Len(c.line)
             d == Len(c.data)
             e == Off(chs, Len(chs) + 1)
  <1>1. i \in 1 .. Len(chs) + 1 /\ i + 1 \in 1 .. Len(chs) + 1 /\ Len(chs) + 1 \in 1 .. Len(chs) + 1 /\ c \in Chunks
    OBVIOUS
  <1>2. /\ w \in Seq(Bytes) /\ o \in Nat /\ ChunkAt(w, o, c) /\ Off(chs, i + 1) = o + Width(c)
        /\ e \in Nat /\ Off(chs, i + 1) \in Nat /\ Off(chs, i + 1) <= e /\ EndAt(w, e, tr)
    BY <1>1, Layout, Zenon
  <1>3. l \in Nat /\ d \in Nat /\ \A k \in 1 .. l : c.line[k] # "CR"
    BY <1>1, ChunkFacts, Zenon
  <1>4. Len(w) = e + Len(tr) + 6 /\ Len(tr) \in Nat
    BY <1>2, TrailerFacts, Zenon DEF EndAt
  <1>5. /\ \A k \in 1 .. l : w[o + k] = c.line[k]
        /\ w[o + l + 1] = "CR" /\ w[o + l + 2] = "LF"
        /\ \A k \in 1 .. d : w[o + l + 2 + k] = c.data[k]
        /\ c.form = "no_end" => w[o + l + d + 3] = "x"
        /\ c.form # "no_end" => w[o + l + d + 3] = "CR" /\ w[o + l + d + 4] = "LF"
    BY <1>2, Zenon DEF ChunkAt
  <1>6. c.form = "proper" => c.form # "no_end"
    OBVIOUS
  <1>7. Width(c) \in {l + d + 3, l + d + 4} /\ (c.form # "no_end" => Width(c) = l + d + 4)
    <2>1. CASE c.form = "no_end"
      <3>1. Width(c) = l + d + 3
        BY <2>1, Zenon DEF Width
      <3>2. QED
        BY <2>1, <3>1, Zenon
    <2>2. CASE c.form # "no_end"
      <3>1. Width(c) = l + d + 4
        BY <2>2, Zenon DEF Width
      <3>2. QED
        BY <2>2, <3>1, Zenon
    <2>3. QED
      BY <2>1, <2>2, Zenon
  <1> DEFINE v == Width(c)
             x == Off(chs, i + 1)
  <1>8. v \in {l + d + 3, l + d + 4} /\ x = o + v /\ x <= e /\ Len(w) = e + Len(tr) + 6
    BY <1>2, <1>4, <1>7, Zenon
  <1> HIDE DEF v, x, l, d, o, e, w, c
  <1>9. o + l + d + 3 <= x /\ x + 6 <= Len(w) /\ (v = l + d + 4 => x = o + l + d + 4)
    BY <1>2, <1>3, <1>4, <1>8
  <1>10. QED
    BY <1>1, <1>2, <1>3, <1>5, <1>6, <1>7, <1>9, Zenon DEF v, x, l, d, o, w, c

LEMMA EndPlace ==
    ASSUME NEW chs \in Seq(Chunks), NEW tr \in Trailers
    PROVE  LET w == Whole(chs, tr)
               o == Off(chs, Len(chs) + 1)
               t == Len(tr)
           IN  /\ w \in Seq(Bytes) /\ o \in Nat /\ t \in Nat /\ Len(w) = o + t + 6
               /\ w[o + 1] = "0" /\ w[o + 2] = "CR" /\ w[o + 3] = "LF"
               /\ \A k \in 1 .. t : w[o + 3 + k] = tr[k]
               /\ w[o + t + 4] = "CR" /\ w[o + t + 5] = "LF"
               /\ t # 0 => w[o + 3 + t] = "LF"
  <1> DEFINE w == Whole(chs, tr)
             o == Off(chs, Len(chs) + 1)
             t == Len(tr)
  <1>1. w \in Seq(Bytes) /\ o \in Nat /\ EndAt(w, o, tr)
    <2>1. Len(chs) + 1 \in 1 .. Len(chs) + 1
      OBVIOUS
    <2>2. QED
      BY <2>1, Layout, Zenon
  <1>2. /\ t \in Nat
        /\ t # 0 => t > 1 /\ tr[t - 1] = "CR"
        /\ \A k \in 1 .. t : tr[k] = "CR" => tr[k + 1] = "LF"
    BY TrailerFacts, Zenon
  <1>3. ASSUME t # 0 PROVE tr[t] = "LF" /\ t \in 1 .. t
    <2>1. t - 1 \in 1 .. t /\ (t - 1) + 1 = t /\ t \in 1 .. t
      BY <1>2, <1>3
    <2>2. QED
      BY <1>2, <1>3, <2>1, Zenon
  <1> HIDE DEF w, o, t
  <1>4. QED
    BY <1>1, <1>2, <1>3, Zenon DEF EndAt, w, o, t

----------------------------------------------------------------------------
(* Lines.  What is undecoded is the part of w from p to a.                 *)

\* The first k bytes of it, and the others.
Splits(w, p, a, k) ==
    LET u == SubSeq(w, p + 1, a)
    IN  /\ SubSeq(u, 1, k) = SubSeq(w, p + 1, p + k)
        /\ SubSeq(u, k + 1, Len(u)) = SubSeq(w, p + k + 1, a)

LEMMA RestOf ==
    ASSUME NEW w \in Seq(Bytes), NEW p \in Nat, NEW a \in Nat, p <= a, a <= Len(w),
           NEW k \in Nat, k <= a - p
    PROVE  Splits(w, p, a, k)
  <1> DEFINE u == SubSeq(w, p + 1, a)
             q == p + k
             n == a - p
             h == SubSeq(u, 1, k)
             h2 == SubSeq(w, p + 1, q)
             t == SubSeq(u, k + 1, n)
             t2 == SubSeq(w, q + 1, a)
  <1>1. u \in Seq(Bytes) /\ Len(u) = n /\ \A j \in 1 .. n : u[j] = w[p + j]
    BY SubSeqAt
  <1>2. q \in Nat /\ n \in Nat /\ p <= q /\ q <= a /\ q <= Len(w) /\ q - p = k /\ k <= n /\ a - q = n - k
    OBVIOUS
  <1> HIDE DEF u, q, n
  <1>3. h \in Seq(Bytes) /\ Len(h) = k /\ \A j \in 1 .. k : h[j] = u[j]
    BY <1>1, <1>2, PrefixAt
  <1>4. h2 \in Seq(Bytes) /\ Len(h2) = k /\ \A j \in 1 .. k : h2[j] = w[p + j]
    <2>1. /\ SubSeq(w, p + 1, q) \in Seq(Bytes) /\ Len(SubSeq(w, p + 1, q)) = q - p
          /\ \A j \in 1 .. q - p : SubSeq(w, p + 1, q)[j] = w[p + j]
      BY <1>2, SubSeqAt
    <2>2. QED
      BY <1>2, <2>1, Zenon
  <1>5. t \in Seq(Bytes) /\ Len(t) = n - k /\ \A j \in 1 .. n - k : t[j] = u[k + j]
    <2>1. k \in Nat /\ k <= n /\ n <= Len(u)
      BY <1>1, <1>2
    <2>2. QED
      BY <1>1, <1>2, <2>1, SubSeqAt
  <1>6. t2 \in Seq(Bytes) /\ Len(t2) = n - k /\ \A j \in 1 .. n - k : t2[j] = w[q + j]
    <2>1. /\ SubSeq(w, q + 1, a) \in Seq(Bytes) /\ Len(SubSeq(w, q + 1, a)) = a - q
          /\ \A j \in 1 .. a - q : SubSeq(w, q + 1, a)[j] = w[q + j]
      BY <1>2, SubSeqAt
    <2>2. QED
      BY <1>2, <2>1, Zenon
  <1> HIDE DEF h, h2, t, t2
  <1>7. h = h2
    <2>1. \A j \in 1 .. k : j \in 1 .. n
      BY <1>2
    <2>2. \A j \in 1 .. k : h[j] = h2[j]
      BY <1>1, <1>3, <1>4, <2>1, Zenon
    <2>3. QED
      BY <1>3, <1>4, <2>2, SeqEqual
  <1>8. t = t2
    <2>1. \A j \in 1 .. n - k : k + j \in 1 .. n /\ p + (k + j) = q + j
      BY <1>2 DEF q
    <2>2. \A j \in 1 .. n - k : t[j] = t2[j]
      BY <1>1, <1>5, <1>6, <2>1, SMTT(60)
    <2>3. QED
      BY <1>5, <1>6, <2>2, SeqEqual
  <1>9. QED
    BY <1>1, <1>7, <1>8, Zenon DEF Splits, u, q, n, h, h2, t, t2

\* What is kept of a line, and more of it.
LEMMA LineGrows ==
    ASSUME NEW w \in Seq(Bytes), NEW from, NEW p \in Nat, NEW s, InLine(w, from, p, s),
           NEW q \in Nat, p <= q, q <= Len(w)
    PROVE  longer_line(s.line_buffer, SubSeq(w, p + 1, q)) = SubSeq(w, from + 1, q)
  <1>1. from \in Nat /\ from <= p /\ s.line_buffer = SubSeq(w, from + 1, p)
    BY Zenon DEF InLine
  <1> DEFINE h == SubSeq(w, from + 1, p)
             t == SubSeq(w, p + 1, q)
             z == SubSeq(w, from + 1, q)
             x == h \o t
  <1>2. h \in Seq(Bytes) /\ Len(h) = p - from /\ \A j \in 1 .. p - from : h[j] = w[from + j]
    <2>1. p <= Len(w)
      OBVIOUS
    <2>2. QED
      BY <1>1, <2>1, SubSeqAt
  <1>3. t \in Seq(Bytes) /\ Len(t) = q - p /\ \A j \in 1 .. q - p : t[j] = w[p + j]
    BY SubSeqAt
  <1>4. z \in Seq(Bytes) /\ Len(z) = q - from /\ \A j \in 1 .. q - from : z[j] = w[from + j]
    <2>1. from <= q
      BY <1>1
    <2>2. QED
      BY <1>1, <2>1, SubSeqAt
  <1> HIDE DEF h, t, z
  <1>5. /\ x \in Seq(Bytes) /\ Len(x) = Len(h) + Len(t)
        /\ \A j \in 1 .. Len(h) : x[j] = h[j]
        /\ \A j \in 1 .. Len(t) : x[Len(h) + j] = t[j]
    <2>1. h \in Seq(Bytes) /\ t \in Seq(Bytes)
      BY <1>2, <1>3, Zenon
    <2>2. QED
      BY <2>1, ConcatAt
  <1> HIDE DEF x
  <1>6. \A j \in 1 .. Len(z) : x[j] = z[j]
    <2>1. SUFFICES ASSUME NEW j \in 1 .. Len(z) PROVE x[j] = z[j]
      BY Zenon
    <2>2. z[j] = w[from + j] /\ j \in Nat
      BY <1>1, <1>4
    <2>3. CASE j <= p - from
      <3>1. j \in 1 .. p - from
        BY <1>1, <2>2, <2>3
      <3>2. QED
        BY <1>2, <1>5, <2>2, <3>1, Zenon
    <2>4. CASE ~(j <= p - from)
      <3> DEFINE v == j - (p - from)
      <3>1. v \in 1 .. q - p /\ (p - from) + v = j /\ p + v = from + j
        BY <1>1, <1>4, <2>2, <2>4
      <3> HIDE DEF v
      <3>2. QED
        BY <1>2, <1>3, <1>5, <2>2, <3>1, Zenon
    <2>5. QED
      BY <2>3, <2>4
  <1>7. Len(x) = Len(z)
    BY <1>1, <1>2, <1>3, <1>4, <1>5
  <1>8. x = z
    BY <1>4, <1>5, <1>6, <1>7, SeqEqual
  <1>9. QED
    BY <1>1, <1>8, Zenon DEF longer_line, x, h, t, z

Feeds(u) == {i \in DOMAIN u : u[i] = "LF"}

\* The place of the first LF of u, when p bytes come before u.
Stop(p, u) == p + Min(Feeds(u))

\* A line that begins behind from ends with the byte q.
Ends(w, from, q) ==
    from \in Nat /\ q \in Nat /\ from < q /\ w[q] = "LF" /\ \A k \in from + 1 .. q - 1 : w[k] # "LF"

\* u is undecoded, and in the line that begins behind from.
Reading(w, from, p, a, s, u) ==
    /\ w \in Seq(Bytes) /\ p \in Nat /\ a \in Nat /\ p <= a /\ a <= Len(w)
    /\ InLine(w, from, p, s) /\ u = SubSeq(w, p + 1, a)

\* The line ends in u.
Ending(w, from, p, a, s, u) == Reading(w, from, p, a, s, u) /\ Feeds(u) # {}

LEMMA LineCut ==
    ASSUME NEW w, NEW from, NEW p, NEW a, NEW s, NEW u, Reading(w, from, p, a, s, u), Feeds(u) = {}
    PROVE  /\ longer_line(s.line_buffer, u) = SubSeq(w, from + 1, a)
           /\ from \in Nat /\ from <= a /\ \A k \in from + 1 .. a : w[k] # "LF"
  <1>0. /\ w \in Seq(Bytes) /\ p \in Nat /\ a \in Nat /\ p <= a /\ a <= Len(w)
        /\ InLine(w, from, p, s) /\ u = SubSeq(w, p + 1, a)
    BY Zenon DEF Reading
  <1>1. /\ from \in Nat /\ from <= p /\ \A k \in from + 1 .. p : w[k] # "LF"
    BY <1>0, Zenon DEF InLine
  <1>2. longer_line(s.line_buffer, u) = SubSeq(w, from + 1, a)
    BY <1>0, LineGrows, ZenonT(60)
  <1>3. u \in Seq(Bytes) /\ Len(u) = a - p /\ \A j \in 1 .. a - p : u[j] = w[p + j]
    BY <1>0, SubSeqAt
  <1>4. DOMAIN u = 1 .. a - p
    BY <1>3
  <1>5. \A j \in 1 .. a - p : w[p + j] # "LF"
    BY <1>3, <1>4, Zenon DEF Feeds
  <1>6. ASSUME NEW k \in from + 1 .. a PROVE w[k] # "LF"
    <2>1. CASE k <= p
      <3>1. k \in from + 1 .. p
        BY <1>0, <2>1
      <3>2. QED
        BY <1>1, <3>1, Zenon
    <2>2. CASE ~(k <= p)
      <3> DEFINE j == k - p
      <3>1. j \in 1 .. a - p /\ p + j = k
        BY <1>0, <1>1, <2>2
      <3> HIDE DEF j
      <3>2. QED
        BY <1>5, <3>1, Zenon
    <2>3. QED
      BY <2>1, <2>2
  <1>7. from <= a
    BY <1>0, <1>1
  <1>8. QED
    BY <1>1, <1>2, <1>6, <1>7, Zenon

\* The line that ends in u, and what is left of u behind it.
Ended(s, u) == longer_line(s.line_buffer, SubSeq(u, 1, Min(Feeds(u))))
Left(u) == SubSeq(u, Min(Feeds(u)) + 1, Len(u))

Takes(w, from, p, a, s, u) ==
    /\ Stop(p, u) \in p + 1 .. a /\ Ends(w, from, Stop(p, u))
    /\ Ended(s, u) = SubSeq(w, from + 1, Stop(p, u))
    /\ Left(u) = SubSeq(w, Stop(p, u) + 1, a)

LEMMA LineTaken ==
    ASSUME NEW w, NEW from, NEW p, NEW a, NEW s, NEW u, Ending(w, from, p, a, s, u)
    PROVE  Takes(w, from, p, a, s, u)
  <1>0. /\ w \in Seq(Bytes) /\ p \in Nat /\ a \in Nat /\ p <= a /\ a <= Len(w)
        /\ InLine(w, from, p, s) /\ u = SubSeq(w, p + 1, a)
    BY Zenon DEF Ending, Reading
  <1>1. from \in Nat /\ from <= p /\ \A k \in from + 1 .. p : w[k] # "LF"
    BY <1>0, Zenon DEF InLine
  <1>2. u \in Seq(Bytes) /\ Len(u) = a - p /\ \A j \in 1 .. a - p : u[j] = w[p + j]
    BY <1>0, SubSeqAt
  <1>3. DOMAIN u = 1 .. a - p
    BY <1>2
  <1> DEFINE f == Feeds(u)
             m == Min(f)
             q == p + m
  <1>4. m \in f /\ \A y \in f : m <= y
    <2>1. f \in SUBSET Nat
      BY <1>3 DEF Feeds
    <2> HIDE DEF f
    <2>2. QED
      BY <2>1, Least DEF Ending, f
  <1>5. m \in 1 .. a - p /\ u[m] = "LF"
    BY <1>3, <1>4, Zenon DEF Feeds
  <1>6. \A j \in 1 .. a - p : u[j] = "LF" => m <= j
    BY <1>3, <1>4, Zenon DEF Feeds
  <1> HIDE DEF f, m
  <1>7. /\ SubSeq(u, 1, m) = SubSeq(w, p + 1, q)
        /\ SubSeq(u, m + 1, Len(u)) = SubSeq(w, q + 1, a)
    <2>1. m \in Nat /\ m <= a - p
      BY <1>5
    <2>2. QED
      <3>1. Splits(w, p, a, m)
        BY <1>0, <2>1, RestOf, Zenon
      <3>2. QED
        BY <1>0, <3>1, Zenon DEF Splits
  <1>8. q \in p + 1 .. a /\ q \in Nat /\ p <= q /\ q <= Len(w) /\ from < q
    BY <1>0, <1>1, <1>5
  <1> HIDE DEF q
  <1>9. longer_line(s.line_buffer, SubSeq(w, p + 1, q)) = SubSeq(w, from + 1, q)
    BY <1>0, <1>8, LineGrows, ZenonT(60)
  <1>10. w[q] = "LF"
    BY <1>2, <1>5, Zenon DEF q
  <1>11. ASSUME NEW k \in from + 1 .. q - 1 PROVE w[k] # "LF"
    <2>1. CASE k <= p
      <3>1. k \in from + 1 .. p
        BY <1>0, <2>1
      <3>2. QED
        BY <1>1, <3>1, Zenon
    <2>2. CASE ~(k <= p)
      <3> DEFINE j == k - p
      <3>1. j \in 1 .. a - p /\ p + j = k /\ ~(m <= j)
        BY <1>0, <1>1, <1>5, <1>8, <2>2 DEF q
      <3> HIDE DEF j
      <3>2. QED
        BY <1>2, <1>6, <3>1, Zenon
    <2>3. QED
      BY <2>1, <2>2
  <1>12. Ends(w, from, q)
    BY <1>1, <1>8, <1>10, <1>11, Zenon DEF Ends
  <1>13. QED
    BY <1>7, <1>8, <1>9, <1>12, Zenon DEF m, f, q, Stop, Takes, Ended, Left

\* The text of a line, and the byte before its LF.
LEMMA LineText ==
    ASSUME NEW w \in Seq(Bytes), NEW from \in Nat, NEW q \in Nat, from < q, q <= Len(w)
    PROVE  LET e == SubSeq(w, from + 1, q)
           IN  /\ Len(e) = q - from
               /\ q - from >= 2 => /\ e[Len(e) - 1] = w[q - 1]
                                   /\ SubSeq(e, 1, Len(e) - 2) = SubSeq(w, from + 1, q - 2)
  <1> DEFINE e == SubSeq(w, from + 1, q)
  <1>1. e \in Seq(Bytes) /\ Len(e) = q - from /\ \A j \in 1 .. q - from : e[j] = w[from + j]
    BY SubSeqAt
  <1>2. ASSUME q - from >= 2
        PROVE  /\ e[Len(e) - 1] = w[q - 1]
               /\ SubSeq(e, 1, Len(e) - 2) = SubSeq(w, from + 1, q - 2)
    <2> DEFINE k == (q - from) - 2
    <2>1. k \in Nat /\ k <= q - from /\ from + k = q - 2 /\ from <= q
      BY <1>2
    <2>2. SubSeq(e, 1, k) = SubSeq(w, from + 1, from + k)
      <3> HIDE DEF k
      <3>2. QED
        <4>1. Splits(w, from, q, k)
          BY <2>1, RestOf, Zenon
        <4>2. QED
          BY <4>1, Zenon DEF Splits
    <2>3. e[(q - from) - 1] = w[q - 1]
      <3>1. (q - from) - 1 \in 1 .. q - from /\ from + ((q - from) - 1) = q - 1
        BY <1>2
      <3>2. QED
        BY <1>1, <3>1, Zenon
    <2>4. QED
      BY <1>1, <2>1, <2>2, <2>3, Zenon
  <1>3. QED
    BY <1>1, <1>2, Zenon

LEMMA SizeLineAt ==
    ASSUME NEW chs \in Seq(Chunks), NEW tr \in Trailers, NEW i \in 1 .. Len(chs)
    PROVE  /\ DOMAIN SizeLine(chs[i]) = 1 .. Len(chs[i].line) + 2
           /\ Len(SizeLine(chs[i])) = Len(chs[i].line) + 2
           /\ \A k \in 1 .. Len(chs[i].line) + 2 :
                SizeLine(chs[i])[k] = Whole(chs, tr)[Off(chs, i) + k]
  <1> DEFINE w == Whole(chs, tr)
             o == Off(chs, i)
             c == chs[i]
             z == c.line
             l == Len(z)
             x == SizeLine(c)
  <1>1. /\ l \in Nat /\ o \in Nat /\ c \in Chunks /\ \A k \in 1 .. l : w[o + k] = z[k]
        /\ w[o + l + 1] = "CR" /\ w[o + l + 2] = "LF"
    BY ChunkPlace, ZenonT(60)
  <1>2. z \in Seq(Bytes) /\ CrLf \in Seq(Bytes) /\ Len(CrLf) = 2 /\ CrLf[1] = "CR" /\ CrLf[2] = "LF"
    BY <1>1, ChunkFacts, ByteFacts, Zenon
  <1>3. x = z \o CrLf
    BY Zenon DEF SizeLine
  <1> HIDE DEF w, o, c, z, x
  <1>4. /\ x \in Seq(Bytes) /\ Len(x) = Len(z) + Len(CrLf)
        /\ \A k \in 1 .. Len(z) : x[k] = z[k]
        /\ \A k \in 1 .. Len(CrLf) : x[Len(z) + k] = CrLf[k]
    <2>1. z \in Seq(Bytes) /\ CrLf \in Seq(Bytes)
      BY <1>2, Zenon
    <2>2. QED
      BY <1>3, <2>1, ConcatAt
  <1>5. x[l + 1] = "CR" /\ x[l + 2] = "LF"
    <2>1. 1 \in 1 .. 2 /\ 2 \in 1 .. 2
      OBVIOUS
    <2>2. QED
      BY <1>2, <1>4, <2>1, Zenon
  <1>6. Len(x) = l + 2 /\ DOMAIN x = 1 .. l + 2
    BY <1>2, <1>4
  <1> HIDE DEF l
  <1>7. ASSUME NEW k \in 1 .. l + 2 PROVE x[k] = w[o + k]
    <2>1. CASE k \in 1 .. l
      BY <1>1, <1>4, <2>1, Zenon DEF l
    <2>2. CASE k = l + 1
      <3>1. o + k = o + l + 1
        BY <1>1, <2>2
      <3>2. QED
        BY <1>1, <1>5, <2>2, <3>1, Zenon
    <2>3. CASE k = l + 2
      <3>1. o + k = o + l + 2
        BY <1>1, <2>3
      <3>2. QED
        BY <1>1, <1>5, <2>3, <3>1, Zenon
    <2>4. k \in 1 .. l \/ k = l + 1 \/ k = l + 2
      BY <1>1
    <2>5. QED
      BY <2>1, <2>2, <2>3, <2>4, Zenon
  <1>8. QED
    BY <1>6, <1>7, Zenon DEF w, o, c, z, x, l

\* A size line ends where it should, or has an LF before.
LEMMA SizeLineEnds ==
    ASSUME NEW chs \in Seq(Chunks), NEW tr \in Trailers, NEW i \in 1 .. Len(chs), NEW q,
           Ends(Whole(chs, tr), Off(chs, i), q)
    PROVE  LET w == Whole(chs, tr)
               o == Off(chs, i)
               c == chs[i]
           IN  \/ /\ q = o + Len(c.line) + 2 /\ q - o >= 2 /\ w[q - 1] = "CR"
                  /\ SubSeq(w, o + 1, q - 2) = c.line /\ ~BareLf(SizeLine(c))
               \/ (q - o < 2 \/ w[q - 1] # "CR") /\ BareLf(SizeLine(c))
  <1> DEFINE w == Whole(chs, tr)
             o == Off(chs, i)
             c == chs[i]
             z == c.line
             l == Len(z)
             x == SizeLine(c)
             e == Off(chs, i + 1)
             v == SubSeq(w, o + 1, o + l)
  <1>1. /\ w \in Seq(Bytes) /\ l \in Nat /\ o \in Nat /\ c \in Chunks
        /\ \A k \in 1 .. l : w[o + k] = z[k] /\ z[k] # "CR"
        /\ w[o + l + 1] = "CR" /\ w[o + l + 2] = "LF"
        /\ Len(c.data) \in Nat /\ o + l + Len(c.data) + 3 <= e /\ e + 6 <= Len(w) /\ e \in Nat
    BY ChunkPlace, ZenonT(60)
  <1>2. DOMAIN x = 1 .. l + 2 /\ \A k \in 1 .. l + 2 : x[k] = w[o + k]
    BY SizeLineAt, Zenon
  <1>3. q \in Nat /\ o < q /\ w[q] = "LF" /\ \A k \in o + 1 .. q - 1 : w[k] # "LF"
    BY Zenon DEF Ends
  <1>4. z \in Seq(Bytes)
    BY <1>1, ChunkFacts, Zenon
  <1> DEFINE d == Len(c.data)
  <1> HIDE DEF w, o, x, e, d, z, l
  <1>4a. d \in Nat /\ o + l + d + 3 <= e /\ e + 6 <= Len(w) /\ o \in Nat /\ l \in Nat /\ e \in Nat
    BY <1>1, Zenon DEF d
  <1>5. ~(o + l + 2 \in o + 1 .. q - 1)
    BY <1>1, <1>3, Zenon
  <1>6. q <= o + l + 2
    BY <1>1, <1>3, <1>5
  <1>7. CASE q = o + l + 2
    <2>1. q - o >= 2 /\ q - 1 = o + l + 1 /\ q - 2 = o + l
      BY <1>1, <1>7
    <2>2. v \in Seq(Bytes) /\ Len(v) = l /\ \A k \in 1 .. l : v[k] = w[o + k]
      <3> DEFINE to == o + l
      <3>1. to \in Nat /\ o <= to /\ to <= Len(w) /\ to - o = l
        BY <1>4a
      <3> HIDE DEF to
      <3>2. /\ SubSeq(w, o + 1, to) \in Seq(Bytes) /\ Len(SubSeq(w, o + 1, to)) = to - o
            /\ \A k \in 1 .. to - o : SubSeq(w, o + 1, to)[k] = w[o + k]
        BY <1>1, <3>1, SubSeqAt
      <3>3. QED
        BY <3>1, <3>2, Zenon DEF to
    <2>3. \A k \in 1 .. l : v[k] = z[k]
      BY <1>1, <2>2, Zenon
    <2> HIDE DEF v
    <2>4. v = z
      BY <1>4, <2>2, <2>3, SeqEqual DEF l
    <2>5. ASSUME NEW k \in 1 .. l + 2 PROVE NotBare(x, k)
      <3>1. CASE k = l + 2
        <4>1. k # 1 /\ k - 1 = l + 1 /\ l + 1 \in 1 .. l + 2 /\ o + (l + 1) = o + l + 1
          BY <1>4a, <3>1
        <4>2. QED
          BY <1>1, <1>2, <4>1, Zenon DEF NotBare
      <3>2. CASE k # l + 2
        <4>1. o + k \in o + 1 .. q - 1
          BY <1>4a, <1>7, <3>2
        <4>2. QED
          BY <1>2, <1>3, <4>1, Zenon DEF NotBare
      <3>3. QED
        BY <3>1, <3>2
    <2>6. ~BareLf(x)
      BY <1>2, <2>5, NothingBare, Zenon
    <2>7. QED
      BY <1>1, <1>7, <2>1, <2>4, <2>6, Zenon DEF v, w, o, z, l, x
  <1>8. CASE q # o + l + 2
    <2> DEFINE k == q - o
    <2>1. k \in 1 .. l + 2 /\ q = o + k
      BY <1>1, <1>3, <1>6
    <2>2. k # l + 1
      <3>1. ASSUME k = l + 1 PROVE FALSE
        <4>1. q = o + l + 1
          BY <1>1, <1>3, <3>1
        <4>2. QED
          BY <1>1, <1>3, <4>1
      <3>2. QED
        BY <3>1
    <2>3. k \in 1 .. l
      BY <1>1, <1>3, <1>8, <2>1, <2>2
    <2>4. x[k] = "LF" /\ k \in DOMAIN x
      BY <1>2, <1>3, <2>1, Zenon
    <2>5. k = 1 \/ (k - 1 \in 1 .. l /\ k - 1 \in 1 .. l + 2 /\ o + (k - 1) = q - 1)
      BY <1>1, <1>3, <2>3
    <2>6. k = 1 => q - o < 2
      BY <1>1, <1>3
    <2> HIDE DEF k
    <2>7. k # 1 => x[k - 1] # "CR" /\ w[q - 1] # "CR"
      BY <1>1, <1>2, <2>5, ZenonT(60)
    <2>8. BareLf(x)
      BY <2>4, <2>7, Zenon DEF BareLf
    <2>9. QED
      BY <2>6, <2>7, <2>8, Zenon DEF x, w, o
  <1>9. QED
    BY <1>7, <1>8

LEMMA LastLineEnds ==
    ASSUME NEW chs \in Seq(Chunks), NEW tr \in Trailers, NEW q,
           Ends(Whole(chs, tr), Off(chs, Len(chs) + 1), q)
    PROVE  LET w == Whole(chs, tr)
               o == Off(chs, Len(chs) + 1)
           IN  /\ q = o + 3 /\ q - o >= 2 /\ w[q - 1] = "CR"
               /\ SubSeq(w, o + 1, q - 2) = <<"0">>
  <1> DEFINE w == Whole(chs, tr)
             o == Off(chs, Len(chs) + 1)
             v == SubSeq(w, o + 1, o + 1)
             z == <<"0">>
  <1>1. /\ w \in Seq(Bytes) /\ o \in Nat /\ Len(tr) \in Nat /\ Len(w) = o + Len(tr) + 6
        /\ w[o + 1] = "0" /\ w[o + 2] = "CR" /\ w[o + 3] = "LF"
    BY EndPlace, Zenon
  <1>2. q \in Nat /\ o < q /\ w[q] = "LF" /\ \A k \in o + 1 .. q - 1 : w[k] # "LF"
    BY Zenon DEF Ends
  <1> HIDE DEF w, o
  <1>3. ~(o + 3 \in o + 1 .. q - 1)
    BY <1>1, <1>2, Zenon
  <1>4. q \in {o + 1, o + 2, o + 3}
    BY <1>1, <1>2, <1>3
  <1>5. q # o + 1 /\ q # o + 2
    BY <1>1, <1>2
  <1>6. q = o + 3 /\ q - o >= 2 /\ q - 1 = o + 2 /\ q - 2 = o + 1
    BY <1>1, <1>4, <1>5
  <1>7. v \in Seq(Bytes) /\ Len(v) = 1 /\ v[1] = w[o + 1]
    <2> DEFINE to == o + 1
    <2>1. to \in Nat /\ o <= to /\ to <= Len(w) /\ to - o = 1 /\ 1 \in 1 .. 1
      BY <1>1
    <2> HIDE DEF to
    <2>2. /\ SubSeq(w, o + 1, to) \in Seq(Bytes) /\ Len(SubSeq(w, o + 1, to)) = to - o
          /\ \A k \in 1 .. to - o : SubSeq(w, o + 1, to)[k] = w[o + k]
      BY <1>1, <2>1, SubSeqAt, SMTT(60)
    <2>3. QED
      BY <2>1, <2>2, Zenon DEF to
  <1> HIDE DEF v
  <1>8. v = z
    <2>1. z \in Seq(Bytes) /\ Len(z) = 1 /\ z[1] = "0"
      <3>1. "0" \in Bytes
        BY ByteFacts
      <3>2. QED
        BY <3>1
    <2> HIDE DEF z
    <2>2. \A k \in 1 .. Len(v) : v[k] = z[k]
      BY <1>1, <1>7, <2>1
    <2>3. QED
      BY <1>7, <2>1, <2>2, SeqEqual
  <1>9. QED
    BY <1>1, <1>6, <1>8, Zenon DEF v, z, w, o

\* Where the trailer is in the bytes: its byte k is the byte first + k.
LEMMA TrailerPlace ==
    ASSUME NEW chs \in Seq(Chunks), NEW tr \in Trailers, NEW from, LineStart(chs, tr, from)
    PROVE  LET w == Whole(chs, tr)
               f == Off(chs, Len(chs) + 1) + 3
               t == Len(tr)
           IN  /\ w \in Seq(Bytes) /\ f \in Nat /\ t \in Nat /\ Len(w) = f + t + 3
               /\ DOMAIN tr = 1 .. t /\ \A k \in 1 .. t : w[f + k] = tr[k]
               /\ w[f + t + 1] = "CR" /\ w[f + t + 2] = "LF" /\ (t # 0 => w[f + t] = "LF")
               /\ from \in Nat /\ f <= from /\ from <= f + t
               /\ from # f => from >= f + 2 /\ w[from - 1] = "CR" /\ w[from] = "LF"
               /\ \A k \in 1 .. from - f : NotBare(tr, k)
               /\ \A k \in 1 .. t : tr[k] = "CR" => k > 1 /\ (k > 2 => tr[k - 2] # "CR")
  <1> DEFINE w == Whole(chs, tr)
             o == Off(chs, Len(chs) + 1)
             f == o + 3
             t == Len(tr)
  <1>1. /\ w \in Seq(Bytes) /\ o \in Nat /\ t \in Nat /\ Len(w) = o + t + 6
        /\ \A k \in 1 .. t : w[o + 3 + k] = tr[k]
        /\ w[o + t + 4] = "CR" /\ w[o + t + 5] = "LF"
        /\ t # 0 => w[o + 3 + t] = "LF"
    BY EndPlace, Zenon
  <1>2. /\ tr \in Seq(Bytes)
        /\ \A k \in 1 .. t : tr[k] = "CR" => k > 1 /\ (k > 2 => tr[k - 2] # "CR")
    BY TrailerFacts, Zenon
  <1>3. /\ from \in f .. f + t
        /\ from # f => from >= f + 2 /\ w[from - 1] = "CR" /\ w[from] = "LF"
        /\ \A k \in 1 .. from - f : NotBare(tr, k)
    BY Zenon DEF LineStart
  <1>4. f = o + 3
    OBVIOUS
  <1>5. DOMAIN tr = 1 .. t
    BY <1>2
  <1> HIDE DEF o, f, t, w
  <1>6. f \in Nat /\ Len(w) = f + t + 3 /\ f + t + 1 = o + t + 4 /\ f + t + 2 = o + t + 5
    BY <1>1, <1>4
  <1>7. from \in Nat /\ f <= from /\ from <= f + t
    BY <1>1, <1>3, <1>6
  <1>8. w[f + t + 1] = "CR" /\ w[f + t + 2] = "LF"
    BY <1>1, <1>6
  <1>9. QED
    BY <1>1, <1>2, <1>3, <1>5, <1>6, <1>7, <1>8, Zenon DEF o, f, t, w

\* A stretch of the trailer without an LF that is longer than the limit.
LEMMA TrailerTooLong ==
    ASSUME NEW chs \in Seq(Chunks), NEW tr \in Trailers, NEW from, LineStart(chs, tr, from),
           NEW z \in Nat, from + max_line_bytes < z,
           z <= Off(chs, Len(chs) + 1) + 3 + Len(tr),
           \A k \in from + 1 .. z : Whole(chs, tr)[k] # "LF"
    PROVE  TooLong(tr)
  <1> DEFINE w == Whole(chs, tr)
             f == Off(chs, Len(chs) + 1) + 3
             t == Len(tr)
             i == (from - f) + 1
             m == max_line_bytes
  <1>1. /\ f \in Nat /\ t \in Nat /\ DOMAIN tr = 1 .. t
        /\ \A k \in 1 .. t : w[f + k] = tr[k]
        /\ from \in Nat /\ f <= from /\ from <= f + t
    BY TrailerPlace, Zenon
  <1>2. m \in Nat /\ from + m < z /\ z <= f + t /\ \A k \in from + 1 .. z : w[k] # "LF"
    BY BodyAssumption
  <1> HIDE DEF w, f, m, t
  <1>3. i \in 1 .. t /\ i + m <= t
    BY <1>1, <1>2
  <1>4. ASSUME NEW j \in i .. i + m PROVE tr[j] # "LF"
    <2>1. j \in 1 .. t /\ f + j \in from + 1 .. z
      BY <1>1, <1>2, <1>3
    <2>2. QED
      BY <1>1, <1>2, <2>1, Zenon
  <1>5. Len(tr) = t
    BY DEF t
  <1> HIDE DEF i
  <1>6. QED
    BY <1>1, <1>3, <1>4, <1>5, Zenon DEF TooLong, m

LEMMA TrailerLineEnds ==
    ASSUME NEW chs \in Seq(Chunks), NEW tr \in Trailers, NEW from, LineStart(chs, tr, from), NEW q,
           Ends(Whole(chs, tr), from, q)
    PROVE  LET w == Whole(chs, tr)
               proper == q - from >= 2 /\ w[q - 1] = "CR"
           IN  \/ ~proper /\ BareLf(tr)
               \/ proper /\ q - from = 2 /\ q = Len(w) - 1 /\ ~BareLf(tr)
               \/ /\ proper /\ q - from > 2 /\ LineStart(chs, tr, q)
                  /\ (q - from) - 2 > max_line_bytes => TooLong(tr)
  <1> DEFINE w == Whole(chs, tr)
             f == Off(chs, Len(chs) + 1) + 3
             t == Len(tr)
             k == q - f
             proper == q - from >= 2 /\ w[q - 1] = "CR"
  <1>1. /\ w \in Seq(Bytes) /\ f \in Nat /\ t \in Nat /\ Len(w) = f + t + 3
        /\ DOMAIN tr = 1 .. t /\ \A j \in 1 .. t : w[f + j] = tr[j]
        /\ w[f + t + 1] = "CR" /\ w[f + t + 2] = "LF" /\ (t # 0 => w[f + t] = "LF")
        /\ from \in Nat /\ f <= from /\ from <= f + t
        /\ from # f => from >= f + 2 /\ w[from - 1] = "CR" /\ w[from] = "LF"
        /\ \A j \in 1 .. from - f : NotBare(tr, j)
        /\ \A j \in 1 .. t : tr[j] = "CR" => j > 1 /\ (j > 2 => tr[j - 2] # "CR")
    BY TrailerPlace
  <1>2. q \in Nat /\ from < q /\ w[q] = "LF" /\ \A j \in from + 1 .. q - 1 : w[j] # "LF"
    BY Zenon DEF Ends
  <1> HIDE DEF w, f, t
  <1>3. ~(f + t + 2 \in from + 1 .. q - 1) /\ q # f + t + 1
    BY <1>1, <1>2
  <1>4. q = f + t + 2 \/ q <= f + t
    BY <1>1, <1>2, <1>3
  <1>5. CASE q = f + t + 2
    <2>1. from = f + t
      <3>1. SUFFICES ASSUME from # f + t PROVE FALSE
        BY Zenon
      <3>2. t # 0 /\ f + t \in from + 1 .. q - 1
        BY <1>1, <1>2, <1>5, <3>1
      <3>3. QED
        BY <1>1, <1>2, <3>2, Zenon
    <2>2. q - from = 2 /\ q - from >= 2 /\ q - 1 = f + t + 1 /\ q = Len(w) - 1
      BY <1>1, <1>2, <1>5, <2>1
    <2>3. w[q - 1] = "CR"
      BY <1>1, <2>2
    <2>4. from - f = t
      BY <1>1, <2>1
    <2>5. ~BareLf(tr)
      BY <1>1, <2>4, NothingBare, Zenon
    <2>6. QED
      BY <2>2, <2>3, <2>5, Zenon DEF w
  <1>6. CASE q <= f + t /\ ~proper
    <2>1. k \in 1 .. t /\ q = f + k
      BY <1>1, <1>2, <1>6
    <2>2. k # 1 => k - 1 \in 1 .. t /\ f + (k - 1) = q - 1
      BY <1>1, <1>2, <2>1
    <2>3. q - from < 2 => q - 1 = from /\ (from = f => k = 1)
      BY <1>1, <1>2
    <2>4. q - from < 2 \/ w[q - 1] # "CR"
      BY <1>1, <1>2, <1>6
    <2> HIDE DEF k, proper
    <2>5. tr[k] = "LF" /\ k \in DOMAIN tr
      BY <1>1, <1>2, <2>1, Zenon
    <2>6. k = 1 \/ w[q - 1] # "CR"
      <3>1. CASE q - from < 2
        BY <1>1, <2>3, <3>1
      <3>2. QED
        BY <2>4, <3>1
    <2>7. k # 1 => tr[k - 1] # "CR"
      BY <1>1, <2>2, <2>6, Zenon
    <2>8. QED
      BY <1>6, <2>5, <2>7, Zenon DEF BareLf, proper, w
  <1>7. CASE q <= f + t /\ proper
    <2>1. k \in Nat /\ k - 1 \in 1 .. t /\ k \in 1 .. t /\ f + (k - 1) = q - 1 /\ f + k = q
      BY <1>1, <1>2, <1>7
    <2>2. w[q - 1] = "CR" /\ q - from >= 2
      BY <1>7, Zenon
    <2>3. tr[k - 1] = "CR"
      BY <1>1, <2>1, <2>2, Zenon
    <2>4. k - 1 > 1 /\ (k - 1 > 2 => tr[(k - 1) - 2] # "CR")
      BY <1>1, <2>1, <2>3, Zenon
    <2>5. q - from # 2
      <3>1. SUFFICES ASSUME q - from = 2 PROVE FALSE
        BY Zenon
      <3>2. from # f
        BY <1>1, <1>2, <2>1, <2>4, <3>1
      <3>3. from >= f + 2 /\ w[from - 1] = "CR"
        BY <1>1, <3>2, Zenon
      <3>4. k - 1 > 2 /\ (k - 1) - 2 \in 1 .. t /\ f + ((k - 1) - 2) = from - 1
        BY <1>1, <1>2, <2>1, <3>1, <3>3
      <3> HIDE DEF k
      <3>5. QED
        BY <1>1, <2>4, <3>3, <3>4, Zenon
    <2>6. q - from > 2
      BY <1>1, <1>2, <2>2, <2>5
    <2>7. LineStart(chs, tr, q)
      <3>1. q \in f .. f + t /\ q >= f + 2
        BY <1>1, <1>2, <1>7, <2>6
      <3>2. ASSUME NEW j \in 1 .. q - f PROVE NotBare(tr, j)
        <4>1. CASE j \in 1 .. from - f
          BY <1>1, <4>1, Zenon
        <4>2. CASE j = q - f
          <5>1. j # 1
            BY <1>1, <1>2, <2>6, <4>2
          <5>2. QED
            BY <2>3, <4>2, <5>1, Zenon DEF NotBare, k
        <4>3. CASE j \notin 1 .. from - f /\ j # q - f
          <5>1. j \in 1 .. t /\ f + j \in from + 1 .. q - 1
            BY <1>1, <1>2, <1>7, <4>3
          <5>2. QED
            BY <1>1, <1>2, <5>1, Zenon DEF NotBare
        <4>4. QED
          BY <4>1, <4>2, <4>3
      <3>3. QED
        BY <1>2, <2>2, <3>1, <3>2, Zenon DEF LineStart, f, t, w
    <2>8. ASSUME (q - from) - 2 > max_line_bytes PROVE TooLong(tr)
      <3> DEFINE z == q - 1
      <3>1. z \in Nat /\ from + max_line_bytes < z /\ z <= f + t
        BY <1>1, <1>2, <1>7, <2>8, BodyAssumption
      <3> HIDE DEF z
      <3>2. \A j \in from + 1 .. z : w[j] # "LF"
        BY <1>2, Zenon DEF z
      <3>3. QED
        BY <3>1, <3>2, TrailerTooLong, Zenon DEF w, f, t
    <2>9. QED
      BY <1>7, <2>6, <2>7, <2>8, Zenon DEF w
  <1>8. QED
    BY <1>4, <1>5, <1>6, <1>7, Zenon

\* The decoders disagree about a line of the body.
Disputed(chs, tr) ==
    \E lines \in {SizeLine(chs[i]) : i \in DOMAIN chs} \cup {tr} : BareLf(lines) \/ TooLong(lines)

LEMMA DisputedLine ==
    ASSUME NEW chs \in Seq(Chunks), NEW tr
    PROVE  /\ BareLf(tr) \/ TooLong(tr) => Disputed(chs, tr)
           /\ \A i \in 1 .. Len(chs) :
                BareLf(SizeLine(chs[i])) \/ TooLong(SizeLine(chs[i])) => Disputed(chs, tr)
  <1>1. DOMAIN chs = 1 .. Len(chs)
    OBVIOUS
  <1>2. QED
    BY <1>1, Zenon DEF Disputed

LEMMA CutTooLong ==
    ASSUME NEW chs \in Seq(Chunks), NEW tr \in Trailers, NEW from, NEW z \in Nat,
           \/ \E i \in 1 .. Len(chs) + 1 : from = Off(chs, i)
           \/ LineStart(chs, tr, from),
           \A k \in from + 1 .. z : Whole(chs, tr)[k] # "LF", z - from > max_line_bytes
    PROVE  Disputed(chs, tr)
  <1> DEFINE w == Whole(chs, tr)
             m == max_line_bytes
  <1>1. m \in Nat /\ m >= 2 /\ z - from > m /\ \A k \in from + 1 .. z : w[k] # "LF"
    BY BodyAssumption
  <1>2. ASSUME NEW i \in 1 .. Len(chs), from = Off(chs, i) PROVE Disputed(chs, tr)
    <2> DEFINE l == Len(chs[i].line)
               x == SizeLine(chs[i])
    <2>1. l \in Nat /\ from \in Nat /\ w[from + l + 2] = "LF"
      BY <1>2, ChunkPlace, ZenonT(60)
    <2>2. DOMAIN x = 1 .. l + 2 /\ Len(x) = l + 2 /\ \A k \in 1 .. l + 2 : x[k] = w[from + k]
      BY <1>2, SizeLineAt, Zenon
    <2> HIDE DEF w, m, l, x
    <2>3. ~(from + l + 2 \in from + 1 .. z)
      BY <1>1, <2>1, Zenon
    <2>4. 1 \in 1 .. l + 2 /\ 1 + m <= l + 2
      BY <1>1, <2>1, <2>3
    <2>5. ASSUME NEW j \in 1 .. 1 + m PROVE x[j] # "LF"
      <3>1. j \in 1 .. l + 2 /\ from + j \in from + 1 .. z
        BY <1>1, <2>1, <2>4
      <3>2. QED
        BY <1>1, <2>2, <3>1, Zenon
    <2>6. TooLong(x)
      BY <2>2, <2>4, <2>5, Zenon DEF TooLong, m
    <2>7. QED
      BY <2>6, DisputedLine, Zenon DEF x
  <1>3. ASSUME from = Off(chs, Len(chs) + 1) PROVE FALSE
    <2>1. from \in Nat /\ w[from + 3] = "LF"
      BY <1>3, EndPlace, Zenon
    <2> HIDE DEF w, m
    <2>2. from + 3 \in from + 1 .. z
      BY <1>1, <2>1
    <2>3. QED
      BY <1>1, <2>1, <2>2, Zenon
  <1>4. ASSUME LineStart(chs, tr, from) PROVE Disputed(chs, tr)
    <2> DEFINE f == Off(chs, Len(chs) + 1) + 3
               t == Len(tr)
    <2>1. /\ f \in Nat /\ t \in Nat /\ w[f + t + 2] = "LF" /\ (t # 0 => w[f + t] = "LF")
          /\ from \in Nat /\ f <= from /\ from <= f + t
      BY <1>4, TrailerPlace
    <2> HIDE DEF w, m, f, t
    <2>2. ~(f + t + 2 \in from + 1 .. z) /\ (t # 0 => ~(f + t \in from + 1 .. z))
      BY <1>1, <2>1, Zenon
    <2>3. z <= f + t /\ from + m < z
      BY <1>1, <2>1, <2>2
    <2>4. TooLong(tr)
      BY <1>1, <1>4, <2>3, TrailerTooLong, Zenon DEF w, m, f, t
    <2>5. QED
      BY <2>4, DisputedLine, Zenon
  <1>5. \A i \in 1 .. Len(chs) + 1 : i \in 1 .. Len(chs) \/ i = Len(chs) + 1
    OBVIOUS
  <1>6. QED
    BY <1>2, <1>3, <1>4, <1>5, Zenon

\* While the decoder waits for more, the body is not complete.
LEMMA NeedsMore ==
    ASSUME NEW chs \in Seq(Chunks), NEW tr \in Trailers, NEW s, StreamOK(s), NEW acc, NEW p \in Nat,
           NEW i \in 1 .. Len(chs) + 1, At(chs, tr, s, acc, p, i)
    PROVE  p < Len(Whole(chs, tr)) - 1
  <1> DEFINE w == Whole(chs, tr)
             o == Off(chs, i)
             n == Len(chs)
             e == Off(chs, n + 1)
             t == Len(tr)
  <1>1. /\ e \in Nat /\ t \in Nat /\ Len(w) = e + t + 6 /\ w[e + 3] = "LF"
        /\ w[e + t + 5] = "LF"
    BY EndPlace, Zenon
  <1>2. n \in Nat /\ i \in 1 .. n + 1
    OBVIOUS
  <1>3. ASSUME i \in 1 .. n
        PROVE  LET c == chs[i]
                   l == Len(c.line)
                   d == Len(c.data)
               IN  /\ o \in Nat /\ l \in Nat /\ d \in Nat /\ w[o + l + 2] = "LF"
                   /\ o + l + d + 3 <= Len(w) - 6
                   /\ c.form = "proper" => o + l + d + 4 <= Len(w) - 6
    <2> DEFINE c == chs[i]
               l == Len(c.line)
               d == Len(c.data)
               x == Off(chs, i + 1)
    <2>1. /\ w \in Seq(Bytes) /\ o \in Nat /\ l \in Nat /\ d \in Nat /\ w[o + l + 2] = "LF"
          /\ c.form = "proper" => x = o + l + d + 4
          /\ o + l + d + 3 <= x /\ x + 6 <= Len(w) /\ x \in Nat
      BY <1>3, ChunkPlace, ZenonT(60)
    <2> DEFINE z == Len(w)
    <2>2. z \in Nat
      BY <2>1
    <2> HIDE DEF o, l, d, x, z
    <2>3. o + l + d + 3 <= z - 6 /\ (x = o + l + d + 4 => o + l + d + 4 <= z - 6)
      BY <2>1, <2>2 DEF z
    <2>4. QED
      BY <2>1, <2>3, Zenon DEF o, l, d, x, z
  <1>4. CASE InSize(chs, tr, s, acc, p, i)
    <2>1. o <= p /\ \A k \in o + 1 .. p : w[k] # "LF"
      BY <1>4, Zenon DEF InSize, InLine
    <2>2. CASE i \in 1 .. n
      <3> DEFINE l == Len(chs[i].line)
                 d == Len(chs[i].data)
      <3>1. o \in Nat /\ l \in Nat /\ d \in Nat /\ w[o + l + 2] = "LF" /\ o + l + d + 3 <= Len(w) - 6
        BY <1>3, <2>2, Zenon
      <3> HIDE DEF o, l, d, w
      <3>2. ~(o + l + 2 \in o + 1 .. p)
        BY <2>1, <3>1, Zenon
      <3>3. Len(w) \in Int
        BY <1>1
      <3>4. QED
        BY <3>1, <3>2, <3>3 DEF w
    <2>3. CASE i = n + 1
      <3>1. e <= p /\ ~(e + 3 \in e + 1 .. p)
        BY <1>1, <2>1, <2>3, Zenon
      <3> HIDE DEF w, e, t
      <3>2. QED
        BY <1>1, <3>1 DEF w
    <2>4. QED
      BY <1>2, <2>2, <2>3
  <1>5. CASE InData(chs, tr, s, acc, p, i) \/ InCrLf(chs, tr, s, acc, p, i)
    <2> DEFINE l == Len(chs[i].line)
               d == Len(chs[i].data)
    <2>1. i \in 1 .. n
      BY <1>2, <1>5 DEF InData, InCrLf
    <2>2. o \in Nat /\ l \in Nat /\ d \in Nat /\ o + l + d + 3 <= Len(w) - 6
      BY <1>3, <2>1, Zenon
    <2>3. p <= o + l + d + 3
      <3>1. CASE InData(chs, tr, s, acc, p, i)
        <4>1. s.chunk_remaining \in 1 .. d /\ p = o + l + 2 + (d - s.chunk_remaining)
          BY <3>1, Zenon DEF InData
        <4> HIDE DEF o, l, d
        <4>2. QED
          BY <2>2, <4>1
      <3>2. CASE InCrLf(chs, tr, s, acc, p, i)
        <4>1. p = o + l + 2 + d + s.crlf_seen
          BY <3>2, Zenon DEF InCrLf
        <4>2. s.crlf_seen \in {0, 1}
          BY DEF StreamOK
        <4> HIDE DEF o, l, d
        <4>3. QED
          BY <2>2, <4>1, <4>2
      <3>3. QED
        BY <1>5, <3>1, <3>2
    <2> HIDE DEF w, o, l, d
    <2>4. Len(w) \in Int
      BY <1>1
    <2>5. QED
      BY <2>2, <2>3, <2>4 DEF w
  <1>6. CASE InTrailer(chs, tr, s, acc, p, i)
    <2>1. PICK from : LineStart(chs, tr, from) /\ InLine(w, from, p, s)
      BY <1>6, Zenon DEF InTrailer
    <2>2. from \in Nat /\ from <= e + 3 + t
      BY <2>1, TrailerPlace, Zenon
    <2>3. from <= p /\ \A k \in from + 1 .. p : w[k] # "LF"
      BY <2>1, Zenon DEF InLine
    <2>4. ~(e + t + 5 \in from + 1 .. p)
      BY <1>1, <2>3, Zenon
    <2> HIDE DEF w, e, t
    <2>5. QED
      BY <1>1, <2>2, <2>3, <2>4 DEF w
  <1>7. QED
    BY <1>4, <1>5, <1>6, Zenon DEF At

----------------------------------------------------------------------------
(* TakeLine: the text of the line that ends in u.                          *)

Text(s, u) == SubSeq(Ended(s, u), 1, Len(Ended(s, u)) - 2)
Proper(s, u) == Len(Ended(s, u)) >= 2 /\ Ended(s, u)[Len(Ended(s, u)) - 1] = "CR"

Fresh(phase, remaining) == [NewStream EXCEPT !.phase = phase, !.chunk_remaining = remaining]

LEMMA FreshFields ==
    ASSUME NEW phase \in {"size_line", "data", "data_crlf", "trailer_line"}, NEW remaining \in Nat
    PROVE  LET s == Fresh(phase, remaining)
           IN  /\ StreamOK(s) /\ s.phase = phase /\ s.line_buffer = <<>>
               /\ s.chunk_remaining = remaining /\ s.crlf_seen = 0
  <1>1. <<>> \in Seq(Bytes)
    OBVIOUS
  <1>2. QED
    BY <1>1 DEF Fresh, NewStream, StreamOK

LEMMA NewStreamFields ==
    /\ StreamOK(NewStream) /\ NewStream.phase = "size_line" /\ NewStream.line_buffer = <<>>
    /\ NewStream.crlf_seen = 0
  <1>1. <<>> \in Seq(Bytes)
    OBVIOUS
  <1>2. QED
    BY <1>1 DEF NewStream, StreamOK

\* A line begins behind q, and nothing of it is read.
LEMMA LineBegins ==
    ASSUME NEW w \in Seq(Bytes), NEW q \in Nat, NEW s, s.line_buffer = <<>>
    PROVE  InLine(w, q, q, s)
  <1>1. SubSeq(w, q + 1, q) = <<>> /\ q <= q /\ \A k \in q + 1 .. q : FALSE
    OBVIOUS
  <1>2. QED
    BY <1>1, Zenon DEF InLine

\* The text is what the client sent between from and q.
Read(w, from, q, a, s, u) ==
    /\ q \in Nat /\ Ends(w, from, q) /\ Left(u) = SubSeq(w, q + 1, a)
    /\ Proper(s, u) <=> q - from >= 2 /\ w[q - 1] = "CR"
    /\ q - from >= 2 => Text(s, u) = SubSeq(w, from + 1, q - 2)
                        /\ Len(Text(s, u)) = (q - from) - 2

LEMMA TextTaken ==
    ASSUME NEW w, NEW from, NEW p, NEW a, NEW s, NEW u, Ending(w, from, p, a, s, u)
    PROVE  Stop(p, u) \in p + 1 .. a /\ Read(w, from, Stop(p, u), a, s, u)
  <1>0. /\ w \in Seq(Bytes) /\ p \in Nat /\ a \in Nat /\ p <= a /\ a <= Len(w)
        /\ InLine(w, from, p, s) /\ u = SubSeq(w, p + 1, a)
    BY Zenon DEF Ending, Reading
  <1> DEFINE q == Stop(p, u)
  <1>1. /\ q \in p + 1 .. a /\ Ends(w, from, q)
        /\ Ended(s, u) = SubSeq(w, from + 1, q) /\ Left(u) = SubSeq(w, q + 1, a)
    <2>1. Takes(w, from, p, a, s, u)
      BY LineTaken, Zenon
    <2>2. QED
      BY <2>1, Zenon DEF Takes
  <1> HIDE DEF q
  <1>2. from \in Nat /\ q \in Nat /\ from < q /\ q <= Len(w)
    <2>1. from \in Nat /\ from < q
      BY <1>1, Zenon DEF Ends
    <2>2. QED
      BY <1>0, <1>1, <2>1
  <1> DEFINE e == Ended(s, u)
  <1>3. /\ Len(e) = q - from
        /\ q - from >= 2 => /\ e[Len(e) - 1] = w[q - 1]
                            /\ SubSeq(e, 1, Len(e) - 2) = SubSeq(w, from + 1, q - 2)
    <2> DEFINE e2 == SubSeq(w, from + 1, q)
    <2>1. /\ Len(e2) = q - from
          /\ q - from >= 2 => /\ e2[Len(e2) - 1] = w[q - 1]
                              /\ SubSeq(e2, 1, Len(e2) - 2) = SubSeq(w, from + 1, q - 2)
      BY <1>0, <1>2, LineText, Zenon
    <2>2. e = e2
      BY <1>1, Zenon
    <2> HIDE DEF e, e2
    <2>3. QED
      BY <2>1, <2>2, Zenon
  <1>4. ASSUME q - from >= 2 PROVE Len(SubSeq(w, from + 1, q - 2)) = (q - from) - 2
    <2> DEFINE to == q - 2
    <2>1. to \in Nat /\ from <= to /\ to <= Len(w) /\ to - from = (q - from) - 2
      BY <1>0, <1>2, <1>4
    <2> HIDE DEF to
    <2>2. Len(SubSeq(w, from + 1, to)) = to - from
      BY <1>0, <1>2, <2>1, SubSeqAt
    <2>3. QED
      BY <2>1, <2>2, Zenon DEF to
  <1> HIDE DEF e
  <1>5. QED
    BY <1>1, <1>2, <1>3, <1>4, Zenon DEF Read, Proper, Text, e, q

LEMMA ReadsAt ==
    ASSUME NEW chs, NEW tr, NEW a \in Nat, a <= Len(Whole(chs, tr)), NEW s, StreamOK(s), NEW acc,
           AccOK(acc), NEW p \in 0 .. a, Len(finish(acc)) <= p, NEW i \in 1 .. Len(chs) + 1,
           At(chs, tr, s, acc, p, i)
    PROVE  Reads(chs, tr, a, SubSeq(Whole(chs, tr), p + 1, a), s, acc)
  BY Zenon DEF Reads

\* Before the line of a size.
LEMMA SizeTaken ==
    ASSUME NEW chs \in Seq(Chunks), NEW tr \in Trailers, NEW s, StreamOK(s), NEW acc, AccOK(acc),
           NEW a \in Nat, a <= Len(Whole(chs, tr)), NEW p \in 0 .. a, Len(finish(acc)) <= p,
           NEW u, u = SubSeq(Whole(chs, tr), p + 1, a), Feeds(u) # {},
           NEW i \in 1 .. Len(chs) + 1, \A j \in 1 .. i - 1 : Clean(chs[j]),
           InSize(chs, tr, s, acc, p, i)
    PROVE  LET size == chunk_size(Text(s, u))
           IN  /\ ~Proper(s, u) => Disputed(chs, tr)
               /\ Proper(s, u) /\ size = NoSize => \E j \in 1 .. Len(chs) : chs[j].form # "proper"
               /\ Proper(s, u) /\ size = 0 =>
                    Reads(chs, tr, a, Left(u), Fresh("trailer_line", 0), acc)
               /\ Proper(s, u) /\ size > 0 =>
                    Reads(chs, tr, a, Left(u), Fresh("data", size), acc)
  <1> DEFINE w == Whole(chs, tr)
             o == Off(chs, i)
             n == Len(chs)
             g == finish(acc)
             size == chunk_size(Text(s, u))
  <1>1. w \in Seq(Bytes) /\ p \in Nat /\ p <= a /\ n \in Nat /\ i \in 1 .. n + 1 /\ o \in Nat
    <2>1. w \in Seq(Bytes) /\ o \in Nat
      BY Layout, Zenon
    <2>2. QED
      BY <2>1
  <1>2. g = Got(chs, i) /\ InLine(w, o, p, s)
    BY Zenon DEF InSize
  <1> DEFINE q == Stop(p, u)
  <1>3. /\ q \in p + 1 .. a /\ Ends(w, o, q) /\ Left(u) = SubSeq(w, q + 1, a)
        /\ Proper(s, u) <=> q - o >= 2 /\ w[q - 1] = "CR"
        /\ q - o >= 2 => Text(s, u) = SubSeq(w, o + 1, q - 2)
                         /\ Len(Text(s, u)) = (q - o) - 2
    <2>1. Ending(w, o, p, a, s, u)
      BY <1>1, <1>2, Zenon DEF Ending, Reading
    <2>2. q \in p + 1 .. a /\ Read(w, o, q, a, s, u)
      BY <2>1, TextTaken, Zenon
    <2>3. QED
      BY <2>2, Zenon DEF Read
  <1> HIDE DEF q
  <1>4. q \in 0 .. a /\ q \in Nat
    BY <1>1, <1>3
  <1>5. Len(g) <= q
    <2>1. g \in Seq(Bytes)
      BY Accumulated, Zenon
    <2> HIDE DEF g
    <2>2. Len(g) \in Nat /\ Len(g) <= p
      BY <2>1 DEF g
    <2>3. QED
      BY <1>3, <1>4, <2>2
  <1>6. CASE i \in 1 .. n
    <2> DEFINE c == chs[i]
               l == Len(c.line)
               d == Len(c.data)
               s2 == Fresh("data", d)
    <2>1. \/ q = o + l + 2 /\ q - o >= 2 /\ w[q - 1] = "CR" /\ SubSeq(w, o + 1, q - 2) = c.line
             /\ ~BareLf(SizeLine(c))
          \/ (q - o < 2 \/ w[q - 1] # "CR") /\ BareLf(SizeLine(c))
      BY <1>3, <1>6, SizeLineEnds, Zenon
    <2>2. CASE (q - o < 2 \/ w[q - 1] # "CR") /\ BareLf(SizeLine(c))
      <3>1. ~(q - o >= 2 /\ w[q - 1] = "CR")
        BY <1>1, <1>4, <2>2
      <3>2. Disputed(chs, tr)
        BY <1>6, <2>2, DisputedLine, Zenon
      <3>3. QED
        BY <1>3, <3>1, <3>2, Zenon
    <2>3. CASE /\ q = o + l + 2 /\ q - o >= 2 /\ w[q - 1] = "CR" /\ SubSeq(w, o + 1, q - 2) = c.line
               /\ ~BareLf(SizeLine(c))
      <3>1. Text(s, u) = c.line /\ Proper(s, u)
        BY <1>3, <2>3, Zenon
      <3>2. /\ c \in Chunks /\ c.data \in Seq(Bytes) /\ d \in Nat
            /\ c.form = "no_size" => chunk_size(c.line) = NoSize
            /\ c.form # "no_size" => chunk_size(c.line) = d /\ d > 0
        BY <1>6, ChunkPlace, ChunkFacts, Zenon
      <3>3. CASE c.form = "no_size"
        <4>1. size = NoSize /\ c.form # "proper"
          BY <3>1, <3>2, <3>3, FormFacts, Zenon
        <4>2. size # 0 /\ ~(size > 0)
          BY <4>1 DEF NoSize
        <4>3. QED
          BY <1>6, <3>1, <4>1, <4>2, Zenon
      <3>4. CASE c.form # "no_size"
        <4>1. size = d /\ d > 0
          BY <3>1, <3>2, <3>4, Zenon
        <4> HIDE DEF size, d
        <4>2. d # NoSize /\ d # 0 /\ d \in 1 .. d /\ d - d = 0 /\ o + l + 2 + 0 = q
          <5>1. l \in Nat
            BY <1>6, ChunkPlace, ZenonT(60)
          <5> HIDE DEF l, o
          <5>2. QED
            BY <1>1, <2>3, <3>2, <4>1, <5>1 DEF NoSize
        <4>3. /\ StreamOK(s2) /\ s2.phase = "data" /\ s2.line_buffer = <<>>
              /\ s2.chunk_remaining = d /\ s2.crlf_seen = 0
          BY <3>2, FreshFields DEF d
        <4>4. g = Got(chs, i) \o SubSeq(c.data, 1, 0)
          <5>1. Got(chs, i) \in Seq(Bytes)
            BY GotFacts, Zenon
          <5>2. SubSeq(c.data, 1, 0) = <<>>
            BY <3>2
          <5>3. Got(chs, i) \o <<>> = Got(chs, i)
            BY <5>1, ConcatEmptySeq
          <5>4. QED
            BY <1>2, <5>2, <5>3, Zenon
        <4>5. i <= Len(chs)
          BY <1>6
        <4> HIDE DEF s2, g
        <4>6. InData(chs, tr, s2, acc, q, i)
          BY <2>3, <3>4, <4>2, <4>3, <4>4, <4>5, Zenon DEF InData, d, o, l, g
        <4>7. At(chs, tr, s2, acc, q, i)
          BY <4>6, Zenon DEF At
        <4>8. Reads(chs, tr, a, SubSeq(w, q + 1, a), s2, acc)
          BY <1>4, <1>5, <4>3, <4>7, ReadsAt, Zenon DEF g
        <4>9. QED
          BY <1>3, <3>1, <4>1, <4>2, <4>8, Zenon DEF s2, size
      <3>5. QED
        BY <3>3, <3>4
    <2>4. QED
      BY <2>1, <2>2, <2>3, Zenon
  <1>7. CASE i = n + 1
    <2> DEFINE s2 == Fresh("trailer_line", 0)
    <2>1. q = o + 3 /\ q - o >= 2 /\ w[q - 1] = "CR" /\ SubSeq(w, o + 1, q - 2) = <<"0">>
      <3>1. Ends(Whole(chs, tr), Off(chs, Len(chs) + 1), q)
        BY <1>3, <1>7, Zenon
      <3>2. QED
        BY <1>7, <3>1, LastLineEnds, Zenon
    <2>2. Text(s, u) = <<"0">> /\ Proper(s, u)
      BY <1>3, <2>1, Zenon
    <2>3. size = 0
      BY <2>2, LastSize, Zenon
    <2>4. /\ StreamOK(s2) /\ s2.phase = "trailer_line" /\ s2.line_buffer = <<>>
      <3>1. 0 \in Nat
        OBVIOUS
      <3>2. QED
        BY <3>1, FreshFields
    <2>5. LineStart(chs, tr, q)
      <3>1. Len(tr) \in Nat
        BY TrailerFacts, Zenon
      <3>2. q \in o + 3 .. (o + 3) + Len(tr)
        <4>1. o \in Nat /\ q = o + 3
          BY <1>1, <2>1, Zenon
        <4> HIDE DEF o
        <4>2. QED
          BY <3>1, <4>1
      <3>3. \A k \in 1 .. q - (o + 3) : FALSE
        <4>1. o \in Nat /\ q = o + 3
          BY <1>1, <2>1, Zenon
        <4> HIDE DEF o
        <4>2. QED
          BY <4>1
      <3>4. QED
        BY <1>7, <2>1, <3>2, <3>3, Zenon DEF LineStart
    <2>6. InLine(w, q, q, s2)
      BY <1>1, <1>4, <2>4, LineBegins, Zenon
    <2> HIDE DEF s2
    <2>7. InTrailer(chs, tr, s2, acc, q, i)
      BY <1>2, <1>4, <1>7, <2>4, <2>5, <2>6, Zenon DEF InTrailer
    <2>8. At(chs, tr, s2, acc, q, i)
      BY <2>7, Zenon DEF At
    <2>9. Reads(chs, tr, a, SubSeq(w, q + 1, a), s2, acc)
      BY <1>4, <1>5, <2>4, <2>8, ReadsAt, Zenon
    <2>10. size # NoSize /\ ~(size > 0)
      BY <2>3 DEF NoSize
    <2>11. QED
      BY <1>3, <2>2, <2>3, <2>9, <2>10, Zenon DEF s2
  <1>8. i \in 1 .. n \/ i = n + 1
    OBVIOUS
  <1>9. QED
    BY <1>6, <1>7, <1>8, Zenon

\* Before a line of the trailer, or the empty line behind it.
AfterTrailerLine(chs, tr, a, s, u, acc) ==
    /\ ~Proper(s, u) => Disputed(chs, tr)
    /\ Proper(s, u) /\ Len(Text(s, u)) > max_line_bytes => Disputed(chs, tr)
    /\ Proper(s, u) /\ Text(s, u) = <<>> =>
         /\ (\A j \in 1 .. Len(chs) : Clean(chs[j])) /\ ~BareLf(tr)
         /\ finish(acc) = Got(chs, Len(chs) + 1)
         /\ a - Len(Left(u)) = Len(Whole(chs, tr)) - 1
    /\ Proper(s, u) /\ Len(Text(s, u)) > 0 =>
         Reads(chs, tr, a, Left(u), Fresh("trailer_line", 0), acc)

LEMMA TrailerTaken ==
    ASSUME NEW chs \in Seq(Chunks), NEW tr \in Trailers, NEW s, StreamOK(s), NEW acc, AccOK(acc),
           NEW a \in Nat, a <= Len(Whole(chs, tr)), NEW p \in 0 .. a, Len(finish(acc)) <= p,
           NEW u, u = SubSeq(Whole(chs, tr), p + 1, a), Feeds(u) # {},
           NEW i \in 1 .. Len(chs) + 1, \A j \in 1 .. i - 1 : Clean(chs[j]),
           InTrailer(chs, tr, s, acc, p, i)
    PROVE  AfterTrailerLine(chs, tr, a, s, u, acc)
  <1> DEFINE w == Whole(chs, tr)
             n == Len(chs)
             g == finish(acc)
             x == Text(s, u)
             z == Len(x)
             s2 == Fresh("trailer_line", 0)
  <1>1. w \in Seq(Bytes) /\ p \in Nat /\ p <= a /\ n \in Nat
    <2>1. w \in Seq(Bytes)
      BY Layout, Zenon
    <2>2. QED
      BY <2>1
  <1>2. /\ g = Got(chs, i) /\ i = n + 1
        /\ \E from \in Nat : LineStart(chs, tr, from) /\ InLine(w, from, p, s)
    BY Zenon DEF InTrailer
  <1>3. PICK from \in Nat : LineStart(chs, tr, from) /\ InLine(w, from, p, s)
    BY <1>2, Zenon
  <1> DEFINE q == Stop(p, u)
  <1>4. /\ q \in p + 1 .. a /\ Ends(w, from, q) /\ Left(u) = SubSeq(w, q + 1, a)
        /\ Proper(s, u) <=> q - from >= 2 /\ w[q - 1] = "CR"
        /\ q - from >= 2 => z = (q - from) - 2
    <2>1. Ending(w, from, p, a, s, u)
      BY <1>1, <1>3, Zenon DEF Ending, Reading
    <2>2. q \in p + 1 .. a /\ Read(w, from, q, a, s, u)
      BY <2>1, TextTaken, Zenon
    <2>3. QED
      BY <2>2, Zenon DEF Read
  <1> HIDE DEF q
  <1>5. q \in 0 .. a /\ q \in Nat /\ q <= a
    BY <1>1, <1>4
  <1>6. Len(g) <= q
    <2>1. g \in Seq(Bytes)
      BY Accumulated, Zenon
    <2> HIDE DEF g
    <2>2. Len(g) \in Nat /\ Len(g) <= p
      BY <2>1 DEF g
    <2>3. QED
      BY <1>4, <1>5, <2>2
  <1>7. \/ ~(q - from >= 2 /\ w[q - 1] = "CR") /\ BareLf(tr)
        \/ (q - from >= 2 /\ w[q - 1] = "CR") /\ q - from = 2 /\ q = Len(w) - 1
           /\ ~BareLf(tr)
        \/ /\ q - from >= 2 /\ w[q - 1] = "CR" /\ q - from > 2 /\ LineStart(chs, tr, q)
           /\ (q - from) - 2 > max_line_bytes => TooLong(tr)
    BY <1>3, <1>4, TrailerLineEnds, Zenon
  <1>8. CASE ~Proper(s, u)
    <2>1. BareLf(tr)
      BY <1>4, <1>7, <1>8, Zenon
    <2>2. QED
      BY <1>8, <2>1, DisputedLine, Zenon DEF AfterTrailerLine
  <1>9. CASE Proper(s, u) /\ q - from = 2 /\ q = Len(w) - 1 /\ ~BareLf(tr)
    <2>1. z = 0 /\ ~(z > 0) /\ ~(z > max_line_bytes)
      <3>1. z = (q - from) - 2 /\ max_line_bytes \in Nat
        BY <1>4, <1>9, BodyAssumption, Zenon
      <3> HIDE DEF z
      <3>2. QED
        BY <1>5, <1>9, <3>1
    <2>2. \A j \in 1 .. n : Clean(chs[j])
      <3>1. i - 1 = n
        BY <1>1, <1>2
      <3>2. QED
        BY <3>1, Zenon
    <2>3. a - Len(Left(u)) = Len(w) - 1
      <3>1. Len(SubSeq(w, q + 1, a)) = a - q
        BY <1>1, <1>5, SubSeqAt
      <3>2. Len(Left(u)) = a - q
        BY <1>4, <3>1, Zenon
      <3>3. a - (a - q) = q
        BY <1>5
      <3>4. QED
        BY <1>9, <3>2, <3>3, Zenon
    <2>4. QED
      BY <1>2, <1>9, <2>1, <2>2, <2>3, Zenon DEF AfterTrailerLine
  <1>10. CASE /\ Proper(s, u) /\ q - from > 2 /\ LineStart(chs, tr, q)
              /\ (q - from) - 2 > max_line_bytes => TooLong(tr)
    <2>1. z = (q - from) - 2 /\ z # 0
      <3>1. z = (q - from) - 2
        BY <1>4, <1>10, Zenon
      <3> HIDE DEF z
      <3>2. QED
        BY <1>5, <1>10, <3>1
    <2>2. x # <<>>
      <3>1. Len(<<>>) = 0
        OBVIOUS
      <3>2. QED
        BY <2>1, <3>1, Zenon
    <2>3. z > max_line_bytes => Disputed(chs, tr)
      BY <1>10, <2>1, DisputedLine, Zenon
    <2>4. StreamOK(s2) /\ s2.phase = "trailer_line" /\ s2.line_buffer = <<>>
      <3>1. 0 \in Nat
        OBVIOUS
      <3>2. QED
        BY <3>1, FreshFields
    <2>5. InLine(w, q, q, s2)
      BY <1>1, <1>5, <2>4, LineBegins, Zenon
    <2> HIDE DEF s2
    <2>6. InTrailer(chs, tr, s2, acc, q, i)
      BY <1>2, <1>5, <1>10, <2>4, <2>5, Zenon DEF InTrailer
    <2>7. At(chs, tr, s2, acc, q, i)
      BY <2>6, Zenon DEF At
    <2>8. Reads(chs, tr, a, SubSeq(w, q + 1, a), s2, acc)
      BY <1>5, <1>6, <2>4, <2>7, ReadsAt, Zenon
    <2>9. QED
      BY <1>4, <1>10, <2>2, <2>3, <2>8, Zenon DEF s2, AfterTrailerLine
  <1>11. QED
    BY <1>4, <1>7, <1>8, <1>9, <1>10, Zenon

\* TakePartOfLine.
LEMMA PartTaken ==
    ASSUME NEW chs \in Seq(Chunks), NEW tr \in Trailers, NEW s, StreamOK(s), NEW acc, AccOK(acc),
           NEW a \in Nat, a <= Len(Whole(chs, tr)), NEW p \in 0 .. a, Len(finish(acc)) <= p,
           NEW u, u = SubSeq(Whole(chs, tr), p + 1, a), Feeds(u) = {},
           NEW i \in 1 .. Len(chs) + 1, \A j \in 1 .. i - 1 : Clean(chs[j]),
           InSize(chs, tr, s, acc, p, i) \/ InTrailer(chs, tr, s, acc, p, i)
    PROVE  LET line == longer_line(s.line_buffer, u)
           IN  /\ Len(line) > max_line_bytes => Disputed(chs, tr)
               /\ Reads(chs, tr, a, <<>>, [s EXCEPT !.line_buffer = line], acc)
  <1> DEFINE w == Whole(chs, tr)
             g == finish(acc)
             line == longer_line(s.line_buffer, u)
             s2 == [s EXCEPT !.line_buffer = line]
  <1>1. w \in Seq(Bytes) /\ p \in Nat /\ p <= a /\ a \in 0 .. a
    <2>1. w \in Seq(Bytes)
      BY Layout, Zenon
    <2>2. QED
      BY <2>1
  <1>2. Len(g) <= a
    <2>1. g \in Seq(Bytes)
      BY Accumulated, Zenon
    <2> HIDE DEF g
    <2>2. Len(g) \in Nat /\ Len(g) <= p
      BY <2>1 DEF g
    <2>3. QED
      BY <1>1, <2>2
  <1>3. ASSUME NEW from, InLine(w, from, p, s)
        PROVE  /\ InLine(w, from, a, s2) /\ Len(line) = a - from /\ from \in Nat
               /\ \A k \in from + 1 .. a : w[k] # "LF"
               /\ StreamOK(s2) /\ s2.phase = s.phase /\ s2.crlf_seen = s.crlf_seen
    <2>1. Reading(w, from, p, a, s, u)
      BY <1>1, <1>3, Zenon DEF Reading
    <2>2. /\ line = SubSeq(w, from + 1, a) /\ from \in Nat /\ from <= a
          /\ \A k \in from + 1 .. a : w[k] # "LF"
      BY <2>1, LineCut
    <2>3. line \in Seq(Bytes) /\ Len(line) = a - from
      <3>1. SubSeq(w, from + 1, a) \in Seq(Bytes) /\ Len(SubSeq(w, from + 1, a)) = a - from
        BY <1>1, <2>2, SubSeqAt, SMTT(60)
      <3>2. QED
        BY <2>2, <3>1, Zenon
    <2>4. /\ s2.line_buffer = line /\ s2.phase = s.phase /\ s2.crlf_seen = s.crlf_seen
          /\ StreamOK(s2)
      <3> HIDE DEF line
      <3>1. QED
        BY <2>3 DEF StreamOK
    <2> HIDE DEF s2, line
    <2>5. InLine(w, from, a, s2)
      BY <2>2, <2>4, Zenon DEF InLine
    <2>6. QED
      BY <2>2, <2>3, <2>4, <2>5, Zenon
  <1>4. SubSeq(w, a + 1, a) = <<>>
    BY <1>1
  <1> HIDE DEF s2, line
  <1>5. CASE InSize(chs, tr, s, acc, p, i)
    <2> DEFINE o == Off(chs, i)
    <2>1. s.phase = "size_line" /\ s.crlf_seen = 0 /\ g = Got(chs, i) /\ InLine(w, o, p, s)
      BY <1>5, Zenon DEF InSize
    <2>2. /\ InLine(w, o, a, s2) /\ Len(line) = a - o /\ \A k \in o + 1 .. a : w[k] # "LF"
          /\ StreamOK(s2) /\ s2.phase = s.phase /\ s2.crlf_seen = s.crlf_seen
      BY <1>3, <2>1
    <2>3. Len(line) > max_line_bytes => Disputed(chs, tr)
      BY <2>2, CutTooLong, Zenon
    <2>4. InSize(chs, tr, s2, acc, a, i)
      BY <2>1, <2>2, Zenon DEF InSize
    <2>5. At(chs, tr, s2, acc, a, i)
      BY <2>4, Zenon DEF At
    <2>6. Reads(chs, tr, a, SubSeq(w, a + 1, a), s2, acc)
      BY <1>1, <1>2, <2>2, <2>5, ReadsAt, Zenon
    <2>7. QED
      BY <1>4, <2>3, <2>6, Zenon DEF s2, line
  <1>6. CASE InTrailer(chs, tr, s, acc, p, i)
    <2>1. /\ s.phase = "trailer_line" /\ g = Got(chs, i) /\ i = Len(chs) + 1
          /\ \E from \in Nat : LineStart(chs, tr, from) /\ InLine(w, from, p, s)
      BY <1>6, Zenon DEF InTrailer
    <2>2. PICK from \in Nat : LineStart(chs, tr, from) /\ InLine(w, from, p, s)
      BY <2>1, Zenon
    <2>3. /\ InLine(w, from, a, s2) /\ Len(line) = a - from /\ \A k \in from + 1 .. a : w[k] # "LF"
          /\ StreamOK(s2) /\ s2.phase = s.phase
      BY <1>3, <2>2
    <2>4. Len(line) > max_line_bytes => Disputed(chs, tr)
      BY <2>2, <2>3, CutTooLong, Zenon
    <2>5. InTrailer(chs, tr, s2, acc, a, i)
      BY <2>1, <2>2, <2>3, Zenon DEF InTrailer
    <2>6. At(chs, tr, s2, acc, a, i)
      BY <2>5, Zenon DEF At
    <2>7. Reads(chs, tr, a, SubSeq(w, a + 1, a), s2, acc)
      BY <1>1, <1>2, <2>3, <2>6, ReadsAt, Zenon
    <2>8. QED
      BY <1>4, <2>4, <2>7, Zenon DEF s2, line
  <1>7. QED
    BY <1>5, <1>6

\* TakeData.  The numbers: t of the last r of d bytes are taken, with p of a bytes read before.
Taken(o, l, d, r, a, p, t) ==
    /\ o \in Nat /\ l \in Nat /\ d \in Nat /\ r \in 1 .. d /\ a \in Nat /\ p \in 0 .. a
    /\ p = o + l + 2 + (d - r) /\ t \in {r, a - p} /\ t <= r /\ t <= a - p

Leaves(o, l, d, r, a, p, t) ==
    /\ t \in Nat /\ p + t \in 0 .. a /\ p + t \in Nat /\ p <= p + t /\ p + t <= a /\ t <= a - p
    /\ d - r \in Nat /\ (d - r) + t <= d /\ o + l + 2 \in Nat /\ (o + l + 2) + (d - r) = p
    /\ r - t \in Nat /\ d - (r - t) = (d - r) + t
    /\ p + t = o + l + 2 + (d - (r - t))
    /\ r # t => r - t \in 1 .. d
    /\ r = t => (d - r) + t = d /\ p + t = o + l + 2 + d + 0

LEMMA TakenLeaves ==
    ASSUME NEW o, NEW l, NEW d, NEW r, NEW a, NEW p, NEW t, Taken(o, l, d, r, a, p, t)
    PROVE  Leaves(o, l, d, r, a, p, t)
  BY DEF Taken, Leaves

\* The bytes: data is in w behind b, m bytes of it have been taken behind y, and t more are.
Grown(w, data, b, m, t, y) ==
    LET h == SubSeq(w, (b + m) + 1, (b + m) + t)
    IN  /\ (y \o SubSeq(data, 1, m)) \o h = y \o SubSeq(data, 1, m + t)
        /\ h \in Seq(Bytes) /\ Len(h) = t

LEMMA ConcatAssoc ==
    \A x, y, z \in Seq(Bytes) : (x \o y) \o z = x \o (y \o z)
  BY ConcatAssociative

LEMMA DataGrows ==
    ASSUME NEW w \in Seq(Bytes), NEW data \in Seq(Bytes), NEW b \in Nat, NEW m \in Nat, NEW t \in Nat,
           m + t <= Len(data), b + m + t <= Len(w), \A j \in 1 .. Len(data) : w[b + j] = data[j],
           NEW y \in Seq(Bytes)
    PROVE  Grown(w, data, b, m, t, y)
  <1> DEFINE p == b + m
             q == p + t
             k == m + t
             h == SubSeq(w, p + 1, q)
             v == SubSeq(data, m + 1, k)
             e == SubSeq(data, 1, m)
             f == SubSeq(data, 1, k)
  <1>1. /\ p \in Nat /\ q \in Nat /\ k \in Nat /\ p <= q /\ q <= Len(w) /\ m <= k /\ k <= Len(data)
        /\ q - p = t /\ k - m = t /\ m <= Len(data)
        /\ \A j \in 1 .. t : m + j \in 1 .. Len(data) /\ b + (m + j) = p + j
    OBVIOUS
  <1> HIDE DEF p, q, k
  <1>2. h \in Seq(Bytes) /\ Len(h) = t /\ \A j \in 1 .. t : h[j] = w[p + j]
    <2>1. /\ SubSeq(w, p + 1, q) \in Seq(Bytes) /\ Len(SubSeq(w, p + 1, q)) = q - p
          /\ \A j \in 1 .. q - p : SubSeq(w, p + 1, q)[j] = w[p + j]
      BY <1>1, SubSeqAt, SMTT(60)
    <2>2. QED
      BY <1>1, <2>1, Zenon
  <1>3. v \in Seq(Bytes) /\ Len(v) = t /\ \A j \in 1 .. t : v[j] = data[m + j]
    <2>1. /\ SubSeq(data, m + 1, k) \in Seq(Bytes) /\ Len(SubSeq(data, m + 1, k)) = k - m
          /\ \A j \in 1 .. k - m : SubSeq(data, m + 1, k)[j] = data[m + j]
      BY <1>1, SubSeqAt
    <2>2. QED
      BY <1>1, <2>1, Zenon
  <1>4. e \in Seq(Bytes)
    BY <1>1, PrefixAt
  <1>5. e \o v = f
    <2>1. 1 \in 1 .. Len(data) + 1 /\ m \in 1 - 1 .. Len(data) /\ k \in m .. Len(data)
      BY <1>1
    <2>2. QED
      BY <2>1, ConcatAdjacentSubSeq
  <1> HIDE DEF h, v, e, f
  <1>6. \A j \in 1 .. t : h[j] = v[j]
    <2>1. \A j \in 1 .. t : h[j] = w[b + (m + j)]
      BY <1>1, <1>2, Zenon
    <2>2. QED
      BY <1>1, <1>3, <2>1, Zenon
  <1>7. h = v
    BY <1>2, <1>3, <1>6, SeqEqual
  <1>8. (y \o e) \o h = y \o (e \o h)
    BY <1>2, <1>4, ConcatAssoc, Zenon
  <1>9. QED
    BY <1>2, <1>5, <1>7, <1>8, Zenon DEF h, e, f, p, q, k, Grown

LEMMA DataTaken ==
    ASSUME NEW chs \in Seq(Chunks), NEW tr \in Trailers, NEW s, StreamOK(s), NEW acc, AccOK(acc),
           NEW a \in Nat, a <= Len(Whole(chs, tr)), NEW p \in 0 .. a, Len(finish(acc)) <= p,
           NEW u, u = SubSeq(Whole(chs, tr), p + 1, a),
           NEW i \in 1 .. Len(chs) + 1, \A j \in 1 .. i - 1 : Clean(chs[j]),
           InData(chs, tr, s, acc, p, i),
           NEW t, t = Min({s.chunk_remaining, Len(u)})
    PROVE  /\ t \in Nat /\ size_of(acc) + t <= a
           /\ Reads(chs, tr, a, SubSeq(u, t + 1, Len(u)),
                    [s EXCEPT !.chunk_remaining = @ - t,
                              !.phase = IF s.chunk_remaining = t THEN "data_crlf" ELSE "data"],
                    append(acc, SubSeq(u, 1, t)))
  <1> DEFINE w == Whole(chs, tr)
             o == Off(chs, i)
             c == chs[i]
             l == Len(c.line)
             d == Len(c.data)
             r == s.chunk_remaining
             g == finish(acc)
             q == p + t
             h == SubSeq(u, 1, t)
             acc2 == append(acc, h)
             s2 == [s EXCEPT !.chunk_remaining = @ - t,
                             !.phase = IF s.chunk_remaining = t THEN "data_crlf" ELSE "data"]
             b == o + l + 2
             m == d - r
             y == Len(g)
  <1>1. /\ i <= Len(chs) /\ c.form # "no_size" /\ ~BareLf(SizeLine(c))
        /\ s.phase = "data" /\ s.line_buffer = <<>>
        /\ s.crlf_seen = 0 /\ r \in 1 .. d /\ p = o + l + 2 + (d - r)
        /\ g = Got(chs, i) \o SubSeq(c.data, 1, d - r)
    BY Zenon DEF InData
  <1>2. i \in 1 .. Len(chs)
    BY <1>1
  <1>3. /\ w \in Seq(Bytes) /\ o \in Nat /\ l \in Nat /\ d \in Nat /\ c \in Chunks
        /\ \A j \in 1 .. d : w[o + l + 2 + j] = c.data[j]
    BY <1>2, ChunkPlace, ZenonT(60)
  <1>4. c.data \in Seq(Bytes)
    BY <1>3, ChunkFacts, Zenon
  <1>5. p \in Nat /\ p <= a /\ Len(u) = a - p /\ a - p \in Nat
    <2>1. p \in Nat /\ p <= a /\ a - p \in Nat
      OBVIOUS
    <2>2. Len(SubSeq(w, p + 1, a)) = a - p
      BY <1>3, <2>1, SubSeqAt
    <2>3. QED
      BY <2>1, <2>2, Zenon
  <1>6. Leaves(o, l, d, r, a, p, t)
    <2>1. \A x \in 1 .. d : x \in Int
      BY <1>3
    <2>2. r \in Int /\ Len(u) \in Int
      <3>1. a - p \in Int
        BY <1>5
      <3>2. QED
        BY <1>1, <1>5, <2>1, <3>1, Zenon
    <2>3. t \in {r, Len(u)} /\ t <= r /\ t <= Len(u)
      BY <2>2, MinOfTwo, Zenon
    <2>4. Taken(o, l, d, r, a, p, t)
      <3> HIDE DEF o, l, d, r
      <3>1. QED
        BY <1>1, <1>3, <1>5, <2>3, Zenon DEF Taken
    <2>5. QED
      BY <2>4, TakenLeaves, Zenon
  <1>7. /\ t \in Nat /\ q \in 0 .. a /\ q \in Nat /\ p <= q
        /\ q <= a /\ t <= a - p /\ q = p + t
        /\ m \in Nat /\ m + t <= d /\ b \in Nat /\ b + m = p
        /\ r - t \in Nat /\ d - (r - t) = m + t /\ q = o + l + 2 + (d - (r - t))
        /\ r # t => r - t \in 1 .. d
        /\ r = t => m + t = d /\ q = o + l + 2 + d + 0
    BY <1>6, Zenon DEF Leaves
  <1>8. y \in Nat /\ size_of(acc) = y /\ y <= p /\ g \in Seq(Bytes)
    BY Accumulated, Zenon
  <1> HIDE DEF q, b, m, y
  <1>9. size_of(acc) + t <= a /\ y + t <= q
    <2>1. t \in Nat /\ q = p + t /\ q <= a
      BY <1>7, Zenon
    <2>2. y \in Nat /\ y <= p /\ size_of(acc) = y
      BY <1>8, Zenon
    <2>3. QED
      BY <1>5, <2>1, <2>2
  <1>10. h = SubSeq(w, p + 1, q) /\ SubSeq(u, t + 1, Len(u)) = SubSeq(w, q + 1, a)
    <2> DEFINE u0 == SubSeq(w, p + 1, a)
    <2>1. t \in Nat /\ t <= a - p
      BY <1>7, Zenon
    <2>2. /\ SubSeq(u0, 1, t) = SubSeq(w, p + 1, p + t)
          /\ SubSeq(u0, t + 1, Len(u0)) = SubSeq(w, p + t + 1, a)
      <3>1. Splits(w, p, a, t)
        BY <1>3, <1>5, <2>1, RestOf, Zenon
      <3>2. QED
        BY <3>1, Zenon DEF Splits
    <2>3. u = u0 /\ p + t = q
      BY DEF q
    <2> HIDE DEF u0, w
    <2>4. QED
      BY <2>2, <2>3, Zenon
  <1>11. /\ g \o h = Got(chs, i) \o SubSeq(c.data, 1, m + t)
         /\ h \in Seq(Bytes) /\ Len(h) = t
    <2> DEFINE x == Got(chs, i)
    <2>1. x \in Seq(Bytes)
      BY GotFacts, Zenon
    <2>2. b + m + t <= Len(w) /\ (b + m) + t = q
      <3>1. Len(w) \in Nat /\ a <= Len(w)
        BY <1>3
      <3>2. b + m + t = q /\ q <= a /\ q \in Nat
        BY <1>7, Zenon
      <3> HIDE DEF w
      <3>3. q <= Len(w)
        BY <3>1, <3>2
      <3>4. QED
        BY <3>2, <3>3, Zenon
    <2>3. m + t <= Len(c.data) /\ \A j \in 1 .. Len(c.data) : w[b + j] = c.data[j]
      BY <1>3, <1>7, Zenon DEF b
    <2> HIDE DEF x, w
    <2>4. /\ (x \o SubSeq(c.data, 1, m)) \o SubSeq(w, (b + m) + 1, (b + m) + t)
               = x \o SubSeq(c.data, 1, m + t)
          /\ SubSeq(w, (b + m) + 1, (b + m) + t) \in Seq(Bytes)
          /\ Len(SubSeq(w, (b + m) + 1, (b + m) + t)) = t
      <3>1. Grown(w, c.data, b, m, t, x)
        BY <1>3, <1>4, <1>7, <2>1, <2>2, <2>3, DataGrows, Zenon
      <3>2. QED
        BY <3>1, Zenon DEF Grown
    <2>5. SubSeq(w, (b + m) + 1, (b + m) + t) = h
      BY <1>7, <1>10, <2>2, Zenon
    <2>6. g = x \o SubSeq(c.data, 1, m)
      BY <1>1, Zenon DEF x, m
    <2> HIDE DEF h, g
    <2>7. QED
      BY <2>4, <2>5, <2>6, Zenon DEF x
  <1>12. AccOK(acc2) /\ finish(acc2) = g \o h
    BY <1>11, Appended, Zenon
  <1>13. Len(finish(acc2)) <= q
    <2>1. Len(g \o h) = Len(g) + Len(h)
      <3>1. g \in Seq(Bytes) /\ h \in Seq(Bytes)
        BY <1>8, <1>11, Zenon
      <3> HIDE DEF g, h
      <3>2. QED
        BY <3>1
    <2>2. Len(finish(acc2)) = y + t
      BY <1>11, <1>12, <2>1, Zenon DEF y
    <2>3. QED
      BY <1>9, <2>2, Zenon
  <1>14. /\ StreamOK(s2) /\ s2.chunk_remaining = r - t /\ s2.line_buffer = <<>> /\ s2.crlf_seen = 0
         /\ s2.phase = IF r = t THEN "data_crlf" ELSE "data"
    <2> DEFINE x == r - t
    <2>1. x \in Nat /\ s2 = [s EXCEPT !.chunk_remaining = x,
                                      !.phase = IF r = t THEN "data_crlf" ELSE "data"]
      BY <1>7 DEF StreamOK
    <2> HIDE DEF x, s2
    <2>2. QED
      BY <1>1, <2>1 DEF StreamOK, x
  <1> HIDE DEF s2, acc2, g, h
  <1>15. At(chs, tr, s2, acc2, q, i)
    <2>1. CASE r = t
      <3>1. m + t = d /\ q = o + l + 2 + d + s2.crlf_seen
        BY <1>7, <1>14, <2>1, Zenon
      <3>2. finish(acc2) = Got(chs, i + 1)
        <4>1. SubSeq(c.data, 1, d) = c.data
          BY <1>4
        <4>2. Got(chs, i + 1) = Got(chs, i) \o c.data
          BY <1>2, GotFacts, Zenon
        <4>3. QED
          BY <1>11, <1>12, <3>1, <4>1, <4>2, Zenon
      <3>3. s2.crlf_seen # 1
        BY <1>14
      <3>4. InCrLf(chs, tr, s2, acc2, q, i)
        BY <1>1, <1>14, <2>1, <3>1, <3>2, <3>3, Zenon DEF InCrLf
      <3>5. QED
        BY <3>4, Zenon DEF At
    <2>2. CASE r # t
      <3>1. s2.chunk_remaining \in 1 .. d /\ q = o + l + 2 + (d - s2.chunk_remaining)
        BY <1>7, <1>14, <2>2, Zenon
      <3>2. finish(acc2) = Got(chs, i) \o SubSeq(c.data, 1, d - s2.chunk_remaining)
        BY <1>7, <1>11, <1>12, <1>14, Zenon
      <3>3. InData(chs, tr, s2, acc2, q, i)
        BY <1>1, <1>14, <2>2, <3>1, <3>2, Zenon DEF InData
      <3>4. QED
        BY <3>3, Zenon DEF At
    <2>3. QED
      BY <2>1, <2>2
  <1>16. Reads(chs, tr, a, SubSeq(w, q + 1, a), s2, acc2)
    BY <1>7, <1>12, <1>13, <1>14, <1>15, ReadsAt, Zenon
  <1>17. QED
    BY <1>7, <1>9, <1>10, <1>16, Zenon DEF s2, acc2, h

\* TakeCrLf.
LEMMA CrLfTaken ==
    ASSUME NEW chs \in Seq(Chunks), NEW tr \in Trailers, NEW s, StreamOK(s), NEW acc, AccOK(acc),
           NEW a \in Nat, a <= Len(Whole(chs, tr)), NEW p \in 0 .. a, Len(finish(acc)) <= p,
           NEW u, u = SubSeq(Whole(chs, tr), p + 1, a), u # <<>>,
           NEW i \in 1 .. Len(chs) + 1, \A j \in 1 .. i - 1 : Clean(chs[j]),
           InCrLf(chs, tr, s, acc, p, i)
    PROVE  /\ Head(u) # CrLf[s.crlf_seen + 1] => \E j \in 1 .. Len(chs) : chs[j].form # "proper"
           /\ Head(u) = CrLf[s.crlf_seen + 1] =>
                Reads(chs, tr, a, Tail(u),
                      IF s.crlf_seen = 1 THEN NewStream ELSE [s EXCEPT !.crlf_seen = 1], acc)
  <1> DEFINE w == Whole(chs, tr)
             o == Off(chs, i)
             c == chs[i]
             l == Len(c.line)
             d == Len(c.data)
             g == finish(acc)
             q == p + 1
             seen == s.crlf_seen
  <1>1. /\ i <= Len(chs) /\ c.form # "no_size" /\ ~BareLf(SizeLine(c))
        /\ s.phase = "data_crlf" /\ s.line_buffer = <<>>
        /\ p = o + l + 2 + d + seen /\ (seen = 1 => c.form = "proper") /\ g = Got(chs, i + 1)
    BY Zenon DEF InCrLf
  <1>2. i \in 1 .. Len(chs) /\ i + 1 \in 1 .. Len(chs) + 1 /\ (i + 1) - 1 = i
    BY <1>1
  <1>3. /\ w \in Seq(Bytes) /\ o \in Nat /\ l \in Nat /\ d \in Nat /\ c \in Chunks
        /\ c.form = "no_end" => w[o + l + d + 3] = "x"
        /\ c.form = "proper" => /\ w[o + l + d + 3] = "CR" /\ w[o + l + d + 4] = "LF"
                                /\ Off(chs, i + 1) = o + l + d + 4
    BY <1>2, ChunkPlace, ZenonT(60)
  <1>4. c.form = "proper" \/ (c.form = "no_end" /\ c.form # "proper")
    BY <1>1, <1>3, FormFacts, Zenon
  <1>5. seen = 0 \/ seen = 1
    BY DEF StreamOK
  <1>6. p \in Nat /\ p <= a /\ a - p \in Nat
    OBVIOUS
  <1>7. u \in Seq(Bytes) /\ Len(u) = a - p /\ \A j \in 1 .. a - p : u[j] = w[p + j]
    BY <1>3, <1>6, SubSeqAt
  <1>8. Len(u) # 0 /\ Head(u) = u[1] /\ Tail(u) = SubSeq(u, 2, Len(u))
    BY <1>7
  <1>9. 1 \in 1 .. a - p /\ 1 \in Nat /\ 1 <= a - p /\ 1 + 1 = 2 /\ q \in 0 .. a /\ q \in Nat /\ p <= q
    BY <1>6, <1>7, <1>8
  <1>10. Head(u) = w[q] /\ Tail(u) = SubSeq(w, q + 1, a)
    <2>1. Splits(w, p, a, 1)
      BY <1>3, <1>6, <1>9, RestOf, Zenon
    <2>2. SubSeq(u, 1 + 1, Len(u)) = SubSeq(w, q + 1, a)
      BY <2>1, Zenon DEF Splits
    <2>3. QED
      BY <1>7, <1>8, <1>9, <2>2, Zenon
  <1>11. Len(g) <= q
    <2>1. Len(g) \in Nat /\ Len(g) <= p
      BY Accumulated, Zenon
    <2> HIDE DEF g
    <2>2. QED
      BY <1>6, <2>1 DEF g
  <1>12. CrLf[1] = "CR" /\ CrLf[2] = "LF" /\ 0 + 1 = 1
    <2>1. 0 + 1 = 1
      OBVIOUS
    <2>2. QED
      BY <2>1, ByteFacts, Zenon
  <1> HIDE DEF w, o, l, d, g, c, seen
  <1>13. CASE seen = 0
    <2> DEFINE s2 == [s EXCEPT !.crlf_seen = 1]
    <2>1. q = o + l + d + 3 /\ q = o + l + 2 + d + 1
      <3>1. p = o + l + 2 + d + 0 /\ q = p + 1
        BY <1>1, <1>13, Zenon
      <3> HIDE DEF q
      <3>2. QED
        BY <1>3, <3>1
    <2> HIDE DEF q
    <2>2. CrLf[seen + 1] = "CR" /\ seen # 1
      BY <1>12, <1>13
    <2>3. CASE c.form = "proper"
      <3>1. Head(u) = CrLf[seen + 1]
        BY <1>3, <1>10, <2>1, <2>2, <2>3, Zenon
      <3>2. /\ StreamOK(s2) /\ s2.phase = "data_crlf" /\ s2.line_buffer = <<>> /\ s2.crlf_seen = 1
        BY <1>1 DEF StreamOK
      <3> HIDE DEF s2
      <3>3. InCrLf(chs, tr, s2, acc, q, i)
        BY <1>1, <2>1, <2>3, <3>2, Zenon DEF InCrLf, o, l, d, g, c
      <3>4. At(chs, tr, s2, acc, q, i)
        BY <3>3, Zenon DEF At
      <3>5. Reads(chs, tr, a, SubSeq(w, q + 1, a), s2, acc)
        BY <1>9, <1>11, <3>2, <3>4, ReadsAt, Zenon DEF w, g
      <3>6. QED
        BY <1>10, <2>2, <3>1, <3>5, Zenon DEF s2, seen
    <2>4. CASE c.form = "no_end" /\ c.form # "proper"
      <3>1. Head(u) = "x"
        BY <1>3, <1>10, <2>1, <2>4, Zenon
      <3>2. "x" # "CR"
        OBVIOUS
      <3>3. QED
        BY <1>2, <2>2, <2>4, <3>1, <3>2, Zenon DEF seen, c
    <2>5. QED
      BY <1>4, <2>3, <2>4, Zenon
  <1>14. CASE seen = 1
    <2> DEFINE s2 == NewStream
    <2>1. c.form = "proper" /\ CrLf[seen + 1] = "LF"
      BY <1>1, <1>12, <1>14, <1>9, Zenon
    <2>2. q = o + l + d + 4
      <3>1. p = o + l + 2 + d + 1 /\ q = p + 1
        BY <1>1, <1>14, Zenon
      <3> HIDE DEF q
      <3>2. QED
        BY <1>3, <3>1
    <2> HIDE DEF q
    <2>3. Head(u) = CrLf[seen + 1] /\ q = Off(chs, i + 1)
      BY <1>3, <1>10, <2>1, <2>2, Zenon
    <2>4. StreamOK(s2) /\ s2.phase = "size_line" /\ s2.line_buffer = <<>> /\ s2.crlf_seen = 0
      BY NewStreamFields, Zenon
    <2> HIDE DEF s2
    <2>5. InLine(w, q, q, s2)
      BY <1>3, <1>9, <2>4, LineBegins, Zenon
    <2>6. InSize(chs, tr, s2, acc, q, i + 1)
      BY <1>1, <2>3, <2>4, <2>5, Zenon DEF InSize, w, g
    <2>7. \A j \in 1 .. (i + 1) - 1 : Clean(chs[j])
      <3>1. \A j \in 1 .. i : j = i \/ j \in 1 .. i - 1
        BY <1>2
      <3>2. QED
        BY <1>1, <1>2, <2>1, <3>1, Zenon DEF Clean, c
    <2>8. At(chs, tr, s2, acc, q, i + 1)
      BY <1>2, <2>6, <2>7, Zenon DEF At
    <2>9. Reads(chs, tr, a, SubSeq(w, q + 1, a), s2, acc)
      BY <1>2, <1>9, <1>11, <2>4, <2>8, ReadsAt, Zenon DEF w, g
    <2>10. QED
      BY <1>10, <1>14, <2>3, <2>9, Zenon DEF s2, seen
  <1>15. QED
    BY <1>5, <1>13, <1>14, Zenon

----------------------------------------------------------------------------
(* The specification.                                                      *)

AsSent(chs, tr, dec, a, u, b) ==
    /\ \A j \in 1 .. Len(chs) : chs[j].form = "proper"
    /\ dec = "stream" => (\A j \in 1 .. Len(chs) : ~BareLf(SizeLine(chs[j]))) /\ ~BareLf(tr)
    /\ b = Got(chs, Len(chs) + 1) /\ a - Len(u) = Len(Whole(chs, tr)) - 1

Excused(chs, tr, dec, a) ==
    \/ (\E j \in 1 .. Len(chs) : chs[j].form # "proper") \/ a > max_body_bytes
    \/ dec = "stream" /\ Disputed(chs, tr)

Answers ==
    /\ verdict = "dispatched" => AsSent(chunks, trailer, decoder, arrived, undecoded, body)
    /\ verdict \in {"bad_request", "too_large"} => Excused(chunks, trailer, decoder, arrived)

(***************************************************************************)
(* The inductive invariant: a body that is being decoded is read up to     *)
(* some byte, and the stream and the accumulator are what that byte makes  *)
(* them (Reads); an answer is right (Answers).                             *)
(***************************************************************************)
BodyInv ==
    /\ chunks \in Seq(Chunks) /\ trailer \in Trailers /\ decoder \in {"first_look", "stream"}
    /\ verdict = "none" /\ decoder = "first_look" => stream = NewStream /\ accumulator = NewAccumulator
    /\ verdict = "none" /\ decoder = "stream" =>
         Reads(chunks, trailer, arrived, undecoded, stream, accumulator)
    /\ Answers

LEMMA EncodedWhole == encoded = Whole(chunks, trailer)
  BY Zenon DEF encoded, Whole, Parts

LEMMA InvImpliesAsSent ==
    ASSUME BodyInv
    PROVE  ChunkedBodyAsSent
  <1> DEFINE w == Whole(chunks, trailer)
  <1>1. chunks \in Seq(Chunks) /\ trailer \in Trailers /\ Answers /\ encoded = w
    BY EncodedWhole, Zenon DEF BodyInv
  <1>2. DOMAIN chunks = 1 .. Len(chunks)
    BY <1>1
  <1>3. Broken = {} <=> \A j \in 1 .. Len(chunks) : chunks[j].form = "proper"
    BY <1>2, Zenon DEF Broken
  <1>4. Debatable <=> Disputed(chunks, trailer)
    BY Zenon DEF Debatable, LinesSent, Disputed
  <1>5. Got(chunks, Len(chunks) + 1) = FlattenSeq([i \in DOMAIN chunks |-> chunks[i].data])
    BY <1>1, GotFacts, Zenon
  <1>6. ASSUME decoder = "stream", verdict = "none", undecoded = <<>>
        PROVE  arrived < Len(encoded) - 1
    <2>1. Reads(chunks, trailer, arrived, undecoded, stream, accumulator)
      BY <1>6, Zenon DEF BodyInv
    <2>2. /\ arrived \in Nat /\ arrived <= Len(w) /\ StreamOK(stream)
          /\ \E p \in 0 .. arrived :
               /\ undecoded = SubSeq(w, p + 1, arrived)
               /\ \E i \in 1 .. Len(chunks) + 1 : At(chunks, trailer, stream, accumulator, p, i)
      BY <2>1, Zenon DEF Reads
    <2>3. PICK p \in 0 .. arrived :
               /\ undecoded = SubSeq(w, p + 1, arrived)
               /\ \E i \in 1 .. Len(chunks) + 1 : At(chunks, trailer, stream, accumulator, p, i)
      BY <2>2, Zenon
    <2>4. p \in Nat /\ p <= arrived
      BY <2>2
    <2>5. p < Len(w) - 1
      BY <1>1, <2>2, <2>3, <2>4, NeedsMore, Zenon
    <2>6. Len(SubSeq(w, p + 1, arrived)) = arrived - p
      <3>1. w \in Seq(Bytes)
        BY <1>1, Layout, Zenon
      <3>2. QED
        BY <2>2, <2>4, <3>1, SubSeqAt
    <2>7. arrived - p = 0
      <3>1. Len(<<>>) = 0
        OBVIOUS
      <3>2. QED
        BY <1>6, <2>3, <2>6, <3>1, Zenon
    <2>8. p = arrived
      BY <2>2, <2>4, <2>7
    <2>9. QED
      BY <1>1, <2>5, <2>8, Zenon
  <1>7a. (\A j \in 1 .. Len(chunks) : ~BareLf(SizeLine(chunks[j]))) /\ ~BareLf(trailer) =>
           \A lines \in LinesSent : ~BareLf(lines)
    BY <1>2, Zenon DEF LinesSent
  <1>7. verdict = "dispatched" =>
          /\ Broken = {}
          /\ body = FlattenSeq([i \in DOMAIN chunks |-> chunks[i].data])
          /\ arrived - Len(undecoded) = Len(encoded) - 1
          /\ decoder = "stream" => \A lines \in LinesSent : ~BareLf(lines)
    BY <1>1, <1>3, <1>5, <1>7a, Zenon DEF Answers, AsSent
  <1>8. verdict \in {"bad_request", "too_large"} =>
          Broken # {} \/ arrived > max_body_bytes \/ (decoder = "stream" /\ Debatable)
    BY <1>1, <1>3, <1>4, Zenon DEF Answers, Excused
  <1>9. QED
    BY <1>6, <1>7, <1>8, Zenon DEF ChunkedBodyAsSent

LEMMA BodyStart ==
    ASSUME BodyInit
    PROVE  BodyInv
  <1>1. chunks \in BoundedSeq(Chunks, MaxChunks) /\ trailer \in Trailers /\ decoder = "first_look"
        /\ stream = NewStream /\ accumulator = NewAccumulator /\ verdict = "none"
    BY Zenon DEF BodyInit
  <1>2. chunks \in Seq(Chunks)
    <2>1. ASSUME NEW S, NEW k \in Nat PROVE BoundedSeq(S, k) \subseteq Seq(S)
      BY DEF BoundedSeq, SeqOf
    <2>2. QED
      BY <1>1, <2>1, BodyAssumption, Zenon
  <1>3. "first_look" # "stream" /\ "none" # "dispatched" /\ "none" \notin {"bad_request", "too_large"}
    OBVIOUS
  <1>4. QED
    BY <1>1, <1>2, <1>3, Zenon DEF BodyInv, Answers

\* The phase says which part of the body is read.
LEMMA PhaseSays ==
    ASSUME NEW chs, NEW tr, NEW s, NEW acc, NEW p, NEW i, At(chs, tr, s, acc, p, i)
    PROVE  /\ s.phase = "size_line" => InSize(chs, tr, s, acc, p, i)
           /\ s.phase = "data" => InData(chs, tr, s, acc, p, i)
           /\ s.phase = "data_crlf" => InCrLf(chs, tr, s, acc, p, i)
           /\ s.phase = "trailer_line" => InTrailer(chs, tr, s, acc, p, i)
           /\ \A j \in 1 .. i - 1 : Clean(chs[j])
  <1>1. /\ InSize(chs, tr, s, acc, p, i) => s.phase = "size_line"
        /\ InData(chs, tr, s, acc, p, i) => s.phase = "data"
        /\ InCrLf(chs, tr, s, acc, p, i) => s.phase = "data_crlf"
        /\ InTrailer(chs, tr, s, acc, p, i) => s.phase = "trailer_line"
    BY Zenon DEF InSize, InData, InCrLf, InTrailer
  <1>2. QED
    BY <1>1 DEF At

LEMMA StillReads ==
    ASSUME BodyInv, chunks' = chunks, trailer' = trailer, decoder' = "stream", verdict' = "none",
           Reads(chunks, trailer, arrived', undecoded', stream', accumulator')
    PROVE  BodyInv'
  <1>1. chunks' \in Seq(Chunks) /\ trailer' \in Trailers
    BY Zenon DEF BodyInv
  <1>2. "first_look" # "stream" /\ "none" # "dispatched" /\ "none" \notin {"bad_request", "too_large"}
    OBVIOUS
  <1>3. Reads(chunks', trailer', arrived', undecoded', stream', accumulator')
    BY Zenon
  <1>4. QED
    BY <1>1, <1>2, <1>3, Zenon DEF BodyInv, Answers

LEMMA NowAnswered ==
    ASSUME BodyInv, chunks' = chunks, trailer' = trailer, decoder' = decoder, verdict' # "none",
           verdict' = "dispatched" => AsSent(chunks, trailer, decoder, arrived', undecoded', body'),
           verdict' \in {"bad_request", "too_large"} => Excused(chunks, trailer, decoder, arrived')
    PROVE  BodyInv'
  <1>1. chunks' \in Seq(Chunks) /\ trailer' \in Trailers /\ decoder' \in {"first_look", "stream"}
    BY Zenon DEF BodyInv
  <1>2. /\ verdict' = "dispatched" => AsSent(chunks', trailer', decoder', arrived', undecoded', body')
        /\ verdict' \in {"bad_request", "too_large"} => Excused(chunks', trailer', decoder', arrived')
    BY Zenon
  <1>3. QED
    BY <1>1, <1>2, Zenon DEF BodyInv, Answers

LEMMA Refused ==
    ASSUME BodyInv, chunks' = chunks, trailer' = trailer, decoder' = decoder,
           NEW status \in {"bad_request", "too_large"}, Refuse(status),
           Excused(chunks, trailer, decoder, arrived')
    PROVE  BodyInv'
  <1>1. verdict' = status
    BY Zenon DEF Refuse
  <1>2. status # "none" /\ status # "dispatched"
    OBVIOUS
  <1>3. QED
    BY <1>1, <1>2, NowAnswered, Zenon

\* What the invariant says of a body that is decoded as it arrives.
Midway(p, i) ==
    /\ chunks \in Seq(Chunks) /\ trailer \in Trailers /\ StreamOK(stream) /\ AccOK(accumulator)
    /\ arrived \in Nat /\ arrived <= Len(Whole(chunks, trailer))
    /\ p \in 0 .. arrived /\ undecoded = SubSeq(Whole(chunks, trailer), p + 1, arrived)
    /\ Len(finish(accumulator)) <= p /\ i \in 1 .. Len(chunks) + 1
    /\ At(chunks, trailer, stream, accumulator, p, i)

LEMMA Decoding ==
    ASSUME BodyInv, decoder = "stream", verdict = "none"
    PROVE  \E p, i : Midway(p, i)
  <1>1. chunks \in Seq(Chunks) /\ trailer \in Trailers
        /\ Reads(chunks, trailer, arrived, undecoded, stream, accumulator)
    BY Zenon DEF BodyInv
  <1>2. QED
    BY <1>1, Zenon DEF Reads, Midway

LEMMA ArriveKeeps ==
    ASSUME BodyInv, NEW n \in Nat, Arrive(n)
    PROVE  BodyInv'
  <1> DEFINE w == Whole(chunks, trailer)
             b == arrived + n
  <1>1. /\ decoder = "stream" /\ verdict = "none" /\ undecoded = <<>> /\ b <= Len(w)
        /\ arrived' = b /\ undecoded' = SubSeq(w, arrived + 1, b)
        /\ chunks' = chunks /\ trailer' = trailer /\ decoder' = decoder /\ verdict' = verdict
        /\ stream' = stream /\ accumulator' = accumulator
    BY EncodedWhole, Zenon DEF Arrive, stream_vars
  <1>2. PICK p, i : Midway(p, i)
    BY <1>1, Decoding, Zenon
  <1>3. /\ chunks \in Seq(Chunks) /\ trailer \in Trailers /\ StreamOK(stream) /\ AccOK(accumulator)
        /\ arrived \in Nat /\ arrived <= Len(w) /\ p \in 0 .. arrived
        /\ undecoded = SubSeq(w, p + 1, arrived)
        /\ Len(finish(accumulator)) <= p /\ i \in 1 .. Len(chunks) + 1
        /\ At(chunks, trailer, stream, accumulator, p, i)
    BY <1>2, Zenon DEF Midway
  <1>4. p \in Nat /\ p <= arrived
    BY <1>3
  <1>5. arrived - p = 0
    <2>1. w \in Seq(Bytes)
      BY <1>3, Layout, Zenon
    <2>2. Len(SubSeq(w, p + 1, arrived)) = arrived - p
      BY <1>3, <1>4, <2>1, SubSeqAt
    <2>3. Len(<<>>) = 0
      OBVIOUS
    <2>4. QED
      BY <1>1, <1>3, <2>2, <2>3, Zenon
  <1>6. p = arrived
    BY <1>3, <1>4, <1>5
  <1>7. b \in Nat /\ arrived \in 0 .. b
    BY <1>3
  <1>8. Reads(chunks, trailer, b, SubSeq(w, arrived + 1, b), stream, accumulator)
    <2> HIDE DEF b
    <2>1. QED
      BY <1>1, <1>3, <1>6, <1>7, ReadsAt, Zenon
  <1>9. QED
    BY <1>1, <1>8, StillReads, Zenon

LEMMA PartKeeps ==
    ASSUME BodyInv, TakePartOfLine
    PROVE  BodyInv'
  <1> DEFINE line == longer_line(stream.line_buffer, undecoded)
  <1>1. /\ decoder = "stream" /\ verdict = "none" /\ stream.phase \in {"size_line", "trailer_line"}
        /\ chunks' = chunks /\ trailer' = trailer /\ decoder' = decoder /\ arrived' = arrived
        /\ Feeds(undecoded) = {} /\ undecoded' = <<>> /\ accumulator' = accumulator
        /\ stream' = [stream EXCEPT !.line_buffer = line]
        /\ IF Len(line) > max_line_bytes THEN Refuse("bad_request") ELSE GoesOn
    BY Zenon DEF TakePartOfLine, Rounds, LineFeeds, Feeds
  <1>2. PICK p, i : Midway(p, i)
    BY <1>1, Decoding, Zenon
  <1>3. InSize(chunks, trailer, stream, accumulator, p, i) \/ InTrailer(chunks, trailer, stream, accumulator, p, i)
    BY <1>1, <1>2, PhaseSays, Zenon DEF Midway
  <1>4. \A j \in 1 .. i - 1 : Clean(chunks[j])
    BY <1>2, PhaseSays, Zenon DEF Midway
  <1>5. /\ Len(line) > max_line_bytes => Disputed(chunks, trailer)
        /\ Reads(chunks, trailer, arrived, <<>>, [stream EXCEPT !.line_buffer = line], accumulator)
    BY <1>1, <1>2, <1>3, <1>4, PartTaken, Zenon DEF Midway
  <1> HIDE DEF line
  <1>6. CASE Len(line) > max_line_bytes
    <2>1. Excused(chunks, trailer, decoder, arrived')
      BY <1>1, <1>5, <1>6, Zenon DEF Excused
    <2>2. QED
      BY <1>1, <1>6, <2>1, Refused, Zenon
  <1>7. CASE ~(Len(line) > max_line_bytes)
    <2>1. verdict' = "none"
      BY <1>1, <1>7, Zenon DEF GoesOn
    <2>2. QED
      BY <1>1, <1>5, <2>1, StillReads, Zenon
  <1>8. QED
    BY <1>6, <1>7

LEMMA LineKeeps ==
    ASSUME BodyInv, TakeLine
    PROVE  BodyInv'
  <1> DEFINE last == Min(LineFeeds)
             line == Text(stream, undecoded)
             size == chunk_size(line)
             proper == Proper(stream, undecoded)
             in_trailer == stream.phase = "trailer_line"
             left == Left(undecoded)
             Goes(phase, remaining) == stream' = Fresh(phase, remaining) /\ undecoded' = left /\ GoesOn
  <1>1. /\ decoder = "stream" /\ verdict = "none" /\ stream.phase \in {"size_line", "trailer_line"}
        /\ chunks' = chunks /\ trailer' = trailer /\ decoder' = decoder /\ arrived' = arrived
        /\ Feeds(undecoded) # {} /\ accumulator' = accumulator
    BY Zenon DEF TakeLine, Rounds, LineFeeds, Feeds
  <1>2. \/ /\ ~proper \/ (in_trailer /\ Len(line) > max_line_bytes) \/ (~in_trailer /\ size = NoSize)
           /\ Refuse("bad_request")
        \/ proper /\ in_trailer /\ line = <<>> /\ Dispatch(finish(accumulator)) /\ undecoded' = left
        \/ proper /\ in_trailer /\ Len(line) \in 1 .. max_line_bytes /\ Goes("trailer_line", 0)
        \/ proper /\ ~in_trailer /\ size = 0 /\ Goes("trailer_line", 0)
        \/ proper /\ ~in_trailer /\ size > 0 /\ Goes("data", size)
    BY Zenon DEF TakeLine, LineFeeds, Feeds, Text, Proper, Ended, Left, Fresh
  <1>3. PICK p, i : Midway(p, i)
    BY <1>1, Decoding, Zenon
  <1>4. \A j \in 1 .. i - 1 : Clean(chunks[j])
    BY <1>3, PhaseSays, Zenon DEF Midway
  <1>5. CASE in_trailer
    <2>1. InTrailer(chunks, trailer, stream, accumulator, p, i)
      BY <1>3, <1>5, PhaseSays, Zenon DEF Midway
    <2>2. /\ ~proper => Disputed(chunks, trailer)
          /\ proper /\ Len(line) > max_line_bytes => Disputed(chunks, trailer)
          /\ proper /\ line = <<>> =>
               /\ (\A j \in 1 .. Len(chunks) : Clean(chunks[j])) /\ ~BareLf(trailer)
               /\ finish(accumulator) = Got(chunks, Len(chunks) + 1)
               /\ arrived - Len(left) = Len(Whole(chunks, trailer)) - 1
          /\ proper /\ Len(line) > 0 =>
               Reads(chunks, trailer, arrived, left, Fresh("trailer_line", 0), accumulator)
      <3>1. AfterTrailerLine(chunks, trailer, arrived, stream, undecoded, accumulator)
        BY <1>1, <1>3, <1>4, <2>1, TrailerTaken, Zenon DEF Midway
      <3>2. QED
        BY <3>1, Zenon DEF AfterTrailerLine
    <2> HIDE DEF line, size, proper, left
    <2>3. CASE Refuse("bad_request") /\ (~proper \/ Len(line) > max_line_bytes)
      <3>1. Excused(chunks, trailer, decoder, arrived')
        BY <1>1, <2>2, <2>3, Zenon DEF Excused
      <3>2. QED
        BY <1>1, <2>3, <3>1, Refused, Zenon
    <2>4. CASE proper /\ line = <<>> /\ Dispatch(finish(accumulator)) /\ undecoded' = left
      <3>1. verdict' = "dispatched" /\ body' = finish(accumulator)
        BY <2>4, Zenon DEF Dispatch
      <3>2. AsSent(chunks, trailer, decoder, arrived', undecoded', body')
        BY <1>1, <2>2, <2>4, <3>1, Zenon DEF AsSent, Clean
      <3>3. "dispatched" # "none" /\ "dispatched" \notin {"bad_request", "too_large"}
        OBVIOUS
      <3>4. QED
        BY <1>1, <3>1, <3>2, <3>3, NowAnswered, Zenon
    <2>5. CASE proper /\ Len(line) \in 1 .. max_line_bytes /\ Goes("trailer_line", 0)
      <3>1. Len(line) > 0
        BY <2>5, BodyAssumption
      <3>2. verdict' = "none" /\ stream' = Fresh("trailer_line", 0) /\ undecoded' = left
        BY <1>1, <2>5, Zenon DEF GoesOn
      <3>3. QED
        BY <1>1, <2>2, <2>5, <3>1, <3>2, StillReads, Zenon
    <2>6. QED
      BY <1>2, <1>5, <2>3, <2>4, <2>5, Zenon
  <1>6. CASE ~in_trailer
    <2>1. InSize(chunks, trailer, stream, accumulator, p, i)
      <3>1. stream.phase = "size_line"
        BY <1>1, <1>6, Zenon
      <3>2. QED
        BY <1>3, <3>1, PhaseSays, Zenon DEF Midway
    <2>2. /\ ~proper => Disputed(chunks, trailer)
          /\ proper /\ size = NoSize => \E j \in 1 .. Len(chunks) : chunks[j].form # "proper"
          /\ proper /\ size = 0 =>
               Reads(chunks, trailer, arrived, left, Fresh("trailer_line", 0), accumulator)
          /\ proper /\ size > 0 =>
               Reads(chunks, trailer, arrived, left, Fresh("data", size), accumulator)
      BY <1>1, <1>3, <1>4, <2>1, SizeTaken, Zenon DEF Midway
    <2> HIDE DEF line, size, proper, left
    <2>3. CASE Refuse("bad_request") /\ (~proper \/ size = NoSize)
      <3>1. Excused(chunks, trailer, decoder, arrived')
        BY <1>1, <2>2, <2>3, Zenon DEF Excused
      <3>2. QED
        BY <1>1, <2>3, <3>1, Refused, Zenon
    <2>4. CASE proper /\ size = 0 /\ Goes("trailer_line", 0)
      <3>1. verdict' = "none" /\ stream' = Fresh("trailer_line", 0) /\ undecoded' = left
        BY <1>1, <2>4, Zenon DEF GoesOn
      <3>2. QED
        BY <1>1, <2>2, <2>4, <3>1, StillReads, Zenon
    <2>5. CASE proper /\ size > 0 /\ Goes("data", size)
      <3>1. verdict' = "none" /\ stream' = Fresh("data", size) /\ undecoded' = left
        BY <1>1, <2>5, Zenon DEF GoesOn
      <3>2. QED
        BY <1>1, <2>2, <2>5, <3>1, StillReads, Zenon
    <2>6. QED
      BY <1>2, <1>6, <2>3, <2>4, <2>5, Zenon
  <1>7. QED
    BY <1>5, <1>6

LEMMA DataKeeps ==
    ASSUME BodyInv, TakeData
    PROVE  BodyInv'
  <1> DEFINE t == Take
             s2 == [stream EXCEPT !.chunk_remaining = @ - t,
                                  !.phase = IF stream.chunk_remaining = t THEN "data_crlf" ELSE "data"]
             acc2 == append(accumulator, SubSeq(undecoded, 1, t))
             left == SubSeq(undecoded, t + 1, Len(undecoded))
  <1>1. /\ decoder = "stream" /\ verdict = "none" /\ stream.phase = "data"
        /\ chunks' = chunks /\ trailer' = trailer /\ decoder' = decoder /\ arrived' = arrived
    BY Zenon DEF TakeData, Rounds
  <1>2. \/ size_of(accumulator) + t > max_body_bytes /\ Refuse("too_large")
        \/ accumulator' = acc2 /\ undecoded' = left /\ stream' = s2 /\ GoesOn
    BY Zenon DEF TakeData
  <1>3. PICK p, i : Midway(p, i)
    BY <1>1, Decoding, Zenon
  <1>4. /\ \A j \in 1 .. i - 1 : Clean(chunks[j])
        /\ InData(chunks, trailer, stream, accumulator, p, i)
    BY <1>1, <1>3, PhaseSays, Zenon DEF Midway
  <1>5. /\ t \in Nat /\ size_of(accumulator) + t <= arrived
        /\ Reads(chunks, trailer, arrived, left, s2, acc2)
    <2>1. t = Min({stream.chunk_remaining, Len(undecoded)})
      BY DEF Take
    <2> HIDE DEF t
    <2>2. QED
      BY <1>3, <1>4, <2>1, DataTaken DEF Midway
  <1>6. CASE size_of(accumulator) + t > max_body_bytes /\ Refuse("too_large")
    <2>1. arrived > max_body_bytes
      <3>1. size_of(accumulator) \in Nat /\ arrived \in Nat
        BY <1>3, Accumulated, Zenon DEF Midway
      <3> HIDE DEF t
      <3>2. QED
        BY <1>5, <1>6, <3>1, BodyAssumption
    <2>2. Excused(chunks, trailer, decoder, arrived')
      BY <1>1, <2>1, Zenon DEF Excused
    <2>3. QED
      BY <1>1, <1>6, <2>2, Refused, Zenon
  <1>7. CASE accumulator' = acc2 /\ undecoded' = left /\ stream' = s2 /\ GoesOn
    <2> HIDE DEF acc2, left, s2
    <2>1. verdict' = "none"
      BY <1>1, <1>7, Zenon DEF GoesOn
    <2>2. QED
      BY <1>1, <1>5, <1>7, <2>1, StillReads, Zenon
  <1>8. QED
    BY <1>2, <1>6, <1>7

LEMMA CrLfKeeps ==
    ASSUME BodyInv, TakeCrLf
    PROVE  BodyInv'
  <1> DEFINE s2 == IF stream.crlf_seen = 1 THEN NewStream ELSE [stream EXCEPT !.crlf_seen = 1]
             same == Head(undecoded) = CrLf[stream.crlf_seen + 1]
  <1>1. /\ decoder = "stream" /\ verdict = "none" /\ stream.phase = "data_crlf" /\ undecoded # <<>>
        /\ chunks' = chunks /\ trailer' = trailer /\ decoder' = decoder /\ arrived' = arrived
        /\ accumulator' = accumulator
    BY Zenon DEF TakeCrLf, Rounds
  <1>2. \/ ~same /\ Refuse("bad_request")
        \/ same /\ undecoded' = Tail(undecoded) /\ GoesOn /\ stream' = s2
    BY Zenon DEF TakeCrLf
  <1>3. PICK p, i : Midway(p, i)
    BY <1>1, Decoding, Zenon
  <1>4. /\ \A j \in 1 .. i - 1 : Clean(chunks[j])
        /\ InCrLf(chunks, trailer, stream, accumulator, p, i)
    BY <1>1, <1>3, PhaseSays, Zenon DEF Midway
  <1>5. /\ ~same => \E j \in 1 .. Len(chunks) : chunks[j].form # "proper"
        /\ same => Reads(chunks, trailer, arrived, Tail(undecoded), s2, accumulator)
    BY <1>1, <1>3, <1>4, CrLfTaken DEF Midway
  <1> HIDE DEF s2, same
  <1>6. CASE ~same /\ Refuse("bad_request")
    <2>1. Excused(chunks, trailer, decoder, arrived')
      BY <1>1, <1>5, <1>6, Zenon DEF Excused
    <2>2. QED
      BY <1>1, <1>6, <2>1, Refused, Zenon
  <1>7. CASE same /\ undecoded' = Tail(undecoded) /\ GoesOn /\ stream' = s2
    <2>1. verdict' = "none"
      BY <1>1, <1>7, Zenon DEF GoesOn
    <2>2. QED
      BY <1>1, <1>5, <1>7, <2>1, StillReads, Zenon
  <1>8. QED
    BY <1>2, <1>6, <1>7

LEMMA SpoolFailsKeeps ==
    ASSUME BodyInv, SpoolFails
    PROVE  BodyInv'
  <1>1. /\ chunks' = chunks /\ trailer' = trailer /\ decoder' = decoder /\ verdict' = "server_error"
    BY Zenon DEF SpoolFails, Rounds, Refuse
  <1>2. /\ "server_error" # "none" /\ "server_error" # "dispatched"
        /\ "server_error" \notin {"bad_request", "too_large"}
    OBVIOUS
  <1>3. QED
    BY <1>1, <1>2, NowAnswered, Zenon

LEMMA FirstLookKeeps ==
    ASSUME BodyInv, NEW n \in 0 .. Len(Whole(chunks, trailer)), FirstLook(n)
    PROVE  BodyInv'
  <1> DEFINE w == Whole(chunks, trailer)
             bytes == SubSeq(w, 1, n)
             whole == decode_chunked_body(bytes)
             z == Len(w)
             k == Len(chunks)
  <1>1. /\ decoder = "first_look" /\ verdict = "none" /\ arrived' = n
        /\ chunks' = chunks /\ trailer' = trailer /\ stream' = stream /\ accumulator' = accumulator
    BY Zenon DEF FirstLook, stream_vars
  <1>2. \/ /\ whole.state = "incomplete" /\ n <= max_body_bytes
           /\ decoder' = "stream" /\ undecoded' = bytes /\ GoesOn
        \/ whole.state = "incomplete" /\ n > max_body_bytes /\ Refuse("too_large") /\ decoder' = decoder
        \/ /\ whole.state = "malformed" \/ whole.consumed > max_body_bytes
           /\ Refuse("bad_request") /\ decoder' = decoder
        \/ /\ whole.state = "complete" /\ Dispatch(whole.body)
           /\ undecoded' = SubSeq(bytes, whole.consumed + 1, n) /\ decoder' = decoder
    BY EncodedWhole, Zenon DEF FirstLook
  <1>3. /\ chunks \in Seq(Chunks) /\ trailer \in Trailers
        /\ stream = NewStream /\ accumulator = NewAccumulator
    BY <1>1, Zenon DEF BodyInv
  <1>4. w \in Seq(Bytes) /\ Off(chunks, 1) = 0 /\ Got(chunks, 1) = <<>> /\ k \in Nat
    BY <1>3, Layout, GotFacts, LenProperties, Zenon
  <1>5. z \in Nat /\ n \in Nat /\ n <= z
    BY <1>4
  <1>6. Done(n, chunks, trailer, whole)
    BY <1>3, <1>5, BodyDecoded, Zenon
  <1> DEFINE Malformed == \E j \in 1 .. k : chunks[j].form # "proper"
             Complete == /\ z - 1 <= n /\ \A j \in 1 .. k : chunks[j].form = "proper"
                         /\ whole.body = Got(chunks, k + 1) /\ whole.consumed = z - 1
  <1>7. \/ whole.state = "incomplete" /\ whole.consumed = 0
        \/ whole.state = "malformed" /\ Malformed
        \/ whole.state = "complete" /\ Complete
    <2> DEFINE g == Got(chunks, k + 1)
               y == z - 1
    <2> HIDE DEF whole, g, y
    <2>1. CASE whole = Decode("incomplete", <<>>, 0)
      BY <2>1 DEF Decode
    <2>2. CASE whole = Decode("malformed", <<>>, 0) /\ Malformed
      <3>1. whole.state = "malformed"
        BY <2>2 DEF Decode
      <3>2. QED
        BY <2>2, <3>1, Zenon
    <2>3. CASE /\ whole = Decode("complete", Got(chunks, k + 1), z - 1)
               /\ z - 1 <= n /\ \A j \in 1 .. k : chunks[j].form = "proper"
      <3>1. whole = Decode("complete", g, y)
        BY <2>3, Zenon DEF g, y
      <3>2. whole.state = "complete" /\ whole.body = g /\ whole.consumed = y
        BY <3>1 DEF Decode
      <3>3. QED
        BY <2>3, <3>2, Zenon DEF g, y
    <2>4. QED
      BY <1>6, <2>1, <2>2, <2>3, Zenon DEF Done
  <1> DEFINE st == whole.state
             con == whole.consumed
  <1> HIDE DEF whole, st, con
  <1>8. CASE /\ st = "incomplete" /\ decoder' = "stream" /\ undecoded' = bytes /\ GoesOn
    <2>1. 0 \in 0 .. n /\ 0 + 1 = 1 /\ 0 <= 0 /\ 0 \in Nat /\ 1 \in 1 .. k + 1 /\ \A j \in 1 .. 1 - 1 : FALSE
      BY <1>4, <1>5
    <2>2. /\ StreamOK(NewStream) /\ NewStream.phase = "size_line" /\ NewStream.line_buffer = <<>>
          /\ NewStream.crlf_seen = 0
      BY NewStreamFields, Zenon
    <2>3. AccOK(NewAccumulator) /\ finish(NewAccumulator) = <<>> /\ Len(finish(NewAccumulator)) <= 0
      <3>1. Len(<<>>) = 0
        OBVIOUS
      <3>2. QED
        BY <2>1, <3>1, NewAccumulatorOK, Zenon
    <2>4. InLine(w, 0, 0, NewStream)
      BY <1>4, <2>1, <2>2, LineBegins, Zenon
    <2>5. InSize(chunks, trailer, NewStream, NewAccumulator, 0, 1)
      BY <1>4, <2>2, <2>3, <2>4, Zenon DEF InSize
    <2>6. At(chunks, trailer, NewStream, NewAccumulator, 0, 1)
      BY <2>1, <2>5, Zenon DEF At
    <2>7. Reads(chunks, trailer, n, SubSeq(w, 0 + 1, n), NewStream, NewAccumulator)
      BY <1>5, <2>1, <2>2, <2>3, <2>6, ReadsAt, Zenon
    <2>8. Reads(chunks, trailer, arrived', undecoded', stream', accumulator')
      BY <1>1, <1>3, <1>8, <2>1, <2>7, Zenon
    <2>9. verdict' = "none"
      BY <1>1, <1>8, Zenon DEF GoesOn
    <2>10. QED
      BY <1>1, <1>8, <2>8, <2>9, StillReads, Zenon
  <1>9. CASE n > max_body_bytes /\ Refuse("too_large") /\ decoder' = decoder
    <2>1. Excused(chunks, trailer, decoder, arrived')
      BY <1>1, <1>9, Zenon DEF Excused
    <2>2. QED
      BY <1>1, <1>9, <2>1, Refused, Zenon
  <1>10. CASE /\ st = "malformed" \/ con > max_body_bytes
              /\ Refuse("bad_request") /\ decoder' = decoder
    <2>1. Malformed \/ n > max_body_bytes
      <3>1. CASE st = "incomplete" /\ con = 0
        BY <1>10, <3>1, BodyAssumption
      <3>2. CASE st = "malformed" /\ Malformed
        BY <3>2
      <3>3. CASE st = "complete" /\ Complete
        <4>1. con > max_body_bytes /\ con = z - 1 /\ z - 1 <= n
          <5>1. "complete" # "malformed"
            OBVIOUS
          <5>2. QED
            BY <1>10, <3>3, <5>1, Zenon DEF con
        <4> HIDE DEF z
        <4>2. n > max_body_bytes
          BY <1>5, <4>1, BodyAssumption
        <4>3. QED
          BY <4>2
      <3>4. QED
        BY <1>7, <3>1, <3>2, <3>3, Zenon DEF st, con
    <2>2. Excused(chunks, trailer, decoder, arrived')
      BY <1>1, <2>1, Zenon DEF Excused
    <2>3. QED
      BY <1>1, <1>10, <2>2, Refused, Zenon
  <1>11. CASE /\ st = "complete" /\ Dispatch(whole.body)
              /\ undecoded' = SubSeq(bytes, con + 1, n) /\ decoder' = decoder
    <2>1. Complete
      <3>1. "complete" # "malformed" /\ "complete" # "incomplete"
        OBVIOUS
      <3>2. QED
        BY <1>7, <1>11, <3>1, Zenon DEF st
    <2>2. con = z - 1 /\ whole.body = Got(chunks, k + 1) /\ z - 1 <= n
      BY <2>1, Zenon DEF con
    <2>3. verdict' = "dispatched" /\ body' = Got(chunks, k + 1)
      BY <1>11, <2>2, Zenon DEF Dispatch
    <2>4. n - Len(undecoded') = z - 1
      <3>1. bytes \in Seq(Bytes) /\ Len(bytes) = n
        BY <1>4, <1>5, PrefixAt
      <3>2. z # 0
        <4>1. Off(chunks, k + 1) \in Nat /\ Len(trailer) \in Nat /\ z = Off(chunks, k + 1) + Len(trailer) + 6
          BY <1>3, EndPlace, Zenon
        <4> HIDE DEF z, k
        <4>2. QED
          BY <4>1
      <3>3. con \in Nat /\ con <= n /\ n <= n
        <4>1. z \in Nat /\ con = z - 1 /\ z - 1 <= n /\ z # 0
          BY <1>5, <2>2, <3>2, Zenon
        <4> HIDE DEF z
        <4>2. QED
          BY <1>5, <4>1
      <3> HIDE DEF bytes, z
      <3>4. Len(SubSeq(bytes, con + 1, n)) = n - con
        BY <1>5, <3>1, <3>3, SubSeqAt
      <3>5. Len(undecoded') = n - con
        BY <1>11, <3>4, Zenon
      <3>6. n - (n - con) = con
        BY <1>5, <3>3
      <3>7. QED
        BY <2>2, <3>5, <3>6, Zenon
    <2>5. AsSent(chunks, trailer, decoder, arrived', undecoded', body')
      <3>1. decoder # "stream"
        BY <1>1
      <3>2. QED
        BY <1>1, <2>1, <2>3, <2>4, <3>1, Zenon DEF AsSent
    <2>6. "dispatched" # "none" /\ "dispatched" \notin {"bad_request", "too_large"}
      OBVIOUS
    <2>7. QED
      BY <1>1, <1>11, <2>3, <2>5, <2>6, NowAnswered, Zenon
  <1>12. QED
    BY <1>2, <1>8, <1>9, <1>10, <1>11, Zenon DEF st, con

LEMMA BodyStutters ==
    ASSUME BodyInv, UNCHANGED body_vars
    PROVE  BodyInv'
  <1>1. /\ chunks' = chunks /\ trailer' = trailer /\ arrived' = arrived /\ undecoded' = undecoded
        /\ decoder' = decoder /\ stream' = stream /\ accumulator' = accumulator
        /\ verdict' = verdict /\ body' = body
    BY DEF body_vars
  <1>2. QED
    BY <1>1, Zenon DEF BodyInv, Answers

LEMMA BodyStep ==
    ASSUME BodyInv, [BodyNext]_body_vars
    PROVE  BodyInv'
  <1>1. ASSUME NEW n \in 0 .. Len(encoded), FirstLook(n) PROVE BodyInv'
    BY <1>1, EncodedWhole, FirstLookKeeps, Zenon
  <1>2. ASSUME NEW n \in 1 .. Len(encoded), Arrive(n) PROVE BodyInv'
    <2>1. n \in Nat
      OBVIOUS
    <2>2. QED
      BY <1>2, <2>1, ArriveKeeps, Zenon
  <1>3. CASE Answered
    BY <1>3, BodyStutters, Zenon DEF Answered
  <1>4. QED
    BY <1>1, <1>2, <1>3, PartKeeps, LineKeeps, DataKeeps, CrLfKeeps, SpoolFailsKeeps, BodyStutters,
       Zenon DEF BodyNext

(***************************************************************************)
(* A chunked body reaches the handler as it was sent, with the next        *)
(* request behind it, or is refused for a reason of the decoder that has   *)
(* it; the stream's decoder lets no bare LF in a line pass; and no         *)
(* connection waits for more of a whole body: for all chunks and trailers, *)
(* every split of the bytes and all limits, in decode_chunked_body and in  *)
(* process_chunked_http1_body_stream.                                      *)
(***************************************************************************)
THEOREM ChunkedBodiesArriveAsSent == BodySpec => []ChunkedBodyAsSent
  <1>1. BodyInit => BodyInv
    BY BodyStart
  <1>2. BodyInv /\ [BodyNext]_body_vars => BodyInv'
    BY BodyStep
  <1>3. BodyInv => ChunkedBodyAsSent
    BY InvImpliesAsSent
  <1>4. QED
    BY <1>1, <1>2, <1>3, PTL DEF BodySpec
=============================================================================
