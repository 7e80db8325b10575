---------------------------- MODULE CommonLemmas ----------------------------
(* Facts about minima, maxima and sequences that several proofs rest on.   *)
EXTENDS Integers, Sequences, FiniteSetsExt, SequencesExt, SequenceTheorems, WellFoundedInduction,
        TLAPS

LEMMA MinOfTwo ==
    ASSUME NEW a \in Int, NEW b \in Int
    PROVE  /\ Min({a, b}) \in {a, b}
           /\ Min({a, b}) <= a /\ Min({a, b}) <= b
  <1>1. \E x \in {a, b} : \A y \in {a, b} : x =< y
    OBVIOUS
  <1>2. QED
    BY <1>1 DEF Min

LEMMA MaxOfTwo ==
    ASSUME NEW a \in Int, NEW b \in Int
    PROVE  /\ Max({a, b}) \in {a, b}
           /\ Max({a, b}) >= a /\ Max({a, b}) >= b
  <1>1. \E x \in {a, b} : \A y \in {a, b} : x >= y
    OBVIOUS
  <1>2. QED
    BY <1>1 DEF Max

\* A set of natural numbers has a least element.
LEMMA Least ==
    ASSUME NEW T \in SUBSET Nat, T # {}
    PROVE  Min(T) \in T /\ \A y \in T : Min(T) <= y
  <1> DEFINE R == {ss \in Nat \X Nat : ss[1] < ss[2]}
  <1>1. OpToRel(<, Nat) = R
    BY Zenon DEF OpToRel
  <1>2. IsWellFoundedOn(R, Nat)
    BY <1>1, NatLessThanWellFounded, Zenon
  <1>3. \A a, b \in Nat : a < b => <<a, b>> \in R
    OBVIOUS
  <1> HIDE DEF R
  <1>4. PICK x \in T : \A y \in T : ~(<<y, x>> \in R)
    BY <1>2, WFMin
  <1>5. ASSUME NEW y \in T PROVE x <= y
    <2>1. x \in Nat /\ y \in Nat
      OBVIOUS
    <2>2. ~(y < x)
      BY <1>3, <1>4, <2>1, Zenon
    <2>3. QED
      BY <2>1, <2>2
  <1>6. QED
    BY <1>5 DEF Min

----------------------------------------------------------------------------
(* FlattenSeq, which is defined by a recursive function.                   *)

\* f[i] is the concatenation of the first i of the sequences ss, up to n of them.
Flattens(f, ss, n) ==
    f = [i \in 1 .. n |-> IF i = 1 THEN ss[i] ELSE f[i - 1] \o ss[i]]

LEMMA FlattensAt ==
    ASSUME NEW f, NEW ss, NEW n \in Nat, Flattens(f, ss, n), NEW i \in 1 .. n
    PROVE  f[i] = IF i = 1 THEN ss[i] ELSE f[i - 1] \o ss[i]
  BY Zenon DEF Flattens

LEMMA FlattensExists ==
    ASSUME NEW ss, NEW n \in Nat
    PROVE  \E f : Flattens(f, ss, n)
  <1> DEFINE Bad == {k \in Nat : ~ \E f : Flattens(f, ss, k)}
  <1>1. Bad = {}
    <2>1. SUFFICES ASSUME Bad # {} PROVE FALSE
      BY Zenon
    <2> DEFINE m == Min(Bad)
    <2>2. m \in Bad /\ \A y \in Bad : m <= y
      <3>1. Bad \in SUBSET Nat
        OBVIOUS
      <3> HIDE DEF Bad
      <3>2. QED
        BY <2>1, <3>1, Least
    <2>3. m \in Nat /\ ~ \E f : Flattens(f, ss, m)
      BY <2>2, Zenon
    <2> HIDE DEF m
    <2>4. m # 0
      <3>1. ASSUME m = 0 PROVE FALSE
        <4>1. Flattens([i \in 1 .. 0 |-> 0], ss, 0)
          BY DEF Flattens
        <4>2. QED
          BY <2>3, <3>1, <4>1, Zenon
      <3>2. QED
        BY <3>1
    <2>5. m - 1 \in Nat /\ ~(m <= m - 1)
      BY <2>3, <2>4
    <2>6. PICK g : Flattens(g, ss, m - 1)
      BY <2>2, <2>5, Zenon
    <2> DEFINE f == [i \in 1 .. m |-> IF i < m THEN g[i]
                                      ELSE IF i = 1 THEN ss[i] ELSE g[i - 1] \o ss[i]]
    <2>7. ASSUME NEW i \in 1 .. m
          PROVE  f[i] = IF i = 1 THEN ss[i] ELSE f[i - 1] \o ss[i]
      <3>1. CASE i < m
        <4>1. i \in 1 .. m - 1 /\ f[i] = g[i]
          BY <2>3, <3>1
        <4>2. f[i] = IF i = 1 THEN ss[i] ELSE g[i - 1] \o ss[i]
          BY <2>5, <2>6, <4>1, FlattensAt
        <4>3. i # 1 => f[i - 1] = g[i - 1]
          BY <2>3, <3>1
        <4> HIDE DEF f
        <4>4. QED
          BY <4>2, <4>3, Zenon
      <3>2. CASE ~(i < m)
        <4>1. i = m
          BY <2>3, <3>2
        <4>2. f[i] = IF i = 1 THEN ss[i] ELSE g[i - 1] \o ss[i]
          BY <3>2, Zenon
        <4>3. i # 1 => f[i - 1] = g[i - 1]
          BY <2>3, <4>1
        <4> HIDE DEF f
        <4>4. QED
          BY <4>2, <4>3, Zenon
      <3>3. QED
        BY <3>1, <3>2
    <2>8. f = [i \in 1 .. m |-> f[i]]
      BY Zenon
    <2> HIDE DEF f
    <2>9. Flattens(f, ss, m)
      BY <2>7, <2>8 DEF Flattens
    <2>10. QED
      BY <2>3, <2>9, Zenon
  <1>2. QED
    BY <1>1, Zenon

\* The partial concatenations of sequences over S are sequences over S.
LEMMA FlattensTyped ==
    ASSUME NEW S, NEW ss, NEW n \in Nat, \A i \in 1 .. n : ss[i] \in Seq(S),
           NEW f, Flattens(f, ss, n)
    PROVE  \A i \in 1 .. n : f[i] \in Seq(S)
  <1> DEFINE Bad == {i \in 1 .. n : f[i] \notin Seq(S)}
  <1>1. SUFFICES ASSUME Bad # {} PROVE FALSE
    BY Zenon
  <1> DEFINE m == Min(Bad)
  <1>2. m \in Bad /\ \A y \in Bad : m <= y
    <2>1. Bad \in SUBSET Nat
      OBVIOUS
    <2> HIDE DEF Bad
    <2>2. QED
      BY <1>1, <2>1, Least
  <1>3. m \in 1 .. n /\ f[m] \notin Seq(S)
    BY <1>2, Zenon
  <1> HIDE DEF m
  <1>4. f[m] = IF m = 1 THEN ss[m] ELSE f[m - 1] \o ss[m]
    BY <1>3, FlattensAt
  <1>5. m # 1 /\ ss[m] \in Seq(S)
    BY <1>3, <1>4, Zenon
  <1>6. m - 1 \in 1 .. n /\ ~(m <= m - 1)
    BY <1>3, <1>5
  <1>7. f[m - 1] \in Seq(S)
    BY <1>2, <1>6, Zenon
  <1>8. f[m - 1] \o ss[m] \in Seq(S)
    BY <1>5, <1>7, ConcatProperties
  <1>9. QED
    BY <1>3, <1>4, <1>5, <1>8, Zenon

\* A longer one agrees with a shorter one.
LEMMA FlattensAgree ==
    ASSUME NEW ss, NEW n \in Nat, NEW k \in Nat, n <= k,
           NEW f, Flattens(f, ss, n), NEW g, Flattens(g, ss, k)
    PROVE  \A i \in 1 .. n : f[i] = g[i]
  <1> DEFINE Bad == {i \in 1 .. n : f[i] # g[i]}
  <1>1. SUFFICES ASSUME Bad # {} PROVE FALSE
    BY Zenon
  <1> DEFINE m == Min(Bad)
  <1>2. m \in Bad /\ \A y \in Bad : m <= y
    <2>1. Bad \in SUBSET Nat
      OBVIOUS
    <2> HIDE DEF Bad
    <2>2. QED
      BY <1>1, <2>1, Least
  <1>3. m \in 1 .. n /\ f[m] # g[m]
    BY <1>2, Zenon
  <1> HIDE DEF m
  <1>4. f[m] = IF m = 1 THEN ss[m] ELSE f[m - 1] \o ss[m]
    BY <1>3, FlattensAt
  <1>5. m \in 1 .. k
    BY <1>3
  <1>6. g[m] = IF m = 1 THEN ss[m] ELSE g[m - 1] \o ss[m]
    BY <1>5, FlattensAt
  <1>7. m # 1
    BY <1>3, <1>4, <1>6, Zenon
  <1>8. m - 1 \in 1 .. n /\ ~(m <= m - 1)
    BY <1>3, <1>7
  <1>9. f[m - 1] = g[m - 1]
    BY <1>2, <1>8, Zenon
  <1>10. QED
    BY <1>3, <1>4, <1>6, <1>9, Zenon

\* The concatenation of the first n of the sequences ss.
Joined(ss, n) == (CHOOSE f : Flattens(f, ss, n))[n]

LEMMA JoinedFirst ==
    ASSUME NEW ss
    PROVE  Joined(ss, 1) = ss[1]
  <1>1. 1 \in Nat /\ 1 \in 1 .. 1
    OBVIOUS
  <1> DEFINE f == CHOOSE x : Flattens(x, ss, 1)
  <1>2. Flattens(f, ss, 1)
    BY <1>1, FlattensExists, Zenon
  <1> HIDE DEF f
  <1>3. f[1] = ss[1]
    BY <1>1, <1>2, Zenon DEF Flattens
  <1>4. QED
    BY <1>3, Zenon DEF Joined, f

LEMMA JoinedNext ==
    ASSUME NEW ss, NEW n \in Nat, n # 0, NEW k \in Nat, k = n + 1
    PROVE  Joined(ss, k) = Joined(ss, n) \o ss[k]
  <1>1. n <= k /\ k \in 1 .. k /\ n \in 1 .. n /\ k # 1 /\ k - 1 = n
    OBVIOUS
  <1> DEFINE f == CHOOSE x : Flattens(x, ss, n)
             g == CHOOSE x : Flattens(x, ss, k)
  <1>2. Flattens(f, ss, n) /\ Flattens(g, ss, k)
    BY FlattensExists, Zenon
  <1>3. Joined(ss, n) = f[n] /\ Joined(ss, k) = g[k]
    BY Zenon DEF Joined
  <1> HIDE DEF f, g
  <1>4. \A i \in 1 .. n : f[i] = g[i]
    BY <1>1, <1>2, FlattensAgree
  <1>5. g[k] = IF k = 1 THEN ss[k] ELSE g[k - 1] \o ss[k]
    BY <1>1, <1>2, Zenon DEF Flattens
  <1>6. QED
    BY <1>1, <1>3, <1>4, <1>5, Zenon

LEMMA JoinedSame ==
    ASSUME NEW ss, NEW tt, NEW n \in Nat, \A i \in 1 .. n : ss[i] = tt[i]
    PROVE  Joined(ss, n) = Joined(tt, n)
  <1>1. ASSUME NEW f PROVE Flattens(f, ss, n) <=> Flattens(f, tt, n)
    <2>1. [i \in 1 .. n |-> IF i = 1 THEN ss[i] ELSE f[i - 1] \o ss[i]]
            = [i \in 1 .. n |-> IF i = 1 THEN tt[i] ELSE f[i - 1] \o tt[i]]
      BY Zenon
    <2>2. QED
      BY <2>1, Zenon DEF Flattens
  <1>2. QED
    BY <1>1, Zenon DEF Joined

LEMMA JoinedTyped ==
    ASSUME NEW S, NEW ss, NEW n \in Nat, n # 0, \A i \in 1 .. n : ss[i] \in Seq(S)
    PROVE  Joined(ss, n) \in Seq(S)
  <1> DEFINE f == CHOOSE x : Flattens(x, ss, n)
  <1>1. Flattens(f, ss, n)
    BY FlattensExists, Zenon
  <1>2. Joined(ss, n) = f[n]
    BY Zenon DEF Joined
  <1> HIDE DEF f
  <1>3. \A i \in 1 .. n : f[i] \in Seq(S)
    BY <1>1, FlattensTyped
  <1>4. n \in 1 .. n
    OBVIOUS
  <1>5. QED
    BY <1>2, <1>3, <1>4, Zenon

LEMMA FlattenIs ==
    ASSUME NEW ss
    PROVE  /\ Len(ss) = 0 => FlattenSeq(ss) = ss
           /\ Len(ss) # 0 => FlattenSeq(ss) = Joined(ss, Len(ss))
  BY Zenon DEF FlattenSeq, Joined, Flattens

LEMMA FlattenTyped ==
    ASSUME NEW S, NEW ss \in Seq(Seq(S))
    PROVE  FlattenSeq(ss) \in Seq(S)
  <1>1. Len(ss) \in Nat /\ \A i \in 1 .. Len(ss) : ss[i] \in Seq(S)
    OBVIOUS
  <1>2. CASE Len(ss) = 0
    <2>1. ss = <<>> /\ <<>> \in Seq(S)
      BY <1>2
    <2>2. QED
      BY <1>2, <2>1, FlattenIs, Zenon
  <1>3. CASE Len(ss) # 0
    BY <1>1, <1>3, JoinedTyped, FlattenIs, Zenon
  <1>4. QED
    BY <1>2, <1>3

\* One more sequence is appended to the concatenation of those before it.
LEMMA FlattenStep ==
    ASSUME NEW S, NEW ss \in Seq(Seq(S)), NEW tt \in Seq(Seq(S)),
           Len(tt) = Len(ss) + 1, \A i \in 1 .. Len(ss) : ss[i] = tt[i]
    PROVE  FlattenSeq(tt) = FlattenSeq(ss) \o tt[Len(tt)]
  <1>1. Len(ss) \in Nat /\ Len(tt) \in Nat /\ Len(tt) # 0
    OBVIOUS
  <1>2. FlattenSeq(tt) = Joined(tt, Len(tt))
    BY <1>1, FlattenIs, Zenon
  <1>3. CASE Len(ss) = 0
    <2>1. Len(tt) = 1 /\ tt[1] \in Seq(S) /\ ss = <<>>
      BY <1>3
    <2>2. <<>> \o tt[1] = tt[1]
      BY <2>1, ConcatEmptySeq
    <2>3. FlattenSeq(ss) = <<>>
      BY <1>3, <2>1, FlattenIs, Zenon
    <2>4. QED
      BY <1>2, <2>1, <2>2, <2>3, JoinedFirst, Zenon
  <1>4. CASE Len(ss) # 0
    <2>1. FlattenSeq(ss) = Joined(ss, Len(ss))
      BY <1>4, FlattenIs, Zenon
    <2>2. Joined(ss, Len(ss)) = Joined(tt, Len(ss))
      BY <1>1, JoinedSame, Zenon
    <2>3. Joined(tt, Len(tt)) = Joined(tt, Len(ss)) \o tt[Len(tt)]
      BY <1>1, <1>4, JoinedNext, Zenon
    <2>4. QED
      BY <1>2, <2>1, <2>2, <2>3, Zenon
  <1>5. QED
    BY <1>3, <1>4
=============================================================================
