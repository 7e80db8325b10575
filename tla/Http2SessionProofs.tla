------------------------- MODULE Http2SessionProofs -------------------------
(***************************************************************************)
(* Proofs about an HTTP/2 connection, for every client that sends frames,  *)
(* every limit and every size of the windows and of the dynamic table.     *)
(***************************************************************************)
EXTENDS Http2Session, CommonLemmas, FiniteSetTheorems

(***************************************************************************)
(* The decoder's dynamic table, for every block of instructions.           *)
(***************************************************************************)

(* Sums.  Sums(f, s, n): f[i] is the sum of the first i numbers of s, up   *)
(* to n of them.                                                           *)
Sums(f, s, n) == f = [i \in 0 .. n |-> IF i = 0 THEN 0 ELSE f[i - 1] + s[i]]

LEMMA SumsAt ==
    ASSUME NEW f, NEW s, NEW n \in Nat, Sums(f, s, n), NEW i \in 0 .. n
    PROVE  f[i] = IF i = 0 THEN 0 ELSE f[i - 1] + s[i]
  BY Zenon DEF Sums

LEMMA SumsExist ==
    ASSUME NEW s, NEW n \in Nat
    PROVE  \E f : Sums(f, s, n)
  <1> DEFINE Bad == {k \in Nat : ~ \E f : Sums(f, s, k)}
  <1>1. Bad = {}
    <2>1. SUFFICES ASSUME Bad # {} PROVE FALSE
      BY Zenon
    <2> DEFINE m == Min(Bad)
    <2>2. m \in Bad /\ \A y \in Bad : m <= y
      <3>1. Bad \in SUBSET Nat
        OBVIOUS
      <3> HIDE DEF Bad
      <3>2. QED
        BY <2>1, <3>1, Least
    <2>3. m \in Nat /\ ~ \E f : Sums(f, s, m)
      BY <2>2, Zenon
    <2> HIDE DEF m
    <2>4. m # 0
      <3>1. ASSUME m = 0 PROVE FALSE
        <4>1. Sums([i \in 0 .. 0 |-> 0], s, 0)
          BY DEF Sums
        <4>2. QED
          BY <2>3, <3>1, <4>1, Zenon
      <3>2. QED
        BY <3>1
    <2>5. m - 1 \in Nat /\ ~(m <= m - 1)
      BY <2>3, <2>4
    <2>6. PICK g : Sums(g, s, m - 1)
      BY <2>2, <2>5, Zenon
    <2> DEFINE f == [i \in 0 .. m |-> IF i < m THEN g[i] ELSE g[i - 1] + s[i]]
    <2>7. ASSUME NEW i \in 0 .. m
          PROVE  f[i] = IF i = 0 THEN 0 ELSE f[i - 1] + s[i]
      <3>1. CASE i < m
        <4>1. i \in 0 .. m - 1 /\ f[i] = g[i]
          BY <2>3, <3>1
        <4>2. f[i] = IF i = 0 THEN 0 ELSE g[i - 1] + s[i]
          BY <2>5, <2>6, <4>1, SumsAt
        <4>3. i # 0 => f[i - 1] = g[i - 1]
          BY <2>3, <3>1
        <4> HIDE DEF f
        <4>4. QED
          BY <4>2, <4>3, Zenon
      <3>2. CASE ~(i < m)
        <4>1. i = m /\ i # 0
          BY <2>3, <2>4, <3>2
        <4>2. f[i] = g[i - 1] + s[i]
          BY <3>2, Zenon
        <4>3. f[i - 1] = g[i - 1]
          BY <2>3, <4>1
        <4> HIDE DEF f
        <4>4. QED
          BY <4>1, <4>2, <4>3, Zenon
      <3>3. QED
        BY <3>1, <3>2
    <2>8. f = [i \in 0 .. m |-> f[i]]
      BY Zenon
    <2> HIDE DEF f
    <2>9. Sums(f, s, m)
      BY <2>7, <2>8 DEF Sums
    <2>10. QED
      BY <2>3, <2>9, Zenon
  <1>2. QED
    BY <1>1, Zenon

LEMMA SumsAgree ==
    ASSUME NEW s, NEW n \in Nat, NEW k \in Nat, n <= k,
           NEW f, Sums(f, s, n), NEW g, Sums(g, s, k)
    PROVE  \A i \in 0 .. n : f[i] = g[i]
  <1> DEFINE Bad == {i \in 0 .. n : f[i] # g[i]}
  <1>1. SUFFICES ASSUME Bad # {} PROVE FALSE
    BY Zenon
  <1> DEFINE m == Min(Bad)
  <1>2. m \in Bad /\ \A y \in Bad : m <= y
    <2>1. Bad \in SUBSET Nat
      OBVIOUS
    <2> HIDE DEF Bad
    <2>2. QED
      BY <1>1, <2>1, Least
  <1>3. m \in 0 .. n /\ f[m] # g[m]
    BY <1>2, Zenon
  <1> HIDE DEF m
  <1>4. f[m] = IF m = 0 THEN 0 ELSE f[m - 1] + s[m]
    BY <1>3, SumsAt
  <1>5. m \in 0 .. k
    BY <1>3
  <1>6. g[m] = IF m = 0 THEN 0 ELSE g[m - 1] + s[m]
    BY <1>5, SumsAt
  <1>7. m # 0
    BY <1>3, <1>4, <1>6, Zenon
  <1>8. m - 1 \in 0 .. n /\ ~(m <= m - 1)
    BY <1>3, <1>7
  <1>9. f[m - 1] = g[m - 1]
    BY <1>2, <1>8, Zenon
  <1>10. QED
    BY <1>3, <1>4, <1>6, <1>9, Zenon

\* The sum of the first n numbers of s.
Upto(s, n) == (CHOOSE f : Sums(f, s, n))[n]

LEMMA UptoNone ==
    ASSUME NEW s
    PROVE  Upto(s, 0) = 0
  <1>1. 0 \in Nat /\ 0 \in 0 .. 0
    OBVIOUS
  <1> DEFINE f == CHOOSE x : Sums(x, s, 0)
  <1>2. Sums(f, s, 0)
    BY <1>1, SumsExist, Zenon
  <1> HIDE DEF f
  <1>3. f[0] = 0
    BY <1>1, <1>2, Zenon DEF Sums
  <1>4. QED
    BY <1>3, Zenon DEF Upto, f

LEMMA UptoNext ==
    ASSUME NEW s, NEW n \in Nat, NEW k \in Nat, k = n + 1
    PROVE  Upto(s, k) = Upto(s, n) + s[k]
  <1>1. n <= k /\ k \in 0 .. k /\ n \in 0 .. n /\ k # 0 /\ k - 1 = n
    OBVIOUS
  <1> DEFINE f == CHOOSE x : Sums(x, s, n)
             g == CHOOSE x : Sums(x, s, k)
  <1>2. Sums(f, s, n) /\ Sums(g, s, k)
    BY SumsExist, Zenon
  <1>3. Upto(s, n) = f[n] /\ Upto(s, k) = g[k]
    BY Zenon DEF Upto
  <1> HIDE DEF f, g
  <1>4. \A i \in 0 .. n : f[i] = g[i]
    BY <1>1, <1>2, SumsAgree
  <1>5. g[k] = IF k = 0 THEN 0 ELSE g[k - 1] + s[k]
    BY <1>1, <1>2, Zenon DEF Sums
  <1>6. QED
    BY <1>1, <1>3, <1>4, <1>5, Zenon

LEMMA TotalIs ==
    ASSUME NEW s
    PROVE  Total(s) = Upto(s, Len(s))
  BY Zenon DEF Total, Upto, Sums

LEMMA UptoNat ==
    ASSUME NEW s, NEW n \in Nat, \A i \in 1 .. n : s[i] \in Nat
    PROVE  \A k \in 0 .. n : Upto(s, k) \in Nat
  <1> DEFINE Bad == {k \in 0 .. n : Upto(s, k) \notin Nat}
  <1>1. SUFFICES ASSUME Bad # {} PROVE FALSE
    BY Zenon
  <1> DEFINE m == Min(Bad)
  <1>2. m \in Bad /\ \A y \in Bad : m <= y
    <2>1. Bad \in SUBSET Nat
      OBVIOUS
    <2> HIDE DEF Bad
    <2>2. QED
      BY <1>1, <2>1, Least
  <1>3. m \in 0 .. n /\ Upto(s, m) \notin Nat
    BY <1>2, Zenon
  <1> HIDE DEF m
  <1>4. m # 0
    BY <1>3, UptoNone
  <1>5. m - 1 \in 0 .. n /\ ~(m <= m - 1) /\ m \in 1 .. n /\ m - 1 \in Nat /\ m \in Nat
        /\ m = (m - 1) + 1
    BY <1>3, <1>4
  <1>6. Upto(s, m - 1) \in Nat
    BY <1>2, <1>5, Zenon
  <1>7. Upto(s, m) = Upto(s, m - 1) + s[m]
    BY <1>5, UptoNext, Zenon
  <1>8. s[m] \in Nat
    BY <1>5, Zenon
  <1>9. QED
    BY <1>3, <1>6, <1>7, <1>8

\* Behind the first n numbers of s, the first k numbers of t follow.
Follow(r, s, n, t, k) ==
    /\ \A i \in 1 .. n : r[i] = s[i] /\ s[i] \in Nat
    /\ \A i \in 1 .. k : r[n + i] = t[i] /\ t[i] \in Nat

LEMMA UptoConcat ==
    ASSUME NEW r, NEW s, NEW t, NEW n \in Nat, NEW k \in Nat, Follow(r, s, n, t, k)
    PROVE  Upto(r, n + k) = Upto(s, n) + Upto(t, k)
  <1>0. /\ \A i \in 1 .. n : r[i] = s[i] /\ s[i] \in Nat
        /\ \A i \in 1 .. k : r[n + i] = t[i] /\ t[i] \in Nat
    BY DEF Follow
  <1>1. \A i \in 0 .. n : Upto(r, i) = Upto(s, i)
    <2> DEFINE Bad == {i \in 0 .. n : Upto(r, i) # Upto(s, i)}
    <2>1. SUFFICES ASSUME Bad # {} PROVE FALSE
      BY Zenon
    <2> DEFINE m == Min(Bad)
    <2>2. m \in Bad /\ \A y \in Bad : m <= y
      <3>1. Bad \in SUBSET Nat
        OBVIOUS
      <3> HIDE DEF Bad
      <3>2. QED
        BY <2>1, <3>1, Least
    <2>3. m \in 0 .. n /\ Upto(r, m) # Upto(s, m)
      BY <2>2, Zenon
    <2> HIDE DEF m
    <2>4. m # 0
      BY <2>3, UptoNone, Zenon
    <2>5. m - 1 \in 0 .. n /\ ~(m <= m - 1) /\ m \in 1 .. n /\ m - 1 \in Nat /\ m \in Nat
          /\ m = (m - 1) + 1
      BY <2>3, <2>4
    <2>6. Upto(r, m - 1) = Upto(s, m - 1)
      BY <2>2, <2>5, Zenon
    <2>7. Upto(r, m) = Upto(r, m - 1) + r[m] /\ Upto(s, m) = Upto(s, m - 1) + s[m]
      BY <2>5, UptoNext, Zenon
    <2>8. r[m] = s[m]
      BY <1>0, <2>5, Zenon
    <2>9. QED
      BY <2>3, <2>6, <2>7, <2>8, Zenon
  <1>2. \A i \in 0 .. k : Upto(r, n + i) = Upto(s, n) + Upto(t, i)
    <2> DEFINE Bad == {i \in 0 .. k : Upto(r, n + i) # Upto(s, n) + Upto(t, i)}
    <2>1. SUFFICES ASSUME Bad # {} PROVE FALSE
      BY Zenon
    <2> DEFINE m == Min(Bad)
    <2>2. m \in Bad /\ \A y \in Bad : m <= y
      <3>1. Bad \in SUBSET Nat
        OBVIOUS
      <3> HIDE DEF Bad
      <3>2. QED
        BY <2>1, <3>1, Least
    <2>3. m \in 0 .. k /\ Upto(r, n + m) # Upto(s, n) + Upto(t, m)
      BY <2>2, Zenon
    <2> HIDE DEF m
    <2>4. Upto(s, n) \in Nat
      <3>1. n \in 0 .. n
        OBVIOUS
      <3>2. QED
        BY <1>0, <3>1, UptoNat
    <2>5. m # 0
      <3>1. ASSUME m = 0 PROVE FALSE
        <4>1. n + m = n /\ n \in 0 .. n /\ Upto(t, m) = 0
          BY <3>1, UptoNone
        <4>2. QED
          BY <1>1, <2>3, <2>4, <4>1
      <3>2. QED
        BY <3>1
    <2>6. m - 1 \in 0 .. k /\ ~(m <= m - 1) /\ m \in 1 .. k /\ m - 1 \in Nat /\ m \in Nat
          /\ m = (m - 1) + 1
      BY <2>3, <2>5
    <2>7. Upto(r, n + (m - 1)) = Upto(s, n) + Upto(t, m - 1)
      BY <2>2, <2>6, Zenon
    <2>8. Upto(t, m) = Upto(t, m - 1) + t[m]
      BY <2>6, UptoNext, Zenon
    <2>9. Upto(r, n + m) = Upto(r, n + (m - 1)) + r[n + m]
      <3>1. n + (m - 1) \in Nat /\ n + m \in Nat /\ n + m = (n + (m - 1)) + 1
        BY <2>6
      <3>2. QED
        BY <3>1, UptoNext, Zenon
    <2>10. r[n + m] = t[m] /\ t[m] \in Nat
      BY <1>0, <2>6, Zenon
    <2>11. Upto(t, m - 1) \in Nat
      BY <1>0, <2>6, UptoNat
    <2>12. QED
      BY <2>3, <2>4, <2>7, <2>8, <2>9, <2>10, <2>11
  <1>3. k \in 0 .. k
    OBVIOUS
  <1>4. QED
    BY <1>2, <1>3, Zenon

LEMMA TotalNat ==
    ASSUME NEW s \in Seq(Nat)
    PROVE  Total(s) \in Nat
  <1>1. Len(s) \in Nat /\ Len(s) \in 0 .. Len(s) /\ \A i \in 1 .. Len(s) : s[i] \in Nat
    OBVIOUS
  <1>2. QED
    BY <1>1, TotalIs, UptoNat

LEMMA TotalNone == Total(<<>>) = 0
  <1>1. Len(<<>>) = 0
    OBVIOUS
  <1>2. QED
    BY <1>1, TotalIs, UptoNone

LEMMA TotalOne ==
    ASSUME NEW n \in Nat
    PROVE  Total(<<n>>) = n
  <1>1. Len(<<n>>) = 1 /\ <<n>>[1] = n /\ 0 \in Nat /\ 1 \in Nat /\ 1 = 0 + 1
    OBVIOUS
  <1>2. Upto(<<n>>, 1) = Upto(<<n>>, 0) + <<n>>[1]
    BY <1>1, UptoNext, Zenon
  <1>3. Upto(<<n>>, 0) = 0
    BY UptoNone
  <1>4. Total(<<n>>) = Upto(<<n>>, 1)
    BY <1>1, TotalIs
  <1>5. QED
    BY <1>1, <1>2, <1>3, <1>4

LEMMA TotalConcat ==
    ASSUME NEW a \in Seq(Nat), NEW b \in Seq(Nat)
    PROVE  Total(a \o b) = Total(a) + Total(b)
  <1> DEFINE r == a \o b
  <1>1. /\ Len(a) \in Nat /\ Len(b) \in Nat /\ Len(r) = Len(a) + Len(b)
        /\ \A i \in 1 .. Len(a) : a[i] \in Nat /\ r[i] = a[i]
        /\ \A i \in 1 .. Len(b) : b[i] \in Nat /\ r[Len(a) + i] = b[i]
    BY ConcatProperties
  <1> HIDE DEF r
  <1>2. Upto(r, Len(a) + Len(b)) = Upto(a, Len(a)) + Upto(b, Len(b))
    <2>1. Follow(r, a, Len(a), b, Len(b))
      BY <1>1 DEF Follow
    <2>2. Len(a) \in Nat /\ Len(b) \in Nat
      BY <1>1
    <2>3. QED
      BY <2>1, <2>2, UptoConcat
  <1>3. QED
    BY <1>1, <1>2, TotalIs DEF r

\* A set of natural numbers up to m has a greatest element.
LEMMA Greatest ==
    ASSUME NEW m \in Nat, NEW T \in SUBSET (0 .. m), T # {}
    PROVE  Max(T) \in T /\ \A y \in T : Max(T) >= y
  <1> DEFINE U == {m - y : y \in T}
  <1>0. \A y \in T : y \in 0 .. m
    OBVIOUS
  <1>1. U \in SUBSET Nat /\ U # {}
    <2>1. \A y \in T : m - y \in Nat
      BY <1>0
    <2>2. QED
      BY <2>1, Zenon
  <1> DEFINE u == Min(U)
  <1>2. u \in U /\ \A y \in U : u <= y
    <2> HIDE DEF U
    <2>1. QED
      BY <1>1, Least
  <1> HIDE DEF u
  <1>3. PICK x \in T : u = m - x
    BY <1>2
  <1>4. ASSUME NEW y \in T PROVE x >= y
    <2>1. u <= m - y
      BY <1>2, Zenon
    <2>2. QED
      BY <1>0, <1>3, <2>1
  <1>5. QED
    BY <1>4 DEF Max

----------------------------------------------------------------------------
(* The dynamic table.                                                      *)
Fits(table) == table_size(table.entries, Len(table.entries)) <= table.max

LEMMA Replaced ==
    ASSUME NEW table \in Tables, NEW e
    PROVE  [table EXCEPT !.entries = e] = [entries |-> e, max |-> table.max]
  BY DEF Tables

LEMMA TableSizeNat ==
    ASSUME NEW entries \in Seq(Fields), NEW n \in 0 .. Len(entries)
    PROVE  table_size(entries, n) \in Nat
  <1> DEFINE sizes == [i \in 1 .. n |-> Size[entries[i]]]
  <1>1. \A i \in 1 .. n : entries[i] \in Fields
    OBVIOUS
  <1>2. n \in Nat
    OBVIOUS
  <1>3. sizes \in Seq(Nat)
    BY <1>1, <1>2, HpackAssumption
  <1> HIDE DEF sizes
  <1>4. Total(sizes) \in Nat
    BY <1>3, TotalNat
  <1>5. QED
    BY <1>4 DEF table_size, sizes

LEMMA TableSizeNone ==
    ASSUME NEW entries
    PROVE  table_size(entries, 0) = 0
  <1>1. [i \in 1 .. 0 |-> Size[entries[i]]] = <<>>
    OBVIOUS
  <1>2. QED
    BY <1>1, TotalNone DEF table_size

LEMMA TableSizeSame ==
    ASSUME NEW s, NEW t, NEW n, \A i \in 1 .. n : s[i] = t[i]
    PROVE  table_size(s, n) = table_size(t, n)
  <1>1. [i \in 1 .. n |-> Size[s[i]]] = [i \in 1 .. n |-> Size[t[i]]]
    BY Zenon
  <1>2. QED
    BY <1>1, Zenon DEF table_size

\* evict_dynamic leaves the longest prefix that fits, and the limit alone.
LEMMA EvictKeeps ==
    ASSUME NEW table \in Tables
    PROVE  \E k \in 0 .. Len(table.entries) :
             /\ evict_dynamic(table) = [entries |-> SubSeq(table.entries, 1, k), max |-> table.max]
             /\ table_size(table.entries, k) <= table.max
             /\ \A n \in 0 .. Len(table.entries) : table_size(table.entries, n) <= table.max => n <= k
  <1> DEFINE entries == table.entries
             kept == {n \in 0 .. Len(entries) : table_size(entries, n) <= table.max}
             k == Max(kept)
  <1>1. entries \in Seq(Fields) /\ table.max \in Nat /\ Len(entries) \in Nat
    BY DEF Tables
  <1>2. kept \in SUBSET (0 .. Len(entries)) /\ 0 \in kept
    BY <1>1, TableSizeNone
  <1>3. k \in kept /\ \A y \in kept : k >= y
    <2> HIDE DEF kept
    <2>1. QED
      BY <1>1, <1>2, Greatest
  <1>4. evict_dynamic(table) = [entries |-> SubSeq(entries, 1, k), max |-> table.max]
    BY Replaced, Zenon DEF evict_dynamic
  <1> HIDE DEF k
  <1>5. \A n \in 0 .. Len(entries) : table_size(entries, n) <= table.max => n <= k
    BY <1>1, <1>3
  <1>6. QED
    BY <1>3, <1>4, <1>5, Zenon

LEMMA EvictFits ==
    ASSUME NEW table \in Tables
    PROVE  /\ evict_dynamic(table) \in Tables /\ Fits(evict_dynamic(table))
           /\ evict_dynamic(table).max = table.max
  <1> DEFINE entries == table.entries
  <1>1. entries \in Seq(Fields) /\ table.max \in Nat /\ Len(entries) \in Nat
    BY DEF Tables
  <1>2. PICK k \in 0 .. Len(entries) :
          /\ evict_dynamic(table) = [entries |-> SubSeq(entries, 1, k), max |-> table.max]
          /\ table_size(entries, k) <= table.max
    BY EvictKeeps
  <1> HIDE DEF entries
  <1> DEFINE rest == SubSeq(entries, 1, k)
  <1>3. rest \in Seq(Fields) /\ Len(rest) = k /\ \A i \in 1 .. k : rest[i] = entries[i]
    BY <1>1
  <1> HIDE DEF rest
  <1>4. table_size(rest, k) = table_size(entries, k)
    BY <1>3, TableSizeSame
  <1>5. evict_dynamic(table) = [entries |-> rest, max |-> table.max]
    BY <1>2 DEF rest
  <1>6. evict_dynamic(table).entries = rest /\ evict_dynamic(table).max = table.max
    BY <1>5
  <1>7. evict_dynamic(table) \in Tables
    BY <1>1, <1>3, <1>5 DEF Tables
  <1>8. QED
    BY <1>2, <1>3, <1>4, <1>6, <1>7, Zenon DEF Fits

LEMMA SetMaxFits ==
    ASSUME NEW table \in Tables, NEW n \in Nat
    PROVE  /\ set_max_table_size(table, n) \in Tables /\ Fits(set_max_table_size(table, n))
           /\ set_max_table_size(table, n).max = n
  <1> DEFINE t == [table EXCEPT !.max = n]
  <1>1. t \in Tables /\ t.max = n
    BY DEF Tables
  <1> HIDE DEF t
  <1>2. evict_dynamic(t) \in Tables /\ Fits(evict_dynamic(t)) /\ evict_dynamic(t).max = n
    BY <1>1, EvictFits, Zenon
  <1>3. QED
    BY <1>2, Zenon DEF set_max_table_size, t

LEMMA EmptyFits ==
    ASSUME NEW table \in Tables
    PROVE  /\ [table EXCEPT !.entries = <<>>] \in Tables
           /\ Fits([table EXCEPT !.entries = <<>>])
  <1> DEFINE t == [table EXCEPT !.entries = <<>>]
  <1>1. t \in Tables /\ t.entries = <<>> /\ t.max \in Nat
    <2>1. t = [entries |-> <<>>, max |-> table.max] /\ <<>> \in Seq(Fields)
      BY Replaced
    <2>2. table.max \in Nat
      BY DEF Tables
    <2> HIDE DEF t
    <2>3. QED
      BY <2>1, <2>2 DEF Tables
  <1> HIDE DEF t
  <1>2. Len(t.entries) = 0
    BY <1>1
  <1>3. table_size(t.entries, Len(t.entries)) = 0
    BY <1>2, TableSizeNone
  <1>4. QED
    BY <1>1, <1>3 DEF Fits, t

LEMMA AddFits ==
    ASSUME NEW table \in Tables, NEW field \in Fields
    PROVE  add_dynamic(table, field) \in Tables /\ Fits(add_dynamic(table, field))
  <1> DEFINE t == [table EXCEPT !.entries = <<field>> \o table.entries]
  <1>1. t \in Tables
    <2> DEFINE e == <<field>> \o table.entries
    <2>1. t = [entries |-> e, max |-> table.max]
      BY Replaced, Zenon
    <2>2. table.max \in Nat /\ table.entries \in Seq(Fields)
      BY DEF Tables
    <2>3. e \in Seq(Fields)
      BY <2>2
    <2> HIDE DEF t, e
    <2>4. QED
      BY <2>1, <2>2, <2>3 DEF Tables
  <1> HIDE DEF t
  <1>2. evict_dynamic(t) \in Tables /\ Fits(evict_dynamic(t))
    BY <1>1, EvictFits, Zenon
  <1>3. QED
    BY <1>2, EmptyFits, Zenon DEF add_dynamic, t

----------------------------------------------------------------------------
(* Decoding a block.                                                       *)
Decoded(state) ==
    /\ state \in [table : Tables, fields : Seq(Fields), ok : BOOLEAN]
    /\ Fits(state.table)

LEMMA InstructionDecoded ==
    ASSUME NEW state, Decoded(state), NEW i \in Instructions
    PROVE  Decoded(decode_instruction(state, i))
  <1> DEFINE States == [table : Tables, fields : Seq(Fields), ok : BOOLEAN]
             next == decode_instruction(state, i)
  <1>1. /\ state \in States /\ state.table \in Tables /\ state.fields \in Seq(Fields)
        /\ Fits(state.table)
    BY DEF Decoded
  <1>2. CASE ~state.ok \/ invalid(state, i)
    <2>1. next = [state EXCEPT !.ok = FALSE]
      BY <1>2 DEF decode_instruction
    <2> HIDE DEF next
    <2>2. next \in States /\ next.table = state.table
      BY <1>1, <2>1
    <2>3. QED
      BY <1>1, <2>2 DEF Decoded, next
  <1>3. CASE ~(~state.ok \/ invalid(state, i)) /\ i.op = "resize"
    <2>1. next = [state EXCEPT !.table = set_max_table_size(state.table, i.n)]
      BY <1>3 DEF decode_instruction
    <2>2. i.n \in Nat
      BY <1>3 DEF Instructions
    <2> DEFINE t == set_max_table_size(state.table, i.n)
    <2>3. t \in Tables /\ Fits(t)
      BY <1>1, <2>2, SetMaxFits, Zenon
    <2> HIDE DEF next, t
    <2>4. next \in States /\ next.table = t
      BY <1>1, <2>1, <2>3 DEF t
    <2>5. QED
      BY <2>3, <2>4 DEF Decoded, next
  <1>4. CASE ~(~state.ok \/ invalid(state, i)) /\ i.op = "index"
    <2> DEFINE e == state.table.entries
    <2>1. next = [state EXCEPT !.fields = Append(state.fields, e[i.n])]
      BY <1>4 DEF decode_instruction
    <2>2. i.n \in Nat \ {0}
      BY <1>4 DEF Instructions
    <2>3. e \in Seq(Fields) /\ ~(i.n > Len(e))
      BY <1>1, <1>4 DEF Tables, invalid
    <2> HIDE DEF next, e
    <2>4. e[i.n] \in Fields
      BY <2>2, <2>3
    <2> DEFINE longer == Append(state.fields, e[i.n])
    <2>a. longer \in Seq(Fields)
      BY <1>1, <2>4
    <2> HIDE DEF longer
    <2>5. next \in States /\ next.table = state.table
      BY <1>1, <2>1, <2>a DEF longer
    <2>6. QED
      BY <1>1, <2>5 DEF Decoded, next
  <1>5. CASE ~(~state.ok \/ invalid(state, i)) /\ i.op = "insert"
    <2>1. next = [state EXCEPT !.fields = Append(state.fields, i.field),
                               !.table = add_dynamic(state.table, i.field)]
      BY <1>5 DEF decode_instruction
    <2>2. i.field \in Fields
      BY <1>5 DEF Instructions
    <2> DEFINE t == add_dynamic(state.table, i.field)
    <2>3. t \in Tables /\ Fits(t)
      BY <1>1, <2>2, AddFits, Zenon
    <2> DEFINE longer == Append(state.fields, i.field)
    <2>a. longer \in Seq(Fields)
      BY <1>1, <2>2
    <2>b. next = [state EXCEPT !.fields = longer, !.table = t]
      BY <2>1
    <2> HIDE DEF next, t, longer
    <2>4. next \in States /\ next.table = t
      BY <1>1, <2>3, <2>a, <2>b
    <2>5. QED
      BY <2>3, <2>4 DEF Decoded, next
  <1>6. CASE ~(~state.ok \/ invalid(state, i)) /\ i.op \notin {"resize", "index", "insert"}
    <2>1. next = [state EXCEPT !.fields = Append(state.fields, i.field)]
      BY <1>6 DEF decode_instruction
    <2>2. i.field \in Fields
      BY <1>6 DEF Instructions
    <2> HIDE DEF next
    <2>3. next \in States /\ next.table = state.table
      BY <1>1, <2>1, <2>2
    <2>4. QED
      BY <1>1, <2>3 DEF Decoded, next
  <1>7. QED
    BY <1>2, <1>3, <1>4, <1>5, <1>6, Zenon

Start(table) == [table |-> table, fields |-> <<>>, ok |-> TRUE]

\* f[i] is the state of the decoder behind the first i instructions, up to n of them.
Decodes(f, table, block, n) ==
    f = [i \in 0 .. n |-> IF i = 0 THEN Start(table) ELSE decode_instruction(f[i - 1], block[i])]

LEMMA DecodesExist ==
    ASSUME NEW table, NEW block, NEW n \in Nat
    PROVE  \E f : Decodes(f, table, block, n)
  <1> DEFINE Bad == {k \in Nat : ~ \E f : Decodes(f, table, block, k)}
  <1>1. Bad = {}
    <2>1. SUFFICES ASSUME Bad # {} PROVE FALSE
      BY Zenon
    <2> DEFINE m == Min(Bad)
    <2>2. m \in Bad /\ \A y \in Bad : m <= y
      <3>1. Bad \in SUBSET Nat
        OBVIOUS
      <3> HIDE DEF Bad
      <3>2. QED
        BY <2>1, <3>1, Least
    <2>3. m \in Nat /\ ~ \E f : Decodes(f, table, block, m)
      BY <2>2, Zenon
    <2> HIDE DEF m
    <2>4. m # 0
      <3>1. ASSUME m = 0 PROVE FALSE
        <4>1. Decodes([i \in 0 .. 0 |-> Start(table)], table, block, 0)
          BY DEF Decodes
        <4>2. QED
          BY <2>3, <3>1, <4>1, Zenon
      <3>2. QED
        BY <3>1
    <2>5. m - 1 \in Nat /\ ~(m <= m - 1)
      BY <2>3, <2>4
    <2>6. PICK g : Decodes(g, table, block, m - 1)
      BY <2>2, <2>5, Zenon
    <2> DEFINE f == [i \in 0 .. m |-> IF i < m THEN g[i] ELSE decode_instruction(g[i - 1], block[i])]
    <2>7. ASSUME NEW i \in 0 .. m
          PROVE  f[i] = IF i = 0 THEN Start(table) ELSE decode_instruction(f[i - 1], block[i])
      <3>1. CASE i < m
        <4>1. i \in 0 .. m - 1 /\ f[i] = g[i]
          BY <2>3, <3>1
        <4>2. f[i] = IF i = 0 THEN Start(table) ELSE decode_instruction(g[i - 1], block[i])
          <5>1. g[i] = IF i = 0 THEN Start(table) ELSE decode_instruction(g[i - 1], block[i])
            BY <2>6, <4>1, Zenon DEF Decodes
          <5>2. QED
            BY <4>1, <5>1, Zenon
        <4>3. i # 0 => f[i - 1] = g[i - 1]
          BY <2>3, <3>1
        <4> HIDE DEF f
        <4>4. QED
          BY <4>2, <4>3, Zenon
      <3>2. CASE ~(i < m)
        <4>1. i = m /\ i # 0
          BY <2>3, <2>4, <3>2
        <4>2. f[i] = decode_instruction(g[i - 1], block[i])
          BY <3>2, Zenon
        <4>3. f[i - 1] = g[i - 1]
          BY <2>3, <4>1
        <4> HIDE DEF f
        <4>4. QED
          BY <4>1, <4>2, <4>3, Zenon
      <3>3. QED
        BY <3>1, <3>2
    <2>8. f = [i \in 0 .. m |-> f[i]]
      BY Zenon
    <2> HIDE DEF f
    <2>9. Decodes(f, table, block, m)
      BY <2>7, <2>8, Zenon DEF Decodes
    <2>10. QED
      BY <2>3, <2>9, Zenon
  <1>2. QED
    BY <1>1, Zenon

\* decode_header_block keeps the table within its limit, whatever the block.
LEMMA BlockDecoded ==
    ASSUME NEW table \in Tables, Fits(table), NEW block \in Seq(Instructions)
    PROVE  Decoded(decode_header_block(table, block))
  <1> DEFINE n == Len(block)
             f == CHOOSE g : Decodes(g, table, block, n)
  <1>1. n \in Nat /\ n \in 0 .. n /\ \A i \in 1 .. n : block[i] \in Instructions
    OBVIOUS
  <1> HIDE DEF n
  <1>2. Decodes(f, table, block, n)
    BY <1>1, DecodesExist, Zenon
  <1>3. decode_header_block(table, block) = f[n]
    BY Zenon DEF decode_header_block, Decodes, Start, n
  <1> HIDE DEF f
  <1> DEFINE Bad == {i \in 0 .. n : ~Decoded(f[i])}
  <1>4. Bad = {}
    <2>1. SUFFICES ASSUME Bad # {} PROVE FALSE
      BY Zenon
    <2> DEFINE m == Min(Bad)
    <2>2. m \in Bad /\ \A y \in Bad : m <= y
      <3>1. Bad \in SUBSET Nat
        OBVIOUS
      <3> HIDE DEF Bad
      <3>2. QED
        BY <2>1, <3>1, Least
    <2>3. m \in 0 .. n /\ ~Decoded(f[m])
      BY <2>2, Zenon
    <2> HIDE DEF m
    <2>4. f[m] = IF m = 0 THEN Start(table) ELSE decode_instruction(f[m - 1], block[m])
      BY <1>2, <2>3, Zenon DEF Decodes
    <2>5. m # 0
      <3>1. Decoded(Start(table))
        BY DEF Decoded, Start
      <3>2. QED
        BY <2>3, <2>4, <3>1, Zenon
    <2>6. m - 1 \in 0 .. n /\ ~(m <= m - 1) /\ m \in 1 .. n
      BY <1>1, <2>3, <2>5
    <2>7. Decoded(f[m - 1]) /\ block[m] \in Instructions
      BY <1>1, <2>2, <2>6, Zenon
    <2>8. Decoded(decode_instruction(f[m - 1], block[m]))
      BY <2>7, InstructionDecoded, Zenon
    <2>9. QED
      BY <2>3, <2>4, <2>5, <2>8, Zenon
  <1>5. Decoded(f[n])
    BY <1>1, <1>4, Zenon
  <1>6. QED
    BY <1>3, <1>5, Zenon

----------------------------------------------------------------------------
(***************************************************************************)
(* A decoder whose table has all that the encoder's has, in its place, and *)
(* room for at least as much.                                              *)
(***************************************************************************)
Follows(t, d) ==
    /\ t.max <= d.max /\ Len(t.entries) <= Len(d.entries)
    /\ \A i \in 1 .. Len(t.entries) : d.entries[i] = t.entries[i]

LEMMA TableSizeFirst ==
    ASSUME NEW entries \in Seq(Fields), NEW n \in 1 .. Len(entries)
    PROVE  Size[entries[1]] <= table_size(entries, n)
  <1> DEFINE sizes == [i \in 1 .. n |-> Size[entries[i]]]
             first == Size[entries[1]]
  <1>1. \A i \in 1 .. n : entries[i] \in Fields
    OBVIOUS
  <1>2. n \in Nat /\ 1 \in 1 .. n
    OBVIOUS
  <1>3. sizes \in Seq(Nat) /\ sizes # <<>> /\ first \in Nat /\ Head(sizes) = first
    BY <1>1, <1>2, HpackAssumption
  <1>4. table_size(entries, n) = Total(sizes)
    BY DEF table_size
  <1> HIDE DEF sizes, first
  <1>5. sizes = <<first>> \o Tail(sizes) /\ Tail(sizes) \in Seq(Nat) /\ <<first>> \in Seq(Nat)
    BY <1>3
  <1>6. Total(<<first>> \o Tail(sizes)) = Total(<<first>>) + Total(Tail(sizes))
    BY <1>5, TotalConcat, Zenon
  <1>7. Total(<<first>>) = first /\ Total(Tail(sizes)) \in Nat
    BY <1>3, <1>5, TotalOne, TotalNat
  <1>8. Total(sizes) = first + Total(Tail(sizes))
    BY <1>5, <1>6, <1>7, Zenon
  <1>9. QED
    BY <1>3, <1>4, <1>7, <1>8 DEF first

With(table, field) == [entries |-> <<field>> \o table.entries, max |-> table.max]

LEMMA WithTyped ==
    ASSUME NEW table \in Tables, NEW field \in Fields
    PROVE  /\ With(table, field) \in Tables /\ With(table, field).max = table.max
           /\ With(table, field).entries = <<field>> \o table.entries
           /\ Len(With(table, field).entries) = Len(table.entries) + 1
           /\ With(table, field).entries[1] = field
           /\ \A i \in 1 .. Len(table.entries) : With(table, field).entries[i + 1] = table.entries[i]
  <1> DEFINE e == <<field>> \o table.entries
  <1>1. table.max \in Nat /\ table.entries \in Seq(Fields)
    BY DEF Tables
  <1>2. /\ e \in Seq(Fields) /\ Len(e) = Len(table.entries) + 1 /\ e[1] = field
        /\ \A i \in 1 .. Len(table.entries) : e[i + 1] = table.entries[i]
    BY <1>1
  <1> HIDE DEF e
  <1>3. With(table, field) = [entries |-> e, max |-> table.max]
    BY DEF With, e
  <1>4. With(table, field).entries = e /\ With(table, field).max = table.max
    BY <1>3
  <1>5. With(table, field) \in Tables
    BY <1>1, <1>2, <1>3 DEF Tables
  <1>6. QED
    BY <1>2, <1>4, <1>5 DEF e

\* An entry that is larger than the table is evicted with all the others.
LEMMA AddEvicts ==
    ASSUME NEW table \in Tables, NEW field \in Fields
    PROVE  add_dynamic(table, field) = evict_dynamic(With(table, field))
  <1> DEFINE w == With(table, field)
  <1>1. w \in Tables /\ w.max = table.max /\ w.entries[1] = field
    BY WithTyped
  <1>2. [table EXCEPT !.entries = <<field>> \o table.entries] = w
    BY Replaced, Zenon DEF With
  <1>3. CASE ~(Size[field] > table.max)
    BY <1>2, <1>3, Zenon DEF add_dynamic
  <1>4. CASE Size[field] > table.max
    <2> HIDE DEF w
    <2>1. PICK k \in 0 .. Len(w.entries) :
            /\ evict_dynamic(w) = [entries |-> SubSeq(w.entries, 1, k), max |-> w.max]
            /\ table_size(w.entries, k) <= w.max
      BY <1>1, EvictKeeps
    <2>2. w.entries \in Seq(Fields) /\ w.max \in Nat /\ Size[field] \in Nat
      BY <1>1, HpackAssumption DEF Tables
    <2>3. k = 0
      <3>1. ASSUME k \in 1 .. Len(w.entries) PROVE FALSE
        <4>1. Size[field] <= table_size(w.entries, k)
          BY <1>1, <2>2, <3>1, TableSizeFirst
        <4>2. table_size(w.entries, k) \in Nat
          BY <2>2, TableSizeNat
        <4>3. QED
          BY <1>1, <1>4, <2>1, <2>2, <4>1, <4>2
      <3>2. QED
        BY <2>2, <3>1
    <2>4. SubSeq(w.entries, 1, k) = <<>>
      BY <2>2, <2>3
    <2>5. add_dynamic(table, field) = [entries |-> <<>>, max |-> table.max]
      BY <1>4, Replaced, Zenon DEF add_dynamic
    <2>6. QED
      BY <1>1, <2>1, <2>4, <2>5 DEF w
  <1>5. QED
    BY <1>3, <1>4

LEMMA FollowsOnEviction ==
    ASSUME NEW t \in Tables, NEW d \in Tables, Follows(t, d)
    PROVE  /\ Follows(evict_dynamic(t), evict_dynamic(d))
           /\ Fits(t) => Follows(t, evict_dynamic(d))
  <1> DEFINE s == t.entries
             e == d.entries
  <1>1. /\ s \in Seq(Fields) /\ e \in Seq(Fields) /\ t.max \in Nat /\ d.max \in Nat
        /\ t.max <= d.max /\ Len(s) <= Len(e) /\ \A i \in 1 .. Len(s) : e[i] = s[i]
    BY DEF Tables, Follows
  <1>2. PICK k \in 0 .. Len(s) :
          /\ evict_dynamic(t) = [entries |-> SubSeq(s, 1, k), max |-> t.max]
          /\ table_size(s, k) <= t.max
    BY EvictKeeps
  <1>3. PICK m \in 0 .. Len(e) :
          /\ evict_dynamic(d) = [entries |-> SubSeq(e, 1, m), max |-> d.max]
          /\ \A n \in 0 .. Len(e) : table_size(e, n) <= d.max => n <= m
    BY EvictKeeps
  <1> DEFINE a == SubSeq(s, 1, k)
             b == SubSeq(e, 1, m)
  <1>4. Fits(t) => table_size(s, Len(s)) <= t.max
    BY DEF Fits
  <1>5. evict_dynamic(t).entries = a /\ evict_dynamic(t).max = t.max
        /\ evict_dynamic(d).entries = b /\ evict_dynamic(d).max = d.max
    BY <1>2, <1>3
  <1> HIDE DEF s, e
  <1>6. ASSUME NEW n \in 0 .. Len(s), table_size(s, n) <= t.max PROVE n <= m
    <2>1. \A i \in 1 .. n : s[i] = e[i]
      BY <1>1
    <2>2. table_size(s, n) = table_size(e, n)
      BY <2>1, TableSizeSame, Zenon
    <2>3. n \in 0 .. Len(e) /\ table_size(e, n) \in Nat
      <3>1. n \in 0 .. Len(e)
        BY <1>1
      <3>2. QED
        BY <1>1, <3>1, TableSizeNat
    <2>4. table_size(e, n) <= d.max
      BY <1>1, <1>6, <2>2, <2>3
    <2>5. QED
      BY <1>3, <2>3, <2>4
  <1>7. k <= m
    BY <1>2, <1>6
  <1>8. /\ Len(a) = k /\ \A i \in 1 .. k : a[i] = s[i]
        /\ Len(b) = m /\ \A i \in 1 .. m : b[i] = e[i]
    BY <1>1
  <1> HIDE DEF a, b
  <1>9. Follows(evict_dynamic(t), evict_dynamic(d))
    BY <1>1, <1>5, <1>7, <1>8 DEF Follows
  <1>10. ASSUME Fits(t) PROVE Follows(t, evict_dynamic(d))
    <2>1. Len(s) <= m
      BY <1>1, <1>4, <1>6, <1>10
    <2>2. QED
      BY <1>1, <1>5, <1>8, <2>1 DEF Follows, s
  <1>11. QED
    BY <1>9, <1>10

\* Blocks of one and of two instructions.
LEMMA BlockOfOne ==
    ASSUME NEW table, NEW i
    PROVE  decode_header_block(table, <<i>>) = decode_instruction(Start(table), i)
  <1> DEFINE block == <<i>>
             f == CHOOSE g : Decodes(g, table, block, 1)
  <1>1. Len(block) = 1 /\ block[1] = i
    OBVIOUS
  <1>2. Decodes(f, table, block, 1)
    BY DecodesExist, Zenon
  <1>3. decode_header_block(table, block) = f[1]
    BY <1>1, Zenon DEF decode_header_block, Decodes, Start
  <1> HIDE DEF f, block
  <1>4. f[0] = Start(table) /\ f[1] = decode_instruction(f[0], block[1])
    BY <1>2 DEF Decodes
  <1>5. QED
    BY <1>1, <1>3, <1>4, Zenon DEF block

LEMMA BlockOfTwo ==
    ASSUME NEW table, NEW i, NEW j
    PROVE  decode_header_block(table, <<i, j>>)
             = decode_instruction(decode_instruction(Start(table), i), j)
  <1> DEFINE block == <<i, j>>
             f == CHOOSE g : Decodes(g, table, block, 2)
  <1>1. Len(block) = 2 /\ block[1] = i /\ block[2] = j
    OBVIOUS
  <1>2. Decodes(f, table, block, 2)
    BY DecodesExist, Zenon
  <1>3. decode_header_block(table, block) = f[2]
    BY <1>1, Zenon DEF decode_header_block, Decodes, Start
  <1> HIDE DEF f, block
  <1>4. /\ f[0] = Start(table) /\ f[1] = decode_instruction(f[0], block[1])
        /\ f[2] = decode_instruction(f[1], block[2])
    BY <1>2 DEF Decodes
  <1>5. QED
    BY <1>1, <1>3, <1>4, Zenon DEF block

-----------------------------------------------------------------------------
(* The connection.                                                         *)

Ids == Streams \cup {n \in Nat : n % 2 = 0}

WrittenTypes == {"window_update", "response", "408", "goaway", "settings or ping"}
Causes == {"compression", "protocol", "closed", "calm"}

Outputs == [type : WrittenTypes, id : Nat, n : Nat] \cup [type : {"rst_stream"}, id : Nat, n : Causes]

Pendings == [id : Streams, end_stream : BOOLEAN, block : Seq(Instructions)]

OpenStreams ==
    [fields : Seq(Fields), body : 0 .. max_request_bytes, inbound_window : 0 .. InitialWindow]

Dispatches == [id : Streams, fields : Seq(Fields), body : 0 .. max_request_bytes]

Reasons == {"none", "protocol", "flow_control", "calm", "preface", "timeout"}

(***************************************************************************)
(* The types, of what SessionTypeOK leaves out too.  The windows are never *)
(* used up: handle_data_frame restores them at once.                       *)
(***************************************************************************)
ConnectionOK ==
    /\ phase_ \in ClientPhase /\ busy \in BOOLEAN
    /\ keep_alive_after_response_ \in BOOLEAN /\ http2_active_ \in BOOLEAN
    /\ requests_served_ \in Nat /\ goaway \in Reasons
    /\ output \in Seq(Outputs)

SessionOK ==
    /\ last_client_stream_id_ \in {0} \cup Streams
    /\ connection_inbound_window_ = InitialWindow

PendingOK == pending_headers_ \in Seq(Pendings) /\ Len(pending_headers_) <= 1

StreamsOK ==
    /\ DOMAIN streams_ \subseteq Streams
    /\ \A id \in DOMAIN streams_ :
         streams_[id] \in OpenStreams /\ streams_[id].inbound_window = InitialWindow

DecoderOK == decoder_ \in Tables /\ Fits(decoder_)

FramesOK == request_buffer_ \in Seq(Frames) /\ flying \in Seq(Frames)

HistoryOK == dispatched \in Seq(Dispatches) /\ unsynced \in BOOLEAN

ClientOK ==
    /\ encoder \in Tables /\ window \in Int
    /\ answered \in [Streams -> [response : Nat, rst_stream : Nat]]

Typed ==
    /\ ConnectionOK /\ SessionOK /\ PendingOK /\ StreamsOK /\ DecoderOK
    /\ FramesOK /\ HistoryOK /\ ClientOK

(***************************************************************************)
(* What the client may still send, what the server is about to give back   *)
(* and what is under way are never more than the window the client had.    *)
(***************************************************************************)
Balance ==
    window + Credit(output) + payload(request_buffer_) + payload(flying) <= InitialWindow

----------------------------------------------------------------------------
(* Frames and what they are made of.                                       *)
LEMMA StreamsAreOdd ==
    \A id \in Streams : id \in Nat /\ id % 2 = 1 /\ id \in Ids
  BY SessionAssumption DEF Ids

LEMMA FrameTyped ==
    ASSUME NEW type \in FrameTypes, NEW id \in Ids
    PROVE  Frame(type, id) \in Frames
  BY DEF Frame, Frames, Ids

LEMMA FrameParts ==
    ASSUME NEW frame \in Frames
    PROVE  /\ frame.type \in FrameTypes /\ frame.id \in Ids /\ frame.id \in Nat
           /\ frame.end_stream \in BOOLEAN /\ frame.end_headers \in BOOLEAN
           /\ frame.block \in Seq(Instructions) /\ frame.data \in Nat
           /\ frame.value \in Nat \cup {Unset} /\ frame.bad_padding \in BOOLEAN
           /\ frame.id % 2 = 1 => frame.id \in Streams
  <1>1. /\ frame.type \in FrameTypes /\ frame.id \in Ids
        /\ frame.end_stream \in BOOLEAN /\ frame.end_headers \in BOOLEAN
        /\ frame.block \in Seq(Instructions) /\ frame.data \in Nat
        /\ frame.value \in Nat \cup {Unset} /\ frame.bad_padding \in BOOLEAN
    BY Zenon DEF Frames, Ids
  <1>2. frame.id \in Nat /\ (frame.id % 2 = 1 => frame.id \in Streams)
    <2>1. CASE frame.id \in Streams
      BY <2>1, StreamsAreOdd
    <2>2. CASE frame.id \in Nat /\ frame.id % 2 = 0
      BY <2>2
    <2>3. QED
      BY <1>1, <2>1, <2>2 DEF Ids
  <1>3. QED
    BY <1>1, <1>2, Zenon

LEMMA TypesOfFrames ==
    /\ {"preface", "settings", "ping", "http1", "headers", "continuation", "data", "rst_stream"}
         \subseteq FrameTypes
    /\ 0 \in Ids
  BY DEF FrameTypes, HandledTypes, Ids

LEMMA OpeningTyped ==
    ASSUME NEW opening \in Openings
    PROVE  opening \in Seq(Frames)
  <1> DEFINE preface == Frame("preface", 0)
             settings == Frame("settings", 0)
             ping == Frame("ping", 0)
             http1 == Frame("http1", 0)
  <1>1. preface \in Frames /\ settings \in Frames /\ ping \in Frames /\ http1 \in Frames
    BY FrameTyped, TypesOfFrames, Zenon
  <1>2. opening \in {<<preface, settings>>, <<preface, ping>>, <<http1>>}
    BY DEF Openings, ProperOpening
  <1> HIDE DEF preface, settings, ping, http1
  <1>3. <<preface, settings>> \in Seq(Frames) /\ <<preface, ping>> \in Seq(Frames) /\ <<http1>> \in Seq(Frames)
    BY <1>1
  <1>4. QED
    BY <1>2, <1>3, Zenon

LEMMA OutputsTyped ==
    /\ Timeout \in Outputs /\ Goaway \in Outputs /\ Notice \in Outputs
    /\ \A id, n \in Nat : Update(id, n) \in Outputs
    /\ \A id \in Nat : Response(id) \in Outputs
    /\ \A id \in Nat, why \in Causes : Reset(id, why) \in Outputs
  <1>1. ASSUME NEW type \in WrittenTypes, NEW id \in Nat, NEW n \in Nat
        PROVE  Written(type, id, n) \in Outputs
    BY Zenon DEF Written, Outputs
  <1>2. ASSUME NEW id \in Nat, NEW why \in Causes
        PROVE  Written("rst_stream", id, why) \in Outputs
    BY Zenon DEF Written, Outputs
  <1>3. 0 \in Nat
    OBVIOUS
  <1>4. {"408", "goaway", "settings or ping", "window_update", "response"} = WrittenTypes
    BY DEF WrittenTypes
  <1>5. QED
    BY <1>1, <1>2, <1>3, <1>4, Zenon DEF Timeout, Goaway, Notice, Update, Response, Reset

LEMMA InstructionsTyped ==
    /\ \A field \in Fields : Plain(field) \in Instructions /\ Insert(field) \in Instructions
    /\ \A n \in Nat : Resize(n) \in Instructions
    /\ \A n \in Nat \ {0} : Index(n) \in Instructions
  BY DEF Plain, Insert, Resize, Index, Instructions

\* The client's encoder evicts as the decoder does.
LEMMA FittingIs ==
    ASSUME NEW table \in Tables
    PROVE  Fitting(table.entries, table.max) = evict_dynamic(table).entries
  <1> DEFINE entries == table.entries
             kept(k) == SubSeq(entries, 1, k)
  <1>1. entries \in Seq(Fields) /\ table.max \in Nat /\ Len(entries) \in Nat
    BY DEF Tables
  <1>2. PICK k \in 0 .. Len(entries) :
          /\ evict_dynamic(table) = [entries |-> SubSeq(entries, 1, k), max |-> table.max]
          /\ table_size(entries, k) <= table.max
          /\ \A n \in 0 .. Len(entries) : table_size(entries, n) <= table.max => n <= k
    BY EvictKeeps
  <1> HIDE DEF entries
  <1>3. ASSUME NEW n \in 0 .. Len(entries)
        PROVE  Len(kept(n)) = n /\ table_size(kept(n), n) = table_size(entries, n)
    <2>1. Len(kept(n)) = n /\ \A i \in 1 .. n : kept(n)[i] = entries[i]
      BY <1>1
    <2>2. table_size(kept(n), n) = table_size(entries, n)
      BY <2>1, TableSizeSame, Zenon
    <2>3. QED
      BY <2>1, <2>2
  <1>4. Prefixes(entries) = {kept(n) : n \in 0 .. Len(entries)}
    BY Zenon DEF Prefixes
  <1> DEFINE Good(s) == /\ table_size(s, Len(s)) <= table.max
                        /\ \A other \in Prefixes(entries) :
                             table_size(other, Len(other)) <= table.max => Len(other) <= Len(s)
  <1>5. Good(kept(k))
    <2>1. table_size(kept(k), Len(kept(k))) <= table.max
      BY <1>2, <1>3, Zenon
    <2>2. ASSUME NEW other \in Prefixes(entries), table_size(other, Len(other)) <= table.max
          PROVE  Len(other) <= Len(kept(k))
      <3>1. PICK n \in 0 .. Len(entries) : other = kept(n)
        BY <1>4, Zenon
      <3>2. Len(other) = n /\ table_size(entries, n) <= table.max /\ Len(kept(k)) = k
        BY <1>3, <2>2, <3>1, Zenon
      <3>3. n <= k
        BY <1>2, <3>2, Zenon
      <3>4. QED
        BY <3>2, <3>3, Zenon
    <2>3. QED
      BY <2>1, <2>2, Zenon
  <1>6. ASSUME NEW s \in Prefixes(entries), Good(s) PROVE s = kept(k)
    <2>1. PICK n \in 0 .. Len(entries) : s = kept(n)
      BY <1>4, Zenon
    <2>2. Len(s) = n /\ Len(kept(k)) = k /\ table_size(entries, n) <= table.max
          /\ table_size(kept(k), Len(kept(k))) <= table.max /\ kept(k) \in Prefixes(entries)
      BY <1>2, <1>3, <1>4, <1>6, <2>1, Zenon
    <2>3. Len(kept(k)) <= Len(s)
      BY <1>6, <2>2, Zenon
    <2>4. n <= k
      BY <1>2, <2>2, Zenon
    <2>5. n = k
      BY <2>2, <2>3, <2>4
    <2>6. QED
      BY <2>1, <2>5, Zenon
  <1>7. kept(k) \in Prefixes(entries)
    BY <1>4, Zenon
  <1>8. Fitting(entries, table.max) = CHOOSE s \in Prefixes(entries) : Good(s)
    BY Zenon DEF Fitting
  <1> HIDE DEF Good, kept
  <1>9. Fitting(entries, table.max) = kept(k)
    BY <1>5, <1>6, <1>7, <1>8, Zenon
  <1>10. evict_dynamic(table).entries = kept(k)
    BY <1>2 DEF kept
  <1>11. QED
    BY <1>9, <1>10 DEF entries

\* What the client sends are frames, and its table stays a table.
LEMMA EncodedTyped ==
    ASSUME NEW table \in Tables, NEW field \in Fields
    PROVE  Encoded(table, field) \in Tables
  <1> DEFINE e == <<field>> \o table.entries
             t == [entries |-> e, max |-> table.max]
  <1>1. table.entries \in Seq(Fields) /\ table.max \in Nat
    BY DEF Tables
  <1>2. e \in Seq(Fields)
    BY <1>1
  <1> HIDE DEF e
  <1>3. t \in Tables /\ t.entries = e /\ t.max = table.max
    BY <1>1, <1>2 DEF Tables
  <1> HIDE DEF t
  <1>4. evict_dynamic(t) \in Tables
    BY <1>3, EvictFits, Zenon
  <1>5. evict_dynamic(t).entries \in Seq(Fields)
    BY <1>4 DEF Tables
  <1>6. Fitting(e, table.max) = evict_dynamic(t).entries
    BY <1>3, FittingIs, Zenon
  <1>7. Encoded(table, field) = [entries |-> Fitting(e, table.max), max |-> table.max]
    BY Replaced, Zenon DEF Encoded, e
  <1>8. QED
    BY <1>1, <1>5, <1>6, <1>7 DEF Tables

LEMMA ShrunkTyped ==
    ASSUME NEW table \in Tables, NEW n \in Nat
    PROVE  Shrunk(table, n) \in Tables
  <1> DEFINE t == [entries |-> table.entries, max |-> n]
  <1>1. t \in Tables /\ t.entries = table.entries /\ t.max = n
    BY DEF Tables
  <1> HIDE DEF t
  <1>2. evict_dynamic(t) \in Tables
    BY <1>1, EvictFits, Zenon
  <1>3. evict_dynamic(t).entries \in Seq(Fields)
    BY <1>2 DEF Tables
  <1>4. Fitting(table.entries, n) = evict_dynamic(t).entries
    BY <1>1, FittingIs, Zenon
  <1>5. QED
    BY <1>3, <1>4 DEF Tables, Shrunk

LEMMA EncodingsTyped ==
    ASSUME NEW table \in Tables, NEW field \in Fields, NEW e \in Encodings(table, field)
    PROVE  e[1] \in Seq(Instructions) /\ Len(e[1]) > 0 /\ e[2] \in Tables
  <1>1. CASE e = <<<<Plain(field)>>, table>>
    <2> DEFINE i == Plain(field)
    <2>1. i \in Instructions
      BY InstructionsTyped, Zenon
    <2> HIDE DEF i
    <2>2. QED
      BY <1>1, <2>1 DEF i
  <1>2. CASE e = <<<<Insert(field)>>, Encoded(table, field)>>
    <2> DEFINE i == Insert(field)
               t == Encoded(table, field)
    <2>1. i \in Instructions /\ t \in Tables
      BY InstructionsTyped, EncodedTyped, Zenon
    <2>2. e = <<<<i>>, t>>
      BY <1>2
    <2> HIDE DEF i, t
    <2>3. QED
      BY <2>1, <2>2
  <1>3. CASE \E n \in DOMAIN table.entries : e = <<<<Index(n)>>, table>>
    <2>1. PICK n \in DOMAIN table.entries : e = <<<<Index(n)>>, table>>
      BY <1>3
    <2>2. n \in Nat \ {0}
      <3>1. table.entries \in Seq(Fields)
        BY DEF Tables
      <3>2. QED
        BY <2>1, <3>1
    <2> DEFINE i == Index(n)
    <2>3. i \in Instructions
      BY <2>2, InstructionsTyped, Zenon
    <2> HIDE DEF i
    <2>4. QED
      BY <2>1, <2>3 DEF i
  <1>4. CASE \E n \in TableSizes : e = <<<<Resize(n), Insert(field)>>, Encoded(Shrunk(table, n), field)>>
    <2>1. PICK n \in TableSizes : e = <<<<Resize(n), Insert(field)>>, Encoded(Shrunk(table, n), field)>>
      BY <1>4
    <2>2. n \in Nat
      BY SessionAssumption
    <2> DEFINE i == Resize(n)
               j == Insert(field)
               t == Encoded(Shrunk(table, n), field)
    <2>3. i \in Instructions /\ j \in Instructions /\ t \in Tables
      BY <2>2, InstructionsTyped, EncodedTyped, ShrunkTyped, Zenon
    <2>4. e = <<<<i, j>>, t>>
      BY <2>1
    <2> HIDE DEF i, j, t
    <2>5. QED
      BY <2>3, <2>4
  <1>5. QED
    BY <1>1, <1>2, <1>3, <1>4, Zenon DEF Encodings

LEMMA NoPayload ==
    ASSUME NEW a, NEW b, a.data = 0, b.data = 0
    PROVE  payload(<<a>>) = 0 /\ payload(<<a, b>>) = 0
  <1>1. /\ [i \in DOMAIN <<a>> |-> <<a>>[i].data] = <<0>>
        /\ [i \in DOMAIN <<a, b>> |-> <<a, b>>[i].data] = <<0>> \o <<0>>
    OBVIOUS
  <1>2. Total(<<0>>) = 0
    BY TotalOne
  <1>3. Total(<<0>> \o <<0>>) = 0
    <2>1. <<0>> \in Seq(Nat)
      OBVIOUS
    <2>2. Total(<<0>> \o <<0>>) = Total(<<0>>) + Total(<<0>>)
      BY <2>1, TotalConcat
    <2>3. QED
      BY <1>2, <2>2
  <1>4. QED
    BY <1>1, <1>2, <1>3, Zenon DEF payload

LEMMA HeaderFramesTyped ==
    ASSUME NEW id \in Streams, NEW block \in Seq(Instructions), Len(block) > 0,
           NEW end_stream \in BOOLEAN, NEW frames \in HeaderFrames(id, block, end_stream)
    PROVE  frames \in Seq(Frames) /\ payload(frames) = 0
  <1> DEFINE frame == [Frame("headers", id) EXCEPT !.end_stream = end_stream]
             whole == [frame EXCEPT !.block = block]
             first == [frame EXCEPT !.block = Front(block), !.end_headers = FALSE]
             second == [Frame("continuation", id) EXCEPT !.block = <<Last(block)>>]
  <1>1. Frame("headers", id) \in Frames /\ Frame("continuation", id) \in Frames
        /\ Frame("headers", id).data = 0 /\ Frame("continuation", id).data = 0
    <2>1. "headers" \in FrameTypes /\ "continuation" \in FrameTypes /\ id \in Ids
      BY TypesOfFrames, StreamsAreOdd
    <2>2. Frame("headers", id) \in Frames /\ Frame("continuation", id) \in Frames
      BY <2>1, FrameTyped, Zenon
    <2>3. Frame("headers", id).data = 0 /\ Frame("continuation", id).data = 0
      BY DEF Frame
    <2>4. QED
      BY <2>2, <2>3, Zenon
  <1>2. /\ Front(block) \in Seq(Instructions) /\ Last(block) \in Instructions
        /\ <<Last(block)>> \in Seq(Instructions)
    BY DEF Front, Last
  <1>3. frame \in Frames /\ frame.data = 0
    BY <1>1 DEF Frames
  <1> HIDE DEF frame
  <1>4. whole \in Frames /\ first \in Frames /\ second \in Frames
        /\ whole.data = 0 /\ first.data = 0 /\ second.data = 0
    BY <1>1, <1>2, <1>3 DEF Frames
  <1>5. frames = <<whole>> \/ frames = <<first, second>>
    BY Zenon DEF HeaderFrames, frame
  <1> HIDE DEF whole, first, second
  <1>6. <<whole>> \in Seq(Frames) /\ <<first, second>> \in Seq(Frames)
    BY <1>4
  <1>7. payload(<<whole>>) = 0 /\ payload(<<first, second>>) = 0
    BY <1>4, NoPayload, Zenon
  <1>8. QED
    BY <1>5, <1>6, <1>7, Zenon

----------------------------------------------------------------------------
(* What a sequence of frames carries, and what the server gives back.      *)
LEMMA PayloadNat ==
    ASSUME NEW s \in Seq(Frames)
    PROVE  [i \in DOMAIN s |-> s[i].data] \in Seq(Nat) /\ payload(s) \in Nat
  <1> DEFINE d == [i \in DOMAIN s |-> s[i].data]
  <1>1. \A i \in DOMAIN s : s[i] \in Frames
    OBVIOUS
  <1>2. \A i \in DOMAIN s : s[i].data \in Nat
    BY <1>1, FrameParts, Zenon
  <1>3. d \in Seq(Nat)
    BY <1>2
  <1> HIDE DEF d
  <1>4. Total(d) \in Nat
    BY <1>3, TotalNat
  <1>5. QED
    BY <1>3, <1>4 DEF payload, d

LEMMA PayloadNone == payload(<<>>) = 0
  <1>1. [i \in DOMAIN <<>> |-> <<>>[i].data] = <<>>
    OBVIOUS
  <1>2. QED
    BY <1>1, TotalNone DEF payload

LEMMA PayloadOne ==
    ASSUME NEW frame, frame.data \in Nat
    PROVE  payload(<<frame>>) = frame.data
  <1>1. [i \in DOMAIN <<frame>> |-> <<frame>>[i].data] = <<frame.data>>
    OBVIOUS
  <1>2. QED
    BY <1>1, TotalOne DEF payload

DataOf(frame) == frame.data

LEMMA PayloadConcat ==
    ASSUME NEW s \in Seq(Frames), NEW t \in Seq(Frames)
    PROVE  payload(s \o t) = payload(s) + payload(t)
  <1> DEFINE d(r) == [i \in DOMAIN r |-> DataOf(r[i])]
  <1>1. d(s) \in Seq(Nat) /\ d(t) \in Seq(Nat)
    BY PayloadNat, Zenon DEF DataOf
  <1>2. d(s \o t) = d(s) \o d(t)
    BY SMTT(30)
  <1> HIDE DEF d
  <1>3. Total(d(s) \o d(t)) = Total(d(s)) + Total(d(t))
    BY <1>1, TotalConcat, Zenon
  <1>4. payload(s \o t) = Total(d(s \o t)) /\ payload(s) = Total(d(s)) /\ payload(t) = Total(d(t))
    BY Zenon DEF payload, d, DataOf
  <1>5. QED
    BY <1>2, <1>3, <1>4, Zenon

LEMMA OpeningEmpty ==
    ASSUME NEW opening \in Openings
    PROVE  payload(opening) = 0
  <1> DEFINE preface == Frame("preface", 0)
             settings == Frame("settings", 0)
             ping == Frame("ping", 0)
             http1 == Frame("http1", 0)
  <1>1. preface \in Frames /\ settings \in Frames /\ ping \in Frames /\ http1 \in Frames
    BY FrameTyped, TypesOfFrames, Zenon
  <1>2. preface.data = 0 /\ settings.data = 0 /\ ping.data = 0 /\ http1.data = 0
    BY DEF Frame
  <1>3. opening \in {<<preface, settings>>, <<preface, ping>>, <<http1>>}
    BY DEF Openings, ProperOpening
  <1> HIDE DEF preface, settings, ping, http1
  <1>4. QED
    BY <1>2, <1>3, NoPayload, Zenon

LEMMA PayloadSplit ==
    ASSUME NEW s \in Seq(Frames), NEW n \in 0 .. Len(s)
    PROVE  /\ SubSeq(s, 1, n) \in Seq(Frames) /\ SubSeq(s, n + 1, Len(s)) \in Seq(Frames)
           /\ payload(s) = payload(SubSeq(s, 1, n)) + payload(SubSeq(s, n + 1, Len(s)))
  <1> DEFINE a == SubSeq(s, 1, n)
             b == SubSeq(s, n + 1, Len(s))
  <1>1. a \in Seq(Frames) /\ b \in Seq(Frames) /\ s = a \o b
    <2>1. a \in Seq(Frames) /\ Len(a) = n /\ \A i \in 1 .. n : a[i] = s[i]
      OBVIOUS
    <2>2. b \in Seq(Frames) /\ Len(b) = Len(s) - n /\ \A i \in 1 .. Len(s) - n : b[i] = s[n + i]
      OBVIOUS
    <2> HIDE DEF a, b
    <2>3. s = a \o b
      <3>1. 1 \in 1 .. Len(s) + 1 /\ n \in 1 - 1 .. Len(s) /\ Len(s) \in n .. Len(s)
        OBVIOUS
      <3>2. a \o b = SubSeq(s, 1, Len(s))
        BY <3>1, ConcatAdjacentSubSeq DEF a, b
      <3>3. QED
        BY <3>2, SubSeqFull
    <2>4. QED
      BY <2>1, <2>2, <2>3
  <1> HIDE DEF a, b
  <1>2. payload(a \o b) = payload(a) + payload(b)
    BY <1>1, PayloadConcat, Zenon
  <1>3. QED
    BY <1>1, <1>2, Zenon DEF a, b

LEMMA PayloadTail ==
    ASSUME NEW s \in Seq(Frames), s # <<>>
    PROVE  /\ Head(s) \in Frames /\ Tail(s) \in Seq(Frames)
           /\ payload(s) = Head(s).data + payload(Tail(s))
  <1>1. Head(s) \in Frames /\ Tail(s) \in Seq(Frames) /\ <<Head(s)>> \in Seq(Frames)
        /\ s = <<Head(s)>> \o Tail(s)
    OBVIOUS
  <1>2. payload(<<Head(s)>> \o Tail(s)) = payload(<<Head(s)>>) + payload(Tail(s))
    BY <1>1, PayloadConcat, Zenon
  <1>3. payload(<<Head(s)>>) = Head(s).data
    BY <1>1, PayloadOne, FrameParts, Zenon
  <1>4. QED
    BY <1>1, <1>2, <1>3, Zenon

CreditOf(o) == IF o.type = "window_update" /\ o.id = 0 THEN o.n ELSE 0

LEMMA CreditNat ==
    ASSUME NEW s \in Seq(Outputs)
    PROVE  [i \in DOMAIN s |-> CreditOf(s[i])] \in Seq(Nat) /\ Credit(s) \in Nat
  <1> DEFINE d == [i \in DOMAIN s |-> CreditOf(s[i])]
  <1>1. \A i \in DOMAIN s : s[i] \in Outputs
    OBVIOUS
  <1>2. ASSUME NEW o \in Outputs PROVE CreditOf(o) \in Nat
    <2>1. CASE o \in [type : WrittenTypes, id : Nat, n : Nat]
      BY <2>1 DEF CreditOf
    <2>2. CASE o \in [type : {"rst_stream"}, id : Nat, n : Causes]
      BY <2>2 DEF CreditOf
    <2>3. QED
      BY <2>1, <2>2 DEF Outputs
  <1>3. \A i \in DOMAIN s : CreditOf(s[i]) \in Nat
    BY <1>1, <1>2, Zenon
  <1>4. d \in Seq(Nat)
    BY <1>3
  <1>5. Credit(s) = Total(d)
    BY Zenon DEF Credit, CreditOf
  <1> HIDE DEF d
  <1>6. Total(d) \in Nat
    BY <1>4, TotalNat
  <1>7. QED
    BY <1>4, <1>5, <1>6 DEF d

LEMMA CreditNone == Credit(<<>>) = 0
  <1> DEFINE d == [i \in DOMAIN <<>> |-> CreditOf(<<>>[i])]
  <1>1. d = <<>>
    OBVIOUS
  <1>2. Credit(<<>>) = Total(d)
    BY Zenon DEF Credit, CreditOf
  <1>3. QED
    BY <1>1, <1>2, TotalNone, Zenon

LEMMA CreditOne ==
    ASSUME NEW o, CreditOf(o) \in Nat
    PROVE  Credit(<<o>>) = CreditOf(o)
  <1> DEFINE d == [i \in DOMAIN <<o>> |-> CreditOf(<<o>>[i])]
  <1>1. d = <<CreditOf(o)>>
    OBVIOUS
  <1>2. Credit(<<o>>) = Total(d)
    BY Zenon DEF Credit, CreditOf
  <1>3. QED
    BY <1>1, <1>2, TotalOne, Zenon

LEMMA CreditConcat ==
    ASSUME NEW s \in Seq(Outputs), NEW t \in Seq(Outputs)
    PROVE  Credit(s \o t) = Credit(s) + Credit(t)
  <1> DEFINE d(r) == [i \in DOMAIN r |-> CreditOf(r[i])]
  <1>1. d(s) \in Seq(Nat) /\ d(t) \in Seq(Nat)
    BY CreditNat, Zenon
  <1>2. d(s \o t) = d(s) \o d(t)
    BY SMTT(30)
  <1>3. \A r : Credit(r) = Total(d(r))
    BY Zenon DEF Credit, CreditOf
  <1> HIDE DEF d
  <1>4. Total(d(s) \o d(t)) = Total(d(s)) + Total(d(t))
    BY <1>1, TotalConcat, Zenon
  <1>5. QED
    BY <1>2, <1>3, <1>4, Zenon

\* Only WINDOW_UPDATE frames give anything back.
LEMMA CreditOfWritten ==
    /\ CreditOf(Goaway) = 0 /\ CreditOf(Notice) = 0 /\ CreditOf(Timeout) = 0
    /\ \A id : CreditOf(Response(id)) = 0
    /\ \A id, why : CreditOf(Reset(id, why)) = 0
    /\ \A n : CreditOf(Update(0, n)) = n
    /\ \A id, n : id # 0 => CreditOf(Update(id, n)) = 0
  BY DEF CreditOf, Goaway, Notice, Timeout, Response, Reset, Update, Written

----------------------------------------------------------------------------
(* Steps of the session, by what they do to the types.                     *)
LEMMA NewTableOK == NewTable \in Tables /\ Fits(NewTable)
  <1> DEFINE t == NewTable
  <1>1. t \in Tables /\ t.entries = <<>> /\ t.max \in Nat
    BY HpackAssumption DEF NewTable, Tables
  <1> HIDE DEF t
  <1>2. Len(t.entries) = 0
    BY <1>1
  <1>3. table_size(t.entries, Len(t.entries)) = 0
    BY <1>2, TableSizeNone
  <1>4. QED
    BY <1>1, <1>3 DEF Fits, t

LEMMA UnansweredOK ==
    [id \in Streams |-> Unanswered] \in [Streams -> [response : Nat, rst_stream : Nat]]
  BY DEF Unanswered

LEMMA NoStreams ==
    /\ DOMAIN <<>> = {}
    /\ \A S : <<>> \in Seq(S)
    /\ Len(<<>>) = 0
  OBVIOUS

LEMMA InitTyped == Init => Typed /\ Balance
  <1> SUFFICES ASSUME Init PROVE Typed /\ Balance
    OBVIOUS
  <1>1. InitialWindow \in Nat
    BY SessionAssumption
  <1>2. ConnectionOK
    BY NoStreams DEF Init, ConnectionOK, ClientPhase, Reasons
  <1>3. SessionOK /\ PendingOK /\ StreamsOK
    BY NoStreams DEF Init, SessionOK, PendingOK, StreamsOK
  <1>4. DecoderOK
    BY NewTableOK DEF Init, DecoderOK
  <1>5. FramesOK
    BY NoStreams, OpeningTyped DEF Init, FramesOK
  <1>6. HistoryOK
    BY NoStreams DEF Init, HistoryOK
  <1>7. ClientOK
    BY <1>1, NewTableOK, UnansweredOK DEF Init, ClientOK
  <1>8. Balance
    <2>1. flying \in Openings /\ window = InitialWindow /\ output = <<>> /\ request_buffer_ = <<>>
      BY DEF Init
    <2>2. payload(flying) = 0
      BY <2>1, OpeningEmpty, Zenon
    <2>3. QED
      BY <1>1, <2>1, <2>2, CreditNone, PayloadNone DEF Balance
  <1>9. QED
    BY <1>2, <1>3, <1>4, <1>5, <1>6, <1>7, <1>8 DEF Typed

LEMMA CloseTyped ==
    ASSUME Typed, close_now
    PROVE  Typed' /\ Balance'
  <1>1. InitialWindow \in Nat
    BY SessionAssumption
  <1>2. ConnectionOK'
    BY NoStreams DEF close_now, ConnectionOK, ClientPhase, Reasons
  <1>3. SessionOK' /\ PendingOK' /\ StreamsOK'
    BY NoStreams DEF close_now, SessionOK, PendingOK, StreamsOK
  <1>4. DecoderOK'
    BY EmptyFits DEF Typed, close_now, DecoderOK, reset_decoder
  <1>5. FramesOK'
    BY NoStreams DEF close_now, FramesOK
  <1>6. HistoryOK'
    BY NoStreams DEF close_now, HistoryOK
  <1>7. ClientOK'
    BY <1>1, NewTableOK, UnansweredOK DEF close_now, ClientOK
  <1>8. Balance'
    <2>1. flying' = <<>> /\ window' = InitialWindow /\ output' = <<>> /\ request_buffer_' = <<>>
      BY DEF close_now
    <2>2. QED
      BY <1>1, <2>1, CreditNone, PayloadNone DEF Balance
  <1>9. QED
    BY <1>2, <1>3, <1>4, <1>5, <1>6, <1>7, <1>8 DEF Typed

\* What the client sends leaves the server alone.
LEMMA SendTyped ==
    ASSUME Typed, Balance, NEW frames \in Seq(Frames), Send(frames), encoder' \in Tables,
           window' \in Int, window' + payload(frames) <= window
    PROVE  Typed' /\ Balance'
  <1>1. /\ UNCHANGED <<connection, request_buffer_, session, history, answered>>
        /\ flying' = flying \o frames
    BY DEF Send
  <1>2. ConnectionOK' /\ SessionOK' /\ PendingOK' /\ StreamsOK' /\ DecoderOK' /\ HistoryOK'
    BY <1>1 DEF Typed, ConnectionOK, SessionOK, PendingOK, StreamsOK, DecoderOK, HistoryOK,
                connection, session, session_data, history
  <1>3. FramesOK' /\ request_buffer_' = request_buffer_
    BY <1>1 DEF Typed, FramesOK
  <1>4. ClientOK'
    BY <1>1 DEF Typed, ClientOK
  <1>5. Balance'
    <2>1. payload(flying') = payload(flying) + payload(frames)
      BY <1>1, PayloadConcat DEF Typed, FramesOK
    <2>2. output' = output
      BY <1>1 DEF connection
    <2>3. /\ Credit(output) \in Nat /\ payload(request_buffer_) \in Nat
          /\ payload(flying) \in Nat /\ payload(frames) \in Nat /\ window \in Int
      BY CreditNat, PayloadNat DEF Typed, ConnectionOK, FramesOK, ClientOK
    <2>4. Credit(output') = Credit(output) /\ payload(request_buffer_') = payload(request_buffer_)
      BY <1>3, <2>2, Zenon
    <2>5. QED
      BY <2>1, <2>3, <2>4, SessionAssumption, SMTT(30) DEF Balance
  <1>6. QED
    BY <1>2, <1>3, <1>4, <1>5 DEF Typed

LEMMA ClientTyped ==
    ASSUME Typed, Balance, ClientStep
    PROVE  Typed' /\ Balance'
  <1>0. encoder \in Tables /\ window \in Int
    BY DEF Typed, ClientOK
  <1>1. ASSUME NEW id \in Streams, NEW field \in Fields \ BadFields, NEW end_stream \in BOOLEAN,
               ClientRequests(id, field, end_stream)
        PROVE  Typed' /\ Balance'
    <2>1. PICK e \in Encodings(encoder, field) : \E frames \in HeaderFrames(id, e[1], end_stream) :
            Sends(frames) /\ encoder' = e[2]
      BY <1>1, Zenon DEF ClientRequests
    <2>2. PICK frames \in HeaderFrames(id, e[1], end_stream) : Sends(frames) /\ encoder' = e[2]
      BY <2>1, Zenon
    <2>3. e[1] \in Seq(Instructions) /\ Len(e[1]) > 0 /\ e[2] \in Tables
      BY <1>0, EncodingsTyped
    <2>4. frames \in Seq(Frames) /\ payload(frames) = 0
      BY <2>3, HeaderFramesTyped
    <2>5. Send(frames) /\ window' = window
      BY <1>1, <2>2, Zenon DEF Sends, ClientRequests
    <2>6. window' \in Int /\ window' + payload(frames) <= window
      BY <1>0, <2>4, <2>5
    <2>7. QED
      BY <2>2, <2>3, <2>4, <2>5, <2>6, SendTyped, Zenon
  <1>2. ASSUME NEW id \in Streams, NEW n \in DataSizes, NEW padding \in PaddingSizes,
               NEW end_stream \in BOOLEAN, ClientSendsData(id, n, padding, end_stream)
        PROVE  Typed' /\ Balance'
    <2> DEFINE frame == [Frame("data", id) EXCEPT !.data = n, !.padding = padding, !.end_stream = end_stream]
    <2>1. n \in Nat /\ padding \in Nat
      BY SessionAssumption
    <2>2. frame \in Frames /\ frame.data = n
      <3>1. Frame("data", id) \in Frames
        BY FrameTyped, TypesOfFrames, StreamsAreOdd
      <3>2. QED
        BY <2>1, <3>1 DEF Frames
    <2>3. Send(<<frame>>) /\ window' = window - (n + padding) /\ encoder' = encoder
      BY <1>2, Zenon DEF ClientSendsData, Sends
    <2> HIDE DEF frame
    <2>4. <<frame>> \in Seq(Frames) /\ payload(<<frame>>) = n
      BY <2>1, <2>2, PayloadOne
    <2>5. window' \in Int /\ window' + payload(<<frame>>) <= window
      BY <1>0, <2>1, <2>3, <2>4
    <2>6. QED
      BY <1>0, <2>3, <2>4, <2>5, SendTyped, Zenon
  <1>3. ASSUME NEW id \in Streams, NEW field \in BadFields, ClientSendsTrailers(id, field)
        PROVE  Typed' /\ Balance'
    <2>0. field \in Fields
      BY SessionAssumption
    <2>1. PICK e \in Encodings(encoder, field) :
            /\ Sends(<<[Frame("headers", id) EXCEPT !.block = e[1], !.end_stream = TRUE]>>)
            /\ encoder' = e[2]
      BY <1>3, Zenon DEF ClientSendsTrailers
    <2> DEFINE frame == [Frame("headers", id) EXCEPT !.block = e[1], !.end_stream = TRUE]
    <2>2. e[1] \in Seq(Instructions) /\ e[2] \in Tables
      BY <1>0, <2>0, EncodingsTyped
    <2>3. frame \in Frames /\ frame.data = 0
      <3>1. Frame("headers", id) \in Frames /\ Frame("headers", id).data = 0
        BY FrameTyped, TypesOfFrames, StreamsAreOdd DEF Frame
      <3>2. QED
        BY <2>2, <3>1 DEF Frames
    <2>4. Send(<<frame>>) /\ window' = window
      BY <1>3, <2>1, Zenon DEF ClientSendsTrailers, Sends
    <2> HIDE DEF frame
    <2>5. <<frame>> \in Seq(Frames) /\ payload(<<frame>>) = 0
      BY <2>3, PayloadOne
    <2>6. window' \in Int /\ window' + payload(<<frame>>) <= window
      BY <1>0, <2>4, <2>5
    <2>7. QED
      BY <2>1, <2>2, <2>4, <2>5, <2>6, SendTyped, Zenon
  <1>4. ASSUME NEW id \in Streams, ClientResets(id)
        PROVE  Typed' /\ Balance'
    <2> DEFINE frame == Frame("rst_stream", id)
    <2>1. frame \in Frames /\ frame.data = 0
      BY FrameTyped, TypesOfFrames, StreamsAreOdd DEF Frame
    <2>2. Send(<<frame>>) /\ window' = window /\ encoder' = encoder
      BY <1>4, Zenon DEF ClientResets, Sends
    <2> HIDE DEF frame
    <2>3. <<frame>> \in Seq(Frames) /\ payload(<<frame>>) = 0
      BY <2>1, PayloadOne
    <2>4. window' \in Int /\ window' + payload(<<frame>>) <= window
      BY <1>0, <2>2, <2>3
    <2>5. QED
      BY <1>0, <2>2, <2>3, <2>4, SendTyped, Zenon
  <1>5. ASSUME NEW n \in TableSizes \cup {Unset}, ClientSettles(n)
        PROVE  Typed' /\ Balance'
    <2> DEFINE frame == [Frame("settings", 0) EXCEPT !.value = n]
    <2>1. frame \in Frames /\ frame.data = 0
      <3>1. Frame("settings", 0) \in Frames /\ Frame("settings", 0).data = 0 /\ n \in Nat \cup {Unset}
        BY FrameTyped, TypesOfFrames, SessionAssumption DEF Frame
      <3>2. QED
        BY <3>1 DEF Frames
    <2>2. Send(<<frame>>) /\ window' = window /\ encoder' = encoder
      BY <1>5, Zenon DEF ClientSettles, Sends
    <2> HIDE DEF frame
    <2>3. <<frame>> \in Seq(Frames) /\ payload(<<frame>>) = 0
      BY <2>1, PayloadOne
    <2>4. window' \in Int /\ window' + payload(<<frame>>) <= window
      BY <1>0, <2>2, <2>3
    <2>5. QED
      BY <1>0, <2>2, <2>3, <2>4, SendTyped, Zenon
  <1>6. ASSUME NEW frames \in Strays, ClientStrays(frames)
        PROVE  Typed' /\ Balance'
    <2>1. frames \in Seq(Frames)
      BY StraysAssumption
    <2>2. payload(frames) \in Nat
      BY <2>1, PayloadNat
    <2>3. Send(frames) /\ window' = window - payload(frames) /\ encoder' = encoder
      BY <1>6, Zenon DEF ClientStrays
    <2>4. window' \in Int /\ window' + payload(frames) <= window
      BY <1>0, <2>2, <2>3
    <2>5. QED
      BY <1>0, <2>1, <2>3, <2>4, SendTyped, Zenon
  <1>7. ASSUME ClientLeaves PROVE Typed' /\ Balance'
    BY <1>7, CloseTyped, Zenon DEF ClientLeaves
  <1>8. QED
    BY <1>1, <1>2, <1>3, <1>4, <1>5, <1>6, <1>7, Zenon DEF ClientStep

(* The results of the session.                                             *)
LEMMA WrittenSeqs ==
    /\ <<Goaway>> \in Seq(Outputs) /\ Credit(<<Goaway>>) = 0
    /\ <<Notice>> \in Seq(Outputs) /\ Credit(<<Notice>>) = 0
    /\ <<Timeout>> \in Seq(Outputs) /\ Credit(<<Timeout>>) = 0
    /\ <<Notice, Notice>> \in Seq(Outputs) /\ Credit(<<Notice, Notice>>) = 0
    /\ \A id \in Nat : <<Response(id)>> \in Seq(Outputs) /\ Credit(<<Response(id)>>) = 0
    /\ \A id \in Nat, why \in Causes : <<Reset(id, why)>> \in Seq(Outputs) /\ Credit(<<Reset(id, why)>>) = 0
  <1>1. ASSUME NEW o \in Outputs, CreditOf(o) = 0
        PROVE  <<o>> \in Seq(Outputs) /\ Credit(<<o>>) = 0
    BY <1>1, CreditOne
  <1>2. <<Notice, Notice>> \in Seq(Outputs) /\ Credit(<<Notice, Notice>>) = 0
    <2> DEFINE o == Notice
    <2>1. o \in Outputs /\ CreditOf(o) = 0
      BY OutputsTyped, CreditOfWritten
    <2> HIDE DEF o
    <2>2. <<o, o>> \in Seq(Outputs) /\ <<o>> \in Seq(Outputs) /\ <<o, o>> = <<o>> \o <<o>>
      BY <2>1
    <2>3. Credit(<<o>> \o <<o>>) = Credit(<<o>>) + Credit(<<o>>)
      BY <2>2, CreditConcat, Zenon
    <2>4. Credit(<<o>>) = 0
      BY <1>1, <2>1, Zenon
    <2>5. Credit(<<o, o>>) = 0
      <3>1. Credit(<<o>>) + Credit(<<o>>) = 0
        BY <2>4
      <3>2. QED
        BY <2>2, <2>3, <3>1, Zenon
    <2>6. QED
      BY <2>2, <2>5, Zenon DEF o
  <1>3. QED
    BY <1>1, <1>2, OutputsTyped, CreditOfWritten, Zenon

LEMMA SerializedOK ==
    ASSUME NEW frames \in Seq(Outputs), NEW keep_alive \in BOOLEAN,
           set_serialized_response(frames, keep_alive), requests_served_' \in Nat,
           goaway' \in Reasons, http2_active_' \in BOOLEAN
    PROVE  ConnectionOK'
  BY DEF set_serialized_response, ConnectionOK, ClientPhase

LEMMA WithoutOK ==
    ASSUME StreamsOK, NEW id, streams_' = without(id)
    PROVE  StreamsOK' /\ DOMAIN streams_' = DOMAIN streams_ \ {id}
  <1>1. streams_' = [x \in DOMAIN streams_ \ {id} |-> streams_[x]]
    BY DEF without, Restrict
  <1>2. DOMAIN streams_' = DOMAIN streams_ \ {id}
        /\ \A x \in DOMAIN streams_' : x \in DOMAIN streams_ /\ streams_'[x] = streams_[x]
    BY <1>1
  <1>3. QED
    BY <1>2 DEF StreamsOK

LEMMA FailOK ==
    ASSUME Typed, NEW why \in Reasons, fail_connection(why), http2_active_' = http2_active_
    PROVE  /\ ConnectionOK' /\ SessionOK' /\ PendingOK' /\ StreamsOK' /\ DecoderOK'
           /\ dispatched' = dispatched /\ Credit(output') = 0
  <1>1. set_serialized_response(<<Goaway>>, FALSE) /\ goaway' = why /\ requests_served_' = requests_served_
    BY DEF fail_connection
  <1>2. ConnectionOK'
    <2>1. requests_served_' \in Nat /\ http2_active_' \in BOOLEAN
      BY <1>1 DEF Typed, ConnectionOK
    <2>2. QED
      BY <1>1, <2>1, SerializedOK, WrittenSeqs
  <1>3. SessionOK' /\ DecoderOK' /\ dispatched' = dispatched
    BY DEF Typed, SessionOK, DecoderOK, fail_connection
  <1>4. PendingOK' /\ StreamsOK'
    BY NoStreams DEF PendingOK, StreamsOK, fail_connection
  <1>5. Credit(output') = 0
    BY <1>1, WrittenSeqs DEF set_serialized_response
  <1>6. QED
    BY <1>2, <1>3, <1>4, <1>5

LEMMA ResetOK ==
    ASSUME Typed, NEW id \in Nat, NEW why \in Causes, reset_stream_result(id, why),
           http2_active_' = http2_active_
    PROVE  /\ ConnectionOK' /\ StreamsOK' /\ dispatched' = dispatched /\ Credit(output') = 0
           /\ DOMAIN streams_' = DOMAIN streams_ \ {id}
  <1>1. /\ set_serialized_response(<<Reset(id, why)>>, TRUE) /\ goaway' = goaway
        /\ requests_served_' = requests_served_ /\ streams_' = without(id)
        /\ dispatched' = dispatched
    BY DEF reset_stream_result
  <1>2. ConnectionOK'
    <2>1. requests_served_' \in Nat /\ http2_active_' \in BOOLEAN /\ goaway' \in Reasons
      BY <1>1 DEF Typed, ConnectionOK
    <2>2. QED
      BY <1>1, <2>1, SerializedOK, WrittenSeqs, Zenon
  <1>3. StreamsOK' /\ DOMAIN streams_' = DOMAIN streams_ \ {id}
    BY <1>1, WithoutOK DEF Typed
  <1>4. output' = <<Reset(id, why)>>
    BY <1>1 DEF set_serialized_response
  <1>5. QED
    BY <1>1, <1>2, <1>3, <1>4, WrittenSeqs, Zenon

LEMMA QuietOK ==
    ASSUME Typed, Quiet, http2_active_' = http2_active_
    PROVE  ConnectionOK' /\ dispatched' = dispatched /\ output' = output
  BY DEF Typed, Quiet, ConnectionOK

LEMMA CompleteOK ==
    ASSUME Typed, NEW id \in Streams, NEW stream \in OpenStreams, NEW prefix \in Seq(Outputs),
           complete_stream(id, stream, prefix), http2_active_' = http2_active_
    PROVE  /\ ConnectionOK' /\ StreamsOK' /\ dispatched' \in Seq(Dispatches)
           /\ Credit(output') = Credit(prefix)
           /\ DOMAIN streams_' = DOMAIN streams_ \ {id}
  <1>1. StreamsOK' /\ DOMAIN streams_' = DOMAIN streams_ \ {id}
    BY WithoutOK DEF Typed, complete_stream
  <1>2. id \in Nat
    BY StreamsAreOdd
  <1>3. /\ prefix \o <<Response(id)>> \in Seq(Outputs)
        /\ Credit(prefix \o <<Response(id)>>) = Credit(prefix)
    <2>1. <<Response(id)>> \in Seq(Outputs) /\ Credit(<<Response(id)>>) = 0
      BY <1>2, WrittenSeqs, Zenon
    <2> DEFINE r == <<Response(id)>>
    <2> HIDE DEF r
    <2>2. r \in Seq(Outputs) /\ Credit(r) = 0
      BY <2>1 DEF r
    <2>3. prefix \o r \in Seq(Outputs) /\ Credit(prefix \o r) = Credit(prefix) + Credit(r)
      BY <2>2, CreditConcat
    <2>4. Credit(prefix) \in Nat
      BY CreditNat
    <2>5. QED
      BY <2>2, <2>3, <2>4 DEF r
  <1> DEFINE p == prefix \o <<Response(id)>>
  <1> HIDE DEF p
  <1>4. CASE Refused(id, prefix)
    <2>1. /\ set_serialized_response(p, TRUE) /\ requests_served_' = requests_served_
          /\ goaway' = goaway /\ dispatched' = dispatched
      BY <1>4 DEF Refused, p
    <2>2. p \in Seq(Outputs) /\ Credit(p) = Credit(prefix)
      BY <1>3 DEF p
    <2>3. requests_served_' \in Nat /\ http2_active_' \in BOOLEAN /\ goaway' \in Reasons
          /\ dispatched' \in Seq(Dispatches)
      BY <2>1 DEF Typed, ConnectionOK, HistoryOK
    <2>4. ConnectionOK'
      BY <2>1, <2>2, <2>3, SerializedOK
    <2>5. output' = p
      BY <2>1 DEF set_serialized_response
    <2>6. QED
      BY <1>1, <2>2, <2>3, <2>4, <2>5, Zenon
  <1>5. ASSUME NEW sent \in BOOLEAN, Served(id, stream, prefix, sent)
        PROVE  ConnectionOK' /\ dispatched' \in Seq(Dispatches) /\ Credit(output') = Credit(prefix)
    <2> DEFINE last == /\ sent /\ http_keep_alive_max_requests > 0
                       /\ requests_served_ + 1 >= http_keep_alive_max_requests
               end == IF last THEN <<Goaway>> ELSE <<>>
               request == [id |-> id, fields |-> stream.fields, body |-> stream.body]
    <2>1. /\ requests_served_' = requests_served_ + 1 /\ goaway' = goaway
          /\ dispatched' = Append(dispatched, request)
          /\ set_serialized_response(p \o end, ~last)
      BY <1>5 DEF Served, p
    <2>2. request \in Dispatches
      BY DEF OpenStreams, Dispatches
    <2>3. last \in BOOLEAN /\ (end = <<Goaway>> \/ end = <<>>)
      OBVIOUS
    <2> HIDE DEF last, end, request
    <2>4. (~last) \in BOOLEAN
      OBVIOUS
    <2>5. dispatched' \in Seq(Dispatches)
      BY <2>1, <2>2 DEF Typed, HistoryOK
    <2>6. end \in Seq(Outputs) /\ Credit(end) = 0
      BY <2>3, WrittenSeqs, CreditNone, NoStreams
    <2>7. p \in Seq(Outputs) /\ Credit(p) = Credit(prefix)
      BY <1>3 DEF p
    <2>8. p \o end \in Seq(Outputs) /\ Credit(p \o end) = Credit(p) + Credit(end) /\ Credit(p) \in Nat
      <3>1. p \in Seq(Outputs) /\ end \in Seq(Outputs)
        BY <2>6, <2>7, Zenon
      <3>2. p \o end \in Seq(Outputs)
        BY <3>1
      <3>3. QED
        BY <3>1, <3>2, CreditConcat, CreditNat, Zenon
    <2>9. requests_served_' \in Nat /\ http2_active_' \in BOOLEAN /\ goaway' \in Reasons
      BY <2>1 DEF Typed, ConnectionOK
    <2> DEFINE out == p \o end
               keep == ~last
    <2> HIDE DEF out, keep
    <2>10. out \in Seq(Outputs) /\ keep \in BOOLEAN /\ set_serialized_response(out, keep)
      BY <2>1, <2>4, <2>8, Zenon DEF out, keep
    <2>11. ConnectionOK'
      BY <2>9, <2>10, SerializedOK
    <2>12. output' = p \o end
      BY <2>1 DEF set_serialized_response
    <2>13. QED
      BY <2>5, <2>6, <2>7, <2>8, <2>11, <2>12
  <1>6. QED
    BY <1>1, <1>4, <1>5 DEF complete_stream

----------------------------------------------------------------------------
(* The server.                                                             *)
LEMMA Numbers ==
    ASSUME Typed
    PROVE  /\ InitialWindow \in Nat /\ window \in Int
           /\ Credit(output) \in Nat /\ payload(request_buffer_) \in Nat /\ payload(flying) \in Nat
  BY CreditNat, PayloadNat, SessionAssumption DEF Typed, ConnectionOK, FramesOK, ClientOK

\* The server gives back no more than it takes from the buffer.
LEMMA Balanced ==
    ASSUME Typed, Balance, ConnectionOK', request_buffer_' \in Seq(Frames),
           window' = window, flying' = flying,
           Credit(output') + payload(request_buffer_') <= Credit(output) + payload(request_buffer_)
    PROVE  Balance'
  <1>1. Credit(output') \in Nat /\ payload(request_buffer_') \in Nat
    BY CreditNat, PayloadNat DEF ConnectionOK
  <1>2. payload(flying') = payload(flying)
    BY Zenon
  <1>3. QED
    BY <1>1, <1>2, Numbers DEF Balance

\* The frame at hand.
LEMMA TakingOK ==
    ASSUME Typed, NEW types, Taking(types)
    PROVE  /\ Head(request_buffer_) \in Frames /\ request_buffer_' \in Seq(Frames)
           /\ payload(request_buffer_) = Head(request_buffer_).data + payload(request_buffer_')
           /\ payload(request_buffer_') \in Nat
           /\ FramesOK' /\ ClientOK'
           /\ http2_active_' = http2_active_ /\ window' = window /\ flying' = flying
           /\ answered' = answered
  <1>1. /\ request_buffer_ # <<>> /\ request_buffer_' = Tail(request_buffer_)
        /\ UNCHANGED <<http2_active_, client>> /\ request_buffer_ \in Seq(Frames)
    BY DEF Taking, Processing, Typed, FramesOK
  <1>2. /\ Head(request_buffer_) \in Frames /\ request_buffer_' \in Seq(Frames)
        /\ payload(request_buffer_) = Head(request_buffer_).data + payload(request_buffer_')
    BY <1>1, PayloadTail
  <1>3. payload(request_buffer_') \in Nat
    BY <1>2, PayloadNat
  <1>4. FramesOK' /\ ClientOK'
    BY <1>1, <1>2 DEF Typed, FramesOK, ClientOK, client
  <1>5. QED
    BY <1>1, <1>2, <1>3, <1>4 DEF client

\* A step that takes a frame and gives nothing back, or leaves the output as it is.
LEMMA TakenBalanced ==
    ASSUME Typed, Balance, NEW types, Taking(types), ConnectionOK',
           Credit(output') = 0 \/ output' = output
    PROVE  Balance'
  <1>1. /\ request_buffer_' \in Seq(Frames) /\ window' = window /\ flying' = flying
        /\ payload(request_buffer_) = Head(request_buffer_).data + payload(request_buffer_')
        /\ payload(request_buffer_') \in Nat /\ Head(request_buffer_) \in Frames
    BY TakingOK
  <1>2. Head(request_buffer_).data \in Nat
    BY <1>1, FrameParts
  <1>3. Credit(output') = 0 \/ Credit(output') = Credit(output)
    BY Zenon
  <1>4. Credit(output') + payload(request_buffer_') <= Credit(output) + payload(request_buffer_)
    BY <1>1, <1>2, <1>3, Numbers
  <1>5. QED
    BY <1>1, <1>4, Balanced

LEMMA PrefaceTyped ==
    ASSUME Typed, Balance,
           need_more \/ ExpectedPreface \/ \E allowed \in BOOLEAN : accept_preface(allowed)
    PROVE  Typed' /\ Balance'
  <1>1. ASSUME need_more PROVE Typed' /\ Balance'
    <2>1. UNCHANGED <<phase_, output, keep_alive_after_response_, requests_served_, goaway,
                      request_buffer_, session, history, client>> /\ busy' = FALSE
      BY <1>1 DEF need_more
    <2>2. ConnectionOK' /\ SessionOK' /\ PendingOK' /\ StreamsOK' /\ DecoderOK'
      BY <2>1 DEF Typed, ConnectionOK, SessionOK, PendingOK, StreamsOK, DecoderOK, session, session_data
    <2>3. FramesOK' /\ HistoryOK' /\ ClientOK'
      BY <2>1 DEF Typed, FramesOK, HistoryOK, ClientOK, history, client
    <2>4. Balance'
      BY <2>1 DEF Balance, client
    <2>5. QED
      BY <2>2, <2>3, <2>4 DEF Typed
  <1>2. ASSUME NEW buffer \in Seq(Frames), request_buffer_' = buffer,
               payload(buffer) <= payload(request_buffer_),
               UNCHANGED <<requests_served_, session_data, history, client>>,
               NEW out \in Seq(Outputs), NEW keep \in BOOLEAN, set_serialized_response(out, keep),
               Credit(out) = 0, goaway' \in Reasons, http2_active_' \in BOOLEAN
        PROVE  Typed' /\ Balance'
    <2>1. ConnectionOK'
      <3>1. requests_served_' \in Nat
        BY <1>2 DEF Typed, ConnectionOK
      <3>2. QED
        BY <1>2, <3>1, SerializedOK
    <2>2. SessionOK' /\ PendingOK' /\ StreamsOK' /\ DecoderOK'
      BY <1>2 DEF Typed, SessionOK, PendingOK, StreamsOK, DecoderOK, session_data
    <2>3. FramesOK' /\ HistoryOK' /\ ClientOK'
      BY <1>2 DEF Typed, FramesOK, HistoryOK, ClientOK, history, client
    <2>4. Balance'
      <3>1. window' = window /\ flying' = flying /\ Credit(output') = 0
        BY <1>2 DEF client, set_serialized_response
      <3>2. payload(request_buffer_') \in Nat /\ payload(request_buffer_') <= payload(request_buffer_)
        BY <1>2, PayloadNat
      <3>3. Credit(output') + payload(request_buffer_') <= Credit(output) + payload(request_buffer_)
        BY <3>1, <3>2, Numbers
      <3>4. QED
        BY <1>2, <2>1, <3>1, <3>3, Balanced, Zenon
    <2>5. QED
      BY <2>1, <2>2, <2>3, <2>4 DEF Typed
  <1>3. "preface" \in Reasons /\ http2_active_ \in BOOLEAN /\ goaway \in Reasons
        /\ request_buffer_ \in Seq(Frames)
    BY DEF Typed, ConnectionOK, FramesOK, Reasons
  <1>4. <<>> \in Seq(Frames) /\ payload(<<>>) <= payload(request_buffer_)
    BY PayloadNone, Numbers
  <1>5. ASSUME ExpectedPreface PROVE Typed' /\ Balance'
    <2>1. request_buffer_' = <<>> /\ Rejected /\ UNCHANGED <<requests_served_, session_data, history, client>>
      BY <1>5, Zenon DEF ExpectedPreface
    <2>2. set_serialized_response(<<Goaway>>, FALSE) /\ goaway' \in Reasons /\ http2_active_' \in BOOLEAN
      BY <1>3, <2>1 DEF Rejected
    <2>3. QED
      BY <1>2, <1>4, <2>1, <2>2, WrittenSeqs, Zenon
  <1>6. ASSUME NEW allowed \in BOOLEAN, accept_preface(allowed) PROVE Typed' /\ Balance'
    <2>0. UNCHANGED <<requests_served_, session_data, history, client>>
      BY <1>6, Zenon DEF accept_preface
    <2>1. CASE request_buffer_' = <<>> /\ Rejected
      <3>1. set_serialized_response(<<Goaway>>, FALSE) /\ goaway' \in Reasons /\ http2_active_' \in BOOLEAN
        BY <1>3, <2>1 DEF Rejected
      <3>2. QED
        BY <1>2, <1>4, <2>0, <2>1, <3>1, WrittenSeqs, Zenon
    <2>2. CASE request_buffer_' = after_preface(request_buffer_) /\ Len(request_buffer_) > 1
      <3> DEFINE rest == SubSeq(request_buffer_, 3, Len(request_buffer_))
      <3>1. rest \in Seq(Frames) /\ payload(rest) <= payload(request_buffer_)
        <4>1. 2 \in 0 .. Len(request_buffer_) /\ 2 + 1 = 3
          BY <1>3, <2>2
        <4>2. /\ SubSeq(request_buffer_, 1, 2) \in Seq(Frames) /\ rest \in Seq(Frames)
              /\ payload(request_buffer_) = payload(SubSeq(request_buffer_, 1, 2)) + payload(rest)
          BY <1>3, <4>1, PayloadSplit
        <4> HIDE DEF rest
        <4>3. payload(SubSeq(request_buffer_, 1, 2)) \in Nat /\ payload(rest) \in Nat
          BY <4>2, PayloadNat
        <4>4. QED
          BY <4>2, <4>3
      <3>2. request_buffer_' = rest
        BY <2>2 DEF after_preface
      <3> HIDE DEF rest
      <3>3. CASE Rejected
        <4>1. set_serialized_response(<<Goaway>>, FALSE) /\ goaway' \in Reasons /\ http2_active_' \in BOOLEAN
          BY <1>3, <3>3 DEF Rejected
        <4>2. QED
          BY <1>2, <2>0, <3>1, <3>2, <4>1, WrittenSeqs, Zenon
      <3>4. CASE set_serialized_response(<<Notice, Notice>>, TRUE) /\ http2_active_' = TRUE /\ goaway' = goaway
        <4>1. goaway' \in Reasons /\ http2_active_' \in BOOLEAN
          BY <1>3, <3>4
        <4>2. QED
          BY <1>2, <2>0, <3>1, <3>2, <3>4, <4>1, WrittenSeqs, Zenon
      <3>5. QED
        BY <1>6, <2>2, <3>3, <3>4 DEF accept_preface
    <2>3. QED
      BY <1>6, <2>1, <2>2 DEF accept_preface
  <1>7. QED
    BY <1>1, <1>5, <1>6, Zenon

LEMMA FailTyped ==
    ASSUME Typed, Balance, frame_buffer_exceeded \/ invalid_frame
    PROVE  Typed' /\ Balance'
  <1>1. PICK why \in Reasons : fail_connection(why)
    BY DEF frame_buffer_exceeded, invalid_frame, Reasons
  <1>2. /\ request_buffer_' = <<>> /\ http2_active_' = http2_active_ /\ unsynced' = unsynced
        /\ UNCHANGED client
    BY DEF frame_buffer_exceeded, invalid_frame
  <1>3. /\ ConnectionOK' /\ SessionOK' /\ PendingOK' /\ StreamsOK' /\ DecoderOK'
        /\ dispatched' = dispatched /\ Credit(output') = 0
    BY <1>1, <1>2, FailOK
  <1>4. FramesOK' /\ HistoryOK' /\ ClientOK'
    BY <1>2, <1>3, NoStreams DEF Typed, FramesOK, HistoryOK, ClientOK, client
  <1>5. Balance'
    <2>1. window' = window /\ flying' = flying /\ request_buffer_' \in Seq(Frames)
      BY <1>2, NoStreams DEF client
    <2>2. Credit(output') + payload(request_buffer_') <= Credit(output) + payload(request_buffer_)
      BY <1>2, <1>3, PayloadNone, Numbers
    <2>3. QED
      BY <1>3, <2>1, <2>2, Balanced
  <1>6. QED
    BY <1>3, <1>4, <1>5 DEF Typed

LEMMA FailTakenTyped ==
    ASSUME Typed, Balance, NEW types, Taking(types), NEW why \in Reasons, fail_connection(why),
           unsynced' = unsynced
    PROVE  Typed' /\ Balance'
  <1>1. FramesOK' /\ ClientOK' /\ http2_active_' = http2_active_
    BY TakingOK
  <1>2. /\ ConnectionOK' /\ SessionOK' /\ PendingOK' /\ StreamsOK' /\ DecoderOK'
        /\ dispatched' = dispatched /\ Credit(output') = 0
    BY <1>1, FailOK
  <1>3. HistoryOK'
    BY <1>2 DEF Typed, HistoryOK
  <1>4. Balance'
    BY <1>2, TakenBalanced
  <1>5. QED
    BY <1>1, <1>2, <1>3, <1>4 DEF Typed

LEMMA ResetTakenTyped ==
    ASSUME Typed, Balance, NEW types, Taking(types), NEW id \in Nat, NEW why \in Causes,
           reset_stream_result(id, why), SessionOK', PendingOK', DecoderOK', unsynced' \in BOOLEAN
    PROVE  Typed' /\ Balance'
  <1>1. FramesOK' /\ ClientOK' /\ http2_active_' = http2_active_
    BY TakingOK
  <1>2. ConnectionOK' /\ StreamsOK' /\ dispatched' = dispatched /\ Credit(output') = 0
    BY <1>1, ResetOK
  <1>3. HistoryOK'
    BY <1>2 DEF Typed, HistoryOK
  <1>4. Balance'
    BY <1>2, TakenBalanced
  <1>5. QED
    BY <1>1, <1>2, <1>3, <1>4 DEF Typed

LEMMA QuietTakenTyped ==
    ASSUME Typed, Balance, NEW types, Taking(types), Quiet, SessionOK', PendingOK', StreamsOK',
           DecoderOK', unsynced' = unsynced
    PROVE  Typed' /\ Balance'
  <1>1. FramesOK' /\ ClientOK' /\ http2_active_' = http2_active_
    BY TakingOK
  <1>2. ConnectionOK' /\ dispatched' = dispatched /\ output' = output
    BY <1>1, QuietOK
  <1>3. HistoryOK'
    BY <1>2 DEF Typed, HistoryOK
  <1>4. Balance'
    BY <1>2, TakenBalanced
  <1>5. QED
    BY <1>1, <1>2, <1>3, <1>4 DEF Typed

LEMMA ControlTyped ==
    ASSUME Typed, Balance,
           \/ expected_continuation \/ handle_push_promise \/ handle_settings \/ handle_ping
           \/ handle_goaway \/ handle_rst_stream \/ handle_ignored
    PROVE  Typed' /\ Balance'
  <1>0. "protocol" \in Reasons
    BY DEF Reasons
  <1>1. ASSUME expected_continuation PROVE Typed' /\ Balance'
    BY <1>0, <1>1, FailTakenTyped, Zenon DEF expected_continuation
  <1>2. ASSUME handle_push_promise PROVE Typed' /\ Balance'
    BY <1>0, <1>2, FailTakenTyped, Zenon DEF handle_push_promise, AtFrameBoundary
  <1>3. ASSUME NEW types, Taking(types), set_serialized_response(<<Notice>>, TRUE),
               UNCHANGED <<requests_served_, goaway, last_client_stream_id_, connection_inbound_window_,
                           pending_headers_, streams_, dispatched>>, DecoderOK', unsynced' \in BOOLEAN
        PROVE  Typed' /\ Balance'
    <2>1. FramesOK' /\ ClientOK' /\ http2_active_' = http2_active_
      BY <1>3, TakingOK
    <2>2. ConnectionOK'
      <3>1. requests_served_' \in Nat /\ goaway' \in Reasons /\ http2_active_' \in BOOLEAN
        BY <1>3, <2>1 DEF Typed, ConnectionOK
      <3>2. QED
        BY <1>3, <3>1, WrittenSeqs, SerializedOK, Zenon
    <2>3. SessionOK' /\ PendingOK' /\ StreamsOK' /\ HistoryOK'
      BY <1>3 DEF Typed, SessionOK, PendingOK, StreamsOK, HistoryOK
    <2>4. Credit(output') = 0
      BY <1>3, WrittenSeqs DEF set_serialized_response
    <2>5. Balance'
      BY <1>3, <2>2, <2>4, TakenBalanced
    <2>6. QED
      BY <1>3, <2>1, <2>2, <2>3, <2>5 DEF Typed
  <1>4. ASSUME handle_settings PROVE Typed' /\ Balance'
    <2> DEFINE n == Head(request_buffer_).value
    <2>1. /\ Taking({"settings"}) /\ set_serialized_response(<<Notice>>, TRUE)
          /\ UNCHANGED <<requests_served_, goaway, last_client_stream_id_, connection_inbound_window_,
                         pending_headers_, streams_, dispatched>>
          /\ \/ n = Unset /\ decoder_' = decoder_ /\ unsynced' = unsynced
             \/ /\ n # Unset /\ decoder_' = set_max_table_size(decoder_, n)
                /\ unsynced' = (unsynced \/ n < DefaultTableSize)
      BY <1>4, Zenon DEF handle_settings, AtFrameBoundary
    <2>2. n # Unset => n \in Nat
      BY <2>1, TakingOK, FrameParts
    <2> HIDE DEF n
    <2>3. DecoderOK'
      BY <2>1, <2>2, SetMaxFits DEF Typed, DecoderOK
    <2>4. unsynced' \in BOOLEAN
      BY <2>1, Zenon DEF Typed, HistoryOK
    <2>5. QED
      BY <1>3, <2>1, <2>3, <2>4, Zenon
  <1>5. ASSUME handle_ping PROVE Typed' /\ Balance'
    <2>1. /\ Taking({"ping"}) /\ set_serialized_response(<<Notice>>, TRUE)
          /\ UNCHANGED <<requests_served_, goaway, session, history>>
      BY <1>5, Zenon DEF handle_ping, AtFrameBoundary
    <2>2. UNCHANGED <<requests_served_, goaway, last_client_stream_id_, connection_inbound_window_,
                      pending_headers_, streams_, dispatched>>
      BY <2>1 DEF session, session_data, history
    <2>3. DecoderOK' /\ unsynced' \in BOOLEAN
      BY <2>1 DEF session, session_data, history, Typed, DecoderOK, HistoryOK
    <2>4. QED
      BY <1>3, <2>1, <2>2, <2>3, Zenon
  <1>6. ASSUME handle_goaway PROVE Typed' /\ Balance'
    BY <1>6, CloseTyped, Zenon DEF handle_goaway
  <1>7. ASSUME handle_rst_stream PROVE Typed' /\ Balance'
    <2>1. /\ Taking({"rst_stream"}) /\ Quiet /\ streams_' = without(Head(request_buffer_).id)
          /\ UNCHANGED <<last_client_stream_id_, connection_inbound_window_, decoder_, pending_headers_,
                         unsynced>>
      BY <1>7, Zenon DEF handle_rst_stream, AtFrameBoundary
    <2>2. StreamsOK'
      BY <2>1, WithoutOK DEF Typed
    <2>3. SessionOK' /\ PendingOK' /\ DecoderOK' /\ unsynced' = unsynced
      BY <2>1 DEF Typed, SessionOK, PendingOK, DecoderOK
    <2>4. QED
      BY <2>1, <2>2, <2>3, QuietTakenTyped
  <1>8. ASSUME handle_ignored PROVE Typed' /\ Balance'
    <2>1. Taking(Ignored) /\ Quiet /\ UNCHANGED <<session, unsynced>>
      BY <1>8, Zenon DEF handle_ignored, AtFrameBoundary
    <2>2. SessionOK' /\ PendingOK' /\ StreamsOK' /\ DecoderOK' /\ unsynced' = unsynced
      BY <2>1 DEF Typed, SessionOK, PendingOK, StreamsOK, DecoderOK, session, session_data
    <2>3. QED
      BY <2>1, <2>2, QuietTakenTyped
  <1>9. QED
    BY <1>1, <1>2, <1>4, <1>5, <1>6, <1>7, <1>8, Zenon

LEMMA DropTyped ==
    ASSUME Typed, Balance, NEW types, Taking(types), NEW id \in Nat, NEW block, NEW why \in Causes,
           drop_block(id, block, why), connection_inbound_window_' = connection_inbound_window_,
           PendingOK'
    PROVE  Typed' /\ Balance'
  <1>1. /\ reset_stream_result(id, why) /\ unsynced' = (unsynced \/ Touches(block))
        /\ last_client_stream_id_' = last_client_stream_id_ /\ decoder_' = decoder_
    BY DEF drop_block
  <1>2. SessionOK' /\ DecoderOK'
    BY <1>1 DEF Typed, SessionOK, DecoderOK
  <1>3. unsynced' \in BOOLEAN
    BY <1>1, Zenon
  <1>4. QED
    BY <1>1, <1>2, <1>3, ResetTakenTyped

LEMMA CompleteTakenTyped ==
    ASSUME Typed, Balance, NEW types, Taking(types), NEW id \in Streams, NEW stream \in OpenStreams,
           NEW prefix \in Seq(Outputs), complete_stream(id, stream, prefix),
           Credit(prefix) <= Head(request_buffer_).data,
           SessionOK', PendingOK', DecoderOK', unsynced' = unsynced
    PROVE  Typed' /\ Balance'
  <1>1. /\ FramesOK' /\ ClientOK' /\ http2_active_' = http2_active_
        /\ window' = window /\ flying' = flying /\ request_buffer_' \in Seq(Frames)
        /\ payload(request_buffer_) = Head(request_buffer_).data + payload(request_buffer_')
        /\ payload(request_buffer_') \in Nat /\ Head(request_buffer_) \in Frames
    BY TakingOK
  <1>2. ConnectionOK' /\ StreamsOK' /\ dispatched' \in Seq(Dispatches) /\ Credit(output') = Credit(prefix)
    BY <1>1, CompleteOK
  <1>3. HistoryOK'
    BY <1>2 DEF Typed, HistoryOK
  <1>4. Balance'
    <2>1. Head(request_buffer_).data \in Nat /\ Credit(prefix) \in Nat
      BY <1>1, FrameParts, CreditNat
    <2>2. Credit(output') + payload(request_buffer_') <= Credit(output) + payload(request_buffer_)
      BY <1>1, <1>2, <2>1, Numbers, SMTT(30)
    <2>3. QED
      BY <1>1, <1>2, <2>2, Balanced
  <1>5. QED
    BY <1>1, <1>2, <1>3, <1>4 DEF Typed

LEMMA DecodeTyped ==
    ASSUME Typed, Balance, NEW types, Taking(types), NEW id \in Streams, NEW end_stream,
           NEW block \in Seq(Instructions), decode_headers(id, end_stream, block),
           connection_inbound_window_' = connection_inbound_window_, PendingOK'
    PROVE  Typed' /\ Balance'
  <1> DEFINE decoded == decode_header_block(decoder_, block)
             stream == [fields |-> decoded.fields, body |-> 0, inbound_window |-> InitialWindow]
  <1>0. id \in Nat
    BY StreamsAreOdd
  <1>1. Decoded(decoded)
    BY BlockDecoded DEF Typed, DecoderOK
  <1>2. decoder_' = decoded.table /\ unsynced' = unsynced
    BY DEF decode_headers
  <1>3. \/ reset_stream_result(id, "compression") /\ last_client_stream_id_' = last_client_stream_id_
        \/ reset_stream_result(id, "protocol") /\ last_client_stream_id_' = last_client_stream_id_
        \/ /\ last_client_stream_id_' = Max({id, last_client_stream_id_})
           /\ IF end_stream THEN complete_stream(id, stream, <<>>)
              ELSE Quiet /\ streams_' = opened(id, stream)
    BY Zenon DEF decode_headers
  <1> HIDE DEF decoded
  <1>4. DecoderOK'
    BY <1>1, <1>2 DEF Decoded, DecoderOK
  <1>5. unsynced' \in BOOLEAN
    BY <1>2 DEF Typed, HistoryOK
  <1>6. "compression" \in Causes /\ "protocol" \in Causes
    BY DEF Causes
  <1>7. CASE last_client_stream_id_' = last_client_stream_id_
              /\ (reset_stream_result(id, "compression") \/ reset_stream_result(id, "protocol"))
    <2>1. SessionOK'
      BY <1>7 DEF Typed, SessionOK
    <2>2. QED
      BY <1>0, <1>4, <1>5, <1>6, <1>7, <2>1, ResetTakenTyped, Zenon
  <1>8. CASE /\ last_client_stream_id_' = Max({id, last_client_stream_id_})
             /\ IF end_stream THEN complete_stream(id, stream, <<>>)
                ELSE Quiet /\ streams_' = opened(id, stream)
    <2>1. SessionOK'
      <3>1. last_client_stream_id_ \in {0} \cup Streams /\ last_client_stream_id_ \in Nat
        BY StreamsAreOdd DEF Typed, SessionOK
      <3>2. Max({id, last_client_stream_id_}) \in {id, last_client_stream_id_}
        <4>1. id \in Int /\ last_client_stream_id_ \in Int
          BY <1>0, <3>1
        <4>2. QED
          BY <4>1, MaxOfTwo, Zenon
      <3>3. QED
        BY <1>8, <3>1, <3>2 DEF Typed, SessionOK
    <2>2. stream \in OpenStreams /\ stream.inbound_window = InitialWindow
      <3>1. decoded.fields \in Seq(Fields)
        BY <1>1 DEF Decoded
      <3>2. QED
        BY <3>1, SessionAssumption DEF OpenStreams
    <2> HIDE DEF stream
    <2>3. CASE complete_stream(id, stream, <<>>)
      <3>1. Head(request_buffer_).data \in Nat
        BY TakingOK, FrameParts
      <3>2. <<>> \in Seq(Outputs) /\ Credit(<<>>) <= Head(request_buffer_).data
        BY <3>1, CreditNone
      <3>3. QED
        BY <1>2, <1>4, <2>1, <2>2, <2>3, <3>2, CompleteTakenTyped
    <2>4. CASE Quiet /\ streams_' = opened(id, stream)
      <3>1. StreamsOK'
        <4>1. streams_' = [open \in DOMAIN streams_ \cup {id} |-> IF open = id THEN stream ELSE streams_[open]]
          BY <2>4 DEF opened
        <4>2. QED
          BY <2>2, <4>1 DEF Typed, StreamsOK
      <3>2. QED
        BY <1>2, <1>4, <2>1, <2>4, <3>1, QuietTakenTyped
    <2>5. QED
      BY <1>8, <2>3, <2>4
  <1>9. QED
    BY <1>3, <1>7, <1>8, Zenon

LEMMA HeadersTyped ==
    ASSUME Typed, Balance, handle_headers_frame
    PROVE  Typed' /\ Balance'
  <1> DEFINE frame == Head(request_buffer_)
  <1>0. /\ Taking({"headers"}) /\ pending_headers_ = <<>>
        /\ connection_inbound_window_' = connection_inbound_window_
    BY Zenon DEF handle_headers_frame, AtFrameBoundary
  <1>1. /\ frame.id \in Nat /\ frame.end_stream \in BOOLEAN /\ frame.block \in Seq(Instructions)
        /\ frame.id % 2 = 1 => frame.id \in Streams
    BY <1>0, TakingOK, FrameParts
  <1>2. "protocol" \in Reasons /\ "protocol" \in Causes /\ "closed" \in Causes
    BY DEF Reasons, Causes
  <1>3. CASE fail_connection("protocol") /\ unsynced' = unsynced
    BY <1>0, <1>2, <1>3, FailTakenTyped
  <1>4. pending_headers_' = pending_headers_ => PendingOK'
    BY DEF Typed, PendingOK
  <1>5. CASE drop_block(frame.id, frame.block, "closed") /\ pending_headers_' = pending_headers_
    BY <1>0, <1>1, <1>2, <1>4, <1>5, DropTyped, Zenon
  <1>6. CASE drop_block(frame.id, frame.block, "protocol") /\ pending_headers_' = pending_headers_
    BY <1>0, <1>1, <1>2, <1>4, <1>6, DropTyped, Zenon
  <1>7. CASE /\ frame.id % 2 = 1
             /\ pending_headers_' = <<[id |-> frame.id, end_stream |-> frame.end_stream,
                                       block |-> frame.block]>>
             /\ Quiet
             /\ UNCHANGED <<last_client_stream_id_, decoder_, streams_, unsynced>>
    <2>1. PendingOK'
      <3> DEFINE p == [id |-> frame.id, end_stream |-> frame.end_stream, block |-> frame.block]
      <3>1. p \in Pendings
        BY <1>1, <1>7 DEF Pendings
      <3>2. pending_headers_' = <<p>>
        BY <1>7
      <3> HIDE DEF p
      <3>3. QED
        BY <3>1, <3>2 DEF PendingOK
    <2>2. SessionOK' /\ StreamsOK' /\ DecoderOK' /\ unsynced' = unsynced
      BY <1>0, <1>7 DEF Typed, SessionOK, StreamsOK, DecoderOK
    <2>3. QED
      BY <1>0, <1>7, <2>1, <2>2, QuietTakenTyped
  <1>8. CASE /\ frame.id % 2 = 1 /\ decode_headers(frame.id, frame.end_stream, frame.block)
             /\ pending_headers_' = pending_headers_
    <2>1. frame.id \in Streams
      BY <1>1, <1>8
    <2>2. QED
      BY <1>0, <1>1, <1>4, <1>8, <2>1, DecodeTyped, Zenon
  <1>9. QED
    BY <1>3, <1>5, <1>6, <1>7, <1>8, Zenon DEF handle_headers_frame

LEMMA ContinuationTyped ==
    ASSUME Typed, Balance, handle_continuation_frame
    PROVE  Typed' /\ Balance'
  <1> DEFINE frame == Head(request_buffer_)
             pending == pending_headers_[1]
             block == pending.block \o frame.block
             matches == pending_headers_ # <<>> /\ pending.id = frame.id
  <1>0. Taking({"continuation"}) /\ connection_inbound_window_' = connection_inbound_window_
    BY Zenon DEF handle_continuation_frame
  <1>1. frame.id \in Nat /\ frame.block \in Seq(Instructions)
    BY <1>0, TakingOK, FrameParts
  <1>2. "protocol" \in Reasons /\ "calm" \in Causes
    BY DEF Reasons, Causes
  <1>3. CASE fail_connection("protocol") /\ unsynced' = unsynced
    BY <1>0, <1>2, <1>3, FailTakenTyped
  <1>4. pending_headers_' = <<>> => PendingOK'
    BY NoStreams DEF PendingOK
  <1>5. CASE pending_headers_' = <<>> /\ drop_block(frame.id, block, "calm")
    BY <1>0, <1>1, <1>2, <1>4, <1>5, DropTyped, Zenon
  <1>6. ASSUME matches
        PROVE  pending \in Pendings /\ pending.id \in Streams /\ block \in Seq(Instructions)
    <2>1. pending \in Pendings
      BY <1>6 DEF Typed, PendingOK
    <2>2. pending.id \in Streams /\ pending.block \in Seq(Instructions)
      BY <2>1 DEF Pendings
    <2>3. QED
      BY <1>1, <2>1, <2>2
  <1>7. CASE /\ matches /\ pending_headers_' = <<[pending EXCEPT !.block = block]>> /\ Quiet
             /\ UNCHANGED <<last_client_stream_id_, decoder_, streams_, unsynced>>
    <2>1. PendingOK'
      <3>1. pending \in Pendings /\ block \in Seq(Instructions)
        BY <1>6, <1>7
      <3> DEFINE p == [pending EXCEPT !.block = block]
      <3> HIDE DEF pending, block
      <3>2. p \in Pendings
        BY <3>1 DEF Pendings
      <3>3. pending_headers_' = <<p>>
        BY <1>7
      <3> HIDE DEF p
      <3>4. QED
        BY <3>2, <3>3 DEF PendingOK
    <2>2. SessionOK' /\ StreamsOK' /\ DecoderOK' /\ unsynced' = unsynced
      BY <1>0, <1>7 DEF Typed, SessionOK, StreamsOK, DecoderOK
    <2>3. QED
      BY <1>0, <1>7, <2>1, <2>2, QuietTakenTyped
  <1>8. CASE matches /\ pending_headers_' = <<>> /\ decode_headers(pending.id, pending.end_stream, block)
    BY <1>0, <1>4, <1>6, <1>8, DecodeTyped, Zenon
  <1>9. QED
    BY <1>3, <1>5, <1>7, <1>8, Zenon DEF handle_continuation_frame

\* DATA that is kept: the stream with it, the windows as they were, and what is given back.
LEMMA ReceivedOK ==
    ASSUME Typed, NEW id \in DOMAIN streams_, NEW n \in Nat,
           received(streams_[id], n).body <= max_request_bytes
    PROVE  /\ received(streams_[id], n) \in OpenStreams
           /\ received(streams_[id], n).inbound_window = InitialWindow
           /\ received(streams_[id], n).body = streams_[id].body + n
           /\ received(streams_[id], n).fields = streams_[id].fields
  <1> DEFINE stream == streams_[id]
             longer == received(stream, n)
  <1>1. stream \in OpenStreams /\ stream.inbound_window = InitialWindow /\ InitialWindow \in Nat
        /\ max_request_bytes \in Nat
    BY SessionAssumption DEF Typed, StreamsOK
  <1> HIDE DEF stream
  <1>2. stream.fields \in Seq(Fields) /\ stream.body \in 0 .. max_request_bytes
    BY <1>1 DEF OpenStreams
  <1>3. longer = [stream EXCEPT !.body = stream.body + n,
                                !.inbound_window = stream.inbound_window - n + n]
    BY DEF received, restored
  <1>4. longer = [fields |-> stream.fields, body |-> stream.body + n,
                  inbound_window |-> stream.inbound_window - n + n]
    BY <1>1, <1>3 DEF OpenStreams
  <1> HIDE DEF longer
  <1>5. longer.fields = stream.fields /\ longer.body = stream.body + n
        /\ longer.inbound_window = stream.inbound_window - n + n
    BY <1>4
  <1>6. longer.inbound_window = InitialWindow
    BY <1>1, <1>5
  <1>7. longer.body \in 0 .. max_request_bytes
    <2>1. longer.body <= max_request_bytes
      BY DEF longer, stream
    <2>2. QED
      BY <1>1, <1>2, <1>5, <2>1
  <1>8. longer \in OpenStreams
    <2>1. longer = [fields |-> longer.fields, body |-> longer.body, inbound_window |-> longer.inbound_window]
      BY <1>4, <1>5
    <2>2. longer.inbound_window \in 0 .. InitialWindow
      BY <1>1, <1>6
    <2>3. QED
      BY <1>2, <1>5, <1>7, <2>1, <2>2 DEF OpenStreams
  <1>9. QED
    BY <1>5, <1>6, <1>8 DEF longer, stream

LEMMA Pair ==
    ASSUME NEW S, NEW a \in S, NEW b \in S
    PROVE  <<a>> \in Seq(S) /\ <<b>> \in Seq(S) /\ <<a, b>> \in Seq(S) /\ <<a, b>> = <<a>> \o <<b>>
  <1>1. <<a>> \in Seq(S) /\ <<b>> \in Seq(S) /\ <<a, b>> \in Seq(S)
    OBVIOUS
  <1>2. <<a, b>> = <<a>> \o <<b>>
    <2> DEFINE s == <<a>> \o <<b>>
               t == <<a, b>>
    <2>1. s \in Seq(S) /\ Len(s) = 2 /\ s[1] = a /\ s[2] = b
      BY <1>1
    <2>2. t \in Seq(S) /\ Len(t) = 2 /\ t[1] = a /\ t[2] = b
      BY <1>1
    <2> HIDE DEF s, t
    <2>3. \A i \in 1 .. 2 : s[i] = t[i]
      BY <2>1, <2>2
    <2>4. s = t
      BY <2>1, <2>2, <2>3, SeqEqual
    <2>5. QED
      BY <2>4 DEF s, t
  <1>3. QED
    BY <1>1, <1>2

LEMMA UpdatesOK ==
    ASSUME NEW id \in Streams, NEW n \in Nat
    PROVE  /\ <<Update(0, n), Update(id, n)>> \in Seq(Outputs)
           /\ Credit(<<Update(0, n), Update(id, n)>>) = n
  <1> DEFINE a == Update(0, n)
             b == Update(id, n)
  <1>0. id \in Nat /\ id # 0
    BY StreamsAreOdd
  <1>1. a \in Outputs /\ b \in Outputs /\ CreditOf(a) = n /\ CreditOf(b) = 0
    BY <1>0, OutputsTyped, CreditOfWritten
  <1> HIDE DEF a, b
  <1>2. <<a>> \in Seq(Outputs) /\ <<b>> \in Seq(Outputs) /\ <<a, b>> \in Seq(Outputs)
        /\ <<a, b>> = <<a>> \o <<b>>
    BY <1>1, Pair, Zenon
  <1>3. Credit(<<a>>) = n /\ Credit(<<b>>) = 0
    BY <1>1, CreditOne
  <1>4. Credit(<<a>> \o <<b>>) = Credit(<<a>>) + Credit(<<b>>)
    BY <1>2, CreditConcat, Zenon
  <1>5. Credit(<<a>>) + Credit(<<b>>) = n
    BY <1>3
  <1>6. Credit(<<a, b>>) = n
    BY <1>2, <1>4, <1>5, Zenon
  <1>7. QED
    BY <1>2, <1>6, Zenon DEF a, b

LEMMA DataTyped ==
    ASSUME Typed, Balance, handle_data_frame
    PROVE  Typed' /\ Balance'
  <1> DEFINE frame == Head(request_buffer_)
             n == frame.data
             stream == streams_[frame.id]
             longer == received(stream, n)
             updates == IF n = 0 THEN <<>> ELSE <<Update(0, n), Update(frame.id, n)>>
             known == frame.id \in DOMAIN streams_
  <1>0. /\ Taking({"data"}) /\ pending_headers_ = <<>>
        /\ UNCHANGED <<last_client_stream_id_, decoder_, unsynced>>
    BY Zenon DEF handle_data_frame, AtFrameBoundary
  <1>1. frame.id \in Nat /\ n \in Nat
    BY <1>0, TakingOK, FrameParts
  <1>2. DecoderOK' /\ unsynced' = unsynced /\ unsynced' \in BOOLEAN
    BY <1>0 DEF Typed, DecoderOK, HistoryOK
  <1>3. "flow_control" \in Reasons /\ "closed" \in Causes /\ "protocol" \in Causes /\ "calm" \in Causes
    BY DEF Reasons, Causes
  <1>4. CASE fail_connection("flow_control")
    BY <1>0, <1>2, <1>3, <1>4, FailTakenTyped
  <1>5. CASE /\ UNCHANGED <<connection_inbound_window_, pending_headers_>>
             /\ \/ reset_stream_result(frame.id, "closed")
                \/ reset_stream_result(frame.id, "protocol")
                \/ reset_stream_result(frame.id, "calm")
    <2>1. SessionOK' /\ PendingOK'
      BY <1>0, <1>5 DEF Typed, SessionOK, PendingOK
    <2>2. QED
      BY <1>0, <1>1, <1>2, <1>3, <1>5, <2>1, ResetTakenTyped, Zenon
  <1>6. CASE /\ known /\ longer.body <= max_request_bytes
             /\ connection_inbound_window_' = restored(connection_inbound_window_, n)
             /\ pending_headers_' = pending_headers_
             /\ \/ complete_stream(frame.id, longer, updates)
                \/ /\ streams_' = [streams_ EXCEPT ![frame.id] = longer]
                   /\ IF n = 0 THEN Quiet
                      ELSE /\ set_serialized_response(updates, TRUE)
                           /\ UNCHANGED <<requests_served_, goaway, dispatched>>
    <2>1. frame.id \in Streams /\ frame.id \in DOMAIN streams_
      BY <1>6 DEF Typed, StreamsOK
    <2>2. longer \in OpenStreams /\ longer.inbound_window = InitialWindow
      BY <1>1, <1>6, <2>1, ReceivedOK, Zenon
    <2>3. updates \in Seq(Outputs) /\ Credit(updates) = n
      BY <1>1, <2>1, UpdatesOK, CreditNone, NoStreams
    <2>4. SessionOK' /\ PendingOK'
      BY <1>0, <1>1, <1>6, SessionAssumption DEF Typed, SessionOK, PendingOK, restored
    <2>5. Credit(updates) <= n
      BY <1>1, <2>3
    <2> HIDE DEF longer, updates
    <2>6. CASE complete_stream(frame.id, longer, updates)
      BY <1>0, <1>2, <2>1, <2>2, <2>3, <2>4, <2>5, <2>6, CompleteTakenTyped
    <2>7. ASSUME streams_' = [streams_ EXCEPT ![frame.id] = longer] PROVE StreamsOK'
      BY <2>1, <2>2, <2>7 DEF Typed, StreamsOK
    <2>8. CASE streams_' = [streams_ EXCEPT ![frame.id] = longer] /\ Quiet
      BY <1>0, <1>2, <2>4, <2>7, <2>8, QuietTakenTyped
    <2>9. CASE /\ streams_' = [streams_ EXCEPT ![frame.id] = longer]
               /\ set_serialized_response(updates, TRUE)
               /\ UNCHANGED <<requests_served_, goaway, dispatched>>
      <3>1. /\ FramesOK' /\ ClientOK' /\ http2_active_' = http2_active_
            /\ window' = window /\ flying' = flying /\ request_buffer_' \in Seq(Frames)
            /\ payload(request_buffer_) = n + payload(request_buffer_')
            /\ payload(request_buffer_') \in Nat
        BY <1>0, TakingOK
      <3>2. requests_served_' \in Nat /\ goaway' \in Reasons /\ http2_active_' \in BOOLEAN
        BY <2>9, <3>1 DEF Typed, ConnectionOK
      <3>3. ConnectionOK' /\ output' = updates
        BY <2>3, <2>9, <3>2, SerializedOK DEF set_serialized_response
      <3>4. HistoryOK'
        BY <1>2, <2>9 DEF Typed, HistoryOK
      <3>5. Credit(output') + payload(request_buffer_') <= Credit(output) + payload(request_buffer_)
        BY <1>1, <2>3, <3>1, <3>3, Numbers
      <3>6. Balance'
        BY <3>1, <3>3, <3>5, Balanced
      <3>7. QED
        BY <1>2, <2>4, <2>7, <2>9, <3>1, <3>3, <3>4, <3>6 DEF Typed
    <2>10. QED
      BY <1>6, <2>6, <2>8, <2>9
  <1>7. QED
    BY <1>4, <1>5, <1>6, Zenon DEF handle_data_frame

LEMMA ServerTyped ==
    ASSUME Typed, Balance, ServerStep
    PROVE  Typed' /\ Balance'
  BY PrefaceTyped, FailTyped, ControlTyped, HeadersTyped, ContinuationTyped, DataTyped, Zenon
     DEF ServerStep

----------------------------------------------------------------------------
(* Reading and writing.                                                    *)
LEMMA AnsweredOK ==
    ASSUME Typed
    PROVE  /\ \A id, type : Answers(id, type) \in Nat
           /\ [id \in Streams |-> Answered(id)] \in [Streams -> [response : Nat, rst_stream : Nat]]
  <1>1. ASSUME NEW id, NEW type PROVE Answers(id, type) \in Nat
    <2> DEFINE S == {i \in DOMAIN output : output[i].id = id /\ output[i].type = type}
    <2>1. DOMAIN output = 1 .. Len(output) /\ Len(output) \in Int
      BY DEF Typed, ConnectionOK
    <2>2. IsFiniteSet(DOMAIN output)
      BY <2>1, FS_Interval
    <2>3. S \subseteq DOMAIN output
      OBVIOUS
    <2>4. IsFiniteSet(S)
      BY <2>2, <2>3, FS_Subset, Zenon
    <2>5. QED
      BY <2>4, FS_CardinalityType, Zenon DEF Answers
  <1>2. ASSUME NEW id \in Streams PROVE Answered(id) \in [response : Nat, rst_stream : Nat]
    <2>1. answered[id] \in [response : Nat, rst_stream : Nat]
      BY DEF Typed, ClientOK
    <2>2. Answers(id, "response") \in Nat /\ Answers(id, "rst_stream") \in Nat
      BY <1>1, Zenon
    <2>3. DOMAIN Unanswered = {"response", "rst_stream"}
      BY DEF Unanswered
    <2>4. \A type \in {"response", "rst_stream"} : answered[id][type] + Answers(id, type) \in Nat
      BY <2>1, <2>2
    <2>5. QED
      BY <2>3, <2>4 DEF Answered
  <1>3. QED
    BY <1>1, <1>2

LEMMA WriteTyped ==
    ASSUME Typed, Balance, write_response
    PROVE  Typed' /\ Balance'
  <1>1. /\ output' = <<>> /\ keep_alive_after_response_' = FALSE
        /\ window' = window + Credit(output) /\ answered' = [id \in Streams |-> Answered(id)]
        /\ phase_' = "reading" /\ busy' = (request_buffer_ # <<>>)
        /\ UNCHANGED <<requests_served_, goaway, request_buffer_, session, history, flying,
                       sends, encoder>>
    BY Zenon DEF write_response, finish_response
  <1>2. ConnectionOK'
    BY <1>1, NoStreams DEF Typed, ConnectionOK, ClientPhase, session
  <1>3. SessionOK' /\ PendingOK' /\ StreamsOK' /\ DecoderOK' /\ FramesOK' /\ HistoryOK'
    BY <1>1 DEF Typed, SessionOK, PendingOK, StreamsOK, DecoderOK, FramesOK, HistoryOK,
                session, session_data, history
  <1>4. ClientOK'
    BY <1>1, AnsweredOK, Numbers DEF Typed, ClientOK
  <1>5. Balance'
    <2>1. Credit(output') = 0 /\ payload(request_buffer_') = payload(request_buffer_)
          /\ payload(flying') = payload(flying)
      BY <1>1, CreditNone, Zenon
    <2>2. QED
      BY <1>1, <2>1, Numbers DEF Balance
  <1>6. QED
    BY <1>2, <1>3, <1>4, <1>5 DEF Typed

LEMMA ReceiveTyped ==
    ASSUME Typed, Balance, NEW n \in DOMAIN flying, Receive(n)
    PROVE  Typed' /\ Balance'
  <1> DEFINE read == SubSeq(flying, 1, n)
             rest == SubSeq(flying, n + 1, Len(flying))
  <1>1. /\ request_buffer_' = request_buffer_ \o read /\ flying' = rest /\ busy' = TRUE
        /\ UNCHANGED <<phase_, output, keep_alive_after_response_, requests_served_, goaway,
                       session, history, sends, asked, encoder, window, answered>>
    BY DEF Receive
  <1>2. ConnectionOK' /\ SessionOK' /\ PendingOK' /\ StreamsOK' /\ DecoderOK' /\ HistoryOK' /\ ClientOK'
    BY <1>1 DEF Typed, ConnectionOK, SessionOK, PendingOK, StreamsOK, DecoderOK, HistoryOK, ClientOK,
                session, session_data, history
  <1>3. flying \in Seq(Frames) /\ n \in 0 .. Len(flying) /\ request_buffer_ \in Seq(Frames)
    BY DEF Typed, FramesOK
  <1>4. read \in Seq(Frames) /\ rest \in Seq(Frames) /\ payload(flying) = payload(read) + payload(rest)
    BY <1>3, PayloadSplit, Zenon
  <1> HIDE DEF read, rest
  <1>5. FramesOK'
    BY <1>1, <1>3, <1>4 DEF FramesOK
  <1>6. Balance'
    <2>1. payload(request_buffer_') = payload(request_buffer_) + payload(read)
      BY <1>1, <1>3, <1>4, PayloadConcat
    <2>2. payload(read) \in Nat /\ payload(rest) \in Nat
      BY <1>4, PayloadNat
    <2>3. payload(flying') = payload(rest) /\ Credit(output') = Credit(output) /\ window' = window
      BY <1>1, Zenon
    <2>4. QED
      BY <1>4, <2>1, <2>2, <2>3, Numbers DEF Balance
  <1>7. QED
    BY <1>2, <1>5, <1>6 DEF Typed

LEMMA IdleTyped ==
    ASSUME Typed, Balance, expire_cut_frame \/ acquire \/ UNCHANGED vars
    PROVE  Typed' /\ Balance'
  <1>1. ASSUME expire_cut_frame PROVE Typed' /\ Balance'
    <2> DEFINE out == <<IF http2_active_ THEN Goaway ELSE Timeout>>
    <2>1. /\ set_serialized_response(out, FALSE) /\ goaway' = "timeout"
          /\ UNCHANGED <<requests_served_, request_buffer_, session, history, client>>
      BY <1>1, Zenon DEF expire_cut_frame
    <2>2. out \in Seq(Outputs) /\ Credit(out) = 0
      <3>1. out = <<Goaway>> \/ out = <<Timeout>>
        OBVIOUS
      <3>2. QED
        BY <3>1, WrittenSeqs
    <2> HIDE DEF out
    <2>3. requests_served_' \in Nat /\ http2_active_' \in BOOLEAN /\ goaway' \in Reasons
      BY <2>1 DEF Typed, ConnectionOK, Reasons, session
    <2>4. ConnectionOK'
      BY <2>1, <2>2, <2>3, SerializedOK
    <2>5. SessionOK' /\ PendingOK' /\ StreamsOK' /\ DecoderOK' /\ FramesOK' /\ HistoryOK' /\ ClientOK'
      BY <2>1 DEF Typed, SessionOK, PendingOK, StreamsOK, DecoderOK, FramesOK, HistoryOK, ClientOK,
                  session, session_data, history, client
    <2>6. Credit(output') = 0 /\ window' = window /\ flying' = flying /\ request_buffer_' = request_buffer_
      BY <2>1, <2>2 DEF set_serialized_response, client
    <2>7. payload(request_buffer_') = payload(request_buffer_) /\ request_buffer_' \in Seq(Frames)
      BY <2>6 DEF Typed, FramesOK
    <2>8. Credit(output') + payload(request_buffer_') <= Credit(output) + payload(request_buffer_)
      BY <2>6, <2>7, Numbers
    <2>9. Balance'
      BY <2>4, <2>6, <2>7, <2>8, Balanced
    <2>10. QED
      BY <2>4, <2>5, <2>9 DEF Typed
  <1>2. ASSUME acquire PROVE Typed' /\ Balance'
    <2>1. /\ phase_' = "reading" /\ flying' \in Openings
          /\ UNCHANGED <<busy, output, keep_alive_after_response_, requests_served_, goaway,
                         request_buffer_, session, history, asked, encoder, window, answered>>
      BY <1>2, Zenon DEF acquire
    <2>2. ConnectionOK' /\ SessionOK' /\ PendingOK' /\ StreamsOK' /\ DecoderOK' /\ HistoryOK' /\ ClientOK'
      BY <2>1 DEF Typed, ConnectionOK, ClientPhase, SessionOK, PendingOK, StreamsOK, DecoderOK,
                  HistoryOK, ClientOK, session, session_data, history
    <2>3. FramesOK'
      BY <2>1, OpeningTyped DEF Typed, FramesOK
    <2>4. payload(flying') = 0
      BY <2>1, OpeningEmpty, Zenon
    <2>5. Credit(output') = Credit(output) /\ payload(request_buffer_') = payload(request_buffer_)
          /\ window' = window
      BY <2>1, Zenon
    <2>6. Balance'
      BY <2>4, <2>5, Numbers DEF Balance
    <2>7. QED
      BY <2>2, <2>3, <2>6 DEF Typed
  <1>3. ASSUME UNCHANGED vars PROVE Typed' /\ Balance'
    <2>1. UNCHANGED <<connection, request_buffer_, session, history, client>>
      BY <1>3 DEF vars
    <2>2. ConnectionOK' /\ SessionOK' /\ PendingOK' /\ StreamsOK' /\ DecoderOK'
      BY <2>1 DEF Typed, ConnectionOK, SessionOK, PendingOK, StreamsOK, DecoderOK, connection,
                  session, session_data
    <2>3. FramesOK' /\ HistoryOK' /\ ClientOK'
      BY <2>1 DEF Typed, FramesOK, HistoryOK, ClientOK, history, client
    <2>4. Balance'
      BY <2>1 DEF Balance, client, connection
    <2>5. QED
      BY <2>2, <2>3, <2>4 DEF Typed
  <1>4. QED
    BY <1>1, <1>2, <1>3, Zenon

LEMMA TypedStep == Typed /\ Balance /\ [Next]_vars => Typed' /\ Balance'
  <1> SUFFICES ASSUME Typed, Balance, [Next]_vars PROVE Typed' /\ Balance'
    OBVIOUS
  <1>1. CASE write_last_response \/ expire_idle
    BY <1>1, CloseTyped, Zenon DEF write_last_response, expire_idle
  <1>2. QED
    BY <1>1, ClientTyped, ServerTyped, WriteTyped, IdleTyped, ReceiveTyped, Zenon DEF Next

LEMMA AlwaysTyped == Safety => [](Typed /\ Balance)
  BY InitTyped, TypedStep, PTL DEF Safety

(***************************************************************************)
(* SessionTypeOK of every connection: the dynamic table keeps to the limit *)
(* it has at the time, whatever header blocks and SETTINGS come            *)
(* (evict_dynamic), a request is never longer than max_request_bytes, both *)
(* windows of the server stay within their size, and the client is never   *)
(* told that it may send more than the window holds (handle_data_frame).   *)
(***************************************************************************)
THEOREM SessionTypeHolds == Safety => []SessionTypeOK
  <1>1. Typed /\ Balance => SessionTypeOK
    <2> SUFFICES ASSUME Typed, Balance PROVE SessionTypeOK
      OBVIOUS
    <2>1. window <= InitialWindow /\ connection_inbound_window_ \in 0 .. InitialWindow
      BY Numbers DEF Balance, Typed, SessionOK
    <2>2. table_size(decoder_.entries, Len(decoder_.entries)) <= decoder_.max
      BY DEF Typed, DecoderOK, Fits
    <2>3. \A id \in DOMAIN streams_ :
            streams_[id] \in [fields : Seq(Fields), body : 0 .. max_request_bytes,
                              inbound_window : 0 .. InitialWindow]
      BY DEF Typed, StreamsOK, OpenStreams
    <2>4. QED
      BY <2>1, <2>2, <2>3, Zenon
         DEF SessionTypeOK, Typed, ConnectionOK, SessionOK, PendingOK, StreamsOK, DecoderOK, FramesOK,
             HistoryOK, ClientOK, Reasons
  <1>2. QED
    BY <1>1, AlwaysTyped, PTL

----------------------------------------------------------------------------
(***************************************************************************)
(* What becomes of the connection in a step of the session: it waits for   *)
(* the rest of the preface, closes, writes, or goes on with its buffer.    *)
(***************************************************************************)
GoesOn ==
    /\ phase_' = "reading" /\ busy' = (request_buffer_' # <<>>)
    /\ UNCHANGED <<output, keep_alive_after_response_, requests_served_, goaway, dispatched>>

Writes == phase_' = "writing" /\ busy' = FALSE

LEMMA Outcomes ==
    ASSUME ServerStep
    PROVE  need_more \/ close_now \/ Writes \/ GoesOn
  <1>0. phase_ = "reading"
    BY DEF ServerStep, need_more, accept_preface, ExpectedPreface, frame_buffer_exceeded, invalid_frame,
           expected_continuation, handle_push_promise, handle_settings, handle_ping, handle_goaway,
           handle_rst_stream, handle_ignored, handle_headers_frame, handle_continuation_frame,
           handle_data_frame, AtFrameBoundary, Taking, Processing, Opening, Running
  <1>1. ASSUME NEW frames, NEW keep, set_serialized_response(frames, keep) PROVE Writes
    BY <1>1, Zenon DEF set_serialized_response, Writes
  <1>2. ASSUME NEW why, fail_connection(why) PROVE Writes
    BY <1>1, <1>2, Zenon DEF fail_connection
  <1>3. ASSUME NEW id, NEW why, reset_stream_result(id, why) PROVE Writes
    BY <1>1, <1>3, Zenon DEF reset_stream_result
  <1>4. ASSUME NEW id, NEW stream, NEW prefix, complete_stream(id, stream, prefix) PROVE Writes
    <2>1. CASE Refused(id, prefix)
      BY <1>1, <2>1, Zenon DEF Refused
    <2>2. ASSUME NEW sent \in BOOLEAN, Served(id, stream, prefix, sent) PROVE Writes
      BY <1>1, <2>2, Zenon DEF Served
    <2>3. QED
      BY <1>4, <2>1, <2>2, Zenon DEF complete_stream
  <1>5. ASSUME Quiet PROVE GoesOn
    BY <1>0, <1>5 DEF Quiet, GoesOn
  <1>6. ASSUME Rejected PROVE Writes
    BY <1>1, <1>6, Zenon DEF Rejected
  <1>7. CASE (\E request_allowed \in BOOLEAN : accept_preface(request_allowed)) \/ ExpectedPreface
    BY <1>1, <1>6, <1>7, Zenon DEF accept_preface, ExpectedPreface
  <1>8. CASE frame_buffer_exceeded \/ invalid_frame \/ expected_continuation \/ handle_push_promise
             \/ handle_settings \/ handle_ping \/ handle_goaway
    BY <1>1, <1>2, <1>8, Zenon
       DEF frame_buffer_exceeded, invalid_frame, expected_continuation, handle_push_promise,
           handle_settings, handle_ping, handle_goaway
  <1>9. CASE handle_rst_stream \/ handle_ignored
    BY <1>5, <1>9, Zenon DEF handle_rst_stream, handle_ignored
  <1>10. ASSUME NEW id, NEW block, NEW why, drop_block(id, block, why) PROVE Writes
    BY <1>3, <1>10, Zenon DEF drop_block
  <1>11. ASSUME NEW id, NEW end_stream, NEW block, decode_headers(id, end_stream, block)
         PROVE  Writes \/ GoesOn
    BY <1>3, <1>4, <1>5, <1>11, Zenon DEF decode_headers
  <1>12. CASE handle_headers_frame
    BY <1>2, <1>5, <1>10, <1>11, <1>12, Zenon DEF handle_headers_frame
  <1>13. CASE handle_continuation_frame
    BY <1>2, <1>5, <1>10, <1>11, <1>13, Zenon DEF handle_continuation_frame
  <1>14. CASE handle_data_frame
    BY <1>1, <1>2, <1>3, <1>4, <1>5, <1>14, Zenon DEF handle_data_frame
  <1>15. QED
    BY <1>7, <1>8, <1>9, <1>12, <1>13, <1>14, Zenon DEF ServerStep

\* The buffer of a connection that is closed is empty.
Unforgotten == FramesNotForgotten /\ (phase_ = "closed" => request_buffer_ = <<>>)

(***************************************************************************)
(* FramesNotForgotten: however reads, header blocks in parts and answers   *)
(* come one after the other, a connection never waits for its client with  *)
(* a whole frame in its buffer (finish_response, process_input).           *)
(***************************************************************************)
THEOREM FramesAreNotForgotten == Safety => []FramesNotForgotten
  <1>1. Init => Unforgotten
    BY DEF Init, Unforgotten, FramesNotForgotten
  <1>2. Unforgotten /\ [Next]_vars => Unforgotten'
    <2> SUFFICES ASSUME Unforgotten, [Next]_vars PROVE Unforgotten'
      OBVIOUS
    <2>1. ASSUME close_now PROVE Unforgotten'
      BY <2>1 DEF close_now, Unforgotten, FramesNotForgotten
    <2>2. ASSUME Writes PROVE Unforgotten'
      BY <2>2 DEF Writes, Unforgotten, FramesNotForgotten
    <2>3. ASSUME UNCHANGED <<connection, request_buffer_, session>> PROVE Unforgotten'
      BY <2>3 DEF connection, session, Unforgotten, FramesNotForgotten
    <2>4. CASE ClientStep
      <3>1. ASSUME NEW frames, Send(frames) PROVE Unforgotten'
        BY <2>3, <3>1, Zenon DEF Send
      <3>2. QED
        BY <2>1, <2>4, <3>1, Zenon
           DEF ClientStep, ClientRequests, ClientSendsData, ClientSendsTrailers, ClientResets,
               ClientSettles, ClientStrays, ClientLeaves, Sends
    <2>5. CASE ServerStep
      <3>1. ASSUME need_more PROVE Unforgotten'
        BY <3>1 DEF need_more, Running, session, Unforgotten, FramesNotForgotten
      <3>2. ASSUME GoesOn PROVE Unforgotten'
        BY <3>2 DEF GoesOn, Unforgotten, FramesNotForgotten
      <3>3. QED
        BY <2>1, <2>2, <2>5, <3>1, <3>2, Outcomes, Zenon
    <2>6. CASE write_response
      BY <2>6 DEF write_response, finish_response, Unforgotten, FramesNotForgotten
    <2>7. CASE write_last_response \/ expire_idle
      BY <2>1, <2>7, Zenon DEF write_last_response, expire_idle
    <2>8. CASE expire_cut_frame
      BY <2>2, <2>8, Zenon DEF expire_cut_frame, set_serialized_response, Writes
    <2>9. CASE acquire
      BY <2>9 DEF acquire, Unforgotten, FramesNotForgotten
    <2>10. ASSUME NEW n \in DOMAIN flying, Receive(n) PROVE Unforgotten'
      BY <2>10 DEF Receive, Unforgotten, FramesNotForgotten
    <2>11. CASE UNCHANGED vars
      BY <2>3, <2>11, Zenon DEF vars
    <2>12. QED
      BY <2>4, <2>5, <2>6, <2>7, <2>8, <2>9, <2>10, <2>11, Zenon DEF Next
  <1>3. Unforgotten => FramesNotForgotten
    BY DEF Unforgotten
  <1>4. QED
    BY <1>1, <1>2, <1>3, PTL DEF Safety

----------------------------------------------------------------------------
\* A connection given up for flow control does nothing but say so.
Spared ==
    goaway = "flow_control" => window < 0 /\ phase_ = "writing" /\ ~keep_alive_after_response_

\* A DATA frame that overruns a window of the server has overrun the client's.
LEMMA Overrun ==
    ASSUME Typed, Balance, handle_data_frame, fail_connection("flow_control"),
           Head(request_buffer_).id \in DOMAIN streams_,
           \/ Head(request_buffer_).data > connection_inbound_window_
           \/ Head(request_buffer_).data > streams_[Head(request_buffer_).id].inbound_window
    PROVE  window' < 0
  <1> DEFINE n == Head(request_buffer_).data
  <1>1. Taking({"data"})
    BY Zenon DEF handle_data_frame, AtFrameBoundary
  <1>2. /\ payload(request_buffer_) = n + payload(request_buffer_')
        /\ payload(request_buffer_') \in Nat /\ n \in Nat /\ window' = window
    BY <1>1, TakingOK, FrameParts
  <1>3. connection_inbound_window_ = InitialWindow
        /\ streams_[Head(request_buffer_).id].inbound_window = InitialWindow
    BY DEF Typed, SessionOK, StreamsOK
  <1>4. n > InitialWindow
    BY <1>3, Zenon
  <1> HIDE DEF n
  <1>5. QED
    BY <1>2, <1>4, Numbers DEF Balance

\* No other step of the session gives the connection up for flow control.
LEMMA OtherReasons ==
    ASSUME Typed, Balance, ServerStep
    PROVE  goaway' = "flow_control" =>
             \/ goaway = "flow_control"
             \/ window' < 0 /\ phase_' = "writing" /\ ~keep_alive_after_response_'
  <1> DEFINE Result == goaway' = goaway \/ goaway' # "flow_control"
  <1>2. ASSUME NEW why, why # "flow_control", fail_connection(why) PROVE Result
    BY <1>2 DEF fail_connection
  <1>3. ASSUME NEW id, NEW why, reset_stream_result(id, why) PROVE Result
    BY <1>3, Zenon DEF reset_stream_result
  <1>4. ASSUME NEW id, NEW stream, NEW prefix, complete_stream(id, stream, prefix) PROVE Result
    BY <1>4, Zenon DEF complete_stream, Refused, Served
  <1>5. ASSUME Quiet PROVE Result
    BY <1>5, Zenon DEF Quiet
  <1>6. ASSUME Rejected PROVE Result
    BY <1>6 DEF Rejected
  <1>7. CASE need_more \/ (\E request_allowed \in BOOLEAN : accept_preface(request_allowed)) \/ ExpectedPreface
    <2>1. Result
      BY <1>6, <1>7, Zenon DEF need_more, accept_preface, ExpectedPreface
    <2>2. QED
      BY <2>1, Zenon
  <1>8. CASE handle_goaway
    BY <1>8 DEF handle_goaway, close_now
  <1>9. CASE frame_buffer_exceeded \/ invalid_frame \/ expected_continuation \/ handle_push_promise
             \/ handle_settings \/ handle_ping \/ handle_rst_stream \/ handle_ignored
    <2>0. "calm" # "flow_control" /\ "protocol" # "flow_control"
      OBVIOUS
    <2>1. Result
      BY <1>2, <1>5, <1>9, <2>0, Zenon
         DEF frame_buffer_exceeded, invalid_frame, expected_continuation, handle_push_promise,
             handle_settings, handle_ping, handle_rst_stream, handle_ignored
    <2>2. QED
      BY <2>1, Zenon
  <1>10. ASSUME NEW id, NEW block, NEW why, drop_block(id, block, why) PROVE Result
    BY <1>3, <1>10, Zenon DEF drop_block
  <1>11. ASSUME NEW id, NEW end_stream, NEW block, decode_headers(id, end_stream, block)
         PROVE  Result
    BY <1>3, <1>4, <1>5, <1>11, Zenon DEF decode_headers
  <1>12. CASE handle_headers_frame \/ handle_continuation_frame
    <2>0. "protocol" # "flow_control"
      OBVIOUS
    <2>1. Result
      BY <1>2, <1>5, <1>10, <1>11, <1>12, <2>0, Zenon DEF handle_headers_frame, handle_continuation_frame
    <2>2. QED
      BY <2>1, Zenon
  <1>13. CASE handle_data_frame
    <2>1. CASE /\ fail_connection("flow_control") /\ Head(request_buffer_).id \in DOMAIN streams_
               /\ \/ Head(request_buffer_).data > connection_inbound_window_
                  \/ Head(request_buffer_).data > streams_[Head(request_buffer_).id].inbound_window
      <3>1. window' < 0
        BY <1>13, <2>1, Overrun, Zenon
      <3>2. phase_' = "writing" /\ keep_alive_after_response_' = FALSE
        BY <2>1, Zenon DEF fail_connection, set_serialized_response
      <3>3. QED
        BY <3>1, <3>2
    <2>2. CASE Result
      BY <2>2, Zenon
    <2>3. QED
      BY <1>3, <1>4, <1>5, <1>13, <2>1, <2>2, Zenon DEF handle_data_frame
  <1>14. QED
    BY <1>7, <1>8, <1>9, <1>12, <1>13, Zenon DEF ServerStep

(***************************************************************************)
(* FlowControlSpares: a client that never sends more than its window       *)
(* allows is never taken for one that does, whatever its DATA frames and   *)
(* paddings hold and whenever they and the WINDOW_UPDATE frames arrive     *)
(* (handle_data_frame).                                                    *)
(***************************************************************************)
THEOREM FlowControlIsFair == Safety => []FlowControlSpares
  <1>1. Init => Spared
    BY DEF Init, Spared
  <1>2. Typed /\ Balance /\ Spared /\ [Next]_vars => Spared'
    <2> SUFFICES ASSUME Typed, Balance, Spared, [Next]_vars PROVE Spared'
      OBVIOUS
    <2>1. ASSUME close_now PROVE Spared'
      BY <2>1 DEF close_now, Spared
    <2>2. ASSUME goaway' = goaway, phase_ = "reading" \/ phase_ = "closed" \/ keep_alive_after_response_
          PROVE  Spared'
      BY <2>2 DEF Spared
    <2>3. CASE ClientStep
      <3>1. ASSUME NEW frames, Send(frames) PROVE Spared'
        BY <2>2, <3>1, Zenon DEF Send, connection
      <3>2. QED
        BY <2>1, <2>3, <3>1, Zenon
           DEF ClientStep, ClientRequests, ClientSendsData, ClientSendsTrailers, ClientResets,
               ClientSettles, ClientStrays, ClientLeaves, Sends
    <2>4. CASE ServerStep
      <3>1. phase_ = "reading"
        BY <2>4 DEF ServerStep, need_more, accept_preface, ExpectedPreface, frame_buffer_exceeded,
           invalid_frame, expected_continuation, handle_push_promise, handle_settings, handle_ping,
           handle_goaway, handle_rst_stream, handle_ignored, handle_headers_frame,
           handle_continuation_frame, handle_data_frame, AtFrameBoundary, Taking, Processing,
           Opening, Running
      <3>2. goaway # "flow_control"
        BY <3>1 DEF Spared
      <3>3. QED
        BY <2>4, <3>2, OtherReasons, Zenon DEF Spared
    <2>5. CASE write_response
      BY <2>2, <2>5, Zenon DEF write_response
    <2>6. CASE write_last_response \/ expire_idle
      BY <2>1, <2>6, Zenon DEF write_last_response, expire_idle
    <2>7. CASE expire_cut_frame
      BY <2>7 DEF expire_cut_frame, Spared
    <2>8. CASE acquire
      BY <2>2, <2>8, Zenon DEF acquire
    <2>9. ASSUME NEW n \in DOMAIN flying, Receive(n) PROVE Spared'
      BY <2>2, <2>9, Zenon DEF Receive
    <2>10. CASE UNCHANGED vars
      BY <2>10 DEF vars, connection, client, Spared
    <2>11. QED
      BY <2>3, <2>4, <2>5, <2>6, <2>7, <2>8, <2>9, <2>10, Zenon DEF Next
  <1>3. Spared => FlowControlSpares
    BY DEF Spared, FlowControlSpares
  <1>4. QED
    BY <1>1, <1>2, <1>3, AlwaysTyped, PTL DEF Safety

----------------------------------------------------------------------------
(* A stream is given to a handler once and answered once.                  *)
Silent(s) == \A i \in DOMAIN s : s[i].type # "response"

Replies(s, id) == {i \in DOMAIN s : s[i].id = id /\ s[i].type = "response"}

Replied(id) == answered[id].response + Cardinality(Replies(output, id))

GivenOnce == \A i, j \in DOMAIN dispatched : dispatched[i].id = dispatched[j].id => i = j

GivenClosed == \A i \in DOMAIN dispatched : stream_closed(dispatched[i].id)

RepliedOnce == \A id \in Streams : Replied(id) <= 1 /\ (Replied(id) # 0 => stream_closed(id))

Remembered == \A id \in DOMAIN streams_ : id <= last_client_stream_id_

PendingFresh == pending_headers_ # <<>> => ~stream_closed(pending_headers_[1].id)

(***************************************************************************)
(* What makes it so: a stream that was given to a handler or answered is   *)
(* closed, a closed one is never opened again, and a header block that     *)
(* waits for its end belongs to a stream that is not closed.               *)
(***************************************************************************)
Once == GivenOnce /\ GivenClosed /\ RepliedOnce /\ Remembered /\ PendingFresh

StaysClosed == \A id \in Streams : stream_closed(id) => stream_closed(id)'

LEMMA RepliesNone ==
    ASSUME NEW s, Silent(s)
    PROVE  \A id : Replies(s, id) = {} /\ Cardinality(Replies(s, id)) = 0
  BY FS_EmptySet, Zenon DEF Silent, Replies

LEMMA RepliesOf ==
    ASSUME NEW prefix \in Seq(Outputs), NEW end \in Seq(Outputs), Silent(prefix), Silent(end),
           NEW id \in Nat
    PROVE  LET out == prefix \o <<Response(id)>> \o end
           IN  /\ Cardinality(Replies(out, id)) = 1
               /\ \A x : x # id => Cardinality(Replies(out, x)) = 0
  <1> DEFINE r == Response(id)
             out == prefix \o <<r>> \o end
             k == Len(prefix) + 1
  <1>1. r \in Outputs /\ r.type = "response" /\ r.id = id
    BY OutputsTyped DEF Response, Written
  <1> HIDE DEF r
  <1>2. /\ DOMAIN out = 1 .. Len(prefix) + 1 + Len(end) /\ k \in DOMAIN out /\ out[k] = r
        /\ \A i \in DOMAIN out : i # k => \/ i \in DOMAIN prefix /\ out[i] = prefix[i]
                                          \/ i - k \in DOMAIN end /\ out[i] = end[i - k]
    BY <1>1
  <1> HIDE DEF out, k
  <1>3. \A i \in DOMAIN out : i # k => out[i].type # "response"
    BY <1>2, Zenon DEF Silent
  <1>4. Replies(out, id) = {k}
    BY <1>1, <1>2, <1>3, Zenon DEF Replies
  <1>5. \A x : x # id => Replies(out, x) = {}
    BY <1>1, <1>2, <1>3, Zenon DEF Replies
  <1>6. Cardinality({k}) = 1 /\ Cardinality({}) = 0
    BY FS_Singleton, FS_EmptySet, Zenon
  <1>7. QED
    BY <1>4, <1>5, <1>6, Zenon DEF out, r

LEMMA RepliedNat ==
    ASSUME Typed
    PROVE  \A id \in Streams :
             /\ answered[id].response \in Nat /\ Cardinality(Replies(output, id)) \in Nat
             /\ Replied(id) \in Nat /\ Answered(id).response = Replied(id)
  <1> SUFFICES ASSUME NEW id \in Streams
               PROVE  /\ answered[id].response \in Nat /\ Cardinality(Replies(output, id)) \in Nat
                      /\ Replied(id) \in Nat /\ Answered(id).response = Replied(id)
    OBVIOUS
  <1>1. answered[id].response \in Nat
    BY DEF Typed, ClientOK
  <1>2. Cardinality(Replies(output, id)) = Answers(id, "response")
    BY Zenon DEF Replies, Answers
  <1>3. Answers(id, "response") \in Nat
    BY AnsweredOK, Zenon
  <1>4. Answered(id).response = answered[id].response + Answers(id, "response")
    BY DEF Answered, Unanswered
  <1>5. QED
    BY <1>1, <1>2, <1>3, <1>4 DEF Replied

LEMMA SilentOutputs ==
    /\ Silent(<<>>) /\ Silent(<<Goaway>>) /\ Silent(<<Notice>>) /\ Silent(<<Timeout>>)
    /\ Silent(<<Notice, Notice>>)
    /\ \A id, why : Silent(<<Reset(id, why)>>)
    /\ \A id, n : Silent(<<Update(0, n), Update(id, n)>>)
  <1>1. ASSUME NEW a, a.type # "response" PROVE Silent(<<a>>)
    BY <1>1 DEF Silent
  <1>2. ASSUME NEW a, NEW b, a.type # "response", b.type # "response" PROVE Silent(<<a, b>>)
    BY <1>2 DEF Silent
  <1>3. Silent(<<>>)
    BY DEF Silent
  <1>4. Goaway.type # "response" /\ Notice.type # "response" /\ Timeout.type # "response"
    BY DEF Goaway, Notice, Timeout, Written
  <1>5. ASSUME NEW id, NEW n
        PROVE  Reset(id, n).type # "response" /\ Update(id, n).type # "response"
    BY DEF Reset, Update, Written
  <1>6. QED
    BY <1>1, <1>2, <1>3, <1>4, <1>5, Zenon

LEMMA DispatchedIds ==
    ASSUME Typed
    PROVE  \A i \in DOMAIN dispatched : dispatched[i].id \in Streams
  <1>1. \A request \in Dispatches : request.id \in Streams
    BY Zenon DEF Dispatches
  <1>2. \A i \in DOMAIN dispatched : dispatched[i] \in Dispatches
    BY DEF Typed, HistoryOK
  <1>3. QED
    BY <1>1, <1>2, Zenon

\* A step that answers no stream.
LEMMA NoReply ==
    ASSUME Typed, Once, StaysClosed, dispatched' = dispatched, answered' = answered,
           Silent(output') \/ output' = output
    PROVE  GivenOnce' /\ GivenClosed' /\ RepliedOnce'
  <1>1. GivenOnce'
    BY DEF Once, GivenOnce
  <1>2. GivenClosed'
    <2>1. \A i \in DOMAIN dispatched : dispatched[i].id \in Streams
      BY DispatchedIds
    <2>2. QED
      BY <2>1, Zenon DEF Once, GivenClosed, StaysClosed
  <1>3. RepliedOnce'
    <2> SUFFICES ASSUME NEW id \in Streams
                 PROVE  Replied(id)' <= 1 /\ (Replied(id)' # 0 => stream_closed(id)')
      BY DEF RepliedOnce
    <2>1. /\ answered[id].response \in Nat /\ Cardinality(Replies(output, id)) \in Nat
          /\ Replied(id) <= 1 /\ (Replied(id) # 0 => stream_closed(id))
      BY RepliedNat DEF Once, RepliedOnce
    <2>2. Cardinality(Replies(output, id)') = 0 \/ Cardinality(Replies(output, id)') = Cardinality(Replies(output, id))
      <3>1. CASE output' = output
        BY <3>1 DEF Replies
      <3>2. CASE Silent(output')
        <4>1. Cardinality(Replies(output', id)) = 0
          BY <3>2, RepliesNone, Zenon
        <4>2. Replies(output', id) = Replies(output, id)'
          BY DEF Replies
        <4>3. QED
          BY <4>1, <4>2, Zenon
      <3>3. QED
        BY <3>1, <3>2
    <2>3. Replied(id)' = answered[id].response + Cardinality(Replies(output, id)')
      BY DEF Replied
    <2>4. Replied(id)' <= 1 /\ (Replied(id)' # 0 => Replied(id) # 0)
      BY <2>1, <2>2, <2>3 DEF Replied
    <2>5. QED
      BY <2>1, <2>4, Zenon DEF StaysClosed
  <1>4. QED
    BY <1>1, <1>2, <1>3

\* A step that answers a stream, and maybe gives it to a handler.
LEMMA OneReply ==
    ASSUME Typed, Once, StaysClosed, answered' = answered,
           NEW id \in Streams, ~stream_closed(id), stream_closed(id)',
           NEW prefix \in Seq(Outputs), NEW end \in Seq(Outputs), Silent(prefix), Silent(end),
           output' = prefix \o <<Response(id)>> \o end,
           \/ dispatched' = dispatched
           \/ \E request \in Dispatches : request.id = id /\ dispatched' = Append(dispatched, request)
    PROVE  GivenOnce' /\ GivenClosed' /\ RepliedOnce'
  <1>0. id \in Nat
    BY StreamsAreOdd
  <1>1. \A i \in DOMAIN dispatched : dispatched[i].id \in Streams /\ dispatched[i].id # id
    <2>1. \A i \in DOMAIN dispatched : dispatched[i].id \in Streams
      BY DispatchedIds
    <2>2. QED
      BY <2>1, Zenon DEF Once, GivenClosed
  <1>2. GivenOnce' /\ GivenClosed'
    <2>1. CASE dispatched' = dispatched
      BY <1>1, <2>1, Zenon DEF Once, GivenOnce, GivenClosed, StaysClosed
    <2>2. ASSUME NEW request \in Dispatches, request.id = id, dispatched' = Append(dispatched, request)
          PROVE  GivenOnce' /\ GivenClosed'
      <3>1. /\ dispatched \in Seq(Dispatches) /\ DOMAIN dispatched' = 1 .. Len(dispatched) + 1
            /\ dispatched'[Len(dispatched) + 1] = request
            /\ \A i \in DOMAIN dispatched : dispatched'[i] = dispatched[i]
        BY <2>2 DEF Typed, HistoryOK
      <3>2. \A i \in DOMAIN dispatched' : i \in DOMAIN dispatched \/ i = Len(dispatched) + 1
        BY <3>1
      <3>3. GivenClosed'
        BY <1>1, <2>2, <3>1, <3>2, Zenon DEF Once, GivenClosed, StaysClosed
      <3>4. GivenOnce'
        BY <1>1, <2>2, <3>1, <3>2, ZenonT(30) DEF Once, GivenOnce
      <3>5. QED
        BY <3>3, <3>4
    <2>3. QED
      BY <2>1, <2>2
  <1>3. RepliedOnce'
    <2> DEFINE out == prefix \o <<Response(id)>> \o end
    <2>1. /\ Cardinality(Replies(out, id)) = 1
          /\ \A x : x # id => Cardinality(Replies(out, x)) = 0
      BY <1>0, RepliesOf, Zenon
    <2> HIDE DEF out
    <2>2. output' = out
      BY DEF out
    <2> SUFFICES ASSUME NEW x \in Streams
                 PROVE  Replied(x)' <= 1 /\ (Replied(x)' # 0 => stream_closed(x)')
      BY DEF RepliedOnce
    <2>3. /\ answered[x].response \in Nat /\ Cardinality(Replies(output, x)) \in Nat
          /\ Replied(x) <= 1 /\ (Replied(x) # 0 => stream_closed(x))
      BY RepliedNat DEF Once, RepliedOnce
    <2>4. Replied(x)' = answered[x].response + Cardinality(Replies(out, x))
      BY <2>2 DEF Replied, Replies
    <2>5. CASE x = id
      <3>1. Replied(x) = 0
        BY <2>3, <2>5, Zenon
      <3>2. answered[x].response = 0
        BY <2>3, <3>1 DEF Replied
      <3>3. Replied(x)' = 1
        BY <2>1, <2>4, <2>5, <3>2
      <3>4. QED
        BY <2>5, <3>3
    <2>6. CASE x # id
      <3>1. Cardinality(Replies(out, x)) = 0
        BY <2>1, <2>6, Zenon
      <3>2. Replied(x)' <= 1 /\ (Replied(x)' # 0 => Replied(x) # 0)
        BY <2>3, <2>4, <3>1 DEF Replied
      <3>3. QED
        BY <2>3, <3>2, Zenon DEF StaysClosed
    <2>7. QED
      BY <2>5, <2>6
  <1>4. QED
    BY <1>2, <1>3

\* A step that closes a stream, or leaves the streams as they are.
LEMMA FewerStreams ==
    ASSUME Remembered, DOMAIN streams_' \subseteq DOMAIN streams_,
           last_client_stream_id_' = last_client_stream_id_
    PROVE  StaysClosed /\ Remembered'
  <1>1. StaysClosed
    BY Zenon DEF StaysClosed, stream_closed
  <1>2. Remembered'
    BY Zenon DEF Remembered
  <1>3. QED
    BY <1>1, <1>2

LEMMA FailOnce ==
    ASSUME Typed, Once, NEW why, fail_connection(why), answered' = answered
    PROVE  Once'
  <1>1. /\ streams_' = <<>> /\ pending_headers_' = <<>> /\ output' = <<Goaway>>
        /\ last_client_stream_id_' = last_client_stream_id_ /\ dispatched' = dispatched
    BY Zenon DEF fail_connection, set_serialized_response
  <1>2. DOMAIN streams_' \subseteq DOMAIN streams_
    BY <1>1
  <1>3. StaysClosed /\ Remembered'
    BY <1>1, <1>2, FewerStreams, Zenon DEF Once
  <1>4. PendingFresh'
    BY <1>1, Zenon DEF PendingFresh
  <1>5. Silent(output')
    BY <1>1, SilentOutputs, Zenon
  <1>6. QED
    BY <1>1, <1>3, <1>4, <1>5, NoReply, Zenon DEF Once

LEMMA ResetOnce ==
    ASSUME Typed, Once, NEW id, NEW why, reset_stream_result(id, why), answered' = answered,
           last_client_stream_id_' = last_client_stream_id_, pending_headers_' = <<>>
    PROVE  Once'
  <1>1. streams_' = without(id) /\ output' = <<Reset(id, why)>> /\ dispatched' = dispatched
    BY Zenon DEF reset_stream_result, set_serialized_response
  <1>2. DOMAIN streams_' \subseteq DOMAIN streams_
    BY <1>1, WithoutOK DEF Typed
  <1>3. StaysClosed /\ Remembered'
    BY <1>2, FewerStreams, Zenon DEF Once
  <1>4. PendingFresh'
    BY Zenon DEF PendingFresh
  <1>5. Silent(output')
    BY <1>1, SilentOutputs, Zenon
  <1>6. QED
    BY <1>1, <1>3, <1>4, <1>5, NoReply, Zenon DEF Once

\* What the session keeps, and what it answers, is as before.
LEMMA SameOnce ==
    ASSUME Typed, Once, UNCHANGED <<last_client_stream_id_, pending_headers_, streams_>>,
           dispatched' = dispatched, answered' = answered, Silent(output') \/ output' = output
    PROVE  Once'
  <1>1. StaysClosed /\ Remembered' /\ PendingFresh'
    BY Zenon DEF Once, StaysClosed, Remembered, PendingFresh, stream_closed
  <1>2. QED
    BY <1>1, NoReply, Zenon DEF Once

LEMMA CloseOnce ==
    ASSUME Typed, close_now
    PROVE  Once'
  <1>1. /\ dispatched' = <<>> /\ streams_' = <<>> /\ pending_headers_' = <<>> /\ output' = <<>>
        /\ answered' = [id \in Streams |-> Unanswered]
    BY Zenon DEF close_now
  <1>2. GivenOnce' /\ GivenClosed' /\ Remembered' /\ PendingFresh'
    BY <1>1 DEF GivenOnce, GivenClosed, Remembered, PendingFresh
  <1>3. RepliedOnce'
    <2> SUFFICES ASSUME NEW id \in Streams
                 PROVE  Replied(id)' <= 1 /\ (Replied(id)' # 0 => stream_closed(id)')
      BY DEF RepliedOnce
    <2>1. Cardinality(Replies(<<>>, id)) = 0
      BY RepliesNone, SilentOutputs, Zenon
    <2>2. answered'[id].response = 0
      BY <1>1 DEF Unanswered
    <2>3. Replied(id)' = answered'[id].response + Cardinality(Replies(<<>>, id))
      BY <1>1 DEF Replied, Replies
    <2>4. Replied(id)' = 0
      BY <2>1, <2>2, <2>3
    <2>5. QED
      BY <2>4
  <1>4. QED
    BY <1>2, <1>3 DEF Once

\* The end of a stream that is not closed: it is closed then, and no other is opened.
LEMMA CompleteOnce ==
    ASSUME Typed, Once, NEW id \in Streams, ~stream_closed(id), NEW stream \in OpenStreams,
           NEW prefix \in Seq(Outputs), Silent(prefix), complete_stream(id, stream, prefix),
           id <= last_client_stream_id_', last_client_stream_id_ <= last_client_stream_id_',
           last_client_stream_id_' \in Nat, pending_headers_' = <<>>, answered' = answered
    PROVE  Once'
  <1>0. id \in Nat /\ last_client_stream_id_ \in Nat /\ Streams \subseteq Nat
    BY StreamsAreOdd DEF Typed, SessionOK
  <1>1. DOMAIN streams_' = DOMAIN streams_ \ {id}
    BY WithoutOK DEF Typed, complete_stream
  <1>2. StaysClosed
    <2>1. ASSUME NEW x \in Streams, stream_closed(x) PROVE stream_closed(x)'
      <3>1. x \in Nat /\ x <= last_client_stream_id_ /\ x \notin DOMAIN streams_
        BY <1>0, <2>1 DEF stream_closed
      <3>2. x <= last_client_stream_id_'
        BY <1>0, <3>1
      <3>3. QED
        BY <1>1, <3>1, <3>2 DEF stream_closed
    <2>2. QED
      BY <2>1, Zenon DEF StaysClosed
  <1>3. Remembered'
    <2>1. ASSUME NEW x \in DOMAIN streams_' PROVE x <= last_client_stream_id_'
      <3>1. x \in DOMAIN streams_ /\ x \in Nat
        BY <1>0, <1>1 DEF Typed, StreamsOK
      <3>2. x <= last_client_stream_id_
        BY <3>1 DEF Once, Remembered
      <3>3. QED
        BY <1>0, <3>1, <3>2
    <2>2. QED
      BY <2>1 DEF Remembered
  <1>4. PendingFresh'
    BY Zenon DEF PendingFresh
  <1>5. stream_closed(id)'
    BY <1>1 DEF stream_closed
  <1>6. CASE Refused(id, prefix)
    <2> DEFINE r == <<Response(id)>>
    <2>1. output' = prefix \o r /\ dispatched' = dispatched
      BY <1>6, Zenon DEF Refused, set_serialized_response
    <2>2. r \in Seq(Outputs)
      BY <1>0, WrittenSeqs, Zenon
    <2> HIDE DEF r
    <2>3. prefix \o r \o <<>> = prefix \o r /\ <<>> \in Seq(Outputs)
      BY <2>2
    <2>4. output' = prefix \o <<Response(id)>> \o <<>>
      BY <2>1, <2>3, Zenon DEF r
    <2>5. GivenOnce' /\ GivenClosed' /\ RepliedOnce'
      BY <1>2, <1>5, <2>1, <2>3, <2>4, SilentOutputs, OneReply, Zenon
    <2>6. QED
      BY <1>3, <1>4, <2>5, Zenon DEF Once
  <1>7. ASSUME NEW sent \in BOOLEAN, Served(id, stream, prefix, sent) PROVE Once'
    <2> DEFINE request == [id |-> id, fields |-> stream.fields, body |-> stream.body]
    <2>1. PICK end : /\ end = <<Goaway>> \/ end = <<>>
                     /\ output' = prefix \o <<Response(id)>> \o end
      BY <1>7, Zenon DEF Served, set_serialized_response
    <2>2. dispatched' = Append(dispatched, request)
      BY <1>7, Zenon DEF Served
    <2>3. request \in Dispatches /\ request.id = id
      BY DEF OpenStreams, Dispatches
    <2> HIDE DEF request
    <2>4. end \in Seq(Outputs) /\ Silent(end)
      BY <2>1, WrittenSeqs, SilentOutputs, NoStreams, Zenon
    <2>5. GivenOnce' /\ GivenClosed' /\ RepliedOnce'
      BY <1>2, <1>5, <2>1, <2>2, <2>3, <2>4, OneReply, Zenon
    <2>6. QED
      BY <1>3, <1>4, <2>5, Zenon DEF Once
  <1>8. QED
    BY <1>6, <1>7, Zenon DEF complete_stream

LEMMA DecodeOnce ==
    ASSUME Typed, Once, NEW id \in Streams, ~stream_closed(id), NEW end_stream,
           NEW block \in Seq(Instructions), decode_headers(id, end_stream, block),
           pending_headers_' = <<>>, answered' = answered
    PROVE  Once'
  <1> DEFINE decoded == decode_header_block(decoder_, block)
             stream == [fields |-> decoded.fields, body |-> 0, inbound_window |-> InitialWindow]
  <1>0. id \in Nat /\ last_client_stream_id_ \in Nat /\ Streams \subseteq Nat
    BY StreamsAreOdd DEF Typed, SessionOK
  <1>1. \/ /\ last_client_stream_id_' = last_client_stream_id_
           /\ reset_stream_result(id, "compression") \/ reset_stream_result(id, "protocol")
        \/ /\ last_client_stream_id_' = Max({id, last_client_stream_id_})
           /\ complete_stream(id, stream, <<>>) \/ (Quiet /\ streams_' = opened(id, stream))
    BY Zenon DEF decode_headers
  <1>2. stream \in OpenStreams
    <2>1. Decoded(decoded)
      BY BlockDecoded DEF Typed, DecoderOK
    <2>2. decoded.fields \in Seq(Fields)
      BY <2>1 DEF Decoded
    <2> HIDE DEF decoded
    <2>3. QED
      BY <2>2, SessionAssumption DEF OpenStreams
  <1> HIDE DEF stream
  <1>3. CASE /\ last_client_stream_id_' = last_client_stream_id_
             /\ reset_stream_result(id, "compression") \/ reset_stream_result(id, "protocol")
    BY <1>3, ResetOnce, Zenon
  <1>4. ASSUME last_client_stream_id_' = Max({id, last_client_stream_id_})
        PROVE  /\ last_client_stream_id_' \in Nat /\ id <= last_client_stream_id_'
               /\ last_client_stream_id_ <= last_client_stream_id_'
    <2> DEFINE m == Max({id, last_client_stream_id_})
    <2>1. id \in Int /\ last_client_stream_id_ \in Int
      BY <1>0
    <2>2. m \in {id, last_client_stream_id_} /\ m >= id /\ m >= last_client_stream_id_
      BY <2>1, MaxOfTwo, Zenon
    <2>3. last_client_stream_id_' = m
      BY <1>4
    <2> HIDE DEF m
    <2>4. QED
      BY <1>0, <2>2, <2>3
  <1>5. CASE last_client_stream_id_' = Max({id, last_client_stream_id_}) /\ complete_stream(id, stream, <<>>)
    <2>1. <<>> \in Seq(Outputs) /\ Silent(<<>>)
      BY SilentOutputs, NoStreams, Zenon
    <2>2. QED
      BY <1>2, <1>4, <1>5, <2>1, CompleteOnce, Zenon
  <1>6. CASE /\ last_client_stream_id_' = Max({id, last_client_stream_id_})
             /\ Quiet /\ streams_' = opened(id, stream)
    <2>1. DOMAIN streams_' = DOMAIN streams_ \cup {id}
      BY <1>6 DEF opened
    <2>2. dispatched' = dispatched /\ output' = output
      BY <1>6, Zenon DEF Quiet
    <2>3. StaysClosed
      <3>1. ASSUME NEW x \in Streams, stream_closed(x) PROVE stream_closed(x)'
        <4>1. x \in Nat /\ x <= last_client_stream_id_ /\ x \notin DOMAIN streams_ /\ x # id
          BY <1>0, <3>1 DEF stream_closed
        <4>2. x <= last_client_stream_id_'
          BY <1>0, <1>4, <1>6, <4>1
        <4>3. QED
          BY <2>1, <4>1, <4>2 DEF stream_closed
      <3>2. QED
        BY <3>1, Zenon DEF StaysClosed
    <2>4. Remembered'
      <3>1. ASSUME NEW x \in DOMAIN streams_ PROVE x <= last_client_stream_id_'
        <4>1. x \in Nat /\ x <= last_client_stream_id_
          BY <1>0 DEF Once, Remembered, Typed, StreamsOK
        <4>2. QED
          BY <1>0, <1>4, <1>6, <4>1
      <3>2. QED
        BY <1>4, <1>6, <2>1, <3>1 DEF Remembered
    <2>5. PendingFresh'
      BY Zenon DEF PendingFresh
    <2>6. QED
      BY <2>2, <2>3, <2>4, <2>5, NoReply, Zenon DEF Once
  <1>7. QED
    BY <1>1, <1>3, <1>5, <1>6, Zenon

LEMMA HeadersOnce ==
    ASSUME Typed, Once, handle_headers_frame
    PROVE  Once'
  <1> DEFINE frame == Head(request_buffer_)
  <1>0. Taking({"headers"}) /\ pending_headers_ = <<>>
    BY Zenon DEF handle_headers_frame, AtFrameBoundary
  <1>1. /\ frame.block \in Seq(Instructions) /\ answered' = answered
        /\ frame.id % 2 = 1 => frame.id \in Streams
    BY <1>0, TakingOK, FrameParts
  <1>2. CASE fail_connection("protocol")
    BY <1>1, <1>2, FailOnce, Zenon
  <1>3. CASE /\ pending_headers_' = pending_headers_
             /\ drop_block(frame.id, frame.block, "closed") \/ drop_block(frame.id, frame.block, "protocol")
    BY <1>0, <1>1, <1>3, ResetOnce, Zenon DEF drop_block
  <1>4. CASE /\ ~stream_closed(frame.id)
             /\ pending_headers_' = <<[id |-> frame.id, end_stream |-> frame.end_stream,
                                       block |-> frame.block]>>
             /\ Quiet
             /\ UNCHANGED <<last_client_stream_id_, decoder_, streams_, unsynced>>
    <2>1. StaysClosed /\ Remembered'
      BY <1>4, FewerStreams, Zenon DEF Once
    <2>2. PendingFresh'
      <3>1. pending_headers_'[1].id = frame.id
        BY <1>4
      <3>2. QED
        BY <1>4, <3>1 DEF PendingFresh, stream_closed
    <2>3. dispatched' = dispatched /\ output' = output
      BY <1>4, Zenon DEF Quiet
    <2>4. QED
      BY <1>1, <2>1, <2>2, <2>3, NoReply, Zenon DEF Once
  <1>5. CASE /\ frame.id % 2 = 1 /\ ~stream_closed(frame.id) /\ pending_headers_' = pending_headers_
             /\ decode_headers(frame.id, frame.end_stream, frame.block)
    BY <1>0, <1>1, <1>5, DecodeOnce, Zenon
  <1>6. QED
    BY <1>2, <1>3, <1>4, <1>5, Zenon DEF handle_headers_frame

LEMMA ContinuationOnce ==
    ASSUME Typed, Once, handle_continuation_frame
    PROVE  Once'
  <1> DEFINE frame == Head(request_buffer_)
             pending == pending_headers_[1]
             block == pending.block \o frame.block
             matches == pending_headers_ # <<>> /\ pending.id = frame.id
  <1>0. Taking({"continuation"})
    BY Zenon DEF handle_continuation_frame
  <1>1. frame.block \in Seq(Instructions) /\ answered' = answered
    BY <1>0, TakingOK, FrameParts
  <1>2. CASE fail_connection("protocol")
    BY <1>1, <1>2, FailOnce, Zenon
  <1>3. CASE pending_headers_' = <<>> /\ drop_block(frame.id, block, "calm")
    BY <1>1, <1>3, ResetOnce, Zenon DEF drop_block
  <1>4. CASE /\ matches /\ pending_headers_' = <<[pending EXCEPT !.block = block]>> /\ Quiet
             /\ UNCHANGED <<last_client_stream_id_, decoder_, streams_, unsynced>>
    <2>1. StaysClosed /\ Remembered'
      BY <1>4, FewerStreams, Zenon DEF Once
    <2>2. PendingFresh'
      <3>1. pending \in Pendings
        BY <1>4 DEF Typed, PendingOK
      <3>2. pending_headers_'[1].id = pending.id
        <4> DEFINE p == [pending EXCEPT !.block = block]
        <4>1. p.id = pending.id
          BY <3>1 DEF Pendings
        <4>2. pending_headers_' = <<p>>
          BY <1>4
        <4> HIDE DEF p
        <4>3. QED
          BY <4>1, <4>2
      <3>3. ~stream_closed(pending.id)
        BY <1>4, Zenon DEF Once, PendingFresh
      <3>4. QED
        BY <1>4, <3>2, <3>3 DEF PendingFresh, stream_closed
    <2>3. dispatched' = dispatched /\ output' = output
      BY <1>4, Zenon DEF Quiet
    <2>4. QED
      BY <1>1, <2>1, <2>2, <2>3, NoReply, Zenon DEF Once
  <1>5. CASE matches /\ pending_headers_' = <<>> /\ decode_headers(pending.id, pending.end_stream, block)
    <2>1. pending \in Pendings
      BY <1>5 DEF Typed, PendingOK
    <2>2. pending.id \in Streams /\ pending.block \in Seq(Instructions)
      BY <2>1 DEF Pendings
    <2>3. block \in Seq(Instructions)
      BY <1>1, <2>2
    <2>4. ~stream_closed(pending.id)
      BY <1>5, Zenon DEF Once, PendingFresh
    <2>5. QED
      BY <1>1, <1>5, <2>2, <2>3, <2>4, DecodeOnce, Zenon
  <1>6. QED
    BY <1>2, <1>3, <1>4, <1>5, Zenon DEF handle_continuation_frame

LEMMA DataOnce ==
    ASSUME Typed, Once, handle_data_frame
    PROVE  Once'
  <1> DEFINE frame == Head(request_buffer_)
             n == frame.data
             stream == streams_[frame.id]
             longer == received(stream, n)
             updates == IF n = 0 THEN <<>> ELSE <<Update(0, n), Update(frame.id, n)>>
             known == frame.id \in DOMAIN streams_
  <1>0. /\ Taking({"data"}) /\ pending_headers_ = <<>>
        /\ last_client_stream_id_' = last_client_stream_id_
    BY Zenon DEF handle_data_frame, AtFrameBoundary
  <1>1. frame.id \in Nat /\ n \in Nat /\ answered' = answered
    BY <1>0, TakingOK, FrameParts
  <1>2. CASE fail_connection("flow_control")
    BY <1>1, <1>2, FailOnce, Zenon
  <1>3. CASE /\ pending_headers_' = pending_headers_
             /\ \/ reset_stream_result(frame.id, "closed")
                \/ reset_stream_result(frame.id, "protocol")
                \/ reset_stream_result(frame.id, "calm")
    BY <1>0, <1>1, <1>3, ResetOnce, Zenon
  <1>4. CASE /\ known /\ longer.body <= max_request_bytes
             /\ pending_headers_' = pending_headers_
             /\ \/ complete_stream(frame.id, longer, updates)
                \/ /\ streams_' = [streams_ EXCEPT ![frame.id] = longer]
                   /\ IF n = 0 THEN Quiet
                      ELSE /\ set_serialized_response(updates, TRUE)
                           /\ UNCHANGED <<requests_served_, goaway, dispatched>>
    <2>1. frame.id \in Streams /\ frame.id \in DOMAIN streams_
      BY <1>4 DEF Typed, StreamsOK
    <2>2. longer \in OpenStreams
      BY <1>1, <1>4, <2>1, ReceivedOK, Zenon
    <2>3. updates \in Seq(Outputs) /\ Silent(updates)
      BY <1>1, <2>1, UpdatesOK, SilentOutputs, NoStreams, Zenon
    <2> HIDE DEF longer, updates
    <2>4. CASE complete_stream(frame.id, longer, updates)
      <3>1. ~stream_closed(frame.id)
        BY <2>1 DEF stream_closed
      <3>2. frame.id <= last_client_stream_id_ /\ last_client_stream_id_ \in Nat
        BY <2>1, StreamsAreOdd DEF Once, Remembered, Typed, SessionOK
      <3>3. /\ frame.id <= last_client_stream_id_' /\ last_client_stream_id_ <= last_client_stream_id_'
            /\ last_client_stream_id_' \in Nat
        BY <1>0, <3>2
      <3>4. QED
        BY <1>0, <1>1, <1>4, <2>1, <2>2, <2>3, <2>4, <3>1, <3>3, CompleteOnce, Zenon
    <2>5. CASE /\ streams_' = [streams_ EXCEPT ![frame.id] = longer]
               /\ Quiet \/ (set_serialized_response(updates, TRUE) /\ dispatched' = dispatched)
      <3>1. DOMAIN streams_' = DOMAIN streams_
        BY <2>5
      <3>2. StaysClosed /\ Remembered'
        BY <1>0, <3>1, FewerStreams, Zenon DEF Once
      <3>3. PendingFresh'
        BY <1>0, <1>4, Zenon DEF PendingFresh
      <3>4. dispatched' = dispatched /\ (output' = output \/ output' = updates)
        BY <2>5, Zenon DEF Quiet, set_serialized_response
      <3>5. Silent(output') \/ output' = output
        BY <2>3, <3>4, Zenon
      <3>6. QED
        BY <1>1, <3>2, <3>3, <3>4, <3>5, NoReply, Zenon DEF Once
    <2>6. QED
      BY <1>4, <2>4, <2>5, Zenon
  <1>5. QED
    BY <1>2, <1>3, <1>4, Zenon DEF handle_data_frame

LEMMA ServerOnce ==
    ASSUME Typed, Once, ServerStep
    PROVE  Once'
  <1>1. CASE need_more \/ handle_ping \/ handle_ignored
    <2>1. UNCHANGED <<last_client_stream_id_, pending_headers_, streams_>> /\ dispatched' = dispatched
          /\ answered' = answered /\ (output' = output \/ output' = <<Notice>>)
      BY <1>1, Zenon DEF need_more, handle_ping, handle_ignored, Quiet, set_serialized_response,
                  AtFrameBoundary, Taking, session, session_data, history, client
    <2>2. QED
      BY <2>1, SilentOutputs, SameOnce, Zenon
  <1>2. CASE ExpectedPreface \/ \E request_allowed \in BOOLEAN : accept_preface(request_allowed)
    <2>1. UNCHANGED <<session_data, history, client>>
      BY <1>2, Zenon DEF ExpectedPreface, accept_preface
    <2>2. output' = <<Goaway>> \/ output' = <<Notice, Notice>>
      BY <1>2, Zenon DEF ExpectedPreface, accept_preface, Rejected, set_serialized_response
    <2>3. UNCHANGED <<last_client_stream_id_, pending_headers_, streams_>> /\ dispatched' = dispatched
          /\ answered' = answered
      BY <2>1, Zenon DEF session_data, history, client
    <2>4. QED
      BY <2>2, <2>3, SilentOutputs, SameOnce, Zenon
  <1>3. CASE handle_settings
    <2>1. UNCHANGED <<last_client_stream_id_, pending_headers_, streams_>> /\ dispatched' = dispatched
          /\ answered' = answered /\ output' = <<Notice>>
      BY <1>3, Zenon DEF handle_settings, set_serialized_response, AtFrameBoundary, Taking, client
    <2>2. QED
      BY <2>1, SilentOutputs, SameOnce, Zenon
  <1>4. CASE frame_buffer_exceeded \/ invalid_frame \/ expected_continuation \/ handle_push_promise
    BY <1>4, FailOnce, Zenon DEF frame_buffer_exceeded, invalid_frame, expected_continuation,
                            handle_push_promise, AtFrameBoundary, Taking, client
  <1>5. CASE handle_goaway
    BY <1>5, CloseOnce, Zenon DEF handle_goaway
  <1>6. CASE handle_rst_stream
    <2>1. /\ streams_' = without(Head(request_buffer_).id) /\ dispatched' = dispatched
          /\ answered' = answered /\ output' = output /\ pending_headers_' = <<>>
          /\ last_client_stream_id_' = last_client_stream_id_
      BY <1>6, Zenon DEF handle_rst_stream, Quiet, AtFrameBoundary, Taking, client
    <2>2. DOMAIN streams_' \subseteq DOMAIN streams_
      BY <2>1, WithoutOK DEF Typed
    <2>3. StaysClosed /\ Remembered'
      BY <2>1, <2>2, FewerStreams, Zenon DEF Once
    <2>4. PendingFresh'
      BY <2>1, Zenon DEF PendingFresh
    <2>5. QED
      BY <2>1, <2>3, <2>4, NoReply, Zenon DEF Once
  <1>7. QED
    BY <1>1, <1>2, <1>3, <1>4, <1>5, <1>6, HeadersOnce, ContinuationOnce, DataOnce, Zenon DEF ServerStep

LEMMA OnceStep == Typed /\ Once /\ [Next]_vars => Once'
  <1> SUFFICES ASSUME Typed, Once, [Next]_vars PROVE Once'
    OBVIOUS
  <1>1. ASSUME UNCHANGED <<session, history>>, answered' = answered,
               Silent(output') \/ output' = output
        PROVE  Once'
    <2>1. UNCHANGED <<last_client_stream_id_, pending_headers_, streams_>> /\ dispatched' = dispatched
      BY <1>1, Zenon DEF session, session_data, history
    <2>2. QED
      BY <1>1, <2>1, SameOnce, Zenon
  <1>2. CASE ClientStep
    <2>1. ASSUME NEW frames, Send(frames) PROVE Once'
      BY <1>1, <2>1, Zenon DEF Send, connection
    <2>2. QED
      BY <1>2, <2>1, CloseOnce, Zenon
         DEF ClientStep, ClientRequests, ClientSendsData, ClientSendsTrailers, ClientResets,
             ClientSettles, ClientStrays, ClientLeaves, Sends
  <1>3. CASE write_response
    <2>1. /\ output' = <<>> /\ answered' = [id \in Streams |-> Answered(id)]
          /\ UNCHANGED <<session, history>>
      BY <1>3, Zenon DEF write_response
    <2>2. UNCHANGED <<last_client_stream_id_, pending_headers_, streams_>> /\ dispatched' = dispatched
      BY <2>1, Zenon DEF session, session_data, history
    <2>3. GivenOnce' /\ GivenClosed' /\ Remembered' /\ PendingFresh'
      BY <2>2, Zenon DEF Once, GivenOnce, GivenClosed, Remembered, PendingFresh, stream_closed
    <2>4. RepliedOnce'
      <3> SUFFICES ASSUME NEW id \in Streams
                   PROVE  Replied(id)' <= 1 /\ (Replied(id)' # 0 => stream_closed(id)')
        BY DEF RepliedOnce
      <3>1. Cardinality(Replies(<<>>, id)) = 0
        BY RepliesNone, SilentOutputs, Zenon
      <3>2. answered'[id].response = Replied(id) /\ Replied(id) \in Nat
        BY <2>1, RepliedNat
      <3>3. Replied(id)' = answered'[id].response + Cardinality(Replies(<<>>, id))
        BY <2>1 DEF Replied, Replies
      <3>4. Replied(id)' = Replied(id)
        BY <3>1, <3>2, <3>3
      <3>5. Replied(id) <= 1 /\ (Replied(id) # 0 => stream_closed(id))
        BY DEF Once, RepliedOnce
      <3>6. stream_closed(id)' <=> stream_closed(id)
        BY <2>2 DEF stream_closed
      <3>7. QED
        BY <3>4, <3>5, <3>6, Zenon
    <2>5. QED
      BY <2>3, <2>4 DEF Once
  <1>4. CASE write_last_response \/ expire_idle
    BY <1>4, CloseOnce, Zenon DEF write_last_response, expire_idle
  <1>5. CASE expire_cut_frame
    <2>1. output' = <<Goaway>> \/ output' = <<Timeout>>
      BY <1>5, Zenon DEF expire_cut_frame, set_serialized_response
    <2>2. QED
      BY <1>1, <1>5, <2>1, SilentOutputs, Zenon DEF expire_cut_frame, client
  <1>6. CASE acquire
    BY <1>1, <1>6, Zenon DEF acquire
  <1>7. ASSUME NEW n \in DOMAIN flying, Receive(n) PROVE Once'
    BY <1>1, <1>7, Zenon DEF Receive
  <1>8. CASE UNCHANGED vars
    BY <1>1, <1>8, Zenon DEF vars, client, connection
  <1>9. QED
    BY <1>2, <1>3, <1>4, <1>5, <1>6, <1>7, <1>8, ServerOnce, Zenon DEF Next

LEMMA InitOnce == Init => Once
  <1> SUFFICES ASSUME Init PROVE Once
    OBVIOUS
  <1>1. /\ dispatched = <<>> /\ streams_ = <<>> /\ pending_headers_ = <<>> /\ output = <<>>
        /\ answered = [id \in Streams |-> Unanswered]
    BY DEF Init
  <1>2. GivenOnce /\ GivenClosed /\ Remembered /\ PendingFresh
    BY <1>1 DEF GivenOnce, GivenClosed, Remembered, PendingFresh
  <1>3. RepliedOnce
    <2> SUFFICES ASSUME NEW id \in Streams
                 PROVE  Replied(id) <= 1 /\ (Replied(id) # 0 => stream_closed(id))
      BY DEF RepliedOnce
    <2>1. Cardinality(Replies(output, id)) = 0
      BY <1>1, RepliesNone, SilentOutputs, Zenon
    <2>2. answered[id].response = 0
      BY <1>1 DEF Unanswered
    <2>3. Replied(id) = 0
      BY <2>1, <2>2 DEF Replied
    <2>4. QED
      BY <2>3
  <1>4. QED
    BY <1>2, <1>3 DEF Once

(***************************************************************************)
(* AnsweredOnce: whatever frames a client sends on a stream, in whatever   *)
(* state it is, the stream is given to a handler at most once, and gets at *)
(* most one response (handle_headers_frame, complete_stream).              *)
(***************************************************************************)
THEOREM StreamsAreAnsweredOnce == Safety => []AnsweredOnce
  <1>1. Typed /\ Once => AnsweredOnce
    BY RepliedNat, Zenon DEF AnsweredOnce, Once, GivenOnce, RepliedOnce
  <1>2. QED
    BY <1>1, InitOnce, OnceStep, AlwaysTyped, PTL DEF Safety

----------------------------------------------------------------------------
(* Header compression: what a block of the client does to both tables.     *)
Read(table, fields) == [table |-> table, fields |-> fields, ok |-> TRUE]
Given(table, field) == Read(table, <<field>>)

Results(D, F) == [table : D, fields : F, ok : BOOLEAN]

WithBoth(state, f, t) == [state EXCEPT !.fields = f, !.table = t]
WithTable(state, t) == [state EXCEPT !.table = t]
WithFields(state, f) == [state EXCEPT !.fields = f]

LEMMA Edited ==
    ASSUME NEW d, NEW t, NEW f
    PROVE  /\ WithBoth(Start(d), f, t) = Read(t, f)
           /\ WithTable(Start(d), t) = Start(t)
           /\ WithFields(Start(d), f) = Read(d, f)
  <1> DEFINE D == {d, t}
             F == {<<>>, f}
             s == Start(d)
             both == [s EXCEPT !.fields = f, !.table = t]
             first == [s EXCEPT !.table = t]
             last == [s EXCEPT !.fields = f]
  <1>1. d \in D /\ t \in D /\ f \in F /\ <<>> \in F
    OBVIOUS
  <1>2. s \in Results(D, F) /\ s.table = d /\ s.fields = <<>> /\ s.ok = TRUE
    BY <1>1 DEF Start, Results
  <1> HIDE DEF D, F, s
  <1>3. \A r \in Results(D, F) : r = [table |-> r.table, fields |-> r.fields, ok |-> r.ok]
    BY DEF Results
  <1>4. both \in Results(D, F) /\ both.table = t /\ both.fields = f /\ both.ok = TRUE
    BY <1>1, <1>2 DEF Results
  <1>5. first \in Results(D, F) /\ first.table = t /\ first.fields = <<>> /\ first.ok = TRUE
    BY <1>1, <1>2 DEF Results
  <1>6. last \in Results(D, F) /\ last.table = d /\ last.fields = f /\ last.ok = TRUE
    BY <1>1, <1>2 DEF Results
  <1> HIDE DEF both, first, last
  <1>7. both = [table |-> t, fields |-> f, ok |-> TRUE]
    BY <1>3, <1>4, Zenon
  <1>8. first = [table |-> t, fields |-> <<>>, ok |-> TRUE]
    BY <1>3, <1>5, Zenon
  <1>9. last = [table |-> d, fields |-> f, ok |-> TRUE]
    BY <1>3, <1>6, Zenon
  <1>10. QED
    BY <1>7, <1>8, <1>9, Zenon DEF both, first, last, s, Start, Read, WithBoth, WithTable, WithFields

LEMMA InstructionsGive ==
    ASSUME NEW d
    PROVE  /\ \A field : decode_instruction(Start(d), Plain(field)) = Given(d, field)
           /\ \A field : decode_instruction(Start(d), Insert(field)) = Given(add_dynamic(d, field), field)
           /\ \A n : ~(n > Len(d.entries)) =>
                decode_instruction(Start(d), Index(n)) = Given(d, d.entries[n])
           /\ \A n : decode_instruction(Start(d), Resize(n)) = Start(set_max_table_size(d, n))
  <1> DEFINE start == Start(d)
  <1>1. start.table = d /\ start.fields = <<>> /\ start.ok
    BY DEF Start
  <1>e. /\ \A f, t : WithBoth(start, f, t) = Read(t, f)
        /\ \A t : WithTable(start, t) = Start(t)
        /\ \A f : WithFields(start, f) = Read(d, f)
    <2>1. ASSUME NEW f, NEW t
          PROVE  WithBoth(Start(d), f, t) = Read(t, f) /\ WithTable(Start(d), t) = Start(t)
                 /\ WithFields(Start(d), f) = Read(d, f)
      BY Edited
    <2>2. QED
      BY <2>1
  <1> HIDE DEF start
  <1>2. \A x : Append(start.fields, x) = <<x>>
    BY <1>1
  <1>3. ASSUME NEW field PROVE decode_instruction(start, Plain(field)) = Given(d, field)
    <2>1. ~invalid(start, Plain(field)) /\ Plain(field).op = "plain" /\ Plain(field).field = field
      BY DEF invalid, Plain
    <2>2. decode_instruction(start, Plain(field)) = WithFields(start, Append(start.fields, field))
      BY <1>1, <2>1 DEF decode_instruction, WithBoth, WithFields, WithTable
    <2>3. QED
      BY <1>e, <1>2, <2>2, Zenon DEF Given
  <1>4. ASSUME NEW field PROVE decode_instruction(start, Insert(field)) = Given(add_dynamic(d, field), field)
    <2>1. ~invalid(start, Insert(field)) /\ Insert(field).op = "insert" /\ Insert(field).field = field
      BY DEF invalid, Insert
    <2>2. decode_instruction(start, Insert(field))
            = WithBoth(start, Append(start.fields, field), add_dynamic(start.table, field))
      BY <1>1, <2>1 DEF decode_instruction, WithBoth, WithFields, WithTable
    <2>3. QED
      BY <1>e, <1>1, <1>2, <2>2, Zenon DEF Given
  <1>5. ASSUME NEW n, ~(n > Len(d.entries))
        PROVE  decode_instruction(start, Index(n)) = Given(d, d.entries[n])
    <2>1. ~invalid(start, Index(n)) /\ Index(n).op = "index" /\ Index(n).n = n
      BY <1>1, <1>5 DEF invalid, Index
    <2>2. decode_instruction(start, Index(n))
            = WithFields(start, Append(start.fields, start.table.entries[n]))
      BY <1>1, <2>1 DEF decode_instruction, WithBoth, WithFields, WithTable
    <2>3. QED
      BY <1>e, <1>1, <1>2, <2>2, Zenon DEF Given
  <1>6. ASSUME NEW n PROVE decode_instruction(start, Resize(n)) = Start(set_max_table_size(d, n))
    <2>1. ~invalid(start, Resize(n)) /\ Resize(n).op = "resize" /\ Resize(n).n = n
      BY <1>1 DEF invalid, Resize
    <2>2. decode_instruction(start, Resize(n)) = WithTable(start, set_max_table_size(start.table, n))
      BY <1>1, <2>1 DEF decode_instruction, WithBoth, WithFields, WithTable
    <2>3. QED
      BY <1>e, <1>1, <2>2, Zenon
  <1>7. QED
    BY <1>3, <1>4, <1>5, <1>6, Zenon DEF start

\* The tables of a client keep to the size it was told at first.
ClientTables == {t \in Tables : Fits(t) /\ t.max <= DefaultTableSize}

LEMMA EncodedEvicts ==
    ASSUME NEW table \in Tables, NEW field \in Fields
    PROVE  Encoded(table, field) = evict_dynamic(With(table, field))
  <1> DEFINE w == With(table, field)
             t == evict_dynamic(w)
  <1>1. w \in Tables /\ w.max = table.max /\ w.entries = <<field>> \o table.entries
    BY WithTyped
  <1>2. t \in Tables /\ t.max = w.max
    BY <1>1, EvictFits, Zenon
  <1>3. Fitting(w.entries, w.max) = t.entries
    BY <1>1, FittingIs, Zenon
  <1>4. Encoded(table, field) = [entries |-> Fitting(w.entries, w.max), max |-> table.max]
    BY <1>1, Replaced, Zenon DEF Encoded
  <1> HIDE DEF t, w
  <1>5. t = [entries |-> t.entries, max |-> t.max]
    BY <1>2 DEF Tables
  <1>6. QED
    BY <1>1, <1>2, <1>3, <1>4, <1>5 DEF t, w

LEMMA ShrunkEvicts ==
    ASSUME NEW table \in Tables, NEW n \in Nat
    PROVE  Shrunk(table, n) = set_max_table_size(table, n)
  <1> DEFINE s == [table EXCEPT !.max = n]
             t == evict_dynamic(s)
  <1>1. s \in Tables /\ s.max = n /\ s.entries = table.entries
    BY DEF Tables
  <1> HIDE DEF s
  <1>2. t \in Tables /\ t.max = n
    BY <1>1, EvictFits, Zenon
  <1>3. Fitting(table.entries, n) = t.entries
    BY <1>1, FittingIs, Zenon
  <1> HIDE DEF t
  <1>4. t = [entries |-> t.entries, max |-> n]
    BY <1>2 DEF Tables
  <1>5. Shrunk(table, n) = t
    BY <1>3, <1>4, Zenon DEF Shrunk
  <1>6. QED
    BY <1>5, Zenon DEF set_max_table_size, t, s

LEMMA FollowsOnInsertion ==
    ASSUME NEW t \in Tables, NEW d \in Tables, Follows(t, d), NEW field \in Fields
    PROVE  Follows(Encoded(t, field), add_dynamic(d, field))
  <1> DEFINE v == With(t, field)
             w == With(d, field)
  <1>1. /\ v \in Tables /\ v.max = t.max /\ Len(v.entries) = Len(t.entries) + 1 /\ v.entries[1] = field
        /\ \A i \in 1 .. Len(t.entries) : v.entries[i + 1] = t.entries[i]
    BY WithTyped
  <1>2. /\ w \in Tables /\ w.max = d.max /\ Len(w.entries) = Len(d.entries) + 1 /\ w.entries[1] = field
        /\ \A i \in 1 .. Len(d.entries) : w.entries[i + 1] = d.entries[i]
    BY WithTyped
  <1>3. Len(t.entries) \in Nat /\ Len(d.entries) \in Nat
    BY DEF Tables
  <1> HIDE DEF v, w
  <1>4. Follows(v, w)
    <2>1. ASSUME NEW i \in 1 .. Len(v.entries) PROVE w.entries[i] = v.entries[i]
      <3>1. CASE i = 1
        BY <1>1, <1>2, <3>1
      <3>2. CASE i # 1
        <4> DEFINE j == i - 1
        <4>1. j \in 1 .. Len(t.entries) /\ j \in 1 .. Len(d.entries) /\ i = j + 1
          BY <1>1, <1>3, <3>2 DEF Follows
        <4> HIDE DEF j
        <4>2. w.entries[j + 1] = d.entries[j] /\ v.entries[j + 1] = t.entries[j] /\ d.entries[j] = t.entries[j]
          BY <1>1, <1>2, <4>1 DEF Follows
        <4>3. QED
          BY <4>1, <4>2
      <3>3. QED
        BY <3>1, <3>2
    <2>2. QED
      BY <1>1, <1>2, <1>3, <2>1 DEF Follows
  <1>5. Follows(evict_dynamic(v), evict_dynamic(w))
    BY <1>1, <1>2, <1>4, FollowsOnEviction, Zenon
  <1>6. QED
    BY <1>5, EncodedEvicts, AddEvicts, Zenon DEF v, w

LEMMA FollowsOnResize ==
    ASSUME NEW t \in Tables, NEW d \in Tables, Follows(t, d), NEW n \in Nat
    PROVE  Follows(Shrunk(t, n), set_max_table_size(d, n))
  <1> DEFINE v == [t EXCEPT !.max = n]
             w == [d EXCEPT !.max = n]
  <1>1. v \in Tables /\ v.max = n /\ v.entries = t.entries /\ w \in Tables /\ w.max = n /\ w.entries = d.entries
    BY DEF Tables
  <1> HIDE DEF v, w
  <1>2. Follows(v, w)
    BY <1>1 DEF Follows
  <1>3. Follows(evict_dynamic(v), evict_dynamic(w))
    BY <1>1, <1>2, FollowsOnEviction, Zenon
  <1>4. QED
    BY <1>3, ShrunkEvicts, Zenon DEF set_max_table_size, v, w

\* SETTINGS that leave the decoder at least the size it had at first.
LEMMA FollowsOnSettings ==
    ASSUME NEW t \in ClientTables, NEW d \in Tables, Follows(t, d), NEW n \in Nat, n >= DefaultTableSize
    PROVE  Follows(t, set_max_table_size(d, n))
  <1> DEFINE w == [d EXCEPT !.max = n]
  <1>0. t \in Tables /\ Fits(t) /\ t.max <= DefaultTableSize /\ t.max \in Nat
    BY DEF ClientTables, Tables
  <1>1. w \in Tables /\ w.max = n /\ w.entries = d.entries
    BY DEF Tables
  <1> HIDE DEF w
  <1>2. Follows(t, w)
    BY <1>0, <1>1, HpackAssumption DEF Follows
  <1>3. QED
    BY <1>0, <1>1, <1>2, FollowsOnEviction, Zenon DEF set_max_table_size, w

LEMMA EncodingDecoded ==
    ASSUME NEW t \in ClientTables, NEW d \in Tables, Follows(t, d), NEW field \in Fields,
           NEW e \in Encodings(t, field)
    PROVE  /\ \E after : decode_header_block(d, e[1]) = Given(after, field) /\ Follows(e[2], after)
           /\ e[2] \in ClientTables
           /\ Touches(e[1]) \/ e[2] = t
  <1>0. t \in Tables /\ Fits(t) /\ t.max <= DefaultTableSize /\ t.max \in Nat
    BY DEF ClientTables, Tables
  <1>1. CASE e = <<<<Plain(field)>>, t>>
    <2>1. e[1] = <<Plain(field)>> /\ e[2] = t
      BY <1>1
    <2>2. decode_header_block(d, <<Plain(field)>>) = Given(d, field)
      BY BlockOfOne, InstructionsGive
    <2>3. QED
      BY <2>1, <2>2, Zenon
  <1>2. ASSUME NEW u \in Tables, u.max <= DefaultTableSize
        PROVE  Encoded(u, field) \in ClientTables
    <2> DEFINE w == With(u, field)
    <2>1. w \in Tables /\ w.max = u.max
      BY WithTyped
    <2>2. evict_dynamic(w) \in Tables /\ Fits(evict_dynamic(w)) /\ evict_dynamic(w).max = u.max
      BY <2>1, EvictFits, Zenon
    <2>3. Encoded(u, field) = evict_dynamic(w)
      BY EncodedEvicts, Zenon
    <2>4. QED
      BY <1>2, <2>2, <2>3, Zenon DEF ClientTables
  <1>3. CASE e = <<<<Insert(field)>>, Encoded(t, field)>>
    <2>1. e[1] = <<Insert(field)>> /\ e[2] = Encoded(t, field)
      BY <1>3
    <2>2. decode_header_block(d, <<Insert(field)>>) = Given(add_dynamic(d, field), field)
      BY BlockOfOne, InstructionsGive
    <2>3. Follows(e[2], add_dynamic(d, field)) /\ e[2] \in ClientTables
      BY <1>0, <1>2, <2>1, FollowsOnInsertion, Zenon
    <2>4. Touches(e[1])
      BY <2>1 DEF Touches, Insert
    <2>5. QED
      BY <2>1, <2>2, <2>3, <2>4, Zenon
  <1>4. ASSUME NEW n \in DOMAIN t.entries, t.entries[n] = field, e = <<<<Index(n)>>, t>>
        PROVE  /\ \E after : decode_header_block(d, e[1]) = Given(after, field) /\ Follows(e[2], after)
               /\ e[2] = t
    <2>1. e[1] = <<Index(n)>> /\ e[2] = t
      BY <1>4
    <2>2. ~(n > Len(d.entries)) /\ d.entries[n] = field
      <3>1. n \in 1 .. Len(t.entries) /\ Len(t.entries) \in Nat /\ Len(d.entries) \in Nat
        BY <1>0, <1>4 DEF Tables
      <3>2. QED
        BY <1>4, <3>1 DEF Follows
    <2>3. decode_header_block(d, <<Index(n)>>) = Given(d, d.entries[n])
      BY <2>2, BlockOfOne, InstructionsGive
    <2>4. QED
      BY <2>1, <2>2, <2>3, Zenon
  <1>5. ASSUME NEW n \in TableSizes, n < t.max,
               e = <<<<Resize(n), Insert(field)>>, Encoded(Shrunk(t, n), field)>>
        PROVE  /\ \E after : decode_header_block(d, e[1]) = Given(after, field) /\ Follows(e[2], after)
               /\ e[2] \in ClientTables /\ Touches(e[1])
    <2>1. e[1] = <<Resize(n), Insert(field)>> /\ e[2] = Encoded(Shrunk(t, n), field) /\ n \in Nat
      BY <1>5, SessionAssumption
    <2> DEFINE s == Shrunk(t, n)
               r == set_max_table_size(d, n)
    <2>2. s \in Tables /\ r \in Tables /\ Follows(s, r) /\ s.max = n
      <3>1. s = set_max_table_size(t, n)
        BY <1>0, <2>1, ShrunkEvicts, Zenon
      <3>2. s \in Tables /\ s.max = n
        BY <1>0, <2>1, <3>1, SetMaxFits
      <3>3. r \in Tables
        BY <2>1, SetMaxFits
      <3>4. Follows(s, r)
        BY <1>0, <2>1, FollowsOnResize, Zenon
      <3>5. QED
        BY <3>2, <3>3, <3>4
    <2> HIDE DEF s, r
    <2>3. s.max <= DefaultTableSize
      BY <1>0, <1>5, <2>1, <2>2, HpackAssumption
    <2>4. decode_header_block(d, <<Resize(n), Insert(field)>>) = Given(add_dynamic(r, field), field)
      <3>1. decode_instruction(Start(d), Resize(n)) = Start(r)
        BY InstructionsGive DEF r
      <3>2. decode_instruction(Start(r), Insert(field)) = Given(add_dynamic(r, field), field)
        BY InstructionsGive
      <3>3. decode_header_block(d, <<Resize(n), Insert(field)>>)
              = decode_instruction(decode_instruction(Start(d), Resize(n)), Insert(field))
        BY BlockOfTwo
      <3>4. QED
        BY <3>1, <3>2, <3>3, Zenon
    <2>5. Follows(e[2], add_dynamic(r, field)) /\ e[2] \in ClientTables
      <3>1. e[2] = Encoded(s, field)
        BY <2>1 DEF s
      <3>2. QED
        BY <1>2, <2>2, <2>3, <3>1, FollowsOnInsertion, Zenon
    <2>6. Touches(e[1])
      BY <2>1 DEF Touches, Insert
    <2>7. QED
      BY <2>1, <2>4, <2>5, <2>6, Zenon
  <1>6. QED
    BY <1>1, <1>3, <1>4, <1>5, Zenon DEF Encodings

----------------------------------------------------------------------------
(***************************************************************************)
(* What the client means by the frames that are under way.  Each frame     *)
(* takes the client's table and what it has said on its streams one step   *)
(* on; stray frames come last and change neither.                          *)
(***************************************************************************)
Only(a, b, id) == \A other \in Streams : other # id => b[other] = a[other]

\* What was said before is not taken back.
Later(a, b) ==
    \A id \in Streams : a[id].begun =>
      /\ b[id].begun /\ b[id].fields = a[id].fields
      /\ a[id].ended => b[id].ended /\ b[id].data = a[id].data

Asks(field, end_stream, id, a, b) ==
    /\ field \notin BadFields /\ ~a[id].begun
    /\ b[id].begun /\ b[id].fields = <<field>> /\ b[id].data = 0 /\ (end_stream => b[id].ended)

Trails(field, end_stream, id, a, b) ==
    /\ field \in BadFields /\ end_stream /\ a[id].begun
    /\ b[id].begun /\ b[id].fields = a[id].fields /\ b[id].data = a[id].data /\ b[id].ended

\* A whole header block, from the table t to the table u.
Says(id, end_stream, block, t, u, a, b) ==
    /\ id \in Streams /\ Only(a, b, id)
    /\ \E field \in Fields :
         /\ \E e \in Encodings(t, field) : e[1] = block /\ e[2] = u
         /\ Asks(field, end_stream, id, a, b) \/ Trails(field, end_stream, id, a, b)

Adds(f, a, b) ==
    /\ f.id \in Streams /\ Only(a, b, f.id)
    /\ a[f.id].begun /\ ~a[f.id].ended
    /\ b[f.id].begun /\ b[f.id].fields = a[f.id].fields /\ b[f.id].data = a[f.id].data + f.data
    /\ f.end_stream => b[f.id].ended

\* The block a frame leaves open.
Part(f) == [id |-> f.id, end_stream |-> f.end_stream, block |-> f.block]
Left(f) == IF f.type = "headers" /\ ~f.end_headers THEN <<Part(f)>> ELSE <<>>

\* A frame of the client behind the open block o.
Carries(o, f, t, u, a, b) ==
    /\ o # <<>> => /\ f.type = "continuation" /\ f.end_headers
                   /\ Says(o[1].id, o[1].end_stream, o[1].block \o f.block, t, u, a, b)
    /\ o = <<>> /\ f.type = "headers" => ~f.bad_padding
    /\ o = <<>> /\ f.type = "headers" /\ f.end_headers => Says(f.id, f.end_stream, f.block, t, u, a, b)
    /\ f.type = "data" => Adds(f, a, b)
    /\ f.type # "continuation" /\ ~(f.type = "headers" /\ f.end_headers) => u = t
    /\ f.type \notin {"continuation", "data"} /\ ~(f.type = "headers" /\ f.end_headers) => b = a

LEMMA CarriesAlone ==
    ASSUME NEW o, NEW f, NEW t, NEW u, NEW a, NEW b, Carries(o, f, t, u, a, b)
    PROVE  Carries(<<>>, f, t, u, a, b)
  <1>1. CASE o = <<>>
    BY <1>1, Zenon
  <1>2. CASE o # <<>>
    <2>1. f.type = "continuation"
      BY <1>2, Zenon DEF Carries
    <2>2. QED
      BY <2>1 DEF Carries
  <1>3. QED
    BY <1>1, <1>2

\* The block that is open in front of frame i of q.
Before(q, p, i) == IF i = 1 THEN p ELSE Left(q[i - 1])

\* Behind the first k frames all are stray: they complete no block, and their DATA is refused.
Astray(q, p, k, i) ==
    /\ q[i].type = "headers" => q[i].id % 2 = 0 \/ q[i].bad_padding \/ ~q[i].end_headers
    /\ q[i].type = "data" => q[i].bad_padding \/ q[i].data > InitialWindow
    /\ q[i].type = "continuation" /\ q[i].end_headers =>
         (k = 0 => p = <<>>) /\ \A j \in k + 1 .. i - 1 : q[j].type # "headers"

Line(q, p, k, T, A) ==
    /\ T \in [0 .. Len(q) -> ClientTables]
    /\ \A i \in 0 .. Len(q) : Later(A[i], A[Len(q)])
    /\ \A i \in 1 .. k : Carries(Before(q, p, i), q[i], T[i - 1], T[i], A[i - 1], A[i])
    /\ \A i \in k + 1 .. Len(q) : T[i] = T[i - 1] /\ A[i] = A[i - 1] /\ Astray(q, p, k, i)

\* The block that may be open behind the first frame of q.
Leaves(q, p, k, p2) ==
    /\ k > 0 => Before(q, p, k + 1) = <<>> /\ p2 \in {<<>>, Left(q[1])}
    /\ k = 0 => p2 = <<>> \/ p # <<>> \/ q[1].type = "headers"

Shifted(F, q) == [i \in 0 .. Len(q) - 1 |-> F[i + 1]]
Fewer(k) == IF k = 0 THEN 0 ELSE k - 1

LEMMA LineTail ==
    ASSUME NEW q \in Seq(Frames), q # <<>>, NEW p, NEW k \in 0 .. Len(q), NEW T, NEW A,
           Line(q, p, k, T, A), NEW p2, Leaves(q, p, k, p2)
    PROVE  /\ Line(Tail(q), p2, Fewer(k), Shifted(T, q), Shifted(A, q))
           /\ Fewer(k) > 0 => Before(Tail(q), p2, Fewer(k) + 1) = <<>>
           /\ k > 0 /\ Fewer(k) = 0 => p2 = <<>>
  <1>0. /\ k > 0 => Before(q, p, k + 1) = <<>> /\ p2 \in {<<>>, Left(q[1])}
        /\ k = 0 => p2 = <<>> \/ p # <<>> \/ q[1].type = "headers"
    BY DEF Leaves
  <1> DEFINE r == Tail(q)
             m == IF k = 0 THEN 0 ELSE k - 1
             n == Len(q) - 1
             U == [i \in 0 .. n |-> T[i + 1]]
             B == [i \in 0 .. n |-> A[i + 1]]
  <1>1. Len(q) \in Nat /\ n \in Nat /\ Len(q) = n + 1 /\ Len(r) = n /\ \A i \in 1 .. n : r[i] = q[i + 1]
    OBVIOUS
  <1>2. \A i \in 0 .. n : U[i] = T[i + 1] /\ B[i] = A[i + 1]
    OBVIOUS
  <1>3. m \in Nat /\ (k > 0 => m = k - 1) /\ (k = 0 => m = 0) /\ m <= n
    BY <1>1
  <1>4. k > 0 /\ m = 0 => p2 = <<>>
    <2>1. ASSUME k > 0, m = 0 PROVE p2 = <<>>
      <3>1. k = 1
        BY <1>3, <2>1
      <3>2. Left(q[1]) = <<>>
        BY <1>0, <3>1 DEF Before
      <3>3. QED
        BY <1>0, <2>1, <3>2
    <2>2. QED
      BY <2>1
  <1>5. U \in [0 .. n -> ClientTables]
    <2>1. \A i \in 0 .. n : T[i + 1] \in ClientTables
      BY <1>1 DEF Line
    <2>2. QED
      BY <2>1
  <1> HIDE DEF r, n, m, U, B
  <1>6. \A i \in 0 .. n : Later(B[i], B[n])
    <2>1. ASSUME NEW i \in 0 .. n PROVE Later(B[i], B[n])
      <3>1. i + 1 \in 0 .. Len(q) /\ n \in 0 .. n
        BY <1>1
      <3>2. Later(A[i + 1], A[Len(q)])
        BY <3>1, Zenon DEF Line
      <3>3. QED
        BY <1>1, <1>2, <3>1, <3>2, Zenon
    <2>2. QED
      BY <2>1
  <1>7. ASSUME NEW i \in 1 .. m
        PROVE  Carries(Before(r, p2, i), r[i], U[i - 1], U[i], B[i - 1], B[i])
    <2>1. /\ i + 1 \in 1 .. k /\ i \in 1 .. n /\ i \in 0 .. n /\ i - 1 \in 0 .. n
          /\ (i + 1) - 1 = i /\ (i - 1) + 1 = i /\ i + 1 # 1 /\ k > 0
      BY <1>1, <1>3
    <2>2. Carries(Before(q, p, i + 1), q[i + 1], T[(i + 1) - 1], T[i + 1], A[(i + 1) - 1], A[i + 1])
      BY <2>1, Zenon DEF Line
    <2>3. Carries(Left(q[i]), r[i], U[i - 1], U[i], B[i - 1], B[i])
      <3>1. Before(q, p, i + 1) = Left(q[i])
        BY <2>1, Zenon DEF Before
      <3>2. r[i] = q[i + 1] /\ U[i] = T[i + 1] /\ B[i] = A[i + 1]
        BY <1>1, <1>2, <2>1, Zenon
      <3>3. U[i - 1] = T[i] /\ B[i - 1] = A[i]
        BY <1>2, <2>1, Zenon
      <3>4. QED
        BY <2>1, <2>2, <3>1, <3>2, <3>3, Zenon
    <2>4. CASE i = 1
      <3>1. Before(r, p2, i) = p2
        BY <2>4, Zenon DEF Before
      <3>2. CASE p2 = Left(q[1])
        BY <2>3, <2>4, <3>1, <3>2, Zenon
      <3>3. CASE p2 = <<>>
        <4>1. Carries(<<>>, r[i], U[i - 1], U[i], B[i - 1], B[i])
          BY <2>3, CarriesAlone, Zenon
        <4>2. QED
          BY <3>1, <3>3, <4>1, Zenon
      <3>4. QED
        BY <1>0, <2>1, <3>2, <3>3, Zenon
    <2>5. CASE i # 1
      <3>1. i - 1 \in 1 .. n
        BY <2>1, <2>5
      <3>2. r[i - 1] = q[i]
        BY <1>1, <2>1, <3>1, Zenon
      <3>3. Before(r, p2, i) = Left(q[i])
        BY <2>5, <3>2, Zenon DEF Before
      <3>4. QED
        BY <2>3, <3>3, Zenon
    <2>6. QED
      BY <2>4, <2>5
  <1>8. ASSUME NEW i \in m + 1 .. n
        PROVE  U[i] = U[i - 1] /\ B[i] = B[i - 1] /\ Astray(r, p2, m, i)
    <2>1. /\ i + 1 \in k + 1 .. Len(q) /\ i \in 1 .. n /\ i \in 0 .. n /\ i - 1 \in 0 .. n
          /\ (i + 1) - 1 = i /\ (i - 1) + 1 = i
      BY <1>1, <1>3
    <2>2. T[i + 1] = T[(i + 1) - 1] /\ A[i + 1] = A[(i + 1) - 1] /\ Astray(q, p, k, i + 1)
      BY <2>1, Zenon DEF Line
    <2>3. U[i] = U[i - 1] /\ B[i] = B[i - 1]
      <3>1. U[i] = T[i + 1] /\ B[i] = A[i + 1] /\ U[i - 1] = T[i] /\ B[i - 1] = A[i]
        BY <1>2, <2>1, Zenon
      <3>2. QED
        BY <2>1, <2>2, <3>1, Zenon
    <2>4. r[i] = q[i + 1]
      BY <1>1, <2>1, Zenon
    <2>5. ASSUME q[i + 1].type = "continuation", q[i + 1].end_headers
          PROVE  (m = 0 => p2 = <<>>) /\ \A j \in m + 1 .. i - 1 : r[j].type # "headers"
      <3>1. (k = 0 => p = <<>>) /\ \A j \in k + 1 .. (i + 1) - 1 : q[j].type # "headers"
        BY <2>2, <2>5, Zenon DEF Astray
      <3>2. m = 0 => p2 = <<>>
        <4>1. CASE k > 0
          BY <1>4, <4>1, Zenon
        <4>2. CASE k = 0
          <5>1. 1 \in k + 1 .. (i + 1) - 1
            BY <2>1, <4>2
          <5>2. q[1].type # "headers" /\ p = <<>>
            BY <3>1, <4>2, <5>1, Zenon
          <5>3. QED
            BY <1>0, <4>2, <5>2, Zenon
        <4>3. QED
          BY <4>1, <4>2
      <3>3. ASSUME NEW j \in m + 1 .. i - 1 PROVE r[j].type # "headers"
        <4>1. j + 1 \in k + 1 .. (i + 1) - 1 /\ j \in 1 .. n
          BY <1>1, <1>3, <2>1
        <4>2. QED
          BY <1>1, <3>1, <4>1, Zenon
      <3>4. QED
        BY <3>2, <3>3
    <2>6. Astray(r, p2, m, i)
      BY <2>2, <2>4, <2>5, Zenon DEF Astray
    <2>7. QED
      BY <2>3, <2>6
  <1>9. Line(r, p2, m, U, B)
    BY <1>1, <1>5, <1>6, <1>7, <1>8, Zenon DEF Line
  <1>10. m > 0 => Before(r, p2, m + 1) = <<>>
    <2>1. ASSUME m > 0 PROVE Before(r, p2, m + 1) = <<>>
      <3>1. m \in 1 .. n /\ k = m + 1 /\ m + 1 # 1 /\ k + 1 # 1 /\ (m + 1) - 1 = m /\ (k + 1) - 1 = m + 1 /\ k > 0
        BY <1>1, <1>3, <2>1
      <3>2. r[m] = q[m + 1]
        BY <1>1, <3>1, Zenon
      <3>3. Before(r, p2, m + 1) = Left(q[m + 1])
        BY <3>1, <3>2, Zenon DEF Before
      <3>4. Before(q, p, k + 1) = Left(q[m + 1])
        BY <3>1, Zenon DEF Before
      <3>5. QED
        BY <1>0, <3>1, <3>3, <3>4, Zenon
    <2>2. QED
      BY <2>1
  <1>11. QED
    BY <1>4, <1>9, <1>10, Zenon DEF r, n, m, U, B, Shifted, Fewer

\* From the table t and what was said before, a, to the table u and all that has been said, b.
Path(q, p, t, a, u, b, full) ==
    \E k \in 0 .. Len(q) : \E T, A :
      /\ Line(q, p, k, T, A)
      /\ T[0] = t /\ A[0] = a /\ T[Len(q)] = u /\ A[Len(q)] = b
      /\ k > 0 => Before(q, p, k + 1) = <<>>
      /\ full => k = Len(q) /\ Before(q, p, k + 1) = <<>>

\* What stands in front of a stray frame that is handled next.
Lost(p, f) ==
    /\ f.type = "headers" => f.id % 2 = 0 \/ f.bad_padding \/ ~f.end_headers
    /\ f.type = "data" => f.bad_padding \/ f.data > InitialWindow
    /\ f.type = "continuation" /\ f.end_headers => p = <<>>

Onward(q, p, t, a, u, b, full, v, c) ==
    \/ /\ Carries(p, q[1], t, v, a, c)
       /\ \A p2 \in {<<>>, Left(q[1])} : Path(Tail(q), p2, v, c, u, b, full)
    \/ /\ v = t /\ c = a /\ Lost(p, q[1])
       /\ \A p2 : p2 = <<>> \/ p # <<>> \/ q[1].type = "headers" => Path(Tail(q), p2, v, c, u, b, full)

LEMMA PathTail ==
    ASSUME NEW q \in Seq(Frames), q # <<>>, NEW p, NEW t, NEW a, NEW u, NEW b, NEW full \in BOOLEAN,
           Path(q, p, t, a, u, b, full)
    PROVE  t \in ClientTables /\ \E v \in ClientTables : \E c : Onward(q, p, t, a, u, b, full, v, c)
  <1>0. PICK k \in 0 .. Len(q) : \E T, A :
          /\ Line(q, p, k, T, A)
          /\ T[0] = t /\ A[0] = a /\ T[Len(q)] = u /\ A[Len(q)] = b
          /\ k > 0 => Before(q, p, k + 1) = <<>>
          /\ full => k = Len(q) /\ Before(q, p, k + 1) = <<>>
    BY Zenon DEF Path
  <1>1. PICK T, A :
          /\ Line(q, p, k, T, A)
          /\ T[0] = t /\ A[0] = a /\ T[Len(q)] = u /\ A[Len(q)] = b
          /\ k > 0 => Before(q, p, k + 1) = <<>>
          /\ full => k = Len(q) /\ Before(q, p, k + 1) = <<>>
    BY <1>0, Zenon
  <1> DEFINE n == Len(q) - 1
             m == Fewer(k)
             U == Shifted(T, q)
             B == Shifted(A, q)
  <1>2. /\ Len(q) \in Nat /\ n \in Nat /\ Len(q) = n + 1 /\ Len(Tail(q)) = n /\ 0 \in 0 .. n /\ n \in 0 .. n
        /\ 0 \in 0 .. Len(q) /\ 1 \in 0 .. Len(q) /\ m \in 0 .. n /\ (k > 0 => m = k - 1 /\ 1 \in 1 .. k)
        /\ (k = 0 => 1 \in k + 1 .. Len(q)) /\ (k = Len(q) => m = n /\ k > 0) /\ 1 - 1 = 0 /\ 0 + 1 = 1
        /\ (m = 0 => m + 1 = 1)
    BY DEF Fewer
  <1>3. U[0] = T[1] /\ B[0] = A[1] /\ U[n] = u /\ B[n] = b
    BY <1>1, <1>2 DEF Shifted
  <1>4. t \in ClientTables /\ T[1] \in ClientTables
    BY <1>1, <1>2 DEF Line
  <1>5. ASSUME NEW p2, k > 0 => p2 \in {<<>>, Left(q[1])},
               k = 0 => p2 = <<>> \/ p # <<>> \/ q[1].type = "headers"
        PROVE  Path(Tail(q), p2, T[1], A[1], u, b, full)
    <2>1. Leaves(q, p, k, p2)
      BY <1>1, <1>5, Zenon DEF Leaves
    <2>2. /\ Line(Tail(q), p2, m, U, B)
          /\ m > 0 => Before(Tail(q), p2, m + 1) = <<>>
          /\ k > 0 /\ m = 0 => p2 = <<>>
      BY <1>1, <2>1, LineTail, Zenon
    <2> HIDE DEF U, B, n, m
    <2>3. full => m = Len(Tail(q)) /\ Before(Tail(q), p2, m + 1) = <<>>
      <3>1. ASSUME full PROVE m = n /\ Before(Tail(q), p2, m + 1) = <<>>
        <4>1. m = n /\ k > 0
          BY <1>1, <1>2, <3>1, Zenon
        <4>2. CASE m = 0
          BY <1>2, <2>2, <4>1, <4>2, Zenon DEF Before
        <4>3. CASE m > 0
          BY <2>2, <4>1, <4>3, Zenon
        <4>4. m = 0 \/ m > 0
          BY <1>2
        <4>5. QED
          BY <4>1, <4>2, <4>3, <4>4
      <3>2. QED
        BY <1>2, <3>1, Zenon
    <2>4. QED
      BY <1>2, <1>3, <2>2, <2>3, Zenon DEF Path
  <1> HIDE DEF U, B, n, m
  <1>6. CASE k > 0
    <2>1. Carries(Before(q, p, 1), q[1], T[1 - 1], T[1], A[1 - 1], A[1])
      BY <1>1, <1>2, <1>6, Zenon DEF Line
    <2>2. Carries(p, q[1], t, T[1], a, A[1])
      BY <1>1, <1>2, <2>1, Zenon DEF Before
    <2>3. k # 0
      BY <1>6
    <2>4. \A p2 \in {<<>>, Left(q[1])} : Path(Tail(q), p2, T[1], A[1], u, b, full)
      BY <1>5, <2>3, Zenon
    <2>5. QED
      BY <1>4, <2>2, <2>4, Zenon DEF Onward
  <1>7. CASE k = 0
    <2>1. T[1] = T[1 - 1] /\ A[1] = A[1 - 1] /\ Astray(q, p, k, 1)
      BY <1>1, <1>2, <1>7, Zenon DEF Line
    <2>2. T[1] = t /\ A[1] = a
      BY <1>1, <1>2, <2>1, Zenon
    <2>3. Lost(p, q[1])
      BY <1>7, <2>1, Zenon DEF Astray, Lost
    <2>4. ~(k > 0)
      BY <1>7
    <2>5. \A p2 : p2 = <<>> \/ p # <<>> \/ q[1].type = "headers" => Path(Tail(q), p2, T[1], A[1], u, b, full)
      BY <1>5, <2>4, Zenon
    <2>6. QED
      BY <1>4, <2>2, <2>3, <2>5, Zenon DEF Onward
  <1>8. QED
    BY <1>6, <1>7

LEMMA PathLater ==
    ASSUME NEW q \in Seq(Frames), NEW p, NEW t, NEW a, NEW u, NEW b, NEW full, Path(q, p, t, a, u, b, full)
    PROVE  Later(a, b) /\ t \in ClientTables /\ u \in ClientTables
  <1>1. 0 \in 0 .. Len(q) /\ Len(q) \in 0 .. Len(q)
    OBVIOUS
  <1>2. QED
    BY <1>1 DEF Path, Line

LEMMA LaterAgain ==
    ASSUME NEW a, NEW b, NEW c, Later(a, b), Later(b, c)
    PROVE  Later(a, c)
  BY DEF Later

\* A path without stray frames, the block o being open behind it.
PathTo(q, p, t, a, u, b, o) ==
    \E T, A :
      /\ Line(q, p, Len(q), T, A)
      /\ T[0] = t /\ A[0] = a /\ T[Len(q)] = u /\ A[Len(q)] = b
      /\ Before(q, p, Len(q) + 1) = o

LEMMA PathWhole ==
    ASSUME NEW q \in Seq(Frames), NEW p, NEW t, NEW a, NEW u, NEW b
    PROVE  /\ PathTo(q, p, t, a, u, b, <<>>) => \A full \in BOOLEAN : Path(q, p, t, a, u, b, full)
           /\ Path(q, p, t, a, u, b, TRUE) => PathTo(q, p, t, a, u, b, <<>>)
  <1>1. Len(q) \in 0 .. Len(q)
    OBVIOUS
  <1>2. QED
    BY <1>1, Zenon DEF Path, PathTo

LEMMA PathHere ==
    ASSUME NEW p, NEW t \in ClientTables, NEW a
    PROVE  PathTo(<<>>, p, t, a, t, a, p)
  <1> DEFINE T == [i \in 0 .. 0 |-> t]
             A == [i \in 0 .. 0 |-> a]
  <1>1. Len(<<>>) = 0 /\ 0 + 1 = 1 /\ T[0] = t /\ A[0] = a
    OBVIOUS
  <1>2. T \in [0 .. 0 -> ClientTables] /\ Later(a, a) /\ \A i \in 0 .. 0 : A[i] = a
    BY DEF Later
  <1> HIDE DEF T, A
  <1>3. Line(<<>>, p, 0, T, A)
    BY <1>1, <1>2 DEF Line
  <1>4. Before(<<>>, p, 1) = p
    BY DEF Before
  <1>5. QED
    BY <1>1, <1>3, <1>4, Zenon DEF PathTo

LEMMA PathExtended ==
    ASSUME NEW q \in Seq(Frames), NEW p, NEW t, NEW a, NEW u, NEW b, NEW o,
           PathTo(q, p, t, a, u, b, o),
           NEW f \in Frames, NEW v \in ClientTables, NEW c, Later(b, c), Carries(o, f, u, v, b, c)
    PROVE  PathTo(q \o <<f>>, p, t, a, v, c, Left(f))
  <1>1. PICK T, A :
          /\ Line(q, p, Len(q), T, A)
          /\ T[0] = t /\ A[0] = a /\ T[Len(q)] = u /\ A[Len(q)] = b
          /\ Before(q, p, Len(q) + 1) = o
    BY Zenon DEF PathTo
  <1> DEFINE n == Len(q)
             r == q \o <<f>>
             U == [i \in 0 .. n + 1 |-> IF i = n + 1 THEN v ELSE T[i]]
             B == [i \in 0 .. n + 1 |-> IF i = n + 1 THEN c ELSE A[i]]
  <1>2. n \in Nat /\ Len(r) = n + 1 /\ r[n + 1] = f /\ \A i \in 1 .. n : r[i] = q[i]
    OBVIOUS
  <1>3. U[n + 1] = v /\ B[n + 1] = c /\ \A i \in 0 .. n : U[i] = T[i] /\ B[i] = A[i]
    BY <1>2
  <1>4. U \in [0 .. n + 1 -> ClientTables]
    BY <1>1 DEF Line
  <1>5. Before(q, p, n + 1) = o
    BY <1>1
  <1>6. T[n] = u /\ A[n] = b
    BY <1>1
  <1>7. /\ \A i \in 0 .. n : Later(A[i], A[n])
        /\ \A i \in 1 .. n : Carries(Before(q, p, i), q[i], T[i - 1], T[i], A[i - 1], A[i])
    BY <1>1 DEF Line
  <1> HIDE DEF r, n, U, B
  <1>8. ASSUME NEW i \in 1 .. n + 1 PROVE Before(r, p, i) = Before(q, p, i)
    <2>1. CASE i = 1
      BY <2>1 DEF Before
    <2>2. CASE i # 1
      <3>1. i - 1 \in 1 .. n
        BY <1>2, <2>2
      <3>2. r[i - 1] = q[i - 1]
        BY <1>2, <3>1, Zenon
      <3>3. QED
        BY <2>2, <3>2, Zenon DEF Before
    <2>3. QED
      BY <2>1, <2>2
  <1>9. ASSUME NEW i \in 0 .. n + 1 PROVE Later(B[i], B[n + 1])
    <2>1. CASE i = n + 1
      <3>1. Later(c, c)
        BY DEF Later
      <3>2. QED
        BY <1>3, <2>1, <3>1, Zenon
    <2>2. CASE i \in 0 .. n
      <3>1. Later(A[i], b)
        BY <1>6, <1>7, <2>2, Zenon
      <3>2. Later(A[i], c)
        BY <3>1, LaterAgain, Zenon
      <3>3. QED
        BY <1>3, <2>2, <3>2, Zenon
    <2>3. QED
      BY <1>2, <2>1, <2>2
  <1>10. ASSUME NEW i \in 1 .. n + 1
         PROVE  Carries(Before(r, p, i), r[i], U[i - 1], U[i], B[i - 1], B[i])
    <2>1. CASE i = n + 1
      <3>1. i - 1 = n /\ n \in 0 .. n
        BY <1>2, <2>1
      <3>2. Before(r, p, i) = o /\ r[i] = f /\ U[i] = v /\ B[i] = c
        BY <1>2, <1>3, <1>5, <1>8, <2>1, Zenon
      <3>3. U[i - 1] = u /\ B[i - 1] = b
        BY <1>3, <1>6, <3>1, Zenon
      <3>4. QED
        BY <3>2, <3>3, Zenon
    <2>2. CASE i \in 1 .. n
      <3>1. i - 1 \in 0 .. n /\ i \in 0 .. n
        BY <1>2, <2>2
      <3>2. Before(r, p, i) = Before(q, p, i) /\ r[i] = q[i] /\ U[i] = T[i] /\ B[i] = A[i]
            /\ U[i - 1] = T[i - 1] /\ B[i - 1] = A[i - 1]
        BY <1>2, <1>3, <1>8, <2>2, <3>1, Zenon
      <3>3. Carries(Before(q, p, i), q[i], T[i - 1], T[i], A[i - 1], A[i])
        BY <1>7, <2>2, Zenon
      <3>4. QED
        BY <3>2, <3>3, Zenon
    <2>3. QED
      BY <1>2, <2>1, <2>2
  <1>11. Line(r, p, n + 1, U, B)
    <2>1. \A i \in n + 1 + 1 .. n + 1 : FALSE
      BY <1>2
    <2>2. QED
      BY <1>2, <1>4, <1>9, <1>10, <2>1, Zenon DEF Line
  <1>12. Before(r, p, n + 1 + 1) = Left(f)
    <2>1. (n + 1 + 1) - 1 = n + 1 /\ n + 1 + 1 # 1
      BY <1>2
    <2>2. QED
      BY <1>2, <2>1, Zenon DEF Before
  <1>13. U[0] = t /\ B[0] = a
    <2>1. 0 \in 0 .. n
      BY <1>2
    <2>2. QED
      BY <1>1, <1>3, <2>1, Zenon
  <1>14. PathTo(r, p, t, a, v, c, Left(f))
    BY <1>2, <1>3, <1>11, <1>12, <1>13, Zenon DEF PathTo
  <1>15. QED
    BY <1>14 DEF r

LEMMA PathStrays ==
    ASSUME NEW q \in Seq(Frames), NEW p, NEW t, NEW a, NEW u, NEW b,
           PathTo(q, p, t, a, u, b, <<>>), NEW s \in Strays, StraysSayNothing
    PROVE  Path(q \o s, p, t, a, u, b, FALSE)
  <1>0. PICK T, A :
          /\ Line(q, p, Len(q), T, A)
          /\ T[0] = t /\ A[0] = a /\ T[Len(q)] = u /\ A[Len(q)] = b
          /\ Before(q, p, Len(q) + 1) = <<>>
    BY Zenon DEF PathTo
  <1>1. s \in Seq(Frames)
    BY StraysAssumption
  <1> DEFINE n == Len(q)
             l == Len(s)
             r == q \o s
             U == [i \in 0 .. n + l |-> IF i <= n THEN T[i] ELSE u]
             B == [i \in 0 .. n + l |-> IF i <= n THEN A[i] ELSE b]
  <1>2. /\ n \in Nat /\ l \in Nat /\ Len(r) = n + l /\ (\A i \in 1 .. n : r[i] = q[i])
        /\ \A i \in n + 1 .. n + l : r[i] = s[i - n]
    BY <1>1
  <1>3. /\ \A i \in 0 .. n : U[i] = T[i] /\ B[i] = A[i]
        /\ \A i \in n + 1 .. n + l : U[i] = u /\ B[i] = b
    BY <1>2
  <1>4. T[n] = u /\ A[n] = b /\ Before(q, p, n + 1) = <<>>
    BY <1>0
  <1>5. /\ \A i \in 0 .. n : Later(A[i], A[n])
        /\ \A i \in 1 .. n : Carries(Before(q, p, i), q[i], T[i - 1], T[i], A[i - 1], A[i])
    BY <1>0 DEF Line
  <1>6. U \in [0 .. n + l -> ClientTables]
    <2>1. \A i \in 0 .. n : T[i] \in ClientTables
      BY <1>0 DEF Line
    <2>2. u \in ClientTables
      BY <1>2, <1>4, <2>1
    <2>3. QED
      BY <1>2, <2>1, <2>2
  <1> DEFINE Clean(i) ==
               /\ s[i].type = "headers" => s[i].id % 2 = 0 \/ s[i].bad_padding \/ ~s[i].end_headers
               /\ s[i].type = "continuation" /\ s[i].end_headers => \A j \in 1 .. i - 1 : s[j].type # "headers"
               /\ s[i].type = "data" => s[i].bad_padding \/ s[i].data > InitialWindow
  <1>7. \A i \in 1 .. l : Clean(i)
    <2>1. \A i \in DOMAIN s : Clean(i)
      BY Zenon DEF StraysSayNothing
    <2> HIDE DEF Clean
    <2>2. QED
      BY <1>1, <2>1
  <1> HIDE DEF r, n, l, U, B
  <1>8. ASSUME NEW i \in 1 .. n + 1 PROVE Before(r, p, i) = Before(q, p, i)
    <2>1. CASE i = 1
      BY <2>1 DEF Before
    <2>2. CASE i # 1
      <3>1. i - 1 \in 1 .. n
        BY <1>2, <2>2
      <3>2. r[i - 1] = q[i - 1]
        BY <1>2, <3>1, Zenon
      <3>3. QED
        BY <2>2, <3>2, Zenon DEF Before
    <2>3. QED
      BY <2>1, <2>2
  <1>9. B[n + l] = b /\ U[n + l] = u /\ U[0] = t /\ B[0] = a
    <2>1. (n + l \in 0 .. n /\ n + l = n) \/ n + l \in n + 1 .. n + l
      BY <1>2
    <2>2. 0 \in 0 .. n
      BY <1>2
    <2>3. U[0] = t /\ B[0] = a
      BY <1>0, <1>3, <2>2, Zenon
    <2>4. CASE n + l \in 0 .. n /\ n + l = n
      <3>1. U[n + l] = T[n + l] /\ B[n + l] = A[n + l]
        BY <1>3, <2>4, Zenon
      <3>2. QED
        BY <1>4, <2>3, <2>4, <3>1, Zenon
    <2>5. CASE n + l \in n + 1 .. n + l
      BY <1>3, <2>3, <2>5, Zenon
    <2>6. QED
      BY <2>1, <2>4, <2>5
  <1>10. ASSUME NEW i \in 0 .. n + l PROVE Later(B[i], B[n + l])
    <2>1. Later(b, b)
      BY DEF Later
    <2>2. i \in 0 .. n \/ i \in n + 1 .. n + l
      BY <1>2
    <2>3. QED
      BY <1>3, <1>4, <1>5, <1>9, <2>1, <2>2, Zenon
  <1>11. ASSUME NEW i \in 1 .. n
         PROVE  Carries(Before(r, p, i), r[i], U[i - 1], U[i], B[i - 1], B[i])
    <2>1. i - 1 \in 0 .. n /\ i \in 0 .. n /\ i \in 1 .. n + 1
      BY <1>2
    <2>2. Before(r, p, i) = Before(q, p, i) /\ r[i] = q[i] /\ U[i] = T[i] /\ B[i] = A[i]
          /\ U[i - 1] = T[i - 1] /\ B[i - 1] = A[i - 1]
      BY <1>2, <1>3, <1>8, <2>1, Zenon
    <2>3. Carries(Before(q, p, i), q[i], T[i - 1], T[i], A[i - 1], A[i])
      BY <1>5, Zenon
    <2>4. QED
      BY <2>2, <2>3, Zenon
  <1>12. ASSUME NEW i \in n + 1 .. n + l
         PROVE  U[i] = U[i - 1] /\ B[i] = B[i - 1] /\ Astray(r, p, n, i)
    <2>1. U[i] = u /\ B[i] = b /\ U[i - 1] = u /\ B[i - 1] = b
      <3>1. (i - 1 \in 0 .. n /\ i - 1 = n) \/ i - 1 \in n + 1 .. n + l
        BY <1>2
      <3>2. CASE i - 1 \in 0 .. n /\ i - 1 = n
        <4>1. U[i - 1] = T[i - 1] /\ B[i - 1] = A[i - 1]
          BY <1>3, <3>2, Zenon
        <4>2. QED
          BY <1>3, <1>4, <3>2, <4>1, Zenon
      <3>3. CASE i - 1 \in n + 1 .. n + l
        BY <1>3, <3>3, Zenon
      <3>4. QED
        BY <3>1, <3>2, <3>3
    <2>2. r[i] = s[i - n] /\ i - n \in 1 .. l
      BY <1>2
    <2>3. Clean(i - n)
      BY <1>7, <2>2, Zenon
    <2>4. n = 0 => p = <<>>
      <3>1. ASSUME n = 0 PROVE p = <<>>
        <4>1. n + 1 = 1
          BY <3>1
        <4>2. QED
          BY <1>4, <4>1, Zenon DEF Before
      <3>2. QED
        BY <3>1
    <2>5. ASSUME \A j \in 1 .. (i - n) - 1 : s[j].type # "headers", NEW j \in n + 1 .. i - 1
          PROVE  r[j].type # "headers"
      <3>1. j - n \in 1 .. (i - n) - 1 /\ j \in n + 1 .. n + l
        BY <1>2
      <3>2. QED
        BY <1>2, <2>5, <3>1, Zenon
    <2>6. Astray(r, p, n, i)
      BY <2>2, <2>3, <2>4, <2>5, Zenon DEF Astray
    <2>7. QED
      BY <2>1, <2>6, Zenon
  <1>13. Line(r, p, n, U, B)
    BY <1>2, <1>6, <1>10, <1>11, <1>12, Zenon DEF Line
  <1>14. Before(r, p, n + 1) = <<>>
    <2>1. n + 1 \in 1 .. n + 1
      BY <1>2
    <2>2. QED
      BY <1>4, <1>8, <2>1, Zenon
  <1>15. Path(r, p, t, a, u, b, FALSE)
    <2>1. n \in 0 .. Len(r)
      BY <1>2
    <2>2. QED
      BY <1>2, <1>9, <1>13, <1>14, <2>1, Zenon DEF Path
  <1>16. QED
    BY <1>15 DEF r

\* The streams and the requests of the server are what the client has said so far.
Held(s, a) ==
    \A id \in DOMAIN s : a[id].begun /\ s[id].fields = a[id].fields /\ s[id].body = a[id].data

Heard(g, a) ==
    \A i \in DOMAIN g :
      /\ a[g[i].id].begun /\ a[g[i].id].ended
      /\ g[i].fields = a[g[i].id].fields /\ g[i].body = a[g[i].id].data

Agrees(q, p, d, s, g, u, b, full) ==
    \E t \in ClientTables : \E a :
      Path(q, p, t, a, u, b, full) /\ Follows(t, d) /\ Held(s, a) /\ Heard(g, a)

Lacks(s2, s, id) ==
    \A x \in DOMAIN s2 : x # id /\ x \in DOMAIN s /\ s2[x] = s[x]

Gains(s2, s, id, fields, body) ==
    /\ \A x \in DOMAIN s2 : x # id => x \in DOMAIN s /\ s2[x] = s[x]
    /\ s2[id].fields = fields /\ s2[id].body = body

LEMMA SaysLater ==
    ASSUME NEW id, NEW end_stream, NEW block, NEW t, NEW u, NEW a, NEW b,
           Says(id, end_stream, block, t, u, a, b)
    PROVE  Later(a, b) /\ Only(a, b, id) /\ id \in Streams
  BY DEF Says, Asks, Trails, Only, Later

LEMMA AddsLater ==
    ASSUME NEW f, NEW a, NEW b, Adds(f, a, b)
    PROVE  Later(a, b) /\ Only(a, b, f.id) /\ f.id \in Streams
  BY DEF Adds, Only, Later

LEMMA HeardLater ==
    ASSUME NEW g, NEW a, NEW b, Later(a, b), Heard(g, a), \A i \in DOMAIN g : g[i].id \in Streams
    PROVE  Heard(g, b)
  BY DEF Later, Heard

LEMMA HeldOn ==
    ASSUME NEW s, NEW a, NEW b, NEW id, Only(a, b, id), Held(s, a), DOMAIN s \subseteq Streams, NEW s2
    PROVE  /\ Lacks(s2, s, id) => Held(s2, b)
           /\ \A fields, body : Gains(s2, s, id, fields, body) /\ b[id].begun /\ b[id].fields = fields
                /\ b[id].data = body => Held(s2, b)
  BY DEF Only, Held, Lacks, Gains

LEMMA HeardMore ==
    ASSUME NEW g \in Seq(Dispatches), NEW a, Heard(g, a), NEW r \in Dispatches,
           a[r.id].begun, a[r.id].ended, r.fields = a[r.id].fields, r.body = a[r.id].data
    PROVE  Heard(Append(g, r), a)
  <1>1. ASSUME NEW i \in DOMAIN Append(g, r) PROVE (i \in DOMAIN g /\ Append(g, r)[i] = g[i]) \/ Append(g, r)[i] = r
    OBVIOUS
  <1>2. QED
    BY <1>1 DEF Heard

----------------------------------------------------------------------------
(* A frame that is handled takes the server one step along the path.       *)
Hands(q, p, d, s, g, u, b, full, t, v, a, c) ==
    Follows(t, d) /\ Held(s, a) /\ Heard(g, a) /\ Onward(q, p, t, a, u, b, full, v, c)

LEMMA AgreesTail ==
    ASSUME NEW q \in Seq(Frames), q # <<>>, NEW p, NEW d, NEW s, NEW g, NEW u, NEW b,
           NEW full \in BOOLEAN, Agrees(q, p, d, s, g, u, b, full)
    PROVE  \E t, v \in ClientTables : \E a, c : Hands(q, p, d, s, g, u, b, full, t, v, a, c)
  <1>1. PICK t \in ClientTables : \E a :
          Path(q, p, t, a, u, b, full) /\ Follows(t, d) /\ Held(s, a) /\ Heard(g, a)
    BY Zenon DEF Agrees
  <1>2. PICK a : Path(q, p, t, a, u, b, full) /\ Follows(t, d) /\ Held(s, a) /\ Heard(g, a)
    BY <1>1, Zenon
  <1>3. \E v \in ClientTables : \E c : Onward(q, p, t, a, u, b, full, v, c)
    BY <1>2, PathTail
  <1>4. QED
    BY <1>2, <1>3, Zenon DEF Hands

LEMMA SameSaid ==
    ASSUME NEW a, NEW id
    PROVE  Later(a, a) /\ Only(a, a, id)
  BY DEF Later, Only

LEMMA GivenIds ==
    ASSUME NEW g \in Seq(Dispatches)
    PROVE  \A i \in DOMAIN g : g[i].id \in Streams
  <1>1. \A i \in DOMAIN g : g[i] \in Dispatches
    OBVIOUS
  <1>2. \A r \in Dispatches : r.id \in Streams
    BY DEF Dispatches
  <1>3. QED
    BY <1>1, <1>2, Zenon

LEMMA FramePassed ==
    ASSUME NEW q \in Seq(Frames), q # <<>>, NEW p, NEW d, NEW s, NEW g, NEW u, NEW b,
           NEW full \in BOOLEAN, Agrees(q, p, d, s, g, u, b, full),
           q[1].type \notin {"headers", "continuation", "data"}
    PROVE  Agrees(Tail(q), p, d, s, g, u, b, full)
  <1>1. PICK t, v \in ClientTables : \E a, c : Hands(q, p, d, s, g, u, b, full, t, v, a, c)
    BY AgreesTail
  <1>2. PICK a, c : Hands(q, p, d, s, g, u, b, full, t, v, a, c)
    BY <1>1, Zenon
  <1>3. v = t /\ c = a /\ Path(Tail(q), p, v, c, u, b, full)
    BY <1>2, Zenon DEF Hands, Onward, Carries
  <1>4. QED
    BY <1>2, <1>3, Zenon DEF Hands, Agrees

LEMMA AgreesLess ==
    ASSUME NEW q, NEW p, NEW d, NEW s, NEW g, NEW u, NEW b, NEW full, Agrees(q, p, d, s, g, u, b, full),
           NEW s2, NEW id, Lacks(s2, s, id)
    PROVE  Agrees(q, p, d, s2, g, u, b, full)
  <1>1. ASSUME NEW a, Held(s, a) PROVE Held(s2, a)
    BY <1>1 DEF Held, Lacks
  <1>2. QED
    BY <1>1, Zenon DEF Agrees

LEMMA AgreesSettled ==
    ASSUME NEW q, NEW p, NEW d \in Tables, NEW s, NEW g, NEW u, NEW b, NEW full,
           Agrees(q, p, d, s, g, u, b, full), NEW n \in Nat, n >= DefaultTableSize
    PROVE  Agrees(q, p, set_max_table_size(d, n), s, g, u, b, full)
  <1>1. ASSUME NEW t \in ClientTables, Follows(t, d) PROVE Follows(t, set_max_table_size(d, n))
    BY <1>1, FollowsOnSettings
  <1>2. QED
    BY <1>1, Zenon DEF Agrees

\* A block that touches no table may be dropped.
LEMMA UntouchedBlock ==
    ASSUME NEW t \in ClientTables, NEW d \in Tables, Follows(t, d), NEW id, NEW end_stream, NEW block,
           NEW v, NEW a, NEW c, Says(id, end_stream, block, t, v, a, c), ~Touches(block)
    PROVE  v = t
  <1>1. PICK field \in Fields : \E e \in Encodings(t, field) : e[1] = block /\ e[2] = v
    BY Zenon DEF Says
  <1>2. PICK e \in Encodings(t, field) : e[1] = block /\ e[2] = v
    BY <1>1, Zenon
  <1>3. Touches(e[1]) \/ e[2] = t
    BY EncodingDecoded
  <1>4. QED
    BY <1>2, <1>3, Zenon

LEMMA AgreesOn ==
    ASSUME NEW q, NEW p, NEW d, NEW s, NEW g \in Seq(Dispatches), NEW u, NEW b, NEW full,
           NEW t \in ClientTables, NEW a, NEW c, NEW id, Follows(t, d), Held(s, a), Heard(g, a),
           Later(a, c), Only(a, c, id), DOMAIN s \subseteq Streams, Path(q, p, t, c, u, b, full),
           NEW s2, Lacks(s2, s, id)
    PROVE  Agrees(q, p, d, s2, g, u, b, full)
  <1>1. Heard(g, c)
    BY GivenIds, HeardLater
  <1>2. Held(s2, c)
    BY HeldOn
  <1>3. QED
    BY <1>1, <1>2, Zenon DEF Agrees

LEMMA HeaderDropped ==
    ASSUME NEW q \in Seq(Frames), q # <<>>, NEW d \in Tables, NEW s, DOMAIN s \subseteq Streams,
           NEW g \in Seq(Dispatches), NEW u, NEW b, NEW full \in BOOLEAN,
           Agrees(q, <<>>, d, s, g, u, b, full),
           q[1].type = "headers", ~Touches(q[1].block), NEW s2, Lacks(s2, s, q[1].id)
    PROVE  Agrees(Tail(q), <<>>, d, s2, g, u, b, full)
  <1>1. PICK t, v \in ClientTables : \E a, c : Hands(q, <<>>, d, s, g, u, b, full, t, v, a, c)
    BY AgreesTail
  <1>2. PICK a, c : Hands(q, <<>>, d, s, g, u, b, full, t, v, a, c)
    BY <1>1, Zenon
  <1> DEFINE f == q[1]
  <1>3. Follows(t, d) /\ Held(s, a) /\ Heard(g, a)
    BY <1>2, Zenon DEF Hands
  <1>4. \/ Carries(<<>>, f, t, v, a, c) /\ Path(Tail(q), <<>>, v, c, u, b, full)
        \/ v = t /\ c = a /\ Path(Tail(q), <<>>, v, c, u, b, full)
    BY <1>2, Zenon DEF Hands, Onward
  <1> HIDE DEF f
  <1>5. v = t /\ Later(a, c) /\ Only(a, c, f.id)
    <2>1. CASE v = t /\ c = a
      BY <2>1, SameSaid, Zenon
    <2>2. CASE Carries(<<>>, f, t, v, a, c) /\ ~f.end_headers
      <3>1. v = t /\ c = a
        BY <2>2 DEF Carries, f
      <3>2. QED
        BY <3>1, SameSaid, Zenon
    <2>3. CASE Carries(<<>>, f, t, v, a, c) /\ f.end_headers
      <3>1. Says(f.id, f.end_stream, f.block, t, v, a, c)
        BY <2>3, Zenon DEF Carries, f
      <3>2. v = t
        BY <1>3, <3>1, UntouchedBlock, Zenon DEF f
      <3>3. QED
        BY <3>1, <3>2, SaysLater, Zenon
    <2>4. QED
      BY <1>4, <2>1, <2>2, <2>3
  <1>6. Path(Tail(q), <<>>, t, c, u, b, full)
    BY <1>4, <1>5, Zenon
  <1>7. QED
    BY <1>3, <1>5, <1>6, AgreesOn DEF f

LEMMA HeaderBegun ==
    ASSUME NEW q \in Seq(Frames), q # <<>>, NEW d, NEW s, NEW g, NEW u, NEW b, NEW full \in BOOLEAN,
           Agrees(q, <<>>, d, s, g, u, b, full), q[1].type = "headers", ~q[1].end_headers
    PROVE  Agrees(Tail(q), <<Part(q[1])>>, d, s, g, u, b, full)
  <1>1. PICK t, v \in ClientTables : \E a, c : Hands(q, <<>>, d, s, g, u, b, full, t, v, a, c)
    BY AgreesTail
  <1>2. PICK a, c : Hands(q, <<>>, d, s, g, u, b, full, t, v, a, c)
    BY <1>1, Zenon
  <1>3. Left(q[1]) = <<Part(q[1])>>
    BY Zenon DEF Left
  <1>4. v = t /\ c = a
    BY <1>2 DEF Hands, Onward, Carries
  <1>5. Path(Tail(q), <<Part(q[1])>>, t, a, u, b, full)
    BY <1>2, <1>3, <1>4, Zenon DEF Hands, Onward
  <1>6. QED
    BY <1>2, <1>5, Zenon DEF Hands, Agrees

\* A whole block stands in front of the rest of the path.
Ahead(q, d, s, g, u, b, full, id, end_stream, block) ==
    \E t, v \in ClientTables : \E a, c :
      /\ Follows(t, d) /\ Held(s, a) /\ Heard(g, a)
      /\ Says(id, end_stream, block, t, v, a, c) /\ Path(q, <<>>, v, c, u, b, full)

LEMMA HeaderWhole ==
    ASSUME NEW q \in Seq(Frames), q # <<>>, NEW d, NEW s, NEW g, NEW u, NEW b, NEW full \in BOOLEAN,
           Agrees(q, <<>>, d, s, g, u, b, full), q[1].type = "headers", q[1].id % 2 = 1,
           ~q[1].bad_padding, q[1].end_headers
    PROVE  Ahead(Tail(q), d, s, g, u, b, full, q[1].id, q[1].end_stream, q[1].block)
  <1>1. PICK t, v \in ClientTables : \E a, c : Hands(q, <<>>, d, s, g, u, b, full, t, v, a, c)
    BY AgreesTail
  <1>2. PICK a, c : Hands(q, <<>>, d, s, g, u, b, full, t, v, a, c)
    BY <1>1, Zenon
  <1>3. ~Lost(<<>>, q[1])
    BY DEF Lost
  <1>4. Carries(<<>>, q[1], t, v, a, c) /\ Path(Tail(q), <<>>, v, c, u, b, full)
    BY <1>2, <1>3, Zenon DEF Hands, Onward
  <1>5. Says(q[1].id, q[1].end_stream, q[1].block, t, v, a, c)
    BY <1>4, Zenon DEF Carries
  <1>6. QED
    BY <1>2, <1>4, <1>5, Zenon DEF Hands, Ahead

LEMMA ContinuationDropped ==
    ASSUME NEW q \in Seq(Frames), q # <<>>, NEW p, p # <<>>, NEW d \in Tables, NEW s, DOMAIN s \subseteq Streams,
           NEW g \in Seq(Dispatches), NEW u, NEW b, NEW full \in BOOLEAN,
           Agrees(q, p, d, s, g, u, b, full), ~Touches(p[1].block \o q[1].block),
           q[1].type = "continuation", NEW s2, Lacks(s2, s, p[1].id)
    PROVE  Agrees(Tail(q), <<>>, d, s2, g, u, b, full)
  <1>1. PICK t, v \in ClientTables : \E a, c : Hands(q, p, d, s, g, u, b, full, t, v, a, c)
    BY AgreesTail
  <1>2. PICK a, c : Hands(q, p, d, s, g, u, b, full, t, v, a, c)
    BY <1>1, Zenon
  <1> DEFINE block == p[1].block \o q[1].block
             id == p[1].id
  <1>3. Follows(t, d) /\ Held(s, a) /\ Heard(g, a)
    BY <1>2, Zenon DEF Hands
  <1>4. \/ Carries(p, q[1], t, v, a, c) /\ Path(Tail(q), <<>>, v, c, u, b, full)
        \/ v = t /\ c = a /\ Path(Tail(q), <<>>, v, c, u, b, full)
    BY <1>2, Zenon DEF Hands, Onward
  <1>5. Carries(p, q[1], t, v, a, c) => Says(id, p[1].end_stream, block, t, v, a, c)
    BY Zenon DEF Carries
  <1> HIDE DEF block, id
  <1>6. v = t /\ Later(a, c) /\ Only(a, c, id)
    <2>1. CASE v = t /\ c = a
      BY <2>1, SameSaid, Zenon
    <2>2. CASE Says(id, p[1].end_stream, block, t, v, a, c)
      <3>1. v = t
        BY <1>3, <2>2, UntouchedBlock, Zenon DEF block
      <3>2. QED
        BY <2>2, <3>1, SaysLater, Zenon
    <2>3. QED
      BY <1>4, <1>5, <2>1, <2>2
  <1>7. Path(Tail(q), <<>>, t, c, u, b, full)
    BY <1>4, <1>6, Zenon
  <1>8. QED
    BY <1>3, <1>6, <1>7, AgreesOn DEF id

LEMMA ContinuationGoesOn ==
    ASSUME NEW q \in Seq(Frames), q # <<>>, NEW p, p # <<>>, NEW d, NEW s, NEW g, NEW u, NEW b,
           NEW full \in BOOLEAN, Agrees(q, p, d, s, g, u, b, full), ~q[1].end_headers, NEW p2
    PROVE  Agrees(Tail(q), p2, d, s, g, u, b, full)
  <1>1. PICK t, v \in ClientTables : \E a, c : Hands(q, p, d, s, g, u, b, full, t, v, a, c)
    BY AgreesTail
  <1>2. PICK a, c : Hands(q, p, d, s, g, u, b, full, t, v, a, c)
    BY <1>1, Zenon
  <1>3. ~Carries(p, q[1], t, v, a, c)
    BY Zenon DEF Carries
  <1>4. v = t /\ c = a /\ Path(Tail(q), p2, v, c, u, b, full)
    BY <1>2, <1>3, Zenon DEF Hands, Onward
  <1>5. QED
    BY <1>2, <1>4, Zenon DEF Hands, Agrees

LEMMA ContinuationEnds ==
    ASSUME NEW q \in Seq(Frames), q # <<>>, NEW p, p # <<>>, NEW d, NEW s, NEW g, NEW u, NEW b,
           NEW full \in BOOLEAN, Agrees(q, p, d, s, g, u, b, full),
           q[1].type = "continuation", q[1].end_headers
    PROVE  Ahead(Tail(q), d, s, g, u, b, full, p[1].id, p[1].end_stream, p[1].block \o q[1].block)
  <1>1. PICK t, v \in ClientTables : \E a, c : Hands(q, p, d, s, g, u, b, full, t, v, a, c)
    BY AgreesTail
  <1>2. PICK a, c : Hands(q, p, d, s, g, u, b, full, t, v, a, c)
    BY <1>1, Zenon
  <1>3. ~Lost(p, q[1])
    BY Zenon DEF Lost
  <1>4. Carries(p, q[1], t, v, a, c) /\ Path(Tail(q), <<>>, v, c, u, b, full)
    BY <1>2, <1>3, Zenon DEF Hands, Onward
  <1>5. Says(p[1].id, p[1].end_stream, p[1].block \o q[1].block, t, v, a, c)
    BY <1>4, Zenon DEF Carries
  <1>6. QED
    BY <1>2, <1>4, <1>5, Zenon DEF Hands, Ahead

LEMMA DataDropped ==
    ASSUME NEW q \in Seq(Frames), q # <<>>, NEW d, NEW s, DOMAIN s \subseteq Streams,
           NEW g \in Seq(Dispatches), NEW u, NEW b, NEW full \in BOOLEAN,
           Agrees(q, <<>>, d, s, g, u, b, full), q[1].type = "data", NEW s2, Lacks(s2, s, q[1].id)
    PROVE  Agrees(Tail(q), <<>>, d, s2, g, u, b, full)
  <1>1. PICK t, v \in ClientTables : \E a, c : Hands(q, <<>>, d, s, g, u, b, full, t, v, a, c)
    BY AgreesTail
  <1>2. PICK a, c : Hands(q, <<>>, d, s, g, u, b, full, t, v, a, c)
    BY <1>1, Zenon
  <1> DEFINE f == q[1]
  <1>3. Follows(t, d) /\ Held(s, a) /\ Heard(g, a) /\ Path(Tail(q), <<>>, v, c, u, b, full)
    BY <1>2, Zenon DEF Hands, Onward
  <1>4. Carries(<<>>, f, t, v, a, c) \/ (v = t /\ c = a)
    BY <1>2, Zenon DEF Hands, Onward
  <1>5. v = t /\ Later(a, c) /\ Only(a, c, f.id)
    <2>1. CASE v = t /\ c = a
      BY <2>1, SameSaid, Zenon
    <2>2. CASE Carries(<<>>, f, t, v, a, c)
      <3>1. v = t /\ Adds(f, a, c)
        BY <2>2 DEF Carries
      <3>2. QED
        BY <3>1, AddsLater, Zenon
    <2>3. QED
      BY <1>4, <2>1, <2>2
  <1>6. QED
    BY <1>3, <1>5, AgreesOn

LEMMA DataKept ==
    ASSUME NEW q \in Seq(Frames), q # <<>>, NEW d, NEW s, DOMAIN s \subseteq Streams,
           NEW g \in Seq(Dispatches), NEW u, NEW b, NEW full \in BOOLEAN,
           Agrees(q, <<>>, d, s, g, u, b, full), q[1].type = "data", ~q[1].bad_padding,
           ~(q[1].data > InitialWindow), q[1].id \in DOMAIN s, NEW s2,
           NEW fields, fields = s[q[1].id].fields, NEW body, body = s[q[1].id].body + q[1].data
    PROVE  /\ Gains(s2, s, q[1].id, fields, body) => Agrees(Tail(q), <<>>, d, s2, g, u, b, full)
           /\ \A r \in Dispatches :
                Lacks(s2, s, q[1].id) /\ q[1].end_stream /\ r.id = q[1].id /\ r.fields = fields /\ r.body = body
                  => Agrees(Tail(q), <<>>, d, s2, Append(g, r), u, b, full)
  <1>1. PICK t, v \in ClientTables : \E a, c : Hands(q, <<>>, d, s, g, u, b, full, t, v, a, c)
    BY AgreesTail
  <1>2. PICK a, c : Hands(q, <<>>, d, s, g, u, b, full, t, v, a, c)
    BY <1>1, Zenon
  <1> DEFINE f == q[1]
  <1>3. ~Lost(<<>>, f)
    BY DEF Lost
  <1>4. Carries(<<>>, f, t, v, a, c) /\ Path(Tail(q), <<>>, v, c, u, b, full)
        /\ Follows(t, d) /\ Held(s, a) /\ Heard(g, a)
    BY <1>2, <1>3, Zenon DEF Hands, Onward
  <1>5. v = t /\ Adds(f, a, c)
    BY <1>4 DEF Carries
  <1>6. Later(a, c) /\ Only(a, c, f.id)
    BY <1>5, AddsLater, Zenon
  <1>7. c[f.id].begun /\ c[f.id].fields = fields /\ c[f.id].data = body /\ (f.end_stream => c[f.id].ended)
    <2>1. s[f.id].fields = a[f.id].fields /\ s[f.id].body = a[f.id].data
      BY <1>4, Zenon DEF Held
    <2>2. QED
      BY <1>5, <2>1, Zenon DEF Adds
  <1>8. Heard(g, c)
    BY <1>4, <1>6, GivenIds, HeardLater
  <1>9. ASSUME Gains(s2, s, f.id, fields, body) PROVE Agrees(Tail(q), <<>>, d, s2, g, u, b, full)
    <2>1. Held(s2, c)
      BY <1>4, <1>6, <1>7, <1>9, HeldOn
    <2>2. QED
      BY <1>4, <1>5, <1>8, <2>1, Zenon DEF Agrees
  <1>10. ASSUME NEW r \in Dispatches, Lacks(s2, s, f.id), f.end_stream, r.id = f.id, r.fields = fields, r.body = body
         PROVE  Agrees(Tail(q), <<>>, d, s2, Append(g, r), u, b, full)
    <2>1. Held(s2, c)
      BY <1>4, <1>6, <1>10, HeldOn
    <2>2. Heard(Append(g, r), c)
      <3>1. c[r.id].begun /\ c[r.id].ended /\ r.fields = c[r.id].fields /\ r.body = c[r.id].data
        BY <1>7, <1>10, Zenon
      <3>2. QED
        BY <1>8, <3>1, HeardMore
    <2>3. QED
      BY <1>4, <1>5, <2>1, <2>2, Zenon DEF Agrees
  <1>11. QED
    BY <1>9, <1>10, Zenon

\* A block decodes to the field the client encoded, and what becomes of it is what was said.
ReadsOn(q, d, s, g, u, b, full, id, end_stream, block, field, after) ==
    /\ decode_header_block(d, block) = Given(after, field)
    /\ \A s2 : Lacks(s2, s, id) => Agrees(q, <<>>, after, s2, g, u, b, full)
    /\ \A s2 : ~end_stream /\ Gains(s2, s, id, <<field>>, 0) => Agrees(q, <<>>, after, s2, g, u, b, full)
    /\ \A s2, r : /\ Lacks(s2, s, id) /\ end_stream /\ field \notin BadFields
                  /\ r \in Dispatches /\ r.id = id /\ r.fields = <<field>> /\ r.body = 0
                  => Agrees(q, <<>>, after, s2, Append(g, r), u, b, full)

LEMMA BlockRead ==
    ASSUME NEW q, NEW d \in Tables, NEW s, DOMAIN s \subseteq Streams,
           NEW g \in Seq(Dispatches), NEW u, NEW b, NEW full, NEW id, NEW end_stream, NEW block,
           Ahead(q, d, s, g, u, b, full, id, end_stream, block)
    PROVE  \E field \in Fields : \E after : ReadsOn(q, d, s, g, u, b, full, id, end_stream, block, field, after)
  <1>1. PICK t, v \in ClientTables : \E a, c :
          /\ Follows(t, d) /\ Held(s, a) /\ Heard(g, a)
          /\ Says(id, end_stream, block, t, v, a, c) /\ Path(q, <<>>, v, c, u, b, full)
    BY Zenon DEF Ahead
  <1>2. PICK a, c :
          /\ Follows(t, d) /\ Held(s, a) /\ Heard(g, a)
          /\ Says(id, end_stream, block, t, v, a, c) /\ Path(q, <<>>, v, c, u, b, full)
    BY <1>1, Zenon
  <1>3. Later(a, c) /\ Only(a, c, id) /\ id \in Streams
    BY <1>2, SaysLater, Zenon
  <1>4. PICK field \in Fields :
          /\ \E e \in Encodings(t, field) : e[1] = block /\ e[2] = v
          /\ Asks(field, end_stream, id, a, c) \/ Trails(field, end_stream, id, a, c)
    BY <1>2, Zenon DEF Says
  <1>5. PICK e \in Encodings(t, field) : e[1] = block /\ e[2] = v
    BY <1>4, Zenon
  <1>6. \E after : decode_header_block(d, e[1]) = Given(after, field) /\ Follows(e[2], after)
    BY <1>2, EncodingDecoded
  <1>7. PICK after : decode_header_block(d, block) = Given(after, field) /\ Follows(v, after)
    BY <1>5, <1>6, Zenon
  <1>8. Heard(g, c)
    BY <1>2, <1>3, GivenIds, HeardLater
  <1>9. ASSUME NEW s2, Lacks(s2, s, id) PROVE Held(s2, c)
    BY <1>2, <1>3, <1>9, HeldOn
  <1>10. ASSUME NEW s2, Lacks(s2, s, id) PROVE Agrees(q, <<>>, after, s2, g, u, b, full)
    BY <1>2, <1>7, <1>8, <1>9, <1>10, Zenon DEF Agrees
  <1>11. ASSUME NEW s2, ~end_stream, Gains(s2, s, id, <<field>>, 0)
         PROVE  Agrees(q, <<>>, after, s2, g, u, b, full)
    <2>1. c[id].begun /\ c[id].fields = <<field>> /\ c[id].data = 0
      BY <1>4, <1>11, Zenon DEF Asks, Trails
    <2>2. Held(s2, c)
      BY <1>2, <1>3, <1>11, <2>1, HeldOn
    <2>3. QED
      BY <1>2, <1>7, <1>8, <2>2, Zenon DEF Agrees
  <1>12. ASSUME NEW s2, NEW r, Lacks(s2, s, id), end_stream, field \notin BadFields,
                r \in Dispatches, r.id = id, r.fields = <<field>>, r.body = 0
         PROVE  Agrees(q, <<>>, after, s2, Append(g, r), u, b, full)
    <2>1. c[id].begun /\ c[id].fields = <<field>> /\ c[id].data = 0 /\ c[id].ended
      BY <1>4, <1>12, Zenon DEF Asks, Trails
    <2>2. Held(s2, c)
      BY <1>9, <1>12, Zenon
    <2>3. Heard(Append(g, r), c)
      <3>1. c[r.id].begun /\ c[r.id].ended /\ r.fields = c[r.id].fields /\ r.body = c[r.id].data
        BY <1>12, <2>1, Zenon
      <3>2. QED
        BY <1>8, <1>12, <3>1, HeardMore
    <2>4. QED
      BY <1>2, <1>7, <2>2, <2>3, Zenon DEF Agrees
  <1>13. ReadsOn(q, d, s, g, u, b, full, id, end_stream, block, field, after)
    BY <1>7, <1>10, <1>11, <1>12, Zenon DEF ReadsOn
  <1>14. QED
    BY <1>13, Zenon

----------------------------------------------------------------------------
(***************************************************************************)
(* The connection.  As long as the tables agree and the connection is not  *)
(* given up, the frames that are buffered or under way lead from what the  *)
(* server knows to what the client has said.                               *)
(***************************************************************************)
Saying == [fields : Seq(Fields), data : Nat, begun : BOOLEAN, ended : BOOLEAN, dropped : BOOLEAN]

SaidOn(r) == [fields |-> r.fields, data |-> r.data, begun |-> r.begun, ended |-> r.ended]
Said(m) == [id \in Streams |-> SaidOn(m[id])]

Mild(out) == \A i \in DOMAIN out : out[i].type = "rst_stream" => out[i].n # "compression"

\* The client may still send, so that no stray frame is under way.
Room(n) == n < MaxSends

AskedOK == asked \in [Streams -> Saying]
GivenUp == goaway # "none" => phase_ = "writing" /\ ~keep_alive_after_response_
Truthful == ~unsynced => Heard(dispatched, Said(asked)) /\ Mild(output)
Queue == request_buffer_ \o flying
Now == Agrees(Queue, pending_headers_, decoder_, streams_, dispatched, encoder, Said(asked), Room(sends))
InStep == ~unsynced /\ goaway = "none" => Now
Emptied == phase_ = "closed" => request_buffer_ = <<>> /\ flying = <<>> /\ pending_headers_ = <<>>

Told == AskedOK /\ GivenUp /\ Truthful /\ InStep /\ Emptied

\* The first frame is taken, and the server is in step with the rest.
Advances ==
    Agrees(Tail(Queue), pending_headers_', decoder_', streams_', dispatched', encoder, Said(asked), Room(sends))

LEMMA RoomBoolean == \A n : Room(n) \in BOOLEAN
  BY DEF Room

LEMMA MildOutputs ==
    /\ Mild(<<>>) /\ Mild(<<Goaway>>) /\ Mild(<<Notice>>) /\ Mild(<<Timeout>>)
    /\ Mild(<<Notice, Notice>>)
    /\ \A id, why : why # "compression" => Mild(<<Reset(id, why)>>)
    /\ \A id, n : Mild(<<Update(0, n), Update(id, n)>>)
    /\ \A id : Mild(<<Response(id)>>)
  <1>1. ASSUME NEW a, a.type # "rst_stream" \/ a.n # "compression" PROVE Mild(<<a>>)
    BY <1>1 DEF Mild
  <1>2. ASSUME NEW a, NEW b, a.type # "rst_stream", b.type # "rst_stream" PROVE Mild(<<a, b>>)
    BY <1>2 DEF Mild
  <1>3. Mild(<<>>)
    BY DEF Mild
  <1>4. Goaway.type # "rst_stream" /\ Notice.type # "rst_stream" /\ Timeout.type # "rst_stream"
    BY DEF Goaway, Notice, Timeout, Written
  <1>5. ASSUME NEW id, NEW n
        PROVE  Reset(id, n).n = n /\ Update(id, n).type # "rst_stream" /\ Response(id).type # "rst_stream"
    BY DEF Reset, Update, Response, Written
  <1>6. QED
    BY <1>1, <1>2, <1>3, <1>4, <1>5, Zenon

LEMMA MildConcat ==
    ASSUME NEW s \in Seq(Outputs), NEW r \in Seq(Outputs), Mild(s), Mild(r)
    PROVE  Mild(s \o r)
  <1>1. ASSUME NEW i \in DOMAIN (s \o r)
        PROVE  (i \in DOMAIN s /\ (s \o r)[i] = s[i]) \/ (i - Len(s) \in DOMAIN r /\ (s \o r)[i] = r[i - Len(s)])
    OBVIOUS
  <1>2. QED
    BY <1>1, Zenon DEF Mild

LEMMA QueueTail ==
    ASSUME NEW rb \in Seq(Frames), NEW fl \in Seq(Frames), rb # <<>>
    PROVE  /\ rb \o fl \in Seq(Frames) /\ rb \o fl # <<>> /\ (rb \o fl)[1] = Head(rb)
           /\ Tail(rb \o fl) = Tail(rb) \o fl
  <1>1. rb \o fl \in Seq(Frames) /\ rb \o fl # <<>> /\ (rb \o fl)[1] = Head(rb)
    OBVIOUS
  <1>2. /\ Tail(rb \o fl) \in Seq(Frames) /\ Tail(rb) \o fl \in Seq(Frames)
        /\ Len(Tail(rb \o fl)) = Len(Tail(rb) \o fl)
        /\ \A i \in 1 .. Len(Tail(rb \o fl)) : Tail(rb \o fl)[i] = (Tail(rb) \o fl)[i]
    OBVIOUS
  <1>3. Tail(rb \o fl) = Tail(rb) \o fl
    BY <1>2
  <1>4. QED
    BY <1>1, <1>3

LEMMA AgreesHeard ==
    ASSUME NEW q \in Seq(Frames), NEW p, NEW d, NEW s, NEW g \in Seq(Dispatches), NEW u, NEW b, NEW full,
           Agrees(q, p, d, s, g, u, b, full)
    PROVE  Heard(g, b)
  <1>1. PICK t \in ClientTables : \E a :
          Path(q, p, t, a, u, b, full) /\ Follows(t, d) /\ Held(s, a) /\ Heard(g, a)
    BY Zenon DEF Agrees
  <1>2. PICK a : Path(q, p, t, a, u, b, full) /\ Follows(t, d) /\ Held(s, a) /\ Heard(g, a)
    BY <1>1, Zenon
  <1>3. Later(a, b)
    BY <1>2, PathLater, Zenon
  <1>4. QED
    BY <1>2, <1>3, GivenIds, HeardLater

LEMMA InStepTold ==
    ASSUME Typed', AskedOK', goaway' = "none", phase_' # "closed", ~unsynced' => Mild(output') /\ Now'
    PROVE  Told'
  <1>1. Queue' \in Seq(Frames) /\ dispatched' \in Seq(Dispatches)
    BY DEF Typed, FramesOK, HistoryOK, Queue
  <1>2. ASSUME Now' PROVE Heard(dispatched', Said(asked'))
    BY <1>1, <1>2, AgreesHeard, Zenon DEF Now
  <1>3. Truthful' /\ InStep' /\ GivenUp' /\ Emptied'
    BY <1>2, Zenon DEF Truthful, InStep, GivenUp, Emptied
  <1>4. QED
    BY <1>3, Zenon DEF Told

LEMMA GivenUpTold ==
    ASSUME Told, goaway' # "none", phase_' = "writing", ~keep_alive_after_response_', Mild(output'),
           asked' = asked, dispatched' = dispatched, unsynced' = unsynced
    PROVE  Told'
  <1>1. AskedOK' /\ GivenUp' /\ InStep'
    BY Zenon DEF Told, AskedOK, GivenUp, InStep
  <1>2. Emptied'
    BY DEF Emptied
  <1>3. Truthful'
    BY Zenon DEF Told, Truthful
  <1>4. QED
    BY <1>1, <1>2, <1>3, Zenon DEF Told

LEMMA TakenNow ==
    ASSUME Typed, Told, NEW types, Taking(types)
    PROVE  /\ Queue \in Seq(Frames) /\ Queue # <<>> /\ Queue[1] = Head(request_buffer_)
           /\ Queue' = Tail(Queue) /\ goaway = "none" /\ phase_ = "reading"
           /\ Room(sends) \in BOOLEAN /\ (~unsynced => Now /\ Mild(output))
           /\ sends' = sends /\ asked' = asked /\ encoder' = encoder
  <1>1. /\ request_buffer_ # <<>> /\ request_buffer_' = Tail(request_buffer_) /\ phase_ = "reading"
        /\ UNCHANGED client
    BY Zenon DEF Taking, Processing, Running
  <1>2. goaway = "none"
    BY <1>1 DEF Told, GivenUp
  <1>3. flying' = flying /\ sends' = sends /\ asked' = asked /\ encoder' = encoder
    BY <1>1, Zenon DEF client
  <1>4. request_buffer_ \in Seq(Frames) /\ flying \in Seq(Frames)
    BY DEF Typed, FramesOK
  <1>5. Queue \in Seq(Frames) /\ Queue # <<>> /\ Queue[1] = Head(request_buffer_)
        /\ Tail(Queue) = Tail(request_buffer_) \o flying
    BY <1>1, <1>4, QueueTail, Zenon DEF Queue
  <1>6. Queue' = Tail(Queue)
    BY <1>1, <1>3, <1>5, Zenon DEF Queue
  <1>7. ~unsynced => Now /\ Mild(output)
    BY <1>2, Zenon DEF Told, InStep, Truthful
  <1>8. QED
    BY <1>1, <1>2, <1>3, <1>5, <1>6, <1>7, RoomBoolean, Zenon

\* A frame that was taken, and after which the connection goes on.
LEMMA TakenTold ==
    ASSUME Typed, Typed', Told, NEW types, Taking(types), goaway' = goaway, phase_' # "closed",
           ~unsynced' => Mild(output') /\ Advances
    PROVE  Told'
  <1>1. Queue' = Tail(Queue) /\ goaway = "none" /\ sends' = sends /\ asked' = asked /\ encoder' = encoder
    BY TakenNow, Zenon
  <1>2. AskedOK'
    BY <1>1, Zenon DEF Told, AskedOK
  <1>3. Advances => Now'
    BY <1>1, Zenon DEF Advances, Now
  <1>4. QED
    BY <1>1, <1>2, <1>3, InStepTold, Zenon

LEMMA FailTold ==
    ASSUME Told, NEW why, why # "none", fail_connection(why), unsynced' = unsynced, asked' = asked
    PROVE  Told'
  <1>1. /\ output' = <<Goaway>> /\ goaway' = why /\ phase_' = "writing" /\ ~keep_alive_after_response_'
        /\ dispatched' = dispatched
    BY Zenon DEF fail_connection, set_serialized_response
  <1>2. QED
    BY <1>1, GivenUpTold, MildOutputs, Zenon

LEMMA WithoutGives ==
    ASSUME NEW id, streams_' = without(id)
    PROVE  Lacks(streams_', streams_, id)
  <1>1. streams_' = [x \in DOMAIN streams_ \ {id} |-> streams_[x]]
    BY DEF without, Restrict
  <1>2. QED
    BY <1>1 DEF Lacks

LEMMA CompleteGives ==
    ASSUME NEW id \in Nat, NEW stream, NEW prefix \in Seq(Outputs), Mild(prefix),
           complete_stream(id, stream, prefix)
    PROVE  /\ Lacks(streams_', streams_, id) /\ Mild(output') /\ goaway' = goaway /\ phase_' = "writing"
           /\ \/ dispatched' = dispatched
              \/ /\ build_request(stream)
                 /\ dispatched' = Append(dispatched, [id |-> id, fields |-> stream.fields, body |-> stream.body])
  <1>1. Lacks(streams_', streams_, id)
    BY WithoutGives DEF complete_stream
  <1> DEFINE r == <<Response(id)>>
             p == prefix \o r
  <1>2. r \in Seq(Outputs) /\ Mild(r)
    BY WrittenSeqs, MildOutputs, Zenon
  <1> HIDE DEF r
  <1>3. p \in Seq(Outputs) /\ Mild(p)
    BY <1>2, MildConcat
  <1> HIDE DEF p
  <1>4. CASE Refused(id, prefix)
    <2>1. output' = p /\ goaway' = goaway /\ phase_' = "writing" /\ dispatched' = dispatched
      BY <1>4, Zenon DEF Refused, set_serialized_response, p, r
    <2>2. QED
      BY <1>1, <1>3, <2>1, Zenon
  <1>5. ASSUME NEW sent \in BOOLEAN, build_request(stream), Served(id, stream, prefix, sent)
        PROVE  /\ Mild(output') /\ goaway' = goaway /\ phase_' = "writing"
               /\ dispatched' = Append(dispatched, [id |-> id, fields |-> stream.fields, body |-> stream.body])
    <2>1. PICK end : /\ end = <<Goaway>> \/ end = <<>>
                     /\ output' = p \o end
      BY <1>5, Zenon DEF Served, set_serialized_response, p, r
    <2>2. end \in Seq(Outputs) /\ Mild(end)
      BY <2>1, WrittenSeqs, MildOutputs, NoStreams, Zenon
    <2>3. Mild(output')
      BY <1>3, <2>1, <2>2, MildConcat, Zenon
    <2>4. goaway' = goaway /\ phase_' = "writing"
          /\ dispatched' = Append(dispatched, [id |-> id, fields |-> stream.fields, body |-> stream.body])
      BY <1>5, Zenon DEF Served, set_serialized_response
    <2>5. QED
      BY <2>3, <2>4, Zenon
  <1>6. QED
    BY <1>1, <1>4, <1>5, Zenon DEF complete_stream

LEMMA ResetGives ==
    ASSUME NEW id, NEW why, reset_stream_result(id, why)
    PROVE  /\ Lacks(streams_', streams_, id) /\ goaway' = goaway /\ phase_' = "writing"
           /\ dispatched' = dispatched /\ (why # "compression" => Mild(output'))
  <1>1. /\ streams_' = without(id) /\ output' = <<Reset(id, why)>> /\ goaway' = goaway
        /\ phase_' = "writing" /\ dispatched' = dispatched
    BY Zenon DEF reset_stream_result, set_serialized_response
  <1>2. QED
    BY <1>1, WithoutGives, MildOutputs, Zenon

\* Frames that say nothing about a request.
LEMMA ControlTold ==
    ASSUME Typed, Typed', Told, handle_settings \/ handle_ping \/ handle_ignored \/ handle_rst_stream
    PROVE  Told'
  <1>0. pending_headers_ = <<>> /\ pending_headers_' = <<>> /\ dispatched' = dispatched /\ goaway' = goaway
    BY Zenon DEF handle_settings, handle_ping, handle_ignored, handle_rst_stream, AtFrameBoundary,
            Quiet, session, session_data, history
  <1>1. \E types : /\ Taking(types) /\ "headers" \notin types /\ "continuation" \notin types /\ "data" \notin types
    <2>1. CASE handle_settings
      BY <2>1 DEF handle_settings, AtFrameBoundary
    <2>2. CASE handle_ping
      BY <2>2 DEF handle_ping, AtFrameBoundary
    <2>3. CASE handle_ignored
      BY <2>3 DEF handle_ignored, AtFrameBoundary, Ignored
    <2>4. CASE handle_rst_stream
      BY <2>4 DEF handle_rst_stream, AtFrameBoundary
    <2>5. QED
      BY <2>1, <2>2, <2>3, <2>4
  <1>2. PICK types : /\ Taking(types) /\ "headers" \notin types /\ "continuation" \notin types /\ "data" \notin types
    BY <1>1, Zenon
  <1>3. /\ Queue \in Seq(Frames) /\ Queue # <<>> /\ Queue[1] = Head(request_buffer_) /\ phase_ = "reading"
        /\ Room(sends) \in BOOLEAN /\ (~unsynced => Now /\ Mild(output))
    BY <1>2, TakenNow, Zenon
  <1>4. Queue[1].type \notin {"headers", "continuation", "data"}
    <2>1. Head(request_buffer_).type \in types
      BY <1>2, Zenon DEF Taking
    <2>2. QED
      BY <1>2, <1>3, <2>1
  <1>5. ASSUME ~unsynced
        PROVE  Agrees(Tail(Queue), <<>>, decoder_, streams_, dispatched, encoder, Said(asked), Room(sends))
    BY <1>0, <1>3, <1>4, <1>5, FramePassed, Zenon DEF Now
  <1>6. phase_' # "closed" /\ (Mild(output') \/ output' = output)
    <2>1. CASE handle_settings \/ handle_ping
      <3>1. phase_' = "writing" /\ output' = <<Notice>>
        BY <2>1, Zenon DEF handle_settings, handle_ping, set_serialized_response
      <3>2. QED
        BY <3>1, MildOutputs
    <2>2. CASE handle_ignored \/ handle_rst_stream
      <3>1. phase_' = phase_ /\ output' = output
        BY <2>2, Zenon DEF handle_ignored, handle_rst_stream, Quiet
      <3>2. QED
        BY <1>3, <3>1
    <2>3. QED
      BY <2>1, <2>2
  <1>7. ASSUME ~unsynced' PROVE ~unsynced /\ Advances
    <2>1. CASE handle_settings
      <3> DEFINE n == Head(request_buffer_).value
      <3>1. /\ streams_' = streams_
            /\ \/ n = Unset /\ decoder_' = decoder_ /\ unsynced' = unsynced
               \/ /\ n # Unset /\ decoder_' = set_max_table_size(decoder_, n)
                  /\ unsynced' = (unsynced \/ n < DefaultTableSize)
        BY <2>1, Zenon DEF handle_settings
      <3>2. n \in Nat \cup {Unset} /\ decoder_ \in Tables /\ DefaultTableSize \in Nat
        BY <1>2, TakingOK, FrameParts, HpackAssumption, Zenon DEF Typed, DecoderOK
      <3> HIDE DEF n
      <3>3. CASE n = Unset
        <4>1. streams_' = streams_ /\ decoder_' = decoder_ /\ unsynced' = unsynced
          BY <3>1, <3>3, Zenon
        <4>2. QED
          BY <1>0, <1>5, <1>7, <4>1, Zenon DEF Advances
      <3>4. CASE n # Unset
        <4>1. n \in Nat /\ ~unsynced /\ ~(n < DefaultTableSize)
          BY <1>7, <3>1, <3>2, <3>4, Zenon
        <4>2. n >= DefaultTableSize
          BY <3>2, <4>1
        <4>3. Agrees(Tail(Queue), <<>>, set_max_table_size(decoder_, n), streams_, dispatched, encoder, Said(asked), Room(sends))
          BY <1>5, <3>2, <4>1, <4>2, AgreesSettled, Zenon
        <4>4. QED
          BY <1>0, <3>1, <3>4, <4>1, <4>3, Zenon DEF Advances
      <3>5. QED
        BY <3>3, <3>4, Zenon
    <2>2. CASE handle_ping \/ handle_ignored
      <3>1. decoder_' = decoder_ /\ streams_' = streams_ /\ unsynced' = unsynced
        BY <2>2, Zenon DEF handle_ping, handle_ignored, session, session_data, history
      <3>2. QED
        BY <1>0, <1>5, <1>7, <3>1, Zenon DEF Advances
    <2>3. CASE handle_rst_stream
      <3>1. decoder_' = decoder_ /\ unsynced' = unsynced /\ Lacks(streams_', streams_, Head(request_buffer_).id)
        BY <2>3, WithoutGives, Zenon DEF handle_rst_stream
      <3>2. Agrees(Tail(Queue), <<>>, decoder_, streams_', dispatched, encoder, Said(asked), Room(sends))
        BY <1>5, <1>7, <3>1, AgreesLess, Zenon
      <3>3. QED
        BY <1>0, <1>7, <3>1, <3>2, Zenon DEF Advances
    <2>4. QED
      BY <2>1, <2>2, <2>3
  <1>8. QED
    BY <1>0, <1>2, <1>3, <1>6, <1>7, TakenTold, Zenon

LEMMA DecodeTold ==
    ASSUME Typed, Typed', Told, NEW types, Taking(types), NEW id \in Streams, NEW end_stream, NEW block,
           decode_headers(id, end_stream, block), pending_headers_' = <<>>,
           ~unsynced => Ahead(Tail(Queue), decoder_, streams_, dispatched, encoder, Said(asked), Room(sends),
                              id, end_stream, block)
    PROVE  Told'
  <1> DEFINE decoded == decode_header_block(decoder_, block)
             stream == [fields |-> decoded.fields, body |-> 0, inbound_window |-> InitialWindow]
             request == [id |-> id, fields |-> stream.fields, body |-> stream.body]
  <1>0. id \in Nat /\ <<>> \in Seq(Outputs) /\ Mild(<<>>)
    BY StreamsAreOdd, NoStreams, MildOutputs
  <1>1. decoder_' = decoded.table /\ unsynced' = unsynced
    BY Zenon DEF decode_headers
  <1>2. \/ reset_stream_result(id, "compression") /\ ~decoded.ok
        \/ reset_stream_result(id, "protocol")
        \/ end_stream /\ complete_stream(id, stream, <<>>)
        \/ ~end_stream /\ Quiet /\ streams_' = opened(id, stream)
    BY Zenon DEF decode_headers
  <1>3. phase_ = "reading" /\ (~unsynced => Now /\ Mild(output))
    BY TakenNow, Zenon
  <1>4. goaway' = goaway /\ phase_' # "closed"
    <2>1. ASSUME Quiet PROVE goaway' = goaway /\ phase_' # "closed"
      BY <1>3, <2>1 DEF Quiet
    <2>2. ASSUME NEW why, reset_stream_result(id, why) PROVE goaway' = goaway /\ phase_' # "closed"
      BY <2>2, ResetGives
    <2> HIDE DEF stream
    <2>3. ASSUME complete_stream(id, stream, <<>>) PROVE goaway' = goaway /\ phase_' # "closed"
      BY <1>0, <2>3, CompleteGives
    <2>4. QED
      BY <1>2, <2>1, <2>2, <2>3, Zenon
  <1>5. ASSUME ~unsynced' PROVE Mild(output') /\ Advances
    <2>0. decoder_ \in Tables /\ DOMAIN streams_ \subseteq Streams /\ dispatched \in Seq(Dispatches)
      BY DEF Typed, DecoderOK, StreamsOK, HistoryOK
    <2>1. PICK field \in Fields : \E after :
            ReadsOn(Tail(Queue), decoder_, streams_, dispatched, encoder, Said(asked), Room(sends),
                    id, end_stream, block, field, after)
      BY <1>1, <1>5, <2>0, BlockRead, Zenon
    <2>2. PICK after :
            ReadsOn(Tail(Queue), decoder_, streams_, dispatched, encoder, Said(asked), Room(sends),
                    id, end_stream, block, field, after)
      BY <2>1, Zenon
    <2>3. decoded = Given(after, field)
      BY <2>2, Zenon DEF ReadsOn
    <2>4. decoded.ok /\ decoded.fields = <<field>> /\ decoded.table = after
      BY <2>3 DEF Given, Read
    <2> HIDE DEF decoded
    <2>5. stream.fields = <<field>> /\ stream.body = 0 /\ request.id = id /\ request.fields = <<field>>
          /\ request.body = 0
      BY <2>4
    <2>6. request \in Dispatches
      <3>1. [id |-> id, fields |-> <<field>>, body |-> 0] \in Dispatches
        BY SessionAssumption DEF Dispatches
      <3>2. request = [id |-> id, fields |-> <<field>>, body |-> 0]
        BY <2>5, Zenon
      <3>3. QED
        BY <3>1, <3>2, Zenon
    <2> HIDE DEF request
    <2>7. /\ \A s2 : Lacks(s2, streams_, id) =>
               Agrees(Tail(Queue), <<>>, after, s2, dispatched, encoder, Said(asked), Room(sends))
          /\ \A s2 : ~end_stream /\ Gains(s2, streams_, id, <<field>>, 0) =>
               Agrees(Tail(Queue), <<>>, after, s2, dispatched, encoder, Said(asked), Room(sends))
          /\ \A s2 : Lacks(s2, streams_, id) /\ end_stream /\ field \notin BadFields =>
               Agrees(Tail(Queue), <<>>, after, s2, Append(dispatched, request), encoder, Said(asked), Room(sends))
      BY <2>2, <2>5, <2>6, Zenon DEF ReadsOn
    <2>8. CASE reset_stream_result(id, "protocol")
      <3>1. Lacks(streams_', streams_, id) /\ dispatched' = dispatched /\ Mild(output')
        BY <2>8, ResetGives
      <3>2. QED
        BY <1>1, <2>4, <2>7, <3>1, Zenon DEF Advances
    <2>9. CASE end_stream /\ complete_stream(id, stream, <<>>)
      <3> HIDE DEF stream
      <3>1. /\ Lacks(streams_', streams_, id) /\ Mild(output')
            /\ \/ dispatched' = dispatched
               \/ build_request(stream) /\ dispatched' = Append(dispatched, request)
        BY <1>0, <2>9, CompleteGives, Zenon DEF request
      <3>2. build_request(stream) => field \notin BadFields
        BY <2>5 DEF build_request
      <3>3. QED
        BY <1>1, <2>4, <2>7, <2>9, <3>1, <3>2, Zenon DEF Advances
    <2>10. CASE ~end_stream /\ Quiet /\ streams_' = opened(id, stream)
      <3> HIDE DEF stream
      <3>1. dispatched' = dispatched /\ output' = output
        BY <2>10, Zenon DEF Quiet
      <3>2. Gains(streams_', streams_, id, <<field>>, 0)
        <4>1. streams_' = [x \in DOMAIN streams_ \cup {id} |-> IF x = id THEN stream ELSE streams_[x]]
          BY <2>10, Zenon DEF opened
        <4>2. streams_'[id] = stream /\ \A x \in DOMAIN streams_' : x # id => x \in DOMAIN streams_ /\ streams_'[x] = streams_[x]
          BY <4>1
        <4>3. QED
          BY <2>5, <4>2, Zenon DEF Gains
      <3>3. QED
        BY <1>1, <1>3, <1>5, <2>4, <2>7, <2>10, <3>1, <3>2, Zenon DEF Advances
    <2>11. QED
      BY <1>2, <2>4, <2>8, <2>9, <2>10, Zenon
  <1>6. QED
    BY <1>4, <1>5, TakenTold, Zenon

LEMMA HeadersTold ==
    ASSUME Typed, Typed', Told, handle_headers_frame
    PROVE  Told'
  <1> DEFINE frame == Head(request_buffer_)
  <1>0. Taking({"headers"}) /\ pending_headers_ = <<>>
    BY Zenon DEF handle_headers_frame, AtFrameBoundary
  <1>1. /\ Queue \in Seq(Frames) /\ Queue # <<>> /\ Queue[1] = frame /\ phase_ = "reading"
        /\ Room(sends) \in BOOLEAN /\ (~unsynced => Now /\ Mild(output)) /\ asked' = asked
    BY <1>0, TakenNow, Zenon
  <1>2. frame \in Frames /\ frame.type = "headers"
    BY <1>0, TakingOK DEF Taking
  <1>3. decoder_ \in Tables /\ DOMAIN streams_ \subseteq Streams /\ dispatched \in Seq(Dispatches)
    BY DEF Typed, DecoderOK, StreamsOK, HistoryOK
  <1> HIDE DEF frame
  <1>4. CASE fail_connection("protocol") /\ unsynced' = unsynced
    BY <1>1, <1>4, FailTold
  <1>5. ASSUME NEW why, why # "compression", drop_block(frame.id, frame.block, why), pending_headers_' = pending_headers_
        PROVE  Told'
    <2>1. /\ reset_stream_result(frame.id, why) /\ unsynced' = (unsynced \/ Touches(frame.block))
          /\ decoder_' = decoder_
      BY <1>5, Zenon DEF drop_block
    <2>2. /\ Lacks(streams_', streams_, frame.id) /\ goaway' = goaway /\ phase_' = "writing"
          /\ dispatched' = dispatched /\ Mild(output')
      BY <1>5, <2>1, ResetGives, Zenon
    <2>3. ASSUME ~unsynced' PROVE Advances
      <3>1. ~unsynced /\ ~Touches(frame.block)
        BY <2>1, <2>3, Zenon
      <3>2. Agrees(Tail(Queue), <<>>, decoder_, streams_', dispatched, encoder, Said(asked), Room(sends))
        BY <1>0, <1>1, <1>2, <1>3, <2>2, <3>1, HeaderDropped, Zenon DEF Now
      <3>3. QED
        BY <1>0, <1>5, <2>1, <2>2, <3>2, Zenon DEF Advances
    <2>4. phase_' # "closed"
      BY <2>2
    <2>5. QED
      BY <1>0, <2>2, <2>3, <2>4, TakenTold, Zenon
  <1>6. CASE /\ ~frame.bad_padding /\ ~frame.end_headers
             /\ pending_headers_' = <<[id |-> frame.id, end_stream |-> frame.end_stream,
                                       block |-> frame.block]>>
             /\ Quiet
             /\ UNCHANGED <<last_client_stream_id_, decoder_, streams_, unsynced>>
    <2>1. pending_headers_' = <<Part(frame)>> /\ dispatched' = dispatched /\ output' = output
          /\ goaway' = goaway /\ phase_' = phase_
      BY <1>6, Zenon DEF Quiet, Part
    <2>2. phase_' # "closed"
      BY <1>1, <2>1
    <2>3. ASSUME ~unsynced' PROVE Advances
      <3>1. Agrees(Tail(Queue), <<Part(frame)>>, decoder_, streams_, dispatched, encoder, Said(asked), Room(sends))
        BY <1>0, <1>1, <1>2, <1>6, <2>3, HeaderBegun, Zenon DEF Now
      <3>2. QED
        BY <1>6, <2>1, <3>1, Zenon DEF Advances
    <2>4. QED
      BY <1>0, <1>1, <1>6, <2>1, <2>2, <2>3, TakenTold, Zenon
  <1>7. CASE /\ frame.id % 2 = 1 /\ ~frame.bad_padding /\ frame.end_headers /\ pending_headers_' = pending_headers_
             /\ decode_headers(frame.id, frame.end_stream, frame.block)
    <2>1. frame.id \in Streams
      BY <1>2, <1>7, FrameParts
    <2>2. ~unsynced => Ahead(Tail(Queue), decoder_, streams_, dispatched, encoder, Said(asked), Room(sends),
                             frame.id, frame.end_stream, frame.block)
      BY <1>0, <1>1, <1>2, <1>7, HeaderWhole, Zenon DEF Now
    <2>3. QED
      BY <1>0, <1>7, <2>1, <2>2, DecodeTold, Zenon
  <1>8. "closed" # "compression" /\ "protocol" # "compression"
    OBVIOUS
  <1>9. QED
    BY <1>4, <1>5, <1>6, <1>7, <1>8, Zenon DEF handle_headers_frame, frame

LEMMA ContinuationTold ==
    ASSUME Typed, Typed', Told, handle_continuation_frame
    PROVE  Told'
  <1> DEFINE frame == Head(request_buffer_)
             pending == pending_headers_[1]
             block == pending.block \o frame.block
             matches == pending_headers_ # <<>> /\ pending.id = frame.id
  <1>0. Taking({"continuation"})
    BY Zenon DEF handle_continuation_frame
  <1>1. /\ Queue \in Seq(Frames) /\ Queue # <<>> /\ Queue[1] = frame /\ phase_ = "reading"
        /\ Room(sends) \in BOOLEAN /\ (~unsynced => Now /\ Mild(output)) /\ asked' = asked
    BY <1>0, TakenNow, Zenon
  <1>2. frame.type = "continuation"
    BY <1>0 DEF Taking
  <1>3. decoder_ \in Tables /\ DOMAIN streams_ \subseteq Streams /\ dispatched \in Seq(Dispatches)
    BY DEF Typed, DecoderOK, StreamsOK, HistoryOK
  <1> HIDE DEF frame, pending, block
  <1>4. CASE fail_connection("protocol") /\ unsynced' = unsynced
    BY <1>1, <1>4, FailTold
  <1>5. CASE matches /\ pending_headers_' = <<>> /\ drop_block(frame.id, block, "calm")
    <2>1. /\ reset_stream_result(frame.id, "calm") /\ unsynced' = (unsynced \/ Touches(block))
          /\ decoder_' = decoder_
      BY <1>5, Zenon DEF drop_block
    <2>2. /\ Lacks(streams_', streams_, frame.id) /\ goaway' = goaway /\ phase_' = "writing"
          /\ dispatched' = dispatched /\ Mild(output')
      BY <2>1, ResetGives
    <2>3. ASSUME ~unsynced' PROVE Advances
      <3>1. ~unsynced /\ ~Touches(block)
        BY <2>1, <2>3, Zenon
      <3>2. Lacks(streams_', streams_, pending.id)
        BY <1>5, <2>2, Zenon
      <3>3. Agrees(Tail(Queue), <<>>, decoder_, streams_', dispatched, encoder, Said(asked), Room(sends))
        BY <1>1, <1>2, <1>3, <1>5, <3>1, <3>2, ContinuationDropped, Zenon DEF Now, block, pending
      <3>4. QED
        BY <1>5, <2>1, <2>2, <3>3, Zenon DEF Advances
    <2>4. phase_' # "closed"
      BY <2>2
    <2>5. QED
      BY <1>0, <2>2, <2>3, <2>4, TakenTold, Zenon
  <1>6. CASE /\ matches /\ ~frame.end_headers /\ Quiet
             /\ UNCHANGED <<last_client_stream_id_, decoder_, streams_, unsynced>>
    <2>1. dispatched' = dispatched /\ output' = output /\ goaway' = goaway /\ phase_' = phase_
      BY <1>6, Zenon DEF Quiet
    <2>2. phase_' # "closed"
      BY <1>1, <2>1
    <2>3. ASSUME ~unsynced' PROVE Advances
      <3>1. Agrees(Tail(Queue), pending_headers_', decoder_, streams_, dispatched, encoder, Said(asked), Room(sends))
        BY <1>1, <1>6, <2>3, ContinuationGoesOn, Zenon DEF Now
      <3>2. QED
        BY <1>6, <2>1, <3>1, Zenon DEF Advances
    <2>4. QED
      BY <1>0, <1>1, <1>6, <2>1, <2>2, <2>3, TakenTold, Zenon
  <1>7. CASE matches /\ frame.end_headers /\ pending_headers_' = <<>> /\ decode_headers(pending.id, pending.end_stream, block)
    <2>1. pending.id \in Streams
      <3>1. pending \in Pendings
        BY <1>7 DEF Typed, PendingOK, pending
      <3>2. QED
        BY <3>1 DEF Pendings
    <2>2. ~unsynced => Ahead(Tail(Queue), decoder_, streams_, dispatched, encoder, Said(asked), Room(sends),
                             pending.id, pending.end_stream, block)
      BY <1>1, <1>2, <1>7, ContinuationEnds, Zenon DEF Now, pending, block
    <2>3. QED
      BY <1>0, <1>7, <2>1, <2>2, DecodeTold, Zenon
  <1>8. QED
    BY <1>4, <1>5, <1>6, <1>7, Zenon DEF handle_continuation_frame, frame, pending, block

LEMMA DataTold ==
    ASSUME Typed, Typed', Told, handle_data_frame
    PROVE  Told'
  <1> DEFINE frame == Head(request_buffer_)
             n == frame.data
             stream == streams_[frame.id]
             longer == received(stream, n)
             updates == IF n = 0 THEN <<>> ELSE <<Update(0, n), Update(frame.id, n)>>
             known == frame.id \in DOMAIN streams_
  <1>0. /\ Taking({"data"}) /\ pending_headers_ = <<>>
        /\ decoder_' = decoder_ /\ unsynced' = unsynced
    BY Zenon DEF handle_data_frame, AtFrameBoundary
  <1>1. /\ Queue \in Seq(Frames) /\ Queue # <<>> /\ Queue[1] = frame /\ phase_ = "reading"
        /\ Room(sends) \in BOOLEAN /\ (~unsynced => Now /\ Mild(output)) /\ asked' = asked
    BY <1>0, TakenNow, Zenon
  <1>2. frame \in Frames /\ frame.type = "data"
    BY <1>0, TakingOK DEF Taking
  <1>3. frame.id \in Nat /\ n \in Nat
    BY <1>2, FrameParts
  <1>4. DOMAIN streams_ \subseteq Streams /\ dispatched \in Seq(Dispatches)
    BY DEF Typed, StreamsOK, HistoryOK
  <1> HIDE DEF frame, n
  <1>5. CASE fail_connection("flow_control")
    BY <1>0, <1>1, <1>5, FailTold
  <1>6. ASSUME NEW s2, Lacks(s2, streams_, frame.id), ~unsynced
        PROVE  Agrees(Tail(Queue), <<>>, decoder_, s2, dispatched, encoder, Said(asked), Room(sends))
    BY <1>0, <1>1, <1>2, <1>4, <1>6, DataDropped, Zenon DEF Now
  <1>7. ASSUME NEW why, why # "compression", reset_stream_result(frame.id, why), pending_headers_' = pending_headers_
        PROVE  Told'
    <2>1. /\ Lacks(streams_', streams_, frame.id) /\ goaway' = goaway /\ phase_' = "writing"
          /\ dispatched' = dispatched /\ Mild(output')
      BY <1>7, ResetGives, Zenon
    <2>2. ~unsynced' => Advances
      BY <1>0, <1>6, <1>7, <2>1, Zenon DEF Advances
    <2>3. phase_' # "closed"
      BY <2>1
    <2>4. QED
      BY <1>0, <2>1, <2>2, <2>3, TakenTold, Zenon
  <1>8. CASE /\ known /\ ~frame.bad_padding /\ ~(n > connection_inbound_window_) /\ longer.body <= max_request_bytes
             /\ pending_headers_' = pending_headers_
             /\ \/ frame.end_stream /\ complete_stream(frame.id, longer, updates)
                \/ /\ streams_' = [streams_ EXCEPT ![frame.id] = longer]
                   /\ IF n = 0 THEN Quiet
                      ELSE /\ set_serialized_response(updates, TRUE)
                           /\ UNCHANGED <<requests_served_, goaway, dispatched>>
    <2>1. frame.id \in Streams /\ frame.id \in DOMAIN streams_ /\ ~(n > InitialWindow)
      BY <1>8 DEF Typed, StreamsOK, SessionOK
    <2>2. longer \in OpenStreams /\ longer.fields = stream.fields /\ longer.body = stream.body + n
      BY <1>3, <1>8, <2>1, ReceivedOK, Zenon
    <2>3. updates \in Seq(Outputs) /\ Mild(updates)
      BY <1>3, <2>1, UpdatesOK, MildOutputs, NoStreams, Zenon
    <2> DEFINE request == [id |-> frame.id, fields |-> longer.fields, body |-> longer.body]
    <2> HIDE DEF longer, updates
    <2>4. request \in Dispatches /\ request.id = frame.id /\ request.fields = longer.fields /\ request.body = longer.body
      BY <2>1, <2>2 DEF OpenStreams, Dispatches
    <2> HIDE DEF request
    <2>5. ASSUME ~unsynced, NEW s2
          PROVE  /\ Gains(s2, streams_, frame.id, longer.fields, longer.body) =>
                      Agrees(Tail(Queue), <<>>, decoder_, s2, dispatched, encoder, Said(asked), Room(sends))
                 /\ Lacks(s2, streams_, frame.id) /\ frame.end_stream =>
                      Agrees(Tail(Queue), <<>>, decoder_, s2, Append(dispatched, request), encoder, Said(asked), Room(sends))
      <3>1. Agrees(Queue, <<>>, decoder_, streams_, dispatched, encoder, Said(asked), Room(sends))
        BY <1>0, <1>1, <2>5, Zenon DEF Now
      <3>2. Queue[1].type = "data" /\ ~Queue[1].bad_padding /\ ~(Queue[1].data > InitialWindow)
            /\ Queue[1].id \in DOMAIN streams_ /\ longer.fields = streams_[Queue[1].id].fields
            /\ longer.body = streams_[Queue[1].id].body + Queue[1].data
        BY <1>1, <1>2, <1>8, <2>1, <2>2, Zenon DEF n
      <3>3. /\ Gains(s2, streams_, Queue[1].id, longer.fields, longer.body) =>
                 Agrees(Tail(Queue), <<>>, decoder_, s2, dispatched, encoder, Said(asked), Room(sends))
            /\ \A r \in Dispatches :
                 Lacks(s2, streams_, Queue[1].id) /\ Queue[1].end_stream /\ r.id = Queue[1].id
                 /\ r.fields = longer.fields /\ r.body = longer.body
                   => Agrees(Tail(Queue), <<>>, decoder_, s2, Append(dispatched, r), encoder, Said(asked), Room(sends))
        BY <1>1, <1>4, <3>1, <3>2, DataKept, Zenon
      <3>4. QED
        BY <1>1, <2>4, <3>3, Zenon
    <2>6. CASE frame.end_stream /\ complete_stream(frame.id, longer, updates)
      <3>1. /\ Lacks(streams_', streams_, frame.id) /\ Mild(output') /\ goaway' = goaway /\ phase_' = "writing"
            /\ dispatched' = dispatched \/ dispatched' = Append(dispatched, request)
        BY <1>3, <2>3, <2>6, CompleteGives, Zenon DEF request
      <3>2. ~unsynced' => Advances
        BY <1>0, <1>6, <1>8, <2>5, <2>6, <3>1, Zenon DEF Advances
      <3>3. phase_' # "closed"
        BY <3>1
      <3>4. QED
        BY <1>0, <3>1, <3>2, <3>3, TakenTold, Zenon
    <2>7. CASE /\ streams_' = [streams_ EXCEPT ![frame.id] = longer]
               /\ \/ Quiet
                  \/ set_serialized_response(updates, TRUE) /\ dispatched' = dispatched /\ goaway' = goaway
      <3>1. Gains(streams_', streams_, frame.id, longer.fields, longer.body)
        BY <2>1, <2>7 DEF Gains
      <3>2. /\ goaway' = goaway /\ dispatched' = dispatched /\ (phase_' = phase_ \/ phase_' = "writing")
            /\ (output' = output \/ output' = updates)
        BY <2>7, Zenon DEF Quiet, set_serialized_response
      <3>3. phase_' # "closed"
        BY <1>1, <3>2
      <3>4. ~unsynced' => Mild(output') /\ Advances
        BY <1>0, <1>1, <1>8, <2>3, <2>5, <3>1, <3>2, Zenon DEF Advances
      <3>5. QED
        BY <1>0, <3>2, <3>3, <3>4, TakenTold, Zenon
    <2>8. QED
      BY <1>8, <2>6, <2>7, Zenon
  <1>9. "closed" # "compression" /\ "protocol" # "compression" /\ "calm" # "compression"
    OBVIOUS
  <1>10. QED
    BY <1>5, <1>7, <1>8, <1>9, Zenon DEF handle_data_frame, frame, n

LEMMA TwoFrames ==
    ASSUME NEW s \in Seq(Frames), Len(s) > 1
    PROVE  /\ Tail(s) \in Seq(Frames) /\ Tail(s) # <<>> /\ Head(Tail(s)) = s[2] /\ Head(s) = s[1]
           /\ SubSeq(s, 3, Len(s)) = Tail(Tail(s))
  <1>1. Tail(s) \in Seq(Frames) /\ Len(Tail(s)) = Len(s) - 1 /\ Tail(s)[1] = s[2] /\ Head(s) = s[1]
        /\ Len(s) \in Nat
    OBVIOUS
  <1>2. Tail(s) # <<>> /\ Head(Tail(s)) = s[2]
    <2> DEFINE r == Tail(s)
    <2>1. r \in Seq(Frames) /\ r[1] = s[2] /\ Len(r) \in Nat /\ Len(r) # 0
      BY <1>1
    <2> HIDE DEF r
    <2>2. r # <<>> /\ Head(r) = r[1]
      BY <2>1
    <2>3. QED
      BY <2>1, <2>2, Zenon DEF r
  <1>3. SubSeq(s, 3, Len(s)) = Tail(Tail(s))
    OBVIOUS
  <1>4. QED
    BY <1>1, <1>2, <1>3

LEMMA PrefaceTold ==
    ASSUME Typed, Typed', Told, ExpectedPreface \/ \E request_allowed \in BOOLEAN : accept_preface(request_allowed)
    PROVE  Told'
  <1>0. UNCHANGED <<session_data, history, client>> /\ Running
    BY Zenon DEF ExpectedPreface, accept_preface, Opening
  <1>1. /\ dispatched' = dispatched /\ unsynced' = unsynced /\ flying' = flying /\ asked' = asked
        /\ encoder' = encoder /\ sends' = sends /\ decoder_' = decoder_ /\ pending_headers_' = pending_headers_
        /\ streams_' = streams_ /\ phase_ = "reading"
    BY <1>0, Zenon DEF session_data, history, client, Running
  <1>2. CASE Rejected
    <2>1. goaway' = "preface" /\ phase_' = "writing" /\ ~keep_alive_after_response_' /\ output' = <<Goaway>>
      BY <1>2, Zenon DEF Rejected, set_serialized_response
    <2>2. "preface" # "none"
      OBVIOUS
    <2>3. QED
      BY <1>1, <2>1, <2>2, GivenUpTold, MildOutputs, Zenon
  <1>3. CASE /\ Opening /\ request_buffer_[1].type = "preface" /\ Len(request_buffer_) > 1
             /\ request_buffer_[2].type = "settings"
             /\ request_buffer_' = after_preface(request_buffer_)
             /\ set_serialized_response(<<Notice, Notice>>, TRUE) /\ goaway' = goaway
    <2>1. output' = <<Notice, Notice>> /\ phase_' = "writing"
      BY <1>3, Zenon DEF set_serialized_response
    <2>2. goaway = "none"
      BY <1>1 DEF Told, GivenUp
    <2>3. request_buffer_ \in Seq(Frames) /\ flying \in Seq(Frames) /\ request_buffer_ # <<>>
      BY <1>3 DEF Typed, FramesOK, Opening
    <2> DEFINE rest == Tail(request_buffer_)
    <2>4. rest \in Seq(Frames) /\ rest # <<>> /\ Head(rest) = request_buffer_[2] /\ Head(request_buffer_) = request_buffer_[1]
      BY <1>3, <2>3, TwoFrames, Zenon
    <2>5. request_buffer_' = Tail(rest)
      <3>1. SubSeq(request_buffer_, 3, Len(request_buffer_)) = Tail(Tail(request_buffer_))
        BY <1>3, <2>3, TwoFrames, Zenon
      <3>2. QED
        BY <1>3, <3>1, Zenon DEF after_preface
    <2> HIDE DEF rest
    <2>6. /\ Queue \in Seq(Frames) /\ Queue # <<>> /\ Queue[1] = request_buffer_[1]
          /\ Tail(Queue) = rest \o flying
      BY <2>3, <2>4, QueueTail, Zenon DEF Queue, rest
    <2>7. /\ rest \o flying \in Seq(Frames) /\ rest \o flying # <<>> /\ (rest \o flying)[1] = request_buffer_[2]
          /\ Tail(rest \o flying) = Queue'
      BY <1>1, <2>3, <2>4, <2>5, QueueTail, Zenon DEF Queue
    <2>8. Queue[1].type \notin {"headers", "continuation", "data"}
          /\ (rest \o flying)[1].type \notin {"headers", "continuation", "data"}
      BY <1>3, <2>6, <2>7
    <2>9. AskedOK'
      BY <1>1, Zenon DEF Told, AskedOK
    <2>10. ASSUME ~unsynced PROVE Now'
      <3>1. Now
        BY <2>2, <2>10, Zenon DEF Told, InStep
      <3>2. Agrees(Tail(Queue), pending_headers_, decoder_, streams_, dispatched, encoder, Said(asked), Room(sends))
        BY <2>6, <2>8, <3>1, RoomBoolean, FramePassed, Zenon DEF Now
      <3>3. Agrees(Queue', pending_headers_, decoder_, streams_, dispatched, encoder, Said(asked), Room(sends))
        BY <2>6, <2>7, <2>8, <3>2, RoomBoolean, FramePassed, Zenon
      <3>4. QED
        BY <1>1, <3>3, Zenon DEF Now
    <2>11. phase_' # "closed"
      BY <2>1
    <2>12. QED
      BY <1>1, <1>3, <2>1, <2>2, <2>9, <2>10, <2>11, InStepTold, MildOutputs, Zenon
  <1>4. QED
    BY <1>2, <1>3, Zenon DEF ExpectedPreface, accept_preface

----------------------------------------------------------------------------
(* Frames the client adds.                                                 *)
LEMMA AgreesClient ==
    ASSUME NEW q \in Seq(Frames), NEW p, NEW d, NEW s, NEW g, NEW u, NEW b, NEW full,
           Agrees(q, p, d, s, g, u, b, full)
    PROVE  u \in ClientTables
  BY PathLater DEF Agrees

LEMMA AgreesOne ==
    ASSUME NEW q \in Seq(Frames), NEW p, NEW d, NEW s, NEW g, NEW u, NEW b,
           Agrees(q, p, d, s, g, u, b, TRUE),
           NEW f \in Frames, NEW v \in ClientTables, NEW c, Later(b, c), Carries(<<>>, f, u, v, b, c), Left(f) = <<>>
    PROVE  \A full \in BOOLEAN : Agrees(q \o <<f>>, p, d, s, g, v, c, full)
  <1>1. PICK t \in ClientTables : \E a :
          Path(q, p, t, a, u, b, TRUE) /\ Follows(t, d) /\ Held(s, a) /\ Heard(g, a)
    BY Zenon DEF Agrees
  <1>2. PICK a : Path(q, p, t, a, u, b, TRUE) /\ Follows(t, d) /\ Held(s, a) /\ Heard(g, a)
    BY <1>1, Zenon
  <1>3. PathTo(q, p, t, a, u, b, <<>>)
    BY <1>2, PathWhole, Zenon
  <1>4. PathTo(q \o <<f>>, p, t, a, v, c, <<>>)
    <2>1. PathTo(q \o <<f>>, p, t, a, v, c, Left(f))
      BY <1>3, PathExtended, Zenon
    <2>2. QED
      BY <2>1, Zenon
  <1>5. q \o <<f>> \in Seq(Frames)
    OBVIOUS
  <1>6. \A full \in BOOLEAN : Path(q \o <<f>>, p, t, a, v, c, full)
    BY <1>4, <1>5, PathWhole, Zenon
  <1>7. QED
    BY <1>2, <1>6, Zenon DEF Agrees

LEMMA AgreesTwo ==
    ASSUME NEW q \in Seq(Frames), NEW p, NEW d, NEW s, NEW g, NEW u, NEW b,
           Agrees(q, p, d, s, g, u, b, TRUE),
           NEW f \in Frames, Carries(<<>>, f, u, u, b, b),
           NEW h \in Frames, NEW v \in ClientTables, NEW c, Later(b, c), Carries(Left(f), h, u, v, b, c), Left(h) = <<>>
    PROVE  \A full \in BOOLEAN : Agrees(q \o <<f, h>>, p, d, s, g, v, c, full)
  <1>1. PICK t \in ClientTables : \E a :
          Path(q, p, t, a, u, b, TRUE) /\ Follows(t, d) /\ Held(s, a) /\ Heard(g, a)
    BY Zenon DEF Agrees
  <1>2. PICK a : Path(q, p, t, a, u, b, TRUE) /\ Follows(t, d) /\ Held(s, a) /\ Heard(g, a)
    BY <1>1, Zenon
  <1>3. PathTo(q, p, t, a, u, b, <<>>) /\ u \in ClientTables /\ Later(b, b)
    BY <1>2, PathWhole, PathLater, SameSaid, Zenon
  <1>4. q \o <<f>> \in Seq(Frames) /\ <<f>> \in Seq(Frames) /\ <<h>> \in Seq(Frames) /\ <<f, h>> = <<f>> \o <<h>>
    <2>1. <<f>> \in Seq(Frames) /\ <<h>> \in Seq(Frames) /\ <<f, h>> = <<f>> \o <<h>>
      BY Pair, Zenon
    <2>2. QED
      BY <2>1
  <1>5. PathTo(q \o <<f>>, p, t, a, u, b, Left(f))
    BY <1>3, PathExtended, Zenon
  <1>6. PathTo((q \o <<f>>) \o <<h>>, p, t, a, v, c, Left(h))
    BY <1>4, <1>5, PathExtended, Zenon
  <1>7. (q \o <<f>>) \o <<h>> = q \o <<f, h>>
    <2> DEFINE l == <<f>>
               r == <<h>>
    <2> HIDE DEF l, r
    <2>1. l \in Seq(Frames) /\ r \in Seq(Frames) /\ <<f, h>> = l \o r
      BY <1>4, Zenon DEF l, r
    <2>2. (q \o l) \o r = q \o (l \o r)
      BY <2>1, ConcatAssociative
    <2>3. QED
      BY <2>1, <2>2, Zenon DEF l, r
  <1>8. PathTo(q \o <<f, h>>, p, t, a, v, c, <<>>) /\ q \o <<f, h>> \in Seq(Frames)
    <2>1. (q \o <<f>>) \o <<h>> \in Seq(Frames)
      BY <1>4
    <2>2. QED
      BY <1>6, <1>7, <2>1, Zenon
  <1>9. \A full \in BOOLEAN : Path(q \o <<f, h>>, p, t, a, v, c, full)
    BY <1>8, PathWhole, Zenon
  <1>10. QED
    BY <1>2, <1>9, Zenon DEF Agrees

LEMMA AgreesStrays ==
    ASSUME NEW q \in Seq(Frames), NEW p, NEW d, NEW s, NEW g, NEW u, NEW b,
           Agrees(q, p, d, s, g, u, b, TRUE), NEW frames \in Strays, StraysSayNothing
    PROVE  Agrees(q \o frames, p, d, s, g, u, b, FALSE)
  <1>1. PICK t \in ClientTables : \E a :
          Path(q, p, t, a, u, b, TRUE) /\ Follows(t, d) /\ Held(s, a) /\ Heard(g, a)
    BY Zenon DEF Agrees
  <1>2. PICK a : Path(q, p, t, a, u, b, TRUE) /\ Follows(t, d) /\ Held(s, a) /\ Heard(g, a)
    BY <1>1, Zenon
  <1>3. Path(q \o frames, p, t, a, u, b, FALSE)
    BY <1>2, PathWhole, PathStrays, Zenon
  <1>4. QED
    BY <1>2, <1>3, Zenon DEF Agrees

\* Frames that say nothing.
LEMMA CarriesNothing ==
    ASSUME NEW f, f.type \notin {"headers", "continuation", "data"}, NEW t, NEW a
    PROVE  Carries(<<>>, f, t, t, a, a) /\ Left(f) = <<>>
  BY DEF Carries, Left

LEMMA AgreesAtFirst ==
    ASSUME NEW d, Follows(NewTable, d), NEW a, NEW full \in BOOLEAN
    PROVE  Agrees(<<>>, <<>>, d, <<>>, <<>>, NewTable, a, full)
  <1>1. NewTable \in ClientTables
    <2> DEFINE t == NewTable
    <2>1. t \in Tables /\ Fits(t)
      BY NewTableOK
    <2>2. t.max <= DefaultTableSize
      BY HpackAssumption DEF NewTable
    <2>3. QED
      BY <2>1, <2>2 DEF ClientTables
  <1>2. <<>> \in Seq(Frames)
    BY NoStreams
  <1>3. Path(<<>>, <<>>, NewTable, a, NewTable, a, full)
    BY <1>1, <1>2, PathHere, PathWhole, Zenon
  <1>4. Held(<<>>, a) /\ Heard(<<>>, a)
    BY NoStreams DEF Held, Heard
  <1>5. QED
    BY <1>1, <1>3, <1>4, Zenon DEF Agrees

LEMMA AgreesNone ==
    ASSUME NEW d, NEW s, NEW g, NEW u, NEW b, NEW full, Agrees(<<>>, <<>>, d, s, g, u, b, full)
    PROVE  Agrees(<<>>, <<>>, d, s, g, u, b, TRUE)
  <1>1. Len(<<>>) = 0 /\ Before(<<>>, <<>>, 0 + 1) = <<>> /\ 0 \in 0 .. 0 /\ \A k \in 0 .. 0 : k = 0
    BY DEF Before
  <1>2. ASSUME NEW t, NEW a, Path(<<>>, <<>>, t, a, u, b, full) PROVE Path(<<>>, <<>>, t, a, u, b, TRUE)
    BY <1>1, <1>2, Zenon DEF Path
  <1>3. QED
    BY <1>2, Zenon DEF Agrees

LEMMA AgreesOpened ==
    ASSUME NEW d, NEW s, NEW g, NEW u, NEW b, NEW full, Agrees(<<>>, <<>>, d, s, g, u, b, full),
           NEW opening \in Openings, NEW after \in BOOLEAN
    PROVE  Agrees(opening, <<>>, d, s, g, u, b, after)
  <1> DEFINE preface == Frame("preface", 0)
             settings == Frame("settings", 0)
             ping == Frame("ping", 0)
             http1 == Frame("http1", 0)
  <1>1. /\ preface \in Frames /\ settings \in Frames /\ ping \in Frames /\ http1 \in Frames
    BY FrameTyped, TypesOfFrames
  <1>2. preface.type = "preface" /\ settings.type = "settings" /\ ping.type = "ping" /\ http1.type = "http1"
    BY DEF Frame
  <1>3. opening \in {<<preface, settings>>, <<preface, ping>>, <<http1>>}
    BY Zenon DEF Openings, ProperOpening
  <1> HIDE DEF preface, settings, ping, http1
  <1>4. Agrees(<<>>, <<>>, d, s, g, u, b, TRUE) /\ <<>> \in Seq(Frames)
    BY AgreesNone, NoStreams, Zenon
  <1>5. u \in ClientTables /\ Later(b, b)
    BY <1>4, AgreesClient, SameSaid, Zenon
  <1>6. ASSUME NEW f \in Frames, f.type \notin {"headers", "continuation", "data"}
        PROVE  Agrees(<<f>>, <<>>, d, s, g, u, b, after)
    <2>1. Carries(<<>>, f, u, u, b, b) /\ Left(f) = <<>>
      BY <1>6, CarriesNothing, Zenon
    <2>2. Agrees(<<>> \o <<f>>, <<>>, d, s, g, u, b, after)
      BY <1>4, <1>5, <2>1, AgreesOne, Zenon
    <2>3. <<>> \o <<f>> = <<f>>
      OBVIOUS
    <2>4. QED
      BY <2>2, <2>3, Zenon
  <1>7. ASSUME NEW f \in Frames, f.type \notin {"headers", "continuation", "data"},
               NEW h \in Frames, h.type \notin {"headers", "continuation", "data"}
        PROVE  Agrees(<<f, h>>, <<>>, d, s, g, u, b, after)
    <2>1. Carries(<<>>, f, u, u, b, b) /\ Left(f) = <<>> /\ Carries(<<>>, h, u, u, b, b) /\ Left(h) = <<>>
      BY <1>7, CarriesNothing, Zenon
    <2>2. Carries(Left(f), h, u, u, b, b)
      BY <2>1, Zenon
    <2>3. Agrees(<<>> \o <<f, h>>, <<>>, d, s, g, u, b, after)
      BY <1>4, <1>5, <2>1, <2>2, AgreesTwo, Zenon
    <2>4. <<>> \o <<f, h>> = <<f, h>>
      <3>1. <<f, h>> \in Seq(Frames)
        OBVIOUS
      <3>2. QED
        BY <3>1, ConcatEmptySeq, Zenon
    <2>5. QED
      BY <2>3, <2>4, Zenon
  <1>8. /\ preface.type \notin {"headers", "continuation", "data"}
        /\ settings.type \notin {"headers", "continuation", "data"}
        /\ ping.type \notin {"headers", "continuation", "data"}
        /\ http1.type \notin {"headers", "continuation", "data"}
    BY <1>2
  <1>9. QED
    BY <1>1, <1>3, <1>6, <1>7, <1>8, Zenon

LEMMA NothingSaid ==
    [id \in Streams |-> NothingAsked] \in [Streams -> Saying]
  BY DEF NothingAsked, Saying

LEMMA FollowsAtFirst ==
    ASSUME NEW d \in Tables, ~(d.max < DefaultTableSize)
    PROVE  Follows(NewTable, reset_decoder(d))
  <1> DEFINE r == reset_decoder(d)
  <1>1. r.entries = <<>> /\ r.max = d.max /\ d.max \in Nat /\ DefaultTableSize \in Nat
    BY HpackAssumption DEF reset_decoder, Tables
  <1>2. NewTable.max = DefaultTableSize /\ NewTable.entries = <<>>
    BY DEF NewTable
  <1> HIDE DEF r
  <1>3. Len(NewTable.entries) = 0 /\ Len(r.entries) = 0
    BY <1>1, <1>2
  <1>4. QED
    BY <1>1, <1>2, <1>3 DEF Follows, r

LEMMA CloseTold ==
    ASSUME Typed, Typed', close_now
    PROVE  Told'
  <1>1. /\ phase_' = "closed" /\ goaway' = "none" /\ output' = <<>> /\ request_buffer_' = <<>> /\ flying' = <<>>
        /\ pending_headers_' = <<>> /\ streams_' = <<>> /\ dispatched' = <<>> /\ encoder' = NewTable
        /\ decoder_' = reset_decoder(decoder_) /\ unsynced' = (decoder_.max < DefaultTableSize)
        /\ asked' = [id \in Streams |-> NothingAsked]
    BY Zenon DEF close_now
  <1>2. AskedOK'
    BY <1>1, NothingSaid, Zenon DEF AskedOK
  <1>3. GivenUp' /\ Emptied'
    BY <1>1, Zenon DEF GivenUp, Emptied
  <1>4. Queue' = <<>>
    <2>1. <<>> \o <<>> = <<>>
      OBVIOUS
    <2>2. QED
      BY <1>1, <2>1, Zenon DEF Queue
  <1>5. Truthful'
    BY <1>1, MildOutputs, NoStreams DEF Truthful, Heard
  <1>6. ASSUME ~unsynced' PROVE Now'
    <2>1. Follows(NewTable, decoder_')
      BY <1>1, <1>6, FollowsAtFirst, Zenon DEF Typed, DecoderOK
    <2>2. QED
      BY <1>1, <1>4, <2>1, AgreesAtFirst, RoomBoolean, Zenon DEF Now
  <1>7. QED
    BY <1>2, <1>3, <1>5, <1>6, Zenon DEF Told, InStep

LEMMA InitTold == Init => Told
  <1> SUFFICES ASSUME Init PROVE Told
    OBVIOUS
  <1>1. /\ phase_ = "reading" /\ goaway = "none" /\ output = <<>> /\ request_buffer_ = <<>> /\ flying \in Openings
        /\ pending_headers_ = <<>> /\ streams_ = <<>> /\ dispatched = <<>> /\ encoder = NewTable
        /\ decoder_ = NewTable /\ asked = [id \in Streams |-> NothingAsked]
    BY Zenon DEF Init
  <1>2. AskedOK
    BY <1>1, NothingSaid, Zenon DEF AskedOK
  <1>3. GivenUp /\ Emptied
    BY <1>1 DEF GivenUp, Emptied
  <1>4. Truthful
    BY <1>1, MildOutputs, NoStreams DEF Truthful, Heard
  <1>5. Follows(NewTable, NewTable)
    <2>1. reset_decoder(NewTable) = NewTable /\ NewTable.max = DefaultTableSize
      BY DEF reset_decoder, NewTable
    <2>2. ~(NewTable.max < DefaultTableSize)
      BY <2>1, HpackAssumption
    <2>3. QED
      BY <2>1, <2>2, NewTableOK, FollowsAtFirst, Zenon
  <1>6. Queue = flying
    <2>1. flying \in Seq(Frames)
      BY <1>1, OpeningTyped, Zenon
    <2>2. QED
      BY <1>1, <2>1, ConcatEmptySeq, Zenon DEF Queue
  <1>7. Now
    <2>1. Agrees(<<>>, <<>>, NewTable, <<>>, <<>>, NewTable, Said(asked), TRUE)
      BY <1>5, AgreesAtFirst, Zenon
    <2>2. Agrees(flying, <<>>, NewTable, <<>>, <<>>, NewTable, Said(asked), Room(sends))
      BY <1>1, <2>1, AgreesOpened, RoomBoolean, Zenon
    <2>3. QED
      BY <1>1, <1>6, <2>2, Zenon DEF Now
  <1>8. QED
    BY <1>2, <1>3, <1>4, <1>7, Zenon DEF Told, InStep

\* Nothing is said or taken.
LEMMA SameTold ==
    ASSUME Typed', Told, AskedOK', Said(asked') = Said(asked), Queue' = Queue,
           UNCHANGED <<decoder_, pending_headers_, streams_, dispatched, unsynced, encoder, sends, goaway>>,
           goaway = "none", phase_' # "closed", Mild(output') \/ output' = output
    PROVE  Told'
  <1>1. ASSUME ~unsynced' PROVE Mild(output') /\ Now'
    <2>1. Now /\ Mild(output)
      BY <1>1, Zenon DEF Told, InStep, Truthful
    <2>2. QED
      BY <2>1, Zenon DEF Now
  <1>2. QED
    BY <1>1, InStepTold, Zenon

LEMMA ServerTold ==
    ASSUME Typed, Typed', Told, ServerStep
    PROVE  Told'
  <1>1. CASE need_more
    <2>1. /\ phase_ = "reading" /\ UNCHANGED <<phase_, output, goaway, request_buffer_, session, history, client>>
      BY <1>1, Zenon DEF need_more, Running
    <2>2. /\ UNCHANGED <<decoder_, pending_headers_, streams_, dispatched, unsynced, encoder, sends, goaway>>
          /\ asked' = asked /\ Queue' = Queue
      BY <2>1, Zenon DEF session, session_data, history, client, Queue
    <2>3. goaway = "none" /\ phase_' # "closed"
      BY <2>1 DEF Told, GivenUp
    <2>4. AskedOK'
      BY <2>2, Zenon DEF Told, AskedOK
    <2>5. QED
      BY <2>1, <2>2, <2>3, <2>4, SameTold, Zenon
  <1>2. CASE frame_buffer_exceeded \/ invalid_frame \/ expected_continuation \/ handle_push_promise
    <2>1. asked' = asked /\ unsynced' = unsynced /\ (fail_connection("calm") \/ fail_connection("protocol"))
      BY <1>2, Zenon DEF frame_buffer_exceeded, invalid_frame, expected_continuation,
                    handle_push_promise, AtFrameBoundary, Taking, client
    <2>2. QED
      BY <2>1, FailTold
  <1>3. CASE handle_goaway
    BY <1>3, CloseTold, Zenon DEF handle_goaway
  <1>4. QED
    BY <1>1, <1>2, <1>3, PrefaceTold, ControlTold, HeadersTold, ContinuationTold, DataTold, Zenon DEF ServerStep

LEMMA Dropped ==
    ASSUME NEW r \in Saying, NEW x \in BOOLEAN
    PROVE  [r EXCEPT !.dropped = x] \in Saying /\ SaidOn([r EXCEPT !.dropped = x]) = SaidOn(r)
  <1> DEFINE e == [r EXCEPT !.dropped = x]
  <1>1. e \in Saying /\ e.fields = r.fields /\ e.data = r.data /\ e.begun = r.begun /\ e.ended = r.ended
    BY DEF Saying
  <1> HIDE DEF e
  <1>2. SaidOn(e) = SaidOn(r)
    BY <1>1, Zenon DEF SaidOn
  <1>3. QED
    BY <1>1, <1>2, Zenon DEF e

LEMMA WriteTold ==
    ASSUME Typed, Typed', Told, write_response
    PROVE  Told'
  <1>1. /\ phase_ = "writing" /\ keep_alive_after_response_ /\ output' = <<>> /\ phase_' = "reading"
        /\ UNCHANGED <<goaway, request_buffer_, session, history, flying, sends, encoder>>
    BY Zenon DEF write_response, finish_response
  <1>2. /\ UNCHANGED <<decoder_, pending_headers_, streams_, dispatched, unsynced, encoder, sends, goaway>>
        /\ Queue' = Queue
    BY <1>1, Zenon DEF session, session_data, history, Queue
  <1>3. goaway = "none" /\ phase_' # "closed"
    BY <1>1 DEF Told, GivenUp
  <1> DEFINE lost(id) == asked[id].dropped \/ Answered(id) # answered[id]
             now(id) == [asked[id] EXCEPT !.dropped = lost(id)]
  <1>4. asked' = [id \in Streams |-> now(id)]
    BY Zenon DEF write_response
  <1>5. asked \in [Streams -> Saying]
    BY Zenon DEF Told, AskedOK
  <1>6. ASSUME NEW id \in Streams PROVE now(id) \in Saying /\ SaidOn(now(id)) = SaidOn(asked[id])
    <2>1. asked[id] \in Saying
      BY <1>5
    <2>2. lost(id) \in BOOLEAN
      OBVIOUS
    <2> HIDE DEF lost
    <2>3. QED
      BY <2>1, <2>2, Dropped, Zenon
  <1> HIDE DEF now
  <1>7. AskedOK'
    BY <1>4, <1>6 DEF AskedOK
  <1>8. Said(asked') = Said(asked)
    <2>1. \A id \in Streams : SaidOn(asked'[id]) = SaidOn(asked[id])
      BY <1>4, <1>6
    <2>2. QED
      BY <2>1, Zenon DEF Said
  <1>9. QED
    BY <1>1, <1>2, <1>3, <1>7, <1>8, SameTold, MildOutputs, Zenon

LEMMA ReceiveTold ==
    ASSUME Typed, Typed', Told, NEW n \in DOMAIN flying, Receive(n)
    PROVE  Told'
  <1>1. /\ phase_ = "reading" /\ phase_' = phase_ /\ output' = output
        /\ request_buffer_' = request_buffer_ \o SubSeq(flying, 1, n)
        /\ flying' = SubSeq(flying, n + 1, Len(flying))
        /\ UNCHANGED <<goaway, session, history, sends, asked, encoder>>
    BY Zenon DEF Receive
  <1>2. UNCHANGED <<decoder_, pending_headers_, streams_, dispatched, unsynced, encoder, sends, goaway>>
        /\ asked' = asked
    BY <1>1, Zenon DEF session, session_data, history
  <1>3. goaway = "none" /\ phase_' # "closed"
    BY <1>1 DEF Told, GivenUp
  <1>4. AskedOK'
    BY <1>2, Zenon DEF Told, AskedOK
  <1>5. Queue' = Queue
    <2> DEFINE a == SubSeq(flying, 1, n)
               b == SubSeq(flying, n + 1, Len(flying))
    <2>0. request_buffer_ \in Seq(Frames) /\ flying \in Seq(Frames)
      BY DEF Typed, FramesOK
    <2>1. n \in 1 .. Len(flying) /\ Len(flying) \in Nat
      BY <2>0
    <2>2. a \in Seq(Frames) /\ b \in Seq(Frames)
      BY <2>0, <2>1
    <2>3. a \o b = flying
      <3>1. 1 \in 1 .. Len(flying) + 1 /\ n \in 1 - 1 .. Len(flying) /\ Len(flying) \in n .. Len(flying)
        BY <2>1
      <3>2. a \o b = SubSeq(flying, 1, Len(flying))
        BY <2>0, <3>1, ConcatAdjacentSubSeq
      <3>3. QED
        BY <2>0, <3>2, SubSeqFull
    <2> HIDE DEF a, b
    <2>4. (request_buffer_ \o a) \o b = request_buffer_ \o (a \o b)
      BY <2>0, <2>2, ConcatAssociative, SMTT(30)
    <2>5. QED
      BY <1>1, <2>3, <2>4, Zenon DEF Queue, a, b
  <1>6. QED
    BY <1>1, <1>2, <1>3, <1>4, <1>5, SameTold, Zenon

LEMMA AcquireTold ==
    ASSUME Typed, Typed', Told, acquire
    PROVE  Told'
  <1>1. /\ phase_ = "closed" /\ phase_' = "reading" /\ flying' \in Openings /\ output' = output
        /\ UNCHANGED <<goaway, request_buffer_, session, history, asked, encoder>>
    BY Zenon DEF acquire
  <1>2. UNCHANGED <<decoder_, pending_headers_, streams_, dispatched, unsynced, encoder, goaway>>
        /\ asked' = asked /\ request_buffer_' = request_buffer_
    BY <1>1, Zenon DEF session, session_data, history
  <1>3. /\ request_buffer_ = <<>> /\ flying = <<>> /\ pending_headers_ = <<>>
    BY <1>1, Zenon DEF Told, Emptied
  <1>4. goaway = "none" /\ phase_' # "closed"
    BY <1>1 DEF Told, GivenUp
  <1>5. AskedOK'
    BY <1>2, Zenon DEF Told, AskedOK
  <1>6. Queue = <<>> /\ Queue' = flying'
    <2>1. flying' \in Seq(Frames) /\ <<>> \o <<>> = <<>>
      BY <1>1, OpeningTyped
    <2>2. <<>> \o flying' = flying'
      BY <2>1, ConcatEmptySeq
    <2>3. QED
      BY <1>2, <1>3, <2>1, <2>2, Zenon DEF Queue
  <1>7. ASSUME ~unsynced' PROVE Mild(output') /\ Now'
    <2>1. Now /\ Mild(output)
      BY <1>2, <1>4, <1>7, Zenon DEF Told, InStep, Truthful
    <2>2. Agrees(<<>>, <<>>, decoder_, streams_, dispatched, encoder, Said(asked), Room(sends))
      BY <1>3, <1>6, <2>1, Zenon DEF Now
    <2>3. Agrees(flying', <<>>, decoder_, streams_, dispatched, encoder, Said(asked), Room(sends'))
      BY <1>1, <2>2, AgreesOpened, RoomBoolean, Zenon
    <2>4. QED
      BY <1>1, <1>2, <1>3, <1>6, <2>1, <2>3, Zenon DEF Now
  <1>8. QED
    BY <1>2, <1>4, <1>5, <1>7, InStepTold, Zenon

LEMMA ExpireTold ==
    ASSUME Told, expire_cut_frame
    PROVE  Told'
  <1>1. /\ goaway' = "timeout" /\ phase_' = "writing" /\ ~keep_alive_after_response_'
        /\ (output' = <<Goaway>> \/ output' = <<Timeout>>) /\ UNCHANGED <<history, client>>
    BY Zenon DEF expire_cut_frame, set_serialized_response
  <1>2. asked' = asked /\ dispatched' = dispatched /\ unsynced' = unsynced
    BY <1>1, Zenon DEF history, client
  <1>3. goaway' # "none"
    BY <1>1
  <1>4. QED
    BY <1>1, <1>2, <1>3, GivenUpTold, MildOutputs, Zenon

Flag(x) == x \in BOOLEAN
Put(m, id, r) == [m EXCEPT ![id] = r]
More(r, n, end_stream) == [r EXCEPT !.data = r.data + n, !.ended = end_stream]
Over(r) == [r EXCEPT !.ended = TRUE]

LEMMA SaidChanged ==
    ASSUME NEW m \in [Streams -> Saying], NEW id \in Streams, NEW r \in Saying, NEW m2, m2 = Put(m, id, r)
    PROVE  /\ m2 \in [Streams -> Saying] /\ Only(Said(m), Said(m2), id)
           /\ Said(m)[id].begun = m[id].begun /\ Said(m)[id].fields = m[id].fields
           /\ Said(m)[id].data = m[id].data /\ Said(m)[id].ended = m[id].ended
           /\ Said(m2)[id].begun = r.begun /\ Said(m2)[id].fields = r.fields
           /\ Said(m2)[id].data = r.data /\ Said(m2)[id].ended = r.ended
  <1>1. m2 \in [Streams -> Saying] /\ m2[id] = r /\ \A other \in Streams : other # id => m2[other] = m[other]
    BY DEF Put
  <1>2. \A other \in Streams : Said(m)[other] = SaidOn(m[other]) /\ Said(m2)[other] = SaidOn(m2[other])
    BY DEF Said
  <1>3. Only(Said(m), Said(m2), id)
    BY <1>1, <1>2, Zenon DEF Only
  <1>4. \A x : SaidOn(x).begun = x.begun /\ SaidOn(x).fields = x.fields /\ SaidOn(x).data = x.data /\ SaidOn(x).ended = x.ended
    BY DEF SaidOn
  <1>5. Said(m)[id] = SaidOn(m[id]) /\ Said(m2)[id] = SaidOn(r)
    BY <1>1, <1>2, Zenon
  <1>6. QED
    BY <1>1, <1>3, <1>4, <1>5, Zenon

LEMMA SayingMore ==
    ASSUME NEW r \in Saying, NEW n \in Nat, NEW end_stream, Flag(end_stream)
    PROVE  /\ More(r, n, end_stream) \in Saying /\ More(r, n, end_stream).begun = r.begun
           /\ More(r, n, end_stream).fields = r.fields /\ More(r, n, end_stream).data = r.data + n
           /\ More(r, n, end_stream).ended = end_stream
  <1>1. r.data + n \in Nat
    BY DEF Saying
  <1>2. QED
    BY <1>1 DEF Saying, More, Flag

LEMMA SayingOver ==
    ASSUME NEW r \in Saying
    PROVE  /\ Over(r) \in Saying /\ Over(r).begun = r.begun /\ Over(r).fields = r.fields
           /\ Over(r).data = r.data /\ Over(r).ended = TRUE
  BY DEF Saying, Over

LEMMA AskingEdit ==
    ASSUME NEW field \in Fields, NEW end_stream, Flag(end_stream)
    PROVE  LET e == [NothingAsked EXCEPT !.fields = <<field>>, !.begun = TRUE, !.ended = end_stream]
           IN  /\ e \in Saying /\ e.begun = TRUE /\ e.fields = <<field>> /\ e.data = 0 /\ e.ended = end_stream
  <1> DEFINE r == NothingAsked
  <1>1. r \in Saying /\ r.data = 0
    BY DEF NothingAsked, Saying
  <1>2. <<field>> \in Seq(Fields)
    OBVIOUS
  <1> HIDE DEF r
  <1>3. LET e == [r EXCEPT !.fields = <<field>>, !.begun = TRUE, !.ended = end_stream]
        IN  /\ e \in Saying /\ e.begun = TRUE /\ e.fields = <<field>> /\ e.data = 0 /\ e.ended = end_stream
    BY <1>1, <1>2 DEF Saying, Flag
  <1>4. QED
    BY <1>3, Zenon DEF r

\* A header block in one frame or in two.
LEMMA BlockSent ==
    ASSUME NEW q \in Seq(Frames), NEW p, NEW d, NEW s, NEW g, NEW u, NEW b,
           Agrees(q, p, d, s, g, u, b, TRUE), NEW id \in Streams, NEW end_stream, Flag(end_stream),
           NEW block \in Seq(Instructions), Len(block) > 0, NEW v \in ClientTables, NEW c,
           Says(id, end_stream, block, u, v, b, c), NEW frames \in HeaderFrames(id, block, end_stream),
           NEW full \in BOOLEAN
    PROVE  Agrees(q \o frames, p, d, s, g, v, c, full)
  <1> DEFINE frame == [Frame("headers", id) EXCEPT !.end_stream = end_stream]
             whole == [frame EXCEPT !.block = block]
             first == [frame EXCEPT !.block = Front(block), !.end_headers = FALSE]
             second == [Frame("continuation", id) EXCEPT !.block = <<Last(block)>>]
  <1>1. Frame("headers", id) \in Frames /\ Frame("continuation", id) \in Frames
    <2>1. "headers" \in FrameTypes /\ "continuation" \in FrameTypes /\ id \in Ids
      BY TypesOfFrames, StreamsAreOdd
    <2>2. QED
      BY <2>1, FrameTyped, Zenon
  <1>2. /\ Frame("headers", id).type = "headers" /\ Frame("headers", id).id = id /\ Frame("headers", id).end_headers = TRUE
        /\ Frame("headers", id).bad_padding = FALSE
        /\ Frame("continuation", id).type = "continuation" /\ Frame("continuation", id).end_headers = TRUE
    BY DEF Frame
  <1>3. /\ Front(block) \in Seq(Instructions) /\ <<Last(block)>> \in Seq(Instructions)
        /\ Front(block) \o <<Last(block)>> = block
    BY DEF Front, Last
  <1>4. /\ frame \in Frames /\ frame.type = "headers" /\ frame.id = id /\ frame.end_headers = TRUE
        /\ frame.bad_padding = FALSE /\ frame.end_stream = end_stream
    BY <1>1, <1>2 DEF Frames, Flag
  <1> HIDE DEF frame
  <1>5. /\ whole \in Frames /\ whole.type = "headers" /\ whole.id = id /\ whole.end_headers = TRUE
        /\ whole.bad_padding = FALSE /\ whole.end_stream = end_stream /\ whole.block = block
    BY <1>4 DEF Frames
  <1>6. /\ first \in Frames /\ first.type = "headers" /\ first.id = id /\ first.end_headers = FALSE
        /\ first.bad_padding = FALSE /\ first.end_stream = end_stream /\ first.block = Front(block)
    BY <1>3, <1>4 DEF Frames
  <1>7. /\ second \in Frames /\ second.type = "continuation" /\ second.end_headers = TRUE
        /\ second.block = <<Last(block)>>
    BY <1>1, <1>2, <1>3 DEF Frames
  <1>8. frames = <<whole>> \/ frames = <<first, second>>
    BY Zenon DEF HeaderFrames, frame
  <1> HIDE DEF whole, first, second
  <1>9. Later(b, c)
    BY SaysLater, Zenon
  <1>10. Carries(<<>>, whole, u, v, b, c) /\ Left(whole) = <<>>
    BY <1>5 DEF Carries, Left
  <1>11. Carries(<<>>, first, u, u, b, b) /\ Left(first) = <<Part(first)>>
    BY <1>6 DEF Carries, Left
  <1>12. Carries(Left(first), second, u, v, b, c) /\ Left(second) = <<>>
    <2> DEFINE o == Part(first)
    <2>1. o.id = id /\ o.end_stream = end_stream /\ o.block = Front(block)
      BY <1>6 DEF Part
    <2> HIDE DEF o
    <2>2. <<o>> # <<>> /\ <<o>>[1] = o
      OBVIOUS
    <2>3. Says(<<o>>[1].id, <<o>>[1].end_stream, <<o>>[1].block \o second.block, u, v, b, c)
      BY <1>3, <1>7, <2>1, <2>2, Zenon
    <2>4. Carries(<<o>>, second, u, v, b, c)
      BY <1>7, <2>2, <2>3 DEF Carries
    <2>5. Left(second) = <<>>
      BY <1>7 DEF Left
    <2>6. QED
      BY <1>11, <2>4, <2>5, Zenon DEF o
  <1>13. CASE frames = <<whole>>
    BY <1>5, <1>9, <1>10, <1>13, AgreesOne, Zenon
  <1>14. CASE frames = <<first, second>>
    BY <1>6, <1>7, <1>9, <1>11, <1>12, <1>14, AgreesTwo, Zenon
  <1>15. QED
    BY <1>8, <1>13, <1>14

LEMMA FollowsItself ==
    ASSUME NEW t \in ClientTables
    PROVE  t \in Tables /\ Follows(t, t)
  <1>1. t \in Tables
    BY DEF ClientTables
  <1>2. t.max \in Nat /\ Len(t.entries) \in Nat
    BY <1>1 DEF Tables
  <1>3. QED
    BY <1>1, <1>2 DEF Follows

LEMMA SendTold ==
    ASSUME Typed, Typed', Told, NEW frames \in Seq(Frames), Send(frames), AskedOK',
           Agrees(Queue, pending_headers_, decoder_, streams_, dispatched, encoder, Said(asked), TRUE)
             => Agrees(Queue \o frames, pending_headers_, decoder_, streams_, dispatched, encoder',
                       Said(asked'), Room(sends'))
    PROVE  Told'
  <1>1. /\ (phase_ = "reading" \/ (phase_ = "writing" /\ keep_alive_after_response_)) /\ sends < MaxSends
        /\ flying' = flying \o frames /\ UNCHANGED <<connection, request_buffer_, session, history>>
    BY Zenon DEF Send
  <1>2. /\ UNCHANGED <<decoder_, pending_headers_, streams_, dispatched, unsynced, goaway>>
        /\ phase_' = phase_ /\ output' = output /\ request_buffer_' = request_buffer_
    BY <1>1, Zenon DEF connection, session, session_data, history
  <1>3. goaway = "none" /\ phase_' # "closed"
    BY <1>1, <1>2 DEF Told, GivenUp
  <1>4. Queue' = Queue \o frames
    <2>1. request_buffer_ \in Seq(Frames) /\ flying \in Seq(Frames)
      BY DEF Typed, FramesOK
    <2>2. (request_buffer_ \o flying) \o frames = request_buffer_ \o (flying \o frames)
      BY <2>1, ConcatAssociative
    <2>3. QED
      BY <1>1, <1>2, <2>2, Zenon DEF Queue
  <1>5. Room(sends) = TRUE
    BY <1>1 DEF Room
  <1>6. ASSUME ~unsynced' PROVE Mild(output') /\ Now'
    <2>1. Now /\ Mild(output)
      BY <1>2, <1>3, <1>6, Zenon DEF Told, InStep, Truthful
    <2>2. Agrees(Queue \o frames, pending_headers_, decoder_, streams_, dispatched, encoder',
                 Said(asked'), Room(sends'))
      BY <1>5, <2>1, Zenon DEF Now
    <2>3. QED
      BY <1>2, <1>4, <2>1, <2>2, Zenon DEF Now
  <1>7. QED
    BY <1>2, <1>3, <1>6, InStepTold, Zenon

\* A request of the client's in the frames that carry it.
Carried(id, end_stream, block, frames, u, v, b, c) ==
    /\ id \in Streams /\ Flag(end_stream) /\ block \in Seq(Instructions) /\ Len(block) > 0
    /\ v \in ClientTables /\ Says(id, end_stream, block, u, v, b, c)
    /\ frames \in HeaderFrames(id, block, end_stream)

LEMMA CarriedAgrees ==
    ASSUME NEW q \in Seq(Frames), NEW p, NEW d, NEW s, NEW g, NEW u, NEW b,
           Agrees(q, p, d, s, g, u, b, TRUE), NEW full \in BOOLEAN, NEW v, NEW c, NEW frames, NEW id,
           NEW end_stream, NEW block, Carried(id, end_stream, block, frames, u, v, b, c)
    PROVE  Agrees(q \o frames, p, d, s, g, v, c, full)
  <1>1. /\ id \in Streams /\ Flag(end_stream) /\ block \in Seq(Instructions) /\ Len(block) > 0
        /\ v \in ClientTables /\ Says(id, end_stream, block, u, v, b, c)
        /\ frames \in HeaderFrames(id, block, end_stream)
    BY Zenon DEF Carried
  <1>2. QED
    BY <1>1, BlockSent, Zenon

LEMMA RequestTold ==
    ASSUME Typed, Typed', Told, NEW id \in Streams, NEW field \in Fields \ BadFields, NEW end_stream,
           Flag(end_stream), ClientRequests(id, field, end_stream)
    PROVE  Told'
  <1>a. asked \in [Streams -> Saying] /\ Queue \in Seq(Frames) /\ asked[id] \in Saying
    BY DEF Told, AskedOK, Typed, FramesOK, Queue
  <1> DEFINE Whole == Agrees(Queue, pending_headers_, decoder_, streams_, dispatched, encoder, Said(asked), TRUE)
  <1>b. Whole => encoder \in ClientTables
    BY <1>a, AgreesClient, Zenon
  <1>1. PICK e \in Encodings(encoder, field) : \E frames \in HeaderFrames(id, e[1], end_stream) :
          Sends(frames) /\ encoder' = e[2]
    BY Zenon DEF ClientRequests
  <1>2. PICK frames \in HeaderFrames(id, e[1], end_stream) : Sends(frames) /\ encoder' = e[2]
    BY <1>1, Zenon
  <1>3. e[1] \in Seq(Instructions) /\ Len(e[1]) > 0
    BY EncodingsTyped DEF Typed, ClientOK
  <1>4. frames \in Seq(Frames)
    BY <1>3, HeaderFramesTyped DEF Flag
  <1> DEFINE r == [NothingAsked EXCEPT !.fields = <<field>>, !.begun = TRUE, !.ended = end_stream]
  <1>5. r \in Saying /\ r.begun = TRUE /\ r.fields = <<field>> /\ r.data = 0 /\ r.ended = end_stream
    BY AskingEdit
  <1>6. asked' = Put(asked, id, r) /\ (asked[id].begun <=> id < id)
    BY Zenon DEF ClientRequests, Put
  <1> HIDE DEF r
  <1>7. ~asked[id].begun
    BY <1>6, StreamsAreOdd
  <1>8. /\ asked' \in [Streams -> Saying] /\ Only(Said(asked), Said(asked'), id)
        /\ Said(asked)[id].begun = asked[id].begun
        /\ Said(asked')[id].begun = r.begun /\ Said(asked')[id].fields = r.fields
        /\ Said(asked')[id].data = r.data /\ Said(asked')[id].ended = r.ended
    <2>1. asked \in [Streams -> Saying] /\ r \in Saying /\ asked' = Put(asked, id, r)
      BY <1>a, <1>5, <1>6
    <2>2. QED
      BY <2>1, SaidChanged
  <1>9. Asks(field, end_stream, id, Said(asked), Said(asked'))
    BY <1>5, <1>7, <1>8 DEF Asks
  <1>10. Says(id, end_stream, e[1], encoder, encoder', Said(asked), Said(asked'))
    BY <1>2, <1>8, <1>9, Zenon DEF Says
  <1>11. ASSUME Whole
         PROVE  Agrees(Queue \o frames, pending_headers_, decoder_, streams_, dispatched, encoder',
                       Said(asked'), Room(sends'))
    <2>1. encoder \in Tables /\ Follows(encoder, encoder) /\ encoder \in ClientTables
      BY <1>b, <1>11, FollowsItself, Zenon
    <2>2. encoder' \in ClientTables
      BY <1>2, <2>1, EncodingDecoded
    <2>3. Carried(id, end_stream, e[1], frames, encoder, encoder', Said(asked), Said(asked'))
      BY <1>2, <1>3, <1>10, <2>2, Zenon DEF Carried
    <2>4. Room(sends') \in BOOLEAN
      BY RoomBoolean
    <2>5. QED
      BY <1>a, <1>11, <2>3, <2>4, CarriedAgrees, Zenon
  <1>12. Send(frames) /\ AskedOK'
    BY <1>2, <1>8, Zenon DEF Sends, AskedOK
  <1>13. QED
    BY <1>4, <1>11, <1>12, SendTold, Zenon

LEMMA DataSentTold ==
    ASSUME Typed, Typed', Told, NEW id \in Streams, NEW n \in DataSizes, NEW padding \in PaddingSizes,
           NEW end_stream, Flag(end_stream), ClientSendsData(id, n, padding, end_stream)
    PROVE  Told'
  <1>a. asked \in [Streams -> Saying] /\ Queue \in Seq(Frames) /\ asked[id] \in Saying
    BY DEF Told, AskedOK, Typed, FramesOK, Queue
  <1> DEFINE Whole == Agrees(Queue, pending_headers_, decoder_, streams_, dispatched, encoder, Said(asked), TRUE)
  <1>b. Whole => encoder \in ClientTables
    BY <1>a, AgreesClient, Zenon
  <1> DEFINE frame == [Frame("data", id) EXCEPT !.data = n, !.padding = padding, !.end_stream = end_stream]
  <1>1. n \in Nat /\ padding \in Nat
    BY SessionAssumption
  <1>2. frame \in Frames /\ frame.data = n /\ frame.type = "data" /\ frame.id = id /\ frame.end_stream = end_stream
    <2>1. Frame("data", id) \in Frames /\ Frame("data", id).type = "data" /\ Frame("data", id).id = id
      BY FrameTyped, TypesOfFrames, StreamsAreOdd DEF Frame
    <2>2. QED
      BY <1>1, <2>1 DEF Frames, Flag
  <1>3. Send(<<frame>>) /\ encoder' = encoder /\ asked[id].begun /\ ~asked[id].ended
    BY Zenon DEF ClientSendsData, Sends, Sending
  <1> DEFINE r == More(asked[id], n, end_stream)
  <1>4. asked' = Put(asked, id, r)
    <2>1. asked' = [asked EXCEPT ![id].data = asked[id].data + n, ![id].ended = end_stream]
      BY Zenon DEF ClientSendsData
    <2>2. QED
      BY <1>a, <2>1 DEF More, Put
  <1>5. /\ r \in Saying /\ r.begun = asked[id].begun /\ r.fields = asked[id].fields
        /\ r.data = asked[id].data + n /\ r.ended = end_stream
    BY <1>a, <1>1, SayingMore
  <1> HIDE DEF r, frame
  <1>6. /\ asked' \in [Streams -> Saying] /\ Only(Said(asked), Said(asked'), id)
        /\ Said(asked)[id].begun = asked[id].begun /\ Said(asked)[id].fields = asked[id].fields
        /\ Said(asked)[id].data = asked[id].data /\ Said(asked)[id].ended = asked[id].ended
        /\ Said(asked')[id].begun = r.begun /\ Said(asked')[id].fields = r.fields
        /\ Said(asked')[id].data = r.data /\ Said(asked')[id].ended = r.ended
    BY <1>a, <1>4, <1>5, SaidChanged
  <1>7. Adds(frame, Said(asked), Said(asked'))
    BY <1>2, <1>3, <1>5, <1>6 DEF Adds
  <1>8. Later(Said(asked), Said(asked'))
    BY <1>7, AddsLater, Zenon
  <1>9. Carries(<<>>, frame, encoder, encoder, Said(asked), Said(asked')) /\ Left(frame) = <<>>
    BY <1>2, <1>7 DEF Carries, Left
  <1>10. Whole => Agrees(Queue \o <<frame>>, pending_headers_, decoder_, streams_, dispatched, encoder',
                         Said(asked'), Room(sends'))
    BY <1>a, <1>b, <1>2, <1>3, <1>8, <1>9, AgreesOne, RoomBoolean, Zenon
  <1>11. <<frame>> \in Seq(Frames) /\ AskedOK'
    BY <1>2, <1>6 DEF AskedOK
  <1>12. QED
    BY <1>3, <1>10, <1>11, SendTold, Zenon

LEMMA ClientTold ==
    ASSUME StraysSayNothing, Typed, Typed', Told, ClientStep
    PROVE  Told'
  <1>0. asked \in [Streams -> Saying] /\ Queue \in Seq(Frames) /\ \A id \in Streams : asked[id] \in Saying
    BY DEF Told, AskedOK, Typed, FramesOK, Queue
  <1> DEFINE Whole == Agrees(Queue, pending_headers_, decoder_, streams_, dispatched, encoder, Said(asked), TRUE)
  <1>1. Whole => encoder \in ClientTables
    BY <1>0, AgreesClient, Zenon
  <1>2. ASSUME NEW id \in Streams, NEW field \in Fields \ BadFields, NEW end_stream \in BOOLEAN,
               ClientRequests(id, field, end_stream)
        PROVE  Told'
    BY <1>2, RequestTold, Zenon DEF Flag
  <1>3. ASSUME NEW id \in Streams, NEW n \in DataSizes, NEW padding \in PaddingSizes,
               NEW end_stream \in BOOLEAN, ClientSendsData(id, n, padding, end_stream)
        PROVE  Told'
    BY <1>3, DataSentTold, Zenon DEF Flag
  <1>4. ASSUME NEW id \in Streams, NEW field \in BadFields, ClientSendsTrailers(id, field)
        PROVE  Told'
    <2>0. field \in Fields
      BY SessionAssumption
    <2>1. PICK e \in Encodings(encoder, field) :
            /\ Sends(<<[Frame("headers", id) EXCEPT !.block = e[1], !.end_stream = TRUE]>>)
            /\ encoder' = e[2]
      BY <1>4, Zenon DEF ClientSendsTrailers
    <2> DEFINE frame == [Frame("headers", id) EXCEPT !.block = e[1], !.end_stream = TRUE]
    <2>2. e[1] \in Seq(Instructions)
      BY <2>0, EncodingsTyped DEF Typed, ClientOK
    <2>3. /\ frame \in Frames /\ frame.type = "headers" /\ frame.id = id /\ frame.end_headers = TRUE
          /\ frame.bad_padding = FALSE /\ frame.end_stream = TRUE /\ frame.block = e[1]
      <3>1. /\ Frame("headers", id) \in Frames /\ Frame("headers", id).type = "headers" /\ Frame("headers", id).id = id
            /\ Frame("headers", id).end_headers = TRUE /\ Frame("headers", id).bad_padding = FALSE
        BY FrameTyped, TypesOfFrames, StreamsAreOdd DEF Frame
      <3>2. QED
        BY <2>2, <3>1 DEF Frames
    <2>4. Send(<<frame>>) /\ asked[id].begun
      BY <1>4, <2>1, Zenon DEF ClientSendsTrailers, Sends
    <2> DEFINE r == Over(asked[id])
    <2>5. asked' = Put(asked, id, r)
      <3>1. asked' = [asked EXCEPT ![id].ended = TRUE]
        BY <1>4, Zenon DEF ClientSendsTrailers
      <3>2. QED
        BY <1>0, <3>1 DEF Over, Put
    <2>6. /\ r \in Saying /\ r.begun = asked[id].begun /\ r.fields = asked[id].fields
          /\ r.data = asked[id].data /\ r.ended = TRUE
      BY <1>0, SayingOver, Zenon
    <2> HIDE DEF r, frame
    <2>7. /\ asked' \in [Streams -> Saying] /\ Only(Said(asked), Said(asked'), id)
          /\ Said(asked)[id].begun = asked[id].begun /\ Said(asked)[id].fields = asked[id].fields
          /\ Said(asked)[id].data = asked[id].data /\ Said(asked)[id].ended = asked[id].ended
          /\ Said(asked')[id].begun = r.begun /\ Said(asked')[id].fields = r.fields
          /\ Said(asked')[id].data = r.data /\ Said(asked')[id].ended = r.ended
      BY <1>0, <2>5, <2>6, SaidChanged, Zenon
    <2>8. Trails(field, TRUE, id, Said(asked), Said(asked'))
      BY <2>4, <2>6, <2>7 DEF Trails
    <2>9. Says(id, TRUE, e[1], encoder, encoder', Said(asked), Said(asked'))
      BY <2>0, <2>1, <2>7, <2>8, Zenon DEF Says
    <2>10. Later(Said(asked), Said(asked'))
      BY <2>9, SaysLater, Zenon
    <2>11. Carries(<<>>, frame, encoder, encoder', Said(asked), Said(asked')) /\ Left(frame) = <<>>
      BY <2>3, <2>9 DEF Carries, Left
    <2>12. ASSUME Whole
           PROVE  Agrees(Queue \o <<frame>>, pending_headers_, decoder_, streams_, dispatched, encoder',
                         Said(asked'), Room(sends'))
      <3>1. encoder \in Tables /\ Follows(encoder, encoder) /\ encoder \in ClientTables
        BY <1>1, <2>12, FollowsItself, Zenon
      <3>2. encoder' \in ClientTables
        BY <2>0, <2>1, <3>1, EncodingDecoded
      <3>3. QED
        BY <1>0, <2>3, <2>10, <2>11, <2>12, <3>2, AgreesOne, RoomBoolean, Zenon
    <2>13. <<frame>> \in Seq(Frames) /\ AskedOK'
      BY <2>3, <2>7 DEF AskedOK
    <2>14. QED
      BY <2>4, <2>12, <2>13, SendTold, Zenon
  <1>5. ASSUME NEW frame \in Frames, frame.type \notin {"headers", "continuation", "data"}, Send(<<frame>>),
               encoder' = encoder, Said(asked') = Said(asked), AskedOK'
        PROVE  Told'
    <2>1. Later(Said(asked), Said(asked'))
      BY <1>5, SameSaid, Zenon
    <2>2. Carries(<<>>, frame, encoder, encoder, Said(asked), Said(asked')) /\ Left(frame) = <<>>
      BY <1>5, CarriesNothing, Zenon
    <2>3. Whole => Agrees(Queue \o <<frame>>, pending_headers_, decoder_, streams_, dispatched, encoder',
                          Said(asked'), Room(sends'))
      BY <1>0, <1>1, <1>5, <2>1, <2>2, AgreesOne, RoomBoolean, Zenon
    <2>4. <<frame>> \in Seq(Frames)
      OBVIOUS
    <2>5. QED
      BY <1>5, <2>3, <2>4, SendTold, Zenon
  <1>6. ASSUME NEW id \in Streams, ClientResets(id) PROVE Told'
    <2> DEFINE frame == Frame("rst_stream", id)
               r == [asked[id] EXCEPT !.dropped = TRUE]
    <2>1. frame \in Frames /\ frame.type = "rst_stream"
      BY FrameTyped, TypesOfFrames, StreamsAreOdd DEF Frame
    <2>2. Send(<<frame>>) /\ encoder' = encoder
      BY <1>6, Zenon DEF ClientResets, Sends
    <2>3. asked' = [asked EXCEPT ![id] = r]
      <3>1. asked' = [asked EXCEPT ![id].dropped = TRUE]
        BY <1>6, Zenon DEF ClientResets
      <3>2. QED
        BY <1>0, <3>1
    <2>4. r \in Saying /\ SaidOn(r) = SaidOn(asked[id])
      BY <1>0, Dropped
    <2> HIDE DEF r, frame
    <2>5. AskedOK' /\ \A other \in Streams : SaidOn(asked'[other]) = SaidOn(asked[other])
      BY <1>0, <2>3, <2>4 DEF AskedOK
    <2>6. Said(asked') = Said(asked)
      BY <2>5, Zenon DEF Said
    <2>7. frame.type \notin {"headers", "continuation", "data"}
      BY <2>1
    <2>8. QED
      BY <1>5, <2>1, <2>2, <2>5, <2>6, <2>7, Zenon
  <1>7. ASSUME NEW n \in TableSizes \cup {Unset}, ClientSettles(n) PROVE Told'
    <2> DEFINE frame == [Frame("settings", 0) EXCEPT !.value = n]
    <2>1. frame \in Frames /\ frame.type = "settings"
      <3>1. Frame("settings", 0) \in Frames /\ Frame("settings", 0).type = "settings" /\ n \in Nat \cup {Unset}
        BY FrameTyped, TypesOfFrames, SessionAssumption DEF Frame
      <3>2. QED
        BY <3>1 DEF Frames
    <2>2. Send(<<frame>>) /\ encoder' = encoder /\ asked' = asked
      BY <1>7, Zenon DEF ClientSettles, Sends
    <2> HIDE DEF frame
    <2>3. AskedOK' /\ Said(asked') = Said(asked)
      BY <1>0, <2>2, Zenon DEF AskedOK
    <2>4. frame.type \notin {"headers", "continuation", "data"}
      BY <2>1
    <2>5. QED
      BY <1>5, <2>1, <2>2, <2>3, <2>4, Zenon
  <1>8. ASSUME NEW frames \in Strays, ClientStrays(frames) PROVE Told'
    <2>1. frames \in Seq(Frames)
      BY StraysAssumption
    <2>2. Send(frames) /\ encoder' = encoder /\ asked' = asked /\ sends' = MaxSends
      BY <1>8, Zenon DEF ClientStrays
    <2>3. Room(sends') = FALSE
      BY <2>2, SessionAssumption DEF Room
    <2>4. AskedOK'
      BY <1>0, <2>2, Zenon DEF AskedOK
    <2>5. Whole => Agrees(Queue \o frames, pending_headers_, decoder_, streams_, dispatched, encoder',
                          Said(asked'), Room(sends'))
      BY <1>0, <2>2, <2>3, AgreesStrays, Zenon
    <2>6. QED
      BY <2>1, <2>2, <2>4, <2>5, SendTold, Zenon
  <1>9. ASSUME ClientLeaves PROVE Told'
    BY <1>9, CloseTold, Zenon DEF ClientLeaves
  <1>10. QED
    BY <1>2, <1>3, <1>4, <1>6, <1>7, <1>8, <1>9, Zenon DEF ClientStep

LEMMA ToldStep ==
    ASSUME StraysSayNothing
    PROVE  Typed /\ Typed' /\ Told /\ [Next]_vars => Told'
  <1> SUFFICES ASSUME Typed, Typed', Told, [Next]_vars PROVE Told'
    OBVIOUS
  <1>1. CASE write_last_response \/ expire_idle
    BY <1>1, CloseTold, Zenon DEF write_last_response, expire_idle
  <1>2. CASE UNCHANGED vars
    BY <1>2, Zenon DEF vars, connection, session, session_data, history, client, Told, AskedOK, GivenUp,
                  Truthful, InStep, Emptied, Now, Queue
  <1>3. QED
    BY <1>1, <1>2, ClientTold, ServerTold, WriteTold, ReceiveTold, AcquireTold, ExpireTold, Zenon DEF Next

LEMMA AlwaysTold ==
    ASSUME StraysSayNothing
    PROVE  Safety => []Told
  <1>1. Typed /\ Balance /\ (Typed /\ Balance)' /\ Told /\ [Next]_vars => Told'
    BY ToldStep
  <1>2. QED
    BY <1>1, InitTold, AlwaysTyped, PTL DEF Safety

\* What has been heard, as the client's record of its streams has it.
LEMMA HeardAsAsked ==
    ASSUME Typed, Told, ~unsynced, NEW i \in DOMAIN dispatched
    PROVE  LET stream == asked[dispatched[i].id]
           IN  stream.ended /\ dispatched[i].fields = stream.fields /\ dispatched[i].body = stream.data
  <1>1. dispatched[i].id \in Streams
    BY DispatchedIds
  <1> DEFINE id == dispatched[i].id
             said == Said(asked)
  <1>2. said[id].ended /\ dispatched[i].fields = said[id].fields /\ dispatched[i].body = said[id].data
    BY Zenon DEF Told, Truthful, Heard
  <1>3. said[id] = SaidOn(asked[id])
    BY <1>1 DEF Said
  <1>4. \A x : SaidOn(x).fields = x.fields /\ SaidOn(x).data = x.data /\ SaidOn(x).ended = x.ended
    BY DEF SaidOn
  <1>5. QED
    BY <1>2, <1>3, <1>4, Zenon

(***************************************************************************)
(* HeadersAsEncoded: as long as the client's table has not parted from the *)
(* decoder's, every request is given to its handler with the fields the    *)
(* client encoded, and no header block of it is refused (decode_headers),  *)
(* whatever the limits, the evictions and the resizing, however the blocks *)
(* are cut and whatever other frames and resets come between.              *)
(***************************************************************************)
THEOREM HeadersArriveAsEncoded ==
    ASSUME StraysSayNothing
    PROVE  Safety => []HeadersAsEncoded
  <1>1. Typed /\ Told => HeadersAsEncoded
    BY HeardAsAsked, Zenon DEF HeadersAsEncoded, Told, Truthful, Mild
  <1>2. QED
    BY <1>1, AlwaysTyped, AlwaysTold, PTL

(***************************************************************************)
(* BodiesWhole: as long as the tables agree, a request is given to its     *)
(* handler only when the client has ended it, and with all the DATA the    *)
(* client sent for it (handle_data_frame, complete_stream).                *)
(***************************************************************************)
THEOREM BodiesArriveWhole ==
    ASSUME StraysSayNothing
    PROVE  Safety => []BodiesWhole
  <1>1. Typed /\ Told => BodiesWhole
    BY HeardAsAsked, Zenon DEF BodiesWhole
  <1>2. QED
    BY <1>1, AlwaysTyped, AlwaysTold, PTL
=============================================================================
