--------------------------- MODULE HostFilesProofs ---------------------------
(****************************************************************************)
(* Proofs about a host file for any templates, any user lines and any       *)
(* number of edits, releases, refreshes and failures.                       *)
(*                                                                          *)
(* The first half is about the merge of texts of any length: a merge that   *)
(* succeeds keeps every line either side added to the base.  Each loop of   *)
(* threeWayMerge is a function over its passes; that the function exists    *)
(* and what every pass keeps follow from the least number whose pass would  *)
(* break it (PassesExist, EveryPass).                                       *)
(****************************************************************************)
EXTENDS HostFiles, SequenceTheorems, NaturalsInduction, WellFoundedInduction, TLAPS

-----------------------------------------------------------------------------
(* Recursion on numbers. *)

\* Every nonempty set of naturals has a least element.
LEMMA LeastElement ==
  ASSUME NEW T \in SUBSET Nat, T # {}
  PROVE  \E i \in T : \A j \in T : i <= j
<1> DEFINE R == OpToRel(<, Nat)
<1>1. IsWellFoundedOn(R, Nat)
  BY NatLessThanWellFounded
<1>2. \A i, j \in Nat : i < j => <<i, j>> \in R
  BY DEF OpToRel
<1> HIDE DEF R
<1>3. \E x \in T : \A y \in T : ~(<<y, x>> \in R)
  BY <1>1, WFMin
<1>4. PICK x \in T : \A y \in T : ~(<<y, x>> \in R)
  BY <1>3
<1>5. \A y \in T : ~(y < x)
  BY <1>2, <1>4
<1> QED
  BY <1>4, <1>5

\* What the first pass has and every pass keeps, all passes have.
LEMMA EveryPass ==
  ASSUME NEW N \in Nat, NEW f, NEW S,
         f[0] \in S[0], \A n \in 1 .. N : f[n - 1] \in S[n - 1] => f[n] \in S[n]
  PROVE  \A n \in 0 .. N : f[n] \in S[n]
<1> DEFINE T == {n \in 0 .. N : f[n] \notin S[n]}
<1>1. T = {}
  <2> SUFFICES ASSUME T # {} PROVE FALSE
    OBVIOUS
  <2>1. T \in SUBSET Nat
    OBVIOUS
  <2>2. PICK n \in T : \A k \in T : n <= k
    <3> HIDE DEF T
    <3> QED
      BY <2>1, LeastElement
  <2>3. n # 0
    BY <2>2
  <2>4. n \in 1 .. N /\ n - 1 \in 0 .. N /\ n - 1 \notin T
    BY <2>2, <2>3
  <2> QED
    BY <2>2, <2>4
<1> QED
  BY <1>1

\* The passes f[1] .. f[N] from a, each made by g.
Passes(f, N, T, a, g) ==
  f \in [0 .. N -> T] /\ f[0] = a /\ \A n \in 1 .. N : f[n] = g[<<n, f[n - 1]>>]

\* Passes that lead from T to T can be made one after the other: the shortest
\* row that could not be made could be made from the one before it.
LEMMA PassesExist ==
  ASSUME NEW N \in Nat, NEW T, NEW a \in T, NEW g \in [(1 .. N) \X T -> T]
  PROVE  \E f : Passes(f, N, T, a, g)
<1> DEFINE Made(f, m) == f[0] = a /\ \A n \in 1 .. m : f[n] = g[<<n, f[n - 1]>>]
           U == {m \in 0 .. N : ~ \E f \in [0 .. N -> T] : Made(f, m)}
<1> HIDE DEF Made
<1>1. U = {}
  <2> SUFFICES ASSUME U # {} PROVE FALSE
    OBVIOUS
  <2>1. U \in SUBSET Nat
    OBVIOUS
  <2>2. PICK m \in U : \A k \in U : m <= k
    <3> HIDE DEF U
    <3> QED
      BY <2>1, LeastElement
  <2>3. m # 0
    <3> DEFINE h == [n \in 0 .. N |-> a]
    <3>1. h \in [0 .. N -> T] /\ h[0] = a
      OBVIOUS
    <3> HIDE DEF h
    <3>2. Made(h, 0)
      BY <3>1 DEF Made
    <3> QED
      BY <2>2, <3>1, <3>2
  <2>4. m \in 1 .. N /\ m - 1 \in 0 .. N /\ m - 1 \notin U
    BY <2>2, <2>3
  <2>5. PICK f \in [0 .. N -> T] : Made(f, m - 1)
    BY <2>4
  <2> DEFINE h == [f EXCEPT ![m] = g[<<m, f[m - 1]>>]]
  <2>6. h \in [0 .. N -> T]
    BY <2>4
  <2>7. \A n \in 0 .. N : n # m => h[n] = f[n]
    OBVIOUS
  <2>8. h[m] = g[<<m, f[m - 1]>>]
    BY <2>4
  <2> HIDE DEF h
  <2>9. Made(h, m)
    <3>1. h[0] = a
      BY <2>4, <2>5, <2>7 DEF Made
    <3>2. ASSUME NEW n \in 1 .. m PROVE h[n] = g[<<n, h[n - 1]>>]
      <4>1. n \in 1 .. N /\ n - 1 \in 0 .. N /\ n - 1 # m /\ h[n - 1] = f[n - 1]
        BY <2>4, <2>7
      <4>2. CASE n = m
        BY <2>8, <4>1, <4>2
      <4>3. CASE n # m
        <5>1. n \in 1 .. (m - 1)
          BY <2>4, <4>3
        <5> QED
          BY <2>5, <2>7, <4>1, <4>3, <5>1 DEF Made
      <4> QED
        BY <4>2, <4>3
    <3> QED
      BY <3>1, <3>2 DEF Made
  <2>10. m \notin U
    BY <2>6, <2>9
  <2> QED
    BY <2>2, <2>10
<1>2. N \in 0 .. N /\ N \notin U
  <2> HIDE DEF U
  <2> QED
    BY <1>1
<1>3. PICK f \in [0 .. N -> T] : Made(f, N)
  <2> QED
    BY <1>2
<1> QED
  BY <1>3 DEF Made, Passes

(* Lines. *)

\* l is one of the lines of a text.
Has(lines, l) == \E k \in 1 .. Len(lines) : lines[k] = l

\* A concatenation has the lines of both parts.
LEMMA HasConcat ==
  ASSUME NEW L, NEW s \in Seq(L), NEW t \in Seq(L)
  PROVE  s \o t \in Seq(L) /\ \A l : Has(s \o t, l) <=> Has(s, l) \/ Has(t, l)
<1>1. /\ s \o t \in Seq(L) /\ Len(s \o t) = Len(s) + Len(t)
      /\ \A i \in 1 .. Len(s) + Len(t) : (s \o t)[i] = IF i <= Len(s) THEN s[i] ELSE t[i - Len(s)]
  BY ConcatProperties
<1>2. Len(s) \in Nat /\ Len(t) \in Nat
  BY LenProperties
<1>3. ASSUME NEW l, Has(s \o t, l) PROVE Has(s, l) \/ Has(t, l)
  <2>1. PICK k \in 1 .. Len(s) + Len(t) : (s \o t)[k] = l
    BY <1>1, <1>3 DEF Has
  <2>2. CASE k <= Len(s)
    BY <1>1, <1>2, <2>1, <2>2 DEF Has
  <2>3. CASE ~(k <= Len(s))
    <3>1. k - Len(s) \in 1 .. Len(t) /\ t[k - Len(s)] = l
      BY <1>1, <1>2, <2>1, <2>3
    <3> QED
      BY <3>1 DEF Has
  <2> QED
    BY <2>2, <2>3
<1>4. ASSUME NEW l, Has(s, l) PROVE Has(s \o t, l)
  <2>1. PICK k \in 1 .. Len(s) : s[k] = l
    BY <1>4 DEF Has
  <2>2. k \in 1 .. Len(s) + Len(t) /\ (s \o t)[k] = l
    BY <1>1, <1>2, <2>1
  <2> QED
    BY <1>1, <2>2 DEF Has
<1>5. ASSUME NEW l, Has(t, l) PROVE Has(s \o t, l)
  <2>1. PICK k \in 1 .. Len(t) : t[k] = l
    BY <1>5 DEF Has
  <2> DEFINE i == Len(s) + k
  <2>2. i \in 1 .. Len(s) + Len(t) /\ ~(i <= Len(s)) /\ i - Len(s) = k
    BY <1>2
  <2> HIDE DEF i
  <2>3. (s \o t)[i] = l
    BY <1>1, <2>1, <2>2
  <2> QED
    BY <1>1, <2>2, <2>3 DEF Has
<1> QED
  BY <1>1, <1>3, <1>4, <1>5

\* A part of a text has lines of the text.
LEMMA PartOf ==
  ASSUME NEW L, NEW s \in Seq(L), NEW m \in Nat \ {0}, NEW n \in Int, n <= Len(s)
  PROVE  /\ SubSeq(s, m, n) \in Seq(L)
         /\ \A l : Has(SubSeq(s, m, n), l) <=> \E i \in m .. n : s[i] = l
         /\ Len(SubSeq(s, m, n)) = IF m <= n THEN n - m + 1 ELSE 0
<1>1. Len(s) \in Nat /\ \A i \in 1 .. Len(s) : s[i] \in L
  BY LenProperties, ElementOfSeq
<1>2. \A i \in m .. n : s[i] \in L
  BY <1>1
<1> DEFINE p == SubSeq(s, m, n)
<1>3. /\ p \in Seq(L)
      /\ Len(p) = IF m <= n THEN n - m + 1 ELSE 0
      /\ \A i \in 1 .. n - m + 1 : p[i] = s[m + i - 1]
  BY <1>2, SubSeqProperties
<1> HIDE DEF p
<1>4. ASSUME NEW l, Has(p, l) PROVE \E i \in m .. n : s[i] = l
  <2>1. PICK k \in 1 .. Len(p) : p[k] = l
    BY <1>4 DEF Has
  <2>2. m + k - 1 \in m .. n /\ s[m + k - 1] = l
    BY <1>3, <2>1
  <2> QED
    BY <2>2
<1>5. ASSUME NEW l, NEW i \in m .. n, s[i] = l PROVE Has(p, l)
  <2> DEFINE k == i - m + 1
  <2>1. k \in 1 .. n - m + 1 /\ m + k - 1 = i /\ m <= n
    OBVIOUS
  <2> HIDE DEF k
  <2>2. k \in 1 .. Len(p) /\ p[k] = l
    BY <1>3, <1>5, <2>1
  <2> QED
    BY <2>2 DEF Has
<1> QED
  BY <1>3, <1>4, <1>5 DEF p

\* A text with one more line in front.
LEMMA Prepend ==
  ASSUME NEW S, NEW s \in Seq(S), NEW x \in S
  PROVE  /\ <<x>> \o s \in Seq(S) /\ Len(<<x>> \o s) = Len(s) + 1
         /\ (<<x>> \o s)[1] = x
         /\ \A k \in 2 .. Len(s) + 1 : (<<x>> \o s)[k] = s[k - 1]
<1>1. <<x>> \in Seq(S) /\ Len(<<x>>) = 1 /\ <<x>>[1] = x
  OBVIOUS
<1>2. Len(s) \in Nat
  BY LenProperties
<1> DEFINE one == <<x>>
<1> HIDE DEF one
<1>3. /\ one \o s \in Seq(S) /\ Len(one \o s) = Len(one) + Len(s)
      /\ \A i \in 1 .. Len(one) + Len(s) : (one \o s)[i] = IF i <= Len(one) THEN one[i] ELSE s[i - Len(one)]
  BY <1>1, ConcatProperties DEF one
<1>4. Len(one) = 1 /\ one[1] = x
  BY <1>1 DEF one
<1>5. /\ one \o s \in Seq(S) /\ Len(one \o s) = Len(s) + 1
      /\ (one \o s)[1] = x
      /\ \A k \in 2 .. Len(s) + 1 : (one \o s)[k] = s[k - 1]
  BY <1>2, <1>3, <1>4
<1> QED
  BY <1>5 DEF one

-----------------------------------------------------------------------------
(* The pairs of equal lines and the hunks between them.                     *)

Pairs == Nat \X Nat

\* Each pair joins equal lines behind the first i of the base and j of the side.
Matching(base, side, eq, i, j) ==
  \A k \in 1 .. Len(eq) : /\ eq[k][1] \in (i + 1) .. Len(base) /\ eq[k][2] \in (j + 1) .. Len(side)
                          /\ base[eq[k][1]] = side[eq[k][2]]

\* The pairs follow each other in the base.
Increasing(eq) == \A k, m \in 1 .. Len(eq) : k < m => eq[k][1] < eq[m][1]

Walks(base, side) ==
  {w \in [i : 0 .. Len(base), j : 0 .. Len(side), equals : Seq(Pairs)] :
     Matching(base, side, w.equals, w.i, w.j) /\ Increasing(w.equals)}

\* The fewer lines are passed, the weaker it is.
LEMMA MatchingBehind ==
  ASSUME NEW base, NEW side, NEW eq, NEW i \in Nat, NEW j \in Nat, Matching(base, side, eq, i, j),
         NEW m \in Nat, NEW n \in Nat, m <= i, n <= j,
         Len(base) \in Nat, Len(side) \in Nat
  PROVE  Matching(base, side, eq, m, n)
<1> SUFFICES ASSUME NEW k \in 1 .. Len(eq)
             PROVE  /\ eq[k][1] \in (m + 1) .. Len(base) /\ eq[k][2] \in (n + 1) .. Len(side)
                    /\ base[eq[k][1]] = side[eq[k][2]]
  BY DEF Matching
<1> DEFINE x == eq[k][1]
           y == eq[k][2]
           b == Len(base)
           c == Len(side)
<1>1. x \in (i + 1) .. b /\ y \in (j + 1) .. c /\ base[x] = side[y]
  BY DEF Matching
<1>2. b \in Nat /\ c \in Nat
  OBVIOUS
<1> HIDE DEF x, y, b, c
<1>3. x \in (m + 1) .. b /\ y \in (n + 1) .. c
  BY <1>1, <1>2
<1> QED
  BY <1>1, <1>3 DEF x, y, b, c

\* One pass of the walk back.
LEMMA WalkOK ==
  ASSUME NEW L, NEW base \in Seq(L), NEW side \in Seq(L), NEW dp, NEW w \in Walks(base, side)
  PROVE  WalkBack(base, side, dp, w) \in Walks(base, side)
<1> DEFINE e == w.equals
           r == <<<<w.i, w.j>>>> \o e
           v == [i |-> w.i - 1, j |-> w.j - 1, equals |-> r]
           up == [w EXCEPT !.i = @ - 1]
           left == [w EXCEPT !.j = @ - 1]
<1>1. /\ w.i \in 0 .. Len(base) /\ w.j \in 0 .. Len(side) /\ e \in Seq(Pairs)
      /\ Matching(base, side, e, w.i, w.j) /\ Increasing(e)
      /\ w \in [i : 0 .. Len(base), j : 0 .. Len(side), equals : Seq(Pairs)]
  BY DEF Walks
<1>2. Len(base) \in Nat /\ Len(side) \in Nat /\ Len(e) \in Nat
  BY <1>1, LenProperties
<1>3. CASE w.i = 0 \/ w.j = 0
  BY <1>3, Zenon DEF WalkBack
<1>4. CASE ~(w.i = 0 \/ w.j = 0) /\ base[w.i] = side[w.j]
  <2>1. WalkBack(base, side, dp, w) = v
    BY <1>4, Zenon DEF WalkBack
  <2>2. <<w.i, w.j>> \in Pairs
    BY <1>1, <1>2 DEF Pairs
  <2>3. /\ r \in Seq(Pairs) /\ Len(r) = Len(e) + 1 /\ r[1] = <<w.i, w.j>>
        /\ \A k \in 2 .. Len(e) + 1 : r[k] = e[k - 1]
    BY <1>1, <2>2, Prepend
  <2> HIDE DEF r, e
  <2>4. ASSUME NEW k \in 1 .. Len(r)
        PROVE  /\ r[k][1] \in (w.i - 1 + 1) .. Len(base) /\ r[k][2] \in (w.j - 1 + 1) .. Len(side)
               /\ base[r[k][1]] = side[r[k][2]]
    <3>1. CASE k = 1
      BY <1>1, <1>2, <1>4, <2>3, <3>1
    <3>2. CASE k # 1
      <4>1. k - 1 \in 1 .. Len(e) /\ r[k] = e[k - 1]
        BY <1>2, <2>3, <3>2
      <4>0. /\ w.i \in Nat /\ w.j \in Nat /\ w.i - 1 \in Nat /\ w.j - 1 \in Nat
            /\ w.i - 1 <= w.i /\ w.j - 1 <= w.j
        BY <1>1, <1>2, <1>4
      <4>2. Matching(base, side, e, w.i - 1, w.j - 1)
        BY <1>1, <1>2, <4>0, MatchingBehind
      <4> QED
        BY <4>1, <4>2 DEF Matching
    <3> QED
      BY <3>1, <3>2
  <2>5. Matching(base, side, r, w.i - 1, w.j - 1)
    BY <2>4 DEF Matching
  <2>7. Increasing(r)
    <3> SUFFICES ASSUME NEW k \in 1 .. Len(r), NEW m \in 1 .. Len(r), k < m
                 PROVE  r[k][1] < r[m][1]
      BY DEF Increasing
    <3>1. m - 1 \in 1 .. Len(e) /\ r[m] = e[m - 1]
      BY <1>2, <2>3
    <3>2. CASE k = 1
      <4>1. e[m - 1][1] \in w.i + 1 .. Len(base)
        BY <1>1, <3>1 DEF Matching
      <4>2. r[k][1] = w.i /\ r[m][1] = e[m - 1][1]
        BY <2>3, <3>1, <3>2
      <4> DEFINE x == e[m - 1][1]
      <4>3. w.i \in Nat /\ x \in w.i + 1 .. Len(base)
        BY <1>1, <4>1
      <4> HIDE DEF x
      <4>4. w.i < x
        BY <1>2, <4>3
      <4> QED
        BY <4>2, <4>4 DEF x
    <3>3. CASE k # 1
      <4>1. k - 1 \in 1 .. Len(e) /\ r[k] = e[k - 1] /\ k - 1 < m - 1
        BY <1>2, <2>3, <3>3
      <4> QED
        BY <1>1, <3>1, <4>1 DEF Increasing
    <3> QED
      BY <3>2, <3>3
  <2>6. v.i = w.i - 1 /\ v.j = w.j - 1 /\ v.equals = r
        /\ v \in [i : 0 .. Len(base), j : 0 .. Len(side), equals : Seq(Pairs)]
    BY <1>1, <1>2, <1>4, <2>3
  <2> HIDE DEF v
  <2> QED
    BY <2>1, <2>5, <2>6, <2>7 DEF Walks
<1>5. CASE ~(w.i = 0 \/ w.j = 0) /\ base[w.i] # side[w.j]
  <2>1. WalkBack(base, side, dp, w) \in {up, left}
    BY <1>5, Zenon DEF WalkBack
  <2>0. w.i - 1 \in 0 .. Len(base) /\ w.j - 1 \in 0 .. Len(side) /\ w.i - 1 <= w.i /\ w.j - 1 <= w.j
    BY <1>1, <1>2, <1>5
  <2>2. /\ up.i = w.i - 1 /\ up.j = w.j /\ up.equals = e
        /\ up \in [i : 0 .. Len(base), j : 0 .. Len(side), equals : Seq(Pairs)]
    BY <1>1, <2>0
  <2>6. /\ left.i = w.i /\ left.j = w.j - 1 /\ left.equals = e
        /\ left \in [i : 0 .. Len(base), j : 0 .. Len(side), equals : Seq(Pairs)]
    BY <1>1, <2>0
  <2> HIDE DEF up, left, e
  <2>3. Matching(base, side, e, w.i - 1, w.j) /\ Matching(base, side, e, w.i, w.j - 1)
    BY <1>1, <1>2, <2>0, MatchingBehind
  <2>4. up \in Walks(base, side) /\ left \in Walks(base, side)
    BY <1>1, <2>2, <2>3, <2>6 DEF Walks
  <2> QED
    BY <2>1, <2>4
<1> QED
  BY <1>3, <1>4, <1>5

\* The walk collects pairs of equal lines, in their order.
LEMMA EqualsOK ==
  ASSUME NEW L, NEW base \in Seq(L), NEW side \in Seq(L)
  PROVE  /\ Equals(base, side) \in Seq(Pairs)
         /\ Matching(base, side, Equals(base, side), 0, 0) /\ Increasing(Equals(base, side))
<1> DEFINE N == Len(base) + Len(side)
           T == Walks(base, side)
           a == [i |-> Len(base), j |-> Len(side), equals |-> << >>]
           dp == LcsTable(base, side)
           rec(f) == [n \in 0 .. N |-> IF n = 0 THEN a ELSE WalkBack(base, side, dp, f[n - 1])]
           walk == CHOOSE f : f = rec(f)
           g == [p \in (1 .. N) \X T |-> WalkBack(base, side, dp, p[2])]
<1>1. Len(base) \in Nat /\ Len(side) \in Nat /\ N \in Nat
  BY LenProperties
<1>2. a \in T
  <2>1. << >> \in Seq(Pairs) /\ Len(<< >>) = 0
    BY EmptySeq
  <2>2. Matching(base, side, << >>, Len(base), Len(side)) /\ Increasing(<< >>)
    BY <2>1 DEF Matching, Increasing
  <2> QED
    BY <1>1, <2>1, <2>2 DEF Walks
<1>3. Equals(base, side) = walk[N].equals
  BY DEF Equals
<1> HIDE DEF a, dp, N
<1>4. g \in [(1 .. N) \X T -> T]
  <2>1. \A w \in T : WalkBack(base, side, dp, w) \in T
    BY WalkOK
  <2> HIDE DEF T
  <2> QED
    BY <2>1
<1>5. \E f : f = rec(f)
  <2> HIDE DEF T, g
  <2>0. PICK f : Passes(f, N, T, a, g)
    BY <1>1, <1>2, <1>4, PassesExist
  <2>1. f \in [0 .. N -> T] /\ f[0] = a /\ \A n \in 1 .. N : f[n] = g[<<n, f[n - 1]>>]
    BY <2>0 DEF Passes
  <2>2. ASSUME NEW n \in 0 .. N
        PROVE  f[n] = IF n = 0 THEN a ELSE WalkBack(base, side, dp, f[n - 1])
    <3>1. CASE n = 0
      BY <2>1, <3>1
    <3>2. CASE n # 0
      <4>1. n \in 1 .. N /\ n - 1 \in 0 .. N
        BY <1>1, <3>2
      <4>2. f[n - 1] \in T /\ f[n] = g[<<n, f[n - 1]>>]
        BY <2>1, <4>1
      <4> QED
        BY <3>2, <4>1, <4>2 DEF g
    <3> QED
      BY <3>1, <3>2
  <2>3. f = rec(f)
    BY <2>1, <2>2
  <2> QED
    BY <2>3
<1>6. walk = rec(walk)
  BY <1>5
<1> HIDE DEF walk
<1>7. /\ walk[0] = a
      /\ \A n \in 1 .. N : walk[n] = WalkBack(base, side, dp, walk[n - 1])
  BY <1>1, <1>6
<1>8. \A n \in 0 .. N : walk[n] \in T
  <2> DEFINE S == [n \in 0 .. N |-> T]
  <2>1. walk[0] \in S[0]
    BY <1>1, <1>2, <1>7
  <2>2. ASSUME NEW n \in 1 .. N, walk[n - 1] \in S[n - 1] PROVE walk[n] \in S[n]
    <3>1. n \in 0 .. N /\ n - 1 \in 0 .. N
      BY <1>1
    <3>2. walk[n - 1] \in T
      BY <2>2, <3>1
    <3> QED
      BY <1>7, <3>1, <3>2, WalkOK
  <2> HIDE DEF S
  <2>3. \A n \in 0 .. N : walk[n] \in S[n]
    BY <1>1, <2>1, <2>2, EveryPass
  <2> QED
    BY <2>3 DEF S
<1>9. walk[N] \in T
  <2> HIDE DEF T
  <2> QED
    BY <1>1, <1>8
<1> DEFINE w == walk[N]
<1> HIDE DEF w
<1>10. /\ w.i \in 0 .. Len(base) /\ w.j \in 0 .. Len(side) /\ w.equals \in Seq(Pairs)
       /\ Matching(base, side, w.equals, w.i, w.j) /\ Increasing(w.equals)
  BY <1>9 DEF Walks, w
<1> DEFINE i == w.i
           j == w.j
           eq == w.equals
<1>11. i \in 0 .. Len(base) /\ j \in 0 .. Len(side) /\ Matching(base, side, eq, i, j)
  BY <1>10
<1> HIDE DEF i, j, eq, T, rec, g
<1>12. Matching(base, side, eq, 0, 0)
  BY <1>1, <1>11 DEF Matching
<1> QED
  BY <1>3, <1>10, <1>12 DEF w, eq

Hunks(L, n) == [start : 0 .. n, end : 0 .. n, lines : Seq(L)]

\* Hunks follow each other in the base.
Ordered(hunks) ==
  \A k \in 1 .. Len(hunks) : /\ hunks[k].start <= hunks[k].end
                             /\ \A m \in k + 1 .. Len(hunks) : hunks[k].end <= hunks[m].start

\* A hunk behind all the others.
LEMMA AppendOrdered ==
  ASSUME NEW H, NEW hs \in Seq(H), NEW h \in H, Ordered(hs), h.start <= h.end,
         \A i \in 1 .. Len(hs) : hs[i].end <= h.start
  PROVE  Ordered(Append(hs, h))
<1> DEFINE more == Append(hs, h)
<1>1. /\ Len(more) = Len(hs) + 1 /\ Len(hs) \in Nat
      /\ \A i \in 1 .. Len(hs) : more[i] = hs[i]
      /\ more[Len(hs) + 1] = h
  BY AppendProperties, LenProperties
<1> HIDE DEF more
<1> SUFFICES ASSUME NEW k \in 1 .. Len(more)
             PROVE  /\ more[k].start <= more[k].end
                    /\ \A m \in k + 1 .. Len(more) : more[k].end <= more[m].start
  BY DEF Ordered, more
<1>2. CASE k = Len(hs) + 1
  <2>1. more[k] = h /\ k + 1 .. Len(more) = {}
    BY <1>1, <1>2
  <2> QED
    BY <2>1
<1>3. CASE k # Len(hs) + 1
  <2>1. k \in 1 .. Len(hs) /\ more[k] = hs[k]
    BY <1>1, <1>3
  <2>2. ASSUME NEW m \in k + 1 .. Len(more) PROVE more[k].end <= more[m].start
    <3>1. CASE m = Len(hs) + 1
      BY <1>1, <2>1, <3>1
    <3>2. CASE m # Len(hs) + 1
      <4>1. m \in k + 1 .. Len(hs) /\ m \in 1 .. Len(hs)
        BY <1>1, <2>1, <3>2
      <4> QED
        BY <1>1, <2>1, <4>1 DEF Ordered
    <3> QED
      BY <3>1, <3>2
  <2> QED
    BY <2>1, <2>2 DEF Ordered
<1> QED
  BY <1>2, <1>3

\* hunksFrom lists what lies between the pairs and is not empty, in their order.
LEMMA HunksOK ==
  ASSUME NEW H, NEW side, NEW eq, Len(eq) \in Nat \ {0},
         \A h \in H : h.end \in Nat,
         \A k \in 1 .. Len(eq) - 1 : /\ Gap(side, eq, k) \in H
                                     /\ eq[k][1] \in Nat /\ eq[k + 1][1] \in Nat
                                     /\ eq[k][1] < eq[k + 1][1]
  PROVE  /\ HunksBetween(side, eq) \in Seq(H) /\ Ordered(HunksBetween(side, eq))
         /\ \A k \in 1 .. Len(eq) - 1 :
              Changes(Gap(side, eq, k)) => Has(HunksBetween(side, eq), Gap(side, eq, k))
<1> DEFINE N == Len(eq) - 1
           T == Seq(H)
           Next1(k, hs) == IF Changes(Gap(side, eq, k)) THEN Append(hs, Gap(side, eq, k)) ELSE hs
           rec(f) == [k \in 0 .. N |-> IF k = 0 THEN << >>
                                       ELSE IF Changes(Gap(side, eq, k)) THEN Append(f[k - 1], Gap(side, eq, k))
                                       ELSE f[k - 1]]
           hunks == CHOOSE f : f = rec(f)
           g == [p \in (1 .. N) \X T |-> Next1(p[1], p[2])]
<1>1. N \in Nat /\ \A k \in 1 .. N : Gap(side, eq, k) \in H
  OBVIOUS
<1>10. \A k \in 1 .. N : /\ eq[k][1] \in Nat /\ eq[k + 1][1] \in Nat /\ eq[k][1] < eq[k + 1][1]
                         /\ Gap(side, eq, k).start = eq[k][1] /\ Gap(side, eq, k).end = eq[k + 1][1] - 1
  <2> SUFFICES ASSUME NEW k \in 1 .. N
               PROVE  /\ eq[k][1] \in Nat /\ eq[k + 1][1] \in Nat /\ eq[k][1] < eq[k + 1][1]
                      /\ Gap(side, eq, k).start = eq[k][1] /\ Gap(side, eq, k).end = eq[k + 1][1] - 1
    OBVIOUS
  <2>1. Gap(side, eq, k).start = eq[k][1] /\ Gap(side, eq, k).end = eq[k + 1][1] - 1
    BY DEF Gap
  <2> QED
    BY <2>1
<1>2. << >> \in T
  BY EmptySeq
<1>3. HunksBetween(side, eq) = hunks[N]
  BY DEF HunksBetween
<1>4. g \in [(1 .. N) \X T -> T]
  <2>1. \A k \in 1 .. N, hs \in T : Next1(k, hs) \in T
    BY <1>1, AppendProperties
  <2> HIDE DEF T, Next1
  <2> QED
    BY <2>1
<1> HIDE DEF N, T
<1>5. \E f : f = rec(f)
  <2> HIDE DEF g
  <2>0. PICK f : Passes(f, N, T, << >>, g)
    BY <1>1, <1>2, <1>4, PassesExist
  <2>1. f \in [0 .. N -> T] /\ f[0] = << >> /\ \A n \in 1 .. N : f[n] = g[<<n, f[n - 1]>>]
    BY <2>0 DEF Passes
  <2>2. ASSUME NEW n \in 0 .. N
        PROVE  f[n] = IF n = 0 THEN << >> ELSE Next1(n, f[n - 1])
    <3>1. CASE n = 0
      BY <2>1, <3>1
    <3>2. CASE n # 0
      <4>1. n \in 1 .. N /\ n - 1 \in 0 .. N
        BY <1>1, <3>2
      <4>2. f[n - 1] \in T /\ f[n] = g[<<n, f[n - 1]>>]
        BY <2>1, <4>1
      <4> HIDE DEF Next1
      <4> QED
        BY <3>2, <4>1, <4>2 DEF g
    <3> QED
      BY <3>1, <3>2
  <2>3. f = rec(f)
    BY <2>1, <2>2
  <2> QED
    BY <2>3
<1>6. hunks = rec(hunks)
  BY <1>5
<1> HIDE DEF hunks
<1>7. /\ hunks[0] = << >>
      /\ \A n \in 1 .. N : hunks[n] = Next1(n, hunks[n - 1])
  <2>1. 0 \in 0 .. N /\ \A n \in 1 .. N : n \in 0 .. N /\ n # 0
    BY <1>1
  <2>2. \A n \in 0 .. N : hunks[n] = IF n = 0 THEN << >> ELSE Next1(n, hunks[n - 1])
    <3> HIDE DEF N
    <3> QED
      BY <1>6, Zenon
  <2> QED
    BY <2>1, <2>2, Zenon
<1> DEFINE Listed(n, hs) == \A k \in 1 .. n : Changes(Gap(side, eq, k)) => Has(hs, Gap(side, eq, k))
           Before(n, hs) == \A i \in 1 .. Len(hs) : hs[i].end < eq[n + 1][1]
           S == [n \in 0 .. N |-> {hs \in T : Listed(n, hs) /\ Before(n, hs) /\ Ordered(hs)}]
<1>8. \A n \in 0 .. N : hunks[n] \in S[n]
  <2>1. hunks[0] \in S[0]
    <3>1. Len(<< >>) = 0
      BY EmptySeq
    <3>2. Ordered(<< >>) /\ Before(0, << >>) /\ Listed(0, << >>)
      BY <3>1 DEF Ordered
    <3> HIDE DEF Before, Listed
    <3> QED
      BY <1>1, <1>2, <1>7, <3>2
  <2>2. ASSUME NEW n \in 1 .. N, hunks[n - 1] \in S[n - 1] PROVE hunks[n] \in S[n]
    <3> DEFINE hs == hunks[n - 1]
               gap == Gap(side, eq, n)
    <3>1. n \in 0 .. N /\ n - 1 \in 0 .. N /\ gap \in H
      BY <1>1
    <3>2. /\ hs \in T /\ \A k \in 1 .. (n - 1) : Changes(Gap(side, eq, k)) => Has(hs, Gap(side, eq, k))
          /\ Before(n - 1, hs) /\ Ordered(hs)
      BY <2>2, <3>1
    <3>3. hunks[n] = IF Changes(gap) THEN Append(hs, gap) ELSE hs
      BY <1>7
    <3> HIDE DEF hs, gap
    <3>4. /\ Append(hs, gap) \in T /\ Has(Append(hs, gap), gap)
          /\ \A h : Has(hs, h) => Has(Append(hs, gap), h)
      <4>1. /\ Append(hs, gap) \in Seq(H) /\ Len(Append(hs, gap)) = Len(hs) + 1
            /\ \A i \in 1 .. Len(hs) : Append(hs, gap)[i] = hs[i]
            /\ Append(hs, gap)[Len(hs) + 1] = gap
        BY <3>1, <3>2, AppendProperties DEF T
      <4>2. Len(hs) \in Nat
        BY <3>2, LenProperties DEF T
      <4> QED
        BY <4>1, <4>2 DEF Has, T
    <3>5. hunks[n] \in T /\ (Changes(gap) => Has(hunks[n], gap)) /\ \A h : Has(hs, h) => Has(hunks[n], h)
      BY <3>2, <3>3, <3>4
    <3>6. ASSUME NEW k \in 1 .. n, Changes(Gap(side, eq, k)) PROVE Has(hunks[n], Gap(side, eq, k))
      <4>1. CASE k = n
        BY <3>5, <3>6, <4>1 DEF gap
      <4>2. CASE k # n
        <5>1. k \in 1 .. (n - 1)
          BY <1>1, <4>2
        <5> QED
          BY <3>2, <3>5, <3>6, <5>1
      <4> QED
        BY <4>1, <4>2
    <3>7. Listed(n, hunks[n])
      BY <3>6
    <3>8. hunks[n] \in T /\ (hunks[n] = hs \/ hunks[n] = Append(hs, gap))
      BY <3>3, <3>5
    <3>9. /\ gap.start = eq[n][1] /\ gap.end = eq[n + 1][1] - 1
          /\ eq[n][1] \in Nat /\ eq[n + 1][1] \in Nat /\ eq[n][1] < eq[n + 1][1]
      BY <1>10 DEF gap
    <3>10. \A i \in 1 .. Len(hs) : hs[i].end \in Nat /\ hs[i].end < eq[n][1]
      <4>1. \A i \in 1 .. Len(hs) : hs[i] \in H
        BY <3>2, ElementOfSeq DEF T
      <4>2. n - 1 + 1 = n
        BY <1>1
      <4> QED
        BY <3>2, <4>1, <4>2
    <3>11. Before(n, hunks[n])
      <4>1. Before(n, hs)
        <5> DEFINE u == eq[n][1]
                   v == eq[n + 1][1]
        <5>1. u \in Nat /\ v \in Nat /\ u < v /\ \A i \in 1 .. Len(hs) : hs[i].end \in Nat /\ hs[i].end < u
          BY <3>9, <3>10
        <5> HIDE DEF u, v
        <5>2. \A i \in 1 .. Len(hs) : hs[i].end < v
          BY <5>1
        <5> QED
          BY <5>2 DEF v
      <4>2. Before(n, Append(hs, gap))
        <5>1. /\ Len(Append(hs, gap)) = Len(hs) + 1 /\ Len(hs) \in Nat
              /\ \A i \in 1 .. Len(hs) : Append(hs, gap)[i] = hs[i]
              /\ Append(hs, gap)[Len(hs) + 1] = gap
          BY <3>1, <3>2, AppendProperties, LenProperties DEF T
        <5> DEFINE e == eq[n + 1][1]
                   more == Append(hs, gap)
        <5>2. e \in Nat /\ gap.end = e - 1
          BY <3>9
        <5>3. \A i \in 1 .. Len(hs) : hs[i].end < e
          BY <4>1
        <5>5. /\ Len(more) = Len(hs) + 1 /\ Len(hs) \in Nat /\ more[Len(hs) + 1] = gap
              /\ \A i \in 1 .. Len(hs) : more[i] = hs[i]
          BY <5>1
        <5> HIDE DEF e, more
        <5>4. ASSUME NEW i \in 1 .. Len(more) PROVE more[i].end < e
          <6>1. CASE i = Len(hs) + 1
            BY <5>2, <5>5, <6>1
          <6>2. CASE i # Len(hs) + 1
            <7>1. i \in 1 .. Len(hs)
              BY <5>5, <6>2
            <7> QED
              BY <5>3, <5>5, <7>1
          <6> QED
            BY <6>1, <6>2
        <5> QED
          BY <5>4 DEF e, more
      <4> HIDE DEF Before
      <4> QED
        BY <3>8, <4>1, <4>2
    <3>12. Ordered(hunks[n])
      <4>1. gap.start <= gap.end /\ \A i \in 1 .. Len(hs) : hs[i].end <= gap.start
        BY <3>9, <3>10
      <4>2. Ordered(Append(hs, gap))
        BY <3>1, <3>2, <4>1, AppendOrdered DEF T
      <4> QED
        BY <3>2, <3>8, <4>2
    <3> HIDE DEF Listed, Before
    <3> QED
      BY <3>1, <3>7, <3>8, <3>11, <3>12
  <2> HIDE DEF S
  <2> QED
    BY <1>1, <2>1, <2>2, EveryPass
<1>9. hunks[N] \in S[N] /\ N \in 0 .. N
  BY <1>1, <1>8
<1>11. hunks[N] \in T /\ Listed(N, hunks[N]) /\ Ordered(hunks[N])
  BY <1>9
<1> QED
  BY <1>3, <1>11 DEF N, T

\* The pairs between the two fences.
LEMMA Fenced ==
  ASSUME NEW e \in Seq(Pairs), NEW last \in Pairs, NEW eq, eq = <<<<0, 0>>>> \o e \o <<last>>
  PROVE  /\ Len(eq) = Len(e) + 2 /\ Len(e) \in Nat
         /\ eq[1] = <<0, 0>>
         /\ \A k \in 2 .. Len(e) + 1 : eq[k] = e[k - 1]
         /\ \A k : k = Len(e) + 2 => eq[k] = last
<1> DEFINE one == <<<<0, 0>>>> \o e
<1>1. <<0, 0>> \in Pairs
  BY DEF Pairs
<1>2. /\ one \in Seq(Pairs) /\ Len(one) = Len(e) + 1 /\ one[1] = <<0, 0>>
      /\ \A k \in 2 .. Len(e) + 1 : one[k] = e[k - 1]
  BY <1>1, Prepend
<1>3. eq = one \o <<last>>
  OBVIOUS
<1> HIDE DEF one
<1>4. eq = Append(one, last)
  BY <1>2, <1>3, AppendIsConcat
<1>5. /\ Len(eq) = Len(one) + 1
      /\ \A i \in 1 .. Len(one) : eq[i] = one[i]
      /\ eq[Len(one) + 1] = last
  <2>1. one \in Seq(Pairs) /\ last \in Pairs
    BY <1>2
  <2>2. /\ Len(Append(one, last)) = Len(one) + 1
        /\ \A i \in 1 .. Len(one) : Append(one, last)[i] = one[i]
        /\ Append(one, last)[Len(one) + 1] = last
    <3> HIDE DEF Pairs
    <3> QED
      BY <2>1, AppendProperties
  <2> QED
    BY <1>4, <2>2
<1>6. Len(e) \in Nat
  BY LenProperties
<1>7. \A i \in 1 .. Len(e) + 1 : eq[i] = one[i]
  BY <1>2, <1>5, <1>6
<1>8. eq[1] = <<0, 0>> /\ \A k \in 2 .. Len(e) + 1 : eq[k] = e[k - 1]
  BY <1>2, <1>6, <1>7
<1>9. \A k : k = Len(e) + 2 => k = Len(one) + 1
  BY <1>2, <1>6
<1> QED
  BY <1>2, <1>5, <1>6, <1>8, <1>9

\* No hunk replaces line p of the base.
Outside(hunks, p) == \A k \in 1 .. Len(hunks) : ~(hunks[k].start < p /\ p <= hunks[k].end)

\* The hunks of a side lie in the base, one behind the other, and hold lines of the side;
\* every line of the side that the base does not have is in one of them, and the side has
\* every line of the base that none of them replaces.
HunksOf(L, base, side, hunks) ==
  /\ hunks \in Seq(Hunks(L, Len(base))) /\ Ordered(hunks)
  /\ \A p \in 1 .. Len(base) : Outside(hunks, p) => Has(side, base[p])
  /\ \A k \in 1 .. Len(hunks) : \A l : Has(hunks[k].lines, l) => Has(side, l)
  /\ \A l : Has(side, l) /\ ~Has(base, l) => \E k \in 1 .. Len(hunks) : Has(hunks[k].lines, l)

\* hunksFrom finds the hunks of a side.
LEMMA HunksFromOK ==
  ASSUME NEW L, NEW base \in Seq(L), NEW side \in Seq(L)
  PROVE  HunksOf(L, base, side, HunksFrom(base, side))
<1> DEFINE n == Len(base)
           m == Len(side)
           e == Equals(base, side)
           eq == <<<<0, 0>>>> \o e \o <<<<n + 1, m + 1>>>>
           hunks == HunksFrom(base, side)
<1>1. n \in Nat /\ m \in Nat
  BY LenProperties
<1>2. e \in Seq(Pairs) /\ Matching(base, side, e, 0, 0) /\ Increasing(e)
  BY EqualsOK
<1>3. hunks = HunksBetween(side, eq)
  BY DEF HunksFrom
<1> HIDE DEF n, m, e, hunks
<1>4. <<n + 1, m + 1>> \in Pairs
  BY <1>1 DEF Pairs
<1>5. /\ Len(eq) = Len(e) + 2 /\ Len(e) \in Nat
      /\ eq[1] = <<0, 0>>
      /\ \A k \in 2 .. Len(e) + 1 : eq[k] = e[k - 1]
      /\ \A k : k = Len(e) + 2 => eq[k] = <<n + 1, m + 1>>
  BY <1>2, <1>4, Fenced
<1> HIDE DEF eq
<1>6. \A k \in 2 .. Len(e) + 1 :
        eq[k][1] \in 1 .. n /\ eq[k][2] \in 1 .. m /\ base[eq[k][1]] = side[eq[k][2]]
  <2> SUFFICES ASSUME NEW k \in 2 .. Len(e) + 1
               PROVE  eq[k][1] \in 1 .. n /\ eq[k][2] \in 1 .. m /\ base[eq[k][1]] = side[eq[k][2]]
    OBVIOUS
  <2>1. k - 1 \in 1 .. Len(e) /\ eq[k] = e[k - 1]
    BY <1>5
  <2>2. /\ e[k - 1][1] \in (0 + 1) .. n /\ e[k - 1][2] \in (0 + 1) .. m
        /\ base[e[k - 1][1]] = side[e[k - 1][2]]
    BY <1>2, <2>1 DEF Matching, n, m
  <2> QED
    BY <1>1, <2>1, <2>2
<1>7. \A k \in 1 .. Len(e) + 1 : eq[k][1] \in 0 .. n /\ eq[k][2] \in 0 .. m
  <2> SUFFICES ASSUME NEW k \in 1 .. Len(e) + 1 PROVE eq[k][1] \in 0 .. n /\ eq[k][2] \in 0 .. m
    OBVIOUS
  <2>1. CASE k = 1
    BY <1>1, <1>5, <2>1
  <2>2. CASE k # 1
    <3>1. k \in 2 .. Len(e) + 1
      BY <1>5, <2>2
    <3> QED
      BY <1>1, <1>6, <3>1
  <2> QED
    BY <2>1, <2>2
<1>8. \A k \in 2 .. Len(e) + 2 : eq[k][1] \in 1 .. n + 1 /\ eq[k][2] \in 1 .. m + 1
  <2> SUFFICES ASSUME NEW k \in 2 .. Len(e) + 2 PROVE eq[k][1] \in 1 .. n + 1 /\ eq[k][2] \in 1 .. m + 1
    OBVIOUS
  <2>1. CASE k = Len(e) + 2
    BY <1>1, <1>5, <2>1
  <2>2. CASE k # Len(e) + 2
    <3>1. k \in 2 .. Len(e) + 1
      BY <1>5, <2>2
    <3> QED
      BY <1>1, <1>6, <3>1
  <2> QED
    BY <2>1, <2>2
<1>9. \A k \in 1 .. Len(e) + 1 :
        /\ Gap(side, eq, k) \in Hunks(L, n)
        /\ \A l : Has(Gap(side, eq, k).lines, l) <=>
                    \E q \in eq[k][2] + 1 .. eq[k + 1][2] - 1 : side[q] = l
  <2> SUFFICES ASSUME NEW k \in 1 .. Len(e) + 1
               PROVE  /\ Gap(side, eq, k) \in Hunks(L, n)
                      /\ \A l : Has(Gap(side, eq, k).lines, l) <=>
                                  \E q \in eq[k][2] + 1 .. eq[k + 1][2] - 1 : side[q] = l
    OBVIOUS
  <2> DEFINE from == eq[k][2] + 1
             to == eq[k + 1][2] - 1
             part == SubSeq(side, from, to)
             first == eq[k][1]
             end == eq[k + 1][1] - 1
  <2>1. eq[k][1] \in 0 .. n /\ eq[k][2] \in 0 .. m
    BY <1>7
  <2>2. k + 1 \in 2 .. Len(e) + 2
    BY <1>5
  <2>3. eq[k + 1][1] \in 1 .. n + 1 /\ eq[k + 1][2] \in 1 .. m + 1
    BY <1>8, <2>2
  <2>4. Gap(side, eq, k) = [start |-> first, end |-> end, lines |-> part]
    BY DEF Gap
  <2>5. first \in 0 .. n /\ end \in 0 .. n /\ from \in Nat \ {0} /\ to \in Int /\ to <= Len(side)
    <3>1. \A x \in 1 .. n + 1 : x - 1 \in 0 .. n
      BY <1>1
    <3>2. \A x \in 1 .. m + 1 : x - 1 \in Int /\ x - 1 <= m
      BY <1>1
    <3>3. \A x \in 0 .. m : x + 1 \in Nat \ {0}
      BY <1>1
    <3> QED
      BY <2>1, <2>3, <3>1, <3>2, <3>3, Zenon DEF m
  <2> HIDE DEF from, to, first, end
  <2>6. part \in Seq(L) /\ \A l : Has(part, l) <=> \E q \in from .. to : side[q] = l
    BY <2>5, PartOf
  <2> HIDE DEF part
  <2>7. Gap(side, eq, k) \in Hunks(L, n) /\ Gap(side, eq, k).lines = part
    BY <2>4, <2>5, <2>6 DEF Hunks
  <2> QED
    BY <2>6, <2>7 DEF from, to
<1>13. \A k \in 1 .. Len(e) + 1 : /\ eq[k][1] \in Nat /\ eq[k + 1][1] \in Nat
                                 /\ eq[k][1] < eq[k + 1][1]
  <2> SUFFICES ASSUME NEW k \in 1 .. Len(e) + 1
               PROVE  eq[k][1] \in Nat /\ eq[k + 1][1] \in Nat /\ eq[k][1] < eq[k + 1][1]
    OBVIOUS
  <2> DEFINE u == eq[k][1]
             v == eq[k + 1][1]
  <2>1. u \in 0 .. n
    BY <1>7
  <2>2. k + 1 \in 2 .. Len(e) + 2
    BY <1>5
  <2>3. v \in 1 .. n + 1
    BY <1>8, <2>2
  <2>4. CASE k = 1
    <3>1. u = 0
      BY <1>5, <2>4
    <3> HIDE DEF u, v
    <3>2. u \in Nat /\ v \in Nat /\ u < v
      BY <1>1, <2>3, <3>1
    <3> QED
      BY <3>2 DEF u, v
  <2>5. CASE k = Len(e) + 1
    <3>1. v = n + 1
      <4>1. k + 1 = Len(e) + 2
        BY <1>5, <2>5
      <4> DEFINE next == k + 1
      <4> HIDE DEF next
      <4>2. eq[next] = <<n + 1, m + 1>>
        BY <1>5, <4>1 DEF next
      <4> QED
        BY <4>2 DEF next
    <3> HIDE DEF u, v
    <3>2. u \in Nat /\ v \in Nat /\ u < v
      BY <1>1, <2>1, <3>1
    <3> QED
      BY <3>2 DEF u, v
  <2>6. CASE k # 1 /\ k # Len(e) + 1
    <3>1. /\ k - 1 \in 1 .. Len(e) /\ k \in 1 .. Len(e) /\ k - 1 < k
          /\ k \in 2 .. Len(e) + 1 /\ k + 1 \in 2 .. Len(e) + 1 /\ k + 1 - 1 = k
      BY <1>5, <2>6
    <3>2. eq[k] = e[k - 1] /\ eq[k + 1] = e[k]
      BY <1>5, <3>1
    <3>3. u < v
      BY <1>2, <3>1, <3>2 DEF Increasing
    <3>4. u \in Nat /\ v \in Nat
      <4> HIDE DEF u, v
      <4> QED
        BY <1>1, <2>1, <2>3
    <3> QED
      BY <3>3, <3>4
  <2> QED
    BY <2>4, <2>5, <2>6
<1>10. Len(eq) \in Nat \ {0} /\ \A k \in 1 .. Len(eq) - 1 : k \in 1 .. Len(e) + 1
  BY <1>5
<1>11. /\ hunks \in Seq(Hunks(L, n)) /\ Ordered(hunks)
       /\ \A k \in 1 .. Len(eq) - 1 : Changes(Gap(side, eq, k)) => Has(hunks, Gap(side, eq, k))
  <2> DEFINE H == Hunks(L, n)
  <2>1. \A h \in H : h.end \in Nat
    BY <1>1 DEF Hunks
  <2>2. \A k \in 1 .. Len(eq) - 1 : /\ Gap(side, eq, k) \in H
                                   /\ eq[k][1] \in Nat /\ eq[k + 1][1] \in Nat
                                   /\ eq[k][1] < eq[k + 1][1]
    BY <1>9, <1>10, <1>13
  <2> HIDE DEF H
  <2>3. /\ hunks \in Seq(H) /\ Ordered(hunks)
        /\ \A k \in 1 .. Len(eq) - 1 : Changes(Gap(side, eq, k)) => Has(hunks, Gap(side, eq, k))
    BY <1>3, <1>10, <2>1, <2>2, HunksOK
  <2> QED
    BY <2>3 DEF H
<1>15. \A k \in 1 .. Len(hunks) : \A l : Has(hunks[k].lines, l) => Has(side, l)
  <2> DEFINE H == {h \in Hunks(L, n) : \A l : Has(h.lines, l) => Has(side, l)}
  <2>1. \A h \in H : h.end \in Nat
    BY <1>1 DEF Hunks
  <2>2. \A k \in 1 .. Len(eq) - 1 : /\ Gap(side, eq, k) \in H
                                   /\ eq[k][1] \in Nat /\ eq[k + 1][1] \in Nat
                                   /\ eq[k][1] < eq[k + 1][1]
    <3> SUFFICES ASSUME NEW k \in 1 .. Len(eq) - 1 PROVE Gap(side, eq, k) \in H
      BY <1>10, <1>13
    <3>1. k \in 1 .. Len(e) + 1 /\ k + 1 \in 2 .. Len(e) + 2
      BY <1>5, <1>10
    <3>2. eq[k][2] \in 0 .. m /\ eq[k + 1][2] \in 1 .. m + 1
      BY <1>7, <1>8, <3>1
    <3> DEFINE u == eq[k][2]
               v == eq[k + 1][2]
               gap == Gap(side, eq, k)
    <3>3. \A q \in u + 1 .. v - 1 : q \in 1 .. m
      <4>1. u \in 0 .. m /\ v \in 1 .. m + 1
        BY <3>2
      <4> HIDE DEF u, v, m
      <4> QED
        BY <1>1, <4>1
    <3>4. gap \in Hunks(L, n) /\ \A l : Has(gap.lines, l) <=> \E q \in u + 1 .. v - 1 : side[q] = l
      BY <1>9, <3>1
    <3> HIDE DEF u, v, gap
    <3>5. \A l : Has(gap.lines, l) => Has(side, l)
      BY <3>3, <3>4 DEF Has, m
    <3> QED
      BY <3>4, <3>5 DEF gap
  <2> HIDE DEF H
  <2>3. hunks \in Seq(H)
    BY <1>3, <1>10, <2>1, <2>2, HunksOK
  <2>4. \A k \in 1 .. Len(hunks) : hunks[k] \in H
    BY <2>3, ElementOfSeq
  <2> QED
    BY <2>4 DEF H
<1>12. ASSUME NEW l, Has(side, l), ~Has(base, l)
       PROVE  \E k \in 1 .. Len(hunks) : Has(hunks[k].lines, l)
  <2>1. PICK q \in 1 .. m : side[q] = l
    BY <1>12 DEF Has, m
  <2> DEFINE T == {k \in 1 .. Len(e) + 2 : q <= eq[k][2]}
  <2>2. T \in SUBSET Nat
    BY <1>5
  <2>3. Len(e) + 2 \in T
    <3> DEFINE k == Len(e) + 2
    <3>1. k \in 1 .. Len(e) + 2 /\ eq[k][2] = m + 1
      BY <1>5
    <3> QED
      BY <1>1, <3>1
  <2>4. PICK k \in T : \A j \in T : k <= j
    <3> HIDE DEF T
    <3> QED
      BY <2>2, <2>3, LeastElement
  <2>5. k # 1
    BY <1>5, <2>4
  <2> DEFINE j == k - 1
  <2>6. j \in 1 .. Len(e) + 1 /\ k = j + 1 /\ j \notin T
    BY <1>5, <2>4, <2>5
  <2>7. ~(q <= eq[j][2])
    BY <1>5, <2>6
  <2>8. q # eq[k][2]
    <3> SUFFICES ASSUME q = eq[k][2] PROVE FALSE
      OBVIOUS
    <3>1. k # Len(e) + 2
      BY <1>1, <1>5
    <3>2. k \in 2 .. Len(e) + 1
      BY <1>5, <2>4, <2>5, <3>1
    <3>3. eq[k][1] \in 1 .. n /\ base[eq[k][1]] = l
      BY <1>6, <2>1, <3>2
    <3> QED
      BY <1>12, <3>3 DEF Has, n
  <2>9. q <= eq[k][2] /\ eq[k][2] \in 1 .. m + 1 /\ eq[j][2] \in 0 .. m
    BY <1>5, <1>7, <1>8, <2>4, <2>5, <2>6
  <2> HIDE DEF j, T
  <2>10. q \in eq[j][2] + 1 .. eq[j + 1][2] - 1
    <3> DEFINE u == eq[j][2]
               v == eq[k][2]
    <3>1. q \in 1 .. m /\ m \in Nat /\ u \in 0 .. m /\ v \in 1 .. m + 1 /\ ~(q <= u) /\ q <= v /\ q # v
      BY <1>1, <2>1, <2>7, <2>8, <2>9
    <3>2. q \in u + 1 .. v - 1
      <4> HIDE DEF u, v, m
      <4> QED
        BY <3>1
    <3> QED
      BY <2>6, <3>2
  <2> DEFINE gap == Gap(side, eq, j)
  <2>11. Has(gap.lines, l)
    BY <1>9, <2>1, <2>6, <2>10
  <2> HIDE DEF gap
  <2>12. gap.lines # << >>
    <3>1. Len(<< >>) = 0
      BY EmptySeq
    <3> QED
      BY <2>11, <3>1 DEF Has
  <2>13. Changes(gap)
    BY <2>12 DEF Changes
  <2>14. j \in 1 .. Len(eq) - 1
    BY <1>5, <2>6
  <2>15. Has(hunks, gap)
    BY <1>11, <2>13, <2>14 DEF gap
  <2> QED
    BY <2>11, <2>15 DEF Has
<1>14. ASSUME NEW p \in 1 .. n, Outside(hunks, p)
       PROVE  Has(side, base[p])
  <2> DEFINE T == {k \in 1 .. Len(e) + 2 : p <= eq[k][1]}
  <2>1. T \in SUBSET Nat
    BY <1>5
  <2>2. Len(e) + 2 \in T
    <3> DEFINE k == Len(e) + 2
    <3>1. k \in 1 .. Len(e) + 2 /\ eq[k][1] = n + 1
      BY <1>5
    <3> QED
      BY <1>1, <3>1
  <2>3. PICK k \in T : \A j \in T : k <= j
    <3> HIDE DEF T
    <3> QED
      BY <2>1, <2>2, LeastElement
  <2>4. k # 1
    BY <1>5, <2>3
  <2> DEFINE j == k - 1
  <2>5. j \in 1 .. Len(e) + 1 /\ k = j + 1 /\ j \notin T
    BY <1>5, <2>3, <2>4
  <2>6. ~(p <= eq[j][1])
    BY <1>5, <2>5
  <2>7. CASE p = eq[k][1]
    <3>1. k # Len(e) + 2
      BY <1>1, <1>5, <2>7
    <3>2. k \in 2 .. Len(e) + 1
      BY <1>5, <2>3, <2>4, <3>1
    <3>3. eq[k][2] \in 1 .. m /\ side[eq[k][2]] = base[p]
      BY <1>6, <2>7, <3>2
    <3> QED
      BY <3>3 DEF Has, m
  <2>8. CASE p # eq[k][1]
    <3> DEFINE u == eq[j][1]
               v == eq[k][1]
               gap == Gap(side, eq, j)
    <3>1. p <= v
      BY <2>3
    <3> HIDE DEF j
    <3>2. u \in Nat /\ v \in Nat /\ gap.start = u /\ gap.end = v - 1
      <4>1. gap.start = eq[j][1] /\ gap.end = eq[j + 1][1] - 1
        BY DEF Gap
      <4> QED
        BY <1>13, <2>5, <4>1
    <3>3. ~(p <= u) /\ p # v
      BY <2>6, <2>8
    <3> HIDE DEF u, v, gap, T
    <3>4. gap.start < p /\ p <= gap.end /\ gap.start < gap.end
      BY <3>1, <3>2, <3>3
    <3>5. Has(hunks, gap)
      <4>1. Changes(gap)
        BY <3>4 DEF Changes
      <4>2. j \in 1 .. Len(eq) - 1
        BY <1>5, <2>5
      <4> QED
        BY <1>11, <4>1, <4>2 DEF gap
    <3> QED
      BY <1>14, <3>4, <3>5 DEF Has, Outside
  <2> QED
    BY <2>7, <2>8
<1> QED
  BY <1>11, <1>12, <1>14, <1>15 DEF n, hunks, HunksOf

-----------------------------------------------------------------------------
(* What meeting hunks leave.                                                *)

\* The replacement is made hunk by hunk: the base up to a hunk, then the lines of the hunk.
Replaces(L, base, hunks, start, end) ==
  LET before(k) == SubSeq(base, (IF k = 1 THEN start ELSE hunks[k - 1].end) + 1, hunks[k].start)
      rest == SubSeq(base, (IF hunks = << >> THEN start ELSE hunks[Len(hunks)].end) + 1, end)
  IN  /\ rest \in Seq(L)
      /\ \A k \in 1 .. Len(hunks) : before(k) \in Seq(L) /\ hunks[k].lines \in Seq(L)
      /\ \E out : /\ TakeReplacement(hunks, base, start, end) = out[Len(hunks)] \o rest
                  /\ out[0] = << >>
                  /\ \A k \in 1 .. Len(hunks) : out[k] = out[k - 1] \o before(k) \o hunks[k].lines

\* takeReplacement copies the base up to a hunk, takes in the hunk and goes on behind it.
LEMMA ReplacementIs ==
  ASSUME NEW L, NEW base \in Seq(L), NEW hunks \in Seq(Hunks(L, Len(base))),
         NEW start \in 0 .. Len(base), NEW end \in 0 .. Len(base)
  PROVE  Replaces(L, base, hunks, start, end)
<1> DEFINE N == Len(hunks)
           T == Seq(L)
           before(k) == SubSeq(base, (IF k = 1 THEN start ELSE hunks[k - 1].end) + 1, hunks[k].start)
           rec(f) == [k \in 0 .. N |->
                        IF k = 0 THEN << >> ELSE f[k - 1] \o before(k) \o hunks[k].lines]
           out == CHOOSE f : f = rec(f)
           g == [p \in (1 .. N) \X T |-> p[2] \o before(p[1]) \o hunks[p[1]].lines]
           last == IF hunks = << >> THEN start ELSE hunks[N].end
           rest == SubSeq(base, last + 1, end)
<1>1. N \in Nat /\ Len(base) \in Nat /\ \A k \in 1 .. N : hunks[k] \in Hunks(L, Len(base))
  BY LenProperties, ElementOfSeq
<1>2. << >> \in T
  BY EmptySeq
<1>3. \A k \in 1 .. N : before(k) \in T /\ hunks[k].lines \in T
  <2> SUFFICES ASSUME NEW k \in 1 .. N PROVE before(k) \in T /\ hunks[k].lines \in T
    OBVIOUS
  <2> DEFINE cursor == IF k = 1 THEN start ELSE hunks[k - 1].end
  <2>1. cursor \in 0 .. Len(base)
    <3>1. k = 1 \/ k - 1 \in 1 .. N
      BY <1>1
    <3> QED
      BY <1>1, <3>1 DEF Hunks
  <2>2. hunks[k].start \in 0 .. Len(base) /\ hunks[k].lines \in T
    BY <1>1 DEF Hunks
  <2> HIDE DEF cursor
  <2>3. SubSeq(base, cursor + 1, hunks[k].start) \in T
    <3>1. cursor + 1 \in Nat \ {0} /\ hunks[k].start \in Int /\ hunks[k].start <= Len(base)
      BY <1>1, <2>1, <2>2
    <3> QED
      BY <3>1, PartOf
  <2> QED
    BY <2>2, <2>3 DEF cursor
<1>4. rest \in T
  <2>1. last \in 0 .. Len(base)
    <3>1. hunks = << >> \/ N \in 1 .. N
      BY <1>1, EmptySeq
    <3> QED
      BY <1>1, <3>1 DEF Hunks
  <2>2. last + 1 \in Nat \ {0} /\ end \in Int /\ end <= Len(base)
    BY <1>1, <2>1
  <2> HIDE DEF last
  <2> QED
    BY <2>2, PartOf
<1>5. TakeReplacement(hunks, base, start, end) = out[N] \o rest
  BY DEF TakeReplacement
<1> HIDE DEF N, before, rest
<1>6. \A k \in 1 .. N : \A s \in T : s \o before(k) \o hunks[k].lines \in T
  BY <1>3, HasConcat
<1>7. g \in [(1 .. N) \X T -> T]
  <2> HIDE DEF T
  <2> QED
    BY <1>6
<1> HIDE DEF T
<1>8. \E f : f = rec(f)
  <2> HIDE DEF g
  <2>0. PICK f : Passes(f, N, T, << >>, g)
    BY <1>1, <1>2, <1>7, PassesExist
  <2>1. f \in [0 .. N -> T] /\ f[0] = << >> /\ \A n \in 1 .. N : f[n] = g[<<n, f[n - 1]>>]
    BY <2>0 DEF Passes
  <2>2. ASSUME NEW n \in 0 .. N
        PROVE  f[n] = IF n = 0 THEN << >> ELSE f[n - 1] \o before(n) \o hunks[n].lines
    <3>1. CASE n = 0
      BY <2>1, <3>1
    <3>2. CASE n # 0
      <4>1. n \in 1 .. N /\ n - 1 \in 0 .. N
        BY <1>1, <3>2
      <4>2. f[n - 1] \in T /\ f[n] = g[<<n, f[n - 1]>>]
        BY <2>1, <4>1
      <4> QED
        BY <3>2, <4>1, <4>2 DEF g
    <3> QED
      BY <3>1, <3>2
  <2>3. f = rec(f)
    BY <2>1, <2>2
  <2> QED
    BY <2>3
<1>9. out = rec(out)
  BY <1>8
<1> HIDE DEF out
<1>10. /\ out[0] = << >>
       /\ \A n \in 1 .. N : out[n] = out[n - 1] \o before(n) \o hunks[n].lines
  <2>1. 0 \in 0 .. N /\ \A n \in 1 .. N : n \in 0 .. N /\ n # 0
    BY <1>1
  <2>2. \A n \in 0 .. N : out[n] = IF n = 0 THEN << >> ELSE out[n - 1] \o before(n) \o hunks[n].lines
    BY <1>9, Zenon
  <2> QED
    BY <2>1, <2>2, Zenon
<1> QED
  BY <1>3, <1>4, <1>5, <1>10 DEF N, T, before, rest, Replaces

\* The replacement of a region holds every line of its hunks.
LEMMA ReplacementOK ==
  ASSUME NEW L, NEW base \in Seq(L), NEW hunks \in Seq(Hunks(L, Len(base))),
         NEW start \in 0 .. Len(base), NEW end \in 0 .. Len(base)
  PROVE  /\ TakeReplacement(hunks, base, start, end) \in Seq(L)
         /\ \A k \in 1 .. Len(hunks) : \A l :
              Has(hunks[k].lines, l) => Has(TakeReplacement(hunks, base, start, end), l)
<1> DEFINE N == Len(hunks)
           T == Seq(L)
           before(k) == SubSeq(base, (IF k = 1 THEN start ELSE hunks[k - 1].end) + 1, hunks[k].start)
           rest == SubSeq(base, (IF hunks = << >> THEN start ELSE hunks[N].end) + 1, end)
<1>0. /\ rest \in T
      /\ \A k \in 1 .. N : before(k) \in T /\ hunks[k].lines \in T
      /\ \E out : /\ TakeReplacement(hunks, base, start, end) = out[N] \o rest
                  /\ out[0] = << >>
                  /\ \A k \in 1 .. N : out[k] = out[k - 1] \o before(k) \o hunks[k].lines
  <2>1. Replaces(L, base, hunks, start, end)
    BY ReplacementIs
  <2> QED
    BY <2>1, Zenon DEF Replaces
<1>1. N \in Nat /\ << >> \in T
  BY LenProperties, EmptySeq
<1> HIDE DEF N, before, rest
<1>7. rest \in T /\ \A k \in 1 .. N : before(k) \in T /\ hunks[k].lines \in T
  BY <1>0
<1>2. PICK out : /\ TakeReplacement(hunks, base, start, end) = out[N] \o rest
                 /\ out[0] = << >>
                 /\ \A k \in 1 .. N : out[k] = out[k - 1] \o before(k) \o hunks[k].lines
  BY <1>0
<1>3. \A k \in 1 .. N : \A s \in T :
        /\ s \o before(k) \o hunks[k].lines \in T
        /\ \A l : Has(s, l) \/ Has(hunks[k].lines, l) => Has(s \o before(k) \o hunks[k].lines, l)
  <2> SUFFICES ASSUME NEW k \in 1 .. N, NEW s \in T
               PROVE  /\ s \o before(k) \o hunks[k].lines \in T
                      /\ \A l : Has(s, l) \/ Has(hunks[k].lines, l)
                                => Has(s \o before(k) \o hunks[k].lines, l)
    OBVIOUS
  <2> DEFINE u == before(k)
             v == hunks[k].lines
  <2>1. s \in Seq(L) /\ u \in Seq(L) /\ v \in Seq(L)
    BY <1>7
  <2> HIDE DEF u, v
  <2>2. s \o u \in Seq(L) /\ \A l : Has(s, l) => Has(s \o u, l)
    BY <2>1, HasConcat
  <2>3. (s \o u) \o v \in Seq(L) /\ \A l : Has(s \o u, l) \/ Has(v, l) => Has((s \o u) \o v, l)
    BY <2>1, <2>2, HasConcat
  <2> QED
    BY <2>2, <2>3 DEF u, v
<1> HIDE DEF T
<1> DEFINE S == [n \in 0 .. N |-> {s \in T : \A k \in 1 .. n : \A l : Has(hunks[k].lines, l) => Has(s, l)}]
<1>4. \A n \in 0 .. N : out[n] \in S[n]
  <2>1. out[0] \in S[0]
    BY <1>1, <1>2
  <2>2. ASSUME NEW n \in 1 .. N, out[n - 1] \in S[n - 1] PROVE out[n] \in S[n]
    <3> DEFINE s == out[n - 1]
    <3>1. n \in 0 .. N /\ n - 1 \in 0 .. N
      BY <1>1
    <3>2. s \in T /\ \A k \in 1 .. (n - 1) : \A l : Has(hunks[k].lines, l) => Has(s, l)
      BY <2>2, <3>1
    <3> HIDE DEF s
    <3>3. /\ out[n] \in T
          /\ \A l : Has(s, l) \/ Has(hunks[n].lines, l) => Has(out[n], l)
      BY <1>2, <1>3, <3>2 DEF s
    <3>4. ASSUME NEW k \in 1 .. n, NEW l, Has(hunks[k].lines, l) PROVE Has(out[n], l)
      <4>1. CASE k = n
        BY <3>3, <3>4, <4>1
      <4>2. CASE k # n
        <5>1. k \in 1 .. (n - 1)
          BY <1>1, <4>2
        <5> QED
          BY <3>2, <3>3, <3>4, <5>1
      <4> QED
        BY <4>1, <4>2
    <3> QED
      BY <3>1, <3>3, <3>4
  <2> HIDE DEF S
  <2> QED
    BY <1>1, <2>1, <2>2, EveryPass
<1>5. out[N] \in T /\ \A k \in 1 .. N : \A l : Has(hunks[k].lines, l) => Has(out[N], l)
  <2>1. N \in 0 .. N
    BY <1>1
  <2> QED
    BY <1>4, <2>1
<1>6. out[N] \o rest \in Seq(L) /\ \A l : Has(out[N], l) => Has(out[N] \o rest, l)
  BY <1>5, <1>7, HasConcat DEF T
<1> QED
  BY <1>2, <1>5, <1>6 DEF N

\* A text that stands for the lines from + 1 .. to of the base: its lines are among R,
\* and it has those of the base at the places X.
Covers(out, base, X, R, from, to) ==
  /\ \A l : Has(out, l) => l \in R
  /\ \A p \in from + 1 .. to : p \in X => Has(out, base[p])

\* One text behind the other stands for both ranges.
LEMMA CoversBoth ==
  ASSUME NEW L, NEW base, NEW X, NEW R, NEW u \in Seq(L), NEW v \in Seq(L),
         NEW from \in Nat, NEW mid \in Nat, NEW to \in Nat,
         Covers(u, base, X, R, from, mid), Covers(v, base, X, R, mid, to)
  PROVE  u \o v \in Seq(L) /\ Covers(u \o v, base, X, R, from, to)
<1>1. u \o v \in Seq(L) /\ \A l : Has(u \o v, l) <=> Has(u, l) \/ Has(v, l)
  BY HasConcat
<1> DEFINE w == u \o v
<1> HIDE DEF w
<1>2. \A l : Has(w, l) => l \in R
  BY <1>1 DEF Covers, w
<1>3. ASSUME NEW p \in from + 1 .. to, p \in X PROVE Has(w, base[p])
  <2>1. p \in from + 1 .. mid \/ p \in mid + 1 .. to
    OBVIOUS
  <2>2. Has(u, base[p]) \/ Has(v, base[p])
    BY <1>3, <2>1 DEF Covers
  <2> QED
    BY <1>1, <2>2 DEF w
<1> QED
  BY <1>1, <1>2, <1>3 DEF Covers, w

\* What is copied from the base stands for itself.
LEMMA CoversCopy ==
  ASSUME NEW L, NEW base \in Seq(L), NEW X, NEW R,
         NEW from \in 0 .. Len(base), NEW to \in 0 .. Len(base),
         \A p \in from + 1 .. to : base[p] \in R
  PROVE  /\ SubSeq(base, from + 1, to) \in Seq(L)
         /\ Covers(SubSeq(base, from + 1, to), base, X, R, from, to)
<1> DEFINE part == SubSeq(base, from + 1, to)
<1>1. Len(base) \in Nat
  BY LenProperties
<1>2. from + 1 \in Nat \ {0} /\ to \in Int /\ to <= Len(base)
  BY <1>1
<1>3. part \in Seq(L) /\ \A l : Has(part, l) <=> \E p \in from + 1 .. to : base[p] = l
  BY <1>2, PartOf
<1> HIDE DEF part
<1>4. part \in Seq(L) /\ Covers(part, base, X, R, from, to)
  BY <1>3 DEF Covers
<1> QED
  BY <1>4 DEF part

\* The lines of a hunk stand for what it replaces.
LEMMA CoversHunk ==
  ASSUME NEW base, NEW X, NEW R, NEW lines, NEW from, NEW to,
         \A l : Has(lines, l) => l \in R, \A p \in from + 1 .. to : p \notin X
  PROVE  Covers(lines, base, X, R, from, to)
BY DEF Covers

\* Of hunks that follow each other, neither the earlier nor the later ones reach what
\* lies before the start of hunk k and behind the end of hunk k - 1.
LEMMA BetweenHunks ==
  ASSUME NEW L, NEW n \in Nat, NEW hunks \in Seq(Hunks(L, n)), Ordered(hunks),
         NEW k \in 1 .. Len(hunks) + 1, NEW p \in 1 .. n,
         k = 1 \/ hunks[k - 1].end < p, k = Len(hunks) + 1 \/ p <= hunks[k].start
  PROVE  Outside(hunks, p)
<1> DEFINE N == Len(hunks)
<1>1. N \in Nat /\ \A m \in 1 .. N : hunks[m].start \in Nat /\ hunks[m].end \in Nat
  <2>1. \A m \in 1 .. N : hunks[m] \in Hunks(L, n)
    BY ElementOfSeq
  <2>2. \A m \in 1 .. N : hunks[m].start \in 0 .. n /\ hunks[m].end \in 0 .. n
    BY <2>1 DEF Hunks
  <2>3. N \in Nat
    BY LenProperties
  <2> HIDE DEF N
  <2> QED
    BY <2>2, <2>3
<1>2. \A m \in 1 .. N : /\ hunks[m].start <= hunks[m].end
                        /\ \A q \in m + 1 .. N : hunks[m].end <= hunks[q].start
  BY DEF Ordered
<1> HIDE DEF N
<1>3. ASSUME NEW m \in 1 .. N, hunks[m].start < p, p <= hunks[m].end PROVE FALSE
  <2>1. k \in Nat /\ m \in Nat
    BY <1>1 DEF N
  <2>2. CASE m < k - 1
    <3>1. k - 1 \in m + 1 .. N /\ k - 1 \in 1 .. N /\ k # 1
      BY <1>1, <2>1, <2>2 DEF N
    <3>2. hunks[m].end <= hunks[k - 1].start /\ hunks[k - 1].start <= hunks[k - 1].end /\ hunks[k - 1].end < p
      BY <1>2, <3>1
    <3> QED
      BY <1>1, <1>3, <3>1, <3>2
  <2>3. CASE m = k - 1
    <3>1. k # 1 /\ hunks[m].end < p
      BY <1>1, <2>1, <2>3
    <3> QED
      BY <1>1, <1>3, <3>1
  <2>4. CASE m = k
    <3>1. p <= hunks[m].start
      BY <1>1, <2>1, <2>4 DEF N
    <3> QED
      BY <1>1, <1>3, <3>1
  <2>5. CASE m > k
    <3>1. m \in k + 1 .. N /\ k \in 1 .. N /\ k # N + 1
      BY <1>1, <2>1, <2>5
    <3> DEFINE u == hunks[k].start
               v == hunks[k].end
               w == hunks[m].start
    <3>2. v <= w /\ u <= v /\ p <= u /\ w < p
      BY <1>2, <1>3, <3>1 DEF N
    <3>3. u \in Nat /\ v \in Nat /\ w \in Nat
      BY <1>1, <3>1
    <3> HIDE DEF u, v, w
    <3> QED
      BY <3>2, <3>3
  <2> QED
    BY <2>1, <2>2, <2>3, <2>4, <2>5
<1> QED
  BY <1>3 DEF Outside, N

\* The replacement of a region that holds the hunks stands for the region.
LEMMA ReplacementCovers ==
  ASSUME NEW L, NEW base \in Seq(L), NEW hunks \in Seq(Hunks(L, Len(base))), Ordered(hunks),
         NEW start \in 0 .. Len(base), NEW end \in 0 .. Len(base), NEW X, NEW R,
         \A k \in 1 .. Len(hunks) : start <= hunks[k].start /\ hunks[k].end <= end,
         \A k \in 1 .. Len(hunks) : \A l : Has(hunks[k].lines, l) => l \in R,
         \A p \in start + 1 .. end : Outside(hunks, p) => base[p] \in R,
         \A p \in start + 1 .. end : p \in X => Outside(hunks, p)
  PROVE  Covers(TakeReplacement(hunks, base, start, end), base, X, R, start, end)
<1> DEFINE N == Len(hunks)
           T == Seq(L)
           cursor(k) == IF k = 0 THEN start ELSE hunks[k].end
           before(k) == SubSeq(base, (IF k = 1 THEN start ELSE hunks[k - 1].end) + 1, hunks[k].start)
           rest == SubSeq(base, (IF hunks = << >> THEN start ELSE hunks[N].end) + 1, end)
           C(text, from, to) == Covers(text, base, X, R, from, to)
<1>1. /\ rest \in T
      /\ \A k \in 1 .. N : before(k) \in T /\ hunks[k].lines \in T
      /\ \E out : /\ TakeReplacement(hunks, base, start, end) = out[N] \o rest
                  /\ out[0] = << >>
                  /\ \A k \in 1 .. N : out[k] = out[k - 1] \o before(k) \o hunks[k].lines
  <2>1. Replaces(L, base, hunks, start, end)
    BY ReplacementIs
  <2> QED
    BY <2>1, Zenon DEF Replaces
<1>2. N \in Nat /\ Len(base) \in Nat /\ << >> \in T /\ (hunks = << >> <=> N = 0)
  BY LenProperties, EmptySeq
<1>3. \A k \in 1 .. N : /\ hunks[k].start \in start .. end /\ hunks[k].end \in start .. end
                        /\ hunks[k].start <= hunks[k].end
  <2> SUFFICES ASSUME NEW k \in 1 .. N
               PROVE  /\ hunks[k].start \in start .. end /\ hunks[k].end \in start .. end
                      /\ hunks[k].start <= hunks[k].end
    OBVIOUS
  <2>1. hunks[k] \in Hunks(L, Len(base))
    BY ElementOfSeq
  <2>2. hunks[k].start \in Nat /\ hunks[k].end \in Nat
    BY <1>2, <2>1 DEF Hunks
  <2>3. hunks[k].start <= hunks[k].end
    BY DEF Ordered
  <2>4. start <= hunks[k].start /\ hunks[k].end <= end
    OBVIOUS
  <2> QED
    BY <1>2, <2>2, <2>3, <2>4
<1>4. \A k \in 0 .. N : cursor(k) \in 0 .. Len(base)
  <2> SUFFICES ASSUME NEW k \in 0 .. N PROVE cursor(k) \in 0 .. Len(base)
    OBVIOUS
  <2>1. CASE k = 0
    BY <2>1
  <2>2. CASE k # 0
    <3>1. k \in 1 .. N
      BY <1>2, <2>2
    <3> QED
      BY <1>2, <1>3, <2>2, <3>1
  <2> QED
    BY <2>1, <2>2
<1>5. ASSUME NEW k \in 1 .. N
      PROVE  C(before(k), cursor(k - 1), hunks[k].start) /\ C(hunks[k].lines, hunks[k].start, cursor(k))
  <2> DEFINE from == cursor(k - 1)
             to == hunks[k].start
             last == hunks[k].end
  <2>1. from \in 0 .. Len(base) /\ to \in start .. end /\ last \in start .. end /\ to <= last
    BY <1>2, <1>3, <1>4
  <2>2. before(k) = SubSeq(base, from + 1, to) /\ cursor(k) = last
    <3>1. k - 1 = 0 <=> k = 1
      OBVIOUS
    <3>2. (IF k = 1 THEN start ELSE hunks[k - 1].end) = from /\ k # 0
      BY <1>2, <3>1
    <3> HIDE DEF from, to
    <3> QED
      BY <3>2 DEF to
  <2>3. k - 1 = 0 \/ (k - 1 \in 1 .. N /\ from = hunks[k - 1].end)
    BY <1>2
  <2>4. k - 1 = 0 => from = start
    OBVIOUS
  <2>5. ASSUME NEW p \in from + 1 .. to PROVE base[p] \in R
    <3>1. from \in start .. end
      BY <1>2, <1>3, <2>1, <2>3, <2>4
    <3>2. p \in start + 1 .. end /\ p \in 1 .. Len(base) /\ p <= hunks[k].start
      <4> HIDE DEF from
      <4> QED
        BY <1>2, <2>1, <2>5, <3>1
    <3>3. k = 1 \/ hunks[k - 1].end < p
      <4>1. k - 1 = 0 => k = 1
        BY <1>2
      <4>2. CASE k - 1 \in 1 .. N /\ from = hunks[k - 1].end
        <5>1. hunks[k - 1].end \in Nat
          BY <1>2, <1>3, <4>2
        <5> QED
          BY <1>2, <2>5, <3>2, <4>2, <5>1
      <4> QED
        BY <2>3, <4>1, <4>2
    <3>4. Outside(hunks, p)
      <4>1. k \in 1 .. Len(hunks) + 1
        BY <1>2
      <4> QED
        BY <1>2, <3>2, <3>3, <4>1, BetweenHunks
    <3> QED
      BY <3>2, <3>4
  <2>6. to \in 0 .. Len(base)
    BY <1>2, <2>1
  <2> HIDE DEF from, to, last, cursor, before
  <2>7. C(before(k), from, to)
    BY <2>1, <2>2, <2>5, <2>6, CoversCopy
  <2>8. ASSUME NEW p \in to + 1 .. last PROVE p \notin X
    <3>1. p \in start + 1 .. end /\ to < p /\ p <= last
      BY <1>2, <2>1
    <3>2. ~Outside(hunks, p)
      BY <3>1 DEF Outside, to, last
    <3> QED
      BY <3>1, <3>2
  <2>9. C(hunks[k].lines, to, last)
    BY <2>8, CoversHunk
  <2> QED
    BY <2>2, <2>7, <2>9 DEF from, to
<1>6. C(rest, cursor(N), end)
  <2> DEFINE from == cursor(N)
  <2>1. from \in 0 .. Len(base) /\ rest = SubSeq(base, from + 1, end)
    <3>1. N \in 0 .. N
      BY <1>2
    <3>2. from \in 0 .. Len(base)
      BY <1>4, <3>1
    <3>3. from = IF hunks = << >> THEN start ELSE hunks[N].end
      BY <1>2
    <3> HIDE DEF from
    <3> QED
      BY <3>2, <3>3
  <2>2. from \in start .. Len(base) /\ (N = 0 \/ from = hunks[N].end)
    <3>1. CASE N = 0
      BY <1>2, <3>1
    <3>2. CASE N # 0
      <4>1. N \in 1 .. N
        BY <1>2, <3>2
      <4> QED
        BY <1>2, <1>3, <3>2, <4>1
    <3> QED
      BY <3>1, <3>2
  <2> HIDE DEF from
  <2>3. ASSUME NEW p \in from + 1 .. end PROVE base[p] \in R
    <3>1. p \in start + 1 .. end /\ p \in 1 .. Len(base) /\ from < p
      BY <1>2, <2>2
    <3>2. Outside(hunks, p)
      <4> DEFINE k == N + 1
      <4>1. k \in 1 .. Len(hunks) + 1 /\ (k = 1 \/ hunks[k - 1].end < p) /\ k = Len(hunks) + 1
        BY <1>2, <2>2, <3>1
      <4> HIDE DEF k
      <4> QED
        BY <1>2, <3>1, <4>1, BetweenHunks
    <3> QED
      BY <3>1, <3>2
  <2> HIDE DEF rest
  <2> QED
    BY <2>1, <2>3, CoversCopy DEF from
<1> HIDE DEF N, before, rest, cursor, C
<1>7. PICK out : /\ TakeReplacement(hunks, base, start, end) = out[N] \o rest
                 /\ out[0] = << >>
                 /\ \A k \in 1 .. N : out[k] = out[k - 1] \o before(k) \o hunks[k].lines
  BY <1>1
<1>8. \A u, v \in T : \A x, y, z \in Nat : C(u, x, y) /\ C(v, y, z) => u \o v \in T /\ C(u \o v, x, z)
  BY CoversBoth DEF C
<1>9. /\ start \in Nat /\ end \in Nat
      /\ \A k \in 0 .. N : cursor(k) \in Nat
      /\ \A k \in 1 .. N : before(k) \in T /\ hunks[k].lines \in T /\ hunks[k].start \in Nat
  <2>1. start \in Nat /\ end \in Nat /\ \A k \in 0 .. N : cursor(k) \in Nat
    BY <1>2, <1>4
  <2>2. \A k \in 1 .. N : hunks[k].start \in Nat
    BY <1>2, <1>3
  <2> QED
    BY <1>1, <2>1, <2>2
<1> DEFINE S == [k \in 0 .. N |-> {text \in T : C(text, start, cursor(k))}]
<1> HIDE DEF T
<1>10. \A k \in 0 .. N : out[k] \in S[k]
  <2>1. out[0] \in S[0]
    <3>1. C(<< >>, start, start)
      <4>1. Len(<< >>) = 0
        BY EmptySeq
      <4>2. \A l : ~Has(<< >>, l)
        BY <4>1 DEF Has
      <4>3. \A p : p \notin start + 1 .. start
        BY <1>9
      <4> QED
        BY <4>2, <4>3 DEF C, Covers
    <3>2. cursor(0) = start /\ 0 \in 0 .. N
      BY <1>2 DEF cursor
    <3> QED
      BY <1>2, <1>7, <3>1, <3>2
  <2>2. ASSUME NEW k \in 1 .. N, out[k - 1] \in S[k - 1] PROVE out[k] \in S[k]
    <3>1. k \in 0 .. N /\ k - 1 \in 0 .. N
      BY <1>2
    <3> DEFINE u == out[k - 1]
               v == before(k)
               w == hunks[k].lines
    <3>2. u \in T /\ C(u, start, cursor(k - 1))
      BY <2>2, <3>1
    <3>3. v \in T /\ w \in T /\ out[k] = u \o v \o w
      BY <1>7, <1>9
    <3>4. C(v, cursor(k - 1), hunks[k].start) /\ C(w, hunks[k].start, cursor(k))
      BY <1>5
    <3>5. cursor(k - 1) \in Nat /\ hunks[k].start \in Nat /\ cursor(k) \in Nat
      BY <1>9, <3>1
    <3> HIDE DEF u, v, w
    <3>6. u \o v \in T /\ C(u \o v, start, hunks[k].start)
      BY <1>8, <1>9, <3>2, <3>3, <3>4, <3>5
    <3>7. (u \o v) \o w \in T /\ C((u \o v) \o w, start, cursor(k))
      BY <1>8, <1>9, <3>3, <3>4, <3>5, <3>6
    <3> QED
      BY <3>1, <3>3, <3>7
  <2> HIDE DEF S
  <2> QED
    BY <1>2, <2>1, <2>2, EveryPass
<1>11. out[N] \in T /\ C(out[N], start, cursor(N)) /\ N \in 0 .. N
  BY <1>2, <1>10
<1>12. C(out[N] \o rest, start, end)
  BY <1>1, <1>6, <1>8, <1>9, <1>11
<1> QED
  BY <1>7, <1>12 DEF C

\* Min and Max are what they say.
LEMMA MinIs ==
  ASSUME NEW T \in SUBSET Nat, T # {}
  PROVE  Min(T) \in T /\ \A k \in T : Min(T) <= k
<1>1. \E i \in T : \A j \in T : i <= j
  BY LeastElement
<1> QED
  BY <1>1 DEF Min

\* The greatest member of a set of numbers up to n is the least of its bounds.
LEMMA MaxIs ==
  ASSUME NEW n \in Nat, NEW T \in SUBSET (0 .. n), T # {}
  PROVE  Max(T) \in T /\ \A k \in T : Max(T) >= k
<1> DEFINE U == {u \in 0 .. n : \A k \in T : k <= u}
<1>1. n \in U /\ U \in SUBSET Nat
  OBVIOUS
<1>2. PICK u \in U : \A v \in U : u <= v
  <2> HIDE DEF U
  <2> QED
    BY <1>1, LeastElement
<1>3. u \in T
  <2> SUFFICES ASSUME u \notin T PROVE FALSE
    OBVIOUS
  <2>1. \A k \in T : k \in 0 .. n /\ k < u
    BY <1>2
  <2>2. u - 1 \in U
    <3>1. PICK k \in T : TRUE
      OBVIOUS
    <3>2. u - 1 \in 0 .. n
      BY <1>2, <2>1, <3>1
    <3>3. \A v \in T : v <= u - 1
      BY <1>2, <2>1
    <3> QED
      BY <3>2, <3>3
  <2> QED
    BY <1>2, <2>2
<1>4. u \in T /\ \A k \in T : u >= k
  BY <1>2, <1>3
<1>5. \E x \in T : \A k \in T : x >= k
  BY <1>4
<1> QED
  BY <1>5 DEF Max

\* The hunks that start before a place: the first behind them, and where they end.
LEMMA PastOK ==
  ASSUME NEW L, NEW n \in Nat, NEW hunks \in Seq(Hunks(L, n)), NEW end \in 0 .. n,
         NEW from \in 1 .. Len(hunks) + 1
  PROVE  /\ Past(hunks, from, end) \in from .. Len(hunks) + 1
         /\ from <= Len(hunks) /\ hunks[from].start < end => from + 1 <= Past(hunks, from, end)
         /\ \/ Past(hunks, from, end) = Len(hunks) + 1
            \/ Past(hunks, from, end) \in 1 .. Len(hunks) /\ hunks[Past(hunks, from, end)].start >= end
         /\ from = Len(hunks) + 1 \/ hunks[from].start >= end => Past(hunks, from, end) = from
<1> DEFINE T == {k \in from .. (Len(hunks) + 1) : k > Len(hunks) \/ hunks[k].start >= end}
           m == Min(T)
<1>1. Len(hunks) \in Nat /\ \A k \in 1 .. Len(hunks) : hunks[k].start \in 0 .. n
  <2>1. \A k \in 1 .. Len(hunks) : hunks[k] \in Hunks(L, n)
    BY ElementOfSeq
  <2> QED
    BY <2>1, LenProperties DEF Hunks
<1>2. T \in SUBSET Nat /\ Len(hunks) + 1 \in T
  BY <1>1
<1>3. m \in T
  <2> HIDE DEF T
  <2>1. T # {}
    BY <1>2
  <2> QED
    BY <1>2, <2>1, MinIs
<1>4. Past(hunks, from, end) = m
  BY DEF Past
<1>7. from \in T => m <= from
  <2> HIDE DEF T
  <2>1. from \in T => T # {}
    OBVIOUS
  <2> QED
    BY <1>2, <2>1, MinIs
<1>8. from = Len(hunks) + 1 \/ hunks[from].start >= end => from \in T
  BY <1>1
<1> HIDE DEF m
<1>5. m \in from .. Len(hunks) + 1 /\ (m > Len(hunks) \/ hunks[m].start >= end)
  BY <1>3
<1>6. from <= Len(hunks) /\ hunks[from].start < end => m # from
  BY <1>1, <1>5
<1>9. m = Len(hunks) + 1 \/ (m \in 1 .. Len(hunks) /\ hunks[m].start >= end)
  BY <1>1, <1>5
<1>10. from = Len(hunks) + 1 \/ hunks[from].start >= end => m = from
  <2>1. m \in Int /\ from \in Int /\ from <= m
    BY <1>1, <1>5
  <2> HIDE DEF T
  <2> QED
    BY <1>7, <1>8, <2>1
<1>11. m \in from .. Len(hunks) + 1 /\ (from <= Len(hunks) /\ hunks[from].start < end => from + 1 <= m)
  BY <1>1, <1>5, <1>6
<1> QED
  BY <1>4, <1>9, <1>10, <1>11

\* Where hunks end lies behind where the region ended so far, and within the base.
LEMMA EndOfOK ==
  ASSUME NEW L, NEW n \in Nat, NEW hunks \in Seq(Hunks(L, n)), NEW end \in 0 .. n,
         NEW from \in 1 .. Len(hunks) + 1, NEW to \in 1 .. Len(hunks) + 1
  PROVE  /\ EndOf(hunks, from, to, end) \in end .. n
         /\ \A k \in from .. to - 1 : hunks[k].end <= EndOf(hunks, from, to, end)
         /\ to = from => EndOf(hunks, from, to, end) = end
<1> DEFINE T == {end} \cup {hunks[k].end : k \in from .. (to - 1)}
<1>1. Len(hunks) \in Nat /\ \A k \in 1 .. Len(hunks) : hunks[k].end \in 0 .. n
  <2>1. \A k \in 1 .. Len(hunks) : hunks[k] \in Hunks(L, n)
    BY ElementOfSeq
  <2> QED
    BY <2>1, LenProperties DEF Hunks
<1>2. T \in SUBSET (0 .. n) /\ end \in T
  <2>1. \A k \in from .. (to - 1) : k \in 1 .. Len(hunks)
    BY <1>1
  <2> QED
    BY <1>1, <2>1
<1>3. Max(T) \in T /\ \A k \in T : Max(T) >= k
  <2> HIDE DEF T
  <2>1. T # {}
    BY <1>2
  <2> QED
    BY <1>2, <2>1, MaxIs
<1>4. EndOf(hunks, from, to, end) = Max(T)
  BY DEF EndOf
<1> DEFINE e == EndOf(hunks, from, to, end)
<1>5. e \in T /\ \A k \in T : e >= k
  BY <1>3, <1>4
<1> HIDE DEF e
<1>6. e \in end .. n
  BY <1>2, <1>5
<1>7. ASSUME NEW k \in from .. to - 1 PROVE hunks[k].end <= e
  <2>1. hunks[k].end \in T
    OBVIOUS
  <2> QED
    BY <1>2, <1>5, <2>1
<1>8. to = from => e = end
  <2>1. to = from => from .. to - 1 = {}
    BY <1>1
  <2> QED
    BY <1>5, <2>1
<1> QED
  BY <1>6, <1>7, <1>8 DEF e

\* The hunks from i up to k - 1 end within what ends at `end`.
Inside(hunks, i, k, end) == \A m \in i .. k - 1 : hunks[m].end <= end

\* The regions the loop goes through: hunks were taken in on both sides and end inside,
\* and those that met begin inside.
Regions(n, ours, theirs, i, j) ==
  {r \in [oi : i .. Len(ours) + 1, tj : j .. Len(theirs) + 1, start : 0 .. n, end : 0 .. n] :
     /\ ours[i].start < r.end /\ theirs[j].start < r.end
     /\ r.start <= ours[i].start /\ r.start <= theirs[j].start
     /\ r.start \in {ours[i].start, theirs[j].start}
     /\ Inside(ours, i, r.oi, r.end) /\ Inside(theirs, j, r.tj, r.end)}

\* More hunks that end within more.
LEMMA InsideMore ==
  ASSUME NEW L, NEW n \in Nat, NEW hunks \in Seq(Hunks(L, n)), NEW i \in 1 .. Len(hunks) + 1,
         NEW k \in i .. Len(hunks) + 1, NEW to \in k .. Len(hunks) + 1,
         NEW end \in 0 .. n, NEW last \in end .. n,
         Inside(hunks, i, k, end), \A m \in k .. to - 1 : hunks[m].end <= last
  PROVE  Inside(hunks, i, to, last)
<1> SUFFICES ASSUME NEW m \in i .. to - 1 PROVE hunks[m].end <= last
  BY DEF Inside
<1>1. Len(hunks) \in Nat
  BY LenProperties
<1>2. m \in 1 .. Len(hunks)
  BY <1>1
<1>3. hunks[m] \in Hunks(L, n)
  BY <1>2, ElementOfSeq
<1>4. hunks[m].end \in 0 .. n
  BY <1>3 DEF Hunks
<1>5. CASE m \in i .. k - 1
  <2> DEFINE e == hunks[m].end
  <2>1. e <= end /\ e \in 0 .. n
    BY <1>4, <1>5 DEF Inside
  <2> HIDE DEF e
  <2>2. e <= last
    BY <2>1
  <2> QED
    BY <2>2 DEF e
<1>6. CASE m \notin i .. k - 1
  <2>1. m \in k .. to - 1
    BY <1>1, <1>6
  <2> QED
    BY <2>1
<1> QED
  BY <1>5, <1>6

\* One pass of the loop in which a region grows leaves both hunks behind that met.
LEMMA GrowOK ==
  ASSUME NEW L, NEW n \in Nat, NEW ours \in Seq(Hunks(L, n)), NEW theirs \in Seq(Hunks(L, n)),
         NEW i \in 1 .. Len(ours), NEW j \in 1 .. Len(theirs),
         NEW r \in Regions(n, ours, theirs, i, j)
  PROVE  /\ GrowRegion(ours, theirs, r) \in Regions(n, ours, theirs, i, j)
         /\ GrowRegion(ours, theirs, r).oi >= i + 1 /\ GrowRegion(ours, theirs, r).tj >= j + 1
<1> DEFINE oi == Past(ours, r.oi, r.end)
           end == EndOf(ours, r.oi, oi, r.end)
           tj == Past(theirs, r.tj, end)
           last == EndOf(theirs, r.tj, tj, end)
           q == [r EXCEPT !.oi = oi, !.tj = tj, !.end = last]
<1>1. /\ r \in [oi : i .. Len(ours) + 1, tj : j .. Len(theirs) + 1, start : 0 .. n, end : 0 .. n]
      /\ ours[i].start < r.end /\ theirs[j].start < r.end
  BY DEF Regions
<1>20. /\ r.start <= ours[i].start /\ r.start <= theirs[j].start
       /\ r.start \in {ours[i].start, theirs[j].start}
       /\ Inside(ours, i, r.oi, r.end) /\ Inside(theirs, j, r.tj, r.end)
  BY DEF Regions
<1>2. /\ r.oi \in i .. Len(ours) + 1 /\ r.tj \in j .. Len(theirs) + 1
      /\ r.start \in 0 .. n /\ r.end \in 0 .. n
  BY <1>1
<1>3. Len(ours) \in Nat /\ Len(theirs) \in Nat
  BY LenProperties
<1>4. ours[i].start \in 0 .. n /\ theirs[j].start \in 0 .. n
  <2>1. ours[i] \in Hunks(L, n) /\ theirs[j] \in Hunks(L, n)
    BY ElementOfSeq
  <2> QED
    BY <2>1 DEF Hunks
<1>5. r.oi \in 1 .. Len(ours) + 1 /\ r.tj \in 1 .. Len(theirs) + 1
  BY <1>2, <1>3
<1>6. oi \in r.oi .. Len(ours) + 1 /\ (r.oi <= Len(ours) /\ ours[r.oi].start < r.end => r.oi + 1 <= oi)
  BY <1>2, <1>5, PastOK
<1>7. oi \in 1 .. Len(ours) + 1
  BY <1>3, <1>5, <1>6
<1>8. end \in r.end .. n /\ \A m \in r.oi .. oi - 1 : ours[m].end <= end
  BY <1>2, <1>5, <1>7, EndOfOK
<1>9. end \in 0 .. n
  BY <1>2, <1>8
<1>10. tj \in r.tj .. Len(theirs) + 1 /\ (r.tj <= Len(theirs) /\ theirs[r.tj].start < end => r.tj + 1 <= tj)
  BY <1>5, <1>9, PastOK
<1>11. tj \in 1 .. Len(theirs) + 1
  BY <1>3, <1>5, <1>10
<1>12. last \in end .. n /\ \A m \in r.tj .. tj - 1 : theirs[m].end <= last
  BY <1>5, <1>9, <1>11, EndOfOK
<1>13. GrowRegion(ours, theirs, r) = q
  BY DEF GrowRegion
<1> HIDE DEF oi, end, tj, last
<1>14. q.oi = oi /\ q.tj = tj /\ q.end = last /\ q.start = r.start
       /\ q = [oi |-> oi, tj |-> tj, start |-> r.start, end |-> last]
  <2>1. DOMAIN q = {"oi", "tj", "start", "end"} /\ q = [f \in DOMAIN q |-> q[f]]
    BY <1>1
  <2>2. q.oi = oi /\ q.tj = tj /\ q.end = last /\ q.start = r.start
    BY <1>1
  <2> HIDE DEF q
  <2> QED
    BY <2>1, <2>2
<1> HIDE DEF q
<1>15. oi \in i .. Len(ours) + 1 /\ tj \in j .. Len(theirs) + 1 /\ last \in 0 .. n /\ r.end <= last
  <2>1. \A x, y \in Nat : \A u \in x .. y : \A v \in u .. y : v \in x .. y
    OBVIOUS
  <2>2. oi \in i .. Len(ours) + 1
    BY <1>2, <1>3, <1>6, <2>1
  <2>3. tj \in j .. Len(theirs) + 1
    BY <1>2, <1>3, <1>10, <2>1
  <2>4. last \in 0 .. n /\ r.end <= last
    BY <1>2, <1>8, <1>12
  <2> QED
    BY <2>2, <2>3, <2>4
<1>16. oi >= i + 1
  <2>1. CASE r.oi = i
    BY <1>1, <1>3, <1>6, <2>1
  <2>2. CASE r.oi # i
    BY <1>2, <1>3, <1>6, <2>2
  <2> QED
    BY <2>1, <2>2
<1>17. tj >= j + 1
  <2>1. CASE r.tj = j
    <3>1. theirs[j].start < end
      BY <1>1, <1>2, <1>4, <1>8
    <3> QED
      BY <1>3, <1>10, <2>1, <3>1
  <2>2. CASE r.tj # j
    BY <1>2, <1>3, <1>10, <2>2
  <2> QED
    BY <2>1, <2>2
<1>18. ours[i].start < last /\ theirs[j].start < last
  <2>1. \A x, y, z \in 0 .. n : x < y /\ y <= z => x < z
    OBVIOUS
  <2> QED
    BY <1>1, <1>2, <1>4, <1>15, <2>1
<1>19. q \in [oi : i .. Len(ours) + 1, tj : j .. Len(theirs) + 1, start : 0 .. n, end : 0 .. n]
  BY <1>2, <1>14, <1>15
<1>21. Inside(ours, i, oi, last) /\ Inside(theirs, j, tj, last)
  <2>1. Inside(ours, i, oi, end)
    <3>1. i \in 1 .. Len(ours) + 1 /\ r.oi \in i .. Len(ours) + 1 /\ oi \in r.oi .. Len(ours) + 1
      BY <1>2, <1>3, <1>6
    <3> QED
      BY <1>2, <1>8, <1>20, <3>1, InsideMore
  <2>2. Inside(ours, i, oi, last)
    <3>1. i \in 1 .. Len(ours) + 1 /\ oi \in i .. Len(ours) + 1 /\ oi \in oi .. Len(ours) + 1
          /\ \A m \in oi .. oi - 1 : FALSE
      BY <1>3, <1>15
    <3> QED
      BY <1>9, <1>12, <2>1, <3>1, InsideMore
  <2>3. Inside(theirs, j, tj, last)
    <3>1. j \in 1 .. Len(theirs) + 1 /\ r.tj \in j .. Len(theirs) + 1 /\ tj \in r.tj .. Len(theirs) + 1
          /\ last \in r.end .. n
      BY <1>2, <1>3, <1>8, <1>10, <1>12
    <3> QED
      BY <1>2, <1>12, <1>20, <3>1, InsideMore
  <2> QED
    BY <2>2, <2>3
<1> QED
  BY <1>13, <1>14, <1>16, <1>17, <1>18, <1>19, <1>20, <1>21 DEF Regions

\* The hunks from k on start at `end` or behind it.
Behind(hunks, k, end) == \A m \in k .. Len(hunks) : hunks[m].start >= end

\* No other hunk starts inside the region.
Settled(ours, theirs, r) == Behind(ours, r.oi, r.end) /\ Behind(theirs, r.tj, r.end)

\* When one hunk starts behind a place, so do those that follow it.
LEMMA BehindFirst ==
  ASSUME NEW L, NEW n \in Nat, NEW hunks \in Seq(Hunks(L, n)), Ordered(hunks), NEW end \in 0 .. n,
         NEW k \in 1 .. Len(hunks) + 1, k = Len(hunks) + 1 \/ hunks[k].start >= end
  PROVE  Behind(hunks, k, end)
<1> SUFFICES ASSUME NEW m \in k .. Len(hunks) PROVE hunks[m].start >= end
  BY DEF Behind
<1>1. Len(hunks) \in Nat
  BY LenProperties
<1>2. k \in 1 .. Len(hunks) /\ m \in 1 .. Len(hunks) /\ hunks[k].start >= end
  BY <1>1
<1>3. CASE m = k
  BY <1>2, <1>3
<1>4. CASE m # k
  <2>1. m \in k + 1 .. Len(hunks)
    BY <1>1, <1>2, <1>4
  <2> DEFINE u == hunks[k].start
             v == hunks[k].end
             w == hunks[m].start
  <2>2. u <= v /\ v <= w /\ u >= end
    BY <1>2, <2>1 DEF Ordered
  <2>3. u \in 0 .. n /\ v \in 0 .. n /\ w \in 0 .. n
    <3>1. hunks[k] \in Hunks(L, n) /\ hunks[m] \in Hunks(L, n)
      BY <1>2, ElementOfSeq
    <3> QED
      BY <3>1 DEF Hunks
  <2> HIDE DEF u, v, w
  <2>4. w >= end
    BY <2>2, <2>3
  <2> QED
    BY <2>4 DEF w
<1> QED
  BY <1>3, <1>4

\* A region grows until no other hunk starts inside it.
LEMMA SettlesOrGrows ==
  ASSUME NEW L, NEW n \in Nat, NEW ours \in Seq(Hunks(L, n)), NEW theirs \in Seq(Hunks(L, n)),
         Ordered(ours), Ordered(theirs),
         NEW i \in 1 .. Len(ours), NEW j \in 1 .. Len(theirs),
         NEW r \in Regions(n, ours, theirs, i, j)
  PROVE  /\ Settled(ours, theirs, r) => GrowRegion(ours, theirs, r) = r
         /\ \/ Settled(ours, theirs, r)
            \/ GrowRegion(ours, theirs, r).oi + GrowRegion(ours, theirs, r).tj > r.oi + r.tj
<1> DEFINE x == r.oi
           y == r.tj
           e == r.end
           oi == Past(ours, x, e)
           end == EndOf(ours, x, oi, e)
           tj == Past(theirs, y, end)
           last == EndOf(theirs, y, tj, end)
           q == [r EXCEPT !.oi = oi, !.tj = tj, !.end = last]
<1>1. r \in [oi : i .. Len(ours) + 1, tj : j .. Len(theirs) + 1, start : 0 .. n, end : 0 .. n]
  BY DEF Regions
<1>2. Len(ours) \in Nat /\ Len(theirs) \in Nat
  BY LenProperties
<1>3. x \in 1 .. Len(ours) + 1 /\ y \in 1 .. Len(theirs) + 1 /\ e \in 0 .. n
  BY <1>1, <1>2
<1>4. GrowRegion(ours, theirs, r) = q /\ q.oi = oi /\ q.tj = tj /\ q.end = last
  BY <1>1 DEF GrowRegion
<1> HIDE DEF q
<1>5. /\ oi \in x .. Len(ours) + 1
      /\ oi = Len(ours) + 1 \/ (oi \in 1 .. Len(ours) /\ ours[oi].start >= e)
      /\ x = Len(ours) + 1 \/ ours[x].start >= e => oi = x
  <2> HIDE DEF x, e, end, tj, last
  <2> QED
    BY <1>3, PastOK
<1>6. oi \in 1 .. Len(ours) + 1
  BY <1>2, <1>3, <1>5
<1>7. end \in e .. n /\ (oi = x => end = e)
  BY <1>3, <1>6, EndOfOK
<1>8. end \in 0 .. n
  BY <1>3, <1>7
<1>9. /\ tj \in y .. Len(theirs) + 1
      /\ tj = Len(theirs) + 1 \/ (tj \in 1 .. Len(theirs) /\ theirs[tj].start >= end)
      /\ y = Len(theirs) + 1 \/ theirs[y].start >= end => tj = y
  <2> HIDE DEF x, y, e, oi, end, last
  <2> QED
    BY <1>3, <1>8, PastOK
<1>10. tj \in 1 .. Len(theirs) + 1
  BY <1>2, <1>3, <1>9
<1>11. last \in end .. n /\ (tj = y => last = end)
  BY <1>3, <1>8, <1>10, EndOfOK
<1> HIDE DEF oi, end, tj, last
<1>12. CASE oi = x /\ tj = y
  <2>1. end = e /\ last = e
    BY <1>7, <1>11, <1>12
  <2>2. GrowRegion(ours, theirs, r) = r
    <3>1. q = [r EXCEPT !.oi = x, !.tj = y, !.end = e]
      BY <1>12, <2>1 DEF q
    <3>2. q = r
      BY <1>1, <3>1
    <3> QED
      BY <1>4, <3>2
  <2>3. Behind(ours, x, e)
    BY <1>3, <1>5, <1>12, BehindFirst
  <2>4. Behind(theirs, y, e)
    BY <1>3, <1>9, <1>12, <2>1, BehindFirst
  <2> QED
    BY <2>2, <2>3, <2>4 DEF Settled
<1>13. CASE ~(oi = x /\ tj = y)
  <2>1. oi + tj > x + y
    <3>1. oi \in Nat /\ tj \in Nat /\ x \in Nat /\ y \in Nat /\ oi >= x /\ tj >= y
      BY <1>2, <1>3, <1>5, <1>9
    <3> HIDE DEF x, y
    <3> QED
      BY <1>13, <3>1
  <2>2. ~Settled(ours, theirs, r)
    <3> SUFFICES ASSUME Settled(ours, theirs, r) PROVE FALSE
      OBVIOUS
    <3>1. Behind(ours, x, e) /\ Behind(theirs, y, e)
      BY DEF Settled
    <3>2. x = Len(ours) + 1 \/ ours[x].start >= e
      <4>1. x = Len(ours) + 1 \/ x \in x .. Len(ours)
        BY <1>2, <1>3
      <4> QED
        BY <3>1, <4>1 DEF Behind
    <3>3. y = Len(theirs) + 1 \/ theirs[y].start >= e
      <4>1. y = Len(theirs) + 1 \/ y \in y .. Len(theirs)
        BY <1>2, <1>3
      <4> QED
        BY <3>1, <4>1 DEF Behind
    <3>4. oi = x /\ end = e
      BY <1>5, <1>7, <3>2
    <3> QED
      BY <1>9, <1>13, <3>3, <3>4
  <2>3. GrowRegion(ours, theirs, r).oi = oi /\ GrowRegion(ours, theirs, r).tj = tj
    BY <1>4
  <2> QED
    BY <2>1, <2>2, <2>3
<1> QED
  BY <1>12, <1>13

\* The region lies in the base and takes in the two hunks that meet; the hunks it takes
\* in begin and end inside it, and the others do not start in it.
LEMMA RegionOK ==
  ASSUME NEW L, NEW n \in Nat, NEW ours \in Seq(Hunks(L, n)), NEW theirs \in Seq(Hunks(L, n)),
         NEW i \in 1 .. Len(ours), NEW j \in 1 .. Len(theirs),
         ours[i].start < theirs[j].end, theirs[j].start < ours[i].end,
         Ordered(ours), Ordered(theirs)
  PROVE  /\ Region(ours, theirs, i, j) \in
              [oi : i + 1 .. Len(ours) + 1, tj : j + 1 .. Len(theirs) + 1, start : 0 .. n, end : 0 .. n]
         /\ Region(ours, theirs, i, j) \in Regions(n, ours, theirs, i, j)
         /\ Settled(ours, theirs, Region(ours, theirs, i, j))
<1> DEFINE N == Len(ours) + Len(theirs)
           T == Regions(n, ours, theirs, i, j)
           a == [oi |-> i, tj |-> j, start |-> Min({ours[i].start, theirs[j].start}),
                 end |-> Max({ours[i].end, theirs[j].end})]
           rec(f) == [k \in 0 .. N |-> IF k = 0 THEN a ELSE GrowRegion(ours, theirs, f[k - 1])]
           grow == CHOOSE f : f = rec(f)
           g == [p \in (1 .. N) \X T |-> GrowRegion(ours, theirs, p[2])]
<1>1. Len(ours) \in Nat /\ Len(theirs) \in Nat /\ N \in Nat \ {0}
  BY LenProperties
<1>2. a \in T
  <2>1. ours[i] \in Hunks(L, n) /\ theirs[j] \in Hunks(L, n)
    BY ElementOfSeq
  <2>2. ours[i].start \in 0 .. n /\ theirs[j].start \in 0 .. n /\ ours[i].end \in 0 .. n /\ theirs[j].end \in 0 .. n
    BY <2>1 DEF Hunks
  <2> DEFINE first == Min({ours[i].start, theirs[j].start})
             last == Max({ours[i].end, theirs[j].end})
  <2>3. /\ first \in 0 .. n /\ first \in {ours[i].start, theirs[j].start}
        /\ first <= ours[i].start /\ first <= theirs[j].start
    <3> DEFINE U == {ours[i].start, theirs[j].start}
    <3>1. U \in SUBSET Nat /\ U # {} /\ ours[i].start \in U /\ theirs[j].start \in U
      BY <2>2
    <3> HIDE DEF U
    <3>2. Min(U) \in U /\ \A k \in U : Min(U) <= k
      BY <3>1, MinIs
    <3>3. first = Min(U)
      BY DEF U
    <3> HIDE DEF first
    <3>4. first \in U /\ first <= ours[i].start /\ first <= theirs[j].start
      BY <3>1, <3>2, <3>3
    <3> QED
      BY <2>2, <3>4 DEF U
  <2>4. last \in 0 .. n /\ last >= ours[i].end /\ last >= theirs[j].end
    <3> DEFINE U == {ours[i].end, theirs[j].end}
    <3>1. U \in SUBSET (0 .. n) /\ U # {} /\ ours[i].end \in U /\ theirs[j].end \in U
      BY <2>2
    <3> HIDE DEF U
    <3>2. Max(U) \in U /\ \A k \in U : Max(U) >= k
      BY <3>1, MaxIs
    <3>3. last = Max(U)
      BY DEF U
    <3> HIDE DEF last
    <3> QED
      BY <3>1, <3>2, <3>3
  <2> HIDE DEF first, last
  <2>5. ours[i].start < last /\ theirs[j].start < last
    <3>1. \A x, y, z \in 0 .. n : x < y /\ z >= y => x < z
      OBVIOUS
    <3> QED
      BY <2>2, <2>4, <3>1
  <2>6. a = [oi |-> i, tj |-> j, start |-> first, end |-> last]
    BY DEF first, last
  <2>7. a \in [oi : i .. Len(ours) + 1, tj : j .. Len(theirs) + 1, start : 0 .. n, end : 0 .. n] /\ a.end = last
        /\ a.start = first /\ a.oi = i /\ a.tj = j
    <3>1. i \in i .. Len(ours) + 1 /\ j \in j .. Len(theirs) + 1
      BY <1>1
    <3> HIDE DEF a
    <3> QED
      BY <2>3, <2>4, <2>6, <3>1
  <2> HIDE DEF a
  <2>8. Inside(ours, i, a.oi, a.end) /\ Inside(theirs, j, a.tj, a.end)
    <3>1. i .. i - 1 = {} /\ j .. j - 1 = {}
      OBVIOUS
    <3> QED
      BY <2>7, <3>1 DEF Inside
  <2> QED
    BY <2>3, <2>5, <2>7, <2>8 DEF Regions
<1>3. Region(ours, theirs, i, j) = grow[N]
  BY DEF Region
<1> HIDE DEF a, N
<1>4. \A r \in T : /\ GrowRegion(ours, theirs, r) \in T
                   /\ GrowRegion(ours, theirs, r).oi >= i + 1 /\ GrowRegion(ours, theirs, r).tj >= j + 1
  BY GrowOK
<1> DEFINE Still(r) == Settled(ours, theirs, r)
<1>13. \A r \in T : /\ Still(r) => GrowRegion(ours, theirs, r) = r
                    /\ Still(r) \/ GrowRegion(ours, theirs, r).oi + GrowRegion(ours, theirs, r).tj > r.oi + r.tj
  BY SettlesOrGrows
<1>14. \A r \in T : r.oi \in i .. Len(ours) + 1 /\ r.tj \in j .. Len(theirs) + 1
  BY DEF Regions
<1>15. a.oi = i /\ a.tj = j
  BY DEF a
<1> HIDE DEF T, Still
<1>5. g \in [(1 .. N) \X T -> T]
  BY <1>4
<1>6. \E f : f = rec(f)
  <2> HIDE DEF g
  <2>0. PICK f : Passes(f, N, T, a, g)
    BY <1>1, <1>2, <1>5, PassesExist
  <2>1. f \in [0 .. N -> T] /\ f[0] = a /\ \A k \in 1 .. N : f[k] = g[<<k, f[k - 1]>>]
    BY <2>0 DEF Passes
  <2>2. ASSUME NEW k \in 0 .. N
        PROVE  f[k] = IF k = 0 THEN a ELSE GrowRegion(ours, theirs, f[k - 1])
    <3>1. CASE k = 0
      BY <2>1, <3>1
    <3>2. CASE k # 0
      <4>1. k \in 1 .. N /\ k - 1 \in 0 .. N
        BY <1>1, <3>2
      <4>2. f[k - 1] \in T /\ f[k] = g[<<k, f[k - 1]>>]
        BY <2>1, <4>1
      <4> QED
        BY <3>2, <4>1, <4>2 DEF g
    <3> QED
      BY <3>1, <3>2
  <2>3. f = rec(f)
    BY <2>1, <2>2
  <2> QED
    BY <2>3
<1>7. grow = rec(grow)
  BY <1>6
<1> HIDE DEF grow
<1>8. /\ grow[0] = a
      /\ \A k \in 1 .. N : grow[k] = GrowRegion(ours, theirs, grow[k - 1])
  <2>1. 0 \in 0 .. N /\ \A k \in 1 .. N : k \in 0 .. N /\ k # 0
    BY <1>1
  <2>2. \A k \in 0 .. N : grow[k] = IF k = 0 THEN a ELSE GrowRegion(ours, theirs, grow[k - 1])
    BY <1>7, Zenon
  <2> QED
    BY <2>1, <2>2, Zenon
<1>9. \A k \in 0 .. N : grow[k] \in T
  <2> DEFINE S == [k \in 0 .. N |-> T]
  <2>1. grow[0] \in S[0]
    BY <1>1, <1>2, <1>8
  <2>2. ASSUME NEW k \in 1 .. N, grow[k - 1] \in S[k - 1] PROVE grow[k] \in S[k]
    <3>1. k \in 0 .. N /\ k - 1 \in 0 .. N
      BY <1>1
    <3>2. grow[k - 1] \in T
      BY <2>2, <3>1
    <3> QED
      BY <1>4, <1>8, <3>1, <3>2
  <2> HIDE DEF S
  <2>3. \A k \in 0 .. N : grow[k] \in S[k]
    BY <1>1, <2>1, <2>2, EveryPass
  <2> QED
    BY <2>3 DEF S
<1>16. \A k \in 0 .. N : grow[k] \in T /\ (Still(grow[k]) \/ grow[k].oi + grow[k].tj >= i + j + k)
  <2> DEFINE S == [k \in 0 .. N |-> {r \in T : Still(r) \/ r.oi + r.tj >= i + j + k}]
  <2>1. grow[0] \in S[0]
    <3>1. a \in T /\ a.oi + a.tj >= i + j + 0
      BY <1>2, <1>15
    <3> QED
      BY <1>1, <1>8, <3>1
  <2>2. ASSUME NEW k \in 1 .. N, grow[k - 1] \in S[k - 1] PROVE grow[k] \in S[k]
    <3>1. k \in 0 .. N /\ k - 1 \in 0 .. N
      BY <1>1
    <3> DEFINE r == grow[k - 1]
               q == grow[k]
    <3>2. r \in T /\ (Still(r) \/ r.oi + r.tj >= i + j + (k - 1))
      BY <2>2, <3>1
    <3>3. q = GrowRegion(ours, theirs, r)
      BY <1>8
    <3> HIDE DEF r, q
    <3>4. q \in T /\ (Still(r) => q = r) /\ (Still(r) \/ q.oi + q.tj > r.oi + r.tj)
      BY <1>4, <1>13, <3>2, <3>3
    <3>5. Still(q) \/ q.oi + q.tj >= i + j + k
      <4>1. CASE Still(r)
        BY <3>4, <4>1
      <4>2. CASE ~Still(r)
        <5>1. q.oi \in Int /\ q.tj \in Int /\ r.oi \in Int /\ r.tj \in Int /\ k \in Int
          BY <1>1, <1>14, <3>2, <3>4
        <5> QED
          BY <3>2, <3>4, <4>2, <5>1
      <4> QED
        BY <4>1, <4>2
    <3> QED
      BY <3>1, <3>4, <3>5 DEF q
  <2> HIDE DEF S
  <2>3. \A k \in 0 .. N : grow[k] \in S[k]
    BY <1>1, <2>1, <2>2, EveryPass
  <2> QED
    BY <2>3 DEF S
<1> DEFINE r == grow[N]
<1>17. Still(r)
  <2>1. r \in T /\ (Still(r) \/ r.oi + r.tj >= i + j + N)
    <3>1. N \in 0 .. N
      BY <1>1
    <3> QED
      BY <1>16, <3>1
  <2> DEFINE x == r.oi
             y == r.tj
             u == Len(ours)
             v == Len(theirs)
  <2>2. x \in i .. u + 1 /\ y \in j .. v + 1 /\ u \in Nat /\ v \in Nat
    BY <1>1, <1>14, <2>1
  <2>3. Still(r) \/ x + y >= i + j + (u + v)
    BY <2>1 DEF N
  <2>5. i \in 1 .. u /\ j \in 1 .. v
    OBVIOUS
  <2>4. CASE x + y >= i + j + (u + v)
    <3>1. x = u + 1 /\ y = v + 1
      <4> HIDE DEF x, y, u, v
      <4> QED
        BY <2>2, <2>4, <2>5
    <3>2. x .. u = {} /\ y .. v = {}
      <4> HIDE DEF x, y, u, v
      <4> QED
        BY <2>2, <3>1
    <3> HIDE DEF r
    <3> QED
      BY <3>2 DEF Still, Settled, Behind
  <2> HIDE DEF x, y, u, v, r
  <2> QED
    BY <2>3, <2>4
<1>10. r \in T /\ r.oi >= i + 1 /\ r.tj >= j + 1
  <2>1. N \in 1 .. N /\ N - 1 \in 0 .. N
    BY <1>1
  <2> QED
    BY <1>4, <1>8, <1>9, <2>1
<1> HIDE DEF r
<1>11. r \in [oi : i .. Len(ours) + 1, tj : j .. Len(theirs) + 1, start : 0 .. n, end : 0 .. n]
  BY <1>10 DEF T, Regions
<1>12. r \in [oi : i + 1 .. Len(ours) + 1, tj : j + 1 .. Len(theirs) + 1, start : 0 .. n, end : 0 .. n]
  <2>1. r.oi \in i + 1 .. Len(ours) + 1 /\ r.tj \in j + 1 .. Len(theirs) + 1
    BY <1>1, <1>10, <1>11
  <2> QED
    BY <1>11, <2>1
<1> QED
  BY <1>3, <1>10, <1>12, <1>17 DEF r, T, Still

-----------------------------------------------------------------------------
(* The merge.                                                               *)

\* The lines of the first i - 1 hunks are in the result.
Taken(hunks, i, lines) == \A k \in 1 .. i - 1 : \A l : Has(hunks[k].lines, l) => Has(lines, l)

Merging(L, n, ours, theirs) ==
  {s \in [ok : BOOLEAN, i : 1 .. Len(ours) + 1, j : 1 .. Len(theirs) + 1, pos : 0 .. n, lines : Seq(L)] :
     Taken(ours, s.i, s.lines) /\ Taken(theirs, s.j, s.lines)}

\* Taking in hunks from i up to k, and what was there before.
LEMMA TakenMore ==
  ASSUME NEW hunks, NEW lines, NEW more, NEW i \in Nat, NEW k \in Nat, Taken(hunks, i, lines),
         \A l : Has(lines, l) => Has(more, l),
         \A m \in i .. k - 1 : \A l : Has(hunks[m].lines, l) => Has(more, l)
  PROVE  Taken(hunks, k, more)
<1> SUFFICES ASSUME NEW m \in 1 .. k - 1, NEW l, Has(hunks[m].lines, l) PROVE Has(more, l)
  BY DEF Taken
<1>1. CASE m \in i .. k - 1
  BY <1>1
<1>2. CASE m \notin i .. k - 1
  <2>1. m \in 1 .. i - 1
    BY <1>2
  <2> QED
    BY <2>1 DEF Taken
<1> QED
  BY <1>1, <1>2

\* The lines of every hunk from `from` up to `to` are in what replaces them.
LEMMA SliceOK ==
  ASSUME NEW L, NEW base \in Seq(L), NEW hunks \in Seq(Hunks(L, Len(base))),
         NEW from \in 1 .. Len(hunks), NEW to \in from + 1 .. Len(hunks) + 1,
         NEW start \in 0 .. Len(base), NEW end \in 0 .. Len(base)
  PROVE  LET out == TakeReplacement(SubSeq(hunks, from, to - 1), base, start, end)
         IN  out \in Seq(L) /\ \A m \in from .. to - 1 : \A l : Has(hunks[m].lines, l) => Has(out, l)
<1> DEFINE part == SubSeq(hunks, from, to - 1)
           H == Hunks(L, Len(base))
<1>1. Len(hunks) \in Nat
  BY LenProperties
<1>2. from \in Nat \ {0} /\ to - 1 \in Int /\ to - 1 <= Len(hunks)
  BY <1>1
<1> HIDE DEF H
<1>3. /\ part \in Seq(H)
      /\ \A h : Has(part, h) <=> \E m \in from .. to - 1 : hunks[m] = h
  <2>1. hunks \in Seq(H)
    BY DEF H
  <2> QED
    BY <1>2, <2>1, PartOf
<1> HIDE DEF part
<1> DEFINE out == TakeReplacement(part, base, start, end)
<1>4. out \in Seq(L) /\ \A k \in 1 .. Len(part) : \A l : Has(part[k].lines, l) => Has(out, l)
  BY <1>3, ReplacementOK DEF H
<1> HIDE DEF out
<1>5. ASSUME NEW m \in from .. to - 1, NEW l, Has(hunks[m].lines, l) PROVE Has(out, l)
  <2>1. Has(part, hunks[m])
    BY <1>3
  <2>2. PICK k \in 1 .. Len(part) : part[k] = hunks[m]
    BY <2>1 DEF Has
  <2> QED
    BY <1>4, <1>5, <2>2
<1> QED
  BY <1>4, <1>5 DEF out, part

\* What mergeHunks adds to its result keeps the lines that are there.
LEMMA CopiedOK ==
  ASSUME NEW L, NEW base \in Seq(L), NEW before \in Seq(L), NEW lines \in Seq(L),
         NEW pos \in 0 .. Len(base), NEW upTo \in 0 .. Len(base)
  PROVE  LET out == before \o SubSeq(base, pos + 1, upTo) \o lines
         IN  out \in Seq(L) /\ \A l : Has(before, l) \/ Has(lines, l) => Has(out, l)
<1> DEFINE part == SubSeq(base, pos + 1, upTo)
<1>1. Len(base) \in Nat
  BY LenProperties
<1>2. part \in Seq(L)
  <2>1. pos + 1 \in Nat \ {0} /\ upTo \in Int /\ upTo <= Len(base)
    BY <1>1
  <2> QED
    BY <2>1, PartOf
<1> HIDE DEF part
<1>3. before \o part \in Seq(L) /\ \A l : Has(before, l) => Has(before \o part, l)
  BY <1>2, HasConcat
<1>4. /\ (before \o part) \o lines \in Seq(L)
      /\ \A l : Has(before \o part, l) \/ Has(lines, l) => Has((before \o part) \o lines, l)
  BY <1>3, HasConcat
<1> QED
  BY <1>3, <1>4 DEF part

\* Taking in some more hunks of the two sides keeps what was taken.
LEMMA MovesOn ==
  ASSUME NEW L, NEW n \in Nat, NEW ours, NEW theirs, Len(ours) \in Nat, Len(theirs) \in Nat,
         NEW s \in Merging(L, n, ours, theirs),
         NEW q \in [ok : BOOLEAN, i : 1 .. Len(ours) + 1, j : 1 .. Len(theirs) + 1, pos : 0 .. n, lines : Seq(L)],
         \A l : Has(s.lines, l) => Has(q.lines, l),
         \A m \in s.i .. q.i - 1 : \A l : Has(ours[m].lines, l) => Has(q.lines, l),
         \A m \in s.j .. q.j - 1 : \A l : Has(theirs[m].lines, l) => Has(q.lines, l)
  PROVE  q \in Merging(L, n, ours, theirs)
<1>1. /\ s \in [ok : BOOLEAN, i : 1 .. Len(ours) + 1, j : 1 .. Len(theirs) + 1, pos : 0 .. n, lines : Seq(L)]
      /\ Taken(ours, s.i, s.lines) /\ Taken(theirs, s.j, s.lines)
  BY DEF Merging
<1>2. s.i \in Nat /\ s.j \in Nat /\ q.i \in Nat /\ q.j \in Nat
  BY <1>1
<1>3. Taken(ours, q.i, q.lines)
  BY <1>1, <1>2, TakenMore
<1>4. Taken(theirs, q.j, q.lines)
  BY <1>1, <1>2, TakenMore
<1> QED
  BY <1>3, <1>4 DEF Merging

\* The pass applies one hunk: q.i = s.i + 1, or the same for the other side.
LEMMA TakesOne ==
  ASSUME NEW L, NEW n \in Nat, NEW ours, NEW theirs, Len(ours) \in Nat, Len(theirs) \in Nat,
         NEW s \in Merging(L, n, ours, theirs), NEW pos \in 0 .. n, NEW lines \in Seq(L),
         \A l : Has(s.lines, l) => Has(lines, l)
  PROVE  /\ s.i \in 1 .. Len(ours) /\ (\A l : Has(ours[s.i].lines, l) => Has(lines, l)) =>
              LET q == [s EXCEPT !.i = @ + 1, !.pos = pos, !.lines = lines]
              IN  q \in Merging(L, n, ours, theirs) /\ q.i + q.j > s.i + s.j
         /\ s.j \in 1 .. Len(theirs) /\ (\A l : Has(theirs[s.j].lines, l) => Has(lines, l)) =>
              LET q == [s EXCEPT !.j = @ + 1, !.pos = pos, !.lines = lines]
              IN  q \in Merging(L, n, ours, theirs) /\ q.i + q.j > s.i + s.j
<1> DEFINE States == [ok : BOOLEAN, i : 1 .. Len(ours) + 1, j : 1 .. Len(theirs) + 1, pos : 0 .. n, lines : Seq(L)]
<1>1. s \in States
  BY DEF Merging
<1>2. s.i \in Nat /\ s.j \in Nat
  BY <1>1
<1>3. \A x, y \in Nat : /\ y = x + 1 => \A m \in x .. y - 1 : m = x
                        /\ y = x => \A m \in x .. y - 1 : FALSE
  OBVIOUS
<1>4. ASSUME s.i \in 1 .. Len(ours), \A l : Has(ours[s.i].lines, l) => Has(lines, l)
      PROVE  LET q == [s EXCEPT !.i = @ + 1, !.pos = pos, !.lines = lines]
             IN  q \in Merging(L, n, ours, theirs) /\ q.i + q.j > s.i + s.j
  <2> DEFINE q == [s EXCEPT !.i = @ + 1, !.pos = pos, !.lines = lines]
  <2>1. s.i + 1 \in 1 .. Len(ours) + 1
    BY <1>4
  <2>2. q \in States /\ q.i = s.i + 1 /\ q.j = s.j /\ q.lines = lines
    BY <1>1, <2>1
  <2> HIDE DEF q
  <2>3. /\ \A m \in s.i .. q.i - 1 : \A l : Has(ours[m].lines, l) => Has(q.lines, l)
        /\ \A m \in s.j .. q.j - 1 : \A l : Has(theirs[m].lines, l) => Has(q.lines, l)
    <3>1. q.i \in Nat /\ q.j \in Nat
      BY <1>2, <2>2
    <3> QED
      BY <1>2, <1>3, <1>4, <2>2, <3>1, Zenon
  <2>4. q \in Merging(L, n, ours, theirs)
    BY <2>2, <2>3, MovesOn
  <2>5. q.i + q.j > s.i + s.j
    <3> DEFINE i == s.i
               j == s.j
               k == q.i
               l == q.j
    <3>1. i \in Nat /\ j \in Nat /\ k = i + 1 /\ l = j
      BY <1>2, <2>2
    <3> HIDE DEF i, j, k, l
    <3>2. k + l > i + j
      BY <3>1
    <3> QED
      BY <3>2 DEF i, j, k, l
  <2> QED
    BY <2>4, <2>5 DEF q
<1>5. ASSUME s.j \in 1 .. Len(theirs), \A l : Has(theirs[s.j].lines, l) => Has(lines, l)
      PROVE  LET q == [s EXCEPT !.j = @ + 1, !.pos = pos, !.lines = lines]
             IN  q \in Merging(L, n, ours, theirs) /\ q.i + q.j > s.i + s.j
  <2> DEFINE q == [s EXCEPT !.j = @ + 1, !.pos = pos, !.lines = lines]
  <2>1. s.j + 1 \in 1 .. Len(theirs) + 1
    BY <1>5
  <2>2. q \in States /\ q.j = s.j + 1 /\ q.i = s.i /\ q.lines = lines
    BY <1>1, <2>1
  <2> HIDE DEF q
  <2>3. /\ \A m \in s.i .. q.i - 1 : \A l : Has(ours[m].lines, l) => Has(q.lines, l)
        /\ \A m \in s.j .. q.j - 1 : \A l : Has(theirs[m].lines, l) => Has(q.lines, l)
    <3>1. q.i \in Nat /\ q.j \in Nat
      BY <1>2, <2>2
    <3> QED
      BY <1>2, <1>3, <1>5, <2>2, <3>1, Zenon
  <2>4. q \in Merging(L, n, ours, theirs)
    BY <2>2, <2>3, MovesOn
  <2>5. q.i + q.j > s.i + s.j
    <3> DEFINE i == s.i
               j == s.j
               k == q.i
               l == q.j
    <3>1. i \in Nat /\ j \in Nat /\ k = i /\ l = j + 1
      BY <1>2, <2>2
    <3> HIDE DEF i, j, k, l
    <3>2. k + l > i + j
      BY <3>1
    <3> QED
      BY <3>2 DEF i, j, k, l
  <2> QED
    BY <2>4, <2>5 DEF q
<1> QED
  BY <1>4, <1>5, Zenon

\* A sum grows with its terms.
LEMMA BothMore ==
  ASSUME NEW u \in Int, NEW v \in Int, NEW x \in Int, NEW y \in Int, u >= x + 1, v >= y + 1
  PROVE  u + v > x + y
OBVIOUS

\* The pass applies the hunks of a region.
LEMMA TakesRegion ==
  ASSUME NEW L, NEW n \in Nat, NEW ours, NEW theirs, Len(ours) \in Nat, Len(theirs) \in Nat,
         NEW s \in Merging(L, n, ours, theirs), NEW pos \in 0 .. n, NEW lines \in Seq(L),
         NEW oi \in s.i + 1 .. Len(ours) + 1, NEW tj \in s.j + 1 .. Len(theirs) + 1,
         \A l : Has(s.lines, l) => Has(lines, l),
         \A m \in s.i .. oi - 1 : \A l : Has(ours[m].lines, l) => Has(lines, l),
         \A m \in s.j .. tj - 1 : \A l : Has(theirs[m].lines, l) => Has(lines, l),
         NEW q, q = [s EXCEPT !.i = oi, !.j = tj, !.pos = pos, !.lines = lines]
  PROVE  q \in Merging(L, n, ours, theirs) /\ q.i + q.j > s.i + s.j
<1> DEFINE States == [ok : BOOLEAN, i : 1 .. Len(ours) + 1, j : 1 .. Len(theirs) + 1, pos : 0 .. n, lines : Seq(L)]
<1>1. s \in States
  BY DEF Merging
<1>2. s.i \in 1 .. Len(ours) + 1 /\ s.j \in 1 .. Len(theirs) + 1
  BY <1>1
<1>3. \A y \in Nat : \A x \in 1 .. y + 1 : \A o \in x + 1 .. y + 1 : o \in 1 .. y + 1 /\ o >= x + 1
  OBVIOUS
<1>4. /\ oi \in 1 .. Len(ours) + 1 /\ oi >= s.i + 1
      /\ tj \in 1 .. Len(theirs) + 1 /\ tj >= s.j + 1
  BY <1>2, <1>3
<1>5. q \in States /\ q.i = oi /\ q.j = tj /\ q.lines = lines
  BY <1>1, <1>4
<1>6. q \in Merging(L, n, ours, theirs)
  BY <1>5, MovesOn
<1>7. q.i + q.j > s.i + s.j
  <2>1. s.i \in Int /\ s.j \in Int /\ oi \in Int /\ tj \in Int
    BY <1>2, <1>4
  <2>2. oi + tj > s.i + s.j
    BY <1>4, <2>1, BothMore
  <2> QED
    BY <1>5, <2>2
<1> QED
  BY <1>6, <1>7

\* The pass finds hunks that meet and differ.
LEMMA StopsThere ==
  ASSUME NEW L, NEW n, NEW ours, NEW theirs, NEW s \in Merging(L, n, ours, theirs)
  PROVE  LET q == [s EXCEPT !.ok = FALSE]
         IN  q \in Merging(L, n, ours, theirs) /\ ~q.ok
<1> DEFINE q == [s EXCEPT !.ok = FALSE]
           States == [ok : BOOLEAN, i : 1 .. Len(ours) + 1, j : 1 .. Len(theirs) + 1, pos : 0 .. n, lines : Seq(L)]
<1>1. s \in States /\ Taken(ours, s.i, s.lines) /\ Taken(theirs, s.j, s.lines)
  BY DEF Merging
<1>2. q \in States /\ ~q.ok /\ q.i = s.i /\ q.j = s.j /\ q.lines = s.lines
  BY <1>1
<1> HIDE DEF q
<1>3. q \in Merging(L, n, ours, theirs) /\ ~q.ok
  BY <1>1, <1>2 DEF Merging
<1> QED
  BY <1>3 DEF q

\* One pass of mergeHunks keeps what was taken and goes on by a hunk.
LEMMA MergePassOK ==
  ASSUME NEW L, NEW base \in Seq(L),
         NEW ours \in Seq(Hunks(L, Len(base))), NEW theirs \in Seq(Hunks(L, Len(base))),
         Ordered(ours), Ordered(theirs), NEW s \in Merging(L, Len(base), ours, theirs)
  PROVE  LET q == MergePass(base, ours, theirs, s)
         IN  /\ q \in Merging(L, Len(base), ours, theirs)
             /\ \/ ~q.ok
                \/ q = s /\ s.i > Len(ours) /\ s.j > Len(theirs)
                \/ q.i + q.j > s.i + s.j
<1> DEFINE n == Len(base)
           M == Merging(L, n, ours, theirs)
           a == ours[s.i]
           b == theirs[s.j]
           Precedes(h, more, other) == ~more \/ h.end <= other.start
           Copied(upTo, lines) == s.lines \o SubSeq(base, s.pos + 1, upTo) \o lines
           r == Region(ours, theirs, s.i, s.j)
           Slice(hunks, from, to) == TakeReplacement(SubSeq(hunks, from, to - 1), base, r.start, r.end)
           mine == Slice(ours, s.i, r.oi)
           other == Slice(theirs, s.j, r.tj)
           First == s.i <= Len(ours) /\ Precedes(a, s.j <= Len(theirs), b)
           Second == s.j <= Len(theirs) /\ Precedes(b, s.i <= Len(ours), a)
           Done == ~s.ok \/ (s.i > Len(ours) /\ s.j > Len(theirs))
           takeA == [s EXCEPT !.i = @ + 1, !.pos = a.end, !.lines = Copied(a.start, a.lines)]
           takeB == [s EXCEPT !.j = @ + 1, !.pos = b.end, !.lines = Copied(b.start, b.lines)]
           both == [s EXCEPT !.i = r.oi, !.j = r.tj, !.pos = r.end, !.lines = Copied(r.start, mine)]
           stop == [s EXCEPT !.ok = FALSE]
           q == MergePass(base, ours, theirs, s)
           Goal(p) == /\ p \in M
                      /\ \/ ~p.ok
                         \/ p = s /\ s.i > Len(ours) /\ s.j > Len(theirs)
                         \/ p.i + p.j > s.i + s.j
<1>1. q = IF Done THEN s ELSE IF First THEN takeA ELSE IF Second THEN takeB
          ELSE IF mine = other THEN both ELSE stop
  BY Zenon DEF MergePass
<1>2. /\ s.ok \in BOOLEAN /\ s.i \in 1 .. Len(ours) + 1 /\ s.j \in 1 .. Len(theirs) + 1
      /\ s.pos \in 0 .. n /\ s.lines \in Seq(L)
  BY DEF Merging
<1>3. Len(ours) \in Nat /\ Len(theirs) \in Nat /\ n \in Nat
  BY LenProperties
<1>4. /\ s.i <= Len(ours) => s.i \in 1 .. Len(ours)
      /\ s.j <= Len(theirs) => s.j \in 1 .. Len(theirs)
  BY <1>2, <1>3
<1>5. \A upTo \in 0 .. n : \A lines \in Seq(L) :
        /\ Copied(upTo, lines) \in Seq(L)
        /\ \A l : Has(s.lines, l) \/ Has(lines, l) => Has(Copied(upTo, lines), l)
  BY <1>2, CopiedOK, Zenon
<1> HIDE DEF Copied
<1> DEFINE H == Hunks(L, n)
<1>6. \A h \in H : h.start \in 0 .. n /\ h.end \in 0 .. n /\ h.lines \in Seq(L)
  BY DEF Hunks
<1>7. (s.i <= Len(ours) => a \in H) /\ (s.j <= Len(theirs) => b \in H)
  <2> HIDE DEF H
  <2>1. ours \in Seq(H) /\ theirs \in Seq(H)
    BY DEF H
  <2> QED
    BY <1>4, <2>1, ElementOfSeq
<1> SUFFICES Goal(q)
  OBVIOUS
<1>8. CASE Done
  <2>1. Goal(s)
    BY <1>8
  <2> HIDE DEF Goal, q, Done, First, Second, takeA, takeB, both, stop, mine, other
  <2>2. q = s
    BY <1>1, <1>8
  <2> QED
    BY <2>1, <2>2
<1>9. CASE First
  <2>1. s.i \in 1 .. Len(ours) /\ s.i <= Len(ours)
    BY <1>4, <1>9
  <2> DEFINE lines == Copied(a.start, a.lines)
  <2>2. lines \in Seq(L) /\ \A l : Has(s.lines, l) \/ Has(ours[s.i].lines, l) => Has(lines, l)
    BY <1>5, <1>6, <1>7, <2>1
  <2>3. a.end \in 0 .. n
    BY <1>6, <1>7, <2>1
  <2> HIDE DEF lines
  <2> DEFINE p == [s EXCEPT !.i = @ + 1, !.pos = a.end, !.lines = lines]
  <2>4. p \in M /\ p.i + p.j > s.i + s.j
    <3> HIDE DEF n
    <3>1. s \in Merging(L, n, ours, theirs)
      BY DEF n
    <3> QED
      BY <1>3, <2>1, <2>2, <2>3, <3>1, TakesOne
  <2>5. p = takeA
    BY DEF lines
  <2> HIDE DEF p, M
  <2>6. Goal(p)
    BY <2>4
  <2> QED
    BY <1>1, <1>8, <1>9, <2>5, <2>6, Zenon
<1>10. CASE ~First /\ Second
  <2>1. s.j \in 1 .. Len(theirs) /\ s.j <= Len(theirs)
    BY <1>4, <1>10
  <2> DEFINE lines == Copied(b.start, b.lines)
  <2>2. lines \in Seq(L) /\ \A l : Has(s.lines, l) \/ Has(theirs[s.j].lines, l) => Has(lines, l)
    BY <1>5, <1>6, <1>7, <2>1
  <2>3. b.end \in 0 .. n
    BY <1>6, <1>7, <2>1
  <2> HIDE DEF lines
  <2> DEFINE p == [s EXCEPT !.j = @ + 1, !.pos = b.end, !.lines = lines]
  <2>4. p \in M /\ p.i + p.j > s.i + s.j
    <3> HIDE DEF n
    <3>1. s \in Merging(L, n, ours, theirs)
      BY DEF n
    <3> QED
      BY <1>3, <2>1, <2>2, <2>3, <3>1, TakesOne
  <2>5. p = takeB
    BY DEF lines
  <2> HIDE DEF p, M
  <2>6. Goal(p)
    BY <2>4
  <2> QED
    BY <1>1, <1>8, <1>10, <2>5, <2>6, Zenon
<1>11. CASE ~Done /\ ~First /\ ~Second
  <2>1. /\ s.i <= Len(ours) /\ s.j <= Len(theirs)
        /\ a.start < b.end /\ b.start < a.end
    <3>1. s.i <= Len(ours) /\ s.j <= Len(theirs) /\ ~(a.end <= b.start) /\ ~(b.end <= a.start)
      <4>1. s.i \in Nat /\ s.j \in Nat
        BY <1>2
      <4> HIDE DEF a, b
      <4> QED
        BY <1>3, <1>11, <4>1
    <3>2. a \in H /\ b \in H
      BY <1>7, <3>1
    <3>3. /\ a.start \in Nat /\ a.end \in Nat /\ b.start \in Nat /\ b.end \in Nat
      <4> HIDE DEF a, b, H
      <4> QED
        BY <1>3, <1>6, <3>2
    <3> HIDE DEF a, b
    <3> QED
      BY <3>1, <3>3
  <2>2. /\ s.i \in 1 .. Len(ours) /\ s.j \in 1 .. Len(theirs)
        /\ a \in Hunks(L, n) /\ b \in Hunks(L, n)
    BY <1>4, <1>7, <2>1
  <2>3. r \in [oi : s.i + 1 .. Len(ours) + 1, tj : s.j + 1 .. Len(theirs) + 1, start : 0 .. n, end : 0 .. n]
    BY <1>3, <2>1, <2>2, RegionOK
  <2> HIDE DEF r
  <2>4. /\ r.oi \in s.i + 1 .. Len(ours) + 1 /\ r.tj \in s.j + 1 .. Len(theirs) + 1
        /\ r.start \in 0 .. n /\ r.end \in 0 .. n
    BY <2>3
  <2>5. /\ mine \in Seq(L)
        /\ \A m \in s.i .. r.oi - 1 : \A l : Has(ours[m].lines, l) => Has(mine, l)
    BY <2>2, <2>4, SliceOK
  <2>6. \A m \in s.j .. r.tj - 1 : \A l : Has(theirs[m].lines, l) => Has(other, l)
    BY <2>2, <2>4, SliceOK
  <2> HIDE DEF Slice, mine, other
  <2>7. CASE mine = other
    <3> DEFINE lines == Copied(r.start, mine)
    <3>1. lines \in Seq(L) /\ \A l : Has(s.lines, l) \/ Has(mine, l) => Has(lines, l)
      BY <1>5, <2>4, <2>5
    <3>2. both = [s EXCEPT !.i = r.oi, !.j = r.tj, !.pos = r.end, !.lines = lines]
      OBVIOUS
    <3> HIDE DEF lines, both
    <3>3. /\ \A m \in s.i .. r.oi - 1 : \A l : Has(ours[m].lines, l) => Has(lines, l)
          /\ \A m \in s.j .. r.tj - 1 : \A l : Has(theirs[m].lines, l) => Has(lines, l)
      BY <2>5, <2>6, <2>7, <3>1
    <3> DEFINE oi == r.oi
               tj == r.tj
               pos == r.end
               p == [s EXCEPT !.i = oi, !.j = tj, !.pos = pos, !.lines = lines]
    <3>4. p \in M /\ p.i + p.j > s.i + s.j
      <4>1. oi \in s.i + 1 .. Len(ours) + 1 /\ tj \in s.j + 1 .. Len(theirs) + 1 /\ pos \in 0 .. n
        BY <2>4
      <4>2. /\ \A m \in s.i .. oi - 1 : \A l : Has(ours[m].lines, l) => Has(lines, l)
            /\ \A m \in s.j .. tj - 1 : \A l : Has(theirs[m].lines, l) => Has(lines, l)
        BY <3>3
      <4> HIDE DEF n, oi, tj, pos
      <4>3. s \in Merging(L, n, ours, theirs)
        BY DEF n
      <4>4. /\ \A l : Has(s.lines, l) => Has(lines, l)
            /\ lines \in Seq(L)
        BY <3>1
      <4>5. n \in Nat /\ Len(ours) \in Nat /\ Len(theirs) \in Nat
        BY <1>3
      <4> HIDE DEF a, b, First, Second, Done, takeA, takeB, stop, q, Goal, H
      <4> HIDE DEF M
      <4>6. p = [s EXCEPT !.i = oi, !.j = tj, !.pos = pos, !.lines = lines]
        OBVIOUS
      <4> HIDE DEF p
      <4>7. p \in Merging(L, n, ours, theirs) /\ p.i + p.j > s.i + s.j
        BY <4>1, <4>2, <4>3, <4>4, <4>5, <4>6, TakesRegion
      <4> QED
        BY <4>7 DEF M
    <3> HIDE DEF M, p
    <3>5. Goal(both)
      <4>1. both = p
        BY <3>2 DEF p
      <4> QED
        BY <3>4, <4>1
    <3> QED
      BY <1>1, <1>11, <2>7, <3>5, Zenon
  <2>8. CASE mine # other
    <3>1. stop \in M /\ ~stop.ok
      BY StopsThere, Zenon
    <3> HIDE DEF M, stop
    <3>2. Goal(stop)
      BY <3>1
    <3> QED
      BY <1>1, <1>11, <2>8, <3>2, Zenon
  <2> QED
    BY <2>7, <2>8
<1> QED
  BY <1>8, <1>9, <1>10, <1>11

\* The merge stands at pos: the hunks before k end there or before, the others start there
\* or behind.
Placed(hunks, k, pos) == Inside(hunks, 1, k, pos) /\ Behind(hunks, k, pos)

\* No hunk replaces what lies between there and the next hunk.
LEMMA OutsidePlaced ==
  ASSUME NEW L, NEW n \in Nat, NEW hunks \in Seq(Hunks(L, n)), Ordered(hunks),
         NEW k \in 1 .. Len(hunks) + 1, NEW pos \in 0 .. n, NEW p \in 1 .. n, pos < p,
         Inside(hunks, 1, k, pos), k = Len(hunks) + 1 \/ p <= hunks[k].start
  PROVE  Outside(hunks, p)
<1>1. k = 1 \/ hunks[k - 1].end < p
  <2> SUFFICES ASSUME k # 1 PROVE hunks[k - 1].end < p
    OBVIOUS
  <2>1. Len(hunks) \in Nat
    BY LenProperties
  <2>2. k - 1 \in 1 .. k - 1 /\ k - 1 \in 1 .. Len(hunks)
    BY <2>1
  <2> DEFINE e == hunks[k - 1].end
  <2>3. e <= pos
    BY <2>2 DEF Inside
  <2>4. e \in 0 .. n
    <3>1. hunks[k - 1] \in Hunks(L, n)
      BY <2>2, ElementOfSeq
    <3> QED
      BY <3>1 DEF Hunks
  <2> HIDE DEF e
  <2>5. e < p
    BY <2>3, <2>4
  <2> QED
    BY <2>5 DEF e
<1> QED
  BY <1>1, BetweenHunks

\* Behind the next hunk.
LEMMA PlacedNext ==
  ASSUME NEW L, NEW n \in Nat, NEW hunks \in Seq(Hunks(L, n)), Ordered(hunks),
         NEW k \in 1 .. Len(hunks), NEW pos \in 0 .. n, Placed(hunks, k, pos)
  PROVE  /\ Placed(hunks, k + 1, hunks[k].end)
         /\ hunks[k].start \in pos .. n /\ hunks[k].end \in hunks[k].start .. n
<1> DEFINE N == Len(hunks)
<1>1. N \in Nat /\ \A m \in 1 .. N : hunks[m].start \in 0 .. n /\ hunks[m].end \in 0 .. n
  <2>1. \A m \in 1 .. N : hunks[m] \in Hunks(L, n)
    BY ElementOfSeq
  <2>2. \A m \in 1 .. N : hunks[m].start \in 0 .. n /\ hunks[m].end \in 0 .. n
    BY <2>1 DEF Hunks
  <2> QED
    BY <2>2, LenProperties
<1>2. \A m \in 1 .. N : /\ hunks[m].start <= hunks[m].end
                        /\ \A q \in m + 1 .. N : hunks[m].end <= hunks[q].start
  BY DEF Ordered
<1>3. Behind(hunks, k + 1, hunks[k].end)
  <2> SUFFICES ASSUME NEW m \in k + 1 .. N PROVE hunks[m].start >= hunks[k].end
    BY DEF Behind
  <2>1. m \in 1 .. N
    BY <1>1
  <2> DEFINE u == hunks[k].end
             v == hunks[m].start
  <2>2. u <= v /\ u \in 0 .. n /\ v \in 0 .. n
    BY <1>1, <1>2, <2>1
  <2> HIDE DEF u, v
  <2>3. v >= u
    BY <2>2
  <2> QED
    BY <2>3 DEF u, v
<1>4. Inside(hunks, 1, k + 1, hunks[k].end)
  <2> SUFFICES ASSUME NEW m \in 1 .. k + 1 - 1 PROVE hunks[m].end <= hunks[k].end
    BY DEF Inside
  <2>1. CASE m = k
    BY <1>1, <2>1
  <2>2. CASE m # k
    <3>1. m \in 1 .. N /\ k \in m + 1 .. N
      BY <1>1, <2>2
    <3> DEFINE u == hunks[m].end
               v == hunks[k].start
               w == hunks[k].end
    <3>2. u <= v /\ v <= w /\ u \in 0 .. n /\ v \in 0 .. n /\ w \in 0 .. n
      BY <1>1, <1>2, <3>1
    <3> HIDE DEF u, v, w
    <3>3. u <= w
      BY <3>2
    <3> QED
      BY <3>3 DEF u, w
  <2> QED
    BY <2>1, <2>2
<1>5. hunks[k].start >= pos
  <2>1. k \in k .. Len(hunks)
    BY <1>1
  <2> QED
    BY <2>1 DEF Placed, Behind
<1>6. hunks[k].start \in pos .. n /\ hunks[k].end \in hunks[k].start .. n
  <2> DEFINE v == hunks[k].start
             w == hunks[k].end
  <2>1. v \in 0 .. n /\ w \in 0 .. n /\ v <= w /\ v >= pos
    BY <1>1, <1>2, <1>5
  <2> HIDE DEF v, w
  <2>2. v \in pos .. n /\ w \in v .. n
    BY <2>1
  <2> QED
    BY <2>2 DEF v, w
<1> QED
  BY <1>3, <1>4, <1>6 DEF Placed

\* Further on, where the next hunk of the other side has not begun.
LEMMA PlacedOn ==
  ASSUME NEW L, NEW n \in Nat, NEW hunks \in Seq(Hunks(L, n)), Ordered(hunks),
         NEW k \in 1 .. Len(hunks) + 1, NEW pos \in 0 .. n, NEW to \in pos .. n,
         Placed(hunks, k, pos), k = Len(hunks) + 1 \/ hunks[k].start >= to
  PROVE  Placed(hunks, k, to)
<1>1. Len(hunks) \in Nat
  BY LenProperties
<1>2. 1 \in 1 .. Len(hunks) + 1 /\ k \in k .. Len(hunks) + 1 /\ \A m \in k .. k - 1 : FALSE
  BY <1>1
<1>3. Inside(hunks, 1, k, to)
  BY <1>2, InsideMore DEF Placed
<1>4. Behind(hunks, k, to)
  <2>1. to \in 0 .. n
    OBVIOUS
  <2> QED
    BY <2>1, BehindFirst
<1> QED
  BY <1>3, <1>4 DEF Placed

\* The pass applies one hunk of a side: what it adds stands for the base up to its end.
LEMMA OneCovers ==
  ASSUME NEW L, NEW base \in Seq(L),
         NEW mine \in Seq(Hunks(L, Len(base))), NEW other \in Seq(Hunks(L, Len(base))),
         Ordered(mine), Ordered(other),
         NEW i \in 1 .. Len(mine), NEW j \in 1 .. Len(other) + 1,
         NEW pos \in 0 .. Len(base), NEW lines \in Seq(L), NEW X, NEW R,
         Placed(mine, i, pos), Placed(other, j, pos), Covers(lines, base, X, R, 0, pos),
         j = Len(other) + 1 \/ mine[i].end <= other[j].start,
         \A l : Has(mine[i].lines, l) => l \in R,
         \A p \in 1 .. Len(base) : Outside(mine, p) /\ Outside(other, p) => base[p] \in R,
         \A p \in X : Outside(mine, p)
  PROVE  /\ Placed(mine, i + 1, mine[i].end) /\ Placed(other, j, mine[i].end)
         /\ Covers(lines \o SubSeq(base, pos + 1, mine[i].start) \o mine[i].lines, base, X, R, 0, mine[i].end)
<1> DEFINE n == Len(base)
           start == mine[i].start
           end == mine[i].end
           part == SubSeq(base, pos + 1, start)
           text == mine[i].lines
<1>1. n \in Nat /\ Len(mine) \in Nat /\ Len(other) \in Nat
  BY LenProperties
<1>2. Placed(mine, i + 1, end) /\ start \in pos .. n /\ end \in start .. n
  BY <1>1, PlacedNext
<1>3. text \in Seq(L)
  <2>1. mine[i] \in Hunks(L, n)
    BY ElementOfSeq
  <2> QED
    BY <2>1 DEF Hunks
<1>4. start \in 0 .. n /\ end \in 0 .. n /\ end \in pos .. n /\ pos \in Nat /\ start \in Nat /\ end \in Nat
  <2> HIDE DEF n, start, end
  <2> QED
    BY <1>1, <1>2 DEF n
<1>5. j = Len(other) + 1 \/ (other[j].start \in 0 .. n /\ other[j].start >= end)
  <2> SUFFICES ASSUME j # Len(other) + 1 PROVE other[j].start \in 0 .. n /\ other[j].start >= end
    OBVIOUS
  <2>1. j \in 1 .. Len(other)
    BY <1>1
  <2>2. other[j] \in Hunks(L, n)
    BY <2>1, ElementOfSeq
  <2> DEFINE u == other[j].start
  <2>3. u \in 0 .. n /\ end <= u
    BY <2>2 DEF Hunks
  <2> HIDE DEF u, end, n
  <2>4. u >= end
    BY <1>1, <1>4, <2>3
  <2> QED
    BY <2>3, <2>4 DEF u
<1>6. Placed(other, j, end)
  <2> HIDE DEF end
  <2> QED
    BY <1>1, <1>4, <1>5, PlacedOn
<1>7. ASSUME NEW p \in pos + 1 .. start PROVE base[p] \in R
  <2>1. p \in 1 .. n /\ pos < p /\ p <= start /\ p <= end
    <3> HIDE DEF n, start, end
    <3> QED
      BY <1>1, <1>2, <1>4, <1>7
  <2>2. Outside(mine, p)
    <3>1. i \in 1 .. Len(mine) + 1
      BY <1>1
    <3> QED
      BY <1>1, <2>1, <3>1, OutsidePlaced DEF Placed
  <2>3. Outside(other, p)
    <3>1. j = Len(other) + 1 \/ p <= other[j].start
      <4> SUFFICES ASSUME j # Len(other) + 1 PROVE p <= other[j].start
        OBVIOUS
      <4> DEFINE u == other[j].start
      <4>1. u \in 0 .. n /\ u >= end
        BY <1>5
      <4> HIDE DEF u, end, n
      <4>2. p <= u
        BY <1>1, <1>4, <2>1, <4>1
      <4> QED
        BY <4>2 DEF u
    <3> QED
      BY <1>1, <2>1, <3>1, OutsidePlaced DEF Placed
  <2> QED
    BY <2>1, <2>2, <2>3
<1>8. part \in Seq(L) /\ Covers(part, base, X, R, pos, start)
  <2> HIDE DEF start
  <2> QED
    BY <1>4, <1>7, CoversCopy
<1>9. Covers(text, base, X, R, start, end)
  <2>1. ASSUME NEW p \in start + 1 .. end PROVE p \notin X
    <3>1. start < p /\ p <= end
      <4> HIDE DEF start, end
      <4> QED
        BY <1>4, <2>1
    <3> QED
      BY <3>1 DEF Outside
  <2> HIDE DEF start, end
  <2> QED
    BY <2>1, CoversHunk
<1> HIDE DEF n, start, end, part, text
<1>10. lines \o part \in Seq(L) /\ Covers(lines \o part, base, X, R, 0, start)
  BY <1>4, <1>8, CoversBoth
<1>11. Covers((lines \o part) \o text, base, X, R, 0, end)
  BY <1>3, <1>4, <1>9, <1>10, CoversBoth
<1> QED
  BY <1>2, <1>6, <1>11 DEF start, end, part, text

\* The hunks of a side from `from` up to `to` in a region that holds them and no others.
LEMMA SliceCovers ==
  ASSUME NEW L, NEW base \in Seq(L), NEW hunks \in Seq(Hunks(L, Len(base))), Ordered(hunks),
         NEW from \in 1 .. Len(hunks), NEW to \in from + 1 .. Len(hunks) + 1,
         NEW start \in 0 .. Len(base), NEW end \in 0 .. Len(base), start <= hunks[from].start,
         Inside(hunks, 1, from, start), Inside(hunks, from, to, end), Behind(hunks, to, end),
         NEW X, NEW R,
         \A m \in from .. to - 1 : \A l : Has(hunks[m].lines, l) => l \in R,
         \A p \in 1 .. Len(base) : Outside(hunks, p) => base[p] \in R,
         \A p \in X : Outside(hunks, p)
  PROVE  /\ Covers(TakeReplacement(SubSeq(hunks, from, to - 1), base, start, end), base, X, R, start, end)
         /\ Placed(hunks, to, end) /\ start <= end
<1> DEFINE n == Len(base)
           N == Len(hunks)
           part == SubSeq(hunks, from, to - 1)
           H == Hunks(L, n)
<1>1. n \in Nat /\ N \in Nat
  BY LenProperties
<1>2. \A m \in 1 .. N : hunks[m].start \in 0 .. n /\ hunks[m].end \in 0 .. n
  <2>1. \A m \in 1 .. N : hunks[m] \in Hunks(L, n)
    BY ElementOfSeq
  <2> QED
    BY <2>1 DEF Hunks
<1>3. \A m \in 1 .. N : /\ hunks[m].start <= hunks[m].end
                        /\ \A q \in m + 1 .. N : hunks[m].end <= hunks[q].start
  BY DEF Ordered
<1>4. /\ part \in Seq(H) /\ Len(part) = to - from
      /\ \A k \in 1 .. to - from : part[k] = hunks[from + k - 1]
  <2> HIDE DEF H
  <2>1. \A m \in from .. to - 1 : hunks[m] \in H
    <3>1. hunks \in Seq(H) /\ \A m \in from .. to - 1 : m \in 1 .. Len(hunks)
      BY <1>1 DEF H
    <3> QED
      BY <3>1, ElementOfSeq
  <2>2. /\ SubSeq(hunks, from, to - 1) \in Seq(H)
        /\ Len(SubSeq(hunks, from, to - 1)) = IF from <= to - 1 THEN to - 1 - from + 1 ELSE 0
        /\ \A k \in 1 .. to - 1 - from + 1 : SubSeq(hunks, from, to - 1)[k] = hunks[from + k - 1]
    <3>1. from \in Int /\ to - 1 \in Int
      BY <1>1
    <3> QED
      BY <2>1, <3>1, SubSeqProperties
  <2>3. from <= to - 1 /\ to - 1 - from + 1 = to - from
    BY <1>1
  <2> QED
    BY <2>2, <2>3
<1> HIDE DEF part, N, n, H
<1>5. to \in 1 .. N + 1 /\ from \in 1 .. N /\ from \in from .. to - 1 /\ \A m \in from .. to - 1 : m \in 1 .. N
  BY <1>1 DEF N
<1>6. start <= end /\ start \in 0 .. n /\ end \in start .. n
  <2> DEFINE u == hunks[from].start
             v == hunks[from].end
  <2>1. start <= u /\ u <= v /\ v <= end
    BY <1>3, <1>5 DEF Inside
  <2>2. u \in 0 .. n /\ v \in 0 .. n
    BY <1>2, <1>5
  <2> HIDE DEF u, v
  <2>3. start \in 0 .. n /\ end \in 0 .. n
    BY DEF n
  <2> QED
    BY <1>1, <2>1, <2>2, <2>3
<1>7. \A m \in from .. to - 1 : start <= hunks[m].start /\ hunks[m].end <= end
  <2> SUFFICES ASSUME NEW m \in from .. to - 1 PROVE start <= hunks[m].start /\ hunks[m].end <= end
    OBVIOUS
  <2>1. hunks[m].end <= end
    BY DEF Inside
  <2>2. CASE m = from
    BY <2>1, <2>2
  <2>3. CASE m # from
    <3>1. m \in from + 1 .. N /\ m \in 1 .. N
      BY <1>1, <1>5, <2>3
    <3> DEFINE u == hunks[from].start
               v == hunks[from].end
               w == hunks[m].start
    <3>2. start <= u /\ u <= v /\ v <= w
      BY <1>3, <1>5, <3>1
    <3>3. u \in 0 .. n /\ v \in 0 .. n /\ w \in 0 .. n
      BY <1>2, <1>5, <3>1
    <3> HIDE DEF u, v, w
    <3>4. start <= w
      BY <1>6, <3>2, <3>3
    <3> QED
      BY <2>1, <3>4 DEF w
  <2> QED
    BY <2>2, <2>3
<1>8. \A k \in 1 .. to - from : from + k - 1 \in from .. to - 1
  BY <1>1, <1>5
<1>9. \A m \in from .. to - 1 : m - from + 1 \in 1 .. to - from /\ from + (m - from + 1) - 1 = m
  BY <1>1, <1>5
<1>10. Ordered(part)
  <2> SUFFICES ASSUME NEW k \in 1 .. to - from
               PROVE  /\ part[k].start <= part[k].end
                      /\ \A m \in k + 1 .. to - from : part[k].end <= part[m].start
    BY <1>4 DEF Ordered
  <2>1. from + k - 1 \in 1 .. N
    BY <1>5, <1>8
  <2>2. part[k].start <= part[k].end
    BY <1>3, <1>4, <2>1
  <2>3. ASSUME NEW m \in k + 1 .. to - from PROVE part[k].end <= part[m].start
    <3>1. m \in 1 .. to - from
      BY <1>1, <1>5
    <3> DEFINE u == from + k - 1
               v == from + m - 1
    <3>2. v \in u + 1 .. N
      BY <1>1, <1>5, <3>1
    <3>3. part[k] = hunks[u] /\ part[m] = hunks[v] /\ u \in 1 .. N
      BY <1>4, <2>1, <3>1
    <3> HIDE DEF u, v
    <3> QED
      BY <1>3, <3>2, <3>3
  <2> QED
    BY <2>2, <2>3
<1>11. ASSUME NEW p \in start + 1 .. end PROVE Outside(part, p) <=> Outside(hunks, p)
  <2>1. p \in 1 .. n /\ start < p /\ p <= end
    BY <1>1, <1>6
  <2>2. ASSUME Outside(part, p), NEW m \in 1 .. N PROVE ~(hunks[m].start < p /\ p <= hunks[m].end)
    <3> DEFINE u == hunks[m].start
               v == hunks[m].end
    <3>1. u \in 0 .. n /\ v \in 0 .. n
      BY <1>2
    <3>2. CASE m \in 1 .. from - 1
      <4>1. v <= start
        BY <3>2 DEF Inside
      <4> HIDE DEF u, v
      <4>2. ~(u < p /\ p <= v)
        BY <1>6, <2>1, <3>1, <4>1
      <4> QED
        BY <4>2 DEF u, v
    <3>3. CASE m \in from .. to - 1
      <4> DEFINE k == m - from + 1
      <4>1. k \in 1 .. to - from /\ part[k] = hunks[m]
        BY <1>4, <1>9, <3>3
      <4> HIDE DEF k
      <4> QED
        BY <1>4, <2>2, <4>1 DEF Outside
    <3>4. CASE m \in to .. N
      <4>1. u >= end
        BY <3>4 DEF Behind, N
      <4> HIDE DEF u, v
      <4>2. ~(u < p /\ p <= v)
        BY <1>6, <2>1, <3>1, <4>1
      <4> QED
        BY <4>2 DEF u, v
    <3> QED
      BY <1>1, <1>5, <3>2, <3>3, <3>4
  <2>3. ASSUME Outside(hunks, p), NEW k \in 1 .. to - from PROVE ~(part[k].start < p /\ p <= part[k].end)
    <3>1. from + k - 1 \in 1 .. N /\ part[k] = hunks[from + k - 1]
      BY <1>4, <1>5, <1>8
    <3> QED
      BY <2>3, <3>1 DEF Outside, N
  <2> QED
    BY <1>4, <2>2, <2>3 DEF Outside, N
<1>12. Covers(TakeReplacement(part, base, start, end), base, X, R, start, end)
  <2>1. \A k \in 1 .. Len(part) : start <= part[k].start /\ part[k].end <= end
    BY <1>4, <1>7, <1>8
  <2>2. \A k \in 1 .. Len(part) : \A l : Has(part[k].lines, l) => l \in R
    BY <1>4, <1>8
  <2>3. \A p \in start + 1 .. end : p \in 1 .. Len(base)
    BY <1>1, <1>6 DEF n
  <2>4. \A p \in start + 1 .. end : Outside(part, p) => base[p] \in R
    BY <1>11, <2>3
  <2>5. \A p \in start + 1 .. end : p \in X => Outside(part, p)
    BY <1>11
  <2>6. part \in Seq(Hunks(L, Len(base)))
    BY <1>4 DEF H, n
  <2> QED
    BY <1>10, <2>1, <2>2, <2>4, <2>5, <2>6, ReplacementCovers
<1>13. Inside(hunks, 1, to, end)
  <2>1. 1 \in 1 .. Len(hunks) + 1 /\ from \in 1 .. Len(hunks) + 1 /\ to \in from .. Len(hunks) + 1
    BY <1>1, <1>5 DEF N
  <2>2. end \in start .. Len(base)
    BY <1>6 DEF n
  <2> QED
    BY <1>1, <1>7, <2>1, <2>2, InsideMore DEF n
<1> QED
  BY <1>6, <1>12, <1>13 DEF Placed, part

\* The lines a merge may return and the places of the base it may not drop, given the
\* hunks of the sides: a line comes from a hunk or stayed on both sides, and X has only
\* places that no hunk replaces.
Allows(base, ours, theirs, X, R) ==
  /\ \A k \in 1 .. Len(ours) : \A l : Has(ours[k].lines, l) => l \in R
  /\ \A k \in 1 .. Len(theirs) : \A l : Has(theirs[k].lines, l) => l \in R
  /\ \A p, q \in 1 .. Len(base) : Outside(ours, p) /\ Outside(theirs, q) /\ base[p] = base[q] => base[p] \in R
  /\ \A p \in X : Outside(ours, p) /\ Outside(theirs, p)

\* The merge stands at s.pos, and what it made stands for the base up to there.
Built(base, ours, theirs, X, R, s) ==
  Placed(ours, s.i, s.pos) /\ Placed(theirs, s.j, s.pos) /\ Covers(s.lines, base, X, R, 0, s.pos)

\* The pass applies the hunks of a region on which the sides agree.
LEMMA RegionCovers ==
  ASSUME NEW L, NEW base \in Seq(L),
         NEW ours \in Seq(Hunks(L, Len(base))), NEW theirs \in Seq(Hunks(L, Len(base))),
         Ordered(ours), Ordered(theirs), NEW i \in 1 .. Len(ours), NEW j \in 1 .. Len(theirs),
         NEW pos \in 0 .. Len(base), NEW lines \in Seq(L), NEW X, NEW R, Allows(base, ours, theirs, X, R),
         Placed(ours, i, pos), Placed(theirs, j, pos), Covers(lines, base, X, R, 0, pos),
         NEW r \in Regions(Len(base), ours, theirs, i, j), Settled(ours, theirs, r),
         r.oi \in i + 1 .. Len(ours) + 1, r.tj \in j + 1 .. Len(theirs) + 1,
         NEW slice, slice = TakeReplacement(SubSeq(ours, i, r.oi - 1), base, r.start, r.end),
         slice = TakeReplacement(SubSeq(theirs, j, r.tj - 1), base, r.start, r.end)
  PROVE  /\ Placed(ours, r.oi, r.end) /\ Placed(theirs, r.tj, r.end)
         /\ Covers(lines \o SubSeq(base, pos + 1, r.start) \o slice, base, X, R, 0, r.end)
<1> DEFINE n == Len(base)
           oi == r.oi
           tj == r.tj
           start == r.start
           end == r.end
           part == SubSeq(base, pos + 1, start)
           Mine == {l \in L : (\E k \in 1 .. Len(ours) : Has(ours[k].lines, l))
                              \/ \E p \in 1 .. n : Outside(ours, p) /\ base[p] = l}
           Other == {l \in L : (\E k \in 1 .. Len(theirs) : Has(theirs[k].lines, l))
                               \/ \E p \in 1 .. n : Outside(theirs, p) /\ base[p] = l}
<1>1. n \in Nat /\ Len(ours) \in Nat /\ Len(theirs) \in Nat
  BY LenProperties
<1>2. /\ oi \in i + 1 .. Len(ours) + 1 /\ tj \in j + 1 .. Len(theirs) + 1
      /\ start \in 0 .. n /\ end \in 0 .. n
      /\ start <= ours[i].start /\ start <= theirs[j].start
      /\ start \in {ours[i].start, theirs[j].start}
      /\ Inside(ours, i, oi, end) /\ Inside(theirs, j, tj, end)
      /\ Behind(ours, oi, end) /\ Behind(theirs, tj, end)
      /\ slice = TakeReplacement(SubSeq(ours, i, oi - 1), base, start, end)
      /\ slice = TakeReplacement(SubSeq(theirs, j, tj - 1), base, start, end)
  BY DEF Regions, Settled
<1>17. oi \in i + 1 .. Len(ours) + 1 /\ tj \in j + 1 .. Len(theirs) + 1
  BY <1>2
<1>3. ours[i].start \in pos .. n /\ theirs[j].start \in pos .. n
  BY <1>1, PlacedNext
<1> HIDE DEF oi, tj, start, end
<1>4. start \in pos .. n
  BY <1>2, <1>3
<1>5. Inside(ours, 1, i, start) /\ Inside(theirs, 1, j, start)
  <2>1. i \in 1 .. Len(ours) + 1 /\ j \in 1 .. Len(theirs) + 1
    BY <1>1
  <2>2. ours[i].start >= start /\ theirs[j].start >= start
    <3> DEFINE u == ours[i].start
               v == theirs[j].start
    <3>1. u \in pos .. n /\ v \in pos .. n /\ start <= u /\ start <= v
      BY <1>2, <1>3
    <3> HIDE DEF u, v
    <3>2. u >= start /\ v >= start
      BY <1>4, <3>1
    <3> QED
      BY <3>2 DEF u, v
  <2>3. Placed(ours, i, start)
    BY <1>1, <1>4, <2>1, <2>2, PlacedOn
  <2>4. Placed(theirs, j, start)
    BY <1>1, <1>4, <2>1, <2>2, PlacedOn
  <2> QED
    BY <2>3, <2>4 DEF Placed
<1>6. \A p \in 1 .. n : base[p] \in L
  BY ElementOfSeq
<1>7. /\ \A k \in 1 .. Len(ours) : ours[k].lines \in Seq(L)
      /\ \A k \in 1 .. Len(theirs) : theirs[k].lines \in Seq(L)
  <2>1. /\ \A k \in 1 .. Len(ours) : ours[k] \in Hunks(L, n)
        /\ \A k \in 1 .. Len(theirs) : theirs[k] \in Hunks(L, n)
    BY ElementOfSeq
  <2> QED
    BY <2>1 DEF Hunks
<1>8. \A text \in Seq(L) : \A l : Has(text, l) => l \in L
  BY ElementOfSeq DEF Has
<1>9. /\ Covers(slice, base, X, Mine, start, end) /\ Placed(ours, oi, end) /\ start <= end
  <2>1. \A m \in i .. oi - 1 : m \in 1 .. Len(ours)
    BY <1>1, <1>17
  <2>2. \A m \in i .. oi - 1 : \A l : Has(ours[m].lines, l) => l \in Mine
    BY <1>7, <1>8, <2>1
  <2>3. \A p \in 1 .. n : Outside(ours, p) => base[p] \in Mine
    BY <1>6
  <2>4. \A p \in X : Outside(ours, p)
    BY DEF Allows
  <2> HIDE DEF Mine
  <2> QED
    BY <1>2, <1>5, <2>2, <2>3, <2>4, SliceCovers
<1>10. /\ Covers(slice, base, X, Other, start, end) /\ Placed(theirs, tj, end)
  <2>1. \A m \in j .. tj - 1 : m \in 1 .. Len(theirs)
    BY <1>1, <1>17
  <2>2. \A m \in j .. tj - 1 : \A l : Has(theirs[m].lines, l) => l \in Other
    BY <1>7, <1>8, <2>1
  <2>3. \A p \in 1 .. n : Outside(theirs, p) => base[p] \in Other
    BY <1>6
  <2>4. \A p \in X : Outside(theirs, p)
    BY DEF Allows
  <2> HIDE DEF Other
  <2> QED
    BY <1>2, <1>5, <2>2, <2>3, <2>4, SliceCovers
<1>11. Covers(slice, base, X, R, start, end)
  <2>1. ASSUME NEW l, Has(slice, l) PROVE l \in R
    <3>1. l \in Mine /\ l \in Other
      BY <1>9, <1>10, <2>1 DEF Covers
    <3>2. CASE \E k \in 1 .. Len(ours) : Has(ours[k].lines, l)
      BY <3>2 DEF Allows
    <3>3. CASE \E k \in 1 .. Len(theirs) : Has(theirs[k].lines, l)
      BY <3>3 DEF Allows
    <3>4. CASE /\ \E p \in 1 .. n : Outside(ours, p) /\ base[p] = l
               /\ \E p \in 1 .. n : Outside(theirs, p) /\ base[p] = l
      <4>1. PICK p \in 1 .. n : Outside(ours, p) /\ base[p] = l
        BY <3>4
      <4>2. PICK q \in 1 .. n : Outside(theirs, q) /\ base[q] = l
        BY <3>4
      <4> QED
        BY <4>1, <4>2 DEF Allows
    <3> QED
      BY <3>1, <3>2, <3>3, <3>4
  <2> QED
    BY <1>9, <2>1 DEF Covers
<1>12. part \in Seq(L) /\ Covers(part, base, X, R, pos, start)
  <2>1. ASSUME NEW p \in pos + 1 .. start PROVE base[p] \in R
    <3>1. p \in 1 .. n /\ pos < p /\ p <= start
      BY <1>1, <1>4, <2>1
    <3>2. Outside(ours, p) /\ Outside(theirs, p)
      <4>1. i \in 1 .. Len(ours) + 1 /\ j \in 1 .. Len(theirs) + 1
        BY <1>1
      <4>2. p <= ours[i].start /\ p <= theirs[j].start
        <5> DEFINE u == ours[i].start
                   v == theirs[j].start
        <5>1. u \in pos .. n /\ v \in pos .. n /\ start <= u /\ start <= v
          BY <1>2, <1>3
        <5> HIDE DEF u, v
        <5>2. p <= u /\ p <= v
          BY <1>1, <1>4, <3>1, <5>1
        <5> QED
          BY <5>2 DEF u, v
      <4>3. Outside(ours, p)
        BY <1>1, <3>1, <4>1, <4>2, OutsidePlaced DEF Placed
      <4>4. Outside(theirs, p)
        BY <1>1, <3>1, <4>1, <4>2, OutsidePlaced DEF Placed
      <4> QED
        BY <4>3, <4>4
    <3> QED
      BY <3>1, <3>2 DEF Allows
  <2>2. start \in 0 .. Len(base)
    BY <1>2
  <2> QED
    BY <2>1, <2>2, CoversCopy
<1>13. slice \in Seq(L)
  BY <1>2, SliceOK
<1> HIDE DEF n, part
<1>14. pos \in Nat /\ start \in Nat /\ end \in Nat
  BY <1>1, <1>2 DEF n
<1>15. lines \o part \in Seq(L) /\ Covers(lines \o part, base, X, R, 0, start)
  BY <1>12, <1>14, CoversBoth
<1>16. Covers((lines \o part) \o slice, base, X, R, 0, end)
  BY <1>11, <1>13, <1>14, <1>15, CoversBoth
<1> QED
  BY <1>9, <1>10, <1>16 DEF oi, tj, start, end, part

\* One pass of mergeHunks goes on building.
LEMMA MergePassBuilds ==
  ASSUME NEW L, NEW base \in Seq(L),
         NEW ours \in Seq(Hunks(L, Len(base))), NEW theirs \in Seq(Hunks(L, Len(base))),
         Ordered(ours), Ordered(theirs), NEW s \in Merging(L, Len(base), ours, theirs),
         NEW X, NEW R, Allows(base, ours, theirs, X, R), Built(base, ours, theirs, X, R, s)
  PROVE  Built(base, ours, theirs, X, R, MergePass(base, ours, theirs, s))
<1> DEFINE n == Len(base)
           a == ours[s.i]
           b == theirs[s.j]
           Precedes(h, more, other) == ~more \/ h.end <= other.start
           Copied(upTo, lines) == s.lines \o SubSeq(base, s.pos + 1, upTo) \o lines
           r == Region(ours, theirs, s.i, s.j)
           Slice(hunks, from, to) == TakeReplacement(SubSeq(hunks, from, to - 1), base, r.start, r.end)
           mine == Slice(ours, s.i, r.oi)
           other == Slice(theirs, s.j, r.tj)
           First == s.i <= Len(ours) /\ Precedes(a, s.j <= Len(theirs), b)
           Second == s.j <= Len(theirs) /\ Precedes(b, s.i <= Len(ours), a)
           Done == ~s.ok \/ (s.i > Len(ours) /\ s.j > Len(theirs))
           takeA == [s EXCEPT !.i = @ + 1, !.pos = a.end, !.lines = Copied(a.start, a.lines)]
           takeB == [s EXCEPT !.j = @ + 1, !.pos = b.end, !.lines = Copied(b.start, b.lines)]
           both == [s EXCEPT !.i = r.oi, !.j = r.tj, !.pos = r.end, !.lines = Copied(r.start, mine)]
           stop == [s EXCEPT !.ok = FALSE]
           q == MergePass(base, ours, theirs, s)
           Goal(p) == Built(base, ours, theirs, X, R, p)
<1>1. q = IF Done THEN s ELSE IF First THEN takeA ELSE IF Second THEN takeB
          ELSE IF mine = other THEN both ELSE stop
  BY Zenon DEF MergePass
<1>2. /\ s.i \in 1 .. Len(ours) + 1 /\ s.j \in 1 .. Len(theirs) + 1
      /\ s.pos \in 0 .. n /\ s.lines \in Seq(L)
      /\ s \in [ok : BOOLEAN, i : 1 .. Len(ours) + 1, j : 1 .. Len(theirs) + 1, pos : 0 .. n, lines : Seq(L)]
  BY DEF Merging
<1>3. Len(ours) \in Nat /\ Len(theirs) \in Nat /\ n \in Nat
  BY LenProperties
<1>4. /\ s.i <= Len(ours) => s.i \in 1 .. Len(ours)
      /\ s.j <= Len(theirs) => s.j \in 1 .. Len(theirs)
      /\ s.i <= Len(ours) \/ s.i = Len(ours) + 1
      /\ s.j <= Len(theirs) \/ s.j = Len(theirs) + 1
  BY <1>2, <1>3
<1>5. /\ Placed(ours, s.i, s.pos) /\ Placed(theirs, s.j, s.pos)
      /\ Covers(s.lines, base, X, R, 0, s.pos)
  BY DEF Built
<1>6. /\ \A p \in 1 .. n : Outside(ours, p) /\ Outside(theirs, p) => base[p] \in R
      /\ \A p \in 1 .. n : Outside(theirs, p) /\ Outside(ours, p) => base[p] \in R
      /\ \A p \in X : Outside(ours, p) /\ Outside(theirs, p)
      /\ \A k \in 1 .. Len(ours) : \A l : Has(ours[k].lines, l) => l \in R
      /\ \A k \in 1 .. Len(theirs) : \A l : Has(theirs[k].lines, l) => l \in R
  BY DEF Allows
<1> SUFFICES Goal(q)
  OBVIOUS
<1> HIDE DEF Goal
<1>7. CASE Done
  <2>1. Goal(s)
    BY DEF Goal
  <2> HIDE DEF q, Done, First, Second, takeA, takeB, both, stop, mine, other
  <2> QED
    BY <1>1, <1>7, <2>1
<1>8. CASE ~Done /\ First
  <2>1. s.i \in 1 .. Len(ours) /\ (s.j = Len(theirs) + 1 \/ a.end <= b.start)
    <3> HIDE DEF a, b
    <3> QED
      BY <1>4, <1>8
  <2> DEFINE lines == Copied(a.start, a.lines)
             end == a.end
  <2>2. Placed(ours, s.i + 1, end) /\ Placed(theirs, s.j, end) /\ Covers(lines, base, X, R, 0, end)
    BY <1>2, <1>5, <1>6, <2>1, OneCovers
  <2> HIDE DEF lines, end
  <2> DEFINE p == [s EXCEPT !.i = @ + 1, !.pos = end, !.lines = lines]
  <2>3. p = takeA
    BY DEF lines, end
  <2>4. p.i = s.i + 1 /\ p.j = s.j /\ p.pos = end /\ p.lines = lines
    BY <1>2
  <2> HIDE DEF p
  <2>5. Goal(p)
    BY <2>2, <2>4 DEF Goal, Built
  <2> QED
    BY <1>1, <1>8, <2>3, <2>5, Zenon
<1>9. CASE ~Done /\ ~First /\ Second
  <2>1. s.j \in 1 .. Len(theirs) /\ (s.i = Len(ours) + 1 \/ b.end <= a.start)
    <3> HIDE DEF a, b
    <3> QED
      BY <1>4, <1>9
  <2> DEFINE lines == Copied(b.start, b.lines)
             end == b.end
  <2>2. Placed(theirs, s.j + 1, end) /\ Placed(ours, s.i, end) /\ Covers(lines, base, X, R, 0, end)
    BY <1>2, <1>5, <1>6, <2>1, OneCovers
  <2> HIDE DEF lines, end
  <2> DEFINE p == [s EXCEPT !.j = @ + 1, !.pos = end, !.lines = lines]
  <2>3. p = takeB
    BY DEF lines, end
  <2>4. p.j = s.j + 1 /\ p.i = s.i /\ p.pos = end /\ p.lines = lines
    BY <1>2
  <2> HIDE DEF p
  <2>5. Goal(p)
    BY <2>2, <2>4 DEF Goal, Built
  <2> QED
    BY <1>1, <1>9, <2>3, <2>5, Zenon
<1>10. CASE ~Done /\ ~First /\ ~Second
  <2>1. /\ s.i \in 1 .. Len(ours) /\ s.j \in 1 .. Len(theirs)
        /\ a.start < b.end /\ b.start < a.end
    <3>1. s.i <= Len(ours) /\ s.j <= Len(theirs) /\ ~(a.end <= b.start) /\ ~(b.end <= a.start)
      <4>1. s.i \in Nat /\ s.j \in Nat
        BY <1>2
      <4> HIDE DEF a, b
      <4> QED
        BY <1>3, <1>10, <4>1
    <3>2. s.i \in 1 .. Len(ours) /\ s.j \in 1 .. Len(theirs)
      BY <1>4, <3>1
    <3>3. a \in Hunks(L, n) /\ b \in Hunks(L, n)
      BY <3>2, ElementOfSeq
    <3>4. /\ a.start \in 0 .. n /\ a.end \in 0 .. n /\ b.start \in 0 .. n /\ b.end \in 0 .. n
      <4> HIDE DEF a, b
      <4> QED
        BY <3>3 DEF Hunks
    <3> HIDE DEF a, b
    <3> QED
      BY <1>3, <3>1, <3>2, <3>4
  <2>2. /\ r \in [oi : s.i + 1 .. Len(ours) + 1, tj : s.j + 1 .. Len(theirs) + 1, start : 0 .. n, end : 0 .. n]
        /\ r \in Regions(n, ours, theirs, s.i, s.j) /\ Settled(ours, theirs, r)
    BY <1>3, <2>1, RegionOK
  <2> HIDE DEF r
  <2>3. r.oi \in s.i + 1 .. Len(ours) + 1 /\ r.tj \in s.j + 1 .. Len(theirs) + 1
    BY <2>2
  <2>4. CASE mine = other
    <3> DEFINE lines == Copied(r.start, mine)
               oi == r.oi
               tj == r.tj
               end == r.end
    <3>1. Placed(ours, oi, end) /\ Placed(theirs, tj, end) /\ Covers(lines, base, X, R, 0, end)
      <4> DEFINE i == s.i
                 j == s.j
                 pos == s.pos
                 before == s.lines
                 slice == mine
      <4>1. /\ slice = TakeReplacement(SubSeq(ours, i, r.oi - 1), base, r.start, r.end)
            /\ slice = TakeReplacement(SubSeq(theirs, j, r.tj - 1), base, r.start, r.end)
        BY <2>4
      <4>2. i \in 1 .. Len(ours) /\ j \in 1 .. Len(theirs) /\ pos \in 0 .. Len(base) /\ before \in Seq(L)
        BY <1>2, <2>1
      <4>3. Placed(ours, i, pos) /\ Placed(theirs, j, pos) /\ Covers(before, base, X, R, 0, pos)
        BY <1>5
      <4>4. /\ r \in Regions(Len(base), ours, theirs, i, j) /\ Settled(ours, theirs, r)
            /\ r.oi \in i + 1 .. Len(ours) + 1 /\ r.tj \in j + 1 .. Len(theirs) + 1
        BY <2>2, <2>3
      <4>5. lines = before \o SubSeq(base, pos + 1, r.start) \o slice
        OBVIOUS
      <4> HIDE DEF lines, i, j, pos, before, slice, a, b, mine, other, both, stop, takeA, takeB, First, Second, Done, q
      <4>6. /\ Placed(ours, r.oi, r.end) /\ Placed(theirs, r.tj, r.end)
            /\ Covers(before \o SubSeq(base, pos + 1, r.start) \o slice, base, X, R, 0, r.end)
        BY <4>1, <4>2, <4>3, <4>4, RegionCovers
      <4> QED
        BY <4>5, <4>6
    <3> DEFINE p == [s EXCEPT !.i = oi, !.j = tj, !.pos = end, !.lines = lines]
    <3>2. p = both
      OBVIOUS
    <3> HIDE DEF lines, oi, tj, end
    <3>3. p.i = oi /\ p.j = tj /\ p.pos = end /\ p.lines = lines
      BY <1>2
    <3> HIDE DEF p
    <3>4. Goal(p)
      BY <3>1, <3>3 DEF Goal, Built
    <3> QED
      BY <1>1, <1>10, <2>4, <3>2, <3>4, Zenon
  <2>5. CASE mine # other
    <3>1. stop.i = s.i /\ stop.j = s.j /\ stop.pos = s.pos /\ stop.lines = s.lines
      BY <1>2
    <3> HIDE DEF stop
    <3>2. Goal(stop)
      BY <1>5, <3>1 DEF Goal, Built
    <3> QED
      BY <1>1, <1>10, <2>5, <3>2, Zenon
  <2> QED
    BY <2>4, <2>5
<1> QED
  BY <1>7, <1>8, <1>9, <1>10

\* mergeHunks applies every hunk of both sides and leaves the rest of the base as it is,
\* or reports a conflict.
LEMMA MergedHunks ==
  ASSUME NEW L, NEW base \in Seq(L),
         NEW ours \in Seq(Hunks(L, Len(base))), NEW theirs \in Seq(Hunks(L, Len(base))),
         Ordered(ours), Ordered(theirs)
  PROVE  LET m == MergeHunks(base, ours, theirs)
         IN  /\ m.ok \in BOOLEAN /\ m.lines \in Seq(L)
             /\ m.ok => /\ \A k \in 1 .. Len(ours) : \A l : Has(ours[k].lines, l) => Has(m.lines, l)
                        /\ \A k \in 1 .. Len(theirs) : \A l : Has(theirs[k].lines, l) => Has(m.lines, l)
                        /\ \A X, R : Allows(base, ours, theirs, X, R)
                                     => Covers(m.lines, base, X, R, 0, Len(base))
<1> DEFINE n == Len(base)
           N == Len(ours) + Len(theirs)
           T == Merging(L, n, ours, theirs)
           a == [ok |-> TRUE, i |-> 1, j |-> 1, pos |-> 0, lines |-> << >>]
           g == [p \in (1 .. N) \X T |-> MergePass(base, ours, theirs, p[2])]
           rec(f) == [k \in 0 .. N |-> IF k = 0 THEN a ELSE MergePass(base, ours, theirs, f[k - 1])]
           merge == CHOOSE f : f = rec(f)
           m == MergeHunks(base, ours, theirs)
           Done(s) == ~s.ok \/ (s.i > Len(ours) /\ s.j > Len(theirs))
<1>1. Len(ours) \in Nat /\ Len(theirs) \in Nat /\ n \in Nat /\ N \in Nat
  <2>1. Len(ours) \in Nat /\ Len(theirs) \in Nat /\ n \in Nat
    BY LenProperties
  <2> QED
    BY <2>1
<1>2. m = IF merge[N].ok THEN [ok |-> TRUE, lines |-> merge[N].lines \o SubSeq(base, merge[N].pos + 1, n)]
          ELSE Conflict
  BY DEF MergeHunks
<1> HIDE DEF N, m
<1>3. a \in T /\ a.i = 1 /\ a.j = 1
  <2>1. /\ a \in [ok : BOOLEAN, i : 1 .. Len(ours) + 1, j : 1 .. Len(theirs) + 1, pos : 0 .. n, lines : Seq(L)]
        /\ a.i = 1 /\ a.j = 1
    <3>1. << >> \in Seq(L)
      BY EmptySeq
    <3>2. 1 \in 1 .. Len(ours) + 1 /\ 1 \in 1 .. Len(theirs) + 1 /\ 0 \in 0 .. n
      BY <1>1
    <3>3. TRUE \in BOOLEAN
      BY Zenon
    <3> QED
      BY <3>1, <3>2, <3>3
  <2> HIDE DEF a
  <2>2. Taken(ours, a.i, a.lines) /\ Taken(theirs, a.j, a.lines)
    BY <2>1 DEF Taken
  <2> QED
    BY <2>1, <2>2 DEF Merging
<1>13. \A X, R : Built(base, ours, theirs, X, R, a)
  <2> SUFFICES ASSUME NEW X, NEW R PROVE Built(base, ours, theirs, X, R, a)
    OBVIOUS
  <2>1. a.i = 1 /\ a.j = 1 /\ a.pos = 0 /\ a.lines = << >>
    OBVIOUS
  <2> HIDE DEF a
  <2>2. /\ \A k \in 1 .. Len(ours) : ours[k].start >= 0
        /\ \A k \in 1 .. Len(theirs) : theirs[k].start >= 0
    <3>1. /\ \A k \in 1 .. Len(ours) : ours[k] \in Hunks(L, n)
          /\ \A k \in 1 .. Len(theirs) : theirs[k] \in Hunks(L, n)
      BY ElementOfSeq
    <3>2. /\ \A k \in 1 .. Len(ours) : ours[k].start \in 0 .. n
          /\ \A k \in 1 .. Len(theirs) : theirs[k].start \in 0 .. n
      BY <3>1 DEF Hunks
    <3> QED
      BY <1>1, <3>2
  <2>3. Placed(ours, 1, 0) /\ Placed(theirs, 1, 0)
    <3>1. 1 .. 1 - 1 = {}
      OBVIOUS
    <3> QED
      BY <2>2, <3>1 DEF Placed, Inside, Behind
  <2>4. Covers(<< >>, base, X, R, 0, 0)
    <3>1. Len(<< >>) = 0 /\ 0 + 1 .. 0 = {} /\ 1 .. 0 = {}
      BY EmptySeq
    <3> QED
      BY <3>1 DEF Covers, Has
  <2> QED
    BY <2>1, <2>3, <2>4 DEF Built
<1> HIDE DEF a
<1>4. \A s \in T : /\ MergePass(base, ours, theirs, s) \in T
                   /\ Done(s) => MergePass(base, ours, theirs, s) = s
                   /\ Done(s) \/ ~MergePass(base, ours, theirs, s).ok
                      \/ MergePass(base, ours, theirs, s).i + MergePass(base, ours, theirs, s).j > s.i + s.j
  <2> SUFFICES ASSUME NEW s \in T
               PROVE  /\ MergePass(base, ours, theirs, s) \in T
                      /\ Done(s) => MergePass(base, ours, theirs, s) = s
                      /\ Done(s) \/ ~MergePass(base, ours, theirs, s).ok
                         \/ MergePass(base, ours, theirs, s).i + MergePass(base, ours, theirs, s).j > s.i + s.j
    OBVIOUS
  <2>1. Done(s) => MergePass(base, ours, theirs, s) = s
    BY Zenon DEF MergePass
  <2> DEFINE q == MergePass(base, ours, theirs, s)
  <2>2. /\ q \in T
        /\ \/ ~q.ok
           \/ q = s /\ s.i > Len(ours) /\ s.j > Len(theirs)
           \/ q.i + q.j > s.i + s.j
    BY MergePassOK, Zenon
  <2> HIDE DEF q, T
  <2>3. Done(s) => q = s
    BY <2>1 DEF q
  <2>4. Done(s) \/ ~q.ok \/ q.i + q.j > s.i + s.j
    BY <2>2
  <2> QED
    BY <2>2, <2>3, <2>4 DEF q
<1>5. \A s \in T : /\ s.ok \in BOOLEAN /\ s.i \in 1 .. Len(ours) + 1 /\ s.j \in 1 .. Len(theirs) + 1
                   /\ s.pos \in 0 .. n /\ s.lines \in Seq(L)
                   /\ Taken(ours, s.i, s.lines) /\ Taken(theirs, s.j, s.lines)
  BY DEF Merging
<1>14. ASSUME NEW X, NEW R, Allows(base, ours, theirs, X, R), NEW s \in T,
              Built(base, ours, theirs, X, R, s)
       PROVE  Built(base, ours, theirs, X, R, MergePass(base, ours, theirs, s))
  BY <1>14, MergePassBuilds, Zenon
<1> HIDE DEF T
<1>6. g \in [(1 .. N) \X T -> T]
  BY <1>4
<1>7. \E f : f = rec(f)
  <2> HIDE DEF g
  <2>0. PICK f : Passes(f, N, T, a, g)
    BY <1>1, <1>3, <1>6, PassesExist
  <2>1. f \in [0 .. N -> T] /\ f[0] = a /\ \A k \in 1 .. N : f[k] = g[<<k, f[k - 1]>>]
    BY <2>0 DEF Passes
  <2>2. ASSUME NEW k \in 0 .. N
        PROVE  f[k] = IF k = 0 THEN a ELSE MergePass(base, ours, theirs, f[k - 1])
    <3>1. CASE k = 0
      BY <2>1, <3>1
    <3>2. CASE k # 0
      <4>1. k \in 1 .. N /\ k - 1 \in 0 .. N
        BY <1>1, <3>2
      <4>2. f[k - 1] \in T /\ f[k] = g[<<k, f[k - 1]>>]
        BY <2>1, <4>1
      <4> QED
        BY <3>2, <4>1, <4>2 DEF g
    <3> QED
      BY <3>1, <3>2
  <2>3. f = rec(f)
    BY <2>1, <2>2
  <2> QED
    BY <2>3
<1>8. merge = rec(merge)
  BY <1>7
<1> HIDE DEF merge
<1>9. /\ merge[0] = a
      /\ \A k \in 1 .. N : merge[k] = MergePass(base, ours, theirs, merge[k - 1])
  <2>1. 0 \in 0 .. N /\ \A k \in 1 .. N : k \in 0 .. N /\ k # 0
    BY <1>1
  <2>2. \A k \in 0 .. N : merge[k] = IF k = 0 THEN a ELSE MergePass(base, ours, theirs, merge[k - 1])
    BY <1>8, Zenon
  <2> QED
    BY <2>1, <2>2, Zenon
<1> DEFINE S == [k \in 0 .. N |-> {s \in T : Done(s) \/ s.i + s.j >= k + 2}]
<1>10. merge[N] \in T /\ (Done(merge[N]) \/ merge[N].i + merge[N].j >= N + 2)
  <2>1. merge[0] \in S[0]
    BY <1>1, <1>3, <1>9
  <2>2. ASSUME NEW k \in 1 .. N, merge[k - 1] \in S[k - 1] PROVE merge[k] \in S[k]
    <3>1. k \in 0 .. N /\ k - 1 \in 0 .. N
      BY <1>1
    <3> DEFINE s == merge[k - 1]
               q == merge[k]
    <3>2. s \in T /\ (Done(s) \/ s.i + s.j >= k - 1 + 2)
      BY <2>2, <3>1
    <3>3. q = MergePass(base, ours, theirs, s)
      BY <1>9
    <3> HIDE DEF s, q, Done
    <3>4. q \in T /\ (Done(s) => q = s) /\ (Done(s) \/ ~q.ok \/ q.i + q.j > s.i + s.j)
      BY <1>4, <3>2, <3>3
    <3>5. Done(q) \/ q.i + q.j >= k + 2
      <4>1. CASE Done(s)
        BY <3>4, <4>1
      <4>2. CASE ~Done(s) /\ ~q.ok
        BY <4>2 DEF Done
      <4>3. CASE ~Done(s) /\ q.i + q.j > s.i + s.j
        <5>1. q.i \in Int /\ q.j \in Int /\ s.i \in Int /\ s.j \in Int /\ k \in Int
          BY <1>1, <1>5, <3>2, <3>4
        <5> QED
          BY <3>2, <4>3, <5>1
      <4> QED
        BY <3>4, <4>1, <4>2, <4>3
    <3> QED
      BY <3>1, <3>4, <3>5 DEF q
  <2> HIDE DEF S
  <2>3. \A k \in 0 .. N : merge[k] \in S[k]
    BY <1>1, <2>1, <2>2, EveryPass
  <2>4. N \in 0 .. N
    BY <1>1
  <2> QED
    BY <2>3, <2>4 DEF S
<1>15. ASSUME NEW X, NEW R, Allows(base, ours, theirs, X, R)
       PROVE  Built(base, ours, theirs, X, R, merge[N])
  <2> DEFINE U == [k \in 0 .. N |-> {s \in T : Built(base, ours, theirs, X, R, s)}]
  <2>1. merge[0] \in U[0]
    BY <1>1, <1>3, <1>9, <1>13
  <2>2. ASSUME NEW k \in 1 .. N, merge[k - 1] \in U[k - 1] PROVE merge[k] \in U[k]
    <3>1. k \in 0 .. N /\ k - 1 \in 0 .. N
      BY <1>1
    <3>2. merge[k - 1] \in T /\ Built(base, ours, theirs, X, R, merge[k - 1])
      BY <2>2, <3>1
    <3>3. merge[k] \in T /\ Built(base, ours, theirs, X, R, merge[k])
      BY <1>4, <1>9, <1>14, <1>15, <3>2
    <3> QED
      BY <3>1, <3>3
  <2> HIDE DEF U
  <2>3. \A k \in 0 .. N : merge[k] \in U[k]
    BY <1>1, <2>1, <2>2, EveryPass
  <2>4. N \in 0 .. N
    BY <1>1
  <2> QED
    BY <2>3, <2>4 DEF U
<1> DEFINE last == merge[N]
<1>11. CASE last.ok
  <2> DEFINE out == last.lines \o SubSeq(base, last.pos + 1, n)
  <2>1. /\ last.i \in 1 .. Len(ours) + 1 /\ last.j \in 1 .. Len(theirs) + 1
        /\ last.pos \in 0 .. n /\ last.lines \in Seq(L)
        /\ Taken(ours, last.i, last.lines) /\ Taken(theirs, last.j, last.lines)
    BY <1>5, <1>10
  <2>2. last.i - 1 = Len(ours) /\ last.j - 1 = Len(theirs)
    <3> DEFINE p == last.i
               q == last.j
               x == Len(ours)
               y == Len(theirs)
    <3>1. x \in Nat /\ y \in Nat /\ p \in 1 .. x + 1 /\ q \in 1 .. y + 1
      BY <1>1, <2>1
    <3>2. (p > x /\ q > y) \/ p + q >= x + y + 2
      BY <1>10, <1>11 DEF N
    <3> HIDE DEF p, q, x, y
    <3>3. p - 1 = x /\ q - 1 = y
      BY <3>1, <3>2
    <3> QED
      BY <3>3 DEF p, q, x, y
  <2>3. m.ok = TRUE /\ m.lines = out
    BY <1>2, <1>11
  <2> HIDE DEF last
  <2>4. SubSeq(base, last.pos + 1, n) \in Seq(L)
    <3>1. last.pos + 1 \in Nat \ {0} /\ n \in Int /\ n <= Len(base)
      BY <1>1, <2>1
    <3> QED
      BY <3>1, PartOf
  <2>8. ASSUME NEW X, NEW R, Allows(base, ours, theirs, X, R)
        PROVE  Covers(out, base, X, R, 0, Len(base))
    <3> DEFINE before == last.lines
               pos == last.pos
               rest == SubSeq(base, pos + 1, n)
    <3>1. before \in Seq(L) /\ pos \in 0 .. n /\ out = before \o rest
      BY <2>1
    <3>2. Placed(ours, last.i, pos) /\ Placed(theirs, last.j, pos) /\ Covers(before, base, X, R, 0, pos)
      BY <1>15, <2>8 DEF Built, last
    <3>3. last.i = Len(ours) + 1 /\ last.j = Len(theirs) + 1
      <4> DEFINE p == last.i
                 q == last.j
                 x == Len(ours)
                 y == Len(theirs)
      <4>1. x \in Nat /\ y \in Nat /\ p \in 1 .. x + 1 /\ q \in 1 .. y + 1 /\ p - 1 = x /\ q - 1 = y
        BY <1>1, <2>1, <2>2
      <4> HIDE DEF p, q, x, y
      <4>2. p = x + 1 /\ q = y + 1
        BY <4>1
      <4> QED
        BY <4>2 DEF p, q, x, y
    <3> HIDE DEF before, pos, rest, out
    <3>4. ASSUME NEW p \in pos + 1 .. n PROVE base[p] \in R
      <4>1. p \in 1 .. n /\ pos < p
        BY <1>1, <3>1, <3>4
      <4>2. Len(ours) + 1 \in 1 .. Len(ours) + 1 /\ Len(theirs) + 1 \in 1 .. Len(theirs) + 1
        BY <1>1
      <4>3. Inside(ours, 1, Len(ours) + 1, pos) /\ Inside(theirs, 1, Len(theirs) + 1, pos)
        BY <3>2, <3>3 DEF Placed
      <4>4. Outside(ours, p)
        BY <1>1, <3>1, <4>1, <4>2, <4>3, OutsidePlaced
      <4>5. Outside(theirs, p)
        BY <1>1, <3>1, <4>1, <4>2, <4>3, OutsidePlaced
      <4> QED
        BY <2>8, <4>1, <4>4, <4>5 DEF Allows
    <3>5. rest \in Seq(L) /\ Covers(rest, base, X, R, pos, n)
      <4>1. n \in 0 .. Len(base)
        BY <1>1
      <4> QED
        BY <3>1, <3>4, <4>1, CoversCopy DEF rest
    <3>6. pos \in Nat /\ 0 \in Nat
      BY <1>1, <3>1
    <3>7. Covers(before \o rest, base, X, R, 0, n)
      BY <1>1, <3>1, <3>2, <3>5, <3>6, CoversBoth
    <3> QED
      BY <3>1, <3>7
  <2>5. out \in Seq(L) /\ \A l : Has(last.lines, l) => Has(out, l)
    <3> DEFINE before == last.lines
               rest == SubSeq(base, last.pos + 1, n)
    <3>1. before \in Seq(L) /\ rest \in Seq(L) /\ out = before \o rest
      BY <2>1, <2>4
    <3> HIDE DEF before, rest, out
    <3>2. out \in Seq(L) /\ \A l : Has(before, l) => Has(out, l)
      BY <3>1, HasConcat
    <3> QED
      BY <3>2 DEF before
  <2> HIDE DEF out
  <2>6. /\ \A k \in 1 .. Len(ours) : \A l : Has(ours[k].lines, l) => Has(out, l)
        /\ \A k \in 1 .. Len(theirs) : \A l : Has(theirs[k].lines, l) => Has(out, l)
    BY <2>1, <2>2, <2>5 DEF Taken
  <2>7. m.ok \in BOOLEAN
    BY <2>3, Zenon
  <2>9. \A X, R : Allows(base, ours, theirs, X, R) => Covers(out, base, X, R, 0, Len(base))
    BY <2>8
  <2> QED
    BY <2>3, <2>5, <2>6, <2>7, <2>9 DEF m
<1>12. CASE ~last.ok
  <2>1. m = Conflict
    BY <1>2, <1>12
  <2>2. m.ok = FALSE /\ m.lines = << >>
    BY <2>1 DEF Conflict
  <2>3. m.ok \in BOOLEAN
    BY <2>2, Zenon
  <2> QED
    BY <2>2, <2>3, EmptySeq DEF m
<1> QED
  BY <1>11, <1>12

\* threeWayMerge of three texts that it can merge keeps what each side added.
LEMMA MergeKeepsBoth ==
  ASSUME NEW L, NEW b, NEW o, NEW t, b.lines \in Seq(L), o.lines \in Seq(L), t.lines \in Seq(L)
  PROVE  LET m == Merge(b, o, t)
         IN  /\ m.text.lines \in Seq(L)
             /\ m.ok => \A l : (Has(o.lines, l) \/ Has(t.lines, l)) /\ ~Has(b.lines, l) => Has(m.text.lines, l)
<1> DEFINE ours == HunksFrom(b.lines, o.lines)
           theirs == HunksFrom(b.lines, t.lines)
           h == MergeHunks(b.lines, ours, theirs)
           nl == h.ok /\ (b.nl \/ o.nl \/ t.nl)
           m == Merge(b, o, t)
           Goal(q) == /\ q.text.lines \in Seq(L)
                      /\ q.ok => \A l : (Has(o.lines, l) \/ Has(t.lines, l)) /\ ~Has(b.lines, l) => Has(q.text.lines, l)
<1> SUFFICES Goal(m)
  OBVIOUS
<1>1. CASE o = t \/ t = b
  <2>1. m = [ok |-> TRUE, text |-> o]
    BY <1>1 DEF Merge
  <2>2. m.text = o
    BY <2>1
  <2> HIDE DEF m
  <2> QED
    BY <1>1, <2>2
<1>2. CASE ~(o = t \/ t = b) /\ o = b
  <2>1. m = [ok |-> TRUE, text |-> t]
    BY <1>2 DEF Merge
  <2>2. m.text = t
    BY <2>1
  <2> HIDE DEF m
  <2> QED
    BY <1>2, <2>2
<1>3. CASE ~(o = t \/ t = b) /\ o # b
  <2>1. m = [ok |-> h.ok, text |-> Text(h.lines, nl)]
    BY <1>3 DEF Merge
  <2>2. /\ ours \in Seq(Hunks(L, Len(b.lines))) /\ Ordered(ours)
        /\ \A l : Has(o.lines, l) /\ ~Has(b.lines, l) => \E k \in 1 .. Len(ours) : Has(ours[k].lines, l)
    <3>1. HunksOf(L, b.lines, o.lines, ours)
      BY HunksFromOK
    <3> HIDE DEF ours
    <3> QED
      BY <3>1 DEF HunksOf
  <2>3. /\ theirs \in Seq(Hunks(L, Len(b.lines))) /\ Ordered(theirs)
        /\ \A l : Has(t.lines, l) /\ ~Has(b.lines, l) => \E k \in 1 .. Len(theirs) : Has(theirs[k].lines, l)
    <3>1. HunksOf(L, b.lines, t.lines, theirs)
      BY HunksFromOK
    <3> HIDE DEF theirs
    <3> QED
      BY <3>1 DEF HunksOf
  <2> HIDE DEF ours, theirs
  <2>4. /\ h.ok \in BOOLEAN /\ h.lines \in Seq(L)
        /\ h.ok => /\ \A k \in 1 .. Len(ours) : \A l : Has(ours[k].lines, l) => Has(h.lines, l)
                   /\ \A k \in 1 .. Len(theirs) : \A l : Has(theirs[k].lines, l) => Has(h.lines, l)
    BY <2>2, <2>3, MergedHunks
  <2> HIDE DEF h, nl
  <2>5. m.ok = h.ok /\ m.text.lines = h.lines
    BY <2>1 DEF Text
  <2> HIDE DEF m
  <2> QED
    BY <2>2, <2>3, <2>4, <2>5
<1> QED
  BY <1>1, <1>2, <1>3

\* threeWayMerge of three texts that it can merge makes nothing up and brings nothing back:
\* a line of the result is in a hunk of ours or of theirs, and so a line of that side, or it
\* is in the base and stayed on both sides. A line that one side dropped is in the result
\* only where the other side wrote it anew. Nor is a line of the base dropped that no hunk
\* of either side replaces.
LEMMA MergeReturnsNothing ==
  ASSUME NEW L, NEW b, NEW o, NEW t, b.lines \in Seq(L), o.lines \in Seq(L), t.lines \in Seq(L)
  PROVE  LET m == Merge(b, o, t)
             ours == HunksFrom(b.lines, o.lines)
             theirs == HunksFrom(b.lines, t.lines)
             InHunk(hunks, l) == \E k \in 1 .. Len(hunks) : Has(hunks[k].lines, l)
         IN  m.ok => /\ \A l : Has(m.text.lines, l) =>
                          \/ InHunk(ours, l) /\ Has(o.lines, l)
                          \/ InHunk(theirs, l) /\ Has(t.lines, l)
                          \/ Has(b.lines, l) /\ Has(o.lines, l) /\ Has(t.lines, l)
                     /\ \A p \in 1 .. Len(b.lines) :
                          Outside(ours, p) /\ Outside(theirs, p) => Has(m.text.lines, b.lines[p])
<1> DEFINE ours == HunksFrom(b.lines, o.lines)
           theirs == HunksFrom(b.lines, t.lines)
           h == MergeHunks(b.lines, ours, theirs)
           nl == h.ok /\ (b.nl \/ o.nl \/ t.nl)
           m == Merge(b, o, t)
           n == Len(b.lines)
           InHunk(hunks, l) == \E k \in 1 .. Len(hunks) : Has(hunks[k].lines, l)
           Right(l) == \/ InHunk(ours, l) /\ Has(o.lines, l)
                       \/ InHunk(theirs, l) /\ Has(t.lines, l)
                       \/ Has(b.lines, l) /\ Has(o.lines, l) /\ Has(t.lines, l)
           Untouched(p) == Outside(ours, p) /\ Outside(theirs, p)
           Goal(q) == q.ok => /\ \A l : Has(q.text.lines, l) => Right(l)
                              /\ \A p \in 1 .. n : Untouched(p) => Has(q.text.lines, b.lines[p])
<1>1. /\ ours \in Seq(Hunks(L, n)) /\ Ordered(ours)
      /\ \A p \in 1 .. n : Outside(ours, p) => Has(o.lines, b.lines[p])
      /\ \A k \in 1 .. Len(ours) : \A l : Has(ours[k].lines, l) => Has(o.lines, l)
      /\ \A l : Has(o.lines, l) /\ ~Has(b.lines, l) => InHunk(ours, l)
  <2>1. HunksOf(L, b.lines, o.lines, ours)
    BY HunksFromOK
  <2> HIDE DEF ours
  <2> QED
    BY <2>1 DEF HunksOf
<1>2. /\ theirs \in Seq(Hunks(L, n)) /\ Ordered(theirs)
      /\ \A p \in 1 .. n : Outside(theirs, p) => Has(t.lines, b.lines[p])
      /\ \A k \in 1 .. Len(theirs) : \A l : Has(theirs[k].lines, l) => Has(t.lines, l)
      /\ \A l : Has(t.lines, l) /\ ~Has(b.lines, l) => InHunk(theirs, l)
  <2>1. HunksOf(L, b.lines, t.lines, theirs)
    BY HunksFromOK
  <2> HIDE DEF theirs
  <2> QED
    BY <2>1 DEF HunksOf
<1> SUFFICES Goal(m)
  OBVIOUS
<1>3. CASE o = t \/ t = b
  <2>1. m = [ok |-> TRUE, text |-> o]
    BY <1>3 DEF Merge
  <2>2. m.text = o
    BY <2>1
  <2>3. ASSUME NEW l, Has(o.lines, l) PROVE Right(l)
    <3> HIDE DEF ours, theirs
    <3> QED
      BY <1>1, <1>3, <2>3
  <2> HIDE DEF m, ours, theirs, Right, n
  <2> QED
    BY <1>1, <2>2, <2>3
<1>4. CASE ~(o = t \/ t = b) /\ o = b
  <2>1. m = [ok |-> TRUE, text |-> t]
    BY <1>4 DEF Merge
  <2>2. m.text = t
    BY <2>1
  <2>3. ASSUME NEW l, Has(t.lines, l) PROVE Right(l)
    <3> HIDE DEF ours, theirs
    <3> QED
      BY <1>2, <1>4, <2>3
  <2> HIDE DEF m, ours, theirs, Right, n
  <2> QED
    BY <1>2, <2>2, <2>3
<1>5. CASE ~(o = t \/ t = b) /\ o # b
  <2>1. m = [ok |-> h.ok, text |-> Text(h.lines, nl)]
    BY <1>5 DEF Merge
  <2> HIDE DEF ours, theirs
  <2> DEFINE X == {p \in 1 .. n : Untouched(p)}
             R == {l \in L : Right(l)}
  <2>2. Allows(b.lines, ours, theirs, X, R)
    <3>1. /\ \A k \in 1 .. Len(ours) : \A l : Has(ours[k].lines, l) => l \in L
          /\ \A k \in 1 .. Len(theirs) : \A l : Has(theirs[k].lines, l) => l \in L
      <4>1. /\ \A k \in 1 .. Len(ours) : ours[k] \in Hunks(L, n)
            /\ \A k \in 1 .. Len(theirs) : theirs[k] \in Hunks(L, n)
        BY <1>1, <1>2, ElementOfSeq
      <4>2. /\ \A k \in 1 .. Len(ours) : ours[k].lines \in Seq(L)
            /\ \A k \in 1 .. Len(theirs) : theirs[k].lines \in Seq(L)
        BY <4>1 DEF Hunks
      <4>3. \A text \in Seq(L) : \A l : Has(text, l) => l \in L
        BY ElementOfSeq DEF Has
      <4> QED
        BY <4>2, <4>3
    <3>2. /\ \A k \in 1 .. Len(ours) : \A l : Has(ours[k].lines, l) => l \in R
          /\ \A k \in 1 .. Len(theirs) : \A l : Has(theirs[k].lines, l) => l \in R
      BY <1>1, <1>2, <3>1
    <3>3. ASSUME NEW p \in 1 .. n, NEW q \in 1 .. n,
                 Outside(ours, p), Outside(theirs, q), b.lines[p] = b.lines[q]
          PROVE  b.lines[p] \in R
      <4>1. Has(o.lines, b.lines[p]) /\ Has(t.lines, b.lines[p])
        BY <1>1, <1>2, <3>3
      <4>2. Has(b.lines, b.lines[p]) /\ b.lines[p] \in L
        BY ElementOfSeq DEF Has
      <4> QED
        BY <4>1, <4>2
    <3>4. \A p \in X : Outside(ours, p) /\ Outside(theirs, p)
      OBVIOUS
    <3> HIDE DEF X, R
    <3> QED
      BY <3>2, <3>3, <3>4 DEF Allows
  <2>3. h.ok => Covers(h.lines, b.lines, X, R, 0, n)
    <3> HIDE DEF X, R
    <3> QED
      BY <1>1, <1>2, <2>2, MergedHunks
  <2>4. \A p \in 1 .. n : p \in 0 + 1 .. n
    OBVIOUS
  <2> HIDE DEF h, nl
  <2>5. m.ok = h.ok /\ m.text.lines = h.lines
    BY <2>1 DEF Text
  <2> HIDE DEF m, Right, n
  <2> QED
    BY <2>3, <2>4, <2>5 DEF Covers
<1> QED
  BY <1>3, <1>4, <1>5

-----------------------------------------------------------------------------
(* The host file.                                                           *)

IsText(t) == t = Text(t.lines, t.nl) /\ t.lines \in Seq(Lines) /\ t.nl \in BOOLEAN

Rules == [strategy : {"emit", "skip"}, applied : Templates \cup {Absent},
          contents : {Override, Absent}]

\* What a refresh that read the file d would write.
Writes(r, d) == RefreshOutcome(r, TRUE, d, catalog).write

\* Another refresh leaves the file d as it is.
Fixed(r, d) == Writes(r, d) = Absent \/ WithNewline(Writes(r, d)) = d

\* The text has every line of the file d that the baseline does not have.
KeepsLines(d, base, text) ==
  \A l \in LinesOf(d) : l \notin LinesOf(base) => l \in LinesOf(text)

\* The Refresh in flight.
RefreshOK ==
  \/ refresh = Idle
  \/ refresh.at = "reading" /\ refresh.prior \in Rules
  \/ /\ refresh.at = "writing" /\ folder
     /\ IsText(refresh.text) /\ refresh.text.nl
     /\ rule.applied = catalog
     /\ KeepsLines(refresh.seen, refresh.base, refresh.text)

\* The Generate in flight; one that began while the file was kept writes nothing.
GenerateOK ==
  \/ generate = Idle
  \/ /\ generate.at = "emitting"
     /\ generate.output = Absent \/ IsText(generate.output)
     /\ generate.kept \in BOOLEAN
     /\ generate.kept => generate.output = Absent

\* Nothing changed since the last refresh: the next one finds nothing to do, and
\* one that is under way writes what is there.
Settles ==
  settled =>
    /\ folder /\ Fixed(rule, disk)
    /\ refresh.at = "reading" =>
         refresh.prior.strategy = rule.strategy /\ refresh.prior.applied = rule.applied
    /\ refresh.at = "writing" => refresh.text = disk

IInv ==
  /\ folder \in BOOLEAN /\ kept \in BOOLEAN /\ settled \in BOOLEAN
  /\ disk = Absent \/ IsText(disk)
  /\ catalog \in Templates /\ rule \in Rules
  /\ kept => rule.strategy = "skip"
  /\ RefreshOK /\ GenerateOK /\ Settles

\* Templates and the Contents box are texts, no text is the absent file.
LEMMA Texts ==
  /\ \A t \in Templates : IsText(t) /\ t.nl
  /\ IsText(Override)
  /\ \A t : IsText(t) => t # Absent /\ WithNewline(t) = Text(t.lines, TRUE)
  /\ \A t : IsText(t) => IsText(WithNewline(t)) /\ WithNewline(t).nl /\ WithNewline(t).lines = t.lines
  /\ \A t : IsText(t) /\ t.nl => WithNewline(t) = t
<1>1. ASSUME NEW t \in Templates PROVE IsText(t) /\ t.nl
  <2>1. t = Text(t.lines, TRUE) /\ t.lines \in Seq(Lines)
    BY HostAssumption
  <2>2. t.nl = TRUE
    BY <2>1 DEF Text
  <2> QED
    BY <2>1, <2>2 DEF IsText
<1>2. IsText(Override)
  BY HostAssumption DEF IsText
<1>3. ASSUME NEW t, IsText(t) PROVE t # Absent
  <2>1. DOMAIN t = {"lines", "nl"}
    BY <1>3 DEF IsText, Text
  <2>2. DOMAIN Absent = {"none"}
    BY DEF Absent
  <2> QED
    BY <2>1, <2>2
<1>4. ASSUME NEW t, IsText(t) PROVE WithNewline(t) = Text(t.lines, TRUE)
  BY DEF WithNewline
<1>5. ASSUME NEW t, IsText(t)
      PROVE  IsText(WithNewline(t)) /\ WithNewline(t).nl /\ WithNewline(t).lines = t.lines
  <2> DEFINE w == Text(t.lines, TRUE)
  <2>1. w.nl = TRUE /\ w.lines = t.lines
    BY DEF Text
  <2>2. WithNewline(t) = w
    BY <1>4, <1>5
  <2> HIDE DEF w
  <2>3. IsText(WithNewline(t))
    BY <1>5, <2>1, <2>2 DEF IsText, w
  <2> QED
    BY <2>1, <2>2, <2>3
<1>6. ASSUME NEW t, IsText(t), t.nl PROVE WithNewline(t) = t
  <2>1. t.nl = TRUE
    BY <1>6 DEF IsText
  <2> QED
    BY <1>4, <1>6, <2>1 DEF IsText
<1> QED
  BY <1>1, <1>2, <1>3, <1>4, <1>5, <1>6

\* threeWayMerge makes a text of three texts, and gives the user's text back when
\* the template did not change.
LEMMA MergeOK ==
  ASSUME NEW b, NEW o, NEW t, IsText(b), IsText(o), IsText(t)
  PROVE  IsText(Merge(b, o, t).text) /\ (t = b => Merge(b, o, t) = [ok |-> TRUE, text |-> o])
<1> DEFINE m == MergeHunks(b.lines, HunksFrom(b.lines, o.lines), HunksFrom(b.lines, t.lines))
           nl == m.ok /\ (b.nl \/ o.nl \/ t.nl)
<1>1. CASE o = t \/ t = b
  <2>1. Merge(b, o, t) = [ok |-> TRUE, text |-> o]
    BY <1>1 DEF Merge
  <2> QED
    BY <2>1
<1>2. CASE ~(o = t \/ t = b) /\ o = b
  <2>1. Merge(b, o, t) = [ok |-> TRUE, text |-> t]
    BY <1>2 DEF Merge
  <2> QED
    BY <1>2, <2>1
<1>3. CASE ~(o = t \/ t = b) /\ o # b
  <2>1. Merge(b, o, t) = [ok |-> m.ok, text |-> Text(m.lines, nl)]
    BY <1>3 DEF Merge
  <2>2. nl \in BOOLEAN
    BY Zenon
  <2>4. m.lines \in Seq(Lines)
    <3>1. Merge(b, o, t).text.lines \in Seq(Lines)
      BY MergeKeepsBoth DEF IsText
    <3>2. Merge(b, o, t).text.lines = m.lines
      BY <2>1 DEF Text
    <3> QED
      BY <3>1, <3>2
  <2> HIDE DEF m, nl
  <2>3. IsText(Text(m.lines, nl))
    BY <2>2, <2>4 DEF IsText, Text
  <2> QED
    BY <1>3, <2>1, <2>3
<1> QED
  BY <1>1, <1>2, <1>3

\* What Refresh decides: a rule again, and a text or nothing; what it kept or merged is
\* skipped by Generate, and what it writes has the catalog's version as its baseline.
LEMMA OutcomeOK ==
  ASSUME NEW r \in Rules, NEW onDisk \in BOOLEAN, NEW d, d = Absent \/ IsText(d), NEW next \in Templates
  PROVE  LET o == RefreshOutcome(r, onDisk, d, next)
         IN /\ o.rule \in Rules
            /\ o.write = Absent \/ IsText(o.write)
            /\ o.action \in {"kept-yours", "merged"} => o.rule.strategy = "skip"
            /\ o.write # Absent => onDisk /\ o.rule.applied = next
<1> DEFINE m == Merge(r.applied, d, next)
<1>1. IsText(next)
  BY Texts
<1>2. r.applied # Absent /\ d # Absent => IsText(m.text)
  BY <1>1, MergeOK, Texts DEF Rules
<1> HIDE DEF m
<1>3. /\ r.strategy \in {"emit", "skip"}
      /\ KeptYours(r).rule \in Rules /\ KeptYours(r).write = Absent /\ KeptYours(r).rule.strategy = "skip"
      /\ KeptYours(r).action = "kept-yours"
  BY DEF KeptYours, Outcome, Rules
<1>4. \A w : Applied(r, next, w).rule \in Rules /\ Applied(r, next, w).write = w
             /\ Applied(r, next, w).rule.applied = next /\ Applied(r, next, w).action = "applied"
  BY DEF Applied, Outcome, Rules
<1>5. ASSUME IsText(m.text)
      PROVE  LET o == TakeMerge(r, next, m)
             IN /\ o.rule \in Rules
                /\ o.write = Absent \/ IsText(o.write)
                /\ o.action \in {"kept-yours", "merged"} => o.rule.strategy = "skip"
                /\ o.write # Absent => o.rule.applied = next
  <2>1. CASE ~m.ok
    BY <1>3, <2>1 DEF TakeMerge
  <2>2. CASE m.ok /\ Norm(m.text) = Norm(next)
    BY <1>1, <2>2 DEF TakeMerge, Outcome, Rules
  <2>3. CASE m.ok /\ Norm(m.text) # Norm(next)
    BY <1>5, <2>3 DEF TakeMerge, Outcome, Rules
  <2> QED
    BY <2>1, <2>2, <2>3
<1>6. CASE r.strategy = "skip" /\ (~onDisk \/ r.applied = Absent)
  BY <1>6 DEF RefreshOutcome, Outcome
<1>7. CASE ~(r.strategy = "skip" /\ (~onDisk \/ r.applied = Absent)) /\ (~onDisk \/ d = Absent)
  BY <1>1, <1>4, <1>7 DEF RefreshOutcome
<1>8. CASE /\ ~(r.strategy = "skip" /\ (~onDisk \/ r.applied = Absent)) /\ onDisk /\ d # Absent
           /\ Norm(d) = Norm(next)
  BY <1>8 DEF RefreshOutcome, Outcome, Rules
<1>9. CASE /\ ~(r.strategy = "skip" /\ (~onDisk \/ r.applied = Absent)) /\ onDisk /\ d # Absent
           /\ Norm(d) # Norm(next) /\ r.applied # Absent /\ Norm(d) = Norm(r.applied)
  BY <1>1, <1>4, <1>9 DEF RefreshOutcome
<1>10. CASE /\ ~(r.strategy = "skip" /\ (~onDisk \/ r.applied = Absent)) /\ onDisk /\ d # Absent
            /\ Norm(d) # Norm(next) /\ ~(r.applied # Absent /\ Norm(d) = Norm(r.applied))
  <2>1. RefreshOutcome(r, onDisk, d, next) = IF r.applied = Absent THEN KeptYours(r) ELSE TakeMerge(r, next, m)
    BY <1>10 DEF RefreshOutcome, MergeOrKeep, m
  <2> QED
    BY <1>2, <1>3, <1>5, <1>10, <2>1
<1> QED
  BY <1>6, <1>7, <1>8, <1>9, <1>10

\* The lines of a text are what it has.
LEMMA LinesOfText ==
  ASSUME NEW t, IsText(t)
  PROVE  \A l : l \in LinesOf(t) <=> Has(t.lines, l)
<1>1. t # Absent
  BY Texts
<1> QED
  BY <1>1 DEF LinesOf, Has

\* What a refresh writes has every line of the file the applied template does not have.
LEMMA OutcomeKeeps ==
  ASSUME NEW r \in Rules, NEW onDisk \in BOOLEAN, NEW d, d = Absent \/ IsText(d), NEW next \in Templates
  PROVE  LET w == RefreshOutcome(r, onDisk, d, next).write
         IN  w # Absent => KeepsLines(d, r.applied, WithNewline(w))
<1> DEFINE o == RefreshOutcome(r, onDisk, d, next)
           w == o.write
           m == Merge(r.applied, d, next)
<1> SUFFICES ASSUME w # Absent PROVE KeepsLines(d, r.applied, WithNewline(w))
  OBVIOUS
<1>1. CASE d = Absent
  <2>1. LinesOf(d) = {}
    BY <1>1 DEF LinesOf
  <2> QED
    BY <2>1 DEF KeepsLines
<1>2. CASE d # Absent /\ r.applied # Absent /\ Norm(d) = Norm(r.applied)
  <2>1. IsText(d) /\ IsText(r.applied) /\ d.lines = r.applied.lines
    BY <1>2, Texts DEF Rules, Norm
  <2>2. \A l \in LinesOf(d) : l \in LinesOf(r.applied)
    BY <2>1, LinesOfText
  <2> QED
    BY <2>2 DEF KeepsLines
<1>3. CASE d # Absent /\ ~(r.applied # Absent /\ Norm(d) = Norm(r.applied))
  <2>1. /\ KeptYours(r).write = Absent
        /\ Outcome("kept-yours", r, Absent).write = Absent
        /\ Outcome("already-current", [r EXCEPT !.applied = next], Absent).write = Absent
        /\ Applied(r, next, Absent).write = Absent
    BY DEF KeptYours, Outcome, Applied
  <2>2. onDisk /\ Norm(d) # Norm(next) /\ o = MergeOrKeep(r, d, next)
    BY <1>3, <2>1 DEF RefreshOutcome
  <2>3. r.applied # Absent /\ o = TakeMerge(r, next, m)
    BY <2>1, <2>2 DEF MergeOrKeep
  <2>4. IsText(d) /\ IsText(r.applied) /\ IsText(next)
    BY <1>3, <2>3, Texts DEF Rules
  <2>5. /\ m.ok => \A l : (Has(d.lines, l) \/ Has(next.lines, l)) /\ ~Has(r.applied.lines, l) => Has(m.text.lines, l)
        /\ IsText(m.text)
    <3>1. d.lines \in Seq(Lines) /\ r.applied.lines \in Seq(Lines) /\ next.lines \in Seq(Lines)
      BY <2>4 DEF IsText
    <3>2. IsText(m.text)
      BY <2>4, MergeOK
    <3> QED
      BY <3>1, <3>2, MergeKeepsBoth, Zenon
  <2> HIDE DEF m, o
  <2>6. m.ok /\ w.lines = m.text.lines /\ IsText(w)
    <3>1. CASE ~m.ok
      BY <2>1, <2>3, <3>1 DEF TakeMerge
    <3>2. CASE m.ok /\ Norm(m.text) = Norm(next)
      <4>1. w = next
        BY <2>3, <3>2 DEF TakeMerge, Outcome
      <4> QED
        BY <2>4, <3>2, <4>1 DEF Norm
    <3>3. CASE m.ok /\ Norm(m.text) # Norm(next)
      <4>1. w = m.text
        BY <2>3, <3>3 DEF TakeMerge, Outcome
      <4> QED
        BY <2>5, <3>3, <4>1
    <3> QED
      BY <3>1, <3>2, <3>3
  <2> HIDE DEF w
  <2>7. IsText(WithNewline(w)) /\ WithNewline(w).lines = m.text.lines
    BY <2>6, Texts
  <2> QED
    BY <2>4, <2>5, <2>6, <2>7, LinesOfText DEF KeepsLines
<1> QED
  BY <1>1, <1>2, <1>3

\* What a refresh writes does not depend on the Contents box.
LEMMA SameWrite ==
  ASSUME NEW r \in Rules, NEW q \in Rules, r.strategy = q.strategy, r.applied = q.applied, NEW d
  PROVE  Writes(r, d) = Writes(q, d)
<1>1. \A m : TakeMerge(r, catalog, m).write = TakeMerge(q, catalog, m).write
  BY DEF TakeMerge, KeptYours, Outcome
<1>2. MergeOrKeep(r, d, catalog).write = MergeOrKeep(q, d, catalog).write
  BY <1>1 DEF MergeOrKeep, KeptYours, Outcome
<1>3. \A w : Applied(r, catalog, w).write = w /\ Applied(q, catalog, w).write = w
  BY DEF Applied, Outcome
<1> QED
  BY <1>2, <1>3 DEF Writes, RefreshOutcome, Outcome

\* A file that was written with the catalog's version as its baseline is written as it
\* is, or not at all.
LEMMA FixedWhenWritten ==
  ASSUME NEW r \in Rules, r.applied = catalog, catalog \in Templates, NEW d, IsText(d), d.nl
  PROVE  Fixed(r, d)
<1>1. r.applied # Absent /\ d # Absent /\ IsText(catalog)
  BY Texts
<1>2. CASE Norm(d) = Norm(catalog)
  <2>1. Writes(r, d) = Absent
    BY <1>1, <1>2 DEF Writes, RefreshOutcome, Outcome
  <2> QED
    BY <2>1 DEF Fixed
<1>3. CASE Norm(d) # Norm(catalog)
  <2>1. Merge(r.applied, d, catalog) = [ok |-> TRUE, text |-> d]
    BY <1>1, MergeOK
  <2> DEFINE m == Merge(r.applied, d, catalog)
  <2>2. RefreshOutcome(r, TRUE, d, catalog) = TakeMerge(r, catalog, m)
    BY <1>1, <1>3 DEF RefreshOutcome, MergeOrKeep
  <2>3. m.ok /\ m.text = d
    BY <2>1
  <2> HIDE DEF m
  <2>5. TakeMerge(r, catalog, m).write = d
    BY <1>3, <2>3 DEF TakeMerge, Outcome
  <2>4. Writes(r, d) = d
    BY <2>2, <2>5 DEF Writes
  <2> QED
    BY <2>4, Texts DEF Fixed
<1> QED
  BY <1>2, <1>3

\* A refresh that writes nothing leaves nothing for the next one to write.
LEMMA FixedWhenNothingWritten ==
  ASSUME NEW r \in Rules, NEW d, d = Absent \/ IsText(d), catalog \in Templates,
         Writes(r, d) = Absent
  PROVE  Fixed(RefreshOutcome(r, TRUE, d, catalog).rule, d)
<1> DEFINE o == RefreshOutcome(r, TRUE, d, catalog)
           applied == [r EXCEPT !.applied = catalog]
           skipped == [r EXCEPT !.strategy = "skip"]
<1>1. IsText(catalog) /\ catalog # Absent
  BY Texts
<1>2. \A w : Applied(r, catalog, w).write = w
  BY DEF Applied, Outcome
<1>3. CASE r.strategy = "skip" /\ r.applied = Absent
  <2>1. o.rule = r
    BY <1>3 DEF RefreshOutcome, Outcome
  <2> QED
    BY <2>1 DEF Fixed
<1>4. CASE ~(r.strategy = "skip" /\ r.applied = Absent) /\ d # Absent /\ Norm(d) = Norm(catalog)
  <2>1. o = Outcome("already-current", applied, Absent)
    BY <1>4, Zenon DEF RefreshOutcome
  <2>2. applied.applied = catalog
    BY DEF Rules
  <2> HIDE DEF applied, o
  <2>3. Writes(applied, d) = Absent
    BY <1>1, <1>4, <2>2 DEF Writes, RefreshOutcome, Outcome
  <2>4. o.rule = applied
    BY <2>1 DEF Outcome
  <2> QED
    BY <2>3, <2>4 DEF Fixed, o
<1>5. CASE ~(r.strategy = "skip" /\ r.applied = Absent) /\ ~(d # Absent /\ Norm(d) = Norm(catalog))
  <2> DEFINE m == Merge(r.applied, d, catalog)
  <2>1. d # Absent
    BY <1>1, <1>2, <1>5 DEF Writes, RefreshOutcome
  <2>2. ~(r.applied # Absent /\ Norm(d) = Norm(r.applied))
    BY <1>1, <1>2, <1>5, <2>1 DEF Writes, RefreshOutcome
  <2>3. o = IF r.applied = Absent THEN KeptYours(r) ELSE TakeMerge(r, catalog, m)
    BY <1>5, <2>1, <2>2 DEF RefreshOutcome, MergeOrKeep
  <2>4. r.applied # Absent => IsText(m.text)
    BY <1>1, <2>1, MergeOK, Texts DEF Rules
  <2> HIDE DEF m
  <2>5. r.applied # Absent => ~m.ok
    <3> SUFFICES ASSUME r.applied # Absent, m.ok PROVE FALSE
      OBVIOUS
    <3>1. o = TakeMerge(r, catalog, m)
      BY <2>3
    <3>2. TakeMerge(r, catalog, m).write \in {catalog, m.text}
      BY DEF TakeMerge, Outcome
    <3>3. o.write \in {catalog, m.text}
      BY <3>1, <3>2, Zenon
    <3> QED
      BY <1>1, <2>4, <3>3, Texts DEF Writes
  <2>6. o = KeptYours(r)
    BY <2>3, <2>5 DEF TakeMerge
  <2>7. o = Outcome("kept-yours", skipped, Absent)
    BY <2>6, Zenon DEF KeptYours
  <2>8. skipped \in Rules /\ skipped.strategy = "skip" /\ skipped.applied = r.applied
    BY DEF Rules
  <2> HIDE DEF skipped, o
  <2>11. o.rule = skipped
    BY <2>7 DEF Outcome
  <2>9. CASE r.applied = Absent
    <3>1. Writes(skipped, d) = Absent
      BY <2>8, <2>9 DEF Writes, RefreshOutcome, Outcome
    <3> QED
      BY <2>11, <3>1 DEF Fixed, o
  <2>10. CASE r.applied # Absent
    <3>1. RefreshOutcome(skipped, TRUE, d, catalog) = TakeMerge(skipped, catalog, m)
      BY <1>5, <2>1, <2>2, <2>8, <2>10 DEF RefreshOutcome, MergeOrKeep, m
    <3>2. TakeMerge(skipped, catalog, m) = KeptYours(skipped)
      BY <2>5, <2>10 DEF TakeMerge
    <3>3. KeptYours(skipped).write = Absent
      BY DEF KeptYours, Outcome
    <3>4. Writes(skipped, d) = Absent
      BY <3>1, <3>2, <3>3, Zenon DEF Writes
    <3> QED
      BY <2>11, <3>4 DEF Fixed, o
  <2> QED
    BY <2>9, <2>10
<1> QED
  BY <1>3, <1>4, <1>5

-----------------------------------------------------------------------------
(* The inductive invariant.                                                 *)

\* The file, the settings and the merge begin as the invariant says.
THEOREM InitOK == Init => IInv
<1> SUFFICES ASSUME Init PROVE IInv
  OBVIOUS
<1>1. \A l : Text(<<l>>, TRUE) = Text(Text(<<l>>, TRUE).lines, Text(<<l>>, TRUE).nl)
            /\ Text(<<l>>, TRUE).nl = TRUE
  BY DEF Text
<1>2. disk = Absent \/ IsText(disk)
  <2>1. \A l \in UserLines : Text(<<l>>, TRUE).lines \in Seq(Lines)
    BY HostAssumption DEF Text
  <2> QED
    BY <1>1, <2>1 DEF Init, IsText
<1>3. \A a \in Templates \cup {Absent} : Rule("emit", a) \in Rules /\ Rule("skip", a) \in Rules
  BY DEF Rule, Rules
<1>4. catalog \in Templates /\ rule \in Rules
  BY <1>3 DEF Init
<1>5. kept \in BOOLEAN /\ settled \in BOOLEAN
  BY Zenon DEF Init
<1> QED
  BY <1>2, <1>4, <1>5 DEF Init, IInv, RefreshOK, GenerateOK, Settles

\* Refresh is idle, reading or writing, and so is Generate idle or emitting.
LEMMA Phases ==
  ASSUME IInv
  PROVE  /\ refresh.at = "reading" => refresh.prior \in Rules
         /\ refresh.at = "writing" =>
              /\ folder /\ IsText(refresh.text) /\ refresh.text.nl /\ rule.applied = catalog
              /\ KeepsLines(refresh.seen, refresh.base, refresh.text)
         /\ generate.at = "emitting" =>
              /\ generate.output = Absent \/ IsText(generate.output)
              /\ generate.kept \in BOOLEAN
              /\ generate.kept => generate.output = Absent
<1>1. Idle.at = "idle"
  BY DEF Idle
<1> QED
  BY <1>1 DEF IInv, RefreshOK, GenerateOK

\* The file has been read: the result is stored.
LEMMA StoreStep ==
  ASSUME IInv, StoreRefresh
  PROVE  IInv'
<1> DEFINE prior == refresh.prior
           o == RefreshOutcome(prior, folder, disk, catalog)
           writing == [at |-> "writing", text |-> WithNewline(o.write), seen |-> disk,
                       base |-> refresh.prior.applied]
<1>1. /\ refresh.at = "reading" /\ rule' = o.rule
      /\ refresh' = IF o.write = Absent THEN Idle ELSE writing
      /\ kept' = (o.action \in {"kept-yours", "merged"})
      /\ settled' = IF o.write = Absent THEN folder ELSE settled
      /\ UNCHANGED <<folder, disk, catalog, generate>>
  BY DEF StoreRefresh
<1>2. prior \in Rules /\ folder \in BOOLEAN /\ (disk = Absent \/ IsText(disk)) /\ catalog \in Templates
      /\ settled \in BOOLEAN
  BY <1>1, Phases DEF IInv
<1> HIDE DEF prior
<1>3. /\ o.rule \in Rules
      /\ o.write = Absent \/ IsText(o.write)
      /\ o.action \in {"kept-yours", "merged"} => o.rule.strategy = "skip"
      /\ o.write # Absent => folder /\ o.rule.applied = catalog
  BY <1>2, OutcomeOK
<1>4. folder => o.write = Writes(prior, disk) /\ o.rule = RefreshOutcome(prior, TRUE, disk, catalog).rule
  <2> SUFFICES ASSUME folder PROVE o.write = Writes(prior, disk) /\ o = RefreshOutcome(prior, TRUE, disk, catalog)
    BY Zenon
  <2>1. folder = TRUE
    BY <1>2
  <2> QED
    BY <2>1, Zenon DEF Writes
<1>5. o.write = Absent /\ folder => Fixed(o.rule, disk)
  BY <1>2, <1>4, FixedWhenNothingWritten
<1>6. settled => folder /\ Fixed(rule, disk) /\ prior.strategy = rule.strategy /\ prior.applied = rule.applied
  BY <1>1 DEF IInv, Settles, prior
<1>7. o.write # Absent /\ settled => WithNewline(o.write) = disk
  <2> SUFFICES ASSUME o.write # Absent, settled PROVE WithNewline(o.write) = disk
    OBVIOUS
  <2>1. Writes(prior, disk) = Writes(rule, disk)
    BY <1>2, <1>6, SameWrite DEF IInv
  <2> QED
    BY <1>4, <1>6, <2>1 DEF Fixed
<1> HIDE DEF o
<1>8. o.write # Absent => IsText(WithNewline(o.write)) /\ WithNewline(o.write).nl
  BY <1>3, Texts
<1>16. o.write # Absent => KeepsLines(disk, prior.applied, WithNewline(o.write))
  BY <1>2, OutcomeKeeps DEF o
<1>9. o.write # Absent /\ settled => Fixed(o.rule, disk)
  BY <1>2, <1>3, <1>7, <1>8, FixedWhenWritten
<1>10. /\ writing.at = "writing" /\ writing.text = WithNewline(o.write) /\ Idle.at = "idle"
       /\ writing.seen = disk /\ writing.base = prior.applied
  BY DEF Idle, prior
<1> HIDE DEF writing
<1>11. RefreshOK'
  <2>1. CASE o.write = Absent
    BY <1>1, <2>1 DEF RefreshOK
  <2>2. CASE o.write # Absent
    <3>1. /\ refresh'.at = "writing" /\ refresh'.text = WithNewline(o.write)
          /\ refresh'.seen = disk /\ refresh'.base = prior.applied
      BY <1>1, <1>10, <2>2
    <3>2. KeepsLines(refresh.seen, refresh.base, refresh.text)'
      <4>1. KeepsLines(refresh'.seen, refresh'.base, refresh'.text)
        BY <1>16, <2>2, <3>1
      <4> QED
        BY <4>1 DEF KeepsLines, LinesOf
    <3>3. IsText(refresh.text)' /\ refresh'.text.nl
      BY <1>8, <2>2, <3>1 DEF IsText
    <3>4. folder' /\ rule'.applied = catalog'
      BY <1>1, <1>3, <2>2
    <3> QED
      BY <3>1, <3>2, <3>3, <3>4 DEF RefreshOK
  <2> QED
    BY <2>1, <2>2
<1>12. Fixed(rule, disk)' <=> Fixed(o.rule, disk)
  BY <1>1 DEF Fixed, Writes
<1>13. Settles'
  BY <1>1, <1>5, <1>6, <1>7, <1>9, <1>10, <1>12 DEF Settles
<1>14. kept' \in BOOLEAN /\ settled' \in BOOLEAN
  <2>1. kept' \in BOOLEAN
    BY <1>1
  <2>2. settled' \in BOOLEAN
    BY <1>1, <1>2
  <2> QED
    BY <2>1, <2>2
<1>15. GenerateOK'
  BY <1>1 DEF IInv, GenerateOK, IsText
<1> QED
  BY <1>1, <1>2, <1>3, <1>11, <1>13, <1>14, <1>15 DEF IInv, IsText

\* Writing the result of a refresh.
LEMMA WriteStep ==
  ASSUME IInv, WriteRefresh \/ FailRefresh
  PROVE  IInv'
<1>1. /\ refresh.at = "writing" /\ refresh' = Idle
      /\ UNCHANGED <<folder, catalog, rule, generate, kept>>
      /\ \/ disk' = refresh.text /\ settled' = TRUE
         \/ disk' = disk /\ settled' = FALSE
  BY DEF WriteRefresh, FailRefresh
<1>2. folder /\ IsText(refresh.text) /\ refresh.text.nl /\ rule.applied = catalog
  BY <1>1, Phases
<1>3. disk' = Absent \/ IsText(disk')
  BY <1>1, <1>2 DEF IInv
<1>4. settled' \in BOOLEAN
  BY <1>1, Zenon
<1>5. Settles'
  <2>1. CASE disk' = refresh.text /\ settled' = TRUE
    <3>1. Fixed(rule, refresh.text)
      BY <1>2, FixedWhenWritten DEF IInv
    <3>2. Fixed(rule, disk)'
      BY <1>1, <2>1, <3>1 DEF Fixed, Writes
    <3> QED
      BY <1>1, <1>2, <3>2 DEF Settles, Idle
  <2>2. CASE settled' = FALSE
    BY <2>2 DEF Settles
  <2> QED
    BY <1>1, <2>1, <2>2
<1>6. RefreshOK' /\ GenerateOK'
  BY <1>1 DEF IInv, RefreshOK, GenerateOK, KeepsLines, LinesOf, IsText
<1> QED
  BY <1>1, <1>3, <1>4, <1>5, <1>6 DEF IInv, IsText

\* The user edits the file, a version is released, a folder is picked.
LEMMA OutsideStep ==
  ASSUME IInv, EditDisk \/ Release \/ PromoteToFolder
  PROVE  IInv'
<1>1. /\ UNCHANGED <<refresh, generate>>
      /\ UNCHANGED <<rule, kept>> \/ (generate = Idle /\ kept' = FALSE)
      /\ settled' = FALSE
      /\ refresh # Idle => UNCHANGED <<folder, catalog, rule>>
      /\ catalog' \in Templates /\ folder' \in BOOLEAN /\ rule' \in Rules
  <2>1. CASE EditDisk
    BY <2>1 DEF EditDisk, IInv
  <2>2. CASE Release
    BY <2>2 DEF Release, IInv
  <2>3. CASE PromoteToFolder
    <3>1. \A s \in {"emit", "skip"} : Rule(s, Absent) \in Rules
      BY DEF Rule, Rules
    <3>2. folder' \in BOOLEAN
      BY <2>3, Zenon DEF PromoteToFolder
    <3>3. rule' \in Rules
      BY <2>3, <3>1 DEF PromoteToFolder
    <3> QED
      BY <2>3, <3>2, <3>3 DEF PromoteToFolder, IInv
  <2> QED
    BY <2>1, <2>2, <2>3
<1>2. \A lines \in Seq(Lines) : \A nl \in BOOLEAN : IsText(Text(lines, nl))
  BY DEF IsText, Text
<1>6. UserLines \subseteq Lines /\ \A l \in UserLines : <<l>> \in Seq(Lines)
  BY HostAssumption
<1>3. disk' = Absent \/ IsText(disk')
  <2>1. CASE EditDisk
    <3>1. disk = Absent \/ disk.nl \in BOOLEAN
      BY DEF IInv, IsText
    <3>2. CASE disk = Absent
      <4>1. \E l \in UserLines : disk' = Text(<<l>>, TRUE)
        BY <2>1, <3>2 DEF EditDisk
      <4>2. TRUE \in BOOLEAN
        BY Zenon
      <4> QED
        BY <1>2, <1>6, <4>1, <4>2
    <3>3. CASE disk # Absent
      <4>1. disk' = Absent \/ \E lines \in Seq(Lines) : disk' = Text(lines, disk.nl)
        <5> DEFINE old == disk.lines
                   With(k, l) == SubSeq(old, 1, k) \o <<l>> \o SubSeq(old, k + 1, Len(old))
                   Without(k) == SubSeq(old, 1, k - 1) \o SubSeq(old, k + 1, Len(old))
        <5>1. old \in Seq(Lines)
          BY <3>3 DEF IInv, IsText
        <5>2. \/ disk' = Absent
              \/ \E k \in 0 .. Len(old), l \in UserLines : disk' = Text(With(k, l), disk.nl)
              \/ \E k \in 1 .. Len(old) : disk' = Text(Without(k), disk.nl)
          BY <2>1, <3>3, Zenon DEF EditDisk
        <5> HIDE DEF old
        <5>3. Len(old) \in Nat
          BY <5>1, LenProperties
        <5>4. \A i \in Nat \ {0} : \A j \in Int : j <= Len(old) => SubSeq(old, i, j) \in Seq(Lines)
          BY <5>1, PartOf
        <5>5. ASSUME NEW k \in 0 .. Len(old), NEW l \in UserLines PROVE With(k, l) \in Seq(Lines)
          <6>1. SubSeq(old, 1, k) \in Seq(Lines) /\ SubSeq(old, k + 1, Len(old)) \in Seq(Lines)
            BY <5>3, <5>4
          <6> QED
            BY <1>6, <6>1, HasConcat
        <5>6. ASSUME NEW k \in 1 .. Len(old) PROVE Without(k) \in Seq(Lines)
          <6>1. SubSeq(old, 1, k - 1) \in Seq(Lines) /\ SubSeq(old, k + 1, Len(old)) \in Seq(Lines)
            BY <5>3, <5>4
          <6> QED
            BY <6>1, HasConcat
        <5> QED
          BY <5>2, <5>5, <5>6
      <4> QED
        BY <1>2, <3>1, <3>3, <4>1
    <3> QED
      BY <3>2, <3>3
  <2>2. CASE Release
    BY <2>2 DEF Release, IInv, IsText
  <2>3. CASE PromoteToFolder
    <3>1. disk' = Absent \/ \E l \in UserLines : disk' = Text(<<l>>, TRUE)
      BY <2>3 DEF PromoteToFolder
    <3>2. TRUE \in BOOLEAN
      BY Zenon
    <3> QED
      BY <1>2, <1>6, <3>1, <3>2
  <2> QED
    BY <2>1, <2>2, <2>3
<1>4. settled' \in BOOLEAN /\ kept' \in BOOLEAN /\ Settles'
  <2>1. settled' \in BOOLEAN
    BY <1>1, Zenon
  <2>2. FALSE \in BOOLEAN
    BY Zenon
  <2>3. kept' \in BOOLEAN
    BY <1>1, <2>2 DEF IInv
  <2> QED
    BY <1>1, <2>1, <2>3 DEF Settles
<1>5. RefreshOK' /\ GenerateOK'
  BY <1>1 DEF IInv, RefreshOK, GenerateOK, KeepsLines, LinesOf, IsText
<1> QED
  BY <1>1, <1>3, <1>4, <1>5 DEF IInv

\* The settings of the host file's row.
LEMMA SettingsStep ==
  ASSUME IInv, SetContents \/ \E s \in {"emit", "skip"} : SetStrategy(s)
  PROVE  IInv'
<1>0. rule \in Rules
  BY DEF IInv
<1>1. /\ UNCHANGED <<folder, disk, catalog, refresh, generate>>
      /\ rule' \in Rules /\ rule'.applied = rule.applied
      /\ \/ kept' = FALSE /\ settled' = FALSE
         \/ UNCHANGED <<kept, settled>> /\ rule'.strategy = rule.strategy
  <2>1. CASE SetContents
    <3>1. rule' = [rule EXCEPT !.contents = Override]
      BY <2>1 DEF SetContents
    <3>2. rule' \in Rules /\ rule'.applied = rule.applied /\ rule'.strategy = rule.strategy
      BY <1>0, <3>1 DEF Rules
    <3> QED
      BY <2>1, <3>2 DEF SetContents, counters, history
  <2>2. CASE \E s \in {"emit", "skip"} : SetStrategy(s)
    <3>1. PICK s \in {"emit", "skip"} : SetStrategy(s)
      BY <2>2
    <3>2. rule' = [rule EXCEPT !.strategy = s]
      BY <3>1 DEF SetStrategy
    <3>3. rule' \in Rules /\ rule'.applied = rule.applied
      BY <1>0, <3>2 DEF Rules
    <3> QED
      BY <3>1, <3>3 DEF SetStrategy, counters
  <2> QED
    BY <2>1, <2>2
<1>2. kept' \in BOOLEAN /\ settled' \in BOOLEAN
  <2>1. FALSE \in BOOLEAN
    BY Zenon
  <2> QED
    BY <1>1, <2>1 DEF IInv
<1>3. kept' => rule'.strategy = "skip"
  BY <1>1 DEF IInv
<1>4. RefreshOK' /\ GenerateOK'
  BY <1>1 DEF IInv, RefreshOK, GenerateOK, KeepsLines, LinesOf, IsText
<1>5. Settles'
  <2>1. CASE settled' = FALSE
    BY <2>1 DEF Settles
  <2>2. CASE UNCHANGED <<kept, settled>> /\ rule'.strategy = rule.strategy
    <3>1. Writes(rule', disk) = Writes(rule, disk)
      BY <1>0, <1>1, <2>2, SameWrite
    <3>2. Fixed(rule, disk)' <=> Fixed(rule, disk)
      BY <1>1, <3>1 DEF Fixed, Writes
    <3> QED
      BY <1>1, <2>2, <3>2 DEF IInv, Settles
  <2> QED
    BY <1>1, <2>1, <2>2
<1> QED
  BY <1>1, <1>2, <1>3, <1>4, <1>5 DEF IInv, IsText

\* A click on Refresh or on Generate, and the write of Generate.
LEMMA ClickStep ==
  ASSUME IInv, ClickRefresh \/ ClickGenerate \/ WriteGenerated
  PROVE  IInv'
<1>1. CASE ClickRefresh
  <2>1. /\ refresh' = [at |-> "reading", prior |-> rule]
        /\ UNCHANGED <<folder, disk, catalog, rule, generate, kept, settled>>
    BY <1>1 DEF ClickRefresh, history
  <2>2. refresh'.at = "reading" /\ refresh'.prior = rule
    BY <2>1
  <2>3. RefreshOK' /\ GenerateOK'
    BY <2>1, <2>2 DEF IInv, RefreshOK, GenerateOK, KeepsLines, LinesOf, Rules, IsText
  <2>4. Settles'
    BY <2>1, <2>2 DEF IInv, Settles, Fixed, Writes
  <2> QED
    BY <2>1, <2>3, <2>4 DEF IInv, IsText
<1>2. CASE ClickGenerate
  <2> DEFINE g == [at |-> "emitting", output |-> HostOutput(rule), kept |-> kept]
  <2>1. generate' = g /\ UNCHANGED <<folder, disk, catalog, rule, refresh, kept, settled>>
    BY <1>2 DEF ClickGenerate, history
  <2>2. g.at = "emitting" /\ g.output = HostOutput(rule) /\ g.kept = kept
    OBVIOUS
  <2>3. HostOutput(rule) = Absent \/ IsText(HostOutput(rule))
    BY Texts DEF HostOutput, IInv, Rules
  <2>4. rule.strategy = "skip" => HostOutput(rule) = Absent
    BY DEF HostOutput
  <2> HIDE DEF g
  <2>5. RefreshOK' /\ GenerateOK'
    BY <2>1, <2>2, <2>3, <2>4 DEF IInv, RefreshOK, GenerateOK, KeepsLines, LinesOf, IsText
  <2>6. Settles'
    BY <2>1 DEF IInv, Settles, Fixed, Writes
  <2> QED
    BY <2>1, <2>5, <2>6 DEF IInv, IsText
<1>3. CASE WriteGenerated
  <2>1. /\ generate.at = "emitting" /\ generate' = Idle
        /\ disk' = IF generate.output = Absent THEN disk ELSE generate.output
        /\ settled' = (settled /\ disk' = disk)
        /\ UNCHANGED <<folder, catalog, rule, refresh, kept>>
    BY <1>3 DEF WriteGenerated
  <2>2. disk' = Absent \/ IsText(disk')
    BY <2>1, Phases DEF IInv
  <2>3. settled' \in BOOLEAN
    BY <2>1, Zenon
  <2>4. settled' => settled /\ disk' = disk
    BY <2>1
  <2>5. RefreshOK' /\ GenerateOK'
    BY <2>1 DEF IInv, RefreshOK, GenerateOK, KeepsLines, LinesOf, IsText
  <2>6. Settles'
    BY <2>1, <2>4 DEF IInv, Settles, Fixed, Writes
  <2> QED
    BY <2>1, <2>2, <2>3, <2>5, <2>6 DEF IInv
<1> QED
  BY <1>1, <1>2, <1>3

\* The invariant is inductive.
THEOREM StepOK == IInv /\ [Next]_vars => IInv'
<1> SUFFICES ASSUME IInv, [Next]_vars PROVE IInv'
  OBVIOUS
<1>1. CASE UNCHANGED vars
  <2>1. UNCHANGED <<folder, disk, catalog, rule, refresh, generate, kept, settled>>
    BY <1>1 DEF vars, history
  <2>2. RefreshOK' /\ GenerateOK'
    BY <2>1 DEF IInv, RefreshOK, GenerateOK, KeepsLines, LinesOf, IsText
  <2>3. Settles'
    BY <2>1 DEF IInv, Settles, Fixed, Writes
  <2> QED
    BY <2>1, <2>2, <2>3 DEF IInv, IsText
<1>2. CASE Next
  BY <1>2, StoreStep, WriteStep, OutsideStep, SettingsStep, ClickStep DEF Next
<1> QED
  BY <1>1, <1>2

\* The file, the settings and the work in flight are what the code stores.
THEOREM HostFileTypes == Spec => []TypeOK
<1>1. IInv => TypeOK
  <2> SUFFICES ASSUME IInv PROVE TypeOK
    OBVIOUS
  <2>1. \A t : IsText(t) => TextOrAbsent(t)
    <3> SUFFICES ASSUME NEW t, IsText(t) PROVE TextOrAbsent(t)
      OBVIOUS
    <3>1. DOMAIN t = {"lines", "nl"} /\ t.nl \in BOOLEAN
      BY DEF IsText, Text
    <3> QED
      BY <3>1 DEF TextOrAbsent
  <2>2. TextOrAbsent(disk)
    BY <2>1 DEF IInv, TextOrAbsent
  <2>3. refresh.at \in {"idle", "reading", "writing"} /\ generate.at \in {"idle", "emitting"}
    BY DEF IInv, RefreshOK, GenerateOK, Idle
  <2> QED
    BY <2>2, <2>3 DEF IInv, TypeOK, Rules
<1> QED
  BY <1>1, InitOK, StepOK, PTL DEF Spec

\* No line the user wrote is lost by Refresh, for texts of any length, any templates
\* and however often the file, the template and the settings change.
THEOREM UserLinesSurvive == Spec => UserLinesSurviveRefresh
<1> DEFINE Survives ==
      \A l \in LinesOf(disk) :
        refresh.at = "writing" /\ disk = refresh.seen /\ l \notin LinesOf(refresh.base)
          /\ WriteRefresh => l \in LinesOf(disk')
<1>1. IInv => [Survives]_vars
  <2> SUFFICES ASSUME IInv, NEW l \in LinesOf(disk), refresh.at = "writing", disk = refresh.seen,
                      l \notin LinesOf(refresh.base), WriteRefresh
               PROVE  l \in LinesOf(disk')
    BY Zenon
  <2>1. l \in LinesOf(refresh.text)
    BY Phases DEF KeepsLines
  <2>2. disk' = refresh.text
    BY DEF WriteRefresh
  <2> QED
    BY <2>1, <2>2
<1>2. UserLinesSurviveRefresh <=> [][Survives]_vars
  BY DEF UserLinesSurviveRefresh
<1> HIDE DEF Survives
<1> QED
  BY <1>1, <1>2, InitOK, StepOK, PTL DEF Spec

\* What Refresh merged or kept survives the Generates that begin after it, for any
\* templates and however often the file, the template and the settings change.
THEOREM KeptFileIsKept == Spec => LaterGenerateKeepsTheFile
<1> DEFINE Keeps == WriteGenerated /\ generate.kept => disk' = disk
<1>1. IInv => [Keeps]_vars
  BY Phases DEF WriteGenerated
<1>2. LaterGenerateKeepsTheFile <=> [][Keeps]_vars
  BY DEF LaterGenerateKeepsTheFile
<1> HIDE DEF Keeps
<1> QED
  BY <1>1, <1>2, InitOK, StepOK, PTL DEF Spec

\* Refresh is idempotent: a merge is not merged a second time.
THEOREM RefreshIsIdempotent == Spec => RefreshSettles
<1> DEFINE Same == WriteRefresh /\ refresh.seen = disk /\ settled => disk' = disk
<1>1. IInv => [Same]_vars
  BY DEF WriteRefresh, IInv, Settles
<1>2. RefreshSettles <=> [][Same]_vars
  BY DEF RefreshSettles
<1> HIDE DEF Same
<1> QED
  BY <1>1, <1>2, InitOK, StepOK, PTL DEF Spec
=============================================================================
