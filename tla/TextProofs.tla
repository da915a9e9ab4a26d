----------------------------- MODULE TextProofs ------------------------------
(***************************************************************************)
(* Proofs about texts: what cutting, trimming and picking do to any text   *)
(* (Splits, and the flattening they are made of), and with that the git    *)
(* facts of a build, for any branches, any remotes and whatever the user   *)
(* does in the repository meanwhile; and what becomes of what a command    *)
(* writes, for any alphabet, wherever frames and chunks end.               *)
(***************************************************************************)
EXTENDS SourceMeta, StepOutput, SequenceTheorems, WellFoundedInduction, TLAPS

-----------------------------------------------------------------------------
(* Functions recursive over the naturals.                                   *)

Below == {x \in Nat \X Nat : x[1] < x[2]}

\* A set of naturals that has a member has a least one.
LEMMA Least ==
  ASSUME NEW T \in SUBSET Nat, T # {}
  PROVE  \E n \in T : \A m \in T : n <= m
<1>1. IsWellFoundedOn(Below, Nat)
  BY NatLessThanWellFounded DEF OpToRel, Below
<1>2. PICK n \in T : \A m \in T : ~(<<m, n>> \in Below)
  BY <1>1, WFMin
<1>3. ASSUME NEW m \in T PROVE n <= m
  <2>1. m \in Nat /\ n \in Nat /\ ~(<<m, n>> \in Below)
    BY <1>2
  <2>2. ~(m < n)
    BY <2>1 DEF Below
  <2>3. QED
    BY <2>1, <2>2
<1>4. QED
  BY <1>2, <1>3

\* Induction up to N, over the set of the numbers at which a fact holds.
LEMMA UpTo ==
  ASSUME NEW N \in Nat, NEW T, 0 \in T, \A n \in 1..N : n - 1 \in T => n \in T
  PROVE  \A n \in 0..N : n \in T
<1> DEFINE Bad == {n \in 0..N : n \notin T}
<1>1. SUFFICES ASSUME Bad # {} PROVE FALSE
  OBVIOUS
<1>2. PICK n \in Bad : \A m \in Bad : n <= m
  <2>1. Bad \in SUBSET Nat
    OBVIOUS
  <2> HIDE DEF Bad
  <2>2. QED
    BY <1>1, <2>1, Least
<1>3. n \in 0..N /\ n \notin T /\ n # 0
  BY <1>2
<1>4. n \in 1..N /\ n - 1 \in 0..N /\ n - 1 < n
  BY <1>3
<1>5. n - 1 \in T
  BY <1>2, <1>4
<1>6. QED
  BY <1>3, <1>4, <1>5

\* A function recursive over 0..N exists, whatever its steps are.
Recurs(f, N, S, x, F) == f \in [0..N -> S] /\ f[0] = x /\ \A n \in 1..N : f[n] = F[n][f[n - 1]]

LEMMA Recursion ==
  ASSUME NEW N \in Nat, NEW S, NEW x \in S, NEW F \in [1..N -> [S -> S]]
  PROVE  \E f : Recurs(f, N, S, x, F)
<1> DEFINE Upto(n, f) == f \in [0..n -> S] /\ f[0] = x /\ \A i \in 1..n : f[i] = F[i][f[i - 1]]
           Has == {n \in 0..N : \E f : Upto(n, f)}
<1>1. 0 \in Has
  <2>1. Upto(0, [i \in 0..0 |-> x])
    OBVIOUS
  <2>2. 0 \in 0..N
    OBVIOUS
  <2>3. \E f : Upto(0, f)
    BY <2>1
  <2> HIDE DEF Upto
  <2>4. QED
    BY <2>2, <2>3
<1>2. ASSUME NEW n \in 1..N, n - 1 \in Has PROVE n \in Has
  <2>1. PICK f : Upto(n - 1, f)
    BY <1>2
  <2>2. n - 1 \in 0..(n - 1) /\ n \in Nat /\ n \in 0..N /\ 0 \in 0..(n - 1) /\ n # 0 /\ n - 1 # n
    OBVIOUS
  <2> DEFINE new == F[n][f[n - 1]]
             g == [i \in 0..n |-> IF i = n THEN new ELSE f[i]]
  <2>3. new \in S
    BY <2>1, <2>2
  <2> HIDE DEF new
  <2>4. g \in [0..n -> S] /\ g[0] = x
    BY <2>1, <2>2, <2>3
  <2>5. \A i \in 1..n : g[i] = F[i][g[i - 1]]
    <3>1. ASSUME NEW i \in 1..n, i # n PROVE g[i] = F[i][g[i - 1]]
      <4>1. i \in 1..(n - 1) /\ i - 1 \in 0..n /\ i - 1 # n /\ i \in 0..n
        BY <2>2, <3>1
      <4>2. g[i] = f[i] /\ g[i - 1] = f[i - 1]
        BY <3>1, <4>1
      <4>3. QED
        BY <2>1, <4>1, <4>2
    <3>2. g[n] = new /\ g[n - 1] = f[n - 1]
      BY <2>2
    <3>3. QED
      BY <3>1, <3>2 DEF new
  <2>6. Upto(n, g)
    BY <2>4, <2>5
  <2>7. QED
    BY <2>2, <2>6
<1> HIDE DEF Has
<1>3. \A n \in 0..N : n \in Has
  BY <1>1, <1>2, UpTo
<1>4. QED
  <2>1. N \in Has
    BY <1>3
  <2>2. QED
    BY <2>1 DEF Has, Recurs


-----------------------------------------------------------------------------
(* Sequences joined.  Cat keeps the provers from expanding what joins them. *)

Cat(s, t) == s \o t

LEMMA Joined ==
  ASSUME NEW G, NEW s \in Seq(G), NEW t \in Seq(G)
  PROVE  /\ s \o t \in Seq(G) /\ Len(s \o t) = Len(s) + Len(t)
         /\ Len(s) \in Nat /\ Len(t) \in Nat
         /\ DOMAIN (s \o t) = 1..(Len(s) + Len(t)) /\ DOMAIN s = 1..Len(s) /\ DOMAIN t = 1..Len(t)
         /\ \A i \in 1..Len(s) : (s \o t)[i] = s[i]
         /\ \A i \in 1..Len(t) : (s \o t)[Len(s) + i] = t[i]
<1>1. s \o t \in Seq(G) /\ Len(s \o t) = Len(s) + Len(t) /\ Len(s) \in Nat /\ Len(t) \in Nat
  BY ConcatProperties
<1>2. \A i \in 1..(Len(s) + Len(t)) : (s \o t)[i] = IF i <= Len(s) THEN s[i] ELSE t[i - Len(s)]
  BY ConcatProperties
<1>3. \A i \in 1..Len(s) : (s \o t)[i] = s[i]
  BY <1>1, <1>2
<1>4. \A i \in 1..Len(t) : (s \o t)[Len(s) + i] = t[i]
  <2>1. ASSUME NEW i \in 1..Len(t) PROVE (s \o t)[Len(s) + i] = t[i]
    <3>1. Len(s) + i \in 1..(Len(s) + Len(t)) /\ ~(Len(s) + i <= Len(s)) /\ (Len(s) + i) - Len(s) = i
      BY <1>1
    <3>2. QED
      BY <1>2, <3>1
  <2>2. QED
    BY <2>1
<1>5. DOMAIN (s \o t) = 1..(Len(s) + Len(t)) /\ DOMAIN s = 1..Len(s) /\ DOMAIN t = 1..Len(t)
  BY <1>1, LenProperties
<1>6. QED
  BY <1>1, <1>3, <1>4, <1>5

\* Two sequences that agree are one.
LEMMA Alike ==
  ASSUME NEW G, NEW s \in Seq(G), NEW H, NEW t \in Seq(H), Len(s) = Len(t),
         \A i \in 1..Len(s) : s[i] = t[i]
  PROVE  s = t
<1>1. Len(s) \in Nat /\ s = [i \in 1..Len(s) |-> s[i]] /\ t = [i \in 1..Len(t) |-> t[i]]
  BY LenProperties
<1>2. QED
  BY <1>1

LEMMA Tabled ==
  ASSUME NEW G, NEW n \in Nat, NEW r \in [1..n -> G]
  PROVE  r \in Seq(G) /\ Len(r) = n /\ DOMAIN r = 1..n
OBVIOUS

\* What holds of the empty sequence and of each with one element more, holds of all.
LEMMA BySnoc ==
  ASSUME NEW G, NEW T, <<>> \in T, \A s \in Seq(G), e \in G : s \in T => Cat(s, <<e>>) \in T
  PROVE  \A s \in Seq(G) : s \in T
<1> SUFFICES ASSUME NEW s \in Seq(G) PROVE s \in T
  OBVIOUS
<1> DEFINE n == Len(s)
           Done == {k \in 0..n : SubSeq(s, 1, k) \in T}
<1>1. n \in Nat /\ \A k \in 1..n : s[k] \in G
  BY LenProperties, ElementOfSeq
<1>2. 0 \in Done
  <2>1. SubSeq(s, 1, 0) = <<>> /\ 0 \in 0..n
    BY <1>1, SubSeqEmpty
  <2>2. QED
    BY <2>1
<1>3. ASSUME NEW k \in 1..n, k - 1 \in Done PROVE k \in Done
  <2>1. SubSeq(s, 1, k - 1) \in T /\ k \in 0..n /\ 1 \in 1..n /\ k \in 1..Len(s) /\ 1 \in Int /\ k - 1 \in Int
    BY <1>1, <1>3
  <2>2. SubSeq(s, 1, k - 1) \in Seq(G)
    <3>1. \A i \in 1..(k - 1) : s[i] \in G
      BY <1>1
    <3>2. QED
      BY <2>1, <3>1, SubSeqProperties
  <2>3. SubSeq(s, 1, k) = SubSeq(s, 1, k - 1) \o <<s[k]>>
    <3>1. 1 \in 1..Len(s) /\ k \in 1..Len(s)
      BY <2>1
    <3>2. QED
      BY <3>1, SubSeqRecursiveSecond
  <2>4. Cat(SubSeq(s, 1, k - 1), <<s[k]>>) \in T
    BY <1>1, <2>1, <2>2
  <2>5. QED
    BY <2>1, <2>3, <2>4 DEF Cat
<1> HIDE DEF Done
<1>4. n \in Done
  <2>1. \A k \in 0..n : k \in Done
    BY <1>1, <1>2, <1>3, UpTo
  <2>2. QED
    BY <1>1, <2>1
<1>5. QED
  BY <1>4, SubSeqFull DEF Done

-----------------------------------------------------------------------------
(* A sequence of sequences, flattened.                                      *)

\* The sequences of sequences over G.
Rows(G) == Seq(Seq(G))

\* f[i] is what the first i of them join to.
Joins(f, s, n, G) == f \in [0..n -> Seq(G)] /\ f[0] = <<>> /\ \A i \in 1..n : f[i] = f[i - 1] \o s[i]

LEMMA JoinsExist ==
  ASSUME NEW G, NEW n \in Nat, NEW s \in [1..n -> Seq(G)]
  PROVE  \E f : Joins(f, s, n, G)
<1> DEFINE S == Seq(G)
           F == [i \in 1..n |-> [q \in S |-> q \o s[i]]]
<1>1. F \in [1..n -> [S -> S]]
  <2>1. \A i \in 1..n, q \in S : q \o s[i] \in S
    BY ConcatProperties
  <2>2. QED
    BY <2>1
<1>2. <<>> \in S
  BY EmptySeq
<1>3. \A i \in 1..n, q \in S : F[i][q] = q \o s[i]
  OBVIOUS
<1> HIDE DEF F
<1>4. PICK f : Recurs(f, n, S, <<>>, F)
  <2> HIDE DEF S
  <2>1. QED
    BY <1>1, <1>2, Recursion
<1>5. \A i \in 1..n : i - 1 \in 0..n
  OBVIOUS
<1>6. \A i \in 1..n : f[i] = f[i - 1] \o s[i]
  BY <1>3, <1>4, <1>5 DEF Recurs
<1>7. QED
  BY <1>4, <1>6 DEF Recurs, Joins

\* Whatever joins them step by step ends in what flattening gives.
LEMMA FlatIs ==
  ASSUME NEW G, NEW n \in Nat, NEW s \in [1..n -> Seq(G)], NEW f, Joins(f, s, n, G)
  PROVE  FlattenSeq(s) = f[n]
<1>1. Len(s) = n /\ s = [i \in 1..n |-> s[i]]
  BY Tabled
<1>5. f[0] = <<>> /\ (\A i \in 1..n : f[i] = f[i - 1] \o s[i]) /\ \A i \in 1..n : s[i] \in Seq(G)
  BY DEF Joins
<1>6. n # 0 => f[1] = s[1]
  <2> SUFFICES ASSUME n # 0 PROVE f[1] = s[1]
    OBVIOUS
  <2>1. 1 \in 1..n /\ 1 - 1 = 0
    OBVIOUS
  <2>2. f[1] = <<>> \o s[1] /\ s[1] \in Seq(G)
    BY <1>5, <2>1
  <2>3. QED
    BY <2>2, ConcatEmptySeq
<1>2. CASE n = 0
  <2>1. s = <<>>
    BY <1>2
  <2>2. QED
    BY <1>1, <1>2, <2>1 DEF FlattenSeq, Joins
<1>3. CASE n # 0
  <2> DEFINE Q(h) == h = [i \in 1..n |-> IF i = 1 THEN s[i] ELSE h[i - 1] \o s[i]]
             g == CHOOSE h : Q(h)
  <2>1. Q([i \in 1..n |-> f[i]])
    <3> DEFINE h == [i \in 1..n |-> f[i]]
    <3>1. ASSUME NEW i \in 1..n PROVE f[i] = IF i = 1 THEN s[i] ELSE h[i - 1] \o s[i]
      <4>1. CASE i = 1
        BY <1>3, <1>6, <4>1
      <4>2. CASE i # 1
        <5>1. i - 1 \in 1..n
          BY <4>2
        <5>2. h[i - 1] = f[i - 1]
          BY <5>1
        <5> HIDE DEF h
        <5>3. QED
          BY <1>5, <4>2, <5>2
      <4>3. QED
        BY <4>1, <4>2
    <3>2. QED
      BY <3>1
  <2>2. Q(g)
    BY <2>1
  <2>3. FlattenSeq(s) = g[n]
    BY <1>1, <1>3 DEF FlattenSeq
  <2>4. \A i \in 1..n : g[i] = IF i = 1 THEN s[i] ELSE g[i - 1] \o s[i]
    BY <2>2
  <2> HIDE DEF g
  <2> DEFINE T == {i \in 0..n : i = 0 \/ g[i] = f[i]}
  <2>5. 0 \in T
    OBVIOUS
  <2>6. ASSUME NEW i \in 1..n, i - 1 \in T PROVE i \in T
    <3>1. CASE i = 1
      <4>1. g[1] = s[1]
        BY <2>4, <3>1
      <4>2. QED
        BY <1>3, <1>6, <3>1, <4>1
    <3>2. CASE i # 1
      <4>1. g[i - 1] = f[i - 1]
        BY <2>6, <3>2
      <4>2. g[i] = g[i - 1] \o s[i] /\ f[i] = f[i - 1] \o s[i]
        BY <1>5, <2>4, <3>2
      <4>3. i \in 0..n /\ g[i] = f[i]
        BY <4>1, <4>2
      <4>4. QED
        BY <4>3
    <3>3. QED
      BY <3>1, <3>2
  <2> HIDE DEF T
  <2>7. n \in T
    <3>1. \A i \in 0..n : i \in T
      BY <2>5, <2>6, UpTo
    <3>2. QED
      BY <3>1
  <2>8. QED
    BY <1>3, <2>3, <2>7 DEF T
<1>4. QED
  BY <1>2, <1>3

\* A flattened sequence has what its parts have.
LEMMA FlatType ==
  ASSUME NEW G, NEW s \in Rows(G)
  PROVE  FlattenSeq(s) \in Seq(G)
<1>1. Len(s) \in Nat /\ s \in [1..Len(s) -> Seq(G)]
  BY LenProperties DEF Rows
<1>2. PICK f : Joins(f, s, Len(s), G)
  BY <1>1, JoinsExist
<1>3. FlattenSeq(s) = f[Len(s)]
  BY <1>1, <1>2, FlatIs
<1>4. QED
  BY <1>1, <1>2, <1>3 DEF Joins

LEMMA FlatOfNone == FlattenSeq(<<>>) = <<>>
BY DEF FlattenSeq

LEMMA FlatOfOne ==
  ASSUME NEW G, NEW x \in Seq(G)
  PROVE  FlattenSeq(<<x>>) = x
<1> DEFINE f == [i \in 0..1 |-> IF i = 0 THEN <<>> ELSE x]
           s == <<x>>
<1>1. s \in [1..1 -> Seq(G)] /\ s[1] = x
  OBVIOUS
<1>2. Joins(f, s, 1, G)
  <2>1. <<>> \o x = x
    BY ConcatEmptySeq
  <2>2. f \in [0..1 -> Seq(G)]
    BY EmptySeq
  <2>3. \A i \in 1..1 : f[i] = f[i - 1] \o s[i]
    <3>1. \A i \in 1..1 : i = 1
      OBVIOUS
    <3>2. f[1] = x /\ f[0] = <<>> /\ 1 - 1 = 0
      OBVIOUS
    <3>3. QED
      BY <1>1, <2>1, <3>1, <3>2
  <2>4. QED
    BY <2>2, <2>3 DEF Joins
<1>3. FlattenSeq(s) = f[1]
  <2> HIDE DEF s, f
  <2>1. QED
    BY <1>1, <1>2, FlatIs
<1>4. QED
  BY <1>3

\* Of two sequences and what they join to.
Parts(s, n, t, m, w, G) ==
  /\ s \in [1..n -> Seq(G)] /\ t \in [1..m -> Seq(G)] /\ w \in [1..(n + m) -> Seq(G)]
  /\ \A i \in 1..n : w[i] = s[i]
  /\ \A i \in 1..m : w[n + i] = t[i]

LEMMA FlatOfParts ==
  ASSUME NEW G, NEW n \in Nat, NEW m \in Nat, NEW s, NEW t, NEW w, Parts(s, n, t, m, w, G)
  PROVE  FlattenSeq(w) = Cat(FlattenSeq(s), FlattenSeq(t))
<1>1. /\ n \in Nat /\ m \in Nat /\ n + m \in Nat
      /\ s \in [1..n -> Seq(G)] /\ t \in [1..m -> Seq(G)] /\ w \in [1..(n + m) -> Seq(G)]
      /\ \A i \in 1..n : w[i] = s[i]
      /\ \A i \in 1..m : w[n + i] = t[i]
  BY DEF Parts
<1>2. PICK f : Joins(f, s, n, G)
  BY <1>1, JoinsExist
<1>3. PICK g : Joins(g, t, m, G)
  BY <1>1, JoinsExist
<1> DEFINE h == [i \in 0..(n + m) |-> IF i <= n THEN f[i] ELSE f[n] \o g[i - n]]
<1>4. f \in [0..n -> Seq(G)] /\ g \in [0..m -> Seq(G)] /\ f[n] \in Seq(G)
  BY <1>1, <1>2, <1>3 DEF Joins
<1>5. \A i \in 0..(n + m) : i <= n => h[i] = f[i]
  OBVIOUS
<1>6. \A i \in 0..m : h[n + i] = f[n] \o g[i]
  <2>1. ASSUME NEW i \in 0..m PROVE h[n + i] = f[n] \o g[i]
    <3>1. n + i \in 0..(n + m) /\ (n + i) - n = i /\ (n + i <= n <=> i = 0)
      BY <1>1
    <3>2. CASE i = 0
      <4>1. g[i] = <<>> /\ n + i = n
        BY <1>1, <1>3, <3>2 DEF Joins
      <4>2. QED
        BY <1>1, <1>4, <3>1, <3>2, <4>1, ConcatEmptySeq
    <3>3. CASE i # 0
      BY <3>1, <3>3
    <3>4. QED
      BY <3>2, <3>3
  <2>2. QED
    BY <2>1
<1>7. h \in [0..(n + m) -> Seq(G)]
  <2>1. ASSUME NEW i \in 0..(n + m) PROVE h[i] \in Seq(G)
    <3>1. CASE i <= n
      BY <1>1, <1>4, <3>1
    <3>2. CASE ~(i <= n)
      <4>1. i - n \in 0..m
        BY <1>1, <3>2
      <4>2. g[i - n] \in Seq(G)
        BY <1>4, <4>1
      <4>3. h[i] = f[n] \o g[i - n]
        BY <3>2
      <4>4. QED
        BY <1>4, <4>2, <4>3, ConcatProperties
    <3>3. QED
      BY <3>1, <3>2
  <2>2. h = [i \in 0..(n + m) |-> h[i]]
    OBVIOUS
  <2> HIDE DEF h
  <2>3. QED
    BY <2>1, <2>2
<1> HIDE DEF h
<1>8. ASSUME NEW i \in 1..(n + m) PROVE h[i] = h[i - 1] \o w[i]
  <2>1. CASE i <= n
    <3>1. i \in 1..n /\ i - 1 \in 0..(n + m) /\ i - 1 <= n /\ i \in 0..(n + m)
      BY <1>1, <2>1
    <3>2. h[i] = f[i] /\ h[i - 1] = f[i - 1] /\ w[i] = s[i]
      BY <1>1, <1>5, <2>1, <3>1
    <3>3. QED
      BY <1>2, <3>1, <3>2 DEF Joins
  <2>2. CASE ~(i <= n)
    <3> DEFINE k == i - n
    <3>1. k \in 1..m /\ k - 1 \in 0..m /\ i = n + k /\ i - 1 = n + (k - 1) /\ k \in 0..m
      BY <1>1, <2>2
    <3> HIDE DEF k
    <3>2. h[i] = f[n] \o g[k] /\ h[i - 1] = f[n] \o g[k - 1] /\ w[i] = t[k]
      BY <1>1, <1>6, <3>1
    <3>3. g[k] = g[k - 1] \o t[k] /\ g[k - 1] \in Seq(G) /\ t[k] \in Seq(G)
      BY <1>1, <1>3, <1>4, <3>1 DEF Joins
    <3>4. (f[n] \o g[k - 1]) \o t[k] = f[n] \o (g[k - 1] \o t[k])
      <4>1. ASSUME NEW x \in Seq(G), NEW y \in Seq(G), NEW z \in Seq(G) PROVE (x \o y) \o z = x \o (y \o z)
        BY ConcatAssociative
      <4>2. f[n] \in Seq(G) /\ g[k - 1] \in Seq(G) /\ t[k] \in Seq(G)
        BY <1>4, <3>3
      <4>3. QED
        BY <4>1, <4>2
    <3>5. QED
      BY <3>2, <3>3, <3>4
  <2>3. QED
    BY <2>1, <2>2
<1>9. h[0] = <<>>
  BY <1>1, <1>2, <1>5 DEF Joins
<1>10. Joins(h, w, n + m, G)
  BY <1>7, <1>8, <1>9 DEF Joins
<1>11. FlattenSeq(w) = h[n + m]
  BY <1>1, <1>10, FlatIs
<1>12. FlattenSeq(s) = f[n] /\ FlattenSeq(t) = g[m]
  BY <1>1, <1>2, <1>3, FlatIs
<1>13. h[n + m] = f[n] \o g[m]
  <2>1. m \in 0..m
    BY <1>1
  <2>2. QED
    BY <1>6, <2>1
<1>14. QED
  BY <1>11, <1>12, <1>13 DEF Cat

LEMMA FlatOfJoined ==
  ASSUME NEW G, NEW s \in Rows(G), NEW t \in Rows(G)
  PROVE  FlattenSeq(Cat(s, t)) = Cat(FlattenSeq(s), FlattenSeq(t))
<1> DEFINE n == Len(s)
           m == Len(t)
           w == Cat(s, t)
<1>1. w \in Seq(Seq(G)) /\ Len(w) = n + m /\ n \in Nat /\ m \in Nat
  BY Joined DEF Rows, Cat
<1>2. s \in [1..n -> Seq(G)] /\ t \in [1..m -> Seq(G)] /\ w \in [1..(n + m) -> Seq(G)]
  <2> HIDE DEF w
  <2>1. QED
    BY <1>1, LenProperties DEF Rows
<1>3. Parts(s, n, t, m, w, G)
  BY <1>2, Joined DEF Parts, Rows, Cat
<1>4. n \in Nat /\ m \in Nat
  BY <1>1
<1> HIDE DEF n, m, w
<1>5. FlattenSeq(w) = Cat(FlattenSeq(s), FlattenSeq(t))
  BY <1>3, <1>4, FlatOfParts
<1>6. QED
  BY <1>5 DEF w

\* What is known of two sequences joined.
CatInfo(s, t, G) ==
  /\ Cat(s, t) \in Seq(G) /\ Len(Cat(s, t)) = Len(s) + Len(t) /\ Len(s) \in Nat /\ Len(t) \in Nat
  /\ DOMAIN Cat(s, t) = 1..(Len(s) + Len(t)) /\ DOMAIN s = 1..Len(s) /\ DOMAIN t = 1..Len(t)
  /\ \A i \in 1..Len(s) : Cat(s, t)[i] = s[i]
  /\ \A i \in 1..Len(t) : Cat(s, t)[Len(s) + i] = t[i]

LEMMA CatIs ==
  ASSUME NEW G, NEW s \in Seq(G), NEW t \in Seq(G)
  PROVE  CatInfo(s, t, G)
BY Joined DEF Cat, CatInfo

LEMMA CatOfOne ==
  ASSUME NEW G, NEW s \in Seq(G), NEW e \in G
  PROVE  /\ <<e>> \in Seq(G) /\ CatInfo(s, <<e>>, G) /\ Cat(s, <<e>>) \in Seq(G)
         /\ Len(Cat(s, <<e>>)) = Len(s) + 1 /\ Cat(s, <<e>>)[Len(s) + 1] = e
<1> DEFINE x == <<e>>
<1>1. x \in Seq(G) /\ Len(x) = 1 /\ x[1] = e
  OBVIOUS
<1> HIDE DEF x
<1>2. CatInfo(s, x, G)
  BY <1>1, CatIs
<1>3. Cat(s, x) \in Seq(G) /\ Len(Cat(s, x)) = Len(s) + 1 /\ Cat(s, x)[Len(s) + 1] = e
  BY <1>1, <1>2 DEF CatInfo
<1>4. QED
  BY <1>1, <1>2, <1>3 DEF x

LEMMA CatOfNone ==
  ASSUME NEW G, NEW s \in Seq(G)
  PROVE  Cat(s, <<>>) = s /\ Cat(<<>>, s) = s
BY ConcatEmptySeq DEF Cat

LEMMA CatAssociates ==
  ASSUME NEW G, NEW s \in Seq(G), NEW t \in Seq(G), NEW u \in Seq(G)
  PROVE  Cat(Cat(s, t), u) = Cat(s, Cat(t, u))
BY ConcatAssociative DEF Cat

\* A table whose first and last parts are these is the two joined.
Halves(r, p, q, n, m) == (\A i \in 1..n : r[i] = p[i]) /\ \A i \in 1..m : r[n + i] = q[i]

LEMMA CatOfHalves ==
  ASSUME NEW G, NEW n \in Nat, NEW m \in Nat, NEW p \in [1..n -> G], NEW q \in [1..m -> G],
         NEW r \in [1..(n + m) -> G], Halves(r, p, q, n, m)
  PROVE  r = Cat(p, q)
<1>0. (\A i \in 1..n : r[i] = p[i]) /\ \A i \in 1..m : r[n + i] = q[i]
  BY DEF Halves
<1>1. p \in Seq(G) /\ Len(p) = n /\ q \in Seq(G) /\ Len(q) = m /\ r \in Seq(G) /\ Len(r) = n + m
  BY Tabled
<1>2. Cat(p, q) \in Seq(G) /\ Len(Cat(p, q)) = n + m
      /\ (\A i \in 1..n : Cat(p, q)[i] = p[i]) /\ (\A i \in 1..m : Cat(p, q)[n + i] = q[i])
  <2>1. p \in Seq(G) /\ q \in Seq(G) /\ Len(p) = n /\ Len(q) = m
    BY <1>1
  <2>2. CatInfo(p, q, G)
    BY <2>1, CatIs
  <2>3. QED
    BY <2>1, <2>2, Zenon DEF CatInfo
<1>3. ASSUME NEW i \in 1..(n + m) PROVE r[i] = Cat(p, q)[i]
  <2>1. CASE i <= n
    BY <1>0, <1>2, <2>1
  <2>2. CASE ~(i <= n)
    <3>1. i - n \in 1..m /\ n + (i - n) = i
      BY <2>2
    <3>2. r[n + (i - n)] = q[i - n] /\ Cat(p, q)[n + (i - n)] = q[i - n]
      BY <1>0, <1>2, <3>1
    <3>3. QED
      BY <3>1, <3>2
  <2>3. QED
    BY <2>1, <2>2
<1> DEFINE c == Cat(p, q)
<1>4. c \in Seq(G) /\ Len(r) = Len(c) /\ \A i \in 1..Len(r) : r[i] = c[i]
  BY <1>1, <1>2, <1>3
<1> HIDE DEF c
<1>5. r = c
  BY <1>1, <1>4, Alike
<1>6. QED
  BY <1>5 DEF c

LEMMA RowsAre ==
  ASSUME NEW G
  PROVE  /\ <<>> \in Rows(G)
         /\ \A x \in Seq(G) : <<x>> \in Rows(G)
         /\ \A n \in Nat : \A r \in [1..n -> Seq(G)] : r \in Rows(G)
         /\ \A s, t \in Rows(G) : Cat(s, t) \in Rows(G)
         /\ \A s \in Rows(G) : Len(s) \in Nat /\ DOMAIN s = 1..Len(s) /\ \A i \in 1..Len(s) : s[i] \in Seq(G)
<1> DEFINE S == Seq(G)
<1>1. Rows(G) = Seq(S)
  BY DEF Rows
<1> HIDE DEF S
<1>2. <<>> \in Seq(S) /\ \A x \in S : <<x>> \in Seq(S)
  OBVIOUS
<1>3. \A n \in Nat : \A r \in [1..n -> S] : r \in Seq(S)
  BY Tabled
<1>4. \A s, t \in Seq(S) : Cat(s, t) \in Seq(S)
  BY CatIs DEF CatInfo
<1>5. \A s \in Seq(S) : Len(s) \in Nat /\ DOMAIN s = 1..Len(s) /\ \A i \in 1..Len(s) : s[i] \in S
  BY LenProperties, ElementOfSeq
<1>6. QED
  BY <1>1, <1>2, <1>3, <1>4, <1>5 DEF S

LEMMA RowsBySnoc ==
  ASSUME NEW G, NEW T, <<>> \in T, \A s \in Rows(G), x \in Seq(G) : s \in T => Cat(s, <<x>>) \in T
  PROVE  \A s \in Rows(G) : s \in T
<1> DEFINE S == Seq(G)
<1>1. Rows(G) = Seq(S)
  BY DEF Rows
<1>2. \A s \in Seq(S), x \in S : s \in T => Cat(s, <<x>>) \in T
  BY <1>1
<1> HIDE DEF S
<1>3. \A s \in Seq(S) : s \in T
  BY <1>2, BySnoc
<1>4. QED
  BY <1>1, <1>3

LEMMA FlatOfMore ==
  ASSUME NEW G, NEW s \in Rows(G), NEW x \in Seq(G)
  PROVE  FlattenSeq(Cat(s, <<x>>)) = Cat(FlattenSeq(s), x)
<1>1. <<x>> \in Rows(G) /\ FlattenSeq(<<x>>) = x
  BY RowsAre, FlatOfOne
<1>2. QED
  BY <1>1, FlatOfJoined

-----------------------------------------------------------------------------
(* A sequence with each element spread out to a sequence, by a table of what *)
(* each becomes.                                                            *)

Spread(s, r) == FlattenSeq([i \in DOMAIN s |-> r[s[i]]])

\* The tables that take G to sequences over H.
Tables(G, H) == [G -> Seq(H)]

LEMMA SpreadRows ==
  ASSUME NEW G, NEW H, NEW s \in Seq(G), NEW r \in Tables(G, H)
  PROVE  [i \in DOMAIN s |-> r[s[i]]] \in [1..Len(s) -> Seq(H)]
<1> DEFINE S == Seq(H)
<1>1. r \in [G -> S]
  BY DEF Tables
<1> HIDE DEF S
<1>2. DOMAIN s = 1..Len(s) /\ \A i \in 1..Len(s) : s[i] \in G
  BY LenProperties, ElementOfSeq
<1>3. [i \in DOMAIN s |-> r[s[i]]] \in [1..Len(s) -> S]
  BY <1>1, <1>2
<1>4. QED
  BY <1>3 DEF S

LEMMA SpreadType ==
  ASSUME NEW G, NEW H, NEW s \in Seq(G), NEW r \in Tables(G, H)
  PROVE  Spread(s, r) \in Seq(H)
<1> DEFINE w == [i \in DOMAIN s |-> r[s[i]]]
<1>1. w \in [1..Len(s) -> Seq(H)] /\ Len(s) \in Nat
  BY SpreadRows, LenProperties
<1>2. w \in Rows(H)
  <2> HIDE DEF w
  <2>1. QED
    BY <1>1, RowsAre
<1>3. FlattenSeq(w) \in Seq(H)
  <2> HIDE DEF w
  <2>1. QED
    BY <1>2, FlatType
<1>4. QED
  BY <1>3 DEF Spread

LEMMA SpreadOfNone == ASSUME NEW r PROVE Spread(<<>>, r) = <<>>
<1>1. [i \in DOMAIN <<>> |-> r[<<>>[i]]] = <<>>
  OBVIOUS
<1>2. QED
  BY <1>1, FlatOfNone DEF Spread

LEMMA SpreadOfOne ==
  ASSUME NEW G, NEW H, NEW e \in G, NEW r \in Tables(G, H)
  PROVE  Spread(<<e>>, r) = r[e] /\ r[e] \in Seq(H)
<1>1. r[e] \in Seq(H)
  BY DEF Tables
<1>2. [i \in DOMAIN <<e>> |-> r[<<e>>[i]]] = <<r[e]>>
  <2>1. DOMAIN <<e>> = 1..1 /\ <<e>>[1] = e
    OBVIOUS
  <2>2. QED
    BY <2>1
<1>3. QED
  BY <1>1, <1>2, FlatOfOne DEF Spread

LEMMA SpreadOfCat ==
  ASSUME NEW G, NEW H, NEW s \in Seq(G), NEW t \in Seq(G), NEW r \in Tables(G, H)
  PROVE  Spread(Cat(s, t), r) = Cat(Spread(s, r), Spread(t, r))
<1> DEFINE n == Len(s)
           m == Len(t)
           c == Cat(s, t)
           a == [i \in DOMAIN s |-> r[s[i]]]
           b == [i \in DOMAIN t |-> r[t[i]]]
           w == [i \in DOMAIN c |-> r[c[i]]]
<1>1. CatInfo(s, t, G)
  BY CatIs
<1>2. c \in Seq(G) /\ Len(c) = n + m /\ n \in Nat /\ m \in Nat
  BY <1>1 DEF CatInfo
<1>3. a \in [1..n -> Seq(H)] /\ b \in [1..m -> Seq(H)]
  BY SpreadRows
<1>4. w \in [1..(n + m) -> Seq(H)]
  <2> HIDE DEF c
  <2>1. w \in [1..Len(c) -> Seq(H)]
    BY <1>2, SpreadRows
  <2>2. QED
    BY <1>2, <2>1
<1>5. \A i \in 1..n : w[i] = a[i]
  BY <1>1 DEF CatInfo
<1>6. \A i \in 1..m : w[n + i] = b[i]
  <2>1. ASSUME NEW i \in 1..m PROVE w[n + i] = b[i]
    <3>1. n + i \in 1..(n + m)
      BY <1>2
    <3>2. c[n + i] = t[i] /\ n + i \in DOMAIN c /\ i \in DOMAIN t
      BY <1>1, <3>1 DEF CatInfo
    <3>3. QED
      BY <3>2
  <2>2. QED
    BY <2>1
<1>7. Parts(a, n, b, m, w, H)
  <2> HIDE DEF a, b, w, n, m
  <2>1. QED
    BY <1>3, <1>4, <1>5, <1>6 DEF Parts
<1>8. FlattenSeq(w) = Cat(FlattenSeq(a), FlattenSeq(b))
  <2> HIDE DEF a, b, w, n, m
  <2>1. QED
    BY <1>2, <1>7, FlatOfParts
<1>9. QED
  BY <1>8 DEF Spread

LEMMA SpreadOfMore ==
  ASSUME NEW G, NEW H, NEW s \in Seq(G), NEW e \in G, NEW r \in Tables(G, H)
  PROVE  Spread(Cat(s, <<e>>), r) = Cat(Spread(s, r), r[e])
<1> DEFINE x == <<e>>
<1>1. x \in Seq(G) /\ Spread(x, r) = r[e]
  BY SpreadOfOne
<1> HIDE DEF x
<1>2. Spread(Cat(s, x), r) = Cat(Spread(s, r), r[e])
  BY <1>1, SpreadOfCat
<1>3. QED
  BY <1>2 DEF x

\* Spread twice.
Composed(r, q, G) == [x \in G |-> Spread(r[x], q)]

LEMMA ComposedType ==
  ASSUME NEW G, NEW H, NEW K, NEW r \in Tables(G, H), NEW q \in Tables(H, K)
  PROVE  Composed(r, q, G) \in Tables(G, K)
<1>1. ASSUME NEW x \in G PROVE Spread(r[x], q) \in Seq(K)
  <2>1. r[x] \in Seq(H)
    BY DEF Tables
  <2>2. QED
    BY <2>1, SpreadType
<1> DEFINE S == Seq(K)
<1>2. \A x \in G : Spread(r[x], q) \in S
  BY <1>1
<1> HIDE DEF S
<1>3. Composed(r, q, G) \in [G -> S]
  BY <1>2 DEF Composed
<1>4. QED
  BY <1>3 DEF Tables, S

LEMMA SpreadTwice ==
  ASSUME NEW G, NEW H, NEW K, NEW r \in Tables(G, H), NEW q \in Tables(H, K)
  PROVE  \A s \in Seq(G) : Spread(Spread(s, r), q) = Spread(s, Composed(r, q, G))
<1> DEFINE c == Composed(r, q, G)
           T == {s \in Seq(G) : Spread(Spread(s, r), q) = Spread(s, c)}
<1>1. c \in Tables(G, K)
  BY ComposedType
<1>2. \A x \in G : c[x] = Spread(r[x], q)
  BY DEF Composed
<1> HIDE DEF c
<1>3. <<>> \in T
  <2>1. Spread(<<>>, r) = <<>> /\ Spread(<<>>, q) = <<>> /\ Spread(<<>>, c) = <<>>
    BY SpreadOfNone
  <2>2. <<>> \in Seq(G)
    BY EmptySeq
  <2>3. QED
    BY <2>1, <2>2
<1>4. ASSUME NEW s \in Seq(G), NEW e \in G, s \in T PROVE Cat(s, <<e>>) \in T
  <2>2. Cat(s, <<e>>) \in Seq(G)
    BY CatOfOne
  <2>3. Spread(s, r) \in Seq(H) /\ r[e] \in Seq(H)
    BY SpreadType DEF Tables
  <2>4. Spread(Cat(s, <<e>>), r) = Cat(Spread(s, r), r[e])
    BY SpreadOfMore
  <2>5. Spread(Cat(Spread(s, r), r[e]), q) = Cat(Spread(Spread(s, r), q), Spread(r[e], q))
    BY <2>3, SpreadOfCat
  <2>6. Spread(Cat(s, <<e>>), c) = Cat(Spread(s, c), c[e])
    BY <1>1, SpreadOfMore
  <2>7. Spread(Spread(s, r), q) = Spread(s, c) /\ c[e] = Spread(r[e], q)
    BY <1>2, <1>4
  <2>8. Spread(Spread(Cat(s, <<e>>), r), q) = Spread(Cat(s, <<e>>), c)
    BY <2>4, <2>5, <2>6, <2>7, Zenon
  <2>9. QED
    BY <2>2, <2>8
<1> HIDE DEF T
<1>5. \A s \in Seq(G) : s \in T
  BY <1>3, <1>4, BySnoc
<1>6. QED
  BY <1>5 DEF T, c

-----------------------------------------------------------------------------
(* Those of a set, in order.                                                *)

Keeping(G, K) == [x \in G |-> IF x \in K THEN <<x>> ELSE <<>>]

LEMMA KeepingType ==
  ASSUME NEW G, NEW K
  PROVE  Keeping(G, K) \in Tables(G, G) /\ Keeping(G, K) \in Tables(G, K)
<1>1. \A x \in G : (IF x \in K THEN <<x>> ELSE <<>>) \in Seq(G)
  <2>1. \A x \in G : <<x>> \in Seq(G)
    OBVIOUS
  <2>2. <<>> \in Seq(G)
    BY EmptySeq
  <2>3. QED
    BY <2>1, <2>2
<1>2. \A x \in G : (IF x \in K THEN <<x>> ELSE <<>>) \in Seq(K)
  <2>1. \A x \in K : <<x>> \in Seq(K)
    OBVIOUS
  <2>2. <<>> \in Seq(K)
    BY EmptySeq
  <2>3. QED
    BY <2>1, <2>2
<1>3. QED
  BY <1>1, <1>2, Zenon DEF Keeping, Tables

LEMMA OnlyIs ==
  ASSUME NEW G, NEW K, NEW s \in Seq(G)
  PROVE  Only(s, K) = Spread(s, Keeping(G, K))
<1>1. DOMAIN s = 1..Len(s) /\ \A i \in 1..Len(s) : s[i] \in G
  BY LenProperties, ElementOfSeq
<1>2. [i \in DOMAIN s |-> IF s[i] \in K THEN <<s[i]>> ELSE <<>>] = [i \in DOMAIN s |-> Keeping(G, K)[s[i]]]
  BY <1>1 DEF Keeping
<1>3. QED
  BY <1>2 DEF Only, Spread

LEMMA OnlyType ==
  ASSUME NEW G, NEW K, NEW s \in Seq(G)
  PROVE  Only(s, K) \in Seq(G) /\ Only(s, K) \in Seq(K)
<1> DEFINE r == Keeping(G, K)
<1>1. r \in Tables(G, G) /\ r \in Tables(G, K) /\ Only(s, K) = Spread(s, r)
  BY KeepingType, OnlyIs
<1> HIDE DEF r
<1>2. Spread(s, r) \in Seq(G)
  BY <1>1, SpreadType
<1>3. Spread(s, r) \in Seq(K)
  BY <1>1, SpreadType
<1>4. QED
  BY <1>1, <1>2, <1>3

LEMMA OnlyOfNone == ASSUME NEW K PROVE Only(<<>>, K) = <<>>
<1>1. <<>> \in Seq({})
  BY EmptySeq
<1>2. Only(<<>>, K) = Spread(<<>>, Keeping({}, K))
  BY <1>1, OnlyIs
<1>3. QED
  BY <1>2, SpreadOfNone

LEMMA OnlyOfOne ==
  ASSUME NEW K, NEW e
  PROVE  Only(<<e>>, K) = IF e \in K THEN <<e>> ELSE <<>>
<1> DEFINE G == {e}
<1>1. e \in G /\ <<e>> \in Seq(G)
  OBVIOUS
<1>2. Only(<<e>>, K) = Spread(<<e>>, Keeping(G, K))
  BY <1>1, OnlyIs
<1>3. Spread(<<e>>, Keeping(G, K)) = Keeping(G, K)[e]
  <2> HIDE DEF G
  <2>1. QED
    BY <1>1, SpreadOfOne, KeepingType
<1>4. QED
  BY <1>2, <1>3 DEF Keeping

LEMMA OnlyOfCat ==
  ASSUME NEW G, NEW K, NEW s \in Seq(G), NEW t \in Seq(G)
  PROVE  Only(Cat(s, t), K) = Cat(Only(s, K), Only(t, K))
<1> DEFINE r == Keeping(G, K)
<1>1. r \in Tables(G, G) /\ Only(s, K) = Spread(s, r) /\ Only(t, K) = Spread(t, r)
  BY KeepingType, OnlyIs
<1>2. Cat(s, t) \in Seq(G)
  BY CatIs DEF CatInfo
<1>3. Only(Cat(s, t), K) = Spread(Cat(s, t), r)
  BY <1>2, OnlyIs
<1> HIDE DEF r
<1>4. Spread(Cat(s, t), r) = Cat(Spread(s, r), Spread(t, r))
  BY <1>1, SpreadOfCat
<1>5. QED
  BY <1>1, <1>3, <1>4

LEMMA OnlyOfMore ==
  ASSUME NEW G, NEW K, NEW s \in Seq(G), NEW e \in G
  PROVE  Only(Cat(s, <<e>>), K) = IF e \in K THEN Cat(Only(s, K), <<e>>) ELSE Only(s, K)
<1> DEFINE x == <<e>>
<1>1. x \in Seq(G) /\ Only(x, K) = (IF e \in K THEN x ELSE <<>>)
  BY OnlyOfOne
<1> HIDE DEF x
<1>2. Only(Cat(s, x), K) = Cat(Only(s, K), Only(x, K))
  BY <1>1, OnlyOfCat
<1>3. Cat(Only(s, K), <<>>) = Only(s, K)
  BY OnlyType, CatOfNone
<1>4. Only(Cat(s, x), K) = IF e \in K THEN Cat(Only(s, K), x) ELSE Only(s, K)
  BY <1>1, <1>2, <1>3
<1>5. QED
  BY <1>4 DEF x

\* All of them, or none.
LEMMA OnlyOfAll ==
  ASSUME NEW K, NEW s \in Seq(K)
  PROVE  Only(s, K) = s
<1> DEFINE T == {q \in Seq(K) : Only(q, K) = q}
<1>1. <<>> \in T
  BY OnlyOfNone, EmptySeq
<1>2. ASSUME NEW q \in Seq(K), NEW e \in K, q \in T PROVE Cat(q, <<e>>) \in T
  <2>1. Cat(q, <<e>>) \in Seq(K)
    BY CatOfOne
  <2>2. Only(q, K) = q
    BY <1>2
  <2>3. Only(Cat(q, <<e>>), K) = Cat(Only(q, K), <<e>>)
    BY OnlyOfMore
  <2>4. QED
    BY <2>1, <2>2, <2>3
<1> HIDE DEF T
<1>3. \A q \in Seq(K) : q \in T
  BY <1>1, <1>2, BySnoc
<1>4. QED
  BY <1>3 DEF T

LEMMA OnlyOfOthers ==
  ASSUME NEW G, NEW K, NEW s \in Seq(G), G \cap K = {}
  PROVE  Only(s, K) = <<>>
<1> DEFINE T == {q \in Seq(G) : Only(q, K) = <<>>}
<1>1. <<>> \in T
  BY OnlyOfNone, EmptySeq
<1>2. ASSUME NEW q \in Seq(G), NEW e \in G, q \in T PROVE Cat(q, <<e>>) \in T
  <2>1. Cat(q, <<e>>) \in Seq(G)
    BY CatOfOne
  <2>2. Only(q, K) = <<>> /\ ~(e \in K)
    BY <1>2
  <2>3. Only(Cat(q, <<e>>), K) = Only(q, K)
    BY <2>2, OnlyOfMore
  <2>4. QED
    BY <2>1, <2>2, <2>3
<1> HIDE DEF T
<1>3. \A q \in Seq(G) : q \in T
  BY <1>1, <1>2, BySnoc
<1>4. QED
  BY <1>3 DEF T

\* Two tables that are one on what a sequence has spread it alike.
LEMMA SpreadAlike ==
  ASSUME NEW G, NEW s \in Seq(G), NEW r, NEW q, \A x \in G : r[x] = q[x]
  PROVE  Spread(s, r) = Spread(s, q)
<1>1. DOMAIN s = 1..Len(s) /\ \A i \in 1..Len(s) : s[i] \in G
  BY LenProperties, ElementOfSeq
<1>2. [i \in DOMAIN s |-> r[s[i]]] = [i \in DOMAIN s |-> q[s[i]]]
  BY <1>1
<1>3. QED
  BY <1>2 DEF Spread

\* Flattening is spreading each to itself.
Itself(G) == [x \in Seq(G) |-> x]

LEMMA FlatIsSpread ==
  ASSUME NEW G, NEW L \in Rows(G)
  PROVE  FlattenSeq(L) = Spread(L, Itself(G)) /\ Itself(G) \in Tables(Seq(G), G)
<1> DEFINE S == Seq(G)
<1>1. DOMAIN L = 1..Len(L) /\ (\A i \in 1..Len(L) : L[i] \in S) /\ L = [i \in 1..Len(L) |-> L[i]]
  <2> HIDE DEF S
  <2>1. L \in Seq(S)
    BY DEF Rows, S
  <2>2. QED
    BY <2>1, LenProperties, ElementOfSeq
<1>2. Itself(G) = [x \in S |-> x]
  BY DEF Itself
<1> HIDE DEF S
<1>3. [i \in DOMAIN L |-> Itself(G)[L[i]]] = L
  BY <1>1, <1>2
<1>4. Itself(G) \in [S -> S]
  BY <1>2
<1>5. QED
  BY <1>3, <1>4 DEF Spread, Tables, S

-----------------------------------------------------------------------------
(* The last place of a token, and what is between two of them.              *)

\* A bounded set of naturals that has a member has a greatest one.
LEMMA Greatest ==
  ASSUME NEW n \in Nat, NEW T \in SUBSET (1..n), T # {}
  PROVE  \E l \in T : \A j \in T : j <= l
<1> DEFINE U == {n - j : j \in T}
<1>1. U \in SUBSET Nat /\ U # {}
  <2>1. \A j \in T : n - j \in Nat
    OBVIOUS
  <2>2. PICK j \in T : TRUE
    OBVIOUS
  <2>3. QED
    BY <2>1, <2>2
<1>2. PICK u \in U : \A m \in U : u <= m
  <2> HIDE DEF U
  <2>1. QED
    BY <1>1, Least
<1>3. PICK l \in T : u = n - l
  OBVIOUS
<1>4. ASSUME NEW j \in T PROVE j <= l
  <2>1. n - l <= n - j /\ j \in 1..n /\ l \in 1..n
    BY <1>2, <1>3
  <2>2. QED
    BY <2>1
<1>5. QED
  BY <1>4

IsLast(l, s, token, before) ==
  /\ l \in 0..Len(s)
  /\ l # 0 => l < before /\ s[l] = token
  /\ \A i \in 1..Len(s) : i < before /\ s[i] = token => i <= l

LEMMA LastBeforeIs ==
  ASSUME NEW G, NEW s \in Seq(G), NEW token, NEW before \in Nat
  PROVE  IsLast(LastBefore(s, token, before), s, token, before)
<1> DEFINE places == {i \in DOMAIN s : i < before /\ s[i] = token}
<1>1. DOMAIN s = 1..Len(s) /\ Len(s) \in Nat
  BY LenProperties
<1>2. CASE places = {}
  BY <1>1, <1>2 DEF IsLast, LastBefore
<1>3. CASE places # {}
  <2> DEFINE l == CHOOSE i \in places : \A j \in places : j <= i
  <2>1. \E i \in places : \A j \in places : j <= i
    BY <1>1, <1>3, Greatest
  <2>2. l \in places /\ \A j \in places : j <= l
    BY <2>1
  <2>3. LastBefore(s, token, before) = l
    BY <1>3 DEF LastBefore
  <2> HIDE DEF l
  <2>4. QED
    BY <1>1, <2>2, <2>3 DEF IsLast
<1>4. QED
  BY <1>2, <1>3

LEMMA OneLast ==
  ASSUME NEW G, NEW s \in Seq(G), NEW token, NEW before \in Nat, NEW l, IsLast(l, s, token, before)
  PROVE  LastBefore(s, token, before) = l
<1> DEFINE k == LastBefore(s, token, before)
<1>1. IsLast(k, s, token, before) /\ Len(s) \in Nat
  BY LastBeforeIs, LenProperties
<1> HIDE DEF k
<1>2. k <= l /\ l <= k /\ k \in Nat /\ l \in Nat
  BY <1>1 DEF IsLast
<1>3. QED
  BY <1>2 DEF k

\* Of a text with one token more.
LEMMA LastBeforeOfMore ==
  ASSUME NEW G, NEW s \in Seq(G), NEW c \in G, NEW token, NEW b \in Nat
  PROVE  LastBefore(Cat(s, <<c>>), token, b) =
           IF c = token /\ Len(s) + 1 < b THEN Len(s) + 1 ELSE LastBefore(s, token, b)
<1> DEFINE w == Cat(s, <<c>>)
           n == Len(s)
           k == LastBefore(s, token, b)
           l == IF c = token /\ n + 1 < b THEN n + 1 ELSE k
<1>1. w \in Seq(G) /\ Len(w) = n + 1 /\ w[n + 1] = c /\ n \in Nat
  BY CatOfOne, LenProperties
<1>2. \A i \in 1..n : w[i] = s[i]
  BY CatOfOne DEF CatInfo
<1>3. IsLast(k, s, token, b)
  BY LastBeforeIs
<1> HIDE DEF w, k, n
<1>4. IsLast(l, w, token, b)
  <2>1. k \in 0..n /\ (k # 0 => k < b /\ s[k] = token) /\ \A i \in 1..n : i < b /\ s[i] = token => i <= k
    BY <1>3 DEF IsLast, n
  <2>2. l \in 0..(n + 1)
    BY <1>1, <2>1
  <2>3. l # 0 => l < b /\ w[l] = token
    <3>1. CASE c = token /\ n + 1 < b
      BY <1>1, <3>1
    <3>2. CASE ~(c = token /\ n + 1 < b)
      <4>1. l = k
        BY <3>2
      <4>2. k # 0 => k \in 1..n
        BY <1>1, <2>1
      <4>3. QED
        BY <1>2, <2>1, <4>1, <4>2
    <3>3. QED
      BY <3>1, <3>2
  <2>4. ASSUME NEW i \in 1..(n + 1), i < b, w[i] = token PROVE i <= l
    <3>1. CASE i = n + 1
      <4>1. c = token /\ n + 1 < b
        BY <1>1, <2>4, <3>1
      <4>2. l = n + 1
        BY <4>1
      <4>3. i = l
        BY <3>1, <4>2, Zenon
      <4>5. i \in Nat
        <5>1. n \in Nat
          BY <1>1
        <5>2. QED
          BY <5>1
      <4> HIDE DEF l
      <4>4. QED
        BY <4>3
    <3>2. CASE i # n + 1
      <4>1. i \in 1..n
        BY <1>1, <3>2
      <4>2. i <= k /\ k <= l
        BY <1>1, <1>2, <2>1, <2>4, <4>1
      <4>3. QED
        BY <1>1, <2>1, <2>2, <4>1, <4>2
    <3>3. QED
      BY <3>1, <3>2
  <2> HIDE DEF l
  <2>5. QED
    BY <1>1, <2>2, <2>3, <2>4 DEF IsLast
<1>5. LastBefore(w, token, b) = l
  <2> HIDE DEF l
  <2>1. QED
    BY <1>1, <1>4, OneLast
<1>6. QED
  BY <1>5 DEF w, k, n

\* A part of a text, and of the text with one token more.
LEMMA PartOfMore ==
  ASSUME NEW G, NEW s \in Seq(G), NEW c \in G, NEW a \in 1..(Len(s) + 1)
  PROVE  /\ \A b \in 0..Len(s) : SubSeq(Cat(s, <<c>>), a, b) = SubSeq(s, a, b)
         /\ SubSeq(Cat(s, <<c>>), a, Len(s) + 1) = Cat(SubSeq(s, a, Len(s)), <<c>>)
<1> DEFINE w == Cat(s, <<c>>)
           n == Len(s)
<1>1. w \in Seq(G) /\ Len(w) = n + 1 /\ w[n + 1] = c /\ n \in Nat
  BY CatOfOne, LenProperties
<1>2. \A i \in 1..n : w[i] = s[i] /\ s[i] \in G
  BY CatOfOne, ElementOfSeq DEF CatInfo
<1> HIDE DEF w
<1>3. ASSUME NEW b \in 0..n PROVE SubSeq(w, a, b) = SubSeq(s, a, b)
  <2>1. \A i \in a..b : i \in 1..n /\ w[i] \in G /\ s[i] \in G /\ w[i] = s[i]
    BY <1>1, <1>2
  <2>2. a \in Int /\ b \in Int
    BY <1>1
  <2>3. a..b = {} => SubSeq(w, a, b) = <<>> /\ SubSeq(s, a, b) = <<>>
    <3>1. a..b = {} => a > b
      BY <2>2
    <3>2. QED
      BY <2>2, <3>1, SubSeqEmpty
  <2>4. CASE a <= b
    <3>1. a..b \subseteq 1..Len(w) /\ a..b \subseteq 1..Len(s)
      BY <1>1, <2>1
    <3> QED
      BY <1>1, <2>1, <2>2, <2>4, <3>1
  <2>5. QED
    BY <2>2, <2>3, <2>4
<1>4. SubSeq(w, a, n + 1) = Cat(SubSeq(s, a, n), <<c>>)
  <2>1. a \in 1..Len(w) /\ n + 1 \in a..Len(w)
    BY <1>1
  <2>2. SubSeq(w, a, n + 1) = SubSeq(w, a, n) \o <<c>>
    <3>1. w \in Seq(G) /\ (n + 1) - 1 = n /\ w[n + 1] = c
      BY <1>1
    <3>2. SubSeq(w, a, n + 1) = SubSeq(w, a, (n + 1) - 1) \o <<w[n + 1]>>
      BY <2>1, <3>1, SubSeqRecursiveSecond
    <3>3. QED
      BY <3>1, <3>2
  <2>3. SubSeq(w, a, n) = SubSeq(s, a, n)
    BY <1>1, <1>3
  <2>4. QED
    BY <2>2, <2>3 DEF Cat
<1>5. QED
  BY <1>3, <1>4 DEF w

LEMMA PartType ==
  ASSUME NEW G, NEW s \in Seq(G), NEW a \in Nat \ {0}, NEW b \in 0..Len(s)
  PROVE  SubSeq(s, a, b) \in Seq(G)
<1>1. \A i \in a..b : s[i] \in G
  BY ElementOfSeq, LenProperties
<1>2. QED
  BY <1>1, SubSeqProperties

\* What is behind the last separator.
Rest(s, separator) == SubSeq(s, LastBefore(s, separator, Len(s) + 1) + 1, Len(s))

LEMMA RestOfMore ==
  ASSUME NEW G, NEW s \in Seq(G), NEW c \in G, NEW separator
  PROVE  Rest(Cat(s, <<c>>), separator) = IF c = separator THEN <<>> ELSE Cat(Rest(s, separator), <<c>>)
<1> DEFINE w == Cat(s, <<c>>)
           n == Len(s)
           k == LastBefore(s, separator, n + 1)
<1>1. w \in Seq(G) /\ Len(w) = n + 1 /\ n \in Nat /\ n + 2 \in Nat /\ n + 1 + 1 = n + 2 /\ n + 1 < n + 2
  BY CatOfOne, LenProperties
<1>2. IsLast(k, s, separator, n + 1) /\ IsLast(LastBefore(s, separator, n + 2), s, separator, n + 2)
  BY <1>1, LastBeforeIs
<1>3. k \in 0..n
  BY <1>2 DEF IsLast
<1>4. LastBefore(s, separator, n + 2) = k
  <2> DEFINE j == LastBefore(s, separator, n + 2)
  <2>1. IsLast(j, s, separator, n + 2)
    BY <1>2
  <2>2. IsLast(j, s, separator, n + 1)
    <3> HIDE DEF j
    <3>1. QED
      BY <1>1, <2>1 DEF IsLast
  <2>3. n + 1 \in Nat
    BY <1>1
  <2> HIDE DEF j
  <2>4. QED
    BY <2>2, <2>3, OneLast DEF j
<1>5. LastBefore(w, separator, n + 2) = IF c = separator THEN n + 1 ELSE k
  BY <1>1, <1>4, LastBeforeOfMore
<1>6. Rest(w, separator) = SubSeq(w, LastBefore(w, separator, n + 2) + 1, n + 1)
  BY <1>1 DEF Rest
<1>7. CASE c = separator
  <2>1. Rest(w, separator) = SubSeq(w, n + 2, n + 1)
    BY <1>1, <1>5, <1>6, <1>7
  <2>2. SubSeq(w, n + 2, n + 1) = <<>>
    BY <1>1, SubSeqEmpty
  <2>3. QED
    BY <1>7, <2>1, <2>2
<1>8. CASE c # separator
  <2>1. Rest(w, separator) = SubSeq(w, k + 1, n + 1)
    BY <1>5, <1>6, <1>8
  <2>2. k + 1 \in 1..(n + 1)
    BY <1>1, <1>3
  <2>3. SubSeq(w, k + 1, n + 1) = Cat(SubSeq(s, k + 1, n), <<c>>)
    BY <2>2, PartOfMore
  <2>4. QED
    BY <1>8, <2>1, <2>3 DEF Rest
<1>9. QED
  BY <1>7, <1>8

LEMMA RestOfNone == ASSUME NEW separator PROVE Rest(<<>>, separator) = <<>>
<1>1. Len(<<>>) = 0 /\ LastBefore(<<>>, separator, 1) = 0
  BY DEF LastBefore
<1>2. SubSeq(<<>>, 1, 0) = <<>>
  BY SubSeqEmpty
<1>3. QED
  BY <1>1, <1>2 DEF Rest

\* It has no separator.
LEMMA RestType ==
  ASSUME NEW G, NEW s \in Seq(G), NEW separator
  PROVE  Rest(s, separator) \in Seq(G \ {separator})
<1> DEFINE K == G \ {separator}
           T == {q \in Seq(G) : Rest(q, separator) \in Seq(K)}
<1>1. <<>> \in T
  <2>1. <<>> \in Seq(G) /\ <<>> \in Seq(K)
    BY EmptySeq
  <2>2. QED
    BY <2>1, RestOfNone
<1>2. ASSUME NEW q \in Seq(G), NEW e \in G, q \in T PROVE Cat(q, <<e>>) \in T
  <2>1. Cat(q, <<e>>) \in Seq(G)
    BY CatOfOne
  <2>2. Rest(q, separator) \in Seq(K)
    BY <1>2
  <2>3. Rest(Cat(q, <<e>>), separator) = IF e = separator THEN <<>> ELSE Cat(Rest(q, separator), <<e>>)
    BY RestOfMore
  <2>4. CASE e = separator
    BY <2>1, <2>3, <2>4, EmptySeq
  <2>5. CASE e # separator
    <3>1. e \in K
      BY <2>5
    <3> HIDE DEF K
    <3>2. Cat(Rest(q, separator), <<e>>) \in Seq(K)
      BY <2>2, <3>1, CatOfOne
    <3>3. QED
      BY <2>1, <2>3, <2>5, <3>2
  <2>6. QED
    BY <2>4, <2>5
<1> HIDE DEF T
<1>3. \A q \in Seq(G) : q \in T
  BY <1>1, <1>2, BySnoc
<1>4. QED
  BY <1>3 DEF T

\* The pieces before the last token are the same.
PiecesKept(s, c, separator) ==
  \A i \in 1..Len(s) : PieceAt(Cat(s, <<c>>), separator, i) = PieceAt(s, separator, i)

LEMMA PieceOfMore ==
  ASSUME NEW G, NEW s \in Seq(G), NEW c \in G, NEW separator
  PROVE  /\ PiecesKept(s, c, separator)
         /\ PieceAt(Cat(s, <<c>>), separator, Len(s) + 1) =
              IF c = separator THEN Rest(s, separator) ELSE Cat(Rest(s, separator), <<c>>)
<1> DEFINE w == Cat(s, <<c>>)
           n == Len(s)
<1>1. w \in Seq(G) /\ Len(w) = n + 1 /\ n \in Nat /\ w[n + 1] = c /\ n + 1 \in Nat
  BY CatOfOne, LenProperties
<1>2. \A i \in 1..n : w[i] = s[i]
  BY CatOfOne DEF CatInfo
<1>3. \A i \in 1..(n + 1) : LastBefore(w, separator, i) = LastBefore(s, separator, i)
  <2>1. ASSUME NEW i \in 1..(n + 1) PROVE LastBefore(w, separator, i) = LastBefore(s, separator, i)
    <3>1. i \in Nat /\ ~(n + 1 < i)
      BY <1>1
    <3>2. LastBefore(w, separator, i) = IF c = separator /\ n + 1 < i THEN n + 1 ELSE LastBefore(s, separator, i)
      BY <3>1, LastBeforeOfMore
    <3>3. QED
      BY <3>1, <3>2
  <2>2. QED
    BY <2>1
<1>4. \A i \in 1..(n + 1) : LastBefore(s, separator, i) + 1 \in 1..(n + 1)
  <2>1. ASSUME NEW i \in 1..(n + 1) PROVE LastBefore(s, separator, i) + 1 \in 1..(n + 1)
    <3>1. i \in Nat
      BY <1>1
    <3>2. IsLast(LastBefore(s, separator, i), s, separator, i)
      BY <3>1, LastBeforeIs
    <3>3. QED
      BY <1>1, <3>2 DEF IsLast
  <2>2. QED
    BY <2>1
<1>5. ASSUME NEW i \in 1..n PROVE PieceAt(w, separator, i) = PieceAt(s, separator, i)
  <2> DEFINE a == LastBefore(s, separator, i) + 1
             b == IF s[i] = separator THEN i - 1 ELSE i
  <2>1. i \in 1..(n + 1) /\ b \in 0..n /\ w[i] = s[i]
    BY <1>1, <1>2
  <2>2. a \in 1..(n + 1) /\ LastBefore(w, separator, i) + 1 = a
    BY <1>3, <1>4, <2>1
  <2>3. PieceAt(w, separator, i) = SubSeq(w, a, b) /\ PieceAt(s, separator, i) = SubSeq(s, a, b)
    BY <2>1, <2>2 DEF PieceAt
  <2> HIDE DEF a, b
  <2>4. SubSeq(w, a, b) = SubSeq(s, a, b)
    BY <2>1, <2>2, PartOfMore
  <2>5. QED
    BY <2>3, <2>4
<1>6. PieceAt(w, separator, n + 1) = IF c = separator THEN Rest(s, separator) ELSE Cat(Rest(s, separator), <<c>>)
  <2> DEFINE a == LastBefore(s, separator, n + 1) + 1
  <2>1. a \in 1..(n + 1) /\ LastBefore(w, separator, n + 1) + 1 = a /\ n + 1 - 1 = n /\ n \in 0..n
    <3>1. n + 1 \in 1..(n + 1)
      BY <1>1
    <3>2. QED
      BY <1>1, <1>3, <1>4, <3>1
  <2>2. PieceAt(w, separator, n + 1) = SubSeq(w, a, IF c = separator THEN n ELSE n + 1)
    BY <1>1, <2>1 DEF PieceAt
  <2>3. Rest(s, separator) = SubSeq(s, a, n)
    BY DEF Rest
  <2> HIDE DEF a
  <2>4. SubSeq(w, a, n) = SubSeq(s, a, n) /\ SubSeq(w, a, n + 1) = Cat(SubSeq(s, a, n), <<c>>)
    BY <2>1, PartOfMore
  <2>5. QED
    BY <2>2, <2>3, <2>4
<1>7. QED
  BY <1>5, <1>6 DEF w, n, PiecesKept

-----------------------------------------------------------------------------
\* Rows that grow by one.
LEMMA FlatOfRow ==
  ASSUME NEW G, NEW n \in Nat, NEW v \in [1..n -> Seq(G)], NEW w \in [1..(n + 1) -> Seq(G)],
         \A i \in 1..n : w[i] = v[i]
  PROVE  FlattenSeq(w) = Cat(FlattenSeq(v), w[n + 1])
<1> DEFINE S == Seq(G)
           x == w[n + 1]
           t == [i \in 1..1 |-> x]
<1>1. n + 1 \in 1..(n + 1)
  OBVIOUS
<1>2. x \in S
  BY <1>1
<1>3. t \in [1..1 -> S] /\ t = <<x>> /\ \A i \in 1..1 : w[n + i] = t[i]
  <2> HIDE DEF S
  <2>1. QED
    BY <1>2
<1> HIDE DEF x, t
<1>4. Parts(v, n, t, 1, w, G)
  BY <1>3 DEF Parts, S
<1>5. 1 \in Nat
  OBVIOUS
<1>6. FlattenSeq(w) = Cat(FlattenSeq(v), FlattenSeq(t))
  BY <1>4, <1>5, FlatOfParts
<1>7. FlattenSeq(t) = x
  BY <1>2, <1>3, FlatOfOne DEF S
<1>8. QED
  BY <1>6, <1>7 DEF x

-----------------------------------------------------------------------------
(* Trimmed.                                                                 *)

LEMMA TrimOfNone == ASSUME NEW token PROVE TrimEnd(<<>>, token) = <<>>
<1>1. SubSeq(<<>>, 1, 0) = <<>>
  BY SubSeqEmpty
<1>2. QED
  BY <1>1 DEF TrimEnd

\* The last place of something else, 0 for none.
IsKept(l, s, token) ==
  /\ l \in 0..Len(s)
  /\ l # 0 => s[l] # token
  /\ \A i \in 1..Len(s) : s[i] # token => i <= l

LEMMA TrimIs ==
  ASSUME NEW G, NEW s \in Seq(G), NEW token
  PROVE  /\ \E l : IsKept(l, s, token) /\ TrimEnd(s, token) = SubSeq(s, 1, l)
         /\ \A l, k : IsKept(l, s, token) /\ IsKept(k, s, token) => l = k
<1> DEFINE kept == {i \in DOMAIN s : s[i] # token}
<1>1. DOMAIN s = 1..Len(s) /\ Len(s) \in Nat
  BY LenProperties
<1>2. CASE kept = {}
  <2>1. IsKept(0, s, token)
    BY <1>1, <1>2 DEF IsKept
  <2>2. TrimEnd(s, token) = SubSeq(s, 1, 0)
    BY <1>2 DEF TrimEnd
  <2>3. QED
    BY <2>1, <2>2, <1>1 DEF IsKept
<1>3. CASE kept # {}
  <2> DEFINE l == CHOOSE i \in kept : \A j \in kept : j <= i
  <2>1. \E i \in kept : \A j \in kept : j <= i
    BY <1>1, <1>3, Greatest
  <2>2. l \in kept /\ \A j \in kept : j <= l
    BY <2>1
  <2>3. TrimEnd(s, token) = SubSeq(s, 1, l)
    BY <1>3 DEF TrimEnd
  <2> HIDE DEF l
  <2>4. IsKept(l, s, token)
    BY <1>1, <2>2 DEF IsKept
  <2>5. QED
    BY <1>1, <2>3, <2>4 DEF IsKept
<1>4. QED
  BY <1>2, <1>3

LEMMA TrimOfMore ==
  ASSUME NEW G, NEW s \in Seq(G), NEW c \in G, NEW token
  PROVE  TrimEnd(Cat(s, <<c>>), token) = IF c = token THEN TrimEnd(s, token) ELSE Cat(s, <<c>>)
<1> DEFINE w == Cat(s, <<c>>)
           n == Len(s)
<1>1. w \in Seq(G) /\ Len(w) = n + 1 /\ n \in Nat /\ w[n + 1] = c /\ n + 1 \in Nat
  BY CatOfOne, LenProperties
<1>2. \A i \in 1..n : w[i] = s[i]
  BY CatOfOne DEF CatInfo
<1> HIDE DEF w
<1>3. PICK l : IsKept(l, w, token) /\ TrimEnd(w, token) = SubSeq(w, 1, l)
  BY <1>1, TrimIs
<1>4. CASE c = token
  <2>1. IsKept(l, s, token)
    <3>1. l \in 0..(n + 1) /\ (l # 0 => w[l] # token) /\ \A i \in 1..(n + 1) : w[i] # token => i <= l
      BY <1>1, <1>3 DEF IsKept
    <3>2. l # n + 1
      BY <1>1, <1>4, <3>1
    <3>3. l \in 0..n /\ (l # 0 => s[l] # token)
      BY <1>1, <1>2, <3>1, <3>2
    <3>4. \A i \in 1..n : s[i] # token => i <= l
      BY <1>1, <1>2, <3>1
    <3>5. QED
      BY <3>3, <3>4 DEF IsKept
  <2>2. PICK k : IsKept(k, s, token) /\ TrimEnd(s, token) = SubSeq(s, 1, k)
    BY TrimIs
  <2>3. k = l /\ l \in 0..n
    <3>1. k = l
      BY <2>1, <2>2, TrimIs
    <3>2. QED
      BY <2>1, <3>1 DEF IsKept
  <2>4. SubSeq(w, 1, l) = SubSeq(s, 1, l)
    <3>1. 1 \in 1..(n + 1)
      BY <1>1
    <3>2. QED
      BY <2>3, <3>1, PartOfMore DEF w
  <2>5. QED
    BY <1>3, <1>4, <2>2, <2>3, <2>4 DEF w
<1>5. CASE c # token
  <2>1. l = n + 1
    <3>1. l \in 0..(n + 1) /\ \A i \in 1..(n + 1) : w[i] # token => i <= l
      BY <1>1, <1>3 DEF IsKept
    <3>2. n + 1 <= l
      BY <1>1, <1>5, <3>1
    <3>3. QED
      BY <1>1, <3>1, <3>2
  <2>2. SubSeq(w, 1, l) = w
    BY <1>1, <2>1, SubSeqFull
  <2>3. QED
    BY <1>3, <1>5, <2>2 DEF w
<1>6. QED
  BY <1>4, <1>5

LEMMA TrimType ==
  ASSUME NEW G, NEW s \in Seq(G), NEW token
  PROVE  TrimEnd(s, token) \in Seq(G)
<1>1. PICK l : IsKept(l, s, token) /\ TrimEnd(s, token) = SubSeq(s, 1, l)
  BY TrimIs
<1>2. l \in 0..Len(s)
  BY <1>1 DEF IsKept
<1>3. QED
  BY <1>1, <1>2, PartType

\* A table with a row more.
LEMMA CatOfRow ==
  ASSUME NEW G, NEW n \in Nat, NEW p \in [1..n -> G], NEW x \in G, NEW r \in [1..(n + 1) -> G],
         \A i \in 1..n : r[i] = p[i], r[n + 1] = x
  PROVE  r = Cat(p, <<x>>)
<1>1. p \in Seq(G) /\ Len(p) = n /\ r \in Seq(G) /\ Len(r) = n + 1 /\ n + 1 \in Nat
  BY Tabled
<1> DEFINE c == Cat(p, <<x>>)
<1>2. c \in Seq(G) /\ Len(c) = n + 1 /\ c[n + 1] = x /\ \A i \in 1..n : c[i] = p[i]
  <2>1. p \in Seq(G) /\ Len(p) = n
    BY <1>1
  <2>2. Cat(p, <<x>>) \in Seq(G) /\ Len(Cat(p, <<x>>)) = Len(p) + 1 /\ Cat(p, <<x>>)[Len(p) + 1] = x
        /\ CatInfo(p, <<x>>, G)
    BY <2>1, CatOfOne
  <2>3. QED
    BY <2>1, <2>2, Zenon DEF CatInfo
<1> HIDE DEF c
<1>3. ASSUME NEW i \in 1..(n + 1) PROVE r[i] = c[i]
  <2>1. CASE i = n + 1
    BY <1>2, <2>1
  <2>2. CASE i # n + 1
    <3>1. i \in 1..n
      BY <2>2
    <3>2. QED
      BY <1>2, <3>1
  <2>3. QED
    BY <2>1, <2>2
<1>4. r = c
  BY <1>1, <1>2, <1>3, Alike
<1>5. QED
  BY <1>4 DEF c

LEMMA PieceType ==
  ASSUME NEW G, NEW s \in Seq(G), NEW separator, NEW i \in 1..Len(s)
  PROVE  PieceAt(s, separator, i) \in Seq(G)
<1>1. Len(s) \in Nat /\ i \in Nat
  BY LenProperties
<1>2. IsLast(LastBefore(s, separator, i), s, separator, i)
  BY <1>1, LastBeforeIs
<1>3. LastBefore(s, separator, i) + 1 \in Nat \ {0}
  BY <1>1, <1>2 DEF IsLast
<1>4. (IF s[i] = separator THEN i - 1 ELSE i) \in 0..Len(s)
  BY <1>1
<1>5. QED
  BY <1>3, <1>4, PartType DEF PieceAt

\* A sequence that is not empty is one with an element more.
LEMMA MoreOf ==
  ASSUME NEW G, NEW s \in Seq(G), s # <<>>
  PROVE  /\ Len(s) \in Nat \ {0} /\ s[Len(s)] \in G
         /\ SubSeq(s, 1, Len(s) - 1) \in Seq(G)
         /\ s = Cat(SubSeq(s, 1, Len(s) - 1), <<s[Len(s)]>>)
<1>1. Len(s) \in Nat \ {0}
  BY LenProperties, EmptySeq
<1>2. s[Len(s)] \in G
  BY <1>1, ElementOfSeq
<1>3. SubSeq(s, 1, Len(s) - 1) \in Seq(G)
  <2>1. 1 \in Nat \ {0} /\ Len(s) - 1 \in 0..Len(s)
    BY <1>1
  <2>2. QED
    BY <2>1, PartType
<1>4. s = SubSeq(s, 1, Len(s) - 1) \o <<s[Len(s)]>>
  <2>1. 1 \in 1..Len(s) /\ Len(s) \in 1..Len(s)
    BY <1>1
  <2>2. SubSeq(s, 1, Len(s)) = s
    BY SubSeqFull
  <2>3. QED
    BY <2>1, <2>2, SubSeqRecursiveSecond
<1>5. QED
  BY <1>1, <1>2, <1>3, <1>4 DEF Cat

LEMMA FlatOfNothing ==
  ASSUME NEW n \in Nat, NEW v \in [1..n -> {<<>>}]
  PROVE  FlattenSeq(v) = <<>>
<1> DEFINE f == [i \in 0..n |-> <<>>]
           G == {}
<1>1. <<>> \in Seq(G) /\ Cat(<<>>, <<>>) = <<>>
  BY EmptySeq, CatOfNone
<1> HIDE DEF G
<1>2. v \in [1..n -> Seq(G)] /\ f \in [0..n -> Seq(G)]
  BY <1>1
<1>3. Joins(f, v, n, G)
  <2>1. \A i \in 1..n : f[i] = <<>> /\ f[i - 1] = <<>> /\ v[i] = <<>>
    OBVIOUS
  <2>2. \A i \in 1..n : f[i] = f[i - 1] \o v[i]
    BY <1>1, <2>1 DEF Cat
  <2>3. f[0] = <<>>
    OBVIOUS
  <2> HIDE DEF f
  <2>4. QED
    BY <1>2, <2>2, <2>3 DEF Joins
<1>4. FlattenSeq(v) = f[n]
  <2> HIDE DEF f
  <2>1. QED
    BY <1>2, <1>3, FlatIs
<1>5. QED
  BY <1>4

LEMMA CutInTwo ==
  ASSUME NEW G, NEW u \in Seq(G), NEW i \in 0..Len(u)
  PROVE  /\ SubSeq(u, 1, i) \in Seq(G) /\ SubSeq(u, i + 1, Len(u)) \in Seq(G)
         /\ u = Cat(SubSeq(u, 1, i), SubSeq(u, i + 1, Len(u)))
         /\ Len(SubSeq(u, 1, i)) = i /\ \A j \in 1..i : SubSeq(u, 1, i)[j] = u[j]
<1>1. Len(u) \in Nat /\ \A j \in 1..Len(u) : u[j] \in G
  BY LenProperties, ElementOfSeq
<1>2. SubSeq(u, 1, i) \in Seq(G) /\ SubSeq(u, i + 1, Len(u)) \in Seq(G)
  <2>1. 1 \in Nat \ {0} /\ i + 1 \in Nat \ {0} /\ Len(u) \in 0..Len(u)
    BY <1>1
  <2>2. QED
    BY <2>1, PartType
<1>3. SubSeq(u, 1, i) \o SubSeq(u, i + 1, Len(u)) = SubSeq(u, 1, Len(u))
  <2>1. 1 \in 1..(Len(u) + 1) /\ i \in (1 - 1)..Len(u) /\ Len(u) \in i..Len(u)
    BY <1>1
  <2>2. QED
    BY <2>1, ConcatAdjacentSubSeq
<1>4. SubSeq(u, 1, Len(u)) = u
  BY SubSeqFull
<1>5. Len(SubSeq(u, 1, i)) = i /\ \A j \in 1..i : SubSeq(u, 1, i)[j] = u[j]
  <2>1. 1 \in Int /\ i \in Int /\ \A j \in 1..i : u[j] \in G
    BY <1>1
  <2>2. /\ Len(SubSeq(u, 1, i)) = IF 1 <= i THEN i - 1 + 1 ELSE 0
        /\ \A j \in 1..(i - 1 + 1) : SubSeq(u, 1, i)[j] = u[1 + j - 1]
    BY <2>1, SubSeqProperties
  <2>3. i \in Nat /\ i - 1 + 1 = i /\ \A j \in 1..i : 1 + j - 1 = j
    BY <1>1
  <2>4. QED
    BY <2>2, <2>3
<1>6. QED
  BY <1>2, <1>3, <1>4, <1>5 DEF Cat

-----------------------------------------------------------------------------
(* The git facts.                                                           *)

GitSpec == GitInit /\ [][GitNext]_gitVars

\* A branch's tip is one of those it had, and so is the commit gathered for it.
GitInv ==
  /\ heads \in [Branches -> Nat] /\ tags \in [Branches -> Nat] /\ tips \in [Branches -> SUBSET Nat]
  /\ \A b \in Branches : heads[b] \in tips[b] \cup {0}
  /\ head \in Branches \cup {"HEAD"} /\ at \in Nat
  /\ meta = [pc |-> meta.pc, asked |-> meta.asked, name |-> meta.name, commit |-> meta.commit,
             url |-> meta.url, repo |-> meta.repo, tagged |-> meta.tagged]
  /\ meta.asked \in Branches \cup {""} /\ meta.name \in Branches \cup {"HEAD", ""}
  /\ meta.pc = "done" /\ meta.name \in Branches /\ ~meta.tagged => meta.commit \in tips[meta.name] \cup {0}

LEMMA GitKept == GitInv /\ [GitNext]_gitVars => GitInv'
<1> SUFFICES ASSUME GitInv, [GitNext]_gitVars PROVE GitInv'
  OBVIOUS
<1>0. \A c \in 2..MaxCommit : c \in Nat
  <2>1. MaxCommit \in Nat
    BY BranchesAssumption
  <2> QED BY <2>1
<1> USE DEF GitInv, Moves
<1>1. ASSUME NEW b \in Branches, Checkout(b) PROVE GitInv'
  BY <1>1 DEF Checkout
<1>2. ASSUME NEW b \in Branches, TagAs(b) PROVE GitInv'
  BY <1>2 DEF TagAs
<1>3. ASSUME NEW b \in Branches, DeleteBranch(b) PROVE GitInv'
  BY <1>3 DEF DeleteBranch
<1>4. CASE Detach
  BY <1>4 DEF Detach
<1>5. CASE NewCommit
  <2>1. PICK c \in 2..MaxCommit :
           /\ at' = c /\ heads' = [b \in Branches |-> IF b = head THEN c ELSE heads[b]]
           /\ tips' = [b \in Branches |-> IF b = head THEN tips[b] \cup {c} ELSE tips[b]]
           /\ UNCHANGED <<tags, head, meta>>
    BY <1>5 DEF NewCommit
  <2>2. c \in Nat
    BY <1>0, <2>1
  <2>3. \A b \in Branches : heads'[b] \in tips'[b] \cup {0} /\ tips[b] \subseteq tips'[b]
    BY <2>1
  <2>4. heads' \in [Branches -> Nat] /\ tips' \in [Branches -> SUBSET Nat]
    BY <2>1, <2>2
  <2> QED BY <2>1, <2>2, <2>3, <2>4
<1>6. ASSUME NEW url, MoveRemote(url) PROVE GitInv'
  BY <1>6 DEF MoveRemote
<1>7. CASE CurrentBranch
  BY <1>7 DEF CurrentBranch, Gather, repository
<1>8. CASE Remote
  BY <1>8 DEF Remote, Gather, repository
<1>9. CASE Commit_
  BY <1>9, BranchesAssumption DEF Commit_, Gather, repository, HeadCommit, RevParse, Zero
<1>10. CASE UNCHANGED gitVars
  BY <1>10 DEF gitVars
<1> QED BY <1>1, <1>2, <1>3, <1>4, <1>5, <1>6, <1>7, <1>8, <1>9, <1>10 DEF GitNext

\* Whatever the user checks out, commits, tags or deletes while the facts are
\* gathered, the commit sent under a branch's name was its tip meanwhile, unless
\* --branch or a tag of that name says otherwise (git.rs).
THEOREM CommitIsItsBranchs == GitSpec => []CommitIsOfBranch
<1>1. GitInit => GitInv
  <2> SUFFICES ASSUME GitInit PROVE GitInv
    OBVIOUS
  <2>1. heads \in [Branches -> {0, 1}] /\ tags = [b \in Branches |-> 0] /\ at = heads[head] /\ head \in Branches
    BY DEF GitInit
  <2>2. heads \in [Branches -> Nat] /\ tags \in [Branches -> Nat] /\ at \in Nat
    BY <2>1
  <2>3. tips = [b \in Branches |-> {heads[b]} \ {0}]
    BY DEF GitInit
  <2>4. /\ tips \in [Branches -> SUBSET Nat]
        /\ \A b \in Branches : heads[b] \in tips[b] \cup {0}
    BY <2>2, <2>3
  <2>5. PICK asked \in {""} \cup Branches :
           meta = [pc |-> "branch", asked |-> asked, name |-> "", commit |-> Zero, url |-> NoUrl,
                   repo |-> <<>>, tagged |-> FALSE]
    BY DEF GitInit
  <2> QED BY <2>1, <2>2, <2>4, <2>5 DEF GitInv
<1>2. GitInv => CommitIsOfBranch
  BY BranchesAssumption DEF GitInv, CommitIsOfBranch, Branch, Zero
<1> QED BY <1>1, <1>2, GitKept, PTL DEF GitSpec

-----------------------------------------------------------------------------
(* SourceMeta: the names of a path.                                         *)

Tokens == PathNames \cup Signs

\* Each by itself.
Single(q) == [i \in DOMAIN q |-> <<q[i]>>]

LEMMA SingleOfMore ==
  ASSUME NEW G, NEW q \in Seq(G), NEW c \in G
  PROVE  Single(Cat(q, <<c>>)) = Cat(Single(q), <<<<c>>>>) /\ Single(q) \in Rows(G)
<1> DEFINE w == Cat(q, <<c>>)
           n == Len(q)
           S == Seq(G)
           r == Single(w)
           p == Single(q)
<1>1. w \in Seq(G) /\ Len(w) = n + 1 /\ n \in Nat /\ w[n + 1] = c
  BY CatOfOne, LenProperties
<1>2. \A i \in 1..n : w[i] = q[i] /\ q[i] \in G
  BY CatOfOne, ElementOfSeq DEF CatInfo
<1>3. DOMAIN w = 1..(n + 1) /\ DOMAIN q = 1..n /\ \A i \in 1..(n + 1) : w[i] \in G
  BY <1>1, LenProperties, ElementOfSeq
<1> HIDE DEF w, n
<1>4. (\A e \in G : <<e>> \in S) /\ <<c>> \in S
  OBVIOUS
<1> HIDE DEF S
<1>5. r \in [1..(n + 1) -> S] /\ p \in [1..n -> S]
  BY <1>2, <1>3, <1>4 DEF Single
<1>6. (\A i \in 1..n : r[i] = p[i]) /\ r[n + 1] = <<c>>
  <2>1. \A i \in 1..n : r[i] = p[i]
    BY <1>1, <1>2, <1>3 DEF Single
  <2>2. n + 1 \in 1..(n + 1) /\ r[n + 1] = <<c>>
    <3>1. n + 1 \in 1..(n + 1)
      BY <1>1
    <3>2. QED
      BY <1>1, <1>3, <3>1 DEF Single
  <2>4. QED
    BY <2>1, <2>2
<1> HIDE DEF r, p
<1>8. r = Cat(p, <<<<c>>>>)
  <2> DEFINE x == <<c>>
  <2>1. x \in S /\ r[n + 1] = x
    BY <1>4, <1>6
  <2> HIDE DEF x
  <2>2. r = Cat(p, <<x>>)
    BY <1>1, <1>5, <1>6, <2>1, CatOfRow
  <2>3. QED
    BY <2>2 DEF x
<1>9. p \in Rows(G)
  BY <1>1, <1>5, RowsAre DEF S
<1>10. QED
  BY <1>8, <1>9 DEF r, p, w

LEMMA SingleOfNone == Single(<<>>) = <<>>
BY DEF Single

SegmentRow(p, i) ==
  IF p[i] # "/" /\ (i = Len(p) \/ p[i + 1] = "/") THEN <<PieceAt(p, "/", i)>> ELSE <<>>

LEMMA SegmentRows ==
  ASSUME NEW G, NEW p \in Seq(G)
  PROVE  /\ [i \in 1..Len(p) |-> SegmentRow(p, i)] \in [1..Len(p) -> Rows(G)]
         /\ Segments(p) = FlattenSeq([i \in 1..Len(p) |-> SegmentRow(p, i)])
<1>1. \A i \in 1..Len(p) : PieceAt(p, "/", i) \in Seq(G)
  BY PieceType
<1>2. \A i \in 1..Len(p) : SegmentRow(p, i) \in Rows(G)
  BY <1>1, RowsAre DEF SegmentRow
<1>3. DOMAIN p = 1..Len(p)
  BY LenProperties
<1>4. QED
  BY <1>2, <1>3 DEF Segments, SegmentRow

\* With one token more, if what its last row becomes is known.
LEMMA SegmentsGrow ==
  ASSUME NEW G, NEW p \in Seq(G), NEW c \in G,
         \A i \in 1..Len(p) : SegmentRow(Cat(p, <<c>>), i) = SegmentRow(p, i)
  PROVE  /\ Segments(Cat(p, <<c>>)) = Cat(Segments(p), SegmentRow(Cat(p, <<c>>), Len(p) + 1))
         /\ Segments(p) \in Rows(G)
<1> DEFINE w == Cat(p, <<c>>)
           n == Len(p)
           S == Seq(G)
           u == [i \in 1..n |-> SegmentRow(p, i)]
           v == [i \in 1..(n + 1) |-> SegmentRow(w, i)]
<1>1. w \in Seq(G) /\ Len(w) = n + 1 /\ n \in Nat
  BY CatOfOne, LenProperties
<1>2. u \in [1..n -> Rows(G)] /\ Segments(p) = FlattenSeq(u)
  BY SegmentRows
<1>3. v \in [1..(n + 1) -> Rows(G)] /\ Segments(w) = FlattenSeq(v)
  <2> HIDE DEF w
  <2>1. QED
    BY <1>1, SegmentRows
<1>4. Rows(G) = Seq(S)
  BY DEF Rows
<1>5. (\A i \in 1..n : v[i] = u[i]) /\ v[n + 1] = SegmentRow(w, n + 1)
  <2>1. n + 1 \in 1..(n + 1) /\ \A i \in 1..n : i \in 1..(n + 1)
    BY <1>1
  <2> HIDE DEF w
  <2>2. QED
    BY <2>1 DEF w
<1> HIDE DEF u, v, S, w, n
<1>6. u \in [1..n -> Seq(S)] /\ v \in [1..(n + 1) -> Seq(S)]
  BY <1>2, <1>3, <1>4
<1>7. FlattenSeq(v) = Cat(FlattenSeq(u), v[n + 1])
  BY <1>1, <1>5, <1>6, FlatOfRow
<1>8. FlattenSeq(u) \in Seq(S)
  <2>1. u \in Rows(S)
    BY <1>1, <1>6, RowsAre
  <2>2. QED
    BY <2>1, FlatType
<1>9. QED
  BY <1>2, <1>3, <1>4, <1>5, <1>7, <1>8 DEF w, n

LEMMA SegmentsOfNone == Segments(<<>>) = <<>>
<1>1. DOMAIN <<>> = {}
  OBVIOUS
<1>2. [i \in DOMAIN <<>> |-> SegmentRow(<<>>, i)] = <<>>
  BY <1>1
<1>3. QED
  BY <1>2, FlatOfNone DEF Segments, SegmentRow

LEMMA SegmentsType ==
  ASSUME NEW G, NEW p \in Seq(G)
  PROVE  Segments(p) \in Rows(G)
<1> DEFINE u == [i \in 1..Len(p) |-> SegmentRow(p, i)]
           S == Seq(G)
<1>1. u \in [1..Len(p) -> Rows(G)] /\ Segments(p) = FlattenSeq(u) /\ Len(p) \in Nat /\ Rows(G) = Seq(S)
  BY SegmentRows, LenProperties DEF Rows
<1> HIDE DEF u, S
<1>2. u \in Rows(S)
  BY <1>1, RowsAre
<1>3. FlattenSeq(u) \in Seq(S)
  BY <1>2, FlatType
<1>4. QED
  BY <1>1, <1>3

\* A slash more changes none.
LEMMA SegmentsOfSlash ==
  ASSUME NEW G, NEW p \in Seq(G), "/" \in G
  PROVE  Segments(Cat(p, <<"/">>)) = Segments(p)
<1> DEFINE w == Cat(p, <<"/">>)
           n == Len(p)
<1>1. w \in Seq(G) /\ Len(w) = n + 1 /\ n \in Nat /\ w[n + 1] = "/"
  BY CatOfOne, LenProperties
<1>2. \A i \in 1..n : w[i] = p[i]
  BY CatOfOne DEF CatInfo
<1>3. \A i \in 1..n : PieceAt(w, "/", i) = PieceAt(p, "/", i)
  <2>1. PiecesKept(p, "/", "/")
    BY PieceOfMore
  <2>2. QED
    BY <2>1 DEF PiecesKept
<1>4. ASSUME NEW i \in 1..n PROVE SegmentRow(w, i) = SegmentRow(p, i)
  <2>1. w[i] = p[i] /\ PieceAt(w, "/", i) = PieceAt(p, "/", i)
    BY <1>2, <1>3
  <2>2. (i = Len(w) \/ w[i + 1] = "/") <=> (i = Len(p) \/ p[i + 1] = "/")
    <3>1. CASE i = n
      BY <1>1, <3>1
    <3>2. CASE i # n
      <4>1. i + 1 \in 1..n /\ i # n + 1
        BY <1>1, <3>2
      <4>2. w[i + 1] = p[i + 1]
        BY <1>2, <4>1
      <4>3. QED
        BY <1>1, <3>2, <4>1, <4>2
    <3>3. QED
      BY <3>1, <3>2
  <2> HIDE DEF w
  <2>3. QED
    BY <2>1, <2>2 DEF SegmentRow
<1>5. SegmentRow(w, n + 1) = <<>>
  BY <1>1 DEF SegmentRow
<1>6. Segments(w) = Cat(Segments(p), <<>>) /\ Segments(p) \in Rows(G)
  BY <1>4, <1>5, SegmentsGrow
<1>7. Cat(Segments(p), <<>>) = Segments(p)
  <2> DEFINE S == Seq(G)
  <2>1. Segments(p) \in Seq(S)
    BY <1>6 DEF Rows
  <2> HIDE DEF S
  <2>2. QED
    BY <2>1, CatOfNone
<1>8. QED
  BY <1>6, <1>7 DEF w

\* A name more, behind a slash or first.
LEMMA SegmentsOfName ==
  ASSUME NEW G, NEW p \in Seq(G), NEW c \in G, c # "/", p = <<>> \/ p[Len(p)] = "/"
  PROVE  Segments(Cat(p, <<c>>)) = Cat(Segments(p), <<<<c>>>>)
<1> DEFINE w == Cat(p, <<c>>)
           n == Len(p)
<1>1. w \in Seq(G) /\ Len(w) = n + 1 /\ n \in Nat /\ w[n + 1] = c
  BY CatOfOne, LenProperties
<1>2. \A i \in 1..n : w[i] = p[i]
  BY CatOfOne DEF CatInfo
<1>3. \A i \in 1..n : PieceAt(w, "/", i) = PieceAt(p, "/", i)
  <2>1. PiecesKept(p, c, "/")
    BY PieceOfMore
  <2>2. QED
    BY <2>1 DEF PiecesKept
<1>4. ASSUME NEW i \in 1..n PROVE SegmentRow(w, i) = SegmentRow(p, i)
  <2>1. w[i] = p[i] /\ PieceAt(w, "/", i) = PieceAt(p, "/", i)
    BY <1>2, <1>3
  <2> HIDE DEF w
  <2>2. CASE i = n
    <3>1. p[i] = "/"
      <4>1. p # <<>>
        BY <2>2, EmptySeq
      <4>2. QED
        BY <2>2, <4>1
    <3>2. QED
      BY <2>1, <3>1 DEF SegmentRow
  <2>3. CASE i # n
    <3>1. i + 1 \in 1..n /\ i # n + 1
      BY <1>1, <2>3
    <3>2. w[i + 1] = p[i + 1]
      BY <1>2, <3>1
    <3>3. QED
      BY <1>1, <2>1, <2>3, <3>1, <3>2 DEF SegmentRow
  <2>4. QED
    BY <2>2, <2>3
<1>5. Rest(p, "/") = <<>>
  <2>1. CASE p = <<>>
    BY <2>1, RestOfNone
  <2>2. CASE p # <<>>
    <3> DEFINE f == SubSeq(p, 1, n - 1)
    <3>1. f \in Seq(G) /\ p = Cat(f, <<"/">>) /\ "/" \in G
      BY <2>2, MoreOf
    <3> HIDE DEF f
    <3>2. Rest(Cat(f, <<"/">>), "/") = <<>>
      BY <3>1, RestOfMore
    <3>3. QED
      BY <3>1, <3>2
  <2>3. QED
    BY <2>1, <2>2
<1>6. PieceAt(w, "/", n + 1) = <<c>>
  <2>1. PieceAt(w, "/", n + 1) = Cat(Rest(p, "/"), <<c>>)
    BY PieceOfMore
  <2>2. Cat(<<>>, <<c>>) = <<c>>
    <3>1. <<c>> \in Seq(G)
      OBVIOUS
    <3>2. QED
      BY <3>1, CatOfNone
  <2>3. QED
    BY <1>5, <2>1, <2>2
<1>7. SegmentRow(w, n + 1) = <<<<c>>>>
  BY <1>1, <1>6 DEF SegmentRow
<1>8. QED
  BY <1>4, <1>7, SegmentsGrow

NoGit(p) == \A i \in 1..Len(p) : p[i] # ".git"

\* What its segments are once it is trimmed.
SegsOf(p) == Segments(StripGit(TrimSlashes(p)))

LEMMA NamesApart == "/" \notin PathNames /\ ".git" \notin PathNames /\ "/" \in Tokens
BY UrlsAssumption DEF Signs, Tokens

LEMMA PathWithout ==
  ASSUME NEW p \in Seq(Tokens), NEW c \in Tokens, IsPath(Cat(p, <<c>>))
  PROVE  /\ IsPath(p) /\ c \in PathNames \cup {"/", ".git"}
         /\ c \in PathNames => p = <<>> \/ p[Len(p)] = "/"
         /\ c \in PathNames \cup {".git"} => NoGit(p)
         /\ c = ".git" => p # <<>> /\ p[Len(p)] \in PathNames
<1> DEFINE w == Cat(p, <<c>>)
           n == Len(p)
<1>1. w \in Seq(Tokens) /\ Len(w) = n + 1 /\ n \in Nat /\ w[n + 1] = c
  BY CatOfOne, LenProperties
<1>2. \A i \in 1..n : w[i] = p[i]
  BY CatOfOne DEF CatInfo
<1>3. DOMAIN w = 1..(n + 1) /\ DOMAIN p = 1..n
  BY <1>1, LenProperties
<1>4. \A i \in 1..(n + 1) :
        /\ w[i] \in PathNames \cup {"/", ".git"}
        /\ w[i] \in PathNames /\ i > 1 => w[i - 1] = "/"
        /\ w[i] = ".git" => i > 1 /\ w[i - 1] \in PathNames /\ \A j \in (i + 1)..(n + 1) : w[j] = "/"
  BY <1>1, <1>3 DEF IsPath
<1> HIDE DEF w
<1>5. n + 1 \in 1..(n + 1) /\ (n = 0 <=> p = <<>>)
  BY <1>1, EmptySeq
<1>6. IsPath(p)
  <2>1. ASSUME NEW i \in 1..n
        PROVE  /\ p[i] \in PathNames \cup {"/", ".git"}
               /\ p[i] \in PathNames /\ i > 1 => p[i - 1] = "/"
               /\ p[i] = ".git" => i > 1 /\ p[i - 1] \in PathNames /\ \A j \in (i + 1)..n : p[j] = "/"
    <3>1. i \in 1..(n + 1) /\ w[i] = p[i]
      BY <1>1, <1>2
    <3>2. i > 1 => w[i - 1] = p[i - 1]
      <4>1. i > 1 => i - 1 \in 1..n
        BY <1>1
      <4>2. QED
        BY <1>2, <4>1
    <3>3. \A j \in (i + 1)..n : j \in (i + 1)..(n + 1) /\ w[j] = p[j]
      BY <1>1, <1>2
    <3>4. QED
      BY <1>4, <3>1, <3>2, <3>3
  <2>2. QED
    BY <1>3, <2>1 DEF IsPath
<1>7. c \in PathNames \cup {"/", ".git"}
  BY <1>1, <1>4, <1>5
<1>8. c \in PathNames => p = <<>> \/ p[n] = "/"
  <2>1. n # 0 => n + 1 > 1 /\ n + 1 - 1 = n /\ n \in 1..n
    BY <1>1
  <2>2. QED
    BY <1>1, <1>2, <1>4, <1>5, <2>1
<1>9. c \in PathNames \cup {".git"} => NoGit(p)
  <2> SUFFICES ASSUME c \in PathNames \cup {".git"}, NEW i \in 1..n, p[i] = ".git" PROVE FALSE
    BY DEF NoGit
  <2>1. i \in 1..(n + 1) /\ n + 1 \in (i + 1)..(n + 1) /\ w[i] = ".git"
    BY <1>1, <1>2
  <2>2. w[n + 1] = "/"
    BY <1>4, <2>1
  <2>3. QED
    BY <1>1, <2>2, NamesApart
<1>10. c = ".git" => p # <<>> /\ p[n] \in PathNames
  <2>1. n # 0 => n + 1 > 1 /\ n + 1 - 1 = n /\ n \in 1..n
    BY <1>1
  <2>2. c = ".git" => n + 1 > 1 /\ w[n + 1 - 1] \in PathNames
    BY <1>1, <1>4, <1>5
  <2>3. c = ".git" => n # 0
    BY <1>1, <2>2
  <2>4. QED
    BY <1>2, <1>5, <2>1, <2>2, <2>3
<1>11. QED
  BY <1>6, <1>7, <1>8, <1>9, <1>10 DEF w, n

LEMMA StripGitOf ==
  ASSUME NEW G, NEW p \in Seq(G), NEW c \in G
  PROVE  StripGit(Cat(p, <<c>>)) = IF c = ".git" THEN p ELSE Cat(p, <<c>>)
<1> DEFINE w == Cat(p, <<c>>)
<1>1. w \in Seq(G) /\ Len(w) = Len(p) + 1 /\ Len(p) \in Nat /\ w[Len(p) + 1] = c
  BY CatOfOne, LenProperties
<1>2. w # <<>> /\ Last(w) = c
  BY <1>1, EmptySeq DEF Last
<1>3. Front(w) = p
  <2>1. Front(w) = SubSeq(w, 1, Len(p))
    BY <1>1 DEF Front
  <2>2. 1 \in 1..(Len(p) + 1) /\ Len(p) \in 0..Len(p)
    BY <1>1
  <2>3. SubSeq(w, 1, Len(p)) = SubSeq(p, 1, Len(p))
    BY <2>2, PartOfMore
  <2>4. QED
    BY <2>1, <2>3, SubSeqFull
<1>4. QED
  BY <1>2, <1>3 DEF StripGit

\* The segments of a path are its names.
LEMMA PathSegments ==
  ASSUME NEW q \in Seq(Tokens), IsPath(q)
  PROVE  /\ SegsOf(q) = Single(Only(q, PathNames))
         /\ NoGit(q) => Segments(q) = Single(Only(q, PathNames))
<1> DEFINE Fine(p) == /\ SegsOf(p) = Single(Only(p, PathNames))
                      /\ NoGit(p) => Segments(p) = Single(Only(p, PathNames))
           T == {p \in Seq(Tokens) : IsPath(p) => Fine(p)}
<1>1. <<>> \in T
  <2>1. SegsOf(<<>>) = <<>> /\ Segments(<<>>) = <<>>
    BY TrimOfNone, SegmentsOfNone DEF SegsOf, TrimSlashes, StripGit
  <2>2. Single(Only(<<>>, PathNames)) = <<>>
    BY OnlyOfNone, SingleOfNone
  <2>3. <<>> \in Seq(Tokens)
    BY EmptySeq
  <2>4. QED
    BY <2>1, <2>2, <2>3
<1>2. ASSUME NEW p \in Seq(Tokens), NEW c \in Tokens, p \in T PROVE Cat(p, <<c>>) \in T
  <2> DEFINE w == Cat(p, <<c>>)
  <2>1. w \in Seq(Tokens)
    BY CatOfOne
  <2>2. SUFFICES ASSUME IsPath(w) PROVE Fine(w)
    BY <2>1
  <2>3. /\ IsPath(p) /\ c \in PathNames \cup {"/", ".git"}
        /\ c \in PathNames => p = <<>> \/ p[Len(p)] = "/"
        /\ c \in PathNames \cup {".git"} => NoGit(p)
    BY <2>2, PathWithout
  <2>4. Fine(p)
    BY <1>2, <2>3
  <2>5. Only(w, PathNames) = IF c \in PathNames THEN Cat(Only(p, PathNames), <<c>>) ELSE Only(p, PathNames)
    BY OnlyOfMore
  <2>6. TrimSlashes(w) = IF c = "/" THEN TrimSlashes(p) ELSE w
    BY TrimOfMore DEF TrimSlashes
  <2>7. StripGit(w) = IF c = ".git" THEN p ELSE w
    BY StripGitOf
  <2>8. NoGit(w) => NoGit(p) /\ c # ".git"
    <3>1. Len(w) = Len(p) + 1 /\ w[Len(p) + 1] = c /\ Len(p) \in Nat
      BY CatOfOne, LenProperties
    <3>2. \A i \in 1..Len(p) : w[i] = p[i]
      BY CatOfOne DEF CatInfo
    <3> HIDE DEF w
    <3>3. (\A i \in 1..Len(p) : i \in 1..(Len(p) + 1)) /\ Len(p) + 1 \in 1..(Len(p) + 1)
      BY <3>1
    <3>4. QED
      BY <3>1, <3>2, <3>3 DEF NoGit
  <2>9. CASE c = "/"
    <3>1. Segments(w) = Segments(p)
      BY <2>9, SegmentsOfSlash
    <3>2. SegsOf(w) = SegsOf(p) /\ Only(w, PathNames) = Only(p, PathNames)
      BY <2>5, <2>6, <2>9, NamesApart DEF SegsOf
    <3> HIDE DEF w
    <3>3. QED
      BY <2>4, <2>8, <3>1, <3>2
  <2>10. CASE c = ".git"
    <3>1. NoGit(p) /\ ~NoGit(w)
      BY <2>3, <2>8, <2>10
    <3>2. SegsOf(w) = Segments(p) /\ Only(w, PathNames) = Only(p, PathNames)
      BY <2>5, <2>6, <2>7, <2>10, NamesApart DEF SegsOf
    <3> HIDE DEF w
    <3>3. QED
      BY <2>4, <3>1, <3>2
  <2>11. CASE c \in PathNames
    <3>1. c # "/" /\ c # ".git" /\ NoGit(p) /\ (p = <<>> \/ p[Len(p)] = "/")
      BY <2>3, <2>11, NamesApart
    <3>2. Segments(w) = Cat(Segments(p), <<<<c>>>>)
      BY <3>1, SegmentsOfName
    <3>3. SegsOf(w) = Segments(w)
      BY <2>6, <2>7, <3>1 DEF SegsOf
    <3>4. Only(w, PathNames) = Cat(Only(p, PathNames), <<c>>)
      BY <2>5, <2>11
    <3>5. Single(Cat(Only(p, PathNames), <<c>>)) = Cat(Single(Only(p, PathNames)), <<<<c>>>>)
      <4>1. Only(p, PathNames) \in Seq(Tokens)
        BY OnlyType
      <4>2. QED
        BY <4>1, SingleOfMore
    <3> HIDE DEF w
    <3>6. QED
      BY <2>4, <3>1, <3>2, <3>3, <3>4, <3>5
  <2>12. QED
    BY <2>3, <2>9, <2>10, <2>11
<1> HIDE DEF T
<1>3. \A p \in Seq(Tokens) : p \in T
  BY <1>1, <1>2, BySnoc
<1>4. QED
  BY <1>3 DEF T

\* The path behind a slash is one.
LEMMA PathBehind ==
  ASSUME NEW u \in Seq(Tokens), NEW k \in 0..Len(u), IsPath(SubSeq(u, k + 1, Len(u))),
         NEW i \in k..Len(u), i = k \/ u[i] = "/"
  PROVE  IsPath(SubSeq(u, i + 1, Len(u))) /\ SubSeq(u, i + 1, Len(u)) \in Seq(Tokens)
<1> DEFINE n == Len(u)
           p == SubSeq(u, k + 1, n)
           q == SubSeq(u, i + 1, n)
<1>1. n \in Nat /\ k \in Nat /\ i \in Nat /\ k <= i /\ i <= n
  BY LenProperties
<1>2. \A j \in 1..n : u[j] \in Tokens
  BY ElementOfSeq
<1>3. p \in Seq(Tokens) /\ Len(p) = n - k /\ \A j \in 1..(n - k) : p[j] = u[k + j]
  <2>1. k + 1 \in Int /\ n \in Int /\ \A j \in (k + 1)..n : u[j] \in Tokens
    BY <1>1, <1>2
  <2>2. /\ p \in Seq(Tokens) /\ Len(p) = IF k + 1 <= n THEN n - (k + 1) + 1 ELSE 0
        /\ \A j \in 1..(n - (k + 1) + 1) : p[j] = u[(k + 1) + j - 1]
    BY <2>1, SubSeqProperties
  <2> HIDE DEF p, n
  <2>3. QED
    BY <1>1, <2>2
<1>4. q \in Seq(Tokens) /\ Len(q) = n - i /\ \A j \in 1..(n - i) : q[j] = u[i + j]
  <2>1. i + 1 \in Int /\ n \in Int /\ \A j \in (i + 1)..n : u[j] \in Tokens
    BY <1>1, <1>2
  <2>2. /\ q \in Seq(Tokens) /\ Len(q) = IF i + 1 <= n THEN n - (i + 1) + 1 ELSE 0
        /\ \A j \in 1..(n - (i + 1) + 1) : q[j] = u[(i + 1) + j - 1]
    BY <2>1, SubSeqProperties
  <2> HIDE DEF q, n
  <2>3. QED
    BY <1>1, <2>2
<1>5. DOMAIN p = 1..(n - k) /\ DOMAIN q = 1..(n - i)
  BY <1>3, <1>4, LenProperties
<1>6. IsPath(p)
  OBVIOUS
<1> HIDE DEF p, q, n
<1>7. \A j \in 1..(n - k) :
        /\ p[j] \in PathNames \cup {"/", ".git"}
        /\ p[j] \in PathNames /\ j > 1 => p[j - 1] = "/"
        /\ p[j] = ".git" => j > 1 /\ p[j - 1] \in PathNames /\ \A m \in (j + 1)..(n - k) : p[m] = "/"
  BY <1>3, <1>5, <1>6 DEF IsPath
<1>8. \A j \in 1..(n - i) : j + (i - k) \in 1..(n - k) /\ q[j] = p[j + (i - k)]
  <2>1. ASSUME NEW j \in 1..(n - i) PROVE j + (i - k) \in 1..(n - k) /\ q[j] = p[j + (i - k)]
    <3>1. j + (i - k) \in 1..(n - k) /\ k + (j + (i - k)) = i + j
      BY <1>1
    <3>2. p[j + (i - k)] = u[k + (j + (i - k))]
      BY <1>3, <3>1
    <3>3. QED
      BY <1>4, <3>1, <3>2
  <2>2. QED
    BY <2>1
<1>9. i # k => i - k \in 1..(n - k) /\ p[i - k] = "/"
  <2>1. i # k => i - k \in 1..(n - k) /\ k + (i - k) = i
    BY <1>1
  <2>2. QED
    BY <1>3, <2>1
<1>10. ASSUME NEW j \in 1..(n - i)
       PROVE  /\ q[j] \in PathNames \cup {"/", ".git"}
              /\ q[j] \in PathNames /\ j > 1 => q[j - 1] = "/"
              /\ q[j] = ".git" => j > 1 /\ q[j - 1] \in PathNames /\ \A m \in (j + 1)..(n - i) : q[m] = "/"
  <2> DEFINE h == j + (i - k)
  <2>1. h \in 1..(n - k) /\ q[j] = p[h] /\ h - 1 = (j - 1) + (i - k) /\ (j > 1 => h > 1)
    <3>1. h \in 1..(n - k) /\ q[j] = p[h]
      BY <1>8
    <3>2. h - 1 = (j - 1) + (i - k)
      BY <1>1
    <3>3. j > 1 => h > 1
      BY <1>1
    <3>4. QED
      BY <3>1, <3>2, <3>3
  <2>2. j > 1 => q[j - 1] = p[h - 1]
    <3>1. j > 1 => j - 1 \in 1..(n - i)
      BY <1>1
    <3>2. QED
      BY <1>8, <2>1, <3>1
  <2>3. ASSUME NEW m \in (j + 1)..(n - i) PROVE m + (i - k) \in (h + 1)..(n - k) /\ q[m] = p[m + (i - k)]
    <3>1. m \in 1..(n - i) /\ m + (i - k) \in (h + 1)..(n - k)
      BY <1>1
    <3>2. QED
      BY <1>8, <3>1
  <2>4. j = 1 => IF i = k THEN h = 1 ELSE p[h - 1] = "/"
    <3>1. j = 1 => h - 1 = i - k
      BY <1>1
    <3>2. QED
      BY <1>1, <1>9, <3>1
  <2> HIDE DEF h
  <2>5. /\ p[h] \in PathNames \cup {"/", ".git"}
        /\ p[h] \in PathNames /\ h > 1 => p[h - 1] = "/"
        /\ p[h] = ".git" => h > 1 /\ p[h - 1] \in PathNames /\ \A m \in (h + 1)..(n - k) : p[m] = "/"
    BY <1>7, <2>1
  <2>6. q[j] = ".git" => j > 1
    <3>1. ASSUME q[j] = ".git", j = 1 PROVE FALSE
      <4>1. p[h] = ".git" /\ h > 1 /\ p[h - 1] \in PathNames
        BY <2>1, <2>5, <3>1
      <4>2. i # k /\ p[h - 1] = "/"
        BY <2>4, <3>1, <4>1, <2>1
      <4>3. QED
        BY <4>1, <4>2, NamesApart
    <3>2. QED
      BY <3>1
  <2>7. QED
    BY <2>1, <2>2, <2>3, <2>5, <2>6
<1>11. IsPath(q)
  BY <1>4, <1>5, <1>10 DEF IsPath
<1>12. QED
  BY <1>4, <1>11 DEF q, n

\* What is behind the first of a token, in what is behind place i.
LEMMA AfterBehind ==
  ASSUME NEW G, NEW s \in Seq(G), NEW i \in 0..Len(s), NEW m \in (i + 1)..Len(s), NEW token,
         s[m] = token, \A j \in (i + 1)..(m - 1) : s[j] # token
  PROVE  After(SubSeq(s, i + 1, Len(s)), token) = SubSeq(s, m + 1, Len(s))
<1> DEFINE n == Len(s)
           u == SubSeq(s, i + 1, n)
           places == {j \in DOMAIN u : u[j] = token}
           v == SubSeq(s, m + 1, n)
           w == SubSeq(u, m - i + 1, n - i)
<1>1. n \in Nat /\ i \in Nat /\ m \in Nat /\ i + 1 <= m /\ m <= n
  BY LenProperties
<1>2. \A j \in 1..n : s[j] \in G
  BY ElementOfSeq
<1>3. u \in Seq(G) /\ Len(u) = n - i /\ \A j \in 1..(n - i) : u[j] = s[i + j]
  <2>1. i + 1 \in Int /\ n \in Int /\ \A j \in (i + 1)..n : s[j] \in G
    BY <1>1, <1>2
  <2>2. /\ u \in Seq(G) /\ Len(u) = IF i + 1 <= n THEN n - (i + 1) + 1 ELSE 0
        /\ \A j \in 1..(n - (i + 1) + 1) : u[j] = s[(i + 1) + j - 1]
    BY <2>1, SubSeqProperties
  <2> HIDE DEF u, n
  <2>3. QED
    BY <1>1, <2>2
<1>4. DOMAIN u = 1..(n - i)
  BY <1>3, LenProperties
<1> HIDE DEF u, n
<1>5. m - i \in places
  <2>1. m - i \in 1..(n - i) /\ i + (m - i) = m
    BY <1>1
  <2>2. u[m - i] = s[i + (m - i)]
    BY <1>3, <2>1
  <2>3. QED
    BY <1>4, <2>1, <2>2
<1>6. \A j \in places : m - i <= j
  <2>1. ASSUME NEW j \in places PROVE m - i <= j
    <3>1. j \in 1..(n - i) /\ u[j] = token /\ s[i + j] = token
      BY <1>3, <1>4
    <3>2. i + j < m => i + j \in (i + 1)..(m - 1)
      BY <1>1, <3>1
    <3>3. ~(i + j < m)
      BY <3>1, <3>2
    <3>4. QED
      BY <1>1, <3>1, <3>3
  <2>2. QED
    BY <2>1
<1>7. (CHOOSE k \in places : \A j \in places : k <= j) = m - i
  <2> DEFINE h == CHOOSE k \in places : \A j \in places : k <= j
  <2>1. h \in places /\ \A j \in places : h <= j
    BY <1>5, <1>6
  <2>2. h <= m - i /\ m - i <= h /\ h \in Nat
    <3>1. h \in 1..(n - i)
      BY <1>4, <2>1
    <3> HIDE DEF h
    <3>2. QED
      BY <1>5, <1>6, <2>1, <3>1
  <2> HIDE DEF h
  <2>3. QED
    BY <1>1, <2>2 DEF h
<1>8. After(u, token) = w
  BY <1>3, <1>5, <1>7 DEF After
<1>9. v = w
  <2>1. v \in Seq(G) /\ Len(v) = n - m /\ \A j \in 1..(n - m) : v[j] = s[m + j]
    <3>1. m + 1 \in Int /\ n \in Int /\ \A j \in (m + 1)..n : s[j] \in G
      BY <1>1, <1>2
    <3>2. /\ v \in Seq(G) /\ Len(v) = IF m + 1 <= n THEN n - (m + 1) + 1 ELSE 0
          /\ \A j \in 1..(n - (m + 1) + 1) : v[j] = s[(m + 1) + j - 1]
      BY <3>1, SubSeqProperties
    <3> HIDE DEF v
    <3>3. QED
      BY <1>1, <3>2
  <2>2. w \in Seq(G) /\ Len(w) = n - m /\ \A j \in 1..(n - m) : w[j] = u[(m - i) + j]
    <3>0. \A j \in 1..(n - i) : u[j] \in G
      BY <1>3, ElementOfSeq
    <3>1. m - i + 1 \in Int /\ n - i \in Int /\ \A j \in (m - i + 1)..(n - i) : u[j] \in G
      BY <1>1, <3>0
    <3>2. /\ w \in Seq(G) /\ Len(w) = IF m - i + 1 <= n - i THEN (n - i) - (m - i + 1) + 1 ELSE 0
          /\ \A j \in 1..((n - i) - (m - i + 1) + 1) : w[j] = u[(m - i + 1) + j - 1]
      BY <3>1, SubSeqProperties
    <3> HIDE DEF w
    <3>3. QED
      BY <1>1, <3>2
  <2>3. \A j \in 1..(n - m) : v[j] = w[j]
    <3>1. ASSUME NEW j \in 1..(n - m) PROVE v[j] = w[j]
      <4>1. (m - i) + j \in 1..(n - i) /\ i + ((m - i) + j) = m + j
        BY <1>1
      <4>2. u[(m - i) + j] = s[i + ((m - i) + j)]
        BY <1>3, <4>1
      <4> HIDE DEF v, w
      <4>3. QED
        BY <2>1, <2>2, <4>1, <4>2
    <3>2. QED
      BY <3>1
  <2> HIDE DEF v, w
  <2>4. QED
    BY <2>1, <2>2, <2>3, Alike
<1>10. QED
  BY <1>8, <1>9 DEF u, n

LEMMA AfterFirst ==
  ASSUME NEW G, NEW s \in Seq(G), NEW m \in 1..Len(s), NEW token,
         s[m] = token, \A j \in 1..(m - 1) : s[j] # token
  PROVE  After(s, token) = SubSeq(s, m + 1, Len(s))
<1>1. SubSeq(s, 0 + 1, Len(s)) = s
  BY SubSeqFull
<1>2. 0 \in 0..Len(s) /\ m \in (0 + 1)..Len(s) /\ \A j \in (0 + 1)..(m - 1) : s[j] # token
  BY LenProperties
<1>3. After(SubSeq(s, 0 + 1, Len(s)), token) = SubSeq(s, m + 1, Len(s))
  BY <1>2, AfterBehind
<1>4. QED
  BY <1>1, <1>3

LEMMA AfterNone ==
  ASSUME NEW G, NEW s \in Seq(G), NEW token, \A j \in 1..Len(s) : s[j] # token
  PROVE  After(s, token) = s
<1>1. {i \in DOMAIN s : s[i] = token} = {}
  BY LenProperties
<1>2. QED
  BY <1>1 DEF After

-----------------------------------------------------------------------------
(* SourceMeta: the path of a URL.                                           *)

\* A URL cut behind its authority.
Cut(u, k, a) ==
  /\ k \in 0..Len(u) /\ SubSeq(u, 1, k) = a /\ a \in Authorities
  /\ IsPath(SubSeq(u, k + 1, Len(u)))

LEMMA UrlShape ==
  ASSUME NEW u \in Urls \cup {NoUrl}
  PROVE  u \in Seq(Tokens) /\ \E k, a : Cut(u, k, a)
<1>1. CASE u \in Urls
  BY <1>1, UrlsAssumption DEF Tokens, Cut
<1>2. CASE u = NoUrl
  <2>1. u \in Seq(Tokens) /\ Len(u) = 0 /\ u = <<>>
    BY <1>2, EmptySeq DEF NoUrl
  <2>2. SubSeq(<<>>, 1, 0) = <<>>
    BY SubSeqEmpty
  <2>3. IsPath(<<>>)
    BY DEF IsPath
  <2>6. <<>> \in Authorities
    BY DEF Authorities
  <2>7. 0 \in 0..Len(u) /\ SubSeq(u, 1, 0) = <<>>
    BY <2>1, <2>2
  <2>8. IsPath(SubSeq(u, 0 + 1, Len(u)))
    <3>1. 0 + 1 \in Int /\ Len(u) \in Int /\ Len(u) < 0 + 1
      BY <2>1
    <3>2. SubSeq(u, 0 + 1, Len(u)) = <<>>
      BY <3>1, SubSeqEmpty
    <3>3. QED
      BY <2>3, <3>2, Zenon
  <2>4. Cut(u, 0, <<>>)
    BY <2>6, <2>7, <2>8, Zenon DEF Cut
  <2>5. QED
    BY <2>1, <2>4
<1>3. QED
  BY <1>1, <1>2

\* What is known of the tokens of one.
LEMMA CutTokens ==
  ASSUME NEW u \in Seq(Tokens), NEW k, NEW a, Cut(u, k, a)
  PROVE  /\ Len(a) = k /\ \A j \in 1..k : u[j] = a[j]
         /\ \A j \in (k + 1)..Len(u) : u[j] \in PathNames \cup {"/", ".git"}
         /\ \A j \in (k + 2)..Len(u) : u[j] \in PathNames => u[j - 1] = "/"
<1> DEFINE n == Len(u)
           p == SubSeq(u, k + 1, n)
<1>1. n \in Nat /\ k \in 0..n /\ SubSeq(u, 1, k) = a /\ IsPath(p)
  BY LenProperties DEF Cut
<1>2. \A j \in 1..n : u[j] \in Tokens
  BY ElementOfSeq
<1>3. Len(a) = k /\ \A j \in 1..k : u[j] = a[j]
  <2>1. 1 \in Int /\ k \in Int /\ \A j \in 1..k : u[j] \in Tokens
    BY <1>1, <1>2
  <2>2. /\ Len(SubSeq(u, 1, k)) = IF 1 <= k THEN k - 1 + 1 ELSE 0
        /\ \A j \in 1..(k - 1 + 1) : SubSeq(u, 1, k)[j] = u[1 + j - 1]
    BY <2>1, SubSeqProperties
  <2>3. \A j \in 1..k : 1 + j - 1 = j
    OBVIOUS
  <2> HIDE DEF n
  <2>4. QED
    BY <1>1, <2>2, <2>3
<1>4. p \in Seq(Tokens) /\ Len(p) = n - k /\ \A j \in 1..(n - k) : p[j] = u[k + j]
  <2>1. k + 1 \in Int /\ n \in Int /\ \A j \in (k + 1)..n : u[j] \in Tokens
    BY <1>1, <1>2
  <2>2. /\ p \in Seq(Tokens) /\ Len(p) = IF k + 1 <= n THEN n - (k + 1) + 1 ELSE 0
        /\ \A j \in 1..(n - (k + 1) + 1) : p[j] = u[(k + 1) + j - 1]
    BY <2>1, SubSeqProperties
  <2> HIDE DEF p, n
  <2>3. QED
    BY <1>1, <2>2
<1>5. DOMAIN p = 1..(n - k)
  BY <1>4, LenProperties
<1> HIDE DEF p, n
<1>6. \A j \in 1..(n - k) :
        p[j] \in PathNames \cup {"/", ".git"} /\ (p[j] \in PathNames /\ j > 1 => p[j - 1] = "/")
  BY <1>1, <1>5 DEF IsPath
<1>7. \A j \in (k + 1)..n : u[j] \in PathNames \cup {"/", ".git"}
  <2>1. \A j \in (k + 1)..n : j - k \in 1..(n - k) /\ k + (j - k) = j
    BY <1>1
  <2>2. QED
    BY <1>4, <1>6, <2>1
<1>8. ASSUME NEW j \in (k + 2)..n, u[j] \in PathNames PROVE u[j - 1] = "/"
  <2>1. j - k \in 1..(n - k) /\ k + (j - k) = j /\ j - k > 1 /\ j - k - 1 \in 1..(n - k) /\ k + (j - k - 1) = j - 1
    BY <1>1
  <2>2. p[j - k] = u[j] /\ p[j - k - 1] = u[j - 1]
    BY <1>4, <2>1
  <2>3. QED
    BY <1>6, <1>8, <2>1, <2>2
<1>9. QED
  BY <1>3, <1>7, <1>8 DEF n

Bare(u) ==
  /\ {"://", "@"} \cap ToSet(u) = {}
  /\ \E i \in DOMAIN u : u[i] \in PathNames /\ \A j \in 1..i : u[j] # "/"

\* With a scheme or a user, what is behind the authority.
Full(a) == a \in {<<"https", "://", "host", "/">>, <<"https", "://", "git", "@", "host", "/">>, <<"https", "://", "/">>,
                  <<"git", "@", "host", ":">>}

LEMMA PathOfFull ==
  ASSUME NEW u \in Seq(Tokens), NEW k, NEW a, Cut(u, k, a), Full(a)
  PROVE  PathOf(u) = SubSeq(u, k + 1, Len(u)) /\ ~Bare(u)
<1> DEFINE n == Len(u)
<1>0. DOMAIN u = 1..n /\ n \in Nat
  BY LenProperties
<1>1. Len(a) = k /\ k \in 0..n /\ \A j \in 1..k : u[j] = a[j]
  BY CutTokens DEF Cut
<1>2. \A j \in (k + 1)..n : u[j] \in PathNames \cup {"/", ".git"}
  BY CutTokens
<1>3. ToSet(u) = {u[j] : j \in 1..n}
  BY <1>0 DEF ToSet
<1> HIDE DEF n
<1>4. CASE a = <<"https", "://", "host", "/">>
  <2>1. k = 4 /\ u[1] = "https" /\ u[2] = "://" /\ u[3] = "host" /\ u[4] = "/"
    BY <1>1, <1>4
  <2>2. 2 \in 1..n /\ 2 \in 0..n /\ 4 \in 3..n
    BY <1>0, <1>1, <2>1
  <2>3. \A j \in 1..(2 - 1) : u[j] # "://"
    BY <2>1
  <2>4. After(u, "://") = SubSeq(u, 2 + 1, Len(u))
    BY <2>1, <2>2, <2>3, AfterFirst DEF n
  <2>5. \A j \in (2 + 1)..(4 - 1) : u[j] # "/"
    BY <2>1
  <2>6. After(SubSeq(u, 2 + 1, Len(u)), "/") = SubSeq(u, 4 + 1, Len(u))
    BY <2>1, <2>2, <2>5, AfterBehind DEF n
  <2>7. "://" \in ToSet(u)
    BY <1>3, <2>1, <2>2
  <2>8. QED
    BY <2>1, <2>4, <2>6, <2>7 DEF PathOf, Bare, n
<1>5. CASE a = <<"https", "://", "git", "@", "host", "/">>
  <2>1. k = 6 /\ u[1] = "https" /\ u[2] = "://" /\ u[3] = "git" /\ u[4] = "@" /\ u[5] = "host" /\ u[6] = "/"
    BY <1>1, <1>5
  <2>2. 2 \in 1..n /\ 2 \in 0..n /\ 6 \in 3..n
    BY <1>0, <1>1, <2>1
  <2>3. \A j \in 1..(2 - 1) : u[j] # "://"
    BY <2>1
  <2>4. After(u, "://") = SubSeq(u, 2 + 1, Len(u))
    BY <2>1, <2>2, <2>3, AfterFirst DEF n
  <2>5. \A j \in (2 + 1)..(6 - 1) : u[j] # "/"
    BY <2>1
  <2>6. After(SubSeq(u, 2 + 1, Len(u)), "/") = SubSeq(u, 6 + 1, Len(u))
    <3>1. u[6] = "/" /\ 2 \in 0..Len(u) /\ 6 \in (2 + 1)..Len(u)
      BY <2>1, <2>2 DEF n
    <3>2. QED
      BY <2>5, <3>1, AfterBehind
  <2>7. "://" \in ToSet(u)
    BY <1>3, <2>1, <2>2
  <2>8. QED
    BY <2>1, <2>4, <2>6, <2>7 DEF PathOf, Bare, n
<1>6. CASE a = <<"https", "://", "/">>
  <2>1. k = 3 /\ u[1] = "https" /\ u[2] = "://" /\ u[3] = "/"
    BY <1>1, <1>6
  <2>2. 2 \in 1..n /\ 2 \in 0..n /\ 3 \in 3..n
    BY <1>0, <1>1, <2>1
  <2>3. \A j \in 1..(2 - 1) : u[j] # "://"
    BY <2>1
  <2>4. After(u, "://") = SubSeq(u, 2 + 1, Len(u))
    BY <2>1, <2>2, <2>3, AfterFirst DEF n
  <2>5. \A j \in (2 + 1)..(3 - 1) : u[j] # "/"
    BY <2>1
  <2>6. After(SubSeq(u, 2 + 1, Len(u)), "/") = SubSeq(u, 3 + 1, Len(u))
    BY <2>1, <2>2, <2>5, AfterBehind DEF n
  <2>7. "://" \in ToSet(u)
    BY <1>3, <2>1, <2>2
  <2>8. QED
    BY <2>1, <2>4, <2>6, <2>7 DEF PathOf, Bare, n
<1>7. CASE a = <<"git", "@", "host", ":">>
  <2>1. k = 4 /\ u[1] = "git" /\ u[2] = "@" /\ u[3] = "host" /\ u[4] = ":"
    BY <1>1, <1>7
  <2>2. 2 \in 1..n /\ 2 \in 0..n /\ 4 \in 3..n /\ 4 \in 1..n
    BY <1>0, <1>1, <2>1
  <2>3. \A j \in 1..(2 - 1) : u[j] # "@"
    BY <2>1
  <2>4. After(u, "@") = SubSeq(u, 2 + 1, Len(u))
    BY <2>1, <2>2, <2>3, AfterFirst DEF n
  <2>5. \A j \in (2 + 1)..(4 - 1) : u[j] # ":"
    BY <2>1
  <2>6. After(SubSeq(u, 2 + 1, Len(u)), ":") = SubSeq(u, 4 + 1, Len(u))
    BY <2>1, <2>2, <2>5, AfterBehind DEF n
  <2>7. {"@", ":"} \subseteq ToSet(u)
    BY <1>3, <2>1, <2>2
  <2>8. "://" \notin ToSet(u)
    <3>1. "://" \notin PathNames \cup {"/", ".git"}
      BY UrlsAssumption DEF Signs
    <3>2. \A j \in 1..n : j \in 1..4 \/ j \in (k + 1)..n
      BY <1>0, <2>1
    <3>3. \A j \in 1..4 : u[j] # "://"
      BY <2>1
    <3>4. \A j \in 1..n : u[j] # "://"
      BY <1>2, <3>1, <3>2, <3>3
    <3>5. QED
      BY <1>3, <3>4
  <2>9. QED
    BY <2>1, <2>4, <2>6, <2>7, <2>8 DEF PathOf, Bare, n
<1>8. QED
  BY <1>4, <1>5, <1>6, <1>7 DEF Full

\* Without a slash there is one segment, if any.
LEMMA SegmentsOfOne ==
  ASSUME NEW G, NEW p \in Seq(G), "/" \notin G
  PROVE  Len(Segments(p)) < 2
<1>1. CASE p = <<>>
  BY <1>1, SegmentsOfNone
<1>2. CASE p # <<>>
  <2> DEFINE m == Len(p)
             n == m - 1
             S == Seq(G)
             v == [i \in 1..n |-> <<>>]
             w == [i \in 1..m |-> SegmentRow(p, i)]
  <2>1. m \in Nat \ {0} /\ n \in Nat /\ n + 1 = m /\ \A i \in 1..m : p[i] \in G
    BY <1>2, LenProperties, EmptySeq, ElementOfSeq
  <2>2. w \in [1..m -> Rows(G)] /\ Segments(p) = FlattenSeq(w)
    BY SegmentRows
  <2>3. \A i \in 1..n : SegmentRow(p, i) = <<>>
    <3>1. ASSUME NEW i \in 1..n PROVE SegmentRow(p, i) = <<>>
      <4>1. i # m /\ i + 1 \in 1..m
        <5>1. m \in Nat /\ n \in Nat /\ n + 1 = m /\ i \in 1..n
          BY <2>1
        <5> HIDE DEF m, n
        <5>2. QED
          BY <5>1
      <4>3. p[i + 1] \in G
        BY <2>1, <4>1
      <4>2. QED
        BY <4>1, <4>3 DEF SegmentRow
    <3>2. QED
      BY <3>1
  <2>4. \A i \in 1..n : w[i] = v[i]
    BY <2>1, <2>3
  <2>5. w[m] = <<PieceAt(p, "/", m)>> /\ PieceAt(p, "/", m) \in S
    <3>1. m \in 1..m /\ p[m] # "/"
      BY <2>1
    <3>2. QED
      BY <3>1, PieceType DEF SegmentRow
  <2>6. v \in [1..n -> {<<>>}]
    OBVIOUS
  <2> HIDE DEF v
  <2>7. FlattenSeq(v) = <<>>
    BY <2>1, <2>6, FlatOfNothing
  <2>8. Rows(G) = Seq(S)
    BY DEF Rows
  <2> HIDE DEF S, w, m, n
  <2>9. v \in [1..n -> Seq(S)] /\ w \in [1..(n + 1) -> Seq(S)]
    <3>1. <<>> \in Seq(S)
      BY EmptySeq
    <3>2. v \in [1..n -> Seq(S)]
      BY <2>6, <3>1
    <3>3. QED
      BY <2>1, <2>2, <2>8, <3>2
  <2>10. FlattenSeq(w) = Cat(FlattenSeq(v), w[n + 1])
    BY <2>1, <2>4, <2>9, FlatOfRow
  <2> DEFINE x == PieceAt(p, "/", m)
  <2>11. Segments(p) = Cat(<<>>, <<x>>)
    BY <2>1, <2>2, <2>5, <2>7, <2>10
  <2>12. Len(<<>>) = 0 /\ <<>> \in Seq(S) /\ x \in S
    BY <2>5, EmptySeq
  <2> HIDE DEF x
  <2>13. Len(Cat(<<>>, <<x>>)) = 0 + 1
    BY <2>12, CatOfOne
  <2>14. Len(Segments(p)) = 1
    BY <2>11, <2>13
  <2>15. QED
    BY <2>14
<1>3. QED
  BY <1>1, <1>2

\* Of a text that has one at one place at most.
LEMMA OnlyAtMostOne ==
  ASSUME NEW G, NEW K, NEW m \in Nat, NEW u \in Seq(G), \A j \in 1..Len(u) : u[j] \in K => j = m
  PROVE  Len(Only(u, K)) = IF m \in 1..Len(u) /\ u[m] \in K THEN 1 ELSE 0
<1> DEFINE Once(s) == \A j \in 1..Len(s) : s[j] \in K => j = m
           Counted(s) == Len(Only(s, K)) = IF m \in 1..Len(s) /\ s[m] \in K THEN 1 ELSE 0
           T == {s \in Seq(G) : Once(s) => Counted(s)}
<1>1. <<>> \in T
  <2>1. <<>> \in Seq(G) /\ Len(<<>>) = 0
    BY EmptySeq
  <2>2. Only(<<>>, K) = <<>>
    BY OnlyOfNone
  <2>3. QED
    BY <2>1, <2>2
<1>2. ASSUME NEW s \in Seq(G), NEW c \in G, s \in T PROVE Cat(s, <<c>>) \in T
  <2> DEFINE w == Cat(s, <<c>>)
             n == Len(s)
  <2>1. w \in Seq(G) /\ Len(w) = n + 1 /\ n \in Nat /\ w[n + 1] = c
    BY CatOfOne, LenProperties
  <2>2. \A i \in 1..n : w[i] = s[i]
    BY CatOfOne DEF CatInfo
  <2>3. Only(w, K) = IF c \in K THEN Cat(Only(s, K), <<c>>) ELSE Only(s, K)
    BY OnlyOfMore
  <2>4. SUFFICES ASSUME Once(w) PROVE Counted(w)
    BY <2>1
  <2>5. Once(s)
    <3> HIDE DEF w
    <3>1. \A j \in 1..n : j \in 1..(n + 1)
      BY <2>1
    <3>2. QED
      BY <2>1, <2>2, <2>4, <3>1
  <2>6. Len(Only(s, K)) = IF m \in 1..n /\ s[m] \in K THEN 1 ELSE 0
    BY <1>2, <2>5
  <2>7. CASE c \in K
    <3>1. n + 1 = m /\ m \notin 1..n /\ m \in 1..(n + 1)
      <4> HIDE DEF w
      <4>1. n + 1 \in 1..(n + 1)
        BY <2>1
      <4>2. n + 1 = m
        BY <2>1, <2>4, <2>7, <4>1
      <4>3. QED
        BY <2>1, <4>1, <4>2
    <3>2. Only(s, K) \in Seq(G)
      BY OnlyType
    <3>3. Len(Cat(Only(s, K), <<c>>)) = Len(Only(s, K)) + 1
      BY <3>2, CatOfOne
    <3> HIDE DEF w, n
    <3>4. Len(Only(w, K)) = 1
      <4>1. Len(Only(s, K)) = 0
        BY <2>6, <3>1
      <4>2. Only(w, K) = Cat(Only(s, K), <<c>>)
        BY <2>3, <2>7
      <4>3. QED
        BY <3>3, <4>1, <4>2
    <3>5. m \in 1..Len(w) /\ w[m] \in K
      BY <2>1, <2>7, <3>1
    <3>6. QED
      BY <3>4, <3>5
  <2>8. CASE c \notin K
    <3> HIDE DEF w, n
    <3>1. m \in 1..Len(w) /\ w[m] \in K <=> m \in 1..n /\ s[m] \in K
      <4>1. CASE m = n + 1
        BY <2>1, <2>8, <4>1
      <4>2. CASE m # n + 1
        <5>1. m \in 1..(n + 1) <=> m \in 1..n
          BY <2>1, <4>2
        <5>2. QED
          BY <2>1, <2>2, <5>1
      <4>3. QED
        BY <4>1, <4>2
    <3>2. QED
      BY <2>3, <2>6, <2>8, <3>1
  <2>9. QED
    BY <2>7, <2>8
<1> HIDE DEF T
<1>3. \A s \in Seq(G) : s \in T
  BY <1>1, <1>2, BySnoc
<1>4. QED
  BY <1>3 DEF T

\* The last two, if there are.
Named(q) == IF Len(q) < 2 THEN <<>> ELSE << <<q[Len(q) - 1]>>, <<q[Len(q)]>> >>

LEMMA LastTwo ==
  ASSUME NEW G, NEW q \in Seq(G)
  PROVE  LET s == Single(q) IN
           (IF Len(s) < 2 THEN <<>> ELSE SubSeq(s, Len(s) - 1, Len(s))) = Named(q)
<1> DEFINE s == Single(q)
           n == Len(q)
           S == Seq(G)
<1>1. n \in Nat /\ DOMAIN q = 1..n /\ \A i \in 1..n : q[i] \in G
  BY LenProperties, ElementOfSeq
<1>2. \A e \in G : <<e>> \in S
  OBVIOUS
<1> HIDE DEF n, S
<1>3. s \in [1..n -> S] /\ \A i \in 1..n : s[i] = <<q[i]>>
  BY <1>1, <1>2 DEF Single
<1> HIDE DEF s
<1>4. s \in Seq(S) /\ Len(s) = n
  BY <1>1, <1>3, Tabled
<1>5. CASE n < 2
  BY <1>4, <1>5 DEF Named, s, n
<1>6. CASE ~(n < 2)
  <2> DEFINE t == SubSeq(s, n - 1, n)
             r == << <<q[n - 1]>>, <<q[n]>> >>
  <2>1. n - 1 \in Int /\ n \in Int /\ n - 1 \in 1..n /\ n \in 1..n /\ \A i \in (n - 1)..n : s[i] \in S
    <3>1. \A i \in (n - 1)..n : i \in 1..n
      BY <1>1, <1>6
    <3>2. QED
      BY <1>1, <1>3, <1>6, <3>1
  <2>2. /\ t \in Seq(S) /\ Len(t) = IF n - 1 <= n THEN n - (n - 1) + 1 ELSE 0
        /\ \A i \in 1..(n - (n - 1) + 1) : t[i] = s[n - 1 + i - 1]
    BY <2>1, SubSeqProperties
  <2>3. n - (n - 1) + 1 = 2 /\ n - 1 + 1 - 1 = n - 1 /\ n - 1 + 2 - 1 = n /\ 1 \in 1..2 /\ 2 \in 1..2
    BY <2>1
  <2> HIDE DEF t
  <2>4. Len(t) = 2 /\ t[1] = <<q[n - 1]>> /\ t[2] = <<q[n]>>
    <3>1. n - 1 <= n
      BY <2>1
    <3>2. Len(t) = 2
      BY <2>2, <2>3, <3>1
    <3>3. t[1] = s[n - 1 + 1 - 1] /\ t[2] = s[n - 1 + 2 - 1]
      BY <2>2, <2>3
    <3>4. t[1] = s[n - 1] /\ t[2] = s[n]
      BY <2>3, <3>3
    <3>5. QED
      BY <1>3, <2>1, <3>2, <3>4
  <2>5. r \in Seq(S) /\ Len(r) = 2 /\ r[1] = <<q[n - 1]>> /\ r[2] = <<q[n]>>
    <3>1. <<q[n - 1]>> \in S /\ <<q[n]>> \in S
      BY <1>1, <1>2, <2>1
    <3>2. QED
      BY <3>1
  <2> HIDE DEF r
  <2>6. \A i \in 1..2 : i = 1 \/ i = 2
    OBVIOUS
  <2>7. \A i \in 1..Len(t) : t[i] = r[i]
    BY <2>4, <2>5, <2>6
  <2>8. t = r
    BY <2>2, <2>4, <2>5, <2>7, Alike
  <2>9. QED
    BY <1>4, <1>6, <2>8 DEF Named, n, s, t, r
<1>7. QED
  BY <1>5, <1>6

\* The name a URL gives, when its path is the rest behind place i.
LEMMA RepoNameOfPath ==
  ASSUME NEW u, NEW p \in Seq(Tokens), IsPath(p), PathOf(u) = p
  PROVE  RepoName(u) = Named(Only(p, PathNames))
<1> DEFINE q == Only(p, PathNames)
<1>1. SegsOf(p) = Single(q)
  BY PathSegments
<1>2. q \in Seq(Tokens)
  BY OnlyType
<1> HIDE DEF q
<1>3. (IF Len(Single(q)) < 2 THEN <<>> ELSE SubSeq(Single(q), Len(Single(q)) - 1, Len(Single(q)))) = Named(q)
  BY <1>2, LastTwo
<1>4. Segments(StripGit(TrimSlashes(PathOf(u)))) = Single(q)
  BY <1>1 DEF SegsOf
<1>5. QED
  BY <1>3, <1>4 DEF RepoName, q

\* Without one, what is behind the first slash.
LEMMA PathOfRest ==
  ASSUME NEW u \in Seq(Tokens), NEW k, NEW a, Cut(u, k, a), ~Full(a)
  PROVE  PathOf(u) = After(u, "/") /\ {"://", "@"} \cap ToSet(u) = {} /\ \A j \in 1..k : u[j] \notin PathNames \cup {"/"}
<1>1. Len(a) = k /\ \A j \in 1..k : u[j] = a[j]
  BY CutTokens
<1>2. \A j \in (k + 1)..Len(u) : u[j] \in PathNames \cup {"/", ".git"}
  BY CutTokens
<1>3. a = <<"host", ":">> \/ a = <<>>
  BY DEF Cut, Authorities, Full
<1>4. \A j \in 1..k : u[j] \in {"host", ":"}
  <2>1. CASE a = <<"host", ":">>
    <3>1. k = 2 /\ u[1] = "host" /\ u[2] = ":"
      BY <1>1, <2>1
    <3>2. \A j \in 1..2 : j = 1 \/ j = 2
      OBVIOUS
    <3>3. QED
      BY <3>1, <3>2
  <2>2. CASE a = <<>>
    <3>1. k = 0
      BY <1>1, <2>2
    <3>2. QED
      BY <3>1
  <2>3. QED
    BY <1>3, <2>1, <2>2
<1>5. {"://", "@", "host", ":", "/"} \cap PathNames = {}
  BY UrlsAssumption DEF Signs
<1>6. k \in 0..Len(u) /\ Len(u) \in Nat /\ DOMAIN u = 1..Len(u)
  BY LenProperties DEF Cut
<1>7. \A j \in 1..Len(u) : u[j] # "://" /\ u[j] # "@"
  <2>1. \A j \in 1..Len(u) : j \in 1..k \/ j \in (k + 1)..Len(u)
    BY <1>6
  <2>2. QED
    BY <1>2, <1>4, <1>5, <2>1
<1>8. "://" \notin ToSet(u) /\ "@" \notin ToSet(u)
  BY <1>6, <1>7 DEF ToSet
<1>9. QED
  BY <1>4, <1>5, <1>8 DEF PathOf

\* What a run is told of a URL.
Expected(u) ==
  LET names == Only(u, PathNames)
      k     == Len(names)
  IN IF k < 2 \/ (k = 2 /\ Bare(u)) THEN <<>> ELSE << <<names[k - 1]>>, <<names[k]>> >>

LEMMA RepoOfFull ==
  ASSUME NEW u \in Seq(Tokens), NEW k, NEW a, Cut(u, k, a), Full(a)
  PROVE  RepoName(u) = Expected(u)
<1> DEFINE p == SubSeq(u, k + 1, Len(u))
           s == SubSeq(u, 1, k)
<1>1. PathOf(u) = p /\ ~Bare(u)
  BY PathOfFull
<1>2. k \in 0..Len(u) /\ IsPath(p) /\ s = a
  BY DEF Cut
<1>3. s \in Seq(Tokens) /\ p \in Seq(Tokens) /\ u = Cat(s, p)
  BY <1>2, CutInTwo
<1>4. a \in Seq(Signs)
  <2>1. {"https", "://", "git", "@", "host", "/", ":"} \subseteq Signs
    BY DEF Signs
  <2>2. CASE a = <<"https", "://", "host", "/">>
    BY <2>1, <2>2
  <2>3. CASE a = <<"https", "://", "git", "@", "host", "/">>
    BY <2>1, <2>3
  <2>4. CASE a = <<"https", "://", "/">>
    BY <2>1, <2>4
  <2>5. CASE a = <<"git", "@", "host", ":">>
    BY <2>1, <2>5
  <2>6. QED
    BY <2>2, <2>3, <2>4, <2>5 DEF Full
<1> HIDE DEF s, p
<1>5. Only(a, PathNames) = <<>>
  BY <1>4, UrlsAssumption, OnlyOfOthers
<1>6. Only(u, PathNames) = Cat(<<>>, Only(p, PathNames))
  BY <1>2, <1>3, <1>5, OnlyOfCat
<1>7. Cat(<<>>, Only(p, PathNames)) = Only(p, PathNames)
  BY <1>3, OnlyType, CatOfNone
<1>8. RepoName(u) = Named(Only(p, PathNames))
  BY <1>1, <1>2, <1>3, RepoNameOfPath
<1>9. QED
  BY <1>1, <1>6, <1>7, <1>8 DEF Expected, Named

\* The names of a bare URL before its first slash.
LEMMA BareNames ==
  ASSUME NEW u \in Seq(Tokens), NEW k, NEW a, Cut(u, k, a), ~Full(a), NEW i \in 0..Len(u),
         \A j \in 1..(i - 1) : u[j] # "/"
  PROVE  Len(Only(SubSeq(u, 1, i), PathNames)) = IF k + 1 \in 1..i /\ u[k + 1] \in PathNames THEN 1 ELSE 0
<1> DEFINE f == SubSeq(u, 1, i)
<1>1. f \in Seq(Tokens) /\ Len(f) = i /\ \A j \in 1..i : f[j] = u[j]
  BY CutInTwo
<1>2. k \in 0..Len(u) /\ Len(u) \in Nat
  BY LenProperties DEF Cut
<1>3. \A j \in (k + 2)..Len(u) : u[j] \in PathNames => u[j - 1] = "/"
  BY CutTokens
<1>4. \A j \in 1..k : u[j] \notin PathNames
  BY PathOfRest
<1>5. ASSUME NEW j \in 1..i, u[j] \in PathNames PROVE j = k + 1
  <2>1. j \notin 1..k
    BY <1>4, <1>5
  <2>2. j \in (k + 2)..Len(u) => j - 1 \in 1..(i - 1)
    BY <1>2
  <2>3. j \notin (k + 2)..Len(u)
    BY <1>3, <1>5, <2>2
  <2>4. QED
    BY <1>2, <2>1, <2>3
<1> HIDE DEF f
<1>6. \A j \in 1..Len(f) : f[j] \in PathNames => j = k + 1
  BY <1>1, <1>5
<1>7. k + 1 \in Nat
  BY <1>2
<1>8. Len(Only(f, PathNames)) = IF k + 1 \in 1..Len(f) /\ f[k + 1] \in PathNames THEN 1 ELSE 0
  BY <1>1, <1>6, <1>7, OnlyAtMostOne
<1>9. QED
  BY <1>1, <1>8 DEF f

LEMMA RepoOfRest ==
  ASSUME NEW u \in Seq(Tokens), NEW k, NEW a, Cut(u, k, a), ~Full(a)
  PROVE  RepoName(u) = Expected(u)
<1> DEFINE n == Len(u)
<1>1. k \in 0..n /\ n \in Nat /\ DOMAIN u = 1..n /\ \A j \in 1..n : u[j] \in Tokens
  BY LenProperties, ElementOfSeq DEF Cut
<1>2. PathOf(u) = After(u, "/") /\ {"://", "@"} \cap ToSet(u) = {} /\ \A j \in 1..k : u[j] \notin PathNames \cup {"/"}
  BY PathOfRest
<1>3. CASE \A j \in 1..n : u[j] # "/"
  <2> DEFINE G == Tokens \ {"/"}
  <2>1. PathOf(u) = u
    BY <1>2, <1>3, AfterNone
  <2>2. u \in Seq(G)
    <3>1. u = [j \in 1..n |-> u[j]] /\ n \in Nat
      BY LenProperties
    <3>2. \A j \in 1..n : u[j] \in G
      BY <1>1, <1>3
    <3> HIDE DEF G
    <3>3. [j \in 1..n |-> u[j]] \in Seq(G)
      BY <3>1, <3>2
    <3>4. QED
      BY <3>1, <3>3
  <2>3. "/" \notin G
    OBVIOUS
  <2> HIDE DEF G
  <2>4. StripGit(TrimSlashes(u)) \in Seq(G)
    <3> DEFINE t == TrimSlashes(u)
    <3>1. t \in Seq(G)
      BY <2>2, TrimType DEF TrimSlashes
    <3> HIDE DEF t
    <3>2. CASE t # <<>>
      <4>1. SubSeq(t, 1, Len(t) - 1) \in Seq(G)
        BY <3>1, <3>2, MoreOf
      <4>2. QED
        BY <3>1, <4>1 DEF StripGit, Front, t
    <3>3. CASE t = <<>>
      BY <3>1, <3>3 DEF StripGit, t
    <3>4. QED
      BY <3>2, <3>3
  <2>5. Len(Segments(StripGit(TrimSlashes(u)))) < 2
    BY <2>3, <2>4, SegmentsOfOne
  <2>6. RepoName(u) = <<>>
    BY <2>1, <2>5 DEF RepoName
  <2>7. Len(Only(u, PathNames)) < 2
    <3>1. n \in 0..n /\ \A j \in 1..(n - 1) : u[j] # "/"
      BY <1>1, <1>3
    <3>2. SubSeq(u, 1, n) = u
      BY SubSeqFull
    <3>3. Len(Only(SubSeq(u, 1, n), PathNames)) = IF k + 1 \in 1..n /\ u[k + 1] \in PathNames THEN 1 ELSE 0
      BY <3>1, BareNames
    <3>4. Len(Only(u, PathNames)) = 1 \/ Len(Only(u, PathNames)) = 0
      BY <3>2, <3>3
    <3> DEFINE x == Len(Only(u, PathNames))
    <3>5. x = 1 \/ x = 0
      BY <3>4
    <3> HIDE DEF x
    <3>6. x < 2
      BY <3>5
    <3>7. QED
      BY <3>6 DEF x
  <2>8. QED
    BY <2>6, <2>7 DEF Expected
<1>4. CASE ~\A j \in 1..n : u[j] # "/"
  <2>1. PICK i \in 1..n : u[i] = "/" /\ \A j \in 1..(i - 1) : u[j] # "/"
    <3> DEFINE T == {j \in 1..n : u[j] = "/"}
    <3>1. T # {} /\ T \in SUBSET Nat
      BY <1>4
    <3> HIDE DEF T
    <3>2. PICK i \in T : \A j \in T : i <= j
      BY <3>1, Least
    <3>3. i \in 1..n /\ u[i] = "/"
      BY <3>2 DEF T
    <3>4. \A j \in 1..(i - 1) : u[j] # "/"
      <4>1. ASSUME NEW j \in 1..(i - 1), u[j] = "/" PROVE FALSE
        <5>1. j \in 1..n /\ ~(i <= j)
          BY <1>1, <3>3
        <5>2. j \in T
          BY <4>1, <5>1 DEF T
        <5>3. QED
          BY <3>2, <5>1, <5>2
      <4>2. QED
        BY <4>1
    <3>5. QED
      BY <3>3, <3>4
  <2> DEFINE f == SubSeq(u, 1, i)
             p == SubSeq(u, i + 1, n)
             q == Only(p, PathNames)
             h == Only(f, PathNames)
             c == Only(u, PathNames)
  <2>2. i \in 0..n /\ i \in Nat /\ i \in k..n
    <3>1. ~(i \in 1..k)
      BY <1>2, <2>1
    <3>2. QED
      BY <1>1, <3>1
  <2>3. PathOf(u) = p
    <3>1. After(u, "/") = SubSeq(u, i + 1, Len(u))
      BY <2>1, AfterFirst
    <3>2. QED
      BY <1>2, <3>1
  <2>4. f \in Seq(Tokens) /\ p \in Seq(Tokens) /\ u = Cat(f, p)
    BY <2>2, CutInTwo
  <2>5. IsPath(p)
    BY <1>1, <2>1, <2>2, PathBehind DEF Cut
  <2>6. RepoName(u) = Named(q)
    <3> HIDE DEF p
    <3>1. QED
      BY <2>3, <2>4, <2>5, RepoNameOfPath
  <2>7. c = Cat(h, q) /\ h \in Seq(Tokens) /\ q \in Seq(Tokens)
    <3> HIDE DEF f, p
    <3>1. h \in Seq(Tokens) /\ q \in Seq(Tokens)
      BY <2>4, OnlyType
    <3>2. c = Cat(h, q)
      BY <2>4, OnlyOfCat
    <3>3. QED
      BY <3>1, <3>2
  <2>8. Len(h) = IF k + 1 \in 1..i /\ u[k + 1] \in PathNames THEN 1 ELSE 0
    BY <2>1, <2>2, BareNames
  <2>9. Bare(u) <=> k + 1 \in 1..i /\ u[k + 1] \in PathNames
    <3>1. ASSUME NEW j \in 1..n, u[j] \in PathNames, \A m \in 1..j : u[m] # "/"
          PROVE  k + 1 \in 1..i /\ u[k + 1] \in PathNames
      <4>1. ~(i \in 1..j)
        BY <2>1, <3>1
      <4>2. j < i
        BY <1>1, <2>2, <4>1
      <4>3. ~(j \in 1..k)
        BY <1>2, <3>1
      <4>4. ~(j \in (k + 2)..n)
        <5>1. ASSUME j \in (k + 2)..n PROVE FALSE
          <6>1. u[j - 1] = "/"
            BY <3>1, <5>1, CutTokens
          <6>2. j - 1 \in 1..j
            BY <1>1, <5>1
          <6>3. QED
            BY <3>1, <6>1, <6>2
        <5>2. QED
          BY <5>1
      <4>5. j = k + 1
        BY <1>1, <4>3, <4>4
      <4>6. QED
        BY <2>2, <3>1, <4>2, <4>5
    <3>2. ASSUME k + 1 \in 1..i, u[k + 1] \in PathNames PROVE Bare(u)
      <4>1. u[k + 1] # "/"
        BY <3>2, NamesApart
      <4>2. k + 1 # i /\ k + 1 \in 1..n
        BY <1>1, <2>1, <2>2, <3>2, <4>1
      <4>3. \A m \in 1..(k + 1) : m \in 1..(i - 1)
        BY <1>1, <2>2, <3>2, <4>2
      <4>4. \A m \in 1..(k + 1) : u[m] # "/"
        BY <2>1, <4>3
      <4>5. QED
        BY <1>1, <1>2, <3>2, <4>2, <4>4 DEF Bare
    <3>3. QED
      BY <1>1, <3>1, <3>2 DEF Bare
  <2>10. CatInfo(h, q, Tokens)
    <3> HIDE DEF h, q
    <3>1. QED
      BY <2>7, CatIs
  <2> HIDE DEF f, p, h, q, c, n
  <2>11. Len(c) = Len(h) + Len(q) /\ Len(h) \in Nat /\ Len(q) \in Nat /\ \A m \in 1..Len(q) : c[Len(h) + m] = q[m]
    BY <2>7, <2>10 DEF CatInfo
  <2>12. Named(q) = IF Len(c) < 2 \/ (Len(c) = 2 /\ Bare(u)) THEN <<>> ELSE << <<c[Len(c) - 1]>>, <<c[Len(c)]>> >>
    <3>1. Len(h) = IF Bare(u) THEN 1 ELSE 0
      BY <2>8, <2>9
    <3>2. Len(q) < 2 <=> Len(c) < 2 \/ (Len(c) = 2 /\ Bare(u))
      BY <2>11, <3>1
    <3>3. ~(Len(q) < 2) => c[Len(c) - 1] = q[Len(q) - 1] /\ c[Len(c)] = q[Len(q)]
      <4>1. ~(Len(q) < 2) => /\ Len(q) - 1 \in 1..Len(q) /\ Len(q) \in 1..Len(q)
                             /\ Len(h) + (Len(q) - 1) = Len(c) - 1 /\ Len(h) + Len(q) = Len(c)
        BY <2>11
      <4>2. QED
        BY <2>11, <4>1
    <3>4. QED
      BY <3>2, <3>3 DEF Named
  <2>13. QED
    BY <2>6, <2>12 DEF Expected, c
<1>5. QED
  BY <1>3, <1>4

LEMMA RepoOfUrl ==
  ASSUME NEW u \in Urls \cup {NoUrl}
  PROVE  RepoName(u) = Expected(u)
<1>1. u \in Seq(Tokens)
  BY UrlShape
<1>2. PICK k, a : Cut(u, k, a)
  BY UrlShape
<1>3. QED
  BY <1>1, <1>2, RepoOfFull, RepoOfRest

\* The URL is one that git has, and the name is read off it.
UrlInv ==
  /\ origin \in Urls \cup {NoUrl}
  /\ meta = [pc |-> meta.pc, asked |-> meta.asked, name |-> meta.name, commit |-> meta.commit,
             url |-> meta.url, repo |-> meta.repo, tagged |-> meta.tagged]
  /\ meta.pc \in {"commit", "done"} => meta.url \in Urls \cup {NoUrl} /\ meta.repo = RepoName(meta.url)

LEMMA UrlKept ==
  ASSUME UrlInv, [GitNext]_gitVars
  PROVE  UrlInv'
<1>1. CASE UNCHANGED gitVars
  BY <1>1 DEF UrlInv, gitVars
<1>2. CASE GitNext
  <2>1. ASSUME UNCHANGED meta, origin' \in Urls \cup {NoUrl} PROVE UrlInv'
    BY <2>1 DEF UrlInv
  <2>2. ASSUME NEW b \in Branches, Checkout(b) \/ TagAs(b) \/ DeleteBranch(b) PROVE UrlInv'
    BY <2>1, <2>2 DEF Checkout, TagAs, DeleteBranch, Moves, UrlInv
  <2>3. ASSUME Detach \/ NewCommit PROVE UrlInv'
    BY <2>1, <2>3 DEF Detach, NewCommit, Moves, UrlInv
  <2>4. ASSUME NEW url \in Urls \cup {NoUrl}, MoveRemote(url) PROVE UrlInv'
    BY <2>1, <2>4 DEF MoveRemote, Moves
  <2>5. ASSUME CurrentBranch PROVE UrlInv'
    BY <2>5 DEF CurrentBranch, Gather, UrlInv, repository
  <2>6. ASSUME Remote PROVE UrlInv'
    BY <2>6 DEF Remote, Gather, UrlInv, repository
  <2>7. ASSUME Commit_ PROVE UrlInv'
    BY <2>7 DEF Commit_, Gather, UrlInv, repository
  <2>8. QED
    BY <1>2, <2>2, <2>3, <2>4, <2>5, <2>6, <2>7 DEF GitNext
<1>3. QED
  BY <1>1, <1>2

\* The name sent along is read off the URL sent along, and is the last two names of
\* its path, for any URL of git's notations and any path (git.rs:229-257).
THEOREM RepoIsItsRemotes == GitSpec => []RepoIsOfRemote
<1>1. GitInit => UrlInv
  <2> SUFFICES ASSUME GitInit PROVE UrlInv
    OBVIOUS
  <2>1. origin \in Urls \cup {NoUrl}
    BY DEF GitInit
  <2>2. PICK asked \in {""} \cup Branches :
           meta = [pc |-> "branch", asked |-> asked, name |-> "", commit |-> Zero, url |-> NoUrl,
                   repo |-> <<>>, tagged |-> FALSE]
    BY DEF GitInit
  <2>3. QED
    BY <2>1, <2>2 DEF UrlInv
<1>2. UrlInv => RepoIsOfRemote
  <2> SUFFICES ASSUME UrlInv, meta.pc \in {"commit", "done"} PROVE RepoIsOfRemote
    BY DEF RepoIsOfRemote
  <2>1. meta.repo = Expected(meta.url)
    BY RepoOfUrl DEF UrlInv
  <2>2. QED
    BY <2>1, Zenon DEF RepoIsOfRemote, Expected, Bare
<1>3. QED
  BY <1>1, <1>2, UrlKept, PTL DEF GitSpec

\* The git facts of a build are about one checkout, for any branches and remotes and
\* whatever the user does between the processes that read them (git.rs:94-186).
THEOREM MetaHolds == GitSpec => []MetaIsOfCheckout
BY CommitIsItsBranchs, RepoIsItsRemotes, PTL DEF MetaIsOfCheckout

-----------------------------------------------------------------------------
(* StepOutput: the lines of a text.                                         *)

\* A line, less its carriage return if that is asked for.
Chop(l, chop) == IF chop /\ l # <<>> /\ Last(l) = "cr" THEN Front(l) ELSE l

LineOf(t, i, chop) == IF t[i] = "nl" THEN Chop(PieceAt(t, "nl", i), chop) ELSE PieceAt(t, "nl", i)

EndedRow(t, i, chop) == IF t[i] = "nl" THEN <<LineOf(t, i, chop)>> ELSE <<>>
LinesRow(t, i, chop) == IF EndsAt(t, i) THEN <<LineOf(t, i, chop)>> ELSE <<>>

\* The lines that end in a newline, and all.
EndedOf(t, chop) == FlattenSeq([i \in 1..Len(t) |-> EndedRow(t, i, chop)])
AllOf(t, chop) == FlattenSeq([i \in 1..Len(t) |-> LinesRow(t, i, chop)])

LEMMA AllAre ==
  ASSUME NEW G, NEW t \in Seq(G)
  PROVE  Pieces(t) = AllOf(t, FALSE) /\ TextLines(t) = AllOf(t, TRUE)
<1>1. DOMAIN t = 1..Len(t)
  BY LenProperties
<1>2. \A i \in 1..Len(t) : LineOf(t, i, FALSE) = PieceAt(t, "nl", i) /\ LineOf(t, i, TRUE) = LineAt(t, i)
  BY DEF LineOf, Chop, LineAt
<1>3. [i \in DOMAIN t |-> IF EndsAt(t, i) THEN <<PieceAt(t, "nl", i)>> ELSE <<>>]
        = [i \in 1..Len(t) |-> LinesRow(t, i, FALSE)]
  BY <1>1, <1>2 DEF LinesRow
<1>4. [i \in DOMAIN t |-> IF EndsAt(t, i) THEN <<LineAt(t, i)>> ELSE <<>>]
        = [i \in 1..Len(t) |-> LinesRow(t, i, TRUE)]
  BY <1>1, <1>2 DEF LinesRow
<1>5. QED
  BY <1>3, <1>4 DEF Pieces, TextLines, AllOf

LEMMA ChopType ==
  ASSUME NEW G, NEW l \in Seq(G), NEW chop
  PROVE  Chop(l, chop) \in Seq(G) /\ TrimCr(Chop(l, chop)) = TrimCr(l)
<1>1. CASE chop /\ l # <<>> /\ Last(l) = "cr"
  <2> DEFINE f == SubSeq(l, 1, Len(l) - 1)
  <2>1. f \in Seq(G) /\ l = Cat(f, <<l[Len(l)]>>) /\ l[Len(l)] \in G
    BY <1>1, MoreOf
  <2>2. l[Len(l)] = "cr" /\ Chop(l, chop) = f
    BY <1>1 DEF Chop, Last, Front
  <2> HIDE DEF f
  <2>3. "cr" \in G /\ l = Cat(f, <<"cr">>)
    BY <2>1, <2>2
  <2>4. TrimEnd(Cat(f, <<"cr">>), "cr") = TrimEnd(f, "cr")
    BY <2>1, <2>3, TrimOfMore
  <2>5. TrimEnd(l, "cr") = TrimEnd(f, "cr")
    BY <2>3, <2>4
  <2>6. QED
    BY <2>1, <2>2, <2>5 DEF TrimCr
<1>2. CASE ~(chop /\ l # <<>> /\ Last(l) = "cr")
  BY <1>2 DEF Chop
<1>3. QED
  BY <1>1, <1>2

\* With one character more, both grow by a row.
EndedGrown(t, c, chop) ==
  /\ c = "nl" => EndedOf(Cat(t, <<c>>), chop) = Cat(EndedOf(t, chop), <<Chop(Rest(t, "nl"), chop)>>)
  /\ c # "nl" => EndedOf(Cat(t, <<c>>), chop) = EndedOf(t, chop)
AllGrown(t, c, chop) ==
  /\ c = "nl" => AllOf(Cat(t, <<c>>), chop) = Cat(EndedOf(t, chop), <<Chop(Rest(t, "nl"), chop)>>)
  /\ c # "nl" => AllOf(Cat(t, <<c>>), chop) = Cat(EndedOf(t, chop), <<Cat(Rest(t, "nl"), <<c>>)>>)

LEMMA LinesGrow ==
  ASSUME NEW G, NEW t \in Seq(G), NEW c \in G, NEW chop
  PROVE  EndedGrown(t, c, chop) /\ AllGrown(t, c, chop) /\ EndedOf(t, chop) \in Rows(G)
<1> DEFINE w == Cat(t, <<c>>)
           n == Len(t)
           S == Seq(G)
           x == IF c = "nl" THEN Chop(Rest(t, "nl"), chop) ELSE Cat(Rest(t, "nl"), <<c>>)
           u == [i \in 1..n |-> EndedRow(t, i, chop)]
           v == [i \in 1..(n + 1) |-> EndedRow(w, i, chop)]
           z == [i \in 1..(n + 1) |-> LinesRow(w, i, chop)]
<1>1. w \in Seq(G) /\ Len(w) = n + 1 /\ n \in Nat /\ w[n + 1] = c
  BY CatOfOne, LenProperties
<1>2. \A i \in 1..n : w[i] = t[i]
  BY CatOfOne DEF CatInfo
<1>3. \A i \in 1..n : PieceAt(w, "nl", i) = PieceAt(t, "nl", i)
  <2>1. PiecesKept(t, c, "nl")
    BY PieceOfMore
  <2>2. QED
    BY <2>1 DEF PiecesKept
<1>4. PieceAt(w, "nl", n + 1) = IF c = "nl" THEN Rest(t, "nl") ELSE Cat(Rest(t, "nl"), <<c>>)
  BY PieceOfMore
<1>5. \A i \in 1..n : LineOf(w, i, chop) \in S /\ LineOf(w, i, chop) = LineOf(t, i, chop)
  <2>1. ASSUME NEW i \in 1..n PROVE LineOf(w, i, chop) \in S /\ LineOf(w, i, chop) = LineOf(t, i, chop)
    <3>1. PieceAt(t, "nl", i) \in Seq(G)
      BY PieceType
    <3>2. Chop(PieceAt(t, "nl", i), chop) \in Seq(G)
      BY <3>1, ChopType
    <3>3. w[i] = t[i] /\ PieceAt(w, "nl", i) = PieceAt(t, "nl", i)
      BY <1>2, <1>3
    <3> HIDE DEF w
    <3>4. QED
      BY <3>1, <3>2, <3>3 DEF LineOf
  <2>2. QED
    BY <2>1
<1>6. LineOf(w, n + 1, chop) = x /\ x \in S
  <2>1. Rest(t, "nl") \in Seq(G)
    <3>1. Rest(t, "nl") \in Seq(G \ {"nl"})
      BY RestType
    <3>2. QED
      BY <3>1, SeqMonotonic
  <2>2. Chop(Rest(t, "nl"), chop) \in Seq(G)
    BY <2>1, ChopType
  <2>3. Cat(Rest(t, "nl"), <<c>>) \in Seq(G)
    BY <2>1, CatOfOne
  <2> HIDE DEF w
  <2>4. QED
    BY <1>1, <1>4, <2>2, <2>3 DEF LineOf
<1>7. \A i \in 1..n : EndedRow(w, i, chop) = EndedRow(t, i, chop) /\ LinesRow(w, i, chop) = EndedRow(t, i, chop)
  <2> HIDE DEF w
  <2>1. \A i \in 1..n : i # n + 1
    BY <1>1
  <2>2. QED
    BY <1>1, <1>2, <1>5, <2>1 DEF EndedRow, LinesRow, EndsAt
<1>8. EndedRow(w, n + 1, chop) = (IF c = "nl" THEN <<x>> ELSE <<>>) /\ LinesRow(w, n + 1, chop) = <<x>>
  <2> HIDE DEF w, x
  <2>1. QED
    BY <1>1, <1>6 DEF EndedRow, LinesRow, EndsAt
<1>9. /\ <<>> \in Seq(S) /\ <<x>> \in Seq(S)
      /\ \A i \in 1..n : EndedRow(t, i, chop) \in Seq(S)
  <2> HIDE DEF S, w, x
  <2>1. \A e \in S : <<e>> \in Seq(S)
    OBVIOUS
  <2>2. <<>> \in Seq(S)
    BY EmptySeq
  <2>3. QED
    BY <1>5, <1>6, <2>1, <2>2 DEF EndedRow
<1>10. n + 1 \in 1..(n + 1) /\ \A i \in 1..(n + 1) : i # n + 1 => i \in 1..n
  BY <1>1
<1> HIDE DEF S, w, x, n
<1>11. u \in [1..n -> Seq(S)] /\ v \in [1..(n + 1) -> Seq(S)] /\ z \in [1..(n + 1) -> Seq(S)]
  <2>1. \A i \in 1..(n + 1) : EndedRow(w, i, chop) \in Seq(S) /\ LinesRow(w, i, chop) \in Seq(S)
    BY <1>7, <1>8, <1>9, <1>10
  <2>2. QED
    BY <1>9, <2>1
<1>12. (\A i \in 1..n : v[i] = u[i] /\ z[i] = u[i]) /\ v[n + 1] = (IF c = "nl" THEN <<x>> ELSE <<>>) /\ z[n + 1] = <<x>>
  <2>1. \A i \in 1..n : i \in 1..(n + 1)
    BY <1>1
  <2>2. QED
    BY <1>7, <1>8, <1>10, <2>1
<1>13. FlattenSeq(u) = EndedOf(t, chop) /\ FlattenSeq(v) = EndedOf(w, chop) /\ FlattenSeq(z) = AllOf(w, chop)
  BY <1>1 DEF EndedOf, AllOf, n
<1> HIDE DEF u, v, z
<1>14. FlattenSeq(v) = Cat(FlattenSeq(u), v[n + 1]) /\ FlattenSeq(z) = Cat(FlattenSeq(u), z[n + 1])
  <2>1. n \in Nat /\ u \in [1..n -> Seq(S)]
    BY <1>1, <1>11
  <2>2. FlattenSeq(v) = Cat(FlattenSeq(u), v[n + 1])
    <3>1. v \in [1..(n + 1) -> Seq(S)] /\ \A i \in 1..n : v[i] = u[i]
      BY <1>11, <1>12
    <3>2. QED
      BY <2>1, <3>1, FlatOfRow
  <2>3. FlattenSeq(z) = Cat(FlattenSeq(u), z[n + 1])
    <3>1. z \in [1..(n + 1) -> Seq(S)] /\ \A i \in 1..n : z[i] = u[i]
      BY <1>11, <1>12
    <3>2. QED
      BY <2>1, <3>1, FlatOfRow
  <2>4. QED
    BY <2>2, <2>3
<1>15. FlattenSeq(u) \in Seq(S)
  <2>1. u \in Rows(S)
    BY <1>1, <1>11, RowsAre
  <2>2. QED
    BY <2>1, FlatType
<1>16. Cat(FlattenSeq(u), <<>>) = FlattenSeq(u)
  BY <1>15, CatOfNone
<1>17. EndedOf(t, chop) \in Rows(G)
  BY <1>13, <1>15 DEF Rows, S
<1>18. EndedOf(w, chop) = IF c = "nl" THEN Cat(EndedOf(t, chop), <<x>>) ELSE EndedOf(t, chop)
  BY <1>12, <1>13, <1>14, <1>16
<1>19. AllOf(w, chop) = Cat(EndedOf(t, chop), <<x>>)
  BY <1>12, <1>13, <1>14
<1>20. (c = "nl" => x = Chop(Rest(t, "nl"), chop)) /\ (c # "nl" => x = Cat(Rest(t, "nl"), <<c>>))
  BY DEF x
<1>21. EndedGrown(t, c, chop)
  BY <1>18, <1>20 DEF w, EndedGrown
<1>22. AllGrown(t, c, chop)
  BY <1>19, <1>20 DEF w, AllGrown
<1>23. QED
  BY <1>17, <1>21, <1>22

LEMMA LinesOfNone ==
  ASSUME NEW chop
  PROVE  EndedOf(<<>>, chop) = <<>> /\ AllOf(<<>>, chop) = <<>>
<1>1. Len(<<>>) = 0
  OBVIOUS
<1>2. [i \in 1..Len(<<>>) |-> EndedRow(<<>>, i, chop)] = <<>> /\ [i \in 1..Len(<<>>) |-> LinesRow(<<>>, i, chop)] = <<>>
  BY <1>1
<1>3. QED
  BY <1>2, FlatOfNone DEF EndedOf, AllOf

\* All are those that ended and, if there is something behind them, that.
LEMMA AllIsEnded ==
  ASSUME NEW G, NEW t \in Seq(G), NEW chop
  PROVE  AllOf(t, chop) = IF Rest(t, "nl") = <<>> THEN EndedOf(t, chop) ELSE Cat(EndedOf(t, chop), <<Rest(t, "nl")>>)
<1>1. CASE t = <<>>
  BY <1>1, LinesOfNone, RestOfNone
<1>2. CASE t # <<>>
  <2> DEFINE f == SubSeq(t, 1, Len(t) - 1)
             c == t[Len(t)]
  <2>1. f \in Seq(G) /\ c \in G /\ t = Cat(f, <<c>>)
    BY <1>2, MoreOf
  <2> HIDE DEF f, c
  <2>2. EndedGrown(f, c, chop) /\ AllGrown(f, c, chop)
    BY <2>1, LinesGrow
  <2>3. Rest(t, "nl") = IF c = "nl" THEN <<>> ELSE Cat(Rest(f, "nl"), <<c>>)
    BY <2>1, RestOfMore
  <2>4. CASE c = "nl"
    BY <2>1, <2>2, <2>3, <2>4, Zenon DEF EndedGrown, AllGrown
  <2>5. CASE c # "nl"
    <3>1. Rest(f, "nl") \in Seq(G \ {"nl"}) /\ c \in G \ {"nl"}
      BY <2>1, <2>5, RestType
    <3>2. Len(Cat(Rest(f, "nl"), <<c>>)) = Len(Rest(f, "nl")) + 1 /\ Len(Rest(f, "nl")) \in Nat
      BY <3>1, CatOfOne, LenProperties
    <3>3. Cat(Rest(f, "nl"), <<c>>) # <<>>
      <4> DEFINE m == Len(Rest(f, "nl"))
                 q == Cat(Rest(f, "nl"), <<c>>)
      <4>1. Len(q) = m + 1 /\ m \in Nat
        BY <3>2
      <4> HIDE DEF m, q
      <4>2. q # <<>>
        BY <4>1
      <4>3. QED
        BY <4>2 DEF q
    <3>4. QED
      BY <2>1, <2>2, <2>3, <2>5, <3>3, Zenon DEF EndedGrown, AllGrown
  <2>6. QED
    BY <2>4, <2>5
<1>3. QED
  BY <1>1, <1>2


\* The lines that ended are rows of characters.
LEMMA EndedType ==
  ASSUME NEW G, NEW chop
  PROVE  \A t \in Seq(G) : EndedOf(t, chop) \in Rows(G)
<1>1. ASSUME NEW t \in Seq(G) PROVE EndedOf(t, chop) \in Rows(G)
  <2>1. CASE t = <<>>
    BY <2>1, LinesOfNone, RowsAre
  <2>2. CASE t # <<>>
    <3>1. t[Len(t)] \in G
      BY <2>2, MoreOf
    <3>2. QED
      BY <3>1, LinesGrow
  <2>3. QED
    BY <2>1, <2>2
<1>2. QED
  BY <1>1

\* Up to the last newline a text has the lines that end.
LEMMA UpToLast ==
  ASSUME NEW G
  PROVE  \A t \in Seq(G) : Pieces(SubSeq(t, 1, Complete(t))) = EndedOf(t, FALSE) /\ Behind(t) = Rest(t, "nl")
<1>1. \A t \in Seq(G) : Behind(t) = Rest(t, "nl")
  BY DEF Behind, Rest, Complete
<1> DEFINE Up(t) == SubSeq(t, 1, Complete(t))
           T == {t \in Seq(G) : Up(t) \in Seq(G) /\ Pieces(Up(t)) = EndedOf(t, FALSE)}
<1>2. <<>> \in T
  <2>1. Len(<<>>) = 0 /\ Complete(<<>>) = 0 /\ <<>> \in Seq(G)
    BY EmptySeq DEF Complete, LastBefore
  <2>2. Up(<<>>) = <<>>
    BY <2>1, SubSeqEmpty
  <2>3. Pieces(<<>>) = <<>>
    BY <2>1, AllAre, LinesOfNone
  <2>4. QED
    BY <2>1, <2>2, <2>3, LinesOfNone
<1>3. ASSUME NEW t \in Seq(G), NEW c \in G, t \in T PROVE Cat(t, <<c>>) \in T
  <2> DEFINE w == Cat(t, <<c>>)
             n == Len(t)
             k == LastBefore(t, "nl", n + 1)
  <2>1. w \in Seq(G) /\ Len(w) = n + 1 /\ n \in Nat /\ w[n + 1] = c /\ n + 2 \in Nat /\ n + 1 + 1 = n + 2
    BY CatOfOne, LenProperties
  <2>2. IsLast(k, t, "nl", n + 1) /\ IsLast(LastBefore(t, "nl", n + 2), t, "nl", n + 2)
    BY <2>1, LastBeforeIs
  <2>3. LastBefore(t, "nl", n + 2) = k
    <3> DEFINE j == LastBefore(t, "nl", n + 2)
    <3>1. IsLast(j, t, "nl", n + 2)
      BY <2>2
    <3>2. IsLast(j, t, "nl", n + 1)
      <4> HIDE DEF j
      <4>1. QED
        BY <2>1, <3>1 DEF IsLast
    <3>3. n + 1 \in Nat
      BY <2>1
    <3> HIDE DEF j
    <3>4. QED
      BY <3>2, <3>3, OneLast DEF j
  <2>4. LastBefore(w, "nl", n + 2) = IF c = "nl" THEN n + 1 ELSE k
    <3>1. n + 1 < n + 2
      BY <2>1
    <3>2. QED
      BY <2>1, <2>3, <3>1, LastBeforeOfMore
  <2>5. Complete(w) = IF c = "nl" THEN n + 1 ELSE Complete(t)
    BY <2>1, <2>4 DEF Complete
  <2>6. Up(t) \in Seq(G) /\ Pieces(Up(t)) = EndedOf(t, FALSE)
    BY <1>3
  <2>7. EndedGrown(t, c, FALSE) /\ AllGrown(t, c, FALSE)
    BY LinesGrow
  <2>8. CASE c = "nl"
    <3>1. Up(w) = w
      BY <2>1, <2>5, <2>8, SubSeqFull
    <3>2. Pieces(w) = AllOf(w, FALSE)
      BY <2>1, AllAre
    <3>3. EndedOf(w, FALSE) = AllOf(w, FALSE)
      BY <2>7, <2>8, Zenon DEF EndedGrown, AllGrown
    <3> HIDE DEF w, Up
    <3>4. Up(w) \in Seq(G) /\ Pieces(Up(w)) = EndedOf(w, FALSE)
      BY <2>1, <3>1, <3>2, <3>3
    <3>5. QED
      BY <2>1, <3>4 DEF w, Up
  <2>9. CASE c # "nl"
    <3>1. Complete(t) \in 0..n
      BY <2>2 DEF IsLast, Complete
    <3>2. 1 \in 1..(n + 1)
      BY <2>1
    <3>3. Up(w) = Up(t)
      BY <2>5, <2>9, <3>1, <3>2, PartOfMore
    <3>4. EndedOf(w, FALSE) = EndedOf(t, FALSE)
      BY <2>7, <2>9, Zenon DEF EndedGrown
    <3> HIDE DEF w, Up
    <3>5. Up(w) \in Seq(G) /\ Pieces(Up(w)) = EndedOf(w, FALSE)
      BY <2>6, <3>3, <3>4
    <3>6. QED
      BY <2>1, <3>5 DEF w, Up
  <2>10. QED
    BY <2>8, <2>9
<1> HIDE DEF T
<1>4. \A t \in Seq(G) : t \in T
  BY <1>2, <1>3, BySnoc
<1>5. QED
  BY <1>1, <1>4 DEF T

\* What is without a newline has no line that ended, and is all behind it.
LEMMA RestOfRest ==
  ASSUME NEW G, "nl" \notin G
  PROVE  \A t \in Seq(G) : EndedOf(t, FALSE) = <<>> /\ Rest(t, "nl") = t
<1> DEFINE T == {t \in Seq(G) : EndedOf(t, FALSE) = <<>> /\ Rest(t, "nl") = t}
<1>1. <<>> \in T
  BY LinesOfNone, RestOfNone, EmptySeq
<1>2. ASSUME NEW t \in Seq(G), NEW c \in G, t \in T PROVE Cat(t, <<c>>) \in T
  <2> DEFINE w == Cat(t, <<c>>)
  <2>1. w \in Seq(G) /\ c # "nl"
    BY CatOfOne
  <2>2. EndedOf(t, FALSE) = <<>> /\ Rest(t, "nl") = t
    BY <1>2
  <2>3. EndedGrown(t, c, FALSE)
    BY LinesGrow
  <2>4. EndedOf(w, FALSE) = <<>>
    BY <2>1, <2>2, <2>3, Zenon DEF EndedGrown
  <2>5. Rest(w, "nl") = IF c = "nl" THEN <<>> ELSE Cat(Rest(t, "nl"), <<c>>)
    BY RestOfMore
  <2>6. Rest(w, "nl") = w
    BY <2>1, <2>2, <2>5
  <2> HIDE DEF w
  <2>7. w \in T
    BY <2>1, <2>4, <2>6
  <2>8. QED
    BY <2>7 DEF w
<1> HIDE DEF T
<1>3. \A t \in Seq(G) : t \in T
  BY <1>1, <1>2, BySnoc
<1>4. QED
  BY <1>3 DEF T

LEMMA RowsOfNone ==
  ASSUME NEW G
  PROVE  \A L \in Rows(G) : Cat(L, <<>>) = L /\ Cat(<<>>, L) = L
<1> DEFINE S == Seq(G)
<1>1. \A L \in Seq(S) : Cat(L, <<>>) = L /\ Cat(<<>>, L) = L
  <2> HIDE DEF S
  <2>1. QED
    BY CatOfNone
<1>2. QED
  BY <1>1 DEF Rows

LEMMA RowsAssociate ==
  ASSUME NEW G, NEW K \in Rows(G), NEW L \in Rows(G), NEW M \in Rows(G)
  PROVE  Cat(Cat(K, L), M) = Cat(K, Cat(L, M)) /\ Cat(K, L) \in Rows(G)
<1> DEFINE S == Seq(G)
<1>1. K \in Seq(S) /\ L \in Seq(S) /\ M \in Seq(S)
  BY DEF Rows
<1> HIDE DEF S
<1>2. Cat(Cat(K, L), M) = Cat(K, Cat(L, M))
  BY <1>1, CatAssociates
<1>3. CatInfo(K, L, S)
  BY <1>1, CatIs
<1>4. Cat(K, L) \in Seq(S)
  BY <1>3 DEF CatInfo
<1>5. QED
  BY <1>2, <1>4 DEF Rows, S

LEMMA OneRow == ASSUME NEW G, NEW l \in Seq(G) PROVE <<l>> \in Rows(G)
  BY DEF Rows

LEMMA RestIn == ASSUME NEW G, NEW t \in Seq(G) PROVE Rest(t, "nl") \in Seq(G)
<1>1. Rest(t, "nl") \in Seq(G \ {"nl"})
  BY RestType
<1>2. QED
  BY <1>1, SeqMonotonic

\* The lines of two texts joined: the first's, then those of what is behind them
\* and of the second.
LinesJoined(a, b) ==
  /\ EndedOf(Cat(a, b), FALSE) = Cat(EndedOf(a, FALSE), EndedOf(Cat(Rest(a, "nl"), b), FALSE))
  /\ Rest(Cat(a, b), "nl") = Rest(Cat(Rest(a, "nl"), b), "nl")

LEMMA LinesOfCat ==
  ASSUME NEW G, NEW a \in Seq(G)
  PROVE  \A b \in Seq(G) : LinesJoined(a, b)
<1> DEFINE q == Rest(a, "nl")
           E(t) == EndedOf(t, FALSE)
           R(t) == Rest(t, "nl")
           T == {b \in Seq(G) : LinesJoined(a, b)}
<1>1. q \in Seq(G) /\ E(q) = <<>> /\ R(q) = q
  <2> DEFINE H == G \ {"nl"}
  <2>1. q \in Seq(H)
    BY RestType
  <2>2. "nl" \notin H
    OBVIOUS
  <2> HIDE DEF H, q
  <2>3. E(q) = <<>> /\ R(q) = q
    BY <2>1, <2>2, RestOfRest
  <2>4. q \in Seq(G)
    BY RestIn DEF q
  <2>5. QED
    BY <2>3, <2>4
<1>2. E(a) \in Rows(G)
  BY EndedType
<1>3. <<>> \in T
  <2>1. Cat(a, <<>>) = a /\ Cat(q, <<>>) = q /\ <<>> \in Seq(G)
    <3> HIDE DEF q
    <3>1. QED
      BY <1>1, CatOfNone, EmptySeq
  <2>2. Cat(E(a), <<>>) = E(a)
    BY <1>2, RowsOfNone
  <2>3. E(Cat(q, <<>>)) = <<>> /\ R(Cat(q, <<>>)) = q /\ q = R(a)
    BY <1>1, <2>1
  <2>4. LinesJoined(a, <<>>)
    BY <2>1, <2>2, <2>3, Zenon DEF LinesJoined
  <2>5. QED
    BY <2>1, <2>4
<1>4. ASSUME NEW b \in Seq(G), NEW c \in G, b \in T PROVE Cat(b, <<c>>) \in T
  <2> DEFINE u == Cat(a, b)
             v == Cat(q, b)
             x == <<c>>
             z == <<Chop(R(v), FALSE)>>
  <2>1. x \in Seq(G) /\ Cat(b, x) \in Seq(G)
    BY CatOfOne
  <2>2. u \in Seq(G) /\ v \in Seq(G)
    <3> HIDE DEF q
    <3>1. CatInfo(a, b, G) /\ CatInfo(q, b, G)
      BY <1>1, CatIs
    <3>2. QED
      BY <3>1 DEF CatInfo
  <2>3. Cat(a, Cat(b, x)) = Cat(u, x) /\ Cat(q, Cat(b, x)) = Cat(v, x)
    <3> HIDE DEF q, x
    <3>1. QED
      BY <1>1, <2>1, CatAssociates
  <2>4. E(u) = Cat(E(a), E(v)) /\ R(u) = R(v)
    BY <1>4 DEF LinesJoined
  <2> HIDE DEF u, v
  <2>5. EndedGrown(u, c, FALSE) /\ EndedGrown(v, c, FALSE)
    BY <2>2, LinesGrow
  <2>6. R(Cat(u, x)) = (IF c = "nl" THEN <<>> ELSE Cat(R(u), x)) /\ R(Cat(v, x)) = IF c = "nl" THEN <<>> ELSE Cat(R(v), x)
    BY <2>2, RestOfMore
  <2>7. Cat(Cat(E(a), E(v)), z) = Cat(E(a), Cat(E(v), z))
    <3>1. R(v) \in Seq(G)
      BY <2>2, RestIn
    <3>2. Chop(R(v), FALSE) \in Seq(G)
      BY <3>1, ChopType
    <3>3. z \in Rows(G)
      BY <3>2, OneRow
    <3>4. E(v) \in Rows(G)
      BY <2>2, EndedType
    <3> HIDE DEF z, E
    <3>5. QED
      BY <1>2, <3>3, <3>4, RowsAssociate
  <2>8. R(Cat(u, x)) = R(Cat(v, x))
    BY <2>4, <2>6
  <2>9. c = "nl" => E(Cat(u, x)) = Cat(E(u), z) /\ E(Cat(v, x)) = Cat(E(v), z)
    BY <2>4, <2>5, Zenon DEF EndedGrown
  <2>10. c # "nl" => E(Cat(u, x)) = E(u) /\ E(Cat(v, x)) = E(v)
    BY <2>5, Zenon DEF EndedGrown
  <2> HIDE DEF E, R, x, z
  <2>11. E(Cat(u, x)) = Cat(E(a), E(Cat(v, x)))
    BY <2>4, <2>7, <2>9, <2>10
  <2>12. E(Cat(a, Cat(b, x))) = Cat(E(a), E(Cat(q, Cat(b, x)))) /\ R(Cat(a, Cat(b, x))) = R(Cat(q, Cat(b, x)))
    BY <2>3, <2>8, <2>11
  <2>13. LinesJoined(a, Cat(b, x))
    BY <2>12, Zenon DEF LinesJoined, E, R, q
  <2>14. QED
    BY <2>1, <2>13 DEF x
<1> HIDE DEF T
<1>5. \A b \in Seq(G) : b \in T
  BY <1>3, <1>4, BySnoc
<1>6. QED
  BY <1>5 DEF T

-----------------------------------------------------------------------------
(* StepOutput: the carriage returns before a line's end.                    *)

Trimmed(L) == [k \in DOMAIN L |-> TrimCr(L[k])]

LEMMA TrimmedIs ==
  ASSUME NEW G, NEW L \in Rows(G)
  PROVE  /\ Trimmed(L) \in Rows(G) /\ Len(Trimmed(L)) = Len(L) /\ DOMAIN Trimmed(L) = 1..Len(L)
         /\ \A k \in 1..Len(L) : Trimmed(L)[k] = TrimCr(L[k]) /\ TrimCr(L[k]) \in Seq(G)
<1>1. Len(L) \in Nat /\ DOMAIN L = 1..Len(L) /\ \A k \in 1..Len(L) : L[k] \in Seq(G)
  BY RowsAre
<1>2. \A k \in 1..Len(L) : TrimCr(L[k]) \in Seq(G)
  BY <1>1, TrimType DEF TrimCr
<1>3. Trimmed(L) \in [1..Len(L) -> Seq(G)] /\ \A k \in 1..Len(L) : Trimmed(L)[k] = TrimCr(L[k])
  BY <1>1, <1>2 DEF Trimmed
<1>4. Trimmed(L) \in Rows(G)
  BY <1>1, <1>3, RowsAre
<1>5. DOMAIN Trimmed(L) = 1..Len(L)
  BY <1>3
<1>6. Len(Trimmed(L)) = Len(L)
  BY <1>1, <1>4, <1>5, RowsAre
<1>7. QED
  BY <1>2, <1>3, <1>4, <1>5, <1>6

LEMMA TrimmedOfNone == Trimmed(<<>>) = <<>>
  BY DEF Trimmed

LEMMA TrimmedOfOne ==
  ASSUME NEW l
  PROVE  Trimmed(<<l>>) = <<TrimCr(l)>>
<1>1. DOMAIN <<l>> = {1} /\ <<l>>[1] = l
  OBVIOUS
<1>2. QED
  BY <1>1 DEF Trimmed

LEMMA TrimmedOfCat ==
  ASSUME NEW G, NEW K \in Rows(G), NEW L \in Rows(G)
  PROVE  Trimmed(Cat(K, L)) = Cat(Trimmed(K), Trimmed(L))
<1> DEFINE S == Seq(G)
           n == Len(K)
           m == Len(L)
           p == Trimmed(K)
           q == Trimmed(L)
           w == Cat(K, L)
           r == Trimmed(w)
<1>1. CatInfo(K, L, S) /\ w \in Rows(G)
  BY CatIs, RowsAre DEF Rows
<1>2. Len(w) = n + m /\ n \in Nat /\ m \in Nat
      /\ (\A i \in 1..n : w[i] = K[i]) /\ \A i \in 1..m : w[n + i] = L[i]
  BY <1>1 DEF CatInfo
<1>3. p \in Rows(G) /\ Len(p) = n /\ \A i \in 1..n : p[i] = TrimCr(K[i])
  BY TrimmedIs
<1>4. q \in Rows(G) /\ Len(q) = m /\ \A i \in 1..m : q[i] = TrimCr(L[i])
  BY TrimmedIs
<1>5. r \in Rows(G) /\ Len(r) = Len(w) /\ \A i \in 1..Len(w) : r[i] = TrimCr(w[i])
  <2> HIDE DEF w
  <2>1. QED
    BY <1>1, TrimmedIs
<1> HIDE DEF p, q, r, w, n, m
<1>6. p \in [1..n -> S] /\ q \in [1..m -> S] /\ r \in [1..(n + m) -> S]
  <2>1. \A x \in Rows(G) : x \in [1..Len(x) -> S]
    <3> HIDE DEF S
    <3>1. \A x \in Seq(S) : x \in [1..Len(x) -> S]
      BY LenProperties
    <3>2. QED
      BY <3>1 DEF Rows, S
  <2>2. QED
    BY <1>2, <1>3, <1>4, <1>5, <2>1
<1>7. \A i \in 1..n : i \in 1..(n + m)
  BY <1>2
<1>8. \A i \in 1..m : n + i \in 1..(n + m)
  BY <1>2
<1>9. \A i \in 1..n : r[i] = p[i]
  BY <1>2, <1>3, <1>5, <1>7
<1>10. \A i \in 1..m : r[n + i] = q[i]
  BY <1>2, <1>4, <1>5, <1>8
<1> HIDE DEF S
<1>11. r = Cat(p, q)
  <2>1. p \in [1..n -> S] /\ q \in [1..m -> S] /\ r \in [1..(n + m) -> S] /\ n \in Nat /\ m \in Nat
    BY <1>2, <1>6
  <2>2. Halves(r, p, q, n, m)
    BY <1>9, <1>10 DEF Halves
  <2>3. QED
    BY <2>1, <2>2, CatOfHalves
<1>12. QED
  BY <1>11 DEF p, q, r, w

LEMMA TrimTwice ==
  ASSUME NEW G
  PROVE  \A l \in Seq(G) : TrimCr(TrimCr(l)) = TrimCr(l)
<1> DEFINE T == {l \in Seq(G) : TrimEnd(TrimEnd(l, "cr"), "cr") = TrimEnd(l, "cr")}
<1>1. <<>> \in T
  BY TrimOfNone, EmptySeq
<1>2. ASSUME NEW l \in Seq(G), NEW c \in G, l \in T PROVE Cat(l, <<c>>) \in T
  <2> DEFINE w == Cat(l, <<c>>)
  <2>1. TrimEnd(w, "cr") = IF c = "cr" THEN TrimEnd(l, "cr") ELSE w
    BY TrimOfMore
  <2>2. w \in Seq(G)
    BY CatOfOne
  <2>3. TrimEnd(TrimEnd(l, "cr"), "cr") = TrimEnd(l, "cr")
    BY <1>2
  <2> HIDE DEF w
  <2>4. TrimEnd(TrimEnd(w, "cr"), "cr") = TrimEnd(w, "cr")
    <3>1. CASE c = "cr"
      BY <2>1, <2>3, <3>1
    <3>2. CASE c # "cr"
      BY <2>1, <3>2
    <3>3. QED
      BY <3>1, <3>2
  <2>5. QED
    BY <2>2, <2>4 DEF w
<1> HIDE DEF T
<1>3. \A l \in Seq(G) : l \in T
  BY <1>1, <1>2, BySnoc
<1>4. QED
  BY <1>3 DEF T, TrimCr

LEMMA TrimmedTwice ==
  ASSUME NEW G, NEW L \in Rows(G)
  PROVE  Trimmed(Trimmed(L)) = Trimmed(L)
<1> DEFINE p == Trimmed(L)
<1>1. Len(L) \in Nat /\ \A k \in 1..Len(L) : L[k] \in Seq(G)
  BY RowsAre
<1>2. DOMAIN p = 1..Len(L) /\ \A k \in 1..Len(L) : p[k] = TrimCr(L[k])
  BY TrimmedIs
<1>3. \A k \in 1..Len(L) : TrimCr(p[k]) = p[k]
  BY <1>1, <1>2, TrimTwice
<1>4. Trimmed(p) = [k \in 1..Len(L) |-> p[k]]
  <2> HIDE DEF p
  <2>1. QED
    BY <1>2, <1>3 DEF Trimmed
<1>5. p = [k \in 1..Len(L) |-> p[k]]
  BY <1>2 DEF Trimmed
<1>6. QED
  BY <1>4, <1>5

\* Whether the carriage return of a line that ended is cut off is not told apart.
LEMMA EndedAlike ==
  ASSUME NEW G
  PROVE  \A t \in Seq(G) : Trimmed(EndedOf(t, TRUE)) = Trimmed(EndedOf(t, FALSE))
<1> DEFINE E(t, chop) == EndedOf(t, chop)
           T == {t \in Seq(G) : Trimmed(E(t, TRUE)) = Trimmed(E(t, FALSE))}
<1>1. <<>> \in T
  <2>1. E(<<>>, TRUE) = <<>> /\ E(<<>>, FALSE) = <<>> /\ <<>> \in Seq(G)
    BY LinesOfNone, EmptySeq
  <2>2. QED
    BY <2>1
<1>2. ASSUME NEW t \in Seq(G), NEW c \in G, t \in T PROVE Cat(t, <<c>>) \in T
  <2> DEFINE w == Cat(t, <<c>>)
             R == Rest(t, "nl")
             y(chop) == Chop(R, chop)
  <2>1. w \in Seq(G) /\ R \in Seq(G)
    BY CatOfOne, RestIn
  <2>2. EndedGrown(t, c, TRUE) /\ EndedGrown(t, c, FALSE)
    BY LinesGrow
  <2>3. Trimmed(E(t, TRUE)) = Trimmed(E(t, FALSE))
    BY <1>2
  <2>4. ASSUME c = "nl" PROVE Trimmed(E(w, TRUE)) = Trimmed(E(w, FALSE))
    <3> DEFINE a == <<y(TRUE)>>
               b == <<y(FALSE)>>
    <3>1. E(w, TRUE) = Cat(E(t, TRUE), a) /\ E(w, FALSE) = Cat(E(t, FALSE), b)
      BY <2>2, <2>4, Zenon DEF EndedGrown
    <3>2. \A chop : y(chop) \in Seq(G) /\ TrimCr(y(chop)) = TrimCr(R)
      BY <2>1, ChopType
    <3>3. a \in Rows(G) /\ b \in Rows(G)
      BY <3>2, OneRow
    <3>4. Trimmed(a) = <<TrimCr(R)>> /\ Trimmed(b) = <<TrimCr(R)>>
      BY <3>2, TrimmedOfOne
    <3>5. E(t, TRUE) \in Rows(G) /\ E(t, FALSE) \in Rows(G)
      BY EndedType
    <3> HIDE DEF a, b, E, w
    <3>6. Trimmed(Cat(E(t, TRUE), a)) = Cat(Trimmed(E(t, TRUE)), Trimmed(a))
      BY <3>3, <3>5, TrimmedOfCat
    <3>7. Trimmed(Cat(E(t, FALSE), b)) = Cat(Trimmed(E(t, FALSE)), Trimmed(b))
      BY <3>3, <3>5, TrimmedOfCat
    <3>8. QED
      BY <2>3, <3>1, <3>4, <3>6, <3>7, Zenon
  <2>5. ASSUME c # "nl" PROVE Trimmed(E(w, TRUE)) = Trimmed(E(w, FALSE))
    <3>1. E(w, TRUE) = E(t, TRUE) /\ E(w, FALSE) = E(t, FALSE)
      BY <2>2, <2>5, Zenon DEF EndedGrown
    <3>2. QED
      BY <2>3, <3>1
  <2> HIDE DEF w
  <2>6. w \in T
    BY <2>1, <2>4, <2>5
  <2>7. QED
    BY <2>6 DEF w
<1> HIDE DEF T
<1>3. \A t \in Seq(G) : t \in T
  BY <1>1, <1>2, BySnoc
<1>4. QED
  BY <1>3 DEF T

\* All the lines of a text: those that ended, and what is behind them if there
\* is something.
Tail1(t) == IF Rest(t, "nl") = <<>> THEN <<>> ELSE <<Rest(t, "nl")>>

LEMMA LinesSplit ==
  ASSUME NEW G, NEW t \in Seq(G)
  PROVE  /\ Pieces(t) = Cat(EndedOf(t, FALSE), Tail1(t))
         /\ Trimmed(TextLines(t)) = Trimmed(Pieces(t))
         /\ TextLines(t) \in Rows(G) /\ Pieces(t) \in Rows(G) /\ Tail1(t) \in Rows(G)
<1>1. Rest(t, "nl") \in Seq(G)
  BY RestIn
<1>2. Tail1(t) \in Rows(G)
  BY <1>1, OneRow, RowsAre DEF Tail1
<1>3. EndedOf(t, FALSE) \in Rows(G) /\ EndedOf(t, TRUE) \in Rows(G)
  BY EndedType
<1>4. ASSUME NEW chop PROVE AllOf(t, chop) = Cat(EndedOf(t, chop), Tail1(t))
  <2>1. AllOf(t, chop) = IF Rest(t, "nl") = <<>> THEN EndedOf(t, chop) ELSE Cat(EndedOf(t, chop), <<Rest(t, "nl")>>)
    BY AllIsEnded
  <2>2. EndedOf(t, chop) \in Rows(G)
    BY EndedType
  <2>3. Cat(EndedOf(t, chop), <<>>) = EndedOf(t, chop)
    BY <2>2, RowsOfNone
  <2>4. QED
    BY <2>1, <2>3, Zenon DEF Tail1
<1>5. Pieces(t) = AllOf(t, FALSE) /\ TextLines(t) = AllOf(t, TRUE)
  BY AllAre
<1>6. Pieces(t) = Cat(EndedOf(t, FALSE), Tail1(t)) /\ TextLines(t) = Cat(EndedOf(t, TRUE), Tail1(t))
  BY <1>4, <1>5
<1>7. Pieces(t) \in Rows(G) /\ TextLines(t) \in Rows(G)
  BY <1>2, <1>3, <1>6, RowsAre
<1>8. Trimmed(Cat(EndedOf(t, FALSE), Tail1(t))) = Cat(Trimmed(EndedOf(t, FALSE)), Trimmed(Tail1(t)))
  BY <1>2, <1>3, TrimmedOfCat
<1>9. Trimmed(Cat(EndedOf(t, TRUE), Tail1(t))) = Cat(Trimmed(EndedOf(t, TRUE)), Trimmed(Tail1(t)))
  BY <1>2, <1>3, TrimmedOfCat
<1>10. Trimmed(EndedOf(t, TRUE)) = Trimmed(EndedOf(t, FALSE))
  BY EndedAlike
<1>11. QED
  BY <1>2, <1>6, <1>7, <1>8, <1>9, <1>10, Zenon

\* No line holds a newline.
LEMMA NoNewlines ==
  ASSUME NEW G, NEW chop
  PROVE  \A t \in Seq(G) : EndedOf(t, chop) \in Rows(G \ {"nl"})
<1> DEFINE H == G \ {"nl"}
           T == {t \in Seq(G) : EndedOf(t, chop) \in Rows(H)}
<1>1. <<>> \in T
  <2>1. <<>> \in Rows(H)
    BY RowsAre
  <2>2. QED
    BY <2>1, LinesOfNone, EmptySeq
<1>2. ASSUME NEW t \in Seq(G), NEW c \in G, t \in T PROVE Cat(t, <<c>>) \in T
  <2> DEFINE w == Cat(t, <<c>>)
             x == <<Chop(Rest(t, "nl"), chop)>>
  <2>1. w \in Seq(G)
    BY CatOfOne
  <2>2. EndedGrown(t, c, chop)
    BY LinesGrow
  <2>3. EndedOf(t, chop) \in Rows(H)
    BY <1>2
  <2>4. x \in Rows(H)
    <3>1. Rest(t, "nl") \in Seq(H)
      BY RestType
    <3>2. Chop(Rest(t, "nl"), chop) \in Seq(H)
      <4> HIDE DEF H
      <4>1. QED
        BY <3>1, ChopType
    <3>3. QED
      BY <3>2, OneRow
  <2>5. EndedOf(w, chop) = Cat(EndedOf(t, chop), x) \/ EndedOf(w, chop) = EndedOf(t, chop)
    BY <2>2, Zenon DEF EndedGrown
  <2> HIDE DEF w, x, H
  <2>6. Cat(EndedOf(t, chop), x) \in Rows(H)
    BY <2>3, <2>4, RowsAre
  <2>7. EndedOf(w, chop) \in Rows(H)
    BY <2>3, <2>5, <2>6
  <2>8. w \in T
    BY <2>1, <2>7
  <2>9. QED
    BY <2>8 DEF w
<1> HIDE DEF T
<1>3. \A t \in Seq(G) : t \in T
  BY <1>1, <1>2, BySnoc
<1>4. QED
  BY <1>3 DEF T

LEMMA LinesClean ==
  ASSUME NEW G, NEW t \in Seq(G)
  PROVE  Pieces(t) \in Rows(G \ {"nl"}) /\ TextLines(t) \in Rows(G \ {"nl"})
<1> DEFINE H == G \ {"nl"}
<1>1. Rest(t, "nl") \in Seq(H)
  BY RestType
<1>2. \A chop : EndedOf(t, chop) \in Rows(H)
  BY NoNewlines
<1>3. Pieces(t) = AllOf(t, FALSE) /\ TextLines(t) = AllOf(t, TRUE)
  BY AllAre
<1>4. \A chop : AllOf(t, chop) = EndedOf(t, chop) \/ AllOf(t, chop) = Cat(EndedOf(t, chop), <<Rest(t, "nl")>>)
  BY AllIsEnded
<1> HIDE DEF H
<1>5. <<Rest(t, "nl")>> \in Rows(H)
  BY <1>1, OneRow
<1>6. \A chop : Cat(EndedOf(t, chop), <<Rest(t, "nl")>>) \in Rows(H)
  BY <1>2, <1>5, RowsAre
<1>7. \A chop : AllOf(t, chop) \in Rows(H)
  BY <1>2, <1>4, <1>6
<1>8. QED
  BY <1>3, <1>7 DEF H

-----------------------------------------------------------------------------
(* StepOutput: the characters that must not be lost.                        *)

Marked == Drawn \cup {"esc", "csi"}

LEMMA MarksOfNone == Marks(<<>>) = <<>>
  BY OnlyOfNone DEF Marks

LEMMA MarksOfCat ==
  ASSUME NEW G, NEW s \in Seq(G), NEW t \in Seq(G)
  PROVE  Marks(Cat(s, t)) = Cat(Marks(s), Marks(t)) /\ Marks(s) \in Seq(G) /\ Marks(t) \in Seq(G)
<1>1. Only(Cat(s, t), Drawn \cup {"esc", "csi"}) = Cat(Only(s, Drawn \cup {"esc", "csi"}), Only(t, Drawn \cup {"esc", "csi"}))
  BY OnlyOfCat
<1>2. Only(s, Drawn \cup {"esc", "csi"}) \in Seq(G) /\ Only(t, Drawn \cup {"esc", "csi"}) \in Seq(G)
  BY OnlyType
<1>3. QED
  BY <1>1, <1>2 DEF Marks

\* A carriage return or a newline is no mark.
LEMMA MarksOfMore ==
  ASSUME NEW G, NEW s \in Seq(G), NEW c \in G
  PROVE  /\ c \in {"cr", "nl"} => Marks(Cat(s, <<c>>)) = Marks(s)
         /\ Marks(Cat(s, <<c>>)) = Cat(Marks(s), Marks(<<c>>))
<1> DEFINE x == <<c>>
<1>1. x \in Seq(G)
  OBVIOUS
<1>2. Only(Cat(s, x), Drawn \cup {"esc", "csi"}) =
        IF c \in Drawn \cup {"esc", "csi"} THEN Cat(Only(s, Drawn \cup {"esc", "csi"}), x)
        ELSE Only(s, Drawn \cup {"esc", "csi"})
  BY OnlyOfMore
<1>3. c \in {"cr", "nl"} => c \notin Drawn \cup {"esc", "csi"}
  BY DEF Drawn
<1> HIDE DEF x
<1>4. Marks(Cat(s, x)) = Cat(Marks(s), Marks(x))
  BY <1>1, MarksOfCat
<1>5. c \in {"cr", "nl"} => Marks(Cat(s, x)) = Marks(s)
  BY <1>2, <1>3 DEF Marks
<1>6. QED
  BY <1>4, <1>5 DEF x

LEMMA MarksOfTrim ==
  ASSUME NEW G
  PROVE  \A l \in Seq(G) : Marks(TrimCr(l)) = Marks(l)
<1> DEFINE T == {l \in Seq(G) : Marks(TrimEnd(l, "cr")) = Marks(l)}
<1>1. <<>> \in T
  BY TrimOfNone, EmptySeq
<1>2. ASSUME NEW l \in Seq(G), NEW c \in G, l \in T PROVE Cat(l, <<c>>) \in T
  <2> DEFINE w == Cat(l, <<c>>)
  <2>1. TrimEnd(w, "cr") = IF c = "cr" THEN TrimEnd(l, "cr") ELSE w
    BY TrimOfMore
  <2>2. w \in Seq(G)
    BY CatOfOne
  <2>3. Marks(TrimEnd(l, "cr")) = Marks(l)
    BY <1>2
  <2>4. c = "cr" => Marks(w) = Marks(l)
    BY MarksOfMore
  <2> HIDE DEF w
  <2>5. Marks(TrimEnd(w, "cr")) = Marks(w)
    <3>1. CASE c = "cr"
      BY <2>1, <2>3, <2>4, <3>1
    <3>2. CASE c # "cr"
      BY <2>1, <3>2
    <3>3. QED
      BY <3>1, <3>2
  <2>6. QED
    BY <2>2, <2>5 DEF w
<1> HIDE DEF T
<1>3. \A l \in Seq(G) : l \in T
  BY <1>1, <1>2, BySnoc
<1>4. QED
  BY <1>3 DEF T, TrimCr

\* The marks of lines.
AllMarks(L) == Marks(FlattenSeq(L))

LEMMA AllMarksOfNone == AllMarks(<<>>) = <<>>
  BY FlatOfNone, MarksOfNone DEF AllMarks

LEMMA AllMarksOfCat ==
  ASSUME NEW G, NEW K \in Rows(G), NEW L \in Rows(G)
  PROVE  AllMarks(Cat(K, L)) = Cat(AllMarks(K), AllMarks(L)) /\ AllMarks(K) \in Seq(G) /\ AllMarks(L) \in Seq(G)
<1> DEFINE k == FlattenSeq(K)
           l == FlattenSeq(L)
<1>1. k \in Seq(G) /\ l \in Seq(G)
  BY FlatType
<1>2. FlattenSeq(Cat(K, L)) = Cat(k, l)
  BY FlatOfJoined
<1> HIDE DEF k, l
<1>3. Marks(Cat(k, l)) = Cat(Marks(k), Marks(l)) /\ Marks(k) \in Seq(G) /\ Marks(l) \in Seq(G)
  BY <1>1, MarksOfCat
<1>4. QED
  BY <1>2, <1>3 DEF AllMarks, k, l

LEMMA AllMarksOfOne ==
  ASSUME NEW G, NEW l \in Seq(G)
  PROVE  AllMarks(<<l>>) = Marks(l)
  BY FlatOfOne DEF AllMarks

LEMMA AllMarksOfTrimmed ==
  ASSUME NEW G
  PROVE  \A L \in Rows(G) : AllMarks(Trimmed(L)) = AllMarks(L)
<1> DEFINE T == {L \in Rows(G) : AllMarks(Trimmed(L)) = AllMarks(L)}
<1>1. <<>> \in T
  BY TrimmedOfNone, RowsAre
<1>2. ASSUME NEW L \in Rows(G), NEW l \in Seq(G), L \in T PROVE Cat(L, <<l>>) \in T
  <2> DEFINE x == <<l>>
             y == <<TrimCr(l)>>
  <2>1. TrimCr(l) \in Seq(G)
    BY TrimType DEF TrimCr
  <2>2. x \in Rows(G) /\ y \in Rows(G)
    BY <2>1, OneRow
  <2>3. Trimmed(x) = y
    BY TrimmedOfOne
  <2>4. AllMarks(x) = Marks(l) /\ AllMarks(y) = Marks(TrimCr(l))
    BY <2>1, AllMarksOfOne
  <2>5. AllMarks(x) = AllMarks(y)
    BY <2>4, MarksOfTrim
  <2>6. AllMarks(Trimmed(L)) = AllMarks(L)
    BY <1>2
  <2> HIDE DEF x, y
  <2>7. Trimmed(L) \in Rows(G)
    BY TrimmedIs
  <2>8. Trimmed(Cat(L, x)) = Cat(Trimmed(L), y)
    BY <2>2, <2>3, TrimmedOfCat
  <2>9. AllMarks(Cat(L, x)) = Cat(AllMarks(L), AllMarks(x))
    BY <2>2, AllMarksOfCat
  <2>10. AllMarks(Cat(Trimmed(L), y)) = Cat(AllMarks(Trimmed(L)), AllMarks(y))
    BY <2>2, <2>7, AllMarksOfCat
  <2>11. AllMarks(Trimmed(Cat(L, x))) = AllMarks(Cat(L, x))
    BY <2>5, <2>6, <2>8, <2>9, <2>10, Zenon
  <2>12. Cat(L, x) \in Rows(G)
    BY <2>2, RowsAre
  <2>13. QED
    BY <2>11, <2>12 DEF x
<1> HIDE DEF T
<1>3. \A L \in Rows(G) : L \in T
  BY <1>1, <1>2, RowsBySnoc
<1>4. QED
  BY <1>3 DEF T

\* What a text has is in the lines that ended, and behind them.
LEMMA MarksOfEnded ==
  ASSUME NEW G
  PROVE  \A t \in Seq(G) : Marks(t) = Cat(AllMarks(EndedOf(t, FALSE)), Marks(Rest(t, "nl")))
<1> DEFINE E(t) == EndedOf(t, FALSE)
           R(t) == Rest(t, "nl")
           T == {t \in Seq(G) : Marks(t) = Cat(AllMarks(E(t)), Marks(R(t)))}
<1>1. <<>> \in T
  <2>1. E(<<>>) = <<>> /\ R(<<>>) = <<>> /\ <<>> \in Seq(G)
    BY LinesOfNone, RestOfNone, EmptySeq
  <2>2. Cat(<<>>, <<>>) = <<>>
    BY <2>1, CatOfNone
  <2>3. QED
    BY <2>1, <2>2, MarksOfNone, AllMarksOfNone
<1>2. ASSUME NEW t \in Seq(G), NEW c \in G, t \in T PROVE Cat(t, <<c>>) \in T
  <2> DEFINE x == <<c>>
             w == Cat(t, x)
             e == AllMarks(E(t))
             m == Marks(R(t))
             z == <<R(t)>>
  <2>1. w \in Seq(G) /\ R(t) \in Seq(G) /\ x \in Seq(G)
    BY CatOfOne, RestIn
  <2>2. EndedGrown(t, c, FALSE)
    BY LinesGrow
  <2>3. R(w) = IF c = "nl" THEN <<>> ELSE Cat(R(t), x)
    BY RestOfMore
  <2>4. Marks(t) = Cat(e, m)
    BY <1>2
  <2>5. E(t) \in Rows(G) /\ z \in Rows(G)
    BY <2>1, EndedType, OneRow
  <2>6. e \in Seq(G) /\ AllMarks(Cat(E(t), z)) = Cat(e, AllMarks(z)) /\ AllMarks(z) = m
    <3>1. AllMarks(z) = m
      BY <2>1, AllMarksOfOne
    <3> HIDE DEF z, E, m
    <3>2. AllMarks(Cat(E(t), z)) = Cat(AllMarks(E(t)), AllMarks(z)) /\ AllMarks(E(t)) \in Seq(G)
      BY <2>5, AllMarksOfCat
    <3>3. QED
      BY <3>1, <3>2
  <2>7. m \in Seq(G) /\ Marks(x) \in Seq(G)
    <3>1. \A s \in Seq(G) : Marks(s) \in Seq(G)
      BY OnlyType DEF Marks
    <3>2. QED
      BY <2>1, <3>1
  <2>8. Marks(w) = Cat(Marks(t), Marks(x)) /\ (c = "nl" => Marks(w) = Marks(t))
    BY MarksOfMore
  <2>9. Marks(Cat(R(t), x)) = Cat(m, Marks(x))
    <3> HIDE DEF R, x
    <3>1. QED
      BY <2>1, MarksOfCat
  <2>10. c = "nl" => E(w) = Cat(E(t), z)
    <3>1. Chop(R(t), FALSE) = R(t)
      BY DEF Chop
    <3>2. QED
      BY <2>2, <3>1, Zenon DEF EndedGrown
  <2>11. c # "nl" => E(w) = E(t)
    BY <2>2, Zenon DEF EndedGrown
  <2> HIDE DEF w, x, e, m, z, E, R
  <2>12. CASE c = "nl"
    <3>1. R(w) = <<>> /\ AllMarks(E(w)) = Cat(e, m)
      BY <2>3, <2>6, <2>10, <2>12
    <3>2. Cat(e, m) \in Seq(G)
      <4>1. CatInfo(e, m, G)
        BY <2>6, <2>7, CatIs
      <4>2. QED
        BY <4>1 DEF CatInfo
    <3>3. Cat(Cat(e, m), <<>>) = Cat(e, m)
      BY <3>2, CatOfNone
    <3>4. Marks(w) = Cat(AllMarks(E(w)), Marks(R(w)))
      BY <2>4, <2>8, <2>12, <3>1, <3>3, MarksOfNone
    <3>5. QED
      BY <2>1, <3>4 DEF w, x
  <2>13. CASE c # "nl"
    <3>1. R(w) = Cat(R(t), x) /\ AllMarks(E(w)) = e
      BY <2>3, <2>11, <2>13 DEF e
    <3>2. Cat(Cat(e, m), Marks(x)) = Cat(e, Cat(m, Marks(x)))
      BY <2>6, <2>7, CatAssociates
    <3>3. Marks(w) = Cat(AllMarks(E(w)), Marks(R(w)))
      BY <2>4, <2>8, <2>9, <3>1, <3>2
    <3>4. QED
      BY <2>1, <3>3 DEF w, x
  <2>14. QED
    BY <2>12, <2>13
<1> HIDE DEF T
<1>3. \A t \in Seq(G) : t \in T
  BY <1>1, <1>2, BySnoc
<1>4. QED
  BY <1>3 DEF T

\* The lines of a text have all of its marks.
LEMMA MarksOfLines ==
  ASSUME NEW G, NEW t \in Seq(G)
  PROVE  AllMarks(Pieces(t)) = Marks(t) /\ AllMarks(TextLines(t)) = Marks(t)
<1> DEFINE e == EndedOf(t, FALSE)
           z == Tail1(t)
<1>1. Pieces(t) = Cat(e, z) /\ z \in Rows(G) /\ Trimmed(TextLines(t)) = Trimmed(Pieces(t))
      /\ TextLines(t) \in Rows(G) /\ Pieces(t) \in Rows(G)
  BY LinesSplit
<1>2. e \in Rows(G)
  BY EndedType
<1>3. AllMarks(z) = Marks(Rest(t, "nl"))
  <2>1. Rest(t, "nl") \in Seq(G)
    BY RestIn
  <2>2. QED
    BY <2>1, AllMarksOfNone, AllMarksOfOne, MarksOfNone DEF Tail1
<1>4. Marks(t) = Cat(AllMarks(e), Marks(Rest(t, "nl")))
  BY MarksOfEnded
<1> HIDE DEF e, z
<1>5. AllMarks(Cat(e, z)) = Cat(AllMarks(e), AllMarks(z))
  BY <1>1, <1>2, AllMarksOfCat
<1>6. AllMarks(Pieces(t)) = Marks(t)
  BY <1>1, <1>3, <1>4, <1>5
<1>7. AllMarks(Trimmed(TextLines(t))) = AllMarks(TextLines(t)) /\ AllMarks(Trimmed(Pieces(t))) = AllMarks(Pieces(t))
  BY <1>1, AllMarksOfTrimmed
<1>8. QED
  BY <1>1, <1>6, <1>7

-----------------------------------------------------------------------------
(* StepOutput: characters and their bytes.                                  *)

Chars == {"a", "wide", "nl", "cr", "esc", "csi"}
Raw == {"a", "wide1", "wide2", "nl", "cr", "esc", "csi"}
Decoded == Chars \cup {"bad"}

Coded == [c \in Chars |-> Bytes(c)]
Encoded(t) == Spread(t, Coded)

LEMMA CodedType == Coded \in Tables(Chars, Raw) /\ \A c \in Chars : Coded[c] = Bytes(c) /\ Bytes(c) \in Seq(Raw)
<1>1. \A c \in Chars : Bytes(c) \in Seq(Raw)
  <2>1. ASSUME NEW c \in Chars PROVE Bytes(c) \in Seq(Raw)
    <3>1. CASE c = "wide"
      <4>1. "wide1" \in Raw /\ "wide2" \in Raw
        BY DEF Raw
      <4> HIDE DEF Raw
      <4>2. <<"wide1", "wide2">> \in Seq(Raw)
        BY <4>1
      <4>3. QED
        BY <3>1, <4>2 DEF Bytes
    <3>2. CASE c # "wide"
      <4>1. c \in Raw
        BY <3>2 DEF Raw, Chars
      <4> HIDE DEF Raw
      <4>2. <<c>> \in Seq(Raw)
        BY <4>1
      <4>3. QED
        BY <3>2, <4>2 DEF Bytes
    <3>3. QED
      BY <3>1, <3>2
  <2>2. QED
    BY <2>1
<1>2. QED
  BY <1>1 DEF Coded, Tables

LEMMA EncodedOfNone == Encoded(<<>>) = <<>>
  BY SpreadOfNone DEF Encoded

LEMMA EncodedOfMore ==
  ASSUME NEW t \in Seq(Chars), NEW c \in Chars
  PROVE  Encoded(Cat(t, <<c>>)) = Cat(Encoded(t), Bytes(c)) /\ Encoded(t) \in Seq(Raw) /\ Bytes(c) \in Seq(Raw)
<1>1. Spread(Cat(t, <<c>>), Coded) = Cat(Spread(t, Coded), Coded[c])
  BY CodedType, SpreadOfMore
<1>2. Spread(t, Coded) \in Seq(Raw)
  BY CodedType, SpreadType
<1>3. QED
  BY <1>1, <1>2, CodedType DEF Encoded

LEMMA EncodedOfCat ==
  ASSUME NEW s \in Seq(Chars), NEW t \in Seq(Chars)
  PROVE  Encoded(Cat(s, t)) = Cat(Encoded(s), Encoded(t)) /\ Encoded(s) \in Seq(Raw) /\ Encoded(t) \in Seq(Raw)
<1>1. Spread(Cat(s, t), Coded) = Cat(Spread(s, Coded), Spread(t, Coded))
  BY CodedType, SpreadOfCat
<1>2. Spread(s, Coded) \in Seq(Raw) /\ Spread(t, Coded) \in Seq(Raw)
  BY CodedType, SpreadType
<1>3. QED
  BY <1>1, <1>2 DEF Encoded

\* Where two texts are joined they can be cut again.
LEMMA CatCut ==
  ASSUME NEW G, NEW a \in Seq(G), NEW b \in Seq(G)
  PROVE  SubSeq(Cat(a, b), 1, Len(a)) = a /\ SubSeq(Cat(a, b), Len(a) + 1, Len(Cat(a, b))) = b
<1> DEFINE w == Cat(a, b)
           n == Len(a)
           m == Len(b)
           p == SubSeq(w, 1, n)
           q == SubSeq(w, n + 1, Len(w))
<1>1. CatInfo(a, b, G)
  BY CatIs
<1>2. /\ w \in Seq(G) /\ Len(w) = n + m /\ n \in Nat /\ m \in Nat
      /\ (\A i \in 1..n : w[i] = a[i]) /\ \A i \in 1..m : w[n + i] = b[i]
  BY <1>1 DEF CatInfo
<1> HIDE DEF w
<1>3. p \in Seq(G) /\ Len(p) = n /\ \A j \in 1..n : p[j] = w[j]
  BY <1>2, CutInTwo
<1>4. p = a
  <2>1. \A j \in 1..n : p[j] = a[j]
    BY <1>2, <1>3
  <2> HIDE DEF p
  <2>2. QED
    BY <1>3, <2>1, Alike
<1>5. q \in Seq(G) /\ Len(q) = m /\ \A j \in 1..m : q[j] = w[n + j]
  <2>1. n + 1 \in Nat /\ n + 1 >= 1 /\ Len(w) = n + m
    BY <1>2
  <2>2. q = [j \in 1..m |-> w[n + j]]
    <3>1. n + 1 \in 1..(Len(w) + 1) /\ Len(w) \in Nat /\ Len(w) <= Len(w)
      BY <1>2
    <3>2. SubSeq(w, n + 1, Len(w)) = [i \in 1..(1 + Len(w) - (n + 1)) |-> w[i + (n + 1) - 1]]
      BY <1>2, <3>1
    <3>3. 1 + Len(w) - (n + 1) = m
      BY <1>2
    <3>4. \A j \in 1..m : j + (n + 1) - 1 = n + j
      BY <1>2
    <3>5. QED
      BY <3>2, <3>3, <3>4
  <2>3. \A j \in 1..m : w[n + j] \in G
    <3>1. \A j \in 1..m : n + j \in 1..Len(w)
      BY <1>2
    <3>2. QED
      BY <1>2, <3>1
  <2>4. q \in [1..m -> G] /\ \A j \in 1..m : q[j] = w[n + j]
    BY <2>2, <2>3
  <2> HIDE DEF q
  <2>5. q \in Seq(G) /\ Len(q) = m
    BY <1>2, <2>4, Tabled
  <2>6. QED
    BY <2>4, <2>5
<1>6. q = b
  <2>1. \A j \in 1..m : q[j] = b[j]
    BY <1>2, <1>5
  <2> HIDE DEF q
  <2>2. QED
    BY <1>5, <2>1, Alike
<1>7. QED
  BY <1>4, <1>6 DEF w, p, q

\* A cut of the first of two texts is one of both.
LEMMA CutOfCat ==
  ASSUME NEW G, NEW s \in Seq(G), NEW y \in Seq(G), NEW n \in 0..Len(s)
  PROVE  /\ SubSeq(Cat(s, y), 1, n) = SubSeq(s, 1, n)
         /\ SubSeq(Cat(s, y), n + 1, Len(Cat(s, y))) = Cat(SubSeq(s, n + 1, Len(s)), y)
<1> DEFINE a == SubSeq(s, 1, n)
           b == SubSeq(s, n + 1, Len(s))
           c == Cat(b, y)
<1>1. a \in Seq(G) /\ b \in Seq(G) /\ s = Cat(a, b) /\ Len(a) = n
  BY CutInTwo
<1> HIDE DEF a, b
<1>2. Cat(Cat(a, b), y) = Cat(a, c)
  BY <1>1, CatAssociates
<1>3. c \in Seq(G)
  <2>1. CatInfo(b, y, G)
    BY <1>1, CatIs
  <2>2. QED
    BY <2>1 DEF CatInfo
<1> HIDE DEF c
<1>4. SubSeq(Cat(a, c), 1, Len(a)) = a /\ SubSeq(Cat(a, c), Len(a) + 1, Len(Cat(a, c))) = c
  BY <1>1, <1>3, CatCut
<1>5. Cat(s, y) = Cat(a, c)
  BY <1>1, <1>2
<1>6. QED
  BY <1>1, <1>4, <1>5 DEF a, b, c

\* Bytes cut behind a whole character are those of two texts.
Whole(b, n) == n = 0 \/ b[n] # "wide1"
CutAt(r, n) ==
  \E r1, r2 \in Seq(Chars) :
    /\ r = Cat(r1, r2)
    /\ SubSeq(Encoded(r), 1, n) = Encoded(r1)
    /\ SubSeq(Encoded(r), n + 1, Len(Encoded(r))) = Encoded(r2)

LEMMA EncodedCut ==
  \A r \in Seq(Chars) : \A n \in 0..Len(Encoded(r)) : Whole(Encoded(r), n) => CutAt(r, n)
<1> DEFINE T == {r \in Seq(Chars) : \A n \in 0..Len(Encoded(r)) : Whole(Encoded(r), n) => CutAt(r, n)}
<1>0. ASSUME NEW r \in Seq(Chars) PROVE CutAt(r, Len(Encoded(r)))
  <2> DEFINE e == Encoded(r)
             z == Encoded(<<>>)
  <2>1. e \in Seq(Raw)
    BY EncodedOfCat
  <2>2. z = <<>> /\ z \in Seq(Raw)
    BY EncodedOfNone, EmptySeq
  <2>3. Cat(e, z) = e
    <3> HIDE DEF e
    <3>1. QED
      BY <2>1, <2>2, CatOfNone
  <2>4. SubSeq(Cat(e, z), 1, Len(e)) = e /\ SubSeq(Cat(e, z), Len(e) + 1, Len(Cat(e, z))) = z
    <3> HIDE DEF e, z
    <3>1. QED
      BY <2>1, <2>2, CatCut
  <2>5. r = Cat(r, <<>>) /\ <<>> \in Seq(Chars)
    BY CatOfNone, EmptySeq
  <2>6. SubSeq(e, 1, Len(e)) = e /\ SubSeq(e, Len(e) + 1, Len(e)) = z
    BY <2>3, <2>4
  <2>7. QED
    BY <2>5, <2>6 DEF CutAt
<1>1. <<>> \in T
  <2>1. <<>> \in Seq(Chars) /\ Encoded(<<>>) = <<>> /\ Len(<<>>) = 0
    BY EmptySeq, EncodedOfNone
  <2>2. CutAt(<<>>, 0)
    BY <1>0, <2>1
  <2>3. QED
    BY <2>1, <2>2
<1>2. ASSUME NEW r \in Seq(Chars), NEW c \in Chars, r \in T PROVE Cat(r, <<c>>) \in T
  <2> DEFINE w == Cat(r, <<c>>)
             e == Encoded(r)
             y == Bytes(c)
             f == Encoded(w)
  <2>1. w \in Seq(Chars)
    BY CatOfOne
  <2>2. f = Cat(e, y) /\ e \in Seq(Raw) /\ y \in Seq(Raw)
    BY EncodedOfMore
  <2>3. ASSUME NEW n \in 0..Len(f), Whole(f, n) PROVE CutAt(w, n)
    <3>1. CatInfo(e, y, Raw)
      BY <2>2, CatIs
    <3>2. Len(f) = Len(e) + Len(y) /\ Len(e) \in Nat /\ Len(y) \in Nat
          /\ (\A i \in 1..Len(e) : f[i] = e[i]) /\ \A i \in 1..Len(y) : f[Len(e) + i] = y[i]
      BY <2>2, <3>1 DEF CatInfo
    <3>3. CASE n <= Len(e)
      <4>1. n \in 0..Len(e) /\ (n # 0 => n \in 1..Len(e))
        BY <3>2, <3>3
      <4>2. Whole(e, n)
        BY <2>3, <3>2, <4>1 DEF Whole
      <4>3. CutAt(r, n)
        BY <1>2, <4>1, <4>2
      <4>4. PICK r1, r2 \in Seq(Chars) :
               /\ r = Cat(r1, r2) /\ SubSeq(e, 1, n) = Encoded(r1)
               /\ SubSeq(e, n + 1, Len(e)) = Encoded(r2)
        BY <4>3 DEF CutAt
      <4> DEFINE x == <<c>>
                 s == Cat(r2, x)
      <4>5. x \in Seq(Chars) /\ s \in Seq(Chars)
        BY CatOfOne
      <4>6. w = Cat(r1, s)
        <5> HIDE DEF x
        <5>1. Cat(Cat(r1, r2), x) = Cat(r1, Cat(r2, x))
          BY <4>5, CatAssociates
        <5>2. QED
          BY <4>4, <5>1 DEF x
      <4>7. Encoded(s) = Cat(Encoded(r2), y)
        BY EncodedOfMore
      <4> HIDE DEF w, e, y, f, s
      <4>8. SubSeq(Cat(e, y), 1, n) = SubSeq(e, 1, n)
            /\ SubSeq(Cat(e, y), n + 1, Len(Cat(e, y))) = Cat(SubSeq(e, n + 1, Len(e)), y)
        BY <2>2, <4>1, CutOfCat
      <4>9. SubSeq(f, 1, n) = Encoded(r1) /\ SubSeq(f, n + 1, Len(f)) = Encoded(s)
        BY <2>2, <4>4, <4>7, <4>8
      <4>10. QED
        BY <4>5, <4>6, <4>9 DEF CutAt, f
    <3>4. CASE n = Len(f)
      BY <1>0, <2>1, <3>4
    <3>5. CASE ~(n <= Len(e)) /\ n # Len(f)
      <4>1. Len(y) # 1 /\ Len(y) # 0
        BY <3>2, <3>5
      <4>2. y = <<"wide1", "wide2">>
        BY <4>1 DEF Bytes
      <4>3. Len(y) = 2 /\ y[1] = "wide1"
        BY <4>2
      <4> HIDE DEF y, e, f
      <4>4. n = Len(e) + 1 /\ 1 \in 1..Len(y) /\ n # 0
        BY <3>2, <3>5, <4>3
      <4>5. f[n] = "wide1"
        BY <3>2, <4>3, <4>4
      <4>6. QED
        BY <2>3, <4>4, <4>5 DEF Whole
    <3>6. QED
      BY <3>3, <3>4, <3>5
  <2>4. QED
    BY <2>1, <2>3
<1> HIDE DEF T
<1>3. \A r \in Seq(Chars) : r \in T
  BY <1>1, <1>2, BySnoc
<1>4. QED
  BY <1>3 DEF T

LEMMA EncodedEmpty ==
  ASSUME NEW r \in Seq(Chars), Encoded(r) = <<>>
  PROVE  r = <<>>
<1> SUFFICES ASSUME r # <<>> PROVE FALSE
  OBVIOUS
<1> DEFINE f == SubSeq(r, 1, Len(r) - 1)
           c == r[Len(r)]
           e == Encoded(f)
           y == Bytes(c)
<1>1. f \in Seq(Chars) /\ c \in Chars /\ r = Cat(f, <<c>>)
  BY MoreOf
<1> HIDE DEF f, c
<1>2. Encoded(r) = Cat(e, y) /\ e \in Seq(Raw) /\ y \in Seq(Raw)
  BY <1>1, EncodedOfMore
<1>3. Len(y) = 1 \/ Len(y) = 2
  BY DEF Bytes
<1> HIDE DEF e, y
<1>4. CatInfo(e, y, Raw)
  BY <1>2, CatIs
<1>5. Len(Cat(e, y)) = Len(e) + Len(y) /\ Len(e) \in Nat
  BY <1>4 DEF CatInfo
<1>6. Len(Cat(e, y)) = 0
  BY <1>2
<1> DEFINE k == Len(e)
           l == Len(y)
           m == Len(Cat(e, y))
<1>7. m = k + l /\ k \in Nat /\ (l = 1 \/ l = 2) /\ m = 0
  BY <1>3, <1>5, <1>6
<1> HIDE DEF k, l, m
<1>8. QED
  BY <1>7

-----------------------------------------------------------------------------
(* StepOutput: bytes decoded.                                               *)

LossyRow(b, i) ==
  CASE b[i] = "wide1" -> IF i = Len(b) THEN <<"bad">> ELSE <<>>
    [] b[i] = "wide2" -> <<IF i = 1 THEN "bad" ELSE "wide">>
    [] OTHER          -> <<b[i]>>

LEMMA LossyIs == ASSUME NEW b \in Seq(Raw) PROVE Lossy(b) = FlattenSeq([i \in 1..Len(b) |-> LossyRow(b, i)])
<1>1. DOMAIN b = 1..Len(b)
  BY LenProperties
<1>2. QED
  BY <1>1 DEF Lossy, LossyRow

LEMMA LossyRows ==
  ASSUME NEW b \in Seq(Raw)
  PROVE  [i \in 1..Len(b) |-> LossyRow(b, i)] \in [1..Len(b) -> Seq(Decoded)]
<1>1. \A d \in Decoded : <<d>> \in Seq(Decoded)
  OBVIOUS
<1>2. <<>> \in Seq(Decoded)
  BY EmptySeq
<1>3. ASSUME NEW i \in 1..Len(b) PROVE LossyRow(b, i) \in Seq(Decoded)
  <2>1. b[i] \in Raw
    BY LenProperties, ElementOfSeq
  <2>2. "bad" \in Decoded /\ "wide" \in Decoded /\ (b[i] \notin {"wide1", "wide2"} => b[i] \in Decoded)
    BY <2>1 DEF Decoded, Chars, Raw
  <2> HIDE DEF Decoded
  <2>3. CASE b[i] = "wide1"
    BY <1>1, <1>2, <2>2, <2>3 DEF LossyRow
  <2>4. CASE b[i] = "wide2"
    BY <1>1, <1>2, <2>2, <2>4 DEF LossyRow
  <2>5. CASE b[i] \notin {"wide1", "wide2"}
    <3>1. LossyRow(b, i) = <<b[i]>>
      BY <2>5 DEF LossyRow
    <3>2. QED
      BY <1>1, <2>2, <2>5, <3>1
  <2>6. QED
    BY <2>3, <2>4, <2>5
<1>4. QED
  BY <1>3

LEMMA LossyType ==
  ASSUME NEW b \in Seq(Raw)
  PROVE  Lossy(b) \in Seq(Decoded)
<1> DEFINE r == [i \in 1..Len(b) |-> LossyRow(b, i)]
<1>1. r \in [1..Len(b) -> Seq(Decoded)] /\ Len(b) \in Nat
  BY LossyRows, LenProperties
<1>2. Lossy(b) = FlattenSeq(r)
  BY LossyIs
<1> HIDE DEF r
<1>3. r \in Rows(Decoded)
  BY <1>1, RowsAre
<1>4. QED
  BY <1>2, <1>3, FlatType

LEMMA TableOfOne == ASSUME NEW G, NEW x \in G, NEW t \in [1..1 -> G], t[1] = x PROVE t = <<x>>
<1>1. <<x>> \in [1..1 -> G] /\ <<x>>[1] = x /\ 1..1 = {1}
  OBVIOUS
<1>2. QED
  BY <1>1

LEMMA TableOfTwo ==
  ASSUME NEW G, NEW x \in G, NEW y \in G, NEW t \in [1..2 -> G], t[1] = x, t[2] = y
  PROVE  t = <<x, y>>
<1>1. <<x, y>> \in [1..2 -> G] /\ <<x, y>>[1] = x /\ <<x, y>>[2] = y /\ 1..2 = {1, 2}
  OBVIOUS
<1>2. QED
  BY <1>1

LEMMA PairIs == ASSUME NEW x, NEW y PROVE Cat(<<x>>, <<y>>) = <<x, y>>
<1> DEFINE G == {x, y}
           p == <<x>>
           u == <<x, y>>
           c == Cat(p, <<y>>)
<1>1. p \in Seq(G) /\ Len(p) = 1 /\ p[1] = x /\ y \in G
  OBVIOUS
<1>2. u \in Seq(G) /\ Len(u) = 2 /\ u[1] = x /\ u[2] = y
  OBVIOUS
<1> HIDE DEF G, p, u
<1>3. CatInfo(p, <<y>>, G) /\ c \in Seq(G) /\ Len(c) = Len(p) + 1 /\ c[Len(p) + 1] = y
  BY <1>1, CatOfOne
<1>4. c[1] = p[1]
  BY <1>1, <1>3 DEF CatInfo
<1> HIDE DEF c
<1>5. Len(c) = Len(u) /\ \A i \in 1..Len(c) : c[i] = u[i]
  BY <1>1, <1>2, <1>3, <1>4
<1>6. c = u
  BY <1>2, <1>3, <1>5, Alike
<1>7. QED
  BY <1>6 DEF c, p, u

\* A character behind whole ones is decoded by itself.
LEMMA LossyOfMore ==
  ASSUME NEW b \in Seq(Raw), Whole(b, Len(b)), NEW c \in Chars
  PROVE  Lossy(Cat(b, Bytes(c))) = Cat(Lossy(b), <<c>>)
<1> DEFINE y == Bytes(c)
           n == Len(b)
           m == Len(y)
           w == Cat(b, y)
           s == [i \in 1..n |-> LossyRow(b, i)]
           t == [j \in 1..m |-> LossyRow(w, n + j)]
           r == [i \in 1..(n + m) |-> LossyRow(w, i)]
<1>1. y \in Seq(Raw) /\ m \in Nat /\ n \in Nat
  BY CodedType, LenProperties
<1>2. w \in Seq(Raw) /\ Len(w) = n + m /\ (\A i \in 1..n : w[i] = b[i]) /\ \A j \in 1..m : w[n + j] = y[j]
  <2> HIDE DEF y
  <2>1. CatInfo(b, y, Raw)
    BY <1>1, CatIs
  <2>2. QED
    BY <2>1 DEF CatInfo
<1>3. (c = "wide" => m = 2 /\ y[1] = "wide1" /\ y[2] = "wide2") /\ (c # "wide" => m = 1 /\ y[1] = c)
  BY DEF Bytes
<1>4. c # "wide1" /\ c # "wide2"
  BY DEF Chars
<1> HIDE DEF y, w, n, m
<1>5. s \in [1..n -> Seq(Decoded)] /\ r \in [1..(n + m) -> Seq(Decoded)]
  <2>1. s \in [1..n -> Seq(Decoded)]
    BY LossyRows DEF n
  <2>2. [i \in 1..Len(w) |-> LossyRow(w, i)] \in [1..Len(w) -> Seq(Decoded)]
    BY <1>2, LossyRows
  <2>3. QED
    BY <1>2, <2>1, <2>2
<1>6. Lossy(b) = FlattenSeq(s) /\ Lossy(w) = FlattenSeq(r)
  <2>1. Lossy(w) = FlattenSeq([i \in 1..Len(w) |-> LossyRow(w, i)])
    BY <1>2, LossyIs
  <2>2. QED
    BY <1>2, <2>1, LossyIs DEF n
<1>7. \A i \in 1..n : LossyRow(w, i) = LossyRow(b, i)
  <2>1. ASSUME NEW i \in 1..n PROVE LossyRow(w, i) = LossyRow(b, i)
    <3>1. w[i] = b[i] /\ m # 0 /\ i # Len(w)
      BY <1>1, <1>2, <1>3
    <3>2. i = Len(b) => b[i] # "wide1"
      BY <1>1 DEF Whole, n
    <3>3. QED
      BY <3>1, <3>2 DEF LossyRow
  <2>2. QED
    BY <2>1
<1>8. \A j \in 1..m : n + j \in 1..(n + m)
  BY <1>1
<1>9. t \in [1..m -> Seq(Decoded)]
  <2>1. \A i \in 1..(n + m) : LossyRow(w, i) \in Seq(Decoded)
    BY <1>5
  <2>2. \A j \in 1..m : LossyRow(w, n + j) \in Seq(Decoded)
    BY <1>8, <2>1
  <2>3. QED
    BY <2>2
<1>10. (\A i \in 1..n : r[i] = s[i]) /\ \A j \in 1..m : r[n + j] = t[j]
  <2>1. \A i \in 1..n : i \in 1..(n + m)
    BY <1>1
  <2>2. QED
    BY <1>7, <1>8, <2>1
<1>11. c # "wide" => t = << <<c>> >>
  <2>1. ASSUME c # "wide" PROVE t = << <<c>> >>
    <3>1. m = 1 /\ w[n + 1] = c
      BY <1>2, <1>3, <2>1
    <3>2. LossyRow(w, n + 1) = <<c>>
      BY <1>4, <3>1 DEF LossyRow
    <3> DEFINE x == <<c>>
    <3>3. t[1] = x
      BY <3>1, <3>2
    <3> HIDE DEF t, x
    <3>4. t \in [1..1 -> Seq(Decoded)]
      BY <1>9, <3>1
    <3>5. t = <<x>>
      <4>1. x \in Seq(Decoded)
        BY <3>3, <3>4
      <4>2. QED
        BY <3>3, <3>4, <4>1, TableOfOne
    <3>6. QED
      BY <3>5 DEF x
  <2>2. QED
    BY <2>1
<1>12. c = "wide" => t = << <<>>, <<c>> >>
  <2>1. ASSUME c = "wide" PROVE t = << <<>>, <<c>> >>
    <3>1. m = 2 /\ w[n + 1] = "wide1" /\ w[n + 2] = "wide2" /\ n + 1 # Len(w) /\ n + 2 # 1
      BY <1>1, <1>2, <1>3, <2>1
    <3>2. LossyRow(w, n + 1) = <<>> /\ LossyRow(w, n + 2) = <<c>>
      BY <2>1, <3>1 DEF LossyRow
    <3> DEFINE x == <<c>>
               o == <<>>
    <3>3. t[1] = o /\ t[2] = x
      BY <3>1, <3>2
    <3> HIDE DEF t, x, o
    <3>4. t \in [1..2 -> Seq(Decoded)]
      BY <1>9, <3>1
    <3>5. t = <<o, x>>
      <4>1. x \in Seq(Decoded) /\ o \in Seq(Decoded)
        BY <3>3, <3>4
      <4>2. QED
        BY <3>3, <3>4, <4>1, TableOfTwo
    <3>6. QED
      BY <3>5 DEF x, o
  <2>2. QED
    BY <2>1
<1>13. FlattenSeq(t) = <<c>>
  <2> DEFINE x == <<c>>
  <2>1. c \in Decoded
    BY DEF Decoded
  <2>2. x \in Seq(Decoded) /\ <<>> \in Seq(Decoded)
    BY <2>1, EmptySeq
  <2> HIDE DEF x
  <2>3. FlattenSeq(<<x>>) = x
    BY <2>2, FlatOfOne
  <2>4. FlattenSeq(<< <<>>, x >>) = x
    <3> DEFINE z == << <<>> >>
    <3>1. z \in Rows(Decoded) /\ FlattenSeq(z) = <<>>
      BY <2>2, OneRow, FlatOfOne
    <3>2. Cat(z, <<x>>) = << <<>>, x >>
      BY PairIs
    <3> HIDE DEF z
    <3>3. FlattenSeq(Cat(z, <<x>>)) = Cat(FlattenSeq(z), x)
      BY <2>2, <3>1, FlatOfMore
    <3>4. Cat(<<>>, x) = x
      BY <2>2, CatOfNone
    <3>5. QED
      BY <3>1, <3>2, <3>3, <3>4
  <2>5. QED
    BY <1>11, <1>12, <2>3, <2>4 DEF x
<1> HIDE DEF s, t, r
<1>14. Parts(s, n, t, m, r, Decoded)
  BY <1>5, <1>9, <1>10 DEF Parts
<1>15. FlattenSeq(r) = Cat(FlattenSeq(s), FlattenSeq(t))
  BY <1>1, <1>14, FlatOfParts
<1>16. QED
  BY <1>6, <1>13, <1>15 DEF w, y

LEMMA LossyEncoded ==
  \A t \in Seq(Chars) : Lossy(Encoded(t)) = t /\ Whole(Encoded(t), Len(Encoded(t)))
<1> DEFINE T == {t \in Seq(Chars) : Lossy(Encoded(t)) = t /\ Whole(Encoded(t), Len(Encoded(t)))}
<1>1. <<>> \in T
  <2>1. <<>> \in Seq(Chars) /\ <<>> \in Seq(Raw) /\ Encoded(<<>>) = <<>> /\ Len(<<>>) = 0
    BY EmptySeq, EncodedOfNone
  <2>2. Lossy(<<>>) = <<>>
    BY FlatOfNone DEF Lossy
  <2>3. QED
    BY <2>1, <2>2 DEF Whole
<1>2. ASSUME NEW t \in Seq(Chars), NEW c \in Chars, t \in T PROVE Cat(t, <<c>>) \in T
  <2> DEFINE w == Cat(t, <<c>>)
             e == Encoded(t)
             y == Bytes(c)
             f == Cat(e, y)
  <2>1. w \in Seq(Chars)
    BY CatOfOne
  <2>2. Encoded(w) = f /\ e \in Seq(Raw) /\ y \in Seq(Raw)
    BY EncodedOfMore
  <2>3. Lossy(e) = t /\ Whole(e, Len(e))
    BY <1>2
  <2>4. Lossy(f) = w
    <3> HIDE DEF e
    <3>1. Lossy(Cat(e, Bytes(c))) = Cat(Lossy(e), <<c>>)
      BY <2>2, <2>3, LossyOfMore
    <3>2. QED
      BY <2>3, <3>1
  <2>5. Whole(f, Len(f))
    <3>1. Len(y) \in {1, 2} /\ y[Len(y)] # "wide1"
      BY DEF Bytes, Chars
    <3>2. Len(f) = Len(e) + Len(y) /\ \A j \in 1..Len(y) : f[Len(e) + j] = y[j]
      <4> HIDE DEF e, y
      <4>1. CatInfo(e, y, Raw)
        BY <2>2, CatIs
      <4>2. QED
        BY <4>1 DEF CatInfo
    <3> HIDE DEF f, e, y
    <3>3. Len(y) \in 1..Len(y)
      BY <3>1
    <3>4. f[Len(e) + Len(y)] = y[Len(y)]
      BY <3>2, <3>3
    <3>5. QED
      BY <3>1, <3>2, <3>4 DEF Whole
  <2> HIDE DEF w, f, e, y
  <2>6. w \in T
    BY <2>1, <2>2, <2>4, <2>5
  <2>7. QED
    BY <2>6 DEF w
<1> HIDE DEF T
<1>3. \A t \in Seq(Chars) : t \in T
  BY <1>1, <1>2, BySnoc
<1>4. QED
  BY <1>3 DEF T

\* Where no character has two bytes they are the text.
Plain == {"a", "nl", "cr", "esc", "csi"}

LEMMA LossyPlain ==
  ASSUME NEW b \in Seq(Plain)
  PROVE  Lossy(b) = b
<1>1. DOMAIN b = 1..Len(b) /\ \A i \in 1..Len(b) : b[i] \in Plain
  BY LenProperties, ElementOfSeq
<1>2. \A x \in Plain : x # "wide1" /\ x # "wide2"
  BY DEF Plain
<1>3. \A i \in DOMAIN b : LossyRow(b, i) = IF b[i] \in Plain THEN <<b[i]>> ELSE <<>>
  BY <1>1, <1>2 DEF LossyRow
<1>4. [i \in DOMAIN b |-> LossyRow(b, i)] = [i \in DOMAIN b |-> IF b[i] \in Plain THEN <<b[i]>> ELSE <<>>]
  BY <1>3
<1>5. Lossy(b) = FlattenSeq([i \in DOMAIN b |-> LossyRow(b, i)])
  BY DEF Lossy, LossyRow
<1>6. Lossy(b) = Only(b, Plain)
  BY <1>4, <1>5 DEF Only
<1>7. QED
  BY <1>6, OnlyOfAll

-----------------------------------------------------------------------------
(* StepOutput: the events.                                                  *)

Clean == Decoded \ {"nl"}
Event == [stream : Streams, line : Seq(Clean)]

\* What events say, of a stream and of both.
LinesIn(log, s) == FlattenSeq([k \in DOMAIN log |-> IF log[k].stream = s THEN <<log[k].line>> ELSE <<>>])
TextIn(log) == FlattenSeq([k \in DOMAIN log |-> log[k].line])

OfStream(s) == [e \in Event |-> IF e.stream = s THEN <<e.line>> ELSE <<>>]
OfAny == [e \in Event |-> e.line]

LEMMA OfTables ==
  ASSUME NEW s
  PROVE  OfStream(s) \in Tables(Event, Seq(Clean)) /\ OfAny \in Tables(Event, Clean)
<1> DEFINE S == Seq(Clean)
<1>1. \A e \in Event : e.line \in S
  BY DEF Event
<1> HIDE DEF S
<1>2. \A l \in S : <<l>> \in Seq(S)
  OBVIOUS
<1>3. <<>> \in Seq(S)
  BY EmptySeq
<1>4. \A e \in Event : (IF e.stream = s THEN <<e.line>> ELSE <<>>) \in Seq(S)
  BY <1>1, <1>2, <1>3
<1>5. OfStream(s) \in [Event -> Seq(S)]
  BY <1>4 DEF OfStream
<1>6. OfAny \in [Event -> S]
  BY <1>1 DEF OfAny
<1>7. QED
  BY <1>5, <1>6 DEF Tables, S

LEMMA InAreSpreads ==
  ASSUME NEW log \in Seq(Event), NEW s
  PROVE  LinesIn(log, s) = Spread(log, OfStream(s)) /\ TextIn(log) = Spread(log, OfAny)
<1>1. \A i \in DOMAIN log : log[i] \in Event
  BY LenProperties, ElementOfSeq
<1>2. \A i \in DOMAIN log : OfStream(s)[log[i]] = IF log[i].stream = s THEN <<log[i].line>> ELSE <<>>
  BY <1>1 DEF OfStream
<1>3. \A i \in DOMAIN log : OfAny[log[i]] = log[i].line
  BY <1>1 DEF OfAny
<1>4. [k \in DOMAIN log |-> IF log[k].stream = s THEN <<log[k].line>> ELSE <<>>] = [i \in DOMAIN log |-> OfStream(s)[log[i]]]
  BY <1>2
<1>5. [k \in DOMAIN log |-> log[k].line] = [i \in DOMAIN log |-> OfAny[log[i]]]
  BY <1>3
<1>6. QED
  BY <1>4, <1>5 DEF LinesIn, TextIn, Spread

LEMMA InType ==
  ASSUME NEW log \in Seq(Event), NEW s
  PROVE  LinesIn(log, s) \in Rows(Clean) /\ TextIn(log) \in Seq(Clean)
<1> DEFINE S == Seq(Clean)
<1>1. OfStream(s) \in Tables(Event, S) /\ OfAny \in Tables(Event, Clean)
  BY OfTables
<1> HIDE DEF S
<1>2. Spread(log, OfStream(s)) \in Seq(S)
  BY <1>1, SpreadType
<1>3. Spread(log, OfAny) \in Seq(Clean)
  BY <1>1, SpreadType
<1>4. QED
  BY <1>2, <1>3, InAreSpreads DEF Rows, S

LEMMA EventsType ==
  ASSUME NEW t \in Streams, NEW L \in Rows(Clean)
  PROVE  Events(t, L) \in Seq(Event)
<1>1. Len(L) \in Nat /\ DOMAIN L = 1..Len(L) /\ \A k \in 1..Len(L) : L[k] \in Seq(Clean)
  BY RowsAre
<1>2. Events(t, L) \in [1..Len(L) -> Event]
  BY <1>1 DEF Events, Event
<1>3. QED
  BY <1>1, <1>2, Tabled

LEMMA EventsSay ==
  ASSUME NEW t \in Streams, NEW L \in Rows(Clean), NEW s
  PROVE  LinesIn(Events(t, L), s) = (IF s = t THEN L ELSE <<>>) /\ TextIn(Events(t, L)) = FlattenSeq(L)
<1> DEFINE S == Seq(Clean)
           v == [k \in DOMAIN L |-> <<>>]
<1>1. Len(L) \in Nat /\ DOMAIN L = 1..Len(L) /\ \A k \in DOMAIN L : L[k] \in S
  BY RowsAre
<1>2. DOMAIN Events(t, L) = DOMAIN L /\ \A k \in DOMAIN L : Events(t, L)[k].stream = t /\ Events(t, L)[k].line = L[k]
  BY DEF Events
<1>3. L \in Seq(S)
  BY DEF Rows
<1> HIDE DEF S
<1>4. s = t => LinesIn(Events(t, L), s) = L
  <2>1. ASSUME s = t PROVE LinesIn(Events(t, L), s) = L
    <3>1. [k \in DOMAIN Events(t, L) |-> IF Events(t, L)[k].stream = s THEN <<Events(t, L)[k].line>> ELSE <<>>]
            = [k \in DOMAIN L |-> IF L[k] \in S THEN <<L[k]>> ELSE <<>>]
      BY <1>1, <1>2, <2>1
    <3>2. LinesIn(Events(t, L), s) = Only(L, S)
      BY <3>1 DEF LinesIn, Only
    <3>3. QED
      BY <1>3, <3>2, OnlyOfAll
  <2>2. QED
    BY <2>1
<1>5. s # t => LinesIn(Events(t, L), s) = <<>>
  <2>1. ASSUME s # t PROVE LinesIn(Events(t, L), s) = <<>>
    <3>1. [k \in DOMAIN Events(t, L) |-> IF Events(t, L)[k].stream = s THEN <<Events(t, L)[k].line>> ELSE <<>>] = v
      BY <1>1, <1>2, <2>1
    <3>2. v \in [1..Len(L) -> {<<>>}]
      BY <1>1
    <3>3. LinesIn(Events(t, L), s) = FlattenSeq(v)
      BY <3>1 DEF LinesIn
    <3> HIDE DEF v
    <3>4. QED
      BY <1>1, <3>2, <3>3, FlatOfNothing
  <2>2. QED
    BY <2>1
<1>6. TextIn(Events(t, L)) = FlattenSeq(L)
  <2>1. [k \in DOMAIN Events(t, L) |-> Events(t, L)[k].line] = [k \in DOMAIN L |-> L[k]]
    BY <1>2
  <2>2. L = [k \in DOMAIN L |-> L[k]]
    BY <1>3, LenProperties
  <2>3. QED
    BY <2>1, <2>2 DEF TextIn
<1>7. QED
  BY <1>4, <1>5, <1>6

LEMMA InOfMore ==
  ASSUME NEW log \in Seq(Event), NEW t \in Streams, NEW L \in Rows(Clean), NEW s
  PROVE  /\ Cat(log, Events(t, L)) \in Seq(Event)
         /\ LinesIn(Cat(log, Events(t, L)), s) = IF s = t THEN Cat(LinesIn(log, s), L) ELSE LinesIn(log, s)
         /\ TextIn(Cat(log, Events(t, L))) = Cat(TextIn(log), FlattenSeq(L))
<1> DEFINE x == Events(t, L)
           w == Cat(log, x)
           S == Seq(Clean)
<1>1. x \in Seq(Event)
  BY EventsType
<1>2. LinesIn(x, s) = (IF s = t THEN L ELSE <<>>) /\ TextIn(x) = FlattenSeq(L)
  BY EventsSay
<1> HIDE DEF x
<1>3. w \in Seq(Event)
  <2>1. CatInfo(log, x, Event)
    BY <1>1, CatIs
  <2>2. QED
    BY <2>1 DEF CatInfo
<1>4. OfStream(s) \in Tables(Event, S) /\ OfAny \in Tables(Event, Clean)
  BY OfTables
<1> HIDE DEF S
<1>5. Spread(w, OfStream(s)) = Cat(Spread(log, OfStream(s)), Spread(x, OfStream(s)))
  BY <1>1, <1>4, SpreadOfCat
<1>6. Spread(w, OfAny) = Cat(Spread(log, OfAny), Spread(x, OfAny))
  BY <1>1, <1>4, SpreadOfCat
<1>7. LinesIn(log, s) = Spread(log, OfStream(s)) /\ TextIn(log) = Spread(log, OfAny)
  BY InAreSpreads
<1>8. LinesIn(x, s) = Spread(x, OfStream(s)) /\ TextIn(x) = Spread(x, OfAny)
  BY <1>1, InAreSpreads
<1> HIDE DEF w
<1>9. LinesIn(w, s) = Spread(w, OfStream(s)) /\ TextIn(w) = Spread(w, OfAny)
  BY <1>3, InAreSpreads
<1>10. LinesIn(w, s) = Cat(LinesIn(log, s), LinesIn(x, s)) /\ TextIn(w) = Cat(TextIn(log), TextIn(x))
  BY <1>5, <1>6, <1>7, <1>8, <1>9
<1>11. Cat(LinesIn(log, s), <<>>) = LinesIn(log, s)
  <2>1. LinesIn(log, s) \in Rows(Clean)
    BY InType
  <2>2. QED
    BY <2>1, RowsOfNone
<1>12. QED
  BY <1>2, <1>3, <1>10, <1>11 DEF w, x

-----------------------------------------------------------------------------
(* StepOutput: what is printed of a line.                                   *)

Shown == {"a", "wide", "bad", "^", "[", "M", "M-^"}
Escapes ==
  [c \in Clean |->
     CASE c = "esc" -> <<"^", "[">>
       [] c = "cr"  -> <<"^", "M">>
       [] c = "csi" -> <<"M-^", "[">>
       [] OTHER     -> <<c>>]

LEMMA EscapesAre ==
  ASSUME NEW c \in Clean
  PROVE  /\ Escapes[c] \in Seq(Shown)
         /\ Only(Escapes[c], Drawn) = IF c \in Drawn THEN <<c>> ELSE <<>>
<1> DEFINE H == {"^", "[", "M", "M-^"}
<1>1. \A x, y \in H : <<x, y>> \in Seq(H) /\ Only(<<x, y>>, Drawn) = <<>>
  <2>1. H \cap Drawn = {}
    BY DEF Drawn
  <2> HIDE DEF H
  <2>2. ASSUME NEW x \in H, NEW y \in H PROVE <<x, y>> \in Seq(H) /\ Only(<<x, y>>, Drawn) = <<>>
    <3> DEFINE p == <<x, y>>
    <3>1. p \in Seq(H)
      OBVIOUS
    <3> HIDE DEF p
    <3>2. Only(p, Drawn) = <<>>
      BY <2>1, <3>1, OnlyOfOthers
    <3>3. QED
      BY <3>1, <3>2 DEF p
  <2>3. QED
    BY <2>2
<1>2. c \in {"esc", "cr", "csi"} => \E x, y \in H : Escapes[c] = <<x, y>>
  BY DEF Escapes
<1>3. c \notin {"esc", "cr", "csi"} => Escapes[c] = <<c>> /\ c \in Shown
  BY DEF Escapes, Clean, Decoded, Chars, Shown
<1>4. Seq(H) \subseteq Seq(Shown)
  <2>1. H \subseteq Shown
    BY DEF Shown
  <2> HIDE DEF H
  <2>2. QED
    BY <2>1, SeqMonotonic
<1>5. CASE c \in {"esc", "cr", "csi"}
  <2>1. PICK x, y \in H : Escapes[c] = <<x, y>>
    BY <1>2, <1>5
  <2>2. c \notin Drawn
    BY <1>5 DEF Drawn
  <2> HIDE DEF H
  <2>3. QED
    BY <1>1, <1>4, <2>1, <2>2
<1>6. CASE c \notin {"esc", "cr", "csi"}
  <2>1. Escapes[c] = <<c>> /\ c \in Shown
    BY <1>3, <1>6
  <2>2. <<c>> \in Seq(Shown)
    BY <2>1
  <2>3. QED
    BY <2>1, <2>2, OnlyOfOne
<1>7. QED
  BY <1>5, <1>6

LEMMA EscapeIs ==
  ASSUME NEW l \in Seq(Clean)
  PROVE  /\ Escape(l) \in Seq(Shown)
         /\ Only(Escape(l), Drawn) = Only(l, Drawn)
<1> DEFINE K == Keeping(Shown, Drawn)
           D == Composed(Escapes, K, Clean)
           k == Keeping(Clean, Drawn)
<1>1. Escapes \in Tables(Clean, Shown)
  <2>1. \A c \in Clean : Escapes[c] \in Seq(Shown)
    BY EscapesAre
  <2>2. Escapes = [c \in Clean |-> Escapes[c]]
    BY DEF Escapes
  <2>3. QED
    BY <2>1, <2>2, Zenon DEF Tables
<1>2. K \in Tables(Shown, Shown)
  BY KeepingType
<1>3. Escape(l) = Spread(l, Escapes)
  <2>1. \A i \in DOMAIN l : l[i] \in Clean
    BY LenProperties, ElementOfSeq
  <2>2. \A i \in DOMAIN l : Escapes[l[i]] =
          CASE l[i] = "esc" -> <<"^", "[">>
            [] l[i] = "cr"  -> <<"^", "M">>
            [] l[i] = "csi" -> <<"M-^", "[">>
            [] OTHER           -> <<l[i]>>
    BY <2>1 DEF Escapes
  <2>3. QED
    BY <2>2, Zenon DEF Escape, Spread
<1>4. Spread(l, Escapes) \in Seq(Shown)
  BY <1>1, SpreadType
<1>5. Only(Spread(l, Escapes), Drawn) = Spread(Spread(l, Escapes), K)
  BY <1>4, OnlyIs
<1> HIDE DEF K
<1>6. Spread(Spread(l, Escapes), K) = Spread(l, D)
  BY <1>1, <1>2, SpreadTwice
<1>7. \A c \in Clean : D[c] = k[c]
  <2>1. ASSUME NEW c \in Clean PROVE D[c] = k[c]
    <3>1. Escapes[c] \in Seq(Shown) /\ Only(Escapes[c], Drawn) = IF c \in Drawn THEN <<c>> ELSE <<>>
      BY EscapesAre
    <3>2. D[c] = Spread(Escapes[c], K)
      BY DEF Composed
    <3>3. Only(Escapes[c], Drawn) = Spread(Escapes[c], K)
      BY <3>1, OnlyIs DEF K
    <3>4. k[c] = IF c \in Drawn THEN <<c>> ELSE <<>>
      BY DEF Keeping
    <3>5. QED
      BY <3>1, <3>2, <3>3, <3>4
  <2>2. QED
    BY <2>1
<1> HIDE DEF D, k
<1>8. Spread(l, D) = Spread(l, k)
  BY <1>7, SpreadAlike
<1>9. Only(l, Drawn) = Spread(l, k)
  BY OnlyIs DEF k
<1>10. QED
  BY <1>3, <1>4, <1>5, <1>6, <1>8, <1>9

-----------------------------------------------------------------------------
(* StepOutput: what has become of a stream, from what was written to it, the *)
(* bytes unsent and the lines logged.                                       *)

LEMMA CatType ==
  ASSUME NEW G, NEW s \in Seq(G), NEW t \in Seq(G)
  PROVE  Cat(s, t) \in Seq(G) /\ Len(Cat(s, t)) = Len(s) + Len(t) /\ Len(s) \in Nat /\ Len(t) \in Nat
<1>1. CatInfo(s, t, G)
  BY CatIs
<1>2. QED
  BY <1>1 DEF CatInfo

\* Locally: whole lines were framed, then a part of what was written since; its
\* lines are those of the part, decoded.
FramesOf(w, u, L, ended) ==
  \E h, r \in Seq(Chars), B \in Seq(Raw) :
    /\ w = Cat(h, r) /\ Encoded(r) = Cat(B, u)
    /\ Rest(h, "nl") = <<>> /\ (ended => B = <<>>)
    /\ Trimmed(L) = Cat(Trimmed(EndedOf(h, FALSE)), Trimmed(TextLines(Lossy(B))))

LEMMA FramesNone == ASSUME NEW ended PROVE FramesOf(<<>>, <<>>, <<>>, ended)
<1> DEFINE o == <<>>
<1>1. o \in Seq(Chars) /\ o \in Seq(Raw) /\ Encoded(o) = o /\ o = Cat(o, o) /\ Rest(o, "nl") = o
  <2>1. o \in Seq(Chars) /\ o \in Seq(Raw)
    BY EmptySeq
  <2>2. Cat(o, o) = o
    BY <2>1, CatOfNone
  <2>3. QED
    BY <2>1, <2>2, EncodedOfNone, RestOfNone
<1>2. Lossy(o) = o
  BY FlatOfNone DEF Lossy
<1>3. EndedOf(o, FALSE) = o /\ TextLines(o) = o /\ Trimmed(o) = o
  <2>1. TextLines(o) = AllOf(o, TRUE)
    BY <1>1, AllAre
  <2>2. QED
    BY <2>1, LinesOfNone, TrimmedOfNone
<1>4. Cat(Trimmed(EndedOf(o, FALSE)), Trimmed(TextLines(Lossy(o)))) = o
  BY <1>1, <1>2, <1>3
<1>5. Trimmed(o) = Cat(Trimmed(EndedOf(o, FALSE)), Trimmed(TextLines(Lossy(o))))
  BY <1>3, <1>4
<1>6. o = Cat(o, o) /\ Encoded(o) = Cat(o, o) /\ Rest(o, "nl") = <<>> /\ o = <<>>
  BY <1>1
<1>7. o \in Seq(Chars) /\ o \in Seq(Raw)
  BY <1>1
<1> HIDE DEF o
<1>8. \E h, r \in Seq(Chars), B \in Seq(Raw) :
    /\ o = Cat(h, r) /\ Encoded(r) = Cat(B, o)
    /\ Rest(h, "nl") = <<>> /\ (ended => B = <<>>)
    /\ Trimmed(o) = Cat(Trimmed(EndedOf(h, FALSE)), Trimmed(TextLines(Lossy(B))))
  BY <1>5, <1>6, <1>7
<1>9. FramesOf(o, o, o, ended)
  BY <1>8, Zenon DEF FramesOf
<1>10. QED
  BY <1>9 DEF o

LEMMA FramesWritten ==
  ASSUME NEW w, NEW u \in Seq(Raw), NEW L, NEW ended, FramesOf(w, u, L, ended), NEW c \in Chars
  PROVE  FramesOf(Cat(w, <<c>>), Cat(u, Bytes(c)), L, ended)
<1>1. PICK h, r \in Seq(Chars), B \in Seq(Raw) :
        /\ w = Cat(h, r) /\ Encoded(r) = Cat(B, u)
        /\ Rest(h, "nl") = <<>> /\ (ended => B = <<>>)
        /\ Trimmed(L) = Cat(Trimmed(EndedOf(h, FALSE)), Trimmed(TextLines(Lossy(B))))
  BY DEF FramesOf
<1> DEFINE x == <<c>>
           y == Bytes(c)
           q == Cat(r, x)
<1>2. x \in Seq(Chars) /\ q \in Seq(Chars)
  BY CatOfOne
<1>3. Encoded(q) = Cat(Encoded(r), y) /\ y \in Seq(Raw)
  BY EncodedOfMore
<1> HIDE DEF x, y
<1>4. Cat(Cat(h, r), x) = Cat(h, q)
  BY <1>2, CatAssociates
<1>5. Cat(Cat(B, u), y) = Cat(B, Cat(u, y))
  BY <1>3, CatAssociates
<1> HIDE DEF q
<1>6. FramesOf(Cat(w, x), Cat(u, y), L, ended)
  <2>1. Cat(w, x) = Cat(h, q) /\ Encoded(q) = Cat(B, Cat(u, y))
    BY <1>1, <1>3, <1>4, <1>5
  <2>2. QED
    BY <1>1, <1>2, <2>1 DEF FramesOf
<1>7. QED
  BY <1>6 DEF x, y

\* A text that ends in a newline has nothing behind it.
LEMMA RestOfEnded ==
  ASSUME NEW G, NEW t \in Seq(G), t # <<>>, t[Len(t)] = "nl"
  PROVE  Rest(t, "nl") = <<>>
<1> DEFINE f == SubSeq(t, 1, Len(t) - 1)
           c == t[Len(t)]
<1>1. f \in Seq(G) /\ c \in G /\ t = Cat(f, <<c>>)
  BY MoreOf
<1> HIDE DEF f
<1>2. Rest(Cat(f, <<c>>), "nl") = <<>>
  BY <1>1, RestOfMore
<1>3. QED
  BY <1>1, <1>2

\* The last character of a text whose last byte is a newline.
LEMMA LastEncoded ==
  ASSUME NEW r \in Seq(Chars), Encoded(r) # <<>>, Encoded(r)[Len(Encoded(r))] = "nl"
  PROVE  r # <<>> /\ r[Len(r)] = "nl"
<1>1. r # <<>>
  BY EncodedOfNone
<1> DEFINE f == SubSeq(r, 1, Len(r) - 1)
           c == r[Len(r)]
           e == Encoded(f)
           y == Bytes(c)
           w == Cat(e, y)
<1>2. f \in Seq(Chars) /\ c \in Chars /\ r = Cat(f, <<c>>)
  BY <1>1, MoreOf
<1> HIDE DEF f, c
<1>3. Encoded(r) = w /\ e \in Seq(Raw) /\ y \in Seq(Raw)
  BY <1>2, EncodedOfMore
<1>4. (c = "wide" => Len(y) = 2 /\ y[2] = "wide2") /\ (c # "wide" => Len(y) = 1 /\ y[1] = c)
  BY DEF Bytes
<1> HIDE DEF e, y
<1>5. CatInfo(e, y, Raw)
  BY <1>3, CatIs
<1>6. Len(w) = Len(e) + Len(y) /\ \A j \in 1..Len(y) : w[Len(e) + j] = y[j]
  BY <1>5 DEF CatInfo
<1>7. w[Len(w)] = "nl"
  BY <1>3
<1> HIDE DEF w
<1>8. CASE c = "wide"
  <2>1. Len(y) = 2 /\ y[2] = "wide2"
    BY <1>4, <1>8
  <2>2. 2 \in 1..Len(y)
    BY <2>1
  <2>3. w[Len(e) + 2] = y[2] /\ Len(w) = Len(e) + 2
    BY <1>6, <2>1, <2>2
  <2>4. QED
    BY <1>7, <2>1, <2>3
<1>9. CASE c # "wide"
  <2>1. Len(y) = 1 /\ y[1] = c
    BY <1>4, <1>9
  <2>2. 1 \in 1..Len(y)
    BY <2>1
  <2>3. w[Len(e) + 1] = y[1] /\ Len(w) = Len(e) + 1
    BY <1>6, <2>1, <2>2
  <2>4. c = "nl"
    BY <1>7, <2>1, <2>3
  <2>5. QED
    BY <1>1, <2>4 DEF c
<1>10. QED
  BY <1>8, <1>9

LEMMA FramesSent ==
  ASSUME NEW w, NEW u \in Seq(Raw), NEW L \in Rows(Clean), FramesOf(w, u, L, TRUE), NEW n \in 1..Len(u)
  PROVE  FramesOf(w, SubSeq(u, n + 1, Len(u)), Cat(L, TextLines(Lossy(SubSeq(u, 1, n)))), u[n] = "nl")
<1> DEFINE b == SubSeq(u, 1, n)
           v == SubSeq(u, n + 1, Len(u))
           M == TextLines(Lossy(b))
           o == <<>>
<1>1. PICK h, r \in Seq(Chars), B \in Seq(Raw) :
        /\ w = Cat(h, r) /\ Encoded(r) = Cat(B, u)
        /\ Rest(h, "nl") = <<>> /\ B = <<>>
        /\ Trimmed(L) = Cat(Trimmed(EndedOf(h, FALSE)), Trimmed(TextLines(Lossy(B))))
  BY DEF FramesOf
<1> DEFINE E == Trimmed(EndedOf(h, FALSE))
<1>2. Cat(o, u) = u
  BY CatOfNone
<1>3. Encoded(r) = u
  BY <1>1, <1>2
<1>4. E \in Rows(Chars)
  <2>1. EndedOf(h, FALSE) \in Rows(Chars)
    BY EndedType
  <2>2. QED
    BY <2>1, TrimmedIs
<1>5. Trimmed(L) = E
  <2>1. o \in Seq(Raw) /\ Lossy(o) = o
    BY EmptySeq, FlatOfNone DEF Lossy
  <2>2. TextLines(o) = AllOf(o, TRUE)
    BY <2>1, AllAre
  <2>3. Trimmed(TextLines(Lossy(B))) = o
    BY <1>1, <2>1, <2>2, LinesOfNone, TrimmedOfNone
  <2>4. Cat(E, o) = E
    BY <1>4, RowsOfNone
  <2>5. QED
    BY <1>1, <2>3, <2>4
<1>6. n \in 0..Len(u) /\ n # 0
  OBVIOUS
<1>7. b \in Seq(Raw) /\ v \in Seq(Raw) /\ u = Cat(b, v) /\ Len(b) = n /\ \A j \in 1..n : b[j] = u[j]
  BY <1>6, CutInTwo
<1>8. n \in 1..n /\ n \in Nat
  BY <1>6
<1>9. b[Len(b)] = u[n] /\ b # <<>>
  BY <1>6, <1>7, <1>8
<1> HIDE DEF b, v, E
<1>10. Lossy(b) \in Seq(Decoded)
  BY <1>7, LossyType
<1>11. M \in Rows(Clean)
  BY <1>10, LinesClean DEF Clean
<1>12. Trimmed(Cat(L, M)) = Cat(E, Trimmed(M))
  BY <1>5, <1>11, TrimmedOfCat
<1>13. CASE u[n] # "nl"
  <2>1. /\ w = Cat(h, r) /\ Encoded(r) = Cat(b, v) /\ Rest(h, "nl") = <<>> /\ (u[n] = "nl" => b = <<>>)
        /\ Trimmed(Cat(L, M)) = Cat(Trimmed(EndedOf(h, FALSE)), Trimmed(TextLines(Lossy(b))))
    BY <1>1, <1>3, <1>7, <1>12, <1>13 DEF E
  <2> HIDE DEF M
  <2>2. FramesOf(w, v, Cat(L, M), u[n] = "nl")
    BY <1>7, <2>1 DEF FramesOf
  <2>3. QED
    BY <2>2 DEF b, v, M
<1>14. CASE u[n] = "nl"
  <2>1. Whole(u, n)
    BY <1>14 DEF Whole
  <2>2. CutAt(r, n)
    BY <1>3, <1>6, <2>1, EncodedCut
  <2>3. PICK r1, r2 \in Seq(Chars) : r = Cat(r1, r2) /\ b = Encoded(r1) /\ v = Encoded(r2)
    BY <1>3, <2>2 DEF CutAt, b, v
  <2>4. r1 # <<>> /\ r1[Len(r1)] = "nl"
    BY <1>9, <1>14, <2>3, LastEncoded
  <2>5. Rest(r1, "nl") = <<>>
    BY <2>4, RestOfEnded
  <2>6. Lossy(b) = r1
    BY <2>3, LossyEncoded
  <2> DEFINE k == Cat(h, r1)
             F == EndedOf(r1, FALSE)
  <2>7. k \in Seq(Chars)
    BY CatType
  <2>8. LinesJoined(h, r1)
    BY LinesOfCat
  <2>9. Cat(Rest(h, "nl"), r1) = r1
    BY <1>1, CatOfNone
  <2>10. EndedOf(k, FALSE) = Cat(EndedOf(h, FALSE), F) /\ Rest(k, "nl") = <<>>
    BY <2>5, <2>8, <2>9 DEF LinesJoined
  <2>11. F \in Rows(Chars) /\ EndedOf(h, FALSE) \in Rows(Chars)
    BY EndedType
  <2>12. Trimmed(M) = Trimmed(F)
    <3>1. Pieces(r1) = Cat(EndedOf(r1, FALSE), Tail1(r1)) /\ Trimmed(TextLines(r1)) = Trimmed(Pieces(r1))
      BY LinesSplit
    <3>2. Tail1(r1) = <<>>
      BY <2>5 DEF Tail1
    <3>3. Cat(F, <<>>) = F
      BY <2>11, RowsOfNone
    <3>4. QED
      BY <2>6, <3>1, <3>2, <3>3
  <2> HIDE DEF F, k
  <2>13. Trimmed(Cat(EndedOf(h, FALSE), F)) = Cat(E, Trimmed(F))
    BY <2>11, TrimmedOfCat DEF E
  <2>14. Trimmed(Cat(L, M)) = Trimmed(EndedOf(k, FALSE))
    BY <1>12, <2>10, <2>12, <2>13
  <2>15. w = Cat(k, r2)
    <3>1. Cat(Cat(h, r1), r2) = Cat(h, Cat(r1, r2))
      BY CatAssociates
    <3>2. QED
      BY <1>1, <2>3, <3>1 DEF k
  <2>16. Encoded(r2) = Cat(o, v)
    <3>1. Cat(o, v) = v
      BY <1>7, CatOfNone
    <3>2. QED
      BY <2>3, <3>1
  <2>17. Trimmed(Cat(L, M)) = Cat(Trimmed(EndedOf(k, FALSE)), Trimmed(TextLines(Lossy(o))))
    <3>1. o \in Seq(Raw) /\ Lossy(o) = o
      BY EmptySeq, FlatOfNone DEF Lossy
    <3>2. TextLines(o) = AllOf(o, TRUE)
      BY <3>1, AllAre
    <3>3. Trimmed(TextLines(Lossy(o))) = o
      BY <3>1, <3>2, LinesOfNone, TrimmedOfNone
    <3>4. EndedOf(k, FALSE) \in Rows(Chars)
      BY <2>7, EndedType
    <3>5. Trimmed(EndedOf(k, FALSE)) \in Rows(Chars)
      BY <3>4, TrimmedIs
    <3>6. Cat(Trimmed(EndedOf(k, FALSE)), o) = Trimmed(EndedOf(k, FALSE))
      BY <3>5, RowsOfNone
    <3>7. QED
      BY <2>14, <3>3, <3>6
  <2>18. o \in Seq(Raw)
    BY EmptySeq
  <2> HIDE DEF M
  <2>19. FramesOf(w, v, Cat(L, M), u[n] = "nl")
    <3>1. o = <<>>
      OBVIOUS
    <3> HIDE DEF o
    <3>2. QED
      BY <2>7, <2>10, <2>15, <2>16, <2>17, <2>18, <3>1 DEF FramesOf
  <2>20. QED
    BY <2>19 DEF b, v, M
<1>15. QED
  BY <1>13, <1>14

LEMMA FramesOver ==
  ASSUME NEW w, NEW L, NEW ended, FramesOf(w, <<>>, L, ended)
  PROVE  Trimmed(L) = Trimmed(Pieces(w))
<1>1. PICK h, r \in Seq(Chars), B \in Seq(Raw) :
        /\ w = Cat(h, r) /\ Encoded(r) = Cat(B, <<>>)
        /\ Rest(h, "nl") = <<>>
        /\ Trimmed(L) = Cat(Trimmed(EndedOf(h, FALSE)), Trimmed(TextLines(Lossy(B))))
  BY DEF FramesOf
<1>2. Encoded(r) = B
  BY <1>1, CatOfNone
<1>3. Lossy(B) = r
  BY <1>2, LossyEncoded
<1>4. w \in Seq(Chars)
  BY <1>1, CatType
<1>5. LinesJoined(h, r)
  BY LinesOfCat
<1>6. Cat(Rest(h, "nl"), r) = r
  BY <1>1, CatOfNone
<1>7. EndedOf(w, FALSE) = Cat(EndedOf(h, FALSE), EndedOf(r, FALSE)) /\ Rest(w, "nl") = Rest(r, "nl")
  BY <1>1, <1>5, <1>6 DEF LinesJoined
<1>8. Tail1(w) = Tail1(r)
  BY <1>7 DEF Tail1
<1>9. Pieces(w) = Cat(EndedOf(w, FALSE), Tail1(w))
  BY <1>4, LinesSplit
<1>10. Pieces(r) = Cat(EndedOf(r, FALSE), Tail1(r)) /\ Trimmed(TextLines(r)) = Trimmed(Pieces(r))
       /\ Pieces(r) \in Rows(Chars) /\ Tail1(r) \in Rows(Chars)
  BY LinesSplit
<1>11. EndedOf(h, FALSE) \in Rows(Chars) /\ EndedOf(r, FALSE) \in Rows(Chars)
  BY EndedType
<1>12. Cat(Cat(EndedOf(h, FALSE), EndedOf(r, FALSE)), Tail1(r)) = Cat(EndedOf(h, FALSE), Cat(EndedOf(r, FALSE), Tail1(r)))
  <2> DEFINE x == EndedOf(h, FALSE)
             y == EndedOf(r, FALSE)
             z == Tail1(r)
  <2>1. x \in Rows(Chars) /\ y \in Rows(Chars) /\ z \in Rows(Chars)
    BY <1>10, <1>11
  <2> HIDE DEF x, y, z
  <2>2. Cat(Cat(x, y), z) = Cat(x, Cat(y, z))
    BY <2>1, RowsAssociate
  <2>3. QED
    BY <2>2 DEF x, y, z
<1>13. Pieces(w) = Cat(EndedOf(h, FALSE), Pieces(r))
  BY <1>7, <1>8, <1>9, <1>10, <1>12
<1>14. Trimmed(Cat(EndedOf(h, FALSE), Pieces(r))) = Cat(Trimmed(EndedOf(h, FALSE)), Trimmed(Pieces(r)))
  BY <1>10, <1>11, TrimmedOfCat
<1>15. QED
  BY <1>1, <1>3, <1>10, <1>13, <1>14

-----------------------------------------------------------------------------
\* Of plain characters, none is lost.
KeptOf(w, u, L) == \E h \in Seq(Plain) : w = Cat(h, u) /\ u \in Seq(Plain) /\ AllMarks(L) = Marks(h)

LEMMA KeptNone == KeptOf(<<>>, <<>>, <<>>)
<1>1. <<>> \in Seq(Plain)
  BY EmptySeq
<1>2. Cat(<<>>, <<>>) = <<>>
  BY <1>1, CatOfNone
<1>3. QED
  BY <1>1, <1>2, AllMarksOfNone, MarksOfNone DEF KeptOf

LEMMA KeptWritten ==
  ASSUME NEW w, NEW u, NEW L, KeptOf(w, u, L), NEW c \in Plain
  PROVE  KeptOf(Cat(w, <<c>>), Cat(u, Bytes(c)), L)
<1> DEFINE x == <<c>>
<1>1. PICK h \in Seq(Plain) : w = Cat(h, u) /\ u \in Seq(Plain) /\ AllMarks(L) = Marks(h)
  BY DEF KeptOf
<1>2. x \in Seq(Plain) /\ Cat(u, x) \in Seq(Plain)
  BY <1>1, CatOfOne
<1>3. Bytes(c) = x
  BY DEF Bytes, Plain
<1> HIDE DEF x
<1>4. Cat(Cat(h, u), x) = Cat(h, Cat(u, x))
  BY <1>1, <1>2, CatAssociates
<1>5. KeptOf(Cat(w, x), Cat(u, x), L)
  BY <1>1, <1>2, <1>4 DEF KeptOf
<1>6. QED
  BY <1>3, <1>5 DEF x

LEMMA KeptSent ==
  ASSUME NEW w, NEW u, NEW L \in Rows(Clean), KeptOf(w, u, L), NEW n \in 0..Len(u)
  PROVE  KeptOf(w, SubSeq(u, n + 1, Len(u)), Cat(L, TextLines(Lossy(SubSeq(u, 1, n)))))
<1> DEFINE b == SubSeq(u, 1, n)
           v == SubSeq(u, n + 1, Len(u))
           M == TextLines(b)
<1>1. PICK h \in Seq(Plain) : w = Cat(h, u) /\ u \in Seq(Plain) /\ AllMarks(L) = Marks(h)
  BY DEF KeptOf
<1>2. b \in Seq(Plain) /\ v \in Seq(Plain) /\ u = Cat(b, v)
  BY <1>1, CutInTwo
<1> HIDE DEF b, v
<1>3. Lossy(b) = b
  BY <1>2, LossyPlain
<1>4. AllMarks(M) = Marks(b)
  BY <1>2, MarksOfLines
<1>5. M \in Rows(Clean)
  <2>1. Plain \subseteq Decoded
    BY DEF Plain, Decoded, Chars
  <2>2. b \in Seq(Decoded)
    BY <1>2, <2>1, SeqMonotonic
  <2>3. QED
    BY <2>2, LinesClean DEF Clean
<1> HIDE DEF M
<1>6. AllMarks(Cat(L, M)) = Cat(AllMarks(L), AllMarks(M))
  BY <1>5, AllMarksOfCat
<1>7. Marks(Cat(h, b)) = Cat(Marks(h), Marks(b)) /\ Cat(h, b) \in Seq(Plain)
  BY <1>2, MarksOfCat, CatType
<1>8. Cat(Cat(h, b), v) = Cat(h, Cat(b, v))
  BY <1>2, CatAssociates
<1>9. w = Cat(Cat(h, b), v) /\ AllMarks(Cat(L, M)) = Marks(Cat(h, b))
  BY <1>1, <1>2, <1>4, <1>6, <1>7, <1>8
<1>10. KeptOf(w, v, Cat(L, M))
  BY <1>2, <1>7, <1>9 DEF KeptOf
<1>11. QED
  BY <1>3, <1>10 DEF M, v, b

LEMMA KeptOver ==
  ASSUME NEW w, NEW L, KeptOf(w, <<>>, L)
  PROVE  AllMarks(L) = Marks(w)
<1>1. PICK h \in Seq(Plain) : w = Cat(h, <<>>) /\ AllMarks(L) = Marks(h)
  BY DEF KeptOf
<1>2. QED
  BY <1>1, CatOfNone

-----------------------------------------------------------------------------
LEMMA RowsCleaned == ASSUME NEW L \in Rows(Chars \ {"nl"}) PROVE L \in Rows(Clean)
<1>1. Chars \ {"nl"} \subseteq Clean
  BY DEF Clean, Decoded
<1>2. Seq(Chars \ {"nl"}) \subseteq Seq(Clean)
  BY <1>1, SeqMonotonic
<1>3. Seq(Seq(Chars \ {"nl"})) \subseteq Seq(Seq(Clean))
  BY <1>2, SeqMonotonic
<1>4. QED
  BY <1>3 DEF Rows

\* On the cloud: the lines that ended are logged, the last is in the buffer.
HeadOK(h, L, p) == Rest(h, "nl") = p /\ Trimmed(L) = Trimmed(EndedOf(h, FALSE))

LEMMA HeadSent ==
  ASSUME NEW h \in Seq(Chars), NEW L \in Rows(Clean), NEW p, HeadOK(h, L, p), NEW r \in Seq(Chars)
  PROVE  HeadOK(Cat(h, r), Cat(L, Trimmed(EndedOf(Cat(p, r), FALSE))), Rest(Cat(p, r), "nl"))
<1> DEFINE t == Cat(p, r)
           F == EndedOf(t, FALSE)
           E == EndedOf(h, FALSE)
<1>1. p = Rest(h, "nl") /\ Trimmed(L) = Trimmed(E)
  BY DEF HeadOK
<1>2. p \in Seq(Chars)
  BY <1>1, RestIn
<1>3. t \in Seq(Chars)
  BY <1>2, CatType
<1>4. LinesJoined(h, r)
  BY LinesOfCat
<1>5. EndedOf(Cat(h, r), FALSE) = Cat(E, F) /\ Rest(Cat(h, r), "nl") = Rest(t, "nl")
  BY <1>1, <1>4 DEF LinesJoined
<1> HIDE DEF t
<1>6. F \in Rows(Chars) /\ E \in Rows(Chars) /\ F \in Rows(Chars \ {"nl"})
  BY <1>3, EndedType, NoNewlines
<1>7. Trimmed(F) \in Rows(Clean)
  <2>1. Trimmed(F) \in Rows(Chars \ {"nl"})
    BY <1>6, TrimmedIs
  <2>2. QED
    BY <2>1, RowsCleaned
<1> HIDE DEF F, E
<1>8. Trimmed(Cat(L, Trimmed(F))) = Cat(Trimmed(L), Trimmed(Trimmed(F)))
  BY <1>7, TrimmedOfCat
<1>9. Trimmed(Trimmed(F)) = Trimmed(F)
  BY <1>6, TrimmedTwice
<1>10. Trimmed(Cat(E, F)) = Cat(Trimmed(E), Trimmed(F))
  BY <1>6, TrimmedOfCat
<1>11. HeadOK(Cat(h, r), Cat(L, Trimmed(F)), Rest(t, "nl"))
  BY <1>1, <1>5, <1>8, <1>9, <1>10 DEF HeadOK
<1>12. QED
  BY <1>11 DEF t, F

\* At the end the buffer is the last line, if there is something in it.
LEMMA HeadOver ==
  ASSUME NEW h \in Seq(Chars), NEW L \in Rows(Clean), NEW p, HeadOK(h, L, p)
  PROVE  /\ p = <<>> => Trimmed(L) = Trimmed(Pieces(h))
         /\ p # <<>> => Trimmed(Cat(L, <<p>>)) = Trimmed(Pieces(h))
<1> DEFINE E == EndedOf(h, FALSE)
           z == <<p>>
<1>1. p = Rest(h, "nl") /\ Trimmed(L) = Trimmed(E)
  BY DEF HeadOK
<1>2. E \in Rows(Chars)
  BY EndedType
<1>3. Pieces(h) = Cat(E, Tail1(h))
  BY LinesSplit
<1>4. Cat(E, <<>>) = E
  BY <1>2, RowsOfNone
<1>5. z \in Rows(Chars) /\ z \in Rows(Clean)
  <2>1. p \in Seq(Chars \ {"nl"})
    BY <1>1, RestType
  <2>2. z \in Rows(Chars \ {"nl"})
    BY <2>1, OneRow
  <2>3. p \in Seq(Chars)
    BY <1>1, RestIn
  <2>4. z \in Rows(Chars)
    BY <2>3, OneRow
  <2>5. QED
    BY <2>2, <2>4, RowsCleaned
<1>6. (p = <<>> => Tail1(h) = <<>>) /\ (p # <<>> => Tail1(h) = z)
  BY <1>1 DEF Tail1
<1> HIDE DEF E, z
<1>7. Trimmed(Cat(L, z)) = Cat(Trimmed(L), Trimmed(z)) /\ Trimmed(Cat(E, z)) = Cat(Trimmed(E), Trimmed(z))
  BY <1>2, <1>5, TrimmedOfCat
<1>8. p = <<>> => Trimmed(L) = Trimmed(Pieces(h))
  BY <1>1, <1>3, <1>4, <1>6
<1>9. p # <<>> => Trimmed(Cat(L, z)) = Trimmed(Pieces(h))
  BY <1>1, <1>3, <1>6, <1>7
<1>10. QED
  BY <1>8, <1>9 DEF z

\* What the buffer and a chunk have is in the lines logged, and in the buffer.
LEMMA MarksSent ==
  ASSUME NEW p \in Seq(Chars), NEW r \in Seq(Chars)
  PROVE  Len(AllMarks(Trimmed(EndedOf(Cat(p, r), FALSE)))) + Len(Marks(Rest(Cat(p, r), "nl"))) = Len(Marks(p)) + Len(Marks(r))
<1> DEFINE t == Cat(p, r)
           F == EndedOf(t, FALSE)
           m == Marks(Rest(t, "nl"))
           e == AllMarks(F)
           a == Marks(p)
           b == Marks(r)
<1>1. t \in Seq(Chars)
  BY CatType
<1>2. Marks(t) = Cat(a, b) /\ a \in Seq(Chars) /\ b \in Seq(Chars)
  BY MarksOfCat
<1> HIDE DEF t
<1>3. F \in Rows(Chars) /\ Rest(t, "nl") \in Seq(Chars)
  BY <1>1, EndedType, RestIn
<1>4. Marks(t) = Cat(e, m)
  BY <1>1, MarksOfEnded
<1>5. AllMarks(Trimmed(F)) = e
  BY <1>3, AllMarksOfTrimmed
<1>6. e \in Seq(Chars) /\ m \in Seq(Chars)
  <2>1. \A s \in Seq(Chars) : Marks(s) \in Seq(Chars)
    BY MarksOfCat
  <2>2. FlattenSeq(F) \in Seq(Chars)
    BY <1>3, FlatType
  <2>3. QED
    BY <1>3, <2>1, <2>2 DEF AllMarks
<1> HIDE DEF e, m, a, b, F
<1>7. Len(Cat(e, m)) = Len(e) + Len(m) /\ Len(Cat(a, b)) = Len(a) + Len(b)
  BY <1>2, <1>6, CatType
<1>8. Len(e) + Len(m) = Len(a) + Len(b)
  BY <1>2, <1>4, <1>7
<1>9. QED
  BY <1>5, <1>8 DEF t, e, m, a, b, F

-----------------------------------------------------------------------------
(* StepOutput: a step of one stream, locally.                               *)

LEMMA AppendIs ==
  ASSUME NEW G, NEW w \in Seq(G), NEW c \in G
  PROVE  Append(w, c) = Cat(w, <<c>>)
BY DEF Cat

LEMMA PartsIn ==
  ASSUME NEW G, NEW H, NEW w \in Seq(G), NEW x \in Seq(G), Cat(w, x) \in Seq(H)
  PROVE  w \in Seq(H) /\ x \in Seq(H)
<1> DEFINE y == Cat(w, x)
<1>1. SubSeq(y, 1, Len(w)) = w /\ SubSeq(y, Len(w) + 1, Len(y)) = x
  BY CatCut
<1>2. Len(y) = Len(w) + Len(x) /\ Len(w) \in Nat /\ Len(x) \in Nat
  BY CatType
<1>3. y \in Seq(H)
  OBVIOUS
<1> HIDE DEF y
<1>4. Len(w) \in 0..Len(y)
  BY <1>2
<1>5. SubSeq(y, 1, Len(w)) \in Seq(H) /\ SubSeq(y, Len(w) + 1, Len(y)) \in Seq(H)
  BY <1>3, <1>4, CutInTwo
<1>6. QED
  BY <1>1, <1>5

LEMMA PlainIn ==
  ASSUME NEW w \in Seq(Chars), "wide" \notin ToSet(w)
  PROVE  w \in Seq(Plain)
<1>1. \A i \in 1..Len(w) : w[i] \in Plain
  <2>1. ASSUME NEW i \in 1..Len(w) PROVE w[i] \in Plain
    <3>1. w[i] \in Chars /\ i \in DOMAIN w
      BY LenProperties, ElementOfSeq
    <3>2. w[i] \in ToSet(w)
      BY <3>1 DEF ToSet
    <3>3. QED
      BY <3>1, <3>2 DEF Chars, Plain
  <2>2. QED
    BY <2>1
<1>2. Len(w) \in Nat /\ w = [i \in 1..Len(w) |-> w[i]]
  BY LenProperties
<1>3. w \in [1..Len(w) -> Plain]
  BY <1>1, <1>2
<1>4. QED
  BY <1>2, <1>3, Tabled

\* Until a line goes on in the next frame, and for a text of plain characters.
StreamOf(w, u, L, s, op, cut) ==
  /\ s \notin cut => FramesOf(w, u, L, s \notin op)
  /\ w \in Seq(Plain) => KeptOf(w, u, L)

LEMMA StreamNone ==
  ASSUME NEW s, NEW op, NEW cut
  PROVE  StreamOf(<<>>, <<>>, <<>>, s, op, cut)
<1>1. FramesOf(<<>>, <<>>, <<>>, s \notin op)
  BY FramesNone
<1>2. QED
  BY <1>1, KeptNone DEF StreamOf

LEMMA StreamWritten ==
  ASSUME NEW w \in Seq(Chars), NEW u \in Seq(Raw), NEW L, NEW s, NEW op, NEW cut,
         StreamOf(w, u, L, s, op, cut), NEW c \in Chars
  PROVE  StreamOf(Cat(w, <<c>>), Cat(u, Bytes(c)), L, s, op, cut)
<1> DEFINE e == s \notin op
           x == <<c>>
<1>1. (s \notin cut => FramesOf(w, u, L, e)) /\ (w \in Seq(Plain) => KeptOf(w, u, L))
  BY DEF StreamOf
<1> HIDE DEF e
<1>2. s \notin cut => FramesOf(Cat(w, x), Cat(u, Bytes(c)), L, e)
  BY <1>1, FramesWritten
<1>3. Cat(w, x) \in Seq(Plain) => w \in Seq(Plain) /\ c \in Plain
  <2>1. ASSUME Cat(w, x) \in Seq(Plain) PROVE w \in Seq(Plain) /\ c \in Plain
    <3>1. x \in Seq(Chars)
      BY CatOfOne
    <3>2. Len(x) = 1 /\ x[1] = c
      OBVIOUS
    <3> HIDE DEF x
    <3>3. w \in Seq(Plain) /\ x \in Seq(Plain)
      BY <2>1, <3>1, PartsIn
    <3>4. x[1] \in Plain
      <4>1. 1 \in 1..Len(x)
        BY <3>2
      <4>2. \A i \in 1..Len(x) : x[i] \in Plain
        BY <3>3, ElementOfSeq
      <4>3. QED
        BY <4>1, <4>2
    <3>5. QED
      BY <3>2, <3>3, <3>4
  <2>2. QED
    BY <2>1
<1>4. Cat(w, x) \in Seq(Plain) => KeptOf(Cat(w, x), Cat(u, Bytes(c)), L)
  <2>1. ASSUME Cat(w, x) \in Seq(Plain) PROVE KeptOf(Cat(w, x), Cat(u, Bytes(c)), L)
    <3>1. KeptOf(w, u, L) /\ c \in Plain
      BY <1>1, <1>3, <2>1
    <3>2. QED
      BY <3>1, KeptWritten
  <2>2. QED
    BY <2>1
<1> HIDE DEF x
<1>5. StreamOf(Cat(w, x), Cat(u, Bytes(c)), L, s, op, cut)
  BY <1>2, <1>4 DEF StreamOf, e
<1>6. QED
  BY <1>5 DEF x

LEMMA StreamSent ==
  ASSUME NEW w, NEW u \in Seq(Raw), NEW L \in Rows(Clean), NEW s, NEW op, NEW cut,
         StreamOf(w, u, L, s, op, cut), NEW n \in 1..Len(u),
         NEW oq, s \in oq <=> u[n] # "nl", NEW cuq, s \in cuq <=> s \in cut \cup op
  PROVE  StreamOf(w, SubSeq(u, n + 1, Len(u)), Cat(L, TextLines(Lossy(SubSeq(u, 1, n)))), s, oq, cuq)
<1> DEFINE v == SubSeq(u, n + 1, Len(u))
           K == Cat(L, TextLines(Lossy(SubSeq(u, 1, n))))
<1>1. (s \notin cut => FramesOf(w, u, L, s \notin op)) /\ (w \in Seq(Plain) => KeptOf(w, u, L))
  BY DEF StreamOf
<1>2. s \notin cuq => FramesOf(w, v, K, s \notin oq)
  <2>1. ASSUME s \notin cuq PROVE FramesOf(w, v, K, s \notin oq)
    <3>1. FramesOf(w, u, L, s \notin op) /\ s \notin op
      BY <1>1, <2>1
    <3>2. FramesOf(w, u, L, TRUE)
      BY <3>1 DEF FramesOf
    <3>3. FramesOf(w, v, K, u[n] = "nl")
      BY <3>2, FramesSent
    <3> HIDE DEF v, K
    <3>4. u[n] = "nl" <=> s \notin oq
      OBVIOUS
    <3>5. CASE u[n] = "nl"
      BY <3>3, <3>4, <3>5 DEF FramesOf
    <3>6. CASE u[n] # "nl"
      BY <3>3, <3>4, <3>6 DEF FramesOf
    <3>7. QED
      BY <3>5, <3>6
  <2>2. QED
    BY <2>1
<1>3. w \in Seq(Plain) => KeptOf(w, v, K)
  <2>1. ASSUME KeptOf(w, u, L) PROVE KeptOf(w, v, K)
    <3>1. Len(u) \in Nat
      BY LenProperties
    <3>2. n \in 0..Len(u)
      BY <3>1
    <3>3. QED
      BY <2>1, <3>2, KeptSent
  <2>2. QED
    BY <1>1, <2>1
<1> HIDE DEF v, K
<1>4. StreamOf(w, v, K, s, oq, cuq)
  BY <1>2, <1>3 DEF StreamOf
<1>5. QED
  BY <1>4 DEF v, K

LEMMA StreamOver ==
  ASSUME NEW w, NEW L, NEW s, NEW op, NEW cut, StreamOf(w, <<>>, L, s, op, cut)
  PROVE  /\ s \notin cut => Trimmed(L) = Trimmed(Pieces(w))
         /\ w \in Seq(Plain) => AllMarks(L) = Marks(w)
<1> DEFINE e == s \notin op
<1>1. (s \notin cut => FramesOf(w, <<>>, L, e)) /\ (w \in Seq(Plain) => KeptOf(w, <<>>, L))
  BY DEF StreamOf
<1> HIDE DEF e
<1>2. FramesOf(w, <<>>, L, e) => Trimmed(L) = Trimmed(Pieces(w))
  BY FramesOver
<1>3. KeptOf(w, <<>>, L) => AllMarks(L) = Marks(w)
  BY KeptOver
<1>4. QED
  BY <1>1, <1>2, <1>3

\* Lines that trim alike are the same but for carriage returns.
LEMMA SameOf ==
  ASSUME NEW L \in Rows(Clean), NEW w \in Seq(Chars), Trimmed(L) = Trimmed(Pieces(w))
  PROVE  Same(L, w)
<1> DEFINE P == Pieces(w)
<1>1. P \in Rows(Chars)
  BY LinesSplit
<1> HIDE DEF P
<1>2. Trimmed(L) = Trimmed(P)
  BY DEF P
<1>3. Len(Trimmed(L)) = Len(L) /\ DOMAIN L = 1..Len(L) /\ \A k \in 1..Len(L) : Trimmed(L)[k] = TrimCr(L[k])
  BY TrimmedIs, RowsAre
<1>4. Len(Trimmed(P)) = Len(P) /\ \A k \in 1..Len(P) : Trimmed(P)[k] = TrimCr(P[k])
  BY <1>1, TrimmedIs
<1>5. Len(L) = Len(P)
  BY <1>2, <1>3, <1>4
<1>6. \A k \in DOMAIN L : TrimCr(L[k]) = TrimCr(P[k])
  BY <1>2, <1>3, <1>4, <1>5
<1>7. QED
  BY <1>5, <1>6 DEF Same, P

-----------------------------------------------------------------------------
(* StepOutput: the invariant.                                               *)

OutputSpec == OutputInit /\ [][OutputNext]_output

OutputShape ==
  /\ place \in {"local", "cloud"} /\ last \in Streams
  /\ mixed \in BOOLEAN /\ closed \in BOOLEAN
  /\ written \in [Streams -> Seq(Chars)] /\ unsent \in [Streams -> Seq(Raw)]
  /\ partial \in Seq(Chars \ {"nl"}) /\ logged \in Seq(Event)
  /\ place = "local" => partial = <<>> /\ ~mixed
  /\ place = "cloud" => cutLine = {} /\ open = {}

\* Locally each stream by itself.
Framed == \A s \in Streams : StreamOf(written[s], unsent[s], LinesIn(logged, s), s, open, cutLine)

\* On the cloud: heads of what was written to the streams were sent.
PartOf(s) == IF s = last THEN partial ELSE <<>>
Heads(front, rest) ==
  \A s \in Streams : written[s] = Cat(front[s], rest[s]) /\ unsent[s] = Encoded(rest[s])
HeadLines(front) == ~mixed => \A s \in Streams : HeadOK(front[s], LinesIn(logged, s), PartOf(s))
HeadMarks(front) ==
  Len(Marks(TextIn(logged))) + Len(Marks(partial)) = Len(Marks(front["out"])) + Len(Marks(front["err"]))
ChunksOf(front, rest) == Heads(front, rest) /\ HeadLines(front) /\ HeadMarks(front)
Chunked == \E front, rest \in [Streams -> Seq(Chars)] : ChunksOf(front, rest)

Ended == (\A s \in Streams : unsent[s] = <<>>) /\ partial = <<>> /\ LinesAsWritten /\ NothingLost

OutputInv ==
  /\ OutputShape
  /\ ~closed /\ place = "local" => Framed
  /\ ~closed /\ place = "cloud" => Chunked
  /\ closed => Ended

-----------------------------------------------------------------------------
(* StepOutput: the beginning.                                               *)

LEMMA NothingIn == ASSUME NEW s PROVE LinesIn(<<>>, s) = <<>> /\ TextIn(<<>>) = <<>>
BY FlatOfNone DEF LinesIn, TextIn

LEMMA OutputStarts == OutputInit => OutputInv
<1> SUFFICES ASSUME OutputInit PROVE OutputInv
  OBVIOUS
<1> DEFINE o == <<>>
           none == [s \in Streams |-> o]
<1>1. o \in Seq(Chars) /\ o \in Seq(Raw) /\ o \in Seq(Chars \ {"nl"}) /\ o \in Seq(Event)
  BY EmptySeq
<1>2. /\ place \in {"local", "cloud"} /\ written = none /\ unsent = none /\ partial = o /\ logged = o
      /\ open = {} /\ cutLine = {} /\ mixed = FALSE /\ last = "out" /\ closed = FALSE
  BY DEF OutputInit
<1>3. none \in [Streams -> Seq(Chars)] /\ none \in [Streams -> Seq(Raw)] /\ \A s \in Streams : none[s] = o
  BY <1>1
<1>4. o = <<>> /\ "out" \in Streams /\ "err" \in Streams
  BY DEF Streams
<1>5. \A s : LinesIn(o, s) = o /\ TextIn(o) = o
  BY NothingIn
<1>6. Cat(o, o) = o /\ Encoded(o) = o /\ Marks(o) = o
  BY <1>1, CatOfNone, EncodedOfNone, MarksOfNone
<1>7. HeadOK(o, o, o)
  <2>1. Rest(o, "nl") = o /\ EndedOf(o, FALSE) = o
    BY RestOfNone, LinesOfNone
  <2>2. QED
    BY <2>1 DEF HeadOK
<1>8. \A s : StreamOf(o, o, o, s, {}, {})
  BY StreamNone
<1> HIDE DEF o
<1>9. OutputShape
  <2> HIDE DEF none
  <2>1. QED
    BY <1>1, <1>2, <1>3, <1>4 DEF OutputShape
<1>10. Framed
  <2> HIDE DEF none
  <2>1. QED
    BY <1>2, <1>3, <1>5, <1>8 DEF Framed
<1>11. ChunksOf(none, none)
  <2> HIDE DEF none
  <2>1. Heads(none, none)
    BY <1>2, <1>3, <1>6 DEF Heads
  <2>2. \A s : PartOf(s) = o
    BY <1>2, <1>4 DEF PartOf
  <2>3. HeadLines(none)
    BY <1>2, <1>3, <1>5, <1>7, <2>2 DEF HeadLines
  <2>4. Len(o) + Len(o) = Len(o) + Len(o)
    OBVIOUS
  <2>5. HeadMarks(none)
    BY <1>2, <1>3, <1>4, <1>5, <1>6, <2>4 DEF HeadMarks
  <2>6. QED
    BY <2>1, <2>3, <2>5 DEF ChunksOf
<1>12. Chunked
  <2> HIDE DEF none
  <2>1. QED
    BY <1>3, <1>11 DEF Chunked
<1>13. QED
  BY <1>2, <1>9, <1>10, <1>12 DEF OutputInv

-----------------------------------------------------------------------------
(* StepOutput: what the actions do.                                         *)

WrittenBy(s, c) ==
  /\ c \in Chars /\ ~closed
  /\ \A t \in Streams : written'[t] = IF t = s THEN Cat(written[s], <<c>>) ELSE written[t]
  /\ \A t \in Streams : unsent'[t] = IF t = s THEN Cat(unsent[s], Bytes(c)) ELSE unsent[t]
  /\ written' \in [Streams -> Seq(Chars)] /\ unsent' \in [Streams -> Seq(Raw)]

LEMMA WritesMeans ==
  ASSUME OutputShape, NEW s \in Streams, NEW c \in Alphabet, Writes(s, c)
  PROVE  WrittenBy(s, c)
<1> DEFINE w == Cat(written[s], <<c>>)
           u == Cat(unsent[s], Bytes(c))
<1>1. c \in Chars
  BY AlphabetAssumption DEF Chars
<1>2. written \in [Streams -> Seq(Chars)] /\ unsent \in [Streams -> Seq(Raw)]
  BY DEF OutputShape
<1>3. written[s] \in Seq(Chars) /\ unsent[s] \in Seq(Raw) /\ Bytes(c) \in Seq(Raw)
  BY <1>1, <1>2, CodedType
<1>4. w \in Seq(Chars) /\ u \in Seq(Raw)
  BY <1>1, <1>3, CatOfOne, CatType
<1>5. Append(written[s], c) = w
  BY <1>1, <1>3, AppendIs
<1>6. unsent[s] \o Bytes(c) = u
  BY DEF Cat
<1>7. written' = [written EXCEPT ![s] = w] /\ unsent' = [unsent EXCEPT ![s] = u] /\ ~closed
  BY <1>5, <1>6 DEF Writes
<1> HIDE DEF w, u
<1>8. /\ \A t \in Streams : written'[t] = IF t = s THEN w ELSE written[t]
      /\ \A t \in Streams : unsent'[t] = IF t = s THEN u ELSE unsent[t]
      /\ written' \in [Streams -> Seq(Chars)] /\ unsent' \in [Streams -> Seq(Raw)]
  BY <1>2, <1>4, <1>7
<1>9. QED
  BY <1>1, <1>7, <1>8 DEF WrittenBy, w, u

SentOf(s, n) ==
  /\ n \in 1..Len(unsent[s]) /\ unsent[s] \in Seq(Raw)
  /\ \A t \in Streams : unsent'[t] = IF t = s THEN SubSeq(unsent[s], n + 1, Len(unsent[s])) ELSE unsent[t]
  /\ unsent' \in [Streams -> Seq(Raw)]
  /\ SubSeq(unsent[s], 1, n) \in Seq(Raw)

LEMMA Sends ==
  ASSUME OutputShape, NEW s \in Streams, NEW n, Frame(s, n) \/ Chunk(s, n)
  PROVE  SentOf(s, n)
<1> DEFINE v == SubSeq(unsent[s], n + 1, Len(unsent[s]))
           b == SubSeq(unsent[s], 1, n)
<1>1. n \in 1..Len(unsent[s]) /\ unsent' = [unsent EXCEPT ![s] = v]
  BY DEF Frame, Chunk
<1>2. unsent \in [Streams -> Seq(Raw)] /\ unsent[s] \in Seq(Raw)
  BY DEF OutputShape
<1>3. Len(unsent[s]) \in Nat
  BY <1>2, LenProperties
<1>4. n \in 0..Len(unsent[s])
  BY <1>1, <1>3
<1>5. v \in Seq(Raw) /\ b \in Seq(Raw)
  BY <1>2, <1>4, CutInTwo
<1> HIDE DEF v, b
<1>6. (\A t \in Streams : unsent'[t] = IF t = s THEN v ELSE unsent[t]) /\ unsent' \in [Streams -> Seq(Raw)]
  BY <1>1, <1>2, <1>5
<1>7. QED
  BY <1>1, <1>2, <1>5, <1>6 DEF SentOf, v, b

LoggedTo(s, L) ==
  /\ L \in Rows(Clean) /\ logged' \in Seq(Event)
  /\ \A t \in Streams : LinesIn(logged', t) = IF t = s THEN Cat(LinesIn(logged, s), L) ELSE LinesIn(logged, t)
  /\ TextIn(logged') = Cat(TextIn(logged), FlattenSeq(L))

LEMMA Logs ==
  ASSUME logged \in Seq(Event), NEW s \in Streams, NEW L \in Rows(Clean), logged' = logged \o Events(s, L)
  PROVE  LoggedTo(s, L)
<1> DEFINE w == Cat(logged, Events(s, L))
<1>1. logged' = w
  BY DEF Cat
<1>2. \A t : /\ w \in Seq(Event)
             /\ LinesIn(w, t) = IF t = s THEN Cat(LinesIn(logged, t), L) ELSE LinesIn(logged, t)
             /\ TextIn(w) = Cat(TextIn(logged), FlattenSeq(L))
  BY InOfMore
<1> HIDE DEF w
<1>3. \A t : /\ logged' \in Seq(Event)
             /\ LinesIn(logged', t) = IF t = s THEN Cat(LinesIn(logged, t), L) ELSE LinesIn(logged, t)
             /\ TextIn(logged') = Cat(TextIn(logged), FlattenSeq(L))
  BY <1>1, <1>2
<1>4. QED
  BY <1>3 DEF LoggedTo

LEMMA FrameMeans ==
  ASSUME OutputShape, NEW s \in Streams, NEW n, Frame(s, n)
  PROVE  LoggedTo(s, TextLines(Lossy(SubSeq(unsent[s], 1, n))))
<1> DEFINE b == SubSeq(unsent[s], 1, n)
           L == TextLines(Lossy(b))
<1>1. b \in Seq(Raw)
  BY Sends DEF SentOf
<1>2. logged' = logged \o Events(s, L)
  BY DEF Frame, FrameLines
<1> HIDE DEF b
<1>3. Lossy(b) \in Seq(Decoded)
  BY <1>1, LossyType
<1>4. L \in Rows(Clean)
  BY <1>3, LinesClean DEF Clean
<1> HIDE DEF L
<1>5. logged \in Seq(Event)
  BY DEF OutputShape
<1>6. LoggedTo(s, L)
  BY <1>2, <1>4, <1>5, Logs
<1>7. QED
  BY <1>6 DEF L, b

LEMMA ChunkMeans ==
  ASSUME OutputShape, NEW s \in Streams, NEW n, Chunk(s, n),
         NEW r \in Seq(Chars), Lossy(SubSeq(unsent[s], 1, n)) = r
  PROVE  /\ LoggedTo(s, Trimmed(EndedOf(Cat(partial, r), FALSE)))
         /\ partial' = Rest(Cat(partial, r), "nl") /\ partial' \in Seq(Chars \ {"nl"})
<1> DEFINE x == Cat(partial, r)
           f == Pieces(SubSeq(x, 1, Complete(x)))
           F == EndedOf(x, FALSE)
<1>1. partial \in Seq(Chars) /\ logged \in Seq(Event)
  <2>1. Seq(Chars \ {"nl"}) \subseteq Seq(Chars)
    BY SeqMonotonic
  <2>2. QED
    BY <2>1 DEF OutputShape
<1>2. partial \o Lossy(SubSeq(unsent[s], 1, n)) = x
  BY DEF Cat
<1>3. logged' = logged \o Events(s, [k \in DOMAIN f |-> TrimCr(f[k])]) /\ partial' = Behind(x)
  BY <1>2, Zenon DEF Chunk
<1>4. x \in Seq(Chars)
  BY <1>1, CatType
<1> HIDE DEF x
<1>5. f = F /\ Behind(x) = Rest(x, "nl")
  BY <1>4, UpToLast
<1> HIDE DEF f
<1>6. [k \in DOMAIN f |-> TrimCr(f[k])] = Trimmed(F)
  BY <1>5, Zenon DEF Trimmed
<1>7. Trimmed(F) \in Rows(Clean)
  <2>1. F \in Rows(Chars \ {"nl"})
    BY <1>4, NoNewlines
  <2>2. Trimmed(F) \in Rows(Chars \ {"nl"})
    BY <2>1, TrimmedIs
  <2>3. QED
    BY <2>2, RowsCleaned
<1>8. Rest(x, "nl") \in Seq(Chars \ {"nl"})
  BY <1>4, RestType
<1> HIDE DEF F
<1> DEFINE L == Trimmed(F)
<1>9. logged' = logged \o Events(s, L) /\ L \in Rows(Clean)
  BY <1>3, <1>6, <1>7
<1> HIDE DEF L
<1>10. LoggedTo(s, L)
  BY <1>1, <1>9, Logs
<1>11. QED
  BY <1>3, <1>5, <1>8, <1>10 DEF L, F, x

-----------------------------------------------------------------------------
(* StepOutput: each action keeps the invariant.                             *)

LEMMA WritesKeeps ==
  ASSUME OutputInv, NEW s \in Streams, NEW c \in Alphabet, Writes(s, c)
  PROVE  OutputInv'
<1>1. OutputShape /\ (~closed /\ place = "local" => Framed) /\ (~closed /\ place = "cloud" => Chunked)
  BY DEF OutputInv
<1>2. WrittenBy(s, c)
  BY <1>1, WritesMeans
<1>3. UNCHANGED <<place, partial, logged, open, cutLine, mixed, last, closed>>
  BY DEF Writes
<1>4. ~closed /\ ~closed'
  BY <1>2, <1>3 DEF WrittenBy
<1>5. OutputShape'
  BY <1>1, <1>2, <1>3 DEF OutputShape, WrittenBy
<1>6. Framed => Framed'
  <2>1. ASSUME Framed, NEW t \in Streams
        PROVE  StreamOf(written'[t], unsent'[t], LinesIn(logged, t), t, open, cutLine)
    <3>1. StreamOf(written[t], unsent[t], LinesIn(logged, t), t, open, cutLine)
      BY <2>1 DEF Framed
    <3>2. CASE t # s
      <4>1. written'[t] = written[t] /\ unsent'[t] = unsent[t]
        BY <1>2, <3>2 DEF WrittenBy
      <4>2. QED
        BY <3>1, <4>1
    <3>3. CASE t = s
      <4>1. written'[t] = Cat(written[t], <<c>>) /\ unsent'[t] = Cat(unsent[t], Bytes(c)) /\ c \in Chars
        BY <1>2, <3>3 DEF WrittenBy
      <4>2. written[t] \in Seq(Chars) /\ unsent[t] \in Seq(Raw)
        BY <1>1 DEF OutputShape
      <4>3. StreamOf(Cat(written[t], <<c>>), Cat(unsent[t], Bytes(c)), LinesIn(logged, t), t, open, cutLine)
        BY <3>1, <4>1, <4>2, StreamWritten
      <4>4. QED
        BY <4>1, <4>3
    <3>4. QED
      BY <3>2, <3>3
  <2>2. ASSUME Framed PROVE \A t \in Streams : StreamOf(written'[t], unsent'[t], LinesIn(logged', t), t, open', cutLine')
    BY <1>3, <2>1, <2>2
  <2>3. QED
    BY <2>2 DEF Framed
<1>7. Chunked => Chunked'
  <2>1. ASSUME NEW front \in [Streams -> Seq(Chars)], NEW rest \in [Streams -> Seq(Chars)], ChunksOf(front, rest)
        PROVE  Chunked'
    <3> DEFINE q == Cat(rest[s], <<c>>)
               new == [rest EXCEPT ![s] = q]
    <3>1. c \in Chars /\ rest[s] \in Seq(Chars) /\ q \in Seq(Chars)
      BY <1>2, CatOfOne DEF WrittenBy
    <3>2. Heads(front, rest) /\ HeadLines(front) /\ HeadMarks(front)
      BY <2>1 DEF ChunksOf
    <3>3. HeadLines(front)' /\ HeadMarks(front)'
      BY <1>3, <3>2 DEF HeadLines, HeadMarks, PartOf
    <3>4. Cat(written[s], <<c>>) = Cat(front[s], q)
      <4>1. written[s] = Cat(front[s], rest[s]) /\ front[s] \in Seq(Chars)
        BY <3>2 DEF Heads
      <4> DEFINE z == <<c>>
      <4>2. z \in Seq(Chars)
        BY <3>1, CatOfOne
      <4> HIDE DEF z
      <4>3. Cat(Cat(front[s], rest[s]), z) = Cat(front[s], Cat(rest[s], z))
        BY <3>1, <4>1, <4>2, CatAssociates
      <4>4. QED
        BY <4>1, <4>3 DEF z
    <3>5. Cat(unsent[s], Bytes(c)) = Encoded(q)
      <4>1. unsent[s] = Encoded(rest[s])
        BY <3>2 DEF Heads
      <4>2. Encoded(q) = Cat(Encoded(rest[s]), Bytes(c))
        BY <3>1, EncodedOfMore
      <4>3. QED
        BY <4>1, <4>2
    <3> HIDE DEF q
    <3>6. new \in [Streams -> Seq(Chars)] /\ \A t \in Streams : new[t] = IF t = s THEN q ELSE rest[t]
      BY <3>1
    <3> HIDE DEF new
    <3>7. \A t \in Streams : written'[t] = Cat(front[t], new[t]) /\ unsent'[t] = Encoded(new[t])
      <4>1. ASSUME NEW t \in Streams PROVE written'[t] = Cat(front[t], new[t]) /\ unsent'[t] = Encoded(new[t])
        <5>1. CASE t = s
          <6>1. written'[t] = Cat(written[s], <<c>>) /\ unsent'[t] = Cat(unsent[s], Bytes(c)) /\ new[t] = q
            BY <1>2, <3>6, <5>1 DEF WrittenBy
          <6>2. QED
            BY <3>4, <3>5, <5>1, <6>1
        <5>2. CASE t # s
          <6>1. written'[t] = written[t] /\ unsent'[t] = unsent[t] /\ new[t] = rest[t]
            BY <1>2, <3>6, <5>2 DEF WrittenBy
          <6>2. written[t] = Cat(front[t], rest[t]) /\ unsent[t] = Encoded(rest[t])
            BY <3>2 DEF Heads
          <6>3. QED
            BY <6>1, <6>2
        <5>3. QED
          BY <5>1, <5>2
      <4>2. QED
        BY <4>1
    <3>8. Heads(front, new)'
      BY <3>7 DEF Heads
    <3>9. ChunksOf(front, new)'
      BY <3>3, <3>8 DEF ChunksOf
    <3>10. QED
      BY <3>6, <3>9 DEF Chunked
  <2>2. QED
    BY <2>1 DEF Chunked
<1>8. QED
  BY <1>1, <1>3, <1>4, <1>5, <1>6, <1>7 DEF OutputInv

LEMMA FrameKeeps ==
  ASSUME OutputInv, NEW s \in Streams, NEW n, Frame(s, n)
  PROVE  OutputInv'
<1> DEFINE L == TextLines(Lossy(SubSeq(unsent[s], 1, n)))
<1>1. OutputShape /\ (~closed /\ place = "local" => Framed) /\ (closed => Ended)
  BY DEF OutputInv
<1>2. SentOf(s, n)
  BY <1>1, Sends
<1>3. LoggedTo(s, L)
  BY <1>1, FrameMeans
<1> HIDE DEF L
<1>4. UNCHANGED <<place, written, partial, mixed, last, closed>> /\ place = "local"
  BY DEF Frame
<1>5. ~closed
  <2>1. ASSUME closed PROVE FALSE
    <3>1. unsent[s] = <<>>
      BY <1>1, <2>1 DEF Ended
    <3>2. n \in 1..Len(unsent[s])
      BY <1>2 DEF SentOf
    <3>3. QED
      BY <3>1, <3>2
  <2>2. QED
    BY <2>1
<1>6. OutputShape'
  BY <1>1, <1>2, <1>3, <1>4 DEF OutputShape, SentOf, LoggedTo
<1>7. /\ \A t \in Streams : t \in open' <=> IF t = s THEN unsent[s][n] # "nl" ELSE t \in open
      /\ \A t \in Streams : t \in cutLine' <=> IF t = s THEN t \in cutLine \cup open ELSE t \in cutLine
  <2>1. /\ open' = IF unsent[s][n] # "nl" THEN open \cup {s} ELSE open \ {s}
        /\ cutLine' = IF s \in open THEN cutLine \cup {s} ELSE cutLine
    <3>1. n \in 1..Len(unsent[s]) /\ unsent[s] \in Seq(Raw)
      BY <1>2 DEF SentOf
    <3>2. SubSeq(unsent[s], 1, n)[n] = unsent[s][n]
      <4>1. n \in 0..Len(unsent[s]) /\ n \in 1..n
        BY <3>1, LenProperties
      <4>2. QED
        BY <3>1, <4>1, CutInTwo
    <3>3. QED
      BY <3>2 DEF Frame
  <2>2. QED
    BY <2>1
<1>8. Framed'
  <2>1. ASSUME NEW t \in Streams
        PROVE  StreamOf(written'[t], unsent'[t], LinesIn(logged', t), t, open', cutLine')
    <3>1. StreamOf(written[t], unsent[t], LinesIn(logged, t), t, open, cutLine)
      BY <1>1, <1>4, <1>5 DEF Framed
    <3>2. CASE t # s
      <4>1. /\ written'[t] = written[t] /\ unsent'[t] = unsent[t] /\ LinesIn(logged', t) = LinesIn(logged, t)
            /\ (t \in open' <=> t \in open) /\ (t \in cutLine' <=> t \in cutLine)
        BY <1>2, <1>3, <1>4, <1>7, <3>2 DEF SentOf, LoggedTo
      <4>2. StreamOf(written[t], unsent[t], LinesIn(logged, t), t, open', cutLine')
        BY <3>1, <4>1 DEF StreamOf, FramesOf
      <4>3. QED
        BY <4>1, <4>2
    <3>3. CASE t = s
      <4> DEFINE v == SubSeq(unsent[s], n + 1, Len(unsent[s]))
      <4>1. /\ written'[t] = written[s] /\ unsent'[t] = v
            /\ LinesIn(logged', t) = Cat(LinesIn(logged, s), L)
        BY <1>2, <1>3, <1>4, <3>3 DEF SentOf, LoggedTo
      <4>2. /\ StreamOf(written[s], unsent[s], LinesIn(logged, s), s, open, cutLine)
            /\ (s \in open' <=> unsent[s][n] # "nl") /\ (s \in cutLine' <=> s \in cutLine \cup open)
        BY <1>7, <3>1, <3>3
      <4>3. unsent[s] \in Seq(Raw) /\ n \in 1..Len(unsent[s]) /\ LinesIn(logged, s) \in Rows(Clean)
        <5>1. logged \in Seq(Event)
          BY <1>1 DEF OutputShape
        <5>2. QED
          BY <1>2, <5>1, InType DEF SentOf
      <4>4. StreamOf(written[s], v, Cat(LinesIn(logged, s), L), s, open', cutLine')
        BY <4>2, <4>3, StreamSent DEF L
      <4> HIDE DEF v
      <4>5. QED
        BY <3>3, <4>1, <4>4
    <3>4. QED
      BY <3>2, <3>3
  <2>2. QED
    BY <2>1 DEF Framed
<1>9. QED
  BY <1>4, <1>5, <1>6, <1>8 DEF OutputInv

LEMMA ChunkKeeps ==
  ASSUME OutputInv, NEW s \in Streams, NEW n, Chunk(s, n)
  PROVE  OutputInv'
<1> DEFINE b == SubSeq(unsent[s], 1, n)
           v == SubSeq(unsent[s], n + 1, Len(unsent[s]))
<1>1. OutputShape /\ (~closed /\ place = "cloud" => Chunked) /\ (closed => Ended)
  BY DEF OutputInv
<1>2. SentOf(s, n)
  BY <1>1, Sends
<1>3. UNCHANGED <<place, written, open, cutLine, closed>> /\ place = "cloud" /\ unsent[s][n] # "wide1"
      /\ last' = s /\ mixed' = (mixed \/ (partial # <<>> /\ last # s))
  BY DEF Chunk
<1>4. ~closed
  <2>1. ASSUME closed PROVE FALSE
    <3>1. unsent[s] = <<>>
      BY <1>1, <2>1 DEF Ended
    <3>2. n \in 1..Len(unsent[s])
      BY <1>2 DEF SentOf
    <3>3. QED
      BY <3>1, <3>2
  <2>2. QED
    BY <2>1
<1>5. PICK front, rest \in [Streams -> Seq(Chars)] : ChunksOf(front, rest)
  BY <1>1, <1>3, <1>4 DEF Chunked
<1>6. Heads(front, rest) /\ HeadLines(front) /\ HeadMarks(front)
  BY <1>5 DEF ChunksOf
<1>7. written[s] = Cat(front[s], rest[s]) /\ unsent[s] = Encoded(rest[s]) /\ front[s] \in Seq(Chars) /\ rest[s] \in Seq(Chars)
  BY <1>6 DEF Heads
<1>8. PICK r, q \in Seq(Chars) : rest[s] = Cat(r, q) /\ b = Encoded(r) /\ v = Encoded(q)
  <2>1. n \in 1..Len(unsent[s]) /\ unsent[s] \in Seq(Raw)
    BY <1>2 DEF SentOf
  <2>2. n \in 0..Len(unsent[s])
    BY <2>1, LenProperties
  <2>3. Whole(unsent[s], n)
    BY <1>3 DEF Whole
  <2>4. CutAt(rest[s], n)
    BY <1>7, <2>2, <2>3, EncodedCut
  <2>5. QED
    BY <1>7, <2>4 DEF CutAt
<1>9. Lossy(b) = r
  BY <1>8, LossyEncoded
<1> DEFINE L == Trimmed(EndedOf(Cat(partial, r), FALSE))
           p == Rest(Cat(partial, r), "nl")
<1>10. LoggedTo(s, L) /\ partial' = p /\ p \in Seq(Chars \ {"nl"})
  BY <1>1, <1>9, ChunkMeans
<1>11. partial \in Seq(Chars) /\ logged \in Seq(Event) /\ p \in Seq(Chars)
  <2>1. Seq(Chars \ {"nl"}) \subseteq Seq(Chars)
    BY SeqMonotonic
  <2>2. QED
    BY <1>1, <1>10, <2>1 DEF OutputShape
<1>12. HeadOK(front[s], LinesIn(logged, s), partial) => HeadOK(Cat(front[s], r), Cat(LinesIn(logged, s), L), p)
  <2> DEFINE K == LinesIn(logged, s)
  <2>1. K \in Rows(Clean)
    BY <1>11, InType
  <2> HIDE DEF K
  <2>2. HeadOK(front[s], K, partial) => HeadOK(Cat(front[s], r), Cat(K, L), p)
    BY <1>7, <2>1, HeadSent
  <2>3. QED
    BY <2>2 DEF K
<1>13. Len(AllMarks(L)) + Len(Marks(p)) = Len(Marks(partial)) + Len(Marks(r))
  BY <1>11, MarksSent
<1> DEFINE h == Cat(front[s], r)
           new == [front EXCEPT ![s] = h]
           left == [rest EXCEPT ![s] = q]
<1>14. h \in Seq(Chars)
  BY <1>7, CatType
<1>15. written[s] = Cat(h, q)
  <2>1. Cat(Cat(front[s], r), q) = Cat(front[s], Cat(r, q))
    BY <1>7, CatAssociates
  <2>2. QED
    BY <1>7, <1>8, <2>1
<1>16. Len(Marks(h)) = Len(Marks(front[s])) + Len(Marks(r))
  <2>1. Marks(h) = Cat(Marks(front[s]), Marks(r)) /\ Marks(front[s]) \in Seq(Chars) /\ Marks(r) \in Seq(Chars)
    BY <1>7, MarksOfCat
  <2> DEFINE x == Marks(front[s])
             y == Marks(r)
  <2>2. x \in Seq(Chars) /\ y \in Seq(Chars) /\ Marks(h) = Cat(x, y)
    BY <2>1
  <2> HIDE DEF x, y, h
  <2>3. Len(Cat(x, y)) = Len(x) + Len(y)
    BY <2>2, CatType
  <2>4. QED
    BY <2>2, <2>3 DEF x, y
<1> HIDE DEF h, L, p, b, v
<1>17. /\ new \in [Streams -> Seq(Chars)] /\ left \in [Streams -> Seq(Chars)]
       /\ \A t \in Streams : new[t] = IF t = s THEN h ELSE front[t]
       /\ \A t \in Streams : left[t] = IF t = s THEN q ELSE rest[t]
  BY <1>7, <1>14
<1> HIDE DEF new, left
<1>18. OutputShape'
  <2>1. mixed' \in BOOLEAN
    BY <1>1, <1>3 DEF OutputShape
  <2>2. QED
    BY <1>1, <1>2, <1>3, <1>10, <2>1 DEF OutputShape, SentOf, LoggedTo
<1>19. Heads(new, left)'
  <2>1. ASSUME NEW t \in Streams PROVE written[t] = Cat(new[t], left[t]) /\ unsent'[t] = Encoded(left[t])
    <3>1. CASE t = s
      <4>1. unsent'[t] = v /\ new[t] = h /\ left[t] = q
        BY <1>2, <1>17, <3>1 DEF SentOf, v
      <4>2. QED
        BY <1>8, <1>15, <3>1, <4>1
    <3>2. CASE t # s
      <4>1. unsent'[t] = unsent[t] /\ new[t] = front[t] /\ left[t] = rest[t]
        BY <1>2, <1>17, <3>2 DEF SentOf
      <4>2. written[t] = Cat(front[t], rest[t]) /\ unsent[t] = Encoded(rest[t])
        BY <1>6 DEF Heads
      <4>3. QED
        BY <4>1, <4>2
    <3>3. QED
      BY <3>1, <3>2
  <2>2. QED
    BY <1>3, <2>1 DEF Heads
<1>20. HeadLines(new)'
  <2>1. ASSUME ~mixed', NEW t \in Streams
        PROVE  HeadOK(new[t], LinesIn(logged', t), IF t = s THEN p ELSE <<>>)
    <3>1. ~mixed /\ (partial = <<>> \/ last = s)
      BY <1>3, <2>1
    <3>2. HeadOK(front[t], LinesIn(logged, t), PartOf(t))
      BY <1>6, <3>1 DEF HeadLines
    <3>3. CASE t = s
      <4>1. PartOf(t) = partial
        BY <3>1, <3>3 DEF PartOf
      <4>2. HeadOK(h, Cat(LinesIn(logged, s), L), p)
        BY <1>12, <3>2, <3>3, <4>1 DEF h
      <4>3. new[t] = h /\ LinesIn(logged', t) = Cat(LinesIn(logged, s), L)
        BY <1>10, <1>17, <3>3 DEF LoggedTo
      <4>4. QED
        BY <3>3, <4>2, <4>3
    <3>4. CASE t # s
      <4>1. PartOf(t) = <<>>
        BY <3>1, <3>4 DEF PartOf
      <4>2. new[t] = front[t] /\ LinesIn(logged', t) = LinesIn(logged, t)
        BY <1>10, <1>17, <3>4 DEF LoggedTo
      <4>3. QED
        BY <3>2, <3>4, <4>1, <4>2
    <3>5. QED
      BY <3>3, <3>4
  <2>2. QED
    BY <1>3, <1>10, <2>1 DEF HeadLines, PartOf
<1>21. HeadMarks(new)'
  <2> DEFINE x == Marks(TextIn(logged))
             y == AllMarks(L)
  <2>1. Marks(TextIn(logged')) = Cat(x, y) /\ x \in Seq(Clean) /\ y \in Seq(Clean)
    <3>1. TextIn(logged') = Cat(TextIn(logged), FlattenSeq(L)) /\ L \in Rows(Clean)
      BY <1>10 DEF LoggedTo
    <3>2. TextIn(logged) \in Seq(Clean) /\ FlattenSeq(L) \in Seq(Clean)
      BY <1>11, <3>1, InType, FlatType
    <3>3. QED
      BY <3>1, <3>2, MarksOfCat DEF AllMarks
  <2> HIDE DEF x, y
  <2>2. Len(Cat(x, y)) = Len(x) + Len(y) /\ Len(x) \in Nat /\ Len(y) \in Nat
    BY <2>1, CatType
  <2>3. Len(x) + Len(Marks(partial)) = Len(Marks(front["out"])) + Len(Marks(front["err"]))
    BY <1>6 DEF HeadMarks, x
  <2>4. Len(y) + Len(Marks(p)) = Len(Marks(partial)) + Len(Marks(r))
    BY <1>13 DEF y
  <2>5. /\ Len(Marks(p)) \in Nat /\ Len(Marks(partial)) \in Nat /\ Len(Marks(r)) \in Nat
        /\ Len(Marks(front["out"])) \in Nat /\ Len(Marks(front["err"])) \in Nat
    <3>1. \A z \in Seq(Chars) : Len(Marks(z)) \in Nat
      <4>1. \A z \in Seq(Chars) : Marks(z) \in Seq(Chars)
        BY MarksOfCat
      <4>2. QED
        BY <4>1, LenProperties
    <3>2. front["out"] \in Seq(Chars) /\ front["err"] \in Seq(Chars)
      BY DEF Streams
    <3>3. QED
      BY <1>11, <3>1, <3>2
  <2> DEFINE lx == Len(x)
             ly == Len(y)
             lp == Len(Marks(p))
             before == Len(Marks(partial))
             more == Len(Marks(r))
             ho == Len(Marks(front["out"]))
             he == Len(Marks(front["err"]))
             no == Len(Marks(new["out"]))
             ne == Len(Marks(new["err"]))
  <2>6. (no = ho + more /\ ne = he) \/ (no = ho /\ ne = he + more)
    <3>1. CASE s = "out"
      <4>1. new["out"] = h /\ new["err"] = front["err"]
        BY <1>17, <3>1 DEF Streams
      <4>2. QED
        BY <1>16, <3>1, <4>1
    <3>2. CASE s = "err"
      <4>1. new["err"] = h /\ new["out"] = front["out"]
        BY <1>17, <3>2 DEF Streams
      <4>2. QED
        BY <1>16, <3>2, <4>1
    <3>3. QED
      BY <3>1, <3>2 DEF Streams
  <2>7. lx \in Nat /\ ly \in Nat /\ lp \in Nat /\ before \in Nat /\ more \in Nat /\ ho \in Nat /\ he \in Nat
    BY <2>2, <2>5
  <2>8. lx + before = ho + he /\ ly + lp = before + more
    BY <2>3, <2>4
  <2>9. Len(Marks(TextIn(logged'))) = lx + ly /\ Len(Marks(partial')) = lp
    BY <1>10, <2>1, <2>2
  <2> HIDE DEF lx, ly, lp, before, more, ho, he, no, ne
  <2>10. lx + ly + lp = no + ne
    <3>1. lx + ly + lp = ho + he + more
      BY <2>7, <2>8
    <3>2. CASE no = ho + more /\ ne = he
      BY <2>7, <3>1, <3>2
    <3>3. CASE no = ho /\ ne = he + more
      BY <2>7, <3>1, <3>3
    <3>4. QED
      BY <2>6, <3>2, <3>3
  <2>11. Len(Marks(TextIn(logged'))) + Len(Marks(partial')) = no + ne
    BY <2>9, <2>10
  <2>12. QED
    BY <2>11 DEF HeadMarks, no, ne
<1>22. Chunked'
  <2>1. ChunksOf(new, left)'
    BY <1>19, <1>20, <1>21 DEF ChunksOf
  <2>2. QED
    BY <1>17, <2>1 DEF Chunked
<1>23. QED
  BY <1>3, <1>4, <1>18, <1>22 DEF OutputInv

-----------------------------------------------------------------------------
(* StepOutput: the end.                                                     *)

LEMMA FlushMeans ==
  ASSUME OutputShape, Close
  PROVE  /\ logged' \in Seq(Event)
         /\ \A t \in Streams : LinesIn(logged', t) =
              IF partial # <<>> /\ t = last THEN Cat(LinesIn(logged, t), <<partial>>) ELSE LinesIn(logged, t)
         /\ Len(Marks(TextIn(logged'))) = Len(Marks(TextIn(logged))) + Len(Marks(partial))
<1>1. logged \in Seq(Event) /\ last \in Streams /\ partial \in Seq(Chars \ {"nl"})
  BY DEF OutputShape
<1>2. CASE partial = <<>>
  <2>1. logged' = logged
    <3>1. logged' = Cat(logged, <<>>)
      BY <1>2 DEF Close, Flush, Cat
    <3>2. QED
      BY <1>1, <3>1, CatOfNone
  <2>2. Len(Marks(partial)) = 0
    <3>1. Marks(partial) = <<>>
      BY <1>2, MarksOfNone
    <3>2. QED
      BY <3>1
  <2>3. Len(Marks(TextIn(logged))) \in Nat
    <3>1. TextIn(logged) \in Seq(Clean)
      BY <1>1, InType
    <3>2. Marks(TextIn(logged)) \in Seq(Clean)
      BY <3>1, MarksOfCat
    <3>3. QED
      BY <3>2, LenProperties
  <2>4. QED
    BY <1>1, <1>2, <2>1, <2>2, <2>3
<1>3. CASE partial # <<>>
  <2> DEFINE z == <<partial>>
             x == Marks(TextIn(logged))
             y == Marks(partial)
  <2>1. partial \in Seq(Clean)
    <3>1. Chars \ {"nl"} \subseteq Clean
      BY DEF Clean, Decoded
    <3>2. Seq(Chars \ {"nl"}) \subseteq Seq(Clean)
      BY <3>1, SeqMonotonic
    <3>3. QED
      BY <1>1, <3>2
  <2>2. z \in Rows(Clean) /\ FlattenSeq(z) = partial
    BY <2>1, OneRow, FlatOfOne
  <2>3. logged' = logged \o Events(last, z)
    BY <1>3 DEF Close, Flush
  <2> HIDE DEF z
  <2>4. LoggedTo(last, z)
    BY <1>1, <2>2, <2>3, Logs
  <2>5. TextIn(logged') = Cat(TextIn(logged), partial)
    BY <2>2, <2>4 DEF LoggedTo
  <2>6. Marks(TextIn(logged')) = Cat(x, y) /\ x \in Seq(Clean) /\ y \in Seq(Clean)
    <3>1. TextIn(logged) \in Seq(Clean)
      BY <1>1, InType
    <3>2. QED
      BY <2>1, <2>5, <3>1, MarksOfCat
  <2> HIDE DEF x, y
  <2>7. Len(Cat(x, y)) = Len(x) + Len(y)
    BY <2>6, CatType
  <2>8. Len(Marks(TextIn(logged'))) = Len(x) + Len(y)
    BY <2>6, <2>7
  <2>9. \A t \in Streams : LinesIn(logged', t) = IF t = last THEN Cat(LinesIn(logged, t), z) ELSE LinesIn(logged, t)
    BY <2>4 DEF LoggedTo
  <2>10. QED
    BY <1>3, <2>4, <2>8, <2>9 DEF LoggedTo, x, y, z
<1>4. QED
  BY <1>2, <1>3

LEMMA LocalEnds ==
  ASSUME OutputShape, Framed, place = "local", Close
  PROVE  LinesAsWritten' /\ NothingLost'
<1>1. /\ UNCHANGED <<place, written, unsent, open, cutLine, mixed, last>> /\ closed' = TRUE
      /\ \A t \in Streams : unsent[t] = <<>>
  BY DEF Close
<1>2. partial = <<>> /\ logged \in Seq(Event) /\ written \in [Streams -> Seq(Chars)]
  BY DEF OutputShape
<1>3. \A t \in Streams : LinesOf(t)' = LinesIn(logged, t)
  <2>1. \A t : LinesOf(t)' = LinesIn(logged', t)
    BY DEF LinesOf, LinesIn
  <2>2. \A t \in Streams : LinesIn(logged', t) = LinesIn(logged, t)
    BY <1>2, FlushMeans
  <2>3. QED
    BY <2>1, <2>2
<1>4. ASSUME NEW t \in Streams
      PROVE  /\ t \notin cutLine => Same(LinesIn(logged, t), written[t])
             /\ "wide" \notin ToSet(written[t]) => AllMarks(LinesIn(logged, t)) = Marks(written[t])
  <2> DEFINE L == LinesIn(logged, t)
  <2>1. StreamOf(written[t], <<>>, L, t, open, cutLine)
    BY <1>1 DEF Framed
  <2>2. L \in Rows(Clean) /\ written[t] \in Seq(Chars)
    BY <1>2, InType
  <2> HIDE DEF L
  <2>3. /\ t \notin cutLine => Trimmed(L) = Trimmed(Pieces(written[t]))
        /\ written[t] \in Seq(Plain) => AllMarks(L) = Marks(written[t])
    BY <2>1, StreamOver
  <2>4. t \notin cutLine => Same(L, written[t])
    BY <2>2, <2>3, SameOf
  <2>5. "wide" \notin ToSet(written[t]) => written[t] \in Seq(Plain)
    BY <2>2, PlainIn
  <2>6. QED
    BY <2>3, <2>4, <2>5 DEF L
<1>5. LinesAsWritten'
  <2>1. \A t \in Streams : t \notin cutLine => Same(LinesOf(t)', written[t])
    BY <1>3, <1>4
  <2>2. QED
    BY <1>1, <2>1 DEF LinesAsWritten
<1>6. NothingLost'
  <2>1. \A t \in Streams : "wide" \notin ToSet(written[t]) => Marks(FlattenSeq(LinesOf(t)')) = Marks(written[t])
    BY <1>3, <1>4 DEF AllMarks
  <2>2. QED
    BY <1>1, <2>1 DEF NothingLost
<1>7. QED
  BY <1>5, <1>6

LEMMA CloudEnds ==
  ASSUME OutputShape, Chunked, place = "cloud", Close
  PROVE  LinesAsWritten' /\ NothingLost'
<1>1. /\ UNCHANGED <<place, written, unsent, open, cutLine, mixed, last>> /\ closed' = TRUE
      /\ \A t \in Streams : unsent[t] = <<>>
  BY DEF Close
<1>2. logged \in Seq(Event) /\ logged' \in Seq(Event) /\ written \in [Streams -> Seq(Chars)]
  BY FlushMeans DEF OutputShape
<1>3. PICK front, rest \in [Streams -> Seq(Chars)] : ChunksOf(front, rest)
  BY DEF Chunked
<1>4. Heads(front, rest) /\ HeadLines(front) /\ HeadMarks(front)
  BY <1>3 DEF ChunksOf
<1>5. \A t \in Streams : front[t] = written[t]
  <2>1. ASSUME NEW t \in Streams PROVE front[t] = written[t]
    <3>1. written[t] = Cat(front[t], rest[t]) /\ <<>> = Encoded(rest[t])
      BY <1>1, <1>4 DEF Heads
    <3>2. rest[t] = <<>>
      BY <3>1, EncodedEmpty
    <3>3. front[t] \in Seq(Chars)
      OBVIOUS
    <3>4. QED
      BY <3>1, <3>2, <3>3, CatOfNone
  <2>2. QED
    BY <2>1
<1>6. LinesAsWritten'
  <2>1. ASSUME ~mixed, NEW t \in Streams PROVE Same(LinesIn(logged', t), written[t])
    <3> DEFINE L == LinesIn(logged, t)
               K == LinesIn(logged', t)
               p == PartOf(t)
               z == <<p>>
    <3>1. HeadOK(written[t], L, p)
      BY <1>4, <1>5, <2>1 DEF HeadLines
    <3>2. L \in Rows(Clean) /\ K \in Rows(Clean) /\ written[t] \in Seq(Chars)
      BY <1>2, InType
    <3>3. (p = <<>> => K = L) /\ (p # <<>> => K = Cat(L, z))
      BY FlushMeans DEF PartOf
    <3> HIDE DEF L, K, p
    <3>4. /\ p = <<>> => Trimmed(L) = Trimmed(Pieces(written[t]))
          /\ p # <<>> => Trimmed(Cat(L, z)) = Trimmed(Pieces(written[t]))
      BY <3>1, <3>2, HeadOver
    <3> HIDE DEF z
    <3>5. Trimmed(K) = Trimmed(Pieces(written[t]))
      BY <3>3, <3>4
    <3>6. Same(K, written[t])
      BY <3>2, <3>5, SameOf
    <3>7. QED
      BY <3>6 DEF K
  <2>2. \A t : LinesOf(t)' = LinesIn(logged', t)
    BY DEF LinesOf, LinesIn
  <2>3. ~mixed => \A t \in Streams : Same(LinesOf(t)', written[t])
    BY <2>1, <2>2
  <2>4. QED
    BY <1>1, <2>3 DEF LinesAsWritten
<1>7. NothingLost'
  <2>1. Len(Marks(TextIn(logged'))) = Len(Marks(written["out"])) + Len(Marks(written["err"]))
    <3>1. "out" \in Streams /\ "err" \in Streams
      BY DEF Streams
    <3>2. Len(Marks(TextIn(logged))) + Len(Marks(partial)) = Len(Marks(written["out"])) + Len(Marks(written["err"]))
      BY <1>4, <1>5, <3>1 DEF HeadMarks
    <3>3. Len(Marks(TextIn(logged'))) = Len(Marks(TextIn(logged))) + Len(Marks(partial))
      BY FlushMeans
    <3>4. QED
      BY <3>2, <3>3
  <2>2. FlattenSeq([k \in DOMAIN logged' |-> logged'[k].line]) = TextIn(logged')
    BY DEF TextIn
  <2>3. QED
    BY <1>1, <2>1, <2>2 DEF NothingLost
<1>8. QED
  BY <1>6, <1>7

LEMMA CloseKeeps ==
  ASSUME OutputInv, Close
  PROVE  OutputInv'
<1>1. OutputShape /\ ~closed /\ (place = "local" => Framed) /\ (place = "cloud" => Chunked)
  BY DEF OutputInv, Close
<1>2. /\ UNCHANGED <<place, written, unsent, open, cutLine, mixed, last>> /\ closed' = TRUE
      /\ partial' = <<>> /\ \A t \in Streams : unsent[t] = <<>>
  BY DEF Close
<1>3. place \in {"local", "cloud"}
  BY <1>1 DEF OutputShape
<1>4. LinesAsWritten' /\ NothingLost'
  BY <1>1, <1>3, LocalEnds, CloudEnds
<1>5. logged' \in Seq(Event)
  BY <1>1, FlushMeans
<1>6. OutputShape'
  <2>1. <<>> \in Seq(Chars \ {"nl"})
    BY EmptySeq
  <2>2. QED
    BY <1>1, <1>2, <1>5, <2>1 DEF OutputShape
<1>7. Ended'
  BY <1>2, <1>4 DEF Ended
<1>8. QED
  BY <1>2, <1>6, <1>7 DEF OutputInv

LEMMA OutputKept == ASSUME OutputInv, [OutputNext]_output PROVE OutputInv'
<1>1. CASE UNCHANGED output
  BY <1>1 DEF output, OutputInv, OutputShape, Framed, Chunked, ChunksOf, Heads, HeadLines, HeadMarks, PartOf,
              Ended, LinesAsWritten, NothingLost, LinesOf
<1>2. CASE OutputNext
  BY <1>2, WritesKeeps, FrameKeeps, ChunkKeeps, CloseKeeps DEF OutputNext
<1>3. QED
  BY <1>1, <1>2

-----------------------------------------------------------------------------
(* StepOutput: what the invariant shows.                                    *)

LEMMA SafelyPrinted == ASSUME OutputShape PROVE PrintedSafely
<1>1. logged \in Seq(Event)
  BY DEF OutputShape
<1>2. ASSUME NEW k \in DOMAIN logged
      PROVE  /\ ToSet(Escape(logged[k].line)) \cap {"nl", "cr", "esc", "csi"} = {}
             /\ Only(Escape(logged[k].line), Drawn) = Only(logged[k].line, Drawn)
  <2> DEFINE l == logged[k].line
  <2>1. l \in Seq(Clean)
    <3>1. logged[k] \in Event
      BY <1>1, LenProperties, ElementOfSeq
    <3>2. QED
      BY <3>1 DEF Event
  <2> HIDE DEF l
  <2>2. Escape(l) \in Seq(Shown) /\ Only(Escape(l), Drawn) = Only(l, Drawn)
    BY <2>1, EscapeIs
  <2> DEFINE e == Escape(l)
  <2>3. e \in Seq(Shown) /\ Only(e, Drawn) = Only(l, Drawn)
    BY <2>2
  <2> HIDE DEF e
  <2>4. ToSet(e) \subseteq Shown
    <3>1. \A i \in DOMAIN e : e[i] \in Shown
      BY <2>3, LenProperties, ElementOfSeq
    <3>2. QED
      BY <3>1 DEF ToSet
  <2>5. Shown \cap {"nl", "cr", "esc", "csi"} = {}
    BY DEF Shown
  <2>6. ToSet(e) \cap {"nl", "cr", "esc", "csi"} = {}
    BY <2>4, <2>5
  <2>7. QED
    BY <2>3, <2>6 DEF e, l
<1>3. QED
  BY <1>2, Zenon DEF PrintedSafely

LEMMA OutputTyped == ASSUME OutputShape PROVE OutputTypeOK
<1>1. \A i \in DOMAIN partial : partial[i] # "nl"
  <2>1. \A i \in DOMAIN partial : partial[i] \in Chars \ {"nl"}
    BY LenProperties, ElementOfSeq DEF OutputShape
  <2>2. QED
    BY <2>1
<1>2. \A i \in DOMAIN logged : \A j \in DOMAIN logged[i].line : logged[i].line[j] # "nl"
  <2>1. ASSUME NEW i \in DOMAIN logged, NEW j \in DOMAIN logged[i].line PROVE logged[i].line[j] # "nl"
    <3>1. logged[i] \in Event
      BY LenProperties, ElementOfSeq DEF OutputShape
    <3>2. logged[i].line \in Seq(Clean)
      BY <3>1 DEF Event
    <3>3. logged[i].line[j] \in Clean
      BY <3>2, LenProperties, ElementOfSeq
    <3>4. QED
      BY <3>3 DEF Clean
  <2>2. QED
    BY <2>1
<1>3. QED
  BY <1>1, <1>2 DEF OutputShape, OutputTypeOK

\* StepOutput's output comes through, for any alphabet and however long the
\* output is: until the command is over nothing is promised of the lines, and then
\* the invariant has made them those of what was written (docker.rs:275, watch.rs:422).
THEOREM OutputHolds == OutputSpec => []OutputComesThrough
<1>1. OutputInv /\ [OutputNext]_output => OutputInv'
  BY OutputKept
<1>2. OutputInv => OutputComesThrough
  <2>1. ASSUME OutputInv PROVE OutputComesThrough
    <3>1. OutputShape /\ (closed => Ended)
      BY <2>1 DEF OutputInv
    <3>2. LinesAsWritten /\ NothingLost
      BY <3>1 DEF Ended, LinesAsWritten, NothingLost
    <3>3. QED
      BY <3>1, <3>2, SafelyPrinted, OutputTyped DEF OutputComesThrough
  <2>2. QED
    BY <2>1
<1>3. QED
  BY OutputStarts, <1>1, <1>2, PTL DEF OutputSpec

=============================================================================
