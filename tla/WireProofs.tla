----------------------------- MODULE WireProofs -----------------------------
(***************************************************************************)
(* Laws of the operators on bytes and lines that MessageProofs rests on.   *)
(* Induction is over sets: of numbers, of sequences and of texts line by   *)
(* line, each from the naturals being well ordered.                        *)
(***************************************************************************)
EXTENDS Headers, SequenceTheorems, WellFoundedInduction, TLAPS

-----------------------------------------------------------------------------
(* Induction, and the least and the greatest of a set of numbers *)

\* The naturals are well ordered.
LEMMA LeastOf ==
  ASSUME NEW T, T \subseteq Nat, T # {}
  PROVE  \E x \in T : \A y \in T : x <= y
<1>1. IsWellFoundedOn(OpToRel(<, Nat), Nat)
  BY NatLessThanWellFounded
<1>2. PICK x \in T : \A y \in T : ~(<<y, x>> \in OpToRel(<, Nat))
  BY <1>1, WFMin
<1>3. \A y \in T : ~(y < x)
  BY <1>2 DEF OpToRel
<1>4. QED
  BY <1>3

\* Induction over a set of numbers.
LEMMA AllOf ==
  ASSUME NEW T, T \subseteq Nat, 0 \in T, \A n \in T : n + 1 \in T
  PROVE  T = Nat
<1>1. SUFFICES ASSUME Nat \ T # {} PROVE FALSE
  OBVIOUS
<1>2. PICK x \in Nat \ T : \A y \in Nat \ T : x <= y
  BY <1>1, LeastOf
<1>3. x - 1 \in T
  BY <1>2
<1>4. QED
  BY <1>2, <1>3

LEMMA MinOf ==
  ASSUME NEW T, T \subseteq Nat, T # {}
  PROVE  Min(T) \in T /\ \A y \in T : Min(T) <= y
<1>1. \E x \in T : \A y \in T : x <= y
  BY LeastOf
<1>2. QED
  BY <1>1, Zenon DEF Min

LEMMA MaxOf ==
  ASSUME NEW T, NEW n \in Nat, T \subseteq 0..n, T # {}
  PROVE  Max(T) \in T /\ \A y \in T : Max(T) >= y
<1> DEFINE U == {k \in 0..n : n - k \in T}
<1>1. U \subseteq Nat /\ U # {}
  <2>1. PICK y \in T : TRUE
    OBVIOUS
  <2>2. n - y \in U
    BY <2>1
  <2>3. U \subseteq Nat
    OBVIOUS
  <2> HIDE DEF U
  <2>4. QED
    BY <2>2, <2>3
<1>2. PICK x \in U : \A y \in U : x <= y
  BY <1>1, LeastOf
<1>3. n - x \in T
  BY <1>2
<1>4. \A y \in T : n - x >= y
  <2>1. TAKE y \in T
  <2>2. n - y \in U
    OBVIOUS
  <2>3. x <= n - y
    BY <1>2, <2>2
  <2>4. QED
    BY <2>3
<1>5. \E z \in T : \A y \in T : z >= y
  BY <1>3, <1>4
<1>6. QED
  BY <1>5, Zenon DEF Max

-----------------------------------------------------------------------------
(* FlattenSeq *)

\* f is what FlattenSeq computes on the way to the first n elements of s.
Flattens(s, n, f) ==
  f = [i \in 1..n |-> IF i = 1 THEN s[i] ELSE f[i - 1] \o s[i]]

LEMMA FlattensAt ==
  ASSUME NEW s, NEW n, NEW f, Flattens(s, n, f), NEW i \in 1..n
  PROVE  f[i] = IF i = 1 THEN s[i] ELSE f[i - 1] \o s[i]
BY Zenon DEF Flattens

LEMMA FlattensNext ==
  ASSUME NEW s, NEW n, NEW f, Flattens(s, n, f), NEW i \in 1..n, i # 1
  PROVE  f[i] = f[i - 1] \o s[i]
BY Zenon DEF Flattens

LEMMA FlattensExists ==
  ASSUME NEW s, NEW n \in Nat
  PROVE  \E f : Flattens(s, n, f)
<1> DEFINE T == {k \in Nat : \E f : Flattens(s, k, f)}
<1>1. 0 \in T
  <2>1. Flattens(s, 0, [i \in 1..0 |-> 0])
    BY DEF Flattens
  <2>2. QED
    BY <2>1
<1>2. ASSUME NEW k \in T PROVE k + 1 \in T
  <2>1. PICK f : Flattens(s, k, f)
    OBVIOUS
  <2> DEFINE g == [i \in 1..k + 1 |->
                     IF i <= k THEN f[i] ELSE IF i = 1 THEN s[i] ELSE f[i - 1] \o s[i]]
  <2>2. ASSUME NEW i \in 1..k + 1 PROVE g[i] = IF i = 1 THEN s[i] ELSE g[i - 1] \o s[i]
    <3>1. CASE i <= k
      <4>1. f[i] = IF i = 1 THEN s[i] ELSE f[i - 1] \o s[i]
        BY <2>1, <3>1, FlattensAt
      <4>2. i # 1 => i - 1 \in 1..k + 1 /\ i - 1 <= k
        BY <3>1
      <4>3. QED
        BY <3>1, <4>1, <4>2
    <3>2. CASE i = k + 1
      <4>1. i # 1 => i - 1 \in 1..k + 1 /\ i - 1 <= k
        BY <3>2
      <4>2. QED
        BY <3>2, <4>1
    <3>3. QED
      BY <3>1, <3>2
  <2>3. g = [i \in 1..k + 1 |-> IF i = 1 THEN s[i] ELSE g[i - 1] \o s[i]]
    BY <2>2
  <2>4. Flattens(s, k + 1, g)
    BY <2>3, Zenon DEF Flattens
  <2> HIDE DEF g
  <2>5. QED
    BY <2>4
<1>3. T = Nat
  BY <1>1, <1>2, AllOf
<1>4. QED
  BY <1>3

AgreeTo(s, t, n) == \A i \in 1..n : s[i] = t[i]

LEMMA FlattensUnique ==
  ASSUME NEW s, NEW t, NEW n \in Nat, NEW m \in Nat, n <= m, NEW f, NEW g,
         Flattens(s, n, f), Flattens(t, m, g), AgreeTo(s, t, n)
  PROVE  AgreeTo(f, g, n)
<1> DEFINE T == {k \in Nat : k + 1 \in 1..n => f[k + 1] = g[k + 1]}
<1>1. 0 \in T
  BY FlattensAt DEF AgreeTo
<1>2. ASSUME NEW k \in T PROVE k + 1 \in T
  <2>1. SUFFICES ASSUME NEW j, j = k + 1 + 1, j \in 1..n PROVE f[j] = g[j]
    OBVIOUS
  <2>2. j - 1 = k + 1 /\ k + 1 \in 1..n /\ j # 1 /\ j \in 1..m
    BY <2>1
  <2>3. f[j - 1] = g[j - 1] /\ s[j] = t[j]
    BY <2>1, <2>2 DEF AgreeTo
  <2>4. f[j] = f[j - 1] \o s[j]
    BY <2>1, <2>2, Zenon DEF Flattens
  <2>6. g[j] = g[j - 1] \o t[j]
    BY <2>2, Zenon DEF Flattens
  <2>5. QED
    BY <2>3, <2>4, <2>6, Zenon
<1>3. T = Nat
  BY <1>1, <1>2, AllOf
<1>4. \A i \in 1..n : i - 1 \in Nat /\ i - 1 + 1 = i
  OBVIOUS
<1>5. \A i \in 1..n : i - 1 \in T
  BY <1>3, <1>4, Zenon
<1>6. QED
  BY <1>4, <1>5 DEF AgreeTo

LEMMA FlattensLast ==
  ASSUME NEW s, Len(s) # 0, Len(s) \in Nat
  PROVE  \E f : Flattens(s, Len(s), f) /\ FlattenSeq(s) = f[Len(s)]
<1> DEFINE g == CHOOSE f : f = [i \in 1..Len(s) |-> IF i = 1 THEN s[i] ELSE f[i - 1] \o s[i]]
<1>1. \E f : Flattens(s, Len(s), f)
  BY FlattensExists
<1>2. Flattens(s, Len(s), g)
  BY <1>1, Zenon DEF Flattens
<1>3. FlattenSeq(s) = g[Len(s)]
  BY Zenon DEF FlattenSeq
<1>4. QED
  BY <1>2, <1>3, Zenon

LEMMA FlatEmpty == FlattenSeq(<<>>) = <<>>
BY DEF FlattenSeq

\* FlattenSeq adds its elements one by one.
LEMMA FlatStep ==
  ASSUME NEW S, NEW s \in Seq(Seq(S)), NEW e \in Seq(S)
  PROVE  FlattenSeq(Append(s, e)) = FlattenSeq(s) \o e
<1>1. SUFFICES ASSUME NEW t, t = Append(s, e), NEW n, n = Len(s), NEW m, m = n + 1
               PROVE  FlattenSeq(t) = FlattenSeq(s) \o e
  OBVIOUS
<1>2. /\ n \in Nat /\ Len(t) = m /\ t[m] = e /\ AgreeTo(s, t, n)
  BY <1>1 DEF AgreeTo
<1>3. m \in Nat /\ m # 0 /\ m \in 1..m /\ m - 1 = n /\ n <= m
  BY <1>1, <1>2
<1>4. PICK g : Flattens(t, m, g) /\ FlattenSeq(t) = g[m]
  BY <1>2, <1>3, FlattensLast, Zenon
<1>5. m # 1 => g[m] = g[n] \o t[m]
  <2>1. m # 1 => g[m] = g[m - 1] \o t[m]
    BY <1>3, <1>4, Zenon DEF Flattens
  <2>2. QED
    BY <1>3, <2>1, Zenon
<1>6. CASE n = 0
  <2>1. s = <<>> /\ <<>> \o e = e
    BY <1>1, <1>6, EmptySeq, ConcatEmptySeq, Zenon
  <2>2. m = 1
    BY <1>1, <1>6
  <2>3. g[m] = t[m]
    BY <1>3, <1>4, <2>2, FlattensAt, Zenon
  <2>4. QED
    BY <1>2, <1>4, <2>1, <2>2, <2>3, FlatEmpty, Zenon
<1>7. CASE n # 0
  <2>1. PICK f : Flattens(s, n, f) /\ FlattenSeq(s) = f[n]
    BY <1>1, <1>2, <1>7, FlattensLast, Zenon
  <2>2. m # 1 /\ n \in 1..n
    BY <1>1, <1>2, <1>7
  <2>3. AgreeTo(f, g, n)
    BY <1>2, <1>3, <1>4, <2>1, FlattensUnique, Zenon
  <2>4. QED
    BY <1>2, <1>4, <1>5, <2>1, <2>2, <2>3, Zenon DEF AgreeTo
<1>8. QED
  BY <1>6, <1>7

\* Induction over sequences: their set is the least that is closed under Append.
LEMMA SeqInduction ==
  ASSUME NEW S, NEW T, T \subseteq Seq(S), <<>> \in T,
         \A s \in T : \A e \in S : Append(s, e) \in T
  PROVE  T = Seq(S)
<1> DEFINE U == {n \in Nat : \A s \in Seq(S) : Len(s) = n => s \in T}
<1>1. 0 \in U
  BY EmptySeq
<1>2. ASSUME NEW n \in U PROVE n + 1 \in U
  <2>1. SUFFICES ASSUME NEW s \in Seq(S), Len(s) = n + 1 PROVE s \in T
    OBVIOUS
  <2>2. s # <<>>
    BY <2>1
  <2>3. PICK r \in Seq(S), e \in S : s = Append(r, e)
    BY <2>2, SequenceEmptyOrAppend
  <2>4. Len(r) = n
    BY <2>1, <2>3
  <2>5. QED
    BY <2>3, <2>4
<1>3. U = Nat
  <2> HIDE DEF U
  <2>1. U \subseteq Nat
    BY DEF U
  <2>2. QED
    BY <1>1, <1>2, <2>1, AllOf
<1>4. ASSUME NEW s \in Seq(S) PROVE s \in T
  <2>1. Len(s) \in U
    BY <1>3
  <2>2. QED
    BY <2>1
<1>5. QED
  BY <1>4

LEMMA FlatType ==
  ASSUME NEW S, NEW s \in Seq(Seq(S))
  PROVE  FlattenSeq(s) \in Seq(S)
<1> DEFINE T == {t \in Seq(Seq(S)) : FlattenSeq(t) \in Seq(S)}
<1>1. <<>> \in T
  <2>1. <<>> \in Seq(Seq(S)) /\ <<>> \in Seq(S)
    BY EmptySeq
  <2>2. QED
    BY <2>1, FlatEmpty, Zenon
<1>2. ASSUME NEW t \in T, NEW e \in Seq(S) PROVE Append(t, e) \in T
  <2>1. FlattenSeq(Append(t, e)) = FlattenSeq(t) \o e
    BY FlatStep
  <2>2. FlattenSeq(t) \o e \in Seq(S) /\ Append(t, e) \in Seq(Seq(S))
    OBVIOUS
  <2>3. QED
    BY <2>1, <2>2, Zenon
<1>3. T = Seq(Seq(S))
  <2> HIDE DEF T
  <2>1. T \subseteq Seq(Seq(S))
    BY DEF T
  <2>2. QED
    BY <1>1, <1>2, <2>1, SeqInduction
<1>4. QED
  BY <1>3

LEMMA FlatOne ==
  ASSUME NEW S, NEW e \in Seq(S)
  PROVE  FlattenSeq(<<e>>) = e
<1>1. Append(<<>>, e) = <<e>> /\ <<>> \in Seq(Seq(S))
  OBVIOUS
<1>2. FlattenSeq(Append(<<>>, e)) = FlattenSeq(<<>>) \o e
  BY <1>1, FlatStep, Zenon
<1>3. QED
  BY <1>1, <1>2, FlatEmpty, ConcatEmptySeq

\* ... and takes a concatenation apart.
LEMMA FlatConcat ==
  ASSUME NEW S, NEW u \in Seq(Seq(S)), NEW v \in Seq(Seq(S))
  PROVE  FlattenSeq(u \o v) = FlattenSeq(u) \o FlattenSeq(v)
<1> DEFINE T == {t \in Seq(Seq(S)) : FlattenSeq(u \o t) = FlattenSeq(u) \o FlattenSeq(t)}
<1>1. <<>> \in T
  <2>1. FlattenSeq(u) \in Seq(S)
    BY FlatType
  <2>2. u \o <<>> = u /\ FlattenSeq(u) \o <<>> = FlattenSeq(u)
    BY <2>1, ConcatEmptySeq
  <2>3. <<>> \in Seq(Seq(S))
    BY EmptySeq
  <2>4. QED
    BY <2>2, <2>3, FlatEmpty, Zenon
<1>2. ASSUME NEW t \in T, NEW e \in Seq(S) PROVE Append(t, e) \in T
  <2>1. u \o Append(t, e) = Append(u \o t, e) /\ u \o t \in Seq(Seq(S))
    OBVIOUS
  <2>2. FlattenSeq(Append(u \o t, e)) = FlattenSeq(u \o t) \o e
    BY <2>1, FlatStep
  <2>3. FlattenSeq(Append(t, e)) = FlattenSeq(t) \o e
    BY FlatStep
  <2>4. FlattenSeq(u) \in Seq(S) /\ FlattenSeq(t) \in Seq(S)
    BY FlatType
  <2>5. (FlattenSeq(u) \o FlattenSeq(t)) \o e = FlattenSeq(u) \o (FlattenSeq(t) \o e)
    BY <2>4, ConcatAssociative
  <2>6. FlattenSeq(u \o t) = FlattenSeq(u) \o FlattenSeq(t) /\ Append(t, e) \in Seq(Seq(S))
    OBVIOUS
  <2>7. FlattenSeq(u \o Append(t, e)) = FlattenSeq(u) \o FlattenSeq(Append(t, e))
    BY <2>1, <2>2, <2>3, <2>5, <2>6, Zenon
  <2>8. QED
    BY <2>6, <2>7
<1>3. T = Seq(Seq(S))
  <2> HIDE DEF T
  <2>1. T \subseteq Seq(Seq(S))
    BY DEF T
  <2>2. QED
    BY <1>1, <1>2, <2>1, SeqInduction
<1>4. QED
  BY <1>3

\* h is f and then g.
Joins(f, g, h) ==
  /\ Len(h) = Len(f) + Len(g)
  /\ \A i \in 1..Len(f) : h[i] = f[i]
  /\ \A i \in 1..Len(g) : h[Len(f) + i] = g[i]

LEMMA JoinsConcat ==
  ASSUME NEW S, NEW f \in Seq(S), NEW g \in Seq(S), NEW h \in Seq(S), Joins(f, g, h)
  PROVE  h = f \o g
<1>1. f \o g \in Seq(S) /\ Len(f \o g) = Len(h)
  BY DEF Joins
<1>2. \A i \in 1..Len(h) : h[i] = (f \o g)[i]
  <2>1. TAKE i \in 1..Len(h)
  <2>2. CASE i <= Len(f)
    BY <2>2 DEF Joins
  <2>3. CASE i > Len(f)
    <3>1. i - Len(f) \in 1..Len(g) /\ Len(f) + (i - Len(f)) = i
      BY <2>3 DEF Joins
    <3>2. h[i] = g[i - Len(f)]
      BY <3>1 DEF Joins
    <3>3. (f \o g)[i] = g[i - Len(f)]
      BY <2>3, <3>1
    <3>4. QED
      BY <3>2, <3>3
  <2>4. Len(f) \in Nat /\ Len(h) \in Nat
    OBVIOUS
  <2>5. i <= Len(f) \/ i > Len(f)
    BY <2>4
  <2>6. QED
    BY <2>2, <2>3, <2>5, Zenon
<1>3. QED
  BY <1>1, <1>2, SeqEqual

LEMMA SeqOfFunction ==
  ASSUME NEW S, NEW n \in Nat, NEW f \in [1..n -> S]
  PROVE  f \in Seq(S) /\ Len(f) = n
OBVIOUS

-----------------------------------------------------------------------------
(* Picked *)

LEMMA PickedType ==
  ASSUME NEW S, NEW s \in Seq(S), NEW P
  PROVE  Picked(s, P) \in Seq(S)
<1> DEFINE f == [i \in DOMAIN s |-> IF i \in P THEN <<s[i]>> ELSE <<>>]
<1>1. f \in Seq(Seq(S))
  <2>1. \A i \in 1..Len(s) : (IF i \in P THEN <<s[i]>> ELSE <<>>) \in Seq(S)
    BY EmptySeq
  <2>2. f \in [1..Len(s) -> Seq(S)] /\ Len(s) \in Nat
    BY <2>1
  <2> HIDE DEF f
  <2>3. QED
    BY <2>2
<1>2. FlattenSeq(f) \in Seq(S)
  BY <1>1, FlatType
<1>3. QED
  BY <1>2 DEF Picked

\* The positions P of a and b together are the A of a and the B of b.
Parted(P, a, b, A, B) ==
  /\ \A i \in 1..Len(a) : i \in A <=> i \in P
  /\ \A i \in 1..Len(b) : i \in B <=> Len(a) + i \in P

LEMMA PickedConcat ==
  ASSUME NEW S, NEW a \in Seq(S), NEW b \in Seq(S), NEW P, NEW A, NEW B, Parted(P, a, b, A, B)
  PROVE  Picked(a \o b, P) = Picked(a, A) \o Picked(b, B)
<1> DEFINE f == [i \in DOMAIN a |-> IF i \in A THEN <<a[i]>> ELSE <<>>]
           g == [i \in DOMAIN b |-> IF i \in B THEN <<b[i]>> ELSE <<>>]
           h == [i \in DOMAIN (a \o b) |-> IF i \in P THEN <<(a \o b)[i]>> ELSE <<>>]
           m == Len(a)
           n == Len(b)
<1>1. DOMAIN a = 1..m /\ DOMAIN b = 1..n /\ DOMAIN (a \o b) = 1..m + n /\ m \in Nat /\ n \in Nat
  OBVIOUS
<1>2. /\ \A i \in 1..m : i \in DOMAIN (a \o b) /\ (a \o b)[i] = a[i]
      /\ \A i \in 1..n : m + i \in DOMAIN (a \o b) /\ (a \o b)[m + i] = b[i]
  BY <1>1
<1>3. f \in [1..m -> Seq(S)] /\ g \in [1..n -> Seq(S)] /\ h \in [1..m + n -> Seq(S)]
  <2>1. <<>> \in Seq(S) /\ \A x \in S : <<x>> \in Seq(S)
    BY EmptySeq
  <2>2. /\ \A i \in 1..m : a[i] \in S
        /\ \A i \in 1..n : b[i] \in S
        /\ \A i \in 1..m + n : (a \o b)[i] \in S
    OBVIOUS
  <2>3. QED
    BY <1>1, <2>1, <2>2
<1>4. \A i \in 1..m : h[i] = f[i]
  BY <1>1, <1>2 DEF Parted
<1>5. \A i \in 1..n : h[m + i] = g[i]
  BY <1>1, <1>2 DEF Parted
<1>6. FlattenSeq(h) = FlattenSeq(f) \o FlattenSeq(g)
  <2> HIDE DEF f, g, h, m, n
  <2>1. /\ f \in Seq(Seq(S)) /\ g \in Seq(Seq(S)) /\ h \in Seq(Seq(S))
        /\ Len(f) = m /\ Len(g) = n /\ Len(h) = m + n
    <3>1. m + n \in Nat
      BY <1>1
    <3>2. QED
      BY <1>1, <1>3, <3>1, SeqOfFunction, Zenon
  <2>2. Joins(f, g, h)
    BY <2>1, <1>4, <1>5, Zenon DEF Joins
  <2>3. h = f \o g
    BY <2>1, <2>2, JoinsConcat, Zenon
  <2>4. QED
    BY <2>1, <2>3, FlatConcat
<1>7. QED
  BY <1>6, Zenon DEF Picked

LEMMA PickedEmpty == \A P : Picked(<<>>, P) = <<>>
<1>1. SUFFICES ASSUME NEW P PROVE Picked(<<>>, P) = <<>>
  OBVIOUS
<1>2. [i \in DOMAIN <<>> |-> IF i \in P THEN <<<<>>[i]>> ELSE <<>>] = <<>>
  OBVIOUS
<1>3. QED
  BY <1>2, FlatEmpty, Zenon DEF Picked

LEMMA PickedOne ==
  ASSUME NEW S, NEW x \in S, NEW P
  PROVE  Picked(<<x>>, P) = IF 1 \in P THEN <<x>> ELSE <<>>
<1> DEFINE e == IF 1 \in P THEN <<x>> ELSE <<>>
<1>1. e \in Seq(S)
  BY EmptySeq
<1>2. [i \in DOMAIN <<x>> |-> IF i \in P THEN <<<<x>>[i]>> ELSE <<>>] = <<e>>
  OBVIOUS
<1>3. Picked(<<x>>, P) = FlattenSeq(<<e>>)
  BY <1>2, Zenon DEF Picked
<1> HIDE DEF e
<1>4. FlattenSeq(<<e>>) = e
  BY <1>1, FlatOne
<1>5. QED
  BY <1>3, <1>4 DEF e

\* All of s.
LEMMA PickedAll ==
  ASSUME NEW S, NEW s \in Seq(S)
  PROVE  \A P : (\A i \in 1..Len(s) : i \in P) => Picked(s, P) = s
<1> DEFINE All(t, P) == \A i \in 1..Len(t) : i \in P
           T == {t \in Seq(S) : \A P : All(t, P) => Picked(t, P) = t}
<1>1. <<>> \in T
  BY EmptySeq, PickedEmpty, Zenon
<1>2. ASSUME NEW t \in T, NEW x \in S PROVE Append(t, x) \in T
  <2>1. /\ Append(t, x) \in Seq(S) /\ Append(t, x) = t \o <<x>> /\ <<x>> \in Seq(S)
        /\ Len(Append(t, x)) = Len(t) + 1 /\ Len(t) \in Nat /\ Len(<<x>>) = 1
    OBVIOUS
  <2>2. ASSUME NEW P, All(Append(t, x), P) PROVE Picked(t \o <<x>>, P) = t \o <<x>>
    <3>1. Len(t) + 1 \in P /\ \A i \in 1..Len(t) : i \in P
      <4>1. Len(t) + 1 \in 1..Len(t) + 1 /\ \A i \in 1..Len(t) : i \in 1..Len(t) + 1
        BY <2>1
      <4>2. QED
        BY <2>1, <2>2, <4>1
    <3>2. \A i \in 1..Len(<<x>>) : i \in {1} <=> Len(t) + i \in P
      BY <2>1, <3>1
    <3>3. Picked(t \o <<x>>, P) = Picked(t, P) \o Picked(<<x>>, {1})
      <4>1. PICK y \in Seq(S) : y = <<x>>
        BY <2>1
      <4>2. Parted(P, t, y, P, {1})
        BY <3>2, <4>1, Zenon DEF Parted
      <4>3. Picked(t \o y, P) = Picked(t, P) \o Picked(y, {1})
        BY <4>2, PickedConcat
      <4>4. QED
        BY <4>1, <4>3, Zenon
    <3>4. Picked(<<x>>, {1}) = <<x>>
      BY PickedOne
    <3>5. Picked(t, P) = t
      BY <3>1
    <3>6. QED
      BY <3>3, <3>4, <3>5
  <2>3. QED
    BY <2>1, <2>2, Zenon
<1>3. T = Seq(S)
  <2> HIDE DEF T
  <2>1. T \subseteq Seq(S)
    BY DEF T
  <2>2. QED
    BY <1>1, <1>2, <2>1, SeqInduction
<1>4. QED
  BY <1>3

-----------------------------------------------------------------------------
(* normalize_breaks and dot_stuff *)

\* What normalize_breaks and dot_stuff make of the byte at i.
Broken(s, i) ==
  IF s[i] = LF THEN CRLF
  ELSE IF s[i] = CR /\ i < Len(s) /\ s[i + 1] = LF THEN <<>> ELSE <<s[i]>>
Dotted(s, i) ==
  IF s[i] = DOT /\ LineBegins(s, i) THEN <<DOT, DOT>> ELSE <<s[i]>>

LEMMA ByteSeqs ==
  /\ CRLF \in Seq(Bytes) /\ <<>> \in Seq(Bytes) /\ <<DOT, DOT>> \in Seq(Bytes)
  /\ \A x \in Bytes : <<x>> \in Seq(Bytes)
<1>1. CR \in Bytes /\ LF \in Bytes /\ DOT \in Bytes
  BY DEF Bytes
<1>2. QED
  BY <1>1, EmptySeq DEF CRLF

\* Concatenation is associative.
AssocAt(a, b, c) == (a \o b) \o c = a \o (b \o c)

LEMMA Assoc ==
  ASSUME NEW a \in Seq(Bytes), NEW b \in Seq(Bytes), NEW c \in Seq(Bytes)
  PROVE  AssocAt(a, b, c)
BY ConcatAssociative DEF AssocAt

LEMMA NormType ==
  ASSUME NEW s \in Seq(Bytes)
  PROVE  normalize_breaks(s) \in Seq(Bytes)
<1> DEFINE f == [i \in DOMAIN s |-> Broken(s, i)]
<1>1. f \in [1..Len(s) -> Seq(Bytes)] /\ Len(s) \in Nat
  <2>1. \A i \in 1..Len(s) : s[i] \in Bytes
    OBVIOUS
  <2>2. DOMAIN s = 1..Len(s) /\ Len(s) \in Nat
    OBVIOUS
  <2>3. \A i \in 1..Len(s) : Broken(s, i) \in Seq(Bytes)
    BY <2>1, ByteSeqs, Zenon DEF Broken
  <2>4. QED
    BY <2>2, <2>3
<1>2. FlattenSeq(f) \in Seq(Bytes)
  <2> HIDE DEF f
  <2>1. QED
    BY <1>1, SeqOfFunction, FlatType, Zenon
<1>3. normalize_breaks(s) = FlattenSeq(f)
  BY Zenon DEF normalize_breaks, Broken
<1>4. QED
  BY <1>2, <1>3, Zenon

LEMMA DotType ==
  ASSUME NEW s \in Seq(Bytes)
  PROVE  dot_stuff(s) \in Seq(Bytes)
<1> DEFINE f == [i \in DOMAIN s |-> Dotted(s, i)]
<1>1. f \in [1..Len(s) -> Seq(Bytes)] /\ Len(s) \in Nat
  <2>1. \A i \in 1..Len(s) : s[i] \in Bytes
    OBVIOUS
  <2>2. DOMAIN s = 1..Len(s) /\ Len(s) \in Nat
    OBVIOUS
  <2>3. \A i \in 1..Len(s) : Dotted(s, i) \in Seq(Bytes)
    BY <2>1, ByteSeqs, Zenon DEF Dotted
  <2>4. QED
    BY <2>2, <2>3
<1>2. FlattenSeq(f) \in Seq(Bytes)
  <2> HIDE DEF f
  <2>1. QED
    BY <1>1, SeqOfFunction, FlatType, Zenon
<1>3. dot_stuff(s) = FlattenSeq(f)
  BY Zenon DEF dot_stuff, Dotted
<1>4. QED
  BY <1>2, <1>3, Zenon

\* Breaks are rewritten piece by piece, unless a CRLF is cut in two.
Splits(a, b) == Len(a) > 0 /\ Len(b) > 0 /\ a[Len(a)] = CR /\ b[1] = LF

LEMMA NormConcat ==
  ASSUME NEW a \in Seq(Bytes), NEW b \in Seq(Bytes), ~Splits(a, b)
  PROVE  normalize_breaks(a \o b) = normalize_breaks(a) \o normalize_breaks(b)
<1> DEFINE s == a \o b
           f == [i \in DOMAIN a |-> Broken(a, i)]
           g == [i \in DOMAIN b |-> Broken(b, i)]
           h == [i \in DOMAIN s |-> Broken(s, i)]
           m == Len(a)
           n == Len(b)
<1>1. /\ DOMAIN a = 1..m /\ DOMAIN b = 1..n /\ DOMAIN s = 1..m + n
      /\ m \in Nat /\ n \in Nat /\ m + n \in Nat /\ Len(s) = m + n
  OBVIOUS
<1>2. /\ \A i \in 1..m : s[i] = a[i] /\ a[i] \in Bytes
      /\ \A i \in 1..n : s[m + i] = b[i] /\ b[i] \in Bytes
      /\ \A i \in 1..m + n : s[i] \in Bytes
  OBVIOUS
<1> HIDE DEF s, m, n
<1>3. f \in [1..m -> Seq(Bytes)] /\ g \in [1..n -> Seq(Bytes)] /\ h \in [1..m + n -> Seq(Bytes)]
  <2>1. /\ \A i \in 1..m : Broken(a, i) \in Seq(Bytes)
        /\ \A i \in 1..n : Broken(b, i) \in Seq(Bytes)
        /\ \A i \in 1..m + n : Broken(s, i) \in Seq(Bytes)
    BY <1>2, ByteSeqs, Zenon DEF Broken
  <2>2. QED
    BY <1>1, <2>1
<1>4. \A i \in 1..m : h[i] = f[i]
  <2>1. SUFFICES ASSUME NEW i \in 1..m PROVE Broken(s, i) = Broken(a, i)
    BY <1>1
  <2>2. s[i] = a[i]
    BY <1>2
  <2>3. (i < m + n /\ s[i] = CR /\ s[i + 1] = LF) <=> (i < m /\ a[i] = CR /\ a[i + 1] = LF)
    <3>1. CASE i < m
      <4>1. i + 1 \in 1..m /\ i < m + n
        BY <1>1, <3>1
      <4>2. QED
        BY <1>2, <4>1, <3>1
    <3>2. CASE i = m
      <4>1. n > 0 => s[m + 1] = b[1]
        BY <1>1, <1>2
      <4>2. ~(i < m) /\ (i < m + n => n > 0) /\ m > 0
        BY <1>1, <3>2
      <4>3. QED
        BY <1>1, <1>2, <3>2, <4>1, <4>2 DEF Splits, m, n
    <3>3. QED
      BY <1>1, <3>1, <3>2
  <2>4. QED
    BY <1>1, <2>2, <2>3, Zenon DEF Broken, m
<1>5. \A i \in 1..n : h[m + i] = g[i]
  <2>1. SUFFICES ASSUME NEW i \in 1..n PROVE Broken(s, m + i) = Broken(b, i)
    BY <1>1
  <2>2. s[m + i] = b[i]
    BY <1>2
  <2>3. m + i < m + n <=> i < n
    BY <1>1
  <2>4. i < n => s[m + i + 1] = b[i + 1]
    <3>1. i < n => i + 1 \in 1..n /\ m + i + 1 = m + (i + 1)
      BY <1>1
    <3>2. QED
      BY <1>2, <3>1
  <2>5. QED
    BY <1>1, <2>2, <2>3, <2>4, Zenon DEF Broken, n
<1>6. FlattenSeq(h) = FlattenSeq(f) \o FlattenSeq(g)
  <2> HIDE DEF f, g, h
  <2>1. /\ f \in Seq(Seq(Bytes)) /\ g \in Seq(Seq(Bytes)) /\ h \in Seq(Seq(Bytes))
        /\ Len(f) = m /\ Len(g) = n /\ Len(h) = m + n
    BY <1>1, <1>3, SeqOfFunction, Zenon
  <2>2. Joins(f, g, h)
    BY <2>1, <1>4, <1>5, Zenon DEF Joins
  <2>3. h = f \o g
    BY <2>1, <2>2, JoinsConcat, Zenon
  <2>4. QED
    BY <2>1, <2>3, FlatConcat
<1>7. QED
  BY <1>6, Zenon DEF normalize_breaks, Broken, s

\* A block of whole lines.
Whole(s) == Len(s) = 0 \/ s[Len(s)] = LF

\* Where lines begin in a text and in one behind another.
LEMMA BeginsConcat ==
  ASSUME NEW a \in Seq(Bytes), NEW b \in Seq(Bytes)
  PROVE  /\ \A i \in 1..Len(a) : LineBegins(a \o b, i) <=> LineBegins(a, i)
         /\ \A i \in 2..Len(b) : LineBegins(a \o b, Len(a) + i) <=> LineBegins(b, i)
         /\ Len(b) > 0 => (LineBegins(a \o b, Len(a) + 1) <=> Whole(a))
<1> DEFINE s == a \o b
           m == Len(a)
           n == Len(b)
<1>1. /\ m \in Nat /\ n \in Nat
      /\ \A i \in 1..m : s[i] = a[i]
      /\ \A i \in 1..n : s[m + i] = b[i]
  OBVIOUS
<1> HIDE DEF s, m, n
<1>2. ASSUME NEW i \in 1..m PROVE LineBegins(s, i) <=> LineBegins(a, i)
  <2>1. i # 1 => i - 1 \in 1..m
    BY <1>1
  <2>2. QED
    BY <1>1, <2>1 DEF LineBegins
<1>3. ASSUME NEW i \in 2..n PROVE LineBegins(s, m + i) <=> LineBegins(b, i)
  <2>1. i - 1 \in 1..n /\ (m + i) - 1 = m + (i - 1) /\ m + i # 1 /\ i # 1
    BY <1>1
  <2>2. s[(m + i) - 1] = b[i - 1]
    BY <1>1, <2>1
  <2>3. QED
    BY <2>1, <2>2 DEF LineBegins
<1>4. LineBegins(s, m + 1) <=> (m = 0 \/ a[m] = LF)
  <2>1. m + 1 - 1 = m /\ (m + 1 = 1 <=> m = 0) /\ (m # 0 => m \in 1..m)
    BY <1>1
  <2>2. QED
    BY <1>1, <2>1 DEF LineBegins
<1>5. QED
  BY <1>2, <1>3, <1>4 DEF s, m, n, Whole

\* Dots are doubled line by line.
LEMMA DotConcat ==
  ASSUME NEW a \in Seq(Bytes), NEW b \in Seq(Bytes), Whole(a) \/ Len(b) = 0 \/ b[1] # DOT
  PROVE  dot_stuff(a \o b) = dot_stuff(a) \o dot_stuff(b)
<1> DEFINE s == a \o b
           f == [i \in DOMAIN a |-> Dotted(a, i)]
           g == [i \in DOMAIN b |-> Dotted(b, i)]
           h == [i \in DOMAIN s |-> Dotted(s, i)]
           m == Len(a)
           n == Len(b)
<1>1. /\ DOMAIN a = 1..m /\ DOMAIN b = 1..n /\ DOMAIN s = 1..m + n
      /\ m \in Nat /\ n \in Nat /\ m + n \in Nat /\ Len(s) = m + n
  OBVIOUS
<1>2. /\ \A i \in 1..m : s[i] = a[i] /\ a[i] \in Bytes
      /\ \A i \in 1..n : s[m + i] = b[i] /\ b[i] \in Bytes
      /\ \A i \in 1..m + n : s[i] \in Bytes
  OBVIOUS
<1> HIDE DEF s, m, n
<1>3. f \in [1..m -> Seq(Bytes)] /\ g \in [1..n -> Seq(Bytes)] /\ h \in [1..m + n -> Seq(Bytes)]
  <2>1. /\ \A i \in 1..m : Dotted(a, i) \in Seq(Bytes)
        /\ \A i \in 1..n : Dotted(b, i) \in Seq(Bytes)
        /\ \A i \in 1..m + n : Dotted(s, i) \in Seq(Bytes)
    BY <1>2, ByteSeqs, Zenon DEF Dotted
  <2>2. QED
    BY <1>1, <2>1
<1>4. \A i \in 1..m : h[i] = f[i]
  <2>1. SUFFICES ASSUME NEW i \in 1..m PROVE Dotted(s, i) = Dotted(a, i)
    BY <1>1
  <2>2. s[i] = a[i]
    BY <1>2
  <2>3. LineBegins(s, i) <=> LineBegins(a, i)
    BY BeginsConcat DEF s, m
  <2>4. QED
    BY <2>2, <2>3, Zenon DEF Dotted
<1>5. \A i \in 1..n : h[m + i] = g[i]
  <2>1. SUFFICES ASSUME NEW i \in 1..n PROVE Dotted(s, m + i) = Dotted(b, i)
    BY <1>1
  <2>2. s[m + i] = b[i]
    BY <1>2
  <2>3. CASE i # 1
    <3>1. i \in 2..n
      BY <1>1, <2>3
    <3>2. LineBegins(s, m + i) <=> LineBegins(b, i)
      BY <3>1, BeginsConcat DEF s, m, n
    <3>3. QED
      BY <2>2, <3>2, Zenon DEF Dotted
  <2>4. CASE i = 1
    <3>1. n > 0 /\ n # 0
      BY <1>1, <2>4
    <3>2. CASE b[1] # DOT
      BY <2>2, <2>4, <3>2, Zenon DEF Dotted
    <3>3. CASE Whole(a)
      <4>1. LineBegins(s, m + 1)
        BY <3>1, <3>3, BeginsConcat DEF s, m, n
      <4>2. LineBegins(b, 1)
        BY DEF LineBegins
      <4>3. QED
        BY <2>2, <2>4, <4>1, <4>2, Zenon DEF Dotted
    <3>4. QED
      BY <3>1, <3>2, <3>3, Zenon DEF n
  <2>5. QED
    BY <2>3, <2>4
<1>6. FlattenSeq(h) = FlattenSeq(f) \o FlattenSeq(g)
  <2> HIDE DEF f, g, h
  <2>1. /\ f \in Seq(Seq(Bytes)) /\ g \in Seq(Seq(Bytes)) /\ h \in Seq(Seq(Bytes))
        /\ Len(f) = m /\ Len(g) = n /\ Len(h) = m + n
    BY <1>1, <1>3, SeqOfFunction, Zenon
  <2>2. Joins(f, g, h)
    BY <2>1, <1>4, <1>5, Zenon DEF Joins
  <2>3. h = f \o g
    BY <2>1, <2>2, JoinsConcat, Zenon
  <2>4. QED
    BY <2>1, <2>3, FlatConcat
<1>7. QED
  BY <1>6, Zenon DEF dot_stuff, Dotted, s

LEMMA NormEmpty == normalize_breaks(<<>>) = <<>>
<1>1. [i \in DOMAIN <<>> |-> Broken(<<>>, i)] = <<>>
  OBVIOUS
<1>2. QED
  BY <1>1, FlatEmpty, Zenon DEF normalize_breaks, Broken

LEMMA DotEmpty == dot_stuff(<<>>) = <<>>
<1>1. [i \in DOMAIN <<>> |-> Dotted(<<>>, i)] = <<>>
  OBVIOUS
<1>2. QED
  BY <1>1, FlatEmpty, Zenon DEF dot_stuff, Dotted

LEMMA NormOne ==
  ASSUME NEW x \in Bytes
  PROVE  normalize_breaks(<<x>>) = IF x = LF THEN CRLF ELSE <<x>>
<1> DEFINE e == IF x = LF THEN CRLF ELSE <<x>>
<1>1. e \in Seq(Bytes)
  BY ByteSeqs
<1>2. [i \in DOMAIN <<x>> |-> Broken(<<x>>, i)] = <<e>>
  <2>1. Broken(<<x>>, 1) = e
    BY DEF Broken
  <2> HIDE DEF e
  <2>2. QED
    BY <2>1
<1>3. normalize_breaks(<<x>>) = FlattenSeq(<<e>>)
  BY <1>2, Zenon DEF normalize_breaks, Broken
<1> HIDE DEF e
<1>4. FlattenSeq(<<e>>) = e
  BY <1>1, FlatOne
<1>5. QED
  BY <1>3, <1>4 DEF e

LEMMA NormCRLF == normalize_breaks(CRLF) = CRLF
<1>1. [i \in DOMAIN CRLF |-> Broken(CRLF, i)] = <<<<>>, CRLF>>
  <2>1. DOMAIN CRLF = {1, 2} /\ Len(CRLF) = 2 /\ CRLF[1] = CR /\ CRLF[2] = LF /\ CR # LF
    BY DEF CRLF, CR, LF
  <2>2. Broken(CRLF, 1) = <<>> /\ Broken(CRLF, 2) = CRLF
    BY <2>1 DEF Broken
  <2>3. QED
    BY <2>1, <2>2
<1>2. <<<<>>, CRLF>> = Append(<<<<>>>>, CRLF) /\ <<<<>>>> \in Seq(Seq(Bytes))
  BY ByteSeqs
<1>3. FlattenSeq(<<<<>>, CRLF>>) = FlattenSeq(<<<<>>>>) \o CRLF
  BY <1>2, ByteSeqs, FlatStep, Zenon
<1>4. FlattenSeq(<<<<>>>>) = <<>>
  BY ByteSeqs, FlatOne, Zenon
<1>5. QED
  BY <1>1, <1>3, <1>4, ByteSeqs, ConcatEmptySeq, Zenon DEF normalize_breaks, Broken

LEMMA DotOne ==
  ASSUME NEW x \in Bytes
  PROVE  dot_stuff(<<x>>) = IF x = DOT THEN <<DOT, DOT>> ELSE <<x>>
<1> DEFINE e == IF x = DOT THEN <<DOT, DOT>> ELSE <<x>>
<1>1. e \in Seq(Bytes)
  BY ByteSeqs
<1>2. [i \in DOMAIN <<x>> |-> Dotted(<<x>>, i)] = <<e>>
  <2>1. Dotted(<<x>>, 1) = e
    BY DEF Dotted, LineBegins
  <2> HIDE DEF e
  <2>2. QED
    BY <2>1
<1>3. dot_stuff(<<x>>) = FlattenSeq(<<e>>)
  BY <1>2, Zenon DEF dot_stuff, Dotted
<1> HIDE DEF e
<1>4. FlattenSeq(<<e>>) = e
  BY <1>1, FlatOne
<1>5. QED
  BY <1>3, <1>4 DEF e

-----------------------------------------------------------------------------
(* Lines *)

\* The line that begins at i ends at e.
EndsAt(s, i, e) ==
  e \in i..Len(s) /\ (\A j \in i..e - 1 : s[j] # LF) /\ (s[e] = LF \/ e = Len(s))

LEMMA LineEndIs ==
  ASSUME NEW s \in Seq(Bytes), NEW i \in 1..Len(s)
  PROVE  EndsAt(s, i, LineEnd(s, i))
<1> DEFINE ends == {j \in i..Len(s) : s[j] = LF}
<1>1. Len(s) \in Nat /\ i \in Nat
  OBVIOUS
<1>2. CASE ends = {}
  <2>1. LineEnd(s, i) = Len(s)
    BY <1>2, Zenon DEF LineEnd
  <2>2. \A j \in i..Len(s) - 1 : j \in i..Len(s)
    BY <1>1
  <2>3. \A j \in i..Len(s) - 1 : s[j] # LF
    BY <1>2, <2>2
  <2>4. QED
    BY <1>1, <2>1, <2>3 DEF EndsAt
<1>3. CASE ends # {}
  <2>1. LineEnd(s, i) = Min(ends)
    BY <1>3, Zenon DEF LineEnd
  <2>2. ends \subseteq Nat
    BY <1>1
  <2>3. Min(ends) \in ends /\ \A y \in ends : Min(ends) <= y
    <3> HIDE DEF ends
    <3>1. QED
      BY <1>3, <2>2, MinOf
  <2>4. PICK e : e = Min(ends)
    OBVIOUS
  <2>5. e \in i..Len(s) /\ s[e] = LF /\ \A y \in i..Len(s) : s[y] = LF => e <= y
    BY <2>3, <2>4
  <2>6. \A j \in i..e - 1 : j \in i..Len(s) /\ ~(e <= j)
    BY <1>1, <2>5
  <2>7. EndsAt(s, i, e)
    BY <2>5, <2>6 DEF EndsAt
  <2>8. QED
    BY <2>1, <2>4, <2>7, Zenon
<1>4. QED
  BY <1>2, <1>3

LEMMA LineEndUnique ==
  ASSUME NEW s \in Seq(Bytes), NEW i \in 1..Len(s), NEW e, EndsAt(s, i, e)
  PROVE  LineEnd(s, i) = e
<1>1. Len(s) \in Nat /\ i \in Nat
  OBVIOUS
<1>2. EndsAt(s, i, LineEnd(s, i))
  BY LineEndIs
<1>3. PICK d : d = LineEnd(s, i)
  OBVIOUS
<1>4. EndsAt(s, i, d)
  BY <1>2, <1>3
<1>5. e \in i..Len(s) /\ d \in i..Len(s)
  BY <1>4 DEF EndsAt
<1>6. ~(d < e)
  <2>1. SUFFICES ASSUME d < e PROVE FALSE
    OBVIOUS
  <2>2. d \in i..e - 1 /\ d # Len(s)
    BY <1>1, <1>5, <2>1
  <2>3. QED
    BY <1>4, <2>2 DEF EndsAt
<1>7. ~(e < d)
  <2>1. SUFFICES ASSUME e < d PROVE FALSE
    OBVIOUS
  <2>2. e \in i..d - 1 /\ e # Len(s)
    BY <1>1, <1>5, <2>1
  <2>3. QED
    BY <1>4, <2>2 DEF EndsAt
<1>8. QED
  BY <1>1, <1>3, <1>5, <1>6, <1>7

\* Past the last byte there is nothing to end.
LEMMA LineEndPast ==
  ASSUME NEW s \in Seq(Bytes)
  PROVE  LineEnd(s, Len(s) + 1) = Len(s)
<1>1. Len(s) + 1..Len(s) = {}
  OBVIOUS
<1>2. {j \in Len(s) + 1..Len(s) : s[j] = LF} = {}
  BY <1>1
<1>3. QED
  BY <1>2, Zenon DEF LineEnd

\* The bytes of a piece, by its place in the whole.
LEMMA ConcatAt ==
  ASSUME NEW S, NEW a \in Seq(S), NEW b \in Seq(S)
  PROVE  /\ a \o b \in Seq(S) /\ Len(a \o b) = Len(a) + Len(b)
         /\ Len(a) \in Nat /\ Len(b) \in Nat
         /\ \A i \in 1..Len(a) : (a \o b)[i] = a[i]
         /\ \A i \in 1..Len(b) : (a \o b)[Len(a) + i] = b[i]
OBVIOUS

LEMMA SubSeqAt ==
  ASSUME NEW S, NEW s \in Seq(S), NEW i \in 1..Len(s) + 1, NEW j \in i - 1..Len(s)
  PROVE  /\ SubSeq(s, i, j) \in Seq(S) /\ Len(SubSeq(s, i, j)) = j - i + 1
         /\ \A k \in 1..j - i + 1 : SubSeq(s, i, j)[k] = s[i + k - 1]
OBVIOUS

LEMMA PrefixAt ==
  ASSUME NEW S, NEW s \in Seq(S), NEW k \in 0..Len(s)
  PROVE  /\ SubSeq(s, 1, k) \in Seq(S) /\ Len(SubSeq(s, 1, k)) = k
         /\ \A i \in 1..k : SubSeq(s, 1, k)[i] = s[i]
OBVIOUS

\* The lines of a text are those of its parts, if it is cut between lines.
LEMMA LineConcatLeft ==
  ASSUME NEW a \in Seq(Bytes), NEW b \in Seq(Bytes), Whole(a), NEW i \in 1..Len(a)
  PROVE  LineEnd(a \o b, i) = LineEnd(a, i) /\ LineAt(a \o b, i) = LineAt(a, i)
<1> DEFINE s == a \o b
           m == Len(a)
<1>1. /\ s \in Seq(Bytes) /\ Len(s) = m + Len(b) /\ m \in Nat /\ Len(b) \in Nat
      /\ \A k \in 1..m : s[k] = a[k]
  BY ConcatAt
<1>2. PICK e : e = LineEnd(a, i)
  OBVIOUS
<1>3. e \in i..m /\ (\A j \in i..e - 1 : a[j] # LF) /\ (a[e] = LF \/ e = m)
  BY <1>2, LineEndIs DEF EndsAt
<1> HIDE DEF s
<1>4. EndsAt(s, i, e)
  <2>1. a[e] = LF
    BY <1>1, <1>3 DEF Whole
  <2>2. e \in 1..m /\ e \in i..Len(s) /\ \A j \in i..e - 1 : j \in 1..m
    BY <1>1, <1>3
  <2>3. QED
    BY <1>1, <1>3, <2>1, <2>2 DEF EndsAt
<1>5. i \in 1..Len(s)
  BY <1>1
<1>6. LineEnd(s, i) = e
  BY <1>1, <1>4, <1>5, LineEndUnique
<1>7. SubSeq(s, i, e) = SubSeq(a, i, e)
  <2>1. i \in 1..m /\ e \in 1..m
    BY <1>3
  <2>2. QED
    BY <2>1, SubSeqOfConcat1 DEF s
<1>8. QED
  BY <1>2, <1>6, <1>7 DEF s, LineAt

LEMMA LineConcatRight ==
  ASSUME NEW a \in Seq(Bytes), NEW b \in Seq(Bytes), NEW i \in 1..Len(b)
  PROVE  /\ LineEnd(a \o b, Len(a) + i) = Len(a) + LineEnd(b, i)
         /\ LineAt(a \o b, Len(a) + i) = LineAt(b, i)
<1> DEFINE s == a \o b
           m == Len(a)
           n == Len(b)
<1>1. /\ s \in Seq(Bytes) /\ Len(s) = m + n /\ m \in Nat /\ n \in Nat
      /\ \A k \in 1..n : s[m + k] = b[k]
  BY ConcatAt
<1>2. PICK e : e = LineEnd(b, i)
  OBVIOUS
<1>3. e \in i..n /\ (\A j \in i..e - 1 : b[j] # LF) /\ (b[e] = LF \/ e = n)
  BY <1>2, LineEndIs DEF EndsAt
<1> HIDE DEF s
<1>4. EndsAt(s, m + i, m + e)
  <2>1. m + e \in m + i..Len(s) /\ e \in 1..n
    BY <1>1, <1>3
  <2>2. ASSUME NEW j \in m + i..(m + e) - 1 PROVE s[j] # LF
    <3>1. j - m \in i..e - 1 /\ j - m \in 1..n /\ m + (j - m) = j
      BY <1>1, <1>3
    <3>2. QED
      BY <1>1, <1>3, <3>1
  <2>3. s[m + e] = LF \/ m + e = Len(s)
    BY <1>1, <1>3, <2>1
  <2>4. QED
    BY <2>1, <2>2, <2>3 DEF EndsAt
<1>5. m + i \in 1..Len(s)
  BY <1>1
<1>6. LineEnd(s, m + i) = m + e
  BY <1>1, <1>4, <1>5, LineEndUnique
<1>7. SubSeq(s, m + i, m + e) = SubSeq(b, i, e)
  <2>1. m + i \in m + 1..m + n /\ m + e \in m + 1..m + n /\ (m + i) - m = i /\ (m + e) - m = e
    BY <1>1, <1>3
  <2>2. SubSeq(s, m + i, m + e) = SubSeq(b, (m + i) - m, (m + e) - m)
    BY <2>1, SubSeqOfConcat2, Zenon DEF s
  <2>3. QED
    BY <2>1, <2>2
<1>8. QED
  BY <1>2, <1>6, <1>7 DEF s, LineAt

\* One whole line.
IsLine(l) == Len(l) > 0 /\ l[Len(l)] = LF /\ \A j \in 1..Len(l) - 1 : l[j] # LF

LEMMA LineOfLine ==
  ASSUME NEW l \in Seq(Bytes), IsLine(l)
  PROVE  /\ LineEnd(l, 1) = Len(l) /\ LineAt(l, 1) = l
         /\ \A i \in 2..Len(l) : ~LineBegins(l, i)
<1>1. Len(l) \in Nat /\ Len(l) > 0
  BY DEF IsLine
<1>2. EndsAt(l, 1, Len(l))
  BY <1>1 DEF EndsAt, IsLine
<1>3. LineEnd(l, 1) = Len(l)
  BY <1>1, <1>2, LineEndUnique
<1>4. SubSeq(l, 1, Len(l)) = l
  BY SubSeqFull
<1>5. ASSUME NEW i \in 2..Len(l) PROVE ~LineBegins(l, i)
  <2>1. i - 1 \in 1..Len(l) - 1 /\ i # 1
    BY <1>1
  <2>2. QED
    BY <2>1 DEF LineBegins, IsLine
<1>6. QED
  BY <1>3, <1>4, <1>5 DEF LineAt

LEMMA LastLine ==
  ASSUME NEW s \in Seq(Bytes), Whole(s), Len(s) > 0
  PROVE  \E a \in Seq(Bytes), l \in Seq(Bytes) : Whole(a) /\ IsLine(l) /\ s = a \o l
<1> DEFINE T == {i \in 1..Len(s) : LineBegins(s, i)}
           n == Len(s)
<1>1. n \in Nat /\ n > 0 /\ s[n] = LF
  BY DEF Whole
<1>2. T \subseteq 0..n /\ 1 \in T
  BY <1>1 DEF LineBegins
<1>3. PICK k \in T : \A y \in T : k >= y
  <2> HIDE DEF T
  <2>1. QED
    BY <1>1, <1>2, MaxOf
<1>4. k \in 1..n /\ LineBegins(s, k) /\ \A y \in 1..n : LineBegins(s, y) => k >= y
  BY <1>3
<1> DEFINE a == SubSeq(s, 1, k - 1)
           l == SubSeq(s, k, n)
<1> HIDE DEF T
<1>5. /\ a \in Seq(Bytes) /\ Len(a) = k - 1 /\ \A i \in 1..k - 1 : a[i] = s[i]
  BY <1>1, <1>4
<1>6. /\ l \in Seq(Bytes) /\ Len(l) = n - k + 1 /\ \A i \in 1..n - k + 1 : l[i] = s[k + i - 1]
  BY <1>1, <1>4
<1>7. s = a \o l
  <2>1. 1 \in 1..n + 1 /\ k - 1 \in 1 - 1..n /\ n \in k - 1..n /\ k - 1 + 1 = k
    BY <1>1, <1>4
  <2>2. SubSeq(s, 1, k - 1) \o SubSeq(s, k - 1 + 1, n) = SubSeq(s, 1, n)
    BY <2>1, ConcatAdjacentSubSeq
  <2>3. SubSeq(s, 1, n) = s
    BY SubSeqFull
  <2>4. QED
    BY <2>1, <2>2, <2>3
<1> HIDE DEF a, l
<1>8. Whole(a)
  <2>1. CASE k = 1
    BY <1>5, <2>1 DEF Whole
  <2>2. CASE k # 1
    <3>1. k - 1 \in 1..k - 1 /\ s[k - 1] = LF
      BY <1>4, <2>2 DEF LineBegins
    <3>2. QED
      BY <1>5, <3>1 DEF Whole
  <2>3. QED
    BY <2>1, <2>2
<1>9. IsLine(l)
  <2>1. Len(l) \in 1..n - k + 1 /\ Len(l) > 0 /\ k + Len(l) - 1 = n
    BY <1>1, <1>4, <1>6
  <2>2. l[Len(l)] = LF
    BY <1>1, <1>6, <2>1
  <2>3. ASSUME NEW j \in 1..Len(l) - 1 PROVE l[j] # LF
    <3>1. j \in 1..n - k + 1 /\ k + j \in 1..n /\ (k + j) - 1 = k + j - 1 /\ ~(k >= k + j)
      BY <1>1, <1>4, <1>6
    <3>2. ~LineBegins(s, k + j)
      BY <1>4, <3>1
    <3>3. s[k + j - 1] # LF
      BY <3>1, <3>2 DEF LineBegins
    <3>4. QED
      BY <1>6, <3>1, <3>3
  <2>4. QED
    BY <2>1, <2>2, <2>3 DEF IsLine
<1>10. QED
  BY <1>5, <1>6, <1>7, <1>8, <1>9

LEMMA WholeConcat ==
  ASSUME NEW a \in Seq(Bytes), NEW b \in Seq(Bytes), Whole(b), Len(b) > 0 \/ Whole(a)
  PROVE  Whole(a \o b)
<1>1. CASE Len(b) > 0
  BY <1>1 DEF Whole
<1>2. CASE Len(b) = 0
  <2>1. b = <<>>
    BY <1>2, EmptySeq
  <2>2. a \o b = a
    BY <2>1, ConcatEmptySeq
  <2>3. QED
    BY <1>2, <2>2
<1>3. Len(b) \in Nat
  OBVIOUS
<1>4. QED
  BY <1>1, <1>2, <1>3

\* Induction over lines.
LEMMA LineInduction ==
  ASSUME NEW T, <<>> \in T,
         \A a \in Seq(Bytes), l \in Seq(Bytes) :
           a \in T /\ Whole(a) /\ IsLine(l) => a \o l \in T
  PROVE  \A s \in Seq(Bytes) : Whole(s) => s \in T
<1> DEFINE U == {n \in Nat : \E s \in Seq(Bytes) : Whole(s) /\ Len(s) = n /\ s \notin T}
<1>1. SUFFICES ASSUME U # {} PROVE FALSE
  <2>1. ASSUME NEW s \in Seq(Bytes), Whole(s), s \notin T PROVE Len(s) \in U
    BY <2>1
  <2>2. QED
    BY <2>1
<1>2. U \subseteq Nat
  OBVIOUS
<1>3. PICK n \in U : \A y \in U : n <= y
  <2> HIDE DEF U
  <2>1. QED
    BY <1>1, <1>2, LeastOf
<1>4. PICK s \in Seq(Bytes) : Whole(s) /\ Len(s) = n /\ s \notin T
  BY <1>3
<1>5. Len(s) > 0
  <2>1. SUFFICES ASSUME Len(s) = 0 PROVE FALSE
    BY <1>4
  <2>2. s = <<>>
    BY <1>4, <2>1, EmptySeq
  <2>3. QED
    BY <1>4, <2>2
<1>6. PICK a \in Seq(Bytes), l \in Seq(Bytes) : Whole(a) /\ IsLine(l) /\ s = a \o l
  BY <1>4, <1>5, LastLine
<1>7. Len(a) \in Nat /\ ~(n <= Len(a))
  BY <1>4, <1>6 DEF IsLine
<1>8. a \in T
  BY <1>3, <1>6, <1>7
<1>9. QED
  BY <1>4, <1>6, <1>8

\* No line of s is among some.
NoLine(s, T) == \A i \in 1..Len(s) : LineBegins(s, i) => LineAt(s, i) \notin T

LEMMA NoLineConcat ==
  ASSUME NEW a \in Seq(Bytes), NEW b \in Seq(Bytes), Whole(a), NEW T
  PROVE  NoLine(a \o b, T) <=> NoLine(a, T) /\ NoLine(b, T)
<1> DEFINE s == a \o b
           m == Len(a)
           n == Len(b)
<1>1. Len(s) = m + n /\ m \in Nat /\ n \in Nat
  OBVIOUS
<1>2. \A i \in 1..m : /\ LineBegins(s, i) <=> LineBegins(a, i)
                      /\ LineAt(s, i) = LineAt(a, i)
  BY BeginsConcat, LineConcatLeft
<1>3. \A i \in 1..n : /\ LineBegins(s, m + i) <=> LineBegins(b, i)
                      /\ LineAt(s, m + i) = LineAt(b, i)
  <2>1. TAKE i \in 1..n
  <2>2. LineAt(s, m + i) = LineAt(b, i)
    BY LineConcatRight
  <2>3. CASE i = 1
    <3>1. LineBegins(s, m + i) /\ LineBegins(b, i)
      BY <2>3, BeginsConcat DEF LineBegins
    <3>2. QED
      BY <2>2, <3>1
  <2>4. CASE i \in 2..n
    BY <2>2, <2>4, BeginsConcat
  <2>5. QED
    BY <1>1, <2>3, <2>4
<1> HIDE DEF s, m, n
<1>4. ASSUME NoLine(s, T) PROVE NoLine(a, T) /\ NoLine(b, T)
  <2>1. \A i \in 1..m : i \in 1..Len(s)
    BY <1>1
  <2>2. \A i \in 1..n : m + i \in 1..Len(s)
    BY <1>1
  <2>3. QED
    BY <1>2, <1>3, <1>4, <2>1, <2>2, Zenon DEF NoLine, m, n
<1>5. ASSUME NoLine(a, T), NoLine(b, T) PROVE NoLine(s, T)
  <2>1. SUFFICES ASSUME NEW i \in 1..Len(s), LineBegins(s, i) PROVE LineAt(s, i) \notin T
    BY DEF NoLine
  <2>2. CASE i \in 1..m
    BY <1>2, <1>5, <2>1, <2>2 DEF NoLine, m
  <2>3. CASE i \notin 1..m
    <3>1. i - m \in 1..n /\ m + (i - m) = i
      BY <1>1, <2>3
    <3>2. (LineBegins(s, i) <=> LineBegins(b, i - m)) /\ LineAt(s, i) = LineAt(b, i - m)
      BY <1>3, <3>1
    <3>3. QED
      BY <1>5, <2>1, <3>1, <3>2 DEF NoLine, n
  <2>4. QED
    BY <2>2, <2>3
<1>6. QED
  BY <1>4, <1>5 DEF s

LEMMA NoLineOne ==
  ASSUME NEW l \in Seq(Bytes), IsLine(l), NEW T
  PROVE  NoLine(l, T) <=> l \notin T
<1>1. Len(l) \in Nat /\ Len(l) > 0
  BY DEF IsLine
<1>2. LineAt(l, 1) = l /\ LineBegins(l, 1) /\ 1 \in 1..Len(l)
  BY <1>1, LineOfLine DEF LineBegins
<1>3. \A i \in 1..Len(l) : i # 1 => ~LineBegins(l, i)
  <2>1. TAKE i \in 1..Len(l)
  <2>2. i # 1 => i \in 2..Len(l)
    BY <1>1
  <2>3. QED
    BY <2>2, LineOfLine
<1>4. QED
  BY <1>2, <1>3 DEF NoLine

LEMMA NoLineEmpty == \A T : NoLine(<<>>, T)
BY DEF NoLine

-----------------------------------------------------------------------------
(* A line and its break *)

\* Text without a line break is written as it is.
LEMMA NormPlain ==
  ASSUME NEW s \in Seq(Bytes), \A i \in 1..Len(s) : s[i] # LF
  PROVE  normalize_breaks(s) = s
<1> DEFINE P(t) == \A i \in 1..Len(t) : t[i] # LF
           T == {t \in Seq(Bytes) : P(t) => normalize_breaks(t) = t}
<1>1. <<>> \in T
  BY NormEmpty, ByteSeqs, Zenon
<1>2. ASSUME NEW t \in T, NEW x \in Bytes PROVE Append(t, x) \in T
  <2>1. Append(t, x) \in Seq(Bytes) /\ Append(t, x) = t \o <<x>> /\ <<x>> \in Seq(Bytes)
    BY AppendIsConcat, ByteSeqs
  <2>2. SUFFICES ASSUME P(Append(t, x)) PROVE normalize_breaks(Append(t, x)) = Append(t, x)
    BY <2>1
  <2>3. P(t) /\ x # LF
    <3>1. /\ Len(Append(t, x)) = Len(t) + 1 /\ Append(t, x)[Len(t) + 1] = x
          /\ \A i \in 1..Len(t) : Append(t, x)[i] = t[i]
      OBVIOUS
    <3>2. Len(t) \in Nat
      OBVIOUS
    <3>3. Len(t) + 1 \in 1..Len(t) + 1 /\ \A i \in 1..Len(t) : i \in 1..Len(t) + 1
      BY <3>2
    <3>4. QED
      BY <2>2, <3>1, <3>3
  <2>4. ~Splits(t, <<x>>)
    BY <2>3 DEF Splits
  <2>5. normalize_breaks(t \o <<x>>) = normalize_breaks(t) \o normalize_breaks(<<x>>)
    BY <2>1, <2>4, NormConcat
  <2>6. normalize_breaks(<<x>>) = <<x>>
    BY <2>3, NormOne
  <2>7. normalize_breaks(t) = t
    BY <2>3
  <2>8. QED
    BY <2>1, <2>5, <2>6, <2>7
<1>3. T = Seq(Bytes)
  <2> HIDE DEF T
  <2>1. T \subseteq Seq(Bytes)
    BY DEF T
  <2>2. QED
    BY <1>1, <1>2, <2>1, SeqInduction
<1>4. QED
  BY <1>3

\* What a line is without its break, and which break it has.
LEMMA LineParts ==
  ASSUME NEW l \in Seq(Bytes), IsLine(l)
  PROVE  \E u \in Seq(Bytes) :
           /\ \A i \in 1..Len(u) : u[i] # LF
           /\ l = u \o CRLF \/ (l = u \o <<LF>> /\ (Len(u) > 0 => u[Len(u)] # CR))
<1> DEFINE n == Len(l)
<1>1. n \in Nat /\ n > 0 /\ l[n] = LF /\ \A j \in 1..n - 1 : l[j] # LF
  BY DEF IsLine
<1>2. CASE n > 1 /\ l[n - 1] = CR
  <2> DEFINE u == SubSeq(l, 1, n - 2)
  <2>1. u \in Seq(Bytes) /\ Len(u) = n - 2 /\ \A i \in 1..n - 2 : u[i] = l[i]
    <3>1. n - 2 \in 0..Len(l)
      BY <1>1, <1>2
    <3>2. QED
      BY <3>1, PrefixAt
  <2> HIDE DEF u
  <2>2. CRLF \in Seq(Bytes) /\ Len(CRLF) = 2 /\ CRLF[1] = CR /\ CRLF[2] = LF
    BY ByteSeqs DEF CRLF
  <2>3. Joins(u, CRLF, l)
    <3>1. \A i \in 1..2 : l[n - 2 + i] = CRLF[i]
      <4>1. n - 2 + 1 = n - 1 /\ n - 2 + 2 = n
        BY <1>1
      <4>2. QED
        BY <1>1, <1>2, <2>2, <4>1
    <3>2. n = n - 2 + 2
      BY <1>1
    <3>3. QED
      BY <2>1, <2>2, <3>1, <3>2 DEF Joins
  <2>4. l = u \o CRLF
    BY <2>1, <2>2, <2>3, JoinsConcat
  <2>5. \A i \in 1..Len(u) : u[i] # LF
    BY <1>1, <2>1
  <2>6. QED
    BY <2>1, <2>4, <2>5
<1>3. CASE ~(n > 1 /\ l[n - 1] = CR)
  <2> DEFINE u == SubSeq(l, 1, n - 1)
  <2>1. u \in Seq(Bytes) /\ Len(u) = n - 1 /\ \A i \in 1..n - 1 : u[i] = l[i]
    <3>1. n - 1 \in 0..Len(l)
      BY <1>1, <1>3
    <3>2. QED
      BY <3>1, PrefixAt
  <2> HIDE DEF u
  <2>2. <<LF>> \in Seq(Bytes) /\ Len(<<LF>>) = 1 /\ <<LF>>[1] = LF
    BY ByteSeqs DEF Bytes
  <2>3. Joins(u, <<LF>>, l)
    <3>1. n - 1 + 1 = n
      BY <1>1
    <3>2. QED
      BY <1>1, <2>1, <2>2, <3>1 DEF Joins
  <2>4. l = u \o <<LF>>
    BY <2>1, <2>2, <2>3, JoinsConcat
  <2>5. \A i \in 1..Len(u) : u[i] # LF
    BY <1>1, <2>1
  <2>6. Len(u) > 0 => u[Len(u)] # CR
    BY <1>1, <1>3, <2>1
  <2>7. QED
    BY <2>1, <2>4, <2>5, <2>6
<1>4. QED
  BY <1>2, <1>3

Terminators == {<<DOT>> \o CRLF, <<DOT, LF>>}
Empties == {CRLF, <<LF>>}

LEMMA Kinds ==
  /\ CR # LF /\ CR # DOT /\ LF # DOT /\ SP # LF /\ SP # CR /\ SP # DOT /\ COLON # LF /\ COLON # CR
  /\ COLON # DOT /\ COLON # SP
  /\ CR \in Bytes /\ LF \in Bytes /\ DOT \in Bytes /\ SP \in Bytes /\ COLON \in Bytes
  /\ Len(CRLF) = 2 /\ CRLF[1] = CR /\ CRLF[2] = LF
BY DEF CR, LF, DOT, SP, COLON, Bytes, CRLF

LEMMA AddCRLF ==
  ASSUME NEW u \in Seq(Bytes)
  PROVE  /\ u \o CRLF \in Seq(Bytes) /\ Len(u \o CRLF) = Len(u) + 2 /\ Len(u) \in Nat
         /\ \A i \in 1..Len(u) : (u \o CRLF)[i] = u[i]
         /\ (u \o CRLF)[Len(u) + 1] = CR /\ (u \o CRLF)[Len(u) + 2] = LF
<1>1. CRLF \in Seq(Bytes) /\ 1 \in 1..Len(CRLF) /\ 2 \in 1..Len(CRLF)
  BY ByteSeqs, Kinds
<1>2. /\ u \o CRLF \in Seq(Bytes) /\ Len(u \o CRLF) = Len(u) + Len(CRLF) /\ Len(u) \in Nat
      /\ \A i \in 1..Len(u) : (u \o CRLF)[i] = u[i]
      /\ \A i \in 1..Len(CRLF) : (u \o CRLF)[Len(u) + i] = CRLF[i]
  BY <1>1, ConcatAt
<1>3. QED
  BY <1>1, <1>2, Kinds, Zenon

LEMMA AddOne ==
  ASSUME NEW S, NEW u \in Seq(S), NEW x \in S
  PROVE  /\ u \o <<x>> \in Seq(S) /\ Len(u \o <<x>>) = Len(u) + 1 /\ Len(u) \in Nat
         /\ \A i \in 1..Len(u) : (u \o <<x>>)[i] = u[i]
         /\ (u \o <<x>>)[Len(u) + 1] = x
OBVIOUS

\* A terminator: two or three bytes, of which the last is the first LF.
LEMMA TerminatorIs ==
  ASSUME NEW l \in Seq(Bytes)
  PROVE  /\ is_terminator(l) <=> l \in Terminators
         /\ is_terminator(l) <=>
              \/ Len(l) = 2 /\ l[1] = DOT /\ l[2] = LF
              \/ Len(l) = 3 /\ l[1] = DOT /\ l[2] = CR /\ l[3] = LF
<1>1. <<DOT>> \o CRLF = <<DOT, CR, LF>>
  <2>1. <<DOT, CR, LF>> \in Seq(Bytes) /\ <<DOT>> \in Seq(Bytes) /\ Len(<<DOT, CR, LF>>) = 3
    BY Kinds
  <2>2. Joins(<<DOT>>, CRLF, <<DOT, CR, LF>>)
    BY Kinds DEF Joins
  <2>3. QED
    BY <2>1, <2>2, ByteSeqs, JoinsConcat, Zenon
<1>2. l = <<DOT, CR, LF>> <=> Len(l) = 3 /\ l[1] = DOT /\ l[2] = CR /\ l[3] = LF
  OBVIOUS
<1>3. l = <<DOT, LF>> <=> Len(l) = 2 /\ l[1] = DOT /\ l[2] = LF
  OBVIOUS
<1>4. QED
  BY <1>1, <1>2, <1>3, Zenon DEF is_terminator, Terminators

LEMMA EmptyLineIs ==
  ASSUME NEW l \in Seq(Bytes)
  PROVE  /\ is_empty_line(l) <=> l \in Empties
         /\ is_empty_line(l) <=>
              \/ Len(l) = 1 /\ l[1] = LF
              \/ Len(l) = 2 /\ l[1] = CR /\ l[2] = LF
<1>1. l = CRLF <=> Len(l) = 2 /\ l[1] = CR /\ l[2] = LF
  BY DEF CRLF
<1>2. l = <<LF>> <=> Len(l) = 1 /\ l[1] = LF
  OBVIOUS
<1>3. QED
  BY <1>1, <1>2, Zenon DEF is_empty_line, Empties

\* What a line is once its break is a CRLF.
LEMMA NormLineIs ==
  ASSUME NEW l \in Seq(Bytes), IsLine(l)
  PROVE  \E u \in Seq(Bytes) :
           /\ \A i \in 1..Len(u) : u[i] # LF
           /\ l = u \o CRLF \/ (l = u \o <<LF>> /\ (Len(u) > 0 => u[Len(u)] # CR))
           /\ normalize_breaks(l) = u \o CRLF
<1>1. PICK u \in Seq(Bytes) :
        /\ \A i \in 1..Len(u) : u[i] # LF
        /\ l = u \o CRLF \/ (l = u \o <<LF>> /\ (Len(u) > 0 => u[Len(u)] # CR))
  BY LineParts
<1>2. normalize_breaks(u) = u /\ normalize_breaks(CRLF) = CRLF /\ normalize_breaks(<<LF>>) = CRLF
  BY <1>1, NormPlain, NormCRLF, NormOne, Kinds
<1>3. normalize_breaks(l) = u \o CRLF
  <2>1. CASE l = u \o CRLF
    <3>1. ~Splits(u, CRLF)
      BY Kinds DEF Splits
    <3>2. normalize_breaks(u \o CRLF) = normalize_breaks(u) \o normalize_breaks(CRLF)
      BY <3>1, ByteSeqs, NormConcat
    <3>3. QED
      BY <1>2, <2>1, <3>2
  <2>2. CASE l = u \o <<LF>> /\ (Len(u) > 0 => u[Len(u)] # CR)
    <3>1. ~Splits(u, <<LF>>)
      BY <2>2, Kinds DEF Splits
    <3>2. normalize_breaks(u \o <<LF>>) = normalize_breaks(u) \o normalize_breaks(<<LF>>)
      BY <3>1, ByteSeqs, Kinds, NormConcat
    <3>3. QED
      BY <1>2, <2>2, <3>2
  <2>3. QED
    BY <1>1, <2>1, <2>2
<1>4. QED
  BY <1>1, <1>3, Zenon

\* A line stays one line, and none becomes a terminator.
LEMMA NormLine ==
  ASSUME NEW l \in Seq(Bytes), IsLine(l)
  PROVE  /\ normalize_breaks(l) \in Seq(Bytes) /\ IsLine(normalize_breaks(l))
         /\ is_terminator(normalize_breaks(l)) => is_terminator(l)
<1>1. PICK u \in Seq(Bytes) :
        /\ \A i \in 1..Len(u) : u[i] # LF
        /\ l = u \o CRLF \/ (l = u \o <<LF>> /\ (Len(u) > 0 => u[Len(u)] # CR))
        /\ normalize_breaks(l) = u \o CRLF
  BY NormLineIs
<1>3. normalize_breaks(l) = u \o CRLF
  BY <1>1
<1> DEFINE s == u \o CRLF
           n == Len(u)
<1>a. Len(s) = n + 2 /\ n \in Nat
  BY AddCRLF
<1>4. /\ s \in Seq(Bytes) /\ Len(s) = n + 2 /\ n \in Nat
      /\ \A i \in 1..n : s[i] = u[i]
      /\ s[n + 1] = CR /\ s[n + 2] = LF
  BY AddCRLF
<1> HIDE DEF s, n
<1>5. IsLine(s)
  <2>1. ASSUME NEW j \in 1..Len(s) - 1 PROVE s[j] # LF
    <3>1. j \in 1..n \/ j = n + 1
      BY <1>a
    <3>2. \A i \in 1..n : s[i] # LF
      BY <1>1, <1>4, Zenon DEF n
    <3>3. QED
      BY <1>4, <3>1, <3>2, Kinds, Zenon
  <2>2. QED
    BY <1>4, <2>1 DEF IsLine
<1>6. ASSUME is_terminator(s) PROVE is_terminator(l)
  <2>1. \/ Len(s) = 2 /\ s[1] = DOT /\ s[2] = LF
        \/ Len(s) = 3 /\ s[1] = DOT /\ s[2] = CR /\ s[3] = LF
    BY <1>4, <1>6, TerminatorIs
  <2>0. (Len(s) = 2 => n = 0 /\ n + 1 = 1) /\ (Len(s) = 3 => n = 1 /\ 1 \in 1..n)
    BY <1>a
  <2>2. n = 1 /\ u[1] = DOT
    <3>1. CASE Len(s) = 2 /\ s[1] = DOT /\ s[2] = LF
      <4>1. n = 0 /\ n + 1 = 1
        BY <2>0, <3>1, Zenon
      <4>2. QED
        BY <1>4, <3>1, <4>1, Kinds
    <3>2. CASE Len(s) = 3 /\ s[1] = DOT
      <4>1. n = 1 /\ 1 \in 1..n
        BY <2>0, <3>2, Zenon
      <4>2. QED
        BY <1>4, <3>2, <4>1, Zenon
    <3>3. QED
      BY <2>1, <3>1, <3>2
  <2>3. CASE l = u \o CRLF
    BY <1>6, <2>3 DEF s
  <2>4. CASE l = u \o <<LF>>
    <3>1. Len(l) = 2 /\ l[1] = DOT /\ l[2] = LF
      <4>1. 1 \in 1..Len(u) /\ Len(u) + 1 = 2
        BY <2>2 DEF n
      <4>2. QED
        BY <2>2, <2>4, <4>1, Kinds, AddOne
    <3>2. QED
      BY <3>1, TerminatorIs
  <2>5. QED
    BY <1>1, <2>3, <2>4
<1>7. QED
  BY <1>3, <1>4, <1>5, <1>6 DEF s

\* Lines stay lines, and a text without a terminator stays without one.
LEMMA NormLines ==
  ASSUME NEW s \in Seq(Bytes), Whole(s)
  PROVE  /\ Whole(normalize_breaks(s))
         /\ NoLine(s, Terminators) => NoLine(normalize_breaks(s), Terminators)
<1> DEFINE G(t) == /\ t \in Seq(Bytes) /\ Whole(normalize_breaks(t))
                   /\ NoLine(t, Terminators) => NoLine(normalize_breaks(t), Terminators)
           T == {t \in Seq(Bytes) : G(t)}
<1>1. <<>> \in T
  <2>1. Whole(<<>>)
    BY DEF Whole
  <2>2. QED
    BY <2>1, ByteSeqs, NormEmpty, NoLineEmpty, Zenon
<1>2. ASSUME NEW a \in Seq(Bytes), NEW l \in Seq(Bytes), a \in T, Whole(a), IsLine(l)
      PROVE  a \o l \in T
  <2> DEFINE N == normalize_breaks(a)
             L == normalize_breaks(l)
  <2>1. ~Splits(a, l)
    BY <1>2, Kinds DEF Splits, Whole
  <2>2. normalize_breaks(a \o l) = N \o L
    BY <2>1, NormConcat
  <2>3. N \in Seq(Bytes) /\ L \in Seq(Bytes) /\ IsLine(L) /\ (is_terminator(L) => is_terminator(l))
    BY <1>2, NormType, NormLine
  <2>4. Whole(N) /\ (NoLine(a, Terminators) => NoLine(N, Terminators))
    BY <1>2
  <2> HIDE DEF N, L
  <2>5. Whole(L) /\ Len(L) > 0
    BY <2>3 DEF Whole, IsLine
  <2>6. Whole(N \o L)
    BY <2>3, <2>5, WholeConcat
  <2>7. ASSUME NoLine(a \o l, Terminators) PROVE NoLine(N \o L, Terminators)
    <3>1. NoLine(a, Terminators) /\ NoLine(l, Terminators)
      BY <1>2, <2>7, NoLineConcat
    <3>2. L \notin Terminators
      BY <1>2, <2>3, <3>1, NoLineOne, TerminatorIs
    <3>3. NoLine(N, Terminators) /\ NoLine(L, Terminators)
      BY <2>3, <2>4, <3>1, <3>2, NoLineOne
    <3>4. QED
      BY <2>3, <2>4, <3>3, NoLineConcat
  <2>8. a \o l \in Seq(Bytes)
    BY <1>2
  <2>9. QED
    BY <2>2, <2>6, <2>7, <2>8, Zenon
<1>3. \A t \in Seq(Bytes) : Whole(t) => t \in T
  <2> HIDE DEF T
  <2>1. QED
    BY <1>1, <1>2, LineInduction
<1>4. QED
  BY <1>3

-----------------------------------------------------------------------------
(* A buffer that holds a stretch of the input *)

LEMMA SubOfSub ==
  ASSUME NEW S, NEW s \in Seq(S), NEW p \in 0..Len(s), NEW c \in 0..p,
         NEW i \in 1..(p - c) + 1, NEW j \in i - 1..p - c
  PROVE  SubSeq(SubSeq(s, c + 1, p), i, j) = SubSeq(s, c + i, c + j)
<1> DEFINE b == SubSeq(s, c + 1, p)
           x == SubSeq(b, i, j)
           y == SubSeq(s, c + i, c + j)
<1>1. Len(s) \in Nat /\ p \in Nat /\ c \in Nat /\ i \in Nat /\ j \in Nat
  OBVIOUS
<1>2. b \in Seq(S) /\ Len(b) = p - c /\ \A k \in 1..p - c : b[k] = s[c + k]
  <2>1. c + 1 \in 1..Len(s) + 1 /\ p \in (c + 1) - 1..Len(s) /\ p - (c + 1) + 1 = p - c
    BY <1>1
  <2>2. /\ b \in Seq(S) /\ Len(b) = p - (c + 1) + 1
        /\ \A k \in 1..p - (c + 1) + 1 : b[k] = s[c + 1 + k - 1]
    BY <2>1, SubSeqAt
  <2>3. \A k \in 1..p - c : c + 1 + k - 1 = c + k
    BY <1>1
  <2>4. QED
    BY <2>1, <2>2, <2>3
<1> HIDE DEF b
<1>3. /\ x \in Seq(S) /\ Len(x) = j - i + 1
      /\ \A k \in 1..j - i + 1 : x[k] = b[i + k - 1]
  <2>1. i \in 1..Len(b) + 1 /\ j \in i - 1..Len(b)
    BY <1>2
  <2>2. QED
    BY <1>2, <2>1, SubSeqAt
<1>4. /\ y \in Seq(S) /\ Len(y) = j - i + 1
      /\ \A k \in 1..j - i + 1 : y[k] = s[c + i + k - 1]
  <2>1. c + i \in 1..Len(s) + 1 /\ c + j \in (c + i) - 1..Len(s) /\ (c + j) - (c + i) + 1 = j - i + 1
    BY <1>1
  <2>2. /\ y \in Seq(S) /\ Len(y) = (c + j) - (c + i) + 1
        /\ \A k \in 1..(c + j) - (c + i) + 1 : y[k] = s[c + i + k - 1]
    BY <2>1, SubSeqAt
  <2>3. QED
    BY <2>1, <2>2
<1> HIDE DEF x, y
<1>5. ASSUME NEW k \in 1..j - i + 1 PROVE x[k] = y[k]
  <2>1. i + k - 1 \in 1..p - c /\ c + (i + k - 1) = c + i + k - 1
    BY <1>1
  <2>2. b[i + k - 1] = s[c + (i + k - 1)]
    BY <1>2, <2>1, Zenon
  <2>3. x[k] = b[i + k - 1] /\ y[k] = s[c + i + k - 1]
    BY <1>3, <1>4, Zenon
  <2>4. QED
    BY <2>1, <2>2, <2>3, Zenon
<1>6. x = y
  BY <1>3, <1>4, <1>5, SeqEqual
<1>7. QED
  BY <1>6 DEF x, y, b

LEMMA Stretch ==
  ASSUME NEW S, NEW s \in Seq(S), NEW p \in 0..Len(s), NEW c \in 0..p
  PROVE  /\ SubSeq(s, c + 1, p) \in Seq(S) /\ Len(SubSeq(s, c + 1, p)) = p - c
         /\ \A k \in 1..p - c : SubSeq(s, c + 1, p)[k] = s[c + k]
<1> DEFINE b == SubSeq(s, c + 1, p)
<1>1. Len(s) \in Nat /\ p \in Nat /\ c \in Nat
  OBVIOUS
<1>2. c + 1 \in 1..Len(s) + 1 /\ p \in (c + 1) - 1..Len(s) /\ p - (c + 1) + 1 = p - c
  BY <1>1
<1>3. /\ b \in Seq(S) /\ Len(b) = p - (c + 1) + 1
      /\ \A k \in 1..p - (c + 1) + 1 : b[k] = s[c + 1 + k - 1]
  BY <1>2, SubSeqAt
<1>4. \A k \in 1..p - c : c + 1 + k - 1 = c + k
  BY <1>1
<1>5. QED
  BY <1>2, <1>3, <1>4

\* take_line takes the line that begins where the buffer does: e is its end.
Takes(s, p, c, b, e) ==
  /\ c + 1 \in 1..Len(s) /\ e \in c + 1..p /\ s[e] = LF
  /\ \A j \in c + 1..e - 1 : s[j] # LF
  /\ FirstLine(b) = LineAt(s, c + 1) /\ FirstLine(b) = SubSeq(s, c + 1, e)
  /\ FirstLine(b) \in Seq(Bytes) /\ IsLine(FirstLine(b)) /\ Len(FirstLine(b)) = e - c
  /\ AfterLine(b) = SubSeq(s, e + 1, p) /\ Len(AfterLine(b)) = p - e
  /\ AfterLine(b) \in Seq(Bytes)

LEMMA TakenLine ==
  ASSUME NEW s \in Seq(Bytes), NEW p \in 0..Len(s), NEW c \in 0..p,
         NEW b, b = SubSeq(s, c + 1, p), HasLine(b), NEW e, e = LineEnd(s, c + 1)
  PROVE  Takes(s, p, c, b, e)
<1>1. Len(s) \in Nat /\ p \in Nat /\ c \in Nat
  OBVIOUS
<1>2. b \in Seq(Bytes) /\ Len(b) = p - c /\ \A k \in 1..p - c : b[k] = s[c + k]
  BY Stretch
<1>3. PICK k \in 1..p - c : b[k] = LF
  BY <1>2 DEF HasLine, Contains
<1>4. c + 1 \in 1..Len(s) /\ c + k \in c + 1..p /\ s[c + k] = LF
  BY <1>1, <1>2, <1>3
<1>5. e \in c + 1..Len(s) /\ (\A j \in c + 1..e - 1 : s[j] # LF) /\ (s[e] = LF \/ e = Len(s))
  BY <1>4, LineEndIs DEF EndsAt
<1>6. e <= c + k
  <2>1. SUFFICES ASSUME ~(e <= c + k) PROVE FALSE
    OBVIOUS
  <2>2. c + k \in c + 1..e - 1
    BY <1>1, <1>4, <1>5, <2>1
  <2>3. QED
    BY <1>4, <1>5, <2>2
<1>7. e \in c + 1..p /\ s[e] = LF
  <2>1. e \in c + 1..p
    BY <1>1, <1>4, <1>5, <1>6
  <2>2. e = Len(s) => e = c + k
    BY <1>1, <1>4, <1>5, <1>6
  <2>3. QED
    BY <1>4, <1>5, <2>1, <2>2
<1>8. PICK d \in 1..p - c : e = c + d
  <2>1. e - c \in 1..p - c /\ e = c + (e - c)
    BY <1>1, <1>7, SMTT(30)
  <2>2. QED
    BY <2>1
<1>9. LineEnd(b, 1) = d
  <2>1. \A j \in 1..d - 1 : j \in 1..p - c /\ c + j \in c + 1..e - 1
    BY <1>1, <1>8
  <2>2. b[d] = LF /\ \A j \in 1..d - 1 : b[j] # LF
    BY <1>2, <1>5, <1>7, <1>8, <2>1
  <2>3. EndsAt(b, 1, d)
    BY <1>2, <1>8, <2>2 DEF EndsAt
  <2>4. 1 \in 1..Len(b)
    BY <1>2, <1>8
  <2>5. QED
    BY <1>2, <2>3, <2>4, LineEndUnique
<1>10. FirstLine(b) = SubSeq(s, c + 1, e)
  <2>1. 1 \in 1..(p - c) + 1 /\ d \in 1 - 1..p - c
    BY <1>1, <1>8
  <2>2. SubSeq(SubSeq(s, c + 1, p), 1, d) = SubSeq(s, c + 1, c + d)
    BY <2>1, SubOfSub
  <2>3. QED
    BY <1>8, <1>9, <2>2 DEF FirstLine, LineAt
<1>11. AfterLine(b) = SubSeq(s, e + 1, p)
  <2>1. d + 1 \in 1..(p - c) + 1 /\ p - c \in (d + 1) - 1..p - c /\ c + (d + 1) = e + 1 /\ c + (p - c) = p
    BY <1>1, <1>8, SMTT(30)
  <2>2. SubSeq(SubSeq(s, c + 1, p), d + 1, p - c) = SubSeq(s, c + (d + 1), c + (p - c))
    BY <2>1, SubOfSub
  <2>3. QED
    BY <1>2, <1>9, <2>1, <2>2 DEF AfterLine
<1>12. FirstLine(b) = LineAt(s, c + 1)
  BY <1>10 DEF LineAt
<1>13. AfterLine(b) \in Seq(Bytes) /\ Len(AfterLine(b)) = p - e
  <2>1. e \in 0..p
    BY <1>1, <1>7
  <2>2. QED
    BY <1>11, <2>1, Stretch
<1>14. FirstLine(b) \in Seq(Bytes) /\ Len(FirstLine(b)) = e - c /\ IsLine(FirstLine(b))
  <2> DEFINE l == SubSeq(s, c + 1, e)
  <2>1. e \in 0..Len(s) /\ c \in 0..e /\ e - c = d
    BY <1>1, <1>5, <1>7, <1>8
  <2>2. l \in Seq(Bytes) /\ Len(l) = e - c /\ \A i \in 1..e - c : l[i] = s[c + i]
    BY <2>1, Stretch
  <2> HIDE DEF l
  <2>3. e - c \in 1..e - c /\ c + (e - c) = e /\ e - c > 0
    BY <1>1, <1>7
  <2>4. l[Len(l)] = LF
    BY <1>7, <2>2, <2>3
  <2>5. \A j \in 1..e - c - 1 : j \in 1..e - c /\ c + j \in c + 1..e - 1
    BY <1>1, <1>7
  <2>6. \A j \in 1..e - c - 1 : l[j] # LF
    BY <1>5, <2>2, <2>5
  <2>7. IsLine(l)
    BY <2>2, <2>3, <2>4, <2>6 DEF IsLine
  <2>8. QED
    BY <1>10, <2>2, <2>7 DEF l
<1>15. QED
  BY <1>4, <1>5, <1>7, <1>10, <1>11, <1>12, <1>13, <1>14 DEF Takes

LEMMA NoLineYet ==
  ASSUME NEW s \in Seq(Bytes), NEW p \in 0..Len(s), NEW c \in 0..p,
         ~HasLine(SubSeq(s, c + 1, p))
  PROVE  \A j \in c + 1..p : s[j] # LF
<1>1. Len(s) \in Nat /\ p \in Nat /\ c \in Nat
  OBVIOUS
<1>2. TAKE j \in c + 1..p
<1>3. j - c \in 1..p - c /\ c + (j - c) = j
  BY <1>1
<1>4. Len(SubSeq(s, c + 1, p)) = p - c /\ SubSeq(s, c + 1, p)[j - c] = s[j]
  BY <1>3, Stretch
<1>5. QED
  BY <1>3, <1>4 DEF HasLine, Contains

-----------------------------------------------------------------------------
(* Headers: what the operators of proxy.rs return *)

Header == [name : Seq(Bytes), value : Seq(Bytes)]
ApiHeader == [name : Seq(Bytes), value : Seq(Bytes) \cup {Null}]

\* The end of a header line: behind its beginning, before the next one's.
HeaderEndsAt(s, i, cont, e) ==
  /\ e \in i..Len(s)
  /\ \A j \in i + 1..e : ~HeaderBegins(s, j, cont)
  /\ e = Len(s) \/ HeaderBegins(s, e + 1, cont)

LEMMA HeaderEndIs ==
  ASSUME NEW s \in Seq(Bytes), NEW cont, NEW i \in 1..Len(s)
  PROVE  HeaderEndsAt(s, i, cont, HeaderEnd(s, i, cont))
<1> DEFINE next == {j \in i + 1..Len(s) : HeaderBegins(s, j, cont)}
<1>1. Len(s) \in Nat /\ i \in Nat
  OBVIOUS
<1>2. CASE next = {}
  <2>1. HeaderEnd(s, i, cont) = Len(s)
    BY <1>2, Zenon DEF HeaderEnd
  <2>2. \A j \in i + 1..Len(s) : ~HeaderBegins(s, j, cont)
    BY <1>2
  <2>3. QED
    BY <1>1, <2>1, <2>2 DEF HeaderEndsAt
<1>3. CASE next # {}
  <2>1. HeaderEnd(s, i, cont) = Min(next) - 1
    BY <1>3, Zenon DEF HeaderEnd
  <2>2. next \subseteq Nat
    BY <1>1
  <2>3. Min(next) \in next /\ \A y \in next : Min(next) <= y
    <3> HIDE DEF next
    <3>1. QED
      BY <1>3, <2>2, MinOf
  <2>4. PICK m : m = Min(next)
    OBVIOUS
  <2>5. /\ m \in i + 1..Len(s) /\ HeaderBegins(s, m, cont)
        /\ \A y \in i + 1..Len(s) : HeaderBegins(s, y, cont) => m <= y
    BY <2>3, <2>4
  <2>6. \A j \in i + 1..m - 1 : j \in i + 1..Len(s) /\ ~(m <= j)
    BY <1>1, <2>5
  <2>7. m - 1 \in i..Len(s) /\ (m - 1) + 1 = m
    BY <1>1, <2>5
  <2>8. HeaderEndsAt(s, i, cont, m - 1)
    BY <2>5, <2>6, <2>7 DEF HeaderEndsAt
  <2>9. QED
    BY <2>1, <2>4, <2>8, Zenon
<1>4. QED
  BY <1>2, <1>3

LEMMA HeaderEndUnique ==
  ASSUME NEW s \in Seq(Bytes), NEW cont, NEW i \in 1..Len(s), NEW e, HeaderEndsAt(s, i, cont, e)
  PROVE  HeaderEnd(s, i, cont) = e
<1>1. Len(s) \in Nat /\ i \in Nat
  OBVIOUS
<1>2. PICK d : d = HeaderEnd(s, i, cont)
  OBVIOUS
<1>3. HeaderEndsAt(s, i, cont, d)
  BY <1>2, HeaderEndIs
<1>4. e \in i..Len(s) /\ d \in i..Len(s)
  BY <1>3 DEF HeaderEndsAt
<1>5. ~(d < e)
  <2>1. SUFFICES ASSUME d < e PROVE FALSE
    OBVIOUS
  <2>2. d + 1 \in i + 1..e /\ d # Len(s)
    BY <1>1, <1>4, <2>1
  <2>3. QED
    BY <1>3, <2>2 DEF HeaderEndsAt
<1>6. ~(e < d)
  <2>1. SUFFICES ASSUME e < d PROVE FALSE
    OBVIOUS
  <2>2. e + 1 \in i + 1..d /\ e # Len(s)
    BY <1>1, <1>4, <2>1
  <2>3. QED
    BY <1>3, <2>2 DEF HeaderEndsAt
<1>7. QED
  BY <1>1, <1>2, <1>4, <1>5, <1>6

LEMMA UnfoldType ==
  ASSUME NEW s \in Seq(Bytes), NEW cont
  PROVE  Unfold(s, cont) \in Seq(Seq(Bytes))
<1> DEFINE f == [i \in DOMAIN s |-> SubSeq(s, i, HeaderEnd(s, i, cont))]
<1>1. Len(s) \in Nat /\ DOMAIN s = 1..Len(s)
  OBVIOUS
<1>2. ASSUME NEW i \in 1..Len(s) PROVE SubSeq(s, i, HeaderEnd(s, i, cont)) \in Seq(Bytes)
  <2>1. HeaderEnd(s, i, cont) \in i..Len(s)
    BY HeaderEndIs DEF HeaderEndsAt
  <2>2. i \in 1..Len(s) + 1 /\ HeaderEnd(s, i, cont) \in i - 1..Len(s)
    BY <1>1, <2>1
  <2>3. QED
    BY <2>2, SubSeqAt
<1>3. f \in [1..Len(s) -> Seq(Bytes)]
  BY <1>1, <1>2
<1> HIDE DEF f
<1>4. f \in Seq(Seq(Bytes))
  BY <1>1, <1>3, SeqOfFunction
<1>5. QED
  BY <1>4, PickedType, Zenon DEF Unfold, f

LEMMA TrimIs ==
  ASSUME NEW s \in Seq(Bytes)
  PROVE  \E k \in 0..Len(s) :
           /\ trim_end_breaks(s) = SubSeq(s, 1, k)
           /\ k > 0 => s[k] \notin {CR, LF}
           /\ \A j \in k + 1..Len(s) : s[j] \in {CR, LF}
<1> DEFINE I == {i \in 1..Len(s) : s[i] \notin {CR, LF}}
           k == IF I # {} THEN Max(I) ELSE 0
<1>1. Len(s) \in Nat
  OBVIOUS
<1>2. trim_end_breaks(s) = SubSeq(s, 1, k)
  BY Zenon DEF trim_end_breaks, SelectLastInSeq
<1>3. CASE I = {}
  <2>1. k = 0
    BY <1>3
  <2>2. \A j \in 1..Len(s) : s[j] \in {CR, LF}
    BY <1>3
  <2> HIDE DEF I, k
  <2>3. QED
    BY <1>1, <1>2, <2>1, <2>2
<1>4. CASE I # {}
  <2>1. I \subseteq 0..Len(s)
    BY <1>1
  <2>2. Max(I) \in I /\ \A y \in I : Max(I) >= y
    <3> HIDE DEF I
    <3>1. QED
      BY <1>1, <1>4, <2>1, MaxOf
  <2>3. k = Max(I)
    BY <1>4
  <2>4. PICK m : m = k
    OBVIOUS
  <2>5. m \in 1..Len(s) /\ s[m] \notin {CR, LF} /\ \A y \in 1..Len(s) : s[y] \notin {CR, LF} => m >= y
    BY <2>2, <2>3, <2>4
  <2>6. \A j \in m + 1..Len(s) : j \in 1..Len(s) /\ ~(m >= j)
    BY <1>1, <2>5
  <2>7. \A j \in m + 1..Len(s) : s[j] \in {CR, LF}
    BY <2>5, <2>6
  <2> HIDE DEF I, k
  <2>8. m \in 0..Len(s)
    BY <2>5
  <2>9. QED
    BY <1>2, <2>4, <2>5, <2>7, <2>8, Zenon
<1>5. QED
  BY <1>3, <1>4

LEMMA TrimType ==
  ASSUME NEW s \in Seq(Bytes)
  PROVE  trim_end_breaks(s) \in Seq(Bytes)
BY TrimIs, PrefixAt

LEMMA FirstColonIs ==
  ASSUME NEW s \in Seq(Bytes)
  PROVE  /\ FirstColon(s) \in 0..Len(s)
         /\ FirstColon(s) = 0 => \A j \in 1..Len(s) : s[j] # COLON
         /\ FirstColon(s) # 0 => /\ s[FirstColon(s)] = COLON
                                 /\ \A j \in 1..FirstColon(s) - 1 : s[j] # COLON
<1> DEFINE I == {i \in 1..Len(s) : s[i] = COLON}
<1>1. Len(s) \in Nat
  OBVIOUS
<1>2. FirstColon(s) = IF I # {} THEN Min(I) ELSE 0
  BY Zenon DEF FirstColon, SelectInSeq
<1>3. CASE I = {}
  <2>1. FirstColon(s) = 0
    BY <1>2, <1>3
  <2>2. \A j \in 1..Len(s) : s[j] # COLON
    BY <1>3
  <2>3. QED
    BY <1>1, <2>1, <2>2
<1>4. CASE I # {}
  <2>1. I \subseteq Nat
    BY <1>1
  <2>2. Min(I) \in I /\ \A y \in I : Min(I) <= y
    <3> HIDE DEF I
    <3>1. QED
      BY <1>4, <2>1, MinOf
  <2>3. FirstColon(s) = Min(I)
    BY <1>2, <1>4
  <2>4. PICK m : m = FirstColon(s)
    OBVIOUS
  <2>5. m \in 1..Len(s) /\ s[m] = COLON /\ \A y \in 1..Len(s) : s[y] = COLON => m <= y
    BY <2>2, <2>3, <2>4
  <2>6. \A j \in 1..m - 1 : j \in 1..Len(s) /\ ~(m <= j)
    BY <1>1, <2>5
  <2>7. m \in 0..Len(s) /\ m # 0 /\ \A j \in 1..m - 1 : s[j] # COLON
    BY <2>5, <2>6
  <2>8. QED
    BY <2>4, <2>5, <2>7, Zenon
<1>5. QED
  BY <1>3, <1>4

LEMMA PerlValueType ==
  ASSUME NEW s \in Seq(Bytes), Len(s) > 0
  PROVE  perl_header_value(s) \in Seq(Bytes)
<1> DEFINE I == {i \in 1..Len(s) : ~is_perl_space(s[i])}
<1>1. Len(s) \in Nat
  OBVIOUS
<1>2. perl_header_value(s) =
        LET i == IF I # {} THEN Min(I) ELSE 0
        IN  IF i > 0 THEN SubSeq(s, i, Len(s)) ELSE <<Last(s)>>
  BY Zenon DEF perl_header_value, SelectInSeq
<1>3. CASE I = {}
  <2>1. perl_header_value(s) = <<Last(s)>>
    BY <1>2, <1>3
  <2>2. Last(s) \in Bytes
    BY <1>1 DEF Last
  <2>3. QED
    BY <2>1, <2>2, ByteSeqs
<1>4. CASE I # {}
  <2>1. I \subseteq Nat
    BY <1>1
  <2>2. Min(I) \in I
    <3> HIDE DEF I
    <3>1. QED
      BY <1>4, <2>1, MinOf
  <2>3. PICK m : m = Min(I)
    OBVIOUS
  <2>4. m \in 1..Len(s)
    BY <2>2, <2>3
  <2>5. m > 0 /\ m \in 1..Len(s) + 1 /\ Len(s) \in m - 1..Len(s)
    BY <1>1, <2>4
  <2>6. perl_header_value(s) = SubSeq(s, m, Len(s))
    <3> HIDE DEF I
    <3>1. QED
      BY <1>2, <1>4, <2>3, <2>5, Zenon
  <2>7. QED
    BY <2>5, <2>6, SubSeqAt
<1>5. QED
  BY <1>3, <1>4

LEMMA ParsedType ==
  ASSUME NEW l \in Seq(Bytes), parses(l)
  PROVE  Parsed(l) \in Header
<1>1. PICK k : k = FirstColon(l)
  OBVIOUS
<1>2. Len(l) \in Nat /\ k \in 2..Len(l) - 1
  BY <1>1, FirstColonIs DEF parses
<1>3. SubSeq(l, 1, k - 1) \in Seq(Bytes)
  <2>1. k - 1 \in 0..Len(l)
    BY <1>2
  <2>2. QED
    BY <2>1, PrefixAt
<1>4. SubSeq(l, k + 1, Len(l)) \in Seq(Bytes) /\ Len(SubSeq(l, k + 1, Len(l))) > 0
  <2>1. Len(l) \in 0..Len(l) /\ k \in 0..Len(l) /\ Len(l) - k > 0
    BY <1>2
  <2>2. QED
    BY <2>1, Stretch
<1>5. perl_header_value(SubSeq(l, k + 1, Len(l))) \in Seq(Bytes)
  BY <1>4, PerlValueType
<1>6. QED
  BY <1>1, <1>3, <1>5 DEF Parsed, Header

\* The elements Picked leaves are elements there are at the positions.
LEMMA PickedElements ==
  ASSUME NEW S, NEW s \in Seq(S), NEW P, NEW R, \A i \in 1..Len(s) : i \in P => s[i] \in R
  PROVE  Picked(s, P) \in Seq(R)
<1> DEFINE f == [i \in DOMAIN s |-> IF i \in P THEN <<s[i]>> ELSE <<>>]
<1>1. f \in Seq(Seq(R))
  <2>1. \A i \in 1..Len(s) : (IF i \in P THEN <<s[i]>> ELSE <<>>) \in Seq(R)
    BY EmptySeq
  <2>2. f \in [1..Len(s) -> Seq(R)] /\ Len(s) \in Nat
    BY <2>1
  <2> HIDE DEF f
  <2>3. QED
    BY <2>2, SeqOfFunction
<1>2. FlattenSeq(f) \in Seq(R)
  BY <1>1, FlatType
<1>3. QED
  BY <1>2 DEF Picked

LEMMA ParseType ==
  ASSUME NEW block \in Seq(Bytes)
  PROVE  parse_headers(block) \in Seq(Header)
<1> DEFINE H == HeaderLines(block)
           lines == [i \in DOMAIN H |-> trim_end_breaks(H[i])]
           P == {i \in DOMAIN lines : parses(lines[i])}
           good == Picked(lines, P)
           R == {l \in Seq(Bytes) : parses(l)}
<1>1. H \in Seq(Seq(Bytes))
  BY UnfoldType DEF HeaderLines
<1>2. parse_headers(block) = [i \in DOMAIN good |-> Parsed(good[i])]
  BY Zenon DEF parse_headers
<1> HIDE DEF H
<1>3. lines \in Seq(Seq(Bytes))
  <2>1. \A i \in 1..Len(H) : H[i] \in Seq(Bytes)
    BY <1>1
  <2>2. \A i \in 1..Len(H) : trim_end_breaks(H[i]) \in Seq(Bytes)
    BY <2>1, TrimType
  <2>3. DOMAIN H = 1..Len(H) /\ Len(H) \in Nat
    BY <1>1
  <2>4. lines \in [1..Len(H) -> Seq(Bytes)]
    BY <2>2, <2>3
  <2> HIDE DEF lines
  <2>5. QED
    BY <2>3, <2>4, SeqOfFunction
<1>4. good \in Seq(R)
  <2>1. \A i \in 1..Len(lines) : i \in P => lines[i] \in R
    <3>1. \A i \in 1..Len(lines) : lines[i] \in Seq(Bytes)
      BY <1>3
    <3> HIDE DEF lines
    <3>2. QED
      BY <3>1
  <2> HIDE DEF lines, P, R
  <2>2. QED
    BY <1>3, <2>1, PickedElements
<1> HIDE DEF good
<1>5. [i \in DOMAIN good |-> Parsed(good[i])] \in Seq(Header)
  <2>1. DOMAIN good = 1..Len(good) /\ Len(good) \in Nat /\ \A i \in 1..Len(good) : good[i] \in R
    BY <1>4
  <2>2. \A i \in 1..Len(good) : Parsed(good[i]) \in Header
    BY <2>1, ParsedType
  <2>3. [i \in DOMAIN good |-> Parsed(good[i])] \in [1..Len(good) -> Header]
    BY <2>1, <2>2
  <2>4. QED
    BY <2>1, <2>3, SeqOfFunction
<1>6. QED
  BY <1>2, <1>5

LEMMA MergeType ==
  ASSUME NEW old \in Seq(Header), NEW new \in Seq(ApiHeader)
  PROVE  merge_headers(old, new) \in Seq(Header)
<1> DEFINE P == {i \in DOMAIN old : ~Named(new, old[i])}
           Q == {i \in DOMAIN new : new[i].value # Null}
<1>1. Picked(old, P) \in Seq(Header)
  BY PickedType
<1>2. Picked(new, Q) \in Seq(Header)
  <2>1. ASSUME NEW i \in 1..Len(new), i \in Q PROVE new[i] \in Header
    <3>1. new[i] \in ApiHeader
      OBVIOUS
    <3>2. new[i].value # Null
      BY <2>1
    <3>3. PICK h : h = new[i]
      OBVIOUS
    <3>4. h \in [name : Seq(Bytes), value : Seq(Bytes)]
      BY <3>1, <3>2, <3>3 DEF ApiHeader
    <3>5. QED
      BY <3>3, <3>4 DEF Header
  <2> HIDE DEF Q
  <2>2. QED
    BY <2>1, PickedElements
<1>3. QED
  BY <1>1, <1>2, ConcatProperties DEF merge_headers

LEMMA WrittenType ==
  ASSUME NEW h \in Header
  PROVE  Written(h) \in Seq(Bytes)
<1>1. h.name \in Seq(Bytes) /\ h.value \in Seq(Bytes)
  BY DEF Header
<1>2. <<COLON, SP>> \in Seq(Bytes) /\ CRLF \in Seq(Bytes)
  BY Kinds, ByteSeqs
<1>3. QED
  BY <1>1, <1>2 DEF Written

\* The headers as they are written, one after the other.
AllWritten(hs) == FlattenSeq([i \in DOMAIN hs |-> Written(hs[i])])

LEMMA AllWrittenSeq ==
  ASSUME NEW hs \in Seq(Header)
  PROVE  /\ [i \in DOMAIN hs |-> Written(hs[i])] \in Seq(Seq(Bytes))
         /\ Len([i \in DOMAIN hs |-> Written(hs[i])]) = Len(hs)
         /\ AllWritten(hs) \in Seq(Bytes)
<1> DEFINE f == [i \in DOMAIN hs |-> Written(hs[i])]
<1>1. DOMAIN hs = 1..Len(hs) /\ Len(hs) \in Nat /\ \A i \in 1..Len(hs) : hs[i] \in Header
  OBVIOUS
<1>2. f \in [1..Len(hs) -> Seq(Bytes)]
  BY <1>1, WrittenType
<1> HIDE DEF f
<1>3. f \in Seq(Seq(Bytes)) /\ Len(f) = Len(hs)
  BY <1>1, <1>2, SeqOfFunction
<1>4. FlattenSeq(f) \in Seq(Bytes)
  BY <1>3, FlatType
<1>5. QED
  BY <1>3, <1>4 DEF AllWritten, f

LEMMA HeaderBlockType ==
  ASSUME NEW hs \in Seq(Header)
  PROVE  header_block(hs) \in Seq(Bytes)
<1>1. AllWritten(hs) \o CRLF \in Seq(Bytes)
  BY AllWrittenSeq, AddCRLF
<1>2. dot_stuff(normalize_breaks(AllWritten(hs) \o CRLF)) \in Seq(Bytes)
  BY <1>1, NormType, DotType
<1>3. QED
  BY <1>2 DEF header_block, AllWritten

-----------------------------------------------------------------------------
(* What dot_stuff makes of lines *)

\* A line, or a stretch of one, gets a dot if it begins with one.
LEMMA DotLine ==
  ASSUME NEW l \in Seq(Bytes), Len(l) > 0, \A j \in 1..Len(l) - 1 : l[j] # LF
  PROVE  dot_stuff(l) = IF l[1] = DOT THEN <<DOT>> \o l ELSE l
<1> DEFINE x == l[1]
           r == Tail(l)
           e == IF x = DOT THEN <<DOT, DOT>> ELSE <<x>>
           F == [i \in DOMAIN l |-> Dotted(l, i)]
           Q == [i \in DOMAIN r |-> IF i \in DOMAIN r THEN <<r[i]>> ELSE <<>>]
<1>1. /\ Len(l) \in Nat /\ x \in Bytes /\ r \in Seq(Bytes) /\ Len(r) = Len(l) - 1
      /\ \A i \in 1..Len(l) - 1 : r[i] = l[1 + i]
      /\ DOMAIN l = 1..Len(l) /\ DOMAIN r = 1..Len(l) - 1 /\ \A i \in 1..Len(l) : l[i] \in Bytes
  OBVIOUS
<1>2. l = <<x>> \o r
  OBVIOUS
<1>3. e \in Seq(Bytes) /\ <<x>> \in Seq(Bytes) /\ <<DOT>> \in Seq(Bytes)
  BY <1>1, ByteSeqs, Kinds
<1> HIDE DEF x, r
<1>4. F[1] = e
  <2>1. LineBegins(l, 1) /\ 1 \in DOMAIN l
    BY <1>1 DEF LineBegins
  <2>2. F[1] = Dotted(l, 1)
    BY <2>1
  <2>3. Dotted(l, 1) = e
    BY <2>1, Zenon DEF Dotted, x
  <2>4. QED
    BY <2>2, <2>3
<1>5. ASSUME NEW i \in 1..Len(l) - 1 PROVE F[1 + i] = Q[i]
  <2>1. 1 + i \in 1..Len(l) /\ 1 + i # 1 /\ (1 + i) - 1 = i
    BY <1>1
  <2>2. ~LineBegins(l, 1 + i)
    BY <2>1 DEF LineBegins
  <2>3. F[1 + i] = Dotted(l, 1 + i)
    BY <1>1, <2>1
  <2>4. Dotted(l, 1 + i) = <<l[1 + i]>>
    BY <2>2, Zenon DEF Dotted
  <2>5. Q[i] = <<r[i]>>
    BY <1>1
  <2>6. r[i] = l[1 + i]
    BY <1>1
  <2>7. QED
    BY <2>3, <2>4, <2>5, <2>6
<1>6. F \in Seq(Seq(Bytes)) /\ Len(F) = Len(l)
  <2>1. \A i \in 1..Len(l) : Dotted(l, i) \in Seq(Bytes)
    BY <1>1, ByteSeqs, Zenon DEF Dotted
  <2>2. F \in [1..Len(l) -> Seq(Bytes)]
    BY <1>1, <2>1
  <2> HIDE DEF F
  <2>3. QED
    BY <1>1, <2>2, SeqOfFunction
<1>7. Q \in Seq(Seq(Bytes)) /\ Len(Q) = Len(l) - 1
  <2>1. \A i \in 1..Len(l) - 1 : <<r[i]>> \in Seq(Bytes)
    BY <1>1, ByteSeqs
  <2>2. Q \in [1..Len(l) - 1 -> Seq(Bytes)]
    BY <1>1, <2>1
  <2> HIDE DEF Q
  <2>3. Len(l) - 1 \in Nat
    BY <1>1
  <2>4. QED
    BY <2>2, <2>3, SeqOfFunction
<1>8. PICK p \in Seq(Seq(Bytes)) : p = <<e>> /\ Len(p) = 1 /\ p[1] = e
  <2>1. ASSUME NEW y \in Seq(Bytes)
        PROVE  \E p \in Seq(Seq(Bytes)) : p = <<y>> /\ Len(p) = 1 /\ p[1] = y
    <3>1. <<y>> \in Seq(Seq(Bytes)) /\ Len(<<y>>) = 1 /\ <<y>>[1] = y
      OBVIOUS
    <3>2. QED
      BY <3>1, Zenon
  <2> HIDE DEF e
  <2>2. QED
    BY <1>3, <2>1, Zenon
<1> HIDE DEF F, Q, e
<1>9. F = p \o Q
  <2>1. Len(F) = Len(p) + Len(Q) /\ \A i \in 1..1 : i = 1
    BY <1>1, <1>6, <1>7, <1>8
  <2>2. Joins(p, Q, F)
    BY <1>4, <1>5, <1>7, <1>8, <2>1 DEF Joins
  <2>3. QED
    BY <1>6, <1>7, <2>2, JoinsConcat
<1>10. FlattenSeq(F) = FlattenSeq(p) \o FlattenSeq(Q)
  BY <1>7, <1>9, FlatConcat
<1>11. FlattenSeq(p) = e
  BY <1>3, <1>8, FlatOne
<1>12. FlattenSeq(Q) = r
  <2>1. FlattenSeq(Q) = Picked(r, DOMAIN r)
    BY DEF Picked, Q
  <2>2. \A i \in 1..Len(r) : i \in DOMAIN r
    BY <1>1
  <2>3. QED
    BY <1>1, <2>1, <2>2, PickedAll
<1>13. dot_stuff(l) = FlattenSeq(F)
  BY Zenon DEF dot_stuff, F, Dotted
<1>14. dot_stuff(l) = e \o r
  BY <1>10, <1>11, <1>12, <1>13
<1>15. CASE x = DOT
  <2>1. PICK d \in Seq(Bytes) : d = <<DOT>>
    BY <1>3
  <2>2. <<DOT, DOT>> = <<DOT>> \o <<DOT>>
    OBVIOUS
  <2>3. dot_stuff(l) = (d \o d) \o r
    BY <1>14, <1>15, <2>1, <2>2 DEF e
  <2>4. l = d \o r
    BY <1>2, <1>15, <2>1
  <2>5. (d \o d) \o r = d \o (d \o r)
    BY <1>1, <2>1
  <2>6. QED
    BY <1>15, <2>1, <2>3, <2>4, <2>5 DEF x
<1>16. CASE x # DOT
  BY <1>2, <1>14, <1>16 DEF e, x
<1>17. QED
  BY <1>15, <1>16

\* A line that is stuffed is a line.
LEMMA StuffedLine ==
  ASSUME NEW l \in Seq(Bytes), IsLine(l)
  PROVE  \E L \in Seq(Bytes) :
           /\ L = dot_stuff(l) /\ L = IF l[1] = DOT THEN <<DOT>> \o l ELSE l
           /\ IsLine(L) /\ L[1] = l[1] /\ (l[1] = DOT => Len(L) > 1 /\ L[2] = DOT)
<1> DEFINE L == dot_stuff(l)
<1>1. L = IF l[1] = DOT THEN <<DOT>> \o l ELSE l
  BY DotLine DEF IsLine
<1>2. l[1] \in Bytes /\ Len(l) \in Nat /\ Len(l) > 0 /\ 1 \in 1..Len(l)
  BY DEF IsLine
<1>3. L \in Seq(Bytes)
  BY DotType
<1> HIDE DEF L
<1>4. IsLine(L) /\ L[1] = l[1] /\ (l[1] = DOT => Len(L) > 1 /\ L[2] = DOT)
  <2>1. CASE l[1] = DOT
    <3>1. PICK d \in Seq(Bytes) : d = <<DOT>> /\ Len(d) = 1 /\ d[1] = DOT
      <4>1. <<DOT>> \in Seq(Bytes) /\ Len(<<DOT>>) = 1 /\ <<DOT>>[1] = DOT
        BY ByteSeqs, Kinds
      <4>2. QED
        BY <4>1
    <3>2. L = d \o l
      BY <1>1, <2>1, <3>1
    <3>3. Len(L) = 1 + Len(l) /\ L[1] = DOT /\ \A i \in 1..Len(l) : L[1 + i] = l[i]
      BY <3>1, <3>2
    <3>4. L[Len(L)] = LF
      BY <1>2, <3>3 DEF IsLine
    <3>5. ASSUME NEW j \in 1..Len(L) - 1 PROVE L[j] # LF
      <4>1. j = 1 \/ (j - 1 \in 1..Len(l) - 1 /\ j - 1 \in 1..Len(l) /\ 1 + (j - 1) = j)
        BY <1>2, <3>3
      <4>2. CASE j = 1
        BY <3>3, <4>2, Kinds
      <4>3. CASE j - 1 \in 1..Len(l) - 1 /\ j - 1 \in 1..Len(l) /\ 1 + (j - 1) = j
        <5>1. l[j - 1] # LF
          BY <4>3 DEF IsLine
        <5>2. L[1 + (j - 1)] = l[j - 1]
          BY <3>3, <4>3
        <5>3. QED
          BY <4>3, <5>1, <5>2
      <4>4. QED
        BY <4>1, <4>2, <4>3
    <3>6. L[2] = DOT
      <4>1. 1 + 1 = 2
        OBVIOUS
      <4>2. QED
        BY <1>2, <2>1, <3>3, <4>1
    <3>7. Len(L) > 0 /\ Len(L) > 1
      BY <1>2, <3>3
    <3>8. QED
      BY <2>1, <3>3, <3>4, <3>5, <3>6, <3>7 DEF IsLine
  <2>2. CASE l[1] # DOT
    BY <1>1, <2>2
  <2>3. QED
    BY <2>1, <2>2
<1>5. QED
  BY <1>1, <1>3, <1>4 DEF L

\* No line begins with a line break.
Opens(s) == \A i \in 1..Len(s) : LineBegins(s, i) => s[i] \notin {CR, LF}

\* Dots leave lines what they are, and none of them a terminator or empty.
LEMMA DotLines ==
  ASSUME NEW s \in Seq(Bytes), Whole(s)
  PROVE  /\ Whole(dot_stuff(s))
         /\ Opens(s) => NoLine(dot_stuff(s), Terminators) /\ NoLine(dot_stuff(s), Empties)
<1> DEFINE G(t) == /\ t \in Seq(Bytes) /\ Whole(dot_stuff(t))
                   /\ Opens(t) => NoLine(dot_stuff(t), Terminators) /\ NoLine(dot_stuff(t), Empties)
           T == {t \in Seq(Bytes) : G(t)}
<1>1. <<>> \in T
  <2>1. Whole(<<>>)
    BY DEF Whole
  <2>2. QED
    BY <2>1, ByteSeqs, DotEmpty, NoLineEmpty, Zenon
<1>2. ASSUME NEW a \in Seq(Bytes), NEW l \in Seq(Bytes), a \in T, Whole(a), IsLine(l)
      PROVE  a \o l \in T
  <2> DEFINE A == dot_stuff(a)
             L == dot_stuff(l)
  <2>1. dot_stuff(a \o l) = A \o L
    BY <1>2, DotConcat
  <2>2. A \in Seq(Bytes) /\ L \in Seq(Bytes) /\ Whole(A)
        /\ (Opens(a) => NoLine(A, Terminators) /\ NoLine(A, Empties))
    BY <1>2, DotType
  <2>3. L = IF l[1] = DOT THEN <<DOT>> \o l ELSE l
    BY <1>2, DotLine DEF IsLine
  <2>4. l[1] \in Bytes /\ Len(l) \in Nat /\ Len(l) > 0 /\ 1 \in 1..Len(l)
    BY <1>2 DEF IsLine
  <2> HIDE DEF A, L
  <2>5. IsLine(L) /\ L[1] = l[1] /\ (l[1] = DOT => Len(L) > 1 /\ L[2] = DOT)
    BY <1>2, StuffedLine DEF L
  <2>6. Whole(A \o L)
    <3>1. Whole(L) /\ Len(L) > 0
      BY <2>5 DEF Whole, IsLine
    <3>2. QED
      BY <2>2, <3>1, WholeConcat
  <2>7. ASSUME Opens(a \o l)
        PROVE  NoLine(A \o L, Terminators) /\ NoLine(A \o L, Empties)
    <3>1. Opens(a) /\ l[1] \notin {CR, LF}
      <4>1. /\ Len(a \o l) = Len(a) + Len(l) /\ Len(a) \in Nat
            /\ \A i \in 1..Len(a) : (a \o l)[i] = a[i]
            /\ \A i \in 1..Len(l) : (a \o l)[Len(a) + i] = l[i]
        BY <1>2, ConcatAt
      <4>2. /\ \A i \in 1..Len(a) : LineBegins(a \o l, i) <=> LineBegins(a, i)
            /\ LineBegins(a \o l, Len(a) + 1)
        BY <1>2, <2>4, BeginsConcat
      <4>3. \A i \in 1..Len(a) : i \in 1..Len(a \o l)
        BY <2>4, <4>1
      <4>4. Len(a) + 1 \in 1..Len(a \o l)
        BY <2>4, <4>1
      <4>5. Opens(a)
        BY <2>7, <4>1, <4>2, <4>3 DEF Opens
      <4>6. (a \o l)[Len(a) + 1] \notin {CR, LF}
        BY <2>7, <4>2, <4>4 DEF Opens
      <4>7. QED
        BY <2>4, <4>1, <4>5, <4>6
    <3>2. L \notin Terminators
      <4>1. SUFFICES ASSUME is_terminator(L) PROVE FALSE
        BY <2>2, TerminatorIs
      <4>2. L[1] = DOT /\ L[2] \in {CR, LF}
        BY <2>2, <4>1, TerminatorIs
      <4>3. QED
        BY <2>5, <4>2, Kinds
    <3>3. L \notin Empties
      <4>1. SUFFICES ASSUME is_empty_line(L) PROVE FALSE
        BY <2>2, EmptyLineIs
      <4>2. L[1] \in {CR, LF}
        BY <2>2, <4>1, EmptyLineIs
      <4>3. QED
        BY <2>5, <3>1, <4>2
    <3>4. NoLine(L, Terminators) /\ NoLine(L, Empties)
      BY <2>2, <2>5, <3>2, <3>3, NoLineOne
    <3>5. QED
      BY <2>2, <3>1, <3>4, NoLineConcat
  <2>8. a \o l \in Seq(Bytes)
    BY <1>2
  <2>9. QED
    BY <2>1, <2>6, <2>7, <2>8, Zenon
<1>3. \A t \in Seq(Bytes) : Whole(t) => t \in T
  <2> HIDE DEF T
  <2>1. QED
    BY <1>1, <1>2, LineInduction
<1>4. QED
  BY <1>3

-----------------------------------------------------------------------------
(* A header as it is written: one line, or one that is folded *)

\* Every line but the first continues the one before it.
Folded(s) == \A i \in 2..Len(s) : LineBegins(s, i) => s[i] = SP

\* The lines of one header.
Headed(s) == Len(s) > 0 /\ Whole(s) /\ s[1] \notin {CR, LF, SP} /\ Folded(s)

\* Folds stay folds.
LEMMA NormFolded ==
  ASSUME NEW s \in Seq(Bytes), Whole(s), Folded(s)
  PROVE  /\ Folded(normalize_breaks(s))
         /\ Len(s) > 0 /\ s[1] \notin {CR, LF} =>
              Len(normalize_breaks(s)) > 0 /\ normalize_breaks(s)[1] = s[1]
<1> DEFINE G(t) == Folded(t) =>
                     /\ Folded(normalize_breaks(t))
                     /\ Len(t) > 0 /\ t[1] \notin {CR, LF} =>
                          Len(normalize_breaks(t)) > 0 /\ normalize_breaks(t)[1] = t[1]
           T == {t \in Seq(Bytes) : G(t)}
<1>1. <<>> \in T
  <2>1. Len(<<>>) = 0 /\ ~(0 > 0) /\ \A i : i \notin 2..0
    OBVIOUS
  <2>2. Folded(<<>>)
    BY <2>1 DEF Folded
  <2>3. ~(Len(<<>>) > 0)
    BY <2>1
  <2>4. QED
    BY <2>2, <2>3, ByteSeqs, NormEmpty, Zenon
<1>2. ASSUME NEW a \in Seq(Bytes), NEW l \in Seq(Bytes), a \in T, Whole(a), IsLine(l)
      PROVE  a \o l \in T
  <2> DEFINE N == normalize_breaks(a)
             L == normalize_breaks(l)
  <2>1. ~Splits(a, l)
    BY <1>2, Kinds DEF Splits, Whole
  <2>2. normalize_breaks(a \o l) = N \o L
    BY <2>1, NormConcat
  <2>3. N \in Seq(Bytes) /\ L \in Seq(Bytes) /\ IsLine(L) /\ Whole(N)
    BY <1>2, NormType, NormLine, NormLines
  <2>4. ASSUME l[1] \notin {CR, LF} PROVE L[1] = l[1]
    <3>1. PICK u \in Seq(Bytes) : /\ \A i \in 1..Len(u) : u[i] # LF
                                  /\ l = u \o CRLF \/ l = u \o <<LF>>
                                  /\ L = u \o CRLF
      BY <1>2, NormLineIs, Zenon
    <3>2. Len(u) > 0
      <4>1. SUFFICES ASSUME ~(Len(u) > 0) PROVE FALSE
        OBVIOUS
      <4>2. Len(u) = 0 /\ u = <<>>
        BY <4>1, EmptySeq
      <4>3. l = CRLF \/ l = <<LF>>
        BY <3>1, <4>2, Kinds, ByteSeqs, ConcatEmptySeq
      <4>4. <<LF>>[1] = LF
        OBVIOUS
      <4>5. QED
        BY <2>4, <4>3, <4>4, Kinds
    <3>3. 1 \in 1..Len(u)
      BY <3>2
    <3>4. (u \o CRLF)[1] = u[1] /\ (u \o <<LF>>)[1] = u[1]
      BY <3>3, AddCRLF, AddOne, Kinds
    <3>5. QED
      BY <3>1, <3>4
  <2>5. /\ Len(a \o l) = Len(a) + Len(l) /\ Len(a) \in Nat /\ Len(l) \in Nat /\ Len(l) > 0
        /\ \A i \in 1..Len(a) : (a \o l)[i] = a[i]
        /\ \A i \in 1..Len(l) : (a \o l)[Len(a) + i] = l[i]
    BY <1>2, ConcatAt DEF IsLine
  <2>6. ASSUME Folded(a \o l)
        PROVE  Folded(a) /\ (Len(a) > 0 => l[1] = SP)
    <3>1. /\ \A i \in 1..Len(a) : LineBegins(a \o l, i) <=> LineBegins(a, i)
          /\ LineBegins(a \o l, Len(a) + 1)
      BY <1>2, <2>5, BeginsConcat
    <3>2. \A i \in 2..Len(a) : i \in 2..Len(a \o l) /\ i \in 1..Len(a)
      BY <2>5
    <3>3. Folded(a)
      BY <2>5, <2>6, <3>1, <3>2 DEF Folded
    <3>4. ASSUME Len(a) > 0 PROVE l[1] = SP
      <4>1. Len(a) + 1 \in 2..Len(a \o l) /\ 1 \in 1..Len(l)
        BY <2>5, <3>4
      <4>2. (a \o l)[Len(a) + 1] = SP
        BY <2>6, <3>1, <4>1 DEF Folded
      <4>3. QED
        BY <2>5, <4>1, <4>2
    <3>5. QED
      BY <3>3, <3>4
  <2> HIDE DEF N, L
  <2>7. /\ Len(N \o L) = Len(N) + Len(L) /\ Len(N) \in Nat /\ Len(L) \in Nat /\ Len(L) > 0
        /\ \A i \in 1..Len(N) : (N \o L)[i] = N[i]
        /\ \A i \in 1..Len(L) : (N \o L)[Len(N) + i] = L[i]
    BY <2>3, ConcatAt DEF IsLine
  <2>8. ASSUME Folded(a \o l)
        PROVE  /\ Folded(N \o L)
               /\ Len(a \o l) > 0 /\ (a \o l)[1] \notin {CR, LF} =>
                    Len(N \o L) > 0 /\ (N \o L)[1] = (a \o l)[1]
    <3>1. Folded(a) /\ (Len(a) > 0 => l[1] = SP)
      BY <2>6, <2>8
    <3>2. /\ Folded(N)
          /\ Len(a) > 0 /\ a[1] \notin {CR, LF} => Len(N) > 0 /\ N[1] = a[1]
      BY <1>2, <3>1 DEF N
    <3>3. ASSUME Len(a) = 0 PROVE N = <<>> /\ a = <<>> /\ N \o L = L /\ a \o l = l
      BY <1>2, <2>3, <3>3, EmptySeq, NormEmpty, ConcatEmptySeq DEF N
    <3>4. Folded(N \o L)
      <4>1. SUFFICES ASSUME NEW i \in 2..Len(N \o L), LineBegins(N \o L, i)
                     PROVE  (N \o L)[i] = SP
        BY DEF Folded
      <4>2. CASE i \in 2..Len(N)
        <5>1. i \in 1..Len(N)
          BY <4>2
        <5>2. LineBegins(N, i)
          BY <2>3, <4>1, <5>1, BeginsConcat
        <5>3. N[i] = SP
          BY <3>2, <4>2, <5>2 DEF Folded
        <5>4. QED
          BY <2>7, <5>1, <5>3
      <4>3. CASE i = Len(N) + 1
        <5>1. Len(N) > 0 /\ 1 \in 1..Len(L)
          BY <2>7, <4>3
        <5>2. Len(a) > 0
          <6>1. SUFFICES ASSUME Len(a) = 0 PROVE FALSE
            BY <2>5
          <6>2. N = <<>>
            BY <3>3, <6>1
          <6>3. Len(<<>>) = 0
            OBVIOUS
          <6>4. QED
            BY <5>1, <6>2, <6>3
        <5>3. L[1] = SP
          BY <2>4, <3>1, <5>2, Kinds
        <5>4. QED
          BY <2>7, <4>3, <5>1, <5>3
      <4>4. CASE i \in Len(N) + 2..Len(N) + Len(L)
        <5>1. PICK k \in 2..Len(L) : i = Len(N) + k
          <6>1. i - Len(N) \in 2..Len(L) /\ i = Len(N) + (i - Len(N))
            BY <2>7, <4>4
          <6>2. QED
            BY <6>1
        <5>2. LineBegins(L, k)
          BY <2>3, <4>1, <5>1, BeginsConcat
        <5>3. QED
          BY <2>3, <5>1, <5>2, LineOfLine
      <4>5. i \in 2..Len(N) \/ i = Len(N) + 1 \/ i \in Len(N) + 2..Len(N) + Len(L)
        <5>1. PICK n, m : n = Len(N) /\ m = Len(L) /\ Len(N \o L) = n + m
          BY <2>7
        <5>2. n \in Nat /\ m \in Nat /\ i \in 2..n + m
          BY <2>7, <5>1
        <5>3. i \in 2..n \/ i = n + 1 \/ i \in n + 2..n + m
          BY <5>2
        <5>4. QED
          BY <5>1, <5>3
      <4>6. QED
        BY <4>2, <4>3, <4>4, <4>5
    <3>5. ASSUME Len(a \o l) > 0, (a \o l)[1] \notin {CR, LF}
          PROVE  Len(N \o L) > 0 /\ (N \o L)[1] = (a \o l)[1]
      <4>1. Len(N \o L) > 0
        BY <2>7
      <4>2. CASE Len(a) = 0
        <5>1. N \o L = L /\ a \o l = l
          BY <3>3, <4>2
        <5>2. L[1] = l[1]
          BY <2>4, <3>5, <5>1
        <5>3. QED
          BY <4>1, <5>1, <5>2
      <4>3. CASE Len(a) > 0
        <5>1. 1 \in 1..Len(a) /\ (a \o l)[1] = a[1]
          BY <2>5, <4>3
        <5>2. Len(N) > 0 /\ N[1] = a[1]
          BY <3>2, <3>5, <4>3, <5>1
        <5>3. 1 \in 1..Len(N)
          BY <2>7, <5>2
        <5>4. (N \o L)[1] = N[1]
          BY <2>7, <5>3
        <5>5. QED
          BY <4>1, <5>1, <5>2, <5>4
      <4>4. QED
        BY <2>5, <4>2, <4>3
    <3>6. QED
      BY <3>4, <3>5
  <2>9. a \o l \in Seq(Bytes)
    BY <1>2
  <2>10. QED
    BY <2>2, <2>8, <2>9, Zenon
<1>3. \A t \in Seq(Bytes) : Whole(t) => t \in T
  <2> HIDE DEF T
  <2>1. QED
    BY <1>1, <1>2, LineInduction
<1>4. QED
  BY <1>3

\* A header that assert_header_relayable lets through.
Relayable(h) ==
  /\ h \in Header /\ relayable_name(h.name)
  /\ \A i \in DOMAIN h.value : h.value[i] \in {CR, LF} => folds_at(h.value, i)

\* The text of a header, breaks as CRLF.
HeaderText(h) == h.name \o <<COLON, SP>> \o normalize_breaks(h.value)

LEMMA WrittenParts ==
  ASSUME NEW h, Relayable(h)
  PROVE  \E n \in Seq(Bytes) :
           /\ n = h.name \o <<COLON, SP>> /\ Len(n) > 2 /\ n[1] \notin {CR, LF, SP}
           /\ n[Len(n)] = SP /\ \A i \in 1..Len(n) : n[i] # LF
           /\ h.value \in Seq(Bytes) /\ Written(h) = (n \o h.value) \o CRLF
           /\ HeaderText(h) = n \o normalize_breaks(h.value)
<1>1. /\ h.name \in Seq(Bytes) /\ h.value \in Seq(Bytes) /\ h.name # <<>>
      /\ \A i \in 1..Len(h.name) : ~is_perl_space(h.name[i])
  BY DEF Relayable, Header, relayable_name
<1>2. Len(h.name) > 0 /\ Len(h.name) \in Nat
  <2>1. Len(h.name) \in Nat
    BY <1>1
  <2>2. Len(h.name) # 0
    BY <1>1, EmptySeq
  <2>3. QED
    BY <2>1, <2>2
<1>3. PICK c \in Seq(Bytes) : c = <<COLON, SP>> /\ Len(c) = 2 /\ c[1] = COLON /\ c[2] = SP
  <2>1. COLON \in Bytes /\ SP \in Bytes
    BY Kinds
  <2>2. <<COLON, SP>> \in Seq(Bytes) /\ Len(<<COLON, SP>>) = 2 /\ <<COLON, SP>>[1] = COLON
        /\ <<COLON, SP>>[2] = SP
    BY <2>1
  <2>3. QED
    BY <2>2
<1>4. PICK n \in Seq(Bytes) : n = h.name \o c
  BY <1>1, ConcatAt
<1>5. /\ Len(n) = Len(h.name) + 2
      /\ \A i \in 1..Len(h.name) : n[i] = h.name[i]
      /\ \A i \in 1..2 : n[Len(h.name) + i] = c[i]
  BY <1>1, <1>3, <1>4, ConcatAt
<1>6. n[Len(n)] = SP
  <2>1. 2 \in 1..2
    OBVIOUS
  <2>2. QED
    BY <1>3, <1>5, <2>1
<1>7. \A i \in 1..Len(h.name) : h.name[i] \notin {CR, LF, SP}
  BY <1>1 DEF is_perl_space
<1>8. n[1] \notin {CR, LF, SP}
  <2>1. 1 \in 1..Len(h.name)
    BY <1>2
  <2>2. n[1] = h.name[1]
    BY <1>5, <2>1
  <2>3. QED
    BY <1>7, <2>1, <2>2
<1>9. \A i \in 1..Len(n) : n[i] # LF
  <2>1. TAKE i \in 1..Len(n)
  <2>2. i \in 1..Len(h.name) \/ i = Len(h.name) + 1 \/ i = Len(h.name) + 2
    BY <1>2, <1>5
  <2>3. CASE i \in 1..Len(h.name)
    BY <1>5, <1>7, <2>3
  <2>4. CASE i = Len(h.name) + 1
    <3>1. 1 \in 1..2
      OBVIOUS
    <3>2. n[i] = COLON
      BY <1>3, <1>5, <2>4, <3>1
    <3>3. QED
      BY <3>2, Kinds
  <2>5. CASE i = Len(h.name) + 2
    <3>1. 2 \in 1..2
      OBVIOUS
    <3>2. n[i] = SP
      BY <1>3, <1>5, <2>5, <3>1
    <3>3. QED
      BY <3>2, Kinds
  <2>6. QED
    BY <2>2, <2>3, <2>4, <2>5
<1>10. Len(n) > 2
  BY <1>2, <1>5
<1>11. Written(h) = (n \o h.value) \o CRLF /\ HeaderText(h) = n \o normalize_breaks(h.value)
  BY <1>3, <1>4 DEF Written, HeaderText
<1>12. QED
  BY <1>1, <1>3, <1>4, <1>6, <1>8, <1>9, <1>10, <1>11, Zenon

\* A header is written as its lines.
LEMMA WrittenHeaded ==
  ASSUME NEW h, Relayable(h)
  PROVE  Headed(Written(h)) /\ Written(h) \in Seq(Bytes)
<1>1. PICK n \in Seq(Bytes) :
        /\ Len(n) > 2 /\ n[1] \notin {CR, LF, SP}
        /\ \A i \in 1..Len(n) : n[i] # LF
        /\ h.value \in Seq(Bytes) /\ Written(h) = (n \o h.value) \o CRLF
  BY WrittenParts, Zenon
<1>2. PICK v \in Seq(Bytes) : v = h.value
  BY <1>1
<1>3. PICK b \in Seq(Bytes) : b = n \o v
  BY ConcatAt
<1>4. /\ Len(b) = Len(n) + Len(v) /\ Len(n) \in Nat /\ Len(v) \in Nat
      /\ \A i \in 1..Len(n) : b[i] = n[i]
      /\ \A i \in 1..Len(v) : b[Len(n) + i] = v[i]
  BY <1>3, ConcatAt
<1>5. PICK s \in Seq(Bytes) : s = b \o CRLF
  BY AddCRLF
<1>6. /\ Len(s) = Len(b) + 2 /\ Len(b) \in Nat
      /\ \A i \in 1..Len(b) : s[i] = b[i]
      /\ s[Len(b) + 1] = CR /\ s[Len(b) + 2] = LF
  BY <1>5, AddCRLF
<1>7. s = Written(h)
  BY <1>1, <1>2, <1>3, <1>5
<1>8. Len(s) > 0 /\ Whole(s) /\ s[1] \notin {CR, LF, SP}
  <2>1. 1 \in 1..Len(n) /\ 1 \in 1..Len(b) /\ Len(s) > 0
    BY <1>1, <1>4, <1>6
  <2>2. s[1] = n[1]
    BY <1>4, <1>6, <2>1
  <2>3. QED
    BY <1>1, <1>6, <2>1, <2>2 DEF Whole
<1>9. Folded(s)
  <2>1. SUFFICES ASSUME NEW i \in 2..Len(s), LineBegins(s, i) PROVE s[i] = SP
    BY DEF Folded
  <2>2. s[i - 1] = LF
    BY <2>1 DEF LineBegins
  <2>3. \/ i - 1 \in 1..Len(n)
        \/ i - 1 \in Len(n) + 1..Len(n) + Len(v)
        \/ i - 1 = Len(b) + 1
    <3>1. PICK x, y : x = Len(n) /\ y = Len(v)
      OBVIOUS
    <3>5. Len(b) = x + y /\ x \in Nat /\ y \in Nat
      BY <1>4, <3>1
    <3>6. Len(s) = (x + y) + 2
      BY <1>6, <3>5
    <3>2. i \in 2..(x + y) + 2
      BY <3>6
    <3>3. i - 1 \in 1..x \/ i - 1 \in x + 1..x + y \/ i - 1 = (x + y) + 1
      BY <3>2, <3>5
    <3>4. QED
      BY <3>1, <3>3, <3>5
  <2>4. i - 1 \notin 1..Len(n)
    <3>1. SUFFICES ASSUME i - 1 \in 1..Len(n) PROVE FALSE
      OBVIOUS
    <3>2. i - 1 \in 1..Len(b)
      BY <1>4, <3>1
    <3>3. s[i - 1] = n[i - 1]
      BY <1>4, <1>6, <3>1, <3>2
    <3>4. QED
      BY <1>1, <2>2, <3>1, <3>3
  <2>5. i - 1 # Len(b) + 1
    BY <1>6, <2>2, Kinds
  <2>6. PICK k \in 1..Len(v) : i - 1 = Len(n) + k
    <3>1. i - 1 \in Len(n) + 1..Len(n) + Len(v)
      BY <2>3, <2>4, <2>5
    <3>2. (i - 1) - Len(n) \in 1..Len(v) /\ i - 1 = Len(n) + ((i - 1) - Len(n))
      BY <1>4, <3>1
    <3>3. QED
      BY <3>2
  <2>7. v[k] = LF
    <3>1. Len(n) + k \in 1..Len(b)
      BY <1>4, <2>6
    <3>2. s[Len(n) + k] = v[k]
      BY <1>4, <1>6, <2>6, <3>1
    <3>3. QED
      BY <2>2, <2>6, <3>2
  <2>8. folds_at(v, k)
    <3>1. k \in DOMAIN h.value /\ h.value[k] \in {CR, LF}
      BY <1>2, <2>7
    <3>2. QED
      BY <1>2, <3>1 DEF Relayable
  <2>9. k + 1 <= Len(v) /\ v[k + 1] = SP
    BY <2>7, <2>8, Kinds DEF folds_at
  <2>10. s[i] = SP
    <3>1. i = Len(n) + (k + 1) /\ k + 1 \in 1..Len(v) /\ i \in 1..Len(b)
      BY <1>4, <2>6, <2>9
    <3>2. b[Len(n) + (k + 1)] = v[k + 1]
      BY <1>4, <3>1
    <3>3. QED
      BY <1>6, <2>9, <3>1, <3>2
  <2>11. QED
    BY <2>10
<1>10. QED
  BY <1>7, <1>8, <1>9 DEF Headed

\* ... and normalised it is its text and a CRLF.
LEMMA NormWritten ==
  ASSUME NEW h, Relayable(h)
  PROVE  /\ normalize_breaks(Written(h)) = HeaderText(h) \o CRLF
         /\ HeaderText(h) \in Seq(Bytes) /\ normalize_breaks(Written(h)) \in Seq(Bytes)
         /\ Headed(normalize_breaks(Written(h)))
<1>1. PICK n \in Seq(Bytes) :
        /\ Len(n) > 2 /\ n[Len(n)] = SP /\ \A i \in 1..Len(n) : n[i] # LF
        /\ h.value \in Seq(Bytes) /\ Written(h) = (n \o h.value) \o CRLF
        /\ HeaderText(h) = n \o normalize_breaks(h.value)
  BY WrittenParts, Zenon
<1>2. PICK v \in Seq(Bytes) : v = h.value
  BY <1>1
<1>3. normalize_breaks(n) = n
  BY <1>1, NormPlain
<1>4. normalize_breaks(n \o v) = n \o normalize_breaks(v)
  <2>1. ~Splits(n, v)
    BY <1>1, Kinds DEF Splits
  <2>2. QED
    BY <1>3, <2>1, NormConcat
<1>5. n \o v \in Seq(Bytes)
  BY ConcatAt
<1>6. normalize_breaks((n \o v) \o CRLF) = normalize_breaks(n \o v) \o CRLF
  <2>1. ~Splits(n \o v, CRLF)
    BY Kinds DEF Splits
  <2>2. QED
    BY <1>5, <2>1, ByteSeqs, NormConcat, NormCRLF
<1>7. normalize_breaks(Written(h)) = HeaderText(h) \o CRLF
  BY <1>1, <1>2, <1>4, <1>6
<1>8. HeaderText(h) \in Seq(Bytes)
  <2>1. normalize_breaks(v) \in Seq(Bytes)
    BY NormType
  <2>2. QED
    BY <1>1, <1>2, <2>1, ConcatAt
<1>9. PICK w \in Seq(Bytes) : w = Written(h) /\ Headed(w)
  BY WrittenHeaded
<1>10. Headed(normalize_breaks(w))
  <2>1. Len(w) > 0 /\ Whole(w) /\ w[1] \notin {CR, LF, SP} /\ Folded(w)
    BY <1>9 DEF Headed
  <2>2. Folded(normalize_breaks(w)) /\ Len(normalize_breaks(w)) > 0 /\ normalize_breaks(w)[1] = w[1]
    BY <2>1, NormFolded
  <2>3. Whole(normalize_breaks(w))
    BY <2>1, NormLines
  <2>4. QED
    BY <2>1, <2>2, <2>3 DEF Headed
<1>11. normalize_breaks(w) \in Seq(Bytes)
  BY NormType
<1>12. QED
  BY <1>7, <1>8, <1>9, <1>10, <1>11

-----------------------------------------------------------------------------
(* All headers, one after the other *)

LEMMA PickedNone ==
  ASSUME NEW S, NEW s \in Seq(S)
  PROVE  \A P : (\A i \in 1..Len(s) : i \notin P) => Picked(s, P) = <<>>
<1> DEFINE None(t, P) == \A i \in 1..Len(t) : i \notin P
           T == {t \in Seq(S) : \A P : None(t, P) => Picked(t, P) = <<>>}
<1>1. <<>> \in T
  BY EmptySeq, PickedEmpty, Zenon
<1>2. ASSUME NEW t \in T, NEW x \in S PROVE Append(t, x) \in T
  <2>1. /\ Append(t, x) \in Seq(S) /\ Append(t, x) = t \o <<x>> /\ <<x>> \in Seq(S)
        /\ Len(Append(t, x)) = Len(t) + 1 /\ Len(t) \in Nat /\ Len(<<x>>) = 1
    OBVIOUS
  <2>2. ASSUME NEW P, None(Append(t, x), P) PROVE Picked(t \o <<x>>, P) = <<>>
    <3>1. Len(t) + 1 \notin P /\ \A i \in 1..Len(t) : i \notin P
      <4>1. Len(t) + 1 \in 1..Len(t) + 1 /\ \A i \in 1..Len(t) : i \in 1..Len(t) + 1
        BY <2>1
      <4>2. QED
        BY <2>1, <2>2, <4>1
    <3>2. \A i \in 1..Len(<<x>>) : i \in {} <=> Len(t) + i \in P
      BY <2>1, <3>1
    <3>3. Picked(t \o <<x>>, P) = Picked(t, P) \o Picked(<<x>>, {})
      <4>1. PICK y \in Seq(S) : y = <<x>>
        BY <2>1
      <4>2. Parted(P, t, y, P, {})
        BY <3>2, <4>1, Zenon DEF Parted
      <4>3. Picked(t \o y, P) = Picked(t, P) \o Picked(y, {})
        BY <4>2, PickedConcat
      <4>4. QED
        BY <4>1, <4>3, Zenon
    <3>4. Picked(<<x>>, {}) = <<>>
      BY PickedOne
    <3>5. Picked(t, P) = <<>>
      BY <3>1
    <3>6. QED
      BY <3>3, <3>4, <3>5
  <2>3. QED
    BY <2>1, <2>2, Zenon
<1>3. T = Seq(S)
  <2> HIDE DEF T
  <2>1. T \subseteq Seq(S)
    BY DEF T
  <2>2. QED
    BY <1>1, <1>2, <2>1, SeqInduction
<1>4. QED
  BY <1>3

\* The positions at which the header lines of a text begin, and what they are.
Heads_(s, cont) == {i \in DOMAIN s : HeaderBegins(s, i, cont)}
Stretches(s, cont) == [i \in DOMAIN s |-> SubSeq(s, i, HeaderEnd(s, i, cont))]

LEMMA StretchOfPrefix ==
  ASSUME NEW f \in Seq(Bytes), NEW b \in Seq(Bytes), NEW i \in 1..Len(f), NEW e \in i..Len(f)
  PROVE  SubSeq(f \o b, i, e) = SubSeq(f, i, e)
<1>1. PICK x, y : x = SubSeq(f \o b, i, e) /\ y = SubSeq(f, i, e)
  OBVIOUS
<1>2. /\ i \in 1..Len(f) + 1 /\ e \in i - 1..Len(f)
      /\ i \in 1..Len(f \o b) + 1 /\ e \in i - 1..Len(f \o b)
  OBVIOUS
<1>3. f \o b \in Seq(Bytes)
  OBVIOUS
<1>4. /\ x \in Seq(Bytes) /\ Len(x) = e - i + 1 /\ \A k \in 1..e - i + 1 : x[k] = (f \o b)[i + k - 1]
  BY <1>1, <1>2, <1>3, SubSeqAt
<1>5. /\ y \in Seq(Bytes) /\ Len(y) = e - i + 1 /\ \A k \in 1..e - i + 1 : y[k] = f[i + k - 1]
  BY <1>1, <1>2, SubSeqAt
<1>6. \A k \in 1..e - i + 1 : i + k - 1 \in 1..Len(f)
  OBVIOUS
<1>7. \A k \in 1..e - i + 1 : x[k] = y[k]
  <2>1. \A k \in 1..Len(f) : (f \o b)[k] = f[k]
    BY ConcatAt
  <2>2. QED
    BY <1>4, <1>5, <1>6, <2>1
<1>8. x = y
  BY <1>4, <1>5, <1>7, SeqEqual
<1>9. QED
  BY <1>1, <1>8

\* Behind whole lines, the lines of one header unfold to one line.
LEMMA UnfoldBehind ==
  ASSUME NEW f \in Seq(Bytes), Whole(f), NEW b \in Seq(Bytes), NEW cont,
         Len(b) > 0, Len(f) = 0 \/ b[1] \notin cont,
         \A i \in 2..Len(b) : LineBegins(b, i) => b[i] \in cont
  PROVE  Unfold(f \o b, cont) = Unfold(f, cont) \o <<b>>
<1> DEFINE s == f \o b
           m == Len(f)
           n == Len(b)
           C == SubSeq(Stretches(s, cont), m + 1, m + n)
<1>1. /\ s \in Seq(Bytes) /\ Len(s) = m + n /\ m \in Nat /\ n \in Nat /\ n > 0
      /\ DOMAIN s = 1..m + n /\ DOMAIN f = 1..m
      /\ \A i \in 1..m : s[i] = f[i]
      /\ \A i \in 1..n : s[m + i] = b[i]
  OBVIOUS
<1>2. \A i \in 1..m : HeaderBegins(s, i, cont) <=> HeaderBegins(f, i, cont)
  BY <1>1, BeginsConcat DEF HeaderBegins
<1>3. HeaderBegins(s, m + 1, cont)
  <2>1. LineBegins(s, m + 1)
    BY <1>1, BeginsConcat
  <2>2. m + 1 = 1 \/ s[m + 1] \notin cont
    <3>1. 1 \in 1..n
      BY <1>1
    <3>2. QED
      BY <1>1, <3>1
  <2>3. QED
    BY <2>1, <2>2 DEF HeaderBegins
<1>4. \A i \in 2..n : ~HeaderBegins(s, m + i, cont)
  <2>1. SUFFICES ASSUME NEW i \in 2..n, LineBegins(s, m + i) PROVE s[m + i] \in cont /\ m + i # 1
    BY DEF HeaderBegins
  <2>2. LineBegins(b, i)
    BY <2>1, BeginsConcat
  <2>3. b[i] \in cont
    BY <2>2
  <2>4. i \in 1..n /\ m + i # 1
    BY <1>1
  <2>5. QED
    BY <1>1, <2>3, <2>4
<1> HIDE DEF s, m, n
<1>5. ASSUME NEW i \in 1..m PROVE HeaderEnd(s, i, cont) = HeaderEnd(f, i, cont) /\ HeaderEnd(f, i, cont) \in i..m
  <2>1. PICK e : e = HeaderEnd(f, i, cont)
    OBVIOUS
  <2>2. HeaderEndsAt(f, i, cont, e)
    BY <2>1, HeaderEndIs DEF m
  <2>3. /\ e \in i..m /\ \A j \in i + 1..e : ~HeaderBegins(f, j, cont)
        /\ e = m \/ HeaderBegins(f, e + 1, cont)
    BY <2>2 DEF HeaderEndsAt, m
  <2>4. \A j \in i + 1..e : ~HeaderBegins(s, j, cont)
    <3>1. \A j \in i + 1..e : j \in 1..m
      BY <1>1, <2>3
    <3>2. QED
      BY <1>2, <2>3, <3>1
  <2>5. HeaderBegins(s, e + 1, cont)
    <3>1. CASE e = m
      BY <1>3, <3>1
    <3>2. CASE e # m /\ HeaderBegins(f, e + 1, cont)
      <4>1. e + 1 \in 1..m
        BY <1>1, <2>3, <3>2
      <4>2. QED
        BY <1>2, <3>2, <4>1
    <3>3. QED
      BY <2>3, <3>1, <3>2
  <2>6. e \in i..Len(s) /\ i \in 1..Len(s)
    BY <1>1, <2>3
  <2>7. HeaderEndsAt(s, i, cont, e)
    BY <2>4, <2>5, <2>6 DEF HeaderEndsAt
  <2>8. HeaderEnd(s, i, cont) = e
    BY <1>1, <2>6, <2>7, HeaderEndUnique
  <2>9. QED
    BY <2>1, <2>3, <2>8
<1>6. HeaderEnd(s, m + 1, cont) = m + n
  <2>1. m + n \in m + 1..Len(s) /\ m + 1 \in 1..Len(s)
    BY <1>1
  <2>2. \A j \in (m + 1) + 1..m + n : ~HeaderBegins(s, j, cont)
    <3>1. TAKE j \in (m + 1) + 1..m + n
    <3>2. PICK k : k = j - m
      OBVIOUS
    <3>3. k \in 2..n /\ j = m + k
      BY <1>1, <3>2
    <3>4. ~HeaderBegins(s, m + k, cont)
      BY <1>4, <3>3
    <3>5. QED
      BY <3>3, <3>4
  <2>3. HeaderEndsAt(s, m + 1, cont, m + n)
    BY <1>1, <2>1, <2>2 DEF HeaderEndsAt
  <2>4. QED
    BY <1>1, <2>1, <2>3, HeaderEndUnique
<1>7. /\ Stretches(s, cont) \in Seq(Seq(Bytes)) /\ Len(Stretches(s, cont)) = m + n
      /\ Stretches(f, cont) \in Seq(Seq(Bytes)) /\ Len(Stretches(f, cont)) = m
  <2>1. ASSUME NEW t \in Seq(Bytes)
        PROVE  Stretches(t, cont) \in Seq(Seq(Bytes)) /\ Len(Stretches(t, cont)) = Len(t)
    <3>1. Len(t) \in Nat /\ DOMAIN t = 1..Len(t)
      OBVIOUS
    <3>2. ASSUME NEW i \in 1..Len(t) PROVE SubSeq(t, i, HeaderEnd(t, i, cont)) \in Seq(Bytes)
      <4>1. HeaderEnd(t, i, cont) \in i..Len(t)
        BY HeaderEndIs DEF HeaderEndsAt
      <4>2. PICK e \in i..Len(t) : e = HeaderEnd(t, i, cont)
        BY <4>1
      <4>3. e \in i - 1..Len(t) /\ i \in 1..Len(t) + 1
        BY <3>1, <4>2
      <4>4. QED
        BY <4>2, <4>3, SubSeqAt
    <3>3. Stretches(t, cont) \in [1..Len(t) -> Seq(Bytes)]
      BY <3>1, <3>2 DEF Stretches
    <3>4. QED
      BY <3>1, <3>3, SeqOfFunction
  <2>2. QED
    BY <1>1, <2>1 DEF m
<1>8. \A i \in 1..m : Stretches(s, cont)[i] = Stretches(f, cont)[i]
  <2>1. TAKE i \in 1..m
  <2>2. i \in DOMAIN s /\ i \in DOMAIN f
    BY <1>1
  <2>3. Stretches(s, cont)[i] = SubSeq(s, i, HeaderEnd(s, i, cont))
        /\ Stretches(f, cont)[i] = SubSeq(f, i, HeaderEnd(f, i, cont))
    BY <2>2 DEF Stretches
  <2>4. PICK e \in i..m : e = HeaderEnd(s, i, cont) /\ e = HeaderEnd(f, i, cont)
    BY <1>5
  <2>5. i \in 1..Len(f) /\ e \in i..Len(f)
    BY DEF m
  <2>6. SubSeq(f \o b, i, e) = SubSeq(f, i, e)
    BY <2>5, StretchOfPrefix
  <2>7. QED
    BY <2>3, <2>4, <2>6 DEF s
<1>9. Stretches(s, cont)[m + 1] = b
  <2>1. m + 1 \in DOMAIN s
    BY <1>1
  <2>2. Stretches(s, cont)[m + 1] = SubSeq(s, m + 1, m + n)
    BY <1>6, <2>1 DEF Stretches
  <2>3. m + n \in 0..Len(s) /\ m \in 0..m + n /\ (m + n) - m = n
    BY <1>1
  <2>4. PICK x : x = SubSeq(s, m + 1, m + n)
    OBVIOUS
  <2>5. x \in Seq(Bytes) /\ Len(x) = n /\ \A k \in 1..n : x[k] = s[m + k]
    BY <1>1, <2>3, <2>4, Stretch
  <2>6. \A k \in 1..n : x[k] = b[k]
    BY <1>1, <2>5
  <2>7. x = b
    BY <2>5, <2>6, SeqEqual DEF n
  <2>8. QED
    BY <2>2, <2>4, <2>7
<1>10. /\ C \in Seq(Seq(Bytes)) /\ Len(C) = n /\ \A k \in 1..n : C[k] = Stretches(s, cont)[m + k]
  <2>1. PICK t \in Seq(Seq(Bytes)) : t = Stretches(s, cont)
    BY <1>7
  <2>2. PICK k : k = m + n
    OBVIOUS
  <2>3. k \in 0..Len(t) /\ m \in 0..k /\ k - m = n
    BY <1>1, <1>7, <2>1, <2>2
  <2>4. PICK c : c = SubSeq(t, m + 1, k)
    OBVIOUS
  <2>5. c \in Seq(Seq(Bytes)) /\ Len(c) = k - m /\ \A i \in 1..k - m : c[i] = t[m + i]
    BY <2>3, <2>4, Stretch, ZenonT(30)
  <2>6. c = C
    BY <2>1, <2>2, <2>4
  <2> HIDE DEF C
  <2>7. C \in Seq(Seq(Bytes)) /\ Len(C) = n
    BY <2>3, <2>5, <2>6
  <2>8. \A i \in 1..n : C[i] = Stretches(s, cont)[m + i]
    BY <2>1, <2>3, <2>5, <2>6
  <2>9. QED
    BY <2>7, <2>8
<1> HIDE DEF C
<1>11. Stretches(s, cont) = Stretches(f, cont) \o C
  <2>1. Joins(Stretches(f, cont), C, Stretches(s, cont))
    BY <1>7, <1>8, <1>10 DEF Joins
  <2>2. QED
    BY <1>7, <1>10, <2>1, JoinsConcat
<1>12. Picked(Stretches(f, cont) \o C, Heads_(s, cont)) = Picked(Stretches(f, cont), Heads_(f, cont)) \o Picked(C, {1})
  <2>1. ASSUME NEW i \in 1..m PROVE i \in Heads_(f, cont) <=> i \in Heads_(s, cont)
    <3>1. i \in DOMAIN s /\ i \in DOMAIN f
      BY <1>1
    <3>2. QED
      BY <1>2, <3>1 DEF Heads_
  <2>2. ASSUME NEW i \in 1..n PROVE i \in {1} <=> m + i \in Heads_(s, cont)
    <3>1. m + i \in DOMAIN s /\ (i = 1 \/ i \in 2..n)
      BY <1>1
    <3>2. QED
      BY <1>3, <1>4, <3>1 DEF Heads_
  <2>3. Parted(Heads_(s, cont), Stretches(f, cont), C, Heads_(f, cont), {1})
    BY <1>7, <1>10, <2>1, <2>2, Zenon DEF Parted
  <2>4. QED
    BY <1>7, <1>10, <2>3, PickedConcat
<1>13. Picked(C, {1}) = <<b>>
  <2>1. 1 \in 1..n /\ C[1] = b
    BY <1>1, <1>9, <1>10
  <2>2. PICK r : r = SubSeq(C, 2, n)
    OBVIOUS
  <2>3. r \in Seq(Seq(Bytes)) /\ Len(r) = n - 1 /\ \A k \in 1..n - 1 : r[k] = C[1 + k]
    <3>1. n \in 0..Len(C) /\ 1 \in 0..n /\ 1 + 1 = 2
      BY <1>1, <1>10
    <3>2. QED
      BY <1>10, <2>2, <3>1, Stretch
  <2>4. PICK p \in Seq(Seq(Bytes)) : p = <<b>> /\ Len(p) = 1 /\ p[1] = b
    <3>1. <<b>> \in Seq(Seq(Bytes)) /\ Len(<<b>>) = 1 /\ <<b>>[1] = b
      OBVIOUS
    <3>2. QED
      BY <3>1, Zenon
  <2>5. C = p \o r
    <3>1. Len(C) = Len(p) + Len(r) /\ \A i \in 1..1 : i = 1
      BY <1>1, <1>10, <2>3, <2>4
    <3>2. Joins(p, r, C)
      BY <2>1, <2>3, <2>4, <3>1 DEF Joins
    <3>3. QED
      BY <1>10, <2>3, <2>4, <3>2, JoinsConcat
  <2>6. Picked(p \o r, {1}) = Picked(p, {1}) \o Picked(r, {})
    <3>1. \A i \in 1..Len(r) : i \in {} <=> Len(p) + i \in {1}
      <4>1. \A i \in 1..Len(r) : Len(p) + i # 1
        BY <1>1, <2>3, <2>4
      <4>2. QED
        BY <4>1
    <3>2. Parted({1}, p, r, {1}, {})
      BY <3>1, Zenon DEF Parted
    <3>3. PICK q \in Seq(Seq(Bytes)) : q = r
      BY <2>3
    <3>4. Parted({1}, p, q, {1}, {})
      BY <3>2, <3>3
    <3>5. Picked(p \o q, {1}) = Picked(p, {1}) \o Picked(q, {})
      BY <3>4, PickedConcat
    <3>6. QED
      BY <3>3, <3>5
  <2>7. Picked(p, {1}) = <<b>>
    <3>1. Picked(<<b>>, {1}) = <<b>>
      BY PickedOne
    <3>2. QED
      BY <2>4, <3>1
  <2>8. Picked(r, {}) = <<>>
    BY <2>3, PickedNone
  <2>9. p \o <<>> = p
    BY <2>4, ConcatEmptySeq
  <2>10. QED
    BY <2>4, <2>5, <2>6, <2>7, <2>8, <2>9
<1>14. Unfold(s, cont) = Picked(Stretches(s, cont), Heads_(s, cont)) /\ Unfold(f, cont) = Picked(Stretches(f, cont), Heads_(f, cont))
  BY Zenon DEF Unfold, Stretches, Heads_
<1>15. QED
  BY <1>11, <1>12, <1>13, <1>14 DEF s

LEMMA UnfoldHeaded ==
  ASSUME NEW f \in Seq(Bytes), Whole(f), NEW b \in Seq(Bytes), Headed(b)
  PROVE  Unfold(f \o b, {SP}) = Unfold(f, {SP}) \o <<b>>
<1>1. Len(b) > 0 /\ b[1] \notin {SP} /\ \A i \in 2..Len(b) : LineBegins(b, i) => b[i] \in {SP}
  BY DEF Headed, Folded
<1>2. QED
  BY <1>1, UnfoldBehind

-----------------------------------------------------------------------------
(* The header block as a whole *)

RelayableHeaders == {h \in Header : Relayable(h)}

\* Its header lines as the upstream gets them, but for the dots.
Sent_(hs) == [i \in DOMAIN hs |-> normalize_breaks(Written(hs[i]))]
Plain(hs) == normalize_breaks(AllWritten(hs))

\* The headers come out as whole lines, none of them empty, and unfold to one
\* line each.
Unfolds(hs) ==
  /\ AllWritten(hs) \in Seq(Bytes) /\ Whole(AllWritten(hs))
  /\ Plain(hs) \in Seq(Bytes) /\ Whole(Plain(hs)) /\ Opens(Plain(hs))
  /\ Unfold(Plain(hs), {SP}) = Sent_(hs)

\* A header is added to a block behind it.
LEMMA AllWrittenStep ==
  ASSUME NEW hs \in Seq(Header), NEW h \in Header
  PROVE  AllWritten(Append(hs, h)) = AllWritten(hs) \o Written(h)
<1>1. PICK s \in Seq(Seq(Bytes)) : s = [i \in DOMAIN hs |-> Written(hs[i])] /\ Len(s) = Len(hs)
  BY AllWrittenSeq
<1>2. Append(hs, h) \in Seq(Header)
  OBVIOUS
<1>3. PICK t \in Seq(Seq(Bytes)) : t = [i \in DOMAIN Append(hs, h) |-> Written(Append(hs, h)[i])]
                                   /\ Len(t) = Len(Append(hs, h))
  BY <1>2, AllWrittenSeq
<1>4. PICK w \in Seq(Bytes) : w = Written(h)
  BY WrittenType
<1>5. /\ Append(s, w) \in Seq(Seq(Bytes)) /\ Len(Append(s, w)) = Len(s) + 1 /\ Len(s) \in Nat
      /\ Append(s, w)[Len(s) + 1] = w /\ \A i \in 1..Len(s) : Append(s, w)[i] = s[i]
  OBVIOUS
<1>6. /\ Len(Append(hs, h)) = Len(hs) + 1 /\ Append(hs, h)[Len(hs) + 1] = h
      /\ \A i \in 1..Len(hs) : Append(hs, h)[i] = hs[i]
      /\ DOMAIN hs = 1..Len(hs) /\ DOMAIN Append(hs, h) = 1..Len(hs) + 1 /\ Len(hs) \in Nat
  OBVIOUS
<1>7. Len(t) = Len(Append(s, w))
  BY <1>1, <1>3, <1>5, <1>6
<1>8. ASSUME NEW i \in 1..Len(t) PROVE t[i] = Append(s, w)[i]
  <2>1. i \in 1..Len(hs) + 1 /\ Len(s) = Len(hs)
    BY <1>1, <1>3, <1>6
  <2>2. t[i] = Written(Append(hs, h)[i])
    BY <1>3, <1>6, <2>1
  <2>3. CASE i \in 1..Len(hs)
    <3>1. Append(hs, h)[i] = hs[i] /\ Append(s, w)[i] = s[i] /\ s[i] = Written(hs[i])
      BY <1>1, <1>5, <1>6, <2>1, <2>3
    <3>2. QED
      BY <2>2, <3>1
  <2>4. CASE i = Len(hs) + 1
    BY <1>4, <1>5, <1>6, <2>1, <2>2, <2>4
  <2>5. i \in 1..Len(hs) \/ i = Len(hs) + 1
    <3>1. PICK n : n = Len(hs)
      OBVIOUS
    <3>2. n \in Nat /\ i \in 1..n + 1
      BY <1>6, <2>1, <3>1
    <3>3. i \in 1..n \/ i = n + 1
      BY <3>2
    <3>4. QED
      BY <3>1, <3>3
  <2>6. QED
    BY <2>3, <2>4, <2>5
<1>9. t = Append(s, w)
  BY <1>5, <1>7, <1>8, SeqEqual
<1>10. FlattenSeq(Append(s, w)) = FlattenSeq(s) \o w
  BY FlatStep
<1>11. QED
  BY <1>1, <1>3, <1>4, <1>9, <1>10 DEF AllWritten

LEMMA SentStep ==
  ASSUME NEW hs \in Seq(RelayableHeaders), NEW h \in RelayableHeaders
  PROVE  Sent_(Append(hs, h)) = Sent_(hs) \o <<normalize_breaks(Written(h))>>
<1>1. ASSUME NEW g \in RelayableHeaders PROVE normalize_breaks(Written(g)) \in Seq(Bytes)
  BY NormWritten DEF RelayableHeaders
<1>2. ASSUME NEW gs \in Seq(RelayableHeaders)
      PROVE  Sent_(gs) \in Seq(Seq(Bytes)) /\ Len(Sent_(gs)) = Len(gs)
  <2>1. DOMAIN gs = 1..Len(gs) /\ Len(gs) \in Nat /\ \A i \in 1..Len(gs) : gs[i] \in RelayableHeaders
    OBVIOUS
  <2>2. Sent_(gs) \in [1..Len(gs) -> Seq(Bytes)]
    BY <1>1, <2>1 DEF Sent_
  <2>3. QED
    BY <2>1, <2>2, SeqOfFunction
<1>3. PICK w \in Seq(Bytes) : w = normalize_breaks(Written(h))
  BY <1>1
<1>4. PICK s \in Seq(Seq(Bytes)) : s = Sent_(hs) /\ Len(s) = Len(hs)
  BY <1>2
<1>5. Append(hs, h) \in Seq(RelayableHeaders)
  OBVIOUS
<1>6. PICK t \in Seq(Seq(Bytes)) : t = Sent_(Append(hs, h)) /\ Len(t) = Len(Append(hs, h))
  BY <1>2, <1>5
<1>7. /\ Len(Append(hs, h)) = Len(hs) + 1 /\ Append(hs, h)[Len(hs) + 1] = h
      /\ \A i \in 1..Len(hs) : Append(hs, h)[i] = hs[i]
      /\ DOMAIN hs = 1..Len(hs) /\ DOMAIN Append(hs, h) = 1..Len(hs) + 1 /\ Len(hs) \in Nat
  OBVIOUS
<1>8. PICK o \in Seq(Seq(Bytes)) : o = <<w>> /\ Len(o) = 1 /\ o[1] = w
  <2>1. <<w>> \in Seq(Seq(Bytes)) /\ Len(<<w>>) = 1 /\ <<w>>[1] = w
    OBVIOUS
  <2>2. QED
    BY <2>1, Zenon
<1>9. \A i \in 1..Len(s) : t[i] = s[i]
  <2>1. TAKE i \in 1..Len(s)
  <2>2. i \in DOMAIN hs /\ i \in DOMAIN Append(hs, h) /\ Append(hs, h)[i] = hs[i]
    BY <1>4, <1>7
  <2>3. t[i] = normalize_breaks(Written(Append(hs, h)[i]))
    BY <1>6, <2>2 DEF Sent_
  <2>4. s[i] = normalize_breaks(Written(hs[i]))
    BY <1>4, <2>2 DEF Sent_
  <2>5. QED
    BY <2>2, <2>3, <2>4
<1>10. t[Len(s) + 1] = w
  <2>1. Len(hs) + 1 \in DOMAIN Append(hs, h)
    BY <1>7
  <2>2. t[Len(hs) + 1] = normalize_breaks(Written(Append(hs, h)[Len(hs) + 1]))
    BY <1>6, <2>1 DEF Sent_
  <2>3. QED
    BY <1>3, <1>4, <1>7, <2>2
<1>11. Joins(s, o, t)
  <2>1. Len(t) = Len(s) + Len(o)
    BY <1>4, <1>6, <1>7, <1>8
  <2>2. ASSUME NEW i \in 1..Len(o) PROVE t[Len(s) + i] = o[i]
    <3>1. i = 1
      BY <1>8
    <3>2. QED
      BY <1>8, <1>10, <3>1
  <2>3. QED
    BY <1>9, <2>1, <2>2 DEF Joins
<1>12. t = s \o o
  BY <1>11, JoinsConcat
<1>13. QED
  BY <1>3, <1>4, <1>6, <1>8, <1>12

LEMMA OpensConcat ==
  ASSUME NEW f \in Seq(Bytes), Opens(f), NEW b \in Seq(Bytes), Headed(b)
  PROVE  Opens(f \o b)
<1>1. Len(f) \in Nat /\ Len(b) \in Nat /\ Len(f \o b) = Len(f) + Len(b)
      /\ (\A i \in 1..Len(f) : (f \o b)[i] = f[i])
      /\ (\A i \in 1..Len(b) : (f \o b)[Len(f) + i] = b[i])
  BY ConcatAt
<1>2. Len(b) > 0 /\ b[1] \notin {CR, LF}
  BY DEF Headed
<1>3. ASSUME NEW i \in 1..Len(f), LineBegins(f \o b, i) PROVE (f \o b)[i] \notin {CR, LF}
  <2>1. LineBegins(f, i)
    BY <1>3, BeginsConcat
  <2>2. QED
    BY <1>1, <2>1 DEF Opens
<1>4. ASSUME NEW i \in 2..Len(b), LineBegins(f \o b, Len(f) + i)
      PROVE  (f \o b)[Len(f) + i] \notin {CR, LF}
  <2>1. LineBegins(b, i)
    BY <1>4, BeginsConcat
  <2>2. b[i] = SP
    BY <2>1 DEF Headed, Folded
  <2>3. i \in 1..Len(b)
    OBVIOUS
  <2>4. QED
    BY <1>1, <2>2, <2>3, Kinds
<1>5. ASSUME NEW i \in 1..Len(f \o b), LineBegins(f \o b, i) PROVE (f \o b)[i] \notin {CR, LF}
  <2>1. CASE i \in 1..Len(f)
    BY <1>3, <1>5, <2>1
  <2>2. CASE i - Len(f) \in 2..Len(b)
    <3>1. Len(f) + (i - Len(f)) = i
      BY <1>1
    <3>2. QED
      BY <1>4, <1>5, <2>2, <3>1
  <2>3. CASE i = Len(f) + 1
    <3>1. 1 \in 1..Len(b)
      BY <1>1, <1>2
    <3>2. QED
      BY <1>1, <1>2, <2>3, <3>1
  <2>4. i \in 1..Len(f) \/ i - Len(f) \in 2..Len(b) \/ i = Len(f) + 1
    BY <1>1
  <2>5. QED
    BY <2>1, <2>2, <2>3, <2>4
<1>6. QED
  BY <1>5 DEF Opens

LEMMA UnfoldEmpty == Unfold(<<>>, {SP}) = <<>>
<1>1. [i \in DOMAIN <<>> |-> SubSeq(<<>>, i, HeaderEnd(<<>>, i, {SP}))] = <<>>
  OBVIOUS
<1>2. QED
  BY <1>1, PickedEmpty, Zenon DEF Unfold

LEMMA UnfoldsNone == Unfolds(<<>>)
<1>1. AllWritten(<<>>) = <<>>
  <2>1. [i \in DOMAIN <<>> |-> Written(<<>>[i])] = <<>>
    OBVIOUS
  <2>2. QED
    BY <2>1, FlatEmpty, Zenon DEF AllWritten
<1>2. Plain(<<>>) = <<>>
  BY <1>1, NormEmpty, Zenon DEF Plain
<1>3. Sent_(<<>>) = <<>>
  <2>1. [i \in DOMAIN <<>> |-> normalize_breaks(Written(<<>>[i]))] = <<>>
    OBVIOUS
  <2>2. QED
    BY <2>1, Zenon DEF Sent_
<1>4. Whole(<<>>) /\ Opens(<<>>)
  BY DEF Whole, Opens
<1>5. QED
  BY <1>1, <1>2, <1>3, <1>4, ByteSeqs, UnfoldEmpty, Zenon DEF Unfolds

LEMMA UnfoldsStep ==
  ASSUME NEW hs \in Seq(RelayableHeaders), Unfolds(hs), NEW h \in RelayableHeaders
  PROVE  Unfolds(Append(hs, h))
<1>1. hs \in Seq(Header) /\ h \in Header /\ Relayable(h)
  BY DEF RelayableHeaders
<1>2. PICK w \in Seq(Bytes) : w = Written(h) /\ Headed(w)
  BY <1>1, WrittenHeaded
<1>3. PICK n \in Seq(Bytes) : n = normalize_breaks(w) /\ Headed(n)
  BY <1>1, <1>2, NormWritten
<1>4. PICK a \in Seq(Bytes) : a = AllWritten(hs) /\ Whole(a)
  BY DEF Unfolds
<1>5. PICK p \in Seq(Bytes) : p = Plain(hs) /\ Whole(p) /\ Opens(p) /\ Unfold(p, {SP}) = Sent_(hs)
  BY DEF Unfolds
<1>6. p = normalize_breaks(a)
  BY <1>4, <1>5 DEF Plain
<1>7. AllWritten(Append(hs, h)) = a \o w
  BY <1>1, <1>2, <1>4, AllWrittenStep
<1>8. normalize_breaks(a \o w) = p \o n
  <2>1. w[1] # LF
    BY <1>2 DEF Headed
  <2>2. ~Splits(a, w)
    BY <2>1 DEF Splits
  <2>3. QED
    BY <1>3, <1>6, <2>2, NormConcat
<1>9. Plain(Append(hs, h)) = p \o n
  BY <1>7, <1>8 DEF Plain
<1>10. /\ a \o w \in Seq(Bytes) /\ Whole(a \o w) /\ p \o n \in Seq(Bytes) /\ Whole(p \o n)
       /\ Opens(p \o n)
  <2>1. Whole(w) /\ Len(w) > 0 /\ Whole(n) /\ Len(n) > 0
    BY <1>2, <1>3 DEF Headed
  <2>2. Whole(a \o w)
    BY <2>1, WholeConcat
  <2>3. Whole(p \o n)
    BY <2>1, WholeConcat
  <2>4. Opens(p \o n)
    BY <1>3, <1>5, OpensConcat
  <2>5. QED
    BY <2>2, <2>3, <2>4, ConcatAt
<1>11. Unfold(p \o n, {SP}) = Sent_(Append(hs, h))
  <2>1. Unfold(p \o n, {SP}) = Unfold(p, {SP}) \o <<n>>
    BY <1>3, <1>5, UnfoldHeaded
  <2>2. Sent_(Append(hs, h)) = Sent_(hs) \o <<n>>
    BY <1>2, <1>3, SentStep
  <2>3. QED
    BY <1>5, <2>1, <2>2
<1>12. QED
  BY <1>7, <1>9, <1>10, <1>11, Zenon DEF Unfolds

\* What the headers of a message come out as.
LEMMA AllUnfolds == \A hs \in Seq(RelayableHeaders) : Unfolds(hs)
<1> DEFINE T == {hs \in Seq(RelayableHeaders) : Unfolds(hs)}
<1>1. <<>> \in T
  BY EmptySeq, UnfoldsNone, Zenon
<1>2. \A hs \in T : \A h \in RelayableHeaders : Append(hs, h) \in T
  <2>1. SUFFICES ASSUME NEW hs \in T, NEW h \in RelayableHeaders PROVE Append(hs, h) \in T
    OBVIOUS
  <2>2. Append(hs, h) \in Seq(RelayableHeaders)
    OBVIOUS
  <2>3. Unfolds(Append(hs, h))
    BY UnfoldsStep
  <2>4. QED
    BY <2>2, <2>3
<1>3. T \subseteq Seq(RelayableHeaders)
  OBVIOUS
<1> HIDE DEF T
<1>4. T = Seq(RelayableHeaders)
  BY <1>1, <1>2, <1>3, SeqInduction
<1>5. QED
  BY <1>4 DEF T

\* header_block: the lines, stuffed, and an empty one.
LEMMA BlockIs ==
  ASSUME NEW hs \in Seq(RelayableHeaders)
  PROVE  \E g \in Seq(Bytes) :
           /\ g = dot_stuff(Plain(hs)) /\ header_block(hs) = g \o CRLF /\ Whole(g)
           /\ NoLine(g, Terminators) /\ NoLine(g, Empties)
<1>1. PICK a \in Seq(Bytes) : a = AllWritten(hs) /\ Whole(a)
  BY AllUnfolds DEF Unfolds
<1>2. PICK p \in Seq(Bytes) : p = Plain(hs) /\ Whole(p) /\ Opens(p)
  BY AllUnfolds DEF Unfolds
<1>3. p = normalize_breaks(a)
  BY <1>1, <1>2 DEF Plain
<1>4. header_block(hs) = dot_stuff(normalize_breaks(a \o CRLF))
  BY <1>1 DEF header_block, AllWritten
<1>5. normalize_breaks(a \o CRLF) = p \o CRLF
  <2>1. ~Splits(a, CRLF)
    BY Kinds DEF Splits
  <2>2. QED
    BY <1>3, <2>1, ByteSeqs, NormConcat, NormCRLF, ZenonT(30)
<1>6. dot_stuff(CRLF) = CRLF
  <2>1. PICK c \in Seq(Bytes) : c = CRLF
    BY ByteSeqs
  <2>2. Len(c) = 2 /\ c[1] = CR
    BY <2>1, Kinds
  <2>3. \A j \in 1..Len(c) - 1 : c[j] # LF
    BY <2>2, Kinds
  <2>4. dot_stuff(c) = c
    <3>1. Len(c) > 0 /\ c[1] # DOT
      BY <2>2, Kinds
    <3>2. dot_stuff(c) = IF c[1] = DOT THEN <<DOT>> \o c ELSE c
      BY <2>3, <3>1, DotLine
    <3>3. QED
      BY <3>1, <3>2
  <2>5. QED
    BY <2>1, <2>4
<1>7. dot_stuff(p \o CRLF) = dot_stuff(p) \o CRLF
  BY <1>2, <1>6, ByteSeqs, DotConcat
<1>8. /\ dot_stuff(p) \in Seq(Bytes) /\ Whole(dot_stuff(p))
      /\ NoLine(dot_stuff(p), Terminators) /\ NoLine(dot_stuff(p), Empties)
  BY <1>2, DotType, DotLines
<1>9. QED
  BY <1>2, <1>4, <1>5, <1>7, <1>8

-----------------------------------------------------------------------------
(* The names of the headers on some lines, and of one with its folds *)

Cont == {SP, VT}
NameOf(line) == SubSeq(line, 1, FirstColon(line) - 1)

\* The elements of a sequence that are in a set, in order.
Those(s, R) == Picked(s, {i \in DOMAIN s : s[i] \in R})

\* An operator that can be applied to two parts of a sequence on their own.
ThoseParts(a, b, R) == Those(a \o b, R) = Those(a, R) \o Those(b, R)

LEMMA ThoseConcat ==
  ASSUME NEW S, NEW a \in Seq(S), NEW b \in Seq(S), NEW R
  PROVE  ThoseParts(a, b, R) /\ Those(a, R) \in Seq(S)
<1> DEFINE s == a \o b
           P == {i \in DOMAIN s : s[i] \in R}
           A == {i \in DOMAIN a : a[i] \in R}
           B == {i \in DOMAIN b : b[i] \in R}
<1>1. /\ DOMAIN s = 1..Len(a) + Len(b) /\ DOMAIN a = 1..Len(a) /\ DOMAIN b = 1..Len(b)
      /\ Len(a) \in Nat /\ Len(b) \in Nat
      /\ \A i \in 1..Len(a) : s[i] = a[i]
      /\ \A i \in 1..Len(b) : s[Len(a) + i] = b[i]
  OBVIOUS
<1> HIDE DEF s
<1>2. \A i \in 1..Len(a) : i \in A <=> i \in P
  <2>1. \A i \in 1..Len(a) : i \in DOMAIN s /\ i \in DOMAIN a
    BY <1>1
  <2>2. QED
    BY <1>1, <2>1
<1>3. \A i \in 1..Len(b) : i \in B <=> Len(a) + i \in P
  <2>1. \A i \in 1..Len(b) : Len(a) + i \in DOMAIN s /\ i \in DOMAIN b
    BY <1>1
  <2>2. QED
    BY <1>1, <2>1
<1>4. Parted(P, a, b, A, B)
  BY <1>2, <1>3, Zenon DEF Parted
<1> HIDE DEF P, A, B
<1>5. Picked(a \o b, P) = Picked(a, A) \o Picked(b, B)
  BY <1>4, PickedConcat
<1>6. Picked(a, A) \in Seq(S)
  BY PickedType
<1>7. QED
  BY <1>5, <1>6 DEF ThoseParts, Those, P, A, B, s

LEMMA ThoseOne ==
  ASSUME NEW S, NEW x \in S, NEW R
  PROVE  Those(<<x>>, R) = IF x \in R THEN <<x>> ELSE <<>>
<1>1. DOMAIN <<x>> = 1..1 /\ <<x>>[1] = x /\ 1 \in 1..1
  OBVIOUS
<1>2. 1 \in {i \in DOMAIN <<x>> : <<x>>[i] \in R} <=> x \in R
  BY <1>1
<1>3. QED
  BY <1>2, PickedOne DEF Those

\* A set of lines that the parser keeps, and of names with no line break.
Good == {l \in Seq(Bytes) : parses(l)}
Unbroken == {n \in Seq(Bytes) : \A i \in 1..Len(n) : n[i] # LF}

\* A function of the elements of a sequence.
Mapped(s, F) == [i \in DOMAIN s |-> F[s[i]]]

MappedParts(a, b, F) == Mapped(a \o b, F) = Mapped(a, F) \o Mapped(b, F)

LEMMA MappedConcat ==
  ASSUME NEW S, NEW a \in Seq(S), NEW b \in Seq(S), NEW F \in [S -> S]
  PROVE  MappedParts(a, b, F) /\ Mapped(a, F) \in Seq(S)
<1> DEFINE s == a \o b
<1>1. /\ s \in Seq(S) /\ Len(s) = Len(a) + Len(b) /\ Len(a) \in Nat /\ Len(b) \in Nat
      /\ \A i \in 1..Len(a) : s[i] = a[i]
      /\ \A i \in 1..Len(b) : s[Len(a) + i] = b[i]
  BY ConcatAt
<1> HIDE DEF s
<1>2. ASSUME NEW t \in Seq(S)
      PROVE  /\ Mapped(t, F) \in Seq(S) /\ Len(Mapped(t, F)) = Len(t)
             /\ \A i \in 1..Len(t) : Mapped(t, F)[i] = F[t[i]]
  <2>1. DOMAIN t = 1..Len(t) /\ Len(t) \in Nat /\ \A i \in 1..Len(t) : t[i] \in S
    OBVIOUS
  <2>2. Mapped(t, F) \in [1..Len(t) -> S]
    BY <2>1 DEF Mapped
  <2>3. Mapped(t, F) \in Seq(S) /\ Len(Mapped(t, F)) = Len(t)
    BY <2>1, <2>2, SeqOfFunction
  <2>4. QED
    BY <2>1, <2>3 DEF Mapped
<1>3. PICK p \in Seq(S) : p = Mapped(s, F) /\ Len(p) = Len(s) /\ \A i \in 1..Len(s) : p[i] = F[s[i]]
  BY <1>1, <1>2
<1>4. PICK q \in Seq(S) : q = Mapped(a, F) /\ Len(q) = Len(a) /\ \A i \in 1..Len(a) : q[i] = F[a[i]]
  BY <1>2
<1>5. PICK r \in Seq(S) : r = Mapped(b, F) /\ Len(r) = Len(b) /\ \A i \in 1..Len(b) : r[i] = F[b[i]]
  BY <1>2
<1>6. \A i \in 1..Len(q) : p[i] = q[i]
  <2>1. \A i \in 1..Len(a) : i \in 1..Len(s)
    BY <1>1
  <2>2. QED
    BY <1>1, <1>3, <1>4, <2>1
<1>7. \A i \in 1..Len(r) : p[Len(q) + i] = r[i]
  <2>1. \A i \in 1..Len(b) : Len(a) + i \in 1..Len(s)
    BY <1>1
  <2>2. QED
    BY <1>1, <1>3, <1>4, <1>5, <2>1
<1>8. Len(p) = Len(q) + Len(r)
  BY <1>1, <1>3, <1>4, <1>5
<1>9. p = q \o r
  <2>1. Joins(q, r, p)
    BY <1>6, <1>7, <1>8 DEF Joins
  <2>2. QED
    BY <2>1, JoinsConcat
<1>10. QED
  BY <1>3, <1>4, <1>5, <1>9 DEF MappedParts, s

LEMMA NameOfType ==
  ASSUME NEW l \in Seq(Bytes)
  PROVE  NameOf(l) \in Seq(Bytes)
<1>1. FirstColon(l) \in 0..Len(l) /\ Len(l) \in Nat
  BY FirstColonIs
<1>2. PICK c \in 0..Len(l) : c = FirstColon(l)
  BY <1>1
<1>3. SubSeq(l, 1, c - 1) \in Seq(Bytes)
  <2>1. CASE c = 0
    <3>1. SubSeq(l, 1, -1) = <<>>
      OBVIOUS
    <3>2. QED
      BY <2>1, <3>1
  <2>2. CASE c # 0
    <3>1. c - 1 \in 0..Len(l)
      BY <1>1, <2>2
    <3>2. QED
      BY <3>1, PrefixAt
  <2>3. QED
    BY <2>1, <2>2
<1>4. QED
  BY <1>2, <1>3 DEF NameOf

Trim == [l \in Seq(Bytes) |-> trim_end_breaks(l)]
Label == [l \in Seq(Bytes) |-> NameOf(l)]

\* The names that are shown of the headers on some lines.
Kept_(ls) == Those(Mapped(ls, Trim), Good)
NamesIn(ls) == Those(Mapped(Kept_(ls), Label), Unbroken)

LEMMA TrimLabel ==
  /\ Trim \in [Seq(Bytes) -> Seq(Bytes)] /\ Label \in [Seq(Bytes) -> Seq(Bytes)]
  /\ \A l \in Seq(Bytes) : Trim[l] = trim_end_breaks(l) /\ Label[l] = NameOf(l)
BY TrimType, NameOfType DEF Trim, Label

Stages(a, F, Q, G, R) == Those(Mapped(Those(Mapped(a, F), Q), G), R)
StagesParts(a, b, F, Q, G, R) ==
  Stages(a \o b, F, Q, G, R) = Stages(a, F, Q, G, R) \o Stages(b, F, Q, G, R)

LEMMA StagesConcat ==
  ASSUME NEW S, NEW a \in Seq(S), NEW b \in Seq(S), NEW F \in [S -> S], NEW G \in [S -> S],
         NEW Q, NEW R
  PROVE  StagesParts(a, b, F, Q, G, R)
<1>1. PICK c \in Seq(S) : c = Mapped(a, F)
  BY MappedConcat
<1>2. PICK d \in Seq(S) : d = Mapped(b, F)
  BY MappedConcat
<1>3. MappedParts(a, b, F)
  BY MappedConcat
<1>4. PICK e \in Seq(S) : e = Those(c, Q)
  BY ThoseConcat
<1>5. PICK f \in Seq(S) : f = Those(d, Q)
  BY ThoseConcat
<1>6. ThoseParts(c, d, Q)
  BY ThoseConcat
<1>7. PICK g \in Seq(S) : g = Mapped(e, G)
  BY MappedConcat
<1>8. PICK h \in Seq(S) : h = Mapped(f, G)
  BY MappedConcat
<1>9. MappedParts(e, f, G)
  BY MappedConcat
<1>10. ThoseParts(g, h, R)
  BY ThoseConcat
<1>11. Stages(a \o b, F, Q, G, R) = Those(g \o h, R)
  BY <1>1, <1>2, <1>3, <1>4, <1>5, <1>6, <1>7, <1>8, <1>9 DEF Stages, MappedParts, ThoseParts
<1>12. Stages(a, F, Q, G, R) = Those(g, R) /\ Stages(b, F, Q, G, R) = Those(h, R)
  BY <1>1, <1>2, <1>4, <1>5, <1>7, <1>8 DEF Stages
<1>13. QED
  BY <1>10, <1>11, <1>12 DEF StagesParts, ThoseParts

LEMMA NamesConcat ==
  ASSUME NEW a \in Seq(Seq(Bytes)), NEW b \in Seq(Seq(Bytes))
  PROVE  NamesIn(a \o b) = NamesIn(a) \o NamesIn(b)
<1>1. PICK S : S = Seq(Bytes)
  OBVIOUS
<1>2. a \in Seq(S) /\ b \in Seq(S) /\ Trim \in [S -> S] /\ Label \in [S -> S]
  BY <1>1, TrimLabel
<1>3. StagesParts(a, b, Trim, Good, Label, Unbroken)
  BY <1>2, StagesConcat
<1>4. \A c : NamesIn(c) = Stages(c, Trim, Good, Label, Unbroken)
  BY DEF NamesIn, Kept_, Stages
<1>5. QED
  BY <1>3, <1>4 DEF StagesParts

LEMMA MappedOne ==
  ASSUME NEW x, NEW F
  PROVE  Mapped(<<x>>, F) = <<F[x]>>
BY DEF Mapped

\* What one line is shown as.
LEMMA NamesOne ==
  ASSUME NEW y \in Seq(Bytes), NEW t, t = trim_end_breaks(y)
  PROVE  NamesIn(<<y>>) = IF parses(t) /\ NameOf(t) \in Unbroken THEN <<NameOf(t)>> ELSE <<>>
<1>1. t \in Seq(Bytes) /\ Mapped(<<y>>, Trim) = <<t>>
  BY TrimType, TrimLabel, MappedOne
<1>2. Kept_(<<y>>) = IF t \in Good THEN <<t>> ELSE <<>>
  BY <1>1, ThoseOne DEF Kept_
<1>3. Mapped(<<t>>, Label) = <<NameOf(t)>> /\ NameOf(t) \in Seq(Bytes)
  BY <1>1, TrimLabel, MappedOne, NameOfType
<1>4. CASE t \in Good
  <2>1. NamesIn(<<y>>) = Those(<<NameOf(t)>>, Unbroken)
    BY <1>2, <1>3, <1>4 DEF NamesIn
  <2>2. QED
    BY <1>3, <1>4, <2>1, ThoseOne DEF Good
<1>5. CASE t \notin Good
  <2>1. Mapped(<<>>, Label) = <<>>
    BY DEF Mapped
  <2>2. NamesIn(<<y>>) = Those(<<>>, Unbroken)
    BY <1>2, <1>5, <2>1 DEF NamesIn
  <2>3. ~parses(t)
    BY <1>1, <1>5 DEF Good
  <2>4. QED
    BY <2>2, <2>3, PickedEmpty DEF Those
<1>6. QED
  BY <1>4, <1>5

LEMMA NamesEmpty == NamesIn(<<>>) = <<>>
<1>1. Mapped(<<>>, Trim) = <<>> /\ Mapped(<<>>, Label) = <<>>
  BY DEF Mapped
<1>2. QED
  BY <1>1, PickedEmpty DEF NamesIn, Kept_, Those

LEMMA PickedFirst ==
  ASSUME NEW S, NEW s \in Seq(S), Len(s) > 0, NEW P, \A i \in 2..Len(s) : i \notin P
  PROVE  Picked(s, P) = IF 1 \in P THEN <<s[1]>> ELSE <<>>
<1>1. Len(s) \in Nat /\ 1 \in 1..Len(s)
  OBVIOUS
<1>2. PICK x \in S : x = s[1]
  BY <1>1
<1>3. PICK r : r = SubSeq(s, 2, Len(s))
  OBVIOUS
<1>4. r \in Seq(S) /\ Len(r) = Len(s) - 1 /\ \A k \in 1..Len(s) - 1 : r[k] = s[k + 1]
  <2>1. 2 \in 1..Len(s) + 1 /\ Len(s) \in 2 - 1..Len(s)
    BY <1>1
  <2>2. /\ r \in Seq(S) /\ Len(r) = Len(s) - 2 + 1
        /\ \A k \in 1..Len(s) - 2 + 1 : r[k] = s[2 + k - 1]
    BY <1>3, <2>1, SubSeqAt, ZenonT(30)
  <2>3. QED
    BY <1>1, <2>2
<1>5. Joins(<<x>>, r, s)
  <2>1. Len(<<x>>) = 1 /\ <<x>>[1] = x
    OBVIOUS
  <2>2. Len(s) = 1 + Len(r) /\ \A k \in 1..Len(r) : s[1 + k] = r[k]
    BY <1>1, <1>4
  <2>3. QED
    BY <1>2, <2>1, <2>2 DEF Joins
<1>6. <<x>> \in Seq(S)
  OBVIOUS
<1>7. s = <<x>> \o r
  BY <1>4, <1>5, <1>6, JoinsConcat
<1>8. Parted(P, <<x>>, r, P, {})
  <2>1. \A k \in 1..Len(r) : 1 + k \in 2..Len(s)
    BY <1>1, <1>4
  <2>2. \A k \in 1..Len(r) : 1 + k \notin P
    BY <2>1
  <2>3. Len(<<x>>) = 1
    OBVIOUS
  <2>4. QED
    BY <2>2, <2>3 DEF Parted
<1>9. Picked(<<x>> \o r, P) = Picked(<<x>>, P) \o Picked(r, {})
  <2>1. PICK z \in Seq(S) : z = <<x>>
    BY <1>6
  <2>2. Parted(P, z, r, P, {}) /\ r \in Seq(S)
    BY <1>4, <1>8, <2>1
  <2>3. Picked(z \o r, P) = Picked(z, P) \o Picked(r, {})
    BY <2>2, PickedConcat
  <2>4. QED
    BY <2>1, <2>3
<1>10. Picked(r, {}) = <<>>
  BY <1>4, PickedNone
<1>11. Picked(<<x>>, P) = IF 1 \in P THEN <<x>> ELSE <<>>
  BY PickedOne
<1>12. QED
  BY <1>2, <1>7, <1>9, <1>10, <1>11

\* A text of nothing but folds.
Tailed(v) == \A i \in 1..Len(v) : LineBegins(v, i) => v[i] \in Cont

\* A line without the line breaks at its end: its first k bytes.
Trimmed(s, t, k) ==
  /\ t \in Seq(Bytes) /\ k \in 0..Len(s) /\ Len(t) = k /\ \A i \in 1..k : t[i] = s[i]
  /\ k > 0 => s[k] \notin {CR, LF}
  /\ \A j \in k + 1..Len(s) : s[j] \in {CR, LF}

LEMMA TrimmedIs ==
  ASSUME NEW s \in Seq(Bytes), NEW t, t = trim_end_breaks(s)
  PROVE  \E k \in 0..Len(s) : Trimmed(s, t, k)
<1>1. PICK k \in 0..Len(s) :
        /\ trim_end_breaks(s) = SubSeq(s, 1, k)
        /\ k > 0 => s[k] \notin {CR, LF}
        /\ \A j \in k + 1..Len(s) : s[j] \in {CR, LF}
  BY TrimIs
<1>2. t \in Seq(Bytes) /\ Len(t) = k /\ \A i \in 1..k : t[i] = s[i]
  BY <1>1, PrefixAt
<1>3. QED
  BY <1>1, <1>2 DEF Trimmed

LEMMA ColonUnique ==
  ASSUME NEW s \in Seq(Bytes), NEW c \in 1..Len(s), s[c] = COLON, \A j \in 1..c - 1 : s[j] # COLON
  PROVE  FirstColon(s) = c
<1>1. PICK d \in 0..Len(s) :
        /\ d = FirstColon(s)
        /\ d = 0 => \A j \in 1..Len(s) : s[j] # COLON
        /\ d # 0 => s[d] = COLON /\ \A j \in 1..d - 1 : s[j] # COLON
  BY FirstColonIs
<1>2. Len(s) \in Nat
  OBVIOUS
<1>3. d # 0
  BY <1>1
<1>4. ~(d < c)
  <2>1. SUFFICES ASSUME d < c PROVE FALSE
    OBVIOUS
  <2>2. d \in 1..c - 1
    BY <1>2, <1>3, <2>1
  <2>3. QED
    BY <1>1, <1>3, <2>2
<1>5. ~(c < d)
  <2>1. SUFFICES ASSUME c < d PROVE FALSE
    OBVIOUS
  <2>2. c \in 1..d - 1
    BY <1>2, <2>1
  <2>3. QED
    BY <1>1, <1>3, <2>2
<1>6. QED
  BY <1>1, <1>2, <1>4, <1>5

LEMMA NameIs ==
  ASSUME NEW l \in Seq(Bytes), NEW c \in 1..Len(l), c = FirstColon(l)
  PROVE  /\ NameOf(l) \in Seq(Bytes) /\ Len(NameOf(l)) = c - 1
         /\ \A i \in 1..c - 1 : NameOf(l)[i] = l[i]
<1>1. c - 1 \in 0..Len(l) /\ NameOf(l) = SubSeq(l, 1, c - 1)
  BY DEF NameOf
<1>2. QED
  BY <1>1, PrefixAt

\* A colon in a header's first line: its name is the same with its folds and
\* without.
LEMMA NameThere ==
  ASSUME NEW u \in Seq(Bytes), IsLine(u), NEW v \in Seq(Bytes), Whole(v), Tailed(v),
         NEW m, m = trim_end_breaks(u), NEW t, t = trim_end_breaks(u \o v),
         FirstColon(m) > 0
  PROVE  /\ FirstColon(t) = FirstColon(m) /\ NameOf(t) = NameOf(m) /\ NameOf(t) \in Unbroken
         /\ FirstColon(t) < Len(t) <=> FirstColon(m) < Len(m) \/ Len(v) > 0
<1> DEFINE y == u \o v
<1>1. /\ y \in Seq(Bytes) /\ Len(y) = Len(u) + Len(v) /\ Len(u) \in Nat /\ Len(v) \in Nat
      /\ \A i \in 1..Len(u) : y[i] = u[i]
      /\ \A i \in 1..Len(v) : y[Len(u) + i] = v[i]
  BY ConcatAt
<1>2. Len(u) > 0 /\ u[Len(u)] = LF /\ \A j \in 1..Len(u) - 1 : u[j] # LF
  BY DEF IsLine
<1> HIDE DEF y
<1>3. PICK k \in 0..Len(u) : Trimmed(u, m, k)
  BY TrimmedIs
<1>4. PICK p \in 0..Len(y) : Trimmed(y, t, p)
  BY <1>1, TrimmedIs DEF y
<1>5. /\ m \in Seq(Bytes) /\ Len(m) = k /\ \A i \in 1..k : m[i] = u[i]
  BY <1>3 DEF Trimmed
<1>6. PICK c \in 1..k : c = FirstColon(m) /\ m[c] = COLON /\ \A j \in 1..c - 1 : m[j] # COLON
  <2>1. FirstColon(m) \in 0..Len(m) /\ FirstColon(m) # 0
    BY <1>5, FirstColonIs
  <2>2. FirstColon(m) \in 1..k
    BY <1>5, <2>1
  <2>3. QED
    BY <1>5, <2>1, <2>2, FirstColonIs
<1>7. u[c] = COLON /\ c \in 1..Len(u) - 1 /\ \A j \in 1..c - 1 : u[j] # COLON /\ u[j] # LF
  <2>1. u[c] = COLON /\ c \in 1..Len(u)
    BY <1>1, <1>5, <1>6
  <2>2. c # Len(u)
    BY <1>2, <2>1, Kinds
  <2>3. \A j \in 1..c - 1 : j \in 1..k /\ j \in 1..Len(u) - 1
    BY <1>1, <1>6, <2>1
  <2>4. QED
    BY <1>1, <1>2, <1>5, <1>6, <2>1, <2>2, <2>3
<1>8. y[c] = COLON /\ \A j \in 1..c : y[j] = u[j]
  <2>1. \A j \in 1..c : j \in 1..Len(u)
    BY <1>1, <1>7
  <2>2. QED
    BY <1>1, <1>7, <2>1
<1>9. t \in Seq(Bytes) /\ Len(t) = p /\ \A i \in 1..p : t[i] = y[i]
  BY <1>4 DEF Trimmed
<1>10. c \in 1..p /\ (Len(v) > 0 => p > Len(u)) /\ (Len(v) = 0 => p = k)
  <2>1. \A j \in p + 1..Len(y) : y[j] \in {CR, LF}
    BY <1>4 DEF Trimmed
  <2>2. c \in 1..p
    <3>1. SUFFICES ASSUME ~(c <= p) PROVE FALSE
      BY <1>6
    <3>2. c \in p + 1..Len(y)
      BY <1>1, <1>7, <3>1
    <3>3. QED
      BY <1>8, <2>1, <3>2, Kinds
  <2>3. ASSUME Len(v) > 0 PROVE p > Len(u)
    <3>1. LineBegins(v, 1) /\ 1 \in 1..Len(v)
      BY <1>1, <2>3 DEF LineBegins
    <3>2. v[1] \in Cont
      BY <3>1 DEF Tailed
    <3>3. y[Len(u) + 1] \notin {CR, LF}
      BY <1>1, <3>1, <3>2, Kinds DEF Cont, VT, CR, LF
    <3>4. SUFFICES ASSUME ~(p > Len(u)) PROVE FALSE
      OBVIOUS
    <3>5. Len(u) + 1 \in p + 1..Len(y)
      BY <1>1, <2>3, <3>4
    <3>6. QED
      BY <2>1, <3>3, <3>5
  <2>4. ASSUME Len(v) = 0 PROVE p = k
    <3>1. Len(y) = Len(u) /\ \A i \in 1..Len(u) : y[i] = u[i]
      BY <1>1, <2>4
    <3>2. y = u
      BY <1>1, <3>1, SeqEqual
    <3>3. Trimmed(u, t, p) /\ t = m
      BY <1>4, <3>2 DEF y
    <3>4. QED
      BY <1>5, <1>9, <3>3
  <2>5. QED
    BY <2>2, <2>3, <2>4
<1>11. FirstColon(t) = c
  <2>1. \A j \in 1..c - 1 : t[j] # COLON
    <3>1. \A j \in 1..c - 1 : j \in 1..p /\ j \in 1..c
      BY <1>10
    <3>2. QED
      BY <1>7, <1>8, <1>9, <3>1
  <2>2. t[c] = COLON /\ c \in 1..Len(t)
    BY <1>8, <1>9, <1>10
  <2>3. QED
    BY <1>9, <2>1, <2>2, ColonUnique
<1>12. NameOf(t) \in Seq(Bytes) /\ Len(NameOf(t)) = c - 1 /\ \A i \in 1..c - 1 : NameOf(t)[i] = t[i]
  BY <1>9, <1>10, <1>11, NameIs
<1>13. NameOf(m) \in Seq(Bytes) /\ Len(NameOf(m)) = c - 1 /\ \A i \in 1..c - 1 : NameOf(m)[i] = m[i]
  BY <1>5, <1>6, NameIs
<1>14. \A i \in 1..c - 1 : t[i] = m[i] /\ t[i] # LF
  <2>1. \A i \in 1..c - 1 : i \in 1..p /\ i \in 1..c /\ i \in 1..k
    BY <1>6, <1>10
  <2>2. QED
    BY <1>5, <1>7, <1>8, <1>9, <2>1
<1>15. NameOf(t) = NameOf(m)
  BY <1>12, <1>13, <1>14, SeqEqual
<1>16. NameOf(t) \in Unbroken
  BY <1>12, <1>14 DEF Unbroken
<1>17. c < p <=> c < k \/ Len(v) > 0
  BY <1>1, <1>6, <1>7, <1>10
<1>18. QED
  BY <1>5, <1>6, <1>9, <1>11, <1>15, <1>16, <1>17

\* No colon there: what name there may be is broken by the end of that line.
LEMMA NameBroken ==
  ASSUME NEW u \in Seq(Bytes), IsLine(u), NEW v \in Seq(Bytes),
         NEW m, m = trim_end_breaks(u), NEW t, t = trim_end_breaks(u \o v),
         FirstColon(m) = 0, parses(t)
  PROVE  NameOf(t) \notin Unbroken
<1> DEFINE y == u \o v
<1>1. /\ y \in Seq(Bytes) /\ Len(y) = Len(u) + Len(v) /\ Len(u) \in Nat /\ Len(v) \in Nat
      /\ \A i \in 1..Len(u) : y[i] = u[i]
  BY ConcatAt
<1>2. Len(u) > 0 /\ u[Len(u)] = LF
  BY DEF IsLine
<1> HIDE DEF y
<1>3. PICK k \in 0..Len(u) : Trimmed(u, m, k)
  BY TrimmedIs
<1>4. PICK p \in 0..Len(y) : Trimmed(y, t, p)
  BY <1>1, TrimmedIs DEF y
<1>5. t \in Seq(Bytes) /\ Len(t) = p /\ \A i \in 1..p : t[i] = y[i]
  BY <1>4 DEF Trimmed
<1>6. \A j \in 1..Len(u) : u[j] # COLON
  <2>1. /\ m \in Seq(Bytes) /\ Len(m) = k /\ \A i \in 1..k : m[i] = u[i]
        /\ \A j \in k + 1..Len(u) : u[j] \in {CR, LF}
    BY <1>3 DEF Trimmed
  <2>2. \A j \in 1..k : m[j] # COLON
    BY <2>1, FirstColonIs
  <2>3. TAKE j \in 1..Len(u)
  <2>4. CASE j \in 1..k
    BY <2>1, <2>2, <2>4
  <2>5. CASE j \in k + 1..Len(u)
    BY <2>1, <2>5, Kinds
  <2>6. QED
    BY <1>1, <2>4, <2>5
<1>7. FirstColon(t) > 1 /\ FirstColon(t) \in 0..Len(t)
  BY <1>5, FirstColonIs DEF parses
<1>8. PICK c \in 1..Len(t) : c = FirstColon(t) /\ t[c] = COLON
  BY <1>5, <1>7, FirstColonIs
<1>9. Len(u) \in 1..c - 1
  <2>1. c \notin 1..Len(u)
    <3>1. SUFFICES ASSUME c \in 1..Len(u) PROVE FALSE
      OBVIOUS
    <3>2. t[c] = u[c]
      BY <1>1, <1>5, <1>8, <3>1
    <3>3. QED
      BY <1>6, <1>8, <3>1, <3>2
  <2>2. QED
    BY <1>1, <1>2, <1>5, <1>8, <2>1
<1>10. /\ NameOf(t) \in Seq(Bytes) /\ Len(NameOf(t)) = c - 1
       /\ \A i \in 1..c - 1 : NameOf(t)[i] = t[i]
  BY <1>5, <1>8, NameIs
<1>11. NameOf(t)[Len(u)] = LF
  <2>1. Len(u) \in 1..p /\ Len(u) \in 1..Len(u)
    BY <1>1, <1>2, <1>5, <1>8, <1>9
  <2>2. QED
    BY <1>1, <1>2, <1>5, <1>9, <1>10, <2>1
<1>12. QED
  BY <1>9, <1>10, <1>11 DEF Unbroken
=============================================================================
