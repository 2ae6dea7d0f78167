---------------------------- MODULE MessageProofs ----------------------------
(***************************************************************************)
(* What the runs of Message check, for every input, answer and bound: the  *)
(* proxy stops at the message's own terminator, the cap is on the message, *)
(* and what the upstream is handed is what the client sent and the API     *)
(* answered.                                                               *)
(***************************************************************************)
EXTENDS Message, WireProofs

-----------------------------------------------------------------------------
(* The first terminator and the first empty line of a text *)

TermAt(s, i) == LineBegins(s, i) /\ is_terminator(LineAt(s, i))
BlankAt(s, i) == LineBegins(s, i) /\ is_empty_line(LineAt(s, i))

FirstAt(s, k) ==
  k \in 1..Len(s) + 1 /\ (\A i \in 1..k - 1 : ~TermAt(s, i)) /\ (k <= Len(s) => TermAt(s, k))
BlankFirstAt(s, k) ==
  k \in 1..Len(s) + 1 /\ (\A i \in 1..k - 1 : ~BlankAt(s, i)) /\ (k <= Len(s) => BlankAt(s, k))

LEMMA FirstTerminatorIs ==
  ASSUME NEW s \in Seq(Bytes)
  PROVE  FirstAt(s, FirstTerminator(s))
<1> DEFINE T == {i \in DOMAIN s : TermAt(s, i)}
<1>1. Len(s) \in Nat /\ DOMAIN s = 1..Len(s)
  OBVIOUS
<1>2. FirstTerminator(s) = IF T = {} THEN Len(s) + 1 ELSE Min(T)
  BY Zenon DEF FirstTerminator, TermAt
<1>3. CASE T = {}
  <2>1. FirstTerminator(s) = Len(s) + 1
    BY <1>2, <1>3
  <2>2. \A i \in 1..Len(s) : ~TermAt(s, i)
    BY <1>1, <1>3
  <2> HIDE DEF T
  <2>3. QED
    BY <1>1, <2>1, <2>2 DEF FirstAt
<1>4. CASE T # {}
  <2>1. T \subseteq Nat
    BY <1>1
  <2>2. Min(T) \in T /\ \A y \in T : Min(T) <= y
    <3> HIDE DEF T
    <3>1. QED
      BY <1>4, <2>1, MinOf
  <2>3. PICK k : k = FirstTerminator(s) /\ k = Min(T)
    BY <1>2, <1>4
  <2>4. k \in 1..Len(s) /\ TermAt(s, k) /\ \A y \in 1..Len(s) : TermAt(s, y) => k <= y
    BY <1>1, <2>2, <2>3
  <2>5. k \in 1..Len(s) + 1 /\ \A i \in 1..k - 1 : i \in 1..Len(s) /\ ~(k <= i)
    BY <1>1, <2>4
  <2>6. \A i \in 1..k - 1 : ~TermAt(s, i)
    BY <2>4, <2>5, Zenon
  <2>7. QED
    BY <2>3, <2>4, <2>5, <2>6, Zenon DEF FirstAt
<1>5. QED
  BY <1>3, <1>4

LEMMA FirstTerminatorUnique ==
  ASSUME NEW s \in Seq(Bytes), NEW k, FirstAt(s, k)
  PROVE  FirstTerminator(s) = k
<1>1. Len(s) \in Nat
  OBVIOUS
<1>2. PICK d : d = FirstTerminator(s)
  OBVIOUS
<1>3. FirstAt(s, d)
  BY <1>2, FirstTerminatorIs
<1>4. k \in 1..Len(s) + 1 /\ d \in 1..Len(s) + 1
  BY <1>3 DEF FirstAt
<1>5. ~(d < k)
  <2>1. SUFFICES ASSUME d < k PROVE FALSE
    OBVIOUS
  <2>2. d \in 1..k - 1 /\ d <= Len(s)
    BY <1>1, <1>4, <2>1
  <2>3. QED
    BY <1>3, <2>2, Zenon DEF FirstAt
<1>6. ~(k < d)
  <2>1. SUFFICES ASSUME k < d PROVE FALSE
    OBVIOUS
  <2>2. k \in 1..d - 1 /\ k <= Len(s)
    BY <1>1, <1>4, <2>1
  <2>3. QED
    BY <1>3, <2>2, Zenon DEF FirstAt
<1>7. QED
  BY <1>1, <1>2, <1>4, <1>5, <1>6

LEMMA FirstBlankIs ==
  ASSUME NEW s \in Seq(Bytes)
  PROVE  BlankFirstAt(s, FirstBlank(s))
<1> DEFINE T == {i \in DOMAIN s : BlankAt(s, i)}
<1>1. Len(s) \in Nat /\ DOMAIN s = 1..Len(s)
  OBVIOUS
<1>2. FirstBlank(s) = IF T = {} THEN Len(s) + 1 ELSE Min(T)
  BY Zenon DEF FirstBlank, BlankAt
<1>3. CASE T = {}
  <2>1. FirstBlank(s) = Len(s) + 1
    BY <1>2, <1>3
  <2>2. \A i \in 1..Len(s) : ~BlankAt(s, i)
    BY <1>1, <1>3
  <2> HIDE DEF T
  <2>3. QED
    BY <1>1, <2>1, <2>2 DEF BlankFirstAt
<1>4. CASE T # {}
  <2>1. T \subseteq Nat
    BY <1>1
  <2>2. Min(T) \in T /\ \A y \in T : Min(T) <= y
    <3> HIDE DEF T
    <3>1. QED
      BY <1>4, <2>1, MinOf
  <2>3. PICK k : k = FirstBlank(s) /\ k = Min(T)
    BY <1>2, <1>4
  <2>4. k \in 1..Len(s) /\ BlankAt(s, k) /\ \A y \in 1..Len(s) : BlankAt(s, y) => k <= y
    BY <1>1, <2>2, <2>3
  <2>5. k \in 1..Len(s) + 1 /\ \A i \in 1..k - 1 : i \in 1..Len(s) /\ ~(k <= i)
    BY <1>1, <2>4
  <2>6. \A i \in 1..k - 1 : ~BlankAt(s, i)
    BY <2>4, <2>5, Zenon
  <2>7. QED
    BY <2>3, <2>4, <2>5, <2>6, Zenon DEF BlankFirstAt
<1>5. QED
  BY <1>3, <1>4

LEMMA FirstBlankUnique ==
  ASSUME NEW s \in Seq(Bytes), NEW k, BlankFirstAt(s, k)
  PROVE  FirstBlank(s) = k
<1>1. Len(s) \in Nat
  OBVIOUS
<1>2. PICK d : d = FirstBlank(s)
  OBVIOUS
<1>3. BlankFirstAt(s, d)
  BY <1>2, FirstBlankIs
<1>4. k \in 1..Len(s) + 1 /\ d \in 1..Len(s) + 1
  BY <1>3 DEF BlankFirstAt
<1>5. ~(d < k)
  <2>1. SUFFICES ASSUME d < k PROVE FALSE
    OBVIOUS
  <2>2. d \in 1..k - 1 /\ d <= Len(s)
    BY <1>1, <1>4, <2>1
  <2>3. QED
    BY <1>3, <2>2, Zenon DEF BlankFirstAt
<1>6. ~(k < d)
  <2>1. SUFFICES ASSUME k < d PROVE FALSE
    OBVIOUS
  <2>2. k \in 1..d - 1 /\ k <= Len(s)
    BY <1>1, <1>4, <2>1
  <2>3. QED
    BY <1>3, <2>2, Zenon DEF BlankFirstAt
<1>7. QED
  BY <1>1, <1>2, <1>4, <1>5, <1>6

-----------------------------------------------------------------------------
(* unstuff *)

\* The bytes of s that stay.
Stays(s) == {i \in DOMAIN s : ~(s[i] = DOT /\ LineBegins(s, i))}

LEMMA UnstuffType ==
  ASSUME NEW s \in Seq(Bytes)
  PROVE  unstuff(s) \in Seq(Bytes)
BY PickedType DEF unstuff

\* A prefix keeps what it has ...
LEMMA UnstuffPrefix ==
  ASSUME NEW a \in Seq(Bytes), NEW b \in Seq(Bytes)
  PROVE  \E x \in Seq(Bytes) : unstuff(a \o b) = unstuff(a) \o x
<1> DEFINE s == a \o b
           B == {i \in 1..Len(b) : Len(a) + i \in Stays(s)}
<1>1. /\ Len(s) = Len(a) + Len(b) /\ Len(a) \in Nat /\ Len(b) \in Nat
      /\ DOMAIN s = 1..Len(s) /\ DOMAIN a = 1..Len(a) /\ \A i \in 1..Len(a) : s[i] = a[i]
  OBVIOUS
<1>2. \A i \in 1..Len(a) : i \in DOMAIN s /\ i \in DOMAIN a /\ (LineBegins(s, i) <=> LineBegins(a, i))
  BY <1>1, BeginsConcat
<1> HIDE DEF s
<1>3. \A i \in 1..Len(a) : i \in Stays(a) <=> i \in Stays(s)
  BY <1>1, <1>2 DEF Stays
<1>4. \A i \in 1..Len(b) : i \in B <=> Len(a) + i \in Stays(s)
  OBVIOUS
<1> HIDE DEF B
<1>5. Picked(s, Stays(s)) = Picked(a, Stays(a)) \o Picked(b, B)
  <2>1. Parted(Stays(s), a, b, Stays(a), B)
    BY <1>3, <1>4, Zenon DEF Parted
  <2>2. QED
    BY <2>1, PickedConcat DEF s
<1>6. Picked(b, B) \in Seq(Bytes)
  BY PickedType
<1>7. unstuff(s) = Picked(s, Stays(s)) /\ unstuff(a) = Picked(a, Stays(a))
  BY DEF unstuff, Stays
<1>8. QED
  BY <1>5, <1>6, <1>7 DEF s

\* ... and whole lines are unstuffed one by one.
LEMMA UnstuffConcat ==
  ASSUME NEW a \in Seq(Bytes), NEW b \in Seq(Bytes), Whole(a)
  PROVE  unstuff(a \o b) = unstuff(a) \o unstuff(b)
<1> DEFINE s == a \o b
           m == Len(a)
           n == Len(b)
<1>1. /\ Len(s) = m + n /\ m \in Nat /\ n \in Nat
      /\ DOMAIN s = 1..m + n /\ DOMAIN a = 1..m /\ DOMAIN b = 1..n
      /\ \A i \in 1..m : s[i] = a[i]
      /\ \A i \in 1..n : s[m + i] = b[i]
  OBVIOUS
<1>2. \A i \in 1..m : LineBegins(s, i) <=> LineBegins(a, i)
  BY BeginsConcat
<1>3. \A i \in 1..n : LineBegins(s, m + i) <=> LineBegins(b, i)
  <2>1. TAKE i \in 1..n
  <2>2. CASE i = 1
    BY <2>2, BeginsConcat DEF LineBegins
  <2>3. CASE i \in 2..n
    BY <2>3, BeginsConcat
  <2>4. QED
    BY <1>1, <2>2, <2>3
<1> HIDE DEF s, m, n
<1>4. \A i \in 1..m : i \in Stays(a) <=> i \in Stays(s)
  <2>1. \A i \in 1..m : i \in 1..m + n
    BY <1>1
  <2>2. QED
    BY <1>1, <1>2, <2>1 DEF Stays
<1>5. \A i \in 1..n : i \in Stays(b) <=> m + i \in Stays(s)
  <2>1. \A i \in 1..n : m + i \in 1..m + n
    BY <1>1
  <2>2. QED
    BY <1>1, <1>3, <2>1 DEF Stays
<1>6. Picked(s, Stays(s)) = Picked(a, Stays(a)) \o Picked(b, Stays(b))
  <2>1. Parted(Stays(s), a, b, Stays(a), Stays(b))
    BY <1>4, <1>5, Zenon DEF Parted, m, n
  <2>2. QED
    BY <2>1, PickedConcat DEF s
<1>7. QED
  BY <1>6 DEF unstuff, Stays, s

LEMMA UnstuffEmpty == unstuff(<<>>) = <<>>
BY PickedEmpty DEF unstuff

\* One line, or what has been read of one.
LEMMA UnstuffLine ==
  ASSUME NEW l \in Seq(Bytes), \A j \in 1..Len(l) - 1 : l[j] # LF
  PROVE  /\ unstuff(l) = Unstuffed(l) /\ Unstuffed(l) \in Seq(Bytes)
         /\ Len(Unstuffed(l)) >= Len(l) - 1
<1>1. Len(l) \in Nat
  OBVIOUS
<1>2. CASE Len(l) = 0
  <2>1. l = <<>>
    BY <1>2, EmptySeq
  <2>2. Unstuffed(l) = l
    BY <2>1 DEF Unstuffed
  <2>3. unstuff(l) = l
    BY <2>1, UnstuffEmpty
  <2>4. Len(l) >= Len(l) - 1
    BY <1>1
  <2>5. QED
    BY <2>2, <2>3, <2>4
<1>3. CASE Len(l) > 0
  <2> DEFINE x == l[1]
             r == Tail(l)
  <2>1. /\ x \in Bytes /\ r \in Seq(Bytes) /\ Len(r) = Len(l) - 1 /\ l # <<>>
        /\ <<x>> \in Seq(Bytes) /\ Len(<<x>>) = 1
    BY <1>3
  <2>2. l = <<x>> \o r
    BY <1>3
  <2>3. /\ 1 \in Stays(l) <=> x # DOT
        /\ \A i \in 1..Len(r) : 1 + i \in Stays(l)
    <3>1. LineBegins(l, 1) /\ 1 \in DOMAIN l
      BY <1>3 DEF LineBegins
    <3>2. ASSUME NEW i \in 1..Len(r) PROVE 1 + i \in DOMAIN l /\ ~LineBegins(l, 1 + i)
      <4>1. i \in 1..Len(l) - 1 /\ (1 + i) - 1 = i /\ 1 + i # 1 /\ 1 + i \in 1..Len(l)
        BY <1>1, <2>1
      <4>2. QED
        BY <4>1 DEF LineBegins
    <3>3. QED
      BY <3>1, <3>2 DEF Stays
  <2>4. Picked(<<x>> \o r, Stays(l)) = Picked(<<x>>, Stays(l)) \o Picked(r, 1..Len(r))
    <3>1. \A i \in 1..Len(r) : i \in 1..Len(r) <=> Len(<<x>>) + i \in Stays(l)
      BY <2>1, <2>3
    <3> HIDE DEF x, r
    <3>2. PICK y \in Seq(Bytes) : y = <<x>>
      BY <2>1
    <3>3. Parted(Stays(l), y, r, Stays(l), 1..Len(r))
      <4>1. \A i \in 1..Len(y) : i \in Stays(l) <=> i \in Stays(l)
        OBVIOUS
      <4>2. QED
        BY <3>1, <3>2, <4>1, Zenon DEF Parted
    <3>4. Picked(y \o r, Stays(l)) = Picked(y, Stays(l)) \o Picked(r, 1..Len(r))
      BY <2>1, <3>3, PickedConcat
    <3>5. QED
      BY <3>2, <3>4, Zenon
  <2>5. Picked(r, 1..Len(r)) = r
    BY <2>1, PickedAll
  <2>6. Picked(<<x>>, Stays(l)) = IF x # DOT THEN <<x>> ELSE <<>>
    BY <2>1, <2>3, PickedOne
  <2>7. unstuff(l) = (IF x # DOT THEN <<x>> ELSE <<>>) \o r
    BY <2>2, <2>4, <2>5, <2>6 DEF unstuff, Stays
  <2>8. CASE x = DOT
    <3>1. Unstuffed(l) = r
      BY <2>1, <2>8, Zenon DEF Unstuffed
    <3>2. unstuff(l) = r
      BY <2>1, <2>7, <2>8, ConcatEmptySeq
    <3>3. Len(r) >= Len(l) - 1
      BY <1>1, <2>1
    <3>4. QED
      BY <2>1, <3>1, <3>2, <3>3
  <2>9. CASE x # DOT
    <3>1. Unstuffed(l) = l
      BY <2>9, Zenon DEF Unstuffed
    <3>2. unstuff(l) = l
      BY <2>2, <2>7, <2>9
    <3>3. Len(l) >= Len(l) - 1
      BY <1>1
    <3>4. QED
      BY <3>1, <3>2, <3>3
  <2>10. QED
    BY <2>8, <2>9
<1>4. QED
  BY <1>1, <1>2, <1>3

-----------------------------------------------------------------------------
(* The text in front of the terminator *)

LEMMA PrefixRest ==
  ASSUME NEW S, NEW s \in Seq(S), NEW k \in 0..Len(s)
  PROVE  /\ s = SubSeq(s, 1, k) \o SubSeq(s, k + 1, Len(s))
         /\ SubSeq(s, k + 1, Len(s)) \in Seq(S) /\ Len(SubSeq(s, k + 1, Len(s))) = Len(s) - k
<1>1. Len(s) \in Nat /\ k \in Nat
  OBVIOUS
<1>2. 1 \in 1..Len(s) + 1 /\ k \in 1 - 1..Len(s) /\ Len(s) \in k..Len(s)
  BY <1>1
<1>3. SubSeq(s, 1, k) \o SubSeq(s, k + 1, Len(s)) = SubSeq(s, 1, Len(s))
  BY <1>2, ConcatAdjacentSubSeq
<1>4. SubSeq(s, 1, Len(s)) = s
  BY SubSeqFull
<1>5. Len(s) \in 0..Len(s)
  BY <1>1
<1>6. QED
  BY <1>3, <1>4, <1>5, Stretch

LEMMA TextIs ==
  ASSUME input \in Seq(Bytes)
  PROVE  /\ FirstAt(input, FirstTerminator(input))
         /\ Text \in Seq(Bytes) /\ Len(Text) = FirstTerminator(input) - 1
         /\ Terminated => Whole(Text)
         /\ \A i \in 1..Len(Text) : /\ Text[i] = input[i]
                                    /\ BlankAt(Text, i) <=> BlankAt(input, i)
                                    /\ TermAt(Text, i) <=> TermAt(input, i)
                                    /\ LineEnd(Text, i) = LineEnd(input, i)
<1> DEFINE k == FirstTerminator(input)
<1>1. FirstAt(input, k)
  BY FirstTerminatorIs
<1>2. k \in 1..Len(input) + 1 /\ Len(input) \in Nat
  BY <1>1 DEF FirstAt
<1> HIDE DEF k
<1>3. Text = SubSeq(input, 1, k - 1) /\ (Terminated <=> k <= Len(input))
  BY DEF Text, k, Terminated
<1>4. k - 1 \in 0..Len(input)
  BY <1>2
<1>5. Text \in Seq(Bytes) /\ Len(Text) = k - 1 /\ \A i \in 1..k - 1 : Text[i] = input[i]
  BY <1>3, <1>4, PrefixAt
<1>6. CASE k = Len(input) + 1
  <2>1. Text = input
    <3>1. k - 1 = Len(input)
      BY <1>2, <1>6
    <3>2. QED
      BY <1>3, <3>1, SubSeqFull
  <2>2. ~Terminated
    BY <1>2, <1>3, <1>6
  <2>3. QED
    BY <1>1, <1>5, <2>1, <2>2 DEF k
<1>7. CASE k <= Len(input)
  <2> DEFINE rest == SubSeq(input, (k - 1) + 1, Len(input))
  <2>1. input = Text \o rest /\ rest \in Seq(Bytes)
    BY <1>3, <1>4, PrefixRest
  <2> HIDE DEF rest
  <2>2. Whole(Text)
    <3>1. LineBegins(input, k)
      BY <1>1, <1>7 DEF FirstAt, TermAt
    <3>2. CASE k = 1
      BY <1>5, <3>2 DEF Whole
    <3>3. CASE k # 1
      <4>1. k - 1 \in 1..k - 1 /\ input[k - 1] = LF
        BY <1>2, <3>1, <3>3 DEF LineBegins
      <4>2. QED
        BY <1>5, <4>1 DEF Whole
    <3>4. QED
      BY <3>2, <3>3
  <2>3. \A i \in 1..Len(Text) : /\ LineBegins(input, i) <=> LineBegins(Text, i)
                                /\ LineEnd(input, i) = LineEnd(Text, i)
                                /\ LineAt(input, i) = LineAt(Text, i)
    BY <1>5, <2>1, <2>2, BeginsConcat, LineConcatLeft
  <2>4. \A i \in 1..Len(Text) : BlankAt(Text, i) <=> BlankAt(input, i)
    BY <2>3, Zenon DEF BlankAt
  <2>5. \A i \in 1..Len(Text) : TermAt(Text, i) <=> TermAt(input, i)
    BY <2>3, Zenon DEF TermAt
  <2>6. QED
    BY <1>1, <1>5, <2>2, <2>3, <2>4, <2>5 DEF k
<1>8. QED
  BY <1>2, <1>6, <1>7

-----------------------------------------------------------------------------
(* What a reader makes of lines one behind another *)

\* The line behind whole lines, and those in front of it.
Behind(g, l, t) ==
  /\ t \in Seq(Bytes) /\ Len(g) \in Nat /\ Len(g) + Len(l) <= Len(t) /\ Len(g) + 1 \in 1..Len(t)
  /\ LineBegins(t, Len(g) + 1) /\ LineAt(t, Len(g) + 1) = l
  /\ LineEnd(t, Len(g) + 1) = Len(g) + Len(l)
  /\ \A i \in 1..Len(g) : (LineBegins(t, i) <=> LineBegins(g, i)) /\ LineAt(t, i) = LineAt(g, i)

LEMMA LineBehind ==
  ASSUME NEW g \in Seq(Bytes), Whole(g), NEW l \in Seq(Bytes), IsLine(l), NEW w \in Seq(Bytes)
  PROVE  Behind(g, l, g \o (l \o w))
<1>1. PICK c \in Seq(Bytes) : c = l \o w
  BY ConcatAt
<1>2. PICK t \in Seq(Bytes) : t = g \o c
  BY ConcatAt
<1>3. Whole(l) /\ Len(l) > 0 /\ Len(l) \in Nat /\ 1 \in 1..Len(l)
  BY DEF IsLine, Whole
<1>4. Len(c) = Len(l) + Len(w) /\ Len(w) \in Nat /\ 1 \in 1..Len(c) /\ Len(l) <= Len(c)
  BY <1>1, <1>3
<1>5. LineEnd(c, 1) = Len(l) /\ LineAt(c, 1) = l
  <2>1. LineEnd(l, 1) = Len(l) /\ LineAt(l, 1) = l
    BY LineOfLine
  <2>2. QED
    BY <1>1, <1>3, <2>1, LineConcatLeft
<1>6. Len(t) = Len(g) + Len(c) /\ Len(g) \in Nat
  BY <1>2
<1>7. LineEnd(t, Len(g) + 1) = Len(g) + Len(l) /\ LineAt(t, Len(g) + 1) = l
  <2>1. /\ LineEnd(g \o c, Len(g) + 1) = Len(g) + LineEnd(c, 1)
        /\ LineAt(g \o c, Len(g) + 1) = LineAt(c, 1)
    BY <1>4, LineConcatRight
  <2>2. QED
    BY <1>2, <1>5, <2>1
<1>8. LineBegins(t, Len(g) + 1) /\ \A i \in 1..Len(g) : LineBegins(t, i) <=> LineBegins(g, i)
  BY <1>2, <1>3, <1>4, BeginsConcat
<1>9. \A i \in 1..Len(g) : LineAt(t, i) = LineAt(g, i)
  BY <1>2, LineConcatLeft
<1>10. Len(g) + Len(l) <= Len(t) /\ Len(g) + 1 \in 1..Len(t)
  BY <1>3, <1>4, <1>6
<1>11. QED
  BY <1>1, <1>2, <1>6, <1>7, <1>8, <1>9, <1>10 DEF Behind

\* The first empty line is behind lines that are none ...
LEMMA BlankBehind ==
  ASSUME NEW g \in Seq(Bytes), Whole(g), NoLine(g, Empties), NEW w \in Seq(Bytes)
  PROVE  /\ FirstBlank(g \o (CRLF \o w)) = Len(g) + 1
         /\ LineEnd(g \o (CRLF \o w), Len(g) + 1) = Len(g) + 2
<1>1. PICK l \in Seq(Bytes) : l = CRLF /\ Len(l) = 2 /\ l[1] = CR /\ l[2] = LF
  BY ByteSeqs, Kinds
<1>2. IsLine(l)
  <2>1. \A j \in 1..Len(l) - 1 : l[j] # LF
    BY <1>1, Kinds
  <2>2. QED
    BY <1>1, <2>1 DEF IsLine
<1>3. PICK t : t = g \o (l \o w)
  OBVIOUS
<1>4. Behind(g, l, t)
  BY <1>2, <1>3, LineBehind
<1>5. BlankAt(t, Len(g) + 1)
  BY <1>1, <1>4, Zenon DEF Behind, BlankAt, is_empty_line
<1>6. ASSUME NEW i \in 1..Len(g) PROVE ~BlankAt(t, i)
  <2>1. SUFFICES ASSUME BlankAt(t, i) PROVE FALSE
    OBVIOUS
  <2>2. LineBegins(g, i) /\ LineAt(g, i) \in Empties
    BY <1>4, <2>1, Zenon DEF Behind, BlankAt, is_empty_line, Empties
  <2>3. QED
    BY <2>2 DEF NoLine
<1>7. BlankFirstAt(t, Len(g) + 1)
  <2>1. Len(g) + 1 \in 1..Len(t) + 1 /\ (Len(g) + 1) - 1 = Len(g)
    BY <1>4 DEF Behind
  <2>2. QED
    BY <1>5, <1>6, <2>1 DEF BlankFirstAt
<1>8. FirstBlank(t) = Len(g) + 1
  BY <1>4, <1>7, FirstBlankUnique DEF Behind
<1>9. LineEnd(t, Len(g) + 1) = Len(g) + 2
  BY <1>1, <1>4 DEF Behind
<1>10. QED
  BY <1>1, <1>3, <1>8, <1>9

\* ... and so is the first terminator.
LEMMA TerminatorBehind ==
  ASSUME NEW g \in Seq(Bytes), Whole(g), NoLine(g, Terminators)
  PROVE  LET t == g \o (<<DOT>> \o CRLF)
         IN  /\ FirstTerminator(t) = Len(g) + 1 /\ Len(g) + 1 <= Len(t)
             /\ LineEnd(t, Len(g) + 1) = Len(t)
<1>1. PICK l \in Seq(Bytes) : l = <<DOT>> \o CRLF /\ Len(l) = 3 /\ l[1] = DOT /\ l[2] = CR /\ l[3] = LF
  <2>1. <<DOT>> \in Seq(Bytes) /\ Len(<<DOT>>) = 1 /\ <<DOT>>[1] = DOT
    BY ByteSeqs, Kinds
  <2>2. PICK d \in Seq(Bytes) : d = <<DOT>> /\ Len(d) = 1 /\ d[1] = DOT
    BY <2>1
  <2>3. PICK l \in Seq(Bytes) : l = d \o CRLF
    BY AddCRLF
  <2>4. /\ Len(l) = Len(d) + 2 /\ (\A i \in 1..Len(d) : l[i] = d[i])
        /\ l[Len(d) + 1] = CR /\ l[Len(d) + 2] = LF
    BY <2>3, AddCRLF
  <2>5. Len(l) = 3 /\ l[1] = DOT /\ l[2] = CR /\ l[3] = LF
    <3>1. 1 \in 1..Len(d) /\ Len(d) + 1 = 2 /\ Len(d) + 2 = 3
      BY <2>2
    <3>2. QED
      BY <2>2, <2>4, <3>1
  <2>6. l = <<DOT>> \o CRLF
    BY <2>2, <2>3
  <2>7. QED
    BY <2>5, <2>6
<1>2. IsLine(l)
  <2>1. \A j \in 1..Len(l) - 1 : l[j] # LF
    <3>1. \A j \in 1..Len(l) - 1 : j = 1 \/ j = 2
      BY <1>1
    <3>2. QED
      BY <1>1, <3>1, Kinds
  <2>2. QED
    BY <1>1, <2>1 DEF IsLine
<1>3. PICK t : t = g \o l
  OBVIOUS
<1>4. Behind(g, l, t)
  <2>1. l \o <<>> = l /\ <<>> \in Seq(Bytes)
    BY ByteSeqs, ConcatEmptySeq
  <2>2. Behind(g, l, g \o (l \o <<>>))
    BY <1>2, <2>1, LineBehind
  <2>3. QED
    BY <1>3, <2>1, <2>2
<1>5. TermAt(t, Len(g) + 1)
  BY <1>1, <1>4, Zenon DEF Behind, TermAt, is_terminator
<1>6. ASSUME NEW i \in 1..Len(g) PROVE ~TermAt(t, i)
  <2>1. SUFFICES ASSUME TermAt(t, i) PROVE FALSE
    OBVIOUS
  <2>2. LineBegins(g, i) /\ LineAt(g, i) \in Terminators
    BY <1>4, <2>1, Zenon DEF Behind, TermAt, is_terminator, Terminators
  <2>3. QED
    BY <2>2 DEF NoLine
<1>7. FirstAt(t, Len(g) + 1)
  <2>1. Len(g) + 1 \in 1..Len(t) + 1 /\ (Len(g) + 1) - 1 = Len(g)
    BY <1>4 DEF Behind
  <2>2. QED
    BY <1>5, <1>6, <2>1 DEF FirstAt
<1>8. FirstTerminator(t) = Len(g) + 1
  BY <1>4, <1>7, FirstTerminatorUnique DEF Behind
<1>9. Len(t) = Len(g) + Len(l)
  BY <1>3
<1>10. LineEnd(t, Len(g) + 1) = Len(t) /\ Len(g) + 1 <= Len(t)
  <2>1. LineEnd(t, Len(g) + 1) = Len(t)
    BY <1>4, <1>9 DEF Behind
  <2>2. Len(g) + 1 <= Len(t)
    BY <1>4 DEF Behind
  <2>3. QED
    BY <2>1, <2>2
<1>11. QED
  BY <1>1, <1>3, <1>8, <1>10

\* unstuff undoes dot_stuff.
LEMMA UnstuffStuffed ==
  ASSUME NEW s \in Seq(Bytes), Whole(s)
  PROVE  unstuff(dot_stuff(s)) = s
<1> DEFINE T == {t \in Seq(Bytes) : unstuff(dot_stuff(t)) = t}
<1>1. <<>> \in T
  BY ByteSeqs, DotEmpty, UnstuffEmpty, Zenon
<1>2. ASSUME NEW a \in Seq(Bytes), NEW l \in Seq(Bytes), a \in T, Whole(a), IsLine(l)
      PROVE  a \o l \in T
  <2>1. PICK A \in Seq(Bytes) : A = dot_stuff(a) /\ Whole(A) /\ unstuff(A) = a
    BY <1>2, DotType, DotLines
  <2>2. PICK L \in Seq(Bytes) :
          L = dot_stuff(l) /\ L = (IF l[1] = DOT THEN <<DOT>> \o l ELSE l) /\ IsLine(L) /\ L[1] = l[1]
    BY <1>2, StuffedLine
  <2>3. dot_stuff(a \o l) = A \o L
    BY <1>2, <2>1, <2>2, DotConcat, ZenonT(30)
  <2>4. unstuff(A \o L) = a \o unstuff(L)
    BY <2>1, UnstuffConcat
  <2>5. unstuff(L) = Unstuffed(L)
    BY <2>2, UnstuffLine DEF IsLine
  <2>6. Unstuffed(L) = l
    <3>1. CASE l[1] = DOT
      <4>1. L = <<DOT>> \o l
        BY <2>2, <3>1
      <4>2. L # <<>> /\ L[1] = DOT
        BY <2>2, <3>1 DEF IsLine
      <4>3. Tail(<<DOT>> \o l) = l
        OBVIOUS
      <4>4. QED
        BY <4>1, <4>2, <4>3, Zenon DEF Unstuffed
    <3>2. CASE l[1] # DOT
      <4>1. L = l
        BY <2>2, <3>2
      <4>2. QED
        BY <3>2, <4>1, Zenon DEF Unstuffed
    <3>3. QED
      BY <3>1, <3>2
  <2>7. a \o l \in Seq(Bytes)
    BY ConcatAt
  <2>8. QED
    BY <2>3, <2>4, <2>5, <2>6, <2>7
<1>3. \A t \in Seq(Bytes) : Whole(t) => t \in T
  <2> HIDE DEF T
  <2>1. QED
    BY <1>1, <1>2, LineInduction
<1>4. QED
  BY <1>3

\* The header lines of a text, unstuffed and unfolded.
HeaderLinesOf(t) == Unfold(unstuff(SubSeq(t, 1, FirstBlank(t) - 1)), {SP})

\* A text that begins with a header block: where its body begins, and what its
\* header reads as.
LEMMA BlockReads ==
  ASSUME NEW hs \in Seq(RelayableHeaders), NEW w \in Seq(Bytes), NEW t, t = header_block(hs) \o w
  PROVE  /\ LineEnd(t, FirstBlank(t)) = Len(header_block(hs))
         /\ HeaderLinesOf(t) = Sent_(hs)
         /\ header_block(hs) \in Seq(Bytes) /\ Whole(header_block(hs))
         /\ NoLine(header_block(hs), Terminators)
<1>1. PICK g \in Seq(Bytes) :
        /\ g = dot_stuff(Plain(hs)) /\ header_block(hs) = g \o CRLF /\ Whole(g)
        /\ NoLine(g, Terminators) /\ NoLine(g, Empties)
  BY BlockIs
<1>2. PICK p \in Seq(Bytes) : p = Plain(hs) /\ Whole(p) /\ Unfold(p, {SP}) = Sent_(hs)
  BY AllUnfolds DEF Unfolds
<1>3. PICK c \in Seq(Bytes) : c = CRLF /\ Len(c) = 2 /\ c[1] = CR /\ c[2] = LF
  BY ByteSeqs, Kinds
<1>4. IsLine(c)
  <2>1. \A j \in 1..Len(c) - 1 : c[j] # LF
    BY <1>3, Kinds
  <2>2. QED
    BY <1>3, <2>1 DEF IsLine
<1>5. PICK b \in Seq(Bytes) : b = header_block(hs) /\ b = g \o c /\ Len(b) = Len(g) + 2
  <2>1. g \o c \in Seq(Bytes) /\ Len(g \o c) = Len(g) + Len(c)
    BY ConcatAt
  <2>2. QED
    BY <1>1, <1>3, <2>1
<1>6. t = g \o (c \o w)
  <2>1. AssocAt(g, c, w)
    BY Assoc
  <2>2. QED
    BY <1>5, <2>1 DEF AssocAt
<1>7. FirstBlank(t) = Len(g) + 1 /\ LineEnd(t, Len(g) + 1) = Len(g) + 2
  BY <1>1, <1>3, <1>6, BlankBehind
<1>8. SubSeq(t, 1, FirstBlank(t) - 1) = g
  <2>1. PICK v \in Seq(Bytes) : v = c \o w
    BY ConcatAt
  <2>2. SubSeq(g \o v, 1, Len(g)) = g
    OBVIOUS
  <2>3. (Len(g) + 1) - 1 = Len(g)
    OBVIOUS
  <2>4. QED
    BY <1>6, <1>7, <2>1, <2>2, <2>3
<1>9. unstuff(g) = p
  BY <1>1, <1>2, UnstuffStuffed
<1>10. HeaderLinesOf(t) = Sent_(hs)
  BY <1>2, <1>8, <1>9 DEF HeaderLinesOf
<1>11. Whole(b)
  BY <1>1, <1>4, <1>5, WholeConcat DEF IsLine, Whole
<1>12. NoLine(b, Terminators)
  <2>1. c \notin Terminators
    <3>1. SUFFICES ASSUME is_terminator(c) PROVE FALSE
      BY TerminatorIs
    <3>2. c[1] = DOT
      BY <3>1, TerminatorIs
    <3>3. QED
      BY <1>3, <3>2, Kinds
  <2>2. NoLine(c, Terminators)
    BY <1>4, <2>1, NoLineOne
  <2>3. QED
    BY <1>1, <1>5, <2>2, NoLineConcat
<1>13. LineEnd(t, FirstBlank(t)) = Len(b)
  BY <1>5, <1>7
<1>14. QED
  BY <1>5, <1>10, <1>11, <1>12, <1>13

-----------------------------------------------------------------------------
(* The framer *)

Framer == [out : Seq(Bytes), at_line_start : BOOLEAN, held_cr : BOOLEAN]

\* The byte the framer holds back.
HeldByte(f) == IF f.held_cr THEN <<CR>> ELSE <<>>

\* z is what append adds of `bytes' to what f has staged, and g what it makes of f.
Added(f, bytes, g, z) ==
  /\ g \in Framer /\ z \in Seq(Bytes)
  /\ g.at_line_start = f.at_line_start /\ g.out = f.out \o normalize_breaks(z)
  /\ z \o HeldByte(g) = HeldByte(f) \o bytes
  /\ ~g.held_cr => Len(z) > 0 /\ z[Len(z)] # CR
  /\ f.held_cr => Len(z) = 0 \/ z[1] = CR

LEMMA SplitLast ==
  ASSUME NEW S, NEW s \in Seq(S), Len(s) > 0
  PROVE  /\ Front(s) \in Seq(S) /\ Len(Front(s)) = Len(s) - 1 /\ Last(s) = s[Len(s)]
         /\ s = Front(s) \o <<Last(s)>> /\ Last(s) \in S
         /\ \A i \in 1..Len(s) - 1 : Front(s)[i] = s[i]
<1>1. Len(s) \in Nat /\ Len(s) - 1 \in 0..Len(s) /\ Len(s) \in 1..Len(s)
  OBVIOUS
<1>2. /\ Front(s) \in Seq(S) /\ Len(Front(s)) = Len(s) - 1
      /\ \A i \in 1..Len(s) - 1 : Front(s)[i] = s[i]
  BY <1>1, PrefixAt DEF Front
<1>3. Last(s) = s[Len(s)] /\ Last(s) \in S
  BY <1>1 DEF Last
<1>4. PICK y \in Seq(S) : y = <<Last(s)>> /\ Len(y) = 1 /\ y[1] = Last(s)
  <2>1. ASSUME NEW x \in S
        PROVE  \E y \in Seq(S) : y = <<x>> /\ Len(y) = 1 /\ y[1] = x
    <3>1. <<x>> \in Seq(S) /\ Len(<<x>>) = 1 /\ <<x>>[1] = x
      OBVIOUS
    <3>2. QED
      BY <3>1, Zenon
  <2>2. QED
    BY <1>3, <2>1, Zenon
<1>5. Joins(Front(s), y, s)
  <2>1. Len(s) - 1 + 1 = Len(s) /\ \A i \in 1..1 : i = 1
    BY <1>1
  <2>2. QED
    BY <1>1, <1>2, <1>3, <1>4, <2>1 DEF Joins
<1>6. s = Front(s) \o y
  BY <1>2, <1>5, JoinsConcat
<1>7. QED
  BY <1>2, <1>3, <1>4, <1>6

LEMMA AppendIs ==
  ASSUME NEW f \in Framer, NEW bytes \in Seq(Bytes), Len(bytes) > 0
  PROVE  \E z : Added(f, bytes, append(f, bytes), z)
<1> DEFINE all == IF f.held_cr THEN <<CR>> \o bytes ELSE bytes
           held == Last(all) = CR
           z == IF held THEN Front(all) ELSE all
           g == append(f, bytes)
<1>1. f.out \in Seq(Bytes) /\ f.held_cr \in BOOLEAN /\ f.at_line_start \in BOOLEAN
  BY DEF Framer
<1>2. <<CR>> \in Seq(Bytes) /\ HeldByte(f) \in Seq(Bytes) /\ all = HeldByte(f) \o bytes
  BY <1>1, Kinds, ByteSeqs, ConcatEmptySeq DEF HeldByte
<1>3. /\ all \in Seq(Bytes) /\ Len(all) > 0
      /\ f.held_cr => all[1] = CR /\ Len(all) > 1
  <2>1. CASE f.held_cr
    <3>1. PICK y \in Seq(Bytes) : y = <<CR>> /\ Len(y) = 1 /\ y[1] = CR
      BY <1>2
    <3>2. all = y \o bytes /\ 1 \in 1..Len(y)
      BY <2>1, <3>1
    <3>3. y \o bytes \in Seq(Bytes) /\ Len(y \o bytes) = 1 + Len(bytes) /\ (y \o bytes)[1] = CR
      BY <3>1, <3>2, ConcatAt
    <3>4. 1 + Len(bytes) > 1
      OBVIOUS
    <3>5. QED
      BY <3>2, <3>3, <3>4
  <2>2. CASE ~f.held_cr
    BY <2>2
  <2>3. QED
    BY <2>1, <2>2
<1>4. g = [f EXCEPT !.out = @ \o normalize_breaks(z), !.held_cr = held]
  BY Zenon DEF append
<1> HIDE DEF all
<1>5. /\ Front(all) \in Seq(Bytes) /\ Len(Front(all)) = Len(all) - 1 /\ Last(all) = all[Len(all)]
      /\ all = Front(all) \o <<Last(all)>> /\ Len(all) \in Nat
      /\ \A i \in 1..Len(all) - 1 : Front(all)[i] = all[i]
  BY <1>3, SplitLast
<1>6. z \in Seq(Bytes) /\ held \in BOOLEAN
  BY <1>3, <1>5
<1>7. normalize_breaks(z) \in Seq(Bytes)
  BY <1>6, NormType
<1>8. /\ ~held => Len(z) > 0 /\ z[Len(z)] # CR
      /\ f.held_cr => Len(z) = 0 \/ z[1] = CR
  <2>1. CASE held
    <3>1. z = Front(all)
      BY <2>1
    <3>2. f.held_cr => 1 \in 1..Len(all) - 1
      BY <1>3, <1>5
    <3>3. QED
      BY <1>3, <1>5, <2>1, <3>1, <3>2
  <2>2. CASE ~held
    <3>1. z = all
      BY <2>2
    <3>2. QED
      BY <1>3, <1>5, <2>2, <3>1
  <2>3. QED
    BY <2>1, <2>2
<1>9. z \o (IF held THEN <<CR>> ELSE <<>>) = all
  <2>1. CASE held
    BY <1>5, <2>1
  <2>2. CASE ~held
    BY <1>3, <2>2, ConcatEmptySeq
  <2>3. QED
    BY <2>1, <2>2
<1> HIDE DEF z, held
<1>10. /\ g \in Framer /\ g.at_line_start = f.at_line_start
       /\ g.out = f.out \o normalize_breaks(z) /\ g.held_cr = held
  <2>1. f.out \o normalize_breaks(z) \in Seq(Bytes)
    BY <1>1, <1>7
  <2>2. QED
    BY <1>4, <1>6, <2>1 DEF Framer
<1> HIDE DEF g
<1>11. z \o HeldByte(g) = HeldByte(f) \o bytes
  BY <1>2, <1>9, <1>10 DEF HeldByte
<1>12. Added(f, bytes, g, z)
  BY <1>6, <1>8, <1>10, <1>11 DEF Added
<1>13. QED
  BY <1>12 DEF g

\* What push and push_partial hand over and keep of the bytes they stage.
Staging(f, bytes, r, z) ==
  /\ r.piece \in {"Chunk", "Pending"} /\ r.bytes \in Seq(Bytes) /\ r.to \in Framer
  /\ z \in Seq(Bytes) /\ Len(r.to.out) < WRITE_CHUNK
  /\ r.piece = "Pending" => r.bytes = <<>>
  /\ r.bytes \o r.to.out = f.out \o normalize_breaks(z)
  /\ z \o HeldByte(r.to) = HeldByte(f) \o bytes
  /\ ~r.to.held_cr => Len(z) > 0 /\ z[Len(z)] # CR
  /\ f.held_cr => Len(z) = 0 \/ z[1] = CR

LEMMA PieceIs ==
  ASSUME NEW f \in Framer, NEW bytes \in Seq(Bytes), NEW g, NEW z, Added(f, bytes, g, z),
         NEW begins \in BOOLEAN, NEW r, r = piece([g EXCEPT !.at_line_start = begins])
  PROVE  Staging(f, bytes, r, z) /\ r.to.at_line_start = begins
<1> DEFINE h == [g EXCEPT !.at_line_start = begins]
<1>1. g \in Framer /\ g.out \in Seq(Bytes) /\ g.held_cr \in BOOLEAN
  BY DEF Added, Framer
<1>2. h \in Framer /\ h.out = g.out /\ h.held_cr = g.held_cr /\ h.at_line_start = begins
  BY <1>1 DEF Framer
<1> HIDE DEF h
<1>3. /\ r.piece \in {"Chunk", "Pending"} /\ r.bytes \in Seq(Bytes) /\ r.to \in Framer
      /\ Len(r.to.out) < WRITE_CHUNK /\ (r.piece = "Pending" => r.bytes = <<>>)
      /\ r.bytes \o r.to.out = g.out
      /\ r.to.held_cr = g.held_cr /\ r.to.at_line_start = begins
  <2>1. CASE Len(h.out) >= WRITE_CHUNK
    <3>1. r = [piece |-> "Chunk", bytes |-> h.out, to |-> [h EXCEPT !.out = <<>>]]
      BY <2>1 DEF piece, h
    <3>2. /\ [h EXCEPT !.out = <<>>] \in Framer
          /\ [h EXCEPT !.out = <<>>].out = <<>>
          /\ [h EXCEPT !.out = <<>>].held_cr = h.held_cr
          /\ [h EXCEPT !.out = <<>>].at_line_start = h.at_line_start
      BY <1>2, ByteSeqs DEF Framer
    <3>3. /\ r.piece = "Chunk" /\ r.bytes = g.out /\ r.to \in Framer /\ r.to.out = <<>>
          /\ r.to.held_cr = g.held_cr /\ r.to.at_line_start = begins
      <4>1. r.piece = "Chunk" /\ r.bytes = h.out /\ r.to = [h EXCEPT !.out = <<>>]
        BY <3>1
      <4>2. QED
        BY <1>2, <3>2, <4>1, Zenon
    <3>4. Len(<<>>) = 0 /\ 0 < WRITE_CHUNK /\ g.out \o <<>> = g.out
      BY <1>1, FramingAssumption, ConcatEmptySeq
    <3>5. QED
      BY <1>1, <3>3, <3>4
  <2>2. CASE ~(Len(h.out) >= WRITE_CHUNK)
    <3>1. r = [piece |-> "Pending", bytes |-> <<>>, to |-> h]
      BY <2>2 DEF piece, h
    <3>2. r.piece = "Pending" /\ r.bytes = <<>> /\ r.to = h
      BY <3>1
    <3>3. Len(h.out) < WRITE_CHUNK /\ <<>> \o g.out = g.out
      BY <1>1, <1>2, <2>2, FramingAssumption, ConcatEmptySeq
    <3>4. QED
      BY <1>2, <3>2, <3>3, ByteSeqs
  <2>3. QED
    BY <2>1, <2>2
<1>4. z \o HeldByte(r.to) = HeldByte(f) \o bytes
  <2>1. HeldByte(r.to) = HeldByte(g)
    BY <1>3 DEF HeldByte
  <2>2. QED
    BY <2>1, Zenon DEF Added
<1>5. QED
  BY <1>3, <1>4, Zenon DEF Added, Staging

LEMMA PushIs ==
  ASSUME NEW f \in Framer, NEW line \in Seq(Bytes), Len(line) > 0, NEW r, r = push(f, line)
  PROVE  \/ /\ f.at_line_start /\ is_terminator(line)
            /\ r.piece = "Terminator" /\ r.to = f
         \/ /\ ~(f.at_line_start /\ is_terminator(line))
            /\ r.to.at_line_start = TRUE /\ \E z : Staging(f, line, r, z)
<1>1. CASE f.at_line_start /\ is_terminator(line)
  <2>1. r = [piece |-> "Terminator", bytes |-> <<>>, to |-> f]
    BY <1>1, Zenon DEF push
  <2>2. QED
    BY <1>1, <2>1
<1>2. CASE ~(f.at_line_start /\ is_terminator(line))
  <2>1. PICK z : Added(f, line, append(f, line), z)
    BY AppendIs
  <2>2. r = piece([append(f, line) EXCEPT !.at_line_start = TRUE])
    BY <1>2, Zenon DEF push
  <2>3. Staging(f, line, r, z) /\ r.to.at_line_start = TRUE
    BY <2>1, <2>2, PieceIs
  <2>4. QED
    BY <1>2, <2>3
<1>3. QED
  BY <1>1, <1>2

LEMMA PushPartialIs ==
  ASSUME NEW f \in Framer, NEW bytes \in Seq(Bytes), Len(bytes) > 0,
         NEW r, r = push_partial(f, bytes)
  PROVE  r.to.at_line_start = FALSE /\ \E z : Staging(f, bytes, r, z)
<1>1. PICK z : Added(f, bytes, append(f, bytes), z)
  BY AppendIs
<1>2. r = piece([append(f, bytes) EXCEPT !.at_line_start = FALSE])
  BY Zenon DEF push_partial
<1>3. Staging(f, bytes, r, z) /\ r.to.at_line_start = FALSE
  BY <1>1, <1>2, PieceIs
<1>4. QED
  BY <1>3

-----------------------------------------------------------------------------
(* The header collector *)

Collector == [headers : Seq(Bytes), size : Nat, too_large : BOOLEAN, delivered : BOOLEAN]

\* A collector that is still collecting.
Collecting(c) ==
  /\ c \in Collector /\ ~c.too_large /\ ~c.delivered
  /\ c.size = Len(c.headers) /\ c.size <= max_header_size

LEMMA PushLineIs ==
  ASSUME NEW c, Collecting(c), NEW line \in Seq(Bytes), IsLine(line),
         NEW r, r = push_line(c, line), NEW u, u = Unstuffed(line)
  PROVE  /\ r.to \in Collector /\ Len(r.to.headers) <= max_header_size
         /\ \/ r.event = "Terminator" /\ is_terminator(line)
            \/ r.event = "Complete" /\ is_empty_line(line) /\ ~is_terminator(line)
            \/ /\ r.event = "TooLarge" /\ ~is_terminator(line) /\ ~is_empty_line(line)
               /\ Len(c.headers) + Len(u) > max_header_size
            \/ /\ r.event = "None" /\ ~is_terminator(line) /\ ~is_empty_line(line)
               /\ Collecting(r.to) /\ r.to.headers = c.headers \o u
<1> DEFINE empty == HandedOver(c)
           to == Collected(c, line)
<1>1. /\ c \in Collector /\ c.headers \in Seq(Bytes) /\ c.size \in Nat /\ ~c.too_large /\ ~c.delivered
      /\ c.too_large = FALSE /\ c.delivered = FALSE
      /\ c.size = Len(c.headers) /\ c.size <= max_header_size /\ max_header_size \in Nat
  BY FramingAssumption DEF Collecting, Collector
<1>2. u \in Seq(Bytes) /\ Len(u) \in Nat
  BY UnstuffLine DEF IsLine
<1>3. empty \in Collector /\ Len(empty.headers) = 0 /\ 0 <= max_header_size
  <2>1. empty \in Collector /\ empty.headers = <<>>
    BY <1>1, ByteSeqs DEF HandedOver, Collector
  <2>2. Len(<<>>) = 0 /\ 0 <= max_header_size
    BY FramingAssumption
  <2> HIDE DEF empty
  <2>3. QED
    BY <2>1, <2>2
<1>4. /\ to \in Collector /\ to.size = Len(c.headers) + Len(u) /\ to.headers = c.headers \o u
      /\ to.too_large = FALSE /\ to.delivered = FALSE /\ Len(to.headers) = Len(c.headers) + Len(u)
  <2>1. to = [c EXCEPT !.size = c.size + Len(u), !.headers = c.headers \o u]
    BY DEF Collected
  <2>2. c.headers \o u \in Seq(Bytes) /\ c.size + Len(u) \in Nat
    BY <1>1, <1>2
  <2> HIDE DEF to
  <2>3. to \in Collector /\ to.size = c.size + Len(u) /\ to.headers = c.headers \o u
        /\ to.too_large = c.too_large /\ to.delivered = c.delivered
    BY <1>1, <2>1, <2>2 DEF Collector
  <2>4. Len(c.headers \o u) = Len(c.headers) + Len(u)
    BY <1>1, <1>2, ConcatAt
  <2>5. QED
    BY <1>1, <2>3, <2>4
<1> HIDE DEF to, empty
<1>5. CASE is_terminator(line)
  <2>1. r = [event |-> "Terminator", to |-> empty]
    BY <1>1, <1>5, Zenon DEF push_line, empty
  <2>2. QED
    BY <1>3, <1>5, <2>1
<1>6. CASE ~is_terminator(line) /\ is_empty_line(line)
  <2>1. r = [event |-> "Complete", to |-> empty]
    BY <1>1, <1>6, Zenon DEF push_line, empty
  <2>2. QED
    BY <1>3, <1>6, <2>1
<1>7. CASE ~is_terminator(line) /\ ~is_empty_line(line)
  <2>1. r = IF to.size > max_header_size
            THEN [event |-> "TooLarge", to |-> mark_too_large(to)]
            ELSE [event |-> "None", to |-> to]
    BY <1>1, <1>7, Zenon DEF push_line, to
  <2>2. CASE to.size > max_header_size
    <3>1. r = [event |-> "TooLarge", to |-> mark_too_large(to)]
      BY <2>1, <2>2
    <3>2. mark_too_large(to) \in Collector /\ mark_too_large(to).headers = <<>> /\ Len(<<>>) = 0
      BY <1>4, ByteSeqs DEF mark_too_large, Collector
    <3>3. r.event = "TooLarge" /\ r.to = mark_too_large(to)
      BY <3>1
    <3>4. QED
      BY <1>3, <1>4, <1>7, <2>2, <3>2, <3>3
  <2>3. CASE ~(to.size > max_header_size)
    <3>1. r = [event |-> "None", to |-> to]
      BY <2>1, <2>3
    <3>2. r.event = "None" /\ r.to = to
      BY <3>1
    <3>3. to.size <= max_header_size
      BY <1>1, <1>2, <1>4, <2>3
    <3>4. QED
      BY <1>4, <1>7, <3>2, <3>3 DEF Collecting
  <2>4. QED
    BY <2>2, <2>3
<1>8. QED
  BY <1>5, <1>6, <1>7

LEMMA MarkedType ==
  ASSUME NEW c \in Collector
  PROVE  mark_too_large(c) \in Collector /\ mark_too_large(c).headers = <<>>
BY ByteSeqs DEF mark_too_large, Collector

-----------------------------------------------------------------------------
(* The buffer, and the types *)

\* How much of the input has been taken out of the buffer.
Consumed == pos - Len(buf)

\* What is in the buffer: the input between what was taken and what was read.
Held == Len(buf) <= pos /\ buf = SubSeq(input, Consumed + 1, pos)

\* The type invariant as an inductive one.
Typed ==
  /\ TypeOK /\ Held
  /\ input \in Seq(Bytes) /\ collector \in Collector /\ framer \in Framer
  /\ asked \in Seq(Header) /\ api \in Seq(ApiHeader)
  /\ phase = "header" => Collecting(collector)

LEMMA Places ==
  ASSUME Typed
  PROVE  /\ input \in Seq(Bytes) /\ Len(input) \in Nat /\ pos \in Nat /\ pos \in 0..Len(input)
         /\ buf \in Seq(Bytes) /\ Len(buf) \in Nat
         /\ Consumed \in Nat /\ Consumed \in 0..pos /\ Len(buf) = pos - Consumed
         /\ buf = SubSeq(input, Consumed + 1, pos)
<1>1. /\ input \in Seq(Bytes) /\ pos \in 0..Len(input) /\ buf \in Seq(Bytes) /\ Len(buf) <= pos
      /\ buf = SubSeq(input, Consumed + 1, pos)
  BY DEF Typed, TypeOK, Held
<1>2. Len(input) \in Nat /\ Len(buf) \in Nat
  BY <1>1
<1>3. QED
  BY <1>1, <1>2 DEF Consumed

\* A line is taken out of the buffer.
LEMMA GotStep ==
  ASSUME Typed, Got, input' = input, pos' = pos,
         NEW e, e = LineEnd(input, Consumed + 1)
  PROVE  /\ Held' /\ buf' \in Seq(Bytes) /\ Consumed' = e
         /\ Consumed + 1 \in 1..Len(input) /\ e \in Consumed + 1..pos /\ input[e] = LF
         /\ \A j \in Consumed + 1..e - 1 : input[j] # LF
         /\ FirstLine(buf) = LineAt(input, Consumed + 1)
         /\ FirstLine(buf) = SubSeq(input, Consumed + 1, e)
         /\ FirstLine(buf) \in Seq(Bytes) /\ IsLine(FirstLine(buf)) /\ Len(FirstLine(buf)) > 0
<1>1. /\ input \in Seq(Bytes) /\ Len(input) \in Nat /\ pos \in Nat /\ pos \in 0..Len(input)
      /\ Consumed \in 0..pos /\ Consumed \in Nat /\ buf = SubSeq(input, Consumed + 1, pos)
  BY Places
<1>2. HasLine(buf) /\ buf' = AfterLine(buf)
  BY DEF Got
<1>3. PICK c : c = Consumed
  OBVIOUS
<1>4. /\ c + 1 \in 1..Len(input) /\ e \in c + 1..pos /\ input[e] = LF
      /\ \A j \in c + 1..e - 1 : input[j] # LF
      /\ FirstLine(buf) = LineAt(input, c + 1) /\ FirstLine(buf) = SubSeq(input, c + 1, e)
      /\ FirstLine(buf) \in Seq(Bytes) /\ IsLine(FirstLine(buf))
      /\ AfterLine(buf) = SubSeq(input, e + 1, pos) /\ Len(AfterLine(buf)) = pos - e
      /\ AfterLine(buf) \in Seq(Bytes)
  <2>1. c \in 0..pos /\ buf = SubSeq(input, c + 1, pos) /\ e = LineEnd(input, c + 1)
    BY <1>1, <1>3
  <2>2. Takes(input, pos, c, buf, e)
    BY <1>1, <1>2, <2>1, TakenLine
  <2>3. QED
    BY <2>2, Zenon DEF Takes
<1>5. Consumed' = e /\ Len(buf') <= pos'
  <2>1. c \in Nat /\ e \in Nat /\ Len(buf') = pos - e /\ pos' = pos
    BY <1>1, <1>2, <1>3, <1>4
  <2>2. QED
    BY <1>1, <2>1 DEF Consumed
<1>6. Held'
  BY <1>2, <1>4, <1>5 DEF Held
<1>7. QED
  BY <1>2, <1>3, <1>4, <1>5, <1>6 DEF IsLine

\* More than may wait is dropped: there is no line break in it.
LEMMA TooLongStep ==
  ASSUME Typed, TooLong, input' = input, pos' = pos
  PROVE  /\ Held' /\ buf' \in Seq(Bytes) /\ Consumed' = pos
         /\ Consumed \in 0..pos /\ pos >= Consumed + 3 /\ Len(buf) > 0
         /\ \A j \in Consumed + 1..pos : input[j] # LF
<1>1. /\ input \in Seq(Bytes) /\ Len(input) \in Nat /\ pos \in Nat /\ pos \in 0..Len(input)
      /\ Consumed \in 0..pos /\ Consumed \in Nat /\ buf = SubSeq(input, Consumed + 1, pos)
      /\ Len(buf) = pos - Consumed
  BY Places
<1>2. phase \in Reading /\ ~HasLine(buf) /\ Len(buf) > max_incomplete /\ buf' = <<>>
  BY DEF TooLong
<1>3. max_incomplete \in Nat /\ max_incomplete >= 2
  <2>1. CASE phase = "header"
    <3>1. Collecting(collector)
      BY <2>1 DEF Typed
    <3>2. collector.size \in Nat /\ max_header_size \in Nat /\ collector.size <= max_header_size
      BY <3>1, FramingAssumption DEF Collecting, Collector
    <3>3. remaining_capacity(collector) \in Nat
      BY <3>2 DEF remaining_capacity
    <3>4. max_incomplete = remaining_capacity(collector) + 2
      BY <2>1 DEF max_incomplete, TERMINATOR_SLACK
    <3>5. QED
      BY <3>3, <3>4
  <2>2. CASE phase = "body"
    BY <2>2, FramingAssumption DEF max_incomplete
  <2>3. CASE phase = "discard"
    BY <2>3, MessageAssumption DEF max_incomplete
  <2>4. QED
    BY <1>2, <2>1, <2>2, <2>3 DEF Reading
<1>4. \A j \in Consumed + 1..pos : input[j] # LF
  BY <1>1, <1>2, NoLineYet
<1>5. buf' \in Seq(Bytes) /\ Len(buf') = 0 /\ Consumed' = pos
  <2>1. Len(<<>>) = 0
    OBVIOUS
  <2>2. Len(buf') = 0
    BY <1>2, <2>1
  <2>3. pos - 0 = pos
    BY <1>1
  <2>4. QED
    BY <1>2, <2>2, <2>3, ByteSeqs DEF Consumed
<1>6. SubSeq(input, pos + 1, pos) = <<>>
  BY <1>1, SubSeqEmpty
<1>7. Held'
  BY <1>1, <1>2, <1>5, <1>6 DEF Held
<1>8. QED
  BY <1>1, <1>2, <1>3, <1>4, <1>5, <1>7

\* A read adds to the end of the buffer.
LEMMA ReadStep ==
  ASSUME Typed, Read
  PROVE  /\ Held' /\ buf' \in Seq(Bytes) /\ pos' \in 0..Len(input) /\ Consumed' = Consumed
<1>1. /\ input \in Seq(Bytes) /\ Len(input) \in Nat /\ pos \in Nat /\ pos \in 0..Len(input)
      /\ Consumed \in 0..pos /\ Consumed \in Nat /\ buf = SubSeq(input, Consumed + 1, pos)
      /\ Len(buf) = pos - Consumed /\ buf \in Seq(Bytes)
  BY Places
<1>2. PICK n \in 1..Len(input) - pos :
        buf' = buf \o SubSeq(input, pos + 1, pos + n) /\ pos' = pos + n /\ input' = input
  BY DEF Read
<1>3. pos + n \in 0..Len(input) /\ pos \in 0..pos + n /\ n \in Nat
  BY <1>1, <1>2
<1>4. /\ SubSeq(input, pos + 1, pos + n) \in Seq(Bytes)
      /\ Len(SubSeq(input, pos + 1, pos + n)) = (pos + n) - pos
  BY <1>1, <1>3, Stretch
<1>5. buf' \in Seq(Bytes) /\ Len(buf') = Len(buf) + n
  BY <1>1, <1>2, <1>3, <1>4, ConcatAt
<1>6. Consumed' = Consumed /\ Len(buf') <= pos'
  BY <1>1, <1>2, <1>3, <1>5 DEF Consumed
<1>7. SubSeq(input, Consumed + 1, pos) \o SubSeq(input, pos + 1, pos + n)
        = SubSeq(input, Consumed + 1, pos + n)
  <2>1. /\ Consumed + 1 \in 1..Len(input) + 1 /\ pos \in (Consumed + 1) - 1..Len(input)
        /\ pos + n \in pos..Len(input)
    BY <1>1, <1>3
  <2>2. QED
    BY <1>1, <2>1, ConcatAdjacentSubSeq
<1>8. Held'
  BY <1>1, <1>2, <1>6, <1>7 DEF Held
<1>9. QED
  BY <1>2, <1>3, <1>5, <1>6, <1>8

-----------------------------------------------------------------------------
(* What the actions come to *)

\* The headers the proxy writes.
Merged == merge_headers(asked, api)

HeaderLineCases(line, u) ==
  /\ phase = "header" /\ Got /\ UNCHANGED <<input, pos, framer, apiVars, up, reply>>
  /\ collector' \in Collector /\ Len(collector'.headers) <= max_header_size
  /\ \/ /\ is_terminator(line) /\ headers' = collector.headers
        /\ phase' = "open_body" /\ body_follows' = FALSE /\ UNCHANGED <<at_line_start, why>>
     \/ /\ is_empty_line(line) /\ ~is_terminator(line) /\ headers' = collector.headers
        /\ phase' = "open_body" /\ body_follows' = TRUE /\ UNCHANGED <<at_line_start, why>>
     \/ /\ ~is_terminator(line) /\ ~is_empty_line(line)
        /\ Len(collector.headers) + Len(u) > max_header_size
        /\ phase' = "discard" /\ at_line_start' = TRUE /\ why' = "large"
        /\ UNCHANGED <<body_follows, headers>>
     \/ /\ ~is_terminator(line) /\ ~is_empty_line(line)
        /\ Collecting(collector') /\ collector'.headers = collector.headers \o u
        /\ UNCHANGED <<phase, at_line_start, body_follows, why, headers>>

LEMMA HeaderLineIs ==
  ASSUME Typed, HeaderLine
  PROVE  HeaderLineCases(FirstLine(buf), Unstuffed(FirstLine(buf)))
<1> DEFINE line == FirstLine(buf)
           u == Unstuffed(line)
           r == push_line(collector, line)
<1>1. phase = "header" /\ Got /\ UNCHANGED <<input, pos, framer, apiVars, up, reply>>
  BY DEF HeaderLine
<1>2. Collecting(collector)
  BY <1>1 DEF Typed
<1>3. line \in Seq(Bytes) /\ IsLine(line)
  BY <1>1, GotStep
<1>4. /\ r.to \in Collector /\ Len(r.to.headers) <= max_header_size
      /\ \/ r.event = "Terminator" /\ is_terminator(line)
         \/ r.event = "Complete" /\ is_empty_line(line) /\ ~is_terminator(line)
         \/ /\ r.event = "TooLarge" /\ ~is_terminator(line) /\ ~is_empty_line(line)
            /\ Len(collector.headers) + Len(u) > max_header_size
         \/ /\ r.event = "None" /\ ~is_terminator(line) /\ ~is_empty_line(line)
            /\ Collecting(r.to) /\ r.to.headers = collector.headers \o u
  BY <1>2, <1>3, PushLineIs
<1>5. /\ collector' = r.to
      /\ headers' = IF r.event \in {"Complete", "Terminator"} THEN collector.headers ELSE headers
      /\ CASE r.event = "None" -> UNCHANGED <<phase, at_line_start, body_follows, why>>
           [] r.event = "TooLarge" -> Drain(TRUE, "large") /\ UNCHANGED body_follows
           [] OTHER -> /\ phase' = "open_body" /\ body_follows' = (r.event = "Complete")
                       /\ UNCHANGED <<at_line_start, why>>
  BY Zenon DEF HeaderLine
<1> HIDE DEF r, line, u
<1>6. CASE r.event = "Terminator" /\ is_terminator(line)
  <2>1. headers' = collector.headers
    BY <1>5, <1>6
  <2>2. phase' = "open_body" /\ body_follows' = FALSE /\ UNCHANGED <<at_line_start, why>>
    BY <1>5, <1>6
  <2>3. QED
    BY <1>1, <1>4, <1>5, <1>6, <2>1, <2>2, Zenon DEF HeaderLineCases, line, u
<1>7. CASE r.event = "Complete" /\ is_empty_line(line) /\ ~is_terminator(line)
  <2>1. headers' = collector.headers
    BY <1>5, <1>7
  <2>2. phase' = "open_body" /\ body_follows' = TRUE /\ UNCHANGED <<at_line_start, why>>
    BY <1>5, <1>7
  <2>3. QED
    BY <1>1, <1>4, <1>5, <1>7, <2>1, <2>2, Zenon DEF HeaderLineCases, line, u
<1>8. CASE /\ r.event = "TooLarge" /\ ~is_terminator(line) /\ ~is_empty_line(line)
           /\ Len(collector.headers) + Len(u) > max_header_size
  <2>1. headers' = headers
    BY <1>5, <1>8
  <2>2. Drain(TRUE, "large") /\ UNCHANGED body_follows
    BY <1>5, <1>8
  <2>3. phase' = "discard" /\ at_line_start' = TRUE /\ why' = "large"
    BY <2>2 DEF Drain
  <2>4. QED
    BY <1>1, <1>4, <1>5, <1>8, <2>1, <2>2, <2>3, Zenon DEF HeaderLineCases, line, u
<1>9. CASE /\ r.event = "None" /\ ~is_terminator(line) /\ ~is_empty_line(line)
           /\ Collecting(r.to) /\ r.to.headers = collector.headers \o u
  <2>1. headers' = headers
    BY <1>5, <1>9
  <2>2. UNCHANGED <<phase, at_line_start, body_follows, why>>
    BY <1>5, <1>9
  <2>3. QED
    BY <1>1, <1>4, <1>5, <1>9, <2>1, <2>2, Zenon DEF HeaderLineCases, line, u
<1>10. QED
  BY <1>4, <1>6, <1>7, <1>8, <1>9

\* A piece is taken, refused, or the upstream is lost.
PieceCases(bytes, begins) ==
  \/ /\ up' = up \o bytes /\ at_line_start' = begins
     /\ UNCHANGED <<phase, body_follows, why, reply>>
  \/ /\ phase' = "discard" /\ at_line_start' = begins /\ why' = "mirror" /\ reply' = 550
     /\ UNCHANGED <<body_follows, up>>
  \/ phase' = "closed" /\ UNCHANGED <<at_line_start, body_follows, up, why, reply>>

LEMMA StagedIs ==
  ASSUME Typed, NEW r, NEW begins, Staged(r, begins), r.bytes \in Seq(Bytes),
         r.piece \in {"Chunk", "Pending"}, r.piece = "Pending" => r.bytes = <<>>
  PROVE  framer' = r.to /\ PieceCases(r.bytes, begins)
<1>1. framer' = r.to
  BY DEF Staged
<1>2. CASE r.piece = "Chunk"
  <2>1. \/ /\ up' = up \o r.bytes /\ at_line_start' = begins
           /\ UNCHANGED <<phase, body_follows, why, reply>>
        \/ Drain(begins, "mirror") /\ reply' = 550 /\ UNCHANGED <<body_follows, up>>
        \/ phase' = "closed" /\ UNCHANGED <<at_line_start, body_follows, up, why, reply>>
    BY <1>2 DEF Staged
  <2>2. QED
    BY <1>1, <2>1, Zenon DEF PieceCases, Drain
<1>3. CASE r.piece = "Pending"
  <2>1. at_line_start' = begins /\ UNCHANGED <<phase, body_follows, up, why, reply>>
    BY <1>3 DEF Staged
  <2>2. up \o r.bytes = up
    <3>1. up \in Seq(Bytes) /\ r.bytes = <<>>
      BY <1>3 DEF Typed, TypeOK
    <3>2. QED
      BY <3>1, ConcatEmptySeq
  <2>3. QED
    BY <1>1, <2>1, <2>2, Zenon DEF PieceCases
<1>4. QED
  BY <1>2, <1>3

BodyLineCases(line) ==
  /\ phase = "body" /\ Got /\ UNCHANGED <<input, pos, collector, headers, apiVars>>
  /\ \/ /\ framer.at_line_start /\ is_terminator(line) /\ framer' = framer
        /\ phase' = "finish" /\ body_follows' = FALSE /\ at_line_start' = TRUE
        /\ UNCHANGED <<up, why, reply>>
     \/ /\ ~(framer.at_line_start /\ is_terminator(line))
        /\ framer'.at_line_start = TRUE
        /\ \E r, z : Staging(framer, line, r, z) /\ framer' = r.to /\ PieceCases(r.bytes, TRUE)

LEMMA BodyLineIs ==
  ASSUME Typed, BodyLine
  PROVE  BodyLineCases(FirstLine(buf))
<1> DEFINE line == FirstLine(buf)
<1>1. phase = "body" /\ Got /\ UNCHANGED <<input, pos, collector, headers, apiVars>>
  BY DEF BodyLine
<1>2. PICK r : r = push(framer, line) /\ Staged(r, TRUE)
  BY DEF BodyLine
<1>3. line \in Seq(Bytes) /\ Len(line) > 0 /\ framer \in Framer
  BY <1>1, GotStep DEF Typed
<1> HIDE DEF line
<1>4. CASE framer.at_line_start /\ is_terminator(line) /\ r.piece = "Terminator" /\ r.to = framer
  <2>1. /\ framer' = framer /\ phase' = "finish" /\ body_follows' = FALSE /\ at_line_start' = TRUE
        /\ UNCHANGED <<up, why, reply>>
    BY <1>2, <1>4 DEF Staged
  <2>2. QED
    BY <1>1, <1>4, <2>1, Zenon DEF BodyLineCases, line
<1>5. CASE /\ ~(framer.at_line_start /\ is_terminator(line))
           /\ r.to.at_line_start = TRUE /\ \E z : Staging(framer, line, r, z)
  <2>1. PICK z : Staging(framer, line, r, z)
    BY <1>5
  <2>2. r.bytes \in Seq(Bytes) /\ r.piece \in {"Chunk", "Pending"} /\ (r.piece = "Pending" => r.bytes = <<>>)
    BY <2>1, Zenon DEF Staging
  <2>3. framer' = r.to /\ PieceCases(r.bytes, TRUE)
    BY <1>2, <2>2, StagedIs
  <2>4. QED
    BY <1>1, <1>5, <2>1, <2>3, Zenon DEF BodyLineCases, line
<1>6. QED
  BY <1>2, <1>3, <1>4, <1>5, PushIs

BodyTooLongCases ==
  /\ phase = "body" /\ TooLong /\ UNCHANGED <<input, pos, collector, headers, apiVars>>
  /\ framer'.at_line_start = FALSE
  /\ \E r, z : Staging(framer, buf, r, z) /\ framer' = r.to /\ PieceCases(r.bytes, FALSE)

LEMMA BodyTooLongIs ==
  ASSUME Typed, BodyTooLong
  PROVE  BodyTooLongCases
<1>1. phase = "body" /\ TooLong /\ UNCHANGED <<input, pos, collector, headers, apiVars>>
  BY DEF BodyTooLong
<1>2. PICK r : r = push_partial(framer, buf) /\ Staged(r, FALSE)
  BY DEF BodyTooLong
<1>3. buf \in Seq(Bytes) /\ Len(buf) > 0 /\ framer \in Framer
  BY <1>1, TooLongStep, Places DEF Typed
<1>4. r.to.at_line_start = FALSE /\ \E z : Staging(framer, buf, r, z)
  BY <1>2, <1>3, PushPartialIs
<1>5. PICK z : Staging(framer, buf, r, z)
  BY <1>4
<1>6. r.bytes \in Seq(Bytes) /\ r.piece \in {"Chunk", "Pending"} /\ (r.piece = "Pending" => r.bytes = <<>>)
  BY <1>5, Zenon DEF Staging
<1>7. framer' = r.to /\ PieceCases(r.bytes, FALSE)
  BY <1>2, <1>6, StagedIs
<1>8. QED
  BY <1>1, <1>4, <1>5, <1>7, Zenon DEF BodyTooLongCases

OpenBodyCases ==
  /\ phase = "open_body" /\ asked' = parse_headers(headers)
  /\ UNCHANGED <<readVars, collector, headers, framer, body_follows>>
  /\ \/ /\ api' = api \/ api' \in Answers
        /\ \/ /\ body_follows /\ phase' = "discard" /\ at_line_start' = TRUE /\ why' = "refused"
              /\ UNCHANGED <<up, reply>>
           \/ ~body_follows /\ phase' = "done" /\ reply' = 550 /\ UNCHANGED <<up, at_line_start, why>>
     \/ /\ api' \in Answers /\ assert_header_relayable(Merged') /\ up' = header_block(Merged')
        /\ phase' = IF body_follows THEN "body" ELSE "finish"
        /\ UNCHANGED <<at_line_start, why, reply>>

LEMMA OpenBodyIs ==
  ASSUME OpenBody
  PROVE  OpenBodyCases
<1>1. /\ phase = "open_body" /\ asked' = parse_headers(headers)
      /\ UNCHANGED <<readVars, collector, headers, framer, body_follows>>
  BY DEF OpenBody
<1>2. ASSUME Refused
      PROVE  \/ /\ body_follows /\ phase' = "discard" /\ at_line_start' = TRUE /\ why' = "refused"
                /\ UNCHANGED <<up, reply>>
             \/ ~body_follows /\ phase' = "done" /\ reply' = 550 /\ UNCHANGED <<up, at_line_start, why>>
  BY <1>2, ZenonT(30) DEF Refused, Drain, Answered
<1>3. CASE Refused /\ UNCHANGED api
  BY <1>1, <1>2, <1>3, Zenon DEF OpenBodyCases
<1>4. CASE \E answer \in Answers :
             LET merged == merge_headers(asked', answer)
             IN  /\ api' = answer
                 /\ IF assert_header_relayable(merged)
                    THEN /\ up' = header_block(merged)
                         /\ phase' = IF body_follows THEN "body" ELSE "finish"
                         /\ UNCHANGED <<at_line_start, why, reply>>
                    ELSE Refused
  <2>1. Merged' = merge_headers(asked', api')
    BY DEF Merged
  <2>2. \/ api' \in Answers /\ Refused
        \/ /\ api' \in Answers /\ assert_header_relayable(Merged') /\ up' = header_block(Merged')
           /\ phase' = IF body_follows THEN "body" ELSE "finish"
           /\ UNCHANGED <<at_line_start, why, reply>>
    BY <1>4, <2>1, Zenon
  <2>3. QED
    BY <1>1, <1>2, <2>2, Zenon DEF OpenBodyCases
<1>5. QED
  BY <1>3, <1>4 DEF OpenBody

\* The end of DATA upstream: from a body that ends between lines.
FinishCases ==
  /\ phase = "finish"
  /\ UNCHANGED <<readVars, collector, headers, framer, at_line_start, body_follows, apiVars, why>>
  /\ \/ up' = up \o Rest \o Tail_ /\ phase' = "done" /\ reply' \in {250, 550}
     \/ phase' = "done" /\ reply' = 550 /\ UNCHANGED up
     \/ phase' = "closed" /\ UNCHANGED <<up, reply>>

LEMMA FinishIs ==
  ASSUME Finish
  PROVE  FinishCases
BY DEF Finish, FinishCases, Answered

DiscardLineCases(line) ==
  /\ phase = "discard" /\ Got
  /\ UNCHANGED <<input, pos, collector, headers, framer, body_follows, apiVars, up, why>>
  /\ \/ /\ at_line_start /\ is_terminator(line) /\ phase' = "done" /\ UNCHANGED at_line_start
        /\ reply' \in {552, 550, reply}
     \/ /\ ~(at_line_start /\ is_terminator(line)) /\ at_line_start' = TRUE
        /\ UNCHANGED <<phase, reply>>

LEMMA DiscardLineIs ==
  ASSUME DiscardLine
  PROVE  DiscardLineCases(FirstLine(buf))
<1> DEFINE line == FirstLine(buf)
<1>1. /\ phase = "discard" /\ Got
      /\ UNCHANGED <<input, pos, collector, headers, framer, body_follows, apiVars, up, why>>
  BY DEF DiscardLine
<1>2. CASE at_line_start /\ is_terminator(line)
  <2>1. /\ Answered(CASE why = "large" -> 552 [] why = "refused" -> 550 [] OTHER -> reply)
        /\ UNCHANGED at_line_start
    BY <1>2 DEF DiscardLine
  <2>2. (CASE why = "large" -> 552 [] why = "refused" -> 550 [] OTHER -> reply) \in {552, 550, reply}
    OBVIOUS
  <2>3. QED
    BY <1>1, <1>2, <2>1, <2>2 DEF DiscardLineCases, Answered
<1>3. CASE ~(at_line_start /\ is_terminator(line))
  <2>1. at_line_start' = TRUE /\ UNCHANGED <<phase, reply>>
    BY <1>3 DEF DiscardLine
  <2>2. QED
    BY <1>1, <1>3, <2>1, Zenon DEF DiscardLineCases
<1>4. QED
  BY <1>2, <1>3

-----------------------------------------------------------------------------
(* Types *)

\* The parts of Typed.
LEMMA TypedIs ==
  ASSUME /\ input \in Inputs /\ input \in Seq(Bytes) /\ pos \in 0..Len(input)
         /\ buf \in Seq(Bytes) /\ Held,
         up \in Seq(Bytes),
         phase \in Reading \cup {"open_body", "finish", "done", "closed"},
         collector \in Collector /\ Len(collector.headers) <= max_header_size,
         phase = "header" => Collecting(collector),
         headers \in Seq(Bytes),
         framer \in Framer /\ Len(framer.out) < WRITE_CHUNK,
         at_line_start \in BOOLEAN, body_follows \in BOOLEAN,
         api \in Answers \cup {<<>>}, asked \in Seq(Header),
         reply \in {0, 250, 550, 552}, why \in {"none", "large", "refused", "mirror"}
  PROVE  Typed
<1>1. collector.headers \in Seq(Bytes) /\ collector.too_large \in BOOLEAN
  BY DEF Collector
<1>2. framer.out \in Seq(Bytes) /\ framer.held_cr \in BOOLEAN /\ framer.at_line_start \in BOOLEAN
  BY DEF Framer
<1>3. TypeOK
  BY <1>1, <1>2, Zenon DEF TypeOK
<1>4. api \in Seq(ApiHeader)
  <2>1. Answers \subseteq Seq(ApiHeader)
    BY MessageAssumption DEF ApiHeader
  <2>2. <<>> \in Seq(ApiHeader)
    BY EmptySeq
  <2>3. QED
    BY <2>1, <2>2
<1>5. QED
  BY <1>3, <1>4, Zenon DEF Typed

LEMMA TypedInit == Init => Typed
<1> SUFFICES ASSUME Init PROVE Typed
  OBVIOUS
<1> USE DEF Init
<1>1. input \in Inputs /\ input \in Seq(Bytes) /\ pos \in 0..Len(input)
  BY MessageAssumption
<1>2. buf \in Seq(Bytes) /\ Held
  <2>1. Len(<<>>) = 0 /\ 0 - 0 = 0 /\ 0 <= 0
    OBVIOUS
  <2>2. Consumed = 0
    BY <2>1 DEF Consumed
  <2>3. SubSeq(input, 0 + 1, 0) = <<>>
    BY <1>1, SubSeqEmpty
  <2>4. QED
    BY <2>1, <2>2, <2>3, ByteSeqs DEF Held
<1>3. /\ collector \in Collector /\ Collecting(collector)
      /\ Len(collector.headers) <= max_header_size
  <2>1. Len(<<>>) = 0 /\ 0 <= max_header_size
    BY FramingAssumption
  <2>2. NewCollector \in Collector /\ NewCollector.headers = <<>> /\ NewCollector.size = 0
        /\ ~NewCollector.too_large /\ ~NewCollector.delivered
    BY ByteSeqs DEF NewCollector, Collector
  <2>3. QED
    BY <2>1, <2>2 DEF Collecting
<1>4. framer \in Framer /\ Len(framer.out) < WRITE_CHUNK
  <2>1. Len(<<>>) = 0 /\ 0 < WRITE_CHUNK
    BY FramingAssumption
  <2>2. NewFramer \in Framer /\ NewFramer.out = <<>>
    BY ByteSeqs DEF NewFramer, Framer
  <2>3. QED
    BY <2>1, <2>2
<1>5. phase \in Reading \cup {"open_body", "finish", "done", "closed"}
  BY DEF Reading
<1>6. asked \in Seq(Header) /\ up \in Seq(Bytes) /\ headers \in Seq(Bytes)
  BY EmptySeq
<1>7. QED
  BY <1>1, <1>2, <1>3, <1>4, <1>5, <1>6, TypedIs

\* What Typed says of each variable.
Kept ==
  /\ input \in Inputs /\ input \in Seq(Bytes) /\ pos \in 0..Len(input)
  /\ buf \in Seq(Bytes) /\ Held
  /\ up \in Seq(Bytes)
  /\ phase \in Reading \cup {"open_body", "finish", "done", "closed"}
  /\ collector \in Collector /\ Len(collector.headers) <= max_header_size
  /\ headers \in Seq(Bytes)
  /\ framer \in Framer /\ Len(framer.out) < WRITE_CHUNK
  /\ at_line_start \in BOOLEAN /\ body_follows \in BOOLEAN
  /\ api \in Answers \cup {<<>>} /\ asked \in Seq(Header)
  /\ reply \in {0, 250, 550, 552} /\ why \in {"none", "large", "refused", "mirror"}

Collects == phase = "header" => Collecting(collector)

LEMMA TypedKept == Typed <=> Kept /\ Collects
<1>1. ASSUME Typed PROVE Kept /\ Collects
  BY <1>1 DEF Typed, TypeOK, Kept, Collects
<1>2. ASSUME Kept, Collects PROVE Typed
  BY <1>2, TypedIs DEF Kept, Collects
<1>3. QED
  BY <1>1, <1>2

\* What a step takes is taken from the input.
LEMMA KeptReads ==
  ASSUME Typed, UNCHANGED <<input, pos>>, Got \/ TooLong
  PROVE  input' \in Inputs /\ input' \in Seq(Bytes) /\ pos' \in 0..Len(input')
         /\ buf' \in Seq(Bytes) /\ Held'
<1>1. input \in Inputs /\ input \in Seq(Bytes) /\ pos \in 0..Len(input)
  BY DEF Typed, TypeOK
<1>2. QED
  BY <1>1, GotStep, TooLongStep

LEMMA HeldStays ==
  ASSUME Held, UNCHANGED readVars
  PROVE  Held'
BY DEF Held, Consumed, readVars

LEMMA BlockTyped ==
  ASSUME NEW old \in Seq(Header), NEW new \in Answers
  PROVE  /\ new \in Seq(ApiHeader) /\ merge_headers(old, new) \in Seq(Header)
         /\ header_block(merge_headers(old, new)) \in Seq(Bytes)
<1>1. new \in Seq(ApiHeader)
  <2>1. Answers \subseteq Seq(ApiHeader)
    BY MessageAssumption DEF ApiHeader
  <2>2. QED
    BY <2>1
<1>2. merge_headers(old, new) \in Seq(Header)
  BY <1>1, MergeType
<1>3. QED
  BY <1>1, <1>2, HeaderBlockType

LEMMA TailIs ==
  Tail_ = IF up \o Rest # <<>> /\ Last(up \o Rest) = LF THEN <<DOT>> \o CRLF
          ELSE CRLF \o <<DOT>> \o CRLF
BY Zenon DEF Tail_

LEMMA TailType == Tail_ \in Seq(Bytes)
<1>1. <<DOT>> \in Seq(Bytes) /\ CRLF \in Seq(Bytes)
  BY Kinds, ByteSeqs
<1>2. <<DOT>> \o CRLF \in Seq(Bytes)
  BY <1>1, ConcatAt
<1>3. CRLF \o <<DOT>> \o CRLF \in Seq(Bytes)
  <2>1. CRLF \o <<DOT>> \in Seq(Bytes)
    BY <1>1, ConcatAt
  <2>2. QED
    BY <1>1, <2>1, ConcatAt
<1>4. QED
  BY <1>2, <1>3, TailIs

LEMMA PieceTyped ==
  ASSUME Kept, phase = "body", NEW bytes \in Seq(Bytes), NEW begins \in BOOLEAN,
         PieceCases(bytes, begins)
  PROVE  /\ up' \in Seq(Bytes) /\ phase' \in {"body", "discard", "closed"}
         /\ at_line_start' \in BOOLEAN /\ body_follows' \in BOOLEAN
         /\ reply' \in {0, 250, 550, 552} /\ why' \in {"none", "large", "refused", "mirror"}
<1>1. up \o bytes \in Seq(Bytes)
  BY ConcatAt DEF Kept
<1>2. up' \in Seq(Bytes) /\ phase' \in {"body", "discard", "closed"}
  BY <1>1 DEF PieceCases, Kept
<1>3. at_line_start' \in BOOLEAN /\ body_follows' \in BOOLEAN
  BY ZenonT(30) DEF PieceCases, Kept
<1>4. reply' \in {0, 250, 550, 552}
  <2>1. reply' = 550 \/ reply' = reply
    BY Zenon DEF PieceCases
  <2>2. QED
    BY <2>1 DEF Kept
<1>5. why' \in {"none", "large", "refused", "mirror"}
  <2>1. why' = "mirror" \/ why' = why
    BY Zenon DEF PieceCases
  <2>2. QED
    BY <2>1 DEF Kept
<1>6. QED
  BY <1>2, <1>3, <1>4, <1>5

LEMMA TypedNext == Typed /\ [Next]_vars => Typed'
<1> SUFFICES ASSUME Typed, [Next]_vars PROVE Typed'
  OBVIOUS
<1>1. Kept /\ (phase = "header" => Collecting(collector))
  BY TypedKept DEF Collects
<1>2. SUFFICES Kept' /\ (phase' = "header" => Collecting(collector'))
  <2>1. ASSUME Kept' /\ (phase' = "header" => Collecting(collector'))
        PROVE  Collects'
    BY <2>1 DEF Collects
  <2>2. Kept' /\ Collects' => Typed'
    BY TypedKept, PTL
  <2>3. QED
    BY <2>1, <2>2
<1>3. CASE Read
  <2>1. Held' /\ buf' \in Seq(Bytes) /\ pos' \in 0..Len(input)
    BY <1>3, ReadStep
  <2>2. UNCHANGED <<input, phase, collector, headers, framer, at_line_start, body_follows, apiVars,
                    up, why, reply>>
    BY <1>3 DEF Read
  <2>3. QED
    BY <1>1, <2>1, <2>2 DEF Kept, apiVars
<1>4. CASE Eof
  <2>1. phase' = "closed"
        /\ UNCHANGED <<readVars, collector, headers, framer, at_line_start, body_follows, apiVars,
                       up, why, reply>>
    BY <1>4 DEF Eof
  <2>2. Held'
    BY <1>1, <2>1, HeldStays DEF Kept
  <2>3. QED
    BY <1>1, <2>1, <2>2 DEF Kept, apiVars, readVars
<1>5. CASE HeaderLine
  <2>1. HeaderLineCases(FirstLine(buf), Unstuffed(FirstLine(buf)))
    BY <1>5, HeaderLineIs
  <2>2. /\ phase = "header" /\ Got /\ UNCHANGED <<input, pos, framer, apiVars, up, reply>>
        /\ collector' \in Collector /\ Len(collector'.headers) <= max_header_size
    BY <2>1, Zenon DEF HeaderLineCases
  <2>3. input' \in Inputs /\ input' \in Seq(Bytes) /\ pos' \in 0..Len(input')
        /\ buf' \in Seq(Bytes) /\ Held'
    BY <2>2, KeptReads
  <2>4. /\ phase' \in {"header", "open_body", "discard"} /\ headers' \in Seq(Bytes)
        /\ at_line_start' \in BOOLEAN /\ body_follows' \in BOOLEAN
        /\ why' \in {"none", "large", "refused", "mirror"}
        /\ phase' = "header" => Collecting(collector')
    <3>1. collector.headers \in Seq(Bytes) /\ headers \in Seq(Bytes)
      BY <1>1 DEF Kept, Collector
    <3>2. /\ at_line_start \in BOOLEAN /\ body_follows \in BOOLEAN
          /\ why \in {"none", "large", "refused", "mirror"}
      BY <1>1 DEF Kept
    <3>3. QED
      BY <2>1, <3>1, <3>2 DEF HeaderLineCases
  <2>5. QED
    BY <1>1, <2>2, <2>3, <2>4 DEF Kept, apiVars, Reading
<1>6. CASE HeaderTooLong
  <2>1. /\ phase = "header" /\ TooLong /\ collector' = mark_too_large(collector)
        /\ phase' = "discard" /\ at_line_start' = FALSE /\ why' = "large"
        /\ UNCHANGED <<input, pos, headers, framer, body_follows, apiVars, up, reply>>
    BY <1>6 DEF HeaderTooLong, Drain
  <2>2. input' \in Inputs /\ input' \in Seq(Bytes) /\ pos' \in 0..Len(input')
        /\ buf' \in Seq(Bytes) /\ Held'
    BY <2>1, KeptReads
  <2>3. collector' \in Collector /\ Len(collector'.headers) <= max_header_size
    <3>1. Len(<<>>) = 0 /\ 0 <= max_header_size
      BY FramingAssumption
    <3>2. collector' \in Collector /\ collector'.headers = <<>>
      BY <1>1, <2>1, MarkedType DEF Kept
    <3>3. QED
      BY <3>1, <3>2
  <2>4. QED
    BY <1>1, <2>1, <2>2, <2>3, ZenonT(30) DEF Kept, apiVars, Reading
<1>7. CASE OpenBody
  <2>1. OpenBodyCases
    BY <1>7, OpenBodyIs
  <2>2. /\ phase = "open_body" /\ asked' = parse_headers(headers)
        /\ UNCHANGED <<readVars, collector, headers, framer, body_follows>>
    BY <2>1, Zenon DEF OpenBodyCases
  <2>3. asked' \in Seq(Header)
    BY <1>1, <2>2, ParseType DEF Kept
  <2>4. Held'
    BY <1>1, <2>2, HeldStays DEF Kept
  <2>5. /\ api' \in Answers \cup {<<>>} /\ up' \in Seq(Bytes)
        /\ phase' \in {"discard", "done", "body", "finish"} /\ at_line_start' \in BOOLEAN
        /\ why' \in {"none", "large", "refused", "mirror"} /\ reply' \in {0, 250, 550, 552}
    <3>1. /\ api \in Answers \cup {<<>>} /\ up \in Seq(Bytes) /\ at_line_start \in BOOLEAN
          /\ why \in {"none", "large", "refused", "mirror"} /\ reply \in {0, 250, 550, 552}
      BY <1>1 DEF Kept
    <3>2. ASSUME api' \in Answers PROVE header_block(Merged') \in Seq(Bytes)
      <4>1. header_block(merge_headers(asked', api')) \in Seq(Bytes)
        BY <2>3, <3>2, BlockTyped
      <4>2. QED
        BY <4>1 DEF Merged
    <3>3. CASE /\ api' = api \/ api' \in Answers
               /\ \/ /\ body_follows /\ phase' = "discard" /\ at_line_start' = TRUE
                     /\ why' = "refused" /\ UNCHANGED <<up, reply>>
                  \/ /\ ~body_follows /\ phase' = "done" /\ reply' = 550
                     /\ UNCHANGED <<up, at_line_start, why>>
      <4>1. at_line_start' \in BOOLEAN
        BY <3>1, <3>3, Zenon
      <4>2. reply' \in {0, 250, 550, 552}
        BY <3>1, <3>3
      <4>3. /\ api' \in Answers \cup {<<>>} /\ up' \in Seq(Bytes)
            /\ phase' \in {"discard", "done", "body", "finish"}
            /\ why' \in {"none", "large", "refused", "mirror"}
        <5>1. why' = "refused" \/ why' = why
          BY <3>3, Zenon
        <5>2. phase' = "discard" \/ phase' = "done"
          BY <3>3, Zenon
        <5>3. api' \in Answers \cup {<<>>} /\ up' \in Seq(Bytes)
          BY <3>1, <3>3, Zenon
        <5>4. QED
          BY <3>1, <5>1, <5>2, <5>3
      <4>4. QED
        BY <4>1, <4>2, <4>3
    <3>4. CASE /\ api' \in Answers /\ assert_header_relayable(Merged')
               /\ up' = header_block(Merged')
               /\ phase' = IF body_follows THEN "body" ELSE "finish"
               /\ UNCHANGED <<at_line_start, why, reply>>
      BY <3>1, <3>2, <3>4
    <3>5. QED
      BY <2>1, <3>3, <3>4, Zenon DEF OpenBodyCases
  <2>6. QED
    BY <1>1, <2>2, <2>3, <2>4, <2>5 DEF Kept, Reading, readVars
<1>8. CASE BodyLine
  <2>1. BodyLineCases(FirstLine(buf))
    BY <1>8, BodyLineIs
  <2>2. phase = "body" /\ Got /\ UNCHANGED <<input, pos, collector, headers, apiVars>>
    BY <2>1, Zenon DEF BodyLineCases
  <2>3. input' \in Inputs /\ input' \in Seq(Bytes) /\ pos' \in 0..Len(input')
        /\ buf' \in Seq(Bytes) /\ Held'
    BY <2>2, KeptReads
  <2>4. CASE /\ framer' = framer /\ phase' = "finish" /\ body_follows' = FALSE
             /\ at_line_start' = TRUE /\ UNCHANGED <<up, why, reply>>
    BY <1>1, <2>2, <2>3, <2>4 DEF Kept, apiVars, Reading
  <2>5. CASE \E r, z : Staging(framer, FirstLine(buf), r, z) /\ framer' = r.to
                       /\ PieceCases(r.bytes, TRUE)
    <3>1. PICK r, z : Staging(framer, FirstLine(buf), r, z) /\ framer' = r.to
                      /\ PieceCases(r.bytes, TRUE)
      BY <2>5
    <3>2. framer' \in Framer /\ Len(framer'.out) < WRITE_CHUNK /\ r.bytes \in Seq(Bytes)
      BY <3>1, Zenon DEF Staging
    <3>3. up \o r.bytes \in Seq(Bytes)
      BY <1>1, <3>2, ConcatAt DEF Kept
    <3>4. /\ up' \in Seq(Bytes) /\ phase' \in {"body", "discard", "closed"}
          /\ at_line_start' \in BOOLEAN /\ body_follows' \in BOOLEAN
          /\ reply' \in {0, 250, 550, 552} /\ why' \in {"none", "large", "refused", "mirror"}
      BY <1>1, <2>2, <3>1, <3>2, PieceTyped
    <3>5. QED
      BY <1>1, <2>2, <2>3, <3>2, <3>4 DEF Kept, apiVars, Reading
  <2>6. QED
    BY <2>1, <2>4, <2>5, Zenon DEF BodyLineCases
<1>9. CASE BodyTooLong
  <2>1. BodyTooLongCases
    BY <1>9, BodyTooLongIs
  <2>2. phase = "body" /\ TooLong /\ UNCHANGED <<input, pos, collector, headers, apiVars>>
    BY <2>1, Zenon DEF BodyTooLongCases
  <2>3. input' \in Inputs /\ input' \in Seq(Bytes) /\ pos' \in 0..Len(input')
        /\ buf' \in Seq(Bytes) /\ Held'
    BY <2>2, KeptReads
  <2>4. PICK r, z : Staging(framer, buf, r, z) /\ framer' = r.to /\ PieceCases(r.bytes, FALSE)
    BY <2>1, Zenon DEF BodyTooLongCases
  <2>5. framer' \in Framer /\ Len(framer'.out) < WRITE_CHUNK /\ r.bytes \in Seq(Bytes)
    BY <2>4, Zenon DEF Staging
  <2>6. up \o r.bytes \in Seq(Bytes)
    BY <1>1, <2>5, ConcatAt DEF Kept
  <2>7. /\ up' \in Seq(Bytes) /\ phase' \in {"body", "discard", "closed"}
        /\ at_line_start' \in BOOLEAN /\ body_follows' \in BOOLEAN
        /\ reply' \in {0, 250, 550, 552} /\ why' \in {"none", "large", "refused", "mirror"}
    BY <1>1, <2>2, <2>4, <2>5, PieceTyped
  <2>8. QED
    BY <1>1, <2>2, <2>3, <2>5, <2>7 DEF Kept, apiVars, Reading
<1>10. CASE Finish
  <2>1. FinishCases
    BY <1>10, FinishIs
  <2>2. /\ UNCHANGED <<readVars, collector, headers, framer, at_line_start, body_follows, apiVars, why>>
        /\ phase' \in {"done", "closed"}
    BY <2>1 DEF FinishCases
  <2>3. Held'
    BY <1>1, <2>2, HeldStays DEF Kept
  <2>4. up \in Seq(Bytes) /\ up \o Rest \o Tail_ \in Seq(Bytes)
    <3>1. up \in Seq(Bytes) /\ Rest \in Seq(Bytes)
      BY <1>1 DEF Kept, Framer, Rest
    <3>2. up \o Rest \in Seq(Bytes)
      BY <3>1, ConcatAt
    <3>3. QED
      BY <3>1, <3>2, TailType, ConcatAt
  <2>5. up' \in Seq(Bytes) /\ reply' \in {0, 250, 550, 552}
    <3>1. reply \in {0, 250, 550, 552}
      BY <1>1 DEF Kept
    <3>2. up' = up \o Rest \o Tail_ \/ up' = up
      BY <2>1, Zenon DEF FinishCases
    <3>3. reply' \in {250, 550} \/ reply' = 550 \/ reply' = reply
      BY <2>1, Zenon DEF FinishCases
    <3>4. reply' \in {0, 250, 550, 552}
      BY <3>1, <3>3
    <3>5. up' \in Seq(Bytes)
      BY <2>4, <3>2, Zenon
    <3>6. QED
      BY <3>4, <3>5
  <2>6. QED
    BY <1>1, <2>2, <2>3, <2>5 DEF Kept, apiVars, Reading, readVars
<1>11. CASE DiscardLine
  <2>1. DiscardLineCases(FirstLine(buf))
    BY <1>11, DiscardLineIs
  <2>2. /\ phase = "discard" /\ Got
        /\ UNCHANGED <<input, pos, collector, headers, framer, body_follows, apiVars, up, why>>
    BY <2>1, Zenon DEF DiscardLineCases
  <2>3. input' \in Inputs /\ input' \in Seq(Bytes) /\ pos' \in 0..Len(input')
        /\ buf' \in Seq(Bytes) /\ Held'
    BY <2>2, KeptReads
  <2>4. /\ phase' \in {"discard", "done"} /\ at_line_start' \in BOOLEAN
        /\ reply' \in {0, 250, 550, 552}
    <3>1. at_line_start \in BOOLEAN /\ reply \in {0, 250, 550, 552}
      BY <1>1 DEF Kept
    <3>2. phase' \in {"discard", "done"} /\ at_line_start' \in BOOLEAN
      BY <2>1, <3>1, Zenon DEF DiscardLineCases
    <3>3. reply' \in {552, 550, reply} \/ reply' = reply
      BY <2>1, Zenon DEF DiscardLineCases
    <3>4. QED
      BY <3>1, <3>2, <3>3
  <2>5. QED
    BY <1>1, <2>2, <2>3, <2>4 DEF Kept, apiVars, Reading
<1>12. CASE DiscardTooLong
  <2>1. /\ phase = "discard" /\ TooLong /\ at_line_start' = FALSE
        /\ UNCHANGED <<input, pos, phase, collector, headers, framer, body_follows, apiVars, up, why,
                       reply>>
    BY <1>12 DEF DiscardTooLong
  <2>2. input' \in Inputs /\ input' \in Seq(Bytes) /\ pos' \in 0..Len(input')
        /\ buf' \in Seq(Bytes) /\ Held'
    BY <2>1, KeptReads
  <2>3. QED
    BY <1>1, <2>1, <2>2, ZenonT(30) DEF Kept, apiVars, Reading
<1>13. CASE UNCHANGED vars
  <2>1. UNCHANGED <<readVars, phase, collector, headers, framer, at_line_start, body_follows,
                    apiVars, up, why, reply>>
    BY <1>13 DEF vars
  <2>2. Held'
    BY <1>1, <2>1, HeldStays DEF Kept
  <2>3. QED
    BY <1>1, <2>1, <2>2 DEF Kept, apiVars, readVars
<1>14. QED
  BY <1>3, <1>4, <1>5, <1>6, <1>7, <1>8, <1>9, <1>10, <1>11, <1>12, <1>13 DEF Next

\* Every variable keeps its type: the collector stays within max_header_size and
\* the framer below a chunk, and the buffer holds what was read and not yet
\* taken, whatever the client sends and however it is cut into reads.
THEOREM TypeCorrect == Spec => []TypeOK
<1>1. Typed => TypeOK
  BY DEF Typed
<1>2. QED
  BY <1>1, TypedInit, TypedNext, PTL DEF Spec

-----------------------------------------------------------------------------
(* Where the terminator and the empty line are, step by step *)

\* No line of one of these kinds begins in the first k bytes of s.
KindAt(s, i, T) == LineBegins(s, i) /\ LineAt(s, i) \in T
NoKind(s, k, T) == \A i \in 1..k : ~KindAt(s, i, T)
Quiet(s, a, b) == \A j \in a..b : s[j] # LF

LEMMA TermKind == \A s, i : TermAt(s, i) <=> KindAt(s, i, Terminators)
BY DEF TermAt, KindAt, is_terminator, Terminators

LEMMA BlankKind == \A s, i : BlankAt(s, i) <=> KindAt(s, i, Empties)
BY DEF BlankAt, KindAt, is_empty_line, Empties

\* No line begins inside a line ...
LEMMA QuietBegins ==
  ASSUME NEW s, NEW c \in Nat, NEW e \in Nat, Quiet(s, c + 1, e), NEW i \in c + 2..e + 1
  PROVE  ~LineBegins(s, i)
<1>1. i - 1 \in c + 1..e /\ i # 1
  OBVIOUS
<1>2. QED
  BY <1>1 DEF Quiet, LineBegins

\* ... so that a line that is not of the kind is all there is to look at.
LEMMA KindLine ==
  ASSUME NEW s, NEW T, NEW c \in Nat, NEW e \in Nat, e >= c + 1, Quiet(s, c + 1, e - 1),
         NoKind(s, c, T), ~KindAt(s, c + 1, T)
  PROVE  NoKind(s, e, T)
<1>1. SUFFICES ASSUME NEW i \in 1..e PROVE ~KindAt(s, i, T)
  BY DEF NoKind
<1>2. CASE i \in 1..c
  BY <1>2 DEF NoKind
<1>3. CASE i = c + 1
  BY <1>3
<1>4. CASE i \in c + 2..e
  <2>1. e - 1 \in Nat /\ i \in c + 2..(e - 1) + 1
    BY <1>4
  <2>2. ~LineBegins(s, i)
    BY <2>1, QuietBegins
  <2>3. QED
    BY <2>2 DEF KindAt
<1>5. QED
  BY <1>2, <1>3, <1>4

\* Three bytes without a line break are no terminator and no empty line.
LEMMA KindDrop ==
  ASSUME NEW s \in Seq(Bytes), NEW T \in {Terminators, Empties}, NEW c \in Nat,
         NEW p \in 0..Len(s), p >= c + 3, Quiet(s, c + 1, p), NoKind(s, c, T)
  PROVE  NoKind(s, p, T) /\ ~LineBegins(s, p + 1)
<1>1. Len(s) \in Nat /\ p \in Nat /\ c + 1 \in 1..Len(s)
  OBVIOUS
<1>2. ~KindAt(s, c + 1, T)
  <2>1. SUFFICES ASSUME LineAt(s, c + 1) \in T PROVE FALSE
    BY DEF KindAt
  <2>2. PICK e : e = LineEnd(s, c + 1)
    OBVIOUS
  <2>3. EndsAt(s, c + 1, e)
    BY <1>1, <2>2, LineEndIs
  <2>4. e \in c + 1..Len(s)
    BY <2>3 DEF EndsAt
  <2>5. PICK l : l = LineAt(s, c + 1) /\ l = SubSeq(s, c + 1, e)
    BY <2>2 DEF LineAt
  <2>6. /\ l \in Seq(Bytes) /\ Len(l) = e - c /\ \A k \in 1..e - c : l[k] = s[c + k]
    <3>1. e \in 0..Len(s) /\ c \in 0..e
      BY <1>1, <2>4
    <3>2. QED
      BY <2>5, <3>1, Stretch
  <2>7. \/ Len(l) \in {1, 2, 3} /\ l[Len(l)] = LF
    <3>1. CASE T = Terminators
      <4>1. is_terminator(l)
        BY <2>1, <2>5, <2>6, <3>1, TerminatorIs
      <4>2. QED
        BY <2>6, <4>1, TerminatorIs
    <3>2. CASE T = Empties
      <4>1. is_empty_line(l)
        BY <2>1, <2>5, <2>6, <3>2, EmptyLineIs
      <4>2. QED
        BY <2>6, <4>1, EmptyLineIs
    <3>3. QED
      BY <3>1, <3>2
  <2>8. s[e] = LF /\ e \in c + 1..p
    <3>1. e - c \in 1..3 /\ c + (e - c) = e /\ e - c \in 1..e - c
      BY <2>4, <2>6, <2>7
    <3>2. l[e - c] = s[e]
      BY <2>6, <3>1
    <3>3. QED
      BY <1>1, <2>4, <2>6, <2>7, <3>1, <3>2
  <2>9. QED
    BY <2>8 DEF Quiet
<1>3. Quiet(s, c + 1, p - 1)
  <2>1. \A j \in c + 1..p - 1 : j \in c + 1..p
    BY <1>1
  <2>2. QED
    BY <2>1 DEF Quiet
<1>4. NoKind(s, p, T)
  BY <1>1, <1>2, <1>3, KindLine
<1>5. ~LineBegins(s, p + 1)
  <2>1. p + 1 \in c + 2..p + 1
    BY <1>1
  <2>2. QED
    BY <1>1, <2>1, QuietBegins
<1>6. QED
  BY <1>4, <1>5

\* The first k bytes hold no terminator, or no empty line.
NoTerm(s, k) == \A i \in 1..k : ~TermAt(s, i)
NoBlank(s, k) == \A i \in 1..k : ~BlankAt(s, i)

LEMMA NoKinds ==
  /\ \A s, k : NoTerm(s, k) <=> NoKind(s, k, Terminators)
  /\ \A s, k : NoBlank(s, k) <=> NoKind(s, k, Empties)
<1>1. \A s, k : NoTerm(s, k) <=> NoKind(s, k, Terminators)
  BY TermKind DEF NoTerm, NoKind
<1>2. \A s, k : NoBlank(s, k) <=> NoKind(s, k, Empties)
  BY BlankKind DEF NoBlank, NoKind
<1>3. QED
  BY <1>1, <1>2

\* A line is taken: from c to e.
Line(s, c, e) ==
  /\ c \in Nat /\ c + 1 \in 1..Len(s) /\ e \in c + 1..Len(s)
  /\ e = LineEnd(s, c + 1) /\ s[e] = LF /\ Quiet(s, c + 1, e - 1)

LEMMA LineTaken ==
  ASSUME NEW s \in Seq(Bytes), NEW c, NEW e, Line(s, c, e)
  PROVE  /\ LineBegins(s, e + 1)
         /\ NoTerm(s, c) /\ ~TermAt(s, c + 1) => NoTerm(s, e)
         /\ NoTerm(s, c) /\ TermAt(s, c + 1) => FirstTerminator(s) = c + 1
         /\ NoBlank(s, c) /\ ~BlankAt(s, c + 1) => NoBlank(s, e)
         /\ NoBlank(s, c) /\ BlankAt(s, c + 1) => FirstBlank(s) = c + 1
<1>1. /\ Len(s) \in Nat /\ c \in Nat /\ e \in Nat /\ e >= c + 1 /\ s[e] = LF
      /\ Quiet(s, c + 1, e - 1) /\ c + 1 \in 1..Len(s)
  BY DEF Line
<1>2. LineBegins(s, e + 1)
  <2>1. (e + 1) - 1 = e
    BY <1>1
  <2>2. QED
    BY <1>1, <2>1 DEF LineBegins
<1>3. ASSUME NEW T, NoKind(s, c, T), ~KindAt(s, c + 1, T) PROVE NoKind(s, e, T)
  BY <1>1, <1>3, KindLine
<1>4. NoTerm(s, c) /\ ~TermAt(s, c + 1) => NoTerm(s, e)
  BY <1>3, TermKind, NoKinds
<1>5. NoBlank(s, c) /\ ~BlankAt(s, c + 1) => NoBlank(s, e)
  BY <1>3, BlankKind, NoKinds
<1>6. c + 1 \in 1..Len(s) + 1 /\ (c + 1) - 1 = c
  BY <1>1
<1>7. ASSUME NoTerm(s, c), TermAt(s, c + 1) PROVE FirstTerminator(s) = c + 1
  <2>1. FirstAt(s, c + 1)
    BY <1>6, <1>7, Zenon DEF FirstAt, NoTerm
  <2>2. QED
    BY <2>1, FirstTerminatorUnique
<1>8. ASSUME NoBlank(s, c), BlankAt(s, c + 1) PROVE FirstBlank(s) = c + 1
  <2>1. BlankFirstAt(s, c + 1)
    BY <1>6, <1>8, Zenon DEF BlankFirstAt, NoBlank
  <2>2. QED
    BY <2>1, FirstBlankUnique
<1>9. QED
  BY <1>2, <1>4, <1>5, <1>7, <1>8

LEMMA GotLine ==
  ASSUME Typed, Got, input' = input, pos' = pos
  PROVE  /\ Line(input, Consumed, Consumed') /\ Consumed' \in 0..pos
         /\ FirstLine(buf) = LineAt(input, Consumed + 1)
         /\ FirstLine(buf) = SubSeq(input, Consumed + 1, Consumed')
         /\ FirstLine(buf) \in Seq(Bytes) /\ IsLine(FirstLine(buf)) /\ Len(FirstLine(buf)) > 0
<1>1. PICK e : e = LineEnd(input, Consumed + 1)
  OBVIOUS
<1>2. /\ Consumed' = e /\ Consumed + 1 \in 1..Len(input) /\ e \in Consumed + 1..pos
      /\ input[e] = LF /\ \A j \in Consumed + 1..e - 1 : input[j] # LF
      /\ FirstLine(buf) = LineAt(input, Consumed + 1)
      /\ FirstLine(buf) = SubSeq(input, Consumed + 1, e)
      /\ FirstLine(buf) \in Seq(Bytes) /\ IsLine(FirstLine(buf)) /\ Len(FirstLine(buf)) > 0
  BY <1>1, GotStep
<1>3. Len(input) \in Nat /\ pos \in 0..Len(input) /\ Consumed \in Nat
  BY Places
<1>4. e \in Consumed + 1..Len(input) /\ e \in 0..pos
  BY <1>2, <1>3
<1>5. Line(input, Consumed, e)
  BY <1>1, <1>2, <1>3, <1>4 DEF Line, Quiet
<1>6. QED
  BY <1>2, <1>4, <1>5

LEMMA DroppedStep ==
  ASSUME Typed, TooLong, input' = input, pos' = pos
  PROVE  /\ Consumed' = pos /\ ~LineBegins(input, Consumed' + 1)
         /\ NoTerm(input, Consumed) => NoTerm(input, Consumed')
         /\ NoBlank(input, Consumed) => NoBlank(input, Consumed')
<1>1. /\ Consumed' = pos /\ pos >= Consumed + 3
      /\ \A j \in Consumed + 1..pos : input[j] # LF
  BY TooLongStep
<1>2. input \in Seq(Bytes) /\ pos \in 0..Len(input) /\ Consumed \in Nat
  BY Places
<1>3. Quiet(input, Consumed + 1, pos)
  BY <1>1 DEF Quiet
<1>4. ASSUME NEW T \in {Terminators, Empties}, NoKind(input, Consumed, T)
      PROVE  NoKind(input, pos, T) /\ ~LineBegins(input, pos + 1)
  BY <1>1, <1>2, <1>3, <1>4, KindDrop
<1>5. ~LineBegins(input, pos + 1)
  <2>1. pos + 1 \in Consumed + 2..pos + 1 /\ pos \in Nat
    BY <1>1, <1>2
  <2>2. QED
    BY <1>2, <1>3, <2>1, QuietBegins
<1>6. NoTerm(input, Consumed) => NoTerm(input, pos)
  BY <1>4, NoKinds
<1>7. NoBlank(input, Consumed) => NoBlank(input, pos)
  BY <1>4, NoKinds
<1>8. QED
  BY <1>1, <1>5, <1>6, <1>7

-----------------------------------------------------------------------------
(* The proxy stops at the message's own terminator *)

\* The terminator has been read.
Ended == phase = "done" \/ ~body_follows

\* Up to there no line is a terminator; and whoever looks for it knows whether
\* a line begins where it looks.
Stops ==
  /\ phase \in Reading => body_follows
  /\ phase = "finish" => ~body_follows
  /\ Ended => Terminated /\ Consumed = MessageBytes
  /\ ~Ended => NoTerm(input, Consumed)
  /\ phase \in {"header", "open_body"} => framer = NewFramer
  /\ phase \in {"header", "open_body"} /\ body_follows => LineBegins(input, Consumed + 1)
  /\ phase = "body" => (framer.at_line_start <=> LineBegins(input, Consumed + 1))
  /\ phase = "discard" => (at_line_start <=> LineBegins(input, Consumed + 1))

LEMMA StopsInit == Init => Stops
<1> SUFFICES ASSUME Init PROVE Stops
  OBVIOUS
<1>1. Consumed = 0
  <2>1. pos = 0 /\ buf = <<>>
    BY DEF Init
  <2>2. Len(<<>>) = 0 /\ 0 - 0 = 0
    OBVIOUS
  <2>3. QED
    BY <2>1, <2>2 DEF Consumed
<1>2. NoTerm(input, 0) /\ LineBegins(input, 0 + 1)
  BY DEF NoTerm, LineBegins
<1>3. phase = "header" /\ body_follows = TRUE /\ framer = NewFramer
  BY DEF Init
<1>4. QED
  BY <1>1, <1>2, <1>3 DEF Stops, Ended, Reading

\* A line is taken while the terminator is still to come: it is the terminator or not.
LEMMA StopsLine ==
  ASSUME Typed, Stops, Got, UNCHANGED <<input, pos>>
  PROVE  /\ ~Ended /\ body_follows = TRUE /\ LineBegins(input', Consumed' + 1)
         /\ TermAt(input, Consumed + 1) <=>
              LineBegins(input, Consumed + 1) /\ is_terminator(FirstLine(buf))
         /\ ~TermAt(input, Consumed + 1) => NoTerm(input', Consumed')
         /\ TermAt(input, Consumed + 1) => Terminated' /\ Consumed' = MessageBytes'
<1>1. ~Ended /\ body_follows = TRUE /\ NoTerm(input, Consumed)
  <2>1. phase \in Reading /\ phase # "done"
    BY DEF Got, Reading
  <2>2. body_follows \in BOOLEAN
    BY DEF Typed, TypeOK
  <2>3. QED
    BY <2>1, <2>2, Zenon DEF Stops, Ended
<1>2. PICK c, e : c = Consumed /\ e = Consumed'
  OBVIOUS
<1>3. Line(input, c, e) /\ FirstLine(buf) = LineAt(input, c + 1)
  BY <1>2, GotLine
<1>4. input \in Seq(Bytes)
  BY Places
<1>5. /\ LineBegins(input, e + 1)
      /\ ~TermAt(input, c + 1) => NoTerm(input, e)
      /\ TermAt(input, c + 1) => FirstTerminator(input) = c + 1
  BY <1>1, <1>2, <1>3, <1>4, LineTaken
<1>6. TermAt(input, c + 1) <=> LineBegins(input, c + 1) /\ is_terminator(FirstLine(buf))
  BY <1>3, Zenon DEF TermAt
<1>7. ASSUME TermAt(input, c + 1) PROVE Terminated /\ e = MessageBytes
  <2>1. FirstTerminator(input) = c + 1 /\ c + 1 <= Len(input) /\ e = LineEnd(input, c + 1)
    BY <1>3, <1>5, <1>7 DEF Line
  <2>2. QED
    BY <2>1 DEF Terminated, MessageBytes
<1>8. Terminated' = Terminated /\ MessageBytes' = MessageBytes /\ input' = input
  BY DEF Terminated, MessageBytes
<1>9. QED
  BY <1>1, <1>2, <1>5, <1>6, <1>7, <1>8, Zenon

LEMMA StopsDrop ==
  ASSUME Typed, Stops, TooLong, UNCHANGED <<input, pos>>
  PROVE  /\ ~Ended /\ body_follows = TRUE /\ ~LineBegins(input', Consumed' + 1)
         /\ NoTerm(input', Consumed')
<1>1. ~Ended /\ body_follows = TRUE /\ NoTerm(input, Consumed)
  <2>1. phase \in Reading /\ phase # "done"
    BY DEF TooLong, Reading
  <2>2. body_follows \in BOOLEAN
    BY DEF Typed, TypeOK
  <2>3. QED
    BY <2>1, <2>2, Zenon DEF Stops, Ended
<1>2. ~LineBegins(input, Consumed' + 1) /\ NoTerm(input, Consumed')
  BY <1>1, DroppedStep
<1>3. QED
  BY <1>1, <1>2, Zenon

\* Nothing is taken.
LEMMA StopsStill ==
  ASSUME Consumed' = Consumed, input' = input
  PROVE  /\ Terminated' = Terminated /\ MessageBytes' = MessageBytes
         /\ NoTerm(input', Consumed') = NoTerm(input, Consumed)
         /\ LineBegins(input', Consumed' + 1) = LineBegins(input, Consumed + 1)
BY DEF Terminated, MessageBytes

LEMMA ConsumedStays ==
  ASSUME UNCHANGED readVars
  PROVE  Consumed' = Consumed /\ input' = input
BY DEF readVars, Consumed

LEMMA StopsNext == Typed /\ Stops /\ [Next]_vars => Stops'
<1> SUFFICES ASSUME Typed, Stops, [Next]_vars PROVE Stops'
  OBVIOUS
<1>1. CASE Read
  <2>1. Consumed' = Consumed
        /\ UNCHANGED <<input, phase, framer, at_line_start, body_follows>>
    BY <1>1, ReadStep DEF Read
  <2>2. QED
    BY <2>1, StopsStill, Zenon DEF Stops, Ended
<1>2. CASE Eof
  <2>1. phase \in Reading /\ phase' = "closed" /\ UNCHANGED readVars
        /\ UNCHANGED <<framer, at_line_start, body_follows>>
    BY <1>2 DEF Eof, Waiting
  <2>2. Consumed' = Consumed /\ input' = input
    BY <2>1, ConsumedStays
  <2>3. phase # "done" /\ phase' \notin Reading
        /\ phase' \notin {"finish", "header", "open_body", "body", "discard"}
    BY <2>1 DEF Reading
  <2>4. ~Ended /\ ~Ended'
    BY <2>1, <2>3 DEF Stops, Ended
  <2>5. QED
    BY <2>2, <2>3, <2>4, StopsStill DEF Stops
<1>3. CASE HeaderLine
  <2>1. HeaderLineCases(FirstLine(buf), Unstuffed(FirstLine(buf)))
    BY <1>3, HeaderLineIs
  <2>2. /\ phase = "header" /\ Got /\ UNCHANGED <<input, pos, framer>>
        /\ framer' = framer
    BY <2>1, Zenon DEF HeaderLineCases
  <2>3. /\ body_follows = TRUE /\ LineBegins(input', Consumed' + 1)
        /\ TermAt(input, Consumed + 1) <=>
             LineBegins(input, Consumed + 1) /\ is_terminator(FirstLine(buf))
        /\ ~TermAt(input, Consumed + 1) => NoTerm(input', Consumed')
        /\ TermAt(input, Consumed + 1) => Terminated' /\ Consumed' = MessageBytes'
    BY <2>2, StopsLine
  <2>4. LineBegins(input, Consumed + 1) /\ framer' = NewFramer
    BY <2>2, <2>3 DEF Stops
  <2>5. CASE /\ is_terminator(FirstLine(buf)) /\ phase' = "open_body" /\ body_follows' = FALSE
    BY <2>3, <2>4, <2>5 DEF Stops, Ended, Reading
  <2>6. CASE /\ ~is_terminator(FirstLine(buf)) /\ body_follows' = TRUE
             /\ \/ phase' \in {"open_body", "header"}
                \/ phase' = "discard" /\ at_line_start' = TRUE
    BY <2>3, <2>4, <2>6 DEF Stops, Ended, Reading
  <2>7. QED
    BY <2>1, <2>2, <2>3, <2>5, <2>6 DEF HeaderLineCases
<1>4. CASE HeaderTooLong
  <2>1. /\ phase = "header" /\ TooLong /\ phase' = "discard" /\ at_line_start' = FALSE
        /\ UNCHANGED <<input, pos, body_follows>>
    BY <1>4 DEF HeaderTooLong, Drain
  <2>2. body_follows = TRUE /\ ~LineBegins(input', Consumed' + 1) /\ NoTerm(input', Consumed')
    BY <2>1, StopsDrop
  <2>3. QED
    BY <2>1, <2>2 DEF Stops, Ended, Reading
<1>5. CASE OpenBody
  <2>1. OpenBodyCases
    BY <1>5, OpenBodyIs
  <2>2. phase = "open_body" /\ UNCHANGED readVars /\ framer' = framer /\ body_follows' = body_follows
    BY <2>1, Zenon DEF OpenBodyCases
  <2>3. Consumed' = Consumed /\ input' = input
    BY <2>2, ConsumedStays
  <2>4. framer' = NewFramer /\ framer'.at_line_start = TRUE
    BY <2>2 DEF Stops, NewFramer
  <2>5. body_follows => LineBegins(input', Consumed' + 1)
    BY <2>2, <2>3, StopsStill DEF Stops
  <2>6. \/ body_follows /\ phase' = "discard" /\ at_line_start' = TRUE
        \/ ~body_follows /\ phase' \in {"done", "finish"}
        \/ body_follows /\ phase' = "body"
    BY <2>1, Zenon DEF OpenBodyCases
  <2>7. Ended' <=> Ended
    BY <2>2, <2>6 DEF Ended
  <2>8. QED
    BY <2>2, <2>3, <2>4, <2>5, <2>6, <2>7, StopsStill DEF Stops, Reading
<1>6. CASE BodyLine
  <2>1. BodyLineCases(FirstLine(buf))
    BY <1>6, BodyLineIs
  <2>2. phase = "body" /\ Got /\ UNCHANGED <<input, pos>>
    BY <2>1, Zenon DEF BodyLineCases
  <2>3. /\ body_follows = TRUE /\ LineBegins(input', Consumed' + 1)
        /\ TermAt(input, Consumed + 1) <=>
             LineBegins(input, Consumed + 1) /\ is_terminator(FirstLine(buf))
        /\ ~TermAt(input, Consumed + 1) => NoTerm(input', Consumed')
        /\ TermAt(input, Consumed + 1) => Terminated' /\ Consumed' = MessageBytes'
    BY <2>2, StopsLine
  <2>4. framer.at_line_start <=> LineBegins(input, Consumed + 1)
    BY <2>2 DEF Stops
  <2>5. CASE /\ framer.at_line_start /\ is_terminator(FirstLine(buf))
             /\ phase' = "finish" /\ body_follows' = FALSE
    BY <2>3, <2>4, <2>5 DEF Stops, Ended, Reading
  <2>6. CASE /\ ~(framer.at_line_start /\ is_terminator(FirstLine(buf)))
             /\ framer'.at_line_start = TRUE
             /\ \E r, z : PieceCases(r.bytes, TRUE)
    <3>1. /\ body_follows' = TRUE
          /\ \/ phase' \in {"body", "closed"}
             \/ phase' = "discard" /\ at_line_start' = TRUE
      BY <2>2, <2>3, <2>6 DEF PieceCases
    <3>2. QED
      BY <2>3, <2>4, <2>6, <3>1 DEF Stops, Ended, Reading
  <2>7. QED
    BY <2>1, <2>5, <2>6, Zenon DEF BodyLineCases
<1>7. CASE BodyTooLong
  <2>1. BodyTooLongCases
    BY <1>7, BodyTooLongIs
  <2>2. phase = "body" /\ TooLong /\ UNCHANGED <<input, pos>> /\ framer'.at_line_start = FALSE
    BY <2>1, Zenon DEF BodyTooLongCases
  <2>3. body_follows = TRUE /\ ~LineBegins(input', Consumed' + 1) /\ NoTerm(input', Consumed')
    BY <2>2, StopsDrop
  <2>4. /\ body_follows' = TRUE
        /\ \/ phase' \in {"body", "closed"}
           \/ phase' = "discard" /\ at_line_start' = FALSE
    BY <2>1, <2>2, <2>3 DEF BodyTooLongCases, PieceCases
  <2>5. QED
    BY <2>2, <2>3, <2>4 DEF Stops, Ended, Reading
<1>8. CASE Finish
  <2>1. phase = "finish" /\ UNCHANGED readVars /\ body_follows' = body_follows
        /\ phase' \in {"done", "closed"}
    BY <1>8, FinishIs DEF FinishCases
  <2>2. Consumed' = Consumed /\ input' = input
    BY <2>1, ConsumedStays
  <2>3. ~body_follows /\ Ended /\ Ended'
    BY <2>1 DEF Stops, Ended
  <2>4. QED
    BY <2>1, <2>2, <2>3, StopsStill DEF Stops, Reading
<1>9. CASE DiscardLine
  <2>1. DiscardLineCases(FirstLine(buf))
    BY <1>9, DiscardLineIs
  <2>2. phase = "discard" /\ Got /\ UNCHANGED <<input, pos, body_follows>>
    BY <2>1, Zenon DEF DiscardLineCases
  <2>3. /\ body_follows = TRUE /\ LineBegins(input', Consumed' + 1)
        /\ TermAt(input, Consumed + 1) <=>
             LineBegins(input, Consumed + 1) /\ is_terminator(FirstLine(buf))
        /\ ~TermAt(input, Consumed + 1) => NoTerm(input', Consumed')
        /\ TermAt(input, Consumed + 1) => Terminated' /\ Consumed' = MessageBytes'
    BY <2>2, StopsLine
  <2>4. at_line_start <=> LineBegins(input, Consumed + 1)
    BY <2>2 DEF Stops
  <2>5. CASE at_line_start /\ is_terminator(FirstLine(buf)) /\ phase' = "done"
    BY <2>3, <2>4, <2>5 DEF Stops, Ended, Reading
  <2>6. CASE /\ ~(at_line_start /\ is_terminator(FirstLine(buf))) /\ at_line_start' = TRUE
             /\ phase' = phase
    BY <2>2, <2>3, <2>4, <2>6 DEF Stops, Ended, Reading
  <2>7. QED
    BY <2>1, <2>5, <2>6, Zenon DEF DiscardLineCases
<1>10. CASE DiscardTooLong
  <2>1. /\ phase = "discard" /\ TooLong /\ at_line_start' = FALSE
        /\ UNCHANGED <<input, pos, phase, body_follows>>
    BY <1>10 DEF DiscardTooLong
  <2>2. body_follows = TRUE /\ ~LineBegins(input', Consumed' + 1) /\ NoTerm(input', Consumed')
    BY <2>1, StopsDrop
  <2>3. QED
    BY <2>1, <2>2 DEF Stops, Ended, Reading
<1>11. CASE UNCHANGED vars
  <2>1. UNCHANGED readVars /\ UNCHANGED <<phase, framer, at_line_start, body_follows>>
    BY <1>11 DEF vars
  <2>2. Consumed' = Consumed /\ input' = input
    BY <2>1, ConsumedStays
  <2>3. QED
    BY <2>1, <2>2, StopsStill, Zenon DEF Stops, Ended
<1>12. QED
  BY <1>1, <1>2, <1>3, <1>4, <1>5, <1>6, <1>7, <1>8, <1>9, <1>10, <1>11 DEF Next

LEMMA StopsThere == Typed /\ Stops => StopsAtTerminator
<1> SUFFICES ASSUME Typed, Stops PROVE StopsAtTerminator
  OBVIOUS
<1>1. CASE Ended
  BY <1>1, Zenon DEF StopsAtTerminator, Stops, Ended, Consumed
<1>2. CASE ~Ended
  <2>1. NoTerm(input, Consumed)
    BY <1>2 DEF Stops
  <2>2. SUFFICES ASSUME Terminated PROVE Consumed < MessageBytes
    BY <1>2, Zenon DEF StopsAtTerminator, Ended, Consumed
  <2>3. PICK k : k = FirstTerminator(input)
    OBVIOUS
  <2>4. input \in Seq(Bytes) /\ Len(input) \in Nat /\ Consumed \in Nat
    BY Places
  <2>5. k \in 1..Len(input) /\ TermAt(input, k)
    <3>1. FirstAt(input, k) /\ k <= Len(input)
      BY <2>2, <2>3, <2>4, FirstTerminatorIs DEF Terminated
    <3>2. QED
      BY <2>4, <3>1 DEF FirstAt
  <2>6. k > Consumed
    BY <2>1, <2>4, <2>5 DEF NoTerm
  <2>7. LineEnd(input, k) \in k..Len(input)
    BY <2>4, <2>5, LineEndIs DEF EndsAt
  <2>8. QED
    BY <2>3, <2>4, <2>5, <2>6, <2>7 DEF MessageBytes
<1>3. QED
  BY <1>1, <1>2

\* The proxy stops reading at the message's own terminator, for every input,
\* every cut of it into reads and every bound: the header cap, a full staging
\* buffer and a refusal fall where they may (next_line, discard_to_terminator).
THEOREM TerminatorFound == Spec => []StopsAtTerminator
<1>1. Init => Typed /\ Stops
  BY TypedInit, StopsInit
<1>2. Typed /\ Stops /\ [Next]_vars => Typed' /\ Stops'
  BY TypedNext, StopsNext
<1>3. QED
  BY <1>1, <1>2, StopsThere, PTL DEF Spec

-----------------------------------------------------------------------------
(* The header block *)

BodyStart == LineEnd(Text, FirstBlank(Text))

LEMMA PrefixOfPrefix ==
  ASSUME NEW S, NEW s \in Seq(S), NEW p \in 0..Len(s), NEW c \in 0..p
  PROVE  SubSeq(SubSeq(s, 1, p), 1, c) = SubSeq(s, 1, c)
<1>1. 0 \in 0..p /\ 1 \in 1..(p - 0) + 1 /\ c \in 1 - 1..p - 0 /\ 0 + 1 = 1 /\ 0 + c = c
  OBVIOUS
<1>2. SubSeq(SubSeq(s, 0 + 1, p), 1, c) = SubSeq(s, 0 + 1, 0 + c)
  BY <1>1, SubOfSub
<1>3. QED
  BY <1>1, <1>2

\* At the first empty line, or a terminator before any, the block is complete.
HeadEnds(c) ==
  /\ HeaderSent = unstuff(SubSeq(input, 1, c))
  /\ IF TermAt(input, c + 1) THEN BodySent = <<>>
     ELSE BodyStart = LineEnd(input, c + 1) /\ BodyStart \in c + 1..Len(Text)

LEMMA HeadDone ==
  ASSUME input \in Seq(Bytes), NEW c \in Nat, c + 1 \in 1..Len(input),
         NoTerm(input, c), NoBlank(input, c), TermAt(input, c + 1) \/ BlankAt(input, c + 1)
  PROVE  HeadEnds(c)
<1>1. PICK k : k = FirstTerminator(input)
  OBVIOUS
<1>2. /\ FirstAt(input, k) /\ Text \in Seq(Bytes) /\ Len(Text) = k - 1
      /\ \A i \in 1..Len(Text) : /\ BlankAt(Text, i) <=> BlankAt(input, i)
                                 /\ LineEnd(Text, i) = LineEnd(input, i)
  BY <1>1, TextIs
<1>3. k \in 1..Len(input) + 1 /\ Len(input) \in Nat /\ (k <= Len(input) => TermAt(input, k))
      /\ (\A i \in 1..k - 1 : ~TermAt(input, i)) /\ Text = SubSeq(input, 1, k - 1)
  BY <1>1, <1>2 DEF FirstAt, Text
<1>4. k >= c + 1
  <2>1. SUFFICES ASSUME k < c + 1 PROVE FALSE
    BY <1>3
  <2>2. k \in 1..c /\ k <= Len(input)
    BY <1>3, <2>1
  <2>3. QED
    BY <1>3, <2>2 DEF NoTerm
<1>5. NoBlank(Text, c) /\ c \in 0..k - 1 /\ k - 1 \in 0..Len(input)
  <2>1. \A i \in 1..c : i \in 1..Len(Text)
    BY <1>2, <1>3, <1>4
  <2>2. QED
    BY <1>2, <1>3, <1>4, <2>1 DEF NoBlank
<1>6. SubSeq(Text, 1, c) = SubSeq(input, 1, c)
  BY <1>3, <1>5, PrefixOfPrefix
<1>7. ASSUME FirstBlank(Text) = c + 1
      PROVE  HeaderSent = unstuff(SubSeq(input, 1, c))
  <2>1. (c + 1) - 1 = c
    OBVIOUS
  <2>2. QED
    BY <1>6, <1>7, <2>1 DEF HeaderSent
<1>8. CASE TermAt(input, c + 1)
  <2>1. k = c + 1 /\ Len(Text) = c
    <3>1. ~(k > c + 1)
      <4>1. SUFFICES ASSUME k > c + 1 PROVE FALSE
        OBVIOUS
      <4>2. c + 1 \in 1..k - 1
        BY <1>3, <4>1
      <4>3. QED
        BY <1>3, <1>8, <4>2
    <3>2. QED
      BY <1>2, <1>3, <1>4, <3>1
  <2>2. BlankFirstAt(Text, c + 1)
    <3>1. c + 1 \in 1..Len(Text) + 1 /\ (c + 1) - 1 = c /\ ~(c + 1 <= Len(Text))
      BY <2>1
    <3>2. QED
      BY <1>5, <3>1, Zenon DEF BlankFirstAt, NoBlank
  <2>3. FirstBlank(Text) = c + 1
    BY <1>2, <2>2, FirstBlankUnique
  <2>4. LineEnd(Text, FirstBlank(Text)) = c
    BY <1>2, <2>1, <2>3, LineEndPast
  <2>5. BodySent = SubSeq(Text, c + 1, c)
    BY <2>1, <2>4 DEF BodySent
  <2>6. SubSeq(Text, c + 1, c) = <<>>
    BY <1>2, SubSeqEmpty
  <2>7. QED
    BY <1>7, <1>8, <2>3, <2>5, <2>6 DEF HeadEnds
<1>9. CASE ~TermAt(input, c + 1)
  <2>1. k > c + 1
    BY <1>3, <1>4, <1>9
  <2>2. c + 1 \in 1..Len(Text) /\ BlankAt(Text, c + 1)
    BY <1>2, <1>3, <1>9, <2>1
  <2>3. BlankFirstAt(Text, c + 1)
    <3>1. c + 1 \in 1..Len(Text) + 1 /\ (c + 1) - 1 = c
      BY <1>2, <2>2
    <3>2. QED
      BY <1>5, <2>2, <3>1, Zenon DEF BlankFirstAt, NoBlank
  <2>4. FirstBlank(Text) = c + 1
    BY <1>2, <2>3, FirstBlankUnique
  <2>5. LineEnd(Text, c + 1) \in c + 1..Len(Text)
    BY <1>2, <2>2, LineEndIs DEF EndsAt
  <2>6. QED
    BY <1>2, <1>7, <1>9, <2>2, <2>4, <2>5 DEF HeadEnds, BodyStart
<1>10. QED
  BY <1>8, <1>9

\* As long as neither has been seen, what has been read is in the block.
LEMMA HeadSize ==
  ASSUME input \in Seq(Bytes), NEW k \in 0..Len(input), NoTerm(input, k), NoBlank(input, k)
  PROVE  Len(HeaderSent) >= Len(unstuff(SubSeq(input, 1, k)))
<1>1. PICK t : t = FirstTerminator(input)
  OBVIOUS
<1>2. /\ FirstAt(input, t) /\ Text \in Seq(Bytes) /\ Len(Text) = t - 1
      /\ \A i \in 1..Len(Text) : BlankAt(Text, i) <=> BlankAt(input, i)
  BY <1>1, TextIs
<1>3. t \in 1..Len(input) + 1 /\ Len(input) \in Nat /\ (t <= Len(input) => TermAt(input, t))
      /\ Text = SubSeq(input, 1, t - 1)
  BY <1>1, <1>2 DEF FirstAt, Text
<1>4. t >= k + 1
  <2>1. SUFFICES ASSUME t < k + 1 PROVE FALSE
    BY <1>3
  <2>2. t \in 1..k /\ t <= Len(input)
    BY <1>3, <2>1
  <2>3. QED
    BY <1>3, <2>2 DEF NoTerm
<1>5. PICK b : b = FirstBlank(Text)
  OBVIOUS
<1>6. b \in 1..Len(Text) + 1 /\ (b <= Len(Text) => BlankAt(Text, b))
  BY <1>2, <1>5, FirstBlankIs DEF BlankFirstAt
<1>7. b >= k + 1
  <2>1. SUFFICES ASSUME b < k + 1 PROVE FALSE
    BY <1>2, <1>3, <1>6
  <2>2. b \in 1..k /\ b \in 1..Len(Text) /\ b <= Len(Text)
    BY <1>2, <1>3, <1>4, <1>6, <2>1
  <2>3. QED
    BY <1>2, <1>6, <2>2 DEF NoBlank
<1>8. b - 1 \in 0..t - 1 /\ t - 1 \in 0..Len(input) /\ k \in 0..b - 1 /\ b - 1 \in 0..Len(input)
  BY <1>2, <1>3, <1>6, <1>7
<1>9. SubSeq(Text, 1, b - 1) = SubSeq(input, 1, b - 1)
  BY <1>3, <1>8, PrefixOfPrefix
<1>10. SubSeq(input, 1, b - 1) = SubSeq(input, 1, k) \o SubSeq(input, k + 1, b - 1)
  <2>1. 1 \in 1..Len(input) + 1 /\ k \in 1 - 1..Len(input) /\ b - 1 \in k..Len(input)
    BY <1>3, <1>8
  <2>2. QED
    BY <2>1, ConcatAdjacentSubSeq
<1>11. SubSeq(input, 1, k) \in Seq(Bytes) /\ SubSeq(input, k + 1, b - 1) \in Seq(Bytes)
  BY <1>8, PrefixAt, Stretch
<1>12. PICK x \in Seq(Bytes) : HeaderSent = unstuff(SubSeq(input, 1, k)) \o x
  <2>1. PICK p, q : p = SubSeq(input, 1, k) /\ q = SubSeq(input, k + 1, b - 1)
    OBVIOUS
  <2>2. p \in Seq(Bytes) /\ q \in Seq(Bytes)
    BY <1>11, <2>1
  <2>3. HeaderSent = unstuff(p \o q)
    BY <1>5, <1>9, <1>10, <2>1 DEF HeaderSent
  <2>4. \E x \in Seq(Bytes) : unstuff(p \o q) = unstuff(p) \o x
    BY <2>2, UnstuffPrefix
  <2>5. QED
    BY <2>1, <2>3, <2>4
<1>13. unstuff(SubSeq(input, 1, k)) \in Seq(Bytes)
  BY <1>11, UnstuffType
<1>14. QED
  BY <1>12, <1>13

\* A line, or what has been read of one, adds to the block what is left of it
\* without its dot.
LEMMA HeadGrows ==
  ASSUME input \in Seq(Bytes), NEW c \in Nat, NEW e \in 0..Len(input), e >= c + 1,
         Quiet(input, c + 1, e - 1), LineBegins(input, c + 1),
         NEW l, l = SubSeq(input, c + 1, e)
  PROVE  /\ unstuff(SubSeq(input, 1, e)) = unstuff(SubSeq(input, 1, c)) \o Unstuffed(l)
         /\ unstuff(SubSeq(input, 1, c)) \in Seq(Bytes) /\ Unstuffed(l) \in Seq(Bytes)
         /\ Len(Unstuffed(l)) >= (e - c) - 1
<1>1. Len(input) \in Nat /\ c \in 0..e /\ e \in Nat /\ c \in 0..Len(input)
  OBVIOUS
<1>2. PICK a : a = SubSeq(input, 1, c)
  OBVIOUS
<1>3. a \in Seq(Bytes) /\ Len(a) = c /\ \A i \in 1..c : a[i] = input[i]
  BY <1>1, <1>2, PrefixAt
<1>4. l \in Seq(Bytes) /\ Len(l) = e - c /\ \A i \in 1..e - c : l[i] = input[c + i]
  BY <1>1, Stretch
<1>5. SubSeq(input, 1, e) = a \o l
  <2>1. 1 \in 1..Len(input) + 1 /\ c \in 1 - 1..Len(input) /\ e \in c..Len(input)
    BY <1>1
  <2>2. QED
    BY <1>2, <2>1, ConcatAdjacentSubSeq
<1>6. Whole(a)
  <2>1. CASE c = 0
    BY <1>3, <2>1 DEF Whole
  <2>2. CASE c > 0
    <3>1. (c + 1) - 1 = c /\ c + 1 # 1 /\ c \in 1..c
      BY <2>2
    <3>2. input[c] = LF
      BY <3>1 DEF LineBegins
    <3>3. QED
      BY <1>3, <3>1, <3>2 DEF Whole
  <2>3. QED
    BY <2>1, <2>2
<1>7. \A j \in 1..Len(l) - 1 : l[j] # LF
  <2>1. \A j \in 1..Len(l) - 1 : j \in 1..e - c /\ c + j \in c + 1..e - 1
    BY <1>1, <1>4
  <2>2. QED
    BY <1>4, <2>1 DEF Quiet
<1>8. unstuff(l) = Unstuffed(l) /\ Unstuffed(l) \in Seq(Bytes) /\ Len(Unstuffed(l)) >= Len(l) - 1
  BY <1>4, <1>7, UnstuffLine
<1>9. unstuff(a \o l) = unstuff(a) \o unstuff(l)
  BY <1>3, <1>4, <1>6, UnstuffConcat
<1>10. unstuff(a) \in Seq(Bytes)
  BY <1>3, UnstuffType
<1>11. QED
  BY <1>2, <1>4, <1>5, <1>8, <1>9, <1>10

\* The block is collected as it is read, and handed over whole; it is too large
\* only if the message makes it so.
Heads ==
  /\ phase = "header" => /\ collector.headers = unstuff(SubSeq(input, 1, Consumed))
                         /\ NoBlank(input, Consumed)
  /\ phase \in {"open_body", "body", "finish"} => headers = HeaderSent
  /\ why = "large" => Len(HeaderSent) > max_header_size

LEMMA HeadsInit == Init => Heads
<1> SUFFICES ASSUME Init PROVE Heads
  OBVIOUS
<1>1. Consumed = 0
  <2>1. pos = 0 /\ buf = <<>>
    BY DEF Init
  <2>2. Len(<<>>) = 0 /\ 0 - 0 = 0
    OBVIOUS
  <2>3. QED
    BY <2>1, <2>2 DEF Consumed
<1>2. phase = "header" /\ why = "none" /\ collector.headers = <<>> /\ input \in Seq(Bytes)
  BY MessageAssumption DEF Init, NewCollector
<1>3. SubSeq(input, 1, 0) = <<>>
  BY <1>2, SubSeqEmpty
<1>4. NoBlank(input, 0)
  BY DEF NoBlank
<1>5. QED
  BY <1>1, <1>2, <1>3, <1>4, UnstuffEmpty DEF Heads

\* What the whole of the input says does not change.
LEMMA Sent ==
  ASSUME input' = input
  PROVE  /\ HeaderSent' = HeaderSent /\ BodySent' = BodySent /\ BodyStart' = BodyStart
         /\ Text' = Text /\ Terminated' = Terminated
BY DEF HeaderSent, BodySent, BodyStart, Text, Terminated

\* A step that leaves the block where it is.
SameBlock ==
  /\ input' = input /\ Consumed' = Consumed /\ collector' = collector /\ headers' = headers
  /\ \/ phase' = phase
     \/ phase' \notin {"header", "open_body", "body", "finish"}
     \/ phase = "open_body" /\ phase' \in {"body", "finish"}
  /\ why' = why \/ why' \in {"refused", "mirror"}

LEMMA HeadsStay ==
  ASSUME Heads, SameBlock
  PROVE  Heads'
<1> USE DEF SameBlock
<1>1. phase' = "header" => /\ collector'.headers = unstuff(SubSeq(input', 1, Consumed'))
                           /\ NoBlank(input', Consumed')
  BY DEF Heads
<1>2. phase' \in {"open_body", "body", "finish"} => headers' = HeaderSent'
  BY Sent DEF Heads
<1>3. why' = "large" => Len(HeaderSent') > max_header_size
  <2>1. why' = "large" => why = "large"
    OBVIOUS
  <2>2. QED
    BY <2>1, Sent DEF Heads
<1>4. QED
  BY <1>1, <1>2, <1>3 DEF Heads

\* A step past the block.
LEMMA HeadsPast ==
  ASSUME Heads, input' = input, phase \in {"body", "discard"},
         phase' \notin {"header", "open_body"}, phase = "discard" => phase' \in {"discard", "done"},
         UNCHANGED <<headers>>, why' = why \/ why' \in {"refused", "mirror"}
  PROVE  Heads'
<1>1. phase' \in {"open_body", "body", "finish"} => headers' = HeaderSent'
  BY Sent DEF Heads
<1>2. why' = "large" => Len(HeaderSent') > max_header_size
  <2>1. why' = "large" => why = "large"
    OBVIOUS
  <2>2. QED
    BY <2>1, Sent DEF Heads
<1>3. QED
  BY <1>1, <1>2 DEF Heads

LEMMA SentType ==
  ASSUME input \in Seq(Bytes)
  PROVE  /\ HeaderSent \in Seq(Bytes) /\ Len(HeaderSent) \in Nat
         /\ BodySent \in Seq(Bytes) /\ BodyStart \in 0..Len(Text)
<1>1. Text \in Seq(Bytes) /\ Len(Text) \in Nat
  BY TextIs
<1>2. PICK b : b = FirstBlank(Text)
  OBVIOUS
<1>3. b \in 1..Len(Text) + 1
  BY <1>1, <1>2, FirstBlankIs DEF BlankFirstAt
<1>4. HeaderSent \in Seq(Bytes)
  <2>1. b - 1 \in 0..Len(Text)
    BY <1>1, <1>3
  <2>2. SubSeq(Text, 1, b - 1) \in Seq(Bytes)
    BY <1>1, <2>1, PrefixAt
  <2>3. QED
    BY <1>2, <2>2, UnstuffType DEF HeaderSent
<1>5. BodyStart \in 0..Len(Text)
  <2>1. CASE b \in 1..Len(Text)
    <3>1. LineEnd(Text, b) \in b..Len(Text)
      BY <1>1, <2>1, LineEndIs DEF EndsAt
    <3>2. QED
      BY <1>1, <1>2, <2>1, <3>1 DEF BodyStart
  <2>2. CASE b = Len(Text) + 1
    <3>1. LineEnd(Text, b) = Len(Text)
      BY <1>1, <2>2, LineEndPast
    <3>2. QED
      BY <1>1, <1>2, <3>1 DEF BodyStart
  <2>3. QED
    BY <1>1, <1>3, <2>1, <2>2
<1>6. BodySent \in Seq(Bytes)
  <2>1. BodySent = SubSeq(Text, BodyStart + 1, Len(Text))
    BY DEF BodySent, BodyStart
  <2>2. QED
    BY <1>1, <1>5, <2>1, PrefixRest
<1>7. QED
  BY <1>4, <1>5, <1>6

LEMMA HeadsHeaderLine ==
  ASSUME Typed, Stops, Heads, HeaderLine
  PROVE  Heads' /\ (phase' = "open_body" => HeadEnds(Consumed))
<1>1. HeaderLineCases(FirstLine(buf), Unstuffed(FirstLine(buf)))
  BY HeaderLineIs
<1>2. /\ phase = "header" /\ Got /\ UNCHANGED <<input, pos>>
  BY <1>1, Zenon DEF HeaderLineCases
<1>3. input' = input /\ pos' = pos
  BY <1>2
<1>4. PICK c, e, l : c = Consumed /\ e = Consumed' /\ l = FirstLine(buf)
  OBVIOUS
<1>5. Line(input, c, e) /\ l = LineAt(input, c + 1) /\ l = SubSeq(input, c + 1, e)
  BY <1>2, <1>3, <1>4, GotLine
<1>6. input \in Seq(Bytes) /\ Len(input) \in Nat
  BY Places
<1>7. /\ c \in Nat /\ c + 1 \in 1..Len(input) /\ e \in 0..Len(input) /\ e >= c + 1
      /\ Quiet(input, c + 1, e - 1)
  BY <1>5, <1>6 DEF Line
<1>8. NoTerm(input, c) /\ LineBegins(input, c + 1)
  <2>1. body_follows = TRUE /\ ~Ended
    BY <1>2, StopsLine
  <2>2. QED
    BY <1>2, <1>4, <2>1 DEF Stops
<1>9. NoBlank(input, c) /\ collector.headers = unstuff(SubSeq(input, 1, c))
  BY <1>2, <1>4 DEF Heads
<1>10. /\ TermAt(input, c + 1) <=> is_terminator(l)
       /\ BlankAt(input, c + 1) <=> is_empty_line(l)
  BY <1>5, <1>8, Zenon DEF TermAt, BlankAt
<1>11. ASSUME is_terminator(l) \/ is_empty_line(l), headers' = collector.headers,
              phase' = "open_body", why' = why
       PROVE  Heads' /\ HeadEnds(c)
  <2>1. HeadEnds(c)
    BY <1>6, <1>7, <1>8, <1>9, <1>10, <1>11, HeadDone
  <2>2. headers' = HeaderSent'
    BY <1>3, <1>9, <1>11, <2>1, Sent DEF HeadEnds
  <2>3. why' = "large" => Len(HeaderSent') > max_header_size
    BY <1>3, <1>11, Sent DEF Heads
  <2>4. QED
    BY <1>11, <2>1, <2>2, <2>3 DEF Heads
<1>12. ASSUME ~is_terminator(l), ~is_empty_line(l)
       PROVE  /\ NoTerm(input, e) /\ NoBlank(input, e)
              /\ unstuff(SubSeq(input, 1, e)) = collector.headers \o Unstuffed(l)
              /\ Len(unstuff(SubSeq(input, 1, e))) = Len(collector.headers) + Len(Unstuffed(l))
  <2>1. NoTerm(input, e) /\ NoBlank(input, e)
    BY <1>5, <1>6, <1>8, <1>9, <1>10, <1>12, LineTaken
  <2>2. /\ unstuff(SubSeq(input, 1, e)) = unstuff(SubSeq(input, 1, c)) \o Unstuffed(l)
        /\ unstuff(SubSeq(input, 1, c)) \in Seq(Bytes) /\ Unstuffed(l) \in Seq(Bytes)
    BY <1>5, <1>6, <1>7, <1>8, HeadGrows
  <2>3. collector.headers \in Seq(Bytes)
    BY <1>9, <2>2
  <2>4. Len(collector.headers \o Unstuffed(l)) = Len(collector.headers) + Len(Unstuffed(l))
    BY <2>2, <2>3, ConcatAt
  <2>5. QED
    BY <1>9, <2>1, <2>2, <2>4
<1>13. CASE /\ ~is_terminator(l) /\ ~is_empty_line(l)
            /\ Len(collector.headers) + Len(Unstuffed(l)) > max_header_size
            /\ phase' = "discard"
  <2>1. Len(HeaderSent) >= Len(unstuff(SubSeq(input, 1, e)))
    BY <1>6, <1>7, <1>12, <1>13, HeadSize
  <2>2. Len(HeaderSent) > max_header_size
    <3>1. PICK n, m : n = Len(HeaderSent) /\ m = Len(unstuff(SubSeq(input, 1, e)))
      OBVIOUS
    <3>2. m = Len(collector.headers) + Len(Unstuffed(l)) /\ n >= m
      BY <1>12, <1>13, <2>1, <3>1
    <3>3. m > max_header_size
      BY <1>13, <3>2
    <3>4. n \in Nat /\ m \in Nat /\ max_header_size \in Nat
      <4>1. HeaderSent \in Seq(Bytes) /\ unstuff(SubSeq(input, 1, e)) \in Seq(Bytes)
        BY <1>6, <1>7, SentType, PrefixAt, UnstuffType
      <4>2. QED
        BY <3>1, <4>1, FramingAssumption
    <3>5. QED
      BY <3>1, <3>2, <3>3, <3>4
  <2>3. QED
    BY <1>3, <1>13, <2>2, Sent DEF Heads
<1>14. CASE /\ ~is_terminator(l) /\ ~is_empty_line(l) /\ phase' = phase /\ why' = why
            /\ collector'.headers = collector.headers \o Unstuffed(l)
  <2>1. collector'.headers = unstuff(SubSeq(input', 1, Consumed')) /\ NoBlank(input', Consumed')
    BY <1>3, <1>4, <1>12, <1>14
  <2>2. why' = "large" => Len(HeaderSent') > max_header_size
    BY <1>3, <1>14, Sent DEF Heads
  <2>3. QED
    BY <1>2, <1>14, <2>1, <2>2 DEF Heads
<1>15. \/ /\ is_terminator(l) \/ is_empty_line(l)
          /\ headers' = collector.headers /\ phase' = "open_body" /\ why' = why
       \/ /\ ~is_terminator(l) /\ ~is_empty_line(l)
          /\ Len(collector.headers) + Len(Unstuffed(l)) > max_header_size
          /\ phase' = "discard"
       \/ /\ ~is_terminator(l) /\ ~is_empty_line(l) /\ phase' = phase /\ why' = why
          /\ collector'.headers = collector.headers \o Unstuffed(l)
  BY <1>1, <1>4, Zenon DEF HeaderLineCases
<1>16. ASSUME phase' = "open_body" PROVE HeadEnds(c)
  <2>1. phase' # "discard" /\ phase' # phase
    BY <1>2, <1>16
  <2>2. QED
    BY <1>11, <1>15, <2>1, Zenon
<1>17. QED
  BY <1>4, <1>11, <1>13, <1>14, <1>15, <1>16

LEMMA HeadsTooLong ==
  ASSUME Typed, Stops, Heads, HeaderTooLong
  PROVE  Heads'
<1>1. /\ phase = "header" /\ TooLong /\ phase' = "discard" /\ why' = "large"
      /\ input' = input /\ pos' = pos
  BY DEF HeaderTooLong, Drain
<1>2. /\ input \in Seq(Bytes) /\ Len(input) \in Nat /\ pos \in 0..Len(input) /\ Consumed \in Nat
      /\ Len(buf) = pos - Consumed /\ buf = SubSeq(input, Consumed + 1, pos)
  BY Places
<1>3. PICK c, h : c = Consumed /\ h = collector.headers
  OBVIOUS
<1>4. NoTerm(input, c) /\ LineBegins(input, c + 1)
  <2>1. body_follows = TRUE /\ ~Ended
    BY <1>1, StopsDrop
  <2>2. QED
    BY <1>1, <1>3, <2>1 DEF Stops
<1>5. NoBlank(input, c) /\ h = unstuff(SubSeq(input, 1, c))
  BY <1>1, <1>3 DEF Heads
<1>6. NoTerm(input, pos) /\ NoBlank(input, pos)
  BY <1>1, <1>3, <1>4, <1>5, DroppedStep
<1>7. pos >= c + 1 /\ Quiet(input, c + 1, pos - 1)
  <2>1. pos >= c + 3 /\ \A j \in c + 1..pos : input[j] # LF
    BY <1>1, <1>3, TooLongStep
  <2>2. \A j \in c + 1..pos - 1 : j \in c + 1..pos
    BY <1>2, <1>3
  <2>3. QED
    BY <1>2, <1>3, <2>1, <2>2 DEF Quiet
<1>8. /\ unstuff(SubSeq(input, 1, pos)) = h \o Unstuffed(buf)
      /\ h \in Seq(Bytes) /\ Unstuffed(buf) \in Seq(Bytes)
      /\ Len(Unstuffed(buf)) >= (pos - c) - 1
  BY <1>2, <1>3, <1>4, <1>5, <1>7, HeadGrows, ZenonT(30)
<1>9. /\ max_header_size \in Nat /\ Len(h) <= max_header_size
      /\ Len(buf) > (max_header_size - Len(h)) + 2
  <2>1. Collecting(collector) /\ max_header_size \in Nat
    BY <1>1, FramingAssumption DEF Typed
  <2>2. collector.size = Len(h) /\ collector.size <= max_header_size /\ collector.size \in Nat
    BY <1>3, <1>8, <2>1 DEF Collecting
  <2>3. ~(collector.size > max_header_size)
    BY <2>1, <2>2
  <2>4. remaining_capacity(collector) = max_header_size - Len(h)
    BY <2>2, <2>3, Zenon DEF remaining_capacity
  <2>5. max_incomplete = remaining_capacity(collector) + 2
    BY <1>1 DEF max_incomplete, TERMINATOR_SLACK
  <2>6. Len(buf) > max_incomplete
    BY <1>1 DEF TooLong
  <2>7. QED
    BY <2>1, <2>2, <2>4, <2>5, <2>6
<1>10. Len(HeaderSent) > max_header_size
  <2>1. Len(HeaderSent) >= Len(h \o Unstuffed(buf))
    BY <1>2, <1>6, <1>8, HeadSize
  <2>2. PICK n : n = Len(HeaderSent)
    OBVIOUS
  <2>3. Len(h \o Unstuffed(buf)) = Len(h) + Len(Unstuffed(buf)) /\ Len(h) \in Nat
        /\ Len(Unstuffed(buf)) \in Nat
    BY <1>8, ConcatAt
  <2>4. n \in Nat
    BY <1>2, <2>2, SentType
  <2>5. Len(h) + Len(Unstuffed(buf)) > max_header_size
    <3>1. PICK x, u : x = Len(h) /\ u = Len(Unstuffed(buf))
      OBVIOUS
    <3>2. x \in Nat /\ u \in Nat /\ max_header_size \in Nat /\ pos \in Nat /\ c \in Nat
      BY <1>2, <1>3, <1>9, <2>3, <3>1
    <3>3. u >= (pos - c) - 1
      BY <1>8, <3>1
    <3>4. Len(buf) = pos - c
      BY <1>2, <1>3
    <3>5. Len(buf) > (max_header_size - x) + 2
      BY <1>9, <3>1
    <3>6. x + u > max_header_size
      BY <3>2, <3>3, <3>4, <3>5
    <3>7. QED
      BY <3>1, <3>6
  <2>6. QED
    BY <1>9, <2>1, <2>2, <2>3, <2>4, <2>5
<1>11. QED
  BY <1>1, <1>10, Sent DEF Heads

LEMMA HeadsNext == Typed /\ Stops /\ Heads /\ [Next]_vars => Heads'
<1> SUFFICES ASSUME Typed, Stops, Heads, [Next]_vars PROVE Heads'
  OBVIOUS
<1>1. CASE Read
  <2>1. Consumed' = Consumed /\ input' = input
        /\ UNCHANGED <<phase, collector, headers, why>>
    BY <1>1, ReadStep DEF Read
  <2>2. SameBlock
    BY <2>1 DEF SameBlock
  <2>3. QED
    BY <2>2, HeadsStay
<1>2. CASE Eof
  <2>1. phase' = "closed" /\ UNCHANGED readVars /\ UNCHANGED <<collector, headers, why>>
    BY <1>2 DEF Eof
  <2>2. Consumed' = Consumed /\ input' = input
    BY <2>1, ConsumedStays
  <2>3. SameBlock
    BY <2>1, <2>2 DEF SameBlock
  <2>4. QED
    BY <2>3, HeadsStay
<1>3. CASE HeaderLine
  BY <1>3, HeadsHeaderLine
<1>4. CASE HeaderTooLong
  BY <1>4, HeadsTooLong
<1>5. CASE OpenBody
  <2>1. OpenBodyCases
    BY <1>5, OpenBodyIs
  <2>2. phase = "open_body" /\ UNCHANGED readVars /\ UNCHANGED <<collector, headers>>
    BY <2>1, Zenon DEF OpenBodyCases
  <2>3. /\ phase' \in {"discard", "done", "body", "finish"}
        /\ why' = why \/ why' \in {"refused", "mirror"}
    <3>1. \/ phase' = "discard" /\ why' = "refused"
          \/ phase' = "done" /\ why' = why
          \/ (phase' = IF body_follows THEN "body" ELSE "finish") /\ why' = why
      BY <2>1, Zenon DEF OpenBodyCases
    <3>2. QED
      BY <3>1
  <2>4. Consumed' = Consumed /\ input' = input
    BY <2>2, ConsumedStays
  <2>5. SameBlock
    BY <2>2, <2>3, <2>4 DEF SameBlock
  <2>6. QED
    BY <2>5, HeadsStay
<1>6. CASE BodyLine
  <2>1. BodyLineCases(FirstLine(buf))
    BY <1>6, BodyLineIs
  <2>2. phase = "body" /\ input' = input /\ UNCHANGED <<headers>>
    BY <2>1, Zenon DEF BodyLineCases
  <2>3. /\ phase' \in {"body", "finish", "discard", "closed"}
        /\ why' = why \/ why' \in {"refused", "mirror"}
    <3>1. \/ phase' = "finish" /\ why' = why
          \/ \E r : PieceCases(r.bytes, TRUE)
      BY <2>1, Zenon DEF BodyLineCases
    <3>2. QED
      BY <2>2, <3>1 DEF PieceCases
  <2>4. QED
    BY <2>2, <2>3, HeadsPast
<1>7. CASE BodyTooLong
  <2>1. BodyTooLongCases
    BY <1>7, BodyTooLongIs
  <2>2. phase = "body" /\ input' = input /\ UNCHANGED <<headers>>
    BY <2>1, Zenon DEF BodyTooLongCases
  <2>3. /\ phase' \in {"body", "discard", "closed"}
        /\ why' = why \/ why' \in {"refused", "mirror"}
    <3>1. \E r : PieceCases(r.bytes, FALSE)
      BY <2>1, Zenon DEF BodyTooLongCases
    <3>2. QED
      BY <2>2, <3>1 DEF PieceCases
  <2>4. QED
    BY <2>2, <2>3, HeadsPast
<1>8. CASE Finish
  <2>1. phase = "finish" /\ UNCHANGED readVars /\ UNCHANGED <<collector, headers, why>>
        /\ phase' \in {"done", "closed"}
    BY <1>8, FinishIs DEF FinishCases
  <2>2. Consumed' = Consumed /\ input' = input
    BY <2>1, ConsumedStays
  <2>3. SameBlock
    BY <2>1, <2>2 DEF SameBlock
  <2>4. QED
    BY <2>3, HeadsStay
<1>9. CASE DiscardLine
  <2>1. DiscardLineCases(FirstLine(buf))
    BY <1>9, DiscardLineIs
  <2>2. phase = "discard" /\ input' = input /\ UNCHANGED <<headers>> /\ why' = why
    BY <2>1, Zenon DEF DiscardLineCases
  <2>3. phase' \in {"discard", "done"}
    <3>1. phase' = "done" \/ phase' = phase
      BY <2>1, Zenon DEF DiscardLineCases
    <3>2. QED
      BY <2>2, <3>1
  <2>4. QED
    BY <2>2, <2>3, HeadsPast
<1>10. CASE DiscardTooLong
  <2>1. phase = "discard" /\ phase' = phase /\ input' = input /\ UNCHANGED <<headers>> /\ why' = why
    BY <1>10 DEF DiscardTooLong
  <2>2. QED
    BY <2>1, HeadsPast
<1>11. CASE UNCHANGED vars
  <2>1. UNCHANGED readVars /\ UNCHANGED <<phase, collector, headers, why>>
    BY <1>11 DEF vars
  <2>2. Consumed' = Consumed /\ input' = input
    BY <2>1, ConsumedStays
  <2>3. SameBlock
    BY <2>1, <2>2 DEF SameBlock
  <2>4. QED
    BY <2>3, HeadsStay
<1>12. QED
  BY <1>1, <1>2, <1>3, <1>4, <1>5, <1>6, <1>7, <1>8, <1>9, <1>10, <1>11 DEF Next

LEMMA HeadsCap == Heads => CapByTheMessage
BY DEF Heads, CapByTheMessage

\* Whether a message is refused for its header block, and what the block is,
\* depend on the message alone and not on how its bytes arrive (push_line,
\* remaining_capacity, TERMINATOR_SLACK).
THEOREM CapOnTheMessage == Spec => []CapByTheMessage
<1>1. Init => Typed /\ Stops /\ Heads
  BY TypedInit, StopsInit, HeadsInit
<1>2. Typed /\ Stops /\ Heads /\ [Next]_vars => Typed' /\ Stops' /\ Heads'
  BY TypedNext, StopsNext, HeadsNext
<1>3. QED
  BY <1>1, <1>2, HeadsCap, PTL DEF Spec

-----------------------------------------------------------------------------
(* The body *)

\* u is the block hb and what has left the framer of the text s: normalised, all
\* of it that is neither staged nor held back.
Through(u, hb, f, s) ==
  \E w \in Seq(Bytes), y \in Seq(Bytes) :
    /\ u = hb \o w /\ w \o f.out = normalize_breaks(y) /\ y \o HeldByte(f) = s
    /\ ~f.held_cr => Len(y) = 0 \/ y[Len(y)] # CR

LEMMA HeldType ==
  ASSUME NEW f \in Framer
  PROVE  /\ HeldByte(f) \in Seq(Bytes) /\ f.out \in Seq(Bytes) /\ f.held_cr \in BOOLEAN
         /\ f.held_cr => Len(HeldByte(f)) = 1 /\ HeldByte(f)[1] = CR
         /\ ~f.held_cr => HeldByte(f) = <<>>
<1>1. f.out \in Seq(Bytes) /\ f.held_cr \in BOOLEAN
  BY DEF Framer
<1>2. <<CR>> \in Seq(Bytes) /\ Len(<<CR>>) = 1 /\ <<CR>>[1] = CR
  BY ByteSeqs, Kinds
<1>3. f.held_cr => HeldByte(f) = <<CR>>
  BY DEF HeldByte
<1>4. ~f.held_cr => HeldByte(f) = <<>>
  BY DEF HeldByte
<1>5. CASE f.held_cr
  BY <1>1, <1>2, <1>3, <1>5
<1>6. CASE ~f.held_cr
  BY <1>1, <1>4, <1>6, ByteSeqs
<1>7. QED
  BY <1>1, <1>5, <1>6

LEMMA ThroughStart ==
  ASSUME NEW hb \in Seq(Bytes), NEW f, f = NewFramer
  PROVE  Through(hb, hb, f, <<>>)
<1>1. f.out = <<>> /\ f.held_cr = FALSE
  BY DEF NewFramer
<1>2. HeldByte(f) = <<>>
  BY <1>1, Zenon DEF HeldByte
<1>3. PICK e \in Seq(Bytes) : e = <<>> /\ Len(e) = 0
  BY ByteSeqs, EmptySeq
<1>4. hb \o e = hb /\ e \o e = e
  BY <1>3, ConcatEmptySeq
<1>5. normalize_breaks(e) = e
  BY <1>3, NormEmpty
<1>6. hb = hb \o e /\ e \o f.out = normalize_breaks(e) /\ e \o HeldByte(f) = <<>>
  BY <1>1, <1>2, <1>3, <1>4, <1>5
<1>7. QED
  BY <1>3, <1>6, Zenon DEF Through

LEMMA ThroughBegins ==
  ASSUME NEW u \in Seq(Bytes), NEW hb \in Seq(Bytes), NEW f \in Framer, NEW s, Through(u, hb, f, s)
  PROVE  \E w \in Seq(Bytes) : u = hb \o w
<1>1. PICK w \in Seq(Bytes), y \in Seq(Bytes) :
        /\ u = hb \o w /\ w \o f.out = normalize_breaks(y) /\ y \o HeldByte(f) = s
        /\ ~f.held_cr => Len(y) = 0 \/ y[Len(y)] # CR
  BY DEF Through
<1>2. QED
  BY <1>1

\* A piece that is written takes the text further.
LEMMA ThroughStep ==
  ASSUME NEW u \in Seq(Bytes), NEW hb \in Seq(Bytes), NEW f \in Framer, NEW s \in Seq(Bytes),
         Through(u, hb, f, s),
         NEW bytes \in Seq(Bytes), NEW r, NEW z, Staging(f, bytes, r, z)
  PROVE  Through(u \o r.bytes, hb, r.to, s \o bytes)
<1>1. PICK w \in Seq(Bytes), y \in Seq(Bytes) :
        /\ u = hb \o w /\ w \o f.out = normalize_breaks(y) /\ y \o HeldByte(f) = s
        /\ ~f.held_cr => Len(y) = 0 \/ y[Len(y)] # CR
  BY DEF Through
<1>2. PICK v \in Seq(Bytes) : v = z
  BY DEF Staging
<1>3. /\ r.bytes \in Seq(Bytes) /\ r.to \in Framer
      /\ r.bytes \o r.to.out = f.out \o normalize_breaks(v)
      /\ v \o HeldByte(r.to) = HeldByte(f) \o bytes
  BY <1>2 DEF Staging
<1>4. /\ ~r.to.held_cr => Len(v) > 0 /\ v[Len(v)] # CR
      /\ f.held_cr => Len(v) = 0 \/ v[1] = CR
  BY <1>2 DEF Staging
<1>5. PICK b \in Seq(Bytes), o \in Seq(Bytes), k \in Seq(Bytes) :
        b = r.bytes /\ o = r.to.out /\ k = HeldByte(r.to)
  BY <1>3, HeldType
<1>6. PICK h \in Seq(Bytes), q \in Seq(Bytes), n \in Seq(Bytes) :
        h = HeldByte(f) /\ q = f.out /\ n = normalize_breaks(v)
  BY HeldType, NormType
<1>7. ~Splits(y, v)
  <2>1. CASE f.held_cr
    <3>1. Len(v) = 0 \/ v[1] = CR
      BY <1>4, <2>1
    <3>2. CASE Len(v) = 0
      BY <3>2 DEF Splits
    <3>3. CASE v[1] = CR
      BY <3>3, Kinds DEF Splits
    <3>4. QED
      BY <3>1, <3>2, <3>3
  <2>2. CASE ~f.held_cr
    BY <1>1, <2>2, SMTT(30) DEF Splits
  <2>3. f.held_cr \in BOOLEAN
    BY HeldType
  <2>4. QED
    BY <2>1, <2>2, <2>3
<1>8. normalize_breaks(y \o v) = normalize_breaks(y) \o n
  BY <1>6, <1>7, NormConcat
<1>9. (w \o b) \o o = normalize_breaks(y \o v)
  <2>1. (w \o b) \o o = w \o (b \o o)
    <3>1. AssocAt(w, b, o)
      BY Assoc
    <3>2. QED
      BY <3>1 DEF AssocAt
  <2>2. (w \o q) \o n = w \o (q \o n)
    <3>1. AssocAt(w, q, n)
      BY Assoc
    <3>2. QED
      BY <3>1 DEF AssocAt
  <2>3. b \o o = q \o n /\ w \o q = normalize_breaks(y)
    BY <1>1, <1>3, <1>5, <1>6
  <2>4. QED
    BY <1>8, <2>1, <2>2, <2>3
<1>10. (y \o v) \o k = s \o bytes
  <2>1. (y \o v) \o k = y \o (v \o k)
    <3>1. AssocAt(y, v, k)
      BY Assoc
    <3>2. QED
      BY <3>1 DEF AssocAt
  <2>2. (y \o h) \o bytes = y \o (h \o bytes)
    <3>1. AssocAt(y, h, bytes)
      BY Assoc
    <3>2. QED
      BY <3>1 DEF AssocAt
  <2>3. v \o k = h \o bytes /\ y \o h = s
    BY <1>1, <1>3, <1>5, <1>6
  <2>4. QED
    BY <2>1, <2>2, <2>3
<1>11. u \o b = hb \o (w \o b)
  <2>1. (hb \o w) \o b = hb \o (w \o b)
    <3>1. AssocAt(hb, w, b)
      BY Assoc
    <3>2. QED
      BY <3>1 DEF AssocAt
  <2>2. QED
    BY <1>1, <2>1
<1>12. /\ y \o v \in Seq(Bytes) /\ w \o b \in Seq(Bytes) /\ Len(y \o v) = Len(y) + Len(v)
       /\ Len(y) \in Nat /\ Len(v) \in Nat /\ \A i \in 1..Len(v) : (y \o v)[Len(y) + i] = v[i]
  BY ConcatAt
<1>13. ~r.to.held_cr => (y \o v)[Len(y \o v)] # CR
  <2>1. SUFFICES ASSUME ~r.to.held_cr PROVE (y \o v)[Len(y \o v)] # CR
    OBVIOUS
  <2>2. Len(v) > 0 /\ v[Len(v)] # CR
    BY <1>4, <2>1
  <2>3. Len(v) \in 1..Len(v)
    BY <1>12, <2>2
  <2>4. QED
    BY <1>12, <2>2, <2>3
<1>14. /\ u \o r.bytes = hb \o (w \o b) /\ (w \o b) \o r.to.out = normalize_breaks(y \o v)
       /\ (y \o v) \o HeldByte(r.to) = s \o bytes
  BY <1>5, <1>9, <1>10, <1>11
<1>15. QED
  BY <1>12, <1>13, <1>14, Zenon DEF Through

\* All of the text s is written or staged.
AllBut(u, hb, f, s) == \E w \in Seq(Bytes) : u = hb \o w /\ w \o f.out = normalize_breaks(s)

\* At the end of a line nothing is held back.
LEMMA ThroughEnd ==
  ASSUME NEW u \in Seq(Bytes), NEW hb \in Seq(Bytes), NEW f \in Framer, NEW s \in Seq(Bytes),
         Through(u, hb, f, s), Whole(s)
  PROVE  AllBut(u, hb, f, s)
<1>1. PICK w \in Seq(Bytes), y \in Seq(Bytes) :
        /\ u = hb \o w /\ w \o f.out = normalize_breaks(y) /\ y \o HeldByte(f) = s
  BY DEF Through
<1>2. f.held_cr \in BOOLEAN /\ (~f.held_cr => HeldByte(f) = <<>>)
  BY HeldType
<1>3. ~f.held_cr
  <2>1. SUFFICES ASSUME f.held_cr PROVE FALSE
    OBVIOUS
  <2>2. PICK h \in Seq(Bytes) : h = HeldByte(f) /\ Len(h) = 1 /\ h[1] = CR
    BY <2>1, HeldType
  <2>3. /\ Len(s) = Len(y) + 1 /\ Len(y) \in Nat
        /\ \A i \in 1..Len(h) : s[Len(y) + i] = h[i]
    <3>1. s = y \o h
      BY <1>1, <2>2
    <3>2. /\ Len(y \o h) = Len(y) + Len(h) /\ Len(y) \in Nat
          /\ \A i \in 1..Len(h) : (y \o h)[Len(y) + i] = h[i]
      BY ConcatAt
    <3>3. QED
      BY <2>2, <3>1, <3>2
  <2>4. s[Len(s)] = CR /\ Len(s) # 0
    BY <2>2, <2>3
  <2>5. QED
    BY <2>4, Kinds DEF Whole
<1>4. y = s
  <2>1. y \o <<>> = y
    BY ConcatEmptySeq
  <2>2. QED
    BY <1>1, <1>2, <1>3, <2>1
<1>5. u = hb \o w /\ w \o f.out = normalize_breaks(s)
  BY <1>1, <1>4
<1>6. QED
  BY <1>5, Zenon DEF AllBut

\* What has been written, and the rest of it, begins with the block.
LEMMA AddsLF ==
  ASSUME NEW a \in Seq(Bytes), NEW b \in Seq(Bytes), Whole(a), Len(a) > 0, Whole(b)
  PROVE  a \o b # <<>> /\ Last(a \o b) = LF
<1>1. PICK s \in Seq(Bytes) : s = a \o b
  BY ConcatAt
<1>2. Len(s) = Len(a) + Len(b) /\ Len(a) \in Nat /\ Len(b) \in Nat
  BY <1>1, ConcatAt
<1>3. Whole(s)
  <2>1. CASE Len(b) = 0
    <3>1. b = <<>>
      BY <2>1, EmptySeq
    <3>2. QED
      BY <1>1, <3>1, ConcatEmptySeq
  <2>2. CASE Len(b) > 0
    BY <1>1, <2>2, WholeConcat
  <2>3. QED
    BY <1>2, <2>1, <2>2
<1>4. Len(s) > 0
  BY <1>2
<1>5. s # <<>> /\ s[Len(s)] = LF
  BY <1>3, <1>4 DEF Whole
<1>6. QED
  BY <1>1, <1>5 DEF Last

\* The headers were judged, and may be relayed.
Judged == asked = parse_headers(HeaderSent) /\ api \in Answers /\ assert_header_relayable(Merged)

BodySoFar == SubSeq(input, BodyStart + 1, Consumed)
Whole_(hb, s) == hb \o (normalize_breaks(s) \o (<<DOT>> \o CRLF))

\* What the upstream has been written is the block and the body, as far as it
\* was read.
Bodies ==
  /\ phase = "open_body" => IF body_follows THEN Consumed = BodyStart ELSE BodySent = <<>>
  /\ phase \in {"body", "finish"} \/ reply = 250 => Judged
  /\ phase = "body" =>
       BodyStart <= Consumed /\ Through(up, header_block(Merged), framer, BodySoFar)
  /\ phase = "finish" => AllBut(up, header_block(Merged), framer, BodySent)
  /\ reply = 250 => phase = "done" /\ up = Whole_(header_block(Merged), BodySent)

LEMMA RelayableAll ==
  ASSUME NEW hs \in Seq(Header), assert_header_relayable(hs)
  PROVE  hs \in Seq(RelayableHeaders)
<1>1. Len(hs) \in Nat /\ DOMAIN hs = 1..Len(hs) /\ \A k \in 1..Len(hs) : hs[k] \in Header
  OBVIOUS
<1>2. ASSUME NEW k \in 1..Len(hs) PROVE hs[k] \in RelayableHeaders
  <2>1. k \in DOMAIN hs /\ hs[k] \in Header
    BY <1>1
  <2>2. /\ relayable_name(hs[k].name)
        /\ \A i \in DOMAIN hs[k].value :
             hs[k].value[i] \in {CR, LF} => folds_at(hs[k].value, i)
    BY <2>1 DEF assert_header_relayable
  <2>3. QED
    BY <2>1, <2>2 DEF RelayableHeaders, Relayable
<1>3. PICK n \in Nat : n = Len(hs)
  BY <1>1
<1>4. hs \in [1..n -> RelayableHeaders]
  <2>1. hs = [k \in 1..n |-> hs[k]]
    BY <1>3
  <2>2. \A k \in 1..n : hs[k] \in RelayableHeaders
    BY <1>2, <1>3
  <2>3. QED
    BY <2>1, <2>2
<1>5. QED
  BY <1>4, SeqOfFunction

LEMMA JudgedIs ==
  ASSUME Typed, Judged
  PROVE  /\ Merged \in Seq(RelayableHeaders) /\ header_block(Merged) \in Seq(Bytes)
         /\ Whole(header_block(Merged)) /\ Len(header_block(Merged)) > 0
<1>1. Merged \in Seq(Header)
  <2>1. asked \in Seq(Header) /\ api \in Seq(ApiHeader)
    BY DEF Typed
  <2>2. QED
    BY <2>1, MergeType DEF Merged
<1>2. Merged \in Seq(RelayableHeaders)
  BY <1>1, RelayableAll DEF Judged
<1>3. PICK hs \in Seq(RelayableHeaders) : hs = Merged
  BY <1>2
<1>4. PICK g \in Seq(Bytes) : header_block(hs) = g \o CRLF
  BY BlockIs
<1>5. PICK s \in Seq(Bytes) : s = g \o CRLF
  BY AddCRLF
<1>6. Len(s) = Len(g) + 2 /\ Len(g) \in Nat /\ s[Len(g) + 2] = LF
  BY <1>5, AddCRLF
<1>7. Whole(s) /\ Len(s) > 0
  BY <1>6 DEF Whole
<1>8. QED
  BY <1>2, <1>3, <1>4, <1>5, <1>7

LEMMA BodiesInit == Init => Bodies
BY DEF Init, Bodies

\* A step to where nothing is said any more.
LEMMA BodiesGone ==
  ASSUME phase' \notin {"open_body", "body", "finish"}, reply' # 250
  PROVE  Bodies'
BY DEF Bodies

LEMMA BodiesStay ==
  ASSUME Bodies, input' = input, Consumed' = Consumed,
         UNCHANGED <<phase, asked, api, up, framer, body_follows, reply>>
  PROVE  Bodies'
<1>1. /\ HeaderSent' = HeaderSent /\ BodySent' = BodySent /\ BodyStart' = BodyStart
      /\ BodySoFar' = BodySoFar /\ Merged' = Merged
  BY Sent DEF BodySoFar, Merged
<1>2. Judged' = Judged
  BY <1>1 DEF Judged
<1>3. /\ Through(up, header_block(Merged), framer, BodySoFar)'
           = Through(up, header_block(Merged), framer, BodySoFar)
      /\ AllBut(up, header_block(Merged), framer, BodySent)'
           = AllBut(up, header_block(Merged), framer, BodySent)
      /\ Whole_(header_block(Merged), BodySent)' = Whole_(header_block(Merged), BodySent)
  BY <1>1
<1>4. QED
  BY <1>1, <1>2, <1>3 DEF Bodies

\* The message ends: the body is what lies between.
LEMMA BodyWhole ==
  ASSUME input \in Seq(Bytes), Terminated
  PROVE  Whole(BodySent)
<1>1. Text \in Seq(Bytes) /\ Whole(Text) /\ Len(Text) \in Nat
  BY TextIs
<1>2. PICK t \in Seq(Bytes), b \in 0..Len(Text) : t = Text /\ b = BodyStart
  BY <1>1, SentType
<1>3. Len(t) \in 0..Len(t) /\ b \in 0..Len(t)
  BY <1>1, <1>2
<1>4. PICK s : s = SubSeq(t, b + 1, Len(t))
  OBVIOUS
<1>5. s \in Seq(Bytes) /\ Len(s) = Len(t) - b /\ \A k \in 1..Len(t) - b : s[k] = t[b + k]
  BY <1>3, <1>4, Stretch
<1>6. CASE Len(s) = 0
  BY <1>2, <1>4, <1>6 DEF Whole, BodySent, BodyStart
<1>7. CASE Len(s) > 0
  <2>1. Len(s) \in 1..Len(t) - b /\ b + Len(s) = Len(t) /\ Len(t) # 0
    BY <1>3, <1>5, <1>7
  <2>2. s[Len(s)] = t[Len(t)]
    BY <1>5, <2>1
  <2>3. t[Len(t)] = LF
    BY <1>1, <1>2, <2>1 DEF Whole
  <2>4. Whole(s)
    BY <2>2, <2>3 DEF Whole
  <2>5. QED
    BY <1>2, <1>4, <2>4 DEF BodySent, BodyStart
<1>8. QED
  BY <1>5, <1>6, <1>7

LEMMA BodyComplete ==
  ASSUME input \in Seq(Bytes), NEW c \in Nat, c + 1 \in 1..Len(input),
         TermAt(input, c + 1), NoTerm(input, c), BodyStart <= c
  PROVE  SubSeq(input, BodyStart + 1, c) = BodySent /\ Whole(BodySent)
<1>1. FirstTerminator(input) = c + 1
  <2>1. FirstAt(input, c + 1)
    <3>1. c + 1 \in 1..Len(input) + 1 /\ (c + 1) - 1 = c
      OBVIOUS
    <3>2. QED
      BY <3>1 DEF FirstAt, NoTerm
  <2>2. QED
    BY <2>1, FirstTerminatorUnique
<1>2. Terminated
  BY <1>1 DEF Terminated
<1>3. Text = SubSeq(input, 1, c) /\ Len(Text) = c
  <2>1. (c + 1) - 1 = c
    OBVIOUS
  <2>2. Text = SubSeq(input, 1, c)
    BY <1>1, <2>1 DEF Text
  <2>3. c \in 0..Len(input)
    OBVIOUS
  <2>4. QED
    BY <2>2, <2>3, PrefixAt
<1>4. PICK b \in 0..c : b = BodyStart
  BY <1>3, SentType
<1>5. SubSeq(SubSeq(input, 0 + 1, c), b + 1, c) = SubSeq(input, 0 + (b + 1), 0 + c)
  <2>1. c \in 0..Len(input) /\ 0 \in 0..c /\ b + 1 \in 1..(c - 0) + 1 /\ c \in (b + 1) - 1..c - 0
    BY <1>4
  <2>2. PICK i \in 1..(c - 0) + 1 : i = b + 1
    BY <2>1
  <2>3. c \in i - 1..c - 0
    BY <2>1, <2>2
  <2>4. SubSeq(SubSeq(input, 0 + 1, c), i, c) = SubSeq(input, 0 + i, 0 + c)
    BY <2>1, <2>3, SubOfSub
  <2>5. QED
    BY <2>2, <2>4
<1>6. 0 + 1 = 1 /\ 0 + (b + 1) = b + 1 /\ 0 + c = c
  BY <1>4
<1>7. BodySent = SubSeq(input, b + 1, c)
  BY <1>3, <1>4, <1>5, <1>6 DEF BodySent, BodyStart
<1>8. QED
  BY <1>2, <1>4, <1>7, BodyWhole

LEMMA SoFarGrows ==
  ASSUME input \in Seq(Bytes), input' = input, BodyStart <= Consumed, Consumed \in Nat,
         Consumed' \in Consumed..Len(input)
  PROVE  /\ BodySoFar \in Seq(Bytes) /\ BodyStart' <= Consumed'
         /\ BodySoFar' = BodySoFar \o SubSeq(input, Consumed + 1, Consumed')
<1>1. PICK b, c, e : b = BodyStart /\ c = Consumed /\ e = Consumed'
  OBVIOUS
<1>2. b \in Nat /\ c \in Nat /\ b <= c /\ e \in c..Len(input) /\ Len(input) \in Nat
  <2>1. BodyStart \in 0..Len(Text)
    BY SentType
  <2>2. QED
    BY <1>1, <2>1
<1>3. b \in 0..c /\ c \in 0..Len(input) /\ b + 1 \in 1..Len(input) + 1 /\ c \in (b + 1) - 1..Len(input)
  BY <1>2
<1>4. SubSeq(input, b + 1, c) \in Seq(Bytes)
  BY <1>3, Stretch
<1>5. SubSeq(input, b + 1, c) \o SubSeq(input, c + 1, e) = SubSeq(input, b + 1, e)
  <2>1. PICK m \in 1..Len(input) + 1 : m = b + 1
    BY <1>3
  <2>2. c \in m - 1..Len(input) /\ e \in c..Len(input)
    BY <1>2, <1>3, <2>1
  <2>3. SubSeq(input, m, c) \o SubSeq(input, c + 1, e) = SubSeq(input, m, e)
    BY <2>2, ConcatAdjacentSubSeq
  <2>4. QED
    BY <2>1, <2>3
<1>6. BodyStart' = b
  BY <1>1, Sent
<1>7. BodySoFar' = SubSeq(input, b + 1, e)
  BY <1>1, <1>6 DEF BodySoFar
<1>8. BodySoFar = SubSeq(input, b + 1, c)
  BY <1>1 DEF BodySoFar
<1>9. b <= e
  BY <1>2
<1>10. QED
  BY <1>1, <1>4, <1>5, <1>6, <1>7, <1>8, <1>9

LEMMA BodiesHeaderLine ==
  ASSUME Typed, Stops, Heads, Bodies, HeaderLine
  PROVE  Bodies'
<1>1. HeaderLineCases(FirstLine(buf), Unstuffed(FirstLine(buf)))
  BY HeaderLineIs
<1>2. /\ phase = "header" /\ Got /\ UNCHANGED <<input, pos>> /\ reply' = reply
  BY <1>1, Zenon DEF HeaderLineCases
<1>3. input' = input /\ pos' = pos /\ reply # 250
  BY <1>2 DEF Bodies
<1>4. PICK c, l : c = Consumed /\ l = FirstLine(buf)
  OBVIOUS
<1>5. Line(input, c, Consumed') /\ l = LineAt(input, c + 1)
  BY <1>2, <1>3, <1>4, GotLine
<1>6. Consumed' = LineEnd(input, c + 1)
  BY <1>5 DEF Line
<1>7. TermAt(input, c + 1) <=> is_terminator(l)
  <2>1. body_follows = TRUE
    BY <1>2, StopsLine
  <2>2. LineBegins(input, c + 1)
    BY <1>2, <1>4, <2>1 DEF Stops
  <2>3. QED
    BY <1>5, <2>2, Zenon DEF TermAt
<1>8. CASE phase' = "open_body"
  <2>1. HeadEnds(c)
    BY <1>4, <1>8, HeadsHeaderLine
  <2>2. \/ is_terminator(l) /\ body_follows' = FALSE
        \/ ~is_terminator(l) /\ body_follows' = TRUE
    <3>1. phase' # "discard" /\ phase' # phase
      BY <1>2, <1>8
    <3>2. QED
      BY <1>1, <1>4, <3>1, Zenon DEF HeaderLineCases
  <2>3. CASE is_terminator(l) /\ body_follows' = FALSE
    <3>1. BodySent' = <<>>
      BY <1>3, <1>7, <2>1, <2>3, Sent DEF HeadEnds
    <3>2. QED
      BY <1>2, <1>3, <1>8, <2>3, <3>1 DEF Bodies
  <2>4. CASE ~is_terminator(l) /\ body_follows' = TRUE
    <3>1. Consumed' = BodyStart'
      BY <1>3, <1>6, <1>7, <2>1, <2>4, Sent DEF HeadEnds
    <3>2. QED
      BY <1>2, <1>3, <1>8, <2>4, <3>1 DEF Bodies
  <2>5. QED
    BY <2>2, <2>3, <2>4
<1>9. CASE phase' # "open_body"
  <2>1. phase' \in {"discard", "header"}
    <3>1. phase' = "open_body" \/ phase' = "discard" \/ phase' = phase
      BY <1>1, Zenon DEF HeaderLineCases
    <3>2. QED
      BY <1>2, <1>9, <3>1
  <2>2. QED
    BY <1>2, <1>3, <2>1, BodiesGone
<1>10. QED
  BY <1>8, <1>9

LEMMA BodiesOpenBody ==
  ASSUME Typed, Typed', Stops, Heads, Bodies, OpenBody
  PROVE  Bodies'
<1>1. OpenBodyCases
  BY OpenBodyIs
<1>2. /\ phase = "open_body" /\ asked' = parse_headers(headers) /\ UNCHANGED readVars
      /\ framer' = framer /\ body_follows' = body_follows
  BY <1>1, Zenon DEF OpenBodyCases
<1>3. Consumed' = Consumed /\ input' = input /\ framer = NewFramer /\ reply # 250
  <2>1. framer = NewFramer /\ reply # 250
    BY <1>2 DEF Stops, Bodies
  <2>2. QED
    BY <1>2, <2>1, ConsumedStays
<1>4. CASE \/ phase' = "discard" /\ reply' = reply
           \/ phase' = "done" /\ reply' = 550
  BY <1>3, <1>4, BodiesGone
<1>5. CASE /\ api' \in Answers /\ assert_header_relayable(Merged') /\ up' = header_block(Merged')
           /\ phase' = IF body_follows THEN "body" ELSE "finish"
           /\ reply' = reply
  <2>1. Judged'
    <3>1. headers = HeaderSent
      BY <1>2 DEF Heads
    <3>2. HeaderSent' = HeaderSent
      BY <1>3, Sent
    <3>3. QED
      BY <1>2, <1>5, <3>1, <3>2 DEF Judged
  <2>2. PICK hb \in Seq(Bytes) : hb = header_block(Merged')
    <3>1. PICK old \in Seq(Header), new \in Answers : old = asked' /\ new = api'
      BY <1>5 DEF Typed
    <3>2. header_block(merge_headers(old, new)) \in Seq(Bytes)
      BY BlockTyped
    <3>3. QED
      BY <3>1, <3>2 DEF Merged
  <2>3. Through(up', hb, framer', <<>>)
    BY <1>2, <1>3, <1>5, <2>2, ThroughStart
  <2>4. CASE body_follows
    <3>1. phase' = "body" /\ Consumed' = BodyStart'
      BY <1>2, <1>3, <1>5, <2>4, Sent DEF Bodies
    <3>2. input \in Seq(Bytes) /\ Consumed \in 0..Len(input)
      BY Places
    <3>3. BodySoFar' = <<>>
      <4>1. PICK c \in 0..Len(input) : c = Consumed
        BY <3>2
      <4>2. SubSeq(input, c + 1, c) = <<>>
        BY <3>2, SubSeqEmpty
      <4>3. QED
        BY <1>3, <3>1, <4>1, <4>2 DEF BodySoFar
    <3>4. BodyStart' <= Consumed'
      BY <1>3, <3>1, <3>2
    <3>5. QED
      BY <1>3, <1>5, <2>1, <2>2, <2>3, <3>1, <3>3, <3>4 DEF Bodies
  <2>5. CASE ~body_follows
    <3>1. phase' = "finish" /\ BodySent' = <<>>
      BY <1>2, <1>3, <1>5, <2>5, Sent DEF Bodies
    <3>2. AllBut(up', hb, framer', <<>>)
      <4>1. PICK e \in Seq(Bytes) : e = <<>> /\ Whole(e)
        BY ByteSeqs DEF Whole
      <4>2. PICK f \in Framer, u \in Seq(Bytes) : f = framer' /\ u = up'
        BY DEF Typed, TypeOK
      <4>3. Through(u, hb, f, e)
        BY <2>3, <4>1, <4>2
      <4>4. AllBut(u, hb, f, e)
        BY <4>1, <4>3, ThroughEnd
      <4>5. QED
        BY <4>1, <4>2, <4>4
    <3>3. QED
      BY <1>3, <1>5, <2>1, <2>2, <3>1, <3>2 DEF Bodies
  <2>6. QED
    BY <2>4, <2>5
<1>6. \/ \/ phase' = "discard" /\ reply' = reply
         \/ phase' = "done" /\ reply' = 550
      \/ /\ api' \in Answers /\ assert_header_relayable(Merged') /\ up' = header_block(Merged')
         /\ phase' = IF body_follows THEN "body" ELSE "finish"
         /\ reply' = reply
  BY <1>1, Zenon DEF OpenBodyCases
<1>7. QED
  BY <1>4, <1>5, <1>6

\* A piece of the body is staged, or the message is over.
LEMMA BodiesPiece ==
  ASSUME Typed, Bodies, phase = "body", input' = input, asked' = asked, api' = api,
         NEW bytes \in Seq(Bytes), bytes = SubSeq(input, Consumed + 1, Consumed'),
         Consumed' \in Consumed..Len(input),
         NEW r, NEW z, Staging(framer, bytes, r, z), framer' = r.to,
         NEW begins, PieceCases(r.bytes, begins)
  PROVE  Bodies'
<1>1. reply # 250
  BY DEF Bodies
<1>2. CASE phase' = "discard" /\ reply' = 550
  BY <1>2, BodiesGone
<1>3. CASE phase' = "closed" /\ reply' = reply
  BY <1>1, <1>3, BodiesGone
<1>4. CASE up' = up \o r.bytes /\ phase' = phase /\ reply' = reply
  <2>1. /\ input \in Seq(Bytes) /\ Consumed \in Nat /\ BodyStart <= Consumed /\ Judged
        /\ framer \in Framer /\ up \in Seq(Bytes)
        /\ Through(up, header_block(Merged), framer, BodySoFar)
    BY Places DEF Bodies, Typed, TypeOK
  <2>2. /\ BodySoFar \in Seq(Bytes) /\ BodyStart' <= Consumed'
        /\ BodySoFar' = BodySoFar \o bytes
    BY <2>1, SoFarGrows
  <2>3. PICK hb \in Seq(Bytes) : hb = header_block(Merged)
    BY <2>1, JudgedIs
  <2>4. Through(up \o r.bytes, hb, r.to, BodySoFar \o bytes)
    BY <2>1, <2>2, <2>3, ThroughStep
  <2>5. Merged' = Merged /\ Judged'
    BY <2>1, Sent DEF Merged, Judged
  <2>6. Through(up', header_block(Merged'), framer', BodySoFar')
    BY <1>4, <2>2, <2>3, <2>4, <2>5
  <2>7. QED
    BY <1>1, <1>4, <2>2, <2>5, <2>6 DEF Bodies
<1>5. QED
  BY <1>2, <1>3, <1>4, Zenon DEF PieceCases

LEMMA BodiesBodyLine ==
  ASSUME Typed, Stops, Bodies, BodyLine
  PROVE  Bodies'
<1>1. BodyLineCases(FirstLine(buf))
  BY BodyLineIs
<1>2. phase = "body" /\ Got /\ UNCHANGED <<input, pos>> /\ asked' = asked /\ api' = api
  BY <1>1, Zenon DEF BodyLineCases, apiVars
<1>3. input' = input /\ pos' = pos
  BY <1>2
<1>4. PICK c, l : c = Consumed /\ l = FirstLine(buf)
  OBVIOUS
<1>5. /\ Line(input, c, Consumed') /\ l = LineAt(input, c + 1)
      /\ l = SubSeq(input, c + 1, Consumed') /\ l \in Seq(Bytes)
  BY <1>2, <1>3, <1>4, GotLine
<1>6. input \in Seq(Bytes) /\ c \in Nat /\ c + 1 \in 1..Len(input) /\ Consumed' \in c..Len(input)
  <2>1. Consumed' \in c + 1..Len(input) /\ c \in Nat /\ c + 1 \in 1..Len(input) /\ Len(input) \in Nat
    BY <1>5, Places DEF Line
  <2>2. QED
    BY <2>1, Places
<1>7. CASE /\ framer.at_line_start /\ is_terminator(l) /\ framer' = framer
           /\ phase' = "finish" /\ up' = up /\ reply' = reply
  <2>1. LineBegins(input, c + 1) /\ ~Ended /\ NoTerm(input, c)
    <3>1. LineBegins(input, c + 1)
      BY <1>2, <1>4, <1>7 DEF Stops
    <3>2. ~Ended
      BY <1>2, StopsLine
    <3>3. QED
      BY <1>4, <3>1, <3>2 DEF Stops
  <2>2. TermAt(input, c + 1)
    BY <1>5, <1>7, <2>1, Zenon DEF TermAt
  <2>3. /\ BodyStart <= c /\ Judged /\ Through(up, header_block(Merged), framer, BodySoFar)
        /\ reply # 250
    BY <1>2, <1>4 DEF Bodies
  <2>4. BodySoFar = BodySent /\ Whole(BodySent)
    BY <1>4, <1>6, <2>1, <2>2, <2>3, BodyComplete DEF BodySoFar
  <2>5. PICK u \in Seq(Bytes), hb \in Seq(Bytes), f \in Framer, s \in Seq(Bytes) :
          u = up /\ hb = header_block(Merged) /\ f = framer /\ s = BodySent
    <3>1. up \in Seq(Bytes) /\ framer \in Framer
      BY DEF Typed, TypeOK
    <3>2. header_block(Merged) \in Seq(Bytes)
      BY <2>3, JudgedIs
    <3>3. BodySent \in Seq(Bytes)
      BY <1>6, SentType
    <3>4. QED
      BY <3>1, <3>2, <3>3
  <2>6. Through(u, hb, f, s) /\ Whole(s)
    BY <2>3, <2>4, <2>5
  <2>7. AllBut(u, hb, f, s)
    BY <2>6, ThroughEnd
  <2>8. Merged' = Merged /\ BodySent' = BodySent /\ Judged'
    BY <1>2, <1>3, <2>3, Sent DEF Merged, Judged
  <2>9. AllBut(up', header_block(Merged'), framer', BodySent')
    BY <1>7, <2>5, <2>7, <2>8
  <2>10. QED
    BY <1>7, <2>3, <2>8, <2>9 DEF Bodies
<1>8. ASSUME NEW r, NEW z, Staging(framer, l, r, z), framer' = r.to, PieceCases(r.bytes, TRUE)
      PROVE  Bodies'
  BY <1>2, <1>3, <1>4, <1>5, <1>6, <1>8, BodiesPiece
<1>9. \/ /\ framer.at_line_start /\ is_terminator(l) /\ framer' = framer
         /\ phase' = "finish" /\ up' = up /\ reply' = reply
      \/ \E r, z : Staging(framer, l, r, z) /\ framer' = r.to /\ PieceCases(r.bytes, TRUE)
  BY <1>1, <1>4, Zenon DEF BodyLineCases
<1>10. QED
  BY <1>7, <1>8, <1>9, Zenon

LEMMA BodiesTooLong ==
  ASSUME Typed, Stops, Bodies, BodyTooLong
  PROVE  Bodies'
<1>1. BodyTooLongCases
  BY BodyTooLongIs
<1>2. phase = "body" /\ TooLong /\ UNCHANGED <<input, pos>> /\ asked' = asked /\ api' = api
  BY <1>1, Zenon DEF BodyTooLongCases, apiVars
<1>3. input' = input /\ pos' = pos
  BY <1>2
<1>4. Consumed' = pos
  BY <1>2, <1>3, TooLongStep
<1>5. /\ buf \in Seq(Bytes) /\ buf = SubSeq(input, Consumed + 1, Consumed')
      /\ Consumed' \in Consumed..Len(input)
  <2>1. /\ buf \in Seq(Bytes) /\ buf = SubSeq(input, Consumed + 1, pos) /\ Consumed \in 0..pos
        /\ pos \in 0..Len(input) /\ Len(input) \in Nat
    BY Places
  <2>2. QED
    BY <1>4, <2>1
<1>6. PICK r, z : Staging(framer, buf, r, z) /\ framer' = r.to /\ PieceCases(r.bytes, FALSE)
  BY <1>1, Zenon DEF BodyTooLongCases
<1>7. QED
  BY <1>2, <1>3, <1>5, <1>6, BodiesPiece

\* The terminator as it is written.
LEMMA DotCRLF == \E t \in Seq(Bytes) : t = <<DOT>> \o CRLF
<1>1. PICK d \in Seq(Bytes) : d = <<DOT>>
  BY ByteSeqs, Kinds
<1>2. d \o CRLF \in Seq(Bytes)
  BY AddCRLF
<1>3. PICK t \in Seq(Bytes) : t = d \o CRLF
  BY <1>2
<1>4. t = <<DOT>> \o CRLF
  BY <1>1, <1>3
<1>5. QED
  BY <1>4

LEMMA BodiesFinish ==
  ASSUME Typed, Stops, Bodies, Finish
  PROVE  Bodies'
<1>1. FinishCases
  BY FinishIs
<1>2. /\ phase = "finish" /\ UNCHANGED readVars /\ asked' = asked /\ api' = api
      /\ framer' = framer
  BY <1>1, Zenon DEF FinishCases, apiVars
<1>3. Consumed' = Consumed /\ input' = input /\ input \in Seq(Bytes)
  BY <1>2, ConsumedStays, Places
<1>4. reply # 250 /\ Judged /\ AllBut(up, header_block(Merged), framer, BodySent)
  BY <1>2 DEF Bodies
<1>5. CASE phase' = "done" /\ reply' = 550
  BY <1>5, BodiesGone
<1>6. CASE phase' = "closed" /\ reply' = reply
  BY <1>4, <1>6, BodiesGone
<1>7. CASE up' = up \o Rest \o Tail_ /\ phase' = "done" /\ reply' \in {250, 550}
  <2>1. PICK hb \in Seq(Bytes), s \in Seq(Bytes) : hb = header_block(Merged) /\ s = BodySent
    BY <1>3, <1>4, JudgedIs, SentType
  <2>2. Whole(hb) /\ Len(hb) > 0
    BY <1>4, <2>1, JudgedIs
  <2>3. Whole(s)
    <3>1. Terminated
      BY <1>2 DEF Stops, Ended
    <3>2. QED
      BY <1>3, <2>1, <3>1, BodyWhole
  <2>4. PICK n \in Seq(Bytes) : n = normalize_breaks(s) /\ Whole(n)
    BY <2>3, NormType, NormLines
  <2>5. up \o Rest = hb \o n
    <3>1. PICK w \in Seq(Bytes) : up = hb \o w /\ w \o framer.out = normalize_breaks(s)
      BY <1>4, <2>1 DEF AllBut
    <3>2. PICK o \in Seq(Bytes) : o = framer.out
      BY DEF Typed, TypeOK
    <3>3. AssocAt(hb, w, o)
      BY Assoc
    <3>4. QED
      BY <2>4, <3>1, <3>2, <3>3 DEF AssocAt, Rest
  <2>6. PICK t \in Seq(Bytes) : t = <<DOT>> \o CRLF
    BY DotCRLF
  <2>7. Tail_ = t
    <3>1. hb \o n # <<>> /\ Last(hb \o n) = LF
      BY <2>2, <2>4, AddsLF
    <3>2. QED
      BY <2>5, <2>6, <3>1, TailIs
  <2>8. up' = (hb \o n) \o t
    BY <1>7, <2>5, <2>7
  <2>9. AssocAt(hb, n, t)
    BY Assoc
  <2>10. up' = Whole_(hb, s)
    BY <2>4, <2>6, <2>8, <2>9 DEF AssocAt, Whole_
  <2>11. Merged' = Merged /\ BodySent' = BodySent /\ Judged'
    BY <1>2, <1>3, <1>4, Sent DEF Merged, Judged
  <2>12. up' = Whole_(header_block(Merged'), BodySent')
    BY <2>1, <2>10, <2>11
  <2>13. QED
    BY <1>7, <2>11, <2>12 DEF Bodies
<1>8. QED
  BY <1>1, <1>5, <1>6, <1>7, Zenon DEF FinishCases

LEMMA BodiesNext ==
  ASSUME Typed, Typed', Stops, Heads, Bodies, [Next]_vars
  PROVE  Bodies'
<1>1. CASE Read
  <2>1. Consumed' = Consumed /\ input' = input
        /\ UNCHANGED <<phase, asked, api, up, framer, body_follows, reply>>
    BY <1>1, ReadStep DEF Read, apiVars
  <2>2. QED
    BY <2>1, BodiesStay
<1>2. CASE Eof
  <2>1. phase \in Reading /\ phase' = "closed" /\ reply' = reply
    BY <1>2 DEF Eof, Waiting
  <2>2. reply # 250
    BY <2>1 DEF Bodies, Reading
  <2>3. QED
    BY <2>1, <2>2, BodiesGone
<1>3. CASE HeaderLine
  BY <1>3, BodiesHeaderLine
<1>4. CASE HeaderTooLong
  <2>1. phase = "header" /\ phase' = "discard" /\ reply' = reply
    BY <1>4 DEF HeaderTooLong, Drain
  <2>2. reply # 250
    BY <2>1 DEF Bodies
  <2>3. QED
    BY <2>1, <2>2, BodiesGone
<1>5. CASE OpenBody
  BY <1>5, BodiesOpenBody
<1>6. CASE BodyLine
  BY <1>6, BodiesBodyLine
<1>7. CASE BodyTooLong
  BY <1>7, BodiesTooLong
<1>8. CASE Finish
  BY <1>8, BodiesFinish
<1>9. CASE DiscardLine
  <2>1. DiscardLineCases(FirstLine(buf))
    BY <1>9, DiscardLineIs
  <2>2. phase = "discard" /\ (phase' = phase \/ phase' = "done") /\ reply' \in {552, 550, reply}
    BY <2>1 DEF DiscardLineCases
  <2>3. reply # 250
    BY <2>2 DEF Bodies
  <2>4. QED
    BY <2>2, <2>3, BodiesGone
<1>10. CASE DiscardTooLong
  <2>1. phase = "discard" /\ phase' = phase /\ reply' = reply
    BY <1>10 DEF DiscardTooLong
  <2>2. reply # 250
    BY <2>1 DEF Bodies
  <2>3. QED
    BY <2>1, <2>2, BodiesGone
<1>11. CASE UNCHANGED vars
  <2>1. UNCHANGED readVars /\ UNCHANGED <<phase, asked, api, up, framer, body_follows, reply>>
    BY <1>11 DEF vars, apiVars
  <2>2. Consumed' = Consumed /\ input' = input
    BY <2>1, ConsumedStays
  <2>3. QED
    BY <2>1, <2>2, BodiesStay
<1>12. QED
  BY <1>1, <1>2, <1>3, <1>4, <1>5, <1>6, <1>7, <1>8, <1>9, <1>10, <1>11 DEF Next
\* What is in the middle of three.
LEMMA MiddleOf ==
  ASSUME NEW a \in Seq(Bytes), NEW b \in Seq(Bytes), NEW c \in Seq(Bytes)
  PROVE  SubSeq(a \o (b \o c), Len(a) + 1, Len(a) + Len(b)) = b
<1>1. PICK d \in Seq(Bytes) : d = b \o c
  BY ConcatAt
<1>2. PICK s \in Seq(Bytes) : s = a \o d
  BY ConcatAt
<1>3. PICK m \in Nat, n \in Nat, k \in Nat : m = Len(a) /\ n = Len(b) /\ k = Len(c)
  BY ConcatAt
<1>4. Len(s) = m + (n + k)
  <2>1. Len(d) = n + k /\ Len(s) = m + Len(d)
    BY <1>1, <1>2, <1>3, ConcatAt
  <2>2. QED
    BY <2>1
<1>5. \A i \in 1..n : s[m + i] = b[i]
  <2>1. SUFFICES ASSUME NEW i \in 1..n PROVE s[m + i] = b[i]
    OBVIOUS
  <2>2. d[i] = b[i] /\ Len(d) = n + k
    BY <1>1, <1>3, ConcatAt
  <2>3. i \in 1..Len(d)
    BY <2>2
  <2>4. s[m + i] = d[i]
    BY <1>2, <1>3, <2>3, ConcatAt
  <2>5. QED
    BY <2>2, <2>4
<1>6. PICK p \in 0..Len(s) : p = m + n
  BY <1>4
<1>7. m \in 0..p /\ p - m = n
  BY <1>6
<1>8. PICK v \in Seq(Bytes) : v = SubSeq(s, m + 1, p)
  BY <1>7, Stretch
<1>9. Len(v) = n /\ \A i \in 1..n : v[i] = s[m + i]
  BY <1>7, <1>8, Stretch
<1>10. v = b
  <2>1. Len(v) = Len(b) /\ \A i \in 1..Len(b) : v[i] = b[i]
    BY <1>3, <1>5, <1>9
  <2>2. QED
    BY <2>1, SeqEqual
<1>11. QED
  BY <1>1, <1>2, <1>3, <1>6, <1>8, <1>10

\* No line of the text is a terminator, and so none of the body.
LEMMA TextQuiet ==
  ASSUME input \in Seq(Bytes), Terminated
  PROVE  NoLine(Text, Terminators)
<1>1. SUFFICES ASSUME NEW i \in 1..Len(Text), TermAt(Text, i) PROVE FALSE
  BY TermKind DEF NoLine, KindAt
<1>2. PICK k : k = FirstTerminator(input)
  OBVIOUS
<1>3. FirstAt(input, k) /\ Len(Text) = k - 1 /\ TermAt(input, i)
  BY <1>1, <1>2, TextIs
<1>4. QED
  BY <1>3 DEF FirstAt

LEMMA BodyQuiet ==
  ASSUME input \in Seq(Bytes), Terminated
  PROVE  NoLine(BodySent, Terminators)
<1>1. Text \in Seq(Bytes) /\ Len(Text) \in Nat /\ NoLine(Text, Terminators)
  BY TextIs, TextQuiet
<1>2. PICK t \in Seq(Bytes), b \in 0..Len(Text) : t = Text /\ b = BodyStart
  BY <1>1, SentType
<1>3. b \in 0..Len(t) /\ Len(t) \in Nat /\ NoLine(t, Terminators)
  BY <1>1, <1>2
<1>4. PICK h, s : h = SubSeq(t, 1, b) /\ s = SubSeq(t, b + 1, Len(t))
  OBVIOUS
<1>5. /\ h \in Seq(Bytes) /\ Len(h) = b /\ (\A k \in 1..b : h[k] = t[k])
      /\ s \in Seq(Bytes) /\ Len(s) = Len(t) - b /\ t = h \o s
  BY <1>3, <1>4, PrefixAt, PrefixRest
<1>6. s = BodySent
  BY <1>2, <1>4 DEF BodySent, BodyStart
<1>7. CASE b = Len(t)
  <2>1. s = <<>>
    BY <1>3, <1>5, <1>7, EmptySeq
  <2>2. QED
    BY <1>6, <2>1, NoLineEmpty
<1>8. CASE b < Len(t)
  <2>1. PICK f : f = FirstBlank(t)
    OBVIOUS
  <2>2. f \in 1..Len(t) + 1 /\ b = LineEnd(t, f)
    BY <1>2, <2>1, FirstBlankIs DEF BlankFirstAt, BodyStart
  <2>3. f \in 1..Len(t)
    <3>1. SUFFICES ASSUME f = Len(t) + 1 PROVE FALSE
      BY <1>3, <2>2
    <3>2. LineEnd(t, f) = Len(t)
      BY <3>1, LineEndPast
    <3>3. QED
      BY <1>3, <1>8, <2>2, <3>2
  <2>4. EndsAt(t, f, b)
    BY <2>2, <2>3, LineEndIs
  <2>5. t[b] = LF /\ b \in 1..b
    BY <1>3, <1>8, <2>3, <2>4 DEF EndsAt
  <2>6. Whole(h)
    BY <1>5, <2>5 DEF Whole
  <2>7. QED
    BY <1>3, <1>5, <1>6, <2>6, NoLineConcat
<1>9. QED
  BY <1>3, <1>7, <1>8

\* What a reader makes of a block, a body and the terminator behind it.
LEMMA WholeReads ==
  ASSUME NEW hs \in Seq(RelayableHeaders), NEW s \in Seq(Bytes), Whole(s), NoLine(s, Terminators),
         NEW u, u = Whole_(header_block(hs), s)
  PROVE  /\ FirstTerminator(u) <= Len(u) /\ LineEnd(u, FirstTerminator(u)) = Len(u)
         /\ SubSeq(u, LineEnd(u, FirstBlank(u)) + 1, FirstTerminator(u) - 1) = normalize_breaks(s)
<1>1. PICK n \in Seq(Bytes) : n = normalize_breaks(s) /\ Whole(n) /\ NoLine(n, Terminators)
  BY NormType, NormLines
<1>2. PICK t \in Seq(Bytes) : t = <<DOT>> \o CRLF
  BY DotCRLF
<1>3. PICK w \in Seq(Bytes) : w = n \o t
  BY ConcatAt
<1>4. u = header_block(hs) \o w
  BY <1>1, <1>2, <1>3 DEF Whole_
<1>5. /\ LineEnd(u, FirstBlank(u)) = Len(header_block(hs))
      /\ header_block(hs) \in Seq(Bytes) /\ Whole(header_block(hs))
      /\ NoLine(header_block(hs), Terminators)
  BY <1>4, BlockReads
<1>6. PICK hb \in Seq(Bytes) : hb = header_block(hs)
  BY <1>5
<1>7. PICK g \in Seq(Bytes) : g = hb \o n
  BY ConcatAt
<1>8. u = g \o t
  <2>1. AssocAt(hb, n, t)
    BY Assoc
  <2>2. QED
    BY <1>3, <1>4, <1>6, <1>7, <2>1 DEF AssocAt
<1>9. Whole(g) /\ NoLine(g, Terminators)
  <2>1. Whole(hb) /\ NoLine(hb, Terminators)
    BY <1>5, <1>6
  <2>2. QED
    BY <1>1, <1>7, <2>1, WholeConcat, NoLineConcat
<1>10. /\ FirstTerminator(u) = Len(g) + 1 /\ Len(g) + 1 <= Len(u)
       /\ LineEnd(u, Len(g) + 1) = Len(u)
  BY <1>2, <1>8, <1>9, TerminatorBehind
<1>11. Len(g) = Len(hb) + Len(n) /\ Len(hb) \in Nat /\ Len(n) \in Nat
  BY <1>7, ConcatAt
<1>12. SubSeq(u, Len(hb) + 1, Len(g)) = n
  BY <1>3, <1>4, <1>6, <1>11, MiddleOf
<1>13. FirstTerminator(u) - 1 = Len(g)
  BY <1>10, <1>11
<1>14. QED
  BY <1>1, <1>5, <1>6, <1>10, <1>12, <1>13

LEMMA BodiesThere == Typed /\ Stops /\ Bodies => BodyVerbatim
<1>1. SUFFICES ASSUME Typed, Stops, Bodies, reply = 250 PROVE BodyVerbatim
  BY DEF BodyVerbatim
<1>2. Judged /\ phase = "done" /\ up = Whole_(header_block(Merged), BodySent)
  BY <1>1 DEF Bodies
<1>3. input \in Seq(Bytes) /\ Terminated
  BY <1>1, <1>2, Places DEF Stops, Ended
<1>4. BodySent \in Seq(Bytes) /\ Whole(BodySent) /\ NoLine(BodySent, Terminators)
  BY <1>3, SentType, BodyWhole, BodyQuiet
<1>5. Merged \in Seq(RelayableHeaders)
  BY <1>1, <1>2, JudgedIs
<1>6. PICK hs \in Seq(RelayableHeaders), s \in Seq(Bytes), u \in Seq(Bytes) :
        hs = Merged /\ s = BodySent /\ u = up
  BY <1>1, <1>4, <1>5 DEF Typed, TypeOK
<1>7. Whole(s) /\ NoLine(s, Terminators) /\ u = Whole_(header_block(hs), s)
  BY <1>2, <1>4, <1>6
<1>8. /\ FirstTerminator(u) <= Len(u) /\ LineEnd(u, FirstTerminator(u)) = Len(u)
      /\ SubSeq(u, LineEnd(u, FirstBlank(u)) + 1, FirstTerminator(u) - 1) = normalize_breaks(s)
  BY <1>7, WholeReads
<1>9. QED
  BY <1>6, <1>8 DEF BodyVerbatim

\* A message that is accepted is in the upstream's hands line for line, for every
\* input, every cut of it into reads and every chunk size: the body as the client
\* sent it with every line ended by CRLF, one terminator and that at the end
\* (BodyFramer, write_final, finish).
THEOREM BodyRelayed == Spec => []BodyVerbatim
<1>1. Init => Typed /\ Stops /\ Heads /\ Bodies
  BY TypedInit, StopsInit, HeadsInit, BodiesInit
<1>2. Typed /\ Stops /\ Heads /\ Bodies /\ [Next]_vars => Typed' /\ Stops' /\ Heads' /\ Bodies'
  BY TypedNext, StopsNext, HeadsNext, BodiesNext
<1>3. QED
  BY <1>1, <1>2, BodiesThere, PTL DEF Spec


-----------------------------------------------------------------------------
(* The header as the upstream reads it *)

FieldsOf(t) ==
  LET lines == HeaderLinesOf(t)
  IN  [i \in DOMAIN lines |-> SubSeq(lines[i], 1, Len(lines[i]) - 2)]

LEMMA FieldOf ==
  ASSUME NEW h, Relayable(h), NEW l, l = normalize_breaks(Written(h))
  PROVE  SubSeq(l, 1, Len(l) - 2) = HeaderText(h)
<1>1. PICK x \in Seq(Bytes) : x = HeaderText(h) /\ l = x \o CRLF
  BY NormWritten
<1>2. PICK c \in Seq(Bytes) : c = CRLF /\ Len(c) = 2
  BY ByteSeqs, Kinds
<1>3. l = x \o c /\ Len(x \o c) = Len(x) + Len(c) /\ Len(x) \in Nat
  BY <1>1, <1>2, ConcatAt
<1>4. Len(l) - 2 = Len(x)
  BY <1>2, <1>3
<1>5. SubSeq(x \o c, 1, Len(x)) = x
  OBVIOUS
<1>6. QED
  BY <1>1, <1>3, <1>4, <1>5

LEMMA FieldsRead ==
  ASSUME NEW hs \in Seq(RelayableHeaders), NEW t, \E w \in Seq(Bytes) : t = header_block(hs) \o w
  PROVE  FieldsOf(t) = [i \in DOMAIN hs |-> HeaderText(hs[i])]
<1>1. PICK w \in Seq(Bytes) : t = header_block(hs) \o w
  OBVIOUS
<1>2. PICK lines : lines = HeaderLinesOf(t)
  OBVIOUS
<1>3. lines = [i \in DOMAIN hs |-> normalize_breaks(Written(hs[i]))]
  BY <1>1, <1>2, BlockReads DEF Sent_
<1>4. ASSUME NEW i \in DOMAIN hs
      PROVE  SubSeq(lines[i], 1, Len(lines[i]) - 2) = HeaderText(hs[i])
  <2>1. PICK h : h = hs[i] /\ Relayable(h)
    <3>1. hs[i] \in RelayableHeaders
      OBVIOUS
    <3>2. QED
      BY <3>1 DEF RelayableHeaders
  <2>2. PICK l : l = lines[i] /\ l = normalize_breaks(Written(h))
    BY <1>3, <2>1
  <2>3. SubSeq(l, 1, Len(l) - 2) = HeaderText(h)
    BY <2>1, <2>2, FieldOf
  <2>4. QED
    BY <2>1, <2>2, <2>3
<1>5. DOMAIN lines = DOMAIN hs
  BY <1>3
<1>6. FieldsOf(t) = [i \in DOMAIN lines |-> SubSeq(lines[i], 1, Len(lines[i]) - 2)]
  BY <1>2 DEF FieldsOf
<1>7. QED
  BY <1>4, <1>5, <1>6

\* Once the block is written all that is written begins with it.
LEMMA BlockWritten ==
  ASSUME Typed, Bodies, phase \in {"body", "finish"} \/ reply = 250
  PROVE  Judged /\ \E w \in Seq(Bytes) : up = header_block(Merged) \o w
<1>1. Judged
  BY DEF Bodies
<1>2. CASE phase = "body"
  <2>1. Through(up, header_block(Merged), framer, BodySoFar)
    BY <1>2 DEF Bodies
  <2>2. PICK s : s = BodySoFar
    OBVIOUS
  <2>3. PICK u \in Seq(Bytes), hb \in Seq(Bytes), f \in Framer :
          u = up /\ hb = header_block(Merged) /\ f = framer
    BY <1>1, JudgedIs DEF Typed, TypeOK
  <2>4. Through(u, hb, f, s)
    BY <2>1, <2>2, <2>3
  <2>5. PICK w \in Seq(Bytes) : u = hb \o w
    BY <2>4, ThroughBegins
  <2>6. QED
    BY <1>1, <2>3, <2>5
<1>3. CASE phase = "finish"
  <2>1. AllBut(up, header_block(Merged), framer, BodySent)
    BY <1>3 DEF Bodies
  <2>2. QED
    BY <1>1, <2>1, Zenon DEF AllBut
<1>4. CASE reply = 250
  <2>1. up = Whole_(header_block(Merged), BodySent)
    BY <1>4 DEF Bodies
  <2>2. PICK s \in Seq(Bytes) : s = BodySent
    BY SentType DEF Typed
  <2>3. PICK n \in Seq(Bytes) : n = normalize_breaks(s)
    BY NormType
  <2>4. PICK t \in Seq(Bytes) : t = <<DOT>> \o CRLF
    BY DotCRLF
  <2>5. PICK w \in Seq(Bytes) : w = n \o t
    BY ConcatAt
  <2>6. up = header_block(Merged) \o w
    BY <2>1, <2>2, <2>3, <2>4, <2>5 DEF Whole_
  <2>7. QED
    BY <1>1, <2>6
<1>5. QED
  BY <1>2, <1>3, <1>4

\* merge_headers, by the names the answer holds.
LEMMA MergedIs ==
  LET named == {Lower(api[i].name) : i \in DOMAIN api}
      kept  == Picked(asked, {i \in DOMAIN asked : Lower(asked[i].name) \notin named})
      added == Picked(api, {i \in DOMAIN api : api[i].value # Null})
  IN  Merged = kept \o added
<1> DEFINE named == {Lower(api[i].name) : i \in DOMAIN api}
<1>1. \A i : ~Named(api, asked[i]) <=> Lower(asked[i].name) \notin named
  BY Zenon DEF Named, SameName
<1>2. {i \in DOMAIN asked : ~Named(api, asked[i])}
        = {i \in DOMAIN asked : Lower(asked[i].name) \notin named}
  <2> HIDE DEF named
  <2>1. QED
    BY <1>1
<1>3. QED
  BY <1>2 DEF Merged, merge_headers

LEMMA FieldsThere == Typed /\ Bodies => ApiHasTheLastWord
<1> DEFINE named == {Lower(api[i].name) : i \in DOMAIN api}
           kept  == Picked(asked, {i \in DOMAIN asked : Lower(asked[i].name) \notin named})
           added == Picked(api, {i \in DOMAIN api : api[i].value # Null})
           all   == kept \o added
<1>1. SUFFICES ASSUME Typed, Bodies, phase \in {"body", "finish"} \/ reply = 250
               PROVE  Fields = [i \in DOMAIN all |-> HeaderText(all[i])]
  BY Zenon DEF ApiHasTheLastWord, HeaderText
<1>2. Merged = all
  BY MergedIs
<1> HIDE DEF all
<1>3. Judged /\ \E w \in Seq(Bytes) : up = header_block(Merged) \o w
  BY <1>1, BlockWritten
<1>4. Merged \in Seq(RelayableHeaders)
  BY <1>1, <1>3, JudgedIs
<1>5. PICK hs \in Seq(RelayableHeaders), t \in Seq(Bytes) : hs = all /\ t = up
  BY <1>1, <1>2, <1>4 DEF Typed, TypeOK
<1>6. FieldsOf(t) = [i \in DOMAIN hs |-> HeaderText(hs[i])]
  BY <1>2, <1>3, <1>5, FieldsRead
<1>7. Fields = FieldsOf(up)
  BY DEF Fields, FieldsOf, HeaderLinesOf
<1>8. QED
  BY <1>5, <1>6, <1>7

\* What the upstream reads as the header of a message is what the API judged, for
\* every input and every answer: each field was shown to the API and not named in
\* its answer, or is the API's own, and nothing is forged, folded away, split or
\* lost on the way (merge_headers, assert_header_relayable, header_block).
THEOREM HeaderJudged == Spec => []ApiHasTheLastWord
<1>1. Init => Typed /\ Stops /\ Heads /\ Bodies
  BY TypedInit, StopsInit, HeadsInit, BodiesInit
<1>2. Typed /\ Stops /\ Heads /\ Bodies /\ [Next]_vars => Typed' /\ Stops' /\ Heads' /\ Bodies'
  BY TypedNext, StopsNext, HeadsNext, BodiesNext
<1>3. QED
  BY <1>1, <1>2, FieldsThere, PTL DEF Spec

-----------------------------------------------------------------------------
(* The names in a header block, as the client sent it and as the API sees it *)

\* The lines of EveryHeaderShown.
LineOf(b, k) == trim_end_breaks(Unstuffed(LineAt(b, k)))
FoldAt(b, k) == k \in 2..Len(b) /\ Unstuffed(LineAt(b, k))[1] \in Cont
HeadAt(b, k) ==
  /\ LineBegins(b, k) /\ ~FoldAt(b, k) /\ FirstColon(LineOf(b, k)) > 1
  /\ \/ FirstColon(LineOf(b, k)) < Len(LineOf(b, k))
     \/ FoldAt(b, LineEnd(b, k) + 1)
NamesAt(b) == [k \in DOMAIN b |-> NameOf(LineOf(b, k))]
HeadsAt(b) == {k \in DOMAIN b : HeadAt(b, k)}
SentNames(b) == Picked(NamesAt(b), HeadsAt(b))

LEMMA LineType ==
  ASSUME NEW s \in Seq(Bytes), NEW i \in 1..Len(s)
  PROVE  /\ LineAt(s, i) \in Seq(Bytes) /\ Unstuffed(LineAt(s, i)) \in Seq(Bytes)
         /\ LineOf(s, i) \in Seq(Bytes) /\ LineEnd(s, i) \in i..Len(s)
<1>1. EndsAt(s, i, LineEnd(s, i)) /\ Len(s) \in Nat
  BY LineEndIs
<1>2. PICK e \in i..Len(s) : e = LineEnd(s, i) /\ \A j \in i..e - 1 : s[j] # LF
  BY <1>1 DEF EndsAt
<1>3. PICK l : l = SubSeq(s, i, e)
  OBVIOUS
<1>4. l \in Seq(Bytes) /\ Len(l) = e - i + 1 /\ \A k \in 1..e - i + 1 : l[k] = s[i + k - 1]
  <2>1. i \in 1..Len(s) + 1 /\ e \in i - 1..Len(s)
    BY <1>1
  <2>2. QED
    BY <1>3, <2>1, SubSeqAt
<1>5. \A j \in 1..Len(l) - 1 : l[j] # LF
  <2>1. TAKE j \in 1..Len(l) - 1
  <2>2. j \in 1..e - i + 1 /\ i + j - 1 \in i..e - 1
    BY <1>1, <1>4
  <2>3. QED
    BY <1>2, <1>4, <2>2
<1>6. Unstuffed(l) \in Seq(Bytes)
  BY <1>4, <1>5, UnstuffLine
<1>7. LineAt(s, i) = l
  BY <1>2, <1>3 DEF LineAt
<1>8. QED
  BY <1>2, <1>4, <1>6, <1>7, TrimType DEF LineOf

LEMMA NamesAtType ==
  ASSUME NEW b \in Seq(Bytes)
  PROVE  /\ NamesAt(b) \in Seq(Seq(Bytes)) /\ Len(NamesAt(b)) = Len(b)
         /\ \A k \in 1..Len(b) : NamesAt(b)[k] = NameOf(LineOf(b, k))
<1>1. DOMAIN b = 1..Len(b) /\ Len(b) \in Nat
  OBVIOUS
<1>2. \A k \in 1..Len(b) : NameOf(LineOf(b, k)) \in Seq(Bytes)
  BY LineType, NameOfType
<1>3. NamesAt(b) \in [1..Len(b) -> Seq(Bytes)]
  BY <1>1, <1>2 DEF NamesAt
<1>4. QED
  BY <1>1, <1>3, SeqOfFunction DEF NamesAt

\* A text behind another one that ends in a whole line, and does not fold it.
Starts(a, g) == Whole(a) /\ (Len(a) = 0 \/ Len(g) = 0 \/ Unstuffed(LineAt(g, 1))[1] \notin Cont)

LEMMA FoldsApart ==
  ASSUME NEW a \in Seq(Bytes), NEW g \in Seq(Bytes), Starts(a, g)
  PROVE  /\ \A i \in 1..Len(a) + 1 : FoldAt(a \o g, i) <=> FoldAt(a, i)
         /\ \A i \in 1..Len(g) + 1 : FoldAt(a \o g, Len(a) + i) <=> FoldAt(g, i)
<1> DEFINE s == a \o g
           m == Len(a)
           n == Len(g)
<1>1. Len(s) = m + n /\ m \in Nat /\ n \in Nat
  BY ConcatAt
<1>2. \A i \in 1..m : LineAt(s, i) = LineAt(a, i)
  BY LineConcatLeft DEF Starts
<1>3. \A i \in 1..n : LineAt(s, m + i) = LineAt(g, i)
  BY LineConcatRight
<1> HIDE DEF s, m, n
<1>4. ~FoldAt(s, m + 1)
  <2>1. CASE m = 0
    BY <2>1 DEF FoldAt
  <2>2. CASE n = 0
    <3>1. m + 1 \notin 2..Len(s)
      BY <1>1, <2>2
    <3>2. QED
      BY <3>1 DEF FoldAt
  <2>3. CASE m # 0 /\ n # 0
    <3>1. 1 \in 1..n
      BY <1>1, <2>3
    <3>2. LineAt(s, m + 1) = LineAt(g, 1)
      BY <1>3, <3>1
    <3>3. QED
      BY <2>3, <3>2 DEF FoldAt, Starts, m, n
  <2>4. QED
    BY <2>1, <2>2, <2>3
<1>5. ~FoldAt(a, m + 1)
  <2>1. m + 1 \notin 2..Len(a)
    BY <1>1 DEF m
  <2>2. QED
    BY <2>1 DEF FoldAt
<1>6. \A i \in 1..m : FoldAt(s, i) <=> FoldAt(a, i)
  <2>1. \A i \in 1..m : i \in 2..Len(s) <=> i \in 2..Len(a)
    BY <1>1 DEF m
  <2>2. QED
    BY <1>2, <2>1 DEF FoldAt
<1>7. ASSUME NEW i \in 1..n + 1 PROVE FoldAt(s, m + i) <=> FoldAt(g, i)
  <2>1. CASE i = 1
    BY <1>4, <2>1 DEF FoldAt
  <2>2. CASE i \in 2..n
    <3>1. m + i \in 2..Len(s) /\ i \in 2..Len(g) /\ i \in 1..n
      BY <1>1, <2>2 DEF n
    <3>2. QED
      BY <1>3, <3>1 DEF FoldAt
  <2>3. CASE i = n + 1 /\ i # 1
    <3>1. m + i \notin 2..Len(s) /\ i \notin 2..Len(g)
      BY <1>1, <2>3 DEF n
    <3>2. QED
      BY <3>1 DEF FoldAt
  <2>4. QED
    BY <1>1, <2>1, <2>2, <2>3
<1>8. \A i \in 1..m + 1 : FoldAt(s, i) <=> FoldAt(a, i)
  <2>1. \A i \in 1..m + 1 : i \in 1..m \/ i = m + 1
    BY <1>1
  <2>2. QED
    BY <1>4, <1>5, <1>6, <2>1
<1>9. QED
  BY <1>7, <1>8 DEF s, m, n

LEMMA SentConcat ==
  ASSUME NEW a \in Seq(Bytes), NEW g \in Seq(Bytes), Starts(a, g)
  PROVE  SentNames(a \o g) = SentNames(a) \o SentNames(g)
<1> DEFINE s == a \o g
           m == Len(a)
           n == Len(g)
<1>1. s \in Seq(Bytes) /\ Len(s) = m + n /\ m \in Nat /\ n \in Nat
      /\ DOMAIN s = 1..m + n /\ DOMAIN a = 1..m /\ DOMAIN g = 1..n
  BY ConcatAt
<1>2. \A i \in 1..m : LineEnd(s, i) = LineEnd(a, i) /\ LineAt(s, i) = LineAt(a, i)
  BY LineConcatLeft DEF Starts
<1>3. \A i \in 1..n : LineEnd(s, m + i) = m + LineEnd(g, i) /\ LineAt(s, m + i) = LineAt(g, i)
  BY LineConcatRight
<1>4. \A i \in 1..m : LineBegins(s, i) <=> LineBegins(a, i)
  BY BeginsConcat
<1>5. \A i \in 1..n : LineBegins(s, m + i) <=> LineBegins(g, i)
  <2>1. TAKE i \in 1..n
  <2>2. CASE i = 1
    BY <2>2, BeginsConcat DEF LineBegins, Starts
  <2>3. CASE i \in 2..n
    BY <2>3, BeginsConcat
  <2>4. QED
    BY <1>1, <2>2, <2>3
<1>6. /\ \A i \in 1..m + 1 : FoldAt(s, i) <=> FoldAt(a, i)
      /\ \A i \in 1..n + 1 : FoldAt(s, m + i) <=> FoldAt(g, i)
  BY FoldsApart
<1>7. \A i \in 1..m : LineEnd(a, i) + 1 \in 1..m + 1
  BY <1>1, LineType, SMTT(30)
<1>8. ASSUME NEW i \in 1..n PROVE LineEnd(g, i) + 1 \in 1..n + 1 /\ LineEnd(g, i) \in Nat
  <2>1. PICK e \in i..n : e = LineEnd(g, i)
    BY LineType
  <2>2. e + 1 \in 1..n + 1 /\ e \in Nat
    BY <1>1
  <2>3. QED
    BY <2>1, <2>2
<1> HIDE DEF s, m, n
<1>9. \A i \in 1..m : LineOf(s, i) = LineOf(a, i)
  BY <1>2 DEF LineOf
<1>10. \A i \in 1..n : LineOf(s, m + i) = LineOf(g, i)
  BY <1>3 DEF LineOf
<1>11. ASSUME NEW i \in 1..m PROVE HeadAt(s, i) <=> HeadAt(a, i)
  <2>1. FoldAt(s, LineEnd(s, i) + 1) <=> FoldAt(a, LineEnd(a, i) + 1)
    BY <1>2, <1>6, <1>7
  <2>2. i \in 1..m + 1
    BY <1>1
  <2>3. QED
    BY <1>4, <1>6, <1>9, <2>1, <2>2 DEF HeadAt
<1>12. ASSUME NEW i \in 1..n PROVE HeadAt(s, m + i) <=> HeadAt(g, i)
  <2>1. LineEnd(s, m + i) + 1 = m + (LineEnd(g, i) + 1)
    BY <1>1, <1>3, <1>8
  <2>2. FoldAt(s, LineEnd(s, m + i) + 1) <=> FoldAt(g, LineEnd(g, i) + 1)
    BY <1>6, <1>8, <2>1
  <2>3. i \in 1..n + 1
    BY <1>1
  <2>4. QED
    BY <1>5, <1>6, <1>10, <2>2, <2>3 DEF HeadAt
<1>13. \A i \in 1..m : i \in HeadsAt(a) <=> i \in HeadsAt(s)
  <2>1. \A i \in 1..m : i \in 1..m + n
    BY <1>1
  <2>2. QED
    BY <1>1, <1>11, <2>1 DEF HeadsAt
<1>14. \A i \in 1..n : i \in HeadsAt(g) <=> m + i \in HeadsAt(s)
  <2>1. \A i \in 1..n : m + i \in 1..m + n
    BY <1>1
  <2>2. QED
    BY <1>1, <1>12, <2>1 DEF HeadsAt
<1>15. PICK p \in Seq(Seq(Bytes)) : /\ p = NamesAt(s) /\ Len(p) = m + n
                                    /\ \A k \in 1..m + n : p[k] = NameOf(LineOf(s, k))
  BY <1>1, NamesAtType
<1>16. PICK q \in Seq(Seq(Bytes)) : /\ q = NamesAt(a) /\ Len(q) = m
                                    /\ \A k \in 1..m : q[k] = NameOf(LineOf(a, k))
  BY NamesAtType DEF m
<1>17. PICK r \in Seq(Seq(Bytes)) : /\ r = NamesAt(g) /\ Len(r) = n
                                    /\ \A k \in 1..n : r[k] = NameOf(LineOf(g, k))
  BY NamesAtType DEF n
<1>18. p = q \o r
  <2>1. \A i \in 1..m : p[i] = q[i]
    <3>1. \A i \in 1..m : i \in 1..m + n
      BY <1>1
    <3>2. QED
      BY <1>9, <1>15, <1>16, <3>1
  <2>2. \A i \in 1..n : p[m + i] = r[i]
    <3>1. \A i \in 1..n : m + i \in 1..m + n
      BY <1>1
    <3>2. QED
      BY <1>10, <1>15, <1>17, <3>1
  <2>3. Joins(q, r, p)
    BY <1>15, <1>16, <1>17, <2>1, <2>2 DEF Joins
  <2>4. QED
    BY <2>3, JoinsConcat
<1>19. Picked(q \o r, HeadsAt(s)) = Picked(q, HeadsAt(a)) \o Picked(r, HeadsAt(g))
  <2>1. Parted(HeadsAt(s), q, r, HeadsAt(a), HeadsAt(g))
    BY <1>13, <1>14, <1>16, <1>17, Zenon DEF Parted
  <2>2. QED
    BY <2>1, PickedConcat
<1>20. QED
  BY <1>15, <1>16, <1>17, <1>18, <1>19 DEF SentNames, s

\* The folds of a header, as they are sent.
Tails(f) ==
  Whole(f) /\ \A i \in 1..Len(f) : LineBegins(f, i) => Unstuffed(LineAt(f, i))[1] \in Cont

LEMMA UnstuffedLine ==
  ASSUME NEW l \in Seq(Bytes), IsLine(l)
  PROVE  /\ Unstuffed(l) \in Seq(Bytes) /\ IsLine(Unstuffed(l)) /\ unstuff(l) = Unstuffed(l)
<1>1. Len(l) \in Nat /\ Len(l) > 0 /\ l[Len(l)] = LF /\ \A j \in 1..Len(l) - 1 : l[j] # LF
  BY DEF IsLine
<1>2. unstuff(l) = Unstuffed(l)
  BY <1>1, UnstuffLine
<1>3. CASE l[1] = DOT
  <2>1. Unstuffed(l) = Tail(l)
    BY <1>1, <1>3 DEF Unstuffed
  <2>2. Len(l) # 1
    BY <1>1, <1>3, Kinds
  <2>3. PICK t : t = Tail(l)
    OBVIOUS
  <2>4. t \in Seq(Bytes) /\ Len(t) = Len(l) - 1 /\ \A j \in 1..Len(l) - 1 : t[j] = l[j + 1]
    BY <1>1, <2>3
  <2>5. Len(t) > 0 /\ t[Len(t)] = LF
    BY <1>1, <2>2, <2>4
  <2>6. \A j \in 1..Len(t) - 1 : t[j] # LF
    BY <1>1, <2>4
  <2>7. QED
    BY <1>2, <2>1, <2>3, <2>4, <2>5, <2>6 DEF IsLine
<1>4. CASE l[1] # DOT
  <2>1. Unstuffed(l) = l
    BY <1>4 DEF Unstuffed
  <2>2. QED
    BY <1>2, <2>1
<1>5. QED
  BY <1>3, <1>4

Unstuffs(s) ==
  /\ unstuff(s) \in Seq(Bytes) /\ Whole(unstuff(s)) /\ (Len(s) > 0 => Len(unstuff(s)) > 0)
  /\ Tails(s) => Tailed(unstuff(s))

LEMMA TailsSplit ==
  ASSUME NEW a \in Seq(Bytes), NEW l \in Seq(Bytes), Whole(a), IsLine(l), Tails(a \o l)
  PROVE  Tails(a) /\ Unstuffed(l)[1] \in Cont
<1> DEFINE s == a \o l
           m == Len(a)
<1>1. Len(s) = m + Len(l) /\ m \in Nat /\ Len(l) \in Nat /\ Len(l) > 0
  BY ConcatAt DEF IsLine
<1>2. \A i \in 1..m : LineAt(s, i) = LineAt(a, i) /\ (LineBegins(s, i) <=> LineBegins(a, i))
  BY LineConcatLeft, BeginsConcat
<1>3. LineAt(s, m + 1) = l /\ LineBegins(s, m + 1)
  <2>1. 1 \in 1..Len(l)
    BY <1>1
  <2>2. LineAt(s, m + 1) = LineAt(l, 1)
    BY <2>1, LineConcatRight
  <2>3. QED
    BY <1>1, <2>2, LineOfLine, BeginsConcat
<1> HIDE DEF s, m
<1>4. \A i \in 1..Len(s) : LineBegins(s, i) => Unstuffed(LineAt(s, i))[1] \in Cont
  BY DEF Tails, s
<1>5. m + 1 \in 1..Len(s) /\ \A i \in 1..m : i \in 1..Len(s)
  BY <1>1
<1>6. Unstuffed(l)[1] \in Cont
  BY <1>3, <1>4, <1>5
<1>7. \A i \in 1..m : LineBegins(a, i) => Unstuffed(LineAt(a, i))[1] \in Cont
  BY <1>2, <1>4, <1>5
<1>8. QED
  BY <1>6, <1>7 DEF Tails, m

LEMMA UnstuffsStep ==
  ASSUME NEW a \in Seq(Bytes), NEW l \in Seq(Bytes), Whole(a), IsLine(l), Unstuffs(a)
  PROVE  Unstuffs(a \o l)
<1>1. PICK u \in Seq(Bytes) : u = unstuff(a) /\ Whole(u)
  BY DEF Unstuffs
<1>2. PICK v \in Seq(Bytes) : v = unstuff(l) /\ IsLine(v) /\ v = Unstuffed(l)
  BY UnstuffedLine
<1>3. unstuff(a \o l) = u \o v
  BY <1>1, <1>2, UnstuffConcat
<1>4. u \o v \in Seq(Bytes) /\ Len(u \o v) = Len(u) + Len(v) /\ Len(u) \in Nat /\ Len(v) \in Nat
      /\ Len(v) > 0
  BY <1>2, ConcatAt DEF IsLine
<1>5. Whole(u \o v)
  <2>1. Whole(v)
    BY <1>2 DEF IsLine, Whole
  <2>2. QED
    BY <1>4, <2>1, WholeConcat
<1>6. ASSUME Tails(a \o l) PROVE Tailed(u \o v)
  <2>1. Tails(a) /\ v[1] \in Cont
    BY <1>2, <1>6, TailsSplit
  <2>2. Tailed(u)
    BY <1>1, <2>1 DEF Unstuffs
  <2>3. SUFFICES ASSUME NEW i \in 1..Len(u \o v), LineBegins(u \o v, i) PROVE (u \o v)[i] \in Cont
    BY DEF Tailed
  <2>4. CASE i \in 1..Len(u)
    <3>1. LineBegins(u, i)
      BY <2>3, <2>4, BeginsConcat
    <3>2. (u \o v)[i] = u[i]
      BY <2>4, ConcatAt
    <3>3. QED
      BY <2>2, <2>4, <3>1, <3>2 DEF Tailed
  <2>5. CASE i \notin 1..Len(u)
    <3>1. PICK k : k = i - Len(u)
      OBVIOUS
    <3>2. k \in 1..Len(v) /\ i = Len(u) + k
      BY <1>4, <2>5, <3>1
    <3>3. (u \o v)[i] = v[k]
      BY <3>2, ConcatAt
    <3>4. k = 1
      <4>1. SUFFICES ASSUME k # 1 PROVE FALSE
        OBVIOUS
      <4>2. k \in 2..Len(v)
        BY <1>4, <3>2, <4>1
      <4>3. LineBegins(v, k)
        BY <2>3, <3>2, <4>2, BeginsConcat
      <4>4. QED
        BY <1>2, <4>2, <4>3, LineOfLine
    <3>5. QED
      BY <2>1, <3>3, <3>4
  <2>6. QED
    BY <2>4, <2>5
<1>7. QED
  BY <1>3, <1>4, <1>5, <1>6 DEF Unstuffs

LEMMA UnstuffLines ==
  ASSUME NEW s \in Seq(Bytes), Whole(s)
  PROVE  Unstuffs(s)
<1> DEFINE T == {t \in Seq(Bytes) : Unstuffs(t)}
<1>1. <<>> \in T
  <2>1. Len(<<>>) = 0 /\ <<>> \in Seq(Bytes)
    OBVIOUS
  <2>2. Whole(<<>>) /\ Tailed(<<>>)
    BY <2>1 DEF Whole, Tailed
  <2>3. Unstuffs(<<>>)
    BY <2>1, <2>2, UnstuffEmpty DEF Unstuffs
  <2>4. QED
    BY <2>1, <2>3
<1>2. ASSUME NEW a \in Seq(Bytes), NEW l \in Seq(Bytes), a \in T, Whole(a), IsLine(l)
      PROVE  a \o l \in T
  <2>1. Unstuffs(a \o l) /\ a \o l \in Seq(Bytes)
    BY <1>2, UnstuffsStep, ConcatAt
  <2>2. QED
    BY <2>1
<1> HIDE DEF T
<1>3. \A t \in Seq(Bytes) : Whole(t) => t \in T
  BY <1>1, <1>2, LineInduction
<1>4. QED
  BY <1>3 DEF T

\* A header's first line and its folds.
Group(l, f) == l \in Seq(Bytes) /\ IsLine(l) /\ f \in Seq(Bytes) /\ Tails(f)

LEMMA GroupLines ==
  ASSUME NEW l, NEW f, Group(l, f)
  PROVE  /\ l \o f \in Seq(Bytes) /\ Len(l \o f) > 0 /\ Whole(l \o f)
         /\ LineAt(l \o f, 1) = l /\ LineEnd(l \o f, 1) = Len(l)
         /\ \A k \in 2..Len(l \o f) : LineBegins(l \o f, k) => FoldAt(l \o f, k)
         /\ FoldAt(l \o f, Len(l) + 1) <=> Len(f) > 0
<1> DEFINE g == l \o f
<1>1. /\ l \in Seq(Bytes) /\ f \in Seq(Bytes) /\ IsLine(l) /\ Tails(f) /\ Whole(l) /\ Whole(f)
  BY DEF Group, IsLine, Whole, Tails
<1>2. g \in Seq(Bytes) /\ Len(g) = Len(l) + Len(f) /\ Len(l) \in Nat /\ Len(f) \in Nat /\ Len(l) > 0
  BY <1>1, ConcatAt DEF IsLine
<1>3. Whole(g)
  BY <1>1, WholeConcat
<1>4. LineAt(g, 1) = l /\ LineEnd(g, 1) = Len(l)
  <2>1. 1 \in 1..Len(l)
    BY <1>2
  <2>2. LineAt(g, 1) = LineAt(l, 1) /\ LineEnd(g, 1) = LineEnd(l, 1)
    BY <1>1, <2>1, LineConcatLeft
  <2>3. QED
    BY <1>1, <2>2, LineOfLine
<1>5. ASSUME NEW k \in 1..Len(f), LineBegins(f, k)
      PROVE  FoldAt(g, Len(l) + k)
  <2>1. LineAt(g, Len(l) + k) = LineAt(f, k)
    BY <1>1, LineConcatRight
  <2>2. Unstuffed(LineAt(f, k))[1] \in Cont
    BY <1>1, <1>5 DEF Tails
  <2>3. Len(l) + k \in 2..Len(g)
    BY <1>2
  <2>4. QED
    BY <2>1, <2>2, <2>3 DEF FoldAt
<1>6. ASSUME NEW k \in 2..Len(g), LineBegins(g, k)
      PROVE  FoldAt(g, k)
  <2>1. k \notin 1..Len(l)
    <3>1. SUFFICES ASSUME k \in 1..Len(l) PROVE FALSE
      OBVIOUS
    <3>2. LineBegins(l, k) /\ k \in 2..Len(l)
      BY <1>1, <1>6, <3>1, BeginsConcat
    <3>3. QED
      BY <1>1, <3>2, LineOfLine
  <2>2. PICK j : j = k - Len(l)
    OBVIOUS
  <2>3. j \in 1..Len(f) /\ k = Len(l) + j
    BY <1>2, <2>1, <2>2
  <2>4. LineBegins(f, j)
    <3>1. CASE j = 1
      BY <3>1 DEF LineBegins
    <3>2. CASE j # 1
      <4>1. j \in 2..Len(f)
        BY <1>2, <2>3, <3>2
      <4>2. QED
        BY <1>1, <1>6, <2>3, <4>1, BeginsConcat
    <3>3. QED
      BY <3>1, <3>2
  <2>5. QED
    BY <1>5, <2>3, <2>4
<1>7. FoldAt(g, Len(l) + 1) <=> Len(f) > 0
  <2>1. ASSUME Len(f) > 0 PROVE FoldAt(g, Len(l) + 1)
    <3>1. 1 \in 1..Len(f) /\ LineBegins(f, 1)
      BY <1>2, <2>1 DEF LineBegins
    <3>2. QED
      BY <1>5, <3>1
  <2>2. ASSUME ~(Len(f) > 0) PROVE ~FoldAt(g, Len(l) + 1)
    <3>1. Len(l) + 1 \notin 2..Len(g)
      BY <1>2, <2>2
    <3>2. QED
      BY <3>1 DEF FoldAt
  <2>3. QED
    BY <2>1, <2>2
<1>8. QED
  BY <1>2, <1>3, <1>4, <1>6, <1>7

LEMMA SentGroup ==
  ASSUME NEW l, NEW f, Group(l, f), NEW m, m = trim_end_breaks(Unstuffed(l))
  PROVE  SentNames(l \o f)
           = IF FirstColon(m) > 1 /\ (FirstColon(m) < Len(m) \/ Len(f) > 0) THEN <<NameOf(m)>>
             ELSE <<>>
<1>1. PICK g \in Seq(Bytes) :
        /\ g = l \o f /\ Len(g) > 0 /\ LineAt(g, 1) = l /\ LineEnd(g, 1) = Len(l)
        /\ \A k \in 2..Len(g) : LineBegins(g, k) => FoldAt(g, k)
        /\ FoldAt(g, Len(l) + 1) <=> Len(f) > 0
  BY GroupLines
<1>2. DOMAIN g = 1..Len(g) /\ Len(g) \in Nat /\ 1 \in 1..Len(g)
  BY <1>1
<1>3. LineOf(g, 1) = m
  BY <1>1 DEF LineOf
<1>4. HeadAt(g, 1) <=> FirstColon(m) > 1 /\ (FirstColon(m) < Len(m) \/ Len(f) > 0)
  <2>1. LineBegins(g, 1) /\ ~FoldAt(g, 1)
    BY DEF LineBegins, FoldAt
  <2>2. QED
    BY <1>1, <1>3, <2>1 DEF HeadAt
<1>5. 1 \in HeadsAt(g) <=> HeadAt(g, 1)
  BY <1>2 DEF HeadsAt
<1>6. \A k \in 2..Len(g) : k \notin HeadsAt(g)
  BY <1>1 DEF HeadsAt, HeadAt
<1>7. PICK p \in Seq(Seq(Bytes)) : p = NamesAt(g) /\ Len(p) = Len(g) /\ p[1] = NameOf(m)
  BY <1>2, <1>3, NamesAtType
<1>8. Picked(p, HeadsAt(g)) = IF 1 \in HeadsAt(g) THEN <<p[1]>> ELSE <<>>
  BY <1>1, <1>6, <1>7, PickedFirst
<1>9. SentNames(g) = Picked(p, HeadsAt(g))
  BY <1>7 DEF SentNames
<1>10. QED
  BY <1>1, <1>4, <1>5, <1>7, <1>8, <1>9

\* Every line but the first is a fold.
Continued(y) == \A i \in 2..Len(y) : LineBegins(y, i) => y[i] \in Cont

\* A header unstuffed: its first line and its folds.
OpensTo(l, f, u, v) ==
  /\ u \in Seq(Bytes) /\ IsLine(u) /\ v \in Seq(Bytes) /\ Whole(v) /\ Tailed(v)
  /\ Len(v) > 0 <=> Len(f) > 0
  /\ unstuff(l \o f) = u \o v /\ Continued(u \o v)

LEMMA UnstuffedGroup ==
  ASSUME NEW l, NEW f, Group(l, f), NEW u, u = Unstuffed(l), NEW v, v = unstuff(f)
  PROVE  OpensTo(l, f, u, v)
<1>1. /\ l \in Seq(Bytes) /\ f \in Seq(Bytes) /\ IsLine(l) /\ Tails(f) /\ Whole(l) /\ Whole(f)
  BY DEF Group, IsLine, Whole, Tails
<1>2. u \in Seq(Bytes) /\ IsLine(u) /\ unstuff(l) = u
  BY <1>1, UnstuffedLine
<1>3. Unstuffs(f)
  BY <1>1, UnstuffLines
<1>4. v \in Seq(Bytes) /\ Whole(v) /\ (Len(f) > 0 => Len(v) > 0) /\ Tailed(v)
  BY <1>1, <1>3 DEF Unstuffs
<1>5. Len(f) = 0 => Len(v) = 0
  <2>1. SUFFICES ASSUME Len(f) = 0 PROVE Len(v) = 0
    OBVIOUS
  <2>2. f = <<>>
    BY <1>1, <2>1
  <2>3. QED
    BY <2>2, UnstuffEmpty
<1>6. unstuff(l \o f) = u \o v
  BY <1>1, <1>2, UnstuffConcat
<1>7. Len(u) \in Nat /\ Len(v) \in Nat /\ Len(f) \in Nat /\ Len(u \o v) = Len(u) + Len(v)
  BY <1>1, <1>2, <1>4, ConcatAt
<1>8. ASSUME NEW i \in 2..Len(u \o v), LineBegins(u \o v, i) PROVE (u \o v)[i] \in Cont
  <2>1. i \notin 1..Len(u)
    <3>1. SUFFICES ASSUME i \in 1..Len(u) PROVE FALSE
      OBVIOUS
    <3>2. LineBegins(u, i) /\ i \in 2..Len(u)
      BY <1>2, <1>4, <1>8, <3>1, BeginsConcat
    <3>3. QED
      BY <1>2, <3>2, LineOfLine
  <2>2. PICK k : k = i - Len(u)
    OBVIOUS
  <2>3. k \in 1..Len(v) /\ i = Len(u) + k
    BY <1>7, <2>1, <2>2
  <2>4. LineBegins(v, k)
    <3>1. CASE k = 1
      BY <3>1 DEF LineBegins
    <3>2. CASE k # 1
      <4>1. k \in 2..Len(v)
        BY <1>7, <2>3, <3>2
      <4>2. QED
        BY <1>2, <1>4, <1>8, <2>3, <4>1, BeginsConcat
    <3>3. QED
      BY <3>1, <3>2
  <2>5. (u \o v)[i] = v[k]
    BY <1>2, <1>4, <2>3, ConcatAt
  <2>6. QED
    BY <1>4, <2>3, <2>4, <2>5 DEF Tailed
<1>9. Len(v) > 0 <=> Len(f) > 0
  BY <1>4, <1>5, <1>7
<1>10. Continued(u \o v)
  BY <1>8 DEF Continued
<1>11. QED
  BY <1>2, <1>4, <1>6, <1>9, <1>10 DEF OpensTo

LEMMA GroupAgrees ==
  ASSUME NEW l, NEW f, Group(l, f)
  PROVE  SentNames(l \o f) = NamesIn(<<unstuff(l \o f)>>)
<1>1. PICK u : u = Unstuffed(l)
  OBVIOUS
<1>2. PICK v : v = unstuff(f)
  OBVIOUS
<1>3. /\ u \in Seq(Bytes) /\ IsLine(u) /\ v \in Seq(Bytes) /\ Whole(v) /\ Tailed(v)
      /\ Len(v) > 0 <=> Len(f) > 0
      /\ unstuff(l \o f) = u \o v
  <2>1. OpensTo(l, f, u, v)
    BY <1>1, <1>2, UnstuffedGroup
  <2>2. QED
    BY <2>1 DEF OpensTo
<1>4. PICK m : m = trim_end_breaks(u)
  OBVIOUS
<1>5. PICK t : t = trim_end_breaks(u \o v)
  OBVIOUS
<1>6. SentNames(l \o f)
        = IF FirstColon(m) > 1 /\ (FirstColon(m) < Len(m) \/ Len(f) > 0) THEN <<NameOf(m)>> ELSE <<>>
  BY <1>1, <1>4, SentGroup
<1>7. PICK y \in Seq(Bytes) : y = u \o v
  BY <1>3, ConcatAt
<1>8. NamesIn(<<y>>) = IF parses(t) /\ NameOf(t) \in Unbroken THEN <<NameOf(t)>> ELSE <<>>
  BY <1>5, <1>7, NamesOne
<1>9. CASE FirstColon(m) > 0
  <2>1. /\ FirstColon(t) = FirstColon(m) /\ NameOf(t) = NameOf(m) /\ NameOf(t) \in Unbroken
        /\ FirstColon(t) < Len(t) <=> FirstColon(m) < Len(m) \/ Len(v) > 0
    BY <1>3, <1>4, <1>5, <1>9, NameThere
  <2>2. QED
    BY <1>3, <1>6, <1>7, <1>8, <2>1, Zenon DEF parses
<1>10. CASE ~(FirstColon(m) > 0)
  <2>1. m \in Seq(Bytes)
    BY <1>3, <1>4, TrimType
  <2>2. FirstColon(m) = 0 /\ ~(FirstColon(m) > 1)
    <3>1. PICK c \in 0..Len(m) : c = FirstColon(m)
      BY <2>1, FirstColonIs
    <3>2. QED
      BY <1>10, <2>1, <3>1
  <2>3. parses(t) => NameOf(t) \notin Unbroken
    BY <1>3, <1>4, <1>5, <2>2, NameBroken
  <2>4. QED
    BY <1>3, <1>6, <1>7, <1>8, <2>2, <2>3, Zenon
<1>11. QED
  BY <1>9, <1>10

\* The API is shown what the client sent.
Agrees(b) == SentNames(b) = NamesIn(HeaderLines(unstuff(b)))

LEMMA AgreesStep ==
  ASSUME NEW a \in Seq(Bytes), Whole(a), Agrees(a), NEW l, NEW f, Group(l, f),
         Len(a) = 0 \/ Unstuffed(l)[1] \notin Cont
  PROVE  Agrees(a \o (l \o f))
<1>1. PICK g \in Seq(Bytes) : g = l \o f /\ Len(g) > 0 /\ LineAt(g, 1) = l
  BY GroupLines
<1>2. Starts(a, g)
  BY <1>1 DEF Starts
<1>3. SentNames(a \o g) = SentNames(a) \o SentNames(g)
  BY <1>2, SentConcat
<1>4. PICK u : u = Unstuffed(l)
  OBVIOUS
<1>5. PICK v : v = unstuff(f)
  OBVIOUS
<1>6. /\ u \in Seq(Bytes) /\ IsLine(u) /\ v \in Seq(Bytes) /\ unstuff(g) = u \o v
      /\ Continued(u \o v)
  <2>1. OpensTo(l, f, u, v)
    BY <1>4, <1>5, UnstuffedGroup
  <2>2. QED
    BY <1>1, <2>1 DEF OpensTo
<1>7. PICK y \in Seq(Bytes) : y = u \o v /\ Len(y) > 0 /\ y[1] = u[1]
  <2> DEFINE z == u \o v
  <2>1. 1 \in 1..Len(u) /\ Len(u) \in Nat /\ Len(v) \in Nat
    BY <1>6 DEF IsLine
  <2>2. z \in Seq(Bytes) /\ Len(z) = Len(u) + Len(v) /\ z[1] = u[1]
    BY <1>6, <2>1, ConcatAt
  <2> HIDE DEF z
  <2>3. Len(z) > 0
    BY <2>1, <2>2
  <2>4. QED
    BY <2>2, <2>3 DEF z
<1>8. PICK x \in Seq(Bytes) : x = unstuff(a) /\ Whole(x)
  BY UnstuffLines DEF Unstuffs
<1>9. unstuff(a \o g) = x \o y
  <2>1. unstuff(a \o g) = unstuff(a) \o unstuff(g)
    BY UnstuffConcat
  <2>2. QED
    BY <1>6, <1>7, <1>8, <2>1
<1>10. Len(x) = 0 \/ y[1] \notin Cont
  <2>1. CASE Len(a) = 0
    <3>1. a = <<>> /\ Len(<<>>) = 0
      BY <2>1
    <3>2. QED
      BY <1>8, <3>1, UnstuffEmpty
  <2>2. CASE Unstuffed(l)[1] \notin Cont
    BY <1>4, <1>7, <2>2
  <2>3. QED
    BY <2>1, <2>2
<1>11. Unfold(x \o y, Cont) = Unfold(x, Cont) \o <<y>>
  <2>1. \A i \in 2..Len(y) : LineBegins(y, i) => y[i] \in Cont
    BY <1>6, <1>7 DEF Continued
  <2>2. QED
    BY <1>7, <1>8, <1>10, <2>1, UnfoldBehind
<1>12. Unfold(x, Cont) \in Seq(Seq(Bytes)) /\ <<y>> \in Seq(Seq(Bytes))
  BY UnfoldType
<1>13. NamesIn(Unfold(x, Cont) \o <<y>>) = NamesIn(Unfold(x, Cont)) \o NamesIn(<<y>>)
  BY <1>12, NamesConcat
<1>14. SentNames(g) = NamesIn(<<y>>)
  BY <1>1, <1>6, <1>7, GroupAgrees
<1>15. SentNames(a) = NamesIn(Unfold(x, Cont))
  BY <1>8 DEF Agrees, HeaderLines, Cont
<1>16. SentNames(a \o g) = NamesIn(Unfold(unstuff(a \o g), Cont))
  BY <1>3, <1>9, <1>11, <1>13, <1>14, <1>15
<1>17. QED
  BY <1>1, <1>16 DEF Agrees, HeaderLines, Cont

\* A block and its last header.
Ends(b, a, l, f) ==
  /\ b = a \o (l \o f) /\ a \in Seq(Bytes) /\ Whole(a) /\ Agrees(a) /\ Group(l, f)
  /\ Len(a) = 0 \/ Unstuffed(l)[1] \notin Cont
Grouped(b) == b = <<>> \/ \E a, l, f : Ends(b, a, l, f)

LEMMA AgreesEmpty == Agrees(<<>>)
<1>1. NamesAt(<<>>) = <<>>
  BY DEF NamesAt
<1>2. SentNames(<<>>) = <<>>
  BY <1>1, PickedEmpty DEF SentNames
<1>3. HeaderLines(<<>>) = <<>>
  <2>1. Unfold(<<>>, {SP, VT}) = Picked(<<>>, {i \in DOMAIN <<>> : HeaderBegins(<<>>, i, {SP, VT})})
    BY DEF Unfold
  <2>2. QED
    BY <2>1, PickedEmpty DEF HeaderLines
<1>4. QED
  BY <1>2, <1>3, UnstuffEmpty, NamesEmpty DEF Agrees

LEMMA GroupedAgrees ==
  ASSUME NEW b \in Seq(Bytes), Grouped(b)
  PROVE  Agrees(b)
<1>1. CASE b = <<>>
  BY <1>1, AgreesEmpty
<1>2. CASE \E a, l, f : Ends(b, a, l, f)
  <2>1. PICK a, l, f : Ends(b, a, l, f)
    BY <1>2
  <2>2. QED
    BY <2>1, AgreesStep DEF Ends
<1>3. QED
  BY <1>1, <1>2 DEF Grouped

LEMMA TailsAdd ==
  ASSUME NEW f \in Seq(Bytes), Tails(f), NEW l \in Seq(Bytes), IsLine(l), Unstuffed(l)[1] \in Cont
  PROVE  Tails(f \o l)
<1> DEFINE s == f \o l
           m == Len(f)
<1>1. Len(s) = m + Len(l) /\ m \in Nat /\ Len(l) \in Nat /\ Len(l) > 0 /\ Whole(f) /\ Whole(l)
  BY ConcatAt DEF IsLine, Tails, Whole
<1>2. \A i \in 1..m : LineAt(s, i) = LineAt(f, i) /\ (LineBegins(s, i) <=> LineBegins(f, i))
  BY <1>1, LineConcatLeft, BeginsConcat
<1>3. LineAt(s, m + 1) = l
  <2>1. 1 \in 1..Len(l)
    BY <1>1
  <2>2. LineAt(s, m + 1) = LineAt(l, 1)
    BY <2>1, LineConcatRight
  <2>3. QED
    BY <2>2, LineOfLine
<1>4. \A k \in 2..Len(l) : ~LineBegins(s, m + k)
  BY LineOfLine, BeginsConcat
<1>5. Whole(s)
  BY <1>1, WholeConcat
<1> HIDE DEF s, m
<1>6. SUFFICES ASSUME NEW i \in 1..Len(s), LineBegins(s, i) PROVE Unstuffed(LineAt(s, i))[1] \in Cont
  BY <1>5 DEF Tails, s
<1>7. CASE i \in 1..m
  BY <1>2, <1>6, <1>7 DEF Tails, m
<1>8. CASE i \notin 1..m
  <2>1. PICK k : k = i - m
    OBVIOUS
  <2>2. k \in 1..Len(l) /\ i = m + k
    BY <1>1, <1>8, <2>1
  <2>3. k \notin 2..Len(l)
    BY <1>4, <1>6, <2>2
  <2>4. i = m + 1
    BY <1>1, <2>2, <2>3
  <2>5. QED
    BY <1>3, <2>4
<1>9. QED
  BY <1>7, <1>8

LEMMA GroupedStep ==
  ASSUME NEW b \in Seq(Bytes), Whole(b), Grouped(b), NEW l \in Seq(Bytes), IsLine(l)
  PROVE  Grouped(b \o l)
<1>1. Agrees(b)
  BY GroupedAgrees
<1>2. CASE Len(b) = 0 \/ Unstuffed(l)[1] \notin Cont
  <2>1. Group(l, <<>>)
    <3>1. Len(<<>>) = 0 /\ <<>> \in Seq(Bytes)
      OBVIOUS
    <3>2. Tails(<<>>)
      BY <3>1 DEF Tails, Whole
    <3>3. QED
      BY <3>1, <3>2 DEF Group
  <2>2. b \o l = b \o (l \o <<>>)
    OBVIOUS
  <2>3. Ends(b \o l, b, l, <<>>)
    BY <1>1, <1>2, <2>1, <2>2 DEF Ends
  <2>4. QED
    BY <2>3 DEF Grouped
<1>3. CASE Len(b) # 0 /\ Unstuffed(l)[1] \in Cont
  <2>1. b # <<>>
    BY <1>3
  <2>2. PICK a, k, f : Ends(b, a, k, f)
    BY <2>1 DEF Grouped
  <2>3. /\ a \in Seq(Bytes) /\ k \in Seq(Bytes) /\ f \in Seq(Bytes) /\ Tails(f) /\ IsLine(k)
        /\ b = a \o (k \o f)
    BY <2>2 DEF Ends, Group
  <2>4. Group(k, f \o l)
    <3>1. Tails(f \o l) /\ f \o l \in Seq(Bytes)
      BY <1>3, <2>3, TailsAdd, ConcatAt
    <3>2. QED
      BY <2>3, <3>1 DEF Group
  <2>5. b \o l = a \o (k \o (f \o l))
    <3>1. PICK x \in Seq(Bytes) : x = k \o f
      BY <2>3, ConcatAt
    <3>2. AssocAt(a, x, l) /\ AssocAt(k, f, l)
      BY <2>3, Assoc
    <3>3. QED
      BY <2>3, <3>1, <3>2 DEF AssocAt
  <2>6. Ends(b \o l, a, k, f \o l)
    BY <2>2, <2>4, <2>5 DEF Ends
  <2>7. QED
    BY <2>6 DEF Grouped
<1>4. QED
  BY <1>2, <1>3

\* Every block of whole lines, header by header: the API is shown the names on
\* the lines that begin a header, in order and once (parse_headers).
LEMMA AllAgree ==
  ASSUME NEW b \in Seq(Bytes), Whole(b)
  PROVE  Agrees(b)
<1> DEFINE T == {t \in Seq(Bytes) : Grouped(t)}
<1>1. <<>> \in T
  <2>1. <<>> \in Seq(Bytes) /\ Grouped(<<>>)
    BY DEF Grouped
  <2>2. QED
    BY <2>1
<1>2. ASSUME NEW a \in Seq(Bytes), NEW l \in Seq(Bytes), a \in T, Whole(a), IsLine(l)
      PROVE  a \o l \in T
  <2>1. Grouped(a \o l) /\ a \o l \in Seq(Bytes)
    BY <1>2, GroupedStep, ConcatAt
  <2>2. QED
    BY <2>1
<1> HIDE DEF T
<1>3. \A t \in Seq(Bytes) : Whole(t) => t \in T
  BY <1>1, <1>2, LineInduction
<1>4. Grouped(b)
  BY <1>3 DEF T
<1>5. QED
  BY <1>4, GroupedAgrees

\* The names of parsed headers are the names on the lines they come from.
LEMMA ShownIs ==
  ASSUME NEW b \in Seq(Bytes), NEW names,
         names = [i \in DOMAIN parse_headers(b) |-> parse_headers(b)[i].name]
  PROVE  Picked(names, {i \in DOMAIN names : ~Contains(names[i], LF)}) = NamesIn(HeaderLines(b))
<1>1. PICK ls \in Seq(Seq(Bytes)) : ls = HeaderLines(b)
  BY UnfoldType DEF HeaderLines
<1> DEFINE lines == [i \in DOMAIN ls |-> trim_end_breaks(ls[i])]
           good == Picked(lines, {i \in DOMAIN lines : parses(lines[i])})
<1>2. lines = Mapped(ls, Trim) /\ lines \in Seq(Seq(Bytes))
  <2>1. \A i \in DOMAIN ls : Trim[ls[i]] = trim_end_breaks(ls[i])
    <3>1. \A i \in DOMAIN ls : ls[i] \in Seq(Bytes)
      OBVIOUS
    <3>2. QED
      BY <3>1, TrimLabel
  <2>2. lines = Mapped(ls, Trim)
    BY <2>1 DEF Mapped
  <2>3. PICK S : S = Seq(Bytes)
    OBVIOUS
  <2>4. Mapped(ls, Trim) \in Seq(S)
    BY <2>3, TrimLabel, MappedConcat
  <2>5. QED
    BY <2>2, <2>3, <2>4
<1>3. parse_headers(b) = [i \in DOMAIN good |-> Parsed(good[i])]
  BY <1>1 DEF parse_headers
<1> HIDE DEF lines
<1>4. good = Those(lines, Good) /\ good \in Seq(Seq(Bytes))
  <2>1. \A i \in DOMAIN lines : parses(lines[i]) <=> lines[i] \in Good
    <3>1. \A i \in DOMAIN lines : lines[i] \in Seq(Bytes)
      BY <1>2
    <3>2. QED
      BY <3>1 DEF Good
  <2>2. {i \in DOMAIN lines : parses(lines[i])} = {i \in DOMAIN lines : lines[i] \in Good}
    BY <2>1
  <2>3. good = Those(lines, Good)
    BY <2>2 DEF Those
  <2>4. PICK S : S = Seq(Bytes)
    OBVIOUS
  <2>5. lines \in Seq(S)
    BY <1>2, <2>4
  <2>6. Those(lines, Good) \in Seq(S)
    BY <2>5, ThoseConcat
  <2>7. QED
    BY <2>3, <2>4, <2>6
<1> HIDE DEF good
<1>5. names = Mapped(good, Label)
  <2>1. \A i \in DOMAIN good : good[i] \in Seq(Bytes)
    BY <1>4
  <2>2. \A i \in DOMAIN good : Parsed(good[i]).name = Label[good[i]]
    BY <2>1, TrimLabel DEF Parsed, NameOf
  <2>3. PICK hs : hs = parse_headers(b)
    OBVIOUS
  <2>4. names = [i \in DOMAIN hs |-> hs[i].name]
    BY <2>3
  <2>5. DOMAIN hs = DOMAIN good /\ \A i \in DOMAIN good : hs[i] = Parsed(good[i])
    BY <1>3, <2>3
  <2>6. QED
    BY <2>2, <2>4, <2>5 DEF Mapped
<1>6. \A i \in DOMAIN names : ~Contains(names[i], LF) <=> names[i] \in Unbroken
  <2>1. PICK S : S = Seq(Bytes)
    OBVIOUS
  <2>2. good \in Seq(S)
    BY <1>4, <2>1
  <2>3. Mapped(good, Label) \in Seq(S)
    BY <2>1, <2>2, TrimLabel, MappedConcat
  <2>4. \A i \in DOMAIN names : names[i] \in Seq(Bytes)
    BY <1>5, <2>1, <2>3
  <2>5. QED
    BY <2>4 DEF Contains, Unbroken
<1>7. {i \in DOMAIN names : ~Contains(names[i], LF)} = {i \in DOMAIN names : names[i] \in Unbroken}
  BY <1>6
<1>8. NamesIn(ls) = Those(names, Unbroken)
  BY <1>2, <1>4, <1>5 DEF NamesIn, Kept_
<1>9. QED
  BY <1>1, <1>7, <1>8 DEF Those

\* The block of header lines the client sends.
Block == SubSeq(Text, 1, FirstBlank(Text) - 1)

LEMMA BlockType ==
  ASSUME input \in Seq(Bytes)
  PROVE  /\ Block \in Seq(Bytes) /\ HeaderSent = unstuff(Block)
         /\ Terminated \/ FirstBlank(Text) <= Len(Text) => Whole(Block)
<1>1. PICK t \in Seq(Bytes) : t = Text /\ (Terminated => Whole(t))
  BY TextIs
<1>2. PICK k : k = FirstBlank(t)
  OBVIOUS
<1>3. k \in 1..Len(t) + 1 /\ Len(t) \in Nat /\ (k <= Len(t) => BlankAt(t, k))
  <2>1. BlankFirstAt(t, k)
    BY <1>2, FirstBlankIs
  <2>2. QED
    BY <2>1 DEF BlankFirstAt
<1>4. PICK b : b = SubSeq(t, 1, k - 1)
  OBVIOUS
<1>5. b \in Seq(Bytes) /\ Len(b) = k - 1 /\ \A i \in 1..k - 1 : b[i] = t[i]
  <2>1. k - 1 \in 0..Len(t)
    BY <1>3
  <2>2. QED
    BY <1>4, <2>1, PrefixAt
<1>6. Block = b /\ HeaderSent = unstuff(b)
  BY <1>1, <1>2, <1>4 DEF Block, HeaderSent
<1>7. ASSUME k <= Len(t) PROVE Whole(b)
  <2>1. k = 1 \/ t[k - 1] = LF
    BY <1>3, <1>7 DEF BlankAt, LineBegins
  <2>2. CASE k = 1
    BY <1>5, <2>2 DEF Whole
  <2>3. CASE k # 1 /\ t[k - 1] = LF
    <3>1. k - 1 \in 1..k - 1
      BY <1>3, <2>3
    <3>2. QED
      BY <1>5, <2>3, <3>1 DEF Whole
  <2>4. QED
    BY <2>1, <2>2, <2>3
<1>8. ASSUME Terminated, ~(k <= Len(t)) PROVE Whole(b)
  <2>1. k - 1 = Len(t)
    BY <1>3, <1>8
  <2>2. Len(t) = 0 \/ t[Len(t)] = LF
    BY <1>1, <1>8 DEF Whole
  <2>3. Len(t) # 0 => Len(t) \in 1..k - 1
    BY <1>3, <2>1
  <2>4. QED
    BY <1>5, <2>1, <2>2, <2>3 DEF Whole
<1>9. QED
  BY <1>1, <1>2, <1>5, <1>6, <1>7, <1>8

\* The header block is over when the handler is asked, even if nothing that comes
\* behind it says so.
LEMMA BlockOver ==
  ASSUME Typed, Stops, Bodies, phase = "open_body"
  PROVE  Whole(Block)
<1>1. input \in Seq(Bytes) /\ Len(input) \in Nat /\ Consumed \in Nat
  BY Places
<1>2. CASE Terminated \/ FirstBlank(Text) <= Len(Text)
  BY <1>1, <1>2, BlockType
<1>3. CASE ~(Terminated \/ FirstBlank(Text) <= Len(Text))
  <2>1. body_follows = TRUE
    <3>1. ~Ended
      BY <1>3 DEF Stops
    <3>2. body_follows \in BOOLEAN
      BY DEF Typed, TypeOK
    <3>3. QED
      BY <3>1, <3>2 DEF Ended
  <2>2. LineBegins(input, Consumed + 1) /\ Consumed = BodyStart
    BY <2>1 DEF Stops, Bodies
  <2>3. Text \in Seq(Bytes) /\ Len(Text) = FirstTerminator(input) - 1
    BY <1>1, TextIs
  <2>4. FirstTerminator(input) = Len(input) + 1
    <3>1. FirstTerminator(input) \in 1..Len(input) + 1
      BY <1>1, TextIs DEF FirstAt
    <3>2. QED
      BY <1>1, <1>3, <3>1 DEF Terminated
  <2>5. Text = input
    <3>1. Text = SubSeq(input, 1, Len(input))
      BY <1>1, <2>4 DEF Text
    <3>2. QED
      BY <1>1, <3>1
  <2>6. FirstBlank(input) = Len(input) + 1
    <3>1. FirstBlank(input) \in 1..Len(input) + 1
      BY <1>1, FirstBlankIs DEF BlankFirstAt
    <3>2. QED
      BY <1>1, <1>3, <2>5, <3>1
  <2>7. Consumed = Len(input)
    BY <1>1, <2>2, <2>5, <2>6, LineEndPast DEF BodyStart
  <2>8. Block = input
    <3>1. Block = SubSeq(input, 1, Len(input))
      BY <1>1, <2>5, <2>6 DEF Block
    <3>2. QED
      BY <1>1, <3>1
  <2>9. QED
    BY <1>1, <2>2, <2>7, <2>8 DEF LineBegins, Whole
<1>4. QED
  BY <1>2, <1>3

\* While the body is read the header block is known to have ended.
BlockEnded == phase = "body" => Whole(Block)

LEMMA BlockStays ==
  ASSUME input' = input
  PROVE  Whole(Block)' = Whole(Block)
BY DEF Block, Text

LEMMA BlockEndedNext ==
  ASSUME Typed, Stops, Bodies, BlockEnded, [Next]_vars
  PROVE  BlockEnded'
<1>1. SUFFICES ASSUME phase' = "body" PROVE Whole(Block)'
  BY DEF BlockEnded
<1>2. CASE phase \in {"open_body", "body"} /\ input' = input
  <2>1. Whole(Block)
    BY <1>2, BlockOver DEF BlockEnded
  <2>2. QED
    BY <1>2, <2>1, BlockStays
<1>3. CASE Read
  BY <1>1, <1>2, <1>3 DEF Read
<1>4. CASE Eof
  BY <1>1, <1>4 DEF Eof
<1>5. CASE HeaderLine
  <2>1. HeaderLineCases(FirstLine(buf), Unstuffed(FirstLine(buf)))
    BY <1>5, HeaderLineIs
  <2>2. phase = "header" /\ (phase' \in {"open_body", "discard"} \/ phase' = phase)
    BY <2>1, Zenon DEF HeaderLineCases
  <2>3. QED
    BY <1>1, <2>2
<1>6. CASE HeaderTooLong
  BY <1>1, <1>6 DEF HeaderTooLong, Drain
<1>7. CASE OpenBody
  BY <1>2, <1>7 DEF OpenBody, readVars
<1>8. CASE BodyLine
  BY <1>2, <1>8 DEF BodyLine
<1>9. CASE BodyTooLong
  BY <1>2, <1>9 DEF BodyTooLong
<1>10. CASE Finish
  <2>1. FinishCases
    BY <1>10, FinishIs
  <2>2. phase' \in {"done", "closed"}
    BY <2>1, Zenon DEF FinishCases
  <2>3. QED
    BY <1>1, <2>2
<1>11. CASE DiscardLine
  <2>1. DiscardLineCases(FirstLine(buf))
    BY <1>11, DiscardLineIs
  <2>2. phase = "discard" /\ (phase' = "done" \/ phase' = phase)
    BY <2>1, Zenon DEF DiscardLineCases
  <2>3. QED
    BY <1>1, <2>2
<1>12. CASE DiscardTooLong
  BY <1>1, <1>12 DEF DiscardTooLong
<1>13. CASE UNCHANGED vars
  BY <1>1, <1>2, <1>13 DEF vars, readVars
<1>14. QED
  BY <1>3, <1>4, <1>5, <1>6, <1>7, <1>8, <1>9, <1>10, <1>11, <1>12, <1>13 DEF Next

LEMMA NamesThere == Typed /\ Stops /\ Bodies /\ BlockEnded => EveryHeaderShown
<1> DEFINE names == [i \in DOMAIN asked |-> asked[i].name]
<1>1. SUFFICES ASSUME Typed, Stops, Bodies, BlockEnded, phase \in {"body", "finish"}
               PROVE  Picked(names, {i \in DOMAIN names : ~Contains(names[i], LF)}) = SentNames(Block)
  <2>1. SentNames(Block)
          = LET block == SubSeq(Text, 1, FirstBlank(Text) - 1)
                line(k) == trim_end_breaks(Unstuffed(LineAt(block, k)))
                folds(k) == k \in 2..Len(block) /\ Unstuffed(LineAt(block, k))[1] \in {SP, VT}
                heads(k) == /\ LineBegins(block, k) /\ ~folds(k) /\ FirstColon(line(k)) > 1
                            /\ \/ FirstColon(line(k)) < Len(line(k))
                               \/ folds(LineEnd(block, k) + 1)
                name(k) == SubSeq(line(k), 1, FirstColon(line(k)) - 1)
            IN  Picked([k \in DOMAIN block |-> name(k)], {k \in DOMAIN block : heads(k)})
    BY Zenon DEF SentNames, NamesAt, HeadsAt, HeadAt, FoldAt, LineOf, NameOf, Cont, Block
  <2>2. QED
    BY <2>1, Zenon DEF EveryHeaderShown
<1>2. input \in Seq(Bytes)
  BY <1>1, Places
<1>3. Whole(Block)
  <2>1. CASE phase = "body"
    BY <1>1, <2>1 DEF BlockEnded
  <2>2. CASE phase = "finish"
    <3>1. Terminated
      BY <1>1, <2>2 DEF Stops, Ended
    <3>2. QED
      BY <1>2, <3>1, BlockType
  <2>3. QED
    BY <1>1, <2>1, <2>2
<1>4. PICK b \in Seq(Bytes) : b = Block /\ HeaderSent = unstuff(b) /\ Whole(b)
  BY <1>2, <1>3, BlockType
<1>5. asked = parse_headers(unstuff(b))
  BY <1>1, <1>4 DEF Bodies, Judged
<1>6. PICK x \in Seq(Bytes) : x = unstuff(b)
  BY UnstuffType
<1>7. PICK ns : ns = [i \in DOMAIN parse_headers(x) |-> parse_headers(x)[i].name]
  OBVIOUS
<1>8. Picked(ns, {i \in DOMAIN ns : ~Contains(ns[i], LF)}) = NamesIn(HeaderLines(x))
  BY <1>7, ShownIs
<1>9. names = ns
  BY <1>5, <1>6, <1>7
<1>10. SentNames(b) = NamesIn(HeaderLines(unstuff(b)))
  BY <1>4, AllAgree DEF Agrees
<1> HIDE DEF names
<1>11. QED
  BY <1>4, <1>6, <1>8, <1>9, <1>10

\* The API is shown every header line of the client's under its own name, in order
\* and once, for every input and however it is cut into reads (push_line,
\* parse_headers).
THEOREM HeadersShown == Spec => []EveryHeaderShown
<1>1. Init => Typed /\ Stops /\ Heads /\ Bodies /\ BlockEnded
  <2>1. Init => BlockEnded
    BY DEF Init, BlockEnded
  <2>2. QED
    BY <2>1, TypedInit, StopsInit, HeadsInit, BodiesInit
<1>2. Typed /\ Stops /\ Heads /\ Bodies /\ BlockEnded /\ [Next]_vars
        => Typed' /\ Stops' /\ Heads' /\ Bodies' /\ BlockEnded'
  BY TypedNext, StopsNext, HeadsNext, BodiesNext, BlockEndedNext
<1>3. QED
  BY <1>1, <1>2, NamesThere, PTL DEF Spec
=============================================================================
