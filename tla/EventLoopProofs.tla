-------------------------- MODULE EventLoopProofs --------------------------
(***************************************************************************)
(* Proofs about EventLoop.  The first sections reason about Kept, a        *)
(* recursive function: the library's induction theorem is stated for an    *)
(* operator, so that what is needed of it is derived here from a           *)
(* well-founded relation, for sets.  Then: the calls are accounted for,    *)
(* run_until_idle returns when nothing is left to do, and the one task     *)
(* that awaits everything never sleeps on work.                            *)
(***************************************************************************)
EXTENDS EventLoop, SequenceTheorems, WellFoundedInduction, TLAPS

-----------------------------------------------------------------------------
(* Induction over the natural numbers, on sets. *)

Less == {p \in Nat \X Nat : p[1] < p[2]}
LEMMA LessIsWellFounded == IsWellFoundedOn(Less, Nat)
BY NatLessThanWellFounded DEF OpToRel, Less

LEMMA NatSets ==
    ASSUME NEW P, 0 \in P, \A n \in Nat : n \in P => n + 1 \in P
    PROVE  \A n \in Nat : n \in P
<1> SUFFICES ASSUME Nat \ P # {}
             PROVE  FALSE
  OBVIOUS
<1>1. PICK m \in Nat \ P : \A y \in Nat \ P : ~(<<y, m>> \in Less)
  BY LessIsWellFounded, WFMin
<1>2. m # 0 /\ m - 1 \in Nat /\ m - 1 < m /\ (m - 1) + 1 = m
  BY <1>1
<1>3. <<m - 1, m>> \in Less
  BY <1>1, <1>2 DEF Less
<1>4. m - 1 \in P
  BY <1>1, <1>2, <1>3
<1> QED
  BY <1>1, <1>2, <1>4

\* g filters the first n entries of s.
Filters(g, s, S, n) ==
    /\ g[0] = <<>>
    /\ \A k \in 1..n : g[k] = IF s[k] \in S THEN Append(g[k - 1], s[k]) ELSE g[k - 1]

LEMMA FilterExists ==
    ASSUME NEW s, NEW S, NEW n \in Nat
    PROVE  \E g : g = [k \in 0..n |-> g[k]] /\ Filters(g, s, S, n)
<1> DEFINE P == {m \in Nat : \E g : g = [k \in 0..m |-> g[k]] /\ Filters(g, s, S, m)}
<1>1. 0 \in P
  <2> DEFINE g == [k \in 0..0 |-> <<>>]
  <2>1. g = [k \in 0..0 |-> g[k]] /\ Filters(g, s, S, 0)
    BY DEF Filters
  <2> QED
    BY <2>1
<1>2. ASSUME NEW m \in Nat, m \in P
      PROVE  m + 1 \in P
  <2>1. PICK g : g = [k \in 0..m |-> g[k]] /\ Filters(g, s, S, m)
    BY <1>2
  <2> DEFINE last == IF s[m + 1] \in S THEN Append(g[m], s[m + 1]) ELSE g[m]
             h == [k \in 0..(m + 1) |-> IF k = m + 1 THEN last ELSE g[k]]
  <2>2. h = [k \in 0..(m + 1) |-> h[k]]
    OBVIOUS
  <2>3. h[m + 1] = last /\ \A k \in 0..m : h[k] = g[k]
    OBVIOUS
  <2> HIDE DEF h
  <2>4. h[0] = <<>>
    BY <2>1, <2>3 DEF Filters
  <2>5. ASSUME NEW k \in 1..(m + 1)
        PROVE  h[k] = IF s[k] \in S THEN Append(h[k - 1], s[k]) ELSE h[k - 1]
    <3>1. k - 1 \in 0..m
      OBVIOUS
    <3>2. h[k - 1] = g[k - 1]
      BY <3>1, <2>3
    <3>3. CASE k = m + 1
      <4>1. h[k] = last /\ k - 1 = m
        BY <3>3, <2>3
      <4> QED
        BY <3>2, <3>3, <4>1
    <3>4. CASE k # m + 1
      <4>1. k \in 1..m /\ k \in 0..m
        BY <3>4
      <4> QED
        BY <2>1, <2>3, <3>2, <4>1 DEF Filters
    <3> QED
      BY <3>3, <3>4
  <2>6. Filters(h, s, S, m + 1)
    BY <2>4, <2>5 DEF Filters
  <2> QED
    BY <2>2, <2>6
<1> HIDE DEF P
<1>3. n \in P
  BY <1>1, <1>2, NatSets
<1> QED
  BY <1>3 DEF P

LEMMA KeptIs ==
    ASSUME NEW s, NEW S, Len(s) \in Nat
    PROVE  \E g : Filters(g, s, S, Len(s)) /\ Kept(s, S) = g[Len(s)]
<1> DEFINE Is(f) == f = [n \in 0..Len(s) |-> IF n = 0 THEN <<>>
                                            ELSE IF s[n] \in S THEN Append(f[n - 1], s[n])
                                            ELSE f[n - 1]]
           g == CHOOSE f : Is(f)
<1>1. Kept(s, S) = g[Len(s)]
  BY DEF Kept
<1>2. PICK h : h = [k \in 0..Len(s) |-> h[k]] /\ Filters(h, s, S, Len(s))
  BY FilterExists
<1>3. Is(h)
  <2> DEFINE r == [n \in 0..Len(s) |-> IF n = 0 THEN <<>>
                                            ELSE IF s[n] \in S THEN Append(h[n - 1], s[n])
                                            ELSE h[n - 1]]
  <2>1. \A n \in 0..Len(s) : r[n] = h[n]
    BY <1>2 DEF Filters
  <2>2. r = [k \in 0..Len(s) |-> r[k]]
    OBVIOUS
  <2> HIDE DEF r
  <2>3. r = h
    BY <1>2, <2>1, <2>2
  <2> QED
    BY <2>3 DEF r
<1> HIDE DEF Is
<1>4. Is(g)
  BY <1>3
<1> HIDE DEF g
<1>5. Filters(g, s, S, Len(s))
  <2> DEFINE r == [n \in 0..Len(s) |-> IF n = 0 THEN <<>>
                                            ELSE IF s[n] \in S THEN Append(g[n - 1], s[n])
                                            ELSE g[n - 1]]
  <2>1. g = r
    BY <1>4 DEF Is
  <2>2. \A n \in 0..Len(s) : r[n] = IF n = 0 THEN <<>>
                                            ELSE IF s[n] \in S THEN Append(g[n - 1], s[n])
                                            ELSE g[n - 1]
    OBVIOUS
  <2> HIDE DEF r
  <2>3. g[0] = <<>>
    BY <2>1, <2>2
  <2>4. \A n \in 1..Len(s) : g[n] = IF s[n] \in S THEN Append(g[n - 1], s[n]) ELSE g[n - 1]
    BY <2>1, <2>2
  <2> QED
    BY <2>3, <2>4 DEF Filters
<1> QED
  BY <1>1, <1>5

-----------------------------------------------------------------------------
(* Sequences of calls. *)

Distinct(s) == \A i, j \in DOMAIN s : s[i] = s[j] => i = j

LEMMA SequenceOf ==
    ASSUME NEW A, NEW s \in Seq(A)
    PROVE  /\ Len(s) \in Nat /\ DOMAIN s = 1..Len(s)
           /\ \A i \in 1..Len(s) : s[i] \in A
           /\ Members(s) \subseteq A
           /\ Members(s) = {s[i] : i \in 1..Len(s)}
<1>1. /\ Len(s) \in Nat /\ DOMAIN s = 1..Len(s)
      /\ \A i \in 1..Len(s) : s[i] \in A
  BY LenProperties, ElementOfSeq
<1> QED
  BY <1>1 DEF Members

LEMMA EmptySequence == Members(<<>>) = {} /\ Distinct(<<>>)
<1>1. DOMAIN <<>> = {}
  BY SequenceOf, EmptySeq, LenProperties
<1> QED
  BY <1>1 DEF Members, Distinct

LEMMA NoMembers ==
    ASSUME NEW A, NEW s \in Seq(A)
    PROVE  Members(s) = {} <=> s = <<>>
<1>1. ASSUME s # <<>>
      PROVE  Members(s) # {}
  <2>1. Len(s) \in Nat /\ Len(s) # 0
    BY <1>1, EmptySeq, LenProperties
  <2>2. s[1] \in Members(s)
    BY <2>1, SequenceOf
  <2> QED
    BY <2>2
<1> QED
  BY <1>1, EmptySequence

LEMMA AppendedCall ==
    ASSUME NEW A, NEW s \in Seq(A), NEW a \in A
    PROVE  /\ Append(s, a) \in Seq(A)
           /\ Members(Append(s, a)) = Members(s) \cup {a}
           /\ Distinct(s) /\ a \notin Members(s) => Distinct(Append(s, a))
<1> DEFINE t == Append(s, a)
<1>1. /\ t \in Seq(A) /\ Len(t) = Len(s) + 1
      /\ \A i \in 1..Len(s) : t[i] = s[i]
      /\ t[Len(s) + 1] = a
  BY AppendProperties
<1>2. /\ Len(s) \in Nat /\ DOMAIN s = 1..Len(s) /\ DOMAIN t = 1..(Len(s) + 1)
      /\ Members(s) = {s[i] : i \in 1..Len(s)}
      /\ Members(t) = {t[i] : i \in 1..(Len(s) + 1)}
  BY <1>1, SequenceOf
<1> HIDE DEF t
<1>3. 1..(Len(s) + 1) = 1..Len(s) \cup {Len(s) + 1}
  BY <1>2
<1>4. Members(t) = Members(s) \cup {a}
  BY <1>1, <1>2, <1>3
<1>5. ASSUME Distinct(s), a \notin Members(s), NEW i \in DOMAIN t, NEW j \in DOMAIN t, t[i] = t[j]
      PROVE  i = j
  <2>1. \A k \in 1..Len(s) : t[k] \in Members(s)
    BY <1>1, <1>2
  <2>2. CASE i \in 1..Len(s) /\ j \in 1..Len(s)
    BY <1>1, <1>2, <1>5, <2>2 DEF Distinct
  <2>3. CASE i = Len(s) + 1 \/ j = Len(s) + 1
    BY <1>1, <1>2, <1>3, <1>5, <2>1, <2>3
  <2> QED
    BY <1>2, <1>3, <2>2, <2>3
<1>6. Distinct(s) /\ a \notin Members(s) => Distinct(t)
  BY <1>5 DEF Distinct
<1> QED
  BY <1>1, <1>4, <1>6 DEF t

LEMMA Concatenation ==
    ASSUME NEW A, NEW s \in Seq(A), NEW t \in Seq(A)
    PROVE  /\ s \o t \in Seq(A)
           /\ Members(s \o t) = Members(s) \cup Members(t)
           /\ Distinct(s \o t) <=>
                 Distinct(s) /\ Distinct(t) /\ Members(s) \cap Members(t) = {}
<1> DEFINE m == Len(s)
           n == Len(t)
           c == s \o t
<1>1. /\ c \in Seq(A) /\ Len(c) = m + n
      /\ \A i \in 1..(m + n) : c[i] = IF i <= m THEN s[i] ELSE t[i - m]
  BY ConcatProperties
<1>2. /\ m \in Nat /\ DOMAIN s = 1..m /\ n \in Nat /\ DOMAIN t = 1..n
      /\ DOMAIN c = 1..(m + n)
      /\ Members(s) = {s[i] : i \in 1..m}
      /\ Members(t) = {t[i] : i \in 1..n}
      /\ Members(c) = {c[i] : i \in 1..(m + n)}
  BY <1>1, SequenceOf
<1> HIDE DEF m, n, c
<1>3. \A i \in 1..m : i \in 1..(m + n) /\ c[i] = s[i]
  BY <1>1, <1>2
<1>4. \A i \in 1..n : m + i \in 1..(m + n) /\ c[m + i] = t[i]
  BY <1>1, <1>2
<1>5. \A i \in 1..(m + n) : i \in 1..m \/ \E k \in 1..n : i = m + k
  <2>1. \A i \in 1..(m + n) : i \in 1..m \/ (i - m \in 1..n /\ i = m + (i - m))
    BY <1>2
  <2> QED
    BY <2>1
<1>6. Members(c) = Members(s) \cup Members(t)
  <2>1. ASSUME NEW i \in 1..(m + n)
        PROVE  c[i] \in Members(s) \cup Members(t)
    <3>1. CASE i \in 1..m
      BY <3>1, <1>2, <1>3
    <3>2. CASE \E k \in 1..n : i = m + k
      BY <3>2, <1>2, <1>4
    <3> QED
      BY <3>1, <3>2, <1>5
  <2>2. Members(s) \subseteq Members(c)
    BY <1>2, <1>3
  <2>3. Members(t) \subseteq Members(c)
    BY <1>2, <1>4
  <2> QED
    BY <2>1, <2>2, <2>3, <1>2
<1>7. ASSUME Distinct(c)
      PROVE  Distinct(s) /\ Distinct(t) /\ Members(s) \cap Members(t) = {}
  <2>1. Distinct(s)
    BY <1>2, <1>3, <1>7 DEF Distinct
  <2>2. Distinct(t)
    <3>1. ASSUME NEW i \in 1..n, NEW j \in 1..n, t[i] = t[j]
          PROVE  i = j
      <4>1. m + i = m + j
        BY <1>2, <1>4, <1>7, <3>1 DEF Distinct
      <4> QED
        BY <4>1, <1>2
    <3> QED
      BY <3>1, <1>2 DEF Distinct
  <2>3. ASSUME NEW i \in 1..m, NEW j \in 1..n, s[i] = t[j]
        PROVE  FALSE
    <3>1. i = m + j
      BY <1>2, <1>3, <1>4, <1>7, <2>3 DEF Distinct
    <3> QED
      BY <3>1, <1>2
  <2> QED
    BY <2>1, <2>2, <2>3, <1>2
<1>8. ASSUME Distinct(s), Distinct(t), Members(s) \cap Members(t) = {}
      PROVE  Distinct(c)
  <2>1. ASSUME NEW i \in 1..(m + n), NEW j \in 1..(m + n), c[i] = c[j]
        PROVE  i = j
    <3>1. CASE i \in 1..m /\ j \in 1..m
      BY <3>1, <1>2, <1>3, <1>8, <2>1 DEF Distinct
    <3>2. CASE i \in 1..m /\ \E k \in 1..n : j = m + k
      <4>1. c[i] \in Members(s) /\ c[j] \in Members(t)
        BY <3>2, <1>2, <1>3, <1>4
      <4> QED
        BY <4>1, <1>8, <2>1
    <3>3. CASE j \in 1..m /\ \E k \in 1..n : i = m + k
      <4>1. c[j] \in Members(s) /\ c[i] \in Members(t)
        BY <3>3, <1>2, <1>3, <1>4
      <4> QED
        BY <4>1, <1>8, <2>1
    <3>4. CASE (\E k \in 1..n : i = m + k) /\ (\E k \in 1..n : j = m + k)
      <4>1. PICK k \in 1..n : i = m + k
        BY <3>4
      <4>2. PICK l \in 1..n : j = m + l
        BY <3>4
      <4>3. k = l
        BY <4>1, <4>2, <1>2, <1>4, <1>8, <2>1 DEF Distinct
      <4> QED
        BY <4>1, <4>2, <4>3
    <3> QED
      BY <3>1, <3>2, <3>3, <3>4, <1>5
  <2> QED
    BY <2>1, <1>2 DEF Distinct
<1> QED
  BY <1>1, <1>6, <1>7, <1>8 DEF c

LEMMA FirstCall ==
    ASSUME NEW A, NEW s \in Seq(A), s # <<>>
    PROVE  /\ Head(s) \in Members(s) /\ Tail(s) \in Seq(A)
           /\ Members(s) = Members(Tail(s)) \cup {Head(s)}
           /\ Distinct(s) => Distinct(Tail(s)) /\ Head(s) \notin Members(Tail(s))
<1> DEFINE t == Tail(s)
           n == Len(s)
<1>1. /\ t \in Seq(A) /\ Len(t) = n - 1
      /\ \A i \in 1..Len(t) : t[i] = s[i + 1]
  BY HeadTailProperties
<1>2. /\ n \in Nat /\ n # 0 /\ DOMAIN s = 1..n /\ DOMAIN t = 1..(n - 1)
      /\ Members(s) = {s[i] : i \in 1..n}
      /\ Members(t) = {t[i] : i \in 1..(n - 1)}
  BY <1>1, SequenceOf, EmptySeq, LenProperties
<1>3. Head(s) = s[1]
  <2>1. 1 \in 1..n /\ n \in 1..n
    BY <1>2
  <2>2. Head(SubSeq(s, 1, n)) = s[1]
    BY <2>1, HeadTailOfSubSeq
  <2> QED
    BY <2>2, SubSeqFull
<1> HIDE DEF t, n
<1>4. \A i \in 1..(n - 1) : i + 1 \in 1..n /\ i + 1 # 1 /\ t[i] = s[i + 1]
  BY <1>1, <1>2
<1>5. \A i \in 1..n : i = 1 \/ \E k \in 1..(n - 1) : i = k + 1
  <2>1. \A i \in 1..n : i = 1 \/ (i - 1 \in 1..(n - 1) /\ i = (i - 1) + 1)
    BY <1>2
  <2> QED
    BY <2>1
<1>6. 1 \in 1..n
  BY <1>2
<1>7. Members(s) = Members(t) \cup {s[1]}
  <2>1. ASSUME NEW i \in 1..n
        PROVE  s[i] \in Members(t) \cup {s[1]}
    <3>1. CASE i = 1
      BY <3>1
    <3>2. CASE \E k \in 1..(n - 1) : i = k + 1
      BY <3>2, <1>2, <1>4
    <3> QED
      BY <3>1, <3>2, <1>5
  <2>2. Members(t) \subseteq Members(s) /\ s[1] \in Members(s)
    BY <1>2, <1>4, <1>6
  <2> QED
    BY <2>1, <2>2, <1>2
<1>8. ASSUME Distinct(s)
      PROVE  Distinct(t) /\ s[1] \notin Members(t)
  <2>1. ASSUME NEW i \in 1..(n - 1), NEW j \in 1..(n - 1), t[i] = t[j]
        PROVE  i = j
    <3>1. i + 1 = j + 1
      BY <1>2, <1>4, <1>8, <2>1 DEF Distinct
    <3> QED
      BY <3>1
  <2>2. ASSUME NEW i \in 1..(n - 1), t[i] = s[1]
        PROVE  FALSE
    BY <1>2, <1>4, <1>6, <1>8, <2>2 DEF Distinct
  <2> QED
    BY <2>1, <2>2, <1>2 DEF Distinct
<1> QED
  BY <1>1, <1>3, <1>7, <1>8 DEF t

\* The calls before one of them and those from it on.
LEMMA Parted ==
    ASSUME NEW A, NEW s \in Seq(A), NEW i \in DOMAIN s
    PROVE  LET before == SubSeq(s, 1, i - 1)
               rest   == SubSeq(s, i, Len(s))
           IN  /\ before \in Seq(A) /\ rest \in Seq(A)
               /\ Members(s) = Members(before) \cup Members(rest)
               /\ Distinct(s) => /\ Distinct(before) /\ Distinct(rest)
                                 /\ Members(before) \cap Members(rest) = {}
<1> DEFINE before == SubSeq(s, 1, i - 1)
           rest   == SubSeq(s, i, Len(s))
<1>1. Len(s) \in Nat /\ i \in 1..Len(s) /\ \A k \in 1..Len(s) : s[k] \in A
  BY SequenceOf
<1>2. before \in Seq(A)
  <2>1. \A k \in 1..(i - 1) : s[k] \in A
    BY <1>1
  <2> QED
    BY <1>1, <2>1, SubSeqProperties
<1>3. rest \in Seq(A)
  <2>1. \A k \in i..Len(s) : s[k] \in A
    BY <1>1
  <2> QED
    BY <1>1, <2>1, SubSeqProperties
<1>4. s = before \o rest
  <2>1. /\ 1 \in 1..(Len(s) + 1) /\ i - 1 \in (1 - 1)..Len(s)
        /\ Len(s) \in (i - 1)..Len(s) /\ (i - 1) + 1 = i
    BY <1>1
  <2>2. SubSeq(s, 1, Len(s)) = s
    BY SubSeqFull
  <2> QED
    <3>1. SubSeq(s, 1, i - 1) \o SubSeq(s, (i - 1) + 1, Len(s)) = SubSeq(s, 1, Len(s))
      BY <2>1, ConcatAdjacentSubSeq
    <3> QED
      BY <2>1, <2>2, <3>1
<1> HIDE DEF before, rest
<1>5. /\ Members(s) = Members(before) \cup Members(rest)
      /\ Distinct(s) => /\ Distinct(before) /\ Distinct(rest)
                        /\ Members(before) \cap Members(rest) = {}
  BY <1>2, <1>3, <1>4, Concatenation
<1> QED
  BY <1>2, <1>3, <1>5 DEF before, rest

LEMMA KeptCalls ==
    ASSUME NEW A, NEW s \in Seq(A), NEW S
    PROVE  /\ Kept(s, S) \in Seq(A)
           /\ Members(Kept(s, S)) = Members(s) \cap S
           /\ Distinct(s) => Distinct(Kept(s, S))
<1>1. /\ Len(s) \in Nat /\ DOMAIN s = 1..Len(s)
      /\ \A i \in 1..Len(s) : s[i] \in A
      /\ Members(s) = {s[i] : i \in 1..Len(s)}
  BY SequenceOf
<1>2. PICK g : Filters(g, s, S, Len(s)) /\ Kept(s, S) = g[Len(s)]
  BY <1>1, KeptIs
<1> DEFINE First(n) == {s[i] : i \in 1..n}
           Good(n) == /\ g[n] \in Seq(A)
                      /\ Members(g[n]) = First(n) \cap S
                      /\ Distinct(s) => Distinct(g[n])
           P == {n \in Nat : n <= Len(s) => Good(n)}
<1>3. 0 \in P
  <2>1. g[0] = <<>> /\ First(0) = {}
    BY <1>2 DEF Filters
  <2> HIDE DEF First
  <2>2. Good(0)
    BY <2>1, EmptySequence
  <2> QED
    BY <2>2
<1>4. ASSUME NEW n \in Nat, n \in P
      PROVE  n + 1 \in P
  <2> SUFFICES ASSUME n + 1 <= Len(s)
               PROVE  Good(n + 1)
    OBVIOUS
  <2>1. Good(n)
    BY <1>1, <1>4
  <2>2. n + 1 \in 1..Len(s) /\ (n + 1) - 1 = n
    BY <1>1
  <2>3. g[n + 1] = IF s[n + 1] \in S THEN Append(g[n], s[n + 1]) ELSE g[n]
    BY <1>2, <2>2 DEF Filters
  <2>4. First(n + 1) = First(n) \cup {s[n + 1]}
    <3>1. 1..(n + 1) = 1..n \cup {n + 1}
      OBVIOUS
    <3> QED
      BY <3>1
  <2>5. s[n + 1] \in A
    BY <1>1, <2>2
  <2>6. Distinct(s) => s[n + 1] \notin First(n)
    <3>1. \A i \in 1..n : i \in 1..Len(s) /\ i # n + 1
      BY <1>1, <2>2
    <3> QED
      BY <1>1, <2>2, <3>1 DEF Distinct
  <2> HIDE DEF First
  <2>7. CASE s[n + 1] \in S
    BY <2>1, <2>3, <2>4, <2>5, <2>6, <2>7, AppendedCall
  <2>8. CASE s[n + 1] \notin S
    BY <2>1, <2>3, <2>4, <2>8
  <2> QED
    BY <2>7, <2>8
<1> HIDE DEF P
<1>5. Len(s) \in P
  BY <1>1, <1>3, <1>4, NatSets
<1>6. Good(Len(s)) /\ First(Len(s)) = Members(s)
  BY <1>1, <1>5 DEF P
<1> HIDE DEF First
<1> QED
  BY <1>2, <1>6

-----------------------------------------------------------------------------
(* The invariant of the calls.  A function that has not been called has all  *)
(* its calls still to make; the rest says where the calls are by sets        *)
(* instead of by positions in a concatenation.                               *)

Phases == {"new", "parked", "called", "queued", "returned", "lost"}

GuestTypes ==
    /\ phase \in [Awaits -> Phases]
    /\ left \in [Awaits -> Nat]
    /\ jobs \in Seq(Awaits) /\ inFlight \in Seq(Awaits) /\ settled \in Seq(Awaits)
    /\ running \subseteq Awaits
    /\ waker \in [Awaits -> SUBSET Tasks]

TaskTypes ==
    /\ begun \subseteq Waiters \ FromPoll
    /\ due \subseteq begun /\ polling \subseteq begun /\ stepping \subseteq polling
    /\ current = {} <=> polling = {}
    /\ closed \in BOOLEAN
    /\ woken \subseteq Tasks /\ current \subseteq Tasks

ResultTypes ==
    /\ result = [w \in Waiters |-> result[w]]
    /\ \A w \in Awaits : result[w] \in Ends \cup {"value"}
    /\ \A w \in Idlers : result[w] \in Ends \cup {"idle"}

Uncalled == \A a \in Awaits : phase[a] = "new" => left[a] = Calls[a]

Placed ==
    /\ Distinct(inFlight) /\ Distinct(settled) /\ Distinct(jobs)
    /\ Members(inFlight) \cap Members(settled) = {}
    /\ \A a \in Awaits :
          /\ phase[a] = "called" <=> a \in Members(inFlight) \cup Members(settled)
          /\ phase[a] = "queued" <=> a \in Members(jobs)
    /\ running \subseteq Members(inFlight)
    /\ \A a \in Awaits : waker[a] # {} => a \in running

IInv == GuestTypes /\ TaskTypes /\ ResultTypes /\ Uncalled /\ Placed

LEMMA InvariantImplies == IInv => CallsAccounted
<1> SUFFICES ASSUME IInv
             PROVE  CallsAccounted
  OBVIOUS
<1>1. TypeOK
  BY DEF IInv, GuestTypes, TaskTypes, ResultTypes, Phases, TypeOK
<1>2. /\ jobs \in Seq(Awaits) /\ inFlight \in Seq(Awaits) /\ settled \in Seq(Awaits)
  BY DEF IInv, GuestTypes
<1> DEFINE pending == inFlight \o settled
<1>3. /\ pending \in Seq(Awaits)
      /\ Members(pending) = Members(inFlight) \cup Members(settled)
      /\ Distinct(pending)
  BY <1>2, Concatenation DEF IInv, Placed
<1>4. Members(jobs) \subseteq Awaits /\ Members(pending) \subseteq Awaits
  BY <1>2, <1>3, SequenceOf
<1>5. Members(pending) \cap Members(jobs) = {}
  BY <1>3, <1>4 DEF IInv, Placed
<1>6. Distinct(pending \o jobs)
  BY <1>2, <1>3, <1>5, Concatenation DEF IInv, Placed
<1> QED
  BY <1>1, <1>3, <1>6 DEF CallsAccounted, IInv, Placed, Distinct

LEMMA InvariantHoldsAtFirst == Init => IInv
<1> SUFFICES ASSUME Init
             PROVE  IInv
  OBVIOUS
<1>1. <<>> \in Seq(Awaits)
  BY EmptySeq
<1>2. GuestTypes
  BY <1>1, EventLoopAssumption DEF Init, GuestTypes, Phases
<1>3. TaskTypes
  BY DEF Init, TaskTypes
<1>4. ResultTypes
  BY DEF Init, ResultTypes, Ends, Waiters
<1>5. Uncalled /\ Placed
  BY EmptySequence DEF Init, Uncalled, Placed
<1> QED
  BY <1>2, <1>3, <1>4, <1>5 DEF IInv

-----------------------------------------------------------------------------
(* What the parts of a step compute. *)

LEMMA PolledFutures ==
    ASSUME IInv
    PROVE  /\ Unfinished \in Seq(Awaits) /\ Distinct(Unfinished)
           /\ Members(Unfinished) = running
           /\ SettledNow \in Seq(Awaits) /\ Distinct(SettledNow)
           /\ Members(SettledNow) = (Members(inFlight) \cup Members(settled)) \ running
           /\ settled # <<>> => SettledNow # <<>>
<1>1. inFlight \in Seq(Awaits) /\ settled \in Seq(Awaits)
  BY DEF IInv, GuestTypes
<1>2. Members(inFlight) \subseteq Awaits /\ Members(settled) \subseteq Awaits
  BY <1>1, SequenceOf
<1>3. /\ Unfinished \in Seq(Awaits) /\ Distinct(Unfinished)
      /\ Members(Unfinished) = running
  <2>1. /\ Kept(inFlight, running) \in Seq(Awaits)
        /\ Members(Kept(inFlight, running)) = Members(inFlight) \cap running
        /\ Distinct(inFlight) => Distinct(Kept(inFlight, running))
    BY <1>1, KeptCalls
  <2> QED
    BY <2>1 DEF Unfinished, IInv, Placed
<1> DEFINE ready == Kept(inFlight, Awaits \ running)
<1>4. /\ ready \in Seq(Awaits) /\ Distinct(ready)
      /\ Members(ready) = Members(inFlight) \cap (Awaits \ running)
  BY <1>1, KeptCalls DEF IInv, Placed
<1> HIDE DEF ready
<1>5. Members(settled) \cap Members(ready) = {}
  BY <1>4 DEF IInv, Placed
<1>6. /\ settled \o ready \in Seq(Awaits) /\ Distinct(settled \o ready)
      /\ Members(settled \o ready) = Members(settled) \cup Members(ready)
  BY <1>1, <1>4, <1>5, Concatenation DEF IInv, Placed
<1>7. SettledNow = settled \o ready
  BY DEF SettledNow, ready
<1>8. Members(SettledNow) = (Members(inFlight) \cup Members(settled)) \ running
  BY <1>2, <1>4, <1>6, <1>7 DEF IInv, Placed
<1>9. settled # <<>> => SettledNow # <<>>
  BY <1>1, <1>6, <1>7, NoMembers
<1> QED
  BY <1>3, <1>6, <1>7, <1>8, <1>9

LEMMA QueuedCalls ==
    ASSUME IInv, NEW calls \in Seq(Awaits), Distinct(calls),
           \A a \in Members(calls) : phase[a] = "called"
    PROVE  /\ QueuedBy(calls) \in Seq(Awaits) /\ Distinct(QueuedBy(calls))
           /\ Members(QueuedBy(calls)) = Members(jobs) \cup (Members(calls) \ Direct)
<1>1. jobs \in Seq(Awaits) /\ Distinct(jobs)
  BY DEF IInv, GuestTypes, Placed
<1>2. Members(calls) \subseteq Awaits
  BY SequenceOf
<1> DEFINE queued == Kept(calls, Awaits \ Direct)
<1>3. /\ queued \in Seq(Awaits) /\ Distinct(queued)
      /\ Members(queued) = Members(calls) \ Direct
  BY <1>2, KeptCalls
<1> HIDE DEF queued
<1>4. Members(jobs) \cap Members(queued) = {}
  BY <1>2, <1>3 DEF IInv, Placed
<1>5. /\ jobs \o queued \in Seq(Awaits) /\ Distinct(jobs \o queued)
      /\ Members(jobs \o queued) = Members(jobs) \cup Members(queued)
  BY <1>1, <1>3, <1>4, Concatenation
<1> QED
  BY <1>3, <1>5 DEF QueuedBy, queued

\* A publication of everything that has settled leaves the calls in flight waiting
\* and the queued functions in the job queue.
LEMMA Publication ==
    ASSUME IInv
    PROVE  LET phases == PublishedPhase(settled)
               queue  == QueuedBy(settled)
           IN  /\ queue \in Seq(Awaits) /\ Distinct(queue)
               /\ Members(queue) = Members(jobs) \cup (Members(settled) \ Direct)
               /\ phases \in [Awaits -> Phases]
               /\ \A a \in Awaits :
                     /\ phases[a] = "called" <=> a \in Members(inFlight)
                     /\ phases[a] = "queued" <=> a \in Members(queue)
                     /\ phases[a] \in {"new", "parked"} => phase[a] = phases[a]
                     /\ phases[a] = "returned" => phase[a] = "returned" \/ a \in Members(settled)
<1> DEFINE phases == PublishedPhase(settled)
           queue  == QueuedBy(settled)
<1>1. settled \in Seq(Awaits) /\ Distinct(settled)
  BY DEF IInv, GuestTypes, Placed
<1>2. Members(settled) \subseteq Awaits
  BY <1>1, SequenceOf
<1>3. \A a \in Members(settled) : phase[a] = "called"
  BY <1>2 DEF IInv, Placed
<1>4. /\ queue \in Seq(Awaits) /\ Distinct(queue)
      /\ Members(queue) = Members(jobs) \cup (Members(settled) \ Direct)
  BY <1>1, <1>3, QueuedCalls
<1>5. /\ phases \in [Awaits -> Phases]
      /\ \A a \in Awaits : phases[a] = IF a \notin Members(settled) THEN phase[a]
                                       ELSE IF a \in Direct THEN "returned"
                                       ELSE "queued"
  BY DEF PublishedPhase, IInv, GuestTypes, Phases
<1> HIDE DEF phases, queue
<1>6. \A a \in Awaits : phases[a] = "called" <=> a \in Members(inFlight)
  BY <1>3, <1>5 DEF IInv, Placed
<1>7. \A a \in Awaits : phases[a] = "queued" <=> a \in Members(queue)
  BY <1>3, <1>4, <1>5 DEF IInv, Placed
<1>8. \A a \in Awaits : /\ phases[a] \in {"new", "parked"} => phase[a] = phases[a]
                        /\ phases[a] = "returned" => phase[a] = "returned" \/ a \in Members(settled)
  BY <1>5
<1> QED
  BY <1>4, <1>5, <1>6, <1>7, <1>8 DEF phases, queue

\* A polled waiter has been started; its task stays one of the tasks.
LEMMA PolledTypes ==
    ASSUME IInv, NEW w \in Waiters, NEW wakes \in SUBSET Tasks, Polled(w, wakes)
    PROVE  TaskTypes'
BY DEF IInv, TaskTypes, Polled

LEMMA ReturnTypes ==
    ASSUME IInv, NEW w \in Waiters, NEW r, Return(w, r),
           r \in Ends \/ (w \in Awaits /\ r = "value") \/ (w \in Idlers /\ r = "idle")
    PROVE  ResultTypes'
<1>1. result = [v \in Waiters |-> result[v]]
  BY DEF IInv, ResultTypes
<1>2. result' = [v \in Waiters |-> result'[v]]
  BY <1>1 DEF Return
<1>3. \A v \in Waiters : result'[v] = IF v = w THEN r ELSE result[v]
  BY <1>1 DEF Return
<1>4. \A v \in Awaits : result'[v] \in Ends \cup {"value"}
  BY <1>3, EventLoopAssumption DEF IInv, ResultTypes, Waiters
<1>5. \A v \in Idlers : result'[v] \in Ends \cup {"idle"}
  BY <1>3, EventLoopAssumption DEF IInv, ResultTypes, Waiters
<1> QED
  BY <1>2, <1>4, <1>5 DEF ResultTypes

LEMMA WakersTypes ==
    ASSUME IInv, NEW w \in Waiters
    PROVE  Wakers(Owner[w]) \in [Awaits -> SUBSET Tasks]
BY EventLoopAssumption DEF IInv, GuestTypes, Wakers

-----------------------------------------------------------------------------
(* The steps. *)

LEMMA InvariantAfterStart ==
    ASSUME IInv, NEW a \in Awaits, Start(a)
    PROVE  IInv'
<1>1. /\ phase \in [Awaits -> Phases] /\ left \in [Awaits -> Nat]
      /\ jobs \in Seq(Awaits) /\ inFlight \in Seq(Awaits) /\ settled \in Seq(Awaits)
      /\ running \subseteq Awaits /\ waker \in [Awaits -> SUBSET Tasks]
  BY DEF IInv, GuestTypes
<1>2. phase[a] = "new" /\ left[a] = Calls[a] /\ Calls[a] \in Nat
  BY EventLoopAssumption DEF Start, IInv, Uncalled
<1>3. a \notin Members(inFlight) \cup Members(settled) \cup Members(jobs)
  BY <1>2 DEF IInv, Placed
<1>4. TaskTypes' /\ ResultTypes'
  <2>1. TaskTypes'
    BY EventLoopAssumption DEF IInv, TaskTypes, Start, Waiters
  <2>2. ResultTypes'
    BY DEF IInv, ResultTypes, Start
  <2> QED
    BY <2>1, <2>2
<1>5. CASE a \in HostSettled
  <2>1. phase' = [phase EXCEPT ![a] = "parked"] /\ UNCHANGED <<left, jobs, inFlight, running, waker>>
    BY <1>5 DEF Start
  <2>2. settled' = settled
    BY DEF Start
  <2>3. GuestTypes'
    BY <1>1, <2>1, <2>2 DEF GuestTypes, Phases
  <2>4. Uncalled'
    BY <1>1, <2>1 DEF IInv, Uncalled
  <2>5. Placed'
    BY <1>1, <1>3, <2>1, <2>2 DEF IInv, Placed
  <2> QED
    BY <1>4, <2>3, <2>4, <2>5 DEF IInv
<1>6. CASE a \notin HostSettled /\ Calls[a] = 0
  <2>1. /\ phase' = [phase EXCEPT ![a] = "queued"] /\ jobs' = Append(jobs, a)
        /\ UNCHANGED <<left, inFlight, running, waker>>
    BY <1>6 DEF Start
  <2>2. settled' = settled
    BY DEF Start
  <2>3. /\ jobs' \in Seq(Awaits) /\ Members(jobs') = Members(jobs) \cup {a}
        /\ Distinct(jobs')
    BY <1>1, <1>3, <2>1, AppendedCall DEF IInv, Placed
  <2>4. GuestTypes'
    BY <1>1, <2>1, <2>2, <2>3 DEF GuestTypes, Phases
  <2>5. Uncalled'
    BY <1>1, <2>1 DEF IInv, Uncalled
  <2>6. Placed'
    BY <1>1, <1>3, <2>1, <2>2, <2>3 DEF IInv, Placed
  <2> QED
    BY <1>4, <2>4, <2>5, <2>6 DEF IInv
<1>7. CASE a \notin HostSettled /\ Calls[a] # 0
  <2>1. /\ phase' = [phase EXCEPT ![a] = "called"]
        /\ left' = [left EXCEPT ![a] = @ - 1]
        /\ inFlight' = Append(inFlight, a) /\ running' = running \cup {a}
        /\ waker' = [waker EXCEPT ![a] = {}] /\ jobs' = jobs
    BY <1>7 DEF Start, Register
  <2>2. settled' = settled
    BY DEF Start
  <2>3. /\ inFlight' \in Seq(Awaits) /\ Members(inFlight') = Members(inFlight) \cup {a}
        /\ Distinct(inFlight')
    BY <1>1, <1>3, <2>1, AppendedCall DEF IInv, Placed
  <2>4. GuestTypes'
    <3>1. left' \in [Awaits -> Nat]
      BY <1>1, <1>2, <1>7, <2>1
    <3> QED
      BY <1>1, <2>1, <2>2, <2>3, <3>1 DEF GuestTypes, Phases
  <2>5. Uncalled'
    BY <1>1, <2>1 DEF IInv, Uncalled
  <2>6. Placed'
    BY <1>1, <1>3, <2>1, <2>2, <2>3 DEF IInv, Placed
  <2> QED
    BY <1>4, <2>4, <2>5, <2>6 DEF IInv
<1> QED
  BY <1>5, <1>6, <1>7

LEMMA InvariantAfterHostSettles ==
    ASSUME IInv, NEW a \in Awaits, HostSettles(a)
    PROVE  IInv'
<1>1. phase[a] = "parked" /\ phase \in [Awaits -> Phases] /\ jobs \in Seq(Awaits)
  BY DEF HostSettles, IInv, GuestTypes
<1>2. a \notin Members(inFlight) \cup Members(settled) \cup Members(jobs)
  BY <1>1 DEF IInv, Placed
<1>3. /\ phase' = [phase EXCEPT ![a] = "queued"] /\ jobs' = Append(jobs, a)
      /\ UNCHANGED <<left, inFlight, settled, waker, running>>
  BY DEF HostSettles
<1>4. /\ jobs' \in Seq(Awaits) /\ Members(jobs') = Members(jobs) \cup {a}
      /\ Distinct(jobs')
  BY <1>1, <1>2, <1>3, AppendedCall DEF IInv, Placed
<1>5. GuestTypes'
  BY <1>1, <1>3, <1>4 DEF IInv, GuestTypes, Phases
<1>6. TaskTypes' /\ ResultTypes'
  BY DEF HostSettles, IInv, TaskTypes, ResultTypes, taskVars
<1>7. Uncalled'
  BY <1>1, <1>3 DEF IInv, Uncalled
<1>8. Placed'
  BY <1>1, <1>2, <1>3, <1>4 DEF IInv, Placed
<1> QED
  BY <1>5, <1>6, <1>7, <1>8 DEF IInv

LEMMA InvariantAfterComplete ==
    ASSUME IInv, NEW a \in Awaits, Complete(a)
    PROVE  IInv'
<1>1. /\ running' = running \ {a} /\ woken' = woken \cup waker[a]
      /\ waker' = [waker EXCEPT ![a] = {}]
      /\ UNCHANGED <<phase, left, jobs, inFlight, settled, result, due, closed, begun, current, polling,
                   stepping>>
  BY DEF Complete
<1>2. GuestTypes'
  BY <1>1 DEF IInv, GuestTypes
<1>3. TaskTypes'
  BY <1>1 DEF IInv, GuestTypes, TaskTypes
<1>4. \A b \in Awaits : waker'[b] = IF b = a THEN {} ELSE waker[b]
  BY <1>1 DEF IInv, GuestTypes
<1>5. ResultTypes' /\ Uncalled' /\ Placed'
  BY <1>1, <1>4 DEF IInv, ResultTypes, Uncalled, Placed
<1> QED
  BY <1>2, <1>3, <1>5 DEF IInv

\* The executor's own steps touch neither the guest nor the results.
LEMMA InvariantAfterTasks ==
    ASSUME IInv, UNCHANGED <<guestVars, running, result>>, TaskTypes'
    PROVE  IInv'
BY DEF IInv, guestVars, GuestTypes, ResultTypes, Uncalled, Placed

\* A waiter that returns and leaves the guest alone.
LEMMA InvariantAfterReturn ==
    ASSUME IInv, NEW w \in Waiters, PollDue(w) \/ PollClosed(w) \/ PollReturned(w)
    PROVE  IInv'
<1>1. Polled(w, {}) /\ UNCHANGED <<guestVars, running>>
  BY DEF PollDue, PollClosed, PollReturned
<1>2. TaskTypes'
  BY <1>1, PolledTypes
<1>3. ResultTypes'
  BY ReturnTypes DEF PollDue, PollClosed, PollReturned, Ends
<1>4. GuestTypes' /\ Uncalled' /\ Placed'
  BY <1>1 DEF IInv, guestVars, GuestTypes, Uncalled, Placed
<1> QED
  BY <1>2, <1>3, <1>4 DEF IInv

\* A poll leaves the running calls in flight; a call that host code makes while the
\* k-th future is polled is one of them.
LEMMA InvariantAfterPollFutures ==
    ASSUME IInv, NEW w \in Waiters, PollFutures(w)
    PROVE  IInv'
<1>1. /\ w \in polling /\ stepping' = {w}
      /\ settled' = SettledNow /\ waker' = Wakers(Owner[w])
      /\ UNCHANGED <<result, due, closed, begun, woken, current, polling>>
  BY DEF PollFutures
<1>2. TaskTypes' /\ ResultTypes'
  BY <1>1 DEF IInv, TaskTypes, ResultTypes
<1>3. /\ Unfinished \in Seq(Awaits) /\ Distinct(Unfinished)
      /\ Members(Unfinished) = running
      /\ SettledNow \in Seq(Awaits) /\ Distinct(SettledNow)
      /\ Members(SettledNow) = (Members(inFlight) \cup Members(settled)) \ running
  BY PolledFutures
<1>4. /\ phase \in [Awaits -> Phases] /\ left \in [Awaits -> Nat]
      /\ jobs \in Seq(Awaits) /\ inFlight \in Seq(Awaits) /\ running \subseteq Awaits
      /\ Wakers(Owner[w]) \in [Awaits -> SUBSET Tasks]
  BY WakersTypes DEF IInv, GuestTypes
<1>5. \A a \in Awaits : waker'[a] # {} => a \in running
  BY <1>1, <1>3 DEF Wakers, IInv, Placed
<1>6. CASE inFlight' = Unfinished /\ UNCHANGED <<phase, left, jobs, running>>
  <2>1. GuestTypes'
    BY <1>1, <1>3, <1>4, <1>6 DEF GuestTypes
  <2>2. Uncalled' /\ Placed'
    BY <1>1, <1>3, <1>5, <1>6 DEF IInv, Uncalled, Placed
  <2> QED
    BY <1>2, <2>1, <2>2 DEF IInv
<1>7. ASSUME NEW b \in FromPoll, NEW k \in DOMAIN inFlight, CallsFromPoll(b, k)
      PROVE  IInv'
  <2> DEFINE earlier == SubSeq(inFlight, 1, k - 1)
             rest    == SubSeq(inFlight, k, Len(inFlight))
             before  == Kept(earlier, running)
             after   == Kept(rest, running)
  <2>1. b \in Awaits /\ phase[b] = "new" /\ left[b] = Calls[b] /\ Calls[b] \in Nat
    BY <1>7, EventLoopAssumption DEF CallsFromPoll, IInv, Uncalled
  <2>2. b \notin Members(inFlight) \cup Members(settled) \cup Members(jobs)
    BY <2>1 DEF IInv, Placed
  <2>3. CASE Calls[b] = 0
    <3>1. /\ phase' = [phase EXCEPT ![b] = "queued"] /\ jobs' = Append(jobs, b)
          /\ inFlight' = Unfinished /\ UNCHANGED <<left, running>>
      BY <1>7, <2>3 DEF CallsFromPoll
    <3>2. /\ jobs' \in Seq(Awaits) /\ Members(jobs') = Members(jobs) \cup {b}
          /\ Distinct(jobs')
      BY <1>4, <2>1, <2>2, <3>1, AppendedCall DEF IInv, Placed
    <3>3. GuestTypes'
      BY <1>1, <1>3, <1>4, <3>1, <3>2 DEF GuestTypes, Phases
    <3>4. Uncalled'
      BY <1>4, <3>1 DEF IInv, Uncalled
    <3>5. Placed'
      BY <1>1, <1>3, <1>4, <1>5, <2>1, <2>2, <3>1, <3>2 DEF IInv, Placed
    <3> QED
      BY <1>2, <3>3, <3>4, <3>5 DEF IInv
  <2>4. CASE Calls[b] # 0
    <3>1. /\ phase' = [phase EXCEPT ![b] = "called"]
          /\ left' = [left EXCEPT ![b] = @ - 1]
          /\ inFlight' = (before \o <<b>>) \o after
          /\ running' = running \cup {b} /\ jobs' = jobs
      BY <1>7, <2>4 DEF CallsFromPoll
    <3>2. /\ earlier \in Seq(Awaits) /\ rest \in Seq(Awaits)
          /\ Members(inFlight) = Members(earlier) \cup Members(rest)
          /\ Distinct(earlier) /\ Distinct(rest)
          /\ Members(earlier) \cap Members(rest) = {}
      BY <1>4, Parted DEF IInv, Placed
    <3> HIDE DEF earlier, rest
    <3>3. /\ before \in Seq(Awaits) /\ after \in Seq(Awaits)
          /\ Distinct(before) /\ Distinct(after)
          /\ Members(before) = Members(earlier) \cap running
          /\ Members(after) = Members(rest) \cap running
      BY <3>2, KeptCalls
    <3> HIDE DEF before, after
    <3>4. b \notin Members(before) /\ b \notin Members(after)
      BY <2>2, <3>2, <3>3
    <3> DEFINE call == <<b>>
    <3>5. call \in Seq(Awaits) /\ Members(call) = {b} /\ Distinct(call)
      <4> DEFINE none == <<>>
      <4>1. none \in Seq(Awaits) /\ Members(none) = {} /\ Distinct(none)
        BY EmptySeq, EmptySequence
      <4>2. call = Append(none, b)
        OBVIOUS
      <4> HIDE DEF none, call
      <4>3. /\ Append(none, b) \in Seq(Awaits) /\ Members(Append(none, b)) = {b}
            /\ Distinct(Append(none, b))
        BY <2>1, <4>1, AppendedCall
      <4> QED
        BY <4>2, <4>3
    <3> HIDE DEF call
    <3>6. /\ before \o call \in Seq(Awaits)
          /\ Members(before \o call) = Members(before) \cup {b}
          /\ Distinct(before \o call)
      BY <3>3, <3>4, <3>5, Concatenation
    <3> DEFINE first == before \o call
    <3> HIDE DEF first
    <3>7. /\ first \in Seq(Awaits) /\ Distinct(first)
          /\ Members(first) = Members(before) \cup {b}
      BY <3>6 DEF first
    <3>8. /\ first \o after \in Seq(Awaits) /\ Distinct(first \o after)
          /\ Members(first \o after) = Members(first) \cup Members(after)
      BY <3>2, <3>3, <3>4, <3>7, Concatenation
    <3>9. /\ inFlight' \in Seq(Awaits) /\ Distinct(inFlight')
          /\ Members(inFlight') = running \cup {b}
      BY <3>1, <3>2, <3>3, <3>7, <3>8 DEF first, call, IInv, Placed
    <3>10. left' \in [Awaits -> Nat]
      BY <1>4, <2>1, <2>4, <3>1
    <3>11. GuestTypes'
      BY <1>1, <1>3, <1>4, <2>1, <3>1, <3>9, <3>10 DEF GuestTypes, Phases
    <3>12. Uncalled'
      BY <1>4, <3>1 DEF IInv, Uncalled
    <3>13. Placed'
      <4>1. \A a \in Awaits : phase'[a] = IF a = b THEN "called" ELSE phase[a]
        BY <1>4, <3>1
      <4>2. /\ Members(jobs') = Members(jobs)
            /\ Members(settled') = (Members(inFlight) \cup Members(settled)) \ running
        BY <1>1, <1>3, <3>1
      <4>3. /\ Distinct(settled') /\ Distinct(jobs')
            /\ Members(inFlight') \cap Members(settled') = {}
            /\ running' \subseteq Members(inFlight')
        BY <1>1, <1>3, <2>2, <3>1, <3>9 DEF IInv, Placed
      <4>4. running \subseteq Members(inFlight) /\ b \notin Members(jobs)
        BY <2>2 DEF IInv, Placed
      <4>5. \A a \in Awaits :
               phase'[a] = "called" <=> a \in Members(inFlight') \cup Members(settled')
        BY <2>2, <3>9, <4>1, <4>2, <4>4 DEF IInv, Placed
      <4>6. \A a \in Awaits : phase'[a] = "queued" <=> a \in Members(jobs')
        BY <4>1, <4>2, <4>4 DEF IInv, Placed
      <4> QED
        BY <1>5, <3>1, <3>9, <4>3, <4>5, <4>6 DEF Placed
    <3> QED
      BY <1>2, <3>11, <3>12, <3>13 DEF IInv
  <2> QED
    BY <2>3, <2>4
<1> QED
  BY <1>6, <1>7 DEF PollFutures

LEMMA InvariantAfterRefusal ==
    ASSUME IInv, NEW w \in Waiters, StepRefused(w)
    PROVE  IInv'
<1>1. Polled(w, {}) /\ Return(w, "closed") /\ UNCHANGED <<guestVars, running>>
  BY DEF StepRefused
<1>2. TaskTypes' /\ ResultTypes'
  BY <1>1, PolledTypes, ReturnTypes DEF Ends
<1> QED
  BY <1>1, <1>2 DEF IInv, guestVars, GuestTypes, Uncalled, Placed

LEMMA InvariantAfterPublicationFails ==
    ASSUME IInv, NEW w \in Waiters, PublicationFails(w)
    PROVE  IInv'
<1>1. PICK i \in DOMAIN settled :
          LET published == SubSeq(settled, 1, i - 1)
              dropped   == Members(SubSeq(settled, i, Len(settled)))
          IN  /\ Polled(w, {})
              /\ settled' = <<>>
              /\ jobs' = QueuedBy(published)
              /\ phase' = [a \in Awaits |-> IF a \in dropped THEN "lost"
                                            ELSE PublishedPhase(published)[a]]
              /\ Return(w, "failed")
              /\ UNCHANGED <<left, inFlight, waker, running>>
  BY DEF PublicationFails
<1> DEFINE published == SubSeq(settled, 1, i - 1)
           rest      == SubSeq(settled, i, Len(settled))
<1>2. settled \in Seq(Awaits) /\ Distinct(settled) /\ inFlight \in Seq(Awaits)
  BY DEF IInv, GuestTypes, Placed
<1>3. /\ published \in Seq(Awaits) /\ rest \in Seq(Awaits)
      /\ Members(settled) = Members(published) \cup Members(rest)
      /\ Distinct(published) /\ Members(published) \cap Members(rest) = {}
  BY <1>2, Parted
<1>4. /\ Polled(w, {}) /\ Return(w, "failed")
      /\ settled' = <<>> /\ jobs' = QueuedBy(published)
      /\ UNCHANGED <<left, inFlight, waker, running>>
      /\ phase' = [a \in Awaits |-> IF a \in Members(rest) THEN "lost"
                                    ELSE PublishedPhase(published)[a]]
  BY <1>1
<1> HIDE DEF published, rest
<1>5. Members(published) \subseteq Awaits /\ Members(settled) \subseteq Awaits
  BY <1>2, <1>3, SequenceOf
<1>6. \A a \in Members(settled) : phase[a] = "called"
  BY <1>2, <1>5 DEF IInv, Placed
<1>7. /\ jobs' \in Seq(Awaits) /\ Distinct(jobs')
      /\ Members(jobs') = Members(jobs) \cup (Members(published) \ Direct)
  BY <1>3, <1>4, <1>6, QueuedCalls
<1>8. \A a \in Awaits : phase'[a] = IF a \in Members(rest) THEN "lost"
                                    ELSE IF a \notin Members(published) THEN phase[a]
                                    ELSE IF a \in Direct THEN "returned"
                                    ELSE "queued"
  BY <1>4 DEF PublishedPhase
<1>9. phase' \in [Awaits -> Phases]
  <2>1. phase' = [a \in Awaits |-> phase'[a]]
    BY <1>4
  <2>2. \A a \in Awaits : phase'[a] \in Phases
    BY <1>8 DEF IInv, GuestTypes, Phases
  <2> QED
    BY <2>1, <2>2
<1>10. GuestTypes'
  BY <1>2, <1>4, <1>7, <1>9, EmptySeq DEF IInv, GuestTypes
<1>11. TaskTypes' /\ ResultTypes'
  BY <1>4, PolledTypes, ReturnTypes DEF Ends
<1>12. Uncalled'
  BY <1>4, <1>8 DEF IInv, Uncalled
<1>13. Placed'
  <2>1. \A a \in Awaits : phase'[a] = "called" <=> a \in Members(inFlight)
    BY <1>3, <1>6, <1>8 DEF IInv, Placed
  <2>2. \A a \in Awaits : phase'[a] = "queued" <=> a \in Members(jobs')
    BY <1>3, <1>6, <1>7, <1>8 DEF IInv, Placed
  <2> QED
    BY <1>2, <1>4, <1>7, <2>1, <2>2, EmptySequence DEF IInv, Placed
<1> QED
  BY <1>10, <1>11, <1>12, <1>13 DEF IInv

\* What a step takes off the job queue.
LEMMA FirstJob ==
    ASSUME IInv, QueuedBy(settled) # <<>>
    PROVE  LET queue == QueuedBy(settled)
           IN  /\ Head(queue) \in Awaits /\ Head(queue) \in Members(queue)
               /\ Head(queue) \notin Members(inFlight)
               /\ Tail(queue) \in Seq(Awaits) /\ Distinct(Tail(queue))
               /\ Members(queue) = Members(Tail(queue)) \cup {Head(queue)}
               /\ Head(queue) \notin Members(Tail(queue))
<1> DEFINE queue == QueuedBy(settled)
<1>1. /\ queue \in Seq(Awaits) /\ Distinct(queue)
      /\ \A a \in Members(queue) : a \in Awaits /\ a \notin Members(inFlight)
  <2>1. /\ queue \in Seq(Awaits) /\ Distinct(queue)
        /\ \A a \in Awaits :
              /\ PublishedPhase(settled)[a] = "called" <=> a \in Members(inFlight)
              /\ PublishedPhase(settled)[a] = "queued" <=> a \in Members(queue)
    BY Publication
  <2> HIDE DEF queue
  <2>2. Members(queue) \subseteq Awaits
    BY <2>1, SequenceOf
  <2> QED
    BY <2>1, <2>2
<1>2. queue # <<>>
  OBVIOUS
<1> HIDE DEF queue
<1>3. /\ Head(queue) \in Members(queue)
      /\ Tail(queue) \in Seq(Awaits) /\ Distinct(Tail(queue))
      /\ Members(queue) = Members(Tail(queue)) \cup {Head(queue)}
      /\ Head(queue) \notin Members(Tail(queue))
  BY <1>1, <1>2, FirstCall
<1> QED
  BY <1>1, <1>3 DEF queue

LEMMA InvariantAfterJobFails ==
    ASSUME IInv, NEW w \in Waiters, JobFails(w)
    PROVE  IInv'
<1> DEFINE phases == PublishedPhase(settled)
           queue  == QueuedBy(settled)
           a      == Head(queue)
<1>1. /\ Polled(w, {}) /\ Return(w, "failed") /\ queue # <<>>
      /\ settled' = <<>> /\ jobs' = Tail(queue)
      /\ phase' = [phases EXCEPT ![a] = "lost"]
      /\ UNCHANGED <<left, inFlight, waker, running>>
  BY DEF JobFails
<1>2. /\ phases \in [Awaits -> Phases]
      /\ \A b \in Awaits :
            /\ phases[b] = "called" <=> b \in Members(inFlight)
            /\ phases[b] = "queued" <=> b \in Members(queue)
            /\ phases[b] \in {"new", "parked"} => phase[b] = phases[b]
  BY Publication
<1>3. /\ a \in Awaits /\ a \in Members(queue) /\ a \notin Members(inFlight)
      /\ Tail(queue) \in Seq(Awaits) /\ Distinct(Tail(queue))
      /\ Members(queue) = Members(Tail(queue)) \cup {a}
      /\ a \notin Members(Tail(queue))
  BY <1>1, FirstJob
<1> HIDE DEF phases, queue, a
<1>4. \A b \in Awaits : phase'[b] = IF b = a THEN "lost" ELSE phases[b]
  BY <1>1, <1>2
<1>5. phase' \in [Awaits -> Phases]
  BY <1>1, <1>2 DEF Phases
<1>6. GuestTypes'
  BY <1>1, <1>3, <1>5, EmptySeq DEF IInv, GuestTypes
<1>7. TaskTypes' /\ ResultTypes'
  BY <1>1, PolledTypes, ReturnTypes DEF Ends
<1>8. Uncalled'
  BY <1>1, <1>2, <1>4 DEF IInv, Uncalled
<1>9. Placed'
  BY <1>1, <1>2, <1>3, <1>4, EmptySequence DEF IInv, Placed
<1> QED
  BY <1>6, <1>7, <1>8, <1>9 DEF IInv

LEMMA WakesTypes ==
    ASSUME NEW w \in Waiters, NEW progress
    PROVE  Wakes(w, progress) \in SUBSET Tasks
BY EventLoopAssumption DEF Wakes

LEMMA InvariantAfterStep ==
    ASSUME IInv, NEW w \in Waiters, Step(w)
    PROVE  IInv'
<1> DEFINE phases   == PublishedPhase(settled)
           queue    == QueuedBy(settled)
           progress == Progress(queue # <<>>, settled # <<>>, inFlight = <<>>)
           a        == Head(queue)
<1>1. /\ Polled(w, Wakes(w, progress)) /\ settled' = <<>> /\ waker' = waker
      /\ Jobs(queue, phases)
      /\ IF progress = "idle" THEN ReturnIdle(w) ELSE UNCHANGED result
  BY DEF Step
<1>2. /\ inFlight \in Seq(Awaits) /\ Distinct(inFlight)
      /\ running \subseteq Members(inFlight)
      /\ \A b \in Awaits : waker[b] # {} => b \in running
  BY DEF IInv, GuestTypes, Placed
<1>3. /\ queue \in Seq(Awaits) /\ Distinct(queue)
      /\ phases \in [Awaits -> Phases]
      /\ \A b \in Awaits :
            /\ phases[b] = "called" <=> b \in Members(inFlight)
            /\ phases[b] = "queued" <=> b \in Members(queue)
            /\ phases[b] \in {"new", "parked"} => phase[b] = phases[b]
  BY Publication
<1>4. TaskTypes'
  BY <1>1, PolledTypes, WakesTypes
<1>5. ResultTypes'
  <2>1. CASE UNCHANGED result
    BY <2>1 DEF IInv, ResultTypes
  <2>2. CASE Return(w, "idle") /\ w \in Idlers
    BY <2>2, ReturnTypes
  <2> QED
    BY <1>1, <2>1, <2>2 DEF ReturnIdle
<1>6. queue # <<>> => /\ a \in Awaits /\ a \in Members(queue) /\ a \notin Members(inFlight)
                      /\ Tail(queue) \in Seq(Awaits) /\ Distinct(Tail(queue))
                      /\ Members(queue) = Members(Tail(queue)) \cup {a}
                      /\ a \notin Members(Tail(queue))
  BY FirstJob
<1>7. left \in [Awaits -> Nat] /\ waker \in [Awaits -> SUBSET Tasks]
  BY DEF IInv, GuestTypes
<1>8. running \subseteq Awaits /\ <<>> \in Seq(Awaits)
  BY EmptySeq DEF IInv, GuestTypes
<1> HIDE DEF phases, queue, progress, a
<1>9. CASE queue = <<>>
  <2>1. /\ phase' = phases /\ jobs' = queue
        /\ UNCHANGED <<left, inFlight, running>>
    BY <1>1, <1>9 DEF Jobs
  <2>2. GuestTypes'
    BY <1>1, <1>2, <1>3, <1>7, <1>8, <2>1 DEF GuestTypes
  <2>3. Uncalled'
    BY <1>3, <2>1 DEF IInv, Uncalled
  <2>4. Placed'
    BY <1>1, <1>2, <1>3, <2>1, EmptySequence DEF Placed
  <2> QED
    BY <1>4, <1>5, <2>2, <2>3, <2>4 DEF IInv
<1>10. CASE queue # <<>> /\ left[a] > 0
  <2>1. /\ phase' = [phases EXCEPT ![a] = "called"] /\ jobs' = Tail(queue)
        /\ left' = [left EXCEPT ![a] = @ - 1]
        /\ inFlight' = Append(inFlight, a) /\ running' = running \cup {a}
    BY <1>1, <1>10 DEF Jobs, RunJob, a
  <2>2. /\ inFlight' \in Seq(Awaits) /\ Distinct(inFlight')
        /\ Members(inFlight') = Members(inFlight) \cup {a}
    BY <1>2, <1>6, <1>10, <2>1, AppendedCall
  <2>3. left' \in [Awaits -> Nat]
    BY <1>6, <1>7, <1>10, <2>1
  <2>4. \A b \in Awaits : phase'[b] = IF b = a THEN "called" ELSE phases[b]
    BY <1>3, <2>1
  <2>5. phase' \in [Awaits -> Phases]
    BY <1>3, <1>6, <1>10, <2>1 DEF Phases
  <2>6. GuestTypes'
    BY <1>1, <1>6, <1>7, <1>8, <1>10, <2>1, <2>2, <2>3, <2>5 DEF GuestTypes
  <2>7. Uncalled'
    BY <1>3, <1>7, <2>1, <2>4 DEF IInv, Uncalled
  <2>8. Placed'
    BY <1>1, <1>2, <1>3, <1>6, <1>10, <2>1, <2>2, <2>4, EmptySequence DEF Placed
  <2> QED
    BY <1>4, <1>5, <2>6, <2>7, <2>8 DEF IInv
<1>11. CASE queue # <<>> /\ ~(left[a] > 0)
  <2>1. /\ phase' = [phases EXCEPT ![a] = "returned"] /\ jobs' = Tail(queue)
        /\ UNCHANGED <<left, inFlight, running>>
    BY <1>1, <1>11 DEF Jobs, RunJob, a
  <2>2. \A b \in Awaits : phase'[b] = IF b = a THEN "returned" ELSE phases[b]
    BY <1>3, <2>1
  <2>3. phase' \in [Awaits -> Phases]
    BY <1>3, <1>6, <1>11, <2>1 DEF Phases
  <2>4. GuestTypes'
    BY <1>1, <1>2, <1>6, <1>7, <1>8, <1>11, <2>1, <2>3 DEF GuestTypes
  <2>5. Uncalled'
    BY <1>3, <2>1, <2>2 DEF IInv, Uncalled
  <2>6. Placed'
    BY <1>1, <1>2, <1>3, <1>6, <1>11, <2>1, <2>2, EmptySequence DEF Placed
  <2> QED
    BY <1>4, <1>5, <2>4, <2>5, <2>6 DEF IInv
<1> QED
  BY <1>9, <1>10, <1>11

LEMMA InvariantIsInductive == IInv /\ [Next]_vars => IInv'
<1> SUFFICES ASSUME IInv, [Next]_vars
             PROVE  IInv'
  OBVIOUS
<1>1. ASSUME NEW a \in Awaits, Start(a) \/ HostSettles(a) \/ Complete(a)
      PROVE  IInv'
  BY <1>1, InvariantAfterStart, InvariantAfterHostSettles, InvariantAfterComplete
<1>2. ASSUME NEW w \in Idlers, StartIdler(w)
      PROVE  IInv'
  <2>1. TaskTypes'
    BY <1>2, EventLoopAssumption DEF StartIdler, IInv, TaskTypes, Waiters
  <2> QED
    BY <1>2, <2>1, InvariantAfterTasks DEF StartIdler
<1>3. ASSUME NEW t \in Tasks, RunTask(t)
      PROVE  IInv'
  <2>1. TaskTypes'
    BY <1>3 DEF RunTask, Pending, IInv, TaskTypes
  <2> QED
    BY <1>3, <2>1, InvariantAfterTasks DEF RunTask
<1>4. ASSUME NEW w \in Waiters, BecomeDue(w)
      PROVE  IInv'
  <2>1. TaskTypes'
    BY <1>4 DEF BecomeDue, taskVars, IInv, TaskTypes
  <2> QED
    BY <1>4, <2>1, InvariantAfterTasks DEF BecomeDue
<1>5. ASSUME NEW w \in Waiters, Poll(w)
      PROVE  IInv'
  BY <1>5, InvariantAfterReturn, InvariantAfterPollFutures, InvariantAfterRefusal,
     InvariantAfterPublicationFails, InvariantAfterJobFails, InvariantAfterStep DEF Poll
<1>6. CASE Close
  <2>1. TaskTypes'
    BY <1>6 DEF Close, taskVars, IInv, TaskTypes
  <2> QED
    BY <1>6, <2>1, InvariantAfterTasks DEF Close
<1>7. CASE UNCHANGED vars
  BY <1>7 DEF vars, guestVars, taskVars, IInv, GuestTypes, TaskTypes, ResultTypes, Uncalled, Placed
<1> QED
  BY <1>1, <1>2, <1>3, <1>4, <1>5, <1>6, <1>7 DEF Next

\* Whatever the order of completions, polls, publications and refusals, a function
\* that waits for a host call has it in flight or settled, once, and one that can go
\* on is queued, once: PendingHostFutures neither loses nor publishes a call twice.
THEOREM CallsAlwaysAccounted == Spec => []CallsAccounted
<1>1. Init => IInv
  BY InvariantHoldsAtFirst
<1>2. IInv /\ [Next]_vars => IInv'
  BY InvariantIsInductive
<1>3. IInv => CallsAccounted
  BY InvariantImplies
<1> QED
  BY <1>1, <1>2, <1>3, PTL DEF Spec

-----------------------------------------------------------------------------
(* run_until_idle.                                                           *)

\* A step that is idle found no call in flight or settled and no job.
LEMMA IdleStep ==
    ASSUME IInv, NEW w \in Waiters, Step(w), NEW v \in Idlers,
           result[v] = "none", result'[v] = "idle"
    PROVE  \A a \in Awaits : phase'[a] \in {"new", "parked", "returned", "lost"}
<1> DEFINE phases   == PublishedPhase(settled)
           queue    == QueuedBy(settled)
           progress == Progress(queue # <<>>, settled # <<>>, inFlight = <<>>)
<1>1. progress = "idle" /\ Jobs(queue, phases)
  BY DEF Step
<1>2. queue = <<>> /\ inFlight = <<>>
  BY <1>1 DEF Progress
<1>3. phase' = phases
  BY <1>1, <1>2 DEF Jobs
<1>4. Members(inFlight) = {} /\ Members(queue) = {}
  BY <1>2, EmptySequence
<1>5. /\ phases \in [Awaits -> Phases]
      /\ \A a \in Awaits :
            /\ phases[a] = "called" <=> a \in Members(inFlight)
            /\ phases[a] = "queued" <=> a \in Members(queue)
  BY Publication
<1> HIDE DEF phases, queue
<1> QED
  BY <1>3, <1>4, <1>5 DEF Phases

\* No other step of a waiter's poll returns "idle".
LEMMA OnlyStepsAreIdle ==
    ASSUME IInv, NEW w \in Waiters, Poll(w), ~Step(w), NEW v \in Idlers,
           result[v] = "none"
    PROVE  result'[v] # "idle"
<1>1. UNCHANGED result \/ \E r \in Ends \cup {"value"} : Return(w, r)
  BY DEF Poll, PollDue, PollClosed, PollReturned, PollFutures, StepRefused, PublicationFails,
         JobFails, Ends
<1>2. CASE UNCHANGED result
  BY <1>2
<1>3. ASSUME NEW r \in Ends \cup {"value"}, Return(w, r)
      PROVE  result'[v] # "idle"
  <2>1. result'[v] \in {r, result[v]}
    BY <1>3 DEF Return, IInv, ResultTypes, Waiters
  <2> QED
    BY <2>1 DEF Ends
<1> QED
  BY <1>1, <1>2, <1>3

LEMMA IdleOfSteps ==
    ASSUME IInv, [Next]_vars, NEW v \in Idlers, result[v] = "none", result'[v] = "idle"
    PROVE  \A a \in Awaits : phase'[a] \in {"new", "parked", "returned", "lost"}
<1>1. result' # result
  OBVIOUS
<1>2. PICK w \in Waiters : Poll(w)
  BY <1>1 DEF Next, Start, HostSettles, Complete, StartIdler, RunTask, BecomeDue, Close,
              vars, guestVars, taskVars
<1>3. Step(w)
  BY <1>2, OnlyStepsAreIdle
<1> QED
  BY <1>3, IdleStep

\* EventLoop::run_until_idle returns only when no function waits for a host call or
\* for its turn: every function that had been called has returned, but those that a
\* publication or a job that failed has lost and those that host code has still to settle.
THEOREM IdleAlwaysMeansSettled == Spec => IdleMeansSettled
<1> DEFINE Idle == \A w \in Idlers :
                      result[w] = "none" /\ result'[w] = "idle" =>
                         \A a \in Awaits : phase'[a] \in {"new", "parked", "returned", "lost"}
<1>1. Init => IInv
  BY InvariantHoldsAtFirst
<1>2. IInv /\ [Next]_vars => IInv'
  BY InvariantIsInductive
<1>3. IInv /\ [Next]_vars => [Idle]_vars
  BY IdleOfSteps
<1> HIDE DEF Idle
<1>4. Spec => [][Idle]_vars
  BY <1>1, <1>2, <1>3, PTL DEF Spec
<1> QED
  BY <1>4, PTL DEF IdleMeansSettled, Idle

-----------------------------------------------------------------------------
(* Sleep.  All waiters belong to the task t; of its pending waiters, a poll  *)
(* of the task may have left some behind: nothing they wait for can then     *)
(* happen without waking t, or this poll has still to reach the waiter; what *)
(* entries of the host left behind is the exception.                         *)

LeftBehind(t) == Pending(t) \ polling

\* t has the waker of a call in flight.
Wakeful(t, a) == a \in running /\ waker[a] = {t}

\* An awaited promise that has been settled is one this poll has still to reach.
Reached == \A a \in Awaits \cap begun :
              phase[a] = "returned" /\ result[a] = "none" => a \in polling

InFlightWakes(t) == \A a \in Members(inFlight) : Wakeful(t, a) \/ Overlooked(a)

\* Between two steps.
Quiet(t) ==
    /\ settled = <<>>
    /\ Members(jobs) \subseteq HostSettled \cup Stranded
    /\ Reached
    /\ InFlightWakes(t)
    /\ closed /\ polling # {} => \A a \in Members(inFlight) : Wakeful(t, a)

\* In the middle of a step, whose poll reached every call but those made in it.
Poised(t) ==
    /\ Reached
    /\ InFlightWakes(t)
    /\ closed => \A a \in Members(inFlight) : Wakeful(t, a)
    /\ \A a \in stepping \cap Awaits : phase[a] # "returned"
    /\ LeftBehind(t) # {} =>
          /\ Members(settled) \subseteq FromPoll
          /\ Members(jobs) \subseteq HostSettled \cup FromPoll
          /\ closed => settled = <<>>

Attentive(t) ==
    /\ \A a \in Awaits : phase[a] = "parked" => a \in HostSettled
    /\ polling \subseteq Pending(t)
    /\ stepping = {} /\ t \notin woken /\ LeftBehind(t) # {} => Quiet(t)
    /\ stepping # {} /\ t \notin woken => Poised(t)

\* All waiters belong to the task t.
OwnedBy(t) == \A w \in Waiters : Owner[w] = t

LEMMA OwnedPending ==
    ASSUME IInv, NEW t \in Tasks, OwnedBy(t)
    PROVE  Pending(t) = {w \in begun : result[w] = "none"}
BY DEF IInv, TaskTypes, OwnedBy, Pending

\* A waiter that returns is no longer pending, and the others stay what they were.
LEMMA AfterReturn ==
    ASSUME IInv, NEW t \in Tasks, OwnedBy(t), Attentive(t),
           NEW w \in Waiters, NEW wakes, Polled(w, wakes), NEW r, r # "none", Return(w, r)
    PROVE  /\ Pending(t)' = Pending(t) \ {w}
           /\ LeftBehind(t)' = LeftBehind(t)
           /\ polling' \subseteq Pending(t)'
           /\ stepping' = {}
           /\ \A v \in Waiters : result'[v] = IF v = w THEN r ELSE result[v]
           /\ Stranded \subseteq Stranded'
           /\ r = "failed" => Stranded' = FromPoll
<1>1. \A v \in Waiters : result'[v] = IF v = w THEN r ELSE result[v]
  BY DEF Return, IInv, ResultTypes
<1>2. w \in polling /\ polling' = polling \ {w} /\ begun' = begun /\ stepping' = {}
  BY DEF Polled
<1>3. begun \subseteq Waiters
  BY DEF IInv, TaskTypes
<1>4. Pending(t)' = {v \in begun : result'[v] = "none"}
  BY <1>2, <1>3 DEF OwnedBy, Pending
<1>5. Pending(t)' = Pending(t) \ {w}
  BY <1>1, <1>3, <1>4, OwnedPending
<1>6. LeftBehind(t)' = LeftBehind(t)
  BY <1>2, <1>5 DEF LeftBehind
<1>7. polling' \subseteq Pending(t)'
  BY <1>2, <1>5 DEF Attentive
<1>8. r = "failed" => Stranded' = FromPoll
  BY <1>1 DEF Stranded
<1>9. result[w] = "none"
  BY <1>2, OwnedPending DEF Attentive
<1>10. Stranded \subseteq Stranded'
  BY <1>1, <1>9 DEF Stranded
<1> QED
  BY <1>1, <1>2, <1>5, <1>6, <1>7, <1>8, <1>10

LEMMA AttentiveAtFirst ==
    ASSUME Init, NEW t \in Tasks
    PROVE  Attentive(t)
<1>1. Pending(t) = {}
  BY DEF Init, Pending
<1> QED
  BY <1>1 DEF Init, Attentive, LeftBehind

LEMMA AttentiveAfterStart ==
    ASSUME IInv, NEW t \in Tasks, OwnedBy(t), Attentive(t), NEW a \in Awaits, Start(a)
    PROVE  Attentive(t)'
<1>1. \A b \in Awaits : phase'[b] = "parked" => b \in HostSettled
  BY DEF Start, Attentive, IInv, GuestTypes
<1>2. current' = current /\ polling' = polling /\ result' = result /\ begun' = begun \cup {a}
  BY DEF Start
<1>3. t \in woken'
  BY DEF Start, OwnedBy, Waiters
<1>4. polling' \subseteq Pending(t)'
  BY <1>2 DEF Attentive, Pending
<1> QED
  BY <1>1, <1>2, <1>3, <1>4 DEF Attentive

LEMMA AttentiveAfterHostSettles ==
    ASSUME IInv, NEW t \in Tasks, OwnedBy(t), Attentive(t), NEW a \in Awaits, HostSettles(a)
    PROVE  Attentive(t)'
<1>1. /\ phase[a] = "parked" /\ phase' = [phase EXCEPT ![a] = "queued"]
      /\ current = {} /\ jobs' = Append(jobs, a)
      /\ UNCHANGED <<left, inFlight, settled, waker, running, result, due, closed>>
      /\ UNCHANGED <<begun, woken, current, polling, stepping>>
  BY DEF HostSettles, taskVars
<1>2. \A b \in Awaits : phase'[b] = IF b = a THEN "queued" ELSE phase[b]
  BY <1>1 DEF IInv, GuestTypes
<1>3. Members(jobs') = Members(jobs) \cup {a} /\ a \in HostSettled
  BY <1>1, AppendedCall DEF IInv, GuestTypes, Attentive
<1>4. Pending(t)' = Pending(t) /\ LeftBehind(t)' = LeftBehind(t) /\ Stranded' = Stranded
  BY <1>1 DEF Pending, LeftBehind, Stranded
<1>5. Quiet(t) => Quiet(t)'
  BY <1>1, <1>2, <1>3, <1>4 DEF Quiet, Reached, InFlightWakes, Wakeful, Overlooked
<1>6. stepping = {}
  BY <1>1 DEF Attentive, IInv, TaskTypes
<1> QED
  BY <1>1, <1>2, <1>4, <1>5, <1>6 DEF Attentive

\* What a task that has been left waits for wakes it when it completes.
LEMMA AttentiveAfterComplete ==
    ASSUME IInv, NEW t \in Tasks, OwnedBy(t), Attentive(t), NEW a \in Awaits, Complete(a)
    PROVE  Attentive(t)'
<1>1. /\ a \in running /\ woken' = woken \cup waker[a]
      /\ running' = running \ {a} /\ waker' = [waker EXCEPT ![a] = {}]
      /\ UNCHANGED <<phase, left, jobs, inFlight, settled, result, due, closed, begun, current, polling,
                   stepping>>
  BY DEF Complete
<1>2. Pending(t)' = Pending(t) /\ LeftBehind(t)' = LeftBehind(t) /\ Stranded' = Stranded
  BY <1>1 DEF Pending, LeftBehind, Stranded
<1>3. a \in Members(inFlight)
  BY <1>1 DEF IInv, Placed
<1>4. t \in woken => t \in woken'
  BY <1>1
<1>5. CASE waker[a] = {t}
  BY <1>1, <1>2, <1>5 DEF Attentive
<1>6. ASSUME waker[a] # {t}
      PROVE  /\ Quiet(t) => Quiet(t)'
             /\ Poised(t) => Poised(t)'
  <2>1. \A b \in Awaits : waker'[b] = IF b = a THEN {} ELSE waker[b]
    BY <1>1 DEF IInv, GuestTypes
  <2>2. Members(inFlight) \subseteq Awaits
    BY SequenceOf DEF IInv, GuestTypes
  <2>3. \A b \in Members(inFlight) : Wakeful(t, b) => Wakeful(t, b)'
    BY <1>1, <1>6, <2>1, <2>2 DEF Wakeful
  <2>4. \A b \in Members(inFlight) : Overlooked(b) => Overlooked(b)'
    BY <2>1, <2>2 DEF Overlooked
  <2>5. InFlightWakes(t) => InFlightWakes(t)'
    BY <1>1, <2>3, <2>4 DEF InFlightWakes
  <2>6. Reached => Reached'
    BY <1>1 DEF Reached
  <2> QED
    BY <1>1, <1>2, <2>3, <2>5, <2>6 DEF Quiet, Poised
<1> QED
  BY <1>1, <1>2, <1>4, <1>5, <1>6 DEF Attentive

\* A task that starts its poll has left nobody behind.
LEMMA AttentiveAfterRunTask ==
    ASSUME IInv, NEW t \in Tasks, OwnedBy(t), Attentive(t), NEW u \in Tasks, RunTask(u)
    PROVE  Attentive(t)'
<1>1. /\ current = {} /\ current' = IF Pending(u) = {} THEN {} ELSE {u}
      /\ polling' = Pending(u) /\ woken' = woken \ {u}
      /\ UNCHANGED <<guestVars, running, result, due, closed, begun, stepping>>
  BY DEF RunTask
<1>2. Pending(t)' = Pending(t) /\ stepping = {}
  BY <1>1 DEF Pending, Attentive, IInv, TaskTypes
<1>3. CASE u = t
  <2>1. LeftBehind(t)' = {} /\ polling' = Pending(t)'
    BY <1>1, <1>2, <1>3 DEF LeftBehind
  <2> QED
    BY <1>1, <1>2, <2>1 DEF Attentive, guestVars
<1>4. CASE u # t
  <2>1. Pending(u) = {}
    BY <1>4 DEF IInv, TaskTypes, OwnedBy, Pending
  <2>2. polling = {} /\ polling' = {} /\ current' = {} /\ (t \in woken <=> t \in woken')
    BY <1>1, <1>4, <2>1 DEF IInv, TaskTypes
  <2>3. LeftBehind(t)' = LeftBehind(t) /\ Stranded' = Stranded
    BY <1>1, <1>2, <2>2 DEF LeftBehind, Stranded
  <2>4. Quiet(t) => Quiet(t)'
    BY <1>1, <2>2, <2>3 DEF Quiet, Reached, InFlightWakes, Wakeful, Overlooked, guestVars
  <2> QED
    BY <1>1, <1>2, <2>2, <2>3, <2>4 DEF Attentive, guestVars
<1> QED
  BY <1>3, <1>4

\* A waiter that returns without a step leaves the others as they were.
LEMMA AttentiveAfterReturn ==
    ASSUME IInv, NEW t \in Tasks, OwnedBy(t), Attentive(t),
           NEW w \in Waiters, PollDue(w) \/ PollClosed(w) \/ PollReturned(w)
    PROVE  Attentive(t)'
<1>1. PICK r \in {"due", "closed", "value"} : Return(w, r)
  BY DEF PollDue, PollClosed, PollReturned
<1>2. Polled(w, {}) /\ stepping = {} /\ UNCHANGED <<guestVars, running>>
  BY DEF PollDue, PollClosed, PollReturned
<1>3. /\ LeftBehind(t)' = LeftBehind(t)
      /\ polling' \subseteq Pending(t)'
      /\ stepping' = {}
      /\ \A v \in Waiters : result'[v] = IF v = w THEN r ELSE result[v]
      /\ Stranded \subseteq Stranded'
  BY <1>1, <1>2, AfterReturn
<1>4. /\ w \in polling /\ polling' = polling \ {w} /\ woken' = woken /\ begun' = begun
      /\ closed' = closed
  BY <1>2 DEF Polled
<1>5. Reached => Reached'
  BY <1>1, <1>2, <1>3, <1>4 DEF Reached, guestVars, Waiters
<1>6. Quiet(t) => Quiet(t)'
  BY <1>2, <1>3, <1>4, <1>5 DEF Quiet, InFlightWakes, Wakeful, Overlooked, guestVars
<1> QED
  BY <1>2, <1>3, <1>4, <1>6 DEF Attentive, guestVars

\* The poll of the host futures takes the wakers of all calls that are in flight; what
\* it finds settled, for a task nobody woke, are calls that had been overlooked.
LEMMA AttentiveAfterPollFutures ==
    ASSUME IInv, NEW t \in Tasks, OwnedBy(t), Attentive(t), NEW w \in Waiters, PollFutures(w)
    PROVE  Attentive(t)'
<1>1. /\ w \in polling /\ stepping = {} /\ Steps(w) /\ stepping' = {w}
      /\ settled' = SettledNow /\ waker' = Wakers(Owner[w])
      /\ UNCHANGED <<result, due, closed, begun, woken, current, polling>>
  BY DEF PollFutures
<1>2. /\ Unfinished \in Seq(Awaits) /\ Members(Unfinished) = running
      /\ SettledNow \in Seq(Awaits)
      /\ Members(SettledNow) = (Members(inFlight) \cup Members(settled)) \ running
  BY PolledFutures
<1>3. Pending(t)' = Pending(t) /\ LeftBehind(t)' = LeftBehind(t)
  BY <1>1 DEF Pending, LeftBehind
<1>4. \/ inFlight' = Unfinished /\ UNCHANGED <<phase, left, jobs, running>>
      \/ \E b \in FromPoll, k \in DOMAIN inFlight : CallsFromPoll(b, k)
  BY DEF PollFutures
<1>5. IInv'
  BY InvariantAfterPollFutures
<1>6. ASSUME t \notin woken
      PROVE  Quiet(t) \/ LeftBehind(t) = {}
  BY <1>1, <1>6 DEF Attentive
<1>7. ASSUME NEW called, called \subseteq FromPoll,
             Members(inFlight') \subseteq running \cup called,
             running \subseteq running',
             \A a \in called : phase[a] = "new" /\ ~closed,
             \A a \in Awaits \ called : phase'[a] = phase[a],
             \A a \in called : phase'[a] \in {"queued", "called"},
             Members(jobs') \subseteq Members(jobs) \cup called
      PROVE  Attentive(t)'
  <2>1. called \subseteq Awaits /\ running \subseteq Awaits
    BY <1>7, EventLoopAssumption DEF IInv, GuestTypes
  <2>2. Owner[w] = t
    BY DEF OwnedBy
  <2>3. \A a \in running : Wakeful(t, a)'
    BY <1>1, <1>2, <1>7, <2>1, <2>2 DEF Wakeful, Wakers
  <2>4. \A a \in called : a \notin running
    BY <1>7, <2>1 DEF IInv, Placed
  <2>5. \A a \in called : waker'[a] = {}
    BY <1>1, <1>2, <2>1, <2>4 DEF Wakers, IInv, Placed
  <2>6. InFlightWakes(t)'
    BY <1>7, <2>3, <2>5 DEF InFlightWakes, Overlooked
  <2>7. closed' => \A a \in Members(inFlight') : Wakeful(t, a)'
    BY <1>1, <1>7, <2>3
  <2>8. \A a \in stepping' \cap Awaits : phase'[a] # "returned"
    BY <1>1, <1>7 DEF Steps
  <2>9. ASSUME t \notin woken
        PROVE  Reached'
    <3> SUFFICES ASSUME NEW a \in Awaits \cap begun, phase'[a] = "returned", result[a] = "none"
                 PROVE  a \in polling
      BY <1>1 DEF Reached
    <3>1. phase[a] = "returned"
      BY <1>7
    <3>2. CASE LeftBehind(t) = {}
      BY <3>2, OwnedPending DEF LeftBehind
    <3>3. CASE Quiet(t)
      BY <3>1, <3>3 DEF Quiet, Reached
    <3> QED
      BY <1>6, <2>9, <3>2, <3>3
  <2>10. ASSUME t \notin woken, LeftBehind(t) # {}
         PROVE  /\ Members(settled') \subseteq FromPoll
                /\ Members(jobs') \subseteq HostSettled \cup FromPoll
                /\ closed' => settled' = <<>>
    <3>1. Quiet(t)
      BY <1>6, <2>10
    <3>2. Members(settled) = {} /\ Stranded \subseteq FromPoll
      BY <3>1, EmptySequence DEF Quiet, Stranded
    <3>3. Members(SettledNow) \subseteq FromPoll
      BY <1>2, <3>1, <3>2 DEF Quiet, InFlightWakes, Wakeful, Overlooked
    <3>4. Members(jobs') \subseteq HostSettled \cup FromPoll
      BY <1>7, <3>1, <3>2 DEF Quiet
    <3>5. ASSUME closed
          PROVE  SettledNow = <<>>
      <4>1. Members(SettledNow) = {}
        BY <1>1, <1>2, <3>1, <3>2, <3>5 DEF Quiet, Wakeful
      <4> QED
        BY <1>2, <4>1, NoMembers
    <3> QED
      BY <1>1, <3>3, <3>4, <3>5
  <2>11. t \notin woken => Poised(t)'
    BY <1>3, <2>6, <2>7, <2>8, <2>9, <2>10 DEF Poised
  <2>12. \A a \in Awaits : phase'[a] = "parked" => a \in HostSettled
    BY <1>7 DEF Attentive
  <2> QED
    BY <1>1, <1>3, <2>11, <2>12 DEF Attentive
<1>8. CASE inFlight' = Unfinished /\ UNCHANGED <<phase, left, jobs, running>>
  BY <1>2, <1>7, <1>8
<1>9. ASSUME NEW b \in FromPoll, NEW k \in DOMAIN inFlight, CallsFromPoll(b, k)
      PROVE  Attentive(t)'
  <2>1. b \in Awaits /\ phase[b] = "new" /\ ~closed
    BY <1>9, EventLoopAssumption DEF CallsFromPoll
  <2>2. /\ phase \in [Awaits -> Phases] /\ jobs \in Seq(Awaits)
    BY DEF IInv, GuestTypes
  <2>3. CASE Calls[b] = 0
    <3>1. /\ phase' = [phase EXCEPT ![b] = "queued"] /\ jobs' = Append(jobs, b)
          /\ inFlight' = Unfinished /\ UNCHANGED <<left, running>>
      BY <1>9, <2>3 DEF CallsFromPoll
    <3>2. Members(jobs') = Members(jobs) \cup {b}
      BY <2>1, <2>2, <3>1, AppendedCall
    <3>3. \A a \in Awaits : phase'[a] = IF a = b THEN "queued" ELSE phase[a]
      BY <2>2, <3>1
    <3>4. Members(inFlight') = running /\ running' = running
      BY <1>2, <3>1
    <3> QED
      BY <1>7, <2>1, <3>2, <3>3, <3>4
  <2>4. CASE Calls[b] # 0
    <3>1. /\ phase' = [phase EXCEPT ![b] = "called"] /\ jobs' = jobs
          /\ running' = running \cup {b}
      BY <1>9, <2>4 DEF CallsFromPoll
    <3>2. \A a \in Awaits : phase'[a] = IF a = b THEN "called" ELSE phase[a]
      BY <2>2, <3>1
    <3>3. Members(inFlight') \subseteq running \cup {b}
      <4>1. \A a \in Awaits : a \in Members(inFlight') => phase'[a] = "called"
        BY <1>5 DEF IInv, Placed
      <4>2. Members(inFlight') \cap Members(settled') = {} /\ Members(inFlight') \subseteq Awaits
        BY <1>5, SequenceOf DEF IInv, Placed, GuestTypes
      <4>3. \A a \in Awaits : phase[a] = "called" => a \in Members(inFlight) \cup Members(settled)
        BY DEF IInv, Placed
      <4> QED
        BY <1>1, <1>2, <3>2, <4>1, <4>2, <4>3
    <3> QED
      BY <1>7, <2>1, <3>1, <3>2, <3>3
  <2> QED
    BY <2>3, <2>4
<1> QED
  BY <1>4, <1>8, <1>9

\* An entry is refused only to the first waiters of a poll: those left behind have
\* left nothing settled.
LEMMA AttentiveAfterRefusal ==
    ASSUME IInv, NEW t \in Tasks, OwnedBy(t), Attentive(t), NEW w \in Waiters, StepRefused(w)
    PROVE  Attentive(t)'
<1>1. /\ Polled(w, {}) /\ Return(w, "closed") /\ closed /\ settled # <<>> /\ stepping = {w}
      /\ phase' = phase
  BY DEF StepRefused, guestVars
<1>2. /\ LeftBehind(t)' = LeftBehind(t)
      /\ polling' \subseteq Pending(t)'
      /\ stepping' = {}
  BY <1>1, AfterReturn
<1>3. woken' = woken
  BY <1>1 DEF Polled
<1>4. t \notin woken => LeftBehind(t) = {}
  BY <1>1 DEF Attentive, Poised
<1> QED
  BY <1>1, <1>2, <1>3, <1>4 DEF Attentive

\* What a failure leaves in the job queue, of a task nobody woke, is stranded.
LEMMA AttentiveAfterFailure ==
    ASSUME IInv, NEW t \in Tasks, OwnedBy(t), Attentive(t), NEW w \in Waiters,
           PublicationFails(w) \/ JobFails(w)
    PROVE  Attentive(t)'
<1>1. /\ Polled(w, {}) /\ Return(w, "failed") /\ settled' = <<>> /\ stepping = {w}
      /\ UNCHANGED <<inFlight, waker, running>>
  BY DEF PublicationFails, JobFails
<1>2. /\ LeftBehind(t)' = LeftBehind(t)
      /\ polling' \subseteq Pending(t)'
      /\ stepping' = {} /\ Stranded' = FromPoll
      /\ \A v \in Waiters : result'[v] = IF v = w THEN "failed" ELSE result[v]
  BY <1>1, AfterReturn
<1>3. /\ woken' = woken /\ polling' = polling \ {w} /\ begun' = begun /\ closed' = closed
  BY <1>1 DEF Polled
<1>4. /\ settled \in Seq(Awaits) /\ Members(settled) \subseteq Awaits
      /\ \A a \in Members(settled) : phase[a] = "called"
  BY SequenceOf DEF IInv, GuestTypes, Placed
<1>5. /\ Members(jobs') \subseteq Members(jobs) \cup Members(settled)
      /\ \A a \in Awaits : phase'[a] = "parked" => phase[a] = "parked"
      /\ \A a \in Awaits : phase'[a] = "returned" => phase[a] = "returned" \/ a \in Members(settled)
  <2>1. CASE PublicationFails(w)
    <3>1. PICK i \in DOMAIN settled :
              LET published == SubSeq(settled, 1, i - 1)
              IN  /\ jobs' = QueuedBy(published)
                  /\ \A a \in Awaits : phase'[a] \in {"lost", PublishedPhase(published)[a]}
      BY <2>1 DEF PublicationFails
    <3> DEFINE published == SubSeq(settled, 1, i - 1)
    <3>2. /\ published \in Seq(Awaits) /\ Distinct(published)
          /\ Members(published) \subseteq Members(settled)
      BY <1>4, Parted DEF IInv, Placed
    <3>3. jobs' = QueuedBy(published) /\ \A a \in Awaits : phase'[a] \in {"lost", PublishedPhase(published)[a]}
      BY <3>1
    <3> HIDE DEF published
    <3>4. Members(jobs') \subseteq Members(jobs) \cup Members(settled)
      BY <1>4, <3>2, <3>3, QueuedCalls
    <3> QED
      BY <3>2, <3>3, <3>4 DEF PublishedPhase
  <2>2. CASE JobFails(w)
    <3> DEFINE queue  == QueuedBy(settled)
               phases == PublishedPhase(settled)
    <3>1. queue # <<>> /\ jobs' = Tail(queue) /\ phase' = [phases EXCEPT ![Head(queue)] = "lost"]
      BY <2>2 DEF JobFails
    <3>2. Members(queue) = Members(Tail(queue)) \cup {Head(queue)}
      BY <3>1, FirstJob
    <3>3. /\ Members(queue) = Members(jobs) \cup (Members(settled) \ Direct)
          /\ phases \in [Awaits -> Phases]
          /\ \A a \in Awaits :
                /\ phases[a] \in {"new", "parked"} => phase[a] = phases[a]
                /\ phases[a] = "returned" => phase[a] = "returned" \/ a \in Members(settled)
      BY Publication
    <3> HIDE DEF queue, phases
    <3>4. \A a \in Awaits : phase'[a] \in {"lost", phases[a]}
      BY <3>1, <3>3
    <3> QED
      BY <3>1, <3>2, <3>3, <3>4
  <2> QED
    BY <2>1, <2>2
<1>6. ASSUME t \notin woken, LeftBehind(t) # {}
      PROVE  Quiet(t)'
  <2>1. Poised(t) /\ Members(settled) \subseteq FromPoll /\ Members(jobs) \subseteq HostSettled \cup FromPoll
    BY <1>1, <1>6 DEF Attentive, Poised
  <2>2. Members(jobs') \subseteq HostSettled \cup Stranded'
    BY <1>2, <1>5, <2>1
  <2>3. Reached'
    <3> SUFFICES ASSUME NEW a \in Awaits \cap begun, phase'[a] = "returned", result'[a] = "none"
                 PROVE  a \in polling \ {w}
      BY <1>3 DEF Reached
    <3>1. a \in Waiters /\ a # w /\ result[a] = "none"
      BY <1>2 DEF Waiters
    <3>2. a \notin Members(settled)
      BY <2>1 DEF IInv, TaskTypes
    <3> QED
      BY <1>5, <2>1, <3>1, <3>2 DEF Poised, Reached
  <2>4. InFlightWakes(t)' /\ (closed' => \A a \in Members(inFlight') : Wakeful(t, a)')
    BY <1>1, <1>3, <2>1 DEF Poised, InFlightWakes, Wakeful, Overlooked
  <2> QED
    BY <1>1, <2>2, <2>3, <2>4 DEF Quiet
<1> QED
  BY <1>2, <1>3, <1>5, <1>6 DEF Attentive

\* A step that wakes nobody ran no job and published nothing.
LEMMA SleepyStep ==
    ASSUME IInv, NEW w \in Waiters, Step(w), Owner[w] \notin woken'
    PROVE  /\ settled' = <<>> /\ jobs' = <<>>
           /\ UNCHANGED <<phase, inFlight, running, waker>>
<1> DEFINE phases   == PublishedPhase(settled)
           queue    == QueuedBy(settled)
           progress == Progress(queue # <<>>, settled # <<>>, inFlight = <<>>)
<1>1. /\ Polled(w, Wakes(w, progress)) /\ settled' = <<>> /\ waker' = waker
      /\ Jobs(queue, phases)
  BY DEF Step
<1>2. progress # "ready"
  BY <1>1 DEF Polled, Wakes
<1>3. queue = <<>> /\ settled = <<>>
  BY <1>2 DEF Progress
<1>4. /\ phase' = phases /\ jobs' = <<>> /\ UNCHANGED <<inFlight, running>>
  BY <1>1, <1>3 DEF Jobs
<1>5. phases = phase
  <2>1. Members(settled) = {}
    BY <1>3, EmptySequence
  <2> QED
    BY <2>1 DEF PublishedPhase, IInv, GuestTypes
<1> QED
  BY <1>1, <1>4, <1>5

LEMMA AttentiveAfterStep ==
    ASSUME IInv, NEW t \in Tasks, OwnedBy(t), Attentive(t), NEW w \in Waiters, Step(w)
    PROVE  Attentive(t)'
<1>1. \A a \in Awaits : phase'[a] = "parked" => phase[a] = "parked"
  <2> DEFINE phases == PublishedPhase(settled)
             queue  == QueuedBy(settled)
  <2>1. Jobs(queue, phases)
    BY DEF Step
  <2>2. /\ phases \in [Awaits -> Phases]
        /\ \A a \in Awaits : phases[a] \in {"new", "parked"} => phase[a] = phases[a]
    BY Publication
  <2> HIDE DEF phases, queue
  <2>3. \A a \in Awaits : phase'[a] \in {phases[a], "called", "returned"}
    BY <2>1, <2>2 DEF Jobs, RunJob
  <2> QED
    BY <2>2, <2>3
<1>2. /\ w \in polling /\ polling' = polling \ {w} /\ begun' = begun /\ closed' = closed
      /\ stepping = {w} /\ stepping' = {}
  BY DEF Step, Polled
<1>4. w \in Pending(t) /\ result[w] = "none"
  BY <1>2, OwnedPending DEF Attentive
<1>5. UNCHANGED result \/ Return(w, "idle")
  BY DEF Step, ReturnIdle
<1>6. \A v \in Waiters \ {w} : result'[v] = result[v]
  BY <1>5 DEF Return, IInv, ResultTypes
<1>7. polling' \subseteq Pending(t)'
  BY <1>2, <1>6 DEF Attentive, Pending, IInv, TaskTypes
<1>8. ASSUME t \notin woken', t \notin woken
      PROVE  Quiet(t)'
  <2>1. Owner[w] = t
    BY DEF OwnedBy
  <2>2. /\ settled' = <<>> /\ jobs' = <<>> /\ UNCHANGED <<phase, inFlight, running, waker>>
    BY <1>8, <2>1, SleepyStep
  <2>3. Poised(t)
    BY <1>2, <1>8 DEF Attentive
  <2>4. Reached'
    <3> SUFFICES ASSUME NEW a \in Awaits \cap begun, phase[a] = "returned", result'[a] = "none"
                 PROVE  a \in polling \ {w}
      BY <1>2, <2>2 DEF Reached
    <3>1. a # w
      BY <1>2, <2>3 DEF Poised
    <3>2. result[a] = "none"
      BY <1>6, <3>1 DEF Waiters
    <3> QED
      BY <2>3, <3>1, <3>2 DEF Poised, Reached
  <2>5. InFlightWakes(t)' /\ (closed' => \A a \in Members(inFlight') : Wakeful(t, a)')
    BY <1>2, <2>2, <2>3 DEF Poised, InFlightWakes, Wakeful, Overlooked
  <2> QED
    BY <2>2, <2>4, <2>5, EmptySequence DEF Quiet
<1>9. t \in woken => t \in woken'
  BY DEF Step, Polled
<1> QED
  BY <1>1, <1>2, <1>7, <1>8, <1>9 DEF Attentive

LEMMA AttentiveKept ==
    ASSUME NEW t \in Tasks, Attentive(t), UNCHANGED <<guestVars, running, result>>,
           UNCHANGED <<begun, woken, current, polling, stepping>>,
           closed' = closed \/ (polling = {} /\ stepping = {})
    PROVE  Attentive(t)'
BY DEF Attentive, LeftBehind, Pending, Quiet, Poised, Reached, InFlightWakes, Wakeful, Overlooked,
       Stranded, guestVars

LEMMA AttentiveIsInductive ==
    ASSUME IInv, NEW t \in Tasks, OwnedBy(t), Attentive(t), [Next]_vars
    PROVE  Attentive(t)'
<1>1. ASSUME NEW a \in Awaits, Start(a) \/ HostSettles(a) \/ Complete(a)
      PROVE  Attentive(t)'
  BY <1>1, AttentiveAfterStart, AttentiveAfterHostSettles, AttentiveAfterComplete
<1>2. ASSUME NEW w \in Idlers, StartIdler(w)
      PROVE  Attentive(t)'
  <2>1. /\ t \in woken' /\ begun' = begun \cup {w}
        /\ UNCHANGED <<guestVars, running, result, due, closed, current, polling>>
    BY <1>2 DEF StartIdler, OwnedBy, Waiters
  <2>2. polling' \subseteq Pending(t)'
    BY <2>1 DEF Attentive, Pending
  <2> QED
    BY <2>1, <2>2 DEF Attentive, guestVars
<1>3. ASSUME NEW u \in Tasks, RunTask(u)
      PROVE  Attentive(t)'
  BY <1>3, AttentiveAfterRunTask
<1>4. ASSUME NEW w \in Waiters, BecomeDue(w)
      PROVE  Attentive(t)'
  BY <1>4, AttentiveKept DEF BecomeDue, taskVars
<1>5. ASSUME NEW w \in Waiters, Poll(w)
      PROVE  Attentive(t)'
  BY <1>5, AttentiveAfterReturn, AttentiveAfterPollFutures, AttentiveAfterRefusal,
     AttentiveAfterFailure, AttentiveAfterStep DEF Poll
<1>6. CASE Close
  <2>1. polling = {} /\ stepping = {}
    BY <1>6 DEF Close, IInv, TaskTypes
  <2> QED
    BY <1>6, <2>1, AttentiveKept DEF Close, taskVars
<1>7. CASE UNCHANGED vars
  BY <1>7, AttentiveKept DEF vars, taskVars
<1> QED
  BY <1>1, <1>2, <1>3, <1>4, <1>5, <1>6, <1>7 DEF Next

LEMMA AttentiveNeverSleeps ==
    ASSUME IInv, NEW t \in Tasks, OwnedBy(t), Attentive(t)
    PROVE  NeverSleepsOnWork
<1> SUFFICES ASSUME current = {}, woken = {}, \E u \in Tasks : Pending(u) # {}
             PROVE  /\ settled = <<>>
                    /\ Members(jobs) \subseteq HostSettled \cup Stranded
                    /\ \A a \in Awaits \cap begun : phase[a] = "returned" => result[a] # "none"
                    /\ \A a \in Members(inFlight) :
                          (a \in running /\ \E u \in waker[a] : Pending(u) # {}) \/ Overlooked(a)
  BY DEF NeverSleepsOnWork
<1>1. Pending(t) # {}
  BY DEF Pending, OwnedBy, IInv, TaskTypes
<1>2. polling = {} /\ stepping = {} /\ LeftBehind(t) # {}
  BY <1>1 DEF Attentive, LeftBehind, IInv, TaskTypes
<1>3. Quiet(t)
  BY <1>2 DEF Attentive
<1> QED
  BY <1>1, <1>2, <1>3 DEF Quiet, Reached, InFlightWakes, Wakeful

\* When one task awaits everything, as join! in an application's main task does, the
\* executor never sleeps on work that could go on nor on a promise that has been settled:
\* each host call in flight will wake the task.  What host code called while a future was
\* polled is the exception.  With two tasks it may sleep (the last to poll takes the wakers
\* of both).
THEOREM OneTaskNeverSleeps ==
    ASSUME NEW t \in Tasks, OwnedBy(t)
    PROVE  Spec => []NeverSleepsOnWork
<1>1. Init => IInv /\ Attentive(t)
  BY InvariantHoldsAtFirst, AttentiveAtFirst
<1>2. (IInv /\ Attentive(t)) /\ [Next]_vars => (IInv /\ Attentive(t))'
  BY InvariantIsInductive, AttentiveIsInductive
<1>3. IInv /\ Attentive(t) => NeverSleepsOnWork
  BY AttentiveNeverSleeps
<1> QED
  BY <1>1, <1>2, <1>3, PTL DEF Spec

=============================================================================
