-------------------------- MODULE TranslationProofs --------------------------
(***************************************************************************)
(* Proofs about the translations that go step by step.                     *)
(*                                                                         *)
(* A specifier is joined to its referrer segment by segment: the segments  *)
(* are the words of the path that no climb has closed yet, and each is as  *)
(* far from being closed as there are segments from it on (Marks).  An     *)
(* iterator of the guest is gone through: the promise of a next, which the *)
(* iterator keeps, is the only item the application does not have          *)
(* (Promised). A view is looked at while the guest resizes and detaches    *)
(* the buffer it is of and answers for it: the window is within a buffer   *)
(* as it is when the answers are in (SoundWorld, Reaches). The arguments   *)
(* of a call are taken one after the other: as many are consumed as there  *)
(* are parameters before that have a place of their own (CallableInv).     *)
(* Files are added to a builder: it has failed exactly if one is broken or *)
(* in the place of another (BundleInv). An error is passed on: the value   *)
(* of its exception stands for it, and it has its class as long as it has  *)
(* been in one guest alone (Arrives).                                      *)
(***************************************************************************)
EXTENDS Resolver, Iterators, Views, Callables, Bundles, Exceptions, FiniteSetTheorems, SequenceTheorems, TLAPS

-----------------------------------------------------------------------------
(* A function on the first numbers is a sequence. *)

LEMMA FunctionIsSeq ==
    ASSUME NEW S, NEW n \in Nat, NEW f \in [1..n -> S]
    PROVE  f \in Seq(S) /\ Len(f) = n
<1>1. f = [i \in 1..n |-> f[i]] /\ \A i \in 1..n : f[i] \in S
  OBVIOUS
<1>2. [i \in 1..n |-> f[i]] \in Seq(S)
  BY <1>1, IsASeq
<1>3. f \in Seq(S)
  BY <1>1, <1>2
<1>4. DOMAIN f = 1..Len(f) /\ DOMAIN f = 1..n /\ Len(f) \in Nat
  BY <1>3, LenProperties
<1>5. CASE Len(f) < n
  <2>1. n \in 1..n /\ n \notin 1..Len(f)
    BY <1>4, <1>5
  <2> QED
    BY <2>1, <1>4
<1>6. CASE n < Len(f)
  <2>1. Len(f) \in 1..Len(f) /\ Len(f) \notin 1..n
    BY <1>4, <1>6
  <2> QED
    BY <2>1, <1>4
<1> QED
  BY <1>3, <1>4, <1>5, <1>6

-----------------------------------------------------------------------------
(* Counting the words and the climbs of a path. *)

Up == {".."}

LEMMA UpIsNoWord == Words \cap Up = {} /\ "" \notin Words /\ "." \notin Words /\ "" \notin Up /\ "." \notin Up
BY WordsAssumption DEF Up

LEMMA CountedAreFinite ==
    ASSUME NEW path, NEW i \in Nat, NEW j \in Nat, NEW S
    PROVE  IsFiniteSet({k \in i..j : path[k] \in S})
<1>1. IsFiniteSet(i..j)
  BY FS_Interval
<1> QED
  BY <1>1, FS_Subset

LEMMA CountIsNat ==
    ASSUME NEW path, NEW i \in Nat, NEW j \in Nat, NEW S
    PROVE  Count(path, i, j, S) \in Nat
BY CountedAreFinite, FS_CardinalityType DEF Count

LEMMA CountOfNone ==
    ASSUME NEW path, NEW i \in Nat, NEW j \in Nat, NEW S, \A k \in i..j : path[k] \notin S
    PROVE  Count(path, i, j, S) = 0
<1>1. {k \in i..j : path[k] \in S} = {}
  OBVIOUS
<1> QED
  BY <1>1, FS_EmptySet DEF Count

LEMMA CountOfAll ==
    ASSUME NEW path, NEW i \in Nat, NEW j \in Nat, NEW S, i <= j + 1, \A k \in i..j : path[k] \in S
    PROVE  Count(path, i, j, S) = j + 1 - i
<1>1. {k \in i..j : path[k] \in S} = i..j
  OBVIOUS
<1>2. Cardinality(i..j) = IF i > j THEN 0 ELSE j - i + 1
  BY FS_Interval
<1>3. Count(path, i, j, S) = Cardinality(i..j)
  BY <1>1 DEF Count
<1> QED
  BY <1>2, <1>3

\* One segment more.
LEMMA CountNext ==
    ASSUME NEW path, NEW i \in Nat, NEW j \in Nat, NEW S, i <= j + 1
    PROVE  Count(path, i, j + 1, S) = IF path[j + 1] \in S THEN Count(path, i, j, S) + 1 ELSE Count(path, i, j, S)
<1> DEFINE T(n) == {k \in i..n : path[k] \in S}
<1>1. IsFiniteSet(T(j)) /\ j + 1 \notin T(j)
  <2>1. IsFiniteSet(T(j))
    BY CountedAreFinite
  <2>2. j + 1 \notin i..j
    OBVIOUS
  <2> QED
    BY <2>1, <2>2
<1>2. CASE path[j + 1] \in S
  <2>1. T(j + 1) = T(j) \cup {j + 1}
    BY <1>2
  <2>2. Cardinality(T(j) \cup {j + 1}) = Cardinality(T(j)) + 1
    <3> HIDE DEF T
    <3> QED
      BY <1>1, FS_AddElement
  <2> QED
    BY <1>2, <2>1, <2>2 DEF Count
<1>3. CASE path[j + 1] \notin S
  <2>1. T(j + 1) = T(j)
    BY <1>3
  <2> QED
    BY <1>3, <2>1 DEF Count
<1> QED
  BY <1>2, <1>3

-----------------------------------------------------------------------------
(* The words that no climb closes, of the first n segments of a path. *)

OpenAt(path, n) == {i \in 1..n :
    /\ path[i] \in Words
    /\ \A j \in i..n : Count(path, i, j, Up) < Count(path, i, j, Words)}

LEMMA OpenNext ==
    ASSUME NEW path, NEW n \in Nat
    PROVE  \A i : i \in OpenAt(path, n + 1) <=>
             \/ i \in OpenAt(path, n) /\ Count(path, i, n + 1, Up) < Count(path, i, n + 1, Words)
             \/ i = n + 1 /\ path[n + 1] \in Words
<1> SUFFICES ASSUME NEW i
             PROVE  i \in OpenAt(path, n + 1) <=>
                      \/ i \in OpenAt(path, n) /\ Count(path, i, n + 1, Up) < Count(path, i, n + 1, Words)
                      \/ i = n + 1 /\ path[n + 1] \in Words
  OBVIOUS
<1>1. CASE i \in 1..n
  <2>1. \A j : j \in i..(n + 1) <=> j \in i..n \/ j = n + 1
    BY <1>1
  <2>2. i # n + 1 /\ i \in 1..(n + 1)
    BY <1>1
  <2> QED
    BY <1>1, <2>1, <2>2 DEF OpenAt
<1>2. CASE i = n + 1
  <2>1. i \notin 1..n /\ i \in 1..(n + 1) /\ i..(n + 1) = {n + 1} /\ n + 1 \in Nat
    BY <1>2
  <2>2. path[n + 1] \in Words => Count(path, i, n + 1, Up) = 0 /\ Count(path, i, n + 1, Words) = 1
    <3> SUFFICES ASSUME path[n + 1] \in Words
                 PROVE  Count(path, i, n + 1, Up) = 0 /\ Count(path, i, n + 1, Words) = 1
      OBVIOUS
    <3>1. \A k \in i..(n + 1) : path[k] \notin Up /\ path[k] \in Words
      BY <2>1, UpIsNoWord
    <3>2. Count(path, i, n + 1, Up) = 0
      BY <1>2, <2>1, <3>1, CountOfNone
    <3>3. Count(path, i, n + 1, Words) = (n + 1) + 1 - i
      BY <1>2, <2>1, <3>1, CountOfAll
    <3> QED
      BY <1>2, <3>2, <3>3
  <2> QED
    BY <1>2, <2>1, <2>2 DEF OpenAt
<1>3. CASE i \notin 1..n /\ i # n + 1
  <2>1. i \notin 1..(n + 1)
    BY <1>3
  <2> QED
    BY <1>3, <2>1 DEF OpenAt
<1> QED
  BY <1>1, <1>2, <1>3

\* The segments s stand at the places e, which are the open words; and each of them is
\* as far from being closed as there are segments from it on.
Marks(path, n, s, e) ==
    /\ \A k \in 1..Len(s) : e[k] \in 1..n /\ s[k] = path[e[k]]
    /\ \A k, l \in 1..Len(s) : k < l => e[k] < e[l]
    /\ \A i : i \in OpenAt(path, n) <=> \E k \in 1..Len(s) : i = e[k]
    /\ \A k \in 1..Len(s) : Count(path, e[k], n, Words) = Count(path, e[k], n, Up) + (Len(s) + 1 - k)
    /\ Count(path, 1, n, Words) = Count(path, 1, n, Up) + Len(s)

LEMMA MarksAtFirst ==
    ASSUME NEW path, NEW n \in Nat, NEW s, Len(s) = n, \A k \in 1..n : path[k] \in Words /\ s[k] = path[k]
    PROVE  Marks(path, n, s, [k \in 1..n |-> k])
<1> DEFINE e == [k \in 1..n |-> k]
<1>1. \A k \in 1..n : e[k] = k
  OBVIOUS
<1> HIDE DEF e
<1>2. \A i \in 1..(n + 1), j \in 0..n : i <= j + 1 => Count(path, i, j, Up) = 0 /\ Count(path, i, j, Words) = j + 1 - i
  <2> SUFFICES ASSUME NEW i \in 1..(n + 1), NEW j \in 0..n, i <= j + 1
               PROVE  Count(path, i, j, Up) = 0 /\ Count(path, i, j, Words) = j + 1 - i
    OBVIOUS
  <2>1. \A k \in i..j : path[k] \in Words /\ path[k] \notin Up
    <3>1. \A k \in i..j : k \in 1..n
      OBVIOUS
    <3> QED
      BY <3>1, UpIsNoWord
  <2>2. i \in Nat /\ j \in Nat
    OBVIOUS
  <2>3. Count(path, i, j, Up) = 0
    BY <2>1, <2>2, CountOfNone
  <2>4. Count(path, i, j, Words) = j + 1 - i
    BY <2>1, <2>2, CountOfAll
  <2> QED
    BY <2>3, <2>4
<1>3. \A i : i \in OpenAt(path, n) <=> i \in 1..n
  <2>1. \A i \in 1..n : \A j \in i..n : j \in 0..n /\ i \in 1..(n + 1) /\ i <= j + 1 /\ 0 < j + 1 - i
    OBVIOUS
  <2> QED
    BY <1>2, <2>1 DEF OpenAt
<1>4. \A k \in 1..n : Count(path, k, n, Words) = n + 1 - k /\ Count(path, k, n, Up) = 0
  <2>1. \A k \in 1..n : k \in 1..(n + 1) /\ n \in 0..n /\ k <= n + 1
    OBVIOUS
  <2> QED
    BY <1>2, <2>1
<1>5. Count(path, 1, n, Words) = n /\ Count(path, 1, n, Up) = 0
  <2>1. 1 \in 1..(n + 1) /\ n \in 0..n /\ 1 <= n + 1
    OBVIOUS
  <2> QED
    BY <1>2, <2>1
<1> QED
  BY <1>1, <1>3, <1>4, <1>5 DEF Marks, e

\* A segment that is neither a word nor a climb.
LEMMA MarksBeside ==
    ASSUME NEW path, NEW n \in Nat, NEW s, NEW e, Marks(path, n, s, e), Len(s) \in Nat,
           path[n + 1] \notin Words, path[n + 1] \notin Up
    PROVE  Marks(path, n + 1, s, e)
<1>1. \A i \in 1..(n + 1) : \A S \in {Words, Up} : Count(path, i, n + 1, S) = Count(path, i, n, S)
  <2>1. \A i \in 1..(n + 1) : i \in Nat /\ i <= n + 1
    OBVIOUS
  <2> QED
    BY <2>1, CountNext
<1>2. 1 \in 1..(n + 1) /\ \A i \in 1..n : i \in 1..(n + 1)
  OBVIOUS
<1>3. \A i \in 1..n : Count(path, i, n, Up) \in Nat
  BY CountIsNat
<1>4. \A i : i \in OpenAt(path, n + 1) <=> i \in OpenAt(path, n)
  <2>1. \A i \in OpenAt(path, n) : i \in 1..n /\ n \in i..n /\ Count(path, i, n, Up) < Count(path, i, n, Words)
    BY DEF OpenAt
  <2> QED
    BY <1>1, <1>2, <2>1, OpenNext
<1> QED
  BY <1>1, <1>2, <1>4 DEF Marks

\* A word is open.
LEMMA MarksWithWord ==
    ASSUME NEW path, NEW n \in Nat, NEW s, NEW e, NEW t, Marks(path, n, s, e), Len(s) \in Nat,
           path[n + 1] \in Words, Len(t) = Len(s) + 1,
           t[Len(s) + 1] = path[n + 1], \A k \in 1..Len(s) : t[k] = s[k]
    PROVE  Marks(path, n + 1, t, [k \in 1..(Len(s) + 1) |-> IF k = Len(s) + 1 THEN n + 1 ELSE e[k]])
<1> DEFINE m == Len(s)
           f == [k \in 1..(Len(s) + 1) |-> IF k = Len(s) + 1 THEN n + 1 ELSE e[k]]
<1>1. m \in Nat /\ Len(t) = m + 1 /\ f[m + 1] = n + 1 /\ \A k \in 1..m : f[k] = e[k]
  OBVIOUS
<1>2. \A k \in 1..(m + 1) : k \in 1..m \/ k = m + 1
  BY <1>1
<1>3. \A k \in 1..m : k \in 1..(m + 1) /\ k < m + 1 /\ ~(m + 1 < k)
  BY <1>1
<1> HIDE DEF m, f
<1>4. /\ \A k \in 1..m : e[k] \in 1..n /\ s[k] = path[e[k]]
      /\ \A k, l \in 1..m : k < l => e[k] < e[l]
      /\ \A i : i \in OpenAt(path, n) <=> \E k \in 1..m : i = e[k]
      /\ \A k \in 1..m : Count(path, e[k], n, Words) = Count(path, e[k], n, Up) + (m + 1 - k)
      /\ Count(path, 1, n, Words) = Count(path, 1, n, Up) + m
  BY DEF Marks, m
<1>5. path[n + 1] \notin Up
  BY UpIsNoWord
<1>6. \A i \in 1..(n + 1) : /\ Count(path, i, n + 1, Words) = Count(path, i, n, Words) + 1
                            /\ Count(path, i, n + 1, Up) = Count(path, i, n, Up)
                            /\ Count(path, i, n, Words) \in Nat /\ Count(path, i, n, Up) \in Nat
  <2>1. \A i \in 1..(n + 1) : i \in Nat /\ i <= n + 1
    OBVIOUS
  <2>2. \A i \in 1..(n + 1) : Count(path, i, n, Words) \in Nat /\ Count(path, i, n, Up) \in Nat
    BY <2>1, CountIsNat
  <2>3. \A i \in 1..(n + 1) : \A S : Count(path, i, n + 1, S) =
                                IF path[n + 1] \in S THEN Count(path, i, n, S) + 1 ELSE Count(path, i, n, S)
    BY <2>1, CountNext
  <2> QED
    BY <1>5, <2>2, <2>3
<1>7. 1 \in 1..(n + 1) /\ n + 1 \in 1..(n + 1) /\ \A i \in 1..n : i \in 1..(n + 1) /\ i < n + 1
  OBVIOUS
<1>8. \A k \in 1..(m + 1) : f[k] \in 1..(n + 1) /\ t[k] = path[f[k]]
  BY <1>1, <1>2, <1>4, <1>7 DEF m
<1>9. \A k, l \in 1..(m + 1) : k < l => f[k] < f[l]
  <2> SUFFICES ASSUME NEW k \in 1..(m + 1), NEW l \in 1..(m + 1), k < l
               PROVE  f[k] < f[l]
    OBVIOUS
  <2>1. k \in 1..m
    BY <1>1
  <2>2. CASE l = m + 1
    BY <1>1, <1>4, <1>7, <2>1, <2>2
  <2>3. CASE l \in 1..m
    BY <1>1, <1>4, <2>1, <2>3
  <2> QED
    BY <1>2, <2>2, <2>3
<1>10. \A i : i \in OpenAt(path, n + 1) <=> \E k \in 1..(m + 1) : i = f[k]
  <2>1. \A i \in OpenAt(path, n) : Count(path, i, n + 1, Up) < Count(path, i, n + 1, Words)
    <3>1. \A i \in OpenAt(path, n) : i \in 1..n /\ n \in i..n /\ Count(path, i, n, Up) < Count(path, i, n, Words)
      BY DEF OpenAt
    <3> QED
      BY <1>6, <1>7, <3>1
  <2>2. \A i : i \in OpenAt(path, n + 1) <=> i \in OpenAt(path, n) \/ i = n + 1
    BY <2>1, OpenNext
  <2>3. \A i : (\E k \in 1..(m + 1) : i = f[k]) <=> (\E k \in 1..m : i = e[k]) \/ i = n + 1
    <3>1. m + 1 \in 1..(m + 1)
      BY <1>1
    <3> QED
      BY <1>1, <1>2, <1>3, <3>1
  <2>4. \A i : i \in OpenAt(path, n) <=> \E k \in 1..m : i = e[k]
    BY <1>4
  <2> SUFFICES ASSUME NEW i
               PROVE  i \in OpenAt(path, n + 1) <=> \E k \in 1..(m + 1) : i = f[k]
    OBVIOUS
  <2>5. i \in OpenAt(path, n + 1) <=> i \in OpenAt(path, n) \/ i = n + 1
    BY <2>2
  <2>6. (\E k \in 1..(m + 1) : i = f[k]) <=> (\E k \in 1..m : i = e[k]) \/ i = n + 1
    BY <2>3
  <2>7. i \in OpenAt(path, n) <=> \E k \in 1..m : i = e[k]
    BY <2>4
  <2> QED
    BY <2>5, <2>6, <2>7
<1>11. \A k \in 1..(m + 1) : Count(path, f[k], n + 1, Words) = Count(path, f[k], n + 1, Up) + ((m + 1) + 1 - k)
  <2>1. ASSUME NEW k \in 1..m
        PROVE  Count(path, f[k], n + 1, Words) = Count(path, f[k], n + 1, Up) + ((m + 1) + 1 - k)
    <3> DEFINE w == Count(path, e[k], n, Words)
               u == Count(path, e[k], n, Up)
    <3>1. f[k] = e[k] /\ e[k] \in 1..n /\ e[k] \in 1..(n + 1)
      BY <1>1, <1>4, <1>7
    <3>2. /\ w = u + (m + 1 - k) /\ w \in Nat /\ u \in Nat
          /\ Count(path, f[k], n + 1, Words) = w + 1 /\ Count(path, f[k], n + 1, Up) = u
      BY <1>4, <1>6, <3>1
    <3> HIDE DEF w, u
    <3> QED
      BY <1>1, <3>2
  <2>2. Count(path, n + 1, n + 1, Words) = Count(path, n + 1, n + 1, Up) + ((m + 1) + 1 - (m + 1))
    <3>1. \A j \in (n + 1)..n : path[j] \notin Words /\ path[j] \notin Up
      OBVIOUS
    <3>2. Count(path, n + 1, n, Words) = 0 /\ Count(path, n + 1, n, Up) = 0
      BY <3>1, CountOfNone
    <3> QED
      BY <1>1, <1>6, <1>7, <3>2
  <2> QED
    BY <1>1, <1>2, <2>1, <2>2
<1>12. Count(path, 1, n + 1, Words) = Count(path, 1, n + 1, Up) + (m + 1)
  <2> DEFINE w == Count(path, 1, n, Words)
             u == Count(path, 1, n, Up)
  <2>1. /\ w = u + m /\ w \in Nat /\ u \in Nat
        /\ Count(path, 1, n + 1, Words) = w + 1 /\ Count(path, 1, n + 1, Up) = u
    BY <1>4, <1>6, <1>7
  <2> HIDE DEF w, u
  <2> QED
    BY <1>1, <2>1
<1> QED
  BY <1>1, <1>8, <1>9, <1>10, <1>11, <1>12 DEF Marks, f, m

\* A climb closes the last word that is open.
LEMMA MarksAfterUp ==
    ASSUME NEW path, NEW n \in Nat, NEW s, NEW e, NEW t, Marks(path, n, s, e), Len(s) \in Nat,
           path[n + 1] \in Up, Len(t) \in Nat, Len(s) = Len(t) + 1, \A k \in 1..Len(t) : t[k] = s[k]
    PROVE  Marks(path, n + 1, t, e)
<1> DEFINE m == Len(t)
<1>1. m \in Nat /\ Len(s) = m + 1 /\ \A k \in 1..m : k \in 1..(m + 1)
  OBVIOUS
<1> HIDE DEF m
<1>2. /\ \A k \in 1..(m + 1) : e[k] \in 1..n /\ s[k] = path[e[k]]
      /\ \A k, l \in 1..(m + 1) : k < l => e[k] < e[l]
      /\ \A i : i \in OpenAt(path, n) <=> \E k \in 1..(m + 1) : i = e[k]
      /\ \A k \in 1..(m + 1) : Count(path, e[k], n, Words) = Count(path, e[k], n, Up) + ((m + 1) + 1 - k)
      /\ Count(path, 1, n, Words) = Count(path, 1, n, Up) + (m + 1)
  BY <1>1 DEF Marks
<1>3. path[n + 1] \notin Words
  BY UpIsNoWord
<1>4. \A i \in 1..(n + 1) : /\ Count(path, i, n + 1, Words) = Count(path, i, n, Words)
                            /\ Count(path, i, n + 1, Up) = Count(path, i, n, Up) + 1
                            /\ Count(path, i, n, Words) \in Nat /\ Count(path, i, n, Up) \in Nat
  <2>1. \A i \in 1..(n + 1) : i \in Nat /\ i <= n + 1
    OBVIOUS
  <2>2. \A i \in 1..(n + 1) : Count(path, i, n, Words) \in Nat /\ Count(path, i, n, Up) \in Nat
    BY <2>1, CountIsNat
  <2>3. \A i \in 1..(n + 1) : \A S : Count(path, i, n + 1, S) =
                                IF path[n + 1] \in S THEN Count(path, i, n, S) + 1 ELSE Count(path, i, n, S)
    BY <2>1, CountNext
  <2> QED
    BY <1>3, <2>2, <2>3
<1>5. 1 \in 1..(n + 1) /\ \A i \in 1..n : i \in 1..(n + 1)
  OBVIOUS
<1>6. \A k \in 1..(m + 1) : Count(path, e[k], n + 1, Words) = Count(path, e[k], n + 1, Up) + (m + 1 - k)
  <2> SUFFICES ASSUME NEW k \in 1..(m + 1)
               PROVE  Count(path, e[k], n + 1, Words) = Count(path, e[k], n + 1, Up) + (m + 1 - k)
    OBVIOUS
  <2> DEFINE w == Count(path, e[k], n, Words)
             u == Count(path, e[k], n, Up)
  <2>1. /\ w = u + ((m + 1) + 1 - k) /\ w \in Nat /\ u \in Nat
        /\ Count(path, e[k], n + 1, Words) = w /\ Count(path, e[k], n + 1, Up) = u + 1
    BY <1>2, <1>4, <1>5
  <2> HIDE DEF w, u
  <2>2. w = (u + 1) + (m + 1 - k)
    BY <1>1, <2>1
  <2> QED
    BY <2>1, <2>2
<1>7. \A k \in 1..(m + 1) : Count(path, e[k], n + 1, Up) < Count(path, e[k], n + 1, Words) <=> k \in 1..m
  <2> SUFFICES ASSUME NEW k \in 1..(m + 1)
               PROVE  Count(path, e[k], n + 1, Up) < Count(path, e[k], n + 1, Words) <=> k \in 1..m
    OBVIOUS
  <2> DEFINE w == Count(path, e[k], n + 1, Words)
             u == Count(path, e[k], n + 1, Up)
  <2>1. w = u + (m + 1 - k) /\ u \in Nat
    <3>1. e[k] \in Nat /\ n + 1 \in Nat
      BY <1>2
    <3>2. u \in Nat
      BY <3>1, CountIsNat
    <3> QED
      BY <1>6, <3>2
  <2> HIDE DEF w, u
  <2>2. u < w <=> k \in 1..m
    BY <1>1, <2>1
  <2> QED
    BY <2>2 DEF w, u
<1>8. \A i : i \in OpenAt(path, n + 1) <=> \E k \in 1..m : i = e[k]
  <2>1. \A i : i \in OpenAt(path, n + 1) <=>
                 i \in OpenAt(path, n) /\ Count(path, i, n + 1, Up) < Count(path, i, n + 1, Words)
    BY <1>3, OpenNext
  <2> QED
    BY <1>1, <1>2, <1>7, <2>1
<1>9. Count(path, 1, n + 1, Words) = Count(path, 1, n + 1, Up) + m
  <2> DEFINE w == Count(path, 1, n, Words)
             u == Count(path, 1, n, Up)
  <2>1. /\ w = u + (m + 1) /\ w \in Nat /\ u \in Nat
        /\ Count(path, 1, n + 1, Words) = w /\ Count(path, 1, n + 1, Up) = u + 1
    BY <1>2, <1>4, <1>5
  <2> HIDE DEF w, u
  <2> QED
    BY <1>1, <2>1
<1>10. \A k \in 1..m : e[k] \in 1..(n + 1) /\ t[k] = path[e[k]]
  BY <1>1, <1>2, <1>5 DEF m
<1>11. \A k, l \in 1..m : k < l => e[k] < e[l]
  BY <1>1, <1>2
<1> QED
  BY <1>1, <1>6, <1>8, <1>9, <1>10, <1>11 DEF Marks, m

-----------------------------------------------------------------------------
(* The open words in their order are the segments. *)

LEMMA AscendingCount ==
    ASSUME NEW m \in Nat, NEW e, \A k, l \in 1..m : k < l => e[k] < e[l],
           \A k \in 1..m : e[k] \in Nat
    PROVE  IsFiniteSet({e[k] : k \in 1..m}) /\ Cardinality({e[k] : k \in 1..m}) = m
<1> DEFINE T == {e[k] : k \in 1..m}
           f == [k \in 1..m |-> e[k]]
<1>1. \A k, l \in 1..m : e[k] = e[l] => k = l
  <2> SUFFICES ASSUME NEW k \in 1..m, NEW l \in 1..m, e[k] = e[l], k # l
               PROVE  FALSE
    OBVIOUS
  <2>1. k < l \/ l < k
    OBVIOUS
  <2>2. e[k] \in Nat /\ e[l] \in Nat
    OBVIOUS
  <2> QED
    BY <2>1, <2>2
<1>2. f \in [1..m -> T] /\ \A k \in 1..m : f[k] = e[k]
  OBVIOUS
<1>3. \A y \in T : \E k \in 1..m : f[k] = y
  OBVIOUS
<1> HIDE DEF T, f
<1>4. f \in Bijection(1..m, T)
  BY <1>1, <1>2, <1>3 DEF Bijection, Injection, Surjection, IsInjective
<1>5. ExistsBijection(1..m, T)
  BY <1>4 DEF ExistsBijection
<1>6. IsFiniteSet(1..m) /\ Cardinality(1..m) = m
  BY FS_Interval
<1>7. IsFiniteSet(T) /\ Cardinality(T) = Cardinality(1..m)
  BY <1>5, <1>6, FS_Bijection
<1> QED
  BY <1>6, <1>7 DEF T

LEMMA MarksAtLast ==
    ASSUME NEW path, NEW s, NEW e, Len(path) \in Nat, Len(s) \in Nat,
           s = [k \in 1..Len(s) |-> s[k]], DOMAIN path = 1..Len(path), Marks(path, Len(path), s, e)
    PROVE  OpenWords(path) = s /\ (Unclosed(path) = {} <=> Len(s) = 0)
<1> DEFINE m == Len(s)
           open == Unclosed(path)
<1>1. m \in Nat /\ s = [k \in 1..m |-> s[k]]
  OBVIOUS
<1>2. open = OpenAt(path, Len(path))
  BY DEF Unclosed, OpenAt, Up
<1> HIDE DEF m, open
<1>3. /\ \A k \in 1..m : e[k] \in Nat /\ s[k] = path[e[k]]
      /\ \A k, l \in 1..m : k < l => e[k] < e[l]
      /\ \A i : i \in open <=> \E k \in 1..m : i = e[k]
  BY <1>2 DEF Marks, m
<1>4. open = {e[k] : k \in 1..m}
  BY <1>3
<1>5. Cardinality(open) = m
  BY <1>1, <1>3, <1>4, AscendingCount
<1>6. \A k \in 1..m : Rank(path, e[k]) = k
  <2> SUFFICES ASSUME NEW k \in 1..m
               PROVE  Rank(path, e[k]) = k
    OBVIOUS
  <2>1. k \in Nat /\ \A l \in 1..k : l \in 1..m
    BY <1>1
  <2>2. Cardinality({e[l] : l \in 1..k}) = k
    BY <1>3, <2>1, AscendingCount
  <2>3. \A l \in 1..m : e[l] <= e[k] <=> l \in 1..k
    <3> SUFFICES ASSUME NEW l \in 1..m
                 PROVE  e[l] <= e[k] <=> l \in 1..k
      OBVIOUS
    <3>1. e[l] \in Nat /\ e[k] \in Nat
      BY <1>3
    <3>2. l < k \/ l = k \/ k < l
      BY <1>1
    <3>3. l < k => e[l] < e[k]
      BY <1>3
    <3>4. k < l => e[k] < e[l]
      BY <1>3
    <3>5. l \in 1..k <=> ~(k < l)
      BY <1>1
    <3> QED
      BY <3>1, <3>2, <3>3, <3>4, <3>5
  <2>4. {j \in open : j <= e[k]} = {e[l] : l \in 1..k}
    BY <1>4, <2>1, <2>3
  <2> QED
    BY <2>2, <2>4 DEF Rank, open
<1>7. \A k \in 1..m : (CHOOSE i \in open : Rank(path, i) = k) = e[k]
  <2> SUFFICES ASSUME NEW k \in 1..m
               PROVE  (CHOOSE i \in open : Rank(path, i) = k) = e[k]
    OBVIOUS
  <2>1. e[k] \in open /\ Rank(path, e[k]) = k
    BY <1>3, <1>6
  <2>2. \A i \in open : Rank(path, i) = k => i = e[k]
    <3> SUFFICES ASSUME NEW i \in open, Rank(path, i) = k
                 PROVE  i = e[k]
      OBVIOUS
    <3>1. PICK l \in 1..m : i = e[l]
      BY <1>3
    <3> QED
      BY <1>6, <3>1
  <2> QED
    BY <2>1, <2>2
<1>8. OpenWords(path) = [k \in 1..m |-> path[CHOOSE i \in open : Rank(path, i) = k]]
  BY <1>5 DEF OpenWords, open
<1>9. \A k \in 1..m : path[CHOOSE i \in open : Rank(path, i) = k] = s[k]
  BY <1>3, <1>7
<1>10. OpenWords(path) = s
  <2>1. [k \in 1..m |-> path[CHOOSE i \in open : Rank(path, i) = k]] = [k \in 1..m |-> s[k]]
    BY <1>9, Zenon
  <2> QED
    BY <1>1, <1>8, <2>1, Zenon
<1>11. open = {} <=> m = 0
  <2>1. m # 0 => 1 \in 1..m
    BY <1>1
  <2>2. m = 0 => \A k \in 1..m : FALSE
    OBVIOUS
  <2> QED
    BY <1>3, <2>1, <2>2
<1> QED
  BY <1>10, <1>11 DEF open, m

-----------------------------------------------------------------------------
(* Joining a specifier to its referrer. *)

Base    == Directory(referrer)
Whole   == Path(referrer, specifier)
Reached == Len(Base) + position

PathTypes ==
    /\ referrer = <<"">> \/ (referrer \in Seq(Words) /\ referrer # <<>>)
    /\ specifier \in Seq(Segments) /\ specifier # <<>>
    /\ position \in 0..Len(specifier)
    /\ segments \in Seq(Words)

\* As far as the path was gone through, the segments are its open words, it did not leave
\* its root and had no empty segment of the specifier.
JoinedSoFar ==
    outcome = Unresolved =>
        /\ \E e : Marks(Whole, Reached, segments, e)
        /\ \A j \in 1..Reached : Count(Whole, 1, j, Up) <= Count(Whole, 1, j, Words)
        /\ \A k \in 1..position : specifier[k] # ""

ResolverInv == PathTypes /\ JoinedSoFar /\ ResolvesAsReference

LEMMA FrontIs ==
    ASSUME NEW S, NEW s, s \in Seq(S), s # <<>>
    PROVE  /\ Len(s) \in Nat /\ Len(s) - 1 \in Nat /\ Front(s) \in Seq(S) /\ Len(Front(s)) = Len(s) - 1
           /\ \A i \in 1..(Len(s) - 1) : Front(s)[i] = s[i]
           /\ Len(s) \in 1..Len(s)
<1> DEFINE n == Len(s)
<1>1. n \in Nat /\ n # 0 /\ \A i \in 1..n : s[i] \in S
  BY EmptySeq, LenProperties, ElementOfSeq
<1> HIDE DEF n
<1>2. n - 1 \in Nat /\ n \in 1..n /\ \A i \in 1..(n - 1) : i \in 1..n
  BY <1>1
<1>3. Front(s) = SubSeq(s, 1, n - 1)
  BY DEF Front, n
<1>4. /\ SubSeq(s, 1, n - 1) \in Seq(S)
      /\ Len(SubSeq(s, 1, n - 1)) = IF 1 <= n - 1 THEN (n - 1) - 1 + 1 ELSE 0
      /\ \A i \in 1..((n - 1) - 1 + 1) : SubSeq(s, 1, n - 1)[i] = s[1 + i - 1]
  BY <1>1, <1>2, SubSeqProperties
<1>5. (IF 1 <= n - 1 THEN (n - 1) - 1 + 1 ELSE 0) = n - 1 /\ (n - 1) - 1 + 1 = n - 1
  BY <1>2
<1>6. \A i \in 1..(n - 1) : 1 + i - 1 = i
  OBVIOUS
<1> QED
  BY <1>1, <1>2, <1>3, <1>4, <1>5, <1>6 DEF n

LEMMA OneSegment ==
    ASSUME NEW x
    PROVE  Front(<<x>>) = <<>>
<1>1. Len(<<x>>) - 1 = 0
  OBVIOUS
<1>2. SubSeq(<<x>>, 1, 0) = <<>>
  BY SubSeqEmpty
<1> QED
  BY <1>1, <1>2 DEF Front

LEMMA BaseIs ==
    ASSUME referrer = <<"">> \/ (referrer \in Seq(Words) /\ referrer # <<>>)
    PROVE  Base \in Seq(Words)
<1>1. CASE referrer = <<"">>
  <2>1. Front(referrer) = <<>>
    BY <1>1, OneSegment
  <2> QED
    BY <2>1, EmptySeq DEF Base, Directory
<1>2. CASE referrer # <<"">>
  BY <1>2, FrontIs DEF Base, Directory
<1> QED
  BY <1>1, <1>2

LEMMA WholeIs ==
    ASSUME PathTypes
    PROVE  /\ Len(Base) \in Nat /\ Len(specifier) \in Nat
           /\ Len(Whole) = Len(Base) + Len(specifier) /\ Len(Whole) \in Nat /\ DOMAIN Whole = 1..Len(Whole)
           /\ \A k \in 1..Len(Base) : Whole[k] = Base[k] /\ Base[k] \in Words
           /\ \A k \in 1..Len(specifier) : Whole[Len(Base) + k] = specifier[k] /\ specifier[k] \in Segments
<1> DEFINE b == Len(Base)
           c == Len(specifier)
<1>1. Base \in Seq(Words) /\ specifier \in Seq(Segments)
  BY BaseIs DEF PathTypes
<1>2. Base \in Seq(Segments)
  BY <1>1, SeqMonotonic DEF Segments
<1>3. /\ b \in Nat /\ c \in Nat /\ \A k \in 1..b : Base[k] \in Words
      /\ \A k \in 1..c : specifier[k] \in Segments
  BY <1>1, LenProperties, ElementOfSeq
<1>4. /\ Whole \in Seq(Segments) /\ Len(Whole) = b + c
      /\ \A i \in 1..(b + c) : Whole[i] = IF i <= b THEN Base[i] ELSE specifier[i - b]
  BY <1>1, <1>2, ConcatProperties DEF Whole, Path, Base
<1>5. Len(Whole) \in Nat /\ DOMAIN Whole = 1..Len(Whole)
  BY <1>4, LenProperties
<1> HIDE DEF b, c
<1>6. \A k \in 1..b : Whole[k] = Base[k]
  <2>1. \A k \in 1..b : k \in 1..(b + c) /\ k <= b
    BY <1>3
  <2> QED
    BY <1>4, <2>1
<1>7. \A k \in 1..c : Whole[b + k] = specifier[k]
  <2>1. \A k \in 1..c : b + k \in 1..(b + c) /\ ~(b + k <= b) /\ (b + k) - b = k
    BY <1>3
  <2> QED
    BY <1>4, <2>1
<1> QED
  BY <1>3, <1>4, <1>5, <1>6, <1>7 DEF b, c

\* The next segment of the specifier stands at the next place of the path.
LEMMA NextIs ==
    ASSUME PathTypes, position < Len(specifier)
    PROVE  /\ Reached \in Nat /\ Reached + 1 \in 1..Len(Whole) /\ position + 1 \in 1..Len(specifier)
           /\ position + 1 \in 0..Len(specifier) /\ position \in Nat
           /\ Whole[Reached + 1] = specifier[position + 1] /\ specifier[position + 1] \in Segments
           /\ Len(Base) + (position + 1) = Reached + 1
<1> DEFINE b == Len(Base)
           c == Len(specifier)
<1>1. /\ b \in Nat /\ c \in Nat /\ position \in 0..c /\ position < c /\ Len(Whole) = b + c
      /\ Reached = b + position
      /\ \A k \in 1..c : Whole[b + k] = specifier[k] /\ specifier[k] \in Segments
  BY WholeIs DEF Reached, PathTypes
<1> HIDE DEF b, c
<1>2. /\ b + position \in Nat /\ (b + position) + 1 \in 1..(b + c) /\ position + 1 \in 1..c /\ position \in Nat
      /\ position + 1 \in 0..c /\ b + (position + 1) = (b + position) + 1
  BY <1>1
<1> QED
  BY <1>1, <1>2 DEF b, c

LEMMA BoundedIs ==
    ASSUME NEW S, NEW n \in Nat, NEW s \in BoundedSeq(S, n)
    PROVE  s \in Seq(S)
<1>1. PICK m \in 0..n : s \in [1..m -> S]
  BY DEF BoundedSeq, SeqOf
<1> QED
  BY <1>1, SeqDef

LEMMA ResolverBegins == ResolverInit => ResolverInv
<1> SUFFICES ASSUME ResolverInit
             PROVE  ResolverInv
  OBVIOUS
<1>1. PathTypes
  <2>1. referrer = <<"">> \/ (referrer \in Seq(Words) /\ referrer # <<>>)
    BY BoundedIs, BoundsAssumption DEF ResolverInit
  <2>2. specifier \in Seq(Segments) /\ specifier # <<>>
    BY BoundedIs, BoundsAssumption DEF ResolverInit
  <2>3. position \in 0..Len(specifier)
    <3>1. Len(specifier) \in Nat /\ position = 0
      BY <2>2, LenProperties DEF ResolverInit
    <3> QED
      BY <3>1
  <2>4. segments \in Seq(Words)
    <3>1. Base \in Seq(Words)
      BY <2>1, BaseIs
    <3> QED
      BY <3>1 DEF ResolverInit, Base
  <2> QED
    BY <2>1, <2>2, <2>3, <2>4 DEF PathTypes
<1>2. JoinedSoFar
  <2> DEFINE b == Len(Base)
  <2>1. b \in Nat /\ position = 0 /\ segments = Base /\ \A k \in 1..b : Whole[k] = Base[k] /\ Base[k] \in Words
    BY <1>1, WholeIs DEF ResolverInit, Base
  <2> HIDE DEF b
  <2>2. Reached = b
    BY <2>1 DEF Reached, b
  <2>3. Marks(Whole, b, segments, [k \in 1..b |-> k])
    BY <2>1, MarksAtFirst DEF b
  <2>4. \A j \in 1..b : Count(Whole, 1, j, Up) <= Count(Whole, 1, j, Words)
    <3> SUFFICES ASSUME NEW j \in 1..b
                 PROVE  Count(Whole, 1, j, Up) <= Count(Whole, 1, j, Words)
      OBVIOUS
    <3>1. \A k \in 1..j : k \in 1..b
      BY <2>1
    <3>2. \A k \in 1..j : Whole[k] \notin Up
      BY <2>1, <3>1, UpIsNoWord
    <3>3. j \in Nat /\ 1 \in Nat
      OBVIOUS
    <3>4. Count(Whole, 1, j, Up) = 0
      BY <3>2, <3>3, CountOfNone
    <3>5. Count(Whole, 1, j, Words) \in Nat
      BY <3>3, CountIsNat
    <3> QED
      BY <3>4, <3>5
  <2> QED
    BY <2>1, <2>2, <2>3, <2>4 DEF JoinedSoFar
<1>3. ResolvesAsReference
  BY DEF ResolverInit, ResolvesAsReference
<1> QED
  BY <1>1, <1>2, <1>3 DEF ResolverInv

LEMMA ResolvedStep ==
    ASSUME ResolverInv, Resolved
    PROVE  ResolverInv'
<1>1. PathTypes' /\ outcome' # Unresolved
  <2>1. PathTypes'
    BY DEF ResolverInv, PathTypes, Resolved
  <2>2. outcome' = Refused \/ outcome' = <<"name", specifier>>
    BY DEF Resolved
  <2> QED
    BY <2>1, <2>2 DEF Refused, Unresolved
<1>2. outcome' = Reference(referrer, specifier)
  <2>1. Relative(specifier) => Head(specifier) # ""
    BY DEF Relative
  <2> QED
    BY <2>1 DEF Resolved, RefusedOutright, Reference
<1>3. referrer' = referrer /\ specifier' = specifier
  BY DEF Resolved
<1> QED
  BY <1>1, <1>2, <1>3 DEF ResolverInv, JoinedSoFar, ResolvesAsReference, Reference, Path, LeavesRoot, Directory

\* What is joined is a path whose reference depends on its open words alone.
LEMMA ReferenceOfJoined ==
    ASSUME Joining
    PROVE  Reference(referrer, specifier) =
             IF "" \in ToSet(specifier) \/ LeavesRoot(Whole) THEN Refused
             ELSE IF Unclosed(Whole) = {} THEN <<"name", <<"">>>>
             ELSE <<"name", WithoutExtension(OpenWords(Whole))>>
<1>1. Head(specifier) # "" /\ Relative(specifier) /\ referrer # <<"">>
  BY DEF Joining, RefusedOutright
<1> QED
  BY <1>1 DEF Reference, Whole

LEMMA JoinRefuses ==
    ASSUME ResolverInv, Join, outcome' = Refused, Refuses(specifier[position + 1], segments), segments' = segments
    PROVE  ResolverInv'
<1> DEFINE segment == specifier[position + 1]
<1>1. PathTypes /\ position < Len(specifier) /\ Joining /\ position' = position + 1
      /\ referrer' = referrer /\ specifier' = specifier
  BY DEF ResolverInv, Join
<1>2. /\ Reached \in Nat /\ Reached + 1 \in 1..Len(Whole) /\ position + 1 \in 1..Len(specifier)
      /\ position + 1 \in 0..Len(specifier) /\ Whole[Reached + 1] = segment
  BY <1>1, NextIs
<1>3. PathTypes'
  BY <1>1, <1>2 DEF PathTypes
<1>4. "" \in ToSet(specifier) \/ LeavesRoot(Whole)
  <2>1. CASE segment = ""
    <3>1. position + 1 \in DOMAIN specifier
      <4>1. specifier \in Seq(Segments)
        BY <1>1 DEF PathTypes
      <4> QED
        BY <1>2, <4>1, LenProperties
    <3> QED
      BY <2>1, <3>1 DEF ToSet
  <2>2. CASE segment = ".." /\ segments = <<>>
    <3>1. PICK e : Marks(Whole, Reached, segments, e)
      BY <1>1 DEF ResolverInv, JoinedSoFar, Joining
    <3> DEFINE w == Count(Whole, 1, Reached, Words)
               u == Count(Whole, 1, Reached, Up)
    <3>2. w = u + Len(segments) /\ Len(segments) = 0
      BY <2>2, <3>1, EmptySeq DEF Marks
    <3>3. w \in Nat /\ u \in Nat
      BY <1>2, CountIsNat
    <3>4. Whole[Reached + 1] \in Up /\ Whole[Reached + 1] \notin Words
      BY <1>2, <2>2, UpIsNoWord DEF Up
    <3>5. Count(Whole, 1, Reached + 1, Words) = w /\ Count(Whole, 1, Reached + 1, Up) = u + 1
      <4>1. 1 \in Nat /\ 1 <= Reached + 1
        BY <1>2
      <4> QED
        BY <1>2, <3>4, <4>1, CountNext
    <3> HIDE DEF w, u
    <3>6. Count(Whole, 1, Reached + 1, Up) > Count(Whole, 1, Reached + 1, Words)
      BY <3>2, <3>3, <3>5
    <3>7. Reached + 1 \in DOMAIN Whole
      BY <1>1, <1>2, WholeIs
    <3> QED
      BY <3>6, <3>7 DEF LeavesRoot, Up
  <2> QED
    BY <2>1, <2>2 DEF Refuses
<1>5. outcome' = Reference(referrer, specifier)
  BY <1>1, <1>4, ReferenceOfJoined
<1>6. outcome' # Unresolved
  BY DEF Refused, Unresolved
<1> QED
  BY <1>1, <1>3, <1>5, <1>6 DEF ResolverInv, JoinedSoFar, ResolvesAsReference

\* The segments that are joined stand for the path as far as it was gone through.
LEMMA JoinGoesOn ==
    ASSUME ResolverInv, Join, outcome' = outcome, ~Refuses(specifier[position + 1], segments),
           segments' = Onto(segments, specifier[position + 1])
    PROVE  ResolverInv'
<1> DEFINE segment == specifier[position + 1]
           n == Reached
<1>1. /\ PathTypes /\ position < Len(specifier) /\ Joining /\ position' = position + 1
      /\ referrer' = referrer /\ specifier' = specifier /\ outcome = Unresolved
  BY DEF ResolverInv, Join, Joining
<1>2. /\ n \in Nat /\ n + 1 \in 1..Len(Whole) /\ position + 1 \in 1..Len(specifier)
      /\ position + 1 \in 0..Len(specifier) /\ Whole[n + 1] = segment /\ segment \in Segments
      /\ Len(Base) + (position + 1) = n + 1 /\ position \in Nat
  BY <1>1, NextIs
<1>3. PICK e : Marks(Whole, n, segments, e)
  BY <1>1 DEF ResolverInv, JoinedSoFar
<1>4. segments \in Seq(Words) /\ Len(segments) \in Nat
  BY <1>1, LenProperties DEF PathTypes
<1>5. Whole' = Whole /\ Base' = Base /\ Reached' = n + 1
  <2>1. Whole' = Whole /\ Base' = Base
    BY <1>1 DEF Whole, Base
  <2> QED
    BY <1>1, <1>2, <2>1 DEF Reached
<1>6. segment # ""
  BY DEF Refuses
<1> HIDE DEF n
<1>7. segments' \in Seq(Words) /\ \E f : Marks(Whole, n + 1, segments', f)
  <2>1. CASE segment = "."
    <3>1. segments' = segments
      BY <2>1 DEF Onto
    <3>2. Whole[n + 1] \notin Words /\ Whole[n + 1] \notin Up
      BY <1>2, <2>1, UpIsNoWord
    <3>3. Marks(Whole, n + 1, segments, e)
      BY <1>2, <1>3, <1>4, <3>2, MarksBeside
    <3> QED
      BY <1>4, <3>1, <3>3
  <2>2. CASE segment = ".."
    <3>1. segments' = Front(segments) /\ segments # <<>>
      BY <2>2 DEF Onto, Parent, Refuses
    <3> DEFINE t == Front(segments)
    <3>2. /\ t \in Seq(Words) /\ Len(t) \in Nat /\ Len(segments) = Len(t) + 1
          /\ \A k \in 1..Len(t) : t[k] = segments[k]
      <4>1. /\ Len(segments) \in Nat /\ Len(segments) - 1 \in Nat /\ t \in Seq(Words) /\ Len(t) = Len(segments) - 1
            /\ \A i \in 1..(Len(segments) - 1) : t[i] = segments[i]
        BY <1>4, <3>1, FrontIs
      <4> HIDE DEF t
      <4> QED
        BY <4>1
    <3> HIDE DEF t
    <3>3. Whole[n + 1] \in Up
      BY <1>2, <2>2 DEF Up
    <3>4. Marks(Whole, n + 1, t, e)
      BY <1>2, <1>3, <1>4, <3>2, <3>3, MarksAfterUp
    <3> QED
      BY <3>1, <3>2, <3>4 DEF t
  <2>3. CASE segment \notin {".", ".."}
    <3> DEFINE t == Append(segments, segment)
    <3>1. segments' = t
      BY <2>3 DEF Onto
    <3>2. segment \in Words
      BY <1>2, <1>6, <2>3 DEF Segments
    <3>3. /\ t \in Seq(Words) /\ Len(t) = Len(segments) + 1 /\ t[Len(segments) + 1] = segment
          /\ \A k \in 1..Len(segments) : t[k] = segments[k]
      BY <1>4, <3>2, AppendProperties
    <3> HIDE DEF t
    <3>4. Marks(Whole, n + 1, t, [k \in 1..(Len(segments) + 1) |-> IF k = Len(segments) + 1 THEN n + 1 ELSE e[k]])
      <4>1. /\ n \in Nat /\ Whole[n + 1] \in Words /\ t[Len(segments) + 1] = Whole[n + 1]
            /\ Len(t) = Len(segments) + 1 /\ \A k \in 1..Len(segments) : t[k] = segments[k]
            /\ Len(segments) \in Nat /\ Marks(Whole, n, segments, e)
        BY <1>2, <1>3, <1>4, <3>2, <3>3
      <4> DEFINE path == Whole
      <4>2. /\ n \in Nat /\ path[n + 1] \in Words /\ t[Len(segments) + 1] = path[n + 1]
            /\ Marks(path, n, segments, e)
        BY <4>1
      <4> HIDE DEF path
      <4>3. Marks(path, n + 1, t, [k \in 1..(Len(segments) + 1) |-> IF k = Len(segments) + 1 THEN n + 1 ELSE e[k]])
        BY <4>1, <4>2, MarksWithWord
      <4> QED
        BY <4>3 DEF path
    <3> QED
      BY <3>1, <3>3, <3>4
  <2> QED
    BY <2>1, <2>2, <2>3
<1>8. \A j \in 1..(n + 1) : Count(Whole, 1, j, Up) <= Count(Whole, 1, j, Words)
  <2>1. \A j \in 1..n : Count(Whole, 1, j, Up) <= Count(Whole, 1, j, Words)
    BY <1>1 DEF ResolverInv, JoinedSoFar, n
  <2>2. PICK f : Marks(Whole, n + 1, segments', f)
    BY <1>7
  <2>3. Count(Whole, 1, n + 1, Words) = Count(Whole, 1, n + 1, Up) + Len(segments')
    BY <2>2 DEF Marks
  <2>4. Len(segments') \in Nat
    BY <1>7, LenProperties
  <2>5. Count(Whole, 1, n + 1, Up) \in Nat
    BY <1>2, CountIsNat
  <2>6. Count(Whole, 1, n + 1, Up) <= Count(Whole, 1, n + 1, Words)
    BY <2>3, <2>4, <2>5
  <2>7. \A j \in 1..(n + 1) : j \in 1..n \/ j = n + 1
    BY <1>2
  <2> QED
    BY <2>1, <2>6, <2>7
<1>9. \A k \in 1..(position + 1) : specifier[k] # ""
  <2>1. \A k \in 1..position : specifier[k] # ""
    BY <1>1 DEF ResolverInv, JoinedSoFar
  <2>2. \A k \in 1..(position + 1) : k \in 1..position \/ k = position + 1
    BY <1>2
  <2> QED
    BY <1>6, <2>1, <2>2
<1>10. PathTypes'
  BY <1>1, <1>2, <1>7 DEF PathTypes
<1>11. JoinedSoFar'
  <2>1. \E f : Marks(Whole', Reached', segments', f)
    BY <1>5, <1>7
  <2>2. \A j \in 1..Reached' : Count(Whole', 1, j, Up) <= Count(Whole', 1, j, Words)
    BY <1>5, <1>8
  <2>3. \A k \in 1..position' : specifier'[k] # ""
    BY <1>1, <1>9
  <2> QED
    BY <2>1, <2>2, <2>3 DEF JoinedSoFar
<1> QED
  BY <1>1, <1>10, <1>11 DEF ResolverInv, ResolvesAsReference

LEMMA JoinStep ==
    ASSUME ResolverInv, Join
    PROVE  ResolverInv'
<1>1. CASE Refuses(specifier[position + 1], segments)
  BY <1>1, JoinRefuses DEF Join
<1>2. CASE ~Refuses(specifier[position + 1], segments)
  BY <1>2, JoinGoesOn DEF Join
<1> QED
  BY <1>1, <1>2

\* The name of the segments is the one without the extension of the last.
LEMMA NameIs ==
    ASSUME NEW path, path \in Seq(Words), path # <<>>
    PROVE  NameOfPath(path) = WithoutExtension(path)
<1> DEFINE n == Len(path)
           stem == Stem[path[n]]
           front == Front(path)
           without == [i \in 1..n |-> IF i = n /\ stem # "" THEN stem ELSE path[i]]
<1>1. /\ n \in Nat /\ n \in 1..n /\ n - 1 \in Nat /\ front \in Seq(Words) /\ Len(front) = n - 1
      /\ \A i \in 1..(n - 1) : front[i] = path[i]
  BY FrontIs
<1>2. DOMAIN path = 1..n /\ path[n] \in Words /\ path = [i \in 1..n |-> path[i]] /\ \A i \in 1..n : path[i] \in Words
  BY <1>1, LenProperties, ElementOfSeq
<1>3. stem \in STRING /\ Words \subseteq STRING
  BY <1>2, StemAssumption, WordsAssumption
<1>4. WithoutExtension(path) = without
  <2>1. \A i \in 1..n : (IF i = n /\ Stem[path[i]] # "" THEN Stem[path[i]] ELSE path[i])
                         = (IF i = n /\ stem # "" THEN stem ELSE path[i])
    OBVIOUS
  <2> QED
    BY <1>2, <2>1 DEF WithoutExtension
<1>5. CASE stem \notin {"", path[n]}
  <2> DEFINE t == Append(front, stem)
  <2>1. FromPath(path) = t
    BY <1>2, <1>5 DEF FromPath, Last
  <2>2. front \in Seq(STRING) /\ path \in Seq(STRING)
    BY <1>1, <1>3, SeqMonotonic
  <2>3. /\ t \in Seq(STRING) /\ t # <<>> /\ Len(t) = (n - 1) + 1 /\ t[(n - 1) + 1] = stem
        /\ \A i \in 1..(n - 1) : t[i] = front[i]
    BY <1>1, <1>3, <2>2, AppendProperties
  <2>4. NameOfPath(path) = t
    BY <2>1, <2>3 DEF NameOfPath
  <2>5. DOMAIN t = 1..((n - 1) + 1) /\ t = [i \in DOMAIN t |-> t[i]]
    BY <2>3, LenProperties
  <2>6. (n - 1) + 1 = n /\ \A i \in 1..n : i = n \/ i \in 1..(n - 1)
    <3>1. n \in Nat
      BY <1>1
    <3> HIDE DEF n
    <3> QED
      BY <3>1
  <2> HIDE DEF t, front
  <2>7. \A i \in 1..n : t[i] = IF i = n /\ stem # "" THEN stem ELSE path[i]
    <3>1. stem # ""
      BY <1>5
    <3>2. n \notin 1..(n - 1)
      BY <1>1
    <3> HIDE DEF n, stem
    <3> QED
      BY <1>1, <2>3, <2>6, <3>1, <3>2
  <2>8. t = without
    <3>1. t = [i \in 1..n |-> t[i]]
      BY <2>5, <2>6
    <3> HIDE DEF n
    <3> QED
      BY <2>7, <3>1
  <2> QED
    BY <1>4, <2>4, <2>8
<1>6. CASE stem \in {"", path[n]}
  <2>1. FromPath(path) = <<>>
    BY <1>6 DEF FromPath, Last
  <2>2. NameOfPath(path) = path
    BY <2>1 DEF NameOfPath
  <2>3. \A i \in 1..n : (IF i = n /\ stem # "" THEN stem ELSE path[i]) = path[i]
    BY <1>6
  <2>4. without = [i \in 1..n |-> path[i]]
    BY <2>3
  <2> QED
    BY <1>2, <1>4, <2>2, <2>4
<1> QED
  BY <1>5, <1>6

LEMMA JoinedStep ==
    ASSUME ResolverInv, Joined
    PROVE  ResolverInv'
<1>1. /\ PathTypes /\ Joining /\ position = Len(specifier) /\ outcome = Unresolved
      /\ outcome' = <<"name", NameOfPath(segments)>> /\ UNCHANGED <<referrer, specifier, position, segments>>
  BY DEF ResolverInv, Joined, Joining
<1>2. /\ Len(Whole) \in Nat /\ DOMAIN Whole = 1..Len(Whole) /\ Reached = Len(Whole)
  BY <1>1, WholeIs DEF Reached
<1>3. PICK e : Marks(Whole, Len(Whole), segments, e)
  BY <1>1, <1>2 DEF ResolverInv, JoinedSoFar
<1>4. segments \in Seq(Words) /\ Len(segments) \in Nat /\ segments = [k \in 1..Len(segments) |-> segments[k]]
  BY <1>1, LenProperties DEF PathTypes
<1>5. OpenWords(Whole) = segments /\ (Unclosed(Whole) = {} <=> Len(segments) = 0)
  BY <1>2, <1>3, <1>4, MarksAtLast
<1>6. "" \notin ToSet(specifier)
  <2>1. \A k \in 1..Len(specifier) : specifier[k] # ""
    BY <1>1 DEF ResolverInv, JoinedSoFar
  <2>2. DOMAIN specifier = 1..Len(specifier)
    BY <1>1, LenProperties DEF PathTypes
  <2> QED
    BY <2>1, <2>2 DEF ToSet
<1>7. ~LeavesRoot(Whole)
  <2>1. \A j \in DOMAIN Whole : Count(Whole, 1, j, Up) <= Count(Whole, 1, j, Words)
    BY <1>1, <1>2 DEF ResolverInv, JoinedSoFar
  <2>2. \A j \in DOMAIN Whole : Count(Whole, 1, j, Up) \in Nat /\ Count(Whole, 1, j, Words) \in Nat
    <3>1. \A j \in DOMAIN Whole : j \in Nat
      BY <1>2
    <3> QED
      BY <3>1, CountIsNat
  <2> QED
    BY <2>1, <2>2 DEF LeavesRoot, Up
<1>8. outcome' = Reference(referrer, specifier)
  <2>1. CASE segments = <<>>
    <3>1. Unclosed(Whole) = {} /\ NameOfPath(segments) = <<"">>
      BY <1>4, <1>5, <2>1, EmptySeq DEF NameOfPath
    <3> QED
      BY <1>1, <1>6, <1>7, <3>1, ReferenceOfJoined
  <2>2. CASE segments # <<>>
    <3>1. Unclosed(Whole) # {} /\ NameOfPath(segments) = WithoutExtension(OpenWords(Whole))
      BY <1>4, <1>5, <2>2, EmptySeq, NameIs
    <3> QED
      BY <1>1, <1>6, <1>7, <3>1, ReferenceOfJoined
  <2> QED
    BY <2>1, <2>2
<1>9. PathTypes' /\ outcome' # Unresolved
  BY <1>1 DEF PathTypes, Unresolved
<1> QED
  BY <1>1, <1>8, <1>9 DEF ResolverInv, JoinedSoFar, ResolvesAsReference

LEMMA ResolverStep == ResolverInv /\ [ResolverNext]_resolverVars => ResolverInv'
<1> SUFFICES ASSUME ResolverInv, [ResolverNext]_resolverVars
             PROVE  ResolverInv'
  OBVIOUS
<1>1. CASE UNCHANGED resolverVars
  BY <1>1 DEF resolverVars, ResolverInv, PathTypes, JoinedSoFar, ResolvesAsReference, Reached, Whole, Base
<1> QED
  BY <1>1, ResolvedStep, JoinStep, JoinedStep DEF ResolverNext

\* Whatever names and specifiers there are: joining segment by segment gives what the
\* brackets of the whole path say, and refuses exactly the paths that leave their root or
\* have an empty segment (Resolver::join, Resolver::resolve).
THEOREM AlwaysResolvesAsReference == ResolverSpec => []ResolvesAsReference
<1>1. ResolverInv => ResolvesAsReference
  BY DEF ResolverInv
<1> QED
  BY ResolverBegins, ResolverStep, <1>1, PTL DEF ResolverSpec

-----------------------------------------------------------------------------
(* An iterator is gone through. *)

IteratorTypes ==
    /\ going \in {"sync", "async"}
    /\ iterator \in [phase : {"value", "failed", "open", "done", "closed"}, pending : BOOLEAN]
    /\ future \in {"none", "next", "close"}
    /\ nexts \in Nat /\ returns \in Nat
    /\ yielded \in Seq(Nat)

\* The promise of a next is kept by an iterator that is open, and its item is the only one
\* the application does not have.
Promised ==
    /\ iterator.pending => iterator.phase = "open" /\ going = "async" /\ nexts = Len(yielded) + 1
    /\ iterator.phase = "open" /\ ~iterator.pending => nexts = Len(yielded)
    /\ iterator.phase \in {"value", "failed"} => nexts = 0 /\ Len(yielded) = 0

\* The future that closes has the iterator, which nobody closed before.
Closing ==
    /\ future # "none" => going = "async" /\ iterator.phase \in {"open", "done"}
    /\ iterator.phase # "closed" => returns = 0

InOrder ==
    /\ \A i \in 1..Len(yielded) : yielded[i] = i
    /\ nexts <= Len(yielded) + 1
    /\ nexts = Len(yielded) \/ iterator.pending \/ iterator.phase \in {"done", "closed"}
    /\ returns <= 1

IteratorInv == IteratorTypes /\ Promised /\ Closing /\ InOrder

LEMMA PhaseOf ==
    ASSUME NEW phase, NEW pending
    PROVE  IteratorAt(phase, pending).phase = phase /\ IteratorAt(phase, pending).pending = pending
BY DEF IteratorAt

\* What the application is given next.
LEMMA OneMore ==
    ASSUME IteratorInv, NEW n \in Nat
    PROVE  /\ Append(yielded, n) \in Seq(Nat) /\ Len(Append(yielded, n)) = Len(yielded) + 1
           /\ Len(yielded) \in Nat
           /\ n = Len(yielded) + 1 => \A i \in 1..(Len(yielded) + 1) : Append(yielded, n)[i] = i
<1> DEFINE m == Len(yielded)
           more == Append(yielded, n)
<1>1. /\ yielded \in Seq(Nat) /\ m \in Nat /\ \A i \in 1..m : yielded[i] = i
  BY DEF IteratorInv, IteratorTypes, InOrder
<1>2. /\ more \in Seq(Nat) /\ Len(more) = m + 1
      /\ \A i \in 1..m : more[i] = yielded[i]
      /\ more[m + 1] = n
  BY <1>1, AppendProperties
<1> HIDE DEF m, more
<1>3. \A i \in 1..(m + 1) : i \in 1..m \/ i = m + 1
  BY <1>1
<1> QED
  BY <1>1, <1>2, <1>3 DEF m, more

\* Whatever the last call gave: it was the one after those the application knows of.
LEMMA FinishesKeeps ==
    ASSUME IteratorInv, NEW given, Finishes(given),
           nexts' \in Nat, nexts' <= Len(yielded) + 1, returns' = returns, going' = going,
           given = "item" => nexts' = Len(yielded) + 1,
           iterator.phase = "open"
    PROVE  IteratorInv'
<1>1. CASE given = "item"
  <2>1. /\ iterator' = IteratorAt("open", FALSE) /\ future' = "none"
        /\ yielded' = Append(yielded, nexts') /\ nexts' = Len(yielded) + 1
    BY <1>1 DEF Finishes, Ends
  <2>2. /\ yielded' \in Seq(Nat) /\ Len(yielded') = nexts'
        /\ \A i \in 1..nexts' : yielded'[i] = i
    BY <2>1, OneMore
  <2>3. returns = 0 /\ returns \in Nat /\ going \in {"sync", "async"}
    BY DEF IteratorInv, Closing, IteratorTypes
  <2> QED
    BY <2>1, <2>2, <2>3 DEF IteratorInv, IteratorTypes, Promised, Closing, InOrder, IteratorAt
<1>2. CASE given # "item"
  <2>1. /\ iterator' = IteratorAt("done", FALSE) /\ future' = "none" /\ yielded' = yielded
    BY <1>2 DEF Finishes, Ends
  <2>2. yielded \in Seq(Nat) /\ Len(yielded) \in Nat
    BY DEF IteratorInv, IteratorTypes
  <2> QED
    BY <2>1, <2>2 DEF IteratorInv, IteratorTypes, Promised, Closing, InOrder, IteratorAt
<1> QED
  BY <1>1, <1>2

LEMMA IteratorBegins == IteratorInit => IteratorInv
<1> SUFFICES ASSUME IteratorInit
             PROVE  IteratorInv
  OBVIOUS
<1>1. yielded \in Seq(Nat) /\ Len(yielded) = 0
  BY DEF IteratorInit
<1> QED
  BY <1>1 DEF IteratorInit, IteratorInv, IteratorTypes, Promised, Closing, InOrder, IteratorAt

LEMMA IteratorStep == IteratorInv /\ [IteratorNext]_iteratorVars => IteratorInv'
<1> SUFFICES ASSUME IteratorInv, [IteratorNext]_iteratorVars
             PROVE  IteratorInv'
  OBVIOUS
<1> USE DEF IteratorInv, IteratorTypes, Promised, Closing, InOrder, IteratorAt
<1>0. yielded \in Seq(Nat) /\ Len(yielded) \in Nat /\ nexts \in Nat
  OBVIOUS
<1>1. CASE BecomesIterator
  BY <1>0, <1>1 DEF BecomesIterator
<1>2. CASE NextSync
  <2>1. iterator.phase = "open" /\ ~iterator.pending /\ nexts = Len(yielded) /\ returns' = returns /\ going' = going
    BY <1>2 DEF NextSync
  <2>2. CASE NotAsked /\ Finishes("error")
    <3>1. nexts' = nexts
      BY <2>2 DEF NotAsked
    <3> HIDE DEF IteratorInv
    <3> QED
      BY <1>0, <2>1, <2>2, <3>1, FinishesKeeps
  <2>3. ASSUME CallsNext, NEW given \in Given, Finishes(given)
        PROVE  IteratorInv'
    <3>1. nexts' = nexts + 1 /\ nexts' \in Nat
      BY <1>0, <2>3 DEF CallsNext
    <3> HIDE DEF IteratorInv
    <3> QED
      BY <1>0, <2>1, <2>3, <3>1, FinishesKeeps DEF Given
  <2> QED
    BY <1>2, <2>2, <2>3 DEF NextSync
<1>3. CASE CloseSync
  BY <1>0, <1>3 DEF CloseSync, Returns
<1>4. CASE BeginNext
  BY <1>0, <1>4 DEF BeginNext
<1>5. CASE NextOfDone
  BY <1>0, <1>5 DEF NextOfDone
<1>6. CASE Start
  <2>1. /\ iterator.phase = "open" /\ ~iterator.pending /\ nexts = Len(yielded) /\ returns' = returns /\ going' = going
        /\ future = "next" /\ going = "async"
    BY <1>6 DEF Start, StartsNext
  <2>2. CASE (NotAsked \/ CallsNext) /\ Finishes("error")
    <3>1. nexts' \in Nat /\ nexts' <= nexts + 1
      BY <1>0, <2>2 DEF NotAsked, CallsNext
    <3> HIDE DEF IteratorInv
    <3> QED
      BY <1>0, <2>1, <2>2, <3>1, FinishesKeeps
  <2>3. CASE CallsNext /\ iterator' = IteratorAt("open", TRUE) /\ UNCHANGED <<future, yielded>>
    BY <1>0, <2>1, <2>3 DEF CallsNext
  <2> QED
    BY <1>6, <2>2, <2>3 DEF Start
<1>7. CASE StepSettles
  BY <1>0, <1>7 DEF StepSettles
<1>8. CASE PollNext
  <2>1. /\ iterator.phase = "open" /\ nexts' = Len(yielded) + 1 /\ returns' = returns /\ going' = going
    BY <1>8 DEF PollNext, NotAsked
  <2>2. PICK given : Finishes(given)
    BY <1>8 DEF PollNext
  <2>3. nexts' \in Nat
    BY <1>0, <2>1
  <2> HIDE DEF IteratorInv
  <2> QED
    BY <1>0, <2>1, <2>2, <2>3, FinishesKeeps
<1>9. CASE BeginClose
  BY <1>0, <1>9 DEF BeginClose
<1>10. CASE PollClose
  BY <1>0, <1>10 DEF PollClose, Returns
<1>11. CASE DropFuture
  BY <1>0, <1>11 DEF DropFuture
<1>12. CASE UNCHANGED iteratorVars
  BY <1>0, <1>12 DEF iteratorVars
<1> QED
  BY <1>1, <1>2, <1>3, <1>4, <1>5, <1>6, <1>7, <1>8, <1>9, <1>10, <1>11, <1>12 DEF IteratorNext

\* An iterator that has ended or is closed gives nothing more and asks nothing more.
LEMMA EndedStays ==
    IteratorInv /\ [IteratorNext]_iteratorVars =>
        [iterator.phase \in {"done", "closed"} => UNCHANGED <<yielded, nexts, returns>>]_iteratorVars
<1> SUFFICES ASSUME IteratorInv, IteratorNext, iterator.phase \in {"done", "closed"}
             PROVE  UNCHANGED <<yielded, nexts, returns>>
  BY DEF iteratorVars
<1>1. iterator.phase # "open" /\ ~iterator.pending /\ iterator.phase # "value"
  BY DEF IteratorInv, Promised
<1> QED
  BY <1>1 DEF IteratorNext, BecomesIterator, NextSync, CloseSync, Returns, BeginNext, NextOfDone, Start,
              StepSettles, PollNext, BeginClose, PollClose, DropFuture

\* The application is given the items of all the guest's calls of next in order, each once
\* and none left out but that of the last call, whatever futures of next are dropped; and
\* an iterator that has ended is neither asked nor closed again (Iter, AsyncIter).
THEOREM ItemsAlwaysInOrder == IteratorSpec => ItemsInOrder
<1> DEFINE Given2 ==
             /\ yielded = [i \in DOMAIN yielded |-> i]
             /\ nexts <= Len(yielded) + 1
             /\ nexts = Len(yielded) \/ iterator.pending \/ iterator.phase \in {"done", "closed"}
             /\ returns <= 1
           Stays == iterator.phase \in {"done", "closed"} => UNCHANGED <<yielded, nexts, returns>>
<1>1. IteratorInv => Given2
  <2> SUFFICES ASSUME IteratorInv
               PROVE  Given2
    OBVIOUS
  <2>1. yielded \in Seq(Nat) /\ \A i \in 1..Len(yielded) : yielded[i] = i
    BY DEF IteratorInv, IteratorTypes, InOrder
  <2>2. yielded = [i \in DOMAIN yielded |-> yielded[i]] /\ DOMAIN yielded = 1..Len(yielded)
    BY <2>1
  <2>3. yielded = [i \in DOMAIN yielded |-> i]
    BY <2>1, <2>2
  <2> QED
    BY <2>3 DEF IteratorInv, InOrder
<1>2. IteratorInv /\ [IteratorNext]_iteratorVars => [Stays]_iteratorVars
  BY EndedStays
<1> QED
  BY IteratorBegins, IteratorStep, <1>1, <1>2, PTL DEF IteratorSpec, ItemsInOrder

-----------------------------------------------------------------------------
(* Results, and what of a buffer is borrowed for a view of it. *)

LEMMA KindOfOk == ASSUME NEW v PROVE Succeeds(Ok(v)) /\ Ok(v).ok = v
<1>1. DOMAIN Ok(v) = {"ok"}
  BY DEF Ok
<1>2. (CHOOSE k \in {"ok"} : TRUE) = "ok"
  OBVIOUS
<1> QED
  BY <1>1, <1>2 DEF Succeeds, Is, Kind, Ok

LEMMA KindOfFailures ==
    /\ ~Succeeds(Thrown)
    /\ \A expected, found : ~Succeeds(Mismatch(expected, found))
<1>1. ~Succeeds(Thrown)
  <2>1. DOMAIN Thrown = {"thrown"}
    BY DEF Thrown
  <2>2. (CHOOSE k \in {"thrown"} : TRUE) = "thrown"
    OBVIOUS
  <2> QED
    BY <2>1, <2>2 DEF Succeeds, Is, Kind
<1>2. ASSUME NEW expected, NEW found PROVE ~Succeeds(Mismatch(expected, found))
  <2>1. DOMAIN Mismatch(expected, found) = {"mismatch"}
    BY DEF Mismatch
  <2>2. (CHOOSE k \in {"mismatch"} : TRUE) = "mismatch"
    OBVIOUS
  <2> QED
    BY <2>1, <2>2 DEF Succeeds, Is, Kind
<1> QED
  BY <1>1, <1>2

LEMMA WholeElements ==
    ASSUME NEW n \in Nat, NEW width \in Nat \ {0}
    PROVE  /\ n % width = 0 => (n \div width) * width = n
           /\ n % 1 = 0 /\ n \div 1 = n /\ 0 % width = 0
  OBVIOUS

\* An engine whose guest code has run: it has the views it had, and as many buffers.
Reaches(w, u) == SoundWorld(u) /\ u.views = w.views /\ DOMAIN u.buffers = DOMAIN w.buffers

\* A view of a buffer of an engine.
Sees(w, view) == SoundWorld(w) /\ view \in Describing /\ SoundView(view, w.buffers)

LEMMA ViewIsTyped ==
    ASSUME NEW w, NEW view, Sees(w, view)
    PROVE  /\ view \in Describing /\ SoundView(view, w.buffers)
           /\ view.buffer \in DOMAIN w.buffers
           /\ w.buffers[view.buffer] \in Memories /\ SoundBuffer(w.buffers[view.buffer])
           /\ ElementOf(view) \in DOMAIN ByteWidth /\ ByteWidth[ElementOf(view)] \in Nat \ {0}
           /\ From(view) \in Nat /\ Extent(w, view) \in Nat
           /\ Len(w.buffers[view.buffer].bytes) \in Nat
<1> DEFINE buffer == w.buffers[view.buffer]
<1>1. w.buffers \in Seq(Memories)
  BY DEF Sees, SoundWorld, Engines
<1>2. view \in Describing /\ SoundView(view, w.buffers) /\ view.buffer \in DOMAIN w.buffers
  BY DEF Sees, SoundView
<1>3. buffer \in Memories
  BY <1>1, <1>2, ElementOfSeq
<1>4. SoundBuffer(buffer)
  BY <1>2 DEF Sees, SoundWorld
<1>5. Len(buffer.bytes) \in Nat
  BY <1>3, LenProperties DEF Memories
<1>6. ElementOf(view) \in DOMAIN ByteWidth /\ ByteWidth[ElementOf(view)] \in Nat \ {0}
  BY <1>2, ByteWidthAssumption DEF ElementOf, Describing
<1>7. From(view) \in Nat /\ Extent(w, view) \in Nat
  BY <1>2, <1>5 DEF From, Extent, Describing
<1> QED
  BY <1>2, <1>3, <1>4, <1>5, <1>6, <1>7

LEMMA SeesItsViews ==
    ASSUME NEW w, SoundWorld(w), NEW v \in DOMAIN w.views
    PROVE  Sees(w, w.views[v]) /\ Reaches(w, w)
<1>1. w.views \in Seq(Describing)
  BY DEF SoundWorld, Engines
<1>2. w.views[v] \in Describing
  BY <1>1, ElementOfSeq
<1> QED
  BY <1>2 DEF SoundWorld, Sees, Reaches

LEMMA SeesStill ==
    ASSUME NEW w, NEW view, Sees(w, view), NEW u, Reaches(w, u)
    PROVE  Sees(u, view)
BY DEF Sees, Reaches, SoundView

\* The world stays sound when the bytes or the state of a buffer change.
LEMMA SoundExcept ==
    ASSUME NEW w, SoundWorld(w), NEW b \in DOMAIN w.buffers, NEW buffer \in Memories, SoundBuffer(buffer)
    PROVE  SoundWorld([w EXCEPT !.buffers[b] = buffer])
<1> DEFINE u == [w EXCEPT !.buffers[b] = buffer]
           after == [w.buffers EXCEPT ![b] = buffer]
<1>1. w \in Engines
  BY DEF SoundWorld
<1>2. w.buffers \in Seq(Memories) /\ DOMAIN w.buffers = 1..Len(w.buffers)
  BY <1>1, LenProperties DEF Engines
<1>3. after \in Seq(Memories) /\ Len(after) = Len(w.buffers)
  BY <1>2, ExceptSeq
<1>4. u = [w EXCEPT !.buffers = after]
  BY <1>1 DEF Engines
<1>5. u \in Engines
  BY <1>1, <1>3, <1>4 DEF Engines
<1>6. u.buffers = after /\ u.views = w.views /\ DOMAIN after = DOMAIN w.buffers
  BY <1>1, <1>4 DEF Engines
<1>7. ASSUME NEW c \in DOMAIN u.buffers PROVE SoundBuffer(u.buffers[c])
  BY <1>6 DEF SoundWorld
<1>8. ASSUME NEW v \in DOMAIN u.views PROVE SoundView(u.views[v], u.buffers)
  BY <1>6 DEF SoundWorld, SoundView
<1> QED
  BY <1>5, <1>7, <1>8 DEF SoundWorld

LEMMA SoundSlices ==
    ASSUME NEW written \in Slices
    PROVE  written \in Seq(0..255) /\ Len(written) \in Nat /\ Len(written) <= Longest
           /\ DOMAIN written = 1..Len(written)
BY SizesAssumption, LenProperties

LEMMA OverwrittenIsSound ==
    ASSUME NEW bytes \in Seq(0..255), NEW from \in Int, NEW written \in Seq(0..255)
    PROVE  /\ Overwritten(bytes, from, written) \in Seq(0..255)
           /\ Len(Overwritten(bytes, from, written)) = Len(bytes)
<1> DEFINE after == Overwritten(bytes, from, written)
<1>1. Len(bytes) \in Nat /\ DOMAIN bytes = 1..Len(bytes)
  BY LenProperties
<1>2. ASSUME NEW i \in 1..Len(bytes)
      PROVE  (IF i - from \in DOMAIN written THEN written[i - from] ELSE bytes[i]) \in 0..255
  BY <1>2, ElementOfSeq, LenProperties
<1>3. after = [i \in 1..Len(bytes) |-> IF i - from \in DOMAIN written THEN written[i - from] ELSE bytes[i]]
  BY <1>1 DEF Overwritten
<1>4. after \in [1..Len(bytes) -> 0..255]
  BY <1>2, <1>3
<1> DEFINE n == Len(bytes)
<1>5. n \in Nat /\ after \in [1..n -> 0..255]
  BY <1>1, <1>4
<1> HIDE DEF n, after
<1>6. after \in Seq(0..255) /\ Len(after) = n
  BY <1>5, FunctionIsSeq
<1> QED
  BY <1>6 DEF n, after

LEMMA ExceptReaches ==
    ASSUME NEW w, SoundWorld(w), NEW b \in DOMAIN w.buffers, NEW buffer \in Memories, SoundBuffer(buffer)
    PROVE  Reaches(w, [w EXCEPT !.buffers[b] = buffer])
<1> DEFINE u == [w EXCEPT !.buffers[b] = buffer]
<1>1. w \in Engines
  BY DEF SoundWorld
<1>2. u.views = w.views /\ DOMAIN u.buffers = DOMAIN w.buffers
  BY <1>1 DEF Engines
<1>3. SoundWorld(u)
  BY SoundExcept
<1> QED
  BY <1>2, <1>3 DEF Reaches

\* Whatever guest code changes, its engine is sound afterwards.
LEMMA ChangesReach ==
    ASSUME NEW w, SoundWorld(w), NEW u \in Changes(w)
    PROVE  Reaches(w, u)
<1>1. ASSUME NEW b \in DOMAIN w.buffers
      PROVE  w.buffers[b] \in Memories /\ SoundBuffer(w.buffers[b])
  BY ElementOfSeq DEF SoundWorld, Engines
<1>2. ASSUME NEW b \in DOMAIN w.buffers, u = [w EXCEPT !.buffers[b] = Detach(@)]
      PROVE  Reaches(w, u)
  <2> DEFINE buffer == w.buffers[b]
             after == Detach(buffer)
  <2>1. after \in Memories /\ after.bytes = <<>>
    <3>1. buffer \in Memories /\ <<>> \in Seq(0..255)
      BY <1>1, EmptySeq
    <3> HIDE DEF buffer
    <3> QED
      BY <3>1 DEF Memories, Detach
  <2>2. SoundBuffer(after)
    BY <2>1, SizesAssumption DEF SoundBuffer
  <2>3. u = [w EXCEPT !.buffers[b] = after]
    BY <1>2
  <2> HIDE DEF after
  <2> QED
    BY <2>1, <2>2, <2>3, ExceptReaches
<1>3. ASSUME NEW b \in DOMAIN w.buffers, u = [w EXCEPT !.buffers[b] = Freeze(@)]
      PROVE  Reaches(w, u)
  <2> DEFINE buffer == w.buffers[b]
             after == Freeze(buffer)
  <2>1. after \in Memories /\ after.bytes = buffer.bytes /\ after.detached = buffer.detached
    <3>1. buffer \in Memories
      BY <1>1
    <3> HIDE DEF buffer
    <3> QED
      BY <3>1 DEF Memories, Freeze
  <2>2. SoundBuffer(after)
    BY <1>1, <2>1 DEF SoundBuffer
  <2>3. u = [w EXCEPT !.buffers[b] = after]
    BY <1>3
  <2> HIDE DEF after
  <2> QED
    BY <2>1, <2>2, <2>3, ExceptReaches
<1>4. ASSUME NEW b \in DOMAIN w.buffers, NEW length \in Sizes, ~w.buffers[b].detached,
             u = [w EXCEPT !.buffers[b] = Resize(@, length)]
      PROVE  Reaches(w, u)
  <2> DEFINE buffer == w.buffers[b]
             bytes == Resized(buffer.bytes, length)
             after == [buffer EXCEPT !.bytes = bytes]
  <2>1. buffer \in Memories /\ length \in Nat /\ length <= Longest
    BY <1>1, SizesAssumption
  <2>2. bytes \in [1..length -> 0..255]
    <3>1. buffer.bytes \in Seq(0..255)
      BY <2>1 DEF Memories
    <3>2. ASSUME NEW i \in 1..length PROVE (IF i \in DOMAIN buffer.bytes THEN buffer.bytes[i] ELSE 0) \in 0..255
      <4> DEFINE old == buffer.bytes
      <4>1. old \in Seq(0..255)
        BY <3>1
      <4> HIDE DEF old
      <4>2. DOMAIN old = 1..Len(old) /\ \A j \in 1..Len(old) : old[j] \in 0..255
        BY <4>1, ElementOfSeq, LenProperties
      <4>3. (IF i \in DOMAIN old THEN old[i] ELSE 0) \in 0..255
        BY <4>2
      <4> QED
        BY <4>3 DEF old
    <3> QED
      BY <3>2 DEF Resized
  <2>3. bytes \in Seq(0..255) /\ Len(bytes) = length
    BY <2>1, <2>2, FunctionIsSeq
  <2>4. after \in Memories /\ after.bytes = bytes /\ after.detached = buffer.detached
    BY <2>1, <2>3 DEF Memories
  <2>5. SoundBuffer(after)
    BY <1>4, <2>1, <2>3, <2>4 DEF SoundBuffer
  <2>6. u = [w EXCEPT !.buffers[b] = after]
    BY <1>4 DEF Resize
  <2> HIDE DEF after
  <2> QED
    BY <2>4, <2>5, <2>6, ExceptReaches
<1>5. ASSUME NEW name \in Intrinsics, NEW how \in {"own", "replaced", "missing"}, u = Patch(w, name, how)
      PROVE  Reaches(w, u)
  <2>1. w \in Engines
    BY DEF SoundWorld
  <2>2. u \in Engines /\ u.views = w.views /\ u.buffers = w.buffers
    BY <1>5, <2>1 DEF Engines, Patch
  <2> QED
    BY <2>2 DEF SoundWorld, Reaches
<1> DEFINE Gone(b) == [w EXCEPT !.buffers[b] = Detach(@)]
           Fixed(b) == [w EXCEPT !.buffers[b] = Freeze(@)]
           Long(b, length) == [w EXCEPT !.buffers[b] = Resize(@, length)]
           Open == {b \in Mutable(w) : ~w.buffers[b].detached}
           hows == {"own", "replaced", "missing"}
<1>6. u \in {Gone(b) : b \in Mutable(w)} \cup {Fixed(b) : b \in Mutable(w)} \cup
           {Long(b, length) : b \in Open, length \in Sizes} \cup
           {Patch(w, name, how) : name \in Patchable(w), how \in hows}
  BY DEF Changes
<1>7. \A b \in Mutable(w) : (u = Gone(b) \/ u = Fixed(b)) => Reaches(w, u)
  BY <1>2, <1>3 DEF Mutable
<1>8. \A b \in Open, length \in Sizes : u = Long(b, length) => Reaches(w, u)
  BY <1>4 DEF Mutable
<1>9. \A name \in Patchable(w), how \in hows : u = Patch(w, name, how) => Reaches(w, u)
  BY <1>5 DEF Patchable
<1> HIDE DEF Gone, Fixed, Long, Open, hows
<1> QED
  BY <1>6, <1>7, <1>8, <1>9

\* What is found out about a view when guest code has no say in it.
OwnLength(w, view) ==
    IF view.kind = "ArrayBuffer" THEN ArrayBuffer(w.buffers[view.buffer]) ELSE Described(w, view, view.length)
OwnOffset(w, view) == Described(w, view, view.at)
OwnBuffer(w, view) == IF view.kind = "typed array" THEN Described(w, view, view.buffer) ELSE Ok(view.buffer)
OwnRange(w, view) ==
    IF view.kind = "ArrayBuffer"
    THEN Then(OwnLength(w, view), LAMBDA length : Ok([buffer |-> view.buffer, from |-> 0, length |-> length]))
    ELSE Then(OwnBuffer(w, view), LAMBDA b :
           IF ~IsArrayBuffer(w, b) THEN Mismatch(<<"view of an ArrayBuffer">>, "view of a SharedArrayBuffer")
           ELSE Then(OwnOffset(w, view), LAMBDA from :
                  Then(OwnLength(w, view), LAMBDA length : Ok([buffer |-> b, from |-> from, length |-> length]))))
OwnBytes(w, view, exclusive) == Then(OwnRange(w, view), LAMBDA range : Lent(w, range, exclusive))

LEMMA BytesUnfolded ==
    ASSUME NEW w, NEW view, NEW exclusive
    PROVE  LET found == OwnRange(w, view)
               whole == ArrayBuffer(w.buffers[found.ok.buffer])
               inside == IF found.ok.from + found.ok.length > whole.ok \/
                            (exclusive /\ w.buffers[found.ok.buffer].immutable)
                         THEN Thrown ELSE Ok(found.ok)
           IN  OwnBytes(w, view, exclusive) =
                 IF Succeeds(found) THEN (IF Succeeds(whole) THEN inside ELSE whole) ELSE found
BY DEF OwnBytes, Lent, Then

LEMMA OwnBytesOfView ==
    ASSUME NEW w, NEW view, Sees(w, view), NEW exclusive \in BOOLEAN, view.kind \in Buffers
    PROVE  LET range == OwnBytes(w, view, exclusive)
           IN  /\ Succeeds(range) <=> (Shown(w, view) /\ ~(exclusive /\ w.buffers[view.buffer].immutable))
               /\ Succeeds(range) =>
                    range = Ok([buffer |-> view.buffer, from |-> From(view), length |-> Extent(w, view)])
<1> DEFINE buffer == w.buffers[view.buffer]
           range == [buffer |-> view.buffer, from |-> From(view), length |-> Extent(w, view)]
<1>1. /\ view.at \in Nat /\ view.length \in Nat /\ Len(buffer.bytes) \in Nat
      /\ buffer.detached => buffer.bytes = <<>>
      /\ buffer.shared \in BOOLEAN /\ buffer.detached \in BOOLEAN /\ buffer.immutable \in BOOLEAN
  BY ViewIsTyped DEF Describing, Memories, SoundBuffer
<1>2. SUFFICES /\ Succeeds(OwnRange(w, view)) => OwnRange(w, view) = Ok(range)
               /\ Shown(w, view) => Succeeds(OwnRange(w, view))
  <2> DEFINE found == OwnRange(w, view)
             whole == ArrayBuffer(w.buffers[found.ok.buffer])
             inside == IF found.ok.from + found.ok.length > whole.ok \/
                          (exclusive /\ w.buffers[found.ok.buffer].immutable)
                       THEN Thrown ELSE Ok(found.ok)
  <2>0. OwnBytes(w, view, exclusive) =
          IF Succeeds(found) THEN (IF Succeeds(whole) THEN inside ELSE whole) ELSE found
    BY BytesUnfolded
  <2>1. CASE ~Succeeds(OwnRange(w, view))
    <3>1. OwnBytes(w, view, exclusive) = OwnRange(w, view)
      BY <2>1 DEF OwnBytes, Lent, Then
    <3> QED
      BY <1>2, <2>1, <3>1
  <2>2. CASE Succeeds(OwnRange(w, view))
    <3>1. OwnRange(w, view) = Ok(range) /\ Ok(range).ok = range
      BY <1>2, <2>2, KindOfOk
    <3>2. CASE buffer.shared \/ buffer.detached
      <4>1. ArrayBuffer(buffer) = Thrown
        BY <3>2 DEF ArrayBuffer
      <4>2. ~Succeeds(Thrown) /\ range.buffer = view.buffer
        BY KindOfFailures
      <4>3. found.ok = range /\ whole = Thrown
        BY <3>1, <4>1, <4>2
      <4>4. OwnBytes(w, view, exclusive) = Thrown
        <5>1. Succeeds(found) /\ ~Succeeds(whole)
          BY <2>2, <4>2, <4>3
        <5> HIDE DEF found, whole, inside
        <5> QED
          BY <4>3, <5>1, <2>0
      <4>5. ~Shown(w, view)
        BY <3>2 DEF Shown, Inside, OwnWindow
      <4> QED
        BY <4>2, <4>4, <4>5
    <3>3. CASE ~buffer.shared /\ ~buffer.detached
      <4>1. ArrayBuffer(buffer) = Ok(Len(buffer.bytes))
        BY <3>3 DEF ArrayBuffer
      <4>2. OwnBytes(w, view, exclusive) =
               IF From(view) + Extent(w, view) > Len(buffer.bytes) \/ (exclusive /\ buffer.immutable)
               THEN Thrown ELSE Ok(range)
        <5>1. range.buffer = view.buffer /\ range.from = From(view) /\ range.length = Extent(w, view)
          OBVIOUS
        <5>2. found.ok = range
          BY <3>1
        <5>3. whole = Ok(Len(buffer.bytes))
          BY <4>1, <5>1, <5>2
        <5>4. Succeeds(whole) /\ whole.ok = Len(buffer.bytes)
          BY <5>3, KindOfOk
        <5>5. inside = IF From(view) + Extent(w, view) > Len(buffer.bytes) \/ (exclusive /\ buffer.immutable)
                       THEN Thrown ELSE Ok(range)
          <6> HIDE DEF found, whole, range
          <6> QED
            BY <5>1, <5>2, <5>4
        <5> HIDE DEF found, whole, inside
        <5> QED
          BY <2>0, <2>2, <5>4, <5>5 DEF found
      <4>3. From(view) + Extent(w, view) > Len(buffer.bytes) <=> ~Shown(w, view)
        BY <3>3, ViewIsTyped DEF Shown, Inside, OwnWindow
      <4>4. CASE From(view) + Extent(w, view) > Len(buffer.bytes) \/ (exclusive /\ buffer.immutable)
        <5>1. OwnBytes(w, view, exclusive) = Thrown
          BY <4>2, <4>4
        <5>2. ~(Shown(w, view) /\ ~(exclusive /\ buffer.immutable))
          BY <4>3, <4>4
        <5> QED
          BY <5>1, <5>2, KindOfFailures
      <4>5. CASE ~(From(view) + Extent(w, view) > Len(buffer.bytes) \/ (exclusive /\ buffer.immutable))
        <5>1. OwnBytes(w, view, exclusive) = Ok(range)
          BY <4>2, <4>5
        <5>2. Shown(w, view) /\ ~(exclusive /\ buffer.immutable)
          BY <4>3, <4>5
        <5> QED
          BY <5>1, <5>2, KindOfOk
      <4> QED
        BY <4>4, <4>5
    <3> QED
      BY <3>2, <3>3, <1>1
  <2> QED
    BY <2>1, <2>2
<1>3. CASE view.kind = "ArrayBuffer"
  <2>1. OwnLength(w, view) = IF buffer.shared \/ buffer.detached THEN Thrown ELSE Ok(Len(buffer.bytes))
    BY <1>3 DEF OwnLength, ArrayBuffer
  <2>2. CASE buffer.shared \/ buffer.detached
    <3>1. OwnRange(w, view) = Thrown
      BY <1>3, <2>1, <2>2, KindOfFailures DEF OwnRange, IsArrayBuffer, Then
    <3> QED
      BY <3>1, <2>2, KindOfFailures DEF Shown, Inside, OwnWindow
  <2>3. CASE ~(buffer.shared \/ buffer.detached)
    <3>1. OwnRange(w, view) = Ok(range)
      BY <1>3, <2>1, <2>3, KindOfOk DEF OwnRange, IsArrayBuffer, Then, From, Extent
    <3> QED
      BY <3>1, KindOfOk
  <2> QED
    BY <2>2, <2>3
<1>4. CASE view.kind \in {"typed array", "DataView"}
  <2> DEFINE out == w.strict /\ OutOfBounds(buffer, view)
  <2>1. /\ OwnLength(w, view) = IF out THEN Thrown ELSE Ok(view.length)
        /\ OwnOffset(w, view) = IF out THEN Thrown ELSE Ok(view.at)
        /\ OwnBuffer(w, view) \in {Thrown, Ok(view.buffer)}
        /\ ~out => OwnBuffer(w, view) = Ok(view.buffer)
    BY <1>4 DEF OwnLength, OwnOffset, OwnBuffer, Described
  <2>2. From(view) = view.at /\ Extent(w, view) = view.length /\ view.kind # "ArrayBuffer"
    BY <1>4 DEF From, Extent
  <2>3. out => ~Shown(w, view)
    BY <1>1, <2>2 DEF Shown, Inside, OwnWindow, OutOfBounds
  <2> HIDE DEF out
  <2>4. CASE OwnBuffer(w, view) = Thrown
    <3>1. OwnRange(w, view) = Thrown
      BY <2>2, <2>4, KindOfFailures DEF OwnRange, IsArrayBuffer, Then
    <3>2. out
      BY <2>1, <2>4, KindOfOk, KindOfFailures
    <3> QED
      BY <3>1, <3>2, <2>3, KindOfFailures
  <2>5. CASE OwnBuffer(w, view) = Ok(view.buffer) /\ buffer.shared
    <3>1. OwnRange(w, view) = Mismatch(<<"view of an ArrayBuffer">>, "view of a SharedArrayBuffer")
      BY <2>2, <2>5, KindOfOk DEF OwnRange, IsArrayBuffer, Then
    <3> QED
      BY <2>5, <3>1, KindOfFailures DEF Shown, Inside, OwnWindow
  <2>6. CASE OwnBuffer(w, view) = Ok(view.buffer) /\ ~buffer.shared
    <3>1. OwnRange(w, view) =
            Then(OwnOffset(w, view), LAMBDA from :
              Then(OwnLength(w, view), LAMBDA length :
                 Ok([buffer |-> view.buffer, from |-> from, length |-> length])))
      BY <2>2, <2>6, KindOfOk, ViewIsTyped DEF OwnRange, IsArrayBuffer, Then
    <3>2. CASE out
      BY <3>1, <3>2, <2>1, <2>3, KindOfFailures DEF Then
    <3>3. CASE ~out
      <4>1. OwnRange(w, view) = Ok(range)
        BY <3>1, <3>3, <2>1, <2>2, KindOfOk DEF Then
      <4> QED
        BY <4>1, KindOfOk
    <3> QED
      BY <3>2, <3>3
  <2> QED
    BY <2>1, <2>4, <2>5, <2>6
<1> QED
  BY <1>3, <1>4 DEF Buffers

-----------------------------------------------------------------------------
(* What is found out about a view, and by whom. *)

\* An accessor of DataView.prototype that is the engine's own says what the view is.
LEMMA Asked ==
    ASSUME NEW w, SoundWorld(w), NEW name \in Intrinsics, NEW own, NEW given,
           NEW o \in Intrinsic(w, name, own, given)
    PROVE  /\ Reaches(w, o.world) /\ o.is \in {own, Thrown} \cup given
           /\ w.accessors[name] = "own" => o = Outcome(own, w)
<1>1. w.accessors[name] \in {"own", "replaced", "missing"}
  BY DEF SoundWorld, Engines
<1>2. Reaches(w, w)
  BY DEF Reaches
<1>3. CASE w.accessors[name] = "own"
  BY <1>2, <1>3 DEF Intrinsic, Outcome
<1>4. CASE w.accessors[name] = "missing"
  BY <1>2, <1>4 DEF Intrinsic, Outcome
<1>5. CASE w.accessors[name] = "replaced"
  <2>1. PICK answer \in given \cup {Thrown}, after \in {w} \cup Changes(w) : o = Outcome(answer, after)
    BY <1>5 DEF Intrinsic
  <2>2. o.is = answer /\ o.world = after
    BY <2>1 DEF Outcome
  <2> QED
    BY <1>2, <1>5, <2>2, ChangesReach
<1> QED
  BY <1>1, <1>3, <1>4, <1>5


LEMMA GivenAreNat ==
    /\ \A r \in BytesGiven : Succeeds(r) => r.ok \in Nat
    /\ \A w, r : SoundWorld(w) /\ r \in BuffersGiven(w) => Succeeds(r) /\ r.ok \in Nat
<1>1. ASSUME NEW r \in BytesGiven, Succeeds(r) PROVE r.ok \in Nat
  BY <1>1, KindOfOk, KindOfFailures, SizesAssumption DEF BytesGiven
<1>2. ASSUME NEW w, NEW r, SoundWorld(w), r \in BuffersGiven(w) PROVE Succeeds(r) /\ r.ok \in Nat
  <2>1. Len(w.buffers) \in Nat
    BY <1>2, LenProperties DEF SoundWorld, Engines
  <2> QED
    BY <1>2, <2>1, KindOfOk DEF BuffersGiven
<1> QED
  BY <1>1, <1>2

LEMMA LengthAsked ==
    ASSUME NEW w, NEW view, Sees(w, view), NEW o \in ByteLength(w, view)
    PROVE  /\ Reaches(w, o.world) /\ (Succeeds(o.is) => o.is.ok \in Nat)
           /\ view.kind \in Buffers /\ Straight(w, view) => o = Outcome(OwnLength(w, view), w)
           /\ view.kind \notin Buffers => o = Outcome(Thrown, w)
<1>1. SoundWorld(w) /\ Reaches(w, w)
  BY DEF Sees, Reaches
<1>2. view.length \in Nat /\ Len(w.buffers[view.buffer].bytes) \in Nat /\ view.kind \in Buffers \cup {"object"}
  BY ViewIsTyped DEF Describing
<1>3. /\ Described(w, view, view.length) \in {Thrown, Ok(view.length)}
      /\ ArrayBuffer(w.buffers[view.buffer]) \in {Thrown, Ok(Len(w.buffers[view.buffer].bytes))}
  BY DEF Described, ArrayBuffer
<1>4. CASE view.kind = "ArrayBuffer"
  <2>1. o = Outcome(ArrayBuffer(w.buffers[view.buffer]), w)
    BY <1>4 DEF ByteLength
  <2> QED
    BY <1>1, <1>2, <1>3, <1>4, <2>1, KindOfOk, KindOfFailures DEF Outcome, OwnLength
<1>5. CASE view.kind = "typed array"
  <2>1. o = Outcome(Described(w, view, view.length), w)
    BY <1>5 DEF ByteLength
  <2> QED
    BY <1>1, <1>2, <1>3, <1>5, <2>1, KindOfOk, KindOfFailures DEF Outcome, OwnLength
<1>6. CASE view.kind = "DataView"
  <2>1. o \in Intrinsic(w, "byteLength", Described(w, view, view.length), BytesGiven) /\ "byteLength" \in Intrinsics
    BY <1>6 DEF ByteLength, Intrinsics
  <2>2. /\ Reaches(w, o.world) /\ o.is \in {Described(w, view, view.length), Thrown} \cup BytesGiven
        /\ w.accessors["byteLength"] = "own" => o = Outcome(Described(w, view, view.length), w)
    BY <1>1, <2>1, Asked
  <2> QED
    BY <1>2, <1>3, <1>6, <2>1, <2>2, KindOfOk, KindOfFailures, GivenAreNat DEF Straight, OwnLength
<1>7. CASE view.kind \notin Buffers
  <2>1. o = Outcome(Thrown, w)
    BY <1>7 DEF ByteLength, Buffers
  <2> QED
    BY <1>1, <1>7, <2>1, KindOfFailures DEF Outcome
<1> QED
  BY <1>2, <1>4, <1>5, <1>6, <1>7 DEF Buffers

LEMMA OffsetAsked ==
    ASSUME NEW w, NEW view, Sees(w, view), NEW o \in ByteOffset(w, view)
    PROVE  /\ Reaches(w, o.world) /\ (Succeeds(o.is) => o.is.ok \in Nat)
           /\ view.kind \in {"typed array", "DataView"} /\ Straight(w, view) => o = Outcome(OwnOffset(w, view), w)
<1>1. SoundWorld(w) /\ Reaches(w, w)
  BY DEF Sees, Reaches
<1>2. view.at \in Nat
  BY ViewIsTyped DEF Describing
<1>3. Described(w, view, view.at) \in {Thrown, Ok(view.at)}
  BY DEF Described
<1>4. CASE view.kind = "typed array"
  <2>1. o = Outcome(Described(w, view, view.at), w)
    BY <1>4 DEF ByteOffset
  <2> QED
    BY <1>1, <1>2, <1>3, <1>4, <2>1, KindOfOk, KindOfFailures DEF Outcome, OwnOffset
<1>5. CASE view.kind = "DataView"
  <2>1. o \in Intrinsic(w, "byteOffset", Described(w, view, view.at), BytesGiven) /\ "byteOffset" \in Intrinsics
    BY <1>5 DEF ByteOffset, Intrinsics
  <2>2. /\ Reaches(w, o.world) /\ o.is \in {Described(w, view, view.at), Thrown} \cup BytesGiven
        /\ w.accessors["byteOffset"] = "own" => o = Outcome(Described(w, view, view.at), w)
    BY <1>1, <2>1, Asked
  <2> QED
    BY <1>2, <1>3, <1>5, <2>1, <2>2, KindOfOk, KindOfFailures, GivenAreNat DEF Straight, OwnOffset
<1>6. CASE view.kind \notin {"typed array", "DataView"}
  <2>1. o = Outcome(Thrown, w)
    BY <1>6 DEF ByteOffset
  <2> QED
    BY <1>1, <1>6, <2>1, KindOfFailures DEF Outcome
<1> QED
  BY <1>4, <1>5, <1>6

LEMMA BufferAsked ==
    ASSUME NEW w, NEW view, Sees(w, view), NEW o \in BufferOf(w, view)
    PROVE  /\ Reaches(w, o.world) /\ (Succeeds(o.is) => o.is.ok \in Nat)
           /\ view.kind \in {"typed array", "DataView"} /\ Straight(w, view) => o = Outcome(OwnBuffer(w, view), w)
           /\ view.kind \notin {"typed array", "DataView"} => o = Outcome(Thrown, w)
<1>1. SoundWorld(w) /\ Reaches(w, w)
  BY DEF Sees, Reaches
<1>2. view.buffer \in Nat
  BY ViewIsTyped DEF Describing
<1>3. Described(w, view, view.buffer) \in {Thrown, Ok(view.buffer)}
  BY DEF Described
<1>4. CASE view.kind = "typed array"
  <2>1. o = Outcome(Described(w, view, view.buffer), w)
    BY <1>4 DEF BufferOf
  <2> QED
    BY <1>1, <1>2, <1>3, <1>4, <2>1, KindOfOk, KindOfFailures DEF Outcome, OwnBuffer
<1>5. CASE view.kind = "DataView"
  <2>1. o \in Intrinsic(w, "buffer", Ok(view.buffer), BuffersGiven(w)) /\ "buffer" \in Intrinsics
    BY <1>5 DEF BufferOf, Intrinsics
  <2>2. /\ Reaches(w, o.world) /\ o.is \in {Ok(view.buffer), Thrown} \cup BuffersGiven(w)
        /\ w.accessors["buffer"] = "own" => o = Outcome(Ok(view.buffer), w)
    BY <1>1, <2>1, Asked
  <2> QED
    BY <1>1, <1>2, <1>5, <2>1, <2>2, KindOfOk, KindOfFailures, GivenAreNat DEF Straight, OwnBuffer
<1>6. CASE view.kind \notin {"typed array", "DataView"}
  <2>1. o = Outcome(Thrown, w)
    BY <1>6 DEF BufferOf
  <2> QED
    BY <1>1, <1>6, <2>1, KindOfFailures DEF Outcome
<1> QED
  BY <1>4, <1>5, <1>6

\* What a range may be that is asked for.
Ranges(w) == [buffer : DOMAIN w.buffers, from : Nat, length : Nat]

LEMMA OutcomeIs == ASSUME NEW r, NEW w PROVE Outcome(r, w).is = r /\ Outcome(r, w).world = w
BY DEF Outcome

LEMMA RangeOfBuffer ==
    ASSUME NEW w, NEW view, Sees(w, view), view.kind = "ArrayBuffer", NEW o \in BufferRange(w, view)
    PROVE  /\ Reaches(w, o.world) /\ (Succeeds(o.is) => o.is.ok \in Ranges(w))
           /\ o = Outcome(OwnRange(w, view), w)
<1> DEFINE Window(length) == [buffer |-> view.buffer, from |-> 0, length |-> length]
<1>1. PICK p \in ByteLength(w, view) :
        o \in IF Succeeds(p.is) THEN {Outcome(Ok(Window(p.is.ok)), p.world)} ELSE {p}
  BY DEF BufferRange, Bind
<1>2. Reaches(w, p.world) /\ (Succeeds(p.is) => p.is.ok \in Nat) /\ p = Outcome(OwnLength(w, view), w)
  BY LengthAsked DEF Buffers, Straight
<1>3. OwnRange(w, view) = IF Succeeds(p.is) THEN Ok(Window(p.is.ok)) ELSE p.is
  BY <1>2, OutcomeIs DEF OwnRange, Then
<1>4. p.is = OwnLength(w, view) /\ p.world = w
  BY <1>2, OutcomeIs
<1>5. CASE Succeeds(p.is)
  <2>1. o = Outcome(Ok(Window(p.is.ok)), w)
    BY <1>1, <1>4, <1>5
  <2>2. Window(p.is.ok) \in Ranges(w)
    BY <1>2, <1>5, ViewIsTyped DEF Ranges
  <2> QED
    BY <1>2, <1>3, <1>4, <1>5, <2>1, <2>2, OutcomeIs, KindOfOk
<1>6. CASE ~Succeeds(p.is)
  <2>1. o = p
    BY <1>1, <1>6
  <2> QED
    BY <1>2, <1>3, <1>4, <1>6, <2>1
<1> QED
  BY <1>5, <1>6

LEMMA RangeOfPart ==
    ASSUME NEW w, NEW view, Sees(w, view), view.kind # "ArrayBuffer", NEW o \in BufferRange(w, view)
    PROVE  /\ Reaches(w, o.world) /\ (Succeeds(o.is) => o.is.ok \in Ranges(w))
           /\ view.kind \in Buffers /\ Straight(w, view) => o = Outcome(OwnRange(w, view), w)
<1> DEFINE Window(b, from, length) == [buffer |-> b, from |-> from, length |-> length]
           none == Mismatch(<<"view of an ArrayBuffer">>, "view of a SharedArrayBuffer")
           Measured(b, from, u) ==
             UNION {IF Succeeds(q.is) THEN {Outcome(Ok(Window(b, from, q.is.ok)), q.world)} ELSE {q} :
                      q \in ByteLength(u, view)}
           PlacedIn(b, u) ==
             UNION {IF Succeeds(q.is) THEN Measured(b, q.is.ok, q.world) ELSE {q} : q \in ByteOffset(u, view)}
           Named(b, u) == IF ~IsArrayBuffer(u, b) THEN {Outcome(none, u)} ELSE PlacedIn(b, u)
           own == view.kind \in Buffers /\ Straight(w, view)
           OwnMeasured(b, from) ==
             IF Succeeds(OwnLength(w, view)) THEN Ok(Window(b, from, OwnLength(w, view).ok)) ELSE OwnLength(w, view)
           OwnPlaced(b) ==
             IF Succeeds(OwnOffset(w, view)) THEN OwnMeasured(b, OwnOffset(w, view).ok) ELSE OwnOffset(w, view)
           OwnNamed(b) == IF ~IsArrayBuffer(w, b) THEN none ELSE OwnPlaced(b)
<1>1. BufferRange(w, view) =
        UNION {IF Succeeds(q.is) THEN Named(q.is.ok, q.world) ELSE {q} : q \in BufferOf(w, view)}
  BY DEF BufferRange, Bind
<1>2. OwnRange(w, view) = IF Succeeds(OwnBuffer(w, view)) THEN OwnNamed(OwnBuffer(w, view).ok) ELSE OwnBuffer(w, view)
  BY DEF OwnRange, Then
<1>3. own => view.kind \in {"typed array", "DataView"}
  BY DEF Buffers
<1>4. ASSUME NEW u, Reaches(w, u), NEW b \in DOMAIN w.buffers, NEW from \in Nat, NEW r \in Measured(b, from, u)
      PROVE  /\ Reaches(w, r.world) /\ (Succeeds(r.is) => r.is.ok \in Ranges(w))
             /\ own /\ u = w => r = Outcome(OwnMeasured(b, from), w)
  <2>1. PICK q \in ByteLength(u, view) :
          r \in IF Succeeds(q.is) THEN {Outcome(Ok(Window(b, from, q.is.ok)), q.world)} ELSE {q}
    BY <1>4
  <2>2. /\ Reaches(u, q.world) /\ (Succeeds(q.is) => q.is.ok \in Nat)
        /\ own /\ u = w => q = Outcome(OwnLength(w, view), w)
    BY <1>4, SeesStill, LengthAsked
  <2>3. Reaches(w, q.world)
    BY <1>4, <2>2 DEF Reaches
  <2>4. own /\ u = w => q.is = OwnLength(w, view) /\ q.world = w
    BY <2>2, OutcomeIs
  <2>5. CASE Succeeds(q.is)
    <3>1. r = Outcome(Ok(Window(b, from, q.is.ok)), q.world)
      BY <2>1, <2>5
    <3>2. Window(b, from, q.is.ok) \in Ranges(w)
      BY <2>2, <2>5 DEF Ranges
    <3> QED
      BY <2>3, <2>4, <2>5, <3>1, <3>2, OutcomeIs, KindOfOk
  <2>6. CASE ~Succeeds(q.is)
    <3>1. r = q
      BY <2>1, <2>6
    <3> QED
      BY <2>2, <2>3, <2>4, <2>6, <3>1
  <2> QED
    BY <2>5, <2>6
<1> HIDE DEF Measured, OwnMeasured
<1>5. ASSUME NEW u, Reaches(w, u), NEW b \in DOMAIN w.buffers, NEW r \in PlacedIn(b, u)
      PROVE  /\ Reaches(w, r.world) /\ (Succeeds(r.is) => r.is.ok \in Ranges(w))
             /\ own /\ u = w => r = Outcome(OwnPlaced(b), w)
  <2>1. PICK q \in ByteOffset(u, view) : r \in IF Succeeds(q.is) THEN Measured(b, q.is.ok, q.world) ELSE {q}
    BY <1>5
  <2>2. /\ Reaches(u, q.world) /\ (Succeeds(q.is) => q.is.ok \in Nat)
        /\ own /\ u = w => q = Outcome(OwnOffset(w, view), w)
    BY <1>3, <1>5, SeesStill, OffsetAsked
  <2>3. Reaches(w, q.world)
    BY <1>5, <2>2 DEF Reaches
  <2>4. own /\ u = w => q.is = OwnOffset(w, view) /\ q.world = w
    BY <2>2, OutcomeIs
  <2>5. CASE Succeeds(q.is)
    <3>1. r \in Measured(b, q.is.ok, q.world)
      BY <2>1, <2>5
    <3>2. /\ Reaches(w, r.world) /\ (Succeeds(r.is) => r.is.ok \in Ranges(w))
          /\ own /\ q.world = w => r = Outcome(OwnMeasured(b, q.is.ok), w)
      BY <2>2, <2>3, <2>5, <3>1, <1>4
    <3> QED
      BY <2>4, <2>5, <3>2
  <2>6. CASE ~Succeeds(q.is)
    <3>1. r = q
      BY <2>1, <2>6
    <3> QED
      BY <2>2, <2>3, <2>4, <2>6, <3>1
  <2> QED
    BY <2>5, <2>6
<1> HIDE DEF PlacedIn, OwnPlaced
<1>6. PICK q \in BufferOf(w, view) : o \in IF Succeeds(q.is) THEN Named(q.is.ok, q.world) ELSE {q}
  BY <1>1
<1>7. /\ Reaches(w, q.world) /\ (Succeeds(q.is) => q.is.ok \in Nat)
      /\ own => q = Outcome(OwnBuffer(w, view), w)
  BY <1>3, BufferAsked
<1>8. own => q.is = OwnBuffer(w, view) /\ q.world = w
  BY <1>7, OutcomeIs
<1>9. CASE ~Succeeds(q.is)
  <2>1. o = q
    BY <1>6, <1>9
  <2> QED
    BY <1>2, <1>7, <1>8, <1>9, <2>1
<1>10. CASE Succeeds(q.is) /\ ~IsArrayBuffer(q.world, q.is.ok)
  <2>1. o = Outcome(none, q.world) /\ ~Succeeds(none)
    BY <1>6, <1>10, KindOfFailures
  <2>2. o.is = none /\ o.world = q.world
    BY <2>1, OutcomeIs
  <2> HIDE DEF none
  <2> QED
    BY <1>2, <1>7, <1>8, <1>10, <2>1, <2>2
<1>11. CASE Succeeds(q.is) /\ IsArrayBuffer(q.world, q.is.ok)
  <2>1. o \in PlacedIn(q.is.ok, q.world)
    BY <1>6, <1>11
  <2>2. q.is.ok \in DOMAIN w.buffers
    BY <1>7, <1>11 DEF IsArrayBuffer, Reaches
  <2>3. /\ Reaches(w, o.world) /\ (Succeeds(o.is) => o.is.ok \in Ranges(w))
        /\ own /\ q.world = w => o = Outcome(OwnPlaced(q.is.ok), w)
    BY <1>5, <1>7, <2>1, <2>2
  <2> QED
    BY <1>2, <1>8, <1>11, <2>3
<1> QED
  BY <1>9, <1>10, <1>11

\* What is lent of a view is within a buffer that is there when it is lent.
LEMMA BytesAsked ==
    ASSUME NEW w, NEW view, Sees(w, view), view.kind \in Buffers, NEW exclusive \in BOOLEAN,
           NEW o \in Bytes(w, view, exclusive)
    PROVE  /\ Reaches(w, o.world)
           /\ Succeeds(o.is) =>
                /\ o.is.ok \in Ranges(w) /\ Inside(o.world, o.is.ok)
                /\ ~(exclusive /\ o.world.buffers[o.is.ok.buffer].immutable)
           /\ Straight(w, view) => o = Outcome(OwnBytes(w, view, exclusive), w)
<1>1. PICK q \in BufferRange(w, view) :
        o \in IF Succeeds(q.is) THEN {Outcome(Lent(q.world, q.is.ok, exclusive), q.world)} ELSE {q}
  BY DEF Bytes, Bind
<1>2. /\ Reaches(w, q.world) /\ (Succeeds(q.is) => q.is.ok \in Ranges(w))
      /\ Straight(w, view) => q = Outcome(OwnRange(w, view), w)
  BY RangeOfBuffer, RangeOfPart
<1>3. Straight(w, view) => q.is = OwnRange(w, view) /\ q.world = w
  BY <1>2, OutcomeIs
<1>4. OwnBytes(w, view, exclusive) =
        IF Succeeds(OwnRange(w, view)) THEN Lent(w, OwnRange(w, view).ok, exclusive) ELSE OwnRange(w, view)
  BY DEF OwnBytes, Then
<1>5. CASE ~Succeeds(q.is)
  <2>1. o = q
    BY <1>1, <1>5
  <2> QED
    BY <1>2, <1>3, <1>4, <1>5, <2>1
<1>6. CASE Succeeds(q.is)
  <2> DEFINE u == q.world
             range == q.is.ok
             buffer == u.buffers[range.buffer]
             size == Len(buffer.bytes)
             lent == Lent(u, range, exclusive)
  <2>1. o = Outcome(lent, u) /\ range \in Ranges(w)
    BY <1>1, <1>2, <1>6
  <2>2. range.from \in Nat /\ range.length \in Nat /\ range.buffer \in DOMAIN u.buffers
    BY <1>2, <2>1 DEF Ranges, Reaches
  <2>3. size \in Nat
    <3>1. u.buffers \in Seq(Memories)
      BY <1>2 DEF Reaches, SoundWorld, Engines
    <3>2. buffer \in Memories
      BY <2>2, <3>1, ElementOfSeq
    <3> QED
      BY <3>2, LenProperties DEF Memories
  <2>4. Succeeds(lent) => lent = Ok(range) /\ Inside(u, range) /\ ~(exclusive /\ buffer.immutable)
    <3>1. CASE buffer.shared \/ buffer.detached
      <4>1. lent = Thrown
        BY <3>1, KindOfFailures DEF Lent, Then, ArrayBuffer
      <4> QED
        BY <4>1, KindOfFailures
    <3>2. CASE ~(buffer.shared \/ buffer.detached)
      <4>1. ArrayBuffer(buffer) = Ok(size) /\ Succeeds(Ok(size)) /\ Ok(size).ok = size
        BY <3>2, KindOfOk DEF ArrayBuffer
      <4>2. lent = IF range.from + range.length > size \/ (exclusive /\ buffer.immutable) THEN Thrown ELSE Ok(range)
        BY <4>1 DEF Lent, Then
      <4> HIDE DEF lent
      <4>3. Succeeds(lent) => lent = Ok(range) /\ ~(range.from + range.length > size) /\ ~(exclusive /\ buffer.immutable)
        BY <4>2, KindOfFailures
      <4>4. ~(range.from + range.length > size) => Inside(u, range)
        <5>1. Inside(u, range) <=>
                ~buffer.shared /\ ~buffer.detached /\ range.from + range.length <= size
          BY DEF Inside
        <5> DEFINE end == range.from + range.length
        <5>2. end \in Nat
          BY <2>2
        <5> HIDE DEF end, size, buffer
        <5>3. ~(end > size) => end <= size
          BY <2>3, <5>2
        <5> QED
          BY <3>2, <5>1, <5>3 DEF end
      <4> QED
        BY <4>3, <4>4
    <3> QED
      BY <3>1, <3>2
  <2>5. o.is = lent /\ o.world = u
    BY <2>1, OutcomeIs
  <2>6. Straight(w, view) => o = Outcome(OwnBytes(w, view, exclusive), w)
    <3> HAVE Straight(w, view)
    <3>1. OwnBytes(w, view, exclusive) = lent /\ u = w
      BY <1>3, <1>4, <1>6
    <3> QED
      BY <2>1, <3>1
  <2>7. Succeeds(o.is) =>
          /\ o.is.ok \in Ranges(w) /\ Inside(o.world, o.is.ok)
          /\ ~(exclusive /\ o.world.buffers[o.is.ok.buffer].immutable)
    <3> HIDE DEF lent, u
    <3>1. Succeeds(o.is) => o.is.ok = range
      BY <2>4, <2>5, KindOfOk
    <3> HIDE DEF range
    <3> QED
      BY <2>1, <2>4, <2>5, <3>1
  <2> QED
    BY <1>2, <2>5, <2>6, <2>7
<1> QED
  BY <1>5, <1>6

LEMMA OwnIsAligned ==
    ASSUME NEW w, NEW view, Sees(w, view), NEW of \in {"u8", ElementOf(view)}
    PROVE  AlignedAt(of, From(view), Extent(w, view))
<1>1. view.at \in Nat /\ view.length \in Nat /\ From(view) \in Nat /\ Extent(w, view) \in Nat
  BY ViewIsTyped DEF Describing
<1>2. CASE of = "u8"
  BY <1>1, <1>2, ByteWidthAssumption, WholeElements DEF AlignedAt
<1>3. CASE of # "u8"
  <2>1. view.kind = "typed array" /\ of = view.of
    BY <1>3 DEF ElementOf
  <2>2. From(view) = view.at /\ Extent(w, view) = view.length
    BY <2>1 DEF From, Extent
  <2> QED
    BY <2>1, <2>2, ViewIsTyped DEF SoundView, AlignedAt
<1> QED
  BY <1>2, <1>3

\* What is borrowed is the view's own window, or one that the guest's accessors named.
LEMMA BorrowAsked ==
    ASSUME NEW w, NEW view, Sees(w, view), NEW exclusive \in BOOLEAN, NEW of \in {"u8", ElementOf(view)},
           NEW o \in BorrowAs(w, of, view, exclusive)
    PROVE  /\ Reaches(w, o.world)
           /\ Succeeds(o.is) =>
                /\ o.is.ok \in Windows(w, view) /\ o.is.ok \in Ranges(w) /\ Inside(o.world, o.is.ok)
                /\ ~(exclusive /\ o.world.buffers[o.is.ok.buffer].immutable)
           /\ Straight(w, view) =>
                /\ o.world = w
                /\ Succeeds(o.is) <=> (Shown(w, view) /\ ~(exclusive /\ w.buffers[view.buffer].immutable))
<1>1. CASE view.kind \notin Buffers
  <2>1. o = Outcome(Mismatch(DescribeSlice, view.kind), w)
    BY <1>1 DEF BorrowAs
  <2>2. Reaches(w, w)
    BY DEF Sees, Reaches
  <2> QED
    BY <1>1, <2>1, <2>2, OutcomeIs, KindOfFailures DEF Shown
<1>2. CASE view.kind \in Buffers
  <2> DEFINE Checked(range) ==
               IF AlignedAt(of, range.from, range.length) THEN Ok(range) ELSE Mismatch(<<"aligned bytes">>, "bytes")
  <2>1. PICK q \in Bytes(w, view, exclusive) :
          o \in IF Succeeds(q.is) THEN {Outcome(Checked(q.is.ok), q.world)} ELSE {q}
    BY <1>2 DEF BorrowAs, Bind
  <2>2. /\ Reaches(w, q.world)
        /\ Succeeds(q.is) =>
             /\ q.is.ok \in Ranges(w) /\ Inside(q.world, q.is.ok)
             /\ ~(exclusive /\ q.world.buffers[q.is.ok.buffer].immutable)
        /\ Straight(w, view) => q = Outcome(OwnBytes(w, view, exclusive), w)
    BY <1>2, <2>1, BytesAsked
  <2>3. /\ o.world = q.world
        /\ Succeeds(o.is) => Succeeds(q.is) /\ o.is.ok = q.is.ok
        /\ Succeeds(q.is) /\ AlignedAt(of, q.is.ok.from, q.is.ok.length) => Succeeds(o.is)
    <3>1. CASE Succeeds(q.is)
      <4>1. o.is = Checked(q.is.ok) /\ o.world = q.world
        <5> HIDE DEF Checked
        <5>1. o = Outcome(Checked(q.is.ok), q.world)
          BY <2>1, <3>1
        <5> QED
          BY <5>1, OutcomeIs
      <4>2. CASE AlignedAt(of, q.is.ok.from, q.is.ok.length)
        <5>1. o.is = Ok(q.is.ok)
          BY <4>1, <4>2
        <5> QED
          BY <3>1, <4>1, <5>1, KindOfOk
      <4>3. CASE ~AlignedAt(of, q.is.ok.from, q.is.ok.length)
        <5>1. o.is = Mismatch(<<"aligned bytes">>, "bytes")
          BY <4>1, <4>3
        <5> QED
          BY <3>1, <4>1, <4>3, <5>1, KindOfFailures
      <4> QED
        BY <4>2, <4>3
    <3>2. CASE ~Succeeds(q.is)
      BY <2>1, <3>2
    <3> QED
      BY <3>1, <3>2
  <2>4. CASE Straight(w, view)
    <3> DEFINE own == OwnBytes(w, view, exclusive)
               range == OwnWindow(w, view)
    <3>1. q.is = own /\ q.world = w
      BY <2>2, <2>4, OutcomeIs
    <3>2. /\ Succeeds(own) <=> (Shown(w, view) /\ ~(exclusive /\ w.buffers[view.buffer].immutable))
          /\ Succeeds(own) => own = Ok(range)
      BY <1>2, OwnBytesOfView DEF OwnWindow
    <3>3. range.from = From(view) /\ range.length = Extent(w, view) /\ Ok(range).ok = range
      BY KindOfOk DEF OwnWindow
    <3>4. Succeeds(own) => own.ok = range /\ AlignedAt(of, own.ok.from, own.ok.length)
      <4> HAVE Succeeds(own)
      <4>1. own.ok = range
        BY <3>2, <3>3
      <4> HIDE DEF own, range
      <4> QED
        BY <3>3, <4>1, OwnIsAligned
    <3> HIDE DEF own, range
    <3>5. Succeeds(o.is) <=> Succeeds(own)
      BY <2>3, <3>1, <3>4
    <3>6. Succeeds(o.is) => o.is.ok = range
      BY <2>3, <3>1, <3>4
    <3>7. Windows(w, view) = {range}
      BY <2>4 DEF Windows, range
    <3> QED
      BY <2>2, <2>3, <2>4, <3>1, <3>2, <3>5, <3>6, <3>7
  <2>5. CASE ~Straight(w, view)
    <3>1. Succeeds(o.is) => o.is.ok \in Ranges(w) /\ Inside(o.world, o.is.ok)
      BY <2>2, <2>3
    <3>2. Succeeds(o.is) => o.is.ok \in Windows(w, view)
      <4> HAVE Succeeds(o.is)
      <4> DEFINE range == o.is.ok
                 buffer == o.world.buffers[range.buffer]
      <4>1. /\ range \in [buffer : DOMAIN w.buffers, from : Nat, length : Nat]
            /\ range.from + range.length <= Len(buffer.bytes)
        BY <3>1 DEF Ranges, Inside
      <4>2. SoundBuffer(buffer) /\ Len(buffer.bytes) \in Nat
        <5>1. o.world.buffers \in Seq(Memories) /\ range.buffer \in DOMAIN o.world.buffers
          BY <2>2, <2>3, <4>1 DEF Reaches, SoundWorld, Engines
        <5>2. buffer \in Memories
          BY <5>1, ElementOfSeq
        <5>3. SoundBuffer(buffer)
          BY <2>2, <2>3, <5>1 DEF Reaches, SoundWorld
        <5> QED
          BY <5>2, <5>3, LenProperties DEF Memories
      <4> HIDE DEF range, buffer
      <4>3. range.from \in 0..Longest /\ range.length \in 0..Longest
        <5>1. Longest \in Nat /\ Len(buffer.bytes) <= Longest /\ range.from \in Nat /\ range.length \in Nat
          BY <4>1, <4>2, SizesAssumption DEF SoundBuffer
        <5> QED
          BY <4>1, <4>2, <5>1
      <4>4. range \in [buffer : DOMAIN w.buffers, from : 0..Longest, length : 0..Longest]
        BY <4>1, <4>3
      <4> QED
        BY <2>5, <4>4 DEF Windows, range
    <3> QED
      BY <2>2, <2>3, <2>5, <3>1, <3>2
  <2> QED
    BY <2>4, <2>5
<1> QED
  BY <1>1, <1>2

-----------------------------------------------------------------------------
(* Views keep to their bounds. *)

ViewsInv == SoundWorld(world)

LEMMA SoundInit == ViewsInit => ViewsInv
BY WorldsAssumption DEF ViewsInit, ViewsInv

LEMMA ContentsAre ==
    ASSUME NEW w, NEW view, Sees(w, view), NEW o \in Contents(w, view)
    PROVE  /\ Reaches(w, o.world)
           /\ Straight(w, view) => o.world = w /\ (Succeeds(o.is) <=> Shown(w, view))
           /\ Succeeds(o.is) => \E window \in Windows(w, view) :
                /\ Inside(o.world, window)
                /\ o.is.ok = [i \in 1..window.length |-> o.world.buffers[window.buffer].bytes[window.from + i]]
<1> DEFINE Part(range, u) == SubSeq(u.buffers[range.buffer].bytes, range.from + 1, range.from + range.length)
<1>1. PICK q \in BorrowAs(w, ElementOf(view), view, FALSE) :
        o \in IF Succeeds(q.is) THEN {Outcome(Ok(Part(q.is.ok, q.world)), q.world)} ELSE {q}
  BY DEF Contents, Bind
<1>2. /\ Reaches(w, q.world)
      /\ Succeeds(q.is) => q.is.ok \in Windows(w, view) /\ q.is.ok \in Ranges(w) /\ Inside(q.world, q.is.ok)
      /\ Straight(w, view) => q.world = w /\ (Succeeds(q.is) <=> Shown(w, view))
  BY BorrowAsked
<1>3. CASE ~Succeeds(q.is)
  <2>1. o = q
    BY <1>1, <1>3
  <2> QED
    BY <1>2, <1>3, <2>1
<1>4. CASE Succeeds(q.is)
  <2> DEFINE range == q.is.ok
             bytes == q.world.buffers[range.buffer].bytes
             m == range.from
             n == range.length
  <2>1. o.is = Ok(Part(range, q.world)) /\ o.world = q.world
    <3> HIDE DEF Part
    <3>1. o = Outcome(Ok(Part(range, q.world)), q.world)
      BY <1>1, <1>4
    <3> QED
      BY <3>1, OutcomeIs
  <2>2. Succeeds(o.is) /\ o.is.ok = SubSeq(bytes, m + 1, m + n)
    BY <2>1, KindOfOk
  <2>3. m \in Nat /\ n \in Nat
    BY <1>2, <1>4 DEF Ranges
  <2>4. SubSeq(bytes, m + 1, m + n) = [i \in 1..n |-> bytes[m + i]]
    <3> HIDE DEF m, n, bytes
    <3> QED
      BY <2>3
  <2>5. o.is.ok = [i \in 1..n |-> bytes[m + i]]
    BY <2>2, <2>4
  <2> QED
    BY <1>2, <1>4, <2>1, <2>2, <2>5
<1> QED
  BY <1>3, <1>4

LEMMA LengthIs ==
    ASSUME NEW w, NEW view, Sees(w, view), NEW o \in LengthOf(w, view)
    PROVE  /\ Reaches(w, o.world)
           /\ Straight(w, view) =>
                /\ o.world = w
                /\ Shown(w, view) => Succeeds(o.is) /\ o.is.ok * ByteWidth[ElementOf(view)] = Extent(w, view)
<1> DEFINE buffer == w.buffers[view.buffer]
           width == ByteWidth[ElementOf(view)]
           extent == Extent(w, view)
<1>1. PICK q \in ByteLength(w, view) :
        o \in IF Succeeds(q.is) THEN {Outcome(Ok(q.is.ok \div width), q.world)} ELSE {q}
  BY DEF LengthOf, Bind
<1>2. /\ Reaches(w, q.world)
      /\ view.kind \in Buffers /\ Straight(w, view) => q.is = OwnLength(w, view) /\ q.world = w
      /\ view.kind \notin Buffers => q.world = w
  BY LengthAsked, OutcomeIs
<1>3. /\ o.world = q.world
      /\ Succeeds(q.is) => o.is = Ok(q.is.ok \div width)
  <2> DEFINE count == q.is.ok \div width
  <2>1. o \in IF Succeeds(q.is) THEN {Outcome(Ok(count), q.world)} ELSE {q}
    BY <1>1
  <2> HIDE DEF count
  <2>2. /\ o.world = q.world
        /\ Succeeds(q.is) => o.is = Ok(count)
    BY <2>1, OutcomeIs
  <2> QED
    BY <2>2 DEF count
<1>4. ASSUME view.kind \in Buffers, Straight(w, view), Shown(w, view)
      PROVE  Succeeds(o.is) /\ o.is.ok * width = extent
  <2>1. /\ ~buffer.shared /\ ~buffer.detached
        /\ From(view) + extent <= Len(buffer.bytes)
    BY <1>4 DEF Shown, Inside, OwnWindow
  <2>2. OwnLength(w, view) = Ok(extent)
    <3>1. CASE view.kind = "ArrayBuffer"
      BY <2>1, <3>1 DEF Extent, OwnLength, ArrayBuffer
    <3>2. CASE view.kind # "ArrayBuffer"
      <4>1. From(view) = view.at /\ extent = view.length /\ view.at \in Nat /\ view.length \in Nat
            /\ Len(buffer.bytes) \in Nat
        BY <3>2, ViewIsTyped DEF From, Extent, Describing
      <4>2. ~OutOfBounds(buffer, view)
        BY <2>1, <4>1 DEF OutOfBounds
      <4> QED
        BY <3>2, <4>1, <4>2 DEF OwnLength, Described
    <3> QED
      BY <3>1, <3>2
  <2>3. q.is = Ok(extent)
    BY <1>2, <1>4, <2>2
  <2>4. o.is = Ok(extent \div width)
    BY <1>3, <2>3, KindOfOk
  <2>5. (extent \div width) * width = extent
    <3>1. extent \in Nat /\ width \in Nat \ {0}
      BY ViewIsTyped
    <3>2. extent % width = 0
      <4>1. CASE view.kind = "typed array"
        BY <4>1, ViewIsTyped DEF SoundView, Extent, ElementOf
      <4>2. CASE view.kind # "typed array"
        <5>1. width = 1
          BY <4>2, ByteWidthAssumption DEF ElementOf
        <5> HIDE DEF width, extent
        <5> QED
          BY <5>1, <3>1, WholeElements
      <4> QED
        BY <4>1, <4>2
    <3> HIDE DEF width, extent
    <3> QED
      BY <3>1, <3>2, WholeElements
  <2> QED
    BY <2>4, <2>5, KindOfOk
<1>5. Shown(w, view) => view.kind \in Buffers
  BY DEF Shown
<1> QED
  BY <1>2, <1>3, <1>4, <1>5

LEMMA HandleIs ==
    ASSUME NEW w, NEW view, Sees(w, view), NEW o \in BufferHandle(w, view)
    PROVE  /\ Reaches(w, o.world)
           /\ Succeeds(o.is) => IsArrayBuffer(o.world, o.is.ok)
           /\ Straight(w, view) => o.world = w /\ (Succeeds(o.is) => o.is.ok = view.buffer)
<1> DEFINE Handle(b, u) == IF IsArrayBuffer(u, b) THEN Ok(b) ELSE Mismatch(<<"ArrayBuffer">>, "object")
<1>1. PICK q \in BufferOf(w, view) :
        o \in IF Succeeds(q.is) THEN {Outcome(Handle(q.is.ok, q.world), q.world)} ELSE {q}
  BY DEF BufferHandle, Bind
<1>2. /\ Reaches(w, q.world)
      /\ Straight(w, view) => q.is \in {Thrown, Ok(view.buffer)} /\ q.world = w
  <2>1. OwnBuffer(w, view) \in {Thrown, Ok(view.buffer)}
    BY DEF OwnBuffer, Described
  <2>2. /\ Reaches(w, q.world)
        /\ view.kind \in {"typed array", "DataView"} /\ Straight(w, view) => q = Outcome(OwnBuffer(w, view), w)
        /\ view.kind \notin {"typed array", "DataView"} => q = Outcome(Thrown, w)
    BY BufferAsked
  <2>3. CASE view.kind \in {"typed array", "DataView"}
    <3>1. Straight(w, view) => q.is = OwnBuffer(w, view) /\ q.world = w
      <4> HAVE Straight(w, view)
      <4>1. q = Outcome(OwnBuffer(w, view), w)
        BY <2>2, <2>3
      <4> QED
        BY <4>1, OutcomeIs
    <3> QED
      BY <2>1, <2>2, <3>1
  <2>4. CASE view.kind \notin {"typed array", "DataView"}
    <3>1. q.is = Thrown /\ q.world = w
      <4>1. q = Outcome(Thrown, w)
        BY <2>2, <2>4
      <4> QED
        BY <4>1, OutcomeIs
    <3> QED
      BY <2>2, <3>1
  <2> QED
    BY <2>3, <2>4
<1>3. CASE ~Succeeds(q.is)
  <2>1. o = q
    BY <1>1, <1>3
  <2> QED
    BY <1>2, <1>3, <2>1
<1>4. CASE Succeeds(q.is)
  <2>1. o.is = Handle(q.is.ok, q.world) /\ o.world = q.world
    <3> HIDE DEF Handle
    <3>1. o = Outcome(Handle(q.is.ok, q.world), q.world)
      BY <1>1, <1>4
    <3> QED
      BY <3>1, OutcomeIs
  <2>2. Succeeds(o.is) => IsArrayBuffer(o.world, q.is.ok) /\ o.is.ok = q.is.ok
    <3>1. CASE IsArrayBuffer(q.world, q.is.ok)
      BY <2>1, <3>1, KindOfOk
    <3>2. CASE ~IsArrayBuffer(q.world, q.is.ok)
      BY <2>1, <3>2, KindOfFailures
    <3> QED
      BY <3>1, <3>2
  <2>3. q.is \in {Thrown, Ok(view.buffer)} => q.is.ok = view.buffer
    BY <1>4, KindOfOk, KindOfFailures
  <2> QED
    BY <1>2, <2>1, <2>2, <2>3
<1> QED
  BY <1>3, <1>4

LEMMA SoundNext == ViewsInv /\ [ViewsNext]_viewsVars => ViewsInv'
<1> SUFFICES ASSUME SoundWorld(world), [ViewsNext]_viewsVars PROVE SoundWorld(world')
  BY DEF ViewsInv
<1>1. CASE UNCHANGED world
  BY <1>1
<1>2. ASSUME NEW v \in DOMAIN world.views, NEW index \in Indices, NEW written \in Slices,
             WriteView(v, index, written)
      PROVE  SoundWorld(world')
  <2> DEFINE view == world.views[v]
             offset == OffsetOf(view, index)
  <2>1. PICK q \in BorrowAs(world, "u8", view, TRUE) :
          \/ world' = q.world
          \/ /\ Succeeds(q.is)
             /\ world' = [q.world EXCEPT !.buffers[q.is.ok.buffer].bytes =
                             Overwritten(@, q.is.ok.from + offset, written)]
    BY <1>2 DEF WriteView
  <2>2. Sees(world, view)
    BY SeesItsViews
  <2>3. Reaches(world, q.world) /\ (Succeeds(q.is) => q.is.ok \in Ranges(world))
    BY <2>2, BorrowAsked
  <2>4. CASE world' = q.world
    BY <2>3, <2>4 DEF Reaches
  <2>5. CASE /\ Succeeds(q.is)
             /\ world' = [q.world EXCEPT !.buffers[q.is.ok.buffer].bytes =
                             Overwritten(@, q.is.ok.from + offset, written)]
    <3> DEFINE u == q.world
               b == q.is.ok.buffer
               from == q.is.ok.from + offset
               buffer == u.buffers[b]
               after == Overwritten(buffer.bytes, from, written)
    <3>1. SoundWorld(u) /\ b \in DOMAIN u.buffers /\ q.is.ok.from \in Nat
      BY <2>3, <2>5 DEF Reaches, Ranges
    <3>2. buffer \in Memories /\ SoundBuffer(buffer)
      BY <3>1, ElementOfSeq DEF SoundWorld, Engines
    <3>3. from \in Int
      <4>1. index \in Nat /\ ByteWidth[ElementOf(view)] \in Nat /\ MaxSize \in Nat
        BY <2>2, ViewIsTyped, SizesAssumption
      <4>2. index * ByteWidth[ElementOf(view)] \in Nat
        BY <4>1
      <4>3. offset \in Nat
        BY <4>1, <4>2 DEF OffsetOf
      <4> QED
        BY <3>1, <4>3
    <3> HIDE DEF from, u, b
    <3>4. after \in Seq(0..255) /\ Len(after) = Len(buffer.bytes)
      BY <3>2, <3>3, SoundSlices, OverwrittenIsSound DEF Memories
    <3>5. [buffer EXCEPT !.bytes = after] \in Memories /\ SoundBuffer([buffer EXCEPT !.bytes = after])
      <4>1. [buffer EXCEPT !.bytes = after] \in Memories
        BY <3>2, <3>4 DEF Memories
      <4>2. [buffer EXCEPT !.bytes = after].bytes = after /\ [buffer EXCEPT !.bytes = after].detached = buffer.detached
        BY <3>2 DEF Memories
      <4>3. buffer.detached => after = <<>>
        BY <3>2, <3>4, EmptySeq DEF SoundBuffer
      <4> QED
        BY <3>2, <3>4, <4>1, <4>2, <4>3 DEF SoundBuffer
    <3>6. world' = [u EXCEPT !.buffers[b] = [buffer EXCEPT !.bytes = after]]
      BY <2>5 DEF from, u, b
    <3> QED
      BY <3>1, <3>5, <3>6, SoundExcept
  <2> QED
    BY <2>1, <2>4, <2>5

<1>3. ASSUME NEW of \in DOMAIN ByteWidth, NEW written \in Slices, FromValues(of, written)
      PROVE  SoundWorld(world')
  <2> DEFINE buffer == [bytes |-> written, shared |-> FALSE, immutable |-> FALSE, detached |-> FALSE]
             view == [kind |-> "typed array", of |-> of, buffer |-> Len(world.buffers) + 1, at |-> 0,
                      length |-> Len(written)]
             buffers == Append(world.buffers, buffer)
             views == Append(world.views, view)
  <2>1. world' = [world EXCEPT !.buffers = buffers, !.views = views] /\ Len(written) % ByteWidth[of] = 0
    BY <1>3 DEF FromValues
  <2>2. world \in Engines
    BY DEF SoundWorld
  <2>3. buffer \in Memories /\ SoundBuffer(buffer)
    BY SoundSlices DEF Memories, SoundBuffer
  <2>4. Len(world.buffers) \in Nat /\ Len(world.views) \in Nat
    BY <2>2, LenProperties
  <2>5. view \in Describing
    <3>1. Len(world.buffers) + 1 \in Nat /\ Len(written) \in Nat /\ "typed array" \in Buffers
      BY <2>4, SoundSlices DEF Buffers
    <3> DEFINE next == Len(world.buffers) + 1
               long == Len(written)
    <3>2. next \in Nat /\ long \in Nat
      BY <3>1
    <3> HIDE DEF next, long
    <3>3. [kind |-> "typed array", of |-> of, buffer |-> next, at |-> 0, length |-> long] \in Describing
      BY <3>1, <3>2 DEF Describing
    <3> QED
      BY <3>3 DEF next, long
  <2>6. /\ buffers \in Seq(Memories) /\ DOMAIN buffers = 1..(Len(world.buffers) + 1)
        /\ \A b \in 1..Len(world.buffers) : buffers[b] = world.buffers[b]
        /\ buffers[Len(world.buffers) + 1] = buffer
    <3> HIDE DEF buffer
    <3> QED
      BY <2>2, <2>3, <2>4, AppendProperties, LenProperties DEF Engines
  <2>7. /\ views \in Seq(Describing) /\ DOMAIN views = 1..(Len(world.views) + 1)
        /\ \A v \in 1..Len(world.views) : views[v] = world.views[v]
        /\ views[Len(world.views) + 1] = view
    <3> HIDE DEF view
    <3> QED
      BY <2>2, <2>5, <2>4, AppendProperties, LenProperties DEF Engines
  <2>8. world'.buffers = buffers /\ world'.views = views
    BY <2>1, <2>2 DEF Engines
  <2>9. world' \in Engines
    BY <2>1, <2>2, <2>6, <2>7 DEF Engines
  <2>10. ASSUME NEW b \in DOMAIN buffers PROVE SoundBuffer(buffers[b])
    <3>1. DOMAIN world.buffers = 1..Len(world.buffers)
      BY <2>2, LenProperties
    <3>2. CASE b \in 1..Len(world.buffers)
      BY <3>1, <3>2, <2>6 DEF SoundWorld
    <3>3. CASE b = Len(world.buffers) + 1
      BY <3>3, <2>3, <2>6
    <3> QED
      BY <3>2, <3>3, <2>4, <2>6
  <2>11. ASSUME NEW v \in DOMAIN views PROVE SoundView(views[v], buffers)
    <3>1. DOMAIN world.views = 1..Len(world.views) /\ DOMAIN world.buffers = 1..Len(world.buffers)
      BY <2>2, LenProperties
    <3>2. CASE v \in 1..Len(world.views)
      <4>1. SoundView(world.views[v], world.buffers) /\ views[v] = world.views[v]
        BY <3>1, <3>2, <2>7 DEF SoundWorld
      <4>2. DOMAIN world.buffers \subseteq DOMAIN buffers
        BY <3>1, <2>4, <2>6
      <4> HIDE DEF buffers, views
      <4> QED
        BY <4>1, <4>2 DEF SoundView
    <3>3. CASE v = Len(world.views) + 1
      <4>1. ByteWidth[of] \in Nat \ {0}
        BY ByteWidthAssumption
      <4>2. 0 % ByteWidth[of] = 0
        BY <4>1, WholeElements
      <4>3. views[v] = view
        BY <3>3, <2>7
      <4>4. view.buffer \in DOMAIN buffers
        BY <2>4, <2>6
      <4>5. view.at = 0 /\ view.of = of /\ view.length = Len(written)
        OBVIOUS
      <4> HIDE DEF buffers, views, view
      <4> QED
        BY <4>2, <4>3, <4>4, <4>5, <2>1 DEF SoundView
    <3>4. v \in 1..(Len(world.views) + 1)
      BY <2>7
    <3> HIDE DEF buffers, views
    <3> QED
      BY <3>2, <3>3, <3>4, <2>4
  <2> HIDE DEF buffers, views
  <2> QED
    BY <2>8, <2>9, <2>10, <2>11 DEF SoundWorld
<1>4. ASSUME GuestChanges PROVE SoundWorld(world')
  BY <1>4, ChangesReach DEF GuestChanges, Reaches
<1>5. ASSUME NEW v \in DOMAIN world.views, ReadView(v) \/ AsksLength(v) \/ AsksBuffer(v)
      PROVE  SoundWorld(world')
  <2> DEFINE view == world.views[v]
  <2>1. Sees(world, view)
    BY SeesItsViews
  <2>2. CASE ReadView(v)
    BY <2>1, <2>2, ContentsAre DEF ReadView, Looks, Reaches
  <2>3. CASE AsksLength(v)
    BY <2>1, <2>3, LengthIs DEF AsksLength, Looks, Reaches
  <2>4. CASE AsksBuffer(v)
    BY <2>1, <2>4, HandleIs DEF AsksBuffer, Looks, Reaches
  <2> QED
    BY <1>5, <2>2, <2>3, <2>4
<1> QED
  BY <1>1, <1>2, <1>3, <1>4, <1>5 DEF ViewsNext, viewsVars

LEMMA ReadInBounds ==
    ASSUME SoundWorld(world), NEW v \in DOMAIN world.views, ReadView(v)
    PROVE  access'.do = "read" /\ access'.view = v /\ ReadsWindow(world.views[v])
<1> DEFINE view == world.views[v]
<1>1. PICK o \in Contents(world, view) :
        access' = [do |-> "read", view |-> v] /\ reply' = o.is /\ world' = o.world
  BY DEF ReadView, Looks, Does
<1>2. Sees(world, view)
  BY SeesItsViews
<1>3. /\ Straight(world, view) => o.world = world /\ (Succeeds(o.is) <=> Shown(world, view))
      /\ Succeeds(o.is) => \E window \in Windows(world, view) :
           /\ Inside(o.world, window)
           /\ o.is.ok = [i \in 1..window.length |-> o.world.buffers[window.buffer].bytes[window.from + i]]
  <2> HIDE DEF view
  <2> QED
    BY <1>1, <1>2, ContentsAre
<1> HIDE DEF view
<1>4. ReadsWindow(view)
  BY <1>1, <1>3 DEF ReadsWindow
<1> QED
  BY <1>1, <1>4 DEF view

LEMMA LengthInBounds ==
    ASSUME SoundWorld(world), NEW v \in DOMAIN world.views, AsksLength(v)
    PROVE  /\ access'.do = "length" /\ access'.view = v
           /\ Straight(world, world.views[v]) =>
                /\ UNCHANGED world
                /\ Shown(world, world.views[v]) =>
                     Succeeds(reply') /\ reply'.ok * ByteWidth[ElementOf(world.views[v])] = Extent(world, world.views[v])
<1> DEFINE view == world.views[v]
<1>1. PICK o \in LengthOf(world, view) :
        access' = [do |-> "length", view |-> v] /\ reply' = o.is /\ world' = o.world
  BY DEF AsksLength, Looks, Does
<1>2. Sees(world, view)
  BY SeesItsViews
<1>3. Straight(world, view) =>
        /\ o.world = world
        /\ Shown(world, view) => Succeeds(o.is) /\ o.is.ok * ByteWidth[ElementOf(view)] = Extent(world, view)
  BY <1>2, LengthIs
<1> QED
  BY <1>1, <1>3

LEMMA BufferIsThere ==
    ASSUME SoundWorld(world), NEW v \in DOMAIN world.views, AsksBuffer(v)
    PROVE  /\ access'.do = "buffer" /\ access'.view = v
           /\ Succeeds(reply') => IsArrayBuffer(world', reply'.ok)
           /\ Straight(world, world.views[v]) =>
                UNCHANGED world /\ (Succeeds(reply') => reply'.ok = world.views[v].buffer)
<1> DEFINE view == world.views[v]
<1>1. PICK o \in BufferHandle(world, view) :
        access' = [do |-> "buffer", view |-> v] /\ reply' = o.is /\ world' = o.world
  BY DEF AsksBuffer, Looks, Does
<1>2. Sees(world, view)
  BY SeesItsViews
<1>3. /\ Succeeds(o.is) => IsArrayBuffer(o.world, o.is.ok)
      /\ Straight(world, view) => o.world = world /\ (Succeeds(o.is) => o.is.ok = view.buffer)
  BY <1>2, HandleIs
<1> QED
  BY <1>1, <1>3

\* The product saturates where no memory reaches, and so do both ways to say that it fits.
LEMMA OffsetFits ==
    ASSUME NEW w, SoundWorld(w), NEW window \in Ranges(w), Inside(w, window),
           NEW view, ByteWidth[ElementOf(view)] \in Nat, NEW index \in Indices, NEW written \in Slices
    PROVE  LET n == Len(written)
           IN  /\ FitsAt(OffsetOf(view, index), n, window.length) <=>
                     Before(view, window, index) + n <= window.from + window.length
               /\ FitsAt(OffsetOf(view, index), n, window.length) =>
                     window.from + OffsetOf(view, index) = Before(view, window, index)
               /\ Before(view, window, index) \in Nat
<1> DEFINE n == Len(written)
           extent == window.length
           from == window.from
           product == index * ByteWidth[ElementOf(view)]
           size == Len(w.buffers[window.buffer].bytes)
<1>1. n \in Nat /\ extent \in Nat /\ from \in Nat /\ MaxSize \in Nat /\ Longest \in Nat /\ Longest < MaxSize
  BY SoundSlices, SizesAssumption DEF Ranges
<1>2. product \in Nat
  <2>1. index \in Nat
    BY SizesAssumption
  <2> QED
    BY <2>1
<1>3. extent <= Longest
  <2>1. from + extent <= size
    BY DEF Inside
  <2>2. size \in Nat /\ size <= Longest
    <3>1. w.buffers \in Seq(Memories) /\ window.buffer \in DOMAIN w.buffers
      BY DEF Ranges, SoundWorld, Engines
    <3>2. w.buffers[window.buffer] \in Memories
      BY <3>1, ElementOfSeq
    <3> QED
      BY <3>1, <3>2, LenProperties DEF SoundWorld, SoundBuffer, Memories
  <2> HIDE DEF size, from, extent
  <2> QED
    BY <1>1, <2>1, <2>2
<1>4. OffsetOf(view, index) = (IF product > MaxSize THEN MaxSize ELSE product)
      /\ Before(view, window, index) = from + product
  BY DEF OffsetOf, Before
<1> HIDE DEF n, extent, from, product
<1>5. FitsAt(OffsetOf(view, index), n, extent) <=> from + product + n <= from + extent
  BY <1>1, <1>2, <1>3, <1>4 DEF FitsAt
<1>6. FitsAt(OffsetOf(view, index), n, extent) => from + OffsetOf(view, index) = from + product
  BY <1>1, <1>2, <1>3, <1>4 DEF FitsAt
<1>7. from + product \in Nat
  BY <1>1, <1>2
<1> QED
  BY <1>4, <1>5, <1>6, <1>7 DEF n, extent, from

LEMMA WriteInBounds ==
    ASSUME SoundWorld(world), NEW v \in DOMAIN world.views, NEW index \in Indices, NEW written \in Slices,
           WriteView(v, index, written)
    PROVE  /\ access'.do = "write" /\ access'.view = v /\ access'.index = index /\ access'.written = written
           /\ WritesTarget(world.views[v], index, written, access'.left)
<1> DEFINE view == world.views[v]
           n == Len(written)
           offset == OffsetOf(view, index)
<1>1. PICK q \in BorrowAs(world, "u8", view, TRUE) :
        /\ access' = [do |-> "write", view |-> v, index |-> index, written |-> written, left |-> q.world]
        /\ \/ ~Succeeds(q.is) /\ reply' = q.is /\ world' = q.world
           \/ /\ Succeeds(q.is) /\ ~FitsAt(offset, n, q.is.ok.length)
              /\ reply' = Mismatch(<<"at most so many bytes">>, "bytes") /\ world' = q.world
           \/ /\ Succeeds(q.is) /\ FitsAt(offset, n, q.is.ok.length)
              /\ reply' = Ok({})
              /\ world' = [q.world EXCEPT !.buffers[q.is.ok.buffer].bytes =
                              Overwritten(@, q.is.ok.from + offset, written)]
  BY DEF WriteView, Does
<1> DEFINE u == q.world
           window == q.is.ok
           bytes == u.buffers[window.buffer].bytes
           before == Before(view, window, index)
           target == (before + 1)..(before + n)
           after == [i \in DOMAIN bytes |-> IF i \in target THEN written[i - before] ELSE bytes[i]]
           done == [u EXCEPT !.buffers[window.buffer].bytes = after]
           fits == before + n <= window.from + window.length
           free == Shown(world, view) /\ ~world.buffers[view.buffer].immutable
           ownfits == Before(view, OwnWindow(world, view), index) + n <= From(view) + Extent(world, view)
<1>2. Sees(world, view)
  BY SeesItsViews
<1>3. /\ Reaches(world, u)
      /\ Succeeds(q.is) =>
           /\ window \in Windows(world, view) /\ window \in Ranges(world) /\ Inside(u, window)
           /\ ~u.buffers[window.buffer].immutable
      /\ Straight(world, view) => u = world /\ (Succeeds(q.is) <=> free)
  BY <1>2, BorrowAsked
<1>4. Succeeds(q.is) =>
        /\ FitsAt(offset, n, window.length) <=> fits
        /\ FitsAt(offset, n, window.length) => window.from + offset = before
        /\ before \in Nat
  <2> HAVE Succeeds(q.is)
  <2>1. SoundWorld(u) /\ window \in Ranges(u) /\ Inside(u, window)
    BY <1>3 DEF Reaches, Ranges
  <2>2. ByteWidth[ElementOf(view)] \in Nat
    BY <1>2, ViewIsTyped
  <2> HIDE DEF u, view, window
  <2> QED
    BY <2>1, <2>2, OffsetFits
<1>5. Succeeds(q.is) /\ Straight(world, view) => (fits <=> ownfits)
  <2> HAVE Succeeds(q.is) /\ Straight(world, view)
  <2>1. window = OwnWindow(world, view)
    BY <1>3 DEF Windows
  <2>2. window.from = From(view) /\ window.length = Extent(world, view)
    <3> HIDE DEF window
    <3> QED
      BY <2>1 DEF OwnWindow
  <2> HIDE DEF window, view
  <2> QED
    BY <2>1, <2>2
<1>6. Succeeds(q.is) /\ fits => Succeeds(reply') /\ world' = done
  <2> HAVE Succeeds(q.is) /\ fits
  <2>1. /\ reply' = Ok({})
        /\ world' = [u EXCEPT !.buffers[window.buffer].bytes = Overwritten(@, window.from + offset, written)]
    BY <1>1, <1>4
  <2>2. window.from + offset = before /\ before \in Nat
    BY <1>4
  <2>3. Overwritten(bytes, before, written) = after
    <3> DEFINE old == bytes
               at == before
    <3>1. at \in Nat /\ n \in Nat /\ DOMAIN written = 1..n
      BY <2>2, SoundSlices
    <3>2. DOMAIN old \subseteq Int
      <4>1. u.buffers \in Seq(Memories) /\ window.buffer \in DOMAIN u.buffers
        BY <1>3 DEF Ranges, Reaches, SoundWorld, Engines
      <4>2. u.buffers[window.buffer] \in Memories
        BY <4>1, ElementOfSeq
      <4>3. old \in Seq(0..255)
        BY <4>2 DEF Memories
      <4> HIDE DEF old
      <4> QED
        BY <4>3, LenProperties
    <3> HIDE DEF old, at, n
    <3>3. \A i \in DOMAIN old : i - at \in 1..n <=> i \in (at + 1)..(at + n)
      BY <3>1, <3>2
    <3>4. Overwritten(old, at, written) =
            [i \in DOMAIN old |-> IF i \in (at + 1)..(at + n) THEN written[i - at] ELSE old[i]]
      BY <3>1, <3>3 DEF Overwritten
    <3> QED
      BY <3>4 DEF old, at, n
  <2>4. world' = done
    <3> DEFINE b == window.buffer
               from == window.from + offset
    <3>1. world' = [u EXCEPT !.buffers[b].bytes = Overwritten(@, from, written)] /\ from = before
      BY <2>1, <2>2
    <3> HIDE DEF b, from, before, after
    <3>2. world' = [u EXCEPT !.buffers[b].bytes = Overwritten(u.buffers[b].bytes, before, written)]
      BY <3>1
    <3> QED
      BY <2>3, <3>2 DEF b
  <2> QED
    BY <2>1, <2>4, KindOfOk
<1>7. ~(Succeeds(q.is) /\ fits) => ~Succeeds(reply') /\ world' = u
  <2> HIDE DEF fits
  <2> QED
    BY <1>1, <1>4, KindOfFailures
<1>8. access'.left = u
  BY <1>1
<1>9. WritesTarget(view, index, written, u)
  <2>1. Straight(world, view) => u = world /\ (Succeeds(reply') <=> free /\ ownfits)
    <3> HIDE DEF u, fits, free, ownfits
    <3> QED
      BY <1>3, <1>5, <1>6, <1>7
  <2>2. ~Succeeds(reply') => world' = u
    <3> HIDE DEF fits, done
    <3> QED
      BY <1>6, <1>7
  <2>3. Succeeds(reply') =>
          /\ window \in Windows(world, view) /\ Inside(u, window) /\ ~u.buffers[window.buffer].immutable
          /\ fits /\ world' = done
    <3> HIDE DEF fits, done, u, window
    <3> QED
      BY <1>3, <1>6, <1>7
  <2>4. Succeeds(reply') => \E range \in Windows(world, view) :
          LET start == Before(view, range, index)
              part == (start + 1)..(start + Len(written))
              old == u.buffers[range.buffer].bytes
          IN  /\ Inside(u, range) /\ ~u.buffers[range.buffer].immutable
              /\ start + Len(written) <= range.from + range.length
              /\ world' = [u EXCEPT !.buffers[range.buffer].bytes =
                             [i \in DOMAIN old |-> IF i \in part THEN written[i - start] ELSE old[i]]]
    <3> HAVE Succeeds(reply')
    <3> USE <2>3
    <3> WITNESS window \in Windows(world, view)
    <3> QED
      BY <2>3
  <2> HIDE DEF u
  <2> QED
    BY <2>1, <2>2, <2>4 DEF WritesTarget
<1> QED
  BY <1>1, <1>8, <1>9

\* A view reads and writes the bytes that it shows and no others: what is borrowed is what
\* it shows, or within the buffer that guest code's accessors named, as it is after they
\* have run; and an offset that saturates is beyond the end of any memory.
THEOREM AlwaysKeepsToBounds == ViewsSpec => ViewsKeepToBounds
<1>1. SoundWorld(world) /\ ViewsNext => Kept
  <2> SUFFICES ASSUME SoundWorld(world), ViewsNext PROVE Kept
    OBVIOUS
  <2>1. ASSUME NEW v \in DOMAIN world.views, ReadView(v) PROVE Kept
    BY <2>1, ReadInBounds DEF Kept
  <2>2. ASSUME NEW v \in DOMAIN world.views, AsksLength(v) PROVE Kept
    BY <2>2, LengthInBounds DEF Kept
  <2>3. ASSUME NEW v \in DOMAIN world.views, AsksBuffer(v) PROVE Kept
    BY <2>3, BufferIsThere DEF Kept
  <2>4. ASSUME NEW v \in DOMAIN world.views, NEW index \in Indices, NEW written \in Slices,
               WriteView(v, index, written)
        PROVE  Kept
    BY <2>4, WriteInBounds DEF Kept
  <2>5. ASSUME NEW of \in DOMAIN ByteWidth, NEW written \in Slices, FromValues(of, written) PROVE Kept
    <3>1. access'.do = "new"
      BY <2>5 DEF FromValues, Does
    <3> QED
      BY <3>1 DEF Kept
  <2>6. ASSUME GuestChanges PROVE Kept
    <3>1. access'.do = "guest"
      BY <2>6 DEF GuestChanges, Does
    <3> QED
      BY <3>1 DEF Kept
  <2> QED
    BY <2>1, <2>2, <2>3, <2>4, <2>5, <2>6 DEF ViewsNext
<1>2. SoundWorld(world) /\ [ViewsNext]_viewsVars => [Kept]_viewsVars
  BY <1>1
<1>3. ViewsInv /\ [ViewsNext]_viewsVars => [Kept]_viewsVars
  BY <1>2 DEF ViewsInv
<1> QED
  BY <1>3, SoundInit, SoundNext, PTL DEF ViewsSpec, ViewsKeepToBounds

-----------------------------------------------------------------------------
(* Arguments are in their place. *)

\* A sequence of any values, and one more.
LEMMA AppendedFunction ==
    ASSUME NEW n \in Nat, NEW f, f = [i \in 1..n |-> f[i]], NEW e
    PROVE  /\ Len(f) = n
           /\ Append(f, e) = [i \in 1..(n + 1) |-> IF i = n + 1 THEN e ELSE f[i]]
<1> DEFINE S == {f[i] : i \in 1..n} \cup {e}
           g == [i \in 1..(n + 1) |-> IF i = n + 1 THEN e ELSE f[i]]
<1>1. f \in [1..n -> S] /\ e \in S /\ n + 1 \in Nat
  OBVIOUS
<1>2. g \in [1..(n + 1) -> S]
  OBVIOUS
<1>3. DOMAIN g = 1..(n + 1) /\ g[n + 1] = e /\ \A i \in 1..n : g[i] = f[i]
  OBVIOUS
<1> HIDE DEF S, g
<1>4. f \in Seq(S) /\ Len(f) = n
  BY <1>1, FunctionIsSeq
<1>5. g \in Seq(S) /\ Len(g) = n + 1
  BY <1>1, <1>2, FunctionIsSeq
<1>6. /\ Append(f, e) \in Seq(S) /\ Len(Append(f, e)) = n + 1
      /\ \A i \in 1..n : Append(f, e)[i] = f[i]
      /\ Append(f, e)[n + 1] = e
  BY <1>1, <1>4, AppendProperties
<1>7. \A i \in 1..(n + 1) : Append(f, e)[i] = g[i]
  BY <1>3, <1>6
<1>8. Append(f, e) = g
  BY <1>5, <1>6, <1>7, SeqEqual
<1> QED
  BY <1>4, <1>8 DEF g

CallableInv ==
    LET roles == RolesOf(called.callable)
        n == Len(taking.handed)
    IN  /\ called \in Calls
        /\ taking.values = called.values
        /\ taking = [values |-> taking.values, next |-> taking.next, handed |-> taking.handed]
        /\ n \in Nat /\ n <= Len(roles)
        /\ taking.handed = [i \in 1..n |-> Placed(roles, called.values, i)]
        /\ (\A i \in 1..n : roles[i] # "rest") => taking.next = Consumed(roles, n)

LEMMA CallIsTyped ==
    ASSUME NEW call \in Calls
    PROVE  /\ call.values \in Seq(STRING) /\ Len(call.values) \in Nat /\ DOMAIN call.values = 1..Len(call.values)
           /\ Len(RolesOf(call.callable)) \in Nat
           /\ DOMAIN RolesOf(call.callable) = 1..Len(RolesOf(call.callable))
           /\ DOMAIN RolesOf(call.callable) = DOMAIN call.callable.parameters
           /\ IsFiniteSet(DOMAIN call.callable.parameters)
           /\ call.callable.async \in BOOLEAN /\ call.module \in BOOLEAN
<1> DEFINE parameters == call.callable.parameters
           P == [roles : SUBSET DOMAIN TypesFor, type : ParameterTypes, plain : BOOLEAN]
           n == Len(parameters)
           roles == RolesOf(call.callable)
           S == {RoleOf(parameters[i]) : i \in 1..n}
<1> HIDE DEF P
<1>1. call \in [callable : Callables, module : BOOLEAN, values : Seq(STRING)]
  BY CallsAssumption
<1>2. call.values \in Seq(STRING) /\ parameters \in Seq(P) /\ call.callable.async \in BOOLEAN /\ call.module \in BOOLEAN
  BY <1>1 DEF Callables, P
<1>3. Len(call.values) \in Nat /\ DOMAIN call.values = 1..Len(call.values)
  BY <1>2, LenProperties
<1>4. n \in Nat /\ DOMAIN parameters = 1..n
  BY <1>2, LenProperties
<1>5. roles = [i \in 1..n |-> RoleOf(parameters[i])]
  BY <1>4 DEF RolesOf
<1>6. roles \in [1..n -> S] /\ DOMAIN roles = 1..n
  BY <1>5
<1>7. IsFiniteSet(1..n)
  BY <1>4, FS_Interval
<1> HIDE DEF roles, n, S, parameters
<1>8. Len(roles) = n
  BY <1>4, <1>6, FunctionIsSeq
<1> QED
  BY <1>2, <1>3, <1>4, <1>6, <1>7, <1>8 DEF roles, parameters

LEMMA ConsumedIsCount ==
    ASSUME NEW roles, NEW n \in Nat
    PROVE  /\ Consumed(roles, 0) = 0 /\ Consumed(roles, n) \in Nat
           /\ Consumed(roles, n + 1) =
                 IF roles[n + 1] \in Consuming THEN Consumed(roles, n) + 1 ELSE Consumed(roles, n)
<1>1. \A m \in Nat : Consumed(roles, m) = Count(roles, 1, m, Consuming)
  BY DEF Consumed, Count
<1>2. Count(roles, 1, 0, Consuming) = 0
  BY CountOfNone
<1>3. Count(roles, 1, n, Consuming) \in Nat
  BY CountIsNat
<1>4. Count(roles, 1, n + 1, Consuming) =
        IF roles[n + 1] \in Consuming THEN Count(roles, 1, n, Consuming) + 1 ELSE Count(roles, 1, n, Consuming)
  BY CountNext
<1> QED
  BY <1>1, <1>2, <1>3, <1>4

LEMMA CallableBegins == CallableInit => CallableInv
<1> SUFFICES ASSUME CallableInit PROVE CallableInv
  OBVIOUS
<1> DEFINE roles == RolesOf(called.callable)
<1>1. called \in Calls /\ taking = [values |-> called.values, next |-> 0, handed |-> <<>>]
  BY DEF CallableInit
<1>2. taking.values = called.values /\ taking.next = 0 /\ taking.handed = <<>>
  BY <1>1
<1>3. Len(taking.handed) = 0
  BY <1>2
<1>4. Len(roles) \in Nat
  BY <1>1, CallIsTyped
<1>5. Consumed(roles, 0) = 0
  BY ConsumedIsCount
<1>6. taking.handed = [i \in 1..0 |-> Placed(roles, called.values, i)]
  BY <1>2
<1> HIDE DEF roles
<1> QED
  BY <1>1, <1>2, <1>3, <1>4, <1>5, <1>6 DEF CallableInv, roles

LEMMA CallableStep == CallableInv /\ [CallableNext]_callableVars => CallableInv'
<1> SUFFICES ASSUME CallableInv, [CallableNext]_callableVars PROVE CallableInv'
  OBVIOUS
<1>1. CASE UNCHANGED callableVars
  <2>1. called' = called /\ taking' = taking
    BY <1>1 DEF callableVars
  <2> QED
    BY <2>1 DEF CallableInv
<1>2. CASE TakesArgument
  <2> DEFINE roles == RolesOf(called.callable)
             values == called.values
             handed == taking.handed
             n == Len(handed)
             role == roles[n + 1]
             at == Consumed(roles, n)
             item == Placed(roles, values, n + 1)
  <2>1. /\ called \in Calls /\ taking.values = values
        /\ taking = [values |-> taking.values, next |-> taking.next, handed |-> handed]
        /\ n \in Nat /\ n <= Len(roles)
        /\ handed = [i \in 1..n |-> Placed(roles, values, i)]
        /\ (\A i \in 1..n : roles[i] # "rest") => taking.next = at
    BY DEF CallableInv
  <2>2. Accepted(called) /\ n + 1 \in DOMAIN roles /\ taking' = Hand(taking, role) /\ called' = called
    BY <1>2 DEF TakesArgument
  <2>3. DOMAIN roles = 1..Len(roles) /\ Len(roles) \in Nat /\ DOMAIN values = 1..Len(values) /\ Len(values) \in Nat
    BY <2>1, CallIsTyped
  <2>4. /\ at \in Nat
        /\ Consumed(roles, n + 1) = IF role \in Consuming THEN at + 1 ELSE at
    BY <2>1, ConsumedIsCount
  <2>5. RestIsLast(roles)
    BY <2>2 DEF Accepted, AcceptsCallable
  <2>6. ASSUME role \in Consuming PROVE taking.next = at
    <3>1. ASSUME NEW i \in 1..n PROVE roles[i] # "rest"
      <4>1. i \in DOMAIN roles /\ n + 1 \in DOMAIN roles /\ i < n + 1
        BY <2>1, <2>2, <2>3
      <4> HIDE DEF roles
      <4> QED
        BY <4>1, <2>5, <2>6 DEF RestIsLast
    <3> QED
      BY <3>1, <2>1
  <2>0. taking.handed = handed
    OBVIOUS
  <2> HIDE DEF roles, values, handed, n
  <2>7. /\ taking'.values = values
        /\ taking' = [values |-> taking'.values, next |-> taking'.next, handed |-> taking'.handed]
        /\ taking'.handed = Append(handed, item)
        /\ role # "rest" => taking'.next = IF role \in Consuming THEN taking.next + 1 ELSE taking.next
    <3>1. CASE role \in {"value", "borrow", "borrow_mut"}
      <4>1. role \in Consuming \ {"rest"} /\ taking.next = at
        BY <3>1, <2>6 DEF Consuming
      <4>2. item = <<IF at + 1 \in DOMAIN values THEN values[at + 1] ELSE Nothing>>
        <5>1. Consumed(roles, n + 1) = at + 1
          BY <2>4, <4>1
        <5> QED
          BY <4>1, <5>1 DEF Placed
      <4>3. at + 1 \in DOMAIN values <=> at < Len(values)
        BY <2>3, <2>4
      <4>4. item = (IF at < Len(values) THEN <<values[at + 1]>> ELSE <<Nothing>>)
        <5> HIDE DEF at, item
        <5> QED
          BY <4>2, <4>3
      <4>5. Hand(taking, role) = Advanced(taking)
        BY <3>1 DEF Hand
      <4> HIDE DEF at, item, role
      <4>6. taking' = [values |-> values, next |-> taking.next + 1, handed |-> Append(handed, item)]
        <5>1. Append(handed, IF taking.next < Len(values) THEN <<values[taking.next + 1]>> ELSE <<Nothing>>)
                = Append(handed, item)
          BY <4>1, <4>4
        <5>2. taking' = [taking EXCEPT !.next = @ + 1,
                             !.handed = Append(handed, IF taking.next < Len(values)
                                                       THEN <<values[taking.next + 1]>> ELSE <<Nothing>>)]
          BY <2>0, <2>1, <2>2, <4>5 DEF Advanced
        <5> DEFINE longer == Append(handed, item)
        <5>3. taking' = [taking EXCEPT !.next = @ + 1, !.handed = longer]
          BY <5>1, <5>2
        <5> HIDE DEF longer
        <5>4. taking' = [values |-> values, next |-> taking.next + 1, handed |-> longer]
          BY <2>1, <5>3
        <5> QED
          BY <5>4 DEF longer
      <4> QED
        BY <4>1, <4>6
    <3>2. CASE role = "rest"
      <4>1. role \in Consuming /\ taking.next = at
        BY <3>2, <2>6 DEF Consuming
      <4>2. item = SubSeq(values, at + 1, Len(values))
        <5>1. Consumed(roles, n + 1) = at + 1
          BY <2>4, <4>1
        <5> QED
          BY <3>2, <4>1, <5>1 DEF Placed
      <4>3. at > Len(values) => SubSeq(values, at + 1, Len(values)) = <<>>
        <5> HIDE DEF at
        <5> QED
          BY <2>3, <2>4, SubSeqEmpty
      <4>4. Hand(taking, role) = AllTaken(taking)
        BY <3>2 DEF Hand
      <4> HIDE DEF at, item, role
      <4>5. item = (IF at <= Len(values) THEN SubSeq(values, at + 1, Len(values)) ELSE <<>>)
        <5>1. CASE at <= Len(values)
          BY <4>2, <5>1
        <5>2. CASE ~(at <= Len(values))
          <6>1. at > Len(values)
            BY <5>2, <2>3, <2>4
          <6> QED
            BY <4>2, <4>3, <5>2, <6>1
        <5> QED
          BY <5>1, <5>2
      <4>6. taking' = [values |-> values, next |-> Len(values), handed |-> Append(handed, item)]
        <5>1. Append(handed, IF taking.next <= Len(values) THEN SubSeq(values, taking.next + 1, Len(values)) ELSE <<>>)
                = Append(handed, item)
          BY <4>1, <4>5
        <5>2. taking' = [taking EXCEPT !.next = Len(values),
                             !.handed = Append(handed, IF taking.next <= Len(values)
                                                       THEN SubSeq(values, taking.next + 1, Len(values)) ELSE <<>>)]
          BY <2>0, <2>1, <2>2, <4>4 DEF AllTaken
        <5> DEFINE longer == Append(handed, item)
                   all == Len(values)
        <5>3. taking' = [taking EXCEPT !.next = all, !.handed = longer]
          BY <5>1, <5>2
        <5> HIDE DEF longer, all
        <5>4. taking' = [values |-> values, next |-> all, handed |-> longer]
          BY <2>1, <5>3
        <5> QED
          BY <5>4 DEF longer, all
      <4> QED
        BY <3>2, <4>6
    <3>3. CASE role \notin {"value", "borrow", "borrow_mut", "rest"}
      <4>1. role \notin Consuming
        BY <3>3 DEF Consuming
      <4>2. item = <<role>>
        BY <3>3, <4>1 DEF Placed, Consuming
      <4>3. Hand(taking, role) = [taking EXCEPT !.handed = Append(@, <<role>>)]
        BY <3>3 DEF Hand
      <4> HIDE DEF at, item, role
      <4>4. taking' = [values |-> values, next |-> taking.next, handed |-> Append(handed, item)]
        <5> DEFINE longer == Append(handed, item)
        <5>1. taking' = [taking EXCEPT !.handed = longer]
          BY <2>0, <2>2, <4>2, <4>3
        <5> HIDE DEF longer
        <5>2. taking' = [values |-> values, next |-> taking.next, handed |-> longer]
          BY <2>1, <5>1
        <5> QED
          BY <5>2 DEF longer
      <4> QED
        BY <4>1, <4>4
    <3> QED
      BY <3>1, <3>2, <3>3
  <2>8. /\ Len(Append(handed, item)) = n + 1
        /\ Append(handed, item) = [i \in 1..(n + 1) |-> Placed(roles, values, i)]
    <3>1. handed = [i \in 1..n |-> handed[i]] /\ n \in Nat
      BY <2>1
    <3> HIDE DEF item
    <3>2. Append(handed, item) = [i \in 1..(n + 1) |-> IF i = n + 1 THEN item ELSE handed[i]]
      BY <3>1, AppendedFunction
    <3>3. ASSUME NEW i \in 1..(n + 1)
          PROVE  (IF i = n + 1 THEN item ELSE handed[i]) = Placed(roles, values, i)
      <4>1. CASE i = n + 1
        BY <4>1 DEF item
      <4>2. CASE i # n + 1
        BY <4>2, <2>1
      <4> QED
        BY <4>1, <4>2
    <3>4. Append(handed, item) = [i \in 1..(n + 1) |-> Placed(roles, values, i)]
      BY <3>2, <3>3
    <3> DEFINE g == Append(handed, item)
    <3>5. g = [i \in 1..(n + 1) |-> g[i]] /\ n + 1 \in Nat
      BY <3>1, <3>4
    <3> HIDE DEF g
    <3>6. Len(g) = n + 1
      BY <3>5, AppendedFunction
    <3> QED
      BY <3>4, <3>6 DEF g
  <2>9. (\A i \in 1..(n + 1) : roles[i] # "rest") => taking'.next = Consumed(roles, n + 1)
    <3> SUFFICES ASSUME \A i \in 1..(n + 1) : roles[i] # "rest"
                 PROVE  taking'.next = Consumed(roles, n + 1)
      OBVIOUS
    <3>1. role # "rest" /\ taking.next = at
      BY <2>1
    <3> HIDE DEF at, role
    <3> QED
      BY <2>4, <2>7, <3>1
  <2>10. n + 1 \in Nat /\ n + 1 <= Len(roles)
    BY <2>1, <2>2, <2>3
  <2>11. Len(taking'.handed) = n + 1
    BY <2>7, <2>8
  <2>12. roles = RolesOf(called'.callable) /\ values = called'.values /\ called' \in Calls
    BY <2>1, <2>2 DEF roles, values
  <2> HIDE DEF role, at, item
  <2> QED
    BY <2>7, <2>8, <2>9, <2>10, <2>11, <2>12 DEF CallableInv
<1> QED
  BY <1>1, <1>2 DEF CallableNext

\* What the body of an async function keeps of its call is the state of a module, and what
\* parameters that borrow nothing are handed.
LEMMA NothingLentIsKept ==
    ASSUME NEW call \in Calls, Accepted(call)
    PROVE  Captured(call.callable, call.module) \cap Borrowed = {}
<1> DEFINE callable == call.callable
           roles == RolesOf(callable)
           receiver == IF HasReceiver(callable) THEN <<IF call.module THEN "resolve" ELSE "borrow">> ELSE <<>>
           steps == CallbackSteps(callable, call.module)
           lends == {i \in DOMAIN callable.parameters : RoleOf(callable.parameters[i]) \in Borrowed}
<1>1. SUFFICES ASSUME callable.async PROVE (ToSet(steps) \ {"promise", "body"}) \cap Borrowed = {}
  BY CallIsTyped DEF Captured
<1>2. (call.module \/ ~HasReceiver(callable)) /\ ~Takes(callable, Borrowed)
  BY <1>1 DEF Accepted, ValidAsync
<1>3. lends = {}
  <2>1. IsFiniteSet(lends)
    BY CallIsTyped, FS_Subset
  <2>2. Cardinality(lends) = 0
    <3>1. Cardinality(lends) \in Nat
      BY <2>1, FS_CardinalityType
    <3>2. ~(Cardinality(lends) > 0)
      BY <1>2 DEF Takes, CountOf
    <3> QED
      BY <3>1, <3>2
  <2> QED
    BY <2>1, <2>2, FS_EmptySet
<1>4. \A i \in DOMAIN roles : roles[i] \notin Borrowed
  BY <1>3, CallIsTyped DEF RolesOf
<1>5. steps = roles \o receiver \o <<"promise", "body">>
  BY <1>1 DEF CallbackSteps
<1>6. \A i \in DOMAIN receiver : receiver[i] \notin Borrowed
  BY <1>2 DEF Borrowed
<1>7. \A i \in DOMAIN steps : steps[i] \in {roles[j] : j \in DOMAIN roles} \cup {receiver[j] : j \in DOMAIN receiver} \cup {"promise", "body"}
  <2> DEFINE S == {roles[j] : j \in DOMAIN roles} \cup {receiver[j] : j \in DOMAIN receiver} \cup {"promise", "body"}
  <2>1. roles \in Seq(S)
    <3>1. roles \in [1..Len(roles) -> S] /\ Len(roles) \in Nat
      BY CallIsTyped DEF RolesOf
    <3> HIDE DEF roles, S
    <3> QED
      BY <3>1, FunctionIsSeq
  <2>2. receiver \in Seq(S)
    <3>1. CASE receiver = <<>>
      BY <3>1, EmptySeq
    <3>2. CASE HasReceiver(callable)
      <4> DEFINE e == IF call.module THEN "resolve" ELSE "borrow"
      <4>1. receiver = <<e>>
        BY <3>2
      <4>2. e \in S
        <5>1. 1 \in DOMAIN receiver /\ receiver[1] = e
          BY <4>1
        <5> HIDE DEF receiver, e
        <5> QED
          BY <5>1
      <4> HIDE DEF receiver, e, S
      <4> QED
        BY <4>1, <4>2
    <3> QED
      BY <3>1, <3>2
  <2>3. <<"promise", "body">> \in Seq(S)
    <3>1. "promise" \in S /\ "body" \in S
      OBVIOUS
    <3> HIDE DEF S
    <3> QED
      BY <3>1
  <2> HIDE DEF S, roles, receiver, steps
  <2>4. steps \in Seq(S)
    BY <1>5, <2>1, <2>2, <2>3, ConcatProperties
  <2>5. \A i \in DOMAIN steps : steps[i] \in S
    BY <2>4, ElementOfSeq, LenProperties
  <2> QED
    BY <2>5 DEF S
<1> HIDE DEF roles, receiver, steps
<1>8. \A x \in ToSet(steps) : x \in {"promise", "body"} \/ x \notin Borrowed
  BY <1>4, <1>6, <1>7 DEF ToSet
<1> QED
  BY <1>8

\* Each parameter that is handed something is handed what is in its place: as long as no
\* rest was taken the next argument is the one after those consumed, and afterwards nothing
\* consumes.
THEOREM ArgumentsAlwaysInPlace == CallableSpec => []ArgumentsInPlace
<1>1. CallableInv => ArgumentsInPlace
  <2> SUFFICES ASSUME CallableInv PROVE ArgumentsInPlace
    OBVIOUS
  <2> DEFINE roles == RolesOf(called.callable)
             handed == taking.handed
             n == Len(handed)
  <2>1. /\ called \in Calls /\ n \in Nat /\ n <= Len(roles)
        /\ handed = [i \in 1..n |-> Placed(roles, called.values, i)]
    BY DEF CallableInv
  <2>2. DOMAIN roles = 1..Len(roles) /\ Len(roles) \in Nat
    BY <2>1, CallIsTyped
  <2>3. DOMAIN handed = 1..n /\ DOMAIN handed \subseteq DOMAIN roles
    BY <2>1, <2>2
  <2>4. handed = [i \in DOMAIN handed |-> Placed(roles, called.values, i)]
    BY <2>1, <2>3
  <2>5. Accepted(called) => Captured(called.callable, called.module) \cap Borrowed = {}
    BY <2>1, NothingLentIsKept
  <2> QED
    BY <2>3, <2>4, <2>5 DEF ArgumentsInPlace
<1> QED
  BY CallableBegins, CallableStep, <1>1, PTL DEF CallableSpec

-----------------------------------------------------------------------------
(* Bundles are whole. *)

NamesOf(files) == {FromPath(files[i].path) : i \in {j \in DOMAIN files : ~IsData(files[j])}}
DataOf(files) == {files[i].path : i \in {j \in DOMAIN files : IsData(files[j])}}

\* While nothing failed the builder has the files it was given, and only a file that could
\* not be inserted, or a name there already, makes it fail.
BundleInv ==
    /\ added \in Seq(Files)
    /\ building = [modules |-> building.modules, data |-> building.data, failed |-> building.failed]
    /\ building.failed \in BOOLEAN
    /\ building.failed <=> Broken(added)
    /\ ~building.failed =>
         /\ building.modules = [name \in NamesOf(added) |-> building.modules[name]]
         /\ \A i \in DOMAIN added : ~IsData(added[i]) => building.modules[FromPath(added[i].path)] = added[i].path
         /\ building.data = DataOf(added)

LEMMA BundleBegins == BundleInit => BundleInv
<1> SUFFICES ASSUME BundleInit PROVE BundleInv
  OBVIOUS
<1>1. building = [modules |-> [name \in {} |-> <<>>], data |-> {}, failed |-> FALSE] /\ added = <<>>
  BY DEF BundleInit, NewBuilder
<1>2. added \in Seq(Files) /\ DOMAIN added = {}
  BY <1>1
<1>3. NamesOf(added) = {} /\ DataOf(added) = {} /\ ~Broken(added)
  BY <1>2 DEF NamesOf, DataOf, Broken
<1>4. building.failed = FALSE /\ building.data = {} /\ building.modules = [name \in {} |-> <<>>]
  BY <1>1
<1>5. building.modules = [name \in {} |-> building.modules[name]]
  BY <1>4
<1>6. building = [modules |-> building.modules, data |-> building.data, failed |-> building.failed]
  BY <1>1, <1>4
<1> QED
  BY <1>2, <1>3, <1>4, <1>5, <1>6 DEF BundleInv

\* A file more is one that breaks, or it is of a key of its own.
LEMMA OneFileMore ==
    ASSUME NEW file \in Files, added \in Seq(Files)
    PROVE  LET longer == Append(added, file)
           IN  /\ longer \in Seq(Files)
               /\ Broken(longer) <=> (\/ Broken(added) \/ ~Insertable(file)
                                      \/ \E i \in DOMAIN added : Key(added[i]) = Key(file))
               /\ NamesOf(longer) = NamesOf(added) \cup (IF IsData(file) THEN {} ELSE {FromPath(file.path)})
               /\ DataOf(longer) = DataOf(added) \cup (IF IsData(file) THEN {file.path} ELSE {})
               /\ \A i \in DOMAIN longer : longer[i] = file \/ (i \in DOMAIN added /\ longer[i] = added[i])
<1> DEFINE longer == Append(added, file)
           n == Len(added)
<1>1. n \in Nat /\ DOMAIN added = 1..n
  BY LenProperties
<1>2. longer \in Seq(Files) /\ Len(longer) = n + 1 /\ (\A i \in 1..n : longer[i] = added[i]) /\ longer[n + 1] = file
  BY AppendProperties
<1>3. DOMAIN longer = 1..(n + 1)
  BY <1>2, LenProperties
<1> HIDE DEF longer, n
<1>4. /\ DOMAIN longer = DOMAIN added \cup {n + 1} /\ n + 1 \notin DOMAIN added
      /\ \A i \in DOMAIN added : longer[i] = added[i]
  BY <1>1, <1>2, <1>3
<1>5. Broken(longer) <=> (\/ Broken(added) \/ ~Insertable(file)
                          \/ \E i \in DOMAIN added : Key(added[i]) = Key(file))
  <2>1. (\E i \in DOMAIN longer : ~Insertable(longer[i])) <=>
          (\E i \in DOMAIN added : ~Insertable(added[i])) \/ ~Insertable(file)
    BY <1>2, <1>4
  <2>2. (\E i, j \in DOMAIN longer : i # j /\ Key(longer[i]) = Key(longer[j])) <=>
          \/ \E i, j \in DOMAIN added : i # j /\ Key(added[i]) = Key(added[j])
          \/ \E i \in DOMAIN added : Key(added[i]) = Key(file)
    BY <1>2, <1>4
  <2> QED
    BY <2>1, <2>2 DEF Broken
<1>6. NamesOf(longer) = NamesOf(added) \cup (IF IsData(file) THEN {} ELSE {FromPath(file.path)})
  BY <1>2, <1>4 DEF NamesOf
<1>7. DataOf(longer) = DataOf(added) \cup (IF IsData(file) THEN {file.path} ELSE {})
  BY <1>2, <1>4 DEF DataOf
<1>8. \A i \in DOMAIN longer : longer[i] = file \/ (i \in DOMAIN added /\ longer[i] = added[i])
  BY <1>2, <1>4
<1> QED
  BY <1>2, <1>5, <1>6, <1>7, <1>8 DEF longer

LEMMA KeysTell ==
    ASSUME NEW one, NEW other
    PROVE  /\ ~IsData(one) /\ ~IsData(other) => (Key(one) = Key(other) <=> FromPath(one.path) = FromPath(other.path))
           /\ IsData(one) /\ IsData(other) => (Key(one) = Key(other) <=> one.path = other.path)
           /\ (IsData(one) /\ ~IsData(other)) \/ (~IsData(one) /\ IsData(other)) => Key(one) # Key(other)
<1>1. CASE IsData(one) /\ IsData(other)
  BY <1>1 DEF Key
<1>2. CASE ~IsData(one) /\ ~IsData(other)
  BY <1>2 DEF Key
<1>3. CASE (IsData(one) /\ ~IsData(other)) \/ (~IsData(one) /\ IsData(other))
  BY <1>3 DEF Key
<1> QED
  BY <1>1, <1>2, <1>3

\* What becomes of a builder that has not failed.
LEMMA Attempted ==
    ASSUME NEW builder, NEW file \in Files, ~builder.failed
    PROVE  LET clash == IF IsData(file) THEN file.path \in builder.data
                        ELSE FromPath(file.path) \in DOMAIN builder.modules
           IN  Attempt(builder, file) =
                 IF ~Insertable(file) \/ clash THEN Failing(builder)
                 ELSE IF IsData(file) THEN [builder EXCEPT !.data = @ \cup {file.path}]
                 ELSE WithModule(builder, FromPath(file.path), file.path)
<1> DEFINE clash == IF IsData(file) THEN file.path \in builder.data
                    ELSE FromPath(file.path) \in DOMAIN builder.modules
           data == [builder EXCEPT !.data = @ \cup {file.path}]
           module == WithModule(builder, FromPath(file.path), file.path)
           result == IF ~Insertable(file) \/ clash THEN Failing(builder) ELSE IF IsData(file) THEN data ELSE module
           named == FromPath(file.path) # <<>>
           ready == file.readable /\ ValidPath(file.path)
           taken == FromPath(file.path) \in DOMAIN builder.modules
<1> SUFFICES Attempt(builder, file) = result
  OBVIOUS
<1>1. file.by \in {"module", "data", "file"}
  BY FilesAssumption
<1>2. Attempt(builder, file) = IF ~ready THEN Failing(builder) ELSE Insert(builder, file)
  BY DEF Attempt
<1>3. ~ready => ~Insertable(file)
  BY DEF Insertable
<1>4. ASSUME ready, IsData(file)
      PROVE  Insertable(file) /\ Insert(builder, file) = IF clash THEN Failing(builder) ELSE data
  <2>1. Insertable(file)
    BY <1>4 DEF Insertable
  <2>2. Insert(builder, file) = InsertData(builder, file)
    BY <1>1, <1>4 DEF Insert, InsertFile, IsData
  <2>3. InsertData(builder, file) = IF clash THEN Failing(builder) ELSE data
    BY <1>4 DEF InsertData
  <2> QED
    BY <2>1, <2>2, <2>3
<1>5. ASSUME ready, ~IsData(file)
      PROVE  Insertable(file) <=> (named /\ (file.by = "module" \/ file.utf8) /\ Transpiles(file))
  BY <1>5 DEF Insertable
<1>6. InsertModule(builder, file) = IF (~named \/ taken) \/ ~Transpiles(file) THEN Failing(builder) ELSE module
  BY DEF InsertModule
<1>7. ASSUME ~IsData(file) PROVE clash <=> taken
  BY <1>7
<1>8. CASE ~ready
  <2> HIDE DEF ready, clash, data, module
  <2> QED
    BY <1>2, <1>3, <1>8
<1>9. CASE ready /\ IsData(file)
  <2>1. Insertable(file) /\ Insert(builder, file) = IF clash THEN Failing(builder) ELSE data
    BY <1>4, <1>9
  <2> HIDE DEF ready, clash, data, module
  <2> QED
    BY <1>2, <1>9, <2>1
<1>10. CASE (ready /\ ~IsData(file)) /\ file.by = "module"
  <2>1. Insert(builder, file) = InsertModule(builder, file)
    BY <1>10 DEF Insert
  <2>2. Insertable(file) <=> (named /\ Transpiles(file))
    BY <1>5, <1>10
  <2>3. clash <=> taken
    BY <1>7, <1>10
  <2> HIDE DEF ready, clash, data, module, named, taken
  <2> QED
    BY <1>2, <1>6, <1>10, <2>1, <2>2, <2>3
<1>11. CASE (ready /\ ~IsData(file)) /\ file.by = "file"
  <2>1. named /\ file.by # "module"
    BY <1>11 DEF IsData
  <2>2. Insert(builder, file) = IF ~file.utf8 THEN Failing(builder) ELSE InsertModule(builder, file)
    BY <1>11, <2>1 DEF Insert, InsertFile
  <2>3. Insertable(file) <=> (file.utf8 /\ Transpiles(file))
    BY <1>5, <1>11, <2>1
  <2>4. clash <=> taken
    BY <1>7, <1>11
  <2> HIDE DEF ready, clash, data, module, named, taken
  <2> QED
    BY <1>2, <1>6, <1>11, <2>1, <2>2, <2>3, <2>4
<1>12. IsData(file) \/ file.by = "module" \/ file.by = "file"
  BY <1>1 DEF IsData
<1> HIDE DEF result, ready
<1> QED
  BY <1>8, <1>9, <1>10, <1>11, <1>12

LEMMA BundleStep == BundleInv /\ [BundleNext]_bundleVars => BundleInv'
<1> SUFFICES ASSUME BundleInv, [BundleNext]_bundleVars PROVE BundleInv'
  OBVIOUS
<1>1. CASE UNCHANGED bundleVars
  <2>1. building' = building /\ added' = added
    BY <1>1 DEF bundleVars
  <2> QED
    BY <2>1 DEF BundleInv
<1>2. ASSUME NEW file \in Files, Add(file) PROVE BundleInv'
  <2> DEFINE clash == IF IsData(file) THEN file.path \in building.data
                      ELSE FromPath(file.path) \in DOMAIN building.modules
             name == FromPath(file.path)
  <2>1. /\ added \in Seq(Files)
        /\ building = [modules |-> building.modules, data |-> building.data, failed |-> building.failed]
        /\ building.failed \in BOOLEAN
        /\ building.failed <=> Broken(added)
        /\ ~building.failed =>
             /\ building.modules = [n \in NamesOf(added) |-> building.modules[n]]
             /\ \A i \in DOMAIN added : ~IsData(added[i]) => building.modules[FromPath(added[i].path)] = added[i].path
             /\ building.data = DataOf(added)
    BY DEF BundleInv
  <2>2. building' = Attempt(building, file) /\ added' = Append(added, file)
    BY <1>2 DEF Add
  <2>3. /\ added' \in Seq(Files)
        /\ Broken(added') <=> (\/ Broken(added) \/ ~Insertable(file)
                               \/ \E i \in DOMAIN added : Key(added[i]) = Key(file))
        /\ NamesOf(added') = NamesOf(added) \cup (IF IsData(file) THEN {} ELSE {name})
        /\ DataOf(added') = DataOf(added) \cup (IF IsData(file) THEN {file.path} ELSE {})
        /\ \A i \in DOMAIN added' : added'[i] = file \/ (i \in DOMAIN added /\ added'[i] = added[i])
    BY <2>1, <2>2, OneFileMore
  <2>4. CASE building.failed
    <3>1. building' = building
      BY <2>2, <2>4 DEF Attempt
    <3>2. Broken(added')
      BY <2>1, <2>3, <2>4
    <3> QED
      BY <2>1, <2>3, <2>4, <3>1, <3>2 DEF BundleInv
  <2>5. CASE ~building.failed
    <3>1. /\ building.modules = [n \in NamesOf(added) |-> building.modules[n]]
          /\ \A i \in DOMAIN added : ~IsData(added[i]) => building.modules[FromPath(added[i].path)] = added[i].path
          /\ building.data = DataOf(added) /\ ~Broken(added)
      BY <2>1, <2>5
    <3>2. clash <=> \E i \in DOMAIN added : Key(added[i]) = Key(file)
      <4>1. DOMAIN building.modules = NamesOf(added)
        BY <3>1
      <4>2. CASE IsData(file)
        BY <3>1, <4>2, KeysTell DEF DataOf
      <4>3. CASE ~IsData(file)
        BY <4>1, <4>3, KeysTell DEF NamesOf
      <4> QED
        BY <4>2, <4>3
    <3>3. building' = IF ~Insertable(file) \/ clash THEN Failing(building)
                      ELSE IF IsData(file) THEN [building EXCEPT !.data = @ \cup {file.path}]
                      ELSE WithModule(building, name, file.path)
      BY <2>2, <2>5, Attempted
    <3> HIDE DEF clash
    <3>4. CASE ~Insertable(file) \/ clash
      <4>1. building' = [building EXCEPT !.failed = TRUE]
        BY <3>3, <3>4 DEF Failing
      <4>2. building' = [modules |-> building'.modules, data |-> building'.data, failed |-> building'.failed]
            /\ building'.failed = TRUE
        BY <2>1, <4>1
      <4>3. Broken(added')
        BY <2>3, <3>2, <3>4
      <4> QED
        BY <2>3, <4>2, <4>3 DEF BundleInv
    <3>5. CASE Insertable(file) /\ ~clash /\ IsData(file)
      <4>1. building' = [building EXCEPT !.data = @ \cup {file.path}]
        BY <3>3, <3>5
      <4>2. /\ building' = [modules |-> building'.modules, data |-> building'.data, failed |-> building'.failed]
            /\ building'.failed = FALSE /\ building'.modules = building.modules
            /\ building'.data = building.data \cup {file.path}
        BY <2>1, <2>5, <4>1
      <4>3. ~Broken(added')
        BY <2>3, <3>1, <3>2, <3>5
      <4>4. NamesOf(added') = NamesOf(added) /\ DataOf(added') = building'.data
        BY <2>3, <3>1, <3>5, <4>2
      <4>5. building'.modules = [n \in NamesOf(added') |-> building'.modules[n]]
        BY <3>1, <4>2, <4>4
      <4>6. \A i \in DOMAIN added' : ~IsData(added'[i]) => building'.modules[FromPath(added'[i].path)] = added'[i].path
        BY <2>3, <3>1, <3>5, <4>2
      <4> QED
        BY <2>3, <4>2, <4>3, <4>4, <4>5, <4>6 DEF BundleInv
    <3>6. CASE Insertable(file) /\ ~clash /\ ~IsData(file)
      <4> DEFINE more == [n \in DOMAIN building.modules \cup {name} |-> IF n = name THEN file.path ELSE building.modules[n]]
      <4>1. building' = [building EXCEPT !.modules = more]
        BY <3>3, <3>6 DEF WithModule
      <4>2. /\ building' = [modules |-> building'.modules, data |-> building'.data, failed |-> building'.failed]
            /\ building'.failed = FALSE /\ building'.modules = more /\ building'.data = building.data
        <5> HIDE DEF more
        <5> QED
          BY <2>1, <2>5, <4>1
      <4>3. ~Broken(added')
        BY <2>3, <3>1, <3>2, <3>6
      <4>4. NamesOf(added') = NamesOf(added) \cup {name} /\ DataOf(added') = building'.data
        BY <2>3, <3>1, <3>6, <4>2
      <4>5. DOMAIN building.modules = NamesOf(added)
        BY <3>1
      <4>6. building'.modules = [n \in NamesOf(added') |-> building'.modules[n]]
        BY <4>2, <4>4, <4>5
      <4>7. name \notin NamesOf(added)
        BY <3>6, <4>5 DEF clash
      <4>8. ASSUME NEW i \in DOMAIN added', ~IsData(added'[i])
            PROVE  building'.modules[FromPath(added'[i].path)] = added'[i].path
        <5>1. CASE added'[i] = file
          BY <4>2, <5>1
        <5>2. CASE i \in DOMAIN added /\ added'[i] = added[i]
          <6>1. FromPath(added[i].path) \in NamesOf(added)
            BY <4>8, <5>2 DEF NamesOf
          <6>2. building.modules[FromPath(added[i].path)] = added[i].path
            BY <3>1, <4>8, <5>2
          <6> QED
            BY <4>2, <4>5, <4>7, <5>2, <6>1, <6>2
        <5> QED
          BY <2>3, <5>1, <5>2
      <4> QED
        BY <2>3, <4>2, <4>3, <4>4, <4>6, <4>8 DEF BundleInv
    <3> QED
      BY <3>4, <3>5, <3>6
  <2> QED
    BY <2>1, <2>4, <2>5
<1> QED
  BY <1>1, <1>2 DEF BundleNext

\* A bundle has every file that was added, each under a name of its own, or it is not made.
THEOREM BundlesAlwaysWhole == BundleSpec => []BundlesWhole
<1>1. BundleInv => BundlesWhole
  <2> SUFFICES ASSUME BundleInv PROVE Built(building) = Expected(added)
    BY DEF BundlesWhole
  <2> DEFINE modules == {i \in DOMAIN added : ~IsData(added[i])}
             PathOf(name) == added[CHOOSE i \in modules : FromPath(added[i].path) = name].path
  <2>1. Expected(added) =
          IF Broken(added) \/ modules = {} THEN <<>>
          ELSE <<[modules |-> [name \in NamesOf(added) |-> PathOf(name)], data |-> DataOf(added)]>>
    <3>1. DataOf(added) = {added[i].path : i \in DOMAIN added \ modules}
      BY DEF DataOf
    <3>2. NamesOf(added) = {FromPath(added[i].path) : i \in modules}
      BY DEF NamesOf
    <3> QED
      BY <3>1, <3>2 DEF Expected
  <2>2. CASE building.failed
    <3>1. Broken(added)
      BY <2>2 DEF BundleInv
    <3> QED
      BY <2>1, <2>2, <3>1 DEF Built
  <2>3. CASE ~building.failed
    <3>1. /\ building.modules = [name \in NamesOf(added) |-> building.modules[name]]
          /\ \A i \in modules : building.modules[FromPath(added[i].path)] = added[i].path
          /\ building.data = DataOf(added) /\ ~Broken(added)
      BY <2>3 DEF BundleInv
    <3>2. DOMAIN building.modules = {} <=> modules = {}
      BY <3>1 DEF NamesOf
    <3>3. ASSUME NEW name \in NamesOf(added) PROVE building.modules[name] = PathOf(name)
      <4>1. \E i \in modules : FromPath(added[i].path) = name
        BY <3>3 DEF NamesOf
      <4> DEFINE i == CHOOSE j \in modules : FromPath(added[j].path) = name
      <4>2. i \in modules /\ FromPath(added[i].path) = name
        BY <4>1
      <4>3. building.modules[FromPath(added[i].path)] = added[i].path
        BY <3>1, <4>2
      <4> QED
        BY <4>2, <4>3
    <3> HIDE DEF PathOf, modules
    <3>4. building.modules = [name \in NamesOf(added) |-> PathOf(name)]
      BY <3>1, <3>3
    <3>5. Built(building) = IF DOMAIN building.modules = {} THEN <<>>
                            ELSE <<[modules |-> building.modules, data |-> building.data]>>
      BY <2>3 DEF Built
    <3> QED
      BY <2>1, <3>1, <3>2, <3>4, <3>5
  <2> QED
    BY <2>2, <2>3
<1> QED
  BY BundleBegins, BundleStep, <1>1, PTL DEF BundleSpec

-----------------------------------------------------------------------------
(* Errors arrive whole. *)

LEMMA KindOfGuest == ASSUME NEW x PROVE Kind([guest |-> x]) = "guest" /\ [guest |-> x].guest = x
<1>1. DOMAIN [guest |-> x] = {"guest"}
  OBVIOUS
<1>2. (CHOOSE k \in {"guest"} : TRUE) = "guest"
  OBVIOUS
<1> QED
  BY <1>1, <1>2 DEF Kind

LEMMA KindOfText == ASSUME NEW x PROVE Kind(Text(x)) = "text" /\ Text(x).text = x
<1>1. DOMAIN Text(x) = {"text"} /\ Text(x).text = x
  BY DEF Text
<1>2. (CHOOSE k \in {"text"} : TRUE) = "text"
  OBVIOUS
<1> QED
  BY <1>1, <1>2 DEF Kind

LEMMA KindOfError ==
    ASSUME NEW category, NEW message
    PROVE  Kind(ErrorOf(category, message)) = category /\ ErrorOf(category, message)[category] = message
<1>1. DOMAIN ErrorOf(category, message) = {category} /\ ErrorOf(category, message)[category] = message
  BY DEF ErrorOf
<1>2. (CHOOSE k \in {category} : TRUE) = category
  OBVIOUS
<1> QED
  BY <1>1, <1>2 DEF Kind

LEMMA KindOfInterrupted == Kind(Interrupted) = "interrupted"
BY KindOfError DEF Interrupted

\* What an exception of the guest keeps of the value, and when there is one.
LEMMA CapturedIs ==
    ASSUME NEW value
    PROVE  /\ GuestException(value).value = value
           /\ \/ Capture(value) = Interrupted
              \/ Capture(value) = [guest |-> GuestException(value)] /\ ~value.uncatchable
<1>1. GuestException(value).value = value
  BY DEF GuestException
<1>2. Capture(value) = Interrupted \/ (Capture(value) = [guest |-> GuestException(value)] /\ ~value.uncatchable)
  BY DEF Capture
<1> QED
  BY <1>1, <1>2

\* An error all of whose properties are strings.
Textual(v, n, m, kind) ==
    /\ v.error = TRUE /\ v.uncatchable = FALSE
    /\ v.name = Text(n) /\ v.message = Text(m)
    /\ Is(v.stack, {"text"}) /\ Is(v.beyond, {"text"})
    /\ v.chain = ErrorChain(kind)

LEMMA CapturedTextual ==
    ASSUME NEW v, NEW n, NEW m, NEW kind, Textual(v, n, m, kind)
    PROVE  /\ Capture(v) = [guest |-> GuestException(v)]
           /\ GuestException(v).name = n /\ GuestException(v).message = m
           /\ GuestException(v).prototypes = {kind, "Error", "Object"}
<1>0. /\ v.error = TRUE /\ v.uncatchable = FALSE
      /\ v.name = Text(n) /\ v.message = Text(m)
      /\ Kind(v.stack) = "text" /\ Kind(v.beyond) = "text"
      /\ v.chain = ErrorChain(kind)
  BY DEF Textual, Is
<1>1. /\ TextOr(v.name, v.type) = n /\ TextOr(v.message, "") = m
  BY <1>0, KindOfText DEF TextOr, Is
<1>2. GuestException(v).name = n /\ GuestException(v).message = m
  BY <1>0, <1>1 DEF GuestException
<1> DEFINE P == {kind, "Error", "Object"}
<1>3. {r \in v.chain : Is(r, {"text"})} = v.chain
  BY <1>0, KindOfText DEF Is, ErrorChain
<1>4. {read.text : read \in v.chain} = P
  BY <1>0, KindOfText DEF ErrorChain
<1>5. GuestException(v).prototypes = P
  BY <1>3, <1>4 DEF GuestException
<1>6. Settles({v.name, v.message, v.stack} \cup v.chain \cup {v.beyond})
  <2> SUFFICES ASSUME NEW read \in {v.name, v.message, v.stack} \cup v.chain \cup {v.beyond}
               PROVE  Kind(read) = "text"
    BY DEF Settles, Is
  <2> QED
    BY <1>0, KindOfText DEF ErrorChain
<1>7. Capture(v) = [guest |-> GuestException(v)]
  BY <1>0, <1>6 DEF Capture
<1> QED
  BY <1>2, <1>5, <1>7

LEMMA CreatedIs ==
    ASSUME NEW kind, NEW message, NEW context
    PROVE  /\ Textual(Create(kind, message, context), kind, message, kind)
           /\ Create(kind, message, context).home = context
<1> DEFINE v == Create(kind, message, context)
<1>1. /\ v.error = TRUE /\ v.uncatchable = FALSE /\ v.home = context
      /\ v.name = Text(kind) /\ v.message = Text(message) /\ v.chain = ErrorChain(kind)
      /\ v.stack = Text("here") /\ v.beyond = Text("")
  BY DEF Create
<1>2. Is(v.stack, {"text"}) /\ Is(v.beyond, {"text"})
  BY <1>1, KindOfText DEF Is
<1> QED
  BY <1>1, <1>2 DEF Textual

LEMMA CreatedFields ==
    ASSUME NEW kind, NEW message, NEW context
    PROVE  DOMAIN Create(kind, message, context) =
             {"home", "made", "error", "type", "uncatchable", "name", "message", "stack", "text", "chain", "beyond"}
BY DEF Create

LEMMA CopiedIs ==
    ASSUME NEW exception, NEW context
    PROVE  /\ Copied(exception, context).home = context
           /\ Textual(Copied(exception, context), exception.name, exception.message, "Error")
<1> DEFINE c == Create("Error", exception.message, context)
           s == IF exception.stack = NoStack THEN c.stack ELSE Text(exception.stack)
           v == Copied(exception, context)
<1>1. v = [c EXCEPT !.name = Text(exception.name), !.stack = s]
  BY DEF Copied
<1>2. {"name", "stack", "home", "error", "uncatchable", "message", "beyond", "chain"} \subseteq DOMAIN c
  BY CreatedFields
<1>3. Textual(c, "Error", exception.message, "Error") /\ c.home = context
  BY CreatedIs
<1>4. Is(s, {"text"})
  <2>1. Is(c.stack, {"text"})
    BY <1>3 DEF Textual
  <2>2. Is(Text(exception.stack), {"text"})
    BY KindOfText DEF Is
  <2> HIDE DEF c
  <2> QED
    BY <2>1, <2>2
<1> HIDE DEF c, v, s
<1>5. /\ v.name = Text(exception.name) /\ v.stack = s
      /\ v.home = c.home /\ v.error = c.error /\ v.uncatchable = c.uncatchable /\ v.message = c.message
      /\ v.beyond = c.beyond /\ v.chain = c.chain
  BY <1>1, <1>2
<1>6. Textual(v, exception.name, exception.message, "Error")
  BY <1>3, <1>4, <1>5 DEF Textual
<1>7. v.home = context
  BY <1>3, <1>5
<1> QED
  BY <1>6, <1>7 DEF v

\* The value of an exception stands for it.
Standing(error) == Is(error, {"guest"}) /\ error = Capture(error.guest.value)

LEMMA GuestStands ==
    ASSUME NEW value, Capture(value) # Interrupted
    PROVE  /\ Standing(Capture(value)) /\ Capture(value) = [guest |-> GuestException(value)]
           /\ Capture(value).guest = GuestException(value) /\ Capture(value).guest.value = value
           /\ ~value.uncatchable /\ ~Is(Capture(value), {"interrupted"})
<1>1. Capture(value) = [guest |-> GuestException(value)] /\ ~value.uncatchable /\ GuestException(value).value = value
  BY CapturedIs
<1>2. Kind(Capture(value)) = "guest" /\ Capture(value).guest = GuestException(value)
  BY <1>1, KindOfGuest
<1> QED
  BY <1>1, <1>2 DEF Standing, Is

\* What is thrown in a frame of a guest, and what it is when it leaves.
LEMMA RaisedInterrupted ==
    ASSUME NEW context
    PROVE  Raise(Interrupted, context).uncatchable /\ Capture(Raise(Interrupted, context)) = Interrupted
<1> DEFINE c == Create(GuestKind(Interrupted), Interrupted[Kind(Interrupted)], context)
           v == Raise(Interrupted, context)
<1>1. v = [c EXCEPT !.uncatchable = TRUE]
  BY KindOfInterrupted DEF Raise, Is
<1>2. "uncatchable" \in DOMAIN c
  BY CreatedFields
<1> HIDE DEF c, v
<1>3. v.uncatchable = TRUE
  BY <1>1, <1>2
<1>4. Capture(v) = Interrupted
  BY <1>3 DEF Capture
<1> QED
  BY <1>3, <1>4 DEF v

LEMMA RaisedHost ==
    ASSUME NEW error, NEW context, ~Is(error, {"guest"}), ~Is(error, {"interrupted"})
    PROVE  /\ Raise(error, context).home = context
           /\ Textual(Raise(error, context), GuestKind(error), error[Kind(error)], GuestKind(error))
<1> DEFINE c == Create(GuestKind(error), error[Kind(error)], context)
           stopped == Is(error, {"interrupted"})
           v == Raise(error, context)
<1>1. v = [c EXCEPT !.uncatchable = stopped]
  BY DEF Raise
<1>2. stopped = FALSE
  OBVIOUS
<1>3. {"name", "stack", "home", "error", "uncatchable", "message", "beyond", "chain"} \subseteq DOMAIN c
  BY CreatedFields
<1>4. Textual(c, GuestKind(error), error[Kind(error)], GuestKind(error)) /\ c.home = context
  BY CreatedIs
<1> HIDE DEF c, v, stopped
<1>5. /\ v.name = c.name /\ v.stack = c.stack /\ v.home = c.home /\ v.error = c.error
      /\ v.uncatchable = stopped /\ v.message = c.message /\ v.beyond = c.beyond /\ v.chain = c.chain
  BY <1>1, <1>3
<1>6. Textual(v, GuestKind(error), error[Kind(error)], GuestKind(error))
  BY <1>2, <1>4, <1>5 DEF Textual
<1> QED
  BY <1>4, <1>5, <1>6 DEF v

LEMMA RaisedAtHome ==
    ASSUME NEW error, Standing(error), NEW context, error.guest.value.home = context
    PROVE  /\ Raise(error, context) = error.guest.value
           /\ Capture(Raise(error, context)) = error
BY DEF Raise, Restores, Standing

LEMMA RaisedAbroad ==
    ASSUME NEW error, Standing(error), NEW context, error.guest.value.home # context
    PROVE  Raise(error, context) = Copied(error.guest, context)
BY DEF Raise, Restores, Standing

\* Where errors come from.
LEMMA InterruptedIsSound == SoundError(Interrupted)
BY KindOfInterrupted DEF SoundError, Is, Categories

LEMMA CapturedIsSound == ASSUME NEW value PROVE SoundError(Capture(value)) \/ Standing(Capture(value))
BY InterruptedIsSound, GuestStands

LEMMA SoundIsNoGuest == ASSUME NEW error, SoundError(error) PROVE ~Is(error, {"guest"})
BY DEF SoundError, Is

LEMMA ThrownIsSound ==
    ASSUME NEW from \in Origins, from.from = "throw"
    PROVE  LET error == ThrowException(from.class, from.fails, from.message, from.context)
           IN  /\ SoundError(error) \/ Standing(error)
               /\ Is(error, {"guest"}) =>
                    error = Capture(Instantiate(from.class, PrototypeOf(from.class), from.message, from.context))
<1> DEFINE error == ThrowException(from.class, from.fails, from.message, from.context)
<1>1. \A failure \in from.fails : SoundError(failure)
  BY OriginsAssumption DEF SoundOrigin
<1>2. CASE from.fails # {}
  <2>1. error \in from.fails
    BY <1>2 DEF ThrowException
  <2> HIDE DEF error
  <2>2. SoundError(error) /\ ~Is(error, {"guest"})
    BY <1>1, <2>1, SoundIsNoGuest
  <2> QED
    BY <2>2 DEF error
<1>3. CASE from.fails = {}
  <2>1. error = Capture(Instantiate(from.class, PrototypeOf(from.class), from.message, from.context))
    BY <1>3 DEF ThrowException
  <2> QED
    BY <2>1, CapturedIsSound
<1> QED
  BY <1>2, <1>3

LEMMA BegunIsSound ==
    ASSUME NEW from \in Origins
    PROVE  SoundError(Begun(from)) \/ Standing(Begun(from))
<1>1. from.from \in {"host", "guest", "throw", "construct"} /\ SoundOrigin(from)
  BY OriginsAssumption DEF SoundOrigin
<1>2. CASE from.from = "host"
  <2>1. Begun(from) = from.error
    BY <1>2 DEF Begun
  <2> QED
    BY <1>1, <1>2, <2>1 DEF SoundOrigin
<1>3. CASE from.from = "guest"
  <2>1. Begun(from) = Capture(from.value)
    BY <1>3 DEF Begun
  <2> QED
    BY <2>1, CapturedIsSound
<1>4. CASE from.from = "throw"
  <2>1. Begun(from) = ThrowException(from.class, from.fails, from.message, from.context)
    BY <1>4 DEF Begun
  <2> QED
    BY <1>4, <2>1, ThrownIsSound
<1>5. CASE from.from = "construct"
  <2>1. Begun(from) = Capture(Construct(from.class, from.args, from.derived, from.context))
    BY <1>5 DEF Begun
  <2> QED
    BY <2>1, CapturedIsSound
<1> QED
  BY <1>1, <1>2, <1>3, <1>4, <1>5

LEMMA InstanceIsCaught ==
    ASSUME NEW class, NEW prototype, Text(class.name) \in prototype, NEW message, NEW context,
           Is(Capture(Instantiate(class, prototype, message, context)), {"guest"})
    PROVE  Caught(class, Capture(Instantiate(class, prototype, message, context)))
<1> DEFINE c == Create(class.base, message, context)
           v == Instantiate(class, prototype, message, context)
<1>1. v = [c EXCEPT !.name = Text(class.name), !.chain = prototype]
  BY DEF Instantiate
<1>2. "chain" \in DOMAIN c
  BY CreatedFields
<1> HIDE DEF c
<1>3. v.chain = prototype
  BY <1>1, <1>2
<1> HIDE DEF v
<1>4. Is(Text(class.name), {"text"}) /\ Text(class.name).text = class.name
  BY KindOfText DEF Is
<1>5. Text(class.name) \in {r \in v.chain : Is(r, {"text"})}
  BY <1>3, <1>4
<1>6. class.name \in {read.text : read \in {r \in v.chain : Is(r, {"text"})}}
  BY <1>4, <1>5
<1>7. class.name \in GuestException(v).prototypes
  BY <1>6 DEF GuestException
<1>8. Is(Capture(v), {"guest"})
  BY DEF v
<1>9. Capture(v) # Interrupted
  BY <1>8, KindOfInterrupted DEF Is
<1>10. Capture(v).guest = GuestException(v)
  BY <1>9, GuestStands
<1>11. Caught(class, Capture(v))
  BY <1>7, <1>8, <1>10 DEF Caught, Matches
<1> QED
  BY <1>11 DEF v

\* An exception that the host declares is of its class, whoever throws it.
LEMMA DeclaredIsCaught ==
    ASSUME NEW from \in Origins, from.from \in {"throw", "construct"}, Is(Begun(from), {"guest"})
    PROVE  Caught(from.class, Begun(from)) \/ Begun(from).guest.name = "TypeError"
<1>1. CASE from.from = "throw"
  <2> DEFINE error == ThrowException(from.class, from.fails, from.message, from.context)
  <2>1. Begun(from) = error
    BY <1>1 DEF Begun
  <2>2. Begun(from) = Capture(Instantiate(from.class, PrototypeOf(from.class), from.message, from.context))
    BY <1>1, <2>1, ThrownIsSound
  <2>3. Text(from.class.name) \in PrototypeOf(from.class)
    BY DEF PrototypeOf
  <2> QED
    BY <2>2, <2>3, InstanceIsCaught
<1>2. CASE from.from = "construct"
  <2> DEFINE read == ReadMessage(from.args)
             prototype == ForTarget(from.class, from.derived)
             made == Construct(from.class, from.args, from.derived, from.context)
             refused == ErrorOf("conversion", "expected string, undefined or null")
  <2>1. Begun(from) = Capture(made)
    BY <1>2 DEF Begun
  <2>2. made = IF Succeeds(read) THEN Instantiate(from.class, prototype, read.ok.string, from.context)
               ELSE Raise(refused, from.context)
    BY DEF Construct
  <2>3. Text(from.class.name) \in prototype
    BY DEF PrototypeOf, ForTarget
  <2>4. Kind(refused) = "conversion"
    BY KindOfError
  <2>5. GuestKind(refused) = "TypeError" /\ ~Is(refused, {"guest"}) /\ ~Is(refused, {"interrupted"})
    BY <2>4 DEF GuestKind, Is
  <2> HIDE DEF read, prototype, made, refused
  <2>6. CASE Succeeds(read)
    <3>1. Begun(from) = Capture(Instantiate(from.class, prototype, read.ok.string, from.context))
      BY <2>1, <2>2, <2>6
    <3> QED
      BY <2>3, <3>1, InstanceIsCaught
  <2>7. CASE ~Succeeds(read)
    <3>1. made = Raise(refused, from.context)
      BY <2>2, <2>7
    <3>2. Textual(made, "TypeError", refused[Kind(refused)], "TypeError")
      BY <2>5, <3>1, RaisedHost
    <3>3. Capture(made) = [guest |-> GuestException(made)] /\ GuestException(made).name = "TypeError"
      BY <3>2, CapturedTextual
    <3>4. Begun(from).guest = GuestException(made)
      BY <2>1, <3>3, KindOfGuest
    <3> QED
      BY <3>3, <3>4
  <2> QED
    BY <2>6, <2>7
<1> QED
  BY <1>1, <1>2

\* What an error is in the frames of guests it went into, in their order.
Stay(frames, context) == \A i \in DOMAIN frames : frames[i].context = context

Keeps(begun, frames, error) ==
    /\ error.guest.name = begun.guest.name /\ error.guest.message = begun.guest.message
    /\ Stay(frames, begun.guest.value.home) => error = begun
    /\ ~Stay(frames, begun.guest.value.home) => error.guest.prototypes = {"Error", "Object"}

Classed(begun, frames, error) ==
    /\ error.guest.name = GuestKind(begun) /\ error.guest.message = begun[Kind(begun)]
    /\ Stay(frames, frames[1].context) => error.guest.prototypes = {GuestKind(begun), "Error", "Object"}
    /\ ~Stay(frames, frames[1].context) => error.guest.prototypes = {"Error", "Object"}

ThrownIn(begun, frames, error) ==
    /\ Standing(error) /\ error.guest.value.home = frames[Len(frames)].context
    /\ Is(begun, {"guest"}) => Keeps(begun, frames, error)
    /\ ~Is(begun, {"guest"}) => Classed(begun, frames, error)

Arrives(begun, frames, error) ==
    /\ Is(begun, {"interrupted"}) => error = begun
    /\ frames = <<>> => error = begun
    /\ ~Is(begun, {"interrupted"}) /\ frames # <<>> => ThrownIn(begun, frames, error)

LEMMA FrameMore ==
    ASSUME NEW frames \in Seq(Frames), NEW frame \in Frames
    PROVE  LET more == Append(frames, frame)
           IN  /\ more \in Seq(Frames) /\ more # <<>>
               /\ Len(more) = Len(frames) + 1 /\ Len(frames) \in Nat /\ more[Len(more)] = frame
               /\ more[1] = IF frames = <<>> THEN frame ELSE frames[1]
               /\ DOMAIN more = DOMAIN frames \cup {Len(frames) + 1} /\ Len(frames) + 1 \notin DOMAIN frames
               /\ \A i \in DOMAIN frames : more[i] = frames[i]
               /\ \A context : Stay(more, context) <=> (Stay(frames, context) /\ frame.context = context)
<1> DEFINE n == Len(frames)
           more == Append(frames, frame)
<1>1. n \in Nat /\ DOMAIN frames = 1..n /\ (n = 0 <=> frames = <<>>)
  BY LenProperties, EmptySeq
<1>2. more \in Seq(Frames) /\ Len(more) = n + 1 /\ (\A i \in 1..n : more[i] = frames[i]) /\ more[n + 1] = frame
  BY AppendProperties
<1>3. DOMAIN more = 1..(n + 1)
  BY <1>2, LenProperties
<1> HIDE DEF n, more
<1>4. /\ DOMAIN more = DOMAIN frames \cup {n + 1} /\ n + 1 \notin DOMAIN frames
      /\ \A i \in DOMAIN frames : more[i] = frames[i]
  BY <1>1, <1>2, <1>3
<1>5. more # <<>>
  <2>1. n + 1 \in DOMAIN more /\ DOMAIN <<>> = {}
    BY <1>4
  <2> QED
    BY <2>1
<1>6. more[1] = IF frames = <<>> THEN frame ELSE frames[1]
  <2>1. CASE n = 0
    BY <1>1, <1>2, <2>1
  <2>2. CASE n # 0
    BY <1>1, <1>2, <2>2
  <2> QED
    BY <2>1, <2>2
<1>7. ASSUME NEW context PROVE Stay(more, context) <=> (Stay(frames, context) /\ frame.context = context)
  BY <1>2, <1>4 DEF Stay
<1> QED
  BY <1>1, <1>2, <1>4, <1>5, <1>6, <1>7 DEF n, more

LEMMA LastOfSome ==
    ASSUME NEW frames \in Seq(Frames), frames # <<>>
    PROVE  Len(frames) \in DOMAIN frames /\ 1 \in DOMAIN frames
<1>1. Len(frames) \in Nat /\ DOMAIN frames = 1..Len(frames) /\ (Len(frames) = 0 <=> frames = <<>>)
  BY LenProperties, EmptySeq
<1> QED
  BY <1>1

\* An exception in one frame more: itself at home, a copy elsewhere.
LEMMA StandingRaised ==
    ASSUME NEW error, Standing(error), NEW context
    PROVE  LET v == Raise(error, context)
               w == Capture(v)
           IN  /\ ~v.uncatchable /\ Standing(w) /\ w.guest.value.home = context
               /\ w.guest.name = error.guest.name /\ w.guest.message = error.guest.message
               /\ error.guest.value.home = context => w = error
               /\ error.guest.value.home # context => w.guest.prototypes = {"Error", "Object"}
<1> DEFINE v == Raise(error, context)
           w == Capture(v)
<1>1. CASE error.guest.value.home = context
  <2>1. v = error.guest.value /\ w = error
    BY <1>1, RaisedAtHome
  <2>2. Capture(error.guest.value) # Interrupted
    BY KindOfInterrupted DEF Standing, Is
  <2>3. ~v.uncatchable
    BY <2>1, <2>2, GuestStands
  <2> QED
    BY <1>1, <2>1, <2>3
<1>2. CASE error.guest.value.home # context
  <2>1. v = Copied(error.guest, context)
    BY <1>2, RaisedAbroad
  <2>2. v.home = context /\ Textual(v, error.guest.name, error.guest.message, "Error")
    BY <2>1, CopiedIs
  <2> HIDE DEF v
  <2>3. /\ w = [guest |-> GuestException(v)]
        /\ GuestException(v).name = error.guest.name /\ GuestException(v).message = error.guest.message
        /\ GuestException(v).prototypes = {"Error", "Error", "Object"}
    BY <2>2, CapturedTextual
  <2>4. w.guest = GuestException(v) /\ Kind(w) = "guest"
    BY <2>3, KindOfGuest
  <2>5. Standing(w) /\ w.guest.value = v /\ ~v.uncatchable
    BY <2>4, KindOfInterrupted, GuestStands
  <2>6. w.guest.prototypes = {"Error", "Object"}
    BY <2>3, <2>4
  <2>7. w.guest.value.home = context
    BY <2>2, <2>5
  <2> HIDE DEF w
  <2> QED
    BY <1>2, <2>3, <2>4, <2>5, <2>6, <2>7 DEF v, w
<1> QED
  BY <1>1, <1>2

LEMMA HostRaised ==
    ASSUME NEW error, NEW context, ~Is(error, {"guest"}), ~Is(error, {"interrupted"})
    PROVE  LET v == Raise(error, context)
               w == Capture(v)
           IN  /\ ~v.uncatchable /\ Standing(w) /\ w.guest.value.home = context
               /\ w.guest.name = GuestKind(error) /\ w.guest.message = error[Kind(error)]
               /\ w.guest.prototypes = {GuestKind(error), "Error", "Object"}
<1> DEFINE v == Raise(error, context)
           w == Capture(v)
           message == error[Kind(error)]
<1>1. v.home = context /\ Textual(v, GuestKind(error), message, GuestKind(error))
  BY RaisedHost
<1> HIDE DEF v, message
<1>2. /\ w = [guest |-> GuestException(v)]
      /\ GuestException(v).name = GuestKind(error) /\ GuestException(v).message = message
      /\ GuestException(v).prototypes = {GuestKind(error), "Error", "Object"}
  BY <1>1, CapturedTextual
<1>3. w.guest = GuestException(v) /\ Kind(w) = "guest"
  BY <1>2, KindOfGuest
<1>4. Standing(w) /\ w.guest.value = v /\ ~v.uncatchable
  BY <1>3, KindOfInterrupted, GuestStands
<1>5. w.guest.value.home = context
  BY <1>1, <1>4
<1> HIDE DEF w
<1> QED
  BY <1>2, <1>3, <1>4, <1>5 DEF v, w, message

\* One frame more.
LEMMA ArrivesFurther ==
    ASSUME NEW begun, SoundError(begun) \/ Standing(begun), NEW frames \in Seq(Frames), NEW frame \in Frames,
           NEW error, Arrives(begun, frames, error)
    PROVE  /\ Arrives(begun, Append(frames, frame), Capture(Raise(error, frame.context)))
           /\ Is(begun, {"interrupted"}) => Raise(error, frame.context).uncatchable
           /\ ~Is(begun, {"interrupted"}) => ~Raise(error, frame.context).uncatchable
<1> DEFINE context == frame.context
           more == Append(frames, frame)
           v == Raise(error, context)
           w == Capture(v)
<1>1. /\ more # <<>> /\ more[Len(more)] = frame
      /\ more[1] = IF frames = <<>> THEN frame ELSE frames[1]
      /\ \A at : Stay(more, at) <=> (Stay(frames, at) /\ context = at)
  BY FrameMore
<1>2. CASE Is(begun, {"interrupted"})
  <2>1. begun = Interrupted
    BY <1>2 DEF SoundError, Standing, Is
  <2>2. error = Interrupted
    BY <1>2, <2>1 DEF Arrives
  <2>3. v.uncatchable /\ w = Interrupted
    BY <2>2, RaisedInterrupted
  <2> HIDE DEF v, w, more
  <2>4. Arrives(begun, more, w)
    BY <1>1, <1>2, <2>1, <2>3 DEF Arrives
  <2> QED
    BY <1>2, <2>3, <2>4 DEF v, w, more
<1>3. CASE ~Is(begun, {"interrupted"})
  <2> SUFFICES ThrownIn(begun, more, w) /\ ~v.uncatchable
    BY <1>1, <1>3 DEF Arrives
  <2>1. CASE frames = <<>>
    <3>1. error = begun /\ more[1] = frame /\ (\A at : Stay(more, at) <=> context = at)
      <4>1. error = begun
        BY <2>1 DEF Arrives
      <4>2. \A at : Stay(frames, at)
        BY <2>1 DEF Stay
      <4> HIDE DEF more
      <4> QED
        BY <1>1, <2>1, <4>1, <4>2
    <3>2. CASE Is(begun, {"guest"})
      <4>1. Standing(begun)
        BY <3>2, SoundIsNoGuest
      <4>2. /\ ~v.uncatchable /\ Standing(w) /\ w.guest.value.home = context
            /\ w.guest.name = begun.guest.name /\ w.guest.message = begun.guest.message
            /\ begun.guest.value.home = context => w = begun
            /\ begun.guest.value.home # context => w.guest.prototypes = {"Error", "Object"}
        BY <3>1, <4>1, StandingRaised
      <4> HIDE DEF v, w, more
      <4>3. Keeps(begun, more, w)
        BY <3>1, <4>2 DEF Keeps
      <4> QED
        BY <1>1, <3>2, <4>2, <4>3 DEF ThrownIn
    <3>3. CASE ~Is(begun, {"guest"})
      <4>1. /\ ~v.uncatchable /\ Standing(w) /\ w.guest.value.home = context
            /\ w.guest.name = GuestKind(begun) /\ w.guest.message = begun[Kind(begun)]
            /\ w.guest.prototypes = {GuestKind(begun), "Error", "Object"}
        BY <1>3, <3>1, <3>3, HostRaised
      <4> HIDE DEF v, w, more
      <4>2. Classed(begun, more, w)
        BY <3>1, <4>1 DEF Classed
      <4> QED
        BY <1>1, <3>3, <4>1, <4>2 DEF ThrownIn
    <3> QED
      BY <3>2, <3>3
  <2>2. CASE frames # <<>>
    <3>1. ThrownIn(begun, frames, error)
      BY <1>3, <2>2 DEF Arrives
    <3>2. Standing(error) /\ error.guest.value.home = frames[Len(frames)].context
      BY <3>1 DEF ThrownIn
    <3>3. /\ ~v.uncatchable /\ Standing(w) /\ w.guest.value.home = context
          /\ w.guest.name = error.guest.name /\ w.guest.message = error.guest.message
          /\ error.guest.value.home = context => w = error
          /\ error.guest.value.home # context => w.guest.prototypes = {"Error", "Object"}
      BY <3>2, StandingRaised
    <3>4. \A at : Stay(frames, at) => at = error.guest.value.home
      BY <2>2, <3>2, LastOfSome DEF Stay
    <3> HIDE DEF v, w, more
    <3>5. CASE Is(begun, {"guest"})
      <4>1. Keeps(begun, frames, error)
        BY <3>1, <3>5 DEF ThrownIn
      <4> DEFINE home == begun.guest.value.home
      <4>2. Stay(more, home) <=> (Stay(frames, home) /\ context = home)
        BY <1>1
      <4>3. CASE Stay(frames, home) /\ context = home
        <5>1. error = begun /\ error.guest.value.home = context
          BY <3>4, <4>1, <4>3 DEF Keeps
        <5> QED
          BY <1>1, <3>3, <3>5, <4>2, <4>3, <5>1 DEF Keeps, ThrownIn
      <4>4. CASE ~(Stay(frames, home) /\ context = home)
        <5>1. w.guest.prototypes = {"Error", "Object"}
          <6>1. CASE error.guest.value.home # context
            BY <3>3, <6>1
          <6>2. CASE error.guest.value.home = context
            <7>1. ~Stay(frames, home)
              BY <3>4, <4>4, <6>2
            <7>2. error.guest.prototypes = {"Error", "Object"}
              BY <4>1, <7>1 DEF Keeps
            <7> QED
              BY <3>3, <6>2, <7>2
          <6> QED
            BY <6>1, <6>2
        <5>2. w.guest.name = begun.guest.name /\ w.guest.message = begun.guest.message
          BY <3>3, <4>1 DEF Keeps
        <5>3. Keeps(begun, more, w)
          BY <4>2, <4>4, <5>1, <5>2 DEF Keeps
        <5> QED
          BY <1>1, <3>3, <3>5, <5>3 DEF ThrownIn
      <4> QED
        BY <4>3, <4>4
    <3>6. CASE ~Is(begun, {"guest"})
      <4>1. Classed(begun, frames, error)
        BY <3>1, <3>6 DEF ThrownIn
      <4> DEFINE home == frames[1].context
      <4>2. more[1].context = home /\ (Stay(more, home) <=> (Stay(frames, home) /\ context = home))
        BY <1>1, <2>2
      <4>3. w.guest.name = GuestKind(begun) /\ w.guest.message = begun[Kind(begun)]
        BY <3>3, <4>1 DEF Classed
      <4>4. CASE Stay(frames, home) /\ context = home
        <5>1. error.guest.value.home = context /\ error.guest.prototypes = {GuestKind(begun), "Error", "Object"}
          BY <3>4, <4>1, <4>4 DEF Classed
        <5>2. w.guest.prototypes = {GuestKind(begun), "Error", "Object"}
          BY <3>3, <5>1
        <5>3. Classed(begun, more, w)
          BY <4>2, <4>3, <4>4, <5>2 DEF Classed
        <5> QED
          BY <1>1, <3>3, <3>6, <5>3 DEF ThrownIn
      <4>5. CASE ~(Stay(frames, home) /\ context = home)
        <5>1. w.guest.prototypes = {"Error", "Object"}
          <6>1. CASE error.guest.value.home # context
            BY <3>3, <6>1
          <6>2. CASE error.guest.value.home = context
            <7>1. ~Stay(frames, home)
              BY <3>4, <4>5, <6>2
            <7>2. error.guest.prototypes = {"Error", "Object"}
              BY <4>1, <7>1 DEF Classed
            <7> QED
              BY <3>3, <6>2, <7>2
          <6> QED
            BY <6>1, <6>2
        <5>2. Classed(begun, more, w)
          BY <4>2, <4>3, <4>5, <5>1 DEF Classed
        <5> QED
          BY <1>1, <3>3, <3>6, <5>2 DEF ThrownIn
      <4> QED
        BY <4>4, <4>5
    <3> QED
      BY <3>5, <3>6
  <2> QED
    BY <2>1, <2>2
<1> QED
  BY <1>2, <1>3

\* Only the last of the frames can have caught it.
ExceptionInv ==
    /\ origin \in Origins /\ passed \in Seq(Frames)
    /\ journey = [error |-> journey.error, caught |-> journey.caught, value |-> journey.value]
    /\ journey.caught \in BOOLEAN
    /\ Stopped => ~journey.caught
    /\ ~Stopped =>
         {i \in DOMAIN passed : passed[i].catches} = IF journey.caught THEN {Len(passed)} ELSE {}
    /\ Arrives(Begun(origin), passed, Arrived)

LEMMA ExceptionBegins == ExceptionInit => ExceptionInv
<1> SUFFICES ASSUME ExceptionInit PROVE ExceptionInv
  OBVIOUS
<1>1. origin \in Origins /\ passed = <<>> /\ journey = [error |-> Begun(origin), caught |-> FALSE, value |-> <<>>]
  BY DEF ExceptionInit, Journey
<1>2. journey.caught = FALSE /\ journey.error = Begun(origin) /\ journey.value = <<>>
  BY <1>1
<1>3. passed \in Seq(Frames) /\ {i \in DOMAIN passed : passed[i].catches} = {}
  BY <1>1
<1>4. Arrives(Begun(origin), passed, Arrived)
  BY <1>1, <1>2 DEF Arrives, Arrived
<1>5. journey = [error |-> journey.error, caught |-> journey.caught, value |-> journey.value]
  BY <1>1, <1>2
<1> QED
  BY <1>1, <1>2, <1>3, <1>4, <1>5 DEF ExceptionInv

LEMMA ExceptionStep == ExceptionInv /\ [ExceptionNext]_exceptionVars => ExceptionInv'
<1> SUFFICES ASSUME ExceptionInv, [ExceptionNext]_exceptionVars PROVE ExceptionInv'
  OBVIOUS
<1>1. CASE UNCHANGED exceptionVars
  <2>1. origin' = origin /\ passed' = passed /\ journey' = journey
    BY <1>1 DEF exceptionVars
  <2> QED
    BY <2>1 DEF ExceptionInv, Stopped, Arrived
<1>2. ASSUME NEW frame \in Frames, Catch(frame) \/ Leave(frame) PROVE ExceptionInv'
  <2> DEFINE v == RaisedIn(frame)
             w == Capture(v)
             begun == Begun(origin)
             stopped == Is(begun, {"interrupted"})
             n == Len(passed)
             catching == {i \in DOMAIN passed : passed[i].catches}
  <2>1. /\ origin \in Origins /\ passed \in Seq(Frames)
        /\ journey = [error |-> journey.error, caught |-> journey.caught, value |-> journey.value]
        /\ ~stopped => catching = IF journey.caught THEN {n} ELSE {}
        /\ Arrives(begun, passed, Arrived)
    BY DEF ExceptionInv, Stopped
  <2>2. ~journey.caught /\ passed' = Append(passed, frame) /\ origin' = origin
    BY <1>2 DEF Catch, Leave, Enters
  <2>3. Arrived = journey.error /\ v = Raise(journey.error, frame.context)
    BY <2>2 DEF Arrived, RaisedIn
  <2>4. SoundError(begun) \/ Standing(begun)
    BY <2>1, BegunIsSound
  <2> HIDE DEF begun, w
  <2>5. /\ Arrives(begun, passed', Capture(v))
        /\ stopped => v.uncatchable
        /\ ~stopped => ~v.uncatchable
    BY <2>1, <2>2, <2>3, <2>4, ArrivesFurther
  <2>6. /\ passed' \in Seq(Frames) /\ Len(passed') = n + 1
        /\ DOMAIN passed' = DOMAIN passed \cup {n + 1} /\ n + 1 \notin DOMAIN passed
        /\ passed'[n + 1] = frame /\ \A i \in DOMAIN passed : passed'[i] = passed[i]
    BY <2>1, <2>2, FrameMore
  <2> HIDE DEF v, n
  <2>7. ~stopped => {i \in DOMAIN passed' : passed'[i].catches} = IF frame.catches THEN {n + 1} ELSE {}
    BY <2>1, <2>2, <2>6
  <2>8. begun' = begun /\ stopped' = stopped
    BY <2>2 DEF begun
  <2> HIDE DEF stopped
  <2>9. CASE Catch(frame)
    <3>1. frame.catches /\ ~v.uncatchable /\ journey' = [journey EXCEPT !.caught = TRUE, !.value = <<v>>]
      BY <2>9 DEF Catch, CaughtIn, v
    <3>2. journey' = [error |-> journey.error, caught |-> TRUE, value |-> <<v>>]
      BY <2>1, <3>1
    <3>3. journey'.caught = TRUE /\ journey'.value = <<v>> /\ journey'.error = journey.error
      BY <3>2
    <3>4. Arrived' = Capture(v)
      <4>1. journey'.value[1] = v
        BY <3>3
      <4> QED
        BY <3>3, <4>1 DEF Arrived
    <3>5. ~stopped
      BY <2>5, <3>1
    <3>6. {i \in DOMAIN passed' : passed'[i].catches} = {Len(passed')}
      BY <2>6, <2>7, <3>1, <3>5
    <3>7. Arrives(begun', passed', Arrived')
      BY <2>5, <2>8, <3>4
    <3>8. journey' = [error |-> journey'.error, caught |-> journey'.caught, value |-> journey'.value]
      BY <3>2, <3>3
    <3>9. ~Stopped'
      BY <2>8, <3>5 DEF Stopped, stopped, begun
    <3> QED
      BY <2>1, <2>2, <2>6, <3>3, <3>6, <3>7, <3>8, <3>9 DEF ExceptionInv, begun
  <2>10. CASE Leave(frame)
    <3>1. ~(frame.catches /\ ~v.uncatchable) /\ journey' = [journey EXCEPT !.error = w]
      BY <2>10 DEF Leave, CaughtIn, v, w
    <3>2. journey' = [error |-> w, caught |-> journey.caught, value |-> journey.value]
      BY <2>1, <3>1
    <3>3. journey'.caught = journey.caught /\ journey'.value = journey.value /\ journey'.error = w
      BY <3>2
    <3>4. journey'.caught = FALSE
      BY <2>2, <3>3 DEF ExceptionInv
    <3>5. Arrived' = Capture(v)
      BY <3>3, <3>4 DEF Arrived, w
    <3>6. ~stopped => {i \in DOMAIN passed' : passed'[i].catches} = {}
      BY <2>5, <2>7, <3>1
    <3>7. Arrives(begun', passed', Arrived')
      BY <2>5, <2>8, <3>5
    <3>8. journey' = [error |-> journey'.error, caught |-> journey'.caught, value |-> journey'.value]
      BY <3>2, <3>3
    <3>9. Stopped' <=> stopped
      BY <2>8 DEF Stopped, stopped, begun
    <3> QED
      BY <2>1, <2>2, <2>6, <3>4, <3>6, <3>7, <3>8, <3>9 DEF ExceptionInv, begun
  <2> QED
    BY <1>2, <2>9, <2>10
<1> QED
  BY <1>1, <1>2 DEF ExceptionNext

LEMMA ArrivedWhole == ASSUME ExceptionInv PROVE ErrorsArriveWhole
<1> DEFINE begun == Begun(origin)
           catching == {i \in DOMAIN passed : passed[i].catches}
<1>1. /\ origin \in Origins /\ passed \in Seq(Frames) /\ journey.caught \in BOOLEAN
      /\ Stopped => ~journey.caught
      /\ ~Stopped => catching = IF journey.caught THEN {Len(passed)} ELSE {}
      /\ Arrives(begun, passed, Arrived)
      /\ Stopped <=> Is(begun, {"interrupted"})
  BY DEF ExceptionInv, Stopped
<1>2. Stopped \/ passed = <<>> => Arrived = begun
  BY <1>1 DEF Arrives
<1>3. ASSUME ~Stopped, passed # <<>>
      PROVE  /\ Is(Arrived, {"guest"}) /\ Arrived.guest.value.home = Last(passed).context
             /\ IF Is(begun, {"guest"}) THEN KeepsWhatItSays(begun, Arrived.guest) ELSE HasItsClass(begun, Arrived.guest)
  <2>1. ThrownIn(begun, passed, Arrived)
    BY <1>1, <1>3 DEF Arrives
  <2>2. Is(Arrived, {"guest"}) /\ Arrived.guest.value.home = Last(passed).context
    BY <2>1 DEF ThrownIn, Standing, Last
  <2>3. \A context : StaysIn(context) <=> Stay(passed, context)
    BY DEF StaysIn, Stay
  <2> HIDE DEF begun
  <2>4. CASE Is(begun, {"guest"})
    <3>1. Keeps(begun, passed, Arrived)
      BY <2>1, <2>4 DEF ThrownIn
    <3>2. KeepsWhatItSays(begun, Arrived.guest)
      BY <2>3, <3>1 DEF Keeps, KeepsWhatItSays
    <3> QED
      BY <2>2, <2>4, <3>2
  <2>5. CASE ~Is(begun, {"guest"})
    <3>1. Classed(begun, passed, Arrived)
      BY <2>1, <2>5 DEF ThrownIn
    <3>2. HasItsClass(begun, Arrived.guest)
      BY <2>3, <3>1 DEF Classed, HasItsClass
    <3> QED
      BY <2>2, <2>5, <3>2
  <2> QED
    BY <2>4, <2>5
<1>4. origin.from \in {"throw", "construct"} /\ Is(begun, {"guest"}) =>
        Caught(origin.class, begun) \/ begun.guest.name = "TypeError"
  BY <1>1, DeclaredIsCaught
<1>5. IF Stopped THEN ~journey.caught ELSE catching = IF journey.caught THEN {Len(passed)} ELSE {}
  BY <1>1
<1> HIDE DEF begun, catching
<1>6. /\ IF Stopped THEN ~journey.caught ELSE catching = IF journey.caught THEN {Len(passed)} ELSE {}
      /\ Stopped \/ passed = <<>> => Arrived = begun
      /\ ~Stopped /\ passed # <<>> =>
           /\ Is(Arrived, {"guest"}) /\ Arrived.guest.value.home = Last(passed).context
           /\ IF Is(begun, {"guest"}) THEN KeepsWhatItSays(begun, Arrived.guest) ELSE HasItsClass(begun, Arrived.guest)
      /\ origin.from \in {"throw", "construct"} /\ Is(begun, {"guest"}) =>
           Caught(origin.class, begun) \/ begun.guest.name = "TypeError"
  BY <1>2, <1>3, <1>4, <1>5
<1> QED
  BY <1>6 DEF ErrorsArriveWhole, begun, catching

\* An error leaves frames of guests, however many, for frames of the host: it is caught by
\* the first that would and can catch it, it is the value that was thrown as long as it
\* stays in one guest, and keeps its name and its message in every other (Raise for Error,
\* Thrown::exception, Owned::restore).
THEOREM ErrorsAlwaysArriveWhole == ExceptionSpec => []ErrorsArriveWhole
<1>1. ExceptionInv => ErrorsArriveWhole
  BY ArrivedWhole
<1> QED
  BY ExceptionBegins, ExceptionStep, <1>1, PTL DEF ExceptionSpec
==============================================================================
