----------------------------- MODULE SeqFacts -----------------------------
(***************************************************************************)
(* Facts about sequences whose elements have no type of their own: the     *)
(* digests of a hash chain nest without bound, so the file of AuditLog is  *)
(* a sequence over no set that can be written down beforehand.  And facts  *)
(* about counting the positions of a sequence that hold what one looks for,*)
(* about sequences that are built of others and what they are read from,   *)
(* and about the least of a set of numbers, from which induction follows.  *)
(***************************************************************************)
EXTENDS Integers, FiniteSets, SequencesExt, FiniteSetTheorems,
        WellFoundedInduction, TLAPS

\* s is a sequence of whatever it holds.
IsSeq(s) == \E S : s \in Seq(S)

\* The empty sequence is one.
LEMMA EmptyIsSeq == IsSeq(<<>>)
<1>1. <<>> \in Seq({}) OBVIOUS
<1>2. QED BY <1>1 DEF IsSeq

\* The length of a sequence is a natural number.
LEMMA LenIsNat == ASSUME NEW s, IsSeq(s) PROVE Len(s) \in Nat
<1>1. PICK S : s \in Seq(S) BY DEF IsSeq
<1>2. QED BY <1>1

\* What Append returns.
LEMMA AppendFacts ==
    ASSUME NEW s, IsSeq(s), NEW e
    PROVE  /\ IsSeq(Append(s, e))
           /\ Len(Append(s, e)) = Len(s) + 1
           /\ \A i \in 1..Len(s) : Append(s, e)[i] = s[i]
           /\ Append(s, e)[Len(s) + 1] = e
<1>1. PICK S : s \in Seq(S) BY DEF IsSeq
<1>2. PICK T : T = S \cup {e} OBVIOUS
<1>3. s \in Seq(T) /\ e \in T BY <1>1, <1>2
<1>4. Append(s, e) \in Seq(T) BY <1>3
<1>5. QED BY <1>3, <1>4 DEF IsSeq

\* What \o returns.
LEMMA ConcatFacts ==
    ASSUME NEW s, IsSeq(s), NEW t, IsSeq(t)
    PROVE  /\ IsSeq(s \o t)
           /\ Len(s \o t) = Len(s) + Len(t)
           /\ \A i \in 1..Len(s) : (s \o t)[i] = s[i]
           /\ t = <<>> => s \o t = s
<1>1. PICK S : s \in Seq(S) BY DEF IsSeq
<1>2. PICK U : t \in Seq(U) BY DEF IsSeq
<1>3. PICK T : T = S \cup U OBVIOUS
<1>4. s \in Seq(T) /\ t \in Seq(T) BY <1>1, <1>2, <1>3
<1>5. s \o t \in Seq(T) BY <1>4
<1>6. t = <<>> => s \o t = s BY <1>4
<1>7. QED BY <1>4, <1>5, <1>6 DEF IsSeq

\* What a prefix of a sequence is.
LEMMA PrefixFacts ==
    ASSUME NEW s, IsSeq(s), NEW k \in 0..Len(s)
    PROVE  /\ IsSeq(SubSeq(s, 1, k))
           /\ Len(SubSeq(s, 1, k)) = k
           /\ \A i \in 1..k : SubSeq(s, 1, k)[i] = s[i]
<1>1. PICK S : s \in Seq(S) BY DEF IsSeq
<1>2. SubSeq(s, 1, k) \in Seq(S) BY <1>1
<1>3. QED BY <1>1, <1>2 DEF IsSeq

\* Append on a sequence over a set.
LEMMA AppendTyped ==
    ASSUME NEW S, NEW s \in Seq(S), NEW e \in S
    PROVE  /\ Append(s, e) \in Seq(S)
           /\ Len(Append(s, e)) = Len(s) + 1
           /\ \A i \in 1..Len(s) : Append(s, e)[i] = s[i]
           /\ Append(s, e)[Len(s) + 1] = e
OBVIOUS

\* \o on sequences over a set.
LEMMA ConcatTyped ==
    ASSUME NEW S, NEW s \in Seq(S), NEW t \in Seq(S)
    PROVE  /\ s \o t \in Seq(S)
           /\ Len(s \o t) = Len(s) + Len(t)
           /\ \A i \in 1..Len(s) : (s \o t)[i] = s[i]
           /\ \A i \in 1..Len(t) : (s \o t)[Len(s) + i] = t[i]
OBVIOUS

\* Two sequences with the same elements are the same.
LEMMA SameSeq ==
    ASSUME NEW S, NEW s \in Seq(S), NEW t \in Seq(S), Len(s) = Len(t),
           \A i \in 1..Len(s) : s[i] = t[i]
    PROVE  s = t
OBVIOUS

-----------------------------------------------------------------------------
\* How many of the first n positions are in S.
CountUpTo(S, n) == Cardinality(S \cap (1..n))

\* It is a number between 0 and n, and 0 to begin with.
LEMMA CountIsNat ==
    ASSUME NEW S, NEW n \in Nat
    PROVE  /\ IsFiniteSet(S \cap (1..n))
           /\ CountUpTo(S, n) \in Nat
           /\ CountUpTo(S, n) <= n
           /\ n = 0 => CountUpTo(S, n) = 0
<1>1. IsFiniteSet(1..n) /\ Cardinality(1..n) = n
  BY FS_Interval
<1>2. S \cap (1..n) \in SUBSET (1..n)
  OBVIOUS
<1>3. /\ IsFiniteSet(S \cap (1..n))
      /\ Cardinality(S \cap (1..n)) <= n
  BY <1>1, <1>2, FS_Subset
<1>4. Cardinality(S \cap (1..n)) \in Nat
  BY <1>3, FS_CardinalityType
<1>5. QED
  BY <1>3, <1>4 DEF CountUpTo

\* Only what is in S up to n counts.
LEMMA CountSame ==
    ASSUME NEW S, NEW T, NEW n \in Nat, \A j \in 1..n : j \in S <=> j \in T
    PROVE  CountUpTo(S, n) = CountUpTo(T, n)
<1>1. S \cap (1..n) = T \cap (1..n)
  OBVIOUS
<1>2. QED
  BY <1>1 DEF CountUpTo

\* Later positions take nothing away.
LEMMA CountGrows ==
    ASSUME NEW S, NEW n \in Nat, NEW m \in 0..n
    PROVE  CountUpTo(S, m) <= CountUpTo(S, n)
<1>1. IsFiniteSet(S \cap (1..n))
  BY CountIsNat
<1>2. S \cap (1..m) \in SUBSET (S \cap (1..n))
  OBVIOUS
<1>3. QED
  BY <1>1, <1>2, FS_Subset DEF CountUpTo

\* The next position adds one or nothing.
LEMMA CountNext ==
    ASSUME NEW S, NEW n \in Nat
    PROVE  CountUpTo(S, n + 1) =
               CountUpTo(S, n) + (IF n + 1 \in S THEN 1 ELSE 0)
<1>1. IsFiniteSet(S \cap (1..n)) /\ CountUpTo(S, n) \in Nat
  BY CountIsNat
<1>2. n + 1 \notin S \cap (1..n)
  OBVIOUS
<1>3. CASE n + 1 \in S
  <2>1. S \cap (1..(n + 1)) = (S \cap (1..n)) \cup {n + 1}
    BY <1>3
  <2>2. Cardinality((S \cap (1..n)) \cup {n + 1}) = Cardinality(S \cap (1..n)) + 1
    BY <1>1, <1>2, FS_AddElement
  <2>3. QED
    BY <1>3, <2>1, <2>2 DEF CountUpTo
<1>4. CASE n + 1 \notin S
  <2>1. S \cap (1..(n + 1)) = S \cap (1..n)
    BY <1>4
  <2>2. QED
    BY <1>1, <1>4, <2>1 DEF CountUpTo
<1>5. QED
  BY <1>3, <1>4

\* Taking the first position away moves the others down by one.
LEMMA CountShift ==
    ASSUME NEW S, NEW T, NEW n \in Nat,
           \A j \in 1..n : j \in T <=> j + 1 \in S
    PROVE  CountUpTo(S, n + 1) =
               CountUpTo(T, n) + (IF 1 \in S THEN 1 ELSE 0)
<1> DEFINE R == (S \cap (1..(n + 1))) \ {1}
           f == [j \in T \cap (1..n) |-> j + 1]
<1>1. /\ IsFiniteSet(T \cap (1..n)) /\ CountUpTo(T, n) \in Nat
      /\ IsFiniteSet(S \cap (1..(n + 1))) /\ CountUpTo(S, n + 1) \in Nat
  BY CountIsNat
<1>2. f \in Bijection(T \cap (1..n), R)
  <2>1. f \in [T \cap (1..n) -> R]
    OBVIOUS
  <2>2. \A a, b \in T \cap (1..n) : f[a] = f[b] => a = b
    OBVIOUS
  <2>3. \A r \in R : \E a \in T \cap (1..n) : f[a] = r
    <3>1. SUFFICES ASSUME NEW r \in R PROVE \E a \in T \cap (1..n) : f[a] = r
      OBVIOUS
    <3>2. r - 1 \in 1..n /\ (r - 1) + 1 = r
      OBVIOUS
    <3>3. r - 1 \in T
      BY <3>2
    <3>4. QED
      BY <3>2, <3>3
  <2>4. QED
    BY <2>1, <2>2, <2>3 DEF Bijection, Injection, Surjection, IsInjective
<1>3. Cardinality(R) = Cardinality(T \cap (1..n))
  <2>1. ExistsBijection(T \cap (1..n), R)
    BY <1>2 DEF ExistsBijection
  <2>2. QED
    BY <1>1, <2>1, FS_Bijection
<1>4. Cardinality(R) = IF 1 \in S \cap (1..(n + 1))
                       THEN CountUpTo(S, n + 1) - 1 ELSE CountUpTo(S, n + 1)
  BY <1>1, FS_RemoveElement DEF CountUpTo
<1>5. 1 \in S \cap (1..(n + 1)) <=> 1 \in S
  OBVIOUS
<1> HIDE DEF R, f
<1>6. QED
  BY <1>1, <1>3, <1>4, <1>5 DEF CountUpTo

-----------------------------------------------------------------------------
\* What sequences are made of.

\* Only the empty sequence has no elements.
LEMMA NoneLeft == ASSUME NEW S, NEW w \in Seq(S) PROVE w = <<>> <=> Len(w) = 0
OBVIOUS

\* What is left of s behind its first i elements: its length, head and tail.
LEMMA Suffix ==
    ASSUME NEW s, IsSeq(s), NEW i \in 0..Len(s), NEW w, w = SubSeq(s, i + 1, Len(s))
    PROVE  /\ Len(w) = Len(s) - i
           /\ w # <<>> <=> i < Len(s)
           /\ i < Len(s) => /\ Head(w) = s[i + 1]
                            /\ Tail(w) = SubSeq(s, (i + 1) + 1, Len(s))
                            /\ Len(Tail(w)) = Len(s) - (i + 1)
<1>1. PICK S : s \in Seq(S) BY DEF IsSeq
<1>2. w \in Seq(S) BY <1>1
<1>3. Len(w) = Len(s) - i BY <1>1
<1>4. w # <<>> <=> i < Len(s)
  <2>1. Len(s) \in Nat BY <1>1
  <2>2. w = <<>> <=> Len(w) = 0 BY <1>2, NoneLeft
  <2>3. Len(w) = 0 <=> ~(i < Len(s)) BY <2>1, <1>3
  <2> QED BY <2>2, <2>3
<1>5. ASSUME i < Len(s) PROVE /\ Head(w) = s[i + 1]
                            /\ Tail(w) = SubSeq(s, (i + 1) + 1, Len(s))
                            /\ Len(Tail(w)) = Len(s) - (i + 1)
  <2>1. Head(w) = s[i + 1] BY <1>1, <1>2, <1>3, <1>5
  <2>2. Tail(w) \in Seq(S) /\ Len(Tail(w)) = Len(s) - (i + 1)
    BY <1>1, <1>2, <1>3, <1>4, <1>5
  <2>3. SubSeq(s, (i + 1) + 1, Len(s)) \in Seq(S) /\ Len(SubSeq(s, (i + 1) + 1, Len(s))) = Len(s) - (i + 1)
    BY <1>1, <1>5
  <2>4. ASSUME NEW j \in 1..(Len(s) - (i + 1))
        PROVE  Tail(w)[j] = SubSeq(s, (i + 1) + 1, Len(s))[j]
    <3>1. j \in 1..(Len(w) - 1) /\ j + 1 \in 1..Len(w)
      BY <1>1, <1>3
    <3>2. Tail(w)[j] = w[j + 1]
      BY <1>2, <3>1
    <3>3. w[j + 1] = s[i + 1 + j]
      BY <1>1, <1>3, <3>1
    <3>4. SubSeq(s, (i + 1) + 1, Len(s))[j] = s[i + 1 + j]
      BY <1>1
    <3> QED BY <3>2, <3>3, <3>4
  <2>5. Tail(w) = SubSeq(s, (i + 1) + 1, Len(s))
    BY <2>2, <2>3, <2>4, SameSeq
  <2> QED BY <2>1, <2>2, <2>5
<1> QED BY <1>3, <1>4, <1>5

\* The second part of what \o returns.
LEMMA ConcatTail ==
    ASSUME NEW s, IsSeq(s), NEW t, IsSeq(t)
    PROVE  \A i \in 1..Len(t) : (s \o t)[Len(s) + i] = t[i]
<1>1. PICK S : s \in Seq(S) BY DEF IsSeq
<1>2. PICK U : t \in Seq(U) BY DEF IsSeq
<1>3. PICK T : T = S \cup U OBVIOUS
<1>4. s \in Seq(T) /\ t \in Seq(T) BY <1>1, <1>2, <1>3
<1> QED BY <1>4, ConcatTyped

\* Two sequences with the same elements are the same.
LEMMA SameSequence ==
    ASSUME NEW s, IsSeq(s), NEW t, IsSeq(t), Len(s) = Len(t),
           \A i \in 1..Len(s) : s[i] = t[i]
    PROVE  s = t
<1>1. PICK S : s \in Seq(S) BY DEF IsSeq
<1>2. PICK U : t \in Seq(U) BY DEF IsSeq
<1>3. PICK T : T = S \cup U OBVIOUS
<1>4. s \in Seq(T) /\ t \in Seq(T) BY <1>1, <1>2, <1>3
<1> QED BY <1>4, SameSeq

\* A function on 1 .. n is a sequence.
LEMMA TableIsSeq ==
    ASSUME NEW n \in Nat, NEW e
    PROVE  IsSeq([j \in 1..n |-> e[j]]) /\ Len([j \in 1..n |-> e[j]]) = n
<1> DEFINE S == {e[j] : j \in 1..n}
<1>1. [j \in 1..n |-> e[j]] \in Seq(S)
  OBVIOUS
<1>2. Len([j \in 1..n |-> e[j]]) = n
  OBVIOUS
<1> HIDE DEF S
<1> QED BY <1>1, <1>2 DEF IsSeq

\* A pair is a sequence.
LEMMA PairIsSeq == ASSUME NEW x, NEW y PROVE IsSeq(<<x, y>>) /\ Len(<<x, y>>) = 2
<1>1. <<x, y>> \in Seq({x, y})
  OBVIOUS
<1> QED BY <1>1 DEF IsSeq

-----------------------------------------------------------------------------
\* A sequence and then the elements of a table.

\* l and then the first n elements of e.
Grown(l, e, n) == l \o [j \in 1..n |-> e[j]]

\* What Grown returns.
LEMMA GrownFacts ==
    ASSUME NEW l, IsSeq(l), NEW e, NEW n \in Nat
    PROVE  /\ IsSeq(Grown(l, e, n))
           /\ Grown(l, e, 0) = l
           /\ Len(Grown(l, e, n)) = Len(l) + n
           /\ \A i \in 1..Len(l) : Grown(l, e, n)[i] = l[i]
           /\ \A i \in 1..n : Grown(l, e, n)[Len(l) + i] = e[i]
<1>1. \A m \in Nat : LET s == [j \in 1..m |-> e[j]] IN IsSeq(s) /\ Len(s) = m
  BY TableIsSeq
<1>2. \A m \in Nat : /\ IsSeq(Grown(l, e, m))
                     /\ Len(Grown(l, e, m)) = Len(l) + m
                     /\ \A i \in 1..Len(l) : Grown(l, e, m)[i] = l[i]
                     /\ \A i \in 1..m : Grown(l, e, m)[Len(l) + i] = e[i]
  <2>1. SUFFICES ASSUME NEW m \in Nat
                 PROVE  /\ IsSeq(Grown(l, e, m))
                        /\ Len(Grown(l, e, m)) = Len(l) + m
                        /\ \A i \in 1..Len(l) : Grown(l, e, m)[i] = l[i]
                        /\ \A i \in 1..m : Grown(l, e, m)[Len(l) + i] = e[i]
    OBVIOUS
  <2> DEFINE s == [j \in 1..m |-> e[j]]
  <2>2. IsSeq(s) /\ Len(s) = m /\ \A j \in 1..m : s[j] = e[j]
    BY <1>1
  <2> HIDE DEF s
  <2>3. /\ IsSeq(l \o s) /\ Len(l \o s) = Len(l) + m
        /\ \A i \in 1..Len(l) : (l \o s)[i] = l[i]
        /\ \A i \in 1..m : (l \o s)[Len(l) + i] = e[i]
    <3>1. /\ IsSeq(l \o s) /\ Len(l \o s) = Len(l) + Len(s)
          /\ \A i \in 1..Len(l) : (l \o s)[i] = l[i]
      BY <2>2, ConcatFacts
    <3>2. \A i \in 1..Len(s) : (l \o s)[Len(l) + i] = s[i]
      BY <2>2, ConcatTail
    <3> QED BY <2>2, <3>1, <3>2
  <2> QED BY <2>3 DEF Grown, s
<1>3. Grown(l, e, 0) = l
  <2>1. [j \in 1..0 |-> e[j]] = <<>>
    OBVIOUS
  <2> QED BY <2>1, ConcatFacts, EmptyIsSeq DEF Grown
<1> QED BY <1>2, <1>3

\* An element more.
LEMMA GrownNext ==
    ASSUME NEW l, IsSeq(l), NEW e, NEW n \in Nat
    PROVE  Grown(l, e, n + 1) = Append(Grown(l, e, n), e[n + 1])
<1>2. \A m \in Nat : /\ IsSeq(Grown(l, e, m))
                     /\ Len(Grown(l, e, m)) = Len(l) + m
                     /\ \A i \in 1..Len(l) : Grown(l, e, m)[i] = l[i]
                     /\ \A i \in 1..m : Grown(l, e, m)[Len(l) + i] = e[i]
  BY GrownFacts
<1>4. Grown(l, e, n + 1) = Append(Grown(l, e, n), e[n + 1])
  <2> DEFINE s == Grown(l, e, n)
             t == Grown(l, e, n + 1)
             a == Append(s, e[n + 1])
  <2>1. IsSeq(s) /\ Len(s) = Len(l) + n /\ Len(l) \in Nat
    BY <1>2, LenIsNat
  <2>2. IsSeq(a) /\ Len(a) = Len(l) + n + 1 /\ a[Len(l) + n + 1] = e[n + 1]
        /\ \A i \in 1..(Len(l) + n) : a[i] = s[i]
    BY <2>1, AppendFacts
  <2>3. IsSeq(t) /\ Len(t) = Len(l) + (n + 1)
    BY <1>2
  <2>4. /\ \A i \in 1..Len(l) : s[i] = l[i] /\ t[i] = l[i]
        /\ \A i \in 1..n : s[Len(l) + i] = e[i]
        /\ \A i \in 1..(n + 1) : t[Len(l) + i] = e[i]
    <3>1. n \in Nat /\ n + 1 \in Nat
      OBVIOUS
    <3>2. /\ \A i \in 1..Len(l) : s[i] = l[i]
          /\ \A i \in 1..n : s[Len(l) + i] = e[i]
      BY <1>2, <3>1
    <3>3. /\ \A i \in 1..Len(l) : t[i] = l[i]
          /\ \A i \in 1..(n + 1) : t[Len(l) + i] = e[i]
      BY <1>2, <3>1
    <3> QED BY <3>2, <3>3
  <2> HIDE DEF s, t, a
  <2>5. ASSUME NEW i \in 1..Len(t) PROVE t[i] = a[i]
    <3>1. CASE i \in 1..Len(l)
      BY <2>1, <2>2, <2>4, <3>1
    <3>2. CASE i \notin 1..Len(l)
      <4>1. PICK j \in 1..(n + 1) : i = Len(l) + j
        <5>1. i - Len(l) \in 1..(n + 1) /\ i = Len(l) + (i - Len(l))
          BY <2>1, <2>3, <2>5, <3>2
        <5> QED BY <5>1
      <4>2. t[i] = e[j]
        BY <2>4, <4>1
      <4>3. CASE j = n + 1
        BY <2>1, <2>2, <4>1, <4>2, <4>3
      <4>4. CASE j # n + 1
        <5>1. j \in 1..n /\ i \in 1..(Len(l) + n)
          BY <2>1, <4>1, <4>4
        <5> QED BY <2>2, <2>4, <4>1, <4>2, <5>1
      <4> QED BY <4>3, <4>4
    <3> QED BY <3>1, <3>2
  <2>6. Len(t) = Len(a)
    BY <2>1, <2>2, <2>3
  <2>7. t = a
    BY <2>2, <2>3, <2>5, <2>6, SameSequence
  <2> QED BY <2>7 DEF s, t, a
<1> QED BY <1>4

-----------------------------------------------------------------------------
\* The values of a function at the elements of a sequence.

\* What m has for each of the cells.
Seen(m, cells) == [j \in 1..Len(cells) |-> m[cells[j]]]

\* What is seen is a sequence.
LEMMA SeenFacts ==
    ASSUME NEW m, NEW p, IsSeq(p)
    PROVE  /\ IsSeq(Seen(m, p)) /\ Len(Seen(m, p)) = Len(p)
           /\ \A i \in 1..Len(p) : Seen(m, p)[i] = m[p[i]]
<1> DEFINE e == [i \in 1..Len(p) |-> m[p[i]]]
           t == [i \in 1..Len(p) |-> e[i]]
<1>1. Seen(m, p) = e /\ e = t
  BY DEF Seen
<1>2. \A i \in 1..Len(p) : e[i] = m[p[i]]
  OBVIOUS
<1>3. Len(p) \in Nat
  BY LenIsNat
<1> HIDE DEF e
<1>4. IsSeq(t) /\ Len(t) = Len(p)
  BY <1>3, TableIsSeq
<1> HIDE DEF t
<1> QED BY <1>1, <1>2, <1>4

\* All of what is seen, behind l.
LEMMA SeenAll ==
    ASSUME NEW m, NEW p, NEW l PROVE Grown(l, Seen(m, p), Len(p)) = l \o Seen(m, p)
<1> DEFINE e == [i \in 1..Len(p) |-> m[p[i]]]
           t == [i \in 1..Len(p) |-> e[i]]
<1>1. Seen(m, p) = e /\ e = t
  BY DEF Seen
<1> HIDE DEF e
<1>2. Grown(l, e, Len(p)) = l \o t
  BY DEF Grown
<1> QED BY <1>1, <1>2

\* What is seen in cells behind others.
LEMMA SeenThen ==
    ASSUME NEW m, NEW s, IsSeq(s), NEW t, IsSeq(t)
    PROVE  Seen(m, s \o t) = Seen(m, s) \o Seen(m, t)
<1> DEFINE v == Seen(m, s)
           w == Seen(m, t)
           u == Seen(m, s \o t)
<1>1. Len(s) \in Nat /\ Len(t) \in Nat
  BY LenIsNat
<1>2. /\ Len(s \o t) = Len(s) + Len(t)
      /\ \A i \in 1..Len(s) : (s \o t)[i] = s[i]
      /\ \A i \in 1..Len(t) : (s \o t)[Len(s) + i] = t[i]
  BY ConcatFacts, ConcatTail
<1>3. IsSeq(v) /\ Len(v) = Len(s) /\ \A i \in 1..Len(s) : v[i] = m[s[i]]
  BY SeenFacts
<1>4. IsSeq(w) /\ Len(w) = Len(t) /\ \A i \in 1..Len(t) : w[i] = m[t[i]]
  BY SeenFacts
<1>5. /\ IsSeq(u) /\ Len(u) = Len(s) + Len(t)
      /\ \A i \in 1..(Len(s) + Len(t)) : u[i] = m[(s \o t)[i]]
  <2>1. IsSeq(s \o t)
    BY ConcatFacts
  <2> DEFINE y == s \o t
  <2>2. IsSeq(y) /\ Len(y) = Len(s) + Len(t)
    BY <1>2, <2>1
  <2> HIDE DEF y
  <2>3. /\ IsSeq(Seen(m, y)) /\ Len(Seen(m, y)) = Len(y)
        /\ \A i \in 1..Len(y) : Seen(m, y)[i] = m[y[i]]
    BY <2>2, SeenFacts
  <2>4. /\ IsSeq(Seen(m, y)) /\ Len(Seen(m, y)) = Len(s) + Len(t)
        /\ \A i \in 1..(Len(s) + Len(t)) : Seen(m, y)[i] = m[y[i]]
    BY <2>2, <2>3
  <2> QED BY <2>4 DEF y
<1> HIDE DEF u, v, w
<1>6. /\ IsSeq(v \o w) /\ Len(v \o w) = Len(s) + Len(t)
      /\ \A i \in 1..Len(s) : (v \o w)[i] = v[i]
      /\ \A i \in 1..Len(t) : (v \o w)[Len(s) + i] = w[i]
  <2>1. IsSeq(v) /\ IsSeq(w) /\ Len(v) = Len(s) /\ Len(w) = Len(t)
    BY <1>3, <1>4
  <2>2. /\ IsSeq(v \o w) /\ Len(v \o w) = Len(v) + Len(w)
        /\ \A i \in 1..Len(v) : (v \o w)[i] = v[i]
    BY <2>1, ConcatFacts
  <2>3. \A i \in 1..Len(w) : (v \o w)[Len(v) + i] = w[i]
    BY <2>1, ConcatTail
  <2> QED BY <2>1, <2>2, <2>3
<1>7. ASSUME NEW i \in 1..(Len(s) + Len(t)) PROVE u[i] = (v \o w)[i]
  <2>1. CASE i \in 1..Len(s)
    BY <1>2, <1>3, <1>5, <1>6, <2>1
  <2>2. CASE i \notin 1..Len(s)
    <3>1. PICK j \in 1..Len(t) : i = Len(s) + j
      <4>1. i - Len(s) \in 1..Len(t) /\ i = Len(s) + (i - Len(s))
        BY <1>1, <2>2
      <4> QED BY <4>1
    <3> QED BY <1>2, <1>4, <1>5, <1>6, <3>1
  <2> QED BY <2>1, <2>2
<1>8. u = v \o w
  BY <1>5, <1>6, <1>7, SameSequence
<1> QED BY <1>8 DEF u, v, w

-----------------------------------------------------------------------------
\* The set of the elements of a sequence.

\* The set of the cells of a sequence.
CellSet(cells) == {cells[j] : j \in 1..Len(cells)}

\* The cells of short sequences.
LEMMA CellSetSmall ==
    ASSUME NEW x, NEW y
    PROVE  /\ CellSet(<<>>) = {}
           /\ IsSeq(<<x>>) /\ CellSet(<<x>>) = {x}
           /\ IsSeq(<<x, y>>) /\ CellSet(<<x, y>>) = {x, y}
<1>1. <<x>> \in Seq({x}) /\ <<x, y>> \in Seq({x, y})
  OBVIOUS
<1>2. CellSet(<<>>) = {}
  BY DEF CellSet
<1>3. CellSet(<<x>>) = {x}
  <2>1. \A j : j \in 1..1 <=> j = 1
    OBVIOUS
  <2> QED BY <2>1 DEF CellSet
<1>4. CellSet(<<x, y>>) = {x, y}
  <2>1. \A j : j \in 1..2 <=> j = 1 \/ j = 2
    OBVIOUS
  <2> QED BY <2>1 DEF CellSet
<1> QED BY <1>1, <1>2, <1>3, <1>4 DEF IsSeq

\* The cells of two sequences, one after the other.
LEMMA CellSetFacts ==
    ASSUME NEW s, IsSeq(s), NEW t, IsSeq(t)
    PROVE  IsSeq(s \o t) /\ CellSet(s \o t) = CellSet(s) \cup CellSet(t)
<1>1. Len(s) \in Nat /\ Len(t) \in Nat
  BY LenIsNat
<1>2. /\ IsSeq(s \o t) /\ Len(s \o t) = Len(s) + Len(t)
      /\ \A i \in 1..Len(s) : (s \o t)[i] = s[i]
      /\ \A i \in 1..Len(t) : (s \o t)[Len(s) + i] = t[i]
  BY ConcatFacts, ConcatTail
<1>3. ASSUME NEW i \in 1..Len(s) PROVE i \in 1..Len(s \o t)
  BY <1>1, <1>2
<1>4. ASSUME NEW i \in 1..Len(t) PROVE Len(s) + i \in 1..Len(s \o t)
  BY <1>1, <1>2
<1>5. ASSUME NEW i \in 1..Len(s \o t)
      PROVE  i \in 1..Len(s) \/ \E j \in 1..Len(t) : i = Len(s) + j
  <2>1. CASE i \notin 1..Len(s)
    <3>1. i - Len(s) \in 1..Len(t) /\ i = Len(s) + (i - Len(s))
      BY <1>1, <1>2, <2>1
    <3> QED BY <3>1
  <2> QED BY <2>1
<1> DEFINE w == s \o t
<1>6. /\ \A i \in 1..Len(s) : i \in 1..Len(w) /\ w[i] = s[i]
      /\ \A i \in 1..Len(t) : Len(s) + i \in 1..Len(w) /\ w[Len(s) + i] = t[i]
  BY <1>2, <1>3, <1>4
<1>7. IsSeq(w)
  BY <1>2
<1>8. \A i \in 1..Len(w) : i \in 1..Len(s) \/ \E j \in 1..Len(t) : i = Len(s) + j
  BY <1>5
<1> HIDE DEF w
<1>9. ASSUME NEW x \in CellSet(w) PROVE x \in CellSet(s) \cup CellSet(t)
  <2>1. PICK i \in 1..Len(w) : x = w[i]
    BY <1>9 DEF CellSet
  <2>2. CASE i \in 1..Len(s)
    BY <1>6, <2>1, <2>2 DEF CellSet
  <2>3. CASE i \notin 1..Len(s)
    <3>1. PICK j \in 1..Len(t) : i = Len(s) + j
      BY <1>8, <2>3
    <3> QED BY <1>6, <2>1, <3>1 DEF CellSet
  <2> QED BY <2>2, <2>3
<1>10. ASSUME NEW x \in CellSet(s) \cup CellSet(t) PROVE x \in CellSet(w)
  BY <1>6 DEF CellSet
<1>11. CellSet(w) = CellSet(s) \cup CellSet(t)
  BY <1>9, <1>10
<1> QED BY <1>7, <1>11 DEF w

-----------------------------------------------------------------------------
\* Short sequences joined.

\* What the sequence s \o t is.
LEMMA JoinIs ==
    ASSUME NEW s, IsSeq(s), NEW t, IsSeq(t), NEW u, IsSeq(u), Len(u) = Len(s) + Len(t),
           \A i \in 1..Len(s) : u[i] = s[i], \A i \in 1..Len(t) : u[Len(s) + i] = t[i]
    PROVE  s \o t = u
<1> DEFINE w == s \o t
<1>1. /\ IsSeq(w) /\ Len(w) = Len(s) + Len(t)
      /\ \A i \in 1..Len(s) : w[i] = s[i]
      /\ \A i \in 1..Len(t) : w[Len(s) + i] = t[i]
  BY ConcatFacts, ConcatTail
<1>2. Len(s) \in Nat /\ Len(t) \in Nat
  BY LenIsNat
<1> HIDE DEF w
<1>3. ASSUME NEW i \in 1..Len(w) PROVE w[i] = u[i]
  <2>1. CASE i \in 1..Len(s)
    BY <1>1, <2>1
  <2>2. CASE i \notin 1..Len(s)
    <3>1. PICK j : j = i - Len(s)
      OBVIOUS
    <3>2. j \in 1..Len(t) /\ i = Len(s) + j
      BY <1>1, <1>2, <2>2, <3>1
    <3> QED BY <1>1, <3>2
  <2> QED BY <2>1, <2>2
<1>4. w = u
  BY <1>1, <1>3, SameSequence
<1> QED BY <1>4 DEF w

\* Nothing, and then a sequence.
LEMMA EmptyConcat == ASSUME NEW t, IsSeq(t) PROVE <<>> \o t = t
<1> DEFINE s == <<>>
<1>1. Len(s) = 0 /\ IsSeq(s)
  BY EmptyIsSeq
<1>2. Len(t) \in Nat
  BY LenIsNat
<1> HIDE DEF s
<1>3. Len(t) = Len(s) + Len(t)
  BY <1>1, <1>2
<1>4. \A i \in 1..Len(s) : t[i] = s[i]
  BY <1>1
<1>5. \A i \in 1..Len(t) : t[Len(s) + i] = t[i]
  BY <1>1
<1>6. s \o t = t
  BY <1>1, <1>3, <1>4, <1>5, JoinIs
<1> QED BY <1>6 DEF s

\* Nothing, and then one element.
LEMMA EmptyThen == ASSUME NEW x PROVE <<>> \o <<x>> = <<x>>
<1>1. <<x>> \in Seq({x})
  OBVIOUS
<1>2. IsSeq(<<x>>)
  BY <1>1 DEF IsSeq
<1> QED BY <1>2, EmptyConcat

\* One element and another.
LEMMA Places2 ==
    ASSUME NEW a, NEW b PROVE <<a>> \o <<b>> = <<a, b>>
<1> DEFINE s == <<a>>
           t == <<b>>
           u == <<a, b>>
<1>1. s \in Seq({a, b}) /\ t \in Seq({a, b}) /\ u \in Seq({a, b})
  OBVIOUS
<1>2. /\ Len(s) = 1 /\ Len(t) = 1 /\ Len(u) = 2
      /\ s[1] = u[1]
      /\ t[1] = u[1 + 1]
  OBVIOUS
<1> HIDE DEF s, t, u
<1>3. IsSeq(s) /\ IsSeq(t) /\ IsSeq(u)
  BY <1>1 DEF IsSeq
<1>4. (\A i \in 1..Len(s) : u[i] = s[i]) /\ (\A i \in 1..Len(t) : u[Len(s) + i] = t[i])
  <2>1. (\A i \in 1..1 : i = 1)
    OBVIOUS
  <2> QED BY <1>2, <2>1
<1>5. Len(u) = Len(s) + Len(t)
  BY <1>2
<1>6. s \o t = u
  BY <1>3, <1>4, <1>5, JoinIs
<1> QED BY <1>6 DEF s, t, u

\* One element and two.
LEMMA Places3 ==
    ASSUME NEW a, NEW b, NEW e PROVE <<a>> \o <<b, e>> = <<a, b, e>>
<1> DEFINE s == <<a>>
           t == <<b, e>>
           u == <<a, b, e>>
<1>1. s \in Seq({a, b, e}) /\ t \in Seq({a, b, e}) /\ u \in Seq({a, b, e})
  OBVIOUS
<1>2. /\ Len(s) = 1 /\ Len(t) = 2 /\ Len(u) = 3
      /\ s[1] = u[1]
      /\ t[1] = u[1 + 1] /\ t[2] = u[1 + 2]
  OBVIOUS
<1> HIDE DEF s, t, u
<1>3. IsSeq(s) /\ IsSeq(t) /\ IsSeq(u)
  BY <1>1 DEF IsSeq
<1>4. (\A i \in 1..Len(s) : u[i] = s[i]) /\ (\A i \in 1..Len(t) : u[Len(s) + i] = t[i])
  <2>1. (\A i \in 1..1 : i = 1)
        /\ (\A i \in 1..2 : i = 1 \/ i = 2)
    OBVIOUS
  <2> QED BY <1>2, <2>1
<1>5. Len(u) = Len(s) + Len(t)
  BY <1>2
<1>6. s \o t = u
  BY <1>3, <1>4, <1>5, JoinIs
<1> QED BY <1>6 DEF s, t, u

\* Two and two.
LEMMA Places4 ==
    ASSUME NEW a, NEW b, NEW e, NEW g PROVE <<a, b>> \o <<e, g>> = <<a, b, e, g>>
<1> DEFINE s == <<a, b>>
           t == <<e, g>>
           u == <<a, b, e, g>>
<1>1. s \in Seq({a, b, e, g}) /\ t \in Seq({a, b, e, g}) /\ u \in Seq({a, b, e, g})
  OBVIOUS
<1>2. /\ Len(s) = 2 /\ Len(t) = 2 /\ Len(u) = 4
      /\ s[1] = u[1] /\ s[2] = u[2]
      /\ t[1] = u[2 + 1] /\ t[2] = u[2 + 2]
  OBVIOUS
<1> HIDE DEF s, t, u
<1>3. IsSeq(s) /\ IsSeq(t) /\ IsSeq(u)
  BY <1>1 DEF IsSeq
<1>4. (\A i \in 1..Len(s) : u[i] = s[i]) /\ (\A i \in 1..Len(t) : u[Len(s) + i] = t[i])
  <2>1. (\A i \in 1..2 : i = 1 \/ i = 2)
        /\ (\A i \in 1..2 : i = 1 \/ i = 2)
    OBVIOUS
  <2> QED BY <1>2, <2>1
<1>5. Len(u) = Len(s) + Len(t)
  BY <1>2
<1>6. s \o t = u
  BY <1>3, <1>4, <1>5, JoinIs
<1> QED BY <1>6 DEF s, t, u

\* One and three.
LEMMA LayerDims ==
    ASSUME NEW n, NEW a, NEW b, NEW e PROVE <<n>> \o <<a, b, e>> = <<n, a, b, e>>
<1> DEFINE s == <<n>>
           t == <<a, b, e>>
           u == <<n, a, b, e>>
<1>1. s \in Seq({n, a, b, e}) /\ t \in Seq({n, a, b, e}) /\ u \in Seq({n, a, b, e})
  OBVIOUS
<1>2. /\ Len(s) = 1 /\ Len(t) = 3 /\ Len(u) = 4
      /\ s[1] = u[1]
      /\ t[1] = u[1 + 1] /\ t[2] = u[1 + 2] /\ t[3] = u[1 + 3]
  OBVIOUS
<1> HIDE DEF s, t, u
<1>3. IsSeq(s) /\ IsSeq(t) /\ IsSeq(u)
  BY <1>1 DEF IsSeq
<1>4. (\A i \in 1..Len(s) : u[i] = s[i]) /\ (\A i \in 1..Len(t) : u[Len(s) + i] = t[i])
  <2>1. (\A i \in 1..1 : i = 1)
        /\ (\A i \in 1..3 : i = 1 \/ i = 2 \/ i = 3)
    OBVIOUS
  <2> QED BY <1>2, <2>1
<1>5. Len(u) = Len(s) + Len(t)
  BY <1>2
<1>6. s \o t = u
  BY <1>3, <1>4, <1>5, JoinIs
<1> QED BY <1>6 DEF s, t, u

-----------------------------------------------------------------------------
\* Numbers.

\* Every set of natural numbers that has an element has a least one.
LEMMA Least ==
    ASSUME NEW T, T \subseteq Nat, T # {}
    PROVE  \E x \in T : \A y \in T : x <= y
<1> DEFINE R == OpToRel(<, Nat)
<1>1. \A x, y \in Nat : <<y, x>> \in R <=> y < x
  BY DEF OpToRel
<1>2. IsWellFoundedOn(R, Nat)
  BY Zenon, NatLessThanWellFounded
<1> HIDE DEF R
<1>3. PICK x \in T : \A y \in T : ~(<<y, x>> \in R)
  BY <1>2, WFMin
<1>4. ASSUME NEW y \in T PROVE x <= y
  <2>1. x \in Nat /\ y \in Nat
    OBVIOUS
  <2>2. ~(y < x)
    BY <1>1, <1>3, <2>1
  <2> QED BY <2>1, <2>2
<1> QED BY <1>4

\* Induction up to n, on a set.
LEMMA Induction ==
    ASSUME NEW n \in Nat, NEW S, 0 \in S, \A i \in 1..n : i - 1 \in S => i \in S
    PROVE  \A i \in 0..n : i \in S
<1> DEFINE T == (0..n) \ S
<1>1. SUFFICES ASSUME T # {} PROVE FALSE
  OBVIOUS
<1>2. PICK x \in T : \A y \in T : x <= y
  <2>1. T \subseteq Nat
    OBVIOUS
  <2> HIDE DEF T
  <2> QED BY <1>1, <2>1, Least
<1>3. x \in 1..n /\ x - 1 \in 0..n /\ ~(x <= x - 1)
  OBVIOUS
<1> QED BY <1>2, <1>3

\* A place behind the i-th of n.
LEMMA Within ==
    ASSUME NEW n \in Nat, NEW i \in 0..n, i < n
    PROVE  i + 1 \in 1..n /\ (i + 1) - 1 = i /\ i \in Nat
OBVIOUS

\* Every place is the first or the second of a pair.
LEMMA OddOrEven ==
    ASSUME NEW k \in Nat, NEW j \in 1..(2 * k)
    PROVE  \E i \in 1..k : j = 2 * i - 1 \/ j = 2 * i
<1>1. CASE (j % 2) = 0
  <2>1. j \div 2 \in 1..k /\ j = 2 * (j \div 2)
    BY <1>1
  <2> QED BY <2>1
<1>2. CASE (j % 2) # 0
  <2>1. (j + 1) \div 2 \in 1..k /\ j = 2 * ((j + 1) \div 2) - 1
    BY <1>2
  <2> QED BY <2>1
<1> QED BY <1>1, <1>2

-----------------------------------------------------------------------------
\* Sequences of pairs run together.

\* FlattenSeq appends one sequence after the other.
LEMMA FlattenUnrolls ==
    ASSUME NEW s, NEW k \in Nat \ {0}, Len(s) = k
    PROVE  \E g : /\ g[1] = s[1]
                  /\ \A n \in 2..k : g[n] = g[n - 1] \o s[n]
                  /\ FlattenSeq(s) = g[k]
<1> DEFINE rec(m, g) == g = [n \in 1..m |-> IF n = 1 THEN s[n] ELSE g[n - 1] \o s[n]]
           G == {m \in 0..k : \E g : rec(m, g)}
           up == CHOOSE g : rec(k, g)
<1>2. 0 \in G
  <2>1. rec(0, [n \in 1..0 |-> 0])
    OBVIOUS
  <2> HIDE DEF rec
  <2> QED BY <2>1
<1>3. ASSUME NEW i \in 1..k, i - 1 \in G PROVE i \in G
  <2>1. PICK m \in Nat : m = i - 1 /\ m + 1 = i
    OBVIOUS
  <2>2. PICK g : rec(m, g)
    BY <1>3, <2>1
  <2> DEFINE h == [n \in 1..i |-> IF n <= m THEN g[n] ELSE IF n = 1 THEN s[n] ELSE g[m] \o s[n]]
  <2>3. \A n \in 1..m : g[n] = IF n = 1 THEN s[n] ELSE g[n - 1] \o s[n]
    BY <2>1, <2>2
  <2>4. \A n \in 1..i : h[n] = IF n = 1 THEN s[n] ELSE h[n - 1] \o s[n]
    BY <2>1, <2>3
  <2>5. h = [n \in 1..i |-> h[n]]
    OBVIOUS
  <2> HIDE DEF h
  <2>6. rec(i, h)
    BY <2>4, <2>5
  <2> HIDE DEF rec
  <2> QED BY <2>6
<1>4. \E g : rec(k, g)
  <2>1. k \in 0..k
    OBVIOUS
  <2> HIDE DEF rec
  <2>2. \A i \in 1..k : i - 1 \in G => i \in G
    BY <1>3
  <2> HIDE DEF G
  <2>3. \A i \in 0..k : i \in G
    BY <1>2, <2>2, Induction
  <2>4. k \in G
    BY <2>1, <2>3
  <2> QED BY <2>4 DEF G
<1>5. rec(k, up)
  <2> HIDE DEF rec
  <2> QED BY <1>4
<1>6. FlattenSeq(s) = up[k]
  BY Zenon DEF FlattenSeq
<1> HIDE DEF up
<1>7. up[1] = s[1] /\ \A n \in 2..k : up[n] = up[n - 1] \o s[n]
  <2>1. up = [n \in 1..k |-> IF n = 1 THEN s[n] ELSE up[n - 1] \o s[n]]
    BY <1>5
  <2>2. \A n \in 1..k : up[n] = IF n = 1 THEN s[n] ELSE up[n - 1] \o s[n]
    BY <2>1
  <2>3. 1 \in 1..k /\ \A n \in 2..k : n \in 1..k /\ n # 1
    OBVIOUS
  <2> QED BY <2>2, <2>3
<1> QED BY <1>6, <1>7

\* s consists of k pairs.
Pairs(s, k) == /\ k \in Nat \ {0} /\ Len(s) = k
               /\ \A i \in 1..k : s[i] = <<s[i][1], s[i][2]>>

\* What FlattenSeq makes of pairs.
LEMMA FlatPairs ==
    ASSUME NEW s, NEW k, Pairs(s, k)
    PROVE  /\ IsSeq(FlattenSeq(s)) /\ Len(FlattenSeq(s)) = 2 * k
           /\ \A i \in 1..k : /\ FlattenSeq(s)[2 * i - 1] = s[i][1]
                              /\ FlattenSeq(s)[2 * i] = s[i][2]
<1>1. k \in Nat \ {0} /\ Len(s) = k /\ \A i \in 1..k : s[i] = <<s[i][1], s[i][2]>>
  BY DEF Pairs
<1>2. PICK g : /\ g[1] = s[1]
               /\ \A n \in 2..k : g[n] = g[n - 1] \o s[n]
               /\ FlattenSeq(s) = g[k]
  BY <1>1, FlattenUnrolls
<1> DEFINE good(n) == /\ IsSeq(g[n]) /\ Len(g[n]) = 2 * n
                      /\ \A i \in 1..n : g[n][2 * i - 1] = s[i][1] /\ g[n][2 * i] = s[i][2]
           G == {n \in 0..k : n = 0 \/ good(n)}
<1>3. \A i \in 1..k : IsSeq(s[i]) /\ Len(s[i]) = 2
  BY <1>1, PairIsSeq
<1>4. ASSUME NEW n \in 1..k, n - 1 \in G PROVE n \in G
  <2>1. CASE n = 1
    <3>1. g[1] = s[1] /\ 1 \in 1..k
      BY <1>1, <1>2
    <3>2. IsSeq(g[1]) /\ Len(g[1]) = 2 /\ g[1][1] = s[1][1] /\ g[1][2] = s[1][2]
      BY <1>3, <3>1
    <3>3. \A i \in 1..1 : 2 * i - 1 = 1 /\ 2 * i = 2 /\ i = 1
      OBVIOUS
    <3>4. good(1)
      BY <3>2, <3>3
    <3> HIDE DEF good
    <3> QED BY <2>1, <3>1, <3>4
  <2>2. CASE n # 1
    <3>1. PICK m \in Nat \ {0} : m = n - 1 /\ n = m + 1 /\ n \in 2..k
      BY <2>2
    <3>2. good(m)
      BY <1>4, <3>1
    <3>3. g[n] = g[m] \o s[n]
      BY <1>2, <3>1
    <3>4. /\ IsSeq(g[n]) /\ Len(g[n]) = 2 * m + 2
          /\ \A i \in 1..(2 * m) : g[n][i] = g[m][i]
          /\ \A i \in 1..2 : g[n][2 * m + i] = s[n][i]
      <4>1. IsSeq(s[n]) /\ Len(s[n]) = 2
        BY <1>3
      <4>2. IsSeq(g[m]) /\ Len(g[m]) = 2 * m
        BY <3>2
      <4>3. /\ IsSeq(g[m] \o s[n]) /\ Len(g[m] \o s[n]) = Len(g[m]) + Len(s[n])
            /\ \A i \in 1..Len(g[m]) : (g[m] \o s[n])[i] = g[m][i]
        BY <4>1, <4>2, ConcatFacts
      <4>4. \A i \in 1..Len(s[n]) : (g[m] \o s[n])[Len(g[m]) + i] = s[n][i]
        <5> DEFINE p == g[m]
                   q == s[n]
        <5>1. IsSeq(p) /\ IsSeq(q)
          BY <4>1, <4>2
        <5> HIDE DEF p, q
        <5>2. \A i \in 1..Len(q) : (p \o q)[Len(p) + i] = q[i]
          BY <5>1, ConcatTail
        <5> QED BY <5>2 DEF p, q
      <4> QED BY <3>3, <4>1, <4>2, <4>3, <4>4
    <3>5. ASSUME NEW i \in 1..n PROVE g[n][2 * i - 1] = s[i][1] /\ g[n][2 * i] = s[i][2]
      <4>1. CASE i \in 1..m
        <5>1. 2 * i - 1 \in 1..(2 * m) /\ 2 * i \in 1..(2 * m)
          BY <3>1, <4>1
        <5> QED BY <3>2, <3>4, <4>1, <5>1
      <4>2. CASE i \notin 1..m
        <5>1. i = n /\ 2 * i - 1 = 2 * m + 1 /\ 2 * i = 2 * m + 2
          BY <3>1, <4>2
        <5> QED BY <3>4, <5>1
      <4> QED BY <4>1, <4>2
    <3>6. Len(g[n]) = 2 * n
      <4>1. 2 * m + 2 = 2 * n
        BY <3>1
      <4> QED BY <3>4, <4>1
    <3>7. good(n)
      BY <3>4, <3>5, <3>6
    <3> HIDE DEF good
    <3> QED BY <3>1, <3>7
  <2> QED BY <2>1, <2>2
<1>5. good(k)
  <2>1. 0 \in G
    BY <1>1
  <2> HIDE DEF good
  <2>2. \A n \in 1..k : n - 1 \in G => n \in G
    BY <1>4
  <2> HIDE DEF G
  <2>3. \A n \in 0..k : n \in G
    BY <1>1, <2>1, <2>2, Induction
  <2>4. k \in 0..k /\ k # 0
    BY <1>1
  <2>5. k \in G
    BY <2>3, <2>4
  <2> QED BY <2>4, <2>5 DEF G
<1> QED BY <1>2, <1>5
=============================================================================
