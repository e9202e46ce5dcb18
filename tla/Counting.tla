----------------------------- MODULE Counting ------------------------------
(***************************************************************************)
(* How many elements of a kind a queue holds, while elements are appended  *)
(* at its end and taken from its front; and how many members of a finite   *)
(* set are at a kind of place, while one of them moves.                    *)
(***************************************************************************)
EXTENDS Integers, Sequences, FiniteSets, TLAPS, SequenceTheorems,
        FiniteSetTheorems, FunctionTheorems

\* The elements of T among the first k of s.
Count(s, T, k) == Cardinality({i \in 1 .. k : s[i] \in T})

\* The members of D that f puts in S.
Among(f, D, S) == Cardinality({x \in D : f[x] \in S})

-----------------------------------------------------------------------------

LEMMA CountType ==
  ASSUME NEW s, NEW T, NEW k \in Nat
  PROVE  /\ IsFiniteSet({i \in 1 .. k : s[i] \in T})
         /\ Count(s, T, k) \in Nat /\ Count(s, T, k) <= k
<1>1. IsFiniteSet(1 .. k) /\ Cardinality(1 .. k) = k
  BY FS_Interval
<1>2. {i \in 1 .. k : s[i] \in T} \in SUBSET (1 .. k)
  OBVIOUS
<1> QED  BY <1>1, <1>2, FS_Subset, FS_CardinalityType DEF Count

LEMMA CountNone == \A s, T : Count(s, T, 0) = 0
<1> SUFFICES ASSUME NEW s, NEW T PROVE Count(s, T, 0) = 0
  OBVIOUS
<1>1. {i \in 1 .. 0 : s[i] \in T} = {}
  OBVIOUS
<1> QED  BY <1>1, FS_EmptySet DEF Count

\* One element more.
LEMMA CountNext ==
  ASSUME NEW s, NEW T, NEW k \in Nat
  PROVE  Count(s, T, k + 1) = Count(s, T, k) + (IF s[k + 1] \in T THEN 1 ELSE 0)
<1> DEFINE A == {i \in 1 .. k : s[i] \in T}
           B == {i \in 1 .. k + 1 : s[i] \in T}
<1>1. IsFiniteSet(A) /\ Cardinality(A) \in Nat
  BY CountType, FS_CardinalityType
<1>2. CASE s[k + 1] \in T
  <2>1. B = A \cup {k + 1} /\ k + 1 \notin A
    BY <1>2
  <2> QED  BY <2>1, <1>1, <1>2, FS_AddElement DEF Count
<1>3. CASE s[k + 1] \notin T
  <2>1. B = A
    BY <1>3
  <2> QED  BY <2>1, <1>1, <1>3 DEF Count
<1> QED  BY <1>2, <1>3

\* What two sequences agree on.
LEMMA CountSame ==
  ASSUME NEW s, NEW t, NEW T, NEW k \in Nat, \A i \in 1 .. k : s[i] = t[i]
  PROVE  Count(s, T, k) = Count(t, T, k)
<1>1. {i \in 1 .. k : s[i] \in T} = {i \in 1 .. k : t[i] \in T}
  OBVIOUS
<1> QED  BY <1>1 DEF Count

LEMMA CountAppend ==
  ASSUME NEW S, NEW s \in Seq(S), NEW x \in S, NEW T
  PROVE  /\ Len(Append(s, x)) = Len(s) + 1 /\ Len(s) \in Nat
         /\ \A k \in 0 .. Len(s) : Count(Append(s, x), T, k) = Count(s, T, k)
         /\ Count(Append(s, x), T, Len(s) + 1)
              = Count(s, T, Len(s)) + (IF x \in T THEN 1 ELSE 0)
<1> DEFINE a == Append(s, x)
<1>1. /\ Len(s) \in Nat /\ Len(a) = Len(s) + 1 /\ a[Len(s) + 1] = x
      /\ \A i \in 1 .. Len(s) : a[i] = s[i]
  BY AppendProperties, LenProperties
<1> HIDE DEF a
<1>2. ASSUME NEW k \in 0 .. Len(s) PROVE Count(a, T, k) = Count(s, T, k)
  <2>1. k \in Nat /\ \A i \in 1 .. k : a[i] = s[i]
    BY <1>1, <1>2
  <2> QED  BY <2>1, CountSame
<1>3. Count(a, T, Len(s) + 1) = Count(a, T, Len(s)) + (IF a[Len(s) + 1] \in T THEN 1 ELSE 0)
  BY <1>1, CountNext
<1>4. Count(a, T, Len(s)) = Count(s, T, Len(s))
  BY <1>1, <1>2
<1> QED  BY <1>1, <1>2, <1>3, <1>4 DEF a

LEMMA CountTail ==
  ASSUME NEW S, NEW s \in Seq(S), s # <<>>, NEW T
  PROVE  /\ Head(s) \in S /\ Tail(s) \in Seq(S)
         /\ Len(Tail(s)) = Len(s) - 1 /\ Len(s) \in Nat \ {0}
         /\ \A k \in 0 .. Len(s) - 1 :
              Count(s, T, k + 1) = Count(Tail(s), T, k) + (IF Head(s) \in T THEN 1 ELSE 0)
<1> DEFINE t == Tail(s)
<1>1. /\ Head(s) \in S /\ t \in Seq(S) /\ Len(t) = Len(s) - 1
      /\ Len(s) \in Nat \ {0} /\ Head(s) = s[1]
      /\ \A i \in 1 .. Len(t) : t[i] = s[i + 1]
  BY HeadTailProperties, LenProperties, EmptySeq
<1> HIDE DEF t
<1>2. ASSUME NEW k \in 0 .. Len(s) - 1
      PROVE  Count(s, T, k + 1) = Count(t, T, k) + (IF Head(s) \in T THEN 1 ELSE 0)
  <2> DEFINE A == {i \in 1 .. k : t[i] \in T}
             B == {i \in 1 .. k + 1 : s[i] \in T}
             C == B \ {1}
             f == [i \in A |-> i + 1]
  <2>1. k \in Nat /\ \A i \in 1 .. k : t[i] = s[i + 1]
    BY <1>1, <1>2
  <2>2. /\ IsFiniteSet(A) /\ Cardinality(A) = Count(t, T, k) /\ Cardinality(A) \in Nat
        /\ IsFiniteSet(B) /\ Cardinality(B) = Count(s, T, k + 1) /\ Cardinality(B) \in Nat
    <3>1. IsFiniteSet(A) /\ Count(t, T, k) \in Nat
      BY <2>1, CountType
    <3>2. IsFiniteSet(B) /\ Count(s, T, k + 1) \in Nat
      <4>1. k + 1 \in Nat
        BY <2>1
      <4> QED  BY <4>1, CountType
    <3> QED  BY <3>1, <3>2 DEF Count
  <2>3. f \in Bijection(A, C)
    <3>1. f \in [A -> C]
      BY <2>1
    <3>2. \A i, j \in A : f[i] = f[j] => i = j
      OBVIOUS
    <3>3. ASSUME NEW c \in C PROVE \E i \in A : f[i] = c
      <4>1. c - 1 \in A /\ f[c - 1] = c
        BY <2>1, <3>3
      <4> QED  BY <4>1
    <3> QED  BY <3>1, <3>2, <3>3, Fun_IsBij
  <2>4. Cardinality(C) = Cardinality(A)
    <3> HIDE DEF A, C, f
    <3>1. ExistsBijection(A, C)
      BY <2>3, Fun_ExistsBij, Zenon
    <3> QED  BY <2>2, <3>1, FS_Bijection, Zenon
  <2>5. Cardinality(C) = IF 1 \in B THEN Cardinality(B) - 1 ELSE Cardinality(B)
    BY <2>2, FS_RemoveElement
  <2>6. 1 \in B <=> Head(s) \in T
    BY <1>1, <2>1
  <2> QED  BY <2>2, <2>4, <2>5, <2>6
<1> QED  BY <1>1, <1>2 DEF t

-----------------------------------------------------------------------------

LEMMA AmongType ==
  ASSUME NEW f, NEW D, IsFiniteSet(D), NEW S
  PROVE  /\ IsFiniteSet({x \in D : f[x] \in S})
         /\ Among(f, D, S) \in Nat /\ Among(f, D, S) <= Cardinality(D)
         /\ Among(f, D, S) = 0 <=> \A x \in D : f[x] \notin S
<1> DEFINE A == {x \in D : f[x] \in S}
<1>1. A \in SUBSET D
  OBVIOUS
<1>2. /\ IsFiniteSet(A) /\ Cardinality(A) \in Nat /\ Cardinality(A) <= Cardinality(D)
      /\ Cardinality(A) = 0 <=> A = {}
  <2> HIDE DEF A
  <2> QED  BY <1>1, FS_Subset, FS_CardinalityType, FS_EmptySet
<1> QED  BY <1>2 DEF Among

\* Only one member moves.
LEMMA AmongMove ==
  ASSUME NEW f, NEW h, NEW D, IsFiniteSet(D), NEW g, \A x \in D : x # g => h[x] = f[x],
         NEW S
  PROVE  /\ Among(f, D, S) \in Nat
         /\ g \notin D \/ (f[g] \in S <=> h[g] \in S) => Among(h, D, S) = Among(f, D, S)
         /\ g \in D /\ f[g] \notin S /\ h[g] \in S => Among(h, D, S) = Among(f, D, S) + 1
         /\ g \in D /\ f[g] \in S /\ h[g] \notin S => Among(h, D, S) = Among(f, D, S) - 1
<1> DEFINE A == {x \in D : f[x] \in S}
           B == {x \in D : h[x] \in S}
<1>1. IsFiniteSet(A) /\ Cardinality(A) \in Nat
  <2>1. IsFiniteSet(A)
    BY AmongType
  <2> HIDE DEF A
  <2> QED  BY <2>1, FS_CardinalityType
<1>2. ASSUME g \notin D \/ (f[g] \in S <=> h[g] \in S)
      PROVE  Among(h, D, S) = Among(f, D, S)
  <2>1. B = A
    BY <1>2
  <2> QED  BY <2>1 DEF Among
<1>3. ASSUME g \in D /\ f[g] \notin S /\ h[g] \in S
      PROVE  Among(h, D, S) = Among(f, D, S) + 1
  <2>1. B = A \cup {g} /\ g \notin A
    BY <1>3
  <2>2. Cardinality(B) = Cardinality(A) + 1
    <3> HIDE DEF A, B
    <3> QED  BY <1>1, <2>1, FS_AddElement
  <2> QED  BY <2>2 DEF Among
<1>4. ASSUME g \in D /\ f[g] \in S /\ h[g] \notin S
      PROVE  Among(h, D, S) = Among(f, D, S) - 1
  <2>1. B = A \ {g} /\ g \in A
    BY <1>4
  <2>2. Cardinality(B) = Cardinality(A) - 1
    <3> HIDE DEF A, B
    <3> QED  BY <1>1, <2>1, FS_RemoveElement
  <2> QED  BY <2>2 DEF Among
<1>5. Among(f, D, S) \in Nat
  BY <1>1 DEF Among
<1> QED  BY <1>2, <1>3, <1>4, <1>5

=============================================================================
