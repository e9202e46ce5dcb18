------------------------- MODULE NetlinkWireProofs -------------------------
(***************************************************************************)
(* Theorems about NetlinkWire, for all values of its constants: messages   *)
(* with any attributes, dumps and events of any number of them, buffers of *)
(* any size that fits the longest header.                                  *)
(*                                                                         *)
(* A request is Built: its attributes lie one behind the other, and none   *)
(* behind its buffer.  netlink_add_attribute() keeps that, and it is what  *)
(* lets the kernel's walk find them again.  msgbuf is kept as a buffer of  *)
(* whole items, which makes every walk over it end.  What a walk comes to  *)
(* is shown once, for things that lie one behind the other (WalkAlong),    *)
(* and used for attributes, metrics, answers and events alike.             *)
(*                                                                         *)
(* An induction is over a set of numbers and not over a formula: the least *)
(* number that is not in the set has one before it that is.                *)
(***************************************************************************)
EXTENDS NetlinkWire, TLAPS, SequenceTheorems, FiniteSetTheorems, WellFoundedInduction

\* A set of numbers that is not empty has a least one.
LEMMA LeastMember ==
  ASSUME NEW S, S \subseteq Nat, S # {}
  PROVE  \E n \in S : \A m \in S : n <= m
<1> DEFINE R == OpToRel(<, Nat)
<1>1. IsWellFoundedOn(R, Nat)
  BY NatLessThanWellFounded
<1>2. R = {p \in Nat \X Nat : p[1] < p[2]}
  BY DEF OpToRel
<1> HIDE DEF R
<1>3. PICK x \in S : \A y \in S : <<y, x>> \notin R
  BY <1>1, WFMin
<1>4. ASSUME NEW y \in S PROVE x <= y
  <2>1. <<y, x>> \in Nat \X Nat /\ <<y, x>>[1] = y /\ <<y, x>>[2] = x
    OBVIOUS
  <2>2. <<y, x>> \notin R
    BY <1>3
  <2>3. ~(y < x)
    BY <1>2, <2>1, <2>2
  <2> QED  BY <2>3
<1> QED  BY <1>4

\* A set with 0 and with each number's successor has all numbers.
LEMMA Induction ==
  ASSUME NEW S, 0 \in S, \A n \in Nat : n \in S => n + 1 \in S
  PROVE  \A n \in Nat : n \in S
<1> DEFINE T == {n \in Nat : n \notin S}
<1> SUFFICES ASSUME T # {} PROVE FALSE
  OBVIOUS
<1>1. PICK n \in T : \A m \in T : n <= m
  BY LeastMember
<1>2. n \in Nat /\ n # 0
  OBVIOUS
<1>3. n - 1 \in Nat /\ n - 1 \in S
  BY <1>1, <1>2
<1>4. n \in S
  BY <1>2, <1>3
<1> QED  BY <1>4

\* The same for the numbers from 1 to n.
LEMMA InductionUpTo ==
  ASSUME NEW n \in Nat, NEW S, 1 \in S, \A i \in 1 .. n : i \in S /\ i + 1 <= n => i + 1 \in S
  PROVE  \A i \in 1 .. n : i \in S
<1> DEFINE T == {i \in Nat : i + 1 <= n => i + 1 \in S}
<1>1. 0 \in T
  OBVIOUS
<1>2. \A i \in Nat : i \in T => i + 1 \in T
  OBVIOUS
<1> HIDE DEF T
<1>3. \A i \in Nat : i \in T
  BY <1>1, <1>2, Induction
<1>4. ASSUME NEW i \in 1 .. n
      PROVE  i \in S
  <2>1. i - 1 \in Nat /\ i - 1 \in T /\ (i - 1) + 1 = i
    BY <1>3
  <2> QED  BY <2>1 DEF T
<1> QED  BY <1>4

\* What is done n times over, and that this is a function.
Repeats(w, n, S, x, F) == w \in [0 .. n -> S] /\ w[0] = x /\ \A i \in 1 .. n : w[i] = F[w[i - 1]]

\* It can be done any number of times: by induction on how often.
LEMMA Iterated ==
  ASSUME NEW S, NEW x \in S, NEW F \in [S -> S], NEW n \in Nat
  PROVE  \E w : Repeats(w, n, S, x, F)
<1> DEFINE Is(m, w) == Repeats(w, m, S, x, F)
           T == {m \in Nat : \E w : Is(m, w)}
<1>1. 0 \in T
  <2> DEFINE w == [i \in 0 .. 0 |-> x]
  <2>1. Is(0, w)
    BY DEF Repeats
  <2> HIDE DEF Is, w
  <2> QED  BY <2>1
<1>2. ASSUME NEW m \in Nat, m \in T
      PROVE  m + 1 \in T
  <2>1. PICK w : Is(m, w)
    BY <1>2
  <2> DEFINE v == [i \in 0 .. m + 1 |-> IF i = m + 1 THEN F[w[m]] ELSE w[i]]
  <2>2. w[m] \in S /\ v \in [0 .. m + 1 -> S]
    BY <2>1 DEF Repeats
  <2>3. v[0] = x
    BY <2>1 DEF Repeats
  <2>4. ASSUME NEW i \in 1 .. m + 1
        PROVE  v[i] = F[v[i - 1]]
    <3>1. CASE i = m + 1
      <4>1. v[i] = F[w[m]] /\ v[i - 1] = w[m]
        BY <3>1
      <4> QED  BY <4>1
    <3>2. CASE i # m + 1
      <4>1. i \in 1 .. m /\ i - 1 \in 0 .. m + 1 /\ i - 1 # m + 1 /\ i \in 0 .. m + 1
        BY <3>2
      <4>2. v[i] = w[i] /\ v[i - 1] = w[i - 1]
        BY <3>2, <4>1
      <4>3. w[i] = F[w[i - 1]]
        BY <2>1, <4>1 DEF Repeats
      <4> QED  BY <4>2, <4>3
    <3> QED  BY <3>1, <3>2
  <2>5. Is(m + 1, v)
    BY <2>2, <2>3, <2>4 DEF Repeats
  <2> HIDE DEF Is, v
  <2> QED  BY <2>5
<1> HIDE DEF T
<1>3. n \in T
  BY <1>1, <1>2, Induction
<1> QED  BY <1>3 DEF T

\* Where a sequence of numbers grows at each place, it grows from any to any later.
LEMMA Growing ==
  ASSUME NEW n \in Nat, NEW o, \A i \in 1 .. n + 1 : o[i] \in Int, \A i \in 1 .. n : o[i] < o[i + 1],
         NEW i \in 1 .. n + 1, NEW j \in 1 .. n + 1, i < j
  PROVE  o[i] < o[j]
<1> DEFINE T == {d \in Nat : i + 1 + d <= n + 1 => o[i] < o[i + 1 + d]}
<1>1. 0 \in T
  OBVIOUS
<1>2. ASSUME NEW d \in Nat, d \in T
      PROVE  d + 1 \in T
  <2>1. CASE i + 1 + (d + 1) <= n + 1
    <3>1. o[i] < o[i + 1 + d] /\ i + 1 + d \in 1 .. n /\ (i + 1 + d) + 1 = i + 1 + (d + 1)
      BY <1>2, <2>1
    <3> DEFINE p == i + 1 + d
    <3>2. p + 1 \in 1 .. n + 1 /\ p \in 1 .. n + 1
      BY <3>1
    <3>3. o[p] < o[p + 1] /\ o[p] \in Int /\ o[p + 1] \in Int /\ o[i] \in Int
      BY <3>1, <3>2
    <3>4. o[i] < o[p]
      BY <3>1
    <3> HIDE DEF p
    <3>5. o[i] < o[p + 1]
      BY <3>3, <3>4
    <3>6. p + 1 = i + 1 + (d + 1)
      BY DEF p
    <3> QED  BY <3>5, <3>6
  <2> QED  BY <2>1
<1> HIDE DEF T
<1>3. \A d \in Nat : d \in T
  BY <1>1, <1>2, Induction
<1>4. (j - i) - 1 \in T
  BY <1>3
<1>5. i + 1 + ((j - i) - 1) = j
  OBVIOUS
<1> QED  BY <1>4, <1>5 DEF T

\* A set of numbers up to n that has with each the one before is all below some.
LEMMA FirstOnes ==
  ASSUME NEW n \in Nat, NEW S, S \subseteq 0 .. n, \A i \in S : i = 0 \/ i - 1 \in S
  PROVE  /\ Cardinality(S) \in 0 .. n + 1
         /\ \A i \in Nat : i < Cardinality(S) <=> i \in S
<1> DEFINE T == {i \in Nat : i \notin S}
<1>1. n + 1 \in T
  OBVIOUS
<1>2. PICK m \in T : \A i \in T : m <= i
  BY <1>1, LeastMember
<1>3. m \in 0 .. n + 1
  BY <1>1, <1>2
<1>4. ASSUME NEW i \in Nat, i < m
      PROVE  i \in S
  BY <1>2, <1>4
<1>5. ASSUME NEW i \in S
      PROVE  i < m
  <2> DEFINE U == {d \in Nat : m + d \notin S}
  <2>1. 0 \in U
    OBVIOUS
  <2>2. \A d \in Nat : d \in U => d + 1 \in U
    OBVIOUS
  <2> HIDE DEF U
  <2>3. \A d \in Nat : d \in U
    BY <2>1, <2>2, Induction
  <2>4. i \in Nat
    OBVIOUS
  <2>5. SUFFICES ASSUME i >= m PROVE FALSE
    BY <2>4
  <2>6. i - m \in U /\ m + (i - m) = i
    BY <2>3, <2>4, <2>5
  <2> QED  BY <2>6 DEF U
<1>6. S = 0 .. m - 1
  <2>1. ASSUME NEW i \in S
        PROVE  i \in 0 .. m - 1
    <3>1. i \in Nat /\ m \in Nat /\ i < m
      BY <1>3, <1>5
    <3> HIDE DEF T
    <3> QED  BY <3>1
  <2>2. ASSUME NEW i \in 0 .. m - 1
        PROVE  i \in S
    <3>1. i \in Nat /\ i < m
      BY <1>3
    <3> QED  BY <1>4, <3>1
  <2> QED  BY <2>1, <2>2
<1>7. Cardinality(S) = m
  BY <1>3, <1>6, FS_Interval
<1> QED  BY <1>3, <1>6, <1>7

-----------------------------------------------------------------------------
(* Walks. *)

\* Things with a header by their offsets, as a walk needs them.
Sound(placed) ==
  /\ IsFiniteSet(DOMAIN placed)
  /\ \A off \in DOMAIN placed : placed[off].len \in Nat

\* The steps a walk is followed for, and what it may be at.
Steps(placed) == Cardinality(DOMAIN placed) + 1

\* The places a walk may be at.
Places(placed) == {Place(placed, off, left) : off \in Int, left \in Int}

\* Where the walk is after each step, and the ones at which it sees something.
Walks(w, placed, start, length, walker) ==
  /\ w \in [0 .. Steps(placed) -> Places(placed)]
  /\ w[0] = Place(placed, start, length)
  /\ \A i \in 1 .. Steps(placed) : w[i] = WalkStep(placed, walker, w[i - 1])

\* The steps of a walk at which it sees something.
Sees(w, n, walker) == {i \in 0 .. n : GoesOn(walker, w[i]) /\ (i = 0 \/ w[i] # w[i - 1])}

\* A walk over finitely many things takes a number of steps.
LEMMA StepsNat == ASSUME NEW placed, Sound(placed) PROVE Steps(placed) \in Nat \ {0}
<1>1. Cardinality(DOMAIN placed) \in Nat
  BY FS_CardinalityType DEF Sound
<1> QED  BY <1>1 DEF Steps

\* What a walk has where it is.
LEMMA PlaceIs ==
  ASSUME NEW placed, NEW s \in Places(placed)
  PROVE  s.off \in Int /\ s.left \in Int /\ s.item = At(placed, s.off) /\ s = Place(placed, s.off, s.left)
<1>1. PICK off \in Int, left \in Int : s = Place(placed, off, left)
  BY DEF Places
<1> QED  BY <1>1 DEF Place

\* What is at a place has a length, if only that of a header that was never written.
LEMMA ItemLength ==
  ASSUME NEW placed, Sound(placed), NEW off
  PROVE  At(placed, off).len \in Nat
BY DEF Sound, At, Zero

\* Aligning gives a number, no smaller and less than four larger.
LEMMA AlignProperties ==
  ASSUME NEW n \in Nat
  PROVE  Align(n) \in Nat /\ n <= Align(n) /\ Align(n) <= n + 3
BY DEF Align

\* What is left stays a number, whichever the type of the length.
LEMMA LessInt ==
  ASSUME NEW walker, NEW a \in Int, NEW b \in Int
  PROVE  Less(walker, a, b) \in Int
<1>1. SizeMod \in Nat \ {0}
  BY WireAssumption
<1>2. (a - b) % SizeMod \in Int
  BY <1>1
<1> QED  BY <1>2 DEF Less

\* A step from a place is to a place.
LEMMA StepPlace ==
  ASSUME NEW placed, Sound(placed), NEW walker, NEW s \in Places(placed)
  PROVE  WalkStep(placed, walker, s) \in Places(placed)
<1>1. s.off \in Int /\ s.left \in Int /\ s.item.len \in Nat
  BY PlaceIs, ItemLength
<1>2. PICK a \in Nat : a = Align(s.item.len)
  BY <1>1, AlignProperties
<1>3. s.off + a \in Int /\ Less(walker, s.left, a) \in Int
  BY <1>1, LessInt
<1>4. Place(placed, s.off + a, Less(walker, s.left, a)) \in Places(placed)
  BY <1>3 DEF Places
<1> QED  BY <1>2, <1>4 DEF WalkStep

\* What a walk w returns.
Returned(W, w, placed, walker) ==
  W = [seen |-> [i \in 1 .. Cardinality(Sees(w, Steps(placed), walker)) |->
                   [off |-> w[i - 1].off, item |-> w[i - 1].item]],
       end |-> w[Steps(placed)].off, left |-> w[Steps(placed)].left]

\* What WalkFrom returns is what the walk sees, step by step.
LEMMA WalkIs ==
  ASSUME NEW placed, Sound(placed), NEW start \in Int, NEW length \in Int, NEW walker
  PROVE  \E w : /\ Walks(w, placed, start, length, walker)
               /\ Returned(WalkFrom(placed, start, length, walker), w, placed, walker)
<1> DEFINE n == Steps(placed)
           x == Place(placed, start, length)
           F == [s \in Places(placed) |-> WalkStep(placed, walker, s)]
           R(f) == f = [i \in 0 .. n |-> IF i = 0 THEN x ELSE WalkStep(placed, walker, f[i - 1])]
           c == CHOOSE f : R(f)
<1>1. n \in Nat /\ x \in Places(placed) /\ F \in [Places(placed) -> Places(placed)]
  BY StepsNat, StepPlace DEF Places
<1>2. PICK w \in [0 .. n -> Places(placed)] : w[0] = x /\ \A i \in 1 .. n : w[i] = F[w[i - 1]]
  <2> HIDE DEF n, x, F
  <2>1. PICK w : Repeats(w, n, Places(placed), x, F)
    BY <1>1, Iterated
  <2> QED  BY <2>1 DEF Repeats
<1>3. ASSUME NEW i \in 1 .. n
      PROVE  w[i] = WalkStep(placed, walker, w[i - 1])
  <2>1. i - 1 \in 0 .. n
    BY <1>1
  <2>2. w[i - 1] \in Places(placed)
    BY <1>2, <2>1
  <2> QED  BY <1>2, <2>2
<1>4. R(w)
  <2>1. ASSUME NEW i \in 0 .. n
        PROVE  w[i] = IF i = 0 THEN x ELSE WalkStep(placed, walker, w[i - 1])
    <3>1. CASE i = 0
      BY <1>2, <3>1
    <3>2. CASE i # 0
      BY <1>1, <1>3, <3>2
    <3> QED  BY <3>1, <3>2
  <2> HIDE DEF n, x
  <2>2. DOMAIN w = 0 .. n /\ w = [i \in DOMAIN w |-> w[i]]
    BY <1>2
  <2> QED  BY <2>1, <2>2
<1>5. R(c)
  <2> HIDE DEF R
  <2> QED  BY <1>4, Zenon
<1>6. Returned(WalkFrom(placed, start, length, walker), c, placed, walker)
  BY DEF WalkFrom, Sees, Steps, Returned
<1> HIDE DEF c, x, F
<1>7. c[0] = x /\ \A i \in 1 .. n : c[i] = WalkStep(placed, walker, c[i - 1])
  <2> HIDE DEF n
  <2>1. \A i \in 0 .. n : c[i] = IF i = 0 THEN x ELSE WalkStep(placed, walker, c[i - 1])
    BY <1>5, Zenon
  <2> QED  BY <1>1, <2>1
<1>8. c \in [0 .. n -> Places(placed)]
  <2> HIDE DEF n
  <2> DEFINE T == {i \in Nat : i <= n => c[i] \in Places(placed)}
  <2>1. 0 \in T
    BY <1>1, <1>7
  <2>2. ASSUME NEW i \in Nat, i \in T
        PROVE  i + 1 \in T
    <3>1. CASE i + 1 <= n
      <4>1. c[i] \in Places(placed) /\ i + 1 \in 1 .. n /\ (i + 1) - 1 = i
        BY <1>1, <2>2, <3>1
      <4>2. c[i + 1] = WalkStep(placed, walker, c[i])
        BY <1>7, <4>1
      <4>3. c[i + 1] \in Places(placed)
        BY <4>1, <4>2, StepPlace
      <4> QED  BY <4>3
    <3> QED  BY <3>1
  <2> HIDE DEF T
  <2>3. \A i \in Nat : i \in T
    BY <2>1, <2>2, Induction
  <2>4. \A i \in 0 .. n : c[i] \in Places(placed)
    BY <1>1, <2>3 DEF T
  <2>5. c = [i \in 0 .. n |-> c[i]]
    BY <1>5, Zenon
  <2> QED  BY <2>4, <2>5
<1>9. Walks(c, placed, start, length, walker)
  BY <1>7, <1>8 DEF Walks, x
<1> QED  BY <1>6, <1>9

\* A walk sees from its beginning on, and nothing any more once it stays.
LEMMA SeesFirst ==
  ASSUME NEW placed, Sound(placed), NEW start \in Int, NEW length \in Int, NEW walker,
         NEW w, Walks(w, placed, start, length, walker)
  PROVE  LET S == Sees(w, Steps(placed), walker)
         IN  /\ Cardinality(S) \in 0 .. Steps(placed) + 1
             /\ \A i \in Nat : i < Cardinality(S) <=> i \in S
<1> DEFINE n == Steps(placed)
           S == Sees(w, n, walker)
<1>1. n \in Nat /\ n > 0
  BY StepsNat
<1>2. S \subseteq 0 .. n
  BY DEF Sees
<1>3. ASSUME NEW i \in S, i # 0
      PROVE  i - 1 \in S
  <2>1. i \in 1 .. n /\ i - 1 \in 0 .. n /\ w[i] # w[i - 1]
    BY <1>1, <1>3 DEF Sees
  <2>2. w[i] = WalkStep(placed, walker, w[i - 1])
    BY <2>1 DEF Walks
  <2>3. GoesOn(walker, w[i - 1])
    BY <2>1, <2>2 DEF WalkStep
  <2>4. ASSUME i - 1 # 0, w[i - 1] = w[(i - 1) - 1]
        PROVE  FALSE
    <3>1. i - 1 \in 1 .. n
      BY <2>1, <2>4
    <3>2. w[i - 1] = WalkStep(placed, walker, w[(i - 1) - 1])
      BY <3>1 DEF Walks
    <3>3. w[i] = w[i - 1]
      BY <2>2, <2>4, <3>2
    <3> QED  BY <2>1, <3>3
  <2> QED  BY <2>1, <2>3, <2>4 DEF Sees
<1> HIDE DEF S, n
<1>4. Cardinality(S) \in 0 .. n + 1 /\ \A i \in Nat : i < Cardinality(S) <=> i \in S
  BY <1>1, <1>2, <1>3, FirstOnes
<1> QED  BY <1>4 DEF S, n

\* Whatever a walk sees is where it says, and in order there.
LEMMA SeenAreThere ==
  ASSUME NEW placed, Sound(placed), NEW start \in Int, NEW length \in Int, NEW walker
  PROVE  LET W == WalkFrom(placed, start, length, walker)
         IN  /\ Len(W.seen) \in Nat /\ DOMAIN W.seen = 1 .. Len(W.seen)
             /\ \A i \in DOMAIN W.seen :
                  /\ W.seen[i].off \in Int
                  /\ W.seen[i].item = At(placed, W.seen[i].off)
                  /\ \E left \in Int : InOrder(walker, W.seen[i].item, left)
<1>1. PICK w : /\ Walks(w, placed, start, length, walker)
               /\ Returned(WalkFrom(placed, start, length, walker), w, placed, walker)
  BY WalkIs
<1> DEFINE n == Steps(placed)
           S == Sees(w, n, walker)
           m == Cardinality(S)
           seen == WalkFrom(placed, start, length, walker).seen
<1>2. m \in 0 .. n + 1 /\ (\A i \in Nat : i < m <=> i \in S) /\ n \in Nat
  BY <1>1, SeesFirst, StepsNat
<1>3. seen = [i \in 1 .. m |-> [off |-> w[i - 1].off, item |-> w[i - 1].item]]
  BY <1>1 DEF Returned
<1> HIDE DEF seen, m, n
<1>4. m \in Nat /\ DOMAIN seen = 1 .. m /\ Len(seen) = m
  BY <1>2, <1>3
<1>5. ASSUME NEW i \in DOMAIN seen
      PROVE  /\ seen[i].off \in Int
             /\ seen[i].item = At(placed, seen[i].off)
             /\ \E left \in Int : InOrder(walker, seen[i].item, left)
  <2>1. i - 1 \in Nat /\ i - 1 \in S /\ seen[i].off = w[i - 1].off /\ seen[i].item = w[i - 1].item
    BY <1>2, <1>3, <1>4
  <2>2. w[i - 1] \in Places(placed) /\ GoesOn(walker, w[i - 1])
    BY <1>1, <2>1 DEF Sees, Walks, n
  <2>3. /\ w[i - 1].off \in Int /\ w[i - 1].left \in Int
        /\ w[i - 1].item = At(placed, w[i - 1].off)
    BY <2>2, PlaceIs
  <2>4. InOrder(walker, w[i - 1].item, w[i - 1].left)
    BY <2>2 DEF GoesOn
  <2> QED  BY <2>1, <2>3, <2>4
<1> QED  BY <1>4, <1>5 DEF seen

\* A walk whose rest is signed knows how much is behind it: what it sees is whole.
LEMMA SignedSeesWhole ==
  ASSUME NEW placed, Sound(placed), NEW start \in Int, NEW length \in Int, NEW walker,
         walker.unsigned = FALSE, walker.tests = 0
  PROVE  LET W == WalkFrom(placed, start, length, walker)
         IN  \A i \in DOMAIN W.seen : W.seen[i].off + W.seen[i].item.len <= start + length
<1>1. PICK w : /\ Walks(w, placed, start, length, walker)
               /\ Returned(WalkFrom(placed, start, length, walker), w, placed, walker)
  BY WalkIs
<1> DEFINE n == Steps(placed)
           S == Sees(w, n, walker)
           m == Cardinality(S)
           seen == WalkFrom(placed, start, length, walker).seen
           T == {i \in Nat : i <= n => w[i].off + w[i].left = start + length}
<1>2. m \in 0 .. n + 1 /\ (\A i \in Nat : i < m <=> i \in S) /\ n \in Nat
  BY <1>1, SeesFirst, StepsNat
<1>3. seen = [i \in 1 .. m |-> [off |-> w[i - 1].off, item |-> w[i - 1].item]]
  BY <1>1 DEF Returned
<1> HIDE DEF seen, m, n
<1>4. 0 \in T
  BY <1>1 DEF Walks, Place
<1>5. ASSUME NEW i \in Nat, i \in T
      PROVE  i + 1 \in T
  <2>1. CASE i + 1 <= n
    <3>1. i \in 0 .. n /\ i + 1 \in 1 .. n /\ (i + 1) - 1 = i
      BY <1>2, <2>1
    <3>2. w[i + 1] = WalkStep(placed, walker, w[i]) /\ w[i] \in Places(placed)
      BY <1>1, <3>1 DEF Walks, n
    <3>3. w[i].off \in Int /\ w[i].left \in Int /\ w[i].item.len \in Nat
      BY <3>2, PlaceIs, ItemLength
    <3>4. PICK a \in Nat : a = Align(w[i].item.len)
      BY <3>3, AlignProperties
    <3>5. Less(walker, w[i].left, a) = w[i].left - a
      BY DEF Less
    <3>6. \/ w[i + 1] = w[i]
          \/ w[i + 1].off = w[i].off + a /\ w[i + 1].left = w[i].left - a
      BY <3>2, <3>4, <3>5 DEF WalkStep, Place
    <3>7. w[i].off + w[i].left = start + length
      BY <1>5, <3>1, <1>2
    <3>8. w[i + 1].off + w[i + 1].left = start + length
      BY <3>3, <3>6, <3>7
    <3> QED  BY <3>8
  <2> QED  BY <2>1
<1> HIDE DEF T
<1>6. \A i \in Nat : i \in T
  BY <1>4, <1>5, Induction
<1>7. ASSUME NEW i \in DOMAIN seen
      PROVE  seen[i].off + seen[i].item.len <= start + length
  <2>1. i - 1 \in Nat /\ i - 1 \in S /\ seen[i].off = w[i - 1].off /\ seen[i].item = w[i - 1].item
    BY <1>2, <1>3
  <2>2. w[i - 1] \in Places(placed) /\ GoesOn(walker, w[i - 1]) /\ i - 1 <= n
    BY <1>1, <1>2, <2>1 DEF Sees, Walks, n
  <2>3. w[i - 1].off \in Int /\ w[i - 1].left \in Int /\ w[i - 1].item.len \in Nat
    BY <2>2, PlaceIs, ItemLength
  <2>4. w[i - 1].item.len <= w[i - 1].left
    BY <2>2 DEF GoesOn, InOrder
  <2>5. w[i - 1].off + w[i - 1].left = start + length
    BY <1>6, <2>1, <2>2 DEF T
  <2> QED  BY <2>1, <2>3, <2>4, <2>5
<1> QED  BY <1>7 DEF seen

\* The places c of a walk, one step after the other, up to the one it stays at.
Leads(c, J, placed, start, length, walker) ==
  /\ J \in Nat \ {0} /\ c[1] = Place(placed, start, length)
  /\ \A j \in 1 .. J : c[j] \in Places(placed)
  /\ \A j \in 1 .. J : j < J => /\ GoesOn(walker, c[j]) /\ c[j + 1] # c[j]
                                /\ WalkStep(placed, walker, c[j]) = c[j + 1]
  /\ WalkStep(placed, walker, c[J]) = c[J]

\* A walk that is led somewhere in the steps it is followed for ends there, and
\* has seen what is on the way.
LEMMA WalkTo ==
  ASSUME NEW placed, Sound(placed), NEW start \in Int, NEW length \in Int, NEW walker,
         NEW c, NEW J, Leads(c, J, placed, start, length, walker), J <= Steps(placed) + 1
  PROVE  LET W == WalkFrom(placed, start, length, walker)
             m == IF GoesOn(walker, c[J]) THEN J ELSE J - 1
         IN  /\ W.seen = [i \in 1 .. m |-> [off |-> c[i].off, item |-> c[i].item]]
             /\ W.end = c[J].off /\ W.left = c[J].left
<1>1. PICK w : /\ Walks(w, placed, start, length, walker)
               /\ Returned(WalkFrom(placed, start, length, walker), w, placed, walker)
  BY WalkIs
<1> DEFINE n == Steps(placed)
           S == Sees(w, n, walker)
           At_(i) == IF i < J THEN c[i + 1] ELSE c[J]
           m == IF GoesOn(walker, c[J]) THEN J ELSE J - 1
           T == {i \in Nat : i <= n => w[i] = At_(i)}
<1>2. n \in Nat \ {0} /\ J \in Nat \ {0} /\ J <= n + 1
  BY StepsNat DEF Leads
<1>3. 0 \in T
  BY <1>1, <1>2 DEF Walks, Leads
<1>4. ASSUME NEW i \in Nat, i \in T
      PROVE  i + 1 \in T
  <2> SUFFICES ASSUME i + 1 <= n PROVE w[i + 1] = At_(i + 1)
    OBVIOUS
  <2>1. i + 1 \in 1 .. n /\ (i + 1) - 1 = i /\ w[i] = At_(i)
    BY <1>2, <1>4
  <2>2. w[i + 1] = WalkStep(placed, walker, At_(i))
    BY <1>1, <2>1 DEF Walks
  <2>3. CASE i + 1 < J
    <3>1. i < J /\ i + 1 \in 1 .. J /\ At_(i) = c[i + 1] /\ At_(i + 1) = c[(i + 1) + 1]
      BY <1>2, <2>3
    <3>2. WalkStep(placed, walker, c[i + 1]) = c[(i + 1) + 1]
      BY <2>3, <3>1 DEF Leads
    <3> QED  BY <2>2, <3>1, <3>2
  <2>4. CASE i + 1 >= J
    <3>1. At_(i) = c[J] /\ At_(i + 1) = c[J]
      <4>1. CASE i + 1 = J
        BY <4>1, <1>2
      <4>2. CASE i + 1 # J
        BY <4>2, <2>4, <1>2
      <4> QED  BY <4>1, <4>2
    <3>2. WalkStep(placed, walker, c[J]) = c[J]
      BY DEF Leads
    <3> QED  BY <2>2, <3>1, <3>2
  <2> QED  BY <1>2, <2>3, <2>4
<1> HIDE DEF T
<1>5. \A i \in Nat : i \in T
  BY <1>3, <1>4, Induction
<1>6. \A i \in 0 .. n : w[i] = At_(i)
  BY <1>5, <1>2 DEF T
<1>7. Cardinality(S) \in 0 .. n + 1 /\ (\A i \in Nat : i < Cardinality(S) <=> i \in S)
  BY <1>1, SeesFirst
<1> HIDE DEF n, At_
<1>8. m \in Nat
  BY <1>2
<1>9. ASSUME NEW i \in Nat
      PROVE  i \in S <=> i < m
  <2>1. CASE i + 1 < J
    <3>1. i \in 0 .. n /\ i + 1 \in 1 .. J /\ w[i] = c[i + 1]
      BY <1>2, <1>6, <2>1 DEF At_
    <3>2. GoesOn(walker, w[i])
      BY <2>1, <3>1 DEF Leads
    <3>3. i # 0 => w[i] # w[i - 1]
      <4>1. SUFFICES ASSUME i # 0 PROVE w[i] # w[i - 1]
        OBVIOUS
      <4>2. i - 1 \in 0 .. n /\ i - 1 < J /\ (i - 1) + 1 = i
        BY <2>1, <3>1, <4>1, <1>2
      <4>3. w[i - 1] = c[i]
        BY <1>6, <4>2 DEF At_
      <4>4. i \in 1 .. J /\ i < J
        BY <2>1, <4>1, <1>2
      <4>5. c[i + 1] # c[i]
        BY <4>4 DEF Leads
      <4> QED  BY <3>1, <4>3, <4>5
    <3>4. i \in S
      BY <3>1, <3>2, <3>3 DEF Sees
    <3>5. i < m
      BY <1>2, <2>1
    <3> QED  BY <3>4, <3>5
  <2>2. CASE i + 1 = J
    <3>1. i \in 0 .. n /\ w[i] = c[J]
      BY <1>2, <1>6, <2>2 DEF At_
    <3>2. i # 0 => w[i] # w[i - 1]
      <4>1. SUFFICES ASSUME i # 0 PROVE w[i] # w[i - 1]
        OBVIOUS
      <4>2. i - 1 \in 0 .. n /\ i - 1 < J /\ (i - 1) + 1 = i
        BY <2>2, <3>1, <4>1, <1>2
      <4>3. w[i - 1] = c[i]
        BY <1>6, <4>2 DEF At_
      <4>4. i \in 1 .. J /\ i < J
        BY <2>2, <4>1, <1>2
      <4>5. c[i + 1] # c[i]
        BY <4>4 DEF Leads
      <4> QED  BY <2>2, <3>1, <4>3, <4>5
    <3>3. i \in S <=> GoesOn(walker, c[J])
      BY <3>1, <3>2 DEF Sees
    <3>4. i < m <=> GoesOn(walker, c[J])
      BY <2>2, <1>2
    <3> QED  BY <3>3, <3>4
  <2>3. CASE i + 1 > J
    <3>1. ~(i < m)
      BY <2>3, <1>2
    <3>2. ASSUME i \in S
          PROVE  FALSE
      <4>1. i \in 0 .. n /\ i # 0 /\ i - 1 \in 0 .. n
        BY <2>3, <3>2, <1>2 DEF Sees
      <4>2. w[i] = c[J]
        BY <1>2, <1>6, <2>3, <4>1 DEF At_
      <4>3. w[i - 1] = c[J]
        <5>1. CASE i = J
          <6>1. i - 1 < J /\ (i - 1) + 1 = J
            BY <5>1, <1>2
          <6> QED  BY <4>1, <6>1, <1>6 DEF At_
        <5>2. CASE i # J
          <6>1. ~(i - 1 < J)
            BY <5>2, <2>3, <1>2
          <6> QED  BY <4>1, <6>1, <1>6 DEF At_
        <5> QED  BY <5>1, <5>2
      <4>4. w[i] # w[i - 1]
        BY <3>2, <4>1 DEF Sees
      <4> QED  BY <4>2, <4>3, <4>4
    <3> QED  BY <3>1, <3>2
  <2> QED  BY <1>2, <2>1, <2>2, <2>3
<1> HIDE DEF S, m
<1>10. Cardinality(S) = m
  <2>1. PICK k \in Nat : k = Cardinality(S)
    BY <1>7, <1>2
  <2>2. \A i \in Nat : i < k <=> i < m
    BY <1>7, <1>9, <2>1
  <2>3. ~(k < m) /\ ~(m < k)
    BY <2>2, <1>8
  <2>4. k = m
    BY <2>1, <2>3, <1>8
  <2> QED  BY <2>1, <2>4
<1>11. m <= J /\ m <= n + 1
  BY <1>2 DEF m
<1>12. ASSUME NEW i \in 1 .. m
       PROVE  w[i - 1] = c[i]
  <2>1. i - 1 \in 0 .. n /\ i - 1 < J /\ (i - 1) + 1 = i
    BY <1>2, <1>8, <1>11
  <2> QED  BY <1>6, <2>1 DEF At_
<1>13. w[n] = c[J]
  <2>1. n \in 0 .. n
    BY <1>2
  <2>2. CASE n < J
    <3>1. n + 1 = J
      BY <2>2, <1>2
    <3> QED  BY <2>1, <3>1, <1>6, <2>2 DEF At_
  <2>3. CASE ~(n < J)
    BY <2>1, <1>6, <2>3 DEF At_
  <2> QED  BY <2>2, <2>3
<1>14. [i \in 1 .. m |-> [off |-> w[i - 1].off, item |-> w[i - 1].item]]
         = [i \in 1 .. m |-> [off |-> c[i].off, item |-> c[i].item]]
  BY <1>12
<1>15. /\ WalkFrom(placed, start, length, walker).seen = [i \in 1 .. m |-> [off |-> c[i].off, item |-> c[i].item]]
       /\ WalkFrom(placed, start, length, walker).end = c[J].off
       /\ WalkFrom(placed, start, length, walker).left = c[J].left
  BY <1>1, <1>10, <1>13, <1>14 DEF S, n, Returned
<1> QED  BY <1>15 DEF m

\* k things that lie one behind the other at the offsets o, each with a header
\* and within the length, and behind them nothing in order or one to stop at.
Along(placed, o, k, length, walker) ==
  /\ k \in Nat /\ walker.tests = 0 /\ walker.header \in Nat \ {0}
  /\ \A i \in 1 .. k + 1 : o[i] \in Int
  /\ \A i \in 1 .. k : /\ o[i] \in DOMAIN placed /\ o[i + 1] = o[i] + Align(placed[o[i]].len)
                       /\ placed[o[i]].len >= walker.header
                       /\ o[i] + placed[o[i]].len <= o[1] + length
                       /\ placed[o[i]].type \notin walker.stops
  /\ walker.unsigned => length < SizeMod /\ \A i \in 1 .. k + 1 : o[i] <= o[1] + length
  /\ \/ (o[1] + length) - o[k + 1] < walker.header
     \/ At(placed, o[k + 1]).type \in walker.stops

\* Different places of things are no more than there are things.
LEMMA AtMostPlaced ==
  ASSUME NEW placed, Sound(placed), NEW k \in Nat, NEW o,
         \A i \in 1 .. k : o[i] \in DOMAIN placed,
         \A i \in 1 .. k : \A j \in 1 .. k : i < j => o[i] < o[j],
         \A i \in 1 .. k : o[i] \in Int
  PROVE  k <= Cardinality(DOMAIN placed)
<1> DEFINE f == [i \in 1 .. k |-> o[i]]
           D == DOMAIN placed
<1>1. f \in Injection(1 .. k, D)
  <2>1. f \in [1 .. k -> D]
    OBVIOUS
  <2>2. ASSUME NEW i \in 1 .. k, NEW j \in 1 .. k, f[i] = f[j]
        PROVE  i = j
    <3>1. o[i] = o[j]
      BY <2>2
    <3>2. ~(i < j) /\ ~(j < i)
      BY <3>1
    <3> QED  BY <3>2
  <2> HIDE DEF f, D
  <2> QED  BY <2>1, <2>2 DEF Injection, IsInjective
<1>2. IsFiniteSet(D)
  BY DEF Sound
<1>3. Cardinality(1 .. k) = k
  BY FS_Interval
<1> HIDE DEF f, D
<1>4. Cardinality(1 .. k) <= Cardinality(D)
  BY <1>1, <1>2, FS_Injection
<1> QED  BY <1>3, <1>4 DEF D

\* What is left of an unsigned length that is long enough is what one thinks.
LEMMA LessIs ==
  ASSUME NEW walker, NEW a \in Int, NEW b \in Int,
         walker.unsigned => 0 <= a - b /\ a - b < SizeMod
  PROVE  Less(walker, a, b) = a - b
<1>1. SizeMod \in Nat \ {0}
  BY WireAssumption
<1>2. CASE walker.unsigned
  <2>1. PICK d \in Int : d = a - b
    OBVIOUS
  <2>2. 0 <= d /\ d < SizeMod
    BY <1>2, <2>1
  <2>3. d % SizeMod = d
    BY <1>1, <2>2
  <2> QED  BY <1>2, <2>1, <2>3 DEF Less
<1>3. CASE ~walker.unsigned
  BY <1>3 DEF Less
<1> QED  BY <1>2, <1>3

\* A walk along such things comes to each of them, and ends behind the last.
WentAlong(W, placed, o, k, length, walker) ==
  LET rest == (o[1] + length) - o[k + 1]
      m == IF GoesOn(walker, Place(placed, o[k + 1], rest)) THEN k + 1 ELSE k
  IN  /\ W.seen = [i \in 1 .. m |-> [off |-> o[i], item |-> At(placed, o[i])]]
      /\ W.end = o[k + 1] /\ W.left = rest

\* A walk goes along things that lie one behind the other: by induction on how many.
LEMMA WalkAlong ==
  ASSUME NEW placed, Sound(placed), NEW length \in Int, NEW walker, NEW o, NEW k,
         Along(placed, o, k, length, walker)
  PROVE  WentAlong(WalkFrom(placed, o[1], length, walker), placed, o, k, length, walker)
<1> DEFINE Rest(i) == (o[1] + length) - o[i]
           C(i) == Place(placed, o[i], Rest(i))
           c == [i \in 1 .. k + 1 |-> C(i)]
<1>1. k \in Nat /\ k + 1 \in Nat \ {0} /\ \A i \in 1 .. k + 1 : o[i] \in Int /\ Rest(i) \in Int
  BY DEF Along
<1>2. \A i \in 1 .. k + 1 : c[i] \in Places(placed)
  BY <1>1 DEF Places
<1>3. ASSUME NEW i \in 1 .. k
      PROVE  /\ o[i] < o[i + 1] /\ GoesOn(walker, C(i)) /\ C(i + 1) # C(i)
             /\ WalkStep(placed, walker, C(i)) = C(i + 1)
  <2>1. i \in 1 .. k + 1 /\ i + 1 \in 1 .. k + 1
    BY <1>1
  <2>2. /\ o[i] \in DOMAIN placed /\ At(placed, o[i]) = placed[o[i]] /\ placed[o[i]].len \in Nat
        /\ o[i + 1] = o[i] + Align(placed[o[i]].len)
        /\ placed[o[i]].len >= walker.header /\ o[i] + placed[o[i]].len <= o[1] + length
        /\ placed[o[i]].type \notin walker.stops
        /\ walker.tests = 0 /\ walker.header \in Nat \ {0}
    BY DEF Along, At, Sound
  <2>3. PICK len \in Nat : len = placed[o[i]].len
    BY <2>2
  <2>4. PICK a \in Nat : a = Align(len) /\ len <= a
    BY AlignProperties
  <2>5. PICK x \in Int : x = o[i]
    BY <1>1, <2>1
  <2>6. PICK y \in Int : y = o[i + 1]
    BY <1>1, <2>1
  <2>7. PICK e \in Int : e = o[1] + length
    BY <1>1
  <2>8. y = x + a /\ len >= walker.header /\ x + len <= e
    BY <2>2, <2>3, <2>4, <2>5, <2>6, <2>7
  <2>9. C(i).item = placed[o[i]] /\ C(i).left = e - x /\ C(i).off = x
    BY <2>2, <2>5, <2>7 DEF Place
  <2>10. C(i + 1).off = y /\ C(i + 1).left = e - y /\ C(i + 1) = Place(placed, y, e - y)
    BY <2>6, <2>7 DEF Place
  <2> HIDE DEF C
  <2>11. GoesOn(walker, C(i))
    BY <2>2, <2>3, <2>8, <2>9 DEF GoesOn, InOrder
  <2>12. Less(walker, e - x, a) = e - y
    <3>1. walker.unsigned => 0 <= (e - x) - a /\ (e - x) - a < SizeMod
      <4>1. SUFFICES ASSUME walker.unsigned PROVE 0 <= (e - x) - a /\ (e - x) - a < SizeMod
        OBVIOUS
      <4>2. length < SizeMod /\ o[i + 1] <= o[1] + length
        BY <2>1, <4>1 DEF Along
      <4>3. o[1] <= o[i]
        <5>1. \A j \in 1 .. k : o[j] < o[j + 1]
          <6>1. ASSUME NEW j \in 1 .. k
                PROVE  o[j] < o[j + 1]
            <7>1. /\ o[j] \in Int /\ placed[o[j]].len \in Nat /\ placed[o[j]].len >= 1
                  /\ o[j + 1] = o[j] + Align(placed[o[j]].len)
              <8>1. j \in 1 .. k + 1
                BY <1>1
              <8> QED  BY <1>1, <8>1 DEF Along, Sound
            <7>2. Align(placed[o[j]].len) \in Nat /\ placed[o[j]].len <= Align(placed[o[j]].len)
              BY <7>1, AlignProperties
            <7> QED  BY <7>1, <7>2
          <6> QED  BY <6>1
        <5>2. CASE i = 1
          BY <5>2, <1>1, <2>1
        <5>3. CASE i # 1
          <6>1. 1 \in 1 .. k + 1 /\ 1 < i
            BY <5>3, <1>1
          <6>2. o[1] < o[i]
            BY <1>1, <2>1, <5>1, <6>1, Growing
          <6>3. o[1] \in Int /\ o[i] \in Int
            BY <1>1, <2>1, <6>1
          <6> QED  BY <6>2, <6>3
        <5> QED  BY <5>2, <5>3
      <4>4. PICK s \in Int : s = o[1]
        BY <1>1
      <4>5. y <= e /\ s <= x /\ e = s + length /\ SizeMod \in Nat
        BY <4>2, <4>3, <4>4, <2>5, <2>6, <2>7, WireAssumption
      <4> QED  BY <2>8, <4>2, <4>5
    <3>2. e - x \in Int
      OBVIOUS
    <3>3. Less(walker, e - x, a) = (e - x) - a
      BY <3>1, <3>2, LessIs
    <3> QED  BY <2>8, <3>3
  <2>13. WalkStep(placed, walker, C(i)) = Place(placed, x + a, Less(walker, e - x, a))
    BY <2>2, <2>3, <2>4, <2>9, <2>11 DEF WalkStep
  <2>14. WalkStep(placed, walker, C(i)) = C(i + 1)
    BY <2>8, <2>10, <2>12, <2>13
  <2>15. x < y
    BY <2>2, <2>3, <2>4, <2>8
  <2>16. C(i + 1) # C(i)
    BY <2>9, <2>10, <2>15
  <2> QED  BY <2>5, <2>6, <2>11, <2>14, <2>15, <2>16
<1>4. WalkStep(placed, walker, C(k + 1)) = C(k + 1)
  <2>1. /\ C(k + 1).left = (o[1] + length) - o[k + 1] /\ C(k + 1).item = At(placed, o[k + 1])
    BY DEF Place
  <2>2. \/ C(k + 1).left < walker.header
        \/ C(k + 1).item.type \in walker.stops
    BY <2>1 DEF Along
  <2>3. C(k + 1).left \in Int /\ walker.header \in Nat
    BY <1>1, <2>1 DEF Along
  <2> HIDE DEF C
  <2>4. CASE C(k + 1).left < walker.header
    <3>1. ~(C(k + 1).left >= walker.header)
      BY <2>3, <2>4
    <3>2. ~GoesOn(walker, C(k + 1))
      BY <3>1 DEF GoesOn, InOrder
    <3> QED  BY <3>2 DEF WalkStep
  <2>5. CASE C(k + 1).item.type \in walker.stops
    BY <2>5 DEF WalkStep
  <2> QED  BY <2>2, <2>4, <2>5
<1>5. k + 1 <= Steps(placed) + 1
  <2>1. \A i \in 1 .. k : o[i] < o[i + 1]
    BY <1>3
  <2>2. \A i \in 1 .. k : \A j \in 1 .. k : i < j => o[i] < o[j]
    <3>1. ASSUME NEW i \in 1 .. k, NEW j \in 1 .. k, i < j
          PROVE  o[i] < o[j]
      <4>1. i \in 1 .. k + 1 /\ j \in 1 .. k + 1
        BY <1>1
      <4> QED  BY <1>1, <2>1, <3>1, <4>1, Growing
    <3> QED  BY <3>1
  <2>3. \A i \in 1 .. k : o[i] \in DOMAIN placed /\ o[i] \in Int
    BY <1>1 DEF Along
  <2>4. k <= Cardinality(DOMAIN placed)
    BY <1>1, <2>2, <2>3, AtMostPlaced
  <2>5. Cardinality(DOMAIN placed) \in Nat
    BY FS_CardinalityType DEF Sound
  <2> QED  BY <1>1, <2>4, <2>5 DEF Steps
<1>6. Leads(c, k + 1, placed, o[1], length, walker)
  <2>1. c[1] = Place(placed, o[1], length)
    <3>1. c[1] = C(1) /\ o[1] \in Int
      BY <1>1
    <3>2. (o[1] + length) - o[1] = length
      BY <3>1
    <3> QED  BY <3>1, <3>2
  <2>2. ASSUME NEW j \in 1 .. k + 1, j < k + 1
        PROVE  /\ GoesOn(walker, c[j]) /\ c[j + 1] # c[j]
               /\ WalkStep(placed, walker, c[j]) = c[j + 1]
    <3>1. j \in 1 .. k /\ c[j] = C(j) /\ c[j + 1] = C(j + 1)
      BY <1>1, <2>2
    <3> HIDE DEF c, C
    <3> QED  BY <1>3, <3>1
  <2>3. c[k + 1] = C(k + 1)
    BY <1>1
  <2> HIDE DEF c, C
  <2> QED  BY <1>1, <1>2, <1>4, <2>1, <2>2, <2>3 DEF Leads
<1> DEFINE m == IF GoesOn(walker, c[k + 1]) THEN k + 1 ELSE k
<1>7. o[1] \in Int
  BY <1>1
<1>8. c[k + 1] = C(k + 1) /\ c[k + 1].off = o[k + 1] /\ c[k + 1].left = Rest(k + 1)
  BY <1>1 DEF Place
<1>9. /\ WalkFrom(placed, o[1], length, walker).seen = [i \in 1 .. m |-> [off |-> c[i].off, item |-> c[i].item]]
      /\ WalkFrom(placed, o[1], length, walker).end = c[k + 1].off
      /\ WalkFrom(placed, o[1], length, walker).left = c[k + 1].left
  <2> HIDE DEF c, C, Rest
  <2>1. (k + 1) - 1 = k
    BY <1>1
  <2> QED  BY <1>5, <1>6, <1>7, <2>1, WalkTo
<1>10. \A i \in 1 .. m : c[i].off = o[i] /\ c[i].item = At(placed, o[i])
  <2>1. \A i \in 1 .. k + 1 : c[i].off = o[i] /\ c[i].item = At(placed, o[i])
    BY DEF Place
  <2>2. 1 .. m \subseteq 1 .. k + 1
    BY <1>1
  <2> QED  BY <2>1, <2>2
<1>11. [i \in 1 .. m |-> [off |-> c[i].off, item |-> c[i].item]]
         = [i \in 1 .. m |-> [off |-> o[i], item |-> At(placed, o[i])]]
  BY <1>10
<1> QED
  <2> HIDE DEF c
  <2> QED  BY <1>8, <1>9, <1>11 DEF WentAlong

\* The places of an increasing sequence are as many as its elements.
LEMMA PlacesCounted ==
  ASSUME NEW k \in Nat, NEW o, \A i \in 1 .. k : o[i] \in Int,
         \A i \in 1 .. k : \A j \in 1 .. k : i < j => o[i] < o[j]
  PROVE  IsFiniteSet({o[i] : i \in 1 .. k}) /\ Cardinality({o[i] : i \in 1 .. k}) = k
<1> DEFINE D == {o[i] : i \in 1 .. k}
           f == [i \in 1 .. k |-> o[i]]
<1>1. f \in Bijection(1 .. k, D)
  <2>1. f \in [1 .. k -> D] /\ \A d \in D : \E i \in 1 .. k : f[i] = d
    OBVIOUS
  <2>2. ASSUME NEW i \in 1 .. k, NEW j \in 1 .. k, f[i] = f[j]
        PROVE  i = j
    <3>1. o[i] = o[j]
      BY <2>2
    <3>2. ~(i < j) /\ ~(j < i)
      BY <3>1
    <3> QED  BY <3>2
  <2> HIDE DEF f, D
  <2> QED  BY <2>1, <2>2 DEF Bijection, Injection, Surjection, IsInjective
<1>2. IsFiniteSet(1 .. k) /\ Cardinality(1 .. k) = k
  BY FS_Interval
<1> HIDE DEF f, D
<1>3. ExistsBijection(1 .. k, D)
  BY <1>1 DEF ExistsBijection
<1>4. IsFiniteSet(D) /\ Cardinality(D) = Cardinality(1 .. k)
  BY <1>2, <1>3, FS_Bijection
<1> QED  BY <1>2, <1>4 DEF D

\* Align keeps what is aligned in front.
LEMMA AlignBehind ==
  ASSUME NEW a \in Nat, a % 4 = 0, NEW n \in Nat
  PROVE  /\ Align(a + n) = a + Align(n) /\ (a + Align(n)) % 4 = 0
         /\ (n % 4 = 0 => Align(n) = n)
BY DEF Align

-----------------------------------------------------------------------------
(* Requests. *)

\* The assumptions on the constants, one by one.
LEMMA Sizes ==
  /\ RequestSize \in Nat /\ RequestSize >= 28 /\ ResponseSize \in Nat /\ SizeMod \in Nat
  /\ RequestSize + 40 < SizeMod
  /\ MaxMessage \in Nat /\ MaxMessage >= 20 /\ MaxDump \in Nat /\ MaxCalls \in Nat
<1>1. Done.len = 20
  BY DEF Done, Plain, NLMSG_LENGTH
<1>2. RequestSize \in Nat /\ ResponseSize \in Nat /\ SizeMod \in Nat
  BY WireAssumption
<1>3. MaxMessage \in Nat /\ MaxDump \in Nat /\ MaxCalls \in Nat
  BY WireAssumption
<1>4. RequestSize >= 28 /\ RequestSize + 40 < SizeMod /\ MaxMessage >= Done.len
  BY WireAssumption
<1> QED  BY <1>1, <1>2, <1>3, <1>4

\* Where the attributes of a request are: one behind the other, each with its
\* header, and all within its length.
LaidAt(r, o) ==
  /\ \A i \in 1 .. Len(r.added) + 1 : o[i] \in Nat /\ o[i] % 4 = 0
  /\ DOMAIN r.placed = {o[i] : i \in 1 .. Len(r.added)}
  /\ o[1] = Align(NLMSG_LENGTH(BodyLen(r.body))) /\ o[Len(r.added) + 1] = Align(r.len)
  /\ \A i \in 1 .. Len(r.added) :
       /\ r.placed[o[i]].len \in Nat /\ r.placed[o[i]].len >= 4
       /\ o[i + 1] = o[i] + Align(r.placed[o[i]].len) /\ o[i] + r.placed[o[i]].len <= r.len
       /\ r.added[i] = <<r.placed[o[i]].type, r.placed[o[i]].value>>
       /\ r.added[i][1] = "METRICS" => r.added[i][2] = Metrics

\* What netlink_add_attribute() keeps, one attribute at a time.
Built(r) ==
  /\ DOMAIN r = {"type", "body", "len", "placed", "added"}
  /\ r.body \in {"addr", "route", "rule", "gen"}
  /\ r.len \in Nat /\ r.len <= RequestSize
  /\ \E S : r.added \in Seq(S)
  /\ \E o : LaidAt(r, o)

\* The lengths of the bodies: all but that of a dump's request are aligned.
LEMMA BodyLength ==
  ASSUME NEW body \in {"link", "addr", "route", "rule", "gen"}
  PROVE  /\ BodyLen(body) \in 1 .. 16 /\ NLMSG_LENGTH(BodyLen(body)) = 16 + BodyLen(body)
         /\ body \in {"link", "addr", "route"} => BodyLen(body) \in {8, 12, 16}
         /\ body # "link" => BodyLen(body) <= 12
BY DEF BodyLen, NLMSG_LENGTH

\* A request without attributes is built, if there is room for the longest header.
LEMMA EmptyBuilt ==
  ASSUME NEW type, NEW body \in {"addr", "route", "rule", "gen"}
  PROVE  Built(Empty(type, body))
<1> DEFINE r == Empty(type, body)
           h == NLMSG_LENGTH(BodyLen(body))
           o == [i \in 1 .. 1 |-> Align(h)]
<1>1. BodyLen(body) \in 1 .. 12 /\ h = 16 + BodyLen(body) /\ h \in Nat
  BY BodyLength
<1>2. /\ DOMAIN r = {"type", "body", "len", "placed", "added"}
      /\ r.len = h /\ r.placed = <<>> /\ r.added = <<>> /\ r.body = body
  BY DEF Empty
<1> HIDE DEF r, h
<1>3. Align(h) \in Nat /\ Align(h) % 4 = 0
  BY <1>1 DEF Align
<1>4. Len(r.added) = 0 /\ DOMAIN r.placed = {} /\ r.added \in Seq({})
  BY <1>2
<1>5. LaidAt(r, o)
  <2>1. \A i \in 1 .. Len(r.added) + 1 : o[i] \in Nat /\ o[i] % 4 = 0
    BY <1>3, <1>4
  <2>2. 1 .. Len(r.added) = {} /\ o[1] = Align(h)
    BY <1>4
  <2> HIDE DEF o
  <2>3. DOMAIN r.placed = {o[i] : i \in 1 .. Len(r.added)}
    BY <1>4, <2>2
  <2>4. o[1] = Align(NLMSG_LENGTH(BodyLen(r.body))) /\ o[Len(r.added) + 1] = Align(r.len)
    BY <1>2, <1>4, <2>2 DEF h
  <2> QED  BY <2>1, <2>2, <2>3, <2>4 DEF LaidAt
<1>6. r.len \in Nat /\ r.len <= RequestSize
  BY <1>1, <1>2, Sizes
<1>7. \E x : LaidAt(r, x)
  BY <1>5
<1>8. \E S : r.added \in Seq(S)
  BY <1>4
<1>9. Built(r)
  BY <1>2, <1>6, <1>7, <1>8 DEF Built
<1> QED  BY <1>9 DEF r

\* The attribute that is added lies behind the ones before it, and in the buffer.
LEMMA AddBuilt ==
  ASSUME NEW r, Built(r), NEW type, NEW n \in Nat, NEW value, type = "METRICS" => value = Metrics
  PROVE  Built(netlink_add_attribute(r, type, n, value))
<1> DEFINE new == netlink_add_attribute(r, type, n, value)
           at == Align(r.len)
           k == Len(r.added)
<1>1. CASE ~Fits(r, n)
  BY <1>1 DEF netlink_add_attribute
<1>2. CASE Fits(r, n)
  <2>1. r.len \in Nat /\ at \in Nat /\ r.len <= at /\ at % 4 = 0
    BY AlignProperties DEF Built, Align
  <2>2. /\ new.placed = [off \in DOMAIN r.placed \cup {at} |->
                           IF off = at THEN Attr(type, n, value) ELSE r.placed[off]]
        /\ new.len = at + (4 + n) /\ new.added = Append(r.added, <<type, value>>)
        /\ DOMAIN new = {"type", "body", "len", "placed", "added"} /\ new.body = r.body
    BY <1>2 DEF Built, netlink_add_attribute, AddedLength, RTA_LENGTH
  <2>3. PICK S : r.added \in Seq(S)
    BY DEF Built
  <2>4. PICK o : LaidAt(r, o)
    BY DEF Built
  <2> DEFINE p == [i \in 1 .. k + 2 |-> IF i = k + 2 THEN at + Align(4 + n) ELSE o[i]]
  <2>5. k \in Nat
    BY <2>3
  <2>6. at + (4 + n) <= RequestSize
    BY <1>2 DEF Fits, RTA_LENGTH
  <2> HIDE DEF new, at, k
  <2>7. new.len \in Nat /\ new.len <= RequestSize /\ r.len <= new.len
    BY <2>1, <2>2, <2>6
  <2>8. /\ new.added \in Seq(S \cup {<<type, value>>}) /\ Len(new.added) = k + 1
        /\ new.added[k + 1] = <<type, value>> /\ \A i \in 1 .. k : new.added[i] = r.added[i]
    <3>1. r.added \in Seq(S \cup {<<type, value>>}) /\ <<type, value>> \in S \cup {<<type, value>>}
      BY <2>3
    <3> QED  BY <2>2, <3>1, AppendProperties DEF k
  <2>9. /\ \A i \in 1 .. k + 1 : o[i] \in Nat /\ o[i] % 4 = 0 /\ p[i] = o[i]
        /\ o[k + 1] = at /\ o[1] = Align(NLMSG_LENGTH(BodyLen(r.body)))
        /\ DOMAIN r.placed = {o[i] : i \in 1 .. k}
        /\ p[k + 2] = at + Align(4 + n)
    <3>1. \A i \in 1 .. k + 1 : i # k + 2 /\ i \in 1 .. k + 2
      BY <2>5
    <3> QED  BY <2>4, <2>5, <3>1 DEF LaidAt, k, at
  <2>10. ASSUME NEW i \in 1 .. k
         PROVE  /\ i + 1 \in 1 .. k + 1 /\ i \in 1 .. k + 1
                /\ r.placed[o[i]].len \in Nat /\ r.placed[o[i]].len >= 4
                /\ o[i + 1] = o[i] + Align(r.placed[o[i]].len) /\ o[i] + r.placed[o[i]].len <= r.len
                /\ r.added[i] = <<r.placed[o[i]].type, r.placed[o[i]].value>>
                /\ r.added[i][1] = "METRICS" => r.added[i][2] = Metrics
                /\ o[i] \in DOMAIN r.placed
    <3>1. i + 1 \in 1 .. k + 1 /\ i \in 1 .. k + 1
      BY <2>5
    <3>2. o[i] \in DOMAIN r.placed
      BY <2>9
    <3> QED  BY <2>4, <3>1, <3>2 DEF LaidAt, k
  <2>11. /\ Align(4 + n) \in Nat /\ at + Align(4 + n) \in Nat /\ (at + Align(4 + n)) % 4 = 0
         /\ Align(at + (4 + n)) = at + Align(4 + n)
    <3>1. ASSUME NEW l \in Nat
          PROVE  /\ Align(l) \in Nat /\ at + Align(l) \in Nat /\ (at + Align(l)) % 4 = 0
                 /\ Align(at + l) = at + Align(l)
      <4>1. Align(l) \in Nat
        BY AlignProperties
      <4>2. at \in Nat /\ at % 4 = 0
        BY <2>1
      <4>3. Align(at + l) = at + Align(l) /\ (at + Align(l)) % 4 = 0
        BY <4>2, AlignBehind
      <4> QED  BY <4>1, <4>2, <4>3
    <3>2. 4 + n \in Nat
      OBVIOUS
    <3>3. \A l \in Nat : /\ Align(l) \in Nat /\ at + Align(l) \in Nat /\ (at + Align(l)) % 4 = 0
                         /\ Align(at + l) = at + Align(l)
      BY <3>1
    <3> QED  BY <3>2, <3>3, Zenon
  <2>12. ASSUME NEW i \in 1 .. k + 1
         PROVE  /\ new.placed[p[i]].len \in Nat /\ new.placed[p[i]].len >= 4
                /\ p[i + 1] = p[i] + Align(new.placed[p[i]].len) /\ p[i] + new.placed[p[i]].len <= new.len
                /\ new.added[i] = <<new.placed[p[i]].type, new.placed[p[i]].value>>
                /\ new.added[i][1] = "METRICS" => new.added[i][2] = Metrics
    <3>1. CASE i = k + 1
      <4>1. p[i] = at /\ p[i + 1] = at + Align(4 + n)
        BY <2>5, <2>9, <3>1
      <4>2. new.placed[at] = Attr(type, n, value)
        BY <2>2
      <4>3. /\ new.placed[p[i]].len = 4 + n /\ new.placed[p[i]].type = type
            /\ new.placed[p[i]].value = value
        BY <4>1, <4>2 DEF Attr, RTA_LENGTH
      <4>4. new.added[i] = <<type, value>>
        BY <2>8, <3>1
      <4> HIDE DEF p
      <4>5. new.added[i][1] = "METRICS" => new.added[i][2] = Metrics
        BY <4>4
      <4>6. new.added[i] = <<new.placed[p[i]].type, new.placed[p[i]].value>>
        BY <4>3, <4>4
      <4>7. p[i + 1] = p[i] + Align(new.placed[p[i]].len)
        BY <4>1, <4>3
      <4>8. p[i] + new.placed[p[i]].len <= new.len
        BY <2>1, <2>2, <4>1, <4>3
      <4>9. new.placed[p[i]].len \in Nat /\ new.placed[p[i]].len >= 4
        BY <4>3
      <4> QED  BY <4>5, <4>6, <4>7, <4>8, <4>9
    <3>2. CASE i # k + 1
      <4>1. i \in 1 .. k /\ i + 1 \in 1 .. k + 1
        BY <2>5, <3>2
      <4>2. p[i] = o[i] /\ p[i + 1] = o[i + 1]
        BY <2>9, <4>1
      <4>3. o[i] < at
        <5>1. r.placed[o[i]].len >= 4 /\ o[i] + r.placed[o[i]].len <= r.len /\ o[i] \in Nat
              /\ r.placed[o[i]].len \in Nat
          BY <2>9, <2>10, <4>1
        <5> QED  BY <2>1, <5>1
      <4>4. new.placed[o[i]] = r.placed[o[i]]
        <5>1. o[i] \in DOMAIN r.placed /\ o[i] # at
          BY <2>1, <2>9, <2>10, <4>1, <4>3
        <5> QED  BY <2>2, <5>1
      <4>5. new.added[i] = r.added[i]
        BY <2>8, <4>1
      <4> HIDE DEF p
      <4>6. /\ new.placed[p[i]].len \in Nat /\ new.placed[p[i]].len >= 4
            /\ p[i + 1] = p[i] + Align(new.placed[p[i]].len)
            /\ new.added[i] = <<new.placed[p[i]].type, new.placed[p[i]].value>>
        BY <2>10, <4>1, <4>2, <4>4, <4>5
      <4>7. p[i] + new.placed[p[i]].len <= new.len
        <5>1. o[i] + r.placed[o[i]].len <= r.len /\ o[i] \in Nat /\ r.placed[o[i]].len \in Nat
          BY <2>9, <2>10, <4>1
        <5> QED  BY <2>1, <2>7, <4>2, <4>4, <5>1
      <4>8. new.added[i][1] = "METRICS" => new.added[i][2] = Metrics
        BY <2>10, <4>1, <4>5
      <4> QED  BY <4>6, <4>7, <4>8
    <3> QED  BY <3>1, <3>2
  <2>13. DOMAIN new.placed = {p[i] : i \in 1 .. k + 1}
    <3>1. DOMAIN new.placed = DOMAIN r.placed \cup {at}
      BY <2>2
    <3>2. {o[i] : i \in 1 .. k} \cup {o[k + 1]} = {o[i] : i \in 1 .. k + 1}
      <4>1. 1 .. k + 1 = 1 .. k \cup {k + 1}
        BY <2>5
      <4> QED  BY <4>1
    <3>3. {o[i] : i \in 1 .. k + 1} = {p[i] : i \in 1 .. k + 1}
      <4> HIDE DEF p
      <4> QED  BY <2>9
    <3> QED  BY <2>9, <3>1, <3>2, <3>3
  <2>14. \A i \in 1 .. (k + 1) + 1 : p[i] \in Nat /\ p[i] % 4 = 0
    <3>1. ASSUME NEW i \in 1 .. (k + 1) + 1
          PROVE  p[i] \in Nat /\ p[i] % 4 = 0
      <4>1. CASE i = k + 2
        BY <2>9, <2>11, <4>1
      <4>2. CASE i # k + 2
        <5>1. i \in 1 .. k + 1
          BY <2>5, <4>2
        <5> HIDE DEF p
        <5> QED  BY <2>9, <5>1
      <4> QED  BY <4>1, <4>2
    <3> QED  BY <3>1
  <2>15. p[1] = Align(NLMSG_LENGTH(BodyLen(new.body))) /\ p[(k + 1) + 1] = Align(new.len)
    <3>1. 1 \in 1 .. k + 1 /\ (k + 1) + 1 = k + 2
      BY <2>5
    <3> HIDE DEF p
    <3> QED  BY <2>2, <2>9, <2>11, <3>1
  <2> HIDE DEF p
  <2>16. LaidAt(new, p)
    BY <2>8, <2>12, <2>13, <2>14, <2>15 DEF LaidAt
  <2>17. /\ \E x : LaidAt(new, x)
         /\ \E x : new.added \in Seq(x)
    BY <2>8, <2>16
  <2>18. new.body \in {"addr", "route", "rule", "gen"}
    BY <2>2 DEF Built
  <2>19. Built(new)
    BY <2>2, <2>7, <2>17, <2>18 DEF Built
  <2> QED  BY <2>19 DEF new
<1> QED  BY <1>1, <1>2

\* The same for one that is added on a condition.
LEMMA AddIfBuilt ==
  ASSUME NEW r, Built(r), NEW cond, NEW type, NEW n \in Nat, NEW value, type = "METRICS" => value = Metrics
  PROVE  Built(AddIf(cond, r, type, n, value))
<1>1. Built(netlink_add_attribute(r, type, n, value))
  BY AddBuilt
<1> QED  BY <1>1 DEF AddIf

\* What each of the functions sends.
LEMMA RequestsBuilt ==
  /\ \A new \in BOOLEAN : Built(manage_rule(new))
  /\ \A new, gateway \in BOOLEAN : Built(manage_srcroute(new, gateway))
  /\ Built(manage_ipaddr)
  /\ \A candidate, host \in BOOLEAN : Built(get_route_request(candidate, host))
<1>1. ASSUME NEW new \in BOOLEAN
      PROVE  Built(manage_rule(new))
  BY EmptyBuilt, AddBuilt DEF manage_rule
<1>2. ASSUME NEW new \in BOOLEAN, NEW gateway \in BOOLEAN
      PROVE  Built(manage_srcroute(new, gateway))
  <2> DEFINE r0 == Empty(IF new THEN "NEWROUTE" ELSE "DELROUTE", "route")
             r1 == netlink_add_attribute(r0, "DST", 4, "dstnet")
             r2 == netlink_add_attribute(r1, "PREFSRC", 4, "srcip")
             r3 == AddIf(gateway, r2, "GATEWAY", 4, "gateway")
             r4 == netlink_add_attribute(r3, "METRICS", Metrics.len, Metrics)
  <2>1. Built(r0)
    BY EmptyBuilt
  <2>2. Metrics.len \in Nat
    BY DEF Metrics, Attr, RTA_LENGTH
  <2> HIDE DEF r0
  <2>3. Built(r1)
    BY <2>1, AddBuilt
  <2> HIDE DEF r1
  <2>4. Built(r2)
    BY <2>3, AddBuilt
  <2> HIDE DEF r2
  <2>5. Built(r3)
    BY <2>4, AddIfBuilt
  <2> HIDE DEF r3
  <2>6. Built(r4)
    BY <2>2, <2>5, AddBuilt
  <2> QED  BY <2>6 DEF manage_srcroute, r0, r1, r2, r3
<1>3. Built(manage_ipaddr)
  BY EmptyBuilt, AddBuilt DEF manage_ipaddr
<1>4. ASSUME NEW candidate \in BOOLEAN, NEW host \in BOOLEAN
      PROVE  Built(get_route_request(candidate, host))
  <2> DEFINE r0 == Empty(RouteType, "route")
             r1 == AddIf(candidate, r0, "PREFSRC", 4, "candidate")
             r2 == AddIf(host, r1, "DST", 4, "dest")
  <2>1. Built(r0)
    BY EmptyBuilt
  <2> HIDE DEF r0
  <2>2. Built(r1)
    BY <2>1, AddIfBuilt
  <2> HIDE DEF r1
  <2>3. Built(r2)
    BY <2>2, AddIfBuilt
  <2> QED  BY <2>3 DEF get_route_request, r0, r1
<1> QED  BY <1>1, <1>2, <1>3, <1>4

\* The attributes of a built request are as many as were added.
LEMMA BuiltCounted ==
  ASSUME NEW r, Built(r)
  PROVE  /\ Len(r.added) \in Nat /\ DOMAIN r.added = 1 .. Len(r.added) /\ Sound(r.placed)
         /\ Cardinality(DOMAIN r.placed) = Len(r.added)
<1>1. PICK o : LaidAt(r, o)
  BY DEF Built
<1>2. Len(r.added) \in Nat /\ DOMAIN r.added = 1 .. Len(r.added)
  <2>1. PICK S : r.added \in Seq(S)
    BY DEF Built
  <2> QED  BY <2>1
<1> DEFINE k == Len(r.added)
<1> HIDE DEF k
<1>3. \A i \in 1 .. k + 1 : o[i] \in Int
  BY <1>1 DEF LaidAt, k
<1>4. \A i \in 1 .. k : o[i] < o[i + 1]
  <2>1. ASSUME NEW i \in 1 .. k
        PROVE  o[i] < o[i + 1]
    <3>1. /\ r.placed[o[i]].len \in Nat /\ r.placed[o[i]].len >= 4
          /\ o[i + 1] = o[i] + Align(r.placed[o[i]].len)
      BY <1>1 DEF LaidAt, k
    <3>2. o[i] \in Int
      BY <1>2, <1>3 DEF k
    <3>3. Align(r.placed[o[i]].len) \in Nat /\ r.placed[o[i]].len <= Align(r.placed[o[i]].len)
      BY <3>1, AlignProperties
    <3> QED  BY <3>1, <3>2, <3>3
  <2> QED  BY <2>1
<1>5. k \in Nat
  BY <1>2 DEF k
<1>6. \A i \in 1 .. k : o[i] \in Int
  BY <1>3, <1>5
<1>7. \A i \in 1 .. k : \A j \in 1 .. k : i < j => o[i] < o[j]
  <2>1. ASSUME NEW i \in 1 .. k, NEW j \in 1 .. k, i < j
        PROVE  o[i] < o[j]
    <3>1. i \in 1 .. k + 1 /\ j \in 1 .. k + 1
      BY <1>5
    <3> QED  BY <1>3, <1>4, <1>5, <2>1, <3>1, Growing
  <2> QED  BY <2>1
<1>8. IsFiniteSet({o[i] : i \in 1 .. k}) /\ Cardinality({o[i] : i \in 1 .. k}) = k
  BY <1>5, <1>6, <1>7, PlacesCounted
<1>9. DOMAIN r.placed = {o[i] : i \in 1 .. k}
  BY <1>1 DEF LaidAt, k
<1>10. \A off \in DOMAIN r.placed : r.placed[off].len \in Nat
  <2>1. ASSUME NEW off \in DOMAIN r.placed
        PROVE  r.placed[off].len \in Nat
    <3>1. PICK i \in 1 .. k : off = o[i]
      BY <1>9
    <3> QED  BY <1>1, <3>1 DEF LaidAt, k
  <2> QED  BY <2>1
<1> QED  BY <1>2, <1>8, <1>9, <1>10 DEF Sound, k

\* What the kernel reads of things that are one behind the other.
Parsed(found, placed, o, k) == found = [i \in 1 .. k |-> <<placed[o[i]].type, placed[o[i]].value>>]

\* The kernel finds the attributes that lie one behind the other.
LEMMA ParsedAlong ==
  ASSUME NEW placed, Sound(placed), NEW length \in Int, NEW o, NEW k,
         Along(placed, o, k, length, OverAttributes(FALSE)), (o[1] + length) - o[k + 1] < 4
  PROVE  Parsed(KernelParses(placed, o[1], length), placed, o, k)
<1> DEFINE W == WalkFrom(placed, o[1], length, OverAttributes(FALSE))
           rest == (o[1] + length) - o[k + 1]
           P == Place(placed, o[k + 1], rest)
<1>1. W.seen = [i \in 1 .. IF GoesOn(OverAttributes(FALSE), P) THEN k + 1 ELSE k |-> [off |-> o[i], item |-> At(placed, o[i])]]
  <2>1. WentAlong(W, placed, o, k, length, OverAttributes(FALSE))
    BY WalkAlong
  <2> HIDE DEF W
  <2> QED  BY <2>1 DEF WentAlong
<1>2. ~GoesOn(OverAttributes(FALSE), P)
  <2>1. P.left = rest /\ OverAttributes(FALSE).header = 4
    BY DEF Place, OverAttributes, Walker
  <2>2. o[1] \in Int /\ o[k + 1] \in Int
    BY DEF Along
  <2>3. ~(rest >= 4)
    BY <2>2
  <2> HIDE DEF P, rest
  <2> QED  BY <2>1, <2>3 DEF GoesOn, InOrder
<1> HIDE DEF P
<1>3. W.seen = [i \in 1 .. k |-> [off |-> o[i], item |-> At(placed, o[i])]]
  BY <1>1, <1>2
<1>4. \A i \in 1 .. k : At(placed, o[i]) = placed[o[i]]
  BY DEF Along, At
<1> HIDE DEF W
<1>5. DOMAIN W.seen = 1 .. k /\ \A i \in 1 .. k : W.seen[i].item = placed[o[i]]
  BY <1>3, <1>4
<1>6. KernelParses(placed, o[1], length) = [i \in DOMAIN W.seen |-> <<W.seen[i].item.type, W.seen[i].item.value>>]
  BY DEF KernelParses, W
<1> QED  BY <1>5, <1>6 DEF Parsed

\* The two metrics are found in the buffer they are put in.
LEMMA MetricsParse == KernelParses(Metrics.placed, 0, Metrics.len) = <<<<"MTU", "mtu">>, <<"ADVMSS", "mss">>>>
<1> DEFINE p == Metrics.placed
           o == <<0, 8, 16>>
           walker == OverAttributes(FALSE)
<1>1. Align(8) = 8
  BY DEF Align
<1>2. /\ p = [off \in {0, 8} |-> IF off = 8 THEN Attr("ADVMSS", 4, "mss") ELSE Attr("MTU", 4, "mtu")]
      /\ Metrics.len = 16
  <2>1. Attr("MTU", 4, "mtu").len = 8
    BY DEF Attr, RTA_LENGTH
  <2> QED  BY <1>1, <2>1 DEF Metrics, RTA_LENGTH
<1>3. /\ DOMAIN p = {0, 8} /\ p[0].len = 8 /\ p[8].len = 8
      /\ p[0].type = "MTU" /\ p[0].value = "mtu" /\ p[8].type = "ADVMSS" /\ p[8].value = "mss"
  BY <1>2 DEF Attr, RTA_LENGTH
<1> HIDE DEF p
<1>4. Sound(p)
  <2>1. {0, 8} = {0} \cup {8} /\ IsFiniteSet({0})
    BY FS_Singleton
  <2>2. IsFiniteSet({0, 8})
    BY <2>1, FS_AddElement
  <2> QED  BY <1>3, <2>2 DEF Sound
<1>5. walker.tests = 0 /\ walker.header = 4 /\ walker.stops = {} /\ walker.unsigned = FALSE
  BY DEF OverAttributes, Walker
<1>6. o[1] = 0 /\ o[2] = 8 /\ o[3] = 16 /\ 1 .. 2 = {1, 2} /\ 1 .. 2 + 1 = {1, 2, 3}
  OBVIOUS
<1> HIDE DEF o
<1>7. Along(p, o, 2, 16, walker)
  <2> HIDE DEF walker
  <2>1. ASSUME NEW i \in 1 .. 2
        PROVE  /\ o[i] \in DOMAIN p /\ o[i + 1] = o[i] + Align(p[o[i]].len)
               /\ p[o[i]].len >= walker.header /\ o[i] + p[o[i]].len <= o[1] + 16
               /\ p[o[i]].type \notin walker.stops
    <3>1. CASE i = 1
      BY <1>1, <1>3, <1>5, <1>6, <3>1
    <3>2. CASE i = 2
      BY <1>1, <1>3, <1>5, <1>6, <3>2
    <3> QED  BY <1>6, <3>1, <3>2
  <2>2. \A i \in 1 .. 2 + 1 : o[i] \in Int
    BY <1>6
  <2>3. (o[1] + 16) - o[2 + 1] < walker.header
    BY <1>5, <1>6
  <2> QED  BY <1>5, <2>1, <2>2, <2>3 DEF Along
<1>8. (o[1] + 16) - o[2 + 1] < 4
  BY <1>6
<1>9. KernelParses(p, o[1], 16) = [i \in 1 .. 2 |-> <<p[o[i]].type, p[o[i]].value>>]
  <2>1. Parsed(KernelParses(p, o[1], 16), p, o, 2)
    <3>1. 16 \in Int
      OBVIOUS
    <3>2. Along(p, o, 2, 16, OverAttributes(FALSE))
      BY <1>7 DEF walker
    <3> QED  BY <1>4, <1>8, <3>1, <3>2, ParsedAlong, Zenon
  <2> QED  BY <2>1 DEF Parsed
<1>10. [i \in 1 .. 2 |-> <<p[o[i]].type, p[o[i]].value>>] = <<<<"MTU", "mtu">>, <<"ADVMSS", "mss">>>>
  <2> DEFINE g == [i \in 1 .. 2 |-> <<p[o[i]].type, p[o[i]].value>>]
             h == <<<<"MTU", "mtu">>, <<"ADVMSS", "mss">>>>
  <2>1. g[1] = <<"MTU", "mtu">> /\ g[2] = <<"ADVMSS", "mss">>
    BY <1>3, <1>6
  <2>2. DOMAIN h = 1 .. 2 /\ h[1] = <<"MTU", "mtu">> /\ h[2] = <<"ADVMSS", "mss">>
    OBVIOUS
  <2>3. DOMAIN g = 1 .. 2 /\ g = [i \in DOMAIN g |-> g[i]] /\ h = [i \in DOMAIN h |-> h[i]]
    OBVIOUS
  <2> HIDE DEF g, h
  <2>4. \A i \in 1 .. 2 : g[i] = h[i]
    BY <1>6, <2>1, <2>2
  <2>5. g = h
    BY <2>2, <2>3, <2>4
  <2> QED  BY <2>5 DEF g, h
<1> QED  BY <1>2, <1>6, <1>9, <1>10 DEF p

\* The kernel finds in a built request the attributes that were added to it.
ParsesRight(r) ==
  LET from == Align(NLMSG_LENGTH(BodyLen(r.body)))
      found == KernelParses(r.placed, from, r.len - from)
  IN  /\ found = r.added
      /\ \A i \in DOMAIN found : found[i][1] = "METRICS" =>
           KernelParses(found[i][2].placed, 0, found[i][2].len) = <<<<"MTU", "mtu">>, <<"ADVMSS", "mss">>>>

\* Every request that was built parses right.
LEMMA BuiltParses == ASSUME NEW r, Built(r) PROVE ParsesRight(r)
<1>1. PICK o : LaidAt(r, o)
  BY DEF Built
<1> DEFINE k == Len(r.added)
           from == Align(NLMSG_LENGTH(BodyLen(r.body)))
           walker == OverAttributes(FALSE)
           length == r.len - from
           found == KernelParses(r.placed, from, r.len - from)
<1>2. walker.tests = 0 /\ walker.header = 4 /\ walker.stops = {} /\ walker.unsigned = FALSE
  BY DEF OverAttributes, Walker
<1> HIDE DEF walker
<1>3. k \in Nat /\ DOMAIN r.added = 1 .. k /\ Sound(r.placed)
  BY BuiltCounted
<1>4. o[1] = from /\ o[k + 1] = Align(r.len) /\ \A i \in 1 .. k + 1 : o[i] \in Nat
  BY <1>1 DEF LaidAt
<1>5. r.len \in Nat /\ r.len <= Align(r.len) /\ Align(r.len) \in Nat
  BY AlignProperties DEF Built
<1> HIDE DEF k, from
<1>6. from \in Nat /\ length \in Int /\ o[1] + length = r.len
  <2>1. 1 \in 1 .. k + 1
    BY <1>3
  <2> QED  BY <1>4, <1>5, <2>1
<1> HIDE DEF length
<1>7. (o[1] + length) - o[k + 1] < 4
  BY <1>4, <1>5, <1>6
<1>8. ASSUME NEW i \in 1 .. k
      PROVE  /\ o[i] \in DOMAIN r.placed /\ o[i + 1] = o[i] + Align(r.placed[o[i]].len)
             /\ r.placed[o[i]].len >= 4 /\ o[i] + r.placed[o[i]].len <= o[1] + length
             /\ r.added[i] = <<r.placed[o[i]].type, r.placed[o[i]].value>>
             /\ r.added[i][1] = "METRICS" => r.added[i][2] = Metrics
  <2>1. o[i] \in DOMAIN r.placed
    BY <1>1 DEF LaidAt, k
  <2>2. /\ o[i + 1] = o[i] + Align(r.placed[o[i]].len) /\ o[i] + r.placed[o[i]].len <= r.len
        /\ r.placed[o[i]].len >= 4
        /\ r.added[i] = <<r.placed[o[i]].type, r.placed[o[i]].value>>
        /\ r.added[i][1] = "METRICS" => r.added[i][2] = Metrics
    BY <1>1 DEF LaidAt, k
  <2> QED  BY <1>6, <2>1, <2>2
<1>9. Along(r.placed, o, k, length, walker)
  <2>1. \A i \in 1 .. k + 1 : o[i] \in Int
    BY <1>4
  <2>2. (o[1] + length) - o[k + 1] < walker.header
    BY <1>2, <1>7
  <2> QED  BY <1>2, <1>3, <1>8, <2>1, <2>2 DEF Along
<1>10. found = [i \in 1 .. k |-> <<r.placed[o[i]].type, r.placed[o[i]].value>>]
  <2>1. KernelParses(r.placed, o[1], length) = [i \in 1 .. k |-> <<r.placed[o[i]].type, r.placed[o[i]].value>>]
    <3>1. Parsed(KernelParses(r.placed, o[1], length), r.placed, o, k)
      BY <1>3, <1>6, <1>7, <1>9, ParsedAlong DEF walker
    <3> QED  BY <3>1 DEF Parsed
  <2> QED  BY <1>4, <2>1 DEF length
<1> HIDE DEF found
<1>11. found = r.added
  <2>1. PICK S : r.added \in Seq(S)
    BY DEF Built
  <2>2. r.added = [i \in 1 .. k |-> r.added[i]]
    BY <1>3, <2>1
  <2>3. [i \in 1 .. k |-> <<r.placed[o[i]].type, r.placed[o[i]].value>>] = [i \in 1 .. k |-> r.added[i]]
    BY <1>8
  <2> QED  BY <1>10, <2>2, <2>3
<1>12. ASSUME NEW i \in DOMAIN found, found[i][1] = "METRICS"
       PROVE  KernelParses(found[i][2].placed, 0, found[i][2].len) = <<<<"MTU", "mtu">>, <<"ADVMSS", "mss">>>>
  <2>1. found[i][2] = Metrics
    BY <1>3, <1>8, <1>11, <1>12
  <2> QED  BY <2>1, MetricsParse
<1> QED  BY <1>11, <1>12 DEF ParsesRight, found, from

\* The request of get_route() is aligned and no shorter than its body.
LEMMA RouteRequestLength ==
  ASSUME NEW candidate, NEW host
  PROVE  get_route_request(candidate, host).len \in {28, 36, 44}
<1> DEFINE r0 == Empty(RouteType, "route")
           r1 == AddIf(candidate, r0, "PREFSRC", 4, "candidate")
           r2 == AddIf(host, r1, "DST", 4, "dest")
<1>1. r0.len = 28 /\ DOMAIN r0 = {"type", "body", "len", "placed", "added"}
  BY DEF Empty, NLMSG_LENGTH, BodyLen
<1>2. Align(28) = 28 /\ Align(36) = 36
  BY DEF Align
<1> HIDE DEF r0
<1>3. r1.len \in {28, 36} /\ DOMAIN r1 = {"type", "body", "len", "placed", "added"}
  BY <1>1, <1>2 DEF AddIf, netlink_add_attribute, AddedLength, RTA_LENGTH
<1> HIDE DEF r1
<1>4. r2.len \in {28, 36, 44}
  <2>1. CASE r1.len = 28
    BY <1>2, <1>3, <2>1 DEF AddIf, netlink_add_attribute, AddedLength, RTA_LENGTH
  <2>2. CASE r1.len = 36
    BY <1>2, <1>3, <2>2 DEF AddIf, netlink_add_attribute, AddedLength, RTA_LENGTH
  <2> QED  BY <1>3, <2>1, <2>2
<1> QED  BY <1>4 DEF get_route_request, r0, r1

-----------------------------------------------------------------------------
(* Messages of the kernel. *)

\* Where the attributes of a message are.
AttributesAt(m, off) ==
  LET n == Cardinality(DOMAIN m.attrs)
  IN  /\ n \in Nat /\ Sound(m.attrs) /\ DOMAIN m.attrs = {off[i] : i \in 1 .. n}
      /\ off[1] = NLMSG_LENGTH(BodyLen(m.body)) /\ off[n + 1] = m.len
      /\ \A i \in 1 .. n + 1 : off[i] \in Nat /\ off[i] % 4 = 0
      /\ \A i \in 1 .. n : /\ m.attrs[off[i]].len \in Nat /\ m.attrs[off[i]].len >= 4
                           /\ off[i + 1] = off[i] + Align(m.attrs[off[i]].len)

\* Every message of the kernel has its attributes there.
LEMMA MessageAttributes ==
  ASSUME NEW m, IsMessage(m)
  PROVE  \E off : AttributesAt(m, off)
<1> DEFINE n == Cardinality(DOMAIN m.attrs)
           from == NLMSG_LENGTH(BodyLen(m.body))
<1>1. PICK off \in [1 .. n + 1 -> DOMAIN m.attrs \cup {m.len}] : Behind(m.attrs, off, from, m.len)
  BY DEF IsMessage
<1>2. /\ m.len \in Nat /\ DOMAIN m.attrs \subseteq Nat /\ IsFiniteSet(DOMAIN m.attrs)
      /\ \A o \in DOMAIN m.attrs : m.attrs[o].len \in Nat /\ m.attrs[o].len >= 4
  BY DEF IsMessage, RTA_LENGTH
<1>3. n \in Nat
  BY <1>2, FS_CardinalityType
<1>4. from \in Nat /\ from % 4 = 0
  <2>1. m.body \in {"link", "addr", "route"}
    BY DEF IsMessage, BodyOf
  <2>2. BodyLen(m.body) \in {8, 12, 16} /\ from = 16 + BodyLen(m.body)
    BY <2>1, BodyLength
  <2> QED  BY <2>2
<1> HIDE DEF n, from
<1>5. /\ off[1] = from /\ off[n + 1] = m.len /\ DOMAIN m.attrs = {off[i] : i \in 1 .. n}
      /\ \A i \in 1 .. n : off[i + 1] = off[i] + Align(m.attrs[off[i]].len)
  BY <1>1 DEF Behind, n
<1>6. \A i \in 1 .. n + 1 : off[i] \in Nat
  <2>1. \A i \in 1 .. n + 1 : off[i] \in DOMAIN m.attrs \cup {m.len}
    BY <1>1
  <2> QED  BY <1>2, <2>1
<1>7. \A i \in 1 .. n : m.attrs[off[i]].len \in Nat /\ m.attrs[off[i]].len >= 4
  BY <1>2, <1>5
<1>8. \A i \in 1 .. n + 1 : off[i] % 4 = 0
  <2> DEFINE T == {i \in Nat : off[i] % 4 = 0}
  <2>1. 1 \in T
    BY <1>4, <1>5
  <2>2. ASSUME NEW i \in 1 .. n + 1, i \in T, i + 1 <= n + 1
        PROVE  i + 1 \in T
    <3>1. i \in 1 .. n /\ i + 1 \in Nat
      BY <1>3, <2>2
    <3>2. PICK l \in Nat : l = m.attrs[off[i]].len
      BY <1>7, <3>1
    <3>3. off[i] \in Nat /\ off[i] % 4 = 0
      BY <1>6, <2>2
    <3>4. (off[i] + Align(l)) % 4 = 0
      BY <3>3, AlignBehind
    <3>5. off[i + 1] = off[i] + Align(l)
      BY <1>5, <3>1, <3>2
    <3> QED  BY <3>1, <3>4, <3>5
  <2> HIDE DEF T
  <2>3. n + 1 \in Nat
    BY <1>3
  <2>4. \A i \in 1 .. n + 1 : i \in T
    BY <2>1, <2>2, <2>3, InductionUpTo
  <2> QED  BY <2>4 DEF T
<1>9. Sound(m.attrs)
  BY <1>2 DEF Sound
<1>10. AttributesAt(m, off)
  BY <1>3, <1>5, <1>6, <1>7, <1>8, <1>9 DEF AttributesAt, n, from
<1> QED  BY <1>10

\* A sequence of such offsets never falls.
LEMMA AttributesGrow ==
  ASSUME NEW m, NEW off, AttributesAt(m, off)
  PROVE  LET n == Cardinality(DOMAIN m.attrs)
         IN  /\ \A i \in 1 .. n : off[i] < off[i + 1] /\ off[i] + m.attrs[off[i]].len <= off[i + 1]
             /\ \A i \in 1 .. n + 1 : off[i] <= off[n + 1] /\ off[1] <= off[i]
<1> DEFINE n == Cardinality(DOMAIN m.attrs)
<1>1. n \in Nat
  BY DEF AttributesAt
<1> HIDE DEF n
<1>2. ASSUME NEW i \in 1 .. n
      PROVE  off[i] < off[i + 1] /\ off[i] + m.attrs[off[i]].len <= off[i + 1]
  <2>1. /\ m.attrs[off[i]].len \in Nat /\ m.attrs[off[i]].len >= 4
        /\ off[i + 1] = off[i] + Align(m.attrs[off[i]].len)
    BY DEF AttributesAt, n
  <2>2. off[i] \in Nat
    BY <1>1 DEF AttributesAt, n
  <2>3. Align(m.attrs[off[i]].len) \in Nat /\ m.attrs[off[i]].len <= Align(m.attrs[off[i]].len)
    BY <2>1, AlignProperties
  <2> QED  BY <2>1, <2>2, <2>3
<1>3. \A i \in 1 .. n + 1 : off[i] \in Int
  BY DEF AttributesAt, n
<1>4. \A i \in 1 .. n : off[i] < off[i + 1]
  BY <1>2
<1>5. ASSUME NEW i \in 1 .. n + 1
      PROVE  off[i] <= off[n + 1] /\ off[1] <= off[i]
  <2>1. 1 \in 1 .. n + 1 /\ n + 1 \in 1 .. n + 1
    BY <1>1
  <2>2. off[1] \in Int /\ off[i] \in Int /\ off[n + 1] \in Int
    BY <1>3, <2>1
  <2>3. off[i] <= off[n + 1]
    <3>1. CASE i < n + 1
      <4>1. off[i] < off[n + 1]
        BY <1>1, <1>3, <1>4, <2>1, <3>1, Growing
      <4> QED  BY <2>2, <4>1
    <3>2. CASE i = n + 1
      BY <2>2, <3>2
    <3> QED  BY <1>1, <3>1, <3>2
  <2>4. off[1] <= off[i]
    <3>1. CASE 1 < i
      <4>1. off[1] < off[i]
        BY <1>1, <1>3, <1>4, <2>1, <3>1, Growing
      <4> QED  BY <2>2, <4>1
    <3>2. CASE i = 1
      BY <2>2, <3>2
    <3> QED  BY <1>1, <3>1, <3>2
  <2> QED  BY <2>3, <2>4
<1> QED  BY <1>2, <1>5 DEF n

\* A message is no shorter than its header, and its length is aligned.
LEMMA MessageLength ==
  ASSUME NEW m, IsMessage(m)
  PROVE  m.len \in Nat /\ m.len >= 16 /\ m.len <= MaxMessage /\ m.len % 4 = 0
<1>1. PICK off : AttributesAt(m, off)
  BY MessageAttributes
<1> DEFINE n == Cardinality(DOMAIN m.attrs)
<1>2. \A i \in 1 .. n + 1 : off[1] <= off[i]
  BY <1>1, AttributesGrow
<1>3. n \in Nat /\ off[n + 1] = m.len /\ off[1] = NLMSG_LENGTH(BodyLen(m.body))
  BY <1>1 DEF AttributesAt
<1>4. m.len % 4 = 0
  <2>1. n + 1 \in 1 .. n + 1
    BY <1>3
  <2>2. off[n + 1] % 4 = 0
    BY <1>1, <2>1 DEF AttributesAt
  <2> QED  BY <1>3, <2>2
<1>5. off[1] >= 16
  <2>1. m.body \in {"link", "addr", "route"}
    BY DEF IsMessage, BodyOf
  <2> QED  BY <1>3, <2>1, BodyLength
<1>6. m.len \in Nat /\ m.len <= MaxMessage
  BY DEF IsMessage
<1>7. off[1] <= m.len
  <2>1. n + 1 \in 1 .. n + 1
    BY <1>3
  <2> QED  BY <1>2, <1>3, <2>1
<1>8. m.len >= 16
  <2>1. off[1] \in Nat
    <3>1. 1 \in 1 .. n + 1
      BY <1>3
    <3> QED  BY <1>1, <3>1 DEF AttributesAt
  <2> QED  BY <1>5, <1>6, <1>7, <2>1
<1> QED  BY <1>4, <1>6, <1>8

\* The handlers come to each attribute of a message, in the order they lie in.
SeenOf(m, off) ==
  Attributes(m) = [i \in 1 .. Cardinality(DOMAIN m.attrs) |-> [off |-> off[i], item |-> m.attrs[off[i]]]]

\* The walk over the attributes of a message comes to each of them.
LEMMA AttributesSeen ==
  ASSUME NEW m, IsMessage(m)
  PROVE  \E off : AttributesAt(m, off) /\ SeenOf(m, off)
<1>1. PICK off : AttributesAt(m, off)
  BY MessageAttributes
<1> DEFINE n == Cardinality(DOMAIN m.attrs)
           from == NLMSG_LENGTH(BodyLen(m.body))
           length == m.len - from
           walker == OverAttributes(TRUE)
           W == WalkFrom(m.attrs, from, length, walker)
<1>2. /\ n \in Nat /\ Sound(m.attrs) /\ off[1] = from /\ off[n + 1] = m.len
      /\ \A i \in 1 .. n + 1 : off[i] \in Nat
  BY <1>1 DEF AttributesAt
<1>3. /\ \A i \in 1 .. n : off[i] < off[i + 1] /\ off[i] + m.attrs[off[i]].len <= off[i + 1]
      /\ \A i \in 1 .. n + 1 : off[i] <= off[n + 1] /\ off[1] <= off[i]
  BY <1>1, AttributesGrow
<1>4. walker.tests = 0 /\ walker.header = 4 /\ walker.stops = {} /\ walker.unsigned = TRUE
  BY DEF OverAttributes, Walker
<1> HIDE DEF walker
<1>5. from \in Nat /\ from >= 0
  <2>1. 1 \in 1 .. n + 1
    BY <1>2
  <2> QED  BY <1>2, <2>1
<1>6. m.len \in Nat /\ m.len <= MaxMessage
  BY MessageLength
<1>7. MaxMessage < SizeMod
  <2>1. MaxDump \in Nat /\ MaxMessage \in Nat /\ SizeMod \in Nat
    BY Sizes
  <2>2. (MaxDump + 1) * MaxMessage < SizeMod
    BY WireAssumption
  <2>3. (MaxDump + 1) * MaxMessage = MaxDump * MaxMessage + MaxMessage /\ MaxDump * MaxMessage \in Nat
    BY <2>1
  <2> QED  BY <2>1, <2>2, <2>3
<1> HIDE DEF n, from
<1>8. length \in Int /\ off[1] + length = m.len /\ length < SizeMod
  <2>1. length \in Int /\ from + length = m.len /\ length <= m.len
    BY <1>5, <1>6
  <2> HIDE DEF length
  <2> QED  BY <1>2, <1>6, <1>7, <2>1, Sizes
<1> HIDE DEF length
<1>9. Along(m.attrs, off, n, length, walker)
  <2>1. ASSUME NEW i \in 1 .. n
        PROVE  /\ off[i] \in DOMAIN m.attrs /\ off[i + 1] = off[i] + Align(m.attrs[off[i]].len)
               /\ m.attrs[off[i]].len >= walker.header
               /\ off[i] + m.attrs[off[i]].len <= off[1] + length
               /\ m.attrs[off[i]].type \notin walker.stops
    <3>1. /\ off[i] \in DOMAIN m.attrs /\ off[i + 1] = off[i] + Align(m.attrs[off[i]].len)
          /\ m.attrs[off[i]].len >= 4 /\ m.attrs[off[i]].len \in Nat
      BY <1>1 DEF AttributesAt, n
    <3>2. off[i] + m.attrs[off[i]].len <= off[i + 1] /\ off[i + 1] <= m.len
      <4>1. i + 1 \in 1 .. n + 1
        BY <1>2
      <4> QED  BY <1>2, <1>3, <4>1
    <3>3. off[i] \in Nat /\ off[i + 1] \in Nat
      <4>1. i + 1 \in 1 .. n + 1 /\ i \in 1 .. n + 1
        BY <1>2
      <4> QED  BY <1>2, <4>1
    <3>4. off[i] + m.attrs[off[i]].len <= m.len
      BY <1>6, <3>1, <3>2, <3>3
    <3> QED  BY <1>4, <1>8, <3>1, <3>4
  <2>2. \A i \in 1 .. n + 1 : off[i] \in Int /\ off[i] <= off[1] + length
    BY <1>2, <1>3, <1>8
  <2>3. (off[1] + length) - off[n + 1] < walker.header
    BY <1>2, <1>4, <1>6, <1>8
  <2> QED  BY <1>2, <1>4, <1>8, <2>1, <2>2, <2>3 DEF Along
<1>10. W.seen = [i \in 1 .. n |-> [off |-> off[i], item |-> At(m.attrs, off[i])]]
  <2>1. WentAlong(WalkFrom(m.attrs, off[1], length, walker), m.attrs, off, n, length, walker)
    BY <1>2, <1>8, <1>9, WalkAlong
  <2> DEFINE rest == (off[1] + length) - off[n + 1]
             P == Place(m.attrs, off[n + 1], rest)
  <2>2. ~GoesOn(walker, P)
    <3>1. P.left = rest /\ rest = 0
      BY <1>2, <1>6, <1>8 DEF Place
    <3> HIDE DEF P, rest
    <3> QED  BY <1>4, <3>1 DEF GoesOn, InOrder
  <2> QED  BY <1>2, <2>1, <2>2 DEF WentAlong
<1>11. \A i \in 1 .. n : At(m.attrs, off[i]) = m.attrs[off[i]]
  BY <1>9 DEF Along, At
<1>12. Attributes(m) = [i \in 1 .. n |-> [off |-> off[i], item |-> m.attrs[off[i]]]]
  <2>1. Attributes(m) = W.seen
    BY DEF Attributes, from, length, walker
  <2> HIDE DEF W
  <2> QED  BY <1>10, <1>11, <2>1
<1> QED  BY <1>1, <1>12 DEF SeenOf, n

\* The latest of some places is one of them.
LEMMA LatestIs ==
  ASSUME NEW n \in Nat, NEW I, I \subseteq 1 .. n, I # {}
  PROVE  Latest(I) \in I
<1> DEFINE T == {n - i : i \in I}
<1>1. T \subseteq Nat /\ T # {}
  <2>1. ASSUME NEW i \in I
        PROVE  n - i \in Nat
    BY <2>1
  <2> QED  BY <2>1
<1>2. PICK d \in T : \A e \in T : d <= e
  <2> HIDE DEF T
  <2> QED  BY <1>1, LeastMember
<1>3. PICK i \in I : d = n - i
  BY <1>2
<1>4. \A j \in I : j <= i
  <2>1. ASSUME NEW j \in I
        PROVE  j <= i
    <3>1. n - i <= n - j
      BY <1>2, <1>3
    <3>2. i \in Int /\ j \in Int
      OBVIOUS
    <3> QED  BY <3>1, <3>2
  <2> QED  BY <2>1
<1>5. \E x \in I : \A j \in I : j <= x
  BY <1>4
<1>6. (CHOOSE x \in I : \A j \in I : j <= x) \in I
  BY <1>5
<1> QED  BY <1>6 DEF Latest

\* What a message has of a type, and what is kept of it.
Values(m, type) == {m.attrs[off].value : off \in {off \in DOMAIN m.attrs : m.attrs[off].type = type}}

\* The last value of a type is one of its values, and there is none without any.
LEMMA LastOfIs ==
  ASSUME NEW m, IsMessage(m), NEW type
  PROVE  /\ Values(m, type) = {} => LastOf(m, type) = "none"
         /\ Values(m, type) # {} => LastOf(m, type) \in Values(m, type) /\ LastOf(m, type) # "none"
<1>1. PICK off : AttributesAt(m, off) /\ SeenOf(m, off)
  BY AttributesSeen
<1> DEFINE n == Cardinality(DOMAIN m.attrs)
           A == Attributes(m)
           I == {i \in DOMAIN A : A[i].item.type = type}
<1>2. n \in Nat /\ DOMAIN m.attrs = {off[i] : i \in 1 .. n}
  BY <1>1 DEF AttributesAt
<1>3. A = [i \in 1 .. n |-> [off |-> off[i], item |-> m.attrs[off[i]]]]
  BY <1>1 DEF SeenOf
<1>4. LastOf(m, type) = IF I = {} THEN "none" ELSE A[Latest(I)].item.value
  BY DEF LastOf
<1> HIDE DEF A, n
<1>5. DOMAIN A = 1 .. n /\ \A i \in 1 .. n : A[i].item = m.attrs[off[i]]
  BY <1>3
<1>6. ASSUME I = {}
      PROVE  Values(m, type) = {} /\ LastOf(m, type) = "none"
  <2>1. ASSUME NEW o \in DOMAIN m.attrs
        PROVE  m.attrs[o].type # type
    <3>1. PICK i \in 1 .. n : o = off[i]
      BY <1>2
    <3> QED  BY <1>5, <1>6, <3>1
  <2> QED  BY <1>4, <1>6, <2>1 DEF Values
<1>7. ASSUME I # {}
      PROVE  LastOf(m, type) \in Values(m, type) /\ LastOf(m, type) # "none"
  <2>1. I \subseteq 1 .. n
    BY <1>5
  <2>2. LastOf(m, type) = A[Latest(I)].item.value
    BY <1>4, <1>7
  <2>3. PICK i : i = Latest(I)
    OBVIOUS
  <2>4. i \in I
    <3> HIDE DEF I
    <3> QED  BY <1>2, <1>7, <2>1, <2>3, LatestIs
  <2>5. i \in 1 .. n /\ m.attrs[off[i]].type = type /\ off[i] \in DOMAIN m.attrs
    BY <1>2, <1>5, <2>4
  <2>6. LastOf(m, type) = m.attrs[off[i]].value
    BY <1>5, <2>2, <2>3, <2>5
  <2>7. m.attrs[off[i]].value # "none"
    BY <2>5 DEF IsMessage
  <2> QED  BY <2>5, <2>6, <2>7 DEF Values
<1> QED  BY <1>6, <1>7

\* What is printed of an address, and when the bytes for it are not enough.
LEMMA AddressShown ==
  ASSUME NEW m, IsMessage(m), m.body = "addr"
  PROVE  /\ Printed(m) \in (IF Values(m, "LOCAL") # {} THEN Values(m, "LOCAL")
                            ELSE IF Values(m, "ADDRESS") # {} THEN Values(m, "ADDRESS") ELSE {"none"})
         /\ Overruns(m) <=> HoldsIPv6(m)
<1>1. /\ Values(m, "LOCAL") = {} => LastOf(m, "LOCAL") = "none"
      /\ Values(m, "LOCAL") # {} => LastOf(m, "LOCAL") \in Values(m, "LOCAL") /\ LastOf(m, "LOCAL") # "none"
      /\ Values(m, "ADDRESS") = {} => LastOf(m, "ADDRESS") = "none"
      /\ Values(m, "ADDRESS") # {} => LastOf(m, "ADDRESS") \in Values(m, "ADDRESS")
  BY LastOfIs
<1>2. Printed(m) = IF LastOf(m, "LOCAL") # "none" THEN LastOf(m, "LOCAL") ELSE LastOf(m, "ADDRESS")
  BY DEF Printed
<1>3. Printed(m) \in (IF Values(m, "LOCAL") # {} THEN Values(m, "LOCAL")
                      ELSE IF Values(m, "ADDRESS") # {} THEN Values(m, "ADDRESS") ELSE {"none"})
  <2>1. CASE Values(m, "LOCAL") # {}
    BY <1>1, <1>2, <2>1
  <2>2. CASE Values(m, "LOCAL") = {}
    BY <1>1, <1>2, <2>2
  <2> QED  BY <2>1, <2>2
<1>4. PICK off : AttributesAt(m, off) /\ SeenOf(m, off)
  BY AttributesSeen
<1> DEFINE n == Cardinality(DOMAIN m.attrs)
           A == Attributes(m)
<1>5. DOMAIN m.attrs = {off[i] : i \in 1 .. n}
  BY <1>4 DEF AttributesAt
<1>6. A = [i \in 1 .. n |-> [off |-> off[i], item |-> m.attrs[off[i]]]]
  BY <1>4 DEF SeenOf
<1>7. Overruns(m) <=> \E i \in DOMAIN A : A[i].item.type \in {"LOCAL", "ADDRESS"} /\ CopyLen(A[i].item) > 4
  BY DEF Overruns
<1> HIDE DEF A, n
<1>8. DOMAIN A = 1 .. n /\ \A i \in 1 .. n : A[i].item = m.attrs[off[i]] /\ off[i] \in DOMAIN m.attrs
  BY <1>5, <1>6
<1>9. ASSUME NEW o \in DOMAIN m.attrs, m.attrs[o].type \in {"LOCAL", "ADDRESS"}
      PROVE  CopyLen(m.attrs[o]) > 4 <=> m.family = "inet6"
  <2>1. m.attrs[o].len = RTA_LENGTH(IF m.family = "inet6" THEN 16 ELSE 4)
    BY <1>9 DEF IsMessage
  <2> QED  BY <2>1 DEF CopyLen, RTA_LENGTH
<1>10. ASSUME Overruns(m)
       PROVE  HoldsIPv6(m)
  <2>1. PICK i \in DOMAIN A : A[i].item.type \in {"LOCAL", "ADDRESS"} /\ CopyLen(A[i].item) > 4
    BY <1>7, <1>10
  <2>2. off[i] \in DOMAIN m.attrs /\ A[i].item = m.attrs[off[i]]
    BY <1>8, <2>1
  <2>3. m.family = "inet6"
    BY <1>9, <2>1, <2>2
  <2> QED  BY <2>1, <2>2, <2>3 DEF HoldsIPv6
<1>11. ASSUME HoldsIPv6(m)
       PROVE  Overruns(m)
  <2>1. PICK o \in DOMAIN m.attrs : m.attrs[o].type \in {"LOCAL", "ADDRESS"}
    BY <1>11 DEF HoldsIPv6
  <2>2. CopyLen(m.attrs[o]) > 4
    BY <1>9, <1>11, <2>1 DEF HoldsIPv6
  <2>3. PICK i \in 1 .. n : o = off[i]
    BY <1>5, <2>1
  <2> QED  BY <1>7, <1>8, <2>1, <2>2, <2>3
<1> QED  BY <1>3, <1>10, <1>11

\* Addresses that are shown as they are meant (AddressesDecoded).
ShownRight(shown) ==
  \A i \in DOMAIN shown :
    /\ shown[i].of.body = "addr" =>
         shown[i].shows \in (IF Values(shown[i].of, "LOCAL") # {} THEN Values(shown[i].of, "LOCAL")
                             ELSE IF Values(shown[i].of, "ADDRESS") # {} THEN Values(shown[i].of, "ADDRESS")
                             ELSE {"none"})
    /\ shown[i].overruns \in BOOLEAN /\ (shown[i].overruns <=> HoldsIPv6(shown[i].of))

\* The handlers show messages of the kernel right.
LEMMA HandledRight ==
  ASSUME NEW seen, NEW types, types \subseteq {"NEWLINK", "NEWADDR", "DELADDR"},
         \A i \in DOMAIN seen : seen[i].item.type \in types => IsMessage(seen[i].item)
  PROVE  ShownRight(Handled(seen, types))
<1> DEFINE h == Handled(seen, types)
<1>1. SUFFICES ASSUME NEW i \in DOMAIN h
               PROVE  /\ h[i].of.body = "addr" =>
                           h[i].shows \in (IF Values(h[i].of, "LOCAL") # {} THEN Values(h[i].of, "LOCAL")
                                           ELSE IF Values(h[i].of, "ADDRESS") # {} THEN Values(h[i].of, "ADDRESS")
                                           ELSE {"none"})
                      /\ h[i].overruns \in BOOLEAN /\ (h[i].overruns <=> HoldsIPv6(h[i].of))
  <2> HIDE DEF h
  <2> SUFFICES ShownRight(h)
    BY DEF h
  <2> QED  BY DEF ShownRight
<1>2. PICK m : m = seen[i].item
  OBVIOUS
<1>3. /\ i \in DOMAIN seen /\ m.type \in types
      /\ h[i] = IF m.type = "NEWLINK" THEN process_link(m) ELSE process_addr(m)
  BY <1>2 DEF Handled
<1> HIDE DEF h
<1>4. IsMessage(m)
  BY <1>2, <1>3
<1>5. CASE m.type = "NEWLINK"
  <2>1. h[i].of = m /\ h[i].overruns = FALSE
    BY <1>3, <1>5 DEF process_link
  <2>2. m.body = "link"
    BY <1>4, <1>5 DEF IsMessage, BodyOf
  <2> QED  BY <2>1, <2>2 DEF HoldsIPv6
<1>6. CASE m.type # "NEWLINK"
  <2>1. h[i].of = m /\ h[i].overruns = Overruns(m) /\ h[i].shows = Printed(m)
    BY <1>3, <1>6 DEF process_addr
  <2>2. m.body = "addr"
    <3>1. m.type \in {"NEWADDR", "DELADDR"}
      BY <1>3, <1>6
    <3> QED  BY <1>4, <3>1 DEF IsMessage, BodyOf
  <2>3. Overruns(m) \in BOOLEAN
    BY DEF Overruns
  <2> QED  BY <1>4, <2>1, <2>2, <2>3, AddressShown, Zenon
<1> QED  BY <1>5, <1>6

-----------------------------------------------------------------------------
(* msgbuf. *)

\* What may be in it.
IsItem(it) ==
  \/ IsMessage(it)
  \/ it.type \in {"DONE", "ERROR"} /\ it.len \in Nat /\ it.len >= 16

\* msgbuf has items in it, none of which reaches behind what was written.
BufferOK(buf) ==
  /\ IsFiniteSet(DOMAIN buf.placed) /\ DOMAIN buf.placed \subseteq Nat /\ buf.written \in Nat
  /\ \A off \in DOMAIN buf.placed : IsItem(buf.placed[off]) /\ off + buf.placed[off].len <= buf.written

\* An item is a header with a length; one that ends no answer is a message.
LEMMA ItemIs ==
  ASSUME NEW it, IsItem(it)
  PROVE  /\ it.len \in Nat /\ it.len >= 16 /\ it # Zero
         /\ it.type \notin {"DONE", "ERROR"} => IsMessage(it)
<1>1. it.len \in Nat /\ it.len >= 16
  BY MessageLength DEF IsItem
<1>2. it # Zero
  BY <1>1 DEF Zero
<1> QED  BY <1>1, <1>2 DEF IsItem

\* The headers in msgbuf can be walked over.
LEMMA BufferSound == ASSUME NEW buf, BufferOK(buf) PROVE Sound(buf.placed)
BY ItemIs DEF BufferOK, Sound

\* What an answer is made of.
IsAnswer(a) ==
  /\ Len(a) \in Nat /\ Len(a) >= 1 /\ DOMAIN a = 1 .. Len(a)
  /\ \A i \in 1 .. Len(a) : IsItem(a[i])

\* Sums of lengths, from a first on.
Sums(f, n, from, len) == f \in [1 .. n + 1 -> Nat] /\ f[1] = from /\ \A i \in 1 .. n : f[i + 1] = f[i] + len[i]

\* There is one such function: by induction on its length.
LEMMA Summed ==
  ASSUME NEW n \in Nat, NEW from \in Nat, NEW len, \A i \in 1 .. n : len[i] \in Nat
  PROVE  \E f : Sums(f, n, from, len)
<1> DEFINE T == {m \in Nat : m <= n => \E f : Sums(f, m, from, len)}
<1>1. 0 \in T
  <2>1. Sums([i \in 1 .. 1 |-> from], 0, from, len)
    BY DEF Sums
  <2> QED  BY <2>1
<1>2. ASSUME NEW m \in Nat, m \in T
      PROVE  m + 1 \in T
  <2> SUFFICES ASSUME m + 1 <= n PROVE \E f : Sums(f, m + 1, from, len)
    OBVIOUS
  <2>1. PICK f : Sums(f, m, from, len)
    BY <1>2
  <2> DEFINE g == [i \in 1 .. (m + 1) + 1 |-> IF i = m + 2 THEN f[m + 1] + len[m + 1] ELSE f[i]]
  <2>2. f \in [1 .. m + 1 -> Nat] /\ f[1] = from /\ (\A i \in 1 .. m : f[i + 1] = f[i] + len[i]) /\ len[m + 1] \in Nat
    BY <2>1 DEF Sums
  <2>3. g \in [1 .. (m + 1) + 1 -> Nat]
    <3>1. f[m + 1] + len[m + 1] \in Nat
      BY <2>2
    <3>2. ASSUME NEW i \in 1 .. (m + 1) + 1, i # m + 2
          PROVE  f[i] \in Nat
      <4>1. i \in 1 .. m + 1
        BY <3>2
      <4> QED  BY <2>2, <4>1
    <3> QED  BY <3>1, <3>2
  <2>4. g[1] = from
    BY <2>2
  <2>5. ASSUME NEW i \in 1 .. m + 1
        PROVE  g[i + 1] = g[i] + len[i]
    <3>1. g[i] = f[i]
      OBVIOUS
    <3>2. CASE i = m + 1
      <4>1. g[i + 1] = f[m + 1] + len[m + 1]
        BY <3>2
      <4> QED  BY <3>1, <3>2, <4>1
    <3>3. CASE i # m + 1
      <4>1. i \in 1 .. m /\ i + 1 # m + 2 /\ i + 1 \in 1 .. (m + 1) + 1
        BY <3>3
      <4>2. g[i + 1] = f[i + 1]
        BY <4>1
      <4> QED  BY <2>2, <3>1, <4>1, <4>2
    <3> QED  BY <3>2, <3>3
  <2> HIDE DEF g
  <2>6. Sums(g, m + 1, from, len)
    BY <2>3, <2>4, <2>5 DEF Sums
  <2> QED  BY <2>6
<1> HIDE DEF T
<1>3. n \in T
  BY <1>1, <1>2, Induction
<1> QED  BY <1>3 DEF T

\* queue() puts each message of an answer behind the one before, by its length.
QueuedAt(a, q) ==
  /\ \A i \in 1 .. Len(a) + 1 : q[i] \in Nat
  /\ q[1] = 0 /\ \A i \in 1 .. Len(a) : q[i + 1] = q[i] + a[i].len

\* queue() puts the messages of an answer there.
LEMMA QueueOffsetsAre ==
  ASSUME NEW a, IsAnswer(a)
  PROVE  QueuedAt(a, QueueOffsets(a))
<1> DEFINE n == Len(a)
           R(f) == f = [i \in 1 .. n + 1 |-> IF i = 1 THEN 0 ELSE Advanced(f[i - 1], a[i - 1])]
           c == CHOOSE f : R(f)
           len == [i \in 1 .. n |-> a[i].len]
<1>1. n \in Nat /\ \A i \in 1 .. n : len[i] = a[i].len /\ len[i] \in Nat
  BY ItemIs DEF IsAnswer
<1> HIDE DEF n, len
<1>2. PICK f : Sums(f, n, 0, len)
  BY <1>1, Summed
<1>3. R(f)
  <2>1. ASSUME NEW i \in 1 .. n + 1
        PROVE  f[i] = IF i = 1 THEN 0 ELSE Advanced(f[i - 1], a[i - 1])
    <3>1. CASE i = 1
      BY <1>2, <3>1 DEF Sums
    <3>2. CASE i # 1
      <4>1. i - 1 \in 1 .. n /\ (i - 1) + 1 = i
        BY <1>1, <3>2
      <4>2. f[i] = f[i - 1] + len[i - 1]
        BY <1>2, <4>1 DEF Sums
      <4> QED  BY <1>1, <3>2, <4>1, <4>2 DEF Advanced
    <3> QED  BY <3>1, <3>2
  <2>2. DOMAIN f = 1 .. n + 1 /\ f = [i \in DOMAIN f |-> f[i]]
    BY <1>2 DEF Sums
  <2> QED  BY <2>1, <2>2
<1>4. R(c)
  <2> HIDE DEF R
  <2> QED  BY <1>3, Zenon
<1>5. QueueOffsets(a) = c
  BY DEF QueueOffsets, n
<1> HIDE DEF c
<1>6. \A i \in 1 .. n + 1 : c[i] = IF i = 1 THEN 0 ELSE Advanced(c[i - 1], a[i - 1])
  BY <1>4, Zenon
<1>7. c[1] = 0
  BY <1>1, <1>6
<1>8. ASSUME NEW i \in 1 .. n
      PROVE  c[i + 1] = c[i] + a[i].len
  <2>1. i + 1 \in 1 .. n + 1 /\ i + 1 # 1 /\ (i + 1) - 1 = i
    BY <1>1
  <2>2. c[i + 1] = Advanced(c[i], a[i])
    BY <1>6, <2>1
  <2> QED  BY <2>2 DEF Advanced
<1>9. \A i \in 1 .. n + 1 : c[i] \in Nat
  <2> DEFINE T == {i \in Nat : c[i] \in Nat}
  <2>1. 1 \in T
    BY <1>7
  <2>2. ASSUME NEW i \in 1 .. n + 1, i \in T, i + 1 <= n + 1
        PROVE  i + 1 \in T
    <3>1. i \in 1 .. n /\ c[i] \in Nat
      BY <1>1, <2>2
    <3>2. c[i + 1] = c[i] + a[i].len /\ a[i].len \in Nat
      BY <1>1, <1>8, <3>1
    <3> QED  BY <3>1, <3>2
  <2> HIDE DEF T
  <2>3. n + 1 \in Nat
    BY <1>1
  <2>4. \A i \in 1 .. n + 1 : i \in T
    BY <2>1, <2>2, <2>3, InductionUpTo
  <2> QED  BY <2>4 DEF T
<1> QED  BY <1>5, <1>7, <1>8, <1>9 DEF QueuedAt, n

\* A built request is longer than its header.
LEMMA BuiltLength == ASSUME NEW r, Built(r) PROVE r.len \in Nat /\ r.len >= 17 /\ r.len <= RequestSize
<1>1. PICK o : LaidAt(r, o)
  BY DEF Built
<1> DEFINE k == Len(r.added)
<1>2. k \in Nat
  BY BuiltCounted
<1>3. r.len \in Nat /\ r.len <= RequestSize
  BY DEF Built
<1> HIDE DEF k
<1>4. /\ \A i \in 1 .. k + 1 : o[i] \in Int
      /\ o[1] = Align(NLMSG_LENGTH(BodyLen(r.body))) /\ o[k + 1] = Align(r.len)
  BY <1>1 DEF LaidAt, k
<1>5. \A i \in 1 .. k : o[i] < o[i + 1]
  <2>1. ASSUME NEW i \in 1 .. k
        PROVE  o[i] < o[i + 1]
    <3>1. /\ r.placed[o[i]].len \in Nat /\ r.placed[o[i]].len >= 4
          /\ o[i + 1] = o[i] + Align(r.placed[o[i]].len)
      BY <1>1 DEF LaidAt, k
    <3>2. o[i] \in Int
      BY <1>2, <1>4
    <3>3. Align(r.placed[o[i]].len) \in Nat /\ r.placed[o[i]].len <= Align(r.placed[o[i]].len)
      BY <3>1, AlignProperties
    <3> QED  BY <3>1, <3>2, <3>3
  <2> QED  BY <2>1
<1>6. o[1] <= o[k + 1]
  <2>1. 1 \in 1 .. k + 1 /\ k + 1 \in 1 .. k + 1
    BY <1>2
  <2>2. o[1] \in Int /\ o[k + 1] \in Int
    BY <1>4, <2>1
  <2>3. CASE k = 0
    BY <2>2, <2>3
  <2>4. CASE k # 0
    <3>1. 1 < k + 1
      BY <1>2, <2>4
    <3>2. o[1] < o[k + 1]
      BY <1>2, <1>4, <1>5, <2>1, <3>1, Growing
    <3> QED  BY <2>2, <3>2
  <2> QED  BY <2>3, <2>4
<1>7. PICK h \in Nat : h = NLMSG_LENGTH(BodyLen(r.body)) /\ h >= 17
  <2>1. r.body \in {"addr", "route", "rule", "gen"}
    BY DEF Built
  <2> QED  BY <2>1, BodyLength
<1>8. PICK l \in Nat : l = r.len
  BY <1>3
<1>9. Align(h) <= Align(l)
  BY <1>4, <1>6, <1>7, <1>8
<1>10. l >= 17
  BY <1>7, <1>9 DEF Align
<1> QED  BY <1>3, <1>8, <1>10

\* The messages of an answer lie one behind the other.
LEMMA QueuedGrow ==
  ASSUME NEW a, IsAnswer(a), NEW q, QueuedAt(a, q)
  PROVE  /\ \A i \in 1 .. Len(a) : q[i] < q[i + 1] /\ q[i] + a[i].len = q[i + 1]
         /\ \A i \in 1 .. Len(a) + 1 : \A j \in 1 .. Len(a) + 1 : i < j => q[i] < q[j]
         /\ \A i \in 1 .. Len(a) + 1 : q[i] <= q[Len(a) + 1]
<1> DEFINE n == Len(a)
<1>1. n \in Nat /\ \A i \in 1 .. n : a[i].len \in Nat /\ a[i].len >= 16
  BY ItemIs DEF IsAnswer
<1> HIDE DEF n
<1>2. /\ \A i \in 1 .. n + 1 : q[i] \in Nat
      /\ \A i \in 1 .. n : q[i + 1] = q[i] + a[i].len
  BY DEF QueuedAt, n
<1>3. \A i \in 1 .. n : q[i] < q[i + 1] /\ q[i] + a[i].len = q[i + 1]
  <2>1. ASSUME NEW i \in 1 .. n
        PROVE  q[i] < q[i + 1] /\ q[i] + a[i].len = q[i + 1]
    <3>1. i \in 1 .. n + 1
      BY <1>1
    <3> QED  BY <1>1, <1>2, <3>1
  <2> QED  BY <2>1
<1>4. \A i \in 1 .. n + 1 : q[i] \in Int
  BY <1>2
<1>5. \A i \in 1 .. n : q[i] < q[i + 1]
  BY <1>3
<1>6. ASSUME NEW i \in 1 .. n + 1, NEW j \in 1 .. n + 1, i < j
      PROVE  q[i] < q[j]
  BY <1>1, <1>4, <1>5, <1>6, Growing
<1>7. ASSUME NEW i \in 1 .. n + 1
      PROVE  q[i] <= q[n + 1]
  <2>1. n + 1 \in 1 .. n + 1
    BY <1>1
  <2>2. CASE i = n + 1
    BY <1>2, <2>1, <2>2
  <2>3. CASE i # n + 1
    <3>1. i < n + 1
      BY <1>1, <2>3
    <3>2. q[i] < q[n + 1] /\ q[i] \in Nat /\ q[n + 1] \in Nat
      BY <1>2, <1>6, <2>1, <3>1
    <3> QED  BY <3>2
  <2> QED  BY <2>2, <2>3
<1> QED  BY <1>3, <1>6, <1>7 DEF n

\* Items that are laid out are where their offsets say, if these differ, and
\* there is nothing else.
LaidOut(placed, items, off) ==
  /\ DOMAIN placed = {off[i] : i \in DOMAIN items}
  /\ \A o \in DOMAIN placed : \E i \in DOMAIN items : off[i] = o /\ placed[o] = items[i]

\* Items that are laid at offsets are so laid out.
LEMMA LaidFrom ==
  ASSUME NEW items, NEW off
  PROVE  LaidOut(Laid(items, off), items, off)
<1>1. DOMAIN Laid(items, off) = {off[i] : i \in DOMAIN items}
  BY DEF Laid
<1>2. ASSUME NEW o \in DOMAIN Laid(items, off)
      PROVE  \E i \in DOMAIN items : off[i] = o /\ Laid(items, off)[o] = items[i]
  <2> DEFINE i == CHOOSE i \in DOMAIN items : off[i] = o
  <2>1. \E j \in DOMAIN items : off[j] = o
    BY <1>1
  <2>2. i \in DOMAIN items /\ off[i] = o
    BY <2>1
  <2>3. Laid(items, off)[o] = items[i]
    BY <1>1 DEF Laid
  <2> HIDE DEF i
  <2> QED  BY <2>2, <2>3
<1> QED  BY <1>1, <1>2 DEF LaidOut

\* What is in msgbuf after an answer: all of it, at the offsets it was queued.
StoredRight(a, q, buf) ==
  /\ BufferOK(buf)
  /\ \A i \in 1 .. Len(a) : q[i] \in DOMAIN buf.placed /\ buf.placed[q[i]] = a[i]

\* queue() leaves msgbuf so, whatever was in it before.
LEMMA StoredIs ==
  ASSUME BufferOK(msgbuf), NEW a, IsAnswer(a)
  PROVE  StoredRight(a, QueueOffsets(a), Stored(a))
<1> DEFINE q == QueueOffsets(a)
           n == Len(a)
           end == Queued(a)
           new == Laid(a, q)
           kept == {off \in DOMAIN msgbuf.placed : off >= end}
           buf == Stored(a)
<1>1. QueuedAt(a, q)
  BY QueueOffsetsAre
<1>2. end = q[n + 1]
  BY DEF Queued
<1>3. buf = [placed |-> [off \in DOMAIN new \cup kept |-> IF off \in DOMAIN new THEN new[off] ELSE msgbuf.placed[off]],
             written |-> IF end > msgbuf.written THEN end ELSE msgbuf.written]
  BY DEF Stored
<1>4. n \in Nat /\ DOMAIN a = 1 .. n /\ \A i \in 1 .. n : IsItem(a[i])
  BY DEF IsAnswer
<1> HIDE DEF q, end, new, buf, n
<1>5. /\ \A i \in 1 .. n + 1 : q[i] \in Nat /\ q[i] <= q[n + 1]
      /\ \A i \in 1 .. n : q[i] + a[i].len = q[i + 1]
      /\ \A i \in 1 .. n + 1 : \A j \in 1 .. n + 1 : i < j => q[i] < q[j]
  BY <1>1, QueuedGrow DEF QueuedAt, n
<1>6. end \in Nat
  <2>1. n + 1 \in 1 .. n + 1
    BY <1>4
  <2> QED  BY <1>2, <1>5, <2>1
<1>7. /\ DOMAIN new = {q[i] : i \in 1 .. n}
      /\ \A o \in DOMAIN new : \E i \in 1 .. n : q[i] = o /\ new[o] = a[i]
  <2>1. /\ DOMAIN new = {q[i] : i \in DOMAIN a}
        /\ \A o \in DOMAIN new : \E i \in DOMAIN a : q[i] = o /\ new[o] = a[i]
    <3>1. LaidOut(new, a, q)
      BY LaidFrom DEF new
    <3> QED  BY <3>1 DEF LaidOut
  <2>2. DOMAIN a = 1 .. n
    BY <1>4
  <2> QED  BY <2>1, <2>2
<1>8. \A i \in 1 .. n : q[i] \in DOMAIN new /\ new[q[i]] = a[i]
  <2>1. ASSUME NEW i \in 1 .. n
        PROVE  q[i] \in DOMAIN new /\ new[q[i]] = a[i]
    <3>1. q[i] \in DOMAIN new
      BY <1>7
    <3>2. PICK j \in 1 .. n : q[j] = q[i] /\ new[q[i]] = a[j]
      BY <1>7, <3>1
    <3>3. i \in 1 .. n + 1 /\ j \in 1 .. n + 1
      BY <1>4
    <3>4. ~(i < j) /\ ~(j < i)
      <4>1. q[i] \in Nat /\ q[j] \in Nat
        BY <1>5, <3>3
      <4> QED  BY <1>5, <3>2, <3>3, <4>1
    <3>5. i = j
      BY <3>4
    <3> QED  BY <3>1, <3>2, <3>5
  <2> QED  BY <2>1
<1>9. /\ DOMAIN buf.placed = DOMAIN new \cup kept
      /\ buf.written = (IF end > msgbuf.written THEN end ELSE msgbuf.written)
      /\ \A off \in DOMAIN new : buf.placed[off] = new[off]
      /\ \A off \in kept : off \notin DOMAIN new => buf.placed[off] = msgbuf.placed[off]
  BY <1>3
<1>10. /\ msgbuf.written \in Nat /\ IsFiniteSet(DOMAIN msgbuf.placed) /\ DOMAIN msgbuf.placed \subseteq Nat
       /\ \A off \in DOMAIN msgbuf.placed : IsItem(msgbuf.placed[off]) /\ off + msgbuf.placed[off].len <= msgbuf.written
  BY DEF BufferOK
<1>11. buf.written \in Nat /\ end <= buf.written /\ msgbuf.written <= buf.written
  BY <1>6, <1>9, <1>10
<1>12. IsFiniteSet(DOMAIN buf.placed)
  <2>1. kept \in SUBSET DOMAIN msgbuf.placed
    OBVIOUS
  <2> HIDE DEF kept
  <2>2. IsFiniteSet(kept)
    BY <1>10, <2>1, FS_Subset
  <2>3. \A i \in 1 .. n : q[i] \in Int
    <3>1. \A i \in 1 .. n : i \in 1 .. n + 1
      BY <1>4
    <3> QED  BY <1>5, <3>1
  <2>4. \A i \in 1 .. n : \A j \in 1 .. n : i < j => q[i] < q[j]
    <3>1. \A i \in 1 .. n : i \in 1 .. n + 1
      BY <1>4
    <3> QED  BY <1>5, <3>1
  <2>5. IsFiniteSet({q[i] : i \in 1 .. n})
    BY <1>4, <2>3, <2>4, PlacesCounted
  <2>6. IsFiniteSet(DOMAIN new)
    BY <1>7, <2>5
  <2>7. IsFiniteSet(DOMAIN new \cup kept)
    BY <2>2, <2>6, FS_Union
  <2> QED  BY <1>9, <2>7
<1>13. ASSUME NEW off \in DOMAIN buf.placed
       PROVE  off \in Nat /\ IsItem(buf.placed[off]) /\ off + buf.placed[off].len <= buf.written
  <2>1. CASE off \in DOMAIN new
    <3>1. PICK i \in 1 .. n : q[i] = off
      BY <1>7, <2>1
    <3>2. i \in 1 .. n + 1 /\ i + 1 \in 1 .. n + 1
      BY <1>4
    <3>3. buf.placed[off] = a[i]
      BY <1>8, <1>9, <2>1, <3>1
    <3>4. IsItem(a[i]) /\ off \in Nat
      BY <1>4, <1>5, <3>1, <3>2
    <3>5. off + a[i].len = q[i + 1] /\ q[i + 1] <= end /\ q[i + 1] \in Nat
      BY <1>2, <1>5, <3>1, <3>2
    <3>6. off + a[i].len <= buf.written
      BY <1>6, <1>11, <3>5
    <3> QED  BY <3>3, <3>4, <3>6
  <2>2. CASE off \notin DOMAIN new
    <3>1. off \in kept /\ off \in DOMAIN msgbuf.placed
      BY <1>9, <2>2
    <3>2. buf.placed[off] = msgbuf.placed[off]
      BY <1>9, <2>2, <3>1
    <3>3. IsItem(msgbuf.placed[off]) /\ off + msgbuf.placed[off].len <= msgbuf.written /\ off \in Nat
      BY <1>10, <3>1
    <3>4. msgbuf.placed[off].len \in Nat
      BY <3>3, ItemIs
    <3>5. off + msgbuf.placed[off].len <= buf.written
      BY <1>10, <1>11, <3>3, <3>4
    <3> QED  BY <3>2, <3>3, <3>5
  <2> QED  BY <2>1, <2>2
<1>14. BufferOK(buf)
  <2>1. DOMAIN buf.placed \subseteq Nat
    BY <1>13
  <2> QED  BY <1>11, <1>12, <1>13, <2>1 DEF BufferOK
<1>15. \A i \in 1 .. n : q[i] \in DOMAIN buf.placed /\ buf.placed[q[i]] = a[i]
  BY <1>8, <1>9
<1> QED  BY <1>14, <1>15 DEF StoredRight, q, buf, n

-----------------------------------------------------------------------------
(* Answers. *)

\* The messages that end an answer.
LEMMA PlainItems ==
  /\ Done.type = "DONE" /\ Done.len = 20 /\ Ack.type = "ERROR" /\ Ack.len = 36
  /\ IsItem(Done) /\ IsItem(Ack)
BY DEF Done, Ack, Plain, NLMSG_LENGTH, IsItem

\* A dump: messages of the kernel, and an NLMSG_DONE.
IsDump(a) ==
  /\ Len(a) \in 1 .. MaxDump + 1 /\ DOMAIN a = 1 .. Len(a)
  /\ \A i \in 1 .. Len(a) : i < Len(a) => IsMessage(a[i])
  /\ a[Len(a)] = Done

\* A dump is its messages and the one that ends it.
LEMMA DumpIs ==
  ASSUME NEW M, \A m \in M : IsMessage(m), NEW a \in DumpOf(M)
  PROVE  IsDump(a)
<1>1. PICK n \in 0 .. MaxDump : \E s \in [1 .. n -> M] : a = s \o <<Done>>
  BY DEF DumpOf
<1>2. PICK s \in [1 .. n -> M] : a = s \o <<Done>>
  BY <1>1
<1>3. MaxDump \in Nat /\ n \in Nat /\ n <= MaxDump
  BY Sizes
<1> DEFINE S == M \cup {Done}
<1>4. s \in Seq(S) /\ Len(s) = n /\ DOMAIN s = 1 .. n
  BY <1>3
<1>5. <<Done>> \in Seq(S) /\ Len(<<Done>>) = 1 /\ <<Done>>[1] = Done
  OBVIOUS
<1> HIDE DEF S
<1>6. /\ a \in Seq(S) /\ Len(a) = n + 1
      /\ \A i \in 1 .. n + 1 : a[i] = IF i <= n THEN s[i] ELSE <<Done>>[i - n]
  BY <1>2, <1>4, <1>5, ConcatProperties
<1>7. \A i \in 1 .. n + 1 : i < n + 1 => IsMessage(a[i])
  <2>1. ASSUME NEW i \in 1 .. n + 1, i < n + 1
        PROVE  IsMessage(a[i])
    <3>1. i \in 1 .. n /\ a[i] = s[i]
      BY <1>3, <1>6, <2>1
    <3> QED  BY <1>2, <3>1
  <2> QED  BY <2>1
<1>8. a[n + 1] = Done
  <2>1. n + 1 \in 1 .. n + 1 /\ ~(n + 1 <= n) /\ (n + 1) - n = 1
    BY <1>3
  <2> QED  BY <1>5, <1>6, <2>1
<1>9. DOMAIN a = 1 .. n + 1 /\ n + 1 \in 1 .. MaxDump + 1
  BY <1>3, <1>6
<1> QED  BY <1>6, <1>7, <1>8, <1>9 DEF IsDump

\* A dump is an answer.
LEMMA DumpAnswer == ASSUME NEW a, IsDump(a) PROVE IsAnswer(a)
<1> DEFINE n == Len(a)
<1>1. n \in Nat /\ n >= 1 /\ DOMAIN a = 1 .. n
  BY Sizes DEF IsDump
<1>2. a[n] = Done /\ \A i \in 1 .. n : i < n => IsMessage(a[i])
  BY DEF IsDump
<1> HIDE DEF n
<1>3. ASSUME NEW i \in 1 .. n
      PROVE  IsItem(a[i])
  <2>1. CASE i = n
    BY <1>2, <2>1, PlainItems
  <2>2. CASE i # n
    <3>1. i < n
      BY <1>1, <2>2
    <3>2. IsMessage(a[i])
      BY <1>2, <3>1
    <3> QED  BY <3>2 DEF IsItem
  <2> QED  BY <2>1, <2>2
<1> QED  BY <1>1, <1>3 DEF IsAnswer, n

\* A dump is shorter than what a size_t counts to.
LEMMA DumpShort ==
  ASSUME NEW a, IsDump(a)
  PROVE  Queued(a) \in Nat /\ Queued(a) < SizeMod
<1> DEFINE q == QueueOffsets(a)
           n == Len(a)
<1>1. IsAnswer(a) /\ QueuedAt(a, q)
  BY DumpAnswer, QueueOffsetsAre
<1>2. n \in Nat /\ n <= MaxDump + 1 /\ MaxDump \in Nat /\ MaxMessage \in Nat /\ SizeMod \in Nat
  BY Sizes DEF IsDump
<1> HIDE DEF q, n
<1>3. \A i \in 1 .. n : a[i].len \in Nat /\ a[i].len <= MaxMessage
  <2>1. ASSUME NEW i \in 1 .. n
        PROVE  a[i].len \in Nat /\ a[i].len <= MaxMessage
    <3>1. CASE i = n
      BY <3>1, PlainItems, Sizes DEF IsDump, n
    <3>2. CASE i # n
      <4>1. i < n
        BY <1>2, <3>2
      <4>2. IsMessage(a[i])
        BY <4>1 DEF IsDump, n
      <4> QED  BY <4>2, MessageLength
    <3> QED  BY <3>1, <3>2
  <2> QED  BY <2>1
<1>4. /\ \A i \in 1 .. n + 1 : q[i] \in Nat
      /\ q[1] = 0 /\ \A i \in 1 .. n : q[i + 1] = q[i] + a[i].len
  BY <1>1 DEF QueuedAt, n
<1>5. \A i \in 1 .. n + 1 : q[i] <= (i - 1) * MaxMessage
  <2> DEFINE T == {i \in Nat : q[i] <= (i - 1) * MaxMessage}
  <2>1. 1 \in T
    BY <1>2, <1>4
  <2>2. ASSUME NEW i \in 1 .. n + 1, i \in T, i + 1 <= n + 1
        PROVE  i + 1 \in T
    <3>1. i \in 1 .. n /\ i \in Nat
      BY <1>2, <2>2
    <3>2. q[i + 1] = q[i] + a[i].len /\ q[i] \in Nat /\ q[i] <= (i - 1) * MaxMessage
      BY <1>4, <2>2, <3>1
    <3>3. a[i].len \in Nat /\ a[i].len <= MaxMessage
      BY <1>3, <3>1
    <3>4. (i - 1) * MaxMessage \in Int /\ ((i + 1) - 1) * MaxMessage = (i - 1) * MaxMessage + MaxMessage
      BY <1>2, <3>1
    <3>5. q[i + 1] <= ((i + 1) - 1) * MaxMessage
      BY <1>2, <3>2, <3>3, <3>4
    <3> QED  BY <3>1, <3>5
  <2> HIDE DEF T
  <2>3. n + 1 \in Nat
    BY <1>2
  <2>4. \A i \in 1 .. n + 1 : i \in T
    BY <2>1, <2>2, <2>3, InductionUpTo
  <2> QED  BY <2>4 DEF T
<1>6. q[n + 1] \in Nat /\ q[n + 1] <= n * MaxMessage
  <2>1. n + 1 \in 1 .. n + 1 /\ (n + 1) - 1 = n
    BY <1>2
  <2> QED  BY <1>4, <1>5, <2>1
<1>7. n * MaxMessage <= (MaxDump + 1) * MaxMessage
  <2>1. PICK d \in Nat : MaxDump + 1 = n + d
    <3>1. (MaxDump + 1) - n \in Nat
      BY <1>2
    <3> QED  BY <1>2, <3>1
  <2>2. (n + d) * MaxMessage = n * MaxMessage + d * MaxMessage /\ d * MaxMessage \in Nat /\ n * MaxMessage \in Nat
    BY <1>2, <2>1
  <2> QED  BY <2>1, <2>2
<1>8. (MaxDump + 1) * MaxMessage < SizeMod
  BY WireAssumption
<1>9. n * MaxMessage \in Nat /\ (MaxDump + 1) * MaxMessage \in Nat
  BY <1>2
<1>10. q[n + 1] < SizeMod
  BY <1>2, <1>6, <1>7, <1>8, <1>9
<1> QED  BY <1>6, <1>10 DEF Queued, q, n

\* An error alone: a refusal or an acknowledgement.
IsError(a) == Len(a) = 1 /\ DOMAIN a = 1 .. 1 /\ a[1].type = "ERROR" /\ a[1].len \in Nat /\ a[1].len >= 36

\* An error is an answer.
LEMMA ErrorAnswer == ASSUME NEW a, IsError(a) PROVE IsAnswer(a)
BY DEF IsError, IsAnswer, IsItem

\* A refusal is an error, as long as the request in it makes it.
LEMMA RefusalIs ==
  ASSUME NEW r, r.len \in Nat, r.len >= 16, r.len <= RequestSize, NEW pads
  PROVE  /\ IsError(<<Refusal(r, pads)>>) /\ Refusal(r, pads).len < SizeMod
         /\ Refusal(r, pads).len = 36 + (IF pads THEN Align(r.len - 16) ELSE r.len - 16)
<1>1. PICK n \in Nat : n = r.len - 16 /\ n + 16 <= RequestSize
  BY Sizes
<1>2. Align(n) \in Nat /\ Align(n) <= n + 3
  BY AlignProperties
<1>3. PICK x : x = Refusal(r, pads)
  OBVIOUS
<1>4. x.type = "ERROR" /\ x.len = 16 + (20 + (IF pads THEN Align(n) ELSE n))
  BY <1>1, <1>3 DEF Refusal, Plain, NLMSG_LENGTH
<1>5. x.len \in Nat /\ x.len >= 36 /\ x.len < SizeMod /\ x.len = 36 + (IF pads THEN Align(n) ELSE n)
  BY <1>1, <1>2, <1>4, Sizes
<1>6. IsError(<<x>>)
  <2>1. Len(<<x>>) = 1 /\ DOMAIN <<x>> = 1 .. 1 /\ <<x>>[1] = x
    OBVIOUS
  <2> QED  BY <1>4, <1>5, <2>1 DEF IsError
<1> QED  BY <1>1, <1>3, <1>5, <1>6

\* An answer to a dump is one or a refusal.
LEMMA AnswerCases ==
  ASSUME NEW r, NEW M, \A m \in M : IsMessage(m), NEW a \in Answers(r, M)
  PROVE  IsDump(a) \/ \E pads \in BOOLEAN : a = <<Refusal(r, pads)>>
BY DumpIs DEF Answers

-----------------------------------------------------------------------------
(* Walks over msgbuf. *)

\* Aligning leaves an aligned length alone.
LEMMA AlignedLength == ASSUME NEW n \in Nat, n % 4 = 0 PROVE Align(n) = n
BY DEF Align

\* A walk that has seen the first m messages of an answer, where they are, and
\* has read nothing that is not of it.
SeesAnswer(W, a, q, m) == W.seen = [i \in 1 .. m |-> [off |-> q[i], item |-> a[i]]]

\* A walk that has seen the first messages of an answer and ends at one of them, or
\* with nothing left, has read nothing else.
LEMMA NoStrays ==
  ASSUME NEW a, IsAnswer(a), NEW q, QueuedAt(a, q), NEW buf, StoredRight(a, q, buf), NEW W,
         NEW m \in 0 .. Len(a), SeesAnswer(W, a, q, m),
         W.left = 0 \/ \E i \in 1 .. Len(a) : W.end = q[i]
  PROVE  ~Strays(buf, W, q[Len(a) + 1])
<1> DEFINE n == Len(a)
<1>1. n \in Nat
  BY DEF IsAnswer
<1>2. ASSUME NEW i \in DOMAIN W.seen
      PROVE  ~(W.seen[i].off >= q[n + 1])
  <2>1. i \in 1 .. m /\ W.seen[i].off = q[i]
    BY DEF SeesAnswer
  <2>2. i \in 1 .. n + 1 /\ n + 1 \in 1 .. n + 1 /\ i < n + 1
    BY <1>1, <2>1
  <2>3. q[i] < q[n + 1]
    BY <2>2, QueuedGrow
  <2>4. q[i] \in Nat /\ q[n + 1] \in Nat
    BY <2>2 DEF QueuedAt
  <2> HIDE DEF n
  <2> QED  BY <2>1, <2>3, <2>4
<1>3. ~(W.left >= 16 /\ Garbage(buf, W.end))
  <2>1. CASE W.left = 0
    BY <2>1
  <2>2. ASSUME NEW i \in 1 .. n, W.end = q[i]
        PROVE  ~Garbage(buf, W.end)
    <3>1. q[i] \in DOMAIN buf.placed /\ buf.placed[q[i]] = a[i]
      BY DEF StoredRight
    <3>2. a[i] # Zero
      BY ItemIs DEF IsAnswer
    <3> QED  BY <2>2, <3>1, <3>2 DEF Garbage, At
  <2> QED  BY <2>1, <2>2
<1> QED  BY <1>2, <1>3 DEF Strays

\* Where the messages of an answer are aligned, a walk over it sees all of them,
\* whether it stops at the last or goes on behind it.
LEMMA WalkAll ==
  ASSUME NEW a, IsAnswer(a), NEW q, QueuedAt(a, q), NEW buf, StoredRight(a, q, buf), NEW walker,
         walker.header = 16, walker.tests = 0, q[Len(a) + 1] < SizeMod,
         NEW k \in 0 .. Len(a), \A i \in 1 .. k : a[i].len % 4 = 0 /\ a[i].type \notin walker.stops,
         k = Len(a) \/ (k = Len(a) - 1 /\ a[Len(a)].type \in walker.stops)
  PROVE  LET W == WalkFrom(buf.placed, 0, q[Len(a) + 1], walker)
         IN  SeesAnswer(W, a, q, Len(a)) /\ ~Strays(buf, W, q[Len(a) + 1])
<1> DEFINE n == Len(a)
           length == q[n + 1]
           W == WalkFrom(buf.placed, 0, length, walker)
<1>1. n \in Nat /\ n >= 1 /\ k \in Nat /\ k <= n /\ \A i \in 1 .. n : a[i].len \in Nat /\ a[i].len >= 16
  <2>1. n \in Nat /\ n >= 1 /\ \A i \in 1 .. n : a[i].len \in Nat /\ a[i].len >= 16
    BY ItemIs DEF IsAnswer
  <2>2. k \in 0 .. n
    OBVIOUS
  <2> HIDE DEF n
  <2> QED  BY <2>1, <2>2
<1>2. q[1] = 0 /\ \A i \in 1 .. n + 1 : q[i] \in Nat
  BY DEF QueuedAt
<1>3. /\ \A i \in 1 .. n : q[i] + a[i].len = q[i + 1]
      /\ \A i \in 1 .. n + 1 : q[i] <= q[n + 1]
  BY QueuedGrow
<1>4. \A i \in 1 .. n : q[i] \in DOMAIN buf.placed /\ buf.placed[q[i]] = a[i]
  BY DEF StoredRight
<1>5. Sound(buf.placed)
  BY BufferSound DEF StoredRight
<1>6. k = n \/ (k = n - 1 /\ a[n].type \in walker.stops)
  OBVIOUS
<1>7. length \in Nat /\ length < SizeMod
  <2>1. n + 1 \in 1 .. n + 1
    BY <1>1
  <2> QED  BY <1>2, <2>1
<1> HIDE DEF n
<1>8. Along(buf.placed, q, k, length, walker)
  <2>1. ASSUME NEW i \in 1 .. k
        PROVE  /\ q[i] \in DOMAIN buf.placed /\ q[i + 1] = q[i] + Align(buf.placed[q[i]].len)
               /\ buf.placed[q[i]].len >= walker.header
               /\ q[i] + buf.placed[q[i]].len <= q[1] + length
               /\ buf.placed[q[i]].type \notin walker.stops
    <3>1. i \in 1 .. n /\ i + 1 \in 1 .. n + 1
      BY <1>1
    <3>2. buf.placed[q[i]] = a[i] /\ q[i] \in DOMAIN buf.placed
      BY <1>4, <3>1
    <3>3. PICK l \in Nat : l = a[i].len
      BY <1>1, <3>1
    <3>4. l % 4 = 0
      BY <3>3
    <3>5. Align(l) = l
      BY <3>4 DEF Align
    <3>6. q[i] + l = q[i + 1] /\ q[i + 1] <= length /\ l >= 16
      BY <1>1, <1>3, <3>1, <3>3
    <3>7. a[i].type \notin walker.stops
      OBVIOUS
    <3>8. q[1] + length = length
      BY <1>2, <1>7
    <3> QED  BY <3>2, <3>3, <3>5, <3>6, <3>7, <3>8
  <2>2. \A i \in 1 .. k + 1 : q[i] \in Int /\ q[i] <= q[1] + length
    <3>1. ASSUME NEW i \in 1 .. k + 1
          PROVE  q[i] \in Int /\ q[i] <= q[1] + length
      <4>1. i \in 1 .. n + 1
        BY <1>1
      <4>2. q[1] + length = length
        BY <1>2, <1>7
      <4> QED  BY <1>2, <1>3, <4>1, <4>2
    <3> QED  BY <3>1
  <2>3. \/ (q[1] + length) - q[k + 1] < walker.header
        \/ At(buf.placed, q[k + 1]).type \in walker.stops
    <3>1. CASE k = n
      <4>1. (q[1] + length) - q[k + 1] = 0
        BY <1>2, <1>7, <3>1
      <4> QED  BY <4>1
    <3>2. CASE k = n - 1 /\ a[n].type \in walker.stops
      <4>1. k + 1 = n /\ n \in 1 .. n
        BY <1>1, <3>2
      <4>2. At(buf.placed, q[n]) = a[n]
        BY <1>4, <4>1 DEF At
      <4> QED  BY <3>2, <4>1, <4>2
    <3> QED  BY <1>6, <3>1, <3>2
  <2> HIDE DEF length
  <2> QED  BY <1>1, <1>7, <2>1, <2>2, <2>3 DEF Along
<1>9. WentAlong(W, buf.placed, q, k, length, walker)
  <2>1. length \in Int
    BY <1>7
  <2> HIDE DEF length
  <2>2. WentAlong(WalkFrom(buf.placed, q[1], length, walker), buf.placed, q, k, length, walker)
    BY <1>5, <1>8, <2>1, WalkAlong
  <2> QED  BY <1>2, <2>2
<1> DEFINE rest == (q[1] + length) - q[k + 1]
           P == Place(buf.placed, q[k + 1], rest)
           m == IF GoesOn(walker, P) THEN k + 1 ELSE k
<1> HIDE DEF W
<1>10. W.seen = [i \in 1 .. m |-> [off |-> q[i], item |-> At(buf.placed, q[i])]] /\ W.end = q[k + 1] /\ W.left = rest
  BY <1>9 DEF WentAlong
<1>11. m = n /\ (rest = 0 \/ \E i \in 1 .. n : W.end = q[i])
  <2>0. P.left = rest /\ P.item = At(buf.placed, q[k + 1])
    BY DEF Place
  <2> HIDE DEF P
  <2>1. CASE k = n
    <3>1. rest = 0
      BY <1>2, <1>7, <2>1
    <3> HIDE DEF rest
    <3>2. ~GoesOn(walker, P)
      BY <2>0, <3>1 DEF GoesOn, InOrder
    <3> QED  BY <2>1, <3>1, <3>2
  <2>2. CASE k = n - 1 /\ a[n].type \in walker.stops
    <3>1. k + 1 = n /\ n \in 1 .. n /\ n + 1 \in 1 .. n + 1
      BY <1>1, <2>2
    <3>2. At(buf.placed, q[n]) = a[n]
      BY <1>4, <3>1 DEF At
    <3>3. q[n] + a[n].len = length /\ q[n] \in Nat /\ a[n].len \in Nat /\ a[n].len >= 16
      <4>1. n \in 1 .. n + 1
        BY <1>1
      <4> QED  BY <1>1, <1>2, <1>3, <3>1, <4>1
    <3>4. rest = a[n].len
      <4>1. q[1] + length = length /\ q[k + 1] = q[n]
        BY <1>2, <1>7, <3>1
      <4>2. PICK x \in Nat, y \in Nat : x = q[n] /\ y = a[n].len /\ x + y = length
        BY <3>3
      <4> HIDE DEF length
      <4> QED  BY <4>1, <4>2
    <3> HIDE DEF rest
    <3>5. GoesOn(walker, P)
      <4>1. PICK l \in Nat : l = a[n].len /\ l >= 16
        BY <3>3
      <4>2. P.left = l /\ P.item.len = l
        BY <2>0, <3>1, <3>2, <3>4, <4>1
      <4> QED  BY <4>1, <4>2 DEF GoesOn, InOrder
    <3>6. m = n
      BY <3>1, <3>5
    <3> QED  BY <1>10, <3>1, <3>6
  <2> QED  BY <1>6, <2>1, <2>2
<1> HIDE DEF m, rest
<1>12. \A i \in 1 .. n : At(buf.placed, q[i]) = a[i]
  BY <1>4 DEF At
<1>13. [i \in 1 .. n |-> [off |-> q[i], item |-> At(buf.placed, q[i])]] = [i \in 1 .. n |-> [off |-> q[i], item |-> a[i]]]
  BY <1>12
<1>14. SeesAnswer(W, a, q, n)
  BY <1>10, <1>11, <1>13 DEF SeesAnswer
<1>15. W.left = 0 \/ \E i \in 1 .. n : W.end = q[i]
  BY <1>10, <1>11
<1>16. n \in 0 .. n
  BY <1>1
<1>17. ~Strays(buf, W, q[n + 1])
  BY <1>14, <1>15, <1>16, NoStrays DEF n
<1> QED  BY <1>14, <1>17 DEF W, n, length

\* The walk that tests another length than that of what it comes to goes along
\* the answer all the same, up to where it stays.
LEMMA WalkTested ==
  ASSUME NEW a, IsAnswer(a), NEW q, QueuedAt(a, q), NEW buf, StoredRight(a, q, buf), NEW walker,
         walker.header = 16, walker.stops = {}, q[Len(a) + 1] < SizeMod,
         \A i \in 1 .. Len(a) : a[i].len % 4 = 0
  PROVE  LET W == WalkFrom(buf.placed, 0, q[Len(a) + 1], walker)
         IN  (\E m \in 0 .. Len(a) : SeesAnswer(W, a, q, m)) /\ ~Strays(buf, W, q[Len(a) + 1])
<1> DEFINE n == Len(a)
           length == q[n + 1]
           C(i) == Place(buf.placed, q[i], length - q[i])
           c == [i \in 1 .. n + 1 |-> C(i)]
           S == {j \in 1 .. n + 1 : ~GoesOn(walker, C(j))}
           W == WalkFrom(buf.placed, 0, length, walker)
<1>1. n \in Nat /\ n >= 1 /\ \A i \in 1 .. n : a[i].len \in Nat /\ a[i].len >= 16
  BY ItemIs DEF IsAnswer
<1>2. q[1] = 0 /\ \A i \in 1 .. n + 1 : q[i] \in Nat
  BY DEF QueuedAt
<1>3. /\ \A i \in 1 .. n : q[i] < q[i + 1] /\ q[i] + a[i].len = q[i + 1]
      /\ \A i \in 1 .. n + 1 : \A j \in 1 .. n + 1 : i < j => q[i] < q[j]
      /\ \A i \in 1 .. n + 1 : q[i] <= q[n + 1]
  BY QueuedGrow
<1>4. \A i \in 1 .. n : q[i] \in DOMAIN buf.placed /\ buf.placed[q[i]] = a[i]
  BY DEF StoredRight
<1>5. Sound(buf.placed)
  BY BufferSound DEF StoredRight
<1>6. \A i \in 1 .. n : a[i].len % 4 = 0
  OBVIOUS
<1> HIDE DEF n
<1>7. n + 1 \in 1 .. n + 1 /\ 1 \in 1 .. n + 1 /\ length \in Nat /\ length < SizeMod
  <2>1. n + 1 \in 1 .. n + 1 /\ 1 \in 1 .. n + 1
    BY <1>1
  <2> QED  BY <1>2, <2>1 DEF n
<1>8. \A i \in 1 .. n + 1 : c[i] = C(i) /\ c[i] \in Places(buf.placed)
  <2>1. ASSUME NEW i \in 1 .. n + 1
        PROVE  c[i] = C(i) /\ C(i) \in Places(buf.placed)
    <3>1. q[i] \in Int /\ length - q[i] \in Int
      BY <1>2, <1>7
    <3>2. C(i) \in Places(buf.placed)
      BY <3>1 DEF Places
    <3> QED  BY <3>2
  <2> QED  BY <2>1
<1>9. \A i \in 1 .. n + 1 : C(i).off = q[i] /\ C(i).left = length - q[i] /\ C(i).item = At(buf.placed, q[i])
  BY DEF Place
<1>10. ASSUME NEW i \in 1 .. n, GoesOn(walker, C(i))
       PROVE  WalkStep(buf.placed, walker, C(i)) = C(i + 1) /\ C(i + 1) # C(i)
  <2>1. i \in 1 .. n + 1 /\ i + 1 \in 1 .. n + 1
    BY <1>1
  <2>2. C(i).item = a[i] /\ C(i).off = q[i] /\ C(i).left = length - q[i]
    BY <1>4, <1>9, <2>1 DEF At
  <2>3. PICK l \in Nat : l = a[i].len
    BY <1>1
  <2>4. PICK x \in Nat : x = q[i]
    BY <1>2, <2>1
  <2>5. PICK y \in Nat : y = q[i + 1]
    BY <1>2, <2>1
  <2>6. PICK e \in Nat : e = length
    BY <1>7
  <2>7. x < y /\ x + l = y /\ y <= e /\ e < SizeMod
    BY <1>3, <1>7, <2>1, <2>3, <2>4, <2>5, <2>6
  <2>8. Align(l) = l
    <3>1. l % 4 = 0
      BY <1>6, <2>3
    <3> QED  BY <3>1, AlignedLength
  <2>9. Less(walker, e - x, l) = e - y
    <3>1. 0 <= (e - x) - l /\ (e - x) - l < SizeMod /\ e - x \in Int /\ (e - x) - l = e - y
      BY <2>7, Sizes
    <3>2. Less(walker, e - x, l) = (e - x) - l
      BY <3>1, LessIs
    <3> QED  BY <3>1, <3>2
  <2>10. C(i + 1) = Place(buf.placed, y, e - y) /\ C(i + 1).off = y
    BY <2>5, <2>6 DEF Place
  <2> HIDE DEF C, length
  <2>11. WalkStep(buf.placed, walker, C(i)) = Place(buf.placed, x + l, Less(walker, e - x, l))
    BY <1>10, <2>2, <2>3, <2>4, <2>6, <2>8 DEF WalkStep
  <2>12. WalkStep(buf.placed, walker, C(i)) = C(i + 1)
    BY <2>7, <2>9, <2>10, <2>11
  <2>13. C(i + 1) # C(i)
    BY <2>2, <2>4, <2>7, <2>10
  <2> QED  BY <2>12, <2>13
<1>11. n + 1 \in S
  <2>1. C(n + 1).left = 0
    BY <1>7, <1>9
  <2> HIDE DEF C
  <2>2. ~GoesOn(walker, C(n + 1))
    BY <2>1 DEF GoesOn, InOrder
  <2> QED  BY <1>7, <2>2
<1>12. PICK J \in S : \A j \in S : J <= j
  <2>1. S \subseteq Nat /\ S # {}
    BY <1>11
  <2> HIDE DEF S
  <2> QED  BY <2>1, LeastMember
<1>13. J \in 1 .. n + 1 /\ ~GoesOn(walker, C(J)) /\ J \in Nat \ {0} /\ J <= n + 1
  <2>1. J \in 1 .. n + 1 /\ ~GoesOn(walker, C(J))
    BY <1>12
  <2> QED  BY <1>1, <2>1
<1>14. ASSUME NEW j \in 1 .. J, j < J
       PROVE  j \in 1 .. n /\ GoesOn(walker, C(j))
  <2>1. j \in 1 .. n /\ j \in 1 .. n + 1
    BY <1>1, <1>13, <1>14
  <2>2. j \notin S
    BY <1>12, <1>13, <1>14
  <2> QED  BY <2>1, <2>2
<1>15. Leads(c, J, buf.placed, 0, length, walker)
  <2>1. c[1] = Place(buf.placed, 0, length)
    <3>1. c[1] = Place(buf.placed, q[1], length - q[1])
      BY <1>7, <1>8
    <3>2. length - q[1] = length
      BY <1>2, <1>7
    <3> HIDE DEF c, length
    <3> QED  BY <1>2, <3>1, <3>2
  <2> HIDE DEF c, C, S
  <2>2. \A j \in 1 .. J : j \in 1 .. n + 1
    BY <1>1, <1>13
  <2>3. ASSUME NEW j \in 1 .. J, j < J
        PROVE  /\ GoesOn(walker, c[j]) /\ c[j + 1] # c[j]
               /\ WalkStep(buf.placed, walker, c[j]) = c[j + 1]
    <3>1. j \in 1 .. n /\ GoesOn(walker, C(j))
      BY <1>14, <2>3
    <3>2. j \in 1 .. n + 1 /\ j + 1 \in 1 .. n + 1
      BY <1>1, <3>1
    <3>3. c[j] = C(j) /\ c[j + 1] = C(j + 1)
      BY <1>8, <3>2
    <3> QED  BY <1>10, <3>1, <3>3
  <2>4. WalkStep(buf.placed, walker, c[J]) = c[J]
    BY <1>8, <1>13 DEF WalkStep
  <2> QED  BY <1>8, <1>13, <2>1, <2>2, <2>3, <2>4 DEF Leads
<1>16. J <= Steps(buf.placed) + 1
  <2>1. \A i \in 1 .. n : q[i] \in DOMAIN buf.placed /\ q[i] \in Int
    <3>1. \A i \in 1 .. n : i \in 1 .. n + 1
      BY <1>1
    <3> QED  BY <1>2, <1>4, <3>1
  <2>2. \A i \in 1 .. n : \A j \in 1 .. n : i < j => q[i] < q[j]
    <3>1. \A i \in 1 .. n : i \in 1 .. n + 1
      BY <1>1
    <3> QED  BY <1>3, <3>1
  <2>3. n <= Cardinality(DOMAIN buf.placed)
    BY <1>1, <1>5, <2>1, <2>2, AtMostPlaced
  <2>4. Cardinality(DOMAIN buf.placed) \in Nat
    BY <1>5, FS_CardinalityType DEF Sound
  <2> QED  BY <1>1, <1>13, <2>3, <2>4 DEF Steps
<1>17. /\ W.seen = [i \in 1 .. IF GoesOn(walker, c[J]) THEN J ELSE J - 1 |-> [off |-> c[i].off, item |-> c[i].item]]
       /\ W.end = c[J].off /\ W.left = c[J].left
  <2>1. length \in Int /\ 0 \in Int
    BY <1>7
  <2> HIDE DEF c, length
  <2> QED  BY <1>5, <1>15, <1>16, <2>1, WalkTo
<1> HIDE DEF c, C, S
<1>18. c[J] = C(J) /\ ~GoesOn(walker, c[J])
  BY <1>8, <1>13
<1> DEFINE m == J - 1
<1>19. m \in 0 .. n
  BY <1>13, <1>1
<1> HIDE DEF m, W
<1>20. W.seen = [i \in 1 .. m |-> [off |-> c[i].off, item |-> c[i].item]]
  BY <1>17, <1>18 DEF m
<1>21. \A i \in 1 .. m : c[i].off = q[i] /\ c[i].item = a[i]
  <2>1. ASSUME NEW i \in 1 .. m
        PROVE  c[i].off = q[i] /\ c[i].item = a[i]
    <3>1. i \in 1 .. n /\ i \in 1 .. n + 1
      BY <1>1, <1>19
    <3>2. c[i].off = q[i] /\ c[i].item = At(buf.placed, q[i])
      BY <1>8, <1>9, <3>1
    <3>3. At(buf.placed, q[i]) = a[i]
      BY <1>4, <3>1 DEF At
    <3> QED  BY <3>2, <3>3
  <2> QED  BY <2>1
<1>22. SeesAnswer(W, a, q, m)
  BY <1>20, <1>21 DEF SeesAnswer
<1>23. W.left = 0 \/ \E i \in 1 .. n : W.end = q[i]
  <2>1. W.end = q[J] /\ W.left = length - q[J]
    BY <1>9, <1>13, <1>17, <1>18
  <2>2. CASE J = n + 1
    <3>1. W.left = length - length
      BY <2>1, <2>2
    <3> QED  BY <1>7, <3>1
  <2>3. CASE J # n + 1
    <3>1. J \in 1 .. n
      BY <1>1, <1>13, <2>3
    <3> QED  BY <2>1, <3>1
  <2> QED  BY <2>2, <2>3
<1>24. ~Strays(buf, W, q[n + 1])
  BY <1>19, <1>22, <1>23, NoStrays DEF n
<1> QED  BY <1>19, <1>22, <1>24 DEF W, n, length

\* A walk sees what is at its beginning, if that is in order.
LEMMA FirstSeen ==
  ASSUME NEW placed, Sound(placed), NEW start \in Int, NEW length \in Int, NEW walker,
         GoesOn(walker, Place(placed, start, length))
  PROVE  LET W == WalkFrom(placed, start, length, walker)
         IN  1 \in DOMAIN W.seen /\ Len(W.seen) \in Nat /\ Len(W.seen) >= 1 /\ W.seen[1].item = At(placed, start)
<1>1. PICK w : /\ Walks(w, placed, start, length, walker)
               /\ Returned(WalkFrom(placed, start, length, walker), w, placed, walker)
  BY WalkIs
<1> DEFINE n == Steps(placed)
           S == Sees(w, n, walker)
           m == Cardinality(S)
           seen == WalkFrom(placed, start, length, walker).seen
<1>2. m \in 0 .. n + 1 /\ (\A i \in Nat : i < m <=> i \in S) /\ n \in Nat
  BY <1>1, SeesFirst, StepsNat
<1>3. seen = [i \in 1 .. m |-> [off |-> w[i - 1].off, item |-> w[i - 1].item]]
  BY <1>1 DEF Returned
<1>4. w[0] = Place(placed, start, length)
  BY <1>1 DEF Walks
<1>5. 0 \in S
  BY <1>2, <1>4 DEF Sees
<1> HIDE DEF seen, m, n, S
<1>6. m \in Nat /\ m >= 1
  BY <1>2, <1>5
<1>7. Len(seen) = m /\ 1 \in DOMAIN seen /\ seen[1].item = w[0].item
  BY <1>3, <1>6
<1>8. seen[1].item = At(placed, start)
  BY <1>4, <1>7 DEF Place
<1> QED  BY <1>6, <1>7, <1>8 DEF seen

-----------------------------------------------------------------------------
(* The calls. *)

\* All messages of the constants are messages of the kernel.
LEMMA AllMessages ==
  /\ \A m \in Links : IsMessage(m)
  /\ \A m \in Addrs : IsMessage(m)
  /\ \A m \in Routes : IsMessage(m)
  /\ \A m \in Events : IsMessage(m)
<1>1. \A m \in Links \cup Addrs \cup Routes \cup Events : IsMessage(m)
  BY WireAssumption
<1> QED  BY <1>1

\* Messages that a walk sees in what holds nothing else are messages.
LEMMA SeenMessages ==
  ASSUME NEW placed, Sound(placed), \A off \in DOMAIN placed : IsItem(placed[off]),
         NEW start \in Int, NEW length \in Int, NEW walker, NEW types,
         types \subseteq {"NEWLINK", "NEWADDR", "DELADDR"}
  PROVE  /\ ShownRight(Handled(WalkFrom(placed, start, length, walker).seen, types))
         /\ DOMAIN Handled(WalkFrom(placed, start, length, walker).seen, types) \subseteq Nat
         /\ DOMAIN WalkFrom(placed, start, length, walker).seen
              = 1 .. Len(WalkFrom(placed, start, length, walker).seen)
<1> DEFINE seen == WalkFrom(placed, start, length, walker).seen
<1>1. ASSUME NEW i \in DOMAIN seen, seen[i].item.type \in types
      PROVE  IsMessage(seen[i].item)
  <2>1. seen[i].item = At(placed, seen[i].off)
    BY SeenAreThere
  <2> HIDE DEF seen
  <2>2. PICK x : x = seen[i].item
    OBVIOUS
  <2>3. PICK off : off = seen[i].off
    OBVIOUS
  <2>4. x = At(placed, off) /\ x.type \in types
    BY <1>1, <2>1, <2>2, <2>3
  <2>5. off \in DOMAIN placed
    <3>1. x.type # "zero"
      BY <2>4
    <3> QED  BY <2>4, <3>1 DEF At, Zero
  <2>6. x = placed[off] /\ IsItem(x)
    BY <2>4, <2>5 DEF At
  <2>7. x.type \notin {"DONE", "ERROR"}
    BY <2>4
  <2> QED  BY <2>2, <2>6, <2>7, ItemIs
<1>2. Len(seen) \in Nat /\ DOMAIN seen = 1 .. Len(seen)
  BY SeenAreThere
<1> HIDE DEF seen
<1>3. ShownRight(Handled(seen, types))
  BY <1>1, HandledRight
<1>4. DOMAIN Handled(seen, types) \subseteq Nat
  BY <1>2 DEF Handled
<1> QED  BY <1>2, <1>3, <1>4 DEF seen

\* What a walk over a dump has seen: the answer, or an error without padding
\* and whatever is behind it.
ListSees(a, W, strays) ==
  \/ Len(W.seen) = Len(a) /\ (\A i \in DOMAIN a : W.seen[i].item = a[i]) /\ ~strays
  \/ /\ Len(a) = 1 /\ DOMAIN a = 1 .. 1 /\ a[1].type = "ERROR" /\ a[1].len % 4 # 0
     /\ Len(W.seen) \in Nat /\ Len(W.seen) >= 1 /\ W.seen[1].item = a[1]

\* The walk of init_address_list() over any answer is of these two kinds.
LEMMA ListWalk ==
  ASSUME BufferOK(msgbuf), NEW r, r.len = 17, NEW M, \A m \in M : IsMessage(m), NEW a \in Answers(r, M)
  PROVE  LET W == WalkFrom(Stored(a).placed, 0, OutLen(a), Walker(16, TRUE, {"DONE"}))
         IN  IsAnswer(a) /\ ListSees(a, W, Strays(Stored(a), W, Queued(a)))
<1> DEFINE q == QueueOffsets(a)
           buf == Stored(a)
           walker == Walker(16, TRUE, {"DONE"})
           n == Len(a)
           W == WalkFrom(buf.placed, 0, q[n + 1], walker)
           strays == Strays(buf, W, q[n + 1])
<1>1. OutLen(a) = q[n + 1] /\ Queued(a) = q[n + 1]
  BY DEF OutLen, Queued
<1>2. walker.header = 16 /\ walker.tests = 0 /\ walker.stops = {"DONE"} /\ walker.unsigned = TRUE
  BY DEF Walker
<1> HIDE DEF q, buf, walker
<1>3. ASSUME IsAnswer(a)
      PROVE  QueuedAt(a, q) /\ StoredRight(a, q, buf)
  BY <1>3, QueueOffsetsAre, StoredIs DEF q, buf
<1>4. ASSUME IsAnswer(a), SeesAnswer(W, a, q, n), ~strays
      PROVE  ListSees(a, W, strays)
  <2>1. n \in Nat /\ DOMAIN a = 1 .. n
    BY <1>4 DEF IsAnswer
  <2> HIDE DEF W, strays, n
  <2>2. Len(W.seen) = n /\ \A i \in 1 .. n : W.seen[i].item = a[i]
    BY <1>4, <2>1 DEF SeesAnswer
  <2> QED  BY <1>4, <2>1, <2>2 DEF ListSees, n
<1>5. CASE IsDump(a)
  <2>1. IsAnswer(a) /\ QueuedAt(a, q) /\ StoredRight(a, q, buf)
    BY <1>3, <1>5, DumpAnswer
  <2>2. q[n + 1] < SizeMod
    BY <1>1, <1>5, DumpShort
  <2>3. n \in Nat /\ n >= 1 /\ n - 1 \in 0 .. n
    BY <2>1 DEF IsAnswer
  <2>4. ASSUME NEW i \in 1 .. n - 1
        PROVE  a[i].len % 4 = 0 /\ a[i].type \notin walker.stops
    <3>1. i \in 1 .. n /\ i < n
      BY <2>3
    <3>2. IsMessage(a[i])
      BY <1>5, <3>1 DEF IsDump
    <3>3. a[i].type # "DONE"
      BY <3>2 DEF IsMessage
    <3> QED  BY <1>2, <3>2, <3>3, MessageLength
  <2>5. a[n].type \in walker.stops
    BY <1>2, <1>5, PlainItems DEF IsDump
  <2>6. SeesAnswer(W, a, q, n) /\ ~strays
    <3>1. \A i \in 1 .. n - 1 : a[i].len % 4 = 0 /\ a[i].type \notin walker.stops
      BY <2>4
    <3>2. n - 1 = n \/ (n - 1 = n - 1 /\ a[n].type \in walker.stops)
      BY <2>5
    <3> QED  BY <1>2, <2>1, <2>2, <2>3, <3>1, <3>2, WalkAll
  <2> QED  BY <1>1, <1>4, <2>1, <2>6 DEF buf, walker
<1>6. ASSUME NEW pads \in BOOLEAN, a = <<Refusal(r, pads)>>
      PROVE  IsAnswer(a) /\ ListSees(a, W, strays)
  <2>1. PICK e : e = Refusal(r, pads)
    OBVIOUS
  <2>2. a = <<e>>
    BY <1>6, <2>1
  <2>3. IsError(<<e>>) /\ e.len < SizeMod /\ e.len = 36 + (IF pads THEN Align(r.len - 16) ELSE r.len - 16)
    BY <2>1, RefusalIs, Sizes
  <2>4. Align(1) = 4 /\ r.len - 16 = 1
    BY DEF Align
  <2>5. e.len = (IF pads THEN 40 ELSE 37)
    BY <2>3, <2>4
  <2>6. IsError(a) /\ IsAnswer(a) /\ n = 1 /\ a[1] = e /\ e.type = "ERROR" /\ DOMAIN a = 1 .. 1
    BY <2>2, <2>3, ErrorAnswer DEF IsError
  <2>7. QueuedAt(a, q) /\ StoredRight(a, q, buf)
    BY <1>3, <2>6
  <2>8. q[1] = 0 /\ q[n + 1] = e.len
    <3>1. 1 \in 1 .. Len(a) /\ n + 1 = 1 + 1
      BY <2>6
    <3>2. q[1 + 1] = q[1] + a[1].len /\ q[1] = 0
      BY <2>7, <3>1 DEF QueuedAt
    <3> QED  BY <2>5, <2>6, <3>1, <3>2
  <2>9. CASE pads = TRUE
    <3>1. e.len = 40
      BY <2>5, <2>9
    <3>2. \A i \in 1 .. 1 : a[i].len % 4 = 0 /\ a[i].type \notin walker.stops
      BY <1>2, <2>6, <3>1
    <3>3. 1 \in 0 .. n /\ 1 = n
      BY <2>6
    <3>4. q[n + 1] < SizeMod
      BY <2>3, <2>8
    <3>5. SeesAnswer(W, a, q, n) /\ ~strays
      BY <1>2, <2>6, <2>7, <3>2, <3>3, <3>4, WalkAll
    <3> QED  BY <1>4, <2>6, <3>5
  <2>10. CASE pads = FALSE
    <3>1. e.len = 37
      BY <2>5, <2>10
    <3>2. Sound(buf.placed)
      BY <2>7, BufferSound DEF StoredRight
    <3>3. At(buf.placed, 0) = e
      <4>1. 1 \in 1 .. Len(a)
        BY <2>6
      <4> QED  BY <2>6, <2>7, <2>8, <4>1 DEF StoredRight, At
    <3>4. GoesOn(walker, Place(buf.placed, 0, 37))
      <4>1. Place(buf.placed, 0, 37).item = e /\ Place(buf.placed, 0, 37).left = 37
        BY <3>3 DEF Place
      <4> QED  BY <1>2, <3>1, <4>1 DEF GoesOn, InOrder
    <3>5. q[n + 1] = 37
      BY <2>8, <3>1
    <3>6. Len(W.seen) \in Nat /\ Len(W.seen) >= 1 /\ W.seen[1].item = At(buf.placed, 0)
      <4>1. GoesOn(walker, Place(buf.placed, 0, q[n + 1])) /\ q[n + 1] \in Int /\ 0 \in Int
        BY <3>4, <3>5
      <4> QED  BY <3>2, <4>1, FirstSeen
    <3>7. 37 % 4 # 0
      OBVIOUS
    <3> HIDE DEF W, strays
    <3>8. a[1].len % 4 # 0
      BY <2>6, <3>1, <3>7
    <3> QED  BY <2>6, <3>3, <3>6, <3>8 DEF ListSees
  <2> QED  BY <2>9, <2>10
<1>7. IsDump(a) \/ \E pads \in BOOLEAN : a = <<Refusal(r, pads)>>
  BY AnswerCases
<1>8. IsAnswer(a) /\ ListSees(a, W, strays)
  <2>1. CASE IsDump(a)
    <3>1. IsAnswer(a) /\ QueuedAt(a, q) /\ StoredRight(a, q, buf)
      BY <1>3, <2>1, DumpAnswer
    <3> QED  BY <1>1, <1>5, <2>1, <3>1 DEF buf, walker
  <2>2. CASE \E pads \in BOOLEAN : a = <<Refusal(r, pads)>>
    BY <1>6, <2>2
  <2> QED  BY <1>7, <2>1, <2>2
<1> QED  BY <1>1, <1>8 DEF buf, walker

\* What a walk over an answer to get_route() has seen: some of it, from its
\* beginning on.
LEMMA RouteWalkIs ==
  ASSUME BufferOK(msgbuf), NEW r, r.len \in {28, 36, 44}, r.len <= RequestSize,
         NEW a \in Answers(r, Routes)
  PROVE  LET W == RouteWalk(r, Stored(a), OutLen(a))
         IN  /\ IsAnswer(a) /\ ~Strays(Stored(a), W, Queued(a))
             /\ \E m \in 0 .. Len(a) : SeesAnswer(W, a, QueueOffsets(a), m)
<1> DEFINE q == QueueOffsets(a)
           buf == Stored(a)
           n == Len(a)
           Over(walker) == WalkFrom(buf.placed, 0, q[n + 1], walker)
           Fine(W) == ~Strays(buf, W, q[n + 1]) /\ \E m \in 0 .. n : SeesAnswer(W, a, q, m)
           tested == [OverMessages EXCEPT !.tests = r.len]
<1>1. OutLen(a) = q[n + 1] /\ Queued(a) = q[n + 1]
  BY DEF OutLen, Queued
<1>2. IsAnswer(a) /\ q[n + 1] < SizeMod /\ \A i \in 1 .. n : a[i].len % 4 = 0
  <2>1. CASE IsDump(a)
    <3>1. IsAnswer(a)
      BY <2>1, DumpAnswer
    <3>2. q[n + 1] < SizeMod
      BY <1>1, <2>1, DumpShort
    <3>3. n \in Nat
      BY <3>1 DEF IsAnswer
    <3>4. a[n] = Done /\ \A i \in 1 .. n : i < n => IsMessage(a[i])
      BY <2>1 DEF IsDump
    <3>5. ASSUME NEW i \in 1 .. n
          PROVE  a[i].len % 4 = 0
      <4> HIDE DEF n
      <4>1. CASE i = n
        <5>1. a[i].len = 20
          BY <3>4, <4>1, PlainItems
        <5> QED  BY <5>1
      <4>2. CASE i # n
        <5>1. i < n
          BY <3>3, <4>2
        <5> QED  BY <3>4, <5>1, MessageLength
      <4> QED  BY <4>1, <4>2
    <3> QED  BY <3>1, <3>2, <3>5
  <2>2. ASSUME NEW pads \in BOOLEAN, a = <<Refusal(r, pads)>>
        PROVE  IsAnswer(a) /\ q[n + 1] < SizeMod /\ \A i \in 1 .. n : a[i].len % 4 = 0
    <3>1. PICK e : e = Refusal(r, pads)
      OBVIOUS
    <3>2. a = <<e>>
      BY <2>2, <3>1
    <3>3. r.len \in Nat /\ r.len >= 16
      OBVIOUS
    <3>4. IsError(<<e>>) /\ e.len < SizeMod /\ e.len = 36 + (IF pads THEN Align(r.len - 16) ELSE r.len - 16)
      BY <3>1, <3>3, RefusalIs
    <3>5. Align(12) = 12 /\ Align(20) = 20 /\ Align(28) = 28
      BY DEF Align
    <3>6. r.len - 16 \in {12, 20, 28} /\ Align(r.len - 16) = r.len - 16
      <4>1. CASE r.len = 28
        BY <3>5, <4>1
      <4>2. CASE r.len = 36
        BY <3>5, <4>2
      <4>3. CASE r.len = 44
        BY <3>5, <4>3
      <4> QED  BY <4>1, <4>2, <4>3
    <3>7. e.len \in {48, 56, 64}
      BY <3>4, <3>6
    <3>8. e.len % 4 = 0
      BY <3>7
    <3>9. IsError(a) /\ IsAnswer(a) /\ n = 1 /\ a[1] = e
      BY <3>2, <3>4, ErrorAnswer DEF IsError
    <3>10. QueuedAt(a, q)
      BY <3>9, QueueOffsetsAre
    <3>11. q[n + 1] = e.len
      <4>1. 1 \in 1 .. Len(a) /\ n + 1 = 1 + 1
        BY <3>9
      <4>2. q[1 + 1] = q[1] + a[1].len /\ q[1] = 0
        BY <3>10, <4>1 DEF QueuedAt
      <4> HIDE DEF q
      <4> QED  BY <3>7, <3>9, <4>1, <4>2
    <3>12. \A i \in 1 .. n : a[i].len % 4 = 0
      BY <3>8, <3>9
    <3> QED  BY <3>4, <3>9, <3>11, <3>12
  <2>3. IsDump(a) \/ \E pads \in BOOLEAN : a = <<Refusal(r, pads)>>
    BY AllMessages, AnswerCases
  <2> HIDE DEF n, q
  <2> QED  BY <2>1, <2>2, <2>3
<1>3. QueuedAt(a, q) /\ StoredRight(a, q, buf)
  BY <1>2, QueueOffsetsAre, StoredIs
<1>4. OverMessages.header = 16 /\ OverMessages.tests = 0 /\ OverMessages.stops = {}
  BY DEF OverMessages, Walker
<1>5. tested.header = 16 /\ tested.stops = {}
  BY DEF OverMessages, Walker
<1> HIDE DEF q, buf, tested
<1>6. Fine(Over(OverMessages))
  <2>1. n \in Nat /\ n \in 0 .. n
    BY <1>2 DEF IsAnswer
  <2>2. \A i \in 1 .. n : a[i].len % 4 = 0 /\ a[i].type \notin OverMessages.stops
    BY <1>2, <1>4
  <2>3. SeesAnswer(Over(OverMessages), a, q, n) /\ ~Strays(buf, Over(OverMessages), q[n + 1])
    BY <1>2, <1>3, <1>4, <2>1, <2>2, WalkAll
  <2> HIDE DEF Over
  <2> QED  BY <2>1, <2>3
<1>7. Fine(Over(tested))
  <2>1. (\E m \in 0 .. n : SeesAnswer(Over(tested), a, q, m)) /\ ~Strays(buf, Over(tested), q[n + 1])
    BY <1>2, <1>3, <1>5, WalkTested
  <2> HIDE DEF Over
  <2> QED  BY <2>1
<1>8. \/ RouteWalk(r, buf, OutLen(a)) = Over(OverMessages)
      \/ RouteWalk(r, buf, OutLen(a)) = Over(tested)
  BY <1>1 DEF RouteWalk, tested
<1> HIDE DEF Over
<1>9. Fine(RouteWalk(r, buf, OutLen(a)))
  <2> HIDE DEF Fine
  <2> QED  BY <1>6, <1>7, <1>8
<1> QED  BY <1>1, <1>2, <1>9 DEF buf, q

\* Where the messages of a datagram are.
LEMMA DatagramOffsets ==
  ASSUME NEW items, Len(items) \in Nat, \A i \in 1 .. Len(items) : items[i].len \in Nat /\ items[i].len >= 16
  PROVE  LET off == AlignedOffsets(items, 0)
         IN  /\ \A i \in 1 .. Len(items) + 1 : off[i] \in Nat
             /\ \A i \in 1 .. Len(items) : off[i] < off[i + 1]
<1> DEFINE n == Len(items)
           R(f) == f = [i \in 1 .. n + 1 |-> IF i = 1 THEN 0 ELSE f[i - 1] + Align(items[i - 1].len)]
           c == CHOOSE f : R(f)
           len == [i \in 1 .. n |-> Align(items[i].len)]
<1>1. n \in Nat /\ \A i \in 1 .. n : len[i] = Align(items[i].len) /\ len[i] \in Nat /\ len[i] >= 16
  <2>1. ASSUME NEW i \in 1 .. n
        PROVE  len[i] = Align(items[i].len) /\ len[i] \in Nat /\ len[i] >= 16
    <3>1. PICK l \in Nat : l = items[i].len /\ l >= 16
      OBVIOUS
    <3>2. Align(l) \in Nat /\ Align(l) >= l
      BY AlignProperties
    <3>3. Align(l) >= 16
      BY <3>1, <3>2
    <3> QED  BY <3>1, <3>2, <3>3
  <2> QED  BY <2>1
<1> HIDE DEF n, len
<1>2. PICK f : Sums(f, n, 0, len)
  BY <1>1, Summed
<1>3. R(f)
  <2>1. ASSUME NEW i \in 1 .. n + 1
        PROVE  f[i] = IF i = 1 THEN 0 ELSE f[i - 1] + Align(items[i - 1].len)
    <3>1. CASE i = 1
      BY <1>2, <3>1 DEF Sums
    <3>2. CASE i # 1
      <4>1. i - 1 \in 1 .. n /\ (i - 1) + 1 = i
        BY <1>1, <3>2
      <4>2. f[i] = f[i - 1] + len[i - 1]
        BY <1>2, <4>1 DEF Sums
      <4> QED  BY <1>1, <3>2, <4>1, <4>2
    <3> QED  BY <3>1, <3>2
  <2>2. DOMAIN f = 1 .. n + 1 /\ f = [i \in DOMAIN f |-> f[i]]
    BY <1>2 DEF Sums
  <2> QED  BY <2>1, <2>2
<1>4. R(c)
  <2> HIDE DEF R
  <2> QED  BY <1>3, Zenon
<1>5. AlignedOffsets(items, 0) = c
  BY DEF AlignedOffsets, n
<1> HIDE DEF c
<1>6. \A i \in 1 .. n + 1 : c[i] = IF i = 1 THEN 0 ELSE c[i - 1] + Align(items[i - 1].len)
  BY <1>4, Zenon
<1>7. c[1] = 0
  BY <1>1, <1>6
<1>8. ASSUME NEW i \in 1 .. n
      PROVE  c[i + 1] = c[i] + len[i]
  <2>1. i + 1 \in 1 .. n + 1 /\ i + 1 # 1 /\ (i + 1) - 1 = i
    BY <1>1
  <2>2. c[i + 1] = c[i] + Align(items[i].len)
    BY <1>6, <2>1
  <2> QED  BY <1>1, <2>2
<1>9. \A i \in 1 .. n + 1 : c[i] \in Nat
  <2> DEFINE T == {i \in Nat : c[i] \in Nat}
  <2>1. 1 \in T
    BY <1>7
  <2>2. ASSUME NEW i \in 1 .. n + 1, i \in T, i + 1 <= n + 1
        PROVE  i + 1 \in T
    <3>1. i \in 1 .. n /\ c[i] \in Nat
      BY <1>1, <2>2
    <3>2. c[i + 1] = c[i] + len[i] /\ len[i] \in Nat
      BY <1>1, <1>8, <3>1
    <3> QED  BY <3>1, <3>2
  <2> HIDE DEF T
  <2>3. n + 1 \in Nat
    BY <1>1
  <2>4. \A i \in 1 .. n + 1 : i \in T
    BY <2>1, <2>2, <2>3, InductionUpTo
  <2> QED  BY <2>4 DEF T
<1>10. \A i \in 1 .. n : c[i] < c[i + 1]
  <2>1. ASSUME NEW i \in 1 .. n
        PROVE  c[i] < c[i + 1]
    <3>1. c[i] \in Nat
      BY <1>1, <1>9
    <3>2. len[i] \in Nat /\ len[i] >= 16
      BY <1>1
    <3>3. c[i + 1] = c[i] + len[i]
      BY <1>8
    <3>4. PICK x \in Nat, y \in Nat : x = c[i] /\ y = len[i] /\ y >= 16
      BY <3>1, <3>2
    <3> QED  BY <3>3, <3>4
  <2> QED  BY <2>1
<1> QED  BY <1>5, <1>9, <1>10 DEF n

\* What receive_events() dispatches of a datagram.
EventSeen(datagram) ==
  LET off == AlignedOffsets(datagram, 0)
      size == off[Len(datagram)] + datagram[Len(datagram)].len
  IN  WalkFrom(Laid(datagram, off), 0, Received(size), Walker(16, FALSE, {})).seen

\* It is whole, and its addresses are shown as they are meant.
LEMMA EventWalk ==
  ASSUME NEW datagram \in Datagrams
  PROVE  /\ \A i \in DOMAIN EventSeen(datagram) :
               EventSeen(datagram)[i].off + EventSeen(datagram)[i].item.len <= ResponseSize
         /\ ShownRight(Handled(EventSeen(datagram), {"NEWADDR", "DELADDR"}))
         /\ DOMAIN Handled(EventSeen(datagram), {"NEWADDR", "DELADDR"}) \subseteq Nat
<1> DEFINE n == Len(datagram)
           off == AlignedOffsets(datagram, 0)
           size == off[n] + datagram[n].len
           placed == Laid(datagram, off)
           walker == Walker(16, FALSE, {})
           W == WalkFrom(placed, 0, Received(size), walker)
<1>1. n \in Nat /\ n >= 1 /\ DOMAIN datagram = 1 .. n /\ \A i \in 1 .. n : IsMessage(datagram[i])
  <2>1. PICK k \in 1 .. MaxDump : datagram \in [1 .. k -> Events]
    BY DEF Datagrams
  <2>2. MaxDump \in Nat
    BY Sizes
  <2>3. k \in Nat /\ k >= 1 /\ n = k
    BY <2>1, <2>2
  <2> HIDE DEF n
  <2> QED  BY <2>1, <2>3, AllMessages
<1>2. \A i \in 1 .. n : datagram[i].len \in Nat /\ datagram[i].len >= 16
  BY <1>1, MessageLength
<1>3. (\A i \in 1 .. n + 1 : off[i] \in Nat) /\ (\A i \in 1 .. n : off[i] < off[i + 1])
  BY <1>1, <1>2, DatagramOffsets
<1> HIDE DEF n, off
<1>4. n \in 1 .. n /\ n \in 1 .. n + 1
  BY <1>1
<1>5. size \in Nat
  BY <1>2, <1>3, <1>4
<1>6. LaidOut(placed, datagram, off)
  BY LaidFrom
<1> HIDE DEF size, placed
<1>7. /\ DOMAIN placed = {off[i] : i \in 1 .. n}
      /\ \A o \in DOMAIN placed : IsMessage(placed[o])
  BY <1>1, <1>6 DEF LaidOut
<1>8. Sound(placed)
  <2>1. \A i \in 1 .. n : i \in 1 .. n + 1
    BY <1>1
  <2>2. \A i \in 1 .. n : off[i] \in Int
    BY <1>3, <2>1
  <2>3. \A i \in 1 .. n : \A j \in 1 .. n : i < j => off[i] < off[j]
    <3>1. ASSUME NEW i \in 1 .. n, NEW j \in 1 .. n, i < j
          PROVE  off[i] < off[j]
      <4>1. \A x \in 1 .. n + 1 : off[x] \in Int
        BY <1>3
      <4>2. i \in 1 .. n + 1 /\ j \in 1 .. n + 1
        BY <2>1
      <4> QED  BY <1>1, <1>3, <3>1, <4>1, <4>2, Growing
    <3> QED  BY <3>1
  <2>4. IsFiniteSet({off[i] : i \in 1 .. n})
    BY <1>1, <2>2, <2>3, PlacesCounted
  <2>5. \A o \in DOMAIN placed : placed[o].len \in Nat
    BY <1>7, MessageLength
  <2> QED  BY <1>7, <2>4, <2>5 DEF Sound
<1>9. Received(size) \in Int /\ Received(size) <= ResponseSize
  BY <1>5, Sizes DEF Received
<1>10. walker.unsigned = FALSE /\ walker.tests = 0
  BY DEF Walker
<1> HIDE DEF walker
<1>11. ASSUME NEW i \in DOMAIN W.seen
       PROVE  W.seen[i].off + W.seen[i].item.len <= ResponseSize
  <2>1. PICK e \in Int : e = Received(size) /\ e <= ResponseSize
    BY <1>9
  <2>2. \A j \in DOMAIN W.seen : W.seen[j].off + W.seen[j].item.len <= 0 + Received(size)
    <3>1. 0 \in Int
      OBVIOUS
    <3> QED  BY <1>8, <1>9, <1>10, <3>1, SignedSeesWhole, Zenon
  <2>3. W.seen[i].off \in Int /\ W.seen[i].item = At(placed, W.seen[i].off)
    BY <1>8, <1>9, SeenAreThere
  <2> HIDE DEF W
  <2>4. W.seen[i].item.len \in Nat
    BY <1>8, <2>3, ItemLength
  <2>5. W.seen[i].off + W.seen[i].item.len <= 0 + e
    BY <2>1, <2>2
  <2> QED  BY <2>1, <2>3, <2>4, <2>5, Sizes
<1>12. /\ ShownRight(Handled(W.seen, {"NEWADDR", "DELADDR"}))
       /\ DOMAIN Handled(W.seen, {"NEWADDR", "DELADDR"}) \subseteq Nat
  <2>1. \A o \in DOMAIN placed : IsItem(placed[o])
    BY <1>7 DEF IsItem
  <2>2. Received(size) \in Int /\ 0 \in Int /\ {"NEWADDR", "DELADDR"} \subseteq {"NEWLINK", "NEWADDR", "DELADDR"}
    BY <1>9
  <2> QED  BY <1>8, <2>1, <2>2, SeenMessages
<1>13. EventSeen(datagram) = W.seen
  BY DEF EventSeen, n, off, size, placed, walker
<1> HIDE DEF W
<1> QED  BY <1>11, <1>12, <1>13

-----------------------------------------------------------------------------
(* The inductive invariant. *)

\* What the last call did, as the properties want it.
LastRight ==
  /\ ShownRight(last.shown) /\ (\A i \in DOMAIN last.shown : ~last.shown[i].overruns)
  /\ last.fn = "overrun" => \E m \in last.over : HoldsIPv6(m)
  /\ ListsAll /\ WalksReadTheirData /\ RouteFromAnswer

\* The calls keep: a request that was built one attribute behind the other, a buffer of
\* whole items, and what the last call did.
WireInv ==
  /\ Built(request) /\ BufferOK(msgbuf) /\ LastRight
  /\ meant \subseteq {"msg", "loop"} /\ stuck \in BOOLEAN /\ calls \in 0 .. MaxCalls

\* A call that shows nothing and walks over nothing.
LEMMA NothingWalked ==
  ASSUME last'.shown = <<>>, last'.fn \in {"none", "manage", "refused", "route"},
         last'.fn = "route" => ~last'.strays /\ last'.walked = <<>> /\ last'.best = {}
  PROVE  LastRight'
<1>1. ShownRight(last'.shown) /\ \A i \in DOMAIN last'.shown : ~last'.shown[i].overruns
  BY DEF ShownRight
<1>2. WalksReadTheirData'
  BY DEF WalksReadTheirData, WalkSeesQueued, StrayNeedsUnalignedError, EventsWhole
<1>3. RouteFromAnswer'
  BY DEF RouteFromAnswer
<1>4. ListsAll' /\ last'.fn # "overrun"
  BY DEF ListsAll
<1> QED  BY <1>1, <1>2, <1>3, <1>4 DEF LastRight

\* A call that ends at an address of IPv6: only what it has handled before is shown.
LEMMA OverrunRight ==
  ASSUME NEW c, NEW h, DOMAIN h \subseteq Nat, ShownRight(h), Handles(c, h),
         \E i \in DOMAIN h : h[i].overruns
  PROVE  LastRight' /\ stuck' = TRUE
<1>1. stuck' = TRUE /\ last'.fn = "overrun" /\ last'.shown = Shown(h) /\ last'.over = Overrunning(h)
  BY DEF Handles, NoCall
<1>2. \A i \in DOMAIN Shown(h) : i \in DOMAIN h /\ Shown(h)[i] = h[i] /\ ~h[i].overruns
  BY DEF Shown
<1>3. ShownRight(last'.shown) /\ \A i \in DOMAIN last'.shown : ~last'.shown[i].overruns
  <2>1. ShownRight(Shown(h))
    BY <1>2 DEF ShownRight
  <2> QED  BY <1>1, <1>2, <2>1
<1>4. \E m \in Overrunning(h) : HoldsIPv6(m)
  <2> DEFINE S == {i \in DOMAIN h : h[i].overruns}
  <2>1. S \subseteq Nat /\ S # {}
    OBVIOUS
  <2>2. PICK i \in S : \A j \in S : i <= j
    BY <2>1, LeastMember
  <2>3. i \in DOMAIN h /\ h[i].overruns /\ \A j \in DOMAIN h : h[j].overruns => i <= j
    BY <2>2
  <2>4. h[i].of \in Overrunning(h)
    BY <2>3 DEF Overrunning
  <2>5. HoldsIPv6(h[i].of)
    BY <2>3 DEF ShownRight
  <2> QED  BY <2>4, <2>5
<1>5. WalksReadTheirData' /\ RouteFromAnswer' /\ ListsAll'
  BY <1>1 DEF WalksReadTheirData, WalkSeesQueued, StrayNeedsUnalignedError, EventsWhole, RouteFromAnswer, ListsAll
<1> QED  BY <1>1, <1>3, <1>4, <1>5 DEF LastRight

\* One half of init_address_list().
LEMMA ListKeeps ==
  ASSUME BufferOK(msgbuf), NEW type, NEW M, \A m \in M : IsMessage(m), NEW shown \in {"NEWLINK", "NEWADDR"},
         type = "GETADDR" => shown = "NEWADDR", List(type, M, shown)
  PROVE  Built(request') /\ BufferOK(msgbuf') /\ LastRight' /\ (stuck' = stuck \/ stuck' = TRUE)
<1> DEFINE r == Empty(type, "gen")
           Walk(a) == WalkFrom(Stored(a).placed, 0, OutLen(a), Walker(16, TRUE, {"DONE"}))
           Last(a, W) == [NoCall EXCEPT !.fn = "list", !.answer = a, !.walked = W.seen,
                            !.strays = Strays(Stored(a), W, Queued(a))]
<1>1. PICK a \in Answers(r, M) : /\ request' = r /\ msgbuf' = Stored(a)
                                /\ Handles(Last(a, Walk(a)), Handled(Walk(a).seen, {shown}))
  BY DEF List
<1>2. r.len = 17 /\ r.type = type
  BY DEF Empty, NLMSG_LENGTH, BodyLen
<1>3. Built(r)
  BY EmptyBuilt
<1> HIDE DEF r
<1>4. IsAnswer(a) /\ ListSees(a, Walk(a), Strays(Stored(a), Walk(a), Queued(a)))
  BY <1>2, ListWalk
<1>5. StoredRight(a, QueueOffsets(a), Stored(a))
  BY <1>4, StoredIs
<1>6. /\ ShownRight(Handled(Walk(a).seen, {shown})) /\ DOMAIN Handled(Walk(a).seen, {shown}) \subseteq Nat
      /\ DOMAIN Walk(a).seen = 1 .. Len(Walk(a).seen)
  <2>1. OutLen(a) \in Int
    <3>1. QueuedAt(a, QueueOffsets(a)) /\ Len(a) \in Nat /\ Len(a) + 1 \in 1 .. Len(a) + 1
      BY <1>4, QueueOffsetsAre DEF IsAnswer
    <3> QED  BY <3>1 DEF OutLen, Queued, QueuedAt
  <2>2. Sound(Stored(a).placed) /\ \A off \in DOMAIN Stored(a).placed : IsItem(Stored(a).placed[off])
    BY <1>5, BufferSound DEF StoredRight, BufferOK
  <2>3. {shown} \subseteq {"NEWLINK", "NEWADDR", "DELADDR"} /\ 0 \in Int
    OBVIOUS
  <2> QED  BY <2>1, <2>2, <2>3, SeenMessages, Zenon
<1> HIDE DEF Walk
<1>7. PICK W : W = Walk(a)
  OBVIOUS
<1> DEFINE h == Handled(W.seen, {shown})
<1>8. ShownRight(h) /\ DOMAIN h \subseteq Nat /\ Handles(Last(a, W), h)
  BY <1>1, <1>6, <1>7
<1>9. /\ DOMAIN h = {i \in DOMAIN W.seen : W.seen[i].item.type \in {shown}}
      /\ shown = "NEWADDR" => \A i \in DOMAIN h : h[i].of = W.seen[i].item
  BY DEF Handled, process_addr
<1> HIDE DEF h
<1>10. Built(request') /\ BufferOK(msgbuf') /\ request'.type = type
  BY <1>1, <1>2, <1>3, <1>5 DEF StoredRight
<1>11. CASE \E i \in DOMAIN h : h[i].overruns
  <2>1. PICK c : c = Last(a, W)
    OBVIOUS
  <2>2. LastRight' /\ stuck' = TRUE
    BY <1>8, <1>11, <2>1, OverrunRight
  <2> QED  BY <1>10, <2>2
<1>12. CASE \A i \in DOMAIN h : ~h[i].overruns
  <2>1. last' = [Last(a, W) EXCEPT !.shown = h] /\ stuck' = stuck
    BY <1>8, <1>12 DEF Handles
  <2>2. /\ last'.fn = "list" /\ last'.answer = a /\ last'.walked = W.seen
        /\ last'.shown = h /\ last'.strays = Strays(Stored(a), W, Queued(a))
    BY <2>1 DEF NoCall
  <2>3. ListSees(last'.answer, W, last'.strays)
    BY <1>4, <1>7, <2>2
  <2>4. WalksReadTheirData' /\ ListsAll'
    <3>1. CASE Len(W.seen) = Len(a) /\ (\A i \in DOMAIN a : W.seen[i].item = a[i]) /\ ~last'.strays
      <4>1. Len(a) \in Nat /\ DOMAIN a = 1 .. Len(a)
        BY <1>4 DEF IsAnswer
      <4>2. WalksReadTheirData'
        BY <2>2, <3>1, <4>1 DEF WalksReadTheirData, WalkSeesQueued, StrayNeedsUnalignedError, EventsWhole
      <4>3. ASSUME type = "GETADDR", NEW i \in DOMAIN a, a[i].type = "NEWADDR"
            PROVE  i \in DOMAIN h /\ h[i].of = a[i]
        <5>1. i \in DOMAIN W.seen
          BY <1>6, <1>7, <3>1, <4>1
        <5> QED  BY <1>9, <3>1, <4>3, <5>1
      <4>4. ListsAll'
        BY <1>10, <2>2, <4>3 DEF ListsAll
      <4> QED  BY <4>2, <4>4
    <3>2. CASE /\ Len(a) = 1 /\ DOMAIN a = 1 .. 1 /\ a[1].type = "ERROR" /\ a[1].len % 4 # 0
               /\ Len(W.seen) \in Nat /\ Len(W.seen) >= 1 /\ W.seen[1].item = a[1]
      <4>1. WalksReadTheirData'
        BY <2>2, <3>2 DEF WalksReadTheirData, WalkSeesQueued, StrayNeedsUnalignedError, EventsWhole
      <4>2. ListsAll'
        BY <2>2, <3>2 DEF ListsAll
      <4> QED  BY <4>1, <4>2
    <3> QED  BY <2>2, <2>3, <3>1, <3>2 DEF ListSees
  <2>5. RouteFromAnswer'
    BY <2>2 DEF RouteFromAnswer
  <2>6. ShownRight(last'.shown) /\ \A i \in DOMAIN last'.shown : ~last'.shown[i].overruns
    BY <1>8, <1>12, <2>2
  <2>7. LastRight'
    BY <2>2, <2>4, <2>5, <2>6 DEF LastRight
  <2> QED  BY <1>10, <2>1, <2>7
<1> QED  BY <1>11, <1>12

\* netlink_send_ack() of any request that is sent.
LEMMA ManageKeeps ==
  ASSUME BufferOK(msgbuf), NEW r, Built(r), Manage(r)
  PROVE  Built(request') /\ BufferOK(msgbuf') /\ LastRight'
<1>1. PICK a \in {<<Ack>>} \cup {<<Refusal(r, pads)>> : pads \in BOOLEAN} :
        request' = r /\ msgbuf' = Stored(a) /\ last' = [NoCall EXCEPT !.fn = "manage", !.answer = a]
  BY DEF Manage
<1>2. r.len \in Nat /\ r.len >= 16 /\ r.len <= RequestSize
  BY BuiltLength
<1>3. IsAnswer(a)
  <2>1. CASE a = <<Ack>>
    <3>1. PICK e : e = Ack
      OBVIOUS
    <3>2. IsError(<<e>>)
      BY <3>1, PlainItems DEF IsError
    <3> QED  BY <2>1, <3>1, <3>2, ErrorAnswer
  <2>2. ASSUME NEW pads \in BOOLEAN, a = <<Refusal(r, pads)>>
        PROVE  IsAnswer(a)
    <3>1. IsError(<<Refusal(r, pads)>>)
      BY <1>2, RefusalIs
    <3> QED  BY <2>2, <3>1, ErrorAnswer
  <2> QED  BY <2>1, <2>2
<1>4. BufferOK(msgbuf')
  BY <1>1, <1>3, StoredIs DEF StoredRight
<1>5. last'.shown = <<>> /\ last'.fn = "manage"
  BY <1>1 DEF NoCall
<1>6. LastRight'
  BY <1>5, NothingWalked
<1> QED  BY <1>1, <1>4, <1>6

\* get_route(), whose best route, if there is one, is one of the answer.
LEMMA GetRouteKeeps ==
  ASSUME BufferOK(msgbuf), meant \subseteq {"msg", "loop"}, meant' = meant,
         NEW candidate \in BOOLEAN, NEW host \in BOOLEAN, GetRoute(candidate, host)
  PROVE  Built(request') /\ BufferOK(msgbuf') /\ LastRight' /\ (stuck' = stuck \/ stuck' = TRUE)
<1> DEFINE r == get_route_request(candidate, host)
           Walk(a) == RouteWalk(r, Stored(a), OutLen(a))
           fits(leftover) == leftover # "nothing" /\ (candidate => leftover = "candidate")
           Last(a, leftover) ==
             [NoCall EXCEPT !.fn = "route", !.answer = a, !.walked = Walk(a).seen,
                !.strays = Strays(Stored(a), Walk(a), Queued(a)),
                !.best = IF fits(leftover) /\ RoutesIn(Walk(a)) # {}
                         THEN {parse_route(Walk(a).seen[Latest(RoutesIn(Walk(a)))].item, leftover)} ELSE {}]
<1>1. Built(r) /\ r.len \in {28, 36, 44} /\ request' = r
  BY RequestsBuilt, RouteRequestLength DEF GetRoute
<1>2. r.len <= RequestSize
  BY <1>1, BuiltLength
<1>3. CASE RouteType = "ERROR"
  <2>1. stuck' = TRUE /\ last' = [NoCall EXCEPT !.fn = "route"] /\ msgbuf' = msgbuf
    BY <1>3 DEF GetRoute
  <2>2. last'.shown = <<>> /\ last'.fn = "route" /\ ~last'.strays /\ last'.walked = <<>> /\ last'.best = {}
    BY <2>1 DEF NoCall
  <2>3. LastRight'
    BY <2>2, NothingWalked
  <2> QED  BY <1>1, <2>1, <2>3
<1>4. CASE RouteType # "ERROR"
  <2>1. PICK a \in Answers(r, Routes), leftover \in {"nothing", "candidate", "other"} :
          msgbuf' = Stored(a) /\ last' = Last(a, leftover) /\ stuck' = stuck
    BY <1>4 DEF GetRoute
  <2> HIDE DEF r
  <2>2. /\ IsAnswer(a) /\ ~Strays(Stored(a), Walk(a), Queued(a))
        /\ \E m \in 0 .. Len(a) : SeesAnswer(Walk(a), a, QueueOffsets(a), m)
    BY <1>1, <1>2, RouteWalkIs
  <2>3. BufferOK(msgbuf')
    BY <2>1, <2>2, StoredIs DEF StoredRight
  <2> HIDE DEF Walk
  <2>4. PICK W : W = Walk(a)
    OBVIOUS
  <2> DEFINE best == IF fits(leftover) /\ RoutesIn(W) # {}
                     THEN {parse_route(W.seen[Latest(RoutesIn(W))].item, leftover)} ELSE {}
  <2>5. /\ last'.fn = "route" /\ last'.answer = a /\ last'.walked = W.seen /\ last'.shown = <<>>
        /\ last'.strays = Strays(Stored(a), W, Queued(a)) /\ last'.best = best
    BY <2>1, <2>4 DEF NoCall
  <2>6. PICK m \in 0 .. Len(a) : SeesAnswer(W, a, QueueOffsets(a), m)
    BY <2>2, <2>4
  <2>7. Len(a) \in Nat /\ m \in Nat /\ m <= Len(a) /\ DOMAIN a = 1 .. Len(a)
    BY <2>2, <2>6 DEF IsAnswer
  <2>8. DOMAIN W.seen = 1 .. m /\ \A i \in 1 .. m : W.seen[i].item = a[i] /\ i \in DOMAIN a
    <3>1. PICK k \in Nat : k = Len(a)
      BY <2>7
    <3>2. DOMAIN W.seen = 1 .. m /\ \A i \in 1 .. m : W.seen[i].item = a[i]
      BY <2>6 DEF SeesAnswer
    <3>3. \A i \in 1 .. m : i \in 1 .. k
      BY <2>7, <3>1
    <3> QED  BY <2>7, <3>1, <3>2, <3>3
  <2>9. \A i \in DOMAIN W.seen : W.seen[i].item # Zero
    <3>1. ASSUME NEW i \in DOMAIN W.seen
          PROVE  W.seen[i].item # Zero
      <4>1. W.seen[i].item = a[i] /\ i \in 1 .. Len(a)
        BY <2>7, <2>8
      <4>2. IsItem(a[i])
        BY <2>2, <4>1 DEF IsAnswer
      <4> QED  BY <4>1, <4>2, ItemIs
    <3> QED  BY <3>1
  <2>10. ASSUME NEW route \in best
         PROVE  meant = {"msg", "loop"} /\ \E i \in DOMAIN a : route.of = a[i]
    <3>1. RoutesIn(W) # {} /\ route = parse_route(W.seen[Latest(RoutesIn(W))].item, leftover)
      OBVIOUS
    <3>2. "loop" \in meant /\ RoutesIn(W) \subseteq 1 .. m
      BY <2>8, <3>1 DEF RoutesIn
    <3>3. "msg" \in meant
      BY <1>4 DEF RouteType
    <3>4. Latest(RoutesIn(W)) \in RoutesIn(W)
      BY <2>7, <3>1, <3>2, LatestIs
    <3>5. PICK i \in 1 .. m : i = Latest(RoutesIn(W))
      BY <3>2, <3>4
    <3>6. route.of = W.seen[i].item
      BY <3>1, <3>5 DEF parse_route
    <3> QED  BY <2>8, <3>2, <3>3, <3>5, <3>6
  <2> HIDE DEF best
  <2>11. RouteFromAnswer'
    <3>1. ~last'.strays
      BY <2>2, <2>4, <2>5
    <3>2. \A i \in DOMAIN last'.walked : last'.walked[i].item # Zero
      BY <2>5, <2>9
    <3>3. \A route \in last'.best : meant' = {"msg", "loop"} /\ \E i \in DOMAIN last'.answer : route.of = last'.answer[i]
      BY <2>5, <2>10
    <3> QED  BY <3>1, <3>2, <3>3 DEF RouteFromAnswer
  <2>12. WalksReadTheirData'
    BY <2>5 DEF WalksReadTheirData, WalkSeesQueued, StrayNeedsUnalignedError, EventsWhole
  <2>13. ShownRight(last'.shown)
    BY <2>5 DEF ShownRight
  <2>14. /\ ListsAll' /\ last'.fn # "overrun"
         /\ \A i \in DOMAIN last'.shown : ~last'.shown[i].overruns
    BY <2>5 DEF ListsAll
  <2> QED  BY <1>1, <2>1, <2>3, <2>11, <2>12, <2>13, <2>14 DEF LastRight
<1> QED  BY <1>3, <1>4

\* receive_events() on a datagram.
LEMMA EventsKeep ==
  ASSUME NEW datagram \in Datagrams, ReceiveEvents(datagram)
  PROVE  LastRight' /\ UNCHANGED <<msgbuf, request>> /\ (stuck' = stuck \/ stuck' = TRUE)
<1> DEFINE Last(w) == [NoCall EXCEPT !.fn = "events", !.answer = datagram, !.walked = w]
           h == Handled(EventSeen(datagram), {"NEWADDR", "DELADDR"})
<1>1. Handles(Last(EventSeen(datagram)), h) /\ UNCHANGED <<msgbuf, request>>
  BY DEF ReceiveEvents, EventSeen
<1>2. /\ \A i \in DOMAIN EventSeen(datagram) :
           EventSeen(datagram)[i].off + EventSeen(datagram)[i].item.len <= ResponseSize
      /\ ShownRight(h) /\ DOMAIN h \subseteq Nat
  BY EventWalk, Zenon
<1>3. PICK seen : seen = EventSeen(datagram)
  OBVIOUS
<1> HIDE DEF h
<1>4. Handles(Last(seen), h) /\ \A i \in DOMAIN seen : seen[i].off + seen[i].item.len <= ResponseSize
  BY <1>1, <1>2, <1>3
<1>5. CASE \E i \in DOMAIN h : h[i].overruns
  <2>1. PICK c : c = Last(seen)
    OBVIOUS
  <2>2. LastRight' /\ stuck' = TRUE
    BY <1>2, <1>4, <1>5, <2>1, OverrunRight
  <2> QED  BY <1>1, <2>2
<1>6. CASE \A i \in DOMAIN h : ~h[i].overruns
  <2>1. last' = [Last(seen) EXCEPT !.shown = h] /\ stuck' = stuck
    BY <1>4, <1>6 DEF Handles
  <2>2. last'.fn = "events" /\ last'.walked = seen /\ last'.shown = h
    BY <2>1 DEF NoCall
  <2>3. ShownRight(last'.shown) /\ \A i \in DOMAIN last'.shown : ~last'.shown[i].overruns
    BY <1>2, <1>6, <2>2
  <2>4. WalksReadTheirData'
    BY <1>4, <2>2 DEF WalksReadTheirData, WalkSeesQueued, StrayNeedsUnalignedError, EventsWhole
  <2>5. RouteFromAnswer' /\ ListsAll'
    BY <2>2 DEF RouteFromAnswer, ListsAll
  <2> QED  BY <1>1, <2>1, <2>2, <2>3, <2>4, <2>5 DEF LastRight
<1> QED  BY <1>5, <1>6

\* main()'s state before its first call.
LEMMA InitInv == WireInit => WireInv
<1> SUFFICES ASSUME WireInit
             PROVE  WireInv
  OBVIOUS
<1>1. Built(request)
  BY EmptyBuilt DEF WireInit
<1>2. BufferOK(msgbuf)
  <2>1. msgbuf.placed = <<>> /\ msgbuf.written = 0
    BY DEF WireInit
  <2>2. DOMAIN <<>> = {} /\ IsFiniteSet({})
    BY FS_EmptySet
  <2> QED  BY <2>1, <2>2 DEF BufferOK
<1>3. last.shown = <<>> /\ last.fn = "none"
  BY DEF WireInit, NoCall
<1>4. LastRight
  <2>1. ShownRight(last.shown) /\ ListsAll
    BY <1>3 DEF ShownRight, ListsAll
  <2>2. WalksReadTheirData
    BY <1>3 DEF WalksReadTheirData, WalkSeesQueued, StrayNeedsUnalignedError, EventsWhole
  <2>3. RouteFromAnswer
    BY <1>3 DEF RouteFromAnswer
  <2> QED  BY <1>3, <2>1, <2>2, <2>3 DEF LastRight
<1>5. meant \subseteq {"msg", "loop"} /\ stuck \in BOOLEAN
  BY DEF WireInit
<1>6. calls \in 0 .. MaxCalls
  BY Sizes DEF WireInit
<1> QED  BY <1>1, <1>2, <1>4, <1>5, <1>6 DEF WireInv

\* Every call keeps the invariant.
LEMMA NextInv == WireInv /\ [WireNext]_wireVars => WireInv'
<1> SUFFICES ASSUME WireInv, [WireNext]_wireVars
             PROVE  WireInv'
  OBVIOUS
<1>1. Built(request) /\ BufferOK(msgbuf) /\ LastRight
  BY DEF WireInv
<1>2. meant \subseteq {"msg", "loop"} /\ stuck \in BOOLEAN /\ calls \in 0 .. MaxCalls
  BY DEF WireInv
<1>3. CASE UNCHANGED wireVars
  <2>1. /\ request' = request /\ msgbuf' = msgbuf /\ last' = last
        /\ meant' = meant /\ stuck' = stuck /\ calls' = calls
    BY <1>3 DEF wireVars
  <2>2. LastRight'
    BY <1>1, <2>1 DEF LastRight, WalksReadTheirData, WalkSeesQueued, StrayNeedsUnalignedError, EventsWhole,
                      RouteFromAnswer, ListsAll
  <2> QED  BY <1>1, <1>2, <2>1, <2>2 DEF WireInv
<1>4. CASE WireNext
  <2>1. meant' = meant /\ calls < MaxCalls /\ calls' = calls + 1
    BY <1>4 DEF WireNext
  <2>2. calls' \in 0 .. MaxCalls
    BY <1>2, <2>1, Sizes
  <2> DEFINE Kept == Built(request') /\ BufferOK(msgbuf') /\ LastRight' /\ (stuck' = stuck \/ stuck' = TRUE)
  <2>3. ASSUME ListLinks
        PROVE  Kept
    <3>1. List("GETLINK", Links, "NEWLINK")
      BY <2>3 DEF ListLinks
    <3> QED  BY <1>1, <3>1, AllMessages, ListKeeps
  <2>4. ASSUME ListAddrs
        PROVE  Kept
    <3>1. List("GETADDR", Addrs, "NEWADDR")
      BY <2>4 DEF ListAddrs
    <3> QED  BY <1>1, <3>1, AllMessages, ListKeeps
  <2>5. ASSUME ManageAny
        PROVE  Kept
    <3>1. PICK r : Manage(r) /\ Built(r)
      BY <2>5, RequestsBuilt DEF ManageAny
    <3>2. stuck' = stuck
      BY <3>1 DEF Manage
    <3> QED  BY <1>1, <3>1, <3>2, ManageKeeps
  <2>6. ASSUME SrcrouteRefused
        PROVE  Kept
    <3>1. last' = [NoCall EXCEPT !.fn = "refused"] /\ msgbuf' = msgbuf /\ request' = request /\ stuck' = stuck
      BY <2>6 DEF SrcrouteRefused
    <3>2. last'.shown = <<>> /\ last'.fn = "refused"
      BY <3>1 DEF NoCall
    <3> QED  BY <1>1, <3>1, <3>2, NothingWalked
  <2>7. ASSUME NEW candidate \in BOOLEAN, NEW host \in BOOLEAN, GetRoute(candidate, host)
        PROVE  Kept
    BY <1>1, <1>2, <2>1, <2>7, GetRouteKeeps
  <2>8. ASSUME NEW datagram \in Datagrams, ReceiveEvents(datagram)
        PROVE  Kept
    BY <1>1, <2>8, EventsKeep
  <2>9. Kept
    <3> HIDE DEF Kept
    <3> QED  BY <1>4, <2>3, <2>4, <2>5, <2>6, <2>7, <2>8 DEF WireNext
  <2>10. stuck' \in BOOLEAN
    BY <1>2, <2>9
  <2> QED  BY <1>2, <2>1, <2>2, <2>9, <2>10 DEF WireInv
<1> QED  BY <1>3, <1>4

-----------------------------------------------------------------------------

\* Every state of the program satisfies the inductive invariant.
THEOREM WireAlwaysInv == WireSpec => []WireInv
BY InitInv, NextInv, PTL DEF WireSpec

\* The states have their types: as many attributes in a request as were added, and
\* msgbuf written as far as any header in it reaches.
THEOREM WireTypeCorrect == WireSpec => []WireTypeOK
<1>1. WireInv => WireTypeOK
  <2> SUFFICES ASSUME WireInv
               PROVE  WireTypeOK
    OBVIOUS
  <2>1. request.len \in Nat /\ Len(request.added) = Cardinality(DOMAIN request.placed)
    BY BuiltCounted, BuiltLength DEF WireInv
  <2>2. \A off \in DOMAIN msgbuf.placed : off + msgbuf.placed[off].len <= msgbuf.written
    BY DEF WireInv, BufferOK
  <2> QED  BY <2>1, <2>2 DEF WireInv, WireTypeOK
<1> QED  BY <1>1, WireAlwaysInv, PTL

\* Whatever the size of the buffer, as long as the longest header fits, no
\* attribute ends behind its request and no request behind its buffer.
THEOREM AttributesAlwaysFit == WireSpec => []AttributesFit
<1>1. WireInv => AttributesFit
  <2> SUFFICES ASSUME WireInv
               PROVE  AttributesFit
    OBVIOUS
  <2>1. Built(request)
    BY DEF WireInv
  <2>2. PICK o : LaidAt(request, o)
    BY <2>1 DEF Built
  <2>3. ASSUME NEW off \in DOMAIN request.placed
        PROVE  off + request.placed[off].len <= request.len
    <3>1. PICK i \in 1 .. Len(request.added) : off = o[i]
      BY <2>2 DEF LaidAt
    <3>2. o[i] + request.placed[o[i]].len <= request.len
      BY <2>2 DEF LaidAt
    <3> QED  BY <3>1, <3>2
  <2> QED  BY <2>1, <2>3 DEF Built, AttributesFit
<1> QED  BY <1>1, WireAlwaysInv, PTL

\* The kernel finds in every request the attributes that were added to it, and in
\* the metrics both of theirs.
THEOREM RequestsAlwaysParse == WireSpec => []RequestParses
<1>1. WireInv => RequestParses
  <2> SUFFICES ASSUME WireInv
               PROVE  RequestParses
    OBVIOUS
  <2>1. ParsesRight(request)
    BY BuiltParses DEF WireInv
  <2> QED  BY <2>1 DEF ParsesRight, RequestParses
<1> QED  BY <1>1, WireAlwaysInv, PTL

\* The walks over dumps see all of the answer and, but for the one refusal whose
\* length is unaligned, nothing else; those over events only what is there whole.
THEOREM WalksAlwaysReadTheirData == WireSpec => []WalksReadTheirData
<1>1. WireInv => WalksReadTheirData
  BY DEF WireInv, LastRight
<1> QED  BY <1>1, WireAlwaysInv, PTL

\* process_addr() shows the local address of a message that has one, a list of the
\* addresses shows all of a dump, and a call overruns the stack exactly when it comes
\* to an address of IPv6.
THEOREM AddressesAlwaysDecoded == WireSpec => []AddressesDecoded
<1>1. WireInv => AddressesDecoded
  <2> SUFFICES ASSUME LastRight
               PROVE  AddressesDecoded
    BY DEF WireInv
  <2>1. PrintsLocal
    BY DEF LastRight, ShownRight, Values, PrintsLocal
  <2>2. EndsAtIPv6
    BY DEF LastRight, ShownRight, EndsAtIPv6
  <2>3. ListsAll
    BY DEF LastRight
  <2> QED  BY <2>1, <2>2, <2>3 DEF AddressesDecoded
<1> QED  BY <1>1, WireAlwaysInv, PTL

\* get_route() walks over nothing but its answer, and a best route is one of it.
THEOREM RoutesFromAnswers == WireSpec => []RouteFromAnswer
<1>1. WireInv => RouteFromAnswer
  BY DEF WireInv, LastRight
<1> QED  BY <1>1, WireAlwaysInv, PTL

=============================================================================
