-------------------------- MODULE PrintfHookProofs --------------------------
(***************************************************************************)
(* Theorems about PrintfHook, for all buffer sizes, int values and bounds. *)
(***************************************************************************)
EXTENDS PrintfHook, TLAPS, FiniteSetTheorems

SizeRange == 0 .. SizeMod - 1

LEMMA Assumed ==
  /\ SizeMod \in Nat /\ SizeMod > 0
  /\ IntValues \subseteq Int
  /\ Sizes \subseteq SizeRange
  /\ MaxText \in Nat /\ MaxWidth \in Nat /\ MaxReads \in Nat /\ MaxPrints \in Nat
BY PrintfAssumption DEF SizeRange

-----------------------------------------------------------------------------
(* Counting modulo SizeMod. *)

LEMMA SizeIsSize ==
  ASSUME NEW i \in Int
  PROVE  Size_t(i) \in SizeRange
BY Assumed DEF Size_t, SizeRange

LEMMA SizeSmall ==
  ASSUME NEW i \in SizeRange
  PROVE  Size_t(i) = i
BY Assumed DEF Size_t, SizeRange

LEMMA SizeQuotient ==
  ASSUME NEW i \in Int
  PROVE  \E k \in Int : i = SizeMod * k + Size_t(i)
<1>1. i \div SizeMod \in Int /\ i = SizeMod * (i \div SizeMod) + (i % SizeMod)
  BY Assumed
<1> QED  BY <1>1 DEF Size_t

\* Two sizes that differ by a multiple of SizeMod are one.
LEMMA SizeUnique ==
  ASSUME NEW a \in SizeRange, NEW b \in SizeRange, NEW k \in Int, a = b + SizeMod * k
  PROVE  a = b
<1> USE Assumed DEF SizeRange
<1>1. CASE k = 0
  BY <1>1
<1>2. CASE k >= 1
  <2>1. SizeMod * k >= SizeMod
    BY <1>2
  <2> QED  BY <2>1
<1>3. CASE k <= -1
  <2>1. SizeMod * k <= -SizeMod
    BY <1>3
  <2> QED  BY <2>1
<1> QED  BY <1>1, <1>2, <1>3

\* A multiple of SizeMod makes no difference.
LEMMA SizeShift ==
  ASSUME NEW i \in Int, NEW j \in Int, NEW k \in Int, i = j + SizeMod * k
  PROVE  Size_t(i) = Size_t(j)
<1>1. PICK d \in Int : i = SizeMod * d + Size_t(i)
  BY SizeQuotient
<1>2. PICK e \in Int : j = SizeMod * e + Size_t(j)
  BY SizeQuotient
<1>3. Size_t(i) \in SizeRange /\ Size_t(j) \in SizeRange
  BY SizeIsSize
<1>4. PICK r, s : r = Size_t(i) /\ s = Size_t(j)
  OBVIOUS
<1>5. /\ SizeMod * (e + k - d) = SizeMod * e + SizeMod * k - SizeMod * d
      /\ SizeMod * e \in Int /\ SizeMod * k \in Int /\ SizeMod * d \in Int
  <2>1. SizeMod \in Int
    BY Assumed
  <2> QED  BY <2>1
<1>6. r \in Int /\ s \in Int
  BY <1>3, <1>4 DEF SizeRange
<1>7. r = s + SizeMod * (e + k - d)
  <2>1. PICK me, mk, md \in Int : me = SizeMod * e /\ mk = SizeMod * k /\ md = SizeMod * d
    BY <1>5
  <2>2. i = md + r /\ j = me + s /\ i = j + mk
    BY <1>1, <1>2, <1>4, <2>1
  <2>3. r = s + (me + mk - md)
    BY <1>6, <2>2
  <2> QED  BY <1>5, <2>1, <2>3
<1>8. e + k - d \in Int /\ r \in SizeRange /\ s \in SizeRange
  BY <1>3, <1>4
<1>9. r = s
  BY <1>7, <1>8, SizeUnique
<1> QED  BY <1>4, <1>9

\* What is taken modulo SizeMod before is taken so once more.
LEMMA SizeOfSum ==
  ASSUME NEW i \in Int, NEW j \in Int
  PROVE  Size_t(Size_t(i) + j) = Size_t(i + j)
<1>1. PICK k \in Int : i = SizeMod * k + Size_t(i)
  BY SizeQuotient
<1>2. Size_t(i) \in Int
  BY SizeIsSize DEF SizeRange
<1>3. PICK r : r = Size_t(i)
  OBVIOUS
<1>4. SizeMod * k \in Int /\ i = SizeMod * k + r /\ r \in Int
  BY <1>1, <1>2, <1>3, Assumed
<1>5. i + j = (r + j) + SizeMod * k /\ r + j \in Int /\ i + j \in Int
  BY <1>4
<1>6. Size_t(i + j) = Size_t(r + j)
  BY <1>5, SizeShift
<1> QED  BY <1>3, <1>6

-----------------------------------------------------------------------------
(* The shape of the state. *)

\* Characters that were read and not put back.
Pending == IF again = "none" THEN 0 ELSE 1

\* What TypeOK says, and what it rests on: a modifier changes the rank by two at
\* most, and none is put back; a hook's cursor and sums are numbers.
TInv ==
  /\ state \in ParserStates \cup {"hook"}
  /\ again \in Chars \cup {"none"}
  /\ reads \in 0 .. MaxReads /\ Pending <= reads
  /\ rank \in -2 - (reads - Pending) .. 2 + 2 * (reads - Pending)
  /\ width \in 0 .. MaxWidth /\ prec \in -1 .. MaxWidth
  /\ stale \in BOOLEAN
  /\ n \in Sizes
  /\ q \in SizeRange /\ o \in SizeRange
  /\ buffer \in [0 .. n - 1 -> Nat]
  /\ outside \in BOOLEAN
  /\ total \in Nat
  /\ data \in [q : SizeRange, n : SizeRange] /\ given \in [q : SizeRange, n : SizeRange]
  /\ hook \in [prints : 0 .. MaxPrints, sum : Int, printed : Nat]

LEMMA WriteKeeps ==
  ASSUME buffer \in [0 .. n - 1 -> Nat], total \in Nat, outside \in BOOLEAN,
         NEW k \in Nat, NEW at, NEW from, NEW size, Write(k, at, from, size)
  PROVE  /\ buffer' \in [0 .. n - 1 -> Nat] /\ outside' \in BOOLEAN
         /\ total' \in Nat /\ total' = total + k
<1> DEFINE lands(j, i) == Size_t(from + j) < size /\ Size_t(at + j) = i
           pick(i) == CHOOSE j \in 0 .. k - 1 : lands(j, i)
<1>1. /\ buffer' = [i \in DOMAIN buffer |->
                      IF \E j \in 0 .. k - 1 : lands(j, i) THEN total + 1 + pick(i) ELSE buffer[i]]
      /\ total' = total + k
  BY DEF Write
<1>2. \A i : (\E j \in 0 .. k - 1 : lands(j, i)) => pick(i) \in 0 .. k - 1
  BY Zenon
<1> HIDE DEF pick
<1>3. ASSUME NEW i \in 0 .. n - 1, \E j \in 0 .. k - 1 : lands(j, i)
      PROVE  total + 1 + pick(i) \in Nat
  BY <1>2, <1>3
<1> HIDE DEF lands
<1>4. buffer' \in [0 .. n - 1 -> Nat]
  BY <1>1, <1>3
<1>5. outside' \in BOOLEAN
  BY Zenon DEF Write
<1> QED  BY <1>1, <1>4, <1>5

LEMMA EmitKeeps ==
  ASSUME TInv, NEW k \in Nat, Emit(k)
  PROVE  /\ buffer' \in [0 .. n - 1 -> Nat] /\ outside' \in BOOLEAN
         /\ total' \in Nat /\ total' = total + k
         /\ q' \in SizeRange /\ o' \in SizeRange
<1> DEFINE W == {j \in 0 .. k - 1 : Size_t(o + j) < n}
<1>1. Cardinality(W) \in Nat
  <2>1. IsFiniteSet(0 .. k - 1)
    BY FS_Interval
  <2>2. IsFiniteSet(W)
    BY <2>1, FS_Subset
  <2> QED  BY <2>2, FS_CardinalityType
<1>2. Write(k, q, o, n) /\ q' = Size_t(q + Cardinality(W)) /\ o' = Size_t(o + k)
  BY DEF Emit
<1> HIDE DEF W
<1>3. q + Cardinality(W) \in Int /\ o + k \in Int
  BY <1>1 DEF TInv, SizeRange
<1>4. q' \in SizeRange /\ o' \in SizeRange
  BY <1>2, <1>3, SizeIsSize
<1>5. buffer \in [0 .. n - 1 -> Nat] /\ total \in Nat /\ outside \in BOOLEAN
  BY DEF TInv
<1> QED  BY <1>2, <1>4, <1>5, WriteKeeps

\* What the parser reads, in the states of a directive and at its end.
LEMMA Taken ==
  ASSUME TInv, NEW c \in Chars, Read(c), again' = "none"
  PROVE  /\ reads' \in 0 .. MaxReads /\ Pending' = 0 /\ again' \in Chars \cup {"none"}
         /\ reads' = reads - Pending + 1 /\ reads - Pending \in Nat
<1>0. c # "none"
  BY DEF Chars, Flags, Digits, Modifiers, Conversions
<1> QED  BY <1>0, Assumed DEF TInv, Read, Pending

LEMMA Back ==
  ASSUME TInv, NEW c \in Chars, Read(c), again' = c
  PROVE  /\ reads' \in 0 .. MaxReads /\ Pending' = 1 /\ again' \in Chars \cup {"none"}
         /\ reads' = reads - Pending + 1 /\ reads - Pending \in Nat
<1>0. c # "none"
  BY DEF Chars, Flags, Digits, Modifiers, Conversions
<1> QED  BY <1>0, Assumed DEF TInv, Read, Pending

\* Only the place and the text change when a number is formatted or a hook
\* returns.
LEMMA AdvanceKeeps ==
  ASSUME TInv, NEW k \in Int, Advance(k)
  PROVE  q' \in SizeRange /\ o' \in SizeRange
<1>1. q + k \in Int /\ o + k \in Int
  BY DEF TInv, SizeRange
<1> QED  BY <1>1, SizeIsSize DEF Advance

LEMMA RoomType ==
  ASSUME TInv
  PROVE  Room \in SizeRange /\ n \in SizeRange /\ Room <= n
<1>1. n \in SizeRange /\ o \in SizeRange
  BY Assumed DEF TInv
<1> QED  BY <1>1, Assumed DEF Room, SizeRange

\* The lengths of the directives' texts.
LEMMA LengthsType ==
  ASSUME TInv, NEW t \in Nat
  PROVE  /\ Larger(Larger(width, prec), t) \in Nat
         /\ Larger(width, t + Larger(prec, 0)) \in Nat
         /\ Larger(width, IF prec # -1 /\ t > prec THEN prec ELSE t) \in Nat
<1>1. width \in Nat /\ prec \in Int /\ prec >= -1
  BY Assumed DEF TInv
<1> QED  BY <1>1 DEF Larger

LEMMA CanonicalType ==
  ASSUME TInv
  PROVE  Canonical(rank) \in -2 .. 2
BY DEF TInv, Canonical, RNK_MIN, RNK_MAX

LEMMA TInvStep == TInv /\ [Next]_vars => TInv'
<1> SUFFICES ASSUME TInv, [Next]_vars PROVE TInv'
  OBVIOUS
<1> USE Assumed
<1>1. ASSUME NEW c \in Chars, Normal(c) PROVE TInv'
  <2>1. /\ reads' \in 0 .. MaxReads /\ Pending' = 0 /\ again' \in Chars \cup {"none"}
        /\ reads' = reads - Pending + 1 /\ reads - Pending \in Nat
    BY <1>1, Taken DEF Normal, Consume
  <2>2. /\ UNCHANGED <<stale, n, data, given, hook>> /\ state = "normal"
    BY <1>1 DEF Normal, Consume, inHook
  <2>3. CASE c = "%" /\ state' = "flags" /\ rank' = 0 /\ width' = 0 /\ prec' = -1 /\ UNCHANGED output
    BY <2>1, <2>2, <2>3 DEF output, TInv, ParserStates
  <2>4. CASE Emit(1) /\ UNCHANGED <<state, rank, width, prec>>
    <3>1. /\ buffer' \in [0 .. n - 1 -> Nat] /\ outside' \in BOOLEAN
          /\ total' \in Nat /\ q' \in SizeRange /\ o' \in SizeRange
      BY <2>4, EmitKeeps
    <3>2. rank' \in -2 - (reads' - Pending') .. 2 + 2 * (reads' - Pending')
      BY <2>1, <2>4 DEF TInv
    <3>3. /\ state' \in ParserStates \cup {"hook"} /\ n' \in Sizes /\ stale' \in BOOLEAN
          /\ width' \in 0 .. MaxWidth /\ prec' \in -1 .. MaxWidth /\ buffer' \in [0 .. n' - 1 -> Nat]
          /\ data' \in [q : SizeRange, n : SizeRange] /\ given' \in [q : SizeRange, n : SizeRange]
          /\ hook' \in [prints : 0 .. MaxPrints, sum : Int, printed : Nat]
      BY <2>2, <2>4, <3>1 DEF TInv
    <3>4. Pending' <= reads'
      BY <2>1
    <3> QED  BY <2>1, <3>1, <3>2, <3>3, <3>4 DEF TInv
  <2> QED  BY <1>1, <2>3, <2>4 DEF Normal
<1>2. ASSUME NEW c \in Chars, Flag(c) \/ Width(c) \/ Precision(c) PROVE TInv'
  <2>1. UNCHANGED <<rank, stale, n, output, inHook>>
    BY <1>2 DEF Flag, Width, Precision
  <2>2. /\ reads' \in 0 .. MaxReads /\ again' \in Chars \cup {"none"}
        /\ Pending' <= reads' /\ reads' - Pending' >= reads - Pending
    <3>1. Read(c) /\ (again' = "none" \/ again' = c)
      BY <1>2 DEF Flag, Width, Precision, Consume, PutBack
    <3>2. CASE again' = "none"
      BY <3>1, <3>2, Taken
    <3>3. CASE again' = c
      BY <3>1, <3>3, Back
    <3> QED  BY <3>1, <3>2, <3>3
  <2>3. state' \in ParserStates
    BY <1>2 DEF Flag, Width, Precision, Consume, PutBack, ParserStates
  <2>4. width' \in 0 .. MaxWidth
    <3>1. CASE UNCHANGED width
      BY <3>1 DEF TInv
    <3>2. CASE width' = Appended(width, c) /\ width' <= MaxWidth
      BY <3>2 DEF TInv, Appended
    <3>3. CASE \E v \in IntValues : width' = Magnitude(v) /\ width' <= MaxWidth
      BY <3>3 DEF Magnitude
    <3> QED  BY <1>2, <3>1, <3>2, <3>3 DEF Flag, Width, Precision
  <2>5. prec' \in -1 .. MaxWidth
    <3>1. CASE UNCHANGED prec
      BY <3>1 DEF TInv
    <3>2. CASE prec' = 0
      BY <3>2
    <3>3. CASE prec >= 0 /\ prec' = Appended(prec, c) /\ prec' <= MaxWidth
      BY <3>3 DEF TInv, Appended
    <3>4. CASE \E v \in IntValues : prec' = Larger(v, -1) /\ prec' <= MaxWidth
      BY <3>4 DEF Larger
    <3> QED  BY <1>2, <3>1, <3>2, <3>3, <3>4 DEF Flag, Width, Precision
  <2>6. /\ rank' \in -2 - (reads' - Pending') .. 2 + 2 * (reads' - Pending')
        /\ n' \in Sizes /\ stale' \in BOOLEAN
    <3>1. Pending \in 0 .. 1 /\ Pending' \in 0 .. 1
      BY DEF Pending
    <3>2. rank' = rank /\ n' = n /\ stale' = stale
      BY <2>1
    <3>3. n' \in Sizes /\ stale' \in BOOLEAN
      BY <3>2 DEF TInv
    <3>4. rank \in -2 - (reads - Pending) .. 2 + 2 * (reads - Pending) /\ reads \in Nat
      BY DEF TInv
    <3>5. rank' \in -2 - (reads' - Pending') .. 2 + 2 * (reads' - Pending')
      <4>1. PICK a, b : a = reads - Pending /\ b = reads' - Pending'
        OBVIOUS
      <4>2. reads' \in Int /\ Pending \in Int /\ Pending' \in Int
        BY <2>2, <3>1
      <4>3. a \in Int /\ b \in Int
        BY <4>2, <3>4, <4>1
      <4>4. a <= b
        BY <2>2, <4>1, <4>3
      <4>5. rank \in -2 - a .. 2 + 2 * a
        BY <3>4, <4>1
      <4>6. rank \in -2 - b .. 2 + 2 * b
        BY <4>3, <4>4, <4>5
      <4> QED  BY <3>2, <4>1, <4>6
    <3> QED  BY <3>3, <3>5
  <2>7. /\ q' \in SizeRange /\ o' \in SizeRange /\ buffer' \in [0 .. n' - 1 -> Nat]
        /\ outside' \in BOOLEAN /\ total' \in Nat
        /\ data' \in [q : SizeRange, n : SizeRange] /\ given' \in [q : SizeRange, n : SizeRange]
        /\ hook' \in [prints : 0 .. MaxPrints, sum : Int, printed : Nat]
    BY <2>1 DEF TInv, output, inHook
  <2> QED  BY <2>2, <2>3, <2>4, <2>5, <2>6, <2>7 DEF TInv
<1>3. ASSUME NEW c \in Chars, Modifier(c) PROVE TInv'
  <2>1. /\ reads' \in 0 .. MaxReads /\ Pending' = 0 /\ again' \in Chars \cup {"none"}
        /\ reads' = reads - Pending + 1 /\ reads - Pending \in Nat
    BY <1>3, Taken DEF Modifier, Consume
  <2>2. /\ UNCHANGED <<state, width, prec, stale, n, output, inHook>> /\ c \in Modifiers
    BY <1>3 DEF Modifier
  <2>3. rank \in Int /\ rank' \in {rank - 1, rank + 1, 2, rank + 2}
    BY <1>3 DEF Modifier, Modifiers, RNK_MAX, TInv
  <2>4. rank \in -2 - (reads - Pending) .. 2 + 2 * (reads - Pending)
    BY DEF TInv
  <2>5. rank' \in -2 - (reads' - Pending') .. 2 + 2 * (reads' - Pending')
    BY <2>1, <2>3, <2>4
  <2> QED  BY <2>1, <2>2, <2>5 DEF TInv, output, inHook
\* A conversion, by what it does besides.
<1>4. ASSUME NEW c \in Chars, Convert(c), state' \in ParserStates \cup {"hook"},
             stale' \in BOOLEAN,
             q' \in SizeRange, o' \in SizeRange, buffer' \in [0 .. n - 1 -> Nat],
             outside' \in BOOLEAN, total' \in Nat,
             data' \in [q : SizeRange, n : SizeRange], given' \in [q : SizeRange, n : SizeRange],
             hook' \in [prints : 0 .. MaxPrints, sum : Int, printed : Nat]
      PROVE  TInv'
  <2>1. /\ reads' \in 0 .. MaxReads /\ Pending' = 0 /\ again' \in Chars \cup {"none"}
        /\ reads' = reads - Pending + 1 /\ reads - Pending \in Nat
    BY <1>4, Taken DEF Convert, Consume
  <2>2. rank' \in -2 .. 2
    BY <1>4, CanonicalType DEF Convert
  <2>3. rank' \in -2 - (reads' - Pending') .. 2 + 2 * (reads' - Pending')
    BY <2>1, <2>2
  <2>4. UNCHANGED <<width, prec, n>>
    BY <1>4 DEF Convert
  <2> QED  BY <1>4, <2>1, <2>3, <2>4 DEF TInv
<1>5. /\ stale \in BOOLEAN /\ buffer \in [0 .. n - 1 -> Nat] /\ outside \in BOOLEAN
      /\ total \in Nat /\ q \in SizeRange /\ o \in SizeRange
      /\ data \in [q : SizeRange, n : SizeRange] /\ given \in [q : SizeRange, n : SizeRange]
      /\ hook \in [prints : 0 .. MaxPrints, sum : Int, printed : Nat]
  BY DEF TInv
<1>6. "normal" \in ParserStates \cup {"hook"} /\ "hook" \in ParserStates \cup {"hook"}
      /\ {"d", "f", "B"} \subseteq Chars
  BY DEF ParserStates, Chars, Conversions
<1>7. ASSUME Integer \/ Double PROVE TInv'
  <2>1. PICK k \in Nat : Write(k, q, 0, Room) /\ Advance(k)
    <3>1. CASE Integer
      BY <3>1, LengthsType DEF Integer
    <3>2. CASE Double
      BY <3>2, LengthsType DEF Double
    <3> QED  BY <1>7, <3>1, <3>2
  <2>2. buffer' \in [0 .. n - 1 -> Nat] /\ outside' \in BOOLEAN /\ total' \in Nat
    BY <2>1, <1>5, WriteKeeps
  <2>3. q' \in SizeRange /\ o' \in SizeRange
    BY <2>1, AdvanceKeeps
  <2>4. state' = "normal" /\ UNCHANGED inHook
    BY <1>7 DEF Integer, Double
  <2>5. stale' \in BOOLEAN
    <3>1. CASE Integer
      BY <3>1, Zenon DEF Integer
    <3>2. CASE Double
      BY <3>2, <1>5 DEF Double
    <3> QED  BY <1>7, <3>1, <3>2
  <2>6. Convert("d") \/ Convert("f")
    BY <1>7 DEF Integer, Double
  <2> QED  BY <1>4, <1>5, <1>6, <2>2, <2>3, <2>4, <2>5, <2>6 DEF inHook
<1>8. ASSUME NEW c \in Chars, String(c) \/ Other(c) PROVE TInv'
  <2>1. Convert(c) /\ state' = "normal" /\ UNCHANGED <<stale, inHook>>
    BY <1>8 DEF String, Other
  <2>2. UNCHANGED output \/ \E k \in Nat : Emit(k)
    <3>1. CASE String(c)
      <4>1. PICK t \in Nat : Emit(Larger(width, IF prec # -1 /\ t > prec THEN prec ELSE t))
        BY <3>1 DEF String
      <4> QED  BY <4>1, LengthsType
    <3>2. CASE Other(c)
      BY <3>2 DEF Other
    <3> QED  BY <1>8, <3>1, <3>2
  <2>3. /\ buffer' \in [0 .. n - 1 -> Nat] /\ outside' \in BOOLEAN
        /\ total' \in Nat /\ q' \in SizeRange /\ o' \in SizeRange
    BY <2>2, <1>5, EmitKeeps DEF output
  <2> QED  BY <1>4, <1>5, <1>6, <2>1, <2>3 DEF inHook
<1>9. ASSUME CallHook PROVE TInv'
  <2>1. Convert("B") /\ state' = "hook" /\ UNCHANGED <<stale, output>>
    BY <1>9 DEF CallHook
  <2>2. data' \in [q : SizeRange, n : SizeRange] /\ given' \in [q : SizeRange, n : SizeRange]
    BY <1>9, <1>5, RoomType DEF CallHook
  <2>3. hook' \in [prints : 0 .. MaxPrints, sum : Int, printed : Nat]
    BY <1>9 DEF CallHook
  <2> QED  BY <1>4, <1>5, <1>6, <2>1, <2>2, <2>3 DEF output
<1>10. ASSUME printInHook PROVE TInv'
  <2>1. PICK t \in 0 .. MaxText, written \in Int :
          /\ Write(t, data.q, 0, data.n)
          /\ data' = Cursor(data, written)
          /\ hook' = [prints  |-> hook.prints + 1,
                      sum     |-> hook.sum + written,
                      printed |-> hook.printed + t]
    <3>1. 0 .. MaxText \subseteq Int
      OBVIOUS
    <3> QED  BY <1>10, <3>1 DEF printInHook
  <2>2. UNCHANGED <<parser, n, q, o, given>> /\ hook.prints < MaxPrints
    BY <1>10 DEF printInHook
  <2>3. buffer' \in [0 .. n - 1 -> Nat] /\ outside' \in BOOLEAN /\ total' \in Nat
    <3>1. t \in Nat
      OBVIOUS
    <3> QED  BY <2>1, <3>1, <1>5, WriteKeeps
  <2>4. data' \in [q : SizeRange, n : SizeRange]
    <3>1. data.q \in SizeRange /\ data.n \in SizeRange
      BY <1>5
    <3>2. Size_t(data.q + data.n) \in SizeRange /\ Size_t(data.q + written) \in SizeRange
      BY <3>1, SizeIsSize DEF SizeRange
    <3>3. Size_t(written) \in SizeRange
      BY SizeIsSize
    <3>4. Size_t(written) <= data.n => data.n - Size_t(written) \in SizeRange
      BY <3>1, <3>3 DEF SizeRange
    <3>5. 0 \in SizeRange /\ (Size_t(written) > data.n \/ Size_t(written) <= data.n)
      BY <3>1, <3>3 DEF SizeRange
    <3> QED  BY <2>1, <3>2, <3>4, <3>5 DEF Cursor
  <2>5. hook' \in [prints : 0 .. MaxPrints, sum : Int, printed : Nat]
    BY <2>1, <2>2, <1>5
  <2>6. Pending' = Pending
    BY <2>2 DEF parser, Pending
  <2> QED  BY <2>2, <2>3, <2>4, <2>5, <2>6 DEF TInv, parser
<1>11. ASSUME HookReturns PROVE TInv'
  <2>1. hook.sum \in Int
    BY <1>5
  <2>2. q' \in SizeRange /\ o' \in SizeRange
    BY <1>11, <2>1, AdvanceKeeps DEF HookReturns
  <2>3. Pending' = Pending
    BY <1>11 DEF HookReturns, Pending
  <2> QED  BY <1>11, <1>6, <2>2, <2>3 DEF HookReturns, inHook, TInv
<1>12. CASE UNCHANGED vars
  <2>1. UNCHANGED <<parser, n, output, inHook>> /\ Pending' = Pending
    BY <1>12 DEF vars, parser, Pending
  <2> QED  BY <2>1 DEF TInv, parser, output, inHook
<1> QED  BY <1>1, <1>2, <1>3, <1>7, <1>8, <1>9, <1>10, <1>11, <1>12 DEF Next

LEMMA TInvInit == Init => TInv
<1> SUFFICES ASSUME Init PROVE TInv
  OBVIOUS
<1> USE Assumed
<1>1. 0 \in SizeRange
  BY DEF SizeRange
<1>2. data \in [q : SizeRange, n : SizeRange] /\ given \in [q : SizeRange, n : SizeRange]
  BY <1>1 DEF Init
<1>3. reads = 0 /\ Pending = 0 /\ rank = 0
  BY DEF Init, Pending
<1>4. hook \in [prints : 0 .. MaxPrints, sum : Int, printed : Nat]
  BY DEF Init
<1>5. /\ state = "normal" /\ again = "none" /\ width = 0 /\ prec = -1 /\ stale = FALSE
      /\ n \in Sizes /\ q = 0 /\ o = 0 /\ outside = FALSE /\ total = 0
      /\ buffer = [i \in 0 .. n - 1 |-> 0]
  BY DEF Init
<1>6. buffer \in [0 .. n - 1 -> Nat]
  BY <1>5
<1>7. stale \in BOOLEAN /\ outside \in BOOLEAN
  BY <1>5, Zenon
<1>8. state \in ParserStates /\ again \in Chars \cup {"none"} /\ total \in Nat
  BY <1>5 DEF ParserStates
<1>9. width \in 0 .. MaxWidth /\ prec \in -1 .. MaxWidth
  BY <1>5
<1> QED  BY <1>1, <1>2, <1>3, <1>4, <1>5, <1>6, <1>7, <1>8, <1>9 DEF TInv

LEMMA TInvAlways == Spec => []TInv
BY TInvInit, TInvStep, PTL DEF Spec

\* For any int values, buffer sizes and bounds the state keeps its shape; places
\* and room never leave the range of a size_t, whatever a hook returns.
THEOREM TypeCorrect == Spec => []TypeOK
<1>1. TInv => TypeOK
  <2> SUFFICES ASSUME TInv PROVE TypeOK
    OBVIOUS
  <2>1. /\ Pending \in 0 .. 1 /\ reads - Pending <= MaxReads
        /\ rank \in -2 - MaxReads .. 2 + 2 * MaxReads
    BY Assumed DEF TInv, Pending
  <2>2. {q, o, data.q, data.n} \subseteq 0 .. SizeMod - 1
    BY DEF TInv, SizeRange
  <2> QED  BY <2>1, <2>2 DEF TInv, TypeOK
<1> QED  BY <1>1, TInvAlways, PTL

-----------------------------------------------------------------------------
(* The cursor of a hook. *)

\* What printInHook() makes of a cursor, whatever number it has for the length.
LEMMA CursorStep ==
  ASSUME NEW d \in [q : SizeRange, n : SizeRange], NEW w \in Int
  PROVE  /\ Cursor(d, w).n <= d.n
         /\ Size_t(Cursor(d, w).q + Cursor(d, w).n) = Size_t(d.q + d.n)
<1>1. PICK a, b : a = d.q /\ b = d.n /\ a \in SizeRange /\ b \in SizeRange
  OBVIOUS
<1>2. Size_t(w) \in SizeRange
  BY SizeIsSize
<1>3. a \in Int /\ b \in Int /\ a + b \in Int /\ a + w \in Int /\ b >= 0
  BY <1>1 DEF SizeRange
<1>4. CASE Size_t(w) > b
  <2>1. Cursor(d, w) = [q |-> Size_t(a + b), n |-> 0]
    BY <1>1, <1>4 DEF Cursor
  <2>2. Size_t(Size_t(a + b) + 0) = Size_t((a + b) + 0)
    BY <1>3, SizeOfSum
  <2>3. (a + b) + 0 = a + b
    BY <1>3
  <2> QED  BY <1>1, <1>3, <2>1, <2>2, <2>3
<1>5. CASE ~(Size_t(w) > b)
  <2>1. PICK r : r = Size_t(w)
    OBVIOUS
  <2>2. Cursor(d, w) = [q |-> Size_t(a + w), n |-> b - r]
    BY <1>1, <1>5, <2>1 DEF Cursor
  <2>3. r \in Int /\ r >= 0 /\ b - r \in Int /\ b - r <= b
    BY <1>2, <1>3, <2>1 DEF SizeRange
  <2>4. Size_t(Size_t(a + w) + (b - r)) = Size_t((a + w) + (b - r))
    BY <1>3, <2>3, SizeOfSum
  <2>5. PICK k \in Int : w = SizeMod * k + Size_t(w)
    BY SizeQuotient
  <2>6. PICK m : m = SizeMod * k
    OBVIOUS
  <2>7. m \in Int /\ w = m + r
    BY <2>1, <2>5, <2>6, Assumed
  <2>8. (a + w) + (b - r) = (a + b) + m /\ (a + w) + (b - r) \in Int
    BY <1>3, <2>3, <2>7
  <2>9. (a + w) + (b - r) = (a + b) + SizeMod * k
    BY <2>6, <2>8
  <2>10. Size_t((a + w) + (b - r)) = Size_t(a + b)
    BY <1>3, <2>8, <2>9, SizeShift
  <2> QED  BY <1>1, <2>2, <2>3, <2>4, <2>10
<1> QED  BY <1>4, <1>5

\* Only these two steps end in a hook.
LEMMA IntoHook ==
  ASSUME Next, state' = "hook"
  PROVE  CallHook \/ printInHook
<1>1. ASSUME NEW c \in Chars, Normal(c) \/ Flag(c) \/ Width(c) \/ Precision(c) PROVE FALSE
  BY <1>1 DEF Normal, Flag, Width, Precision, Consume, PutBack
<1>2. ASSUME NEW c \in Chars, Modifier(c) \/ String(c) \/ Other(c) PROVE FALSE
  BY <1>2 DEF Modifier, String, Other, Convert, Consume
<1>3. ASSUME Integer \/ Double \/ HookReturns PROVE FALSE
  BY <1>3 DEF Integer, Double, HookReturns
<1> QED  BY <1>1, <1>2, <1>3 DEF Next

LEMMA CursorKeptStep == TInv /\ CursorKept /\ [Next]_vars => CursorKept'
<1> SUFFICES ASSUME TInv, CursorKept, [Next]_vars, state' = "hook"
             PROVE  /\ data'.n <= given'.n
                    /\ Size_t(data'.q + data'.n) = Size_t(given'.q + given'.n)
  BY DEF CursorKept, Size_t
<1>1. CASE CallHook
  <2>1. Room \in SizeRange /\ Room \in Int
    BY RoomType DEF SizeRange
  <2>2. data' = [q |-> q, n |-> Room] /\ given' = data'
    BY <1>1 DEF CallHook
  <2> QED  BY <2>1, <2>2
<1>2. CASE printInHook
  <2>1. PICK w \in Int : data' = Cursor(data, w)
    <3>1. 0 .. MaxText \subseteq Int /\ IntValues \subseteq Int
      BY Assumed
    <3> QED  BY <1>2, <3>1 DEF printInHook
  <2>2. given' = given /\ state = "hook"
    BY <1>2 DEF printInHook
  <2>3. data \in [q : SizeRange, n : SizeRange] /\ given \in [q : SizeRange, n : SizeRange]
        /\ data' \in [q : SizeRange, n : SizeRange]
    BY TInvStep DEF TInv
  <2>4. data'.n <= data.n /\ Size_t(data'.q + data'.n) = Size_t(data.q + data.n)
    BY <2>1, <2>3, CursorStep
  <2>5. data.n <= given.n /\ Size_t(data.q + data.n) = Size_t(given.q + given.n)
    BY <2>2 DEF CursorKept
  <2>6. data'.n \in Int /\ data.n \in Int /\ given.n \in Int
    BY <2>3 DEF SizeRange
  <2>7. data'.n <= given.n
    BY <2>4, <2>5, <2>6
  <2> QED  BY <2>2, <2>4, <2>5, <2>7
<1>3. CASE UNCHANGED vars
  BY <1>3 DEF vars, inHook, parser, CursorKept
<1> QED  BY <1>1, <1>2, <1>3, IntoHook

\* printInHook() moves a hook's cursor without ever making room: what the hook is
\* left with is within what builtin_vsnprintf() gave it and ends where that ended,
\* for every int that comes back from the nested call, negative ones included.
THEOREM CursorAlwaysKept == Spec => []CursorKept
<1>1. Init => CursorKept
  BY DEF Init, CursorKept
<1> QED  BY <1>1, CursorKeptStep, TInvAlways, PTL DEF Spec

-----------------------------------------------------------------------------
(* What the buffer holds. *)

\* The buffer holds the beginning of the output, and nothing was written
\* elsewhere.
Prefix ==
  /\ ~outside
  /\ \A i \in 0 .. n - 1 : buffer[i] = IF i < total THEN i + 1 ELSE 0

\* Until the place the next character goes to is cut off it is where the output
\* ends; a hook's cursor runs ahead of o and q by what the hook has printed.
Places ==
  /\ o < n => q = o
  /\ state # "hook" => o = total
  /\ state = "hook" =>
       /\ hook.sum = hook.printed
       /\ total = o + hook.printed
       /\ data.n = IF total < n THEN n - total ELSE 0
       /\ data.n > 0 => data.q = total

\* Beyond SizeMod characters o starts again from 0, and so does the buffer.
OInv == total < SizeMod /\ returns = "count" => Prefix /\ Places

\* Characters that are written exactly where the output goes on extend it.
LEMMA WriteExtends ==
  ASSUME TInv, Prefix, NEW k \in Nat, NEW at, NEW from, NEW size,
         \A j \in 0 .. k - 1 : /\ Size_t(from + j) < size <=> total + j < n
                               /\ total + j < n => Size_t(at + j) = total + j,
         Write(k, at, from, size), n' = n
  PROVE  Prefix'
<1> DEFINE fits(j) == Size_t(from + j) < size
           lands(j, i) == fits(j) /\ Size_t(at + j) = i
           pick(i) == CHOOSE j \in 0 .. k - 1 : lands(j, i)
<1>1. /\ buffer' = [i \in DOMAIN buffer |->
                      IF \E j \in 0 .. k - 1 : lands(j, i) THEN total + 1 + pick(i) ELSE buffer[i]]
      /\ total' = total + k
  BY DEF Write
<1>2. outside' = (outside \/ \E j \in 0 .. k - 1 : fits(j) /\ Size_t(at + j) \notin DOMAIN buffer)
  BY Zenon DEF Write
<1>3. \A i : (\E j \in 0 .. k - 1 : lands(j, i)) => pick(i) \in 0 .. k - 1 /\ lands(pick(i), i)
  BY Zenon
<1> HIDE DEF pick
<1>4. DOMAIN buffer = 0 .. n - 1 /\ total \in Nat /\ n \in Nat
  BY Assumed DEF TInv, SizeRange
<1>5. \A j \in 0 .. k - 1 : \A i \in 0 .. n - 1 : lands(j, i) <=> total + j = i
  BY <1>4
<1>6. \A j \in 0 .. k - 1 : fits(j) => Size_t(at + j) \in 0 .. n - 1
  BY <1>4
<1> HIDE DEF lands, fits
<1>7. ~outside
  BY DEF Prefix
<1>8. ~outside'
  BY <1>2, <1>4, <1>6, <1>7, Zenon
<1>9. ASSUME NEW i \in 0 .. n - 1
      PROVE  buffer'[i] = IF i < total' THEN i + 1 ELSE 0
  <2>1. CASE \E j \in 0 .. k - 1 : lands(j, i)
    <3>1. pick(i) \in 0 .. k - 1 /\ lands(pick(i), i)
      BY <1>3, <2>1
    <3>2. total + pick(i) = i
      BY <1>5, <3>1
    <3>3. buffer'[i] = total + 1 + pick(i)
      BY <1>1, <1>4, <2>1
    <3> QED  BY <1>1, <1>4, <3>1, <3>2, <3>3
  <2>2. CASE ~(\E j \in 0 .. k - 1 : lands(j, i))
    <3>1. buffer'[i] = buffer[i]
      BY <1>1, <1>4, <2>2
    <3>2. buffer[i] = IF i < total THEN i + 1 ELSE 0
      BY DEF Prefix
    <3>3. i < total <=> i < total + k
      <4>1. ASSUME i >= total, i < total + k PROVE FALSE
        <5>1. i - total \in 0 .. k - 1 /\ total + (i - total) = i
          BY <1>4, <4>1
        <5> QED  BY <1>5, <2>2, <5>1
      <4> QED  BY <1>4, <4>1
    <3> QED  BY <1>1, <3>1, <3>2, <3>3
  <2> QED  BY <2>1, <2>2
<1> QED  BY <1>8, <1>9 DEF Prefix

\* EMIT, while o is the length of the output.
LEMMA EmitExtends ==
  ASSUME TInv, Prefix, o = total, o < n => q = o,
         NEW k \in Nat, Emit(k), total' < SizeMod, n' = n
  PROVE  Prefix' /\ o' = total' /\ (o' < n => q' = o')
<1> USE Assumed
<1>1. o \in Nat /\ n \in Nat /\ q \in Nat
  BY DEF TInv, SizeRange
<1>2. total' = total + k /\ Write(k, q, o, n)
  BY DEF Emit, Write
<1>3. ASSUME NEW j \in 0 .. k - 1 PROVE Size_t(o + j) = o + j
  <2>1. o + j \in SizeRange
    BY <1>1, <1>2 DEF SizeRange
  <2> QED  BY <2>1, SizeSmall
<1>4. ASSUME NEW j \in 0 .. k - 1, total + j < n PROVE Size_t(q + j) = total + j
  <2>1. q + j = o + j
    BY <1>1, <1>4
  <2> QED  BY <1>3, <2>1
<1>5. Prefix'
  <2>1. \A j \in 0 .. k - 1 : Size_t(o + j) < n <=> total + j < n
    BY <1>3
  <2> QED  BY <1>2, <1>4, <2>1, WriteExtends
<1>6. o' = total'
  <2>1. o + k \in SizeRange
    BY <1>1, <1>2 DEF SizeRange
  <2>2. o' = Size_t(o + k)
    BY DEF Emit
  <2> QED  BY <1>2, <2>1, <2>2, SizeSmall
<1>7. ASSUME o' < n PROVE q' = o'
  <2> DEFINE W == {j \in 0 .. k - 1 : Size_t(o + j) < n}
  <2>1. o + k < n
    BY <1>2, <1>6, <1>7
  <2>2. q = o
    BY <1>1, <2>1
  <2>3. W = 0 .. k - 1
    BY <1>1, <1>3, <2>1
  <2>4. Cardinality(0 .. k - 1) = k
    BY FS_Interval
  <2>5. q' = Size_t(q + Cardinality(W)) /\ o' = Size_t(o + k)
    BY DEF Emit
  <2> HIDE DEF W
  <2> QED  BY <2>2, <2>3, <2>4, <2>5
<1> QED  BY <1>5, <1>6, <1>7

\* A number is formatted into the room that is left, and counted in full.
LEMMA FormatExtends ==
  ASSUME TInv, Prefix, o = total, o < n => q = o,
         NEW k \in Nat, Write(k, q, 0, Room), Advance(k), total' < SizeMod, n' = n
  PROVE  Prefix' /\ o' = total' /\ (o' < n => q' = o')
<1> USE Assumed
<1>1. o \in Nat /\ n \in Nat /\ q \in Nat
  BY DEF TInv, SizeRange
<1>2. total' = total + k
  BY DEF Write
<1>3. ASSUME NEW j \in 0 .. k - 1
      PROVE  /\ Size_t(0 + j) < Room <=> total + j < n
             /\ total + j < n => Size_t(q + j) = total + j
  <2>1. j \in SizeRange /\ o + j \in SizeRange /\ 0 + j = j
    BY <1>1, <1>2 DEF SizeRange
  <2>2. Size_t(0 + j) = j /\ Size_t(o + j) = o + j
    BY <2>1, SizeSmall
  <2>3. j < Room <=> total + j < n
    BY <1>1 DEF Room
  <2>4. total + j < n => q = o
    BY <1>1
  <2> QED  BY <2>2, <2>3, <2>4
<1>4. Prefix'
  BY <1>3, WriteExtends
<1>5. o' = total'
  <2>1. o + k \in SizeRange
    BY <1>1, <1>2 DEF SizeRange
  <2> QED  BY <1>2, <2>1, SizeSmall DEF Advance
<1>6. ASSUME o' < n PROVE q' = o'
  <2>1. q = o
    BY <1>1, <1>2, <1>5, <1>6
  <2> QED  BY <2>1 DEF Advance
<1> QED  BY <1>4, <1>5, <1>6

\* What a step outside a hook does to the output.
Printed == \/ UNCHANGED output
           \/ \E k \in Nat : Emit(k)
           \/ \E k \in Nat : Write(k, q, 0, Room) /\ Advance(k)

LEMMA PlainStep ==
  ASSUME TInv, OInv, state # "hook", state' # "hook", Printed,
         total' < SizeMod, returns' = "count", returns' = returns, n' = n
  PROVE  Prefix' /\ Places'
<1> USE Assumed
<1>1. total \in Nat /\ \E k \in Nat : total' = total + k
  <2>1. total \in Nat
    BY DEF TInv
  <2>2. ASSUME UNCHANGED output PROVE total' = total + 0
    BY <2>1, <2>2 DEF output
  <2>3. ASSUME NEW k \in Nat, NEW at, NEW from, NEW size, Write(k, at, from, size)
        PROVE  total' = total + k
    BY <2>3 DEF Write
  <2>4. ASSUME NEW k \in Nat, Emit(k) PROVE Write(k, q, o, n)
    BY <2>4 DEF Emit
  <2> QED  BY <2>1, <2>2, <2>3, <2>4 DEF Printed
<1>2. total < SizeMod
  BY <1>1
<1>3. Prefix /\ o = total /\ (o < n => q = o)
  BY <1>2 DEF OInv, Places
<1>4. Prefix' /\ o' = total' /\ (o' < n => q' = o')
  <2>1. CASE UNCHANGED output
    <3>1. Prefix'
      BY <1>3, <2>1 DEF output, Prefix
    <3> QED  BY <1>3, <2>1, <3>1 DEF output
  <2>2. CASE \E k \in Nat : Emit(k)
    BY <1>3, <2>2, EmitExtends
  <2>3. CASE \E k \in Nat : Write(k, q, 0, Room) /\ Advance(k)
    BY <1>3, <2>3, FormatExtends
  <2> QED  BY <2>1, <2>2, <2>3 DEF Printed
<1> QED  BY <1>4 DEF Places

\* The steps of the parser and of the conversions.
LEMMA PlainSteps ==
  ASSUME TInv, Next, ~CallHook, ~printInHook, ~HookReturns
  PROVE  /\ state # "hook" /\ state' # "hook" /\ Printed
         /\ returns' = returns /\ n' = n
<1> USE Assumed
<1>1. ASSUME NEW c \in Chars, Normal(c)
      PROVE  Printed /\ state # "hook" /\ UNCHANGED <<returns, n>>
  BY <1>1 DEF Normal, Consume, Printed
<1>2. ASSUME NEW c \in Chars, Flag(c) \/ Width(c) \/ Precision(c) \/ Modifier(c)
      PROVE  Printed /\ state # "hook" /\ UNCHANGED <<returns, n>>
  BY <1>2 DEF Flag, Width, Precision, Modifier, Consume, PutBack, Printed
<1>3. ASSUME NEW c \in Chars, String(c)
      PROVE  Printed /\ state # "hook" /\ UNCHANGED <<returns, n>>
  <2>1. PICK t \in Nat : Emit(Larger(width, IF prec # -1 /\ t > prec THEN prec ELSE t))
    BY <1>3 DEF String
  <2>2. Printed
    BY <2>1, LengthsType DEF Printed
  <2> QED  BY <1>3, <2>2 DEF String, Convert, Consume
<1>4. ASSUME NEW c \in Chars, Other(c)
      PROVE  Printed /\ state # "hook" /\ UNCHANGED <<returns, n>>
  BY <1>4 DEF Other, Convert, Consume, Printed
<1>5. ASSUME Integer \/ Double
      PROVE  Printed /\ state # "hook" /\ UNCHANGED <<returns, n>>
  <2>1. PICK k \in Nat : Write(k, q, 0, Room) /\ Advance(k)
    <3>1. CASE Integer
      BY <3>1, LengthsType DEF Integer
    <3>2. CASE Double
      BY <3>2, LengthsType DEF Double
    <3> QED  BY <1>5, <3>1, <3>2
  <2>2. Printed
    BY <2>1 DEF Printed
  <2> QED  BY <1>5, <2>2 DEF Integer, Double, Convert, Consume
<1>6. state' # "hook"
  BY IntoHook
<1> QED  BY <1>1, <1>2, <1>3, <1>4, <1>5, <1>6 DEF Next

LEMMA CallHookStep ==
  ASSUME TInv, OInv, CallHook, total' < SizeMod, returns' = "count"
  PROVE  Prefix' /\ Places'
<1> USE Assumed
<1>1. UNCHANGED <<returns, n, output>> /\ state # "hook" /\ state' = "hook"
  BY DEF CallHook, Convert, Consume
<1>2. Prefix /\ o = total /\ (o < n => q = o)
  BY <1>1 DEF OInv, Places, output
<1>3. Prefix'
  BY <1>1, <1>2 DEF output, Prefix
<1>4. data' = [q |-> q, n |-> Room] /\ hook' = [prints |-> 0, sum |-> 0, printed |-> 0]
  BY DEF CallHook
<1>5. o \in Nat /\ n \in Nat
  BY DEF TInv, SizeRange
<1>6. Room = IF total < n THEN n - total ELSE 0
  BY <1>2 DEF Room
<1>7. data'.n = Room /\ data'.q = q /\ hook'.sum = 0 /\ hook'.printed = 0
  BY <1>4
<1>8. Room > 0 => q = total
  BY <1>2, <1>5, <1>6
<1>9. o' = o /\ n' = n /\ total' = total /\ q' = q
  BY <1>1 DEF output
<1> QED  BY <1>1, <1>2, <1>3, <1>5, <1>6, <1>7, <1>8, <1>9 DEF Places

LEMMA printInHookStep ==
  ASSUME TInv, OInv, printInHook, total' < SizeMod, returns' = "count"
  PROVE  Prefix' /\ Places'
<1> USE Assumed
<1>1. UNCHANGED <<returns, n, state, q, o>> /\ state = "hook"
  BY DEF printInHook, parser
<1>2. PICK t \in 0 .. MaxText :
        /\ Write(t, data.q, 0, data.n)
        /\ data' = Cursor(data, t)
        /\ hook' = [prints  |-> hook.prints + 1,
                    sum     |-> hook.sum + t,
                    printed |-> hook.printed + t]
  BY <1>1 DEF printInHook
<1>3. t \in Nat /\ total' = total + t /\ total \in Nat
  BY <1>2 DEF Write, TInv
<1>4. total < SizeMod
  BY <1>3
<1>5. /\ Prefix
      /\ o < n => q = o
      /\ hook.sum = hook.printed
      /\ total = o + hook.printed
      /\ data.n = IF total < n THEN n - total ELSE 0
      /\ data.n > 0 => data.q = total
  BY <1>1, <1>4 DEF OInv, Places
<1>6. PICK a, b : a = data.q /\ b = data.n
  OBVIOUS
<1>7. a \in SizeRange /\ b \in SizeRange /\ n \in Nat /\ o \in Nat
      /\ a \in Nat /\ b \in Nat
  BY <1>6 DEF TInv, SizeRange
<1>8. b = (IF total < n THEN n - total ELSE 0) /\ (b > 0 => a = total)
  BY <1>5, <1>6
<1>9. ASSUME NEW j \in 0 .. t - 1
      PROVE  /\ Size_t(0 + j) < b <=> total + j < n
             /\ total + j < n => Size_t(a + j) = total + j
  <2>1. j \in SizeRange /\ total + j \in SizeRange /\ 0 + j = j
    BY <1>3 DEF SizeRange
  <2>2. Size_t(0 + j) = j /\ Size_t(total + j) = total + j
    BY <2>1, SizeSmall
  <2>3. j < b <=> total + j < n
    BY <1>3, <1>7, <1>8
  <2>4. total + j < n => a = total
    BY <1>3, <1>7, <1>8
  <2> QED  BY <2>2, <2>3, <2>4
<1>10. Prefix'
  <2>1. Write(t, a, 0, b)
    BY <1>2, <1>6
  <2> QED  BY <1>1, <1>3, <1>5, <1>9, <2>1, WriteExtends
<1>11. Size_t(t) = t
  <2>1. t \in SizeRange
    BY <1>3 DEF SizeRange
  <2> QED  BY <2>1, SizeSmall
<1>12. data' = IF t > b THEN [q |-> Size_t(a + b), n |-> 0]
                        ELSE [q |-> Size_t(a + t), n |-> b - t]
  BY <1>2, <1>6, <1>11 DEF Cursor
<1>13. data'.n = IF total' < n THEN n - total' ELSE 0
  <2>1. CASE t > b
    <3>1. total' > n \/ total' = n
      BY <1>3, <1>7, <1>8, <2>1
    <3> QED  BY <1>3, <1>7, <1>12, <2>1, <3>1
  <2>2. CASE ~(t > b)
    <3>1. data'.n = b - t
      BY <1>12, <2>2
    <3> QED  BY <1>3, <1>7, <1>8, <2>2, <3>1
  <2> QED  BY <2>1, <2>2
<1>14. data'.n > 0 => data'.q = total'
  <2> SUFFICES ASSUME data'.n > 0 PROVE data'.q = total'
    OBVIOUS
  <2>1. ~(t > b)
    BY <1>12
  <2>2. data'.q = Size_t(a + t) /\ data'.n = b - t
    BY <1>12, <2>1
  <2>3. b > 0
    BY <1>3, <1>7, <2>2
  <2>4. a + t = total'
    BY <1>3, <1>8, <2>3
  <2>5. total' \in SizeRange
    BY <1>3 DEF SizeRange
  <2> QED  BY <2>2, <2>4, <2>5, SizeSmall
<1>15. hook'.sum = hook.sum + t /\ hook'.printed = hook.printed + t
  BY <1>2
<1>16. hook.printed \in Nat
  BY DEF TInv
<1>17. hook'.sum = hook'.printed /\ total' = o + hook'.printed
  BY <1>3, <1>5, <1>7, <1>15, <1>16
<1> QED  BY <1>1, <1>5, <1>10, <1>13, <1>14, <1>17 DEF Places

LEMMA HookReturnsStep ==
  ASSUME TInv, OInv, HookReturns, total' < SizeMod, returns' = "count"
  PROVE  Prefix' /\ Places'
<1> USE Assumed
<1>1. /\ UNCHANGED <<returns, n, buffer, outside, total>>
      /\ state = "hook" /\ state' = "normal" /\ Advance(hook.sum)
  BY DEF HookReturns
<1>2. /\ Prefix
      /\ o < n => q = o
      /\ hook.sum = hook.printed
      /\ total = o + hook.printed
  BY <1>1 DEF OInv, Places
<1>3. Prefix'
  BY <1>1, <1>2 DEF Prefix
<1>4. o \in Nat /\ n \in Nat /\ total \in Nat /\ hook.printed \in Nat
  BY DEF TInv, SizeRange
<1>5. total \in SizeRange
  BY <1>1, <1>4 DEF SizeRange
<1>6. o' = total
  BY <1>1, <1>2, <1>5, SizeSmall DEF Advance
<1>7. o' < n => q' = o'
  <2>1. total < n => q = o
    BY <1>2, <1>4
  <2> QED  BY <1>1, <1>6, <2>1 DEF Advance
<1> QED  BY <1>1, <1>3, <1>6, <1>7 DEF Places

LEMMA OInvStep == TInv /\ OInv /\ [Next]_vars => OInv'
<1> SUFFICES ASSUME TInv, OInv, [Next]_vars, total' < SizeMod, returns' = "count"
             PROVE  Prefix' /\ Places'
  BY DEF OInv
<1>1. CASE CallHook
  BY <1>1, CallHookStep
<1>2. CASE printInHook
  BY <1>2, printInHookStep
<1>3. CASE HookReturns
  BY <1>3, HookReturnsStep
<1>4. CASE Next /\ ~CallHook /\ ~printInHook /\ ~HookReturns
  <2>1. /\ state # "hook" /\ state' # "hook" /\ Printed
        /\ returns' = returns /\ n' = n
    BY <1>4, PlainSteps
  <2> QED  BY <2>1, PlainStep
<1>5. CASE UNCHANGED vars
  <2>1. UNCHANGED <<state, n, returns, q, o, buffer, outside, total, data, given, hook>>
    BY <1>5 DEF vars, parser, output, inHook
  <2>2. Prefix /\ Places
    BY <2>1 DEF OInv
  <2> QED  BY <2>1, <2>2 DEF Prefix, Places
<1> QED  BY <1>1, <1>2, <1>3, <1>4, <1>5

LEMMA OInvInit == Init => OInv
<1> SUFFICES ASSUME Init PROVE Prefix /\ Places
  BY DEF OInv
<1>1. /\ state = "normal" /\ q = 0 /\ o = 0 /\ outside = FALSE /\ total = 0
      /\ buffer = [i \in 0 .. n - 1 |-> 0]
  BY DEF Init
<1>2. ~outside
  BY <1>1, Zenon
<1>3. \A i \in 0 .. n - 1 : buffer[i] = IF i < total THEN i + 1 ELSE 0
  BY <1>1
<1>4. Prefix
  BY <1>2, <1>3 DEF Prefix
<1> QED  BY <1>1, <1>4 DEF Places

LEMMA FreshStep == TInv /\ ~stale /\ [Next]_vars => ~stale'
<1> SUFFICES ASSUME TInv, ~stale, [Next]_vars PROVE ~stale'
  OBVIOUS
<1>1. CASE Integer
  <2>1. rank' = Canonical(rank)
    BY <1>1 DEF Integer, Convert
  <2>2. rank' \in RNK_MIN .. RNK_MAX
    BY <2>1, TInvStep DEF Canonical, RNK_MIN, RNK_MAX, TInv
  <2> QED  BY <1>1, <2>2, Zenon DEF Integer
<1>2. CASE stale' = stale
  BY <1>2, Zenon
<1>3. ASSUME NEW c \in Chars,
             Normal(c) \/ Flag(c) \/ Width(c) \/ Precision(c) \/ Modifier(c) \/ String(c) \/ Other(c)
      PROVE  stale' = stale
  BY <1>3 DEF Normal, Flag, Width, Precision, Modifier, String, Other
<1>4. ASSUME Double \/ CallHook \/ printInHook \/ HookReturns PROVE stale' = stale
  BY <1>4 DEF Double, CallHook, printInHook, HookReturns, parser
<1>5. CASE UNCHANGED vars
  BY <1>2, <1>5 DEF vars, parser
<1> QED  BY <1>1, <1>2, <1>3, <1>4, <1>5 DEF Next

\* An integer is read from the arguments of its own directive whatever stands in
\* front of it: the rank is brought back into its range before it is used.
THEOREM ValueAlwaysFresh == Spec => []ValueIsFresh
<1>1. Init => ~stale
  BY Zenon DEF Init
<1> QED  BY <1>1, FreshStep, TInvAlways, PTL DEF Spec, ValueIsFresh

\* While the output has fewer than SizeMod characters, the buffer holds its
\* beginning, as much as fits, nothing is written outside, o is its length and
\* each integer is that of its own directive: for buffers of every size and
\* wherever in a directive or in a hook the output is cut off.
THEOREM OutputAlwaysRight == Spec => [](total < SizeMod => OutputIsRight)
<1>1. OInv /\ ValueIsFresh => (total < SizeMod => OutputIsRight)
  BY DEF OInv, Prefix, Places, OutputIsRight, WritesInBounds, PrefixOfOutput
<1> QED  BY <1>1, TInvAlways, OInvInit, OInvStep, ValueAlwaysFresh, PTL DEF Spec

=============================================================================
