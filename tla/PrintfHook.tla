----------------------------- MODULE PrintfHook -----------------------------
(***************************************************************************)
(* builtin_vsnprintf() and printInHook() of src/printfHookBuiltin.c, with  *)
(* a hook that prints the way chunkPrintfHook() of src/chunk.c does.       *)
(*                                                                         *)
(* The text is abstracted to its length: the character written at a place  *)
(* is its number in the complete output, so that a buffer shows which part *)
(* of the output it holds, and padding, digits and letters are all         *)
(* characters.  The flags only choose among them and are read over.        *)
(* formatInt() and format_double() are not in the repository; they are     *)
(* modelled from their use: they write at most what fits and return the    *)
(* length they needed.                                                     *)
(*                                                                         *)
(* builtin_vsnprintf() has no return statement.  The variable returns says *)
(* what its caller sees: the count that is meant, or anything.  The        *)
(* variable declared as flag is read as flags.                             *)
(***************************************************************************)
EXTENDS Integers, FiniteSets

CONSTANTS
  SizeMod,     \* size_t counts modulo this (2^64)
  IntValues,   \* the values an int argument or an undefined return value takes
  Sizes,       \* buffer sizes
  MaxText,     \* bound: longest text of one directive before padding
  MaxWidth,    \* bound: width and precision
  MaxReads,    \* bound: characters of the format that are read
  MaxPrints    \* bound: calls of printInHook() in a hook

ASSUME PrintfAssumption ==
  /\ SizeMod \in Nat \ {0}
  /\ IntValues \subseteq Int
  /\ Sizes \subseteq 0 .. SizeMod - 1
  /\ {MaxText, MaxWidth, MaxReads, MaxPrints} \subseteq Nat

VARIABLES
  state,      \* the parser's state, "hook" while a hook runs
  again,      \* the character to be processed again, or "none"
  reads,      \* characters of the format read so far
  rank, width, prec,
  stale,      \* an integer was formatted that no argument was read for
  n,          \* size of the buffer
  returns,    \* "count" or "undefined", see above
  q, o,       \* the next place, from the buffer's start; characters output
  buffer,     \* what each place holds, 0 if nothing was written there
  outside,    \* something was written outside the buffer
  total,      \* length of the complete output so far
  data,       \* the hook's printfHookData_t
  given,      \* what it was when the hook was called
  hook        \* the hook's calls of printInHook(): how many, the sum of what
              \* they returned, and of what they printed

parser == <<state, again, reads, rank, width, prec, stale>>
output == <<q, o, buffer, outside, total>>
inHook == <<data, given, hook>>
vars == <<parser, n, returns, output, inHook>>

RNK_MIN == -2
RNK_MAX == 2

ParserStates == {"normal", "flags", "width", "prec", "modifiers"}

Flags == {"-", "0"}
Digits == {"0", "2"}
Modifiers == {"h", "l", "j", "L"}
Conversions == {"%", "d", "f", "s", "c", "n", "B"}   \* "B" has a hook
Chars == {"*", ".", "a"} \cup Flags \cup Digits \cup Modifiers \cup Conversions

Size_t(i) == i % SizeMod
Larger(a, b) == IF a < b THEN b ELSE a

-----------------------------------------------------------------------------
(* Output *)

\* k characters, the j-th of them at place at + j if the count from + j is
\* below size.
Write(k, at, from, size) ==
  LET Fits(j) == Size_t(from + j) < size
      Lands(j, i) == Fits(j) /\ Size_t(at + j) = i
  IN /\ buffer' = [i \in DOMAIN buffer |->
                     IF \E j \in 0 .. k - 1 : Lands(j, i)
                     THEN total + 1 + (CHOOSE j \in 0 .. k - 1 : Lands(j, i))
                     ELSE buffer[i]]
     /\ outside' = (outside \/ \E j \in 0 .. k - 1 :
                                 Fits(j) /\ Size_t(at + j) \notin DOMAIN buffer)
     /\ total' = total + k

\* EMIT, k times: the count always advances, q with each character written.
Emit(k) ==
  /\ Write(k, q, o, n)
  /\ q' = Size_t(q + Cardinality({j \in 0 .. k - 1 : Size_t(o + j) < n}))
  /\ o' = Size_t(o + k)

\* A variant of Advance that counts what was written, not what was needed.
AdvanceWritten(sz) ==
  LET w == IF o < n THEN IF sz < n - o THEN sz ELSE n - o ELSE 0
  IN q' = Size_t(q + w) /\ o' = Size_t(o + w)

\* After formatInt(), format_double() or a hook.
Advance(sz) == q' = Size_t(q + sz) /\ o' = Size_t(o + sz)

Room == IF o < n THEN n - o ELSE 0

-----------------------------------------------------------------------------

Init ==
  /\ state = "normal" /\ again = "none" /\ reads = 0
  /\ rank = 0 /\ width = 0 /\ prec = -1
  /\ stale = FALSE
  /\ n \in Sizes
  /\ returns \in {"count", "undefined"}
  /\ q = 0 /\ o = 0
  /\ buffer = [i \in 0 .. n - 1 |-> 0]
  /\ outside = FALSE
  /\ total = 0
  /\ data = [q |-> 0, n |-> 0] /\ given = data
  /\ hook = [prints |-> 0, sum |-> 0, printed |-> 0]

\* The loop takes c, the next character or the one put back.
Read(c) ==
  \/ again = c /\ UNCHANGED reads
  \/ again = "none" /\ reads < MaxReads /\ reads' = reads + 1

\* In state s; c goes no further.
Consume(s, c) == state = s /\ Read(c) /\ again' = "none"

\* In state s; c is none of the state's characters: p--.
PutBack(s, c, next) == state = s /\ Read(c) /\ again' = c /\ state' = next

Normal(c) ==
  /\ Consume("normal", c)
  /\ \/ /\ c = "%"
        /\ state' = "flags" /\ rank' = 0 /\ width' = 0 /\ prec' = -1
        /\ UNCHANGED output
     \/ /\ c # "%"
        /\ Emit(1)
        /\ UNCHANGED <<state, rank, width, prec>>
  /\ UNCHANGED <<stale, n, returns, inHook>>

Flag(c) ==
  /\ \/ c \in Flags /\ Consume("flags", c) /\ UNCHANGED state
     \/ c \notin Flags /\ PutBack("flags", c, "width")
  /\ UNCHANGED <<rank, width, prec, stale, n, returns, output, inHook>>

\* A variant of Magnitude that takes a negative width as it is.
MagnitudeNot(v) == v

Magnitude(v) == IF v < 0 THEN -v ELSE v

\* w with the digit c appended.
Appended(w, c) == 10 * w + (IF c = "2" THEN 2 ELSE 0)

Width(c) ==
  /\ \/ /\ c \in Digits /\ Consume("width", c)
        /\ width' = Appended(width, c) /\ width' <= MaxWidth
        /\ UNCHANGED <<state, prec>>
     \/ /\ c = "*" /\ Consume("width", c)
        /\ \E v \in IntValues : width' = Magnitude(v) /\ width' <= MaxWidth
        /\ UNCHANGED <<state, prec>>
     \/ /\ c = "." /\ Consume("width", c)
        /\ prec' = 0 /\ state' = "prec"
        /\ UNCHANGED width
     \/ /\ c \notin Digits \cup {"*", "."}
        /\ PutBack("width", c, "modifiers")
        /\ UNCHANGED <<width, prec>>
  /\ UNCHANGED <<rank, stale, n, returns, output, inHook>>

\* No format has digits behind a '*' for the precision.
Precision(c) ==
  /\ \/ /\ c \in Digits /\ prec >= 0 /\ Consume("prec", c)
        /\ prec' = Appended(prec, c) /\ prec' <= MaxWidth
        /\ UNCHANGED state
     \/ /\ c = "*" /\ Consume("prec", c)
        /\ \E v \in IntValues : prec' = Larger(v, -1) /\ prec' <= MaxWidth
        /\ UNCHANGED state
     \/ /\ c \notin Digits \cup {"*"}
        /\ PutBack("prec", c, "modifiers")
        /\ UNCHANGED prec
  /\ UNCHANGED <<rank, width, stale, n, returns, output, inHook>>

Modifier(c) ==
  /\ c \in Modifiers /\ Consume("modifiers", c)
  /\ rank' = CASE c = "h" -> rank - 1
               [] c = "l" -> rank + 1
               [] c = "j" -> RNK_MAX
               [] c = "L" -> rank + 2
  /\ UNCHANGED <<state, width, prec, stale, n, returns, output, inHook>>

-----------------------------------------------------------------------------
(* Conversions *)

\* A variant of Canonical that leaves ranks as they come.
CanonicalNot(r) == r

Canonical(r) == IF r < RNK_MIN THEN RNK_MIN ELSE IF r > RNK_MAX THEN RNK_MAX ELSE r

\* A conversion character ends the directive.
Convert(c) ==
  /\ Consume("modifiers", c)
  /\ rank' = Canonical(rank)
  /\ UNCHANGED <<width, prec, n, returns>>

\* The argument is read by a case for each rank; a rank outside leaves val.
Integer ==
  /\ Convert("d")
  /\ state' = "normal"
  /\ stale' = (stale \/ rank' \notin RNK_MIN .. RNK_MAX)
  /\ \E t \in 1 .. MaxText :
       LET sz == Larger(Larger(width, prec), t)
       IN Write(sz, q, 0, Room) /\ Advance(sz)
  /\ UNCHANGED inHook

Double ==
  /\ Convert("f")
  /\ state' = "normal"
  /\ \E t \in 1 .. MaxText :
       LET sz == Larger(width, t + Larger(prec, 0))
       IN Write(sz, q, 0, Room) /\ Advance(sz)
  /\ UNCHANGED <<stale, inHook>>

\* 's' and 'm', and the infinities and NaN of 'f': cut to the precision, padded
\* to the width; 'c' is a string of one.
String(c) ==
  /\ c \in {"s", "c", "f"}
  /\ Convert(c)
  /\ state' = "normal"
  /\ \E t \in IF c = "c" THEN {1} ELSE 0 .. MaxText :
       LET slen == IF prec # -1 /\ t > prec THEN prec ELSE t
       IN Emit(Larger(width, slen))
  /\ UNCHANGED <<stale, inHook>>

\* 'n' stores o in an argument; any other character stands for itself.
Other(c) ==
  /\ c \notin Modifiers \cup {"d", "f", "s", "c", "B"}
  /\ Convert(c)
  /\ state' = "normal"
  /\ IF c = "n" THEN UNCHANGED output ELSE Emit(1)
  /\ UNCHANGED <<stale, inHook>>

\* The hook gets the place and the room that is left.
CallHook ==
  /\ Convert("B")
  /\ state' = "hook"
  /\ data' = [q |-> q, n |-> Room] /\ given' = data'
  /\ hook' = [prints |-> 0, sum |-> 0, printed |-> 0]
  /\ UNCHANGED <<stale, output>>

-----------------------------------------------------------------------------
(* Hooks *)

\* A variant of Cursor that compares with the sign.
CursorSigned(d, written) ==
  IF written > d.n THEN [q |-> Size_t(d.q + d.n), n |-> 0]
                   ELSE [q |-> Size_t(d.q + written), n |-> Size_t(d.n - written)]

\* printInHook() moves on by what builtin_vsnprintf() returned, an int that is
\* compared as a size_t.
Cursor(d, written) ==
  IF Size_t(written) > d.n THEN [q |-> Size_t(d.q + d.n), n |-> 0]
                           ELSE [q |-> Size_t(d.q + written), n |-> d.n - Size_t(written)]

\* The hook prints t characters, through a builtin_vsnprintf() of its own.
printInHook ==
  /\ state = "hook"
  /\ hook.prints < MaxPrints
  /\ \E t \in 0 .. MaxText : \E written \in IF returns = "count" THEN {t} ELSE IntValues :
       /\ Write(t, data.q, 0, data.n)
       /\ data' = Cursor(data, written)
       /\ hook' = [prints  |-> hook.prints + 1,
                   sum     |-> hook.sum + written,
                   printed |-> hook.printed + t]
  /\ UNCHANGED <<parser, n, returns, q, o, given>>

\* The hook returns the sum.
HookReturns ==
  /\ state = "hook"
  /\ state' = "normal"
  /\ Advance(hook.sum)
  /\ UNCHANGED <<again, reads, rank, width, prec, stale, n, returns, buffer, outside, total, inHook>>

-----------------------------------------------------------------------------

Next ==
  \/ \E c \in Chars : \/ Normal(c) \/ Flag(c) \/ Width(c) \/ Precision(c)
                      \/ Modifier(c) \/ String(c) \/ Other(c)
  \/ Integer \/ Double
  \/ CallHook \/ printInHook \/ HookReturns

Spec == Init /\ [][Next]_vars

-----------------------------------------------------------------------------

\* The shape of the state.
TypeOK ==
  /\ state \in ParserStates \cup {"hook"}
  /\ again \in Chars \cup {"none"}
  /\ reads \in 0 .. MaxReads
  /\ rank \in -2 - MaxReads .. 2 + 2 * MaxReads
  /\ width \in 0 .. MaxWidth /\ prec \in -1 .. MaxWidth
  /\ stale \in BOOLEAN /\ outside \in BOOLEAN
  /\ n \in Sizes
  /\ {q, o, data.q, data.n} \subseteq 0 .. SizeMod - 1
  /\ buffer \in [0 .. n - 1 -> Nat]
  /\ total \in Nat
  /\ hook.prints \in 0 .. MaxPrints

\* Nothing is written outside the n bytes, although q stops at the end of the
\* buffer for EMIT, runs past it for formatInt() and hooks, and a hook writes
\* through a copy of it; provided hooks return what they print.
WritesInBounds == returns = "count" => ~outside

\* The buffer holds the beginning of the complete output, as much of it as
\* fits, and outside a hook o is the length of it all: cutting the output off
\* in one directive leaves the later ones where they belong.
PrefixOfOutput ==
  returns = "count" =>
  /\ \A i \in 0 .. n - 1 : buffer[i] = IF i < total THEN i + 1 ELSE 0
  /\ state # "hook" => o = total

\* printInHook() never gives a hook room beyond what builtin_vsnprintf() left,
\* whatever came back from the nested call, negative or larger than the room.
CursorKept ==
  state = "hook" =>
    /\ data.n <= given.n
    /\ Size_t(data.q + data.n) = Size_t(given.q + given.n)

\* Each integer that is formatted was read from the arguments of its own
\* directive, also behind modifiers that take the rank out of its range.
ValueIsFresh == ~stale

\* The output is right, wherever it is cut off: the beginning of the complete
\* output is in the buffer and nothing outside, and each integer is that of its
\* own directive.
OutputIsRight == WritesInBounds /\ PrefixOfOutput /\ ValueIsFresh

=============================================================================
