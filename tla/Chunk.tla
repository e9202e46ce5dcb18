------------------------------- MODULE Chunk -------------------------------
(***************************************************************************)
(* Chunks (chunk.h, chunk.c): pointers with a length, handed about by      *)
(* value, and the memory they point into.  A program keeps a few of them   *)
(* in variables and applies the functions of the library in any order.     *)
(*                                                                         *)
(* A pointer is a heap block and an offset.  Reading, writing or freeing   *)
(* what is not a live block is undefined behaviour: mem.fault, after which *)
(* the model stops.  chunk.h says chunk_empty where chunk.c defines        *)
(* ChunkEmpty; they are read as one.                                       *)
(***************************************************************************)
EXTENDS Integers, Sequences, FiniteSets, SequencesExt

CONSTANTS
  NULL,
  ChunkVars,     \* the program's chunk variables, numbered
  Blocks,        \* blocks malloc() can return
  Contents,      \* what the program fills a block with: sequences of bytes
  HalfRange,     \* 2^31: an int32_t goes from -HalfRange to HalfRange - 1
  MaxChunkOps    \* bound: calls of the program

ASSUME ChunkAssumption ==
  /\ NULL \notin Blocks \cup ChunkVars
  /\ IsFiniteSet(Blocks) /\ ChunkVars \subseteq Nat
  /\ Contents \subseteq Seq(Nat)
  /\ HalfRange \in Nat \ {0} /\ MaxChunkOps \in Nat

VARIABLES
  mem,      \* the heap, and whether undefined behaviour was met
  chunk,    \* the program's chunks, by variable
  shared,   \* variables whose block another one may point into or has been given
  cloned,   \* those among them that are so only by being cloned
  call,     \* the last call: what it could go wrong by, and whether it was right
  ops

chunkVars == <<mem, chunk, shared, cloned, call, ops>>

-----------------------------------------------------------------------------
(* Memory (external) *)

Unused == {b \in Blocks : mem.heap[b].state = "unused"}
Fault(m) == [m EXCEPT !.fault = TRUE]
Dead(m, c) == c.len > 0 /\ m.heap[c.ptr].state # "live"
Touch(m, c) == IF Dead(m, c) THEN Fault(m) ELSE m
BytesIn(m, c) ==
  IF c.len = 0 THEN <<>> ELSE SubSeq(m.heap[c.ptr].bytes, c.off + 1, c.off + c.len)
Content(v) == BytesIn(mem, chunk[v])

\* memcpy() into the block of c, from its offset on.
Stored(m, c, bytes) ==
  LET old == m.heap[c.ptr].bytes
      new == [i \in DOMAIN old |-> IF i \in c.off + 1 .. c.off + Len(bytes)
                                   THEN bytes[i - c.off] ELSE old[i]]
  IN  IF Dead(m, c) THEN Fault(m)
      ELSE [m EXCEPT !.heap[c.ptr].bytes = new]

\* malloc() of a block with these bytes.
Allocated(m, b, bytes) == [m EXCEPT !.heap[b] = [state |-> "live", bytes |-> bytes]]

\* free(): nothing for NULL, an error for anything but the start of a live block.
Released(m, c) ==
  IF c.ptr = NULL THEN m
  ELSE IF c.off # 0 \/ m.heap[c.ptr].state # "live" THEN Fault(m)
  ELSE [m EXCEPT !.heap[c.ptr].state = "freed"]

-----------------------------------------------------------------------------
(* The functions on values *)

ChunkEmpty == [ptr |-> NULL, off |-> 0, len |-> 0]

chunkCreate(b, n) == [ptr |-> b, off |-> 0, len |-> n]

\* c from its n-th byte on.
Moved(c, n) == [ptr |-> c.ptr, off |-> c.off + n, len |-> c.len - n]

chunkSkip(c, n) == IF c.len > n THEN Moved(c, n) ELSE ChunkEmpty

chunkSkipZero(c) ==
  IF c.len > 1 /\ BytesIn(mem, c)[1] = 0 THEN Moved(c, 1) ELSE c

\* The wipe of chunkClear() before it frees.
Wiped(m, c) == Stored(m, c, [i \in 1 .. c.len |-> 0])

\* The space chunkCreateCat() needs for its arguments.
chunkLen(args) ==
  LET len[i \in 0 .. Len(args)] == IF i = 0 THEN 0 ELSE len[i - 1] + chunk[args[i].v].len
  IN  len[Len(args)]

\* chunkEquals() of two live chunks.
chunkEquals(a, b) == a.ptr # NULL /\ b.ptr # NULL /\ BytesIn(mem, a) = BytesIn(mem, b)

\* A length is kept in 32 signed bits.
ToInt32(n) ==
  LET r == n % (2 * HalfRange) IN IF r >= HalfRange THEN r - 2 * HalfRange ELSE r

\* memcmp(): the sign of the first difference among n bytes.
memcmp(x, y, n) ==
  LET D == {i \in 1 .. n : x[i] # y[i]}
  IN  IF D = {} THEN 0
      ELSE LET i == CHOOSE i \in D : \A j \in D : i <= j
           IN  IF x[i] < y[i] THEN -1 ELSE 1

CompareLen(a, b) == ToInt32(a.len - b.len)

\* The length chunkCompare() hands to memcmp(), where a negative one is huge.
MemcmpLen(a, b) == ToInt32(IF CompareLen(a, b) < 0 THEN a.len ELSE b.len)

chunkCompare(a, b) ==
  IF CompareLen(a, b) # 0 \/ MemcmpLen(a, b) = 0 THEN CompareLen(a, b)
  ELSE memcmp(BytesIn(mem, a), BytesIn(mem, b), MemcmpLen(a, b))

-----------------------------------------------------------------------------

ChunkInit ==
  /\ mem = [heap |-> [b \in Blocks |-> [state |-> "unused", bytes |-> <<>>]], fault |-> FALSE]
  /\ chunk = [v \in ChunkVars |-> ChunkEmpty]
  /\ shared = {}
  /\ cloned = {}
  /\ call = [fn |-> "none", causes |-> {}, right |-> TRUE]
  /\ ops = 0

\* What a call that uses these variables can go wrong by: one of them points
\* where another one does, as the program was told ("alias"), or because it or
\* the other is a clone ("clone").
Sharing(used) ==
  (IF used \cap (shared \ cloned) # {} THEN {"alias"} ELSE {})
    \cup (IF used \cap cloned # {} THEN {"clone"} ELSE {})

\* A call that uses these variables, what else it can go wrong by, and what it
\* gives beside what it should give.
Compared(fn, used, others, got, want) ==
  /\ ops' = ops + 1
  /\ call' = [fn |-> fn, causes |-> others \cup Sharing(used), right |-> got = want]
Calls(fn, used) == Compared(fn, used, {}, <<>>, <<>>)

\* These variables share a block from now on, by what the program was told.
Shares(vs) == shared' = shared \cup vs /\ cloned' = cloned \ vs

IsEmpty(v) == chunk[v] = ChunkEmpty

\* A new chunk is kept in the first variable that is free.
IsFree(v) == IsEmpty(v) /\ \A w \in ChunkVars : w < v => ~IsEmpty(w)
AnUnused(m) == CHOOSE b \in Blocks : m.heap[b].state = "unused"

\* The program allocates and fills a chunk.
Fill(v) ==
  /\ IsFree(v) /\ Unused # {}
  /\ Calls("fill", {})
  /\ \E bytes \in Contents :
       /\ mem' = Allocated(mem, AnUnused(mem), bytes)
       /\ chunk' = [chunk EXCEPT ![v] = chunkCreate(AnUnused(mem), Len(bytes))]
  /\ UNCHANGED <<shared, cloned>>

\* The clone of a chunk takes over its pointer, and the bytes are copied onto
\* themselves.  The pointer that is passed, where the clone should be, is not
\* looked at and left out here.
chunkCreateClone(v, w) ==
  /\ IsFree(w) /\ v # w
  /\ Calls("clone", {v})
  /\ mem' = Touch(mem, chunk[v])
  /\ IF chunk[v].ptr # NULL /\ chunk[v].len > 0
     THEN /\ chunk' = [chunk EXCEPT ![w] = chunk[v]]
          /\ shared' = shared \cup {v, w}
          /\ cloned' = cloned \cup ({v, w} \ shared)
     ELSE UNCHANGED <<chunk, shared, cloned>>

\* v = chunkSkip(v, n): the start of the block is known to nobody any more.
Skip(v, n) ==
  /\ Calls("skip", {})
  /\ chunk' = [chunk EXCEPT ![v] = chunkSkip(chunk[v], n)]
  /\ Shares(IF n > 0 THEN {v} ELSE {})
  /\ UNCHANGED mem

SkipZero(v) ==
  /\ Calls("skipzero", {v})
  /\ mem' = IF chunk[v].len > 1 THEN Touch(mem, chunk[v]) ELSE mem
  /\ chunk' = IF mem'.fault THEN chunk ELSE [chunk EXCEPT ![v] = chunkSkipZero(chunk[v])]
  /\ Shares(IF chunk' # chunk THEN {v} ELSE {})

\* A variant of Emptied that leaves the pointer behind.
EmptiedLength(v) == [chunk EXCEPT ![v].len = 0]

\* *chunk = chunk_empty
Emptied(v) == [chunk EXCEPT ![v] = ChunkEmpty]

chunkFree(v) ==
  /\ Calls("free", {v})
  /\ mem' = Released(mem, chunk[v])
  /\ chunk' = Emptied(v)
  /\ UNCHANGED <<shared, cloned>>

\* chunkClear() of a chunk, and what it leaves of the memory.
Cleared(m, c) == IF c.ptr = NULL THEN m ELSE Released(Wiped(m, c), c)

chunkClear(v) ==
  /\ Calls("clear", {v})
  /\ mem' = Cleared(mem, chunk[v])
  /\ chunk' = Emptied(v)
  /\ UNCHANGED <<shared, cloned>>

-----------------------------------------------------------------------------
(* Concatenation: each argument is a mode letter and a variable. *)

Modes == {"c", "m", "s"}
CatArgs == UNION {[1 .. n -> [mode : Modes, v : ChunkVars]] : n \in 0 .. 2}

\* One argument: its bytes are appended, then it is cleared or freed.  The
\* function gets a copy of the chunk, so the program's variable keeps the pointer.
CatStep(s, a) ==
  LET c == chunk[a.v]
  IN  [mem |-> CASE a.mode = "s" -> Cleared(Touch(s.mem, c), c)
                 [] a.mode = "m" -> Released(Touch(s.mem, c), c)
                 [] a.mode = "c" -> Touch(s.mem, c),
       out |-> s.out \o BytesIn(s.mem, c)]

\* All arguments.
Concatenated(args) ==
  LET s[i \in 0 .. Len(args)] ==
        IF i = 0 THEN [mem |-> mem, out |-> <<>>] ELSE CatStep(s[i - 1], args[i])
  IN  s[Len(args)]

\* An argument is passed again that was freed on the way, and is read or freed.
PassedAgain(args) ==
  \E i, j \in DOMAIN args :
    /\ i < j /\ args[i].v = args[j].v /\ args[i].mode # "c"
    /\ chunk[args[j].v].ptr # NULL
    /\ chunk[args[j].v].len > 0 \/ args[j].mode # "c"

\* w = chunkCreateCat(ptr, mode, ...) with chunkLen() bytes at ptr.
chunkCreateCat(w, args) ==
  /\ IsFree(w) /\ Unused # {}
  /\ LET s == Concatenated(args)
         given == {args[i].v : i \in {i \in DOMAIN args : args[i].mode # "c"}}
     IN  /\ Compared("cat", {args[i].v : i \in DOMAIN args},
                     IF PassedAgain(args) THEN {"again"} ELSE {},
                     <<chunkLen(args), s.out>>,
                     LET all == FlattenSeq([i \in DOMAIN args |-> Content(args[i].v)])
                     IN  <<Len(all), all>>)
         /\ mem' = Allocated(s.mem, AnUnused(mem), s.out)
         /\ chunk' = [chunk EXCEPT ![w] = chunkCreate(AnUnused(mem), Len(s.out))]
         /\ Shares({v \in given : ~IsEmpty(v)})

-----------------------------------------------------------------------------
(* Splitting: pairs of a length and a target, and a string of mode letters. *)

Parts == {ps \in UNION {[1 .. n -> [len : 1 .. 2, target : ChunkVars \cup {NULL}, mode : {"m", "a", "c"}]]
                          : n \in 1 .. 2} :
            /\ \A i, j \in DOMAIN ps : i # j => ps[i].target # ps[j].target
            /\ \A i \in DOMAIN ps : ps[i].target = NULL => ps[i].mode = "m"}

\* The letters of the mode string: a NULL target has one of its own or not.
Letters(ps, forNull) ==
  LET of[i \in 0 .. Len(ps)] ==
        IF i = 0 THEN <<>>
        ELSE IF forNull \/ ps[i].target # NULL THEN Append(of[i - 1], ps[i].mode)
        ELSE of[i - 1]
  IN  of[Len(ps)]

Least(S) == CHOOSE n \in S : \A k \in S : n <= k

\* The bytes that go to the target of p.
Taken(s, p, mode) ==
  Least({s.rest.len, p.len} \cup (IF mode = "c" THEN {s.chunk[p.target].len} ELSE {}))

\* The target of p gets them: it points into the chunk, into a block of its own,
\* or keeps its block, which is lost when there is nothing to copy.  Nobody looks
\* whether malloc() has found a block: without one the bytes go to NULL, and what
\* the target holds then is seen by nobody.
Given(s, p, mode) ==
  LET n == Taken(s, p, mode)
      bytes == SubSeq(BytesIn(s.mem, s.rest), 1, n)
      b == AnUnused(s.mem)
      with(m, c) == [mem  |-> m, chunk |-> [s.chunk EXCEPT ![p.target] = c],
                     rest |-> chunkSkip(s.rest, n), k |-> s.k + 1, full |-> s.full]
  IN  CASE n = 0 -> with(s.mem, ChunkEmpty)
        [] n > 0 /\ mode = "m" -> with(s.mem, [s.rest EXCEPT !.len = n])
        [] n > 0 /\ mode = "a" /\ s.full -> with(Fault(s.mem), ChunkEmpty)
        [] n > 0 /\ mode = "a" /\ ~s.full ->
             with(Allocated(Touch(s.mem, s.rest), b, bytes), chunkCreate(b, n))
        [] n > 0 /\ mode = "c" ->
             with(IF Dead(s.mem, s.rest) THEN Fault(s.mem) ELSE Stored(s.mem, s.chunk[p.target], bytes),
                  [s.chunk[p.target] EXCEPT !.len = n])

\* A variant of SplitStep that takes a letter for a NULL target.
SplitStepLettered(s, p, letters) ==
  IF s.k > Len(letters) THEN s
  ELSE IF p.target = NULL THEN [s EXCEPT !.rest = chunkSkip(@, p.len), !.k = @ + 1]
  ELSE Given(s, p, letters[s.k])

\* A pair of arguments; a NULL target skips and leaves the mode where it is.
SplitStep(s, p, letters) ==
  IF s.k > Len(letters) THEN s
  ELSE IF p.target = NULL THEN [s EXCEPT !.rest = chunkSkip(s.rest, p.len)]
  ELSE Given(s, p, letters[s.k])

\* All pairs; full: there is no memory left.
Split(v, ps, letters, full) ==
  LET s[i \in 0 .. Len(ps)] ==
        IF i = 0 THEN [mem |-> mem, chunk |-> chunk, rest |-> chunk[v], k |-> 1, full |-> full]
        ELSE SplitStep(s[i - 1], ps[i], letters)
  IN  s[Len(ps)]

\* What the parts should hold, by the bytes alone.
Portion(s, p, room) ==
  LET n == Least({Len(s.left), p.len} \cup (IF p.target # NULL /\ p.mode = "c" THEN {room[p.target]} ELSE {}))
  IN  [left |-> SubSeq(s.left, n + 1, Len(s.left)),
       of   |-> Append(s.of, IF p.target = NULL THEN <<>> ELSE SubSeq(s.left, 1, n))]

Portions(ps, bytes, room) ==
  LET s[i \in 0 .. Len(ps)] ==
        IF i = 0 THEN [left |-> bytes, of |-> <<>>] ELSE Portion(s[i - 1], ps[i], room)
  IN  s[Len(ps)].of

\* chunkSplit(v, mode, ...).  When letters are left after the last pair, the
\* arguments that are read next were not passed.
chunkSplit(v, ps, forNull, full) ==
  LET letters == Letters(ps, forNull)
      s == Split(v, ps, letters, full)
      allocates == \E i \in DOMAIN ps : ps[i].target # NULL /\ ps[i].mode = "a"
      targets == {ps[i].target : i \in DOMAIN ps} \ {NULL}
      after == IF s.k <= Len(letters) THEN Fault(s.mem) ELSE s.mem
      held(i) == IF ps[i].target = NULL THEN <<>> ELSE BytesIn(after, s.chunk[ps[i].target])
  IN  /\ v \notin targets /\ Cardinality(Unused) >= Len(ps)
      /\ forNull => \E i \in DOMAIN ps : ps[i].target = NULL
      /\ full => allocates
      /\ \A i \in DOMAIN ps : ps[i].target # NULL => (ps[i].mode # "c" <=> IsEmpty(ps[i].target))
      /\ Compared("split", {v} \cup targets,
                  (IF forNull THEN {"letters"} ELSE {}) \cup (IF full THEN {"malloc"} ELSE {}),
                  [i \in DOMAIN ps |-> held(i)],
                  Portions(ps, Content(v), [w \in ChunkVars |-> chunk[w].len]))
      /\ mem' = after
      /\ chunk' = s.chunk
      /\ Shares(UNION {{v, w} : w \in {w \in targets : s.chunk[w].ptr = chunk[v].ptr /\ ~IsEmpty(v)}})

-----------------------------------------------------------------------------
(* Comparison and printing *)

\* Shorter chunks come first, then the bytes decide.
ByteOrder(x, y) ==
  IF Len(x) # Len(y) THEN (IF Len(x) < Len(y) THEN -1 ELSE 1) ELSE memcmp(x, y, Len(x))
Sign(n) == IF n < 0 THEN -1 ELSE IF n > 0 THEN 1 ELSE 0

\* Lengths for which the 32 bits decide: their difference has another sign in
\* them, or they are equal and memcmp() gets a negative one; and longer ones.
Overflowing(m, n) ==
  IF m = n THEN m >= HalfRange ELSE m - n \notin -HalfRange .. HalfRange - 1
CompareCauses(m, n) ==
  IF ~Overflowing(m, n) THEN {}
  ELSE IF m < 2 * HalfRange /\ n < 2 * HalfRange THEN {"width"} ELSE {"range"}

Compare(v, w) ==
  LET a == chunk[v]
      b == chunk[w]
      read == a.len > 0 /\ b.len > 0 /\ CompareLen(a, b) = 0
      m == IF read THEN Touch(Touch(mem, a), b) ELSE mem
      \* memcmp() reads beyond the blocks
      after == IF read /\ MemcmpLen(a, b) < 0 THEN Fault(m) ELSE m
  IN  /\ mem' = after
      /\ Compared("compare", {v, w}, CompareCauses(a.len, b.len),
                  <<Sign(chunkCompare(a, b)), chunkEquals(a, b)>>,
                  <<ByteOrder(Content(v), Content(w)),
                    NULL \notin {a.ptr, b.ptr} /\ Content(v) = Content(w)>>)
      /\ UNCHANGED <<chunk, shared, cloned>>

\* This hook, or the one for memory it passes a plain %B on to: the
\* bytes are printed from a copy of the chunk.
chunkPrintfHook(v) ==
  /\ Calls("print", {v})
  /\ mem' = Touch(mem, chunk[v])
  /\ UNCHANGED <<chunk, shared, cloned>>

-----------------------------------------------------------------------------

ChunkNext ==
  /\ ~mem.fault /\ ops < MaxChunkOps
  /\ \/ \E v \in ChunkVars : Fill(v) \/ SkipZero(v) \/ chunkFree(v) \/ chunkClear(v) \/ chunkPrintfHook(v)
     \/ \E v \in ChunkVars, n \in 0 .. 2 : Skip(v, n)
     \/ \E v, w \in ChunkVars : chunkCreateClone(v, w) \/ Compare(v, w)
     \/ \E w \in ChunkVars, args \in CatArgs : chunkCreateCat(w, args)
     \/ \E v \in ChunkVars, ps \in Parts, forNull, full \in BOOLEAN :
          chunkSplit(v, ps, forNull, full)

-----------------------------------------------------------------------------

Causes == {"alias", "clone", "again", "letters", "malloc", "width", "range"}
ChunkCalls ==
  {"none", "fill", "clone", "skip", "skipzero", "free", "clear", "cat", "split", "compare", "print"}

ChunkTypeOK ==
  /\ mem.heap \in [Blocks -> [state : {"unused", "live", "freed"}, bytes : Seq(Nat)]]
  /\ mem.fault \in BOOLEAN
  /\ chunk \in [ChunkVars -> [ptr : Blocks \cup {NULL}, off : Nat, len : Nat]]
  /\ \A v \in ChunkVars : chunk[v].ptr # NULL =>
       chunk[v].off + chunk[v].len <= Len(mem.heap[chunk[v].ptr].bytes)
  /\ shared \subseteq ChunkVars /\ cloned \subseteq shared
  /\ call \in [fn : ChunkCalls, causes : SUBSET Causes, right : BOOLEAN]
  /\ ops \in 0 .. MaxChunkOps

\* However the calls are combined, memory is only misused where one of these is
\* there: a chunk that the program was told points where another one does, or
\* has been given away ("alias": skipped, split in place, moved); a clone, which
\* should have memory of its own ("clone"); an argument that a concatenation has
\* freed and gets again ("again"); letters for NULL targets ("letters"); no
\* memory for a split ("malloc"); equal lengths from 2^31 on ("width", "range").
\* And the ones that are in the call itself always do it: an argument passed
\* again, and letters that are left over when the arguments are not.
FaultsAreCaused ==
  /\ mem.fault => call.causes # {}
  /\ call.causes \cap {"again", "letters"} # {} => mem.fault

\* A concatenation holds what its arguments held, also those that are wiped and
\* freed on the way, and has the length chunkLen() announces; a split hands out
\* the bytes one after another, none twice and none left out, whatever mixture
\* of moved, allocated, copied and skipped parts is asked for; and the comparison
\* is "zero if a equals b or negative/positive if a is small/greater than b".
\* Below 2^32 that is so exactly while the difference of the lengths fits 32
\* signed bits, and a common length does: otherwise it never is.
CallsAreRight ==
  /\ call.fn \in {"cat", "split", "compare"} /\ call.causes = {} => call.right
  /\ "width" \in call.causes => mem.fault \/ ~call.right

\* "Create a clone of a chunk pointing to ptr": a program that gives each clone
\* its memory, as it is told, and keeps to every other rule, does not misuse any
\* by using a clone beside its original.
ClonesAreCopies == mem.fault => call.causes # {"clone"}

=============================================================================
