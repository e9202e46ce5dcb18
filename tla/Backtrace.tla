----------------------------- MODULE Backtrace -----------------------------
(***************************************************************************)
(* Backtraces (backtrace.c): copies of the innermost frames of the stack,  *)
(* their clones, and enumerators over them, while the program that took    *)
(* them calls and returns.  The build is one where backtrace() is there.   *)
(* An enumerator only refers to its backtrace: it is undefined behaviour   *)
(* to go on with it when that has been destroyed, after which the model    *)
(* stops.  frame_count, which is not declared, is read as frameCount.      *)
(***************************************************************************)
EXTENDS Integers, Sequences, Functions

CONSTANTS
  Addresses,     \* return addresses of the program
  Own,           \* the address inside backtraceCreate() itself
  MaxFrames,     \* countof(frames): 50
  MaxDepth,      \* bound: depth of the stack
  Traces         \* backtraces the program can hold, numbered; 0 is none

ASSUME TraceAssumption == MaxFrames \in Nat /\ 0 \notin Traces

VARIABLES
  stack,         \* return addresses, innermost first
  frames,        \* the frames of each backtrace the program holds
  due,           \* the frames each was asked for, taken from the stack
  enumerator,    \* its backtrace, destroyed since or not, its place, what it has given
  walk           \* "open", "ended" by a FALSE, "fault": undefined behaviour was met

traceVars == <<stack, frames, due, enumerator, walk>>

NoEnumerator == [bt |-> 0, stale |-> FALSE, i |-> 0, given |-> <<>>]

TraceInit ==
  /\ stack = <<>>
  /\ frames = <<>>
  /\ due = <<>>
  /\ enumerator = NoEnumerator
  /\ walk = "open"

-----------------------------------------------------------------------------

\* The program goes on (external).
CallFunction(a) ==
  /\ Len(stack) < MaxDepth
  /\ stack' = <<a>> \o stack
  /\ UNCHANGED <<frames, due, enumerator, walk>>
ReturnFunction ==
  /\ stack # <<>>
  /\ stack' = Tail(stack)
  /\ UNCHANGED <<frames, due, enumerator, walk>>

Lower(m, n) == IF m < n THEN m ELSE n

\* backtrace(): at most MaxFrames of the frames, the function's own first.
Captured == SubSeq(<<Own>> \o stack, 1, Lower(Len(stack) + 1, MaxFrames))

\* max(frameCount - skip, 0) frames from the skipped ones on.
Kept(skip) == SubSeq(Captured, skip + 1, Len(Captured))

\* f, with x for t too.
Extended(f, t, x) == [u \in DOMAIN f \cup {t} |-> IF u = t THEN x ELSE f[u]]

backtraceCreate(t, skip) ==
  /\ t \notin DOMAIN frames
  /\ frames' = Extended(frames, t, Kept(skip))
  /\ due' = Extended(due, t,
       [i \in 1 .. Lower(Len(stack) + 1, MaxFrames) - skip |-> (<<Own>> \o stack)[i + skip]])
  /\ UNCHANGED <<stack, enumerator, walk>>

backtraceClone(t, u) ==
  /\ t \in DOMAIN frames /\ u \notin DOMAIN frames
  /\ frames' = Extended(frames, u, frames[t])
  /\ due' = Extended(due, u, due[t])
  /\ UNCHANGED <<stack, enumerator, walk>>

\* An enumerator of it is not told.
backtraceDestroy(t) ==
  /\ t \in DOMAIN frames
  /\ frames' = Restrict(frames, DOMAIN frames \ {t})
  /\ due' = Restrict(due, DOMAIN due \ {t})
  /\ enumerator' = [enumerator EXCEPT !.stale = @ \/ enumerator.bt = t]
  /\ UNCHANGED <<stack, walk>>

backtraceEquals(t, u) ==
  \/ t = u
  \/ /\ Len(frames[t]) = Len(frames[u])
     /\ \A i \in DOMAIN frames[t] : frames[t][i] = frames[u][i]

backtraceCreateFrameEnumerator(t) ==
  /\ t \in DOMAIN frames /\ enumerator = NoEnumerator
  /\ enumerator' = [NoEnumerator EXCEPT !.bt = t]
  /\ UNCHANGED <<stack, frames, due, walk>>

\* A variant of HasMore that ends one frame early.
HasMoreButOne == enumerator.i + 1 < Len(frames[enumerator.bt])

HasMore == enumerator.i < Len(frames[enumerator.bt])

\* _frameEnumerate()
FrameEnumerate ==
  /\ enumerator # NoEnumerator /\ walk = "open"
  /\ \/ enumerator.stale /\ walk' = "fault" /\ UNCHANGED enumerator
     \/ ~enumerator.stale /\ ~HasMore /\ walk' = "ended" /\ UNCHANGED enumerator
     \/ /\ ~enumerator.stale /\ HasMore
        /\ enumerator' = [enumerator EXCEPT !.i = @ + 1,
                 !.given = Append(@, frames[enumerator.bt][enumerator.i + 1])]
        /\ UNCHANGED walk
  /\ UNCHANGED <<stack, frames, due>>

\* free() of the enumerator, at any time.
EnumeratorDestroy ==
  /\ enumerator # NoEnumerator
  /\ enumerator' = NoEnumerator
  /\ walk' = "open"
  /\ UNCHANGED <<stack, frames, due>>

TraceNext ==
  /\ walk # "fault"
  /\ \/ \E a \in Addresses : CallFunction(a)
     \/ ReturnFunction
     \/ \E t \in Traces, skip \in 0 .. 2 : backtraceCreate(t, skip)
     \/ \E t, u \in Traces : backtraceClone(t, u)
     \/ \E t \in Traces : backtraceDestroy(t) \/ backtraceCreateFrameEnumerator(t)
     \/ FrameEnumerate \/ EnumeratorDestroy

-----------------------------------------------------------------------------

Frame == Addresses \cup {Own}

TraceTypeOK ==
  /\ stack \in Seq(Addresses)
  /\ DOMAIN frames \subseteq Traces /\ DOMAIN due = DOMAIN frames
  /\ \A t \in DOMAIN frames :
       frames[t] \in Seq(Frame) /\ Len(frames[t]) <= MaxFrames /\ due[t] \in Seq(Frame)
  /\ enumerator \in [bt : Traces \cup {0}, stale : BOOLEAN, i : Nat, given : Seq(Frame)]
  /\ enumerator.bt \in Traces /\ ~enumerator.stale => enumerator.bt \in DOMAIN frames
  /\ walk \in {"open", "ended", "fault"}

\* An enumerator gives the frames the stack had when its backtrace was taken,
\* without the skipped ones and in order, and all of them before it ends,
\* although the stack has changed since; it misuses memory only when its
\* backtrace was destroyed before.
EnumeratesFrames ==
  /\ enumerator.bt \in Traces /\ ~enumerator.stale =>
       /\ enumerator.given = SubSeq(due[enumerator.bt], 1, enumerator.i)
       /\ walk = "ended" => enumerator.given = due[enumerator.bt]
  /\ walk = "fault" => enumerator.stale

\* Two backtraces, however they came about, are equal exactly if the stacks they
\* were taken of agree in the frames that are kept.
EqualWhenSameFrames ==
  \A t, u \in DOMAIN frames : backtraceEquals(t, u) <=> due[t] = due[u]

\* A backtrace is a snapshot of the stack, in what its enumerators give and in
\* what it is equal to, however long the program goes on after it was taken.
BacktraceIsSnapshot == EnumeratesFrames /\ EqualWhenSameFrames

=============================================================================
