------------------------------ MODULE Password ------------------------------
(***************************************************************************)
(* The password loop of example/pass/pass.c.  What fgets() puts into the   *)
(* buffer is a line with its newline, or without one at the end of the     *)
(* input and where it is longer than the buffer; a NUL that is typed is    *)
(* kept, while strcmp() takes the first one for the end.                   *)
(***************************************************************************)
EXTENDS Naturals, Sequences

CONSTANT MaxLines   \* bound: what fgets() returns before the end of the input

VARIABLES
  input,      \* what fgets() has still to return
  buf,        \* the buffer
  count,      \* failed attempts
  fresh,      \* buf was filled by the last fgets()
  outcome     \* "asking", "correct", "failed"

passVars == <<input, buf, count, fresh, outcome>>

\* A line up to what comes first behind its text: the newline, a NUL that was
\* typed (whatever is behind it, the newline included), or nothing.
Line(text, next) == [text |-> text, next |-> next]
Lines == [text : {"right", "wrong"}, next : {"newline", "nul", "nothing"}]

\* Nothing behind a text that is not the last means a full buffer: 99
\* characters, which are not the password.
Inputs ==
  {s \in UNION {[1 .. n -> Lines] : n \in 0 .. MaxLines} :
     \A i \in DOMAIN s : i < Len(s) /\ s[i].next = "nothing" => s[i].text = "wrong"}

\* The buffer is not initialised: it may hold anything, the password included.
PassInit ==
  /\ input \in Inputs
  /\ buf \in {Line("right", "nothing"), Line("wrong", "nothing")}
  /\ count = 0
  /\ fresh = FALSE
  /\ outcome = "asking"

\* A variant of Matches that does not see the newline.
MatchesText(b) == b.text = "right"

\* strcmp(): the newline counts, a NUL ends the comparison.
Matches(b) == b.text = "right" /\ b.next # "newline"

\* ++count > 3
TooMany == count + 1 > 3

\* A variant of Attempt that does not count at the end of the input.
AttemptUncounted ==
  /\ outcome = "asking"
  /\ IF input = <<>> THEN fresh' = FALSE /\ UNCHANGED <<input, buf>>
     ELSE fresh' = TRUE /\ buf' = Head(input) /\ input' = Tail(input)
  /\ IF Matches(buf') THEN outcome' = "correct" /\ UNCHANGED count
     ELSE /\ count' = IF fresh' THEN count + 1 ELSE count
          /\ outcome' = IF TooMany /\ fresh' THEN "failed" ELSE "asking"

\* One round of the loop.  At the end of the input fgets() leaves the buffer.
Attempt ==
  /\ outcome = "asking"
  /\ IF input = <<>> THEN fresh' = FALSE /\ UNCHANGED <<input, buf>>
     ELSE fresh' = TRUE /\ buf' = Head(input) /\ input' = Tail(input)
  /\ IF Matches(buf') THEN outcome' = "correct" /\ UNCHANGED count
     ELSE /\ count' = count + 1
          /\ outcome' = IF TooMany THEN "failed" ELSE "asking"

-----------------------------------------------------------------------------

PassTypeOK ==
  /\ input \in Seq(Lines) /\ buf \in Lines
  /\ count \in 0 .. 4 /\ (count = 4 <=> outcome = "failed")
  /\ fresh \in BOOLEAN
  /\ outcome \in {"asking", "correct", "failed"}

\* The password is never accepted by a line that is typed and ended with Enter,
\* only as the last text of an input without a newline, or with a NUL behind it;
\* and an attempt that was wrong does not become right at the end of the input,
\* where the buffer is compared again: without a fresh text only what lay in the
\* buffer before any was read.
AcceptedWithoutEnter ==
  outcome = "correct" =>
    /\ buf.next # "newline"
    /\ input = <<>> \/ buf.next = "nul"
    /\ fresh \/ count = 0

=============================================================================
