----------------------------- MODULE MCLibrary -----------------------------
(* A small instance of Library for TLC. *)
EXTENDS Library

MCChunkVars == 1 .. 3
MCBlocks == 1 .. 3
\* One byte more than HalfRange; concatenated, more than twice as many.
MCContents == {<<0, 1, 1, 0, 1>>}

MCTraces == 1 .. 2

\* An unprivileged process that may not chown(2), and root, which may, is in no
\* other group and reads the databases without a buffer of its own.
MCProcess(euid, groups, permitted, reentrant) ==
  [euid |-> euid, egid |-> 1, groups |-> groups, permitted |-> permitted, reentrant |-> reentrant]
MCProcesses == {MCProcess(1, {2}, {2}, TRUE), MCProcess(0, {}, {0, 3}, FALSE)}

\* Contents of three lengths; sums that collide for one length and for two, and
\* one that is 0.
MCFiles == {<<1, 2>>, <<2, 1>>, <<3>>, <<2, 1, 1>>}
MCHashOf(bytes) == FoldLeft(LAMBDA h, b : (h + b) % 4, 0, bytes)

=============================================================================
