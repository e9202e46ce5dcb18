------------------------------- MODULE Library -------------------------------
(***************************************************************************)
(* A program that uses one part of the helper library at a time: chunks,   *)
(* backtraces, capabilities, the integrity checker, or the password loop   *)
(* of the example.  The parts share no state and call each other nowhere,  *)
(* so all the states of the library are the sum of theirs; the part is     *)
(* chosen at the start, and the other ones stay as they were.              *)
(***************************************************************************)
EXTENDS Chunk, Backtrace, Capability, IntegrityChecker, Password

VARIABLE part

libraryVars == <<part, chunkVars, traceVars, capVars, checkVars, passVars>>

UsableParts == {"chunk", "backtrace", "capability", "integrity", "password"}

\* A part that is not used has one initial state.
LibraryInit ==
  /\ part \in UsableParts
  /\ ChunkInit /\ TraceInit /\ CapInit /\ CheckInit /\ PassInit
  /\ part # "capability" => process = CHOOSE p \in Processes : TRUE
  /\ part # "integrity" => file = CHOOSE f \in Files : TRUE
  /\ part # "password" => input = <<>> /\ buf = Line("wrong", "nothing")

UsesChunk == ChunkNext /\ UNCHANGED <<traceVars, capVars, checkVars, passVars>>
UsesTrace == TraceNext /\ UNCHANGED <<chunkVars, capVars, checkVars, passVars>>
UsesCap == CapNext /\ UNCHANGED <<chunkVars, traceVars, checkVars, passVars>>
UsesCheck == CheckNext /\ UNCHANGED <<chunkVars, traceVars, capVars, passVars>>
UsesPass == Attempt /\ UNCHANGED <<chunkVars, traceVars, capVars, checkVars>>

LibraryNext ==
  /\ UNCHANGED part
  /\ \/ part = "chunk" /\ UsesChunk
     \/ part = "backtrace" /\ UsesTrace
     \/ part = "capability" /\ UsesCap
     \/ part = "integrity" /\ UsesCheck
     \/ part = "password" /\ UsesPass

\* A function that was called goes on until it returns: the loops of a lookup,
\* of a file check and of the password program run on their own.
Runs(p, A) == part = p /\ A /\ LibraryNext

LibrarySpec ==
  /\ LibraryInit /\ [][LibraryNext]_libraryVars
  /\ WF_libraryVars(Runs("capability", ResolveStep))
  /\ WF_libraryVars(Runs("integrity", CheckStep))
  /\ WF_libraryVars(Runs("password", Attempt))

-----------------------------------------------------------------------------

\* Every variable of every part has its type, and a part that is not used is as
\* it was at the start.
LibraryTypeOK ==
  /\ part \in UsableParts
  /\ ChunkTypeOK /\ TraceTypeOK /\ CapTypeOK /\ CheckTypeOK /\ PassTypeOK
  /\ part # "chunk" => ChunkInit
  /\ part # "backtrace" => TraceInit
  /\ part # "capability" => CapInit
  /\ part # "integrity" => CheckInit
  /\ part # "password" => PassInit

\* The password loop ends: with the password, or after four attempts.
PassEnds == part = "password" ~> outcome \in {"correct", "failed"}

\* Every loop of the library ends: those of the lookups, whose entries are edited
\* meanwhile, of the file check, whose file is written, and of the password
\* program, whose input may be at its end.
LoopsEnd == ResolveReturns /\ CheckReturns /\ PassEnds

=============================================================================
