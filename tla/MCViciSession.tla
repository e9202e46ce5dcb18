--------------------------- MODULE MCViciSession ---------------------------
(***************************************************************************)
(* ViciSession for TLC: three generators, so that one may disturb another  *)
(* and a third may be disturbed by what they leave behind.                 *)
(***************************************************************************)
EXTENDS ViciSession

CONSTANTS c1, c2, c3, log, bogus

MCCalls == {c1, c2, c3}
MCKnown == {log}
MCUnknown == {bogus}

=============================================================================
