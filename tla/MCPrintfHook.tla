---------------------------- MODULE MCPrintfHook ----------------------------
(***************************************************************************)
(* PrintfHook for TLC.  Buffers of no and of two bytes, texts of up to     *)
(* two characters and one wide field put the end of the buffer before, in  *)
(* and behind each kind of directive.                                      *)
(***************************************************************************)
EXTENDS PrintfHook

MCSizes == {0, 2}
MCIntValues == {-3, -1, 2, 5}

=============================================================================
