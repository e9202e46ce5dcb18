----------------------------- MODULE MCCommand -----------------------------
(***************************************************************************)
(* Command for TLC: two commands and a third that takes the place of help  *)
(* and has as many options as fit, argument vectors with words, bundles,   *)
(* unknown options and option files.                                       *)
(***************************************************************************)
EXTENDS Command

Log  == [op |-> "T", call |-> "log",  options |-> <<"h", "r", "P">>]
Load == [op |-> "l", call |-> "load", options |-> <<"r", "+">>]
Hush == [op |-> "h", call |-> "hush", options |-> <<"v", "u", "r", "P">>]

MCCommandTypes == {Log, Load, Hush}

Word == <<>>
Arguments == {Word} \cup {<<o>> : o \in {"T", "l", "h", "r", "+", "x"}}
               \cup {<<"r", "P">>, <<"v", "h">>, <<"T", "r">>}
MCArgvs == UNION {[1 .. n -> Arguments] : n \in 0 .. 3}

MCFileOptions == {<<>>, << <<"r">> >>, << <<"v">>, <<"r">> >>}

=============================================================================
