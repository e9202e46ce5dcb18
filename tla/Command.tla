------------------------------ MODULE Command ------------------------------
(***************************************************************************)
(* The command registry and dispatcher of src/command.c.                   *)
(*                                                                         *)
(* An argument is the sequence of option characters it carries: one for    *)
(* "--raw" or "-r", several for a bundle "-rP", none for a plain word.  A  *)
(* value an option takes belongs to its argument; a missing one makes the  *)
(* option unknown, which is what getopt_long() reports ('?').  getopt_long *)
(* is external and modelled as far as the code uses it: it keeps its place *)
(* (optind, and the place in a bundle) between calls and moves plain words *)
(* behind the options.                                                     *)
(*                                                                         *)
(* The source misspells several names (commands_opts for command_opts,     *)
(* commands_optstring[i].val for the next character of command_optstring); *)
(* each is read as the variable that is declared.                          *)
(***************************************************************************)
EXTENDS Naturals, Sequences

CONSTANTS
  CommandTypes,   \* commands a program may register: [op, call, options]
  Argvs,          \* argument vectors without argv[0]
  FileOptions,    \* what an option file named by '+' may hold: arguments
  MaxCommands,    \* MAX_COMMANDS
  MaxOptions      \* MAX_OPTIONS

\* A command_t: its character, which EOF is not, its function and its array of
\* options.  Only help is registered without a function.
IsCommand(c) ==
  /\ DOMAIN c = {"op", "call", "options"} /\ c.op # "EOF"
  /\ c.call # "NULL"
  /\ Len(c.options) <= MaxOptions

ASSUME CommandAssumption ==
  /\ MaxCommands \in Nat \ {0} /\ MaxOptions \in Nat
  /\ \A c \in CommandTypes : IsCommand(c)
  /\ Argvs \cup FileOptions \subseteq Seq(Seq(STRING))

VARIABLES
  phase,       \* where the program is
  cmds,        \* the registry; registered is its length
  active, helpIdx,
  table,       \* command_opts with command_optstring: the options looked for
  argv,        \* argv[1] .. argv[argc - 1], as getopt has permuted them
  optind,      \* the next argument (1 is argv[1])
  nextchar,    \* characters of that argument already returned
  checked,     \* the command's own options processCommonOpts() has let through
  seen,        \* those the command got from commandGetOpt()
  result       \* what the dispatch came to

registry == <<cmds, active, helpIdx, table>>
getopt == <<argv, optind, nextchar>>
vars == <<phase, registry, getopt, checked, seen, result>>

-----------------------------------------------------------------------------
(* getopt_long() (external) *)

EOF == "EOF"
Bad == "?"
Known(op) == \E i \in DOMAIN table : table[i] = op

\* The first argument from optind on that is not a plain word.
IsNext(k) ==
  /\ k \in optind .. Len(argv)
  /\ argv[k] # <<>>
  /\ \A j \in optind .. k - 1 : argv[j] = <<>>

\* Argument k comes before the words from optind on.
Permuted(k) ==
  SubSeq(argv, 1, optind - 1) \o <<argv[k]>> \o SubSeq(argv, optind, k - 1)
    \o SubSeq(argv, k + 1, Len(argv))

\* One call returns op and leaves argv, with more put in after the argument.
GetOptInserting(op, more) ==
  \/ /\ \A k \in optind .. Len(argv) : argv[k] = <<>>
     /\ op = EOF
     /\ UNCHANGED getopt
  \/ \E k \in optind .. Len(argv) :
       /\ IsNext(k)
       /\ LET c == argv[k][nextchar + 1] IN op = IF Known(c) THEN c ELSE Bad
       /\ argv' = SubSeq(Permuted(k), 1, optind) \o more
                    \o SubSeq(Permuted(k), optind + 1, Len(argv))
       /\ IF nextchar + 1 = Len(argv[k])
          THEN optind' = optind + 1 /\ nextchar' = 0
          ELSE nextchar' = nextchar + 1 /\ UNCHANGED optind

GetOpt(op) == GetOptInserting(op, <<>>)
Answers == {EOF, Bad} \cup {table[k] : k \in DOMAIN table}

-----------------------------------------------------------------------------

Init ==
  /\ phase = "setup"
  /\ cmds = <<>>
  /\ active = 1 /\ helpIdx = 1
  /\ table = <<>>
  /\ argv = <<>> /\ optind = 1 /\ nextchar = 0
  /\ checked = <<>> /\ seen = <<>>
  /\ result = "none"

\* A variant of Registered without the check for a full table.
RegisteredAlways(c) == Append(cmds, c)

\* A full table takes no further command.
Registered(c) == IF Len(cmds) = MaxCommands THEN cmds ELSE Append(cmds, c)

commandRegister(c) ==
  /\ phase = "setup"
  /\ cmds' = Registered(c)
  /\ UNCHANGED <<phase, active, helpIdx, table, getopt, checked, seen, result>>

Help == [op |-> "h", call |-> "NULL", options |-> <<>>]

\* build_opts() for entry i: the commands themselves for the help entry,
\* otherwise the options of that command.
Built(i) ==
  IF i = helpIdx' THEN [k \in DOMAIN cmds' |-> cmds'[k].op] ELSE cmds'[i].options

\* The options end where one has no name, which a full array never does, be it
\* the array in the command or command_opts: undefined behaviour.
Unterminated(i) == i # helpIdx /\ Len(cmds[i].options) = MaxOptions

Return(r) == phase' = "returned" /\ result' = r

\* commandDispatch() up to its first getopt_long().  A process dispatches once.
commandDispatch(v) ==
  /\ phase = "setup"
  /\ helpIdx' = Len(cmds) + 1 /\ active' = Len(cmds) + 1
  /\ cmds' = Registered(Help)
  /\ table' = Built(active')
  /\ argv' = v
  /\ checked' = <<>> /\ seen' = <<>>
  /\ result' = "none"
  /\ phase' = "select"
  /\ UNCHANGED <<optind, nextchar>>

\* A variant of IsHelp that never finds the help entry.
IsHelpNever(i) == FALSE

IsHelp(i) == i = helpIdx

\* The first option names the command, the first registered with that
\* character: usage for help, otherwise its options are looked for from here on.
SelectCommand ==
  /\ phase = "select"
  /\ UNCHANGED <<cmds, helpIdx, checked, seen>>
  /\ \E op \in Answers :
       /\ GetOpt(op)
       /\ \/ \E i \in DOMAIN cmds :
               /\ cmds[i].op = op /\ \A j \in 1 .. i - 1 : cmds[j].op # op
               /\ active' = i
               /\ \/ /\ Unterminated(i)
                     /\ phase' = "overread"
                     /\ UNCHANGED <<table, result>>
                  \/ /\ ~Unterminated(i)
                     /\ table' = Built(i)
                     /\ IF IsHelp(i) THEN Return("usage")
                        ELSE phase' = "common" /\ UNCHANGED result
          \/ /\ \A i \in DOMAIN cmds : cmds[i].op # op
             /\ Return(IF argv # <<>> THEN "invalid operation" ELSE "usage")
             /\ UNCHANGED <<active, table>>

-----------------------------------------------------------------------------
(* processCommonOpts() *)

\* The options common to all commands; commandGetOpt() passes them over.
Common == {"+", "v", "u"}
OwnOption(ops, op) == IF op \in Common THEN ops ELSE Append(ops, op)

\* An option that is known is let through; '+' takes in the options of a file.
CommonOption ==
  /\ phase = "common"
  /\ \E op \in Answers \ {EOF, Bad} :
       /\ checked' = OwnOption(checked, op)
       /\ \E more \in IF op = "+" THEN FileOptions ELSE {<<>>} :
            GetOptInserting(op, more)
  /\ UNCHANGED <<phase, registry, seen, result>>

\* An unknown option, or a file that cannot be read.
CommonOptionFails ==
  /\ phase = "common"
  /\ \E op \in {Bad, "+"} : GetOpt(op)
  /\ Return("invalid options")
  /\ UNCHANGED <<registry, checked, seen>>

\* A variant of Restart that leaves optind where the check ended.
RestartNot == UNCHANGED getopt

\* optind = 2
Restart == optind' = 2 /\ UNCHANGED <<argv, nextchar>>

\* The options have been checked: the command's function is called.
callCommand ==
  /\ phase = "common"
  /\ \A k \in optind .. Len(argv) : argv[k] = <<>>
  /\ Restart
  /\ phase' = IF cmds[active].call = "NULL" THEN "nullcall" ELSE "command"
  /\ UNCHANGED <<registry, checked, seen, result>>

-----------------------------------------------------------------------------
(* The command reads its options with commandGetOpt(). *)

commandGetOpt ==
  /\ phase = "command"
  /\ \E op \in Answers \ {EOF} :
       /\ GetOpt(op)
       /\ seen' = OwnOption(seen, op)
  /\ UNCHANGED <<phase, registry, checked, result>>

CommandReturns ==
  /\ phase = "command"
  /\ GetOpt(EOF)
  /\ Return("done")
  /\ UNCHANGED <<registry, checked, seen>>

-----------------------------------------------------------------------------

Next ==
  \/ \E c \in CommandTypes : commandRegister(c)
  \/ \E v \in Argvs : commandDispatch(v)
  \/ SelectCommand
  \/ CommonOption \/ CommonOptionFails \/ callCommand
  \/ commandGetOpt \/ CommandReturns

Spec == Init /\ [][Next]_vars

-----------------------------------------------------------------------------

\* The shape of the state; the registry stays within MAX_COMMANDS.
TypeOK ==
  /\ phase \in {"setup", "select", "common", "command", "returned", "overread", "nullcall"}
  /\ cmds \in Seq(CommandTypes \cup {Help}) /\ Len(cmds) <= MaxCommands
  /\ active \in 1 .. MaxCommands + 1
  /\ helpIdx \in 1 .. MaxCommands + 1
  /\ phase \in {"common", "command"} => active \in DOMAIN cmds
  /\ optind \in Nat \ {0}
  /\ nextchar # 0 => optind \in DOMAIN argv /\ nextchar < Len(argv[optind])
  /\ result \in {"none", "usage", "invalid operation", "invalid options", "done"}

\* The command sees exactly those of its own options that processCommonOpts()
\* has checked, in the same order and no unknown one among them, although the
\* check has permuted argv, may have read more arguments from a file, and the
\* second pass starts at a fixed argument.
SeesWhatWasChecked ==
  phase = "returned" /\ result = "done" => seen = checked

\* With the command in an argument of its own SeesWhatWasChecked holds.
SeesWhatWasCheckedAfterCommand ==
  argv # <<>> /\ Len(argv[1]) = 1 => SeesWhatWasChecked

\* "Get the next option, as with getopt": getopt returns every option after the
\* command, whether or not the command's own argument carries some.
SeesEveryOption == SeesWhatWasChecked

\* The help entry has no function and is never called, although it is found by
\* its character like any other and that character may belong to a command
\* registered before it, in a table that may have no room for help.
HelpIsNotCalled == phase # "nullcall"

=============================================================================
