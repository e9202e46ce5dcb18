--------------------------- MODULE CommandProofs ---------------------------
(***************************************************************************)
(* Theorems about Command, for all values of its constants: the shape of   *)
(* the state; help, which has no function, is never called; and a command  *)
(* in an argument of its own reads exactly the options that were checked.  *)
(*                                                                         *)
(* The last one compares two passes over argv, of which the first one moves*)
(* arguments and adds some.  The invariant keeps a log of the first pass:  *)
(* for each option where it was read and how many of the command's own     *)
(* options came before it.  Nothing moves in front of getopt's place, so   *)
(* the log stays true of argv, and the second pass is somewhere in it.     *)
(***************************************************************************)
EXTENDS Command, TLAPS, SequenceTheorems

Phases == {"setup", "select", "common", "command", "returned", "overread"}

\* Only the entry at helpIdx has no function, and it is not the one selected,
\* although the search goes by characters and finds the first that fits.
OnlyHelpHasNoFunction ==
  /\ phase \in Phases
  /\ cmds \in Seq(CommandTypes \cup {Help})
  /\ phase = "setup" => cmds \in Seq(CommandTypes)
  /\ phase # "setup" => \A i \in DOMAIN cmds : i # helpIdx => cmds[i].call # "NULL"
  /\ phase \in {"common", "command"} => active \in DOMAIN cmds /\ active # helpIdx

-----------------------------------------------------------------------------

\* Registering one more entry, as long as there is room, leaves the others.
LEMMA RegisteredProperties ==
  ASSUME NEW S, cmds \in Seq(S), NEW c \in S
  PROVE  /\ Registered(c) \in Seq(S)
         /\ \A i \in DOMAIN Registered(c) :
              \/ i \in DOMAIN cmds /\ Registered(c)[i] = cmds[i]
              \/ i = Len(cmds) + 1
<1>1. Append(cmds, c) \in Seq(S)
  BY AppendProperties
<1>2. ASSUME NEW i \in DOMAIN Append(cmds, c)
      PROVE  \/ i \in DOMAIN cmds /\ Append(cmds, c)[i] = cmds[i]
             \/ i = Len(cmds) + 1
  BY AppendProperties, LenProperties
<1> QED  BY <1>1, <1>2 DEF Registered

\* The strengthening is inductive: one step per action.
THEOREM OnlyHelpIsFunctionless == Spec => []OnlyHelpHasNoFunction
<1>1. Init => OnlyHelpHasNoFunction
  BY DEF Init, OnlyHelpHasNoFunction, Phases
<1>2. OnlyHelpHasNoFunction /\ [Next]_vars => OnlyHelpHasNoFunction'
  <2> SUFFICES ASSUME OnlyHelpHasNoFunction, [Next]_vars
               PROVE  OnlyHelpHasNoFunction'
    OBVIOUS
  <2>1. ASSUME NEW c \in CommandTypes, commandRegister(c)
        PROVE  OnlyHelpHasNoFunction'
    <3>1. cmds' \in Seq(CommandTypes) /\ phase' = "setup"
      BY <2>1, RegisteredProperties DEF commandRegister, OnlyHelpHasNoFunction
    <3>2. cmds' \in Seq(CommandTypes \cup {Help})
      BY <3>1
    <3> QED  BY <3>1, <3>2 DEF OnlyHelpHasNoFunction, Phases
  <2>2. ASSUME NEW v \in Argvs, commandDispatch(v)
        PROVE  OnlyHelpHasNoFunction'
    <3>1. cmds \in Seq(CommandTypes) /\ cmds \in Seq(CommandTypes \cup {Help})
      BY <2>2 DEF commandDispatch, OnlyHelpHasNoFunction
    <3>2. cmds' = Registered(Help) /\ helpIdx' = Len(cmds) + 1 /\ phase' = "select"
      BY <2>2 DEF commandDispatch
    <3>3. \A i \in DOMAIN cmds : cmds[i].call # "NULL"
      BY <3>1, CommandAssumption, ElementOfSeq DEF IsCommand
    <3>4. /\ cmds' \in Seq(CommandTypes \cup {Help})
          /\ \A i \in DOMAIN cmds' : i # helpIdx' => cmds'[i].call # "NULL"
      BY <3>1, <3>2, <3>3, RegisteredProperties
    <3> QED  BY <3>2, <3>4 DEF OnlyHelpHasNoFunction, Phases
  <2>3. CASE SelectCommand
    <3>1. phase = "select" /\ UNCHANGED <<cmds, helpIdx>>
      BY <2>3 DEF SelectCommand
    <3>2. \/ phase' \in {"overread", "returned"}
          \/ phase' = "common" /\ active' \in DOMAIN cmds /\ active' # helpIdx
      BY <2>3 DEF SelectCommand, Return, IsHelp
    <3> QED  BY <3>1, <3>2 DEF OnlyHelpHasNoFunction, Phases
  <2>4. CASE CommonOption
    BY <2>4 DEF CommonOption, registry, OnlyHelpHasNoFunction
  <2>5. CASE CommonOptionFails
    BY <2>5 DEF CommonOptionFails, Return, registry, OnlyHelpHasNoFunction, Phases
  <2>6. CASE callCommand
    <3>1. phase = "common" /\ UNCHANGED registry /\ cmds[active].call # "NULL"
      BY <2>6 DEF callCommand, OnlyHelpHasNoFunction
    <3>2. phase' = "command"
      BY <2>6, <3>1 DEF callCommand
    <3> QED  BY <3>1, <3>2 DEF registry, OnlyHelpHasNoFunction, Phases
  <2>7. CASE commandGetOpt
    BY <2>7 DEF commandGetOpt, registry, OnlyHelpHasNoFunction
  <2>8. CASE CommandReturns
    BY <2>8 DEF CommandReturns, Return, registry, OnlyHelpHasNoFunction, Phases
  <2>9. CASE UNCHANGED vars
    BY <2>9 DEF vars, registry, OnlyHelpHasNoFunction
  <2> QED  BY <2>1, <2>2, <2>3, <2>4, <2>5, <2>6, <2>7, <2>8, <2>9 DEF Next
<1> QED  BY <1>1, <1>2, PTL DEF Spec

\* Help is never called, in whatever order commands were registered, also when
\* the table was full and when another command has its character.
THEOREM HelpNeverCalled == Spec => []HelpIsNotCalled
<1>1. OnlyHelpHasNoFunction => HelpIsNotCalled
  BY DEF OnlyHelpHasNoFunction, Phases, HelpIsNotCalled
<1> QED  BY <1>1, OnlyHelpIsFunctionless, PTL

-----------------------------------------------------------------------------
(* getopt_long() *)

Arguments == Seq(Seq(STRING))

\* The place getopt keeps: within an argument only behind a character that is
\* not its last.
PlaceOK ==
  /\ argv \in Arguments
  /\ optind \in Nat \ {0} /\ nextchar \in Nat
  /\ nextchar # 0 => optind \in 1 .. Len(argv) /\ nextchar < Len(argv[optind])

\* The arguments with argument k moved to place o, and more put in behind it.
Inserted(A, o, k, more) ==
  LET P == SubSeq(A, 1, o - 1) \o <<A[k]>> \o SubSeq(A, o, k - 1) \o SubSeq(A, k + 1, Len(A))
  IN  SubSeq(P, 1, o) \o more \o SubSeq(P, o + 1, Len(A))

\* Where the elements of two joined sequences are.
LEMMA Joined ==
  ASSUME NEW S, NEW s \in Seq(S), NEW t \in Seq(S)
  PROVE  /\ s \o t \in Seq(S) /\ Len(s \o t) = Len(s) + Len(t)
         /\ \A j \in 1 .. Len(s) : (s \o t)[j] = s[j]
         /\ \A j \in 1 .. Len(t) : (s \o t)[Len(s) + j] = t[j]
<1>1. /\ s \o t \in Seq(S) /\ Len(s \o t) = Len(s) + Len(t)
      /\ \A i \in 1 .. Len(s) + Len(t) : (s \o t)[i] = IF i <= Len(s) THEN s[i] ELSE t[i - Len(s)]
  BY ConcatProperties
<1>2. Len(s) \in Nat /\ Len(t) \in Nat
  OBVIOUS
<1>3. ASSUME NEW j \in 1 .. Len(t)
      PROVE  (s \o t)[Len(s) + j] = t[j]
  <2>1. Len(s) + j \in 1 .. Len(s) + Len(t) /\ ~(Len(s) + j <= Len(s)) /\ Len(s) + j - Len(s) = j
    BY <1>2
  <2> QED  BY <1>1, <2>1
<1>4. \A j \in 1 .. Len(s) : (s \o t)[j] = s[j]
  BY <1>1, <1>2
<1> QED  BY <1>1, <1>3, <1>4

\* What is before place o stays and argument k is at it now.
LEMMA InsertedProperties ==
  ASSUME NEW S, NEW A \in Seq(S), NEW o \in 1 .. Len(A), NEW k \in o .. Len(A), NEW more \in Seq(S)
  PROVE  /\ Inserted(A, o, k, more) \in Seq(S)
         /\ Len(Inserted(A, o, k, more)) = Len(A) + Len(more)
         /\ \A j \in 1 .. o - 1 : Inserted(A, o, k, more)[j] = A[j]
         /\ Inserted(A, o, k, more)[o] = A[k]
         /\ (k = o /\ more = <<>>) => Inserted(A, o, k, more) = A
<1> DEFINE a == SubSeq(A, 1, o - 1)
           e == <<A[k]>>
           b == SubSeq(A, o, k - 1)
           c == SubSeq(A, k + 1, Len(A))
           q == a \o e
           Q == q \o b
           P == Q \o c
           x == SubSeq(P, 1, o)
           y == SubSeq(P, o + 1, Len(A))
           X == x \o more
           B == X \o y
<1>0. Len(A) \in Nat /\ o \in Nat /\ k \in Nat /\ 1 <= o /\ o <= k /\ k <= Len(A)
  OBVIOUS
<1>1. Inserted(A, o, k, more) = B
  BY DEF Inserted
<1>2. \A j \in 1 .. Len(A) : A[j] \in S
  OBVIOUS
<1>3. e \in Seq(S) /\ Len(e) = 1 /\ e[1] = A[k]
  BY <1>0, <1>2
<1>4. a \in Seq(S) /\ Len(a) = o - 1 /\ \A j \in 1 .. o - 1 : a[j] = A[j]
  <2>1. \A j \in 1 .. o - 1 : A[j] \in S
    BY <1>0, <1>2
  <2> QED  BY <1>0, <2>1, SubSeqProperties
<1>5. b \in Seq(S) /\ Len(b) = k - o
  <2>1. \A j \in o .. k - 1 : A[j] \in S
    BY <1>0, <1>2
  <2> QED  BY <1>0, <2>1, SubSeqProperties
<1>6. c \in Seq(S) /\ Len(c) = Len(A) - k /\ \A j \in 1 .. Len(A) - k : c[j] = A[j + k]
  <2>1. \A j \in k + 1 .. Len(A) : A[j] \in S
    BY <1>0, <1>2
  <2> QED  BY <1>0, <2>1, SubSeqProperties
<1>s. a \in Seq(S) /\ e \in Seq(S) /\ b \in Seq(S) /\ c \in Seq(S)
  BY <1>3, <1>4, <1>5, <1>6
<1>e. Len(e) = 1 /\ e[1] = A[k]
  BY <1>3
<1> HIDE DEF a, e, b, c
<1>7. /\ q \in Seq(S) /\ Len(q) = o /\ q[o] = A[k]
      /\ \A j \in 1 .. o - 1 : q[j] = A[j]
  <2>1. /\ q \in Seq(S) /\ Len(q) = Len(a) + Len(e)
        /\ \A j \in 1 .. Len(a) : q[j] = a[j]
        /\ \A j \in 1 .. Len(e) : q[Len(a) + j] = e[j]
    BY <1>s, Joined
  <2> HIDE DEF q
  <2>2. 1 \in 1 .. Len(e) /\ Len(a) + 1 = o
    BY <1>0, <1>e, <1>4
  <2>3. q[Len(a) + 1] = e[1]
    BY <2>1, <2>2
  <2>4. q[o] = A[k]
    BY <1>e, <2>2, <2>3
  <2>5. Len(q) = o
    BY <1>0, <1>e, <1>4, <2>1
  <2>6. \A j \in 1 .. o - 1 : q[j] = A[j]
    BY <1>4, <2>1
  <2> QED  BY <2>1, <2>4, <2>5, <2>6
<1>t. q \in Seq(S)
  BY <1>7
<1> HIDE DEF q
<1>u. /\ Q \in Seq(S) /\ Len(Q) = k /\ Q[o] = A[k]
      /\ \A j \in 1 .. o - 1 : Q[j] = A[j]
  <2>1. /\ Q \in Seq(S) /\ Len(Q) = Len(q) + Len(b)
        /\ \A j \in 1 .. Len(q) : Q[j] = q[j]
    BY <1>s, <1>t, Joined
  <2> HIDE DEF Q
  <2>2. Len(Q) = k
    BY <1>0, <1>5, <1>7, <2>1
  <2>3. \A j \in 1 .. o : Q[j] = q[j]
    BY <1>7, <2>1
  <2> QED  BY <1>0, <1>7, <2>1, <2>2, <2>3
<1>q. Q \in Seq(S)
  BY <1>u
<1> HIDE DEF Q
<1>8. /\ P \in Seq(S) /\ Len(P) = Len(A) /\ \A j \in 1 .. o - 1 : P[j] = A[j]
      /\ P[o] = A[k]
      /\ \A j \in k + 1 .. Len(A) : P[j] = A[j]
  <2>1. /\ P \in Seq(S) /\ Len(P) = Len(Q) + Len(c)
        /\ \A j \in 1 .. Len(Q) : P[j] = Q[j]
        /\ \A j \in 1 .. Len(c) : P[Len(Q) + j] = c[j]
    BY <1>s, <1>q, Joined, SMTT(30)
  <2> HIDE DEF P
  <2>2. ASSUME NEW j \in k + 1 .. Len(A)
        PROVE  P[j] = A[j]
    <3>1. j - k \in 1 .. Len(c) /\ Len(Q) + (j - k) = j /\ (j - k) + k = j
      BY <1>0, <1>6, <1>u
    <3>2. P[Len(Q) + (j - k)] = c[j - k] /\ c[j - k] = A[(j - k) + k]
      BY <1>6, <2>1, <3>1
    <3> QED  BY <3>1, <3>2
  <2>3. \A j \in 1 .. k : P[j] = Q[j]
    BY <1>u, <2>1
  <2>4. Len(P) = Len(A)
    BY <1>0, <1>6, <1>u, <2>1
  <2> QED  BY <1>0, <1>u, <2>1, <2>2, <2>3, <2>4
<1> HIDE DEF P
<1>9. x \in Seq(S) /\ Len(x) = o /\ \A j \in 1 .. o : x[j] = P[j]
  <2>1. \A j \in 1 .. o : P[j] \in S
    BY <1>0, <1>8
  <2> QED  BY <1>0, <2>1, SubSeqProperties
<1>10. y \in Seq(S) /\ Len(y) = Len(A) - o /\ \A j \in 1 .. Len(A) - o : y[j] = P[j + o]
  <2>1. \A j \in o + 1 .. Len(A) : P[j] \in S
    BY <1>0, <1>8
  <2> QED  BY <1>0, <2>1, SubSeqProperties
<1>x. x \in Seq(S) /\ y \in Seq(S)
  BY <1>9, <1>10
<1> HIDE DEF x, y
<1>y. /\ X \in Seq(S) /\ Len(X) = o + Len(more)
      /\ \A j \in 1 .. o : X[j] = x[j]
  <2>1. /\ X \in Seq(S) /\ Len(X) = Len(x) + Len(more)
        /\ \A j \in 1 .. Len(x) : X[j] = x[j]
    BY <1>x, Joined
  <2> QED  BY <1>9, <2>1
<1>z. X \in Seq(S) /\ Len(more) \in Nat
  BY <1>y
<1> HIDE DEF X
<1>11. /\ B \in Seq(S) /\ Len(B) = o + Len(more) + Len(y)
       /\ \A j \in 1 .. o : B[j] = x[j]
       /\ \A j \in 1 .. Len(y) : B[o + Len(more) + j] = y[j]
  <2>1. /\ B \in Seq(S) /\ Len(B) = Len(X) + Len(y)
        /\ \A j \in 1 .. Len(X) : B[j] = X[j]
        /\ \A j \in 1 .. Len(y) : B[Len(X) + j] = y[j]
    BY <1>x, <1>z, Joined
  <2> HIDE DEF B
  <2>2. \A j \in 1 .. o : j \in 1 .. Len(X)
    BY <1>0, <1>y, <1>z
  <2>3. \A j \in 1 .. o : B[j] = x[j]
    BY <1>y, <2>1, <2>2
  <2>4. \A j \in 1 .. Len(y) : B[o + Len(more) + j] = y[j]
    BY <1>y, <2>1
  <2> QED  BY <1>y, <2>1, <2>3, <2>4
<1> HIDE DEF B
<1>12. Len(B) = Len(A) + Len(more) /\ Len(more) \in Nat
  BY <1>0, <1>10, <1>11
<1>13. \A j \in 1 .. o : B[j] = P[j]
  BY <1>9, <1>11
<1>14. (\A j \in 1 .. o - 1 : B[j] = A[j]) /\ B[o] = A[k]
  BY <1>0, <1>8, <1>13
<1>15. ASSUME k = o, more = <<>>
       PROVE  B = A
  <2>1. Len(B) = Len(A) /\ Len(more) = 0
    BY <1>0, <1>12, <1>15
  <2>2. ASSUME NEW j \in o + 1 .. Len(A)
        PROVE  B[j] = A[j]
    <3>1. j - o \in 1 .. Len(y) /\ o + Len(more) + (j - o) = j /\ (j - o) + o = j
      BY <1>0, <1>10, <2>1
    <3>2. B[o + Len(more) + (j - o)] = y[j - o] /\ y[j - o] = P[(j - o) + o]
      BY <1>10, <1>11, <3>1
    <3> QED  BY <1>8, <1>15, <3>1, <3>2
  <2>3. \A j \in 1 .. Len(B) : B[j] = A[j]
    BY <1>0, <1>14, <1>15, <2>1, <2>2
  <2> QED  BY <1>11, <2>1, <2>3, SeqEqual
<1> QED  BY <1>1, <1>11, <1>12, <1>14, <1>15

\* Nothing changes when an argument is put where it is.
LEMMA InsertedNothing ==
  ASSUME NEW S, NEW A \in Seq(S), NEW o \in 1 .. Len(A)
  PROVE  Inserted(A, o, o, <<>>) = A
<1>1. o \in o .. Len(A) /\ <<>> \in Seq(S)
  OBVIOUS
<1>2. o = o /\ <<>> = <<>> => Inserted(A, o, o, <<>>) = A
  <2>1. ASSUME NEW k \in o .. Len(A), NEW more \in Seq(S)
        PROVE  k = o /\ more = <<>> => Inserted(A, o, k, more) = A
    BY InsertedProperties, ZenonT(60)
  <2> QED  BY <1>1, <2>1, Zenon
<1> QED  BY <1>2

\* A call that returns option op has read it at the place, in what the arguments
\* are afterwards, and has gone on to the next character.
Reads(A, i, p, op) ==
  /\ i \in 1 .. Len(A) /\ p < Len(A[i])
  /\ op = IF Known(A[i][p + 1]) THEN A[i][p + 1] ELSE Bad

\* The place after i, p.
IsAfter(A, i, p, j, q) ==
  IF p + 1 = Len(A[i]) THEN j = i + 1 /\ q = 0 ELSE j = i /\ q = p + 1

\* One call of getopt_long(): nothing but words is left, or an option is read;
\* the arguments before the place stay, and so does the one a place is in.
LEMMA GetOptProperties ==
  ASSUME PlaceOK, NEW op, NEW more \in Arguments, GetOptInserting(op, more)
  PROVE  /\ PlaceOK'
         /\ \/ /\ \A k \in optind .. Len(argv) : argv[k] = <<>>
               /\ op = EOF /\ UNCHANGED getopt
            \/ /\ \E k \in optind .. Len(argv) : argv[k] # <<>>
               /\ Reads(argv', optind, nextchar, op)
               /\ IsAfter(argv', optind, nextchar, optind', nextchar')
               /\ Len(argv') >= Len(argv)
               /\ \A j \in 1 .. optind - 1 : argv'[j] = argv[j]
               /\ optind \in 1 .. Len(argv)
               /\ argv[optind] # <<>> => argv'[optind] = argv[optind]
               /\ argv[optind] # <<>> /\ more = <<>> => argv' = argv
<1>1. CASE /\ \A k \in optind .. Len(argv) : argv[k] = <<>>
           /\ op = EOF /\ UNCHANGED getopt
  BY <1>1 DEF PlaceOK, getopt
<1>2. ASSUME NEW k \in optind .. Len(argv), IsNext(k),
             LET c == argv[k][nextchar + 1] IN op = IF Known(c) THEN c ELSE Bad,
             argv' = SubSeq(Permuted(k), 1, optind) \o more
                       \o SubSeq(Permuted(k), optind + 1, Len(argv)),
             IF nextchar + 1 = Len(argv[k])
             THEN optind' = optind + 1 /\ nextchar' = 0
             ELSE nextchar' = nextchar + 1 /\ UNCHANGED optind
      PROVE  /\ PlaceOK'
             /\ \E j \in optind .. Len(argv) : argv[j] # <<>>
             /\ Reads(argv', optind, nextchar, op)
             /\ IsAfter(argv', optind, nextchar, optind', nextchar')
             /\ Len(argv') >= Len(argv)
             /\ \A j \in 1 .. optind - 1 : argv'[j] = argv[j]
             /\ optind \in 1 .. Len(argv)
             /\ argv[optind] # <<>> => argv'[optind] = argv[optind]
             /\ argv[optind] # <<>> /\ more = <<>> => argv' = argv
  <2>1. /\ argv \in Seq(Seq(STRING)) /\ more \in Seq(Seq(STRING))
        /\ optind \in 1 .. Len(argv) /\ nextchar \in Nat /\ Len(argv) \in Nat
    BY DEF PlaceOK, Arguments
  <2>2. argv[k] # <<>> /\ \A j \in optind .. k - 1 : argv[j] = <<>>
    BY <1>2 DEF IsNext
  <2>3. argv' = Inserted(argv, optind, k, more)
    BY <1>2 DEF Inserted, Permuted
  <2>4. /\ argv' \in Seq(Seq(STRING)) /\ Len(argv') = Len(argv) + Len(more)
        /\ \A j \in 1 .. optind - 1 : argv'[j] = argv[j]
        /\ argv'[optind] = argv[k]
        /\ k = optind /\ more = <<>> => argv' = argv
    <3> DEFINE W == Seq(STRING)
    <3>1. argv \in Seq(W) /\ more \in Seq(W) /\ optind \in 1 .. Len(argv)
      BY <2>1
    <3> HIDE DEF W
    <3>2. argv' \in Seq(W) /\ Len(argv') = Len(argv) + Len(more)
      BY <2>3, <3>1, InsertedProperties
    <3>3. \A j \in 1 .. optind - 1 : Inserted(argv, optind, k, more)[j] = argv[j]
      BY <3>1, InsertedProperties
    <3>4. Inserted(argv, optind, k, more)[optind] = argv[k]
      BY <3>1, InsertedProperties
    <3>5. ASSUME k = optind, more = <<>>
          PROVE  Inserted(argv, optind, k, more) = argv
      BY <3>1, <3>5, InsertedNothing
    <3> QED  BY <2>3, <3>2, <3>3, <3>4, <3>5 DEF W
  <2>5. argv[optind] # <<>> => k = optind
    <3>1. k # optind => optind \in optind .. k - 1
      BY <2>1
    <3> QED  BY <2>2, <3>1
  <2>6. /\ argv[k] \in Seq(STRING) /\ argv[k] # <<>> /\ Len(argv[k]) \in Nat
        /\ Len(argv[k]) >= 1
    BY <2>1, <2>2, EmptySeq
  <2>7. nextchar < Len(argv[k])
    <3>1. CASE nextchar = 0
      BY <2>6, <3>1
    <3>2. CASE nextchar # 0
      <4>1. nextchar < Len(argv[optind]) /\ argv[optind] \in Seq(STRING)
        BY <2>1, <3>2 DEF PlaceOK
      <4>2. argv[optind] # <<>>
        BY <2>1, <4>1
      <4> QED  BY <2>5, <4>1, <4>2
    <3> QED  BY <3>1, <3>2
  <2>8. Len(more) \in Nat /\ optind \in 1 .. Len(argv') /\ Len(argv') >= Len(argv)
    <3>1. Len(more) \in Nat
      BY <2>1
    <3>2. Len(argv') = Len(argv) + Len(more)
      BY <2>4
    <3> QED  BY <2>1, <3>1, <3>2
  <2>9. Reads(argv', optind, nextchar, op)
    BY <1>2, <2>4, <2>7, <2>8 DEF Reads
  <2>10. IsAfter(argv', optind, nextchar, optind', nextchar')
    BY <1>2, <2>4 DEF IsAfter
  <2>11. PlaceOK'
    <3>1. optind' \in Nat \ {0} /\ nextchar' \in Nat
      BY <2>1, <2>10 DEF IsAfter
    <3>2. nextchar' # 0 => optind' \in 1 .. Len(argv') /\ nextchar' < Len(argv'[optind'])
      <4>1. Len(argv[k]) \in Nat /\ Len(argv'[optind]) = Len(argv[k])
        BY <2>4, <2>6
      <4>2. CASE nextchar + 1 = Len(argv[k])
        BY <1>2, <4>2
      <4>3. CASE nextchar + 1 # Len(argv[k])
        <5>1. nextchar' = nextchar + 1 /\ optind' = optind
          BY <1>2, <4>3
        <5>2. nextchar + 1 < Len(argv'[optind])
          BY <2>1, <2>7, <4>1, <4>3
        <5> QED  BY <2>8, <5>1, <5>2
      <4> QED  BY <4>2, <4>3
    <3> QED  BY <2>4, <3>1, <3>2 DEF PlaceOK, Arguments
  <2> QED  BY <2>1, <2>2, <2>4, <2>5, <2>8, <2>9, <2>10, <2>11
<1> QED  BY <1>1, <1>2 DEF GetOptInserting

-----------------------------------------------------------------------------
(* The two passes over the options *)

Options(T) == {T[i] : i \in DOMAIN T}

\* Option t of a pass is read at argument ai[t] behind ch[t] characters, when
\* own[t] options of the command's own have been read; K are all of those.
Entry(T, A, K, ai, ch, own, t) ==
  LET c == A[ai[t]][ch[t] + 1] IN
  /\ ai[t] \in 1 .. Len(A) /\ ch[t] < Len(A[ai[t]])
  /\ c \in Options(T) /\ c # EOF /\ c # Bad
  /\ IsAfter(A, ai[t], ch[t], ai[t + 1], ch[t + 1])
  /\ IF c \in Common
     THEN own[t + 1] = own[t]
     ELSE own[t + 1] = own[t] + 1 /\ own[t] < Len(K) /\ K[own[t] + 1] = c

\* A log of n options, the first one of argument 2.
Log(T, A, K, ai, ch, own, n) ==
  /\ n \in Nat
  /\ ai \in [Nat -> Nat] /\ ch \in [Nat -> Nat] /\ own \in [Nat -> Nat]
  /\ ai[0] = 2 /\ ch[0] = 0 /\ own[0] = 0
  /\ own[n] = Len(K) /\ \A t \in 0 .. n : ai[t] >= 2
  /\ \A t \in 0 .. n - 1 : Entry(T, A, K, ai, ch, own, t)

\* processCommonOpts() is behind the last option of such a log, and what is in
\* the log is before the arguments a call may still move.
FirstPass ==
  \E ai, ch, own, n :
    /\ Log(table, argv, checked, ai, ch, own, n)
    /\ optind = ai[n] /\ nextchar = ch[n]
    /\ \A t \in 0 .. n - 1 : ai[t] < optind \/ (ai[t] = optind /\ nextchar # 0)

\* The command has read the first t options of the log of the first pass, which
\* has left nothing but words.
SecondPass ==
  \E ai, ch, own, n :
    /\ Log(table, argv, checked, ai, ch, own, n)
    /\ ch[n] = 0 /\ \A k \in ai[n] .. Len(argv) : argv[k] = <<>>
    /\ \E t \in 0 .. n :
         /\ optind = ai[t] /\ nextchar = ch[t]
         /\ own[t] <= Len(checked) /\ seen = SubSeq(checked, 1, own[t])

OwnArgument == Len(argv[1]) = 1

\* The registry within its table, and the command's character never that of EOF.
RegistryOK ==
  /\ Len(cmds) <= MaxCommands
  /\ active \in 1 .. MaxCommands + 1 /\ helpIdx \in 1 .. MaxCommands + 1
  /\ \A i \in DOMAIN cmds : cmds[i].op # EOF
  /\ result \in {"none", "usage", "invalid operation", "invalid options", "done"}

\* Nothing is read before the selection, and then the first argument stays.
Unread ==
  /\ checked \in Seq(STRING)
  /\ phase \in {"setup", "select"} => optind = 1 /\ nextchar = 0 /\ checked = <<>> /\ seen = <<>>
  /\ phase = "common" => argv # <<>> /\ seen = <<>> /\ (optind = 1 => nextchar # 0)
  /\ phase = "command" => argv # <<>> /\ optind # 1

\* With the command in an argument of its own the second pass follows the first.
InPasses ==
  /\ phase = "common" /\ OwnArgument => FirstPass
  /\ phase = "command" /\ OwnArgument => SecondPass
  /\ phase = "returned" /\ result = "done" /\ argv # <<>> /\ OwnArgument => seen = checked

CommandIInv == RegistryOK /\ PlaceOK /\ Unread /\ InPasses

\* Options are only added.
Grows(K, L) == Len(K) <= Len(L) /\ \A j \in 1 .. Len(K) : L[j] = K[j]

\* An entry stays when the argument it is in does, and options are only added.
LEMMA EntryKept ==
  ASSUME NEW T, NEW A \in Arguments, NEW B \in Arguments,
         NEW K \in Seq(STRING), NEW L \in Seq(STRING),
         NEW ai, NEW ch, NEW own, NEW t, own[t] \in Nat
  PROVE  /\ Entry(T, A, K, ai, ch, own, t) /\ Grows(K, L)
         /\ B[ai[t]] = A[ai[t]] /\ Len(A) <= Len(B)
         => Entry(T, B, L, ai, ch, own, t)
<1>0. SUFFICES ASSUME /\ Entry(T, A, K, ai, ch, own, t) /\ Grows(K, L)
                      /\ B[ai[t]] = A[ai[t]] /\ Len(A) <= Len(B)
               PROVE  Entry(T, B, L, ai, ch, own, t)
  OBVIOUS
<1> DEFINE c == A[ai[t]][ch[t] + 1]
<1>1. /\ ai[t] \in 1 .. Len(A) /\ ch[t] < Len(A[ai[t]])
      /\ c \in Options(T) /\ c # EOF /\ c # Bad
      /\ IsAfter(A, ai[t], ch[t], ai[t + 1], ch[t + 1])
      /\ IF c \in Common
         THEN own[t + 1] = own[t]
         ELSE own[t + 1] = own[t] + 1 /\ own[t] < Len(K) /\ K[own[t] + 1] = c
  BY <1>0, Zenon DEF Entry
<1>2. c = B[ai[t]][ch[t] + 1]
  BY <1>0
<1> HIDE DEF c
<1>3. own[t] \in Nat
  OBVIOUS
<1>4. Len(K) \in Nat /\ Len(L) \in Nat
  OBVIOUS
<1>5. ASSUME own[t] < Len(K)
      PROVE  own[t] < Len(L) /\ L[own[t] + 1] = K[own[t] + 1]
  <2>1. own[t] + 1 \in 1 .. Len(K)
    BY <1>3, <1>4, <1>5
  <2>2. own[t] < Len(L)
    BY <1>0, <1>3, <1>4, <1>5 DEF Grows
  <2> QED  BY <1>0, <2>1, <2>2 DEF Grows
<1>6. IF c \in Common
      THEN own[t + 1] = own[t]
      ELSE own[t + 1] = own[t] + 1 /\ own[t] < Len(L) /\ L[own[t] + 1] = c
  BY <1>1, <1>5
<1>7. ai[t] \in 1 .. Len(B)
  <2>1. Len(A) \in Nat /\ Len(B) \in Nat
    BY DEF Arguments
  <2> QED  BY <1>0, <1>1, <2>1
<1>8. ch[t] < Len(B[ai[t]]) /\ IsAfter(B, ai[t], ch[t], ai[t + 1], ch[t + 1])
  BY <1>0, <1>1 DEF IsAfter
<1> QED  BY <1>1, <1>2, <1>6, <1>7, <1>8, Zenon DEF Entry

\* Adding the next option extends a log.
LEMMA LogExtended ==
  ASSUME NEW T, T = table, NEW A \in Arguments, NEW B \in Arguments,
         NEW K \in Seq(STRING), NEW L \in Seq(STRING),
         NEW ai, NEW ch, NEW own, NEW n, Log(T, A, K, ai, ch, own, n), Len(A) <= Len(B),
         \A t \in 0 .. n - 1 : B[ai[t]] = A[ai[t]],
         NEW op, op # EOF, op # Bad, L = OwnOption(K, op),
         Reads(B, ai[n], ch[n], op),
         NEW i \in Nat, i >= 2, NEW p \in Nat, IsAfter(B, ai[n], ch[n], i, p)
  PROVE  Log(T, B, L, [ai EXCEPT ![n + 1] = i], [ch EXCEPT ![n + 1] = p],
             [own EXCEPT ![n + 1] = Len(L)], n + 1)
<1> DEFINE ai2 == [ai EXCEPT ![n + 1] = i]
           ch2 == [ch EXCEPT ![n + 1] = p]
           own2 == [own EXCEPT ![n + 1] = Len(L)]
<1>1. /\ n \in Nat /\ n + 1 \in Nat
      /\ ai \in [Nat -> Nat] /\ ch \in [Nat -> Nat] /\ own \in [Nat -> Nat]
      /\ ai[0] = 2 /\ ch[0] = 0 /\ own[0] = 0
      /\ own[n] = Len(K)
  <2>1. /\ n \in Nat
        /\ ai \in [Nat -> Nat] /\ ch \in [Nat -> Nat] /\ own \in [Nat -> Nat]
        /\ ai[0] = 2 /\ ch[0] = 0 /\ own[0] = 0
        /\ own[n] = Len(K)
    BY Zenon DEF Log
  <2>2. n \in Nat
    BY <2>1
  <2>3. n + 1 \in Nat
    BY <2>2
  <2> QED  BY <2>1, <2>3, Zenon
<1>2. Len(K) \in Nat /\ Len(L) \in Nat
  OBVIOUS
<1>3. /\ ai2 \in [Nat -> Nat] /\ ch2 \in [Nat -> Nat] /\ own2 \in [Nat -> Nat]
      /\ ai2[n + 1] = i /\ ch2[n + 1] = p /\ own2[n + 1] = Len(L)
  BY <1>1, <1>2
<1>4. ASSUME NEW t \in 0 .. n
      PROVE  ai2[t] = ai[t] /\ ch2[t] = ch[t] /\ own2[t] = own[t]
  <2>1. t \in Nat /\ t # n + 1
    BY <1>1
  <2>2. ai2[t] = ai[t]
    BY <1>1, <2>1
  <2>3. ch2[t] = ch[t]
    BY <1>1, <2>1
  <2>4. own2[t] = own[t]
    BY <1>1, <2>1
  <2> QED  BY <2>2, <2>3, <2>4
<1>o. 0 \in 0 .. n /\ n \in 0 .. n
  BY <1>1
<1> HIDE DEF ai2, ch2, own2
<1>5. Grows(K, L)
  <2>1. CASE op \in Common
    BY <1>2, <2>1 DEF OwnOption, Grows
  <2>2. CASE op \notin Common
    <3>1. L = Append(K, op)
      BY <2>2 DEF OwnOption
    <3> QED  BY <1>2, <3>1 DEF Grows
  <2> QED  BY <2>1, <2>2
<1>6. ASSUME NEW t \in 0 .. n - 1
      PROVE  Entry(T, B, L, ai2, ch2, own2, t)
  <2>1. t \in Nat /\ t \in 0 .. n /\ t + 1 \in 0 .. n
    BY <1>1
  <2>2. Entry(T, A, K, ai, ch, own, t)
    BY DEF Log
  <2>3. B[ai[t]] = A[ai[t]]
    OBVIOUS
  <2>4. Entry(T, B, L, ai, ch, own, t)
    BY <1>1, <1>5, <2>1, <2>2, <2>3, EntryKept
  <2>5. /\ ai2[t] = ai[t] /\ ch2[t] = ch[t] /\ own2[t] = own[t]
        /\ ai2[t + 1] = ai[t + 1] /\ ch2[t + 1] = ch[t + 1] /\ own2[t + 1] = own[t + 1]
    BY <1>4, <2>1
  <2> QED  BY <2>4, <2>5 DEF Entry
<1>7. Entry(T, B, L, ai2, ch2, own2, n)
  <2>1. ai2[n] = ai[n] /\ ch2[n] = ch[n] /\ own2[n] = Len(K)
    BY <1>1, <1>4, <1>o
  <2>2. /\ ai[n] \in 1 .. Len(B) /\ ch[n] < Len(B[ai[n]])
        /\ op \in Options(T) /\ op = B[ai[n]][ch[n] + 1]
    BY DEF Reads, Known, Options
  <2>3. IF op \in Common
        THEN own2[n + 1] = own2[n]
        ELSE own2[n + 1] = own2[n] + 1 /\ own2[n] < Len(L) /\ L[own2[n] + 1] = op
    <3>1. CASE op \in Common
      BY <1>3, <2>1, <3>1 DEF OwnOption
    <3>2. CASE op \notin Common
      <4>1. L = Append(K, op)
        BY <3>2 DEF OwnOption
      <4>2. Len(L) = Len(K) + 1 /\ L[Len(K) + 1] = op
        BY <4>1
      <4> QED  BY <1>2, <1>3, <2>1, <3>2, <4>2
    <3> QED  BY <3>1, <3>2
  <2>4. IsAfter(B, ai2[n], ch2[n], ai2[n + 1], ch2[n + 1])
    BY <1>3, <2>1
  <2> QED  BY <2>1, <2>2, <2>3, <2>4 DEF Entry
<1>8. \A t \in 0 .. (n + 1) - 1 : Entry(T, B, L, ai2, ch2, own2, t)
  <2>1. \A t \in 0 .. (n + 1) - 1 : t \in 0 .. n - 1 \/ t = n
    BY <1>1
  <2> QED  BY <1>6, <1>7, <2>1
<1>9. ai2[0] = 2 /\ ch2[0] = 0 /\ own2[0] = 0
  BY <1>1, <1>4, <1>o
<1>11. \A t \in 0 .. n + 1 : ai2[t] >= 2
  <2>1. \A t \in 0 .. n : ai[t] >= 2
    BY Zenon DEF Log
  <2>2. \A t \in 0 .. n + 1 : t \in 0 .. n \/ t = n + 1
    BY <1>1
  <2> QED  BY <1>3, <1>4, <2>1, <2>2
<1>10. Log(T, B, L, ai2, ch2, own2, n + 1)
  BY <1>1, <1>3, <1>8, <1>9, <1>11 DEF Log
<1> QED  BY <1>10 DEF ai2, ch2, own2

\* A prefix with the next element is the next prefix; the last one is everything.
LEMMA PrefixProperties ==
  ASSUME NEW S, NEW K \in Seq(S)
  PROVE  /\ SubSeq(K, 1, 0) = <<>> /\ SubSeq(K, 1, Len(K)) = K
         /\ \A m \in Nat : m < Len(K) => Append(SubSeq(K, 1, m), K[m + 1]) = SubSeq(K, 1, m + 1)
<1>1. Len(K) \in Nat /\ \A j \in 1 .. Len(K) : K[j] \in S
  OBVIOUS
<1>2. SubSeq(K, 1, 0) = <<>>
  BY <1>1, SubSeqProperties, EmptySeq
<1>3. SubSeq(K, 1, Len(K)) = K
  <2>1. /\ SubSeq(K, 1, Len(K)) \in Seq(S) /\ Len(SubSeq(K, 1, Len(K))) = Len(K)
        /\ \A j \in 1 .. Len(K) : SubSeq(K, 1, Len(K))[j] = K[j]
    BY <1>1, SubSeqProperties
  <2> QED  BY <1>1, <2>1, SeqEqual
<1>4. ASSUME NEW m \in Nat, m < Len(K)
      PROVE  Append(SubSeq(K, 1, m), K[m + 1]) = SubSeq(K, 1, m + 1)
  <2> DEFINE s == SubSeq(K, 1, m)
             t == SubSeq(K, 1, m + 1)
             e == K[m + 1]
  <2>1. s \in Seq(S) /\ Len(s) = m /\ \A j \in 1 .. m : s[j] = K[j]
    <3>1. \A j \in 1 .. m : K[j] \in S
      BY <1>1, <1>4
    <3> QED  BY <1>1, <1>4, <3>1, SubSeqProperties
  <2>2. t \in Seq(S) /\ Len(t) = m + 1 /\ \A j \in 1 .. m + 1 : t[j] = K[j]
    <3>1. \A j \in 1 .. m + 1 : K[j] \in S
      BY <1>1, <1>4
    <3> QED  BY <1>1, <1>4, <3>1, SubSeqProperties
  <2>3. e \in S
    BY <1>1, <1>4
  <2>4. t[m + 1] = e
    BY <2>2
  <2> HIDE DEF s, t, e
  <2>5. /\ Append(s, e) \in Seq(S) /\ Len(Append(s, e)) = m + 1
        /\ Append(s, e)[m + 1] = e /\ \A j \in 1 .. m : Append(s, e)[j] = s[j]
    BY <2>1, <2>3, AppendProperties
  <2>6. \A j \in 1 .. m + 1 : Append(s, e)[j] = t[j]
    BY <2>1, <2>2, <2>4, <2>5
  <2>7. Append(s, e) = t
    BY <2>2, <2>5, <2>6, SeqEqual
  <2> QED  BY <2>7 DEF s, t, e
<1> QED  BY <1>2, <1>3, <1>4

-----------------------------------------------------------------------------
(* The steps *)

LEMMA ArgumentsLen == \A A \in Arguments : Len(A) \in Nat
BY DEF Arguments

\* The first pass reads one more option.
LEMMA FirstPassGoesOn ==
  ASSUME PlaceOK, PlaceOK', UNCHANGED table,
         checked \in Seq(STRING), checked' \in Seq(STRING), FirstPass,
         NEW op, op # EOF, op # Bad, checked' = OwnOption(checked, op),
         Reads(argv', optind, nextchar, op),
         IsAfter(argv', optind, nextchar, optind', nextchar'),
         Len(argv') >= Len(argv),
         \A j \in 1 .. optind - 1 : argv'[j] = argv[j],
         argv[optind] # <<>> => argv'[optind] = argv[optind]
  PROVE  FirstPass'
<1>1. PICK ai, ch, own, n :
        /\ Log(table, argv, checked, ai, ch, own, n)
        /\ optind = ai[n] /\ nextchar = ch[n]
        /\ \A t \in 0 .. n - 1 : ai[t] < optind \/ (ai[t] = optind /\ nextchar # 0)
  BY Zenon DEF FirstPass
<1> DEFINE ai2 == [ai EXCEPT ![n + 1] = optind']
           ch2 == [ch EXCEPT ![n + 1] = nextchar']
           own2 == [own EXCEPT ![n + 1] = Len(checked')]
<1>2. /\ n \in Nat /\ ai \in [Nat -> Nat] /\ ch \in [Nat -> Nat] /\ own \in [Nat -> Nat]
      /\ \A t \in 0 .. n : ai[t] >= 2
      /\ \A t \in 0 .. n - 1 : Entry(table, argv, checked, ai, ch, own, t)
  BY <1>1, Zenon DEF Log
<1>3. argv \in Arguments /\ argv' \in Arguments
  BY DEF PlaceOK
<1>4. optind \in Nat /\ nextchar \in Nat /\ optind' \in Nat /\ nextchar' \in Nat
  BY DEF PlaceOK
<1>5. ASSUME NEW t \in 0 .. n - 1
      PROVE  argv'[ai[t]] = argv[ai[t]]
  <2>1. ai[t] \in 1 .. Len(argv)
    BY <1>2, Zenon DEF Entry
  <2>2. CASE ai[t] < optind
    <3>1. ai[t] \in 1 .. optind - 1
      BY <1>4, <2>1, <2>2
    <3> QED  BY <3>1
  <2>3. CASE ai[t] = optind /\ nextchar # 0
    <3>1. optind \in 1 .. Len(argv) /\ nextchar < Len(argv[optind])
      BY <2>3 DEF PlaceOK
    <3>2. argv[optind] # <<>>
      BY <1>4, <3>1
    <3> QED  BY <2>3, <3>2
  <2> QED  BY <1>1, <2>2, <2>3
<1>6. optind >= 2 /\ optind' >= 2
  <2>1. n \in 0 .. n
    BY <1>2
  <2>2. optind >= 2
    BY <1>1, <1>2, <2>1
  <2> QED  BY <1>4, <2>2 DEF IsAfter
<1>7. Log(table, argv', checked', ai2, ch2, own2, n + 1)
  <2>1. Log(table, argv, checked, ai, ch, own, n)
    BY <1>1
  <2>2. Reads(argv', ai[n], ch[n], op) /\ IsAfter(argv', ai[n], ch[n], optind', nextchar')
    BY <1>1
  <2>3. \A t \in 0 .. n - 1 : argv'[ai[t]] = argv[ai[t]]
    BY <1>5
  <2>4. Len(argv) <= Len(argv')
    <3>1. Len(argv) \in Nat /\ Len(argv') \in Nat
      BY <1>3, ArgumentsLen, Zenon
    <3> QED  BY <3>1
  <2> QED  BY <1>3, <1>4, <1>6, <2>1, <2>2, <2>3, <2>4, LogExtended
<1>8. optind' = ai2[n + 1] /\ nextchar' = ch2[n + 1]
  BY <1>2
<1>9. ASSUME NEW t \in 0 .. (n + 1) - 1
      PROVE  ai2[t] < optind' \/ (ai2[t] = optind' /\ nextchar' # 0)
  <2>1. t \in Nat /\ t # n + 1 /\ (t = n \/ t \in 0 .. n - 1)
    BY <1>2
  <2>2. ai2[t] = ai[t] /\ ai[t] \in Nat
    BY <1>2, <2>1
  <2>3. ai[t] <= optind
    BY <1>1, <1>4, <2>1, <2>2
  <2>4. optind' = optind + 1 \/ (optind' = optind /\ nextchar' # 0)
    BY <1>4 DEF IsAfter
  <2> QED  BY <1>4, <2>2, <2>3, <2>4
<1>10. Log(table', argv', checked', ai2, ch2, own2, n + 1)
  BY <1>7
<1> HIDE DEF ai2, ch2, own2
<1> QED  BY <1>8, <1>9, <1>10, Zenon DEF FirstPass

\* Where the second pass is, an option of the log is left exactly when an
\* argument that is not a word is, and it is the next one to be read.
LEMMA NextInLog ==
  ASSUME PlaceOK, checked \in Seq(STRING),
         NEW ai, NEW ch, NEW own, NEW n, Log(table, argv, checked, ai, ch, own, n),
         \A k \in ai[n] .. Len(argv) : argv[k] = <<>>,
         NEW t \in 0 .. n, optind = ai[t], nextchar = ch[t]
  PROVE  \/ t = n /\ \A k \in optind .. Len(argv) : argv[k] = <<>>
         \/ /\ t \in 0 .. n - 1 /\ Entry(table, argv, checked, ai, ch, own, t)
            /\ optind \in 1 .. Len(argv) /\ argv[optind] # <<>>
<1>1. n \in Nat
  BY Zenon DEF Log
<1>2. CASE t = n
  BY <1>2
<1>3. CASE t # n
  <2>1. t \in 0 .. n - 1
    BY <1>1, <1>3
  <2>2. Entry(table, argv, checked, ai, ch, own, t)
    BY <2>1, Zenon DEF Log
  <2>3. optind \in 1 .. Len(argv) /\ nextchar < Len(argv[optind])
    BY <2>2, Zenon DEF Entry
  <2>4. nextchar \in Nat
    BY DEF PlaceOK
  <2>5. argv[optind] # <<>>
    BY <2>3, <2>4
  <2> QED  BY <2>1, <2>2, <2>3, <2>5
<1> QED  BY <1>2, <1>3

\* The second pass reads one more option of the log.
LEMMA SecondPassGoesOn ==
  ASSUME PlaceOK, UNCHANGED <<table, argv, checked>>,
         checked \in Seq(STRING),
         NEW ai, NEW ch, NEW own, NEW n, Log(table, argv, checked, ai, ch, own, n),
         ch[n] = 0, \A k \in ai[n] .. Len(argv) : argv[k] = <<>>,
         NEW t \in 0 .. n - 1, Entry(table, argv, checked, ai, ch, own, t),
         optind = ai[t], nextchar = ch[t],
         own[t] <= Len(checked), seen = SubSeq(checked, 1, own[t]),
         NEW op, seen' = OwnOption(seen, op),
         Reads(argv, optind, nextchar, op),
         IsAfter(argv, optind, nextchar, optind', nextchar')
  PROVE  SecondPass'
<1> DEFINE c == argv[ai[t]][ch[t] + 1]
<1>1. /\ n \in Nat /\ ai \in [Nat -> Nat] /\ ch \in [Nat -> Nat] /\ own \in [Nat -> Nat]
  BY Zenon DEF Log
<1>2. /\ c \in Options(table)
      /\ IsAfter(argv, ai[t], ch[t], ai[t + 1], ch[t + 1])
      /\ IF c \in Common
         THEN own[t + 1] = own[t]
         ELSE own[t + 1] = own[t] + 1 /\ own[t] < Len(checked) /\ checked[own[t] + 1] = c
  BY Zenon DEF Entry
<1>3. op = c
  <2>1. Known(c)
    BY <1>2 DEF Known, Options
  <2>2. op = IF Known(c) THEN c ELSE Bad
    BY Zenon DEF Reads
  <2> QED  BY <2>1, <2>2
<1> HIDE DEF c
<1>4. optind' = ai[t + 1] /\ nextchar' = ch[t + 1]
  BY <1>2 DEF IsAfter
<1>5. t \in Nat /\ t + 1 \in 0 .. n
  BY <1>1
<1>6. own[t] \in Nat /\ Len(checked) \in Nat
  <2>1. own[t] \in Nat
    BY <1>1, <1>5
  <2>2. Len(checked) \in Nat
    OBVIOUS
  <2> QED  BY <2>1, <2>2
<1>7. own[t + 1] <= Len(checked) /\ seen' = SubSeq(checked, 1, own[t + 1])
  <2>1. CASE c \in Common
    BY <1>2, <1>3, <2>1 DEF OwnOption
  <2>2. CASE c \notin Common
    <3>0. seen' = Append(seen, c)
      BY <1>3, <2>2, Zenon DEF OwnOption
    <3>1. own[t + 1] = own[t] + 1 /\ own[t] < Len(checked) /\ checked[own[t] + 1] = c
      BY <1>2, <2>2, Zenon
    <3>2. Append(SubSeq(checked, 1, own[t]), checked[own[t] + 1]) = SubSeq(checked, 1, own[t] + 1)
      BY <1>6, <3>1, PrefixProperties
    <3>3. own[t + 1] <= Len(checked)
      BY <1>6, <3>1
    <3>4. seen' = Append(SubSeq(checked, 1, own[t]), checked[own[t] + 1])
      BY <3>0, <3>1
    <3>5. seen' = SubSeq(checked, 1, own[t + 1])
      BY <3>1, <3>2, <3>4
    <3> QED  BY <3>3, <3>5
  <2> QED  BY <2>1, <2>2
<1>8. Log(table', argv', checked', ai, ch, own, n)
  OBVIOUS
<1>9. \A k \in ai[n] .. Len(argv') : argv'[k] = <<>>
  OBVIOUS
<1>10. own[t + 1] <= Len(checked') /\ seen' = SubSeq(checked', 1, own[t + 1])
  BY <1>7
<1>11. \E s \in 0 .. n :
         /\ optind' = ai[s] /\ nextchar' = ch[s]
         /\ own[s] <= Len(checked') /\ seen' = SubSeq(checked', 1, own[s])
  BY <1>4, <1>5, <1>10, Zenon
<1> QED  BY <1>8, <1>9, <1>11, Zenon DEF SecondPass

\* The first pass starts with an empty log behind the command's own argument.
LEMMA FirstPassStarts ==
  ASSUME optind' = 2, nextchar' = 0, checked' = <<>>
  PROVE  FirstPass'
<1> DEFINE ai == [t \in Nat |-> 2]
           ch == [t \in Nat |-> 0]
<1>1. Log(table', argv', checked', ai, ch, ch, 0)
  <2>1. /\ ai \in [Nat -> Nat] /\ ch \in [Nat -> Nat] /\ ai[0] = 2 /\ ch[0] = 0
        /\ ch[0] = Len(checked') /\ \A t \in 0 .. 0 : ai[t] >= 2
    OBVIOUS
  <2>2. \A t \in 0 .. 0 - 1 : Entry(table', argv', checked', ai, ch, ch, t)
    OBVIOUS
  <2> QED  BY <2>1, <2>2 DEF Log
<1>2. optind' = ai[0] /\ nextchar' = ch[0]
  OBVIOUS
<1>3. \A t \in 0 .. 0 - 1 : ai[t] < optind' \/ (ai[t] = optind' /\ nextchar' # 0)
  OBVIOUS
<1> HIDE DEF ai, ch
<1> QED  BY <1>1, <1>2, <1>3, Zenon DEF FirstPass

\* The second pass starts where the first one did, when words are all it left.
LEMMA SecondPassStarts ==
  ASSUME PlaceOK, FirstPass, checked \in Seq(STRING), seen = <<>>,
         \A k \in optind .. Len(argv) : argv[k] = <<>>,
         UNCHANGED <<table, argv, checked, seen, nextchar>>, optind' = 2
  PROVE  SecondPass' /\ nextchar = 0
<1>1. nextchar = 0
  <2>1. CASE nextchar # 0
    <3>1. /\ optind \in 1 .. Len(argv) /\ nextchar < Len(argv[optind]) /\ nextchar \in Nat
          /\ optind \in Nat
      BY <2>1 DEF PlaceOK
    <3>2. optind \in optind .. Len(argv)
      BY <3>1
    <3>3. argv[optind] = <<>>
      BY <3>2
    <3> QED  BY <3>1, <3>3
  <2> QED  BY <2>1
<1>2. PICK ai, ch, own, n :
        /\ Log(table, argv, checked, ai, ch, own, n)
        /\ optind = ai[n] /\ nextchar = ch[n]
        /\ \A t \in 0 .. n - 1 : ai[t] < optind \/ (ai[t] = optind /\ nextchar # 0)
  BY Zenon DEF FirstPass
<1>3. Log(table', argv', checked', ai, ch, own, n)
  BY <1>2
<1>4. ch[n] = 0 /\ \A k \in ai[n] .. Len(argv') : argv'[k] = <<>>
  BY <1>1, <1>2
<1>5. n \in Nat /\ ai[0] = 2 /\ ch[0] = 0 /\ own[0] = 0
  BY <1>2, Zenon DEF Log
<1>6. 0 \in 0 .. n
  BY <1>5
<1>7. own[0] <= Len(checked') /\ seen' = SubSeq(checked', 1, own[0])
  <2>1. Len(checked) \in Nat
    OBVIOUS
  <2>2. SubSeq(checked, 1, 0) = <<>>
    BY PrefixProperties
  <2> QED  BY <1>5, <2>1, <2>2
<1>8. optind' = ai[0] /\ nextchar' = ch[0]
  BY <1>1, <1>5
<1>9. \E s \in 0 .. n :
        /\ optind' = ai[s] /\ nextchar' = ch[s]
        /\ own[s] <= Len(checked') /\ seen' = SubSeq(checked', 1, own[s])
  BY <1>6, <1>7, <1>8, Zenon
<1>10. SecondPass'
  <2>1. \E a, c, o, m :
          /\ Log(table', argv', checked', a, c, o, m)
          /\ c[m] = 0 /\ \A k \in a[m] .. Len(argv') : argv'[k] = <<>>
          /\ \E s \in 0 .. m :
               /\ optind' = a[s] /\ nextchar' = c[s]
               /\ o[s] <= Len(checked') /\ seen' = SubSeq(checked', 1, o[s])
    BY <1>3, <1>4, <1>9
  <2> QED  BY <2>1, Zenon DEF SecondPass
<1> QED  BY <1>1, <1>10

-----------------------------------------------------------------------------
(* The invariant *)

\* Neither a command of the program nor help has the character EOF.
LEMMA NoneIsEOF ==
  ASSUME NEW q \in Seq(CommandTypes \cup {Help})
  PROVE  \A i \in DOMAIN q : q[i].op # EOF
<1>1. Help.op = "h"
  BY DEF Help
<1>2. \A c \in CommandTypes : c.op # EOF
  BY CommandAssumption DEF IsCommand, EOF
<1>3. \A i \in DOMAIN q : q[i] \in CommandTypes \cup {Help}
  BY ElementOfSeq
<1> QED  BY <1>1, <1>2, <1>3 DEF EOF

\* Registering keeps the registry within MAX_COMMANDS.
LEMMA RegisteredFits ==
  ASSUME NEW S, cmds \in Seq(S), NEW c \in S, Len(cmds) <= MaxCommands
  PROVE  Len(Registered(c)) <= MaxCommands /\ Len(cmds) + 1 \in 1 .. MaxCommands + 1
<1>1. Len(cmds) \in Nat /\ MaxCommands \in Nat
  BY CommandAssumption
<1>2. CASE Len(cmds) = MaxCommands
  BY <1>1, <1>2 DEF Registered
<1>3. CASE Len(cmds) # MaxCommands
  <2>1. Registered(c) = Append(cmds, c)
    BY <1>3 DEF Registered
  <2>2. Len(Append(cmds, c)) = Len(cmds) + 1
    BY AppendProperties
  <2> QED  BY <1>1, <1>3, <2>1, <2>2
<1> QED  BY <1>2, <1>3

LEMMA RegisterKeeps ==
  ASSUME OnlyHelpHasNoFunction, CommandIInv, NEW c \in CommandTypes, commandRegister(c)
  PROVE  CommandIInv'
<1>1. /\ phase = "setup" /\ phase' = "setup" /\ cmds' = Registered(c)
      /\ UNCHANGED <<active, helpIdx, table, argv, optind, nextchar, checked, seen, result>>
  BY DEF commandRegister, getopt
<1>2. cmds \in Seq(CommandTypes) /\ Len(cmds) <= MaxCommands
  BY <1>1 DEF OnlyHelpHasNoFunction, CommandIInv, RegistryOK
<1>3. cmds' \in Seq(CommandTypes) /\ Len(cmds') <= MaxCommands
  BY <1>1, <1>2, RegisteredProperties, RegisteredFits
<1>4. cmds' \in Seq(CommandTypes \cup {Help})
  BY <1>3
<1>5. \A i \in DOMAIN cmds' : cmds'[i].op # EOF
  BY <1>4, NoneIsEOF
<1>6. RegistryOK'
  BY <1>1, <1>3, <1>5 DEF CommandIInv, RegistryOK
<1>7. PlaceOK' /\ Unread'
  BY <1>1 DEF CommandIInv, PlaceOK, Unread
<1>8. InPasses'
  BY <1>1 DEF InPasses
<1> QED  BY <1>6, <1>7, <1>8 DEF CommandIInv

LEMMA DispatchKeeps ==
  ASSUME OnlyHelpHasNoFunction, CommandIInv, NEW v \in Argvs, commandDispatch(v)
  PROVE  CommandIInv'
<1>1. /\ phase = "setup" /\ phase' = "select" /\ cmds' = Registered(Help)
      /\ helpIdx' = Len(cmds) + 1 /\ active' = Len(cmds) + 1
      /\ argv' = v /\ checked' = <<>> /\ seen' = <<>> /\ result' = "none"
      /\ UNCHANGED <<optind, nextchar>>
  BY DEF commandDispatch
<1>2. cmds \in Seq(CommandTypes \cup {Help}) /\ Len(cmds) <= MaxCommands
  BY DEF OnlyHelpHasNoFunction, CommandIInv, RegistryOK
<1>3. /\ cmds' \in Seq(CommandTypes \cup {Help}) /\ Len(cmds') <= MaxCommands
      /\ Len(cmds) + 1 \in 1 .. MaxCommands + 1
  BY <1>1, <1>2, RegisteredProperties, RegisteredFits
<1>4. \A i \in DOMAIN cmds' : cmds'[i].op # EOF
  BY <1>3, NoneIsEOF
<1>5. RegistryOK'
  BY <1>1, <1>3, <1>4 DEF RegistryOK
<1>6. argv' \in Arguments /\ optind' = 1 /\ nextchar' = 0
  <2>1. v \in Arguments
    BY CommandAssumption DEF Arguments
  <2> QED  BY <1>1, <2>1 DEF CommandIInv, Unread
<1>7. PlaceOK'
  BY <1>6 DEF PlaceOK
<1>8. Unread'
  <2>1. <<>> \in Seq(STRING)
    OBVIOUS
  <2> QED  BY <1>1, <1>6, <2>1 DEF Unread
<1>9. InPasses'
  BY <1>1 DEF InPasses
<1> QED  BY <1>5, <1>7, <1>8, <1>9 DEF CommandIInv

LEMMA SelectKeeps ==
  ASSUME OnlyHelpHasNoFunction, CommandIInv, SelectCommand
  PROVE  CommandIInv'
<1>1. phase = "select" /\ UNCHANGED <<cmds, helpIdx, checked, seen>>
  BY DEF SelectCommand
<1>2. PICK op \in Answers :
        /\ GetOpt(op)
        /\ \/ /\ \E i \in DOMAIN cmds : cmds[i].op = op /\ active' = i
              /\ \/ phase' \in {"overread", "common"} /\ result' = result
                 \/ phase' = "returned" /\ result' = "usage"
           \/ /\ phase' = "returned" /\ result' \in {"invalid operation", "usage"}
              /\ active' = active
  BY DEF SelectCommand, Return
<1>3. GetOptInserting(op, <<>>) /\ <<>> \in Arguments
  <2>1. GetOptInserting(op, <<>>)
    BY <1>2, Zenon DEF GetOpt
  <2>2. <<>> \in Arguments
    BY DEF Arguments
  <2> QED  BY <2>1, <2>2
<1>4. PlaceOK /\ optind = 1 /\ nextchar = 0 /\ checked = <<>> /\ seen = <<>> /\ checked \in Seq(STRING)
  BY <1>1 DEF CommandIInv, Unread
<1>5. PlaceOK'
  BY <1>3, <1>4, GetOptProperties
<1>6. /\ cmds \in Seq(CommandTypes \cup {Help}) /\ Len(cmds) <= MaxCommands
      /\ \A i \in DOMAIN cmds : cmds[i].op # EOF
  BY DEF OnlyHelpHasNoFunction, CommandIInv, RegistryOK
<1>7. \A i \in DOMAIN cmds : i \in 1 .. MaxCommands + 1
  <2>1. Len(cmds) \in Nat /\ DOMAIN cmds = 1 .. Len(cmds) /\ MaxCommands \in Nat
    BY <1>6, CommandAssumption
  <2> QED  BY <1>6, <2>1
<1>8. RegistryOK'
  <2>1. active' \in 1 .. MaxCommands + 1
    BY <1>2, <1>7 DEF CommandIInv, RegistryOK
  <2>2. result' \in {"none", "usage", "invalid operation", "invalid options", "done"}
    BY <1>2 DEF CommandIInv, RegistryOK
  <2> QED  BY <1>1, <2>1, <2>2 DEF CommandIInv, RegistryOK
<1>9. ASSUME phase' = "common"
      PROVE  /\ argv' # <<>> /\ (optind' = 1 => nextchar' # 0)
             /\ Len(argv'[1]) = 1 => optind' = 2 /\ nextchar' = 0
  <2>1. op # EOF
    BY <1>2, <1>6, <1>9
  <2>2. Reads(argv', optind, nextchar, op) /\ IsAfter(argv', optind, nextchar, optind', nextchar')
    BY <1>3, <1>4, <2>1, GetOptProperties
  <2>3. 1 \in 1 .. Len(argv')
    BY <1>4, <2>2, Zenon DEF Reads
  <2>4. argv' # <<>>
    BY <2>3
  <2>5. IF 0 + 1 = Len(argv'[1]) THEN optind' = 1 + 1 /\ nextchar' = 0 ELSE optind' = 1 /\ nextchar' = 0 + 1
    BY <1>4, <2>2, Zenon DEF IsAfter
  <2> QED  BY <2>4, <2>5
<1>10. phase' \in {"overread", "returned", "common"} /\ (phase' = "returned" => result' # "done")
  BY <1>2
<1>11. Unread'
  BY <1>1, <1>4, <1>9, <1>10 DEF Unread
<1>12. ASSUME phase' = "common", OwnArgument'
       PROVE  FirstPass'
  <2>1. optind' = 2 /\ nextchar' = 0 /\ checked' = <<>>
    BY <1>1, <1>4, <1>9, <1>12 DEF OwnArgument
  <2> QED  BY <2>1, FirstPassStarts
<1>13. InPasses'
  BY <1>10, <1>12 DEF InPasses
<1> QED  BY <1>5, <1>8, <1>11, <1>13 DEF CommandIInv

LEMMA CommonOptionKeeps ==
  ASSUME OnlyHelpHasNoFunction, CommandIInv, CommonOption
  PROVE  CommandIInv'
<1>1. PICK op \in Answers \ {EOF, Bad} :
        /\ checked' = OwnOption(checked, op)
        /\ \E more \in IF op = "+" THEN FileOptions ELSE {<<>>} : GetOptInserting(op, more)
  BY Zenon DEF CommonOption
<1>2. PICK more \in IF op = "+" THEN FileOptions ELSE {<<>>} : GetOptInserting(op, more)
  BY <1>1
<1>3. phase = "common" /\ phase' = "common" /\ UNCHANGED <<cmds, active, helpIdx, table, seen, result>>
  BY DEF CommonOption, registry
<1>4. op # EOF /\ op # Bad
  BY <1>1
<1>5. more \in Arguments
  <2>1. <<>> \in Arguments
    BY DEF Arguments
  <2>2. FileOptions \subseteq Arguments
    BY CommandAssumption DEF Arguments
  <2> QED  BY <2>1, <2>2
<1>6. /\ PlaceOK /\ checked \in Seq(STRING) /\ argv # <<>> /\ seen = <<>>
      /\ optind = 1 => nextchar # 0
  BY <1>3 DEF CommandIInv, Unread
<1>7. /\ PlaceOK'
      /\ Reads(argv', optind, nextchar, op)
      /\ IsAfter(argv', optind, nextchar, optind', nextchar')
      /\ Len(argv') >= Len(argv)
      /\ \A j \in 1 .. optind - 1 : argv'[j] = argv[j]
      /\ argv[optind] # <<>> => argv'[optind] = argv[optind]
  BY <1>2, <1>4, <1>5, <1>6, GetOptProperties
<1>8. optind \in Nat \ {0} /\ nextchar \in Nat /\ argv' \in Seq(Seq(STRING))
  BY <1>6, <1>7 DEF PlaceOK, Arguments
<1>9. op \in STRING
  <2>1. optind \in 1 .. Len(argv') /\ nextchar < Len(argv'[optind]) /\ op = argv'[optind][nextchar + 1]
    BY <1>4, <1>7 DEF Reads
  <2>2. argv'[optind] \in Seq(STRING)
    BY <1>8, <2>1
  <2>3. nextchar + 1 \in 1 .. Len(argv'[optind])
    BY <1>8, <2>1, <2>2
  <2> QED  BY <2>1, <2>2, <2>3, ElementOfSeq
<1>10. checked' \in Seq(STRING)
  BY <1>1, <1>6, <1>9, AppendProperties DEF OwnOption
<1>11. RegistryOK'
  BY <1>3 DEF CommandIInv, RegistryOK
<1>12. argv' # <<>> /\ (optind' = 1 => nextchar' # 0)
  <2>1. optind \in 1 .. Len(argv')
    BY <1>7, Zenon DEF Reads
  <2>2. argv' # <<>>
    BY <1>8, <2>1
  <2>3. (optind' = optind + 1) \/ (optind' = optind /\ nextchar' = nextchar + 1)
    BY <1>7 DEF IsAfter
  <2> QED  BY <1>8, <2>2, <2>3
<1>13. argv'[1] = argv[1]
  <2>1. CASE optind = 1
    <3>1. nextchar < Len(argv[1]) /\ nextchar # 0
      BY <1>6, <2>1 DEF PlaceOK
    <3>2. argv[1] # <<>>
      BY <1>8, <3>1
    <3> QED  BY <1>7, <2>1, <3>2
  <2>2. CASE optind # 1
    <3>1. 1 \in 1 .. optind - 1
      BY <1>8, <2>2
    <3> QED  BY <1>7, <3>1
  <2> QED  BY <2>1, <2>2
<1>14. OwnArgument' => FirstPass'
  <2> SUFFICES ASSUME OwnArgument'
               PROVE  FirstPass'
    OBVIOUS
  <2>1. FirstPass
    BY <1>3, <1>13 DEF OwnArgument, CommandIInv, InPasses
  <2>2. UNCHANGED table
    BY <1>3
  <2> QED  BY <1>1, <1>4, <1>6, <1>7, <1>10, <2>1, <2>2, FirstPassGoesOn
<1>15. Unread'
  BY <1>3, <1>6, <1>10, <1>12 DEF Unread
<1>16. InPasses'
  BY <1>3, <1>14 DEF InPasses
<1> QED  BY <1>7, <1>11, <1>15, <1>16 DEF CommandIInv

LEMMA CommonOptionFailsKeeps ==
  ASSUME OnlyHelpHasNoFunction, CommandIInv, CommonOptionFails
  PROVE  CommandIInv'
<1>1. /\ phase' = "returned" /\ result' = "invalid options"
      /\ UNCHANGED <<cmds, active, helpIdx, table, checked, seen>>
  BY DEF CommonOptionFails, Return, registry
<1>2. PICK op \in {Bad, "+"} : GetOpt(op)
  BY Zenon DEF CommonOptionFails
<1>3. PlaceOK'
  <2>1. GetOptInserting(op, <<>>)
    BY <1>2, Zenon DEF GetOpt
  <2>2. <<>> \in Arguments
    BY DEF Arguments
  <2>3. PlaceOK
    BY DEF CommandIInv
  <2> QED  BY <2>1, <2>2, <2>3, GetOptProperties
<1>4. RegistryOK'
  BY <1>1 DEF CommandIInv, RegistryOK
<1>5. Unread' /\ InPasses'
  BY <1>1 DEF CommandIInv, Unread, InPasses
<1> QED  BY <1>3, <1>4, <1>5 DEF CommandIInv

LEMMA CallKeeps ==
  ASSUME OnlyHelpHasNoFunction, CommandIInv, callCommand
  PROVE  CommandIInv'
<1>1. /\ phase = "common" /\ phase' \in {"nullcall", "command"}
      /\ \A k \in optind .. Len(argv) : argv[k] = <<>>
      /\ optind' = 2
      /\ UNCHANGED <<cmds, active, helpIdx, table, checked, seen, result, argv, nextchar>>
  BY DEF callCommand, Restart, registry
<1>2. PlaceOK /\ checked \in Seq(STRING) /\ seen = <<>> /\ argv # <<>>
  BY <1>1 DEF CommandIInv, Unread
<1>3. nextchar = 0
  <2>1. CASE nextchar # 0
    <3>1. /\ optind \in 1 .. Len(argv) /\ nextchar < Len(argv[optind]) /\ nextchar \in Nat
      BY <1>2, <2>1 DEF PlaceOK
    <3>2. optind \in optind .. Len(argv)
      BY <3>1
    <3>3. argv[optind] = <<>>
      BY <1>1, <3>2
    <3> QED  BY <3>1, <3>3
  <2> QED  BY <2>1
<1>4. PlaceOK'
  BY <1>1, <1>2, <1>3 DEF PlaceOK
<1>5. RegistryOK'
  BY <1>1 DEF CommandIInv, RegistryOK
<1>6. Unread'
  BY <1>1, <1>2 DEF Unread
<1>7. ASSUME phase' = "command", OwnArgument'
      PROVE  SecondPass'
  <2>1. FirstPass
    BY <1>1, <1>7 DEF OwnArgument, CommandIInv, InPasses
  <2>2. UNCHANGED <<table, argv, checked, seen, nextchar>>
    BY <1>1
  <2> QED  BY <1>1, <1>2, <2>1, <2>2, SecondPassStarts
<1>8. InPasses'
  BY <1>1, <1>7 DEF InPasses
<1> QED  BY <1>4, <1>5, <1>6, <1>8 DEF CommandIInv

LEMMA GetOptKeeps ==
  ASSUME OnlyHelpHasNoFunction, CommandIInv, commandGetOpt
  PROVE  CommandIInv'
<1>1. PICK op \in Answers \ {EOF} : GetOpt(op) /\ seen' = OwnOption(seen, op)
  BY Zenon DEF commandGetOpt
<1>2. /\ phase = "command" /\ phase' = "command" /\ op # EOF
      /\ UNCHANGED <<cmds, active, helpIdx, table, checked, result>>
  BY <1>1 DEF commandGetOpt, registry
<1>3. PlaceOK /\ checked \in Seq(STRING) /\ argv # <<>> /\ optind # 1
  BY <1>2 DEF CommandIInv, Unread
<1>4. /\ PlaceOK'
      /\ \E k \in optind .. Len(argv) : argv[k] # <<>>
      /\ Reads(argv', optind, nextchar, op)
      /\ IsAfter(argv', optind, nextchar, optind', nextchar')
      /\ \A j \in 1 .. optind - 1 : argv'[j] = argv[j]
      /\ argv[optind] # <<>> => argv' = argv
  <2>1. GetOptInserting(op, <<>>)
    BY <1>1, Zenon DEF GetOpt
  <2>2. <<>> \in Arguments
    BY DEF Arguments
  <2> QED  BY <1>2, <1>3, <2>1, <2>2, GetOptProperties
<1>5. optind \in Nat \ {0} /\ nextchar \in Nat /\ argv' \in Seq(Seq(STRING))
  BY <1>3, <1>4 DEF PlaceOK, Arguments
<1>6. argv'[1] = argv[1]
  <2>1. 1 \in 1 .. optind - 1
    BY <1>3, <1>5
  <2> QED  BY <1>4, <2>1
<1>7. argv' # <<>> /\ optind' # 1
  <2>1. optind \in 1 .. Len(argv')
    BY <1>4, Zenon DEF Reads
  <2>2. argv' # <<>>
    BY <1>5, <2>1
  <2>3. optind' = optind + 1 \/ optind' = optind
    BY <1>4 DEF IsAfter
  <2> QED  BY <1>3, <1>5, <2>2, <2>3
<1>8. RegistryOK'
  BY <1>2 DEF CommandIInv, RegistryOK
<1>9. Unread'
  BY <1>2, <1>3, <1>7 DEF Unread
<1>10. ASSUME OwnArgument'
       PROVE  SecondPass'
  <2>1. SecondPass
    BY <1>2, <1>6, <1>10 DEF OwnArgument, CommandIInv, InPasses
  <2>2. PICK ai, ch, own, n :
          /\ Log(table, argv, checked, ai, ch, own, n)
          /\ ch[n] = 0 /\ \A k \in ai[n] .. Len(argv) : argv[k] = <<>>
          /\ \E t \in 0 .. n :
               /\ optind = ai[t] /\ nextchar = ch[t]
               /\ own[t] <= Len(checked) /\ seen = SubSeq(checked, 1, own[t])
    BY <2>1, Zenon DEF SecondPass
  <2>3. PICK t \in 0 .. n :
          /\ optind = ai[t] /\ nextchar = ch[t]
          /\ own[t] <= Len(checked) /\ seen = SubSeq(checked, 1, own[t])
    BY <2>2
  <2>4. /\ t \in 0 .. n - 1 /\ Entry(table, argv, checked, ai, ch, own, t)
        /\ argv[optind] # <<>>
    BY <1>3, <1>4, <2>2, <2>3, NextInLog
  <2>5. argv' = argv
    BY <1>4, <2>4
  <2>6. Reads(argv, optind, nextchar, op) /\ IsAfter(argv, optind, nextchar, optind', nextchar')
    BY <1>4, <2>5
  <2>7. UNCHANGED <<table, argv, checked>>
    BY <1>2, <2>5
  <2> QED  BY <1>1, <1>3, <2>2, <2>3, <2>4, <2>6, <2>7, SecondPassGoesOn
<1>11. InPasses'
  BY <1>2, <1>10 DEF InPasses
<1> QED  BY <1>4, <1>8, <1>9, <1>11 DEF CommandIInv

LEMMA ReturnKeeps ==
  ASSUME OnlyHelpHasNoFunction, CommandIInv, CommandReturns
  PROVE  CommandIInv'
<1>1. /\ phase = "command" /\ GetOpt(EOF) /\ phase' = "returned" /\ result' = "done"
      /\ UNCHANGED <<cmds, active, helpIdx, table, checked, seen>>
  BY DEF CommandReturns, Return, registry
<1>2. PlaceOK /\ checked \in Seq(STRING) /\ argv # <<>> /\ optind # 1
  BY <1>1 DEF CommandIInv, Unread
<1>3. /\ PlaceOK'
      /\ \/ /\ \A k \in optind .. Len(argv) : argv[k] = <<>>
            /\ UNCHANGED getopt
         \/ /\ \E k \in optind .. Len(argv) : argv[k] # <<>>
            /\ Reads(argv', optind, nextchar, EOF)
            /\ \A j \in 1 .. optind - 1 : argv'[j] = argv[j]
            /\ argv[optind] # <<>> => argv' = argv
  <2>1. GetOptInserting(EOF, <<>>)
    BY <1>1, Zenon DEF GetOpt
  <2>2. <<>> \in Arguments
    BY DEF Arguments
  <2> QED  BY <1>2, <2>1, <2>2, GetOptProperties
<1>4. argv'[1] = argv[1]
  <2>1. CASE UNCHANGED getopt
    BY <2>1 DEF getopt
  <2>2. CASE \A j \in 1 .. optind - 1 : argv'[j] = argv[j]
    <3>1. optind \in Nat \ {0}
      BY <1>2 DEF PlaceOK
    <3>2. 1 \in 1 .. optind - 1
      BY <1>2, <3>1
    <3> QED  BY <2>2, <3>2
  <2> QED  BY <1>3, <2>1, <2>2
<1>5. RegistryOK'
  BY <1>1 DEF CommandIInv, RegistryOK
<1>6. Unread'
  BY <1>1, <1>2 DEF Unread
<1>7. ASSUME OwnArgument'
      PROVE  seen = checked
  <2>1. SecondPass
    BY <1>1, <1>4, <1>7 DEF OwnArgument, CommandIInv, InPasses
  <2>2. PICK ai, ch, own, n :
          /\ Log(table, argv, checked, ai, ch, own, n)
          /\ ch[n] = 0 /\ \A k \in ai[n] .. Len(argv) : argv[k] = <<>>
          /\ \E t \in 0 .. n :
               /\ optind = ai[t] /\ nextchar = ch[t]
               /\ own[t] <= Len(checked) /\ seen = SubSeq(checked, 1, own[t])
    BY <2>1, Zenon DEF SecondPass
  <2>3. PICK t \in 0 .. n :
          /\ optind = ai[t] /\ nextchar = ch[t]
          /\ own[t] <= Len(checked) /\ seen = SubSeq(checked, 1, own[t])
    BY <2>2
  <2>4. \/ t = n /\ \A k \in optind .. Len(argv) : argv[k] = <<>>
        \/ /\ Entry(table, argv, checked, ai, ch, own, t)
           /\ optind \in 1 .. Len(argv) /\ argv[optind] # <<>>
    BY <1>2, <2>2, <2>3, NextInLog
  <2>5. CASE t = n
    <3>1. own[n] = Len(checked)
      BY <2>2, Zenon DEF Log
    <3> QED  BY <1>2, <2>3, <2>5, <3>1, PrefixProperties
  <2>6. CASE /\ Entry(table, argv, checked, ai, ch, own, t)
             /\ optind \in 1 .. Len(argv) /\ argv[optind] # <<>>
    <3>1. \E k \in optind .. Len(argv) : argv[k] # <<>>
      BY <2>6
    <3>2. argv' = argv /\ Reads(argv', optind, nextchar, EOF)
      BY <1>3, <2>6, <3>1
    <3>3. EOF = IF Known(argv[optind][nextchar + 1]) THEN argv[optind][nextchar + 1] ELSE Bad
      BY <3>2, Zenon DEF Reads
    <3>4. argv[optind][nextchar + 1] # EOF
      BY <2>3, <2>6, Zenon DEF Entry
    <3>5. EOF # Bad
      BY DEF EOF, Bad
    <3> QED  BY <3>3, <3>4, <3>5
  <2> QED  BY <2>4, <2>5, <2>6
<1>8. InPasses'
  BY <1>1, <1>7 DEF InPasses
<1> QED  BY <1>3, <1>5, <1>6, <1>8 DEF CommandIInv

\* The two passes and the place getopt keeps: one step per action.
THEOREM PassesAgree == Spec => []CommandIInv
<1>1. Init => CommandIInv
  <2> SUFFICES ASSUME Init
               PROVE  CommandIInv
    OBVIOUS
  <2>1. RegistryOK
    <3>1. MaxCommands \in Nat \ {0} /\ Len(<<>>) = 0 /\ DOMAIN <<>> = {}
      BY CommandAssumption
    <3> QED  BY <3>1 DEF Init, RegistryOK
  <2>2. PlaceOK
    BY DEF Init, PlaceOK, Arguments
  <2>3. Unread /\ InPasses
    BY DEF Init, Unread, InPasses
  <2> QED  BY <2>1, <2>2, <2>3 DEF CommandIInv
<1>2. OnlyHelpHasNoFunction /\ CommandIInv /\ [Next]_vars => CommandIInv'
  <2> SUFFICES ASSUME OnlyHelpHasNoFunction, CommandIInv, [Next]_vars
               PROVE  CommandIInv'
    OBVIOUS
  <2>1. ASSUME NEW c \in CommandTypes, commandRegister(c)
        PROVE  CommandIInv'
    BY <2>1, RegisterKeeps
  <2>2. ASSUME NEW v \in Argvs, commandDispatch(v)
        PROVE  CommandIInv'
    BY <2>2, DispatchKeeps
  <2>3. CASE SelectCommand
    BY <2>3, SelectKeeps
  <2>4. CASE CommonOption
    BY <2>4, CommonOptionKeeps
  <2>5. CASE CommonOptionFails
    BY <2>5, CommonOptionFailsKeeps
  <2>6. CASE callCommand
    BY <2>6, CallKeeps
  <2>7. CASE commandGetOpt
    BY <2>7, GetOptKeeps
  <2>8. CASE CommandReturns
    BY <2>8, ReturnKeeps
  <2>9. CASE UNCHANGED vars
    <3>1. /\ UNCHANGED <<phase, cmds, active, helpIdx, table, checked, seen, result>>
          /\ UNCHANGED <<argv, optind, nextchar>>
      BY <2>9 DEF vars, registry, getopt
    <3>2. RegistryOK' /\ PlaceOK' /\ Unread'
      BY <3>1 DEF CommandIInv, RegistryOK, PlaceOK, Unread
    <3>3. FirstPass' = FirstPass /\ SecondPass' = SecondPass /\ OwnArgument' = OwnArgument
      BY <3>1 DEF FirstPass, SecondPass, OwnArgument
    <3>4. InPasses'
      BY <3>1, <3>3 DEF CommandIInv, InPasses
    <3> QED  BY <3>2, <3>4 DEF CommandIInv
  <2> QED  BY <2>1, <2>2, <2>3, <2>4, <2>5, <2>6, <2>7, <2>8, <2>9 DEF Next
<1> QED  BY <1>1, <1>2, OnlyHelpIsFunctionless, PTL DEF Spec

\* The shape of the state, for every set of commands, arguments and files; the
\* registry stays within MAX_COMMANDS, and getopt's place within argv.
THEOREM TypeCorrect == Spec => []TypeOK
<1>1. OnlyHelpHasNoFunction /\ CommandIInv => TypeOK
  <2> SUFFICES ASSUME OnlyHelpHasNoFunction, CommandIInv
               PROVE  TypeOK
    OBVIOUS
  <2>1. DOMAIN argv = 1 .. Len(argv)
    BY DEF CommandIInv, PlaceOK, Arguments
  <2> QED  BY <2>1 DEF OnlyHelpHasNoFunction, Phases, CommandIInv, RegistryOK, PlaceOK, TypeOK
<1> QED  BY <1>1, OnlyHelpIsFunctionless, PassesAgree, PTL

\* A command in an argument of its own sees exactly the options that were
\* checked, whatever the arguments are and whatever files add to them.
THEOREM CommandSeesWhatWasChecked == Spec => []SeesWhatWasCheckedAfterCommand
<1>1. CommandIInv => SeesWhatWasCheckedAfterCommand
  BY DEF CommandIInv, InPasses, OwnArgument, SeesWhatWasCheckedAfterCommand, SeesWhatWasChecked
<1> QED  BY <1>1, PassesAgree, PTL

=============================================================================
