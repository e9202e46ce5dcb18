-------------------------- MODULE IntegrityChecker --------------------------
(***************************************************************************)
(* The integrity checker (integrityChecker.c): a table of recorded lengths *)
(* and checksums, and the check of a file against it, while others write,  *)
(* lengthen and shorten the file.  It is mapped with the length it has     *)
(* then, and the checksum reads the mapping byte by byte; the checksum is  *)
(* a function of the bytes that may collide and may be 0.                  *)
(*                                                                         *)
(* buildFile() stands for integrityCheckerBuildFile(), and the missing ';' *)
(* of the struct is read.                                                  *)
(***************************************************************************)
EXTENDS Integers, Sequences

CONSTANTS
  Records,       \* names in the table
  Files,         \* contents a file can have: sequences of bytes
  HashOf(_),     \* chunkHashStatic() of a sequence of bytes, a number
  PageSize,      \* of memory: a mapping ends with the file's last page
  MaxWrites      \* bound: writes to the file

ASSUME CheckAssumption ==
  Files \subseteq Seq(Nat) /\ PageSize \in Nat \ {0} /\ MaxWrites \in Nat

VARIABLES
  checksums,     \* the table, and whether anybody has filled it
  recorded,      \* the contents each entry of the table was made of
  file,          \* what the file holds; its absence is a failing chunkMap()
  writes,
  check,         \* the check that is under way
  verdict        \* its answer, the bytes it read, and what the file held meanwhile

checkVars == <<checksums, recorded, file, writes, check, verdict>>

NoCheck == [at |-> "none", cs |-> 0, len |-> 0, read |-> <<>>, seen |-> {}]
NoVerdict ==
  [known |-> FALSE, valid |-> FALSE, cs |-> 0, mapped |-> TRUE, read |-> <<>>, seen |-> {}]

\* malloc() leaves the table as it is.
integrityCheckerCreate ==
  /\ checksums = [filled |-> FALSE, entry |-> <<>>]
  /\ recorded = <<>>

CheckInit ==
  /\ integrityCheckerCreate
  /\ file \in Files
  /\ writes = 0
  /\ check = NoCheck
  /\ verdict = NoVerdict

-----------------------------------------------------------------------------

\* The entry of a name, made of some contents.
Record(name, f) == [name |-> name, fileLen |-> Len(f), file |-> HashOf(f)]

\* Nothing in the library fills the table: whoever owns the checker does
\* (external), maybe with two entries of one name.
LoadChecksums(names, contents) ==
  /\ ~checksums.filled
  /\ checksums' = [filled |-> TRUE, entry |-> [i \in 1 .. 2 |-> Record(names[i], contents[i])]]
  /\ recorded' = contents
  /\ UNCHANGED <<file, writes, check, verdict>>

\* Somebody writes the file (external), in the middle of a check too.
WriteFile(f) ==
  /\ writes < MaxWrites /\ f # file
  /\ file' = f
  /\ writes' = writes + 1
  /\ check' = IF check.at = "none" THEN check ELSE [check EXCEPT !.seen = @ \cup {f}]
  /\ UNCHANGED <<checksums, recorded, verdict>>

-----------------------------------------------------------------------------
(* integrityCheckerCheckFile() *)

\* The first entry of that name, 0 for none.
findChecksum(name) ==
  LET found == {i \in DOMAIN checksums.entry : checksums.entry[i].name = name}
  IN  IF found = {} THEN 0 ELSE CHOOSE i \in found : \A j \in found : i <= j

Returns(valid, cs, mapped) ==
  /\ verdict' = [known |-> TRUE, valid |-> valid, cs |-> cs, mapped |-> mapped,
                 read |-> check.read, seen |-> check.seen]
  /\ check' = NoCheck

\* A program that uses the checker has filled its table before.
CheckFile(name) ==
  /\ checksums.filled /\ check = NoCheck
  /\ LET cs == findChecksum(name)
     IN  IF cs = 0 THEN Returns(FALSE, 0, TRUE)
         ELSE check' = [NoCheck EXCEPT !.at = "map", !.cs = cs, !.seen = {file}] /\ verdict' = NoVerdict
  /\ UNCHANGED <<checksums, recorded, file, writes>>

\* chunkMap() (external) gives the length the file has now, or fails.
MapFile ==
  /\ check.at = "map"
  /\ \/ check' = [check EXCEPT !.at = "hash", !.len = Len(file)] /\ UNCHANGED verdict
     \/ Returns(FALSE, check.cs, FALSE)
  /\ UNCHANGED <<checksums, recorded, file, writes>>

\* Byte i of the mapping: what the file holds there by then, and 0 behind its end.
ByteAt(f, i) == IF i <= Len(f) THEN f[i] ELSE 0

\* The page of byte i begins behind the end of the file (external).
NoPage(i) == ((i - 1) \div PageSize) * PageSize >= Len(file)

\* chunkHashStatic() reads on; without a page there the kernel sends SIGBUS,
\* which ends the process.
HashByte ==
  /\ check.at = "hash" /\ Len(check.read) < check.len
  /\ LET i == Len(check.read) + 1
     IN  check' = IF NoPage(i) THEN [check EXCEPT !.at = "bus"]
                  ELSE [check EXCEPT !.read = Append(@, ByteAt(file, i))]
  /\ UNCHANGED <<checksums, recorded, file, writes, verdict>>

\* A variant of Matching that does not compare lengths.
MatchingSum(cs, sum) == sum # 0 /\ cs.file = sum

\* A sum of 0 is taken for a file that could not be read.
Matching(cs, sum) == sum # 0 /\ cs.fileLen = check.len /\ cs.file = sum

CompareFile ==
  /\ check.at = "hash" /\ Len(check.read) = check.len
  /\ Returns(Matching(checksums.entry[check.cs], HashOf(check.read)), check.cs, TRUE)
  /\ UNCHANGED <<checksums, recorded, file, writes>>

CheckStep == MapFile \/ HashByte \/ CompareFile

CheckNext ==
  \/ \E names \in [1 .. 2 -> Records], contents \in [1 .. 2 -> Files] :
       LoadChecksums(names, contents)
  \/ \E f \in Files : WriteFile(f)
  \/ \E name \in Records : CheckFile(name)
  \/ CheckStep

-----------------------------------------------------------------------------

CheckTypeOK ==
  /\ checksums.filled \in BOOLEAN
  /\ recorded \in Seq(Files) /\ (checksums.filled <=> recorded # <<>>)
  /\ DOMAIN checksums.entry = DOMAIN recorded
  /\ \A i \in DOMAIN recorded : \E name \in Records :
       checksums.entry[i] = Record(name, recorded[i])
  /\ file \in Files /\ writes \in 0 .. MaxWrites
  /\ check \in [at : {"none", "map", "hash", "bus"}, cs : Nat, len : Nat,
                read : Seq(Nat), seen : SUBSET Files]
  /\ Len(check.read) <= check.len
  /\ check.at # "none" => check.cs \in DOMAIN recorded /\ file \in check.seen
  /\ verdict \in [known : BOOLEAN, valid : BOOLEAN, cs : Nat, mapped : BOOLEAN,
                  read : Seq(Nat), seen : SUBSET Files]
  /\ verdict.cs # 0 => verdict.cs \in DOMAIN recorded

\* "check the integrity of a file on disk": a file that is reported valid had
\* the recorded length at some moment of the check, and the bytes read have the
\* recorded checksum, each of which the file held at its place at some moment,
\* or was shorter.  Not more: written meanwhile, it may never have held them
\* together, nor have had the recorded checksum.
ValidWasRead ==
  verdict.valid =>
    LET r == recorded[verdict.cs]
    IN  /\ Len(verdict.read) = Len(r) /\ HashOf(verdict.read) = HashOf(r)
        /\ \E f \in verdict.seen : Len(f) = Len(r)
        /\ \A i \in DOMAIN verdict.read : \E f \in verdict.seen :
             verdict.read[i] = ByteAt(f, i)

\* The check of a file that nobody changes meanwhile, and that can be mapped,
\* says exactly whether it has the recorded length and checksum, unless that is
\* 0: the value that stands for an error.
UndisturbedIsExact ==
  verdict.known /\ verdict.mapped /\ verdict.cs # 0 =>
    \A f \in verdict.seen : verdict.seen = {f} =>
      LET r == recorded[verdict.cs]
      IN  verdict.valid <=> Len(f) = Len(r) /\ HashOf(f) = HashOf(r) /\ HashOf(f) # 0

\* The process is only killed by a file that was shorter than when it was mapped.
BusWhenShortened ==
  check.at = "bus" => \E f, g \in check.seen : Len(f) < Len(g)

\* A check ends, however often the file is written: with an answer or the process.
CheckReturns == check.at \in {"map", "hash"} ~> check.at \in {"none", "bus"}

\* A verdict says of a file what the check can know, whatever others do to it.
VerdictIsJust == ValidWasRead /\ UndisturbedIsExact /\ BusWhenShortened

=============================================================================
