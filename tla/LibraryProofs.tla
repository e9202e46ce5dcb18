--------------------------- MODULE LibraryProofs ---------------------------
(***************************************************************************)
(* Theorems about the parts of Library, for all values of the constants:   *)
(* the password loop, the file check, the capabilities, their lookups, the *)
(* backtraces and the chunks.  Each part has an inductive invariant of its *)
(* own; that the other parts leave it alone is what the frame lemmas say.  *)
(***************************************************************************)
EXTENDS Library, TLAPS, SequenceTheorems, FiniteSetTheorems

-----------------------------------------------------------------------------
(* A step of the library is one of the part in question, or leaves it alone. *)

LEMMA PassFrame == [LibraryNext]_libraryVars => Attempt \/ UNCHANGED passVars
BY DEF LibraryNext, UsesChunk, UsesTrace, UsesCap, UsesCheck, UsesPass, libraryVars

LEMMA CheckFrame == [LibraryNext]_libraryVars => CheckNext \/ UNCHANGED checkVars
BY DEF LibraryNext, UsesChunk, UsesTrace, UsesCap, UsesCheck, UsesPass, libraryVars

LEMMA CapFrame == [LibraryNext]_libraryVars => CapNext \/ UNCHANGED capVars
BY DEF LibraryNext, UsesChunk, UsesTrace, UsesCap, UsesCheck, UsesPass, libraryVars

LEMMA ChunkFrame == [LibraryNext]_libraryVars => ChunkNext \/ UNCHANGED chunkVars
BY DEF LibraryNext, UsesChunk, UsesTrace, UsesCap, UsesCheck, UsesPass, libraryVars

LEMMA TraceFrame == [LibraryNext]_libraryVars => TraceNext \/ UNCHANGED traceVars
BY DEF LibraryNext, UsesChunk, UsesTrace, UsesCap, UsesCheck, UsesPass, libraryVars

-----------------------------------------------------------------------------
(* The password loop *)

\* What fgets() has still to return: before the last text only one with a NUL
\* in it can match.
EarlyMatchesHaveNul ==
  /\ input \in Seq(Lines)
  /\ \A i \in 1 .. Len(input) : i < Len(input) => ~Matches(input[i]) \/ input[i].next = "nul"

\* While the program asks, what the buffer holds has been refused, unless
\* nothing was compared yet.
RefusedBefore ==
  /\ buf \in Lines
  /\ outcome \in {"asking", "correct", "failed"}
  /\ count \in 0 .. 4 /\ (count = 4 <=> outcome = "failed")
  /\ fresh \in BOOLEAN
  /\ outcome = "asking" => count = 0 \/ ~Matches(buf)

PassIInv == EarlyMatchesHaveNul /\ RefusedBefore /\ AcceptedWithoutEnter

LEMMA PassStarts == LibraryInit => PassIInv
<1> SUFFICES ASSUME LibraryInit PROVE PassIInv
  OBVIOUS
<1>1. input \in Inputs /\ PassInit
  BY DEF LibraryInit, PassInit
<1>2. PICK n \in 0 .. MaxLines : input \in [1 .. n -> Lines]
  BY <1>1 DEF Inputs, Lines
<1>3. input \in Seq(Lines) /\ DOMAIN input = 1 .. Len(input)
  BY <1>2
<1>4. \A i \in 1 .. Len(input) : i < Len(input) => ~Matches(input[i]) \/ input[i].next = "nul"
  <2>1. \A i \in DOMAIN input : i < Len(input) /\ input[i].next = "nothing" => input[i].text = "wrong"
    BY <1>1 DEF Inputs
  <2> SUFFICES ASSUME NEW i \in 1 .. Len(input), i < Len(input)
               PROVE  ~Matches(input[i]) \/ input[i].next = "nul"
    OBVIOUS
  <2>2. input[i].next = "nothing" => input[i].text = "wrong"
    BY <1>3, <2>1
  <2>3. input[i].next \in {"newline", "nul", "nothing"}
    BY <1>2, <1>3 DEF Lines
  <2> QED  BY <2>2, <2>3 DEF Matches
<1>5. buf \in Lines /\ count = 0 /\ fresh = FALSE /\ outcome = "asking"
  <2>1. Line("right", "nothing") \in Lines /\ Line("wrong", "nothing") \in Lines
    BY DEF Line, Lines
  <2>2. buf = Line("right", "nothing") \/ buf = Line("wrong", "nothing")
    BY <1>1, Zenon DEF PassInit
  <2>3. buf \in Lines
    BY <2>1, <2>2, Zenon
  <2>4. count = 0 /\ fresh = FALSE /\ outcome = "asking"
    BY <1>1, Zenon DEF PassInit
  <2> QED  BY <2>3, <2>4, Zenon
<1>6. RefusedBefore
  <2>1. fresh \in BOOLEAN
    BY <1>5, Zenon
  <2> QED  BY <1>5, <2>1 DEF RefusedBefore
<1> QED
  BY <1>3, <1>4, <1>5, <1>6 DEF PassIInv, EarlyMatchesHaveNul, AcceptedWithoutEnter

\* What a round that refuses the buffer leaves behind.
LEMMA Refused ==
  ASSUME count \in 0 .. 3, count' = count + 1,
         outcome' = IF TooMany THEN "failed" ELSE "asking",
         buf' \in Lines, fresh' \in BOOLEAN, ~Matches(buf'), EarlyMatchesHaveNul'
  PROVE  PassIInv'
<1>1. /\ count' \in 0 .. 4 /\ outcome' \in {"asking", "failed"}
      /\ count' = 4 <=> outcome' = "failed"
  BY DEF TooMany
<1>2. RefusedBefore'
  BY <1>1, Zenon DEF RefusedBefore, Matches
<1>3. AcceptedWithoutEnter'
  BY <1>1 DEF AcceptedWithoutEnter
<1> QED  BY <1>2, <1>3 DEF PassIInv

LEMMA PassGoesOn == PassIInv /\ [LibraryNext]_libraryVars => PassIInv'
<1> SUFFICES ASSUME PassIInv, [LibraryNext]_libraryVars PROVE PassIInv'
  OBVIOUS
<1> USE DEF PassIInv
<1>1. CASE UNCHANGED passVars
  BY <1>1 DEF passVars, EarlyMatchesHaveNul, RefusedBefore, AcceptedWithoutEnter, Matches
<1>2. CASE Attempt
  <2>1. /\ outcome = "asking" /\ count \in 0 .. 3 /\ buf \in Lines
        /\ count = 0 \/ ~Matches(buf)
    BY <1>2 DEF Attempt, RefusedBefore
  <2>4. IF Matches(buf') THEN outcome' = "correct" /\ UNCHANGED count
        ELSE /\ count' = count + 1
             /\ outcome' = IF TooMany THEN "failed" ELSE "asking"
    BY <1>2, Zenon DEF Attempt
  <2>2. CASE input = <<>>
    <3>1. input' = input /\ buf' = buf /\ fresh' = FALSE
      BY <1>2, <2>2 DEF Attempt
    <3>2. EarlyMatchesHaveNul'
      BY <2>2, <3>1 DEF EarlyMatchesHaveNul, Matches
    <3>3. CASE Matches(buf)
      <4>1. outcome' = "correct" /\ count' = 0
        BY <1>2, <2>1, <3>1, <3>3 DEF Attempt, Matches
      <4> QED
        BY <2>1, <2>2, <3>1, <3>2, <3>3, <4>1 DEF RefusedBefore, AcceptedWithoutEnter, Matches
    <3>4. CASE ~Matches(buf)
      <4>1. count' = count + 1 /\ outcome' = IF TooMany THEN "failed" ELSE "asking"
        BY <2>4, <3>1, <3>4
      <4>2. buf' \in Lines /\ fresh' \in BOOLEAN /\ ~Matches(buf')
        BY <2>1, <3>1, <3>4
      <4> QED  BY <2>1, <3>2, <4>1, <4>2, Refused
    <3> QED  BY <3>3, <3>4
  <2>3. CASE input # <<>>
    <3>1. /\ fresh' = TRUE /\ buf' = Head(input) /\ input' = Tail(input)
          /\ input \in Seq(Lines) /\ Len(input) \in Nat /\ Len(input) > 0
      BY <1>2, <2>3 DEF Attempt, EarlyMatchesHaveNul
    <3>2. buf' = input[1] /\ buf' \in Lines
      BY <3>1
    <3>3. /\ Tail(input) \in Seq(Lines) /\ Len(Tail(input)) = Len(input) - 1
          /\ \A i \in 1 .. Len(Tail(input)) : Tail(input)[i] = input[i + 1]
      BY <3>1
    <3>4. \A i \in 1 .. Len(Tail(input)) :
            i < Len(Tail(input)) => ~Matches(Tail(input)[i]) \/ Tail(input)[i].next = "nul"
      <4> SUFFICES ASSUME NEW i \in 1 .. Len(Tail(input)), i < Len(Tail(input))
                   PROVE  ~Matches(Tail(input)[i]) \/ Tail(input)[i].next = "nul"
        OBVIOUS
      <4>1. i + 1 \in 1 .. Len(input) /\ i + 1 < Len(input)
        BY <3>1, <3>3
      <4> QED  BY <3>3, <4>1 DEF EarlyMatchesHaveNul
    <3>5. EarlyMatchesHaveNul'
      BY <3>1, <3>3, <3>4 DEF EarlyMatchesHaveNul, Matches
    <3>6. CASE Matches(buf')
      <4>1. outcome' = "correct" /\ count' = count
        BY <1>2, <3>6 DEF Attempt
      <4>2. Len(input) = 1 \/ buf'.next = "nul"
        <5>1. Matches(input[1])
          BY <3>2, <3>6 DEF Matches
        <5>2. 1 < Len(input) => ~Matches(input[1]) \/ input[1].next = "nul"
          BY <3>1 DEF EarlyMatchesHaveNul
        <5>3. Len(input) \in Nat /\ Len(input) > 0
          BY <3>1, Zenon
        <5>4. \A n \in Nat : n > 0 => n = 1 \/ 1 < n
          OBVIOUS
        <5> QED  BY <3>2, <5>1, <5>2, <5>3, <5>4, Zenon
      <4>3. input' = <<>> \/ buf'.next = "nul"
        BY <3>1, <3>3, <4>2
      <4>4. buf'.next # "newline"
        BY <3>6 DEF Matches
      <4>5. AcceptedWithoutEnter'
        BY <3>1, <4>3, <4>4, Zenon DEF AcceptedWithoutEnter
      <4>6. buf' \in Lines /\ fresh' \in BOOLEAN
        BY <3>1, <3>2, Zenon
      <4>7. /\ outcome' # "asking" /\ outcome' \in {"asking", "correct", "failed"}
            /\ count' \in 0 .. 4 /\ (count' = 4 <=> outcome' = "failed")
        BY <2>1, <4>1
      <4>8. RefusedBefore'
        BY <4>6, <4>7, Zenon DEF RefusedBefore
      <4> QED  BY <3>5, <4>5, <4>8
    <3>7. CASE ~Matches(buf')
      <4>1. count' = count + 1 /\ outcome' = IF TooMany THEN "failed" ELSE "asking"
        BY <2>4, <3>7
      <4>2. buf' \in Lines /\ fresh' \in BOOLEAN
        BY <3>1, <3>2, Zenon
      <4> QED  BY <2>1, <3>5, <3>7, <4>1, <4>2, Refused
    <3> QED  BY <3>6, <3>7
  <2> QED  BY <2>2, <2>3
<1> QED  BY <1>1, <1>2, PassFrame

\* The password is never accepted by a line that ends with Enter, only as the
\* last text of an input that does not end with one, or with a NUL behind it; and
\* what was refused once is not accepted when the input has ended and the buffer
\* is compared again (main() of pass.c), for inputs of any length.
THEOREM PasswordWithoutEnter == LibrarySpec => []AcceptedWithoutEnter
<1>1. LibrarySpec => []PassIInv
  BY PassStarts, PassGoesOn, PTL DEF LibrarySpec
<1>2. PassIInv => AcceptedWithoutEnter
  BY DEF PassIInv
<1> QED  BY <1>1, <1>2, PTL

-----------------------------------------------------------------------------
(* The file check *)

\* Before the table is filled nothing was checked; then each entry holds the
\* length and the checksum of the contents it was made of.
TableIsRecorded ==
  /\ checksums.filled \in BOOLEAN
  /\ ~checksums.filled => recorded = <<>> /\ check = NoCheck /\ verdict = NoVerdict
  /\ checksums.filled => recorded \in [1 .. 2 -> Files]
  /\ DOMAIN checksums.entry = DOMAIN recorded
  /\ \A i \in DOMAIN recorded : \E name \in Records :
       checksums.entry[i] = Record(name, recorded[i])

Checks == [at : {"none", "map", "hash", "bus"}, cs : Nat, len : Nat,
           read : Seq(Nat), seen : SUBSET Files]
Verdicts == [known : BOOLEAN, valid : BOOLEAN, cs : Nat, mapped : BOOLEAN,
             read : Seq(Nat), seen : SUBSET Files]

CheckShape ==
  /\ file \in Files /\ writes \in 0 .. MaxWrites
  /\ check \in Checks /\ verdict \in Verdicts
  /\ verdict.cs # 0 => verdict.cs \in DOMAIN recorded

\* What a check has read so far comes, byte by byte, from contents the file had
\* since it began, and so does the length it was mapped with.
ReadWhatWasSeen ==
  /\ check.at = "none" => check = NoCheck
  /\ check.at # "none" => check.cs \in DOMAIN recorded /\ file \in check.seen
  /\ check.at \in {"none", "map"} => check.read = <<>>
  /\ Len(check.read) <= check.len
  /\ check.at \in {"hash", "bus"} => \E f \in check.seen : check.len = Len(f)
  /\ \A i \in DOMAIN check.read : \E f \in check.seen : check.read[i] = ByteAt(f, i)
  /\ BusWhenShortened

CheckIInv ==
  TableIsRecorded /\ CheckShape /\ ReadWhatWasSeen /\ ValidWasRead /\ UndisturbedIsExact

LEMMA CheckStarts == LibraryInit => CheckIInv
<1> SUFFICES ASSUME LibraryInit PROVE CheckIInv
  OBVIOUS
<1>1. /\ checksums = [filled |-> FALSE, entry |-> <<>>] /\ recorded = <<>>
      /\ check = NoCheck /\ verdict = NoVerdict /\ file \in Files /\ writes = 0
  BY DEF LibraryInit, CheckInit, integrityCheckerCreate
<1>2. TableIsRecorded
  <2>1. checksums.filled = FALSE /\ checksums.entry = <<>>
    BY <1>1
  <2>2. checksums.filled \in BOOLEAN
    BY <2>1, Zenon
  <2>3. \A i \in DOMAIN recorded : FALSE
    BY <1>1
  <2> QED  BY <1>1, <2>1, <2>2, <2>3, Zenon DEF TableIsRecorded
<1>3. CheckShape
  <2>1. check \in Checks
    BY <1>1 DEF NoCheck, Checks
  <2>2. verdict \in Verdicts /\ verdict.cs = 0
    BY <1>1 DEF NoVerdict, Verdicts
  <2> QED  BY <1>1, <2>1, <2>2, CheckAssumption DEF CheckShape
<1>4. ReadWhatWasSeen
  BY <1>1 DEF ReadWhatWasSeen, NoCheck, BusWhenShortened
<1>5. ValidWasRead /\ UndisturbedIsExact
  BY <1>1 DEF ValidWasRead, UndisturbedIsExact, NoVerdict
<1> QED  BY <1>2, <1>3, <1>4, <1>5 DEF CheckIInv

\* The entry that is found is one of the table.
LEMMA FoundIsThere ==
  ASSUME TableIsRecorded, checksums.filled, NEW name, findChecksum(name) # 0
  PROVE  findChecksum(name) \in DOMAIN recorded /\ findChecksum(name) \in Nat
<1> DEFINE found == {i \in DOMAIN checksums.entry : checksums.entry[i].name = name}
<1>1. DOMAIN recorded = 1 .. 2 /\ found \subseteq 1 .. 2
  BY DEF TableIsRecorded
<1>2. found # {}
  BY DEF findChecksum
<1>3. \E i \in found : \A j \in found : i <= j
  BY <1>1, <1>2
<1>4. findChecksum(name) = CHOOSE i \in found : \A j \in found : i <= j
  BY <1>2 DEF findChecksum
<1>5. findChecksum(name) \in found
  BY <1>3, <1>4
<1> QED  BY <1>1, <1>5

\* What is justly said of the bytes read and of the contents seen.
Just(valid, cs, read, seen) ==
  valid =>
    LET r == recorded[cs]
    IN  /\ Len(read) = Len(r) /\ HashOf(read) = HashOf(r)
        /\ \E f \in seen : Len(f) = Len(r)
        /\ \A i \in DOMAIN read : \E f \in seen : read[i] = ByteAt(f, i)

Exact(valid, cs, seen) ==
  \A f \in seen : seen = {f} =>
    LET r == recorded[cs]
    IN  valid <=> Len(f) = Len(r) /\ HashOf(f) = HashOf(r) /\ HashOf(f) # 0

\* A check that returns leaves nothing under way; what it answers is just when
\* its answer is just of what was seen.
LEMMA ReturnIsJust ==
  ASSUME CheckIInv, checksums.filled, UNCHANGED <<checksums, recorded, file, writes>>,
         NEW valid \in BOOLEAN, NEW cs \in Nat, NEW mapped \in BOOLEAN, Returns(valid, cs, mapped),
         cs # 0 => cs \in DOMAIN recorded,
         Just(valid, cs, check.read, check.seen),
         mapped /\ cs # 0 => Exact(valid, cs, check.seen)
  PROVE  CheckIInv'
<1>1. /\ check' = NoCheck /\ recorded' = recorded /\ checksums' = checksums /\ file' = file
      /\ writes' = writes
      /\ verdict' = [known |-> TRUE, valid |-> valid, cs |-> cs, mapped |-> mapped,
                     read |-> check.read, seen |-> check.seen]
  BY DEF Returns
<1>2. /\ verdict'.valid = valid /\ verdict'.cs = cs /\ verdict'.mapped = mapped
      /\ verdict'.seen = check.seen /\ verdict'.read = check.read
  BY <1>1
<1>3. TableIsRecorded'
  BY <1>1 DEF CheckIInv, TableIsRecorded, Record
<1>4. CheckShape'
  <2>1. check' \in Checks
    BY <1>1 DEF NoCheck, Checks
  <2>2. check.read \in Seq(Nat) /\ check.seen \in SUBSET Files
    BY DEF CheckIInv, CheckShape, Checks
  <2>3. verdict' \in Verdicts
    BY <1>1, <2>2 DEF Verdicts
  <2> QED  BY <1>1, <1>2, <2>1, <2>3 DEF CheckIInv, CheckShape
<1>5. ReadWhatWasSeen'
  BY <1>1 DEF ReadWhatWasSeen, NoCheck, BusWhenShortened
<1>6. ValidWasRead'
  BY <1>1, <1>2, Zenon DEF ValidWasRead, Just, ByteAt
<1>7. UndisturbedIsExact'
  BY <1>1, <1>2, Zenon DEF UndisturbedIsExact, Exact
<1> QED  BY <1>3, <1>4, <1>5, <1>6, <1>7 DEF CheckIInv

\* The page of a byte that is not there begins behind the end of the file.
LEMMA BehindTheEnd ==
  ASSUME NEW i \in Nat \ {0}, NoPage(i), Len(file) \in Nat
  PROVE  Len(file) < i
<1>1. PageSize \in Nat /\ PageSize > 0
  BY CheckAssumption
<1>2. ((i - 1) \div PageSize) * PageSize <= i - 1
  <2>1. \A a \in Nat, p \in Nat \ {0} : (a \div p) * p <= a
    OBVIOUS
  <2> QED  BY <1>1, <2>1
<1>3. ((i - 1) \div PageSize) * PageSize \in Int
  BY <1>1
<1> QED  BY <1>2, <1>3 DEF NoPage

\* One step per action.
LEMMA CheckGoesOn == CheckIInv /\ [LibraryNext]_libraryVars => CheckIInv'
<1> SUFFICES ASSUME CheckIInv, [LibraryNext]_libraryVars PROVE CheckIInv'
  OBVIOUS
<1>0. /\ TableIsRecorded /\ CheckShape /\ ReadWhatWasSeen /\ ValidWasRead /\ UndisturbedIsExact
      /\ check.at # "none" => checksums.filled
      /\ file \in Files /\ check \in Checks /\ verdict \in Verdicts
  BY DEF CheckIInv, TableIsRecorded, CheckShape, NoCheck
<1>1. CASE UNCHANGED checkVars
  BY <1>0, <1>1 DEF CheckIInv, checkVars, TableIsRecorded, Record, CheckShape, ReadWhatWasSeen,
                    BusWhenShortened, ByteAt, ValidWasRead, UndisturbedIsExact
<1>2. ASSUME NEW names \in [1 .. 2 -> Records], NEW contents \in [1 .. 2 -> Files],
             LoadChecksums(names, contents)
      PROVE  CheckIInv'
  <2>1. /\ checksums' = [filled |-> TRUE, entry |-> [i \in 1 .. 2 |-> Record(names[i], contents[i])]]
        /\ recorded' = contents /\ UNCHANGED <<file, writes, check, verdict>>
        /\ check = NoCheck /\ verdict = NoVerdict
    BY <1>0, <1>2 DEF LoadChecksums, TableIsRecorded
  <2>2. TableIsRecorded'
    <3>1. DOMAIN recorded' = 1 .. 2 /\ DOMAIN checksums'.entry = 1 .. 2
      BY <2>1
    <3>2. checksums'.filled = TRUE
      BY <2>1, Zenon
    <3>3. checksums'.filled \in BOOLEAN
      BY <3>2, Zenon
    <3>4. \A i \in 1 .. 2 : checksums'.entry[i] = Record(names[i], recorded'[i]) /\ names[i] \in Records
      BY <2>1
    <3>5. \A i \in DOMAIN recorded' : \E name \in Records :
            checksums'.entry[i] = Record(name, recorded'[i])
      BY <3>1, <3>4, Zenon
    <3> QED  BY <2>1, <3>1, <3>2, <3>3, <3>5, Zenon DEF TableIsRecorded, Record
  <2>3. verdict.cs = 0 /\ check.at = "none"
    BY <2>1 DEF NoVerdict, NoCheck
  <2>4. CheckShape' /\ ReadWhatWasSeen'
    BY <1>0, <2>1, <2>3 DEF CheckShape, ReadWhatWasSeen, BusWhenShortened, ByteAt, NoCheck
  <2>5. ValidWasRead' /\ UndisturbedIsExact'
    BY <2>1 DEF ValidWasRead, UndisturbedIsExact, NoVerdict
  <2> QED  BY <2>2, <2>4, <2>5 DEF CheckIInv
<1>3. ASSUME NEW f \in Files, WriteFile(f)
      PROVE  CheckIInv'
  <2>1. /\ file' = f /\ checksums' = checksums /\ recorded' = recorded /\ verdict' = verdict
        /\ writes < MaxWrites /\ writes' = writes + 1
        /\ check' = IF check.at = "none" THEN check ELSE [check EXCEPT !.seen = @ \cup {f}]
    BY <1>3 DEF WriteFile
  <2>2. /\ check'.at = check.at /\ check'.cs = check.cs /\ check'.len = check.len
        /\ check'.read = check.read /\ check' \in Checks
        /\ check'.seen = IF check.at = "none" THEN check.seen ELSE check.seen \cup {f}
        /\ check.at = "none" => check' = check
    BY <1>0, <2>1 DEF Checks
  <2>3. TableIsRecorded'
    BY <1>0, <2>1, <2>2 DEF TableIsRecorded, Record, NoCheck
  <2>4. CheckShape'
    <3>1. writes' \in 0 .. MaxWrites
      BY <1>0, <2>1, CheckAssumption DEF CheckShape
    <3> QED  BY <1>0, <2>1, <2>2, <3>1 DEF CheckShape
  <2>5. ReadWhatWasSeen'
    <3>1. check.seen \subseteq check'.seen
      BY <2>2
    <3>2. \A i \in DOMAIN check'.read : \E g \in check'.seen : check'.read[i] = ByteAt(g, i)
      BY <1>0, <2>2, <3>1 DEF ReadWhatWasSeen
    <3>3. BusWhenShortened'
      BY <1>0, <2>2, <3>1 DEF ReadWhatWasSeen, BusWhenShortened
    <3>4. check'.at \in {"hash", "bus"} => \E g \in check'.seen : check'.len = Len(g)
      BY <1>0, <2>2, <3>1 DEF ReadWhatWasSeen
    <3>5. /\ check'.at = "none" => check' = NoCheck
          /\ check'.at # "none" => check'.cs \in DOMAIN recorded' /\ file' \in check'.seen
          /\ check'.at \in {"none", "map"} => check'.read = <<>>
          /\ Len(check'.read) <= check'.len
      BY <1>0, <2>1, <2>2 DEF ReadWhatWasSeen
    <3> QED  BY <3>2, <3>3, <3>4, <3>5 DEF ReadWhatWasSeen, NoCheck, ByteAt
  <2>6. ValidWasRead' /\ UndisturbedIsExact'
    BY <1>0, <2>1 DEF ValidWasRead, UndisturbedIsExact, ByteAt
  <2> QED  BY <2>3, <2>4, <2>5, <2>6 DEF CheckIInv
<1>4. ASSUME NEW name \in Records, CheckFile(name)
      PROVE  CheckIInv'
  <2>1. checksums.filled /\ check = NoCheck /\ UNCHANGED <<checksums, recorded, file, writes>>
    BY <1>4 DEF CheckFile
  <2>2. CASE findChecksum(name) = 0
    <3>1. Returns(FALSE, 0, TRUE)
      BY <1>4, <2>2 DEF CheckFile
    <3>2. Just(FALSE, 0, check.read, check.seen)
      BY DEF Just
    <3> QED  BY <2>1, <3>1, <3>2, ReturnIsJust
  <2>3. CASE findChecksum(name) # 0
    <3> DEFINE cs == findChecksum(name)
    <3>1. cs \in DOMAIN recorded /\ cs \in Nat
      BY <1>0, <2>1, <2>3, FoundIsThere
    <3>2. check' = [NoCheck EXCEPT !.at = "map", !.cs = cs, !.seen = {file}] /\ verdict' = NoVerdict
      BY <1>4, <2>3 DEF CheckFile
    <3> HIDE DEF cs
    <3>3. check' = [at |-> "map", cs |-> cs, len |-> 0, read |-> <<>>, seen |-> {file}]
      BY <3>2 DEF NoCheck
    <3>4. TableIsRecorded'
      BY <1>0, <2>1 DEF TableIsRecorded, Record
    <3>5. CheckShape'
      <4>1. check' \in Checks
        BY <1>0, <3>1, <3>3 DEF Checks
      <4>2. verdict' \in Verdicts /\ verdict'.cs = 0
        BY <3>2 DEF NoVerdict, Verdicts
      <4> QED  BY <1>0, <2>1, <4>1, <4>2 DEF CheckShape
    <3>6. ReadWhatWasSeen'
      BY <2>1, <3>1, <3>3 DEF ReadWhatWasSeen, BusWhenShortened
    <3>7. ValidWasRead' /\ UndisturbedIsExact'
      BY <3>2 DEF ValidWasRead, UndisturbedIsExact, NoVerdict
    <3> QED  BY <3>4, <3>5, <3>6, <3>7 DEF CheckIInv
  <2> QED  BY <2>2, <2>3
<1>5. CASE MapFile
  <2>1. check.at = "map" /\ checksums.filled /\ UNCHANGED <<checksums, recorded, file, writes>>
    BY <1>0, <1>5 DEF MapFile
  <2>2. CASE Returns(FALSE, check.cs, FALSE)
    <3>1. check.cs \in Nat /\ check.cs \in DOMAIN recorded
      BY <1>0, <2>1 DEF Checks, ReadWhatWasSeen
    <3>2. Just(FALSE, check.cs, check.read, check.seen)
      BY DEF Just
    <3> QED  BY <2>1, <2>2, <3>1, <3>2, ReturnIsJust
  <2>3. CASE check' = [check EXCEPT !.at = "hash", !.len = Len(file)] /\ UNCHANGED verdict
    <3>0. Len(file) \in Nat /\ check.read = <<>> /\ check.cs \in DOMAIN recorded /\ file \in check.seen
      BY <1>0, <2>1, CheckAssumption DEF ReadWhatWasSeen
    <3>1. /\ check' = [at |-> "hash", cs |-> check.cs, len |-> Len(file), read |-> <<>>,
                       seen |-> check.seen]
          /\ check' \in Checks
      BY <1>0, <2>3, <3>0 DEF Checks
    <3>2. TableIsRecorded'
      BY <1>0, <2>1 DEF TableIsRecorded, Record
    <3>3. CheckShape'
      BY <1>0, <2>1, <2>3, <3>1 DEF CheckShape
    <3>4. ReadWhatWasSeen'
      BY <2>1, <3>0, <3>1 DEF ReadWhatWasSeen, BusWhenShortened
    <3>5. ValidWasRead' /\ UndisturbedIsExact'
      BY <1>0, <2>1, <2>3 DEF ValidWasRead, UndisturbedIsExact, ByteAt
    <3> QED  BY <3>2, <3>3, <3>4, <3>5 DEF CheckIInv
  <2> QED  BY <1>5, <2>2, <2>3 DEF MapFile
<1>6. CASE HashByte
  <2> DEFINE i == Len(check.read) + 1
  <2>1. /\ check.at = "hash" /\ Len(check.read) < check.len /\ checksums.filled
        /\ UNCHANGED <<checksums, recorded, file, writes, verdict>>
        /\ check' = IF NoPage(i) THEN [check EXCEPT !.at = "bus"]
                    ELSE [check EXCEPT !.read = Append(@, ByteAt(file, i))]
    BY <1>0, <1>6 DEF HashByte
  <2>2. /\ check.read \in Seq(Nat) /\ i \in Nat \ {0} /\ i <= check.len /\ check.len \in Nat
        /\ file \in Seq(Nat) /\ Len(file) \in Nat
        /\ check.cs \in DOMAIN recorded /\ file \in check.seen
    BY <1>0, <2>1, CheckAssumption DEF Checks, ReadWhatWasSeen
  <2>3. TableIsRecorded'
    BY <1>0, <2>1 DEF TableIsRecorded, Record
  <2>4. ValidWasRead' /\ UndisturbedIsExact'
    BY <1>0, <2>1 DEF ValidWasRead, UndisturbedIsExact, ByteAt
  <2>5. PICK g \in check.seen : check.len = Len(g)
    BY <1>0, <2>1 DEF ReadWhatWasSeen
  <2>6. CASE NoPage(i)
    <3>1. /\ check'.at = "bus" /\ check'.cs = check.cs /\ check'.len = check.len
          /\ check'.read = check.read /\ check'.seen = check.seen /\ check' \in Checks
      BY <1>0, <2>1, <2>6 DEF Checks
    <3>2. Len(file) < Len(g)
      <4>1. Len(file) < i
        BY <2>2, <2>6, BehindTheEnd
      <4> QED  BY <2>2, <2>5, <4>1
    <3>3. ReadWhatWasSeen'
      <4>1. BusWhenShortened'
        BY <2>2, <2>5, <3>1, <3>2 DEF BusWhenShortened
      <4> QED  BY <1>0, <2>1, <2>2, <2>5, <3>1, <4>1 DEF ReadWhatWasSeen, ByteAt
    <3>4. CheckShape'
      BY <1>0, <2>1, <3>1 DEF CheckShape
    <3> QED  BY <2>3, <2>4, <3>3, <3>4 DEF CheckIInv
  <2>7. CASE ~NoPage(i)
    <3> DEFINE b == ByteAt(file, i)
    <3>1. b \in Nat
      BY <2>2 DEF ByteAt
    <3>2. check' = [check EXCEPT !.read = Append(@, b)]
      BY <2>1, <2>7
    <3> HIDE DEF b
    <3>3. /\ check'.at = check.at /\ check'.cs = check.cs /\ check'.len = check.len
          /\ check'.read = Append(check.read, b) /\ check'.seen = check.seen /\ check' \in Checks
      <4> DEFINE more == Append(check.read, b)
      <4>1. more \in Seq(Nat) /\ check' = [check EXCEPT !.read = more]
        BY <2>2, <3>1, <3>2
      <4> HIDE DEF more
      <4>2. /\ check'.at = check.at /\ check'.cs = check.cs /\ check'.len = check.len
            /\ check'.read = more /\ check'.seen = check.seen /\ check' \in Checks
        BY <1>0, <4>1 DEF Checks
      <4> QED  BY <4>2 DEF more
    <3>4. /\ Len(check'.read) = i /\ DOMAIN check'.read = 1 .. i /\ check'.read[i] = b
          /\ \A j \in 1 .. i - 1 : check'.read[j] = check.read[j] /\ j \in DOMAIN check.read
      BY <2>2, <3>1, <3>3
    <3>5. \A j \in DOMAIN check'.read : \E f \in check'.seen : check'.read[j] = ByteAt(f, j)
      <4> SUFFICES ASSUME NEW j \in 1 .. i
                   PROVE  \E f \in check.seen : check'.read[j] = ByteAt(f, j)
        BY <3>3, <3>4
      <4>1. CASE j = i
        BY <2>2, <3>4, <4>1 DEF b
      <4>2. CASE j # i
        <5>1. j \in 1 .. i - 1
          BY <2>2, <4>2
        <5>2. \A k \in DOMAIN check.read : \E f \in check.seen : check.read[k] = ByteAt(f, k)
          BY <1>0 DEF ReadWhatWasSeen
        <5> QED  BY <3>4, <5>1, <5>2
      <4> QED  BY <4>1, <4>2
    <3>6. ReadWhatWasSeen'
      <4>1. BusWhenShortened'
        BY <2>1, <3>3 DEF BusWhenShortened
      <4>2. /\ check'.at = "hash" /\ check'.cs \in DOMAIN recorded' /\ file' \in check'.seen
            /\ Len(check'.read) <= check'.len /\ \E f \in check'.seen : check'.len = Len(f)
        BY <2>1, <2>2, <2>5, <3>3, <3>4
      <4> QED  BY <3>5, <4>1, <4>2 DEF ReadWhatWasSeen, ByteAt
    <3>7. CheckShape'
      BY <1>0, <2>1, <3>3 DEF CheckShape
    <3> QED  BY <2>3, <2>4, <3>6, <3>7 DEF CheckIInv
  <2> QED  BY <2>6, <2>7
<1>7. CASE CompareFile
  <2> DEFINE cs == check.cs
             r == recorded[cs]
             sum == HashOf(check.read)
             valid == Matching(checksums.entry[cs], sum)
  <2>1. /\ check.at = "hash" /\ Len(check.read) = check.len /\ checksums.filled
        /\ UNCHANGED <<checksums, recorded, file, writes>>
        /\ Returns(valid, cs, TRUE) /\ cs \in DOMAIN recorded /\ cs \in Nat
    BY <1>0, <1>7 DEF CompareFile, ReadWhatWasSeen, Checks
  <2>2. valid <=> sum # 0 /\ Len(r) = check.len /\ HashOf(r) = sum
    <3>1. PICK name \in Records : checksums.entry[cs] = Record(name, r)
      BY <1>0, <2>1 DEF TableIsRecorded
    <3>2. checksums.entry[cs].fileLen = Len(r) /\ checksums.entry[cs].file = HashOf(r)
      BY <3>1 DEF Record
    <3> QED  BY <3>2, Zenon DEF Matching
  <2>3. valid \in BOOLEAN
    BY DEF Matching
  <2>4. PICK g \in check.seen : check.len = Len(g)
    BY <1>0, <2>1 DEF ReadWhatWasSeen
  <2>5. \A i \in DOMAIN check.read : \E f \in check.seen : check.read[i] = ByteAt(f, i)
    BY <1>0 DEF ReadWhatWasSeen
  <2>6. Just(valid, cs, check.read, check.seen)
    <3> SUFFICES ASSUME valid
                 PROVE  /\ Len(check.read) = Len(r) /\ sum = HashOf(r)
                        /\ \E f \in check.seen : Len(f) = Len(r)
      BY <2>5, Zenon DEF Just
    <3> QED  BY <2>1, <2>2, <2>4, Zenon
  <2>7. Exact(valid, cs, check.seen)
    <3> SUFFICES ASSUME NEW f \in check.seen, check.seen = {f}
                 PROVE  valid <=> Len(f) = Len(r) /\ HashOf(f) = HashOf(r) /\ HashOf(f) # 0
      BY Zenon DEF Exact
    <3>1. f \in Seq(Nat) /\ check.read \in Seq(Nat) /\ Len(check.read) = Len(f)
      BY <1>0, <2>1, <2>4, CheckAssumption DEF Checks
    <3>2. \A i \in 1 .. Len(f) : check.read[i] = f[i]
      BY <2>5, <3>1 DEF ByteAt
    <3>3. check.read = f
      BY <3>1, <3>2, SeqEqual
    <3>4. sum = HashOf(f) /\ check.len = Len(f)
      BY <2>1, <3>3, Zenon
    <3> QED  BY <2>2, <3>4, Zenon
  <2> HIDE DEF valid, cs
  <2> QED  BY <2>1, <2>3, <2>6, <2>7, ReturnIsJust
<1> QED  BY <1>1, <1>2, <1>3, <1>4, <1>5, <1>6, <1>7, CheckFrame DEF CheckNext, CheckStep

\* What is reported valid had the recorded length when it was mapped and gave
\* bytes of the recorded checksum, each of which it held; a file nobody changes is
\* reported valid exactly if it is as recorded, unless its checksum is 0; and only
\* a file that was shortened kills the process (integrityCheckerCheckFile()): for
\* any contents, any checksum, pages of any size and any writes meanwhile.
THEOREM VerdictsAreJust == LibrarySpec => []VerdictIsJust
<1>1. LibrarySpec => []CheckIInv
  BY CheckStarts, CheckGoesOn, PTL DEF LibrarySpec
<1>2. CheckIInv => VerdictIsJust
  BY DEF CheckIInv, ReadWhatWasSeen, VerdictIsJust
<1> QED  BY <1>1, <1>2, PTL

LEMMA ChecksAreTyped == CheckIInv => CheckTypeOK
<1> SUFFICES ASSUME CheckIInv PROVE CheckTypeOK
  OBVIOUS
<1>0. TableIsRecorded /\ CheckShape /\ ReadWhatWasSeen
  BY DEF CheckIInv
<1>1. recorded \in Seq(Files) /\ (checksums.filled <=> recorded # <<>>)
  <2>0. checksums.filled = TRUE \/ checksums.filled = FALSE
    BY <1>0, Zenon DEF TableIsRecorded
  <2>1. ASSUME checksums.filled = TRUE
        PROVE  recorded \in Seq(Files) /\ recorded # <<>>
    <3>1. recorded \in [1 .. 2 -> Files]
      BY <1>0, <2>1, Zenon DEF TableIsRecorded
    <3>2. ASSUME NEW f \in [1 .. 2 -> Files] PROVE f \in Seq(Files) /\ f # <<>>
      OBVIOUS
    <3> QED  BY <3>1, <3>2, Zenon
  <2>2. ASSUME checksums.filled = FALSE
        PROVE  recorded = <<>>
    BY <1>0, <2>2, Zenon DEF TableIsRecorded
  <2>3. <<>> \in Seq(Files)
    OBVIOUS
  <2> QED  BY <2>0, <2>1, <2>2, <2>3, Zenon
<1>2. /\ checksums.filled \in BOOLEAN /\ DOMAIN checksums.entry = DOMAIN recorded
      /\ \A i \in DOMAIN recorded : \E name \in Records :
           checksums.entry[i] = Record(name, recorded[i])
  BY <1>0, Zenon DEF TableIsRecorded
<1>3. /\ check \in [at : {"none", "map", "hash", "bus"}, cs : Nat, len : Nat,
                   read : Seq(Nat), seen : SUBSET Files]
      /\ verdict \in [known : BOOLEAN, valid : BOOLEAN, cs : Nat, mapped : BOOLEAN,
                     read : Seq(Nat), seen : SUBSET Files]
      /\ file \in Files /\ writes \in 0 .. MaxWrites
      /\ verdict.cs # 0 => verdict.cs \in DOMAIN recorded
  BY <1>0, Zenon DEF CheckShape, Checks, Verdicts
<1>4. /\ check.at # "none" => check.cs \in DOMAIN recorded /\ file \in check.seen
      /\ Len(check.read) <= check.len
  BY <1>0, Zenon DEF ReadWhatWasSeen
<1> QED  BY <1>1, <1>2, <1>3, <1>4, Zenon DEF CheckTypeOK

-----------------------------------------------------------------------------
(* The capabilities and the lookups *)

Objects == [uid : Ids, gid : Ids, caps : [Fields -> [0 .. 1 -> SUBSET (0 .. WordBits - 1)]]]
Lookups == [kind : Kinds, name : Names, buflen : Nat]
Database == [Kinds -> [Names -> Entries \cup {NoEntry}]]
Answers == [fn : {"none", "keep", "check", "resolve"}, cap : Capabilities,
            result : BOOLEAN, failed : BOOLEAN]

CapTyped ==
  /\ process \in Processes /\ object \in Objects /\ database \in Database
  /\ lookup = Idle \/ lookup \in Lookups
  /\ edits \in 0 .. MaxEdits
  /\ kept \subseteq Capabilities
  /\ wanted \in [Kinds -> SUBSET Ids] /\ answer \in Answers

LEMMA NothingAnswered == NoAnswer \in Answers
<1>1. 0 \in Capabilities
  BY CapabilityAssumption DEF Capabilities
<1> QED  BY <1>1 DEF NoAnswer, Answers

\* The object has the id of the last lookup that found one, or 0 for none.
LastIsConfigured ==
  \A k \in Kinds : (wanted[k] = {} /\ object[k] = 0) \/ wanted[k] = {object[k]}

CapIInv ==
  CapTyped /\ LastIsConfigured /\ KeptExactly /\ CheckedRight /\ BufferBounded

LEMMA CapStarts == LibraryInit => CapIInv
<1> SUFFICES ASSUME LibraryInit PROVE CapIInv
  OBVIOUS
<1>1. /\ process \in Processes /\ edits = 0 /\ lookup = Idle /\ kept = {} /\ answer = NoAnswer
      /\ object = [uid |-> 0, gid |-> 0, caps |-> [f \in Fields |-> [i \in 0 .. 1 |-> {}]]]
      /\ database = [k \in Kinds |-> [n \in Names |-> NoEntry]]
      /\ wanted = [k \in Kinds |-> {}]
  BY DEF LibraryInit, CapInit
<1>2. CapTyped
  <2>1. object \in Objects
    BY <1>1, CapabilityAssumption DEF Objects
  <2>2. database \in Database
    BY <1>1 DEF Database
  <2>3. wanted \in [Kinds -> SUBSET Ids]
    BY <1>1
  <2> QED  BY <1>1, <2>1, <2>2, <2>3, NothingAnswered, CapabilityAssumption DEF CapTyped
<1>3. LastIsConfigured
  BY <1>1 DEF LastIsConfigured, Kinds
<1>4. KeptExactly
  BY <1>1 DEF KeptExactly, capget
<1>5. CheckedRight
  BY <1>1 DEF CheckedRight, NoAnswer
<1>6. BufferBounded
  BY <1>1, CapabilityAssumption DEF BufferBounded, Idle
<1> QED  BY <1>2, <1>3, <1>4, <1>5, <1>6 DEF CapIInv

\* Keeping a capability sets its bit in the words capget() gives, and no other.
LEMMA BitOfWord ==
  ASSUME NEW caps \in SUBSET Capabilities, NEW cap \in Capabilities, NEW i \in 0 .. 1
  PROVE  capget(caps \cup {cap})[i] =
           IF i = WordAndBit(cap).word THEN capget(caps)[i] \cup {WordAndBit(cap).bit}
           ELSE capget(caps)[i]
<1>0. WordBits \in Nat /\ WordBits > 0 /\ cap \in Nat /\ cap < 2 * WordBits
  BY CapabilityAssumption DEF Capabilities
<1>1. ASSUME NEW c, NEW b
      PROVE  b \in capget(c)[i] <=> b \in 0 .. WordBits - 1 /\ b + i * WordBits \in c
  BY DEF capget
<1>2. i * WordBits = IF i = 0 THEN 0 ELSE WordBits
  BY <1>0
<1>3. /\ WordAndBit(cap).word = (IF cap >= WordBits THEN 1 ELSE 0)
      /\ WordAndBit(cap).bit = (IF cap >= WordBits THEN cap - WordBits ELSE cap)
  BY DEF WordAndBit
<1>4. ASSUME NEW b \in 0 .. WordBits - 1
      PROVE  b + i * WordBits = cap
               <=> i = WordAndBit(cap).word /\ b = WordAndBit(cap).bit
  BY <1>0, <1>2, <1>3
<1>5. WordAndBit(cap).bit \in 0 .. WordBits - 1
  BY <1>0, <1>3
<1> DEFINE w == WordAndBit(cap).word
           t == WordAndBit(cap).bit
           n == i * WordBits
<1>6. ASSUME NEW b
      PROVE  b \in capget(caps \cup {cap})[i]
               <=> b \in IF i = w THEN capget(caps)[i] \cup {t} ELSE capget(caps)[i]
  <2>1. /\ b \in capget(caps \cup {cap})[i] <=> b \in 0 .. WordBits - 1 /\ b + n \in caps \cup {cap}
        /\ b \in capget(caps)[i] <=> b \in 0 .. WordBits - 1 /\ b + n \in caps
        /\ b \in 0 .. WordBits - 1 => (b + n = cap <=> i = w /\ b = t)
        /\ t \in 0 .. WordBits - 1
    BY <1>1, <1>4, <1>5
  <2> HIDE DEF w, t, n
  <2>2. CASE i = w
    BY <2>1, <2>2
  <2>3. CASE i # w
    BY <2>1, <2>3
  <2> QED  BY <2>2, <2>3
<1> HIDE DEF w, t
<1>7. capget(caps \cup {cap})[i] = IF i = w THEN capget(caps)[i] \cup {t} ELSE capget(caps)[i]
  BY <1>6
<1> QED  BY <1>7 DEF w, t

LEMMA KeepHolds ==
  ASSUME CapIInv, NEW cap \in Capabilities, keep_capability(cap)
  PROVE  CapIInv'
<1> DEFINE at == WordAndBit(cap)
<1>0. /\ WordBits \in Nat /\ WordBits > 0 /\ cap \in Capabilities
      /\ at.word \in 0 .. 1 /\ at.bit \in 0 .. WordBits - 1
  BY CapabilityAssumption DEF Capabilities, WordAndBit
<1>1. /\ object' = [object EXCEPT !.caps =
           [f \in Fields |-> [object.caps[f] EXCEPT ![at.word] = @ \cup {at.bit}]]]
      /\ kept' = kept \cup {cap} /\ answer' = [NoAnswer EXCEPT !.fn = "keep", !.cap = cap, !.result = TRUE]
      /\ UNCHANGED <<process, database, edits, lookup, wanted>>
  BY DEF keep_capability
<1> HIDE DEF at
<1>2. object \in Objects /\ kept \subseteq Capabilities
  BY DEF CapIInv, CapTyped
<1>3. /\ object'.uid = object.uid /\ object'.gid = object.gid /\ object' \in Objects
      /\ object'.caps = [f \in Fields |-> [object.caps[f] EXCEPT ![at.word] = @ \cup {at.bit}]]
  <2> DEFINE new == [f \in Fields |-> [object.caps[f] EXCEPT ![at.word] = @ \cup {at.bit}]]
  <2>1. object' = [object EXCEPT !.caps = new]
    BY <1>1, Zenon
  <2>2. \A f \in Fields : object.caps[f] \in [0 .. 1 -> SUBSET (0 .. WordBits - 1)]
    BY <1>2 DEF Objects
  <2>3. new \in [Fields -> [0 .. 1 -> SUBSET (0 .. WordBits - 1)]]
    <3> SUFFICES ASSUME NEW f \in Fields
                 PROVE  [object.caps[f] EXCEPT ![at.word] = @ \cup {at.bit}]
                          \in [0 .. 1 -> SUBSET (0 .. WordBits - 1)]
      OBVIOUS
    <3>1. object.caps[f][at.word] \cup {at.bit} \in SUBSET (0 .. WordBits - 1)
      BY <1>0, <2>2
    <3> QED  BY <1>0, <2>2, <3>1
  <2> HIDE DEF new
  <2>4. object' \in Objects /\ object'.caps = new /\ object'.uid = object.uid /\ object'.gid = object.gid
    BY <1>2, <2>1, <2>3 DEF Objects
  <2> QED  BY <2>4 DEF new
<1>4. CapTyped'
  <2>1. answer' \in Answers
    BY <1>1, NothingAnswered DEF Answers
  <2> QED  BY <1>0, <1>1, <1>3, <2>1 DEF CapIInv, CapTyped
<1>5. LastIsConfigured'
  <2>1. object'["uid"] = object["uid"] /\ object'["gid"] = object["gid"]
    BY <1>3
  <2> QED  BY <1>1, <2>1 DEF CapIInv, LastIsConfigured, Kinds
<1>6. KeptExactly'
  <2> SUFFICES ASSUME NEW f \in Fields PROVE object'.caps[f] = capget(kept')
    BY DEF KeptExactly, capget
  <2>1. object.caps[f] = capget(kept)
    BY DEF CapIInv, KeptExactly
  <2>2. object'.caps[f] = [capget(kept) EXCEPT ![at.word] = @ \cup {at.bit}]
    BY <1>3, <2>1
  <2>3. DOMAIN capget(kept) = 0 .. 1 /\ DOMAIN capget(kept') = 0 .. 1
    BY DEF capget
  <2>4. \A i \in 0 .. 1 : capget(kept')[i] = object'.caps[f][i]
    <3> SUFFICES ASSUME NEW i \in 0 .. 1 PROVE capget(kept')[i] = object'.caps[f][i]
      OBVIOUS
    <3>1. capget(kept \cup {cap})[i] =
            IF i = at.word THEN capget(kept)[i] \cup {at.bit} ELSE capget(kept)[i]
      <4>1. kept \in SUBSET Capabilities /\ cap \in Capabilities
        BY <1>0, <1>2
      <4>2. capget(kept \cup {cap})[i] =
              IF i = WordAndBit(cap).word THEN capget(kept)[i] \cup {WordAndBit(cap).bit}
              ELSE capget(kept)[i]
        BY <4>1, BitOfWord
      <4> QED  BY <4>2 DEF at
    <3>2. object'.caps[f][i] = IF i = at.word THEN capget(kept)[i] \cup {at.bit} ELSE capget(kept)[i]
      BY <2>2, <2>3
    <3> QED  BY <1>1, <3>1, <3>2
  <2>5. DOMAIN object'.caps[f] = 0 .. 1
    BY <2>2, <2>3
  <2>6. capget(kept') = [i \in 0 .. 1 |-> capget(kept')[i]]
    BY DEF capget
  <2>7. object'.caps[f] = [i \in 0 .. 1 |-> object'.caps[f][i]]
    BY <1>3, <2>5 DEF Objects
  <2> QED  BY <2>4, <2>6, <2>7
<1>7. CheckedRight'
  BY <1>1 DEF CheckedRight, NoAnswer
<1>8. BufferBounded'
  BY <1>1 DEF CapIInv, BufferBounded
<1> QED  BY <1>1, <1>4, <1>5, <1>6, <1>7, <1>8 DEF CapIInv

\* The answer of a check, in the state the object was configured to.
LEMMA CheckHolds ==
  ASSUME CapIInv, NEW cap \in Capabilities, NEW fails \in BOOLEAN,
         capabilitiesCheck(cap, fails)
  PROVE  CapIInv'
<1>1. /\ answer' = [fn |-> "check", cap |-> cap, failed |-> fails,
                    result |-> (cap = CAP_CHOWN /\ OwnerStays(fails)) \/ Held(cap, fails)]
      /\ UNCHANGED <<process, object, database, edits, lookup, kept, wanted>>
  BY DEF capabilitiesCheck
<1> DEFINE groups == IF fails THEN {} ELSE process.groups
<1>2. /\ answer'.cap = cap /\ answer'.failed = fails
      /\ answer'.result <=> (cap = CAP_CHOWN /\ OwnerStays(fails)) \/ Held(cap, fails)
      /\ answer' \in Answers
  <2> DEFINE res == (cap = CAP_CHOWN /\ OwnerStays(fails)) \/ Held(cap, fails)
  <2>1. res \in BOOLEAN
    BY Zenon
  <2>2. answer' = [fn |-> "check", cap |-> cap, failed |-> fails, result |-> res]
    BY <1>1
  <2> HIDE DEF res
  <2>3. answer'.cap = cap /\ answer'.failed = fails /\ answer'.result = res /\ answer' \in Answers
    BY <2>1, <2>2 DEF Answers
  <2> QED  BY <2>3, Zenon DEF res
<1>3. Held(cap, fails) <=> ~fails /\ cap \in process.permitted
  <2>1. WordBits \in Nat /\ WordBits > 0 /\ cap \in Nat /\ cap < 2 * WordBits
    BY CapabilityAssumption DEF Capabilities
  <2>2. /\ WordAndBit(cap).word = (IF cap >= WordBits THEN 1 ELSE 0)
        /\ WordAndBit(cap).bit = (IF cap >= WordBits THEN cap - WordBits ELSE cap)
    BY DEF WordAndBit
  <2> DEFINE w == WordAndBit(cap).word
             t == WordAndBit(cap).bit
  <2>3. w \in 0 .. 1 /\ t \in 0 .. WordBits - 1 /\ t + w * WordBits = cap
    BY <2>1, <2>2
  <2> HIDE DEF w, t
  <2>4. t \in capget(process.permitted)[w] <=> cap \in process.permitted
    BY <2>3 DEF capget
  <2>5. Held(cap, fails) <=> ~fails /\ t \in capget(process.permitted)[w]
    BY Zenon DEF Held, w, t
  <2> QED  BY <2>4, <2>5, Zenon
<1>4. /\ (wanted["uid"] = {} /\ object.uid = 0) \/ wanted["uid"] = {object.uid}
      /\ (wanted["gid"] = {} /\ object.gid = 0) \/ wanted["gid"] = {object.gid}
  BY DEF CapIInv, LastIsConfigured, Kinds
<1>5. OwnerStays(fails) <=> TakenForAllowed(groups)
  <2>1. has_group(object.gid, fails) <=> object.gid \in {process.egid} \cup groups
    BY DEF has_group
  <2> HIDE DEF groups
  <2>2. object.uid = 0 \/ process.euid = object.uid <=> wanted["uid"] \subseteq {0, process.euid}
    BY <1>4
  <2>3. object.gid = 0 \/ has_group(object.gid, fails)
          <=> wanted["gid"] \subseteq {0, process.egid} \cup groups
    BY <1>4, <2>1
  <2> QED  BY <2>2, <2>3, Zenon DEF OwnerStays, TakenForAllowed
<1>6. process' = process /\ wanted' = wanted
  BY <1>1
<1>7. CheckedRight'
  <2>1. (IF answer'.failed THEN {} ELSE process'.groups) = groups
    BY <1>2, <1>6, Zenon
  <2>2. TakenForAllowed(groups)' <=> TakenForAllowed(groups)
    BY <1>6, Zenon DEF TakenForAllowed
  <2> QED  BY <1>2, <1>3, <1>5, <1>6, <2>1, <2>2, Zenon DEF CheckedRight, TakenForAllowed
<1>8. CapTyped' /\ LastIsConfigured' /\ KeptExactly' /\ BufferBounded'
  BY <1>1, <1>2 DEF CapIInv, CapTyped, LastIsConfigured, KeptExactly, capget, BufferBounded
<1> QED  BY <1>7, <1>8 DEF CapIInv

\* The entry a lookup is about has an id, and a size among Sizes unless it is missing.
LEMMA EntryTyped ==
  ASSUME CapTyped, lookup # Idle
  PROVE  /\ lookup \in Lookups /\ Entry.id \in Ids
         /\ Entry.size = 0 \/ Entry.size \in Sizes
<1>1. lookup \in Lookups /\ database \in Database
  BY DEF CapTyped
<1>2. lookup.kind \in Kinds /\ lookup.name \in Names
  BY <1>1 DEF Lookups
<1>3. Entry \in Entries \cup {NoEntry}
  BY <1>1, <1>2 DEF Entry, Database
<1> QED  BY <1>1, <1>3, CapabilityAssumption DEF Entries, NoEntry

LEMMA ResolveHolds ==
  ASSUME CapIInv, ResolveStep \/ ResolveError
  PROVE  CapIInv'
<1>0. /\ CapTyped /\ LastIsConfigured /\ KeptExactly /\ CheckedRight /\ BufferBounded
      /\ lookup # Idle
  BY DEF CapIInv, ResolveStep, ResolveRetry, ResolveFound, ResolveMissing, ResolveError
<1>00. /\ lookup \in Lookups /\ lookup.buflen \in Nat /\ lookup.kind \in Kinds
       /\ Entry.id \in Ids
       /\ Entry.size = 0 \/ Entry.size \in Sizes
  BY <1>0, EntryTyped DEF Lookups
<1>1. CASE ResolveRetry
  <2>1. /\ lookup' = [lookup EXCEPT !.buflen = 2 * lookup.buflen]
        /\ UNCHANGED <<process, object, database, edits, kept, wanted, answer>>
        /\ Entry.size > lookup.buflen
    BY <1>1 DEF ResolveRetry, Grown, TooSmall
  <2>2. lookup' \in Lookups /\ lookup'.buflen = 2 * lookup.buflen
    BY <1>00, <2>1 DEF Lookups
  <2>3. BufferBounded'
    <3> SUFFICES ASSUME NEW size \in Sizes, \A s \in Sizes : s <= size
                 PROVE  lookup'.buflen < 2 * size
      BY DEF BufferBounded
    <3>1. Entry.size \in Sizes /\ Entry.size <= size /\ Entry.size \in Nat /\ size \in Nat
      BY <1>00, <2>1, CapabilityAssumption
    <3> QED  BY <1>00, <2>1, <2>2, <3>1
  <2>4. CapTyped' /\ LastIsConfigured'
    BY <1>0, <2>1, <2>2 DEF CapTyped, LastIsConfigured
  <2>5. KeptExactly' /\ CheckedRight'
    BY <1>0, <2>1 DEF KeptExactly, capget, CheckedRight, TakenForAllowed
  <2> QED  BY <2>3, <2>4, <2>5 DEF CapIInv
<1>2. CASE ResolveFound
  <2>1. /\ object' = Configured(object, lookup.kind, Entry.id)
        /\ wanted' = [wanted EXCEPT ![lookup.kind] = {Entry.id}]
        /\ answer' = [NoAnswer EXCEPT !.fn = "resolve", !.result = TRUE] /\ lookup' = Idle
        /\ UNCHANGED <<process, database, edits, kept>>
    BY <1>2 DEF ResolveFound
  <2>2. object \in Objects
    BY <1>0 DEF CapTyped
  <2>3. object' \in Objects /\ object'.caps = object.caps
    <3> DEFINE id == Entry.id
               C == [Fields -> [0 .. 1 -> SUBSET (0 .. WordBits - 1)]]
    <3>0. object \in [uid : Ids, gid : Ids, caps : C] /\ id \in Ids
      BY <1>00, <2>2 DEF Objects
    <3>1. CASE lookup.kind = "uid"
      <4>1. object' = [object EXCEPT !.uid = id]
        BY <2>1, <3>1 DEF Configured
      <4>2. object' \in [uid : Ids, gid : Ids, caps : C] /\ object'.caps = object.caps
        <5> HIDE DEF id, C
        <5> QED  BY <3>0, <4>1
      <4> QED  BY <4>2 DEF Objects
    <3>2. CASE lookup.kind = "gid"
      <4>1. object' = [object EXCEPT !.gid = id]
        BY <2>1, <3>2 DEF Configured
      <4>2. object' \in [uid : Ids, gid : Ids, caps : C] /\ object'.caps = object.caps
        <5> HIDE DEF id, C
        <5> QED  BY <3>0, <4>1
      <4> QED  BY <4>2 DEF Objects
    <3> QED  BY <1>00, <3>1, <3>2 DEF Kinds
  <2>4. \A k \in Kinds : object'[k] = (IF k = lookup.kind THEN Entry.id ELSE object[k])
    BY <1>00, <2>1, <2>2 DEF Configured, Objects, Kinds
  <2>5. LastIsConfigured'
    BY <1>0, <2>1, <2>4 DEF LastIsConfigured, CapTyped
  <2>6. CapTyped'
    <3>1. answer' \in Answers
      BY <2>1, NothingAnswered DEF Answers
    <3>2. wanted' \in [Kinds -> SUBSET Ids]
      BY <1>0, <1>00, <2>1 DEF CapTyped
    <3> QED  BY <1>0, <2>1, <2>3, <3>1, <3>2 DEF CapTyped
  <2>7. KeptExactly' /\ CheckedRight' /\ BufferBounded'
    <3>1. answer'.fn = "resolve"
      BY <2>1, NothingAnswered DEF Answers
    <3> QED  BY <1>0, <2>1, <2>3, <3>1, CapabilityAssumption
                DEF KeptExactly, capget, CheckedRight, BufferBounded, Idle
  <2> QED  BY <2>5, <2>6, <2>7 DEF CapIInv
<1>3. CASE ResolveMissing \/ ResolveError
  <2>1. /\ answer' = [NoAnswer EXCEPT !.fn = "resolve"] /\ lookup' = Idle
        /\ UNCHANGED <<process, object, database, edits, kept, wanted>>
    BY <1>3 DEF ResolveMissing, ResolveError, Unresolved
  <2>2. CapTyped' /\ LastIsConfigured'
    <3>1. answer' \in Answers
      BY <2>1, NothingAnswered DEF Answers
    <3> QED  BY <1>0, <2>1, <3>1 DEF CapTyped, LastIsConfigured
  <2>3. KeptExactly' /\ CheckedRight' /\ BufferBounded'
    <3>1. answer'.fn = "resolve"
      BY <2>1, NothingAnswered DEF Answers
    <3> QED  BY <1>0, <2>1, <3>1, CapabilityAssumption
                DEF KeptExactly, capget, CheckedRight, BufferBounded, Idle
  <2> QED  BY <2>2, <2>3 DEF CapIInv
<1> QED  BY <1>1, <1>2, <1>3 DEF ResolveStep

\* One step per action.
LEMMA CapGoesOn == CapIInv /\ [LibraryNext]_libraryVars => CapIInv'
<1> SUFFICES ASSUME CapIInv, [LibraryNext]_libraryVars PROVE CapIInv'
  OBVIOUS
<1>0. CapTyped /\ LastIsConfigured /\ KeptExactly /\ CheckedRight /\ BufferBounded
  BY DEF CapIInv
<1>1. CASE UNCHANGED capVars
  <2>1. CapTyped' /\ LastIsConfigured'
    BY <1>0, <1>1 DEF capVars, CapTyped, LastIsConfigured
  <2>2. KeptExactly' /\ BufferBounded'
    BY <1>0, <1>1 DEF capVars, KeptExactly, capget, BufferBounded
  <2>3. CheckedRight'
    BY <1>0, <1>1, Zenon DEF capVars, CheckedRight, TakenForAllowed
  <2> QED  BY <2>1, <2>2, <2>3 DEF CapIInv
<1>2. ASSUME NEW kind \in Kinds, NEW name \in Names, capabilitiesResolve(kind, name)
      PROVE  CapIInv'
  <2>1. /\ lookup' = [kind |-> kind, name |-> name, buflen |-> FirstBuf] /\ answer' = NoAnswer
        /\ UNCHANGED <<process, object, database, edits, kept, wanted>>
    BY <1>2 DEF capabilitiesResolve
  <2>2. lookup' \in Lookups
    BY <2>1, CapabilityAssumption DEF Lookups
  <2>3. CapTyped' /\ LastIsConfigured'
    BY <1>0, <2>1, <2>2, NothingAnswered DEF CapTyped, LastIsConfigured
  <2>4. KeptExactly' /\ CheckedRight' /\ BufferBounded'
    BY <1>0, <2>1, CapabilityAssumption
       DEF KeptExactly, capget, CheckedRight, NoAnswer, BufferBounded
  <2> QED  BY <2>3, <2>4 DEF CapIInv
<1>3. ASSUME NEW kind \in Kinds, NEW name \in Names, NEW entry \in Entries \cup {NoEntry},
             EditDatabase(kind, name, entry)
      PROVE  CapIInv'
  <2>1. /\ edits < MaxEdits /\ edits' = edits + 1
        /\ database' = [database EXCEPT ![kind][name] = entry]
        /\ UNCHANGED <<process, object, lookup, kept, wanted, answer>>
    BY <1>3 DEF EditDatabase
  <2>2. database' \in Database
    BY <1>0, <2>1 DEF CapTyped, Database
  <2>3. CapTyped'
    BY <1>0, <2>1, <2>2, CapabilityAssumption DEF CapTyped
  <2>4. LastIsConfigured' /\ KeptExactly' /\ CheckedRight' /\ BufferBounded'
    BY <1>0, <2>1 DEF LastIsConfigured, KeptExactly, capget, CheckedRight, TakenForAllowed, BufferBounded
  <2> QED  BY <2>3, <2>4 DEF CapIInv
<1> QED
  BY <1>1, <1>2, <1>3, KeepHolds, CheckHolds, ResolveHolds, CapFrame DEF CapNext

\* Whatever is kept, looked up and checked in any order, in databases that change
\* meanwhile: the words of the object hold what keep_capability() was asked to
\* keep and nothing else, and capabilitiesCheck() says of every capability
\* whether it is held, and of CAP_CHOWN also whether the configured user and
\* group are the process's own or 0, for words of any size.
THEOREM CapabilitiesAlwaysHold == LibrarySpec => []CapabilitiesHold
<1>1. LibrarySpec => []CapIInv
  BY CapStarts, CapGoesOn, PTL DEF LibrarySpec
<1>2. CapIInv => CapabilitiesHold
  BY DEF CapIInv, CapabilitiesHold
<1> QED  BY <1>1, <1>2, PTL

\* A lookup that succeeds configures the id it found and nothing else, one that
\* fails leaves what was there, and its buffer stays below twice the largest entry
\* (capabilitiesResolveUid(), capabilitiesResolveGid()).
THEOREM LookupsAreSound == LibrarySpec => []LookupIsSound
<1>1. LibrarySpec => []CapIInv
  BY CapStarts, CapGoesOn, PTL DEF LibrarySpec
<1>2. CapIInv => LookupIsSound
  BY DEF CapIInv, LastIsConfigured, LookupIsSound, ResolvedIsConfigured
<1> QED  BY <1>1, <1>2, PTL

LEMMA CapsAreTyped == CapIInv => CapTypeOK
<1> SUFFICES ASSUME CapTyped PROVE CapTypeOK
  BY DEF CapIInv
<1> QED  BY Zenon DEF CapTyped, CapTypeOK, Objects, Lookups, Database, Answers

-----------------------------------------------------------------------------
(* The backtraces *)

\* What backtraceCreate() copies is, by then, what was asked for; both are kept
\* as they were when it was taken.
FramesAreDue ==
  /\ stack \in Seq(Addresses)
  /\ frames = due /\ DOMAIN frames \subseteq Traces
  /\ \A t \in DOMAIN frames : frames[t] \in Seq(Frame) /\ Len(frames[t]) <= MaxFrames

\* An enumerator whose backtrace was not destroyed has given as many of the
\* frames as its place says.
Enumerators == [bt : Traces \cup {0}, stale : BOOLEAN, i : Nat, given : Seq(Frame)]
EnumeratorInStep ==
  /\ enumerator \in Enumerators /\ walk \in {"open", "ended", "fault"}
  /\ enumerator.bt = 0 => enumerator = NoEnumerator /\ walk = "open"
  /\ walk = "fault" => enumerator.stale
  /\ enumerator.bt \in Traces /\ ~enumerator.stale =>
       /\ enumerator.bt \in DOMAIN frames
       /\ enumerator.i \in 0 .. Len(frames[enumerator.bt])
       /\ enumerator.given = SubSeq(frames[enumerator.bt], 1, enumerator.i)
       /\ walk = "ended" => enumerator.i = Len(frames[enumerator.bt])

LEMMA NothingEnumerated == NoEnumerator \in Enumerators /\ NoEnumerator.bt \notin Traces
BY TraceAssumption DEF NoEnumerator, Enumerators

TraceIInv == FramesAreDue /\ EnumeratorInStep

\* The arithmetic of backtraceCreate(): cutting at MaxFrames and skipping gives
\* the frames from the skipped ones on, none if all are skipped.
LEMMA KeptFrames ==
  ASSUME stack \in Seq(Addresses), NEW skip \in 0 .. 2
  PROVE  /\ Kept(skip) = [i \in 1 .. Lower(Len(stack) + 1, MaxFrames) - skip
                            |-> (<<Own>> \o stack)[i + skip]]
         /\ Kept(skip) \in Seq(Frame) /\ Len(Kept(skip)) <= MaxFrames
<1> DEFINE s == <<Own>> \o stack
           n == Lower(Len(stack) + 1, MaxFrames)
           c == SubSeq(s, 1, n)
           k == SubSeq(c, skip + 1, Len(c))
<1>1. s \in Seq(Frame) /\ Len(s) = Len(stack) + 1 /\ Len(stack) \in Nat
  BY DEF Frame
<1>2. n \in 0 .. Len(s) /\ n <= MaxFrames /\ MaxFrames \in Nat
  BY <1>1, TraceAssumption DEF Lower
<1>3. Kept(skip) = k
  BY DEF Kept, Captured
<1> HIDE DEF s, n
<1>4. c \in Seq(Frame) /\ Len(c) = n /\ \A i \in 1 .. n : c[i] = s[i]
  <2>1. \A i \in 1 .. n : s[i] \in Frame
    BY <1>1, <1>2
  <2> QED  BY <1>2, <2>1, SubSeqProperties
<1> HIDE DEF c
<1>5. /\ k \in Seq(Frame) /\ Len(k) = (IF skip < n THEN n - skip ELSE 0)
      /\ \A i \in 1 .. n - skip : k[i] = s[i + skip]
  <2>1. \A i \in skip + 1 .. n : c[i] \in Frame
    BY <1>2, <1>4
  <2>2. /\ k \in Seq(Frame) /\ Len(k) = (IF skip + 1 <= n THEN n - (skip + 1) + 1 ELSE 0)
        /\ \A i \in 1 .. n - (skip + 1) + 1 : k[i] = c[(skip + 1) + i - 1]
    BY <1>2, <1>4, <2>1, SubSeqProperties
  <2>3. \A i \in 1 .. n - skip : k[i] = c[i + skip] /\ i + skip \in 1 .. n
    <3> SUFFICES ASSUME NEW i \in 1 .. n - skip
                 PROVE  k[i] = c[i + skip] /\ i + skip \in 1 .. n
      OBVIOUS
    <3>1. /\ i \in 1 .. n - (skip + 1) + 1 /\ (skip + 1) + i - 1 = i + skip
          /\ i + skip \in 1 .. n
      BY <1>2
    <3> QED  BY <2>2, <3>1
  <2>4. ASSUME NEW i \in 1 .. n - skip PROVE k[i] = s[i + skip]
    <3>1. k[i] = c[i + skip] /\ i + skip \in 1 .. n
      BY <2>3
    <3>2. c[i + skip] = s[i + skip]
      BY <1>4, <3>1
    <3> QED  BY <3>1, <3>2
  <2>5. Len(k) = (IF skip < n THEN n - skip ELSE 0)
    BY <1>2, <2>2
  <2> QED  BY <2>2, <2>4, <2>5
<1> HIDE DEF k
<1>6. k = [i \in 1 .. n - skip |-> s[i + skip]]
  <2>1. 1 .. Len(k) = 1 .. n - skip
    BY <1>2, <1>5
  <2>2. k = [i \in 1 .. Len(k) |-> k[i]]
    BY <1>5
  <2> QED  BY <1>5, <2>1, <2>2
<1>7. Len(k) <= MaxFrames
  BY <1>2, <1>5
<1> QED  BY <1>3, <1>5, <1>6, <1>7 DEF n, s

LEMMA TraceStarts == LibraryInit => TraceIInv
<1> SUFFICES ASSUME LibraryInit PROVE TraceIInv
  OBVIOUS
<1>1. stack = <<>> /\ frames = <<>> /\ due = <<>> /\ enumerator = NoEnumerator /\ walk = "open"
  BY DEF LibraryInit, TraceInit
<1>2. FramesAreDue
  BY <1>1 DEF FramesAreDue
<1>3. EnumeratorInStep
  BY <1>1, NothingEnumerated DEF EnumeratorInStep
<1> QED  BY <1>2, <1>3 DEF TraceIInv

\* A backtrace that is added leaves the others, and what enumerates them.
LEMMA AddedTrace ==
  ASSUME TraceIInv, NEW t \in Traces, t \notin DOMAIN frames,
         NEW f \in Seq(Frame), Len(f) <= MaxFrames,
         frames' = Extended(frames, t, f), due' = Extended(due, t, f),
         UNCHANGED <<stack, enumerator, walk>>
  PROVE  TraceIInv'
<1>1. /\ DOMAIN frames' = DOMAIN frames \cup {t} /\ frames'[t] = f
      /\ \A u \in DOMAIN frames : frames'[u] = frames[u]
  BY DEF Extended
<1>2. FramesAreDue'
  BY <1>1 DEF TraceIInv, FramesAreDue
<1>3. EnumeratorInStep'
  BY <1>1 DEF TraceIInv, EnumeratorInStep
<1> QED  BY <1>2, <1>3 DEF TraceIInv

LEMMA TraceGoesOn == TraceIInv /\ [LibraryNext]_libraryVars => TraceIInv'
<1> SUFFICES ASSUME TraceIInv, [LibraryNext]_libraryVars PROVE TraceIInv'
  OBVIOUS
<1>0. FramesAreDue /\ EnumeratorInStep /\ stack \in Seq(Addresses) /\ frames = due
  BY DEF TraceIInv, FramesAreDue
<1>1. CASE UNCHANGED traceVars
  BY <1>0, <1>1 DEF traceVars, TraceIInv, FramesAreDue, EnumeratorInStep
<1>2. ASSUME NEW a \in Addresses, CallFunction(a)
      PROVE  TraceIInv'
  BY <1>0, <1>2 DEF CallFunction, TraceIInv, FramesAreDue, EnumeratorInStep
<1>3. CASE ReturnFunction
  BY <1>0, <1>3 DEF ReturnFunction, TraceIInv, FramesAreDue, EnumeratorInStep
<1>4. ASSUME NEW t \in Traces, NEW skip \in 0 .. 2, backtraceCreate(t, skip)
      PROVE  TraceIInv'
  <2>1. /\ t \notin DOMAIN frames /\ frames' = Extended(frames, t, Kept(skip))
        /\ due' = Extended(due, t, Kept(skip)) /\ UNCHANGED <<stack, enumerator, walk>>
    BY <1>0, <1>4, KeptFrames DEF backtraceCreate
  <2>2. Kept(skip) \in Seq(Frame) /\ Len(Kept(skip)) <= MaxFrames
    BY <1>0, KeptFrames
  <2> QED  BY <2>1, <2>2, AddedTrace
<1>5. ASSUME NEW t \in Traces, NEW u \in Traces, backtraceClone(t, u)
      PROVE  TraceIInv'
  <2>1. /\ t \in DOMAIN frames /\ u \notin DOMAIN frames /\ frames' = Extended(frames, u, frames[t])
        /\ due' = Extended(due, u, frames[t]) /\ UNCHANGED <<stack, enumerator, walk>>
    BY <1>0, <1>5 DEF backtraceClone
  <2>2. frames[t] \in Seq(Frame) /\ Len(frames[t]) <= MaxFrames
    BY <1>0, <2>1 DEF FramesAreDue
  <2> QED  BY <2>1, <2>2, AddedTrace
<1>6. ASSUME NEW t \in Traces, backtraceDestroy(t)
      PROVE  TraceIInv'
  <2> DEFINE gone == enumerator.stale \/ enumerator.bt = t
  <2>1. /\ UNCHANGED <<stack, walk>> /\ enumerator' = [enumerator EXCEPT !.stale = gone]
        /\ frames' = Restrict(frames, DOMAIN frames \ {t}) /\ due' = Restrict(frames, DOMAIN frames \ {t})
    BY <1>0, <1>6 DEF backtraceDestroy
  <2>2. /\ DOMAIN frames' = DOMAIN frames \ {t} /\ frames' = due'
        /\ \A u \in DOMAIN frames' : frames'[u] = frames[u]
    BY <2>1 DEF Restrict
  <2>3. FramesAreDue'
    BY <1>0, <2>1, <2>2 DEF FramesAreDue
  <2>4. gone \in BOOLEAN /\ (~gone => ~enumerator.stale /\ enumerator.bt # t)
    BY Zenon
  <2>5. /\ enumerator'.bt = enumerator.bt /\ enumerator'.i = enumerator.i
        /\ enumerator'.given = enumerator.given /\ enumerator'.stale = gone
        /\ enumerator' \in Enumerators
    <3> HIDE DEF gone
    <3> QED  BY <1>0, <2>1, <2>4 DEF EnumeratorInStep, Enumerators
  <2>6. ASSUME enumerator.bt = 0
        PROVE  enumerator' = NoEnumerator
    <3>1. enumerator = NoEnumerator /\ t # 0
      BY <1>0, <2>6, TraceAssumption DEF EnumeratorInStep
    <3>2. ~gone
      BY <2>6, <3>1 DEF NoEnumerator
    <3>3. gone = FALSE
      BY <2>4, <3>2, Zenon
    <3> HIDE DEF gone
    <3> QED  BY <2>1, <3>1, <3>3 DEF NoEnumerator
  <2>7. ASSUME enumerator'.bt \in Traces, ~enumerator'.stale
        PROVE  /\ enumerator'.bt \in DOMAIN frames'
               /\ enumerator'.i \in 0 .. Len(frames'[enumerator'.bt])
               /\ enumerator'.given = SubSeq(frames'[enumerator'.bt], 1, enumerator'.i)
               /\ walk' = "ended" => enumerator'.i = Len(frames'[enumerator'.bt])
    <3>1. enumerator.bt \in Traces /\ ~enumerator.stale /\ enumerator.bt # t
      BY <2>4, <2>5, <2>7, Zenon
    <3> HIDE DEF gone
    <3>2. enumerator.bt \in DOMAIN frames
      BY <1>0, <3>1, Zenon DEF EnumeratorInStep
    <3>3. frames'[enumerator'.bt] = frames[enumerator.bt] /\ enumerator'.bt \in DOMAIN frames'
      BY <2>2, <2>5, <3>1, <3>2
    <3> QED  BY <1>0, <2>1, <2>5, <3>1, <3>3, Zenon DEF EnumeratorInStep
  <2>8. walk' = "fault" => enumerator'.stale
    <3>1. walk = "fault" => gone
      BY <1>0, Zenon DEF EnumeratorInStep
    <3> QED  BY <2>1, <2>5, <3>1, Zenon
  <2>9. EnumeratorInStep'
    <3>1. walk' \in {"open", "ended", "fault"}
      BY <1>0, <2>1 DEF EnumeratorInStep
    <3>2. enumerator'.bt = 0 => enumerator' = NoEnumerator /\ walk' = "open"
      BY <1>0, <2>1, <2>5, <2>6, Zenon DEF EnumeratorInStep
    <3> QED  BY <2>5, <2>7, <2>8, <3>1, <3>2, Zenon DEF EnumeratorInStep, NoEnumerator
  <2> QED  BY <2>3, <2>9 DEF TraceIInv
<1>7. ASSUME NEW t \in Traces, backtraceCreateFrameEnumerator(t)
      PROVE  TraceIInv'
  <2>1. /\ t \in DOMAIN frames /\ enumerator = NoEnumerator
        /\ enumerator' = [bt |-> t, stale |-> FALSE, i |-> 0, given |-> <<>>]
        /\ UNCHANGED <<stack, frames, due, walk>>
    BY <1>7 DEF backtraceCreateFrameEnumerator, NoEnumerator
  <2>2. SubSeq(frames[t], 1, 0) = <<>> /\ Len(frames[t]) \in Nat
    BY <1>0, <2>1, SubSeqEmpty DEF FramesAreDue
  <2>3. walk = "open"
    <3>1. NoEnumerator.bt = 0
      BY DEF NoEnumerator
    <3> QED  BY <1>0, <2>1, <3>1, Zenon DEF EnumeratorInStep
  <2>4. /\ enumerator' \in Enumerators /\ enumerator'.bt = t /\ enumerator'.i = 0
        /\ enumerator'.given = <<>> /\ enumerator'.stale = FALSE
    <3>1. PICK e : e = [bt |-> t, stale |-> FALSE, i |-> 0, given |-> <<>>]
      OBVIOUS
    <3>2. <<>> \in Seq(Frame) /\ FALSE \in BOOLEAN /\ t \in Traces \cup {0}
      BY EmptySeq
    <3>3. e \in Enumerators /\ e.bt = t /\ e.i = 0 /\ e.given = <<>> /\ e.stale = FALSE
      BY <3>1, <3>2 DEF Enumerators
    <3> QED  BY <2>1, <3>1, <3>3, Zenon
  <2>5. frames'[t] = frames[t] /\ t \in DOMAIN frames' /\ t # 0 /\ walk' = "open"
    BY <2>1, <2>3, TraceAssumption
  <2>6. EnumeratorInStep'
    <3>1. 0 \in 0 .. Len(frames[t]) /\ enumerator'.bt # 0
      BY <2>2, <2>4, <2>5
    <3> QED  BY <2>2, <2>4, <2>5, <3>1 DEF EnumeratorInStep
  <2> QED  BY <1>0, <2>1, <2>6 DEF TraceIInv, FramesAreDue
<1>8. CASE FrameEnumerate
  <2> DEFINE s == frames[enumerator.bt]
             i == enumerator.i
  <2>1. enumerator.bt \in Traces /\ walk = "open" /\ UNCHANGED <<stack, frames, due>>
    <3>1. enumerator # NoEnumerator /\ walk = "open" /\ UNCHANGED <<stack, frames, due>>
      BY <1>8 DEF FrameEnumerate
    <3> QED  BY <1>0, <3>1 DEF EnumeratorInStep, Enumerators
  <2>2. FramesAreDue'
    BY <1>0, <2>1 DEF FramesAreDue
  <2>3. ASSUME enumerator.stale
        PROVE  EnumeratorInStep'
    <3>1. walk' = "fault" /\ enumerator' = enumerator
      BY <1>8, <2>3 DEF FrameEnumerate
    <3>2. enumerator.bt # 0
      BY <2>1, TraceAssumption
    <3> QED  BY <1>0, <2>1, <2>3, <3>1, <3>2 DEF EnumeratorInStep
  <2>4. ASSUME ~enumerator.stale
        PROVE  EnumeratorInStep'
    <3>1. /\ enumerator.bt \in DOMAIN frames /\ s \in Seq(Frame) /\ Len(s) \in Nat
          /\ i \in 0 .. Len(s) /\ enumerator.given = SubSeq(s, 1, i)
      BY <1>0, <2>1, <2>4 DEF FramesAreDue, EnumeratorInStep
    <3>2. ASSUME HasMore
          PROVE  EnumeratorInStep'
      <4>1. /\ enumerator' = [enumerator EXCEPT !.i = i + 1, !.given = Append(@, s[i + 1])]
            /\ walk' = walk
        BY <1>8, <2>4, <3>2 DEF FrameEnumerate
      <4>2. i + 1 \in 1 .. Len(s)
        BY <3>1, <3>2 DEF HasMore
      <4>3. SubSeq(s, 1, i) \in Seq(Frame) /\ s[i + 1] \in Frame
        BY <3>1, <4>2
      <4>4. Append(SubSeq(s, 1, i), s[i + 1]) = SubSeq(s, 1, i + 1)
        <5> HIDE DEF s, i
        <5>1. SubSeq(s, 1, i + 1) = SubSeq(s, 1, i) \o <<s[i + 1]>>
          BY <3>1, <4>2, SubSeqRecursiveSecond
        <5> QED  BY <4>3, <5>1
      <4>5. enumerator.given = SubSeq(s, 1, i) /\ Append(enumerator.given, s[i + 1]) \in Seq(Frame)
        BY <3>1, <4>3
      <4>6. /\ enumerator' \in Enumerators /\ enumerator'.bt = enumerator.bt
            /\ enumerator'.stale = enumerator.stale /\ enumerator'.i = i + 1
            /\ enumerator'.given = Append(enumerator.given, s[i + 1])
        <5> DEFINE g == Append(enumerator.given, s[i + 1])
        <5>1. i + 1 \in Nat /\ g \in Seq(Frame) /\ enumerator \in Enumerators
          BY <1>0, <3>1, <4>5 DEF EnumeratorInStep
        <5>2. enumerator' = [enumerator EXCEPT !.i = i + 1, !.given = g]
          BY <4>1
        <5> HIDE DEF s, i, g
        <5>3. /\ enumerator' \in Enumerators /\ enumerator'.bt = enumerator.bt
              /\ enumerator'.stale = enumerator.stale /\ enumerator'.i = i + 1
              /\ enumerator'.given = g
          BY <5>1, <5>2 DEF Enumerators
        <5> QED  BY <5>3 DEF g
      <4>7. frames'[enumerator'.bt] = s /\ enumerator'.bt \in DOMAIN frames'
        BY <2>1, <3>1, <4>6
      <4>8. enumerator'.bt \in Traces /\ enumerator'.bt # 0
        BY <2>1, <4>6, TraceAssumption
      <4>9. walk' = "open"
        BY <2>1, <4>1
      <4> HIDE DEF s, i
      <4> QED  BY <3>1, <4>2, <4>4, <4>5, <4>6, <4>7, <4>8, <4>9 DEF EnumeratorInStep
    <3>3. ASSUME ~HasMore
          PROVE  EnumeratorInStep'
      <4>1. walk' = "ended" /\ enumerator' = enumerator
        BY <1>8, <2>4, <3>3 DEF FrameEnumerate
      <4>2. i = Len(s)
        BY <3>1, <3>3 DEF HasMore
      <4>3. enumerator.bt # 0
        BY <2>1, TraceAssumption
      <4> QED  BY <1>0, <2>1, <2>4, <3>1, <4>1, <4>2, <4>3 DEF EnumeratorInStep
    <3> QED  BY <3>2, <3>3
  <2> QED  BY <2>2, <2>3, <2>4 DEF TraceIInv
<1>9. CASE EnumeratorDestroy
  <2>1. enumerator' = NoEnumerator /\ walk' = "open" /\ UNCHANGED <<stack, frames, due>>
    BY <1>9 DEF EnumeratorDestroy
  <2>2. EnumeratorInStep'
    BY <2>1, NothingEnumerated DEF EnumeratorInStep
  <2> QED  BY <1>0, <2>1, <2>2 DEF TraceIInv, FramesAreDue
<1> QED
  BY <1>1, <1>2, <1>3, <1>4, <1>5, <1>6, <1>7, <1>8, <1>9, TraceFrame DEF TraceNext

LEMMA TracesAreTyped == TraceIInv => TraceTypeOK
BY DEF TraceIInv, FramesAreDue, EnumeratorInStep, Enumerators, TraceTypeOK

\* An enumerator whose backtrace is still there gives the frames of the stack at
\* the time that was taken, all of them and in order, and misuses memory only after
\* its backtrace was destroyed; two backtraces are equal exactly if those frames
\* are (backtraceCreate(), backtraceEquals(), _frameEnumerate()): for any number of
\* frames, any limit and any depth of the stack.
THEOREM BacktracesAreSnapshots == LibrarySpec => []BacktraceIsSnapshot
<1>1. LibrarySpec => []TraceIInv
  BY TraceStarts, TraceGoesOn, PTL DEF LibrarySpec
<1>2. TraceIInv => BacktraceIsSnapshot
  <2> SUFFICES ASSUME TraceIInv PROVE BacktraceIsSnapshot
    OBVIOUS
  <2>0. FramesAreDue /\ EnumeratorInStep /\ frames = due
    BY DEF TraceIInv, FramesAreDue
  <2>1. EnumeratesFrames
    <3>1. ASSUME enumerator.bt \in Traces, ~enumerator.stale
          PROVE  /\ enumerator.given = SubSeq(due[enumerator.bt], 1, enumerator.i)
                 /\ walk = "ended" => enumerator.given = due[enumerator.bt]
      <4>1. enumerator.bt \in DOMAIN due /\ due[enumerator.bt] \in Seq(Frame)
        BY <2>0, <3>1 DEF FramesAreDue, EnumeratorInStep
      <4> QED  BY <2>0, <3>1, <4>1, SubSeqFull DEF EnumeratorInStep
    <3>2. walk = "fault" => enumerator.stale
      BY <2>0 DEF EnumeratorInStep
    <3> QED  BY <3>1, <3>2 DEF EnumeratesFrames
  <2>2. EqualWhenSameFrames
    <3> SUFFICES ASSUME NEW t \in DOMAIN frames, NEW u \in DOMAIN frames
                 PROVE  backtraceEquals(t, u) <=> due[t] = due[u]
      BY DEF EqualWhenSameFrames
    <3>1. frames[t] \in Seq(Frame) /\ frames[u] \in Seq(Frame)
      BY <2>0 DEF FramesAreDue
    <3>2. ASSUME Len(frames[t]) = Len(frames[u]), \A i \in DOMAIN frames[t] : frames[t][i] = frames[u][i]
          PROVE  frames[t] = frames[u]
      BY <3>1, <3>2, SeqEqual
    <3> QED  BY <2>0, <3>2 DEF backtraceEquals
  <2> QED  BY <2>1, <2>2 DEF BacktraceIsSnapshot
<1> QED  BY <1>1, <1>2, PTL

-----------------------------------------------------------------------------
(* The chunks.  What the heap, the chunks and the variables that share a block *)
(* are, whatever calls were made before.                                     *)

BlockType == [state : {"unused", "live", "freed"}, bytes : Seq(Nat)]
MemType == [heap : [Blocks -> BlockType], fault : BOOLEAN]
ChunkType == [ptr : Blocks \cup {NULL}, off : Nat, len : Nat]

-----------------------------------------------------------------------------
(* What the operations on memory change.  None takes a block back to "unused" *)
(* or changes its size.                                                      *)

LEMMA FaultIs ==
  ASSUME NEW m \in MemType
  PROVE  Fault(m) \in MemType /\ Fault(m).heap = m.heap
BY DEF Fault, MemType

LEMMA TouchIs ==
  ASSUME NEW m \in MemType, NEW c
  PROVE  /\ Touch(m, c) \in MemType /\ Touch(m, c).heap = m.heap
         /\ ~Dead(m, c) => Touch(m, c) = m
BY FaultIs DEF Touch

LEMMA NewBytes ==
  ASSUME NEW e \in BlockType, NEW x
  PROVE  [e EXCEPT !.bytes = x] = [state |-> e.state, bytes |-> x]
BY DEF BlockType

LEMMA InWindow ==
  ASSUME NEW d \in Nat, NEW k \in Nat, NEW i \in Nat
  PROVE  /\ i \in d + 1 .. d + k => i - d \in 1 .. k
         /\ i \in 1 .. k => d + i \in d + 1 .. d + k /\ (d + i) - d = i
OBVIOUS

LEMMA StoredIs ==
  ASSUME NEW m \in MemType, NEW c \in ChunkType, c.ptr \in Blocks, NEW bytes \in Seq(Nat)
  PROVE  LET r == Stored(m, c, bytes)
         IN  /\ r \in MemType
             /\ \A b \in Blocks : /\ r.heap[b].state = m.heap[b].state
                                  /\ Len(r.heap[b].bytes) = Len(m.heap[b].bytes)
                                  /\ b # c.ptr => r.heap[b] = m.heap[b]
             /\ ~Dead(m, c) => /\ r.fault = m.fault
                               /\ \A i \in 1 .. Len(bytes) :
                                    c.off + i <= Len(m.heap[c.ptr].bytes)
                                      => r.heap[c.ptr].bytes[c.off + i] = bytes[i]
<1> DEFINE r == Stored(m, c, bytes)
           old == m.heap[c.ptr].bytes
           new == [i \in DOMAIN old |-> IF i \in c.off + 1 .. c.off + Len(bytes)
                                        THEN bytes[i - c.off] ELSE old[i]]
<1>1. r = IF Dead(m, c) THEN Fault(m) ELSE [m EXCEPT !.heap[c.ptr].bytes = new]
  BY DEF Stored
<1>2. old \in Seq(Nat) /\ c.off \in Nat /\ m.heap \in [Blocks -> BlockType]
  BY DEF MemType, BlockType, ChunkType
<1>3. DOMAIN old = 1 .. Len(old) /\ Len(old) \in Nat /\ Len(bytes) \in Nat
  BY <1>2, LenProperties
<1>4. \A i \in 1 .. Len(old) : new[i] \in Nat
  <2> SUFFICES ASSUME NEW i \in 1 .. Len(old) PROVE new[i] \in Nat
    OBVIOUS
  <2>1. old[i] \in Nat
    BY <1>2, ElementOfSeq
  <2>2. i \in c.off + 1 .. c.off + Len(bytes) => bytes[i - c.off] \in Nat
    <3>1. i \in Nat
      OBVIOUS
    <3>2. ASSUME i \in c.off + 1 .. c.off + Len(bytes) PROVE i - c.off \in 1 .. Len(bytes)
      <4>1. c.off \in Nat /\ Len(bytes) \in Nat
        BY <1>2, <1>3
      <4> QED  BY <3>1, <3>2, <4>1, InWindow
    <3> QED  BY <3>2, ElementOfSeq
  <2> QED  BY <1>3, <2>1, <2>2
<1>5. new \in Seq(Nat) /\ Len(new) = Len(old)
  <2>1. new \in [1 .. Len(old) -> Nat]
    BY <1>3, <1>4
  <2> QED  BY <1>3, <2>1
<1>6. \A i \in 1 .. Len(bytes) : c.off + i <= Len(old) => new[c.off + i] = bytes[i]
  <2> SUFFICES ASSUME NEW i \in 1 .. Len(bytes), c.off + i <= Len(old)
               PROVE  new[c.off + i] = bytes[i]
    OBVIOUS
  <2>0. c.off \in Nat /\ Len(bytes) \in Nat /\ Len(old) \in Nat /\ i \in Nat /\ i >= 1
    BY <1>2, <1>3
  <2>1. c.off + i \in c.off + 1 .. c.off + Len(bytes) /\ (c.off + i) - c.off = i
    BY <2>0, InWindow
  <2>2. PICK d, k : d = c.off /\ k = Len(old)
    OBVIOUS
  <2>3. d + i \in 1 .. k
    BY <2>0, <2>2
  <2>4. c.off + i \in DOMAIN old
    BY <1>3, <2>2, <2>3, Zenon
  <2> QED  BY <2>1, <2>4
<1> HIDE DEF new, r
<1>7. CASE Dead(m, c)
  <2>1. r = Fault(m)
    BY <1>1, <1>7
  <2> QED  BY <1>7, <2>1, FaultIs DEF r
<1>8. CASE ~Dead(m, c)
  <2>1. r = [m EXCEPT !.heap[c.ptr].bytes = new]
    BY <1>1, <1>8
  <2>2. PICK h, e : h = m.heap /\ e = m.heap[c.ptr]
    OBVIOUS
  <2>3. h \in [Blocks -> BlockType] /\ e \in BlockType
    BY <1>2, <2>2
  <2>4. r.heap = [h EXCEPT ![c.ptr] = [state |-> e.state, bytes |-> new]]
    <3>1. [e EXCEPT !.bytes = new] = [state |-> e.state, bytes |-> new]
      BY <2>3, NewBytes
    <3>2. r.heap = [h EXCEPT ![c.ptr] = [e EXCEPT !.bytes = new]]
      <4>1. r.heap = [m.heap EXCEPT ![c.ptr] = [m.heap[c.ptr] EXCEPT !.bytes = new]]
        BY <2>1 DEF MemType
      <4> QED  BY <2>2, <4>1
    <3> QED  BY <3>1, <3>2
  <2>5. r.fault = m.fault
    BY <2>1 DEF MemType
  <2>6. r \in MemType
    <3>1. [state |-> e.state, bytes |-> new] \in BlockType
      BY <1>5, <2>3 DEF BlockType
    <3>2. r.heap \in [Blocks -> BlockType]
      BY <2>3, <2>4, <3>1
    <3> QED  BY <2>1, <3>2 DEF MemType
  <2>7. \A b \in Blocks : /\ b # c.ptr => r.heap[b] = m.heap[b]
                          /\ b = c.ptr => r.heap[b] = [state |-> e.state, bytes |-> new]
    BY <2>2, <2>3, <2>4
  <2>8. \A b \in Blocks : r.heap[b].state = m.heap[b].state
    BY <2>2, <2>7
  <2>9. ASSUME NEW b \in Blocks PROVE Len(r.heap[b].bytes) = Len(m.heap[b].bytes)
    <3>1. CASE b = c.ptr
      <4>1. r.heap[b].bytes = new
        BY <2>7, <3>1
      <4> QED  BY <1>5, <3>1, <4>1, Zenon
    <3>2. CASE b # c.ptr
      <4>1. r.heap[b] = m.heap[b]
        BY <2>2, <2>7, <3>2
      <4> QED  BY <4>1, Zenon
    <3> QED  BY <3>1, <3>2
  <2>10. r.heap[c.ptr].bytes = new
    BY <2>7
  <2>11. \A i \in 1 .. Len(bytes) :
           c.off + i <= Len(m.heap[c.ptr].bytes) => r.heap[c.ptr].bytes[c.off + i] = bytes[i]
    BY <1>6, <2>10, Zenon
  <2> QED  BY <2>5, <2>6, <2>7, <2>8, <2>9, <2>11, Zenon DEF r
<1> QED  BY <1>7, <1>8, Zenon DEF r

LEMMA AllocatedIs ==
  ASSUME NEW m \in MemType, NEW b \in Blocks, NEW bytes \in Seq(Nat)
  PROVE  LET r == Allocated(m, b, bytes)
         IN  /\ r \in MemType /\ r.fault = m.fault
             /\ r.heap[b] = [state |-> "live", bytes |-> bytes]
             /\ \A d \in Blocks : d # b => r.heap[d] = m.heap[d]
<1> DEFINE r == Allocated(m, b, bytes)
<1>1. PICK new : new = [state |-> "live", bytes |-> bytes]
  OBVIOUS
<1>2. r = [m EXCEPT !.heap[b] = new] /\ new \in BlockType
  BY <1>1 DEF Allocated, BlockType
<1>3. PICK h : h = m.heap
  OBVIOUS
<1>4. h \in [Blocks -> BlockType]
  BY <1>3 DEF MemType
<1>5. r.heap = [h EXCEPT ![b] = new] /\ r.fault = m.fault
  BY <1>2, <1>3 DEF MemType
<1>6. r.heap \in [Blocks -> BlockType]
  BY <1>2, <1>4, <1>5
<1>7. r \in MemType
  BY <1>2, <1>6 DEF MemType
<1>8. r.heap[b] = new /\ \A d \in Blocks : d # b => r.heap[d] = m.heap[d]
  BY <1>3, <1>4, <1>5
<1> QED  BY <1>1, <1>5, <1>7, <1>8

LEMMA ReleasedIs ==
  ASSUME NEW m \in MemType, NEW c \in ChunkType
  PROVE  LET r == Released(m, c)
         IN  /\ r \in MemType
             /\ \A b \in Blocks : /\ r.heap[b].bytes = m.heap[b].bytes
                                  /\ r.heap[b].state = "unused" <=> m.heap[b].state = "unused"
                                  /\ b # c.ptr => r.heap[b] = m.heap[b]
             /\ (c.ptr # NULL => c.off = 0 /\ m.heap[c.ptr].state = "live") => r.fault = m.fault
<1> DEFINE r == Released(m, c)
<1>1. CASE c.ptr = NULL
  BY <1>1 DEF Released
<1>2. CASE c.ptr # NULL /\ (c.off # 0 \/ m.heap[c.ptr].state # "live")
  <2>1. r = Fault(m)
    BY <1>2 DEF Released
  <2> QED  BY <1>2, <2>1, FaultIs
<1>3. CASE c.ptr # NULL /\ ~(c.off # 0 \/ m.heap[c.ptr].state # "live")
  <2>1. r = [m EXCEPT !.heap[c.ptr].state = "freed"]
    BY <1>3 DEF Released
  <2>2. c.ptr \in Blocks /\ m.heap[c.ptr].state = "live"
    BY <1>3 DEF ChunkType
  <2>3. PICK h, e : h = m.heap /\ e = m.heap[c.ptr]
    OBVIOUS
  <2>4. h \in [Blocks -> BlockType] /\ e \in BlockType
    BY <2>2, <2>3 DEF MemType
  <2>5. PICK new : new = [state |-> "freed", bytes |-> e.bytes]
    OBVIOUS
  <2>6. new \in BlockType
    BY <2>4, <2>5 DEF BlockType
  <2>7. r.heap = [h EXCEPT ![c.ptr] = new] /\ r.fault = m.fault
    <3>1. [e EXCEPT !.state = "freed"] = new
      BY <2>4, <2>5 DEF BlockType
    <3>2. /\ r.heap = [m.heap EXCEPT ![c.ptr] = [m.heap[c.ptr] EXCEPT !.state = "freed"]]
          /\ r.fault = m.fault
      BY <2>1 DEF MemType
    <3> QED  BY <2>3, <3>1, <3>2
  <2>8. r.heap \in [Blocks -> BlockType]
    BY <2>4, <2>6, <2>7
  <2>9. r \in MemType
    BY <2>1, <2>8 DEF MemType
  <2>10. \A b \in Blocks : /\ b # c.ptr => r.heap[b] = m.heap[b]
                           /\ b = c.ptr => r.heap[b] = new
    BY <2>3, <2>4, <2>7
  <2>11. new.bytes = m.heap[c.ptr].bytes /\ new.state = "freed"
    BY <2>3, <2>5
  <2>12. \A b \in Blocks : /\ r.heap[b].bytes = m.heap[b].bytes
                           /\ r.heap[b].state = "unused" <=> m.heap[b].state = "unused"
    BY <2>2, <2>10, <2>11
  <2> QED  BY <2>7, <2>9, <2>10, <2>12
<1> QED  BY <1>1, <1>2, <1>3

LEMMA WipedIs ==
  ASSUME NEW m \in MemType, NEW c \in ChunkType, c.ptr \in Blocks
  PROVE  LET r == Wiped(m, c)
         IN  /\ r \in MemType
             /\ \A b \in Blocks : /\ r.heap[b].state = m.heap[b].state
                                  /\ Len(r.heap[b].bytes) = Len(m.heap[b].bytes)
                                  /\ b # c.ptr => r.heap[b] = m.heap[b]
             /\ ~Dead(m, c) => r.fault = m.fault
<1> DEFINE zeros == [i \in 1 .. c.len |-> 0]
<1>1. zeros \in Seq(Nat)
  BY DEF ChunkType
<1>2. Wiped(m, c) = Stored(m, c, zeros)
  BY DEF Wiped
<1> HIDE DEF zeros
<1> QED  BY <1>1, <1>2, StoredIs

LEMMA ClearedIs ==
  ASSUME NEW m \in MemType, NEW c \in ChunkType
  PROVE  LET r == Cleared(m, c)
         IN  /\ r \in MemType
             /\ \A b \in Blocks : /\ Len(r.heap[b].bytes) = Len(m.heap[b].bytes)
                                  /\ r.heap[b].state = "unused" <=> m.heap[b].state = "unused"
                                  /\ b # c.ptr => r.heap[b] = m.heap[b]
             /\ (c.ptr # NULL => c.off = 0 /\ m.heap[c.ptr].state = "live") => r.fault = m.fault
<1>1. CASE c.ptr = NULL
  BY <1>1 DEF Cleared
<1>2. CASE c.ptr # NULL
  <2>1. PICK w : w = Wiped(m, c)
    OBVIOUS
  <2>2. c.ptr \in Blocks
    BY <1>2 DEF ChunkType
  <2>3. /\ w \in MemType
        /\ \A b \in Blocks : /\ w.heap[b].state = m.heap[b].state
                             /\ Len(w.heap[b].bytes) = Len(m.heap[b].bytes)
                             /\ b # c.ptr => w.heap[b] = m.heap[b]
        /\ ~Dead(m, c) => w.fault = m.fault
    BY <2>1, <2>2, WipedIs
  <2>4. PICK r : r = Released(w, c)
    OBVIOUS
  <2>5. /\ r \in MemType
        /\ \A b \in Blocks : /\ r.heap[b].bytes = w.heap[b].bytes
                             /\ r.heap[b].state = "unused" <=> w.heap[b].state = "unused"
                             /\ b # c.ptr => r.heap[b] = w.heap[b]
        /\ (c.ptr # NULL => c.off = 0 /\ w.heap[c.ptr].state = "live") => r.fault = w.fault
    BY <2>3, <2>4, ReleasedIs
  <2>6. Cleared(m, c) = r
    BY <1>2, <2>1, <2>4 DEF Cleared
  <2>7. c.off = 0 /\ m.heap[c.ptr].state = "live" => r.fault = m.fault
    BY <2>2, <2>3, <2>5, Zenon DEF Dead
  <2>8. \A b \in Blocks : /\ Len(r.heap[b].bytes) = Len(m.heap[b].bytes)
                          /\ r.heap[b].state = "unused" <=> m.heap[b].state = "unused"
                          /\ b # c.ptr => r.heap[b] = m.heap[b]
    BY <2>3, <2>5
  <2> QED  BY <1>2, <2>5, <2>6, <2>7, <2>8
<1> QED  BY <1>1, <1>2

-----------------------------------------------------------------------------
(* Chunks that are where memory is, and chunks nobody else has. *)

WellPlaced(m, c) ==
  IF c.ptr = NULL THEN c = ChunkEmpty
  ELSE /\ m.heap[c.ptr].state # "unused"
       /\ c.off + c.len <= Len(m.heap[c.ptr].bytes)

\* The block of u is live, u is at its start, and no other variable points to it.
Sole(m, ch, u) ==
  ch[u].ptr # NULL =>
    /\ m.heap[ch[u].ptr].state = "live" /\ ch[u].off = 0
    /\ \A w \in ChunkVars \ {u} : ch[w].ptr # ch[u].ptr

ChunkTyped ==
  /\ mem \in MemType /\ chunk \in [ChunkVars -> ChunkType] /\ shared \subseteq ChunkVars
  /\ \A v \in ChunkVars : WellPlaced(mem, chunk[v])

\* What is not shared is owned.
Owned == \A v \in ChunkVars \ shared : Sole(mem, chunk, v)

ChunkIInv == ChunkTyped /\ Owned /\ FaultsAreCaused /\ CallsAreRight

LEMMA NullIsNoBlock == NULL \notin Blocks /\ NULL \notin ChunkVars
BY ChunkAssumption

LEMMA EmptyType == ChunkEmpty \in ChunkType /\ ChunkEmpty.ptr = NULL /\ ChunkEmpty.len = 0
BY DEF ChunkEmpty, ChunkType

LEMMA StaysPlaced ==
  ASSUME NEW m, NEW m1, NEW c \in ChunkType, WellPlaced(m, c),
         c.ptr # NULL => /\ m1.heap[c.ptr].state = "unused" => m.heap[c.ptr].state = "unused"
                         /\ Len(m1.heap[c.ptr].bytes) = Len(m.heap[c.ptr].bytes)
  PROVE  WellPlaced(m1, c)
BY DEF WellPlaced

\* The block a chunk owns may be used up to its length.
LEMMA OwnedIsAlive ==
  ASSUME ChunkIInv, NEW v \in ChunkVars \ shared
  PROVE  /\ ~Dead(mem, chunk[v])
         /\ chunk[v].ptr # NULL => chunk[v].off = 0 /\ mem.heap[chunk[v].ptr].state = "live"
<1>1. Sole(mem, chunk, v) /\ WellPlaced(mem, chunk[v])
  BY DEF ChunkIInv, Owned, ChunkTyped
<1> QED  BY <1>1 DEF Sole, WellPlaced, Dead, ChunkEmpty

\* A call that uses a shared variable has that among its causes.
LEMMA SharingIs ==
  ASSUME NEW used
  PROVE  /\ used \cap shared # {} => Sharing(used) # {}
         /\ Sharing(used) \subseteq {"alias", "clone"}
BY DEF Sharing

\* A call with a result.
LEMMA ResultIsRecorded ==
  ASSUME NEW fn, NEW used, NEW others, NEW got, NEW want, Compared(fn, used, others, got, want)
  PROVE  /\ call'.fn = fn /\ call'.right = (got = want) /\ others \subseteq call'.causes
         /\ others # {} \/ used \cap shared # {} => call'.causes # {}
         /\ \A x \in call'.causes : x \in others \cup {"alias", "clone"}
<1>1. call' = [fn |-> fn, causes |-> others \cup Sharing(used), right |-> got = want]
  BY DEF Compared
<1>2. call'.fn = fn /\ call'.causes = others \cup Sharing(used) /\ call'.right = (got = want)
  BY <1>1, Zenon
<1> HIDE <1>1
<1>3. others # {} \/ used \cap shared # {} => call'.causes # {}
  BY <1>2, SharingIs
<1>4. others \subseteq call'.causes /\ \A x \in call'.causes : x \in others \cup {"alias", "clone"}
  BY <1>2, SharingIs
<1> QED  BY <1>2, <1>3, <1>4

\* A call that is not about the contents of chunks.
LEMMA CallIsRecorded ==
  ASSUME NEW fn \in {"fill", "clone", "skip", "skipzero", "free", "clear", "print"},
         NEW used, Calls(fn, used)
  PROVE  /\ CallsAreRight'
         /\ used \cap shared # {} => call'.causes # {}
         /\ call'.causes \cap {"again", "letters"} = {}
<1>1. /\ call'.fn = fn
      /\ used \cap shared # {} => call'.causes # {}
      /\ \A x \in call'.causes : x \in {} \cup {"alias", "clone"}
  BY ResultIsRecorded DEF Calls
<1>2. CallsAreRight'
  BY <1>1 DEF CallsAreRight
<1> QED  BY <1>1, <1>2


LEMMA UnusedIs ==
  ASSUME NEW m, \E b \in Blocks : m.heap[b].state = "unused"
  PROVE  AnUnused(m) \in Blocks /\ m.heap[AnUnused(m)].state = "unused"
BY Zenon DEF AnUnused

\* The variables after one was assigned.
LEMMA Assigned ==
  ASSUME chunk \in [ChunkVars -> ChunkType], NEW v \in ChunkVars, NEW c \in ChunkType,
         chunk' = [chunk EXCEPT ![v] = c]
  PROVE  /\ chunk' \in [ChunkVars -> ChunkType] /\ chunk'[v] = c
         /\ \A u \in ChunkVars : u # v => chunk'[u] = chunk[u]
OBVIOUS

\* A variable gets a block of its own; m is the memory before malloc().
LEMMA NewBlockKeeps ==
  ASSUME ChunkIInv, NEW v \in ChunkVars, NEW m \in MemType, NEW b \in Blocks, NEW bytes \in Seq(Nat),
         mem.heap[b].state = "unused",
         \A d \in Blocks : /\ m.heap[d].state = "unused" => mem.heap[d].state = "unused"
                           /\ Len(m.heap[d].bytes) = Len(mem.heap[d].bytes),
         mem' = Allocated(m, b, bytes),
         chunk' = [chunk EXCEPT ![v] = chunkCreate(b, Len(bytes))],
         shared \subseteq shared', shared' \subseteq ChunkVars,
         \A u \in ChunkVars \ shared' : chunk[u].ptr # NULL => m.heap[chunk[u].ptr] = mem.heap[chunk[u].ptr]
  PROVE  ChunkTyped' /\ Owned'
<1> DEFINE c == chunkCreate(b, Len(bytes))
<1>1. /\ mem' \in MemType /\ mem'.heap[b] = [state |-> "live", bytes |-> bytes]
      /\ \A d \in Blocks : d # b => mem'.heap[d] = m.heap[d]
  BY AllocatedIs
<1>2. c \in ChunkType /\ c.ptr = b /\ c.off = 0 /\ c.len = Len(bytes) /\ Len(bytes) \in Nat
  BY DEF ChunkType, chunkCreate
<1> HIDE DEF c
<1>3. /\ chunk' \in [ChunkVars -> ChunkType] /\ chunk'[v] = c
      /\ \A u \in ChunkVars : u # v => chunk'[u] = chunk[u]
  BY <1>2, Assigned DEF c, ChunkIInv, ChunkTyped
<1>4. ASSUME NEW u \in ChunkVars
      PROVE  /\ chunk[u] \in ChunkType /\ WellPlaced(mem, chunk[u])
             /\ chunk[u].ptr # NULL => chunk[u].ptr \in Blocks \ {b}
  <2>1. chunk[u] \in ChunkType /\ WellPlaced(mem, chunk[u])
    BY DEF ChunkIInv, ChunkTyped
  <2> QED  BY <2>1 DEF WellPlaced, ChunkType
<1>5. WellPlaced(mem', chunk'[v])
  BY <1>1, <1>2, <1>3, NullIsNoBlock DEF WellPlaced
<1>6. ASSUME NEW u \in ChunkVars, u # v PROVE WellPlaced(mem', chunk'[u])
  <2>1. chunk'[u] = chunk[u]
    BY <1>3, <1>6
  <2>2. chunk[u].ptr # NULL =>
          /\ mem'.heap[chunk[u].ptr].state = "unused" => mem.heap[chunk[u].ptr].state = "unused"
          /\ Len(mem'.heap[chunk[u].ptr].bytes) = Len(mem.heap[chunk[u].ptr].bytes)
    BY <1>1, <1>4
  <2> QED  BY <1>4, <2>1, <2>2, StaysPlaced
<1>7. ChunkTyped'
  BY <1>1, <1>3, <1>5, <1>6 DEF ChunkTyped
<1>8. ASSUME NEW u \in ChunkVars \ shared', chunk'[u].ptr # NULL
      PROVE  /\ mem'.heap[chunk'[u].ptr].state = "live" /\ chunk'[u].off = 0
             /\ \A w \in ChunkVars \ {u} : chunk'[w].ptr # chunk'[u].ptr
  <2>1. CASE u = v
    <3>1. \A w \in ChunkVars \ {u} : chunk'[w].ptr # b
      BY <1>3, <1>4, <2>1, NullIsNoBlock
    <3> QED  BY <1>1, <1>2, <1>3, <2>1, <3>1
  <2>2. CASE u # v
    <3>1. chunk'[u] = chunk[u] /\ Sole(mem, chunk, u)
      BY <1>3, <2>2 DEF ChunkIInv, Owned
    <3>2. /\ mem.heap[chunk[u].ptr].state = "live" /\ chunk[u].off = 0
          /\ \A w \in ChunkVars \ {u} : chunk[w].ptr # chunk[u].ptr
      BY <1>8, <3>1 DEF Sole
    <3>3. chunk[u].ptr \in Blocks \ {b} /\ chunk'[v].ptr = b
      BY <1>2, <1>3, <1>4, <1>8, <3>1
    <3>4. mem'.heap[chunk[u].ptr] = mem.heap[chunk[u].ptr]
      BY <1>1, <1>8, <3>1, <3>3
    <3> QED  BY <1>3, <3>1, <3>2, <3>3, <3>4
  <2> QED  BY <2>1, <2>2
<1> QED  BY <1>7, <1>8 DEF Owned, Sole

\* A call that changes no block.
LEMMA SameBlocksKeep ==
  ASSUME ChunkIInv, mem' \in MemType, mem'.heap = mem.heap, UNCHANGED chunk,
         shared \subseteq shared', shared' \subseteq ChunkVars
  PROVE  ChunkTyped' /\ Owned'
<1>1. ChunkTyped'
  BY DEF ChunkIInv, ChunkTyped, WellPlaced
<1> QED  BY <1>1 DEF ChunkIInv, Owned, Sole

\* A variable gets an empty chunk or one inside the block of a shared one.
LEMMA AssignmentKeeps ==
  ASSUME ChunkIInv, mem' \in MemType, mem'.heap = mem.heap,
         NEW v \in ChunkVars, NEW c \in ChunkType, chunk' = [chunk EXCEPT ![v] = c],
         WellPlaced(mem, c),
         shared \subseteq shared', shared' \subseteq ChunkVars,
         c.ptr # NULL => v \in shared' /\ \E w \in shared' : c.ptr = chunk[w].ptr
  PROVE  ChunkTyped' /\ Owned'
<1>1. /\ chunk' \in [ChunkVars -> ChunkType] /\ chunk'[v] = c
      /\ \A u \in ChunkVars : u # v => chunk'[u] = chunk[u]
  BY Assigned DEF ChunkIInv, ChunkTyped
<1>2. \A u \in ChunkVars : WellPlaced(mem', chunk'[u])
  BY <1>1 DEF ChunkIInv, ChunkTyped, WellPlaced
<1>3. ASSUME NEW u \in ChunkVars \ shared', chunk'[u].ptr # NULL
      PROVE  /\ mem'.heap[chunk'[u].ptr].state = "live" /\ chunk'[u].off = 0
             /\ \A w \in ChunkVars \ {u} : chunk'[w].ptr # chunk'[u].ptr
  <2>1. u # v /\ chunk'[u] = chunk[u]
    BY <1>1, <1>3
  <2>2. Sole(mem, chunk, u)
    BY DEF ChunkIInv, Owned
  <2>3. /\ mem.heap[chunk[u].ptr].state = "live" /\ chunk[u].off = 0
        /\ \A w \in ChunkVars \ {u} : chunk[w].ptr # chunk[u].ptr
    BY <1>3, <2>1, <2>2 DEF Sole
  <2>4. c.ptr # chunk[u].ptr
    BY <1>3, <2>1, <2>3
  <2> QED  BY <1>1, <2>1, <2>3, <2>4
<1> QED  BY <1>1, <1>2, <1>3 DEF ChunkTyped, Owned, Sole

\* The block of a variable is given back.
LEMMA ReleaseKeeps ==
  ASSUME ChunkIInv, NEW v \in ChunkVars, mem' \in MemType,
         \A b \in Blocks : /\ Len(mem'.heap[b].bytes) = Len(mem.heap[b].bytes)
                           /\ mem'.heap[b].state = "unused" <=> mem.heap[b].state = "unused"
                           /\ b # chunk[v].ptr => mem'.heap[b] = mem.heap[b],
         chunk' = [chunk EXCEPT ![v] = ChunkEmpty], shared' = shared
  PROVE  ChunkTyped' /\ Owned'
<1>1. /\ chunk' \in [ChunkVars -> ChunkType] /\ chunk'[v] = ChunkEmpty
      /\ \A u \in ChunkVars : u # v => chunk'[u] = chunk[u]
  BY Assigned, EmptyType DEF ChunkIInv, ChunkTyped
<1>2. ASSUME NEW u \in ChunkVars PROVE WellPlaced(mem', chunk'[u])
  <2>1. CASE u = v
    BY <1>1, <2>1, EmptyType DEF WellPlaced
  <2>2. CASE u # v
    <3>1. chunk'[u] = chunk[u] /\ chunk[u] \in ChunkType /\ WellPlaced(mem, chunk[u])
      BY <1>1, <2>2 DEF ChunkIInv, ChunkTyped
    <3> QED  BY <3>1, StaysPlaced DEF ChunkType
  <2> QED  BY <2>1, <2>2
<1>3. ASSUME NEW u \in ChunkVars \ shared', chunk'[u].ptr # NULL
      PROVE  /\ mem'.heap[chunk'[u].ptr].state = "live" /\ chunk'[u].off = 0
             /\ \A w \in ChunkVars \ {u} : chunk'[w].ptr # chunk'[u].ptr
  <2>1. u # v /\ chunk'[u] = chunk[u]
    BY <1>1, <1>3, EmptyType
  <2>2. Sole(mem, chunk, u) /\ chunk[u].ptr \in Blocks
    BY <1>1, <1>3, <2>1 DEF ChunkIInv, Owned, ChunkTyped, ChunkType
  <2>3. /\ mem.heap[chunk[u].ptr].state = "live" /\ chunk[u].off = 0
        /\ \A w \in ChunkVars \ {u} : chunk[w].ptr # chunk[u].ptr
    BY <1>3, <2>1, <2>2 DEF Sole
  <2>4. mem'.heap[chunk[u].ptr] = mem.heap[chunk[u].ptr]
    BY <2>1, <2>2, <2>3
  <2> QED  BY <1>1, <1>3, <2>1, <2>3, <2>4, EmptyType
<1>4. shared' \subseteq ChunkVars
  BY DEF ChunkIInv, ChunkTyped
<1> QED  BY <1>1, <1>2, <1>3, <1>4 DEF ChunkTyped, Owned, Sole


-----------------------------------------------------------------------------
(* The bytes of a chunk *)

LEMMA BytesType ==
  ASSUME NEW m \in MemType, NEW c \in ChunkType, WellPlaced(m, c)
  PROVE  /\ BytesIn(m, c) \in Seq(Nat) /\ Len(BytesIn(m, c)) = c.len
         /\ \A i \in 1 .. c.len : BytesIn(m, c)[i] = m.heap[c.ptr].bytes[c.off + i]
<1>1. c.off \in Nat /\ c.len \in Nat
  BY DEF ChunkType
<1>2. CASE c.len = 0
  BY <1>2, EmptySeq DEF BytesIn
<1>3. CASE c.len # 0
  <2>1. c.ptr # NULL /\ c.ptr \in Blocks
    BY <1>3, EmptyType DEF WellPlaced, ChunkType
  <2>2. PICK old : old = m.heap[c.ptr].bytes
    OBVIOUS
  <2>3. old \in Seq(Nat) /\ c.off + c.len <= Len(old) /\ Len(old) \in Nat
    BY <2>1, <2>2, LenProperties DEF MemType, BlockType, WellPlaced
  <2>4. \A i \in c.off + 1 .. c.off + c.len : old[i] \in Nat
    <3> SUFFICES ASSUME NEW i \in c.off + 1 .. c.off + c.len PROVE old[i] \in Nat
      OBVIOUS
    <3>1. i \in 1 .. Len(old)
      BY <1>1, <2>3
    <3> QED  BY <2>3, <3>1, ElementOfSeq
  <2>5. c.off + 1 \in Int /\ c.off + c.len \in Int
    BY <1>1
  <2>6. /\ SubSeq(old, c.off + 1, c.off + c.len) \in Seq(Nat)
        /\ Len(SubSeq(old, c.off + 1, c.off + c.len))
             = IF c.off + 1 <= c.off + c.len THEN (c.off + c.len) - (c.off + 1) + 1 ELSE 0
        /\ \A i \in 1 .. (c.off + c.len) - (c.off + 1) + 1 :
             SubSeq(old, c.off + 1, c.off + c.len)[i] = old[(c.off + 1) + i - 1]
    BY <2>4, <2>5, SubSeqProperties
  <2>7. (c.off + c.len) - (c.off + 1) + 1 = c.len /\ c.off + 1 <= c.off + c.len
        /\ \A i \in 1 .. c.len : (c.off + 1) + i - 1 = c.off + i
    BY <1>1, <1>3
  <2>8. BytesIn(m, c) = SubSeq(old, c.off + 1, c.off + c.len)
    BY <1>3, <2>2 DEF BytesIn
  <2> QED  BY <2>2, <2>6, <2>7, <2>8
<1> QED  BY <1>2, <1>3

\* Two chunks of one length with the same bytes at their places.
LEMMA SameBytes ==
  ASSUME NEW x \in Seq(Nat), NEW y \in Seq(Nat), Len(x) = Len(y),
         \A i \in 1 .. Len(x) : x[i] = y[i]
  PROVE  x = y
BY SeqEqual

LEMMA SkipIs ==
  ASSUME NEW m, NEW c \in ChunkType, WellPlaced(m, c), NEW k \in Nat
  PROVE  /\ chunkSkip(c, k) \in ChunkType /\ WellPlaced(m, chunkSkip(c, k))
         /\ chunkSkip(c, k).ptr \in {NULL, c.ptr}
         /\ chunkSkip(c, k) = IF c.len > k THEN [ptr |-> c.ptr, off |-> c.off + k, len |-> c.len - k]
                              ELSE ChunkEmpty
<1>1. PICK p, a, l : p = c.ptr /\ a = c.off /\ l = c.len /\ c = [ptr |-> p, off |-> a, len |-> l]
  BY DEF ChunkType
<1>2. p \in Blocks \cup {NULL} /\ a \in Nat /\ l \in Nat
  BY <1>1 DEF ChunkType
<1>3. chunkSkip(c, k) = IF l > k THEN [ptr |-> p, off |-> a + k, len |-> l - k] ELSE ChunkEmpty
  BY <1>1, <1>2 DEF chunkSkip, Moved
<1>4. CASE l > k
  <2>1. chunkSkip(c, k) = [ptr |-> p, off |-> a + k, len |-> l - k]
    BY <1>3, <1>4
  <2>2. a + k \in Nat /\ l - k \in Nat /\ (a + k) + (l - k) = a + l
    BY <1>2, <1>4
  <2>3. p # NULL
    <3>1. c.ptr = NULL => c = ChunkEmpty
      BY DEF WellPlaced
    <3>2. c = ChunkEmpty => c.len = 0
      BY EmptyType
    <3> QED  BY <1>1, <1>2, <1>4, <3>1, <3>2
  <2>4. PICK d : d = [ptr |-> p, off |-> a + k, len |-> l - k]
    OBVIOUS
  <2>5. d \in ChunkType /\ d.ptr = p /\ d.off + d.len = a + l
    BY <1>2, <2>2, <2>4 DEF ChunkType
  <2>6. m.heap[p].state # "unused" /\ a + l <= Len(m.heap[p].bytes)
    BY <1>1, <2>3 DEF WellPlaced
  <2>7. WellPlaced(m, d)
    BY <2>3, <2>5, <2>6 DEF WellPlaced
  <2> QED  BY <1>1, <1>4, <2>1, <2>4, <2>5, <2>7
<1>5. CASE ~(l > k)
  BY <1>1, <1>3, <1>5, EmptyType DEF WellPlaced
<1> QED  BY <1>4, <1>5

-----------------------------------------------------------------------------
(* One lemma for each call *)

LEMMA FillKeeps ==
  ASSUME ChunkIInv, ~mem.fault, NEW v \in ChunkVars, Fill(v)
  PROVE  ChunkIInv'
<1>1. PICK bytes \in Contents :
        /\ mem' = Allocated(mem, AnUnused(mem), bytes)
        /\ chunk' = [chunk EXCEPT ![v] = chunkCreate(AnUnused(mem), Len(bytes))]
  BY DEF Fill
<1>2. bytes \in Seq(Nat)
  BY ChunkAssumption
<1>3. AnUnused(mem) \in Blocks /\ mem.heap[AnUnused(mem)].state = "unused"
  BY UnusedIs DEF Fill, Unused
<1>4. mem \in MemType /\ shared' = shared /\ shared \subseteq ChunkVars
  BY DEF ChunkIInv, ChunkTyped, Fill
<1>5. ChunkTyped' /\ Owned'
  BY <1>1, <1>2, <1>3, <1>4, NewBlockKeeps
<1>6. mem'.fault = mem.fault
  <2>1. Allocated(mem, AnUnused(mem), bytes).fault = mem.fault
    BY <1>4 DEF Allocated, MemType
  <2> QED  BY <1>1, <2>1, Zenon
<1>7. CallsAreRight' /\ call'.causes \cap {"again", "letters"} = {}
  BY CallIsRecorded DEF Fill
<1>8. FaultsAreCaused'
  BY <1>6, <1>7, Zenon DEF FaultsAreCaused
<1> QED  BY <1>5, <1>7, <1>8 DEF ChunkIInv

\* A call that only reads a chunk, as far as memory goes.
LEMMA TouchKeepsFault ==
  ASSUME ChunkIInv, ~mem.fault, NEW v \in ChunkVars, mem' = Touch(mem, chunk[v]),
         v \in shared => call'.causes # {}, call'.causes \cap {"again", "letters"} = {}
  PROVE  FaultsAreCaused' /\ mem' \in MemType /\ mem'.heap = mem.heap
<1>1. mem \in MemType
  BY DEF ChunkIInv, ChunkTyped
<1>2. CASE v \in shared
  BY <1>1, <1>2, TouchIs DEF FaultsAreCaused
<1>3. CASE v \notin shared
  <2>1. mem' = mem
    BY <1>1, <1>3, OwnedIsAlive, TouchIs
  <2> QED  BY <1>1, <2>1 DEF FaultsAreCaused
<1> QED  BY <1>2, <1>3

LEMMA CloneKeeps ==
  ASSUME ChunkIInv, ~mem.fault, NEW v \in ChunkVars, NEW w \in ChunkVars, chunkCreateClone(v, w)
  PROVE  ChunkIInv'
<1>1. /\ CallsAreRight' /\ (v \in shared => call'.causes # {})
      /\ call'.causes \cap {"again", "letters"} = {}
  BY CallIsRecorded DEF chunkCreateClone
<1>2. FaultsAreCaused' /\ mem' \in MemType /\ mem'.heap = mem.heap
  BY <1>1, TouchKeepsFault DEF chunkCreateClone
<1>3. shared \subseteq ChunkVars /\ chunk[v] \in ChunkType /\ WellPlaced(mem, chunk[v])
  BY DEF ChunkIInv, ChunkTyped
<1>4. ChunkTyped' /\ Owned'
  <2>1. CASE chunk' = [chunk EXCEPT ![w] = chunk[v]] /\ shared' = shared \cup {v, w}
    BY <1>2, <1>3, <2>1, AssignmentKeeps
  <2>2. CASE UNCHANGED <<chunk, shared>>
    BY <1>2, <1>3, <2>2, SameBlocksKeep
  <2> QED  BY <2>1, <2>2 DEF chunkCreateClone
<1> QED  BY <1>1, <1>2, <1>4 DEF ChunkIInv

LEMMA SkipKeeps ==
  ASSUME ChunkIInv, ~mem.fault, NEW v \in ChunkVars, NEW k \in 0 .. 2, Skip(v, k)
  PROVE  ChunkIInv'
<1>1. CallsAreRight' /\ call'.causes \cap {"again", "letters"} = {}
  BY CallIsRecorded DEF Skip
<1>2. mem' = mem /\ FaultsAreCaused'
  BY <1>1 DEF Skip, FaultsAreCaused
<1>3. /\ shared \subseteq ChunkVars /\ chunk[v] \in ChunkType /\ WellPlaced(mem, chunk[v])
      /\ chunk \in [ChunkVars -> ChunkType] /\ mem \in MemType
  BY DEF ChunkIInv, ChunkTyped
<1>4. /\ chunkSkip(chunk[v], k) \in ChunkType /\ WellPlaced(mem, chunkSkip(chunk[v], k))
      /\ chunkSkip(chunk[v], k).ptr \in {NULL, chunk[v].ptr}
      /\ chunkSkip(chunk[v], k)
           = IF chunk[v].len > k THEN [ptr |-> chunk[v].ptr, off |-> chunk[v].off + k, len |-> chunk[v].len - k]
             ELSE ChunkEmpty
  BY <1>3, SkipIs
<1>5. chunk' = [chunk EXCEPT ![v] = chunkSkip(chunk[v], k)]
  BY DEF Skip
<1>6. ChunkTyped' /\ Owned'
  <2>1. CASE k > 0
    <3>1. shared' = shared \cup {v}
      BY <2>1 DEF Skip, Shares
    <3> QED  BY <1>2, <1>3, <1>4, <1>5, <3>1, AssignmentKeeps
  <2>2. CASE k = 0 /\ chunk[v].len > 0
    <3>1. shared' = shared
      BY <2>2 DEF Skip, Shares
    <3>2. [ptr |-> chunk[v].ptr, off |-> chunk[v].off + 0, len |-> chunk[v].len - 0] = chunk[v]
      BY <1>3 DEF ChunkType
    <3>3. chunkSkip(chunk[v], k) = chunk[v]
      BY <1>4, <2>2, <3>2
    <3>4. chunk' = chunk
      BY <1>3, <1>5, <3>3
    <3> QED  BY <1>2, <1>3, <3>1, <3>4, SameBlocksKeep
  <2>3. CASE k = 0 /\ ~(chunk[v].len > 0)
    <3>1. chunkSkip(chunk[v], k) = ChunkEmpty /\ shared' = shared
      BY <1>4, <2>3 DEF Skip, Shares
    <3> QED  BY <1>2, <1>3, <1>4, <1>5, <3>1, AssignmentKeeps, EmptyType
  <2> QED  BY <2>1, <2>2, <2>3
<1> QED  BY <1>1, <1>2, <1>6 DEF ChunkIInv

LEMMA SkipZeroKeeps ==
  ASSUME ChunkIInv, ~mem.fault, NEW v \in ChunkVars, SkipZero(v)
  PROVE  ChunkIInv'
<1>1. /\ CallsAreRight' /\ (v \in shared => call'.causes # {})
      /\ call'.causes \cap {"again", "letters"} = {}
  BY CallIsRecorded DEF SkipZero
<1>2. FaultsAreCaused' /\ mem' \in MemType /\ mem'.heap = mem.heap
  <2>1. CASE mem' = Touch(mem, chunk[v])
    BY <1>1, <2>1, TouchKeepsFault
  <2>2. CASE mem' = mem
    BY <1>1, <2>2 DEF FaultsAreCaused, ChunkIInv, ChunkTyped
  <2> QED  BY <2>1, <2>2 DEF SkipZero
<1>3. /\ shared \subseteq ChunkVars /\ chunk[v] \in ChunkType /\ WellPlaced(mem, chunk[v])
      /\ chunk \in [ChunkVars -> ChunkType] /\ mem \in MemType
  BY DEF ChunkIInv, ChunkTyped
<1>4. ChunkTyped' /\ Owned'
  <2>1. CASE chunk' = chunk
    <3>1. shared' = shared
      BY <2>1 DEF SkipZero, Shares
    <3> QED  BY <1>2, <1>3, <2>1, <3>1, SameBlocksKeep
  <2>2. CASE chunk' # chunk
    <3>1. PICK p, a, l : /\ p = chunk[v].ptr /\ a = chunk[v].off /\ l = chunk[v].len
                         /\ chunk[v] = [ptr |-> p, off |-> a, len |-> l]
                         /\ p \in Blocks \cup {NULL} /\ a \in Nat /\ l \in Nat
      BY <1>3 DEF ChunkType
    <3>2. chunk' = [chunk EXCEPT ![v] = chunkSkipZero(chunk[v])] /\ shared' = shared \cup {v}
      BY <2>2 DEF SkipZero, Shares
    <3>3. chunkSkipZero(chunk[v]) \in {chunk[v], [ptr |-> p, off |-> a + 1, len |-> l - 1]}
          /\ (chunkSkipZero(chunk[v]) # chunk[v] => l > 1)
      BY <3>1 DEF chunkSkipZero, Moved
    <3>4. chunkSkipZero(chunk[v]) # chunk[v]
      BY <1>3, <2>2, <3>2
    <3>5. PICK c : c = [ptr |-> p, off |-> a + 1, len |-> l - 1]
      OBVIOUS
    <3>6. chunkSkipZero(chunk[v]) = c /\ l > 1
      BY <3>3, <3>4, <3>5
    <3>7. c \in ChunkType /\ c.ptr = p /\ c.off + c.len = a + l
      BY <3>1, <3>5, <3>6 DEF ChunkType
    <3>8. p # NULL
      BY <1>3, <3>1, <3>6, EmptyType DEF WellPlaced
    <3>9. WellPlaced(mem, c)
      BY <1>3, <3>1, <3>7, <3>8 DEF WellPlaced
    <3> QED  BY <1>2, <1>3, <3>1, <3>2, <3>6, <3>7, <3>9, AssignmentKeeps
  <2> QED  BY <2>1, <2>2
<1> QED  BY <1>1, <1>2, <1>4 DEF ChunkIInv

LEMMA FreeKeeps ==
  ASSUME ChunkIInv, ~mem.fault, NEW v \in ChunkVars, chunkFree(v) \/ chunkClear(v)
  PROVE  ChunkIInv'
<1>1. /\ CallsAreRight' /\ (v \in shared => call'.causes # {})
      /\ call'.causes \cap {"again", "letters"} = {}
  BY CallIsRecorded DEF chunkFree, chunkClear
<1>2. mem \in MemType /\ chunk[v] \in ChunkType
  BY DEF ChunkIInv, ChunkTyped
<1>3. /\ mem' \in MemType
      /\ \A b \in Blocks : /\ Len(mem'.heap[b].bytes) = Len(mem.heap[b].bytes)
                           /\ mem'.heap[b].state = "unused" <=> mem.heap[b].state = "unused"
                           /\ b # chunk[v].ptr => mem'.heap[b] = mem.heap[b]
      /\ (chunk[v].ptr # NULL => chunk[v].off = 0 /\ mem.heap[chunk[v].ptr].state = "live")
           => mem'.fault = mem.fault
  <2>1. CASE mem' = Released(mem, chunk[v])
    BY <1>2, <2>1, ReleasedIs
  <2>2. CASE mem' = Cleared(mem, chunk[v])
    BY <1>2, <2>2, ClearedIs
  <2> QED  BY <2>1, <2>2 DEF chunkFree, chunkClear
<1>4. chunk' = [chunk EXCEPT ![v] = ChunkEmpty] /\ shared' = shared
  BY DEF chunkFree, chunkClear, Emptied
<1>5. ChunkTyped' /\ Owned'
  BY <1>3, <1>4, ReleaseKeeps
<1>6. FaultsAreCaused'
  <2>1. CASE v \in shared
    BY <1>1, <2>1 DEF FaultsAreCaused
  <2>2. CASE v \notin shared
    <3>1. mem'.fault = mem.fault
      BY <1>3, <2>2, OwnedIsAlive
    <3> QED  BY <1>1, <3>1, Zenon DEF FaultsAreCaused
  <2> QED  BY <2>1, <2>2
<1> QED  BY <1>1, <1>5, <1>6 DEF ChunkIInv

LEMMA PrintKeeps ==
  ASSUME ChunkIInv, ~mem.fault, NEW v \in ChunkVars, chunkPrintfHook(v)
  PROVE  ChunkIInv'
<1>1. /\ CallsAreRight' /\ (v \in shared => call'.causes # {})
      /\ call'.causes \cap {"again", "letters"} = {}
  BY CallIsRecorded DEF chunkPrintfHook
<1>2. FaultsAreCaused' /\ mem' \in MemType /\ mem'.heap = mem.heap
  BY <1>1, TouchKeepsFault DEF chunkPrintfHook
<1>3. UNCHANGED <<chunk, shared>> /\ shared \subseteq ChunkVars
  BY DEF chunkPrintfHook, ChunkIInv, ChunkTyped
<1>4. ChunkTyped' /\ Owned'
  BY <1>2, <1>3, SameBlocksKeep
<1> QED  BY <1>1, <1>2, <1>4 DEF ChunkIInv


\* Numbers of 32 bits stay what they are.
LEMMA ToInt32Small ==
  ASSUME NEW i \in Int, -HalfRange <= i, i < HalfRange
  PROVE  ToInt32(i) = i
<1> DEFINE M == 2 * HalfRange
<1>1. HalfRange \in Nat /\ HalfRange > 0 /\ M \in Nat /\ M > 0
  BY ChunkAssumption
<1>2. PICK r, d : r = i % M /\ d = i \div M
  OBVIOUS
<1> HIDE DEF M
<1>3. d \in Int /\ r \in Int /\ 0 <= r /\ r < M /\ i = M * d + r
  BY <1>1, <1>2
<1>4. CASE d = 0
  <2>1. r = i /\ ~(r >= HalfRange)
    BY <1>1, <1>3, <1>4
  <2> QED  BY <1>2, <2>1 DEF ToInt32, M
<1>5. CASE d = -1
  <2>1. M * d = -M
    BY <1>1, <1>5
  <2>2. r = i + M /\ M = 2 * HalfRange
    BY <1>1, <1>3, <2>1 DEF M
  <2>3. r >= HalfRange /\ r - 2 * HalfRange = i
    BY <1>1, <2>2
  <2> QED  BY <1>2, <2>3 DEF ToInt32, M
<1>6. CASE d >= 1
  <2>1. M * d >= M /\ M * d \in Int
    BY <1>1, <1>3, <1>6
  <2> QED  BY <1>1, <1>3, <2>1 DEF M
<1>7. CASE d <= -2
  <2>1. M * d <= -(2 * M) /\ M * d \in Int
    BY <1>1, <1>3, <1>7
  <2> QED  BY <1>1, <1>3, <2>1 DEF M
<1> QED  BY <1>3, <1>4, <1>5, <1>6, <1>7

\* Greater ones lose the bit that is too much.
LEMMA ToInt32Wraps ==
  ASSUME NEW i \in Int
  PROVE  /\ HalfRange <= i /\ i < 2 * HalfRange => ToInt32(i) = i - 2 * HalfRange
         /\ -(2 * HalfRange) <= i /\ i < -HalfRange => ToInt32(i) = i + 2 * HalfRange
<1> DEFINE M == 2 * HalfRange
<1>1. HalfRange \in Nat /\ HalfRange > 0 /\ M \in Nat /\ M > 0 /\ M = HalfRange + HalfRange
  BY ChunkAssumption
<1>2. PICK r, d : r = i % M /\ d = i \div M
  OBVIOUS
<1>3. ToInt32(i) = IF r >= HalfRange THEN r - M ELSE r
  BY <1>2 DEF ToInt32
<1> HIDE DEF M
<1>4. d \in Int /\ r \in Int /\ 0 <= r /\ r < M /\ i = M * d + r
  BY <1>1, <1>2
<1>5. (d >= 1 => M * d >= M) /\ (d <= -1 => M * d <= -M) /\ (d >= 2 => M * d >= 2 * M)
      /\ (d <= -2 => M * d <= -(2 * M)) /\ (d = 0 => M * d = 0) /\ (d = -1 => M * d = -M) /\ M * d \in Int
  BY <1>1, <1>4
<1>6. ASSUME HalfRange <= i, i < M PROVE ToInt32(i) = i - M
  <2>1. d = 0
    BY <1>1, <1>4, <1>5, <1>6
  <2>2. r = i
    BY <1>4, <1>5, <2>1
  <2> QED  BY <1>1, <1>3, <1>6, <2>2
<1>7. ASSUME -M <= i, i < -HalfRange PROVE ToInt32(i) = i + M
  <2>1. d = -1
    BY <1>1, <1>4, <1>5, <1>7
  <2>2. r = i + M
    BY <1>1, <1>4, <1>5, <2>1
  <2>3. ~(r >= HalfRange)
    BY <1>1, <1>7, <2>2
  <2> QED  BY <1>3, <2>2, <2>3
<1> QED  BY <1>6, <1>7 DEF M

LEMMA OrderIsRight ==
  ASSUME NEW m \in MemType, NEW a \in ChunkType, NEW b \in ChunkType,
         m = mem, WellPlaced(m, a), WellPlaced(m, b),
         ~Overflowing(a.len, b.len)
  PROVE  /\ Sign(chunkCompare(a, b)) = ByteOrder(BytesIn(m, a), BytesIn(m, b))
         /\ CompareLen(a, b) = 0 => a.len = b.len /\ MemcmpLen(a, b) = a.len
<1>1. a.len \in Nat /\ b.len \in Nat /\ HalfRange \in Nat
  BY ChunkAssumption DEF ChunkType
<1>2. PICK k, l : k = a.len /\ l = b.len
  OBVIOUS
<1>3. k - l \in Int /\ -HalfRange <= k - l /\ k - l < HalfRange /\ (k = l => l < HalfRange)
  <2>1. (k = l => ~(l >= HalfRange)) /\ (k # l => k - l \in -HalfRange .. HalfRange - 1)
    BY <1>2 DEF Overflowing
  <2>2. HalfRange > 0
    BY ChunkAssumption
  <2> QED  BY <1>1, <1>2, <2>1, <2>2
<1>4. CompareLen(a, b) = k - l
  BY <1>2, <1>3, ToInt32Small DEF CompareLen
<1>5. CompareLen(a, b) = 0 => a.len = b.len /\ MemcmpLen(a, b) = a.len
  <2> SUFFICES ASSUME CompareLen(a, b) = 0 PROVE a.len = b.len /\ MemcmpLen(a, b) = a.len
    OBVIOUS
  <2>1. k = l /\ ~(CompareLen(a, b) < 0)
    BY <1>1, <1>2, <1>4
  <2>2. -HalfRange <= l /\ l < HalfRange /\ l \in Int
    BY <1>1, <1>2, <1>3, <2>1
  <2>3. MemcmpLen(a, b) = l
    BY <1>2, <2>1, <2>2, ToInt32Small DEF MemcmpLen
  <2> QED  BY <1>2, <2>1, <2>3
<1>6. PICK x, y : x = BytesIn(m, a) /\ y = BytesIn(m, b)
  OBVIOUS
<1>7. Len(x) = k /\ Len(y) = l
  BY <1>2, <1>6, BytesType
<1>8. memcmp(x, y, k) \in {-1, 0, 1}
  BY DEF memcmp
<1>9. Sign(chunkCompare(a, b)) = ByteOrder(x, y)
  <2>1. CASE k # l
    <3>1. chunkCompare(a, b) = k - l
      BY <1>1, <1>2, <1>4, <2>1 DEF chunkCompare
    <3>2. ByteOrder(x, y) = IF k < l THEN -1 ELSE 1
      BY <1>7, <2>1 DEF ByteOrder
    <3> QED  BY <1>1, <1>2, <2>1, <3>1, <3>2 DEF Sign
  <2>2. CASE k = l
    <3>1. CompareLen(a, b) = 0 /\ MemcmpLen(a, b) = k
      BY <1>1, <1>2, <1>4, <1>5, <2>2
    <3>2. ByteOrder(x, y) = memcmp(x, y, k)
      BY <1>7, <2>2 DEF ByteOrder
    <3>3. CASE k = 0
      <4>1. chunkCompare(a, b) = 0
        BY <3>1, <3>3 DEF chunkCompare
      <4>2. memcmp(x, y, k) = 0
        BY <3>3 DEF memcmp
      <4> QED  BY <3>2, <4>1, <4>2 DEF Sign
    <3>4. CASE k # 0
      <4>1. chunkCompare(a, b) = memcmp(x, y, k)
        BY <1>6, <3>1, <3>4 DEF chunkCompare
      <4> QED  BY <1>8, <3>2, <4>1 DEF Sign
    <3> QED  BY <3>3, <3>4
  <2> QED  BY <2>1, <2>2
<1> QED  BY <1>5, <1>6, <1>9

\* Where the 32 bits decide, they decide wrongly, or memcmp() reads too much.
LEMMA OrderIsWrong ==
  ASSUME NEW a \in ChunkType, NEW b \in ChunkType, Overflowing(a.len, b.len),
         a.len < 2 * HalfRange, b.len < 2 * HalfRange
  PROVE  /\ a.len = b.len => a.len > 0 /\ CompareLen(a, b) = 0 /\ MemcmpLen(a, b) < 0
         /\ a.len # b.len => \A x, y : Len(x) = a.len /\ Len(y) = b.len =>
                                Sign(chunkCompare(a, b)) # ByteOrder(x, y)
<1>1. PICK k, l : k = a.len /\ l = b.len
  OBVIOUS
<1>2. k \in Nat /\ l \in Nat /\ HalfRange \in Nat /\ HalfRange > 0 /\ k < 2 * HalfRange /\ l < 2 * HalfRange
  BY <1>1, ChunkAssumption DEF ChunkType
<1>3. (k = l => l >= HalfRange) /\ (k # l => k - l \notin -HalfRange .. HalfRange - 1)
  BY <1>1 DEF Overflowing
<1>4. CompareLen(a, b) = ToInt32(k - l) /\ k - l \in Int
  BY <1>1, <1>2 DEF CompareLen
<1>5. ASSUME k = l
      PROVE  k > 0 /\ CompareLen(a, b) = 0 /\ MemcmpLen(a, b) < 0
  <2>1. k - l = 0 /\ -HalfRange <= 0 /\ 0 < HalfRange
    BY <1>2, <1>5
  <2>2. CompareLen(a, b) = 0
    BY <1>4, <2>1, ToInt32Small
  <2>3. MemcmpLen(a, b) = ToInt32(l)
    BY <1>1, <2>2 DEF MemcmpLen
  <2>4. ToInt32(l) = l - 2 * HalfRange
    BY <1>2, <1>3, <1>5, ToInt32Wraps
  <2> QED  BY <1>2, <1>3, <1>5, <2>2, <2>3, <2>4
<1>6. ASSUME k # l, NEW x, NEW y, Len(x) = k, Len(y) = l
      PROVE  Sign(chunkCompare(a, b)) # ByteOrder(x, y)
  <2>1. k - l >= HalfRange \/ k - l < -HalfRange
    BY <1>2, <1>3, <1>6
  <2>2. ByteOrder(x, y) = IF k < l THEN -1 ELSE 1
    BY <1>6 DEF ByteOrder
  <2>3. CASE k - l >= HalfRange
    <3>1. CompareLen(a, b) = (k - l) - 2 * HalfRange
      BY <1>2, <1>4, <2>3, ToInt32Wraps
    <3>2. CompareLen(a, b) < 0 /\ CompareLen(a, b) \in Int
      BY <1>2, <3>1
    <3>3. chunkCompare(a, b) = CompareLen(a, b)
      BY <3>2 DEF chunkCompare
    <3>4. Sign(chunkCompare(a, b)) = -1
      BY <3>2, <3>3 DEF Sign
    <3> QED  BY <1>2, <2>2, <2>3, <3>4
  <2>4. CASE k - l < -HalfRange
    <3>1. CompareLen(a, b) = (k - l) + 2 * HalfRange
      BY <1>2, <1>4, <2>4, ToInt32Wraps
    <3>2. CompareLen(a, b) > 0 /\ CompareLen(a, b) \in Int
      BY <1>2, <3>1
    <3>3. chunkCompare(a, b) = CompareLen(a, b)
      BY <3>2 DEF chunkCompare
    <3>4. Sign(chunkCompare(a, b)) = 1
      BY <3>2, <3>3 DEF Sign
    <3> QED  BY <1>2, <2>2, <2>4, <3>4
  <2> QED  BY <2>1, <2>3, <2>4
<1> QED  BY <1>1, <1>5, <1>6

LEMMA CompareKeeps ==
  ASSUME ChunkIInv, ~mem.fault, NEW v \in ChunkVars, NEW w \in ChunkVars, Compare(v, w)
  PROVE  ChunkIInv'
<1> DEFINE a == chunk[v]
           b == chunk[w]
           read == a.len > 0 /\ b.len > 0 /\ CompareLen(a, b) = 0
           others == CompareCauses(a.len, b.len)
           m == IF read THEN Touch(Touch(mem, a), b) ELSE mem
           equal == NULL \notin {a.ptr, b.ptr} /\ Content(v) = Content(w)
           got == <<Sign(chunkCompare(a, b)), chunkEquals(a, b)>>
           want == <<ByteOrder(Content(v), Content(w)), equal>>
<1>1. /\ mem' = IF read /\ MemcmpLen(a, b) < 0 THEN Fault(m) ELSE m
      /\ Compared("compare", {v, w}, others, got, want)
      /\ UNCHANGED <<chunk, shared>>
  BY DEF Compare
<1>2. /\ mem \in MemType /\ shared \subseteq ChunkVars
      /\ a \in ChunkType /\ b \in ChunkType /\ WellPlaced(mem, a) /\ WellPlaced(mem, b)
  BY DEF ChunkIInv, ChunkTyped
<1>3. m \in MemType /\ m.heap = mem.heap
  BY <1>2, TouchIs
<1>4. mem' \in MemType /\ mem'.heap = mem.heap
  BY <1>1, <1>3, FaultIs
<1>5. ChunkTyped' /\ Owned'
  BY <1>1, <1>2, <1>4, SameBlocksKeep
<1>6. /\ others = {} => ~Overflowing(a.len, b.len)
      /\ "width" \in others =>
           Overflowing(a.len, b.len) /\ a.len < 2 * HalfRange /\ b.len < 2 * HalfRange
      /\ others \subseteq {"width", "range"}
  BY DEF CompareCauses
<1>7. chunkEquals(a, b) = equal
  BY Zenon DEF chunkEquals, Content
<1>8. others = {} => Sign(chunkCompare(a, b)) = ByteOrder(Content(v), Content(w))
  BY <1>2, <1>6, OrderIsRight DEF Content
<1>9. others = {} => got = want
  <2> HIDE DEF equal, others, a, b
  <2> QED  BY <1>7, <1>8, Zenon
<1>10. ASSUME "width" \in others PROVE mem'.fault \/ got # want
  <2>1. /\ a.len = b.len => a.len > 0 /\ CompareLen(a, b) = 0 /\ MemcmpLen(a, b) < 0
        /\ a.len # b.len => \A x, y : Len(x) = a.len /\ Len(y) = b.len =>
                               Sign(chunkCompare(a, b)) # ByteOrder(x, y)
    BY <1>2, <1>6, <1>10, OrderIsWrong
  <2>2. CASE a.len = b.len
    <3>1. mem' = Fault(m)
      BY <1>1, <2>1, <2>2
    <3> HIDE DEF m
    <3>2. Fault(m).fault = TRUE
      BY <1>3 DEF Fault, MemType
    <3> QED  BY <3>1, <3>2, Zenon
  <2>3. CASE a.len # b.len
    <3>1. Len(Content(v)) = a.len /\ Len(Content(w)) = b.len
      BY <1>2, BytesType DEF Content
    <3>2. Sign(chunkCompare(a, b)) # ByteOrder(Content(v), Content(w))
      BY <2>1, <2>3, <3>1
    <3>3. got[1] = Sign(chunkCompare(a, b)) /\ want[1] = ByteOrder(Content(v), Content(w))
      OBVIOUS
    <3> HIDE DEF got, want, a, b
    <3> QED  BY <3>2, <3>3, Zenon
  <2> QED  BY <2>2, <2>3
<1>11. /\ call'.fn = "compare" /\ call'.right = (got = want) /\ others \subseteq call'.causes
       /\ others # {} \/ {v, w} \cap shared # {} => call'.causes # {}
       /\ \A x \in call'.causes : x \in others \cup {"alias", "clone"}
  <2> HIDE DEF got, want, others, a, b
  <2> QED  BY <1>1, ResultIsRecorded
<1> HIDE DEF got, want, others
<1>12. CallsAreRight'
  <2>1. call'.causes = {} => call'.right
    <3>1. call'.causes = {} => others = {}
      BY <1>11
    <3> QED  BY <1>9, <1>11, <3>1, Zenon
  <2>2. "width" \in call'.causes => mem'.fault \/ ~call'.right
    <3>1. "width" \in call'.causes => "width" \in others
      BY <1>11
    <3> QED  BY <1>10, <1>11, <3>1, Zenon
  <2> QED  BY <2>1, <2>2, Zenon DEF CallsAreRight
<1>13. call'.causes \cap {"again", "letters"} = {}
  BY <1>6, <1>11
<1>14. mem'.fault => call'.causes # {}
  <2>1. CASE others # {} \/ {v, w} \cap shared # {}
    BY <1>11, <2>1
  <2>2. CASE others = {} /\ {v, w} \cap shared = {}
    <3>1. ~Dead(mem, a) /\ ~Dead(mem, b)
      BY <2>2, OwnedIsAlive
    <3>2. m = mem
      BY <1>2, <3>1, TouchIs
    <3>3. read => ~(MemcmpLen(a, b) < 0)
      <4>1. ~Overflowing(a.len, b.len) /\ a.len \in Nat
        BY <1>2, <1>6, <2>2 DEF ChunkType
      <4>2. CompareLen(a, b) = 0 => MemcmpLen(a, b) = a.len
        BY <1>2, <4>1, OrderIsRight
      <4> QED  BY <4>1, <4>2
    <3>4. mem' = mem
      BY <1>1, <3>2, <3>3
    <3> QED  BY <3>4, Zenon
  <2> QED  BY <2>1, <2>2
<1>15. FaultsAreCaused'
  BY <1>13, <1>14, Zenon DEF FaultsAreCaused
<1> QED  BY <1>5, <1>12, <1>15 DEF ChunkIInv


-----------------------------------------------------------------------------
(* Concatenation *)

CatArg == [mode : Modes, v : ChunkVars]

LEMMA CatArgsType ==
  ASSUME NEW args \in CatArgs
  PROVE  /\ Len(args) \in 0 .. 2 /\ DOMAIN args = 1 .. Len(args)
         /\ \A i \in DOMAIN args : args[i] \in CatArg
<1>1. PICK k \in 0 .. 2 : args \in [1 .. k -> CatArg]
  BY DEF CatArgs, CatArg
<1>2. Len(args) = k
  BY <1>1
<1> QED  BY <1>1, <1>2

\* Only chunks the program owns, and none again after it was given away.
CatFair(args) ==
  /\ \A i \in DOMAIN args : args[i].v \notin shared
  /\ ~PassedAgain(args)

\* After j arguments: only the blocks of those that were given away have changed.
CatGood(args, j, s) ==
  /\ s.mem \in MemType /\ s.out \in Seq(Nat)
  /\ \A b \in Blocks :
       /\ s.mem.heap[b].state = "unused" <=> mem.heap[b].state = "unused"
       /\ Len(s.mem.heap[b].bytes) = Len(mem.heap[b].bytes)
       /\ s.mem.heap[b] # mem.heap[b]
            => \E i \in 1 .. j : args[i].mode # "c" /\ b = chunk[args[i].v].ptr
  /\ CatFair(args) => ~s.mem.fault

LEMMA CatStepIsGood ==
  ASSUME ChunkIInv, NEW args \in CatArgs, NEW j \in Nat, j + 1 \in DOMAIN args,
         NEW s, CatGood(args, j, s)
  PROVE  /\ CatGood(args, j + 1, CatStep(s, args[j + 1]))
         /\ CatFair(args) => CatStep(s, args[j + 1]).out = s.out \o Content(args[j + 1].v)
<1> DEFINE a == args[j + 1]
           c == chunk[a.v]
           t == CatStep(s, a)
           m == Touch(s.mem, c)
<1>1. a \in CatArg /\ a.v \in ChunkVars /\ a.mode \in Modes
  BY CatArgsType DEF CatArg
<1>2. mem \in MemType /\ c \in ChunkType /\ WellPlaced(mem, c)
  BY <1>1 DEF ChunkIInv, ChunkTyped
<1>3. /\ s.mem \in MemType /\ s.out \in Seq(Nat)
      /\ \A b \in Blocks :
           /\ s.mem.heap[b].state = "unused" <=> mem.heap[b].state = "unused"
           /\ Len(s.mem.heap[b].bytes) = Len(mem.heap[b].bytes)
           /\ s.mem.heap[b] # mem.heap[b]
                => \E i \in 1 .. j : args[i].mode # "c" /\ b = chunk[args[i].v].ptr
      /\ CatFair(args) => ~s.mem.fault
  BY DEF CatGood
<1>4. /\ t.out = s.out \o BytesIn(s.mem, c)
      /\ a.mode = "s" => t.mem = Cleared(m, c)
      /\ a.mode = "m" => t.mem = Released(m, c)
      /\ a.mode = "c" => t.mem = m
  BY DEF CatStep
<1>5. WellPlaced(s.mem, c)
  <2>1. c.ptr # NULL => c.ptr \in Blocks
    BY <1>2 DEF ChunkType
  <2> QED  BY <1>2, <1>3, <2>1, StaysPlaced
<1>6. t.out \in Seq(Nat)
  <2>1. BytesIn(s.mem, c) \in Seq(Nat)
    BY <1>2, <1>3, <1>5, BytesType
  <2> QED  BY <1>3, <1>4, <2>1, ConcatProperties
<1>7. m \in MemType /\ m.heap = s.mem.heap /\ (~Dead(s.mem, c) => m = s.mem)
  BY <1>3, TouchIs
\* What the owner of a chunk passes is as it was, where it is read or freed.
<1>8. CatFair(args) /\ c.ptr # NULL /\ (c.len > 0 \/ a.mode # "c")
        => s.mem.heap[c.ptr] = mem.heap[c.ptr] /\ mem.heap[c.ptr].state = "live" /\ c.off = 0
  <2> SUFFICES ASSUME CatFair(args), c.ptr # NULL, c.len > 0 \/ a.mode # "c"
               PROVE  s.mem.heap[c.ptr] = mem.heap[c.ptr] /\ mem.heap[c.ptr].state = "live" /\ c.off = 0
    OBVIOUS
  <2>1. a.v \in ChunkVars \ shared
    BY <1>1 DEF CatFair
  <2>2. Sole(mem, chunk, a.v) /\ c.ptr \in Blocks
    BY <1>2, <2>1 DEF ChunkIInv, Owned, ChunkType
  <2>3. ASSUME NEW i \in 1 .. j, args[i].mode # "c", c.ptr = chunk[args[i].v].ptr PROVE FALSE
    <3>1. i \in DOMAIN args /\ i < j + 1
      BY CatArgsType
    <3>2. args[i].v \in ChunkVars
      BY <3>1, CatArgsType DEF CatArg
    <3>3. args[i].v = a.v
      BY <2>2, <2>3, <3>2 DEF Sole
    <3> QED  BY <2>3, <3>1, <3>3 DEF CatFair, PassedAgain
  <2>4. s.mem.heap[c.ptr] = mem.heap[c.ptr]
    BY <1>3, <2>2, <2>3
  <2> QED  BY <2>2, <2>4 DEF Sole
<1>9. CatFair(args) => m = s.mem
  <2> SUFFICES ASSUME CatFair(args) PROVE ~Dead(s.mem, c)
    BY <1>7
  <2>1. CASE ~(c.ptr # NULL /\ c.len > 0)
    BY <1>2, <2>1, EmptyType DEF Dead, WellPlaced
  <2>2. CASE c.ptr # NULL /\ c.len > 0
    BY <1>8, <2>2 DEF Dead
  <2> QED  BY <2>1, <2>2
<1> HIDE DEF m, t
<1>10. /\ t.mem \in MemType
       /\ \A b \in Blocks :
            /\ t.mem.heap[b].state = "unused" <=> m.heap[b].state = "unused"
            /\ Len(t.mem.heap[b].bytes) = Len(m.heap[b].bytes)
            /\ t.mem.heap[b] # m.heap[b] => a.mode # "c" /\ b = c.ptr
       /\ (c.ptr # NULL /\ a.mode # "c" => c.off = 0 /\ m.heap[c.ptr].state = "live")
            => t.mem.fault = m.fault
  <2>1. CASE a.mode = "s"
    <3>1. PICK r : r = Cleared(m, c)
      OBVIOUS
    <3>2. /\ r \in MemType
          /\ \A b \in Blocks : /\ Len(r.heap[b].bytes) = Len(m.heap[b].bytes)
                               /\ r.heap[b].state = "unused" <=> m.heap[b].state = "unused"
                               /\ b # c.ptr => r.heap[b] = m.heap[b]
          /\ (c.ptr # NULL => c.off = 0 /\ m.heap[c.ptr].state = "live") => r.fault = m.fault
      BY <1>2, <1>7, <3>1, ClearedIs
    <3>3. t.mem = r
      BY <1>4, <2>1, <3>1
    <3> HIDE DEF a, c
    <3> QED  BY <2>1, <3>2, <3>3
  <2>2. CASE a.mode = "m"
    <3>1. PICK r : r = Released(m, c)
      OBVIOUS
    <3>2. /\ r \in MemType
          /\ \A b \in Blocks : /\ r.heap[b].bytes = m.heap[b].bytes
                               /\ r.heap[b].state = "unused" <=> m.heap[b].state = "unused"
                               /\ b # c.ptr => r.heap[b] = m.heap[b]
          /\ (c.ptr # NULL => c.off = 0 /\ m.heap[c.ptr].state = "live") => r.fault = m.fault
      BY <1>2, <1>7, <3>1, ReleasedIs
    <3>3. t.mem = r
      BY <1>4, <2>2, <3>1
    <3> HIDE DEF a, c
    <3> QED  BY <2>2, <3>2, <3>3
  <2>3. CASE a.mode = "c"
    BY <1>4, <1>7, <2>3
  <2> QED  BY <1>1, <2>1, <2>2, <2>3 DEF Modes
<1>11. CatFair(args) => ~t.mem.fault
  <2>1. CatFair(args) => (c.ptr # NULL /\ a.mode # "c" => c.off = 0 /\ m.heap[c.ptr].state = "live")
    BY <1>7, <1>8
  <2>2. CatFair(args) => ~m.fault
    BY <1>3, <1>9
  <2>3. CatFair(args) => t.mem.fault = m.fault
    BY <1>10, <2>1
  <2> QED  BY <2>2, <2>3, Zenon
<1>12. ASSUME NEW b \in Blocks
       PROVE  /\ t.mem.heap[b].state = "unused" <=> mem.heap[b].state = "unused"
              /\ Len(t.mem.heap[b].bytes) = Len(mem.heap[b].bytes)
  BY <1>3, <1>7, <1>10
<1>13. ASSUME NEW b \in Blocks, t.mem.heap[b] # mem.heap[b]
       PROVE  \E i \in 1 .. j + 1 : args[i].mode # "c" /\ b = chunk[args[i].v].ptr
  <2>1. CASE t.mem.heap[b] # m.heap[b]
    BY <1>10, <2>1
  <2>2. CASE t.mem.heap[b] = m.heap[b]
    BY <1>3, <1>7, <1>13, <2>2
  <2> QED  BY <2>1, <2>2
<1>14. CatGood(args, j + 1, t)
  BY <1>6, <1>10, <1>11, <1>12, <1>13 DEF CatGood
<1>15. CatFair(args) => BytesIn(s.mem, c) = Content(a.v)
  <2>1. CASE c.len = 0
    BY <2>1 DEF BytesIn, Content
  <2>2. CASE c.len # 0
    <3>1. c.ptr # NULL /\ c.len > 0
      BY <1>2, <2>2, EmptyType DEF WellPlaced, ChunkType
    <3> QED  BY <1>8, <2>2, <3>1 DEF BytesIn, Content
  <2> QED  BY <2>1, <2>2
<1> QED  BY <1>4, <1>14, <1>15 DEF t

\* The states of the loop over at most two arguments.
LEMMA ConcatenatedIs ==
  ASSUME NEW args \in CatArgs
  PROVE  LET s0 == [mem |-> mem, out |-> <<>>]
         IN  /\ Len(args) = 0 => Concatenated(args) = s0
             /\ Len(args) = 1 => Concatenated(args) = CatStep(s0, args[1])
             /\ Len(args) = 2 => Concatenated(args) = CatStep(CatStep(s0, args[1]), args[2])
<1> DEFINE s0 == [mem |-> mem, out |-> <<>>]
           s1 == CatStep(s0, args[1])
           s2 == CatStep(s1, args[2])
           R(f) == f = [i \in 0 .. Len(args) |-> IF i = 0 THEN s0 ELSE CatStep(f[i - 1], args[i])]
           c == CHOOSE f : R(f)
           w == [i \in 0 .. Len(args) |-> IF i = 0 THEN s0 ELSE IF i = 1 THEN s1 ELSE s2]
<1>1. Concatenated(args) = c[Len(args)]
  BY DEF Concatenated
<1> HIDE DEF s0
<1>2. Len(args) \in 0 .. 2
  BY CatArgsType
<1>3. R(w)
  <2>1. w[0] = s0 /\ (Len(args) >= 1 => w[1] = s1) /\ (Len(args) >= 2 => w[2] = s2)
    BY <1>2
  <2>2. \A i \in 0 .. Len(args) : w[i] = IF i = 0 THEN s0 ELSE CatStep(w[i - 1], args[i])
    BY <1>2, <2>1
  <2> QED  BY <2>2
<1>4. R(c)
  BY <1>3, Zenon
<1> HIDE DEF c
<1>5. /\ c[0] = s0
      /\ Len(args) >= 1 => c[1] = CatStep(c[0], args[1])
      /\ Len(args) >= 2 => c[2] = CatStep(c[1], args[2])
  BY <1>2, <1>4
<1>6. Len(args) = 0 => Concatenated(args) = s0
  BY <1>1, <1>5
<1>7. Len(args) = 1 => Concatenated(args) = CatStep(s0, args[1])
  BY <1>1, <1>5
<1>8. Len(args) = 2 => Concatenated(args) = CatStep(CatStep(s0, args[1]), args[2])
  BY <1>1, <1>5
<1> QED  BY <1>6, <1>7, <1>8 DEF s0

LEMMA ChunkLenIs ==
  ASSUME ChunkIInv, NEW args \in CatArgs
  PROVE  /\ Len(args) = 0 => chunkLen(args) = 0
         /\ Len(args) = 1 => chunkLen(args) = chunk[args[1].v].len
         /\ Len(args) = 2 => chunkLen(args) = chunk[args[1].v].len + chunk[args[2].v].len
<1> DEFINE k1 == chunk[args[1].v].len
           k2 == chunk[args[2].v].len
           R(f) == f = [i \in 0 .. Len(args) |-> IF i = 0 THEN 0 ELSE f[i - 1] + chunk[args[i].v].len]
           c == CHOOSE f : R(f)
           w == [i \in 0 .. Len(args) |-> IF i = 0 THEN 0 ELSE IF i = 1 THEN k1 ELSE k1 + k2]
<1>1. chunkLen(args) = c[Len(args)]
  BY DEF chunkLen
<1>2. Len(args) \in 0 .. 2
  BY CatArgsType
<1>3. \A i \in 1 .. Len(args) : chunk[args[i].v].len \in Nat
  BY CatArgsType DEF CatArg, ChunkIInv, ChunkTyped, ChunkType
<1>4. R(w)
  <2>1. w[0] = 0 /\ (Len(args) >= 1 => w[1] = k1) /\ (Len(args) >= 2 => w[2] = k1 + k2)
    BY <1>2
  <2>2. \A i \in 0 .. Len(args) : w[i] = IF i = 0 THEN 0 ELSE w[i - 1] + chunk[args[i].v].len
    <3> SUFFICES ASSUME NEW i \in 0 .. Len(args)
                 PROVE  w[i] = IF i = 0 THEN 0 ELSE w[i - 1] + chunk[args[i].v].len
      OBVIOUS
    <3>0. PICK top : top = Len(args)
      OBVIOUS
    <3>1. i = 0 \/ i = 1 \/ i = 2
      BY <1>2, <3>0
    <3>2. CASE i = 0
      BY <2>1, <3>2
    <3>3. CASE i = 1
      <4>1. Len(args) >= 1 /\ k1 \in Nat
        BY <1>2, <1>3, <3>3
      <4> QED  BY <2>1, <3>1, <3>3, <4>1
    <3>4. CASE i = 2
      <4>1. Len(args) >= 1 /\ Len(args) >= 2
        BY <1>2, <3>4
      <4>2. PICK f, x : f = w /\ x = chunk[args[i].v].len
        OBVIOUS
      <4>3. f[1] = k1 /\ f[2] = k1 + k2 /\ x = k2
        BY <2>1, <3>4, <4>1, <4>2
      <4> HIDE DEF w, k1, k2
      <4>4. f[i] = IF i = 0 THEN 0 ELSE f[i - 1] + x
        BY <3>1, <3>4, <4>3
      <4> QED  BY <4>2, <4>4
    <3> QED  BY <3>1, <3>2, <3>3, <3>4
  <2> QED  BY <2>2
<1>5. R(c)
  BY <1>4, Zenon
<1> HIDE DEF c
<1>6. /\ c[0] = 0
      /\ Len(args) >= 1 => c[1] = c[0] + k1
      /\ Len(args) >= 2 => c[2] = c[1] + k2
  BY <1>2, <1>5
<1> QED  BY <1>1, <1>2, <1>3, <1>6

LEMMA FlattenSeqIs ==
  ASSUME NEW seqs, Len(seqs) \in 1 .. 2
  PROVE  /\ Len(seqs) = 1 => FlattenSeq(seqs) = seqs[1]
         /\ Len(seqs) = 2 => FlattenSeq(seqs) = seqs[1] \o seqs[2]
<1> DEFINE R(f) == f = [i \in 1 .. Len(seqs) |-> IF i = 1 THEN seqs[i] ELSE f[i - 1] \o seqs[i]]
           c == CHOOSE f : R(f)
           w == [i \in 1 .. Len(seqs) |-> IF i = 1 THEN seqs[1] ELSE seqs[1] \o seqs[2]]
<1>1. FlattenSeq(seqs) = c[Len(seqs)]
  <2>1. Len(seqs) # 0
    OBVIOUS
  <2> QED  BY <2>1, Zenon DEF FlattenSeq
<1>2. R(w)
  <2>1. \A i \in 1 .. Len(seqs) : w[i] = IF i = 1 THEN seqs[i] ELSE w[i - 1] \o seqs[i]
    OBVIOUS
  <2> QED  BY <2>1
<1>3. R(c)
  BY <1>2, Zenon
<1> HIDE DEF c
<1>4. c[1] = seqs[1]
  BY <1>3
<1>5. Len(seqs) = 2 => c[2] = c[1] \o seqs[2]
  <2>1. 2 - 1 = 1
    OBVIOUS
  <2> QED  BY <1>3, <2>1
<1> QED  BY <1>1, <1>4, <1>5

\* What the whole loop does to the memory, and what it gathers.
LEMMA CatRuns ==
  ASSUME ChunkIInv, ~mem.fault, NEW args \in CatArgs, NEW s, s = Concatenated(args)
  PROVE  /\ CatGood(args, Len(args), s)
         /\ CatFair(args) =>
              /\ s.out = FlattenSeq([i \in DOMAIN args |-> Content(args[i].v)])
              /\ Len(s.out) = chunkLen(args)
<1> DEFINE s0 == [mem |-> mem, out |-> <<>>]
           seqs == [i \in DOMAIN args |-> Content(args[i].v)]
<1>1. Len(args) \in 0 .. 2 /\ DOMAIN args = 1 .. Len(args) /\ \A i \in DOMAIN args : args[i] \in CatArg
  BY CatArgsType
<1>2. CatGood(args, 0, s0)
  <2>1. s0.mem = mem /\ s0.out = <<>> /\ mem \in MemType /\ s0.out \in Seq(Nat)
    BY EmptySeq DEF ChunkIInv, ChunkTyped
  <2> HIDE DEF s0
  <2> QED  BY <2>1 DEF CatGood
<1>3. ASSUME NEW i \in DOMAIN args
      PROVE  Content(args[i].v) \in Seq(Nat) /\ Len(Content(args[i].v)) = chunk[args[i].v].len
  <2>1. args[i].v \in ChunkVars
    BY <1>1 DEF CatArg
  <2>2. mem \in MemType /\ chunk[args[i].v] \in ChunkType /\ WellPlaced(mem, chunk[args[i].v])
    BY <2>1 DEF ChunkIInv, ChunkTyped
  <2> QED  BY <2>2, BytesType DEF Content
<1>4. Len(seqs) = Len(args) /\ \A i \in DOMAIN args : seqs[i] = Content(args[i].v)
  BY <1>1
<1>5. CASE Len(args) = 0
  <2>1. s = s0 /\ chunkLen(args) = 0
    BY <1>5, ConcatenatedIs, ChunkLenIs
  <2>2. FlattenSeq(seqs) = seqs
    BY <1>4, <1>5 DEF FlattenSeq
  <2>3. seqs = <<>>
    BY <1>1, <1>5
  <2>4. s.out = <<>> /\ Len(s.out) = 0
    BY <2>1
  <2> QED  BY <1>2, <1>5, <2>1, <2>2, <2>3, <2>4
<1>6. PICK s1 : s1 = CatStep(s0, args[1])
  OBVIOUS
<1>7. ASSUME Len(args) >= 1
      PROVE  /\ CatGood(args, 1, s1)
             /\ CatFair(args) => s1.out = Content(args[1].v)
  <2>1. 0 \in Nat /\ 0 + 1 = 1 /\ 1 \in DOMAIN args
    BY <1>1, <1>7
  <2>2. CatGood(args, 0 + 1, CatStep(s0, args[0 + 1]))
        /\ (CatFair(args) => CatStep(s0, args[0 + 1]).out = s0.out \o Content(args[0 + 1].v))
    <3> HIDE DEF s0
    <3>1. 0 + 1 \in DOMAIN args
      BY <2>1
    <3> QED  BY <1>2, <2>1, <3>1, CatStepIsGood
  <2>3. <<>> \o Content(args[1].v) = Content(args[1].v)
    BY <1>3, <2>1, ConcatEmptySeq
  <2>4. s0.out = <<>>
    OBVIOUS
  <2> HIDE DEF s0
  <2> QED  BY <1>6, <2>1, <2>2, <2>3, <2>4
<1>8. CASE Len(args) = 1
  <2>1. s = s1 /\ chunkLen(args) = chunk[args[1].v].len /\ 1 \in DOMAIN args
    BY <1>1, <1>6, <1>8, ConcatenatedIs, ChunkLenIs
  <2>2. FlattenSeq(seqs) = seqs[1]
    <3>1. Len(seqs) = 1 /\ 1 \in 1 .. 2
      BY <1>4, <1>8
    <3> HIDE DEF seqs
    <3> QED  BY <3>1, FlattenSeqIs
  <2>3. FlattenSeq(seqs) = Content(args[1].v)
    BY <1>4, <2>1, <2>2
  <2> QED  BY <1>3, <1>7, <1>8, <2>1, <2>3
<1>9. CASE Len(args) = 2
  <2>1. s = CatStep(s1, args[2]) /\ chunkLen(args) = chunk[args[1].v].len + chunk[args[2].v].len
        /\ 1 \in DOMAIN args /\ 2 \in DOMAIN args
    BY <1>1, <1>6, <1>9, ConcatenatedIs, ChunkLenIs
  <2>2. CatGood(args, 1, s1) /\ (CatFair(args) => s1.out = Content(args[1].v))
    BY <1>7, <1>9
  <2>3. 1 \in Nat /\ 1 + 1 = 2 /\ 1 + 1 \in DOMAIN args
    BY <2>1
  <2>4. CatGood(args, 1 + 1, CatStep(s1, args[1 + 1]))
        /\ (CatFair(args) => CatStep(s1, args[1 + 1]).out = s1.out \o Content(args[1 + 1].v))
    BY <2>2, <2>3, CatStepIsGood
  <2>5. CatGood(args, 2, s) /\ (CatFair(args) => s.out = s1.out \o Content(args[2].v))
    BY <2>1, <2>3, <2>4
  <2>6. FlattenSeq(seqs) = seqs[1] \o seqs[2]
    <3>1. Len(seqs) = 2 /\ 2 \in 1 .. 2
      BY <1>4, <1>9
    <3> HIDE DEF seqs
    <3> QED  BY <3>1, FlattenSeqIs
  <2>7. seqs[1] = Content(args[1].v) /\ seqs[2] = Content(args[2].v)
    BY <1>4, <2>1
  <2>8. Len(Content(args[1].v) \o Content(args[2].v)) = Len(Content(args[1].v)) + Len(Content(args[2].v))
    BY <1>3, <2>1, ConcatProperties
  <2> QED  BY <1>3, <1>9, <2>1, <2>2, <2>5, <2>6, <2>7, <2>8
<1> QED  BY <1>1, <1>5, <1>8, <1>9

\* Undefined behaviour is not taken back, and giving a block back leaves it dead.
LEMMA FaultStays ==
  ASSUME NEW m \in MemType, NEW c \in ChunkType
  PROVE  /\ m.fault => Touch(m, c).fault /\ Released(m, c).fault
         /\ Dead(m, c) => Touch(m, c).fault
         /\ c.ptr # NULL => Released(m, c).fault \/ Released(m, c).heap[c.ptr].state # "live"
         /\ c.ptr # NULL /\ m.heap[c.ptr].state # "live" => Released(m, c).fault
<1>1. Fault(m).fault = TRUE
  BY DEF Fault, MemType
<1>2. Touch(m, c) = Fault(m) \/ (Touch(m, c) = m /\ ~Dead(m, c))
  BY DEF Touch
<1>3. /\ m.fault => Touch(m, c).fault
      /\ Dead(m, c) => Touch(m, c).fault
  BY <1>1, <1>2, Zenon
<1>4. CASE c.ptr = NULL
  <2>1. Released(m, c) = m
    BY <1>4 DEF Released
  <2>2. m.fault => Released(m, c).fault
    BY <2>1, Zenon
  <2> QED  BY <1>3, <1>4, <2>2, Zenon
<1>5. CASE c.ptr # NULL /\ (c.off # 0 \/ m.heap[c.ptr].state # "live")
  <2>1. Released(m, c) = Fault(m)
    BY <1>5 DEF Released
  <2>2. Released(m, c).fault
    BY <1>1, <2>1, Zenon
  <2> QED  BY <1>3, <2>2, Zenon
<1>6. CASE c.ptr # NULL /\ ~(c.off # 0 \/ m.heap[c.ptr].state # "live")
  <2>1. Released(m, c) = [m EXCEPT !.heap[c.ptr].state = "freed"]
    BY <1>6 DEF Released
  <2>2. c.ptr \in Blocks
    BY <1>6 DEF ChunkType
  <2>3. Released(m, c).fault = m.fault /\ Released(m, c).heap[c.ptr].state = "freed"
    BY <2>1, <2>2 DEF MemType, BlockType
  <2>4. Released(m, c).heap[c.ptr].state # "live"
    BY <2>3
  <2>5. m.fault => Released(m, c).fault
    BY <2>3, Zenon
  <2> QED  BY <1>3, <1>6, <2>4, <2>5, Zenon
<1> QED  BY <1>4, <1>5, <1>6

LEMMA WipedFaultStays ==
  ASSUME NEW m \in MemType, NEW c \in ChunkType, c.ptr # NULL
  PROVE  /\ Wiped(m, c) \in MemType
         /\ m.fault => Wiped(m, c).fault
         /\ Wiped(m, c).heap[c.ptr].state = m.heap[c.ptr].state
<1>1. c.ptr \in Blocks
  BY DEF ChunkType
<1>2. PICK w : w = Wiped(m, c)
  OBVIOUS
<1>3. /\ w \in MemType /\ \A b \in Blocks : w.heap[b].state = m.heap[b].state
      /\ ~Dead(m, c) => w.fault = m.fault
  BY <1>1, <1>2, WipedIs
<1>4. ASSUME Dead(m, c) PROVE w.fault
  <2>1. w = Fault(m)
    BY <1>2, <1>4 DEF Wiped, Stored
  <2>2. Fault(m).fault = TRUE
    BY DEF Fault, MemType
  <2> QED  BY <2>1, <2>2, Zenon
<1>5. m.fault => w.fault
  BY <1>3, <1>4, Zenon
<1>6. w.heap[c.ptr].state = m.heap[c.ptr].state
  BY <1>1, <1>3
<1> QED  BY <1>2, <1>3, <1>5, <1>6, Zenon

\* One argument: what is broken stays broken, and what is given away is dead.
LEMMA CatStepBreaks ==
  ASSUME ChunkIInv, NEW a \in CatArg, NEW s, s.mem \in MemType,
         NEW t, t = CatStep(s, a).mem, NEW p, p = chunk[a.v].ptr
  PROVE  /\ t \in MemType
         /\ s.mem.fault => t.fault
         /\ p # NULL /\ a.mode # "c" => t.fault \/ t.heap[p].state # "live"
         /\ p # NULL /\ s.mem.heap[p].state # "live" /\ (chunk[a.v].len > 0 \/ a.mode # "c")
              => t.fault
<1>1. a.v \in ChunkVars /\ a.mode \in Modes
  BY DEF CatArg
<1>2. PICK c, m : c = chunk[a.v] /\ m = Touch(s.mem, c)
  OBVIOUS
<1>3. c \in ChunkType /\ p = c.ptr
  BY <1>1, <1>2 DEF ChunkIInv, ChunkTyped
<1>4. m \in MemType /\ m.heap = s.mem.heap /\ (s.mem.fault => m.fault) /\ (Dead(s.mem, c) => m.fault)
  <2>1. m \in MemType /\ m.heap = s.mem.heap
    BY <1>2, TouchIs
  <2>2. /\ s.mem.fault => Touch(s.mem, c).fault
        /\ Dead(s.mem, c) => Touch(s.mem, c).fault
    BY <1>3, FaultStays
  <2> QED  BY <1>2, <2>1, <2>2, Zenon
<1>5. /\ a.mode = "s" => t = Cleared(m, c)
      /\ a.mode = "m" => t = Released(m, c)
      /\ a.mode = "c" => t = m
  BY <1>2 DEF CatStep
<1>6. CASE a.mode = "c"
  <2>1. t = m
    BY <1>5, <1>6
  <2>2. p # NULL /\ s.mem.heap[p].state # "live" /\ chunk[a.v].len > 0 => m.fault
    <3>1. p # NULL /\ s.mem.heap[p].state # "live" /\ chunk[a.v].len > 0 => Dead(s.mem, c)
      BY <1>2, <1>3 DEF Dead
    <3> QED  BY <1>4, <3>1, Zenon
  <2> QED  BY <1>4, <1>6, <2>1, <2>2, Zenon
<1>7. ASSUME NEW w \in MemType, w.heap[c.ptr].state = s.mem.heap[c.ptr].state, s.mem.fault => w.fault,
             t = Released(w, c), c.ptr # NULL
      PROVE  /\ s.mem.fault => t.fault
             /\ t.fault \/ t.heap[p].state # "live"
             /\ s.mem.heap[p].state # "live" => t.fault
  <2>1. /\ w.fault => Released(w, c).fault
        /\ Released(w, c).fault \/ Released(w, c).heap[c.ptr].state # "live"
        /\ w.heap[c.ptr].state # "live" => Released(w, c).fault
    BY <1>3, <1>7, FaultStays
  <2> QED  BY <1>3, <1>7, <2>1, Zenon
<1>8. ASSUME a.mode # "c", c.ptr = NULL
      PROVE  t = m
  <2>1. Cleared(m, c) = m /\ Released(m, c) = m
    BY <1>8 DEF Cleared, Released
  <2> QED  BY <1>1, <1>5, <1>8, <2>1 DEF Modes
<1>9. t \in MemType
  <2>1. Released(m, c) \in MemType
    BY <1>3, <1>4, ReleasedIs
  <2>2. Cleared(m, c) \in MemType
    BY <1>3, <1>4, ClearedIs
  <2> QED  BY <1>1, <1>4, <1>5, <2>1, <2>2 DEF Modes
<1>10. CASE a.mode # "c" /\ c.ptr = NULL
  BY <1>3, <1>4, <1>8, <1>9, <1>10, Zenon
<1>11. CASE a.mode = "m" /\ c.ptr # NULL
  <2>1. t = Released(m, c) /\ m.heap[c.ptr].state = s.mem.heap[c.ptr].state
    BY <1>4, <1>5, <1>11
  <2>2. /\ s.mem.fault => t.fault
        /\ t.fault \/ t.heap[p].state # "live"
        /\ s.mem.heap[p].state # "live" => t.fault
    BY <1>4, <1>7, <1>11, <2>1, Zenon
  <2> QED  BY <1>9, <2>2, Zenon
<1>12. CASE a.mode = "s" /\ c.ptr # NULL
  <2>1. PICK w : w = Wiped(m, c)
    OBVIOUS
  <2>2. t = Released(w, c)
    BY <1>5, <1>12, <2>1 DEF Cleared
  <2>3. /\ Wiped(m, c) \in MemType
        /\ m.fault => Wiped(m, c).fault
        /\ Wiped(m, c).heap[c.ptr].state = m.heap[c.ptr].state
    BY <1>3, <1>4, <1>12, WipedFaultStays
  <2>4. w \in MemType /\ w.heap[c.ptr].state = s.mem.heap[c.ptr].state /\ (s.mem.fault => w.fault)
    BY <1>4, <2>1, <2>3, Zenon
  <2>5. /\ s.mem.fault => t.fault
        /\ t.fault \/ t.heap[p].state # "live"
        /\ s.mem.heap[p].state # "live" => t.fault
    BY <1>7, <1>12, <2>2, <2>4, Zenon
  <2> QED  BY <1>9, <2>5, Zenon
<1> QED  BY <1>1, <1>6, <1>10, <1>11, <1>12 DEF Modes

\* An argument that is passed again after it was freed breaks the call.
LEMMA AgainBreaks ==
  ASSUME ChunkIInv, NEW args \in CatArgs, PassedAgain(args)
  PROVE  Concatenated(args).mem.fault
<1>1. PICK i \in DOMAIN args, j \in DOMAIN args :
        /\ i < j /\ args[i].v = args[j].v /\ args[i].mode # "c"
        /\ chunk[args[j].v].ptr # NULL
        /\ chunk[args[j].v].len > 0 \/ args[j].mode # "c"
  BY DEF PassedAgain
<1>2. Len(args) \in 0 .. 2 /\ DOMAIN args = 1 .. Len(args) /\ \A k \in DOMAIN args : args[k] \in CatArg
  BY CatArgsType
<1>3. Len(args) = 2 /\ i = 1 /\ j = 2 /\ args[1] \in CatArg /\ args[2] \in CatArg
  BY <1>1, <1>2
<1>4. PICK s0, s1, s2 : /\ s0 = [mem |-> mem, out |-> <<>>]
                        /\ s1 = CatStep(s0, args[1]) /\ s2 = CatStep(s1, args[2])
  OBVIOUS
<1>5. Concatenated(args) = s2
  BY <1>3, <1>4, ConcatenatedIs
<1>6. PICK p : p = chunk[args[1].v].ptr
  OBVIOUS
<1>7. s0.mem \in MemType
  BY <1>4 DEF ChunkIInv, ChunkTyped
<1>8. s1.mem \in MemType /\ (p # NULL => s1.mem.fault \/ s1.mem.heap[p].state # "live")
  <2>1. s1.mem = CatStep(s0, args[1]).mem /\ args[1].mode # "c"
    BY <1>1, <1>3, <1>4
  <2> QED  BY <1>3, <1>6, <1>7, <2>1, CatStepBreaks
<1>9. p = chunk[args[2].v].ptr /\ p # NULL /\ (chunk[args[2].v].len > 0 \/ args[2].mode # "c")
  BY <1>1, <1>3, <1>6
<1>10. s2.mem.fault
  <2>1. s2.mem = CatStep(s1, args[2]).mem
    BY <1>4
  <2>2. /\ s1.mem.fault => s2.mem.fault
        /\ p # NULL /\ s1.mem.heap[p].state # "live" /\ (chunk[args[2].v].len > 0 \/ args[2].mode # "c")
             => s2.mem.fault
    BY <1>3, <1>8, <1>9, <2>1, CatStepBreaks
  <2> QED  BY <1>8, <1>9, <2>2, Zenon
<1> QED  BY <1>5, <1>10, Zenon

LEMMA CatKeeps ==
  ASSUME ChunkIInv, ~mem.fault, NEW w \in ChunkVars, NEW args \in CatArgs, chunkCreateCat(w, args)
  PROVE  ChunkIInv'
<1> DEFINE given == {args[i].v : i \in {i \in DOMAIN args : args[i].mode # "c"}}
           used == {args[i].v : i \in DOMAIN args}
           others == IF PassedAgain(args) THEN {"again"} ELSE {}
           all == FlattenSeq([i \in DOMAIN args |-> Content(args[i].v)])
<1>1. PICK s : s = Concatenated(args)
  OBVIOUS
<1>2. /\ Compared("cat", used, others, <<chunkLen(args), s.out>>, <<Len(all), all>>)
      /\ mem' = Allocated(s.mem, AnUnused(mem), s.out)
      /\ chunk' = [chunk EXCEPT ![w] = chunkCreate(AnUnused(mem), Len(s.out))]
      /\ shared' = shared \cup {v \in given : ~IsEmpty(v)}
  BY <1>1 DEF chunkCreateCat, Shares
<1>3. /\ CatGood(args, Len(args), s)
      /\ CatFair(args) => s.out = all /\ Len(s.out) = chunkLen(args)
  BY <1>1, CatRuns
<1>4. /\ s.mem \in MemType /\ s.out \in Seq(Nat)
      /\ \A b \in Blocks :
           /\ s.mem.heap[b].state = "unused" <=> mem.heap[b].state = "unused"
           /\ Len(s.mem.heap[b].bytes) = Len(mem.heap[b].bytes)
           /\ s.mem.heap[b] # mem.heap[b]
                => \E i \in 1 .. Len(args) : args[i].mode # "c" /\ b = chunk[args[i].v].ptr
      /\ CatFair(args) => ~s.mem.fault
  BY <1>3 DEF CatGood
<1>5. DOMAIN args = 1 .. Len(args) /\ \A i \in DOMAIN args : args[i].v \in ChunkVars
  BY CatArgsType DEF CatArg
<1>6. AnUnused(mem) \in Blocks /\ mem.heap[AnUnused(mem)].state = "unused"
  BY UnusedIs DEF chunkCreateCat, Unused
<1>7. /\ shared \subseteq shared' /\ shared' \subseteq ChunkVars
      /\ \A i \in DOMAIN args : args[i].mode # "c" /\ chunk[args[i].v].ptr # NULL => args[i].v \in shared'
  <2>1. shared \subseteq ChunkVars
    BY DEF ChunkIInv, ChunkTyped
  <2>2. \A i \in DOMAIN args : chunk[args[i].v].ptr # NULL => ~IsEmpty(args[i].v)
    BY EmptyType DEF IsEmpty
  <2> QED  BY <1>2, <1>5, <2>1, <2>2
<1>8. ASSUME NEW u \in ChunkVars \ shared', chunk[u].ptr # NULL
      PROVE  s.mem.heap[chunk[u].ptr] = mem.heap[chunk[u].ptr]
  <2>1. Sole(mem, chunk, u) /\ chunk[u].ptr \in Blocks
    BY <1>7, <1>8 DEF ChunkIInv, Owned, ChunkTyped, ChunkType
  <2>2. ASSUME NEW i \in 1 .. Len(args), args[i].mode # "c", chunk[u].ptr = chunk[args[i].v].ptr
        PROVE  FALSE
    <3>1. args[i].v \in ChunkVars \ {u}
      BY <1>5, <1>7, <1>8, <2>2
    <3> QED  BY <1>8, <2>1, <2>2, <3>1 DEF Sole
  <2> QED  BY <1>4, <2>1, <2>2
<1> HIDE DEF given, used, others, all
<1>9. ChunkTyped' /\ Owned'
  <2>1. \A d \in Blocks : /\ s.mem.heap[d].state = "unused" => mem.heap[d].state = "unused"
                          /\ Len(s.mem.heap[d].bytes) = Len(mem.heap[d].bytes)
    BY <1>4
  <2>2. PICK m : m = s.mem
    OBVIOUS
  <2>3. PICK out : out = s.out
    OBVIOUS
  <2>4. /\ m \in MemType /\ out \in Seq(Nat)
        /\ \A d \in Blocks : /\ m.heap[d].state = "unused" => mem.heap[d].state = "unused"
                             /\ Len(m.heap[d].bytes) = Len(mem.heap[d].bytes)
        /\ mem' = Allocated(m, AnUnused(mem), out)
        /\ chunk' = [chunk EXCEPT ![w] = chunkCreate(AnUnused(mem), Len(out))]
        /\ \A u \in ChunkVars \ shared' : chunk[u].ptr # NULL => m.heap[chunk[u].ptr] = mem.heap[chunk[u].ptr]
    BY <1>2, <1>4, <1>8, <2>1, <2>2, <2>3
  <2> QED  BY <1>6, <1>7, <2>4, NewBlockKeeps
<1>10. others = {} /\ used \cap shared = {} => CatFair(args)
  BY DEF CatFair, others, used
<1>11. CatFair(args) => <<chunkLen(args), s.out>> = <<Len(all), all>>
  BY <1>3
<1>12. /\ call'.fn = "cat" /\ call'.right = (<<chunkLen(args), s.out>> = <<Len(all), all>>)
       /\ others \subseteq call'.causes
       /\ others # {} \/ used \cap shared # {} => call'.causes # {}
       /\ \A x \in call'.causes : x \in others \cup {"alias", "clone"}
  <2>1. PICK got : got = <<chunkLen(args), s.out>>
    OBVIOUS
  <2>2. PICK want : want = <<Len(all), all>>
    OBVIOUS
  <2>3. Compared("cat", used, others, got, want)
    BY <1>2, <2>1, <2>2
  <2>4. /\ call'.fn = "cat" /\ call'.right = (got = want) /\ others \subseteq call'.causes
        /\ others # {} \/ used \cap shared # {} => call'.causes # {}
        /\ \A x \in call'.causes : x \in others \cup {"alias", "clone"}
    BY <2>3, ResultIsRecorded
  <2> QED  BY <2>1, <2>2, <2>4
<1>13. call'.causes = {} => CatFair(args)
  BY <1>10, <1>12
<1>14. "again" \in call'.causes => PassedAgain(args)
  BY <1>12 DEF others
<1>15. {"letters", "width"} \cap call'.causes = {}
  BY <1>12 DEF others
<1>16. CallsAreRight'
  <2>1. call'.causes = {} => call'.right
    BY <1>11, <1>12, <1>13, Zenon
  <2>2. "width" \notin call'.causes
    BY <1>15
  <2> QED  BY <2>1, <2>2, Zenon DEF CallsAreRight
<1>17. mem'.fault = s.mem.fault
  BY <1>2, <1>4, <1>6, AllocatedIs
<1>18. FaultsAreCaused'
  <2>1. mem'.fault => call'.causes # {}
    BY <1>4, <1>13, <1>17, Zenon
  <2>2. call'.causes \cap {"again", "letters"} # {} => "again" \in call'.causes
    BY <1>15
  <2>3. "again" \in call'.causes => mem'.fault
    BY <1>1, <1>14, <1>17, AgainBreaks, Zenon
  <2> QED  BY <2>1, <2>2, <2>3, Zenon DEF FaultsAreCaused
<1> QED  BY <1>9, <1>16, <1>18 DEF ChunkIInv

-----------------------------------------------------------------------------
(* Splitting *)

LEMMA LeastIs ==
  ASSUME NEW i \in Nat, NEW j \in Nat, NEW T, T = {} \/ \E l \in Nat : T = {l}
  PROVE  /\ Least({i, j} \cup T) \in {i, j} \cup T
         /\ \A l \in {i, j} \cup T : Least({i, j} \cup T) <= l
<1> DEFINE S == {i, j} \cup T
<1>1. \E x \in S : \A l \in S : x <= l
  <2>1. CASE T = {}
    BY <2>1
  <2>2. ASSUME NEW l \in Nat, T = {l} PROVE \E x \in S : \A y \in S : x <= y
    <3>1. S = {i, j, l}
      BY <2>2
    <3> HIDE DEF S
    <3>2. CASE i <= j /\ i <= l
      BY <3>1, <3>2
    <3>3. CASE j <= i /\ j <= l
      BY <3>1, <3>3
    <3>4. CASE l <= i /\ l <= j
      BY <3>1, <3>4
    <3> QED  BY <3>2, <3>3, <3>4
  <2> QED  BY <2>1, <2>2
<1> HIDE DEF S
<1>2. Least(S) \in S /\ \A l \in S : Least(S) <= l
  BY <1>1, Zenon DEF Least
<1> QED  BY <1>2 DEF S

Part == [len : 1 .. 2, target : ChunkVars \cup {NULL}, mode : {"m", "a", "c"}]

LEMMA PartsType ==
  ASSUME NEW ps \in Parts
  PROVE  /\ Len(ps) \in 1 .. 2 /\ DOMAIN ps = 1 .. Len(ps)
         /\ \A i \in DOMAIN ps : ps[i] \in Part
         /\ \A i, j \in DOMAIN ps : i # j => ps[i].target # ps[j].target
<1>1. PICK k \in 1 .. 2 : ps \in [1 .. k -> Part]
  BY DEF Parts, Part
<1>2. Len(ps) = k
  BY <1>1
<1>3. \A i, j \in DOMAIN ps : i # j => ps[i].target # ps[j].target
  BY DEF Parts
<1> QED  BY <1>1, <1>2, <1>3

\* The states of the loop over one or two pairs.
LEMMA SplitIs ==
  ASSUME NEW ps \in Parts, NEW v, NEW letters, NEW full
  PROVE  LET s0 == [mem |-> mem, chunk |-> chunk, rest |-> chunk[v], k |-> 1, full |-> full]
         IN  /\ Len(ps) = 1 => Split(v, ps, letters, full) = SplitStep(s0, ps[1], letters)
             /\ Len(ps) = 2 => Split(v, ps, letters, full)
                                 = SplitStep(SplitStep(s0, ps[1], letters), ps[2], letters)
<1> DEFINE s0 == [mem |-> mem, chunk |-> chunk, rest |-> chunk[v], k |-> 1, full |-> full]
           s1 == SplitStep(s0, ps[1], letters)
           s2 == SplitStep(s1, ps[2], letters)
           R(f) == f = [i \in 0 .. Len(ps) |-> IF i = 0 THEN s0 ELSE SplitStep(f[i - 1], ps[i], letters)]
           c == CHOOSE f : R(f)
           w == [i \in 0 .. Len(ps) |-> IF i = 0 THEN s0 ELSE IF i = 1 THEN s1 ELSE s2]
<1>1. Split(v, ps, letters, full) = c[Len(ps)]
  BY DEF Split
<1> HIDE DEF s0
<1>2. Len(ps) \in 1 .. 2
  BY PartsType
<1>3. R(w)
  <2>1. w[0] = s0 /\ (Len(ps) >= 1 => w[1] = s1) /\ (Len(ps) >= 2 => w[2] = s2)
    BY <1>2
  <2>2. \A i \in 0 .. Len(ps) : w[i] = IF i = 0 THEN s0 ELSE SplitStep(w[i - 1], ps[i], letters)
    BY <1>2, <2>1
  <2> QED  BY <2>2
<1>4. R(c)
  BY <1>3, Zenon
<1> HIDE DEF c
<1>5. /\ c[0] = s0
      /\ Len(ps) >= 1 => c[1] = SplitStep(c[0], ps[1], letters)
      /\ Len(ps) >= 2 => c[2] = SplitStep(c[1], ps[2], letters)
  BY <1>2, <1>4
<1>6. Len(ps) = 1 => Split(v, ps, letters, full) = SplitStep(s0, ps[1], letters)
  BY <1>1, <1>5
<1>7. Len(ps) = 2 => Split(v, ps, letters, full) = SplitStep(SplitStep(s0, ps[1], letters), ps[2], letters)
  BY <1>1, <1>5
<1> QED  BY <1>6, <1>7 DEF s0

LEMMA PortionsIs ==
  ASSUME NEW ps \in Parts, NEW bytes, NEW room
  PROVE  LET z0 == [left |-> bytes, of |-> <<>>]
         IN  /\ Len(ps) = 1 => Portions(ps, bytes, room) = Portion(z0, ps[1], room).of
             /\ Len(ps) = 2 => Portions(ps, bytes, room) = Portion(Portion(z0, ps[1], room), ps[2], room).of
<1> DEFINE z0 == [left |-> bytes, of |-> <<>>]
           z1 == Portion(z0, ps[1], room)
           z2 == Portion(z1, ps[2], room)
           R(f) == f = [i \in 0 .. Len(ps) |-> IF i = 0 THEN z0 ELSE Portion(f[i - 1], ps[i], room)]
           c == CHOOSE f : R(f)
           w == [i \in 0 .. Len(ps) |-> IF i = 0 THEN z0 ELSE IF i = 1 THEN z1 ELSE z2]
<1>1. Portions(ps, bytes, room) = c[Len(ps)].of
  BY DEF Portions
<1> HIDE DEF z0
<1>2. Len(ps) \in 1 .. 2
  BY PartsType
<1>3. R(w)
  <2>1. w[0] = z0 /\ (Len(ps) >= 1 => w[1] = z1) /\ (Len(ps) >= 2 => w[2] = z2)
    BY <1>2
  <2>2. \A i \in 0 .. Len(ps) : w[i] = IF i = 0 THEN z0 ELSE Portion(w[i - 1], ps[i], room)
    BY <1>2, <2>1
  <2> QED  BY <2>2
<1>4. R(c)
  BY <1>3, Zenon
<1> HIDE DEF c
<1>5. /\ c[0] = z0
      /\ Len(ps) >= 1 => c[1] = Portion(c[0], ps[1], room)
      /\ Len(ps) >= 2 => c[2] = Portion(c[1], ps[2], room)
  BY <1>2, <1>4
<1>6. Len(ps) = 1 => Portions(ps, bytes, room) = Portion(z0, ps[1], room).of
  BY <1>1, <1>5
<1>7. Len(ps) = 2 => Portions(ps, bytes, room) = Portion(Portion(z0, ps[1], room), ps[2], room).of
  BY <1>1, <1>5
<1> QED  BY <1>6, <1>7 DEF z0

\* Where the mode of the next pair is among the letters, when none is for a NULL target.
LetterAfter(ps, j) ==
  IF j = 0 THEN 1
  ELSE IF j = 1 THEN (IF ps[1].target = NULL THEN 1 ELSE 2)
  ELSE (IF ps[1].target = NULL THEN 1 ELSE 2) + (IF ps[2].target = NULL THEN 0 ELSE 1)

LEMMA LetterAfterIs ==
  ASSUME NEW ps \in Parts
  PROVE  /\ LetterAfter(ps, 0) = 1 /\ LetterAfter(ps, Len(ps)) \in Nat
         /\ \A j \in Nat : j + 1 <= Len(ps) =>
              /\ LetterAfter(ps, j) \in Nat /\ LetterAfter(ps, j + 1) \in Nat
              /\ LetterAfter(ps, j) <= LetterAfter(ps, j + 1)
              /\ ps[j + 1].target # NULL => LetterAfter(ps, j + 1) = LetterAfter(ps, j) + 1
         /\ (\E i \in DOMAIN ps : ps[i].target = NULL) => LetterAfter(ps, Len(ps)) <= Len(ps)
<1>1. Len(ps) \in 1 .. 2 /\ DOMAIN ps = 1 .. Len(ps)
  BY PartsType
<1>2. PICK n1, n2 : n1 = ps[1].target /\ n2 = ps[2].target
  OBVIOUS
<1>3. /\ LetterAfter(ps, 0) = 1 /\ LetterAfter(ps, 1) = (IF n1 = NULL THEN 1 ELSE 2)
      /\ LetterAfter(ps, 2) = (IF n1 = NULL THEN 1 ELSE 2) + (IF n2 = NULL THEN 0 ELSE 1)
  BY <1>2 DEF LetterAfter
<1>4. ASSUME NEW j \in Nat, j + 1 <= Len(ps)
      PROVE  /\ LetterAfter(ps, j) \in Nat /\ LetterAfter(ps, j + 1) \in Nat
             /\ LetterAfter(ps, j) <= LetterAfter(ps, j + 1)
             /\ ps[j + 1].target # NULL => LetterAfter(ps, j + 1) = LetterAfter(ps, j) + 1
  <2>1. j = 0 \/ j = 1
    BY <1>1, <1>4
  <2>2. CASE j = 0
    BY <1>2, <1>3, <2>2
  <2>3. CASE j = 1
    BY <1>2, <1>3, <2>3
  <2> QED  BY <2>1, <2>2, <2>3
<1>5. LetterAfter(ps, Len(ps)) \in Nat
  <2>1. CASE Len(ps) = 1
    BY <1>3, <2>1
  <2>2. CASE Len(ps) = 2
    BY <1>3, <2>2
  <2> QED  BY <1>1, <2>1, <2>2
<1>6. ASSUME NEW i \in DOMAIN ps, ps[i].target = NULL PROVE LetterAfter(ps, Len(ps)) <= Len(ps)
  <2>1. CASE Len(ps) = 1
    BY <1>1, <1>2, <1>3, <1>6, <2>1
  <2>2. CASE Len(ps) = 2
    BY <1>1, <1>2, <1>3, <1>6, <2>2
  <2> QED  BY <1>1, <2>1, <2>2
<1> QED  BY <1>3, <1>4, <1>5, <1>6

Lettered(ps, forNull, i, x) ==
  IF forNull \/ ps[i].target # NULL THEN Append(x, ps[i].mode) ELSE x

LEMMA LettersAre ==
  ASSUME NEW ps \in Parts, NEW forNull \in BOOLEAN
  PROVE  LET o1 == Lettered(ps, forNull, 1, <<>>)
         IN  /\ Len(ps) = 1 => Letters(ps, forNull) = o1
             /\ Len(ps) = 2 => Letters(ps, forNull) = Lettered(ps, forNull, 2, o1)
<1> DEFINE z == <<>>
           o1 == Lettered(ps, forNull, 1, z)
           o2 == Lettered(ps, forNull, 2, o1)
           R(f) == f = [i \in 0 .. Len(ps) |-> IF i = 0 THEN z ELSE Lettered(ps, forNull, i, f[i - 1])]
           c == CHOOSE f : R(f)
           w == [i \in 0 .. Len(ps) |-> IF i = 0 THEN z ELSE IF i = 1 THEN o1 ELSE o2]
<1>1. Letters(ps, forNull) = c[Len(ps)]
  BY DEF Letters, Lettered
<1> HIDE DEF z
<1>2. Len(ps) \in 1 .. 2
  BY PartsType
<1>3. R(w)
  <2>1. w[0] = z /\ (Len(ps) >= 1 => w[1] = o1) /\ (Len(ps) >= 2 => w[2] = o2)
    BY <1>2
  <2>2. \A i \in 0 .. Len(ps) : w[i] = IF i = 0 THEN z ELSE Lettered(ps, forNull, i, w[i - 1])
    BY <1>2, <2>1
  <2> QED  BY <2>2
<1>4. R(c)
  BY <1>3, Zenon
<1> HIDE DEF c
<1>5. /\ c[0] = z
      /\ Len(ps) >= 1 => c[1] = Lettered(ps, forNull, 1, c[0])
      /\ Len(ps) >= 2 => c[2] = Lettered(ps, forNull, 2, c[1])
  BY <1>2, <1>4
<1>6. Len(ps) = 1 => Letters(ps, forNull) = o1
  BY <1>1, <1>5
<1>7. Len(ps) = 2 => Letters(ps, forNull) = o2
  BY <1>1, <1>5
<1> QED  BY <1>6, <1>7 DEF z

LEMMA LettersIs ==
  ASSUME NEW ps \in Parts, NEW forNull \in BOOLEAN, NEW letters, letters = Letters(ps, forNull)
  PROVE  /\ letters \in Seq({"m", "a", "c"})
         /\ ~forNull =>
              /\ Len(letters) = LetterAfter(ps, Len(ps)) - 1
              /\ \A j \in 0 .. Len(ps) - 1 :
                   /\ LetterAfter(ps, j) \in Nat
                   /\ ps[j + 1].target # NULL =>
                        /\ LetterAfter(ps, j) <= Len(letters)
                        /\ letters[LetterAfter(ps, j)] = ps[j + 1].mode
                        /\ LetterAfter(ps, j + 1) = LetterAfter(ps, j) + 1
                   /\ ps[j + 1].target = NULL => LetterAfter(ps, j + 1) = LetterAfter(ps, j)
<1>1. PICK a1, a2, n1, n2 : /\ a1 = ps[1].mode /\ a2 = ps[2].mode
                            /\ n1 = ps[1].target /\ n2 = ps[2].target
  OBVIOUS
<1>2. Len(ps) \in 1 .. 2 /\ DOMAIN ps = 1 .. Len(ps) /\ \A i \in DOMAIN ps : ps[i] \in Part
  BY PartsType
<1>3. a1 \in {"m", "a", "c"} /\ (Len(ps) = 2 => a2 \in {"m", "a", "c"})
  BY <1>1, <1>2 DEF Part
<1>4. PICK o1 : o1 = IF forNull \/ n1 # NULL THEN <<a1>> ELSE <<>>
  OBVIOUS
<1>5. Lettered(ps, forNull, 1, <<>>) = o1
  BY <1>1, <1>4 DEF Lettered
<1>6. o1 \in Seq({"m", "a", "c"}) /\ Append(<<>>, a2) = <<a2>>
  <2>1. <<a1>> \in Seq({"m", "a", "c"}) /\ <<>> \in Seq({"m", "a", "c"})
    BY <1>3
  <2>2. Append(<<>>, a2) = <<a2>>
    OBVIOUS
  <2> QED  BY <1>4, <2>1, <2>2
<1>7. CASE Len(ps) = 1
  <2>1. letters = o1
    BY <1>5, <1>7, LettersAre
  <2>2. ~forNull => /\ Len(letters) = LetterAfter(ps, 1) - 1
                    /\ LetterAfter(ps, 0) = 1 /\ LetterAfter(ps, 0) \in Nat
                    /\ n1 # NULL => 1 <= Len(letters) /\ letters[1] = a1 /\ LetterAfter(ps, 1) = 2
                    /\ n1 = NULL => LetterAfter(ps, 1) = 1
    BY <1>1, <1>4, <2>1 DEF LetterAfter
  <2>3. 0 .. Len(ps) - 1 = {0} /\ 0 + 1 = 1 /\ 1 + 1 = 2
    BY <1>7
  <2> QED  BY <1>1, <1>6, <1>7, <2>1, <2>2, <2>3
<1>8. CASE Len(ps) = 2
  <2>1. letters = IF forNull \/ n2 # NULL THEN Append(o1, a2) ELSE o1
    BY <1>1, <1>5, <1>8, LettersAre DEF Lettered
  <2>2. letters \in Seq({"m", "a", "c"})
    <3>1. Append(o1, a2) \in Seq({"m", "a", "c"})
      BY <1>3, <1>6, <1>8, AppendProperties
    <3> QED  BY <1>6, <2>1, <3>1
  <2>3. ~forNull => /\ LetterAfter(ps, 0) = 1 /\ LetterAfter(ps, 0) \in Nat
                    /\ LetterAfter(ps, 1) = IF n1 = NULL THEN 1 ELSE 2
                    /\ LetterAfter(ps, 2) = LetterAfter(ps, 1) + (IF n2 = NULL THEN 0 ELSE 1)
    BY <1>1 DEF LetterAfter
  <2>4. ASSUME ~forNull
        PROVE  /\ Len(letters) = LetterAfter(ps, 2) - 1
               /\ n1 # NULL => 1 <= Len(letters) /\ letters[1] = a1
               /\ n2 # NULL => /\ LetterAfter(ps, 1) <= Len(letters)
                               /\ letters[LetterAfter(ps, 1)] = a2
    <3>1. CASE n1 = NULL /\ n2 = NULL
      <4>1. letters = <<>>
        BY <1>4, <2>1, <2>4, <3>1
      <4> QED  BY <2>3, <2>4, <3>1, <4>1
    <3>2. CASE n1 = NULL /\ n2 # NULL
      <4>1. letters = <<a2>>
        BY <1>4, <1>6, <2>1, <2>4, <3>2
      <4> QED  BY <2>3, <2>4, <3>2, <4>1
    <3>3. CASE n1 # NULL /\ n2 = NULL
      <4>1. letters = <<a1>>
        BY <1>4, <2>1, <2>4, <3>3
      <4> QED  BY <2>3, <2>4, <3>3, <4>1
    <3>4. CASE n1 # NULL /\ n2 # NULL
      <4>1. letters = Append(o1, a2) /\ o1 = <<a1>> /\ Len(o1) = 1 /\ o1[1] = a1
        BY <1>4, <2>1, <2>4, <3>4
      <4>2. Len(letters) = 2 /\ letters[1] = a1 /\ letters[2] = a2
        BY <1>3, <1>6, <1>8, <4>1, AppendProperties
      <4> QED  BY <2>3, <2>4, <3>4, <4>2
    <3> QED  BY <3>1, <3>2, <3>3, <3>4
  <2>5. 0 .. Len(ps) - 1 = {0, 1} /\ 0 + 1 = 1 /\ 1 + 1 = 2
    BY <1>8
  <2>6. ~forNull =>
          /\ n1 # NULL => LetterAfter(ps, 1) = LetterAfter(ps, 0) + 1
          /\ n1 = NULL => LetterAfter(ps, 1) = LetterAfter(ps, 0)
          /\ n2 # NULL => LetterAfter(ps, 2) = LetterAfter(ps, 1) + 1
          /\ n2 = NULL => LetterAfter(ps, 2) = LetterAfter(ps, 1)
          /\ LetterAfter(ps, 1) \in Nat
    BY <2>3
  <2>7. ASSUME ~forNull, NEW j \in 0 .. Len(ps) - 1
        PROVE  /\ LetterAfter(ps, j) \in Nat
               /\ ps[j + 1].target # NULL =>
                    /\ LetterAfter(ps, j) <= Len(letters)
                    /\ letters[LetterAfter(ps, j)] = ps[j + 1].mode
                    /\ LetterAfter(ps, j + 1) = LetterAfter(ps, j) + 1
               /\ ps[j + 1].target = NULL => LetterAfter(ps, j + 1) = LetterAfter(ps, j)
    <3>1. CASE j = 0
      BY <1>1, <2>3, <2>4, <2>6, <2>7, <3>1
    <3>2. CASE j = 1
      BY <1>1, <2>4, <2>6, <2>7, <3>2
    <3> QED  BY <2>5, <3>1, <3>2
  <2> QED  BY <1>8, <2>2, <2>4, <2>7
<1> QED  BY <1>2, <1>7, <1>8

\* With letters for NULL targets too there is one for each pair.
LEMMA LettersForAll ==
  ASSUME NEW ps \in Parts
  PROVE  Len(Letters(ps, TRUE)) = Len(ps)
<1>1. Len(ps) \in 1 .. 2
  BY PartsType
<1>2. PICK a1, a2 : a1 = ps[1].mode /\ a2 = ps[2].mode
  OBVIOUS
<1>3. Lettered(ps, TRUE, 1, <<>>) = <<a1>> /\ Lettered(ps, TRUE, 2, <<a1>>) = Append(<<a1>>, a2)
  BY <1>2 DEF Lettered
<1>4. PICK o1 : o1 = <<a1>>
  OBVIOUS
<1>5. Len(o1) = 1 /\ o1 \in Seq({a1, a2}) /\ a2 \in {a1, a2}
  BY <1>4
<1>6. Len(Append(o1, a2)) = Len(o1) + 1
  BY <1>5, AppendProperties
<1>7. Len(ps) = 1 => Letters(ps, TRUE) = o1
  BY <1>3, <1>4, LettersAre
<1>8. Len(ps) = 2 => Letters(ps, TRUE) = Append(o1, a2)
  BY <1>3, <1>4, LettersAre
<1>9. Len(Append(o1, a2)) = 2
  BY <1>5, <1>6
<1>10. Len(ps) = 1 \/ Len(ps) = 2
  BY <1>1
<1> QED  BY <1>5, <1>7, <1>8, <1>9, <1>10, Zenon

LEMMA TakenIs ==
  ASSUME NEW s, s.rest \in ChunkType, s.chunk \in [ChunkVars -> ChunkType],
         NEW p \in Part, p.target \in ChunkVars, NEW mode
  PROVE  /\ Taken(s, p, mode) \in Nat /\ Taken(s, p, mode) <= s.rest.len
         /\ mode = "c" => Taken(s, p, mode) <= s.chunk[p.target].len
<1> DEFINE T == IF mode = "c" THEN {s.chunk[p.target].len} ELSE {}
<1>1. s.rest.len \in Nat /\ p.len \in Nat /\ s.chunk[p.target].len \in Nat
  BY DEF ChunkType, Part
<1>2. T = {} \/ \E l \in Nat : T = {l}
  BY <1>1
<1>3. mode = "c" => s.chunk[p.target].len \in T
  OBVIOUS
<1>4. T \subseteq Nat
  BY <1>1
<1>5. PICK i, j : i = s.rest.len /\ j = p.len
  OBVIOUS
<1>6. i \in Nat /\ j \in Nat /\ Taken(s, p, mode) = Least({i, j} \cup T)
  BY <1>1, <1>5 DEF Taken
<1> HIDE DEF T
<1>7. /\ Least({i, j} \cup T) \in {i, j} \cup T
      /\ \A l \in {i, j} \cup T : Least({i, j} \cup T) <= l
  BY <1>2, <1>6, LeastIs
<1> QED  BY <1>3, <1>4, <1>5, <1>6, <1>7

\* The bytes of a chunk that holds what x begins with.
LEMMA PrefixBytes ==
  ASSUME NEW m \in MemType, NEW c \in ChunkType, WellPlaced(m, c), NEW x \in Seq(Nat),
         c.len <= Len(x), \A i \in 1 .. c.len : m.heap[c.ptr].bytes[c.off + i] = x[i]
  PROVE  BytesIn(m, c) = SubSeq(x, 1, c.len)
<1>1. PICK n : n = c.len
  OBVIOUS
<1>2. PICK y : y = BytesIn(m, c)
  OBVIOUS
<1>3. y \in Seq(Nat) /\ Len(y) = n /\ n \in Nat /\ \A i \in 1 .. n : y[i] = m.heap[c.ptr].bytes[c.off + i]
  BY <1>1, <1>2, BytesType DEF ChunkType
<1>4. n <= Len(x) /\ Len(x) \in Nat /\ \A i \in 1 .. n : y[i] = x[i]
  BY <1>1, <1>3, LenProperties
<1>5. \A i \in 1 .. n : x[i] \in Nat
  BY <1>3, <1>4, ElementOfSeq
<1>6. /\ SubSeq(x, 1, n) \in Seq(Nat)
      /\ Len(SubSeq(x, 1, n)) = IF 1 <= n THEN n - 1 + 1 ELSE 0
      /\ \A i \in 1 .. n - 1 + 1 : SubSeq(x, 1, n)[i] = x[1 + i - 1]
  <2>1. 1 \in Int /\ n \in Int
    BY <1>3
  <2> QED  BY <1>5, <2>1, SubSeqProperties
<1>7. Len(SubSeq(x, 1, n)) = n /\ \A i \in 1 .. n : SubSeq(x, 1, n)[i] = x[i]
  BY <1>3, <1>6
<1>8. y = SubSeq(x, 1, n)
  BY <1>3, <1>4, <1>6, <1>7, SameBytes
<1> QED  BY <1>1, <1>2, <1>8

LEMMA SkipBytes ==
  ASSUME NEW m \in MemType, NEW c \in ChunkType, WellPlaced(m, c), NEW k \in Nat, k <= c.len,
         NEW x, x = BytesIn(m, c)
  PROVE  BytesIn(m, chunkSkip(c, k)) = SubSeq(x, k + 1, Len(x))
<1>1. PICK n, a, p : n = c.len /\ a = c.off /\ p = c.ptr
  OBVIOUS
<1>2. /\ x \in Seq(Nat) /\ Len(x) = n /\ n \in Nat /\ a \in Nat /\ k <= n
      /\ \A i \in 1 .. n : x[i] = m.heap[p].bytes[a + i]
  BY <1>1, BytesType DEF ChunkType
<1>3. PICK d : d = chunkSkip(c, k)
  OBVIOUS
<1>4. /\ d \in ChunkType /\ WellPlaced(m, d)
      /\ d = IF n > k THEN [ptr |-> p, off |-> a + k, len |-> n - k] ELSE ChunkEmpty
  BY <1>1, <1>3, SkipIs
<1>5. PICK y : y = BytesIn(m, d)
  OBVIOUS
<1>6. y \in Seq(Nat) /\ Len(y) = d.len /\ \A i \in 1 .. d.len : y[i] = m.heap[d.ptr].bytes[d.off + i]
  BY <1>4, <1>5, BytesType
<1>7. \A i \in k + 1 .. n : x[i] \in Nat
  <2> SUFFICES ASSUME NEW i \in k + 1 .. n PROVE x[i] \in Nat
    OBVIOUS
  <2>1. i \in 1 .. Len(x)
    BY <1>2
  <2> QED  BY <1>2, <2>1, ElementOfSeq
<1>8. /\ SubSeq(x, k + 1, n) \in Seq(Nat)
      /\ Len(SubSeq(x, k + 1, n)) = IF k + 1 <= n THEN n - (k + 1) + 1 ELSE 0
      /\ \A i \in 1 .. n - (k + 1) + 1 : SubSeq(x, k + 1, n)[i] = x[(k + 1) + i - 1]
  <2>1. k + 1 \in Int /\ n \in Int
    BY <1>2
  <2> QED  BY <1>7, <2>1, SubSeqProperties
<1>9. CASE n > k
  <2>1. d.ptr = p /\ d.off = a + k /\ d.len = n - k
    BY <1>4, <1>9
  <2>2. ASSUME NEW i \in 1 .. n - k PROVE y[i] = SubSeq(x, k + 1, n)[i]
    <3>1. i \in 1 .. n - (k + 1) + 1 /\ (k + 1) + i - 1 = k + i /\ (a + k) + i = a + (k + i) /\ k + i \in 1 .. n
      BY <1>2, <1>9
    <3>2. y[i] = m.heap[p].bytes[a + (k + i)]
      BY <1>6, <2>1, <3>1
    <3>3. SubSeq(x, k + 1, n)[i] = x[k + i]
      BY <1>8, <3>1
    <3> QED  BY <1>2, <3>1, <3>2, <3>3
  <2>3. Len(y) = n - k /\ Len(SubSeq(x, k + 1, n)) = n - k
    BY <1>2, <1>6, <1>8, <1>9, <2>1
  <2>4. y = SubSeq(x, k + 1, n)
    BY <1>6, <1>8, <2>2, <2>3, SameBytes
  <2> QED  BY <1>2, <1>3, <1>5, <2>4
<1>10. CASE n = k
  <2>1. d.len = 0
    BY <1>2, <1>4, <1>10, EmptyType
  <2>2. Len(y) = 0 /\ Len(SubSeq(x, k + 1, n)) = 0
    BY <1>2, <1>6, <1>8, <1>10, <2>1
  <2>3. y = SubSeq(x, k + 1, n)
    BY <1>6, <1>8, <2>2, SameBytes
  <2> QED  BY <1>2, <1>3, <1>5, <2>3
<1> QED  BY <1>2, <1>9, <1>10

\* What may be in m and c when the target t has been given n bytes.
GivenFits(s, t, n, m, c) ==
  /\ m \in MemType /\ c \in ChunkType /\ WellPlaced(m, c)
  /\ \A d \in Blocks : s.mem.heap[d].state # "unused" =>
       m.heap[d].state = s.mem.heap[d].state /\ Len(m.heap[d].bytes) = Len(s.mem.heap[d].bytes)
  /\ \E b : \A d \in Blocks : d # b => m.heap[d].state = s.mem.heap[d].state
  /\ \/ c.ptr = NULL
     \/ c.ptr = s.rest.ptr
     \/ c.ptr = s.chunk[t].ptr /\ c.off = s.chunk[t].off
     \/ /\ c.ptr \in Blocks /\ c.off = 0
        /\ s.mem.heap[c.ptr].state = "unused" /\ m.heap[c.ptr].state = "live"
  /\ s.full = FALSE /\ ~Dead(s.mem, s.rest) /\ ~Dead(s.mem, s.chunk[t]) =>
       /\ m.fault = s.mem.fault
       /\ BytesIn(m, c) = SubSeq(BytesIn(s.mem, s.rest), 1, n)
       /\ \A d \in Blocks : s.mem.heap[d].state # "unused" /\ d # s.chunk[t].ptr => m.heap[d] = s.mem.heap[d]

LEMMA NothingFits ==
  ASSUME NEW s, s.mem \in MemType, NEW t, s.rest \in ChunkType, WellPlaced(s.mem, s.rest)
  PROVE  GivenFits(s, t, 0, s.mem, ChunkEmpty)
<1>1. ChunkEmpty \in ChunkType /\ ChunkEmpty.ptr = NULL /\ ChunkEmpty.len = 0 /\ WellPlaced(s.mem, ChunkEmpty)
  BY EmptyType DEF WellPlaced
<1>2. PICK x : x = BytesIn(s.mem, s.rest)
  OBVIOUS
<1>3. x \in Seq(Nat) /\ 0 <= Len(x)
  BY <1>2, BytesType, LenProperties
<1>4. BytesIn(s.mem, ChunkEmpty) = SubSeq(x, 1, 0)
  BY <1>1, <1>3, PrefixBytes
<1> QED  BY <1>1, <1>2, <1>4 DEF GivenFits

\* No memory for the target.
LEMMA NoneFits ==
  ASSUME NEW s, s.mem \in MemType, s.full = TRUE, NEW t, NEW n
  PROVE  GivenFits(s, t, n, Fault(s.mem), ChunkEmpty)
<1>1. PICK m : m = Fault(s.mem)
  OBVIOUS
<1>2. m \in MemType /\ m.heap = s.mem.heap
  BY <1>1, FaultIs
<1>3. ChunkEmpty \in ChunkType /\ ChunkEmpty.ptr = NULL /\ WellPlaced(m, ChunkEmpty)
  BY EmptyType DEF WellPlaced
<1>4. s.full # FALSE
  BY Zenon
<1>5. GivenFits(s, t, n, m, ChunkEmpty)
  BY <1>2, <1>3, <1>4, Zenon DEF GivenFits
<1> QED  BY <1>1, <1>5

LEMMA MovedFits ==
  ASSUME NEW s, s.mem \in MemType, NEW t, s.rest \in ChunkType, WellPlaced(s.mem, s.rest),
         NEW n \in Nat, n > 0, n <= s.rest.len
  PROVE  GivenFits(s, t, n, s.mem, [s.rest EXCEPT !.len = n])
<1>1. PICK c : c = [s.rest EXCEPT !.len = n]
  OBVIOUS
<1>2. c \in ChunkType /\ c.ptr = s.rest.ptr /\ c.off = s.rest.off /\ c.len = n
  BY <1>1 DEF ChunkType
<1>3. s.rest.ptr # NULL /\ s.rest.off \in Nat /\ s.rest.len \in Nat
  BY EmptyType DEF WellPlaced, ChunkType
<1>4. /\ s.mem.heap[s.rest.ptr].state # "unused"
      /\ s.rest.off + s.rest.len <= Len(s.mem.heap[s.rest.ptr].bytes)
      /\ s.mem.heap[s.rest.ptr].bytes \in Seq(Nat)
  BY <1>3 DEF WellPlaced, MemType, BlockType, ChunkType
<1>5. s.rest.off + n <= Len(s.mem.heap[s.rest.ptr].bytes)
  <2>1. PICK a, l, top : a = s.rest.off /\ l = s.rest.len /\ top = Len(s.mem.heap[s.rest.ptr].bytes)
    OBVIOUS
  <2>2. a \in Nat /\ l \in Nat /\ top \in Nat /\ a + l <= top /\ n <= l
    BY <1>3, <1>4, <2>1, LenProperties
  <2>3. a + n <= top
    BY <2>2
  <2> QED  BY <2>1, <2>3, Zenon
<1>6. WellPlaced(s.mem, c)
  BY <1>2, <1>3, <1>4, <1>5 DEF WellPlaced
<1>7. PICK x : x = BytesIn(s.mem, s.rest)
  OBVIOUS
<1>8. /\ x \in Seq(Nat) /\ n <= Len(x)
      /\ \A i \in 1 .. n : s.mem.heap[c.ptr].bytes[c.off + i] = x[i]
  <2>1. x \in Seq(Nat) /\ Len(x) = s.rest.len
        /\ \A i \in 1 .. s.rest.len : x[i] = s.mem.heap[s.rest.ptr].bytes[s.rest.off + i]
    BY <1>7, BytesType
  <2>2. \A i \in 1 .. n : i \in 1 .. s.rest.len
    BY <1>3
  <2> QED  BY <1>2, <2>1, <2>2
<1>9. BytesIn(s.mem, c) = SubSeq(x, 1, n)
  BY <1>2, <1>6, <1>8, PrefixBytes
<1> QED  BY <1>1, <1>2, <1>6, <1>7, <1>9 DEF GivenFits

LEMMA PrefixIs ==
  ASSUME NEW x \in Seq(Nat), NEW n \in Nat, n <= Len(x)
  PROVE  /\ SubSeq(x, 1, n) \in Seq(Nat) /\ Len(SubSeq(x, 1, n)) = n
         /\ \A i \in 1 .. n : SubSeq(x, 1, n)[i] = x[i]
<1>1. \A i \in 1 .. n : x[i] \in Nat
  BY LenProperties, ElementOfSeq
<1>2. /\ SubSeq(x, 1, n) \in Seq(Nat)
      /\ Len(SubSeq(x, 1, n)) = IF 1 <= n THEN n - 1 + 1 ELSE 0
      /\ \A i \in 1 .. n - 1 + 1 : SubSeq(x, 1, n)[i] = x[1 + i - 1]
  <2>1. 1 \in Int /\ n \in Int
    OBVIOUS
  <2> QED  BY <1>1, <2>1, SubSeqProperties
<1> QED  BY <1>2

LEMMA AllocatedFits ==
  ASSUME NEW s, s.mem \in MemType, NEW t, s.rest \in ChunkType, WellPlaced(s.mem, s.rest),
         NEW n \in Nat, n <= s.rest.len, \E d \in Blocks : s.mem.heap[d].state = "unused",
         NEW bytes, bytes = SubSeq(BytesIn(s.mem, s.rest), 1, n),
         NEW b, b = AnUnused(s.mem),
         NEW m, m = Allocated(Touch(s.mem, s.rest), b, bytes)
  PROVE  GivenFits(s, t, n, m, chunkCreate(b, n))
<1>1. PICK x : x = BytesIn(s.mem, s.rest)
  OBVIOUS
<1>2. /\ x \in Seq(Nat) /\ n <= Len(x) /\ bytes \in Seq(Nat) /\ Len(bytes) = n
      /\ \A i \in 1 .. n : bytes[i] = x[i]
  BY <1>1, BytesType, PrefixIs
<1>3. b \in Blocks /\ s.mem.heap[b].state = "unused"
  BY UnusedIs
<1>4. PICK m0 : m0 = Touch(s.mem, s.rest)
  OBVIOUS
<1>5. m0 \in MemType /\ m0.heap = s.mem.heap /\ (~Dead(s.mem, s.rest) => m0 = s.mem)
  BY <1>4, TouchIs
<1>6. /\ m \in MemType /\ m.fault = m0.fault
      /\ m.heap[b] = [state |-> "live", bytes |-> bytes]
      /\ \A d \in Blocks : d # b => m.heap[d] = m0.heap[d]
  <2>1. PICK e, xs : e = b /\ xs = bytes
    OBVIOUS
  <2>2. m0 \in MemType /\ e \in Blocks /\ xs \in Seq(Nat)
    BY <1>2, <1>3, <1>5, <2>1
  <2>3. PICK r : r = Allocated(m0, e, xs)
    OBVIOUS
  <2>4. /\ r \in MemType /\ r.fault = m0.fault /\ r.heap[e] = [state |-> "live", bytes |-> xs]
        /\ \A d \in Blocks : d # e => r.heap[d] = m0.heap[d]
    BY <2>2, <2>3, AllocatedIs
  <2> QED  BY <1>4, <2>1, <2>3, <2>4
<1>7. PICK c : c = chunkCreate(b, n)
  OBVIOUS
<1>8. c \in ChunkType /\ c.ptr = b /\ c.off = 0 /\ c.len = n /\ b # NULL
  <2>1. c = [ptr |-> b, off |-> 0, len |-> n]
    BY <1>7 DEF chunkCreate
  <2>2. PICK e : e = b
    OBVIOUS
  <2>3. e \in Blocks /\ e # NULL /\ c = [ptr |-> e, off |-> 0, len |-> n]
    BY <1>3, <2>1, <2>2, NullIsNoBlock
  <2>4. c \in ChunkType /\ c.ptr = e /\ c.off = 0 /\ c.len = n
    BY <2>3 DEF ChunkType
  <2> QED  BY <2>2, <2>3, <2>4
<1>9. m.heap[b].state = "live" /\ m.heap[b].bytes = bytes
  BY <1>6
<1>10. WellPlaced(m, c)
  BY <1>2, <1>8, <1>9 DEF WellPlaced
<1>11. BytesIn(m, c) = SubSeq(x, 1, n)
  <2>1. ASSUME NEW i \in 1 .. n PROVE m.heap[c.ptr].bytes[c.off + i] = x[i]
    <3>1. c.off + i = i
      BY <1>8
    <3>2. m.heap[c.ptr].bytes = bytes
      BY <1>8, <1>9, Zenon
    <3>3. bytes[i] = x[i]
      BY <1>2, Zenon
    <3> QED  BY <3>1, <3>2, <3>3, Zenon
  <2> QED  BY <1>2, <1>6, <1>8, <1>10, <2>1, PrefixBytes
<1>12. /\ \A d \in Blocks : d # b => m.heap[d] = s.mem.heap[d]
       /\ \A d \in Blocks : s.mem.heap[d].state # "unused" => m.heap[d] = s.mem.heap[d]
  BY <1>3, <1>5, <1>6
<1>13. \E e : \A d \in Blocks : d # e => m.heap[d].state = s.mem.heap[d].state
  BY <1>12
<1>14. ~Dead(s.mem, s.rest) => m.fault = s.mem.fault
  BY <1>5, <1>6
<1>15. GivenFits(s, t, n, m, c)
  BY <1>1, <1>3, <1>6, <1>8, <1>9, <1>10, <1>11, <1>12, <1>13, <1>14, Zenon DEF GivenFits
<1> QED  BY <1>7, <1>15

LEMMA CopiedFits ==
  ASSUME NEW s, s.mem \in MemType, NEW t, s.rest \in ChunkType, WellPlaced(s.mem, s.rest),
         NEW old, old = s.chunk[t], old \in ChunkType, WellPlaced(s.mem, old),
         NEW n \in Nat, n > 0, n <= s.rest.len, n <= old.len,
         NEW bytes, bytes = SubSeq(BytesIn(s.mem, s.rest), 1, n),
         NEW m, m = IF Dead(s.mem, s.rest) THEN Fault(s.mem) ELSE Stored(s.mem, old, bytes)
  PROVE  GivenFits(s, t, n, m, [old EXCEPT !.len = n])
<1>1. PICK x : x = BytesIn(s.mem, s.rest)
  OBVIOUS
<1>2. /\ x \in Seq(Nat) /\ n <= Len(x) /\ bytes \in Seq(Nat) /\ Len(bytes) = n
      /\ \A i \in 1 .. n : bytes[i] = x[i]
  BY <1>1, BytesType, PrefixIs
<1>3. PICK p, a, l : p = old.ptr /\ a = old.off /\ l = old.len
  OBVIOUS
<1>4. a \in Nat /\ l \in Nat /\ n <= l /\ p # NULL /\ p \in Blocks
  <2>1. old.len # 0
    BY DEF ChunkType
  <2>2. old # ChunkEmpty
    BY <2>1, EmptyType
  <2> QED  BY <1>3, <2>2 DEF ChunkType, WellPlaced
<1>5. PICK c : c = [old EXCEPT !.len = n]
  OBVIOUS
<1>6. c \in ChunkType /\ c.ptr = p /\ c.off = a /\ c.len = n
  BY <1>3, <1>5 DEF ChunkType
<1>7. PICK top : top = Len(s.mem.heap[p].bytes)
  OBVIOUS
<1>8. top \in Nat /\ a + l <= top /\ s.mem.heap[p].state # "unused"
  <2>1. s.mem.heap[p].bytes \in Seq(Nat)
    BY <1>4 DEF MemType, BlockType
  <2> QED  BY <1>3, <1>4, <1>7, <2>1, LenProperties DEF WellPlaced
<1>9. /\ m \in MemType
      /\ \A d \in Blocks : /\ m.heap[d].state = s.mem.heap[d].state
                           /\ Len(m.heap[d].bytes) = Len(s.mem.heap[d].bytes)
                           /\ d # p => m.heap[d] = s.mem.heap[d]
      /\ ~Dead(s.mem, s.rest) /\ ~Dead(s.mem, old) =>
           /\ m.fault = s.mem.fault
           /\ \A i \in 1 .. n : a + i <= top => m.heap[p].bytes[a + i] = bytes[i]
  <2>1. CASE Dead(s.mem, s.rest)
    <3>1. m = Fault(s.mem)
      BY <2>1
    <3> QED  BY <2>1, <3>1, FaultIs
  <2>2. CASE ~Dead(s.mem, s.rest)
    <3>1. m = Stored(s.mem, old, bytes) /\ old.ptr \in Blocks
      BY <1>3, <1>4, <2>2
    <3>2. PICK m0, c0, xs : m0 = s.mem /\ c0 = old /\ xs = bytes
      OBVIOUS
    <3>3. PICK r : r = Stored(m0, c0, xs)
      OBVIOUS
    <3>4. m0 \in MemType /\ c0 \in ChunkType /\ c0.ptr \in Blocks /\ xs \in Seq(Nat)
      <4>1. m0 \in MemType /\ xs \in Seq(Nat)
        BY <1>2, <3>2
      <4>2. c0 \in ChunkType /\ c0.ptr \in Blocks
        BY <3>1, <3>2
      <4> QED  BY <4>1, <4>2
    <3>5. /\ r \in MemType
          /\ \A d \in Blocks : /\ r.heap[d].state = m0.heap[d].state
                               /\ Len(r.heap[d].bytes) = Len(m0.heap[d].bytes)
                               /\ d # c0.ptr => r.heap[d] = m0.heap[d]
          /\ ~Dead(m0, c0) =>
               /\ r.fault = m0.fault
               /\ \A i \in 1 .. Len(xs) :
                    c0.off + i <= Len(m0.heap[c0.ptr].bytes)
                      => r.heap[c0.ptr].bytes[c0.off + i] = xs[i]
      BY <3>3, <3>4, StoredIs
    <3>6. r = m
      BY <3>1, <3>2, <3>3, Zenon
    <3> QED  BY <1>2, <1>3, <1>7, <3>2, <3>4, <3>5, <3>6
  <2> QED  BY <2>1, <2>2
<1>10. WellPlaced(m, c)
  <2>1. a + n <= top
    BY <1>4, <1>8
  <2>2. Len(m.heap[p].bytes) = top /\ m.heap[p].state # "unused"
    BY <1>4, <1>7, <1>8, <1>9
  <2> QED  BY <1>4, <1>6, <2>1, <2>2 DEF WellPlaced
<1>11. ~Dead(s.mem, s.rest) /\ ~Dead(s.mem, old) => BytesIn(m, c) = SubSeq(x, 1, n)
  <2> SUFFICES ASSUME ~Dead(s.mem, s.rest) /\ ~Dead(s.mem, old) PROVE BytesIn(m, c) = SubSeq(x, 1, n)
    OBVIOUS
  <2>1. \A i \in 1 .. n : a + i <= top
    BY <1>4, <1>8
  <2>2. \A i \in 1 .. n : m.heap[p].bytes[a + i] = x[i]
    BY <1>2, <1>9, <2>1
  <2>3. \A i \in 1 .. c.len : m.heap[c.ptr].bytes[c.off + i] = x[i]
    BY <1>6, <2>2
  <2> QED  BY <1>2, <1>6, <1>9, <1>10, <2>3, PrefixBytes
<1>12. \E e : \A d \in Blocks : d # e => m.heap[d].state = s.mem.heap[d].state
  BY <1>9
<1>13. c.ptr = s.chunk[t].ptr /\ c.off = s.chunk[t].off
  BY <1>3, <1>6
<1>14. GivenFits(s, t, n, m, c)
  BY <1>1, <1>3, <1>6, <1>9, <1>10, <1>11, <1>12, <1>13, Zenon DEF GivenFits
<1> QED  BY <1>5, <1>14

\* Whatever the mode is, the target gets a chunk that fits.
LEMMA GivenIs ==
  ASSUME NEW s, s.mem \in MemType, s.chunk \in [ChunkVars -> ChunkType],
         s.rest \in ChunkType, WellPlaced(s.mem, s.rest),
         NEW p \in Part, p.target \in ChunkVars, WellPlaced(s.mem, s.chunk[p.target]),
         \E d \in Blocks : s.mem.heap[d].state = "unused", s.full \in BOOLEAN,
         NEW mode \in {"m", "a", "c"}
  PROVE  \E m, c :
           /\ GivenFits(s, p.target, Taken(s, p, mode), m, c)
           /\ Given(s, p, mode) = [mem |-> m, chunk |-> [s.chunk EXCEPT ![p.target] = c],
                                   rest |-> chunkSkip(s.rest, Taken(s, p, mode)), k |-> s.k + 1,
                                   full |-> s.full]
<1>1. PICK n : n = Taken(s, p, mode)
  OBVIOUS
<1>2. n \in Nat /\ n <= s.rest.len /\ (mode = "c" => n <= s.chunk[p.target].len)
  BY <1>1, TakenIs
<1>3. PICK bytes, b : bytes = SubSeq(BytesIn(s.mem, s.rest), 1, n) /\ b = AnUnused(s.mem)
  OBVIOUS
<1> DEFINE with(m, c) == [mem |-> m, chunk |-> [s.chunk EXCEPT ![p.target] = c],
                          rest |-> chunkSkip(s.rest, n), k |-> s.k + 1, full |-> s.full]
           copied == IF Dead(s.mem, s.rest) THEN Fault(s.mem) ELSE Stored(s.mem, s.chunk[p.target], bytes)
           taken == Allocated(Touch(s.mem, s.rest), b, bytes)
<1>4. /\ n = 0 => Given(s, p, mode) = with(s.mem, ChunkEmpty)
      /\ n > 0 /\ mode = "m" => Given(s, p, mode) = with(s.mem, [s.rest EXCEPT !.len = n])
      /\ n > 0 /\ mode = "a" /\ s.full => Given(s, p, mode) = with(Fault(s.mem), ChunkEmpty)
      /\ n > 0 /\ mode = "a" /\ ~s.full => Given(s, p, mode) = with(taken, chunkCreate(b, n))
      /\ n > 0 /\ mode = "c" => Given(s, p, mode) = with(copied, [s.chunk[p.target] EXCEPT !.len = n])
  BY <1>1, <1>2, <1>3 DEF Given
<1>5. SUFFICES \E m, c : GivenFits(s, p.target, n, m, c) /\ Given(s, p, mode) = with(m, c)
  BY <1>1, Zenon
<1> HIDE DEF with
<1>6. CASE n = 0
  <2>1. GivenFits(s, p.target, n, s.mem, ChunkEmpty)
    BY <1>6, NothingFits
  <2> QED  BY <1>4, <1>6, <2>1
<1>7. CASE n > 0 /\ mode = "m"
  <2>1. GivenFits(s, p.target, n, s.mem, [s.rest EXCEPT !.len = n])
    BY <1>2, <1>7, MovedFits
  <2> QED  BY <1>4, <1>7, <2>1
<1>10. CASE n > 0 /\ mode = "a" /\ s.full
  <2>1. s.full = TRUE
    BY <1>10, Zenon
  <2>2. GivenFits(s, p.target, n, Fault(s.mem), ChunkEmpty)
    BY <2>1, NoneFits
  <2> QED  BY <1>4, <1>10, <2>2, Zenon
<1>8. CASE n > 0 /\ mode = "a" /\ ~s.full
  <2>1. PICK m : m = taken
    OBVIOUS
  <2>2. GivenFits(s, p.target, n, m, chunkCreate(b, n))
    BY <1>2, <1>3, <2>1, AllocatedFits
  <2> QED  BY <1>4, <1>8, <2>1, <2>2
<1>9. CASE n > 0 /\ mode = "c"
  <2>1. PICK m, old : m = copied /\ old = s.chunk[p.target]
    OBVIOUS
  <2>2. /\ old \in ChunkType /\ WellPlaced(s.mem, old) /\ n <= old.len
        /\ m = IF Dead(s.mem, s.rest) THEN Fault(s.mem) ELSE Stored(s.mem, old, bytes)
    BY <1>2, <1>9, <2>1
  <2> HIDE DEF copied
  <2>3. GivenFits(s, p.target, n, m, [old EXCEPT !.len = n])
    BY <1>2, <1>3, <1>9, <2>1, <2>2, CopiedFits
  <2> QED  BY <1>4, <1>9, <2>1, <2>3
<1> QED  BY <1>2, <1>6, <1>7, <1>8, <1>9, <1>10

SplitTyped(s) ==
  /\ s = [mem |-> s.mem, chunk |-> s.chunk, rest |-> s.rest, k |-> s.k, full |-> s.full]
  /\ s.full \in BOOLEAN /\ s.mem \in MemType /\ s.chunk \in [ChunkVars -> ChunkType] /\ s.rest \in ChunkType
  /\ s.k \in Nat \ {0}

UnusedIn(m) == {b \in Blocks : m.heap[b].state = "unused"}

\* After j pairs, whoever called: what is left and what was handed out is where
\* memory is, what was moved points into the block of v, and the rest is owned as before.
SplitShape(v, ps, j, s) ==
  /\ SplitTyped(s)
  /\ WellPlaced(s.mem, s.rest) /\ s.rest.ptr \in {NULL, chunk[v].ptr}
  /\ \A w \in ChunkVars : WellPlaced(s.mem, s.chunk[w])
  /\ \A w \in ChunkVars : (\A i \in 1 .. j : ps[i].target # w) => s.chunk[w] = chunk[w]
  /\ \A d \in Blocks : mem.heap[d].state # "unused" => s.mem.heap[d].state = mem.heap[d].state
  /\ Cardinality(UnusedIn(s.mem)) >= Len(ps) - j
  /\ s.k <= LetterAfter(ps, j)
  /\ \A u \in ChunkVars \ shared :
       s.chunk[u].ptr # NULL => s.chunk[u].ptr = chunk[v].ptr \/ Sole(s.mem, s.chunk, u)

LEMMA UnusedInIs ==
  ASSUME NEW m
  PROVE  /\ IsFiniteSet(UnusedIn(m)) /\ Cardinality(UnusedIn(m)) \in Nat
         /\ Cardinality(UnusedIn(m)) > 0 => \E b \in Blocks : m.heap[b].state = "unused"
<1>1. UnusedIn(m) \subseteq Blocks /\ IsFiniteSet(Blocks)
  BY ChunkAssumption DEF UnusedIn
<1>2. IsFiniteSet(UnusedIn(m))
  BY <1>1, FS_Subset
<1>3. Cardinality(UnusedIn(m)) \in Nat
  BY <1>2, FS_CardinalityType
<1>4. UnusedIn(m) = {} => Cardinality(UnusedIn(m)) = 0
  BY FS_EmptySet
<1>5. Cardinality(UnusedIn(m)) > 0 => UnusedIn(m) # {}
  BY <1>4
<1> QED  BY <1>2, <1>3, <1>5 DEF UnusedIn

\* At most one block less is unused.
LEMMA OneBlockUsed ==
  ASSUME NEW m, NEW m1, NEW b, \A d \in Blocks : d # b => m1.heap[d].state = m.heap[d].state
  PROVE  Cardinality(UnusedIn(m1)) >= Cardinality(UnusedIn(m)) - 1
<1>1. PICK U, V, W : U = UnusedIn(m) /\ V = UnusedIn(m1) /\ W = UnusedIn(m) \ {b}
  OBVIOUS
<1>2. IsFiniteSet(U) /\ IsFiniteSet(V) /\ W = U \ {b}
  BY <1>1, UnusedInIs
<1>3. W \subseteq V
  BY <1>1 DEF UnusedIn
<1>4. Cardinality(W) <= Cardinality(V) /\ Cardinality(W) \in Nat /\ Cardinality(V) \in Nat
  BY <1>2, <1>3, FS_Subset, FS_CardinalityType
<1>5. Cardinality(U) \in Nat /\ Cardinality(W) >= Cardinality(U) - 1
  <2>1. Cardinality(U) \in Nat
    BY <1>2, FS_CardinalityType
  <2>2. CASE b \in U
    <3>1. Cardinality(W) = Cardinality(U) - 1
      BY <1>2, <2>2, FS_RemoveElement
    <3> QED  BY <2>1, <3>1
  <2>3. CASE b \notin U
    <3>1. W = U
      BY <1>2, <2>3
    <3> QED  BY <2>1, <3>1
  <2> QED  BY <2>1, <2>2, <2>3
<1>6. Cardinality(V) >= Cardinality(U) - 1
  BY <1>4, <1>5
<1> QED  BY <1>1, <1>6

\* A pair with a target keeps the shape.
LEMMA TargetKeepsShape ==
  ASSUME ChunkIInv, NEW v \in ChunkVars, NEW ps \in Parts, NEW j \in Nat, j + 1 <= Len(ps),
         NEW s, SplitShape(v, ps, j, s), NEW n \in Nat,
         NEW t \in ChunkVars, t = ps[j + 1].target, NEW m, NEW c, GivenFits(s, t, n, m, c),
         NEW s1, s1 = [mem |-> m, chunk |-> [s.chunk EXCEPT ![t] = c],
                       rest |-> chunkSkip(s.rest, n), k |-> s.k + 1, full |-> s.full]
  PROVE  SplitShape(v, ps, j + 1, s1)
<1>1. /\ s.mem \in MemType /\ s.chunk \in [ChunkVars -> ChunkType] /\ s.rest \in ChunkType
      /\ s.k \in Nat \ {0}
      /\ WellPlaced(s.mem, s.rest) /\ s.rest.ptr \in {NULL, chunk[v].ptr}
      /\ \A w \in ChunkVars : WellPlaced(s.mem, s.chunk[w])
  BY DEF SplitShape, SplitTyped
<1>2. /\ m \in MemType /\ c \in ChunkType /\ WellPlaced(m, c)
      /\ \A d \in Blocks : s.mem.heap[d].state # "unused" =>
           m.heap[d].state = s.mem.heap[d].state /\ Len(m.heap[d].bytes) = Len(s.mem.heap[d].bytes)
  BY DEF GivenFits
<1>3. /\ s1.mem = m /\ s1.rest = chunkSkip(s.rest, n) /\ s1.k = s.k + 1
      /\ s1.chunk = [s.chunk EXCEPT ![t] = c]
      /\ s1 = [mem |-> s1.mem, chunk |-> s1.chunk, rest |-> s1.rest, k |-> s1.k, full |-> s1.full]
  OBVIOUS
<1>15. s1.full \in BOOLEAN
  <2>1. s1.full = s.full
    OBVIOUS
  <2> QED  BY <2>1, Zenon DEF SplitShape, SplitTyped
<1>16. s1.k <= LetterAfter(ps, j + 1)
  <2>1. PICK k, x, y : k = s.k /\ x = LetterAfter(ps, j) /\ y = LetterAfter(ps, j + 1)
    OBVIOUS
  <2>2. k \in Nat /\ x \in Nat /\ k <= x
    BY <1>1, <2>1, LetterAfterIs DEF SplitShape
  <2>3. t # NULL
    BY NullIsNoBlock
  <2>4. y = x + 1
    BY <2>1, <2>3, LetterAfterIs
  <2>5. k + 1 <= y
    BY <2>2, <2>4
  <2> QED  BY <1>3, <2>1, <2>5
<1>4. /\ s1.chunk \in [ChunkVars -> ChunkType] /\ s1.chunk[t] = c
      /\ \A w \in ChunkVars : w # t => s1.chunk[w] = s.chunk[w]
  BY <1>1, <1>2, <1>3
<1>5. chunkSkip(s.rest, n) \in ChunkType /\ WellPlaced(s.mem, chunkSkip(s.rest, n))
      /\ chunkSkip(s.rest, n).ptr \in {NULL, s.rest.ptr}
  BY <1>1, SkipIs
<1>6. ASSUME NEW d \in ChunkType, WellPlaced(s.mem, d) PROVE WellPlaced(m, d)
  <2>1. d.ptr # NULL => d.ptr \in Blocks /\ s.mem.heap[d.ptr].state # "unused"
    BY <1>6 DEF WellPlaced, ChunkType
  <2>2. d.ptr # NULL => /\ m.heap[d.ptr].state = "unused" => s.mem.heap[d.ptr].state = "unused"
                        /\ Len(m.heap[d.ptr].bytes) = Len(s.mem.heap[d.ptr].bytes)
    BY <1>2, <2>1
  <2> QED  BY <1>6, <2>2, StaysPlaced
<1>7. SplitTyped(s1)
  BY <1>1, <1>2, <1>3, <1>4, <1>5, <1>15 DEF SplitTyped
<1>8. WellPlaced(s1.mem, s1.rest) /\ s1.rest.ptr \in {NULL, chunk[v].ptr}
  BY <1>1, <1>3, <1>5, <1>6
<1>9. \A w \in ChunkVars : WellPlaced(s1.mem, s1.chunk[w])
  <2> SUFFICES ASSUME NEW w \in ChunkVars PROVE WellPlaced(m, s1.chunk[w])
    BY <1>3
  <2>1. s.chunk[w] \in ChunkType
    BY <1>1
  <2> QED  BY <1>1, <1>2, <1>4, <1>6, <2>1
<1>10. ASSUME NEW w \in ChunkVars, \A i \in 1 .. j + 1 : ps[i].target # w
       PROVE  s1.chunk[w] = chunk[w]
  <2>1. w # t /\ \A i \in 1 .. j : ps[i].target # w
    BY <1>10
  <2>2. s.chunk[w] = chunk[w]
    BY <2>1 DEF SplitShape
  <2> QED  BY <1>4, <2>1, <2>2
<1>11. \A d \in Blocks : mem.heap[d].state # "unused" => s1.mem.heap[d].state = mem.heap[d].state
  BY <1>2, <1>3 DEF SplitShape
<1>12. Cardinality(UnusedIn(s1.mem)) >= Len(ps) - (j + 1)
  <2>1. PICK b : \A d \in Blocks : d # b => m.heap[d].state = s.mem.heap[d].state
    BY Zenon DEF GivenFits
  <2>2. Cardinality(UnusedIn(m)) >= Cardinality(UnusedIn(s.mem)) - 1
    BY <2>1, OneBlockUsed
  <2>3. PICK x, y, top : x = Cardinality(UnusedIn(m)) /\ y = Cardinality(UnusedIn(s.mem)) /\ top = Len(ps)
    OBVIOUS
  <2>4. x \in Nat /\ y \in Nat /\ top \in Nat
    BY <2>3, UnusedInIs, PartsType
  <2>5. y >= top - j
    BY <2>3 DEF SplitShape
  <2>6. x >= top - (j + 1)
    BY <2>2, <2>3, <2>4, <2>5
  <2> QED  BY <1>3, <2>3, <2>6
<1>13. ASSUME NEW u \in ChunkVars \ shared, s1.chunk[u].ptr # NULL, s1.chunk[u].ptr # chunk[v].ptr
       PROVE  /\ m.heap[s1.chunk[u].ptr].state = "live" /\ s1.chunk[u].off = 0
              /\ \A w \in ChunkVars \ {u} : s1.chunk[w].ptr # s1.chunk[u].ptr
  <2>1. ASSUME NEW w \in ChunkVars, s.chunk[w].ptr # NULL
        PROVE  s.chunk[w].ptr \in Blocks /\ s.mem.heap[s.chunk[w].ptr].state # "unused"
    <3>1. s.chunk[w] \in ChunkType
      BY <1>1
    <3> QED  BY <1>1, <2>1, <3>1 DEF WellPlaced, ChunkType
  <2>2. /\ s.chunk[u].ptr # NULL /\ s.chunk[u].ptr # chunk[v].ptr =>
             /\ s.mem.heap[s.chunk[u].ptr].state = "live" /\ s.chunk[u].off = 0
             /\ \A w \in ChunkVars \ {u} : s.chunk[w].ptr # s.chunk[u].ptr
    BY DEF SplitShape, Sole
  <2>3. \/ c.ptr = NULL
        \/ c.ptr = s.rest.ptr
        \/ c.ptr = s.chunk[t].ptr /\ c.off = s.chunk[t].off
        \/ /\ c.ptr \in Blocks /\ c.off = 0
           /\ s.mem.heap[c.ptr].state = "unused" /\ m.heap[c.ptr].state = "live"
    BY DEF GivenFits
  <2>4. CASE u = t
    <3>1. s1.chunk[u] = c /\ c.ptr # NULL /\ c.ptr # s.rest.ptr
      BY <1>1, <1>4, <1>13, <2>4
    <3>2. CASE c.ptr = s.chunk[t].ptr /\ c.off = s.chunk[t].off
      <4>1. s.chunk[t].ptr \in Blocks /\ s.mem.heap[s.chunk[t].ptr].state # "unused"
        BY <2>1, <3>1, <3>2
      <4>2. s.chunk[u].ptr = c.ptr /\ s.chunk[u].off = c.off /\ c.ptr # chunk[v].ptr
        BY <1>13, <2>4, <3>1, <3>2
      <4>3. /\ s.mem.heap[c.ptr].state = "live" /\ c.off = 0
            /\ \A w \in ChunkVars \ {u} : s.chunk[w].ptr # c.ptr
        BY <2>2, <3>1, <4>2
      <4>4. m.heap[c.ptr].state = "live"
        BY <1>2, <3>2, <4>1, <4>3
      <4>5. \A w \in ChunkVars \ {u} : s1.chunk[w].ptr # c.ptr
        BY <1>4, <2>4, <4>3
      <4> QED  BY <3>1, <4>3, <4>4, <4>5
    <3>3. CASE /\ c.ptr \in Blocks /\ c.off = 0
               /\ s.mem.heap[c.ptr].state = "unused" /\ m.heap[c.ptr].state = "live"
      <4>1. \A w \in ChunkVars \ {u} : s1.chunk[w].ptr # c.ptr
        BY <1>4, <2>1, <2>4, <3>1, <3>3
      <4> QED  BY <3>1, <3>3, <4>1
    <3> QED  BY <2>3, <3>1, <3>2, <3>3
  <2>5. CASE u # t
    <3>1. s1.chunk[u] = s.chunk[u]
      BY <1>4, <2>5
    <3>2. /\ s.mem.heap[s.chunk[u].ptr].state = "live" /\ s.chunk[u].off = 0
          /\ \A w \in ChunkVars \ {u} : s.chunk[w].ptr # s.chunk[u].ptr
      BY <1>13, <2>2, <3>1
    <3>3. s.chunk[u].ptr \in Blocks /\ m.heap[s.chunk[u].ptr].state = "live"
      BY <1>2, <1>13, <2>1, <3>1, <3>2
    <3>4. c.ptr # s.chunk[u].ptr
      BY <1>1, <1>13, <2>3, <2>5, <3>1, <3>2
    <3> QED  BY <1>4, <3>1, <3>2, <3>3, <3>4
  <2> QED  BY <2>4, <2>5
<1>14. ASSUME NEW u \in ChunkVars \ shared, s1.chunk[u].ptr # NULL, s1.chunk[u].ptr # chunk[v].ptr
       PROVE  Sole(s1.mem, s1.chunk, u)
  BY <1>3, <1>13, <1>14 DEF Sole
<1> QED  BY <1>7, <1>8, <1>9, <1>10, <1>11, <1>12, <1>14, <1>16 DEF SplitShape

LEMMA StepKeepsShape ==
  ASSUME ChunkIInv, NEW v \in ChunkVars, NEW ps \in Parts, NEW j \in Nat, j + 1 <= Len(ps),
         NEW letters \in Seq({"m", "a", "c"}), NEW s, SplitShape(v, ps, j, s),
         NEW s1, s1 = SplitStep(s, ps[j + 1], letters)
  PROVE  SplitShape(v, ps, j + 1, s1)
<1>1. PICK p : p = ps[j + 1]
  OBVIOUS
<1>2. p \in Part /\ Len(ps) \in Nat
  BY <1>1, PartsType
<1>3. /\ s = [mem |-> s.mem, chunk |-> s.chunk, rest |-> s.rest, k |-> s.k, full |-> s.full]
      /\ s.mem \in MemType /\ s.chunk \in [ChunkVars -> ChunkType] /\ s.rest \in ChunkType
      /\ s.k \in Nat \ {0} /\ WellPlaced(s.mem, s.rest)
      /\ \A w \in ChunkVars : WellPlaced(s.mem, s.chunk[w])
  BY DEF SplitShape, SplitTyped
<1>4. PICK x, top : x = Cardinality(UnusedIn(s.mem)) /\ top = Len(ps)
  OBVIOUS
<1>5. x \in Nat /\ top \in Nat /\ x >= top - j /\ j + 1 <= top
  BY <1>2, <1>4, UnusedInIs DEF SplitShape
<1>6. x >= top - (j + 1) /\ x > 0
  BY <1>5
\* What only follows from fewer pairs.
<1>7. /\ \A w \in ChunkVars : (\A i \in 1 .. j + 1 : ps[i].target # w) => s.chunk[w] = chunk[w]
      /\ Cardinality(UnusedIn(s.mem)) >= Len(ps) - (j + 1)
  <2>1. \A i \in 1 .. j : i \in 1 .. j + 1
    OBVIOUS
  <2>2. \A w \in ChunkVars : (\A i \in 1 .. j + 1 : ps[i].target # w) => s.chunk[w] = chunk[w]
    BY <2>1 DEF SplitShape
  <2> QED  BY <1>4, <1>6, <2>2
<1>11. s.full \in BOOLEAN
  BY Zenon DEF SplitShape, SplitTyped
<1>12. s.k <= LetterAfter(ps, j + 1)
  <2>1. PICK k, now, next : k = s.k /\ now = LetterAfter(ps, j) /\ next = LetterAfter(ps, j + 1)
    OBVIOUS
  <2>2. k \in Nat /\ now \in Nat /\ next \in Nat /\ k <= now /\ now <= next
    BY <1>3, <2>1, LetterAfterIs DEF SplitShape
  <2>3. k <= next
    BY <2>2
  <2> QED  BY <2>1, <2>3
<1>8. CASE s.k > Len(letters)
  <2>1. s1 = s
    BY <1>8 DEF SplitStep
  <2> QED  BY <1>7, <1>12, <2>1 DEF SplitShape
<1>9. CASE ~(s.k > Len(letters)) /\ p.target = NULL
  <2>1. s1 = [s EXCEPT !.rest = chunkSkip(s.rest, p.len)]
    BY <1>1, <1>9 DEF SplitStep
  <2>2. PICK r : r = chunkSkip(s.rest, p.len)
    OBVIOUS
  <2>3. r \in ChunkType /\ WellPlaced(s.mem, r) /\ r.ptr \in {NULL, s.rest.ptr}
    <3>1. p.len \in Nat
      BY <1>2 DEF Part
    <3> QED  BY <1>3, <2>2, <3>1, SkipIs
  <2>4. /\ s1.mem = s.mem /\ s1.chunk = s.chunk /\ s1.k = s.k /\ s1.rest = r
        /\ s1.full = s.full
        /\ s1 = [mem |-> s1.mem, chunk |-> s1.chunk, rest |-> s1.rest, k |-> s1.k, full |-> s1.full]
    <3>1. PICK m, ch, rest, k, f : m = s.mem /\ ch = s.chunk /\ rest = s.rest /\ k = s.k /\ f = s.full
      OBVIOUS
    <3>2. s = [mem |-> m, chunk |-> ch, rest |-> rest, k |-> k, full |-> f]
      BY <1>3, <3>1
    <3>3. s1 = [mem |-> m, chunk |-> ch, rest |-> r, k |-> k, full |-> f]
      BY <2>1, <2>2, <3>2
    <3>4. PICK q : q = [mem |-> m, chunk |-> ch, rest |-> r, k |-> k, full |-> f]
      OBVIOUS
    <3>5. /\ q.mem = m /\ q.chunk = ch /\ q.rest = r /\ q.k = k /\ q.full = f
          /\ q = [mem |-> q.mem, chunk |-> q.chunk, rest |-> q.rest, k |-> q.k, full |-> q.full]
      BY <3>4
    <3>6. s1 = q
      BY <3>3, <3>4, Zenon
    <3> QED  BY <3>1, <3>5, <3>6, Zenon
  <2>5. s.rest.ptr \in {NULL, chunk[v].ptr}
    BY DEF SplitShape
  <2>6. s1.full \in BOOLEAN
    BY <1>11, <2>4, Zenon
  <2>7. SplitTyped(s1)
    BY <1>3, <2>3, <2>4, <2>6, Zenon DEF SplitTyped
  <2>8. WellPlaced(s1.mem, s1.rest) /\ s1.rest.ptr \in {NULL, chunk[v].ptr} /\ s1.k <= LetterAfter(ps, j + 1)
    BY <1>12, <2>3, <2>4, <2>5
  <2> QED  BY <1>3, <1>7, <2>4, <2>7, <2>8 DEF SplitShape
<1>10. CASE ~(s.k > Len(letters)) /\ p.target # NULL
  <2>1. p.target \in ChunkVars
    BY <1>2, <1>10 DEF Part
  <2>2. letters[s.k] \in {"m", "a", "c"}
    BY <1>3, <1>10, LenProperties, ElementOfSeq
  <2>3. s1 = Given(s, p, letters[s.k])
    BY <1>1, <1>10 DEF SplitStep
  <2>4. \E d \in Blocks : s.mem.heap[d].state = "unused"
    BY <1>4, <1>6, UnusedInIs
  <2>5. PICK mode, n : mode = letters[s.k] /\ n = Taken(s, p, letters[s.k])
    OBVIOUS
  <2>6. PICK m, c : /\ GivenFits(s, p.target, n, m, c)
                    /\ s1 = [mem |-> m, chunk |-> [s.chunk EXCEPT ![p.target] = c],
                             rest |-> chunkSkip(s.rest, n), k |-> s.k + 1, full |-> s.full]
    <3>1. WellPlaced(s.mem, s.chunk[p.target])
      BY <1>3, <2>1
    <3>2. mode \in {"m", "a", "c"}
      BY <2>2, <2>5
    <3>3. s1 = Given(s, p, mode) /\ n = Taken(s, p, mode)
      BY <2>3, <2>5
    <3>4. PICK m, c :
            /\ GivenFits(s, p.target, Taken(s, p, mode), m, c)
            /\ Given(s, p, mode) = [mem |-> m, chunk |-> [s.chunk EXCEPT ![p.target] = c],
                                    rest |-> chunkSkip(s.rest, Taken(s, p, mode)), k |-> s.k + 1,
                                    full |-> s.full]
      BY <1>2, <1>3, <1>11, <2>1, <2>4, <3>1, <3>2, GivenIs
    <3> QED  BY <3>3, <3>4, Zenon
  <2>7. n \in Nat
    BY <1>2, <1>3, <2>1, <2>5, TakenIs
  <2>8. PICK t : t = p.target
    OBVIOUS
  <2> QED  BY <1>1, <2>1, <2>6, <2>7, <2>8, TargetKeepsShape
<1> QED  BY <1>8, <1>9, <1>10

\* The chunk that is split and the targets are the program's own.
FairSplit(v, ps) ==
  /\ v \notin shared
  /\ \A i \in DOMAIN ps : ps[i].target \notin shared /\ ps[i].target # v

\* After j pairs of a fair call for which there is memory, with letters only for the targets there are: z is
\* what the bytes alone say.
SplitFair(v, ps, j, s, z) ==
  /\ ~s.mem.fault /\ s.full = FALSE
  /\ chunk[v].ptr # NULL => s.mem.heap[chunk[v].ptr] = mem.heap[chunk[v].ptr]
  /\ s.k = LetterAfter(ps, j)
  /\ z.left \in Seq(Nat) /\ z.of \in Seq(Seq(Nat)) /\ Len(z.of) = j
  /\ s.k <= Len(Letters(ps, FALSE)) => z.left = BytesIn(s.mem, s.rest)
  /\ \A i \in 1 .. j :
       z.of[i] = IF ps[i].target = NULL THEN <<>> ELSE BytesIn(s.mem, s.chunk[ps[i].target])

LEMMA SameBlockBytes ==
  ASSUME NEW m, NEW m1, NEW c \in ChunkType, WellPlaced(m, c),
         c.ptr # NULL => m1.heap[c.ptr].bytes = m.heap[c.ptr].bytes
  PROVE  BytesIn(m1, c) = BytesIn(m, c)
<1>1. CASE c.len = 0
  BY <1>1 DEF BytesIn
<1>2. CASE c.len # 0
  <2>1. c.ptr # NULL
    BY <1>2, EmptyType DEF WellPlaced
  <2> QED  BY <1>2, <2>1 DEF BytesIn
<1> QED  BY <1>1, <1>2

\* The length of a portion.
Amount(z, p, room) ==
  Least({Len(z.left), p.len} \cup (IF p.target # NULL /\ p.mode = "c" THEN {room[p.target]} ELSE {}))

\* A portion, and what is left of the bytes.
PortionFits(z, p, n, z1) ==
  /\ n \in Nat /\ n <= Len(z.left) /\ n <= p.len
  /\ p.target = NULL => n \in {Len(z.left), p.len}
  /\ z1.left = SubSeq(z.left, n + 1, Len(z.left)) /\ z1.left \in Seq(Nat)
  /\ z1.of \in Seq(Seq(Nat)) /\ Len(z1.of) = Len(z.of) + 1
  /\ \A i \in 1 .. Len(z.of) : z1.of[i] = z.of[i]
  /\ z1.of[Len(z.of) + 1] = IF p.target = NULL THEN <<>> ELSE SubSeq(z.left, 1, n)

LEMMA PortionType ==
  ASSUME NEW z, z.left \in Seq(Nat), z.of \in Seq(Seq(Nat)), NEW p \in Part,
         NEW room, p.target # NULL => room[p.target] \in Nat
  PROVE  PortionFits(z, p, Amount(z, p, room), Portion(z, p, room))
<1>0. PICK n, z1 : n = Amount(z, p, room) /\ z1 = Portion(z, p, room)
  OBVIOUS
<1> DEFINE T == IF p.target # NULL /\ p.mode = "c" THEN {room[p.target]} ELSE {}
<1>1. PICK x, a, b : x = z.left /\ a = Len(z.left) /\ b = p.len
  OBVIOUS
<1>2. x \in Seq(Nat) /\ a = Len(x) /\ a \in Nat /\ b \in Nat
  BY <1>1, LenProperties DEF Part
<1>3. T = {} \/ \E l \in Nat : T = {l}
  OBVIOUS
<1>4. T \subseteq Nat /\ (p.target = NULL => T = {})
  OBVIOUS
<1>5. n = Least({a, b} \cup T)
  BY <1>0, <1>1 DEF Amount
<1>6. n \in {a, b} \cup T /\ \A l \in {a, b} \cup T : n <= l
  <2> HIDE DEF T
  <2>1. PICK y : y = Least({a, b} \cup T)
    OBVIOUS
  <2>2. y \in {a, b} \cup T /\ \A l \in {a, b} \cup T : y <= l
    BY <1>2, <1>3, <2>1, LeastIs
  <2>3. n = y
    BY <1>5, <2>1, Zenon
  <2> QED  BY <2>2, <2>3
<1>7. z1 = [left |-> SubSeq(z.left, n + 1, Len(z.left)),
            of   |-> Append(z.of, IF p.target = NULL THEN <<>> ELSE SubSeq(z.left, 1, n))]
  BY <1>0, Zenon DEF Portion, Amount
<1>8. n \in Nat /\ n <= a /\ n <= b /\ (p.target = NULL => n \in {a, b})
  <2> HIDE DEF T
  <2> QED  BY <1>2, <1>4, <1>6
<1>9. SubSeq(x, n + 1, a) \in Seq(Nat)
  <2>1. \A i \in n + 1 .. a : x[i] \in Nat
    <3> SUFFICES ASSUME NEW i \in n + 1 .. a PROVE x[i] \in Nat
      OBVIOUS
    <3>1. i \in 1 .. Len(x)
      BY <1>2, <1>8
    <3> QED  BY <1>2, <3>1, ElementOfSeq
  <2>2. n + 1 \in Int /\ a \in Int
    BY <1>2, <1>8
  <2> QED  BY <2>1, <2>2, SubSeqProperties
<1>10. PICK e, of : e = (IF p.target = NULL THEN <<>> ELSE SubSeq(z.left, 1, n)) /\ of = z.of
  OBVIOUS
<1>11. e \in Seq(Nat)
  <2>1. SubSeq(x, 1, n) \in Seq(Nat)
    BY <1>2, <1>8, PrefixIs
  <2> QED  BY <1>1, <1>10, <2>1, EmptySeq
<1>12. /\ Append(of, e) \in Seq(Seq(Nat)) /\ Len(Append(of, e)) = Len(of) + 1
       /\ \A i \in 1 .. Len(of) : Append(of, e)[i] = of[i]
       /\ Append(of, e)[Len(of) + 1] = e
  <2>1. of \in Seq(Seq(Nat))
    BY <1>10
  <2> QED  BY <1>11, <2>1, AppendProperties
<1>13. z1.left = SubSeq(z.left, n + 1, Len(z.left))
       /\ z1.of = Append(z.of, IF p.target = NULL THEN <<>> ELSE SubSeq(z.left, 1, n))
  <2>1. PICK y1, y2 : /\ y1 = SubSeq(z.left, n + 1, Len(z.left))
                      /\ y2 = Append(z.of, IF p.target = NULL THEN <<>> ELSE SubSeq(z.left, 1, n))
    OBVIOUS
  <2>2. z1 = [left |-> y1, of |-> y2]
    BY <1>7, <2>1, Zenon
  <2>3. z1.left = y1 /\ z1.of = y2
    BY <2>2
  <2> QED  BY <2>1, <2>3, Zenon
<1>14. z1.left = SubSeq(x, n + 1, a) /\ z1.of = Append(of, e)
  BY <1>1, <1>10, <1>13
<1>15. z1.left \in Seq(Nat)
  BY <1>9, <1>14
<1>16. /\ z1.of \in Seq(Seq(Nat)) /\ Len(z1.of) = Len(z.of) + 1
       /\ \A i \in 1 .. Len(z.of) : z1.of[i] = z.of[i]
       /\ z1.of[Len(z.of) + 1] = e
  BY <1>10, <1>12, <1>14, Zenon
<1>17. n \in Nat /\ n <= Len(z.left) /\ n <= p.len /\ (p.target = NULL => n \in {Len(z.left), p.len})
  BY <1>1, <1>8
<1>18. z1.of[Len(z.of) + 1] = IF p.target = NULL THEN <<>> ELSE SubSeq(z.left, 1, n)
  BY <1>10, <1>16
<1>19. PortionFits(z, p, n, z1)
  BY <1>13, <1>15, <1>16, <1>17, <1>18, Zenon DEF PortionFits
<1> QED  BY <1>0, <1>19, Zenon

\* The chunk being split and the next target are alive, and apart from each other.
LEMMA SplitOwners ==
  ASSUME ChunkIInv, NEW v \in ChunkVars, NEW ps \in Parts, FairSplit(v, ps), NEW j \in Nat,
         NEW s, SplitShape(v, ps, j, s), NEW z, SplitFair(v, ps, j, s, z)
  PROVE  /\ chunk[v].ptr # NULL =>
              /\ chunk[v].ptr \in Blocks
              /\ s.mem.heap[chunk[v].ptr].state = "live"
         /\ ~Dead(s.mem, s.rest)
         /\ j + 1 <= Len(ps) /\ ps[j + 1].target # NULL =>
              /\ ps[j + 1].target \in ChunkVars
              /\ s.chunk[ps[j + 1].target] = chunk[ps[j + 1].target]
              /\ ~Dead(s.mem, s.chunk[ps[j + 1].target])
              /\ s.chunk[ps[j + 1].target].ptr # NULL =>
                   /\ s.chunk[ps[j + 1].target].ptr # chunk[v].ptr
                   /\ \A w \in ChunkVars \ {ps[j + 1].target} :
                        s.chunk[w].ptr # s.chunk[ps[j + 1].target].ptr
<1>1. Sole(mem, chunk, v) /\ chunk[v] \in ChunkType
  BY DEF FairSplit, ChunkIInv, ChunkTyped, Owned
<1>2. /\ s.rest \in ChunkType /\ WellPlaced(s.mem, s.rest) /\ s.rest.ptr \in {NULL, chunk[v].ptr}
      /\ chunk[v].ptr # NULL => s.mem.heap[chunk[v].ptr] = mem.heap[chunk[v].ptr]
  BY DEF SplitShape, SplitTyped, SplitFair
<1>3. chunk[v].ptr # NULL => /\ chunk[v].ptr \in Blocks
                             /\ s.mem.heap[chunk[v].ptr].state = "live"
                             /\ \A w \in ChunkVars \ {v} : chunk[w].ptr # chunk[v].ptr
  BY <1>1, <1>2 DEF Sole, ChunkType
<1>4. ~Dead(s.mem, s.rest)
  <2>1. CASE s.rest.ptr = NULL
    BY <1>2, <2>1, EmptyType DEF Dead, WellPlaced
  <2>2. CASE s.rest.ptr # NULL
    BY <1>2, <1>3, <2>2 DEF Dead
  <2> QED  BY <2>1, <2>2
<1>5. ASSUME j + 1 <= Len(ps), NEW t, t = ps[j + 1].target, t # NULL
      PROVE  /\ t \in ChunkVars /\ s.chunk[t] = chunk[t] /\ ~Dead(s.mem, s.chunk[t])
             /\ s.chunk[t].ptr # NULL =>
                  /\ s.chunk[t].ptr # chunk[v].ptr
                  /\ \A w \in ChunkVars \ {t} : s.chunk[w].ptr # s.chunk[t].ptr
  <2>1. /\ j + 1 \in DOMAIN ps /\ ps[j + 1] \in Part
        /\ \A i \in 1 .. j : i \in DOMAIN ps /\ i # j + 1
    BY <1>5, PartsType
  <2>2. t \in ChunkVars \ shared /\ t # v
    BY <1>5, <2>1 DEF Part, FairSplit
  <2>3. \A i \in 1 .. j : ps[i].target # t
    BY <1>5, <2>1, PartsType
  <2>4. s.chunk[t] = chunk[t]
    BY <2>2, <2>3 DEF SplitShape
  <2>5. Sole(mem, chunk, t) /\ chunk[t] \in ChunkType /\ WellPlaced(mem, chunk[t])
    BY <2>2 DEF ChunkIInv, ChunkTyped, Owned
  <2>6. chunk[t].ptr # NULL =>
          /\ chunk[t].ptr \in Blocks /\ mem.heap[chunk[t].ptr].state = "live"
          /\ s.mem.heap[chunk[t].ptr].state = "live"
    BY <2>5 DEF SplitShape, Sole, ChunkType
  <2>7. ~Dead(s.mem, s.chunk[t])
    <3>1. CASE chunk[t].ptr = NULL
      BY <2>4, <2>5, <3>1, EmptyType DEF Dead, WellPlaced
    <3>2. CASE chunk[t].ptr # NULL
      BY <2>4, <2>6, <3>2 DEF Dead
    <3> QED  BY <3>1, <3>2
  <2>8. chunk[t].ptr # NULL => chunk[t].ptr # chunk[v].ptr
    BY <2>2, <2>5 DEF Sole
  <2>9. s.chunk[t].ptr # NULL => \A w \in ChunkVars \ {t} : s.chunk[w].ptr # s.chunk[t].ptr
    BY <2>2, <2>4, <2>8 DEF SplitShape, Sole
  <2> QED  BY <2>2, <2>4, <2>7, <2>8, <2>9
<1> QED  BY <1>3, <1>4, <1>5

RoomFor == [w \in ChunkVars |-> chunk[w].len]

\* A pair without a target, or after the last letter, hands out nothing.
LEMMA NullStepIsFair ==
  ASSUME ChunkIInv, NEW v \in ChunkVars, NEW ps \in Parts, FairSplit(v, ps), NEW j \in Nat, j + 1 <= Len(ps),
         NEW letters, letters = Letters(ps, FALSE),
         NEW s, SplitShape(v, ps, j, s), NEW z, SplitFair(v, ps, j, s, z),
         ps[j + 1].target = NULL,
         NEW s1, s1 = SplitStep(s, ps[j + 1], letters), NEW z1, z1 = Portion(z, ps[j + 1], RoomFor)
  PROVE  SplitFair(v, ps, j + 1, s1, z1)
<1>1. PICK p, top : p = ps[j + 1] /\ top = Len(letters)
  OBVIOUS
<1>2. p \in Part /\ p.target = NULL /\ p.len \in Nat
  BY <1>1, PartsType DEF Part
<1>3. /\ s = [mem |-> s.mem, chunk |-> s.chunk, rest |-> s.rest, k |-> s.k, full |-> s.full]
      /\ s.mem \in MemType /\ s.rest \in ChunkType /\ s.k \in Nat \ {0}
      /\ WellPlaced(s.mem, s.rest)
  BY DEF SplitShape, SplitTyped
<1>4. /\ ~s.mem.fault
      /\ chunk[v].ptr # NULL => s.mem.heap[chunk[v].ptr] = mem.heap[chunk[v].ptr]
      /\ s.k = LetterAfter(ps, j)
      /\ z.left \in Seq(Nat) /\ z.of \in Seq(Seq(Nat)) /\ Len(z.of) = j
      /\ s.k <= top => z.left = BytesIn(s.mem, s.rest)
      /\ \A i \in 1 .. j :
           z.of[i] = IF ps[i].target = NULL THEN <<>> ELSE BytesIn(s.mem, s.chunk[ps[i].target])
  BY <1>1 DEF SplitFair
<1>5. PICK n : n = Amount(z, p, RoomFor)
  OBVIOUS
<1>6. /\ n \in Nat /\ n <= Len(z.left) /\ n <= p.len /\ n \in {Len(z.left), p.len}
      /\ z1.left = SubSeq(z.left, n + 1, Len(z.left)) /\ z1.left \in Seq(Nat)
      /\ z1.of \in Seq(Seq(Nat)) /\ Len(z1.of) = Len(z.of) + 1
      /\ \A i \in 1 .. Len(z.of) : z1.of[i] = z.of[i]
      /\ z1.of[Len(z.of) + 1] = <<>>
  <2>1. PortionFits(z, p, Amount(z, p, RoomFor), Portion(z, p, RoomFor))
    BY <1>2, <1>4, PortionType
  <2>2. PortionFits(z, p, n, z1)
    BY <1>1, <1>5, <2>1, Zenon
  <2> QED  BY <1>2, <2>2 DEF PortionFits
<1>7. LetterAfter(ps, j + 1) = LetterAfter(ps, j) /\ top \in Nat
  <2>1. j \in 0 .. Len(ps) - 1 /\ ps[j + 1].target = NULL
    BY PartsType
  <2>2. /\ letters \in Seq({"m", "a", "c"})
        /\ \A i \in 0 .. Len(ps) - 1 :
             ps[i + 1].target = NULL => LetterAfter(ps, i + 1) = LetterAfter(ps, i)
    BY LettersIs
  <2> QED  BY <1>1, <2>1, <2>2, LenProperties
<1>8. /\ s1.mem = s.mem /\ s1.chunk = s.chunk /\ s1.k = s.k /\ s1.full = s.full
      /\ s.k <= top => s1.rest = chunkSkip(s.rest, p.len)
  <2>1. CASE s.k > top
    <3>1. s1 = s
      BY <1>1, <2>1 DEF SplitStep
    <3>2. s1.mem = s.mem /\ s1.chunk = s.chunk /\ s1.k = s.k /\ s1.full = s.full
      BY <3>1, Zenon
    <3>3. ~(s.k <= top)
      BY <1>3, <1>7, <2>1
    <3> QED  BY <3>2, <3>3
  <2>2. CASE ~(s.k > top)
    <3>1. s1 = [s EXCEPT !.rest = chunkSkip(s.rest, p.len)]
      BY <1>1, <1>2, <2>2 DEF SplitStep
    <3>2. PICK r, m, ch, rest, k, f : /\ r = chunkSkip(s.rest, p.len) /\ f = s.full
                                      /\ m = s.mem /\ ch = s.chunk /\ rest = s.rest /\ k = s.k
      OBVIOUS
    <3>3. s = [mem |-> m, chunk |-> ch, rest |-> rest, k |-> k, full |-> f]
      BY <1>3, <3>2
    <3>4. s1 = [mem |-> m, chunk |-> ch, rest |-> r, k |-> k, full |-> f]
      BY <3>1, <3>2, <3>3
    <3>5. PICK q : q = [mem |-> m, chunk |-> ch, rest |-> r, k |-> k, full |-> f]
      OBVIOUS
    <3>6. q.mem = m /\ q.chunk = ch /\ q.rest = r /\ q.k = k /\ q.full = f
      BY <3>5
    <3>7. s1 = q
      BY <3>4, <3>5, Zenon
    <3> QED  BY <3>2, <3>6, <3>7, Zenon
  <2> QED  BY <2>1, <2>2
<1>9. s.k <= top => z1.left = BytesIn(s.mem, chunkSkip(s.rest, p.len))
  <2> SUFFICES ASSUME s.k <= top PROVE z1.left = BytesIn(s.mem, chunkSkip(s.rest, p.len))
    OBVIOUS
  <2>1. PICK x, l : x = z.left /\ l = s.rest.len
    OBVIOUS
  <2>2. x = BytesIn(s.mem, s.rest) /\ Len(x) = l /\ l \in Nat
    <3>1. x = BytesIn(s.mem, s.rest)
      BY <1>4, <2>1
    <3> QED  BY <1>3, <2>1, <3>1, BytesType DEF ChunkType
  <2>3. n <= l /\ n <= p.len /\ n \in {l, p.len} /\ z1.left = SubSeq(x, n + 1, Len(x))
    BY <1>6, <2>1, <2>2
  <2>4. BytesIn(s.mem, chunkSkip(s.rest, n)) = SubSeq(x, n + 1, Len(x))
    BY <1>3, <1>6, <2>1, <2>2, <2>3, SkipBytes
  <2>5. chunkSkip(s.rest, p.len) = chunkSkip(s.rest, n)
    <3>1. CASE n = p.len
      BY <3>1
    <3>2. CASE n = l
      BY <1>2, <2>1, <2>2, <2>3, <3>2 DEF chunkSkip
    <3> QED  BY <2>3, <3>1, <3>2
  <2> QED  BY <2>3, <2>4, <2>5
<1>10. s1.k <= top => z1.left = BytesIn(s1.mem, s1.rest)
  BY <1>8, <1>9
<1>11. Len(z1.of) = j + 1
  BY <1>4, <1>6
<1>12. ASSUME NEW i \in 1 .. j + 1
       PROVE  z1.of[i] = IF ps[i].target = NULL THEN <<>> ELSE BytesIn(s1.mem, s1.chunk[ps[i].target])
  <2>1. CASE i = j + 1
    BY <1>4, <1>6, <2>1
  <2>2. CASE i # j + 1
    <3>1. i \in 1 .. j
      BY <2>2
    <3> QED  BY <1>4, <1>6, <1>8, <3>1
  <2> QED  BY <2>1, <2>2
<1>13. s1.k = LetterAfter(ps, j + 1)
  BY <1>4, <1>7, <1>8
<1>14. ~s1.mem.fault /\ (chunk[v].ptr # NULL => s1.mem.heap[chunk[v].ptr] = mem.heap[chunk[v].ptr])
  BY <1>4, <1>8
<1>15. s1.full = FALSE
  BY <1>8, Zenon DEF SplitFair
<1> QED  BY <1>1, <1>6, <1>10, <1>11, <1>12, <1>13, <1>14, <1>15 DEF SplitFair

\* A pair with a target hands the next portion out.
LEMMA TargetStepIsFair ==
  ASSUME ChunkIInv, NEW v \in ChunkVars, NEW ps \in Parts, FairSplit(v, ps), NEW j \in Nat, j + 1 <= Len(ps),
         NEW letters, letters = Letters(ps, FALSE),
         NEW s, SplitShape(v, ps, j, s), NEW z, SplitFair(v, ps, j, s, z),
         ps[j + 1].target # NULL,
         NEW s1, s1 = SplitStep(s, ps[j + 1], letters), NEW z1, z1 = Portion(z, ps[j + 1], RoomFor)
  PROVE  SplitFair(v, ps, j + 1, s1, z1)
<1>1. PICK p, t, top : p = ps[j + 1] /\ t = ps[j + 1].target /\ top = Len(letters)
  OBVIOUS
<1>2. p \in Part /\ t = p.target /\ t \in ChunkVars /\ p.mode \in {"m", "a", "c"} /\ p.len \in Nat
  BY <1>1, PartsType DEF Part
<1>3. /\ s.mem \in MemType /\ s.chunk \in [ChunkVars -> ChunkType] /\ s.rest \in ChunkType
      /\ s.k \in Nat \ {0} /\ WellPlaced(s.mem, s.rest) /\ s.rest.ptr \in {NULL, chunk[v].ptr}
      /\ \A w \in ChunkVars : WellPlaced(s.mem, s.chunk[w])
  BY DEF SplitShape, SplitTyped
<1>4. /\ ~s.mem.fault
      /\ chunk[v].ptr # NULL => s.mem.heap[chunk[v].ptr] = mem.heap[chunk[v].ptr]
      /\ s.k = LetterAfter(ps, j)
      /\ z.left \in Seq(Nat) /\ z.of \in Seq(Seq(Nat)) /\ Len(z.of) = j
      /\ s.k <= top => z.left = BytesIn(s.mem, s.rest)
      /\ \A i \in 1 .. j :
           z.of[i] = IF ps[i].target = NULL THEN <<>> ELSE BytesIn(s.mem, s.chunk[ps[i].target])
  BY <1>1 DEF SplitFair
<1>5. /\ s.k <= top /\ letters[s.k] = p.mode /\ top \in Nat
      /\ LetterAfter(ps, j + 1) = s.k + 1
  <2>1. j \in 0 .. Len(ps) - 1 /\ ps[j + 1].target # NULL
    BY PartsType
  <2>2. /\ letters \in Seq({"m", "a", "c"})
        /\ \A i \in 0 .. Len(ps) - 1 :
             ps[i + 1].target # NULL =>
               /\ LetterAfter(ps, i) <= Len(letters)
               /\ letters[LetterAfter(ps, i)] = ps[i + 1].mode
               /\ LetterAfter(ps, i + 1) = LetterAfter(ps, i) + 1
    BY LettersIs
  <2>3. LetterAfter(ps, j) <= Len(letters) /\ letters[LetterAfter(ps, j)] = ps[j + 1].mode
        /\ LetterAfter(ps, j + 1) = LetterAfter(ps, j) + 1
    BY <2>1, <2>2
  <2> QED  BY <1>1, <1>4, <2>2, <2>3, LenProperties
<1>6. /\ chunk[v].ptr # NULL =>
           /\ chunk[v].ptr \in Blocks
           /\ s.mem.heap[chunk[v].ptr].state = "live"
      /\ ~Dead(s.mem, s.rest)
      /\ s.chunk[t] = chunk[t] /\ ~Dead(s.mem, s.chunk[t])
      /\ s.chunk[t].ptr # NULL =>
           /\ s.chunk[t].ptr # chunk[v].ptr
           /\ \A w \in ChunkVars \ {t} : s.chunk[w].ptr # s.chunk[t].ptr
  BY <1>1, SplitOwners
<1>7. PICK n, x : n = Taken(s, p, p.mode) /\ x = z.left
  OBVIOUS
<1>8. n \in Nat /\ n <= s.rest.len
  BY <1>2, <1>3, <1>7, TakenIs
<1>9. x = BytesIn(s.mem, s.rest) /\ x \in Seq(Nat) /\ Len(x) = s.rest.len
  <2>1. x = BytesIn(s.mem, s.rest)
    BY <1>4, <1>5, <1>7
  <2> QED  BY <1>3, <2>1, BytesType
<1>10. PICK m, c :
         /\ GivenFits(s, t, n, m, c)
         /\ s1.mem = m /\ s1.chunk = [s.chunk EXCEPT ![t] = c]
         /\ s1.rest = chunkSkip(s.rest, n) /\ s1.k = s.k + 1 /\ s1.full = s.full
  <2>1. s1 = Given(s, p, p.mode)
    <3>1. ~(s.k > top)
      BY <1>3, <1>5
    <3> QED  BY <1>1, <1>2, <1>5, <3>1 DEF SplitStep
  <2>2. \E d \in Blocks : s.mem.heap[d].state = "unused"
    <3>1. PICK y, all : y = Cardinality(UnusedIn(s.mem)) /\ all = Len(ps)
      OBVIOUS
    <3>2. y \in Nat /\ all \in Nat /\ y >= all - j /\ j + 1 <= all
      BY <3>1, UnusedInIs, PartsType DEF SplitShape
    <3>3. y > 0
      BY <3>2
    <3> QED  BY <3>1, <3>3, UnusedInIs
  <2>3. PICK m, c :
          /\ GivenFits(s, p.target, Taken(s, p, p.mode), m, c)
          /\ Given(s, p, p.mode) = [mem |-> m, chunk |-> [s.chunk EXCEPT ![p.target] = c],
                                    rest |-> chunkSkip(s.rest, Taken(s, p, p.mode)), k |-> s.k + 1,
                                    full |-> s.full]
    <3>1. s.full \in BOOLEAN
      BY Zenon DEF SplitShape, SplitTyped
    <3>2. WellPlaced(s.mem, s.chunk[p.target]) /\ p.target \in ChunkVars
      BY <1>2, <1>3
    <3> QED  BY <1>2, <1>3, <2>2, <3>1, <3>2, GivenIs
  <2>4. PICK q : q = [mem |-> m, chunk |-> [s.chunk EXCEPT ![t] = c],
                      rest |-> chunkSkip(s.rest, n), k |-> s.k + 1, full |-> s.full]
    OBVIOUS
  <2>5. /\ q.mem = m /\ q.chunk = [s.chunk EXCEPT ![t] = c]
        /\ q.rest = chunkSkip(s.rest, n) /\ q.k = s.k + 1 /\ q.full = s.full
    BY <2>4
  <2>6. s1 = q
    BY <1>2, <1>7, <2>1, <2>3, <2>4, Zenon
  <2>7. GivenFits(s, t, n, m, c)
    BY <1>2, <1>7, <2>3, Zenon
  <2> QED  BY <2>5, <2>6, <2>7, Zenon
<1>11. /\ m \in MemType /\ c \in ChunkType /\ WellPlaced(m, c)
       /\ m.fault = s.mem.fault
       /\ BytesIn(m, c) = SubSeq(x, 1, n)
       /\ \A d \in Blocks : s.mem.heap[d].state # "unused" /\ d # s.chunk[t].ptr => m.heap[d] = s.mem.heap[d]
  <2>1. s.full = FALSE
    BY Zenon DEF SplitFair
  <2> QED  BY <1>6, <1>9, <1>10, <2>1 DEF GivenFits
<1>12. s1.chunk[t] = c /\ \A w \in ChunkVars : w # t => s1.chunk[w] = s.chunk[w]
  BY <1>2, <1>3, <1>10
<1>13. chunk[v].ptr # NULL => m.heap[chunk[v].ptr] = s.mem.heap[chunk[v].ptr]
  <2>1. chunk[v].ptr # NULL => s.chunk[t].ptr # chunk[v].ptr
    BY <1>6
  <2> QED  BY <1>6, <1>11, <2>1
<1>14. SplitTyped(s) /\ n = Amount(z, p, RoomFor)
  <2>1. s.chunk[t].len = RoomFor[t]
    BY <1>2, <1>6 DEF RoomFor
  <2>2. p.target # NULL
    BY <1>1
  <2>3. s.rest.len = Len(z.left)
    BY <1>7, <1>9
  <2>4. SplitTyped(s)
    BY DEF SplitShape
  <2>5. (IF p.mode = "c" THEN {s.chunk[p.target].len} ELSE {})
          = IF p.target # NULL /\ p.mode = "c" THEN {RoomFor[p.target]} ELSE {}
    BY <1>2, <2>1, <2>2
  <2> QED  BY <1>7, <2>3, <2>4, <2>5, Zenon DEF Taken, Amount
<1>15. /\ z1.left = SubSeq(x, n + 1, Len(x)) /\ z1.left \in Seq(Nat)
       /\ z1.of \in Seq(Seq(Nat)) /\ Len(z1.of) = j + 1
       /\ \A i \in 1 .. j : z1.of[i] = z.of[i]
       /\ z1.of[j + 1] = SubSeq(x, 1, n)
  <2>1. p.target # NULL => RoomFor[p.target] \in Nat
    <3>1. chunk[t] \in ChunkType
      BY <1>2 DEF ChunkIInv, ChunkTyped
    <3> QED  BY <1>2, <3>1 DEF RoomFor, ChunkType
  <2>2. PortionFits(z, p, Amount(z, p, RoomFor), Portion(z, p, RoomFor))
    BY <1>2, <1>4, <2>1, PortionType
  <2>3. PortionFits(z, p, n, z1)
    BY <1>1, <1>14, <2>2, Zenon
  <2> QED  BY <1>1, <1>2, <1>4, <1>7, <2>3 DEF PortionFits
<1>16. z1.left = BytesIn(s1.mem, s1.rest)
  <2>1. BytesIn(s.mem, chunkSkip(s.rest, n)) = SubSeq(x, n + 1, Len(x))
    <3>1. PICK m0, rest : m0 = s.mem /\ rest = s.rest
      OBVIOUS
    <3>2. /\ m0 \in MemType /\ rest \in ChunkType /\ WellPlaced(m0, rest)
          /\ n \in Nat /\ n <= rest.len /\ x = BytesIn(m0, rest)
      BY <1>3, <1>8, <1>9, <3>1
    <3>3. BytesIn(m0, chunkSkip(rest, n)) = SubSeq(x, n + 1, Len(x))
      BY <3>2, SkipBytes
    <3> QED  BY <3>1, <3>3
  <2>2. PICK r : r = chunkSkip(s.rest, n)
    OBVIOUS
  <2>3. r \in ChunkType /\ WellPlaced(s.mem, r) /\ r.ptr \in {NULL, s.rest.ptr}
    BY <1>3, <1>8, <2>2, SkipIs
  <2>4. r.ptr # NULL => m.heap[r.ptr].bytes = s.mem.heap[r.ptr].bytes
    BY <1>3, <1>13, <2>3
  <2>5. BytesIn(m, r) = BytesIn(s.mem, r)
    BY <2>3, <2>4, SameBlockBytes
  <2> QED  BY <1>10, <1>15, <2>1, <2>2, <2>5
<1>17. ASSUME NEW i \in 1 .. j + 1
       PROVE  z1.of[i] = IF ps[i].target = NULL THEN <<>> ELSE BytesIn(s1.mem, s1.chunk[ps[i].target])
  <2>1. CASE i = j + 1
    BY <1>1, <1>10, <1>11, <1>12, <1>15, <2>1
  <2>2. CASE i # j + 1
    <3>1. i \in 1 .. j /\ i \in DOMAIN ps /\ j + 1 \in DOMAIN ps
      BY <2>2, PartsType
    <3>2. ps[i].target = NULL => z1.of[i] = <<>>
      BY <1>4, <1>15, <3>1
    <3>3. ASSUME NEW w, w = ps[i].target, w # NULL PROVE z1.of[i] = BytesIn(s1.mem, s1.chunk[w])
      <4>1. w \in ChunkVars /\ w # t
        BY <1>1, <2>2, <3>1, <3>3, PartsType DEF Part
      <4>2. PICK d : d = s.chunk[w]
        OBVIOUS
      <4>3. d \in ChunkType /\ WellPlaced(s.mem, d) /\ s1.chunk[w] = d
        BY <1>3, <1>12, <4>1, <4>2
      <4>4. d.ptr # NULL => d.ptr \in Blocks /\ s.mem.heap[d.ptr].state # "unused" /\ d.ptr # s.chunk[t].ptr
        BY <1>6, <4>1, <4>2, <4>3 DEF WellPlaced, ChunkType
      <4>5. d.ptr # NULL => m.heap[d.ptr].bytes = s.mem.heap[d.ptr].bytes
        BY <1>11, <4>4
      <4>6. BytesIn(m, d) = BytesIn(s.mem, d)
        BY <4>3, <4>5, SameBlockBytes
      <4>7. z1.of[i] = BytesIn(s.mem, d)
        BY <1>4, <1>15, <3>1, <3>3, <4>2
      <4> QED  BY <1>10, <4>3, <4>6, <4>7
    <3> QED  BY <3>2, <3>3
  <2> QED  BY <2>1, <2>2
<1>18. s1.k = LetterAfter(ps, j + 1)
  BY <1>5, <1>10
<1>19. ~s1.mem.fault
  BY <1>4, <1>10, <1>11, Zenon
<1>20. chunk[v].ptr # NULL => s1.mem.heap[chunk[v].ptr] = mem.heap[chunk[v].ptr]
  BY <1>4, <1>10, <1>13
<1>21. s1.full = FALSE
  BY <1>10, Zenon DEF SplitFair
<1> QED  BY <1>15, <1>16, <1>17, <1>18, <1>19, <1>20, <1>21 DEF SplitFair

LEMMA SplitBegins ==
  ASSUME ChunkIInv, ~mem.fault, NEW v \in ChunkVars, NEW ps \in Parts, Cardinality(Unused) >= Len(ps),
         NEW full \in BOOLEAN,
         NEW s, s = [mem |-> mem, chunk |-> chunk, rest |-> chunk[v], k |-> 1, full |-> full],
         NEW z, z = [left |-> Content(v), of |-> <<>>]
  PROVE  SplitShape(v, ps, 0, s) /\ (full = FALSE => SplitFair(v, ps, 0, s, z))
<1>1. /\ mem \in MemType /\ chunk \in [ChunkVars -> ChunkType] /\ chunk[v] \in ChunkType
      /\ \A w \in ChunkVars : WellPlaced(mem, chunk[w])
      /\ \A u \in ChunkVars \ shared : Sole(mem, chunk, u)
  BY DEF ChunkIInv, ChunkTyped, Owned
<1>2. s.mem = mem /\ s.chunk = chunk /\ s.rest = chunk[v] /\ s.k = 1 /\ s.full = full
  OBVIOUS
<1>3. s = [mem |-> s.mem, chunk |-> s.chunk, rest |-> s.rest, k |-> s.k, full |-> s.full]
  OBVIOUS
<1>13. s.full \in BOOLEAN
  BY <1>2, Zenon
<1>4. SplitTyped(s)
  BY <1>1, <1>2, <1>3, <1>13 DEF SplitTyped
<1>5. Unused = UnusedIn(mem) /\ Len(ps) - 0 = Len(ps)
  BY PartsType DEF Unused, UnusedIn
<1>6. SplitShape(v, ps, 0, s)
  <2>1. s.k <= LetterAfter(ps, 0)
    BY <1>2, LetterAfterIs
  <2> QED  BY <1>1, <1>2, <1>4, <1>5, <2>1 DEF SplitShape
<1>7. z.left = Content(v) /\ z.of = <<>> /\ Len(z.of) = 0 /\ z.of \in Seq(Seq(Nat))
  OBVIOUS
<1>8. Content(v) \in Seq(Nat) /\ Content(v) = BytesIn(s.mem, s.rest)
  BY <1>1, <1>2, BytesType DEF Content
<1>9. s.k = LetterAfter(ps, 0)
  BY <1>2 DEF LetterAfter
<1>10. \A i \in 1 .. 0 : FALSE
  OBVIOUS
<1>11. ~s.mem.fault
  BY <1>2, Zenon
<1>12. ASSUME full = FALSE PROVE SplitFair(v, ps, 0, s, z)
  <2>1. s.full = FALSE
    BY <1>2, <1>12, Zenon
  <2> QED  BY <1>2, <1>7, <1>8, <1>9, <1>10, <1>11, <2>1 DEF SplitFair
<1> QED  BY <1>6, <1>12

LEMMA StepIsFair ==
  ASSUME ChunkIInv, NEW v \in ChunkVars, NEW ps \in Parts, FairSplit(v, ps), NEW j \in Nat, j + 1 <= Len(ps),
         NEW s, SplitShape(v, ps, j, s), NEW z, SplitFair(v, ps, j, s, z)
  PROVE  SplitFair(v, ps, j + 1, SplitStep(s, ps[j + 1], Letters(ps, FALSE)), Portion(z, ps[j + 1], RoomFor))
<1>1. CASE ps[j + 1].target = NULL
  BY <1>1, NullStepIsFair
<1>2. CASE ps[j + 1].target # NULL
  BY <1>2, TargetStepIsFair
<1> QED  BY <1>1, <1>2

\* What the whole loop does.
LEMMA SplitRuns ==
  ASSUME ChunkIInv, ~mem.fault, NEW v \in ChunkVars, NEW ps \in Parts, Cardinality(Unused) >= Len(ps),
         NEW forNull \in BOOLEAN, NEW full \in BOOLEAN,
         NEW s, s = Split(v, ps, Letters(ps, forNull), full)
  PROVE  /\ SplitShape(v, ps, Len(ps), s)
         /\ ~forNull /\ full = FALSE /\ FairSplit(v, ps) =>
              \E z : z.of = Portions(ps, Content(v), RoomFor) /\ SplitFair(v, ps, Len(ps), s, z)
<1>1. PICK s0, z0 : /\ s0 = [mem |-> mem, chunk |-> chunk, rest |-> chunk[v], k |-> 1, full |-> full]
                    /\ z0 = [left |-> Content(v), of |-> <<>>]
  OBVIOUS
<1>2. SplitShape(v, ps, 0, s0) /\ (full = FALSE => SplitFair(v, ps, 0, s0, z0))
  BY <1>1, SplitBegins
<1>3. PICK letters : letters = Letters(ps, forNull)
  OBVIOUS
<1>4. letters \in Seq({"m", "a", "c"}) /\ Len(ps) \in 1 .. 2
  BY <1>3, LettersIs, PartsType
<1>5. PICK s1, z1 : s1 = SplitStep(s0, ps[1], letters) /\ z1 = Portion(z0, ps[1], RoomFor)
  OBVIOUS
<1>6. SplitShape(v, ps, 1, s1) /\ (~forNull /\ full = FALSE /\ FairSplit(v, ps) => SplitFair(v, ps, 1, s1, z1))
  <2>1. 0 \in Nat /\ 0 + 1 = 1 /\ 0 + 1 <= Len(ps)
    BY <1>4
  <2>2. PICK q : q = SplitStep(s0, ps[0 + 1], letters)
    OBVIOUS
  <2>3. SplitShape(v, ps, 0 + 1, q)
    BY <1>2, <1>4, <2>1, <2>2, StepKeepsShape
  <2>4. ~forNull /\ full = FALSE /\ FairSplit(v, ps) =>
          SplitFair(v, ps, 0 + 1, SplitStep(s0, ps[0 + 1], Letters(ps, FALSE)), Portion(z0, ps[0 + 1], RoomFor))
    BY <1>2, <2>1, StepIsFair
  <2>5. ~forNull => letters = Letters(ps, FALSE)
    BY <1>3
  <2>6. q = s1
    BY <1>5, <2>1, <2>2
  <2> QED  BY <1>5, <2>1, <2>2, <2>3, <2>4, <2>5, <2>6, Zenon
<1>7. CASE Len(ps) = 1
  <2>1. s = s1
    BY <1>1, <1>3, <1>5, <1>7, SplitIs
  <2>2. Portions(ps, Content(v), RoomFor) = z1.of
    BY <1>1, <1>5, <1>7, PortionsIs
  <2> QED  BY <1>6, <1>7, <2>1, <2>2
<1>8. CASE Len(ps) = 2
  <2>1. PICK s2, z2 : s2 = SplitStep(s1, ps[2], letters) /\ z2 = Portion(z1, ps[2], RoomFor)
    OBVIOUS
  <2>2. 1 \in Nat /\ 1 + 1 = 2 /\ 1 + 1 <= Len(ps)
    BY <1>8
  <2>3. PICK q : q = SplitStep(s1, ps[1 + 1], letters)
    OBVIOUS
  <2>4. SplitShape(v, ps, 1 + 1, q)
    BY <1>4, <1>6, <2>2, <2>3, StepKeepsShape
  <2>5. ~forNull /\ full = FALSE /\ FairSplit(v, ps) =>
          SplitFair(v, ps, 1 + 1, SplitStep(s1, ps[1 + 1], Letters(ps, FALSE)), Portion(z1, ps[1 + 1], RoomFor))
    BY <1>6, <2>2, StepIsFair
  <2>6. ~forNull => letters = Letters(ps, FALSE)
    BY <1>3
  <2>7. q = s2
    BY <2>1, <2>2, <2>3
  <2>8. SplitShape(v, ps, 2, s2) /\ (~forNull /\ full = FALSE /\ FairSplit(v, ps) => SplitFair(v, ps, 2, s2, z2))
    BY <2>1, <2>2, <2>3, <2>4, <2>5, <2>6, <2>7, Zenon
  <2>9. s = s2
    BY <1>1, <1>3, <1>5, <1>8, <2>1, SplitIs
  <2>10. Portions(ps, Content(v), RoomFor) = z2.of
    BY <1>1, <1>5, <1>8, <2>1, PortionsIs
  <2>11. SplitShape(v, ps, Len(ps), s)
    BY <1>8, <2>8, <2>9
  <2>12. ASSUME ~forNull, full = FALSE, FairSplit(v, ps)
         PROVE  \E z : z.of = Portions(ps, Content(v), RoomFor) /\ SplitFair(v, ps, Len(ps), s, z)
    <3>1. SplitFair(v, ps, 2, s2, z2)
      BY <2>8, <2>12, Zenon
    <3> QED  BY <1>8, <2>9, <2>10, <3>1
  <2> QED  BY <2>11, <2>12, Zenon
<1>9. Len(ps) = 1 \/ Len(ps) = 2
  BY <1>4
<1> QED  BY <1>7, <1>8, <1>9, Zenon

LEMMA SplitKeeps ==
  ASSUME ChunkIInv, ~mem.fault, NEW v \in ChunkVars, NEW ps \in Parts, NEW forNull \in BOOLEAN,
         NEW full \in BOOLEAN, chunkSplit(v, ps, forNull, full)
  PROVE  ChunkIInv'
<1>1. PICK letters, s : letters = Letters(ps, forNull) /\ s = Split(v, ps, letters, full)
  OBVIOUS
<1> DEFINE targets == {ps[i].target : i \in DOMAIN ps} \ {NULL}
           after == IF s.k <= Len(letters) THEN Fault(s.mem) ELSE s.mem
           held(i) == IF ps[i].target = NULL THEN <<>> ELSE BytesIn(after, s.chunk[ps[i].target])
           others == (IF forNull THEN {"letters"} ELSE {}) \cup (IF full THEN {"malloc"} ELSE {})
           used == {v} \cup targets
           got == [i \in DOMAIN ps |-> held(i)]
           want == Portions(ps, Content(v), RoomFor)
           moved == {w \in targets : s.chunk[w].ptr = chunk[v].ptr /\ ~IsEmpty(v)}
<1>2. /\ v \notin targets /\ Cardinality(Unused) >= Len(ps)
      /\ forNull => \E i \in DOMAIN ps : ps[i].target = NULL
      /\ Compared("split", used, others, got, want)
      /\ mem' = after /\ chunk' = s.chunk
      /\ shared' = shared \cup UNION {{v, w} : w \in moved}
  BY <1>1, Zenon DEF chunkSplit, RoomFor, Shares
<1>3. /\ SplitShape(v, ps, Len(ps), s)
      /\ ~forNull /\ full = FALSE /\ FairSplit(v, ps) =>
           \E z : z.of = Portions(ps, Content(v), RoomFor) /\ SplitFair(v, ps, Len(ps), s, z)
  <2>1. s = Split(v, ps, Letters(ps, forNull), full)
    BY <1>1, Zenon
  <2> QED  BY <1>2, <2>1, SplitRuns
<1>4. /\ s.mem \in MemType /\ s.chunk \in [ChunkVars -> ChunkType]
      /\ \A w \in ChunkVars : WellPlaced(s.mem, s.chunk[w])
      /\ \A w \in ChunkVars : (\A i \in 1 .. Len(ps) : ps[i].target # w) => s.chunk[w] = chunk[w]
      /\ \A d \in Blocks : mem.heap[d].state # "unused" => s.mem.heap[d].state = mem.heap[d].state
      /\ \A u \in ChunkVars \ shared :
           s.chunk[u].ptr # NULL => s.chunk[u].ptr = chunk[v].ptr \/ Sole(s.mem, s.chunk, u)
  BY <1>3 DEF SplitShape, SplitTyped
<1>5. mem' \in MemType /\ mem'.heap = s.mem.heap
  BY <1>2, <1>4, FaultIs
<1>6. DOMAIN ps = 1 .. Len(ps) /\ Len(ps) \in Nat /\ targets \subseteq ChunkVars
      /\ \A w \in ChunkVars \ targets : s.chunk[w] = chunk[w]
  <2>1. DOMAIN ps = 1 .. Len(ps) /\ Len(ps) \in Nat /\ \A i \in DOMAIN ps : ps[i] \in Part
    BY PartsType
  <2>2. \A i \in DOMAIN ps : ps[i].target \in ChunkVars \cup {NULL}
    BY <2>1 DEF Part
  <2>3. \A w \in ChunkVars \ targets : \A i \in 1 .. Len(ps) : ps[i].target # w
    BY <2>1, NullIsNoBlock
  <2> QED  BY <1>4, <2>1, <2>2, <2>3
<1>7. shared \subseteq ChunkVars /\ shared \subseteq shared' /\ shared' \subseteq ChunkVars
      /\ \A w \in moved : v \in shared' /\ w \in shared'
  <2>1. shared \subseteq ChunkVars
    BY DEF ChunkIInv, ChunkTyped
  <2> QED  BY <1>2, <1>6, <2>1
<1>8. chunk[v].ptr # NULL => ~IsEmpty(v)
  BY EmptyType DEF IsEmpty
<1>9. ChunkTyped'
  <2>1. \A w \in ChunkVars : WellPlaced(mem', chunk'[w])
    BY <1>2, <1>4, <1>5 DEF WellPlaced
  <2> QED  BY <1>2, <1>4, <1>5, <1>7, <2>1 DEF ChunkTyped
<1>10. ASSUME NEW u \in ChunkVars \ shared', s.chunk[u].ptr # NULL
       PROVE  Sole(s.mem, s.chunk, u)
  <2>1. u \in ChunkVars \ shared /\ Sole(mem, chunk, u)
    BY <1>7 DEF ChunkIInv, Owned
  <2>2. CASE s.chunk[u].ptr # chunk[v].ptr
    BY <1>4, <1>10, <2>1, <2>2
  <2>3. CASE s.chunk[u].ptr = chunk[v].ptr
    <3>1. ~IsEmpty(v)
      BY <1>8, <1>10, <2>3
    <3>2. u \notin targets
      <4>1. u \in targets => u \in moved
        BY <2>3, <3>1
      <4> QED  BY <1>7, <4>1
    <3>3. s.chunk[u] = chunk[u]
      BY <1>6, <3>2
    <3>4. u = v
      BY <1>10, <2>1, <2>3, <3>3 DEF Sole
    <3>5. /\ mem.heap[chunk[v].ptr].state = "live" /\ chunk[v].off = 0
          /\ \A w \in ChunkVars \ {v} : chunk[w].ptr # chunk[v].ptr
      BY <1>10, <2>1, <3>3, <3>4 DEF Sole
    <3>6. chunk[v].ptr \in Blocks
      BY <1>10, <3>3, <3>4 DEF ChunkIInv, ChunkTyped, ChunkType
    <3>7. s.mem.heap[chunk[v].ptr].state = "live"
      BY <1>4, <3>5, <3>6
    <3>8. ASSUME NEW w \in ChunkVars \ {v} PROVE s.chunk[w].ptr # chunk[v].ptr
      <4>1. CASE w \in targets
        <5>1. w \notin moved
          BY <1>7, <3>4
        <5> QED  BY <3>1, <4>1, <5>1
      <4>2. CASE w \notin targets
        BY <1>6, <3>5, <4>2
      <4> QED  BY <4>1, <4>2
    <3> QED  BY <3>3, <3>4, <3>5, <3>7, <3>8 DEF Sole
  <2> QED  BY <2>2, <2>3
<1>11. Owned'
  BY <1>2, <1>5, <1>10 DEF Owned, Sole
<1>12. others = {} /\ used \cap shared = {} => ~forNull /\ full = FALSE /\ FairSplit(v, ps)
  <2> SUFFICES ASSUME others = {}, used \cap shared = {}
               PROVE  ~forNull /\ full = FALSE /\ FairSplit(v, ps)
    OBVIOUS
  <2>1. ~forNull /\ ~full
    OBVIOUS
  <2>2. ASSUME NEW i \in DOMAIN ps PROVE ps[i].target \notin shared /\ ps[i].target # v
    <3>1. CASE ps[i].target = NULL
      BY <1>7, <3>1, NullIsNoBlock
    <3>2. CASE ps[i].target # NULL
      BY <1>2, <3>2
    <3> QED  BY <3>1, <3>2
  <2>3. v \notin shared
    OBVIOUS
  <2>4. full = FALSE
    BY <2>1, Zenon
  <2>5. FairSplit(v, ps)
    BY <2>2, <2>3 DEF FairSplit
  <2> QED  BY <2>1, <2>4, <2>5, Zenon
<1>13. ASSUME ~forNull, full = FALSE, FairSplit(v, ps)
       PROVE  got = want /\ after = s.mem /\ ~s.mem.fault
  <2>1. PICK z : z.of = Portions(ps, Content(v), RoomFor) /\ SplitFair(v, ps, Len(ps), s, z)
    BY <1>3, <1>13, Zenon
  <2>2. /\ ~s.mem.fault
        /\ s.k = LetterAfter(ps, Len(ps))
        /\ z.of \in Seq(Seq(Nat)) /\ Len(z.of) = Len(ps)
        /\ \A i \in 1 .. Len(ps) :
             z.of[i] = IF ps[i].target = NULL THEN <<>> ELSE BytesIn(s.mem, s.chunk[ps[i].target])
    BY <2>1 DEF SplitFair
  <2>3. after = s.mem
    <3>1. PICK x, y : x = Len(letters) /\ y = LetterAfter(ps, Len(ps))
      OBVIOUS
    <3>2. letters \in Seq({"m", "a", "c"}) /\ x = y - 1
      BY <1>1, <1>13, <3>1, LettersIs
    <3>3. x \in Nat
      BY <3>1, <3>2, LenProperties
    <3>4. y \in Int
      BY <3>1 DEF LetterAfter
    <3>5. ~(s.k <= x)
      BY <2>2, <3>1, <3>2, <3>3, <3>4
    <3> QED  BY <3>1, <3>5
  <2>4. \A i \in DOMAIN ps : z.of[i] = held(i)
    BY <1>6, <2>2, <2>3
  <2>5. z.of = [i \in DOMAIN ps |-> z.of[i]]
    <3>1. PICK x : x = z.of
      OBVIOUS
    <3>2. x \in [1 .. Len(x) -> Seq(Nat)]
      BY <2>2, <3>1, LenProperties
    <3>3. DOMAIN ps = 1 .. Len(x)
      BY <1>6, <2>2, <3>1
    <3>4. x = [i \in DOMAIN ps |-> x[i]]
      BY <3>2, <3>3
    <3> QED  BY <3>1, <3>4, Zenon
  <2>6. got = z.of
    BY <2>4, <2>5, Zenon
  <2> QED  BY <2>1, <2>2, <2>3, <2>6
<1>14. ASSUME forNull PROVE after = Fault(s.mem)
  <2>1. letters = Letters(ps, TRUE)
    <3>1. forNull = TRUE
      BY <1>14, Zenon
    <3> QED  BY <1>1, <3>1, Zenon
  <2>2. s.k \in Nat /\ s.k <= LetterAfter(ps, Len(ps))
    BY <1>3 DEF SplitShape, SplitTyped
  <2>3. LetterAfter(ps, Len(ps)) \in Nat /\ LetterAfter(ps, Len(ps)) <= Len(ps)
    BY <1>2, <1>14, LetterAfterIs
  <2>4. PICK k, x, y : k = s.k /\ x = LetterAfter(ps, Len(ps)) /\ y = Len(ps)
    OBVIOUS
  <2>5. k \in Nat /\ x \in Nat /\ y \in Nat /\ k <= x /\ x <= y
    BY <1>6, <2>2, <2>3, <2>4
  <2>6. k <= y
    BY <2>5
  <2>7. s.k <= Len(letters)
    BY <2>1, <2>4, <2>6, LettersForAll
  <2> QED  BY <2>7
<1>15. Fault(s.mem).fault
  <2>1. Fault(s.mem).fault = TRUE
    BY <1>4 DEF Fault, MemType
  <2> QED  BY <2>1, Zenon
<1>16. /\ "letters" \in others => forNull
       /\ others \subseteq {"letters", "malloc"}
  OBVIOUS
<1> HIDE DEF used, others, got, want, after
<1>17. /\ call'.fn = "split" /\ call'.right = (got = want)
       /\ others # {} \/ used \cap shared # {} => call'.causes # {}
       /\ \A x \in call'.causes : x \in others \cup {"alias", "clone"}
  BY <1>2, ResultIsRecorded
<1>18. call'.causes = {} => got = want /\ mem' = s.mem /\ ~s.mem.fault
  <2>1. others = {} /\ used \cap shared = {} => got = want /\ mem' = s.mem /\ ~s.mem.fault
    BY <1>2, <1>12, <1>13, Zenon
  <2> QED  BY <1>17, <2>1, Zenon
<1>19. {"again", "width"} \cap call'.causes = {} /\ ("letters" \in call'.causes => forNull)
  BY <1>16, <1>17
<1>20. CallsAreRight'
  <2>1. call'.causes = {} => call'.right
    BY <1>17, <1>18, Zenon
  <2>2. "width" \notin call'.causes
    BY <1>19
  <2> QED  BY <2>1, <2>2, Zenon DEF CallsAreRight
<1>21. FaultsAreCaused'
  <2>1. mem'.fault => call'.causes # {}
    BY <1>18, Zenon
  <2>2. call'.causes \cap {"again", "letters"} # {} => forNull
    BY <1>19
  <2>3. forNull => mem'.fault
    BY <1>2, <1>14, <1>15, Zenon
  <2> QED  BY <2>1, <2>2, <2>3, Zenon DEF FaultsAreCaused
<1> QED  BY <1>9, <1>11, <1>20, <1>21 DEF ChunkIInv

LEMMA ChunkStarts == LibraryInit => ChunkIInv
<1> SUFFICES ASSUME LibraryInit PROVE ChunkIInv
  OBVIOUS
<1>1. /\ mem = [heap |-> [b \in Blocks |-> [state |-> "unused", bytes |-> <<>>]], fault |-> FALSE]
      /\ chunk = [v \in ChunkVars |-> ChunkEmpty] /\ shared = {}
      /\ call = [fn |-> "none", causes |-> {}, right |-> TRUE]
  BY DEF LibraryInit, ChunkInit
<1>2. [state |-> "unused", bytes |-> <<>>] \in BlockType
  BY DEF BlockType
<1>3. mem \in MemType
  BY <1>1, <1>2 DEF MemType
<1>4. mem.fault = FALSE
  BY <1>1, Zenon
<1>5. chunk \in [ChunkVars -> ChunkType] /\ \A v \in ChunkVars : chunk[v] = ChunkEmpty
  BY <1>1, EmptyType
<1>6. ChunkTyped
  BY <1>1, <1>3, <1>5, EmptyType DEF ChunkTyped, WellPlaced
<1>7. Owned
  BY <1>5, EmptyType DEF Owned, Sole
<1>9. call.fn = "none" /\ call.causes = {}
  BY <1>1
<1>8. FaultsAreCaused
  <2>1. call.causes \cap {"again", "letters"} = {}
    BY <1>9
  <2> QED  BY <1>4, <2>1, Zenon DEF FaultsAreCaused
<1>10. CallsAreRight
  BY <1>9 DEF CallsAreRight
<1> QED  BY <1>6, <1>7, <1>8, <1>10 DEF ChunkIInv

\* One step per action.
LEMMA ChunkGoesOn == ChunkIInv /\ [LibraryNext]_libraryVars => ChunkIInv'
<1> SUFFICES ASSUME ChunkIInv, [LibraryNext]_libraryVars PROVE ChunkIInv'
  OBVIOUS
<1>1. CASE UNCHANGED chunkVars
  BY <1>1 DEF ChunkIInv, ChunkTyped, Owned, FaultsAreCaused, CallsAreRight, Sole, WellPlaced, chunkVars
<1>2. ASSUME ChunkNext PROVE ~mem.fault
  BY <1>2 DEF ChunkNext
<1>3. ASSUME ChunkNext, NEW v \in ChunkVars,
             Fill(v) \/ SkipZero(v) \/ chunkFree(v) \/ chunkClear(v) \/ chunkPrintfHook(v)
      PROVE  ChunkIInv'
  BY <1>2, <1>3, FillKeeps, SkipZeroKeeps, FreeKeeps, PrintKeeps
<1>4. ASSUME ChunkNext, NEW v \in ChunkVars, NEW n \in 0 .. 2, Skip(v, n)
      PROVE  ChunkIInv'
  BY <1>2, <1>4, SkipKeeps
<1>5. ASSUME ChunkNext, NEW v \in ChunkVars, NEW w \in ChunkVars,
             chunkCreateClone(v, w) \/ Compare(v, w)
      PROVE  ChunkIInv'
  BY <1>2, <1>5, CloneKeeps, CompareKeeps
<1>6. ASSUME ChunkNext, NEW w \in ChunkVars, NEW args \in CatArgs, chunkCreateCat(w, args)
      PROVE  ChunkIInv'
  BY <1>2, <1>6, CatKeeps
<1>7. ASSUME ChunkNext, NEW v \in ChunkVars, NEW ps \in Parts, NEW forNull \in BOOLEAN,
             NEW full \in BOOLEAN, chunkSplit(v, ps, forNull, full)
      PROVE  ChunkIInv'
  BY <1>2, <1>7, SplitKeeps
<1>8. ChunkNext \/ UNCHANGED chunkVars
  BY ChunkFrame
<1>9. ASSUME ChunkNext PROVE ChunkIInv'
  BY <1>9, <1>3, <1>4, <1>5, <1>6, <1>7, Zenon DEF ChunkNext
<1> QED  BY <1>1, <1>8, <1>9

(* The record of the last call *)

CallTyped ==
  /\ cloned \subseteq shared
  /\ call \in [fn : ChunkCalls, causes : SUBSET Causes, right : BOOLEAN]
  /\ ops \in 0 .. MaxChunkOps

LEMMA CallStaysTyped ==
  ASSUME CallTyped, ops < MaxChunkOps, NEW fn \in ChunkCalls, NEW used,
         NEW others \in SUBSET Causes, NEW got, NEW want, Compared(fn, used, others, got, want)
  PROVE  /\ call' \in [fn : ChunkCalls, causes : SUBSET Causes, right : BOOLEAN]
         /\ ops' \in 0 .. MaxChunkOps
<1>1. call' = [fn |-> fn, causes |-> others \cup Sharing(used), right |-> got = want] /\ ops' = ops + 1
  BY DEF Compared
<1>2. Sharing(used) \subseteq Causes
  BY DEF Sharing, Causes
<1>3. PICK b \in BOOLEAN : b = (got = want)
  OBVIOUS
<1>4. PICK cs : cs = others \cup Sharing(used)
  OBVIOUS
<1>5. cs \in SUBSET Causes
  BY <1>2, <1>4
<1>6. call' = [fn |-> fn, causes |-> cs, right |-> b]
  BY <1>1, <1>3, <1>4, Zenon
<1>7. [fn |-> fn, causes |-> cs, right |-> b] \in [fn : ChunkCalls, causes : SUBSET Causes, right : BOOLEAN]
  BY <1>5, Zenon
<1>8. ops' \in 0 .. MaxChunkOps
  BY <1>1, ChunkAssumption DEF CallTyped
<1> QED  BY <1>6, <1>7, <1>8, Zenon

LEMMA CallGoesOn == CallTyped /\ [LibraryNext]_libraryVars => CallTyped'
<1> SUFFICES ASSUME CallTyped, [LibraryNext]_libraryVars PROVE CallTyped'
  OBVIOUS
<1>1. CASE UNCHANGED chunkVars
  BY <1>1 DEF CallTyped, chunkVars
<1>2. ASSUME NEW fn \in ChunkCalls, NEW used, NEW others \in SUBSET Causes, NEW got, NEW want,
             ops < MaxChunkOps, Compared(fn, used, others, got, want), cloned' \subseteq shared'
      PROVE  CallTyped'
  BY <1>2, CallStaysTyped DEF CallTyped
<1>3. ASSUME NEW fn \in ChunkCalls, NEW used, ops < MaxChunkOps, Calls(fn, used), cloned' \subseteq shared'
      PROVE  CallTyped'
  <2>1. {} \in SUBSET Causes /\ Compared(fn, used, {}, <<>>, <<>>)
    BY <1>3 DEF Calls
  <2> QED  BY <1>2, <1>3, <2>1, Zenon
<1>4. ASSUME NEW vs, Shares(vs) PROVE cloned' \subseteq shared'
  BY <1>4 DEF Shares, CallTyped
<1>5. UNCHANGED <<shared, cloned>> => cloned' \subseteq shared'
  BY DEF CallTyped
<1>6. {"fill", "clone", "skip", "skipzero", "free", "clear", "cat", "split", "compare", "print"} \subseteq ChunkCalls
  BY DEF ChunkCalls
<1>7. ASSUME ops < MaxChunkOps, NEW v \in ChunkVars,
             Fill(v) \/ SkipZero(v) \/ chunkFree(v) \/ chunkClear(v) \/ chunkPrintfHook(v)
      PROVE  CallTyped'
  <2>1. CASE Fill(v)
    BY <1>3, <1>5, <1>6, <1>7, <2>1 DEF Fill
  <2>2. CASE SkipZero(v)
    BY <1>3, <1>4, <1>6, <1>7, <2>2 DEF SkipZero
  <2>3. CASE chunkFree(v)
    BY <1>3, <1>5, <1>6, <1>7, <2>3 DEF chunkFree
  <2>4. CASE chunkClear(v)
    BY <1>3, <1>5, <1>6, <1>7, <2>4 DEF chunkClear
  <2>5. CASE chunkPrintfHook(v)
    BY <1>3, <1>5, <1>6, <1>7, <2>5 DEF chunkPrintfHook
  <2> QED  BY <1>7, <2>1, <2>2, <2>3, <2>4, <2>5
<1>8. ASSUME ops < MaxChunkOps, NEW v \in ChunkVars, NEW n \in 0 .. 2, Skip(v, n)
      PROVE  CallTyped'
  BY <1>3, <1>4, <1>6, <1>8 DEF Skip
<1>9. ASSUME ops < MaxChunkOps, NEW v \in ChunkVars, NEW w \in ChunkVars, chunkCreateClone(v, w)
      PROVE  CallTyped'
  <2>1. cloned' \subseteq shared'
    BY <1>9 DEF chunkCreateClone, CallTyped
  <2> QED  BY <1>3, <1>6, <1>9, <2>1 DEF chunkCreateClone
<1>10. ASSUME ops < MaxChunkOps, NEW v \in ChunkVars, NEW w \in ChunkVars, Compare(v, w)
       PROVE  CallTyped'
  <2>1. CompareCauses(chunk[v].len, chunk[w].len) \in SUBSET Causes
    BY DEF CompareCauses, Causes
  <2>2. "compare" \in ChunkCalls /\ cloned' \subseteq shared'
    BY <1>5, <1>6, <1>10 DEF Compare
  <2>3. \E used, got, want : Compared("compare", used, CompareCauses(chunk[v].len, chunk[w].len), got, want)
    BY <1>10, Zenon DEF Compare
  <2> QED  BY <1>2, <1>10, <2>1, <2>2, <2>3, Zenon
<1>11. ASSUME ops < MaxChunkOps, NEW w \in ChunkVars, NEW args \in CatArgs, chunkCreateCat(w, args)
       PROVE  CallTyped'
  <2>1. PICK others : others = IF PassedAgain(args) THEN {"again"} ELSE {}
    OBVIOUS
  <2>2. others \in SUBSET Causes /\ "cat" \in ChunkCalls
    BY <1>6, <2>1 DEF Causes
  <2>3. \E used, got, want : Compared("cat", used, others, got, want)
    BY <1>11, <2>1, Zenon DEF chunkCreateCat
  <2>4. \E vs : Shares(vs)
    BY <1>11, Zenon DEF chunkCreateCat
  <2> QED  BY <1>2, <1>4, <1>11, <2>2, <2>3, <2>4, Zenon
<1>12. ASSUME ops < MaxChunkOps, NEW v \in ChunkVars, NEW ps \in Parts, NEW forNull \in BOOLEAN,
              NEW full \in BOOLEAN, chunkSplit(v, ps, forNull, full)
       PROVE  CallTyped'
  <2>1. PICK others : others = (IF forNull THEN {"letters"} ELSE {}) \cup (IF full THEN {"malloc"} ELSE {})
    OBVIOUS
  <2>2. others \in SUBSET Causes /\ "split" \in ChunkCalls
    BY <1>6, <2>1 DEF Causes
  <2>3. \E used, got, want : Compared("split", used, others, got, want)
    BY <1>12, <2>1, Zenon DEF chunkSplit
  <2>4. \E vs : Shares(vs)
    BY <1>12, Zenon DEF chunkSplit
  <2> QED  BY <1>2, <1>4, <1>12, <2>2, <2>3, <2>4, Zenon
<1>13. ASSUME ChunkNext PROVE CallTyped'
  <2>1. ops < MaxChunkOps
    BY <1>13 DEF ChunkNext
  <2> QED  BY <1>13, <2>1, <1>7, <1>8, <1>9, <1>10, <1>11, <1>12, Zenon DEF ChunkNext
<1>14. ChunkNext \/ UNCHANGED chunkVars
  BY ChunkFrame
<1> QED  BY <1>1, <1>13, <1>14

\* Whatever is called in whatever order, with any number of variables, blocks and
\* contents, memory is misused only by a call that has one of the causes the model
\* records: it uses a chunk that was cloned, skipped into, split in place or given
\* away, passes an argument again that it has given away, has letters for NULL
\* targets, splits when malloc() fails (chunk.c:125-126), or compares equal lengths
\* that are 2^31 or more.  Arguments passed again and letters for NULL targets
\* always end in misuse (chunk.c:57-91, 94-151).
THEOREM MemoryMisuseIsCaused == LibrarySpec => []FaultsAreCaused
<1>1. LibrarySpec => []ChunkIInv
  BY ChunkStarts, ChunkGoesOn, PTL DEF LibrarySpec
<1>2. ChunkIInv => FaultsAreCaused
  BY DEF ChunkIInv
<1> QED  BY <1>1, <1>2, PTL

\* Without such a cause a concatenation holds the bytes of its arguments and has the
\* length chunkLen() announces, a split hands out the bytes one after another, and
\* chunkCompare() orders by length and then by bytes.  Lengths below 2^32 are a cause
\* for chunkCompare() exactly when they differ by what 32 signed bits do not hold or
\* are equal and 2^31 or more, and then the result is always wrong, or memory is
\* misused; of longer chunks nothing is said (chunk.c:153-163).
THEOREM ChunkCallsAreRight == LibrarySpec => []CallsAreRight
<1>1. LibrarySpec => []ChunkIInv
  BY ChunkStarts, ChunkGoesOn, PTL DEF LibrarySpec
<1>2. ChunkIInv => CallsAreRight
  BY DEF ChunkIInv
<1> QED  BY <1>1, <1>2, PTL
-----------------------------------------------------------------------------
(* The types of all parts *)

LEMMA ChunksAreTyped == ChunkIInv /\ CallTyped => ChunkTypeOK
<1> SUFFICES ASSUME ChunkIInv, CallTyped PROVE ChunkTypeOK
  OBVIOUS
<1>1. /\ mem \in MemType /\ chunk \in [ChunkVars -> ChunkType] /\ shared \subseteq ChunkVars
      /\ \A v \in ChunkVars : WellPlaced(mem, chunk[v])
  BY DEF ChunkIInv, ChunkTyped
<1>2. \A v \in ChunkVars : chunk[v].ptr # NULL =>
        chunk[v].off + chunk[v].len <= Len(mem.heap[chunk[v].ptr].bytes)
  BY <1>1 DEF WellPlaced
<1>3. mem.heap \in [Blocks -> [state : {"unused", "live", "freed"}, bytes : Seq(Nat)]]
  BY <1>1 DEF MemType, BlockType
<1>4. mem.fault \in BOOLEAN
  BY <1>1 DEF MemType
<1>5. chunk \in [ChunkVars -> [ptr : Blocks \cup {NULL}, off : Nat, len : Nat]]
  BY <1>1 DEF ChunkType
<1> QED  BY <1>1, <1>2, <1>3, <1>4, <1>5 DEF ChunkTypeOK, CallTyped

\* A part that is not used is as it was at the start.
UnusedUntouched ==
  /\ part \in UsableParts
  /\ part # "chunk" => ChunkInit
  /\ part # "backtrace" => TraceInit
  /\ part # "capability" => CapInit
  /\ part # "integrity" => CheckInit
  /\ part # "password" => PassInit

LEMMA UnusedStarts == LibraryInit => UnusedUntouched
BY DEF LibraryInit, UnusedUntouched

LEMMA UnusedGoesOn == UnusedUntouched /\ [LibraryNext]_libraryVars => UnusedUntouched'
<1> SUFFICES ASSUME UnusedUntouched, [LibraryNext]_libraryVars PROVE UnusedUntouched'
  OBVIOUS
<1>1. part' = part
  BY DEF LibraryNext, libraryVars
<1>2. ChunkInit /\ UNCHANGED chunkVars => ChunkInit'
  BY DEF ChunkInit, chunkVars
<1>3. TraceInit /\ UNCHANGED traceVars => TraceInit'
  BY DEF TraceInit, traceVars
<1>4. CapInit /\ UNCHANGED capVars => CapInit'
  BY DEF CapInit, capVars
<1>5. CheckInit /\ UNCHANGED checkVars => CheckInit'
  BY DEF CheckInit, integrityCheckerCreate, NoCheck, NoVerdict, checkVars
<1>6. PassInit /\ UNCHANGED passVars => PassInit'
  BY DEF PassInit, passVars
<1>7. /\ part # "chunk" => UNCHANGED chunkVars
      /\ part # "backtrace" => UNCHANGED traceVars
      /\ part # "capability" => UNCHANGED capVars
      /\ part # "integrity" => UNCHANGED checkVars
      /\ part # "password" => UNCHANGED passVars
  BY DEF LibraryNext, UsesChunk, UsesTrace, UsesCap, UsesCheck, UsesPass, libraryVars
<1> QED  BY <1>1, <1>2, <1>3, <1>4, <1>5, <1>6, <1>7, Zenon DEF UnusedUntouched

\* In every state every variable of every part has its type, and the variables of
\* each part that the program does not use have one of their initial values.
THEOREM LibraryTypeCorrect == LibrarySpec => []LibraryTypeOK
<1>1. LibrarySpec => []ChunkIInv
  BY ChunkStarts, ChunkGoesOn, PTL DEF LibrarySpec
<1>2. LibrarySpec => []TraceIInv
  BY TraceStarts, TraceGoesOn, PTL DEF LibrarySpec
<1>3. LibrarySpec => []CapIInv
  BY CapStarts, CapGoesOn, PTL DEF LibrarySpec
<1>4. LibrarySpec => []CheckIInv
  BY CheckStarts, CheckGoesOn, PTL DEF LibrarySpec
<1>5. LibrarySpec => []PassIInv
  BY PassStarts, PassGoesOn, PTL DEF LibrarySpec
<1>6. LibrarySpec => []UnusedUntouched
  BY UnusedStarts, UnusedGoesOn, PTL DEF LibrarySpec
<1>7. LibrarySpec => []CallTyped
  <2>1. LibraryInit => CallTyped
    BY ChunkAssumption DEF LibraryInit, ChunkInit, CallTyped, ChunkCalls, Causes
  <2> QED  BY <2>1, CallGoesOn, PTL DEF LibrarySpec
<1>8. PassIInv => PassTypeOK
  BY DEF PassIInv, EarlyMatchesHaveNul, RefusedBefore, PassTypeOK
<1>9. /\ ChunkIInv /\ CallTyped /\ TraceIInv /\ CapIInv /\ CheckIInv /\ PassIInv /\ UnusedUntouched
        => LibraryTypeOK
  BY <1>8, ChunksAreTyped, TracesAreTyped, CapsAreTyped, ChecksAreTyped, Zenon
     DEF LibraryTypeOK, UnusedUntouched
<1> QED  BY <1>1, <1>2, <1>3, <1>4, <1>5, <1>6, <1>7, <1>9, PTL
=============================================================================
