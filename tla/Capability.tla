----------------------------- MODULE Capability -----------------------------
(***************************************************************************)
(* The capabilities object (capability.c), as built with                   *)
(* CAPABILITIES_NATIVE: the sets of capabilities to keep, the check for a  *)
(* capability with its exemption for chown(2), and the lookups of the      *)
(* configured user and group in databases that change while they run.      *)
(*                                                                         *)
(* Read as meant: pwp, undeclared in capabilitiesResolveGid(), as grp; the *)
(* undeclared ignore and ignored of capabilitiesCheck() are left out.      *)
(***************************************************************************)
EXTENDS Integers, FiniteSets

CONSTANTS
  WordBits,      \* bits of a word of a capability set: 32
  Ids,           \* user and group ids; 0 is root, and what is not configured
  Names,         \* names of users and of groups
  Processes,     \* credentials of the process, and how lookups are built
  Sizes,         \* what an entry of a database needs of the buffer
  FirstBuf,      \* the first buffer: 1024
  MaxEdits       \* bound: changes of the databases

ASSUME CapabilityAssumption ==
  /\ WordBits \in Nat \ {0} /\ FirstBuf \in Nat \ {0} /\ MaxEdits \in Nat
  /\ 0 \in Ids /\ Sizes \subseteq Nat
  /\ Processes \subseteq [euid : Ids, egid : Ids, groups : SUBSET Ids,
                          permitted : SUBSET (0 .. 2 * WordBits - 1), reentrant : BOOLEAN]

CAP_CHOWN == 0
Capabilities == 0 .. 2 * WordBits - 1
Fields == {"effective", "permitted", "inheritable"}
Kinds == {"uid", "gid"}

VARIABLES
  process,     \* its credentials; reentrant: getpwnam_r() is there
  object,      \* capabilities_t
  database,    \* passwd and group
  edits,
  lookup,      \* the lookup that is under way
  kept,        \* what keep_capability() was called with
  wanted,      \* the user and the group that were resolved, or none
  answer       \* of the last call

capVars == <<process, object, database, edits, lookup, kept, wanted, answer>>

-----------------------------------------------------------------------------

NoEntry == [id |-> 0, size |-> 0]   \* size 0: there is none
Entries == [id : Ids, size : Sizes \ {0}]
Idle == [kind |-> "none", name |-> "none", buflen |-> 0]
NoAnswer == [fn |-> "none", cap |-> 0, result |-> FALSE, failed |-> FALSE]

CapInit ==
  /\ process \in Processes
  /\ object = [uid |-> 0, gid |-> 0, caps |-> [f \in Fields |-> [i \in 0 .. 1 |-> {}]]]
  /\ database = [k \in Kinds |-> [n \in Names |-> NoEntry]]
  /\ edits = 0
  /\ lookup = Idle
  /\ kept = {}
  /\ wanted = [k \in Kinds |-> {}]
  /\ answer = NoAnswer

-----------------------------------------------------------------------------
(* Words and bits *)

\* A variant of WordAndBit that has one word only.
FirstWord(cap) == [word |-> 0, bit |-> cap]

\* The word of a capability, and the bit in it.
WordAndBit(cap) ==
  IF cap >= WordBits THEN [word |-> 1, bit |-> cap - WordBits] ELSE [word |-> 0, bit |-> cap]

\* The words in which capget() gives a set of capabilities (external).
capget(caps) ==
  [i \in 0 .. 1 |-> {b \in 0 .. WordBits - 1 : b + i * WordBits \in caps}]

\* Nobody asks whether the process holds it.
keep_capability(cap) ==
  /\ lookup = Idle
  /\ LET at == WordAndBit(cap)
     IN  object' = [object EXCEPT !.caps =
           [f \in Fields |-> [object.caps[f] EXCEPT ![at.word] = @ \cup {at.bit}]]]
  /\ kept' = kept \cup {cap}
  /\ answer' = [NoAnswer EXCEPT !.fn = "keep", !.cap = cap, !.result = TRUE]
  /\ UNCHANGED <<process, database, edits, lookup, wanted>>

-----------------------------------------------------------------------------
(* The check *)

\* sysconf() or getgroups() may fail, which is no membership.
has_group(gid, fails) ==
  gid = process.egid \/ (~fails /\ gid \in process.groups)

\* The owner and the group of a new file stay what they are.
OwnerStays(fails) ==
  /\ object.uid = 0 \/ process.euid = object.uid
  /\ object.gid = 0 \/ has_group(object.gid, fails)

\* A variant of Held that takes what capget() leaves when it fails for an answer.
HeldUnasked(cap, fails) ==
  LET at == WordAndBit(cap) IN at.bit \in capget(process.permitted)[at.word]

Held(cap, fails) ==
  LET at == WordAndBit(cap)
  IN  ~fails /\ at.bit \in capget(process.permitted)[at.word]

\* fails: one of the system calls does.
capabilitiesCheck(cap, fails) ==
  /\ lookup = Idle
  /\ answer' = [fn |-> "check", cap |-> cap, failed |-> fails,
                result |-> (cap = CAP_CHOWN /\ OwnerStays(fails)) \/ Held(cap, fails)]
  /\ UNCHANGED <<process, object, database, edits, lookup, kept, wanted>>

-----------------------------------------------------------------------------
(* The lookups *)

capabilitiesResolve(kind, name) ==
  /\ lookup = Idle
  /\ lookup' = [kind |-> kind, name |-> name, buflen |-> FirstBuf]
  /\ answer' = NoAnswer
  /\ UNCHANGED <<process, object, database, edits, kept, wanted>>

Entry == database[lookup.kind][lookup.name]

\* ERANGE (external): only getpwnam_r() and getgrnam_r() have a buffer of ours.
TooSmall == process.reentrant /\ Entry.size > lookup.buflen

Grown(n) == 2 * n

ResolveRetry ==
  /\ lookup # Idle /\ TooSmall
  /\ lookup' = [lookup EXCEPT !.buflen = Grown(@)]
  /\ UNCHANGED <<process, object, database, edits, kept, wanted, answer>>

\* A variant of Configured that sets the user in both functions.
ConfiguredUid(o, kind, id) == [o EXCEPT !.uid = id]

\* this->uid = pwp->pw_uid, this->gid = grp->gr_gid
Configured(o, kind, id) == [o EXCEPT ![kind] = id]

ResolveFound ==
  /\ lookup # Idle /\ ~TooSmall /\ Entry # NoEntry
  /\ object' = Configured(object, lookup.kind, Entry.id)
  /\ wanted' = [wanted EXCEPT ![lookup.kind] = {Entry.id}]
  /\ answer' = [NoAnswer EXCEPT !.fn = "resolve", !.result = TRUE]
  /\ lookup' = Idle
  /\ UNCHANGED <<process, database, edits, kept>>

Unresolved ==
  /\ answer' = [NoAnswer EXCEPT !.fn = "resolve"]
  /\ lookup' = Idle
  /\ UNCHANGED <<process, object, database, edits, kept, wanted>>

ResolveMissing == lookup # Idle /\ ~TooSmall /\ Entry = NoEntry /\ Unresolved

\* Any error but ERANGE (external): nothing says that it must come.
ResolveError == lookup # Idle /\ Unresolved

\* Somebody edits a database (external).
EditDatabase(kind, name, entry) ==
  /\ edits < MaxEdits
  /\ database' = [database EXCEPT ![kind][name] = entry]
  /\ edits' = edits + 1
  /\ UNCHANGED <<process, object, lookup, kept, wanted, answer>>

-----------------------------------------------------------------------------

ResolveStep == ResolveRetry \/ ResolveFound \/ ResolveMissing

CapNext ==
  \/ \E cap \in Capabilities : keep_capability(cap)
  \/ \E cap \in Capabilities, fails \in BOOLEAN : capabilitiesCheck(cap, fails)
  \/ \E kind \in Kinds, name \in Names : capabilitiesResolve(kind, name)
  \/ ResolveStep \/ ResolveError
  \/ \E kind \in Kinds, name \in Names, entry \in Entries \cup {NoEntry} :
       EditDatabase(kind, name, entry)

-----------------------------------------------------------------------------

CapTypeOK ==
  /\ process \in Processes
  /\ object \in [uid : Ids, gid : Ids,
                 caps : [Fields -> [0 .. 1 -> SUBSET (0 .. WordBits - 1)]]]
  /\ database \in [Kinds -> [Names -> Entries \cup {NoEntry}]]
  /\ edits \in 0 .. MaxEdits
  /\ lookup = Idle \/ lookup \in [kind : Kinds, name : Names, buflen : Nat]
  /\ kept \subseteq Capabilities
  /\ wanted \in [Kinds -> SUBSET Ids]
  /\ answer \in [fn : {"none", "keep", "check", "resolve"}, cap : Capabilities,
                 result : BOOLEAN, failed : BOOLEAN]

\* The three sets of the object, read as capget() and capset() read them, hold
\* what keep_capability() was asked to keep and nothing else, whether the
\* process held it or not: also the last bit of a word and the first of the next.
KeptExactly == \A f \in Fields : object.caps[f] = capget(kept)

\* What chown(2) lets a process do with its own files without CAP_CHOWN
\* (external), when the groups it is in are these: nothing where none is configured.
ChownAllowed(groups) ==
  wanted["uid"] \subseteq {process.euid} /\ wanted["gid"] \subseteq {process.egid} \cup groups

\* What the check takes for it: root passes for a user or a group of anybody,
\* because the object keeps no difference between 0 and nothing configured.
TakenForAllowed(groups) ==
  /\ wanted["uid"] \subseteq {0, process.euid}
  /\ wanted["gid"] \subseteq {0, process.egid} \cup groups

\* A check answers TRUE exactly for what the process holds, and for CAP_CHOWN
\* also when chown(2) is thought to work without it; a system call that fails
\* hides what is held and the groups, and can only turn TRUE into FALSE.
CheckedRight ==
  answer.fn = "check" =>
    (answer.result <=>
       \/ ~answer.failed /\ answer.cap \in process.permitted
       \/ /\ answer.cap = CAP_CHOWN
          /\ TakenForAllowed(IF answer.failed THEN {} ELSE process.groups))

\* "Keep the given capability if is held by the current process.  Return FALSE
\* if this is not the case", "TRUE if the capability is currently held": a
\* program that is told TRUE holds the capability, or needs no CAP_CHOWN.
TrueMeansHeld ==
  answer.fn \in {"keep", "check"} /\ answer.result =>
    \/ answer.cap \in process.permitted
    \/ answer.cap = CAP_CHOWN /\ ChownAllowed(process.groups)

\* A user or a group is configured exactly by the lookup of its own that
\* succeeds: one that fails, whatever entries it saw before it had the buffer,
\* leaves the one that was there.
ResolvedIsConfigured ==
  \A k \in Kinds : object[k] \in wanted[k] \cup (IF wanted[k] = {} THEN {0} ELSE {})

\* The buffer of a lookup stays below twice what the largest entry needs.
BufferBounded ==
  \A size \in Sizes : (\A s \in Sizes : s <= size) =>
    lookup.buflen < 2 * size \/ lookup.buflen <= FirstBuf

\* A lookup returns although its entry is edited and may not fit the first buffer.
ResolveReturns == lookup # Idle ~> lookup = Idle

\* The object holds what it was asked to keep, and a check says what is held, or
\* that the configured user and group, as the lookups left them, make CAP_CHOWN
\* superfluous: after any calls, for every capability, and for root as it is.
CapabilitiesHold == KeptExactly /\ CheckedRight

\* A lookup leaves the right id behind, in a buffer that stays small.
LookupIsSound == ResolvedIsConfigured /\ BufferBounded

=============================================================================
