# A TLA+ development for cref

cref is a collection of small C and Python parts in the style of strongSwan: an
rtnetlink example program, a command dispatcher, printf hooks, chunks, a
backtrace, capability and integrity helpers, and the beginning of a vici
client. Much of it is a sketch: several files do not compile, and headers
describe modules that have no code. This directory models the parts that have
logic of their own, checks them with TLC and proves the most important results
with TLAPS.

Where C code misspells a name (`commands_opts`, `flags`) it is read as the
variable that is declared. Undefined behaviour is a location of its own
("badfree", "overrun", "overread", "nullcall", "fault", "bus") where the behaviour
ends, or an arbitrary value (a missing `return`). In Python a misspelt name is behaviour,
so the model of `Session.py` has it as a parameter and runs it both ways.

## Inventory

| Part | State | Operations | What is hard |
|---|---|---|---|
| netlink transport (`example/netlink/rtmsg.c`) | static answer buffer, its fill counters, the sequence number; in the kernel the requests, the receive queue, what exists | `write_msg`, `read_msg`, `queue`, `read_and_queue`, `send_once`, `netlink_send`, `netlink_send_ack` | answers that come late, in pieces, or never; failing `select`; retry after `-EBUSY`; a buffer without a limit |
| netlink program (same file) | two threads, the descriptor table, event sockets | `main`, `init_address_list`, `manage_*`, `getIfIndex`, `receive_events`, `thread_do` | two threads using up one descriptor table; events in many sockets; ending while the other thread runs |
| netlink attributes and event decoding (same file) | request buffer, what earlier answers left in `msgbuf`, attribute walks | `netlink_add_attribute`, the requests of `manage_*`, the walks of `init_address_list`, `receive_events` and `get_route`, `process_addr`, `process_link`, `parse_route` | aligned and unaligned lengths, a length that wraps below zero, stale headers behind an answer |
| command dispatcher (`src/command.c`) | registry, active and help entry, getopt's position, option table | `commandRegister`, `commandDispatch`, `build_opts`, `processCommonOpts`, `callCommand`, `commandGetOpt`, `commandUsage` | options read twice over a permuted argv; a second dispatch; full tables |
| printf hooks (`src/printfHookBuiltin.c`) | parser state, output position and count, hook data | `builtin_vsnprintf`, `printInHook` | output cut off in the middle of anything; signed and unsigned lengths; a missing return |
| chunks (`src/chunk.c`, `chunk.h`) | pointer and length pairs | clone, concatenate, split, compare, skip, print | aliasing, lengths beyond 32 bits, a skipped mode letter |
| backtrace (`src/backtrace.c`) | captured frames | create, equals, clone, dump, enumerate | skip larger than the number of frames |
| integrity checker (`src/integrityChecker.c`) | checksum table | find, build, check | uninitialised table, 0 as error and as hash |
| capabilities (`src/capability.c`) | uid, gid, capability words | check, keep, resolve user and group | word boundaries, growing lookup buffer, the CAP_CHOWN exemption |
| vici session (`py/vici/Session.py`) | one connection, the generators on it | `_communicate`, `_register_unregister`, `streamed_request` | generators that share a connection, early close, events in the wrong place |
| password example (`example/pass/pass.c`) | attempt counter, line buffer | `main` | the buffer after end of input |
| declarations only | | bus, listener, message, settings, process, host, logger, ... | no code |
| vendored and notes | | cmocka, an empty test, text files | |

How they interact: the netlink program calls the transport and shares the
process with the event thread; kernel and daemon answer over queues; the
dispatcher and `getopt_long` share `optind`; a printf hook is called back from
`builtin_vsnprintf` and calls `printInHook`, which calls `builtin_vsnprintf`
again; the integrity checker uses chunks.

What makes each of them correct: a netlink report is the kernel's decision on
that very request, nothing is repeated that was decided, dumps are complete, the
buffer is not overrun, calls end; the program leaves in the kernel what it
reported, events keep their order, both threads get on with one descriptor
table; a command sees the options that were checked; output stays in its buffer
and is a prefix of the complete output; a session stays in step with its daemon
and gives its subscriptions back. `PROJECT.json` lists the hazards line by line.

## Modules

| Module | Models |
|---|---|
| `NetlinkContract` | what a caller may rely on: a request is carried out at most once, between call and return, and the report is that decision |
| `Netlink` | the transport against an external kernel |
| `NetlinkProofs` | theorems about `Netlink`: whose answer a report is, how many messages an answer has, and the refinement of `NetlinkContract` |
| `RtMsg` | the whole program: `main()` and the event thread, over `NetlinkContract` |
| `RtMsgProofs` | theorems about `RtMsg` |
| `NetlinkWire` | the bytes: where requests put their attributes, where `msgbuf` has messages, what the walks find |
| `NetlinkWireProofs` | theorems about `NetlinkWire`: requests, walks, addresses and routes |
| `Command` | registry and dispatcher over an external `getopt_long` |
| `CommandProofs` | theorems about `Command` |
| `PrintfHook` | `builtin_vsnprintf`, `printInHook` and a hook |
| `PrintfHookProofs` | theorems about `PrintfHook` |
| `ViciSession` | generators of `streamed_request()` on one connection |
| `ViciSessionProofs` | theorems about `ViciSession` |
| `Chunk` | chunks over a heap of blocks that are allocated and freed |
| `Backtrace` | backtraces, clones and enumerators over a moving stack |
| `Capability` | the capability check and the lookups in databases that change |
| `IntegrityChecker` | the check of a file that others write to |
| `Password` | the password loop |
| `Library` | the five modules above as one specification, a program that uses one part |
| `LibraryProofs` | theorems about the parts of `Library` |
| `Counting` | lemmas on counting in queues and sets, for `NetlinkProofs` and `ViciSessionProofs` |
| `MC*` | the values TLC uses for the constants |

### Netlink

`pc` follows the requesting thread: "write" before `sendto`, "select" and
"recv" inside `read_msg`, "reply" when `read_and_queue` has returned a complete
answer, "idle" outside `netlink_send`. `Transmit` is `send_once` with
`write_msg`; `SelectFails`, `SelectExpires`, `RecvInterrupted`, `RecvFails` and
`Receive` are the ways through `read_msg`, `queue` and `read_and_queue`;
`RetryBusy`, `ReturnAck` and `ReturnDump` the loop of `netlink_send` and its two
kinds of callers. A message is a record and takes one slot of `msgbuf`;
`msgbufIdx` and `msgbufLen` move together and are one variable. `msgbuf` keeps
its old contents across requests, as the static buffer does.

The kernel accepts requests into `serving`, decides each once (`verdict`), and
sends an NLMSG_ERROR or, for a dump, datagrams with any division of the entries
ending in NLMSG_DONE. It may take its requests in any order and at any time,
which is more than Linux does today; properties that hold here do not rest on a
kernel that answers inside `sendto`. A datagram may be dropped, which the next
`recv` reports as an error (ENOBUFS).

### RtMsg

The requests of `main()` are the constant sequence `Program`; each goes through
`NetlinkContract`'s `Begin`, `CarryOut`, `Return` or `GiveUp`, and `Stop` where
the transport may run into undefined behaviour. The event thread opens a socket
in every `receive_events()` and closes none; the kernel puts each event into
every subscribed socket. Either thread may take the last descriptor. `Exit` ends
both.

### NetlinkWire

The other view of `rtmsg.c`: a call of a function is one step with a whole
answer, and lengths and offsets are numbers. Headers are a function from offsets
to records; `WalkFrom` is the loop over `NLMSG_OK`/`NLMSG_NEXT` or
`RTA_OK`/`RTA_NEXT`, and a `Walker` says how one of them goes, with the code's own
arithmetic: a signed `int` in `receive_events`, a `size_t` that wraps at `SizeMod`
in the walks over dumps. A walk takes one step more than there are headers, after
which it has come to its end: each step leads to another header or is the last.
What the kernel sends is any record that `IsMessage` admits, with its attributes
one behind the other and padded; `MCNetlinkWire` builds a few. `queue` advances by
the length as it is (`Advanced`), the walks by the aligned one. `Stored` keeps the headers of earlier answers
where nothing was written over them, so that a walk that goes too far finds what
it would really find. `process_addr` copies an address of any length into four
bytes of its stack (lines 505 and 511): one of IPv6 has sixteen, and the
behaviour ends there, in the call "overrun", with what was shown before it. `get_route` spoils the type of its own request
(`RTA_DATA(hdr)`) and tests the wrong header; `meant` says which of the slips
are read as they are meant, and each combination is run. With the first the
kernel takes the request for a control message and the call waits for ever
(`stuck`). `receive_events` has its `recvfrom` cut a datagram to the buffer.

### Command

An argument is the sequence of option characters it carries. `GetOpt` is
`getopt_long` as far as the code sees it: it keeps its place between calls and
moves words behind the options. `commandDispatch` is the code up to the first
`getopt_long`, `SelectCommand` the search for the command, `CommonOption`,
`CommonOptionFails` and `callCommand` the check of the options and the call, and
`commandGetOpt` the command's own reading. `checked` and `seen` record which
of the command's own options went through either; `+`, `v` and `u`, which
`commandGetOpt` passes over, are in neither. A process dispatches once: a second dispatch in one
process would start with getopt's place in the first argv, which the code does
not reset. A command with MAX_OPTIONS options has no entry without a name, where
`build_opts` would stop: the phase "overread", in which the behaviour ends.

### PrintfHook

The format is read character by character (chosen freely, up to `MaxReads`),
through the five parser states, with `p--` as a character put back. Text is
counted: a place of the buffer holds the number its character has in the
complete output. `q` and `o` advance as in the code: together after
`formatInt`, `format_double` and hooks, while `EMIT` moves `q` only where it
writes. A hook makes up to `MaxPrints` calls of `printInHook` and returns
the sum. The variable `returns`, chosen at the start, says what comes back from
`builtin_vsnprintf` to `printInHook` and from there to the hook: the count that is
meant, or any int, as neither has the return statement its callers rely on. What
`printfHook.h:78` says of `printInHook`, "return number of characters written", so
holds for the first only. Formats have no digits behind a `*` for the precision.

### ViciSession

`pc[g]` is where generator `g` is: "registering", "receiving" and
"unregistering" are its three receives, "yielded" its yield. Only one generator
runs at a time (`Running`); its caller may start, resume or close any of them in
between. The daemon answers in order and may send events while there is a
subscription; the connection may break. `PacketEvent` is "NameError" for the
code as written (line 57 names `PACKET`, which does not exist) and "EVENT" for
what is meant; a run starts with either. As written every streamed request that
receives anything ends in a NameError, yields no event and still unregisters.
Not modelled: exceptions thrown into a generator other than
GeneratorExit, payloads that cannot be decoded, the class `Socket`.

### Library

The helper parts share no state and never call each other (the calls the integrity
checker makes on chunks have no body in the repository), so one specification
runs them as alternatives: `part` is chosen at the start.

`Chunk` has a heap of blocks with their bytes, each unused, live or freed, and
the program's variables with pointer and length. Reading, writing or freeing what
is not live ends the behaviour. A program may call anything on anything: an
empty chunk, one chunk twice, one that was given away. What a call can go wrong by is
recorded in `call.causes`, and the properties say that misuse and wrong results
have one of these causes and no other:

| Cause | What the call is given |
|---|---|
| "alias" | a variable whose block another one may point into, or that was given away, as the functions say they do: skipped into, split in place, moved or wiped by a concatenation (`shared`) |
| "clone" | the same, only because `chunkCreateClone` left the pointer as it was (`cloned`) |
| "again" | an argument of a concatenation that was freed earlier in the same call |
| "letters" | a mode letter for a NULL target, which `chunkSplit` does not take |
| "malloc" | no memory for an allocated part of a split (`chunk.c:125`, unchecked) |
| "width", "range" | a comparison whose lengths do not fit 32 signed bits (`HalfRange` is 2^31), below 2^32 or above |

"again", "letters" and "width" are about one call, and there the properties also
say the converse: it does go wrong.

`Backtrace` keeps the frames each trace was asked for in `due`. A program may
destroy a backtrace an enumerator refers to; going on with that enumerator is a
misuse of memory (`walk` is "fault").

`Capability` has a process with its credentials, root among them, and databases
an administrator may edit between two attempts of a lookup. `kept` is what
`keep_capability` was asked for, and `wanted` which user and group were
resolved, which `object` does not distinguish from none when it is root.

In `IntegrityChecker` other processes write to the file between mapping, hashing
and comparing, and between two bytes that are hashed. The mapping has the
length of the file when it was made; a byte behind the present end is 0 on the
file's last page and a SIGBUS behind it ("bus", which ends the process).
`check.seen` has the contents there were since the check began. The hash is any
function of the bytes.

In `Password` the buffer is not initialised and the end of the input leaves the
last line in it. A text is followed by a newline, by a NUL that was typed, which
`fgets` keeps and `strcmp` takes for the end, or by nothing.

## Runs

| Run | Shows | Bounds |
|---|---|---|
| `Netlink_calls` | reports are faithful, dumps complete, answers conserved, no late resend, with a failing `select`, a lost datagram and an `-EBUSY` in any order; the transport implements `NetlinkContract` until a call is abandoned; the buffer is only overrun by a dump that fills it; a call ends unless its answer is lost | 3 calls, 1 object, dump of 2, 3 slots; 1 failure, 1 loss, 1 `-EBUSY` |
| `Netlink_lostanswer` | violation: a lost answer blocks the call for ever | 1 loss |
| `Netlink_staleack` | violation: after a failing `select` the next call reports success on a stale answer | 1 failure |
| `RtMsg_program` | event order, cause of descriptor starvation, reports and what is left behind agree, `main()` ends next to a spinning event thread | 5 descriptors, 3 foreign events |
| `Command_options` | with the command in an argument of its own the command sees what was checked; help's NULL is never called | all vectors of 3 arguments of 10 kinds, all registries of up to 3 commands, MAX_OPTIONS = 4, which one command uses up |
| `Command_bundle` | violation: options bundled with the command are checked and lost | |
| `PrintfHook_output` | output stays in bounds and is a prefix of the complete output, if hooks return what they print; integers are fresh; a hook's room never grows, whatever is returned | 5 characters, buffers of 0 and 2, ints from -3 to 5 |
| `NetlinkWire_messages` | the kernel finds in each request the attributes that were added, a walk every message that was queued; stale bytes are read only behind a refused dump without padding; a list that comes to its end shows the local address of every message, and an address of IPv6 ends a call, nothing else; cut-off events are not dispatched; a route comes from its answer | 2 calls, dumps and events of up to 2 messages, request of 68 bytes, event buffer of 84, messages of up to 64, `SizeMod` 4096 |
| `Library_calls` | chunks: memory is misused by the causes above only, and concatenation, splitting and comparison do what they say without one; enumerators give the captured frames until their backtrace is destroyed; the words of capabilities hold what was kept, and a check answers for what is held; a lookup returns what was configured and its buffer stays bounded; what a verdict on a file that is being written is worth; the password is never accepted when typed with Enter; every loop ends | 4 calls on 3 chunks, filled with 5 bytes, `HalfRange` 4; stack of 2; 2 processes, 3 ids, 4 capabilities in 2 words, 2 edits; 2 writes of files of up to 3 bytes, pages of 2; 5 lines |
| `Library_clone` | violation: a clone is not a copy, and giving it back frees its original's memory | |
| `Library_held` | violation: keeping a capability is reported TRUE for one the process does not hold | |
| `ViciSession_stream` | the session is in step with the daemon until an exception says otherwise; no one waits in vain, closing returns, subscriptions are given back | 3 generators, 3 events |

Why the bounds are enough. In `Netlink` a call meets at most what one earlier
call left behind, and a third call what two left behind: three calls with one of
each fault show every meeting of old and new answers; the object is one because
requests on different objects do not touch in the transport. Three slots let an
answer fill the buffer exactly, so that one message too many overruns it. In `RtMsg` five
descriptors let the event thread use up the table before, between and after
`main()`'s own two sockets. In `Command` three arguments hold a command, an
option and a word in every order, and the option file adds arguments. In
`PrintfHook` five characters hold a directive with three modifiers, or two
directives with text behind them, on either side of the end of a two-byte
buffer. In `ViciSession` one generator disturbs another and a third meets what
they leave. In `NetlinkWire` what is stale in `msgbuf` takes one earlier call,
and its messages have names and addresses of every length modulo four; the request of 68
bytes is the one the attributes of `manage_srcroute` with a gateway do not all
fit into, so the last is left out; two event messages are longer than 84 bytes.
In `Library` four calls fill a chunk, clone it, free one and use the other;
five bytes, split, skipped into and concatenated, have lengths on both sides of
`HalfRange` and of its double; words of two bits put capabilities into both words; sizes of 1 and 5 make a
lookup double its buffer three times from 1, and two edits let the entry grow
and vanish in between; two writes tear a file of two bytes, and shorten one of
three by a page; five lines are one more than the loop reads. The passing
runs have between 7 thousand and 1.4 million states.

`CHECK_DEADLOCK FALSE` everywhere: the bounded runs really stop, when the
requests, calls or format characters are used up, when a program has
ended, or in a location of undefined behaviour.

Fairness. `Netlink!FairSpec`: the thread is scheduled, `select` has a timeout so
that it does expire, and the kernel serves what it has accepted; nothing is
assumed about losses, failing calls or interruptions. `RtMsg!FairSpec`: both
threads are scheduled and the kernel decides (what `CallReturnsUnlessLost`
shows below it). `ViciSession!FairSpec`: a generator that can go on does, the daemon answers
the packets it gets; callers and events are free. `LibrarySpec`: a lookup, a file
check or the password loop that has been called goes on; edits and writes are
free, but bounded, as a database that grew for ever would keep a lookup going.

## Findings

* `Netlink_lostanswer`: `read_msg` promises "-1 on timeout", but `select() == 0`
  goes on to a blocking `recv`, and the message about several transmits is never
  reached.
* `Netlink_staleack`: a failing `select` counts as a complete answer; the late
  answer is then taken for the next request's.
* `Command_bundle`: see the table.
* `Library_clone`: `chunk.h:40` promises a clone that points to the memory passed;
  `chunk.c:18` takes over the pointer of the original, so that a program that gives
  each back frees a block twice.
* `Library_held`: `keep_capability` is to keep a capability "if is held by the
  current process" and to return FALSE otherwise (`capability.c:94-95`); it asks
  nobody and returns TRUE. `capabilitiesCheck` has its own TRUE too many: for
  CAP_CHOWN, when root is what was configured, as 0 is also what stands for
  nothing (`capability.c:57`). `TrueMeansHeld` speaks of both; `CapabilitiesHold`
  and its theorem say exactly what the code does instead.

Seen while modelling and not made a run, since each is one line read against
itself: with MAX_OPTIONS options `build_opts` runs past the array
(`command.c:120`, the phase "overread"); `get_route` waits for ever for an answer to
the request whose type it has overwritten (`stuck`, `rtmsg.c:813`); the
condition on the default route looks at the routing table only (`rtmsg.c:310`);
`parse_route` returns what `malloc` left in the fields a message does not have;
`process_addr` copies an address of IPv6 over the stack, although its comment
thinks of IPv6 (`rtmsg.c:517-520`) and the dump asks for all families;
`printInHook` and `builtin_vsnprintf` have no return statement, while
`printfHook.h:78` promises a count; the right password typed with Enter is a wrong
one (`pass.c:13-15`), as the newline is compared too; a file that is written during
its check may be valid although it never had the recorded checksum
(`ValidWasRead`); `chunkCompare` is no order for lengths that differ by 2^31 or
more, and for equal ones from there on reads beyond them.

Properties conditioned on "no call abandoned", "in an argument of its own" or "nothing
raised" hold exactly up to these points; the violation runs show the conditions
are needed.

## Proofs

All theorems hold for all values of the constants, from the named assumption of
the module alone. Each rests on an inductive invariant, which is usually the
property with what it silently relies on; one lemma or step per action shows
that it stays.

### The transport

`NetlinkProofs`, from `NetlinkAssumption` (the bounds are natural numbers):

* `TypeCorrect`: `Spec => []TypeOK`.
* `AnswersBelong`: `Spec => []IInv`. `ReportFaithful` is not inductive: that an
  answer is the right one rests on there being no other under way. `IInv` says
  so location by location: while an answer is awaited the kernel holds at most
  this one request, and if it does, only dump entries have been sent; what is
  unread or collected belongs to the request, and a final message is the very
  last; in "idle" and "write" nothing is under way at all; in "reply" the buffer
  ends with its only final message. All of it holds while no `select` has
  failed.
* `ReportsAreFaithful`, `SuccessIsReal` (`AckTruthfulUnlessAbandoned`) and
  `NoLateResend` (an action property) follow from it.

Its second half counts:

* `NoStrayAnswers` (`AnswersConserved`) with `WellFormed`: every datagram of the
  kernel is in one piece, so that a final message ends it and one `recv` takes
  at most one answer off the socket.
* `DumpsAreWhole` (`DumpComplete`) and `OnlyBigDumpsOverrun`
  (`OverrunNeedsBigDump`) with `Accounted`: what is in `msgbuf`, what waits on
  the socket and what the kernel still owes make up `WholeAnswer`, which is
  never more than the entries and the NLMSG_DONE, and exactly that for a dump
  nothing was lost of. An overrun needs as many messages as there are slots.
* `TransportKeepsContract` (`ImplementsContract`): initial states and steps of
  `Netlink` map to initial states and steps (or stutters) of `NetlinkContract`, in
  every behaviour. A failing `select` maps to the contract's `Break`, after which
  it promises nothing, and nothing could be promised: that is what
  `Netlink_staleack` shows. The refinement needs `IInv` and `Accounted`: a
  report is a return of the contract because the decision is there by then.

### The program

`RtMsgProofs`, from `RtMsgAssumption`: `TypeCorrect` (with it that both threads
together stay within the descriptor table), `EventsHandledInOrder`,
`OnlyWatcherStarves` and `ReportsHoldAtExit`. The invariant adds to them that a
request is open exactly while `main()` waits for its report (`Lockstep`); that
the kernel announces one event per request at most (`OnePerRequest`); that each
subscribed socket holds events in order, and the one that is read only newer
ones than were dispatched (`QueuesInOrder`, the part that `HandledInOrder` needs:
every event waits in all sockets); that each socket left behind stands for an
event or a failed call (`SocketsAccountedFor`); and what is in the kernel
between a decision and its report (`ReportsMatch`).

### The dispatcher

`CommandProofs`, from `CommandAssumption` (a command of the program has a function
and a character that is not EOF, argv and option files are sequences of
arguments):

* `HelpNeverCalled`. `OnlyHelpHasNoFunction` adds that no entry but the one at
  `helpIdx` lacks a function, before dispatch none at all, and that the command
  selected is not at `helpIdx`; a full table, which has no help entry, keeps it
  because `Registered` then leaves the table as it was.
* `TypeCorrect`, with getopt's place inside an argument (`PlaceOK`).
* `CommandSeesWhatWasChecked` (`SeesWhatWasCheckedAfterCommand`). The property
  relates the ends of two passes over an argv that the first one permutes and
  extends. The invariant keeps a log of the first pass (`Log`): where each
  option was read and how many of the command's own options came before it.
  `GetOptProperties` shows that a call leaves alone what is in front of getopt's
  place and the argument the place is inside of, so the log stays true of argv
  (`FirstPass`); the second pass is always at some entry of it, with the options
  before that entry in `seen` (`SecondPass`), and at its end exactly when words
  are all that is left.

### The attributes

`NetlinkWireProofs`, from `WireAssumption`: the request buffer holds at least the
longest header, 28 bytes; the messages of the constants are ones the kernel sends
(`IsMessage`); and a size_t counts further than the longest answer, of
`MaxDump + 1` messages, and than a refusal that repeats a whole request. The
invariant `WireInv` says what the two buffers are like, and what the last call
did.

* The request is `Built`: its attributes lie at aligned offsets, each at the
  aligned end of the one before and none behind the length, which is within the
  buffer; `added` lists them. `netlink_add_attribute` keeps it, one attribute at a
  time, and every function's request is a chain of such steps from an empty one.
  From it follow `AttributesAlwaysFit` and `RequestsAlwaysParse`: what the
  kernel's walk needs is that the next header is where the aligned end is.
* `msgbuf` holds whole items of nonzero length within what was written
  (`BufferOK`), whatever calls were made before. So every walk over it ends.
* `WalkAlong` says once what a walk comes to: along `k` things that lie one
  behind the other it sees each of them in turn and then goes on from there with
  the length that is left. It is used for the attributes of requests, metrics and
  messages, for the answers in `msgbuf` and for events.
* `WalksAlwaysReadTheirData` uses that lengths are aligned, but for the refusal of
  a request of 17 bytes, so that `queue`'s offsets and the walk's agree; the length
  is then exactly used up and nothing stale is read. A signed walk sees only what
  is whole, because its offset and its rest have a constant sum
  (`SignedSeesWhole`).
* `RoutesFromAnswers` covers each combination of mended slips. With the header of
  the request tested in place of each message's, the walk sees a beginning of the
  answer, as the requests of `get_route` have aligned lengths (28, 36 or 44) and a
  message is no shorter than its header.
* `AddressesAlwaysDecoded` (`AddressesDecoded`): the last value of a type is one
  of the message's, and there is none only when the message has none; a call is an
  "overrun" exactly when a message it comes to has an address of IPv6, and a list
  that is none has shown all of the dump. `WireTypeCorrect` needs the same walks.

`WalkFrom` is a recursive function, and a statement about it needs induction. The
library's induction theorems are out of reach, but its theorem that the order of
the naturals is well-founded is not: it gives a nonempty set of numbers a least
member (`LeastMember`), and induction over the members of a set (`Induction`,
`InductionUpTo`) with it.

### The printf hooks

`PrintfHookProofs`, from `PrintfAssumption` (the int values are integers that
include what the code computes with, sizes are below `SizeMod`, bounds are
natural numbers):

* `TypeCorrect` (`TypeOK`). `q`, `o` and the hook's cursor are sizes modulo
  `SizeMod` whatever is added to them; the rank moves by two at most for each
  character read, which bounds it (`TInv`).
* `CursorAlwaysKept` (`CursorKept`): the comparison of `printInHook()` is one of
  sizes, so any int that comes back, negative ones included, moves the cursor no
  further than to the end of the room.
* `OutputAlwaysRight` (`OutputIsRight`), and `ValueAlwaysFresh` for the part about
  integers. The invariant relates three counters to the output that is complete
  (`Places`): `o` is its length, `q` is the same while there is room and stays
  in or behind the buffer's end otherwise, and the room of a hook together with
  its place makes up the buffer. The statement is
  `[](total < SizeMod => OutputIsRight)`: `o` is a `size_t`, and after `SizeMod`
  characters (2^64) of output it starts again at 0, which no run of `PrintfHook`
  comes near and no buffer either.

### The vici session

`ViciSessionProofs`, from `ViciAssumption` (finitely many generators, events
the daemon knows or does not know):
`TypeCorrect`, `AnswersStayDue` (`NeverWaitsInVain`), `SessionInStep` (`InStep`)
and `LeaksAreRefusals` (`LeakNeedsRefusal`). All are about numbers of packets:
requests the daemon has not read and answers not received are together as many
as the generators that wait or, after an exception, no fewer (`OneAnswerEach`,
`NeverWaitsInVain`); each event sent is received once at most, and not lost
before an exception (`NothingInvented`, `NothingLost`); for each event the
subscriptions, with the packets still to be read, are those of the generators
that hold one (`SubscriptionsMatch`). `Match` says this for every prefix of the
packets, or the daemon could find nothing to remove in the middle.

### The library

`LibraryProofs`, from `ChunkAssumption`, `CapabilityAssumption`,
`TraceAssumption` and `CheckAssumption`.
The parts share no variable; the frame lemmas say that a step is one of the part
in question or leaves it alone.

* `PasswordWithoutEnter` (`AcceptedWithoutEnter`): a text followed by a newline
  never matches, so what the buffer keeps when the input has ended was refused
  or was the last (`RefusedBefore`), and of the texts before the last only one with a
  NUL in it can match (`EarlyMatchesHaveNul`).
* `VerdictsAreJust` (`VerdictIsJust`): each byte a check has read was in the file
  at that place at some moment since the check began, or the file was shorter, and
  the length is one it had (`ReadWhatWasSeen`). That is all a verdict on a file
  that is being written is worth; of one nobody writes it is exact.
* `CapabilitiesAlwaysHold` (`CapabilitiesHold`): bits of two different
  capabilities never share a place, for words of any size; whom the check lets
  through follows from what was resolved (`LastIsConfigured`).
* `LookupsAreSound` (`LookupIsSound`): the object holds the id of the last
  lookup that found one; a buffer is doubled only when an entry was larger.
* `BacktracesAreSnapshots` (`BacktraceIsSnapshot`): what is copied is what was
  due when it was taken, and the enumerator's place says how much of it was
  given, until its backtrace is destroyed.
* `MemoryMisuseIsCaused` (`FaultsAreCaused`) and `ChunkCallsAreRight`
  (`CallsAreRight`). The invariant is about ownership: every chunk lies within a
  block that was allocated (`ChunkTyped`), and the block of a variable that is
  not in `shared` is live, entered at its start, and no other variable's
  (`Owned`). Every function keeps it: a free or a wipe of an owned chunk takes
  the block from nobody else, and what a clone, a skip or a split hands out twice
  is in `shared` from then on. The two loops have invariants of their own. After
  some arguments of a concatenation only the blocks of those given away have
  changed, and the bytes collected are those of the arguments so far
  (`CatGood`); for that an argument must not follow itself once it was given
  away (`CatFair`, the cause "again"). After some pairs of a split
  what is left lies in the block that is split, and what was handed out are the
  bytes in front of it (`SplitShape`, `SplitFair`), the place in the mode string
  being the number of targets so far (`LetterAfter`), which is where letters for
  NULL targets would spoil it. A program passes at most two arguments or pairs
  here, as in the model; blocks, variables, contents and calls are any number.
  Nothing is proved about which of "alias", "clone" and "malloc" do lead to
  misuse: it depends on what the program does next.
* `LibraryTypeCorrect` (`LibraryTypeOK`): every variable of every part, and that
  the parts that are not used stay as they were (`UnusedUntouched`).

### Only model-checked

* Liveness (`CallReturnsUnlessLost`, `MainFinishes`, `CloseReturns`, `LoopsEnd`)
  and everything about fairness and ENABLED: out of TLAPS' reach.
* The counterexamples to what the repository says of itself (the five runs that
  show a violation): a behaviour of the small instance is all they need.

## Plan

1. Done: all code that has bodies is modelled (`Netlink`, `NetlinkContract`,
   `RtMsg`, `NetlinkWire`, `Command`, `PrintfHook`, `ViciSession`, and `Chunk`,
   `Backtrace`, `Capability`, `IntegrityChecker`, `Password` under `Library`),
   and the theorems above are proved.
2. Done: every invariant of a passing run is a theorem, and so are its action
   properties; what is left is under "Only model-checked".

## Not modelled

* Headers without an implementation (bus, listener, message, messageBuilder,
  settings, process, host, hostResolver, logger, path): there is no behaviour in
  the repository. The same holds for `chunkMap`, `chunkUnmap`, `chunkHash` and the
  conversions of `chunk.h`, for dropping capabilities, `capabilitiesKeep` (there is only
  `keep_capability`, which nothing calls) and the getters and setters of `capability.h`, for the segment functions of the integrity
  checker, and for the other `builtin_*` functions and the registration of hooks.
* `backtraceLog`, `backtraceContainsFunction` and `get_source_addr`, whose bodies
  are empty or missing, and output formatting (usage, events, frames).
* The class `Socket` of the vici client, which packs a length before a packet.
* A second dispatch in one process (see the hazard at `command.c:183`), and
  formats with digits behind a `*` for the precision: behind a negative argument
  they make `prec` smaller than -1 (`printfHookBuiltin.c:139`), and the padding
  then counts down through all integers.
* A check against a table of checksums nobody has filled: `integrityCheckerCreate`
  leaves it as `malloc` returned it (`integrityChecker.c:49` reads it), and nothing
  in the repository fills it, so the model starts its checks after its owner has.
* The value of `add_ip()`, which has no return statement: `main()` only prints by it.
* The vendored test library, the empty test, and the notes. No module of the
  repository is tested by them.
