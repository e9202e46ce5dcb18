----------------------------- MODULE NetlinkWire -----------------------------
(***************************************************************************)
(* The bytes of rtmsg.c: where its requests put their attributes, where    *)
(* msgbuf has the messages of an answer, and what the walks over answers,  *)
(* attributes and events find.  Each call is one step here, with the       *)
(* answer it gets; Netlink has the steps of the exchange and its failures. *)
(*                                                                         *)
(* The functions are called in any order, main()'s among them; manage_rule *)
(* is what main() calls under #if 0.  get_route() and parse_route() do not *)
(* compile: hdl is read as hdr, candidate as the parameter candicate, the  *)
(* missing buflen as sizeof(request), RTM_PAYLOAD(rta) as RTM_PAYLOAD(hdr).*)
(***************************************************************************)
EXTENDS Integers, Sequences, FiniteSets

CONSTANTS
  RequestSize,   \* sizeof(netlink_buf_t): 1024
  ResponseSize,  \* sizeof(response) of receive_events(): 1536
  SizeMod,       \* 2^64: a size_t is a number below it
  Links, Addrs, Routes,   \* the messages a dump may hold
  Events,        \* the messages an event may hold
  MaxMessage,    \* no message of the kernel is longer
  MaxDump,       \* bound: messages of a dump, and of an event
  MaxCalls       \* bound: calls of the program

VARIABLES
  msgbuf,    \* headers in it by offset, and where it was never written
  request,   \* the request of the last call
  meant,     \* slips of get_route() that are read as they are meant
  last,      \* what the last call did
  stuck,     \* get_route() waits for an answer for ever, or the stack was overrun
  calls

wireVars == <<msgbuf, request, meant, last, stuck, calls>>

-----------------------------------------------------------------------------
(* Lengths (linux/netlink.h, linux/rtnetlink.h) *)

Align(n) == ((n + 3) \div 4) * 4
NLMSG_LENGTH(n) == 16 + n
RTA_LENGTH(n) == 4 + n
BodyLen(type) ==
  CASE type = "link" -> 16 [] type = "addr" -> 8 [] type \in {"route", "rule"} -> 12
    [] type = "gen" -> 1

\* Things with a header, by their offsets.  A header that was never written has
\* length 0.
Zero == [type |-> "zero", len |-> 0]
At(placed, off) == IF off \in DOMAIN placed THEN placed[off] ELSE Zero
Laid(items, off) ==
  [o \in {off[i] : i \in DOMAIN items} |-> items[CHOOSE i \in DOMAIN items : off[i] = o]]

\* Where items are that lie one behind the other, each at the aligned end of the
\* one before, and where the next one would be.
AlignedOffsets(items, from) ==
  LET off[i \in 1 .. Len(items) + 1] ==
        IF i = 1 THEN from ELSE off[i - 1] + Align(items[i - 1].len)
  IN  off

\* How a loop walks: the size of the header, whether what is left of the length
\* is a size_t, the types it stops at, and the length of the one header it tests
\* instead of each it comes to (0: it tests each).
Walker(header, unsigned, stops) == [header |-> header, unsigned |-> unsigned, stops |-> stops, tests |-> 0]
OverMessages == Walker(16, TRUE, {})
OverAttributes(unsigned) == Walker(4, unsigned, {})

\* NLMSG_OK, RTA_OK
InOrder(walker, item, left) ==
  LET len == IF walker.tests = 0 THEN item.len ELSE walker.tests
  IN  left >= walker.header /\ len >= walker.header /\ len <= left

Less(walker, a, b) == IF walker.unsigned THEN (a - b) % SizeMod ELSE a - b

\* The walk with NLMSG_NEXT or RTA_NEXT: the things it comes to and their
\* offsets, while they are in order and none to stop at.
Place(placed, off, left) == [off |-> off, left |-> left, item |-> At(placed, off)]
GoesOn(walker, s) == InOrder(walker, s.item, s.left)
WalkStep(placed, walker, s) ==
  IF ~GoesOn(walker, s) \/ s.item.type \in walker.stops THEN s
  ELSE Place(placed, s.off + Align(s.item.len), Less(walker, s.left, Align(s.item.len)))

WalkFrom(placed, start, length, walker) ==
  LET n == Cardinality(DOMAIN placed) + 1
      walk[i \in 0 .. n] ==
        IF i = 0 THEN Place(placed, start, length) ELSE WalkStep(placed, walker, walk[i - 1])
      at == {i \in 0 .. n : GoesOn(walker, walk[i]) /\ (i = 0 \/ walk[i] # walk[i - 1])}
  IN  [seen |-> [i \in 1 .. Cardinality(at) |-> [off |-> walk[i - 1].off, item |-> walk[i - 1].item]],
       end |-> walk[n].off, left |-> walk[n].left]

-----------------------------------------------------------------------------
(* Requests *)

\* An attribute with its value, and a request with its attributes.
Attr(type, n, value) == [type |-> type, len |-> RTA_LENGTH(n), value |-> value]
Empty(type, body) ==
  [type |-> type, body |-> body, len |-> NLMSG_LENGTH(BodyLen(body)), placed |-> <<>>, added |-> <<>>]

\* A variant of Fits that forgets the header of the attribute.
FitsData(r, n) == Align(r.len) + n <= RequestSize

Fits(r, n) == Align(r.len) + RTA_LENGTH(n) <= RequestSize

\* A variant of AddedLength that forgets the header of the attribute.
AddedData(n) == n

AddedLength(n) == RTA_LENGTH(n)

\* One that does not fit is left out; the request is sent all the same.
netlink_add_attribute(r, type, n, value) ==
  LET at == Align(r.len)
  IN  IF Fits(r, n)
      THEN [r EXCEPT !.placed = [off \in DOMAIN r.placed \cup {at} |->
                                   IF off = at THEN Attr(type, n, value) ELSE r.placed[off]],
                     !.len = at + AddedLength(n),
                     !.added = Append(r.added, <<type, value>>)]
      ELSE r

AddIf(cond, r, type, n, value) == IF cond THEN netlink_add_attribute(r, type, n, value) ELSE r

manage_rule(new) ==
  netlink_add_attribute(Empty(IF new THEN "NEWRULE" ELSE "DELRULE", "rule"), "PRIORITY", 4, "prio")

\* The metrics are two attributes in a buffer of their own, the second behind
\* the aligned length of the first; metriclen adds up lengths as they are.
Metrics ==
  LET first == Attr("MTU", 4, "mtu")
      next == Align(first.len)
  IN  [placed |-> [off \in {0, next} |-> IF off = next THEN Attr("ADVMSS", 4, "mss") ELSE first],
       len |-> first.len + RTA_LENGTH(4)]

\* The attribute with the outgoing interface is under #if 0.
manage_srcroute(new, gateway) ==
  LET r0 == Empty(IF new THEN "NEWROUTE" ELSE "DELROUTE", "route")
      r1 == netlink_add_attribute(r0, "DST", 4, "dstnet")
      r2 == netlink_add_attribute(r1, "PREFSRC", 4, "srcip")
      r3 == AddIf(gateway, r2, "GATEWAY", 4, "gateway")
  IN  netlink_add_attribute(r3, "METRICS", Metrics.len, Metrics)

manage_ipaddr == netlink_add_attribute(Empty("NEWADDR", "addr"), "LOCAL", 4, "ip")

\* RTA_DATA(hdr) is four bytes into the message: the family, AF_INET = 2, goes
\* into the type, which becomes that of an NLMSG_ERROR.
RouteType == IF "msg" \in meant THEN "GETROUTE" ELSE "ERROR"

\* A variant of get_route_request with the family only, as the other dumps have.
get_route_short(candidate, host) == Empty(RouteType, "gen")

\* A host is looked up by its address, a net among all routes.
get_route_request(candidate, host) ==
  LET r1 == AddIf(candidate, Empty(RouteType, "route"), "PREFSRC", 4, "candidate")
  IN  AddIf(host, r1, "DST", 4, "dest")

-----------------------------------------------------------------------------
(* Answers *)

Plain(type, n) == [type |-> type, body |-> "none", family |-> "none", attrs |-> <<>>, len |-> NLMSG_LENGTH(n)]
Done == Plain("DONE", 4)
Ack == Plain("ERROR", 20)

\* A refusal repeats the request, whose length may be unaligned; newer kernels pad it.
Refusal(r, pads) == Plain("ERROR", 20 + (IF pads THEN Align(r.len - 16) ELSE r.len - 16))

DumpOf(messages) == {s \o <<Done>> : s \in UNION {[1 .. n -> messages] : n \in 0 .. MaxDump}}
Answers(r, messages) == DumpOf(messages) \cup {<<Refusal(r, pads)>> : pads \in BOOLEAN}

\* A variant of Advanced that stays where the message was put.
AdvancedNowhere(idx, m) == idx

\* msgbufIdx after queue(): it goes on by the length the message has.
Advanced(idx, m) == idx + m.len

\* Where queue() puts the messages of an answer, and the next one.
QueueOffsets(answer) ==
  LET off[i \in 1 .. Len(answer) + 1] ==
        IF i = 1 THEN 0 ELSE Advanced(off[i - 1], answer[i - 1])
  IN  off
Queued(answer) == QueueOffsets(answer)[Len(answer) + 1]

\* A variant of OutLen: msgbufLen is not reset by send_once().
OutLenKept(answer) == IF msgbuf.written > Queued(answer) THEN msgbuf.written ELSE Queued(answer)

\* *out_len = msgbufLen, the bytes queued by this call.
OutLen(answer) == Queued(answer)

\* memcpy() into msgbuf: earlier headers stay where nothing was written, those
\* that are only written over in part are no headers any more.
Stored(answer) ==
  LET new == Laid(answer, QueueOffsets(answer))
      kept == {off \in DOMAIN msgbuf.placed : off >= Queued(answer)}
  IN  [placed |-> [off \in DOMAIN new \cup kept |->
                     IF off \in DOMAIN new THEN new[off] ELSE msgbuf.placed[off]],
       written |-> IF Queued(answer) > msgbuf.written THEN Queued(answer) ELSE msgbuf.written]

\* What a walk is at: a header, none yet, or the inside of something older.
Garbage(buf, off) == off < buf.written /\ At(buf.placed, off) = Zero

\* A message of the kernel (external): its attributes lie one behind the other
\* and are padded, and an address of IPv6 has sixteen bytes, any other four.
BodyOf(type) ==
  CASE type \in {"NEWLINK", "DELLINK"} -> "link" [] type \in {"NEWADDR", "DELADDR"} -> "addr"
    [] type \in {"NEWROUTE", "DELROUTE"} -> "route"
Behind(placed, off, from, end) ==
  LET n == Cardinality(DOMAIN placed)
  IN  /\ off[1] = from /\ off[n + 1] = end
      /\ \A i \in 1 .. n : off[i + 1] = off[i] + Align(placed[off[i]].len)
      /\ DOMAIN placed = {off[i] : i \in 1 .. n}
IsMessage(m) ==
  /\ m.type \in {"NEWLINK", "DELLINK", "NEWADDR", "DELADDR", "NEWROUTE", "DELROUTE"}
  /\ m.body = BodyOf(m.type)
  /\ DOMAIN m.attrs \subseteq Nat /\ IsFiniteSet(DOMAIN m.attrs) /\ m.len \in Nat /\ m.len <= MaxMessage
  /\ \E off \in [1 .. Cardinality(DOMAIN m.attrs) + 1 -> DOMAIN m.attrs \cup {m.len}] :
       Behind(m.attrs, off, NLMSG_LENGTH(BodyLen(m.body)), m.len)
  /\ \A o \in DOMAIN m.attrs :
       /\ m.attrs[o].len \in Nat /\ m.attrs[o].len >= RTA_LENGTH(0) /\ m.attrs[o].value # "none"
       /\ m.body = "addr" /\ m.attrs[o].type \in {"LOCAL", "ADDRESS"} =>
            m.attrs[o].len = RTA_LENGTH(IF m.family = "inet6" THEN 16 ELSE 4)

ASSUME WireAssumption ==
  /\ {RequestSize, ResponseSize, SizeMod, MaxMessage, MaxDump, MaxCalls} \subseteq Nat
  /\ RequestSize >= 28 /\ RequestSize + 40 < SizeMod
  /\ MaxMessage >= Done.len /\ (MaxDump + 1) * MaxMessage < SizeMod
  /\ \A m \in Links \cup Addrs \cup Routes \cup Events : IsMessage(m)

-----------------------------------------------------------------------------
(* What the handlers find *)

Attributes(m) ==
  WalkFrom(m.attrs, NLMSG_LENGTH(BodyLen(m.body)), m.len - NLMSG_LENGTH(BodyLen(m.body)),
           OverAttributes(TRUE)).seen

\* RTA_PAYLOAD
CopyLen(a) == a.len - RTA_LENGTH(0)

\* The value of the last attribute of a type, or none.
Latest(I) == CHOOSE i \in I : \A j \in I : j <= i
LastOf(m, type) ==
  LET A == Attributes(m)
      I == {i \in DOMAIN A : A[i].item.type = type}
  IN  IF I = {} THEN "none" ELSE A[Latest(I)].item.value

\* A variant of Printed that prefers the address of the peer.
PrintedPeer(m) == IF LastOf(m, "ADDRESS") # "none" THEN LastOf(m, "ADDRESS") ELSE LastOf(m, "LOCAL")

\* The address that is printed, or none: four bytes, as inet_ntop(AF_INET) takes
\* them, for one that is longer does not come so far.
Printed(m) == IF LastOf(m, "LOCAL") # "none" THEN LastOf(m, "LOCAL") ELSE LastOf(m, "ADDRESS")

\* memcpy() into localip or addressip, which have four bytes.
Overruns(m) == \E i \in DOMAIN Attributes(m) :
  Attributes(m)[i].item.type \in {"LOCAL", "ADDRESS"} /\ CopyLen(Attributes(m)[i].item) > 4

process_addr(m) == [of |-> m, shows |-> Printed(m), overruns |-> Overruns(m)]
process_link(m) == [of |-> m, shows |-> LastOf(m, "IFNAME"), overruns |-> FALSE]

\* What the handlers show of the messages of some types that a walk has seen.
Handled(seen, types) ==
  [i \in {i \in DOMAIN seen : seen[i].item.type \in types} |->
     IF seen[i].item.type = "NEWLINK" THEN process_link(seen[i].item) ELSE process_addr(seen[i].item)]

\* Of those, what is shown before one overruns the stack, and the one that does.
Shown(h) == [i \in {i \in DOMAIN h : \A j \in DOMAIN h : j <= i => ~h[j].overruns} |-> h[i]]
Overrunning(h) ==
  {h[i].of : i \in {i \in DOMAIN h : h[i].overruns /\ \A j \in DOMAIN h : h[j].overruns => i <= j}}

-----------------------------------------------------------------------------
(* The calls *)

NoCall == [fn |-> "none", answer |-> <<>>, walked |-> <<>>, shown |-> <<>>,
           over |-> {}, strays |-> FALSE, best |-> {}]

WireInit ==
  /\ msgbuf = [placed |-> <<>>, written |-> 0]
  /\ request = Empty("GETLINK", "gen")
  /\ meant \in SUBSET {"msg", "loop"}
  /\ last = NoCall
  /\ stuck = FALSE
  /\ calls = 0

\* A walk that read behind the answer, or at something that is no header.
Strays(buf, w, length) ==
  \/ w.left >= 16 /\ Garbage(buf, w.end)
  \/ \E i \in DOMAIN w.seen : w.seen[i].off >= length

\* A call that has handled these messages.  One that overran the stack does not
\* go on: its behaviour is undefined from there.
Handles(call, h) ==
  IF \E i \in DOMAIN h : h[i].overruns
  THEN /\ last' = [NoCall EXCEPT !.fn = "overrun", !.answer = call.answer,
                     !.shown = Shown(h), !.over = Overrunning(h)]
       /\ stuck' = TRUE
  ELSE last' = [call EXCEPT !.shown = h] /\ UNCHANGED stuck

\* One half of init_address_list(): the dump, and the walk over it, whose len is
\* a size_t.  It ends at an NLMSG_DONE.
List(type, messages, shown) ==
  LET r == Empty(type, "gen")
  IN  \E answer \in Answers(r, messages) :
        LET buf == Stored(answer)
            w == WalkFrom(buf.placed, 0, OutLen(answer), Walker(16, TRUE, {"DONE"}))
        IN  /\ request' = r
            /\ msgbuf' = buf
            /\ Handles([NoCall EXCEPT !.fn = "list", !.answer = answer, !.walked = w.seen,
                          !.strays = Strays(buf, w, Queued(answer))],
                       Handled(w.seen, {shown}))

ListLinks == List("GETLINK", Links, "NEWLINK")
ListAddrs == List("GETADDR", Addrs, "NEWADDR")

\* netlink_send_ack() of a request that was built: the answer is one message.
Manage(r) ==
  \E answer \in {<<Ack>>} \cup {<<Refusal(r, pads)>> : pads \in BOOLEAN} :
    /\ request' = r
    /\ msgbuf' = Stored(answer)
    /\ last' = [NoCall EXCEPT !.fn = "manage", !.answer = answer]
    /\ UNCHANGED stuck

\* The value of add_ip(), which main() prints a failure by, is undefined and
\* left out; without a routing table the default route is not asked for.
ManageAny ==
  \/ \E new \in BOOLEAN : Manage(manage_rule(new))
  \/ \E new, gateway \in BOOLEAN : Manage(manage_srcroute(new, gateway))
  \/ Manage(manage_ipaddr)

SrcrouteRefused ==
  /\ last' = [NoCall EXCEPT !.fn = "refused"]
  /\ UNCHANGED <<msgbuf, request, stuck>>

-----------------------------------------------------------------------------
(* Routes *)

\* parse_route() never gets a route to reuse, and the one it allocates is not
\* cleared: what the message does not have, or not in four bytes, is left over
\* from malloc().  So is the source, since inet_pton() takes the bytes of an
\* address for a text.
parse_route(m, leftover) ==
  LET A == Attributes(m)
      fours(type) == {i \in DOMAIN A : A[i].item.type = type /\ CopyLen(A[i].item) = 4}
      number(type) == IF fours(type) = {} THEN leftover ELSE A[Latest(fours(type))].item.value
  IN  [of |-> m, src |-> leftover, oif |-> number("OIF"), table |-> number("TABLE"),
       priority |-> number("PRIORITY")]

\* The loop of get_route() tests the header of the request instead of the
\* message it has come to, and switches on its type, so no route is parsed; the
\* case for NLMSG_DONE does not leave it.
RouteWalk(r, buf, length) ==
  WalkFrom(buf.placed, 0, length,
           IF "loop" \in meant THEN OverMessages ELSE [OverMessages EXCEPT !.tests = r.len])
RoutesIn(w) ==
  IF "loop" \in meant THEN {i \in DOMAIN w.seen : w.seen[i].item.type = "NEWROUTE"} ELSE {}

\* A source that is there is the best one when no candidate is given, or when it
\* happens to be the candidate's text; the last one found is kept.
GetRoute(candidate, host) ==
  LET r == get_route_request(candidate, host)
  IN  /\ request' = r
      /\ IF RouteType = "ERROR"
         THEN \* the kernel takes it for a control message and does not answer
              /\ stuck' = TRUE
              /\ last' = [NoCall EXCEPT !.fn = "route"]
              /\ UNCHANGED msgbuf
         ELSE \E answer \in Answers(r, Routes), leftover \in {"nothing", "candidate", "other"} :
                LET buf == Stored(answer)
                    w == RouteWalk(r, buf, OutLen(answer))
                    routes == RoutesIn(w)
                    fits == leftover # "nothing" /\ (candidate => leftover = "candidate")
                IN  /\ msgbuf' = buf
                    /\ last' = [NoCall EXCEPT !.fn = "route", !.answer = answer, !.walked = w.seen,
                           !.strays = Strays(buf, w, Queued(answer)),
                           !.best = IF fits /\ routes # {}
                                    THEN {parse_route(w.seen[Latest(routes)].item, leftover)} ELSE {}]
                    /\ UNCHANGED stuck

-----------------------------------------------------------------------------
(* Events *)

\* recvfrom() cuts a datagram to the buffer and returns what it put there.
Received(n) == IF n > ResponseSize THEN ResponseSize ELSE n

\* receive_events() on a datagram; its len is an int.
ReceiveEvents(datagram) ==
  LET off == AlignedOffsets(datagram, 0)
      size == off[Len(datagram)] + datagram[Len(datagram)].len
      w == WalkFrom(Laid(datagram, off), 0, Received(size), Walker(16, FALSE, {}))
  IN  /\ Handles([NoCall EXCEPT !.fn = "events", !.answer = datagram, !.walked = w.seen],
                 Handled(w.seen, {"NEWADDR", "DELADDR"}))
      /\ UNCHANGED <<msgbuf, request>>

-----------------------------------------------------------------------------

Datagrams == UNION {[1 .. n -> Events] : n \in 1 .. MaxDump}

WireNext ==
  /\ calls < MaxCalls /\ ~stuck
  /\ calls' = calls + 1
  /\ UNCHANGED meant
  /\ \/ ListLinks \/ ListAddrs
     \/ ManageAny \/ SrcrouteRefused
     \/ \E candidate, host \in BOOLEAN : GetRoute(candidate, host)
     \/ \E datagram \in Datagrams : ReceiveEvents(datagram)

WireSpec == WireInit /\ [][WireNext]_wireVars

-----------------------------------------------------------------------------

WireTypeOK ==
  /\ request.len \in Nat /\ Len(request.added) = Cardinality(DOMAIN request.placed)
  /\ meant \subseteq {"msg", "loop"}
  /\ stuck \in BOOLEAN /\ calls \in 0 .. MaxCalls
  /\ \A off \in DOMAIN msgbuf.placed : off + msgbuf.placed[off].len <= msgbuf.written

\* No attribute ends behind the buffer of its request, and neither does the
\* length sendto() is given: whichever attributes are added, and however little
\* is left of the buffer.
AttributesFit ==
  /\ request.len <= RequestSize
  /\ \A off \in DOMAIN request.placed : off + request.placed[off].len <= request.len

\* The kernel (external), which walks a request by the rules of its headers,
\* finds in it exactly the attributes that were added, in their order, and in
\* the metrics the two it was given.
KernelParses(placed, from, length) ==
  LET seen == WalkFrom(placed, from, length, OverAttributes(FALSE)).seen
  IN  [i \in DOMAIN seen |-> <<seen[i].item.type, seen[i].item.value>>]
RequestParses ==
  LET from == Align(NLMSG_LENGTH(BodyLen(request.body)))
      found == KernelParses(request.placed, from, request.len - from)
  IN  /\ found = request.added
      /\ \A i \in DOMAIN found : found[i][1] = "METRICS" =>
           KernelParses(found[i][2].placed, 0, found[i][2].len) = <<<<"MTU", "mtu">>, <<"ADVMSS", "mss">>>>

\* The walk over a dump comes to every message queue() put into msgbuf, up to
\* the last: their offsets, by the lengths as they are, and the walk's, by
\* aligned lengths, agree.
WalkSeesQueued ==
  last.fn = "list" =>
    /\ Len(last.walked) >= Len(last.answer)
    /\ \A i \in DOMAIN last.answer : last.walked[i].item = last.answer[i]

\* What is behind the answer in msgbuf, from calls before, is only read after a
\* refused dump whose request of 17 bytes an older kernel repeats without
\* padding: the length goes below zero, which a size_t takes for a huge one.
StrayNeedsUnalignedError ==
  last.fn = "list" /\ (last.strays \/ Len(last.walked) > Len(last.answer)) =>
    Len(last.answer) = 1 /\ last.answer[1].type = "ERROR" /\ last.answer[1].len % 4 # 0

\* "For PPP interfaces, we need the IFA_LOCAL address": it is printed wherever
\* the kernel has put it, and the peer's only when there is no other.
PrintsLocal ==
  \A i \in DOMAIN last.shown : last.shown[i].of.body = "addr" =>
    LET attrs == last.shown[i].of.attrs
        values(type) == {attrs[off].value : off \in {off \in DOMAIN attrs : attrs[off].type = type}}
    IN  last.shown[i].shows \in (IF values("LOCAL") # {} THEN values("LOCAL")
                                 ELSE IF values("ADDRESS") # {} THEN values("ADDRESS") ELSE {"none"})

\* Dumps and events are asked for all families, and an address of IPv6 does not
\* fit the four bytes there are for it: a call ends there, in the middle of what
\* it decodes, exactly when it comes to one.
HoldsIPv6(m) ==
  /\ m.family = "inet6" /\ m.body = "addr"
  /\ \E off \in DOMAIN m.attrs : m.attrs[off].type \in {"LOCAL", "ADDRESS"}
EndsAtIPv6 ==
  /\ last.fn = "overrun" => \E m \in last.over : HoldsIPv6(m)
  /\ \A i \in DOMAIN last.shown : ~HoldsIPv6(last.shown[i].of)

\* A list of the addresses that comes to its end has shown every one of the dump.
ListsAll ==
  last.fn = "list" /\ request.type = "GETADDR" =>
    \A i \in DOMAIN last.answer : last.answer[i].type = "NEWADDR" =>
      i \in DOMAIN last.shown /\ last.shown[i].of = last.answer[i]

\* An event is only dispatched when all of it is in the buffer: the end of a
\* datagram that was cut off is not.
EventsWhole ==
  last.fn = "events" =>
    \A i \in DOMAIN last.walked : last.walked[i].off + last.walked[i].item.len <= ResponseSize

\* The loop of get_route() does not go on behind its answer, where a header
\* without a length would keep it for ever, although it looks at the wrong one;
\* and a best route, which takes both slips to be mended, is one of the answer.
RouteFromAnswer ==
  last.fn = "route" =>
    /\ ~last.strays /\ (\A i \in DOMAIN last.walked : last.walked[i].item # Zero)
    /\ \A route \in last.best :
         meant = {"msg", "loop"} /\ \E i \in DOMAIN last.answer : route.of = last.answer[i]

\* Addresses of IPv4 are decoded as they are meant, all of a dump and the local one
\* of each; the first of IPv6 overruns the stack.
AddressesDecoded == PrintsLocal /\ EndsAtIPv6 /\ ListsAll

\* The walks read their own data: all of an answer and nothing but it, save for
\* the one case with a length below zero, and of an event what is there whole.
WalksReadTheirData == WalkSeesQueued /\ StrayNeedsUnalignedError /\ EventsWhole

=============================================================================
