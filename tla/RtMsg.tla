------------------------------- MODULE RtMsg -------------------------------
(***************************************************************************)
(* The program of example/netlink/rtmsg.c: main(), which runs a fixed      *)
(* series of requests, next to the thread that watches kernel events.  The *)
(* two share the process: its table of file descriptors and its end.       *)
(*                                                                         *)
(* A request is what NetlinkContract promises of the transport (module     *)
(* Netlink implements it as long as select() does not fail).               *)
(***************************************************************************)
EXTENDS Naturals, Sequences, FiniteSets

CONSTANTS
  route, address,   \* what main() creates: one source route, one address
  MaxFds,           \* descriptors the process may have open (RLIMIT_NOFILE)
  MaxForeign,       \* bound: changes other programs make
  MaxSpurious       \* bound: receive_events() returns without an event

ASSUME RtMsgAssumption ==
  /\ route # address
  /\ MaxFds \in Nat \ {0}
  /\ MaxForeign \in Nat
  /\ MaxSpurious \in Nat

VARIABLES
  main,        \* where main() is
  step,        \* the next request of Program
  reports,     \* what the requests reported
  ifindex,     \* what getIfIndex() found out
  socketfd,    \* the request socket is open
  watcher,     \* where the event thread is
  eventfds,    \* sockets receive_events() has opened; it closes none
  bound,       \* those of them that are subscribed to the event groups
  queue,       \* events delivered to each and not read
  handled,     \* events the thread has dispatched
  emitted,     \* events the kernel has sent, numbered from 1
  foreign, spurious,            \* how many of each bounded event happened
  phase, request, decision, result, installed   \* see NetlinkContract

transport == <<phase, request, decision, result, installed>>
events == <<eventfds, bound, queue, handled, emitted>>
vars == <<main, step, reports, ifindex, socketfd, watcher, events, foreign,
          spurious, transport>>

Transport == INSTANCE NetlinkContract WITH Objects <- {route, address}

-----------------------------------------------------------------------------

\* A variant of Program with the route removed before it is installed.
ProgramSwapped == << [kind |-> "dump"], [kind |-> "dump"],
                     [kind |-> "delete",  obj |-> route],
                     [kind |-> "replace", obj |-> route],
                     [kind |-> "replace", obj |-> address] >>

\* init_address_list(), then the three calls of main().
Program == << [kind |-> "dump"], [kind |-> "dump"],
              [kind |-> "replace", obj |-> route],
              [kind |-> "delete",  obj |-> route],
              [kind |-> "replace", obj |-> address] >>

\* The process has neither exited nor been aborted.
Alive == main # "exited" /\ phase # "stopped"

Used == eventfds + (IF socketfd THEN 1 ELSE 0) + (IF main = "lookup" THEN 1 ELSE 0)
FreeFd == Used < MaxFds

Init ==
  /\ Transport!Init
  /\ main = "start"
  /\ step = 1
  /\ reports = <<>>
  /\ ifindex = "none"
  /\ socketfd = FALSE
  /\ watcher \in {"call", "absent"}   \* pthread_create() is not checked
  /\ eventfds = 0
  /\ bound = {}
  /\ queue = [n \in 1 .. MaxFds |-> <<>>]
  /\ handled = <<>>
  /\ emitted = 0
  /\ foreign = 0
  /\ spurious = 0

\* A change in the kernel reaches every subscribed socket, read or not.
Emit ==
  /\ emitted' = emitted + 1
  /\ queue' = [n \in DOMAIN queue |->
                 IF n \in bound THEN Append(queue[n], emitted + 1) ELSE queue[n]]
  /\ UNCHANGED <<eventfds, bound, handled>>

-----------------------------------------------------------------------------
(* main() *)

\* socket() and bind(); without a descriptor bind() fails and main() returns.
OpenRequestSocket ==
  /\ Alive /\ main = "start"
  /\ \/ FreeFd /\ socketfd' = TRUE /\ main' = "ready"
     \/ main' = "exited" /\ UNCHANGED socketfd
  /\ UNCHANGED <<step, reports, ifindex, watcher, events, foreign, spurious, transport>>

\* manage_ipaddr() needs an interface index first.
NeedsIndex == step = Len(Program) /\ ifindex = "none"

\* A variant of LookupOpens that waits until there is a descriptor.
LookupWaits ==
  /\ Alive /\ main = "ready" /\ NeedsIndex
  /\ FreeFd /\ main' = "lookup"
  /\ UNCHANGED <<step, reports, ifindex, socketfd, watcher, events, foreign,
                 spurious, transport>>

\* getIfIndex() opens a socket of its own; socket() = -1 shows in ioctl() only.
LookupOpens ==
  /\ Alive /\ main = "ready" /\ NeedsIndex
  /\ \/ FreeFd /\ main' = "lookup" /\ UNCHANGED ifindex
     \/ ~FreeFd /\ ifindex' = "nosocket" /\ UNCHANGED main
  /\ UNCHANGED <<step, reports, socketfd, watcher, events, foreign, spurious, transport>>

\* The ioctl() finds the interface or not; the socket is closed either way.
LookupDone ==
  /\ Alive /\ main = "lookup"
  /\ ifindex' \in {"found", "absent"}
  /\ main' = "ready"
  /\ UNCHANGED <<step, reports, socketfd, watcher, events, foreign, spurious, transport>>

Ask ==
  /\ Alive /\ main = "ready"
  /\ step <= Len(Program) /\ ~NeedsIndex
  /\ Transport!Begin
  /\ request' = Program[step]
  /\ main' = "asked"
  /\ UNCHANGED <<step, reports, ifindex, socketfd, watcher, events, foreign, spurious>>

\* A request returns.  init_address_list() gives up when its first dump could
\* not be sent; main() goes on whatever is reported.
Told ==
  /\ Alive /\ main = "asked"
  /\ Transport!Return \/ Transport!GiveUp
  /\ reports' = Append(reports, [step |-> step, result |-> result'])
  /\ step' = IF step = 1 /\ result' = "WRITE_FAILED" THEN 3 ELSE step + 1
  /\ main' = "ready"
  /\ UNCHANGED <<ifindex, socketfd, watcher, events, foreign, spurious>>

\* The transport runs into undefined behaviour: the process is gone.
Abort ==
  /\ Alive /\ main = "asked"
  /\ Transport!Stop
  /\ UNCHANGED <<main, step, reports, ifindex, socketfd, watcher, events, foreign, spurious>>

\* close(socketfd); returning from main() ends the event thread too.
Exit ==
  /\ Alive /\ main = "ready"
  /\ step > Len(Program)
  /\ main' = "exited"
  /\ socketfd' = FALSE
  /\ UNCHANGED <<step, reports, ifindex, watcher, events, foreign, spurious, transport>>

-----------------------------------------------------------------------------
(* The event thread: receive_events(), over and over. *)

\* Variants of OpenEventSocket: with a socket for each address family, and
\* without a look at the descriptors that are left.
OpenEventSockets(k, fits) ==
  /\ Alive /\ watcher = "call"
  /\ \/ fits /\ eventfds' = eventfds + k /\ watcher' = "bind"
     \/ ~fits /\ UNCHANGED <<eventfds, watcher>>
  /\ UNCHANGED <<main, step, reports, ifindex, socketfd, bound, queue, handled,
                 emitted, foreign, spurious, transport>>
OpenTwoEventSockets == OpenEventSockets(2, Used + 2 <= MaxFds)
OpenUncheckedEventSocket == OpenEventSockets(1, TRUE)

\* socket() succeeds, or there are no descriptors left and the thread returns
\* to the top of its loop at once.
OpenEventSocket ==
  /\ Alive /\ watcher = "call"
  /\ \/ FreeFd /\ eventfds' = eventfds + 1 /\ watcher' = "bind"
     \/ ~FreeFd /\ UNCHANGED <<eventfds, watcher>>
  /\ UNCHANGED <<main, step, reports, ifindex, socketfd, bound, queue, handled,
                 emitted, foreign, spurious, transport>>

\* bind() subscribes the new socket; a failure leaves it open, too.
BindEventSocket ==
  /\ Alive /\ watcher = "bind"
  /\ \/ watcher' = "recv" /\ bound' = bound \cup {eventfds} /\ UNCHANGED spurious
     \/ /\ spurious < MaxSpurious
        /\ spurious' = spurious + 1
        /\ watcher' = "call" /\ UNCHANGED bound
  /\ UNCHANGED <<main, step, reports, ifindex, socketfd, eventfds, queue, handled,
                 emitted, foreign, transport>>

\* A variant of HandleEvent that leaves the datagram in the socket (MSG_PEEK)
\* and reads the same socket again.
PeekEvent ==
  /\ Alive /\ watcher = "recv"
  /\ queue[eventfds] # <<>>
  /\ Len(handled) < MaxForeign + Len(Program)
  /\ handled' = Append(handled, Head(queue[eventfds]))
  /\ UNCHANGED <<main, step, reports, ifindex, socketfd, watcher, eventfds, bound,
                 queue, emitted, foreign, spurious, transport>>

\* recvfrom() returns the first event of the newest socket, all its messages
\* are dispatched, and receive_events() returns with the socket open.
HandleEvent ==
  /\ Alive /\ watcher = "recv"
  /\ queue[eventfds] # <<>>
  /\ handled' = Append(handled, Head(queue[eventfds]))
  /\ queue' = [queue EXCEPT ![eventfds] = Tail(@)]
  /\ watcher' = "call"
  /\ UNCHANGED <<main, step, reports, ifindex, socketfd, eventfds, bound, emitted,
                 foreign, spurious, transport>>

\* EINTR, a socket error, or a datagram some process sent: nothing is read from
\* the kernel and the next call starts over with another socket.
ReceiveNothing ==
  /\ Alive /\ watcher = "recv"
  /\ spurious < MaxSpurious
  /\ spurious' = spurious + 1
  /\ watcher' = "call"
  /\ UNCHANGED <<main, step, reports, ifindex, socketfd, events, foreign, transport>>

-----------------------------------------------------------------------------
(* The kernel (external). *)

\* The decision on the request; without an interface index an address is
\* refused.  A change is announced to the event sockets.
Decide ==
  /\ Alive /\ main = "asked"
  /\ Transport!CarryOut
  /\ step = Len(Program) /\ ifindex # "found" => decision' \in {"refused", "EBUSY"}
  /\ IF installed' # installed THEN Emit ELSE UNCHANGED events
  /\ UNCHANGED <<main, step, reports, ifindex, socketfd, watcher, foreign, spurious>>

\* Another program or the administrator changes a link, an address or a route.
ForeignChange ==
  /\ Alive
  /\ foreign < MaxForeign
  /\ foreign' = foreign + 1
  /\ Emit
  /\ UNCHANGED <<main, step, reports, ifindex, socketfd, watcher, spurious, transport>>

-----------------------------------------------------------------------------

Main == OpenRequestSocket \/ LookupOpens \/ LookupDone \/ Ask \/ Told \/ Exit
Watcher == OpenEventSocket \/ BindEventSocket \/ HandleEvent \/ ReceiveNothing

Next == Main \/ Abort \/ Watcher \/ Decide \/ ForeignChange

Spec == Init /\ [][Next]_vars

\* Both threads are scheduled and the kernel answers (Netlink!CallReturns).
FairSpec == Spec /\ WF_vars(Main) /\ WF_vars(Watcher) /\ WF_vars(Decide)

-----------------------------------------------------------------------------

\* The shape of the state; all sockets together fit the descriptor table.
TypeOK ==
  /\ main \in {"start", "ready", "lookup", "asked", "exited"}
  /\ step \in 1 .. Len(Program) + 1
  /\ reports \in Seq([step : 1 .. Len(Program),
                      result : {"ok", "ALREADY_DONE", "NOTFOUND", "UNKNOWN", "WRITE_FAILED"}])
  /\ ifindex \in {"none", "found", "absent", "nosocket"}
  /\ socketfd \in BOOLEAN
  /\ watcher \in {"call", "bind", "recv", "absent"}
  /\ eventfds \in 0 .. MaxFds
  /\ Used <= MaxFds
  /\ bound \subseteq 1 .. eventfds
  /\ queue \in [1 .. MaxFds -> Seq(1 .. emitted)]
  /\ handled \in Seq(1 .. emitted)
  /\ emitted \in 0 .. Len(Program) + MaxForeign
  /\ foreign \in 0 .. MaxForeign
  /\ spurious \in 0 .. MaxSpurious

\* Although every event waits in all the sockets opened so far, and the thread
\* moves to another one after each, no event is dispatched twice and none
\* after a later one.
HandledInOrder ==
  \A i, j \in DOMAIN handled : i < j => handled[i] < handled[j]

\* main() finds no descriptor for its own sockets only after receive_events()
\* has returned, and left a socket open, as often as that takes.
StarvedByWatcher ==
  ifindex = "nosocket" => Len(handled) + spurious + 2 >= MaxFds

\* What stays behind at the end: a route whose removal was reported (or that
\* was reported not to be there) is gone, and the address is there exactly if
\* manage_ipaddr() said so to add_ip().
LeavesWhatItReports ==
  main = "exited" =>
    \A i \in DOMAIN reports :
      /\ reports[i].step = 4 /\ reports[i].result \in {"ok", "NOTFOUND"}
           => route \notin installed
      /\ reports[i].step = 5 => (reports[i].result = "ok" <=> address \in installed)

\* main() comes to its end whatever the event thread does, even when that one
\* spins on an exhausted descriptor table.
MainFinishes == <>(main = "exited" \/ phase = "stopped")

=============================================================================
