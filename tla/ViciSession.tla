---------------------------- MODULE ViciSession ----------------------------
(***************************************************************************)
(* The streamed requests of py/vici/Session.py.  Each call of              *)
(* streamed_request() is a Python generator: it runs when its caller asks  *)
(* for the next event or closes it, and stops at a yield.  Several of them *)
(* may share the handler, and with it the one connection to the daemon.    *)
(*                                                                         *)
(* The daemon and the package's protocol module are external: packets      *)
(* arrive in the order they were sent, each packet of the session is       *)
(* answered once and in order, and an event may come at any time while     *)
(* there is a subscription to it.                                          *)
(***************************************************************************)
EXTENDS Naturals, Sequences, FiniteSets

CONSTANTS
  Calls,          \* calls of streamed_request()
  Known, Unknown, \* event types the daemon has and has not
  MaxEvents       \* bound: events the daemon sends

ASSUME ViciAssumption ==
  /\ IsFiniteSet(Calls)
  /\ MaxEvents \in Nat
  /\ Known \cap Unknown = {}

VARIABLES
  PacketEvent, \* what PACKET.EVENT stands for: "NameError" as it is written,
               \* "EVENT" if it is read as Packet.EVENT
  pc,         \* where each call is
  event,      \* the event type it subscribes to
  exited,     \* its caller has closed it
  failing,    \* it leaves its try block with an exception
  outbox,     \* packets on their way to the daemon
  inbox,      \* packets on their way to the session
  connected,
  subs,       \* daemon: subscriptions of this connection
  emitted,    \* daemon: events sent
  yielded, drained,   \* events given to a caller, and thrown away for a closed one
  raised      \* an exception other than "unknown event" has reached a caller

fixed == <<PacketEvent, event>>
calls == <<pc, fixed, exited, failing>>
daemon == <<subs, emitted>>
history == <<yielded, drained, raised>>
vars == <<calls, outbox, inbox, connected, daemon, history>>

EventTypes == Known \cup Unknown

Waiting == {"registering", "receiving", "unregistering"}
Ended == {"refused", "done", "raised"}
Open == {g \in Calls : pc[g] \in Waiting \cup {"yielded"}}

\* A variant of Running for generators that run next to each other.
RunningNever == FALSE

\* A generator that runs keeps its thread to itself until it yields or ends.
Running == \E g \in Calls : pc[g] \in Waiting

Goto(g, l) == pc' = [pc EXCEPT ![g] = l]

-----------------------------------------------------------------------------

Init ==
  /\ PacketEvent \in {"EVENT", "NameError"}
  /\ pc = [g \in Calls |-> "new"]
  /\ event \in [Calls -> EventTypes]
  /\ exited = [g \in Calls |-> FALSE]
  /\ failing = [g \in Calls |-> FALSE]
  /\ outbox = <<>> /\ inbox = <<>>
  /\ connected = TRUE
  /\ subs = [e \in Known |-> 0]
  /\ emitted = 0
  /\ yielded = 0 /\ drained = 0
  /\ raised = FALSE

\* transport.send(), which raises once the connection is gone: the call then
\* ends at unsent instead of going on at sent.
Send(g, kind, sent, unsent) ==
  IF connected
  THEN /\ outbox' = Append(outbox, [kind |-> kind, event |-> event[g]])
       /\ Goto(g, sent)
       /\ UNCHANGED raised
  ELSE /\ Goto(g, unsent)
       /\ raised' = TRUE
       /\ UNCHANGED outbox

-----------------------------------------------------------------------------
(* The caller. *)

\* The first next(): the call subscribes to its event.
Start(g) ==
  /\ ~Running /\ pc[g] = "new"
  /\ Send(g, "REGISTER", "registering", "refused")
  /\ UNCHANGED <<fixed, exited, failing, inbox, connected, daemon, yielded, drained>>

\* A generator that was never started ends without a step of its own.
CloseNew(g) ==
  /\ ~Running /\ pc[g] = "new"
  /\ Goto(g, "done")
  /\ UNCHANGED <<fixed, exited, failing, outbox, inbox, connected, daemon, history>>

\* next() at a yield: the loop goes on.
Resume(g) ==
  /\ ~Running /\ pc[g] = "yielded"
  /\ Goto(g, "receiving")
  /\ UNCHANGED <<fixed, exited, failing, outbox, inbox, connected, daemon, history>>

\* A variant of Close that leaves the loop at once.
CloseLeaves(g) ==
  /\ ~Running /\ pc[g] = "yielded"
  /\ exited' = [exited EXCEPT ![g] = TRUE]
  /\ Send(g, "UNREGISTER", "unregistering", "raised")
  /\ UNCHANGED <<fixed, failing, inbox, connected, daemon, yielded, drained>>

\* close(), or the last reference dropped: GeneratorExit is caught at the yield
\* and the loop goes on without yielding.
Close(g) ==
  /\ ~Running /\ pc[g] = "yielded"
  /\ exited' = [exited EXCEPT ![g] = TRUE]
  /\ Goto(g, "receiving")
  /\ UNCHANGED <<fixed, failing, outbox, inbox, connected, daemon, history>>

-----------------------------------------------------------------------------
(* The generator, at each of its three receives. *)

\* The next packet, if it is of one of these types.
Take(types) ==
  /\ inbox # <<>> /\ Head(inbox) \in types
  /\ inbox' = Tail(inbox)

PacketTypes == {"EVENT", "EVENT_CONFIRM", "EVENT_UNKNOWN", "CMD_RESPONSE", "CMD_UNKNOWN"}

\* _register_unregister(True): confirmed, the command is sent; the try block
\* has begun, so a failing send leads to the unregistration, which fails, too.
Registered(g) ==
  /\ pc[g] = "registering"
  /\ Take({"EVENT_CONFIRM"})
  /\ Send(g, "REQUEST", "receiving", "raised")
  /\ UNCHANGED <<fixed, exited, failing, connected, daemon, yielded, drained>>

\* EventUnknownException, or SessionException on any other packet.
NotRegistered(g) ==
  /\ pc[g] = "registering"
  /\ Take(PacketTypes \ {"EVENT_CONFIRM"})
  /\ raised' = (raised \/ Head(inbox) # "EVENT_UNKNOWN")
  /\ Goto(g, "refused")
  /\ UNCHANGED <<fixed, exited, failing, outbox, connected, daemon, yielded, drained>>

\* An event is yielded, or dropped when nobody waits for it any more.
ReceiveEvent(g) ==
  /\ pc[g] = "receiving" /\ PacketEvent # "NameError"
  /\ Take({"EVENT"})
  /\ IF exited[g]
     THEN drained' = drained + 1 /\ UNCHANGED <<pc, yielded>>
     ELSE yielded' = yielded + 1 /\ Goto(g, "yielded") /\ UNCHANGED drained
  /\ UNCHANGED <<fixed, exited, failing, outbox, connected, daemon, raised>>

\* Variants of ReceiveAnswer: the loop goes on, or ends without the finally.
ReceiveAnswerAgain(g) ==
  /\ pc[g] = "receiving" /\ PacketEvent # "NameError"
  /\ Take(PacketTypes \ {"EVENT"})
  /\ UNCHANGED <<calls, outbox, connected, daemon, history>>
ReceiveAnswerLast(g) ==
  /\ pc[g] = "receiving" /\ PacketEvent # "NameError"
  /\ Take(PacketTypes \ {"EVENT"})
  /\ Goto(g, "done")
  /\ UNCHANGED <<fixed, exited, failing, outbox, connected, daemon, history>>

\* Any other packet ends the loop; finally: the event is unregistered.
ReceiveAnswer(g) ==
  /\ pc[g] = "receiving" /\ PacketEvent # "NameError"
  /\ Take(PacketTypes \ {"EVENT"})
  /\ Send(g, "UNREGISTER", "unregistering", "raised")
  /\ UNCHANGED <<fixed, exited, failing, connected, daemon, yielded, drained>>

\* The name is not found once a packet is there to be looked at; finally runs.
ReceiveUnnamed(g) ==
  /\ pc[g] = "receiving" /\ PacketEvent = "NameError"
  /\ Take(PacketTypes)
  /\ failing' = [failing EXCEPT ![g] = TRUE]
  /\ Send(g, "UNREGISTER", "unregistering", "raised")
  /\ UNCHANGED <<fixed, exited, connected, daemon, yielded, drained>>

\* _register_unregister(False) raises on anything but the confirmation; an
\* exception on its way goes on to the caller afterwards.
Unregistered(g) ==
  /\ pc[g] = "unregistering"
  /\ \E types \in {{"EVENT_CONFIRM"}, PacketTypes \ {"EVENT_CONFIRM"}} :
       /\ Take(types)
       /\ IF failing[g] \/ "EVENT_CONFIRM" \notin types
          THEN Goto(g, "raised") /\ raised' = TRUE
          ELSE Goto(g, "done") /\ UNCHANGED raised
  /\ UNCHANGED <<fixed, exited, failing, outbox, connected, daemon, yielded, drained>>

\* receive() on a connection that is gone raises; there is nothing to send the
\* unregistration on either.
ReceiveFails(g) ==
  /\ pc[g] \in Waiting
  /\ ~connected /\ inbox = <<>>
  /\ Goto(g, IF pc[g] = "registering" THEN "refused" ELSE "raised")
  /\ raised' = TRUE
  /\ UNCHANGED <<fixed, exited, failing, outbox, inbox, connected, daemon, yielded, drained>>

-----------------------------------------------------------------------------
(* The daemon (external). *)

Reply(type) ==
  /\ outbox' = Tail(outbox)
  /\ inbox' = Append(inbox, type)
  /\ UNCHANGED <<calls, connected, emitted, history>>

Pending(kind) == connected /\ outbox # <<>> /\ Head(outbox).kind = kind

DaemonRegister ==
  /\ Pending("REGISTER")
  /\ LET e == Head(outbox).event IN
       \/ e \in Known /\ subs' = [subs EXCEPT ![e] = @ + 1] /\ Reply("EVENT_CONFIRM")
       \/ e \notin Known /\ UNCHANGED subs /\ Reply("EVENT_UNKNOWN")

DaemonUnregister ==
  /\ Pending("UNREGISTER")
  /\ LET e == Head(outbox).event IN
       \/ /\ e \in Known /\ subs[e] > 0
          /\ subs' = [subs EXCEPT ![e] = @ - 1] /\ Reply("EVENT_CONFIRM")
       \/ /\ e \in Known => subs[e] = 0
          /\ UNCHANGED subs /\ Reply("EVENT_UNKNOWN")

DaemonRespond ==
  /\ Pending("REQUEST")
  /\ UNCHANGED subs
  /\ Reply("CMD_RESPONSE") \/ Reply("CMD_UNKNOWN")

DaemonEvent ==
  /\ connected /\ emitted < MaxEvents
  /\ \E e \in Known : subs[e] > 0
  /\ emitted' = emitted + 1
  /\ inbox' = Append(inbox, "EVENT")
  /\ UNCHANGED <<calls, outbox, connected, subs, history>>

\* The daemon goes away; what it has sent can still be read.
Disconnect ==
  /\ connected
  /\ connected' = FALSE
  /\ outbox' = <<>>
  /\ UNCHANGED <<calls, inbox, daemon, history>>

-----------------------------------------------------------------------------

streamed_request(g) ==
  \/ Registered(g) \/ NotRegistered(g)
  \/ ReceiveEvent(g) \/ ReceiveAnswer(g) \/ ReceiveUnnamed(g)
  \/ Unregistered(g) \/ ReceiveFails(g)

Caller(g) == Start(g) \/ CloseNew(g) \/ Resume(g) \/ Close(g)

Answer == DaemonRegister \/ DaemonUnregister \/ DaemonRespond

Next ==
  \/ \E g \in Calls : Caller(g) \/ streamed_request(g)
  \/ Answer \/ DaemonEvent \/ Disconnect

Spec == Init /\ [][Next]_vars

\* A generator that can go on does, and the daemon answers what it is sent.
FairSpec ==
  Spec /\ WF_vars(Answer) /\ \A g \in Calls : WF_vars(streamed_request(g))

-----------------------------------------------------------------------------

\* The shape of the state; only one generator runs at a time.
TypeOK ==
  /\ pc \in [Calls -> {"new", "yielded"} \cup Waiting \cup Ended]
  /\ Cardinality({g \in Calls : pc[g] \in Waiting}) <= 1
  /\ event \in [Calls -> EventTypes]
  /\ exited \in [Calls -> BOOLEAN] /\ failing \in [Calls -> BOOLEAN]
  /\ outbox \in Seq([kind : {"REGISTER", "UNREGISTER", "REQUEST"}, event : EventTypes])
  /\ inbox \in Seq(PacketTypes)
  /\ connected \in BOOLEAN /\ raised \in BOOLEAN
  /\ subs \in [Known -> 0 .. Cardinality(Calls)]
  /\ emitted \in 0 .. MaxEvents
  /\ yielded \in 0 .. MaxEvents /\ drained \in 0 .. MaxEvents

\* Answers the session has still to read.
InInbox(types) == Cardinality({i \in DOMAIN inbox : inbox[i] \in types})
Due == Len(outbox) + InInbox(PacketTypes \ {"EVENT"})

\* A generator never waits for an answer that is not coming: whatever packets
\* other generators on the connection, or events in the wrong place, have taken
\* from it, an answer is due for each that is open.
NeverWaitsInVain == connected => Due >= Cardinality(Open)

\* No exception is on its way to a caller or has got there.
NoException == ~raised /\ \A g \in Calls : ~failing[g]

\* Until an exception is raised the session is in step with the daemon: one
\* answer is due for each open generator and none is left over.
OneAnswerEach == connected /\ NoException => Due = Cardinality(Open)

\* Until an exception is raised no event is lost: each was yielded, is still to
\* be read, or came when the caller of its generator had closed that.
NothingLost == NoException => yielded + drained + InInbox({"EVENT"}) = emitted

\* Until an exception is raised the session and the daemon agree on what is
\* still to be read, answers and events.
InStep == OneAnswerEach /\ NothingLost

\* The finally clause ends every subscription: one that is left, with nothing
\* under way, is that of a call whose registration raised an exception.
LeakNeedsRefusal ==
  connected /\ outbox = <<>> /\ Open = {} =>
    \A e \in Known :
      subs[e] <= Cardinality({g \in Calls : pc[g] = "refused" /\ event[g] = e})

\* A caller that closes a generator gets control back.
CloseReturns == \A g \in Calls : exited[g] ~> pc[g] \in Ended

=============================================================================
