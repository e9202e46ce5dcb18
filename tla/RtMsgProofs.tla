---------------------------- MODULE RtMsgProofs ----------------------------
(***************************************************************************)
(* Theorems about RtMsg, for all values of its constants.                  *)
(***************************************************************************)
EXTENDS RtMsg, TLAPS, SequenceTheorems

-----------------------------------------------------------------------------
(* The inductive invariant, part by part. *)

Reported == {"ok", "ALREADY_DONE", "NOTFOUND", "UNKNOWN", "WRITE_FAILED"}
Decisions == {"none", "EBUSY", "refused", "ok", "EEXIST", "ESRCH"}
Decided == main = "asked" /\ decision \notin Transport!Undecided

\* The shape of the state without the bounds that need the other parts.
ControlOK ==
  /\ main \in {"start", "ready", "lookup", "asked", "exited"}
  /\ step \in 1 .. 6
  /\ ifindex \in {"none", "found", "absent", "nosocket"}
  /\ watcher \in {"call", "bind", "recv", "absent"}
  /\ phase \in {"idle", "open", "stopped"}
  /\ decision \in Decisions
  /\ socketfd \in BOOLEAN
CountsOK ==
  /\ eventfds \in 0 .. MaxFds
  /\ Used <= MaxFds
  /\ bound \subseteq 1 .. eventfds
  /\ emitted \in Nat
  /\ foreign \in 0 .. MaxForeign
  /\ spurious \in 0 .. MaxSpurious
DataOK ==
  /\ reports \in Seq([step : 1 .. 5, result : Reported])
  /\ queue \in [1 .. MaxFds -> Seq(1 .. emitted)]
  /\ handled \in Seq(1 .. emitted)

\* main() waits for a report exactly while a request is open, and the request
\* is the one of its step.
Lockstep ==
  /\ main = "asked" <=> phase # "idle"
  /\ main = "asked" => step <= 5 /\ request = Program[step]
  /\ main \in {"ready", "lookup", "asked"} => socketfd
  /\ main = "start" => ~socketfd
  /\ main = "lookup" => step = 5

\* The kernel announces at most one event for a request: its final decision.
OnePerRequest ==
  emitted <= foreign + (step - 1) + (IF Decided THEN 1 ELSE 0)

\* Only a subscribed socket holds events, each holds them in the order they
\* were sent, and what waits in the socket being read is newer than everything
\* dispatched before.
Increasing(s) == \A i, j \in DOMAIN s : i < j => s[i] < s[j]
QueuesInOrder ==
  /\ watcher = "bind" => eventfds \notin bound
  /\ watcher \in {"bind", "recv"} => eventfds \in 1 .. MaxFds
  /\ \A n \in 1 .. MaxFds : n \notin bound => queue[n] = <<>>
  /\ \A n \in 1 .. MaxFds : Increasing(queue[n])
  /\ Increasing(handled)
  /\ watcher = "recv" =>
       \A i \in DOMAIN handled, j \in DOMAIN queue[eventfds] :
         handled[i] < queue[eventfds][j]

\* Each socket left behind stands for an event or for a call without one.
SocketsAccountedFor ==
  /\ eventfds <= Len(handled) + spurious
                   + (IF watcher \in {"bind", "recv"} THEN 1 ELSE 0)
  /\ StarvedByWatcher

\* Between the decision and the report, and after the report, the object is
\* what the request left.
ReportsMatch ==
  /\ address \in installed <=>
       \/ step = 5 /\ main = "asked" /\ decision = "ok"
       \/ \E i \in DOMAIN reports : reports[i].step = 5 /\ reports[i].result = "ok"
  /\ step = 4 /\ main = "asked" /\ decision \in {"ok", "ESRCH"} => route \notin installed
  /\ \A i \in DOMAIN reports :
       /\ reports[i].step < step
       /\ reports[i].step = 4 /\ reports[i].result \in {"ok", "NOTFOUND"}
            => route \notin installed
       /\ reports[i].step = 5 => (reports[i].result = "ok" <=> address \in installed)

IInv == /\ ControlOK
        /\ CountsOK
        /\ DataOK
        /\ Lockstep
        /\ OnePerRequest
        /\ QueuesInOrder
        /\ SocketsAccountedFor
        /\ ReportsMatch

-----------------------------------------------------------------------------
(* Lemmas. *)

LEMMA ProgramIs ==
  /\ Len(Program) = 5
  /\ Program[1].kind = "dump" /\ Program[2].kind = "dump"
  /\ Program[3].kind = "replace" /\ Program[3].obj = route
  /\ Program[4].kind = "delete" /\ Program[4].obj = route
  /\ Program[5].kind = "replace" /\ Program[5].obj = address
BY DEF Program

\* The next event appended to events already sent keeps their order.
LEMMA AppendNewest ==
  ASSUME NEW m \in Nat, NEW s \in Seq(1 .. m), Increasing(s)
  PROVE  /\ Append(s, m + 1) \in Seq(1 .. m + 1)
         /\ Increasing(Append(s, m + 1))
         /\ DOMAIN Append(s, m + 1) = 1 .. Len(s) + 1
         /\ \A j \in DOMAIN Append(s, m + 1) :
              Append(s, m + 1)[j] = IF j <= Len(s) THEN s[j] ELSE m + 1
<1>1. s \in Seq(1 .. m + 1)
  BY ElementOfSeq, LenProperties
<1>2. /\ Append(s, m + 1) \in Seq(1 .. m + 1)
      /\ Len(Append(s, m + 1)) = Len(s) + 1
      /\ Append(s, m + 1)[Len(s) + 1] = m + 1
      /\ \A j \in 1 .. Len(s) : Append(s, m + 1)[j] = s[j]
  BY <1>1, AppendProperties, m + 1 \in 1 .. m + 1
<1>3. Len(s) \in Nat /\ DOMAIN s = 1 .. Len(s) /\ \A j \in 1 .. Len(s) : s[j] \in 1 .. m
  BY LenProperties, ElementOfSeq
<1>4. DOMAIN Append(s, m + 1) = 1 .. Len(s) + 1
  BY <1>2, LenProperties
<1>5. \A j \in 1 .. Len(s) + 1 :
        Append(s, m + 1)[j] = IF j <= Len(s) THEN s[j] ELSE m + 1
  BY <1>2, <1>3
<1>6. Increasing(Append(s, m + 1))
  BY <1>3, <1>4, <1>5 DEF Increasing
<1> QED  BY <1>2, <1>4, <1>5, <1>6

\* Reading one sequence while its head goes to the end of another one.
LEMMA TakeOldest ==
  ASSUME NEW S \in SUBSET Nat, NEW s \in Seq(S), NEW t \in Seq(S), s # <<>>,
         Increasing(s), Increasing(t),
         \A i \in DOMAIN t, j \in DOMAIN s : t[i] < s[j]
  PROVE  /\ Tail(s) \in Seq(S) /\ Increasing(Tail(s))
         /\ Append(t, Head(s)) \in Seq(S) /\ Increasing(Append(t, Head(s)))
         /\ Len(Append(t, Head(s))) = Len(t) + 1
<1>1. /\ Head(s) \in S /\ Head(s) = s[1] /\ 1 \in DOMAIN s
      /\ Tail(s) \in Seq(S) /\ Len(Tail(s)) = Len(s) - 1
      /\ DOMAIN Tail(s) = 1 .. Len(s) - 1 /\ DOMAIN s = 1 .. Len(s) /\ Len(s) \in Nat
      /\ \A j \in 1 .. Len(s) - 1 : Tail(s)[j] = s[j + 1]
  BY HeadTailProperties, LenProperties, EmptySeq
<1>2. /\ Append(t, Head(s)) \in Seq(S)
      /\ Len(Append(t, Head(s))) = Len(t) + 1
      /\ Append(t, Head(s))[Len(t) + 1] = Head(s)
      /\ \A j \in 1 .. Len(t) : Append(t, Head(s))[j] = t[j]
  BY <1>1, AppendProperties
<1>3. /\ Len(t) \in Nat /\ DOMAIN t = 1 .. Len(t)
      /\ DOMAIN Append(t, Head(s)) = 1 .. Len(t) + 1
  BY <1>2, LenProperties
<1>4. Increasing(Tail(s))
  BY <1>1 DEF Increasing
<1>5. Increasing(Append(t, Head(s)))
  BY <1>1, <1>2, <1>3 DEF Increasing
<1> QED  BY <1>1, <1>2, <1>4, <1>5

LEMMA InitIInv == Init => IInv
<1> SUFFICES ASSUME Init PROVE IInv
  OBVIOUS
<1> USE RtMsgAssumption
<1>1. ControlOK
  <2>1. socketfd \in BOOLEAN
    BY Zenon DEF Init
  <2> QED  BY <2>1 DEF Init, Transport!Init, ControlOK, Decisions
<1>2. CountsOK /\ DataOK
  BY EmptySeq DEF Init, CountsOK, DataOK, Used
<1>3. Lockstep /\ OnePerRequest
  BY DEF Init, Transport!Init, Lockstep, OnePerRequest, Decided
<1>4. QueuesInOrder
  BY EmptySeq DEF Init, QueuesInOrder, Increasing
<1>5. SocketsAccountedFor
  BY EmptySeq DEF Init, SocketsAccountedFor, StarvedByWatcher
<1>6. ReportsMatch
  BY EmptySeq DEF Init, Transport!Init, ReportsMatch
<1> QED  BY <1>1, <1>2, <1>3, <1>4, <1>5, <1>6 DEF IInv

\* An event sent to every subscribed socket keeps the queues in order.
LEMMA EmitKeepsOrder ==
  ASSUME CountsOK, DataOK, QueuesInOrder, Emit, UNCHANGED watcher
  PROVE  /\ QueuesInOrder'
         /\ emitted' = emitted + 1
         /\ queue' \in [1 .. MaxFds -> Seq(1 .. emitted')]
         /\ handled' \in Seq(1 .. emitted')
<1> USE RtMsgAssumption
<1>1. /\ emitted \in Nat /\ emitted' = emitted + 1
      /\ queue \in [1 .. MaxFds -> Seq(1 .. emitted)]
      /\ handled \in Seq(1 .. emitted) /\ handled' = handled
      /\ eventfds' = eventfds /\ bound' = bound
      /\ eventfds \in 0 .. MaxFds /\ bound \subseteq 1 .. eventfds
  BY DEF CountsOK, DataOK, Emit
<1>2. \A n \in 1 .. MaxFds :
        /\ queue'[n] = IF n \in bound THEN Append(queue[n], emitted + 1) ELSE queue[n]
        /\ queue[n] \in Seq(1 .. emitted) /\ Increasing(queue[n])
  BY <1>1 DEF Emit, QueuesInOrder
<1>3. handled' \in Seq(1 .. emitted')
  BY <1>1, ElementOfSeq, LenProperties
<1>4. \A n \in 1 .. MaxFds :
        queue'[n] \in Seq(1 .. emitted') /\ Increasing(queue'[n])
  <2> TAKE n \in 1 .. MaxFds
  <2>1. CASE n \in bound
    <3>1. /\ Append(queue[n], emitted + 1) \in Seq(1 .. emitted + 1)
          /\ Increasing(Append(queue[n], emitted + 1))
      BY <1>1, <1>2, AppendNewest
    <3> QED  BY <3>1, <2>1, <1>1, <1>2
  <2>2. CASE n \notin bound
    BY <2>2, <1>1, <1>2, ElementOfSeq, LenProperties
  <2> QED  BY <2>1, <2>2
<1>5. queue' \in [1 .. MaxFds -> Seq(1 .. emitted')]
  BY <1>1, <1>4 DEF Emit
<1>6. \A n \in 1 .. MaxFds : n \notin bound => queue'[n] = <<>>
  BY <1>2 DEF QueuesInOrder
<1>7. ASSUME watcher = "recv",
             NEW i \in DOMAIN handled, NEW j \in DOMAIN queue'[eventfds]
      PROVE  handled[i] < queue'[eventfds][j]
  <2>1. eventfds \in 1 .. MaxFds
    BY <1>7 DEF QueuesInOrder
  <2>2. handled[i] \in 1 .. emitted
    BY <1>1, <1>7, ElementOfSeq, LenProperties
  <2>3. CASE eventfds \in bound
    <3>1. queue'[eventfds] = Append(queue[eventfds], emitted + 1)
      BY <2>1, <2>3, <1>2
    <3>2. /\ DOMAIN queue'[eventfds] = 1 .. Len(queue[eventfds]) + 1
          /\ queue'[eventfds][j] = IF j <= Len(queue[eventfds])
                                     THEN queue[eventfds][j] ELSE emitted + 1
      BY <3>1, <2>1, <1>1, <1>2, <1>7, AppendNewest
    <3>3. Len(queue[eventfds]) \in Nat /\ DOMAIN queue[eventfds] = 1 .. Len(queue[eventfds])
      BY <2>1, <1>2, LenProperties
    <3>4. CASE j \in DOMAIN queue[eventfds]
      BY <3>2, <3>3, <3>4, <1>7 DEF QueuesInOrder
    <3>5. CASE j \notin DOMAIN queue[eventfds]
      BY <3>2, <3>3, <3>5, <2>2, <1>1, <1>7
    <3> QED  BY <3>4, <3>5
  <2>4. CASE eventfds \notin bound
    BY <2>1, <2>4, <1>2, <1>7 DEF QueuesInOrder
  <2> QED  BY <2>3, <2>4
<1>8. QueuesInOrder'
  BY <1>1, <1>4, <1>6, <1>7 DEF QueuesInOrder
<1> QED  BY <1>1, <1>3, <1>5, <1>8

\* What a report says of the decision, and where it is written down.
LEMMA ToldSays ==
  ASSUME ControlOK, DataOK, Lockstep, Told
  PROVE  /\ step \in 1 .. 5 /\ step' \in 2 .. 6 /\ step' > step
         /\ result' \in Reported
         /\ step = 4 /\ result' \in {"ok", "NOTFOUND"} => decision \in {"ok", "ESRCH"}
         /\ step = 5 => (result' = "ok" <=> decision = "ok")
         /\ reports' \in Seq([step : 1 .. 5, result : Reported])
         /\ DOMAIN reports = 1 .. Len(reports) /\ DOMAIN reports' = 1 .. Len(reports) + 1
         /\ Len(reports) \in Nat
         /\ reports'[Len(reports) + 1] = [step |-> step, result |-> result']
         /\ \A i \in DOMAIN reports : reports'[i] = reports[i]
<1>1. step \in 1 .. 5 /\ request = Program[step]
  BY ProgramIs DEF Told, ControlOK, Lockstep
<1>2. step' \in 2 .. 6 /\ step' > step
  BY <1>1 DEF Told
<1>3. result' \in Reported
  BY DEF Told, Transport!Return, Transport!GiveUp, Reported
<1>4. /\ step = 4 => request.kind = "delete"
      /\ step = 5 => request.kind = "replace"
  BY <1>1, ProgramIs
<1>5. /\ step = 4 /\ result' \in {"ok", "NOTFOUND"} => decision \in {"ok", "ESRCH"}
      /\ step = 5 => (result' = "ok" <=> decision = "ok")
  BY <1>4 DEF Told, Transport!Return, Transport!GiveUp, Transport!Undecided
<1> DEFINE r == [step |-> step, result |-> result']
<1>6. r \in [step : 1 .. 5, result : Reported]
  BY <1>1, <1>3
<1> HIDE DEF r
<1>7. /\ Append(reports, r) \in Seq([step : 1 .. 5, result : Reported])
      /\ Len(Append(reports, r)) = Len(reports) + 1
      /\ Append(reports, r)[Len(reports) + 1] = r
      /\ \A i \in 1 .. Len(reports) : Append(reports, r)[i] = reports[i]
  BY <1>6, AppendProperties DEF DataOK
<1>8. reports' = Append(reports, r)
  BY DEF Told, r
<1>9. /\ Len(reports) \in Nat /\ DOMAIN reports = 1 .. Len(reports)
      /\ DOMAIN reports' = 1 .. Len(reports) + 1
  BY <1>7, <1>8, LenProperties DEF DataOK
<1>10. reports'[Len(reports) + 1] = [step |-> step, result |-> result']
  BY <1>7, <1>8 DEF r
<1> QED  BY <1>1, <1>2, <1>3, <1>5, <1>7, <1>8, <1>9, <1>10

LEMMA NextIInv == IInv /\ [Next]_vars => IInv'
<1> SUFFICES ASSUME IInv, [Next]_vars PROVE IInv'
  OBVIOUS
<1> USE RtMsgAssumption, ProgramIs DEF IInv
<1>1. CASE OpenRequestSocket
  <2>1. ControlOK'
    BY <1>1 DEF OpenRequestSocket, events, transport, Alive, FreeFd, ControlOK, Decisions
  <2>2. CountsOK'
    BY <1>1 DEF OpenRequestSocket, events, transport, Alive, FreeFd, CountsOK, ControlOK,
       Used
  <2>3. DataOK'
    BY <1>1 DEF OpenRequestSocket, events, transport, Alive, FreeFd, DataOK
  <2>4. Lockstep'
    BY <1>1 DEF OpenRequestSocket, events, transport, Alive, FreeFd, Lockstep, ControlOK
  <2>5. OnePerRequest'
    BY <1>1 DEF OpenRequestSocket, events, transport, Alive, FreeFd, OnePerRequest, Decided,
       ControlOK, CountsOK, Transport!Undecided
  <2>6. QueuesInOrder'
    BY <1>1 DEF OpenRequestSocket, events, transport, Alive, FreeFd, QueuesInOrder
  <2>7. SocketsAccountedFor'
    BY <1>1 DEF OpenRequestSocket, events, transport, Alive, FreeFd, SocketsAccountedFor,
       CountsOK, StarvedByWatcher
  <2>8. ReportsMatch'
    BY <1>1 DEF OpenRequestSocket, events, transport, Alive, FreeFd, ReportsMatch,
       ControlOK, Lockstep
  <2> QED
    BY <2>1, <2>2, <2>3, <2>4, <2>5, <2>6, <2>7, <2>8 DEF IInv
<1>2. CASE LookupOpens
  <2>1. ControlOK'
    BY <1>2 DEF LookupOpens, events, transport, Alive, FreeFd, NeedsIndex, ControlOK,
       Decisions
  <2>2. CountsOK'
    BY <1>2 DEF LookupOpens, events, transport, Alive, FreeFd, NeedsIndex, CountsOK,
       ControlOK, Used
  <2>3. DataOK'
    BY <1>2 DEF LookupOpens, events, transport, Alive, FreeFd, NeedsIndex, DataOK
  <2>4. Lockstep'
    BY <1>2 DEF LookupOpens, events, transport, Alive, FreeFd, NeedsIndex, Lockstep,
       ControlOK
  <2>5. OnePerRequest'
    BY <1>2 DEF LookupOpens, events, transport, Alive, FreeFd, NeedsIndex, OnePerRequest,
       Decided, ControlOK, CountsOK, Transport!Undecided
  <2>6. QueuesInOrder'
    BY <1>2 DEF LookupOpens, events, transport, Alive, FreeFd, NeedsIndex, QueuesInOrder
  <2>7. SocketsAccountedFor'
    <3>1. UNCHANGED <<eventfds, handled, spurious, watcher>>
      BY <1>2 DEF LookupOpens, events
    <3>2. ifindex' = ifindex \/ (~FreeFd /\ main = "ready")
      BY <1>2 DEF LookupOpens
    <3>3. CASE ifindex' = ifindex
      BY <3>1, <3>3 DEF SocketsAccountedFor, StarvedByWatcher
    <3>4. CASE ~FreeFd /\ main = "ready"
      <4>1. eventfds \in Nat /\ MaxFds \in Nat /\ Len(handled) \in Nat /\ spurious \in Nat
        BY LenProperties DEF CountsOK, DataOK
      <4>2. eventfds + 1 >= MaxFds
        BY <3>4, <4>1 DEF FreeFd, Used
      <4> QED  BY <3>1, <4>1, <4>2 DEF SocketsAccountedFor, StarvedByWatcher
    <3> QED  BY <3>2, <3>3, <3>4
  <2>8. ReportsMatch'
    BY <1>2 DEF LookupOpens, events, transport, Alive, FreeFd, NeedsIndex, ReportsMatch,
       ControlOK, Lockstep
  <2> QED
    BY <2>1, <2>2, <2>3, <2>4, <2>5, <2>6, <2>7, <2>8 DEF IInv
<1>3. CASE LookupDone
  <2>1. ControlOK'
    BY <1>3 DEF LookupDone, events, transport, Alive, ControlOK, Decisions
  <2>2. CountsOK'
    BY <1>3 DEF LookupDone, events, transport, Alive, CountsOK, ControlOK, Used
  <2>3. DataOK'
    BY <1>3 DEF LookupDone, events, transport, Alive, DataOK
  <2>4. Lockstep'
    BY <1>3 DEF LookupDone, events, transport, Alive, Lockstep, ControlOK
  <2>5. OnePerRequest'
    BY <1>3 DEF LookupDone, events, transport, Alive, OnePerRequest, Decided, ControlOK,
       CountsOK, Transport!Undecided
  <2>6. QueuesInOrder'
    BY <1>3 DEF LookupDone, events, transport, Alive, QueuesInOrder
  <2>7. SocketsAccountedFor'
    BY <1>3 DEF LookupDone, events, transport, Alive, SocketsAccountedFor, CountsOK,
       StarvedByWatcher
  <2>8. ReportsMatch'
    BY <1>3 DEF LookupDone, events, transport, Alive, ReportsMatch, ControlOK, Lockstep
  <2> QED
    BY <2>1, <2>2, <2>3, <2>4, <2>5, <2>6, <2>7, <2>8 DEF IInv
<1>4. CASE Ask
  <2>1. ControlOK'
    BY <1>4 DEF Ask, events, transport, Alive, NeedsIndex, Transport!Begin, ControlOK,
       Decisions
  <2>2. CountsOK'
    BY <1>4 DEF Ask, events, transport, Alive, NeedsIndex, Transport!Begin, CountsOK,
       ControlOK, Used
  <2>3. DataOK'
    BY <1>4 DEF Ask, events, transport, Alive, NeedsIndex, Transport!Begin, DataOK
  <2>4. Lockstep'
    BY <1>4 DEF Ask, events, transport, Alive, NeedsIndex, Transport!Begin, Lockstep,
       ControlOK
  <2>5. OnePerRequest'
    BY <1>4 DEF Ask, events, transport, Alive, NeedsIndex, Transport!Begin, OnePerRequest,
       Decided, ControlOK, CountsOK, Transport!Undecided
  <2>6. QueuesInOrder'
    BY <1>4 DEF Ask, events, transport, Alive, NeedsIndex, Transport!Begin, QueuesInOrder
  <2>7. SocketsAccountedFor'
    BY <1>4 DEF Ask, events, transport, Alive, NeedsIndex, Transport!Begin,
       SocketsAccountedFor, CountsOK, StarvedByWatcher
  <2>8. ReportsMatch'
    BY <1>4 DEF Ask, events, transport, Alive, NeedsIndex, Transport!Begin, ReportsMatch,
       ControlOK, Lockstep
  <2> QED
    BY <2>1, <2>2, <2>3, <2>4, <2>5, <2>6, <2>7, <2>8 DEF IInv
<1>5. CASE Told
  <2> USE ToldSays
  <2>1. ControlOK'
    <3>1. step' \in 1 .. 6 /\ main' = "ready" /\ phase' = "idle"
      BY <1>5 DEF Told, Transport!Return, Transport!GiveUp
    <3> QED  BY <1>5, <3>1 DEF Told, Transport!Return, Transport!GiveUp, events, ControlOK
  <2>2. CountsOK'
    BY <1>5 DEF Told, events, transport, Alive, Transport!Return, Transport!GiveUp,
       Transport!Undecided, CountsOK, ControlOK, Used
  <2>3. DataOK'
    BY <1>5 DEF Told, events, DataOK
  <2>4. Lockstep'
    BY <1>5 DEF Told, events, transport, Alive, Transport!Return, Transport!GiveUp,
       Transport!Undecided, Lockstep, ControlOK
  <2>5. OnePerRequest'
    BY <1>5 DEF Told, events, OnePerRequest, ControlOK, CountsOK, Decided, Lockstep
  <2>6. QueuesInOrder'
    BY <1>5 DEF Told, events, transport, Alive, Transport!Return, Transport!GiveUp,
       Transport!Undecided, QueuesInOrder
  <2>7. SocketsAccountedFor'
    BY <1>5 DEF Told, events, transport, Alive, Transport!Return, Transport!GiveUp,
       Transport!Undecided, SocketsAccountedFor, CountsOK, StarvedByWatcher
  <2>8. ReportsMatch'
    <3>1. installed' = installed /\ main' = "ready"
      BY <1>5 DEF Told, Transport!Return, Transport!GiveUp
    <3>2. main = "asked" /\ step \in 1 .. 6
      BY <1>5 DEF Told, ControlOK
    <3>3. \A i \in DOMAIN reports' :
            \/ i \in DOMAIN reports /\ reports'[i] = reports[i]
            \/ /\ i = Len(reports) + 1
               /\ reports'[i].step = step /\ reports'[i].result = result'
      BY <1>5
    <3>4. \A i \in DOMAIN reports : i \in DOMAIN reports' /\ reports'[i] = reports[i]
      BY <1>5
    <3>5. /\ Len(reports) + 1 \in DOMAIN reports'
          /\ reports'[Len(reports) + 1].step = step
          /\ reports'[Len(reports) + 1].result = result'
      BY <1>5
    <3>6. ASSUME NEW i \in DOMAIN reports' PROVE reports'[i].step < step'
      <4>1. \A k \in 1 .. Len(reports) : reports[k] \in [step : 1 .. 5, result : Reported]
        BY ElementOfSeq DEF DataOK
      <4>2. \A k \in DOMAIN reports : reports[k].step \in 1 .. 5
        BY <4>1, <1>5
      <4>3. \A k \in DOMAIN reports : reports[k].step < step
        BY DEF ReportsMatch
      <4>4. step < step' /\ step' \in 2 .. 6
        BY <1>5
      <4>5. CASE i \in DOMAIN reports /\ reports'[i] = reports[i]
        <5>1. reports[i].step \in 1 .. 5 /\ reports[i].step < step
          BY <4>2, <4>3, <4>5
        <5> QED  BY <4>4, <4>5, <5>1, <3>2
      <4>6. CASE reports'[i].step = step
        BY <4>4, <4>6
      <4> QED  BY <4>5, <4>6, <3>3
    <3>7. address \in installed <=>
            \E i \in DOMAIN reports' : reports'[i].step = 5 /\ reports'[i].result = "ok"
      BY <3>2, <3>3, <3>4, <3>5, <1>5 DEF ReportsMatch
    <3>8. ASSUME NEW i \in DOMAIN reports', reports'[i].step = 4,
                 reports'[i].result \in {"ok", "NOTFOUND"}
          PROVE  route \notin installed
      BY <3>2, <3>3, <3>8, <1>5 DEF ReportsMatch
    <3>9. ASSUME NEW i \in DOMAIN reports', reports'[i].step = 5
          PROVE  reports'[i].result = "ok" <=> address \in installed
      BY <3>2, <3>3, <3>9, <1>5 DEF ReportsMatch
    <3> QED  BY <3>1, <3>6, <3>7, <3>8, <3>9, <1>5 DEF ReportsMatch
  <2> QED
    BY <2>1, <2>2, <2>3, <2>4, <2>5, <2>6, <2>7, <2>8 DEF IInv
<1>6. CASE Abort
  <2>1. ControlOK'
    BY <1>6 DEF Abort, events, transport, Alive, Transport!Stop, Transport!Undecided,
       ControlOK, Decisions
  <2>2. CountsOK'
    BY <1>6 DEF Abort, events, transport, Alive, Transport!Stop, Transport!Undecided,
       CountsOK, ControlOK, Used
  <2>3. DataOK'
    BY <1>6 DEF Abort, events, transport, Alive, Transport!Stop, Transport!Undecided, DataOK
  <2>4. Lockstep'
    BY <1>6 DEF Abort, events, transport, Alive, Transport!Stop, Transport!Undecided,
       Lockstep, ControlOK
  <2>5. OnePerRequest'
    BY <1>6 DEF Abort, events, transport, Alive, Transport!Stop, Transport!Undecided,
       OnePerRequest, Decided, ControlOK, CountsOK
  <2>6. QueuesInOrder'
    BY <1>6 DEF Abort, events, transport, Alive, Transport!Stop, Transport!Undecided,
       QueuesInOrder
  <2>7. SocketsAccountedFor'
    BY <1>6 DEF Abort, events, transport, Alive, Transport!Stop, Transport!Undecided,
       SocketsAccountedFor, CountsOK, StarvedByWatcher
  <2>8. ReportsMatch'
    BY <1>6 DEF Abort, events, transport, Alive, Transport!Stop, Transport!Undecided,
       ReportsMatch, ControlOK, Lockstep
  <2> QED
    BY <2>1, <2>2, <2>3, <2>4, <2>5, <2>6, <2>7, <2>8 DEF IInv
<1>7. CASE Exit
  <2>1. ControlOK'
    BY <1>7 DEF Exit, events, transport, Alive, ControlOK, Decisions
  <2>2. CountsOK'
    BY <1>7 DEF Exit, events, transport, Alive, CountsOK, ControlOK, Used
  <2>3. DataOK'
    BY <1>7 DEF Exit, events, transport, Alive, DataOK
  <2>4. Lockstep'
    BY <1>7 DEF Exit, events, transport, Alive, Lockstep, ControlOK
  <2>5. OnePerRequest'
    BY <1>7 DEF Exit, events, transport, Alive, OnePerRequest, Decided, ControlOK, CountsOK,
       Transport!Undecided
  <2>6. QueuesInOrder'
    BY <1>7 DEF Exit, events, transport, Alive, QueuesInOrder
  <2>7. SocketsAccountedFor'
    BY <1>7 DEF Exit, events, transport, Alive, SocketsAccountedFor, CountsOK,
       StarvedByWatcher
  <2>8. ReportsMatch'
    BY <1>7 DEF Exit, events, transport, Alive, ReportsMatch, ControlOK, Lockstep
  <2> QED
    BY <2>1, <2>2, <2>3, <2>4, <2>5, <2>6, <2>7, <2>8 DEF IInv
<1>8. CASE OpenEventSocket
  <2>1. ControlOK'
    BY <1>8 DEF OpenEventSocket, events, transport, Alive, FreeFd, ControlOK, Decisions
  <2>2. CountsOK'
    BY <1>8 DEF OpenEventSocket, events, transport, Alive, FreeFd, CountsOK, ControlOK, Used
  <2>3. DataOK'
    BY <1>8 DEF OpenEventSocket, events, transport, Alive, FreeFd, DataOK
  <2>4. Lockstep'
    BY <1>8 DEF OpenEventSocket, events, transport, Alive, FreeFd, Lockstep, ControlOK
  <2>5. OnePerRequest'
    BY <1>8 DEF OpenEventSocket, events, transport, Alive, FreeFd, OnePerRequest, Decided,
       ControlOK, CountsOK, Transport!Undecided
  <2>6. QueuesInOrder'
    <3>1. \/ /\ eventfds' \notin bound
             /\ watcher' = "bind" /\ eventfds' \in 1 .. MaxFds
          \/ watcher' = watcher /\ eventfds' = eventfds
      <4>1. CASE FreeFd /\ eventfds' = eventfds + 1 /\ watcher' = "bind"
        <5>1. eventfds + 1 <= MaxFds
          BY <4>1 DEF FreeFd, Used, CountsOK
        <5> QED  BY <4>1, <5>1 DEF CountsOK
      <4> QED  BY <1>8, <4>1 DEF OpenEventSocket
    <3>2. watcher = "call" /\ UNCHANGED <<bound, queue, handled>>
      BY <1>8 DEF OpenEventSocket
    <3> QED  BY <3>1, <3>2 DEF QueuesInOrder
  <2>7. SocketsAccountedFor'
    BY <1>8 DEF OpenEventSocket, events, transport, Alive, FreeFd, SocketsAccountedFor,
       CountsOK, StarvedByWatcher
  <2>8. ReportsMatch'
    BY <1>8 DEF OpenEventSocket, events, transport, Alive, FreeFd, ReportsMatch, ControlOK,
       Lockstep
  <2> QED
    BY <2>1, <2>2, <2>3, <2>4, <2>5, <2>6, <2>7, <2>8 DEF IInv
<1>9. CASE BindEventSocket
  <2>1. ControlOK'
    BY <1>9 DEF BindEventSocket, events, transport, Alive, ControlOK, Decisions
  <2>2. CountsOK'
    <3>1. eventfds \in 1 .. MaxFds
      BY <1>9 DEF BindEventSocket, QueuesInOrder
    <3>2. Used' = Used
      BY <1>9 DEF BindEventSocket, Used
    <3>3. bound' \subseteq 1 .. eventfds' /\ eventfds' = eventfds /\ emitted' = emitted
      <4>1. bound \subseteq 1 .. eventfds /\ eventfds \in 1 .. eventfds
        BY <3>1 DEF CountsOK
      <4>2. bound' \subseteq bound \cup {eventfds}
        BY <1>9 DEF BindEventSocket
      <4> QED  BY <1>9, <4>1, <4>2 DEF BindEventSocket
    <3>4. spurious' \in 0 .. MaxSpurious /\ foreign' = foreign
      BY <1>9 DEF BindEventSocket, CountsOK
    <3> QED  BY <3>2, <3>3, <3>4 DEF CountsOK
  <2>3. DataOK'
    BY <1>9 DEF BindEventSocket, events, transport, Alive, DataOK
  <2>4. Lockstep'
    BY <1>9 DEF BindEventSocket, events, transport, Alive, Lockstep, ControlOK
  <2>5. OnePerRequest'
    BY <1>9 DEF BindEventSocket, events, transport, Alive, OnePerRequest, Decided,
       ControlOK, CountsOK, Transport!Undecided
  <2>6. QueuesInOrder'
    BY <1>9 DEF BindEventSocket, events, transport, Alive, QueuesInOrder
  <2>7. SocketsAccountedFor'
    BY <1>9 DEF BindEventSocket, events, transport, Alive, SocketsAccountedFor, CountsOK,
       StarvedByWatcher
  <2>8. ReportsMatch'
    BY <1>9 DEF BindEventSocket, events, transport, Alive, ReportsMatch, ControlOK, Lockstep
  <2> QED
    BY <2>1, <2>2, <2>3, <2>4, <2>5, <2>6, <2>7, <2>8 DEF IInv
<1>10. CASE HandleEvent
  <2> DEFINE q == queue[eventfds]
  <2>a. /\ eventfds \in 1 .. MaxFds /\ emitted \in Nat
        /\ q \in Seq(1 .. emitted) /\ handled \in Seq(1 .. emitted)
        /\ q # <<>> /\ Increasing(q) /\ Increasing(handled)
        /\ \A i \in DOMAIN handled, j \in DOMAIN q : handled[i] < q[j]
        /\ handled' = Append(handled, Head(q))
        /\ queue' = [queue EXCEPT ![eventfds] = Tail(q)]
    BY <1>10 DEF HandleEvent, QueuesInOrder, CountsOK, DataOK
  <2> HIDE DEF q
  <2>b. /\ Tail(q) \in Seq(1 .. emitted) /\ Increasing(Tail(q))
        /\ handled' \in Seq(1 .. emitted) /\ Increasing(handled')
        /\ Len(handled') = Len(handled) + 1
    <3>1. (1 .. emitted) \in SUBSET Nat
      BY <2>a
    <3> QED  BY <2>a, <3>1, TakeOldest
  <2>1. ControlOK'
    BY <1>10 DEF HandleEvent, events, transport, Alive, ControlOK, Decisions
  <2>2. CountsOK'
    BY <1>10 DEF HandleEvent, events, transport, Alive, CountsOK, ControlOK, Used
  <2>3. DataOK'
    BY <1>10, <2>a, <2>b DEF HandleEvent, DataOK
  <2>4. Lockstep'
    BY <1>10 DEF HandleEvent, events, transport, Alive, Lockstep, ControlOK
  <2>5. OnePerRequest'
    BY <1>10 DEF HandleEvent, events, transport, Alive, OnePerRequest, Decided, ControlOK,
       CountsOK, Transport!Undecided
  <2>6. QueuesInOrder'
    <3>1. /\ eventfds' = eventfds /\ bound' = bound /\ watcher' = "call"
          /\ queue \in [1 .. MaxFds -> Seq(1 .. emitted)]
      BY <1>10 DEF HandleEvent, DataOK
    <3>2. \A n \in 1 .. MaxFds : n # eventfds => queue'[n] = queue[n]
      BY <3>1, <2>a
    <3>3. queue'[eventfds] = Tail(q)
      BY <3>1, <2>a
    <3>4. eventfds \in bound
      BY <2>a DEF QueuesInOrder, q
    <3> QED  BY <3>1, <3>2, <3>3, <3>4, <2>a, <2>b DEF QueuesInOrder
  <2>7. SocketsAccountedFor'
    BY <1>10, <2>b DEF HandleEvent, SocketsAccountedFor, CountsOK, DataOK, StarvedByWatcher
  <2>8. ReportsMatch'
    BY <1>10 DEF HandleEvent, events, transport, Alive, ReportsMatch, ControlOK, Lockstep
  <2> QED
    BY <2>1, <2>2, <2>3, <2>4, <2>5, <2>6, <2>7, <2>8 DEF IInv
<1>11. CASE ReceiveNothing
  <2>1. ControlOK'
    BY <1>11 DEF ReceiveNothing, events, transport, Alive, ControlOK, Decisions
  <2>2. CountsOK'
    BY <1>11 DEF ReceiveNothing, events, transport, Alive, CountsOK, ControlOK, Used
  <2>3. DataOK'
    BY <1>11 DEF ReceiveNothing, events, transport, Alive, DataOK
  <2>4. Lockstep'
    BY <1>11 DEF ReceiveNothing, events, transport, Alive, Lockstep, ControlOK
  <2>5. OnePerRequest'
    BY <1>11 DEF ReceiveNothing, events, transport, Alive, OnePerRequest, Decided,
       ControlOK, CountsOK, Transport!Undecided
  <2>6. QueuesInOrder'
    BY <1>11 DEF ReceiveNothing, events, transport, Alive, QueuesInOrder
  <2>7. SocketsAccountedFor'
    BY <1>11 DEF ReceiveNothing, events, transport, Alive, SocketsAccountedFor, CountsOK,
       StarvedByWatcher
  <2>8. ReportsMatch'
    BY <1>11 DEF ReceiveNothing, events, transport, Alive, ReportsMatch, ControlOK, Lockstep
  <2> QED
    BY <2>1, <2>2, <2>3, <2>4, <2>5, <2>6, <2>7, <2>8 DEF IInv
<1>12. CASE Decide
  <2>a. \/ UNCHANGED events
        \/ Emit /\ decision' = "ok"
    BY <1>12 DEF Decide, Transport!CarryOut
  <2>b. UNCHANGED <<main, step, reports, ifindex, socketfd, watcher, foreign, spurious,
                    phase>>
    BY <1>12 DEF Decide, Transport!CarryOut
  <2>c. decision \in Transport!Undecided /\ decision' \in Decisions
    BY <1>12 DEF Decide, Transport!CarryOut, Decisions
  <2>1. ControlOK'
    BY <2>b, <2>c DEF ControlOK
  <2>2. CountsOK'
    BY <2>a, <2>b DEF events, Emit, CountsOK, Used
  <2>3. DataOK'
    BY <2>a, <2>b, EmitKeepsOrder DEF events, DataOK
  <2>4. Lockstep'
    BY <1>12 DEF Decide, events, transport, Alive, Transport!CarryOut, Transport!Undecided,
       Lockstep, ControlOK
  <2>5. OnePerRequest'
    <3>1. main = "asked" /\ ~Decided
      BY <1>12, <2>c DEF Decide, Decided
    <3>2. CASE UNCHANGED events
      BY <3>1, <3>2, <2>b DEF events, OnePerRequest, ControlOK, CountsOK
    <3>3. CASE Emit /\ decision' = "ok"
      <4>1. Decided'
        BY <3>1, <3>3, <2>b DEF Decided, Transport!Undecided
      <4> QED  BY <3>1, <3>3, <4>1, <2>b DEF Emit, OnePerRequest, ControlOK, CountsOK
    <3> QED  BY <2>a, <3>2, <3>3
  <2>6. QueuesInOrder'
    <3>1. CASE UNCHANGED events
      BY <3>1, <2>b DEF events, QueuesInOrder
    <3>2. CASE Emit
      BY <3>2, <2>b, EmitKeepsOrder
    <3> QED  BY <2>a, <3>1, <3>2
  <2>7. SocketsAccountedFor'
    BY <2>a, <2>b DEF events, Emit, SocketsAccountedFor, StarvedByWatcher
  <2>8. ReportsMatch'
    BY <1>12 DEF Decide, events, transport, Alive, Transport!CarryOut, Transport!Undecided,
       ReportsMatch, ControlOK, Lockstep
  <2> QED
    BY <2>1, <2>2, <2>3, <2>4, <2>5, <2>6, <2>7, <2>8 DEF IInv
<1>13. CASE ForeignChange
  <2>1. ControlOK'
    BY <1>13 DEF ForeignChange, events, transport, Alive, Emit, ControlOK, Decisions
  <2>2. CountsOK'
    BY <1>13 DEF ForeignChange, events, transport, Alive, Emit, CountsOK, ControlOK, Used
  <2>3. DataOK'
    BY <1>13, EmitKeepsOrder DEF ForeignChange, DataOK
  <2>4. Lockstep'
    BY <1>13 DEF ForeignChange, events, transport, Alive, Emit, Lockstep, ControlOK
  <2>5. OnePerRequest'
    BY <1>13 DEF ForeignChange, events, transport, Alive, Emit, OnePerRequest, Decided,
       ControlOK, CountsOK, Transport!Undecided
  <2>6. QueuesInOrder'
    BY <1>13, EmitKeepsOrder DEF ForeignChange
  <2>7. SocketsAccountedFor'
    BY <1>13 DEF ForeignChange, events, transport, Alive, Emit, SocketsAccountedFor,
       CountsOK, StarvedByWatcher
  <2>8. ReportsMatch'
    BY <1>13 DEF ForeignChange, events, transport, Alive, Emit, ReportsMatch, ControlOK,
       Lockstep
  <2> QED
    BY <2>1, <2>2, <2>3, <2>4, <2>5, <2>6, <2>7, <2>8 DEF IInv
<1>14. CASE UNCHANGED vars
  <2> USE <1>14 DEF vars, events, transport
  <2>1. ControlOK' /\ CountsOK' /\ DataOK'
    BY DEF ControlOK, CountsOK, DataOK, Used
  <2>2. Lockstep' /\ OnePerRequest'
    BY DEF Lockstep, OnePerRequest, Decided, Transport!Undecided
  <2>3. QueuesInOrder' /\ SocketsAccountedFor' /\ ReportsMatch'
    BY DEF QueuesInOrder, SocketsAccountedFor, StarvedByWatcher, ReportsMatch
  <2> QED  BY <2>1, <2>2, <2>3
<1> QED
  BY <1>1, <1>2, <1>3, <1>4, <1>5, <1>6, <1>7, <1>8, <1>9, <1>10, <1>11, <1>12, <1>13,
     <1>14 DEF Next, Main, Watcher

LEMMA AlwaysIInv == Spec => []IInv
BY InitIInv, NextIInv, PTL DEF Spec

-----------------------------------------------------------------------------
(* Theorems. *)

\* What the variables range over; in particular the sockets of both threads
\* together never exceed the descriptor table, and the kernel announces no
\* more events than there are requests and changes by others.
THEOREM TypeCorrect == Spec => []TypeOK
<1>1. IInv => TypeOK
  <2> SUFFICES ASSUME IInv PROVE TypeOK
    OBVIOUS
  <2> USE RtMsgAssumption, ProgramIs DEF IInv
  <2>1. emitted \in 0 .. Len(Program) + MaxForeign
    BY DEF OnePerRequest, ControlOK, CountsOK, Decided, Lockstep
  <2>2. reports \in Seq([step : 1 .. Len(Program),
                        result : {"ok", "ALREADY_DONE", "NOTFOUND", "UNKNOWN", "WRITE_FAILED"}])
    BY DEF DataOK, Reported
  <2> QED  BY <2>1, <2>2 DEF TypeOK, ControlOK, CountsOK, DataOK
<1> QED  BY <1>1, AlwaysIInv, PTL

\* receive_events() moves to another socket after every event although each
\* event waits in all the sockets opened so far: still none is dispatched
\* twice, and none after a later one.
THEOREM EventsHandledInOrder == Spec => []HandledInOrder
<1>1. IInv => HandledInOrder
  BY DEF IInv, QueuesInOrder, Increasing, HandledInOrder
<1> QED  BY <1>1, AlwaysIInv, PTL

\* getIfIndex() is without a descriptor only when receive_events() has left
\* nearly as many sockets behind as the process may have.
THEOREM OnlyWatcherStarves == Spec => []StarvedByWatcher
<1>1. IInv => StarvedByWatcher
  BY DEF IInv, SocketsAccountedFor
<1> QED  BY <1>1, AlwaysIInv, PTL

\* When main() returns, the route whose removal was reported is gone and the
\* address exists exactly if its request was reported to have succeeded.
THEOREM ReportsHoldAtExit == Spec => []LeavesWhatItReports
<1>1. IInv => LeavesWhatItReports
  BY DEF IInv, ReportsMatch, LeavesWhatItReports
<1> QED  BY <1>1, AlwaysIInv, PTL

=============================================================================
