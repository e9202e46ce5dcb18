------------------------- MODULE ViciSessionProofs -------------------------
(***************************************************************************)
(* Theorems about ViciSession, for any number of generators and events.    *)
(***************************************************************************)
EXTENDS ViciSession, Counting

-----------------------------------------------------------------------------
(* The inductive invariant, part by part. *)

Places == {"new", "yielded"} \cup Waiting \cup Ended
Packets == [kind : {"REGISTER", "UNREGISTER", "REQUEST"}, event : EventTypes]

\* The shape of the state without the bounds that need the other parts.
CallsOK ==
  /\ pc \in [Calls -> Places]
  /\ event \in [Calls -> EventTypes]
  /\ exited \in [Calls -> BOOLEAN] /\ failing \in [Calls -> BOOLEAN]
QueuesOK ==
  /\ outbox \in Seq(Packets)
  /\ inbox \in Seq(PacketTypes)
CountsOK ==
  /\ subs \in [Known -> Nat]
  /\ emitted \in 0 .. MaxEvents
  /\ yielded \in Nat /\ drained \in Nat
FlagsOK == connected \in BOOLEAN /\ raised \in BOOLEAN

OneRuns == \A g, h \in Calls : pc[g] \in Waiting /\ pc[h] \in Waiting => g = h

\* Exception or not, no event is received that was not sent.
NothingInvented == yielded + drained + InInbox({"EVENT"}) <= emitted

\* The calls for an event: those that hold or have lost a subscription, and
\* those that have ended or are about to end it.
CallsFor(e) == {g \in Calls : event[g] = e}
Holding == {"registering", "receiving", "yielded", "refused"}
Ending == {"unregistering", "done", "raised"}

Registers(e) == {[kind |-> "REGISTER", event |-> e]}
Unregisters(e) == {[kind |-> "UNREGISTER", event |-> e]}

\* For an event with sub subscriptions: the daemon never finds one to remove
\* missing, whichever of the packets in out it has read; when it has read all,
\* the subscriptions are those of hold generators; and no more are removed
\* than there are generators that end.
Match(e, out, sub, hold, end) ==
  /\ \A k \in 0 .. Len(out) :
       Count(out, Unregisters(e), k) <= sub + Count(out, Registers(e), k)
  /\ sub + Count(out, Registers(e), Len(out)) = Count(out, Unregisters(e), Len(out)) + hold
  /\ Count(out, Unregisters(e), Len(out)) <= end

SubscriptionsMatch ==
  connected =>
    \A e \in Known : Match(e, outbox, subs[e], Among(pc, CallsFor(e), Holding),
                          Among(pc, CallsFor(e), Ending))
SubscriptionsBounded == \A e \in Known : subs[e] <= Cardinality(Calls)

IInv == /\ CallsOK
        /\ QueuesOK
        /\ CountsOK
        /\ FlagsOK
        /\ OneRuns
        /\ NeverWaitsInVain
        /\ OneAnswerEach
        /\ NothingInvented
        /\ NothingLost
        /\ SubscriptionsMatch
        /\ SubscriptionsBounded

-----------------------------------------------------------------------------
(* Lemmas on the counts. *)

Kinds == {"REGISTER", "UNREGISTER", "REQUEST"}
Answers == PacketTypes \ {"EVENT"}
IsOpen == Waiting \cup {"yielded"}

LEMMA OpenIs == Cardinality(Open) = Among(pc, Calls, IsOpen)
BY DEF Open, Among, IsOpen

LEMMA DueIs == /\ Due = Len(outbox) + InInbox(Answers)
               /\ Due' = Len(outbox') + InInbox(Answers)'
BY DEF Due, Answers

LEMMA InboxIs ==
  ASSUME QueuesOK, NEW T
  PROVE  /\ InInbox(T) = Count(inbox, T, Len(inbox))
         /\ InInbox(T) \in Nat /\ Len(inbox) \in Nat /\ Len(outbox) \in Nat
<1>1. DOMAIN inbox = 1 .. Len(inbox) /\ Len(inbox) \in Nat /\ Len(outbox) \in Nat
  BY LenProperties DEF QueuesOK
<1> QED  BY <1>1, CountType DEF InInbox, Count

\* A packet is read.
LEMMA Taken ==
  ASSUME QueuesOK, NEW types \in SUBSET PacketTypes, Take(types)
  PROVE  /\ Head(inbox) \in types /\ inbox' \in Seq(PacketTypes)
         /\ InInbox(Answers)' \in Nat /\ InInbox({"EVENT"})' \in Nat
         /\ InInbox(Answers) = InInbox(Answers)' + (IF Head(inbox) = "EVENT" THEN 0 ELSE 1)
         /\ InInbox({"EVENT"}) =
              InInbox({"EVENT"})' + (IF Head(inbox) = "EVENT" THEN 1 ELSE 0)
<1>1. /\ inbox \in Seq(PacketTypes) /\ inbox # <<>> /\ inbox' = Tail(inbox)
      /\ Head(inbox) \in types
  BY DEF Take, QueuesOK
<1>2. /\ Head(inbox) \in PacketTypes /\ inbox' \in Seq(PacketTypes)
      /\ Len(inbox') = Len(inbox) - 1 /\ Len(inbox) \in Nat \ {0}
  BY <1>1, CountTail
<1>3. \A T : Count(inbox, T, Len(inbox))
              = Count(inbox', T, Len(inbox')) + (IF Head(inbox) \in T THEN 1 ELSE 0)
  <2> TAKE T
  <2>1. \A k \in 0 .. Len(inbox) - 1 :
          Count(inbox, T, k + 1)
            = Count(inbox', T, k) + (IF Head(inbox) \in T THEN 1 ELSE 0)
    BY <1>1, CountTail
  <2>2. Len(inbox') \in 0 .. Len(inbox) - 1 /\ Len(inbox') + 1 = Len(inbox)
    BY <1>2
  <2> QED  BY <2>1, <2>2
<1>4. \A T : InInbox(T)' = Count(inbox', T, Len(inbox')) /\ InInbox(T)' \in Nat
  <2>1. DOMAIN inbox' = 1 .. Len(inbox') /\ Len(inbox') \in Nat
    BY <1>2, LenProperties
  <2> QED  BY <2>1, CountType DEF InInbox, Count
<1>5. \A T : InInbox(T) = InInbox(T)' + (IF Head(inbox) \in T THEN 1 ELSE 0)
  BY <1>3, <1>4, InboxIs
<1>6. Head(inbox) \in Answers <=> Head(inbox) # "EVENT"
  BY <1>2 DEF Answers
<1> QED  BY <1>1, <1>2, <1>4, <1>5, <1>6

\* A packet arrives.
LEMMA Arrived ==
  ASSUME QueuesOK, NEW x \in PacketTypes, inbox' = Append(inbox, x)
  PROVE  /\ inbox' \in Seq(PacketTypes)
         /\ InInbox(Answers) \in Nat /\ InInbox({"EVENT"}) \in Nat
         /\ InInbox(Answers)' = InInbox(Answers) + (IF x = "EVENT" THEN 0 ELSE 1)
         /\ InInbox({"EVENT"})' = InInbox({"EVENT"}) + (IF x = "EVENT" THEN 1 ELSE 0)
<1>1. inbox \in Seq(PacketTypes)
  BY DEF QueuesOK
<1>2. inbox' \in Seq(PacketTypes) /\ Len(inbox') = Len(inbox) + 1
  BY <1>1, AppendProperties
<1>3. \A T : Count(inbox', T, Len(inbox'))
              = Count(inbox, T, Len(inbox)) + (IF x \in T THEN 1 ELSE 0)
  BY <1>1, <1>2, CountAppend
<1>4. \A T : InInbox(T)' = Count(inbox', T, Len(inbox'))
  <2>1. DOMAIN inbox' = 1 .. Len(inbox')
    BY <1>2, LenProperties
  <2> QED  BY <2>1 DEF InInbox, Count
<1>5. \A T : InInbox(T)' = InInbox(T) + (IF x \in T THEN 1 ELSE 0)
  BY <1>3, <1>4, InboxIs
<1>6. x \in Answers <=> x # "EVENT"
  BY DEF Answers
<1> QED  BY <1>2, <1>5, <1>6, InboxIs

\* A generator goes on to another place.
LEMMA Moved ==
  ASSUME CallsOK, NEW g \in Calls, NEW l \in Places, Goto(g, l)
  PROVE  /\ pc' \in [Calls -> Places] /\ pc'[g] = l
         /\ \A h \in Calls : h # g => pc'[h] = pc[h]
         /\ Cardinality(Open) \in Nat
         /\ (pc[g] \in IsOpen <=> l \in IsOpen) => Cardinality(Open)' = Cardinality(Open)
         /\ pc[g] \notin IsOpen /\ l \in IsOpen => Cardinality(Open)' = Cardinality(Open) + 1
         /\ pc[g] \in IsOpen /\ l \notin IsOpen => Cardinality(Open)' = Cardinality(Open) - 1
<1>1. pc \in [Calls -> Places] /\ pc' = [pc EXCEPT ![g] = l] /\ IsFiniteSet(Calls)
  BY ViciAssumption DEF CallsOK, Goto
<1> DEFINE to == pc'
<1>2. to[g] = l /\ \A h \in Calls : h # g => to[h] = pc[h]
  BY <1>1
<1>3. Cardinality(Open)' = Among(to, Calls, IsOpen)
  BY DEF Open, Among, IsOpen
<1>4. to \in [Calls -> Places]
  BY <1>1
<1> HIDE DEF to
<1>5. /\ Among(pc, Calls, IsOpen) \in Nat
      /\ (pc[g] \in IsOpen <=> l \in IsOpen)
           => Among(to, Calls, IsOpen) = Among(pc, Calls, IsOpen)
      /\ pc[g] \notin IsOpen /\ l \in IsOpen
           => Among(to, Calls, IsOpen) = Among(pc, Calls, IsOpen) + 1
      /\ pc[g] \in IsOpen /\ l \notin IsOpen
           => Among(to, Calls, IsOpen) = Among(pc, Calls, IsOpen) - 1
  <2>1. IsFiniteSet(Calls)
    BY ViciAssumption
  <2> QED  BY <2>1, <1>2, AmongMove
<1>6. pc' = to
  BY DEF to
<1> QED  BY <1>2, <1>3, <1>4, <1>5, <1>6, OpenIs

\* A generator that has the thread may go on; another one gets it when none has.
LEMMA OneMoves ==
  ASSUME CallsOK, OneRuns, NEW g \in Calls, NEW l \in Places, Goto(g, l),
         pc[g] \in Waiting \/ ~Running \/ l \notin Waiting
  PROVE  OneRuns'
BY Moved DEF OneRuns, Running

\* A packet is sent, or the connection is gone.
LEMMA Posted ==
  ASSUME CallsOK, QueuesOK, NEW g \in Calls, NEW kind \in Kinds, NEW l1, NEW l2,
         Send(g, kind, l1, l2)
  PROVE  /\ outbox' \in Seq(Packets) /\ Len(outbox) \in Nat
         /\ connected => /\ outbox' = Append(outbox, [kind |-> kind, event |-> event[g]])
                         /\ Len(outbox') = Len(outbox) + 1
                         /\ Goto(g, l1) /\ raised' = raised
         /\ ~connected => outbox' = outbox /\ Goto(g, l2) /\ raised' = TRUE
<1>1. [kind |-> kind, event |-> event[g]] \in Packets
  BY DEF Packets, CallsOK, Kinds
<1>2. outbox \in Seq(Packets) /\ Len(outbox) \in Nat
  BY LenProperties DEF QueuesOK
<1>3. /\ Append(outbox, [kind |-> kind, event |-> event[g]]) \in Seq(Packets)
      /\ Len(Append(outbox, [kind |-> kind, event |-> event[g]])) = Len(outbox) + 1
  BY <1>1, <1>2, AppendProperties
<1> QED  BY <1>2, <1>3 DEF Send

-----------------------------------------------------------------------------
(* Lemmas on the subscriptions. *)

\* A move changes the counts of the calls for its own event only.
LEMMA MovedFor ==
  ASSUME CallsOK, NEW g \in Calls, NEW l \in Places, Goto(g, l), event' = event,
         NEW e, NEW S
  PROVE  /\ CallsFor(e)' = CallsFor(e)
         /\ Among(pc, CallsFor(e), S) \in Nat
         /\ e # event[g] \/ (pc[g] \in S <=> l \in S)
              => Among(pc', CallsFor(e), S) = Among(pc, CallsFor(e), S)
         /\ e = event[g] /\ pc[g] \notin S /\ l \in S
              => Among(pc', CallsFor(e), S) = Among(pc, CallsFor(e), S) + 1
         /\ e = event[g] /\ pc[g] \in S /\ l \notin S
              => Among(pc', CallsFor(e), S) = Among(pc, CallsFor(e), S) - 1
<1> DEFINE to == pc'
           D == CallsFor(e)
<1>1. pc \in [Calls -> Places] /\ to = [pc EXCEPT ![g] = l]
  BY DEF CallsOK, Goto
<1>2. /\ to[g] = l /\ D \in SUBSET Calls /\ (g \in D <=> event[g] = e)
      /\ \A h \in D : h # g => to[h] = pc[h]
  BY <1>1 DEF CallsFor
<1>3. IsFiniteSet(D)
  BY <1>2, FS_Subset, ViciAssumption
<1> HIDE DEF to, D
<1>4. /\ Among(pc, D, S) \in Nat
      /\ e # event[g] \/ (pc[g] \in S <=> l \in S) => Among(to, D, S) = Among(pc, D, S)
      /\ e = event[g] /\ pc[g] \notin S /\ l \in S
           => Among(to, D, S) = Among(pc, D, S) + 1
      /\ e = event[g] /\ pc[g] \in S /\ l \notin S
           => Among(to, D, S) = Among(pc, D, S) - 1
  BY <1>2, <1>3, AmongMove
<1>5. CallsFor(e)' = CallsFor(e)
  BY DEF CallsFor
<1> QED  BY <1>4, <1>5 DEF to, D

\* A generator ends that has sent nothing.
LEMMA MatchMore ==
  ASSUME NEW e, NEW out \in Seq(Packets), NEW sub \in Nat, NEW hold \in Nat,
         NEW end \in Nat, NEW more \in Nat, more >= end, Match(e, out, sub, hold, end)
  PROVE  Match(e, out, sub, hold, more)
<1>1. Len(out) \in Nat
  BY LenProperties
<1>2. Count(out, Unregisters(e), Len(out)) \in Nat
  BY <1>1, CountType
<1> QED  BY <1>2 DEF Match

\* A packet is sent by a generator that begins, or ceases, to hold a
\* subscription.
LEMMA MatchSend ==
  ASSUME NEW e, NEW out \in Seq(Packets), NEW sub \in Nat, NEW hold \in Nat,
         NEW end \in Nat, Match(e, out, sub, hold, end), NEW p \in Packets,
         NEW hold2 \in Nat, NEW end2 \in Nat,
         p \in Registers(e) => hold2 = hold + 1 /\ end2 = end,
         p \in Unregisters(e) => hold2 = hold - 1 /\ end2 = end + 1,
         p \notin Registers(e) \cup Unregisters(e) => hold2 = hold /\ end2 = end
  PROVE  Match(e, Append(out, p), sub, hold2, end2)
<1> DEFINE a == Append(out, p)
           n == Len(out)
           R(k) == Count(out, Registers(e), k)
           U(k) == Count(out, Unregisters(e), k)
           Ra(k) == Count(a, Registers(e), k)
           Ua(k) == Count(a, Unregisters(e), k)
<1>1. /\ n \in Nat /\ Len(a) = n + 1
      /\ \A k \in 0 .. n : Ra(k) = R(k) /\ Ua(k) = U(k)
      /\ Ra(n + 1) = R(n) + (IF p \in Registers(e) THEN 1 ELSE 0)
      /\ Ua(n + 1) = U(n) + (IF p \in Unregisters(e) THEN 1 ELSE 0)
  BY CountAppend
<1>2. R(n) \in Nat /\ U(n) \in Nat
  <2>1. Len(out) \in Nat
    BY LenProperties
  <2> QED  BY <2>1, CountType
<1>3. /\ \A k \in 0 .. n : U(k) <= sub + R(k)
      /\ sub + R(n) = U(n) + hold /\ U(n) <= end
  BY DEF Match
<1>4. p \in Registers(e) => p \notin Unregisters(e)
  BY DEF Registers, Unregisters
<1> HIDE DEF a, n, R, U, Ra, Ua
<1>5. sub + Ra(n + 1) = Ua(n + 1) + hold2 /\ Ua(n + 1) <= end2
  <2>1. sub + R(n) = U(n) + hold /\ U(n) <= end
    BY <1>3
  <2>2. CASE p \in Registers(e)
    <3>1. Ua(n + 1) = U(n) /\ Ra(n + 1) = R(n) + 1 /\ hold2 = hold + 1 /\ end2 = end
      BY <2>2, <1>1, <1>2, <1>4
    <3> QED  BY <2>1, <3>1, <1>2
  <2>3. CASE p \in Unregisters(e)
    <3>1. Ua(n + 1) = U(n) + 1 /\ Ra(n + 1) = R(n) /\ hold2 = hold - 1 /\ end2 = end + 1
      BY <2>3, <1>1, <1>2, <1>4
    <3> QED  BY <2>1, <3>1, <1>2
  <2>4. CASE p \notin Registers(e) \cup Unregisters(e)
    <3>1. Ua(n + 1) = U(n) /\ Ra(n + 1) = R(n) /\ hold2 = hold /\ end2 = end
      BY <2>4, <1>1, <1>2
    <3> QED  BY <2>1, <3>1, <1>2
  <2> QED  BY <2>2, <2>3, <2>4
<1>6. Ua(n + 1) <= sub + Ra(n + 1)
  <2>1. Ua(n + 1) \in Nat /\ Ra(n + 1) \in Nat
    BY <1>1, <1>2
  <2> QED  BY <1>5, <2>1
<1>7. \A k \in 0 .. n + 1 : Ua(k) <= sub + Ra(k)
  BY <1>1, <1>3, <1>6
<1> QED  BY <1>1, <1>5, <1>7 DEF Match, a, Ra, Ua

\* The daemon reads a packet.
LEMMA MatchRead ==
  ASSUME NEW e, NEW out \in Seq(Packets), out # <<>>, NEW sub \in Nat, NEW hold \in Nat,
         NEW end \in Nat, Match(e, out, sub, hold, end)
  PROVE  /\ Tail(out) \in Seq(Packets)
         /\ Head(out) \in Registers(e) => Match(e, Tail(out), sub + 1, hold, end)
         /\ Head(out) \in Unregisters(e) =>
              sub > 0 /\ Match(e, Tail(out), sub - 1, hold, end)
         /\ Head(out) \notin Registers(e) \cup Unregisters(e) =>
              Match(e, Tail(out), sub, hold, end)
<1> DEFINE t == Tail(out)
           n == Len(out)
           R(k) == Count(out, Registers(e), k)
           U(k) == Count(out, Unregisters(e), k)
           Rt(k) == Count(t, Registers(e), k)
           Ut(k) == Count(t, Unregisters(e), k)
           r == IF Head(out) \in Registers(e) THEN 1 ELSE 0
           u == IF Head(out) \in Unregisters(e) THEN 1 ELSE 0
<1>1. /\ n \in Nat \ {0} /\ Len(t) = n - 1 /\ t \in Seq(Packets)
      /\ \A k \in 0 .. n - 1 : R(k + 1) = Rt(k) + r /\ U(k + 1) = Ut(k) + u
  BY CountTail
<1>2. \A k \in Nat : Rt(k) \in Nat /\ Ut(k) \in Nat
  BY CountType
<1>3. /\ \A k \in 0 .. n : U(k) <= sub + R(k)
      /\ sub + R(n) = U(n) + hold /\ U(n) <= end
  BY DEF Match
<1>4. Head(out) \in Registers(e) => Head(out) \notin Unregisters(e)
  BY DEF Registers, Unregisters
<1>5. r \in Nat /\ u \in Nat /\ r <= 1 /\ u <= 1 /\ (r = 1 => u = 0)
  BY <1>4
<1>6. Rt(0) = 0 /\ Ut(0) = 0
  BY CountNone
<1> HIDE DEF t, n, R, U, Rt, Ut, r, u
<1>7. u <= sub + r
  <2>1. U(1) <= sub + R(1)
    BY <1>1, <1>3
  <2>2. R(0 + 1) = Rt(0) + r /\ U(0 + 1) = Ut(0) + u
    BY <1>1
  <2> QED  BY <2>1, <2>2, <1>5, <1>6
<1>8. \A k \in 0 .. n - 1 : Ut(k) <= (sub + r - u) + Rt(k)
  <2> TAKE k \in 0 .. n - 1
  <2>1. k + 1 \in 0 .. n /\ k \in Nat
    BY <1>1
  <2>2. U(k + 1) <= sub + R(k + 1)
    BY <2>1, <1>3
  <2>3. R(k + 1) = Rt(k) + r /\ U(k + 1) = Ut(k) + u
    BY <1>1
  <2>4. Rt(k) \in Nat /\ Ut(k) \in Nat
    BY <2>1, <1>2
  <2> DEFINE Rk == Rt(k)
             Uk == Ut(k)
  <2>5. Uk + u <= sub + (Rk + r) /\ Rk \in Nat /\ Uk \in Nat
    BY <2>2, <2>3, <2>4
  <2> HIDE DEF Rk, Uk
  <2>6. Uk <= (sub + r - u) + Rk
    BY <2>5, <1>5
  <2> QED  BY <2>6 DEF Rk, Uk
<1>9. (sub + r - u) + Rt(n - 1) = Ut(n - 1) + hold /\ Ut(n - 1) <= end
  <2>1. R((n - 1) + 1) = Rt(n - 1) + r /\ U((n - 1) + 1) = Ut(n - 1) + u
    BY <1>1
  <2>2. R(n) = Rt(n - 1) + r /\ U(n) = Ut(n - 1) + u
    BY <2>1, <1>1
  <2>3. Rt(n - 1) \in Nat /\ Ut(n - 1) \in Nat
    <3>1. n - 1 \in Nat
      BY <1>1
    <3> QED  BY <3>1, <1>2
  <2> DEFINE Rk == Rt(n - 1)
             Uk == Ut(n - 1)
  <2>4. /\ sub + (Rk + r) = (Uk + u) + hold /\ Uk + u <= end
        /\ Rk \in Nat /\ Uk \in Nat
    BY <2>2, <2>3, <1>3
  <2> HIDE DEF Rk, Uk
  <2>5. (sub + r - u) + Rk = Uk + hold /\ Uk <= end
    BY <2>4, <1>5
  <2> QED  BY <2>5 DEF Rk, Uk
<1>10. Match(e, t, sub + r - u, hold, end)
  BY <1>1, <1>8, <1>9 DEF Match, Rt, Ut
<1>11. CASE Head(out) \in Registers(e)
  <2>1. sub + r - u = sub + 1
    BY <1>4, <1>11 DEF r, u
  <2> QED  BY <2>1, <1>1, <1>4, <1>10, <1>11 DEF t
<1>12. CASE Head(out) \in Unregisters(e)
  <2>1. sub + r - u = sub - 1 /\ sub > 0
    BY <1>4, <1>7, <1>12 DEF r, u
  <2> QED  BY <2>1, <1>1, <1>4, <1>10, <1>12 DEF t
<1>13. CASE Head(out) \notin Registers(e) \cup Unregisters(e)
  <2>1. sub + r - u = sub
    BY <1>13 DEF r, u
  <2> QED  BY <2>1, <1>1, <1>10, <1>13 DEF t
<1> QED  BY <1>11, <1>12, <1>13

\* The calls for an event are at most all of them.
LEMMA HoldAndEnd ==
  ASSUME NEW e
  PROVE  /\ Among(pc, CallsFor(e), Holding) \in Nat
         /\ Among(pc, CallsFor(e), Ending) \in Nat
         /\ Among(pc, CallsFor(e), Holding) + Among(pc, CallsFor(e), Ending)
              <= Cardinality(Calls)
<1> DEFINE D == CallsFor(e)
           A == {x \in D : pc[x] \in Holding}
           B == {x \in D : pc[x] \in Ending}
<1>1. /\ D \in SUBSET Calls /\ A \cup B \in SUBSET Calls /\ A \cap B = {}
      /\ A \in SUBSET Calls /\ B \in SUBSET Calls
  BY DEF CallsFor, Holding, Ending
<1> HIDE DEF A, B, D
<1>2. /\ IsFiniteSet(A) /\ IsFiniteSet(B) /\ Cardinality(A \cup B) <= Cardinality(Calls)
      /\ Cardinality(A) \in Nat /\ Cardinality(B) \in Nat
  BY <1>1, FS_Subset, FS_CardinalityType, ViciAssumption
<1>3. Cardinality(A \cup B) = Cardinality(A) + Cardinality(B) - Cardinality(A \cap B)
  BY <1>2, FS_Union
<1>4. Cardinality(A \cap B) = 0
  BY <1>1, FS_EmptySet
<1>5. Cardinality(A) + Cardinality(B) <= Cardinality(Calls)
  BY <1>2, <1>3, <1>4
<1> QED  BY <1>2, <1>5 DEF Among, A, B, D

LEMMA MatchBounded ==
  ASSUME NEW e, NEW out \in Seq(Packets), NEW sub \in Nat, NEW hold \in Nat,
         NEW end \in Nat, Match(e, out, sub, hold, end)
  PROVE  sub <= hold + end
<1> DEFINE R == Count(out, Registers(e), Len(out))
           U == Count(out, Unregisters(e), Len(out))
<1>1. sub + R = U + hold /\ U <= end
  BY DEF Match
<1>2. R \in Nat /\ U \in Nat
  <2>1. Len(out) \in Nat
    BY LenProperties
  <2> QED  BY <2>1, CountType
<1> HIDE DEF R, U
<1> QED  BY <1>1, <1>2

\* A generator goes on without sending (un)registrations.
LEMMA SubsStay ==
  ASSUME CallsOK, QueuesOK, CountsOK, SubscriptionsMatch,
         NEW g \in Calls, NEW l \in Places, Goto(g, l),
         UNCHANGED <<event, subs, outbox, connected>>,
         pc[g] \in Holding <=> l \in Holding,
         pc[g] \in Ending => l \in Ending
  PROVE  SubscriptionsMatch'
<1> SUFFICES ASSUME connected, NEW e \in Known
             PROVE  Match(e, outbox, subs[e], Among(pc', CallsFor(e)', Holding),
                          Among(pc', CallsFor(e)', Ending))
  BY DEF SubscriptionsMatch
<1> DEFINE hold == Among(pc, CallsFor(e), Holding)
           end == Among(pc, CallsFor(e), Ending)
           hold2 == Among(pc', CallsFor(e), Holding)
           end2 == Among(pc', CallsFor(e), Ending)
<1>1. /\ CallsFor(e)' = CallsFor(e) /\ hold2 = hold
      /\ end \in Nat /\ (end2 = end \/ end2 = end + 1)
  BY MovedFor
<1>2. Match(e, outbox, subs[e], hold, end)
  BY DEF SubscriptionsMatch
<1>3. hold \in Nat /\ subs[e] \in Nat /\ outbox \in Seq(Packets)
  BY HoldAndEnd DEF CountsOK, QueuesOK
<1> HIDE DEF hold, end, hold2, end2
<1>4. end2 \in Nat /\ end2 >= end
  BY <1>1
<1>5. Match(e, outbox, subs[e], hold, end2)
  BY <1>1, <1>2, <1>3, <1>4, MatchMore
<1> QED  BY <1>1, <1>5 DEF hold2, end2

\* A generator sends a packet.
LEMMA SubsSend ==
  ASSUME CallsOK, QueuesOK, CountsOK, SubscriptionsMatch, connected,
         NEW g \in Calls, NEW kind \in Kinds, NEW l \in Places, Goto(g, l),
         outbox' = Append(outbox, [kind |-> kind, event |-> event[g]]),
         UNCHANGED <<event, subs>>,
         \/ kind = "REGISTER" /\ pc[g] = "new" /\ l = "registering"
         \/ kind = "REQUEST" /\ pc[g] = "registering" /\ l = "receiving"
         \/ kind = "UNREGISTER" /\ pc[g] = "receiving" /\ l = "unregistering"
  PROVE  SubscriptionsMatch'
<1> DEFINE p == [kind |-> kind, event |-> event[g]]
<1> SUFFICES ASSUME NEW e \in Known
             PROVE  Match(e, Append(outbox, p), subs[e], Among(pc', CallsFor(e)', Holding),
                          Among(pc', CallsFor(e)', Ending))
  BY DEF SubscriptionsMatch
<1>1. p \in Packets
  BY DEF Packets, CallsOK, Kinds
<1>2. /\ p \in Registers(e) <=> kind = "REGISTER" /\ event[g] = e
      /\ p \in Unregisters(e) <=> kind = "UNREGISTER" /\ event[g] = e
  BY DEF Registers, Unregisters
<1> HIDE DEF p
<1> DEFINE hold == Among(pc, CallsFor(e), Holding)
           end == Among(pc, CallsFor(e), Ending)
           hold2 == Among(pc', CallsFor(e), Holding)
           end2 == Among(pc', CallsFor(e), Ending)
<1>3. /\ CallsFor(e)' = CallsFor(e)
      /\ kind = "REGISTER" /\ event[g] = e => hold2 = hold + 1 /\ end2 = end
      /\ kind = "UNREGISTER" /\ event[g] = e => hold2 = hold - 1 /\ end2 = end + 1
      /\ kind = "REQUEST" \/ event[g] # e => hold2 = hold /\ end2 = end
  BY MovedFor DEF Holding, Ending
<1>4. /\ Match(e, outbox, subs[e], hold, end)
      /\ hold \in Nat /\ end \in Nat /\ subs[e] \in Nat /\ outbox \in Seq(Packets)
  BY HoldAndEnd DEF SubscriptionsMatch, CountsOK, QueuesOK
<1>5. CallsFor(e) \in SUBSET Calls
  BY DEF CallsFor
<1>6. hold2 \in Nat /\ end2 \in Nat
  BY <1>5, FS_Subset, AmongType, ViciAssumption
<1> HIDE DEF hold, end, hold2, end2
<1>7. /\ p \in Registers(e) => hold2 = hold + 1 /\ end2 = end
      /\ p \in Unregisters(e) => hold2 = hold - 1 /\ end2 = end + 1
      /\ p \notin Registers(e) \cup Unregisters(e) => hold2 = hold /\ end2 = end
  BY <1>2, <1>3 DEF Kinds
<1>8. Match(e, Append(outbox, p), subs[e], hold2, end2)
  BY <1>1, <1>4, <1>6, <1>7, MatchSend
<1> QED  BY <1>3, <1>8 DEF hold2, end2

\* The daemon reads a packet, and changes the subscriptions as it says.
LEMMA SubsRead ==
  ASSUME QueuesOK, CountsOK, SubscriptionsMatch, connected, outbox # <<>>,
         outbox' = Tail(outbox), UNCHANGED <<pc, event>>,
         \A e \in Known :
           /\ Head(outbox) \in Registers(e) => subs'[e] = subs[e] + 1
           /\ Head(outbox) \in Unregisters(e) /\ subs[e] > 0 => subs'[e] = subs[e] - 1
           /\ Head(outbox) \notin Registers(e) \cup Unregisters(e) => subs'[e] = subs[e]
  PROVE  SubscriptionsMatch'
<1> SUFFICES ASSUME NEW e \in Known
             PROVE  Match(e, Tail(outbox), subs'[e], Among(pc, CallsFor(e), Holding),
                          Among(pc, CallsFor(e), Ending))
  BY DEF SubscriptionsMatch, CallsFor
<1> DEFINE hold == Among(pc, CallsFor(e), Holding)
           end == Among(pc, CallsFor(e), Ending)
<1>1. /\ Match(e, outbox, subs[e], hold, end)
      /\ hold \in Nat /\ end \in Nat /\ subs[e] \in Nat /\ outbox \in Seq(Packets)
  BY HoldAndEnd DEF SubscriptionsMatch, CountsOK, QueuesOK
<1> HIDE DEF hold, end
<1>2. /\ Head(outbox) \in Registers(e) => Match(e, Tail(outbox), subs[e] + 1, hold, end)
      /\ Head(outbox) \in Unregisters(e) =>
           subs[e] > 0 /\ Match(e, Tail(outbox), subs[e] - 1, hold, end)
      /\ Head(outbox) \notin Registers(e) \cup Unregisters(e) =>
           Match(e, Tail(outbox), subs[e], hold, end)
  BY <1>1, MatchRead
<1>3. Match(e, Tail(outbox), subs'[e], hold, end)
  BY <1>2
<1> QED  BY <1>3 DEF hold, end

\* The daemon finds a subscription to remove.
LEMMA RemovesWhatIsThere ==
  ASSUME QueuesOK, CountsOK, SubscriptionsMatch, connected, outbox # <<>>,
         NEW e \in Known, Head(outbox) \in Unregisters(e)
  PROVE  subs[e] > 0
<1> DEFINE hold == Among(pc, CallsFor(e), Holding)
           end == Among(pc, CallsFor(e), Ending)
<1>1. /\ Match(e, outbox, subs[e], hold, end)
      /\ hold \in Nat /\ end \in Nat /\ subs[e] \in Nat /\ outbox \in Seq(Packets)
  BY HoldAndEnd DEF SubscriptionsMatch, CountsOK, QueuesOK
<1> HIDE DEF hold, end
<1> QED  BY <1>1, MatchRead

\* What every answer of the daemon does, whatever packet it answers.
LEMMA Replied ==
  ASSUME IInv, connected, outbox # <<>>, NEW x \in Answers, Reply(x),
         subs' \in [Known -> Nat],
         \A e \in Known :
           /\ Head(outbox) \in Registers(e) => subs'[e] = subs[e] + 1
           /\ Head(outbox) \in Unregisters(e) => subs'[e] = subs[e] - 1
           /\ Head(outbox) \notin Registers(e) \cup Unregisters(e) => subs'[e] = subs[e]
  PROVE  IInv'
<1> USE DEF IInv
<1>1. UNCHANGED <<pc, event, exited, failing, connected, emitted, yielded, drained, raised>>
  BY DEF Reply, calls, fixed, history
<1>2. /\ outbox' \in Seq(Packets) /\ Len(outbox') = Len(outbox) - 1 /\ Len(outbox) \in Nat
  BY CountTail DEF Reply, QueuesOK
<1>3. Cardinality(Open)' = Cardinality(Open) /\ Cardinality(Open) \in Nat
  <2>1. Cardinality(Open) \in Nat
    <3>1. Open \in SUBSET Calls
      BY DEF Open
    <3> QED  BY <3>1, FS_Subset, FS_CardinalityType, ViciAssumption
  <2>2. Open' = Open
    BY <1>1 DEF Open
  <2> QED  BY <2>1, <2>2
<1>4. /\ inbox' \in Seq(PacketTypes)
      /\ InInbox(Answers)' = InInbox(Answers) + 1 /\ InInbox(Answers) \in Nat
      /\ InInbox({"EVENT"})' = InInbox({"EVENT"})
  <2>1. x \in PacketTypes /\ x # "EVENT"
    BY DEF Answers
  <2>2. inbox' = Append(inbox, x)
    BY DEF Reply
  <2> QED  BY <2>1, <2>2, Arrived
<1>5. CallsOK' /\ CountsOK' /\ FlagsOK' /\ OneRuns'
  <2>1. CountsOK'
    BY <1>1 DEF CountsOK
  <2>2. CallsOK' /\ FlagsOK' /\ OneRuns'
    BY <1>1, Zenon DEF CallsOK, FlagsOK, OneRuns
  <2> QED  BY <2>1, <2>2
<1>6. QueuesOK'
  BY <1>2, <1>4 DEF QueuesOK
<1>7. NeverWaitsInVain' /\ OneAnswerEach'
  BY <1>1, <1>2, <1>3, <1>4 DEF NeverWaitsInVain, OneAnswerEach, NoException, Due, Answers
<1>8. NothingInvented' /\ NothingLost'
  BY <1>1, <1>4 DEF NothingInvented, NothingLost, NoException
<1>9. SubscriptionsMatch'
  BY <1>1, SubsRead DEF Reply
<1>10. SubscriptionsBounded'
  <2> SUFFICES ASSUME NEW e \in Known PROVE subs'[e] <= Cardinality(Calls)
    BY DEF SubscriptionsBounded
  <2> DEFINE hold == Among(pc, CallsFor(e), Holding)
             end == Among(pc, CallsFor(e), Ending)
  <2>1. Match(e, outbox', subs'[e], hold, end)
    BY <1>1, <1>9 DEF SubscriptionsMatch, CallsFor
  <2>2. /\ hold \in Nat /\ end \in Nat /\ hold + end <= Cardinality(Calls)
        /\ Cardinality(Calls) \in Nat /\ subs'[e] \in Nat
    BY HoldAndEnd, FS_CardinalityType, ViciAssumption
  <2> HIDE DEF hold, end
  <2>3. subs'[e] <= hold + end
    BY <2>1, <2>2, <1>2, MatchBounded
  <2> QED  BY <2>2, <2>3
<1> QED  BY <1>5, <1>6, <1>7, <1>8, <1>9, <1>10

LEMMA NextIInv == IInv /\ [Next]_vars => IInv'
<1> SUFFICES ASSUME IInv, [Next]_vars PROVE IInv'
  OBVIOUS
<1> USE DEF IInv
<1>1. ASSUME NEW g \in Calls, Start(g) PROVE IInv'
  <2> DEFINE l == IF connected THEN "registering" ELSE "refused"
  <2>a. /\ Goto(g, l) /\ l \in Places /\ pc[g] = "new"
        /\ UNCHANGED <<event, connected, subs, emitted>>
    BY <1>1, Posted, Zenon DEF Start, fixed, daemon, history, calls, Places, Waiting, Ended, Kinds
  <2>b. /\ outbox' \in Seq(Packets) /\ Len(outbox) \in Nat
        /\ connected => Len(outbox') = Len(outbox) + 1 /\ raised' = raised
        /\ ~connected => raised' = TRUE
    BY <1>1, Posted DEF Start, Kinds
  <2>c. /\ pc' \in [Calls -> Places] /\ Cardinality(Open) \in Nat
        /\ connected => Cardinality(Open)' = Cardinality(Open) + 1
    BY <2>a, Moved DEF IsOpen, Waiting
  <2>d. /\ inbox' = inbox /\ InInbox(Answers)' = InInbox(Answers)
        /\ InInbox({"EVENT"})' = InInbox({"EVENT"})
        /\ InInbox(Answers) \in Nat /\ InInbox({"EVENT"}) \in Nat
    BY <1>1, InboxIs DEF Start, fixed, daemon, history, calls, InInbox
  <2> HIDE DEF l
  <2>e. connected /\ NoException' => NoException
    BY <1>1, <2>b DEF Start, NoException
  <2>1. CallsOK'
    BY <1>1, <2>a, <2>c DEF Start, fixed, CallsOK
  <2>2. QueuesOK'
    BY <2>b, <2>d DEF QueuesOK
  <2>3. CountsOK'
    BY <1>1 DEF Start, fixed, daemon, history, calls, Send, CountsOK
  <2>4. FlagsOK'
    BY <1>1, <2>a, <2>b DEF Start, fixed, daemon, history, calls, FlagsOK
  <2>5. OneRuns'
    BY <1>1, <2>a, OneMoves DEF Start, Waiting
  <2>6. NeverWaitsInVain'
    BY <2>a, <2>b, <2>c, <2>d DEF NeverWaitsInVain, Due, Answers
  <2>7. OneAnswerEach'
    <3>1. connected /\ NoException' /\ Due = Cardinality(Open) => Due' = Cardinality(Open)'
      BY <2>b, <2>c, <2>d, <2>e, DueIs
    <3> QED  BY <3>1, <2>a, <2>e DEF OneAnswerEach
  <2>8. NothingInvented'
    BY <1>1, <2>a, <2>d DEF Start, fixed, daemon, history, calls, NothingInvented, CountsOK
  <2>9. NothingLost'
    BY <1>1, <2>a, <2>b, <2>d DEF Start, fixed, daemon, history, calls, NothingLost, NoException, CountsOK
  <2>10. SubscriptionsMatch'
    <3>1. CASE connected
      BY <3>1, <2>a, <1>1, Posted, SubsSend DEF Start, Kinds, l, Places, Waiting
    <3>2. CASE ~connected
      BY <3>2, <2>a DEF SubscriptionsMatch
    <3> QED  BY <3>1, <3>2
  <2>11. SubscriptionsBounded'
    BY <2>a DEF SubscriptionsBounded
  <2> QED
    BY <2>1, <2>2, <2>3, <2>4, <2>5, <2>6, <2>7, <2>8, <2>9, <2>10, <2>11 DEF IInv
<1>2. ASSUME NEW g \in Calls, CloseNew(g) PROVE IInv'
  <2> DEFINE l == "done"
  <2>a. /\ Goto(g, l) /\ l \in Places /\ pc[g] = "new"
        /\ UNCHANGED <<event, connected, subs, emitted>>
    BY <1>2, Zenon DEF CloseNew, fixed, daemon, history, calls, Places, Waiting, Ended
  <2>b. outbox' = outbox /\ Len(outbox) \in Nat
    BY <1>2, InboxIs DEF CloseNew, fixed, daemon, history, calls
  <2>c. /\ pc' \in [Calls -> Places] /\ Cardinality(Open) \in Nat
        /\ Cardinality(Open)' = Cardinality(Open)
    BY <2>a, Moved DEF IsOpen, Waiting
  <2>d. /\ inbox' = inbox /\ InInbox(Answers)' = InInbox(Answers)
        /\ InInbox({"EVENT"})' = InInbox({"EVENT"})
        /\ InInbox(Answers) \in Nat /\ InInbox({"EVENT"}) \in Nat
    BY <1>2, InboxIs DEF CloseNew, fixed, daemon, history, calls, InInbox
  <2>1. CallsOK'
    BY <1>2, <2>a, <2>c DEF CloseNew, fixed, CallsOK
  <2>2. QueuesOK'
    BY <2>b, <2>d DEF QueuesOK
  <2>3. CountsOK'
    BY <1>2 DEF CloseNew, fixed, daemon, history, calls, Send, CountsOK
  <2>4. FlagsOK'
    BY <1>2, <2>a, <2>b DEF CloseNew, fixed, daemon, history, calls, FlagsOK
  <2>5. OneRuns'
    BY <1>2, <2>a, OneMoves DEF CloseNew, Waiting
  <2>6. NeverWaitsInVain'
    BY <2>a, <2>b, <2>c, <2>d DEF NeverWaitsInVain, Due, Answers
  <2>7. OneAnswerEach'
    BY <1>2, <2>a, <2>b, <2>c, <2>d DEF CloseNew, fixed, daemon, history, calls, OneAnswerEach, NoException, Due, Answers
  <2>8. NothingInvented'
    BY <1>2, <2>a, <2>d DEF CloseNew, fixed, daemon, history, calls, NothingInvented, CountsOK
  <2>9. NothingLost'
    BY <1>2, <2>a, <2>b, <2>d DEF CloseNew, fixed, daemon, history, calls, NothingLost, NoException, CountsOK
  <2>10. SubscriptionsMatch'
    BY <2>a, <2>b, SubsStay DEF Holding, Ending
  <2>11. SubscriptionsBounded'
    BY <2>a DEF SubscriptionsBounded
  <2> QED
    BY <2>1, <2>2, <2>3, <2>4, <2>5, <2>6, <2>7, <2>8, <2>9, <2>10, <2>11 DEF IInv
<1>3. ASSUME NEW g \in Calls, Resume(g) PROVE IInv'
  <2> DEFINE l == "receiving"
  <2>a. /\ Goto(g, l) /\ l \in Places /\ pc[g] = "yielded"
        /\ UNCHANGED <<event, connected, subs, emitted>>
    BY <1>3, Zenon DEF Resume, fixed, daemon, history, calls, Places, Waiting, Ended
  <2>b. outbox' = outbox /\ Len(outbox) \in Nat
    BY <1>3, InboxIs DEF Resume, fixed, daemon, history, calls
  <2>c. /\ pc' \in [Calls -> Places] /\ Cardinality(Open) \in Nat
        /\ Cardinality(Open)' = Cardinality(Open)
    BY <2>a, Moved DEF IsOpen, Waiting
  <2>d. /\ inbox' = inbox /\ InInbox(Answers)' = InInbox(Answers)
        /\ InInbox({"EVENT"})' = InInbox({"EVENT"})
        /\ InInbox(Answers) \in Nat /\ InInbox({"EVENT"}) \in Nat
    BY <1>3, InboxIs DEF Resume, fixed, daemon, history, calls, InInbox
  <2>1. CallsOK'
    BY <1>3, <2>a, <2>c DEF Resume, fixed, CallsOK
  <2>2. QueuesOK'
    BY <2>b, <2>d DEF QueuesOK
  <2>3. CountsOK'
    BY <1>3 DEF Resume, fixed, daemon, history, calls, Send, CountsOK
  <2>4. FlagsOK'
    BY <1>3, <2>a, <2>b DEF Resume, fixed, daemon, history, calls, FlagsOK
  <2>5. OneRuns'
    BY <1>3, <2>a, OneMoves DEF Resume, Waiting
  <2>6. NeverWaitsInVain'
    BY <2>a, <2>b, <2>c, <2>d DEF NeverWaitsInVain, Due, Answers
  <2>7. OneAnswerEach'
    BY <1>3, <2>a, <2>b, <2>c, <2>d DEF Resume, fixed, daemon, history, calls, OneAnswerEach, NoException, Due, Answers
  <2>8. NothingInvented'
    BY <1>3, <2>a, <2>d DEF Resume, fixed, daemon, history, calls, NothingInvented, CountsOK
  <2>9. NothingLost'
    BY <1>3, <2>a, <2>b, <2>d DEF Resume, fixed, daemon, history, calls, NothingLost, NoException, CountsOK
  <2>10. SubscriptionsMatch'
    BY <2>a, <2>b, SubsStay DEF Holding, Ending
  <2>11. SubscriptionsBounded'
    BY <2>a DEF SubscriptionsBounded
  <2> QED
    BY <2>1, <2>2, <2>3, <2>4, <2>5, <2>6, <2>7, <2>8, <2>9, <2>10, <2>11 DEF IInv
<1>4. ASSUME NEW g \in Calls, Close(g) PROVE IInv'
  <2> DEFINE l == "receiving"
  <2>a. /\ Goto(g, l) /\ l \in Places /\ pc[g] = "yielded"
        /\ UNCHANGED <<event, connected, subs, emitted>>
    BY <1>4, Zenon DEF Close, fixed, daemon, history, calls, Places, Waiting, Ended
  <2>b. outbox' = outbox /\ Len(outbox) \in Nat
    BY <1>4, InboxIs DEF Close, fixed, daemon, history, calls
  <2>c. /\ pc' \in [Calls -> Places] /\ Cardinality(Open) \in Nat
        /\ Cardinality(Open)' = Cardinality(Open)
    BY <2>a, Moved DEF IsOpen, Waiting
  <2>d. /\ inbox' = inbox /\ InInbox(Answers)' = InInbox(Answers)
        /\ InInbox({"EVENT"})' = InInbox({"EVENT"})
        /\ InInbox(Answers) \in Nat /\ InInbox({"EVENT"}) \in Nat
    BY <1>4, InboxIs DEF Close, fixed, daemon, history, calls, InInbox
  <2>1. CallsOK'
    BY <1>4, <2>a, <2>c DEF Close, fixed, CallsOK
  <2>2. QueuesOK'
    BY <2>b, <2>d DEF QueuesOK
  <2>3. CountsOK'
    BY <1>4 DEF Close, fixed, daemon, history, calls, Send, CountsOK
  <2>4. FlagsOK'
    BY <1>4, <2>a, <2>b DEF Close, fixed, daemon, history, calls, FlagsOK
  <2>5. OneRuns'
    BY <1>4, <2>a, OneMoves DEF Close, Waiting
  <2>6. NeverWaitsInVain'
    BY <2>a, <2>b, <2>c, <2>d DEF NeverWaitsInVain, Due, Answers
  <2>7. OneAnswerEach'
    BY <1>4, <2>a, <2>b, <2>c, <2>d DEF Close, fixed, daemon, history, calls, OneAnswerEach, NoException, Due, Answers
  <2>8. NothingInvented'
    BY <1>4, <2>a, <2>d DEF Close, fixed, daemon, history, calls, NothingInvented, CountsOK
  <2>9. NothingLost'
    BY <1>4, <2>a, <2>b, <2>d DEF Close, fixed, daemon, history, calls, NothingLost, NoException, CountsOK
  <2>10. SubscriptionsMatch'
    BY <2>a, <2>b, SubsStay DEF Holding, Ending
  <2>11. SubscriptionsBounded'
    BY <2>a DEF SubscriptionsBounded
  <2> QED
    BY <2>1, <2>2, <2>3, <2>4, <2>5, <2>6, <2>7, <2>8, <2>9, <2>10, <2>11 DEF IInv
<1>5. ASSUME NEW g \in Calls, Registered(g) PROVE IInv'
  <2> DEFINE l == IF connected THEN "receiving" ELSE "raised"
  <2>a. /\ Goto(g, l) /\ l \in Places /\ pc[g] = "registering"
        /\ UNCHANGED <<event, connected, subs, emitted>>
    BY <1>5, Posted, Zenon DEF Registered, fixed, daemon, history, calls, Places, Waiting, Ended, Kinds
  <2>b. /\ outbox' \in Seq(Packets) /\ Len(outbox) \in Nat
        /\ connected => Len(outbox') = Len(outbox) + 1 /\ raised' = raised
        /\ ~connected => raised' = TRUE
    BY <1>5, Posted DEF Registered, Kinds
  <2>c. /\ pc' \in [Calls -> Places] /\ Cardinality(Open) \in Nat
        /\ connected => Cardinality(Open)' = Cardinality(Open)
    BY <2>a, Moved DEF IsOpen, Waiting
  <2>d. /\ inbox' \in Seq(PacketTypes) /\ Head(inbox) \in {"EVENT_CONFIRM"}
        /\ InInbox(Answers)' \in Nat /\ InInbox({"EVENT"})' \in Nat
        /\ InInbox(Answers) = InInbox(Answers)' + (IF Head(inbox) = "EVENT" THEN 0 ELSE 1)
        /\ InInbox({"EVENT"}) =
             InInbox({"EVENT"})' + (IF Head(inbox) = "EVENT" THEN 1 ELSE 0)
    BY <1>5, Taken DEF Registered, PacketTypes
  <2> HIDE DEF l
  <2>e. connected /\ NoException' => NoException
    BY <1>5, <2>b DEF Registered, NoException
  <2>1. CallsOK'
    BY <1>5, <2>a, <2>c DEF Registered, fixed, CallsOK
  <2>2. QueuesOK'
    BY <2>b, <2>d DEF QueuesOK
  <2>3. CountsOK'
    BY <1>5 DEF Registered, fixed, daemon, history, calls, Send, CountsOK
  <2>4. FlagsOK'
    BY <1>5, <2>a, <2>b DEF Registered, fixed, daemon, history, calls, FlagsOK
  <2>5. OneRuns'
    BY <1>5, <2>a, OneMoves DEF Registered, Waiting
  <2>6. NeverWaitsInVain'
    BY <2>a, <2>b, <2>c, <2>d DEF NeverWaitsInVain, Due, Answers
  <2>7. OneAnswerEach'
    <3>1. connected /\ NoException' /\ Due = Cardinality(Open) => Due' = Cardinality(Open)'
      BY <2>b, <2>c, <2>d, <2>e, DueIs
    <3> QED  BY <3>1, <2>a, <2>e DEF OneAnswerEach
  <2>8. NothingInvented'
    BY <1>5, <2>a, <2>d DEF Registered, fixed, daemon, history, calls, NothingInvented, CountsOK
  <2>9. NothingLost'
    BY <1>5, <2>a, <2>b, <2>d DEF Registered, fixed, daemon, history, calls, NothingLost, NoException, CountsOK
  <2>10. SubscriptionsMatch'
    <3>1. CASE connected
      BY <3>1, <2>a, <1>5, Posted, SubsSend DEF Registered, Kinds, l, Places, Waiting
    <3>2. CASE ~connected
      BY <3>2, <2>a DEF SubscriptionsMatch
    <3> QED  BY <3>1, <3>2
  <2>11. SubscriptionsBounded'
    BY <2>a DEF SubscriptionsBounded
  <2> QED
    BY <2>1, <2>2, <2>3, <2>4, <2>5, <2>6, <2>7, <2>8, <2>9, <2>10, <2>11 DEF IInv
<1>6. ASSUME NEW g \in Calls, NotRegistered(g) PROVE IInv'
  <2> DEFINE l == "refused"
  <2>a. /\ Goto(g, l) /\ l \in Places /\ pc[g] = "registering"
        /\ UNCHANGED <<event, connected, subs, emitted>>
    BY <1>6, Zenon DEF NotRegistered, fixed, daemon, history, calls, Places, Waiting, Ended
  <2>b. outbox' = outbox /\ Len(outbox) \in Nat
    BY <1>6, InboxIs DEF NotRegistered, fixed, daemon, history, calls
  <2>c. /\ pc' \in [Calls -> Places] /\ Cardinality(Open) \in Nat
        /\ Cardinality(Open)' = Cardinality(Open) - 1
    BY <2>a, Moved DEF IsOpen, Waiting
  <2>d. /\ inbox' \in Seq(PacketTypes) /\ Head(inbox) \in PacketTypes \ {"EVENT_CONFIRM"}
        /\ InInbox(Answers)' \in Nat /\ InInbox({"EVENT"})' \in Nat
        /\ InInbox(Answers) = InInbox(Answers)' + (IF Head(inbox) = "EVENT" THEN 0 ELSE 1)
        /\ InInbox({"EVENT"}) =
             InInbox({"EVENT"})' + (IF Head(inbox) = "EVENT" THEN 1 ELSE 0)
    BY <1>6, Taken DEF NotRegistered, PacketTypes
  <2>e. NoException' => NoException /\ Head(inbox) = "EVENT_UNKNOWN"
    <3>1. ~raised' => ~raised /\ Head(inbox) = "EVENT_UNKNOWN"
      BY <1>6, Zenon DEF NotRegistered
    <3> QED  BY <1>6, <3>1 DEF NotRegistered, NoException
  <2>1. CallsOK'
    BY <1>6, <2>a, <2>c DEF NotRegistered, fixed, CallsOK
  <2>2. QueuesOK'
    BY <2>b, <2>d DEF QueuesOK
  <2>3. CountsOK'
    BY <1>6 DEF NotRegistered, fixed, daemon, history, calls, Send, CountsOK
  <2>4. FlagsOK'
    BY <1>6, <2>a, <2>b DEF NotRegistered, fixed, daemon, history, calls, FlagsOK
  <2>5. OneRuns'
    BY <1>6, <2>a, OneMoves DEF NotRegistered, Waiting
  <2>6. NeverWaitsInVain'
    BY <2>a, <2>b, <2>c, <2>d DEF NeverWaitsInVain, Due, Answers
  <2>7. OneAnswerEach'
    <3>1. connected /\ NoException' /\ Due = Cardinality(Open) => Due' = Cardinality(Open)'
      BY <2>b, <2>c, <2>d, <2>e, DueIs
    <3> QED  BY <3>1, <2>a, <2>e DEF OneAnswerEach
  <2>8. NothingInvented'
    BY <1>6, <2>a, <2>d DEF NotRegistered, fixed, daemon, history, calls, NothingInvented, CountsOK
  <2>9. NothingLost'
    BY <1>6, <2>a, <2>d, <2>e DEF NotRegistered, NothingLost, CountsOK
  <2>10. SubscriptionsMatch'
    BY <2>a, <2>b, SubsStay DEF Holding, Ending
  <2>11. SubscriptionsBounded'
    BY <2>a DEF SubscriptionsBounded
  <2> QED
    BY <2>1, <2>2, <2>3, <2>4, <2>5, <2>6, <2>7, <2>8, <2>9, <2>10, <2>11 DEF IInv
<1>7. ASSUME NEW g \in Calls, ReceiveAnswer(g) PROVE IInv'
  <2> DEFINE l == IF connected THEN "unregistering" ELSE "raised"
  <2>a. /\ Goto(g, l) /\ l \in Places /\ pc[g] = "receiving"
        /\ UNCHANGED <<event, connected, subs, emitted>>
    BY <1>7, Posted, Zenon DEF ReceiveAnswer, fixed, daemon, history, calls, Places, Waiting, Ended, Kinds
  <2>b. /\ outbox' \in Seq(Packets) /\ Len(outbox) \in Nat
        /\ connected => Len(outbox') = Len(outbox) + 1 /\ raised' = raised
        /\ ~connected => raised' = TRUE
    BY <1>7, Posted DEF ReceiveAnswer, Kinds
  <2>c. /\ pc' \in [Calls -> Places] /\ Cardinality(Open) \in Nat
        /\ connected => Cardinality(Open)' = Cardinality(Open)
    BY <2>a, Moved DEF IsOpen, Waiting
  <2>d. /\ inbox' \in Seq(PacketTypes) /\ Head(inbox) \in PacketTypes \ {"EVENT"}
        /\ InInbox(Answers)' \in Nat /\ InInbox({"EVENT"})' \in Nat
        /\ InInbox(Answers) = InInbox(Answers)' + (IF Head(inbox) = "EVENT" THEN 0 ELSE 1)
        /\ InInbox({"EVENT"}) =
             InInbox({"EVENT"})' + (IF Head(inbox) = "EVENT" THEN 1 ELSE 0)
    BY <1>7, Taken DEF ReceiveAnswer, PacketTypes
  <2> HIDE DEF l
  <2>e. connected /\ NoException' => NoException
    BY <1>7, <2>b DEF ReceiveAnswer, NoException
  <2>1. CallsOK'
    BY <1>7, <2>a, <2>c DEF ReceiveAnswer, fixed, CallsOK
  <2>2. QueuesOK'
    BY <2>b, <2>d DEF QueuesOK
  <2>3. CountsOK'
    BY <1>7 DEF ReceiveAnswer, fixed, daemon, history, calls, Send, CountsOK
  <2>4. FlagsOK'
    BY <1>7, <2>a, <2>b DEF ReceiveAnswer, fixed, daemon, history, calls, FlagsOK
  <2>5. OneRuns'
    BY <1>7, <2>a, OneMoves DEF ReceiveAnswer, Waiting
  <2>6. NeverWaitsInVain'
    BY <2>a, <2>b, <2>c, <2>d DEF NeverWaitsInVain, Due, Answers
  <2>7. OneAnswerEach'
    <3>1. Head(inbox) # "EVENT"
      BY <2>d
    <3>2. InInbox(Answers) = InInbox(Answers)' + 1 /\ InInbox(Answers)' \in Nat
      BY <3>1, <2>d
    <3>3. connected /\ NoException' /\ Due = Cardinality(Open) => Due' = Cardinality(Open)'
      BY <3>2, <2>b, <2>c, DueIs
    <3> QED  BY <3>3, <2>a, <2>e DEF OneAnswerEach
  <2>8. NothingInvented'
    BY <1>7, <2>a, <2>d DEF ReceiveAnswer, fixed, daemon, history, calls, NothingInvented, CountsOK
  <2>9. NothingLost'
    BY <1>7, <2>a, <2>b, <2>d DEF ReceiveAnswer, fixed, daemon, history, calls, NothingLost, NoException, CountsOK
  <2>10. SubscriptionsMatch'
    <3>1. CASE connected
      BY <3>1, <2>a, <1>7, Posted, SubsSend DEF ReceiveAnswer, Kinds, l, Places, Waiting
    <3>2. CASE ~connected
      BY <3>2, <2>a DEF SubscriptionsMatch
    <3> QED  BY <3>1, <3>2
  <2>11. SubscriptionsBounded'
    BY <2>a DEF SubscriptionsBounded
  <2> QED
    BY <2>1, <2>2, <2>3, <2>4, <2>5, <2>6, <2>7, <2>8, <2>9, <2>10, <2>11 DEF IInv
<1>8. ASSUME NEW g \in Calls, ReceiveUnnamed(g) PROVE IInv'
  <2> DEFINE l == IF connected THEN "unregistering" ELSE "raised"
  <2>a. /\ Goto(g, l) /\ l \in Places /\ pc[g] = "receiving"
        /\ UNCHANGED <<event, connected, subs, emitted>>
    BY <1>8, Posted, Zenon DEF ReceiveUnnamed, fixed, daemon, history, calls, Places, Waiting, Ended, Kinds
  <2>b. /\ outbox' \in Seq(Packets) /\ Len(outbox) \in Nat
        /\ connected => Len(outbox') = Len(outbox) + 1 /\ raised' = raised
        /\ ~connected => raised' = TRUE
    BY <1>8, Posted DEF ReceiveUnnamed, Kinds
  <2>c. /\ pc' \in [Calls -> Places] /\ Cardinality(Open) \in Nat
        /\ connected => Cardinality(Open)' = Cardinality(Open)
    BY <2>a, Moved DEF IsOpen, Waiting
  <2>d. /\ inbox' \in Seq(PacketTypes) /\ Head(inbox) \in PacketTypes
        /\ InInbox(Answers)' \in Nat /\ InInbox({"EVENT"})' \in Nat
        /\ InInbox(Answers) = InInbox(Answers)' + (IF Head(inbox) = "EVENT" THEN 0 ELSE 1)
        /\ InInbox({"EVENT"}) =
             InInbox({"EVENT"})' + (IF Head(inbox) = "EVENT" THEN 1 ELSE 0)
    BY <1>8, Taken DEF ReceiveUnnamed, PacketTypes
  <2> HIDE DEF l
  <2>e. ~NoException'
    <3>1. failing'[g] = TRUE
      BY <1>8 DEF ReceiveUnnamed, CallsOK
    <3> QED  BY <3>1 DEF NoException
  <2>1. CallsOK'
    BY <1>8, <2>a, <2>c DEF ReceiveUnnamed, fixed, CallsOK
  <2>2. QueuesOK'
    BY <2>b, <2>d DEF QueuesOK
  <2>3. CountsOK'
    BY <1>8 DEF ReceiveUnnamed, fixed, daemon, history, calls, Send, CountsOK
  <2>4. FlagsOK'
    BY <1>8, <2>a, <2>b DEF ReceiveUnnamed, fixed, daemon, history, calls, FlagsOK
  <2>5. OneRuns'
    BY <1>8, <2>a, OneMoves DEF ReceiveUnnamed, Waiting
  <2>6. NeverWaitsInVain'
    BY <2>a, <2>b, <2>c, <2>d DEF NeverWaitsInVain, Due, Answers
  <2>7. OneAnswerEach'
    <3>1. connected /\ NoException' /\ Due = Cardinality(Open) => Due' = Cardinality(Open)'
      BY <2>b, <2>c, <2>d, <2>e, DueIs
    <3> QED  BY <3>1, <2>a, <2>e DEF OneAnswerEach
  <2>8. NothingInvented'
    BY <1>8, <2>a, <2>d DEF ReceiveUnnamed, fixed, daemon, history, calls, NothingInvented, CountsOK
  <2>9. NothingLost'
    BY <2>e DEF NothingLost
  <2>10. SubscriptionsMatch'
    <3>1. CASE connected
      BY <3>1, <2>a, <1>8, Posted, SubsSend DEF ReceiveUnnamed, Kinds, l, Places, Waiting
    <3>2. CASE ~connected
      BY <3>2, <2>a DEF SubscriptionsMatch
    <3> QED  BY <3>1, <3>2
  <2>11. SubscriptionsBounded'
    BY <2>a DEF SubscriptionsBounded
  <2> QED
    BY <2>1, <2>2, <2>3, <2>4, <2>5, <2>6, <2>7, <2>8, <2>9, <2>10, <2>11 DEF IInv
<1>9. ASSUME NEW g \in Calls, ReceiveEvent(g) PROVE IInv'
  <2> DEFINE l == IF exited[g] THEN "receiving" ELSE "yielded"
  <2>a. /\ Goto(g, l) /\ l \in Places /\ pc[g] = "receiving"
        /\ UNCHANGED <<event, connected, subs, emitted>>
        /\ yielded' + drained' = yielded + drained + 1
        /\ yielded' \in Nat /\ drained' \in Nat
    <3>1. pc = [pc EXCEPT ![g] = pc[g]]
      BY DEF CallsOK
    <3> QED  BY <1>9, <3>1 DEF ReceiveEvent, Goto, fixed, daemon, CountsOK, Places, Waiting
  <2>b. outbox' = outbox /\ Len(outbox) \in Nat
    BY <1>9, InboxIs DEF ReceiveEvent
  <2>c. /\ pc' \in [Calls -> Places] /\ Cardinality(Open) \in Nat
        /\ Cardinality(Open)' = Cardinality(Open)
    BY <2>a, Moved DEF IsOpen, Waiting
  <2>d. /\ inbox' \in Seq(PacketTypes) /\ Head(inbox) = "EVENT"
        /\ InInbox(Answers)' \in Nat /\ InInbox({"EVENT"})' \in Nat
        /\ InInbox(Answers) = InInbox(Answers)' + (IF Head(inbox) = "EVENT" THEN 0 ELSE 1)
        /\ InInbox({"EVENT"}) =
             InInbox({"EVENT"})' + (IF Head(inbox) = "EVENT" THEN 1 ELSE 0)
    BY <1>9, Taken DEF ReceiveEvent, PacketTypes
  <2>e. NoException' => NoException
    BY <1>9 DEF ReceiveEvent, NoException
  <2>1. CallsOK'
    BY <1>9, <2>a, <2>c DEF ReceiveEvent, fixed, CallsOK
  <2>2. QueuesOK'
    BY <2>b, <2>d DEF QueuesOK
  <2>3. CountsOK'
    BY <2>a DEF CountsOK
  <2>4. FlagsOK'
    BY <1>9, <2>a DEF ReceiveEvent, FlagsOK
  <2>5. OneRuns'
    BY <1>9, <2>a, OneMoves DEF ReceiveEvent, Waiting
  <2>6. NeverWaitsInVain'
    BY <2>a, <2>b, <2>c, <2>d DEF NeverWaitsInVain, Due, Answers
  <2>7. OneAnswerEach'
    <3>1. connected /\ NoException' /\ Due = Cardinality(Open) => Due' = Cardinality(Open)'
      BY <2>b, <2>c, <2>d, <2>e, DueIs
    <3> QED  BY <3>1, <2>a, <2>e DEF OneAnswerEach
  <2>8. NothingInvented'
    BY <1>9, <2>a, <2>d DEF ReceiveEvent, NothingInvented, CountsOK
  <2>9. NothingLost'
    <3>1. emitted' = emitted /\ emitted \in Nat /\ yielded \in Nat /\ drained \in Nat
      BY <2>a DEF CountsOK
    <3>2. InInbox({"EVENT"}) = InInbox({"EVENT"})' + 1 /\ InInbox({"EVENT"})' \in Nat
      BY <2>d
    <3>3. /\ yielded' + drained' = yielded + drained + 1
          /\ yielded' \in Nat /\ drained' \in Nat
      BY <2>a
    <3>4. NoException' => yielded + drained + InInbox({"EVENT"}) = emitted
      BY <2>e DEF NothingLost
    <3>5. yielded + drained + InInbox({"EVENT"}) = yielded' + drained' + InInbox({"EVENT"})'
      <4>1. PICK y, d, r, y2, d2, r2 :
              /\ y = yielded /\ d = drained /\ r = InInbox({"EVENT"})
              /\ y2 = yielded' /\ d2 = drained' /\ r2 = InInbox({"EVENT"})'
        OBVIOUS
      <4>2. /\ y \in Nat /\ d \in Nat /\ y2 \in Nat /\ d2 \in Nat /\ r2 \in Nat
            /\ y2 + d2 = y + d + 1 /\ r = r2 + 1
        BY <3>1, <3>2, <3>3, <4>1
      <4>3. y + d + r = y2 + d2 + r2
        BY <4>2
      <4> QED  BY <4>1, <4>3
    <3> QED  BY <3>1, <3>4, <3>5 DEF NothingLost
  <2>10. SubscriptionsMatch'
    BY <2>a, <2>b, SubsStay DEF Holding, Ending
  <2>11. SubscriptionsBounded'
    BY <2>a DEF SubscriptionsBounded
  <2> QED
    BY <2>1, <2>2, <2>3, <2>4, <2>5, <2>6, <2>7, <2>8, <2>9, <2>10, <2>11 DEF IInv
<1>10. ASSUME NEW g \in Calls, Unregistered(g) PROVE IInv'
  <2> DEFINE l == IF failing[g] \/ Head(inbox) # "EVENT_CONFIRM" THEN "raised" ELSE "done"
  <2>a. /\ Goto(g, l) /\ l \in Places /\ pc[g] = "unregistering"
        /\ UNCHANGED <<event, connected, subs, emitted>>
    BY <1>10 DEF Unregistered, Take, fixed, daemon, Places, Waiting, Ended
  <2>b. outbox' = outbox /\ Len(outbox) \in Nat
    BY <1>10, InboxIs DEF Unregistered
  <2>c. /\ pc' \in [Calls -> Places] /\ Cardinality(Open) \in Nat
        /\ Cardinality(Open)' = Cardinality(Open) - 1
    BY <2>a, Moved DEF IsOpen, Waiting
  <2>d. /\ inbox' \in Seq(PacketTypes) /\ Head(inbox) \in PacketTypes
        /\ InInbox(Answers)' \in Nat /\ InInbox({"EVENT"})' \in Nat
        /\ InInbox(Answers) = InInbox(Answers)' + (IF Head(inbox) = "EVENT" THEN 0 ELSE 1)
        /\ InInbox({"EVENT"}) =
             InInbox({"EVENT"})' + (IF Head(inbox) = "EVENT" THEN 1 ELSE 0)
    BY <1>10, Taken DEF Unregistered, PacketTypes
  <2>e. /\ NoException' => NoException /\ Head(inbox) = "EVENT_CONFIRM"
        /\ raised' \in BOOLEAN
    <3>1. \/ raised' = TRUE
          \/ raised' = raised /\ Head(inbox) = "EVENT_CONFIRM"
      BY <1>10 DEF Unregistered, Take
    <3>2. failing' = failing
      BY <1>10 DEF Unregistered
    <3> QED  BY <3>1, <3>2 DEF NoException, FlagsOK
  <2>1. CallsOK'
    BY <1>10, <2>a, <2>c DEF Unregistered, fixed, CallsOK
  <2>2. QueuesOK'
    BY <2>b, <2>d DEF QueuesOK
  <2>3. CountsOK'
    BY <1>10 DEF Unregistered, fixed, daemon, history, calls, CountsOK
  <2>4. FlagsOK'
    BY <2>a, <2>e DEF FlagsOK
  <2>5. OneRuns'
    BY <1>10, <2>a, OneMoves DEF Unregistered, Waiting
  <2>6. NeverWaitsInVain'
    BY <2>a, <2>b, <2>c, <2>d DEF NeverWaitsInVain, Due, Answers
  <2>7. OneAnswerEach'
    <3>1. connected /\ NoException' /\ Due = Cardinality(Open) => Due' = Cardinality(Open)'
      BY <2>b, <2>c, <2>d, <2>e, DueIs
    <3> QED  BY <3>1, <2>a, <2>e DEF OneAnswerEach
  <2>8. NothingInvented'
    BY <1>10, <2>a, <2>d DEF Unregistered, NothingInvented, CountsOK
  <2>9. NothingLost'
    BY <1>10, <2>a, <2>d, <2>e DEF Unregistered, NothingLost, CountsOK
  <2>10. SubscriptionsMatch'
    BY <2>a, <2>b, SubsStay DEF Holding, Ending
  <2>11. SubscriptionsBounded'
    BY <2>a DEF SubscriptionsBounded
  <2> QED
    BY <2>1, <2>2, <2>3, <2>4, <2>5, <2>6, <2>7, <2>8, <2>9, <2>10, <2>11 DEF IInv
<1>11. ASSUME NEW g \in Calls, ReceiveFails(g) PROVE IInv'
  <2> DEFINE l == IF pc[g] = "registering" THEN "refused" ELSE "raised"
  <2>a. /\ Goto(g, l) /\ l \in Places /\ pc[g] \in Waiting
        /\ UNCHANGED <<event, connected, subs, emitted>>
        /\ ~connected /\ raised' = TRUE
    BY <1>11 DEF ReceiveFails, fixed, daemon, Places, Waiting, Ended
  <2>b. outbox' = outbox /\ Len(outbox) \in Nat
    BY <1>11, InboxIs DEF ReceiveFails
  <2>c. /\ pc' \in [Calls -> Places]
    BY <2>a, Moved
  <2>d. /\ inbox' = inbox
        /\ InInbox({"EVENT"})' = InInbox({"EVENT"}) /\ InInbox({"EVENT"}) \in Nat
    BY <1>11, InboxIs DEF ReceiveFails, InInbox
  <2>e. ~NoException'
    BY <2>a DEF NoException
  <2>1. CallsOK'
    BY <1>11, <2>a, <2>c DEF ReceiveFails, fixed, CallsOK
  <2>2. QueuesOK'
    BY <2>b, <2>d DEF QueuesOK
  <2>3. CountsOK'
    BY <1>11 DEF ReceiveFails, fixed, daemon, history, calls, CountsOK
  <2>4. FlagsOK'
    BY <1>11, <2>a DEF ReceiveFails, FlagsOK
  <2>5. OneRuns'
    BY <1>11, <2>a, OneMoves DEF ReceiveFails, Waiting
  <2>6. NeverWaitsInVain'
    BY <2>a, <2>b, <2>c, <2>d DEF NeverWaitsInVain, Due, Answers
  <2>7. OneAnswerEach'
    <3>1. connected /\ NoException' /\ Due = Cardinality(Open) => Due' = Cardinality(Open)'
      BY <2>b, <2>c, <2>d, <2>e, DueIs
    <3> QED  BY <3>1, <2>a, <2>e DEF OneAnswerEach
  <2>8. NothingInvented'
    BY <1>11, <2>a, <2>d DEF ReceiveFails, NothingInvented, CountsOK
  <2>9. NothingLost'
    BY <1>11, <2>a, <2>d, <2>e DEF ReceiveFails, NothingLost, CountsOK
  <2>10. SubscriptionsMatch'
    BY <2>a DEF SubscriptionsMatch
  <2>11. SubscriptionsBounded'
    BY <2>a DEF SubscriptionsBounded
  <2> QED
    BY <2>1, <2>2, <2>3, <2>4, <2>5, <2>6, <2>7, <2>8, <2>9, <2>10, <2>11 DEF IInv
<1>12. ASSUME DaemonRegister PROVE IInv'
  <2> DEFINE e == Head(outbox).event
  <2>1. /\ connected /\ outbox # <<>> /\ Head(outbox) \in Packets
        /\ Head(outbox).kind = "REGISTER"
    BY <1>12, CountTail DEF DaemonRegister, Pending, QueuesOK
  <2>2. \A d \in Known : /\ Head(outbox) \in Registers(d) <=> d = e
                         /\ Head(outbox) \notin Unregisters(d)
    BY <2>1 DEF Registers, Unregisters, Packets
  <2> HIDE DEF e
  <2>3. CASE e \in Known
    <3>1. subs' = [subs EXCEPT ![e] = @ + 1] /\ Reply("EVENT_CONFIRM")
      BY <1>12, <2>3 DEF DaemonRegister, e
    <3>2. subs' \in [Known -> Nat]
      BY <3>1, <2>3 DEF CountsOK
    <3>3. \A d \in Known : subs'[d] = IF d = e THEN subs[d] + 1 ELSE subs[d]
      BY <3>1 DEF CountsOK
    <3> QED  BY <2>1, <2>2, <3>1, <3>2, <3>3, Replied DEF Answers, PacketTypes
  <2>4. CASE e \notin Known
    <3>1. subs' = subs /\ Reply("EVENT_UNKNOWN")
      BY <1>12, <2>4 DEF DaemonRegister, e
    <3> QED  BY <2>1, <2>2, <2>4, <3>1, Replied DEF Answers, PacketTypes, CountsOK
  <2> QED  BY <2>3, <2>4
<1>13. ASSUME DaemonUnregister PROVE IInv'
  <2> DEFINE e == Head(outbox).event
  <2>1. /\ connected /\ outbox # <<>> /\ Head(outbox) \in Packets
        /\ Head(outbox).kind = "UNREGISTER"
    BY <1>13, CountTail DEF DaemonUnregister, Pending, QueuesOK
  <2>2. \A d \in Known : /\ Head(outbox) \in Unregisters(d) <=> d = e
                         /\ Head(outbox) \notin Registers(d)
    BY <2>1 DEF Registers, Unregisters, Packets
  <2> HIDE DEF e
  <2>3. CASE e \in Known
    <3>1. subs[e] > 0 /\ subs[e] \in Nat
      BY <2>1, <2>2, <2>3, RemovesWhatIsThere DEF CountsOK
    <3>2. subs' = [subs EXCEPT ![e] = @ - 1] /\ Reply("EVENT_CONFIRM")
      BY <1>13, <2>3, <3>1 DEF DaemonUnregister, e
    <3>3. subs' \in [Known -> Nat]
      BY <3>1, <3>2, <2>3 DEF CountsOK
    <3>4. \A d \in Known : subs'[d] = IF d = e THEN subs[d] - 1 ELSE subs[d]
      BY <3>2 DEF CountsOK
    <3> QED  BY <2>1, <2>2, <3>2, <3>3, <3>4, Replied DEF Answers, PacketTypes
  <2>4. CASE e \notin Known
    <3>1. subs' = subs /\ Reply("EVENT_UNKNOWN")
      BY <1>13, <2>4 DEF DaemonUnregister, e
    <3> QED  BY <2>1, <2>2, <2>4, <3>1, Replied DEF Answers, PacketTypes, CountsOK
  <2> QED  BY <2>3, <2>4
<1>14. ASSUME DaemonRespond PROVE IInv'
  <2>1. /\ connected /\ outbox # <<>> /\ Head(outbox) \in Packets
        /\ Head(outbox).kind = "REQUEST" /\ subs' = subs
    BY <1>14, CountTail DEF DaemonRespond, Pending, QueuesOK
  <2>2. \A d \in Known : Head(outbox) \notin Registers(d) \cup Unregisters(d)
    BY <2>1 DEF Registers, Unregisters
  <2>3. subs' \in [Known -> Nat]
    BY <2>1 DEF CountsOK
  <2>4. PICK x \in Answers : Reply(x)
    BY <1>14 DEF DaemonRespond, Answers, PacketTypes
  <2> QED  BY <2>1, <2>2, <2>3, <2>4, Replied
<1>15. ASSUME DaemonEvent PROVE IInv'
  <2>1. /\ UNCHANGED <<pc, event, exited, failing, outbox, connected, subs, yielded,
                       drained, raised>>
        /\ emitted' = emitted + 1 /\ emitted < MaxEvents /\ inbox' = Append(inbox, "EVENT")
    BY <1>15 DEF DaemonEvent, calls, fixed, history
  <2>2. /\ inbox' \in Seq(PacketTypes)
        /\ InInbox(Answers)' = InInbox(Answers) /\ InInbox(Answers) \in Nat
        /\ InInbox({"EVENT"})' = InInbox({"EVENT"}) + 1 /\ InInbox({"EVENT"}) \in Nat
    BY <2>1, Arrived DEF PacketTypes
  <2>3. Open' = Open
    BY <2>1 DEF Open
  <2>4. CountsOK'
    BY <2>1, ViciAssumption DEF CountsOK
  <2>5. QueuesOK'
    BY <2>1, <2>2 DEF QueuesOK
  <2>6. CallsOK' /\ FlagsOK' /\ OneRuns'
    BY <2>1, Zenon DEF CallsOK, FlagsOK, OneRuns
  <2>7. NeverWaitsInVain' /\ OneAnswerEach'
    BY <2>1, <2>2, <2>3 DEF NeverWaitsInVain, OneAnswerEach, NoException, Due, Answers
  <2>8. NothingInvented' /\ NothingLost'
    BY <2>1, <2>2, ViciAssumption DEF NothingInvented, NothingLost, NoException, CountsOK
  <2>9. SubscriptionsMatch' /\ SubscriptionsBounded'
    BY <2>1 DEF SubscriptionsMatch, SubscriptionsBounded, CallsFor
  <2> QED  BY <2>4, <2>5, <2>6, <2>7, <2>8, <2>9
<1>16. ASSUME Disconnect PROVE IInv'
  <2>1. /\ UNCHANGED <<pc, event, exited, failing, inbox, subs, emitted, yielded, drained,
                       raised>>
        /\ connected' = FALSE /\ outbox' = <<>>
    BY <1>16 DEF Disconnect, calls, fixed, daemon, history
  <2>2. CountsOK' /\ QueuesOK'
    BY <2>1, EmptySeq DEF CountsOK, QueuesOK
  <2>3. CallsOK' /\ FlagsOK' /\ OneRuns'
    BY <2>1, Zenon DEF CallsOK, FlagsOK, OneRuns
  <2>4. NeverWaitsInVain' /\ OneAnswerEach' /\ SubscriptionsMatch'
    BY <2>1 DEF NeverWaitsInVain, OneAnswerEach, SubscriptionsMatch
  <2>5. NothingInvented' /\ NothingLost'
    BY <2>1 DEF NothingInvented, NothingLost, NoException, InInbox
  <2>6. SubscriptionsBounded'
    BY <2>1 DEF SubscriptionsBounded
  <2> QED  BY <2>2, <2>3, <2>4, <2>5, <2>6
<1>17. CASE UNCHANGED vars
  <2>1. UNCHANGED <<pc, event, exited, failing, inbox, outbox, connected, subs, emitted,
                    yielded, drained, raised>>
    BY <1>17 DEF vars, calls, fixed, daemon, history
  <2>2. CountsOK' /\ QueuesOK' /\ SubscriptionsBounded'
    BY <2>1 DEF CountsOK, QueuesOK, SubscriptionsBounded
  <2>3. CallsOK' /\ FlagsOK' /\ OneRuns'
    BY <2>1, Zenon DEF CallsOK, FlagsOK, OneRuns
  <2>4. NeverWaitsInVain' /\ OneAnswerEach'
    BY <2>1 DEF NeverWaitsInVain, OneAnswerEach, NoException, Due, InInbox, Open
  <2>5. NothingInvented' /\ NothingLost'
    BY <2>1 DEF NothingInvented, NothingLost, NoException, InInbox
  <2>6. SubscriptionsMatch'
    BY <2>1 DEF SubscriptionsMatch, CallsFor
  <2> QED  BY <2>2, <2>3, <2>4, <2>5, <2>6
<1> QED
  BY <1>1, <1>2, <1>3, <1>4, <1>5, <1>6, <1>7, <1>8, <1>9, <1>10, <1>11, <1>12, <1>13,
     <1>14, <1>15, <1>16, <1>17 DEF Next, Caller, streamed_request, Answer

LEMMA InitIInv == Init => IInv
<1> SUFFICES ASSUME Init PROVE IInv
  OBVIOUS
<1> USE ViciAssumption
<1>1. /\ Cardinality(Open) = 0 /\ Cardinality(Calls) \in Nat
      /\ \A T : InInbox(T) = 0
  <2>1. Open = {}
    BY DEF Init, Open, Waiting
  <2>2. \A T : {i \in DOMAIN inbox : inbox[i] \in T} = {}
    BY EmptySeq DEF Init
  <2> QED  BY <2>1, <2>2, FS_EmptySet, FS_CardinalityType DEF InInbox
<1>2. CallsOK /\ QueuesOK
  BY EmptySeq DEF Init, CallsOK, QueuesOK, Places
<1>3. CountsOK
  BY DEF Init, CountsOK
<1>4. FlagsOK
  BY Zenon DEF Init, FlagsOK
<1>5. OneRuns
  BY DEF Init, OneRuns, Waiting
<1>6. NeverWaitsInVain /\ OneAnswerEach
  BY <1>1, EmptySeq DEF Init, NeverWaitsInVain, OneAnswerEach, Due
<1>7. NothingInvented /\ NothingLost
  BY <1>1 DEF Init, NothingInvented, NothingLost
<1>8. SubscriptionsMatch
  <2> SUFFICES ASSUME NEW e \in Known
               PROVE  Match(e, outbox, subs[e], Among(pc, CallsFor(e), Holding),
                            Among(pc, CallsFor(e), Ending))
    BY DEF SubscriptionsMatch
  <2>1. Among(pc, CallsFor(e), Holding) = 0
    <3>1. CallsFor(e) \in SUBSET Calls
      BY DEF CallsFor
    <3>2. \A g \in CallsFor(e) : pc[g] \notin Holding
      BY <3>1 DEF Init, Holding
    <3> QED  BY <3>1, <3>2, FS_Subset, AmongType
  <2>2. Among(pc, CallsFor(e), Ending) \in Nat
    BY HoldAndEnd
  <2>3. /\ Len(outbox) = 0 /\ subs[e] = 0
        /\ \A T : Count(outbox, T, 0) = 0
    BY EmptySeq, CountNone DEF Init
  <2> QED  BY <2>1, <2>2, <2>3 DEF Match
<1>9. SubscriptionsBounded
  BY <1>1 DEF Init, SubscriptionsBounded
<1> QED  BY <1>2, <1>3, <1>4, <1>5, <1>6, <1>7, <1>8, <1>9 DEF IInv

LEMMA AlwaysIInv == Spec => []IInv
BY InitIInv, NextIInv, PTL DEF Spec

-----------------------------------------------------------------------------
(* Theorems. *)

\* What the variables range over; in particular only one generator runs at a
\* time, and no event has more subscriptions than there are calls.
THEOREM TypeCorrect == Spec => []TypeOK
<1>1. IInv => TypeOK
  <2> SUFFICES ASSUME IInv PROVE TypeOK
    OBVIOUS
  <2> USE ViciAssumption DEF IInv
  <2> DEFINE running == {g \in Calls : pc[g] \in Waiting}
  <2>1. Cardinality(running) <= 1
    <3>1. running = {} \/ \E g : running = {g}
      BY DEF OneRuns
    <3> HIDE DEF running
    <3>2. CASE running = {}
      BY <3>2, FS_EmptySet
    <3>3. ASSUME NEW g, running = {g} PROVE Cardinality(running) <= 1
      BY <3>3, FS_Singleton
    <3> QED  BY <3>1, <3>2, <3>3
  <2>2. yielded \in 0 .. MaxEvents /\ drained \in 0 .. MaxEvents
    <3>1. InInbox({"EVENT"}) \in Nat
      BY InboxIs
    <3> QED  BY <3>1 DEF NothingInvented, CountsOK
  <2>3. subs \in [Known -> 0 .. Cardinality(Calls)]
    <3>1. Cardinality(Calls) \in Nat
      BY FS_CardinalityType
    <3> QED  BY <3>1 DEF CountsOK, SubscriptionsBounded
  <2>4. /\ pc \in [Calls -> {"new", "yielded"} \cup Waiting \cup Ended]
        /\ event \in [Calls -> EventTypes]
        /\ exited \in [Calls -> BOOLEAN] /\ failing \in [Calls -> BOOLEAN]
        /\ connected \in BOOLEAN /\ raised \in BOOLEAN
    BY Zenon DEF CallsOK, Places, FlagsOK
  <2>5. /\ outbox \in Seq([kind : {"REGISTER", "UNREGISTER", "REQUEST"}, event : EventTypes])
        /\ inbox \in Seq(PacketTypes) /\ emitted \in 0 .. MaxEvents
    BY DEF QueuesOK, Packets, CountsOK
  <2> QED  BY <2>1, <2>2, <2>3, <2>4, <2>5, Zenon DEF TypeOK
<1> QED  BY <1>1, AlwaysIInv, PTL

\* Whatever packets generators on the same connection take from each other, an
\* answer is due for each open one: none waits for a packet that is not coming.
THEOREM AnswersStayDue == Spec => []NeverWaitsInVain
<1>1. IInv => NeverWaitsInVain
  BY DEF IInv
<1> QED  BY <1>1, AlwaysIInv, PTL

\* Until an exception is raised each open generator has one answer to come,
\* and every event the daemon sent is accounted for.
THEOREM SessionInStep == Spec => []InStep
<1>1. IInv => InStep
  BY DEF IInv, InStep
<1> QED  BY <1>1, AlwaysIInv, PTL

\* The finally clause of streamed_request() ends every subscription but those
\* of calls whose registration raised an exception.
THEOREM LeaksAreRefusals == Spec => []LeakNeedsRefusal
<1>1. IInv => LeakNeedsRefusal
  <2> SUFFICES ASSUME IInv, connected, outbox = <<>>, Open = {}, NEW e \in Known
               PROVE  subs[e] <= Cardinality({g \in Calls : pc[g] = "refused" /\ event[g] = e})
    BY DEF LeakNeedsRefusal
  <2>1. Match(e, outbox, subs[e], Among(pc, CallsFor(e), Holding),
              Among(pc, CallsFor(e), Ending))
    BY DEF IInv, SubscriptionsMatch
  <2>2. Len(outbox) = 0 /\ \A T : Count(outbox, T, 0) = 0
    BY EmptySeq, CountNone
  <2>3. Among(pc, CallsFor(e), Holding) \in Nat /\ subs[e] \in Nat
    BY HoldAndEnd DEF IInv, CountsOK
  <2>4. subs[e] = Among(pc, CallsFor(e), Holding)
    BY <2>1, <2>2, <2>3 DEF Match
  <2>5. {g \in CallsFor(e) : pc[g] \in Holding}
          = {g \in Calls : pc[g] = "refused" /\ event[g] = e}
    BY DEF CallsFor, Holding, Open, Waiting
  <2>6. Among(pc, CallsFor(e), Holding)
          = Cardinality({g \in Calls : pc[g] = "refused" /\ event[g] = e})
    BY <2>5, Zenon DEF Among
  <2> QED  BY <2>3, <2>4, <2>6
<1> QED  BY <1>1, AlwaysIInv, PTL

=============================================================================
