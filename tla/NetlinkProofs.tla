--------------------------- MODULE NetlinkProofs ---------------------------
(***************************************************************************)
(* Theorems about Netlink, for all values of its constants: whose answer a *)
(* report is, what is conserved while answers travel from the kernel into  *)
(* msgbuf, and that the transport implements NetlinkContract.              *)
(***************************************************************************)
EXTENDS Netlink, TLAPS, SequenceTheorems, FiniteSetTheorems, Counting

Entries == [seq : Seqs, req : Requests, left : 0 .. DumpSize]
Datagrams == Seq(Messages) \ {<<>>}

-----------------------------------------------------------------------------
(* Lemmas on the operators. *)

\* Removing an element leaves a sequence over the same set, one shorter.
LEMMA RemoveProperties ==
  ASSUME NEW S, NEW s \in Seq(S), NEW i \in DOMAIN s
  PROVE  /\ Remove(s, i) \in Seq(S)
         /\ Len(Remove(s, i)) = Len(s) - 1
<1>1. i \in 1 .. Len(s) /\ Len(s) \in Nat /\ \A j \in 1 .. Len(s) : s[j] \in S
  BY LenProperties, ElementOfSeq
<1>2. /\ SubSeq(s, 1, i - 1) \in Seq(S)
      /\ Len(SubSeq(s, 1, i - 1)) = i - 1
  BY <1>1, SubSeqProperties
<1>3. /\ SubSeq(s, i + 1, Len(s)) \in Seq(S)
      /\ Len(SubSeq(s, i + 1, Len(s))) = Len(s) - i
  BY <1>1, SubSeqProperties
<1> DEFINE a == SubSeq(s, 1, i - 1)
           b == SubSeq(s, i + 1, Len(s))
<1>4. /\ a \in Seq(S) /\ Len(a) = i - 1
      /\ b \in Seq(S) /\ Len(b) = Len(s) - i
  BY <1>2, <1>3, Zenon
<1> HIDE DEF a, b
<1>5. a \o b \in Seq(S) /\ Len(a \o b) = Len(a) + Len(b)
  BY <1>4, ConcatProperties
<1>6. Len(a \o b) = Len(s) - 1
  BY <1>1, <1>4, <1>5
<1> QED  BY <1>5, <1>6, Zenon DEF Remove, a, b

\* The parts of a dump, and what closes an answer, are datagrams.
LEMMA MessageTypes ==
  ASSUME NEW s \in Seqs, NEW d \in Decisions
  PROVE  Zero \in Messages /\ Item(s) \in Messages /\ Done(s) \in Messages
         /\ Error(s, d) \in Messages
BY NetlinkAssumption DEF Seqs, Messages, Decisions, Zero, Item, Done, Error

LEMMA ItemsProperties ==
  ASSUME NEW s \in Seqs, NEW n \in Nat
  PROVE  /\ Items(s, n) \in Seq(Messages)
         /\ Len(Items(s, n)) = n
         /\ \A j \in 1 .. n : Items(s, n)[j] = Item(s)
<1>1. Item(s) \in Messages
  BY MessageTypes DEF Decisions
<1>2. Items(s, n) \in [1 .. n -> Messages]
  BY <1>1 DEF Items
<1> QED  BY <1>2 DEF Items

LEMMA AnswerDatagrams ==
  ASSUME NEW s \in Seqs
  PROVE  /\ \A d \in Decisions : <<Error(s, d)>> \in Datagrams
         /\ \A n \in Nat \ {0} : Items(s, n) \in Datagrams
         /\ \A n \in Nat : Append(Items(s, n), Done(s)) \in Datagrams
<1>1. ASSUME NEW d \in Decisions PROVE <<Error(s, d)>> \in Datagrams
  BY <1>1, MessageTypes DEF Datagrams
<1>2. ASSUME NEW n \in Nat \ {0} PROVE Items(s, n) \in Datagrams
  BY <1>2, ItemsProperties, EmptySeq DEF Datagrams
<1>3. ASSUME NEW n \in Nat PROVE Append(Items(s, n), Done(s)) \in Datagrams
  <2>1. Items(s, n) \in Seq(Messages) /\ Done(s) \in Messages
    BY <1>3, ItemsProperties, MessageTypes DEF Decisions
  <2> QED  BY <2>1, AppendProperties DEF Datagrams
<1> QED  BY <1>1, <1>2, <1>3

\* What the kernel decides is a decision, and only objects come to exist.
LEMMA DecidedType ==
  ASSUME NEW r \in Requests, r.kind # "dump", installed \subseteq Objects,
         NEW d \in Decided(r)
  PROVE  d \in Decisions /\ Applied(r, d) \subseteq Objects
<1>1. r.obj \in Objects /\ r.kind \in {"replace", "create", "delete"}
  BY DEF Requests
<1> QED  BY <1>1 DEF Decided, Applied, Decisions

LEMMA ReportType == \A e : Report(e) \in Outcomes
BY DEF Report, Outcomes

\* Delivering a datagram keeps the kernel's side of the socket well formed.
LEMMA DeliverType ==
  ASSUME TypeOK, NEW d \in Datagrams, Deliver(d)
  PROVE  rx' \in Seq(Datagrams) /\ soerr' \in BOOLEAN /\ losses' \in 0 .. MaxLosses
<1>1. CASE rx' = Append(rx, d) /\ UNCHANGED <<soerr, losses>>
  BY <1>1, AppendProperties DEF TypeOK, Datagrams
<1>2. CASE losses < MaxLosses /\ losses' = losses + 1 /\ soerr' = TRUE /\ UNCHANGED rx
  BY <1>2, NetlinkAssumption DEF TypeOK, Datagrams
<1> QED  BY <1>1, <1>2 DEF Deliver

-----------------------------------------------------------------------------
(* Type correctness. *)

LEMMA InitTypeOK == Init => TypeOK
<1> SUFFICES ASSUME Init PROVE TypeOK
  OBVIOUS
<1>1. Zero \in Messages
  BY NetlinkAssumption DEF Zero, Messages, Decisions
<1>2. msgbuf \in [1 .. MsgbufSlots -> Messages]
  BY <1>1 DEF Init
<1>3. serving \in Seq(Entries) /\ rx \in Seq(Datagrams)
  BY EmptySeq DEF Init
<1>4. verdict \in [Seqs -> Decisions \cup {"none"}]
  BY DEF Init
<1>5. /\ pc = "idle" /\ pc \in Locations /\ seq = 0 /\ req = NoRequest
      /\ outcome \in Outcomes /\ soerr \in BOOLEAN /\ installed \subseteq Objects
  BY DEF Init, Locations, Outcomes
<1>6. /\ msgbufLen \in 0 .. MsgbufSlots /\ listed \in 0 .. MsgbufSlots
      /\ abandoned \in 0 .. MaxAbandoned
      /\ losses \in 0 .. MaxLosses /\ busy \in 0 .. MaxBusy
  BY NetlinkAssumption DEF Init
<1> QED  BY <1>2, <1>3, <1>4, <1>5, <1>6 DEF TypeOK, Entries, Datagrams

\* The steps of the requesting thread.
LEMMA ClientTypeOK ==
  ASSUME TypeOK,
         \/ \E r \in Requests : Call(r)
         \/ Progress \/ SelectFails \/ SelectExpires \/ RecvInterrupted
  PROVE  TypeOK'
<1> USE NetlinkAssumption
<1>1. CASE \E r \in Requests : Call(r)
  BY <1>1 DEF TypeOK, Call, kernel, Locations, Seqs
<1>2. CASE Transmit
  <2>1. [seq |-> seq, req |-> req, left |-> DumpSize] \in Entries
    BY <1>2 DEF TypeOK, Transmit, Entries
  <2>2. serving' \in Seq(Entries)
    BY <2>1, <1>2, AppendProperties DEF TypeOK, Transmit, Entries
  <2> QED  BY <2>2, <1>2 DEF TypeOK, Transmit, Locations, Entries
<1>3. CASE WriteFails
  BY <1>3 DEF TypeOK, WriteFails, kernel, Locations, Outcomes
<1>4. CASE RecvFails
  BY <1>4 DEF TypeOK, RecvFails, Locations
<1>5. CASE Receive
  <2>1. Head(rx) \in Datagrams /\ rx' \in Seq(Datagrams)
    BY <1>5, HeadTailProperties DEF TypeOK, Receive, Datagrams
  <2>2. PICK n \in 1 .. Len(Head(rx)) :
          \/ /\ msgbufLen + n <= MsgbufSlots
             /\ msgbuf' = [i \in 1 .. MsgbufSlots |->
                             IF i \in msgbufLen + 1 .. msgbufLen + n
                             THEN Head(rx)[i - msgbufLen] ELSE msgbuf[i]]
             /\ msgbufLen' = msgbufLen + n
             /\ pc' \in {"reply", "select"}
          \/ /\ pc' = "overrun"
             /\ UNCHANGED <<msgbuf, msgbufLen>>
    BY <1>5 DEF Receive
  <2>3. n \in Nat /\ \A k \in 1 .. n : Head(rx)[k] \in Messages
    BY <2>1, <2>2, LenProperties, ElementOfSeq DEF Datagrams
  <2>4. msgbuf' \in [1 .. MsgbufSlots -> Messages]
    <3>1. msgbufLen \in Nat /\ msgbuf \in [1 .. MsgbufSlots -> Messages]
      BY DEF TypeOK
    <3>2. ASSUME NEW i \in 1 .. MsgbufSlots, i \in msgbufLen + 1 .. msgbufLen + n
          PROVE  Head(rx)[i - msgbufLen] \in Messages
      <4>1. i - msgbufLen \in 1 .. n
        BY <3>1, <3>2, <2>3
      <4> QED  BY <4>1, <2>3
    <3> QED  BY <2>2, <3>1, <3>2
  <2>5. msgbufLen' \in 0 .. MsgbufSlots /\ pc' \in Locations /\ pc' # "idle"
    BY <2>2, <2>3 DEF TypeOK, Locations
  <2>6. pc # "idle"
    BY <1>5 DEF Receive
  <2> QED  BY <2>1, <2>4, <2>5, <2>6, <1>5 DEF TypeOK, Receive, Datagrams
<1>6. CASE RetryBusy
  BY <1>6 DEF TypeOK, RetryBusy, kernel, Locations
<1>7. CASE ReturnAck
  <2>1. outcome' \in Outcomes
    BY <1>7, ReportType DEF ReturnAck, Outcomes
  <2> QED  BY <2>1, <1>7 DEF TypeOK, ReturnAck, kernel, Locations
<1>8. CASE ReturnDump
  <2> DEFINE walked == {i \in 1 .. msgbufLen :
                          /\ msgbuf[i].type = "ITEM"
                          /\ \A j \in 1 .. i : msgbuf[j].type # "DONE"}
  <2>1. msgbufLen \in 0 .. MsgbufSlots
    BY DEF TypeOK
  <2>2. IsFiniteSet(1 .. msgbufLen) /\ Cardinality(1 .. msgbufLen) = msgbufLen
    BY <2>1, FS_Interval
  <2>3. Cardinality(walked) \in Nat /\ Cardinality(walked) <= msgbufLen
    BY <2>2, FS_Subset, FS_CardinalityType
  <2>4. listed' \in 0 .. MsgbufSlots
    BY <2>1, <2>3, <1>8 DEF ReturnDump
  <2> QED  BY <2>4, <1>8 DEF TypeOK, ReturnDump, kernel, Locations, Outcomes
<1>9. CASE SelectFails
  BY <1>9 DEF TypeOK, SelectFails, kernel, Locations
<1>10. CASE SelectExpires \/ RecvInterrupted
  BY <1>10 DEF TypeOK, SelectExpires, RecvInterrupted, kernel, Locations
<1> QED  BY <1>1, <1>2, <1>3, <1>4, <1>5, <1>6, <1>7, <1>8, <1>9, <1>10
         DEF Progress

\* The steps of the kernel.
LEMMA KernelTypeOK ==
  ASSUME TypeOK, Kernel
  PROVE  TypeOK'
<1> USE NetlinkAssumption
<1>1. PICK i \in DOMAIN serving : Execute(i) \/ AnswerBusy(i) \/ DumpPart(i)
  BY DEF Kernel
<1> DEFINE t == serving[i]
<1>2. serving \in Seq(Entries) /\ i \in 1 .. Len(serving) /\ t \in Entries
  BY LenProperties, ElementOfSeq DEF TypeOK, Entries
<1>3. t.seq \in Seqs /\ t.req \in Requests /\ t.left \in 0 .. DumpSize
  BY <1>2 DEF Entries
<1>4. Remove(serving, i) \in Seq(Entries)
  BY <1>2, RemoveProperties
<1> HIDE DEF t
<1>5. CASE Execute(i)
  <2>1. PICK d \in IF t.req.kind = "dump" THEN {"refused"} ELSE Decided(t.req) :
          /\ verdict' = [verdict EXCEPT ![t.seq] = d]
          /\ installed' = Applied(t.req, d)
          /\ serving' = Remove(serving, i)
          /\ Deliver(<<Error(t.seq, d)>>)
          /\ UNCHANGED <<client, abandoned, busy>>
    BY <1>5 DEF Execute, t
  <2>2. d \in Decisions /\ Applied(t.req, d) \subseteq Objects
    <3>1. CASE t.req.kind = "dump"
      BY <3>1, <2>1 DEF Decisions, Applied, TypeOK
    <3>2. CASE t.req.kind # "dump"
      BY <3>2, <2>1, <1>3, DecidedType DEF TypeOK
    <3> QED  BY <3>1, <3>2
  <2>3. verdict' \in [Seqs -> Decisions \cup {"none"}]
    BY <2>1, <2>2, <1>3 DEF TypeOK
  <2>4. rx' \in Seq(Datagrams) /\ soerr' \in BOOLEAN /\ losses' \in 0 .. MaxLosses
    BY <2>1, <2>2, <1>3, AnswerDatagrams, DeliverType
  <2> QED  BY <2>1, <2>2, <2>3, <2>4, <1>4 DEF TypeOK, client, Entries, Datagrams
<1>6. CASE AnswerBusy(i)
  <2>1. /\ busy' \in 0 .. MaxBusy
        /\ serving' = Remove(serving, i)
        /\ Deliver(<<Error(t.seq, "EBUSY")>>)
        /\ UNCHANGED <<client, installed, abandoned>>
    BY <1>6 DEF AnswerBusy, t, TypeOK
  <2>2. verdict' \in [Seqs -> Decisions \cup {"none"}]
    BY <1>6, <1>3 DEF AnswerBusy, t, TypeOK, Decisions
  <2>3. rx' \in Seq(Datagrams) /\ soerr' \in BOOLEAN /\ losses' \in 0 .. MaxLosses
    BY <2>1, <1>3, AnswerDatagrams, DeliverType DEF Decisions
  <2> QED  BY <2>1, <2>2, <2>3, <1>4 DEF TypeOK, client, Entries, Datagrams
<1>7. CASE DumpPart(i)
  <2>1. UNCHANGED <<client, installed, abandoned, busy>>
    BY <1>7 DEF DumpPart
  <2>2. CASE \E n \in 1 .. t.left :
               /\ serving' = [serving EXCEPT ![i].left = @ - n]
               /\ UNCHANGED verdict
               /\ Deliver(Items(t.seq, n))
    <3>1. PICK n \in 1 .. t.left :
               /\ serving' = [serving EXCEPT ![i].left = @ - n]
               /\ UNCHANGED verdict
               /\ Deliver(Items(t.seq, n))
      BY <2>2
    <3>2. [t EXCEPT !.left = t.left - n] \in Entries
      <4>1. t.left - n \in 0 .. DumpSize
        BY <3>1, <1>3
      <4> QED  BY <4>1, <1>2 DEF Entries
    <3>3. serving' = [serving EXCEPT ![i] = [t EXCEPT !.left = t.left - n]]
      BY <3>1 DEF t
    <3>4. serving' \in Seq(Entries)
      BY <3>2, <3>3, <1>2, ExceptSeq
    <3>5. rx' \in Seq(Datagrams) /\ soerr' \in BOOLEAN /\ losses' \in 0 .. MaxLosses
      BY <3>1, <1>3, AnswerDatagrams, DeliverType
    <3> QED  BY <3>1, <3>4, <3>5, <2>1 DEF TypeOK, client, Entries, Datagrams
  <2>3. CASE /\ serving' = Remove(serving, i)
             /\ verdict' = [verdict EXCEPT ![t.seq] = "ok"]
             /\ Deliver(Append(Items(t.seq, t.left), Done(t.seq)))
    <3>1. verdict' \in [Seqs -> Decisions \cup {"none"}]
      BY <2>3, <1>3 DEF TypeOK, Decisions
    <3>2. rx' \in Seq(Datagrams) /\ soerr' \in BOOLEAN /\ losses' \in 0 .. MaxLosses
      BY <2>3, <1>3, AnswerDatagrams, DeliverType
    <3> QED  BY <3>1, <3>2, <2>1, <2>3, <1>4 DEF TypeOK, client, Entries, Datagrams
  <2> QED  BY <1>7, <2>2, <2>3 DEF DumpPart, t
<1> QED  BY <1>1, <1>5, <1>6, <1>7

LEMMA NextTypeOK == TypeOK /\ [Next]_vars => TypeOK'
<1> SUFFICES ASSUME TypeOK, [Next]_vars PROVE TypeOK'
  OBVIOUS
<1>1. CASE Next
  BY <1>1, ClientTypeOK, KernelTypeOK DEF Next
<1>2. CASE UNCHANGED vars
  BY <1>2 DEF TypeOK, vars, client, kernel
<1> QED  BY <1>1, <1>2

\* The state keeps its shape whatever the bounds: a request that is under way
\* has a number and an operation, and queue() advances msgbufLen only within
\* msgbuf or into the fault state.
THEOREM TypeCorrect == Spec => []TypeOK
BY InitTypeOK, NextTypeOK, PTL DEF Spec

-----------------------------------------------------------------------------
(* No call abandoned: reports are faithful, nothing is sent again too late.  *)
(* IInv is needed because ReportFaithful speaks of finished calls only; what *)
(* keeps it true is that no answer but the awaited one is ever under way.    *)

\* abandoned only grows.
LEMMA AbandonedGrows ==
  ASSUME TypeOK, [Next]_vars, abandoned' = 0
  PROVE  abandoned = 0
<1>1. CASE SelectFails
  BY <1>1, NetlinkAssumption DEF TypeOK, SelectFails
<1>2. CASE ~SelectFails
  BY <1>2
   DEF Next, vars, client, kernel, Call, Progress, Transmit, WriteFails,
       RecvFails, Receive, RetryBusy, ReturnAck, ReturnDump, SelectExpires,
       RecvInterrupted, Kernel, Execute, AnswerBusy, DumpPart
<1> QED  BY <1>1, <1>2

LEMMA InitIInv == Init => IInv
BY DEF Init, IInv, Undisturbed, InForce, ReportFaithful, Acknowledged, Finished

\* A report given out by netlink_send_ack() for one NLMSG_ERROR says what it
\* says.
LEMMA ReportSays ==
  \A e \in Decisions \ {"EBUSY"} : SaysWhatHappened(Report(e), e)
<1> SUFFICES ASSUME NEW e \in Decisions \ {"EBUSY"}
             PROVE  SaysWhatHappened(Report(e), e)
  OBVIOUS
<1>1. CASE e = "ok"
  BY <1>1 DEF SaysWhatHappened, Report
<1>2. CASE e = "EEXIST"
  BY <1>2 DEF SaysWhatHappened, Report
<1>3. CASE e = "ESRCH"
  BY <1>3 DEF SaysWhatHappened, Report
<1>4. CASE e = "refused"
  BY <1>4 DEF SaysWhatHappened, Report
<1> QED  BY <1>1, <1>2, <1>3, <1>4 DEF Decisions

\* An operation that succeeded is in effect.
LEMMA AppliedInEffect ==
  ASSUME NEW r \in Requests, r.kind # "dump", installed' = Applied(r, "ok")
  PROVE  InEffect(r)'
<1>1. r.kind \in {"replace", "create", "delete"}
  BY DEF Requests
<1>2. CASE r.kind = "delete"
  BY <1>2 DEF Applied, InEffect
<1>3. CASE r.kind \in {"replace", "create"}
  BY <1>3 DEF Applied, InEffect
<1> QED  BY <1>1, <1>2, <1>3

\* Behind entries of the dump in progress, a datagram of that same answer
\* leaves everything unread in order.
LEMMA DeliverUnread ==
  ASSUME TypeOK, Unread, UNCHANGED <<seq, req>>,
         \A i \in DOMAIN rx : \A j \in DOMAIN rx[i] : rx[i][j].type = "ITEM",
         NEW d \in Datagrams, Deliver(d),
         \A j \in 1 .. Len(d) :
            OwnAnswer(d[j])' /\ (Completes(d[j]) => j = Len(d))
  PROVE  Unread'
<1>1. rx \in Seq(Datagrams)
  BY DEF TypeOK, Datagrams
<1>2. ASSUME NEW i \in DOMAIN rx, NEW j \in DOMAIN rx[i]
      PROVE  rx[i][j].type = "ITEM" /\ req.kind = "dump" /\ ~Completes(rx[i][j])
  BY <1>2 DEF Unread, OwnAnswer, Completes, Multi
<1>3. CASE UNCHANGED rx
  BY <1>2, <1>3 DEF Unread, OwnAnswer
<1>4. CASE rx' = Append(rx, d)
  <2>1. /\ Len(rx) \in Nat /\ Len(rx') = Len(rx) + 1
        /\ \A i \in 1 .. Len(rx) : rx'[i] = rx[i]
        /\ rx'[Len(rx) + 1] = d
        /\ DOMAIN rx' = 1 .. Len(rx) + 1
        /\ DOMAIN rx = 1 .. Len(rx) /\ DOMAIN d = 1 .. Len(d)
    BY <1>1, <1>4, AppendProperties, LenProperties DEF Datagrams
  <2>2. ASSUME NEW i \in 1 .. Len(rx) + 1, NEW j \in DOMAIN (rx'[i])
        PROVE  /\ OwnAnswer(rx[i][j])'
               /\ Completes(rx'[i][j]) => i = Len(rx') /\ j = Len(rx'[i])
    <3>1. CASE i \in 1 .. Len(rx)
      <4>1. rx'[i] = rx[i] /\ j \in DOMAIN rx[i] /\ i \in DOMAIN rx
        BY <3>1, <2>1, <2>2
      <4>2. rx[i][j].type = "ITEM" /\ req.kind = "dump" /\ ~Completes(rx[i][j])
        BY <4>1, <1>2
      <4> QED  BY <4>1, <4>2 DEF OwnAnswer
    <3>2. CASE i = Len(rx) + 1
      BY <3>2, <2>1, <2>2 DEF OwnAnswer
    <3>3. i \in 1 .. Len(rx) \/ i = Len(rx) + 1
      <4>1. Len(rx) \in Nat
        BY <2>1, Zenon
      <4> QED  BY <4>1, <2>2
    <3> QED  BY <3>1, <3>2, <3>3, Zenon
  <2>3. DOMAIN rx' = 1 .. Len(rx) + 1
    BY <2>1, Zenon
  <2> QED  BY <2>2, <2>3 DEF Unread, OwnAnswer
<1> QED  BY <1>3, <1>4 DEF Deliver

\* recv() and the loop around queue(): the answer stays in one piece.
LEMMA ReceiveUndisturbed ==
  ASSUME TypeOK, Undisturbed, Receive
  PROVE  Undisturbed'
<1> USE NetlinkAssumption
<1>1. /\ pc \in {"select", "recv"} /\ rx # <<>>
      /\ UNCHANGED <<seq, req, outcome, serving, installed, verdict, abandoned>>
  BY DEF Receive
<1>2. OneOpen /\ Unread /\ Collected
  BY <1>1 DEF Undisturbed, Awaiting
<1>d. PICK d : d = Head(rx)
  OBVIOUS
<1>3. /\ rx \in Seq(Datagrams) /\ Len(rx) \in Nat \ {0} /\ DOMAIN rx = 1 .. Len(rx)
      /\ d = rx[1] /\ d \in Seq(Messages) /\ Len(d) \in Nat
      /\ DOMAIN d = 1 .. Len(d)
      /\ rx' = Tail(rx) /\ Len(rx') = Len(rx) - 1 /\ DOMAIN rx' = 1 .. Len(rx')
      /\ \A i \in 1 .. Len(rx') : rx'[i] = rx[i + 1]
  BY <1>1, <1>d, HeadTailProperties, LenProperties, EmptySeq
  DEF TypeOK, Datagrams, Receive
<1>4. ASSUME NEW j \in 1 .. Len(d)
      PROVE  /\ OwnAnswer(d[j])
             /\ Completes(d[j]) => Len(rx) = 1 /\ j = Len(d)
  BY <1>2, <1>3, <1>4 DEF Unread
<1>5. Unread'
  <2>1. ASSUME NEW i \in DOMAIN rx', NEW j \in DOMAIN (rx'[i])
        PROVE  /\ OwnAnswer(rx[i][j])'
               /\ Completes(rx'[i][j]) => i = Len(rx') /\ j = Len(rx'[i])
    <3>1. rx'[i] = rx[i + 1] /\ i + 1 \in DOMAIN rx
      BY <1>3, <2>1
    <3> QED  BY <3>1, <2>1, <1>1, <1>2, <1>3 DEF Unread, OwnAnswer
  <2> QED  BY <2>1 DEF Unread, OwnAnswer
<1>6. PICK n \in 1 .. Len(d) :
        /\ StopsAt(d, n)
        /\ \/ /\ msgbufLen + n <= MsgbufSlots
              /\ msgbuf' = [i \in 1 .. MsgbufSlots |->
                              IF i \in msgbufLen + 1 .. msgbufLen + n
                              THEN d[i - msgbufLen] ELSE msgbuf[i]]
              /\ msgbufLen' = msgbufLen + n
              /\ pc' = IF Completes(d[n]) THEN "reply" ELSE "select"
           \/ pc' = "overrun"
  BY <1>d DEF Receive
<1>7. CASE pc' = "overrun"
  BY <1>7 DEF Undisturbed, InForce, ReportFaithful, Acknowledged, Finished
<1>8. CASE pc' # "overrun"
  <2>1. /\ msgbufLen \in Nat /\ n \in Nat \ {0} /\ msgbufLen' = msgbufLen + n
        /\ msgbufLen + n <= MsgbufSlots /\ MsgbufSlots \in Nat
        /\ pc' = IF Completes(d[n]) THEN "reply" ELSE "select"
    BY <1>6, <1>8, <1>3 DEF TypeOK
  <2>2. /\ \A k \in 1 .. msgbufLen : msgbuf'[k] = msgbuf[k]
        /\ \A k \in msgbufLen + 1 .. msgbufLen' : msgbuf'[k] = d[k - msgbufLen]
    BY <1>6, <1>8, <2>1
  <2>3. ASSUME NEW k \in 1 .. msgbufLen'
        PROVE  /\ OwnAnswer(msgbuf[k])'
               /\ Completes(msgbuf'[k]) <=> k = msgbufLen' /\ Completes(d[n])
    <3>1. CASE k \in 1 .. msgbufLen
      <4>1. msgbuf'[k] = msgbuf[k] /\ k # msgbufLen'
        BY <3>1, <2>1, <2>2
      <4>2. OwnAnswer(msgbuf[k]) /\ ~Completes(msgbuf[k])
        BY <3>1, <1>2 DEF Collected, Completes, Multi
      <4> QED  BY <4>1, <4>2, <1>1 DEF OwnAnswer
    <3>2. CASE k \in msgbufLen + 1 .. msgbufLen'
      <4>1. PICK j \in 1 .. n : j = k - msgbufLen
        BY <3>2, <2>1
      <4>2. msgbuf'[k] = d[j] /\ j \in 1 .. Len(d)
        BY <4>1, <3>2, <2>2, <1>3, <1>6
      <4>3. OwnAnswer(d[j]) /\ (Completes(d[j]) <=> j = n /\ Completes(d[n]))
        BY <4>2, <4>1, <1>4, <1>6, <2>1 DEF StopsAt
      <4>4. j = n <=> k = msgbufLen'
        BY <4>1, <3>2, <2>1
      <4> QED  BY <4>2, <4>3, <4>4, <1>1 DEF OwnAnswer
    <3> QED  BY <3>1, <3>2, <2>1
  <2>4. CASE Completes(d[n])
    <3>1. Len(rx) = 1 /\ n = Len(d)
      BY <2>4, <1>4, <1>6
    <3>2. rx' = <<>>
      BY <3>1, <1>3, EmptySeq, HeadTailProperties DEF Datagrams
    <3>3. serving = <<>>
      <4>1. 1 \in DOMAIN rx /\ n \in DOMAIN (rx[1]) /\ rx[1][n] = d[n]
        BY <3>1, <1>3, <1>6
      <4>2. rx[1][n].type # "ITEM"
        BY <4>1, <2>4 DEF Completes, Multi
      <4> QED  BY <4>1, <4>2, <1>2 DEF OneOpen
    <3>4. Answered'
      BY <2>1, <2>3, <2>4 DEF Answered
    <3> QED  BY <3>2, <3>3, <3>4, <2>1, <2>4, <1>1
             DEF Undisturbed, InForce, InEffect, ReportFaithful, Acknowledged,
                 Finished
  <2>5. CASE ~Completes(d[n])
    <3>1. Collected'
      BY <2>3, <2>5 DEF Collected, Completes, Multi, OwnAnswer
    <3>2. OneOpen'
      <4>1. ASSUME serving # <<>>, NEW i \in DOMAIN rx', NEW j \in DOMAIN (rx'[i])
            PROVE  rx'[i][j].type = "ITEM"
        <5>1. rx'[i] = rx[i + 1] /\ i + 1 \in DOMAIN rx
          BY <1>3, <4>1
        <5> QED  BY <5>1, <4>1, <1>2 DEF OneOpen
      <4> QED  BY <4>1, <1>1, <1>2 DEF OneOpen
    <3> QED  BY <3>1, <3>2, <1>5, <2>1, <2>5, <1>1
             DEF Undisturbed, Awaiting, InForce, InEffect, ReportFaithful,
                 Acknowledged, Finished
  <2> QED  BY <2>4, <2>5
<1> QED  BY <1>7, <1>8

\* The other steps of the requesting thread.
LEMMA ClientUndisturbed ==
  ASSUME TypeOK, Undisturbed,
         \/ \E r \in Requests : Call(r)
         \/ Transmit \/ WriteFails \/ RecvFails
         \/ RetryBusy \/ ReturnAck \/ ReturnDump \/ SelectExpires \/ RecvInterrupted
  PROVE  Undisturbed'
<1> USE NetlinkAssumption
<1>1. CASE \E r \in Requests : Call(r)
  <2>1. /\ pc = "idle" /\ pc' = "write" /\ seq' = seq + 1 /\ seq' \in Seqs
        /\ UNCHANGED <<serving, rx, verdict>>
    BY <1>1 DEF Call, kernel, TypeOK, Seqs
  <2>2. verdict'[seq'] = "none" /\ \A s \in Seqs : s > seq' => verdict'[s] = "none"
    BY <2>1 DEF Undisturbed, TypeOK, Seqs
  <2> QED  BY <2>1, <2>2
           DEF Undisturbed, Undecided, InForce, ReportFaithful, Acknowledged, Finished
<1>2. CASE Transmit
  <2> DEFINE t == [seq |-> seq, req |-> req, left |-> DumpSize]
  <2>1. /\ pc = "write" /\ pc' = "select" /\ msgbufLen' = 0
        /\ serving = <<>> /\ rx = <<>> /\ serving' = <<t>> /\ rx' = <<>>
        /\ UNCHANGED <<seq, req, verdict, installed>>
        /\ verdict[seq] \in Undecided
    BY <1>2 DEF Transmit, Undisturbed
  <2>2. Awaiting'
    BY <2>1 DEF Awaiting, OneOpen, Unread, Collected
  <2> QED  BY <2>1, <2>2 DEF Undisturbed, InForce, InEffect, ReportFaithful,
                             Acknowledged, Finished
<1>3. CASE WriteFails
  <2>1. SaysWhatHappened("WRITE_FAILED", verdict[seq])
    BY <1>3 DEF WriteFails, Undisturbed, Undecided, SaysWhatHappened
  <2> QED  BY <2>1, <1>3 DEF WriteFails, kernel, Undisturbed, InForce, InEffect,
                             ReportFaithful, Acknowledged, Finished
<1>4. CASE RecvFails \/ SelectExpires \/ RecvInterrupted
  <2>1. /\ pc \in {"select", "recv"} /\ pc' \in {"select", "recv"}
        /\ UNCHANGED <<seq, req, msgbuf, msgbufLen, serving, rx, installed, verdict>>
    BY <1>4 DEF RecvFails, SelectExpires, RecvInterrupted, kernel
  <2>2. Awaiting'
    BY <2>1 DEF Undisturbed, Awaiting, OneOpen, Unread, Collected, OwnAnswer
  <2> QED  BY <2>1, <2>2 DEF Undisturbed, InForce, InEffect, ReportFaithful,
                             Acknowledged, Finished
<1>5. ASSUME pc = "reply", msgbuf[1].type = "ERROR"
      PROVE  msgbuf[1].error = verdict[seq]
  <2>1. Answered /\ 1 \in 1 .. msgbufLen
    BY <1>5 DEF Undisturbed, Answered, TypeOK
  <2> QED  BY <1>5, <2>1 DEF Answered, OwnAnswer
<1>6. CASE RetryBusy
  <2>1. verdict[seq] \in Undecided
    BY <1>5, <1>6 DEF RetryBusy, Busy, Undecided
  <2> QED  BY <2>1, <1>6 DEF RetryBusy, kernel, Undisturbed, InForce, InEffect,
                             ReportFaithful, Acknowledged, Finished
<1>7. CASE ReturnAck
  <2>1. /\ pc = "reply" /\ ~Busy /\ req.kind # "dump" /\ pc' = "idle"
        /\ UNCHANGED <<seq, req, kernel>>
    BY <1>7 DEF ReturnAck
  <2>2. 1 \in 1 .. msgbufLen /\ msgbuf[1].type = "ERROR"
    BY <2>1 DEF Undisturbed, Answered, OwnAnswer, TypeOK
  <2>3. \A i \in 1 .. msgbufLen : FirstAmong(i, {"ERROR", "DONE"}) <=> i = 1
    BY <2>2 DEF FirstAmong, TypeOK
  <2>4. outcome' = Report(verdict[seq])
    BY <2>1, <2>2, <2>3, <1>5, <1>7 DEF ReturnAck
  <2>5. verdict[seq] \in Decisions \ {"EBUSY"}
    <3>1. msgbuf[1] \in Messages
      BY <2>2 DEF TypeOK
    <3> QED  BY <3>1, <2>1, <2>2, <1>5 DEF Busy, Messages
  <2>6. SaysWhatHappened(outcome', verdict[seq])
    BY <2>4, <2>5, ReportSays
  <2> QED  BY <2>1, <2>6 DEF kernel, Undisturbed, InForce, InEffect,
                             ReportFaithful, Acknowledged, Finished
<1>8. CASE ReturnDump
  BY <1>8 DEF ReturnDump, kernel, Undisturbed, InForce, InEffect,
              ReportFaithful, Acknowledged, Finished
<1> QED  BY <1>1, <1>2, <1>3, <1>4, <1>6, <1>7, <1>8

\* The steps of the kernel.
LEMMA KernelUndisturbed ==
  ASSUME TypeOK, Undisturbed, Kernel
  PROVE  Undisturbed'
<1> USE NetlinkAssumption
<1>1. UNCHANGED client
  BY DEF Kernel, Execute, AnswerBusy, DumpPart
<1>2. PICK i \in DOMAIN serving : Execute(i) \/ AnswerBusy(i) \/ DumpPart(i)
  BY DEF Kernel
<1>3. serving # <<>>
  BY <1>2
<1>4. CASE pc = "overrun"
  BY <1>4, <1>1 DEF client, Undisturbed, InForce, ReportFaithful, Acknowledged, Finished
<1>5. CASE pc # "overrun"
  <2>1. pc \in {"select", "recv"}
    BY <1>3, <1>5 DEF Undisturbed, TypeOK, Locations
  <2>2. OneOpen /\ Unread /\ Collected
    BY <2>1 DEF Undisturbed, Awaiting
  <2>3. i = 1 /\ Len(serving) = 1 /\ serving \in Seq(Entries)
    <3>1. serving \in Seq(Entries)
      BY DEF TypeOK, Entries
    <3>2. Len(serving) \in Nat \ {0} /\ DOMAIN serving = 1 .. Len(serving)
      BY <3>1, <1>3, EmptySeq, LenProperties
    <3>3. Len(serving) <= 1
      BY <2>2 DEF OneOpen
    <3> QED  BY <3>1, <3>2, <3>3, <1>2
  <2>4. PICK t : t = serving[1]
    OBVIOUS
  <2>5. /\ t \in Entries /\ t.seq = seq /\ t.req = req
        /\ seq \in Seqs /\ req \in Requests /\ t.left \in 0 .. DumpSize
        /\ \A k \in DOMAIN rx : \A j \in DOMAIN rx[k] : rx[k][j].type = "ITEM"
    <3>1. t \in Entries
      BY <2>3, <2>4, ElementOfSeq
    <3>2. /\ t.seq = seq /\ t.req = req
          /\ \A k \in DOMAIN rx : \A j \in DOMAIN rx[k] : rx[k][j].type = "ITEM"
      BY <1>3, <2>2, <2>4 DEF OneOpen
    <3>3. seq \in Seqs /\ req \in Requests
      BY <2>1 DEF TypeOK
    <3> QED  BY <3>1, <3>2, <3>3 DEF Entries
  <2>6. Remove(serving, 1) = <<>>
    BY <2>3, RemoveProperties, LenProperties, EmptySeq
  \* An answer to the request in progress arrives, or gets lost.
  <2>7. ASSUME NEW m \in Datagrams, Deliver(m),
               NEW v, verdict' = [verdict EXCEPT ![seq] = v],
               \A j \in 1 .. Len(m) :
                 OwnAnswer(m[j])' /\ (Completes(m[j]) => j = Len(m)),
               serving' = <<>>, InForce'
        PROVE  Undisturbed'
    <3>1. Unread'
      BY <2>2, <2>5, <2>7, <1>1, DeliverUnread DEF client
    <3>2. OneOpen' /\ Collected'
      BY <2>2, <2>7, <1>1 DEF client, OneOpen, Collected, OwnAnswer
    <3>3. \A s \in Seqs : s > seq => verdict'[s] = "none"
      <4>1. \A s \in Seqs : s > seq => verdict[s] = "none"
        BY <1>5 DEF Undisturbed
      <4>2. \A s \in Seqs : s # seq => verdict'[s] = verdict[s]
        BY <2>7 DEF TypeOK
      <4>3. \A s \in Seqs : s > seq => s # seq
        BY <2>5 DEF Seqs
      <4> QED  BY <4>1, <4>2, <4>3
    <3>4. pc' \in {"select", "recv"} /\ seq' = seq
      BY <1>1, <2>1 DEF client
    <3>5. Awaiting'
      BY <3>1, <3>2 DEF Awaiting
    <3>6. ReportFaithful'
      BY <3>4 DEF ReportFaithful, Acknowledged, Finished
    <3> QED  BY <3>3, <3>4, <3>5, <3>6, <2>7 DEF Undisturbed
  <2>8. CASE Execute(i)
    <3>1. PICK d \in IF req.kind = "dump" THEN {"refused"} ELSE Decided(req) :
            /\ verdict' = [verdict EXCEPT ![seq] = d]
            /\ installed' = Applied(req, d)
            /\ serving' = <<>>
            /\ Deliver(<<Error(seq, d)>>)
      BY <2>8, <2>3, <2>4, <2>5, <2>6 DEF Execute
    <3>2. d \in Decisions
      BY <3>1, <2>5, DecidedType DEF TypeOK, Decisions
    <3>3. verdict'[seq] = d
      BY <3>1, <2>5 DEF TypeOK
    <3>4. InForce'
      BY <3>1, <3>3, <2>5, <1>1, AppliedInEffect DEF client, InForce, InEffect
    <3>5. PICK e, m : e = Error(seq, d) /\ m = <<e>>
      OBVIOUS
    <3>6. m \in Datagrams /\ Len(m) = 1 /\ m[1] = e
      BY <2>5, <3>2, <3>5, AnswerDatagrams
    <3>7. OwnAnswer(e)'
      BY <3>3, <3>5, <1>1 DEF client, OwnAnswer, Error
    <3>8. Deliver(m)
      BY <3>1, <3>5
    <3>9. \A j \in 1 .. Len(m) :
            OwnAnswer(m[j])' /\ (Completes(m[j]) => j = Len(m))
      BY <3>6, <3>7 DEF OwnAnswer
    <3> QED  BY <3>1, <3>4, <3>6, <3>8, <3>9, <2>7
  <2>9. CASE AnswerBusy(i)
    <3>1. /\ verdict' = [verdict EXCEPT ![seq] = "EBUSY"]
          /\ serving' = <<>>
          /\ Deliver(<<Error(seq, "EBUSY")>>)
      BY <2>9, <2>3, <2>4, <2>5, <2>6 DEF AnswerBusy
    <3>2. verdict'[seq] = "EBUSY"
      BY <3>1, <2>5 DEF TypeOK
    <3>3. InForce'
      BY <3>2, <1>1 DEF client, InForce
    <3>4. PICK e, m : e = Error(seq, "EBUSY") /\ m = <<e>>
      OBVIOUS
    <3>5. m \in Datagrams /\ Len(m) = 1 /\ m[1] = e
      BY <2>5, <3>4, AnswerDatagrams DEF Decisions
    <3>6. OwnAnswer(e)'
      BY <3>2, <3>4, <1>1 DEF client, OwnAnswer, Error
    <3>7. Deliver(m)
      BY <3>1, <3>4
    <3>8. \A j \in 1 .. Len(m) :
            OwnAnswer(m[j])' /\ (Completes(m[j]) => j = Len(m))
      BY <3>5, <3>6 DEF OwnAnswer
    <3> QED  BY <3>1, <3>3, <3>5, <3>7, <3>8, <2>7
  <2>10. CASE DumpPart(i)
    <3>1. req.kind = "dump"
      BY <2>10, <2>3, <2>4, <2>5 DEF DumpPart
    <3>2. InForce'
      BY <3>1, <1>1 DEF client, InForce
    <3>3. ASSUME NEW n \in 1 .. t.left,
                 serving' = [serving EXCEPT ![1].left = @ - n],
                 UNCHANGED verdict,
                 Deliver(Items(seq, n))
          PROVE  Undisturbed'
      <4>1. PICK e, m : e = Item(seq) /\ m = Items(seq, n)
        OBVIOUS
      <4>2. /\ m \in Datagrams /\ Len(m) = n /\ n \in Nat /\ DOMAIN m = 1 .. n
            /\ \A j \in 1 .. n : m[j] = e
        BY <3>3, <4>1, <2>5, AnswerDatagrams, ItemsProperties, LenProperties
        DEF Datagrams
      <4>3. OwnAnswer(e)' /\ ~Completes(e) /\ e.type = "ITEM"
        BY <4>1, <3>1, <1>1 DEF client, OwnAnswer, Item, Completes, Multi
      <4>4. \A j \in 1 .. Len(m) :
              OwnAnswer(m[j])' /\ (Completes(m[j]) => j = Len(m))
        BY <4>2, <4>3 DEF OwnAnswer
      <4>5. Deliver(m)
        BY <3>3, <4>1
      <4>6. Unread'
        BY <4>2, <4>4, <4>5, <2>2, <2>5, <1>1, DeliverUnread DEF client
      <4>7. \A k \in DOMAIN rx' : \A j \in DOMAIN (rx'[k]) : rx'[k][j].type = "ITEM"
        <5>1. CASE UNCHANGED rx
          BY <5>1, <2>5
        <5>2. CASE rx' = Append(rx, m)
          <6>1. rx \in Seq(Datagrams)
            BY DEF TypeOK, Datagrams
          <6>2. /\ Len(rx) \in Nat /\ DOMAIN rx = 1 .. Len(rx)
                /\ DOMAIN rx' = 1 .. Len(rx) + 1
            BY <6>1, <5>2, <4>2, AppendProperties, LenProperties
          <6>3. ASSUME NEW k \in 1 .. Len(rx) + 1, NEW j \in DOMAIN (rx'[k])
                PROVE  rx'[k][j].type = "ITEM"
            <7>1. CASE k \in 1 .. Len(rx)
              BY <7>1, <6>1, <6>2, <6>3, <5>2, <4>2, <2>5, AppendProperties
            <7>2. CASE k = Len(rx) + 1
              BY <7>2, <6>1, <6>3, <5>2, <4>2, <4>3, AppendProperties
            <7> QED  BY <7>1, <7>2, <6>2, <6>3
          <6> QED  BY <6>2, <6>3
        <5> QED  BY <4>5, <5>1, <5>2 DEF Deliver
      <4>8. /\ Len(serving') = 1 /\ serving'[1].seq = seq /\ serving'[1].req = req
        <5>1. serving' = [serving EXCEPT ![1] = [t EXCEPT !.left = @ - n]]
          BY <3>3, <2>4
        <5>2. [t EXCEPT !.left = @ - n] \in Entries
          <6>1. t.left - n \in 0 .. DumpSize
            BY <2>5, <3>3
          <6> QED  BY <6>1, <2>5 DEF Entries
        <5>3. Len(serving') = 1 /\ serving'[1] = [t EXCEPT !.left = @ - n]
          BY <5>1, <5>2, <2>3, ExceptSeq
        <5> QED  BY <5>3, <2>5 DEF Entries
      <4>9. OneOpen' /\ Collected'
        BY <4>7, <4>8, <3>3, <1>1, <2>2, <1>3 DEF client, OneOpen, Collected, OwnAnswer
      <4> QED  BY <4>6, <4>9, <3>2, <3>3, <1>1, <1>5, <2>1
               DEF client, Undisturbed, Awaiting, ReportFaithful, Acknowledged, Finished
    <3>4. ASSUME serving' = <<>>,
                 verdict' = [verdict EXCEPT ![seq] = "ok"],
                 Deliver(Append(Items(seq, t.left), Done(seq)))
          PROVE  Undisturbed'
      <4>1. PICK e, f, m : /\ e = Item(seq) /\ f = Done(seq)
                           /\ m = Append(Items(seq, t.left), f)
        OBVIOUS
      <4>2. /\ m \in Datagrams /\ Len(m) = t.left + 1 /\ t.left \in Nat
            /\ \A j \in 1 .. t.left : m[j] = e
            /\ m[t.left + 1] = f
        <5>1. /\ Items(seq, t.left) \in Seq(Messages) /\ f \in Messages
              /\ Len(Items(seq, t.left)) = t.left /\ t.left \in Nat
              /\ \A j \in 1 .. t.left : Items(seq, t.left)[j] = e
          <6>1. t.left \in Nat
            BY <2>5
          <6>2. /\ Items(seq, t.left) \in Seq(Messages) /\ Len(Items(seq, t.left)) = t.left
                /\ \A j \in 1 .. t.left : Items(seq, t.left)[j] = e
            BY <6>1, <4>1, <2>5, ItemsProperties
          <6>3. f \in Messages
            BY <4>1, <2>5, MessageTypes DEF Decisions
          <6> QED  BY <6>1, <6>2, <6>3
        <5>2. m \in Datagrams
          BY <4>1, <5>1, <2>5, AnswerDatagrams
        <5> QED  BY <4>1, <5>1, <5>2, AppendProperties
      <4>3. OwnAnswer(e)' /\ OwnAnswer(f)' /\ ~Completes(e)
        BY <4>1, <3>1, <1>1 DEF client, OwnAnswer, Item, Done, Completes, Multi
      <4>4. \A j \in 1 .. Len(m) :
              OwnAnswer(m[j])' /\ (Completes(m[j]) => j = Len(m))
        <5>1. ASSUME NEW j \in 1 .. Len(m)
              PROVE  OwnAnswer(m[j])' /\ (Completes(m[j]) => j = Len(m))
          <6>1. j \in 1 .. t.left \/ j = t.left + 1
            BY <4>2
          <6>2. m[j] = e \/ (m[j] = f /\ j = Len(m))
            BY <4>2, <6>1
          <6> QED  BY <4>3, <6>2 DEF OwnAnswer
        <5> QED  BY <5>1
      <4>5. Deliver(m)
        BY <3>4, <4>1
      <4> QED  BY <4>2, <4>4, <4>5, <3>2, <3>4, <2>7
    <3> QED  BY <2>10, <2>3, <2>4, <2>5, <2>6, <3>3, <3>4 DEF DumpPart
  <2> QED  BY <1>2, <2>8, <2>9, <2>10
<1> QED  BY <1>4, <1>5

LEMMA NextIInv ==
  ASSUME TypeOK, IInv, [Next]_vars
  PROVE  IInv'
<1> SUFFICES ASSUME abandoned' = 0 PROVE Undisturbed'
  BY DEF IInv
<1>1. Undisturbed
  BY AbandonedGrows DEF IInv
<1>2. ~SelectFails
  BY NetlinkAssumption DEF SelectFails, TypeOK
<1>3. CASE Receive
  BY <1>1, <1>3, ReceiveUndisturbed
<1>4. CASE Kernel
  BY <1>1, <1>4, KernelUndisturbed
<1>5. CASE UNCHANGED vars
  BY <1>1, <1>5
  DEF vars, client, kernel, Undisturbed, Awaiting, OneOpen, Unread, Collected,
      Answered, OwnAnswer, InForce, InEffect, ReportFaithful, Acknowledged, Finished
<1> QED  BY <1>1, <1>2, <1>3, <1>4, <1>5, ClientUndisturbed DEF Next, Progress

LEMMA TypedIInv == Spec => [](TypeOK /\ IInv)
<1>1. Init => TypeOK /\ IInv
  BY InitTypeOK, InitIInv
<1>2. TypeOK /\ IInv /\ [Next]_vars => (TypeOK /\ IInv)'
  BY NextTypeOK, NextIInv
<1> QED  BY <1>1, <1>2, PTL DEF Spec

\* As long as select() has not failed, everything under way belongs to the call
\* in progress, for any number of requests, losses, retries and any table.
THEOREM AnswersBelong == Spec => []IInv
BY TypedIInv, PTL

\* What netlink_send_ack() returns is what the kernel decided on that request,
\* as long as no earlier call was cut short by a failing select().
THEOREM ReportsAreFaithful == Spec => []ReportFaithful
<1>1. IInv => ReportFaithful
  BY DEF IInv, Undisturbed, ReportFaithful
<1> QED  BY <1>1, TypedIInv, PTL

\* A 0 from netlink_send_ack() means that the object is there, or gone.
THEOREM SuccessIsReal == Spec => []AckTruthfulUnlessAbandoned
<1>1. TypeOK /\ IInv => AckTruthfulUnlessAbandoned
  BY DEF IInv, Undisturbed, ReportFaithful, SaysWhatHappened, InForce,
         AckTruthfulUnlessAbandoned, AckTruthful, Acknowledged, Finished
<1> QED  BY <1>1, TypedIInv, PTL

\* netlink_send() sends a request again only after an -EBUSY.
THEOREM NoLateResend == Spec => NoResendAfterDecision
<1>1. ASSUME TypeOK, IInv, [Next]_vars, abandoned = 0, Len(serving') > Len(serving)
      PROVE  verdict[seq] \in {"none", "EBUSY"}
  <2>1. CASE Transmit
    BY <2>1, <1>1 DEF Transmit, IInv, Undisturbed, Undecided
  <2>2. CASE Kernel
    <3>1. PICK i \in DOMAIN serving : Execute(i) \/ AnswerBusy(i) \/ DumpPart(i)
      BY <2>2 DEF Kernel
    <3>2. serving \in Seq(Entries) /\ Len(serving) \in Nat
      BY <1>1, LenProperties DEF TypeOK, Entries
    <3>3. \/ serving' = Remove(serving, i)
          \/ \E n \in 1 .. serving[i].left : serving' = [serving EXCEPT ![i].left = @ - n]
      BY <3>1 DEF Execute, AnswerBusy, DumpPart
    <3>4. Len(serving') <= Len(serving)
      <4>1. CASE serving' = Remove(serving, i)
        BY <4>1, <3>2, RemoveProperties
      <4>2. ASSUME NEW n \in 1 .. serving[i].left,
                   serving' = [serving EXCEPT ![i].left = @ - n]
            PROVE  Len(serving') <= Len(serving)
        BY <4>2, <3>2
      <4> QED  BY <3>3, <4>1, <4>2
    <3> QED  BY <3>2, <3>4, <1>1
  <2>3. CASE UNCHANGED serving
    <3>1. Len(serving) \in Nat
      BY <1>1, LenProperties DEF TypeOK
    <3> QED  BY <3>1, <2>3, <1>1
  <2> QED  BY <1>1, <2>1, <2>2, <2>3
           DEF Next, vars, kernel, Call, Progress, WriteFails, RecvFails, Receive,
               RetryBusy, ReturnAck, ReturnDump, SelectFails, SelectExpires,
               RecvInterrupted
<1>2. TypeOK /\ IInv /\ [Next]_vars =>
        [abandoned = 0 /\ Len(serving') > Len(serving)
           => verdict[seq] \in {"none", "EBUSY"}]_vars
  BY <1>1
<1> QED  BY <1>2, TypedIInv, PTL DEF Spec, NoResendAfterDecision

-----------------------------------------------------------------------------
(* Counting the messages of answers. *)

\* The places of the messages of a queue of datagrams.
Places(q) == UNION {{i} \X (1 .. Len(q[i])) : i \in 1 .. Len(q)}

\* Messages in the receive queue; messages the kernel still owes; all of an
\* answer, read or not.
Pending == Cardinality(Places(rx))
Still == IF serving = <<>> THEN 0 ELSE serving[1].left + 1
WholeAnswer == msgbufLen + Pending + Still

-----------------------------------------------------------------------------
(* Lemmas on queues of datagrams. *)

LEMMA PlacesMember ==
  ASSUME NEW q, NEW i, NEW j
  PROVE  <<i, j>> \in Places(q) <=> i \in 1 .. Len(q) /\ j \in 1 .. Len(q[i])
BY DEF Places

LEMMA PlacesPairs ==
  ASSUME NEW q, NEW p \in Places(q)
  PROVE  /\ p = <<p[1], p[2]>>
         /\ p[1] \in 1 .. Len(q) /\ p[2] \in 1 .. Len(q[p[1]])
BY DEF Places

LEMMA RowSize ==
  ASSUME NEW i, NEW n \in Nat
  PROVE  IsFiniteSet({i} \X (1 .. n)) /\ Cardinality({i} \X (1 .. n)) = n
<1>1. IsFiniteSet({i}) /\ Cardinality({i}) = 1
  BY FS_Singleton
<1>2. IsFiniteSet(1 .. n) /\ Cardinality(1 .. n) = n
  BY FS_Interval
<1>3. /\ IsFiniteSet({i} \X (1 .. n))
      /\ Cardinality({i} \X (1 .. n)) = Cardinality({i}) * Cardinality(1 .. n)
  BY <1>1, <1>2, FS_Product
<1> QED  BY <1>1, <1>2, <1>3

LEMMA PlacesFinite ==
  ASSUME NEW M, NEW q \in Seq(Seq(M))
  PROVE  IsFiniteSet(Places(q)) /\ Cardinality(Places(q)) \in Nat
<1> DEFINE row == [i \in 1 .. Len(q) |-> {i} \X (1 .. Len(q[i]))]
           rows == {{i} \X (1 .. Len(q[i])) : i \in 1 .. Len(q)}
<1>1. Len(q) \in Nat /\ \A i \in 1 .. Len(q) : Len(q[i]) \in Nat
  BY LenProperties, ElementOfSeq
<1>2. row \in Surjection(1 .. Len(q), rows)
  BY Fun_IsSurj
<1>3. IsFiniteSet(1 .. Len(q))
  BY <1>1, FS_Interval
<1>4. IsFiniteSet(rows)
  <2> HIDE DEF row, rows
  <2> QED  BY <1>2, <1>3, FS_Surjection
<1>5. \A r \in rows : IsFiniteSet(r)
  <2>1. ASSUME NEW i \in 1 .. Len(q) PROVE IsFiniteSet({i} \X (1 .. Len(q[i])))
    BY <1>1, RowSize
  <2> QED  BY <2>1
<1>6. IsFiniteSet(UNION rows)
  <2> HIDE DEF rows
  <2> QED  BY <1>4, <1>5, FS_UNION
<1> QED  BY <1>6, FS_CardinalityType DEF Places

\* A datagram of n messages at the end.
LEMMA PlacesAppend ==
  ASSUME NEW M, NEW q \in Seq(Seq(M)), NEW d \in Seq(M)
  PROVE  Cardinality(Places(Append(q, d))) = Cardinality(Places(q)) + Len(d)
<1> DEFINE a == Append(q, d)
           row == {Len(q) + 1} \X (1 .. Len(d))
<1>1. /\ Len(q) \in Nat /\ Len(d) \in Nat /\ Len(a) = Len(q) + 1
      /\ a[Len(q) + 1] = d /\ \A i \in 1 .. Len(q) : a[i] = q[i]
  BY AppendProperties, LenProperties
<1> HIDE DEF a
<1>2. Places(a) = Places(q) \cup row
  <2>1. 1 .. Len(a) = (1 .. Len(q)) \cup {Len(q) + 1}
    BY <1>1
  <2>2. ASSUME NEW p PROVE p \in Places(a) <=> p \in Places(q) \cup row
    <3>1. CASE p \in Places(a)
      <4>1. p = <<p[1], p[2]>> /\ p[1] \in 1 .. Len(a) /\ p[2] \in 1 .. Len(a[p[1]])
        BY <3>1, PlacesPairs
      <4>2. CASE p[1] \in 1 .. Len(q)
        <5>1. <<p[1], p[2]>> \in Places(q)
          BY <4>1, <4>2, <1>1, PlacesMember
        <5> QED  BY <5>1, <4>1, <3>1
      <4>3. CASE p[1] = Len(q) + 1
        BY <4>1, <4>3, <1>1, <3>1
      <4> QED  BY <4>1, <4>2, <4>3, <2>1
    <3>2. CASE p \in Places(q)
      <4>1. p = <<p[1], p[2]>> /\ p[1] \in 1 .. Len(q) /\ p[2] \in 1 .. Len(q[p[1]])
        BY <3>2, PlacesPairs
      <4>2. <<p[1], p[2]>> \in Places(a)
        BY <4>1, <2>1, <1>1, PlacesMember
      <4> QED  BY <4>1, <4>2, <3>2
    <3>3. CASE p \in row
      <4>1. p = <<p[1], p[2]>> /\ p[1] = Len(q) + 1 /\ p[2] \in 1 .. Len(d)
        BY <3>3
      <4>2. <<p[1], p[2]>> \in Places(a)
        BY <4>1, <2>1, <1>1, PlacesMember
      <4> QED  BY <4>1, <4>2, <3>3
    <3> QED  BY <3>1, <3>2, <3>3
  <2> QED  BY <2>2
<1>3. Places(q) \cap row = {}
  <2>1. ASSUME NEW p \in Places(q), p \in row PROVE FALSE
    <3>1. p[1] \in 1 .. Len(q)
      BY PlacesPairs
    <3>2. p[1] = Len(q) + 1
      BY <2>1
    <3> QED  BY <1>1, <3>1, <3>2
  <2> QED  BY <2>1
<1>4. IsFiniteSet(Places(q)) /\ Cardinality(Places(q)) \in Nat
  BY PlacesFinite
<1>5. IsFiniteSet(row) /\ Cardinality(row) = Len(d)
  BY <1>1, RowSize
<1>6. Cardinality(Places(q) \cup row) = Cardinality(Places(q)) + Cardinality(row)
  <2> HIDE DEF row
  <2>1. Cardinality(Places(q) \cap row) = 0
    BY <1>3, FS_EmptySet
  <2>2. Cardinality(row) \in Nat
    BY <1>5, <1>1
  <2>3. Cardinality(Places(q) \cup row)
          = Cardinality(Places(q)) + Cardinality(row) - Cardinality(Places(q) \cap row)
    BY <1>4, <1>5, FS_Union
  <2> QED  BY <1>4, <2>1, <2>2, <2>3
<1> QED  BY <1>2, <1>5, <1>6 DEF a

\* The first datagram is taken.
LEMMA PlacesTail ==
  ASSUME NEW M, NEW q \in Seq(Seq(M)), q # <<>>
  PROVE  Cardinality(Places(q)) = Cardinality(Places(Tail(q))) + Len(Head(q))
<1> DEFINE t == Tail(q)
           row == {1} \X (1 .. Len(q[1]))
           rest == Places(q) \ row
           f == [p \in Places(t) |-> <<p[1] + 1, p[2]>>]
<1>1. /\ Len(q) \in Nat \ {0} /\ t \in Seq(Seq(M)) /\ Len(t) = Len(q) - 1
      /\ Head(q) = q[1] /\ Len(q[1]) \in Nat
      /\ \A i \in 1 .. Len(t) : t[i] = q[i + 1]
  BY HeadTailProperties, LenProperties, EmptySeq, ElementOfSeq
<1> HIDE DEF t
<1>2. f \in Bijection(Places(t), rest)
  <2>1. ASSUME NEW p \in Places(t) PROVE f[p] \in rest
    <3>1. PICK i, j : i = p[1] /\ j = p[2]
      OBVIOUS
    <3>2. i \in 1 .. Len(t) /\ j \in 1 .. Len(t[i])
      BY <3>1, PlacesPairs
    <3>3. i + 1 \in 1 .. Len(q) /\ t[i] = q[i + 1] /\ i + 1 # 1
      BY <3>2, <1>1
    <3>4. <<i + 1, j>> \in Places(q)
      BY <3>2, <3>3, PlacesMember
    <3> QED  BY <3>1, <3>3, <3>4
  <2>2. ASSUME NEW p \in Places(t), NEW r \in Places(t), f[p] = f[r] PROVE p = r
    <3>1. /\ p = <<p[1], p[2]>> /\ p[1] \in 1 .. Len(t)
          /\ r = <<r[1], r[2]>> /\ r[1] \in 1 .. Len(t)
      BY PlacesPairs
    <3>2. p[1] + 1 = r[1] + 1 /\ p[2] = r[2]
      BY <2>2
    <3>3. p[1] = r[1]
      BY <3>1, <3>2, <1>1
    <3> QED  BY <3>1, <3>2, <3>3
  <2>3. ASSUME NEW r \in rest PROVE \E p \in Places(t) : f[p] = r
    <3>1. r = <<r[1], r[2]>> /\ r[1] \in 1 .. Len(q) /\ r[2] \in 1 .. Len(q[r[1]])
      BY PlacesPairs
    <3>2. r[1] # 1
      BY <3>1
    <3>3. <<r[1] - 1, r[2]>> \in Places(t)
      <4>1. r[1] - 1 \in 1 .. Len(t) /\ (r[1] - 1) + 1 = r[1]
        <5>1. PICK k : k = r[1]
          OBVIOUS
        <5>2. k \in 1 .. Len(q) /\ k # 1 /\ Len(q) \in Nat
          BY <5>1, <3>1, <3>2, <1>1
        <5>3. k - 1 \in 1 .. Len(q) - 1 /\ (k - 1) + 1 = k
          BY <5>2
        <5> QED  BY <5>1, <5>3, <1>1
      <4>2. t[r[1] - 1] = q[r[1]]
        BY <4>1, <1>1
      <4> QED  BY <3>1, <4>1, <4>2, PlacesMember
    <3>4. f[<<r[1] - 1, r[2]>>] = <<r[1], r[2]>>
      BY <3>1, <3>3, <1>1
    <3> QED  BY <3>1, <3>3, <3>4
  <2>4. f \in [Places(t) -> rest]
    BY <2>1
  <2> HIDE DEF f, rest
  <2> QED  BY <2>2, <2>3, <2>4, Fun_IsBij
<1>3. /\ IsFiniteSet(Places(t)) /\ Cardinality(Places(t)) \in Nat
      /\ IsFiniteSet(Places(q)) /\ Cardinality(Places(q)) \in Nat
  BY <1>1, PlacesFinite
<1>4. IsFiniteSet(row) /\ Cardinality(row) = Len(q[1])
  BY <1>1, RowSize
<1>5. Cardinality(rest) = Cardinality(Places(t))
  <2> HIDE DEF f, rest
  <2>1. ExistsBijection(Places(t), rest)
    BY <1>2, Fun_ExistsBij, Zenon
  <2> QED  BY <1>3, <2>1, FS_Bijection, Zenon
<1>6. Places(q) \cap row = row
  <2>1. ASSUME NEW p \in row PROVE p \in Places(q)
    <3>1. p = <<1, p[2]>> /\ p[2] \in 1 .. Len(q[1])
      OBVIOUS
    <3>2. <<1, p[2]>> \in Places(q)
      <4>1. 1 \in 1 .. Len(q)
        BY <1>1
      <4> QED  BY <3>1, <4>1, PlacesMember
    <3> QED  BY <3>1, <3>2
  <2> QED  BY <2>1
<1>7. Cardinality(rest) = Cardinality(Places(q)) - Len(q[1])
  <2>1. Cardinality(rest) = Cardinality(Places(q)) - Cardinality(Places(q) \cap row)
    <3> HIDE DEF row
    <3> QED  BY <1>3, FS_Difference
  <2> QED  BY <2>1, <1>6, <1>4
<1> QED  BY <1>1, <1>3, <1>5, <1>7 DEF t

LEMMA PlacesNone == Cardinality(Places(<<>>)) = 0
<1>1. Places(<<>>) = {}
  BY EmptySeq DEF Places
<1> QED  BY <1>1, FS_EmptySet

-----------------------------------------------------------------------------
(* Answers on their way: AnswersConserved.  By itself it is not inductive:   *)
(* the loop over a datagram stops at its first final message, so a final     *)
(* message in front of another one would leave that one unread.              *)

\* Only the last message of a datagram ends an answer.
InOnePiece(d) ==
  \A j \in 1 .. Len(d) :
    /\ d[j].type \in {"ITEM", "DONE", "ERROR"}
    /\ d[j].type # "ITEM" => j = Len(d)

WellFormed == \A i \in 1 .. Len(rx) : InOnePiece(rx[i])

\* Datagrams of a queue that end an answer.
Ends(q) == Cardinality({i \in DOMAIN q : Final(q[i])})

LEMMA EndsNone == Ends(<<>>) = 0
<1>1. {i \in DOMAIN <<>> : Final(<<>>[i])} = {}
  BY EmptySeq
<1> QED  BY <1>1, FS_EmptySet DEF Ends

LEMMA EndsCount ==
  ASSUME NEW M, NEW q \in Seq(M)
  PROVE  Ends(q) = Count(q, {d \in M : Final(d)}, Len(q))
<1>1. DOMAIN q = 1 .. Len(q) /\ \A i \in 1 .. Len(q) : q[i] \in M
  BY LenProperties, ElementOfSeq
<1>2. {i \in DOMAIN q : Final(q[i])} = {i \in 1 .. Len(q) : q[i] \in {d \in M : Final(d)}}
  BY <1>1
<1> QED  BY <1>2 DEF Ends, Count

LEMMA EndsAppend ==
  ASSUME NEW M, NEW q \in Seq(M), NEW d \in M
  PROVE  /\ Ends(q) \in Nat
         /\ Ends(Append(q, d)) = Ends(q) + (IF Final(d) THEN 1 ELSE 0)
<1> DEFINE T == {x \in M : Final(x)}
<1>1. Ends(q) = Count(q, T, Len(q))
  BY EndsCount
<1>2. Append(q, d) \in Seq(M)
  BY AppendProperties
<1>3. Ends(Append(q, d)) = Count(Append(q, d), T, Len(Append(q, d)))
  BY <1>2, EndsCount
<1>4. d \in T <=> Final(d)
  OBVIOUS
<1> HIDE DEF T
<1>5. /\ Len(Append(q, d)) = Len(q) + 1 /\ Len(q) \in Nat
      /\ Count(Append(q, d), T, Len(q) + 1)
           = Count(q, T, Len(q)) + (IF d \in T THEN 1 ELSE 0)
  BY CountAppend
<1>6. Count(q, T, Len(q)) \in Nat
  BY <1>5, CountType
<1> QED  BY <1>1, <1>3, <1>4, <1>5, <1>6

LEMMA EndsTail ==
  ASSUME NEW M, NEW q \in Seq(M), q # <<>>
  PROVE  /\ Ends(Tail(q)) \in Nat
         /\ Ends(q) = Ends(Tail(q)) + (IF Final(Head(q)) THEN 1 ELSE 0)
<1> DEFINE T == {x \in M : Final(x)}
<1>1. Ends(q) = Count(q, T, Len(q))
  BY EndsCount
<1>2. Tail(q) \in Seq(M) /\ Head(q) \in M
  BY CountTail
<1>3. Ends(Tail(q)) = Count(Tail(q), T, Len(Tail(q)))
  BY <1>2, EndsCount
<1>4. Head(q) \in T <=> Final(Head(q))
  BY <1>2
<1> HIDE DEF T
<1>5. /\ Len(Tail(q)) = Len(q) - 1 /\ Len(q) \in Nat \ {0}
      /\ \A k \in 0 .. Len(q) - 1 :
           Count(q, T, k + 1) = Count(Tail(q), T, k) + (IF Head(q) \in T THEN 1 ELSE 0)
  BY CountTail
<1>6. Count(Tail(q), T, Len(q) - 1) \in Nat
  <2>1. Len(q) - 1 \in Nat
    BY <1>5
  <2> QED  BY <2>1, CountType
<1>7. /\ Len(q) - 1 \in 0 .. Len(q) - 1 /\ (Len(q) - 1) + 1 = Len(q)
  BY <1>5
<1> QED  BY <1>1, <1>3, <1>4, <1>5, <1>6, <1>7

\* A datagram in one piece ends an answer with its last message, or not at all.
LEMMA FinalLast ==
  ASSUME NEW d \in Datagrams, InOnePiece(d)
  PROVE  /\ Len(d) \in Nat \ {0} /\ d[Len(d)] \in Messages
         /\ d[Len(d)].type \in {"ITEM", "DONE", "ERROR"}
         /\ Final(d) <=> d[Len(d)].type # "ITEM"
         /\ Completes(d[Len(d)]) <=> d[Len(d)].type # "ITEM"
         /\ \A j \in 1 .. Len(d) : Completes(d[j]) => j = Len(d)
<1>1. /\ Len(d) \in Nat \ {0} /\ DOMAIN d = 1 .. Len(d)
      /\ \A j \in 1 .. Len(d) : d[j] \in Messages
  BY LenProperties, EmptySeq, ElementOfSeq DEF Datagrams
<1>2. ASSUME NEW j \in 1 .. Len(d)
      PROVE  /\ d[j].type \in {"ITEM", "DONE", "ERROR"}
             /\ Completes(d[j]) <=> d[j].type # "ITEM"
             /\ d[j].type # "ITEM" => j = Len(d)
  BY <1>2 DEF InOnePiece, Completes, Multi
<1>3. Len(d) \in 1 .. Len(d)
  BY <1>1
<1>4. Final(d) <=> d[Len(d)].type # "ITEM"
  BY <1>1, <1>2, <1>3 DEF Final
<1> QED  BY <1>1, <1>2, <1>3, <1>4

\* recv() and the loop around queue() take a datagram as a whole, into msgbuf or
\* past its end.
LEMMA ReceiveWhole ==
  ASSUME TypeOK, WellFormed, Receive
  PROVE  /\ pc \in {"select", "recv"}
         /\ rx \in Seq(Datagrams) /\ rx # <<>> /\ rx' = Tail(rx)
         /\ Head(rx) \in Datagrams /\ InOnePiece(Head(rx))
         /\ \/ /\ msgbufLen + Len(Head(rx)) <= MsgbufSlots
               /\ msgbufLen' = msgbufLen + Len(Head(rx))
               /\ msgbuf'[msgbufLen'] = Head(rx)[Len(Head(rx))]
               /\ pc' = IF Final(Head(rx)) THEN "reply" ELSE "select"
            \/ /\ msgbufLen + Len(Head(rx)) > MsgbufSlots
               /\ UNCHANGED msgbufLen
               /\ pc' = "overrun"
<1> DEFINE d == Head(rx)
<1>1. /\ pc \in {"select", "recv"} /\ rx # <<>> /\ rx' = Tail(rx)
      /\ rx \in Seq(Datagrams)
  BY DEF Receive, TypeOK, Datagrams
<1>2. d \in Datagrams /\ d = rx[1] /\ 1 \in 1 .. Len(rx)
  BY <1>1, HeadTailProperties, LenProperties, EmptySeq
<1>3. InOnePiece(d)
  BY <1>2 DEF WellFormed
<1>4. PICK n \in 1 .. Len(d) :
        /\ StopsAt(d, n)
        /\ \/ /\ msgbufLen + n <= MsgbufSlots
              /\ msgbuf' = [i \in 1 .. MsgbufSlots |->
                              IF i \in msgbufLen + 1 .. msgbufLen + n
                              THEN d[i - msgbufLen] ELSE msgbuf[i]]
              /\ msgbufLen' = msgbufLen + n
              /\ pc' = IF Completes(d[n]) THEN "reply" ELSE "select"
           \/ /\ msgbufLen + n > MsgbufSlots
              /\ pc' = "overrun"
              /\ UNCHANGED <<msgbuf, msgbufLen>>
  BY DEF Receive
<1> HIDE DEF d
<1>5. /\ Len(d) \in Nat \ {0}
      /\ \A j \in 1 .. Len(d) : Completes(d[j]) => j = Len(d)
      /\ Final(d) <=> Completes(d[Len(d)])
  BY <1>2, <1>3, FinalLast
<1>6. n = Len(d)
  BY <1>4, <1>5 DEF StopsAt
<1>7. msgbufLen \in Nat /\ MsgbufSlots \in Nat
  BY NetlinkAssumption DEF TypeOK
<1>8. CASE msgbufLen + n <= MsgbufSlots
  <2>1. /\ msgbufLen' = msgbufLen + n /\ msgbufLen' \in 1 .. MsgbufSlots
        /\ msgbufLen' \in msgbufLen + 1 .. msgbufLen + n
        /\ msgbufLen' - msgbufLen = n
    BY <1>4, <1>5, <1>6, <1>7, <1>8
  <2>2. msgbuf'[msgbufLen'] = d[n]
    BY <1>4, <1>7, <1>8, <2>1
  <2>3. pc' = IF Completes(d[n]) THEN "reply" ELSE "select"
    BY <1>4, <1>5, <1>6, <1>7, <1>8
  <2> QED  BY <1>1, <1>2, <1>3, <1>5, <1>6, <1>8, <2>1, <2>2, <2>3 DEF d
<1>9. CASE msgbufLen + n > MsgbufSlots
  BY <1>1, <1>2, <1>3, <1>4, <1>5, <1>6, <1>7, <1>9 DEF d
<1> QED  BY <1>4, <1>8, <1>9

\* What a step of the kernel sends: entries of a dump, or all that is left of
\* an answer, which is then the last the kernel has to do with that request.
LEMMA KernelSends ==
  ASSUME TypeOK, Kernel
  PROVE  /\ UNCHANGED <<client, abandoned>>
         /\ \E i \in 1 .. Len(serving), d \in Datagrams :
              /\ Deliver(d) /\ InOnePiece(d)
              /\ \/ /\ serving' = [serving EXCEPT ![i].left = @ - Len(d)]
                    /\ Len(d) <= serving[i].left
                    /\ d[Len(d)].type = "ITEM"
                    /\ UNCHANGED <<verdict, installed>>
                 \/ /\ serving' = Remove(serving, i)
                    /\ d[Len(d)].type = "DONE"
                    /\ Len(d) = serving[i].left + 1
                    /\ serving[i].req.kind = "dump"
                    /\ verdict' = [verdict EXCEPT ![serving[i].seq] = "ok"]
                    /\ UNCHANGED installed
                 \/ /\ serving' = Remove(serving, i)
                    /\ d[Len(d)].type = "ERROR"
                    /\ Len(d) = 1 /\ serving[i].left = DumpSize
                    /\ \/ /\ verdict' = [verdict EXCEPT ![serving[i].seq] = "EBUSY"]
                          /\ UNCHANGED installed
                       \/ \E e \in IF serving[i].req.kind = "dump" THEN {"refused"}
                                   ELSE Decided(serving[i].req) :
                            /\ verdict' = [verdict EXCEPT ![serving[i].seq] = e]
                            /\ installed' = Applied(serving[i].req, e)
<1> USE NetlinkAssumption
<1>1. PICK i \in DOMAIN serving : Execute(i) \/ AnswerBusy(i) \/ DumpPart(i)
  BY DEF Kernel
<1>2. UNCHANGED <<client, abandoned>>
  BY <1>1 DEF Execute, AnswerBusy, DumpPart
<1> DEFINE t == serving[i]
<1>3. serving \in Seq(Entries) /\ i \in 1 .. Len(serving) /\ t \in Entries
  BY LenProperties, ElementOfSeq DEF TypeOK, Entries
<1>4. t.seq \in Seqs /\ t.req \in Requests /\ t.left \in 0 .. DumpSize
  BY <1>3 DEF Entries
<1>e. ASSUME NEW e \in Decisions, Deliver(<<Error(t.seq, e)>>)
      PROVE  \E d \in Datagrams : /\ Deliver(d) /\ InOnePiece(d)
                                  /\ d[Len(d)].type = "ERROR" /\ Len(d) = 1
  <2>1. PICK m, d : m = Error(t.seq, e) /\ d = <<m>>
    OBVIOUS
  <2>2. d \in Datagrams /\ Len(d) = 1 /\ d[1] = m
    BY <2>1, <1>4, <1>e, AnswerDatagrams
  <2>3. m.type = "ERROR"
    BY <2>1 DEF Error
  <2>4. InOnePiece(d)
    BY <2>2, <2>3 DEF InOnePiece
  <2> QED  BY <1>e, <2>1, <2>2, <2>3, <2>4
<1>5. CASE Execute(i)
  <2>1. PICK e \in IF t.req.kind = "dump" THEN {"refused"} ELSE Decided(t.req) :
          /\ t.left = DumpSize
          /\ verdict' = [verdict EXCEPT ![t.seq] = e]
          /\ installed' = Applied(t.req, e)
          /\ serving' = Remove(serving, i)
          /\ Deliver(<<Error(t.seq, e)>>)
    BY <1>5 DEF Execute
  <2>2. e \in Decisions
    <3>1. CASE t.req.kind = "dump"
      BY <3>1, <2>1 DEF Decisions
    <3>2. CASE t.req.kind # "dump"
      BY <3>2, <2>1, <1>4, DecidedType DEF TypeOK
    <3> QED  BY <3>1, <3>2
  <2>3. PICK d \in Datagrams : /\ Deliver(d) /\ InOnePiece(d)
                               /\ d[Len(d)].type = "ERROR" /\ Len(d) = 1
    BY <2>1, <2>2, <1>e
  <2> QED  BY <1>2, <1>3, <2>1, <2>3
<1>6. CASE AnswerBusy(i)
  <2>1. /\ t.left = DumpSize
        /\ verdict' = [verdict EXCEPT ![t.seq] = "EBUSY"]
        /\ serving' = Remove(serving, i)
        /\ Deliver(<<Error(t.seq, "EBUSY")>>)
        /\ UNCHANGED installed
    BY <1>6 DEF AnswerBusy
  <2>2. PICK d \in Datagrams : /\ Deliver(d) /\ InOnePiece(d)
                               /\ d[Len(d)].type = "ERROR" /\ Len(d) = 1
    BY <2>1, <1>e DEF Decisions
  <2> QED  BY <1>2, <1>3, <2>1, <2>2
<1>7. CASE DumpPart(i)
  <2>1. t.req.kind = "dump" /\ UNCHANGED installed
    BY <1>7 DEF DumpPart
  <2>2. ASSUME NEW n \in 1 .. t.left,
               serving' = [serving EXCEPT ![i].left = @ - n],
               UNCHANGED verdict,
               Deliver(Items(t.seq, n))
        PROVE  \E d \in Datagrams :
                 /\ Deliver(d) /\ InOnePiece(d)
                 /\ serving' = [serving EXCEPT ![i].left = @ - Len(d)]
                 /\ Len(d) <= t.left /\ d[Len(d)].type = "ITEM"
    <3>1. PICK e, d : e = Item(t.seq) /\ d = Items(t.seq, n)
      OBVIOUS
    <3>2. n \in Nat \ {0}
      BY <1>4, <2>2
    <3>3. d \in Datagrams /\ Len(d) = n /\ \A j \in 1 .. n : d[j] = e
      BY <3>1, <3>2, <1>4, AnswerDatagrams, ItemsProperties
    <3>4. e.type = "ITEM"
      BY <3>1 DEF Item
    <3>5. InOnePiece(d) /\ d[Len(d)].type = "ITEM"
      BY <3>2, <3>3, <3>4 DEF InOnePiece
    <3>6. Len(d) <= t.left
      BY <2>2, <3>3, <1>4
    <3>7. serving' = [serving EXCEPT ![i].left = @ - Len(d)]
      BY <2>2, <3>3
    <3>8. Deliver(d)
      BY <2>2, <3>1
    <3> QED  BY <3>3, <3>5, <3>6, <3>7, <3>8
  <2>3. ASSUME Deliver(Append(Items(t.seq, t.left), Done(t.seq)))
        PROVE  \E d \in Datagrams :
                 /\ Deliver(d) /\ InOnePiece(d)
                 /\ d[Len(d)].type = "DONE" /\ Len(d) = t.left + 1
    <3>1. PICK e, f, s, d : /\ e = Item(t.seq) /\ f = Done(t.seq)
                            /\ s = Items(t.seq, t.left) /\ d = Append(s, f)
      OBVIOUS
    <3>2. t.left \in Nat
      BY <1>4
    <3>3. /\ s \in Seq(Messages) /\ Len(s) = t.left /\ f \in Messages
          /\ \A j \in 1 .. t.left : s[j] = e
      BY <3>1, <3>2, <1>4, ItemsProperties, MessageTypes DEF Decisions
    <3>4. d \in Datagrams
      BY <3>1, <3>2, <1>4, AnswerDatagrams
    <3>5. Len(d) = t.left + 1 /\ d[t.left + 1] = f /\ \A j \in 1 .. t.left : d[j] = e
      BY <3>1, <3>2, <3>3, AppendProperties
    <3>6. e.type = "ITEM" /\ f.type = "DONE"
      BY <3>1 DEF Item, Done
    <3>7. InOnePiece(d)
      <4>1. ASSUME NEW j \in 1 .. Len(d)
            PROVE  /\ d[j].type \in {"ITEM", "DONE", "ERROR"}
                   /\ d[j].type # "ITEM" => j = Len(d)
        <5>1. j \in 1 .. t.left \/ j = t.left + 1
          BY <3>2, <3>5, <4>1
        <5> QED  BY <3>5, <3>6, <5>1
      <4> QED  BY <4>1 DEF InOnePiece
    <3> QED  BY <2>3, <3>1, <3>4, <3>5, <3>6, <3>7
  <2>4. CASE \E n \in 1 .. t.left :
               /\ serving' = [serving EXCEPT ![i].left = @ - n]
               /\ UNCHANGED verdict
               /\ Deliver(Items(t.seq, n))
    BY <2>1, <2>2, <2>4, <1>2, <1>3
  <2>5. CASE /\ serving' = Remove(serving, i)
             /\ verdict' = [verdict EXCEPT ![t.seq] = "ok"]
             /\ Deliver(Append(Items(t.seq, t.left), Done(t.seq)))
    BY <2>1, <2>3, <2>5, <1>2, <1>3
  <2> QED  BY <1>7, <2>4, <2>5 DEF DumpPart
<1> QED  BY <1>1, <1>5, <1>6, <1>7

LEMMA NextWellFormed ==
  ASSUME TypeOK, WellFormed, [Next]_vars
  PROVE  WellFormed'
<1>1. rx \in Seq(Datagrams)
  BY DEF TypeOK, Datagrams
<1>2. CASE Kernel
  <2>1. PICK d \in Datagrams : Deliver(d) /\ InOnePiece(d)
    BY <1>2, KernelSends
  <2>2. CASE rx' = Append(rx, d)
    <3>1. /\ Len(rx) \in Nat /\ Len(rx') = Len(rx) + 1 /\ rx'[Len(rx) + 1] = d
          /\ \A i \in 1 .. Len(rx) : rx'[i] = rx[i]
      BY <1>1, <2>2, AppendProperties, LenProperties
    <3>2. ASSUME NEW i \in 1 .. Len(rx') PROVE InOnePiece(rx'[i])
      <4>1. i \in 1 .. Len(rx) \/ i = Len(rx) + 1
        BY <3>1
      <4> QED  BY <3>1, <4>1, <2>1 DEF WellFormed
    <3> QED  BY <3>2 DEF WellFormed
  <2>3. CASE UNCHANGED rx
    BY <2>3 DEF WellFormed
  <2> QED  BY <2>1, <2>2, <2>3 DEF Deliver
<1>3. CASE Receive
  <2>1. rx # <<>> /\ rx' = Tail(rx)
    BY <1>3 DEF Receive
  <2>2. /\ Len(rx') = Len(rx) - 1 /\ Len(rx) \in Nat
        /\ \A i \in 1 .. Len(rx') : rx'[i] = rx[i + 1]
    BY <1>1, <2>1, HeadTailProperties, LenProperties
  <2>3. ASSUME NEW i \in 1 .. Len(rx') PROVE InOnePiece(rx'[i])
    <3>1. i + 1 \in 1 .. Len(rx)
      BY <2>2
    <3> QED  BY <2>2, <3>1 DEF WellFormed
  <2> QED  BY <2>3 DEF WellFormed
<1>4. CASE UNCHANGED rx
  BY <1>4 DEF WellFormed
<1> QED  BY <1>2, <1>3, <1>4
         DEF Next, vars, kernel, Progress, Call, Transmit, WriteFails, RecvFails,
             RetryBusy, ReturnAck, ReturnDump, SelectFails, SelectExpires,
             RecvInterrupted

LEMMA OutstandingType ==
  ASSUME TypeOK
  PROVE  /\ Len(serving) \in Nat /\ Ends(rx) \in Nat
         /\ Outstanding = Len(serving) + Ends(rx)
         /\ abandoned \in Nat /\ losses \in Nat
<1>1. serving \in Seq(Entries) /\ rx \in Seq(Datagrams)
  BY DEF TypeOK, Entries, Datagrams
<1>2. Len(serving) \in Nat /\ Len(rx) \in Nat
  BY <1>1, LenProperties
<1>3. Ends(rx) \in Nat
  <2>1. Ends(rx) = Count(rx, {d \in Datagrams : Final(d)}, Len(rx))
    BY <1>1, EndsCount
  <2> QED  BY <1>2, <2>1, CountType
<1> QED  BY <1>2, <1>3, NetlinkAssumption DEF Outstanding, Ends, TypeOK

LEMMA InitConserved == Init => WellFormed /\ AnswersConserved
<1> SUFFICES ASSUME Init PROVE WellFormed /\ AnswersConserved
  OBVIOUS
<1>1. /\ rx = <<>> /\ serving = <<>> /\ pc = "idle"
      /\ abandoned = 0 /\ losses = 0
  BY DEF Init
<1>2. Len(serving) = 0 /\ Len(rx) = 0
  BY <1>1, EmptySeq
<1>3. Outstanding = Len(serving) + Ends(rx)
  BY DEF Outstanding, Ends
<1>4. Outstanding = 0
  BY <1>1, <1>2, <1>3, EndsNone
<1> QED  BY <1>1, <1>2, <1>4 DEF WellFormed, AnswersConserved, Waiting

LEMMA NextConserved ==
  ASSUME TypeOK, WellFormed, AnswersConserved, [Next]_vars
  PROVE  AnswersConserved'
<1> USE NetlinkAssumption
<1>1. TypeOK'
  BY NextTypeOK
<1>2. /\ Len(serving) \in Nat /\ Ends(rx) \in Nat
      /\ Outstanding = Len(serving) + Ends(rx)
      /\ abandoned \in Nat /\ losses \in Nat
  BY OutstandingType
<1>3. Outstanding' = Len(serving') + Ends(rx')
  BY DEF Outstanding, Ends
<1>4. rx \in Seq(Datagrams) /\ serving \in Seq(Entries)
  BY DEF TypeOK, Datagrams, Entries
\* The steps that change neither end of the connection.
<1>5. ASSUME UNCHANGED <<serving, rx, losses>>,
             \/ UNCHANGED abandoned /\ Waiting' = Waiting /\ (pc = "overrun" => pc' = "overrun")
             \/ abandoned' = abandoned + 1 /\ Waiting' = 0 /\ Waiting = 1
      PROVE  AnswersConserved'
  <2>1. Outstanding' = Outstanding
    BY <1>2, <1>3, <1>5
  <2>2. CASE UNCHANGED abandoned /\ Waiting' = Waiting /\ (pc = "overrun" => pc' = "overrun")
    BY <1>5, <2>1, <2>2 DEF AnswersConserved
  <2>3. CASE abandoned' = abandoned + 1 /\ Waiting' = 0 /\ Waiting = 1
    <3>1. Outstanding' <= abandoned' + Waiting' /\ abandoned' # 0
      BY <1>2, <2>1, <2>3 DEF AnswersConserved
    <3> QED  BY <3>1 DEF AnswersConserved
  <2> QED  BY <1>5, <2>2, <2>3
<1>6. CASE (\E r \in Requests : Call(r)) \/ WriteFails \/ RecvFails \/ SelectExpires
             \/ RecvInterrupted \/ RetryBusy \/ ReturnAck \/ ReturnDump
  <2>1. /\ UNCHANGED <<serving, rx, losses, abandoned>> /\ pc # "overrun"
        /\ \/ pc \in {"select", "recv"} /\ pc' \in {"select", "recv"}
           \/ pc \in {"idle", "write", "reply"} /\ pc' \in {"idle", "write", "reply", "badfree"}
    BY <1>6 DEF Call, WriteFails, RecvFails, SelectExpires, RecvInterrupted, RetryBusy,
                ReturnAck, ReturnDump, kernel
  <2>2. Waiting' = Waiting
    BY <2>1 DEF Waiting
  <2> QED  BY <1>5, <2>1, <2>2
<1>7. CASE SelectFails
  <2>1. /\ UNCHANGED <<serving, rx, losses>> /\ abandoned' = abandoned + 1
        /\ Waiting' = 0 /\ Waiting = 1
    BY <1>7 DEF SelectFails, kernel, Waiting
  <2> QED  BY <1>5, <2>1
<1>8. CASE Transmit
  <2>1. /\ UNCHANGED <<rx, losses, abandoned>> /\ Waiting' = 1 /\ Waiting = 0
        /\ pc # "overrun"
        /\ serving' = Append(serving, [seq |-> seq, req |-> req, left |-> DumpSize])
    BY <1>8 DEF Transmit, Waiting
  <2>2. Len(serving') = Len(serving) + 1
    BY <2>1, <1>4, AppendProperties
  <2>3. Outstanding' = Outstanding + 1
    BY <2>1, <2>2, <1>2, <1>3
  <2> QED  BY <2>1, <2>3, <1>2 DEF AnswersConserved
<1>9. CASE Receive
  <2>1. /\ pc \in {"select", "recv"} /\ rx # <<>> /\ rx' = Tail(rx)
        /\ UNCHANGED <<serving, losses, abandoned>>
        /\ \/ pc' = IF Final(Head(rx)) THEN "reply" ELSE "select"
           \/ pc' = "overrun"
    BY <1>9, ReceiveWhole DEF Receive
  <2>2. /\ Ends(rx') \in Nat
        /\ Ends(rx) = Ends(rx') + (IF Final(Head(rx)) THEN 1 ELSE 0)
    BY <2>1, <1>4, EndsTail
  <2>3. Waiting = 1
    BY <2>1 DEF Waiting
  <2>4. CASE pc' = "overrun"
    <3>1. Waiting' = 1 /\ Outstanding' <= Outstanding
      BY <1>2, <1>3, <2>1, <2>2, <2>4 DEF Waiting
    <3>2. Outstanding' \in Nat
      BY <1>2, <1>3, <2>1, <2>2
    <3> QED  BY <1>2, <2>1, <2>2, <2>3, <2>4, <3>1, <3>2 DEF AnswersConserved
  <2>5. CASE Final(Head(rx)) /\ pc' = "reply"
    <3>1. Waiting' = 0 /\ Outstanding' = Outstanding - 1
      BY <1>2, <1>3, <2>1, <2>2, <2>5 DEF Waiting
    <3> QED  BY <1>2, <2>1, <2>3, <3>1 DEF AnswersConserved
  <2>6. CASE ~Final(Head(rx)) /\ pc' = "select"
    <3>1. Waiting' = 1 /\ Outstanding' = Outstanding
      BY <1>2, <1>3, <2>1, <2>2, <2>6 DEF Waiting
    <3> QED  BY <1>2, <2>1, <2>3, <3>1 DEF AnswersConserved
  <2> QED  BY <2>1, <2>4, <2>5, <2>6
<1>10. CASE Kernel
  <2>1. PICK i \in 1 .. Len(serving), d \in Datagrams :
          /\ Deliver(d) /\ InOnePiece(d)
          /\ \/ /\ serving' = [serving EXCEPT ![i].left = @ - Len(d)]
                /\ d[Len(d)].type = "ITEM"
             \/ /\ serving' = Remove(serving, i)
                /\ d[Len(d)].type \in {"DONE", "ERROR"}
    BY <1>10, KernelSends
  <2>2. UNCHANGED <<pc, abandoned>> /\ Waiting' = Waiting /\ Waiting \in {0, 1}
    BY <1>10, KernelSends DEF client, Waiting
  <2>3. Final(d) <=> d[Len(d)].type # "ITEM"
    BY <2>1, FinalLast
  <2>4. \/ /\ Ends(rx') = Ends(rx) + (IF Final(d) THEN 1 ELSE 0)
           /\ UNCHANGED losses
        \/ Ends(rx') = Ends(rx) /\ losses' # 0
    <3>1. CASE rx' = Append(rx, d) /\ UNCHANGED losses
      BY <3>1, <1>4, EndsAppend
    <3>2. CASE UNCHANGED rx /\ losses' = losses + 1
      BY <3>2, <1>2
    <3> QED  BY <2>1, <3>1, <3>2 DEF Deliver
  <2>5. Len(serving') = IF Final(d) THEN Len(serving) - 1 ELSE Len(serving)
    <3>1. CASE serving' = [serving EXCEPT ![i].left = @ - Len(d)] /\ d[Len(d)].type = "ITEM"
      BY <3>1, <2>3, <1>4
    <3>2. CASE serving' = Remove(serving, i) /\ d[Len(d)].type \in {"DONE", "ERROR"}
      <4>1. i \in DOMAIN serving
        BY <2>1, <1>4, LenProperties
      <4>2. Len(Remove(serving, i)) = Len(serving) - 1
        BY <4>1, <1>4, RemoveProperties
      <4> QED  BY <3>2, <2>3, <4>2
    <3> QED  BY <2>1, <3>1, <3>2
  <2>6. CASE UNCHANGED losses /\ Ends(rx') = Ends(rx) + (IF Final(d) THEN 1 ELSE 0)
    <3>1. Outstanding' = Outstanding
      BY <1>2, <1>3, <2>5, <2>6
    <3> QED  BY <2>2, <2>6, <3>1 DEF AnswersConserved
  <2>7. CASE Ends(rx') = Ends(rx) /\ losses' # 0
    <3>1. Outstanding' <= Outstanding /\ Outstanding' \in Int /\ Outstanding \in Int
      BY <1>2, <1>3, <2>5, <2>7
    <3> QED  BY <1>2, <2>2, <2>7, <3>1 DEF AnswersConserved
  <2> QED  BY <2>4, <2>6, <2>7
<1>11. CASE UNCHANGED vars
  <2>1. UNCHANGED <<serving, rx, losses, abandoned, pc>>
    BY <1>11 DEF vars, client, kernel
  <2> QED  BY <1>5, <2>1 DEF Waiting
<1> QED  BY <1>6, <1>7, <1>8, <1>9, <1>10, <1>11 DEF Next, Progress

\* Every answer is read by the call that asked for it: what is left over on the
\* socket is at most one answer for each call that a failing select() cut short,
\* and while nothing was lost or cut short exactly the awaited answer is still
\* to come, for any number of calls.
THEOREM NoStrayAnswers == Spec => []AnswersConserved
<1>1. Init => TypeOK /\ WellFormed /\ AnswersConserved
  BY InitTypeOK, InitConserved
<1>2. TypeOK /\ WellFormed /\ AnswersConserved /\ [Next]_vars
        => (TypeOK /\ WellFormed /\ AnswersConserved)'
  BY NextTypeOK, NextWellFormed, NextConserved
<1> QED  BY <1>1, <1>2, PTL DEF Spec

-----------------------------------------------------------------------------
(* What an answer consists of, while no call has been abandoned.  IInv says  *)
(* to whom the messages under way belong; to know that a dump is complete,   *)
(* that msgbuf is overrun by a big dump only, and that the kernel has made   *)
(* up its mind by the time a dump is walked, one has to count them: nothing  *)
(* of an answer is ever there twice.                                         *)

InTransit ==
  /\ WholeAnswer <= DumpSize + 1
  /\ losses = 0 /\ req.kind = "dump" /\ (serving # <<>> \/ verdict[seq] = "ok")
       => WholeAnswer = DumpSize + 1
  /\ \A i \in 1 .. Len(rx) : \A j \in 1 .. Len(rx[i]) :
       /\ rx[i][j].type = "DONE" => verdict[seq] = "ok"
       /\ rx[i][j].type = "ERROR" => WholeAnswer = 1

Concluded ==
  /\ losses = 0 /\ req.kind = "dump" /\ verdict[seq] = "ok" => msgbufLen = DumpSize + 1
  /\ msgbuf[msgbufLen].type = "DONE" => verdict[seq] = "ok"
  /\ msgbuf[msgbufLen].type = "ERROR" => msgbufLen = 1

\* Past the end of msgbuf, with at most the own request still at the kernel.
Overrun ==
  /\ req.kind = "dump" /\ DumpSize >= MsgbufSlots
  /\ Len(serving) <= 1
  /\ serving # <<>> => /\ serving[1].seq = seq /\ serving[1].req = req
                       /\ verdict[seq] \in Undecided

Accounted ==
  /\ pc \in {"select", "recv"} => InTransit
  /\ pc = "reply" => Concluded
  /\ pc = "overrun" => Overrun
  /\ DumpComplete

JInv == WellFormed /\ (abandoned = 0 => Accounted)

LEMMA AppendedMessage ==
  ASSUME NEW M, NEW q \in Seq(Seq(M)), NEW d \in Seq(M),
         NEW i \in 1 .. Len(Append(q, d)), NEW j \in 1 .. Len(Append(q, d)[i])
  PROVE  \/ /\ i \in 1 .. Len(q) /\ j \in 1 .. Len(q[i])
            /\ Append(q, d)[i][j] = q[i][j]
         \/ j \in 1 .. Len(d) /\ Append(q, d)[i][j] = d[j]
<1>1. /\ Len(q) \in Nat /\ Len(Append(q, d)) = Len(q) + 1
      /\ Append(q, d)[Len(q) + 1] = d
      /\ \A k \in 1 .. Len(q) : Append(q, d)[k] = q[k]
  BY AppendProperties, LenProperties
<1>2. i \in 1 .. Len(q) \/ i = Len(q) + 1
  BY <1>1
<1> QED  BY <1>1, <1>2

\* Every part of WholeAnswer is a number.
LEMMA AnswerType ==
  ASSUME TypeOK
  PROVE  /\ rx \in Seq(Seq(Messages)) /\ rx \in Seq(Datagrams)
         /\ Pending \in Nat /\ msgbufLen \in Nat
         /\ serving \in Seq(Entries) /\ Len(serving) \in Nat
         /\ serving = <<>> => Still = 0
         /\ serving # <<>> => serving[1].left \in Nat /\ Still = serving[1].left + 1
<1>1. rx \in Seq(Datagrams) /\ serving \in Seq(Entries)
  BY DEF TypeOK, Datagrams, Entries
<1>2. rx \in Seq(Seq(Messages))
  <2>1. Len(rx) \in Nat /\ rx = [i \in 1 .. Len(rx) |-> rx[i]]
        /\ \A i \in 1 .. Len(rx) : rx[i] \in Seq(Messages)
    BY <1>1, LenProperties, ElementOfSeq DEF Datagrams
  <2> QED  BY <2>1, SeqDef
<1>3. Pending \in Nat
  BY <1>2, PlacesFinite DEF Pending
<1>4. ASSUME serving # <<>> PROVE serving[1].left \in Nat
  <2>1. 1 \in 1 .. Len(serving)
    BY <1>1, <1>4, EmptySeq, LenProperties
  <2>2. serving[1] \in Entries
    BY <1>1, <2>1, ElementOfSeq
  <2> QED  BY <2>2, NetlinkAssumption DEF Entries
<1> QED  BY <1>1, <1>2, <1>3, <1>4, LenProperties, NetlinkAssumption DEF TypeOK, Still

LEMMA InitAccounted == Init => Accounted
BY DEF Init, Accounted, DumpComplete, Finished

\* A walk over a whole answer meets every entry.
LEMMA WalkIsComplete ==
  ASSUME TypeOK, Undisturbed, Accounted, ReturnDump,
         losses = 0, verdict[seq] = "ok"
  PROVE  listed' = DumpSize
<1> USE NetlinkAssumption
<1>1. /\ pc = "reply" /\ req.kind = "dump"
      /\ listed' = Cardinality({i \in 1 .. msgbufLen :
                                  /\ msgbuf[i].type = "ITEM"
                                  /\ \A j \in 1 .. i : msgbuf[j].type # "DONE"})
  BY DEF ReturnDump
<1>2. Answered /\ msgbufLen = DumpSize + 1
  BY <1>1 DEF Undisturbed, Accounted, Concluded
<1>3. \A k \in 1 .. msgbufLen : msgbuf[k].type = "ITEM" <=> k # msgbufLen
  BY <1>2 DEF Answered, OwnAnswer, Completes, Multi
<1>4. {i \in 1 .. msgbufLen : /\ msgbuf[i].type = "ITEM"
                              /\ \A j \in 1 .. i : msgbuf[j].type # "DONE"} = 1 .. DumpSize
  BY <1>2, <1>3
<1>5. Cardinality(1 .. DumpSize) = DumpSize
  BY FS_Interval
<1> QED  BY <1>1, <1>4, <1>5

LEMMA ClientAccounted ==
  ASSUME TypeOK, Undisturbed, Accounted,
         \/ \E r \in Requests : Call(r)
         \/ Transmit \/ WriteFails \/ RecvFails
         \/ RetryBusy \/ ReturnAck \/ ReturnDump \/ SelectExpires \/ RecvInterrupted
  PROVE  Accounted'
<1> USE NetlinkAssumption
<1>1. CASE (\E r \in Requests : Call(r)) \/ RetryBusy
  <2>1. pc' \in {"write", "badfree"}
    BY <1>1 DEF Call, RetryBusy
  <2> QED  BY <2>1 DEF Accounted, DumpComplete, Finished
<1>2. CASE Transmit
  <2>1. /\ serving = <<>> /\ rx = <<>> /\ UNCHANGED rx /\ pc' = "select" /\ msgbufLen' = 0
        /\ serving' = <<[seq |-> seq, req |-> req, left |-> DumpSize]>>
    BY <1>2 DEF Transmit, Undisturbed
  <2>2. Pending' = 0 /\ Still' = DumpSize + 1
    BY <2>1, PlacesNone DEF Pending, Still
  <2>3. WholeAnswer' = DumpSize + 1
    BY <2>1, <2>2 DEF WholeAnswer
  <2>4. Len(rx') = 0
    BY <2>1, EmptySeq
  <2>5. InTransit'
    BY <2>3, <2>4 DEF InTransit
  <2> QED  BY <2>1, <2>5 DEF Accounted, DumpComplete, Finished
<1>3. CASE WriteFails
  BY <1>3 DEF WriteFails, kernel, Undisturbed, Undecided, Accounted, DumpComplete, Finished
<1>4. CASE RecvFails \/ SelectExpires \/ RecvInterrupted
  <2>1. /\ pc \in {"select", "recv"} /\ pc' \in {"select", "recv"}
        /\ UNCHANGED <<seq, req, msgbufLen, serving, rx, verdict, losses>>
    BY <1>4 DEF RecvFails, SelectExpires, RecvInterrupted, kernel
  <2>2. WholeAnswer' = WholeAnswer
    BY <2>1 DEF WholeAnswer, Pending, Still
  <2>3. InTransit'
    BY <2>1, <2>2 DEF Accounted, InTransit
  <2> QED  BY <2>1, <2>3 DEF Accounted, DumpComplete, Finished
<1>5. CASE ReturnAck
  BY <1>5 DEF ReturnAck, Accounted, DumpComplete, Finished
<1>6. CASE ReturnDump
  <2>1. pc' = "idle" /\ UNCHANGED <<seq, req, verdict, losses>>
    BY <1>6 DEF ReturnDump, kernel
  <2>2. DumpComplete'
    BY <1>6, <2>1, WalkIsComplete DEF DumpComplete, Finished
  <2> QED  BY <2>1, <2>2 DEF Accounted
<1> QED  BY <1>1, <1>2, <1>3, <1>4, <1>5, <1>6

LEMMA ReceiveAccounted ==
  ASSUME TypeOK, WellFormed, Undisturbed, Accounted, Receive
  PROVE  Accounted'
<1> USE NetlinkAssumption
<1>1. PICK d : d = Head(rx)
  OBVIOUS
<1>2. /\ pc \in {"select", "recv"} /\ rx # <<>> /\ rx' = Tail(rx)
      /\ d \in Datagrams /\ InOnePiece(d)
      /\ \/ /\ msgbufLen + Len(d) <= MsgbufSlots
            /\ msgbufLen' = msgbufLen + Len(d)
            /\ msgbuf'[msgbufLen'] = d[Len(d)]
            /\ pc' = IF Final(d) THEN "reply" ELSE "select"
         \/ /\ msgbufLen + Len(d) > MsgbufSlots
            /\ UNCHANGED msgbufLen
            /\ pc' = "overrun"
  BY <1>1, ReceiveWhole
<1>3. UNCHANGED <<seq, req, serving, verdict, losses>>
  BY DEF Receive
<1>4. InTransit /\ OneOpen /\ Unread /\ Collected
  BY <1>2 DEF Accounted, Undisturbed, Awaiting
<1>5. /\ Len(d) \in Nat \ {0} /\ d[Len(d)].type \in {"ITEM", "DONE", "ERROR"}
      /\ Final(d) <=> d[Len(d)].type # "ITEM"
      /\ Completes(d[Len(d)]) <=> d[Len(d)].type # "ITEM"
  BY <1>2, FinalLast
<1>6. /\ Len(rx) \in Nat \ {0} /\ d = rx[1] /\ DOMAIN rx = 1 .. Len(rx)
      /\ Len(rx') = Len(rx) - 1 /\ \A i \in 1 .. Len(rx') : rx'[i] = rx[i + 1]
      /\ DOMAIN d = 1 .. Len(d)
  <2>1. rx \in Seq(Datagrams)
    BY AnswerType
  <2>2. Len(rx) \in Nat \ {0} /\ d = rx[1] /\ DOMAIN rx = 1 .. Len(rx)
    BY <2>1, <1>1, <1>2, HeadTailProperties, LenProperties, EmptySeq
  <2>3. Len(rx') = Len(rx) - 1 /\ \A i \in 1 .. Len(rx') : rx'[i] = rx[i + 1]
    BY <2>1, <1>2, HeadTailProperties
  <2>4. DOMAIN d = 1 .. Len(d)
    BY <1>2, LenProperties DEF Datagrams
  <2> QED  BY <2>2, <2>3, <2>4
<1>7. Pending = Pending' + Len(d) /\ Pending' \in Nat
  <2>1. rx \in Seq(Seq(Messages))
    BY AnswerType
  <2>2. Pending = Cardinality(Places(Tail(rx))) + Len(d)
    BY <2>1, <1>1, <1>2, PlacesTail DEF Pending
  <2>3. Tail(rx) \in Seq(Seq(Messages))
    BY <2>1, <1>2, HeadTailProperties
  <2>4. Cardinality(Places(Tail(rx))) \in Nat
    BY <2>3, PlacesFinite
  <2> QED  BY <1>2, <2>2, <2>4 DEF Pending
<1>8. Still' = Still /\ Still \in Nat /\ msgbufLen \in Nat
  BY <1>3, AnswerType DEF Still
<1>9. ASSUME NEW j \in 1 .. Len(d)
      PROVE  /\ OwnAnswer(d[j])
             /\ d[j].type = "DONE" => verdict[seq] = "ok"
             /\ d[j].type = "ERROR" => WholeAnswer = 1
  <2>1. 1 \in 1 .. Len(rx)
    BY <1>6
  <2> QED  BY <2>1, <1>4, <1>6, <1>9 DEF Unread, InTransit
<1>10. CASE pc' = "overrun"
  <2>1. msgbufLen + Len(d) > MsgbufSlots
    BY <1>2, <1>10
  <2>2. DumpSize >= MsgbufSlots
    BY <2>1, <1>4, <1>5, <1>7, <1>8 DEF InTransit, WholeAnswer
  <2>3. req.kind = "dump"
    <3>1. SUFFICES ASSUME req.kind # "dump" PROVE FALSE
      OBVIOUS
    <3>2. 1 \in 1 .. Len(d) /\ d[1].type = "ERROR"
      BY <1>5, <1>9, <3>1 DEF OwnAnswer
    <3>3. Len(d) = 1
      BY <1>2, <1>5, <3>2 DEF InOnePiece
    <3>4. WholeAnswer = 1
      BY <1>9, <3>2
    <3>5. Pending >= 1 /\ Pending \in Nat
      <4>1. PICK n : n = Pending'
        OBVIOUS
      <4>2. Pending = n + 1 /\ n \in Nat
        BY <4>1, <3>3, <1>7
      <4> QED  BY <4>2
    <3>6. msgbufLen >= 1
      <4>1. msgbufLen + 1 > MsgbufSlots /\ MsgbufSlots \in Nat \ {0}
        BY <2>1, <3>3
      <4> QED  BY <4>1, <1>8
    <3>7. msgbufLen + Pending + Still = 1
      BY <3>4 DEF WholeAnswer
    <3> QED  BY <3>5, <3>6, <3>7, <1>8
  <2>4. Overrun'
    BY <2>2, <2>3, <1>3, <1>4 DEF Overrun, OneOpen
  <2> QED  BY <1>10, <2>4 DEF Accounted, DumpComplete, Finished
<1>11. CASE pc' = "select"
  <2>1. WholeAnswer' = WholeAnswer
    BY <1>2, <1>5, <1>7, <1>8, <1>11 DEF WholeAnswer
  <2>2. ASSUME NEW i \in 1 .. Len(rx'), NEW j \in 1 .. Len(rx'[i])
        PROVE  /\ rx'[i][j].type = "DONE" => verdict[seq] = "ok"
               /\ rx'[i][j].type = "ERROR" => WholeAnswer = 1
    <3>1. i + 1 \in 1 .. Len(rx) /\ rx'[i] = rx[i + 1]
      BY <1>6
    <3> QED  BY <3>1, <2>2, <1>4 DEF InTransit
  <2>3. InTransit'
    BY <2>1, <2>2, <1>3, <1>4 DEF InTransit
  <2> QED  BY <2>3, <1>11 DEF Accounted, DumpComplete, Finished
<1>12. CASE pc' = "reply"
  <2>1. /\ d[Len(d)].type # "ITEM" /\ msgbufLen' = msgbufLen + Len(d)
        /\ msgbuf'[msgbufLen'] = d[Len(d)]
    BY <1>2, <1>5, <1>12
  <2>2. Len(rx) = 1 /\ serving = <<>>
    <3>1. 1 \in 1 .. Len(rx) /\ Len(d) \in 1 .. Len(d)
      BY <1>5, <1>6
    <3>2. Len(rx) = 1
      BY <3>1, <2>1, <1>4, <1>5, <1>6 DEF Unread
    <3>3. serving = <<>>
      BY <3>1, <2>1, <1>4, <1>6 DEF OneOpen
    <3> QED  BY <3>2, <3>3
  <2>3. Pending' = 0 /\ Still = 0
    <3>1. rx' = <<>>
      <4>1. rx \in Seq(Datagrams) /\ Len(Tail(rx)) = 0
        BY <2>2, <1>2, <1>6, AnswerType
      <4>2. Tail(rx) \in Seq(Datagrams)
        BY <4>1, <1>2, HeadTailProperties
      <4> QED  BY <4>1, <4>2, <1>2, EmptySeq
    <3> QED  BY <3>1, <2>2, PlacesNone DEF Pending, Still
  <2>4. msgbufLen' = WholeAnswer
    BY <2>1, <2>3, <1>5, <1>7, <1>8 DEF WholeAnswer
  <2>5. Concluded'
    <3>1. Len(d) \in 1 .. Len(d)
      BY <1>5
    <3>2. /\ d[Len(d)].type = "DONE" => verdict[seq] = "ok"
          /\ d[Len(d)].type = "ERROR" => WholeAnswer = 1
      BY <3>1, <1>9
    <3> QED  BY <3>2, <2>1, <2>4, <1>3, <1>4 DEF Concluded, InTransit
  <2> QED  BY <2>5, <1>12 DEF Accounted, DumpComplete, Finished
<1> QED  BY <1>2, <1>10, <1>11, <1>12

LEMMA KernelAccounted ==
  ASSUME TypeOK, Undisturbed, Accounted, Kernel
  PROVE  Accounted'
<1> USE NetlinkAssumption
<1>1. UNCHANGED client
  BY KernelSends
<1>2. PICK i \in 1 .. Len(serving), d \in Datagrams :
        /\ Deliver(d) /\ InOnePiece(d)
        /\ \/ /\ serving' = [serving EXCEPT ![i].left = @ - Len(d)]
              /\ Len(d) <= serving[i].left
              /\ d[Len(d)].type = "ITEM"
              /\ UNCHANGED verdict
           \/ /\ serving' = Remove(serving, i)
              /\ d[Len(d)].type = "DONE"
              /\ Len(d) = serving[i].left + 1
              /\ verdict' = [verdict EXCEPT ![serving[i].seq] = "ok"]
           \/ /\ serving' = Remove(serving, i)
              /\ d[Len(d)].type = "ERROR"
              /\ Len(d) = 1 /\ serving[i].left = DumpSize
              /\ \E e : /\ verdict' = [verdict EXCEPT ![serving[i].seq] = e]
                        /\ serving[i].req.kind = "dump" => e # "ok"
  <2>1. PICK i \in 1 .. Len(serving), d \in Datagrams :
        /\ Deliver(d) /\ InOnePiece(d)
        /\ \/ /\ serving' = [serving EXCEPT ![i].left = @ - Len(d)]
              /\ Len(d) <= serving[i].left
              /\ d[Len(d)].type = "ITEM"
              /\ UNCHANGED verdict
           \/ /\ serving' = Remove(serving, i)
              /\ d[Len(d)].type = "DONE"
              /\ Len(d) = serving[i].left + 1
              /\ verdict' = [verdict EXCEPT ![serving[i].seq] = "ok"]
           \/ /\ serving' = Remove(serving, i)
              /\ d[Len(d)].type = "ERROR"
              /\ Len(d) = 1 /\ serving[i].left = DumpSize
              /\ \/ verdict' = [verdict EXCEPT ![serving[i].seq] = "EBUSY"]
                 \/ \E e \in IF serving[i].req.kind = "dump" THEN {"refused"}
                             ELSE Decided(serving[i].req) :
                      verdict' = [verdict EXCEPT ![serving[i].seq] = e]
    BY KernelSends, ZenonT(30)
  <2>2. ASSUME \/ verdict' = [verdict EXCEPT ![serving[i].seq] = "EBUSY"]
               \/ \E e \in IF serving[i].req.kind = "dump" THEN {"refused"}
                           ELSE Decided(serving[i].req) :
                    verdict' = [verdict EXCEPT ![serving[i].seq] = e]
        PROVE  \E e : /\ verdict' = [verdict EXCEPT ![serving[i].seq] = e]
                      /\ serving[i].req.kind = "dump" => e # "ok"
    <3>1. CASE verdict' = [verdict EXCEPT ![serving[i].seq] = "EBUSY"]
      <4>1. "EBUSY" # "ok"
        OBVIOUS
      <4> QED  BY <3>1, <4>1, Zenon
    <3>2. CASE \E e \in IF serving[i].req.kind = "dump" THEN {"refused"}
                        ELSE Decided(serving[i].req) :
                 verdict' = [verdict EXCEPT ![serving[i].seq] = e]
      BY <3>2
    <3> QED  BY <2>2, <3>1, <3>2
  <2> QED  BY <2>1, <2>2
<1>3. /\ rx \in Seq(Seq(Messages)) /\ Pending \in Nat /\ msgbufLen \in Nat
      /\ serving \in Seq(Entries) /\ Len(serving) \in Nat \ {0} /\ serving # <<>>
      /\ serving[1].left \in Nat /\ Still = serving[1].left + 1
  <2>1. Len(serving) \in Nat \ {0} /\ serving # <<>>
    BY <1>2, AnswerType, EmptySeq
  <2> QED  BY <2>1, AnswerType
<1>l. Len(serving) <= 1 => Len(serving) = 1 /\ i = 1
  <2>1. PICK n : n = Len(serving)
    OBVIOUS
  <2>2. n \in Nat \ {0} /\ i \in 1 .. n
    BY <1>3, <2>1
  <2>3. n <= 1 => n = 1 /\ i = 1
    BY <2>2
  <2> QED  BY <2>1, <2>3
<1>4. /\ Len(serving) = 1 /\ i = 1
      /\ serving[1].seq = seq /\ serving[1].req = req /\ verdict[seq] \in Undecided
      /\ pc \in {"select", "recv", "overrun"}
      /\ pc # "overrun" =>
           /\ InTransit /\ OneOpen
           /\ \A k \in 1 .. Len(rx) : \A j \in 1 .. Len(rx[k]) : rx[k][j].type = "ITEM"
  <2>1. pc \in {"select", "recv", "overrun"}
    BY <1>3 DEF Undisturbed, TypeOK, Locations
  <2>2. CASE pc = "overrun"
    <3>1. /\ Len(serving) <= 1 /\ serving[1].seq = seq /\ serving[1].req = req
          /\ verdict[seq] \in Undecided
      BY <2>2, <1>3 DEF Accounted, Overrun
    <3>2. Len(serving) = 1 /\ i = 1
      BY <3>1, <1>l
    <3> QED  BY <2>2, <3>1, <3>2
  <2>3. CASE pc # "overrun"
    <3>1. InTransit /\ OneOpen
      BY <2>1, <2>3 DEF Accounted, Undisturbed, Awaiting
    <3>2. /\ Len(serving) <= 1 /\ serving[1].seq = seq /\ serving[1].req = req
          /\ verdict[seq] \in Undecided
          /\ \A k \in DOMAIN rx : \A j \in DOMAIN rx[k] : rx[k][j].type = "ITEM"
      BY <3>1, <1>3 DEF OneOpen
    <3>3. /\ DOMAIN rx = 1 .. Len(rx)
          /\ \A k \in 1 .. Len(rx) : DOMAIN rx[k] = 1 .. Len(rx[k])
      BY <1>3, LenProperties, ElementOfSeq
    <3>4. Len(serving) = 1 /\ i = 1
      BY <3>2, <1>l
    <3>5. \A k \in 1 .. Len(rx) : \A j \in 1 .. Len(rx[k]) : rx[k][j].type = "ITEM"
      BY <3>2, <3>3
    <3> QED  BY <2>1, <3>1, <3>2, <3>4, <3>5
  <2> QED  BY <2>2, <2>3
<1>5. seq \in Seqs /\ verdict \in [Seqs -> Decisions \cup {"none"}]
  BY <1>4 DEF TypeOK
<1>6. /\ d \in Seq(Messages) /\ Len(d) \in Nat \ {0}
      /\ \A j \in 1 .. Len(d) : d[j].type # "ITEM" => j = Len(d)
  BY <1>2, LenProperties, EmptySeq DEF Datagrams, InOnePiece
\* Received or lost.
<1>7. \/ /\ rx' = Append(rx, d) /\ UNCHANGED losses
         /\ Pending' = Pending + Len(d)
      \/ /\ UNCHANGED rx /\ losses' # 0
         /\ Pending' = Pending
  <2>1. CASE rx' = Append(rx, d) /\ UNCHANGED losses
    <3>1. Cardinality(Places(Append(rx, d))) = Cardinality(Places(rx)) + Len(d)
      BY <1>3, <1>6, PlacesAppend
    <3> QED  BY <2>1, <3>1 DEF Pending
  <2>2. CASE UNCHANGED rx /\ losses' = losses + 1
    <3>1. losses' # 0
      BY <2>2 DEF TypeOK
    <3> QED  BY <2>2, <3>1 DEF Pending
  <2> QED  BY <1>2, <2>1, <2>2 DEF Deliver
<1>8. UNCHANGED <<pc, seq, req, msgbufLen>> /\ pc # "idle" /\ pc # "reply"
  BY <1>1, <1>4 DEF client
<1>w. ASSUME \/ Still' = Still - Len(d)
             \/ Still' = 0 /\ Still = Len(d)
      PROVE  /\ WholeAnswer' <= WholeAnswer /\ WholeAnswer' \in Int /\ WholeAnswer \in Int
             /\ losses' = 0 => losses = 0 /\ WholeAnswer' = WholeAnswer
  <2>1. PICK b, p, s, n, pp, ss : /\ b = msgbufLen /\ p = Pending /\ s = Still /\ n = Len(d)
                                  /\ pp = Pending' /\ ss = Still'
    OBVIOUS
  <2>2. /\ b \in Nat /\ p \in Nat /\ s \in Nat /\ n \in Nat /\ ss = s - n
        /\ pp = p + n \/ pp = p
        /\ losses' = 0 => losses = 0 /\ pp = p + n
    <3>1. b \in Nat /\ p \in Nat /\ s \in Nat /\ n \in Nat
      BY <2>1, <1>3, <1>6
    <3>2. ss = s - n
      BY <2>1, <3>1, <1>w
    <3>3. (pp = p + n /\ losses' = losses) \/ (pp = p /\ losses' # 0)
      BY <2>1, <1>7
    <3> QED  BY <3>1, <3>2, <3>3
  <2>3. WholeAnswer = b + p + s /\ WholeAnswer' = b + pp + ss
    BY <2>1, <1>8 DEF WholeAnswer
  <2> QED  BY <2>2, <2>3
<1>9. ASSUME pc # "overrun",
             NEW k \in 1 .. Len(rx'), NEW j \in 1 .. Len(rx'[k])
      PROVE  \/ rx'[k][j].type = "ITEM"
             \/ /\ j = Len(d) /\ rx'[k][j] = d[Len(d)]
                /\ rx' = Append(rx, d) /\ Pending' = Pending + Len(d)
  <2>1. CASE UNCHANGED rx
    BY <2>1, <1>4, <1>9
  <2>2. CASE rx' = Append(rx, d) /\ Pending' = Pending + Len(d)
    <3>1. k \in 1 .. Len(Append(rx, d)) /\ j \in 1 .. Len(Append(rx, d)[k])
      BY <2>2, <1>9
    <3>2. \/ /\ k \in 1 .. Len(rx) /\ j \in 1 .. Len(rx[k])
             /\ Append(rx, d)[k][j] = rx[k][j]
          \/ j \in 1 .. Len(d) /\ Append(rx, d)[k][j] = d[j]
      BY <3>1, <1>3, <1>6, AppendedMessage
    <3> QED  BY <2>2, <3>2, <1>4, <1>6, <1>9
  <2> QED  BY <1>7, <2>1, <2>2
<1>10. ASSUME serving' = Remove(serving, i) PROVE serving' = <<>> /\ Still' = 0
  <2>1. serving' = <<>>
    <3>1. i \in DOMAIN serving
      BY <1>3, <1>4, LenProperties
    <3>2. /\ Remove(serving, i) \in Seq(Entries)
          /\ Len(Remove(serving, i)) = Len(serving) - 1
      BY <1>3, <3>1, RemoveProperties
    <3>3. serving' \in Seq(Entries) /\ Len(serving') = 0
      BY <3>2, <1>4, <1>10
    <3> QED  BY <3>3, EmptySeq
  <2> QED  BY <2>1 DEF Still
<1>11. CASE /\ serving' = [serving EXCEPT ![i].left = @ - Len(d)]
            /\ Len(d) <= serving[i].left
            /\ d[Len(d)].type = "ITEM"
            /\ UNCHANGED verdict
  <2>1. /\ Len(serving') = 1 /\ serving' # <<>>
        /\ serving'[1].left = serving[1].left - Len(d)
        /\ serving'[1].seq = seq /\ serving'[1].req = req
    <3>1. serving' = [serving EXCEPT ![1] = [serving[1] EXCEPT !.left = @ - Len(d)]]
      BY <1>4, <1>11
    <3>2. DOMAIN serving = 1 .. 1 /\ serving[1] \in Entries
      BY <1>3, <1>4, LenProperties, ElementOfSeq
    <3>3. serving'[1] = [serving[1] EXCEPT !.left = @ - Len(d)]
      BY <3>1, <3>2
    <3>4. /\ serving'[1].left = serving[1].left - Len(d)
          /\ serving'[1].seq = seq /\ serving'[1].req = req
      BY <3>2, <3>3, <1>4 DEF Entries
    <3>5. Len(serving') = 1
      BY <3>1, <1>3, <1>4
    <3>6. serving' # <<>>
      BY <3>5, EmptySeq
    <3> QED  BY <3>4, <3>5, <3>6
  <2>2. Still' = Still - Len(d)
    BY <2>1, <1>3, <1>6 DEF Still
  <2>3. CASE pc = "overrun"
    BY <2>1, <2>3, <1>4, <1>8, <1>11 DEF Accounted, Overrun, DumpComplete, Finished
  <2>4. CASE pc # "overrun"
    <3>1. /\ WholeAnswer' <= WholeAnswer /\ WholeAnswer' \in Int /\ WholeAnswer \in Int
          /\ losses' = 0 => losses = 0 /\ WholeAnswer' = WholeAnswer
      BY <2>2, <1>w
    <3>2. \A k \in 1 .. Len(rx') : \A j \in 1 .. Len(rx'[k]) : rx'[k][j].type = "ITEM"
      BY <1>9, <1>11, <2>4
    <3>3. InTransit'
      BY <3>1, <3>2, <2>4, <1>3, <1>4, <1>8 DEF InTransit
    <3> QED  BY <3>3, <2>4, <1>8 DEF Accounted, DumpComplete, Finished
  <2> QED  BY <2>3, <2>4
<1>12. CASE /\ serving' = Remove(serving, i)
            /\ d[Len(d)].type = "DONE"
            /\ Len(d) = serving[i].left + 1
            /\ verdict' = [verdict EXCEPT ![serving[i].seq] = "ok"]
  <2>1. serving' = <<>> /\ Still' = 0 /\ Still = Len(d) /\ verdict'[seq] = "ok"
    BY <1>3, <1>4, <1>5, <1>10, <1>12
  <2>2. CASE pc = "overrun"
    <3>1. Len(serving') <= 1
      BY <2>1, EmptySeq
    <3> QED  BY <3>1, <2>1, <2>2, <1>4, <1>8 DEF Accounted, Overrun, DumpComplete, Finished
  <2>3. CASE pc # "overrun"
    <3>1. /\ WholeAnswer' <= WholeAnswer /\ WholeAnswer' \in Int /\ WholeAnswer \in Int
          /\ losses' = 0 => losses = 0 /\ WholeAnswer' = WholeAnswer
      BY <2>1, <1>w
    <3>2. \A k \in 1 .. Len(rx') : \A j \in 1 .. Len(rx'[k]) : rx'[k][j].type # "ERROR"
      BY <1>9, <1>12, <2>3
    <3>3. InTransit'
      BY <3>1, <3>2, <2>1, <2>3, <1>3, <1>4, <1>8 DEF InTransit
    <3> QED  BY <3>3, <2>3, <1>8 DEF Accounted, DumpComplete, Finished
  <2> QED  BY <2>2, <2>3
<1>13. CASE /\ serving' = Remove(serving, i)
            /\ d[Len(d)].type = "ERROR"
            /\ Len(d) = 1 /\ serving[i].left = DumpSize
            /\ \E e : /\ verdict' = [verdict EXCEPT ![serving[i].seq] = e]
                      /\ serving[i].req.kind = "dump" => e # "ok"
  <2>1. /\ serving' = <<>> /\ Still' = 0 /\ Still = DumpSize + 1
        /\ req.kind = "dump" => verdict'[seq] # "ok"
    BY <1>3, <1>4, <1>5, <1>10, <1>13
  <2>2. CASE pc = "overrun"
    <3>1. Len(serving') <= 1
      BY <2>1, EmptySeq
    <3> QED  BY <3>1, <2>1, <2>2, <1>4, <1>8 DEF Accounted, Overrun, DumpComplete, Finished
  <2>3. CASE pc # "overrun"
    <3>1. msgbufLen = 0 /\ Pending = 0
      BY <2>1, <2>3, <1>3, <1>4 DEF InTransit, WholeAnswer
    <3>2. WholeAnswer' <= 1 /\ (Pending' = Pending + Len(d) => WholeAnswer' = 1)
      BY <3>1, <2>1, <1>7, <1>8, <1>13 DEF WholeAnswer
    <3>3. ASSUME NEW k \in 1 .. Len(rx'), NEW j \in 1 .. Len(rx'[k])
          PROVE  /\ rx'[k][j].type # "DONE"
                 /\ rx'[k][j].type = "ERROR" => WholeAnswer' = 1
      BY <3>2, <3>3, <1>9, <1>13, <2>3
    <3>4. WholeAnswer' <= DumpSize + 1
      <4>1. WholeAnswer' \in Int
        BY <3>1, <2>1, <1>7, <1>8, <1>13 DEF WholeAnswer
      <4> QED  BY <4>1, <3>2
    <3>5. InTransit'
      BY <3>3, <3>4, <2>1, <1>8 DEF InTransit
    <3> QED  BY <3>5, <2>3, <1>8 DEF Accounted, DumpComplete, Finished
  <2> QED  BY <2>2, <2>3
<1> QED  BY <1>2, <1>11, <1>12, <1>13

LEMMA NextJInv ==
  ASSUME TypeOK, IInv, JInv, [Next]_vars
  PROVE  JInv'
<1>1. WellFormed'
  BY NextWellFormed DEF JInv
<1> SUFFICES ASSUME abandoned' = 0 PROVE Accounted'
  BY <1>1 DEF JInv
<1>2. Undisturbed /\ Accounted /\ WellFormed
  BY AbandonedGrows DEF IInv, JInv
<1>3. ~SelectFails
  BY NetlinkAssumption DEF SelectFails, TypeOK
<1>4. CASE Receive
  BY <1>2, <1>4, ReceiveAccounted
<1>5. CASE Kernel
  BY <1>2, <1>5, KernelAccounted
<1>6. CASE UNCHANGED vars
  <2>1. WholeAnswer' = WholeAnswer
    BY <1>6 DEF vars, client, kernel, WholeAnswer, Pending, Still
  <2>2. UNCHANGED <<pc, seq, req, msgbuf, msgbufLen, listed, serving, rx, verdict,
                    losses, abandoned>>
    BY <1>6 DEF vars, client, kernel
  <2> QED  BY <2>1, <2>2, <1>2
           DEF Accounted, InTransit, Concluded, Overrun, DumpComplete, Finished
<1> QED  BY <1>2, <1>3, <1>4, <1>5, <1>6, ClientAccounted DEF Next, Progress

LEMMA AlwaysAccounted == Spec => [](TypeOK /\ IInv /\ JInv)
<1>1. Init => TypeOK /\ IInv /\ JInv
  BY InitTypeOK, InitIInv, InitConserved, InitAccounted DEF JInv
<1>2. TypeOK /\ IInv /\ JInv /\ [Next]_vars => (TypeOK /\ IInv /\ JInv)'
  BY NextTypeOK, NextIInv, NextJInv
<1> QED  BY <1>1, <1>2, PTL DEF Spec

\* A dump that init_address_list() reads lists every entry of the table once,
\* whatever the size of the table and of the datagrams.
THEOREM DumpsAreWhole == Spec => []DumpComplete
<1>1. JInv => DumpComplete
  BY DEF JInv, Accounted, DumpComplete
<1> QED  BY <1>1, AlwaysAccounted, PTL

\* queue() writes past msgbuf only for a dump that does not fit, for any size of
\* the buffer and any number of requests and retries.
THEOREM OnlyBigDumpsOverrun == Spec => []OverrunNeedsBigDump
<1>1. JInv => OverrunNeedsBigDump
  BY DEF JInv, Accounted, Overrun, OverrunNeedsBigDump
<1> QED  BY <1>1, AlwaysAccounted, PTL

-----------------------------------------------------------------------------
(* The refinement of NetlinkContract: until a call is abandoned, each step   *)
(* is a step of the contract or changes nothing the caller can tell; the     *)
(* step that abandons one breaks the contract.                               *)

\* What Contract puts in place of the contract's phase and decision.
Phase == IF abandoned > 0 THEN "broken"
         ELSE CASE pc = "idle"                   -> "idle"
                [] pc \in {"badfree", "overrun"} -> "stopped"
                [] OTHER                         -> "open"
Decision == IF seq = 0 THEN "none" ELSE verdict[seq]

LEMMA PhaseOf ==
  ASSUME abandoned = 0
  PROVE  /\ pc = "idle" => Phase = "idle"
         /\ pc \in {"badfree", "overrun"} => Phase = "stopped"
         /\ pc \in {"write", "select", "recv", "reply"} => Phase = "open"
BY DEF Phase

LEMMA PhaseNext ==
  ASSUME abandoned' = 0
  PROVE  /\ pc' = "idle" => Phase' = "idle"
         /\ pc' \in {"badfree", "overrun"} => Phase' = "stopped"
         /\ pc' \in {"write", "select", "recv", "reply"} => Phase' = "open"
BY DEF Phase

LEMMA InitContract == Init => Contract!Init
<1> SUFFICES ASSUME Init PROVE Contract!Init
  OBVIOUS
<1>1. /\ pc = "idle" /\ seq = 0 /\ req = NoRequest /\ outcome = "none"
      /\ installed = {}
  BY DEF Init
<1>2. Phase = "idle" /\ Decision = "none"
  BY <1>1, abandoned = 0 DEF Phase, Decision, Init
<1> QED  BY <1>1, <1>2 DEF Contract!Init, NoRequest, Phase, Decision

\* Nothing the contract speaks of changes.
LEMMA ContractStutter ==
  ASSUME UNCHANGED <<seq, req, verdict, outcome, installed>>, Phase' = Phase
  PROVE  UNCHANGED Contract!vars
<1>1. Decision' = Decision
  BY DEF Decision
<1> QED  BY <1>1 DEF Contract!vars, Phase, Decision

\* By the time an answer is read to its end the kernel has decided, and not
\* "try again", or else the first header says so.
LEMMA DecidedByReply ==
  ASSUME TypeOK, Undisturbed, Accounted, pc = "reply", ~Busy
  PROVE  /\ seq \in Seqs /\ verdict[seq] \in Decisions \ {"EBUSY"}
         /\ req.kind # "dump" => \A k \in 1 .. msgbufLen :
              msgbuf[k].type = "ERROR" /\ msgbuf[k].error = verdict[seq]
         /\ 1 \in 1 .. msgbufLen
<1>1. Answered /\ Concluded /\ seq \in Seqs
  BY DEF Undisturbed, Accounted, TypeOK
<1>2. /\ msgbufLen \in 1 .. MsgbufSlots /\ 1 \in 1 .. msgbufLen
      /\ msgbufLen \in 1 .. msgbufLen
  BY <1>1, NetlinkAssumption DEF Answered, TypeOK
<1>3. /\ msgbuf[msgbufLen].type \in {"DONE", "ERROR"}
      /\ msgbuf[msgbufLen].type = "ERROR" => msgbuf[msgbufLen].error = verdict[seq]
  BY <1>1, <1>2 DEF Answered, OwnAnswer, Completes, Multi
<1>4. verdict[seq] \in Decisions \ {"EBUSY"}
  <2>1. CASE msgbuf[msgbufLen].type = "DONE"
    BY <2>1, <1>1 DEF Concluded, Decisions
  <2>2. CASE msgbuf[msgbufLen].type = "ERROR"
    <3>1. msgbufLen = 1
      BY <2>2, <1>1 DEF Concluded
    <3>2. msgbuf[1] \in Messages
      BY <1>2, NetlinkAssumption DEF TypeOK
    <3> QED  BY <3>1, <3>2, <2>2, <1>3 DEF Busy, Messages
  <2> QED  BY <1>3, <2>1, <2>2
<1>5. ASSUME req.kind # "dump", NEW k \in 1 .. msgbufLen
      PROVE  msgbuf[k].type = "ERROR" /\ msgbuf[k].error = verdict[seq]
  BY <1>1, <1>5 DEF Answered, OwnAnswer
<1> QED  BY <1>1, <1>2, <1>4, <1>5

LEMMA ClientImplements ==
  ASSUME abandoned = 0, abandoned' = 0, TypeOK, Undisturbed, Accounted, WellFormed,
         \/ \E r \in Requests : Call(r)
         \/ Progress \/ SelectExpires \/ RecvInterrupted
  PROVE  Contract!Next \/ UNCHANGED Contract!vars
<1> USE NetlinkAssumption
<1>1. CASE \E r \in Requests : Call(r)
  <2>1. PICK r \in Requests :
          /\ pc = "idle" /\ pc' = "write" /\ seq' = seq + 1 /\ seq' \in Seqs /\ req' = r
          /\ UNCHANGED <<outcome, installed, verdict>>
    BY <1>1 DEF Call, kernel, TypeOK, Seqs
  <2>2. Phase = "idle" /\ Phase' = "open"
    BY <2>1, PhaseOf, PhaseNext
  <2>3. Decision' = "none"
    BY <2>1 DEF Decision, Undisturbed, TypeOK, Seqs
  <2>4. req' \in Contract!Operations \cup {[kind |-> "dump"]}
    BY <2>1 DEF Requests, Contract!Operations
  <2>5. Contract!Begin
    BY <2>1, <2>2, <2>3, <2>4 DEF Contract!Begin, Phase, Decision
  <2> QED  BY <2>5 DEF Contract!Next
<1>2. CASE Transmit \/ RecvFails \/ SelectExpires \/ RecvInterrupted
  <2>1. /\ UNCHANGED <<seq, req, verdict, outcome, installed>>
        /\ pc \in {"write", "select", "recv"} /\ pc' \in {"select", "recv"}
    BY <1>2 DEF Transmit, RecvFails, SelectExpires, RecvInterrupted, kernel
  <2>2. Phase' = Phase
    BY <2>1, PhaseOf, PhaseNext
  <2> QED  BY <2>1, <2>2, ContractStutter
<1>3. CASE WriteFails
  <2>1. /\ pc = "write" /\ pc' = "idle" /\ outcome' = "WRITE_FAILED" /\ seq \in Seqs
        /\ UNCHANGED <<seq, req, verdict, installed>>
    BY <1>3 DEF WriteFails, kernel, TypeOK
  <2>2. Phase = "open" /\ Phase' = "idle"
    BY <2>1, PhaseOf, PhaseNext
  <2>3. Decision \in Contract!Undecided /\ Decision' = Decision
    BY <2>1 DEF Undisturbed, Decision, Undecided, Contract!Undecided, Seqs
  <2>4. Contract!GiveUp
    BY <2>1, <2>2, <2>3 DEF Contract!GiveUp, Phase, Decision
  <2> QED  BY <2>4 DEF Contract!Next
<1>4. CASE Receive
  <2>1. /\ UNCHANGED <<seq, req, verdict, outcome, installed>>
        /\ pc \in {"select", "recv"} /\ pc' \in {"select", "reply", "overrun"}
    BY <1>4, ReceiveWhole DEF Receive
  <2>2. CASE pc' # "overrun"
    <3>1. Phase' = Phase
      BY <2>1, <2>2, PhaseOf, PhaseNext
    <3> QED  BY <2>1, <3>1, ContractStutter
  <2>3. CASE pc' = "overrun"
    <3>1. Phase = "open" /\ Phase' = "stopped" /\ Decision' = Decision
      BY <2>1, <2>3, PhaseOf, PhaseNext DEF Decision
    <3>2. req.kind = "dump"
      BY <2>1, <2>3, <1>4, ReceiveAccounted DEF Accounted, Overrun
    <3>3. Contract!Stop
      BY <2>1, <3>1, <3>2 DEF Contract!Stop, Phase, Decision
    <3> QED  BY <3>3 DEF Contract!Next
  <2> QED  BY <2>2, <2>3
<1>5. CASE RetryBusy
  <2>1. /\ UNCHANGED <<seq, req, verdict, outcome, installed>> /\ Busy /\ seq \in Seqs
        /\ pc = "reply" /\ pc' \in {"badfree", "write"}
    BY <1>5 DEF RetryBusy, kernel, TypeOK
  <2>2. CASE pc' = "write"
    <3>1. Phase' = Phase
      BY <2>1, <2>2, PhaseOf, PhaseNext
    <3> QED  BY <2>1, <3>1, ContractStutter
  <2>3. CASE pc' = "badfree"
    <3>1. Phase = "open" /\ Phase' = "stopped" /\ Decision' = Decision
      BY <2>1, <2>3, PhaseOf, PhaseNext DEF Decision
    <3>2. Decision = "EBUSY"
      <4>1. Answered /\ 1 \in 1 .. msgbufLen
        BY <2>1 DEF Undisturbed, Answered, TypeOK
      <4> QED  BY <4>1, <2>1 DEF Answered, OwnAnswer, Busy, Decision, Seqs
    <3>3. Contract!Stop
      BY <2>1, <3>1, <3>2 DEF Contract!Stop, Phase, Decision
    <3> QED  BY <3>3 DEF Contract!Next
  <2> QED  BY <2>1, <2>2, <2>3
<1>6. CASE ReturnAck \/ ReturnDump
  <2>1. /\ UNCHANGED <<seq, req, verdict, installed>>
        /\ pc = "reply" /\ pc' = "idle" /\ ~Busy
    BY <1>6 DEF ReturnAck, ReturnDump, kernel
  <2>2. /\ seq \in Seqs /\ verdict[seq] \in Decisions \ {"EBUSY"}
        /\ req.kind # "dump" => \A k \in 1 .. msgbufLen :
             msgbuf[k].type = "ERROR" /\ msgbuf[k].error = verdict[seq]
        /\ 1 \in 1 .. msgbufLen
    BY <2>1, DecidedByReply
  <2>3. /\ Phase = "open" /\ Phase' = "idle"
        /\ Decision = verdict[seq] /\ Decision' = Decision
    BY <2>1, <2>2, PhaseOf, PhaseNext DEF Decision, Seqs
  <2>4. outcome' = IF req.kind = "dump" THEN "ok" ELSE Report(Decision)
    <3>1. CASE ReturnAck
      <4>1. PICK i \in 1 .. msgbufLen : outcome' = Report(msgbuf[i].error)
        <5>1. req.kind # "dump"
          BY <3>1 DEF ReturnAck
        <5>2. FirstAmong(1, {"ERROR", "DONE"}) /\ msgbuf[1].type = "ERROR"
          BY <5>1, <2>2 DEF FirstAmong
        <5> QED  BY <5>2, <2>2, <3>1 DEF ReturnAck
      <4> QED  BY <4>1, <3>1, <2>2, <2>3 DEF ReturnAck
    <3>2. CASE ReturnDump
      BY <3>2 DEF ReturnDump
    <3> QED  BY <1>6, <3>1, <3>2
  <2>5. outcome' = IF req.kind = "dump" THEN "ok"
                   ELSE CASE Decision = "ok"     -> "ok"
                          [] Decision = "EEXIST" -> "ALREADY_DONE"
                          [] Decision = "ESRCH"  -> "NOTFOUND"
                          [] OTHER               -> "UNKNOWN"
    BY <2>4 DEF Report
  <2>6. Decision \notin Contract!Undecided
    BY <2>2, <2>3 DEF Decisions, Contract!Undecided
  <2>7. Contract!Return
    BY <2>1, <2>3, <2>5, <2>6 DEF Contract!Return, Phase, Decision
  <2> QED  BY <2>7 DEF Contract!Next
<1> QED  BY <1>1, <1>2, <1>3, <1>4, <1>5, <1>6 DEF Progress

LEMMA KernelImplements ==
  ASSUME abandoned = 0, abandoned' = 0, TypeOK, Undisturbed, Accounted, Kernel
  PROVE  Contract!Next \/ UNCHANGED Contract!vars
<1> USE NetlinkAssumption
<1>1. UNCHANGED <<pc, seq, req, outcome>>
  BY KernelSends DEF client
<1>2. PICK i \in 1 .. Len(serving) :
        \/ UNCHANGED <<verdict, installed>>
        \/ /\ serving[i].req.kind = "dump"
           /\ verdict' = [verdict EXCEPT ![serving[i].seq] = "ok"]
           /\ UNCHANGED installed
        \/ /\ verdict' = [verdict EXCEPT ![serving[i].seq] = "EBUSY"]
           /\ UNCHANGED installed
        \/ \E e \in IF serving[i].req.kind = "dump" THEN {"refused"}
                    ELSE Decided(serving[i].req) :
             /\ verdict' = [verdict EXCEPT ![serving[i].seq] = e]
             /\ installed' = Applied(serving[i].req, e)
  <2>1. PICK i \in 1 .. Len(serving), d \in Datagrams :
        \/ UNCHANGED <<verdict, installed>>
        \/ /\ serving[i].req.kind = "dump"
           /\ verdict' = [verdict EXCEPT ![serving[i].seq] = "ok"]
           /\ UNCHANGED installed
        \/ /\ verdict' = [verdict EXCEPT ![serving[i].seq] = "EBUSY"]
           /\ UNCHANGED installed
        \/ \E e \in IF serving[i].req.kind = "dump" THEN {"refused"}
                    ELSE Decided(serving[i].req) :
             /\ verdict' = [verdict EXCEPT ![serving[i].seq] = e]
             /\ installed' = Applied(serving[i].req, e)
    BY KernelSends
  <2> QED  BY <2>1
<1>3. serving \in Seq(Entries) /\ Len(serving) \in Nat \ {0} /\ serving # <<>>
  <2>1. serving \in Seq(Entries) /\ Len(serving) \in Nat
    BY AnswerType
  <2> QED  BY <2>1, EmptySeq
<1>4. pc \in {"select", "recv", "overrun"}
  BY <1>3 DEF Undisturbed, TypeOK, Locations
<1>5. /\ Len(serving) <= 1 /\ serving[1].seq = seq /\ serving[1].req = req
      /\ verdict[seq] \in Undecided
  <2>1. CASE pc = "overrun"
    BY <2>1, <1>3 DEF Accounted, Overrun
  <2>2. CASE pc # "overrun"
    BY <2>2, <1>3, <1>4 DEF Undisturbed, Awaiting, OneOpen
  <2> QED  BY <2>1, <2>2
<1>6. i = 1
  <2>1. PICK n : n = Len(serving)
    OBVIOUS
  <2>2. n \in Nat \ {0} /\ n <= 1 /\ i \in 1 .. n
    BY <1>3, <1>5, <2>1
  <2> QED  BY <2>2
<1>7. seq \in Seqs /\ req \in Requests /\ verdict \in [Seqs -> Decisions \cup {"none"}]
  BY <1>4 DEF TypeOK
<1>8. /\ Phase' = Phase /\ Phase \in {"open", "stopped"}
      /\ Decision = verdict[seq] /\ Decision' = verdict'[seq]
  BY <1>1, <1>4, <1>7, PhaseOf DEF Decision, Phase, Seqs
<1>9. Decision \in Contract!Undecided
  BY <1>5, <1>8 DEF Undecided, Contract!Undecided
<1>10. CASE UNCHANGED <<verdict, installed>>
  BY <1>1, <1>8, <1>10, ContractStutter
<1>11. CASE /\ req.kind = "dump"
            /\ verdict' = [verdict EXCEPT ![seq] = "ok"]
            /\ UNCHANGED installed
  <2>1. Decision' = "ok"
    BY <1>7, <1>8, <1>11
  <2>2. Contract!CarryOut
    BY <1>1, <1>8, <1>9, <1>11, <2>1 DEF Contract!CarryOut, Phase, Decision
  <2> QED  BY <2>2 DEF Contract!Next
<1>12. CASE /\ verdict' = [verdict EXCEPT ![seq] = "EBUSY"]
            /\ UNCHANGED installed
  <2>1. Decision' = "EBUSY"
    BY <1>7, <1>8, <1>12
  <2>2. Contract!CarryOut
    BY <1>1, <1>8, <1>9, <1>12, <2>1 DEF Contract!CarryOut, Phase, Decision
  <2> QED  BY <2>2 DEF Contract!Next
<1>13. ASSUME NEW e \in IF req.kind = "dump" THEN {"refused"} ELSE Decided(req),
              verdict' = [verdict EXCEPT ![seq] = e],
              installed' = Applied(req, e)
       PROVE  Contract!CarryOut
  <2>1. Decision' = e
    BY <1>7, <1>8, <1>13
  <2>2. CASE e = "refused"
    <3>1. UNCHANGED installed
      BY <2>2, <1>13 DEF Applied
    <3> QED  BY <1>1, <1>8, <1>9, <2>1, <2>2, <3>1 DEF Contract!CarryOut, Phase, Decision
  <2>3. CASE e # "refused"
    <3>1. /\ req.kind \in {"replace", "create", "delete"} /\ e \in Decided(req)
      BY <2>3, <1>7, <1>13 DEF Requests
    <3>2. \/ e = "EEXIST" /\ req.kind = "create" /\ req.obj \in installed
          \/ e = "ESRCH" /\ req.kind = "delete" /\ req.obj \notin installed
          \/ e = "ok"
      BY <3>1, <2>3 DEF Decided
    <3>3. CASE e = "EEXIST" /\ req.kind = "create" /\ req.obj \in installed
      <4>1. UNCHANGED installed
        BY <3>3, <1>13 DEF Applied
      <4> QED  BY <1>1, <1>8, <1>9, <2>1, <3>3, <4>1 DEF Contract!CarryOut, Phase, Decision
    <3>4. CASE e = "ESRCH" /\ req.kind = "delete" /\ req.obj \notin installed
      <4>1. UNCHANGED installed
        BY <3>4, <1>13 DEF Applied
      <4> QED  BY <1>1, <1>8, <1>9, <2>1, <3>4, <4>1 DEF Contract!CarryOut, Phase, Decision
    <3>5. CASE e = "ok"
      <4>1. CASE req.kind = "delete"
        <5>1. installed' = installed \ {req.obj}
          BY <4>1, <3>5, <1>13 DEF Applied
        <5> QED  BY <1>1, <1>8, <1>9, <2>1, <3>5, <4>1, <5>1
                 DEF Contract!CarryOut, Phase, Decision
      <4>2. CASE req.kind \in {"create", "replace"}
        <5>1. installed' = installed \cup {req.obj}
          BY <4>2, <3>5, <1>13 DEF Applied
        <5> QED  BY <1>1, <1>8, <1>9, <2>1, <3>5, <4>2, <5>1
                 DEF Contract!CarryOut, Phase, Decision
      <4> QED  BY <3>1, <4>1, <4>2
    <3> QED  BY <3>2, <3>3, <3>4, <3>5
  <2> QED  BY <2>2, <2>3
<1> QED  BY <1>2, <1>5, <1>6, <1>10, <1>11, <1>12, <1>13 DEF Contract!Next

LEMMA StepImplements ==
  ASSUME TypeOK, IInv, JInv, abandoned = 0, abandoned' = 0, [Next]_vars
  PROVE  [Contract!Next]_(Contract!vars)
<1>1. Undisturbed /\ Accounted /\ WellFormed
  BY DEF IInv, JInv
<1>2. ~SelectFails
  BY NetlinkAssumption DEF SelectFails, TypeOK
<1>3. CASE UNCHANGED vars
  <2>1. UNCHANGED <<pc, seq, req, verdict, outcome, installed>>
    BY <1>3 DEF vars, client, kernel
  <2>2. Phase' = Phase
    BY <2>1, abandoned' = abandoned DEF Phase
  <2> QED  BY <2>1, <2>2, ContractStutter
<1>4. CASE Kernel
  BY <1>1, <1>4, KernelImplements
<1>5. CASE (\E r \in Requests : Call(r)) \/ Progress \/ SelectExpires \/ RecvInterrupted
  BY <1>1, <1>5, ClientImplements
<1> QED  BY <1>2, <1>3, <1>4, <1>5 DEF Next

\* Once a call has been abandoned the contract is broken, and stays so.
LEMMA AbandonBreaks ==
  ASSUME TypeOK, [Next]_vars, abandoned' # 0
  PROVE  [Contract!Next]_(Contract!vars)
<1>1. abandoned \in Nat /\ abandoned' \in Nat /\ abandoned' > 0
  <2>1. TypeOK'
    BY NextTypeOK
  <2> QED  BY <2>1, NetlinkAssumption DEF TypeOK
<1>2. Phase' = "broken"
  BY <1>1 DEF Phase
<1>3. Phase \in {"open", "broken"}
  <2>1. CASE abandoned > 0
    BY <2>1 DEF Phase
  <2>2. CASE abandoned = 0
    <3>1. SelectFails
      BY <2>2, <1>1
       DEF Next, vars, client, kernel, Call, Progress, Transmit, WriteFails,
           RecvFails, Receive, RetryBusy, ReturnAck, ReturnDump, SelectExpires,
           RecvInterrupted, Kernel, Execute, AnswerBusy, DumpPart
    <3>2. pc = "select"
      BY <3>1 DEF SelectFails
    <3> QED  BY <2>2, <3>2 DEF Phase
  <2> QED  BY <1>1, <2>1, <2>2
<1>4. Contract!Break
  BY <1>2, <1>3 DEF Contract!Break, Phase
<1> QED  BY <1>4 DEF Contract!Next

\* The transport implements the contract: until a select() fails, what a caller
\* sees is one request at a time, carried out at most once and between call and
\* return, with the kernel's decision as its result, whatever is lost,
\* interrupted, turned down or split into datagrams.
THEOREM TransportKeepsContract == Spec => ImplementsContract
<1>1. Init => Contract!Init
  BY InitContract
<1>2. TypeOK /\ IInv /\ JInv /\ [Next]_vars => [Contract!Next]_(Contract!vars)
  <2>1. ASSUME TypeOK, IInv, JInv, [Next]_vars
        PROVE  [Contract!Next]_(Contract!vars)
    <3>1. CASE abandoned' # 0
      BY <2>1, <3>1, AbandonBreaks
    <3>2. CASE abandoned' = 0
      <4>1. abandoned = 0
        BY <2>1, <3>2, AbandonedGrows
      <4> QED  BY <2>1, <3>2, <4>1, StepImplements
    <3> QED  BY <3>1, <3>2
  <2> QED  BY <2>1
<1> QED  BY <1>1, <1>2, AlwaysAccounted, PTL DEF Spec, ImplementsContract, Contract!Spec

=============================================================================
