------------------------------ MODULE Netlink ------------------------------
(***************************************************************************)
(* The request/answer transport of example/netlink/rtmsg.c: write_msg,     *)
(* read_msg, queue, read_and_queue, send_once, netlink_send and the way    *)
(* netlink_send_ack and init_address_list read the answer.                 *)
(*                                                                         *)
(* One thread issues requests, one at a time, on one AF_NETLINK socket.    *)
(* The kernel side is external: it is modelled from the answers the code   *)
(* is prepared for (an NLMSG_ERROR, a multipart dump closed by NLMSG_DONE, *)
(* a failing recv, a failing or expiring select).                          *)
(*                                                                         *)
(* Every message counts as one slot of msgbuf.  The byte counters          *)
(* msgbufIdx and msgbufLen are reset together and advanced together, so    *)
(* one variable stands for both.                                           *)
(***************************************************************************)
EXTENDS Naturals, Sequences, FiniteSets

CONSTANTS
  Objects,       \* the routes, rules and addresses requests create or delete
  DumpSize,      \* entries in the table a dump lists
  MsgbufSlots,   \* messages that fit into msgbuf (65535 bytes in the code)
  MaxRequests,   \* bound: calls of netlink_send
  MaxAbandoned,  \* bound: failing select() calls
  MaxLosses,     \* bound: answers that never reach the reader
  MaxBusy        \* bound: -EBUSY answers

ASSUME NetlinkAssumption ==
  /\ DumpSize \in Nat
  /\ MsgbufSlots \in Nat \ {0}
  /\ MaxRequests \in Nat
  /\ MaxAbandoned \in Nat
  /\ MaxLosses \in Nat
  /\ MaxBusy \in Nat

VARIABLES
  pc,          \* where the requesting thread is
  seq,         \* _seq of netlink_send
  req,         \* the request being sent
  msgbuf,      \* the static answer buffer; its bytes outlive a request
  msgbufLen,   \* messages queued for the current request
  outcome,     \* what the last finished call reported
  listed,      \* entries the last finished dump walked over
  serving,     \* kernel: requests accepted and not fully answered
  rx,          \* kernel: datagrams in the socket's receive queue
  soerr,       \* kernel: an error the next recv reports (ENOBUFS)
  installed,   \* kernel: the objects that exist
  verdict,     \* kernel: its decision on each request, by sequence number
  abandoned, losses, busy   \* how many of each bounded event happened

client == <<pc, seq, req, msgbuf, msgbufLen, outcome, listed>>
kernel == <<serving, rx, soerr, installed, verdict>>
vars == <<client, kernel, abandoned, losses, busy>>

-----------------------------------------------------------------------------

\* manage_srcroute and manage_ipaddr add with CREATE|REPLACE, manage_rule adds
\* with CREATE|EXCL; init_address_list dumps.
Requests == [kind : {"replace", "create", "delete"}, obj : Objects]
              \cup [kind : {"dump"}]
NoRequest == [kind |-> "none"]

Decisions == {"ok", "EBUSY", "EEXIST", "ESRCH", "refused"}
Seqs == 1 .. MaxRequests

\* "ZERO" is a slot of msgbuf nothing was written to (.bss, nlmsg_type 0).
Messages == [type : {"ZERO", "ITEM", "DONE", "ERROR"},
             error : Decisions, seq : 0 .. MaxRequests]

Zero == [type |-> "ZERO", error |-> "ok", seq |-> 0]
Item(s) == [type |-> "ITEM", error |-> "ok", seq |-> s]
Done(s) == [type |-> "DONE", error |-> "ok", seq |-> s]
Error(s, e) == [type |-> "ERROR", error |-> e, seq |-> s]

\* The kernel sets NLM_F_MULTI on the parts of a dump and on its NLMSG_DONE.
Multi(m) == m.type \in {"ITEM", "DONE"}

\* Variants of Completes with a condition of queue() missing.
CompletesAlways(m) == TRUE
CompletesOnDone(m) == m.type = "DONE"

\* queue() returns TRUE for a message that ends an answer.
Completes(m) == m.type = "DONE" \/ ~Multi(m)

\* A variant of Report that hands the error on as it is.
ReportRaw(e) == e

\* The message of netlink_send_ack for an NLMSG_ERROR; "ok" is its only 0.
Report(e) == CASE e = "ok"     -> "ok"
               [] e = "EEXIST" -> "ALREADY_DONE"
               [] e = "ESRCH"  -> "NOTFOUND"
               [] OTHER        -> "UNKNOWN"

Outcomes == {"none", "ok", "ALREADY_DONE", "NOTFOUND", "UNKNOWN",
             "NOT_ACKNOWLEDGED", "WRITE_FAILED"}

\* "badfree" is free() of the static buffer, "overrun" a memcpy past its end:
\* undefined behaviour after which the thread is not modelled any further.
Locations == {"idle", "write", "select", "recv", "reply", "badfree", "overrun"}

-----------------------------------------------------------------------------

Init ==
  /\ pc = "idle"
  /\ seq = 0
  /\ req = NoRequest
  /\ msgbuf = [i \in 1 .. MsgbufSlots |-> Zero]
  /\ msgbufLen = 0
  /\ outcome = "none"
  /\ listed = 0
  /\ serving = <<>>
  /\ rx = <<>>
  /\ soerr = FALSE
  /\ installed = {}
  /\ verdict = [s \in Seqs |-> "none"]
  /\ abandoned = 0
  /\ losses = 0
  /\ busy = 0

\* netlink_send() is entered: a new sequence number, the first transmission.
Call(r) ==
  /\ pc = "idle"
  /\ seq < MaxRequests
  /\ pc' = "write"
  /\ seq' = seq + 1
  /\ req' = r
  /\ UNCHANGED <<msgbuf, msgbufLen, outcome, listed, kernel, abandoned, losses, busy>>

\* A variant of Transmit without the reset of msgbufLen and msgbufIdx.
TransmitKeepsAnswer ==
  /\ pc = "write"
  /\ pc' = "select"
  /\ serving' = Append(serving, [seq |-> seq, req |-> req, left |-> DumpSize])
  /\ UNCHANGED <<seq, req, msgbuf, msgbufLen, outcome, listed, rx, soerr, installed,
                 verdict, abandoned, losses, busy>>

\* send_once(): write_msg() gets the request out (sendto is repeated on EINTR)
\* and the answer buffer is declared empty.
Transmit ==
  /\ pc = "write"
  /\ pc' = "select"
  /\ serving' = Append(serving, [seq |-> seq, req |-> req, left |-> DumpSize])
  /\ msgbufLen' = 0
  /\ UNCHANGED <<seq, req, msgbuf, outcome, listed, rx, soerr, installed,
                 verdict, abandoned, losses, busy>>

\* sendto fails for good: -1 from write_msg up to the caller.
WriteFails ==
  /\ pc = "write"
  /\ pc' = "idle"
  /\ outcome' = "WRITE_FAILED"
  /\ listed' = 0
  /\ UNCHANGED <<seq, req, msgbuf, msgbufLen, kernel, abandoned, losses, busy>>

-----------------------------------------------------------------------------
(* read_msg() *)

\* select() < 0: read_msg returns -1 and read_and_queue passes that on as a
\* complete answer.
SelectFails ==
  /\ pc = "select"
  /\ abandoned < MaxAbandoned
  /\ abandoned' = abandoned + 1
  /\ pc' = "reply"
  /\ UNCHANGED <<seq, req, msgbuf, msgbufLen, outcome, listed, kernel, losses, busy>>

\* Variants of SelectExpires that do take it for a timeout: the call gives up,
\* or sends its request again, without matching sequence numbers afterwards.
SelectExpiresTo(where) ==
  /\ pc = "select"
  /\ rx = <<>> /\ ~soerr
  /\ pc' = where
  /\ UNCHANGED <<seq, req, msgbuf, msgbufLen, outcome, listed, kernel,
                 abandoned, losses, busy>>
SelectExpiresGivesUp == SelectExpiresTo("reply")
SelectExpiresResends == SelectExpiresTo("write")

\* select() = 0 after 1000 s: not taken for a timeout, recv is called without
\* MSG_DONTWAIT and blocks.
SelectExpires ==
  /\ pc = "select"
  /\ rx = <<>> /\ ~soerr
  /\ pc' = "recv"
  /\ UNCHANGED <<seq, req, msgbuf, msgbufLen, outcome, listed, kernel,
                 abandoned, losses, busy>>

\* The blocked recv() is interrupted: 0 from read_msg, read again.
RecvInterrupted ==
  /\ pc = "recv"
  /\ pc' = "select"
  /\ UNCHANGED <<seq, req, msgbuf, msgbufLen, outcome, listed, kernel,
                 abandoned, losses, busy>>

\* recv() reports the socket error, or a datagram longer than the buffer: 0
\* from read_msg, read again.
RecvFails ==
  /\ pc \in {"select", "recv"}
  /\ soerr
  /\ soerr' = FALSE
  /\ pc' = "select"
  /\ UNCHANGED <<seq, req, msgbuf, msgbufLen, outcome, listed, serving, rx,
                 installed, verdict, abandoned, losses, busy>>

\* The loop over a datagram stops at its first completing message, or its end.
StopsAt(d, n) ==
  /\ n \in 1 .. Len(d)
  /\ \A j \in 1 .. (n - 1) : ~Completes(d[j])
  /\ n = Len(d) \/ Completes(d[n])

\* recv() returns a datagram; its messages are appended to msgbuf, whose size
\* is not checked.
Receive ==
  /\ pc \in {"select", "recv"}
  /\ ~soerr
  /\ rx # <<>>
  /\ rx' = Tail(rx)
  /\ \E n \in 1 .. Len(Head(rx)) :
       /\ StopsAt(Head(rx), n)
       /\ \/ /\ msgbufLen + n <= MsgbufSlots
             /\ msgbuf' = [i \in 1 .. MsgbufSlots |->
                             IF i \in msgbufLen + 1 .. msgbufLen + n
                             THEN Head(rx)[i - msgbufLen] ELSE msgbuf[i]]
             /\ msgbufLen' = msgbufLen + n
             /\ pc' = IF Completes(Head(rx)[n]) THEN "reply" ELSE "select"
          \/ /\ msgbufLen + n > MsgbufSlots
             /\ pc' = "overrun"
             /\ UNCHANGED <<msgbuf, msgbufLen>>
  /\ UNCHANGED <<seq, req, outcome, listed, serving, soerr, installed, verdict,
                 abandoned, losses, busy>>

-----------------------------------------------------------------------------
(* netlink_send() looks at the first header of msgbuf, however long the      *)
(* answer is, and netlink_send_ack() walks the answer.                       *)

\* A variant of Busy that retries after any error.
BusyOnAnyError == msgbuf[1].type = "ERROR" /\ msgbuf[1].error # "ok"

Busy == msgbuf[1].type = "ERROR" /\ msgbuf[1].error = "EBUSY"

\* -EBUSY: free(hdr) on msgbuf, which glibc aborts on; where free() returns,
\* --try and ++try cancel out and the same request is sent again.
RetryBusy ==
  /\ pc = "reply"
  /\ Busy
  /\ pc' \in {"badfree", "write"}
  /\ UNCHANGED <<seq, req, msgbuf, msgbufLen, outcome, listed, kernel,
                 abandoned, losses, busy>>

\* The answer's messages up to its first NLMSG_ERROR or NLMSG_DONE.
FirstAmong(i, types) ==
  /\ i \in 1 .. msgbufLen
  /\ msgbuf[i].type \in types
  /\ \A j \in 1 .. (i - 1) : msgbuf[j].type \notin types

\* netlink_send_ack(): the first NLMSG_ERROR before an NLMSG_DONE decides.
ReturnAck ==
  /\ pc = "reply"
  /\ ~Busy
  /\ req.kind # "dump"
  /\ pc' = "idle"
  /\ \/ \E i \in 1 .. msgbufLen :
          /\ FirstAmong(i, {"ERROR", "DONE"})
          /\ msgbuf[i].type = "ERROR"
          /\ outcome' = Report(msgbuf[i].error)
     \/ /\ ~ \E i \in 1 .. msgbufLen :
               /\ FirstAmong(i, {"ERROR", "DONE"})
               /\ msgbuf[i].type = "ERROR"
        /\ outcome' = "NOT_ACKNOWLEDGED"
  /\ listed' = 0
  /\ UNCHANGED <<seq, req, msgbuf, msgbufLen, kernel, abandoned, losses, busy>>

\* init_address_list(): walks the entries up to NLMSG_DONE; an NLMSG_ERROR is
\* skipped like an unknown message, netlink_send has returned 0.
ReturnDump ==
  /\ pc = "reply"
  /\ ~Busy
  /\ req.kind = "dump"
  /\ pc' = "idle"
  /\ outcome' = "ok"
  /\ listed' = Cardinality({i \in 1 .. msgbufLen :
                              /\ msgbuf[i].type = "ITEM"
                              /\ \A j \in 1 .. i : msgbuf[j].type # "DONE"})
  /\ UNCHANGED <<seq, req, msgbuf, msgbufLen, kernel, abandoned, losses, busy>>

-----------------------------------------------------------------------------
(* The kernel (external).  It may serve the requests it has accepted in any  *)
(* order; each answer ends with one completing message.                      *)

Remove(s, i) == SubSeq(s, 1, i - 1) \o SubSeq(s, i + 1, Len(s))

\* A datagram reaches the receive queue, or is dropped and recv will say so.
Deliver(d) ==
  \/ /\ rx' = Append(rx, d)
     /\ UNCHANGED <<soerr, losses>>
  \/ /\ losses < MaxLosses
     /\ losses' = losses + 1
     /\ soerr' = TRUE
     /\ UNCHANGED rx

\* What the kernel may decide on an operation, given what exists.
Decided(r) ==
  {"refused"} \cup
  CASE r.kind = "create" /\ r.obj \in installed    -> {"EEXIST"}
    [] r.kind = "delete" /\ r.obj \notin installed -> {"ESRCH"}
    [] OTHER                                       -> {"ok"}

Applied(r, d) ==
  CASE d = "ok" /\ r.kind \in {"create", "replace"} -> installed \cup {r.obj}
    [] d = "ok" /\ r.kind = "delete"                -> installed \ {r.obj}
    [] OTHER                                        -> installed

\* An operation is decided, carried out and acknowledged; a dump is refused.
Execute(i) ==
  LET t == serving[i] IN
  \E d \in IF t.req.kind = "dump" THEN {"refused"} ELSE Decided(t.req) :
    /\ t.left = DumpSize
    /\ verdict' = [verdict EXCEPT ![t.seq] = d]
    /\ installed' = Applied(t.req, d)
    /\ serving' = Remove(serving, i)
    /\ Deliver(<<Error(t.seq, d)>>)
    /\ UNCHANGED <<client, abandoned, busy>>

\* The request is turned down for now.
AnswerBusy(i) ==
  LET t == serving[i] IN
  /\ busy < MaxBusy
  /\ t.left = DumpSize
  /\ busy' = busy + 1
  /\ verdict' = [verdict EXCEPT ![t.seq] = "EBUSY"]
  /\ serving' = Remove(serving, i)
  /\ Deliver(<<Error(t.seq, "EBUSY")>>)
  /\ UNCHANGED <<client, installed, abandoned>>

Items(s, n) == [i \in 1 .. n |-> Item(s)]

\* The next datagram of a dump: some entries, or the rest and NLMSG_DONE.
DumpPart(i) ==
  LET t == serving[i] IN
  /\ t.req.kind = "dump"
  /\ \/ \E n \in 1 .. t.left :
          /\ serving' = [serving EXCEPT ![i].left = @ - n]
          /\ UNCHANGED verdict
          /\ Deliver(Items(t.seq, n))
     \/ /\ serving' = Remove(serving, i)
        /\ verdict' = [verdict EXCEPT ![t.seq] = "ok"]
        /\ Deliver(Append(Items(t.seq, t.left), Done(t.seq)))
  /\ UNCHANGED <<client, installed, abandoned, busy>>

-----------------------------------------------------------------------------

\* The steps the requesting thread takes by itself.
Progress == Transmit \/ WriteFails \/ RecvFails \/ Receive
              \/ RetryBusy \/ ReturnAck \/ ReturnDump

Kernel == \E i \in DOMAIN serving : Execute(i) \/ AnswerBusy(i) \/ DumpPart(i)

Next ==
  \/ \E r \in Requests : Call(r)
  \/ Progress
  \/ SelectFails
  \/ SelectExpires
  \/ RecvInterrupted
  \/ Kernel

Spec == Init /\ [][Next]_vars

\* The thread runs when it can, select() does expire, the kernel answers what
\* it has accepted.
FairSpec == Spec /\ WF_vars(Progress) /\ WF_vars(SelectExpires) /\ WF_vars(Kernel)

-----------------------------------------------------------------------------

\* The shape of the state; msgbufLen never passes the end of msgbuf.
TypeOK ==
  /\ pc \in Locations
  /\ \/ seq \in Seqs /\ req \in Requests
     \/ seq = 0 /\ req = NoRequest /\ pc = "idle"
  /\ msgbuf \in [1 .. MsgbufSlots -> Messages]
  /\ msgbufLen \in 0 .. MsgbufSlots
  /\ outcome \in Outcomes
  /\ listed \in 0 .. MsgbufSlots
  /\ serving \in Seq([seq : Seqs, req : Requests, left : 0 .. DumpSize])
  /\ rx \in Seq(Seq(Messages) \ {<<>>})
  /\ soerr \in BOOLEAN
  /\ installed \subseteq Objects
  /\ verdict \in [Seqs -> Decisions \cup {"none"}]
  /\ abandoned \in 0 .. MaxAbandoned
  /\ losses \in 0 .. MaxLosses
  /\ busy \in 0 .. MaxBusy

-----------------------------------------------------------------------------

\* The operation a request asks for is in effect.
InEffect(r) == IF r.kind = "delete" THEN r.obj \notin installed
                                    ELSE r.obj \in installed

Finished == pc = "idle" /\ seq > 0
Acknowledged == Finished /\ req.kind # "dump"

\* What a report says agrees with what the kernel decided: success is success,
\* each error is the error the kernel gave, a failing write means the kernel
\* has not carried anything out.
SaysWhatHappened(o, v) ==
  /\ o = "ok" <=> v = "ok"
  /\ o = "ALREADY_DONE" <=> v = "EEXIST"
  /\ o = "NOTFOUND" <=> v = "ESRCH"
  /\ o = "WRITE_FAILED" => v \in {"none", "EBUSY"}
  /\ o # "NOT_ACKNOWLEDGED"

\* netlink_send_ack() reports the kernel's decision on the request it was
\* called with, and no other request's: answers carry a sequence number that
\* nobody compares, so this rests on there never being a second answer under
\* way.  It fails once a call has been abandoned (select() < 0).
ReportFaithful ==
  abandoned = 0 /\ Acknowledged => SaysWhatHappened(outcome, verdict[seq])

\* The comment of netlink_send_ack, "0: Success; -1: Fail", without the
\* condition: after a 0 the object is there (or, deleted, is gone).
AckTruthful == Acknowledged /\ outcome = "ok" => InEffect(req)

\* The same for as long as no call has been abandoned.
AckTruthfulUnlessAbandoned == abandoned = 0 => AckTruthful

\* A dump that init_address_list() reads walks over every entry of the table,
\* although it arrives in any number of datagrams and the loop stops at the
\* first message that looks final.
DumpComplete ==
  /\ abandoned = 0 /\ losses = 0
  /\ Finished /\ req.kind = "dump"
  /\ verdict[seq] = "ok"
  => listed = DumpSize

\* Answers still to come: requests the kernel has not fully answered, and
\* final messages not yet read.
Final(d) == \E i \in DOMAIN d : d[i].type \in {"DONE", "ERROR"}
Outstanding == Len(serving) + Cardinality({i \in DOMAIN rx : Final(rx[i])})

Waiting == IF pc \in {"select", "recv", "overrun"} THEN 1 ELSE 0

\* Every answer is read by the call that asked for it: nothing is left over on
\* the socket for the next call except what an abandoned call left there, and
\* while no answer is lost exactly the awaited one is still to come.
AnswersConserved ==
  /\ Outstanding <= abandoned + Waiting
  /\ abandoned = 0 /\ losses = 0 /\ pc # "overrun" => Outstanding = Waiting

\* A request goes out again only if the kernel turned it down with -EBUSY: a
\* retransmission never repeats an operation that was carried out or refused.
NoResendAfterDecision ==
  [][abandoned = 0 /\ Len(serving') > Len(serving)
       => verdict[seq] \in {"none", "EBUSY"}]_vars

\* queue() writes past msgbuf only for a dump that does not fit into it with
\* its NLMSG_DONE: no series of requests and retries fills the buffer up.
OverrunNeedsBigDump ==
  abandoned = 0 /\ pc = "overrun" => req.kind = "dump" /\ DumpSize >= MsgbufSlots

\* A call of netlink_send() comes to an end.  The comments on read_msg ("-1 on
\* timeout") and netlink_send ("timed out after several transmit") promise it
\* whatever happens to the answer.
CallReturns == pc # "idle" ~> pc \in {"idle", "badfree", "overrun"}

\* What the code keeps of that promise: a call comes to an end, through any
\* number of expiring selects, interruptions and retries, unless an answer is
\* lost.
CallReturnsUnlessLost == pc # "idle" ~> pc \in {"idle", "badfree", "overrun"} \/ losses > 0

-----------------------------------------------------------------------------
(* The inductive invariant behind the properties above: while no call has    *)
(* been abandoned, everything between the thread and the kernel belongs to   *)
(* the call in progress.                                                     *)

Undecided == {"none", "EBUSY"}

\* m can only be part of the answer to the request in progress.
OwnAnswer(m) ==
  /\ m.type \in {"ITEM", "DONE", "ERROR"}
  /\ m.type \in {"ITEM", "DONE"} => req.kind = "dump"
  /\ m.type = "ERROR" => m.error = verdict[seq]

\* While the answer is awaited: one request at the kernel, still open, with
\* only entries sent so far; or none, and a final message at most at the very
\* end of what is still to be read.
OneOpen ==
  /\ Len(serving) <= 1
  /\ serving # <<>> =>
       /\ serving[1].seq = seq /\ serving[1].req = req
       /\ verdict[seq] \in Undecided
       /\ \A i \in DOMAIN rx : \A j \in DOMAIN rx[i] : rx[i][j].type = "ITEM"

Unread ==
  \A i \in DOMAIN rx : \A j \in DOMAIN rx[i] :
    /\ OwnAnswer(rx[i][j])
    /\ Completes(rx[i][j]) => i = Len(rx) /\ j = Len(rx[i])

Collected == \A k \in 1 .. msgbufLen : OwnAnswer(msgbuf[k]) /\ msgbuf[k].type = "ITEM"

Awaiting == OneOpen /\ Unread /\ Collected

\* When the answer is there: it ends with its one final message.
Answered ==
  /\ msgbufLen > 0
  /\ \A k \in 1 .. msgbufLen :
       /\ OwnAnswer(msgbuf[k])
       /\ Completes(msgbuf[k]) <=> k = msgbufLen

InForce ==
  /\ pc # "overrun" /\ seq > 0
  /\ req.kind # "dump" /\ verdict[seq] = "ok"
  => InEffect(req)

Undisturbed ==
  /\ pc # "overrun" => \A s \in Seqs : s > seq => verdict[s] = "none"
  /\ pc \in {"idle", "write", "reply", "badfree"} => serving = <<>> /\ rx = <<>>
  /\ pc = "write" => verdict[seq] \in Undecided
  /\ pc \in {"select", "recv"} => Awaiting
  /\ pc = "reply" => Answered
  /\ InForce
  /\ ReportFaithful

IInv == abandoned = 0 => Undisturbed

-----------------------------------------------------------------------------
(* What a caller may rely on until a call is abandoned, see NetlinkContract. *)

Contract == INSTANCE NetlinkContract WITH
  phase    <- IF abandoned > 0 THEN "broken"
              ELSE CASE pc = "idle"                   -> "idle"
                     [] pc \in {"badfree", "overrun"} -> "stopped"
                     [] OTHER                         -> "open",
  request  <- req,
  decision <- IF seq = 0 THEN "none" ELSE verdict[seq],
  result   <- outcome

\* The transport implements the contract, which a failing select() breaks: until
\* then the request is carried out at most once, between call and return, and
\* the report is the kernel's decision on it.
ImplementsContract == Contract!Spec

=============================================================================
