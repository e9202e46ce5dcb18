-------------------------- MODULE NetlinkContract --------------------------
(***************************************************************************)
(* What a caller of netlink_send_ack() or of the dump in init_address_list *)
(* relies on, without sockets, buffers, sequence numbers or retries: the   *)
(* request is carried out at most once, between call and return, and the   *)
(* report is the kernel's decision on it.                                  *)
(***************************************************************************)
CONSTANT Objects

VARIABLES
  phase,      \* "idle", "open" during a call, "stopped" if the process died,
              \* "broken" when a call was cut short
  request,    \* the request of the current or last call
  decision,   \* what the kernel decided on it, "EBUSY" if it may be repeated
  result,     \* what the last call reported
  installed   \* the objects that exist

vars == <<phase, request, decision, result, installed>>

Operations == [kind : {"replace", "create", "delete"}, obj : Objects]
Undecided == {"none", "EBUSY"}

Init ==
  /\ phase = "idle"
  /\ request = [kind |-> "none"]
  /\ decision = "none"
  /\ result = "none"
  /\ installed = {}

Begin ==
  /\ phase = "idle"
  /\ phase' = "open"
  /\ request' \in Operations \cup {[kind |-> "dump"]}
  /\ decision' = "none"
  /\ UNCHANGED <<result, installed>>

\* The kernel's one decision on the request takes effect at once.
CarryOut ==
  /\ phase \in {"open", "stopped"}
  /\ decision \in Undecided
  /\ \/ decision' \in {"EBUSY", "refused"} /\ UNCHANGED installed
     \/ /\ decision' = "ok"
        /\ CASE request.kind = "dump"   -> UNCHANGED installed
             [] request.kind = "delete" -> installed' = installed \ {request.obj}
             [] OTHER                   -> installed' = installed \cup {request.obj}
     \/ /\ request.kind = "create" /\ request.obj \in installed
        /\ decision' = "EEXIST" /\ UNCHANGED installed
     \/ /\ request.kind = "delete" /\ request.obj \notin installed
        /\ decision' = "ESRCH" /\ UNCHANGED installed
  /\ UNCHANGED <<phase, request, result>>

\* The call returns and says what was decided; a dump returns in any case.
Return ==
  /\ phase = "open"
  /\ decision \notin Undecided
  /\ phase' = "idle"
  /\ result' = IF request.kind = "dump" THEN "ok"
               ELSE CASE decision = "ok"     -> "ok"
                      [] decision = "EEXIST" -> "ALREADY_DONE"
                      [] decision = "ESRCH"  -> "NOTFOUND"
                      [] OTHER               -> "UNKNOWN"
  /\ UNCHANGED <<request, decision, installed>>

\* The request could not be sent (again).
GiveUp ==
  /\ phase = "open"
  /\ decision \in Undecided
  /\ phase' = "idle"
  /\ result' = "WRITE_FAILED"
  /\ UNCHANGED <<request, decision, installed>>

\* The process dies on undefined behaviour.
Stop ==
  /\ phase = "open"
  /\ decision = "EBUSY" \/ request.kind = "dump"
  /\ phase' = "stopped"
  /\ UNCHANGED <<request, decision, result, installed>>

\* A call is cut short before its answer has come: from then on nothing is
\* promised, neither of that call nor of any later one.
Break ==
  /\ phase \in {"open", "broken"}
  /\ phase' = "broken"

Next == Begin \/ CarryOut \/ Return \/ GiveUp \/ Stop \/ Break

Spec == Init /\ [][Next]_vars

=============================================================================
