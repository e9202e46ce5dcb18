----------------------------- MODULE MCNetlink -----------------------------
(***************************************************************************)
(* Netlink for TLC.  One object is enough: requests on different objects   *)
(* never meet in the transport, and one object already lets a later        *)
(* request undo or repeat what an earlier one did.                         *)
(***************************************************************************)
EXTENDS Netlink

CONSTANT route

MCObjects == {route}

=============================================================================
