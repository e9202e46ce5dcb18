------------------------------ MODULE MCRtMsg ------------------------------
(***************************************************************************)
(* RtMsg for TLC.  A handful of descriptors is enough for the event thread *)
(* to use them up while main() still has its requests to make.             *)
(***************************************************************************)
EXTENDS RtMsg

=============================================================================
