--------------------------- MODULE MCNetlinkWire ---------------------------
(* A small instance of NetlinkWire for TLC. *)
EXTENDS NetlinkWire

Message(type, family, attrs) ==
  LET off == AlignedOffsets(attrs, NLMSG_LENGTH(BodyLen(BodyOf(type))))
  IN  [type |-> type, body |-> BodyOf(type), family |-> family, attrs |-> Laid(attrs, off),
       len |-> off[Len(attrs) + 1]]

\* Names of one word and of two, behind another attribute or in front of it.
MCLinks ==
  {Message("NEWLINK", "none", <<Attr("IFNAME", 3, "lo")>>),
   Message("NEWLINK", "none", <<Attr("MTU", 4, "mtu"), Attr("IFNAME", 5, "eth0")>>),
   Message("NEWLINK", "none", <<>>)}

MCAddrs ==
  {Message("NEWADDR", "inet", <<Attr("ADDRESS", 4, "peer"), Attr("LOCAL", 4, "own")>>),
   Message("NEWADDR", "inet", <<Attr("LOCAL", 4, "own"), Attr("ADDRESS", 4, "peer")>>),
   Message("NEWADDR", "inet6", <<Attr("ADDRESS", 16, "own6"), Attr("FLAGS", 4, "flags")>>),
   Message("NEWADDR", "inet", <<Attr("LABEL", 5, "eth0")>>)}

MCRoutes ==
  {Message("NEWROUTE", "inet", <<Attr("DST", 4, "dst"), Attr("OIF", 4, "if")>>),
   Message("NEWROUTE", "inet", <<Attr("PREFSRC", 4, "src"), Attr("OIF", 1, "if")>>)}

MCEvents ==
  {Message("NEWADDR", "inet", <<Attr("ADDRESS", 4, "peer"), Attr("LOCAL", 4, "own")>>),
   Message("DELADDR", "inet6", <<Attr("ADDRESS", 16, "own6")>>),
   Message("NEWLINK", "none", <<Attr("IFNAME", 5, "eth0")>>)}

=============================================================================
