-------------------------- MODULE MCVerticalReader --------------------------
(* Announcements with a payload of one word and, the longest that a size can *)
(* say, of three; and a packet of each other type that comes from a module,  *)
(* and of one that the reader does not know.                                 *)
EXTENDS VerticalReader

MCPackets ==
  {GossipAnnounce(3, 1, <<6>>), GossipAnnounce(3, 1, <<2, 2, 4>>),
   GossipNotify(1), GossipValidation(4, 1), Marshal(7, <<4, 1>>)}
=============================================================================
