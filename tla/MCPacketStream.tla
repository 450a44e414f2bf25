--------------------------- MODULE MCPacketStream ---------------------------
(* A small instance of PacketStream. *)
EXTENDS PacketStream

\* With a base of 2 these take one to four length bytes, and 16 takes five: the
\* packet before the last is malformed.  The third packet of 8 does not fit into
\* a buffer of 64 behind all the packets before it.
MixedSizes == <<0, 1, 2, 0, 5, 8, 3, 8, 8, 16, 3>>
=============================================================================
