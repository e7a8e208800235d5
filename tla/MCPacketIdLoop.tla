---------------------------- MODULE MCPacketIdLoop ----------------------------
(***************************************************************************)
(* Three identifiers and four tokens: the table can be full with a token   *)
(* left over, and a search can start anywhere and wrap.                    *)
(***************************************************************************)
EXTENDS PacketIdLoop
==============================================================================
