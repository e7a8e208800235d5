----------------------------- MODULE MCKeepAlive -----------------------------
(* An interval of four ticks, a flush of up to two, room for two packets. *)
EXTENDS KeepAlive
==============================================================================
