---------------------------- MODULE MCWsByteStream ----------------------------
(* Messages of no, one and three bytes, read one or two bytes at a time. *)
EXTENDS WsByteStream
==============================================================================
