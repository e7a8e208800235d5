------------------------------ MODULE MCInbound ------------------------------
(* Three exchanges, two identifiers, one session that may be lost. *)
EXTENDS Inbound
==============================================================================
