------------------------------ MODULE PacketIds ------------------------------
(***************************************************************************)
(* The identifiers of src/pkid.rs and the order in which PacketIds::get_id *)
(* tries them.  Shared by the allocator's own specifications and by the    *)
(* client, which allocates one identifier per acknowledged request.        *)
(*                                                                         *)
(* An index maps every identifier to the token registered under it, or to  *)
(* NoToken when the HashMap has no entry for it.                           *)
(***************************************************************************)
EXTENDS Naturals

CONSTANTS
    PKID_MAX,   \* largest identifier: 65535 in the code
    Tokens,     \* the tokens requests are tracked with
    NoToken     \* "no entry in the HashMap"

ASSUME PacketIdsAssumption ==
    /\ PKID_MAX \in Nat \ {0}
    /\ NoToken \notin Tokens

PKID_MIN == 1

\* The identifiers MQTT allows: 0 is never one.
Ids == PKID_MIN .. PKID_MAX

\* How many increments, skipping 0, lead from last to i: last itself is tried
\* last of all, PKID_MAX steps away.
Distance(last, i) == IF i > last THEN i - last ELSE (PKID_MAX - last) + i

Full(index) == \A i \in Ids : index[i] # NoToken

IsNextVacant(index, last, i) ==
    /\ index[i] = NoToken
    /\ \A j \in Ids : Distance(last, j) < Distance(last, i) => index[j] # NoToken

\* What get_id returns: the first vacant identifier after last, cyclically, and
\* 0 when there is none.
NextVacant(index, last) ==
    IF Full(index) THEN 0 ELSE CHOOSE i \in Ids : IsNextVacant(index, last, i)

\* The tokens an index holds.
Registered(index) == {index[i] : i \in Ids} \ {NoToken}
==============================================================================
