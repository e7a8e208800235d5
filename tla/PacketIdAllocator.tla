-------------------------- MODULE PacketIdAllocator --------------------------
(***************************************************************************)
(* What PacketIds (src/pkid.rs) promises its callers, who hold the mutex   *)
(* around every call: get_id is one step that either registers the token   *)
(* under an identifier nobody uses, or fails with 0 when all are in use.   *)
(***************************************************************************)
EXTENDS PacketIds

CONSTANT Panic      \* get_id did not return: the u16 increment overflowed

VARIABLES
    overflow_checks,   \* the build's profile: TRUE in a debug build, never changes
    index,             \* [Ids -> Tokens \cup {NoToken}]
    last_issued_id,
    resolved,          \* the tokens completed or failed since they were registered
    ret                \* what the last get_id returned

vars == <<overflow_checks, index, last_issued_id, resolved, ret>>

Init ==
    /\ overflow_checks \in BOOLEAN
    /\ index = [i \in Ids |-> NoToken]
    /\ last_issued_id = PKID_MIN
    /\ resolved = {}
    /\ ret = 0

\* In a debug build `i += 1` panics at PKID_MAX, so a search that finds nothing
\* above last_issued_id never comes back.
Overflows ==
    /\ overflow_checks
    /\ \A j \in Ids : j > last_issued_id => index[j] # NoToken

GetId(t) ==
    /\ t \notin Registered(index)
    /\ ~Overflows
    /\ LET i == NextVacant(index, last_issued_id)
       IN  /\ ret' = i
           /\ \/ i = 0 /\ UNCHANGED <<index, last_issued_id, resolved>>
              \/ /\ i # 0
                 /\ index' = [index EXCEPT ![i] = t]
                 /\ last_issued_id' = i
                 /\ resolved' = resolved \ {t}
    /\ UNCHANGED overflow_checks

GetIdPanics ==
    /\ Overflows
    /\ ret' = Panic
    /\ UNCHANGED <<overflow_checks, index, last_issued_id, resolved>>

ClaimId(t, id) ==
    /\ t \notin Registered(index)
    /\ index' = [index EXCEPT ![id] = t]
    /\ resolved' = (resolved \cup ({index[id]} \ {NoToken})) \ {t}
    /\ last_issued_id' = IF id > last_issued_id THEN id ELSE last_issued_id
    /\ UNCHANGED <<overflow_checks, ret>>

\* get_token(id) followed by flow_complete, as the acknowledgement handlers use it.
CompleteToken(id) ==
    /\ index[id] # NoToken
    /\ resolved' = resolved \cup {index[id]}
    /\ UNCHANGED <<overflow_checks, index, last_issued_id, ret>>

FreeId(id) ==
    /\ index' = [index EXCEPT ![id] = NoToken]
    /\ UNCHANGED <<overflow_checks, last_issued_id, resolved, ret>>

CleanUp ==
    /\ resolved' = resolved \cup Registered(index)
    /\ index' = [i \in Ids |-> NoToken]
    /\ UNCHANGED <<overflow_checks, last_issued_id, ret>>

Next ==
    \/ \E t \in Tokens : GetId(t)
    \/ GetIdPanics
    \/ \E t \in Tokens, id \in Ids : ClaimId(t, id)
    \/ \E id \in Ids : CompleteToken(id)
    \/ \E id \in Ids : FreeId(id)
    \/ CleanUp

Spec == Init /\ [][Next]_vars
==============================================================================
