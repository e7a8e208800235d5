----------------------------- MODULE PacketIdLoop -----------------------------
(***************************************************************************)
(* PacketIds of src/pkid.rs with get_id's search spelled out: one step per *)
(* turn of its loop, on u16 arithmetic.  The caller holds the packet_ids   *)
(* mutex, so no other operation runs while a search is in progress.        *)
(***************************************************************************)
EXTENDS PacketIds

CONSTANT Panic

ASSUME PanicAssumption == Panic \notin 0 .. PKID_MAX

VARIABLES
    overflow_checks, index, last_issued_id, resolved, ret,
    pc,         \* "idle", or "scan" at the head of get_id's loop
    i,          \* the local variables of get_id
    looped,
    arg         \* the token get_id was called with

allocatorVars == <<overflow_checks, index, last_issued_id, resolved, ret>>
scanVars == <<pc, i, looped, arg>>
vars == <<overflow_checks, index, last_issued_id, resolved, ret, pc, i, looped, arg>>

\* Mutant: numbering starts below the first identifier instead of at it.
Init_StartsAtZero ==
    /\ overflow_checks \in BOOLEAN
    /\ index = [id \in Ids |-> NoToken]
    /\ last_issued_id = 0
    /\ resolved = {}
    /\ ret = 0
    /\ pc = "idle"
    /\ i = PKID_MIN
    /\ looped = FALSE
    /\ arg = NoToken

Init ==
    /\ overflow_checks \in BOOLEAN
    /\ index = [id \in Ids |-> NoToken]
    /\ last_issued_id = PKID_MIN
    /\ resolved = {}
    /\ ret = 0
    /\ pc = "idle"
    /\ i = PKID_MIN
    /\ looped = FALSE
    /\ arg = NoToken

------------------------------------------------------------------------------
GetIdCall(t) ==
    /\ pc = "idle"
    /\ t \notin Registered(index)
    /\ pc' = "scan"
    /\ i' = last_issued_id
    /\ looped' = FALSE
    /\ arg' = t
    /\ UNCHANGED allocatorVars

Return(value) ==
    /\ pc' = "idle"
    /\ ret' = value

\* `i += 1; if i == 0 { i += 1; looped = true }`: the u16 wraps to 0, which is skipped.
NextI == IF i = PKID_MAX THEN 1 ELSE i + 1
NextLooped == looped \/ i = PKID_MAX

\* Mutants: the test without its first disjunct, and one that gives up at the wrap.
Exhausted_NoLooped(at, wrapped) == last_issued_id = 0 /\ at = PKID_MAX
Exhausted_AtWrap(at, wrapped) == wrapped

\* The test that ends an unsuccessful search.
Exhausted(at, wrapped) ==
    \/ wrapped /\ at = last_issued_id
    \/ last_issued_id = 0 /\ at = PKID_MAX

\* One turn of the loop.
Scan ==
    /\ pc = "scan"
    /\ ~(overflow_checks /\ i = PKID_MAX)
    /\ i' = NextI
    /\ looped' = NextLooped
    /\ \/ /\ index[NextI] = NoToken
          /\ index' = [index EXCEPT ![NextI] = arg]
          /\ last_issued_id' = NextI
          /\ resolved' = resolved \ {arg}
          /\ Return(NextI)
       \/ /\ index[NextI] # NoToken
          /\ Exhausted(NextI, NextLooped)
          /\ Return(0)
          /\ UNCHANGED <<index, last_issued_id, resolved>>
       \/ /\ index[NextI] # NoToken
          /\ ~Exhausted(NextI, NextLooped)
          /\ UNCHANGED <<pc, ret, index, last_issued_id, resolved>>
    /\ UNCHANGED <<overflow_checks, arg>>

\* `i += 1` at 65535 in a build with overflow checks: the call unwinds, the
\* mutex is released and the table is as it was.
ScanOverflows ==
    /\ pc = "scan"
    /\ overflow_checks /\ i = PKID_MAX
    /\ Return(Panic)
    /\ UNCHANGED <<overflow_checks, index, last_issued_id, resolved, i, looped, arg>>

ClaimId(t, id) ==
    /\ pc = "idle"
    /\ t \notin Registered(index)
    /\ \/ /\ index[id] = NoToken
          /\ resolved' = resolved \ {t}
       \/ /\ index[id] # NoToken
          /\ resolved' = (resolved \cup {index[id]}) \ {t}
    /\ index' = [index EXCEPT ![id] = t]
    /\ last_issued_id' = IF id > last_issued_id THEN id ELSE last_issued_id
    /\ UNCHANGED <<overflow_checks, ret, scanVars>>

CompleteToken(id) ==
    /\ pc = "idle"
    /\ index[id] # NoToken
    /\ resolved' = resolved \cup {index[id]}
    /\ UNCHANGED <<overflow_checks, index, last_issued_id, ret, scanVars>>

FreeId(id) ==
    /\ pc = "idle"
    /\ index' = [index EXCEPT ![id] = NoToken]
    /\ UNCHANGED <<overflow_checks, last_issued_id, resolved, ret, scanVars>>

\* Mutant: the index is cleared, the tokens in it are not failed.
CleanUp_ClearOnly ==
    /\ pc = "idle"
    /\ index' = [id \in Ids |-> NoToken]
    /\ UNCHANGED <<overflow_checks, resolved, last_issued_id, ret, scanVars>>

CleanUp ==
    /\ pc = "idle"
    /\ resolved' = resolved \cup Registered(index)
    /\ index' = [id \in Ids |-> NoToken]
    /\ UNCHANGED <<overflow_checks, last_issued_id, ret, scanVars>>

Next ==
    \/ \E t \in Tokens : GetIdCall(t)
    \/ Scan
    \/ ScanOverflows
    \/ \E t \in Tokens, id \in Ids : ClaimId(t, id)
    \/ \E id \in Ids : CompleteToken(id)
    \/ \E id \in Ids : FreeId(id)
    \/ CleanUp

\* Nothing preempts a loop for ever: the thread that runs it is scheduled.
Spec == Init /\ [][Next]_vars /\ WF_vars(Scan \/ ScanOverflows)

------------------------------------------------------------------------------
TypeOK ==
    /\ overflow_checks \in BOOLEAN
    /\ index \in [Ids -> Tokens \cup {NoToken}]
    /\ last_issued_id \in Ids
    /\ resolved \in SUBSET Tokens
    /\ ret \in (0 .. PKID_MAX) \cup {Panic}
    /\ pc \in {"idle", "scan"}
    /\ i \in Ids
    /\ looped \in BOOLEAN
    /\ arg \in Tokens \cup {NoToken}

\* The identifiers the search in progress has tried so far.
Tried ==
    IF looped THEN {j \in Ids : j > last_issued_id \/ j <= i}
              ELSE {j \in Ids : j > last_issued_id /\ j <= i}

(***************************************************************************)
(* At the head of get_id's loop every identifier tried so far is in use,   *)
(* and the search is between last_issued_id and its own starting point: it *)
(* neither skips a vacant identifier nor runs past where it began.  A      *)
(* debug build never wraps: it panics instead.                             *)
(***************************************************************************)
ScanInv ==
    pc = "scan" =>
        /\ arg \in Tokens \ Registered(index)
        /\ looped => i < last_issued_id /\ ~overflow_checks
        /\ ~looped => i >= last_issued_id
        /\ \A j \in Tried : index[j] # NoToken

(***************************************************************************)
(* No token is dropped in silence: outside free_id, whose callers complete *)
(* the token first, a token leaves the table only completed (claim_id      *)
(* taking its identifier) or failed with ConnectionLost (clean_up).        *)
(***************************************************************************)
DroppedTokensAreResolved ==
    [][(~\E id \in Ids : FreeId(id)) =>
            Registered(index) \ Registered(index') \subseteq resolved']_vars

(***************************************************************************)
(* get_id always comes back, with an identifier, with 0 or (debug build)   *)
(* by a panic: the wrap-around and the exhaustion test never miss.         *)
(***************************************************************************)
GetIdReturns == (pc = "scan") ~> (pc = "idle")

(***************************************************************************)
(* The loop of get_id implements the one-step allocator: it hands out the  *)
(* first vacant identifier after the last one issued, never one in use,    *)
(* and 0 exactly when every identifier is in use.                          *)
(***************************************************************************)
Allocator == INSTANCE PacketIdAllocator
RefinesAllocator == Allocator!Spec
==============================================================================
