-------------------------- MODULE PacketIdLoopProofs --------------------------
(***************************************************************************)
(* The loop of get_id is correct for every PKID_MAX and every set of       *)
(* tokens: its loop invariant is inductive, and under it every turn of the *)
(* loop is a step of the one-step allocator or leaves it unchanged.        *)
(***************************************************************************)
EXTENDS PacketIdLoop, PacketIdsTheorems

IInv == TypeOK /\ ScanInv

------------------------------------------------------------------------------
(* What one turn of the loop has tried when it looks at NextI. *)
LEMMA TriedNext ==
    ASSUME IInv, pc = "scan"
    PROVE  /\ NextI \in Ids
           /\ NextLooped \in BOOLEAN
           /\ \A j \in Ids : Distance(last_issued_id, j) < Distance(last_issued_id, NextI)
                                => index[j] # NoToken
BY PacketIdsAssumption
   DEF IInv, TypeOK, ScanInv, Tried, NextI, NextLooped, Distance, Ids, PKID_MIN

(* If the search ends without a result, every identifier has been tried. *)
LEMMA ExhaustedIsFull ==
    ASSUME IInv, pc = "scan", index[NextI] # NoToken, Exhausted(NextI, NextLooped)
    PROVE  Full(index)
<1>. SUFFICES ASSUME NEW j \in Ids PROVE index[j] # NoToken
  BY DEF Full
<1>1. NextI = last_issued_id /\ NextLooped
  BY PacketIdsAssumption DEF IInv, TypeOK, Exhausted, Ids, PKID_MIN
<1>2. CASE j = last_issued_id
  BY <1>1, <1>2
<1>3. CASE j # last_issued_id
  <2>1. Distance(last_issued_id, j) < Distance(last_issued_id, last_issued_id)
    BY <1>3, PacketIdsAssumption DEF IInv, TypeOK, Distance, Ids, PKID_MIN
  <2>. QED  BY <1>1, <2>1, TriedNext
<1>. QED  BY <1>2, <1>3

------------------------------------------------------------------------------
(***************************************************************************)
(* Type correctness and the loop invariant of get_id: what the search has  *)
(* tried is in use, and it stays between its start and last_issued_id.     *)
(***************************************************************************)
LEMMA InitIInv == Init => IInv
<1>. SUFFICES ASSUME Init PROVE TypeOK /\ ScanInv
  BY DEF IInv
<1>. USE PacketIdsAssumption DEF Ids, PKID_MIN
<1>1. index \in [Ids -> Tokens \cup {NoToken}]
  BY DEF Init
<1>2. 1 \in Ids /\ 0 \in 0 .. PKID_MAX
  OBVIOUS
<1>3. TypeOK
  BY <1>1, <1>2 DEF Init, TypeOK
<1>4. ScanInv
  BY DEF Init, ScanInv
<1>. QED  BY <1>3, <1>4

LEMMA NextIInv == IInv /\ [Next]_vars => IInv'
<1>. SUFFICES ASSUME IInv, [Next]_vars PROVE IInv'
  OBVIOUS
<1>. USE PacketIdsAssumption DEF IInv, TypeOK, scanVars, allocatorVars, Ids, PKID_MIN
<1>1. ASSUME NEW t \in Tokens, GetIdCall(t) PROVE IInv'
  <2>1. TypeOK'
    BY <1>1 DEF GetIdCall
  <2>2. Tried' = {}
    BY <1>1 DEF GetIdCall, Tried
  <2>3. ScanInv'
    BY <1>1, <2>2 DEF GetIdCall, ScanInv, Registered
  <2>. QED  BY <2>1, <2>3
<1>2. CASE Scan
  <2>1. TypeOK'
    BY <1>2, TriedNext DEF Scan, ScanInv, Return, Registered
  <2>2. ScanInv'
    <3>. SUFFICES ASSUME pc' = "scan" PROVE ScanInv'
      BY DEF ScanInv
    <3>1. /\ pc = "scan"
          /\ index[NextI] # NoToken
          /\ ~Exhausted(NextI, NextLooped)
          /\ i' = NextI /\ looped' = NextLooped
          /\ UNCHANGED <<index, last_issued_id, arg>>
      BY <1>2 DEF Scan, Return
    <3>2. /\ looped' => i' < last_issued_id' /\ ~overflow_checks'
          /\ ~looped' => i' >= last_issued_id'
      <4>1. CASE i = PKID_MAX
        <5>1. NextI = 1 /\ NextLooped
          BY <4>1 DEF NextI, NextLooped
        <5>2. ~overflow_checks
          BY <1>2, <4>1 DEF Scan
        <5>3. last_issued_id # 1
          BY <3>1, <5>1 DEF Exhausted
        <5>. QED  BY <3>1, <5>1, <5>2, <5>3, <1>2 DEF Scan
      <4>2. CASE i # PKID_MAX
        BY <1>2, <3>1, <4>2 DEF Scan, ScanInv, NextI, NextLooped, Exhausted
      <4>. QED  BY <4>1, <4>2
    <3>3. \A j \in Tried' : index'[j] # NoToken
      BY <3>1 DEF ScanInv, NextI, NextLooped, Tried
    <3>. QED  BY <3>1, <3>2, <3>3 DEF ScanInv, Registered
  <2>. QED  BY <2>1, <2>2
<1>3. CASE ScanOverflows
  BY <1>3 DEF ScanOverflows, Return, ScanInv
<1>4. ASSUME NEW t \in Tokens, NEW id \in Ids, ClaimId(t, id) PROVE IInv'
  BY <1>4 DEF ClaimId, ScanInv
<1>5. ASSUME NEW id \in Ids, CompleteToken(id) PROVE IInv'
  BY <1>5 DEF CompleteToken, ScanInv
<1>6. ASSUME NEW id \in Ids, FreeId(id) PROVE IInv'
  BY <1>6 DEF FreeId, ScanInv
<1>7. CASE CleanUp
  BY <1>7 DEF CleanUp, ScanInv, Registered
<1>8. CASE UNCHANGED vars
  BY <1>8 DEF vars, ScanInv, Tried, Registered
<1>. QED
  BY <1>1, <1>2, <1>3, <1>4, <1>5, <1>6, <1>7, <1>8 DEF Next

(* PacketIds keeps its types: in particular last_issued_id never becomes 0, *)
(* so the second disjunct of get_id's exhaustion test is dead code.         *)
THEOREM TypeCorrect == Spec => []TypeOK
<1>1. IInv => TypeOK
  BY DEF IInv
<1>. QED  BY InitIInv, NextIInv, <1>1, PTL DEF Spec

(* The loop invariant of get_id holds whatever the size of the table. *)
THEOREM ScanCorrect == Spec => []ScanInv
<1>1. IInv => ScanInv
  BY DEF IInv
<1>. QED  BY InitIInv, NextIInv, <1>1, PTL DEF Spec

------------------------------------------------------------------------------
(* A token leaves the table only through free_id, or completed, or failed. *)
THEOREM DroppedResolved == Spec => DroppedTokensAreResolved
<1>1. ASSUME IInv, [Next]_vars, ~\E id \in Ids : FreeId(id)
      PROVE  Registered(index) \ Registered(index') \subseteq resolved'
  <2>. USE PacketIdsAssumption DEF IInv, TypeOK, scanVars, allocatorVars, Registered
  <2>1. CASE \E t \in Tokens : GetIdCall(t)
    BY <2>1 DEF GetIdCall
  <2>2. CASE Scan
    <3>1. ASSUME NEW x \in Registered(index) PROVE x \in Registered(index')
      <4>1. PICK j \in Ids : index[j] = x
        OBVIOUS
      <4>2. index'[j] = x /\ x # NoToken
        <5>1. CASE index[NextI] = NoToken
          <6>1. j # NextI /\ x # NoToken
            BY <4>1, <5>1
          <6>2. index' = [index EXCEPT ![NextI] = arg]
            BY <2>2, <5>1 DEF Scan
          <6>. QED  BY <4>1, <6>1, <6>2
        <5>2. CASE index[NextI] # NoToken
          BY <2>2, <4>1, <5>2 DEF Scan
        <5>. QED  BY <5>1, <5>2
      <4>. QED  BY <4>2
    <3>. QED  BY <3>1
  <2>3. CASE ScanOverflows
    BY <2>3 DEF ScanOverflows
  <2>4. CASE \E t \in Tokens, id \in Ids : ClaimId(t, id)
    <3>1. PICK t \in Tokens, id \in Ids : ClaimId(t, id)
      BY <2>4
    <3>2. ASSUME NEW x \in Registered(index), x # index[id]
          PROVE  x \in Registered(index')
      BY <3>1, <3>2 DEF ClaimId
    <3>3. index[id] # NoToken => index[id] \in resolved'
      BY <3>1 DEF ClaimId
    <3>. QED  BY <3>2, <3>3
  <2>5. CASE \E id \in Ids : CompleteToken(id)
    BY <2>5 DEF CompleteToken
  <2>6. CASE CleanUp
    BY <2>6 DEF CleanUp
  <2>7. CASE UNCHANGED vars
    BY <2>7 DEF vars
  <2>. QED  BY <1>1, <2>1, <2>2, <2>3, <2>4, <2>5, <2>6, <2>7 DEF Next
<1>. QED  BY <1>1, InitIInv, NextIInv, PTL DEF Spec, DroppedTokensAreResolved

------------------------------------------------------------------------------
(* The instance's constant operators are this module's. *)
LEMMA SameDefinitions ==
    /\ Allocator!PKID_MIN = PKID_MIN
    /\ Allocator!Ids = Ids
    /\ \A idx : Allocator!Registered(idx) = Registered(idx)
    /\ \A idx, last : Allocator!NextVacant(idx, last) = NextVacant(idx, last)
BY DEF Allocator!PKID_MIN, PKID_MIN, Allocator!Ids, Ids, Allocator!Registered, Registered,
       Allocator!NextVacant, NextVacant, Allocator!Full, Full,
       Allocator!IsNextVacant, IsNextVacant, Allocator!Distance, Distance

(***************************************************************************)
(* The loop of get_id implements the one-step allocator: it returns the    *)
(* first vacant identifier, and 0 exactly when the table is full.          *)
(***************************************************************************)
THEOREM Refinement == Spec => RefinesAllocator
<1>. USE SameDefinitions
<1>1. Init => Allocator!Init
  BY DEF Init, Allocator!Init
<1>2. IInv /\ [Next]_vars => [Allocator!Next]_(Allocator!vars)
  <2>. SUFFICES ASSUME IInv, [Next]_vars
                PROVE  Allocator!Next \/ UNCHANGED Allocator!vars
    OBVIOUS
  <2>. USE DEF scanVars, allocatorVars, Allocator!vars
  <2>1. ASSUME NEW t \in Tokens, GetIdCall(t)
        PROVE  UNCHANGED Allocator!vars
    BY <2>1 DEF GetIdCall
  <2>2. CASE Scan
    <3>0. pc = "scan" /\ arg \in Tokens \ Registered(index) /\ last_issued_id \in Ids
      BY <2>2 DEF Scan, IInv, ScanInv, TypeOK
    <3>1. ASSUME index[NextI] # NoToken, ~Exhausted(NextI, NextLooped)
          PROVE  UNCHANGED Allocator!vars
      BY <2>2, <3>1 DEF Scan
    <3>2. ASSUME index[NextI] = NoToken
          PROVE  Allocator!GetId(arg)
      <4>1. NextVacant(index, last_issued_id) = NextI
        BY <3>0, <3>2, TriedNext, NextVacantIs DEF IsNextVacant
      <4>2. ~Allocator!Overflows
        BY <2>2, <3>0, <3>2, PacketIdsAssumption
           DEF Scan, Allocator!Overflows, NextI, IInv, TypeOK, ScanInv, Ids, PKID_MIN
      <4>3. NextI # 0
        BY <3>0, TriedNext, PacketIdsAssumption DEF Ids, PKID_MIN
      <4>. QED
        BY <2>2, <3>0, <3>2, <4>1, <4>2, <4>3 DEF Scan, Return, Allocator!GetId
    <3>3. ASSUME index[NextI] # NoToken, Exhausted(NextI, NextLooped)
          PROVE  Allocator!GetId(arg)
      <4>1. NextVacant(index, last_issued_id) = 0
        BY <3>0, <3>3, ExhaustedIsFull DEF NextVacant
      <4>2. ~Allocator!Overflows
        BY <2>2, <3>0, <3>3, PacketIdsAssumption
           DEF Scan, Allocator!Overflows, NextI, NextLooped, Exhausted, IInv, TypeOK,
               ScanInv, Ids, PKID_MIN
      <4>. QED
        BY <2>2, <3>0, <3>3, <4>1, <4>2 DEF Scan, Return, Allocator!GetId
    <3>. QED  BY <3>0, <3>1, <3>2, <3>3 DEF Allocator!Next
  <2>3. CASE ScanOverflows
    <3>1. Allocator!Overflows
      BY <2>3, PacketIdsAssumption
         DEF ScanOverflows, Allocator!Overflows, IInv, TypeOK, ScanInv, Tried, Ids, PKID_MIN
    <3>. QED
      BY <2>3, <3>1 DEF ScanOverflows, Return, Allocator!GetIdPanics, Allocator!Next
  <2>4. ASSUME NEW t \in Tokens, NEW id \in Ids, ClaimId(t, id)
        PROVE  Allocator!ClaimId(t, id)
    BY <2>4 DEF ClaimId, Allocator!ClaimId, IInv, TypeOK
  <2>5. ASSUME NEW id \in Ids, CompleteToken(id)
        PROVE  Allocator!CompleteToken(id)
    BY <2>5 DEF CompleteToken, Allocator!CompleteToken
  <2>6. ASSUME NEW id \in Ids, FreeId(id)
        PROVE  Allocator!FreeId(id)
    BY <2>6 DEF FreeId, Allocator!FreeId
  <2>7. CASE CleanUp
    BY <2>7 DEF CleanUp, Allocator!CleanUp, Allocator!Next
  <2>8. CASE UNCHANGED vars
    BY <2>8 DEF vars
  <2>. QED
    BY <2>1, <2>2, <2>3, <2>4, <2>5, <2>6, <2>7, <2>8 DEF Next, Allocator!Next
<1>. QED
  BY <1>1, <1>2, InitIInv, NextIInv, PTL DEF Spec, RefinesAllocator, Allocator!Spec
==============================================================================
