-------------------------- MODULE PacketIdsTheorems --------------------------
(***************************************************************************)
(* What the order in which get_id tries identifiers guarantees, for every  *)
(* PKID_MAX: there is a first vacant one unless the table is full, and it  *)
(* is unique.                                                              *)
(***************************************************************************)
EXTENDS PacketIds, TLAPS, WellFoundedInduction

(* Distance is injective, so the first vacant identifier is unique. *)
LEMMA DistanceInjective ==
    ASSUME NEW last \in Ids, NEW a \in Ids, NEW b \in Ids,
           Distance(last, a) = Distance(last, b)
    PROVE  a = b
BY PacketIdsAssumption DEF Distance, Ids, PKID_MIN

LEMMA DistanceType ==
    ASSUME NEW last \in Ids, NEW a \in Ids
    PROVE  Distance(last, a) \in Nat
BY PacketIdsAssumption DEF Distance, Ids, PKID_MIN

LEMMA NextVacantUnique ==
    ASSUME NEW idx, NEW last \in Ids, NEW a \in Ids, NEW b \in Ids,
           IsNextVacant(idx, last, a), IsNextVacant(idx, last, b)
    PROVE  a = b
<1>1. ~(Distance(last, a) < Distance(last, b)) /\ ~(Distance(last, b) < Distance(last, a))
  BY DEF IsNextVacant
<1>2. Distance(last, a) = Distance(last, b)
  BY <1>1, DistanceType
<1>. QED  BY <1>2, DistanceInjective

(* get_id's contract determines its result. *)
LEMMA NextVacantIs ==
    ASSUME NEW idx, NEW last \in Ids, NEW a \in Ids, IsNextVacant(idx, last, a)
    PROVE  NextVacant(idx, last) = a
<1>1. ~Full(idx)
  BY DEF Full, IsNextVacant
<1>2. NextVacant(idx, last) \in Ids /\ IsNextVacant(idx, last, NextVacant(idx, last))
  BY <1>1 DEF NextVacant
<1>. QED  BY <1>2, NextVacantUnique

(* A table that is not full has a first vacant identifier. *)
LEMMA NextVacantExists ==
    ASSUME NEW idx, NEW last \in Ids, ~Full(idx)
    PROVE  NextVacant(idx, last) \in Ids /\ idx[NextVacant(idx, last)] = NoToken
<1>. DEFINE T == {Distance(last, j) : j \in {k \in Ids : idx[k] = NoToken}}
<1>1. T \subseteq Nat /\ T # {}
  BY DistanceType DEF Full
<1>2. PICK d \in T : \A e \in T : ~ (<<e, d>> \in OpToRel(<, Nat))
  <2>. HIDE DEF T
  <2>. QED  BY <1>1, NatLessThanWellFounded, WFMin
<1>3. \A e \in T : ~ (e < d)
  BY <1>1, <1>2 DEF OpToRel
<1>4. PICK i \in Ids : idx[i] = NoToken /\ d = Distance(last, i)
  OBVIOUS
<1>5. IsNextVacant(idx, last, i)
  BY <1>3, <1>4 DEF IsNextVacant
<1>. QED  BY <1>4, <1>5, NextVacantIs

(* get_id returns an identifier or 0, and one that was vacant. *)
LEMMA NextVacantType ==
    ASSUME NEW idx, NEW last \in Ids
    PROVE  /\ NextVacant(idx, last) \in 0 .. PKID_MAX
           /\ NextVacant(idx, last) # 0 =>
                 NextVacant(idx, last) \in Ids /\ idx[NextVacant(idx, last)] = NoToken
<1>1. CASE Full(idx)
  BY <1>1, PacketIdsAssumption DEF NextVacant
<1>2. CASE ~Full(idx)
  BY <1>2, NextVacantExists, PacketIdsAssumption DEF Ids, PKID_MIN
<1>. QED  BY <1>1, <1>2
==============================================================================
