---------------------------- MODULE InboundProofs ----------------------------
(***************************************************************************)
(* Every message of the server is handed over as its quality of service    *)
(* promises, for every set of messages and identifiers, every capacity of  *)
(* the msg channel and any number of connections.                          *)
(***************************************************************************)
EXTENDS Inbound, SequenceTheorems, FiniteSetTheorems, TLAPS

------------------------------------------------------------------------------
(* The inductive invariant. *)

\* Nothing is under way when no connection has tasks.
Quiet == link = "none" => inbox = <<>> /\ resp = NoPacket /\ msg = <<>>

\* Every exchange has an identifier of its own.
Exchanges ==
    /\ \A m \in InFlight : pid[m] \in Ids /\ m \notin Qos0
    /\ \A m \in Messages : out[m] = "released" => m \in Qos2
    /\ \A m \in Messages : out[m] = "lost" => m \notin Qos0
    /\ \A m, n \in InFlight : pid[m] = pid[n] => m = n

\* The exchange that a packet belongs to, and how far it is.
IsExchange(id, qos, stage) == \E m \in qos : out[m] = stage /\ pid[m] = id

InboxPacket(p) ==
    /\ p.type = "Publish" =>
          /\ p.m \in Messages
          /\ IF p.m \in Qos0 THEN p.id = 0 ELSE out[p.m] = "sent" /\ pid[p.m] = p.id
    /\ p.type = "Pubrel" => IsExchange(p.id, Qos2, "released")
    /\ p.type \in {"Suback", "Unsuback"} => p.id = 0

\* PUBREC is sent when the message is in the cache, or has expired there.
ReplyPacket(p) ==
    /\ p.type = "Puback" => IsExchange(p.id, Qos1, "sent")
    /\ p.type = "Pubrec" => \E m \in Qos2 : /\ out[m] = "sent" /\ pid[m] = p.id
                                            /\ pending[p.id] \in {m, NoMsg}
    /\ p.type = "Pubcomp" => IsExchange(p.id, Qos2, "released")

Matches ==
    /\ \A k \in 1 .. Len(inbox) : InboxPacket(inbox[k])
    /\ resp # NoPacket => ReplyPacket(resp)
    /\ \A k \in 1 .. Len(msg) : ReplyPacket(msg[k])

\* Of each exchange one packet at most is under way.
OnePacket ==
    /\ \A i, j \in 1 .. Len(inbox) : inbox[i].id = inbox[j].id => i = j \/ inbox[i].id = 0
    /\ \A i, j \in 1 .. Len(msg) : msg[i].id = msg[j].id => i = j
    /\ \A i \in 1 .. Len(inbox), j \in 1 .. Len(msg) : inbox[i].id # msg[j].id
    /\ resp # NoPacket =>
          /\ \A i \in 1 .. Len(inbox) : inbox[i].id # resp.id
          /\ \A j \in 1 .. Len(msg) : msg[j].id # resp.id

\* What the cache holds under an identifier in use is that exchange's message
\* from the PUBREC on; until then it may be one of a session that is over.
Cache ==
    /\ \A m \in Messages : out[m] = "released" => pending[pid[m]] \in {m, NoMsg}
    /\ \A id \in Ids : pending[id] # NoMsg =>
          \/ out[pending[id]] \in {"lost", "done"}
          \/ out[pending[id]] \in {"sent", "released"} /\ pid[pending[id]] = id
    /\ \A i, j \in Ids : pending[i] = pending[j] => i = j \/ pending[i] = NoMsg

\* A message that was handed over is in no cache and is not published again.
HandedOnce ==
    \A m \in Qos2 : handed[m] # 0 =>
        /\ handed[m] = 1
        /\ out[m] \notin {"new", "sent"}
        /\ \A id \in Ids : pending[id] # m

Inv == TypeOK /\ Quiet /\ Exchanges /\ Matches /\ OnePacket /\ Cache /\ HandedOnce

(* A message that is not excused finds the handler. *)

\* The handler is there when the packet of an exchange is read.
Fed ==
    link # "none" =>
        \A m \in InFlight \ excused :
            \/ handler
            \/ \E j, k \in 1 .. Len(inbox) : /\ j < k /\ inbox[j].type = "Suback"
                                             /\ inbox[k].type = "Publish" /\ inbox[k].m = m

\* After UNSUBSCRIBE nothing new is published until the UNSUBACK was read.
Unsubscribing ==
    \A k \in 1 .. Len(inbox) : inbox[k].type = "Unsuback" => ~subscribed /\ InFlight \subseteq excused

\* How far the message of an exchange is when its reply is under way.
HasMessage(m) == m \in excused \/ pending[pid[m]] = m \/ handed[m] >= 1
WasHanded(m) == m \in excused \/ handed[m] >= 1

Reply(p) ==
    \A m \in InFlight : pid[m] = p.id =>
        IF p.type = "Pubrec" THEN HasMessage(m) ELSE WasHanded(m)

NotDropped ==
    /\ \A m \in Messages : out[m] = "released" => HasMessage(m)
    /\ resp # NoPacket => Reply(resp)
    /\ \A k \in 1 .. Len(msg) : Reply(msg[k])

FedInv == Fed /\ Unsubscribing /\ NotDropped /\ AcknowledgedWasHanded

------------------------------------------------------------------------------
(* The operators of the model. *)

\* 0 and NoMsg are no identifier and no message.
LEMMA Constants ==
    /\ 0 \notin Ids /\ Ids \subseteq Nat
    /\ NoMsg \notin Messages
    /\ Qos0 \subseteq Messages /\ Qos1 \subseteq Messages /\ Qos2 \subseteq Messages
    /\ Qos0 \cap Qos1 = {} /\ Qos0 \cap Qos2 = {} /\ Qos1 \cap Qos2 = {}
BY InboundAssumption DEF InboundAssumption, Messages

\* The fields of a packet, and what tells packets from none.
LEMMA PacketFields ==
    ASSUME NEW type, NEW id, NEW m
    PROVE  /\ Packet(type, id, m).type = type
           /\ Packet(type, id, m).id = id
           /\ Packet(type, id, m).m = m
           /\ Signal(type, id) = Packet(type, id, NoMsg)
           /\ type # "None" => Packet(type, id, m) # NoPacket
BY DEF Packet, Signal, NoPacket

LEMMA PacketType ==
    ASSUME NEW types, NEW type \in types, NEW id \in Ids \cup {0}, NEW m \in Messages \cup {NoMsg}
    PROVE  Packet(type, id, m) \in Packets(types)
BY DEF Packet, Packets

LEMMA PacketsHave ==
    ASSUME NEW types, NEW p \in Packets(types)
    PROVE  p.type \in types /\ p.id \in Ids \cup {0} /\ p.m \in Messages \cup {NoMsg}
BY DEF Packets

\* A sequence without its head, and one with a new last element.
LEMMA TailIs ==
    ASSUME NEW S, NEW s \in Seq(S), s # <<>>
    PROVE  /\ Tail(s) \in Seq(S)
           /\ Len(s) \in Nat /\ 1 \in 1 .. Len(s)
           /\ Head(s) = s[1] /\ s[1] \in S
           /\ Len(Tail(s)) \in Nat /\ Len(Tail(s)) = Len(s) - 1
           /\ \A k \in 1 .. Len(Tail(s)) : k + 1 \in 1 .. Len(s) /\ Tail(s)[k] = s[k + 1]
<1>1. Tail(s) \in Seq(S) /\ Len(Tail(s)) = Len(s) - 1 /\ Head(s) \in S
      /\ \A k \in 1 .. Len(Tail(s)) : Tail(s)[k] = s[k + 1]
  BY HeadTailProperties
<1>2. Len(s) \in Nat /\ Len(s) # 0
  BY LenProperties, EmptySeq
<1>3. Head(s) = s[1]
  BY <1>2
<1> QED
  BY <1>1, <1>2, <1>3

LEMMA AppendIs ==
    ASSUME NEW S, NEW s \in Seq(S), NEW e \in S
    PROVE  /\ Append(s, e) \in Seq(S)
           /\ Len(s) \in Nat /\ Len(Append(s, e)) = Len(s) + 1
           /\ \A k \in 1 .. Len(s) : Append(s, e)[k] = s[k]
           /\ Append(s, e)[Len(s) + 1] = e
BY AppendProperties, LenProperties

------------------------------------------------------------------------------
(* Types. *)

InboxTypes == {"Publish", "Pubrel", "Suback", "Unsuback"}

\* What the read loop takes, and what is left.
LEMMA Received ==
    ASSUME TypeOK, NEW type, Receive(type)
    PROVE  /\ inbox \in Seq(Packets(InboxTypes)) /\ inbox # <<>>
           /\ link # "none" /\ resp = NoPacket
           /\ inbox' = Tail(inbox) /\ Head(inbox) = inbox[1]
           /\ Head(inbox) \in Packets(InboxTypes) /\ Head(inbox).type = type
           /\ Head(inbox).id \in Ids \cup {0} /\ Head(inbox).m \in Messages \cup {NoMsg}
           /\ inbox' \in Seq(Packets(InboxTypes))
           /\ Len(inbox) \in Nat /\ 1 \in 1 .. Len(inbox)
           /\ Len(inbox') \in Nat /\ Len(inbox') = Len(inbox) - 1
           /\ \A k \in 1 .. Len(inbox') : k + 1 \in 1 .. Len(inbox) /\ inbox'[k] = inbox[k + 1]
<1>1. inbox \in Seq(Packets(InboxTypes)) /\ inbox # <<>> /\ link # "none" /\ resp = NoPacket
      /\ inbox' = Tail(inbox) /\ Head(inbox).type = type
  BY DEF TypeOK, Receive, InboxTypes
<1>2. /\ Head(inbox) = inbox[1] /\ Head(inbox) \in Packets(InboxTypes)
      /\ inbox' \in Seq(Packets(InboxTypes))
      /\ Len(inbox) \in Nat /\ 1 \in 1 .. Len(inbox)
      /\ Len(inbox') \in Nat /\ Len(inbox') = Len(inbox) - 1
      /\ \A k \in 1 .. Len(inbox') : k + 1 \in 1 .. Len(inbox) /\ inbox'[k] = inbox[k + 1]
  BY <1>1, TailIs
<1>3. Head(inbox).id \in Ids \cup {0} /\ Head(inbox).m \in Messages \cup {NoMsg}
  BY <1>2, PacketsHave
<1> QED
  BY <1>1, <1>2, <1>3

\* What is in flight is finite, because identifiers are.
LEMMA InFlightFinite ==
    ASSUME TypeOK, Exchanges
    PROVE  IsFiniteSet(InFlight) /\ Cardinality(InFlight) \in Nat
<1> DEFINE f == [m \in InFlight |-> pid[m]]
<1>1. f \in [InFlight -> Ids]
  BY DEF Exchanges
<1>2. \A m, n \in DOMAIN f : f[m] = f[n] => m = n
  BY DEF Exchanges
<1>3. f \in Injection(InFlight, Ids)
  BY <1>1, <1>2, Zenon DEF Injection, IsInjective
<1>4. IsFiniteSet(Ids)
  BY InboundAssumption DEF InboundAssumption
<1>5. IsFiniteSet(InFlight)
  BY <1>3, <1>4, FS_Injection
<1> QED
  BY <1>5, FS_CardinalityType

LEMMA InitType == Init => TypeOK
<1> SUFFICES ASSUME Init
             PROVE  TypeOK
  OBVIOUS
<1>1. pending \in [Ids -> Qos2 \cup {NoMsg}] /\ handed \in [Messages -> Nat]
      /\ out \in [Messages -> {"new", "sent", "released", "done", "lost"}]
      /\ pid \in [Messages -> Ids \cup {0}]
  BY DEF Init
<1>2. inbox \in Seq(Packets(InboxTypes)) /\ msg \in Seq(Packets(AckTypes)) /\ Len(msg) = 0
  BY EmptySeq DEF Init
<1>3. resp \in Packets(AckTypes) \cup {NoPacket} /\ handler \in BOOLEAN /\ link \in {"none", "up", "down"}
      /\ subscribed \in BOOLEAN /\ owes \in BOOLEAN /\ excused \in SUBSET Messages
  BY DEF Init
<1>4. conns \in 0 .. MaxConns /\ Len(msg) <= MSG_CAP
  BY <1>2, InboundAssumption DEF InboundAssumption, Init
<1> QED
  BY <1>1, <1>2, <1>3, <1>4 DEF TypeOK, InboxTypes

\* A handler reads a packet, and may answer it.
LEMMA ReadType ==
    ASSUME TypeOK,
           \/ HandlePublish0 \/ HandlePublish1 \/ HandlePublish2 \/ HandlePubrel
           \/ HandleSuback \/ HandleUnsuback
    PROVE  TypeOK'
<1>1. PICK type : Receive(type)
  BY DEF HandlePublish0, HandlePublish1, HandlePublish2, HandlePubrel, HandleSuback, HandleUnsuback
<1> DEFINE p == Head(inbox)
<1>2. inbox' \in Seq(Packets(InboxTypes)) /\ p.id \in Ids \cup {0} /\ p.m \in Messages \cup {NoMsg}
  BY <1>1, Received
<1>3. \A t \in AckTypes : Signal(t, p.id) \in Packets(AckTypes)
  BY <1>2, PacketType DEF Signal
<1> HIDE DEF p
<1>4. ASSUME NEW m, handed' = [handed EXCEPT ![m] = @ + 1]
      PROVE  handed' \in [Messages -> Nat]
  <2>1. handed \in [Messages -> Nat] /\ DOMAIN handed' = DOMAIN handed
    BY <1>4 DEF TypeOK
  <2>2. ASSUME NEW n \in Messages
        PROVE  handed'[n] = IF n = m THEN handed[n] + 1 ELSE handed[n]
    BY <1>4, <2>1, Zenon
  <2>3. \A n \in Messages : handed'[n] \in Nat
    BY <2>1, <2>2
  <2>4. handed' = [n \in Messages |-> handed'[n]]
    BY <1>4, <2>1
  <2> QED
    BY <2>3, <2>4
<1>5. handed' \in [Messages -> Nat]
  BY <1>4 DEF HandlePublish0, HandlePublish1, HandlePublish2, HandlePubrel, HandleSuback,
       HandleUnsuback, Hand, TypeOK
<1>6. pending' \in [Ids -> Qos2 \cup {NoMsg}]
  BY <1>2 DEF HandlePublish0, HandlePublish1, HandlePublish2, HandlePubrel, HandleSuback,
       HandleUnsuback, TypeOK, p
<1>7. resp' \in Packets(AckTypes) \cup {NoPacket}
  BY <1>3 DEF HandlePublish0, HandlePublish1, HandlePublish2, HandlePubrel, HandleSuback,
       HandleUnsuback, TypeOK, AckTypes, p
<1>8. handler' \in BOOLEAN
  BY DEF HandlePublish0, HandlePublish1, HandlePublish2, HandlePubrel, HandleSuback,
       HandleUnsuback, TypeOK
<1>9. UNCHANGED <<msg, link, conns, serverVars, excused>>
  BY DEF HandlePublish0, HandlePublish1, HandlePublish2, HandlePubrel, HandleSuback, HandleUnsuback
<1> QED
  BY <1>2, <1>5, <1>6, <1>7, <1>8, <1>9 DEF TypeOK, InboxTypes, serverVars

LEMMA ReplyType ==
    ASSUME TypeOK, SendResponse \/ WriteMsg
    PROVE  TypeOK'
<1>1. inbox \in Seq(Packets(InboxTypes)) /\ msg \in Seq(Packets(AckTypes)) /\ Len(msg) <= MSG_CAP
      /\ MSG_CAP \in Nat
  BY InboundAssumption DEF InboundAssumption, TypeOK, InboxTypes
<1>2. CASE SendResponse
  <2>1. resp \in Packets(AckTypes) /\ msg' = Append(msg, resp) /\ Len(msg) < MSG_CAP /\ resp' = NoPacket
    BY <1>2 DEF SendResponse, TypeOK
  <2>2. msg' \in Seq(Packets(AckTypes)) /\ Len(msg') <= MSG_CAP
    BY <1>1, <2>1, AppendIs
  <2> QED
    BY <1>2, <2>1, <2>2 DEF SendResponse, TypeOK, serverVars
<1>3. CASE WriteMsg
  <2>1. msg # <<>> /\ msg' = Tail(msg)
    BY <1>3 DEF WriteMsg
  <2>2. msg' \in Seq(Packets(AckTypes)) /\ Len(msg') <= MSG_CAP /\ Head(msg) \in Packets(AckTypes)
    BY <1>1, <2>1, TailIs
  <2>3. Head(msg).id \in Ids \cup {0}
    BY <2>2, PacketsHave
  <2>4. Signal("Pubrel", Head(msg).id) \in Packets(InboxTypes)
    BY <2>3, PacketType DEF Signal, InboxTypes
  <2>5. inbox' \in Seq(Packets(InboxTypes))
    <3>1. \/ inbox' = inbox
          \/ inbox' = Append(inbox, Signal("Pubrel", Head(msg).id))
      BY <1>3 DEF WriteMsg
    <3> QED
      BY <1>1, <2>4, <3>1, AppendIs
  <2>6. out' \in [Messages -> {"new", "sent", "released", "done", "lost"}]
        /\ pid' \in [Messages -> Ids \cup {0}]
    BY <1>3 DEF WriteMsg, TypeOK
  <2> QED
    BY <1>3, <2>2, <2>5, <2>6 DEF WriteMsg, TypeOK, InboxTypes
<1> QED
  BY <1>2, <1>3

\* What the server sends again of an exchange.
Again(m) == IF out[m] = "sent" THEN Packet("Publish", pid[m], m) ELSE Signal("Pubrel", pid[m])

\* A resumed session begins with one packet of each exchange.
LEMMA ResumedIs ==
    ASSUME TypeOK, Exchanges, Resumed
    PROVE  /\ inbox' \in Seq(Packets(InboxTypes)) /\ Len(inbox') \in Nat
           /\ \A k \in 1 .. Len(inbox') : \E m \in InFlight : inbox'[k] = Again(m)
           /\ \A j, k \in 1 .. Len(inbox') : inbox'[j].id = inbox'[k].id => j = k
<1>1. PICK order \in SetToSeqs(InFlight) :
            inbox' = [k \in 1 .. Len(order) |->
                         IF out[order[k]] = "sent" THEN Packet("Publish", pid[order[k]], order[k])
                         ELSE Signal("Pubrel", pid[order[k]])]
  BY DEF Resumed
<1> DEFINE n == Cardinality(InFlight)
<1>2. n \in Nat
  BY InFlightFinite
<1>3. order \in [1 .. n -> InFlight] /\ \A i, j \in 1 .. n : i # j => order[i] # order[j]
  BY DEF SetToSeqs
<1> HIDE DEF n
<1>4. Len(order) = n
  BY <1>2, <1>3
<1>5. inbox' = [k \in 1 .. n |-> Again(order[k])]
  BY <1>1, <1>4 DEF Again
<1>6. \A m \in InFlight : Again(m) \in Packets(InboxTypes) /\ Again(m).id = pid[m]
  <2> SUFFICES ASSUME NEW m \in InFlight
               PROVE  Again(m) \in Packets(InboxTypes) /\ Again(m).id = pid[m]
    OBVIOUS
  <2>1. pid[m] \in Ids /\ m \in Messages
    BY DEF Exchanges, InFlight
  <2>2. Packet("Publish", pid[m], m) \in Packets(InboxTypes)
        /\ Signal("Pubrel", pid[m]) \in Packets(InboxTypes)
    BY <2>1, PacketType DEF Signal, InboxTypes
  <2> QED
    BY <2>2 DEF Again, Packet, Signal
<1>7. inbox' \in Seq(Packets(InboxTypes)) /\ Len(inbox') = n
  <2>1. \A k \in 1 .. n : Again(order[k]) \in Packets(InboxTypes)
    BY <1>3, <1>6
  <2> QED
    BY <1>2, <1>5, <2>1
<1>8. \A k \in 1 .. n : inbox'[k] = Again(order[k]) /\ order[k] \in InFlight
  BY <1>3, <1>5
<1>9. ASSUME NEW j \in 1 .. n, NEW k \in 1 .. n, inbox'[j].id = inbox'[k].id
      PROVE  j = k
  BY <1>3, <1>6, <1>8, <1>9 DEF Exchanges
<1> QED
  BY <1>2, <1>7, <1>8, <1>9

\* The fields that PUBLISH sets.
LEMMA PublishIs ==
    ASSUME TypeOK, NEW m \in Messages, NEW id \in Ids \cup {0}, Publish(m, id)
    PROVE  /\ out' = [out EXCEPT ![m] = IF m \in Qos0 THEN "done" ELSE "sent"]
           /\ m \in Qos0 => id = 0
           /\ m \notin Qos0 => id \in Ids /\ \A n \in InFlight : pid[n] # id
           /\ pid' = [pid EXCEPT ![m] = id]
           /\ Packet("Publish", id, m) \in Packets(InboxTypes)
           /\ inbox \in Seq(Packets(InboxTypes)) /\ inbox' \in Seq(Packets(InboxTypes))
           /\ Len(inbox) \in Nat /\ Len(inbox') = Len(inbox) + 1
           /\ \A k \in 1 .. Len(inbox) : inbox'[k] = inbox[k]
           /\ inbox'[Len(inbox) + 1] = Packet("Publish", id, m)
<1>1. Packet("Publish", id, m) \in Packets(InboxTypes) /\ inbox \in Seq(Packets(InboxTypes))
  BY PacketType DEF InboxTypes, TypeOK
<1>2. inbox' = Append(inbox, Packet("Publish", id, m))
  BY DEF Publish
<1>3. /\ out' = [out EXCEPT ![m] = IF m \in Qos0 THEN "done" ELSE "sent"]
      /\ m \in Qos0 => id = 0
      /\ m \notin Qos0 => id \in Ids /\ \A n \in InFlight : pid[n] # id
      /\ pid' = [pid EXCEPT ![m] = id]
  BY DEF Publish
<1> QED
  BY <1>1, <1>2, <1>3, AppendIs

LEMMA ServerType ==
    ASSUME TypeOK, Exchanges,
           \/ \E m \in Messages, id \in Ids \cup {0} : Publish(m, id)
           \/ Subscribe \/ SubscribeAnswered \/ Unsubscribe
    PROVE  TypeOK'
<1>1. inbox \in Seq(Packets(InboxTypes))
  BY DEF TypeOK, InboxTypes
<1>2. CASE \E m \in Messages, id \in Ids \cup {0} : Publish(m, id)
  <2>1. PICK m \in Messages, id \in Ids \cup {0} : Publish(m, id)
    BY <1>2
  <2>2. inbox' \in Seq(Packets(InboxTypes))
        /\ out' = [out EXCEPT ![m] = IF m \in Qos0 THEN "done" ELSE "sent"]
        /\ pid' = [pid EXCEPT ![m] = id]
    BY <2>1, PublishIs
  <2>3. out' \in [Messages -> {"new", "sent", "released", "done", "lost"}]
        /\ pid' \in [Messages -> Ids \cup {0}]
    BY <2>2 DEF TypeOK
  <2>4. excused' \in SUBSET Messages
    BY <2>1 DEF Publish, TypeOK
  <2> QED
    BY <2>1, <2>2, <2>3, <2>4 DEF Publish, TypeOK, InboxTypes, clientVars
<1>3. CASE Subscribe
  BY <1>3 DEF Subscribe, TypeOK, clientVars
<1>4. Signal("Suback", 0) \in Packets(InboxTypes) /\ Signal("Unsuback", 0) \in Packets(InboxTypes)
  BY PacketType DEF Signal, InboxTypes
<1>5. CASE SubscribeAnswered
  <2>1. inbox' \in Seq(Packets(InboxTypes))
    BY <1>1, <1>4, <1>5, AppendIs DEF SubscribeAnswered
  <2> QED
    BY <1>5, <2>1 DEF SubscribeAnswered, TypeOK, clientVars, InboxTypes
<1>6. CASE Unsubscribe
  <2>1. inbox' \in Seq(Packets(InboxTypes))
    BY <1>1, <1>4, <1>6, AppendIs DEF Unsubscribe
  <2>2. InFlight \subseteq Messages
    BY DEF InFlight
  <2> QED
    BY <1>6, <2>1, <2>2 DEF Unsubscribe, TypeOK, clientVars, InboxTypes
<1> QED
  BY <1>2, <1>3, <1>5, <1>6

LEMMA LinkType ==
    ASSUME TypeOK, Exchanges, LinkBreaks \/ TasksEnd \/ Resumed \/ Connected
    PROVE  TypeOK'
<1> USE InboundAssumption DEF InboundAssumption
<1>1. CASE LinkBreaks
  BY <1>1 DEF LinkBreaks, TypeOK, clientVars
<1>2. CASE TasksEnd
  <2>1. inbox' \in Seq(Packets(InboxTypes)) /\ msg' \in Seq(Packets(AckTypes)) /\ Len(msg') = 0
    BY <1>2, EmptySeq DEF TasksEnd
  <2>2. Len(msg') <= MSG_CAP
    BY <2>1
  <2> QED
    BY <1>2, <2>1, <2>2 DEF TasksEnd, TypeOK, serverVars, InboxTypes
<1>3. CASE Resumed
  <2>1. inbox' \in Seq(Packets(InboxTypes))
    BY <1>3, ResumedIs
  <2>2. excused' \in SUBSET Messages
    BY <1>3 DEF Resumed, TypeOK, InFlight
  <2>3. conns' \in 0 .. MaxConns /\ link' = "up"
    BY <1>3 DEF Resumed, TypeOK
  <2> QED
    BY <1>3, <2>1, <2>2, <2>3 DEF Resumed, TypeOK, clientVars, serverVars, InboxTypes
<1>4. CASE Connected
  <2>1. conns' \in 0 .. MaxConns /\ link' = "up"
    BY <1>4 DEF Connected, TypeOK
  <2>2. out' \in [Messages -> {"new", "sent", "released", "done", "lost"}]
        /\ pid' \in [Messages -> Ids \cup {0}]
    BY <1>4 DEF Connected, TypeOK
  <2> QED
    BY <1>4, <2>1, <2>2 DEF Connected, TypeOK
<1> QED
  BY <1>1, <1>2, <1>3, <1>4

LEMMA NextType ==
    ASSUME TypeOK, Exchanges, [Next]_vars
    PROVE  TypeOK'
<1>1. CASE ReadLoop
  BY <1>1, ReadType, ReplyType DEF ReadLoop
<1>2. CASE \E id \in Ids : Expire(id)
  <2>1. PICK id \in Ids : Expire(id)
    BY <1>2
  <2>2. pending' \in [Ids -> Qos2 \cup {NoMsg}] /\ excused' \in SUBSET Messages
    BY <2>1 DEF Expire, TypeOK, Messages
  <2> QED
    BY <2>1, <2>2 DEF Expire, TypeOK, serverVars
<1>3. CASE UNCHANGED vars
  BY <1>3 DEF vars, clientVars, serverVars, TypeOK
<1> QED
  BY <1>1, <1>2, <1>3, ReplyType, ServerType, LinkType DEF Next, Rest

------------------------------------------------------------------------------
(* The invariant. *)

\* Every packet of an exchange carries the identifier of one in flight.
LEMMA PacketsInUse ==
    ASSUME Inv
    PROVE  /\ \A k \in 1 .. Len(inbox) : inbox[k].id # 0 =>
                  \E m \in InFlight : pid[m] = inbox[k].id
           /\ \A k \in 1 .. Len(msg) : msg[k].id # 0 /\ \E m \in InFlight : pid[m] = msg[k].id
           /\ resp # NoPacket => resp.id # 0 /\ \E m \in InFlight : pid[m] = resp.id
<1>1. ASSUME NEW p \in Packets(AckTypes), ReplyPacket(p)
      PROVE  p.id # 0 /\ \E m \in InFlight : pid[m] = p.id
  <2>1. p.type \in AckTypes
    BY PacketsHave
  <2>2. \E m \in Messages : out[m] \in {"sent", "released"} /\ pid[m] = p.id
    BY <1>1, <2>1, Constants DEF AckTypes, ReplyPacket, IsExchange
  <2> QED
    BY <2>2, Constants DEF InFlight, Inv, Exchanges
<1>2. ASSUME NEW k \in 1 .. Len(inbox), inbox[k].id # 0
      PROVE  \E m \in InFlight : pid[m] = inbox[k].id
  <2>1. inbox[k] \in Packets(InboxTypes)
    BY DEF Inv, TypeOK, InboxTypes
  <2>2. inbox[k].type \in InboxTypes
    BY <2>1, PacketsHave
  <2> QED
    BY <1>2, <2>2, Constants DEF InboxTypes, Inv, Matches, InboxPacket, IsExchange, InFlight
<1>3. \A k \in 1 .. Len(msg) : msg[k] \in Packets(AckTypes)
  BY DEF Inv, TypeOK
<1>4. resp # NoPacket => resp \in Packets(AckTypes)
  BY DEF Inv, TypeOK
<1> QED
  BY <1>1, <1>2, <1>3, <1>4 DEF Inv, Matches

\* What reading a packet does to the packets under way: it leaves the others,
\* and its answer takes its place.
LEMMA ReadPackets ==
    ASSUME Inv, NEW type, Receive(type), UNCHANGED <<out, pid, msg, link>>,
           \A k \in 1 .. Len(msg) : ReplyPacket(msg[k])',
           \/ resp' = NoPacket
           \/ \E t \in AckTypes : /\ Head(inbox).id # 0 /\ resp' = Signal(t, Head(inbox).id)
                                  /\ ReplyPacket(resp)'
    PROVE  Quiet' /\ Exchanges' /\ Matches' /\ OnePacket'
<1>1. /\ link # "none" /\ resp = NoPacket /\ Head(inbox) = inbox[1]
      /\ Len(inbox) \in Nat /\ 1 \in 1 .. Len(inbox)
      /\ Len(inbox') \in Nat /\ Len(inbox') = Len(inbox) - 1
      /\ \A k \in 1 .. Len(inbox') : k + 1 \in 1 .. Len(inbox) /\ inbox'[k] = inbox[k + 1]
  BY Received DEF Inv
<1>2. Quiet'
  BY <1>1 DEF Quiet
<1>3. Exchanges'
  BY DEF Inv, Exchanges, InFlight
<1>4. Matches'
  <2>1. \A k \in 1 .. Len(inbox') : InboxPacket(inbox[k])'
    <3> SUFFICES ASSUME NEW k \in 1 .. Len(inbox')
                 PROVE  InboxPacket(inbox[k])'
      OBVIOUS
    <3>1. InboxPacket(inbox[k + 1]) /\ inbox'[k] = inbox[k + 1]
      BY <1>1 DEF Inv, Matches
    <3> QED
      BY <3>1 DEF InboxPacket, IsExchange
  <2> QED
    BY <2>1 DEF Matches
<1>5. ASSUME NEW i \in 1 .. Len(inbox'), NEW j \in 1 .. Len(inbox'), inbox'[i].id = inbox'[j].id
      PROVE  i = j \/ inbox'[i].id = 0
  <2>1. /\ i + 1 \in 1 .. Len(inbox) /\ inbox'[i] = inbox[i + 1]
        /\ j + 1 \in 1 .. Len(inbox) /\ inbox'[j] = inbox[j + 1]
    BY <1>1
  <2>2. i + 1 = j + 1 \/ inbox[i + 1].id = 0
    BY <1>5, <2>1 DEF Inv, OnePacket
  <2> QED
    BY <2>1, <2>2
<1>6. ASSUME NEW i \in 1 .. Len(inbox'), NEW j \in 1 .. Len(msg)
      PROVE  inbox'[i].id # msg[j].id
  <2>1. i + 1 \in 1 .. Len(inbox) /\ inbox'[i] = inbox[i + 1]
    BY <1>1
  <2> QED
    BY <2>1 DEF Inv, OnePacket
<1>7. ASSUME resp' # NoPacket
      PROVE  /\ \A i \in 1 .. Len(inbox') : inbox'[i].id # resp'.id
             /\ \A j \in 1 .. Len(msg) : msg[j].id # resp'.id
  <2>1. resp'.id = inbox[1].id /\ inbox[1].id # 0
    BY <1>1, <1>7, PacketFields DEF Packet, Signal
  <2> QED
    BY <1>1, <2>1 DEF Inv, OnePacket
<1>8. OnePacket'
  BY <1>5, <1>6, <1>7 DEF Inv, OnePacket
<1> QED
  BY <1>2, <1>3, <1>4, <1>8

\* A message of quality of service 0, and what is no message.
LEMMA ReadOther ==
    ASSUME Inv, HandlePublish0 \/ HandleSuback \/ HandleUnsuback
    PROVE  Quiet' /\ Exchanges' /\ Matches' /\ OnePacket' /\ Cache' /\ HandedOnce'
<1>1. /\ \E type : Receive(type)
      /\ UNCHANGED <<pending, resp, msg, link, out, pid>>
      /\ resp = NoPacket
  BY DEF HandlePublish0, HandleSuback, HandleUnsuback, serverVars, Receive
<1>2. Quiet' /\ Exchanges' /\ Matches' /\ OnePacket'
  <2>1. \A k \in 1 .. Len(msg) : ReplyPacket(msg[k])'
    BY <1>1 DEF Inv, Matches, ReplyPacket, IsExchange
  <2> QED
    BY <1>1, <2>1, ReadPackets
<1>3. Cache'
  BY <1>1 DEF Inv, Cache
<1>4. \A m \in Qos2 : handed'[m] = handed[m]
  BY Constants DEF Inv, TypeOK, HandlePublish0, HandleSuback, HandleUnsuback, Hand
<1>5. HandedOnce'
  BY <1>1, <1>4 DEF Inv, HandedOnce
<1> QED
  BY <1>2, <1>3, <1>5

LEMMA ReadPublish1 ==
    ASSUME Inv, HandlePublish1
    PROVE  Quiet' /\ Exchanges' /\ Matches' /\ OnePacket' /\ Cache' /\ HandedOnce'
<1> DEFINE p == Head(inbox)
<1>1. /\ Receive("Publish") /\ p.m \in Qos1
      /\ UNCHANGED <<pending, msg, link, out, pid>>
      /\ resp' = Signal("Puback", p.id)
  BY DEF HandlePublish1, serverVars
<1>2. p.id # 0 /\ out[p.m] = "sent" /\ pid[p.m] = p.id
  <2>1. InboxPacket(p) /\ p.type = "Publish"
    BY <1>1, Received DEF Inv, Matches
  <2>2. p.m \in InFlight /\ out[p.m] = "sent" /\ pid[p.m] = p.id
    BY <1>1, <2>1, Constants DEF InboxPacket, InFlight
  <2> QED
    BY <2>2, Constants DEF Inv, Exchanges
<1> HIDE DEF p
<1>3. Quiet' /\ Exchanges' /\ Matches' /\ OnePacket'
  <2>1. \A k \in 1 .. Len(msg) : ReplyPacket(msg[k])'
    BY <1>1 DEF Inv, Matches, ReplyPacket, IsExchange
  <2>2. resp'.type = "Puback" /\ resp'.id = p.id
    BY <1>1 DEF Signal, Packet
  <2>3. ReplyPacket(resp)'
    BY <1>1, <1>2, <2>2 DEF ReplyPacket, IsExchange
  <2> QED
    BY <1>1, <1>2, <2>1, <2>3, ReadPackets DEF AckTypes, p
<1>4. Cache'
  BY <1>1 DEF Inv, Cache
<1>5. \A m \in Qos2 : handed'[m] = handed[m]
  BY <1>1, Constants DEF Inv, TypeOK, HandlePublish1, Hand, p
<1>6. HandedOnce'
  BY <1>1, <1>5 DEF Inv, HandedOnce
<1> QED
  BY <1>3, <1>4, <1>6

\* PUBLISH of quality of service 2: the message replaces what the cache still
\* holds under its identifier.
LEMMA ReadPublish2 ==
    ASSUME Inv, HandlePublish2
    PROVE  Quiet' /\ Exchanges' /\ Matches' /\ OnePacket' /\ Cache' /\ HandedOnce'
<1> DEFINE p == Head(inbox)
<1>1. /\ Receive("Publish") /\ p.m \in Qos2
      /\ UNCHANGED <<handed, msg, link, out, pid>>
      /\ pending' = [pending EXCEPT ![p.id] = p.m]
      /\ resp' = Signal("Pubrec", p.id)
  BY DEF HandlePublish2, serverVars
<1>2. p.id \in Ids /\ p.id # 0 /\ p.m \in InFlight /\ out[p.m] = "sent" /\ pid[p.m] = p.id
  <2>1. InboxPacket(p) /\ p.type = "Publish"
    BY <1>1, Received DEF Inv, Matches
  <2>2. p.m \in InFlight /\ out[p.m] = "sent" /\ pid[p.m] = p.id
    BY <1>1, <2>1, Constants DEF InboxPacket, InFlight
  <2> QED
    BY <2>2, Constants DEF Inv, Exchanges
<1>3. /\ p = inbox[1] /\ 1 \in 1 .. Len(inbox)
  BY <1>1, Received DEF Inv
<1> HIDE DEF p
<1>4. \A id \in Ids : pending'[id] = IF id = p.id THEN p.m ELSE pending[id]
  BY <1>1 DEF Inv, TypeOK
<1>5. \A k \in 1 .. Len(msg) : msg[k].id # p.id
  BY <1>2, <1>3 DEF Inv, OnePacket
<1>6. \A k \in 1 .. Len(msg) : ReplyPacket(msg[k])'
  <2> SUFFICES ASSUME NEW k \in 1 .. Len(msg)
               PROVE  ReplyPacket(msg[k])'
    BY <1>1
  <2>1. ReplyPacket(msg[k]) /\ msg[k].id # p.id /\ msg[k].id \in Ids
    <3>1. ReplyPacket(msg[k]) /\ msg[k].id # p.id
      BY <1>5 DEF Inv, Matches
    <3>2. \E m \in InFlight : pid[m] = msg[k].id
      BY PacketsInUse
    <3> QED
      BY <3>1, <3>2 DEF Inv, Exchanges
  <2> QED
    BY <1>1, <1>4, <2>1 DEF ReplyPacket, IsExchange
<1>7. Quiet' /\ Exchanges' /\ Matches' /\ OnePacket'
  <2>1. resp'.type = "Pubrec" /\ resp'.id = p.id
    BY <1>1 DEF Signal, Packet
  <2>2. ReplyPacket(resp)'
    BY <1>1, <1>2, <1>4, <2>1 DEF ReplyPacket
  <2> QED
    BY <1>1, <1>2, <1>6, <2>2, ReadPackets DEF AckTypes, p
<1>8. Cache'
  <2>1. \A m \in Messages : out[m] = "released" => pending'[pid[m]] \in {m, NoMsg}
    <3> SUFFICES ASSUME NEW m \in Messages, out[m] = "released"
                 PROVE  pending'[pid[m]] \in {m, NoMsg}
      OBVIOUS
    <3>1. m \in InFlight /\ pid[m] \in Ids /\ pid[m] # p.id
      BY <1>2 DEF Inv, Exchanges, InFlight
    <3> QED
      BY <1>4, <3>1 DEF Inv, Cache
  <2>2. \A id \in Ids : pending'[id] # NoMsg =>
          \/ out[pending'[id]] \in {"lost", "done"}
          \/ out[pending'[id]] \in {"sent", "released"} /\ pid[pending'[id]] = id
    BY <1>2, <1>4 DEF Inv, Cache
  <2>3. \A id \in Ids : pending[id] = p.m => id = p.id
    BY <1>1, <1>2, Constants DEF Inv, Cache
  <2>4. \A i, j \in Ids : pending'[i] = pending'[j] => i = j \/ pending'[i] = NoMsg
    BY <1>4, <2>3 DEF Inv, Cache
  <2> QED
    BY <1>1, <2>1, <2>2, <2>4 DEF Cache
<1>9. HandedOnce'
  <2>1. handed[p.m] = 0
    BY <1>1, <1>2 DEF Inv, HandedOnce
  <2> QED
    BY <1>1, <1>2, <1>4, <2>1 DEF Inv, HandedOnce
<1> QED
  BY <1>7, <1>8, <1>9

\* A message that leaves the cache unread was handed over or has expired.
LEMMA Uncached ==
    ASSUME Inv, NEW id \in Ids, pending' = [pending EXCEPT ![id] = NoMsg], UNCHANGED <<out, pid>>
    PROVE  Cache' /\ \A k \in 1 .. Len(msg) : UNCHANGED msg => ReplyPacket(msg[k])'
<1>1. \A i \in Ids : pending'[i] = IF i = id THEN NoMsg ELSE pending[i]
  BY DEF Inv, TypeOK
<1>2. \A m \in Messages : out[m] = "released" => pid[m] \in Ids
  BY DEF Inv, Exchanges, InFlight
<1>3. Cache'
  BY <1>1, <1>2 DEF Inv, Cache
<1>4. ASSUME NEW k \in 1 .. Len(msg), UNCHANGED msg
      PROVE  ReplyPacket(msg[k])'
  <2>1. ReplyPacket(msg[k]) /\ msg[k].id \in Ids
    BY PacketsInUse DEF Inv, Exchanges, Matches
  <2> QED
    BY <1>1, <1>4, <2>1 DEF ReplyPacket, IsExchange
<1> QED
  BY <1>3, <1>4

\* PUBREL: what is handed over is the message that the server released.
LEMMA PubrelIs ==
    ASSUME Inv, HandlePubrel
    PROVE  LET id == Head(inbox).id
           IN  /\ id \in Ids /\ id # 0
               /\ \E m \in Qos2 : /\ out[m] = "released" /\ pid[m] = id
                                  /\ pending[id] \in {m, NoMsg}
               /\ pending' = [pending EXCEPT ![id] = NoMsg]
<1> DEFINE id == Head(inbox).id
<1>1. Receive("Pubrel") /\ pending' = [pending EXCEPT ![id] = NoMsg]
  BY DEF HandlePubrel
<1>2. InboxPacket(Head(inbox)) /\ Head(inbox).type = "Pubrel"
  BY <1>1, Received DEF Inv, Matches
<1>3. PICK m \in Qos2 : out[m] = "released" /\ pid[m] = id
  BY <1>2 DEF InboxPacket, IsExchange
<1>4. m \in InFlight
  BY <1>3, Constants DEF InFlight
<1>5. id \in Ids /\ id # 0 /\ pending[id] \in {m, NoMsg}
  BY <1>3, <1>4, Constants DEF Inv, Exchanges, Cache
<1> QED
  BY <1>1, <1>3, <1>5

LEMMA ReadPubrel ==
    ASSUME Inv, HandlePubrel
    PROVE  Quiet' /\ Exchanges' /\ Matches' /\ OnePacket' /\ Cache' /\ HandedOnce'
<1> DEFINE id == Head(inbox).id
<1>1. /\ Receive("Pubrel")
      /\ UNCHANGED <<handler, msg, link, out, pid>>
      /\ resp' = Signal("Pubcomp", id)
      /\ IF pending[id] = NoMsg THEN UNCHANGED handed ELSE Hand(pending[id])
  BY DEF HandlePubrel, serverVars
<1>2. id \in Ids /\ id # 0 /\ pending' = [pending EXCEPT ![id] = NoMsg]
  BY PubrelIs
<1>3. PICK m \in Qos2 : out[m] = "released" /\ pid[m] = id /\ pending[id] \in {m, NoMsg}
  BY PubrelIs
<1> HIDE DEF id
<1>4. Cache' /\ \A k \in 1 .. Len(msg) : ReplyPacket(msg[k])'
  BY <1>1, <1>2, Uncached
<1>5. Quiet' /\ Exchanges' /\ Matches' /\ OnePacket'
  <2>1. resp'.type = "Pubcomp" /\ resp'.id = id
    BY <1>1 DEF Signal, Packet
  <2>2. ReplyPacket(resp)'
    BY <1>1, <1>3, <2>1 DEF ReplyPacket, IsExchange
  <2> QED
    BY <1>1, <1>2, <1>4, <2>2, ReadPackets DEF AckTypes, id
<1>6. \A i \in Ids : pending'[i] = IF i = id THEN NoMsg ELSE pending[i]
  BY <1>2 DEF Inv, TypeOK
<1>7. HandedOnce'
  <2> SUFFICES ASSUME NEW n \in Qos2, handed'[n] # 0
               PROVE  /\ handed'[n] = 1
                      /\ out[n] \notin {"new", "sent"}
                      /\ \A i \in Ids : pending'[i] # n
    BY <1>1 DEF HandedOnce
  <2>0. n # NoMsg /\ n \in Messages
    BY Constants
  <2>1. CASE handed'[n] = handed[n]
    BY <1>6, <2>0, <2>1 DEF Inv, HandedOnce
  <2>2. CASE handed'[n] # handed[n]
    <3>1. pending[id] = n /\ handed'[n] = handed[n] + 1
      BY <1>1, <2>0, <2>2 DEF Hand, Inv, TypeOK
    <3>2. n = m /\ handed[n] = 0
      BY <1>2, <1>3, <2>0, <3>1 DEF Inv, HandedOnce
    <3>3. \A i \in Ids : pending'[i] # n
      BY <1>2, <1>6, <2>0, <3>1 DEF Inv, Cache
    <3> QED
      BY <1>3, <3>1, <3>2, <3>3
  <2> QED
    BY <2>1, <2>2
<1> QED
  BY <1>4, <1>5, <1>7

\* The response takes its place in the channel, and an entry of the cache expires.
LEMMA SentOrExpired ==
    ASSUME Inv, SendResponse \/ \E id \in Ids : Expire(id)
    PROVE  Quiet' /\ Exchanges' /\ Matches' /\ OnePacket' /\ Cache' /\ HandedOnce'
<1>1. UNCHANGED <<handed, link, inbox, out, pid>>
  BY DEF SendResponse, Expire, serverVars
<1>2. Exchanges'
  BY <1>1 DEF Inv, Exchanges, InFlight
<1>3. \A k \in 1 .. Len(inbox') : InboxPacket(inbox[k])'
  BY <1>1 DEF Inv, Matches, InboxPacket, IsExchange
<1>4. CASE SendResponse
  <2>1. /\ resp # NoPacket /\ msg' = Append(msg, resp) /\ resp' = NoPacket
        /\ UNCHANGED pending /\ link # "none"
    BY <1>4 DEF SendResponse
  <2>2. msg \in Seq(Packets(AckTypes)) /\ resp \in Packets(AckTypes)
    BY <2>1 DEF Inv, TypeOK
  <2>3. /\ Len(msg) \in Nat /\ Len(msg') = Len(msg) + 1
        /\ \A k \in 1 .. Len(msg) : msg'[k] = msg[k]
        /\ msg'[Len(msg) + 1] = resp
    BY <2>1, <2>2, AppendIs
  <2>4. \A k \in 1 .. Len(msg') : k \in 1 .. Len(msg) \/ k = Len(msg) + 1
    BY <2>3
  <2>5. Quiet' /\ Cache' /\ HandedOnce'
    BY <1>1, <2>1 DEF Inv, Quiet, Cache, HandedOnce
  <2>6. \A k \in 1 .. Len(msg') : ReplyPacket(msg[k])'
    BY <1>1, <2>1, <2>3, <2>4 DEF Inv, Matches, ReplyPacket, IsExchange
  <2>7. Matches'
    BY <1>3, <2>1, <2>6 DEF Matches, NoPacket
  <2>8. /\ \A i, j \in 1 .. Len(msg') : msg'[i].id = msg'[j].id => i = j
        /\ \A i \in 1 .. Len(inbox), j \in 1 .. Len(msg') : inbox[i].id # msg'[j].id
    BY <2>1, <2>3, <2>4 DEF Inv, OnePacket
  <2>9. OnePacket'
    BY <1>1, <2>1, <2>8 DEF Inv, OnePacket, NoPacket
  <2> QED
    BY <1>2, <2>5, <2>7, <2>9
<1>5. CASE \E id \in Ids : Expire(id)
  <2>1. PICK id \in Ids : Expire(id)
    BY <1>5
  <2>2. pending' = [pending EXCEPT ![id] = NoMsg] /\ UNCHANGED <<resp, msg>>
    BY <2>1 DEF Expire
  <2>3. Cache' /\ \A k \in 1 .. Len(msg) : ReplyPacket(msg[k])'
    BY <1>1, <2>2, Uncached
  <2>4. \A i \in Ids : pending'[i] = IF i = id THEN NoMsg ELSE pending[i]
    BY <2>2 DEF Inv, TypeOK
  <2>5. ReplyPacket(resp) => ReplyPacket(resp)'
    <3> SUFFICES ASSUME ReplyPacket(resp)
                 PROVE  ReplyPacket(resp)'
      OBVIOUS
    <3>1. ASSUME NEW m \in Qos2, out[m] = "sent", pid[m] = resp.id
          PROVE  resp.id \in Ids
      <4>1. m \in InFlight
        BY <3>1, Constants DEF InFlight
      <4> QED
        BY <3>1, <4>1 DEF Inv, Exchanges
    <3> QED
      BY <1>1, <2>2, <2>4, <3>1 DEF ReplyPacket, IsExchange
  <2>6. Matches'
    BY <1>3, <2>2, <2>3, <2>5 DEF Inv, Matches
  <2>7. OnePacket' /\ Quiet'
    BY <1>1, <2>2 DEF Inv, OnePacket, Quiet, NoPacket
  <2>8. HandedOnce'
    BY <1>1, <2>4, Constants DEF Inv, HandedOnce
  <2> QED
    BY <1>2, <2>3, <2>6, <2>7, <2>8
<1> QED
  BY <1>4, <1>5

\* What the server does with a reply: exactly one exchange goes on.
LEMMA WrittenIs ==
    ASSUME Inv, WriteMsg, link # "down"
    PROVE  \E m \in Qos1 \cup Qos2 :
              LET p == Head(msg)
              IN  /\ p = msg[1] /\ pid[m] = p.id /\ p.id \in Ids
                  /\ \/ p.type = "Puback" /\ m \in Qos1 /\ out[m] = "sent"
                     \/ p.type = "Pubrec" /\ m \in Qos2 /\ out[m] = "sent" /\ pending[p.id] \in {m, NoMsg}
                     \/ p.type = "Pubcomp" /\ m \in Qos2 /\ out[m] = "released"
                  /\ \A n \in Messages : out'[n] = IF n # m THEN out[n]
                                                   ELSE IF p.type = "Pubrec" THEN "released" ELSE "done"
                  /\ \A n \in Messages : pid'[n] = IF n = m /\ p.type # "Pubrec" THEN 0 ELSE pid[n]
                  /\ inbox' = IF p.type = "Pubrec" THEN Append(inbox, Signal("Pubrel", p.id)) ELSE inbox
<1> DEFINE p == Head(msg)
           served == {m \in InFlight : pid[m] = p.id}
<1>1. msg \in Seq(Packets(AckTypes)) /\ msg # <<>>
  BY DEF WriteMsg, Inv, TypeOK
<1>2. p = msg[1] /\ 1 \in 1 .. Len(msg) /\ p \in Packets(AckTypes)
  BY <1>1, TailIs
<1>3. p.type \in AckTypes /\ ReplyPacket(p)
  BY <1>2, PacketsHave DEF Inv, Matches
<1>4. /\ out' = [m \in Messages |-> IF m \notin served THEN out[m]
                                    ELSE IF p.type = "Pubrec" THEN "released" ELSE "done"]
      /\ pid' = [m \in Messages |-> IF m \in served /\ p.type # "Pubrec" THEN 0 ELSE pid[m]]
      /\ inbox' = IF p.type = "Pubrec" THEN Append(inbox, Signal("Pubrel", p.id)) ELSE inbox
  BY DEF WriteMsg
<1> HIDE DEF p
<1>5. PICK m \in Qos1 \cup Qos2 :
        /\ pid[m] = p.id
        /\ \/ p.type = "Puback" /\ m \in Qos1 /\ out[m] = "sent"
           \/ p.type = "Pubrec" /\ m \in Qos2 /\ out[m] = "sent" /\ pending[p.id] \in {m, NoMsg}
           \/ p.type = "Pubcomp" /\ m \in Qos2 /\ out[m] = "released"
  BY <1>3 DEF ReplyPacket, IsExchange, AckTypes
<1>6. m \in InFlight
  BY <1>5, Constants DEF InFlight
<1>7. served = {m}
  BY <1>5, <1>6 DEF Inv, Exchanges
<1>8. p.id \in Ids
  BY <1>5, <1>6 DEF Inv, Exchanges
<1> HIDE DEF served
<1>9. /\ \A n \in Messages : out'[n] = IF n # m THEN out[n]
                                       ELSE IF p.type = "Pubrec" THEN "released" ELSE "done"
      /\ \A n \in Messages : pid'[n] = IF n = m /\ p.type # "Pubrec" THEN 0 ELSE pid[n]
  BY <1>4, <1>7
<1> QED
  BY <1>2, <1>4, <1>5, <1>8, <1>9 DEF p

\* The msg channel without its head.
LEMMA WriteTakes ==
    ASSUME Inv, WriteMsg
    PROVE  /\ Len(msg) \in Nat /\ 1 \in 1 .. Len(msg) /\ Head(msg) = msg[1]
           /\ Len(msg') \in Nat /\ Len(msg') = Len(msg) - 1
           /\ \A k \in 1 .. Len(msg') : k + 1 \in 1 .. Len(msg) /\ msg'[k] = msg[k + 1]
           /\ UNCHANGED <<pending, resp, handed, link>> /\ link # "none"
           /\ link = "down" => UNCHANGED <<out, pid, inbox>>
<1>1. msg \in Seq(Packets(AckTypes)) /\ msg # <<>> /\ msg' = Tail(msg)
  BY DEF WriteMsg, Inv, TypeOK
<1> QED
  BY <1>1, TailIs DEF WriteMsg

\* The replies that stay are of different exchanges, with nothing else under way.
LEMMA OneReplyLeft ==
    ASSUME Inv, WriteMsg
    PROVE  /\ \A i, j \in 1 .. Len(msg') : msg'[i].id = msg'[j].id => i = j
           /\ \A i \in 1 .. Len(inbox), j \in 1 .. Len(msg') : inbox[i].id # msg'[j].id
           /\ resp # NoPacket => \A j \in 1 .. Len(msg') : msg'[j].id # resp.id
<1>0. OnePacket
  BY DEF Inv
<1>1. \A k \in 1 .. Len(msg') : k + 1 \in 1 .. Len(msg) /\ msg'[k] = msg[k + 1]
  BY WriteTakes
<1>2. ASSUME NEW i \in 1 .. Len(msg'), NEW j \in 1 .. Len(msg'), msg'[i].id = msg'[j].id
      PROVE  i = j
  <2>1. PICK a \in 1 .. Len(msg), b \in 1 .. Len(msg) :
           a = i + 1 /\ b = j + 1 /\ msg[a].id = msg[b].id
    BY <1>1, <1>2
  <2>2. a = b
    BY <1>0, <2>1 DEF OnePacket
  <2> QED
    BY <2>1, <2>2
<1>3. ASSUME NEW i \in 1 .. Len(inbox), NEW j \in 1 .. Len(msg')
      PROVE  inbox[i].id # msg'[j].id
  BY <1>0, <1>1 DEF OnePacket
<1>4. ASSUME resp # NoPacket, NEW j \in 1 .. Len(msg')
      PROVE  msg'[j].id # resp.id
  BY <1>0, <1>1, <1>4 DEF OnePacket
<1> QED
  BY <1>2, <1>3, <1>4

LEMMA Written ==
    ASSUME Inv, WriteMsg
    PROVE  Quiet' /\ Exchanges' /\ Matches' /\ OnePacket' /\ Cache' /\ HandedOnce'
<1>1. /\ Len(msg) \in Nat /\ 1 \in 1 .. Len(msg) /\ Head(msg) = msg[1]
      /\ Len(msg') \in Nat /\ Len(msg') = Len(msg) - 1
      /\ \A k \in 1 .. Len(msg') : k + 1 \in 1 .. Len(msg) /\ msg'[k] = msg[k + 1]
      /\ UNCHANGED <<pending, resp, handed, link>> /\ link # "none"
  BY WriteTakes
<1>2. Quiet'
  BY <1>1 DEF Quiet
<1>3. CASE link = "down"
  <2>1. UNCHANGED <<out, pid, inbox>>
    BY <1>3, WriteTakes
  <2>2. Exchanges' /\ Cache' /\ HandedOnce'
    BY <1>1, <2>1 DEF Inv, Exchanges, InFlight, Cache, HandedOnce
  <2>3. Matches'
    <3>1. \A k \in 1 .. Len(inbox') : InboxPacket(inbox[k])'
      BY <2>1 DEF Inv, Matches, InboxPacket, IsExchange
    <3>2. ASSUME NEW p, ReplyPacket(p)
          PROVE  ReplyPacket(p)'
      BY <1>1, <2>1, <3>2 DEF ReplyPacket, IsExchange
    <3>3. \A k \in 1 .. Len(msg') : ReplyPacket(msg'[k])
      BY <1>1 DEF Inv, Matches
    <3>4. \A k \in 1 .. Len(msg') : ReplyPacket(msg[k])'
      <4> SUFFICES ASSUME NEW k \in 1 .. Len(msg')
                   PROVE  ReplyPacket(msg[k])'
        OBVIOUS
      <4>1. ReplyPacket(msg'[k])
        BY <3>3
      <4> QED
        BY <1>1, <2>1, <4>1 DEF ReplyPacket, IsExchange
    <3>5. resp' # NoPacket => ReplyPacket(resp)'
      BY <1>1, <2>1 DEF Inv, Matches, ReplyPacket, IsExchange
    <3> QED
      BY <3>1, <3>4, <3>5 DEF Matches, NoPacket
  <2>4. OnePacket'
    <3>1. \A i, j \in 1 .. Len(inbox') : inbox'[i].id = inbox'[j].id => i = j \/ inbox'[i].id = 0
      BY <2>1 DEF Inv, OnePacket
    <3>2. \A i, j \in 1 .. Len(msg') : msg'[i].id = msg'[j].id => i = j
      BY OneReplyLeft
    <3>3. \A i \in 1 .. Len(inbox), j \in 1 .. Len(msg') : inbox[i].id # msg'[j].id
      BY OneReplyLeft
    <3>4. resp' # NoPacket => /\ \A i \in 1 .. Len(inbox') : inbox'[i].id # resp'.id
                              /\ \A j \in 1 .. Len(msg') : msg'[j].id # resp'.id
      <4>1. resp # NoPacket => \A i \in 1 .. Len(inbox) : inbox[i].id # resp.id
        BY DEF Inv, OnePacket
      <4> QED
        BY <1>1, <2>1, <4>1, OneReplyLeft
    <3> QED
      BY <2>1, <3>1, <3>2, <3>3, <3>4 DEF OnePacket, NoPacket
  <2> QED
    BY <1>2, <2>2, <2>3, <2>4
<1>4. CASE link # "down"
  <2> DEFINE p == Head(msg)
  <2>1. PICK m \in Qos1 \cup Qos2 :
          /\ p = msg[1] /\ pid[m] = p.id /\ p.id \in Ids
          /\ \/ p.type = "Puback" /\ m \in Qos1 /\ out[m] = "sent"
             \/ p.type = "Pubrec" /\ m \in Qos2 /\ out[m] = "sent" /\ pending[p.id] \in {m, NoMsg}
             \/ p.type = "Pubcomp" /\ m \in Qos2 /\ out[m] = "released"
          /\ \A n \in Messages : out'[n] = IF n # m THEN out[n]
                                           ELSE IF p.type = "Pubrec" THEN "released" ELSE "done"
          /\ \A n \in Messages : pid'[n] = IF n = m /\ p.type # "Pubrec" THEN 0 ELSE pid[n]
          /\ inbox' = IF p.type = "Pubrec" THEN Append(inbox, Signal("Pubrel", p.id)) ELSE inbox
    BY <1>4, WrittenIs
  <2> HIDE DEF p
  <2>2. m \in InFlight /\ m \in Messages /\ p.id # 0
    BY <2>1, Constants DEF InFlight
  <2>3. /\ \A i \in 1 .. Len(inbox) : inbox[i].id # p.id
        /\ \A j \in 1 .. Len(msg') : msg'[j].id # p.id
        /\ resp # NoPacket => resp.id # p.id
    <3>1. msg[1].id = p.id /\ \A j \in 1 .. Len(msg') : j + 1 # 1 /\ msg'[j] = msg[j + 1]
      BY <1>1, <2>1
    <3>2. ASSUME NEW j \in 1 .. Len(msg')
          PROVE  msg'[j].id # p.id
      BY <1>1, <3>1 DEF Inv, OnePacket
    <3>3. /\ \A i \in 1 .. Len(inbox) : inbox[i].id # p.id
          /\ resp # NoPacket => resp.id # p.id
      BY <1>1, <3>1 DEF Inv, OnePacket
    <3> QED
      BY <3>2, <3>3
  <2>4. inbox \in Seq(Packets(InboxTypes)) /\ Signal("Pubrel", p.id) \in Packets(InboxTypes)
    BY <2>1, PacketType DEF Inv, TypeOK, InboxTypes, Signal
  <2>5. /\ Len(inbox) \in Nat /\ Len(inbox') \in Nat
        /\ \A k \in 1 .. Len(inbox) : inbox'[k] = inbox[k]
        /\ \A k \in 1 .. Len(inbox') : \/ k \in 1 .. Len(inbox)
                                       \/ /\ p.type = "Pubrec" /\ k = Len(inbox) + 1
                                          /\ inbox'[k] = Signal("Pubrel", p.id)
    <3>1. CASE p.type = "Pubrec"
      <4>1. inbox' = Append(inbox, Signal("Pubrel", p.id))
        BY <2>1, <3>1
      <4> QED
        BY <2>4, <3>1, <4>1, AppendIs
    <3>2. CASE p.type # "Pubrec"
      BY <2>1, <2>4, <3>2, LenProperties
    <3> QED
      BY <3>1, <3>2
  <2>6. Signal("Pubrel", p.id).type = "Pubrel" /\ Signal("Pubrel", p.id).id = p.id
    BY DEF Signal, Packet
  <2>7. Exchanges'
    BY <2>1, <2>2, Constants DEF Inv, Exchanges, InFlight
  <2>8. \A n \in Messages : n # m => out'[n] = out[n] /\ pid'[n] = pid[n]
    BY <2>1
  <2>9. \A k \in 1 .. Len(inbox') : InboxPacket(inbox[k])'
    <3> SUFFICES ASSUME NEW k \in 1 .. Len(inbox')
                 PROVE  InboxPacket(inbox[k])'
      OBVIOUS
    <3>1. CASE k \in 1 .. Len(inbox)
      <4>1. InboxPacket(inbox[k]) /\ inbox[k].id # p.id /\ inbox'[k] = inbox[k]
        BY <2>3, <2>5, <3>1 DEF Inv, Matches
      <4> QED
        <5>1. \A n \in Messages : pid[n] = inbox[k].id => out'[n] = out[n] /\ pid'[n] = pid[n]
          BY <2>1, <2>8, <4>1
        <5>2. Qos2 \subseteq Messages
          BY Constants
        <5> QED
          BY <2>1, <2>8, <4>1, <5>1, <5>2 DEF InboxPacket, IsExchange
    <3>2. CASE k \notin 1 .. Len(inbox)
      <4>1. inbox'[k].type = "Pubrel" /\ inbox'[k].id = p.id /\ p.type = "Pubrec"
        BY <2>5, <2>6, <3>2
      <4>2. m \in Qos2 /\ out'[m] = "released" /\ pid'[m] = p.id
        BY <2>1, <2>2, <4>1
      <4> QED
        BY <4>1, <4>2 DEF InboxPacket, IsExchange
    <3> QED
      BY <3>1, <3>2
  <2>10. ASSUME NEW q, ReplyPacket(q), q.id # p.id
         PROVE  /\ q.type = "Puback" => \E n \in Qos1 : out'[n] = "sent" /\ pid'[n] = q.id
                /\ q.type = "Pubrec" => \E n \in Qos2 : /\ out'[n] = "sent" /\ pid'[n] = q.id
                                                        /\ pending'[q.id] \in {n, NoMsg}
                /\ q.type = "Pubcomp" => \E n \in Qos2 : out'[n] = "released" /\ pid'[n] = q.id
    <3>1. \A n \in Messages : pid[n] = q.id => out'[n] = out[n] /\ pid'[n] = q.id
      BY <2>1, <2>8, <2>10
    <3>2. pending'[q.id] = pending[q.id] /\ Qos1 \subseteq Messages /\ Qos2 \subseteq Messages
      BY <1>1, Constants
    <3>3. q.type = "Puback" => \E n \in Qos1 : out'[n] = "sent" /\ pid'[n] = q.id
      BY <2>10, <3>1, <3>2 DEF ReplyPacket, IsExchange
    <3>4. q.type = "Pubrec" => \E n \in Qos2 : /\ out'[n] = "sent" /\ pid'[n] = q.id
                                               /\ pending'[q.id] \in {n, NoMsg}
      BY <2>10, <3>1, <3>2 DEF ReplyPacket
    <3>5. q.type = "Pubcomp" => \E n \in Qos2 : out'[n] = "released" /\ pid'[n] = q.id
      BY <2>10, <3>1, <3>2 DEF ReplyPacket, IsExchange
    <3> QED
      BY <3>3, <3>4, <3>5
  <2>11. Matches'
    <3>1. \A k \in 1 .. Len(msg') : ReplyPacket(msg[k])'
      <4> SUFFICES ASSUME NEW k \in 1 .. Len(msg')
                   PROVE  ReplyPacket(msg[k])'
        OBVIOUS
      <4>1. ReplyPacket(msg[k + 1]) /\ msg[k + 1].id # p.id /\ msg'[k] = msg[k + 1]
        BY <1>1, <2>3 DEF Inv, Matches
      <4> QED
        BY <2>1, <2>10, <4>1 DEF ReplyPacket, IsExchange
    <3>2. resp' # NoPacket => ReplyPacket(resp)'
      <4> SUFFICES ASSUME resp' # NoPacket
                   PROVE  ReplyPacket(resp)'
        OBVIOUS
      <4>1. ReplyPacket(resp) /\ resp.id # p.id /\ resp' = resp
        BY <1>1, <2>3 DEF Inv, Matches
      <4> QED
        BY <2>1, <2>10, <4>1 DEF ReplyPacket, IsExchange
    <3> QED
      BY <2>9, <3>1, <3>2 DEF Matches, NoPacket
  <2>12. OnePacket'
    <3>0. \A i \in 1 .. Len(inbox') : \/ i \in 1 .. Len(inbox) /\ inbox'[i].id = inbox[i].id
                                      \/ inbox'[i].id = p.id /\ i = Len(inbox) + 1
      BY <2>5, <2>6
    <3>1. ASSUME NEW i \in 1 .. Len(inbox'), NEW j \in 1 .. Len(inbox'), inbox'[i].id = inbox'[j].id
          PROVE  i = j \/ inbox'[i].id = 0
      <4>1. CASE i \in 1 .. Len(inbox) /\ j \in 1 .. Len(inbox)
                 /\ inbox'[i].id = inbox[i].id /\ inbox'[j].id = inbox[j].id
        BY <3>1, <4>1 DEF Inv, OnePacket
      <4>2. CASE \/ inbox'[i].id = p.id /\ i = Len(inbox) + 1
                 \/ inbox'[j].id = p.id /\ j = Len(inbox) + 1
        BY <2>3, <3>0, <3>1, <4>2
      <4> QED
        BY <3>0, <4>1, <4>2
    <3>2. \A i, j \in 1 .. Len(msg') : msg'[i].id = msg'[j].id => i = j
      BY OneReplyLeft
    <3>3. ASSUME NEW i \in 1 .. Len(inbox'), NEW j \in 1 .. Len(msg')
          PROVE  inbox'[i].id # msg'[j].id
      <4>1. msg'[j].id # p.id
        BY <2>3
      <4>2. ASSUME i \in 1 .. Len(inbox)
            PROVE  inbox[i].id # msg'[j].id
        BY <4>2, OneReplyLeft
      <4> QED
        BY <3>0, <4>1, <4>2
    <3>4. resp' # NoPacket => /\ \A i \in 1 .. Len(inbox') : inbox'[i].id # resp'.id
                              /\ \A j \in 1 .. Len(msg') : msg'[j].id # resp'.id
      <4> SUFFICES ASSUME resp # NoPacket
                   PROVE  /\ \A i \in 1 .. Len(inbox') : inbox'[i].id # resp.id
                          /\ \A j \in 1 .. Len(msg') : msg'[j].id # resp.id
        BY <1>1
      <4>1. /\ \A i \in 1 .. Len(inbox) : inbox[i].id # resp.id
            /\ \A j \in 1 .. Len(msg) : msg[j].id # resp.id
            /\ resp.id # p.id
        BY <2>3 DEF Inv, OnePacket
      <4>2. \A i \in 1 .. Len(inbox') : inbox'[i].id # resp.id
        BY <3>0, <4>1
      <4> QED
        BY <1>1, <4>1, <4>2
    <3> QED
      BY <3>1, <3>2, <3>3, <3>4 DEF OnePacket, NoPacket
  <2>13. Cache'
    <3>1. \A n \in Messages : out'[n] = "released" => pending[pid'[n]] \in {n, NoMsg}
      BY <2>1, <2>2 DEF Inv, Cache
    <3>2. \A id \in Ids : pending[id] # NoMsg => pending[id] \in Messages
      BY Constants DEF Inv, TypeOK
    <3>3. \A id \in Ids : pending[id] # NoMsg =>
              \/ out'[pending[id]] \in {"lost", "done"}
              \/ out'[pending[id]] \in {"sent", "released"} /\ pid'[pending[id]] = id
      BY <2>1, <2>2, <3>2 DEF Inv, Cache
    <3> QED
      BY <1>1, <3>1, <3>3 DEF Inv, Cache
  <2>14. HandedOnce'
    BY <1>1, <2>1, <2>2, Constants DEF Inv, HandedOnce
  <2> QED
    BY <1>2, <2>7, <2>11, <2>12, <2>13, <2>14
<1> QED
  BY <1>3, <1>4

\* A new packet behind those in the inbox.
LEMMA InboxGrows ==
    ASSUME TypeOK, NEW e \in Packets(InboxTypes), inbox' = Append(inbox, e)
    PROVE  /\ Len(inbox) \in Nat /\ Len(inbox') = Len(inbox) + 1
           /\ \A k \in 1 .. Len(inbox) : inbox'[k] = inbox[k]
           /\ inbox'[Len(inbox) + 1] = e
           /\ \A k \in 1 .. Len(inbox') : k \in 1 .. Len(inbox) \/ k = Len(inbox) + 1
<1>1. inbox \in Seq(Packets(InboxTypes))
  BY DEF TypeOK, InboxTypes
<1>2. /\ Len(inbox) \in Nat /\ Len(inbox') = Len(inbox) + 1
      /\ \A k \in 1 .. Len(inbox) : inbox'[k] = inbox[k]
      /\ inbox'[Len(inbox) + 1] = e
  BY <1>1, AppendIs
<1> QED
  BY <1>2

LEMMA Published ==
    ASSUME Inv, NEW m \in Messages, NEW id \in Ids \cup {0}, Publish(m, id)
    PROVE  Quiet' /\ Exchanges' /\ Matches' /\ OnePacket' /\ Cache' /\ HandedOnce'
<1>1. /\ link = "up" /\ out[m] = "new"
      /\ UNCHANGED <<pending, resp, msg, handed, link>>
      /\ inbox' = Append(inbox, Packet("Publish", id, m))
  BY DEF Publish, clientVars
<1>2. /\ m \in Qos0 => id = 0
      /\ m \notin Qos0 => id \in Ids /\ \A n \in InFlight : pid[n] # id
      /\ \A n \in Messages : out'[n] = IF n # m THEN out[n] ELSE IF m \in Qos0 THEN "done" ELSE "sent"
      /\ \A n \in Messages : pid'[n] = IF n = m THEN id ELSE pid[n]
      /\ Packet("Publish", id, m) \in Packets(InboxTypes)
  BY PublishIs DEF Inv, TypeOK
<1>3. /\ Len(inbox) \in Nat /\ Len(inbox') = Len(inbox) + 1
      /\ \A k \in 1 .. Len(inbox) : inbox'[k] = inbox[k]
      /\ inbox'[Len(inbox) + 1] = Packet("Publish", id, m)
      /\ \A k \in 1 .. Len(inbox') : k \in 1 .. Len(inbox) \/ k = Len(inbox) + 1
  BY <1>1, <1>2, InboxGrows DEF Inv
<1>4. LET p == Packet("Publish", id, m) IN p.type = "Publish" /\ p.id = id /\ p.m = m
  BY DEF Packet
<1>5. m \notin InFlight
  BY <1>1 DEF InFlight
<1>6. Quiet'
  BY <1>1 DEF Quiet
<1>7. Exchanges'
  BY <1>2, <1>5, Constants DEF Inv, Exchanges, InFlight
<1>8. \A k \in 1 .. Len(inbox') : InboxPacket(inbox[k])'
  <2> SUFFICES ASSUME NEW k \in 1 .. Len(inbox')
               PROVE  InboxPacket(inbox[k])'
    OBVIOUS
  <2>1. CASE k \in 1 .. Len(inbox)
    <3>1. InboxPacket(inbox[k]) /\ inbox'[k] = inbox[k]
      BY <1>3, <2>1 DEF Inv, Matches
    <3> QED
      BY <1>1, <1>2, <3>1, Constants DEF InboxPacket, IsExchange
  <2>2. CASE k = Len(inbox) + 1
    BY <1>2, <1>3, <1>4, <2>2 DEF InboxPacket
  <2> QED
    BY <1>3, <2>1, <2>2
<1>9. Matches'
  <2>0. /\ \A n \in Messages : out[n] # "new" => out'[n] = out[n] /\ pid'[n] = pid[n]
        /\ Qos1 \subseteq Messages /\ Qos2 \subseteq Messages
    BY <1>1, <1>2, Constants
  <2>1. \A k \in 1 .. Len(msg) : ReplyPacket(msg[k])'
    <3> SUFFICES ASSUME NEW k \in 1 .. Len(msg)
                 PROVE  ReplyPacket(msg[k])'
      OBVIOUS
    <3>1. ReplyPacket(msg[k])
      BY DEF Inv, Matches
    <3> QED
      BY <1>1, <2>0, <3>1 DEF ReplyPacket, IsExchange
  <2>2. resp # NoPacket => ReplyPacket(resp)'
    BY <1>1, <2>0 DEF Inv, Matches, ReplyPacket, IsExchange
  <2> QED
    BY <1>1, <1>8, <2>1, <2>2 DEF Matches, NoPacket
<1>10. OnePacket'
  <2>1. /\ \A k \in 1 .. Len(inbox) : inbox[k].id # id \/ id = 0
        /\ \A k \in 1 .. Len(msg) : msg[k].id # id
        /\ resp # NoPacket => resp.id # id
    BY <1>2, PacketsInUse
  <2>2. \A i, j \in 1 .. Len(inbox') : inbox'[i].id = inbox'[j].id => i = j \/ inbox'[i].id = 0
    BY <1>3, <1>4, <2>1 DEF Inv, OnePacket
  <2>3. \A i \in 1 .. Len(inbox'), j \in 1 .. Len(msg) : inbox'[i].id # msg[j].id
    BY <1>3, <1>4, <2>1 DEF Inv, OnePacket
  <2>4. resp # NoPacket => \A i \in 1 .. Len(inbox') : inbox'[i].id # resp.id
    BY <1>3, <1>4, <2>1 DEF Inv, OnePacket
  <2> QED
    BY <1>1, <2>2, <2>3, <2>4 DEF Inv, OnePacket, NoPacket
<1>11. Cache'
  <2>1. ASSUME NEW i \in Ids, pending[i] # NoMsg
        PROVE  pending[i] \in Messages /\ pending[i] # m
    <3>1. pending[i] \in Messages
      BY <2>1, Constants DEF Inv, TypeOK
    <3>2. out[pending[i]] \in {"lost", "done", "sent", "released"}
      BY <2>1 DEF Inv, Cache
    <3> QED
      BY <1>1, <3>1, <3>2
  <2> QED
    BY <1>1, <1>2, <2>1 DEF Inv, Cache
<1>12. HandedOnce'
  BY <1>1, <1>2, Constants DEF Inv, HandedOnce
<1> QED
  BY <1>6, <1>7, <1>9, <1>10, <1>11, <1>12

\* SUBSCRIBE, SUBACK and UNSUBACK, a loss, and what is not seen.
LEMMA OtherSteps ==
    ASSUME Inv, Subscribe \/ SubscribeAnswered \/ Unsubscribe \/ LinkBreaks \/ UNCHANGED vars
    PROVE  Quiet' /\ Exchanges' /\ Matches' /\ OnePacket' /\ Cache' /\ HandedOnce'
<1>1. UNCHANGED <<pending, resp, msg, handed, out, pid>>
  BY DEF Subscribe, SubscribeAnswered, Unsubscribe, LinkBreaks, vars, clientVars, serverVars
<1>2. Exchanges' /\ Cache' /\ HandedOnce'
  BY <1>1 DEF Inv, Exchanges, InFlight, Cache, HandedOnce
<1>3. \A k \in 1 .. Len(msg) : ReplyPacket(msg[k])'
  BY <1>1 DEF Inv, Matches, ReplyPacket, IsExchange
<1>4. resp # NoPacket => ReplyPacket(resp)'
  BY <1>1 DEF Inv, Matches, ReplyPacket, IsExchange
<1>5. CASE UNCHANGED inbox
  <2>1. \A k \in 1 .. Len(inbox') : InboxPacket(inbox[k])'
    BY <1>1, <1>5 DEF Inv, Matches, InboxPacket, IsExchange
  <2>2. Matches' /\ OnePacket'
    BY <1>1, <1>3, <1>4, <1>5, <2>1 DEF Inv, Matches, OnePacket, NoPacket
  <2>3. Quiet'
    BY <1>1, <1>5 DEF Inv, Quiet, NoPacket, Subscribe, SubscribeAnswered, Unsubscribe, LinkBreaks,
         vars, clientVars, serverVars
  <2> QED
    BY <1>2, <2>2, <2>3
<1>6. CASE SubscribeAnswered \/ Unsubscribe
  <2>1. PICK type \in {"Suback", "Unsuback"} : inbox' = Append(inbox, Signal(type, 0))
    BY <1>6 DEF SubscribeAnswered, Unsubscribe
  <2>2. Signal(type, 0) \in Packets(InboxTypes) /\ Signal(type, 0).type = type /\ Signal(type, 0).id = 0
    BY <2>1, PacketType DEF Signal, Packet, InboxTypes
  <2>3. /\ Len(inbox) \in Nat /\ Len(inbox') = Len(inbox) + 1
        /\ \A k \in 1 .. Len(inbox) : inbox'[k] = inbox[k]
        /\ inbox'[Len(inbox) + 1] = Signal(type, 0)
        /\ \A k \in 1 .. Len(inbox') : k \in 1 .. Len(inbox) \/ k = Len(inbox) + 1
    BY <2>1, <2>2, InboxGrows DEF Inv
  <2>4. \A k \in 1 .. Len(inbox') : InboxPacket(inbox[k])'
    <3> SUFFICES ASSUME NEW k \in 1 .. Len(inbox')
                 PROVE  InboxPacket(inbox[k])'
      OBVIOUS
    <3>1. CASE k \in 1 .. Len(inbox)
      BY <1>1, <2>3, <3>1 DEF Inv, Matches, InboxPacket, IsExchange
    <3>2. CASE k = Len(inbox) + 1
      BY <2>1, <2>2, <2>3, <3>2 DEF InboxPacket
    <3> QED
      BY <2>3, <3>1, <3>2
  <2>5. Matches'
    BY <1>1, <1>3, <1>4, <2>4 DEF Matches, NoPacket
  <2>6. /\ \A i, j \in 1 .. Len(inbox') : inbox'[i].id = inbox'[j].id => i = j \/ inbox'[i].id = 0
        /\ \A i \in 1 .. Len(inbox'), j \in 1 .. Len(msg) : inbox'[i].id # msg[j].id
        /\ resp # NoPacket => \A i \in 1 .. Len(inbox') : inbox'[i].id # resp.id
    <3>0. /\ \A k \in 1 .. Len(inbox') : \/ k \in 1 .. Len(inbox) /\ inbox'[k] = inbox[k]
                                         \/ inbox'[k].id = 0
          /\ \A j \in 1 .. Len(msg) : msg[j].id # 0
          /\ resp # NoPacket => resp.id # 0
      BY <2>2, <2>3, PacketsInUse
    <3>1. ASSUME NEW i \in 1 .. Len(inbox'), NEW j \in 1 .. Len(inbox'), inbox'[i].id = inbox'[j].id
          PROVE  i = j \/ inbox'[i].id = 0
      BY <3>0, <3>1 DEF Inv, OnePacket
    <3>2. ASSUME NEW i \in 1 .. Len(inbox'), NEW j \in 1 .. Len(msg)
          PROVE  inbox'[i].id # msg[j].id
      BY <3>0 DEF Inv, OnePacket
    <3>3. ASSUME resp # NoPacket, NEW i \in 1 .. Len(inbox')
          PROVE  inbox'[i].id # resp.id
      BY <3>0, <3>3 DEF Inv, OnePacket
    <3> QED
      BY <3>1, <3>2, <3>3
  <2>7. OnePacket'
    BY <1>1, <2>6 DEF Inv, OnePacket, NoPacket
  <2>8. Quiet'
    BY <1>6 DEF Quiet, SubscribeAnswered, Unsubscribe
  <2> QED
    BY <1>2, <2>5, <2>7, <2>8
<1> QED
  BY <1>5, <1>6 DEF Subscribe, LinkBreaks, vars, clientVars

\* The connection ends with all that was under way.
LEMMA Ended ==
    ASSUME Inv, TasksEnd
    PROVE  Quiet' /\ Exchanges' /\ Matches' /\ OnePacket' /\ Cache' /\ HandedOnce'
<1>1. /\ UNCHANGED <<pending, handed, out, pid>>
      /\ inbox' = <<>> /\ resp' = NoPacket /\ msg' = <<>>
  BY DEF TasksEnd, serverVars
<1>2. Exchanges' /\ Cache' /\ HandedOnce'
  BY <1>1 DEF Inv, Exchanges, InFlight, Cache, HandedOnce
<1>3. Quiet' /\ Matches' /\ OnePacket'
  BY <1>1 DEF Quiet, Matches, OnePacket, NoPacket
<1> QED
  BY <1>2, <1>3

LEMMA SessionResumed ==
    ASSUME Inv, Resumed
    PROVE  Quiet' /\ Exchanges' /\ Matches' /\ OnePacket' /\ Cache' /\ HandedOnce'
<1>1. /\ UNCHANGED <<pending, handed, resp, msg, out, pid>>
      /\ resp = NoPacket /\ msg = <<>> /\ link' = "up"
  BY DEF Resumed, clientVars, serverVars, Inv, Quiet
<1>2. /\ \A k \in 1 .. Len(inbox') : \E m \in InFlight : inbox'[k] = Again(m)
      /\ \A j, k \in 1 .. Len(inbox') : inbox'[j].id = inbox'[k].id => j = k
  BY ResumedIs DEF Inv
<1>3. Exchanges' /\ Cache' /\ HandedOnce'
  BY <1>1 DEF Inv, Exchanges, InFlight, Cache, HandedOnce
<1>4. Quiet' /\ OnePacket'
  BY <1>1, <1>2 DEF Quiet, OnePacket, NoPacket
<1>5. \A k \in 1 .. Len(inbox') : InboxPacket(inbox[k])'
  <2> SUFFICES ASSUME NEW k \in 1 .. Len(inbox')
               PROVE  InboxPacket(inbox[k])'
    OBVIOUS
  <2>1. PICK m \in InFlight : inbox'[k] = Again(m)
    BY <1>2
  <2>2. CASE out[m] = "sent"
    <3>1. inbox'[k].type = "Publish" /\ inbox'[k].m = m /\ inbox'[k].id = pid[m]
      BY <2>1, <2>2 DEF Again, Packet
    <3> QED
      BY <1>1, <2>2, <3>1 DEF InboxPacket, InFlight, Inv, Exchanges
  <2>3. CASE out[m] # "sent"
    <3>1. inbox'[k].type = "Pubrel" /\ inbox'[k].id = pid[m]
      BY <2>1, <2>3 DEF Again, Packet, Signal
    <3>2. out[m] = "released" /\ m \in Qos2
      BY <2>3 DEF InFlight, Inv, Exchanges
    <3> QED
      BY <1>1, <3>1, <3>2 DEF InboxPacket, IsExchange
  <2> QED
    BY <2>2, <2>3
<1>6. Matches'
  BY <1>1, <1>5 DEF Matches, NoPacket
<1> QED
  BY <1>3, <1>4, <1>6

\* A new session: what was in flight is lost, though the cache may still hold it.
LEMMA SessionLost ==
    ASSUME Inv, Connected
    PROVE  Quiet' /\ Exchanges' /\ Matches' /\ OnePacket' /\ Cache' /\ HandedOnce'
<1>1. /\ UNCHANGED <<pending, handed, inbox, resp, msg>> /\ link' = "up"
      /\ resp = NoPacket /\ msg = <<>> /\ inbox = <<>>
      /\ \A m \in Messages : out'[m] = IF m \in InFlight THEN "lost" ELSE out[m]
  BY DEF Connected, Inv, Quiet
<1>2. Quiet' /\ OnePacket' /\ Matches'
  BY <1>1 DEF Quiet, OnePacket, Matches, NoPacket
<1>3. \A m \in Messages : out'[m] \notin {"sent", "released"}
  BY <1>1 DEF InFlight
<1>4. Exchanges'
  BY <1>1, <1>3 DEF Inv, Exchanges, InFlight
<1>5. Cache'
  <2>1. ASSUME NEW id \in Ids, pending[id] # NoMsg
        PROVE  out'[pending[id]] \in {"lost", "done"}
    <3>1. pending[id] \in Messages
      BY <2>1, Constants DEF Inv, TypeOK
    <3>2. out[pending[id]] \in {"lost", "done", "sent", "released"}
      BY <2>1 DEF Inv, Cache
    <3> QED
      BY <1>1, <3>1, <3>2 DEF InFlight
  <2> QED
    BY <1>1, <1>3, <2>1 DEF Inv, Cache
<1>6. HandedOnce'
  BY <1>1, Constants DEF Inv, HandedOnce
<1> QED
  BY <1>2, <1>4, <1>5, <1>6

LEMMA InitInv == Init => Inv
<1> SUFFICES ASSUME Init
             PROVE  Inv
  OBVIOUS
<1>1. TypeOK
  BY InitType
<1>2. Quiet /\ Matches /\ OnePacket
  BY DEF Init, Quiet, Matches, OnePacket
<1>3. Exchanges /\ Cache /\ HandedOnce
  BY Constants DEF Init, Exchanges, InFlight, Cache, HandedOnce
<1> QED
  BY <1>1, <1>2, <1>3 DEF Inv

LEMMA NextInv ==
    ASSUME Inv, [Next]_vars
    PROVE  Inv'
<1>1. TypeOK'
  BY NextType DEF Inv
<1>2. Quiet' /\ Exchanges' /\ Matches' /\ OnePacket' /\ Cache' /\ HandedOnce'
  <2>1. CASE ReadLoop
    BY <2>1, ReadOther, ReadPublish1, ReadPublish2, ReadPubrel, SentOrExpired DEF ReadLoop
  <2>2. CASE WriteMsg
    BY <2>2, Written
  <2>3. CASE \E id \in Ids : Expire(id)
    BY <2>3, SentOrExpired
  <2>4. CASE \E m \in Messages, id \in Ids \cup {0} : Publish(m, id)
    BY <2>4, Published
  <2>5. CASE Subscribe \/ SubscribeAnswered \/ Unsubscribe \/ LinkBreaks \/ Rest \/ UNCHANGED vars
    BY <2>5, OtherSteps DEF Rest
  <2>6. CASE TasksEnd \/ Resumed \/ Connected
    BY <2>6, Ended, SessionResumed, SessionLost
  <2> QED
    BY <2>1, <2>2, <2>3, <2>4, <2>5, <2>6 DEF Next
<1> QED
  BY <1>1, <1>2 DEF Inv

LEMMA Invariant == Spec => []Inv
BY InitInv, NextInv, PTL DEF Spec

------------------------------------------------------------------------------
(* The theorems. *)

(***************************************************************************)
(* The variables of the read loop, the cache and the server keep their     *)
(* types: the msg channel stays within its capacity and pending_packets    *)
(* holds messages of quality of service 2 only.                            *)
(***************************************************************************)
THEOREM TypeCorrect == Spec => []TypeOK
<1>1. Inv => TypeOK
  BY DEF Inv
<1> QED
  BY <1>1, Invariant, PTL

(***************************************************************************)
(* handle_pubrel hands a QoS 2 message over once at most, in whatever step *)
(* of its exchange the connection was lost, and however often.             *)
(***************************************************************************)
THEOREM HandedAtMostOnce == Spec => []AtMostOnce
<1>1. Inv => AtMostOnce
  <2> SUFFICES ASSUME Inv, NEW m \in Qos2
               PROVE  handed[m] <= 1
    BY DEF AtMostOnce
  <2>1. handed[m] = 0 \/ handed[m] = 1
    BY DEF Inv, HandedOnce
  <2> QED
    BY <2>1
<1> QED
  BY <1>1, Invariant, PTL

(***************************************************************************)
(* A message of a session that is over is never handed over, although      *)
(* pending_packets outlives the session: handle_publish replaces it before *)
(* handle_pubrel can find it.                                              *)
(***************************************************************************)
THEOREM NeverStale == Spec => NoStaleDelivery
<1>1. ASSUME Inv, [Next]_vars, NEW m \in Messages, out[m] = "lost"
      PROVE  handed'[m] = handed[m]
  <2>1. CASE HandlePublish0 \/ HandlePublish1
    <3> DEFINE p == Head(inbox)
    <3>1. Receive("Publish") /\ p.m \in Qos0 \cup Qos1 /\ Hand(p.m)
      BY <2>1 DEF HandlePublish0, HandlePublish1
    <3>2. InboxPacket(p) /\ p.type = "Publish"
      BY <1>1, <3>1, Received DEF Inv, Matches
    <3>3. p.m # m
      BY <1>1, <3>1, <3>2, Constants DEF InboxPacket, Inv, Exchanges
    <3> QED
      BY <1>1, <3>1, <3>3 DEF Hand, Inv, TypeOK
  <2>2. CASE HandlePubrel
    <3> DEFINE id == Head(inbox).id
    <3>1. \E n \in Qos2 : out[n] = "released" /\ pending[id] \in {n, NoMsg}
      BY <1>1, <2>2, PubrelIs
    <3>2. CASE pending[id] = NoMsg
      BY <2>2, <3>2 DEF HandlePubrel
    <3>3. CASE pending[id] # NoMsg
      <4>1. Hand(pending[id]) /\ pending[id] # m
        BY <1>1, <2>2, <3>1, <3>3 DEF HandlePubrel
      <4> QED
        BY <1>1, <4>1 DEF Hand, Inv, TypeOK
    <3> QED
      BY <3>2, <3>3
  <2>3. CASE ~(HandlePublish0 \/ HandlePublish1 \/ HandlePubrel)
    <3>1. CASE ReadLoop
      BY <2>3, <3>1 DEF ReadLoop, HandlePublish2, HandleSuback, HandleUnsuback, SendResponse
    <3>2. CASE ~ReadLoop
      BY <1>1, <3>2 DEF Next, WriteMsg, Expire, Publish, Subscribe, SubscribeAnswered, Unsubscribe,
           LinkBreaks, TasksEnd, Resumed, Connected, Rest, vars, clientVars
    <3> QED
      BY <3>1, <3>2
  <2> QED
    BY <2>1, <2>2, <2>3
<1>2. Inv /\ [Next]_vars => [\A m \in Messages : out[m] = "lost" => handed'[m] = handed[m]]_vars
  BY <1>1
<1> QED
  BY <1>2, Invariant, PTL DEF Spec, NoStaleDelivery

------------------------------------------------------------------------------
(* What is acknowledged was handed over. *)

\* Messages that were handed over or excused stay so.
LEMMA OnlyMore ==
    ASSUME Inv, [Next]_vars
    PROVE  excused \subseteq excused' /\ \A m \in Messages : handed'[m] >= handed[m] /\ handed[m] \in Nat
<1>1. excused \subseteq excused'
  BY DEF Next, ReadLoop, HandlePublish0, HandlePublish1, HandlePublish2, HandlePubrel, HandleSuback,
       HandleUnsuback, SendResponse, WriteMsg, Expire, Publish, Subscribe, SubscribeAnswered,
       Unsubscribe, LinkBreaks, TasksEnd, Resumed, Connected, Rest, vars
<1>2. \A m \in Messages : handed[m] \in Nat
  BY DEF Inv, TypeOK
<1>3. ASSUME NEW m \in Messages, NEW n, Hand(n)
      PROVE  handed'[m] = handed[m] \/ handed'[m] = handed[m] + 1
  BY <1>3 DEF Hand, Inv, TypeOK
<1>4. handed' = handed \/ \E n : Hand(n)
  <2>1. CASE HandlePubrel
    <3>1. CASE pending[Head(inbox).id] = NoMsg
      BY <2>1, <3>1 DEF HandlePubrel
    <3>2. CASE pending[Head(inbox).id] # NoMsg
      BY <2>1, <3>2 DEF HandlePubrel
    <3> QED
      BY <3>1, <3>2
  <2>2. CASE HandlePublish0 \/ HandlePublish1
    BY <2>2 DEF HandlePublish0, HandlePublish1
  <2>3. CASE ~(HandlePubrel \/ HandlePublish0 \/ HandlePublish1)
    BY <2>3 DEF Next, ReadLoop, HandlePublish2, HandleSuback,
         HandleUnsuback, SendResponse, WriteMsg, Expire, Publish, Subscribe, SubscribeAnswered,
         Unsubscribe, LinkBreaks, TasksEnd, Resumed, Connected, Rest, vars, clientVars
  <2> QED
    BY <2>1, <2>2, <2>3
<1>5. ASSUME NEW m \in Messages
      PROVE  handed'[m] >= handed[m]
  <2>1. handed'[m] = handed[m] \/ handed'[m] = handed[m] + 1
    BY <1>3, <1>4
  <2> QED
    BY <1>2, <2>1
<1> QED
  BY <1>1, <1>2, <1>5

\* A step that changes no exchange keeps what is known of those under way.
LEMMA StillNotDropped ==
    ASSUME Inv, FedInv, [Next]_vars, UNCHANGED <<out, pid>>,
           \A m \in InFlight : pending[pid[m]] = m => HasMessage(m)'
    PROVE  /\ \A m \in InFlight : (HasMessage(m) => HasMessage(m)') /\ (WasHanded(m) => WasHanded(m)')
           /\ \A m \in Messages : out[m] = "released" => HasMessage(m)'
           /\ AcknowledgedWasHanded'
<1>1. excused \subseteq excused' /\ \A m \in Messages : handed'[m] >= handed[m] /\ handed[m] \in Nat
  BY OnlyMore
<1>2. \A m \in Messages : handed'[m] \in Nat
  BY NextType DEF Inv, TypeOK
<1>3. ASSUME NEW m \in InFlight
      PROVE  (HasMessage(m) => HasMessage(m)') /\ (WasHanded(m) => WasHanded(m)')
  <2>1. m \in Messages /\ (handed[m] >= 1 => handed'[m] >= 1)
    BY <1>1, <1>2 DEF InFlight
  <2> QED
    BY <1>1, <2>1 DEF HasMessage, WasHanded
<1>4. \A m \in Messages : out[m] = "released" => HasMessage(m)'
  BY <1>3 DEF FedInv, NotDropped, InFlight
<1>5. AcknowledgedWasHanded'
  <2> SUFFICES ASSUME NEW m \in (Qos1 \cup Qos2) \ excused', out'[m] = "done"
               PROVE  handed'[m] >= 1
    BY DEF AcknowledgedWasHanded
  <2>1. m \in Messages /\ handed[m] >= 1
    BY <1>1, Constants DEF FedInv, AcknowledgedWasHanded
  <2> QED
    BY <1>1, <1>2, <2>1
<1> QED
  BY <1>3, <1>4, <1>5

\* The handler is there when the packet of an exchange that is not excused is
\* at the head of the inbox.
LEMMA HandlerIsThere ==
    ASSUME Inv, FedInv, NEW m \in InFlight \ excused, link # "none", inbox # <<>>,
           Head(inbox).id = pid[m]
    PROVE  handler
<1>1. inbox \in Seq(Packets(InboxTypes))
  BY DEF Inv, TypeOK, InboxTypes
<1>2. Head(inbox) = inbox[1] /\ 1 \in 1 .. Len(inbox) /\ Len(inbox) \in Nat
  BY <1>1, TailIs
<1>3. m \in Messages /\ m \notin Qos0 /\ pid[m] # 0
  BY Constants DEF Inv, Exchanges, InFlight
<1>4. ASSUME NEW j \in 1 .. Len(inbox), NEW k \in 1 .. Len(inbox), j < k,
             inbox[k].type = "Publish", inbox[k].m = m
      PROVE  FALSE
  <2>1. inbox[k].id = pid[m]
    BY <1>3, <1>4 DEF Inv, Matches, InboxPacket
  <2>2. k = 1
    BY <1>2, <1>3, <2>1 DEF Inv, OnePacket
  <2> QED
    BY <1>2, <1>4, <2>2
<1> QED
  BY <1>4 DEF FedInv, Fed

\* Reading what is no UNSUBACK: the handler is there for what follows.
LEMMA StillFed ==
    ASSUME Inv, FedInv, NEW type, Receive(type), UNCHANGED <<link, out, subscribed>>,
           excused' = excused, type # "Unsuback", handler' = (handler \/ type = "Suback")
    PROVE  Fed' /\ Unsubscribing'
<1>1. /\ link # "none" /\ Head(inbox) = inbox[1] /\ Head(inbox).type = type
      /\ Len(inbox) \in Nat /\ 1 \in 1 .. Len(inbox)
      /\ Len(inbox') \in Nat /\ Len(inbox') = Len(inbox) - 1
      /\ \A k \in 1 .. Len(inbox') : k + 1 \in 1 .. Len(inbox) /\ inbox'[k] = inbox[k + 1]
  BY Received DEF Inv
<1>2. InFlight' = InFlight
  BY DEF InFlight
<1>3. Unsubscribing'
  BY <1>1, <1>2 DEF FedInv, Unsubscribing
<1>4. Fed'
  <2> SUFFICES ASSUME NEW m \in InFlight \ excused, ~handler, type # "Suback"
               PROVE  \E j, k \in 1 .. Len(inbox') :
                         /\ j < k /\ inbox'[j].type = "Suback"
                         /\ inbox'[k].type = "Publish" /\ inbox'[k].m = m
    BY <1>2 DEF Fed
  <2>1. PICK j, k \in 1 .. Len(inbox) : /\ j < k /\ inbox[j].type = "Suback"
                                        /\ inbox[k].type = "Publish" /\ inbox[k].m = m
    BY <1>1 DEF FedInv, Fed
  <2>2. j # 1
    BY <1>1, <2>1
  <2>3. j - 1 \in 1 .. Len(inbox') /\ k - 1 \in 1 .. Len(inbox') /\ j - 1 < k - 1
    BY <1>1, <2>1, <2>2
  <2>4. inbox'[j - 1] = inbox[j] /\ inbox'[k - 1] = inbox[k]
    BY <1>1, <2>3
  <2> QED
    BY <2>1, <2>3, <2>4
<1> QED
  BY <1>3, <1>4

\* The replies that were under way keep what is known of their exchanges.
LEMMA StillReplies ==
    ASSUME FedInv, UNCHANGED <<out, pid, msg>>,
           \A m \in InFlight : (HasMessage(m) => HasMessage(m)') /\ (WasHanded(m) => WasHanded(m)')
    PROVE  /\ \A k \in 1 .. Len(msg') : Reply(msg[k])'
           /\ resp # NoPacket /\ UNCHANGED resp => Reply(resp)'
BY DEF FedInv, NotDropped, Reply, InFlight

LEMMA OtherFed ==
    ASSUME Inv, FedInv, HandlePublish0 \/ HandleSuback \/ HandleUnsuback
    PROVE  FedInv'
<1>1. /\ UNCHANGED <<pending, resp, msg, link, out, pid, subscribed, excused>>
      /\ resp = NoPacket /\ resp' = NoPacket /\ [Next]_vars
  BY DEF HandlePublish0, HandleSuback, HandleUnsuback, serverVars, Receive, Next, ReadLoop
<1>2. Fed' /\ Unsubscribing'
  <2>1. CASE HandlePublish0 \/ HandleSuback
    <3>1. PICK type \in {"Publish", "Suback"} : Receive(type) /\ handler' = (handler \/ type = "Suback")
      BY <2>1 DEF HandlePublish0, HandleSuback, Inv, TypeOK
    <3> QED
      BY <1>1, <3>1, StillFed
  <2>2. CASE HandleUnsuback
    <3>1. Receive("Unsuback")
      BY <2>2 DEF HandleUnsuback
    <3>2. inbox[1].type = "Unsuback" /\ 1 \in 1 .. Len(inbox)
          /\ Len(inbox) \in Nat /\ Len(inbox') \in Nat /\ Len(inbox') = Len(inbox) - 1
          /\ \A k \in 1 .. Len(inbox') : k + 1 \in 1 .. Len(inbox) /\ inbox'[k] = inbox[k + 1]
      BY <3>1, Received DEF Inv
    <3>3. ~subscribed /\ InFlight \subseteq excused
      BY <3>2 DEF FedInv, Unsubscribing
    <3> QED
      BY <1>1, <3>3 DEF Fed, Unsubscribing, InFlight
  <2> QED
    BY <2>1, <2>2
<1>3. \A m \in InFlight : pending[pid[m]] = m => HasMessage(m)'
  BY <1>1 DEF HasMessage
<1>4. /\ \A m \in InFlight : (HasMessage(m) => HasMessage(m)') /\ (WasHanded(m) => WasHanded(m)')
      /\ \A m \in Messages : out[m] = "released" => HasMessage(m)'
      /\ AcknowledgedWasHanded'
  BY <1>1, <1>3, StillNotDropped
<1>5. NotDropped'
  BY <1>1, <1>4, StillReplies DEF NotDropped, NoPacket
<1> QED
  BY <1>2, <1>4, <1>5 DEF FedInv

\* What the handlers of PUBLISH and PUBREL have in common: one exchange m is
\* answered.
LEMMA AnsweredFed ==
    ASSUME Inv, FedInv, [Next]_vars, NEW type \in {"Publish", "Pubrel"}, Receive(type),
           UNCHANGED <<handler, msg, link, out, pid, subscribed, excused>>,
           NEW m \in InFlight, pid[m] = Head(inbox).id,
           \A n \in InFlight : pending[pid[n]] = n => HasMessage(n)',
           NEW t \in AckTypes, resp' = Signal(t, pid[m]),
           IF t = "Pubrec" THEN HasMessage(m)' ELSE WasHanded(m)'
    PROVE  FedInv'
<1>1. Fed' /\ Unsubscribing'
  <2>1. type # "Unsuback" /\ type # "Suback" /\ handler' = (handler \/ type = "Suback")
    BY DEF Inv, TypeOK
  <2> QED
    BY <2>1, StillFed
<1>2. /\ \A n \in InFlight : (HasMessage(n) => HasMessage(n)') /\ (WasHanded(n) => WasHanded(n)')
      /\ \A n \in Messages : out[n] = "released" => HasMessage(n)'
      /\ AcknowledgedWasHanded'
  BY StillNotDropped
<1>3. \A k \in 1 .. Len(msg') : Reply(msg[k])'
  BY <1>2, StillReplies
<1>4. resp'.type = t /\ resp'.id = pid[m]
  BY DEF Signal, Packet
<1>5. \A n \in InFlight : pid[n] = pid[m] => n = m
  BY DEF Inv, Exchanges
<1>6. Reply(resp)'
  BY <1>4, <1>5 DEF Reply, InFlight
<1>7. NotDropped'
  BY <1>2, <1>3, <1>6 DEF NotDropped
<1> QED
  BY <1>1, <1>2, <1>7 DEF FedInv

LEMMA PublishFed ==
    ASSUME Inv, FedInv, HandlePublish1 \/ HandlePublish2
    PROVE  FedInv'
<1> DEFINE p == Head(inbox)
<1>1. /\ UNCHANGED <<handler, msg, link, out, pid, subscribed, excused>>
      /\ Receive("Publish") /\ p.m \in Qos1 \cup Qos2 /\ [Next]_vars
  BY DEF HandlePublish1, HandlePublish2, serverVars, Next, ReadLoop
<1>2. p.m \in InFlight /\ out[p.m] = "sent" /\ pid[p.m] = p.id /\ p.id \in Ids
  <2>1. InboxPacket(p) /\ p.type = "Publish"
    BY <1>1, Received DEF Inv, Matches
  <2>2. p.m \in InFlight /\ out[p.m] = "sent" /\ pid[p.m] = p.id
    BY <1>1, <2>1, Constants DEF InboxPacket, InFlight
  <2> QED
    BY <2>2 DEF Inv, Exchanges
<1>3. inbox # <<>> /\ link # "none"
  BY <1>1 DEF Receive
<1> HIDE DEF p
<1> PICK m \in Qos1 \cup Qos2 : m = p.m
  BY <1>1
<1>4. CASE HandlePublish1
  <2>1. Hand(m) /\ UNCHANGED pending /\ resp' = Signal("Puback", p.id)
    BY <1>4 DEF HandlePublish1, p
  <2>2. \A n \in InFlight : pending[pid[n]] = n => HasMessage(n)'
    BY <1>1, <2>1 DEF HasMessage
  <2>3. WasHanded(m)'
    <3>1. CASE m \in excused
      BY <1>1, <3>1 DEF WasHanded
    <3>2. CASE m \notin excused
      <4>1. handler
        BY <1>2, <1>3, <3>2, HandlerIsThere DEF p
      <4>2. handed'[m] = handed[m] + 1 /\ handed[m] \in Nat
        BY <1>2, <2>1, <4>1 DEF Hand, InFlight, Inv, TypeOK
      <4> QED
        BY <4>2 DEF WasHanded
    <3> QED
      BY <3>1, <3>2
  <2> QED
    BY <1>1, <1>2, <2>1, <2>2, <2>3, AnsweredFed DEF AckTypes, p
<1>5. CASE HandlePublish2
  <2>1. pending' = [pending EXCEPT ![p.id] = m] /\ resp' = Signal("Pubrec", p.id)
    BY <1>5 DEF HandlePublish2, p
  <2>2. \A id \in Ids : pending'[id] = IF id = p.id THEN m ELSE pending[id]
    BY <2>1 DEF Inv, TypeOK
  <2>3. HasMessage(m)'
    BY <1>1, <1>2, <2>2 DEF HasMessage
  <2>4. \A n \in InFlight : pending[pid[n]] = n => HasMessage(n)'
    BY <1>1, <1>2, <2>2, <2>3 DEF HasMessage, Inv, Exchanges
  <2> QED
    BY <1>1, <1>2, <2>1, <2>3, <2>4, AnsweredFed DEF AckTypes, p
<1> QED
  BY <1>4, <1>5 DEF HandlePublish1, HandlePublish2

LEMMA PubrelFed ==
    ASSUME Inv, FedInv, HandlePubrel
    PROVE  FedInv'
<1> DEFINE id == Head(inbox).id
<1>1. /\ UNCHANGED <<handler, msg, link, out, pid, subscribed, excused>>
      /\ Receive("Pubrel") /\ [Next]_vars /\ resp' = Signal("Pubcomp", id)
  BY DEF HandlePubrel, serverVars, Next, ReadLoop
<1>2. inbox # <<>> /\ link # "none"
  BY <1>1 DEF Receive
<1>3. id \in Ids /\ pending' = [pending EXCEPT ![id] = NoMsg]
  BY PubrelIs
<1>4. PICK m \in Qos2 : out[m] = "released" /\ pid[m] = id /\ pending[id] \in {m, NoMsg}
  BY PubrelIs
<1>5. m \in InFlight /\ m \in Messages
  BY <1>4, Constants DEF InFlight
<1>6. HasMessage(m)
  BY <1>4, <1>5 DEF FedInv, NotDropped
<1>7. \A i \in Ids : pending'[i] = IF i = id THEN NoMsg ELSE pending[i]
  BY <1>3 DEF Inv, TypeOK
<1>8. WasHanded(m)'
  <2>1. CASE m \in excused
    BY <1>1, <2>1 DEF WasHanded
  <2>2. CASE m \notin excused /\ pending[id] = m
    <3>1. handler
      BY <1>2, <1>4, <1>5, <2>2, HandlerIsThere
    <3>2. Hand(m)
      BY <1>5, <2>2, Constants DEF HandlePubrel
    <3>3. handed'[m] = handed[m] + 1 /\ handed[m] \in Nat
      BY <1>5, <3>1, <3>2 DEF Hand, Inv, TypeOK
    <3> QED
      BY <3>3 DEF WasHanded
  <2>3. CASE handed[m] >= 1
    <3>1. handed'[m] >= handed[m] /\ handed[m] \in Nat /\ handed'[m] \in Nat
      BY <1>1, <1>5, OnlyMore, NextType DEF Inv, TypeOK
    <3> QED
      BY <2>3, <3>1 DEF WasHanded
  <2> QED
    BY <1>4, <1>6, <2>1, <2>2, <2>3 DEF HasMessage
<1> HIDE DEF id
<1>9. \A n \in InFlight : pending[pid[n]] = n => HasMessage(n)'
  <2> SUFFICES ASSUME NEW n \in InFlight, pending[pid[n]] = n
               PROVE  HasMessage(n)'
    OBVIOUS
  <2>1. CASE n = m
    BY <1>8, <2>1 DEF WasHanded, HasMessage
  <2>2. CASE n # m
    <3>1. pid[n] \in Ids /\ pid[n] # id
      BY <1>4, <1>5, <2>2 DEF Inv, Exchanges
    <3> QED
      BY <1>1, <1>7, <3>1 DEF HasMessage
  <2> QED
    BY <2>1, <2>2
<1> QED
  BY <1>1, <1>4, <1>5, <1>8, <1>9, AnsweredFed DEF AckTypes, id

LEMMA SentOrExpiredFed ==
    ASSUME Inv, FedInv, SendResponse \/ \E id \in Ids : Expire(id)
    PROVE  FedInv'
<1>1. UNCHANGED <<handler, handed, link, inbox, out, pid, subscribed>> /\ [Next]_vars
  BY DEF SendResponse, Expire, serverVars, Next, ReadLoop
<1>2. excused \subseteq excused'
  BY <1>1, OnlyMore
<1>3. Fed' /\ Unsubscribing'
  BY <1>1, <1>2 DEF FedInv, Fed, Unsubscribing, InFlight
<1>4. \A m \in InFlight : pending[pid[m]] = m => HasMessage(m)'
  <2>1. CASE SendResponse
    BY <1>1, <2>1 DEF SendResponse, HasMessage
  <2>2. CASE \E id \in Ids : Expire(id)
    <3>1. PICK id \in Ids : Expire(id)
      BY <2>2
    <3>2. /\ \A i \in Ids : pending'[i] = IF i = id THEN NoMsg ELSE pending[i]
          /\ pending[id] \in excused'
      BY <3>1 DEF Expire, Inv, TypeOK
    <3>3. \A m \in InFlight : pid[m] \in Ids
      BY DEF Inv, Exchanges
    <3> QED
      BY <1>1, <3>2, <3>3 DEF HasMessage
  <2> QED
    BY <2>1, <2>2
<1>5. /\ \A m \in InFlight : (HasMessage(m) => HasMessage(m)') /\ (WasHanded(m) => WasHanded(m)')
      /\ \A m \in Messages : out[m] = "released" => HasMessage(m)'
      /\ AcknowledgedWasHanded'
  BY <1>1, <1>4, StillNotDropped
<1>6. NotDropped'
  <2>1. CASE SendResponse
    <3>1. resp # NoPacket /\ msg' = Append(msg, resp) /\ resp' = NoPacket
      BY <2>1 DEF SendResponse
    <3>2. msg \in Seq(Packets(AckTypes)) /\ resp \in Packets(AckTypes)
      BY <3>1 DEF Inv, TypeOK
    <3>3. /\ Len(msg) \in Nat /\ Len(msg') = Len(msg) + 1
          /\ \A k \in 1 .. Len(msg) : msg'[k] = msg[k]
          /\ msg'[Len(msg) + 1] = resp
      BY <3>1, <3>2, AppendIs
    <3>4. \A k \in 1 .. Len(msg') : \/ k \in 1 .. Len(msg) /\ Reply(msg[k]) /\ msg'[k] = msg[k]
                                    \/ Reply(resp) /\ msg'[k] = resp
      BY <3>1, <3>3 DEF FedInv, NotDropped
    <3>5. \A k \in 1 .. Len(msg') : Reply(msg[k])'
      BY <1>1, <1>5, <3>4 DEF Reply, InFlight
    <3> QED
      BY <1>1, <1>5, <3>1, <3>5 DEF NotDropped, NoPacket
  <2>2. CASE \E id \in Ids : Expire(id)
    <3>1. UNCHANGED <<resp, msg>>
      BY <2>2 DEF Expire
    <3> QED
      BY <1>1, <1>5, <3>1, StillReplies DEF NotDropped, NoPacket
  <2> QED
    BY <2>1, <2>2
<1> QED
  BY <1>3, <1>5, <1>6 DEF FedInv

\* The server has read a reply: what it takes for acknowledged was handed over.
LEMMA WrittenFed ==
    ASSUME Inv, FedInv, WriteMsg
    PROVE  FedInv'
<1>1. /\ Len(msg) \in Nat /\ 1 \in 1 .. Len(msg) /\ Head(msg) = msg[1]
      /\ Len(msg') \in Nat /\ Len(msg') = Len(msg) - 1
      /\ \A k \in 1 .. Len(msg') : k + 1 \in 1 .. Len(msg) /\ msg'[k] = msg[k + 1]
      /\ UNCHANGED <<pending, resp, handed, link>> /\ link # "none"
  BY WriteTakes
<1>2. UNCHANGED <<handler, subscribed, excused>>
  BY DEF WriteMsg
<1>3. CASE link = "down"
  <2>1. UNCHANGED <<out, pid, inbox>>
    BY <1>3, WriteTakes
  <2>2. Fed' /\ Unsubscribing' /\ AcknowledgedWasHanded'
    BY <1>1, <1>2, <2>1 DEF FedInv, Fed, Unsubscribing, InFlight, AcknowledgedWasHanded
  <2>3. NotDropped'
    BY <1>1, <1>2, <2>1 DEF FedInv, NotDropped, Reply, InFlight, HasMessage, WasHanded, NoPacket
  <2> QED
    BY <2>2, <2>3 DEF FedInv
<1>4. CASE link # "down"
  <2> DEFINE p == Head(msg)
  <2>1. PICK m \in Qos1 \cup Qos2 :
          /\ p = msg[1] /\ pid[m] = p.id /\ p.id \in Ids
          /\ \/ p.type = "Puback" /\ m \in Qos1 /\ out[m] = "sent"
             \/ p.type = "Pubrec" /\ m \in Qos2 /\ out[m] = "sent" /\ pending[p.id] \in {m, NoMsg}
             \/ p.type = "Pubcomp" /\ m \in Qos2 /\ out[m] = "released"
          /\ \A n \in Messages : out'[n] = IF n # m THEN out[n]
                                           ELSE IF p.type = "Pubrec" THEN "released" ELSE "done"
          /\ \A n \in Messages : pid'[n] = IF n = m /\ p.type # "Pubrec" THEN 0 ELSE pid[n]
          /\ inbox' = IF p.type = "Pubrec" THEN Append(inbox, Signal("Pubrel", p.id)) ELSE inbox
    BY <1>4, WrittenIs
  <2>2. m \in InFlight /\ m \in Messages
    BY <2>1, Constants DEF InFlight
  <2>3. InFlight' \subseteq InFlight
    BY <2>1, <2>2 DEF InFlight
  <2>4. Reply(p)
    BY <1>1, <2>1 DEF FedInv, NotDropped
  <2> HIDE DEF p
  <2>5. IF p.type = "Pubrec" THEN HasMessage(m) ELSE WasHanded(m)
    BY <2>1, <2>2, <2>4 DEF Reply
  <2>6. /\ \A j \in 1 .. Len(msg') : msg'[j].id # p.id
        /\ resp # NoPacket => resp.id # p.id
    <3>1. \A j \in 1 .. Len(msg) : msg[j].id = p.id => j = 1
      BY <1>1, <2>1 DEF Inv, OnePacket
    <3>2. \A j \in 1 .. Len(msg') : j + 1 # 1
      BY <1>1
    <3>3. resp # NoPacket => resp.id # p.id
      BY <1>1, <2>1 DEF Inv, OnePacket
    <3> QED
      BY <1>1, <3>1, <3>2, <3>3
  <2>7. /\ Len(inbox) \in Nat /\ Len(inbox') \in Nat
        /\ \A k \in 1 .. Len(inbox) : k \in 1 .. Len(inbox') /\ inbox'[k] = inbox[k]
        /\ \A k \in 1 .. Len(inbox') : k \in 1 .. Len(inbox) \/ inbox'[k].type = "Pubrel"
    <3>1. CASE p.type = "Pubrec"
      <4>1. inbox' = Append(inbox, Signal("Pubrel", p.id))
        BY <2>1, <3>1
      <4>2. Signal("Pubrel", p.id) \in Packets(InboxTypes) /\ Signal("Pubrel", p.id).type = "Pubrel"
        BY <2>1, PacketType DEF Signal, Packet, InboxTypes
      <4> QED
        BY <4>1, <4>2, InboxGrows DEF Inv
    <3>2. CASE p.type # "Pubrec"
      BY <2>1, <3>2, LenProperties DEF Inv, TypeOK
    <3> QED
      BY <3>1, <3>2
  <2>8. Fed'
    <3> SUFFICES ASSUME NEW n \in InFlight' \ excused', ~handler'
                 PROVE  \E j, k \in 1 .. Len(inbox') :
                           /\ j < k /\ inbox'[j].type = "Suback"
                           /\ inbox'[k].type = "Publish" /\ inbox'[k].m = n
      BY DEF Fed
    <3>1. PICK j, k \in 1 .. Len(inbox) : /\ j < k /\ inbox[j].type = "Suback"
                                          /\ inbox[k].type = "Publish" /\ inbox[k].m = n
      BY <1>1, <1>2, <2>3 DEF FedInv, Fed
    <3> QED
      BY <2>7, <3>1
  <2>9. Unsubscribing'
    BY <1>2, <2>3, <2>7 DEF FedInv, Unsubscribing
  <2>10. \A n \in Messages : out'[n] = "released" => HasMessage(n)'
    BY <1>1, <1>2, <2>1, <2>5 DEF FedInv, NotDropped, HasMessage
  <2>11. \A n \in InFlight' : \/ n # m /\ pid'[n] = pid[n]
                              \/ n = m /\ pid'[n] = p.id
    BY <2>1, <2>2 DEF InFlight
  <2>12. ASSUME NEW n \in InFlight', pid'[n] # p.id
         PROVE  /\ n \in InFlight /\ pid'[n] = pid[n]
                /\ HasMessage(n)' = HasMessage(n) /\ WasHanded(n)' = WasHanded(n)
    BY <1>1, <1>2, <2>3, <2>11, <2>12 DEF HasMessage, WasHanded
  <2>13. \A k \in 1 .. Len(msg') : Reply(msg[k])'
    <3> SUFFICES ASSUME NEW k \in 1 .. Len(msg')
                 PROVE  Reply(msg[k])'
      OBVIOUS
    <3>1. Reply(msg[k + 1]) /\ msg'[k] = msg[k + 1] /\ msg'[k].id # p.id
      BY <1>1, <2>6 DEF FedInv, NotDropped
    <3> QED
      BY <2>12, <3>1 DEF Reply
  <2>14. resp # NoPacket => Reply(resp)'
    <3> SUFFICES ASSUME resp # NoPacket
                 PROVE  Reply(resp)'
      OBVIOUS
    <3>1. Reply(resp) /\ resp' = resp /\ resp.id # p.id
      BY <1>1, <2>6 DEF FedInv, NotDropped
    <3> QED
      BY <2>12, <3>1 DEF Reply
  <2>15. NotDropped'
    BY <1>1, <2>10, <2>13, <2>14 DEF NotDropped, NoPacket
  <2>16. AcknowledgedWasHanded'
    <3> SUFFICES ASSUME NEW n \in (Qos1 \cup Qos2) \ excused, out'[n] = "done"
                 PROVE  handed[n] >= 1
      BY <1>1, <1>2 DEF AcknowledgedWasHanded
    <3>1. CASE n = m
      BY <2>1, <2>2, <2>5, <3>1 DEF WasHanded
    <3>2. CASE n # m
      BY <2>1, <3>2, Constants DEF FedInv, AcknowledgedWasHanded
    <3> QED
      BY <3>1, <3>2
  <2> QED
    BY <2>8, <2>9, <2>15, <2>16 DEF FedInv
<1> QED
  BY <1>3, <1>4

\* A new message is published when its handler is there or on its way.
LEMMA PublishedFed ==
    ASSUME Inv, FedInv, NEW m \in Messages, NEW id \in Ids \cup {0}, Publish(m, id)
    PROVE  FedInv'
<1>1. /\ link = "up" /\ subscribed /\ out[m] = "new"
      /\ UNCHANGED <<pending, handler, resp, msg, handed, link, subscribed>>
      /\ inbox' = Append(inbox, Packet("Publish", id, m))
      /\ excused \subseteq excused'
      /\ Expected \/ m \in Qos0 \/ m \in excused'
  BY DEF Publish, clientVars
<1>2. /\ m \in Qos0 => id = 0
      /\ m \notin Qos0 => id \in Ids /\ \A n \in InFlight : pid[n] # id
      /\ \A n \in Messages : out'[n] = IF n # m THEN out[n] ELSE IF m \in Qos0 THEN "done" ELSE "sent"
      /\ \A n \in Messages : pid'[n] = IF n = m THEN id ELSE pid[n]
      /\ Packet("Publish", id, m) \in Packets(InboxTypes)
  BY PublishIs DEF Inv, TypeOK
<1>3. /\ Len(inbox) \in Nat /\ Len(inbox') = Len(inbox) + 1
      /\ \A k \in 1 .. Len(inbox) : inbox'[k] = inbox[k]
      /\ inbox'[Len(inbox) + 1] = Packet("Publish", id, m)
      /\ \A k \in 1 .. Len(inbox') : k \in 1 .. Len(inbox) \/ k = Len(inbox) + 1
  BY <1>1, <1>2, InboxGrows DEF Inv
<1>4. LET p == Packet("Publish", id, m) IN p.type = "Publish" /\ p.id = id /\ p.m = m
  BY DEF Packet
<1>5. \A n \in InFlight' : \/ n \in InFlight /\ n # m /\ pid'[n] = pid[n]
                           \/ n = m /\ m \notin Qos0 /\ pid'[n] = id
  BY <1>2 DEF InFlight
<1>6. Fed'
  <2> SUFFICES ASSUME NEW n \in InFlight' \ excused', ~handler
               PROVE  \E j, k \in 1 .. Len(inbox') :
                         /\ j < k /\ inbox'[j].type = "Suback"
                         /\ inbox'[k].type = "Publish" /\ inbox'[k].m = n
    BY <1>1 DEF Fed
  <2>1. CASE n = m
    <3>1. PICK j \in 1 .. Len(inbox) : inbox[j].type = "Suback"
      BY <1>1, <1>5, <2>1 DEF Expected
    <3>2. j \in 1 .. Len(inbox') /\ Len(inbox) + 1 \in 1 .. Len(inbox') /\ j < Len(inbox) + 1
      BY <1>3
    <3> QED
      BY <1>3, <1>4, <2>1, <3>1, <3>2
  <2>2. CASE n # m
    <3>1. n \in InFlight \ excused
      BY <1>1, <1>5, <2>2
    <3>2. PICK j, k \in 1 .. Len(inbox) : /\ j < k /\ inbox[j].type = "Suback"
                                          /\ inbox[k].type = "Publish" /\ inbox[k].m = n
      BY <1>1, <3>1 DEF FedInv, Fed
    <3>3. j \in 1 .. Len(inbox') /\ k \in 1 .. Len(inbox')
      BY <1>3
    <3> QED
      BY <1>3, <3>2, <3>3
  <2> QED
    BY <2>1, <2>2
<1>7. Unsubscribing'
  <2>1. \A k \in 1 .. Len(inbox') : inbox'[k].type # "Unsuback"
    BY <1>1, <1>3, <1>4 DEF FedInv, Unsubscribing
  <2> QED
    BY <2>1 DEF Unsubscribing
<1>8. ASSUME NEW n \in InFlight
      PROVE  /\ n # m /\ pid'[n] = pid[n]
             /\ (HasMessage(n) => HasMessage(n)') /\ (WasHanded(n) => WasHanded(n)')
  <2>1. n # m /\ pid'[n] = pid[n]
    BY <1>1, <1>2 DEF InFlight
  <2> QED
    BY <1>1, <2>1 DEF HasMessage, WasHanded
<1>9. /\ \A k \in 1 .. Len(msg) : msg[k].id # id
      /\ resp # NoPacket => resp.id # id
  BY <1>2, PacketsInUse
<1>10. \A k \in 1 .. Len(msg') : Reply(msg[k])'
  <2> SUFFICES ASSUME NEW k \in 1 .. Len(msg)
               PROVE  Reply(msg[k])'
    BY <1>1
  <2>1. Reply(msg[k]) /\ msg'[k] = msg[k]
    BY <1>1 DEF FedInv, NotDropped
  <2> QED
    BY <1>5, <1>8, <1>9, <2>1 DEF Reply
<1>11. resp # NoPacket => Reply(resp)'
  <2> SUFFICES ASSUME resp # NoPacket
               PROVE  Reply(resp)'
    OBVIOUS
  <2>1. Reply(resp) /\ resp' = resp
    BY <1>1 DEF FedInv, NotDropped
  <2> QED
    BY <1>5, <1>8, <1>9, <2>1 DEF Reply
<1>12. \A n \in Messages : out'[n] = "released" => HasMessage(n)'
  <2> SUFFICES ASSUME NEW n \in Messages, out'[n] = "released"
               PROVE  HasMessage(n)'
    OBVIOUS
  <2>1. n \in InFlight /\ out[n] = "released"
    BY <1>2 DEF InFlight
  <2> QED
    BY <1>8, <2>1 DEF FedInv, NotDropped
<1>13. NotDropped'
  BY <1>1, <1>10, <1>11, <1>12 DEF NotDropped, NoPacket
<1>14. AcknowledgedWasHanded'
  BY <1>1, <1>2, Constants DEF FedInv, AcknowledgedWasHanded
<1> QED
  BY <1>6, <1>7, <1>13, <1>14 DEF FedInv

\* Subscribing, unsubscribing, a loss, and what is not seen.
LEMMA OtherStepsFed ==
    ASSUME Inv, FedInv, Subscribe \/ SubscribeAnswered \/ Unsubscribe \/ LinkBreaks \/ UNCHANGED vars
    PROVE  FedInv'
<1>1. UNCHANGED <<pending, handler, resp, msg, handed, out, pid>> /\ excused \subseteq excused'
  BY DEF Subscribe, SubscribeAnswered, Unsubscribe, LinkBreaks, vars, clientVars, serverVars
<1>2. /\ Subscribe \/ SubscribeAnswered \/ Unsubscribe => UNCHANGED link
      /\ LinkBreaks => link # "none"
      /\ UNCHANGED vars => UNCHANGED link
  BY DEF Subscribe, SubscribeAnswered, Unsubscribe, LinkBreaks, vars
<1>3. NotDropped' /\ AcknowledgedWasHanded'
  BY <1>1 DEF FedInv, NotDropped, Reply, HasMessage, WasHanded, InFlight, AcknowledgedWasHanded, NoPacket
<1>4. CASE UNCHANGED inbox
  <2>1. Fed'
    BY <1>1, <1>2, <1>4 DEF FedInv, Fed, InFlight
  <2>2. Unsubscribing'
    <3>1. CASE Subscribe
      BY <1>4, <3>1 DEF Unsubscribing, Subscribe, NoSubAck
    <3>2. CASE UNCHANGED subscribed
      BY <1>1, <1>4, <3>2 DEF FedInv, Unsubscribing, InFlight
    <3>3. CASE Unsubscribe
      BY <1>1, <3>3 DEF Unsubscribe, Unsubscribing, InFlight
    <3> QED
      BY <3>1, <3>2, <3>3 DEF SubscribeAnswered, LinkBreaks, vars, serverVars
  <2> QED
    BY <1>3, <2>1, <2>2 DEF FedInv
<1>5. CASE SubscribeAnswered \/ Unsubscribe
  <2>1. PICK type \in {"Suback", "Unsuback"} :
            /\ inbox' = Append(inbox, Signal(type, 0))
            /\ type = "Unsuback" => ~subscribed' /\ InFlight \subseteq excused'
            /\ type = "Suback" => subscribed' = subscribed
    BY <1>5 DEF SubscribeAnswered, Unsubscribe
  <2>2. Signal(type, 0) \in Packets(InboxTypes) /\ Signal(type, 0).type = type
    BY <2>1, PacketType DEF Signal, Packet, InboxTypes
  <2>3. /\ Len(inbox) \in Nat /\ Len(inbox') = Len(inbox) + 1
        /\ \A k \in 1 .. Len(inbox) : inbox'[k] = inbox[k]
        /\ inbox'[Len(inbox) + 1] = Signal(type, 0)
        /\ \A k \in 1 .. Len(inbox') : k \in 1 .. Len(inbox) \/ k = Len(inbox) + 1
    BY <2>1, <2>2, InboxGrows DEF Inv
  <2>4. Unsubscribing'
    BY <1>1, <2>1, <2>2, <2>3 DEF FedInv, Unsubscribing, InFlight
  <2>5. Fed'
    <3> SUFFICES ASSUME NEW n \in InFlight \ excused, ~handler, link # "none"
                 PROVE  \E j, k \in 1 .. Len(inbox') :
                           /\ j < k /\ inbox'[j].type = "Suback"
                           /\ inbox'[k].type = "Publish" /\ inbox'[k].m = n
      BY <1>1, <1>2, <1>5 DEF Fed, InFlight
    <3>1. PICK j, k \in 1 .. Len(inbox) : /\ j < k /\ inbox[j].type = "Suback"
                                          /\ inbox[k].type = "Publish" /\ inbox[k].m = n
      BY DEF FedInv, Fed
    <3>2. j \in 1 .. Len(inbox') /\ k \in 1 .. Len(inbox')
      BY <2>3
    <3> QED
      BY <2>3, <3>1, <3>2
  <2> QED
    BY <1>3, <2>4, <2>5 DEF FedInv
<1> QED
  BY <1>4, <1>5 DEF Subscribe, LinkBreaks, vars, clientVars

\* A connection ends or begins.
LEMMA LinkFed ==
    ASSUME Inv, FedInv, TasksEnd \/ Resumed \/ Connected
    PROVE  FedInv'
<1>1. UNCHANGED <<pending, handed>> /\ excused \subseteq excused' /\ msg' = <<>> /\ resp' = NoPacket
  BY DEF TasksEnd, Resumed, Connected, clientVars, Inv, Quiet
<1>2. CASE TasksEnd \/ Resumed
  <2>1. UNCHANGED <<out, pid, subscribed>>
    BY <1>2 DEF TasksEnd, Resumed, serverVars
  <2>2. NotDropped' /\ AcknowledgedWasHanded'
    BY <1>1, <2>1 DEF FedInv, NotDropped, HasMessage, AcknowledgedWasHanded, NoPacket
  <2>3. CASE TasksEnd
    BY <2>2, <2>3 DEF FedInv, Fed, Unsubscribing, TasksEnd
  <2>4. CASE Resumed
    <3>1. Fed'
      BY <2>1, <2>4 DEF Fed, Resumed, clientVars, InFlight
    <3>2. \A k \in 1 .. Len(inbox') : \E m \in InFlight : inbox'[k] = Again(m)
      BY <2>4, ResumedIs DEF Inv
    <3>3. \A m \in InFlight : Again(m).type # "Unsuback"
      BY DEF Again, Packet, Signal
    <3>4. Unsubscribing'
      BY <3>2, <3>3 DEF Unsubscribing
    <3> QED
      BY <2>2, <3>1, <3>4 DEF FedInv
  <2> QED
    BY <1>2, <2>3, <2>4
<1>3. CASE Connected
  <2>1. \A m \in Messages : out'[m] = IF m \in InFlight THEN "lost" ELSE out[m]
    BY <1>3 DEF Connected
  <2>2. \A m \in Messages : out'[m] \notin {"sent", "released"} /\ (out'[m] = "done" => out[m] = "done")
    BY <2>1 DEF InFlight
  <2>3. NotDropped'
    BY <1>1, <2>2 DEF NotDropped, NoPacket
  <2>4. AcknowledgedWasHanded'
    BY <1>1, <2>2, Constants DEF FedInv, AcknowledgedWasHanded
  <2>5. InFlight' = {}
    BY <2>2 DEF InFlight
  <2>6. Fed' /\ Unsubscribing'
    BY <1>3, <2>5 DEF Fed, Unsubscribing, Connected, Inv, Quiet
  <2> QED
    BY <2>3, <2>4, <2>6 DEF FedInv
<1> QED
  BY <1>2, <1>3

LEMMA InitFed == Init => FedInv
BY DEF Init, FedInv, Fed, Unsubscribing, NotDropped, AcknowledgedWasHanded, Messages

LEMMA NextFed ==
    ASSUME Inv, FedInv, [Next]_vars
    PROVE  FedInv'
<1>1. CASE ReadLoop
  BY <1>1, OtherFed, PublishFed, PubrelFed, SentOrExpiredFed DEF ReadLoop
<1>2. CASE WriteMsg
  BY <1>2, WrittenFed
<1>3. CASE \E id \in Ids : Expire(id)
  BY <1>3, SentOrExpiredFed
<1>4. CASE \E m \in Messages, id \in Ids \cup {0} : Publish(m, id)
  BY <1>4, PublishedFed
<1>5. CASE Subscribe \/ SubscribeAnswered \/ Unsubscribe \/ LinkBreaks \/ Rest \/ UNCHANGED vars
  BY <1>5, OtherStepsFed DEF Rest
<1>6. CASE TasksEnd \/ Resumed \/ Connected
  BY <1>6, LinkFed
<1> QED
  BY <1>1, <1>2, <1>3, <1>4, <1>5, <1>6 DEF Next

(***************************************************************************)
(* PUBACK and PUBCOMP promise that the handler has the message: only       *)
(* messages that were published before the SUBACK was read, that were in   *)
(* flight when the filter was unsubscribed, or that expired in the cache   *)
(* are acknowledged without.                                               *)
(***************************************************************************)
THEOREM AcknowledgedHanded == Spec => []AcknowledgedWasHanded
<1>1. FedInv => AcknowledgedWasHanded
  BY DEF FedInv
<1> QED
  BY <1>1, Invariant, InitFed, NextFed, PTL DEF Spec
==============================================================================
