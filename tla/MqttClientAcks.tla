---------------------------- MODULE MqttClientAcks ----------------------------
(***************************************************************************)
(* Proofs about the packets in flight: an acknowledgement completes the    *)
(* request it answers and no other, a request that has succeeded stays so, *)
(* it succeeded because the server acted upon it, a SUBACK finds the       *)
(* subscriptions of its request, and block() leaves no handler unfed.      *)
(*                                                                         *)
(* The argument counts the places a packet with an identifier can be in:   *)
(* the call that is about to send it, the outgoing channel, the wire, the  *)
(* inbox, and for QoS 2 the msg channel, the wire and the inbox again.  An *)
(* identifier is in one place at most, so the acknowledgement that frees   *)
(* it leaves nothing of its request behind.                                *)
(***************************************************************************)
EXTENDS MqttClientProofs

Item(at, k, p) == [at |-> at, k |-> k, p |-> p]

Calling(c) == pc \in {"send", "blocked"} /\ c = cur /\ call.kind \in AckedKinds

\* The packets of connection c that carry an identifier, each with its place.
Carried(c) ==
    (IF Calling(c) THEN {Item("call", 0, RequestPacket(call.tok))} ELSE {})
    \cup {Item("outgoing", k, RequestPacket(outgoing[c][k])) :
              k \in {k \in 1 .. Len(outgoing[c]) : token[outgoing[c][k]].kind \in AckedKinds}}
    \cup {Item("msg", k, msg[c][k]) : k \in 1 .. Len(msg[c])}
    \cup {Item("inbox", k, inbox[c][k]) : k \in 1 .. Len(inbox[c])}
    \cup {Item("wire", 0, p) : p \in {p \in wire[c] : p.type # "Disconnect"}}

\* Its identifier is registered for its own request.
Genuine(c) ==
    \A x \in Carried(c) :
        /\ x.p.id \in Ids
        /\ index[c][x.p.id] = x.p.tok
        /\ token[x.p.tok].complete => token[x.p.tok].error = "IOError"

\* It is in one place.
Single(c) == \A x, y \in Carried(c) : x.p.id = y.p.id => x = y

Tracked == \A c \in Conns : supervisor[c] = "run" => Genuine(c) /\ Single(c)

\* What the table of the current State holds.
Table ==
    \A i \in Ids : index[cur][i] # NoToken =>
        /\ token[index[cur][i]].id = i
        /\ token[index[cur][i]].kind \in AckedKinds
        /\ ~Succeeded(index[cur][i])

Numbered == \A t \in Tokens : token[t].id # 0 => token[t].kind \in AckedKinds

\* Token t has not been handed to a write task.
Outside(t) ==
    \A c \in Conns : flushing[c] # t /\ \A k \in 1 .. Len(outgoing[c]) : outgoing[c][k] # t

BeforeSend == pc \in {"get_id", "send", "blocked"}

\* The token of the call in progress.
CallInv ==
    /\ BeforeSend \/ pc = "add_subs" =>
          token[call.tok].kind = call.kind /\ token[call.tok].topics = call.topics
    /\ BeforeSend => Outside(call.tok) /\ ~Succeeded(call.tok)
    /\ pc = "get_id" =>
          token[call.tok].id = 0 /\ ~token[call.tok].complete /\ call.kind \in AckedKinds

Empty(c) == outgoing[c] = <<>> /\ msg[c] = <<>> /\ inbox[c] = <<>> /\ wire[c] = {}

\* Nothing has been asked for on the connection yet: so block() may clean up.
Unused == pc = "spawned" \/ (bpc = "connect" /\ pc = "idle")

Idleness ==
    /\ \A c \in Conns : c > cur => Empty(c)
    /\ Unused => \A c \in Conns : supervisor[c] = "run" => Empty(c)
    /\ \A c \in Conns : read_task[c] # "run" => inbox[c] = <<>>
    /\ bpc = "connect" => pc \in {"idle", "transport", "connack", "spawned"}

AckRest == Table /\ Numbered /\ CallInv /\ Idleness

AckInv == LostInv /\ AckRest /\ Tracked

------------------------------------------------------------------------------
(* What the invariant says of the types, as single facts. *)
LEMMA AckInvTypes ==
    ASSUME LostInv
    PROVE  /\ token \in [Tokens -> TokenStates]
           /\ index \in [States -> [Ids -> Tokens \cup {NoToken}]]
           /\ cur \in States /\ Conns \subseteq States
           /\ outgoing \in [Conns -> Seq(Tokens)] /\ msg \in [Conns -> Seq(Packets({"Pubrel"}))]
           /\ flushing \in [Conns -> Tokens \cup {NoToken}]
           /\ wire \in [Conns -> SUBSET Packets(PacketTypes)]
           /\ inbox \in [Conns -> Seq(Packets(AckTypes))]
           /\ NoToken \notin Tokens
           /\ \A c \in Conns :
                 /\ outgoing[c] \in Seq(Tokens)
                 /\ msg[c] \in Seq(Packets({"Pubrel"}))
                 /\ inbox[c] \in Seq(Packets(AckTypes))
                 /\ wire[c] \subseteq Packets(PacketTypes)
           /\ BeforeSend \/ pc = "add_subs" => call \in Calls /\ call.tok \in Tokens
<1>1. TypeOK /\ CallOK
  BY DEF LostInv, LiveInv, TypeInv
<1>2. /\ token \in [Tokens -> TokenStates]
      /\ index \in [States -> [Ids -> Tokens \cup {NoToken}]]
      /\ cur \in States /\ Conns \subseteq States
      /\ outgoing \in [Conns -> Seq(Tokens)] /\ msg \in [Conns -> Seq(Packets({"Pubrel"}))]
      /\ flushing \in [Conns -> Tokens \cup {NoToken}]
      /\ wire \in [Conns -> SUBSET Packets(PacketTypes)]
      /\ inbox \in [Conns -> Seq(Packets(AckTypes))]
  BY <1>1 DEF TypeOK, StateTypeOK, States, Conns
<1>3. NoToken \notin Tokens
  BY PacketIdsAssumption
<1>4. BeforeSend \/ pc = "add_subs" => call \in Calls /\ call.tok \in Tokens
  BY <1>1 DEF CallOK, Calls, BeforeSend
<1>5. \A c \in Conns : /\ outgoing[c] \in Seq(Tokens)
                       /\ msg[c] \in Seq(Packets({"Pubrel"}))
                       /\ inbox[c] \in Seq(Packets(AckTypes))
                       /\ wire[c] \subseteq Packets(PacketTypes)
  BY <1>2
<1>. QED  BY <1>2, <1>3, <1>4, <1>5

(* The connection whose tasks run is that of `self.state`. *)
LEMMA LiveIsCur ==
    ASSUME LostInv, NEW c \in Conns,
           supervisor[c] = "run" \/ read_task[c] = "run" \/ write_task[c] = "run"
    PROVE  c = cur /\ supervisor[c] = "run"
BY DEF LostInv, LiveInv, OneLiveConnection

(* The places a packet can be in. *)
LEMMA CarriedCases ==
    ASSUME NEW c, NEW x
    PROVE  x \in Carried(c) <=>
              \/ Calling(c) /\ x = Item("call", 0, RequestPacket(call.tok))
              \/ \E k \in 1 .. Len(outgoing[c]) :
                    /\ token[outgoing[c][k]].kind \in AckedKinds
                    /\ x = Item("outgoing", k, RequestPacket(outgoing[c][k]))
              \/ \E k \in 1 .. Len(msg[c]) : x = Item("msg", k, msg[c][k])
              \/ \E k \in 1 .. Len(inbox[c]) : x = Item("inbox", k, inbox[c][k])
              \/ \E p \in wire[c] : p.type # "Disconnect" /\ x = Item("wire", 0, p)
BY Zenon DEF Carried

LEMMA ItemFields ==
    ASSUME NEW at, NEW k, NEW p
    PROVE  Item(at, k, p).at = at /\ Item(at, k, p).k = k /\ Item(at, k, p).p = p
BY DEF Item

\* Where a packet was before the head of queue q was taken.
Shift(q, x) == IF x.at = q THEN Item(q, x.k + 1, x.p) ELSE x

LEMMA ShiftInjective ==
    ASSUME NEW q, NEW x, NEW y,
           x = Item(x.at, x.k, x.p), y = Item(y.at, y.k, y.p),
           x.at = q => x.k \in Nat, y.at = q => y.k \in Nat,
           Shift(q, x) = Shift(q, y)
    PROVE  x = y
<1>1. x.at = y.at
  BY ItemFields DEF Shift
<1>2. CASE x.at = q
  <2>1. Item(q, x.k + 1, x.p) = Item(q, y.k + 1, y.p)
    BY <1>1, <1>2 DEF Shift
  <2>2. x.k + 1 = y.k + 1 /\ x.p = y.p
    BY <2>1 DEF Item
  <2>3. x.k = y.k
    BY <1>1, <1>2, <2>2
  <2>. QED  BY <1>1, <2>2, <2>3
<1>3. CASE x.at # q
  BY <1>1, <1>3 DEF Shift
<1>. QED  BY <1>2, <1>3

(***************************************************************************)
(* The invariant of a connection across a step that moves its packets:     *)
(* src tells where each of them comes from.                                *)
(***************************************************************************)
LEMMA Moves ==
    ASSUME NEW c \in Conns, Genuine(c), Single(c), NEW src,
           \A x \in Carried(c)' :
              /\ src[x] \in Carried(c)
              /\ src[x].p.id = x.p.id /\ src[x].p.tok = x.p.tok
              /\ index'[c][x.p.id] = index[c][x.p.id]
              /\ token'[x.p.tok].complete =>
                    \/ token[x.p.tok].complete /\ token'[x.p.tok].error = token[x.p.tok].error
                    \/ token'[x.p.tok].error = "IOError",
           \A x, y \in Carried(c)' : src[x] = src[y] => x = y
    PROVE  (Genuine(c) /\ Single(c))'
<1>. DEFINE New == Carried(c)'
            Old == Carried(c)
<1>1. /\ \A x \in Old : /\ x.p.id \in Ids
                        /\ index[c][x.p.id] = x.p.tok
                        /\ token[x.p.tok].complete => token[x.p.tok].error = "IOError"
      /\ \A x, y \in Old : x.p.id = y.p.id => x = y
  BY DEF Genuine, Single
<1>2. \A x \in New : /\ x.p.id \in Ids
                     /\ index'[c][x.p.id] = x.p.tok
                     /\ token'[x.p.tok].complete => token'[x.p.tok].error = "IOError"
  <2>. HIDE DEF New, Old
  <2>. SUFFICES ASSUME NEW x \in New
                PROVE  /\ x.p.id \in Ids
                       /\ index'[c][x.p.id] = x.p.tok
                       /\ token'[x.p.tok].complete => token'[x.p.tok].error = "IOError"
    OBVIOUS
  <2>1. /\ src[x] \in Old
        /\ src[x].p.id = x.p.id /\ src[x].p.tok = x.p.tok
        /\ index'[c][x.p.id] = index[c][x.p.id]
    BY DEF New, Old
  <2>2. token'[x.p.tok].complete =>
                    \/ token[x.p.tok].complete /\ token'[x.p.tok].error = token[x.p.tok].error
                    \/ token'[x.p.tok].error = "IOError"
    BY DEF New
  <2>3. /\ src[x].p.id \in Ids
        /\ index[c][src[x].p.id] = src[x].p.tok
        /\ token[src[x].p.tok].complete => token[src[x].p.tok].error = "IOError"
    BY <1>1, <2>1
  <2>4. x.p.id \in Ids /\ index'[c][x.p.id] = x.p.tok
    BY <2>1, <2>3
  <2>5. token[x.p.tok].complete => token[x.p.tok].error = "IOError"
    BY <2>1, <2>3
  <2>. QED  BY <2>2, <2>4, <2>5
<1>3. \A x, y \in New : x.p.id = y.p.id => x = y
  <2>. SUFFICES ASSUME NEW x \in New, NEW y \in New, x.p.id = y.p.id
                PROVE  x = y
    OBVIOUS
  <2>1. src[x] \in Old /\ src[y] \in Old /\ src[x].p.id = src[y].p.id
    OBVIOUS
  <2>2. src[x] = src[y]
    BY <1>1, <2>1
  <2>. QED  BY <2>2
<1>. QED  BY <1>2, <1>3 DEF Genuine, Single

------------------------------------------------------------------------------
(* Steps that give no token another identity. *)
Names ==
    \A t \in Tokens :
        /\ token'[t].kind = token[t].kind
        /\ token'[t].id = token[t].id
        /\ token'[t].topics = token[t].topics

LEMMA NamedPackets ==
    ASSUME Names
    PROVE  \A t \in Tokens : RequestPacket(t)' = RequestPacket(t)
BY DEF Names, RequestPacket, Packet

LEMMA CarriedNow ==
    ASSUME LostInv, NEW c \in Conns, NEW x
    PROVE  x \in Carried(c) <=>
              \/ Calling(c) /\ x = Item("call", 0, RequestPacket(call.tok))
              \/ \E k \in 1 .. Len(outgoing[c]), t \in Tokens :
                    /\ outgoing[c][k] = t
                    /\ token[t].kind \in AckedKinds
                    /\ x = Item("outgoing", k, RequestPacket(t))
              \/ \E k \in 1 .. Len(msg[c]) : x = Item("msg", k, msg[c][k])
              \/ \E k \in 1 .. Len(inbox[c]) : x = Item("inbox", k, inbox[c][k])
              \/ \E p \in wire[c] : p.type # "Disconnect" /\ x = Item("wire", 0, p)
<1>1. \A k \in 1 .. Len(outgoing[c]) : outgoing[c][k] \in Tokens
  BY AckInvTypes
<1>. QED  BY <1>1, CarriedCases

LEMMA CarriedType ==
    ASSUME LostInv, NEW c \in Conns, NEW x \in Carried(c)
    PROVE  /\ x.p.tok \in Tokens
           /\ x = Item(x.at, x.k, x.p)
<1>1. CASE Calling(c) /\ x = Item("call", 0, RequestPacket(call.tok))
  <2>1. call.tok \in Tokens
    BY <1>1, AckInvTypes DEF Calling, BeforeSend
  <2>. QED  BY <1>1, <2>1 DEF Item, RequestPacket, Packet
<1>2. CASE \E k \in 1 .. Len(outgoing[c]), t \in Tokens :
              /\ outgoing[c][k] = t
              /\ token[t].kind \in AckedKinds
              /\ x = Item("outgoing", k, RequestPacket(t))
  BY <1>2 DEF Item, RequestPacket, Packet
<1>3. CASE \E k \in 1 .. Len(msg[c]) : x = Item("msg", k, msg[c][k])
  <2>1. \A k \in 1 .. Len(msg[c]) : msg[c][k] \in Packets({"Pubrel"})
    BY AckInvTypes
  <2>. QED  BY <1>3, <2>1 DEF Item, Packets
<1>4. CASE \E k \in 1 .. Len(inbox[c]) : x = Item("inbox", k, inbox[c][k])
  <2>1. \A k \in 1 .. Len(inbox[c]) : inbox[c][k] \in Packets(AckTypes)
    BY AckInvTypes
  <2>. QED  BY <1>4, <2>1 DEF Item, Packets
<1>5. CASE \E p \in wire[c] : p.type # "Disconnect" /\ x = Item("wire", 0, p)
  <2>1. \A p \in wire[c] : p \in Packets(PacketTypes)
    BY AckInvTypes
  <2>. QED  BY <1>5, <2>1 DEF Item, Packets
<1>. QED  BY <1>1, <1>2, <1>3, <1>4, <1>5, CarriedNow

\* After a step of the tasks or of the network.
LEMMA CarriedNext ==
    ASSUME LostInv, LostInv', Names, UNCHANGED <<pc, call, cur>>, NEW c \in Conns, NEW x
    PROVE  x \in Carried(c)' <=>
              \/ Calling(c) /\ x = Item("call", 0, RequestPacket(call.tok))
              \/ \E k \in 1 .. Len(outgoing'[c]), t \in Tokens :
                    /\ outgoing'[c][k] = t
                    /\ token[t].kind \in AckedKinds
                    /\ x = Item("outgoing", k, RequestPacket(t))
              \/ \E k \in 1 .. Len(msg'[c]) : x = Item("msg", k, msg'[c][k])
              \/ \E k \in 1 .. Len(inbox'[c]) : x = Item("inbox", k, inbox'[c][k])
              \/ \E p \in wire'[c] : p.type # "Disconnect" /\ x = Item("wire", 0, p)
<1>1. \A k \in 1 .. Len(outgoing'[c]) : outgoing'[c][k] \in Tokens
  <2>1. outgoing' \in [Conns -> Seq(Tokens)]
    BY DEF LostInv, LiveInv, TypeInv, TypeOK, StateTypeOK
  <2>. QED  BY <2>1
<1>2. \A t \in Tokens : RequestPacket(t)' = RequestPacket(t) /\ token'[t].kind = token[t].kind
  BY NamedPackets DEF Names
<1>3. Calling(c)' <=> Calling(c)
  BY DEF Calling
<1>4. Calling(c) => call.tok \in Tokens /\ RequestPacket(call.tok)' = RequestPacket(call.tok)
  <2>1. Calling(c) => call.tok \in Tokens
    BY AckInvTypes DEF Calling, BeforeSend
  <2>. QED  BY <2>1 DEF Names, RequestPacket, Packet
<1>5. x \in Carried(c)' <=>
              \/ Calling(c)' /\ x = Item("call", 0, RequestPacket(call.tok)')
              \/ \E k \in 1 .. Len(outgoing'[c]) :
                    /\ token'[outgoing'[c][k]].kind \in AckedKinds
                    /\ x = Item("outgoing", k, RequestPacket(outgoing[c][k])')
              \/ \E k \in 1 .. Len(msg'[c]) : x = Item("msg", k, msg'[c][k])
              \/ \E k \in 1 .. Len(inbox'[c]) : x = Item("inbox", k, inbox'[c][k])
              \/ \E p \in wire'[c] : p.type # "Disconnect" /\ x = Item("wire", 0, p)
  BY Zenon DEF Carried, Item
<1>6. \A k \in 1 .. Len(outgoing'[c]) :
          RequestPacket(outgoing[c][k])' = Packet(token'[outgoing'[c][k]].kind, token'[outgoing'[c][k]].id, outgoing'[c][k])
  BY DEF RequestPacket
<1>7. \A t \in Tokens : RequestPacket(t) = Packet(token'[t].kind, token'[t].id, t)
  BY <1>2 DEF RequestPacket, Names
<1>8. \A k \in 1 .. Len(outgoing'[c]) : RequestPacket(outgoing[c][k])' = RequestPacket(outgoing'[c][k])
  BY <1>1, <1>6, <1>7
<1>. QED  BY <1>1, <1>2, <1>3, <1>4, <1>5, <1>8

(* A packet of queue q moves from its place old to the place new. *)
MovesOne(c, q, old, new) ==
    \A x \in Carried(c)' :
        /\ x = Item(x.at, x.k, x.p)
        /\ x.at = q => x.k \in Nat
        /\ x = new \/ (Shift(q, x) \in Carried(c) /\ Shift(q, x) # old)
        /\ index'[c][x.p.id] = index[c][x.p.id]
        /\ token'[x.p.tok].complete =>
              \/ token[x.p.tok].complete /\ token'[x.p.tok].error = token[x.p.tok].error
              \/ token'[x.p.tok].error = "IOError"

LEMMA OneMoves ==
    ASSUME NEW c \in Conns, Genuine(c), Single(c), NEW q, NEW old \in Carried(c), NEW new,
           new.p.id = old.p.id, new.p.tok = old.p.tok, MovesOne(c, q, old, new)
    PROVE  (Genuine(c) /\ Single(c))'
<1>. USE DEF MovesOne
<1>. DEFINE New == Carried(c)'
            src == [x \in New |-> IF x = new THEN old ELSE Shift(q, x)]
<1>1. \A x : Shift(q, x).p = x.p
  BY ItemFields DEF Shift
<1>2. ASSUME NEW x \in New
      PROVE  /\ src[x] \in Carried(c)
             /\ src[x].p.id = x.p.id /\ src[x].p.tok = x.p.tok
             /\ x # new => src[x] = Shift(q, x) /\ src[x] # old
             /\ x = new => src[x] = old
  <2>1. src[x] = IF x = new THEN old ELSE Shift(q, x)
    OBVIOUS
  <2>. HIDE DEF src
  <2>. QED  BY <1>1, <2>1
<1>3. ASSUME NEW x \in New, NEW y \in New, src[x] = src[y]
      PROVE  x = y
  <2>1. CASE x = new \/ y = new
    <3>. HIDE DEF src
    <3>. QED  BY <1>2, <1>3, <2>1
  <2>2. CASE x # new /\ y # new
    <3>1. Shift(q, x) = Shift(q, y)
      <4>. HIDE DEF src
      <4>. QED  BY <1>2, <1>3, <2>2
    <3>2. /\ x = Item(x.at, x.k, x.p) /\ (x.at = q => x.k \in Nat)
          /\ y = Item(y.at, y.k, y.p) /\ (y.at = q => y.k \in Nat)
      OBVIOUS
    <3>. HIDE DEF src, New
    <3>. QED  BY <3>1, <3>2, ShiftInjective
  <2>. QED  BY <2>1, <2>2
<1>. HIDE DEF src
<1>. QED  BY <1>2, <1>3, Moves

\* p goes on with what q was about.
Continues(p, q, type) == p.type = type /\ p.id = q.id /\ p.tok = q.tok

\* Every packet was there before, if only as a PUBREC.
Follows(c) ==
    \A x \in Carried(c)' : \E y \in Carried(c) :
        x.p = y.p \/ (y.p.type = "Pubrec" /\ Continues(x.p, y.p, "Pubrel"))

LEMMA OneFollows ==
    ASSUME NEW c, NEW q, NEW old \in Carried(c), NEW new, MovesOne(c, q, old, new),
           new.p = old.p \/ (old.p.type = "Pubrec" /\ Continues(new.p, old.p, "Pubrel"))
    PROVE  Follows(c)
<1>1. \A x : Shift(q, x).p = x.p
  BY ItemFields DEF Shift
<1>. QED  BY <1>1 DEF MovesOne, Follows

(***************************************************************************)
(* Where a packet can come from, place by place.                           *)
(***************************************************************************)
LEMMA TailShift ==
    ASSUME NEW S, NEW s \in Seq(S), s # <<>>, NEW k \in 1 .. Len(Tail(s))
    PROVE  k + 1 \in 1 .. Len(s) /\ Tail(s)[k] = s[k + 1] /\ k \in Nat /\ k + 1 # 1
OBVIOUS

LEMMA Origins ==
    ASSUME LostInv, LostInv', Names, UNCHANGED <<pc, call, cur>>, NEW c \in Conns, NEW x \in Carried(c)'
    PROVE  /\ x = Item(x.at, x.k, x.p)
           /\ x.at \in {"call", "outgoing", "msg", "inbox", "wire"}
           /\ x.at = "call" => x \in Carried(c)
           /\ x.at = "outgoing" /\ outgoing'[c] = outgoing[c] => x \in Carried(c)
           /\ x.at = "outgoing" => outgoing'[c] # <<>>
           /\ x.at = "outgoing" /\ outgoing'[c] = Tail(outgoing[c]) /\ outgoing[c] # <<>> =>
                 x.k \in Nat /\ Shift("outgoing", x) \in Carried(c) /\ Shift("outgoing", x).k # 1
           /\ x.at = "msg" => \E k \in 1 .. Len(msg'[c]) : x = Item("msg", k, msg'[c][k])
           /\ x.at = "msg" /\ msg'[c] = msg[c] => x \in Carried(c)
           /\ x.at = "msg" => msg'[c] # <<>>
           /\ x.at = "msg" /\ msg'[c] = Tail(msg[c]) /\ msg[c] # <<>> =>
                 x.k \in Nat /\ Shift("msg", x) \in Carried(c) /\ Shift("msg", x).k # 1
           /\ x.at = "inbox" => \E k \in 1 .. Len(inbox'[c]) : x = Item("inbox", k, inbox'[c][k])
           /\ x.at = "inbox" /\ inbox'[c] = inbox[c] => x \in Carried(c)
           /\ x.at = "inbox" /\ inbox'[c] = Tail(inbox[c]) /\ inbox[c] # <<>> =>
                 x.k \in Nat /\ Shift("inbox", x) \in Carried(c) /\ Shift("inbox", x).k # 1
           /\ x.at = "wire" => x.p \in wire'[c] /\ x.p.type # "Disconnect" /\ x = Item("wire", 0, x.p)
           /\ x.at = "wire" /\ x.p \in wire[c] => x \in Carried(c)
<1>1. CASE Calling(c) /\ x = Item("call", 0, RequestPacket(call.tok))
  BY <1>1, CarriedNow, ItemFields
<1>2. CASE \E k \in 1 .. Len(outgoing'[c]), t \in Tokens :
                /\ outgoing'[c][k] = t
                /\ token[t].kind \in AckedKinds
                /\ x = Item("outgoing", k, RequestPacket(t))
  <2>1. PICK k \in 1 .. Len(outgoing'[c]), t \in Tokens :
                /\ outgoing'[c][k] = t
                /\ token[t].kind \in AckedKinds
                /\ x = Item("outgoing", k, RequestPacket(t))
    BY <1>2
  <2>2. x.at = "outgoing" /\ x.k = k /\ x.p = RequestPacket(t)
    BY <2>1, ItemFields
  <2>3. outgoing'[c] = outgoing[c] => x \in Carried(c)
    BY <2>1, CarriedNow
  <2>4. ASSUME outgoing'[c] = Tail(outgoing[c]), outgoing[c] # <<>>
        PROVE  x.k \in Nat /\ Shift("outgoing", x) \in Carried(c) /\ Shift("outgoing", x).k # 1
    <3>1. outgoing[c] \in Seq(Tokens)
      BY AckInvTypes
    <3>2. k + 1 \in 1 .. Len(outgoing[c]) /\ outgoing[c][k + 1] = t /\ k \in Nat /\ k + 1 # 1
      BY <2>1, <2>4, <3>1, TailShift
    <3>3. Shift("outgoing", x) = Item("outgoing", k + 1, RequestPacket(t))
      BY <2>2 DEF Shift
    <3>4. Shift("outgoing", x) \in Carried(c)
      BY <2>1, <3>2, <3>3, CarriedNow
    <3>. QED  BY <2>2, <3>2, <3>3, <3>4, ItemFields
  <2>5. outgoing'[c] # <<>>
    BY <2>1
  <2>. QED  BY <2>1, <2>2, <2>3, <2>4, <2>5
<1>3. CASE \E k \in 1 .. Len(msg'[c]) : x = Item("msg", k, msg'[c][k])
  <2>1. PICK k \in 1 .. Len(msg'[c]) : x = Item("msg", k, msg'[c][k])
    BY <1>3
  <2>2. x.at = "msg" /\ x.k = k /\ x.p = msg'[c][k]
    BY <2>1, ItemFields
  <2>3. msg'[c] = msg[c] => x \in Carried(c)
    BY <2>1, CarriedNow
  <2>4. ASSUME msg'[c] = Tail(msg[c]), msg[c] # <<>>
        PROVE  x.k \in Nat /\ Shift("msg", x) \in Carried(c) /\ Shift("msg", x).k # 1
    <3>1. msg[c] \in Seq(Packets({"Pubrel"}))
      BY AckInvTypes
    <3>2. k + 1 \in 1 .. Len(msg[c]) /\ msg'[c][k] = msg[c][k + 1] /\ k \in Nat /\ k + 1 # 1
      BY <2>1, <2>4, <3>1, TailShift
    <3>3. Shift("msg", x) = Item("msg", k + 1, msg[c][k + 1])
      BY <2>2, <3>2 DEF Shift
    <3>4. Shift("msg", x) \in Carried(c)
      BY <3>2, <3>3, CarriedNow
    <3>. QED  BY <2>2, <3>2, <3>3, <3>4, ItemFields
  <2>5. msg'[c] # <<>>
    BY <2>1
  <2>. QED  BY <2>1, <2>2, <2>3, <2>4, <2>5
<1>4. CASE \E k \in 1 .. Len(inbox'[c]) : x = Item("inbox", k, inbox'[c][k])
  <2>1. PICK k \in 1 .. Len(inbox'[c]) : x = Item("inbox", k, inbox'[c][k])
    BY <1>4
  <2>2. x.at = "inbox" /\ x.k = k /\ x.p = inbox'[c][k]
    BY <2>1, ItemFields
  <2>3. inbox'[c] = inbox[c] => x \in Carried(c)
    BY <2>1, CarriedNow
  <2>4. ASSUME inbox'[c] = Tail(inbox[c]), inbox[c] # <<>>
        PROVE  x.k \in Nat /\ Shift("inbox", x) \in Carried(c) /\ Shift("inbox", x).k # 1
    <3>1. inbox[c] \in Seq(Packets(AckTypes))
      BY AckInvTypes
    <3>2. k + 1 \in 1 .. Len(inbox[c]) /\ inbox'[c][k] = inbox[c][k + 1] /\ k \in Nat /\ k + 1 # 1
      BY <2>1, <2>4, <3>1, TailShift
    <3>3. Shift("inbox", x) = Item("inbox", k + 1, inbox[c][k + 1])
      BY <2>2, <3>2 DEF Shift
    <3>4. Shift("inbox", x) \in Carried(c)
      BY <3>2, <3>3, CarriedNow
    <3>. QED  BY <2>2, <3>2, <3>3, <3>4, ItemFields
  <2>. QED  BY <2>1, <2>2, <2>3, <2>4
<1>5. CASE \E p \in wire'[c] : p.type # "Disconnect" /\ x = Item("wire", 0, p)
  BY <1>5, CarriedNow, ItemFields
<1>. QED  BY <1>1, <1>2, <1>3, <1>4, <1>5, CarriedNext

\* The head of queue q goes nowhere.
ShiftsOnly(c, q) ==
    \A x \in Carried(c)' :
        /\ x = Item(x.at, x.k, x.p)
        /\ x.at = q => x.k \in Nat
        /\ Shift(q, x) \in Carried(c)
        /\ index'[c][x.p.id] = index[c][x.p.id]
        /\ token'[x.p.tok] = token[x.p.tok]

LEMMA AllShift ==
    ASSUME NEW c \in Conns, Genuine(c), Single(c), NEW q, ShiftsOnly(c, q)
    PROVE  (Genuine(c) /\ Single(c))'
<1>. DEFINE src == [x \in Carried(c)' |-> Shift(q, x)]
<1>1. \A x : Shift(q, x).p = x.p
  BY ItemFields DEF Shift
<1>2. \A x \in Carried(c)' : src[x] = Shift(q, x)
  OBVIOUS
<1>. HIDE DEF src
<1>3. ASSUME NEW x \in Carried(c)', NEW y \in Carried(c)', src[x] = src[y]
      PROVE  x = y
  BY <1>2, <1>3, ShiftInjective DEF ShiftsOnly
<1>4. ASSUME NEW x \in Carried(c)'
      PROVE  /\ src[x] \in Carried(c)
             /\ src[x].p.id = x.p.id /\ src[x].p.tok = x.p.tok
             /\ index'[c][x.p.id] = index[c][x.p.id]
             /\ token'[x.p.tok] = token[x.p.tok]
  BY <1>1, <1>2 DEF ShiftsOnly
<1>. QED  BY <1>3, <1>4, Moves

LEMMA ShiftsFollow ==
    ASSUME NEW c, NEW q, ShiftsOnly(c, q)
    PROVE  Follows(c)
<1>1. \A x : Shift(q, x).p = x.p
  BY ItemFields DEF Shift
<1>. QED  BY <1>1 DEF ShiftsOnly, Follows

\* No packet appears.
LEMMA Fewer ==
    ASSUME NEW c \in Conns, Genuine(c), Single(c), Carried(c)' \subseteq Carried(c),
           \A x \in Carried(c)' :
              /\ index'[c][x.p.id] = index[c][x.p.id]
              /\ token'[x.p.tok].complete =>
                    \/ token[x.p.tok].complete /\ token'[x.p.tok].error = token[x.p.tok].error
                    \/ token'[x.p.tok].error = "IOError"
    PROVE  (Genuine(c) /\ Single(c))'
<1>. DEFINE src == [x \in Carried(c)' |-> x]
<1>1. \A x \in Carried(c)' : src[x] = x
  OBVIOUS
<1>. HIDE DEF src
<1>. QED  BY <1>1, Moves

(***************************************************************************)
(* The rest of the invariant across a step of a task or of the network.    *)
(***************************************************************************)
LEMMA RestKept ==
    ASSUME AckInv, LostInv', Names, UNCHANGED <<pc, call, bpc, cur>>,
           \A d \in Conns : supervisor'[d] = "run" => supervisor[d] = "run",
           \A d \in Conns : Empty(d) => Empty(d)',
           \A d \in Conns : read_task'[d] # "run" => inbox'[d] = <<>>,
           \A t \in Tokens : Outside(t) => Outside(t)',
           \A t \in Tokens : Outside(t) /\ token[t].id = 0 => token'[t] = token[t],
           \A i \in Ids : index'[cur][i] \in {index[cur][i], NoToken},
           \A t \in Tokens : Succeeded(t)' =>
              \/ Succeeded(t)
              \/ /\ BeforeSend => t # call.tok
                 /\ \A i \in Ids : index'[cur][i] # t
    PROVE  AckRest'
<1>. USE DEF AckInv, AckRest
<1>1. Table'
  <2>. SUFFICES ASSUME NEW i \in Ids, index'[cur][i] # NoToken
                PROVE  /\ token'[index'[cur][i]].id = i
                       /\ token'[index'[cur][i]].kind \in AckedKinds
                       /\ ~Succeeded(index[cur][i])'
    BY DEF Table
  <2>1. PICK t \in Tokens : t = index[cur][i] /\ index'[cur][i] = t
    BY AckInvTypes
  <2>2. token[t].id = i /\ token[t].kind \in AckedKinds /\ ~Succeeded(t)
    BY <2>1, AckInvTypes DEF Table
  <2>3. ~Succeeded(t)'
    BY <2>1, <2>2
  <2>4. ~Succeeded(index[cur][i])'
    BY <2>1, <2>3 DEF Succeeded
  <2>. QED  BY <2>1, <2>2, <2>4 DEF Names
<1>2. Numbered'
  BY DEF Numbered, Names
<1>3. CallInv'
  <2>1. BeforeSend \/ pc = "add_subs" => call.tok \in Tokens
    BY AckInvTypes
  <2>2. BeforeSend => Outside(call.tok)'
    <3>. SUFFICES ASSUME BeforeSend PROVE Outside(call.tok)'
      OBVIOUS
    <3>1. PICK t \in Tokens : t = call.tok
      BY <2>1
    <3>2. Outside(t)'
      BY <3>1 DEF CallInv
    <3>. QED  BY <3>1, <3>2 DEF Outside
  <2>3. BeforeSend => ~Succeeded(call.tok)'
    <3>. SUFFICES ASSUME BeforeSend PROVE ~Succeeded(call.tok)'
      OBVIOUS
    <3>1. PICK t \in Tokens : t = call.tok
      BY <2>1
    <3>2. ~Succeeded(t)'
      BY <3>1 DEF CallInv
    <3>. QED  BY <3>1, <3>2 DEF Succeeded
  <2>4. /\ BeforeSend \/ pc = "add_subs" => token'[call.tok].kind = call.kind /\ token'[call.tok].topics = call.topics
        /\ pc = "get_id" => token'[call.tok].id = 0 /\ call.kind \in AckedKinds
    BY <2>1 DEF CallInv, Names, BeforeSend
  <2>5. pc = "get_id" => ~token'[call.tok].complete
    BY <2>1 DEF CallInv, BeforeSend
  <2>. QED  BY <2>2, <2>3, <2>4, <2>5 DEF CallInv, BeforeSend
<1>4. Idleness'
  BY DEF Idleness, Unused
<1>. QED  BY <1>1, <1>2, <1>3, <1>4

------------------------------------------------------------------------------
(* An acknowledgement. *)
LEMMA CompleteAndFreeFields ==
    ASSUME LostInv, NEW c \in Conns, NEW i \in Ids, index[c][i] \in Tokens, CompleteAndFree(c, i)
    PROVE  /\ Names
           /\ \A t \in Tokens \ {index[c][i]} : token'[t] = token[t]
           /\ \A s \in States, j \in Ids :
                 index'[s][j] = IF s = c /\ j = i THEN NoToken ELSE index[s][j]
<1>1. index[c][i] # NoToken
  BY AckInvTypes
<1>2. /\ token' = [token EXCEPT ![index[c][i]] = FlowComplete(@)]
      /\ index' = [index EXCEPT ![c][i] = NoToken]
  BY <1>1 DEF CompleteAndFree
<1>3. Names
  BY <1>2, AckInvTypes DEF Names, FlowComplete, TokenStates
<1>. QED  BY <1>2, <1>3, AckInvTypes

LEMMA OutsideKept ==
    ASSUME UNCHANGED <<outgoing, flushing>>
    PROVE  \A t \in Tokens : Outside(t) => Outside(t)'
BY DEF Outside

(* The packet at the head of the inbox is gone, and its identifier may be free. *)
LEMMA Acknowledged ==
    ASSUME AckInv, LostInv', NEW c \in Conns, Reading(c), inbox[c] # <<>>, Consume(c),
           UNCHANGED <<pc, call, bpc, cur, outgoing, msg, flushing, wire, supervisor, read_task>>,
           UNCHANGED <<token, index>> \/ CompleteAndFree(c, Head(inbox[c]).id)
    PROVE  AckRest' /\ (Genuine(c) /\ Single(c))' /\ Follows(c)
<1>. DEFINE i == Head(inbox[c]).id
            u == Head(inbox[c]).tok
            h == Item("inbox", 1, Head(inbox[c]))
<1>0. c = cur /\ supervisor[c] = "run" /\ LostInv
  BY LiveIsCur DEF AckInv, Reading
<1>1. Genuine(c) /\ Single(c) /\ Table
  BY <1>0 DEF AckInv, AckRest, Tracked
<1>2. inbox[c] \in Seq(Packets(AckTypes)) /\ inbox \in [Conns -> Seq(Packets(AckTypes))] /\ Len(inbox[c]) \in Nat \ {0}
  <2>1. inbox[c] \in Seq(Packets(AckTypes)) /\ inbox \in [Conns -> Seq(Packets(AckTypes))]
    BY <1>0, AckInvTypes
  <2>. QED  BY <2>1
<1>3. /\ inbox'[c] = Tail(inbox[c])
      /\ \A d \in Conns : inbox'[d] = IF d = c THEN Tail(inbox[c]) ELSE inbox[d]
  BY <1>2 DEF Consume
<1>4. h \in Carried(c)
  <2>1. 1 \in 1 .. Len(inbox[c]) /\ inbox[c][1] = Head(inbox[c])
    BY <1>2
  <2>. QED  BY <2>1, CarriedCases
<1>5. i \in Ids /\ index[c][i] = u /\ u \in Tokens
  <2>1. i \in Ids /\ index[c][i] = u
    BY <1>1, <1>4, ItemFields DEF Genuine
  <2>2. u \in Tokens
    <3>1. Head(inbox[c]) \in Packets(AckTypes)
      BY <1>2
    <3>. QED  BY <3>1 DEF Packets
  <2>. QED  BY <2>1, <2>2
<1>6. token[u].id = i
  BY <1>0, <1>1, <1>5, AckInvTypes DEF Table
<1>7. /\ Names
      /\ \A t \in Tokens \ {u} : token'[t] = token[t]
      /\ \A j \in Ids \ {i} : index'[c][j] = index[c][j]
      /\ index'[c][i] \in {u, NoToken}
      /\ token'[u] # token[u] => index'[c][i] = NoToken
  <2>1. CASE UNCHANGED <<token, index>>
    BY <1>5, <2>1 DEF Names
  <2>2. CASE CompleteAndFree(c, i)
    BY <1>0, <1>5, <2>2, CompleteAndFreeFields, AckInvTypes
  <2>. QED  BY <2>1, <2>2
<1>. HIDE DEF i, u
<1>8. \A x \in Carried(c) : x # h => x.p.id \in Ids \ {i} /\ x.p.tok \in Tokens \ {u}
  <2>. SUFFICES ASSUME NEW x \in Carried(c), x # h
                PROVE  x.p.id \in Ids \ {i} /\ x.p.tok \in Tokens \ {u}
    OBVIOUS
  <2>1. x.p.id \in Ids /\ index[c][x.p.id] = x.p.tok
    BY <1>1 DEF Genuine
  <2>2. h.p.id = i
    BY ItemFields DEF i
  <2>3. x.p.id # i
    BY <1>1, <1>4, <2>2 DEF Single
  <2>4. x.p.tok \in Tokens
    BY <1>0, CarriedType
  <2>5. token[x.p.tok].id = x.p.id
    BY <1>0, <1>1, <2>1, <2>4, AckInvTypes DEF Table
  <2>. QED  BY <1>6, <2>1, <2>3, <2>4, <2>5
<1>9. (Genuine(c) /\ Single(c))' /\ Follows(c)
  <2>. DEFINE none == Item("read", 0, Head(inbox[c]))
  <2>1. ASSUME NEW x \in Carried(c)'
        PROVE  /\ x = Item(x.at, x.k, x.p) /\ (x.at = "inbox" => x.k \in Nat)
               /\ Shift("inbox", x) \in Carried(c) /\ Shift("inbox", x) # h
    <3>1. /\ x = Item(x.at, x.k, x.p)
          /\ x.at = "inbox" => x.k \in Nat /\ Shift("inbox", x) \in Carried(c) /\ Shift("inbox", x).k # 1
          /\ x.at # "inbox" => x \in Carried(c)
      <4>. HIDE DEF h
      <4>. QED  BY <1>0, <1>3, <1>7, Origins
    <3>2. h.k = 1 /\ h.at = "inbox"
      BY ItemFields
    <3>. QED  BY <3>1, <3>2 DEF Shift
  <2>2. ASSUME NEW x \in Carried(c)'
        PROVE  /\ index'[c][x.p.id] = index[c][x.p.id]
               /\ token'[x.p.tok] = token[x.p.tok]
    <3>1. Shift("inbox", x).p = x.p
      BY ItemFields DEF Shift
    <3>2. x.p.id \in Ids \ {i} /\ x.p.tok \in Tokens \ {u}
      <4>. HIDE DEF h
      <4>. QED  BY <1>8, <2>1, <3>1
    <3>. QED  BY <1>7, <3>2
  <2>3. none.p = h.p
    BY ItemFields
  <2>. HIDE DEF none, h
  <2>4. MovesOne(c, "inbox", h, none)
    BY <2>1, <2>2 DEF MovesOne
  <2>. QED  BY <1>1, <1>4, <2>3, <2>4, OneMoves, OneFollows
<1>10. AckRest'
  <2>1. \A d \in Conns : Empty(d) => Empty(d)'
    BY <1>2, <1>3 DEF Empty
  <2>2. \A d \in Conns : read_task'[d] # "run" => inbox'[d] = <<>>
    BY <1>3 DEF AckInv, AckRest, Idleness, Reading
  <2>3. \A j \in Ids : index'[cur][j] \in {index[cur][j], NoToken}
    BY <1>0, <1>5, <1>7
  <2>4. ASSUME NEW t \in Tokens, Succeeded(t)', ~Succeeded(t)
        PROVE  (BeforeSend => t # call.tok) /\ \A j \in Ids : index'[cur][j] # t
    <3>1. t = u
      BY <1>7, <2>4 DEF Succeeded
    <3>2. index'[c][i] = NoToken
      BY <1>7, <2>4, <3>1 DEF Succeeded
    <3>3. ASSUME NEW j \in Ids PROVE index'[cur][j] # t
      <4>1. CASE j = i
        BY <1>0, <1>5, <3>1, <3>2, <4>1, AckInvTypes
      <4>2. CASE j # i
        <5>1. index'[cur][j] = index[cur][j]
          BY <1>0, <1>7, <4>2
        <5>. QED  BY <1>0, <1>1, <1>6, <3>1, <4>2, <5>1, AckInvTypes DEF Table
      <4>. QED  BY <4>1, <4>2
    <3>4. ASSUME BeforeSend, t = call.tok PROVE FALSE
      <4>1. pc # "get_id"
        BY <1>5, <1>6, <3>1, <3>4, PacketIdsAssumption DEF AckInv, AckRest, CallInv, Ids, PKID_MIN
      <4>2. call.kind \in AckedKinds
        BY <1>0, <1>1, <1>5, <3>1, <3>4, AckInvTypes DEF AckInv, AckRest, CallInv, Table
      <4>3. Calling(c)
        BY <1>0, <3>4, <4>1, <4>2 DEF Calling, BeforeSend
      <4>4. Item("call", 0, RequestPacket(call.tok)) \in Carried(c)
        BY <4>3, CarriedCases
      <4>5. RequestPacket(call.tok).tok = u
        BY <3>1, <3>4 DEF RequestPacket, Packet
      <4>6. Item("call", 0, RequestPacket(call.tok)) # h
        BY ItemFields
      <4>. QED  BY <1>8, <4>4, <4>5, <4>6, ItemFields
    <3>. QED  BY <3>3, <3>4
  <2>5. \A d \in Conns : supervisor'[d] = "run" => supervisor[d] = "run"
    OBVIOUS
  <2>6. \A t \in Tokens : token[t].id = 0 => token'[t] = token[t]
    <3>1. i # 0
      BY <1>5, PacketIdsAssumption DEF Ids, PKID_MIN
    <3>. QED  BY <1>6, <1>7, <3>1
  <2>. QED  BY <1>7, <2>1, <2>2, <2>3, <2>4, <2>5, <2>6, OutsideKept, RestKept
<1>. QED  BY <1>9, <1>10

------------------------------------------------------------------------------
(* The write task puts a response on the wire, if that is still possible. *)
LEMMA MsgWritten ==
    ASSUME AckInv, LostInv', NEW c \in Conns, Writing(c), msg[c] # <<>>,
           UNCHANGED <<pc, call, bpc, cur, token, index, inbox, supervisor, read_task>>,
           Transmit(c, Head(msg[c])) \/ UNCHANGED wire,
           \/ msg' = [msg EXCEPT ![c] = Tail(@)] /\ UNCHANGED <<outgoing, flushing>>
           \/ WriterDone(c)
    PROVE  AckRest' /\ (Genuine(c) /\ Single(c))' /\ Follows(c)
<1>. DEFINE p == Head(msg[c])
            old == Item("msg", 1, p)
            new == Item("wire", 0, p)
<1>0. c = cur /\ supervisor[c] = "run" /\ LostInv
  BY LiveIsCur DEF AckInv, Writing
<1>1. Genuine(c) /\ Single(c)
  BY <1>0 DEF AckInv, Tracked
<1>2. /\ msg[c] \in Seq(Packets({"Pubrel"})) /\ msg \in [Conns -> Seq(Packets({"Pubrel"}))]
      /\ Len(msg[c]) \in Nat \ {0} /\ p = msg[c][1]
      /\ outgoing \in [Conns -> Seq(Tokens)] /\ flushing \in [Conns -> Tokens \cup {NoToken}]
      /\ wire \in [Conns -> SUBSET Packets(PacketTypes)]
  <2>1. msg[c] \in Seq(Packets({"Pubrel"})) /\ msg \in [Conns -> Seq(Packets({"Pubrel"}))]
    BY <1>0, AckInvTypes
  <2>. QED  BY <1>0, <2>1, AckInvTypes
<1>3. /\ \A d \in Conns : msg'[d] = IF d = c THEN msg'[c] ELSE msg[d]
      /\ msg'[c] \in {Tail(msg[c]), <<>>}
      /\ \A d \in Conns : outgoing'[d] \in {outgoing[d], <<>>} /\ flushing'[d] \in {flushing[d], NoToken}
      /\ \A d \in Conns : wire'[d] \in {wire[d], wire[d] \cup {p}} /\ (d # c => wire'[d] = wire[d])
  <2>1. CASE msg' = [msg EXCEPT ![c] = Tail(@)] /\ UNCHANGED <<outgoing, flushing>>
    BY <1>2, <2>1 DEF Transmit
  <2>2. CASE WriterDone(c)
    BY <1>2, <2>2 DEF Transmit, WriterDone
  <2>. QED  BY <2>1, <2>2
<1>4. Names /\ \A t \in Tokens : Succeeded(t)' => Succeeded(t)
  BY DEF Names, Succeeded
<1>5. \A d \in Conns : Empty(d) => Empty(d)'
  BY <1>3 DEF Empty
<1>6. \A t \in Tokens : Outside(t) => Outside(t)'
  <2>. SUFFICES ASSUME NEW t \in Tokens, Outside(t), NEW d \in Conns
                PROVE  flushing'[d] # t /\ \A k \in 1 .. Len(outgoing'[d]) : outgoing'[d][k] # t
    BY DEF Outside
  <2>1. flushing'[d] # t
    BY <1>0, <1>3, AckInvTypes DEF Outside
  <2>2. outgoing'[d] = outgoing[d] \/ outgoing'[d] = <<>>
    BY <1>3
  <2>3. Len(<<>>) = 0
    OBVIOUS
  <2>. QED  BY <2>1, <2>2, <2>3 DEF Outside
<1>7. AckRest'
  <2>1. \A d \in Conns : read_task'[d] # "run" => inbox'[d] = <<>>
    BY DEF AckInv, AckRest, Idleness
  <2>. QED  BY <1>4, <1>5, <1>6, <2>1, RestKept
<1>8. old \in Carried(c)
  BY <1>2, CarriedCases
<1>9. ASSUME NEW x \in Carried(c)'
      PROVE  /\ x = Item(x.at, x.k, x.p)
             /\ x.at = "msg" => x.k \in Nat
             /\ x = new \/ (Shift("msg", x) \in Carried(c) /\ Shift("msg", x) # old)
  <2>0. /\ outgoing'[c] = outgoing[c] \/ outgoing'[c] = <<>>
        /\ msg'[c] = Tail(msg[c]) \/ msg'[c] = <<>>
        /\ \A r \in wire'[c] : r \in wire[c] \/ r = p
    BY <1>3
  <2>1. /\ x = Item(x.at, x.k, x.p)
        /\ x.at = "msg" => x.k \in Nat /\ Shift("msg", x) \in Carried(c) /\ Shift("msg", x).k # 1
        /\ x.at # "msg" => x \in Carried(c) \/ (x = Item("wire", 0, x.p) /\ x.p = p)
    <3>. HIDE DEF p, old, new
    <3>. QED  BY <1>0, <1>4, <2>0, Origins
  <2>2. old.k = 1 /\ old.at = "msg"
    BY ItemFields
  <2>. QED  BY <2>1, <2>2 DEF Shift
<1>10. new.p = old.p
  BY ItemFields
<1>. HIDE DEF new, old, p
<1>11. \A x \in Carried(c)' : /\ index'[c][x.p.id] = index[c][x.p.id]
                              /\ token'[x.p.tok] = token[x.p.tok]
  OBVIOUS
<1>12. MovesOne(c, "msg", old, new)
  BY <1>9, <1>11 DEF MovesOne
<1>13. (Genuine(c) /\ Single(c))' /\ Follows(c)
  BY <1>1, <1>8, <1>10, <1>12, OneMoves, OneFollows
<1>. QED  BY <1>7, <1>13

(* The write task takes the next request and puts it on the wire. *)
LEMMA RequestWritten ==
    ASSUME AckInv, LostInv', NEW c \in Conns, WriteOutgoing(c), UNCHANGED userVars
    PROVE  AckRest' /\ (Genuine(c) /\ Single(c))' /\ Follows(c)
<1>. DEFINE u == Head(outgoing[c])
            old == Item("outgoing", 1, RequestPacket(u))
            new == Item("wire", 0, RequestPacket(u))
<1>0. /\ c = cur /\ supervisor[c] = "run" /\ LostInv
      /\ UNCHANGED <<pc, call, bpc, cur, token, index, msg, inbox, supervisor, read_task>>
  <2>1. write_task[c] = "run"
    BY DEF WriteOutgoing, Writing
  <2>. QED  BY <2>1, LiveIsCur DEF AckInv, WriteOutgoing, userVars, clientVars, idVars, taskVars
<1>1. Genuine(c) /\ Single(c)
  BY <1>0 DEF AckInv, Tracked
<1>2. /\ outgoing[c] \in Seq(Tokens) /\ outgoing \in [Conns -> Seq(Tokens)] /\ outgoing[c] # <<>>
      /\ u \in Tokens /\ u = outgoing[c][1] /\ 1 \in 1 .. Len(outgoing[c])
      /\ flushing \in [Conns -> Tokens \cup {NoToken}]
      /\ wire \in [Conns -> SUBSET Packets(PacketTypes)]
      /\ token[u].kind \in RequestKinds
  <2>1. /\ outgoing[c] \in Seq(Tokens) /\ outgoing \in [Conns -> Seq(Tokens)] /\ outgoing[c] # <<>>
        /\ flushing \in [Conns -> Tokens \cup {NoToken}]
        /\ wire \in [Conns -> SUBSET Packets(PacketTypes)]
    BY <1>0, AckInvTypes DEF WriteOutgoing
  <2>2. u \in Tokens /\ u = outgoing[c][1] /\ 1 \in 1 .. Len(outgoing[c])
    BY <2>1
  <2>. HIDE DEF u
  <2>. QED  BY <1>0, <2>1, <2>2, AckInvTypes DEF TokenStates
<1>3. /\ outgoing'[c] = Tail(outgoing[c])
      /\ \A d \in Conns : d # c => outgoing'[d] = outgoing[d]
      /\ flushing'[c] = u
      /\ \A d \in Conns : d # c => flushing'[d] = flushing[d]
      /\ \A d \in Conns : d # c => wire'[d] = wire[d]
      /\ \A r \in wire'[c] : r \in wire[c] \/ (r = RequestPacket(u) /\ r.type # "Publish0")
  <2>. HIDE DEF u
  <2>1. /\ outgoing' = [outgoing EXCEPT ![c] = Tail(@)]
        /\ flushing' = [flushing EXCEPT ![c] = u]
        /\ Transmit(c, RequestPacket(u))
    BY DEF WriteOutgoing, u
  <2>. QED  BY <1>2, <2>1 DEF Transmit
<1>4. Names /\ \A t \in Tokens : Succeeded(t)' => Succeeded(t)
  BY <1>0 DEF Names, Succeeded
<1>5. \A d \in Conns : Empty(d) => Empty(d)'
  BY <1>0, <1>2, <1>3 DEF Empty
<1>6. \A t \in Tokens : Outside(t) => Outside(t)'
  <2>. SUFFICES ASSUME NEW t \in Tokens, Outside(t), NEW d \in Conns
                PROVE  flushing'[d] # t /\ \A k \in 1 .. Len(outgoing'[d]) : outgoing'[d][k] # t
    BY DEF Outside
  <2>1. CASE d = c
    <3>1. u # t
      BY <1>2 DEF Outside
    <3>2. \A k \in 1 .. Len(Tail(outgoing[c])) : Tail(outgoing[c])[k] # t
      BY <1>2, TailShift DEF Outside
    <3>. HIDE DEF u
    <3>. QED  BY <1>3, <2>1, <3>1, <3>2
  <2>2. CASE d # c
    BY <1>3, <2>2 DEF Outside
  <2>. QED  BY <2>1, <2>2
<1>7. AckRest'
  <2>1. \A d \in Conns : read_task'[d] # "run" => inbox'[d] = <<>>
    BY <1>0 DEF AckInv, AckRest, Idleness
  <2>. QED  BY <1>0, <1>4, <1>5, <1>6, <2>1, RestKept
<1>8. ASSUME NEW x \in Carried(c)'
      PROVE  /\ x = Item(x.at, x.k, x.p)
             /\ x.at = "outgoing" => x.k \in Nat
             /\ \/ Shift("outgoing", x) \in Carried(c) /\ Shift("outgoing", x) # old
                \/ x = new /\ token[u].kind \in AckedKinds
  <2>1. /\ x = Item(x.at, x.k, x.p)
        /\ x.at = "outgoing" => x.k \in Nat /\ Shift("outgoing", x) \in Carried(c) /\ Shift("outgoing", x).k # 1
        /\ x.at # "outgoing" =>
              \/ x \in Carried(c)
              \/ /\ x = Item("wire", 0, x.p) /\ x.p = RequestPacket(u)
                 /\ x.p.type \notin {"Publish0", "Disconnect"}
    <3>. HIDE DEF u, old, new
    <3>. QED  BY <1>0, <1>2, <1>3, <1>4, Origins
  <2>2. old.k = 1 /\ old.at = "outgoing"
    BY ItemFields
  <2>3. RequestPacket(u).type = token[u].kind
    BY DEF RequestPacket, Packet
  <2>4. token[u].kind \notin {"Publish0", "Disconnect"} => token[u].kind \in AckedKinds
    <3>. HIDE DEF u
    <3>. QED  BY <1>2 DEF RequestKinds, AckedKinds
  <2>5. x.at = "outgoing" => Shift("outgoing", x) # old
    BY <2>1, <2>2
  <2>6. x.at # "outgoing" => Shift("outgoing", x) = x /\ x # old
    BY <2>2 DEF Shift
  <2>. HIDE DEF old, u
  <2>. QED  BY <2>1, <2>3, <2>4, <2>5, <2>6
<1>9. \A x \in Carried(c)' : index'[c][x.p.id] = index[c][x.p.id] /\ token'[x.p.tok] = token[x.p.tok]
  BY <1>0
<1>10. CASE token[u].kind \in AckedKinds
  <2>1. old \in Carried(c)
    <3>. HIDE DEF u
    <3>. QED  BY <1>0, <1>2, <1>10, CarriedNow
  <2>2. new.p = old.p
    BY ItemFields
  <2>. HIDE DEF new, old, u
  <2>3. MovesOne(c, "outgoing", old, new)
    BY <1>8, <1>9 DEF MovesOne
  <2>. QED  BY <1>1, <1>7, <2>1, <2>2, <2>3, OneMoves, OneFollows
<1>11. CASE token[u].kind \notin AckedKinds
  <2>. HIDE DEF new, old, u
  <2>1. ShiftsOnly(c, "outgoing")
    BY <1>8, <1>9, <1>11 DEF ShiftsOnly
  <2>. QED  BY <1>1, <1>7, <2>1, AllShift, ShiftsFollow
<1>. QED  BY <1>10, <1>11

(* PUBREC: its answer goes to the msg channel, if the writer is there. *)
LEMMA PubrecHandled ==
    ASSUME AckInv, LostInv', NEW c \in Conns, HandlePubrec(c), UNCHANGED userVars
    PROVE  AckRest' /\ (Genuine(c) /\ Single(c))' /\ Follows(c)
<1>. DEFINE h == Head(inbox[c])
            r == [h EXCEPT !.type = "Pubrel"]
            old == Item("inbox", 1, h)
            new == Item("msg", Len(msg[c]) + 1, r)
<1>0. /\ c = cur /\ supervisor[c] = "run" /\ LostInv /\ read_task[c] = "run"
      /\ UNCHANGED <<pc, call, bpc, cur, token, index, outgoing, flushing, wire, supervisor>>
  <2>1. read_task[c] = "run"
    BY DEF HandlePubrec, Receive, Reading
  <2>. QED  BY <2>1, LiveIsCur DEF AckInv, HandlePubrec, userVars, clientVars, idVars
<1>1. Genuine(c) /\ Single(c)
  BY <1>0 DEF AckInv, Tracked
<1>2. /\ inbox[c] \in Seq(Packets(AckTypes)) /\ inbox \in [Conns -> Seq(Packets(AckTypes))] /\ inbox[c] # <<>>
      /\ msg[c] \in Seq(Packets({"Pubrel"})) /\ msg \in [Conns -> Seq(Packets({"Pubrel"}))]
      /\ read_task \in [Conns -> {"none", "run", "done"}]
      /\ h = inbox[c][1] /\ 1 \in 1 .. Len(inbox[c]) /\ h \in Packets(AckTypes)
  <2>1. /\ inbox[c] \in Seq(Packets(AckTypes)) /\ inbox \in [Conns -> Seq(Packets(AckTypes))] /\ inbox[c] # <<>>
        /\ msg[c] \in Seq(Packets({"Pubrel"})) /\ msg \in [Conns -> Seq(Packets({"Pubrel"}))]
        /\ read_task \in [Conns -> {"none", "run", "done"}]
    BY <1>0, AckInvTypes DEF HandlePubrec, Receive, LostInv, LiveInv, TypeInv, TypeOK, StateTypeOK
  <2>. QED  BY <2>1
<1>3. Names /\ \A t \in Tokens : Succeeded(t)' => Succeeded(t)
  BY <1>0 DEF Names, Succeeded
<1>4. /\ \A d \in Conns : d # c => inbox'[d] = inbox[d] /\ msg'[d] = msg[d] /\ read_task'[d] = read_task[d]
      /\ \/ /\ inbox'[c] = Tail(inbox[c]) /\ msg'[c] = Append(msg[c], r) /\ read_task'[c] = read_task[c]
         \/ /\ inbox'[c] = <<>> /\ msg'[c] = msg[c]
  <2>1. CASE Consume(c) /\ msg' = [msg EXCEPT ![c] = Append(@, r)] /\ UNCHANGED read_task
    BY <1>2, <2>1 DEF Consume
  <2>2. CASE ReaderDone(c) /\ UNCHANGED msg
    BY <1>2, <2>2 DEF ReaderDone
  <2>. QED  BY <2>1, <2>2 DEF HandlePubrec
<1>5. AckRest'
  <2>1. \A d \in Conns : Empty(d) => Empty(d)'
    BY <1>0, <1>2, <1>4 DEF Empty
  <2>2. \A d \in Conns : read_task'[d] # "run" => inbox'[d] = <<>>
    BY <1>0, <1>4 DEF AckInv, AckRest, Idleness
  <2>3. \A t \in Tokens : Outside(t) => Outside(t)'
    BY <1>0, OutsideKept
  <2>. QED  BY <1>0, <1>3, <2>1, <2>2, <2>3, RestKept
<1>6. old \in Carried(c)
  BY <1>2, CarriedCases
<1>7. /\ new.p.id = old.p.id /\ new.p.tok = old.p.tok
      /\ old.p.type = "Pubrec" /\ Continues(new.p, old.p, "Pubrel")
  <2>1. r.id = h.id /\ r.tok = h.tok /\ r.type = "Pubrel"
    <3>. HIDE DEF h
    <3>. QED  BY <1>2 DEF Packets
  <2>2. h.type = "Pubrec"
    BY DEF HandlePubrec, Receive
  <2>3. new.p = r /\ old.p = h
    BY ItemFields
  <2>. HIDE DEF r, h, new, old
  <2>. QED  BY <2>1, <2>2, <2>3 DEF Continues
<1>8. ASSUME NEW x \in Carried(c)'
      PROVE  /\ x = Item(x.at, x.k, x.p)
             /\ x.at = "inbox" => x.k \in Nat
             /\ x = new \/ (Shift("inbox", x) \in Carried(c) /\ Shift("inbox", x) # old)
  <2>1. /\ x = Item(x.at, x.k, x.p)
        /\ x.at = "inbox" => x.k \in Nat /\ Shift("inbox", x) \in Carried(c) /\ Shift("inbox", x).k # 1
        /\ x.at \notin {"inbox", "msg"} => x \in Carried(c)
        /\ x.at = "msg" => \E k \in 1 .. Len(msg'[c]) : x = Item("msg", k, msg'[c][k])
    <3>1. inbox'[c] = <<>> \/ inbox'[c] = Tail(inbox[c])
      BY <1>4
    <3>2. \A k \in 1 .. Len(<<>>) : FALSE
      OBVIOUS
    <3>. HIDE DEF h, r, old, new
    <3>. QED  BY <1>0, <1>2, <1>3, <3>1, <3>2, Origins
  <2>2. old.k = 1 /\ old.at = "inbox"
    BY ItemFields
  <2>3. x.at = "msg" => x = new \/ x \in Carried(c)
    <3>. SUFFICES ASSUME NEW k \in 1 .. Len(msg'[c]), x = Item("msg", k, msg'[c][k]), x # new
                  PROVE  x \in Carried(c)
      BY <2>1
    <3>1. k \in 1 .. Len(msg[c]) /\ msg'[c][k] = msg[c][k]
      <4>. HIDE DEF r
      <4>. QED  BY <1>2, <1>4
    <3>. HIDE DEF new
    <3>. QED  BY <3>1, CarriedCases
  <2>4. x.at = "inbox" => Shift("inbox", x) # old
    BY <2>1, <2>2
  <2>5. x.at # "inbox" => Shift("inbox", x) = x /\ x # old
    BY <2>2 DEF Shift
  <2>. HIDE DEF old, new
  <2>. QED  BY <2>1, <2>3, <2>4, <2>5
<1>9. \A x \in Carried(c)' : index'[c][x.p.id] = index[c][x.p.id] /\ token'[x.p.tok] = token[x.p.tok]
  BY <1>0
<1>. HIDE DEF new, old
<1>10. MovesOne(c, "inbox", old, new)
  BY <1>8, <1>9 DEF MovesOne
<1>. QED  BY <1>1, <1>5, <1>6, <1>7, <1>10, OneMoves, OneFollows

(* Packets are dropped, or the token of one request is resolved by its send. *)
LEMMA Dropped ==
    ASSUME AckInv, LostInv', NEW c \in Conns, supervisor[c] = "run",
           UNCHANGED <<pc, call, bpc, cur, index, supervisor>>,
           \A d \in Conns : /\ outgoing'[d] \in {outgoing[d], <<>>}
                            /\ msg'[d] \in {msg[d], <<>>}
                            /\ inbox'[d] \in {inbox[d], <<>>}
                            /\ wire'[d] \subseteq wire[d]
                            /\ flushing'[d] \in {flushing[d], NoToken}
                            /\ read_task'[d] # "run" => inbox'[d] = <<>>,
           NEW u, Names, \A t \in Tokens \ {u} : token'[t] = token[t],
           token'[u] = token[u] \/ ~Outside(u),
           \/ token'[u] = token[u]
           \/ token'[u].error = "IOError"
           \/ token[u].kind \notin AckedKinds /\ (BeforeSend => u # call.tok)
    PROVE  AckRest' /\ (Genuine(c) /\ Single(c))' /\ Follows(c)
<1>0. LostInv /\ c = cur
  BY LiveIsCur DEF AckInv
<1>1. Genuine(c) /\ Single(c) /\ Table
  BY DEF AckInv, AckRest, Tracked
<1>2. \A d \in Conns : Empty(d) => Empty(d)'
  BY DEF Empty
<1>3. \A t \in Tokens : Outside(t) => Outside(t)'
  <2>. SUFFICES ASSUME NEW t \in Tokens, Outside(t), NEW d \in Conns
                PROVE  flushing'[d] # t /\ \A k \in 1 .. Len(outgoing'[d]) : outgoing'[d][k] # t
    BY DEF Outside
  <2>1. flushing'[d] # t
    BY <1>0, AckInvTypes DEF Outside
  <2>2. outgoing'[d] = outgoing[d] \/ outgoing'[d] = <<>>
    OBVIOUS
  <2>3. \A k \in 1 .. Len(<<>>) : FALSE
    OBVIOUS
  <2>. QED  BY <2>1, <2>2, <2>3 DEF Outside
<1>4. ASSUME NEW t \in Tokens, token'[t].complete, token'[t].error # "IOError", token'[t] # token[t]
      PROVE  t = u /\ token[u].kind \notin AckedKinds /\ (BeforeSend => u # call.tok)
  BY <1>4
<1>5. \A t \in Tokens : Succeeded(t)' =>
              \/ Succeeded(t)
              \/ /\ BeforeSend => t # call.tok
                 /\ \A i \in Ids : index'[cur][i] # t
  <2>. SUFFICES ASSUME NEW t \in Tokens, Succeeded(t)', ~Succeeded(t)
                PROVE  /\ BeforeSend => t # call.tok
                       /\ \A i \in Ids : index[cur][i] # t
    OBVIOUS
  <2>1. token'[t].complete /\ token'[t].error = "None" /\ token'[t] # token[t]
    BY DEF Succeeded
  <2>2. t = u /\ token[u].kind \notin AckedKinds /\ (BeforeSend => u # call.tok)
    BY <1>4, <2>1
  <2>3. u \notin {index[cur][i] : i \in Ids}
    <3>1. NoToken \notin Tokens
      BY <1>0, AckInvTypes
    <3>. QED  BY <1>1, <2>2, <3>1 DEF Table
  <2>. QED  BY <1>0, <2>2, <2>3
<1>6. AckRest'
  <2>1. \A t \in Tokens : Outside(t) => token'[t] = token[t]
    OBVIOUS
  <2>. QED  BY <1>2, <1>3, <1>5, <2>1, RestKept
<1>7. \A x \in Carried(c)' : x \in Carried(c)
  <2>. SUFFICES ASSUME NEW x \in Carried(c)' PROVE x \in Carried(c)
    OBVIOUS
  <2>1. /\ outgoing'[c] = outgoing[c] \/ outgoing'[c] = <<>>
        /\ msg'[c] = msg[c] \/ msg'[c] = <<>>
        /\ inbox'[c] = inbox[c] \/ inbox'[c] = <<>>
        /\ wire'[c] \subseteq wire[c]
        /\ \A k \in 1 .. Len(<<>>) : FALSE
    OBVIOUS
  <2>. QED  BY <1>0, <2>1, Origins
<1>8. ASSUME NEW x \in Carried(c)'
      PROVE  /\ index'[c][x.p.id] = index[c][x.p.id]
             /\ token'[x.p.tok].complete =>
                    \/ token[x.p.tok].complete /\ token'[x.p.tok].error = token[x.p.tok].error
                    \/ token'[x.p.tok].error = "IOError"
  <2>1. /\ x.p.id \in Ids /\ index[c][x.p.id] = x.p.tok /\ x.p.tok \in Tokens
    BY <1>0, <1>1, <1>7, CarriedType DEF Genuine
  <2>2. token[x.p.tok].kind \in AckedKinds
    BY <1>0, <1>1, <2>1, AckInvTypes DEF Table
  <2>. QED  BY <1>4, <2>1, <2>2
<1>9. (Genuine(c) /\ Single(c))'
  BY <1>1, <1>7, <1>8, Fewer
<1>. QED  BY <1>6, <1>7, <1>9 DEF Follows

------------------------------------------------------------------------------
(* The tasks of the connection. *)
LEMMA WriterEnds ==
    ASSUME AckInv, LostInv', NEW c \in Conns, UNCHANGED userVars,
           OutgoingWritten(c) \/ WriteOutgoingFails(c) \/ FlushFails(c) \/ WriterExits(c)
    PROVE  AckRest' /\ (Genuine(c) /\ Single(c))' /\ Follows(c)
<1>0. c = cur /\ supervisor[c] = "run" /\ LostInv
  <2>1. write_task[c] = "run"
    BY DEF OutgoingWritten, WriteOutgoingFails, FlushFails, WriterExits, Writing
  <2>. QED  BY <2>1, LiveIsCur DEF AckInv
<1>1. UNCHANGED <<pc, call, bpc, cur, index, supervisor, inbox, wire, read_task>>
  BY DEF OutgoingWritten, WriteOutgoingFails, FlushFails, WriterExits, userVars, clientVars, idVars,
         taskVars, netVars
<1>2. \A d \in Conns : /\ outgoing'[d] \in {outgoing[d], <<>>}
                       /\ msg'[d] \in {msg[d], <<>>}
                       /\ flushing'[d] \in {flushing[d], NoToken}
  <2>1. CASE WriterDone(c)
    BY <1>0, <2>1, AckInvTypes DEF WriterDone
  <2>2. CASE UNCHANGED <<outgoing, msg>> /\ flushing' = [flushing EXCEPT ![c] = NoToken]
    BY <1>0, <2>2, AckInvTypes
  <2>. QED  BY <2>1, <2>2 DEF OutgoingWritten, WriteOutgoingFails, FlushFails, WriterExits
<1>3. \A d \in Conns : read_task'[d] # "run" => inbox'[d] = <<>>
  BY <1>1 DEF AckInv, AckRest, Idleness
<1>4. PICK u \in Tokens \cup {NoToken} :
         /\ \A t \in Tokens \ {u} : token'[t] = token[t]
         /\ token' = token \/ ~Outside(u)
         /\ \/ token' = token
            \/ u \in Tokens /\ token' = [token EXCEPT ![u] = SetError(@, "IOError")]
            \/ /\ u \in Tokens /\ token' = [token EXCEPT ![u] = FlowComplete(@)]
               /\ token[u].kind \notin AckedKinds /\ (BeforeSend => u # call.tok)
  <2>1. CASE OutgoingWritten(c)
    <3>1. flushing[c] \in Tokens
      BY <1>0, <2>1, AckInvTypes DEF OutgoingWritten
    <3>2. BeforeSend => flushing[c] # call.tok
      BY DEF AckInv, AckRest, CallInv, Outside
    <3>3. token' = IF token[flushing[c]].kind \in {"Publish0", "Disconnect"}
                   THEN [token EXCEPT ![flushing[c]] = FlowComplete(@)] ELSE token
      BY <2>1 DEF OutgoingWritten
    <3>4. token[flushing[c]].kind \in {"Publish0", "Disconnect"} => token[flushing[c]].kind \notin AckedKinds
      BY DEF AckedKinds
    <3>5. ~Outside(flushing[c])
      BY DEF Outside
    <3>. QED  BY <1>0, <3>1, <3>2, <3>3, <3>4, <3>5, AckInvTypes
  <2>2. CASE WriteOutgoingFails(c)
    <3>1. Head(outgoing[c]) \in Tokens
      BY <1>0, <2>2, QueueTypes DEF WriteOutgoingFails, LostInv, LiveInv, TypeInv, TypeOK
    <3>2. ~Outside(Head(outgoing[c]))
      <4>1. outgoing[c] \in Seq(Tokens) /\ outgoing[c] # <<>>
        BY <1>0, <2>2, AckInvTypes DEF WriteOutgoingFails
      <4>2. 1 \in 1 .. Len(outgoing[c]) /\ outgoing[c][1] = Head(outgoing[c])
        BY <4>1
      <4>. QED  BY <4>2 DEF Outside
    <3>. QED  BY <1>0, <2>2, <3>1, <3>2, AckInvTypes DEF WriteOutgoingFails
  <2>3. CASE FlushFails(c)
    <3>1. flushing[c] \in Tokens
      BY <1>0, <2>3, AckInvTypes DEF FlushFails
    <3>2. ~Outside(flushing[c])
      BY DEF Outside
    <3>. QED  BY <1>0, <2>3, <3>1, <3>2, AckInvTypes DEF FlushFails
  <2>4. CASE WriterExits(c)
    BY <2>4 DEF WriterExits
  <2>. QED  BY <2>1, <2>2, <2>3, <2>4
<1>5. /\ Names
      /\ \/ token'[u] = token[u]
         \/ token'[u].error = "IOError"
         \/ token[u].kind \notin AckedKinds /\ (BeforeSend => u # call.tok)
  <2>1. CASE token' = token
    BY <2>1 DEF Names
  <2>2. CASE u \in Tokens /\ token' = [token EXCEPT ![u] = SetError(@, "IOError")]
    BY <1>0, <2>2, AckInvTypes DEF Names, SetError, TokenStates
  <2>3. CASE /\ u \in Tokens /\ token' = [token EXCEPT ![u] = FlowComplete(@)]
             /\ token[u].kind \notin AckedKinds /\ (BeforeSend => u # call.tok)
    BY <1>0, <2>3, AckInvTypes DEF Names, FlowComplete, TokenStates
  <2>. QED  BY <1>4, <2>1, <2>2, <2>3
<1>. QED  BY <1>0, <1>1, <1>2, <1>3, <1>4, <1>5, Dropped

(* clean_up: the table is emptied, and its tokens have failed. *)
LEMMA CleanedUp ==
    ASSUME AckInv, LostInv', CleanUp(cur),
           UNCHANGED <<cur, call, outgoing, msg, flushing, wire, inbox, read_task>>,
           \A d \in Conns : supervisor'[d] = "run" => supervisor[d] = "run" /\ Empty(d) /\ pc = "idle",
           pc' = pc, bpc' = bpc \/ pc = "idle"
    PROVE  AckInv' /\ \A d \in Conns : supervisor'[d] = "run" => \A x : x \notin Carried(d)'
<1>. USE DEF AckInv, AckRest
<1>0. LostInv /\ CallInv /\ Numbered
  OBVIOUS
<1>1. /\ \A i \in Ids : index'[cur][i] = NoToken
      /\ \A t \in Tokens :
            token'[t] = IF t \in Registered(index[cur]) THEN SetError(token[t], "ConnectionLost") ELSE token[t]
  BY AckInvTypes DEF CleanUp, EmptyIndex
<1>2. Names /\ \A t \in Tokens : Succeeded(t)' => Succeeded(t)
  <2>1. \A t \in Tokens : token'[t] \in {token[t], SetError(token[t], "ConnectionLost")}
    BY <1>1
  <2>2. \A t \in Tokens : token[t] \in TokenStates
    BY <1>0, AckInvTypes
  <2>3. ASSUME NEW tk \in TokenStates, NEW new \in {tk, SetError(tk, "ConnectionLost")}
        PROVE  /\ new.kind = tk.kind /\ new.id = tk.id /\ new.topics = tk.topics
               /\ new.error = "None" => new = tk
    BY DEF SetError, TokenStates
  <2>. QED  BY <2>1, <2>2, <2>3 DEF Names, Succeeded
<1>3. Table'
  BY <1>1 DEF Table
<1>4. Numbered'
  BY <1>0, <1>2 DEF Numbered, Names
<1>5. CallInv'
  <2>1. BeforeSend \/ pc = "add_subs" => call.tok \in Tokens
    BY AckInvTypes
  <2>2. BeforeSend => Outside(call.tok)' /\ ~Succeeded(call.tok)'
    BY <1>0, <1>2, <2>1 DEF CallInv, Outside, Succeeded
  <2>3. pc = "get_id" => token'[call.tok] = token[call.tok]
    <3>1. \A t \in Registered(index[cur]) : t \in Tokens => token[t].id # 0
      BY AckInvTypes, PacketIdsAssumption DEF Table, Registered, Ids, PKID_MIN
    <3>. QED  BY <1>0, <1>1, <2>1, <3>1 DEF CallInv, BeforeSend
  <2>. QED  BY <1>0, <1>2, <2>1, <2>2, <2>3 DEF CallInv, Names, BeforeSend
<1>6. Idleness'
  BY DEF Idleness, Unused, Empty
<1>7. ASSUME NEW d \in Conns, supervisor'[d] = "run"
      PROVE  (Genuine(d) /\ Single(d))' /\ \A x : x \notin Carried(d)'
  <2>1. Empty(d)' /\ pc' = "idle"
    BY <1>7 DEF Empty
  <2>2. Len(<<>>) = 0 /\ \A k \in 1 .. 0 : FALSE
    OBVIOUS
  <2>3. ASSUME NEW x \in Carried(d)' PROVE FALSE
    <3>1. ~Calling(d)'
      BY <2>1 DEF Calling
    <3>. QED  BY <2>1, <2>2, <2>3, <3>1 DEF Carried, Empty
  <2>. QED  BY <2>3 DEF Genuine, Single
<1>. QED  BY <1>3, <1>4, <1>5, <1>6, <1>7 DEF Tracked

LEMMA TrackedCur ==
    ASSUME AckInv, LostInv', AckRest', NEW c \in Conns, c = cur, supervisor' = supervisor,
           supervisor[c] = "run" => (Genuine(c) /\ Single(c))'
    PROVE  AckInv'
<1>1. \A d \in Conns : supervisor[d] = "run" => d = cur
  BY LiveIsCur DEF AckInv
<1>2. Tracked'
  <2>. SUFFICES ASSUME NEW d \in Conns, supervisor'[d] = "run" PROVE (Genuine(d) /\ Single(d))'
    BY DEF Tracked
  <2>1. d = c
    BY <1>1
  <2>. QED  BY <2>1
<1>. QED  BY <1>2 DEF AckInv

LEMMA AckTasks ==
    ASSUME AckInv, LostInv', NEW c \in Conns, Scheduled(Tasks(c))
    PROVE  AckInv' /\ (supervisor'[c] = "run" => Follows(c))
<1>0. UNCHANGED userVars
  BY DEF Scheduled
<1>1. CASE HandlePuback(c) \/ HandlePubcomp(c) \/ HandleSuback(c) \/ HandleUnsuback(c)
  <2>1. /\ Reading(c) /\ inbox[c] # <<>> /\ Consume(c)
        /\ UNCHANGED <<pc, call, bpc, cur, outgoing, msg, flushing, wire, supervisor, read_task>>
        /\ UNCHANGED <<token, index>> \/ CompleteAndFree(c, Head(inbox[c]).id)
    BY <1>0, <1>1 DEF HandlePuback, HandlePubcomp, HandleSuback, HandleUnsuback, Receive,
                      userVars, clientVars, channelVars, taskVars
  <2>2. c = cur
    BY <2>1, LiveIsCur DEF Reading, AckInv
  <2>. QED  BY <2>1, <2>2, Acknowledged, TrackedCur
<1>2. CASE HandlePubrec(c)
  <2>1. c = cur /\ supervisor' = supervisor
    BY <1>2, LiveIsCur DEF HandlePubrec, Receive, Reading, AckInv
  <2>. QED  BY <1>0, <1>2, <2>1, PubrecHandled, TrackedCur
<1>3. CASE ReadBreak(c)
  <2>1. c = cur /\ supervisor[c] = "run" /\ LostInv
    BY <1>3, LiveIsCur DEF ReadBreak, Reading, AckInv
  <2>2. UNCHANGED <<pc, call, bpc, cur, token, index, supervisor, outgoing, msg, wire, flushing>>
    BY <1>0, <1>3 DEF ReadBreak, userVars, clientVars, idVars, channelVars
  <2>3. \A d \in Conns : inbox'[d] \in {inbox[d], <<>>} /\ (read_task'[d] # "run" => inbox'[d] = <<>>)
    <3>1. \A d \in Conns : /\ inbox'[d] = IF d = c THEN <<>> ELSE inbox[d]
                           /\ d # c => read_task'[d] = read_task[d]
      BY <1>3, <2>1, AckInvTypes DEF ReadBreak, ReaderDone, LostInv, LiveInv, TypeInv, TypeOK, StateTypeOK
    <3>. QED  BY <3>1 DEF AckInv, AckRest, Idleness
  <2>4. Names /\ \A t \in Tokens \ {NoToken} : token'[t] = token[t]
    BY <2>2 DEF Names
  <2>. QED  BY <2>1, <2>2, <2>3, <2>4, Dropped, TrackedCur
<1>4. CASE WriteMsg(c) \/ WriteMsgFails(c)
  <2>1. /\ Writing(c) /\ msg[c] # <<>>
        /\ UNCHANGED <<pc, call, bpc, cur, token, index, inbox, supervisor, read_task>>
        /\ Transmit(c, Head(msg[c])) \/ UNCHANGED wire
        /\ \/ msg' = [msg EXCEPT ![c] = Tail(@)] /\ UNCHANGED <<outgoing, flushing>>
           \/ WriterDone(c)
    BY <1>0, <1>4 DEF WriteMsg, WriteMsgFails, userVars, clientVars, idVars, taskVars
  <2>2. c = cur
    BY <2>1, LiveIsCur DEF Writing, AckInv
  <2>. QED  BY <2>1, <2>2, MsgWritten, TrackedCur
<1>5. CASE WriteOutgoing(c)
  <2>1. c = cur /\ supervisor' = supervisor
    BY <1>5, LiveIsCur DEF WriteOutgoing, Writing, taskVars, AckInv
  <2>. QED  BY <1>0, <1>5, <2>1, RequestWritten, TrackedCur
<1>6. CASE OutgoingWritten(c) \/ WriteOutgoingFails(c) \/ FlushFails(c) \/ WriterExits(c)
  <2>1. c = cur /\ supervisor' = supervisor
    <3>1. write_task[c] = "run" /\ supervisor' = supervisor
      BY <1>6 DEF OutgoingWritten, WriteOutgoingFails, FlushFails, WriterExits, Writing, taskVars
    <3>. QED  BY <3>1, LiveIsCur DEF AckInv
  <2>. QED  BY <1>0, <1>6, <2>1, WriterEnds, TrackedCur
<1>7. CASE Supervise(c)
  <2>1. c = cur
    BY <1>7, LiveIsCur DEF Supervise, AckInv
  <2>2. /\ CleanUp(cur) /\ pc' = pc /\ bpc' = bpc
        /\ UNCHANGED <<cur, call, outgoing, msg, flushing, wire, inbox, read_task>>
    BY <1>0, <1>7, <2>1 DEF Supervise, userVars, channelVars, netVars
  <2>3. \A d \in Conns : supervisor'[d] # "run"
    <3>1. supervisor \in [Conns -> {"none", "run", "done"}] /\ supervisor' = [supervisor EXCEPT ![c] = "done"]
      BY <1>7, LostInvTypes DEF Supervise, AckInv
    <3>2. \A d \in Conns : supervisor[d] = "run" => d = c
      BY <2>1, LiveIsCur DEF AckInv
    <3>. QED  BY <3>1, <3>2
  <2>. QED  BY <2>2, <2>3, CleanedUp
<1>. QED  BY <1>1, <1>2, <1>3, <1>4, <1>5, <1>6, <1>7
          DEF Scheduled, Tasks, ReadHandler, MsgArm, OutgoingArm, FlushEnds

------------------------------------------------------------------------------
(* The server answers, or the link breaks. *)
\* The answer to p, of the given type, takes its place.
AnsweredOnly(c, p, type) ==
    \A x \in Carried(c)' :
        Continues(x.p, p, type) \/ \E y \in Carried(c) : x.p = y.p /\ y.p.id # p.id

LEMMA Answered ==
    ASSUME AckInv, LostInv', NEW c \in Conns, NEW p \in wire[c], NEW type \in AckTypes, NEW granted,
           p.type # "Disconnect", Answer(c, p, type, granted),
           UNCHANGED <<pc, call, bpc, cur, token, index, outgoing, msg, flushing, supervisor, read_task>>
    PROVE  /\ AckRest'
           /\ supervisor[c] = "run" => (Genuine(c) /\ Single(c))'
           /\ supervisor[c] = "run" => AnsweredOnly(c, p, type)
<1>. DEFINE r == [p EXCEPT !.type = type, !.granted = granted]
            old == Item("wire", 0, p)
            new == Item("inbox", Len(inbox[c]) + 1, r)
<1>0. LostInv
  BY DEF AckInv
<1>1. /\ inbox[c] \in Seq(Packets(AckTypes)) /\ inbox \in [Conns -> Seq(Packets(AckTypes))]
      /\ wire \in [Conns -> SUBSET Packets(PacketTypes)] /\ p \in Packets(PacketTypes)
  BY <1>0, AckInvTypes
<1>2. /\ wire'[c] = wire[c] \ {p}
      /\ inbox'[c] \in {inbox[c], Append(inbox[c], r)}
      /\ \A d \in Conns : d # c => wire'[d] = wire[d] /\ inbox'[d] = inbox[d]
      /\ read_task[c] # "run" => inbox'[c] = inbox[c]
  BY <1>1 DEF Answer
<1>3. Names /\ \A t \in Tokens : Succeeded(t)' => Succeeded(t)
  BY DEF Names, Succeeded
<1>4. AckRest'
  <2>1. \A d \in Conns : Empty(d) => Empty(d)'
    BY <1>2 DEF Empty
  <2>2. \A d \in Conns : read_task'[d] # "run" => inbox'[d] = <<>>
    BY <1>2 DEF AckInv, AckRest, Idleness
  <2>. QED  BY <1>3, <2>1, <2>2, OutsideKept, RestKept
<1>5. ASSUME supervisor[c] = "run"
      PROVE  (Genuine(c) /\ Single(c))' /\ AnsweredOnly(c, p, type)
  <2>1. Genuine(c) /\ Single(c)
    BY <1>5 DEF AckInv, Tracked
  <2>2. old \in Carried(c)
    BY CarriedCases
  <2>3. new.p.id = old.p.id /\ new.p.tok = old.p.tok
    <3>1. r.id = p.id /\ r.tok = p.tok
      BY <1>1 DEF Packets
    <3>. HIDE DEF r
    <3>. QED  BY <3>1, ItemFields
  <2>4. ASSUME NEW x \in Carried(c)'
        PROVE  /\ x = Item(x.at, x.k, x.p) /\ x.at # "none"
               /\ x = new \/ (x \in Carried(c) /\ x # old)
    <3>. HIDE DEF r
    <3>1. /\ x = Item(x.at, x.k, x.p) /\ x.at \in {"call", "outgoing", "msg", "inbox", "wire"}
          /\ x.at # "inbox" => x \in Carried(c) /\ x # old
          /\ x.at = "inbox" => \E k \in 1 .. Len(inbox'[c]) : x = Item("inbox", k, inbox'[c][k])
      <4>1. old.at = "wire" /\ old.p = p
        BY ItemFields
      <4>. HIDE DEF old, new
      <4>. QED  BY <1>0, <1>2, <1>3, <4>1, Origins
    <3>2. x.at = "inbox" => x # old
      BY ItemFields
    <3>3. ASSUME NEW k \in 1 .. Len(inbox'[c]), x = Item("inbox", k, inbox'[c][k]), x # new
          PROVE  x \in Carried(c)
      <4>1. k \in 1 .. Len(inbox[c]) /\ inbox'[c][k] = inbox[c][k]
        <5>1. CASE inbox'[c] = inbox[c]
          BY <5>1
        <5>2. CASE inbox'[c] = Append(inbox[c], r)
          <6>. HIDE DEF r
          <6>1. Len(inbox'[c]) = Len(inbox[c]) + 1 /\ Len(inbox[c]) \in Nat
                /\ inbox'[c][Len(inbox[c]) + 1] = r
                /\ \A j \in 1 .. Len(inbox[c]) : inbox'[c][j] = inbox[c][j]
            BY <1>1, <5>2
          <6>2. k # Len(inbox[c]) + 1
            BY <3>3, <6>1
          <6>. QED  BY <6>1, <6>2
        <5>. QED  BY <1>2, <5>1, <5>2
      <4>. HIDE DEF new
      <4>. QED  BY <3>3, <4>1, CarriedCases
    <3>. HIDE DEF new, old
    <3>. QED  BY <3>1, <3>2, <3>3
  <2>5. \A x \in Carried(c)' : index'[c][x.p.id] = index[c][x.p.id] /\ token'[x.p.tok] = token[x.p.tok]
    OBVIOUS
  <2>7. AnsweredOnly(c, p, type)
    <3>1. new.p = r /\ old.p = p
      BY ItemFields
    <3>2. r.id = p.id /\ r.tok = p.tok /\ r.type = type
      BY <1>1 DEF Packets
    <3>. HIDE DEF new, old, r
    <3>. QED  BY <2>1, <2>2, <2>4, <3>1, <3>2 DEF Single, AnsweredOnly, Continues
  <2>. HIDE DEF new, old, r
  <2>6. MovesOne(c, "none", old, new)
    BY <2>4, <2>5 DEF MovesOne, Shift
  <2>. QED  BY <2>1, <2>2, <2>3, <2>6, <2>7, OneMoves
<1>. QED  BY <1>4, <1>5

(* Packets are dropped, or the tokens change, with nothing left on a dead connection. *)
LEMMA TrackedLive ==
    ASSUME AckInv, AckRest', LostInv', supervisor' = supervisor,
           \A c \in Conns : c = cur /\ supervisor[c] = "run" => (Genuine(c) /\ Single(c))'
    PROVE  AckInv'
<1>1. \A d \in Conns : supervisor[d] = "run" => d = cur
  BY LiveIsCur DEF AckInv
<1>2. Tracked'
  BY <1>1 DEF Tracked
<1>. QED  BY <1>2 DEF AckInv

LEMMA NothingInEmpty == ~\E k \in 1 .. Len(<<>>) : TRUE
<1>1. Len(<<>>) = 0
  OBVIOUS
<1>. QED  BY <1>1

\* A link that breaks may take with it what is on its way in both directions.
LEMMA BrokenLinkLoses ==
    ASSUME NEW c \in Conns, LinkBreaks(c),
           wire \in [Conns -> SUBSET Packets(PacketTypes)], inbox \in [Conns -> Seq(Packets(AckTypes))],
           NEW d \in Conns
    PROVE  inbox'[d] \in {inbox[d], <<>>} /\ wire'[d] \subseteq wire[d]
<1>1. wire' = [wire EXCEPT ![c] = {}]
  BY DEF LinkBreaks
<1>2. CASE inbox' = inbox
  BY <1>1, <1>2
<1>3. CASE inbox' = [inbox EXCEPT ![c] = <<>>]
  <2>1. PICK e : e = <<>>
    OBVIOUS
  <2>2. inbox' = [inbox EXCEPT ![c] = e]
    BY <1>3, <2>1
  <2>3. inbox'[d] = IF d = c THEN e ELSE inbox[d]
    BY <2>2
  <2>. QED  BY <1>1, <2>1, <2>3
<1>. QED  BY <1>2, <1>3 DEF LinkBreaks

LEMMA AckEnvironment ==
    ASSUME AckInv, LostInv', Environment, UNCHANGED userVars
    PROVE  AckInv'
<1>. USE DEF userVars, clientVars, idVars, channelVars, taskVars, netVars
<1>0. /\ UNCHANGED <<pc, call, bpc, cur, token, index, outgoing, msg, flushing, supervisor, read_task>>
      /\ LostInv
  BY DEF Environment, AckInv
<1>1. Names
  BY <1>0 DEF Names
<1>2. ASSUME NEW c \in Conns, NEW p \in wire[c], NEW type \in AckTypes, NEW granted,
             p.type # "Disconnect", Answer(c, p, type, granted)
      PROVE  AckInv'
  <2>1. /\ AckRest'
        /\ supervisor[c] = "run" => (Genuine(c) /\ Single(c))'
    BY <1>0, <1>2, Answered
  <2>2. ASSUME NEW d \in Conns, d # c, supervisor[d] = "run"
        PROVE  (Genuine(d) /\ Single(d))'
    <3>1. Genuine(d) /\ Single(d)
      BY <2>2 DEF AckInv, Tracked
    <3>2. inbox'[d] = inbox[d] /\ wire'[d] = wire[d]
      <4>1. /\ inbox \in [Conns -> Seq(Packets(AckTypes))]
            /\ wire \in [Conns -> SUBSET Packets(PacketTypes)]
        BY <1>0, AckInvTypes
      <4>. QED  BY <1>2, <2>2, <4>1 DEF Answer
    <3>3. Carried(d)' \subseteq Carried(d)
      BY <1>0, <1>1, <3>2, Origins
    <3>4. \A x \in Carried(d)' : index'[d][x.p.id] = index[d][x.p.id] /\ token'[x.p.tok] = token[x.p.tok]
      BY <1>0
    <3>. QED  BY <3>1, <3>3, <3>4, Fewer
  <2>. QED  BY <1>0, <2>1, <2>2, TrackedLive
<1>3. ASSUME \A d \in Conns : inbox'[d] \in {inbox[d], <<>>} /\ wire'[d] \subseteq wire[d]
      PROVE  AckInv'
  <2>1. /\ \A d \in Conns : read_task'[d] # "run" => inbox'[d] = <<>>
        /\ \A d \in Conns : Empty(d) => Empty(d)'
        /\ \A t \in Tokens : Succeeded(t)' => Succeeded(t)
    BY <1>0, <1>3 DEF AckInv, AckRest, Idleness, Empty, Succeeded
  <2>2. AckRest'
    BY <1>0, <1>1, <2>1, OutsideKept, RestKept
  <2>3. ASSUME NEW d \in Conns, supervisor[d] = "run"
        PROVE  (Genuine(d) /\ Single(d))'
    <3>1. Genuine(d) /\ Single(d)
      BY <2>3 DEF AckInv, Tracked
    <3>2. inbox'[d] \in {inbox[d], <<>>} /\ wire'[d] \subseteq wire[d]
      BY <1>3
    <3>3. Carried(d)' \subseteq Carried(d)
      BY <1>0, <1>1, <3>2, Origins, NothingInEmpty
    <3>4. \A x \in Carried(d)' : index'[d][x.p.id] = index[d][x.p.id] /\ token'[x.p.tok] = token[x.p.tok]
      BY <1>0
    <3>. QED  BY <3>1, <3>3, <3>4, Fewer
  <2>. QED  BY <1>0, <2>2, <2>3, TrackedLive
<1>4. ASSUME NEW c \in Conns, NEW p \in wire[c], Serve(c, p)
      PROVE  AckInv'
  <2>1. CASE p.type = "Disconnect"
    <3>1. wire \in [Conns -> SUBSET Packets(PacketTypes)]
      BY <1>0, AckInvTypes
    <3>2. wire' = [wire EXCEPT ![c] = {}] /\ inbox' = inbox
      BY <1>4, <2>1 DEF Serve
    <3>3. \A d \in Conns : wire'[d] \subseteq wire[d]
      BY <3>1, <3>2
    <3>. QED  BY <1>3, <3>2, <3>3
  <2>2. CASE p.type # "Disconnect"
    <3>1. \/ Answer(c, p, "Puback", {})
          \/ Answer(c, p, "Pubrec", {})
          \/ Answer(c, p, "Pubcomp", {})
          \/ \E granted \in SUBSET token[p.tok].topics : Answer(c, p, "Suback", granted)
          \/ Answer(c, p, "Unsuback", {})
      BY <1>4, <2>2, Zenon DEF Serve
    <3>2. {"Puback", "Pubrec", "Pubcomp", "Suback", "Unsuback"} \subseteq AckTypes
      BY DEF AckTypes
    <3>3. CASE Answer(c, p, "Puback", {})
      BY <1>2, <2>2, <3>2, <3>3
    <3>4. CASE Answer(c, p, "Pubrec", {})
      BY <1>2, <2>2, <3>2, <3>4
    <3>5. CASE Answer(c, p, "Pubcomp", {})
      BY <1>2, <2>2, <3>2, <3>5
    <3>6. CASE \E granted \in SUBSET token[p.tok].topics : Answer(c, p, "Suback", granted)
      BY <1>2, <2>2, <3>2, <3>6
    <3>7. CASE Answer(c, p, "Unsuback", {})
      BY <1>2, <2>2, <3>2, <3>7
    <3>. QED  BY <3>1, <3>3, <3>4, <3>5, <3>6, <3>7
  <2>. QED  BY <2>1, <2>2
<1>5. ASSUME NEW c \in Conns, LinkBreaks(c)
      PROVE  AckInv'
  <2>1. /\ wire \in [Conns -> SUBSET Packets(PacketTypes)]
        /\ inbox \in [Conns -> Seq(Packets(AckTypes))]
    BY <1>0, AckInvTypes
  <2>. QED  BY <1>3, <1>5, <2>1, BrokenLinkLoses
<1>6. CASE SessionLost
  BY <1>3, <1>6 DEF SessionLost
<1>. QED  BY <1>4, <1>5, <1>6 DEF Environment

------------------------------------------------------------------------------
(* The user's task. *)
LEMMA CarriedPrimed ==
    ASSUME NEW c, NEW x
    PROVE  x \in Carried(c)' <=>
              \/ Calling(c)' /\ x = Item("call", 0, RequestPacket(call.tok)')
              \/ \E k \in 1 .. Len(outgoing'[c]) :
                    /\ token'[outgoing'[c][k]].kind \in AckedKinds
                    /\ x = Item("outgoing", k, Packet(token'[outgoing'[c][k]].kind,
                                                      token'[outgoing'[c][k]].id, outgoing'[c][k]))
              \/ \E k \in 1 .. Len(msg'[c]) : x = Item("msg", k, msg'[c][k])
              \/ \E k \in 1 .. Len(inbox'[c]) : x = Item("inbox", k, inbox'[c][k])
              \/ \E p \in wire'[c] : p.type # "Disconnect" /\ x = Item("wire", 0, p)
<1>1. \A k : RequestPacket(outgoing[c][k])' =
                Packet(token'[outgoing'[c][k]].kind, token'[outgoing'[c][k]].id, outgoing'[c][k])
  BY DEF RequestPacket
<1>2. x \in Carried(c)' <=>
              \/ Calling(c)' /\ x = Item("call", 0, RequestPacket(call.tok)')
              \/ \E k \in 1 .. Len(outgoing'[c]) :
                    /\ token'[outgoing'[c][k]].kind \in AckedKinds
                    /\ x = Item("outgoing", k, RequestPacket(outgoing[c][k])')
              \/ \E k \in 1 .. Len(msg'[c]) : x = Item("msg", k, msg'[c][k])
              \/ \E k \in 1 .. Len(inbox'[c]) : x = Item("inbox", k, inbox'[c][k])
              \/ \E p \in wire'[c] : p.type # "Disconnect" /\ x = Item("wire", 0, p)
  BY Zenon DEF Carried, Item
<1>. QED  BY <1>1, <1>2

\* The tokens of the requests in the outgoing channel keep their names.
SameNames(c) ==
    \A k \in 1 .. Len(outgoing[c]) :
        /\ token'[outgoing[c][k]].kind = token[outgoing[c][k]].kind
        /\ token'[outgoing[c][k]].id = token[outgoing[c][k]].id

(* A step of the user puts nothing on a connection but its own request. *)
LEMMA UserCarried ==
    ASSUME NEW c \in Conns, SameNames(c), outgoing'[c] = outgoing[c], msg'[c] = msg[c],
           inbox'[c] = inbox[c], wire'[c] \subseteq wire[c],
           NEW x \in Carried(c)'
    PROVE  \/ x \in Carried(c) /\ x.at # "call"
           \/ Calling(c)' /\ x = Item("call", 0, RequestPacket(call.tok)')
<1>. SUFFICES ASSUME ~(Calling(c)' /\ x = Item("call", 0, RequestPacket(call.tok)'))
              PROVE  x \in Carried(c) /\ x.at # "call"
  OBVIOUS
<1>1. CASE \E k \in 1 .. Len(outgoing'[c]) :
              /\ token'[outgoing'[c][k]].kind \in AckedKinds
              /\ x = Item("outgoing", k, Packet(token'[outgoing'[c][k]].kind,
                                                token'[outgoing'[c][k]].id, outgoing'[c][k]))
  <2>1. PICK k \in 1 .. Len(outgoing[c]) :
              /\ token[outgoing[c][k]].kind \in AckedKinds
              /\ x = Item("outgoing", k, Packet(token[outgoing[c][k]].kind,
                                                token[outgoing[c][k]].id, outgoing[c][k]))
    BY <1>1 DEF SameNames
  <2>2. x = Item("outgoing", k, RequestPacket(outgoing[c][k]))
    BY <2>1 DEF RequestPacket
  <2>3. x \in Carried(c)
    BY <2>1, <2>2, CarriedCases
  <2>. QED  BY <2>2, <2>3, ItemFields
<1>2. CASE \E k \in 1 .. Len(msg'[c]) : x = Item("msg", k, msg'[c][k])
  BY <1>2, CarriedCases, ItemFields
<1>3. CASE \E k \in 1 .. Len(inbox'[c]) : x = Item("inbox", k, inbox'[c][k])
  BY <1>3, CarriedCases, ItemFields
<1>4. CASE \E p \in wire'[c] : p.type # "Disconnect" /\ x = Item("wire", 0, p)
  BY <1>4, CarriedCases, ItemFields
<1>. QED  BY <1>1, <1>2, <1>3, <1>4, CarriedPrimed

\* The identifier of a packet in flight is that of its token, which is registered.
LEMMA CarriedToken ==
    ASSUME AckInv, NEW c \in Conns, supervisor[c] = "run", NEW x \in Carried(c)
    PROVE  /\ c = cur
           /\ x.p.id \in Ids /\ x.p.id # 0 /\ x.p.tok \in Tokens
           /\ index[c][x.p.id] = x.p.tok
           /\ token[x.p.tok].id = x.p.id
           /\ token[x.p.tok].kind \in AckedKinds
           /\ ~Succeeded(x.p.tok)
           /\ token[x.p.tok].complete => token[x.p.tok].error = "IOError"
<1>1. c = cur /\ LostInv
  BY LiveIsCur DEF AckInv
<1>2. /\ x.p.id \in Ids /\ index[c][x.p.id] = x.p.tok
      /\ token[x.p.tok].complete => token[x.p.tok].error = "IOError"
  BY DEF AckInv, Tracked, Genuine
<1>3. x.p.tok \in Tokens
  BY <1>1, CarriedType
<1>4. x.p.id # 0
  BY <1>2, PacketIdsAssumption DEF Ids, PKID_MIN
<1>. QED  BY <1>1, <1>2, <1>3, <1>4, AckInvTypes DEF AckInv, AckRest, Table

(* Nothing is asked for: the user's task moves on. *)
LEMMA UserMoves ==
    ASSUME AckInv, LostInv',
           UNCHANGED <<token, index, cur, outgoing, msg, flushing, inbox, read_task, supervisor>>,
           \A c \in Conns : wire'[c] \subseteq wire[c],
           Unused' => Unused \/ \A c \in Conns : supervisor[c] # "run",
           bpc' = "connect" => pc' \in {"idle", "transport", "connack", "spawned"},
           \/ pc' \in {"idle", "transport", "connack", "spawned"}
           \/ call' = call /\ (pc' = pc \/ (pc = "send" /\ pc' = "blocked"))
    PROVE  AckInv' /\ \A c \in Conns : supervisor[c] = "run" => Follows(c)
<1>. USE DEF AckInv, AckRest
<1>1. Table' /\ Numbered'
  BY DEF Table, Numbered, Succeeded
<1>2. CallInv'
  BY DEF CallInv, BeforeSend, Outside, Succeeded
<1>3. Idleness'
  BY DEF Idleness, Empty
<1>4. ASSUME NEW c \in Conns, supervisor[c] = "run"
      PROVE  (Genuine(c) /\ Single(c))' /\ Follows(c)
  <2>1. Genuine(c) /\ Single(c)
    BY <1>4 DEF Tracked
  <2>2. ASSUME Calling(c)'
        PROVE  Calling(c) /\ call' = call
    BY <2>2 DEF Calling
  <2>3. Calling(c)' => RequestPacket(call.tok)' = RequestPacket(call.tok)
    BY <2>2 DEF RequestPacket
  <2>4. SameNames(c)
    BY DEF SameNames
  <2>5. ASSUME NEW x \in Carried(c)' PROVE x \in Carried(c)
    BY <2>2, <2>3, <2>4, UserCarried, CarriedCases
  <2>6. \A x \in Carried(c)' : index'[c][x.p.id] = index[c][x.p.id] /\ token'[x.p.tok] = token[x.p.tok]
    OBVIOUS
  <2>. QED  BY <2>1, <2>5, <2>6, Fewer DEF Follows
<1>. QED  BY <1>1, <1>2, <1>3, <1>4 DEF Tracked

LEMMA AckConnect ==
    ASSUME AckInv, LostInv', Connect \/ TransportConnected \/ ConnectFails \/ ConnectReturns \/ BlockReconnects
    PROVE  AckInv' /\ \A c \in Conns : supervisor[c] = "run" => Follows(c)
<1>. USE DEF clientVars, idVars, channelVars, taskVars, netVars, blockVars
<1>1. CASE Connect
  BY <1>1, UserMoves DEF Connect, Idle, StartConnect, Unused
<1>2. CASE TransportConnected
  BY <1>2, UserMoves DEF TransportConnected, Unused
<1>3. CASE ConnectFails
  <2>1. \A c \in Conns : supervisor[c] # "run"
    BY <1>3 DEF ConnectFails, AckInv, LostInv, LiveInv, OneLiveConnection
  <2>2. \A c \in Conns : wire'[c] \subseteq wire[c]
    BY <1>3 DEF ConnectFails, Accept
  <2>. QED  BY <1>3, <2>1, <2>2, UserMoves DEF ConnectFails
<1>4. CASE ConnectReturns
  BY <1>4, UserMoves DEF ConnectReturns, Unused
<1>5. CASE BlockReconnects
  <2>1. connect_status = "Disconnected"
    BY <1>5 DEF BlockReconnects, AckInv, LostInv, PermitInv, PermitIsCurrent
  <2>. QED  BY <1>5, <2>1, UserMoves DEF BlockReconnects, StartConnect, Unused
<1>. QED  BY <1>1, <1>2, <1>3, <1>4, <1>5

\* The new connection starts with the table of the last one, and with nothing in flight.
LEMMA AckConnackAccepted ==
    ASSUME AckInv, LostInv', NEW present \in BOOLEAN, cur < MaxConns, ConnackAccepted(present)
    PROVE  AckInv' /\ \A d \in Conns : supervisor'[d] = "run" => \A x : x \notin Carried(d)'
<1>. USE DEF AckInv, AckRest
<1>0. LostInv
  OBVIOUS
<1>1. /\ \A d \in Conns : supervisor[d] # "run"
      /\ cur' = cur + 1 /\ pc' = "spawned" /\ call' = call /\ bpc' = bpc
      /\ supervisor' = [supervisor EXCEPT ![cur + 1] = "run"]
      /\ read_task' = [read_task EXCEPT ![cur + 1] = "run"]
      /\ index' = Inherit(index, EmptyIndex)
      /\ wire' = [d \in Conns |-> {}]
      /\ UNCHANGED <<token, outgoing, msg, flushing, inbox>>
      /\ bpc = "connect" => pc' \in {"idle", "transport", "connack", "spawned"}
  BY DEF LostInv, LiveInv, OneLiveConnection, ConnackAccepted, Accept, channelVars, blockVars
<1>2. /\ cur \in Nat /\ cur + 1 \in Conns /\ cur + 1 \in States
      /\ \A d \in Conns : d > cur + 1 => d > cur
      /\ supervisor \in [Conns -> {"none", "run", "done"}]
      /\ read_task \in [Conns -> {"none", "run", "done"}]
  BY ClientStateAssumption DEF LostInv, LiveInv, TypeInv, TypeOK, StateTypeOK, States, Conns
<1>3. index'[cur'] = index[cur]
  BY <1>1, <1>2 DEF Inherit
<1>4. Table' /\ Numbered'
  BY <1>1, <1>3 DEF Table, Numbered, Succeeded
<1>5. CallInv'
  BY <1>1 DEF CallInv, BeforeSend
<1>6. PICK n \in Conns : n = cur + 1
  BY <1>2
<1>7. Empty(n)'
  <2>1. Empty(n)
    BY <1>2, <1>6 DEF Idleness
  <2>. QED  BY <1>1, <2>1 DEF Empty
<1>8. \A d \in Conns : supervisor'[d] = "run" => d = n
  BY <1>1, <1>2, <1>6
<1>9. \A d \in Conns : read_task'[d] # "run" => read_task[d] # "run"
  BY <1>1, <1>2, <1>6
<1>10. Idleness'
  <2>1. \A d \in Conns : d > cur' => Empty(d)'
    BY <1>1, <1>2 DEF Idleness, Empty
  <2>2. \A d \in Conns : read_task'[d] # "run" => inbox'[d] = <<>>
    BY <1>1, <1>9 DEF Idleness
  <2>. QED  BY <1>1, <1>7, <1>8, <2>1, <2>2 DEF Idleness
<1>11. Tracked' /\ \A d \in Conns : supervisor'[d] = "run" => \A x : x \notin Carried(d)'
  <2>1. \A x : x \notin Carried(n)'
    <3>1. ~Calling(n)'
      BY <1>1 DEF Calling
    <3>2. Len(<<>>) = 0 /\ \A k \in 1 .. 0 : FALSE
      OBVIOUS
    <3>. QED  BY <1>7, <3>1, <3>2, CarriedPrimed DEF Empty
  <2>. QED  BY <1>8, <2>1 DEF Tracked, Genuine, Single
<1>. QED  BY <1>4, <1>5, <1>10, <1>11

\* A request starts with a token that nothing refers to.
LEMMA AckStartRequest ==
    ASSUME AckInv, LostInv', NEW t \in Tokens, NEW kind \in RequestKinds, NEW topics, NEW valid,
           StartRequest(t, kind, topics, valid), pc = "idle", bpc # "connect",
           UNCHANGED <<bpc, cur, index, outgoing, msg, flushing, inbox, wire, read_task, supervisor>>
    PROVE  /\ AckInv'
           /\ \A c \in Conns : supervisor[c] = "run" =>
                 Follows(c) /\ \A x \in Carried(c) : x.p.tok \in Tokens \ {t}
<1>. USE DEF AckInv, AckRest
<1>0. LostInv
  OBVIOUS
<1>1. /\ \A s \in States : s = cur \/ (s # 0 /\ supervisor[s] = "run") => t \notin Registered(index[s])
      /\ Outside(t)
  BY DEF StartRequest, Fresh, Outside
<1>2. PICK tk : /\ token' = [token EXCEPT ![t] = tk]
                /\ tk.kind = kind /\ tk.id = 0 /\ tk.topics = topics
                /\ \/ call' = NoCall /\ pc' = pc
                   \/ /\ tk.complete = FALSE
                      /\ call' = [kind |-> kind, tok |-> t, topics |-> topics, valid |-> valid]
                      /\ (kind \in AckedKinds /\ pc' = "get_id") \/ (kind \notin AckedKinds /\ pc' = "send")
  <2>. DEFINE new == NewToken(kind, topics)
  <2>1. /\ new.kind = kind /\ new.id = 0 /\ new.topics = topics /\ new.complete = FALSE
        /\ \A e : /\ SetError(new, e).kind = kind /\ SetError(new, e).id = 0
                  /\ SetError(new, e).topics = topics
    BY DEF NewToken, SetError
  <2>. HIDE DEF new
  <2>2. \/ token' = [token EXCEPT ![t] = SetError(new, "ConnectionLost")] /\ call' = NoCall /\ pc' = pc
        \/ token' = [token EXCEPT ![t] = SetError(new, "InvalidTopic")] /\ call' = NoCall /\ pc' = pc
        \/ /\ token' = [token EXCEPT ![t] = new]
           /\ call' = [kind |-> kind, tok |-> t, topics |-> topics, valid |-> valid]
           /\ (kind \in AckedKinds /\ pc' = "get_id") \/ (kind \notin AckedKinds /\ pc' = "send")
    BY DEF StartRequest, new
  <2>. QED  BY <2>1, <2>2
<1>3. token'[t] = tk /\ \A u \in Tokens \ {t} : token'[u] = token[u]
  BY <1>0, <1>2, AckInvTypes
<1>5. Table'
  <2>1. \A i \in Ids : index[cur][i] # t
    BY <1>0, <1>1, AckInvTypes DEF Registered
  <2>. QED  BY <1>0, <1>3, <2>1, AckInvTypes DEF Table, Succeeded
<1>6. Numbered'
  BY <1>2, <1>3 DEF Numbered
<1>7. CallInv'
  BY <1>0, <1>1, <1>2, <1>3 DEF CallInv, BeforeSend, Outside, Succeeded, StartRequest
<1>8. Idleness'
  BY <1>0, <1>2 DEF Idleness, Empty, Unused
<1>9. ASSUME NEW c \in Conns, supervisor[c] = "run"
      PROVE  (Genuine(c) /\ Single(c))' /\ Follows(c) /\ \A x \in Carried(c) : x.p.tok \in Tokens \ {t}
  <2>1. Genuine(c) /\ Single(c)
    BY <1>9 DEF Tracked
  <2>2. ~Calling(c)'
    BY <1>2 DEF Calling
  <2>3. SameNames(c)
    <3>1. \A k \in 1 .. Len(outgoing[c]) : outgoing[c][k] \in Tokens \ {t}
      BY <1>0, <1>1, AckInvTypes DEF Outside
    <3>. QED  BY <1>3, <3>1 DEF SameNames
  <2>4. \A x \in Carried(c)' : x \in Carried(c)
    BY <2>2, <2>3, UserCarried
  <2>5. ASSUME NEW x \in Carried(c)
        PROVE  x.p.tok \in Tokens \ {t}
    <3>1. x.p.id \in Ids /\ index[c][x.p.id] = x.p.tok /\ x.p.tok \in Tokens /\ c = cur
      BY <1>9, CarriedToken
    <3>2. x.p.tok \in Registered(index[cur])
      BY <1>0, <3>1, AckInvTypes DEF Registered
    <3>. QED  BY <1>0, <1>1, <3>1, <3>2, AckInvTypes
  <2>6. \A x \in Carried(c)' : index'[c][x.p.id] = index[c][x.p.id] /\ token'[x.p.tok] = token[x.p.tok]
    BY <1>3, <2>4, <2>5
  <2>. QED  BY <2>1, <2>4, <2>5, <2>6, Fewer DEF Follows
<1>. QED  BY <1>5, <1>6, <1>7, <1>8, <1>9 DEF Tracked

\* The call is over, and its token has failed or got its subscriptions.
LEMMA AckReturns ==
    ASSUME AckInv, LostInv', SendToClosed \/ AddSubscriptions
    PROVE  AckInv' /\ Names /\ \A c \in Conns : supervisor[c] = "run" => Follows(c)
<1>. USE DEF AckInv, AckRest
<1>. DEFINE u == call.tok
<1>0. /\ LostInv /\ u \in Tokens
      /\ pc \in {"send", "blocked", "add_subs"} /\ bpc # "connect" /\ bpc' = bpc
      /\ UNCHANGED <<cur, index, outgoing, msg, flushing, inbox, wire, read_task, supervisor>>
  BY AckInvTypes DEF SendToClosed, AddSubscriptions, BeforeSend, Idleness, clientVars, idVars,
                     channelVars, taskVars, netVars, blockVars
<1>1. PICK tk : /\ token' = [token EXCEPT ![u] = tk]
                /\ \/ tk = [token[u] EXCEPT !.subs = call.topics] /\ AddSubscriptions
                   \/ tk = SetError(token[u], "InternalServerError") /\ SendToClosed
  BY <1>0, AckInvTypes DEF SendToClosed, AddSubscriptions
<1>2. /\ tk.kind = token[u].kind /\ tk.id = token[u].id /\ tk.topics = token[u].topics
      /\ \/ tk.complete = token[u].complete /\ tk.error = token[u].error /\ AddSubscriptions
         \/ tk.complete /\ tk.error # "None" /\ SendToClosed
  <2>1. token[u] \in TokenStates
    BY <1>0, AckInvTypes
  <2>. HIDE DEF u
  <2>2. CASE tk = [token[u] EXCEPT !.subs = call.topics] /\ AddSubscriptions
    BY <2>1, <2>2 DEF TokenStates
  <2>3. CASE tk = SetError(token[u], "InternalServerError") /\ SendToClosed
    BY <2>1, <2>3 DEF TokenStates, SetError
  <2>. QED  BY <1>1, <2>2, <2>3
<1>3. token'[u] = tk /\ \A t \in Tokens \ {u} : token'[t] = token[t]
  BY <1>0, <1>1, AckInvTypes
<1>4. pc' = "idle" \/ (pc' = "add_subs" /\ call' = call)
  BY DEF SendToClosed, AddSubscriptions, Sent, Return
<1>. HIDE DEF u
<1>5. Names /\ \A t \in Tokens : Succeeded(t)' => Succeeded(t)
  BY <1>2, <1>3 DEF Names, Succeeded
<1>6. Table'
  BY <1>0, <1>5, AckInvTypes DEF Table, Names, Succeeded
<1>7. Numbered'
  BY <1>5 DEF Numbered, Names
<1>8. CallInv'
  BY <1>0, <1>2, <1>3, <1>4 DEF CallInv, BeforeSend, u
<1>9. Idleness'
  BY <1>0, <1>4 DEF Idleness, Empty, Unused
<1>10. ASSUME NEW c \in Conns, supervisor[c] = "run"
       PROVE  (Genuine(c) /\ Single(c))' /\ Follows(c)
  <2>1. Genuine(c) /\ Single(c)
    BY <1>10 DEF Tracked
  <2>2. ~Calling(c)'
    BY <1>4 DEF Calling
  <2>3. SameNames(c)
    BY <1>0, <1>5, AckInvTypes DEF SameNames, Names
  <2>4. \A x \in Carried(c)' : x \in Carried(c) /\ x.at # "call"
    BY <1>0, <2>2, <2>3, UserCarried
  <2>5. ASSUME NEW x \in Carried(c), x.at # "call", SendToClosed
        PROVE  x.p.tok # u
    <3>1. /\ x.p.tok \in Tokens /\ c = cur /\ token[x.p.tok].id = x.p.id
          /\ token[x.p.tok].kind \in AckedKinds
      BY <1>10, CarriedToken
    <3>2. ASSUME x.p.tok = u PROVE FALSE
      <4>1. Calling(c)
        BY <2>5, <3>1, <3>2 DEF Calling, SendToClosed, CallInv, BeforeSend, u
      <4>2. Item("call", 0, RequestPacket(u)) \in Carried(c)
        BY <4>1, CarriedCases DEF u
      <4>3. Item("call", 0, RequestPacket(u)).p.id = token[u].id
        BY ItemFields DEF RequestPacket, Packet
      <4>4. x = Item("call", 0, RequestPacket(u))
        BY <2>1, <3>1, <3>2, <4>2, <4>3 DEF Single
      <4>. QED  BY <2>5, <4>4, ItemFields
    <3>. QED  BY <3>2
  <2>6. ASSUME NEW x \in Carried(c)'
        PROVE  /\ index'[c][x.p.id] = index[c][x.p.id]
               /\ token'[x.p.tok].complete = token[x.p.tok].complete
               /\ token'[x.p.tok].error = token[x.p.tok].error
    <3>1. x.p.tok \in Tokens
      BY <1>0, <2>4, CarriedType
    <3>. QED  BY <1>0, <1>2, <1>3, <2>4, <2>5, <3>1
  <2>. QED  BY <2>1, <2>4, <2>6, Fewer DEF Follows
<1>. QED  BY <1>0, <1>5, <1>6, <1>7, <1>8, <1>9, <1>10 DEF Tracked

\* The only new packet is that of the call, under an identifier that was vacant.
OnlyCalls(c) ==
    \A x \in Carried(c)' :
        \/ x \in Carried(c)
        \/ index[c][x.p.id] = NoToken /\ x.p.type = call.kind /\ x.p.tok = call.tok

\* The identifier was vacant: no packet in flight carries it.
LEMMA AckGetId ==
    ASSUME AckInv, LostInv', GetId
    PROVE  /\ AckInv'
           /\ \A t \in Tokens : token'[t].kind = token[t].kind
           /\ \A c \in Conns : supervisor[c] = "run" => OnlyCalls(c)
<1>. USE DEF AckInv, AckRest
<1>. DEFINE u == call.tok
            id == NextVacant(index[cur], last_issued_id[cur])
<1>0. /\ LostInv /\ u \in Tokens /\ cur \in States
      /\ token[u].id = 0 /\ ~token[u].complete /\ token[u].kind = call.kind /\ call.kind \in AckedKinds
      /\ token[u].topics = call.topics
      /\ Outside(u) /\ bpc # "connect" /\ bpc' = bpc
      /\ UNCHANGED <<cur, outgoing, msg, flushing, inbox, wire, read_task, supervisor>>
      /\ id # 0 => id \in Ids /\ index[cur][id] = NoToken
  <2>1. /\ LostInv /\ u \in Tokens /\ cur \in States
        /\ token[u].id = 0 /\ ~token[u].complete /\ token[u].kind = call.kind /\ call.kind \in AckedKinds
        /\ token[u].topics = call.topics
        /\ Outside(u) /\ bpc # "connect" /\ bpc' = bpc
        /\ UNCHANGED <<cur, outgoing, msg, flushing, inbox, wire, read_task, supervisor>>
    BY AckInvTypes DEF GetId, BeforeSend, CallInv, Idleness, clientVars, channelVars, taskVars, netVars, blockVars
  <2>2. id # 0 => id \in Ids /\ index[cur][id] = NoToken
    BY NextVacantType DEF LostInv, LiveInv, TypeInv, TypeOK, StateTypeOK
  <2>. QED  BY <2>1, <2>2
<1>1. PICK tk : /\ token' = [token EXCEPT ![u] = tk]
                /\ \/ tk = SetError(token[u], "PacketIdError") /\ id = 0 /\ UNCHANGED index /\ pc' = "idle"
                   \/ /\ id # 0 /\ index' = [index EXCEPT ![cur][id] = u]
                      /\ \/ tk = [token[u] EXCEPT !.id = id] /\ pc' = "send" /\ call' = call
                         \/ tk = SetError([token[u] EXCEPT !.id = id], "InvalidTopic") /\ pc' = "idle"
  <2>. HIDE DEF id
  <2>1. \/ /\ token' = [token EXCEPT ![u] = SetError(@, "PacketIdError")]
           /\ id = 0 /\ UNCHANGED index /\ pc' = "idle"
        \/ /\ id # 0 /\ index' = [index EXCEPT ![cur][id] = u]
           /\ \/ token' = [token EXCEPT ![u].id = id] /\ pc' = "send" /\ call' = call
              \/ token' = [token EXCEPT ![u] = SetError([@ EXCEPT !.id = id], "InvalidTopic")] /\ pc' = "idle"
    BY DEF GetId, Return, idVars, id
  <2>2. token[u] \in TokenStates /\ token \in [Tokens -> TokenStates]
    BY <1>0, AckInvTypes
  <2>. HIDE DEF u
  <2>. QED  BY <1>0, <2>1, <2>2
<1>. HIDE DEF u, id
<1>2. /\ tk.kind = token[u].kind /\ tk.topics = token[u].topics
      /\ \/ id = 0 /\ tk.id = 0 /\ tk.error # "None" /\ UNCHANGED index /\ pc' = "idle"
         \/ /\ id # 0 /\ tk.id = id /\ index' = [index EXCEPT ![cur][id] = u]
            /\ \/ ~tk.complete /\ pc' = "send" /\ call' = call
               \/ tk.error # "None" /\ pc' = "idle"
  <2>1. token[u] \in TokenStates
    BY <1>0, AckInvTypes
  <2>2. CASE tk = SetError(token[u], "PacketIdError") /\ id = 0 /\ UNCHANGED index /\ pc' = "idle"
    BY <1>0, <2>1, <2>2 DEF TokenStates, SetError
  <2>3. CASE /\ id # 0 /\ index' = [index EXCEPT ![cur][id] = u]
             /\ tk = [token[u] EXCEPT !.id = id] /\ pc' = "send" /\ call' = call
    BY <1>0, <2>1, <2>3 DEF TokenStates
  <2>4. CASE /\ id # 0 /\ index' = [index EXCEPT ![cur][id] = u]
             /\ tk = SetError([token[u] EXCEPT !.id = id], "InvalidTopic") /\ pc' = "idle"
    BY <1>0, <2>1, <2>4 DEF TokenStates, SetError
  <2>. QED  BY <1>1, <2>2, <2>3, <2>4
<1>3. token'[u] = tk /\ \A t \in Tokens \ {u} : token'[t] = token[t]
  BY <1>0, <1>1, AckInvTypes
<1>4. \A i \in Ids : index'[cur][i] = IF i = id THEN u ELSE index[cur][i]
  <2>1. 0 \notin Ids
    BY PacketIdsAssumption DEF Ids, PKID_MIN
  <2>2. CASE UNCHANGED index /\ id = 0
    BY <1>0, <2>1, <2>2
  <2>3. CASE id # 0 /\ index' = [index EXCEPT ![cur][id] = u]
    BY <1>0, <2>3, AckInvTypes
  <2>. QED  BY <1>2, <2>2, <2>3
<1>5. /\ \A i \in Ids : index[cur][i] # u
      /\ id \in Ids => index[cur][id] = NoToken /\ id # 0
  <2>1. \A i \in Ids : i # 0
    BY PacketIdsAssumption DEF Ids, PKID_MIN
  <2>2. \A i \in Ids : index[cur][i] # u
    BY <1>0, <2>1, AckInvTypes DEF Table
  <2>. QED  BY <1>0, <2>1, <2>2
<1>6. Table'
  <2>. SUFFICES ASSUME NEW i \in Ids, index'[cur][i] # NoToken
                PROVE  /\ token'[index'[cur][i]].id = i
                       /\ token'[index'[cur][i]].kind \in AckedKinds
                       /\ ~Succeeded(index[cur][i])'
    BY <1>0 DEF Table
  <2>1. CASE i = id
    BY <1>0, <1>2, <1>3, <1>4, <2>1 DEF Succeeded
  <2>2. CASE i # id
    BY <1>0, <1>3, <1>4, <1>5, <2>2, AckInvTypes DEF Table, Succeeded
  <2>. QED  BY <2>1, <2>2
<1>7. Numbered'
  BY <1>0, <1>2, <1>3 DEF Numbered
<1>8. CallInv'
  BY <1>0, <1>2, <1>3 DEF CallInv, BeforeSend, Outside, Succeeded, u
<1>9. Idleness'
  BY <1>0, <1>2 DEF Idleness, Empty, Unused
<1>10. ASSUME NEW c \in Conns, supervisor[c] = "run"
       PROVE  (Genuine(c) /\ Single(c))' /\ OnlyCalls(c)
  <2>1. Genuine(c) /\ Single(c) /\ c = cur
    BY <1>0, <1>10, LiveIsCur DEF Tracked
  <2>2. SameNames(c)
    <3>1. \A k \in 1 .. Len(outgoing[c]) : outgoing[c][k] \in Tokens \ {u}
      BY <1>0, AckInvTypes DEF Outside
    <3>. QED  BY <1>3, <3>1 DEF SameNames
  <2>3. ASSUME NEW x \in Carried(c)
        PROVE  /\ x.p.id \in Ids \ {id}
               /\ index'[c][x.p.id] = x.p.tok
               /\ token'[x.p.tok].complete => token'[x.p.tok].error = "IOError"
    <3>1. /\ x.p.id \in Ids /\ x.p.tok \in Tokens /\ index[c][x.p.id] = x.p.tok
          /\ token[x.p.tok].complete => token[x.p.tok].error = "IOError"
      BY <1>10, CarriedToken
    <3>2. x.p.id # id /\ x.p.tok # u
      BY <1>0, <1>5, <2>1, <3>1, AckInvTypes
    <3>. QED  BY <1>0, <1>3, <1>4, <2>1, <3>1, <3>2
  <2>4. ASSUME NEW x, Calling(c)', x = Item("call", 0, RequestPacket(call.tok)')
        PROVE  /\ x.p.id = id /\ id \in Ids
               /\ index[c][x.p.id] = NoToken /\ x.p.type = call.kind /\ x.p.tok = call.tok
               /\ index'[c][x.p.id] = x.p.tok
               /\ ~token'[x.p.tok].complete
    <3>1. /\ id # 0 /\ id \in Ids /\ tk.id = id /\ ~tk.complete /\ call' = call
      BY <1>0, <1>2, <2>4 DEF Calling
    <3>2. x.p.id = token'[u].id /\ x.p.tok = u /\ x.p.type = token'[u].kind
      BY <2>4, <3>1, ItemFields DEF RequestPacket, Packet, u
    <3>. QED  BY <1>0, <1>2, <1>3, <1>4, <1>5, <2>1, <3>1, <3>2 DEF u
  <2>5. \A x \in Carried(c)' : x \in Carried(c) \/ (Calling(c)' /\ x = Item("call", 0, RequestPacket(call.tok)'))
    BY <1>0, <2>2, UserCarried
  <2>6. Genuine(c)'
    BY <2>3, <2>4, <2>5 DEF Genuine
  <2>7. Single(c)'
    <3>. SUFFICES ASSUME NEW x \in Carried(c)', NEW y \in Carried(c)', x.p.id = y.p.id
                  PROVE  x = y
      BY DEF Single
    <3>1. CASE x \in Carried(c) /\ y \in Carried(c)
      BY <2>1, <3>1 DEF Single
    <3>. QED  BY <2>3, <2>4, <2>5, <3>1
  <2>8. OnlyCalls(c)
    BY <2>4, <2>5 DEF OnlyCalls
  <2>. QED  BY <2>6, <2>7, <2>8
<1>11. \A t \in Tokens : token'[t].kind = token[t].kind
  BY <1>2, <1>3
<1>. QED  BY <1>0, <1>6, <1>7, <1>8, <1>9, <1>10, <1>11 DEF Tracked

\* The request of the call goes to the end of the outgoing channel.
LEMMA AckSend ==
    ASSUME AckInv, LostInv', Send
    PROVE  AckInv' /\ \A c \in Conns : supervisor[c] = "run" => Follows(c)
<1>. USE DEF AckInv, AckRest
<1>0. /\ LostInv /\ call.tok \in Tokens /\ token[call.tok].kind = call.kind
      /\ pc \in {"send", "blocked"} /\ bpc # "connect" /\ bpc' = bpc
      /\ UNCHANGED <<token, cur, index, msg, flushing, inbox, wire, read_task, supervisor>>
      /\ pc' = "idle" \/ (pc' = "add_subs" /\ call' = call)
      /\ outgoing' = [outgoing EXCEPT ![cur] = Append(@, call.tok)]
  BY AckInvTypes DEF Send, Sent, Return, BeforeSend, CallInv, Idleness, clientVars, idVars, taskVars,
                     netVars, blockVars
<1>1. cur \in Conns /\ supervisor[cur] = "run"
  BY LostInvTypes DEF Send, Open, LostInv, HasConn, LiveInv, OneLiveConnection
<1>2. PICK c \in Conns, u \in Tokens : c = cur /\ u = call.tok
  BY <1>0, <1>1
<1>. DEFINE old == Item("call", 0, RequestPacket(u))
            new == Item("outgoing", Len(outgoing[c]) + 1, RequestPacket(u))
<1>3. /\ outgoing \in [Conns -> Seq(Tokens)] /\ outgoing[c] \in Seq(Tokens)
      /\ Len(outgoing[c]) \in Nat
      /\ outgoing'[c] = Append(outgoing[c], u)
      /\ \A d \in Conns : d # c => outgoing'[d] = outgoing[d]
  <2>1. outgoing \in [Conns -> Seq(Tokens)] /\ outgoing[c] \in Seq(Tokens)
    BY <1>0, AckInvTypes
  <2>. QED  BY <1>0, <1>2, <2>1
<1>4. Table' /\ Numbered'
  BY <1>0 DEF Table, Numbered, Succeeded
<1>5. CallInv'
  BY <1>0 DEF CallInv, BeforeSend
<1>6. Idleness'
  <2>1. \A d \in Conns : d > cur => d # c
    BY <1>2, ClientStateAssumption DEF Conns
  <2>. QED  BY <1>0, <1>3, <2>1 DEF Idleness, Empty, Unused
<1>7. ASSUME NEW x \in Carried(c)'
      PROVE  \/ x \in Carried(c) /\ x.at # "call"
             \/ x = new /\ token[u].kind \in AckedKinds
  <2>1. ~Calling(c)'
    BY <1>0 DEF Calling
  <2>2. CASE \E k \in 1 .. Len(outgoing'[c]) :
              /\ token'[outgoing'[c][k]].kind \in AckedKinds
              /\ x = Item("outgoing", k, Packet(token'[outgoing'[c][k]].kind,
                                                token'[outgoing'[c][k]].id, outgoing'[c][k]))
    <3>1. PICK k \in 1 .. Len(outgoing'[c]) :
              /\ token[outgoing'[c][k]].kind \in AckedKinds
              /\ x = Item("outgoing", k, Packet(token[outgoing'[c][k]].kind,
                                                token[outgoing'[c][k]].id, outgoing'[c][k]))
      BY <1>0, <2>2
    <3>2. \/ k \in 1 .. Len(outgoing[c]) /\ outgoing'[c][k] = outgoing[c][k]
          \/ k = Len(outgoing[c]) + 1 /\ outgoing'[c][k] = u
      BY <1>3
    <3>3. PICK t : t = outgoing'[c][k]
      OBVIOUS
    <3>4. token[t].kind \in AckedKinds /\ x = Item("outgoing", k, RequestPacket(t))
      BY <3>1, <3>3 DEF RequestPacket
    <3>5. CASE k \in 1 .. Len(outgoing[c]) /\ t = outgoing[c][k]
      <4>1. x \in Carried(c)
        BY <3>4, <3>5, CarriedCases
      <4>. QED  BY <3>4, <4>1, ItemFields
    <3>6. CASE k = Len(outgoing[c]) + 1 /\ t = u
      BY <3>4, <3>6
    <3>. QED  BY <3>2, <3>3, <3>5, <3>6
  <2>3. CASE \/ \E k \in 1 .. Len(msg'[c]) : x = Item("msg", k, msg'[c][k])
             \/ \E k \in 1 .. Len(inbox'[c]) : x = Item("inbox", k, inbox'[c][k])
             \/ \E p \in wire'[c] : p.type # "Disconnect" /\ x = Item("wire", 0, p)
    BY <1>0, <2>3, CarriedCases, ItemFields
  <2>. QED  BY <2>1, <2>2, <2>3, CarriedPrimed
<1>8. Genuine(c) /\ Single(c)
  BY <1>1, <1>2 DEF Tracked
<1>9. \A x : index'[c][x.p.id] = index[c][x.p.id] /\ token'[x.p.tok] = token[x.p.tok]
  BY <1>0
<1>10. (Genuine(c) /\ Single(c))' /\ Follows(c)
  <2>1. CASE token[u].kind \in AckedKinds
    <3>1. Calling(c)
      BY <1>0, <1>2, <2>1 DEF Calling
    <3>2. old \in Carried(c) /\ old.at = "call"
      BY <1>2, <3>1, CarriedCases, ItemFields
    <3>3. new.p = old.p
      BY ItemFields
    <3>4. \A x \in Carried(c)' : x = Item(x.at, x.k, x.p) /\ x.at # "none"
      <4>1. \A x \in Carried(c) : x = Item(x.at, x.k, x.p) /\ x.at # "none"
        BY <1>0, CarriedType, CarriedCases, ItemFields
      <4>2. new = Item(new.at, new.k, new.p) /\ new.at # "none"
        BY ItemFields
      <4>. HIDE DEF new
      <4>. QED  BY <1>7, <4>1, <4>2
    <3>. HIDE DEF old, new
    <3>5. MovesOne(c, "none", old, new)
      BY <1>7, <1>9, <3>2, <3>4 DEF MovesOne, Shift
    <3>. QED  BY <1>8, <3>2, <3>3, <3>5, OneMoves, OneFollows
  <2>2. CASE token[u].kind \notin AckedKinds
    BY <1>7, <1>8, <1>9, <2>2, Fewer DEF Follows
  <2>. QED  BY <2>1, <2>2
<1>11. \A d \in Conns : supervisor[d] = "run" => d = c
  BY <1>0, <1>2, LiveIsCur
<1>. QED  BY <1>0, <1>4, <1>5, <1>6, <1>10, <1>11 DEF Tracked

LEMMA AckQuietStep ==
    ASSUME AckInv, LostInv', QuietStep
    PROVE  /\ AckInv'
           /\ \A c \in Conns : supervisor'[c] = "run" =>
                 supervisor[c] = "run" /\ (Follows(c) \/ (GetId /\ OnlyCalls(c)))
<1>. USE DEF clientVars, idVars, channelVars, taskVars, netVars, blockVars
<1>0. supervisor' = supervisor
  BY QuietSteps DEF Quiet
<1>1. CASE GetId
  BY <1>0, <1>1, AckGetId
<1>2. CASE Send
  BY <1>0, <1>2, AckSend
<1>3. CASE SendToClosed \/ AddSubscriptions
  BY <1>0, <1>3, AckReturns
<1>4. CASE SendBlocks \/ BlockGivesUp \/ BlockTick \/ BlockConnectFailed \/ Block
  BY <1>0, <1>4, UserMoves
     DEF SendBlocks, BlockGivesUp, BlockTick, BlockConnectFailed, Block, Idle, Unused,
         AckInv, AckRest, Idleness, LostInv, PermitInv
<1>5. CASE BlockResubscribedAll \/ Cancel
  BY <1>0, <1>5, UserMoves
     DEF BlockResubscribedAll, Resubscribed, Cancel, Unused, AckInv, LostInv, PermitInv
<1>6. CASE BlockReconnected
  <2>1. /\ pc = "idle" /\ pc' = pc /\ Unused /\ bpc' \in {"select", "resub"}
        /\ UNCHANGED <<cur, call, outgoing, msg, flushing, wire, inbox, read_task, supervisor>>
        /\ UNCHANGED <<token, index>> \/ CleanUp(cur)
    BY <1>6 DEF BlockReconnected, Unused
  <2>2. CASE UNCHANGED <<token, index>>
    BY <1>0, <2>1, <2>2, UserMoves DEF Unused
  <2>3. CASE CleanUp(cur)
    <3>1. \A d \in Conns : supervisor'[d] = "run" => supervisor[d] = "run" /\ Empty(d) /\ pc = "idle"
      BY <2>1 DEF AckInv, AckRest, Idleness
    <3>. QED  BY <2>1, <2>3, <3>1, CleanedUp DEF Follows
  <2>. QED  BY <2>1, <2>2, <2>3
<1>7. CASE Request
  <2>1. /\ UNCHANGED <<bpc, cur, index, outgoing, msg, flushing, inbox, wire, read_task, supervisor>>
        /\ pc = "idle" /\ bpc # "connect"
    BY <1>7 DEF Request, Idle
  <2>2. PICK t \in Tokens, kind \in RequestKinds, valid \in BOOLEAN : \E topics : StartRequest(t, kind, topics, valid)
    BY <1>7, MqttClientAssumption DEF Request
  <2>. QED  BY <1>0, <2>1, <2>2, AckStartRequest
<1>8. CASE BlockResubscribes
  <2>1. /\ UNCHANGED <<bpc, cur, index, outgoing, msg, flushing, inbox, wire, read_task, supervisor>>
        /\ pc = "idle" /\ bpc # "connect"
    BY <1>8 DEF BlockResubscribes, Resubscribed
  <2>2. PICK t \in Tokens, x \in todo : StartRequest(t, "Subscribe", {x}, TRUE)
    BY <1>8 DEF BlockResubscribes
  <2>. QED  BY <1>0, <2>1, <2>2, AckStartRequest DEF RequestKinds
<1>. QED  BY <1>1, <1>2, <1>3, <1>4, <1>5, <1>6, <1>7, <1>8 DEF QuietStep

LEMMA AckNext ==
    ASSUME AckInv, [Next]_vars
    PROVE  AckInv'
<1>1. LostInv'
  BY LostNext DEF AckInv
<1>2. CASE UNCHANGED vars
  BY <1>1, <1>2, UserMoves
     DEF vars, clientVars, idVars, channelVars, taskVars, netVars, userVars, Unused, AckInv, AckRest, Idleness
<1>. QED  BY <1>1, <1>2, NextCases, AckConnect, AckConnackAccepted, AckQuietStep, AckTasks, AckEnvironment

LEMMA AckInit == Init => AckInv
<1>. SUFFICES ASSUME Init PROVE AckInv
  OBVIOUS
<1>1. LostInv
  BY LostInit
<1>2. /\ \A t \in Tokens : token[t].id = 0
      /\ \A i \in Ids : index[cur][i] = NoToken
      /\ \A c \in Conns : Empty(c) /\ supervisor[c] = "none"
      /\ pc = "idle" /\ bpc = "none"
  <2>1. [NewToken("Publish0", {}) EXCEPT !.complete = TRUE].id = 0
    BY DEF NewToken
  <2>2. /\ \A t \in Tokens : token[t] = [NewToken("Publish0", {}) EXCEPT !.complete = TRUE]
        /\ \A c \in Conns : Empty(c) /\ supervisor[c] = "none"
        /\ pc = "idle" /\ bpc = "none"
    BY DEF Init, StateInit, Empty
  <2>3. \A i \in Ids : index[cur][i] = NoToken
    BY <1>1, AckInvTypes DEF Init, StateInit, EmptyIndex
  <2>. QED  BY <2>1, <2>2, <2>3
<1>. QED  BY <1>1, <1>2 DEF AckInv, AckRest, Table, Numbered, CallInv, BeforeSend, Idleness, Unused,
                           Empty, Tracked

(***************************************************************************)
(* An acknowledgement can only complete the request it answers: while a    *)
(* connection lives, the identifier of every packet in flight on it is     *)
(* registered for that packet's own request, which is not complete (or     *)
(* failed when its write did).                                             *)
(***************************************************************************)
THEOREM AckMatches == Spec => []AckMatchesToken
<1>1. AckInv => AckMatchesToken
  <2>. SUFFICES ASSUME AckInv, NEW c \in Conns, supervisor[c] = "run", NEW p \in InFlight(c)
                PROVE  /\ p.id \in Ids
                       /\ index[c][p.id] = p.tok
                       /\ token[p.tok].complete => token[p.tok].error = "IOError"
    BY DEF AckMatchesToken
  <2>1. PICK x : x \in Carried(c) /\ x.p = p
    <3>1. \/ \E k \in 1 .. Len(outgoing[c]) :
                token[outgoing[c][k]].kind \in AckedKinds /\ p = RequestPacket(outgoing[c][k])
          \/ \E k \in 1 .. Len(msg[c]) : p = msg[c][k]
          \/ \E k \in 1 .. Len(inbox[c]) : p = inbox[c][k]
          \/ p \in wire[c] /\ p.type # "Disconnect"
      BY DEF InFlight
    <3>2. PICK at, k : Item(at, k, p) \in Carried(c)
      <4>1. CASE \E k \in 1 .. Len(outgoing[c]) :
                    token[outgoing[c][k]].kind \in AckedKinds /\ p = RequestPacket(outgoing[c][k])
        <5>1. PICK k \in 1 .. Len(outgoing[c]) :
                    token[outgoing[c][k]].kind \in AckedKinds /\ p = RequestPacket(outgoing[c][k])
          BY <4>1
        <5>2. Item("outgoing", k, p) \in Carried(c)
          BY <5>1, CarriedCases
        <5>. QED  BY <5>2
      <4>2. CASE \E k \in 1 .. Len(msg[c]) : p = msg[c][k]
        <5>1. PICK k \in 1 .. Len(msg[c]) : p = msg[c][k]
          BY <4>2
        <5>2. Item("msg", k, p) \in Carried(c)
          BY <5>1, CarriedCases
        <5>. QED  BY <5>2
      <4>3. CASE \E k \in 1 .. Len(inbox[c]) : p = inbox[c][k]
        <5>1. PICK k \in 1 .. Len(inbox[c]) : p = inbox[c][k]
          BY <4>3
        <5>2. Item("inbox", k, p) \in Carried(c)
          BY <5>1, CarriedCases
        <5>. QED  BY <5>2
      <4>4. CASE p \in wire[c] /\ p.type # "Disconnect"
        <5>1. Item("wire", 0, p) \in Carried(c)
          BY <4>4, CarriedCases
        <5>. QED  BY <5>1
      <4>. QED  BY <3>1, <4>1, <4>2, <4>3, <4>4
    <3>. QED  BY <3>2, ItemFields
  <2>. QED  BY <2>1 DEF AckInv, Tracked, Genuine
<1>. QED  BY <1>1, AckInit, AckNext, PTL DEF Spec

------------------------------------------------------------------------------
(***************************************************************************)
(* A success is final: what is left to fail is a token in the table, the   *)
(* token of a call in progress, or one in the outgoing channel, and none   *)
(* of these has succeeded.                                                 *)
(***************************************************************************)
Final(t) ==
    \/ token'[t].error = token[t].error
    \/ ~Succeeded(t)
    \/ token'[t].id = 0 \/ token[t].id = 0
    \/ LateFlush /\ \E c \in Conns : flushing[c] = t /\ c = cur

LEMMA CleanUpFinal ==
    ASSUME AckInv, CleanUp(cur), NEW t \in Tokens
    PROVE  Final(t)
<1>1. CASE t \in Registered(index[cur])
  <2>1. ~Succeeded(t)
    BY <1>1, AckInvTypes DEF AckInv, AckRest, Table, Registered
  <2>. QED  BY <2>1 DEF Final
<1>2. CASE t \notin Registered(index[cur])
  BY <1>2 DEF CleanUp, Final
<1>. QED  BY <1>1, <1>2

LEMMA TasksFinal ==
    ASSUME AckInv, NEW c \in Conns, Tasks(c), NEW t \in Tokens
    PROVE  Final(t)
<1>. USE DEF clientVars, idVars, taskVars, Final
<1>0. LostInv /\ token \in [Tokens -> TokenStates] /\ token[t] \in TokenStates
  BY AckInvTypes DEF AckInv
<1>1. CASE HandlePuback(c) \/ HandlePubcomp(c) \/ HandleSuback(c) \/ HandleUnsuback(c)
  <2>1. \/ UNCHANGED token
        \/ \E u : token' = [token EXCEPT ![u] = FlowComplete(@)]
    BY <1>1 DEF HandlePuback, HandlePubcomp, HandleSuback, HandleUnsuback, CompleteAndFree
  <2>. QED  BY <1>0, <2>1 DEF FlowComplete, TokenStates
<1>2. CASE HandlePubrec(c) \/ ReadBreak(c) \/ WriteMsg(c) \/ WriteMsgFails(c) \/ WriteOutgoing(c) \/ WriterExits(c)
  BY <1>2 DEF HandlePubrec, ReadBreak, WriteMsg, WriteMsgFails, WriteOutgoing, WriterExits
<1>3. CASE OutgoingWritten(c)
  BY <1>0, <1>3 DEF OutgoingWritten, FlowComplete, TokenStates
<1>4. CASE WriteOutgoingFails(c)
  <2>1. /\ c = cur /\ supervisor[c] = "run" /\ outgoing[c] \in Seq(Tokens) /\ outgoing[c] # <<>>
        /\ token' = [token EXCEPT ![Head(outgoing[c])] = SetError(@, "IOError")]
    BY <1>0, <1>4, LiveIsCur, AckInvTypes DEF WriteOutgoingFails, Writing
  <2>2. CASE t = Head(outgoing[c]) /\ token[t].id # 0
    <3>1. token[t].kind \in AckedKinds
      BY <2>2 DEF AckInv, AckRest, Numbered
    <3>2. 1 \in 1 .. Len(outgoing[c]) /\ outgoing[c][1] = t
      BY <2>1, <2>2
    <3>3. Item("outgoing", 1, RequestPacket(t)) \in Carried(c)
      BY <3>1, <3>2, CarriedCases
    <3>4. Item("outgoing", 1, RequestPacket(t)).p.tok = t
      BY ItemFields DEF RequestPacket, Packet
    <3>. QED  BY <2>1, <3>3, <3>4, CarriedToken
  <2>3. CASE t # Head(outgoing[c])
    BY <1>0, <2>1, <2>3
  <2>. QED  BY <2>2, <2>3
<1>5. CASE FlushFails(c)
  <2>1. c = cur
    BY <1>0, <1>5, LiveIsCur DEF FlushFails
  <2>2. LateFlush /\ token' = [token EXCEPT ![flushing[c]] = SetError(@, "IOError")]
    BY <1>5 DEF FlushFails
  <2>. QED  BY <1>0, <2>1, <2>2
<1>6. CASE Supervise(c)
  <2>1. c = cur
    BY <1>0, <1>6, LiveIsCur DEF Supervise
  <2>. QED  BY <1>6, <2>1, CleanUpFinal DEF Supervise
<1>. QED  BY <1>1, <1>2, <1>3, <1>4, <1>5, <1>6 DEF Tasks, ReadHandler, MsgArm, OutgoingArm, FlushEnds

LEMMA UserFinal ==
    ASSUME AckInv, QuietStep, NEW t \in Tokens
    PROVE  Final(t)
<1>. USE DEF Final
<1>0. LostInv /\ token \in [Tokens -> TokenStates] /\ token[t] \in TokenStates
  BY AckInvTypes DEF AckInv
<1>1. ASSUME NEW u \in Tokens, NEW kind, NEW topics, NEW valid, StartRequest(u, kind, topics, valid)
      PROVE  Final(t)
  <2>1. NewToken(kind, topics).id = 0 /\ \A e : SetError(NewToken(kind, topics), e).id = 0
    BY DEF NewToken, SetError
  <2>2. PICK tk : tk.id = 0 /\ token' = [token EXCEPT ![u] = tk]
    BY <1>1, <2>1 DEF StartRequest
  <2>. QED  BY <1>0, <2>2
<1>2. CASE GetId
  <2>1. token[call.tok].id = 0
    BY <1>2 DEF GetId, AckInv, AckRest, CallInv
  <2>2. \E tk : token' = [token EXCEPT ![call.tok] = tk]
    BY <1>0, <1>2, AckInvTypes DEF GetId, BeforeSend
  <2>. QED  BY <1>0, <2>1, <2>2
<1>3. CASE SendToClosed
  <2>1. ~Succeeded(call.tok)
    BY <1>3 DEF SendToClosed, AckInv, AckRest, CallInv, BeforeSend
  <2>2. token' = [token EXCEPT ![call.tok] = SetError(@, "InternalServerError")]
    BY <1>3 DEF SendToClosed
  <2>. QED  BY <1>0, <2>1, <2>2
<1>4. CASE AddSubscriptions
  BY <1>0, <1>4 DEF AddSubscriptions, TokenStates
<1>5. CASE BlockReconnected
  BY <1>5, CleanUpFinal DEF BlockReconnected
<1>6. CASE Request
  BY <1>1, <1>6 DEF Request
<1>7. CASE BlockResubscribes
  BY <1>1, <1>7 DEF BlockResubscribes
<1>8. CASE Send \/ SendBlocks \/ BlockGivesUp \/ BlockTick \/ BlockConnectFailed
           \/ BlockResubscribedAll \/ Block \/ Cancel
  BY <1>8 DEF Send, SendBlocks, BlockGivesUp, BlockTick, BlockConnectFailed, BlockResubscribedAll, Block, Cancel
<1>. QED  BY <1>2, <1>3, <1>4, <1>5, <1>6, <1>7, <1>8 DEF QuietStep

(***************************************************************************)
(* Once a request has succeeded no later event of any connection turns its *)
(* token into a failed one, save the end of its own flush.                 *)
(***************************************************************************)
THEOREM SuccessFinal == Spec => SuccessIsFinal
<1>1. ASSUME AckInv, [Next]_vars, NEW t \in Tokens
      PROVE  Final(t)
  <2>1. CASE UNCHANGED token
    BY <2>1 DEF Final
  <2>2. CASE QuietStep
    BY <1>1, <2>2, UserFinal
  <2>3. ASSUME NEW c \in Conns, Scheduled(Tasks(c))
        PROVE  Final(t)
    BY <1>1, <2>3, TasksFinal DEF Scheduled
  <2>4. ASSUME \/ Connect \/ TransportConnected \/ ConnectFails \/ ConnectReturns \/ BlockReconnects
               \/ \E present \in BOOLEAN : ConnackAccepted(present)
               \/ Environment
               \/ UNCHANGED vars
        PROVE  UNCHANGED token
    BY <2>4 DEF Connect, TransportConnected, ConnectFails, ConnectReturns, BlockReconnects,
                ConnackAccepted, Environment, vars
  <2>. QED  BY <1>1, <2>1, <2>2, <2>3, <2>4, NextCases
<1>2. AckInv /\ [Next]_vars =>
          [\A t \in Tokens : Succeeded(t) /\ token[t].id # 0 /\ token'[t].id = token[t].id
            => \/ token'[t].error = "None"
               \/ LateFlush /\ \E c \in Conns : flushing[c] = t /\ c = cur]_vars
  BY <1>1 DEF Final, Succeeded
<1>. QED  BY <1>2, AckInit, AckNext, PTL DEF Spec, SuccessIsFinal

------------------------------------------------------------------------------
(***************************************************************************)
(* A success is real.  Each packet in flight is as far as the server is    *)
(* with its request: an answer is on its way only to what was handled.     *)
(***************************************************************************)
Dated(p) ==
    /\ p.type \in RequestKinds => p.type = token[p.tok].kind
    /\ p.type = "Puback" => token[p.tok].kind = "Publish1" /\ p.tok \in handled
    /\ p.type = "Suback" => token[p.tok].kind = "Subscribe" /\ p.tok \in handled
    /\ p.type = "Unsuback" => token[p.tok].kind = "Unsubscribe" /\ p.tok \in handled
    /\ p.type \in {"Pubrec", "Pubrel", "Pubcomp"} =>
          token[p.tok].kind = "Publish2" /\ (CleanSession => p.tok \in handled)
    /\ CleanSession /\ p.id \in received => p.type \in {"Pubrec", "Pubrel"}

\* The server's QoS 2 identifiers are registered on connection c.
Received(c) ==
    CleanSession =>
        /\ \A i \in received \cap Ids : index[c][i] # NoToken
        /\ Unused => received = {}

RealInv ==
    /\ SuccessIsReal
    /\ \A c \in Conns : c # cur => wire[c] = {}
    /\ \A c \in Conns : supervisor[c] = "run" =>
          Received(c) /\ \A x \in Carried(c) : Dated(x.p)

LEMMA SuccessKept ==
    ASSUME SuccessIsReal,
           \A t \in Tokens : Succeeded(t)' /\ token'[t].kind \in AckedKinds =>
              \/ Succeeded(t) /\ token'[t].kind = token[t].kind /\ (t \in handled => t \in handled')
              \/ t \in handled'
              \/ token'[t].kind = "Publish2" /\ ~CleanSession
    PROVE  SuccessIsReal'
BY DEF SuccessIsReal

LEMMA CleanUpSucceeds ==
    ASSUME AckInv, NEW c, CleanUp(c)
    PROVE  Names /\ \A t \in Tokens : Succeeded(t)' => Succeeded(t) /\ token'[t].kind = token[t].kind
<1>1. \A t \in Tokens : token[t] \in TokenStates
  BY AckInvTypes DEF AckInv
<1>2. \A t \in Tokens :
            token'[t] = IF t \in Registered(index[c]) THEN SetError(token[t], "ConnectionLost") ELSE token[t]
  BY DEF CleanUp
<1>. QED  BY <1>1, <1>2 DEF Names, SetError, Succeeded, TokenStates

LEMMA RealFollows ==
    ASSUME RealInv, SuccessIsReal', cur' = cur,
           \A c \in Conns : c # cur => wire'[c] = {},
           received' \subseteq received, Unused' => Unused \/ \A c \in Conns : supervisor'[c] # "run",
           \A c \in Conns : supervisor'[c] = "run" =>
              /\ supervisor[c] = "run"
              /\ Follows(c)
              /\ \A x \in Carried(c) : /\ token'[x.p.tok].kind = token[x.p.tok].kind
                                       /\ x.p.tok \in handled => x.p.tok \in handled'
              /\ \A i \in Ids : index'[c][i] = NoToken => index[c][i] = NoToken \/ ~CleanSession \/ i \notin received'
    PROVE  RealInv'
<1>1. ASSUME NEW c \in Conns, supervisor'[c] = "run", NEW x \in Carried(c)'
      PROVE  Dated(x.p)'
  <2>1. PICK y \in Carried(c) : x.p = y.p \/ (y.p.type = "Pubrec" /\ Continues(x.p, y.p, "Pubrel"))
    BY <1>1 DEF Follows
  <2>2. Dated(y.p) /\ token'[y.p.tok].kind = token[y.p.tok].kind /\ (y.p.tok \in handled => y.p.tok \in handled')
    BY <1>1, <2>1 DEF RealInv
  <2>3. CASE x.p = y.p
    BY <2>2, <2>3 DEF Dated
  <2>4. CASE y.p.type = "Pubrec" /\ Continues(x.p, y.p, "Pubrel")
    <3>1. "Pubrel" \notin RequestKinds
      BY DEF RequestKinds
    <3>. QED  BY <2>2, <2>4, <3>1 DEF Dated, Continues
  <2>. QED  BY <2>1, <2>3, <2>4
<1>2. ASSUME NEW c \in Conns, supervisor'[c] = "run"
      PROVE  Received(c)'
  BY <1>2 DEF RealInv, Received
<1>. QED  BY <1>1, <1>2 DEF RealInv

LEMMA RealTasks ==
    ASSUME AckInv, LostInv', RealInv, NEW c \in Conns, Scheduled(Tasks(c))
    PROVE  RealInv'
<1>0. /\ UNCHANGED userVars /\ UNCHANGED brokerVars /\ LostInv
      /\ AckInv' /\ (supervisor'[c] = "run" => Follows(c))
  BY AckTasks DEF Scheduled, AckInv
<1>. USE DEF userVars, brokerVars
<1>1. /\ c = cur /\ supervisor[c] = "run" /\ cur' = cur
      /\ \A d \in Conns : supervisor'[d] = "run" => d = c
      /\ \A d \in Conns : d # c => wire'[d] = wire[d]
  <2>1. supervisor[c] = "run" /\ c = cur
    BY LiveIsCur, <1>0
       DEF Scheduled, Tasks, ReadHandler, MsgArm, OutgoingArm, FlushEnds, HandlePuback, HandlePubcomp,
           HandlePubrec, HandleSuback, HandleUnsuback, ReadBreak, WriteMsg, WriteMsgFails, WriterExits,
           WriteOutgoing, WriteOutgoingFails, OutgoingWritten, FlushFails, Supervise, Receive, Reading, Writing
  <2>2. cur' = cur
    BY DEF Scheduled, Tasks, ReadHandler, MsgArm, OutgoingArm, FlushEnds, HandlePuback, HandlePubcomp,
           HandlePubrec, HandleSuback, HandleUnsuback, ReadBreak, WriteMsg, WriteMsgFails, WriterExits,
           WriteOutgoing, WriteOutgoingFails, OutgoingWritten, FlushFails, Supervise, clientVars
  <2>3. \A d \in Conns : supervisor'[d] = "run" => d = cur'
    BY <1>0 DEF AckInv, LostInv, LiveInv, OneLiveConnection
  <2>4. wire' = wire \/ \E p : Transmit(c, p)
    BY DEF Scheduled, Tasks, ReadHandler, MsgArm, OutgoingArm, FlushEnds, HandlePuback, HandlePubcomp,
           HandlePubrec, HandleSuback, HandleUnsuback, ReadBreak, WriteMsg, WriteMsgFails, WriterExits,
           WriteOutgoing, WriteOutgoingFails, OutgoingWritten, FlushFails, Supervise, netVars
  <2>5. wire \in [Conns -> SUBSET Packets(PacketTypes)]
    BY <1>0, AckInvTypes
  <2>6. \A d \in Conns : d # c => wire'[d] = wire[d]
    BY <2>4, <2>5 DEF Transmit
  <2>. QED  BY <2>1, <2>2, <2>3, <2>6
<1>2. Unused' => Unused
  BY <1>0 DEF Unused
<1>3. CASE HandlePuback(c) \/ HandlePubcomp(c) \/ HandleSuback(c) \/ HandleUnsuback(c)
  <2>. DEFINE h == Head(inbox[c])
  <2>1. /\ inbox[c] # <<>> /\ inbox[c] \in Seq(Packets(AckTypes))
        /\ h.type \in {"Puback", "Pubcomp", "Suback", "Unsuback"}
        /\ UNCHANGED <<token, index>> \/ CompleteAndFree(c, h.id)
    BY <1>0, <1>3, AckInvTypes DEF HandlePuback, HandlePubcomp, HandleSuback, HandleUnsuback, Receive
  <2>2. Item("inbox", 1, h) \in Carried(c)
    <3>1. 1 \in 1 .. Len(inbox[c]) /\ inbox[c][1] = h
      BY <2>1
    <3>. HIDE DEF h
    <3>. QED  BY <3>1, CarriedCases
  <2>. HIDE DEF h
  <2>3. /\ h.id \in Ids /\ h.tok \in Tokens /\ index[c][h.id] = h.tok
        /\ Dated(h)
    BY <1>1, <2>2, CarriedToken, ItemFields DEF RealInv
  <2>4. /\ Names
        /\ \A t \in Tokens \ {h.tok} : token'[t] = token[t]
        /\ \A j \in Ids \ {h.id} : index'[c][j] = index[c][j]
    <3>1. CASE UNCHANGED <<token, index>>
      BY <3>1 DEF Names
    <3>2. CASE CompleteAndFree(c, h.id)
      BY <1>0, <2>3, <3>2, CompleteAndFreeFields, AckInvTypes
    <3>. QED  BY <2>1, <3>1, <3>2
  <2>5. CleanSession => h.id \notin received
    BY <2>1, <2>3 DEF Dated
  <2>6. h.tok \in handled \/ (token[h.tok].kind = "Publish2" /\ ~CleanSession)
    BY <2>1, <2>3 DEF Dated
  <2>7. SuccessIsReal'
    <3>1. handled' = handled
      BY <1>0
    <3>2. \A t \in Tokens \ {h.tok} : Succeeded(t)' => Succeeded(t)
      BY <2>4 DEF Succeeded
    <3>. QED  BY <2>3, <2>4, <2>6, <3>1, <3>2, SuccessKept DEF RealInv, Names
  <2>8. \A x \in Carried(c) : token'[x.p.tok].kind = token[x.p.tok].kind
    BY <1>1, <2>4, CarriedToken DEF Names
  <2>. QED  BY <1>0, <1>1, <1>2, <2>4, <2>5, <2>7, <2>8, RealFollows DEF RealInv
<1>4. CASE Supervise(c)
  <2>1. \A t \in Tokens : Succeeded(t)' => Succeeded(t) /\ token'[t].kind = token[t].kind
    BY <1>4, CleanUpSucceeds DEF Supervise
  <2>2. SuccessIsReal'
    BY <1>0, <2>1, SuccessKept DEF RealInv
  <2>3. supervisor'[c] # "run"
    BY <1>0, <1>4, LostInvTypes DEF Supervise
  <2>. QED  BY <1>0, <1>1, <1>2, <2>2, <2>3, RealFollows DEF RealInv
<1>5. CASE HandlePubrec(c) \/ ReadBreak(c) \/ WriteMsg(c) \/ WriteMsgFails(c) \/ WriteOutgoing(c) \/ WriterExits(c)
           \/ OutgoingWritten(c) \/ WriteOutgoingFails(c) \/ FlushFails(c)
  <2>1. /\ UNCHANGED <<index, supervisor>>
        /\ \/ UNCHANGED token
           \/ \E t \in Tokens : token[t].kind \notin AckedKinds /\ token' = [token EXCEPT ![t] = FlowComplete(@)]
           \/ \E t : token' = [token EXCEPT ![t] = SetError(@, "IOError")]
    <3>1. CASE OutgoingWritten(c)
      <4>1. flushing[c] \in Tokens
        BY <1>0, <3>1, AckInvTypes DEF OutgoingWritten
      <4>2. token[flushing[c]].kind \in {"Publish0", "Disconnect"} => token[flushing[c]].kind \notin AckedKinds
        BY DEF AckedKinds
      <4>. QED  BY <3>1, <4>1, <4>2 DEF OutgoingWritten, idVars, taskVars
    <3>. QED  BY <1>5, <3>1 DEF HandlePubrec, ReadBreak, WriteMsg, WriteMsgFails, WriteOutgoing, WriterExits,
                    WriteOutgoingFails, FlushFails, idVars, taskVars
  <2>2. token \in [Tokens -> TokenStates] /\ \A t \in Tokens : token[t] \in TokenStates
    BY <1>0, AckInvTypes
  <2>3. /\ \A t \in Tokens : token'[t].kind = token[t].kind
        /\ \A t \in Tokens : Succeeded(t)' /\ token'[t].kind \in AckedKinds => Succeeded(t)
    <3>1. CASE UNCHANGED token
      BY <3>1 DEF Succeeded
    <3>2. ASSUME NEW u \in Tokens, token[u].kind \notin AckedKinds, token' = [token EXCEPT ![u] = FlowComplete(@)]
          PROVE  /\ \A t \in Tokens : token'[t].kind = token[t].kind
                 /\ \A t \in Tokens : Succeeded(t)' /\ token'[t].kind \in AckedKinds => Succeeded(t)
      BY <2>2, <3>2 DEF FlowComplete, TokenStates, Succeeded
    <3>3. ASSUME NEW u, token' = [token EXCEPT ![u] = SetError(@, "IOError")]
          PROVE  /\ \A t \in Tokens : token'[t].kind = token[t].kind
                 /\ \A t \in Tokens : Succeeded(t)' /\ token'[t].kind \in AckedKinds => Succeeded(t)
      BY <2>2, <3>3 DEF SetError, TokenStates, Succeeded
    <3>. QED  BY <2>1, <3>1, <3>2, <3>3
  <2>4. SuccessIsReal'
    BY <1>0, <2>3, SuccessKept DEF RealInv
  <2>5. \A x \in Carried(c) : token'[x.p.tok].kind = token[x.p.tok].kind
    BY <1>1, <2>3, CarriedToken
  <2>. QED  BY <1>0, <1>1, <1>2, <2>1, <2>4, <2>5, RealFollows DEF RealInv
<1>. QED  BY <1>3, <1>4, <1>5 DEF Scheduled, Tasks, ReadHandler, MsgArm, OutgoingArm, FlushEnds

LEMMA RealEnvironment ==
    ASSUME AckInv, LostInv', RealInv, Environment, UNCHANGED userVars
    PROVE  RealInv'
<1>. USE DEF userVars, clientVars, idVars, channelVars, taskVars, netVars, brokerVars
<1>0. /\ UNCHANGED <<pc, call, bpc, cur, token, index, outgoing, msg, flushing, supervisor, read_task>>
      /\ LostInv
  BY DEF Environment, AckInv
<1>1. /\ Names
      /\ Unused' => Unused
      /\ inbox \in [Conns -> Seq(Packets(AckTypes))]
      /\ wire \in [Conns -> SUBSET Packets(PacketTypes)]
  BY <1>0, AckInvTypes DEF Names, Unused
<1>2. handled \subseteq handled' => SuccessIsReal'
  BY <1>0, SuccessKept DEF RealInv, Succeeded
<1>3. ASSUME UNCHANGED handled, received' \subseteq received,
             \A d \in Conns : inbox'[d] \in {inbox[d], <<>>} /\ wire'[d] \subseteq wire[d]
      PROVE  RealInv'
  <2>1. ASSUME NEW d \in Conns, supervisor[d] = "run"
        PROVE  Follows(d)
    <3>1. inbox'[d] \in {inbox[d], <<>>} /\ wire'[d] \subseteq wire[d]
      BY <1>3
    <3>2. Carried(d)' \subseteq Carried(d)
      BY <1>0, <1>1, <3>1, Origins, NothingInEmpty
    <3>. QED  BY <3>2 DEF Follows
  <2>2. \A d \in Conns : d # cur => wire'[d] = {}
    BY <1>3 DEF RealInv
  <2>. QED  BY <1>0, <1>1, <1>2, <1>3, <2>1, <2>2, RealFollows
<1>4. ASSUME NEW c \in Conns, NEW p \in wire[c], NEW type \in AckTypes, NEW granted,
             Answer(c, p, type, granted), handled \subseteq handled',
             \/ /\ \/ type = "Puback" /\ p.type = "Publish1"
                   \/ type = "Suback" /\ p.type = "Subscribe"
                   \/ type = "Unsuback" /\ p.type = "Unsubscribe"
                /\ handled' = handled \cup {p.tok} /\ received' = received
             \/ /\ type = "Pubrec" /\ p.type = "Publish2"
                /\ (p.id \notin received => p.tok \in handled') /\ received' = received \cup {p.id}
             \/ /\ type = "Pubcomp" /\ p.type = "Pubrel"
                /\ received' = received \ {p.id}
      PROVE  RealInv'
  <2>1. c = cur /\ ~Empty(c)
    BY <1>4 DEF RealInv, Empty
  <2>2. \A d \in Conns : d # cur => wire'[d] = {}
    BY <1>1, <1>4, <2>1 DEF Answer, RealInv
  <2>3. ASSUME supervisor[c] = "run"
        PROVE  Received(c)' /\ \A x \in Carried(c)' : Dated(x.p)'
    <3>1. AnsweredOnly(c, p, type)
      BY <1>0, <1>4, <2>3, Answered
    <3>2. Item("wire", 0, p) \in Carried(c)
      BY <1>4, CarriedCases
    <3>3. /\ Dated(p) /\ p.id \in Ids /\ p.tok \in Tokens /\ index[c][p.id] = p.tok
      BY <2>3, <3>2, CarriedToken, ItemFields DEF RealInv
    <3>4. ~Unused
      BY <2>1, <2>3 DEF AckInv, AckRest, Idleness
    <3>5. index[c][p.id] # NoToken
      BY <1>0, <3>3, AckInvTypes
    <3>6. Received(c)'
      <4>1. Received(c)
        BY <2>3 DEF RealInv
      <4>. QED  BY <1>0, <1>1, <1>4, <3>4, <3>5, <4>1 DEF Received
    <3>7. ASSUME NEW q, Continues(q, p, type)
          PROVE  Dated(q)'
      <4>1. q.type \notin RequestKinds
        BY <1>4, <3>7 DEF Continues, RequestKinds
      <4>. QED  BY <1>0, <1>4, <3>3, <3>7, <4>1 DEF Dated, Continues, RequestKinds
    <3>8. ASSUME NEW y \in Carried(c), y.p.id # p.id
          PROVE  Dated(y.p)'
      <4>1. Dated(y.p)
        BY <2>3 DEF RealInv
      <4>2. y.p.id \in received' => y.p.id \in received
        BY <1>4, <3>8
      <4>. QED  BY <1>0, <1>4, <4>1, <4>2 DEF Dated
    <3>9. ASSUME NEW x \in Carried(c)' PROVE Dated(x.p)'
      <4>1. CASE Continues(x.p, p, type)
        BY <3>7, <4>1
      <4>2. CASE \E y \in Carried(c) : x.p = y.p /\ y.p.id # p.id
        <5>1. PICK y \in Carried(c) : x.p = y.p /\ y.p.id # p.id
          BY <4>2
        <5>2. Dated(y.p)'
          BY <3>8, <5>1
        <5>. QED  BY <5>1, <5>2 DEF Dated
      <4>. QED  BY <3>1, <4>1, <4>2 DEF AnsweredOnly
    <3>. QED  BY <3>6, <3>9
  <2>4. \A d \in Conns : supervisor'[d] = "run" => d = c
    BY <1>0, <2>1, LiveIsCur
  <2>. QED  BY <1>0, <1>2, <1>4, <2>2, <2>3, <2>4 DEF RealInv
<1>5. ASSUME NEW c \in Conns, NEW p \in wire[c], Serve(c, p)
      PROVE  RealInv'
  <2>0. {"Puback", "Pubrec", "Pubcomp", "Suback", "Unsuback"} \subseteq AckTypes
    BY DEF AckTypes
  <2>1. CASE p.type = "Publish1"
    BY <1>4, <1>5, <2>0, <2>1 DEF Serve
  <2>2. CASE p.type = "Publish2"
    BY <1>4, <1>5, <2>0, <2>2 DEF Serve
  <2>3. CASE p.type = "Pubrel"
    BY <1>4, <1>5, <2>0, <2>3 DEF Serve
  <2>4. CASE p.type = "Subscribe"
    <3>1. PICK granted : Answer(c, p, "Suback", granted)
      BY <1>5, <2>4 DEF Serve
    <3>. QED  BY <1>4, <1>5, <2>0, <2>4, <3>1 DEF Serve
  <2>5. CASE p.type = "Unsubscribe"
    BY <1>4, <1>5, <2>0, <2>5 DEF Serve
  <2>6. CASE p.type = "Disconnect"
    <3>1. /\ wire' = [wire EXCEPT ![c] = {}]
          /\ UNCHANGED <<received, handled, inbox>>
      BY <1>5, <2>6 DEF Serve
    <3>2. \A d \in Conns : wire'[d] \subseteq wire[d]
      BY <1>1, <3>1
    <3>. QED  BY <1>3, <3>1, <3>2
  <2>. QED  BY <1>5, <2>1, <2>2, <2>3, <2>4, <2>5, <2>6 DEF Serve
<1>6. ASSUME NEW c \in Conns, LinkBreaks(c)
      PROVE  RealInv'
  <2>1. UNCHANGED <<handled, received>>
    BY <1>6 DEF LinkBreaks
  <2>. QED  BY <1>1, <1>3, <1>6, <2>1, BrokenLinkLoses
<1>7. CASE SessionLost
  BY <1>3, <1>7 DEF SessionLost
<1>. QED  BY <1>5, <1>6, <1>7 DEF Environment

\* connect() loses the server's identifiers, if anything.
LEMMA RealConnect ==
    ASSUME AckInv, LostInv', RealInv,
           Connect \/ TransportConnected \/ ConnectFails \/ ConnectReturns \/ BlockReconnects
    PROVE  RealInv'
<1>. USE DEF clientVars, idVars, channelVars, taskVars, netVars, brokerVars, blockVars
<1>1. /\ UNCHANGED <<token, index, cur, supervisor, handled>>
      /\ AckInv' /\ \A c \in Conns : supervisor[c] = "run" => Follows(c)
  BY AckConnect DEF Connect, TransportConnected, ConnectFails, ConnectReturns, BlockReconnects, Accept
<1>2. SuccessIsReal'
  BY <1>1, SuccessKept DEF RealInv, Succeeded
<1>3. /\ received' \subseteq received
      /\ \A c \in Conns : wire'[c] \in {wire[c], {}}
  BY DEF Connect, TransportConnected, ConnectFails, ConnectReturns, BlockReconnects, Accept
<1>4. Unused' => Unused \/ \A c \in Conns : supervisor'[c] # "run"
  <2>1. CASE ConnectFails
    BY <1>1, <2>1 DEF ConnectFails, AckInv, LostInv, LiveInv, OneLiveConnection
  <2>2. CASE BlockReconnects
    <3>1. connect_status = "Disconnected"
      BY <2>2 DEF BlockReconnects, AckInv, LostInv, PermitInv, PermitIsCurrent
    <3>. QED  BY <1>1, <3>1 DEF AckInv, LostInv, LiveInv, OneLiveConnection
  <2>3. CASE Connect \/ TransportConnected \/ ConnectReturns
    BY <2>3 DEF Connect, Idle, StartConnect, TransportConnected, ConnectReturns, Unused
  <2>. QED  BY <2>1, <2>2, <2>3
<1>5. \A c \in Conns : c # cur => wire'[c] = {}
  BY <1>3 DEF RealInv
<1>. QED  BY <1>1, <1>2, <1>3, <1>4, <1>5, RealFollows

\* A clean session leaves nothing of the last one in the server.
LEMMA RealConnackAccepted ==
    ASSUME AckInv, LostInv', RealInv, NEW present \in BOOLEAN, cur < MaxConns, ConnackAccepted(present)
    PROVE  RealInv'
<1>1. \A d \in Conns : supervisor'[d] = "run" => \A x : x \notin Carried(d)'
  BY AckConnackAccepted
<1>2. /\ UNCHANGED <<token, handled>>
      /\ CleanSession => received' = {}
      /\ \A d \in Conns : wire'[d] = {}
  BY DEF ConnackAccepted, Accept
<1>3. SuccessIsReal'
  BY <1>2, SuccessKept DEF RealInv, Succeeded
<1>4. \A d \in Conns : Received(d)'
  BY <1>2 DEF Received
<1>. QED  BY <1>1, <1>2, <1>3, <1>4 DEF RealInv

\* A request starts with its own account of success.
LEMMA RealStartRequest ==
    ASSUME AckInv, LostInv', RealInv, NEW t \in Tokens, NEW kind \in RequestKinds, NEW topics, NEW valid,
           StartRequest(t, kind, topics, valid), pc = "idle", bpc # "connect",
           UNCHANGED <<bpc, cur, index, outgoing, msg, flushing, inbox, wire, read_task, supervisor, received>>
    PROVE  RealInv'
<1>0. LostInv
  BY DEF AckInv
<1>1. \A c \in Conns : supervisor[c] = "run" =>
                 Follows(c) /\ \A x \in Carried(c) : x.p.tok \in Tokens \ {t}
  BY AckStartRequest
<1>2. handled' = handled \ {t} /\ pc' # "spawned"
  BY DEF StartRequest
<1>3. PICK tk : /\ token' = [token EXCEPT ![t] = tk]
                /\ ~(tk.complete /\ tk.error = "None")
  <2>. DEFINE new == NewToken(kind, topics)
  <2>1. new.complete = FALSE /\ \A e : SetError(new, e).error = e
    BY DEF NewToken, SetError
  <2>. HIDE DEF new
  <2>2. \/ token' = [token EXCEPT ![t] = SetError(new, "ConnectionLost")]
        \/ token' = [token EXCEPT ![t] = SetError(new, "InvalidTopic")]
        \/ token' = [token EXCEPT ![t] = new]
    BY DEF StartRequest, new
  <2>. QED  BY <2>1, <2>2
<1>4. token'[t] = tk /\ \A u \in Tokens \ {t} : token'[u] = token[u]
  BY <1>0, <1>3, AckInvTypes
<1>5. SuccessIsReal'
  BY <1>2, <1>3, <1>4, SuccessKept DEF RealInv, Succeeded
<1>6. ~Unused'
  BY <1>2 DEF Unused
<1>. QED  BY <1>1, <1>2, <1>4, <1>5, <1>6, RealFollows DEF RealInv

LEMMA RealGetId ==
    ASSUME AckInv, LostInv', RealInv, GetId
    PROVE  RealInv'
<1>. USE DEF clientVars, idVars, channelVars, taskVars, netVars, brokerVars, blockVars
<1>. DEFINE u == call.tok
<1>0. /\ LostInv /\ u \in Tokens /\ token[u].kind = call.kind /\ bpc # "connect"
      /\ UNCHANGED <<cur, wire, supervisor, brokerVars, bpc>>
  BY AckInvTypes DEF GetId, BeforeSend, AckInv, AckRest, CallInv, Idleness
<1>1. /\ \A t \in Tokens : token'[t].kind = token[t].kind
      /\ \A c \in Conns : supervisor[c] = "run" => OnlyCalls(c)
  BY AckGetId
<1>2. ~Unused'
  BY <1>0 DEF GetId, Return, Unused
<1>3. \A t \in Tokens : Succeeded(t)' => Succeeded(t)
  <2>1. \/ token' = [token EXCEPT ![u] = SetError(@, "PacketIdError")]
        \/ \E id : token' = [token EXCEPT ![u].id = id]
        \/ \E id : token' = [token EXCEPT ![u] = SetError([@ EXCEPT !.id = id], "InvalidTopic")]
    BY DEF GetId
  <2>2. token \in [Tokens -> TokenStates] /\ \A t \in Tokens : token[t] \in TokenStates
    BY <1>0, AckInvTypes
  <2>. HIDE DEF u
  <2>3. PICK tk : /\ token' = [token EXCEPT ![u] = tk]
                  /\ tk.complete /\ tk.error = "None" => token[u].complete /\ token[u].error = "None"
    <3>1. token[u] \in TokenStates
      BY <1>0, <2>2
    <3>2. /\ \A id : [token[u] EXCEPT !.id = id].complete = token[u].complete
          /\ \A id : [token[u] EXCEPT !.id = id].error = token[u].error
      BY <3>1 DEF TokenStates
    <3>3. SetError(token[u], "PacketIdError").error # "None"
      BY <3>1 DEF SetError, TokenStates
    <3>4. \A id : SetError([token[u] EXCEPT !.id = id], "InvalidTopic").error # "None"
      BY <3>1 DEF SetError, TokenStates
    <3>5. \/ token' = [token EXCEPT ![u] = SetError(token[u], "PacketIdError")]
          \/ \E id : token' = [token EXCEPT ![u] = [token[u] EXCEPT !.id = id]]
          \/ \E id : token' = [token EXCEPT ![u] = SetError([token[u] EXCEPT !.id = id], "InvalidTopic")]
      BY <1>0, <2>1, <2>2
    <3>6. CASE token' = [token EXCEPT ![u] = SetError(token[u], "PacketIdError")]
      BY <3>3, <3>6
    <3>7. ASSUME NEW id, token' = [token EXCEPT ![u] = [token[u] EXCEPT !.id = id]]
          PROVE  \E tk : /\ token' = [token EXCEPT ![u] = tk]
                         /\ tk.complete /\ tk.error = "None" => token[u].complete /\ token[u].error = "None"
      <4>. WITNESS [token[u] EXCEPT !.id = id]
      <4>. QED  BY <3>2, <3>7, Zenon
    <3>8. ASSUME NEW id, token' = [token EXCEPT ![u] = SetError([token[u] EXCEPT !.id = id], "InvalidTopic")]
          PROVE  \E tk : /\ token' = [token EXCEPT ![u] = tk]
                         /\ tk.complete /\ tk.error = "None" => token[u].complete /\ token[u].error = "None"
      BY <3>4, <3>8
    <3>. QED  BY <3>5, <3>6, <3>7, <3>8
  <2>. QED  BY <1>0, <2>2, <2>3 DEF Succeeded
<1>4. SuccessIsReal'
  BY <1>0, <1>1, <1>3, SuccessKept DEF RealInv
<1>5. ASSUME NEW c \in Conns, supervisor[c] = "run"
      PROVE  Received(c)' /\ \A x \in Carried(c)' : Dated(x.p)'
  <2>1. c = cur /\ Received(c) /\ \A x \in Carried(c) : Dated(x.p)
    BY <1>0, <1>5, LiveIsCur DEF RealInv
  <2>2. \A i \in Ids : index[c][i] # NoToken => index'[c][i] # NoToken
    <3>1. \/ UNCHANGED index
          \/ \E id : index' = [index EXCEPT ![cur][id] = u]
      BY DEF GetId
    <3>2. index[cur] \in [Ids -> Tokens \cup {NoToken}] /\ u # NoToken /\ cur \in States
      BY <1>0, AckInvTypes
    <3>. HIDE DEF u
    <3>. QED  BY <1>0, <2>1, <3>1, <3>2, AckInvTypes
  <2>3. Received(c)'
    BY <1>0, <1>2, <2>1, <2>2 DEF Received
  <2>4. ASSUME NEW x \in Carried(c)' PROVE Dated(x.p)'
    <3>1. CASE x \in Carried(c)
      BY <1>0, <1>1, <1>5, <2>1, <3>1, CarriedToken DEF Dated
    <3>2. CASE index[c][x.p.id] = NoToken /\ x.p.type = call.kind /\ x.p.tok = u
      <4>1. x.p.id \in Ids
        BY <1>5, <1>0, AckGetId, <2>4 DEF AckInv, Tracked, Genuine
      <4>2. CleanSession => x.p.id \notin received
        BY <2>1, <3>2, <4>1 DEF Received
      <4>3. call.kind \in AckedKinds
        BY DEF GetId, AckInv, AckRest, CallInv
      <4>. QED  BY <1>0, <1>1, <3>2, <4>2, <4>3 DEF Dated, AckedKinds
    <3>. QED  BY <1>1, <1>5, <2>4, <3>1, <3>2 DEF OnlyCalls
  <2>. QED  BY <2>3, <2>4
<1>. QED  BY <1>0, <1>4, <1>5 DEF RealInv

LEMMA RealQuietStep ==
    ASSUME AckInv, LostInv', RealInv, QuietStep
    PROVE  RealInv'
<1>. USE DEF clientVars, idVars, channelVars, taskVars, netVars, brokerVars, blockVars
<1>0. /\ LostInv /\ token \in [Tokens -> TokenStates]
      /\ supervisor' = supervisor /\ cur' = cur
      /\ \A c \in Conns : supervisor[c] = "run" => Follows(c) \/ GetId
  BY QuietSteps, AckQuietStep, AckInvTypes DEF Quiet, AckInv
<1>1. CASE GetId
  BY <1>1, RealGetId
<1>2. CASE Request
  <2>1. /\ UNCHANGED <<bpc, cur, index, outgoing, msg, flushing, inbox, wire, read_task, supervisor, received>>
        /\ pc = "idle" /\ bpc # "connect"
    BY <1>2 DEF Request, Idle
  <2>2. PICK t \in Tokens, kind \in RequestKinds, valid \in BOOLEAN : \E topics : StartRequest(t, kind, topics, valid)
    BY <1>2, MqttClientAssumption DEF Request
  <2>. QED  BY <2>1, <2>2, RealStartRequest
<1>3. CASE BlockResubscribes
  <2>1. /\ UNCHANGED <<bpc, cur, index, outgoing, msg, flushing, inbox, wire, read_task, supervisor, received>>
        /\ pc = "idle" /\ bpc # "connect"
    BY <1>3 DEF BlockResubscribes, Resubscribed
  <2>2. PICK t \in Tokens, x \in todo : StartRequest(t, "Subscribe", {x}, TRUE)
    BY <1>3 DEF BlockResubscribes
  <2>. QED  BY <2>1, <2>2, RealStartRequest DEF RequestKinds
<1>4. CASE BlockReconnected
  <2>1. /\ UNCHANGED <<brokerVars, wire>> /\ Unused /\ ~Unused'
        /\ UNCHANGED <<token, index>> \/ CleanUp(cur)
        /\ ~GetId
    BY <1>4 DEF BlockReconnected, Unused, GetId
  <2>2. /\ \A t \in Tokens : Succeeded(t)' => Succeeded(t) /\ token'[t].kind = token[t].kind
        /\ \A t \in Tokens : token'[t].kind = token[t].kind
    BY <2>1, CleanUpSucceeds DEF Succeeded, Names
  <2>3. SuccessIsReal'
    BY <2>1, <2>2, SuccessKept DEF RealInv
  <2>4. \A c \in Conns : supervisor[c] = "run" => (CleanSession => received = {})
    BY <2>1 DEF RealInv, Received
  <2>5. \A c \in Conns : supervisor[c] = "run" => \A x \in Carried(c) : x.p.tok \in Tokens
    BY CarriedToken
  <2>. QED  BY <1>0, <2>1, <2>2, <2>3, <2>4, <2>5, RealFollows DEF RealInv
<1>5. CASE \/ Send \/ SendBlocks \/ SendToClosed \/ AddSubscriptions \/ BlockGivesUp \/ BlockTick
           \/ BlockConnectFailed \/ BlockResubscribedAll \/ Block \/ Cancel
  <2>. SUFFICES ASSUME ~GetId PROVE RealInv'
    BY <1>1
  <2>1. UNCHANGED <<brokerVars, wire, index>>
    BY <1>5 DEF Send, SendBlocks, SendToClosed, AddSubscriptions, BlockGivesUp, BlockTick, BlockConnectFailed,
                BlockResubscribedAll, Block, Cancel
  <2>2. Unused' => Unused
    BY <1>5 DEF Send, SendBlocks, SendToClosed, AddSubscriptions, BlockGivesUp, BlockTick, BlockConnectFailed,
                BlockResubscribedAll, Block, Cancel, Sent, Return, Unused, Idle, AckInv, AckRest, Idleness,
                LostInv, PermitInv
  <2>3. /\ \A t \in Tokens : token'[t].kind = token[t].kind
        /\ \A t \in Tokens : Succeeded(t)' => Succeeded(t)
    <3>1. CASE SendToClosed
      <4>1. token' = [token EXCEPT ![call.tok] = SetError(@, "InternalServerError")]
        BY <3>1 DEF SendToClosed
      <4>. QED  BY <1>0, <4>1 DEF SetError, TokenStates, Succeeded
    <3>2. CASE AddSubscriptions
      <4>1. token' = [token EXCEPT ![call.tok].subs = call.topics]
        BY <3>2 DEF AddSubscriptions
      <4>. QED  BY <1>0, <4>1 DEF TokenStates, Succeeded
    <3>3. CASE UNCHANGED token
      BY <3>3 DEF Succeeded
    <3>. QED  BY <1>5, <3>1, <3>2, <3>3
              DEF Send, SendBlocks, BlockGivesUp, BlockTick, BlockConnectFailed, BlockResubscribedAll, Block, Cancel
  <2>4. SuccessIsReal'
    BY <2>1, <2>3, SuccessKept DEF RealInv
  <2>5. \A c \in Conns : supervisor[c] = "run" => \A x \in Carried(c) : x.p.tok \in Tokens
    BY CarriedToken
  <2>. QED  BY <1>0, <2>1, <2>2, <2>3, <2>4, <2>5, RealFollows DEF RealInv
<1>. QED  BY <1>1, <1>2, <1>3, <1>4, <1>5 DEF QuietStep

LEMMA RealNext ==
    ASSUME AckInv, RealInv, [Next]_vars
    PROVE  RealInv'
<1>1. LostInv' /\ LostInv
  BY LostNext DEF AckInv
<1>2. CASE UNCHANGED vars
  <2>. USE <1>2 DEF vars, clientVars, idVars, channelVars, taskVars, netVars, brokerVars, userVars
  <2>1. \A c \in Conns : Carried(c)' = Carried(c)
    BY DEF Carried, Calling, RequestPacket, Item
  <2>2. SuccessIsReal'
    BY SuccessKept DEF RealInv, Succeeded
  <2>. QED  BY <2>1, <2>2, RealFollows DEF RealInv, Follows, Unused
<1>. QED  BY <1>1, <1>2, NextCases, RealConnect, RealConnackAccepted, RealQuietStep, RealTasks, RealEnvironment

LEMMA RealInit == Init => RealInv
<1>. SUFFICES ASSUME Init PROVE RealInv
  OBVIOUS
<1>1. \A t \in Tokens : token[t].kind = "Publish0"
  BY DEF Init, StateInit, NewToken
<1>2. \A c \in Conns : wire[c] = {} /\ supervisor[c] = "none"
  BY DEF Init, StateInit
<1>. QED  BY <1>1, <1>2 DEF RealInv, SuccessIsReal, AckedKinds

(***************************************************************************)
(* A request that completes without an error has been acted upon by the    *)
(* server, through any number of connections, lost answers and reused      *)
(* identifiers (a QoS 2 publish: with a clean session).                    *)
(***************************************************************************)
THEOREM SuccessReal == Spec => []SuccessIsReal
<1>1. RealInv => SuccessIsReal
  BY DEF RealInv
<1>. QED  BY <1>1, AckInit, RealInit, AckNext, RealNext, PTL DEF Spec

------------------------------------------------------------------------------
(***************************************************************************)
(* A SUBACK finds the subscriptions attached, or the call that adds them.  *)
(* subscribe() attaches them after it has sent the packet, with no await   *)
(* in between: a request in the channel can lack them only while its call  *)
(* is still running, and then only another thread can write it and read    *)
(* its answer.  No other step may take them off, or use the token again    *)
(* while its SUBSCRIBE or its SUBACK is on the way.                        *)
(***************************************************************************)
Attached(t) == token[t].subs = token[t].topics

\* Subscriptions the server has, or has answered.
Awaited(c) ==
    {p.tok : p \in {p \in wire[c] : p.type = "Subscribe"}}
    \cup {inbox[c][k].tok : k \in {k \in 1 .. Len(inbox[c]) : inbox[c][k].type = "Suback"}}

Attaching(t) == pc = "add_subs" /\ call.tok = t

AttachedSoon(t) == Attached(t) \/ (MultiThread /\ Attaching(t))

AttachInv ==
    \A c \in Conns :
        /\ \A t \in Awaited(c) : AttachedSoon(t)
        /\ \A k \in 1 .. Len(outgoing[c]) :
              token[outgoing[c][k]].kind = "Subscribe" =>
                  Attached(outgoing[c][k]) \/ Attaching(outgoing[c][k])

LEMMA AwaitedCases ==
    ASSUME NEW c, NEW t
    PROVE  t \in Awaited(c) <=>
              \/ \E p \in wire[c] : p.type = "Subscribe" /\ p.tok = t
              \/ \E k \in 1 .. Len(inbox[c]) : inbox[c][k].type = "Suback" /\ inbox[c][k].tok = t
BY DEF Awaited

LEMMA AwaitedCasesNext ==
    ASSUME NEW c, NEW t
    PROVE  t \in Awaited(c)' <=>
              \/ \E p \in wire'[c] : p.type = "Subscribe" /\ p.tok = t
              \/ \E k \in 1 .. Len(inbox'[c]) : inbox'[c][k].type = "Suback" /\ inbox'[c][k].tok = t
BY DEF Awaited

LEMMA AwaitedType ==
    ASSUME LostInv, NEW c \in Conns
    PROVE  Awaited(c) \subseteq Tokens
<1>1. /\ \A p \in wire[c] : p.tok \in Tokens
      /\ \A k \in 1 .. Len(inbox[c]) : inbox[c][k].tok \in Tokens
  <2>1. /\ \A p \in wire[c] : p \in Packets(PacketTypes)
        /\ \A k \in 1 .. Len(inbox[c]) : inbox[c][k] \in Packets(AckTypes)
    BY AckInvTypes
  <2>. QED  BY <2>1 DEF Packets
<1>. QED  BY <1>1, AwaitedCases

\* No token gets another topic, or other subscriptions.
SameTopics ==
    \A t \in Tokens : /\ token'[t].kind = token[t].kind
                      /\ token'[t].topics = token[t].topics
                      /\ token'[t].subs = token[t].subs

(* A step that puts nothing in the channel, nor on the way to an answer. *)
LEMMA AttachLess ==
    ASSUME LostInv, AttachInv, SameTopics, pc # "add_subs" \/ UNCHANGED <<pc, call>>,
           \A c \in Conns : Awaited(c)' \subseteq Awaited(c) \/ \A t \in Awaited(c)' : AttachedSoon(t)',
           \A c \in Conns : \A k \in 1 .. Len(outgoing'[c]) :
              \E j \in 1 .. Len(outgoing[c]) : outgoing'[c][k] = outgoing[c][j]
    PROVE  AttachInv'
<1>1. \A t \in Tokens : Attached(t) => Attached(t)'
  BY DEF SameTopics, Attached
<1>2. \A c \in Conns : \A t \in Awaited(c)' : AttachedSoon(t)'
  <2>1. \A t \in Tokens : AttachedSoon(t) => AttachedSoon(t)'
    BY <1>1 DEF AttachedSoon, Attaching
  <2>. QED  BY <2>1, AwaitedType DEF AttachInv
<1>3. ASSUME NEW c \in Conns, NEW k \in 1 .. Len(outgoing'[c]), token'[outgoing'[c][k]].kind = "Subscribe"
      PROVE  (Attached(outgoing[c][k]) \/ Attaching(outgoing[c][k]))'
  <2>1. PICK j \in 1 .. Len(outgoing[c]) : outgoing'[c][k] = outgoing[c][j]
    BY <1>3
  <2>2. outgoing[c][j] \in Tokens
    BY AckInvTypes
  <2>3. token[outgoing[c][j]].kind = "Subscribe"
    BY <1>3, <2>1, <2>2 DEF SameTopics
  <2>4. PICK t : t = outgoing[c][j]
    OBVIOUS
  <2>5. Attached(t) \/ Attaching(t)
    BY <2>3, <2>4 DEF AttachInv
  <2>6. Attached(t)' \/ Attaching(t)'
    BY <1>1, <2>2, <2>4, <2>5 DEF Attaching
  <2>. QED  BY <2>1, <2>4, <2>6 DEF Attached, Attaching
<1>. QED  BY <1>2, <1>3 DEF AttachInv

\* new is what is left of a queue s.
Left(s, new) == new = s \/ new = <<>> \/ (s # <<>> /\ new = Tail(s))

LEMMA Remains ==
    ASSUME NEW S, NEW s \in Seq(S), NEW new, Left(s, new)
    PROVE  \A k \in 1 .. Len(new) : \E j \in 1 .. Len(s) : new[k] = s[j]
<1>. USE DEF Left
<1>1. CASE new = <<>>
  <2>1. Len(<<>>) = 0 /\ \A k \in 1 .. 0 : FALSE
    OBVIOUS
  <2>. QED  BY <1>1, <2>1
<1>2. CASE s # <<>> /\ new = Tail(s)
  BY <1>2, TailShift
<1>. QED  BY <1>1, <1>2

LEMMA OneEmptied ==
    ASSUME NEW D, NEW S, NEW f \in [D -> S], NEW g, NEW c \in D,
           \/ g = f
           \/ g = [f EXCEPT ![c] = <<>>]
           \/ f[c] # <<>> /\ g = [f EXCEPT ![c] = Tail(@)],
           NEW d \in D
    PROVE  Left(f[d], g[d])
<1>. USE DEF Left
<1>1. CASE g = [f EXCEPT ![c] = <<>>]
  <2>1. PICK e : e = <<>> /\ g = [f EXCEPT ![c] = e]
    BY <1>1
  <2>2. g[d] = IF d = c THEN e ELSE f[d]
    BY <2>1
  <2>. QED  BY <2>1, <2>2
<1>2. CASE f[c] # <<>> /\ g = [f EXCEPT ![c] = Tail(@)]
  <2>1. PICK e : e = Tail(f[c]) /\ g = [f EXCEPT ![c] = e]
    BY <1>2
  <2>2. g[d] = IF d = c THEN e ELSE f[d]
    BY <2>1
  <2>. QED  BY <1>2, <2>1, <2>2
<1>. QED  BY <1>1, <1>2

\* The tasks rename no token, and only take from the queues they read.
LEMMA TasksTake ==
    ASSUME LostInv, NEW c \in Conns, Tasks(c)
    PROVE  /\ SameTopics
           /\ \A d \in Conns : Left(outgoing[d], outgoing'[d]) /\ Left(inbox[d], inbox'[d])
<1>. USE DEF clientVars, idVars, taskVars, netVars, channelVars
<1>0. /\ token \in [Tokens -> TokenStates] /\ \A t \in Tokens : token[t] \in TokenStates
      /\ outgoing \in [Conns -> Seq(Tokens)] /\ inbox \in [Conns -> Seq(Packets(AckTypes))]
  BY AckInvTypes
<1>1. SameTopics
  <2>1. \A tk \in TokenStates :
            /\ FlowComplete(tk).kind = tk.kind /\ FlowComplete(tk).topics = tk.topics
            /\ FlowComplete(tk).subs = tk.subs
            /\ \A e : /\ SetError(tk, e).kind = tk.kind /\ SetError(tk, e).topics = tk.topics
                      /\ SetError(tk, e).subs = tk.subs
    BY DEF FlowComplete, SetError, TokenStates
  <2>2. \/ UNCHANGED token
        \/ \E u : token' = [token EXCEPT ![u] = FlowComplete(@)]
        \/ \E u : token' = [token EXCEPT ![u] = SetError(@, "IOError")]
        \/ \A t \in Tokens : token'[t] \in {token[t], SetError(token[t], "ConnectionLost")}
    BY <1>0 DEF Tasks, ReadHandler, MsgArm, OutgoingArm, FlushEnds, HandlePuback, HandlePubcomp, CompleteAndFree,
           HandlePubrec, HandleSuback, HandleUnsuback, ReadBreak, WriteMsg, WriteMsgFails, WriterExits, CleanUp,
           WriteOutgoing, WriteOutgoingFails, OutgoingWritten, FlushFails, Supervise
  <2>3. ASSUME NEW u, NEW new, token' = [token EXCEPT ![u] = new],
               u \in Tokens => /\ new.kind = token[u].kind /\ new.topics = token[u].topics
                               /\ new.subs = token[u].subs
        PROVE  SameTopics
    BY <1>0, <2>3 DEF SameTopics
  <2>4. ASSUME NEW u, token' = [token EXCEPT ![u] = FlowComplete(@)]
        PROVE  SameTopics
    <3>1. token' = [token EXCEPT ![u] = FlowComplete(token[u])]
      BY <1>0, <2>4
    <3>. QED  BY <1>0, <2>1, <2>3, <3>1
  <2>5. ASSUME NEW u, token' = [token EXCEPT ![u] = SetError(@, "IOError")]
        PROVE  SameTopics
    <3>1. token' = [token EXCEPT ![u] = SetError(token[u], "IOError")]
      BY <1>0, <2>5
    <3>. QED  BY <1>0, <2>1, <2>3, <3>1
  <2>6. CASE \A t \in Tokens : token'[t] \in {token[t], SetError(token[t], "ConnectionLost")}
    <3>. SUFFICES ASSUME NEW t \in Tokens
                  PROVE  /\ token'[t].kind = token[t].kind
                         /\ token'[t].topics = token[t].topics
                         /\ token'[t].subs = token[t].subs
      BY DEF SameTopics
    <3>1. token[t] \in TokenStates
      BY <1>0
    <3>2. token'[t] = token[t] \/ token'[t] = SetError(token[t], "ConnectionLost")
      BY <2>6
    <3>. QED  BY <2>1, <3>1, <3>2
  <2>7. CASE UNCHANGED token
    BY <2>7 DEF SameTopics
  <2>. QED  BY <2>2, <2>4, <2>5, <2>6, <2>7
<1>2. ASSUME NEW d \in Conns
      PROVE  Left(outgoing[d], outgoing'[d])
  <2>1. \/ outgoing' = outgoing
        \/ outgoing' = [outgoing EXCEPT ![c] = <<>>]
        \/ outgoing[c] # <<>> /\ outgoing' = [outgoing EXCEPT ![c] = Tail(@)]
    <3>1. CASE ReadHandler(c) \/ ReadBreak(c) \/ Supervise(c)
      BY <3>1 DEF ReadHandler, HandlePuback, HandlePubcomp, HandlePubrec, HandleSuback, HandleUnsuback,
                  ReadBreak, Supervise
    <3>2. CASE MsgArm(c) \/ OutgoingArm(c) \/ FlushEnds(c)
      BY <3>2 DEF MsgArm, OutgoingArm, FlushEnds, WriteMsg, WriteMsgFails, WriterExits, WriterDone,
                  WriteOutgoing, WriteOutgoingFails, OutgoingWritten, FlushFails
    <3>. QED  BY <1>0, <3>1, <3>2 DEF Tasks
  <2>. QED  BY <1>0, <2>1, OneEmptied
<1>3. ASSUME NEW d \in Conns
      PROVE  Left(inbox[d], inbox'[d])
  <2>1. \/ inbox' = inbox
        \/ inbox' = [inbox EXCEPT ![c] = <<>>]
        \/ inbox[c] # <<>> /\ inbox' = [inbox EXCEPT ![c] = Tail(@)]
    <3>1. CASE ReadHandler(c) \/ ReadBreak(c) \/ Supervise(c)
      BY <3>1 DEF ReadHandler, HandlePuback, HandlePubcomp, HandlePubrec, HandleSuback, HandleUnsuback,
                  ReadBreak, Supervise, ReaderDone, Receive, Consume
    <3>2. CASE MsgArm(c) \/ OutgoingArm(c) \/ FlushEnds(c)
      BY <3>2 DEF MsgArm, OutgoingArm, FlushEnds, WriteMsg, WriteMsgFails, WriterExits,
                  WriteOutgoing, WriteOutgoingFails, OutgoingWritten, FlushFails
    <3>. QED  BY <1>0, <3>1, <3>2 DEF Tasks
  <2>. QED  BY <1>0, <2>1, OneEmptied
<1>. QED  BY <1>1, <1>2, <1>3

LEMMA AttachTasks ==
    ASSUME LostInv, AttachInv, NEW c \in Conns, Scheduled(Tasks(c))
    PROVE  AttachInv'
<1>. USE DEF clientVars, idVars, taskVars, netVars, channelVars
<1>0. /\ (pc = "add_subs" => MultiThread) /\ UNCHANGED <<pc, call>> /\ Tasks(c)
      /\ token \in [Tokens -> TokenStates] /\ \A t \in Tokens : token[t] \in TokenStates
      /\ outgoing \in [Conns -> Seq(Tokens)] /\ outgoing[c] \in Seq(Tokens)
      /\ inbox \in [Conns -> Seq(Packets(AckTypes))] /\ inbox[c] \in Seq(Packets(AckTypes))
      /\ wire \in [Conns -> SUBSET Packets(PacketTypes)]
      /\ msg[c] \in Seq(Packets({"Pubrel"}))
  BY AckInvTypes DEF Scheduled, AtAwait, userVars
<1>1. SameTopics /\ \A d \in Conns : Left(outgoing[d], outgoing'[d]) /\ Left(inbox[d], inbox'[d])
  BY <1>0, TasksTake
<1>2. ASSUME NEW d \in Conns
      PROVE  \A k \in 1 .. Len(outgoing'[d]) : \E j \in 1 .. Len(outgoing[d]) : outgoing'[d][k] = outgoing[d][j]
  <2>1. outgoing[d] \in Seq(Tokens)
    BY <1>0
  <2>. QED  BY <1>1, <2>1, Remains
<1>3. ASSUME NEW d \in Conns
      PROVE  \A k \in 1 .. Len(inbox'[d]) : \E j \in 1 .. Len(inbox[d]) : inbox'[d][k] = inbox[d][j]
  <2>1. inbox[d] \in Seq(Packets(AckTypes))
    BY <1>0
  <2>. QED  BY <1>1, <2>1, Remains
<1>4. ASSUME NEW d \in Conns, NEW p \in wire'[d], p.type = "Subscribe"
      PROVE  p \in wire[d] \/ (d = c /\ outgoing[c] # <<>> /\ p = RequestPacket(Head(outgoing[c])))
  <2>1. \/ wire' = wire
        \/ msg[c] # <<>> /\ Transmit(c, Head(msg[c]))
        \/ outgoing[c] # <<>> /\ Transmit(c, RequestPacket(Head(outgoing[c])))
    BY <1>0 DEF Tasks, ReadHandler, MsgArm, OutgoingArm, FlushEnds, HandlePuback, HandlePubcomp,
           HandlePubrec, HandleSuback, HandleUnsuback, ReadBreak, WriteMsg, WriteMsgFails, WriterExits,
           WriteOutgoing, WriteOutgoingFails, OutgoingWritten, FlushFails, Supervise
  <2>2. msg[c] # <<>> => Head(msg[c]).type # "Subscribe"
    <3>1. msg[c] # <<>> => Head(msg[c]) \in Packets({"Pubrel"})
      BY <1>0
    <3>. QED  BY <3>1 DEF Packets
  <2>. QED  BY <1>0, <1>4, <2>1, <2>2 DEF Transmit
<1>5. ASSUME NEW d \in Conns, NEW t \in Awaited(d)'
      PROVE  AttachedSoon(t)'
  <2>0. \A u \in Tokens : AttachedSoon(u) => AttachedSoon(u)'
    BY <1>0, <1>1 DEF SameTopics, Attached, AttachedSoon, Attaching
  <2>1. CASE t \in Awaited(d)
    BY <2>0, <2>1, AwaitedType DEF AttachInv
  <2>2. CASE \E p \in wire'[d] : p.type = "Subscribe" /\ p.tok = t /\ d = c /\ outgoing[c] # <<>>
                                  /\ p = RequestPacket(Head(outgoing[c]))
    <3>1. PICK u \in Tokens : u = Head(outgoing[c]) /\ outgoing[c][1] = u /\ 1 \in 1 .. Len(outgoing[c])
      BY <1>0, <2>2
    <3>2. t = u /\ token[u].kind = "Subscribe"
      BY <2>2, <3>1 DEF RequestPacket, Packet
    <3>3. AttachedSoon(u)
      BY <1>0, <3>1, <3>2 DEF AttachInv, AttachedSoon, Attaching
    <3>. QED  BY <2>0, <3>2, <3>3
  <2>3. CASE \E p \in wire'[d] : p.type = "Subscribe" /\ p.tok = t
    BY <1>4, <2>1, <2>2, <2>3, AwaitedCases
  <2>4. CASE \E k \in 1 .. Len(inbox'[d]) : inbox'[d][k].type = "Suback" /\ inbox'[d][k].tok = t
    BY <1>3, <2>1, <2>4, AwaitedCases
  <2>. QED  BY <1>5, <2>3, <2>4, AwaitedCasesNext
<1>. QED  BY <1>0, <1>1, <1>2, <1>5, AttachLess

LEMMA AttachEnvironment ==
    ASSUME LostInv, AttachInv, Environment, UNCHANGED userVars
    PROVE  AttachInv'
<1>. USE DEF userVars, clientVars, channelVars
<1>0. /\ UNCHANGED <<pc, call, token, outgoing>> /\ SameTopics
      /\ wire \in [Conns -> SUBSET Packets(PacketTypes)] /\ inbox \in [Conns -> Seq(Packets(AckTypes))]
      /\ \A t : Attached(t)' <=> Attached(t)
  BY AckInvTypes DEF Environment, SameTopics, Attached
<1>1. ASSUME \A d \in Conns : wire'[d] \subseteq wire[d], UNCHANGED inbox
      PROVE  AttachInv'
  <2>1. \A d \in Conns : Awaited(d)' \subseteq Awaited(d)
    BY <1>1, AwaitedCases, AwaitedCasesNext
  <2>. QED  BY <1>0, <2>1, AttachLess
<1>2. ASSUME NEW c \in Conns, NEW p \in wire[c], NEW type, NEW granted, Answer(c, p, type, granted),
             type = "Suback" => p.type = "Subscribe"
      PROVE  AttachInv'
  <2>. DEFINE r == [p EXCEPT !.type = type, !.granted = granted]
  <2>1. \A d \in Conns : wire'[d] \subseteq wire[d]
    BY <1>0, <1>2 DEF Answer
  <2>2. p \in Packets(PacketTypes)
    BY <1>0
  <2>3. r.type = type /\ r.tok = p.tok
    BY <2>2 DEF Packets
  <2>. HIDE DEF r
  <2>4. ASSUME NEW d \in Conns, NEW k \in 1 .. Len(inbox'[d])
        PROVE  (k \in 1 .. Len(inbox[d]) /\ inbox'[d][k] = inbox[d][k]) \/ (d = c /\ inbox'[d][k] = r)
    <3>1. inbox' = inbox \/ inbox' = [inbox EXCEPT ![c] = Append(@, r)]
      BY <1>0, <1>2 DEF Answer, r
    <3>2. inbox[d] \in Seq(Packets(AckTypes))
      BY <1>0
    <3>3. CASE inbox'[d] = inbox[d]
      BY <2>4, <3>3
    <3>4. CASE d = c /\ inbox'[d] = Append(inbox[d], r)
      BY <2>4, <3>2, <3>4
    <3>. QED  BY <1>0, <3>1, <3>3, <3>4
  <2>5. ASSUME NEW d \in Conns, NEW t \in Awaited(d)'
        PROVE  t \in Awaited(d)
    <3>1. CASE \E q \in wire'[d] : q.type = "Subscribe" /\ q.tok = t
      BY <2>1, <3>1, AwaitedCases
    <3>2. CASE \E k \in 1 .. Len(inbox'[d]) : inbox'[d][k].type = "Suback" /\ inbox'[d][k].tok = t
      BY <1>2, <2>3, <2>4, <3>2, AwaitedCases
    <3>. QED  BY <2>5, <3>1, <3>2, AwaitedCasesNext
  <2>. QED  BY <1>0, <2>5, AttachLess
<1>3. ASSUME NEW c \in Conns, NEW p \in wire[c], Serve(c, p)
      PROVE  AttachInv'
  <2>1. CASE p.type = "Disconnect"
    <3>1. wire' = [wire EXCEPT ![c] = {}] /\ UNCHANGED inbox
      BY <1>3, <2>1 DEF Serve
    <3>2. \A d \in Conns : wire'[d] \subseteq wire[d]
      BY <1>0, <3>1
    <3>. QED  BY <1>1, <3>1, <3>2
  <2>2. CASE p.type # "Disconnect"
    <3>1. PICK type, granted : Answer(c, p, type, granted) /\ (type = "Suback" => p.type = "Subscribe")
      BY <1>3, <2>2 DEF Serve
    <3>. QED  BY <1>2, <3>1
  <2>. QED  BY <2>1, <2>2
<1>4. ASSUME NEW c \in Conns, LinkBreaks(c)
      PROVE  AttachInv'
  <2>1. \A d \in Conns : inbox'[d] \in {inbox[d], <<>>} /\ wire'[d] \subseteq wire[d]
    BY <1>0, <1>4, BrokenLinkLoses
  <2>2. ASSUME NEW d \in Conns, NEW t \in Awaited(d)'
        PROVE  t \in Awaited(d)
    <3>1. CASE \E q \in wire'[d] : q.type = "Subscribe" /\ q.tok = t
      BY <2>1, <3>1, AwaitedCases
    <3>2. CASE \E k \in 1 .. Len(inbox'[d]) : inbox'[d][k].type = "Suback" /\ inbox'[d][k].tok = t
      BY <2>1, <3>2, AwaitedCases, NothingInEmpty
    <3>. QED  BY <2>2, <3>1, <3>2, AwaitedCasesNext
  <2>. QED  BY <1>0, <2>2, AttachLess
<1>5. CASE SessionLost
  BY <1>1, <1>5 DEF SessionLost, netVars
<1>. QED  BY <1>3, <1>4, <1>5 DEF Environment

LEMMA AttachConnect ==
    ASSUME LostInv, AttachInv,
           \/ Connect \/ TransportConnected \/ ConnectFails \/ ConnectReturns \/ BlockReconnects
           \/ \E present \in BOOLEAN : ConnackAccepted(present)
    PROVE  AttachInv'
<1>. USE DEF netVars, channelVars
<1>1. /\ UNCHANGED <<token, outgoing, inbox>> /\ pc # "add_subs"
      /\ \A c \in Conns : wire'[c] \in {wire[c], {}}
  BY DEF Connect, TransportConnected, ConnectFails, ConnectReturns, BlockReconnects, ConnackAccepted, Accept,
         Idle, LostInv, PermitInv
<1>2. SameTopics /\ \A c \in Conns : Awaited(c)' \subseteq Awaited(c)
  BY <1>1, AwaitedCases, AwaitedCasesNext DEF SameTopics
<1>. QED  BY <1>1, <1>2, AttachLess

LEMMA AttachStartRequest ==
    ASSUME AckInv, AttachInv, LostInv', NEW t \in Tokens, NEW kind \in RequestKinds, NEW topics, NEW valid,
           StartRequest(t, kind, topics, valid), pc = "idle", bpc # "connect",
           UNCHANGED <<bpc, cur, index, outgoing, msg, flushing, inbox, wire, read_task, supervisor>>
    PROVE  AttachInv'
<1>0. LostInv
  BY DEF AckInv
<1>1. PICK new : token' = [token EXCEPT ![t] = new]
  BY DEF StartRequest
<1>2. \A u \in Tokens \ {t} : token'[u] = token[u]
  BY <1>0, <1>1, AckInvTypes
<1>3. ASSUME NEW c \in Conns, NEW u \in Awaited(c)'
      PROVE  AttachedSoon(u)'
  <2>1. u \in Awaited(c) /\ u \in Tokens
    BY <1>0, AwaitedType, AwaitedCases, AwaitedCasesNext
  <2>2. u # t
    <3>1. CASE \E p \in wire[c] : p.type = "Subscribe" /\ p.tok = u
      BY <3>1 DEF StartRequest, Fresh
    <3>2. CASE \E k \in 1 .. Len(inbox[c]) : inbox[c][k].type = "Suback" /\ inbox[c][k].tok = u
      <4>1. PICK k \in 1 .. Len(inbox[c]) : inbox[c][k].tok = u
        BY <3>2
      <4>2. supervisor[c] = "run"
        <5>1. inbox[c] # <<>>
          BY <4>1
        <5>. QED  BY <1>0, <5>1, LiveIsCur DEF AckInv, AckRest, Idleness
      <4>3. Item("inbox", k, inbox[c][k]) \in Carried(c)
        BY CarriedCases
      <4>. QED  BY <4>1, <4>2, <4>3, AckStartRequest, ItemFields
    <3>. QED  BY <2>1, <3>1, <3>2, AwaitedCases
  <2>3. Attached(u)
    BY <2>1 DEF AttachInv, AttachedSoon, Attaching
  <2>. QED  BY <1>2, <2>1, <2>2, <2>3 DEF AttachedSoon, Attached
<1>4. ASSUME NEW c \in Conns, NEW k \in 1 .. Len(outgoing[c])
      PROVE  token'[outgoing[c][k]].kind = "Subscribe" => Attached(outgoing[c][k])'
  <2>1. PICK u : u = outgoing[c][k]
    OBVIOUS
  <2>2. u \in Tokens /\ u # t
    BY <1>0, <2>1, AckInvTypes DEF StartRequest, Fresh
  <2>3. token[u].kind = "Subscribe" => Attached(u)
    BY <2>1 DEF AttachInv, Attaching
  <2>4. token'[u].kind = "Subscribe" => Attached(u)'
    BY <1>2, <2>2, <2>3 DEF Attached
  <2>. QED  BY <2>1, <2>4 DEF Attached
<1>. QED  BY <1>3, <1>4 DEF AttachInv, Attached

LEMMA AttachQuietStep ==
    ASSUME AckInv, AttachInv, LostInv', QuietStep
    PROVE  AttachInv'
<1>. USE DEF clientVars, idVars, channelVars, taskVars, netVars, brokerVars, blockVars
<1>0. /\ LostInv /\ token \in [Tokens -> TokenStates] /\ \A t \in Tokens : token[t] \in TokenStates
      /\ outgoing \in [Conns -> Seq(Tokens)]
  BY AckInvTypes DEF AckInv
<1>1. CASE Request
  <2>1. /\ UNCHANGED <<bpc, cur, index, outgoing, msg, flushing, inbox, wire, read_task, supervisor>>
        /\ pc = "idle" /\ bpc # "connect"
    BY <1>1 DEF Request, Idle
  <2>2. PICK t \in Tokens, kind \in RequestKinds, valid \in BOOLEAN : \E topics : StartRequest(t, kind, topics, valid)
    BY <1>1, MqttClientAssumption DEF Request
  <2>. QED  BY <2>1, <2>2, AttachStartRequest
<1>2. CASE BlockResubscribes
  <2>1. /\ UNCHANGED <<bpc, cur, index, outgoing, msg, flushing, inbox, wire, read_task, supervisor>>
        /\ pc = "idle" /\ bpc # "connect"
    BY <1>2 DEF BlockResubscribes, Resubscribed
  <2>2. PICK t \in Tokens, x \in todo : StartRequest(t, "Subscribe", {x}, TRUE)
    BY <1>2 DEF BlockResubscribes
  <2>. QED  BY <2>1, <2>2, AttachStartRequest DEF RequestKinds
<1>3. CASE Send
  <2>1. PICK c \in Conns, u \in Tokens : c = cur /\ u = call.tok
    BY <1>0, <1>3, LostInvTypes DEF Send, Open
  <2>2. /\ outgoing' = [outgoing EXCEPT ![c] = Append(@, u)]
        /\ UNCHANGED <<token, wire, inbox>> /\ pc # "add_subs"
        /\ call.kind = token[u].kind
        /\ call.kind = "Subscribe" => pc' = "add_subs" /\ call' = call
    BY <1>3, <2>1 DEF Send, Sent, AckInv, AckRest, CallInv, BeforeSend
  <2>3. \A t : Attached(t)' <=> Attached(t)
    BY <2>2 DEF Attached
  <2>4. ASSUME NEW d \in Conns, NEW k \in 1 .. Len(outgoing'[d])
        PROVE  (k \in 1 .. Len(outgoing[d]) /\ outgoing'[d][k] = outgoing[d][k]) \/ outgoing'[d][k] = u
    <3>1. outgoing[d] \in Seq(Tokens)
      BY <1>0
    <3>2. outgoing'[d] = outgoing[d] \/ outgoing'[d] = Append(outgoing[d], u)
      BY <1>0, <2>2
    <3>. QED  BY <2>4, <3>1, <3>2
  <2>5. ASSUME NEW d \in Conns, NEW k \in 1 .. Len(outgoing'[d]), token'[outgoing'[d][k]].kind = "Subscribe"
        PROVE  (Attached(outgoing[d][k]) \/ Attaching(outgoing[d][k]))'
    <3>1. CASE outgoing'[d][k] = u
      BY <2>1, <2>2, <2>5, <3>1 DEF Attaching
    <3>2. CASE k \in 1 .. Len(outgoing[d]) /\ outgoing'[d][k] = outgoing[d][k]
      BY <2>2, <2>5, <3>2 DEF AttachInv, Attaching, Attached
    <3>. QED  BY <2>4, <2>5, <3>1, <3>2
  <2>6. \A d \in Conns : \A t \in Awaited(d)' : AttachedSoon(t)'
    <3>1. ASSUME NEW d \in Conns, NEW t \in Awaited(d)'
          PROVE  t \in Awaited(d)
      BY <2>2, AwaitedCases, AwaitedCasesNext
    <3>2. ASSUME NEW d \in Conns, NEW t \in Awaited(d)
          PROVE  Attached(t)'
      BY <2>2, <2>3, <3>2 DEF AttachInv, AttachedSoon, Attaching
    <3>. QED  BY <3>1, <3>2 DEF AttachedSoon
  <2>. QED  BY <2>5, <2>6 DEF AttachInv
<1>4. CASE AddSubscriptions
  <2>1. PICK u \in Tokens : u = call.tok
    BY <1>0, <1>4, LostInvTypes DEF AddSubscriptions
  <2>2. /\ token' = [token EXCEPT ![u].subs = call.topics] /\ call.topics = token[u].topics
        /\ UNCHANGED <<outgoing, wire, inbox>>
    BY <1>4, <2>1 DEF AddSubscriptions, AckInv, AckRest, CallInv
  <2>3. \A t \in Tokens : (Attached(t) \/ t = u => Attached(t)') /\ token'[t].kind = token[t].kind
    BY <1>0, <2>2 DEF Attached, TokenStates
  <2>4. \A d \in Conns : \A t \in Awaited(d)' : AttachedSoon(t)'
    <3>1. ASSUME NEW d \in Conns, NEW t \in Awaited(d)'
          PROVE  t \in Awaited(d)
      BY <2>2, AwaitedCases, AwaitedCasesNext
    <3>2. ASSUME NEW d \in Conns, NEW t \in Awaited(d)
          PROVE  Attached(t)'
      <4>1. t \in Tokens
        BY <1>0, <3>2, AwaitedType
      <4>2. Attached(t) \/ t = u
        BY <2>1, <3>2 DEF AttachInv, AttachedSoon, Attaching
      <4>. QED  BY <2>3, <4>1, <4>2
    <3>. QED  BY <3>1, <3>2 DEF AttachedSoon
  <2>5. ASSUME NEW d \in Conns, NEW k \in 1 .. Len(outgoing[d]), token'[outgoing[d][k]].kind = "Subscribe"
        PROVE  Attached(outgoing[d][k])'
    <3>1. PICK t \in Tokens : t = outgoing[d][k]
      BY <1>0
    <3>2. Attached(t)'
      BY <2>1, <2>3, <2>5, <3>1 DEF AttachInv, Attaching
    <3>. QED  BY <2>2, <3>1, <3>2 DEF Attached
  <2>. QED  BY <2>2, <2>4, <2>5 DEF AttachInv, Attached
<1>5. CASE \/ GetId \/ SendBlocks \/ SendToClosed \/ BlockGivesUp \/ BlockTick \/ BlockConnectFailed
           \/ BlockReconnected \/ BlockResubscribedAll \/ Block \/ Cancel
  <2>1. UNCHANGED <<outgoing, wire, inbox>> /\ pc # "add_subs"
    BY <1>0, <1>5 DEF GetId, SendBlocks, SendToClosed, BlockGivesUp, BlockTick, BlockConnectFailed, BlockReconnected,
                BlockResubscribedAll, Resubscribed, Block, Cancel, Idle, AtAwait, LostInv, PermitInv
  <2>2. SameTopics
    <3>1. CASE GetId \/ SendToClosed
      <4>1. PICK u \in Tokens : u = call.tok
        BY <1>0, <3>1, LostInvTypes DEF GetId, SendToClosed
      <4>2. \/ token' = [token EXCEPT ![u] = SetError(@, "PacketIdError")]
            \/ token' = [token EXCEPT ![u] = SetError(@, "InternalServerError")]
            \/ \E id : token' = [token EXCEPT ![u].id = id]
            \/ \E id : token' = [token EXCEPT ![u] = SetError([@ EXCEPT !.id = id], "InvalidTopic")]
        BY <3>1, <4>1 DEF GetId, SendToClosed
      <4>3. \A tk \in TokenStates : \A id :
              /\ [tk EXCEPT !.id = id].kind = tk.kind /\ [tk EXCEPT !.id = id].topics = tk.topics
              /\ [tk EXCEPT !.id = id].subs = tk.subs
              /\ \A e : /\ SetError(tk, e).kind = tk.kind /\ SetError(tk, e).topics = tk.topics
                        /\ SetError(tk, e).subs = tk.subs
                        /\ SetError([tk EXCEPT !.id = id], e).kind = tk.kind
                        /\ SetError([tk EXCEPT !.id = id], e).topics = tk.topics
                        /\ SetError([tk EXCEPT !.id = id], e).subs = tk.subs
        BY DEF SetError, TokenStates
      <4>4. ASSUME NEW new, token' = [token EXCEPT ![u] = new],
                   new.kind = token[u].kind /\ new.topics = token[u].topics /\ new.subs = token[u].subs
            PROVE  SameTopics
        BY <1>0, <4>4 DEF SameTopics
      <4>5. token[u] \in TokenStates
        BY <1>0
      <4>6. ASSUME NEW e, token' = [token EXCEPT ![u] = SetError(@, e)]
            PROVE  SameTopics
        <5>1. token' = [token EXCEPT ![u] = SetError(token[u], e)]
          BY <1>0, <4>6
        <5>2. /\ SetError(token[u], e).kind = token[u].kind /\ SetError(token[u], e).topics = token[u].topics
              /\ SetError(token[u], e).subs = token[u].subs
          BY <4>3, <4>5
        <5>. QED  BY <4>4, <5>1, <5>2
      <4>7. ASSUME NEW id, token' = [token EXCEPT ![u].id = id]
            PROVE  SameTopics
        <5>1. token' = [token EXCEPT ![u] = [token[u] EXCEPT !.id = id]]
          BY <1>0, <4>7
        <5>. QED  BY <4>3, <4>4, <4>5, <5>1
      <4>8. ASSUME NEW id, token' = [token EXCEPT ![u] = SetError([@ EXCEPT !.id = id], "InvalidTopic")]
            PROVE  SameTopics
        <5>1. PICK new : new = SetError([token[u] EXCEPT !.id = id], "InvalidTopic")
          OBVIOUS
        <5>2. token' = [token EXCEPT ![u] = new]
          BY <1>0, <4>8, <5>1
        <5>3. new.kind = token[u].kind /\ new.topics = token[u].topics /\ new.subs = token[u].subs
          BY <4>3, <4>5, <5>1
        <5>. QED  BY <4>4, <5>2, <5>3
      <4>. QED  BY <4>2, <4>6, <4>7, <4>8
    <3>2. CASE CleanUp(cur)
      BY <1>0, <3>2 DEF CleanUp, SetError, TokenStates, SameTopics
    <3>3. CASE UNCHANGED token
      BY <3>3 DEF SameTopics
    <3>. QED  BY <1>5, <3>1, <3>2, <3>3 DEF SendBlocks, BlockGivesUp, BlockTick, BlockConnectFailed, BlockReconnected,
                BlockResubscribedAll, Block, Cancel
  <2>3. \A d \in Conns : Awaited(d)' \subseteq Awaited(d)
    BY <2>1, AwaitedCases, AwaitedCasesNext
  <2>. QED  BY <1>0, <2>1, <2>2, <2>3, AttachLess
<1>. QED  BY <1>1, <1>2, <1>3, <1>4, <1>5 DEF QuietStep

(***************************************************************************)
(* A SUBACK finds the subscriptions of its request attached, and so no     *)
(* handler the user gave gets lost: whatever other calls, cancellations,   *)
(* losses and reconnections happen before it is read.  With other threads  *)
(* the call that sent the request is excepted until its very next step.    *)
(***************************************************************************)
THEOREM HandlersAttached == Spec => []HandlersAttachedBeforeAck
<1>1. Init => AttachInv
  <2>. SUFFICES ASSUME Init PROVE AttachInv
    OBVIOUS
  <2>1. \A c \in Conns : wire[c] = {} /\ inbox[c] = <<>> /\ outgoing[c] = <<>>
    BY DEF Init, StateInit
  <2>2. Len(<<>>) = 0 /\ \A k \in 1 .. 0 : FALSE
    OBVIOUS
  <2>. QED  BY <2>1, <2>2, AwaitedCases DEF AttachInv
<1>2. AttachInv => HandlersAttachedBeforeAck
  <2>. SUFFICES ASSUME AttachInv, NEW c \in Conns, NEW k \in 1 .. Len(inbox[c]), inbox[c][k].type = "Suback"
                PROVE  AttachedSoon(inbox[c][k].tok)
    BY DEF HandlersAttachedBeforeAck, AttachedSoon, Attached, Attaching
  <2>. QED  BY AwaitedCases DEF AttachInv
<1>3. AckInv /\ AttachInv /\ [Next]_vars => AttachInv'
  <2>. SUFFICES ASSUME AckInv, AttachInv, [Next]_vars
                PROVE  AttachInv'
    OBVIOUS
  <2>1. LostInv' /\ LostInv
    BY LostNext DEF AckInv
  <2>2. CASE UNCHANGED vars
    BY <2>2 DEF vars, channelVars, netVars, userVars, AttachInv, Awaited, AttachedSoon, Attached, Attaching
  <2>. QED  BY <2>1, <2>2, NextCases, AttachConnect, AttachQuietStep, AttachTasks, AttachEnvironment
<1>. QED  BY <1>1, <1>2, <1>3, AckInit, AckNext, PTL DEF Spec

------------------------------------------------------------------------------
(***************************************************************************)
(* For clean sessions that block() alone re-establishes: a filter with a   *)
(* handler is subscribed at the server, or being unsubscribed.  A filter   *)
(* that a SUBACK still to be read grants is subscribed too, or the UNSUBACK*)
(* that gives it up is behind it in the inbox; and between the spawn of a  *)
(* connection's tasks and block()'s clean-up nothing is asked for, so what *)
(* the trie holds of the last session is gone before anything is added.    *)
(***************************************************************************)
Unsubscribing(t, x) == token[t].kind = "Unsubscribe" /\ x \in token[t].topics

\* The clean-up that follows a reconnection is done.
Settled == cur # 0 /\ pc # "spawned" /\ bpc # "connect" /\ supervisor[cur] = "run"

Fed ==
    \A x \in topic_manager :
        x \in subs \/ \E t \in Registered(index[cur]) : Unsubscribing(t, x)

Granted ==
    \A k \in 1 .. Len(inbox[cur]) : inbox[cur][k].type = "Suback" =>
        \A x \in inbox[cur][k].granted :
            \/ x \in subs
            \/ \E j \in 1 .. Len(inbox[cur]) :
                  k < j /\ inbox[cur][j].type = "Unsuback" /\ Unsubscribing(inbox[cur][j].tok, x)

\* No connection resumes a session, and connect() is called by hand for the first one only.
Sessionless ==
    /\ ~session /\ ~connect_token.session_present
    /\ cur = 0 => topic_manager = {}
    /\ pc \in {"transport", "connack"} /\ bpc # "connect" => cur = 0
    /\ pc = "spawned" => ~connect_token.failed /\ (bpc # "connect" => topic_manager = {})
    /\ bpc = "connect" /\ pc = "idle" /\ connect_token.failed => \A c \in Conns : supervisor[c] # "run"

FedInv == Sessionless /\ (Settled => Fed /\ Granted)

\* t is still the same request.
SameAsked(t) == token'[t].kind = token[t].kind /\ token'[t].topics = token[t].topics

LEMMA FedKept ==
    ASSUME Fed, UNCHANGED cur, topic_manager' \subseteq topic_manager, subs \subseteq subs',
           \A t \in Registered(index[cur]) :
              token[t].kind = "Unsubscribe" => t \in Registered(index'[cur]) /\ SameAsked(t)
    PROVE  Fed'
BY DEF Fed, Unsubscribing, SameAsked

LEMMA GrantedLeft ==
    ASSUME LostInv, cur \in Conns, Granted, UNCHANGED cur, Left(inbox[cur], inbox'[cur]), subs \subseteq subs',
           \A k \in 1 .. Len(inbox[cur]) : SameAsked(inbox[cur][k].tok)
    PROVE  Granted'
<1>. DEFINE s == inbox[cur]
<1>0. s \in Seq(Packets(AckTypes))
  BY AckInvTypes
<1>. SUFFICES ASSUME NEW k \in 1 .. Len(inbox'[cur]), inbox'[cur][k].type = "Suback",
                     NEW x \in inbox'[cur][k].granted, x \notin subs'
              PROVE  \E j \in 1 .. Len(inbox'[cur]) :
                        /\ k < j /\ inbox'[cur][j].type = "Unsuback"
                        /\ token'[inbox'[cur][j].tok].kind = "Unsubscribe"
                        /\ x \in token'[inbox'[cur][j].tok].topics
  BY DEF Granted, Unsubscribing
<1>1. CASE inbox'[cur] = s
  BY <1>1 DEF Granted, Unsubscribing, SameAsked
<1>2. CASE inbox'[cur] = <<>>
  <2>1. Len(<<>>) = 0 /\ \A i \in 1 .. 0 : FALSE
    OBVIOUS
  <2>. QED  BY <1>2, <2>1
<1>3. CASE s # <<>> /\ inbox'[cur] = Tail(s)
  <2>1. k + 1 \in 1 .. Len(s) /\ s[k + 1] = inbox'[cur][k]
    BY <1>0, <1>3, TailShift
  <2>2. PICK j \in 1 .. Len(s) : k + 1 < j /\ s[j].type = "Unsuback" /\ Unsubscribing(s[j].tok, x)
    BY <2>1 DEF Granted
  <2>3. /\ j - 1 \in 1 .. Len(inbox'[cur]) /\ k < j - 1
        /\ inbox'[cur][j - 1] = s[j]
    BY <1>0, <1>3, <2>2
  <2>. QED  BY <2>2, <2>3 DEF Unsubscribing, SameAsked
<1>. QED  BY <1>1, <1>2, <1>3 DEF Left

LEMMA CarriedInbox ==
    ASSUME AckInv, RealInv, cur # 0, supervisor[cur] = "run", NEW k \in 1 .. Len(inbox[cur])
    PROVE  /\ cur \in Conns
           /\ inbox[cur][k].id \in Ids /\ inbox[cur][k].tok \in Tokens
           /\ index[cur][inbox[cur][k].id] = inbox[cur][k].tok
           /\ inbox[cur][k].tok \in Registered(index[cur])
           /\ Dated(inbox[cur][k])
<1>0. LostInv /\ cur \in Conns
  BY LostInvTypes DEF AckInv
<1>1. PICK c \in Conns : c = cur
  BY <1>0
<1>2. Item("inbox", k, inbox[c][k]) \in Carried(c)
  BY <1>1, CarriedCases
<1>3. /\ inbox[c][k].id \in Ids /\ inbox[c][k].tok \in Tokens
      /\ index[c][inbox[c][k].id] = inbox[c][k].tok
      /\ Dated(inbox[c][k])
  BY <1>1, <1>2, CarriedToken, ItemFields DEF RealInv
<1>4. inbox[c][k].tok \in Registered(index[c])
  BY <1>0, <1>3, AckInvTypes DEF Registered
<1>. QED  BY <1>1, <1>3, <1>4

LEMMA FedTasks ==
    ASSUME AckInv, RealInv, Settled, Fed, Granted, NEW c \in Conns, Scheduled(Tasks(c)), supervisor'[c] = "run"
    PROVE  c = cur /\ cur' = cur /\ Fed' /\ Granted'
<1>. USE DEF clientVars, idVars, taskVars, netVars, channelVars, handlerVars, brokerVars, userVars, Settled
<1>0. /\ LostInv /\ Tasks(c) /\ UNCHANGED <<subs, cur>>
      /\ c = cur /\ cur \in Conns /\ cur # 0 /\ supervisor[cur] = "run"
      /\ SameTopics /\ Left(inbox[c], inbox'[c])
      /\ index \in [States -> [Ids -> Tokens \cup {NoToken}]] /\ c \in States /\ NoToken \notin Tokens
      /\ index[c] \in [Ids -> Tokens \cup {NoToken}]
      /\ supervisor \in [Conns -> {"none", "run", "done"}]
      /\ inbox[c] \in Seq(Packets(AckTypes))
  <2>1. LostInv /\ Tasks(c) /\ UNCHANGED subs
    BY DEF AckInv, Scheduled
  <2>2. UNCHANGED cur
    BY DEF Scheduled, Tasks, ReadHandler, MsgArm, OutgoingArm, FlushEnds, HandlePuback, HandlePubcomp,
           HandlePubrec, HandleSuback, HandleUnsuback, ReadBreak, WriteMsg, WriteMsgFails, WriterExits,
           WriteOutgoing, WriteOutgoingFails, OutgoingWritten, FlushFails, Supervise
  <2>3. c = cur
    BY <2>1, LiveIsCur
       DEF Tasks, ReadHandler, MsgArm, OutgoingArm, FlushEnds, HandlePuback, HandlePubcomp,
           HandlePubrec, HandleSuback, HandleUnsuback, ReadBreak, WriteMsg, WriteMsgFails, WriterExits,
           WriteOutgoing, WriteOutgoingFails, OutgoingWritten, FlushFails, Supervise, Receive, Reading, Writing
  <2>. QED  BY <2>1, <2>2, <2>3, TasksTake, AckInvTypes, LostInvTypes
<1>1. \A t \in Tokens : SameAsked(t)
  BY <1>0 DEF SameTopics, SameAsked
<1>2. Granted'
  <2>1. \A k \in 1 .. Len(inbox[cur]) : SameAsked(inbox[cur][k].tok)
    BY <1>0, <1>1, CarriedInbox
  <2>. QED  BY <1>0, <2>1, GrantedLeft
<1>3. Registered(index[c]) \subseteq Tokens
  BY <1>0 DEF Registered
<1>4. CASE HandlePuback(c) \/ HandlePubcomp(c) \/ HandleSuback(c) \/ HandleUnsuback(c)
  <2>. DEFINE h == Head(inbox[c])
  <2>0. 1 \in 1 .. Len(inbox[c]) /\ inbox[c][1] = h
    <3>1. inbox[c] # <<>>
      BY <1>4 DEF HandlePuback, HandlePubcomp, HandleSuback, HandleUnsuback, Receive
    <3>. QED  BY <1>0, <3>1
  <2>. HIDE DEF h
  <2>1. /\ h.id \in Ids /\ h.tok \in Tokens /\ index[c][h.id] = h.tok /\ h.tok \in Registered(index[c])
        /\ Dated(h)
    BY <1>0, <2>0, CarriedInbox
  <2>2. \A t \in Registered(index[c]) \ {h.tok} : t \in Registered(index'[c])
    <3>1. UNCHANGED index \/ CompleteAndFree(c, h.id)
      BY <1>4 DEF HandlePuback, HandlePubcomp, HandleSuback, HandleUnsuback, h
    <3>2. \A i \in Ids \ {h.id} : index'[c][i] = index[c][i]
      BY <1>0, <2>1, <3>1 DEF CompleteAndFree
    <3>. QED  BY <2>1, <3>2 DEF Registered
  <2>3. CASE HandlePuback(c) \/ HandlePubcomp(c)
    <3>1. topic_manager' = topic_manager /\ token[h.tok].kind # "Unsubscribe"
      BY <2>1, <2>3 DEF HandlePuback, HandlePubcomp, Receive, h, Dated
    <3>. QED  BY <1>0, <1>1, <1>2, <1>3, <2>2, <3>1, FedKept
  <2>4. CASE HandleSuback(c)
    <3>1. /\ h.type = "Suback" /\ token[h.tok].kind = "Subscribe"
          /\ topic_manager' \subseteq topic_manager \cup h.granted
      BY <2>1, <2>4 DEF HandleSuback, Receive, h, Dated
    <3>2. ASSUME NEW x \in topic_manager', x \notin subs
          PROVE  \E t \in Registered(index[cur]) : t # h.tok /\ Unsubscribing(t, x)
      <4>1. CASE x \in topic_manager
        BY <3>1, <3>2, <4>1 DEF Fed, Unsubscribing
      <4>2. CASE x \in h.granted
        <5>1. PICK j \in 1 .. Len(inbox[cur]) : Unsubscribing(inbox[cur][j].tok, x)
          BY <1>0, <2>0, <3>1, <3>2, <4>2 DEF Granted
        <5>2. inbox[cur][j].tok \in Registered(index[cur])
          BY <1>0, <5>1, CarriedInbox
        <5>. QED  BY <3>1, <5>1, <5>2 DEF Unsubscribing
      <4>. QED  BY <3>1, <3>2, <4>1, <4>2
    <3>. QED  BY <1>0, <1>1, <1>2, <1>3, <2>2, <3>2 DEF Fed, Unsubscribing, SameAsked
  <2>5. CASE HandleUnsuback(c)
    <3>1. topic_manager' = topic_manager \ token[h.tok].topics
      BY <1>0, <2>1, <2>5 DEF HandleUnsuback, Receive, h, Dated
    <3>2. ASSUME NEW x \in topic_manager', x \notin subs
          PROVE  \E t \in Registered(index[cur]) : t # h.tok /\ Unsubscribing(t, x)
      BY <3>1, <3>2 DEF Fed, Unsubscribing
    <3>. QED  BY <1>0, <1>1, <1>2, <1>3, <2>2, <3>2 DEF Fed, Unsubscribing, SameAsked
  <2>. QED  BY <1>4, <2>3, <2>4, <2>5
<1>5. CASE Supervise(c)
  BY <1>0, <1>5 DEF Supervise
<1>6. CASE HandlePubrec(c) \/ ReadBreak(c) \/ WriteMsg(c) \/ WriteMsgFails(c) \/ WriteOutgoing(c) \/ WriterExits(c)
           \/ OutgoingWritten(c) \/ WriteOutgoingFails(c) \/ FlushFails(c)
  <2>1. UNCHANGED <<topic_manager, index>>
    BY <1>6 DEF HandlePubrec, ReadBreak, WriteMsg, WriteMsgFails, WriteOutgoing, WriterExits, OutgoingWritten,
                WriteOutgoingFails, FlushFails
  <2>. QED  BY <1>0, <1>1, <1>2, <1>3, <2>1, FedKept
<1>. QED  BY <1>0, <1>4, <1>5, <1>6 DEF Tasks, ReadHandler, MsgArm, OutgoingArm, FlushEnds

LEMMA FedEnvironment ==
    ASSUME AckInv, RealInv, ~session, Settled, Fed, Granted, Environment, UNCHANGED userVars
    PROVE  Fed' /\ Granted'
<1>. USE DEF userVars, clientVars, idVars, channelVars, taskVars, netVars, brokerVars, handlerVars, Settled
<1>0. /\ LostInv /\ cur \in Conns /\ cur # 0 /\ supervisor[cur] = "run"
      /\ UNCHANGED <<cur, token, index, topic_manager>>
      /\ \A t : SameAsked(t)
      /\ wire \in [Conns -> SUBSET Packets(PacketTypes)] /\ inbox \in [Conns -> Seq(Packets(AckTypes))]
      /\ inbox[cur] \in Seq(Packets(AckTypes))
  BY AckInvTypes, LostInvTypes DEF Environment, AckInv, SameAsked
<1>1. ASSUME inbox'[cur] \in {inbox[cur], <<>>}, subs' = subs
      PROVE  Fed' /\ Granted'
  BY <1>0, <1>1, FedKept, GrantedLeft DEF Left
<1>2. ASSUME NEW p \in wire[cur], NEW type, NEW granted, Answer(cur, p, type, granted),
             \/ type = "Suback" /\ subs' = subs \cup granted
             \/ type = "Unsuback" /\ p.type = "Unsubscribe" /\ subs' = subs \ token[p.tok].topics
             \/ type \notin {"Suback", "Unsuback"} /\ subs' = subs
      PROVE  Fed' /\ Granted'
  <2>. DEFINE r == [p EXCEPT !.type = type, !.granted = granted]
              s == inbox[cur]
              n == Len(inbox[cur]) + 1
  <2>0. PICK c \in Conns : c = cur
    BY <1>0
  <2>1. p \in Packets(PacketTypes)
    BY <1>0, <1>2
  <2>2. r.type = type /\ r.tok = p.tok /\ r.granted = granted
    BY <2>1 DEF Packets
  <2>3. p.type # "Disconnect" => /\ p.tok \in Registered(index[cur])
                                 /\ p.type \in RequestKinds => token[p.tok].kind = p.type
    <3>. SUFFICES ASSUME p.type # "Disconnect"
                  PROVE  /\ p.tok \in Registered(index[cur])
                         /\ p.type \in RequestKinds => token[p.tok].kind = p.type
      OBVIOUS
    <3>1. Item("wire", 0, p) \in Carried(c)
      BY <1>2, <2>0, CarriedCases
    <3>2. p.id \in Ids /\ p.tok \in Tokens /\ index[c][p.id] = p.tok /\ Dated(p)
      BY <1>0, <2>0, <3>1, CarriedToken, ItemFields DEF RealInv
    <3>. QED  BY <1>0, <2>0, <3>2, AckInvTypes DEF Registered, Dated
  <2>4. ASSUME NEW x \in subs, x \notin subs'
        PROVE  type = "Unsuback" /\ p.tok \in Registered(index[cur]) /\ Unsubscribing(p.tok, x)
    <3>1. type = "Unsuback" /\ p.type = "Unsubscribe" /\ x \in token[p.tok].topics
      BY <1>2, <2>4
    <3>. QED  BY <2>3, <3>1 DEF Unsubscribing, RequestKinds
  <2>5. Fed'
    BY <1>0, <2>4 DEF Fed, Unsubscribing
  <2>. HIDE DEF r
  <2>6. CASE read_task[cur] # "run"
    <3>1. inbox'[cur] = <<>> /\ Len(<<>>) = 0 /\ \A k \in 1 .. 0 : FALSE
      BY <1>0, <1>2, <2>6 DEF Answer, AckInv, AckRest, Idleness
    <3>. QED  BY <1>0, <2>5, <3>1 DEF Granted
  <2>7. CASE read_task[cur] = "run"
    <3>1. inbox'[cur] = Append(s, r)
      BY <1>0, <1>2, <2>7 DEF Answer, r
    <3>2. /\ Len(inbox'[cur]) = n /\ inbox'[cur][n] = r /\ n \in 1 .. n /\ n \in Nat
          /\ \A k \in 1 .. Len(s) : k \in 1 .. n /\ k < n /\ inbox'[cur][k] = s[k]
          /\ \A k \in 1 .. n : k = n \/ k \in 1 .. Len(s)
      BY <1>0, <3>1
    <3>. HIDE DEF s, n
    <3>3. ASSUME NEW k \in 1 .. n, inbox'[cur][k].type = "Suback", NEW x \in inbox'[cur][k].granted, x \notin subs'
          PROVE  \E j \in 1 .. n :
                        /\ k < j /\ inbox'[cur][j].type = "Unsuback"
                        /\ token'[inbox'[cur][j].tok].kind = "Unsubscribe"
                        /\ x \in token'[inbox'[cur][j].tok].topics
      <4>1. k # n
        BY <1>2, <2>2, <3>2, <3>3
      <4>2. k \in 1 .. Len(s) /\ s[k].type = "Suback" /\ x \in s[k].granted
        BY <3>2, <3>3, <4>1
      <4>3. CASE x \in subs
        <5>1. r.type = "Unsuback" /\ Unsubscribing(r.tok, x)
          BY <2>2, <2>4, <3>3, <4>3
        <5>. QED  BY <1>0, <3>2, <4>2, <5>1 DEF Unsubscribing
      <4>4. CASE x \notin subs
        <5>1. PICK j \in 1 .. Len(s) : k < j /\ s[j].type = "Unsuback" /\ Unsubscribing(s[j].tok, x)
          BY <4>2, <4>4 DEF Granted, s
        <5>. QED  BY <1>0, <3>2, <5>1 DEF Unsubscribing
      <4>. QED  BY <4>3, <4>4
    <3>4. Len(inbox[cur])' = n
      BY <1>0, <3>2
    <3>. QED  BY <1>0, <2>5, <3>3, <3>4 DEF Granted, Unsubscribing
  <2>. QED  BY <2>6, <2>7
<1>3. ASSUME NEW c \in Conns, NEW p \in wire[c], Serve(c, p)
      PROVE  Fed' /\ Granted'
  <2>1. c = cur
    BY <1>3 DEF RealInv
  <2>2. CASE p.type = "Disconnect"
    BY <1>1, <1>3, <2>2 DEF Serve
  <2>3. CASE p.type = "Subscribe"
    <3>1. PICK granted : Answer(cur, p, "Suback", granted) /\ subs' = subs \cup granted
      BY <1>3, <2>1, <2>3 DEF Serve
    <3>. QED  BY <1>2, <1>3, <2>1, <3>1
  <2>4. CASE p.type = "Unsubscribe"
    <3>1. Answer(cur, p, "Unsuback", {}) /\ subs' = subs \ token[p.tok].topics
      BY <1>3, <2>1, <2>4 DEF Serve
    <3>. QED  BY <1>2, <1>3, <2>1, <2>4, <3>1
  <2>5. CASE p.type \in {"Publish1", "Publish2", "Pubrel"}
    <3>1. PICK type \in {"Puback", "Pubrec", "Pubcomp"} : Answer(cur, p, type, {}) /\ subs' = subs
      BY <1>3, <2>1, <2>5 DEF Serve
    <3>. QED  BY <1>2, <1>3, <2>1, <3>1
  <2>. QED  BY <1>3, <2>2, <2>3, <2>4, <2>5 DEF Serve
<1>4. ASSUME NEW c \in Conns, LinkBreaks(c)
      PROVE  Fed' /\ Granted'
  <2>1. subs' = subs
    BY <1>4 DEF LinkBreaks
  <2>. QED  BY <1>0, <1>1, <1>4, <2>1, BrokenLinkLoses
<1>. QED  BY <1>3, <1>4 DEF Environment, SessionLost

\* get_id takes a vacant identifier, for a request that stays what it was.
LEMMA GetIdNames ==
    ASSUME AckInv, GetId
    PROVE  /\ \A t \in Tokens : token'[t].kind = token[t].kind /\ token'[t].topics = token[t].topics
           /\ \A i \in Ids : index[cur][i] # NoToken => index'[cur][i] = index[cur][i]
<1>. DEFINE id == NextVacant(index[cur], last_issued_id[cur])
<1>0. /\ token \in [Tokens -> TokenStates] /\ \A t \in Tokens : token[t] \in TokenStates
      /\ index \in [States -> [Ids -> Tokens \cup {NoToken}]] /\ cur \in States
      /\ id # 0 => id \in Ids /\ index[cur][id] = NoToken
  <2>1. /\ token \in [Tokens -> TokenStates] /\ \A t \in Tokens : token[t] \in TokenStates
        /\ index \in [States -> [Ids -> Tokens \cup {NoToken}]] /\ cur \in States
    BY AckInvTypes DEF AckInv
  <2>2. id # 0 => id \in Ids /\ index[cur][id] = NoToken
    BY NextVacantType DEF AckInv, LostInv, LiveInv, TypeInv, TypeOK, StateTypeOK
  <2>. QED  BY <2>1, <2>2
<1>1. PICK u : u = call.tok
  OBVIOUS
<1>2. \/ token' = [token EXCEPT ![u] = SetError(@, "PacketIdError")] /\ UNCHANGED index
      \/ /\ id # 0 /\ index' = [index EXCEPT ![cur][id] = u]
         /\ \/ token' = [token EXCEPT ![u].id = id]
            \/ token' = [token EXCEPT ![u] = SetError([@ EXCEPT !.id = id], "InvalidTopic")]
  BY <1>1 DEF GetId, idVars
<1>3. \A tk \in TokenStates :
          /\ SetError(tk, "PacketIdError").kind = tk.kind /\ SetError(tk, "PacketIdError").topics = tk.topics
          /\ [tk EXCEPT !.id = id].kind = tk.kind /\ [tk EXCEPT !.id = id].topics = tk.topics
          /\ SetError([tk EXCEPT !.id = id], "InvalidTopic").kind = tk.kind
          /\ SetError([tk EXCEPT !.id = id], "InvalidTopic").topics = tk.topics
  <2>. HIDE DEF id
  <2>. QED  BY DEF SetError, TokenStates
<1>4. \A i \in Ids : index[cur][i] # NoToken => index'[cur][i] = index[cur][i]
  <2>. HIDE DEF id
  <2>. QED  BY <1>0, <1>2
<1>5. ASSUME NEW t \in Tokens
      PROVE  token'[t].kind = token[t].kind /\ token'[t].topics = token[t].topics
  <2>1. token'[t] \in {token[t], SetError(token[t], "PacketIdError"), [token[t] EXCEPT !.id = id],
                       SetError([token[t] EXCEPT !.id = id], "InvalidTopic")}
    <3>. HIDE DEF id
    <3>. QED  BY <1>0, <1>2
  <2>2. token[t] \in TokenStates
    BY <1>0
  <2>. HIDE DEF id
  <2>. QED  BY <1>3, <2>1, <2>2
<1>. QED  BY <1>4, <1>5

\* What a step of the user's task, its own connect() apart, does to the handlers.
LEMMA FedQuietStep ==
    ASSUME CleanSession, AckInv, RealInv, LostInv', FedInv, QuietStep
    PROVE  FedInv'
<1>. USE DEF clientVars, idVars, channelVars, taskVars, netVars, brokerVars, blockVars, handlerVars
<1>0. /\ LostInv /\ UNCHANGED <<cur, supervisor>>
      /\ token \in [Tokens -> TokenStates] /\ \A t \in Tokens : token[t] \in TokenStates
      /\ Registered(index[cur]) \subseteq Tokens
  <2>1. LostInv /\ UNCHANGED <<cur, supervisor>>
    BY QuietSteps DEF Quiet, AckInv
  <2>. QED  BY <2>1, AckInvTypes DEF Registered
<1>1. UNCHANGED <<session, subs, connect_token, inbox>>
  BY DEF QuietStep, GetId, Send, SendBlocks, SendToClosed, AddSubscriptions, BlockGivesUp, BlockTick,
         BlockConnectFailed, BlockReconnected, BlockResubscribes, BlockResubscribedAll, Request, Block, Cancel
<1>2. topic_manager' = topic_manager \/ (BlockReconnected /\ topic_manager' = {})
  BY <1>1 DEF QuietStep, GetId, Send, SendBlocks, SendToClosed, AddSubscriptions, BlockGivesUp, BlockTick, FedInv,
         BlockConnectFailed, BlockReconnected, BlockResubscribes, BlockResubscribedAll, Request, Block, Cancel
<1>3. /\ pc' \in {"transport", "connack", "spawned"} => pc' = pc /\ bpc' = bpc
      /\ bpc' = "connect" => bpc = "connect" /\ pc' = pc
  <2>1. CASE GetId \/ Send \/ SendBlocks \/ SendToClosed \/ AddSubscriptions
    BY <2>1 DEF GetId, Send, SendBlocks, SendToClosed, AddSubscriptions, Sent, Return, AckInv, AckRest, Idleness
  <2>2. CASE Request \/ BlockResubscribes
    <3>1. PICK t, kind, topics, valid : StartRequest(t, kind, topics, valid)
      BY <2>2 DEF Request, BlockResubscribes
    <3>2. pc = "idle" /\ bpc' = bpc /\ bpc # "connect"
      BY <2>2 DEF Request, BlockResubscribes, Resubscribed, Idle
    <3>3. pc' \notin {"transport", "connack", "spawned"}
      BY <3>1, <3>2 DEF StartRequest
    <3>. QED  BY <3>2, <3>3
  <2>3. CASE BlockGivesUp \/ BlockTick \/ BlockConnectFailed \/ BlockReconnected \/ BlockResubscribedAll \/ Block \/ Cancel
    BY <1>0, <2>3 DEF BlockGivesUp, BlockTick, BlockConnectFailed, BlockReconnected, BlockResubscribedAll, Resubscribed,
                Block, Cancel, Idle, LostInv, PermitInv
  <2>. QED  BY <2>1, <2>2, <2>3 DEF QuietStep
<1>4. Sessionless'
  BY <1>0, <1>1, <1>2, <1>3 DEF FedInv, Sessionless
<1>5. Settled' => Settled \/ BlockReconnected
  <2>1. CASE Cancel \/ BlockConnectFailed
    <3>1. (pc \in {"transport", "connack"} \/ (bpc = "connect" /\ connect_token.failed /\ pc = "idle")) =>
             \A c \in Conns : supervisor[c] # "run"
      BY <1>0 DEF FedInv, Sessionless, LostInv, LiveInv, OneLiveConnection
    <3>2. cur # 0 => cur \in Conns
      BY <1>0, LostInvTypes
    <3>3. CASE BlockConnectFailed
      BY <1>0, <3>1, <3>2, <3>3 DEF BlockConnectFailed, Settled
    <3>4. CASE Cancel
      <4>1. /\ pc # "spawned"
            /\ bpc = "connect" => pc \in {"transport", "connack"}
        BY <3>4 DEF Cancel, AtAwait, AckInv, AckRest, Idleness
      <4>. QED  BY <1>0, <3>1, <3>2, <4>1 DEF Settled
    <3>. QED  BY <2>1, <3>3, <3>4
  <2>2. CASE GetId \/ Send \/ SendBlocks \/ SendToClosed \/ AddSubscriptions
    BY <1>0, <2>2 DEF GetId, Send, SendBlocks, SendToClosed, AddSubscriptions, Settled, AckInv, AckRest, Idleness
  <2>3. CASE Request \/ BlockResubscribes
    BY <1>0, <2>3 DEF Request, BlockResubscribes, Resubscribed, Idle, Settled
  <2>4. CASE BlockGivesUp \/ BlockTick \/ BlockResubscribedAll \/ Block
    BY <1>0, <2>4 DEF BlockGivesUp, BlockTick, BlockResubscribedAll, Resubscribed,
                Block, Idle, LostInv, PermitInv, Settled
  <2>. QED  BY <2>1, <2>2, <2>3, <2>4 DEF QuietStep
<1>6. ASSUME Settled, Settled', ~BlockReconnected
      PROVE  Fed' /\ Granted'
  <2>0. cur \in Conns /\ cur # 0 /\ supervisor[cur] = "run" /\ cur \in States
    BY <1>0, <1>6, LostInvTypes DEF Settled
  <2>1. /\ \A t \in Registered(index[cur]) : SameAsked(t)
        /\ \A t \in Registered(index[cur]) : t \in Registered(index'[cur])
    <3>1. ASSUME NEW t \in Tokens, NEW kind, NEW topics, NEW valid, StartRequest(t, kind, topics, valid), UNCHANGED index
          PROVE  /\ \A u \in Registered(index[cur]) : SameAsked(u)
                 /\ \A u \in Registered(index[cur]) : u \in Registered(index'[cur])
      <4>1. t \notin Registered(index[cur])
        BY <2>0, <3>1 DEF StartRequest, Fresh
      <4>2. \E new : token' = [token EXCEPT ![t] = new]
        BY <3>1 DEF StartRequest
      <4>. QED  BY <1>0, <3>1, <4>1, <4>2 DEF SameAsked
    <3>2. CASE Request \/ BlockResubscribes
      BY <3>1, <3>2 DEF Request, BlockResubscribes
    <3>3. CASE GetId
      <4>1. \A t \in Tokens : SameAsked(t)
        BY <3>3, GetIdNames DEF SameAsked, AckInv
      <4>2. \A i \in Ids : index[cur][i] # NoToken => index'[cur][i] = index[cur][i]
        BY <3>3, GetIdNames
      <4>. QED  BY <1>0, <4>1, <4>2 DEF Registered
    <3>4. CASE SendToClosed \/ AddSubscriptions
      BY <1>0, <3>4, AckReturns DEF Names, SameAsked, SendToClosed, AddSubscriptions
    <3>5. CASE UNCHANGED <<token, index>>
      BY <3>5 DEF SameAsked
    <3>. QED  BY <1>6, <3>2, <3>3, <3>4, <3>5
              DEF QuietStep, Send, SendBlocks, BlockGivesUp, BlockTick, BlockConnectFailed, BlockResubscribedAll, Block, Cancel
  <2>2. Fed'
    BY <1>0, <1>1, <1>2, <1>6, <2>1, FedKept DEF FedInv
  <2>3. \A k \in 1 .. Len(inbox[cur]) : SameAsked(inbox[cur][k].tok)
    BY <2>0, <2>1, CarriedInbox
  <2>. QED  BY <1>0, <1>1, <1>6, <2>0, <2>2, <2>3, GrantedLeft DEF FedInv, Left
<1>7. ASSUME Settled', BlockReconnected
      PROVE  Fed' /\ Granted'
  <2>1. topic_manager' = {}
    BY <1>7 DEF BlockReconnected, FedInv, Sessionless
  <2>2. cur \in Conns /\ supervisor[cur] = "run"
    BY <1>0, <1>7, LostInvTypes DEF Settled
  <2>3. inbox[cur] = <<>>
    BY <1>7, <2>2 DEF BlockReconnected, AckInv, AckRest, Idleness, Unused, Empty
  <2>4. Len(<<>>) = 0 /\ \A k \in 1 .. 0 : FALSE
    OBVIOUS
  <2>. QED  BY <1>0, <1>1, <2>1, <2>3, <2>4 DEF Fed, Granted
<1>. QED  BY <1>4, <1>5, <1>6, <1>7 DEF FedInv

LEMMA FedConnect ==
    ASSUME CleanSession, ~ByHand, AckInv, LostInv', FedInv,
           \/ Connect \/ TransportConnected \/ ConnectFails \/ ConnectReturns \/ BlockReconnects
           \/ \E present \in BOOLEAN : cur < MaxConns /\ ConnackAccepted(present)
    PROVE  FedInv'
<1>. USE DEF clientVars, idVars, channelVars, taskVars, netVars, brokerVars, blockVars, handlerVars, FedInv, Sessionless
<1>0. LostInv /\ cur \in Nat
  BY AckInvTypes DEF AckInv, States
<1>1. CASE Connect \/ TransportConnected
  <2>1. ~Settled
    BY <1>0, <1>1 DEF Connect, TransportConnected, Settled, Idle, LostInv, LiveInv, OneLiveConnection, HasConn
  <2>2. Sessionless'
    BY <1>1 DEF Connect, Idle, StartConnect, ConnectToken, TransportConnected
  <2>3. ~Settled'
    BY <2>1, <1>1 DEF Connect, Idle, TransportConnected, Settled
  <2>. QED  BY <2>2, <2>3
<1>2. CASE ConnectFails
  <2>1. \A c \in Conns : supervisor'[c] # "run"
    BY <1>0, <1>2 DEF ConnectFails, LostInv, LiveInv, OneLiveConnection
  <2>2. cur' \in States /\ cur' = cur /\ ~Settled'
    BY <1>0, <1>2, <2>1, LostInvTypes DEF ConnectFails, Settled
  <2>3. Sessionless'
    BY <1>2, <2>1 DEF ConnectFails, ConnectToken, Accept
  <2>. QED  BY <2>2, <2>3
<1>3. CASE ConnectReturns
  <2>1. /\ connect_token'.session_present = FALSE /\ connect_token'.failed = FALSE
        /\ UNCHANGED <<session, cur, topic_manager, supervisor, bpc, inbox>>
        /\ pc' = "idle" /\ pc = "spawned"
    <3>1. connect_token \in ConnectTokens
      BY <1>0 DEF LostInv, LiveInv, TypeInv, TypeOK, ConnectTokens
    <3>. QED  BY <1>3, <3>1 DEF ConnectReturns, ConnectTokens
  <2>2. ASSUME Settled'
        PROVE  Fed' /\ Granted'
    <3>1. topic_manager' = {} /\ cur \in Conns /\ supervisor[cur] = "run"
      BY <1>0, <2>1, <2>2, LostInvTypes DEF Settled
    <3>2. inbox[cur] = <<>>
      BY <2>1, <3>1 DEF AckInv, AckRest, Idleness, Unused, Empty
    <3>3. Len(<<>>) = 0 /\ \A k \in 1 .. 0 : FALSE
      OBVIOUS
    <3>. QED  BY <2>1, <3>1, <3>2, <3>3 DEF Fed, Granted
  <2>. QED  BY <2>1, <2>2
<1>4. CASE BlockReconnects
  <2>1. connect_status = "Disconnected"
    BY <1>0, <1>4 DEF BlockReconnects, LostInv, PermitInv, PermitIsCurrent
  <2>2. Sessionless'
    BY <1>4, <2>1 DEF BlockReconnects, StartConnect, ConnectToken
  <2>. QED  BY <1>4, <2>2 DEF BlockReconnects, Settled
<1>5. ASSUME NEW present \in BOOLEAN, ConnackAccepted(present)
      PROVE  FedInv'
  <2>1. cur' = cur + 1 /\ cur' # 0 /\ present = FALSE
    BY <1>0, <1>5 DEF ConnackAccepted, Accept
  <2>. QED  BY <1>5, <2>1 DEF ConnackAccepted, Accept, ConnectToken, Settled
<1>. QED  BY <1>1, <1>2, <1>3, <1>4, <1>5

LEMMA FedNext ==
    ASSUME CleanSession, ~ByHand, AckInv, AckInv', RealInv, FedInv, [Next]_vars
    PROVE  FedInv'
<1>. USE DEF clientVars, taskVars, netVars, brokerVars, userVars
<1>0. LostInv /\ LostInv'
  BY DEF AckInv
<1>1. ASSUME NEW c \in Conns, Scheduled(Tasks(c))
      PROVE  FedInv'
  <2>1. /\ UNCHANGED <<cur, session, connect_token, pc, bpc>>
        /\ \A d \in Conns : supervisor'[d] = "run" => supervisor[d] = "run"
        /\ supervisor[c] = "run" /\ c = cur
    <3>1. c = cur /\ supervisor[c] = "run"
      BY <1>0, <1>1, LiveIsCur
         DEF Scheduled, Tasks, ReadHandler, MsgArm, OutgoingArm, FlushEnds, HandlePuback, HandlePubcomp,
             HandlePubrec, HandleSuback, HandleUnsuback, ReadBreak, WriteMsg, WriteMsgFails, WriterExits,
             WriteOutgoing, WriteOutgoingFails, OutgoingWritten, FlushFails, Supervise, Receive, Reading, Writing
    <3>2. \/ UNCHANGED supervisor
          \/ supervisor' = [supervisor EXCEPT ![c] = "done"]
      BY <1>1 DEF Scheduled, Tasks, ReadHandler, MsgArm, OutgoingArm, FlushEnds, HandlePuback, HandlePubcomp,
             HandlePubrec, HandleSuback, HandleUnsuback, ReadBreak, WriteMsg, WriteMsgFails, WriterExits,
             WriteOutgoing, WriteOutgoingFails, OutgoingWritten, FlushFails, Supervise
    <3>3. UNCHANGED <<cur, session, connect_token, pc, bpc>>
      BY <1>1 DEF Scheduled, Tasks, ReadHandler, MsgArm, OutgoingArm, FlushEnds, HandlePuback, HandlePubcomp,
             HandlePubrec, HandleSuback, HandleUnsuback, ReadBreak, WriteMsg, WriteMsgFails, WriterExits,
             WriteOutgoing, WriteOutgoingFails, OutgoingWritten, FlushFails, Supervise
    <3>. QED  BY <1>0, <3>1, <3>2, <3>3, LostInvTypes
  <2>2. cur # 0 /\ cur \in Conns
    BY <1>0, <2>1, ClientStateAssumption DEF Conns
  <2>3. pc = "spawned" /\ bpc # "connect" => topic_manager' = {}
    <3>. SUFFICES ASSUME pc = "spawned", bpc # "connect" PROVE topic_manager' = {}
      OBVIOUS
    <3>1. inbox[c] = <<>> /\ topic_manager = {}
      BY <2>1 DEF AckInv, AckRest, Idleness, Unused, Empty, FedInv, Sessionless
    <3>. QED  BY <1>1, <3>1 DEF Scheduled, Tasks, ReadHandler, MsgArm, OutgoingArm, FlushEnds, HandlePuback,
             HandlePubcomp, HandlePubrec, HandleSuback, HandleUnsuback, ReadBreak, WriteMsg, WriteMsgFails, WriterExits,
             WriteOutgoing, WriteOutgoingFails, OutgoingWritten, FlushFails, Supervise, Receive, handlerVars
  <2>4. Sessionless'
    BY <2>1, <2>2, <2>3 DEF FedInv, Sessionless
  <2>5. ASSUME Settled' PROVE Fed' /\ Granted'
    <3>1. Settled /\ supervisor'[c] = "run"
      BY <2>1, <2>5 DEF Settled
    <3>. QED  BY <1>1, <3>1, FedTasks DEF FedInv
  <2>. QED  BY <2>4, <2>5 DEF FedInv
<1>2. CASE Environment /\ UNCHANGED userVars
  <2>1. /\ UNCHANGED <<cur, supervisor, topic_manager, connect_token, pc, bpc>>
        /\ session' = session
    BY <1>2 DEF Environment, Serve, LinkBreaks, SessionLost, handlerVars, FedInv, Sessionless
  <2>2. Sessionless' /\ (Settled' => Settled)
    BY <2>1 DEF FedInv, Sessionless, Settled
  <2>. QED  BY <1>2, <2>2, FedEnvironment DEF FedInv, Sessionless
<1>3. CASE UNCHANGED vars
  BY <1>3 DEF vars, FedInv, Sessionless, Settled, Fed, Granted, Unsubscribing, idVars, handlerVars
<1>. QED  BY <1>0, <1>1, <1>2, <1>3, NextCases, FedConnect, FedQuietStep

(***************************************************************************)
(* block() leaves no handler behind that the server sends nothing to, when *)
(* sessions are clean and it alone reconnects.                             *)
(***************************************************************************)
THEOREM HandlersFed ==
    ASSUME CleanSession, ~ByHand
    PROVE  Spec => []HandlersAreFed
<1>1. Init => RealInv /\ FedInv
  <2>1. Init => FedInv
    BY DEF Init, StateInit, BrokerInit, FedInv, Sessionless, Settled
  <2>. QED  BY <2>1, RealInit
<1>2. FedInv => HandlersAreFed
  BY DEF FedInv, Settled, Fed, Unsubscribing, HandlersAreFed
<1>. QED  BY <1>1, <1>2, AckInit, AckNext, RealNext, FedNext, PTL DEF Spec
==============================================================================
