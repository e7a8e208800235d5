------------------------------- MODULE Inbound -------------------------------
(***************************************************************************)
(* Messages from the server: handle_publish and handle_pubrel of           *)
(* src/net.rs, the cache `pending_packets` of src/state.rs, which outlives *)
(* connections and sessions, and the handler of one filter, attached when  *)
(* the SUBACK is read and detached when the UNSUBACK is.                   *)
(*                                                                         *)
(* One connection at a time has tasks (OneLiveConnection of MqttClient),   *)
(* so the variables are those of the current one.  The server conforms to  *)
(* MQTT 3.1.1: it sends in order, retransmits in a resumed session and may *)
(* publish before it sends the SUBACK.                                     *)
(***************************************************************************)
EXTENDS SequencesExt

CONSTANTS
    Ids,                    \* packet identifiers of the server
    Qos0, Qos1, Qos2,       \* the messages of each quality of service
    NoMsg,
    MSG_CAP,                \* capacity of the msg channel: 8 in the code
    MaxConns                \* bound: connections

Messages == Qos0 \cup Qos1 \cup Qos2

ASSUME InboundAssumption ==
    /\ Ids \subseteq Nat \ {0} /\ IsFiniteSet(Ids)
    /\ NoMsg \notin Messages
    /\ Qos0 \cap Qos1 = {} /\ Qos0 \cap Qos2 = {} /\ Qos1 \cap Qos2 = {}
    /\ MSG_CAP \in Nat \ {0} /\ MaxConns \in Nat

VARIABLES
    pending,        \* pending_packets: the QoS 2 message kept for each identifier
    handler,        \* topic_manager has the handler of the filter
    resp,           \* the response read_from_server has still to send, or none
    msg,            \* the msg channel
    handed,         \* how often each message was given to the handler
    link,           \* "up", "down": broken, its tasks still run, "none"
    conns,          \* connections so far
    inbox,          \* on its way to the client
    out,            \* the server's side of each message's exchange
    pid,            \* and its identifier
    subscribed,     \* the server has the subscription
    owes,           \* and has still to send the SUBACK
    excused         \* ghost: messages the client is not to blame for losing

clientVars == <<pending, handler, resp, msg, handed>>
serverVars == <<out, pid, subscribed, owes>>
vars == <<clientVars, link, conns, inbox, serverVars, excused>>

Packet(type, id, m) == [type |-> type, id |-> id, m |-> m]
Signal(type, id) == Packet(type, id, NoMsg)
NoPacket == Signal("None", 0)
Packets(types) == [type : types, id : Ids \cup {0}, m : Messages \cup {NoMsg}]

Init ==
    /\ pending = [id \in Ids |-> NoMsg]
    /\ handler = FALSE
    /\ resp = NoPacket
    /\ msg = <<>>
    /\ handed = [m \in Messages |-> 0]
    /\ link = "none"
    /\ conns = 0
    /\ inbox = <<>>
    /\ out = [m \in Messages |-> "new"]
    /\ pid = [m \in Messages |-> 0]
    /\ subscribed = FALSE
    /\ owes = FALSE
    /\ excused = {}

------------------------------------------------------------------------------
(* read_from_server *)

\* match_topic and one task per handler: the order in which they run is free.
Hand(m) == handed' = IF handler THEN [handed EXCEPT ![m] = @ + 1] ELSE handed

\* The read loop takes the next packet, unless it waits for room in msg.
Receive(type) ==
    /\ link # "none"
    /\ resp = NoPacket
    /\ inbox # <<>>
    /\ Head(inbox).type = type
    /\ inbox' = Tail(inbox)

HandlePublish0 ==
    LET p == Head(inbox)
    IN  /\ Receive("Publish")
        /\ p.m \in Qos0
        /\ Hand(p.m)
        /\ UNCHANGED <<pending, handler, resp, msg, link, conns, serverVars, excused>>

HandlePublish1 ==
    LET p == Head(inbox)
    IN  /\ Receive("Publish")
        /\ p.m \in Qos1
        /\ Hand(p.m)
        /\ resp' = Signal("Puback", p.id)
        /\ UNCHANGED <<pending, handler, msg, link, conns, serverVars, excused>>

\* Mutant: an identifier that is in the cache already keeps its message.
HandlePublish2_KeepsFirst ==
    LET p == Head(inbox)
    IN  /\ Receive("Publish")
        /\ p.m \in Qos2
        /\ pending' = IF pending[p.id] = NoMsg THEN [pending EXCEPT ![p.id] = p.m] ELSE pending
        /\ resp' = Signal("Pubrec", p.id)
        /\ UNCHANGED <<handler, msg, handed, link, conns, serverVars, excused>>

HandlePublish2 ==
    LET p == Head(inbox)
    IN  /\ Receive("Publish")
        /\ p.m \in Qos2
        /\ pending' = [pending EXCEPT ![p.id] = p.m]
        /\ resp' = Signal("Pubrec", p.id)
        /\ UNCHANGED <<handler, msg, handed, link, conns, serverVars, excused>>

\* Mutant: the message stays in the cache.
HandlePubrel_Keeps ==
    LET id == Head(inbox).id
    IN  /\ Receive("Pubrel")
        /\ IF pending[id] = NoMsg THEN UNCHANGED handed ELSE Hand(pending[id])
        /\ resp' = Signal("Pubcomp", id)
        /\ UNCHANGED <<pending, handler, msg, link, conns, serverVars, excused>>

\* Mutant: an identifier that is not in the cache is not answered.
HandlePubrel_Silent ==
    LET id == Head(inbox).id
    IN  /\ Receive("Pubrel")
        /\ IF pending[id] = NoMsg
           THEN UNCHANGED <<handed, resp>>
           ELSE Hand(pending[id]) /\ resp' = Signal("Pubcomp", id)
        /\ pending' = [pending EXCEPT ![id] = NoMsg]
        /\ UNCHANGED <<handler, msg, link, conns, serverVars, excused>>

\* The topic is matched now, not when the message came.
HandlePubrel ==
    LET id == Head(inbox).id
    IN  /\ Receive("Pubrel")
        /\ IF pending[id] = NoMsg THEN UNCHANGED handed ELSE Hand(pending[id])
        /\ pending' = [pending EXCEPT ![id] = NoMsg]
        /\ resp' = Signal("Pubcomp", id)
        /\ UNCHANGED <<handler, msg, link, conns, serverVars, excused>>

\* handle_suback and handle_unsuback: MqttClient has the rest of them.
HandleSuback ==
    /\ Receive("Suback")
    /\ handler' = TRUE
    /\ UNCHANGED <<pending, resp, msg, handed, link, conns, serverVars, excused>>

HandleUnsuback ==
    /\ Receive("Unsuback")
    /\ handler' = FALSE
    /\ UNCHANGED <<pending, resp, msg, handed, link, conns, serverVars, excused>>

\* Mutant: the response is pushed whether there is room or not.
SendResponse_NoWait ==
    /\ link # "none"
    /\ resp # NoPacket
    /\ msg' = Append(msg, resp)
    /\ resp' = NoPacket
    /\ UNCHANGED <<pending, handler, handed, link, conns, inbox, serverVars, excused>>

\* msg_tx.send(resp).await
SendResponse ==
    /\ link # "none"
    /\ resp # NoPacket
    /\ Len(msg) < MSG_CAP
    /\ msg' = Append(msg, resp)
    /\ resp' = NoPacket
    /\ UNCHANGED <<pending, handler, handed, link, conns, inbox, serverVars, excused>>

ReadLoop ==
    \/ HandlePublish0 \/ HandlePublish1 \/ HandlePublish2 \/ HandlePubrel
    \/ HandleSuback \/ HandleUnsuback
    \/ SendResponse

\* The entry's 60 seconds are over.
Expire(id) ==
    /\ pending[id] # NoMsg
    /\ excused' = excused \cup {pending[id]}
    /\ pending' = [pending EXCEPT ![id] = NoMsg]
    /\ UNCHANGED <<handler, resp, msg, handed, link, conns, inbox, serverVars>>

------------------------------------------------------------------------------
(* The server and the network. *)

InFlight == {m \in Messages : out[m] \in {"sent", "released"}}

\* The handler is there, or its SUBACK will be read first.
Expected == handler \/ \E k \in 1 .. Len(inbox) : inbox[k].type = "Suback"

Publish(m, id) ==
    /\ link = "up" /\ subscribed
    /\ out[m] = "new"
    /\ IF m \in Qos0
       THEN id = 0 /\ out' = [out EXCEPT ![m] = "done"]
       ELSE id \in Ids \ {pid[n] : n \in InFlight} /\ out' = [out EXCEPT ![m] = "sent"]
    /\ pid' = [pid EXCEPT ![m] = id]
    /\ inbox' = Append(inbox, Packet("Publish", id, m))
    /\ excused' = IF Expected \/ m \in Qos0 THEN excused ELSE excused \cup {m}
    /\ UNCHANGED <<clientVars, link, conns, subscribed, owes>>

\* The write loop writes the next response.  On a link that is up the server
\* reads it: PUBACK, PUBREC, to which it answers PUBREL, or PUBCOMP.
WriteMsg ==
    /\ link # "none"
    /\ msg # <<>>
    /\ msg' = Tail(msg)
    /\ LET p == Head(msg)
           served == {m \in InFlight : pid[m] = p.id}
       IN  IF link = "down" THEN UNCHANGED <<out, pid, inbox>>
           ELSE /\ out' = [m \in Messages |->
                              IF m \notin served THEN out[m]
                              ELSE IF p.type = "Pubrec" THEN "released" ELSE "done"]
                /\ pid' = [m \in Messages |->
                              IF m \in served /\ p.type # "Pubrec" THEN 0 ELSE pid[m]]
                /\ inbox' = IF p.type = "Pubrec" THEN Append(inbox, Signal("Pubrel", p.id))
                            ELSE inbox
    /\ UNCHANGED <<pending, handler, resp, handed, link, conns, subscribed, owes, excused>>

NoSubAck == ~owes /\ \A k \in 1 .. Len(inbox) : inbox[k].type \notin {"Suback", "Unsuback"}

Subscribe ==
    /\ link = "up" /\ NoSubAck
    /\ ~handler
    /\ subscribed' = TRUE
    /\ owes' = TRUE
    /\ UNCHANGED <<clientVars, link, conns, inbox, out, pid, excused>>

SubscribeAnswered ==
    /\ link = "up" /\ owes
    /\ owes' = FALSE
    /\ inbox' = Append(inbox, Signal("Suback", 0))
    /\ UNCHANGED <<clientVars, link, conns, out, pid, subscribed, excused>>

\* What is in flight then may be matched after the handler has gone.
Unsubscribe ==
    /\ link = "up" /\ NoSubAck
    /\ handler
    /\ subscribed' = FALSE
    /\ inbox' = Append(inbox, Signal("Unsuback", 0))
    /\ excused' = excused \cup InFlight
    /\ UNCHANGED <<clientVars, link, conns, out, pid, owes>>

LinkBreaks ==
    /\ link = "up"
    /\ link' = "down"
    /\ owes' = FALSE
    /\ UNCHANGED <<clientVars, conns, inbox, out, pid, subscribed, excused>>

\* The tasks of the connection end, whatever they had still to do.
TasksEnd ==
    /\ link = "down"
    /\ link' = "none"
    /\ inbox' = <<>>
    /\ resp' = NoPacket
    /\ msg' = <<>>
    /\ UNCHANGED <<pending, handler, handed, conns, serverVars, excused>>

\* Mutant: the new State starts with a cache of its own.
Resumed_NewCache ==
    /\ link = "none" /\ conns < MaxConns /\ conns > 0
    /\ link' = "up"
    /\ conns' = conns + 1
    /\ pending' = [id \in Ids |-> NoMsg]
    /\ \E order \in SetToSeqs(InFlight) :
          inbox' = [k \in 1 .. Len(order) |->
                       IF out[order[k]] = "sent" THEN Packet("Publish", pid[order[k]], order[k])
                       ELSE Signal("Pubrel", pid[order[k]])]
    /\ excused' = IF handler THEN excused ELSE excused \cup InFlight
    /\ UNCHANGED <<handler, resp, msg, handed, serverVars>>

\* A new State on the same session, with the cache and the trie of the old one.
Resumed ==
    /\ link = "none" /\ conns < MaxConns /\ conns > 0
    /\ link' = "up"
    /\ conns' = conns + 1
    /\ \E order \in SetToSeqs(InFlight) :
          inbox' = [k \in 1 .. Len(order) |->
                       IF out[order[k]] = "sent" THEN Packet("Publish", pid[order[k]], order[k])
                       ELSE Signal("Pubrel", pid[order[k]])]
    /\ excused' = IF handler THEN excused ELSE excused \cup InFlight
    /\ UNCHANGED <<clientVars, serverVars>>

\* A new State on a new session: block() clears the trie, nobody the cache.
Connected ==
    /\ link = "none" /\ conns < MaxConns
    /\ link' = "up"
    /\ conns' = conns + 1
    /\ handler' = FALSE
    /\ out' = [m \in Messages |-> IF m \in InFlight THEN "lost" ELSE out[m]]
    /\ pid' = [m \in Messages |-> 0]
    /\ subscribed' = FALSE
    /\ UNCHANGED <<pending, resp, msg, handed, inbox, owes, excused>>

\* Nothing to publish, no connection left, nobody who reconnects.
Rest == UNCHANGED vars

Next ==
    \/ ReadLoop
    \/ WriteMsg
    \/ \E id \in Ids : Expire(id)
    \/ \E m \in Messages, id \in Ids \cup {0} : Publish(m, id)
    \/ Subscribe
    \/ SubscribeAnswered
    \/ Unsubscribe
    \/ LinkBreaks
    \/ TasksEnd
    \/ Resumed
    \/ Connected
    \/ Rest

Spec == Init /\ [][Next]_vars

\* tokio runs the read loop, and an up link brings what was sent on it.  A
\* write may hang on an up link: nothing is assumed of it, nor of the server,
\* the user or the cache.
FairSpec == Spec /\ WF_vars(ReadLoop)

------------------------------------------------------------------------------
AckTypes == {"Puback", "Pubrec", "Pubcomp"}

TypeOK ==
    /\ pending \in [Ids -> Qos2 \cup {NoMsg}]
    /\ handler \in BOOLEAN
    /\ resp \in Packets(AckTypes) \cup {NoPacket}
    /\ msg \in Seq(Packets(AckTypes)) /\ Len(msg) <= MSG_CAP
    /\ handed \in [Messages -> Nat]
    /\ link \in {"none", "up", "down"}
    /\ conns \in 0 .. MaxConns
    /\ inbox \in Seq(Packets({"Publish", "Pubrel", "Suback", "Unsuback"}))
    /\ out \in [Messages -> {"new", "sent", "released", "done", "lost"}]
    /\ pid \in [Messages -> Ids \cup {0}]
    /\ subscribed \in BOOLEAN
    /\ owes \in BOOLEAN
    /\ excused \in SUBSET Messages

(***************************************************************************)
(* A QoS 2 message reaches the handler once at most, although PUBLISH and  *)
(* PUBREL are sent again after every loss of the connection.               *)
(***************************************************************************)
AtMostOnce == \A m \in Qos2 : handed[m] <= 1

(***************************************************************************)
(* What the client has acknowledged for good it has given to the handler.  *)
(* Excused are messages published before the SUBACK came, those in flight  *)
(* when the filter was unsubscribed, and those that expired in the cache.  *)
(***************************************************************************)
AcknowledgedWasHanded ==
    \A m \in (Qos1 \cup Qos2) \ excused : out[m] = "done" => handed[m] >= 1

(***************************************************************************)
(* A message kept from a session that is over never reaches the handler,   *)
(* although the cache keeps it and its identifier is used again.           *)
(***************************************************************************)
NoStaleDelivery == [][\A m \in Messages : out[m] = "lost" => handed'[m] = handed[m]]_vars

\* A hypothesis on the other side, which no line of the client guarantees: the
\* transport takes the responses, and the server reads and answers them.
PeerTakesResponses == WF_vars(WriteMsg)

(***************************************************************************)
(* With a peer that takes the responses no exchange stops half-way on a    *)
(* link that stays up, in a new session or a resumed one: each PUBLISH and *)
(* each PUBREL is answered, whatever the cache still holds.                *)
(***************************************************************************)
ExchangeEnds ==
    PeerTakesResponses =>
        \A m \in Qos1 \cup Qos2 :
            (m \in InFlight /\ link = "up") ~> (m \notin InFlight \/ link # "up")
==============================================================================
