--------------------------- MODULE MqttClientProofs ---------------------------
(***************************************************************************)
(* Proofs about the client for any number of tokens, identifiers, filters  *)
(* and connections, any channel capacities, both runtime flavours and all  *)
(* options.  TypeOK is inductive once the arguments of a call in progress  *)
(* are known to be there (CallOK).  The invariants that need nothing about *)
(* the packets in flight follow: one live connection, the remembered       *)
(* handlers, the permit of block(), the supervised status, and no lost     *)
(* request.                                                                *)
(***************************************************************************)
EXTENDS MqttClient, PacketIdsTheorems

USE DEF PKID_MIN

(* The operations on tokens keep their type. *)
LEMMA TokenOps ==
    ASSUME NEW tk \in TokenStates
    PROVE  /\ FlowComplete(tk) \in TokenStates
           /\ \A e \in Errors : SetError(tk, e) \in TokenStates
           /\ \A i \in 0 .. PKID_MAX : [tk EXCEPT !.id = i] \in TokenStates
           /\ \A x \in SUBSET Topics : [tk EXCEPT !.subs = x] \in TokenStates
BY DEF TokenStates, FlowComplete, SetError

LEMMA NewTokenType ==
    ASSUME NEW kind \in RequestKinds, NEW topics \in SUBSET Topics
    PROVE  NewToken(kind, topics) \in TokenStates
BY PacketIdsAssumption DEF TokenStates, NewToken, Errors

LEMMA CompleteAndFreeType ==
    ASSUME StateTypeOK, NEW c \in Conns, NEW id, CompleteAndFree(c, id)
    PROVE  token' \in [Tokens -> TokenStates] /\ index' \in [States -> [Ids -> Tokens \cup {NoToken}]]
<1>1. CASE index[c][id] = NoToken
  BY <1>1 DEF CompleteAndFree, StateTypeOK
<1>2. CASE index[c][id] # NoToken
  <2>1. /\ token' = [token EXCEPT ![index[c][id]] = FlowComplete(@)]
        /\ index' = [index EXCEPT ![c][id] = NoToken]
    BY <1>2 DEF CompleteAndFree
  <2>2. token' \in [Tokens -> TokenStates]
    BY <2>1, TokenOps DEF StateTypeOK
  <2>3. index' \in [States -> [Ids -> Tokens \cup {NoToken}]]
    BY <2>1 DEF StateTypeOK, States, Conns
  <2>. QED  BY <2>2, <2>3
<1>. QED  BY <1>1, <1>2

LEMMA CleanUpType ==
    ASSUME StateTypeOK, NEW c \in States, CleanUp(c)
    PROVE  token' \in [Tokens -> TokenStates] /\ index' \in [States -> [Ids -> Tokens \cup {NoToken}]]
<1>1. "ConnectionLost" \in Errors
  BY DEF Errors
<1>2. token' \in [Tokens -> TokenStates]
  BY <1>1, TokenOps DEF CleanUp, StateTypeOK
<1>3. EmptyIndex \in [Ids -> Tokens \cup {NoToken}]
  BY DEF EmptyIndex
<1>. QED  BY <1>2, <1>3 DEF CleanUp, StateTypeOK

------------------------------------------------------------------------------
(* The initial state. *)
LEMMA InitType == Init => TypeOK
<1>. SUFFICES ASSUME Init PROVE TypeOK
  OBVIOUS
<1>. USE PacketIdsAssumption, ClientStateAssumption, MqttClientAssumption
<1>1. 0 \in States /\ PKID_MIN \in Ids /\ 0 \in 0 .. CNT_MAX
  BY DEF States, Ids
<1>2. token \in [Tokens -> TokenStates]
  <2>1. NewToken("Publish0", {}) \in TokenStates
    BY NewTokenType DEF RequestKinds
  <2>2. [NewToken("Publish0", {}) EXCEPT !.complete = TRUE] \in TokenStates
    BY <2>1, TokenOps DEF FlowComplete
  <2>. QED  BY <2>2 DEF Init, StateInit
<1>3. index \in [States -> [Ids -> Tokens \cup {NoToken}]]
  <2>1. EmptyIndex \in [Ids -> Tokens \cup {NoToken}]
    BY DEF EmptyIndex
  <2>. QED  BY <2>1 DEF Init, StateInit
<1>4. last_issued_id \in [States -> Ids] /\ subscriptions \in [States -> SUBSET Topics]
  BY <1>1 DEF Init, StateInit
<1>5. outgoing \in [Conns -> Seq(Tokens)] /\ flushing \in [Conns -> Tokens \cup {NoToken}]
  BY DEF Init, StateInit
<1>6. msg \in [Conns -> Seq(Packets({"Pubrel"}))] /\ inbox \in [Conns -> Seq(Packets(AckTypes))]
  BY DEF Init, StateInit
<1>7. wire \in [Conns -> SUBSET Packets(PacketTypes)]
  BY DEF Init, StateInit
<1>8. StateTypeOK
  BY <1>1, <1>2, <1>3, <1>4, <1>5, <1>6, <1>7 DEF Init, StateInit, StateTypeOK
<1>9. BrokerTypeOK
  BY DEF Init, BrokerInit, BrokerTypeOK
<1>. QED  BY <1>1, <1>8, <1>9 DEF Init, TypeOK

------------------------------------------------------------------------------
(* The packets of the connection keep their type. *)
LEMMA PacketOps ==
    ASSUME StateTypeOK, NEW types
    PROVE  /\ \A t \in Tokens : RequestPacket(t) \in Packets(RequestKinds)
           /\ \A type : \A p \in Packets(types), x \in SUBSET Topics :
                 [p EXCEPT !.type = type, !.granted = x] \in Packets({type})
           /\ \A type : \A p \in Packets(types) : [p EXCEPT !.type = type] \in Packets({type})
BY DEF StateTypeOK, RequestPacket, Packet, Packets, TokenStates

(* The queues keep their type. *)
LEMMA QueueOps ==
    ASSUME NEW S, NEW D, NEW q \in [D -> Seq(S)], NEW d \in D
    PROVE  /\ [q EXCEPT ![d] = <<>>] \in [D -> Seq(S)]
           /\ q[d] # <<>> => Head(q[d]) \in S /\ [q EXCEPT ![d] = Tail(@)] \in [D -> Seq(S)]
           /\ \A x \in S : [q EXCEPT ![d] = Append(@, x)] \in [D -> Seq(S)]
OBVIOUS

(* What the reader is handed. *)
LEMMA ReceiveType ==
    ASSUME StateTypeOK, NEW c \in Conns, NEW type, Receive(c, type)
    PROVE  /\ Head(inbox[c]) \in Packets(AckTypes)
           /\ Head(inbox[c]).type = type
           /\ Consume(c) => inbox' \in [Conns -> Seq(Packets(AckTypes))]
<1>1. inbox \in [Conns -> Seq(Packets(AckTypes))] /\ inbox[c] # <<>>
  BY DEF StateTypeOK, Receive
<1>2. /\ Head(inbox[c]) \in Packets(AckTypes)
      /\ [inbox EXCEPT ![c] = Tail(@)] \in [Conns -> Seq(Packets(AckTypes))]
  BY <1>1, QueueOps
<1>. QED  BY <1>2 DEF Receive, Consume

LEMMA TransmitType ==
    ASSUME StateTypeOK, NEW c \in Conns, NEW p \in Packets(RequestKinds \cup {"Pubrel"}), Transmit(c, p)
    PROVE  wire' \in [Conns -> SUBSET Packets(PacketTypes)]
<1>1. p.type # "Publish0" => p \in Packets(PacketTypes)
  BY DEF Packets, PacketTypes, RequestKinds, AckedKinds
<1>. QED  BY <1>1 DEF Transmit, StateTypeOK

LEMMA WriterDoneType ==
    ASSUME StateTypeOK, NEW c \in Conns, WriterDone(c)
    PROVE  /\ write_task' \in [Conns -> {"none", "run", "done"}]
           /\ outgoing' \in [Conns -> Seq(Tokens)]
           /\ msg' \in [Conns -> Seq(Packets({"Pubrel"}))]
           /\ flushing' \in [Conns -> Tokens \cup {NoToken}]
BY QueueOps DEF StateTypeOK, WriterDone

LEMMA ReaderDoneType ==
    ASSUME StateTypeOK, NEW c \in Conns, ReaderDone(c)
    PROVE  /\ read_task' \in [Conns -> {"none", "run", "done"}]
           /\ inbox' \in [Conns -> Seq(Packets(AckTypes))]
BY QueueOps DEF StateTypeOK, ReaderDone

(* What StateTypeOK says of the packets, as single facts. *)
LEMMA QueueTypes ==
    ASSUME StateTypeOK, NEW c \in Conns
    PROVE  /\ outgoing \in [Conns -> Seq(Tokens)] /\ msg \in [Conns -> Seq(Packets({"Pubrel"}))]
           /\ outgoing[c] # <<>> => Head(outgoing[c]) \in Tokens
           /\ msg[c] # <<>> => Head(msg[c]) \in Packets({"Pubrel"})
BY QueueOps DEF StateTypeOK

------------------------------------------------------------------------------
(* The tasks of a connection. *)
LEMMA ReadHandlerType ==
    ASSUME StateTypeOK, NEW c \in Conns, ReadHandler(c) \/ ReadBreak(c)
    PROVE  StateTypeOK'
<1>. USE DEF clientVars, idVars, handlerVars, channelVars, taskVars, netVars
<1>1. CASE HandlePuback(c)
  BY <1>1, ReceiveType, CompleteAndFreeType DEF HandlePuback, StateTypeOK
<1>2. CASE HandlePubcomp(c)
  BY <1>2, ReceiveType, CompleteAndFreeType DEF HandlePubcomp, StateTypeOK
<1>3. CASE HandlePubrec(c)
  <2>1. Head(inbox[c]) \in Packets(AckTypes)
    BY <1>3, ReceiveType DEF HandlePubrec
  <2>2. [Head(inbox[c]) EXCEPT !.type = "Pubrel"] \in Packets({"Pubrel"})
    BY <2>1, PacketOps
  <2>3. msg' \in [Conns -> Seq(Packets({"Pubrel"}))]
    <3>1. msg \in [Conns -> Seq(Packets({"Pubrel"}))]
      BY QueueTypes
    <3>2. [msg EXCEPT ![c] = Append(@, [Head(inbox[c]) EXCEPT !.type = "Pubrel"])]
             \in [Conns -> Seq(Packets({"Pubrel"}))]
      BY <2>2, <3>1, QueueOps
    <3>. QED  BY <1>3, <3>1, <3>2 DEF HandlePubrec
  <2>4. /\ read_task' \in [Conns -> {"none", "run", "done"}]
        /\ inbox' \in [Conns -> Seq(Packets(AckTypes))]
    BY <1>3, ReaderDoneType, ReceiveType DEF HandlePubrec, StateTypeOK
  <2>. QED  BY <1>3, <2>3, <2>4 DEF HandlePubrec, StateTypeOK
<1>4. CASE HandleSuback(c)
  <2>1. inbox' \in [Conns -> Seq(Packets(AckTypes))] /\ Head(inbox[c]).granted \in SUBSET Topics
    BY <1>4, ReceiveType DEF HandleSuback, Packets
  <2>2. /\ token' \in [Tokens -> TokenStates]
        /\ index' \in [States -> [Ids -> Tokens \cup {NoToken}]]
    BY <1>4, CompleteAndFreeType DEF HandleSuback, StateTypeOK
  <2>3. topic_manager' \in SUBSET Topics /\ subscriptions' \in [States -> SUBSET Topics]
    <3>1. topic_manager \in SUBSET Topics /\ subscriptions \in [States -> SUBSET Topics]
      BY DEF StateTypeOK
    <3>2. PICK g \in SUBSET Topics :
             \/ UNCHANGED handlerVars
             \/ /\ topic_manager' = topic_manager \cup g
                /\ subscriptions' = [subscriptions EXCEPT ![c] = @ \cup g]
      BY <1>4, <2>1 DEF HandleSuback
    <3>. QED  BY <3>1, <3>2
  <2>. QED  BY <1>4, <2>1, <2>2, <2>3 DEF HandleSuback, StateTypeOK
<1>5. CASE HandleUnsuback(c)
  <2>1. inbox' \in [Conns -> Seq(Packets(AckTypes))]
    BY <1>5, ReceiveType DEF HandleUnsuback
  <2>2. /\ token' \in [Tokens -> TokenStates]
        /\ index' \in [States -> [Ids -> Tokens \cup {NoToken}]]
    BY <1>5, CompleteAndFreeType DEF HandleUnsuback, StateTypeOK
  <2>3. topic_manager' \in SUBSET Topics
    BY <1>5 DEF HandleUnsuback, StateTypeOK
  <2>. QED  BY <1>5, <2>1, <2>2, <2>3 DEF HandleUnsuback, StateTypeOK
<1>6. CASE ReadBreak(c)
  BY <1>6, ReaderDoneType DEF ReadBreak, StateTypeOK
<1>. QED  BY <1>1, <1>2, <1>3, <1>4, <1>5, <1>6 DEF ReadHandler

LEMMA WriterType ==
    ASSUME StateTypeOK, NEW c \in Conns, MsgArm(c) \/ OutgoingArm(c) \/ FlushEnds(c)
    PROVE  StateTypeOK'
<1>. USE DEF clientVars, idVars, handlerVars, channelVars, taskVars, netVars
<1>0. \A p \in Packets({"Pubrel"}) \cup Packets(RequestKinds) : p \in Packets(RequestKinds \cup {"Pubrel"})
  BY DEF Packets
<1>1. CASE WriteMsg(c)
  <2>1. msg' \in [Conns -> Seq(Packets({"Pubrel"}))]
    BY <1>1, QueueTypes, QueueOps DEF WriteMsg
  <2>2. wire' \in [Conns -> SUBSET Packets(PacketTypes)]
    BY <1>0, <1>1, QueueTypes, TransmitType DEF WriteMsg
  <2>. QED  BY <1>1, <2>1, <2>2 DEF WriteMsg, StateTypeOK
<1>2. CASE WriteMsgFails(c)
  <2>1. wire' \in [Conns -> SUBSET Packets(PacketTypes)]
    BY <1>0, <1>2, QueueTypes, TransmitType DEF WriteMsgFails, StateTypeOK
  <2>. QED  BY <1>2, <2>1, WriterDoneType DEF WriteMsgFails, StateTypeOK
<1>3. CASE WriterExits(c)
  BY <1>3, WriterDoneType DEF WriterExits, StateTypeOK
<1>4. ASSUME outgoing[c] # <<>>
      PROVE  Head(outgoing[c]) \in Tokens /\ RequestPacket(Head(outgoing[c])) \in Packets(RequestKinds \cup {"Pubrel"})
  BY <1>0, <1>4, QueueTypes, PacketOps
<1>5. CASE WriteOutgoing(c)
  <2>1. outgoing' \in [Conns -> Seq(Tokens)] /\ Head(outgoing[c]) \in Tokens
    BY <1>5, QueueTypes, QueueOps DEF WriteOutgoing
  <2>2. wire' \in [Conns -> SUBSET Packets(PacketTypes)]
    BY <1>4, <1>5, TransmitType DEF WriteOutgoing
  <2>. QED  BY <1>5, <2>1, <2>2 DEF WriteOutgoing, StateTypeOK
<1>6. CASE WriteOutgoingFails(c) \/ FlushFails(c)
  <2>1. token' \in [Tokens -> TokenStates]
    <3>1. \A tk \in TokenStates : SetError(tk, "IOError") \in TokenStates
      BY TokenOps DEF Errors
    <3>2. PICK t : token' = [token EXCEPT ![t] = SetError(@, "IOError")]
      BY <1>6 DEF WriteOutgoingFails, FlushFails
    <3>. QED  BY <3>1, <3>2 DEF StateTypeOK
  <2>. QED  BY <1>6, <2>1, WriterDoneType DEF WriteOutgoingFails, FlushFails, StateTypeOK
<1>7. CASE OutgoingWritten(c)
  <2>1. token' \in [Tokens -> TokenStates]
    BY <1>7, TokenOps DEF OutgoingWritten, StateTypeOK
  <2>. QED  BY <1>7, <2>1 DEF OutgoingWritten, StateTypeOK
<1>. QED  BY <1>1, <1>2, <1>3, <1>5, <1>6, <1>7 DEF MsgArm, OutgoingArm, FlushEnds

LEMMA TasksType ==
    ASSUME StateTypeOK, NEW c \in Conns, Tasks(c)
    PROVE  StateTypeOK'
<1>1. CASE Supervise(c)
  <2>1. c \in States
    BY DEF Conns, States
  <2>. QED  BY <1>1, <2>1, CleanUpType
            DEF Supervise, StateTypeOK, handlerVars, channelVars, netVars
<1>. QED  BY <1>1, ReadHandlerType, WriterType DEF Tasks

------------------------------------------------------------------------------
(* The server and the network. *)
LEMMA AnswerType ==
    ASSUME StateTypeOK, NEW c \in Conns, NEW p \in Packets(PacketTypes),
           NEW type \in AckTypes, NEW granted \in SUBSET Topics, Answer(c, p, type, granted)
    PROVE  /\ wire' \in [Conns -> SUBSET Packets(PacketTypes)]
           /\ inbox' \in [Conns -> Seq(Packets(AckTypes))]
           /\ link' = link
<1>1. [p EXCEPT !.type = type, !.granted = granted] \in Packets(AckTypes)
  BY DEF Packets
<1>2. [inbox EXCEPT ![c] = Append(@, [p EXCEPT !.type = type, !.granted = granted])]
         \in [Conns -> Seq(Packets(AckTypes))]
  BY <1>1, QueueOps DEF StateTypeOK
<1>. QED  BY <1>2 DEF Answer, StateTypeOK

LEMMA ServeType ==
    ASSUME StateTypeOK, BrokerTypeOK, NEW c \in Conns, NEW p \in wire[c], Serve(c, p)
    PROVE  /\ BrokerTypeOK'
           /\ wire' \in [Conns -> SUBSET Packets(PacketTypes)]
           /\ inbox' \in [Conns -> Seq(Packets(AckTypes))]
           /\ link' \in [Conns -> {"none", "up", "down"}]
<1>1. p \in Packets(PacketTypes)
  BY DEF StateTypeOK
<1>2. p.tok \in Tokens /\ p.id \in 0 .. PKID_MAX /\ token[p.tok].topics \in SUBSET Topics
  BY <1>1 DEF Packets, StateTypeOK, TokenStates
<1>3. CASE p.type = "Publish1" /\ Answer(c, p, "Puback", {})
           /\ handled' = handled \cup {p.tok} /\ UNCHANGED <<session, subs, received>>
  BY <1>1, <1>2, <1>3, AnswerType DEF AckTypes, BrokerTypeOK, StateTypeOK
<1>4. CASE /\ p.type = "Publish2" /\ Answer(c, p, "Pubrec", {})
           /\ handled' = IF p.id \in received THEN handled ELSE handled \cup {p.tok}
           /\ received' = received \cup {p.id} /\ UNCHANGED <<session, subs>>
  <2>1. /\ wire' \in [Conns -> SUBSET Packets(PacketTypes)]
        /\ inbox' \in [Conns -> Seq(Packets(AckTypes))]
        /\ link' = link
    BY <1>1, <1>4, AnswerType DEF AckTypes
  <2>2. BrokerTypeOK'
    BY <1>2, <1>4 DEF BrokerTypeOK
  <2>. QED  BY <2>1, <2>2 DEF StateTypeOK
<1>5. CASE p.type = "Pubrel" /\ Answer(c, p, "Pubcomp", {})
           /\ received' = received \ {p.id} /\ UNCHANGED <<session, subs, handled>>
  <2>1. /\ wire' \in [Conns -> SUBSET Packets(PacketTypes)]
        /\ inbox' \in [Conns -> Seq(Packets(AckTypes))]
        /\ link' = link
    BY <1>1, <1>5, AnswerType DEF AckTypes
  <2>2. BrokerTypeOK'
    BY <1>2, <1>5 DEF BrokerTypeOK
  <2>. QED  BY <2>1, <2>2 DEF StateTypeOK
<1>6. CASE /\ p.type = "Subscribe"
           /\ \E granted \in SUBSET token[p.tok].topics :
                 Answer(c, p, "Suback", granted) /\ subs' = subs \cup granted
           /\ handled' = handled \cup {p.tok} /\ UNCHANGED <<session, received>>
  <2>1. PICK granted \in SUBSET Topics : Answer(c, p, "Suback", granted) /\ subs' = subs \cup granted
    BY <1>2, <1>6
  <2>2. "Suback" \in AckTypes
    BY DEF AckTypes
  <2>3. /\ wire' \in [Conns -> SUBSET Packets(PacketTypes)]
        /\ inbox' \in [Conns -> Seq(Packets(AckTypes))]
        /\ link' = link
    BY <1>1, <2>1, <2>2, AnswerType
  <2>. QED  BY <1>2, <1>6, <2>1, <2>3 DEF BrokerTypeOK, StateTypeOK
<1>7. CASE p.type = "Unsubscribe" /\ Answer(c, p, "Unsuback", {})
           /\ subs' = subs \ token[p.tok].topics
           /\ handled' = handled \cup {p.tok} /\ UNCHANGED <<session, received>>
  BY <1>1, <1>2, <1>7, AnswerType DEF AckTypes, BrokerTypeOK, StateTypeOK
<1>8. CASE p.type = "Disconnect" /\ link' = [link EXCEPT ![c] = "down"]
           /\ wire' = [wire EXCEPT ![c] = {}]
           /\ UNCHANGED <<session, subs, received, handled, inbox>>
  BY <1>8 DEF BrokerTypeOK, StateTypeOK
<1>. QED  BY <1>3, <1>4, <1>5, <1>6, <1>7, <1>8 DEF Serve

LEMMA EnvironmentType ==
    ASSUME StateTypeOK, BrokerTypeOK, Environment
    PROVE  StateTypeOK' /\ BrokerTypeOK'
<1>. USE DEF clientVars, idVars, handlerVars, channelVars, taskVars, netVars, brokerVars
<1>1. ASSUME NEW c \in Conns, NEW p \in wire[c], Serve(c, p)
      PROVE  StateTypeOK' /\ BrokerTypeOK'
  <2>1. UNCHANGED <<clientVars, token, idVars, handlerVars, channelVars, taskVars>>
    BY DEF Environment
  <2>. QED  BY <1>1, <2>1, ServeType DEF StateTypeOK
<1>2. ASSUME NEW c \in Conns, LinkBreaks(c)
      PROVE  StateTypeOK' /\ BrokerTypeOK'
  <2>1. <<>> \in Seq(Packets(AckTypes))
    OBVIOUS
  <2>2. inbox' \in [Conns -> Seq(Packets(AckTypes))]
    BY <1>2, <2>1 DEF LinkBreaks, StateTypeOK
  <2>. QED  BY <1>2, <2>2 DEF Environment, LinkBreaks, StateTypeOK, BrokerTypeOK
<1>3. CASE SessionLost
  BY <1>3 DEF Environment, SessionLost, StateTypeOK, BrokerTypeOK
<1>. QED  BY <1>1, <1>2, <1>3 DEF Environment

LEMMA AcceptType ==
    ASSUME StateTypeOK, BrokerTypeOK, NEW c, NEW present \in BOOLEAN, Accept(c, present)
    PROVE  /\ BrokerTypeOK'
           /\ link' \in [Conns -> {"none", "up", "down"}]
           /\ wire' \in [Conns -> SUBSET Packets(PacketTypes)]
BY BrokerAssumption DEF Accept, StateTypeOK, BrokerTypeOK

------------------------------------------------------------------------------
(* The user's task.  A call with steps of its own has its arguments. *)
CallOK == pc \in {"get_id", "send", "blocked", "add_subs"} => call \in Calls

TypeInv == TypeOK /\ CallOK

ConnectTokens == [complete : BOOLEAN, failed : BOOLEAN, session_present : BOOLEAN]

LEMMA StartConnectType ==
    ASSUME TypeInv, StartConnect
    PROVE  /\ connect_status' \in {"Connected", "Disconnected", "Connecting"}
           /\ connect_token' \in ConnectTokens
           /\ pc' \in {pc, "transport"}
<1>1. connect_token' \in ConnectTokens
  <2>1. connect_token' \in {ConnectToken(FALSE, FALSE, FALSE), ConnectToken(TRUE, TRUE, FALSE)}
    BY DEF StartConnect
  <2>2. \A a, b, d \in BOOLEAN : ConnectToken(a, b, d) \in ConnectTokens
    BY Zenon DEF ConnectToken, ConnectTokens
  <2>. QED  BY <2>1, <2>2
<1>2. /\ connect_status' \in {"Connected", "Disconnected", "Connecting"}
      /\ pc' \in {pc, "transport"}
  BY DEF StartConnect, TypeInv, TypeOK, StateTypeOK
<1>. QED  BY <1>1, <1>2

LEMMA ConnectType ==
    ASSUME TypeInv, Connect \/ TransportConnected \/ ConnectFails \/ ConnectReturns
    PROVE  TypeInv'
<1>. USE DEF clientVars, idVars, handlerVars, channelVars, taskVars, netVars, brokerVars, blockVars
<1>1. CASE Connect
  BY <1>1, StartConnectType
     DEF Connect, Idle, TypeInv, TypeOK, CallOK, Calls, ConnectTokens, StateTypeOK, BrokerTypeOK
<1>2. CASE TransportConnected
  BY <1>2 DEF TransportConnected, TypeInv, TypeOK, CallOK, Calls, StateTypeOK, BrokerTypeOK
<1>3. CASE ConnectFails
  <2>1. /\ BrokerTypeOK'
        /\ link' \in [Conns -> {"none", "up", "down"}]
        /\ wire' \in [Conns -> SUBSET Packets(PacketTypes)]
    <3>1. StateTypeOK /\ BrokerTypeOK
      BY DEF TypeInv, TypeOK
    <3>2. CASE UNCHANGED <<brokerVars, link, wire>>
      BY <3>1, <3>2 DEF StateTypeOK, BrokerTypeOK
    <3>3. CASE \E present \in BOOLEAN : Accept(0, present)
      BY <3>1, <3>3, AcceptType
    <3>. QED  BY <1>3, <3>2, <3>3 DEF ConnectFails
  <2>. QED  BY <1>3, <2>1 DEF ConnectFails, ConnectToken, TypeInv, TypeOK, CallOK, Calls, StateTypeOK
<1>4. CASE ConnectReturns
  BY <1>4 DEF ConnectReturns, TypeInv, TypeOK, CallOK, Calls, StateTypeOK, BrokerTypeOK
<1>. QED  BY <1>1, <1>2, <1>3, <1>4

LEMMA ConnackAcceptedType ==
    ASSUME TypeInv, NEW present \in BOOLEAN, cur < MaxConns, ConnackAccepted(present)
    PROVE  TypeInv'
<1>. USE DEF clientVars, idVars, handlerVars, channelVars, taskVars, netVars, brokerVars, blockVars
<1>. DEFINE c == cur + 1
<1>1. c \in States /\ c \in Conns
  BY ClientStateAssumption DEF TypeInv, TypeOK, StateTypeOK, States, Conns
<1>2. /\ BrokerTypeOK'
      /\ link' \in [Conns -> {"none", "up", "down"}]
      /\ wire' \in [Conns -> SUBSET Packets(PacketTypes)]
  BY AcceptType DEF ConnackAccepted, TypeInv, TypeOK
<1>3. index' \in [States -> [Ids -> Tokens \cup {NoToken}]]
  <2>1. EmptyIndex \in [Ids -> Tokens \cup {NoToken}]
    BY DEF EmptyIndex
  <2>. QED  BY <2>1 DEF ConnackAccepted, Inherit, TypeInv, TypeOK, StateTypeOK
<1>4. last_issued_id' \in [States -> Ids] /\ subscriptions' \in [States -> SUBSET Topics]
  BY PacketIdsAssumption DEF ConnackAccepted, Inherit, TypeInv, TypeOK, StateTypeOK, Ids
<1>5. /\ read_task' \in [Conns -> {"none", "run", "done"}]
      /\ write_task' \in [Conns -> {"none", "run", "done"}]
      /\ supervisor' \in [Conns -> {"none", "run", "done"}]
  BY DEF ConnackAccepted, TypeInv, TypeOK, StateTypeOK
<1>6. StateTypeOK'
  BY <1>1, <1>2, <1>3, <1>4, <1>5 DEF ConnackAccepted, TypeInv, TypeOK, StateTypeOK
<1>. QED  BY <1>2, <1>6 DEF ConnackAccepted, ConnectToken, TypeInv, TypeOK, CallOK, Calls

LEMMA StartRequestType ==
    ASSUME TypeInv, pc = "idle", NEW t \in Tokens, NEW kind \in RequestKinds, NEW topics \in SUBSET Topics,
           NEW valid \in BOOLEAN, StartRequest(t, kind, topics, valid)
    PROVE  /\ token' \in [Tokens -> TokenStates]
           /\ handled' \in SUBSET Tokens
           /\ manual_disconnect' \in BOOLEAN
           /\ \/ pc' = "idle" /\ call' = NoCall
              \/ pc' \in {"get_id", "send"} /\ call' \in Calls
<1>1. NewToken(kind, topics) \in TokenStates
  BY NewTokenType
<1>2. \A e \in Errors : SetError(NewToken(kind, topics), e) \in TokenStates
  BY <1>1, TokenOps
<1>3. token' \in [Tokens -> TokenStates]
  BY <1>1, <1>2 DEF StartRequest, TypeInv, TypeOK, StateTypeOK, Errors
<1>4. handled' \in SUBSET Tokens /\ manual_disconnect' \in BOOLEAN
  BY DEF StartRequest, TypeInv, TypeOK, StateTypeOK, BrokerTypeOK
<1>5. \/ pc' = "idle" /\ call' = NoCall
      \/ pc' \in {"get_id", "send"} /\ call' \in Calls
  BY DEF StartRequest, Calls
<1>. QED  BY <1>3, <1>4, <1>5

LEMMA RequestType ==
    ASSUME TypeInv, Request
    PROVE  TypeInv'
<1>1. pc = "idle"
  BY DEF Request, Idle
<1>2. PICK t \in Tokens, kind \in RequestKinds, topics \in SUBSET Topics, valid \in BOOLEAN :
         StartRequest(t, kind, topics, valid)
  BY MqttClientAssumption DEF Request, TopicsOf
<1>3. UNCHANGED <<connect_status, cur, idVars, handlerVars, channelVars, taskVars, netVars,
                  session, subs, received, connect_token, blockVars>>
  BY DEF Request
<1>4. /\ token' \in [Tokens -> TokenStates]
      /\ handled' \in SUBSET Tokens
      /\ manual_disconnect' \in BOOLEAN
      /\ \/ pc' = "idle" /\ call' = NoCall
         \/ pc' \in {"get_id", "send"} /\ call' \in Calls
  BY <1>1, <1>2, StartRequestType
<1>. QED  BY <1>3, <1>4
          DEF TypeInv, TypeOK, CallOK, StateTypeOK, BrokerTypeOK,
              idVars, handlerVars, channelVars, taskVars, netVars, blockVars

LEMMA GetIdType ==
    ASSUME TypeInv, GetId
    PROVE  TypeInv'
<1>. DEFINE id == NextVacant(index[cur], last_issued_id[cur])
<1>0. UNCHANGED <<clientVars, handlerVars, channelVars, taskVars, netVars, brokerVars,
                  connect_token, blockVars>>
  BY DEF GetId
<1>1. cur \in States /\ last_issued_id[cur] \in Ids
  BY DEF TypeInv, TypeOK, StateTypeOK
<1>2. id \in 0 .. PKID_MAX /\ (id # 0 => id \in Ids)
  BY <1>1, NextVacantType
<1>3. call \in Calls /\ call.tok \in Tokens /\ token[call.tok] \in TokenStates
  BY DEF GetId, TypeInv, TypeOK, CallOK, StateTypeOK, Calls
<1>4. [token[call.tok] EXCEPT !.id = id] \in TokenStates
  BY <1>2, <1>3, TokenOps
<1>5. SetError([token[call.tok] EXCEPT !.id = id], "InvalidTopic") \in TokenStates
  BY <1>4, TokenOps DEF Errors
<1>6. SetError(token[call.tok], "PacketIdError") \in TokenStates
  BY <1>3, TokenOps DEF Errors
<1>7. token' \in [Tokens -> TokenStates]
  <2>1. \/ token' = [token EXCEPT ![call.tok] = SetError(token[call.tok], "PacketIdError")]
        \/ token' = [token EXCEPT ![call.tok] = [token[call.tok] EXCEPT !.id = id]]
        \/ token' = [token EXCEPT ![call.tok] = SetError([token[call.tok] EXCEPT !.id = id], "InvalidTopic")]
    BY <1>3 DEF GetId, TypeInv, TypeOK, StateTypeOK
  <2>. HIDE DEF id
  <2>. QED  BY <1>3, <1>4, <1>5, <1>6, <2>1 DEF TypeInv, TypeOK, StateTypeOK
<1>8. /\ index' \in [States -> [Ids -> Tokens \cup {NoToken}]]
      /\ last_issued_id' \in [States -> Ids]
  <2>1. \/ UNCHANGED idVars
        \/ /\ id # 0
           /\ index' = [index EXCEPT ![cur][id] = call.tok]
           /\ last_issued_id' = [last_issued_id EXCEPT ![cur] = id]
    BY DEF GetId
  <2>. HIDE DEF id
  <2>2. /\ index \in [States -> [Ids -> Tokens \cup {NoToken}]]
        /\ last_issued_id \in [States -> Ids]
    BY DEF TypeInv, TypeOK, StateTypeOK
  <2>3. CASE UNCHANGED idVars
    BY <2>2, <2>3 DEF idVars
  <2>4. CASE /\ id # 0
             /\ index' = [index EXCEPT ![cur][id] = call.tok]
             /\ last_issued_id' = [last_issued_id EXCEPT ![cur] = id]
    BY <1>1, <1>2, <1>3, <2>2, <2>4
  <2>. QED  BY <2>1, <2>3, <2>4
<1>9. pc' \in {"idle", "send"} /\ call' \in Calls \cup {NoCall} /\ (pc' = "send" => call' = call)
  BY <1>3 DEF GetId, Return
<1>. QED  BY <1>0, <1>3, <1>7, <1>8, <1>9
          DEF TypeInv, TypeOK, CallOK, StateTypeOK, BrokerTypeOK,
              clientVars, handlerVars, channelVars, taskVars, netVars, brokerVars, blockVars

LEMMA SendType ==
    ASSUME TypeInv, Send \/ SendBlocks \/ SendToClosed \/ AddSubscriptions
    PROVE  TypeInv'
<1>. USE DEF clientVars, idVars, handlerVars, channelVars, taskVars, netVars, brokerVars, blockVars
<1>1. call \in Calls /\ call.tok \in Tokens /\ token[call.tok] \in TokenStates /\ call.topics \in SUBSET Topics
  BY DEF Send, SendBlocks, SendToClosed, AddSubscriptions, TypeInv, TypeOK, CallOK, StateTypeOK, Calls
<1>2. Sent => /\ pc' \in {"idle", "add_subs"}
              /\ call' \in {call, NoCall}
              /\ pc' = "add_subs" => call' = call
  BY DEF Sent, Return
<1>3. Return => pc' = "idle" /\ call' \in {call, NoCall}
  BY DEF Return
<1>4. CASE Send
  <2>1. cur \in Conns /\ outgoing \in [Conns -> Seq(Tokens)]
    BY <1>4 DEF Send, Open, TypeInv, TypeOK, StateTypeOK, States, Conns
  <2>2. outgoing' \in [Conns -> Seq(Tokens)]
    BY <1>1, <1>4, <2>1, QueueOps DEF Send
  <2>. QED  BY <1>1, <1>2, <1>4, <2>2 DEF Send, TypeInv, TypeOK, CallOK, StateTypeOK, BrokerTypeOK
<1>5. CASE SendBlocks
  BY <1>1, <1>5 DEF SendBlocks, TypeInv, TypeOK, CallOK, StateTypeOK, BrokerTypeOK
<1>6. CASE SendToClosed
  <2>1. token' \in [Tokens -> TokenStates]
    BY <1>6, TokenOps DEF SendToClosed, TypeInv, TypeOK, StateTypeOK, Errors
  <2>. QED  BY <1>1, <1>2, <1>6, <2>1 DEF SendToClosed, TypeInv, TypeOK, CallOK, StateTypeOK, BrokerTypeOK
<1>7. CASE AddSubscriptions
  <2>1. token' \in [Tokens -> TokenStates]
    BY <1>1, <1>7, TokenOps DEF AddSubscriptions, TypeInv, TypeOK, StateTypeOK
  <2>. QED  BY <1>1, <1>3, <1>7, <2>1 DEF AddSubscriptions, TypeInv, TypeOK, CallOK, StateTypeOK, BrokerTypeOK
<1>. QED  BY <1>4, <1>5, <1>6, <1>7

LEMMA BlockType ==
    ASSUME TypeInv,
           \/ Block \/ BlockGivesUp \/ BlockTick \/ BlockReconnects \/ BlockConnectFailed
           \/ BlockReconnected \/ BlockResubscribes \/ BlockResubscribedAll \/ Cancel
    PROVE  TypeInv'
<1>. USE DEF clientVars, idVars, handlerVars, channelVars, taskVars, netVars, brokerVars, blockVars
<1>1. CASE Block \/ BlockGivesUp \/ BlockTick \/ BlockConnectFailed \/ BlockResubscribedAll \/ Cancel
  <2>. USE DEF TypeInv, TypeOK, CallOK, StateTypeOK, BrokerTypeOK
  <2>1. CASE Block
    BY <2>1, MqttClientAssumption DEF Block
  <2>2. CASE BlockGivesUp
    BY <2>2 DEF BlockGivesUp
  <2>3. CASE BlockTick
    <3>1. notify' \in BOOLEAN /\ bpc' \in {bpc, "none"}
      BY <2>3 DEF BlockTick
    <3>. QED  BY <2>3, <3>1 DEF BlockTick
  <2>4. CASE BlockConnectFailed
    BY <2>4 DEF BlockConnectFailed
  <2>5. CASE BlockResubscribedAll
    BY <2>5 DEF BlockResubscribedAll, Resubscribed
  <2>6. CASE Cancel
    BY <2>6 DEF Cancel
  <2>. QED  BY <1>1, <2>1, <2>2, <2>3, <2>4, <2>5, <2>6
<1>2. CASE BlockReconnects
  <2>1. cnt' \in 0 .. CNT_MAX
    BY <1>2, MqttClientAssumption DEF BlockReconnects, TypeInv, TypeOK
  <2>2. /\ connect_status' \in {"Connected", "Disconnected", "Connecting"}
        /\ connect_token' \in ConnectTokens
        /\ pc' \in {pc, "transport"}
    BY <1>2, StartConnectType DEF BlockReconnects
  <2>. QED  BY <1>2, <2>1, <2>2
            DEF BlockReconnects, ConnectTokens, TypeInv, TypeOK, CallOK, StateTypeOK, BrokerTypeOK
<1>3. CASE BlockReconnected
  <2>1. token' \in [Tokens -> TokenStates] /\ index' \in [States -> [Ids -> Tokens \cup {NoToken}]]
    BY <1>3, CleanUpType DEF BlockReconnected, TypeInv, TypeOK, StateTypeOK
  <2>2. cnt' \in 0 .. CNT_MAX
    BY <1>3, MqttClientAssumption DEF BlockReconnected
  <2>3. todo' \in SUBSET Topics /\ topic_manager' \in SUBSET Topics
    BY <1>3 DEF BlockReconnected, TypeInv, TypeOK, StateTypeOK
  <2>. QED  BY <1>3, <2>1, <2>2, <2>3
            DEF BlockReconnected, TypeInv, TypeOK, CallOK, StateTypeOK, BrokerTypeOK
<1>4. CASE BlockResubscribes
  <2>1. pc = "idle"
    BY <1>4 DEF BlockResubscribes, Resubscribed
  <2>2. PICK t \in Tokens, x \in todo :
           todo' = todo \ {x} /\ StartRequest(t, "Subscribe", {x}, TRUE)
    BY <1>4 DEF BlockResubscribes
  <2>3. {x} \in SUBSET Topics /\ "Subscribe" \in RequestKinds
    BY DEF TypeInv, TypeOK, RequestKinds
  <2>4. /\ token' \in [Tokens -> TokenStates]
        /\ handled' \in SUBSET Tokens
        /\ manual_disconnect' \in BOOLEAN
        /\ \/ pc' = "idle" /\ call' = NoCall
           \/ pc' \in {"get_id", "send"} /\ call' \in Calls
    BY <2>1, <2>2, <2>3, StartRequestType
  <2>. QED  BY <1>4, <2>2, <2>4
            DEF BlockResubscribes, TypeInv, TypeOK, CallOK, StateTypeOK, BrokerTypeOK
<1>. QED  BY <1>1, <1>2, <1>3, <1>4

------------------------------------------------------------------------------
LEMMA StutterType ==
    ASSUME TypeInv, UNCHANGED vars
    PROVE  TypeInv'
BY DEF TypeInv, TypeOK, CallOK, Calls, StateTypeOK, BrokerTypeOK, vars,
       clientVars, idVars, handlerVars, channelVars, taskVars, netVars, brokerVars, userVars

LEMMA NextType ==
    ASSUME TypeInv, Next
    PROVE  TypeInv'
<1>1. CASE UserStep
  BY <1>1, ConnectType, GetIdType, SendType, BlockType DEF UserStep
<1>2. CASE UserChoice
  BY <1>2, ConnectType, ConnackAcceptedType, RequestType, BlockType DEF UserChoice
<1>3. ASSUME NEW c \in Conns, Scheduled(Tasks(c))
      PROVE  TypeInv'
  <2>1. StateTypeOK'
    BY <1>3, TasksType DEF Scheduled, TypeInv, TypeOK
  <2>2. UNCHANGED <<brokerVars, userVars>>
    BY <1>3 DEF Scheduled
  <2>. QED  BY <2>1, <2>2 DEF TypeInv, TypeOK, CallOK, Calls, BrokerTypeOK, brokerVars, userVars
<1>4. CASE Environment /\ UNCHANGED userVars
  <2>1. StateTypeOK' /\ BrokerTypeOK'
    BY <1>4, EnvironmentType DEF TypeInv, TypeOK
  <2>. QED  BY <1>4, <2>1 DEF TypeInv, TypeOK, CallOK, Calls, userVars
<1>5. CASE Rest
  BY <1>5, StutterType DEF Rest
<1>. QED  BY <1>1, <1>2, <1>3, <1>4, <1>5 DEF Next

(***************************************************************************)
(* Every variable keeps its type: in particular identifiers on the wire    *)
(* and in the tables are valid ones, and the retry counter of block()      *)
(* stays a CNT_MAX-bounded integer although it wraps.                      *)
(***************************************************************************)
THEOREM TypeCorrect == Spec => []TypeOK
<1>1. Init => TypeInv
  BY InitType DEF TypeInv, CallOK, Init
<1>2. TypeInv /\ [Next]_vars => TypeInv'
  BY NextType, StutterType
<1>3. TypeInv => TypeOK
  BY DEF TypeInv
<1>. QED  BY <1>1, <1>2, <1>3, PTL DEF Spec

------------------------------------------------------------------------------
(***************************************************************************)
(* One connection at a time.  The status is Connecting from the moment     *)
(* connect() leaves Disconnected until its CONNACK, so no supervisor runs  *)
(* that could set it.                                                      *)
(***************************************************************************)
LiveInv ==
    /\ TypeInv
    /\ OneLiveConnection
    /\ pc \in {"transport", "connack"} => connect_status = "Connecting"

\* What most of the client's own steps have in common.
Quiet ==
    /\ UNCHANGED <<taskVars, cur, connect_status>>
    /\ pc' = pc \/ pc' \notin {"transport", "connack"}

LEMMA LiveQuiet ==
    ASSUME LiveInv, TypeInv', Quiet
    PROVE  LiveInv'
BY DEF LiveInv, OneLiveConnection, Quiet, taskVars

LEMMA LiveConnect ==
    ASSUME LiveInv, TypeInv',
           \/ Connect \/ TransportConnected \/ ConnectFails \/ ConnectReturns \/ BlockReconnects
    PROVE  LiveInv'
<1>. USE DEF LiveInv, OneLiveConnection, taskVars
<1>1. CASE Connect
  BY <1>1 DEF Connect, StartConnect
<1>2. CASE TransportConnected
  BY <1>2 DEF TransportConnected, clientVars
<1>3. CASE ConnectFails
  BY <1>3 DEF ConnectFails
<1>4. CASE ConnectReturns
  BY <1>4 DEF ConnectReturns
<1>5. CASE BlockReconnects
  BY <1>5 DEF BlockReconnects, StartConnect
<1>. QED  BY <1>1, <1>2, <1>3, <1>4, <1>5

LEMMA LiveConnackAccepted ==
    ASSUME LiveInv, TypeInv', NEW present \in BOOLEAN, cur < MaxConns, ConnackAccepted(present)
    PROVE  LiveInv'
<1>1. /\ \A d \in Conns : supervisor[d] # "run" /\ read_task[d] # "run" /\ write_task[d] # "run"
      /\ connect_status = "Connecting"
  BY DEF LiveInv, OneLiveConnection, ConnackAccepted
<1>2. /\ cur' = cur + 1
      /\ read_task' = [read_task EXCEPT ![cur + 1] = "run"]
      /\ write_task' = [write_task EXCEPT ![cur + 1] = "run"]
      /\ supervisor' = [supervisor EXCEPT ![cur + 1] = "run"]
      /\ pc' = "spawned"
      /\ connect_status' = connect_status
  BY DEF ConnackAccepted
<1>3. cur + 1 \in Conns
  BY ClientStateAssumption DEF LiveInv, TypeInv, TypeOK, StateTypeOK, States, Conns
<1>4. /\ supervisor \in [Conns -> {"none", "run", "done"}]
      /\ read_task \in [Conns -> {"none", "run", "done"}]
      /\ write_task \in [Conns -> {"none", "run", "done"}]
  BY DEF LiveInv, TypeInv, TypeOK, StateTypeOK
<1>. QED  BY <1>1, <1>2, <1>3, <1>4 DEF LiveInv, OneLiveConnection

LEMMA LiveTasks ==
    ASSUME LiveInv, TypeInv', NEW c \in Conns, Scheduled(Tasks(c))
    PROVE  LiveInv'
<1>. USE DEF clientVars, taskVars, userVars
<1>0. /\ pc' = pc
      /\ supervisor \in [Conns -> {"none", "run", "done"}]
      /\ read_task \in [Conns -> {"none", "run", "done"}]
      /\ write_task \in [Conns -> {"none", "run", "done"}]
  BY DEF Scheduled, LiveInv, TypeInv, TypeOK, StateTypeOK
<1>1. CASE HandlePuback(c) \/ HandlePubcomp(c) \/ HandleSuback(c) \/ HandleUnsuback(c)
           \/ WriteMsg(c) \/ WriteOutgoing(c) \/ OutgoingWritten(c)
  BY <1>0, <1>1, LiveQuiet
     DEF HandlePuback, HandlePubcomp, HandleSuback, HandleUnsuback, WriteMsg, WriteOutgoing,
         OutgoingWritten, Quiet
<1>2. CASE HandlePubrec(c) \/ ReadBreak(c)
  <2>1. /\ UNCHANGED <<cur, connect_status, write_task, supervisor>>
        /\ \/ UNCHANGED read_task
           \/ read_task' = [read_task EXCEPT ![c] = "done"]
    BY <1>2 DEF HandlePubrec, ReadBreak, ReaderDone
  <2>. QED  BY <1>0, <2>1 DEF LiveInv, OneLiveConnection
<1>3. CASE WriteMsgFails(c) \/ WriteOutgoingFails(c) \/ FlushFails(c) \/ WriterExits(c)
  <2>1. /\ UNCHANGED <<cur, connect_status, read_task, supervisor>>
        /\ write_task' = [write_task EXCEPT ![c] = "done"]
    BY <1>3 DEF WriteMsgFails, WriteOutgoingFails, FlushFails, WriterExits, WriterDone
  <2>. QED  BY <1>0, <2>1 DEF LiveInv, OneLiveConnection
<1>4. CASE Supervise(c)
  BY <1>0, <1>4 DEF Supervise, LiveInv, OneLiveConnection
<1>. QED  BY <1>1, <1>2, <1>3, <1>4 DEF Scheduled, Tasks, ReadHandler, MsgArm, OutgoingArm, FlushEnds

\* The steps of the user's task that leave the connections and the status alone.
QuietStep ==
    \/ GetId \/ Send \/ SendBlocks \/ SendToClosed \/ AddSubscriptions
    \/ BlockGivesUp \/ BlockTick \/ BlockConnectFailed \/ BlockReconnected
    \/ BlockResubscribes \/ BlockResubscribedAll
    \/ Request \/ Block \/ Cancel

LEMMA QuietSteps == QuietStep => Quiet
<1>. USE DEF Quiet, clientVars
<1>1. Return => pc' = "idle"
  BY DEF Return
<1>2. Sent => pc' \in {"idle", "add_subs"}
  BY <1>1 DEF Sent
<1>3. \A t, kind, topics, valid : StartRequest(t, kind, topics, valid) => pc' \in {pc, "get_id", "send"}
  BY DEF StartRequest
<1>4. GetId => Quiet
  BY <1>1 DEF GetId
<1>5. Send \/ SendToClosed \/ SendBlocks \/ AddSubscriptions => Quiet
  BY <1>1, <1>2 DEF Send, SendToClosed, SendBlocks, AddSubscriptions
<1>6. BlockGivesUp \/ BlockTick \/ BlockConnectFailed \/ BlockReconnected \/ BlockResubscribedAll => Quiet
  BY DEF BlockGivesUp, BlockTick, BlockConnectFailed, BlockReconnected, BlockResubscribedAll
<1>7. BlockResubscribes \/ Request => Quiet
  BY <1>3 DEF BlockResubscribes, Request
<1>8. Block \/ Cancel => Quiet
  BY DEF Block, Cancel
<1>. QED  BY <1>4, <1>5, <1>6, <1>7, <1>8 DEF QuietStep

\* What can happen, by the part each lemma deals with.
LEMMA NextCases ==
    ASSUME [Next]_vars
    PROVE  \/ Connect \/ TransportConnected \/ ConnectFails \/ ConnectReturns \/ BlockReconnects
           \/ \E present \in BOOLEAN : cur < MaxConns /\ ConnackAccepted(present)
           \/ QuietStep
           \/ \E c \in Conns : Scheduled(Tasks(c))
           \/ Environment /\ UNCHANGED userVars
           \/ UNCHANGED vars
BY DEF Next, UserStep, UserChoice, QuietStep, Rest

LEMMA LiveNext ==
    ASSUME LiveInv, [Next]_vars
    PROVE  LiveInv'
<1>0. TypeInv'
  BY NextType, StutterType DEF LiveInv
<1>1. CASE Environment /\ UNCHANGED userVars
  BY <1>0, <1>1, LiveQuiet DEF Environment, Quiet, userVars, clientVars
<1>2. CASE UNCHANGED vars
  BY <1>0, <1>2, LiveQuiet DEF Quiet, vars, userVars, clientVars
<1>3. CASE QuietStep
  BY <1>0, <1>3, LiveQuiet, QuietSteps
<1>. QED  BY <1>0, <1>1, <1>2, <1>3, NextCases, LiveConnect, LiveConnackAccepted, LiveTasks

LEMMA LiveInit == Init => LiveInv
<1>. SUFFICES ASSUME Init PROVE LiveInv
  OBVIOUS
<1>1. TypeInv
  BY InitType DEF TypeInv, CallOK, Init
<1>2. \A c \in Conns : read_task[c] = "none" /\ write_task[c] = "none" /\ supervisor[c] = "none"
  BY DEF Init, StateInit
<1>. QED  BY <1>1, <1>2 DEF LiveInv, OneLiveConnection, Init

(***************************************************************************)
(* At most one connection has tasks, that of `self.state`, and none while  *)
(* connect() negotiates another one or the status is Disconnected.         *)
(***************************************************************************)
THEOREM OneLive == Spec => []OneLiveConnection
<1>1. LiveInv => OneLiveConnection
  BY DEF LiveInv
<1>. QED  BY <1>1, LiveInit, LiveNext, PTL DEF Spec

------------------------------------------------------------------------------
(***************************************************************************)
(* The handlers.  A SUBACK is read on the connection of `self.state`,      *)
(* which is why the filter goes into the map that is read later.           *)
(***************************************************************************)
RememberInv == LiveInv /\ HandlersRemembered

LEMMA RememberTasks ==
    ASSUME RememberInv, LiveInv', NEW c \in Conns, Scheduled(Tasks(c))
    PROVE  HandlersRemembered'
<1>. USE DEF RememberInv, HandlersRemembered, clientVars, handlerVars
<1>1. CASE HandleSuback(c)
  <2>1. c = cur
    BY <1>1 DEF HandleSuback, Receive, Reading, LiveInv, OneLiveConnection
  <2>2. subscriptions \in [States -> SUBSET Topics] /\ cur \in States
    BY DEF LiveInv, TypeInv, TypeOK, StateTypeOK
  <2>3. cur' = cur
    BY <1>1 DEF HandleSuback
  <2>4. PICK g : \/ UNCHANGED handlerVars
                 \/ /\ topic_manager' = topic_manager \cup g
                    /\ subscriptions' = [subscriptions EXCEPT ![cur] = @ \cup g]
    BY <1>1, <2>1 DEF HandleSuback
  <2>. QED  BY <2>2, <2>3, <2>4
<1>2. CASE HandleUnsuback(c)
  BY <1>2 DEF HandleUnsuback
<1>3. CASE ~HandleSuback(c) /\ ~HandleUnsuback(c)
  BY <1>3 DEF Scheduled, Tasks, ReadHandler, MsgArm, OutgoingArm, FlushEnds, HandlePuback, HandlePubcomp,
              HandlePubrec, ReadBreak, WriteMsg, WriteMsgFails, WriterExits, WriteOutgoing,
              WriteOutgoingFails, OutgoingWritten, FlushFails, Supervise
<1>. QED  BY <1>1, <1>2, <1>3

LEMMA RememberNext ==
    ASSUME RememberInv, [Next]_vars
    PROVE  RememberInv'
<1>. USE DEF RememberInv, HandlersRemembered, clientVars, handlerVars
<1>0. LiveInv'
  BY LiveNext
<1>. SUFFICES HandlersRemembered'
  BY <1>0
<1>1. CASE Connect \/ TransportConnected \/ ConnectFails \/ ConnectReturns \/ BlockReconnects
  BY <1>1 DEF Connect, TransportConnected, ConnectFails, ConnectReturns, BlockReconnects
<1>2. ASSUME NEW present \in BOOLEAN, cur < MaxConns, ConnackAccepted(present)
      PROVE  HandlersRemembered'
  <2>1. cur \in States /\ cur + 1 \in States
    BY <1>2, ClientStateAssumption DEF LiveInv, TypeInv, TypeOK, StateTypeOK, States
  <2>2. /\ cur' = cur + 1
        /\ subscriptions' = Inherit(subscriptions, {})
        /\ topic_manager' = topic_manager
    BY <1>2 DEF ConnackAccepted
  <2>. QED  BY <2>1, <2>2 DEF Inherit
<1>3. CASE QuietStep
  <2>1. CASE BlockReconnected
    BY <2>1 DEF BlockReconnected
  <2>2. CASE ~BlockReconnected
    BY <1>3, <2>2
       DEF QuietStep, GetId, Send, SendBlocks, SendToClosed, AddSubscriptions, BlockGivesUp, BlockTick,
           BlockConnectFailed, BlockResubscribes, BlockResubscribedAll, Request, Block, Cancel
  <2>. QED  BY <2>1, <2>2
<1>4. CASE Environment /\ UNCHANGED userVars
  BY <1>4 DEF Environment
<1>5. CASE UNCHANGED vars
  BY <1>5 DEF vars
<1>. QED  BY <1>0, <1>1, <1>2, <1>3, <1>4, <1>5, NextCases, RememberTasks

(***************************************************************************)
(* Whatever the order of subscriptions, losses and reconnections, a filter *)
(* with a handler is one the next reconnection would subscribe again.      *)
(***************************************************************************)
THEOREM Remembered == Spec => []HandlersRemembered
<1>1. Init => RememberInv
  BY LiveInit DEF RememberInv, HandlersRemembered, Init, StateInit
<1>2. RememberInv => HandlersRemembered
  BY DEF RememberInv
<1>. QED  BY <1>1, <1>2, RememberNext, PTL DEF Spec

------------------------------------------------------------------------------
(***************************************************************************)
(* The permit of block().  It is given with the retries not exhausted and  *)
(* auto_reconnect set, so the select! that follows can only use it.        *)
(***************************************************************************)
PermitInv ==
    /\ PermitIsCurrent
    /\ bpc = "select" => pc = "idle"
    /\ notify => ~Exhausted /\ AutoReconnect

LEMMA PermitNext ==
    ASSUME PermitInv, [Next]_vars
    PROVE  PermitInv'
<1>. USE DEF PermitInv, PermitIsCurrent, Exhausted, clientVars, userVars, blockVars
<1>1. CASE Connect \/ TransportConnected \/ ConnectFails \/ ConnectReturns
  <2>1. CASE Connect
    BY <2>1 DEF Connect, Idle
  <2>2. CASE TransportConnected
    BY <2>2 DEF TransportConnected
  <2>3. CASE ConnectFails
    BY <2>3 DEF ConnectFails
  <2>4. CASE ConnectReturns
    BY <2>4 DEF ConnectReturns
  <2>. QED  BY <1>1, <2>1, <2>2, <2>3, <2>4
<1>2. CASE BlockReconnects
  BY <1>2 DEF BlockReconnects
<1>3. ASSUME NEW present \in BOOLEAN, ConnackAccepted(present)
      PROVE  PermitInv'
  BY <1>3 DEF ConnackAccepted
<1>4. CASE QuietStep
  <2>1. CASE GetId \/ Send \/ SendBlocks \/ SendToClosed \/ AddSubscriptions
    BY <2>1 DEF GetId, Send, SendBlocks, SendToClosed, AddSubscriptions
  <2>2. CASE BlockGivesUp \/ BlockTick \/ BlockConnectFailed
    BY <2>2 DEF BlockGivesUp, BlockTick, BlockConnectFailed
  <2>3. CASE BlockReconnected \/ BlockResubscribedAll
    BY <2>3 DEF BlockReconnected, BlockResubscribedAll, Resubscribed
  <2>4. CASE BlockResubscribes
    BY <2>4 DEF BlockResubscribes
  <2>5. CASE Request
    BY <2>5 DEF Request, Idle
  <2>6. CASE Block
    BY <2>6 DEF Block, Idle
  <2>7. CASE Cancel
    BY <2>7 DEF Cancel, AtAwait
  <2>. QED  BY <1>4, <2>1, <2>2, <2>3, <2>4, <2>5, <2>6, <2>7 DEF QuietStep
<1>5. ASSUME NEW c \in Conns, Scheduled(Tasks(c))
      PROVE  PermitInv'
  <2>1. UNCHANGED userVars
    BY <1>5 DEF Scheduled
  <2>2. connect_status' \in {connect_status, "Disconnected"} /\ manual_disconnect' = manual_disconnect
    BY <1>5 DEF Scheduled, Tasks, ReadHandler, MsgArm, OutgoingArm, FlushEnds, HandlePuback, HandlePubcomp,
              HandlePubrec, HandleSuback, HandleUnsuback, ReadBreak, WriteMsg, WriteMsgFails,
              WriterExits, WriteOutgoing, WriteOutgoingFails, OutgoingWritten, FlushFails, Supervise
  <2>. QED  BY <2>1, <2>2
<1>6. CASE Environment /\ UNCHANGED userVars
  BY <1>6 DEF Environment
<1>7. CASE UNCHANGED vars
  BY <1>7 DEF vars
<1>. QED  BY <1>1, <1>2, <1>3, <1>4, <1>5, <1>6, <1>7, NextCases

(***************************************************************************)
(* A permit left in `self.notify` never reconnects a client that is        *)
(* connected already or that disconnect() was called on.                   *)
(***************************************************************************)
THEOREM PermitCurrent == Spec => []PermitIsCurrent
<1>1. Init => PermitInv
  BY DEF Init, PermitInv, PermitIsCurrent
<1>2. PermitInv => PermitIsCurrent
  BY DEF PermitInv
<1>. QED  BY <1>1, <1>2, PermitNext, PTL DEF Spec

------------------------------------------------------------------------------
(***************************************************************************)
(* Between the spawn of the tasks and the new status nothing else runs,    *)
(* unless the runtime has other threads: only there can the supervisor     *)
(* have ended when the status becomes Connected.  Every other step leaves  *)
(* the status alone, resets it, or leaves the supervisor alone.            *)
(***************************************************************************)
SupervisedInv ==
    /\ LiveInv
    /\ pc = "spawned" => /\ cur # 0
                         /\ supervisor[cur] = "run" \/ (MultiThread /\ supervisor[cur] = "done")

\* The only step that may leave a stale status.
StaleOnlyAfterSpawn ==
    StaleStatus' => \/ StaleStatus
                    \/ MultiThread /\ pc = "spawned" /\ supervisor[cur] = "done"

LEMMA SupervisedNext ==
    ASSUME SupervisedInv, [Next]_vars
    PROVE  SupervisedInv' /\ StaleOnlyAfterSpawn
<1>. USE DEF SupervisedInv, StaleOnlyAfterSpawn, StaleStatus, clientVars, taskVars, userVars
<1>0. LiveInv'
  BY LiveNext
<1>. DEFINE Goal == /\ StaleOnlyAfterSpawn
                    /\ pc' = "spawned" =>
                          /\ cur' # 0
                          /\ supervisor'[cur'] = "run" \/ (MultiThread /\ supervisor'[cur'] = "done")
<1>. SUFFICES Goal
  BY <1>0
<1>1. CASE Connect \/ TransportConnected \/ ConnectFails \/ ConnectReturns
  <2>1. CASE Connect
    BY <2>1 DEF Connect, Idle, StartConnect
  <2>2. CASE TransportConnected
    BY <2>2 DEF TransportConnected
  <2>3. CASE ConnectFails
    BY <2>3 DEF ConnectFails
  <2>4. CASE ConnectReturns
    BY <2>4 DEF ConnectReturns
  <2>. QED  BY <1>1, <2>1, <2>2, <2>3, <2>4
<1>2. CASE BlockReconnects
  BY <1>2 DEF BlockReconnects, StartConnect
<1>3. ASSUME NEW present \in BOOLEAN, cur < MaxConns, ConnackAccepted(present)
      PROVE  Goal
  <2>1. connect_status' = "Connecting"
    BY <1>3 DEF ConnackAccepted, LiveInv
  <2>2. cur + 1 \in Conns /\ supervisor \in [Conns -> {"none", "run", "done"}]
    BY <1>3, ClientStateAssumption DEF LiveInv, TypeInv, TypeOK, StateTypeOK, States, Conns
  <2>3. cur' = cur + 1 /\ supervisor' = [supervisor EXCEPT ![cur + 1] = "run"]
    BY <1>3 DEF ConnackAccepted
  <2>. QED  BY <2>1, <2>2, <2>3 DEF Conns
<1>4. CASE QuietStep
  <2>1. UNCHANGED <<taskVars, cur, connect_status>>
    BY <1>4, QuietSteps DEF Quiet
  <2>2. pc' = "spawned" => pc = "spawned"
    <3>1. Return => pc' = "idle"
      BY DEF Return
    <3>2. Sent => pc' \in {"idle", "add_subs"}
      BY <3>1 DEF Sent
    <3>3. \A t, kind, topics, valid : StartRequest(t, kind, topics, valid) => pc' \in {pc, "get_id", "send"}
      BY DEF StartRequest
    <3>4. CASE GetId \/ Send \/ SendBlocks \/ SendToClosed \/ AddSubscriptions
      BY <3>1, <3>2, <3>4 DEF GetId, Send, SendBlocks, SendToClosed, AddSubscriptions
    <3>5. CASE BlockResubscribes \/ Request
      BY <3>3, <3>5 DEF BlockResubscribes, Request
    <3>6. CASE BlockGivesUp \/ BlockTick \/ BlockConnectFailed \/ BlockReconnected
               \/ BlockResubscribedAll \/ Block \/ Cancel
      BY <3>6 DEF BlockGivesUp, BlockTick, BlockConnectFailed, BlockReconnected,
                  BlockResubscribedAll, Block, Cancel
    <3>. QED  BY <1>4, <3>4, <3>5, <3>6 DEF QuietStep
  <2>. QED  BY <2>1, <2>2
<1>5. ASSUME NEW c \in Conns, Scheduled(Tasks(c))
      PROVE  Goal
  <2>1. UNCHANGED userVars /\ (pc = "spawned" => MultiThread)
    BY <1>5 DEF Scheduled, AtAwait
  <2>2. CASE Supervise(c)
    <3>1. supervisor \in [Conns -> {"none", "run", "done"}]
      BY DEF LiveInv, TypeInv, TypeOK, StateTypeOK
    <3>2. supervisor' = [supervisor EXCEPT ![c] = "done"] /\ cur' = cur /\ connect_status' = "Disconnected"
      BY <2>2 DEF Supervise
    <3>3. pc = "spawned" /\ cur = c => supervisor'[cur'] = "done"
      BY <3>1, <3>2
    <3>4. pc = "spawned" /\ cur # c => supervisor'[cur'] = supervisor[cur]
      BY <3>1, <3>2
    <3>. QED  BY <2>1, <3>2, <3>3, <3>4
  <2>3. CASE ~Supervise(c)
    <3>1. UNCHANGED <<cur, connect_status, supervisor>>
      BY <1>5, <2>3
         DEF Scheduled, Tasks, ReadHandler, MsgArm, OutgoingArm, FlushEnds, HandlePuback, HandlePubcomp,
             HandlePubrec, HandleSuback, HandleUnsuback, ReadBreak, WriteMsg, WriteMsgFails,
             WriterExits, WriteOutgoing, WriteOutgoingFails, OutgoingWritten, FlushFails
    <3>. QED  BY <2>1, <3>1
  <2>. QED  BY <2>2, <2>3
<1>6. CASE Environment /\ UNCHANGED userVars
  BY <1>6 DEF Environment
<1>7. CASE UNCHANGED vars
  BY <1>7 DEF vars
<1>. QED  BY <1>1, <1>2, <1>3, <1>4, <1>5, <1>6, <1>7, NextCases

(***************************************************************************)
(* is_connected() comes to answer true for a connection nobody supervises  *)
(* at the end of connect() only, in a multi-threaded runtime, when the     *)
(* supervisor it spawned has ended already; in a current_thread runtime it *)
(* never does.                                                             *)
(***************************************************************************)
THEOREM ConnectedSupervised == Spec => ConnectedIsSupervised
<1>1. Init => SupervisedInv
  BY LiveInit DEF Init, SupervisedInv
<1>2. SupervisedInv /\ [Next]_vars => SupervisedInv'
  BY SupervisedNext
<1>3. SupervisedInv /\ [Next]_vars => [StaleOnlyAfterSpawn]_vars
  BY SupervisedNext
<1>. QED  BY <1>1, <1>2, <1>3, PTL DEF Spec, ConnectedIsSupervised, StaleOnlyAfterSpawn

------------------------------------------------------------------------------
(***************************************************************************)
(* No request is forgotten.  A token with an identifier that is not        *)
(* complete waits in the table of a connection that is still supervised;   *)
(* the exception is a call that has the identifier and has not sent yet,   *)
(* which may find its connection gone and then fails the token itself.     *)
(* A call that waits for room in the channel is no exception: it found the *)
(* writer there, so the supervisor is still to clean up.                   *)
(***************************************************************************)
Pending(t) == token[t].id # 0 /\ ~token[t].complete

Kept(t) ==
    /\ cur # 0
    /\ index[cur][token[t].id] = t
    /\ supervisor[cur] = "run" \/ (pc = "send" /\ call.tok = t)

HasConn ==
    /\ cur # 0 => write_task[cur] # "none"
    /\ connect_status = "Connected" => cur # 0
    /\ pc \in {"spawned", "get_id", "send", "blocked", "add_subs"} => cur # 0

LostInv ==
    /\ LiveInv
    /\ PermitInv
    /\ HasConn
    /\ \A t \in Tokens : Pending(t) => Kept(t)

LEMMA LostInvTypes ==
    ASSUME LostInv
    PROVE  /\ token \in [Tokens -> TokenStates]
           /\ index \in [States -> [Ids -> Tokens \cup {NoToken}]]
           /\ cur \in States /\ (cur # 0 => cur \in Conns)
           /\ pc \in {"get_id", "send", "blocked", "add_subs"} => call \in Calls /\ call.tok \in Tokens
           /\ write_task \in [Conns -> {"none", "run", "done"}]
           /\ supervisor \in [Conns -> {"none", "run", "done"}]
BY DEF LostInv, LiveInv, TypeInv, TypeOK, StateTypeOK, CallOK, Calls, States, Conns

LEMMA TokenFields ==
    ASSUME NEW tk \in TokenStates
    PROVE  /\ FlowComplete(tk).id = tk.id /\ FlowComplete(tk).complete
           /\ \A e : SetError(tk, e).id = tk.id /\ SetError(tk, e).complete
           /\ \A x : [tk EXCEPT !.subs = x].id = tk.id /\ [tk EXCEPT !.subs = x].complete = tk.complete
BY DEF TokenStates, FlowComplete, SetError

\* Tokens only get closer to completion, and leave the table when they do.
Progress ==
    \A t \in Tokens :
        /\ token'[t].id = token[t].id
        /\ token[t].complete => token'[t].complete
        /\ index[cur][token[t].id] = t /\ ~token'[t].complete => index'[cur][token[t].id] = t

LEMMA CompleteAndFreeProgress ==
    ASSUME LostInv, NEW c \in Conns, NEW id, CompleteAndFree(c, id)
    PROVE  Progress
<1>1. CASE index[c][id] = NoToken
  BY <1>1 DEF CompleteAndFree, Progress
<1>2. CASE index[c][id] # NoToken
  <2>1. /\ token' = [token EXCEPT ![index[c][id]] = FlowComplete(@)]
        /\ index' = [index EXCEPT ![c][id] = NoToken]
    BY <1>2 DEF CompleteAndFree
  <2>2. ASSUME NEW t \in Tokens
        PROVE  /\ token'[t].id = token[t].id
               /\ token[t].complete => token'[t].complete
               /\ t = index[c][id] => token'[t].complete
    BY <2>1, TokenFields, LostInvTypes
  <2>3. ASSUME NEW t \in Tokens, index[cur][token[t].id] = t, ~token'[t].complete
        PROVE  index'[cur][token[t].id] = t
    BY <2>1, <2>2, <2>3, LostInvTypes
  <2>. QED  BY <2>2, <2>3 DEF Progress
<1>. QED  BY <1>1, <1>2

LEMMA LostProgress ==
    ASSUME LostInv, LiveInv', PermitInv', Progress,
           UNCHANGED <<cur, supervisor, pc, call>>,
           connect_status' \in {connect_status, "Disconnected"},
           \A c \in Conns : write_task[c] # "none" => write_task'[c] # "none"
    PROVE  LostInv'
<1>1. HasConn'
  BY LostInvTypes DEF LostInv, HasConn
<1>2. ASSUME NEW t \in Tokens, Pending(t)'
      PROVE  Kept(t)'
  BY <1>2 DEF LostInv, Pending, Kept, Progress
<1>. QED  BY <1>1, <1>2 DEF LostInv

\* clean_up completes every token that waits.
LEMMA CleanUpLeavesNone ==
    ASSUME LostInv, CleanUp(cur)
    PROVE  \A t \in Tokens : ~Pending(t)'
<1>. SUFFICES ASSUME NEW t \in Tokens, Pending(t)' PROVE FALSE
  OBVIOUS
<1>1. token'[t] = IF t \in Registered(index[cur]) THEN SetError(token[t], "ConnectionLost") ELSE token[t]
  BY DEF CleanUp
<1>2. token'[t] = token[t] /\ t \notin Registered(index[cur])
  BY <1>1, TokenFields, LostInvTypes DEF Pending
<1>3. Pending(t)
  BY <1>2 DEF Pending
<1>4. index[cur][token[t].id] = t
  BY <1>3 DEF LostInv, Kept
<1>5. token[t].id \in 0 .. PKID_MAX /\ token[t].id # 0
  BY <1>3, LostInvTypes DEF Pending, TokenStates
<1>. QED  BY <1>2, <1>4, <1>5, PacketIdsAssumption DEF Registered, Ids, PKID_MIN

LEMMA LostTasks ==
    ASSUME LostInv, LiveInv', PermitInv', NEW c \in Conns, Scheduled(Tasks(c))
    PROVE  LostInv'
<1>. USE DEF clientVars, idVars, taskVars, userVars
<1>0. UNCHANGED userVars
  BY DEF Scheduled
<1>1. CASE HandlePuback(c) \/ HandlePubcomp(c)
  BY <1>0, <1>1, CompleteAndFreeProgress, LostProgress DEF HandlePuback, HandlePubcomp
<1>2. CASE HandlePubrec(c) \/ ReadBreak(c) \/ WriteMsg(c) \/ WriteOutgoing(c)
  <2>1. Progress
    BY <1>2 DEF HandlePubrec, ReadBreak, WriteMsg, WriteOutgoing, Progress
  <2>. QED  BY <1>0, <1>2, <2>1, LostProgress DEF HandlePubrec, ReadBreak, WriteMsg, WriteOutgoing
<1>3. CASE HandleSuback(c) \/ HandleUnsuback(c)
  <2>1. Progress
    BY <1>3, CompleteAndFreeProgress DEF HandleSuback, HandleUnsuback, Progress
  <2>. QED  BY <1>0, <1>3, <2>1, LostProgress DEF HandleSuback, HandleUnsuback
<1>4. CASE OutgoingWritten(c) \/ WriteOutgoingFails(c) \/ FlushFails(c)
  <2>1. Progress
    BY <1>4, TokenFields, LostInvTypes DEF OutgoingWritten, WriteOutgoingFails, FlushFails, Progress
  <2>. QED  BY <1>0, <1>4, <2>1, LostInvTypes, LostProgress
            DEF OutgoingWritten, WriteOutgoingFails, FlushFails, WriterDone
<1>5. CASE WriteMsgFails(c) \/ WriterExits(c)
  <2>1. Progress
    BY <1>5 DEF WriteMsgFails, WriterExits, Progress
  <2>. QED  BY <1>0, <1>5, <2>1, LostInvTypes, LostProgress DEF WriteMsgFails, WriterExits, WriterDone
<1>6. CASE Supervise(c)
  <2>1. /\ c = cur
        /\ UNCHANGED <<cur, write_task>>
        /\ connect_status' = "Disconnected"
    BY <1>6 DEF Supervise, LostInv, LiveInv, OneLiveConnection
  <2>2. HasConn'
    BY <1>0, <2>1 DEF LostInv, HasConn
  <2>3. \A t \in Tokens : ~Pending(t)'
    BY <1>6, <2>1, CleanUpLeavesNone DEF Supervise
  <2>. QED  BY <2>2, <2>3 DEF LostInv
<1>. QED  BY <1>1, <1>2, <1>3, <1>4, <1>5, <1>6 DEF Scheduled, Tasks, ReadHandler, MsgArm, OutgoingArm, FlushEnds

LEMMA LostClient ==
    ASSUME LostInv, LiveInv', PermitInv',
           UNCHANGED <<token, index, cur, supervisor, write_task>>,
           connect_status' = "Connected" => cur # 0,
           pc' \in {"spawned", "get_id", "send", "blocked", "add_subs"} => cur # 0,
           pc = "send" => supervisor[cur] = "run" \/ (pc' = pc /\ call' = call)
    PROVE  LostInv'
<1>1. HasConn'
  BY DEF LostInv, HasConn
<1>2. \A t \in Tokens : Pending(t)' => Kept(t)'
  BY DEF LostInv, Pending, Kept
<1>. QED  BY <1>1, <1>2 DEF LostInv

LEMMA LostConnect ==
    ASSUME LostInv, LiveInv', PermitInv',
           Connect \/ TransportConnected \/ ConnectFails \/ ConnectReturns \/ BlockReconnects
    PROVE  LostInv'
<1>. USE DEF clientVars, idVars, taskVars, userVars, LostInv, HasConn, PermitInv
<1>1. CASE Connect
  BY <1>1, LostClient DEF Connect, Idle, StartConnect
<1>2. CASE TransportConnected
  BY <1>2, LostClient DEF TransportConnected
<1>3. CASE ConnectFails
  BY <1>3, LostClient DEF ConnectFails
<1>4. CASE ConnectReturns
  BY <1>4, LostClient DEF ConnectReturns
<1>5. CASE BlockReconnects
  BY <1>5, LostClient DEF BlockReconnects, StartConnect
<1>. QED  BY <1>1, <1>2, <1>3, <1>4, <1>5

\* A new connection starts with no request pending.
LEMMA LostConnackAccepted ==
    ASSUME LostInv, LiveInv', PermitInv',
           NEW present \in BOOLEAN, cur < MaxConns, ConnackAccepted(present)
    PROVE  LostInv'
<1>1. \A d \in Conns : supervisor[d] # "run"
  BY DEF LostInv, LiveInv, OneLiveConnection, ConnackAccepted
<1>2. \A t \in Tokens : ~Pending(t)
  BY <1>1, LostInvTypes DEF LostInv, Kept, ConnackAccepted
<1>3. token' = token /\ cur' = cur + 1 /\ write_task' = [write_task EXCEPT ![cur + 1] = "run"]
  BY DEF ConnackAccepted
<1>4. cur + 1 \in Conns /\ cur + 1 # 0
  BY LostInvTypes, ClientStateAssumption DEF States, Conns
<1>5. HasConn'
  BY <1>3, <1>4, LostInvTypes DEF HasConn
<1>. QED  BY <1>2, <1>3, <1>5 DEF LostInv, Pending

LEMMA LostStartRequest ==
    ASSUME LostInv, LiveInv', PermitInv', pc = "idle",
           NEW t \in Tokens, NEW kind, NEW topics, NEW valid, StartRequest(t, kind, topics, valid),
           UNCHANGED <<connect_status, cur, idVars, taskVars>>
    PROVE  LostInv'
<1>. USE DEF idVars, taskVars
<1>1. HasConn'
  BY DEF LostInv, HasConn, StartRequest
<1>2. token'[t].id = 0 /\ \A u \in Tokens \ {t} : token'[u] = token[u]
  <2>. DEFINE tk == NewToken(kind, topics)
  <2>1. tk.id = 0 /\ \A e : SetError(tk, e).id = 0
    BY DEF NewToken, SetError
  <2>2. PICK new \in {tk, SetError(tk, "ConnectionLost"), SetError(tk, "InvalidTopic")} :
           token' = [token EXCEPT ![t] = new]
    BY DEF StartRequest
  <2>. HIDE DEF tk
  <2>. QED  BY <2>1, <2>2, LostInvTypes
<1>3. \A u \in Tokens : Pending(u)' => Kept(u)'
  BY <1>2 DEF LostInv, Pending, Kept
<1>. QED  BY <1>1, <1>3 DEF LostInv

LEMMA LostGetId ==
    ASSUME LostInv, LiveInv', PermitInv', GetId
    PROVE  LostInv'
<1>. DEFINE id == NextVacant(index[cur], last_issued_id[cur])
            u == call.tok
<1>1. /\ UNCHANGED <<cur, connect_status, supervisor, write_task>>
      /\ cur # 0 /\ u \in Tokens
      /\ pc' \in {"idle", "send"}
  BY LostInvTypes DEF GetId, Return, LostInv, HasConn, clientVars, taskVars
<1>2. HasConn'
  BY <1>1 DEF LostInv, HasConn
<1>3. id # 0 => id \in Ids /\ index[cur][id] = NoToken
  BY NextVacantType DEF LostInv, LiveInv, TypeInv, TypeOK, StateTypeOK
<1>4. \A t \in Tokens : Pending(t) => index[cur][token[t].id] = t /\ supervisor[cur] = "run"
  BY DEF LostInv, Kept, GetId
<1>5. CASE /\ id = 0
           /\ token' = [token EXCEPT ![u] = SetError(@, "PacketIdError")]
           /\ UNCHANGED idVars
  <2>1. token'[u].complete /\ \A t \in Tokens \ {u} : token'[t] = token[t]
    BY <1>1, <1>5, TokenFields, LostInvTypes
  <2>2. \A t \in Tokens : Pending(t)' => Kept(t)'
    BY <1>1, <1>4, <1>5, <2>1 DEF Pending, Kept, idVars
  <2>. QED  BY <1>2, <2>2 DEF LostInv
<1>6. CASE id # 0 /\ index' = [index EXCEPT ![cur][id] = u]
  <2>1. PICK new : /\ token' = [token EXCEPT ![u] = new]
                   /\ \/ new = [token[u] EXCEPT !.id = id] /\ pc' = "send" /\ call' = call
                      \/ new = SetError([token[u] EXCEPT !.id = id], "InvalidTopic")
    BY <1>1, <1>6, LostInvTypes DEF GetId
  <2>2. /\ new.id = id
        /\ new.complete \/ (pc' = "send" /\ call' = call)
    <3>. HIDE DEF id, u
    <3>1. token[u] \in TokenStates /\ id \in 0 .. PKID_MAX
      BY <1>1, <1>3, <1>6, LostInvTypes, PacketIdsAssumption DEF Ids, PKID_MIN
    <3>2. [token[u] EXCEPT !.id = id] \in TokenStates /\ [token[u] EXCEPT !.id = id].id = id
      BY <3>1, TokenOps DEF TokenStates
    <3>3. /\ SetError([token[u] EXCEPT !.id = id], "InvalidTopic").id = id
          /\ SetError([token[u] EXCEPT !.id = id], "InvalidTopic").complete
      BY <3>2, TokenFields
    <3>. QED  BY <2>1, <3>2, <3>3
  <2>3. ASSUME NEW t \in Tokens, Pending(t)'
        PROVE  Kept(t)'
    <3>1. CASE t = u
      <4>. HIDE DEF id
      <4>. QED  BY <1>1, <1>3, <1>6, <2>1, <2>2, <2>3, <3>1, LostInvTypes DEF Pending, Kept
    <3>2. CASE t # u
      <4>1. token'[t] = token[t] /\ Pending(t)
        BY <1>1, <2>1, <2>3, <3>2, LostInvTypes DEF Pending
      <4>2. index[cur][token[t].id] = t /\ supervisor[cur] = "run"
        BY <1>4, <4>1
      <4>3. token[t].id # id
        BY <1>3, <1>6, <4>2, PacketIdsAssumption
      <4>4. index'[cur][token[t].id] = t
        <5>. HIDE DEF id, u
        <5>. QED  BY <1>6, <4>2, <4>3, LostInvTypes
      <4>. QED  BY <1>1, <4>1, <4>2, <4>4 DEF Kept
    <3>. QED  BY <3>1, <3>2
  <2>. QED  BY <1>2, <2>3 DEF LostInv
<1>. QED  BY <1>5, <1>6 DEF GetId

LEMMA LostSend ==
    ASSUME LostInv, LiveInv', PermitInv', Send \/ SendBlocks \/ SendToClosed \/ AddSubscriptions
    PROVE  LostInv'
<1>. USE DEF clientVars, idVars, taskVars
<1>1. Return => pc' = "idle"
  BY DEF Return
<1>2. Sent => pc' \in {"idle", "add_subs"}
  BY <1>1 DEF Sent
<1>3. cur # 0
  BY DEF LostInv, HasConn, Send, SendBlocks, SendToClosed, AddSubscriptions
<1>4. CASE Send \/ SendBlocks
  <2>1. supervisor[cur] = "run"
    BY <1>4, LostInvTypes DEF Send, SendBlocks, Open, LostInv, HasConn, LiveInv, OneLiveConnection
  <2>. QED  BY <1>2, <1>3, <1>4, <2>1, LostClient DEF Send, SendBlocks, LostInv, HasConn
<1>5. CASE SendToClosed \/ AddSubscriptions
  <2>1. HasConn'
    BY <1>1, <1>2, <1>3, <1>5 DEF SendToClosed, AddSubscriptions, LostInv, HasConn
  <2>2. call.tok \in Tokens /\ \A t \in Tokens \ {call.tok} : token'[t] = token[t]
    BY <1>5, LostInvTypes DEF SendToClosed, AddSubscriptions
  <2>3. CASE SendToClosed
    <3>1. token'[call.tok].complete
      BY <2>2, <2>3, TokenFields, LostInvTypes DEF SendToClosed
    <3>2. UNCHANGED <<cur, index, supervisor>>
      BY <2>3 DEF SendToClosed
    <3>3. \A t \in Tokens : Pending(t)' => Kept(t)'
      BY <2>2, <3>1, <3>2 DEF LostInv, Pending, Kept
    <3>. QED  BY <2>1, <3>3 DEF LostInv
  <2>4. CASE AddSubscriptions
    <3>1. \A t \in Tokens : token'[t].id = token[t].id /\ token'[t].complete = token[t].complete
      BY <2>2, <2>4, TokenFields, LostInvTypes DEF AddSubscriptions
    <3>2. UNCHANGED <<cur, index, supervisor>> /\ pc = "add_subs"
      BY <2>4 DEF AddSubscriptions
    <3>3. \A t \in Tokens : Pending(t)' => Kept(t)'
      BY <3>1, <3>2 DEF LostInv, Pending, Kept
    <3>. QED  BY <2>1, <3>3 DEF LostInv
  <2>. QED  BY <1>5, <2>3, <2>4
<1>. QED  BY <1>4, <1>5

LEMMA LostQuietStep ==
    ASSUME LostInv, LiveInv', PermitInv', QuietStep
    PROVE  LostInv'
<1>. USE DEF clientVars, idVars, taskVars
<1>1. CASE GetId
  BY <1>1, LostGetId
<1>2. CASE Send \/ SendBlocks \/ SendToClosed \/ AddSubscriptions
  BY <1>2, LostSend
<1>3. CASE BlockGivesUp \/ BlockTick \/ BlockConnectFailed \/ Block
  BY <1>3, LostClient DEF BlockGivesUp, BlockTick, BlockConnectFailed, Block, LostInv, HasConn
<1>4. CASE BlockResubscribedAll
  BY <1>4, LostClient DEF BlockResubscribedAll, Resubscribed, LostInv, HasConn
<1>5. CASE Cancel
  BY <1>5, LostClient DEF Cancel, AtAwait, LostInv, HasConn
<1>6. CASE Request
  <2>1. UNCHANGED <<connect_status, cur, idVars, taskVars>> /\ pc = "idle"
    BY <1>6 DEF Request, Idle
  <2>2. PICK t \in Tokens, kind \in Requests, valid \in BOOLEAN : \E topics : StartRequest(t, kind, topics, valid)
    BY <1>6 DEF Request
  <2>. QED  BY <2>1, <2>2, LostStartRequest
<1>7. CASE BlockResubscribes
  <2>1. UNCHANGED <<connect_status, cur, idVars, taskVars>> /\ pc = "idle"
    BY <1>7 DEF BlockResubscribes, Resubscribed
  <2>2. PICK t \in Tokens, x \in todo : StartRequest(t, "Subscribe", {x}, TRUE)
    BY <1>7 DEF BlockResubscribes
  <2>. QED  BY <2>1, <2>2, LostStartRequest
<1>8. CASE BlockReconnected
  <2>1. /\ UNCHANGED <<connect_status, cur, taskVars>> /\ pc' = pc /\ pc = "idle"
        /\ UNCHANGED <<token, index>> \/ CleanUp(cur)
    BY <1>8 DEF BlockReconnected
  <2>2. HasConn'
    BY <2>1 DEF LostInv, HasConn
  <2>3. ASSUME NEW t \in Tokens, Pending(t)'
        PROVE  Kept(t)'
    <3>1. CASE UNCHANGED <<token, index>>
      BY <2>1, <2>3, <3>1 DEF LostInv, Pending, Kept
    <3>2. CASE CleanUp(cur)
      BY <2>3, <3>2, CleanUpLeavesNone
    <3>. QED  BY <2>1, <3>1, <3>2
  <2>. QED  BY <2>2, <2>3 DEF LostInv
<1>. QED  BY <1>1, <1>2, <1>3, <1>4, <1>5, <1>6, <1>7, <1>8 DEF QuietStep

LEMMA LostNext ==
    ASSUME LostInv, [Next]_vars
    PROVE  LostInv'
<1>1. LiveInv' /\ PermitInv'
  BY LiveNext, PermitNext DEF LostInv
<1>2. CASE Environment /\ UNCHANGED userVars
  BY <1>1, <1>2, LostClient
     DEF Environment, userVars, clientVars, idVars, taskVars, LostInv, HasConn
<1>3. CASE UNCHANGED vars
  BY <1>1, <1>3, LostClient DEF vars, userVars, clientVars, idVars, taskVars, LostInv, HasConn
<1>. QED  BY <1>1, <1>2, <1>3, NextCases, LostConnect, LostConnackAccepted, LostTasks, LostQuietStep

LEMMA LostInit == Init => LostInv
<1>. SUFFICES ASSUME Init PROVE LostInv
  OBVIOUS
<1>1. LiveInv
  BY LiveInit
<1>2. PermitInv /\ HasConn
  BY DEF Init, StateInit, PermitInv, PermitIsCurrent, HasConn
<1>3. \A t \in Tokens : ~Pending(t)
  <2>1. \A t \in Tokens : token[t] = [NewToken("Publish0", {}) EXCEPT !.complete = TRUE]
    BY DEF Init, StateInit
  <2>2. NewToken("Publish0", {}).id = 0
    BY DEF NewToken
  <2>3. [NewToken("Publish0", {}) EXCEPT !.complete = TRUE].id = 0
    BY <2>2 DEF NewToken
  <2>. QED  BY <2>1, <2>3 DEF Pending
<1>. QED  BY <1>1, <1>2, <1>3 DEF LostInv

(***************************************************************************)
(* No request is forgotten: while its token is pending the token is in the *)
(* table of a live connection, whose end fails it, or its call has still   *)
(* to return.                                                              *)
(***************************************************************************)
THEOREM NoLost == Spec => []NoLostToken
<1>1. LostInv => NoLostToken
  BY DEF LostInv, NoLostToken, Pending, Kept
<1>. QED  BY <1>1, LostInit, LostNext, PTL DEF Spec
==============================================================================
