----------------------------- MODULE ClientState -----------------------------
(***************************************************************************)
(* The state an MqttClient shares with the tasks it spawns: the fields of  *)
(* MqttClient (src/client.rs), of the State behind its Arc (src/state.rs), *)
(* the tokens of its requests (src/token), and the connection to the       *)
(* server.  `self.state` is replaced on every accepted CONNACK, so states  *)
(* are numbered by the connection they belong to; 0 is the one made by     *)
(* MqttClient::new.                                                        *)
(***************************************************************************)
EXTENDS PacketIds, Sequences, FiniteSets

CONSTANTS
    Topics,          \* topic filters
    MaxConns,        \* bound: accepted connections
    OUTGOING_CAP,    \* capacity of the outgoing channel: 8 in the code
    MSG_CAP,         \* capacity of the response channel: 8 in the code
    LateFlush        \* a flush of the transport can fail after the server has the packet

ASSUME ClientStateAssumption ==
    /\ MaxConns \in Nat
    /\ OUTGOING_CAP \in Nat \ {0}
    /\ MSG_CAP \in Nat \ {0}
    /\ LateFlush \in BOOLEAN

VARIABLES
    connect_status,     \* Arc<Mutex<ConnectStatus>>
    manual_disconnect,  \* Arc<AtomicBool>
    cur,                \* which State `self.state` points to
    token,              \* the inner state of each request's token
    index,              \* packet_ids.index of each State
    last_issued_id,     \* packet_ids.last_issued_id of each State
    subscriptions,      \* subscriptions of each State: the filters it maps
    topic_manager,      \* the one trie all States share: the filters with a handler
    outgoing,           \* each connection's outgoing channel: tokens of requests to write
    msg,                \* and its channel of response packets
    flushing,           \* the request whose send is in progress in the write task
    read_task,          \* "none", "run", "done"
    write_task,
    supervisor,         \* the task that joins the two
    link,               \* the transport: "none", "up", "down"
    wire,               \* packets on their way to the server, or waiting in it
    inbox               \* packets on their way to the client

clientVars == <<connect_status, manual_disconnect, cur>>
idVars == <<index, last_issued_id>>
handlerVars == <<subscriptions, topic_manager>>
channelVars == <<outgoing, msg, flushing>>
taskVars == <<read_task, write_task, supervisor>>
netVars == <<link, wire, inbox>>

Conns == 1 .. MaxConns
States == 0 .. MaxConns

RequestKinds == {"Publish0", "Publish1", "Publish2", "Subscribe", "Unsubscribe", "Disconnect"}
AckedKinds == {"Publish1", "Publish2", "Subscribe", "Unsubscribe"}
Errors == {"None", "ConnectionLost", "PacketIdError", "InvalidTopic",
           "InternalServerError", "IOError"}

------------------------------------------------------------------------------
(* Tokens: the Tokenize operations of src/token/mod.rs. *)

TokenStates ==
    [kind : RequestKinds, id : 0 .. PKID_MAX, topics : SUBSET Topics, subs : SUBSET Topics,
     complete : BOOLEAN, error : Errors]

\* Publish..Token::default(), SubscribeToken::default()...: topics are those of
\* the packet, subs the list add_subscriptions fills in later.
NewToken(kind, topics) ==
    [kind |-> kind, id |-> 0, topics |-> topics, subs |-> {},
     complete |-> FALSE, error |-> "None"]

FlowComplete(tk) == [tk EXCEPT !.complete = TRUE]
SetError(tk, error) == [tk EXCEPT !.complete = TRUE, !.error = error]

Succeeded(t) == token[t].complete /\ token[t].error = "None"

------------------------------------------------------------------------------
(* PacketIds: get_token, free_id and clean_up of src/pkid.rs. *)

EmptyIndex == [i \in Ids |-> NoToken]

\* What every acknowledgement handler does under the packet_ids lock.
CompleteAndFree(c, id) ==
    IF index[c][id] = NoToken
    THEN UNCHANGED <<token, index>>
    ELSE /\ token' = [token EXCEPT ![index[c][id]] = FlowComplete(@)]
         /\ index' = [index EXCEPT ![c][id] = NoToken]

CleanUp(c) ==
    /\ token' = [t \in Tokens |->
                    IF t \in Registered(index[c]) THEN SetError(token[t], "ConnectionLost")
                                                  ELSE token[t]]
    /\ index' = [index EXCEPT ![c] = EmptyIndex]

------------------------------------------------------------------------------
(* Packets.  tok is the request a packet belongs to: a ghost, nothing reads it. *)

Packet(type, id, t) == [type |-> type, id |-> id, tok |-> t, granted |-> {}]
RequestPacket(t) == Packet(token[t].kind, token[t].id, t)

PacketTypes == AckedKinds \cup {"Disconnect", "Pubrel"}
AckTypes == {"Puback", "Pubrec", "Pubcomp", "Suback", "Unsuback"}
Packets(types) ==
    [type : types, id : 0 .. PKID_MAX, tok : Tokens, granted : SUBSET Topics]

\* The receivers of connection c's channels are dropped with its write task.
Open(c) == c # 0 /\ write_task[c] # "done"

------------------------------------------------------------------------------
StateInit ==
    /\ connect_status = "Disconnected"
    /\ manual_disconnect = FALSE
    /\ cur = 0
    /\ token = [t \in Tokens |-> [NewToken("Publish0", {}) EXCEPT !.complete = TRUE]]
    /\ index = [s \in States |-> EmptyIndex]
    /\ last_issued_id = [s \in States |-> PKID_MIN]
    /\ subscriptions = [s \in States |-> {}]
    /\ topic_manager = {}
    /\ outgoing = [c \in Conns |-> <<>>]
    /\ msg = [c \in Conns |-> <<>>]
    /\ flushing = [c \in Conns |-> NoToken]
    /\ read_task = [c \in Conns |-> "none"]
    /\ write_task = [c \in Conns |-> "none"]
    /\ supervisor = [c \in Conns |-> "none"]
    /\ link = [c \in Conns |-> "none"]
    /\ wire = [c \in Conns |-> {}]
    /\ inbox = [c \in Conns |-> <<>>]

StateTypeOK ==
    /\ connect_status \in {"Connected", "Disconnected", "Connecting"}
    /\ manual_disconnect \in BOOLEAN
    /\ cur \in States
    /\ token \in [Tokens -> TokenStates]
    /\ index \in [States -> [Ids -> Tokens \cup {NoToken}]]
    /\ last_issued_id \in [States -> Ids]
    /\ subscriptions \in [States -> SUBSET Topics]
    /\ topic_manager \in SUBSET Topics
    /\ outgoing \in [Conns -> Seq(Tokens)]
    /\ msg \in [Conns -> Seq(Packets({"Pubrel"}))]
    /\ flushing \in [Conns -> Tokens \cup {NoToken}]
    /\ read_task \in [Conns -> {"none", "run", "done"}]
    /\ write_task \in [Conns -> {"none", "run", "done"}]
    /\ supervisor \in [Conns -> {"none", "run", "done"}]
    /\ link \in [Conns -> {"none", "up", "down"}]
    /\ wire \in [Conns -> SUBSET Packets(PacketTypes)]
    /\ inbox \in [Conns -> Seq(Packets(AckTypes))]
==============================================================================
