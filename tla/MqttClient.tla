------------------------------ MODULE MqttClient ------------------------------
(***************************************************************************)
(* MqttClient of src/client.rs: the task that calls its methods (they take *)
(* &mut self, so one call at a time), with one step per await point or     *)
(* lock it goes through; composed with the tasks of its connections (Net)  *)
(* and the server (Broker).                                                *)
(*                                                                         *)
(* MultiThread is the flavour of tokio's runtime.  In a current_thread one *)
(* the spawned tasks run only while the user's task is suspended.          *)
(***************************************************************************)
EXTENDS Net, Broker

CONSTANTS
    MultiThread,
    Requests,         \* the kinds of request the user makes
    ByHand,           \* the user may call connect() again after the first connection
    MayCancel,        \* the user may drop a future it awaits
    AutoReconnect,    \* options.auto_reconnect
    MaxRetries,       \* options.max_connect_retry_times
    Unlimited,        \* ... when that is None
    CNT_MAX,          \* largest value of block's retry counter: 65535 in the code
    NoCall

ASSUME MqttClientAssumption ==
    /\ MultiThread \in BOOLEAN /\ MayCancel \in BOOLEAN /\ ByHand \in BOOLEAN
    /\ AutoReconnect \in BOOLEAN
    /\ Requests \subseteq RequestKinds
    /\ CNT_MAX \in Nat
    /\ Unlimited \notin Nat
    /\ MaxRetries \in (0 .. CNT_MAX) \cup {Unlimited}
    /\ NoCall \notin [kind : RequestKinds, tok : Tokens, topics : SUBSET Topics, valid : BOOLEAN]

VARIABLES
    pc,             \* where the user's task is: "idle" between calls
    call,           \* the request being made, or awaited by block()
    connect_token,  \* what the last connect() returned
    notify,         \* the permit of `self.notify`
    bpc,            \* block(): "none", "select", "connect", "resub"
    cnt,            \* block(): failed attempts in a row
    todo            \* block(): filters still to resubscribe

userVars == <<pc, call, connect_token, notify, bpc, cnt, todo>>
blockVars == <<notify, bpc, cnt, todo>>
vars == <<clientVars, token, idVars, handlerVars, channelVars, taskVars, netVars,
          brokerVars, userVars>>

Init ==
    /\ StateInit
    /\ BrokerInit
    /\ pc = "idle"
    /\ call = NoCall
    /\ connect_token = [complete |-> FALSE, failed |-> FALSE, session_present |-> FALSE]
    /\ notify = FALSE
    /\ bpc = "none"
    /\ cnt = 0
    /\ todo = {}

\* The user is not inside a method: block() is one.
Idle == pc = "idle" /\ bpc = "none"

\* Mutant: a call also gives way between the send and add_subscriptions.
AtAwait_AfterSend ==
    \/ pc \in {"transport", "connack", "blocked", "add_subs"}
    \/ /\ pc = "idle"
       /\ \/ bpc = "none"
          \/ bpc = "select" /\ ~notify
          \/ bpc = "resub" /\ call # NoCall

\* The user's task is suspended at an await.
AtAwait ==
    \/ pc \in {"transport", "connack", "blocked"}
    \/ /\ pc = "idle"
       /\ \/ bpc = "none"
          \/ bpc = "select" /\ ~notify
          \/ bpc = "resub" /\ call # NoCall

\* Nothing refers to t any more, so its place can be taken by a new token.
Fresh(t) ==
    /\ \A s \in States : s = cur \/ (s # 0 /\ supervisor[s] = "run") => t \notin Registered(index[s])
    /\ \A c \in Conns : flushing[c] # t /\ \A k \in 1 .. Len(outgoing[c]) : outgoing[c][k] # t
    /\ \A c \in Conns : \A p \in wire[c] : p.tok # t

------------------------------------------------------------------------------
(* connect() *)

ConnectToken(complete, failed, session_present) ==
    [complete |-> complete, failed |-> failed, session_present |-> session_present]

\* Up to the first await.  Already Connected: the token that comes back is
\* never completed.
StartConnect ==
    \/ /\ connect_status = "Connected"
       /\ connect_token' = ConnectToken(FALSE, FALSE, FALSE)
       /\ UNCHANGED <<connect_status, pc>>
    \/ /\ connect_status = "Connecting"
       /\ connect_token' = ConnectToken(TRUE, TRUE, FALSE)
       /\ UNCHANGED <<connect_status, pc>>
    \/ /\ connect_status = "Disconnected"
       /\ connect_status' = "Connecting"
       /\ connect_token' = ConnectToken(FALSE, FALSE, FALSE)
       /\ pc' = "transport"

Connect ==
    /\ Idle
    /\ ByHand \/ cur = 0
    /\ StartConnect
    /\ UNCHANGED <<manual_disconnect, cur, token, idVars, handlerVars, channelVars, taskVars,
                   netVars, brokerVars, call, blockVars>>

\* The transport is up and CONNECT is sent; a failure to send it is ignored.
TransportConnected ==
    /\ pc = "transport"
    /\ cur < MaxConns
    /\ pc' = "connack"
    /\ UNCHANGED <<clientVars, token, idVars, handlerVars, channelVars, taskVars, netVars,
                   brokerVars, call, connect_token, blockVars>>

\* Transport error or timeout; CONNACK with an error code, another packet,
\* an undecodable one, or the end of the stream.
ConnectFails ==
    /\ pc \in {"transport", "connack"}
    /\ connect_status' = "Disconnected"
    /\ connect_token' = ConnectToken(TRUE, TRUE, FALSE)
    /\ pc' = "idle"
    \* the server may have accepted a CONNECT whose answer got lost
    /\ \/ UNCHANGED <<brokerVars, link, wire>>
       \/ pc = "connack" /\ \E present \in BOOLEAN : Accept(0, present)
    /\ UNCHANGED <<manual_disconnect, cur, token, idVars, handlerVars, channelVars, taskVars,
                   inbox, call, blockVars>>

\* The State that replaces `self.state` starts with a copy of its table f; the
\* old one is dropped with the last task that holds it.
Inherit(f, empty) ==
    [s \in States |-> IF s = cur + 1 THEN f[cur]
                      ELSE IF s = cur /\ (s = 0 \/ supervisor[s] = "done") THEN empty
                      ELSE f[s]]

\* Mutant: the new State starts with an empty map of subscriptions.
ConnackAccepted_ForgetsSubscriptions(present) ==
    LET c == cur + 1
    IN  /\ pc = "connack"
        /\ Accept(c, present)
        /\ cur' = c
        /\ index' = Inherit(index, EmptyIndex)
        /\ last_issued_id' = Inherit(last_issued_id, PKID_MIN)
        /\ read_task' = [read_task EXCEPT ![c] = "run"]
        /\ write_task' = [write_task EXCEPT ![c] = "run"]
        /\ supervisor' = [supervisor EXCEPT ![c] = "run"]
        /\ connect_token' = ConnectToken(FALSE, FALSE, present)
        /\ pc' = "spawned"
        /\ UNCHANGED <<connect_status, manual_disconnect, token, handlerVars, channelVars,
                       inbox, call, blockVars>>

\* A new State with copies of the identifiers and the subscriptions, sharing
\* the trie; the connection's tasks are spawned.
ConnackAccepted(present) ==
    LET c == cur + 1
    IN  /\ pc = "connack"
        /\ Accept(c, present)
        /\ cur' = c
        /\ index' = Inherit(index, EmptyIndex)
        /\ last_issued_id' = Inherit(last_issued_id, PKID_MIN)
        /\ subscriptions' = Inherit(subscriptions, {})
        /\ read_task' = [read_task EXCEPT ![c] = "run"]
        /\ write_task' = [write_task EXCEPT ![c] = "run"]
        /\ supervisor' = [supervisor EXCEPT ![c] = "run"]
        /\ connect_token' = ConnectToken(FALSE, FALSE, present)
        /\ pc' = "spawned"
        /\ UNCHANGED <<connect_status, manual_disconnect, token, topic_manager, channelVars,
                       inbox, call, blockVars>>

\* The rest of connect(): nothing here looks at what became of the spawned tasks.
ConnectReturns ==
    /\ pc = "spawned"
    /\ connect_status' = "Connected"
    /\ manual_disconnect' = FALSE
    /\ connect_token' = [connect_token EXCEPT !.complete = TRUE]
    /\ pc' = "idle"
    /\ UNCHANGED <<cur, token, idVars, handlerVars, channelVars, taskVars, netVars,
                   brokerVars, call, blockVars>>

------------------------------------------------------------------------------
(* publish, subscribe, subscribe_multiple, unsubscribe and disconnect *)

\* is_connected() and what follows it up to the next lock.  A QoS 0 publish of
\* an invalid topic comes back at once.
StartRequest(t, kind, topics, valid) ==
    LET tk == NewToken(kind, topics)
        started == [kind |-> kind, tok |-> t, topics |-> topics, valid |-> valid]
    IN  /\ Fresh(t)
        /\ handled' = handled \ {t}
        /\ \/ /\ connect_status # "Connected"
              /\ token' = [token EXCEPT ![t] = SetError(tk, "ConnectionLost")]
              /\ call' = NoCall
              /\ UNCHANGED <<pc, manual_disconnect>>
           \/ /\ connect_status = "Connected"
              /\ kind \in AckedKinds
              /\ token' = [token EXCEPT ![t] = tk]
              /\ call' = started
              /\ pc' = "get_id"
              /\ UNCHANGED manual_disconnect
           \/ /\ connect_status = "Connected"
              /\ kind = "Publish0" /\ ~valid
              /\ token' = [token EXCEPT ![t] = SetError(tk, "InvalidTopic")]
              /\ call' = NoCall
              /\ UNCHANGED <<pc, manual_disconnect>>
           \/ /\ connect_status = "Connected"
              /\ kind \notin AckedKinds /\ valid
              /\ token' = [token EXCEPT ![t] = tk]
              /\ call' = started
              /\ pc' = "send"
              /\ manual_disconnect' = (manual_disconnect \/ kind = "Disconnect")

TopicsOf(kind) == IF kind \in {"Subscribe", "Unsubscribe"} THEN (SUBSET Topics) \ {{}} ELSE {{}}

Request ==
    /\ Idle
    /\ \E t \in Tokens, kind \in Requests, valid \in BOOLEAN :
          \E topics \in TopicsOf(kind) :
             /\ kind = "Disconnect" => valid
             /\ StartRequest(t, kind, topics, valid)
    /\ UNCHANGED <<connect_status, cur, idVars, handlerVars, channelVars, taskVars, netVars,
                   session, subs, received, connect_token, blockVars>>

\* The call returns its token; block() goes on to await it.
Return ==
    /\ pc' = "idle"
    /\ call' = IF bpc = "resub" THEN call ELSE NoCall

\* Mutant: 0 is taken for an identifier.
GetId_Unchecked ==
    LET t == call.tok
        id == NextVacant(index[cur], last_issued_id[cur])
    IN  /\ pc = "get_id"
        /\ index' = [index EXCEPT ![cur] = [i \in Ids |-> IF i = id THEN t ELSE @[i]]]
        /\ last_issued_id' = [last_issued_id EXCEPT ![cur] = id]
        /\ token' = [token EXCEPT ![t].id = id]
        /\ pc' = "send"
        /\ UNCHANGED <<call, clientVars, handlerVars, channelVars, taskVars, netVars, brokerVars,
                       connect_token, blockVars>>

\* get_id, then the conversion of the topics.
GetId ==
    LET t == call.tok
        id == NextVacant(index[cur], last_issued_id[cur])
    IN  /\ pc = "get_id"
        /\ \/ /\ id = 0
              /\ token' = [token EXCEPT ![t] = SetError(@, "PacketIdError")]
              /\ Return
              /\ UNCHANGED idVars
           \/ /\ id # 0
              /\ index' = [index EXCEPT ![cur][id] = t]
              /\ last_issued_id' = [last_issued_id EXCEPT ![cur] = id]
              /\ \/ /\ call.valid
                    /\ token' = [token EXCEPT ![t].id = id]
                    /\ pc' = "send"
                    /\ UNCHANGED call
                 \/ /\ ~call.valid
                    /\ token' = [token EXCEPT ![t] = SetError([@ EXCEPT !.id = id], "InvalidTopic")]
                    /\ Return
        /\ UNCHANGED <<clientVars, handlerVars, channelVars, taskVars, netVars, brokerVars,
                       connect_token, blockVars>>

\* Mutant: a subscribe() that had to wait for room returns as the others do.
Sent_ForgetsBlocked ==
    IF call.kind = "Subscribe" /\ pc = "send"
    THEN pc' = "add_subs" /\ UNCHANGED call
    ELSE Return

\* After the send: subscribe() still has to attach its subscriptions.
Sent ==
    IF call.kind = "Subscribe"
    THEN pc' = "add_subs" /\ UNCHANGED call
    ELSE Return

Send ==
    /\ pc \in {"send", "blocked"}
    /\ Open(cur)
    /\ Len(outgoing[cur]) < OUTGOING_CAP
    /\ outgoing' = [outgoing EXCEPT ![cur] = Append(@, call.tok)]
    /\ Sent
    /\ UNCHANGED <<clientVars, token, idVars, handlerVars, msg, flushing, taskVars, netVars, brokerVars,
                   connect_token, blockVars>>

SendBlocks ==
    /\ pc = "send"
    /\ Open(cur)
    /\ Len(outgoing[cur]) >= OUTGOING_CAP
    /\ pc' = "blocked"
    /\ UNCHANGED <<clientVars, token, idVars, handlerVars, channelVars, taskVars, netVars,
                   brokerVars, call, connect_token, blockVars>>

SendToClosed ==
    /\ pc \in {"send", "blocked"}
    /\ ~Open(cur)
    /\ token' = [token EXCEPT ![call.tok] = SetError(@, "InternalServerError")]
    /\ Sent
    /\ UNCHANGED <<clientVars, idVars, handlerVars, channelVars, taskVars, netVars, brokerVars,
                   connect_token, blockVars>>

AddSubscriptions ==
    /\ pc = "add_subs"
    /\ token' = [token EXCEPT ![call.tok].subs = call.topics]
    /\ Return
    /\ UNCHANGED <<clientVars, idVars, handlerVars, channelVars, taskVars, netVars, brokerVars,
                   connect_token, blockVars>>

\* The user drops the future of a suspended call.
Cancel ==
    /\ MayCancel
    /\ AtAwait
    /\ ~Idle
    /\ pc' = "idle"
    /\ bpc' = "none"
    /\ call' = NoCall
    /\ todo' = {}
    /\ UNCHANGED <<clientVars, token, idVars, handlerVars, channelVars, taskVars, netVars,
                   brokerVars, connect_token, notify, cnt>>

------------------------------------------------------------------------------
(* block() *)

Exhausted == MaxRetries # Unlimited /\ cnt >= MaxRetries

Block ==
    /\ Idle
    /\ bpc' = "select"
    /\ cnt' = 0
    /\ UNCHANGED <<clientVars, token, idVars, handlerVars, channelVars, taskVars, netVars,
                   brokerVars, pc, call, connect_token, notify, todo>>

BlockGivesUp ==
    /\ bpc = "select"
    /\ Exhausted
    /\ bpc' = "none"
    /\ UNCHANGED <<clientVars, token, idVars, handlerVars, channelVars, taskVars, netVars,
                   brokerVars, pc, call, connect_token, notify, cnt, todo>>

\* Mutant: the user's own disconnect() is taken for a loss.
BlockTick_IgnoresManual ==
    /\ bpc = "select"
    /\ ~Exhausted
    /\ connect_status = "Disconnected"
    /\ \/ AutoReconnect /\ notify' = TRUE /\ UNCHANGED bpc
       \/ ~AutoReconnect /\ bpc' = "none" /\ UNCHANGED notify
    /\ UNCHANGED <<clientVars, token, idVars, handlerVars, channelVars, taskVars, netVars,
                   brokerVars, pc, call, connect_token, cnt, todo>>

\* Mutant: a reconnection is never asked for.
BlockTick_NoNotify ==
    /\ bpc = "select"
    /\ ~Exhausted
    /\ connect_status = "Disconnected"
    /\ ~manual_disconnect
    /\ ~AutoReconnect
    /\ bpc' = "none"
    /\ UNCHANGED <<clientVars, token, idVars, handlerVars, channelVars, taskVars, netVars,
                   brokerVars, pc, call, connect_token, notify, cnt, todo>>

\* The reconnect interval is over; see Rest for the other cases of the match.
BlockTick ==
    /\ bpc = "select"
    /\ ~Exhausted
    /\ connect_status = "Disconnected"
    /\ ~manual_disconnect
    /\ \/ AutoReconnect /\ notify' = TRUE /\ UNCHANGED bpc
       \/ ~AutoReconnect /\ bpc' = "none" /\ UNCHANGED notify
    /\ UNCHANGED <<clientVars, token, idVars, handlerVars, channelVars, taskVars, netVars,
                   brokerVars, pc, call, connect_token, cnt, todo>>

\* notified(): the counter is a u16, unchecked in a release build.
BlockReconnects ==
    /\ bpc = "select"
    /\ ~Exhausted
    /\ notify
    /\ notify' = FALSE
    /\ cnt' = (cnt + 1) % (CNT_MAX + 1)
    /\ bpc' = "connect"
    /\ StartConnect
    /\ UNCHANGED <<manual_disconnect, cur, token, idVars, handlerVars, channelVars, taskVars,
                   netVars, brokerVars, call, todo>>

BlockConnectFailed ==
    /\ bpc = "connect" /\ pc = "idle"
    /\ connect_token.complete /\ connect_token.failed
    /\ bpc' = "select"
    /\ UNCHANGED <<clientVars, token, idVars, handlerVars, channelVars, taskVars, netVars,
                   brokerVars, pc, call, connect_token, notify, cnt, todo>>

\* Mutant: the handlers of the lost session stay.
BlockReconnected_KeepsHandlers ==
    /\ bpc = "connect" /\ pc = "idle"
    /\ connect_token.complete /\ ~connect_token.failed
    /\ cnt' = 0
    /\ \/ /\ connect_token.session_present
          /\ bpc' = "select"
          /\ UNCHANGED <<token, index, todo>>
       \/ /\ ~connect_token.session_present
          /\ bpc' = "resub"
          /\ CleanUp(cur)
          /\ todo' = subscriptions[cur]
    /\ UNCHANGED <<clientVars, last_issued_id, handlerVars, channelVars, taskVars, netVars,
                   brokerVars, pc, call, connect_token, notify>>

\* Without a session: forget identifiers and handlers, then subscribe again.
BlockReconnected ==
    /\ bpc = "connect" /\ pc = "idle"
    /\ connect_token.complete /\ ~connect_token.failed
    /\ cnt' = 0
    /\ \/ /\ connect_token.session_present
          /\ bpc' = "select"
          /\ UNCHANGED <<token, index, topic_manager, todo>>
       \/ /\ ~connect_token.session_present
          /\ bpc' = "resub"
          /\ CleanUp(cur)
          /\ todo' = subscriptions[cur]
          /\ topic_manager' = {}
    /\ UNCHANGED <<clientVars, last_issued_id, subscriptions, channelVars, taskVars, netVars,
                   brokerVars, pc, call, connect_token, notify>>

\* The subscribe() of the loop's last turn has returned, and its token resolved.
Resubscribed == pc = "idle" /\ (call # NoCall => token[call.tok].complete)

BlockResubscribes ==
    /\ bpc = "resub"
    /\ Resubscribed
    /\ \E t \in Tokens, x \in todo :
          /\ todo' = todo \ {x}
          /\ StartRequest(t, "Subscribe", {x}, TRUE)
    /\ UNCHANGED <<connect_status, cur, idVars, handlerVars, channelVars, taskVars, netVars,
                   session, subs, received, connect_token, notify, bpc, cnt>>

BlockResubscribedAll ==
    /\ bpc = "resub"
    /\ Resubscribed
    /\ todo = {}
    /\ bpc' = "select"
    /\ call' = NoCall
    /\ UNCHANGED <<clientVars, token, idVars, handlerVars, channelVars, taskVars, netVars,
                   brokerVars, pc, connect_token, notify, cnt, todo>>

------------------------------------------------------------------------------
\* The steps of the user's task once a method is called.
UserStep ==
    \/ ConnectReturns
    \/ GetId
    \/ Send
    \/ SendBlocks
    \/ SendToClosed
    \/ AddSubscriptions
    \/ BlockGivesUp
    \/ BlockTick
    \/ BlockReconnects
    \/ BlockConnectFailed
    \/ BlockReconnected
    \/ BlockResubscribes
    \/ BlockResubscribedAll

\* What the user may do, and the answers to its connect().
UserChoice ==
    \/ Connect
    \/ TransportConnected
    \/ ConnectFails
    \/ \E present \in BOOLEAN : cur < MaxConns /\ ConnackAccepted(present)
    \/ Request
    \/ Block
    \/ Cancel

\* A step of a spawned task.
Scheduled(step) ==
    /\ MultiThread \/ AtAwait
    /\ step
    /\ UNCHANGED <<brokerVars, userVars>>

\* The user has nothing to ask for, at present or for ever; or the sleep branch
\* of block() wakes up to do nothing: still connected, a connect() that was
\* dropped, or disconnect() was called.
Rest ==
    /\ \/ Idle
       \/ bpc = "select" /\ (connect_status # "Disconnected" \/ manual_disconnect)
    /\ UNCHANGED vars

Next ==
    \/ UserStep
    \/ UserChoice
    \/ \E c \in Conns : Scheduled(Tasks(c))
    \/ Environment /\ UNCHANGED userVars
    \/ Rest

(***************************************************************************)
(* A method that does not wait for the server proceeds, every connection   *)
(* attempt has a timeout, and tokio runs every task that can run: strongly *)
(* fair, because a task that never waits is made to yield by its budget.   *)
(* So is each arm of a select!, which picks at random.  A read or a write  *)
(* is sure to end on a broken link only, and a reader that waits for room  *)
(* in the msg channel does not see the link at all: what lets it go on is  *)
(* the writer.  The server, the user and a break of the link are not       *)
(* assumed fair.                                                           *)
(***************************************************************************)
Fairness ==
    /\ WF_vars(UserStep)
    /\ WF_vars(pc = "transport" /\ (TransportConnected \/ ConnectFails))
    /\ \A c \in Conns :
          /\ SF_vars(Scheduled(link[c] = "down" /\ (ReadHandler(c) \/ ReadBreak(c))))
          /\ SF_vars(Scheduled(link[c] = "down" /\ MsgArm(c)))
          /\ SF_vars(Scheduled(link[c] = "down" /\ OutgoingArm(c)))
          /\ SF_vars(Scheduled(link[c] = "down" /\ FlushEnds(c)))
          /\ SF_vars(Scheduled(Supervise(c)))

Spec == Init /\ [][Next]_vars
FairSpec == Spec /\ Fairness

------------------------------------------------------------------------------
Calls == [kind : RequestKinds, tok : Tokens, topics : SUBSET Topics, valid : BOOLEAN]

TypeOK ==
    /\ StateTypeOK
    /\ BrokerTypeOK
    /\ pc \in {"idle", "transport", "connack", "spawned", "get_id", "send", "blocked", "add_subs"}
    /\ call \in Calls \cup {NoCall}
    /\ connect_token \in [complete : BOOLEAN, failed : BOOLEAN, session_present : BOOLEAN]
    /\ notify \in BOOLEAN
    /\ bpc \in {"none", "select", "connect", "resub"}
    /\ cnt \in 0 .. CNT_MAX
    /\ todo \in SUBSET Topics

(***************************************************************************)
(* At most one connection has tasks: that of `self.state`.  None has while *)
(* connect() is negotiating another one, or the status is Disconnected,    *)
(* although the tasks set the status on their own.                         *)
(***************************************************************************)
OneLiveConnection ==
    \A c \in Conns :
        /\ read_task[c] = "run" \/ write_task[c] = "run" => supervisor[c] = "run"
        /\ supervisor[c] = "run" =>
              /\ c = cur
              /\ connect_status # "Disconnected"
              /\ pc \notin {"transport", "connack"}

\* The packets of connection c that carry an identifier and are still to be
\* written, answered or read.
InFlight(c) ==
    {RequestPacket(outgoing[c][k]) : k \in {k \in 1 .. Len(outgoing[c]) :
                                                token[outgoing[c][k]].kind \in AckedKinds}}
    \cup {msg[c][k] : k \in 1 .. Len(msg[c])}
    \cup {inbox[c][k] : k \in 1 .. Len(inbox[c])}
    \cup {p \in wire[c] : p.type # "Disconnect"}

(***************************************************************************)
(* While a connection lives, every packet in flight on it carries an       *)
(* identifier that is registered for its own request, not yet complete: an *)
(* acknowledgement can only complete the request it answers.  A request    *)
(* whose write failed is the exception: its token has the error already.   *)
(***************************************************************************)
AckMatchesToken ==
    \A c \in Conns : supervisor[c] = "run" =>
        \A p \in InFlight(c) :
            /\ p.id \in Ids
            /\ index[c][p.id] = p.tok
            /\ token[p.tok].complete => token[p.tok].error = "IOError"

(***************************************************************************)
(* No request is forgotten: a token with an identifier that is not         *)
(* complete is in the table of the live connection, whose end will fail    *)
(* it, or its call is about to send: on a dead connection that fails.      *)
(***************************************************************************)
NoLostToken ==
    \A t \in Tokens :
        token[t].id # 0 /\ ~token[t].complete =>
            /\ cur # 0
            /\ index[cur][token[t].id] = t
            /\ \/ supervisor[cur] = "run"
               \/ pc = "send" /\ call.tok = t

(***************************************************************************)
(* A request that completes without an error has been acted upon by the    *)
(* server.  With a resumed session a QoS 2 publish whose identifier is     *)
(* that of an abandoned one is excepted.                                   *)
(***************************************************************************)
SuccessIsReal ==
    \A t \in Tokens :
        /\ Succeeded(t)
        /\ token[t].kind \in AckedKinds
        /\ token[t].kind = "Publish2" => CleanSession
        => t \in handled

(***************************************************************************)
(* Once a request has succeeded no later event of any connection turns its *)
(* token into a failed one.  The one exception: its own send is still in   *)
(* progress, on a transport whose flush can fail after the answer.         *)
(***************************************************************************)
SuccessIsFinal ==
    [][\A t \in Tokens : Succeeded(t) /\ token[t].id # 0 /\ token'[t].id = token[t].id
            => \/ token'[t].error = "None"
               \/ LateFlush /\ \E c \in Conns : flushing[c] = t /\ c = cur]_vars

(***************************************************************************)
(* Every filter with a handler is in the map the next reconnection reads   *)
(* the filters to subscribe again from, across any number of States.       *)
(***************************************************************************)
HandlersRemembered == topic_manager \subseteq subscriptions[cur]

(***************************************************************************)
(* block() leaves no handler behind that the server sends nothing to: on a *)
(* live connection every filter with a handler is subscribed at the        *)
(* server, or being unsubscribed.  For clean sessions re-established by    *)
(* block() only: connect() called by hand does not subscribe again.        *)
(***************************************************************************)
HandlersAreFed ==
    cur # 0 /\ pc # "spawned" /\ bpc # "connect" =>
        (supervisor[cur] = "run" =>
            \A x \in topic_manager :
                \/ x \in subs
                \/ \E t \in Registered(index[cur]) :
                      token[t].kind = "Unsubscribe" /\ x \in token[t].topics)

(***************************************************************************)
(* A SUBACK finds the subscriptions attached to its token, though they are *)
(* added after the packet was sent.  The one exception: a multi-threaded   *)
(* runtime in which the call that sent it has yet to add them.             *)
(***************************************************************************)
HandlersAttachedBeforeAck ==
    \A c \in Conns : \A k \in 1 .. Len(inbox[c]) :
        LET p == inbox[c][k]
        IN  p.type = "Suback" =>
                \/ token[p.tok].subs = token[p.tok].topics
                \/ MultiThread /\ pc = "add_subs" /\ call.tok = p.tok

\* The status is Connected and nobody is left to reset it.
StaleStatus == connect_status = "Connected" /\ ~(cur # 0 /\ supervisor[cur] = "run")

(***************************************************************************)
(* The status is Connected only while a supervisor is there to reset it.   *)
(* The one step that can break this is the end of a connect() in a         *)
(* multi-threaded runtime, when the tasks it spawned have ended meanwhile. *)
(***************************************************************************)
ConnectedIsSupervised ==
    [][StaleStatus' => \/ StaleStatus
                       \/ MultiThread /\ pc = "spawned" /\ supervisor[cur] = "done"]_vars

(***************************************************************************)
(* The permit block() gives itself is used for the loss it was given for:  *)
(* it never survives to reconnect a client that is connected, or that the  *)
(* user has disconnected.                                                  *)
(***************************************************************************)
PermitIsCurrent ==
    notify => bpc = "select" /\ connect_status = "Disconnected" /\ ~manual_disconnect

(***************************************************************************)
(* When block() logs "resubscribe topic {} success." the filter has its    *)
(* handler again.  It does not hold: the token of a subscription that the  *)
(* server refused resolves without an error.                               *)
(***************************************************************************)
ResubscribeSuccess ==
    bpc = "resub" /\ pc = "idle" /\ call # NoCall =>
        (Succeeded(call.tok) => call.topics \subseteq topic_manager)

(***************************************************************************)
(* When the link of a connection is lost, every request made on it         *)
(* resolves, whatever its tasks were doing and were waiting for.           *)
(***************************************************************************)
LostRequestsResolve ==
    \A t \in Tokens :
        (token[t].id # 0 /\ ~token[t].complete /\ cur # 0 /\ link[cur] = "down")
            ~> token[t].complete

(***************************************************************************)
(* In a current_thread runtime a lost link is noticed: the status does not *)
(* stay Connected.                                                         *)
(***************************************************************************)
DeadConnectionNoticed ==
    (cur # 0 /\ link[cur] = "down") ~> (connect_status # "Connected")

(***************************************************************************)
(* block() never sits on a lost connection: it tries another one, or       *)
(* returns.                                                                *)
(***************************************************************************)
BlockReacts ==
    (bpc = "select" /\ connect_status = "Disconnected" /\ ~manual_disconnect)
        ~> (pc = "transport" \/ bpc = "none")
==============================================================================
