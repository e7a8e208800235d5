-------------------------------- MODULE Broker --------------------------------
(***************************************************************************)
(* The server and the network, as src/ uses them: not part of the          *)
(* repository.  A conforming MQTT 3.1.1 server that may answer requests in *)
(* any order; what it sends arrives in order.  The link can break at any   *)
(* moment, losing what is on its way to the server and possibly what is on *)
(* its way back.                                                           *)
(***************************************************************************)
EXTENDS ClientState

CONSTANT CleanSession      \* options.clean_session

ASSUME BrokerAssumption == CleanSession \in BOOLEAN

VARIABLES
    session,    \* the server keeps a session for this client
    subs,       \* the filters of that session
    received,   \* its QoS 2 identifiers between PUBREC and PUBREL
    handled     \* ghost: requests the server acted upon

brokerVars == <<session, subs, received, handled>>

BrokerInit ==
    /\ session = FALSE
    /\ subs = {}
    /\ received = {}
    /\ handled = {}

\* A CONNECT the server accepts, on connection c (0: one the client gave up):
\* whether it resumes a session, and what is left of it.  It drops the older
\* connections of this client.
Accept(c, present) ==
    /\ present => session /\ ~CleanSession
    /\ link' = [d \in Conns |-> IF d = c THEN "up" ELSE IF link[d] = "up" THEN "down" ELSE link[d]]
    /\ wire' = [d \in Conns |-> {}]
    /\ session' = ~CleanSession
    /\ subs' = IF present THEN subs ELSE {}
    /\ received' = IF present THEN received ELSE {}
    /\ UNCHANGED handled

\* Take p off the wire of c; the answer is of the given type and grants some filters.
Answer(c, p, type, granted) ==
    /\ wire' = [wire EXCEPT ![c] = @ \ {p}]
    /\ inbox' = [inbox EXCEPT ![c] =
                    IF read_task[c] = "run"
                    THEN Append(@, [p EXCEPT !.type = type, !.granted = granted]) ELSE @]
    /\ UNCHANGED link

Serve(c, p) ==
    \/ /\ p.type = "Publish1"
       /\ Answer(c, p, "Puback", {})
       /\ handled' = handled \cup {p.tok}
       /\ UNCHANGED <<session, subs, received>>
    \/ /\ p.type = "Publish2"
       /\ Answer(c, p, "Pubrec", {})
       /\ handled' = IF p.id \in received THEN handled ELSE handled \cup {p.tok}
       /\ received' = received \cup {p.id}
       /\ UNCHANGED <<session, subs>>
    \/ /\ p.type = "Pubrel"
       /\ Answer(c, p, "Pubcomp", {})
       /\ received' = received \ {p.id}
       /\ UNCHANGED <<session, subs, handled>>
    \/ /\ p.type = "Subscribe"
       /\ \E granted \in SUBSET token[p.tok].topics :
             /\ Answer(c, p, "Suback", granted)
             /\ subs' = subs \cup granted
       /\ handled' = handled \cup {p.tok}
       /\ UNCHANGED <<session, received>>
    \/ /\ p.type = "Unsubscribe"
       /\ Answer(c, p, "Unsuback", {})
       /\ subs' = subs \ token[p.tok].topics
       /\ handled' = handled \cup {p.tok}
       /\ UNCHANGED <<session, received>>
    \/ /\ p.type = "Disconnect"
       /\ link' = [link EXCEPT ![c] = "down"]
       /\ wire' = [wire EXCEPT ![c] = {}]
       /\ UNCHANGED <<session, subs, received, handled, inbox>>

\* What the client has not received yet is lost, or will still be read.
LinkBreaks(c) ==
    /\ link[c] = "up"
    /\ link' = [link EXCEPT ![c] = "down"]
    /\ wire' = [wire EXCEPT ![c] = {}]
    /\ inbox' = inbox \/ inbox' = [inbox EXCEPT ![c] = <<>>]
    /\ UNCHANGED brokerVars

\* A restart, or an expired session.
SessionLost ==
    /\ session
    /\ \A c \in Conns : link[c] # "up"
    /\ session' = FALSE
    /\ subs' = {}
    /\ received' = {}
    /\ UNCHANGED <<handled, netVars>>

Environment ==
    /\ \/ \E c \in Conns : \E p \in wire[c] : link[c] = "up" /\ Serve(c, p)
       \/ \E c \in Conns : LinkBreaks(c)
       \/ SessionLost
    /\ UNCHANGED <<clientVars, token, idVars, handlerVars, channelVars, taskVars>>

BrokerTypeOK ==
    /\ session \in BOOLEAN
    /\ subs \in SUBSET Topics
    /\ received \in SUBSET (0 .. PKID_MAX)
    /\ handled \in SUBSET Tokens
==============================================================================
