--------------------------------- MODULE Net ---------------------------------
(***************************************************************************)
(* The two tasks of a connection, read_from_server and write_to_server of  *)
(* src/net.rs, with the handlers of the packets that acknowledge requests, *)
(* and the task that joins them (spawned in connect, src/client.rs).       *)
(*                                                                         *)
(* A handler runs under the packet_ids lock from the lookup to the free,   *)
(* so each is one step.  A turn of the write loop is one step too, except  *)
(* that the send of a request is two, because its outcome resolves the     *)
(* token and the answer may come first.  select! picks either channel when *)
(* both have something.                                                    *)
(***************************************************************************)
EXTENDS ClientState

Reading(c) == read_task[c] = "run"

\* The write task is at its select!.
Writing(c) == write_task[c] = "run" /\ flushing[c] = NoToken

\* The reader takes the next packet, of the given type.
Receive(c, type) ==
    /\ Reading(c)
    /\ inbox[c] # <<>>
    /\ Head(inbox[c]).type = type

\* The rest of what the connection received is never read.
ReaderDone(c) ==
    /\ read_task' = [read_task EXCEPT ![c] = "done"]
    /\ inbox' = [inbox EXCEPT ![c] = <<>>]

\* The receivers are dropped, with everything still queued.
WriterDone(c) ==
    /\ write_task' = [write_task EXCEPT ![c] = "done"]
    /\ outgoing' = [outgoing EXCEPT ![c] = <<>>]
    /\ msg' = [msg EXCEPT ![c] = <<>>]
    /\ flushing' = [flushing EXCEPT ![c] = NoToken]

Consume(c) == inbox' = [inbox EXCEPT ![c] = Tail(@)]

------------------------------------------------------------------------------
(* read_from_server *)

\* Mutant: the identifier stays taken once its token is complete.
HandlePuback_NoFree(c) ==
    LET t == index[c][Head(inbox[c]).id]
    IN  /\ Receive(c, "Puback")
        /\ Consume(c)
        /\ token' = IF t = NoToken THEN token ELSE [token EXCEPT ![t] = FlowComplete(@)]
        /\ UNCHANGED <<clientVars, idVars, handlerVars, channelVars, taskVars, link, wire>>

HandlePuback(c) ==
    /\ Receive(c, "Puback")
    /\ Consume(c)
    /\ CompleteAndFree(c, Head(inbox[c]).id)
    /\ UNCHANGED <<clientVars, last_issued_id, handlerVars, channelVars, taskVars, link, wire>>

HandlePubcomp(c) ==
    /\ Receive(c, "Pubcomp")
    /\ Consume(c)
    /\ CompleteAndFree(c, Head(inbox[c]).id)
    /\ UNCHANGED <<clientVars, last_issued_id, handlerVars, channelVars, taskVars, link, wire>>

\* Mutant: PUBREC ends the flow as PUBACK does.
HandlePubrec_Completes(c) ==
    /\ Receive(c, "Pubrec")
    /\ Open(c)
    /\ Len(msg[c]) < MSG_CAP
    /\ Consume(c)
    /\ msg' = [msg EXCEPT ![c] = Append(@, [Head(inbox[c]) EXCEPT !.type = "Pubrel"])]
    /\ CompleteAndFree(c, Head(inbox[c]).id)
    /\ UNCHANGED <<clientVars, last_issued_id, handlerVars, outgoing, flushing, taskVars, link, wire>>

\* The response goes through the msg channel; the reader waits for room in it,
\* and gives up when the writer is gone.
HandlePubrec(c) ==
    /\ Receive(c, "Pubrec")
    /\ \/ /\ Open(c)
          /\ Len(msg[c]) < MSG_CAP
          /\ Consume(c)
          /\ msg' = [msg EXCEPT ![c] = Append(@, [Head(inbox[c]) EXCEPT !.type = "Pubrel"])]
          /\ UNCHANGED read_task
       \/ /\ ~Open(c)
          /\ ReaderDone(c)
          /\ UNCHANGED msg
    /\ UNCHANGED <<clientVars, token, idVars, handlerVars, outgoing, flushing, write_task, supervisor,
                   link, wire>>

\* Mutant: the return codes are not looked at.
HandleSuback_IgnoresCodes(c) ==
    LET p == Head(inbox[c])
        t == index[c][p.id]
    IN  /\ Receive(c, "Suback")
        /\ Consume(c)
        /\ t # NoToken
        /\ topic_manager' = topic_manager \cup token[t].subs
        /\ subscriptions' = [subscriptions EXCEPT ![c] = @ \cup token[t].subs]
        /\ CompleteAndFree(c, p.id)
        /\ UNCHANGED <<clientVars, last_issued_id, channelVars, taskVars, link, wire>>

\* Only the filters the server granted and the token already lists get a handler.
HandleSuback(c) ==
    LET p == Head(inbox[c])
        t == index[c][p.id]
    IN  /\ Receive(c, "Suback")
        /\ Consume(c)
        /\ IF t = NoToken \/ token[t].kind # "Subscribe"
           THEN UNCHANGED <<handlerVars, token, index>>
           ELSE /\ topic_manager' = topic_manager \cup (p.granted \cap token[t].subs)
                /\ subscriptions' =
                       [subscriptions EXCEPT ![c] = @ \cup (p.granted \cap token[t].subs)]
                /\ CompleteAndFree(c, p.id)
        /\ UNCHANGED <<clientVars, last_issued_id, channelVars, taskVars, link, wire>>

\* The filter stays in `subscriptions`: only its handlers go.
HandleUnsuback(c) ==
    LET p == Head(inbox[c])
        t == index[c][p.id]
    IN  /\ Receive(c, "Unsuback")
        /\ Consume(c)
        /\ IF t = NoToken \/ token[t].kind # "Unsubscribe"
           THEN UNCHANGED <<topic_manager, token, index>>
           ELSE /\ topic_manager' = topic_manager \ token[t].topics
                /\ CompleteAndFree(c, p.id)
        /\ UNCHANGED <<clientVars, last_issued_id, subscriptions, channelVars, taskVars, link, wire>>

\* The reader has a PUBREC to answer and is suspended in msg_tx.send: only the
\* writer, with room in the channel or by dropping it, lets it go on.
ReaderWaits(c) ==
    /\ Receive(c, "Pubrec")
    /\ Open(c)
    /\ Len(msg[c]) >= MSG_CAP

\* End of stream or a read error once the link is down; a DISCONNECT, an
\* unsupported or an undecodable packet at any time.  A reader that waits for
\* room in the channel sees none of them.
ReadBreak(c) ==
    /\ Reading(c)
    /\ ~ReaderWaits(c)
    /\ ReaderDone(c)
    /\ UNCHANGED <<clientVars, token, idVars, handlerVars, channelVars, write_task, supervisor, link, wire>>

ReadHandler(c) ==
    \/ HandlePuback(c)
    \/ HandlePubcomp(c)
    \/ HandlePubrec(c)
    \/ HandleSuback(c)
    \/ HandleUnsuback(c)

------------------------------------------------------------------------------
(* write_to_server *)

\* A packet put on a broken link is accepted by the socket and lost.  A QoS 0
\* publish is answered by nobody, so the model forgets it once it is written.
Transmit(c, p) ==
    wire' = IF link[c] = "up" /\ p.type # "Publish0" THEN [wire EXCEPT ![c] = @ \cup {p}] ELSE wire

WriteMsg(c) ==
    /\ Writing(c)
    /\ msg[c] # <<>>
    /\ msg' = [msg EXCEPT ![c] = Tail(@)]
    /\ Transmit(c, Head(msg[c]))
    /\ UNCHANGED <<clientVars, token, idVars, handlerVars, outgoing, flushing, taskVars, link, inbox>>

WriteMsgFails(c) ==
    /\ Writing(c)
    /\ msg[c] # <<>>
    /\ (LateFlush /\ Transmit(c, Head(msg[c]))) \/ UNCHANGED wire
    /\ WriterDone(c)
    /\ UNCHANGED <<clientVars, token, idVars, handlerVars, read_task, supervisor, link, inbox>>

\* The send of the next request, until the server can have it.
WriteOutgoing(c) ==
    /\ Writing(c)
    /\ outgoing[c] # <<>>
    /\ Transmit(c, RequestPacket(Head(outgoing[c])))
    /\ flushing' = [flushing EXCEPT ![c] = Head(outgoing[c])]
    /\ outgoing' = [outgoing EXCEPT ![c] = Tail(@)]
    /\ UNCHANGED <<clientVars, token, idVars, handlerVars, msg, taskVars, link, inbox>>

\* Mutant: every request is complete once it is written.
OutgoingWritten_CompletesAll(c) ==
    /\ write_task[c] = "run"
    /\ flushing[c] # NoToken
    /\ token' = [token EXCEPT ![flushing[c]] = FlowComplete(@)]
    /\ flushing' = [flushing EXCEPT ![c] = NoToken]
    /\ UNCHANGED <<clientVars, idVars, handlerVars, outgoing, msg, taskVars, netVars>>

\* QoS 0 publishes and DISCONNECT have no acknowledgement: written is complete.
OutgoingWritten(c) ==
    /\ write_task[c] = "run"
    /\ flushing[c] # NoToken
    /\ token' = IF token[flushing[c]].kind \in {"Publish0", "Disconnect"}
                THEN [token EXCEPT ![flushing[c]] = FlowComplete(@)] ELSE token
    /\ flushing' = [flushing EXCEPT ![c] = NoToken]
    /\ UNCHANGED <<clientVars, idVars, handlerVars, outgoing, msg, taskVars, netVars>>

\* The packet does not reach the server.
WriteOutgoingFails(c) ==
    /\ Writing(c)
    /\ outgoing[c] # <<>>
    /\ token' = [token EXCEPT ![Head(outgoing[c])] = SetError(@, "IOError")]
    /\ WriterDone(c)
    /\ UNCHANGED <<clientVars, idVars, handlerVars, read_task, supervisor, netVars>>

\* The server can have it, and can have answered.
FlushFails(c) ==
    /\ LateFlush
    /\ write_task[c] = "run"
    /\ flushing[c] # NoToken
    /\ token' = [token EXCEPT ![flushing[c]] = SetError(@, "IOError")]
    /\ WriterDone(c)
    /\ UNCHANGED <<clientVars, idVars, handlerVars, read_task, supervisor, netVars>>

\* Mutant: a closed msg channel does not end the loop.
WriterExits_Ignores(c) ==
    /\ Writing(c)
    /\ read_task[c] = "done"
    /\ msg[c] = <<>>
    /\ UNCHANGED <<clientVars, token, idVars, handlerVars, channelVars, taskVars, netVars>>

\* The reader dropped its end of the msg channel, and it is drained.
WriterExits(c) ==
    /\ Writing(c)
    /\ read_task[c] = "done"
    /\ msg[c] = <<>>
    /\ WriterDone(c)
    /\ UNCHANGED <<clientVars, token, idVars, handlerVars, read_task, supervisor, link, wire, inbox>>

\* The two arms of the select!, and the rest of a send.
MsgArm(c) == WriteMsg(c) \/ WriteMsgFails(c) \/ WriterExits(c)
OutgoingArm(c) == WriteOutgoing(c) \/ WriteOutgoingFails(c)
FlushEnds(c) == OutgoingWritten(c) \/ FlushFails(c)

------------------------------------------------------------------------------
(* The task connect() spawns: try_join! of the two loops, then the clean-up, *)
(* with the connect_status lock held over all of it.                         *)

\* Mutant: the first task to end is enough.
Supervise_EitherDone(c) ==
    /\ supervisor[c] = "run"
    /\ read_task[c] = "done" \/ write_task[c] = "done"
    /\ supervisor' = [supervisor EXCEPT ![c] = "done"]
    /\ connect_status' = "Disconnected"
    /\ CleanUp(c)
    /\ UNCHANGED <<manual_disconnect, cur, last_issued_id, handlerVars, channelVars,
                   read_task, write_task, netVars>>

\* Mutant: the table is emptied without failing the tokens in it.
Supervise_NoErrors(c) ==
    /\ supervisor[c] = "run"
    /\ read_task[c] = "done" /\ write_task[c] = "done"
    /\ supervisor' = [supervisor EXCEPT ![c] = "done"]
    /\ connect_status' = "Disconnected"
    /\ index' = [index EXCEPT ![c] = EmptyIndex]
    /\ UNCHANGED <<manual_disconnect, cur, token, last_issued_id, handlerVars, channelVars,
                   read_task, write_task, netVars>>

\* Mutant: the status is left to the next connect().
Supervise_KeepsStatus(c) ==
    /\ supervisor[c] = "run"
    /\ read_task[c] = "done" /\ write_task[c] = "done"
    /\ supervisor' = [supervisor EXCEPT ![c] = "done"]
    /\ CleanUp(c)
    /\ UNCHANGED <<connect_status, manual_disconnect, cur, last_issued_id, handlerVars, channelVars,
                   read_task, write_task, netVars>>

Supervise(c) ==
    /\ supervisor[c] = "run"
    /\ read_task[c] = "done" /\ write_task[c] = "done"
    /\ supervisor' = [supervisor EXCEPT ![c] = "done"]
    /\ connect_status' = "Disconnected"
    /\ CleanUp(c)
    /\ UNCHANGED <<manual_disconnect, cur, last_issued_id, handlerVars, channelVars,
                   read_task, write_task, netVars>>

\* Everything the tasks of connection c do.
Tasks(c) ==
    \/ ReadHandler(c)
    \/ ReadBreak(c)
    \/ MsgArm(c)
    \/ OutgoingArm(c)
    \/ FlushEnds(c)
    \/ Supervise(c)
==============================================================================
