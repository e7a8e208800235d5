------------------------------ MODULE KeepAlive ------------------------------
(***************************************************************************)
(* The tasks of one connection in time: keep_alive of src/net.rs sleeps    *)
(* until nothing was written for the keep-alive interval and sends a       *)
(* PINGREQ through the outgoing channel; the write loop notes the time of  *)
(* every packet; the read loop finds out that the connection is over; the  *)
(* supervisor in connect() ends it.                                        *)
(*                                                                         *)
(* Time is discrete.  Clocks are kept as the ticks since an event and stop *)
(* growing where nothing tells their values apart.  A tick passes only     *)
(* when no task has anything to do at once (Urgent): the unit is long      *)
(* compared with the scheduling of a task.                                 *)
(***************************************************************************)
EXTENDS Naturals

CONSTANTS
    D,          \* the keep-alive interval; 0 would make the loop spin
    F,          \* ticks that a packet takes to be flushed while the link is up
    Cap         \* capacity of the outgoing channel: 8 in the code

ASSUME KeepAliveAssumption ==
    /\ D \in Nat \ {0}
    /\ F \in Nat
    /\ Cap \in Nat \ {0}

VARIABLES
    ka,         \* keep_alive: at its "check", in "send", in "sleep" or "ended"
    timer,      \* ticks that it has still to sleep
    age,        \* ticks since last_sent_packet_at, D at most
    outgoing,   \* number of packets in the outgoing channel
    writer,     \* the write loop: "idle", "busy" with a packet or "done"
    flush,      \* ticks that it has been busy, F at most
    reader,     \* the read loop: "running" or "done"
    status,     \* the shared connect_status
    exit,       \* the flag of keep_alive
    link,       \* "up", "gone": nobody answers any more, or "down"
    unacked,    \* the kernel waits for the peer to confirm bytes
    silence     \* ghost: ticks since a packet was given to the link

taskVars == <<ka, timer, age, outgoing, writer, flush, reader, status, exit>>
vars == <<taskVars, link, unacked, silence>>

Least(a, b) == IF a <= b THEN a ELSE b

\* The new State has just been made; the CONNECT was written up to F ticks ago.
\* connect() sets no limit to the wait for CONNACK in between: what is said
\* about the silence of the client holds from a CONNACK that came within F.
Init ==
    /\ ka = "check"
    /\ timer = 0
    /\ age = 0
    /\ outgoing = 0
    /\ writer = "idle"
    /\ flush = 0
    /\ reader = "running"
    /\ status = "Connected"
    /\ exit = FALSE
    /\ link = "up"
    /\ unacked = FALSE
    /\ silence \in 0 .. F

------------------------------------------------------------------------------
(* keep_alive *)

KeepAliveExit ==
    /\ ka = "check" /\ exit
    /\ ka' = "ended"
    /\ UNCHANGED <<timer, age, outgoing, writer, flush, reader, status, exit, link, unacked, silence>>

Elapsed ==
    /\ ka = "check" /\ ~exit
    /\ age >= D
    /\ ka' = "send"
    /\ UNCHANGED <<timer, age, outgoing, writer, flush, reader, status, exit, link, unacked, silence>>

\* Mutant: after a check that was too early it sleeps a whole interval.
NotElapsed_Whole ==
    /\ ka = "check" /\ ~exit
    /\ age < D
    /\ ka' = "sleep"
    /\ timer' = D
    /\ UNCHANGED <<age, outgoing, writer, flush, reader, status, exit, link, unacked, silence>>

NotElapsed ==
    /\ ka = "check" /\ ~exit
    /\ age < D
    /\ ka' = "sleep"
    /\ timer' = D - age
    /\ UNCHANGED <<age, outgoing, writer, flush, reader, status, exit, link, unacked, silence>>

\* Mutant: the PINGREQ is not put into the channel.
SendPing_Lost ==
    /\ ka = "send"
    /\ writer # "done" /\ outgoing < Cap
    /\ ka' = "sleep"
    /\ timer' = D
    /\ UNCHANGED <<age, outgoing, writer, flush, reader, status, exit, link, unacked, silence>>

\* Mutant: the PINGREQ is pushed whether there is room or not.
SendPing_NoWait ==
    /\ ka = "send"
    /\ writer # "done"
    /\ outgoing' = outgoing + 1
    /\ ka' = "sleep"
    /\ timer' = D
    /\ UNCHANGED <<age, writer, flush, reader, status, exit, link, unacked, silence>>

\* outgoing_tx.send(PINGREQ).await waits for room.
SendPing ==
    /\ ka = "send"
    /\ writer # "done" /\ outgoing < Cap
    /\ outgoing' = outgoing + 1
    /\ ka' = "sleep"
    /\ timer' = D
    /\ UNCHANGED <<age, writer, flush, reader, status, exit, link, unacked, silence>>

\* The write loop has dropped the receiver: the error is logged, no more.
SendPingFails ==
    /\ ka = "send"
    /\ writer = "done"
    /\ ka' = "sleep"
    /\ timer' = D
    /\ UNCHANGED <<age, outgoing, writer, flush, reader, status, exit, link, unacked, silence>>

WakeUp ==
    /\ ka = "sleep" /\ timer = 0
    /\ ka' = "check"
    /\ UNCHANGED <<timer, age, outgoing, writer, flush, reader, status, exit, link, unacked, silence>>

KeepAliveLoop ==
    \/ KeepAliveExit \/ Elapsed \/ NotElapsed
    \/ SendPing \/ SendPingFails \/ WakeUp

------------------------------------------------------------------------------
(* The other tasks of the connection. *)

\* A request of the application.
Request ==
    /\ writer # "done" /\ outgoing < Cap
    /\ outgoing' = outgoing + 1
    /\ UNCHANGED <<ka, timer, age, writer, flush, reader, status, exit, link, unacked, silence>>

\* writer.send(packet) begins: the bytes are handed to the link.
Begin ==
    /\ writer = "idle"
    /\ writer' = "busy"
    /\ flush' = 0
    /\ silence' = 0
    /\ unacked' = TRUE
    /\ UNCHANGED <<ka, timer, age, reader, status, exit, link>>

WriteOutgoing ==
    /\ outgoing > 0
    /\ outgoing' = outgoing - 1
    /\ Begin

\* A response of the read loop, which came through the msg channel.
WriteResponse ==
    /\ reader = "running"
    /\ Begin
    /\ UNCHANGED outgoing

\* last_sent_packet_at = Instant::now()
Sent ==
    /\ writer = "busy" /\ link # "down"
    /\ writer' = "idle"
    /\ age' = 0
    /\ UNCHANGED <<ka, timer, outgoing, flush, reader, status, exit, link, unacked, silence>>

\* Mutant: the packet that could not be written is skipped.
WriteFails_Skips ==
    /\ writer = "busy" /\ link = "down"
    /\ writer' = "idle"
    /\ outgoing' = 0
    /\ UNCHANGED <<ka, timer, age, flush, reader, status, exit, link, unacked, silence>>

\* The loop ends and drops what is left in the channel.
WriteFails ==
    /\ writer = "busy" /\ link = "down"
    /\ writer' = "done"
    /\ outgoing' = 0
    /\ UNCHANGED <<ka, timer, age, flush, reader, status, exit, link, unacked, silence>>

\* The read loop has dropped its end of the msg channel.
WriteEnds ==
    /\ writer = "idle" /\ reader = "done"
    /\ writer' = "done"
    /\ outgoing' = 0
    /\ UNCHANGED <<ka, timer, age, flush, reader, status, exit, link, unacked, silence>>

ReadFails ==
    /\ reader = "running" /\ link = "down"
    /\ reader' = "done"
    /\ UNCHANGED <<ka, timer, age, outgoing, writer, flush, status, exit, link, unacked, silence>>

\* A DISCONNECT or a packet that no server sends.
ReadEnds ==
    /\ reader = "running" /\ link = "up"
    /\ reader' = "done"
    /\ UNCHANGED <<ka, timer, age, outgoing, writer, flush, status, exit, link, unacked, silence>>

\* Mutant: nobody tells keep_alive.
Supervise_KeepsFlag ==
    /\ reader = "done" /\ writer = "done"
    /\ status = "Connected"
    /\ status' = "Disconnected"
    /\ UNCHANGED <<ka, timer, age, outgoing, writer, flush, reader, exit, link, unacked, silence>>

\* try_join!(read_task, write_task): neither returns an error, so it waits for both.
Supervise ==
    /\ reader = "done" /\ writer = "done"
    /\ status = "Connected"
    /\ status' = "Disconnected"
    /\ exit' = TRUE
    /\ UNCHANGED <<ka, timer, age, outgoing, writer, flush, reader, link, unacked, silence>>

OtherLoops ==
    \/ WriteOutgoing \/ WriteResponse \/ Sent \/ WriteFails \/ WriteEnds
    \/ ReadFails
    \/ Supervise

------------------------------------------------------------------------------
(* The link and the clock. *)

\* The server closes the connection.
LinkBreaks ==
    /\ link = "up"
    /\ link' = "down"
    /\ UNCHANGED <<taskVars, unacked, silence>>

\* The peer vanishes and nothing tells the client.
PeerVanishes ==
    /\ link = "up"
    /\ link' = "gone"
    /\ UNCHANGED <<taskVars, unacked, silence>>

Acknowledged ==
    /\ link = "up" /\ unacked
    /\ unacked' = FALSE
    /\ UNCHANGED <<taskVars, link, silence>>

\* The kernel has sent the same bytes again often enough.
KernelGivesUp ==
    /\ link = "gone" /\ unacked
    /\ link' = "down"
    /\ UNCHANGED <<taskVars, unacked, silence>>

\* A task has something to do at once.
Urgent ==
    \/ ka = "check"
    \/ ka = "send" /\ (writer = "done" \/ outgoing < Cap)
    \/ ka = "sleep" /\ timer = 0
    \/ writer = "idle" /\ (outgoing > 0 \/ reader = "done")
    \/ writer = "busy" /\ (link = "down" \/ (link = "up" /\ flush = F))
    \/ reader = "running" /\ link = "down"
    \/ reader = "done" /\ writer = "done" /\ status = "Connected"

Tick ==
    /\ ~Urgent
    /\ timer' = IF ka = "sleep" THEN timer - 1 ELSE timer
    /\ age' = Least(D, age + 1)
    /\ flush' = IF writer = "busy" THEN Least(F, flush + 1) ELSE flush
    /\ silence' = Least(D + F + 1, silence + 1)
    /\ UNCHANGED <<ka, outgoing, writer, reader, status, exit, link, unacked>>

Next ==
    \/ KeepAliveLoop
    \/ Request
    \/ OtherLoops
    \/ ReadEnds
    \/ LinkBreaks
    \/ PeerVanishes
    \/ Acknowledged
    \/ KernelGivesUp
    \/ Tick

Spec == Init /\ [][Next]_vars

\* Time passes, tokio runs each task that can go on (a response may never come
\* again, so WriteResponse owes nothing), the kernel gives up in the end.
FairSpec ==
    /\ Spec
    /\ WF_vars(Tick)
    /\ WF_vars(KeepAliveLoop)
    /\ WF_vars(WriteOutgoing) /\ WF_vars(Sent \/ WriteFails) /\ WF_vars(WriteEnds)
    /\ WF_vars(ReadFails)
    /\ WF_vars(Supervise)
    /\ WF_vars(KernelGivesUp)

------------------------------------------------------------------------------
TypeOK ==
    /\ ka \in {"check", "send", "sleep", "ended"}
    /\ timer \in 0 .. D
    /\ age \in 0 .. D
    /\ outgoing \in 0 .. Cap
    /\ writer \in {"idle", "busy", "done"}
    /\ flush \in 0 .. F
    /\ reader \in {"running", "done"}
    /\ status \in {"Connected", "Disconnected"}
    /\ exit \in BOOLEAN
    /\ link \in {"up", "gone", "down"}
    /\ unacked \in BOOLEAN
    /\ silence \in 0 .. D + F + 1

(***************************************************************************)
(* While the connection lives, the server waits at most the keep-alive     *)
(* interval and the time of one flush for a packet: a server that closes   *)
(* after one and a half intervals never does so when F is at most half of  *)
(* one.  The sleep of keep_alive is computed from a time that the write    *)
(* loop moves while keep_alive sleeps, and that it notes after the flush.  *)
(***************************************************************************)
SilenceBounded == (link = "up" /\ writer # "done") => silence <= D + F

(***************************************************************************)
(* A peer that vanished is noticed: keep_alive goes on writing, the kernel *)
(* gets no answer, both loops end and the status becomes Disconnected,     *)
(* for block() to connect again.                                           *)
(***************************************************************************)
DeadPeerNoticed == (link = "gone") ~> (status = "Disconnected")

(***************************************************************************)
(* keep_alive, which nobody joins, ends after its connection: it sees the  *)
(* flag at its next check, also when it was waiting for room in a channel  *)
(* that nobody reads any more.                                             *)
(***************************************************************************)
KeepAliveEnds == (status = "Disconnected") ~> (ka = "ended")
==============================================================================
