--------------------------- MODULE KeepAliveProofs ---------------------------
(* Types, and the bound on the client's silence, for every interval, flush and channel. *)
EXTENDS KeepAlive, TLAPS

(***************************************************************************)
(* The variables of KeepAlive keep their types: the clocks stay in their   *)
(* ranges and the channel within its capacity.                             *)
(***************************************************************************)
THEOREM TypeCorrect == Spec => []TypeOK
<1>1. Init => TypeOK
  <2>1. Init => silence \in 0 .. D + F + 1 /\ {timer, age} \subseteq 0 .. D
                /\ outgoing \in 0 .. Cap /\ flush \in 0 .. F
    BY KeepAliveAssumption DEF KeepAliveAssumption, Init
  <2> QED
    BY <2>1, Zenon DEF Init, TypeOK
<1>2. TypeOK /\ [Next]_vars => TypeOK'
  <2> SUFFICES ASSUME TypeOK, [Next]_vars
               PROVE  TypeOK'
    OBVIOUS
  <2> USE KeepAliveAssumption DEF KeepAliveAssumption, TypeOK
  <2>1. CASE KeepAliveLoop
    BY <2>1 DEF KeepAliveLoop, KeepAliveExit, Elapsed, NotElapsed, SendPing, SendPingFails, WakeUp
  <2>2. CASE Request
    BY <2>2 DEF Request
  <2>3. CASE OtherLoops
    <3>1. CASE WriteOutgoing
      BY <3>1 DEF WriteOutgoing, Begin
    <3>2. CASE WriteResponse
      BY <3>2 DEF WriteResponse, Begin
    <3>3. CASE Sent \/ WriteFails \/ WriteEnds
      BY <3>3 DEF Sent, WriteFails, WriteEnds
    <3>4. CASE ReadFails \/ Supervise
      BY <3>4 DEF ReadFails, Supervise
    <3> QED
      BY <2>3, <3>1, <3>2, <3>3, <3>4 DEF OtherLoops
  <2>4. CASE ReadEnds \/ LinkBreaks \/ PeerVanishes \/ Acknowledged \/ KernelGivesUp
    <3>1. CASE ReadEnds
      BY <3>1 DEF ReadEnds
    <3>2. CASE LinkBreaks \/ PeerVanishes
      BY <3>2 DEF LinkBreaks, PeerVanishes, taskVars
    <3>3. CASE Acknowledged \/ KernelGivesUp
      BY <3>3 DEF Acknowledged, KernelGivesUp, taskVars
    <3> QED
      BY <2>4, <3>1, <3>2, <3>3
  <2>5. CASE Tick
    BY <2>5 DEF Tick, Urgent, Least
  <2>6. CASE UNCHANGED vars
    BY <2>6 DEF vars, taskVars
  <2> QED
    BY <2>1, <2>2, <2>3, <2>4, <2>5, <2>6 DEF Next
<1> QED
  BY <1>1, <1>2, PTL DEF Spec

\* The connection lives: both loops run, or the write loop is about to learn
\* that the read loop has ended.
Alive == link = "up" /\ writer # "done"

\* A flush began when its bytes were given to the link.
FlushIsYoung == writer = "busy" => silence <= flush

\* Between two packets the clock of keep_alive lags by one flush at most.
ClockIsFresh == writer = "idle" => silence <= age + F \/ age = D

\* keep_alive wakes up in time, unless a packet is on its way.
WakesInTime == (ka = "sleep" /\ writer = "idle" /\ outgoing = 0) => silence + timer <= D + F

\* keep_alive ends only after its connection.
ExitIsLate == (exit \/ ka = "ended") => writer = "done"

IInv ==
    /\ Alive => SilenceBounded /\ FlushIsYoung /\ ClockIsFresh /\ WakesInTime
    /\ ExitIsLate

LEMMA InitInv == Init => IInv
  BY KeepAliveAssumption
  DEF KeepAliveAssumption, Init, IInv, Alive, SilenceBounded, FlushIsYoung, ClockIsFresh, WakesInTime, ExitIsLate

\* Time passes only while the writer flushes, or while keep_alive sleeps and
\* nothing else is due.
LEMMA TickInv ==
  ASSUME TypeOK, IInv, Tick
  PROVE  IInv'
<1> USE KeepAliveAssumption DEF KeepAliveAssumption, TypeOK, Tick, Least
<1>1. ExitIsLate'
  BY DEF IInv, ExitIsLate
<1>2. ASSUME Alive'
      PROVE  (SilenceBounded /\ FlushIsYoung /\ ClockIsFresh /\ WakesInTime)'
  <2> USE DEF SilenceBounded, FlushIsYoung, ClockIsFresh, WakesInTime
  <2>1. Alive
    BY <1>2 DEF Alive
  <2>2. CASE writer = "busy"
    <3>1. flush < F
      BY <2>1, <2>2 DEF Alive, Urgent
    <3> QED
      BY <2>1, <2>2, <3>1 DEF IInv, Alive
  <2>3. CASE writer = "idle"
    <3>1. outgoing = 0 /\ ka = "sleep" /\ timer > 0
      BY <2>1, <2>3 DEF Alive, Urgent, IInv, ExitIsLate
    <3> QED
      BY <2>1, <2>3, <3>1 DEF IInv, Alive
  <2> QED
    BY <2>1, <2>2, <2>3 DEF Alive
<1> QED
  BY <1>1, <1>2 DEF IInv

LEMMA StepInv == TypeOK /\ IInv /\ [Next]_vars => IInv'
<1> SUFFICES ASSUME TypeOK, IInv, [Next]_vars
             PROVE  IInv'
  OBVIOUS
<1> USE KeepAliveAssumption DEF KeepAliveAssumption, TypeOK, IInv, Alive, SilenceBounded, FlushIsYoung,
                                ClockIsFresh, WakesInTime, ExitIsLate
<1>1. CASE KeepAliveExit \/ Elapsed \/ WakeUp
  BY <1>1 DEF KeepAliveExit, Elapsed, WakeUp
<1>2. CASE NotElapsed
  BY <1>2 DEF NotElapsed
<1>3. CASE SendPing \/ SendPingFails
  BY <1>3 DEF SendPing, SendPingFails
<1>4. CASE Request
  BY <1>4 DEF Request
<1>5. CASE WriteOutgoing \/ WriteResponse
  BY <1>5 DEF WriteOutgoing, WriteResponse, Begin
<1>6. CASE Sent
  BY <1>6 DEF Sent
<1>7. CASE WriteFails \/ WriteEnds \/ ReadFails \/ Supervise
  BY <1>7 DEF WriteFails, WriteEnds, ReadFails, Supervise
<1>8. CASE ReadEnds \/ LinkBreaks \/ PeerVanishes \/ Acknowledged \/ KernelGivesUp
  BY <1>8 DEF ReadEnds, LinkBreaks, PeerVanishes, Acknowledged, KernelGivesUp, taskVars
<1>9. CASE Tick
  BY <1>9, TickInv
<1>10. CASE UNCHANGED vars
  BY <1>10 DEF vars, taskVars
<1> QED
  BY <1>1, <1>2, <1>3, <1>4, <1>5, <1>6, <1>7, <1>8, <1>9, <1>10
  DEF Next, KeepAliveLoop, OtherLoops

(***************************************************************************)
(* While the connection lives the server waits for a packet no longer than *)
(* the keep-alive interval and one flush, whatever the application and the *)
(* read loop write in between and however full the channel is.             *)
(***************************************************************************)
THEOREM SilenceIsBounded == Spec => []SilenceBounded
<1>1. IInv => SilenceBounded
  BY DEF IInv, Alive, SilenceBounded
<1> QED
  BY InitInv, StepInv, TypeCorrect, <1>1, PTL DEF Spec
==============================================================================
