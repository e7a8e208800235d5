----------------------------- MODULE WsByteStream -----------------------------
(***************************************************************************)
(* The adapter that makes a stream of bytes of a WebSocket (`WsByteStream` *)
(* of src/ws_stream.rs): bytes are read out of Binary messages, however    *)
(* the peer cut them, and every write becomes a Binary message.            *)
(*                                                                         *)
(* A poll function is one step.  `inner`, the WebSocket, is external:      *)
(* poll_next takes what has arrived, and what its sink answers is free.    *)
(* The n-th byte of the peer is the number n.  `at` is ghost: how much of  *)
(* the stream lies before a message.                                       *)
(***************************************************************************)
EXTENDS SequencesExt

CONSTANTS
    Sizes,          \* sizes of the peer's Binary messages; 0 is legal
    Rooms,          \* room in the buffer of a reader
    MaxItems,       \* bound: messages of the peer
    MaxWrites       \* bound: messages of the client

ASSUME WsAssumption ==
    /\ Sizes \subseteq Nat /\ Rooms \subseteq Nat \ {0}
    /\ MaxItems \in Nat /\ MaxWrites \in Nat

VARIABLES
    inq,        \* what inner will return, oldest first
    over,       \* nothing more will arrive
    read,       \* ReadState
    got, eof,   \* what the reader got last
    items,      \* messages of the peer so far
    written,    \* ghost: all that they carried
    write,      \* WriteState
    started,    \* messages started by poll_write
    answer,     \* what the last call of the writer returned
    shut        \* ghost: poll_shutdown was called

readVars == <<inq, over, read, got, eof, items, written>>
writeVars == <<write, started, answer, shut>>
vars == <<readVars, writeVars>>

Pending == [kind |-> "Pending"]
Ready(data, amt, at) == [kind |-> "Ready", data |-> data, amt_read |-> amt, at |-> at]
Terminated == [kind |-> "Terminated"]

Binary(data) == [type |-> "Binary", data |-> data, at |-> Len(written)]
Item(type) == [type |-> type, data |-> <<>>, at |-> Len(written)]
Errors == {"Io", "ConnectionClosed", "AlreadyClosed", "OtherError"}

Init ==
    /\ inq = <<>> /\ over = FALSE
    /\ read = Pending
    /\ got = <<>> /\ eof = FALSE
    /\ items = 0 /\ written = <<>>
    /\ write = "Ready" /\ started = 0 /\ answer = "none" /\ shut = FALSE

------------------------------------------------------------------------------
(* The peer. *)

Mark == 0
Count == Cardinality({k \in DOMAIN written : written[k] # Mark})

\* What a Binary message adds to the stream.
Carried(data) == IF data = <<>> THEN <<Mark>> ELSE data

Arrives(item) ==
    /\ ~over
    /\ items < MaxItems
    /\ items' = items + 1
    /\ inq' = Append(inq, item)
    /\ UNCHANGED <<read, got, eof, writeVars>>

BinaryArrives(size) ==
    LET data == [k \in 1 .. size |-> Count + k]
    IN  /\ Arrives(Binary(data))
        /\ written' = written \o Carried(data)
        /\ UNCHANGED over

\* Text, Ping, Pong.
OtherArrives ==
    /\ Arrives(Item("Other"))
    /\ UNCHANGED <<written, over>>

\* A Close message or an error: the WebSocket is fused after it.
LastArrives(type) ==
    /\ Arrives(Item(type))
    /\ over' = TRUE
    /\ UNCHANGED written

\* The WebSocket ends without a word.
EndArrives ==
    /\ ~over
    /\ over' = TRUE
    /\ UNCHANGED <<inq, read, got, eof, items, written, writeVars>>

------------------------------------------------------------------------------
(* Reading. *)

\* fill_buf_with_next_msg: what is left of inner, the ReadState it leaves, and
\* whether it returns an error or waits.
Fill ==
    LET kept == SelectInSeq(inq, LAMBDA item : item.type # "Other")
        item == inq[kept]
    IN  IF kept = 0
        THEN [inq |-> <<>>, read |-> IF over THEN Terminated ELSE Pending,
              err |-> FALSE, wait |-> ~over]
        ELSE [inq |-> SubSeq(inq, kept + 1, Len(inq)), wait |-> FALSE,
              err |-> item.type \in Errors \ {"ConnectionClosed"},
              read |-> IF item.type = "Binary" THEN Ready(item.data, 0, item.at)
                       ELSE IF item.type \in {"Io", "OtherError"} THEN Pending
                       ELSE Terminated]

\* The first turn of the loop in poll_read and poll_fill_buf.
Filled ==
    IF read = Pending THEN Fill
    ELSE [inq |-> inq, read |-> read, err |-> FALSE, wait |-> FALSE]

Least(a, b) == IF a <= b THEN a ELSE b

\* Mutant: a partial read forgets how much was read before.
Advanced_Reset(r, n) == IF n = Len(r.data) - r.amt_read THEN Pending ELSE Ready(r.data, n, r.at)

\* Mutant: a message that was read to its end stays.
Advanced_Stays(r, n) == Ready(r.data, r.amt_read + n, r.at)

\* The ReadState when n more bytes of r's message have been read.
Advanced(r, n) ==
    IF n = Len(r.data) - r.amt_read THEN Pending
    ELSE Ready(r.data, r.amt_read + n, r.at)

\* The reader waits or gets an error.
NothingRead ==
    /\ Filled.wait \/ Filled.err
    /\ inq' = Filled.inq
    /\ read' = Filled.read
    /\ UNCHANGED <<over, got, eof, items, written, writeVars>>

PollRead(room) ==
    LET r == Filled.read
        n == Least(room, Len(r.data) - r.amt_read)
    IN  /\ ~Filled.wait /\ ~Filled.err
        /\ inq' = Filled.inq
        /\ IF r = Terminated
           THEN read' = r /\ got' = <<>>
           ELSE /\ got' = SubSeq(r.data, r.amt_read + 1, r.amt_read + n)
                /\ read' = Advanced(r, n)
        /\ eof' = (got' = <<>>)
        /\ UNCHANGED <<over, items, written, writeVars>>

\* The slice it returns is read only when it is consumed; an empty one is the end.
PollFillBuf ==
    LET r == Filled.read
    IN  /\ ~Filled.wait /\ ~Filled.err
        /\ inq' = Filled.inq
        /\ read' = r
        /\ IF r = Terminated \/ r.data = <<>>
           THEN got' = <<>> /\ eof' = TRUE
           ELSE UNCHANGED <<got, eof>>
        /\ UNCHANGED <<over, items, written, writeVars>>

\* The caller consumes no more than it was lent, and not of an empty slice.
Consume(n) ==
    /\ read.kind = "Ready"
    /\ n <= Len(read.data) - read.amt_read
    /\ got' = SubSeq(read.data, read.amt_read + 1, read.amt_read + n)
    /\ eof' = FALSE
    /\ read' = Advanced(read, n)
    /\ UNCHANGED <<inq, over, items, written, writeVars>>

------------------------------------------------------------------------------
(* Writing. *)

\* What an error of inner makes of the WriteState and of the call.
Failed(error) ==
    /\ write' = IF error \in {"ConnectionClosed", "AlreadyClosed"} THEN "Closed" ELSE write
    /\ answer' = IF error = "ConnectionClosed" THEN "zero" ELSE "error"

\* poll_ready and start_send.
PollWrite ==
    /\ started < MaxWrites
    /\ IF write = "Closed" THEN answer' = "error" /\ UNCHANGED <<write, started>>
       ELSE \/ /\ started' = started + 1
               /\ answer' = "ok"
               /\ UNCHANGED write
            \/ /\ answer' = "wait"
               /\ UNCHANGED <<write, started>>
            \/ /\ \E error \in Errors : Failed(error)
               /\ UNCHANGED started
    /\ UNCHANGED <<readVars, shut>>

PollFlush ==
    /\ \/ answer' \in {"ok", "wait"} /\ UNCHANGED write
       \/ \E error \in Errors \ {"ConnectionClosed"} : Failed(error)
       \/ write' = "Closed" /\ answer' = "ok"
    /\ UNCHANGED <<readVars, started, shut>>

\* Mutant: the state changes when the close handshake is over.
PollShutdown_Late ==
    /\ shut' = TRUE
    /\ \/ answer' = "wait" /\ UNCHANGED write
       \/ answer' \in {"ok", "error"} /\ write' = "Closed"
    /\ UNCHANGED <<readVars, started>>

\* poll_close may have to wait for the peer; ConnectionClosed is not an error.
PollShutdown ==
    /\ shut' = TRUE
    /\ write' = "Closed"
    /\ answer' \in {"ok", "wait", "error"}
    /\ UNCHANGED <<readVars, started>>

Next ==
    \/ \E size \in Sizes : BinaryArrives(size)
    \/ OtherArrives
    \/ \E type \in Errors \cup {"Close"} : LastArrives(type)
    \/ EndArrives
    \/ NothingRead
    \/ \E room \in Rooms : PollRead(room)
    \/ PollFillBuf
    \/ \E n \in Rooms : Consume(n)
    \/ PollWrite
    \/ PollFlush
    \/ PollShutdown

Spec == Init /\ [][Next]_vars

------------------------------------------------------------------------------
Bytes == Seq(Nat \ {Mark})
Items == [type : Errors \cup {"Binary", "Other", "Close"}, data : Bytes, at : Nat]

TypeOK ==
    /\ inq \in Seq(Items)
    /\ over \in BOOLEAN /\ eof \in BOOLEAN /\ shut \in BOOLEAN
    /\ \/ read \in {Pending, Terminated}
       \/ /\ read \in [kind : {"Ready"}, data : Bytes, amt_read : Nat, at : Nat]
          /\ read.amt_read = 0 \/ read.amt_read < Len(read.data)
    /\ items \in 0 .. MaxItems
    /\ written \in Seq(Nat) /\ got \in Seq(Nat)
    /\ write \in {"Ready", "Closed"}
    /\ started \in 0 .. MaxWrites
    /\ answer \in {"none", "ok", "wait", "zero", "error"}

\* How much of the stream the reader has had: all that lies before the rest of
\* its message or, without one, before the next message.
Taken ==
    IF read.kind = "Ready" THEN read.at + read.amt_read
    ELSE IF inq = <<>> THEN Len(written)
    ELSE inq[1].at

(***************************************************************************)
(* The adapter implements a stream of bytes: nothing is lost, repeated or  *)
(* reordered, whatever the messages, the errors and the buffers, and the   *)
(* reader finds the end only at the end or at an empty message.            *)
(***************************************************************************)
Stream == INSTANCE ByteStream WITH taken <- Taken, closed <- over
RefinesByteStream == Stream!Spec

(***************************************************************************)
(* Once shut down, or known to be closed, the stream accepts nothing, also *)
(* while the close handshake still waits for the peer.                     *)
(***************************************************************************)
NothingAfterShutdown ==
    [][(shut \/ write = "Closed") => started' = started /\ write' = "Closed"]_vars
==============================================================================
