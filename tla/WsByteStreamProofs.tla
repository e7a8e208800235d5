-------------------------- MODULE WsByteStreamProofs --------------------------
(***************************************************************************)
(* Proofs about WsByteStream, for messages of every size, readers with     *)
(* every room and any number of messages: its types, that it implements    *)
(* ByteStream, and that it accepts nothing once it is shut down.           *)
(***************************************************************************)
EXTENDS WsByteStream, FiniteSetTheorems, SequenceTheorems, WellFoundedInduction, TLAPS

------------------------------------------------------------------------------
(* Where messages lie in the stream. *)

\* Where the k-th message of q begins; after the last one, where the next will.
Begin(q, k) == IF k <= Len(q) THEN q[k].at ELSE Len(written)

Size(item) == IF item.type = "Binary" THEN Len(Carried(item.data)) ELSE 0

\* What the data adds to the stream is found in it, after `at` others.
Holds(data, at) ==
    /\ at + Len(Carried(data)) <= Len(written)
    /\ \A i \in 1 .. Len(Carried(data)) : written[at + i] = Carried(data)[i]

\* The messages that wait lie one behind the other, to the end of the stream.
Chained(q) ==
    /\ \A k \in 1 .. Len(q) : Begin(q, k + 1) = q[k].at + Size(q[k])
    /\ \A k \in 1 .. Len(q) : q[k].type = "Binary" => Holds(q[k].data, q[k].at)

\* Messages that carry nothing take no place.
Skipped(q) ==
    \A i, j \in 1 .. Len(q) + 1 :
        i <= j /\ (\A k \in i .. j - 1 : q[k].type = "Other") => Begin(q, j) = Begin(q, i)

\* Nothing follows a Close message or an error.
Fused(q) ==
    \A k \in 1 .. Len(q) : q[k].type \in Errors \cup {"Close"} => k = Len(q) /\ over

\* The message being read lies before those that wait.
Before(q, r) ==
    /\ r.kind = "Ready" =>
           Holds(r.data, r.at) /\ Begin(q, 1) = r.at + Len(Carried(r.data))
    /\ r = Terminated => over /\ q = <<>>

Sound(q, r) == Chained(q) /\ Skipped(q) /\ Fused(q) /\ Before(q, r)

Inv ==
    /\ TypeOK
    /\ Sound(inq, read)
    /\ shut => write = "Closed"

------------------------------------------------------------------------------
(* What fill_buf_with_next_msg takes. *)

LEMMA LeastExists ==
    ASSUME NEW T \in SUBSET Nat, T # {}
    PROVE  Min(T) \in T /\ \A e \in T : Min(T) <= e
<1>1. PICK d \in T : \A e \in T : ~ (<<e, d>> \in OpToRel(<, Nat))
  BY NatLessThanWellFounded, WFMin
<1>2. \A e \in T : ~ (e < d)
  BY <1>1 DEF OpToRel
<1>3. \A e \in T : d <= e
  BY <1>2
<1>. QED  BY <1>3 DEF Min

\* The k-th message is the first that is more than a Text, a Ping or a Pong.
First(k) ==
    /\ k \in 1 .. Len(inq)
    /\ inq[k].type # "Other"
    /\ \A i \in 1 .. k - 1 : inq[i].type = "Other"

\* What Fill makes of the k-th message.
FillWith(k) ==
    [inq |-> SubSeq(inq, k + 1, Len(inq)), wait |-> FALSE,
     err |-> inq[k].type \in Errors \ {"ConnectionClosed"},
     read |-> IF inq[k].type = "Binary" THEN Ready(inq[k].data, 0, inq[k].at)
              ELSE IF inq[k].type \in {"Io", "OtherError"} THEN Pending
              ELSE Terminated]

FillWithout ==
    [inq |-> <<>>, read |-> IF over THEN Terminated ELSE Pending,
     err |-> FALSE, wait |-> ~over]

LEMMA FillCases ==
    ASSUME inq \in Seq(Items)
    PROVE  \/ (\A k \in 1 .. Len(inq) : inq[k].type = "Other") /\ Fill = FillWithout
           \/ \E k \in 1 .. Len(inq) : First(k) /\ Fill = FillWith(k)
<1>. DEFINE I == {i \in 1 .. Len(inq) : inq[i].type # "Other"}
            kept == SelectInSeq(inq, LAMBDA item : item.type # "Other")
<1>1. kept = IF I # {} THEN Min(I) ELSE 0
  BY DEF SelectInSeq
<1>2. CASE I = {}
  <2>1. kept = 0
    BY <1>1, <1>2
  <2>2. \A k \in 1 .. Len(inq) : inq[k].type = "Other"
    BY <1>2
  <2>3. Fill = FillWithout
    BY <2>1 DEF Fill, FillWithout
  <2>. QED  BY <2>2, <2>3
<1>3. CASE I # {}
  <2>. I \in SUBSET Nat
    OBVIOUS
  <2>1. Min(I) \in I /\ \A e \in I : Min(I) <= e
    BY <1>3, LeastExists
  <2>2. kept \in I /\ \A e \in I : kept <= e
    BY <1>1, <1>3, <2>1
  <2>3. First(kept)
    BY <2>2 DEF First
  <2>4. Fill = FillWith(kept)
    BY <2>2 DEF Fill, FillWith
  <2>. QED  BY <2>2, <2>3, <2>4
<1>. QED  BY <1>2, <1>3

------------------------------------------------------------------------------
(* Filling the buffer moves no byte. *)

ReadType(r) ==
    \/ r \in {Pending, Terminated}
    \/ /\ r \in [kind : {"Ready"}, data : Bytes, amt_read : Nat, at : Nat]
       /\ r.amt_read = 0 \/ r.amt_read < Len(r.data)

\* Taken, of any queue and ReadState.
Position(q, r) == IF r.kind = "Ready" THEN r.at + r.amt_read ELSE Begin(q, 1)

LEMMA TakenIs ==
    ASSUME inq \in Seq(Items)
    PROVE  Taken = Position(inq, read)
BY DEF Taken, Position, Begin

LEMMA CarriedType ==
    ASSUME NEW data \in Bytes
    PROVE  /\ Carried(data) \in Seq(Nat)
           /\ Len(Carried(data)) \in Nat \ {0}
           /\ data # <<>> => Carried(data) = data
           /\ data = <<>> => Carried(data) = <<Mark>>
<1>1. CASE data = <<>>
  BY <1>1 DEF Carried, Mark
<1>2. CASE data # <<>>
  BY <1>2 DEF Carried, Bytes
<1>. QED  BY <1>1, <1>2

LEMMA RestSound ==
    ASSUME NEW q \in Seq(Items), NEW n \in 0 .. Len(q), written \in Seq(Nat),
           Chained(q), Skipped(q), Fused(q)
    PROVE  /\ SubSeq(q, n + 1, Len(q)) \in Seq(Items)
           /\ Chained(SubSeq(q, n + 1, Len(q)))
           /\ Skipped(SubSeq(q, n + 1, Len(q)))
           /\ Fused(SubSeq(q, n + 1, Len(q)))
           /\ Begin(SubSeq(q, n + 1, Len(q)), 1) = Begin(q, n + 1)
<1>. DEFINE s == SubSeq(q, n + 1, Len(q))
<1>1. s \in Seq(Items) /\ Len(s) = Len(q) - n /\ \A k \in 1 .. Len(s) : s[k] = q[n + k]
  OBVIOUS
<1>. HIDE DEF s
<1>2. \A k \in 1 .. Len(s) + 1 : Begin(s, k) = Begin(q, n + k)
  BY <1>1 DEF Begin
<1>3. Chained(s)
  <2>. SUFFICES ASSUME NEW k \in 1 .. Len(s)
                PROVE  /\ Begin(s, k + 1) = s[k].at + Size(s[k])
                       /\ s[k].type = "Binary" => Holds(s[k].data, s[k].at)
    BY DEF Chained
  <2>1. n + k \in 1 .. Len(q) /\ s[k] = q[n + k] /\ n + (k + 1) = (n + k) + 1
    BY <1>1
  <2>2. Begin(s, k + 1) = Begin(q, (n + k) + 1)
    BY <1>1, <1>2, <2>1
  <2>. QED  BY <2>1, <2>2 DEF Chained
<1>4. Skipped(s)
  <2>. SUFFICES ASSUME NEW i \in 1 .. Len(s) + 1, NEW j \in 1 .. Len(s) + 1, i <= j,
                       \A k \in i .. j - 1 : s[k].type = "Other"
                PROVE  Begin(s, j) = Begin(s, i)
    BY DEF Skipped
  <2>1. \A k \in n + i .. (n + j) - 1 : q[k].type = "Other"
    <3>. TAKE k \in n + i .. (n + j) - 1
    <3>1. k - n \in i .. j - 1 /\ k - n \in 1 .. Len(s) /\ n + (k - n) = k
      BY <1>1
    <3>. QED  BY <1>1, <3>1
  <2>2. n + i \in 1 .. Len(q) + 1 /\ n + j \in 1 .. Len(q) + 1 /\ n + i <= n + j
    BY <1>1
  <2>3. Begin(q, n + j) = Begin(q, n + i)
    BY <2>1, <2>2 DEF Skipped
  <2>. QED  BY <1>2, <2>3
<1>5. Fused(s)
  <2>. SUFFICES ASSUME NEW k \in 1 .. Len(s), s[k].type \in Errors \cup {"Close"}
                PROVE  k = Len(s) /\ over
    BY DEF Fused
  <2>1. n + k \in 1 .. Len(q) /\ s[k] = q[n + k]
    BY <1>1
  <2>2. n + k = Len(q) /\ over
    BY <2>1 DEF Fused
  <2>3. n + k = Len(q) => k = Len(s)
    <3>1. Len(q) \in Nat /\ Len(s) = Len(q) - n
      BY <1>1
    <3>. QED  BY <3>1
  <2>. QED  BY <2>2, <2>3
<1>6. Begin(s, 1) = Begin(q, n + 1)
  BY <1>1, <1>2
<1>. QED  BY <1>1, <1>3, <1>4, <1>5, <1>6 DEF s

LEMMA EmptySound ==
    /\ <<>> \in Seq(Items)
    /\ Chained(<<>>) /\ Skipped(<<>>) /\ Fused(<<>>)
    /\ Begin(<<>>, 1) = Len(written)
<1>1. Len(<<>>) = 0 /\ \A k \in 1 .. Len(<<>>) : FALSE
  OBVIOUS
<1>2. \A i \in 1 .. Len(<<>>) + 1 : i = 1
  BY <1>1
<1>3. Chained(<<>>) /\ Fused(<<>>)
  BY <1>1 DEF Chained, Fused
<1>4. Skipped(<<>>)
  BY <1>2 DEF Skipped
<1>. QED  BY <1>1, <1>3, <1>4 DEF Begin

\* What holds of the queue and the ReadState when the buffer was filled.
FilledFrom(f) ==
    /\ f.inq \in Seq(Items)
    /\ ReadType(f.read)
    /\ Sound(f.inq, f.read)
    /\ Position(f.inq, f.read) = Position(inq, read)
    /\ ~ f.wait /\ ~ f.err => f.read # Pending

LEMMA FillWithoutSound ==
    ASSUME TypeOK, Sound(inq, read), read = Pending,
           \A k \in 1 .. Len(inq) : inq[k].type = "Other"
    PROVE  FilledFrom(FillWithout)
<1>. DEFINE r == IF over THEN Terminated ELSE Pending
<1>1. FillWithout.inq = <<>> /\ FillWithout.read = r /\ FillWithout.wait = ~ over
  BY DEF FillWithout
<1>2. ReadType(r) /\ r.kind # "Ready" /\ (r = Terminated => over) /\ (over => r # Pending)
  BY DEF ReadType, Pending, Terminated
<1>3. Before(<<>>, r)
  BY <1>2 DEF Before
<1>4. Begin(inq, 1) = Begin(inq, Len(inq) + 1)
  <2>1. inq \in Seq(Items) /\ 1 \in 1 .. Len(inq) + 1 /\ Len(inq) + 1 \in 1 .. Len(inq) + 1
    BY DEF TypeOK
  <2>2. (Len(inq) + 1) - 1 = Len(inq) /\ 1 <= Len(inq) + 1
    BY <2>1
  <2>. QED  BY <2>1, <2>2 DEF Sound, Skipped
<1>5. Begin(inq, Len(inq) + 1) = Len(written)
  BY DEF Begin, TypeOK
<1>6. Position(<<>>, r) = Position(inq, read)
  BY <1>2, <1>4, <1>5, EmptySound DEF Position, Pending
<1>. HIDE DEF r
<1>. QED  BY <1>1, <1>2, <1>3, <1>6, EmptySound DEF FilledFrom, Sound

LEMMA FillWithSound ==
    ASSUME TypeOK, Sound(inq, read), read = Pending,
           NEW k \in 1 .. Len(inq), First(k)
    PROVE  FilledFrom(FillWith(k))
<1>. DEFINE item == inq[k]
            q == SubSeq(inq, k + 1, Len(inq))
            r == IF item.type = "Binary" THEN Ready(item.data, 0, item.at)
                 ELSE IF item.type \in {"Io", "OtherError"} THEN Pending
                 ELSE Terminated
<1>1. FillWith(k).inq = q /\ FillWith(k).read = r
      /\ FillWith(k).err = (item.type \in Errors \ {"ConnectionClosed"})
  BY DEF FillWith
<1>2. inq \in Seq(Items) /\ item \in Items /\ written \in Seq(Nat) /\ item.type # "Other"
  BY DEF TypeOK, First
<1>3. /\ q \in Seq(Items) /\ Chained(q) /\ Skipped(q) /\ Fused(q)
      /\ Begin(q, 1) = Begin(inq, k + 1)
  BY <1>2, RestSound DEF Sound
<1>4. Begin(inq, 1) = item.at
  <2>1. Begin(inq, k) = Begin(inq, 1)
    <3>1. /\ k \in 1 .. Len(inq) + 1 /\ 1 \in 1 .. Len(inq) + 1 /\ 1 <= k
          /\ \A j \in 1 .. k - 1 : inq[j].type = "Other"
      BY <1>2 DEF First
    <3>. QED  BY <3>1 DEF Sound, Skipped
  <2>. QED  BY <1>2, <2>1 DEF Begin
<1>5. Begin(inq, k + 1) = item.at + Size(item)
  BY DEF Sound, Chained
<1>6. CASE item.type = "Binary"
  <2>1. r = Ready(item.data, 0, item.at)
    BY <1>6
  <2>2. /\ r \in [kind : {"Ready"}, data : Bytes, amt_read : Nat, at : Nat]
        /\ r.kind = "Ready" /\ r.amt_read = 0 /\ r.at = item.at /\ r.data = item.data
    BY <1>2, <2>1 DEF Ready, Items
  <2>3. ReadType(r)
    BY <2>2 DEF ReadType
  <2>4. r # Pending /\ r # Terminated
    BY <2>2 DEF Pending, Terminated
  <2>5. Before(q, r)
    <3>1. Holds(item.data, item.at)
      BY <1>6 DEF Sound, Chained
    <3>2. Begin(q, 1) = item.at + Len(Carried(item.data))
      BY <1>3, <1>5, <1>6 DEF Size
    <3>. QED  BY <2>2, <2>4, <3>1, <3>2 DEF Before
  <2>6. Position(q, r) = Position(inq, read)
    <3>1. Position(q, r) = item.at
      BY <1>2, <2>2 DEF Position, Items
    <3>. QED  BY <1>4, <3>1 DEF Position, Pending
  <2>. HIDE DEF r, q
  <2>. QED  BY <1>1, <1>3, <2>3, <2>4, <2>5, <2>6 DEF FilledFrom, Sound
<1>7. CASE item.type \in Errors \cup {"Close"}
  <2>1. k = Len(inq) /\ over
    BY <1>7 DEF Sound, Fused
  <2>2. q = <<>>
    BY <1>2, <2>1
  <2>3. r \in {Pending, Terminated}
    BY <1>7 DEF Errors
  <2>4. r.kind # "Ready" /\ ReadType(r) /\ Before(q, r)
    <3>1. Pending.kind = "Pending" /\ Terminated.kind = "Terminated"
      BY DEF Pending, Terminated
    <3>2. r.kind # "Ready"
      BY <2>3, <3>1
    <3>. HIDE DEF r, q
    <3>. QED  BY <2>1, <2>2, <2>3, <3>2 DEF ReadType, Before
  <2>5. Position(q, r) = Position(inq, read)
    <3>1. item.at + Size(item) = item.at
      BY <1>2, <1>7 DEF Size, Errors, Items
    <3>. QED  BY <1>3, <1>4, <1>5, <2>4, <3>1 DEF Position, Pending
  <2>6. item.type \notin Errors \ {"ConnectionClosed"} => r # Pending
    BY <1>7 DEF Errors, Pending, Terminated
  <2>. HIDE DEF r, q
  <2>. QED  BY <1>1, <1>3, <2>4, <2>5, <2>6 DEF FilledFrom, Sound
<1>. QED  BY <1>2, <1>6, <1>7 DEF Items

LEMMA FilledSound ==
    ASSUME TypeOK, Sound(inq, read)
    PROVE  FilledFrom(Filled)
<1>1. CASE read = Pending
  BY <1>1, FillCases, FillWithSound, FillWithoutSound DEF Filled, TypeOK
<1>2. CASE read # Pending
  <2>1. Filled.inq = inq /\ Filled.read = read
    BY <1>2 DEF Filled
  <2>. QED  BY <1>2, <2>1 DEF FilledFrom, TypeOK, ReadType
<1>. QED  BY <1>1, <1>2

------------------------------------------------------------------------------
(* The peer's messages. *)

LEMMA ItemArrives ==
    ASSUME TypeOK, TypeOK', Sound(inq, read), ~ over,
           NEW item \in Items, item.at = Len(written),
           inq' = Append(inq, item), read' = read,
           NEW more \in Seq(Nat), written' = written \o more,
           Len(more) = Size(item),
           item.type = "Binary" => more = Carried(item.data),
           over' <=> (item.type \in Errors \cup {"Close"})
    PROVE  Sound(inq, read)' /\ Position(inq, read)' = Position(inq, read)
<1>. PICK N \in Nat : N = Len(inq)
  BY DEF TypeOK
<1>1. /\ inq \in Seq(Items) /\ inq' \in Seq(Items) /\ N \in Nat /\ Len(inq') = N + 1
      /\ inq'[N + 1] = item
      /\ \A k \in 1 .. N : inq'[k] = inq[k]
  <2>1. inq \in Seq(Items) /\ inq' \in Seq(Items)
    BY DEF TypeOK
  <2>. QED  BY <2>1
<1>2. /\ written \in Seq(Nat) /\ written' \in Seq(Nat)
      /\ Len(written') = Len(written) + Size(item) /\ Size(item) \in Nat
      /\ \A k \in 1 .. Len(written) : written'[k] = written[k]
      /\ \A k \in 1 .. Len(more) : written'[Len(written) + k] = more[k]
  <2>1. written \in Seq(Nat) /\ written' \in Seq(Nat)
    BY DEF TypeOK
  <2>2. Len(more) \in Nat /\ Len(written') = Len(written) + Len(more)
    <3>1. Len(written \o more) = Len(written) + Len(more)
      BY <2>1, ConcatProperties
    <3>. QED  BY <3>1
  <2>3. \A k \in 1 .. Len(written) : written'[k] = written[k]
    BY <2>1
  <2>4. \A k \in 1 .. Len(more) : written'[Len(written) + k] = more[k]
    BY <2>1
  <2>. QED  BY <2>1, <2>2, <2>3, <2>4
<1>3. \A k \in 1 .. N + 1 : Begin(inq, k)' = Begin(inq, k)
  <2>. TAKE k \in 1 .. N + 1
  <2>1. CASE k \in 1 .. N
    BY <1>1, <2>1 DEF Begin
  <2>2. CASE k = N + 1
    BY <1>1, <2>2 DEF Begin
  <2>. QED  BY <1>1, <2>1, <2>2
<1>4. Begin(inq, N + 2)' = Len(written) + Size(item)
  BY <1>1, <1>2 DEF Begin
<1>5. Begin(inq, N + 1)' = Len(written)
  BY <1>1, <1>3 DEF Begin
<1>6. \A data \in Bytes, at \in Nat : Holds(data, at) => Holds(data, at)'
  <2>. SUFFICES ASSUME NEW data \in Bytes, NEW at \in Nat, Holds(data, at)
                PROVE  Holds(data, at)'
    OBVIOUS
  <2>1. Carried(data) \in Seq(Nat) /\ Carried(data)' = Carried(data)
    BY CarriedType DEF Carried, Mark
  <2>2. at + Len(Carried(data)) <= Len(written')
    BY <1>2, <2>1 DEF Holds
  <2>3. ASSUME NEW i \in 1 .. Len(Carried(data))
        PROVE  written'[at + i] = Carried(data)[i]
    <3>1. at + i \in 1 .. Len(written)
      BY <1>2, <2>1 DEF Holds
    <3>. QED  BY <1>2, <3>1 DEF Holds
  <2>. QED  BY <2>1, <2>2, <2>3 DEF Holds
<1>7. Chained(inq)'
  <2>. SUFFICES ASSUME NEW k \in 1 .. N + 1
                PROVE  /\ Begin(inq, k + 1)' = inq'[k].at + Size(inq'[k])
                       /\ inq'[k].type = "Binary" => Holds(inq[k].data, inq[k].at)'
    BY <1>1 DEF Chained, Size, Carried, Mark
  <2>1. CASE k \in 1 .. N
    <3>1. inq'[k] = inq[k] /\ inq[k] \in Items
      BY <1>1, <2>1
    <3>2. Begin(inq, k + 1)' = Begin(inq, k + 1)
      <4>1. k + 1 \in 1 .. N + 1
        BY <1>1, <2>1
      <4>. QED  BY <1>3, <4>1
    <3>3. inq[k].data \in Bytes /\ inq[k].at \in Nat
      BY <3>1 DEF Items
    <3>4. inq[k].type = "Binary" => Holds(inq[k].data, inq[k].at)
      BY <2>1 DEF Sound, Chained
    <3>5. ASSUME inq[k].type = "Binary"
          PROVE  Holds(inq[k].data, inq[k].at)'
      <4>. PICK data \in Bytes, at \in Nat : data = inq[k].data /\ at = inq[k].at
        BY <3>3
      <4>1. Holds(data, at)'
        BY <1>6, <3>4, <3>5
      <4>2. data = inq'[k].data /\ at = inq'[k].at
        BY <3>1
      <4>. QED  BY <4>1, <4>2 DEF Holds
    <3>6. Begin(inq, k + 1) = inq[k].at + Size(inq[k])
      BY <2>1 DEF Sound, Chained
    <3>. QED  BY <3>1, <3>2, <3>5, <3>6
  <2>2. CASE k = N + 1
    <3>1. inq'[k] = item /\ k + 1 = N + 2
      BY <1>1, <2>2
    <3>2. ASSUME item.type = "Binary"
          PROVE  Holds(inq[k].data, inq[k].at)'
      <4>1. more = Carried(item.data) /\ Carried(item.data)' = Carried(item.data)
        BY <3>2 DEF Carried, Mark
      <4>2. item.at + Len(more) <= Len(written')
        BY <1>2
      <4>3. \A i \in 1 .. Len(more) : written'[item.at + i] = more[i]
        BY <1>2
      <4>. QED  BY <3>1, <4>1, <4>2, <4>3 DEF Holds
    <3>3. Begin(inq, k + 1)' = Len(written) + Size(item)
      BY <1>4, <3>1
    <3>. QED  BY <3>1, <3>2, <3>3
  <2>. QED  BY <1>1, <2>1, <2>2
<1>8. Skipped(inq)'
  <2>. SUFFICES ASSUME NEW i \in 1 .. N + 2, NEW j \in 1 .. N + 2, i <= j,
                       \A k \in i .. j - 1 : inq'[k].type = "Other"
                PROVE  Begin(inq, j)' = Begin(inq, i)'
    <3>1. Len(inq') + 1 = N + 2
      BY <1>1
    <3>. QED  BY <3>1 DEF Skipped
  <2>1. CASE j \in 1 .. N + 1
    <3>1. i \in 1 .. N + 1
      BY <1>1, <2>1
    <3>2. \A k \in i .. j - 1 : inq[k].type = "Other"
      BY <1>1, <2>1
    <3>3. Begin(inq, j) = Begin(inq, i)
      BY <1>1, <2>1, <3>1, <3>2 DEF Sound, Skipped
    <3>. QED  BY <1>3, <2>1, <3>1, <3>3
  <2>2. CASE j = N + 2 /\ i = N + 2
    BY <2>2
  <2>3. CASE j = N + 2 /\ i \in 1 .. N + 1
    <3>1. N + 1 \in i .. j - 1
      BY <1>1, <2>3
    <3>2. item.type = "Other"
      BY <1>1, <3>1
    <3>3. \A k \in i .. (N + 1) - 1 : inq[k].type = "Other"
      BY <1>1, <2>3
    <3>4. i <= N + 1 /\ N + 1 \in 1 .. Len(inq) + 1
      BY <1>1, <2>3
    <3>5. Begin(inq, N + 1) = Begin(inq, i)
      BY <1>1, <2>3, <3>3, <3>4 DEF Sound, Skipped
    <3>6. Begin(inq, N + 2)' = Len(written)
      BY <1>2, <1>4, <3>2 DEF Size, TypeOK
    <3>7. Begin(inq, i)' = Begin(inq, i) /\ Begin(inq, N + 1)' = Begin(inq, N + 1)
      <4>1. i \in 1 .. N + 1 /\ N + 1 \in 1 .. N + 1
        BY <1>1, <2>3
      <4>. QED  BY <1>3, <4>1
    <3>. QED  BY <1>5, <2>3, <3>5, <3>6, <3>7
  <2>. QED  BY <1>1, <2>1, <2>2, <2>3
<1>9. Fused(inq)'
  <2>. SUFFICES ASSUME NEW k \in 1 .. N + 1, inq'[k].type \in Errors \cup {"Close"}
                PROVE  k = N + 1 /\ over'
    BY <1>1 DEF Fused, Errors
  <2>1. CASE k \in 1 .. N
    <3>1. inq[k].type \in Errors \cup {"Close"}
      BY <1>1, <2>1
    <3>. QED  BY <2>1, <3>1 DEF Sound, Fused
  <2>2. CASE k = N + 1
    BY <1>1, <2>2
  <2>. QED  BY <1>1, <2>1, <2>2
<1>10. Begin(inq, 1)' = Begin(inq, 1)
  BY <1>1, <1>3
<1>11. Before(inq, read)'
  <2>1. read # Terminated
    BY DEF Sound, Before
  <2>2. ASSUME read.kind = "Ready"
        PROVE  /\ Holds(read.data, read.at)'
               /\ Begin(inq, 1)' = read.at + Len(Carried(read.data))'
    <3>1. read.data \in Bytes /\ read.at \in Nat
      <4>1. Pending.kind # "Ready" /\ Terminated.kind # "Ready"
        BY DEF Pending, Terminated
      <4>2. read \in [kind : {"Ready"}, data : Bytes, amt_read : Nat, at : Nat]
        BY <2>2, <4>1 DEF TypeOK
      <4>. QED  BY <4>2
    <3>2. Holds(read.data, read.at) /\ Begin(inq, 1) = read.at + Len(Carried(read.data))
      BY <2>2 DEF Sound, Before
    <3>. QED  BY <1>6, <1>10, <3>1, <3>2 DEF Carried, Mark
  <2>. QED  BY <2>1, <2>2 DEF Before, Carried, Mark, Terminated
<1>12. Position(inq, read)' = Position(inq, read)
  BY <1>10 DEF Position
<1>. QED  BY <1>7, <1>8, <1>9, <1>11, <1>12 DEF Sound

\* The steps of Next, by who takes them.
Peer ==
    \/ \E size \in Sizes : BinaryArrives(size)
    \/ OtherArrives
    \/ \E type \in Errors \cup {"Close"} : LastArrives(type)
    \/ EndArrives

Reader ==
    \/ NothingRead
    \/ \E room \in Rooms : PollRead(room)
    \/ PollFillBuf
    \/ \E n \in Rooms : Consume(n)

Writer == PollWrite \/ PollFlush \/ PollShutdown

LEMMA CountType ==
    ASSUME written \in Seq(Nat)
    PROVE  Count \in Nat
<1>1. IsFiniteSet(DOMAIN written)
  <2>1. DOMAIN written = 1 .. Len(written) /\ Len(written) \in Nat
    OBVIOUS
  <2>. QED  BY <2>1, FS_Interval
<1>2. IsFiniteSet({k \in DOMAIN written : written[k] # Mark})
  BY <1>1, FS_Subset
<1>. QED  BY <1>2, FS_CardinalityType DEF Count

\* The bytes of a new message are bytes.
LEMMA NewBytes ==
    ASSUME written \in Seq(Nat), NEW size \in Nat
    PROVE  [k \in 1 .. size |-> Count + k] \in Bytes
<1>1. Count \in Nat
  BY CountType
<1>2. \A k \in 1 .. size : Count + k \in Nat \ {0}
  BY <1>1
<1>. QED  BY <1>2 DEF Bytes, Mark

LEMMA BinarySound ==
    ASSUME Inv, NEW size \in Sizes, BinaryArrives(size)
    PROVE  /\ TypeOK'
           /\ Sound(inq, read)'
           /\ Position(inq, read)' = Position(inq, read)
           /\ \E data \in Bytes : written' = written \o Carried(data)
<1>. DEFINE data == [k \in 1 .. size |-> Count + k]
<1>1. size \in Nat /\ written \in Seq(Nat) /\ inq \in Seq(Items)
  BY WsAssumption DEF Inv, TypeOK, WsAssumption
<1>2. PICK d \in Bytes : d = data
  BY <1>1, NewBytes
<1>3. /\ inq' = Append(inq, Binary(d)) /\ written' = written \o Carried(d)
      /\ items < MaxItems /\ items' = items + 1 /\ ~ over
      /\ UNCHANGED <<over, read, got, eof, writeVars>>
  BY <1>2 DEF BinaryArrives, Arrives
<1>. HIDE DEF data
<1>4. PICK item \in Items : item = Binary(d)
  <2>1. Len(written) \in Nat /\ "Binary" \in Errors \cup {"Binary", "Other", "Close"}
    BY <1>1
  <2>. QED  BY <2>1 DEF Binary, Items
<1>5. item.type = "Binary" /\ item.data = d /\ item.at = Len(written)
  BY <1>4 DEF Binary
<1>6. Carried(d) \in Seq(Nat) /\ Len(Carried(d)) = Size(item)
  BY <1>5, CarriedType DEF Size
<1>7. TypeOK'
  <2>1. inq' \in Seq(Items)
    BY <1>1, <1>3, <1>4
  <2>2. written' \in Seq(Nat)
    BY <1>1, <1>3, <1>6
  <2>3. items' \in 0 .. MaxItems
    BY <1>3, WsAssumption DEF Inv, TypeOK, WsAssumption
  <2>. QED  BY <1>3, <2>1, <2>2, <2>3 DEF Inv, TypeOK, writeVars
<1>8. over' <=> (item.type \in Errors \cup {"Close"})
  <2>1. over' = FALSE
    BY <1>3 DEF Inv, TypeOK
  <2>2. item.type \notin Errors \cup {"Close"}
    BY <1>5 DEF Errors
  <2>. QED  BY <2>1, <2>2
<1>9. Sound(inq, read)' /\ Position(inq, read)' = Position(inq, read)
  <2>1. TypeOK /\ Sound(inq, read) /\ read' = read /\ inq' = Append(inq, item)
    BY <1>3, <1>4 DEF Inv
  <2>. QED  BY <1>3, <1>5, <1>6, <1>7, <1>8, <2>1, ItemArrives
<1>. QED  BY <1>2, <1>3, <1>7, <1>9

\* A message that carries nothing.
LEMMA ItemSound ==
    ASSUME Inv, NEW type \in Errors \cup {"Other", "Close"}, Arrives(Item(type)),
           written' = written, over' = (type # "Other")
    PROVE  /\ TypeOK'
           /\ Sound(inq, read)'
           /\ Position(inq, read)' = Position(inq, read)
<1>1. PICK item \in Items : item = Item(type)
  <2>1. <<>> \in Bytes /\ Len(written) \in Nat
    BY DEF Bytes, Inv, TypeOK
  <2>. QED  BY <2>1 DEF Item, Items
<1>2. item.type = type /\ item.at = Len(written) /\ type # "Binary"
  BY <1>1 DEF Item, Errors
<1>3. /\ inq' = Append(inq, item)
      /\ items < MaxItems /\ items' = items + 1 /\ ~ over
      /\ UNCHANGED <<read, got, eof, writeVars>>
  BY <1>1 DEF Arrives
<1>4. written \in Seq(Nat) /\ inq \in Seq(Items)
  BY DEF Inv, TypeOK
<1>5. TypeOK'
  <2>1. inq' \in Seq(Items)
    BY <1>3, <1>4
  <2>2. items' \in 0 .. MaxItems
    BY <1>3, WsAssumption DEF Inv, TypeOK, WsAssumption
  <2>. QED  BY <1>3, <2>1, <2>2 DEF Inv, TypeOK, writeVars
<1>6. written' = written \o <<>> /\ <<>> \in Seq(Nat) /\ Len(<<>>) = Size(item)
  BY <1>2, <1>4, ConcatEmptySeq DEF Size
<1>7. over' <=> (item.type \in Errors \cup {"Close"})
  BY <1>2 DEF Errors
<1>8. TypeOK /\ Sound(inq, read) /\ read' = read
  BY <1>3 DEF Inv
<1>. QED  BY <1>2, <1>3, <1>5, <1>6, <1>7, <1>8, ItemArrives

\* Nothing is lost when the end comes.
LEMMA EndSound ==
    ASSUME Inv, EndArrives
    PROVE  /\ TypeOK'
           /\ Sound(inq, read)'
           /\ Position(inq, read)' = Position(inq, read)
<1>1. /\ over' = TRUE
      /\ UNCHANGED <<inq, read, got, eof, items, written, write, started, answer, shut>>
  BY DEF EndArrives, writeVars
<1>2. TypeOK'
  BY <1>1 DEF Inv, TypeOK
<1>3. Sound(inq, read)
  BY DEF Inv
<1>4. Chained(inq)'
  BY <1>1, <1>3 DEF Sound, Chained, Holds, Begin, Size, Carried, Mark
<1>5. Skipped(inq)'
  BY <1>1, <1>3 DEF Sound, Skipped, Begin
<1>6. Fused(inq)' /\ Before(inq, read)'
  BY <1>1, <1>3 DEF Sound, Fused, Before, Holds, Begin, Carried, Errors, Terminated, Mark
<1>7. Sound(inq, read)'
  BY <1>4, <1>5, <1>6 DEF Sound
<1>. QED  BY <1>1, <1>2, <1>7 DEF Position, Begin

------------------------------------------------------------------------------
(* Reading. *)

\* What a reader's step leaves alone, and the two that it may set together.
LEMMA ReadSound ==
    ASSUME TypeOK, Sound(inq, read), NEW q \in Seq(Items), NEW r, ReadType(r), Sound(q, r),
           inq' = q, read' = r, got' \in Seq(Nat), eof' \in BOOLEAN,
           UNCHANGED <<over, items, written, writeVars>>
    PROVE  /\ TypeOK'
           /\ Sound(inq, read)'
           /\ Position(inq, read)' = Position(q, r)
<1>1. TypeOK'
  BY DEF TypeOK, ReadType, writeVars
<1>2. Chained(inq)'
  BY DEF Sound, Chained, Holds, Begin, Size, Carried, Mark
<1>3. Skipped(inq)'
  BY DEF Sound, Skipped, Begin
<1>4. Fused(inq)' /\ Before(inq, read)'
  BY DEF Sound, Fused, Before, Holds, Begin, Carried, Errors, Terminated, Mark
<1>5. Sound(inq, read)'
  BY <1>2, <1>3, <1>4 DEF Sound
<1>. QED  BY <1>1, <1>5 DEF Position, Begin

\* Reading n more bytes of a message.
LEMMA AdvancedSound ==
    ASSUME written \in Seq(Nat), NEW q \in Seq(Items), NEW r, ReadType(r), r.kind = "Ready",
           Sound(q, r), NEW n \in Nat, n <= Len(r.data) - r.amt_read,
           n = 0 => r.data = <<>>
    PROVE  /\ ReadType(Advanced(r, n))
           /\ Sound(q, Advanced(r, n))
           /\ r.data # <<>> => Position(q, Advanced(r, n)) = Position(q, r) + n
           /\ r.data = <<>> => Position(q, Advanced(r, n)) = Position(q, r) + 1
<1>1. r \in [kind : {"Ready"}, data : Bytes, amt_read : Nat, at : Nat]
      /\ (r.amt_read = 0 \/ r.amt_read < Len(r.data))
  BY DEF ReadType, Pending, Terminated
<1>2. r.data \in Bytes /\ r.amt_read \in Nat /\ r.at \in Nat /\ Len(r.data) \in Nat
  BY <1>1 DEF Bytes
<1>3. Holds(r.data, r.at) /\ Begin(q, 1) = r.at + Len(Carried(r.data))
  BY DEF Sound, Before
<1>4. /\ r.data # <<>> => Len(Carried(r.data)) = Len(r.data)
      /\ r.data = <<>> => Len(Carried(r.data)) = 1 /\ Len(r.data) = 0
  BY <1>2, CarriedType
<1>5. CASE n = Len(r.data) - r.amt_read
  <2>1. Advanced(r, n) = Pending
    BY <1>5 DEF Advanced
  <2>2. ReadType(Pending) /\ Before(q, Pending)
    BY DEF ReadType, Before, Pending, Terminated
  <2>3. Position(q, Pending) = Begin(q, 1) /\ Position(q, r) = r.at + r.amt_read
    BY DEF Position, Pending
  <2>4. ASSUME r.data # <<>>
        PROVE  Position(q, Pending) = Position(q, r) + n
    <3>1. Position(q, Pending) = r.at + Len(r.data)
      BY <1>3, <1>4, <2>3, <2>4
    <3>. QED  BY <1>2, <1>5, <2>3, <3>1
  <2>5. ASSUME r.data = <<>>
        PROVE  Position(q, Pending) = Position(q, r) + 1
    <3>1. Position(q, Pending) = r.at + 1 /\ Len(r.data) = 0
      BY <1>3, <1>4, <2>3, <2>5
    <3>2. r.amt_read = 0
      BY <1>1, <1>2, <3>1
    <3>. QED  BY <1>2, <2>3, <3>1, <3>2
  <2>. QED  BY <2>1, <2>2, <2>4, <2>5 DEF Sound
<1>6. CASE n # Len(r.data) - r.amt_read
  <2>1. PICK s : s = Ready(r.data, r.amt_read + n, r.at)
    OBVIOUS
  <2>2. Advanced(r, n) = s
    BY <1>6, <2>1 DEF Advanced
  <2>3. /\ s \in [kind : {"Ready"}, data : Bytes, amt_read : Nat, at : Nat]
        /\ s.kind = "Ready" /\ s.data = r.data /\ s.amt_read = r.amt_read + n /\ s.at = r.at
    BY <1>2, <2>1 DEF Ready
  <2>4. s.amt_read < Len(r.data)
    <3>1. \A a, l \in Nat : n # l - a /\ n <= l - a => a + n < l
      OBVIOUS
    <3>. QED  BY <1>2, <1>6, <2>3, <3>1
  <2>5. ReadType(s)
    BY <2>3, <2>4 DEF ReadType
  <2>6. Before(q, s)
    BY <1>3, <2>3 DEF Before, Terminated
  <2>7. Position(q, s) = Position(q, r) + n
    BY <1>2, <2>3 DEF Position
  <2>8. r.data # <<>>
    BY <1>2, <1>4, <2>3, <2>4
  <2>. QED  BY <2>2, <2>5, <2>6, <2>7, <2>8 DEF Sound
<1>. QED  BY <1>5, <1>6

LEMMA Slice ==
    ASSUME NEW S, NEW s \in Seq(S), NEW a \in Nat, NEW n \in Nat, a + n <= Len(s)
    PROVE  /\ SubSeq(s, a + 1, a + n) \in Seq(S)
           /\ Len(SubSeq(s, a + 1, a + n)) = n
           /\ \A i \in 1 .. n : SubSeq(s, a + 1, a + n)[i] = s[a + i]
<1>1. a + 1 \in Int /\ a + n \in Int /\ \A i \in a + 1 .. a + n : s[i] \in S
  OBVIOUS
<1>2. /\ SubSeq(s, a + 1, a + n) \in Seq(S)
      /\ Len(SubSeq(s, a + 1, a + n))
             = IF a + 1 <= a + n THEN (a + n) - (a + 1) + 1 ELSE 0
      /\ \A i \in 1 .. (a + n) - (a + 1) + 1 :
             SubSeq(s, a + 1, a + n)[i] = s[(a + 1) + i - 1]
  BY <1>1, SubSeqProperties
<1>3. (IF a + 1 <= a + n THEN (a + n) - (a + 1) + 1 ELSE 0) = n
  OBVIOUS
<1>4. (a + n) - (a + 1) + 1 = n /\ \A i \in 1 .. n : (a + 1) + i - 1 = a + i
  OBVIOUS
<1>. QED  BY <1>2, <1>3, <1>4

LEMMA SlicesAgree ==
    ASSUME NEW S, NEW T, NEW s \in Seq(S), NEW t \in Seq(T), NEW a \in Nat, NEW b \in Nat,
           NEW n \in Nat \ {0}, a + n <= Len(s), b + n <= Len(t),
           \A i \in 1 .. n : s[a + i] = t[b + i]
    PROVE  /\ SubSeq(s, a + 1, a + n) = SubSeq(t, b + 1, b + n)
           /\ SubSeq(s, a + 1, a + n) \in Seq(S) \ {<<>>}
<1>. DEFINE u == SubSeq(s, a + 1, a + n)
            v == SubSeq(t, b + 1, b + n)
<1>1. u \in Seq(S) /\ Len(u) = n /\ \A i \in 1 .. n : u[i] = s[a + i]
  BY Slice
<1>2. v \in Seq(T) /\ Len(v) = n /\ \A i \in 1 .. n : v[i] = t[b + i]
  BY Slice
<1>. HIDE DEF u, v
<1>3. u \in Seq(S \cup T) /\ v \in Seq(S \cup T)
  BY <1>1, <1>2
<1>4. u = v
  BY <1>1, <1>2, <1>3, SeqEqual
<1>5. u # <<>>
  BY <1>1
<1>. QED  BY <1>1, <1>4, <1>5 DEF u, v

\* What is lent to the reader is the stream from where it has got to.
LEMMA ReadsStream ==
    ASSUME written \in Seq(Nat), NEW q \in Seq(Items), NEW r, ReadType(r), r.kind = "Ready",
           Sound(q, r), NEW n \in Nat \ {0}, n <= Len(r.data) - r.amt_read
    PROVE  /\ Position(q, r) \in Nat
           /\ Position(q, r) + n <= Len(written)
           /\ SubSeq(r.data, r.amt_read + 1, r.amt_read + n)
                  = SubSeq(written, Position(q, r) + 1, Position(q, r) + n)
           /\ SubSeq(r.data, r.amt_read + 1, r.amt_read + n) \in Bytes \ {<<>>}
<1>1. r \in [kind : {"Ready"}, data : Bytes, amt_read : Nat, at : Nat]
  BY DEF ReadType, Pending, Terminated
<1>2. r.data \in Bytes /\ r.amt_read \in Nat /\ r.at \in Nat /\ Len(r.data) \in Nat
  BY <1>1 DEF Bytes
<1>3. r.data # <<>> /\ Carried(r.data) = r.data
  <2>1. r.data # <<>>
    BY <1>2
  <2>. QED  BY <1>2, <2>1, CarriedType
<1>4. /\ r.at + Len(r.data) <= Len(written)
      /\ \A i \in 1 .. Len(r.data) : written[r.at + i] = r.data[i]
  BY <1>3 DEF Sound, Before, Holds
<1>5. Position(q, r) = r.at + r.amt_read
  BY DEF Position
<1>6. Position(q, r) \in Nat /\ Position(q, r) + n <= Len(written) /\ Len(written) \in Nat
  <2>1. Len(written) \in Nat
    BY LenProperties
  <2>2. \A a, b, l, w \in Nat : n <= l - b /\ a + l <= w => a + b \in Nat /\ a + b + n <= w
    OBVIOUS
  <2>3. r.at + r.amt_read \in Nat /\ r.at + r.amt_read + n <= Len(written)
    BY <1>2, <1>4, <2>1, <2>2
  <2>. QED  BY <1>5, <2>1, <2>3
<1>7. PICK d \in Bytes, a \in Nat, b \in Nat :
        d = r.data /\ a = r.amt_read /\ b = Position(q, r)
  BY <1>2, <1>6
<1>8. a + n <= Len(d) /\ b + n <= Len(written)
  <2>1. Len(d) \in Nat /\ n <= Len(d) - a
    BY <1>2, <1>7
  <2>2. a + n <= Len(d)
    BY <2>1
  <2>. QED  BY <1>6, <1>7, <2>2
<1>9. \A i \in 1 .. n : d[a + i] = written[b + i]
  <2>. TAKE i \in 1 .. n
  <2>1. a + i \in 1 .. Len(d)
    BY <1>8
  <2>2. b + i = r.at + (a + i)
    <3>1. PICK x \in Nat : x = r.at
      BY <1>2
    <3>2. b = x + a
      BY <1>5, <1>7, <3>1
    <3>. QED  BY <3>1, <3>2
  <2>. QED  BY <1>4, <1>7, <2>1, <2>2
<1>10. /\ SubSeq(d, a + 1, a + n) = SubSeq(written, b + 1, b + n)
       /\ SubSeq(d, a + 1, a + n) \in Bytes \ {<<>>}
  <2>1. d \in Seq(Nat \ {Mark})
    BY DEF Bytes
  <2>. QED  BY <1>8, <1>9, <2>1, SlicesAgree DEF Bytes
<1>. QED  BY <1>6, <1>7, <1>10

LEMMA NothingReadSound ==
    ASSUME Inv, NothingRead
    PROVE  /\ TypeOK'
           /\ Sound(inq, read)'
           /\ UNCHANGED <<over, got, eof, items, written, writeVars>>
           /\ Position(inq, read)' = Position(inq, read)
<1>. PICK f : f = Filled
  OBVIOUS
<1>1. FilledFrom(f) /\ TypeOK /\ Sound(inq, read)
  BY FilledSound DEF Inv
<1>2. inq' = f.inq /\ read' = f.read /\ UNCHANGED <<over, got, eof, items, written, writeVars>>
  BY DEF NothingRead
<1>3. got' \in Seq(Nat) /\ eof' \in BOOLEAN
  BY <1>1, <1>2 DEF TypeOK
<1>. PICK r : r = f.read
  OBVIOUS
<1>4. PICK q \in Seq(Items) : q = f.inq
  BY <1>1 DEF FilledFrom
<1>5. ReadType(r) /\ Sound(q, r) /\ Position(q, r) = Position(inq, read)
  BY <1>1, <1>4 DEF FilledFrom
<1>6. TypeOK' /\ Sound(inq, read)' /\ Position(inq, read)' = Position(q, r)
  BY <1>1, <1>2, <1>3, <1>4, <1>5, ReadSound
<1>. QED  BY <1>2, <1>5, <1>6

\* What a read that returns something does to the stream, and one that does not.
Returns(n) ==
    /\ n \in Nat \ {0}
    /\ Position(inq, read) \in Nat
    /\ Position(inq, read) + n <= Len(written)
    /\ Position(inq, read)' = Position(inq, read) + n
    /\ got' = SubSeq(written, Position(inq, read) + 1, Position(inq, read) + n)
    /\ got' \in Bytes
    /\ eof' = FALSE
    /\ UNCHANGED <<over, written>>

AtEnd ==
    /\ Position(inq, read) = Len(written)
    /\ over
    /\ Position(inq, read)' = Position(inq, read)

AtMark ==
    /\ Position(inq, read) \in Nat
    /\ Position(inq, read) < Len(written)
    /\ written[Position(inq, read) + 1] = Mark
    /\ Position(inq, read)' \in {Position(inq, read), Position(inq, read) + 1}

ReturnsNothing ==
    /\ AtEnd \/ AtMark
    /\ got' = <<>>
    /\ eof' = TRUE
    /\ UNCHANGED <<over, written>>

\* An empty message is a Mark of the stream.
LEMMA EmptyIsMark ==
    ASSUME written \in Seq(Nat), NEW q \in Seq(Items), NEW r, ReadType(r), r.kind = "Ready",
           Sound(q, r), r.data = <<>>
    PROVE  /\ Position(q, r) \in Nat
           /\ Position(q, r) < Len(written)
           /\ written[Position(q, r) + 1] = Mark
<1>1. r \in [kind : {"Ready"}, data : Bytes, amt_read : Nat, at : Nat]
      /\ (r.amt_read = 0 \/ r.amt_read < Len(r.data))
  BY DEF ReadType, Pending, Terminated
<1>2. r.at \in Nat /\ r.amt_read = 0
  BY <1>1
<1>3. Carried(r.data) = <<Mark>>
  BY DEF Carried
<1>4. r.at + 1 <= Len(written) /\ written[r.at + 1] = Mark
  <2>1. Holds(r.data, r.at)
    BY DEF Sound, Before
  <2>2. Len(<<Mark>>) = 1 /\ 1 \in 1 .. Len(<<Mark>>) /\ <<Mark>>[1] = Mark
    OBVIOUS
  <2>. QED  BY <1>3, <2>1, <2>2 DEF Holds
<1>. QED  BY <1>2, <1>4 DEF Position

LEMMA PollReadSound ==
    ASSUME Inv, NEW room \in Rooms, PollRead(room)
    PROVE  /\ TypeOK'
           /\ Sound(inq, read)'
           /\ ReturnsNothing \/ \E n \in Nat : Returns(n)
<1>. PICK f : f = Filled
  OBVIOUS
<1>1. FilledFrom(f) /\ TypeOK /\ Sound(inq, read) /\ ~ f.wait /\ ~ f.err
  BY FilledSound DEF Inv, PollRead
<1>. PICK r : r = f.read
  OBVIOUS
<1>2. PICK q \in Seq(Items) : q = f.inq
  BY <1>1 DEF FilledFrom
<1>3. ReadType(r) /\ Sound(q, r) /\ Position(q, r) = Position(inq, read) /\ r # Pending
  BY <1>1, <1>2 DEF FilledFrom
<1>4. PICK n : n = Least(room, Len(r.data) - r.amt_read)
  OBVIOUS
<1>5. /\ inq' = q
      /\ IF r = Terminated THEN read' = r /\ got' = <<>>
         ELSE /\ got' = SubSeq(r.data, r.amt_read + 1, r.amt_read + n)
              /\ read' = Advanced(r, n)
      /\ eof' = (got' = <<>>)
      /\ UNCHANGED <<over, items, written, writeVars>>
  BY <1>2, <1>4 DEF PollRead
<1>6. written \in Seq(Nat) /\ room \in Nat \ {0}
  BY <1>1, WsAssumption DEF TypeOK, WsAssumption
<1>7. CASE r = Terminated
  <2>1. got' = <<>> /\ eof' = TRUE /\ read' = r
    BY <1>5, <1>7
  <2>2. TypeOK' /\ Sound(inq, read)' /\ Position(inq, read)' = Position(q, r)
    <3>1. got' \in Seq(Nat) /\ eof' \in BOOLEAN
      BY <2>1
    <3>. QED  BY <1>1, <1>3, <1>5, <2>1, <3>1, ReadSound
  <2>3. Position(q, r) = Len(written) /\ over
    BY <1>3, <1>7, EmptySound DEF Sound, Before, Position, Terminated
  <2>. QED  BY <1>3, <1>5, <2>1, <2>2, <2>3 DEF ReturnsNothing, AtEnd
<1>8. CASE r # Terminated
  <2>1. r \in [kind : {"Ready"}, data : Bytes, amt_read : Nat, at : Nat]
        /\ (r.amt_read = 0 \/ r.amt_read < Len(r.data))
    BY <1>3, <1>8 DEF ReadType
  <2>2. /\ r.data \in Bytes /\ r.amt_read \in Nat /\ r.kind = "Ready"
        /\ Len(r.data) \in Nat /\ r.amt_read <= Len(r.data)
    BY <2>1 DEF Bytes
  <2>3. n \in Nat /\ n <= Len(r.data) - r.amt_read
    <3>1. PICK l \in Nat, a \in Nat : l = Len(r.data) /\ a = r.amt_read /\ a <= l
      BY <2>2
    <3>2. PICK d \in Nat : d = l - a
      BY <3>1
    <3>3. Least(room, d) \in Nat /\ Least(room, d) <= d
      BY <1>6 DEF Least
    <3>. QED  BY <1>4, <3>1, <3>2, <3>3
  <2>4. n = 0 => Len(r.data) = 0 /\ r.amt_read = 0
    BY <1>4, <1>6, <2>1, <2>2 DEF Least
  <2>5. n = 0 => r.data = <<>>
    BY <2>2, <2>4 DEF Bytes
  <2>6. /\ ReadType(Advanced(r, n)) /\ Sound(q, Advanced(r, n))
        /\ r.data # <<>> => Position(q, Advanced(r, n)) = Position(q, r) + n
        /\ r.data = <<>> => Position(q, Advanced(r, n)) = Position(q, r) + 1
    BY <1>3, <1>6, <2>2, <2>3, <2>5, AdvancedSound
  <2>7. got' = SubSeq(r.data, r.amt_read + 1, r.amt_read + n) /\ read' = Advanced(r, n)
    BY <1>5, <1>8
  <2>8. got' \in Seq(Nat) => /\ TypeOK' /\ Sound(inq, read)'
                             /\ Position(inq, read)' = Position(q, Advanced(r, n))
    <3>1. eof' \in BOOLEAN
      BY <1>5
    <3>2. PICK s : s = Advanced(r, n)
      OBVIOUS
    <3>. QED  BY <1>1, <1>5, <2>6, <2>7, <3>1, <3>2, ReadSound
  <2>9. CASE n = 0
    <3>1. got' = <<>>
      BY <2>4, <2>7, <2>9, SubSeqEmpty
    <3>2. /\ Position(q, r) \in Nat /\ Position(q, r) < Len(written)
          /\ written[Position(q, r) + 1] = Mark
      BY <1>3, <1>6, <2>2, <2>5, <2>9, EmptyIsMark
    <3>3. TypeOK' /\ Sound(inq, read)' /\ Position(inq, read)' = Position(q, r) + 1
      BY <2>5, <2>6, <2>8, <2>9, <3>1
    <3>4. eof' = TRUE
      BY <1>5, <3>1
    <3>. QED  BY <1>3, <1>5, <3>1, <3>2, <3>3, <3>4 DEF ReturnsNothing, AtMark
  <2>10. CASE n # 0
    <3>1. /\ Position(q, r) \in Nat
          /\ Position(q, r) + n <= Len(written)
          /\ got' = SubSeq(written, Position(q, r) + 1, Position(q, r) + n)
          /\ got' \in Bytes \ {<<>>}
      <4>1. PICK j \in Nat \ {0} : j = n
        BY <2>3, <2>10
      <4>2. j <= Len(r.data) - r.amt_read
        BY <2>3, <4>1
      <4>3. written \in Seq(Nat) /\ ReadType(r) /\ Sound(q, r) /\ r.kind = "Ready"
        BY <1>3, <1>6, <2>2
      <4>4. /\ Position(q, r) \in Nat
            /\ Position(q, r) + j <= Len(written)
            /\ SubSeq(r.data, r.amt_read + 1, r.amt_read + j)
                   = SubSeq(written, Position(q, r) + 1, Position(q, r) + j)
            /\ SubSeq(r.data, r.amt_read + 1, r.amt_read + j) \in Bytes \ {<<>>}
        BY <4>2, <4>3, ReadsStream, ZenonT(60)
      <4>. QED  BY <2>7, <4>1, <4>4
    <3>2. got' \in Seq(Nat)
      BY <3>1 DEF Bytes
    <3>3. r.data # <<>>
      BY <2>2, <2>3, <2>10
    <3>4. TypeOK' /\ Sound(inq, read)' /\ Position(inq, read)' = Position(q, r) + n
      BY <2>6, <2>8, <3>2, <3>3
    <3>5. eof' = FALSE
      BY <1>5, <3>1
    <3>6. Returns(n)
      BY <1>3, <1>5, <2>3, <2>10, <3>1, <3>4, <3>5 DEF Returns
    <3>. QED  BY <2>3, <3>4, <3>6
  <2>. QED  BY <2>9, <2>10
<1>. QED  BY <1>7, <1>8

LEMMA PollFillBufSound ==
    ASSUME Inv, PollFillBuf
    PROVE  /\ TypeOK'
           /\ Sound(inq, read)'
           /\ \/ ReturnsNothing
              \/ /\ UNCHANGED <<over, got, eof, written>>
                 /\ Position(inq, read)' = Position(inq, read)
<1>. PICK f : f = Filled
  OBVIOUS
<1>1. FilledFrom(f) /\ TypeOK /\ Sound(inq, read) /\ ~ f.wait /\ ~ f.err
  BY FilledSound DEF Inv, PollFillBuf
<1>. PICK r : r = f.read
  OBVIOUS
<1>2. PICK q \in Seq(Items) : q = f.inq
  BY <1>1 DEF FilledFrom
<1>3. ReadType(r) /\ Sound(q, r) /\ Position(q, r) = Position(inq, read) /\ r # Pending
  BY <1>1, <1>2 DEF FilledFrom
<1>4. /\ inq' = q /\ read' = r
      /\ IF r = Terminated \/ r.data = <<>> THEN got' = <<>> /\ eof' = TRUE
         ELSE UNCHANGED <<got, eof>>
      /\ UNCHANGED <<over, items, written, writeVars>>
  BY <1>2 DEF PollFillBuf
<1>5. written \in Seq(Nat)
  BY <1>1 DEF TypeOK
<1>6. TypeOK' /\ Sound(inq, read)' /\ Position(inq, read)' = Position(q, r)
  <2>1. got' \in Seq(Nat)
    <3>1. got \in Seq(Nat) /\ (got' = <<>> \/ got' = got)
      BY <1>1, <1>4 DEF TypeOK
    <3>. QED  BY <3>1, EmptySeq
  <2>2. eof' \in BOOLEAN
    BY <1>1, <1>4 DEF TypeOK
  <2>. QED  BY <1>1, <1>3, <1>4, <2>1, <2>2, ReadSound
<1>7. CASE r = Terminated
  <2>1. Position(q, r) = Len(written) /\ over
    BY <1>3, <1>7, EmptySound DEF Sound, Before, Position, Terminated
  <2>. QED  BY <1>3, <1>4, <1>6, <1>7, <2>1 DEF ReturnsNothing, AtEnd
<1>8. CASE r # Terminated /\ r.data = <<>>
  <2>1. r.kind = "Ready"
    BY <1>3, <1>8 DEF ReadType
  <2>2. /\ Position(q, r) \in Nat /\ Position(q, r) < Len(written)
        /\ written[Position(q, r) + 1] = Mark
    BY <1>3, <1>5, <1>8, <2>1, EmptyIsMark
  <2>. QED  BY <1>3, <1>4, <1>6, <1>8, <2>2 DEF ReturnsNothing, AtMark
<1>9. CASE r # Terminated /\ r.data # <<>>
  BY <1>3, <1>4, <1>6, <1>9
<1>. QED  BY <1>7, <1>8, <1>9

LEMMA ConsumeSound ==
    ASSUME Inv, NEW n \in Rooms, Consume(n)
    PROVE  /\ TypeOK'
           /\ Sound(inq, read)'
           /\ Returns(n)
<1>1. TypeOK /\ Sound(inq, read) /\ n \in Nat \ {0} /\ written \in Seq(Nat)
  BY WsAssumption DEF WsAssumption, Inv, TypeOK
<1>. PICK r : r = read
  OBVIOUS
<1>2. PICK q \in Seq(Items) : q = inq
  BY DEF Inv, TypeOK
<1>3. ReadType(r) /\ Sound(q, r)
  BY <1>1, <1>2 DEF ReadType, TypeOK
<1>4. /\ r.kind = "Ready" /\ n <= Len(r.data) - r.amt_read
      /\ got' = SubSeq(r.data, r.amt_read + 1, r.amt_read + n)
      /\ eof' = FALSE /\ read' = Advanced(r, n) /\ inq' = q
      /\ UNCHANGED <<over, items, written, writeVars>>
  BY <1>2 DEF Consume
<1>5. r \in [kind : {"Ready"}, data : Bytes, amt_read : Nat, at : Nat]
  BY <1>3, <1>4 DEF ReadType, Pending, Terminated
<1>6. r.data # <<>>
  <2>1. r.amt_read \in Nat
    BY <1>5
  <2>. QED  BY <1>1, <1>4, <2>1
<1>7. /\ ReadType(Advanced(r, n)) /\ Sound(q, Advanced(r, n))
      /\ Position(q, Advanced(r, n)) = Position(q, r) + n
  <2>1. n \in Nat /\ n # 0
    BY <1>1
  <2>. QED  BY <1>1, <1>3, <1>4, <1>6, <2>1, AdvancedSound
<1>8. /\ Position(q, r) \in Nat
      /\ Position(q, r) + n <= Len(written)
      /\ got' = SubSeq(written, Position(q, r) + 1, Position(q, r) + n)
      /\ got' \in Bytes
  BY <1>1, <1>3, <1>4, ReadsStream
<1>9. TypeOK' /\ Sound(inq, read)' /\ Position(inq, read)' = Position(q, Advanced(r, n))
  <2>1. got' \in Seq(Nat)
    BY <1>8 DEF Bytes
  <2>2. PICK s : s = Advanced(r, n)
    OBVIOUS
  <2>3. eof' \in BOOLEAN
    BY <1>4
  <2>. QED  BY <1>1, <1>4, <1>7, <2>1, <2>2, <2>3, ReadSound
<1>10. Returns(n)
  BY <1>1, <1>2, <1>4, <1>7, <1>8, <1>9 DEF Returns
<1>. QED  BY <1>9, <1>10

------------------------------------------------------------------------------
(* The invariant, and what it gives. *)

LEMMA InvInit ==
    ASSUME Init
    PROVE  Inv
<1>1. TypeOK
  <2>1. inq \in Seq(Items) /\ written \in Seq(Nat) /\ got \in Seq(Nat)
    BY DEF Init
  <2>2. items \in 0 .. MaxItems /\ started \in 0 .. MaxWrites
    BY WsAssumption DEF Init, WsAssumption
  <2>. QED  BY <2>1, <2>2 DEF Init, TypeOK
<1>2. Before(<<>>, Pending)
  BY DEF Before, Pending, Terminated
<1>. QED  BY <1>1, <1>2, EmptySound DEF Init, Inv, Sound

LEMMA PeerSound ==
    ASSUME Inv, Peer
    PROVE  TypeOK' /\ Sound(inq, read)'
<1>1. ASSUME OtherArrives PROVE TypeOK' /\ Sound(inq, read)'
  <2>1. Arrives(Item("Other")) /\ written' = written /\ over' = FALSE
    BY <1>1 DEF OtherArrives, Arrives, Inv, TypeOK
  <2>2. over' = ("Other" # "Other")
    BY <2>1
  <2>. QED  BY <2>1, <2>2, ItemSound
<1>2. ASSUME NEW type \in Errors \cup {"Close"}, LastArrives(type)
      PROVE  TypeOK' /\ Sound(inq, read)'
  <2>1. Arrives(Item(type)) /\ written' = written /\ over' = (type # "Other")
    BY <1>2 DEF LastArrives, Errors
  <2>. QED  BY <2>1, ItemSound
<1>. QED  BY <1>1, <1>2, BinarySound, EndSound DEF Peer

LEMMA ReaderSound ==
    ASSUME Inv, Reader
    PROVE  TypeOK' /\ Sound(inq, read)'
BY NothingReadSound, PollReadSound, PollFillBufSound, ConsumeSound DEF Reader

LEMMA WriterSound ==
    ASSUME Inv, Writer
    PROVE  /\ TypeOK'
           /\ Sound(inq, read)'
           /\ UNCHANGED readVars
           /\ (shut \/ write = "Closed") => started' = started /\ write' = "Closed"
           /\ (shut => write = "Closed")'
<1>1. UNCHANGED readVars
  BY DEF Writer, PollWrite, PollFlush, PollShutdown
<1>2. Sound(inq, read)'
  <2>1. Chained(inq)'
    BY <1>1 DEF Inv, Sound, Chained, Holds, Begin, Size, Carried, Mark, readVars
  <2>2. Skipped(inq)'
    BY <1>1 DEF Inv, Sound, Skipped, Begin, readVars
  <2>3. Fused(inq)' /\ Before(inq, read)'
    BY <1>1 DEF Inv, Sound, Fused, Before, Holds, Begin, Carried, Errors, Terminated, Mark, readVars
  <2>. QED  BY <2>1, <2>2, <2>3 DEF Sound
<1>3. /\ write' \in {"Ready", "Closed"}
      /\ write = "Closed" => write' = "Closed" /\ started' = started
      /\ shut' \in BOOLEAN
      /\ shut' = shut \/ write' = "Closed"
  BY DEF Writer, PollWrite, PollFlush, PollShutdown, Failed, Inv, TypeOK
<1>4. started' \in 0 .. MaxWrites
  BY WsAssumption DEF WsAssumption, Writer, PollWrite, PollFlush, PollShutdown, Inv, TypeOK
<1>5. answer' \in {"none", "ok", "wait", "zero", "error"}
  BY DEF Writer, PollWrite, PollFlush, PollShutdown, Failed, Inv, TypeOK
<1>6. TypeOK'
  <2>1. read' = read /\ inq' = inq
    BY <1>1 DEF readVars
  <2>. QED  BY <1>1, <1>3, <1>4, <1>5, <2>1 DEF Inv, TypeOK, readVars
<1>. QED  BY <1>1, <1>2, <1>3, <1>6 DEF Inv

LEMMA PeerAndReaderLeaveWriter ==
    ASSUME Peer \/ Reader
    PROVE  UNCHANGED writeVars
BY DEF Peer, Reader, BinaryArrives, OtherArrives, LastArrives, EndArrives, Arrives,
       NothingRead, PollRead, PollFillBuf, Consume

LEMMA InvStep ==
    ASSUME Inv, [Next]_vars
    PROVE  Inv'
<1>1. CASE Peer \/ Reader
  <2>1. TypeOK' /\ Sound(inq, read)'
    BY <1>1, PeerSound, ReaderSound
  <2>2. UNCHANGED writeVars
    BY <1>1, PeerAndReaderLeaveWriter
  <2>. QED  BY <2>1, <2>2 DEF Inv, writeVars
<1>2. CASE Writer
  BY <1>2, WriterSound DEF Inv
<1>3. CASE UNCHANGED vars
  <2>. USE <1>3 DEF vars, readVars, writeVars
  <2>1. TypeOK'
    BY DEF Inv, TypeOK
  <2>2. Chained(inq)'
    BY DEF Inv, Sound, Chained, Holds, Begin, Size, Carried, Mark
  <2>3. Skipped(inq)'
    BY DEF Inv, Sound, Skipped, Begin
  <2>4. Fused(inq)' /\ Before(inq, read)'
    BY DEF Inv, Sound, Fused, Before, Holds, Begin, Carried, Errors, Terminated, Mark
  <2>. QED  BY <2>1, <2>2, <2>3, <2>4 DEF Inv, Sound
<1>. QED  BY <1>1, <1>2, <1>3 DEF Next, Peer, Reader, Writer

LEMMA InvAlways == Spec => []Inv
BY InvInit, InvStep, PTL DEF Spec

(***************************************************************************)
(* Messages, ReadState and counters stay of their types; in particular no  *)
(* message that was read to its end stays in ReadState::Ready.             *)
(***************************************************************************)
THEOREM TypeCorrect == Spec => []TypeOK
<1>1. Inv => TypeOK
  BY DEF Inv
<1>. QED  BY <1>1, InvAlways, PTL

(***************************************************************************)
(* poll_write starts no message once poll_shutdown was called or the state *)
(* is Closed, and the state stays Closed.                                  *)
(***************************************************************************)
THEOREM NothingWritten == Spec => NothingAfterShutdown
<1>1. Inv /\ [Next]_vars
        => [(shut \/ write = "Closed") => started' = started /\ write' = "Closed"]_vars
  <2>. SUFFICES ASSUME Inv, [Next]_vars, shut \/ write = "Closed"
                PROVE  vars' = vars \/ (started' = started /\ write' = "Closed")
    OBVIOUS
  <2>1. CASE Peer \/ Reader
    BY <2>1, PeerAndReaderLeaveWriter DEF Inv, writeVars
  <2>2. CASE Writer
    BY <2>2, WriterSound
  <2>3. CASE UNCHANGED vars
    BY <2>3
  <2>. QED  BY <2>1, <2>2, <2>3 DEF Next, Peer, Reader, Writer
<1>. QED  BY <1>1, InvAlways, PTL DEF Spec, NothingAfterShutdown

------------------------------------------------------------------------------
(* Refinement. *)

LEMMA TakenAgain ==
    ASSUME Inv, Inv'
    PROVE  Taken = Position(inq, read) /\ Taken' = Position(inq, read)'
<1>1. Taken = Position(inq, read)
  BY TakenIs DEF Inv, TypeOK
<1>2. inq' \in Seq(Items)
  BY DEF Inv, TypeOK
<1>3. Taken' = Position(inq, read)'
  BY <1>2 DEF Taken, Position, Begin
<1>. QED  BY <1>1, <1>3

\* A message arrives: a Write.
LEMMA BinaryWrites ==
    ASSUME Inv, Inv', NEW size \in Sizes, BinaryArrives(size)
    PROVE  Stream!Write
<1>1. PICK data \in Bytes : written' = written \o Carried(data)
  BY BinarySound
<1>2. written \in Seq(Nat) /\ Carried(data) \in Seq(Nat) /\ Len(Carried(data)) \in Nat \ {0}
  BY CarriedType DEF Inv, TypeOK
<1>3. Len(written') = Len(written) + Len(Carried(data)) /\ written' \in Seq(Nat)
  BY <1>1, <1>2, ConcatProperties
<1>4. SubSeq(written, 1, Len(written)) = SubSeq(written', 1, Len(written))
  <2>1. SubSeq(written, 1, Len(written)) = written
    BY <1>2, SubSeqFull
  <2>2. SubSeq(written \o Carried(data), 1, Len(written)) = written
    BY <1>2
  <2>. QED  BY <1>1, <2>1, <2>2
<1>5. Len(written) \in Nat /\ Len(written) <= Len(written') /\ written # written'
  BY <1>2, <1>3
<1>6. ~ over /\ UNCHANGED <<over, got, eof>>
  BY DEF BinaryArrives, Arrives
<1>7. Taken' = Taken
  BY BinarySound, TakenAgain
<1>. QED  BY <1>4, <1>5, <1>6, <1>7 DEF Stream!Write, Stream!IsStrictPrefix, Stream!IsPrefix

LEMMA LastCloses ==
    ASSUME Inv, Inv', \/ EndArrives \/ \E type \in Errors \cup {"Close"} : LastArrives(type)
    PROVE  Stream!Close
<1>1. over' = TRUE /\ UNCHANGED <<written, got, eof>>
  BY DEF EndArrives, LastArrives, Arrives
<1>2. Position(inq, read)' = Position(inq, read)
  <2>1. ASSUME NEW type \in Errors \cup {"Close"}, LastArrives(type)
        PROVE  Position(inq, read)' = Position(inq, read)
    <3>1. Arrives(Item(type)) /\ written' = written /\ over' = (type # "Other")
      BY <2>1 DEF LastArrives, Errors
    <3>. QED  BY <3>1, ItemSound
  <2>. QED  BY <2>1, EndSound
<1>3. Taken' = Taken
  BY <1>2, TakenAgain
<1>. QED  BY <1>1, <1>3 DEF Stream!Close

\* What the reader gets is a Read, or a ReadNothing.
LEMMA ReturnsReads ==
    ASSUME Inv, Inv', NEW n \in Nat, Returns(n)
    PROVE  Stream!Read
<1>1. PICK a \in Nat : a = Taken
  BY TakenAgain DEF Returns
<1>2. /\ n \in Nat \ {0} /\ a + n <= Len(written) /\ Taken' = a + n
      /\ got' = SubSeq(written, a + 1, a + n)
      /\ got' \in Bytes /\ eof' = FALSE /\ UNCHANGED <<over, written>>
  BY <1>1, TakenAgain DEF Returns
<1>3. Len(written) \in Nat
  BY DEF Inv, TypeOK
<1>4. Taken' \in Taken + 1 .. Len(written)
  BY <1>1, <1>2, <1>3
<1>5. Mark \notin Stream!ToSet(got')
  BY <1>2 DEF Bytes, Stream!ToSet
<1>. QED  BY <1>1, <1>2, <1>4, <1>5 DEF Stream!Read

LEMMA ReturnsNothingReads ==
    ASSUME Inv, Inv', ReturnsNothing
    PROVE  Stream!ReadNothing
<1>1. got' = <<>> /\ eof' = TRUE /\ UNCHANGED <<over, written>>
  BY DEF ReturnsNothing
<1>2. \/ Taken = Len(written) /\ over /\ Taken' = Taken
      \/ /\ Taken < Len(written) /\ written[Taken + 1] = Mark
         /\ Taken' \in {Taken, Taken + 1}
  BY TakenAgain DEF ReturnsNothing, AtEnd, AtMark
<1>. QED  BY <1>1, <1>2 DEF Stream!ReadNothing

LEMMA StepRefines ==
    ASSUME Inv, Inv', [Next]_vars
    PROVE  [Stream!Next]_(Stream!vars)
<1>1. CASE \E size \in Sizes : BinaryArrives(size)
  BY <1>1, BinaryWrites DEF Stream!Next
<1>2. CASE OtherArrives
  <2>1. Arrives(Item("Other")) /\ written' = written /\ over' = FALSE
    BY <1>2 DEF OtherArrives, Arrives, Inv, TypeOK
  <2>2. over' = ("Other" # "Other")
    BY <2>1
  <2>3. Position(inq, read)' = Position(inq, read)
    BY <2>1, <2>2, ItemSound
  <2>4. UNCHANGED <<written, over, got, eof>>
    BY <1>2 DEF OtherArrives, Arrives
  <2>. QED  BY <2>3, <2>4, TakenAgain DEF Stream!vars
<1>3. CASE EndArrives \/ \E type \in Errors \cup {"Close"} : LastArrives(type)
  BY <1>3, LastCloses DEF Stream!Next
<1>4. CASE NothingRead
  <2>1. /\ UNCHANGED <<over, got, eof, written>>
        /\ Position(inq, read)' = Position(inq, read)
    BY <1>4, NothingReadSound
  <2>. QED  BY <2>1, TakenAgain DEF Stream!vars
<1>5. CASE \E room \in Rooms : PollRead(room)
  <2>1. ReturnsNothing \/ \E n \in Nat : Returns(n)
    BY <1>5, PollReadSound
  <2>. QED  BY <2>1, ReturnsReads, ReturnsNothingReads DEF Stream!Next
<1>6. CASE PollFillBuf
  <2>1. \/ ReturnsNothing
        \/ /\ UNCHANGED <<over, got, eof, written>>
           /\ Position(inq, read)' = Position(inq, read)
    BY <1>6, PollFillBufSound
  <2>2. CASE ReturnsNothing
    BY <2>2, ReturnsNothingReads DEF Stream!Next
  <2>3. CASE UNCHANGED <<over, got, eof, written>> /\ Position(inq, read)' = Position(inq, read)
    BY <2>3, TakenAgain DEF Stream!vars
  <2>. QED  BY <2>1, <2>2, <2>3
<1>7. CASE \E n \in Rooms : Consume(n)
  <2>1. PICK n \in Rooms : Returns(n)
    BY <1>7, ConsumeSound
  <2>2. n \in Nat
    BY WsAssumption DEF WsAssumption
  <2>. QED  BY <2>1, <2>2, ReturnsReads DEF Stream!Next
<1>8. CASE Writer \/ UNCHANGED vars
  <2>1. UNCHANGED readVars
    BY <1>8, WriterSound DEF vars
  <2>2. Taken' = Taken
    BY <2>1 DEF readVars, Taken
  <2>. QED  BY <2>1, <2>2 DEF readVars, Stream!vars
<1>. QED  BY <1>1, <1>2, <1>3, <1>4, <1>5, <1>6, <1>7, <1>8 DEF Next, Writer

(***************************************************************************)
(* WsByteStream is a stream of bytes: whatever the peer's messages, the    *)
(* errors and the reader's buffers, no byte is lost, repeated or           *)
(* reordered, and "nothing" is read only at the end or at an empty message.*)
(***************************************************************************)
THEOREM ImplementsByteStream == Spec => RefinesByteStream
<1>1. Init => Stream!Init
  BY DEF Init, Stream!Init, Taken, Pending
<1>2. Inv /\ Inv' /\ [Next]_vars => [Stream!Next]_(Stream!vars)
  BY StepRefines
<1>. QED  BY <1>1, <1>2, InvAlways, PTL DEF Spec, RefinesByteStream, Stream!Spec
==============================================================================
