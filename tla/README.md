# mesquitte-client in TLA+

A verification development for `mesquitte-client`, an asynchronous MQTT 3.1.1
client in Rust (tokio). Paths are those of the repository (`src/client.rs` is
the crate's `src/client.rs`); "the user" is the program that calls the library.

The development has six parts:

| layer | modules | question |
|---|---|---|
| packet identifiers | `PacketIds`, `PacketIdAllocator`, `PacketIdLoop` | does the search loop of `get_id` hand out the right identifier, and end? |
| the client | `ClientState`, `Net`, `Broker`, `MqttClient` | do requests, losses, reconnections and resubscriptions resolve correctly, whatever the interleaving? |
| incoming messages | `Inbound` | is a message handed over once, whatever is lost, sent again or forgotten? |
| time | `KeepAlive` | does the server hear from the client often enough, and the client of a peer that vanished? |
| data structures | `HandlerStore`, `TopicTrie`; `ByteStream`, `WsByteStream` | does the trie of handlers implement a flat store, the WebSocket adapter a stream of bytes? |
| proofs | `PacketIdsTheorems`, `PacketIdLoopProofs`, `MqttClientProofs`, `MqttClientAcks`, `InboundProofs`, `KeepAliveProofs`, `TopicTrieProofs`, `WsByteStreamProofs` | the same for every value of the constants |

TLC runs each `.cfg` on the MC module of its part (`MCPacketIdLoop`,
`MCMqttClient`, `MCInbound`, `MCKeepAlive`, `MCTopicTrie`, `MCWsByteStream`; for
instance `tlc -config MCBlock.cfg MCMqttClient`); `tlapm` checks each proof module.
`PROJECT.json` lists the runs, the source lines behind every definition, the
hazards, the theorems, and for each property a plausible bug that breaks it.

## 1. Inventory of the system

### Components, state, operations

| component | source | state | operations |
|---|---|---|---|
| Packet identifiers | `pkid.rs` | `index` (identifier to token), `last_issued_id` | `get_id`, `claim_id`, `get_token`, `free_id`, `clean_up` |
| Request tokens | `token/` | an `Arc<Mutex<inner>>` per request: complete, error, waker, subscriptions or topics | `flow_complete`, `set_error`, `poll` |
| Client methods | `client.rs` | `connect_status`, `manual_disconnect`, `notify`, `state` | `connect`, `disconnect`, `publish`, `subscribe`, `subscribe_multiple`, `unsubscribe`, `block` |
| Shared state | `state.rs` | identifiers, `subscriptions`, `topic_manager`, `pending_packets`, `outgoing_tx`, `last_sent_packet_at` | locked access by every task |
| Connection tasks | `net.rs`, spawned in `client.rs` | two channels of 8 | `read_from_server`, `write_to_server`, the supervisor that joins them |
| Incoming publishes | `net.rs`, `state.rs` | `pending_packets`: a cache with a lifetime of 60 s | `handle_publish`, `handle_pubrel` |
| Keep alive | `net.rs` | `exit`, `last_sent_packet_at` | `keep_alive` |
| Topic trie | `topic_trie.rs`, `topic_store.rs` | tree of filters with handlers | `add`, `remove`, `clear`, `match_topic` |
| Transports | `transport.rs` | none | TCP (address loop, timeout), WebSocket, QUIC |
| WebSocket stream | `ws_stream.rs` | `ReadState` with a partly read message, `WriteState` | `poll_read`, `poll_fill_buf`, `consume`, `poll_write`, `poll_flush`, `poll_shutdown` |
| Options | `options.rs` | configuration | getters and setters |

### How they interact

* The user's task calls a method of `MqttClient`; methods take `&mut self`, so
  one runs at a time. `block()` is a method too: while it runs no other is
  called, unless the user drops its future.
* `connect()` opens a transport, exchanges CONNECT and CONNACK, replaces
  `self.state` by a new `State` that inherits *copies* of the identifiers and
  of the subscriptions and *shares* the trie, and spawns a supervisor, which
  spawns the read loop, the write loop and `keep_alive`.
* A request registers its token under an identifier, puts its packet in the
  bounded `outgoing` channel and returns the token, a future. The write loop
  writes the packet; the read loop handles the acknowledgement and completes
  the token it finds under the identifier. PUBREC is answered with PUBREL
  through a second bounded channel, `msg`.
* When both loops have ended, the supervisor sets the status to Disconnected
  and fails every registered token with ConnectionLost. `block()` polls the
  status, gives itself a permit (`notify`), reconnects, and, when the server
  resumed no session, clears identifiers and handlers and subscribes again.

### What is hard, and the properties that matter

| component | hard behaviour | what makes it correct |
|---|---|---|
| Packet identifiers | wrap-around of a `u16`, a full table, an index and a counter that must agree | the first vacant identifier after the last, never one in use, 0 exactly when full; the loop ends |
| Requests | identifiers reused while packets are in flight; errors and acknowledgements that race; two channels that can be full at the same time | an acknowledgement reaches its own token; success means the server acted; success is final; nothing stays pending after a loss |
| Connections | three tasks and a status they share with `connect()` | one live connection; Connected means supervised; a loss is noticed |
| `block()` | losses during a reconnection or a resubscription; a permit that outlives its reason; a wrapping retry counter | it always reacts, never reconnects a client that needs none, and leaves no handler the server does not feed |
| Handlers | a list attached to the token after its packet was sent; a trie cleared and filled again | every handler is remembered for the next reconnection |
| Incoming messages | exchanges interrupted at any step and resumed; a cache that expires, and outlives sessions; a handler attached after the server may publish | QoS 2 at most once; what is acknowledged was handed over; nothing from a lost session; every exchange ends |
| Keep alive | a sleep computed from a time another task moves; a channel that blocks, then closes | bounded silence; a dead peer is noticed; the task ends after its connection |
| Trie | pruning on removal, wildcards, filters inserted twice | implements a flat store; matches what MQTT says, each filter once; no dead branch |
| WebSocket stream | messages cut anywhere, errors and other messages between two reads, a close handshake that waits | every byte once and in order; the end only at the end; nothing accepted after it |

The hazards are listed with their lines in `PROJECT.json`.

## 2. What the modules model

### Packet identifiers

`PacketIds` holds the definitions both layers share: `Ids` is
`1 .. PKID_MAX` (65535 in the code, a constant here), `NextVacant(index, last)`
is *what* `get_id` must find, the vacant identifier at the least cyclic
distance after the last one issued, or 0.

`PacketIdAllocator` is the abstract specification: `get_id` is one step that
returns `NextVacant`. `PacketIdLoop` is the code: `Scan` is one turn of the
loop, with `i += 1` on an integer that wraps (`NextI`), the `looped` flag, and
the exit test (`Exhausted`). `overflow_checks` distinguishes the two build
profiles: a debug build panics where `i` would overflow, a release build wraps.
`claim_id` is modelled although nothing in the crate calls it. Completion,
`free_id` and `clean_up` are the other steps; they cannot happen between two
turns of the loop, because the table is behind a lock. `resolved` is a ghost.

### The client

`ClientState` declares the shared variables. `self.state` is replaced on every
accepted CONNACK, so a `State` is numbered by its connection: `index[c]`,
`subscriptions[c]`, `outgoing[c]`... and `cur` says which one `self.state`
points to; 0 is the one of `MqttClient::new`. `topic_manager` is the set of
filters that have a handler: the trie is shared by all states, and only that
set matters here. A packet carries the identifier, as in the code, and as a
ghost (`tok`) the request it belongs to: nothing reads it but the properties.

| module | state | actions |
|---|---|---|
| `Net` | `read_task`, `write_task`, `supervisor`, the channels, `flushing` | one per handler of the read loop, one per outcome of an arm of the write loop's `select!`, and `Supervise` |
| `Broker` | `link`, `wire`, `inbox`, the server's session | external: a conforming server, a link that breaks, a session that gets lost |
| `MqttClient` | `pc` and `call` (where the user's task is), `bpc`, `cnt`, `todo`, `notify` (`block()`) | one per stretch of a method between two awaits or locks |

How steps correspond to the code:

* `connect()` is `StartConnect` (status test), `TransportConnected`, then
  `ConnackAccepted` (new `State`, tasks spawned) or `ConnectFails` (every error
  path), then `ConnectReturns` (status Connected). Between the last two a
  multi-threaded runtime may already run the spawned tasks to their end.
* A request is `StartRequest` (`is_connected()`), `GetId` (registration, then
  conversion of the topics), `Send` / `SendBlocks` / `SendToClosed`, and for a
  subscription `AddSubscriptions`, which happens after the packet is sent.
  `disconnect()` and QoS 0 publishes skip `GetId`. `subscribe` and
  `subscribe_multiple` differ in the size of the set of topics only.
* The send of a request by the write loop has two steps, because the server
  can have the packet, and answer, before `writer.send` returns:
  `WriteOutgoing` transmits, `OutgoingWritten` completes what needs no
  acknowledgement. `WriteOutgoingFails` is an error before the server has the
  packet, `FlushFails` one after (only with `LateFlush`: a flush that waits for
  the peer, as TLS, WebSocket and QUIC streams can).
* An acknowledgement handler holds the `packet_ids` lock from the lookup to
  `free_id`, so it is one step. So is `Supervise`, which holds the status lock
  over the clean-up.
* `block()` is `BlockTick` (the sleep branch), `BlockReconnects` (the permit),
  `BlockConnectFailed`, `BlockReconnected` (clean-up, copy of the
  subscriptions, clearing of the trie), and one `BlockResubscribes` per filter,
  each waiting for the previous token. `cnt` is the `u16` counter and wraps at
  `CNT_MAX`; `Unlimited` is `None` in the options.
* `MultiThread` is the runtime. In a `current_thread` runtime spawned tasks
  run only while the user's task is suspended (`AtAwait`); with several
  threads, at any time, as in the repository's own test and examples. Two
  hazards of the code exist in the second only, at the end of `connect()` and
  after the send of a SUBSCRIBE: `ConnectedIsSupervised` and
  `HandlersAttachedBeforeAck` say that they exist in no other step.
* A reader with a PUBREC to answer and no room in `msg` is suspended in
  `msg_tx.send`: `ReaderWaits`. It sees neither a break of the link nor a
  DISCONNECT until the writer takes something out of the channel or drops it.
* `Cancel` drops the future of a suspended call: whatever it had done stays.

### Incoming messages

`Inbound` follows one filter, its handler and the messages the server has for
it over connections and sessions. `MqttClient` proves that one connection at a
time has tasks (`OneLive`), so the variables are those of the current one.

| code | module |
|---|---|
| `pending_packets`, shared by every `State` | `pending`: a message per identifier; `Expire` is its lifetime, possible at any moment |
| `topic_manager` for the filter | `handler`, set by `HandleSuback`, reset by `HandleUnsuback` and by `block()` (`Connected`) |
| `handle_publish`, one branch per QoS; `handle_pubrel` | `HandlePublish0/1/2`, `HandlePubrel`; `Hand` counts what is spawned |
| `resp`, `msg_tx.send(resp).await` | `resp` and `SendResponse`: while it waits nothing is read |
| the msg arm of the write loop | `WriteMsg`, together with what the server does on reading the response |
| the new `State` of a resumed, a new session | `Resumed`, `Connected` |

The server (external) gives an identifier to one exchange at a time, sends a
PUBLISH or PUBREL again only in a resumed session, in any order, and may
publish between SUBSCRIBE and SUBACK. `out[m]` is how far its exchange of `m`
is; `"lost"` when the session went. `excused` is a ghost: the messages whose
loss is not a wrong step of these handlers, because they came before the
SUBACK, expired, or were in flight when the filter was unsubscribed or when a
session was resumed without its handler. The first case is a hazard of the
code all the same (`net.rs:330`): the message is acknowledged and dropped.

Delivery tasks run in any order and the model keeps no order. A second
subscription of a filter that has its handler is left to `TopicTrie`. A user
who reconnects by hand without `block()` keeps the handlers of a lost session
and, subscribing again, gets two: not followed here.

### Time

`KeepAlive` has the tasks of one connection and a clock. `age` is the time
since `last_sent_packet_at`, `timer` what is left of a `sleep`, and both stop
growing where nothing tells values apart. `Tick` is possible only when no task
has anything to do at once (`Urgent`), which is the modelling assumption: a
tick is long compared with the scheduling of a task. While the link is up a
flush takes up to `F` ticks. `silence` is a ghost, the time since bytes were
last given to the link. `outgoing` is a number: which packets they are does
not matter here. A link is `"up"`, `"down"` (reads and writes fail) or
`"gone"`: the peer has vanished, writes still succeed into the kernel's buffer
or hang, and reads wait; once bytes are unconfirmed the kernel gives up some
time (`KernelGivesUp`). The code does not look for a PINGRESP, so a peer whose
kernel answers while its server hangs is never noticed, and no property says
so. A failed encoding of a packet, which would end the write loop on a link
that is up, is left out: the packets are built by the client itself.

### Data structures

`TopicTrie` maps a node, the path of levels that leads to it, to its handlers:
the tree of `Arc<RwLock<TrieNode>>` is a set of paths closed under parents.
`Insert`, `Removed` (with `Dead`, what the clean-up loop prunes), `Cleared` and
`Matching` are the trie's operations; `Granted`, `Unsubscribed`, `Forgotten`
are their callers, with the `subscriptions` map beside. One step each, although
they lock node by node: only the read loop of the one live connection adds and
removes, matching and clearing take their locks from the root down, and
`block()` clears before it subscribes again. `subscribe()` also calls
`match_topic`, but only logs the result. `HandlerStore` is the flat store the
trie implements under `handlers <- [f \in Filters |-> HandlersOf(f)]`.

`WsByteStream` has one step per poll function, which runs without a break. The
n-th byte of the peer is the number n, so that order and repetition show. What
the WebSocket returns is external: messages and errors of every kind, nothing
after the first Close or error (async-tungstenite is fused). `ByteStream` is
what a reader relies on; `taken` is mapped to the place in the stream (`at`, a
ghost of each message) where the rest of the message being read begins, or the
next message that waits. An empty Binary message is a `Mark` of the stream: it
does read as its end, which the abstract specification has to admit; a server
that sends one ends the connection. The caller of `consume` keeps to what it
was lent. The contents of writes are left out: a write is one message or none.

### Abstractions

In the client's modules, left out because no property distinguishes them: logging, wording of errors,
payloads, the order of the filters in a map, the per-filter results of a
SubscribeToken, several handlers on one filter (a set does not tell them
apart), subscriptions to an empty list of topics, and the waker.

Assumptions on the environment, each from the code or from the protocol:

* A server that conforms to MQTT 3.1.1. It may answer requests in any order,
  refuse any filter, lose its session while no connection is up, and drop an
  older connection when a new CONNECT arrives. It never answers something it
  was not asked. A read loop also ends on DISCONNECT, an unsupported or an
  undecodable packet: `ReadBreak` covers them, at any time.
* A QoS 0 publish leaves no trace once written: nothing answers it.
* Handlers given by the user do not panic in the read loop (each delivery is a
  task of its own), so `try_join!` sees both loops end without a `JoinError`.
* `outgoing_rx.recv()` never returns `None`: the write loop itself holds the
  `State` that holds the sender.
* A response packet's write (`WriteMsg`) is one step: it has no token whose
  outcome depends on when it returns. On a link that is up it may never be
  taken: no fairness is assumed there, so a write that hangs is covered.
* A link that breaks loses what is on its way to the server; what is on its way
  back is lost (`LinkBreaks`), read, or left unread (`ReadBreak`).
* The identifier table panics in a debug build on wrap-around (see
  `PacketIdLoop`); `MqttClient` uses the allocator of a release build.
* A token's name is reused for a new request once no table, channel or packet
  refers to it (`Fresh`). The user may keep the old token: it no longer
  changes, so forgetting it hides nothing.
* `keep_alive` puts a PINGREQ, without a token, in `outgoing`. It takes room
  in the channel and is otherwise invisible to requests: `KeepAlive` has it.

## 3. The runs

Every property comes with at least one mutant, a change to one definition that
a plausible bug in the code would be, under which TLC finds it violated.

| run | instance | what it shows |
|---|---|---|
| `packet_id_loop` | 3 identifiers, 4 tokens, both build profiles | `get_id` returns, never skips a vacant identifier, and implements the allocator; no token is dropped in silence |
| `requests` | 1 connection, 3 tokens, 2 identifiers, publishes of every QoS, threads | acknowledgements reach their tokens, no token is lost, success is real |
| `reconnects` | 2 connections, 2 tokens, **1** identifier, all acknowledged kinds, a session that may be resumed, threads | the tasks of an old connection never touch a new one; success is final; handlers are remembered |
| `block` | 3 connections, 2 filters, subscribe and disconnect, `current_thread` | resubscription interrupted by losses, handlers attached in time |
| `block_threads` | 2 connections, 1 filter, cancellation, retry limit 1, threads | `block()` entered again with what an earlier one left behind: permit, handlers, tokens; a stale status and a SUBACK without its handlers arise in the one step named, and in no other |
| `liveness` | 1 connection, QoS 2 publishes and disconnect, `current_thread`, no limit of retries | a loss is noticed, every request resolves, `block()` reacts |
| `liveness_threads` | 1 connection, late flush errors, no `auto_reconnect`, threads | the same, with requests that race the clean-up |
| `topic_trie` | 5 filters that overlap and are prefixes of each other, 6 topics, one of them in `$SYS`, 2 handlers, each filter twice at a time | the trie refines the store, matches as MQTT says, prunes |
| `inbound` | 4 messages (QoS 0, 1, 2, 2), 2 identifiers, 2 connections, `msg` of 1 | once at most, acknowledged means handed over, nothing stale, exchanges end |
| `keep_alive` | interval 4, flush up to 2, channel of 2 | bounded silence, a dead peer noticed, `keep_alive` ends |
| `ws_stream` | 4 messages of 0, 1 or 3 bytes or another kind, reads of 1 or 2, 2 writes | the stream of bytes is implemented; nothing after shutdown |
| `resubscribe_log` | a refused resubscription | expected violation, see below |

### Bounds

`Tokens`, `PKID_MAX`, `Topics`, `MaxConns`, `OUTGOING_CAP`, `MSG_CAP` and
`CNT_MAX` bound the instances. They are small so that limits are *met*: three
tokens over two identifiers fill the table and make it reuse identifiers; one
identifier in `reconnects` makes every request of the second connection share
the identifier of one of the first; channels of capacity 1 (8 in the code) are
full as soon as two things are queued, which is where sends block, and where
the reader waits for the writer. Two connections show every pair of an old and
a new one; `block` takes three because a resubscription begins on the second
and can be interrupted only by a third. `CNT_MAX` of 1 makes the retry counter
wrap. `MaxConns` bounds accepted connections; failed attempts are not bounded.
`Rest` is the user's freedom to ask for nothing: a client at rest is not a
deadlock. Deadlock is checked in every run, but where the client waits for the
server a break of the link or of the attempt can always end the wait: that
nothing waits for ever is what the liveness properties say. Token symmetry is
used in the runs without liveness properties.

In `inbound` two exchanges over two identifiers fill a `msg` channel of one
while a response waits, and after a lost session the same identifiers carry new
messages. In `keep_alive` a flush of half an interval is the longest for which
a server that waits one and a half intervals is satisfied; the clocks saturate
just above the bound that is checked. In `topic_trie` the filters include a
node that is a prefix of four others, both wildcards and two filters that cover
one topic, one of which starts with a wildcard and fits the `$SYS` topic. In `ws_stream` a message of three bytes is read in two or three
parts, with any message or error after it. There `CHECK_DEADLOCK` is on as
everywhere: something can always be polled.

### Fairness

`FairSpec` assumes what tokio provides. A method that does not wait for the
server goes on (`WF(UserStep)`); a connection attempt ends, because
`transport.connect` takes a timeout; a spawned task that can run does run.
The last is strong fairness, per task and per arm of a `select!`: tokio's
cooperative budget makes a busy task yield, and `select!` polls its arms in
random order, so an arm that is ready again and again is taken. Reads and
writes are fair only once the link is down, where each of them ends with what
is left to read, with success into the socket's buffer, or with an error. A
reader that waits for room in `msg` can do neither, and nothing is assumed of
it: that the writer releases it, by draining the channel or by dropping it, is
part of what `LostRequestsResolve` checks. Not assumed: a write on a link that
is up ends, the server answers, the user calls anything, the link breaks, CONNACK
arrives. The code has no timeout on CONNACK, and no liveness property here
relies on one.

`Inbound` assumes that its read loop runs, and that a link that is up brings
what was sent on it. It does not assume that the write of a response ends, nor
that the server reads it and goes on with PUBREL: `writer.send().await`
(`src/net.rs:124`) has no timeout, and on a link that stays up it can wait for
ever on a peer that does not read. `ExchangeEnds` therefore has this as an
explicit hypothesis, `PeerTakesResponses`: it says that the *client* does its
part of every exchange, not that the transport does. `KeepAlive` assumes that
time passes, that a task that can run does, and that the kernel gives up at last.
The liveness of the response arm is not assumed: an application's requests
alone may keep the writer busy.

### Properties only model checking covers

All that is about time to come: `GetIdReturns`, `LostRequestsResolve`,
`DeadConnectionNoticed`, `BlockReacts`, `ExchangeEnds`, `DeadPeerNoticed` and
`KeepAliveEnds`. They are liveness properties under fairness, which the provers
cannot reason about. Every invariant, every action property and every
refinement that a passing run checks is a theorem as well (section 4).

### Exceptions that belong to the properties

* `AckMatchesToken` excepts a request whose write failed: its token is failed
  by the write loop while it is still registered.
* `SuccessIsFinal` excepts a request whose own send is still in progress on a
  transport whose flush can fail late: there an acknowledged publish can end
  with an IOError.
* `SuccessIsReal` excepts QoS 2 with a resumed session: the client forgets the
  identifiers of an interrupted exchange, so a new publish with such an
  identifier is taken for a duplicate by the server.
* `HandlersAreFed` is for clean sessions re-established by `block()`;
  `connect()` called by hand subscribes nothing again.
* `MatchesAsMQTT` has two exceptions, where `match_topic` differs from MQTT.
  The parent level: MQTT's `a/#` covers `a`, the trie's does not, so such a
  message is acknowledged and dropped. `$` topics: section 4.7.2 keeps them
  from filters that start with a wildcard, and the trie does not, so a message
  of `$SYS/x`, received because of a filter of its own, is also handed to the
  handlers of `#` and `+/x` (`LeadingWildcard`).
* `HandlersAttachedBeforeAck` excepts, with several threads, the call that has
  sent its SUBSCRIBE and not yet reached `add_subscriptions`: a SUBACK read
  then attaches no handler. `ConnectedIsSupervised` excepts, with several
  threads, the end of a `connect()` whose tasks have ended already: the status
  then stays Connected. Both races are real in the multi-threaded runtime that
  the repository's test and examples use; nothing in the repository promises
  their absence. `DeadConnectionNoticed` is checked for `current_thread` only,
  because the second race falsifies it.
* `ExchangeEnds` has the hypothesis `PeerTakesResponses` (see Fairness).
* `SilenceBounded` counts from a `connect()` that got its CONNACK at most `F`
  ticks after CONNECT was written. `src/client.rs:209` waits for it without a
  limit, and `keep_alive` starts only then.
* `LostRequestsResolve` is for requests with an identifier; a QoS 0 publish or
  a DISCONNECT still in `outgoing` when the write loop ends is dropped with the
  channel and its token stays pending.

### A finding

`resubscribe_log`: `block()` logs `resubscribe topic {} success.` whenever the
token of the SUBSCRIBE resolves without an error (`src/client.rs:167`).
`handle_suback` completes the token without an error when the server refuses
the filter, and attaches no handler then, while the old handlers were cleared
before. So the success message is logged for a filter that has just lost its
handler.

## 4. The proofs

Checked by `tlapm` for every value of the constants that satisfies the named
assumptions (`PacketIdsAssumption`, `ClientStateAssumption`,
`BrokerAssumption`, `MqttClientAssumption`, `TopicTrieAssumption`,
`KeepAliveAssumption`, `InboundAssumption`, `WsAssumption`).

**Packet identifiers.** `NextVacantExists` (`PacketIdsTheorems`): a table that
is not full has a first vacant identifier, so `NextVacant` is well defined.
`PacketIdLoopProofs` proves type correctness, the loop invariant `ScanInv`, that
no token is dropped unresolved, and `Refinement`: `PacketIdLoop` implements
`PacketIdAllocator`. `ScanInv` is what makes it inductive: every identifier
tried so far is in use, and the search is on the side of `last_issued_id` that
`looped` says; at the exit the identifiers tried are all of `Ids`, so the table
is full, and at a vacant entry the identifier is the nearest one.

**The client.** `TypeCorrect` (`MqttClientProofs`) uses `TypeInv`: `TypeOK` and
`CallOK`, that a request in progress has a call, without which `call.tok` has
no type. The module then proves:

| theorem | inductive invariant | why it is stronger than the property |
|---|---|---|
| `OneLive` | `LiveInv` | types, and that the status is Connecting while `connect()` negotiates: with the property's own last conjuncts it gives that no supervisor is left when `ConnackAccepted` spawns the next one |
| `Remembered` | `LiveInv /\ HandlersRemembered` | a SUBACK must be read on the connection of `self.state`: `OneLive` says so |
| `PermitCurrent` | `PermitInv` | while `block()` is in its `select!` no call is in progress, and a permit is given only when a retry is left |
| `ConnectedSupervised` | `SupervisedInv` | an action property, for both runtimes: between the spawn and the new status the supervisor is there, or has ended on another thread; every other step that touches the status or the supervisor leaves no stale Connected behind |
| `NoLost` | `LostInv` | `LiveInv`; `PermitInv`, because no request is in progress while `block()` is in its `select!`; that a request in progress has a connection, and a connection its tasks (`HasConn`) |

Each follows one argument: a lemma per group of actions (the steps of a
request, of `connect()`, of the tasks, of the environment), a lemma `...Next`
that combines them, and a temporal theorem that adds the initial condition.

**Requests and their answers.** `MqttClientAcks` builds on `LostInv`. A packet
with an identifier is in one of five places: with the call that is about to send
it, in `outgoing`, on the wire, in the inbox, or (PUBREL) in `msg`. `Carried(c)`
is the set of the packets of connection `c`, each with its place.

| theorem | inductive invariant | the argument |
|---|---|---|
| `AckMatches` | `AckInv`, that is `LostInv /\ AckRest /\ Tracked` | on a supervised connection the identifier of each packet is registered for its own request (`Genuine`) and is in one place (`Single`), so an acknowledgement that frees it leaves nothing of its request behind, and `get_id` finds vacant only what no packet carries. Without `Single` the property is not inductive. `AckRest` says what the table holds, that a token not yet sent is in no channel, and that nothing was asked for on a new connection before `block()` has cleaned up (`Idleness`): its clean-up frees identifiers too |
| `SuccessFinal` | `AckInv` | what can still fail is a token in the table, that of the call in progress, or one in a channel, and none of these has succeeded |
| `SuccessReal` | `RealInv` over `AckInv` | each packet in flight is as far as the server is with its request (`Dated`); with clean sessions the server keeps a QoS 2 identifier only while it is registered (`Received`), so it takes no new publish for a duplicate |
| `HandlersAttached` | `AttachInv` over `AckInv`, for both runtimes | a SUBSCRIBE in the channel lacks its subscriptions only while its call is between the send and `AddSubscriptions`; on the wire and in the inbox the same, and only with several threads, because otherwise no task runs then that could write it. No step uses the token again before its SUBACK is read |
| `HandlersFed` | `FedInv` over `AckInv`, for `CleanSession` and `~ByHand` | a filter with a handler is subscribed, or an UNSUBSCRIBE for it is registered (`Fed`); what a SUBACK still to be read grants is subscribed, or the UNSUBACK is behind it (`Granted`); between the new connection and the clean-up nothing is added to the trie |

`CleanSession` and `~ByHand` are assumptions of `HandlersFed` because the
property is false without them (TLC finds a counterexample in the `block`
instance with each constant changed): with a resumed session, or a `connect()`
by hand, the trie and the server disagree. In each of these steps the central lemma is one
that says where every packet of the next state comes from (`MovesOne`,
`ShiftsOnly`, `Follows`, `OnlyCalls`), so that the invariant is carried over
packet by packet.

**Incoming messages.** `InboundProofs` has two layers. `Inv` ties each packet
under way to one exchange: an exchange has an identifier of its own
(`Exchanges`), a packet of either side says how far its exchange is (`Matches`),
an identifier has one packet under way at most (`OnePacket`), from the PUBREC on
the cache holds that exchange's message or nothing (`Cache`), and a message
handed over is in no cache and not published again (`HandedOnce`). From it
follow `TypeCorrect`, `HandedAtMostOnce` and, as an action property,
`NeverStale`: before the PUBREC the cache may still hold a message of a session
that is over, and `handle_publish` replaces it before `handle_pubrel` can find
it. `AcknowledgedHanded` needs the second layer, `FedInv`: the packet of an
exchange that is not excused finds the handler, or a SUBACK before it in the
inbox attaches it (`Fed`); nothing is published between UNSUBSCRIBE and UNSUBACK
(`Unsubscribing`); and a reply under way means that the message is in the cache
or was handed over (`NotDropped`). `InboundAssumption` takes the identifiers to
be finitely many: they are u16 in the code.

**The trie.** `TopicTrieProofs` starts from the order of prefixes on paths.
`Tree` strengthens `TypeOK`: only filters have handlers. The central lemma is
`RemovedIs`: what `remove()` takes away is the filter's own node or has no
handlers, because a node is dead only if everything below it is on the
filter's path and empty. From it follow `TypeCorrect`, `Refinement` (the trie
implements `HandlerStore`), `Pruned` (a kept node of the path has a handler or
a node below it, so no new dead leaf appears) and `Remembers`.

`Matches` says what the recursion of `match_topic` finds, which takes two
inductions. The provers have no induction rule that speaks of a formula, so
`Induction` speaks of the set of the numbers that have the property; it follows
from the library's theorem that `<` on `Nat` is well founded. The invariant
`Rooted` says that the trie is closed under prefixes and no deeper than some
number: by induction up from its deepest level there is a function that the
recursion defines (`BelowExists`), and `Matching` is its value at the root. By
induction from the topic's last level up to the root that value visits, each
once, the nodes that the topic reaches (`RecursionVisits`): one level of it is
`LevelAbove`, where the three branches (the level's own name, `+`, `#`) account
for all that is reached (`Branches`) and share nothing (`Apart`), because a
topic has no wildcard in it. `ReachesIsFits` relates that to MQTT's wildcards,
`ReachesIsCoversInTrie` to MQTT's whole rule and its two exceptions.

**Time.** `SilenceIsBounded` (`KeepAliveProofs`) needs to know why the sleep of
`keep_alive` ends in time. `IInv` says, while the connection lives: a flush
began when its bytes were given to the link (`FlushIsYoung`); between packets
`age` lags behind `silence` by a flush at most (`ClockIsFresh`); a sleeping
`keep_alive` wakes before the bound, unless a packet is about to be written
(`WakesInTime`); and it has not ended (`ExitIsLate`). A tick needs the last two:
it passes only while the writer flushes or `keep_alive` sleeps.

`TypeCorrect` of the same module needs no strengthening.

**The WebSocket stream.** `ImplementsByteStream` (`WsByteStreamProofs`) rests on
`Sound`: the messages that wait lie one behind the other up to the end of the
stream (`Chained`), those that carry no data take no place in it (`Skipped`),
nothing follows a Close or an error (`Fused`), and the message being read lies
before them (`Before`). `FilledSound` says that filling the buffer moves no byte
and keeps all this, whatever it skips; `ReadsStream` that what a reader is given
is the stream from where it has got to; `StepRefines` puts the steps together:
a Binary message is a Write, the last message a Close, a read a Read or a
ReadNothing, everything else a stutter. `TypeCorrect` and `NothingWritten` come
from the same invariant.

Not provable here, and left to TLC: liveness under fairness and anything with
`ENABLED`. That `get_id` returns at all is such a property; what it returns when
it does is `Refinement` of `PacketIdLoopProofs`.

## 5. Not modelled, and what is left open

Not modelled, and why:

* The waker of a token. `poll` and the two completions each hold the token's
  lock, so one task that awaits cannot miss its wake-up; that of several tasks
  awaiting clones only the last to poll is woken is plain from `impl_future!`.
* `transport.rs`: calls into libraries. `Tcp::connect` tries the addresses in
  turn, each with the timeout, and returns the last error: a loop without
  state, interleaving or retry. It panics when the name cannot be resolved,
  which `MqttClient` has as a `connect()` that is dropped half-way.
* `options.rs` (getters and setters; the ones that matter are constants),
  `lib.rs`, the examples, and the WebSocket, TLS and QUIC libraries.
* The order in which delivery tasks run, and a handler that panics.

Left open:

* The trie's locking, one lock per node: `Removed` and `Matching` are one step
  each, for the reasons given in section 2. A node-by-node module with
  `TopicTrie` as its abstract specification would show it instead of arguing it.
* The waker of a token.
* The requests without an identifier that a dying write loop leaves in its
  channel, and the other hazards that `PROJECT.json` lists with a note: each is
  a known behaviour of the code that no property contradicts.
