# Verification of DenIM: deniable messages inside regular traffic

DenIM is an instant messenger in which *deniable* payloads travel inside the
free space of *regular* messages. This directory holds TLA+ models of its
protocol code, the TLC runs that check them and TLAPS proofs about them.
Paths below are relative to `src/` of the repository.

## 1. The system and its parts

| component | source | state it keeps | operations |
|---|---|---|---|
| chunk format and chunker | `common/src/deniable/chunk.rs`, `common/src/web_api/mod.rs` | none | `create_chunks`, `Ord for DenimChunk` |
| deniable sending buffer | `client/src/storage/device.rs`, `database.rs` | table `DeniablePayload` | store, get first, update, remove |
| client commands | `client/src/client.rs`, `main.rs` | contacts, sessions, pending key requests, messages awaiting encryption, stored incoming chunks | `send_message`, `send_deniable_message`, `receive_message`, `add_contact` |
| client socket | `client/src/socket_manager.rs`, `server.rs`, `persistent_receiver.rs` | connection state, broadcast channel, request counter | `set_stream`, `send`, `wait_for_id`, `close` |
| request handlers | `server/src/server/server.rs` | none of their own | `handle_put_messages`, `handle_receiving_chunks`, `handle_keepalive`, registration, linking, deletion |
| incoming chunk buffer, outgoing payload buffer | `server/src/managers/denim/*.rs` | Redis queues per device | enqueue, flush, `dequeue_payload_data` |
| Redis queue | `server/src/storage/redis.rs` | sorted set, metadata hash, `:rev` hash, index | `insert`, `remove`, `get_values`, `dequeue_bytes` |
| message delivery | `server/src/managers/message/*.rs`, `managers/websocket/connection.rs` | message cache (Redis), message table (Postgres), persist lock | insert, `send_messages`, acknowledgement, delete |
| message persister | `server/src/persisters/message_persister.rs` | index of queues | `persist`, `persist_queue` |
| connections and presence | `server/src/managers/websocket/websocket_manager.rs`, `client_presence_manager.rs`, `availability_listener.rs` | map of connections, listeners, presence keys | register, close, keepalive, displace |
| protocol stores of the client | `client/src/storage/*.rs`, `common/src/envelope.rs` | tables of sessions and trusted identities, regular and deniable; own keys | `save_identity`, `store_session`, `remove_pre_key`, … as libsignal calls them |
| keys | `server/src/managers/key_manager.rs`, `storage/postgres.rs`, `client/src/key_manager.rs` | one-time, signed and last-resort keys | publish, take, count |
| accounts and devices | `server/src/managers/account_manager.rs`, `storage/postgres.rs` | accounts, devices, used link tokens | register, link, delete, `DestinationDeviceValidator` |

**How they interact.** A client command builds a request, fills its messages
with chunks from the sending buffer and waits for the response on the socket.
The server handles the requests of one connection one at a time, under the
mutex of the connection. The handler stores the regular messages in the cache
of each destination device, which wakes the device's connection if it is
online, and appends the chunks to the sender's incoming buffer; a Final chunk
makes it reassemble payloads and put them into the outgoing buffer of every
device of the destination account. When a regular message is sent down to a
device, its free space is filled from that buffer, and the receiving client
reassembles the payloads again. A background task moves old messages from the
cache to the database.

**What is hard.** Each leg of the deniable transport removes data from a
durable buffer *before* the message that carries it is on the wire, there is
no acknowledgement of chunks, and reassembly goes by position. Redis queues
are changed by several commands that are not a transaction while senders and
the receiver use them. The cache, the persister and the connection of a
device race for the same messages. Presence, listeners and the connection map
are separate maps that change one after the other.

**What makes each part correct.**
- deniable transport: whole payloads, each once and in order; the size of a
  message on the wire must not depend on the deniable buffers;
- message delivery: a regular message is not lost before the device had it;
- connections: a device that is connected is reachable and is notified;
- keys: a one-time key is handed out at most once, and uploads lose none;
- accounts: a link token links at most one device, and a message reaches
  exactly the devices of the account it is for;
- Redis queues: what was inserted stays until it is taken, in order;
- client stores: a message can be read, is shown once, and sessions stay with
  the identity that was pinned.

## 2. Modules

```
DenimChunks ── ChunkStream ── Uplink ── MCUplink ── UplinkProofs    DeniableChannel
     │                                  │                           (abstract channel,
     │                              FreeSpace                        INSTANCEd by Uplink
     │                                  │                            and Downlink)
     └────────────── Downlink ── MCDownlink ── DownlinkProofs

RedisQueue ── MCRedisQueue                                         (server)
     └───────────┐
MessageDelivery ── DeliveryProofs      Connections ── ConnectionsProofs
Accounts ── PutMessages ── MCPutMessages         Keys
                 └── AccountsProofs ──────────────┘

ClientStart ── ClientStores ── MCClientStores                      (client)
                    └── StoresProofs
ClientSession ── SessionProofs     ClientSocket ── SocketProofs
```

Each module is parameterised by CONSTANTS with a named ASSUME; every bound is a
constant whose name starts with `Max` (or a `...Size`, `Capacity`), and every
kind of failure can be switched on by a constant `Faults` (in `Keys`
and `RedisQueue`, whose names differ because one module of proofs extends each
of them together with another model, `Failures`).

**DenimChunks.** The chunk format both directions share. A chunk's bytes are
abstracted to the slice `lo..hi` of the payload `id` they were cut from; its
`flags` are the `i32` of the code (`Data(order)` is `order <= 0`, dummy 1, final
2). `Precedes` is `Ord for DenimChunk` with the stability of Rust's sort, and
`IsWholePayload` says that what reassembly passes to `bincode::deserialize` is
byte for byte a payload some client serialized.

**Uplink.** One sending device. `Submit` is `send_deniable_message`;
`StartRequest`, `NextPart`, `PutFinal`, `PutData`, `PutDummy` are
`Chunker::create_chunks` for the messages of one request, one step per chunk;
`SendRequest`, `ReceiveResponse` are `send_msg`. `EnqueueChunk` …
`RequestDone` are `handle_receiving_chunks` with
`flush_incoming_chunk_buffer`: one step per chunk appended, dequeued, held back
or requeued, because an error can come at each of them. The faults: the client
stops after it took chunks out of its database (`ClientCrash`), it sends the
same request twice because `wait_for_id` failed (`ResendRequest`), the socket
breaks, the request is refused, the handler returns an error or is dropped in
the middle, a destination account is unknown. When the pieces that are put
together are not a payload, decoding may refuse them (`RefuseGarbage`) or
accept them (`DecodeGarbage`); both are explored. `expect` is a history
variable: the payload the server completes next if nothing of it was lost or
repeated, 0 otherwise.

**FreeSpace** is where budgets come from: `get_free_space_in_bytes`, q times the
size of the regular content, rounded up, minus the size of an empty vector, on
`usize`. The instances of Uplink and Downlink take their budgets from it, with
the constants of the code (8 bytes for a vector, 12 for a chunk header).

**ChunkStream** gives the vocabulary of the uplink's invariant: a cursor in the
stream of payload bytes, and unbroken runs of chunks from one cursor to another.

**Downlink.** One receiving device: `Enqueue` (a payload is put in the outgoing
buffer), `StartMessage` … `SendMessage` (`create_message` and
`dequeue_payload_data`, with `dequeue_bytes` on the Redis value), and the
client's `handle_incoming_chunks` with its table of stored chunks, `Process`
being what `receive_message` does with a payload; `got` is the history of the
payloads processed. Bytes that decode although pieces are missing become a
message that is no payload of anybody and are not recorded. Faults: the socket refuses
the message after its chunks were dequeued, dequeuing fails halfway, messages
are lost at the end of a connection, the client stops between any two steps.

**DeniableChannel** is the abstract specification of both legs: payloads come
out whole, once and in the order of submission for each account; after a
failure some may be missing.

**MessageDelivery.** The regular messages of one device: `Insert` with the
spawned notification, the connection's `FetchCached`/`FetchPersisted`,
`SendMessage`, `DeleteCached`, `DeletePersisted` (`MessagesManager::delete`),
acknowledgements, joining and leaving, and the persister (`Pick` … 
`UnlockQueue`). Time is abstracted: the persister may take a queue any time
after it was indexed, and the lock may expire at any time. A call of `redis.rs`
is one step here.

**RedisQueue.** What that rests on: `insert`, `remove`, `get_values`, `dequeue`
and `dequeue_bytes` one Redis command at a time, over the four keys of a queue
(sorted set, metadata, `:rev`, index), with the key names of the three caches.
Writers insert while takers remove: the connection one message at a time, the
persister page by page, the connection byte by byte from a payload queue, the
handler itself from its chunk queues. A call may be cut short after any command.
`raced` notes the overlaps after which the keys of a queue may disagree, and a
behaviour is followed until then.

**Connections.** The connection map, the listener map and the copies of the
presence manager, with the endpoint, the readers, the notify tasks and the
mutexes they take.

**Accounts**, **Keys.** Handlers as sequences of SQL statements that interleave
and may fail between any two; transactions of the code are one step or a pair of
a read and a commit with row locks.

**PutMessages** composes `handle_put_messages` with Accounts: the devices of the
destination are read, compared with the list the sender made
(`DestinationDeviceValidator`), and each message is put in the queue of an
address, while devices are linked and deleted and their ids reused. A message
may name registration id 0, which is compared with nothing
(`destination_device_validator.rs:38`); `MaxUnnamed` bounds how many of a request
do. On a websocket the sender is the one authenticated when the connection was opened.

**ClientSession.** The commands `send`, `denim`, `read` and `quit` as sequences
of statements on the client's tables; `todo` is what the running command has
still to do, and a crash drops it. **ClientSocket**: the reader task, the
broadcast channel with its capacity, `send`/`wait_for_id`, the persistent
receiver, closing from both sides. **ClientStart**: `register` statement by
statement, `login`, and the ids of new keys. **ClientStores** adds the stores the
client hands to libsignal: which table each object stands for, which object each
caller passes, and the statements that `process_prekey_bundle`, `encrypt` and
`Envelope::decrypt` execute, `task` being what is left of them. A row of a
session table is a record of libsignal: the current session and the previous
ones, each with the messages read in it. Peers open and
continue conversations; a regular message is delivered again until it is
answered, a deniable one comes once.

`PROJECT.json` maps every definition to the lines it models. Operators whose
comment begins with *Mutant* are wrong variants of the definition that follows
them; no specification uses them. They show that a property notices the
mistake they contain.

## 3. What the runs check

| run | checks | bounds |
|---|---|---|
| `uplink_clean` | without faults the uplink implements `DeniableChannel`, a flush leaves no completed payload behind, chunks and ballast are q times the regular content whatever the deniable buffer holds, every payload is routed in the end | three payloads, two accounts, two messages per request; 316 000 states |
| `uplink_faults` | the inductive invariant `UplinkInv`; while in step, exactly the next payload is assembled; a loss never reorders payloads or repeats one, only a resent request can | all seven faults, two payloads, a page smaller than a full buffer; 552 000 states |
| `downlink` | implements `DeniableChannel` with failures; chunks in hand stay in order; payloads that lost nothing are assembled right; sizes as above; everything is processed in the end if nothing fails | all four faults, two payloads, two messages in flight; 81 000 states |
| `delivery` | a message leaves the cache only after it was written or stored, and the persister's index covers the queue; written once and in order; none stays in the cache for ever | two messages, all four faults; 914 000 states |
| `delivery_wipe` | **violated**: a message never written to the socket is still stored somewhere | no faults at all |
| `redis` | an insert that returned is kept until it is taken; sent messages are gone; values and pieces come out in order; the index covers message queues. Each but for the overlaps it names | two inserts and two takers on a message queue, two inserts of two bytes on a payload queue, three on two chunk queues, one call cut short; 472 000 states |
| `connections` | an endpoint never joins an older connection; no dead entry in the map; no standstill but the keepalive's; a device that connects after its last connection was over is in the map and is notified | two devices, two connections, all requests |
| `keys` | a one-time key is given out once, never comes back, and an upload never leaves a device without keys | three overlapping requests, two devices; 154 000 states |
| `accounts` | a link token makes one device; answered links and registrations have their rows; a message reaches every device that is there throughout; one that names a registration id is queued only for the device it was encrypted for, which was there when the request came in (for a sync message: when its sender was authenticated) | two concurrent handlers and a sender, two accounts, two tokens, one message of a request without registration id; 2 050 000 states |
| `session` | key responses are expected, contacts are usable, nothing is sent twice, nicknames are not inserted twice, messages are sent in the end | two messages, one peer, crashes anywhere |
| `socket` | no pushed message is skipped, no answer is taken for another, nothing follows the close frame, `send` returns while the connection is up | two requests, three pushed messages, a channel of two |
| `stores` | sessions are in the table of their traffic and with its pinned identity; every key the server can give out has its private half, every message can be decrypted but for three reasons; none is shown twice; the stored account exists and key ids are not reused | two conversations of one peer with two identities, three messages, crashes anywhere; 1 376 000 states |

The type invariant of a module, and facts that say little alone, are conjuncts
of one invariant per module (`DeliveryInv`, `RedisInv`, `ConnectionsInv`,
`AccountsInv`, `SessionInv`, `SocketInv`, `StoresInv`).

**Why the bounds are enough to be interesting.** Payload lengths and sizes
of regular messages are chosen, with q = 1/10, so that a payload fits exactly,
needs two chunks, shares a message with another, and meets a message with room
for a header only; the page is smaller than what a buffer can hold. Sizes are
those of padded messages: below 8/q bytes the subtraction of `chunk.rs:55`
wraps, and no message of this client is that small unless q is below 1/20. Two payloads or messages are what a reordering or a mixture needs; one
connection more than devices allow for one reconnection that overlaps. In
`session` one peer is enough because all rows are kept per peer and no command
touches two; the regular messages that carry payloads may come from that peer
or from anybody else. In `keys`, three requests allow two readers and an upload
between them. Capacity 2 of the broadcast channel (1024 in the code) lets three
pushed messages overrun a receiver. In `redis` two values and two takers meet at
the empty queue, where all the overlaps are; a page of two is full. In
`accounts` one handler deletes while the other links, so that an id changes
hands while a message is on its way. In `stores` two one-time keys stand for 100:
the ids of the post-quantum keys run ahead of them as in the code; two
conversations are what one peer needs to change its key, to use both kinds of
traffic, or to open a session while the client does.

Runs whose cfg says `CHECK_DEADLOCK FALSE` are systems that may stop: bounded
requests used up, a client that quit. `delivery`, `delivery_wipe` and `downlink`
never do.

**Fairness.** Weak fairness of the steps of a task: tokio runs a task that can
go on, and so does the client's only thread. Strong fairness where a step needs
a user or a lock:
- `uplink_clean`, `downlink`: regular messages in which a chunk fits keep being
  sent. Deniable data moves only inside them, so this is an assumption on users
  and not on the code; without it nothing is promised.
- `delivery`: weak fairness of the persister's task alone. Nobody has to
  connect, and no notification has to arrive.
- `session`: the user goes on sending (`Transport`) and reading.
- `socket`: the server answers each request.

No fairness is assumed of faults, clients that connect, or users that write.

## 4. What is proved

### The uplink

`UplinkProofs`, for all numbers and lengths of payloads, all sets of accounts and
free spaces, every page size, every set of faults and every bound (assumptions
`HeaderAssumption`, `UplinkAssumption`: the header has a positive size, payloads
are not empty, a page and a request have room for something):

- `TypeCorrect`: `Spec => []TypeOK`.
- `PipeCorrect`: `Spec => []UplinkInv`.
- `AssemblyCorrect`: `Spec => []AssemblesNextPayload`: as long as nothing of the
  stream was lost or repeated, the chunks that `create_deniable_payloads` has
  collected when it meets a Final chunk are, sorted, exactly the bytes of the
  next payload, whatever faults happened before.
- `FlushCorrect`: `Spec /\ []FitsPage => []FlushLeavesNoPayload`.
- `UplinkRefines`: if `Faults = {}`, `Spec /\ []FitsPage => ImplementsChannel`, the
  refinement of `DeniableChannel`.
- `LossCorrect`: `MCSpec => []LossesKeepOrder`, under all faults and for every page
  size.
- `SizeCorrect`: if `Budgets = MessageBudgets` and `NoWrap`,
  `Spec => []SizeIndependentOfBuffer`.

`AssemblesNextPayload` is not inductive: it only looks at the page in hand. The
strengthening `Pipe` says that *everything under way* is one unbroken run of
the stream, from the first byte of the payload the server expects, through the
chunks the server holds (`Held`: buffer, held-back chunks, page), those of the
request that is built, on its way or being enqueued (`Flow`, dummies between
them), to the place where the client's buffer cuts the next chunk. Faults that
break the run set `expect` to 0, and a fault that loses nothing keeps it; the
server is in step again when all it holds is gone and the client is at the
start of a payload. `Base == TypeOK /\ BufferOK /\ PhaseOK` is proved inductive
on its own first; then one lemma per action shows that it keeps `Pipe`
(`PipeFill`, `PipeEnqueue`, `PipeHold`, `PipeComplete`, `PipeRequeue`,
`PipeCrash`, `PipeResend`, …). They rest on what appending,
removing the head and concatenating do to an unbroken run (the lemmas at the top
of `UplinkProofs`). `InvAssembles` gets
the property from the invariant: in a run that starts at the first byte the
held-back chunks have the orders 0, -1, -2, …, so that sorting by descending
flags keeps them in place and consecutive chunks are adjacent slices.

`FitsPage` says that the sender's incoming buffer is no longer than one page of
`get_values`. It is a hypothesis about the behaviour: nothing in the code bounds
that buffer, and with a longer one a flush sees only its first page, the case
for which the `uplink_faults` run has a small page. `uplink_clean` keeps within it.

`FlushLeavesNoPayload` needs that the buffer is empty while a page is assembled
and holds only put-back Data chunks afterwards (`FlushInd`). The refinement needs
`Routed`: the transport never gets out of step, and every payload before `expect`
is either on the list of the handler or in the outgoing buffer of its account,
never in both; `CommitPayload` is then `Deliver` of the channel.

`LossesKeepOrder` holds where `Pipe` does not: payloads may be out of step, and
what is decoded may be garbage. Its invariant `Ordered` is about the Final chunks
alone, one of which is needed for every payload routed under its own name. The
ones in the page, in the buffer and in the request have rising ids, in this
order, all of them of payloads the client has cut up entirely; what was put
together is below what is still on its way, and for each account what it got is
below what is still on the handler's list. A resent request breaks exactly this,
so the invariant is `~resent => Ordered`.

`SizeCorrect` rests on the sum of the sizes of a sequence of chunks
(`SizeAppend`), a recursive function whose values are obtained with
`SetInduction`: a set of numbers that holds 0 and the successor of each of its
members holds all of them. The invariant (`SizeInd`) is that the chunks and the
room left make up the budget of the message. `NoWrap` is the condition under
which the subtraction on usize is the one meant: q times the content is at least
the size of an empty vector, and the difference is a usize.

### The downlink

`DownlinkProofs`, for all payload lengths, free spaces, losses and bounds
(`DownlinkAssumption`, `HeaderAssumption`: payloads are not empty, one message
fits in flight):

- `DownlinkCorrect`: `Spec => []DownlinkInv`.
- `WholePayloads`: `Spec => []WholeIfNoneLost`.
- `DownlinkRefines`: `Spec => ImplementsChannel`, the refinement of
  `DeniableChannel`, by simulation of each step.
- `DownlinkSizeCorrect`: if `Budgets = MessageBudgets` and `NoWrap`,
  `Spec => []SizeIndependentOfBuffer`, as on the uplink.

The place of a chunk in the stream is in its slice, and the places chunks lie in
between the outgoing buffer and the client (stored, pending, incoming, the
messages in flight, the message being filled, the buffer) are in the order of
the stream; so is each of them, and the order numbers descend with it
(`Ordered`, `BufferLast`, `Slices`). This survives every loss. What is put
together is past everything that can still come (`OutcomeOK`), and until the
first failure no slice is missing before another and every payload not yet put
together has its Final chunk under way or is in the buffer (`Unbroken`). With
that, the pieces that meet a Final chunk of an unbroken stream are the whole
next payload (`NextIsWhole`), sorting leaves ordered pieces as they are
(`SortedAlready`), and so `Process` is `Deliver` of the channel. That the dummies
are dropped and nothing else is an induction over a recursive function
(`RealChunksIs`), done with `SetInduction`.

### Message delivery

`DeliveryProofs`, for any number of messages and every set of faults:

- `DeliveryCorrect`: `Spec => []DeliveryInv`.
- `InOrderOnce`: `Spec => []WrittenOnceInOrder`.

A message leaves the cache safely because what is being deleted was written
(`SentFirst`) and what the persister removes it has stored (`StoredFirst`). The
order of writing needs what relates three places: the cache is in the order of
insertion, what was written comes before what is cached except for the one
message sent and not yet deleted (`WrittenBeforeCached`), and the page in hand
is, as long as the socket works, the front of the cache (`BatchInCache`,
`BatchFirst`).

### The queues in Redis

The second half of `DeliveryProofs` is about `RedisQueue`, for any queues of the
three caches, any number of inserts, any page size, payload length and amounts,
with calls cut short or not (`RedisAssumption`: guids are positive numbers, sizes
and amounts are positive, message queues have no buffer name):

- `RedisCorrect`: `RedisSpec => []RedisInv`.
- `RedisIntact`: `RedisSpec => []QueueIntact`.
- `NotSentTwice`: `RedisSpec => []NotSentAgain`.
- `InOrderTaken`: `RedisSpec => []TakenInOrder`.

None of the four is inductive: they look at the keys between calls, and a call of
`remove` is up to nine commands. The invariant `RedisInd` has two layers, both of states
that neither of the overlaps `drain` and `stale` has reached (`Sound`).

`KeysInd` is about the four keys of a queue. A writer is `Live` while its id is
anywhere: in its own hands, in the sorted set, in the metadata, or with a taker.
The ids of live writers of a queue differ, are not above its counter, and rise
in the order of the inserts (`Numbers`, `Rising`), and values and fields carry the
id of their writer (`Values`, `Fields`). So a taker that holds an id removes the
value it was asked to remove and no other (`RemoveOK`), and `update_value` puts back
what it took out (`UpdateOK`); each inserted value is in the queue with the fields
written so far, in the hands of one taker, or gone (`AllKept`), which is
`QueueIntact`. The step that could break `Numbers` is `DEL` of the metadata, which
lowers the counter: `NobodyLeft` shows that without the two overlaps no writer of
the queue is live then, which is why exactly these two are excluded.

`OrderInd` is about what was taken. A value that was taken whole is in no queue
and in nobody's hands (`GoneIs`); one taken in part starts where its last piece
ended (`Progress`); and whatever a taker of payloads or chunks is about to take has
nothing in front of it: all that was inserted before is gone, was cut short, or
comes earlier in the same page (`InFront`, `Settled`, `OutSettled`). With these a
new piece continues the last one of its payload and overtakes nothing
(`Pieces`), which is `TakenInOrder`.

Each command has a lemma that says what it reads and writes (`RemoveByIdIs`,
`AddRestIs`, …) and one that it keeps `KeysInd`; the conjuncts of `OrderInd` have one
lemma each, for all commands. `RedisInd` was checked by TLC on the instance of the
run `redis` before it was proved.

### Connections

`ConnectionsProofs`, for any number of devices, connections and messages
(`ConnectionsAssumption`: the value for an empty `Option` is no device):

- `ConnectionsCorrect`: `Spec => []ConnectionsInv`.
- `NewestServed`: `Spec => []Served`.
- `NoCircularWait`: `Spec => []TasksGoOn`.

The invariant says that the map holds the newest connection of a device or none
(`MapHoldsNewest`), that a reader wants to close no connection older than its own
(`TargetsLater`), and that the older connections of a device whose newest one
was alone are over (`AloneServed`). A standstill would need a circle of waiting
tasks; a notify task waits for a reader, and a reader for a later one, so the
last of those that wait can go on or waits for itself. `TasksGoOn` says this with
the guards of the actions (`CanGo`); `NoStandstill` is the same statement with
ENABLED, which stays with TLC.

### Accounts and messages to their devices

`AccountsProofs`, about `PutMessages`, which contains `Accounts`, for any number
of handlers, accounts, tokens and phone numbers:

- `AccountsCorrect`: `PutSpec => []AccountsInv`.
- `TokenMakesOne`: `PutSpec => []TokenOnce`.
- `PutIsExact`: `PutSpec => []PutExact`.

A token in the table of used tokens belongs to one handler that has still to
add its device, to one device, or to neither (`TokensTaken`). An account that is
being registered is known to its handler alone (`RegistrationAlone`), the others
work on answered ones (`OthersOnKnown`). Device ids are reused, so `PutExact` needs
that an id belongs to one device of an account at a time, now and among the
devices that were read. Its second part is about messages that name a
registration id: one with registration id 0 passes the validators with the
device id alone, so that for these the proof, like the code, only gives that
every device gets a message.

### Keys

The end of `AccountsProofs` is about `Keys`, for any number of devices,
identities, key ids and overlapping requests (`KeysAssumption`: the account has a
device, an upload of one-time keys brings at least one):

- `KeysCorrect`: `KeysSpec => []KeysInv`.
- `GivenOnce`: `KeysSpec => []HandedOnce`: no one-time key goes to two requests.
- `UploadsKeepKeys`: `KeysSpec => UploadKeepsKeys`, an action property: a step that
  leaves a device without keys has given out the last one.

`HandedOnce` alone is not inductive: that a key is handed out once follows from
its being gone from every store when it was handed out (`HandedIsGone`), which
needs that it was stored for one device only (`StoredOnce`), and that no upload
can bring it back, because the keys of an upload are nowhere before its commit
(`NotBeforeCommit`) and it commits once. `HasDevice` gives the types of what a
handler reads.

### The client's socket

`SocketProofs`, for every capacity of the broadcast channel and any number of
requests and messages (`SocketAssumption`: the channel holds at least one):

- `SocketCorrect`: `Spec => []SocketInv`.
- `AnswersMatch`: `Spec => []AnswersOwnRequest`.

While the task of `PersistentReceiver` runs, what its receiver has not passed and
what is on its way are exactly the messages after those it has queued
(`Awaited`, `NoneMissing`), in order (`Ascending`): the next one it meets is the
next one to queue (`NextIsNext`). A task that lagged has ended, and nothing is
required any more.

### The client's commands

`SessionProofs`, for any accounts, devices and messages and any number of
payloads on their way, with failures or without:

- `SessionCorrect`: `Spec => []SessionInv`.
- `ResponseCorrect`: `Spec => []ResponseExpected`.
- `SentOnce`: if `Devices = {Primary}`, `Spec => []SentAtMostOnce`.

`SentOnce` is for accounts with one device, the only ones there are: the client of
this repository registers device 1 and has no command that links another. The
rows of messages that wait for keys are never removed; with a second device,
which a regular message makes the client learn (`UpdateContact`), keys are asked
for again and the answer sends the old messages once more, as TLC shows for two
devices and two messages.

All three arguments are about `todo`. `ContactInv` says which statements may stand
behind which (`ShapeOf`), that a contact that is still to be written has a
session or a statement before it that makes one (`ProvidedIn`), and that until a
command is cut short a known contact that lacks its alias or its session is
about to get it (`Mended`). `AnsweredInv` follows a request for keys through the
outgoing payloads, the inbox and `todo`: it is in one of these places at a time
(`Alone`), recorded while it is there, and not there when another is made or its
record is removed. `OnceInv` says of each statement with a text that nothing has
sent this text (`Timely`), that no two have the same (`OneEach`), and that the
messages awaiting keys are read when the record of the request is gone
(`Forgets`); once a waiting message was sent, the device has its session and no
other request is made (`OnceData`).

### The client's stores

`StoresProofs`, for any numbers of peers, identity keys, conversations, messages
and keys of a bundle, with crashes between any two statements
(`StartAssumption`, `StoresAssumption`: a bundle has a one-time key, no identity
is the value for "none"):

- `StoresCorrect`: `Spec => []StoresInv`: types, an account only where the server
  knows it, and no key id reused that a peer may still name.
- `PinnedForGood`: `Spec => []SessionsPinned`.
- `ReadableUnlessTorn`: `Spec => []LettersReadable`.
- `ShownOnce`: `Spec => []ReadOnce`.

They share one inductive invariant, `StoresInd`. The conjuncts on ids are
`StartOK`, what there is at each step of a registration, and `KeysOK`: what was
published is stored, and every stored id is below the next one. A call writes
back a record it read before its first statement; `TaskOK` says that until then
nothing was lost by that: the record holds all of what is in the table, the
session of the call with the message that is being read, and belongs to the
identity that is trusted or will be (`ToStore`). Hence a session stays pinned and
what was read stays read (`HistoryOK`), and a message can be shown a second time
only if its session was lost. For `LettersReadable`, every conversation there is
any trace of, in a queue, a record, the running call or the history, has its
private keys in the tables, unless it has a session, is torn, or is the one whose
call has just removed the key (`Opened`); that this stays true when another
conversation spends its key needs that no two have the same one-time key
(`TalksOK`), which is what the server's `HandedOnce` gives.

### What is not proved

Only model-checked, on the instances above:

- all liveness properties, and `NoStandstill` in the form with ENABLED;
- what the uplink does when the sender's buffer grows past a page, but for
  `UplinkInv`, `AssemblesNextPayload` and `LossesKeepOrder`, which are proved for
  every page size;
- `SentAtMostOnce` with several devices in an account (see above: it need not hold).

Every invariant and action property of the passing runs, `NoStandstill` aside, is
stated by a theorem.

## 5. What the models show about the code

`delivery_wipe` is a violated run. `MessagesManager::delete` removes one message
from the cache, and `delete_messages` then every row of the device in the table
(`server/src/storage/postgres.rs:917`); a row that the persister stores between
the read and the delete is lost without having been sent, although the comment
at the call (`server/src/managers/websocket/connection.rs:299`) wants the message
with that id to go.

The conditions under which the other properties hold, or the places where they
stop, are behaviours the code has and the models contain:

- One flush reads a page of 100 chunks (`server/src/storage/redis.rs:295`) where
  `denim_manager.rs:71` speaks of the whole buffer: `FlushLeavesNoPayload` is
  checked for pages that are large enough.
- An error of the persister leaves the queues it had picked unindexed until
  another insert (`message_cache.rs:206`): the condition of `IndexCoversQueue`
  and the alternative in `CacheDrains`. The score of a queue is the time of the insert that indexed
  it, not of its oldest message (`redis.rs:177`).
- A device that connects while the persister holds its queue is not told of
  what ends up in the table (`server.rs:877`): `CacheDrains` speaks of the cache.
- `close_connection` removes whatever entry the address has
  (`websocket_manager.rs:162`), also that of a newer connection: the condition
  `alone` of `Served`.
- A keepalive over the WebSocket locks the connection whose reader is handling
  it (`server.rs:311`): the exception in `NoStandstill`.
- Each request works on a clone of the presence manager with an empty map
  (`client_presence_manager.rs:34`): `SetPresent` never finds anyone to displace.
- Two requests that choose the same one-time key: the second gets none although
  there are others (`postgres.rs:799`). Both identities share one store of
  one-time keys (`postgres.rs:679`). `device_keys` goes on referring to the
  signed key of the registration (`postgres.rs:505`).
- A registration that fails after its first statement leaves an account without
  devices (`postgres.rs:93`): `RegisteredComplete` (of `AccountsInv`) is about
  answered ones. The
  keys of a linked device are checked and not stored (`server.rs:550`).
- A crash between storing a key request and recording it makes the response meet
  no row (`client.rs:733`, `client.rs:590`): the condition of `ResponseExpected`.
- The id of a used one-time key can be given to a new key after a login
  (`device.rs:139`, `client.rs:307`): the exception in `IdsUnused`.
- An insert that overlaps the deletion of an empty queue can lose its value, its
  guid or its index entry, and a second `remove` that holds an id while the
  counter is deleted can remove a newer message (`redis.rs:250`, `redis.rs:222`):
  the overlaps `drain` and `stale` of `QueueIntact` and `TakenInOrder`. A message
  read before its guid was recorded stays in the queue after it was sent
  (`redis.rs:136`): `early` of `NotSentAgain`. The `:rev` hash of a queue is never
  deleted.
- A deleted device keeps its connection and what is in its queue, and the next
  device linked gets its id (`account.rs:111`): `PutExact` is about what is put in
  a queue while both come and go, not about what was there before.
- A message that names registration id 0 is not compared with any device
  (`destination_device_validator.rs:38`): one that was encrypted for a deleted
  device is put in the queue of the device that has its id now. `PutExact` excludes
  these (`unnamed`) from its second part. The client never sends them, it chooses
  registration ids from 1 on (`client.rs:113`).
- The devices of a sync message on a websocket are those read when the connection
  was opened (`server.rs:85`): a message can still be put in the queue of a device
  that was deleted after that. `PutExact` takes that time as the beginning.
- A message that cannot be decrypted makes the client stop before it answers, so
  that it comes first again after every start (`main.rs`, `client.rs:543`): the
  reasons in `LettersReadable`, one of them a crash between the removal of
  the one-time key and the session (`device.rs:626`).
- `unpad_message` cuts at the first byte 0x80 (`common/src/envelope.rs:64`): a
  content that holds that byte, for instance a body of 128 bytes, whose length is
  encoded as 0x80 0x01, does not come back whole. Contents are not modelled:
  `LettersReadable` is about what can be decrypted, and this is a fourth reason why
  a message is not read.
- `send` never returns when the connection closes while it waits
  (`socket_manager.rs:305`): the alternative `Down` in `SendReturns`.

## 6. What is not modelled

- HTTP routing, TLS, configuration, error bodies, the websocket stream adapters:
  wiring and I/O without state of their own.
- Cryptography and padding (libsignal; pure functions), password hashing,
  header parsing, the signatures of pre-keys: their outcome is a refusal that
  changes nothing, or a guard.
- The in-memory stores of the client, which only tests use, and sender keys,
  which no conversation uses.
- The chunks and the destination devices of one request together: Uplink has one
  destination device, PutMessages no chunks. (Hence the map of a flush,
  `server.rs:223`, has one entry per account: its key is the whole `Account`, whose
  `Eq` covers the devices and whose `Hash` only the ACI (`account.rs:8`), and an
  account whose devices change between two payloads of a flush would have two
  entries, committed in any order.) A payload is put in the outgoing
  buffer of each device by the same calls that RedisQueue models.
- Two requests of one device handled at the same time, on an old connection and
  a new one: in Uplink a client builds its next request after the last one was
  handled or lost (`StartRequest`), so that one handler at a time works on an
  incoming buffer. The reader of a connection handles its requests one by one.
- Expiry of Redis keys after 31 days, page sizes of the message cache, the
  rounding of `f32` in the free space.
- Two more steps that would be worth a composition: a queue of a deleted device
  that a new device inherits, and notifications (Connections) with delivery
  (MessageDelivery), whose listener is one flag there.

## 7. Plan

1. Deniable uplink, its abstract channel: checked and proved, the refinement
   without faults.
2. Downlink: checked and proved, with its refinement under all faults.
3. MessageDelivery, Connections, Keys, Accounts and PutMessages: checked and
   proved.
4. ClientSocket, ClientSession, ClientStart and ClientStores: checked and proved.
5. RedisQueue: checked and proved.
