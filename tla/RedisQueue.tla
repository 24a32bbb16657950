----------------------------- MODULE RedisQueue -----------------------------
(***************************************************************************)
(* The queues of redis.rs, one Redis command per step.                     *)
(*                                                                         *)
(* A queue is four keys: a sorted set of values ordered by id, a metadata  *)
(* hash (a counter and the id of every guid), a hash from id to guid       *)
(* (":rev") and an index shared by the queues of one kind.  Three caches   *)
(* keep queues in one Redis: the message cache, the chunk cache and the    *)
(* payload cache.  No call is a transaction, so the commands of handlers   *)
(* that insert, of the connection that takes values and of the persister   *)
(* interleave:                                                             *)
(*                                                                         *)
(*   message queues   "each": the connection reads a page and removes one  *)
(*                    message after each that it sent, again when it is    *)
(*                    answered; "persist": the persister moves pages;      *)
(*   payload queues   "stream": the connection dequeues bytes from the     *)
(*                    first value;                                         *)
(*   chunk queues     "page": the handler that inserted takes a page; it   *)
(*                    is the queue's only user.                            *)
(*                                                                         *)
(* The other modules take a call of redis.rs as one step; this one shows   *)
(* what that rests on.  EXPIRE (31 days) and the time of an index entry    *)
(* are left out.                                                           *)
(***************************************************************************)
EXTENDS Integers, FiniteSets, SequencesExt

CONSTANTS
    Queues,    \* the queues in use: [cache, buffer, address]
    Uses,      \* which queue each writer uses: a set of functions
    Writers,   \* calls of insert, each with a new guid: the guid is the writer
    PageSize,  \* PAGE_SIZE, MESSAGE_BATCH_LIMIT
    Length,    \* bytes of a payload
    MaxInserts, \* bound: inserts into one queue of each cache
    Amounts,   \* bytes_amount of a call of dequeue_bytes
    Failures   \* {"cut"}: a call may end after any of its commands

ASSUME RedisAssumption ==
    /\ Queues \subseteq
         [cache : {"user", "chunk", "payload"}, buffer : STRING, address : STRING]
    /\ \A q \in Queues : q.cache = "user" => q.buffer = ""
    /\ Writers \subseteq Nat \ {0} /\ Uses \subseteq [Writers -> Queues]
    /\ PageSize \in Nat \ {0} /\ Length \in Nat \ {0} /\ Amounts \subseteq Nat \ {0}
    /\ MaxInserts \in [{"user", "chunk", "payload"} -> Nat]
    /\ Failures \subseteq {"cut"}
-----------------------------------------------------------------------------
(***************************************************************************)
(* Keys.  The name of the cache, the name of the buffer and the address    *)
(* make up a key; the index has no address.                                *)
(***************************************************************************)
UserKeys(q) ==
    [queue |-> <<"user", "queue", q.address>>,
     lock |-> <<"user", "queue_persisting", q.address>>,
     metadata |-> <<"user", "queue_metadata", q.address>>,
     index |-> <<"user", "queue_index_key">>]

(* Mutant: the two buffers of a device share the metadata. *)
ChunkKeysOfDevice(q) ==
    [queue |-> <<"chunk", q.buffer, "queue", q.address>>,
     lock |-> <<"chunk", q.buffer, "queue_persisting", q.address>>,
     metadata |-> <<"chunk", "queue_metadata", q.address>>,
     index |-> <<"chunk", q.buffer, "queue_index_key">>]

ChunkKeys(q) ==
    [queue |-> <<"chunk", q.buffer, "queue", q.address>>,
     lock |-> <<"chunk", q.buffer, "queue_persisting", q.address>>,
     metadata |-> <<"chunk", q.buffer, "queue_metadata", q.address>>,
     index |-> <<"chunk", q.buffer, "queue_index_key">>]

PayloadKeys(q) ==
    [queue |-> <<"payload", q.buffer, "queue", q.address>>,
     lock |-> <<"payload", q.buffer, "queue_persisting", q.address>>,
     metadata |-> <<"payload", q.buffer, "queue_metadata", q.address>>,
     index |-> <<"payload", q.buffer, "queue_index_key">>]

Keys ==
    [q \in Queues |->
        CASE q.cache = "user" -> UserKeys(q)
          [] q.cache = "chunk" -> ChunkKeys(q)
          [] q.cache = "payload" -> PayloadKeys(q)]

QueueKey(q) == Keys[q].queue
LockKey(q) == Keys[q].lock
MetadataKey(q) == Keys[q].metadata
RevKey(q) == <<MetadataKey(q), "rev">>
IndexKey(q) == Keys[q].index

MessageQueues == {q \in Queues : q.cache = "user"}
PayloadQueues == {q \in Queues : q.cache = "payload"}
ChunkQueues == {q \in Queues : q.cache = "chunk"}

Takers ==
    ({"each", "persist"} \X MessageQueues)
        \cup ({"stream"} \X PayloadQueues) \cup ({"page"} \X ChunkQueues)

VARIABLES
    zset,     \* queue key -> set of values [id, guid, off, order]
    counter,  \* metadata key -> the field "counter"
    ids,      \* metadata key -> the fields of guids: guid -> id
    rev,      \* rev key -> (id -> guid)
    index,    \* index key -> set of queue keys
    lock,     \* the lock keys that exist
    wq,       \* writer -> its queue
    wpc,      \* writer -> the last command it did
    wid,      \* writer -> value_id
    tk,       \* taker -> [pc, todo, id, held, amount]
    sent,     \* messages the connection sent and asked to remove
    answered, \* messages the client has answered
    \* history
    earlier,  \* writer -> writers that were done when it began
    out,      \* queue -> pieces taken: [guid, lo, hi, order]
    cut,      \* values whose insert or removal was cut short
    raced     \* what overlapped: "drain", "stale", "early"

store == <<zset, counter, ids, rev, index, lock>>
writerVars == <<wq, wpc, wid, earlier>>
msgs == <<sent, answered>>
redisVars == <<store, writerVars, tk, msgs, out, cut, raced>>

None == 0
Final == 1   \* order of a Final chunk; a Data chunk's is not positive
Value == [id : Nat, guid : Writers, off : 0..Length, order : Int]
NoValue == [id |-> 0, guid |-> None, off |-> 0, order |-> 0]
Idle == [pc |-> "idle", todo |-> <<>>, id |-> 0, held |-> NoValue, amount |-> 0]

RedisTypeOK ==
    /\ \A q \in Queues :
         /\ zset[QueueKey(q)] \subseteq Value
         /\ counter[MetadataKey(q)] \in Nat
         /\ DOMAIN ids[MetadataKey(q)] \subseteq Writers
         /\ \A i \in DOMAIN rev[RevKey(q)] : rev[RevKey(q)][i] \in Writers
         /\ index[IndexKey(q)] \subseteq {QueueKey(p) : p \in Queues}
         /\ \A i \in DOMAIN out[q] : out[q][i].guid \in Writers
    /\ lock \subseteq {LockKey(q) : q \in Queues}
    /\ wq \in [Writers -> Queues] /\ wid \in [Writers -> Nat]
    /\ wpc \in [Writers -> {"new", "number", "value", "guid", "rev", "done", "cut"}]
    /\ DOMAIN tk = Takers
    /\ \A t \in Takers :
         /\ tk[t].pc \in {"idle", "picked", "lock", "page", "unlock", "old", "zrem", "zadd",
              "guid", "remove", "range", "zremrange", "hdel", "hdelrev", "card",
              "del", "delmeta", "unindex"}
         /\ tk[t].held \in Value \cup {NoValue}
    /\ sent \subseteq Writers /\ answered \subseteq sent /\ cut \subseteq Writers
    /\ raced \subseteq {"drain", "stale", "early"}

RedisInit ==
    /\ zset = [k \in {QueueKey(q) : q \in Queues} |-> {}]
    /\ counter = [k \in {MetadataKey(q) : q \in Queues} |-> 0]
    /\ ids = [k \in {MetadataKey(q) : q \in Queues} |-> <<>>]
    /\ rev = [k \in {RevKey(q) : q \in Queues} |-> <<>>]
    /\ index = [k \in {IndexKey(q) : q \in Queues} |-> {}]
    /\ lock = {}
    /\ wq \in Uses
    /\ wpc = [w \in Writers |-> "new"] /\ wid = [w \in Writers |-> 0]
    /\ tk = [t \in Takers |-> Idle] /\ sent = {} /\ answered = {}
    /\ earlier = [w \in Writers |-> {}] /\ out = [q \in Queues |-> <<>>]
    /\ cut = {} /\ raced = {}
-----------------------------------------------------------------------------
(* Hash fields: HSET, HDEL. *)
Set(f, x, v) == [y \in DOMAIN f \cup {x} |-> IF y = x THEN v ELSE f[y]]
Unset(f, x) == [y \in DOMAIN f \ {x} |-> f[y]]

(* The order of ZRANGE: by id, and by the bytes (here: the guid) among     *)
(* equal ids; the first of some values, and a sequence of them.            *)
Precedes(a, b) == a.id < b.id \/ (a.id = b.id /\ a.guid < b.guid)
IsFirst(v, S) == v \in S /\ \A u \in S \ {v} : Precedes(v, u)
InOrder(S) ==
    {s \in [1..Cardinality(S) -> S] :
        Range(s) = S /\ \A i, j \in DOMAIN s : i < j => Precedes(s[i], s[j])}

WithId(q, id) == {v \in zset[QueueKey(q)] : v.id = id}

Active(w) == wpc[w] \in {"number", "value", "guid", "rev"}
Draining(t) == tk[t].pc \in {"del", "delmeta", "unindex"}
HoldsId(t) == tk[t].pc \in {"range", "zremrange", "hdel", "hdelrev"}
Stored(q) == {v.guid : v \in zset[QueueKey(q)]}
-----------------------------------------------------------------------------
(***************************************************************************)
(* insert.  The guid is new, so HEXISTS finds nothing.                     *)
(***************************************************************************)
(* Guids are numbered in the order of the calls. *)
MayBegin(w) ==
    /\ Cardinality({v \in Writers : wq[v] = wq[w] /\ wpc[v] # "new"}) < MaxInserts[wq[w].cache]
    /\ \A v \in Writers : wq[v] = wq[w] /\ v < w => wpc[v] # "new"

Step(w, from, to) == wpc[w] = from /\ wpc' = [wpc EXCEPT ![w] = to]

(* Mutant: an id is taken from what is in the queue. *)
NumberFromCard(w) ==
    /\ Step(w, "new", "number") /\ MayBegin(w)
    /\ wid' = [wid EXCEPT ![w] = Cardinality(zset[QueueKey(wq[w])]) + 1]
    /\ counter' = [counter EXCEPT ![MetadataKey(wq[w])] = wid'[w]]
    /\ earlier' = [earlier EXCEPT ![w] = {v \in Writers : wpc[v] = "done"}]
    /\ UNCHANGED <<zset, ids, rev, index, lock, wq, tk, msgs, out, cut>>

(* HINCRBY counter. *)
Number(w) ==
    /\ Step(w, "new", "number") /\ MayBegin(w)
    /\ counter' = [counter EXCEPT ![MetadataKey(wq[w])] = @ + 1]
    /\ wid' = [wid EXCEPT ![w] = counter'[MetadataKey(wq[w])]]
    /\ earlier' = [earlier EXCEPT ![w] = {v \in Writers : wpc[v] = "done"}]
    /\ UNCHANGED <<zset, ids, rev, index, lock, wq, tk, msgs, out, cut>>

(* Who calls insert: any handler that has a message or a payload for the   *)
(* device; for chunks the handler of the device itself, which is the only  *)
(* user of their queues.                                                   *)
InsertMessage(w) == wq[w] \in MessageQueues /\ Number(w)
InsertPayload(w) == wq[w] \in PayloadQueues /\ Number(w)

InsertChunk(w) ==
    /\ wq[w] \in ChunkQueues
    /\ tk[<<"page", wq[w]>>].pc = "idle"
    /\ \A v \in Writers : wq[v] = wq[w] => ~Active(v)
    /\ Number(w)

(* The buffers of DenimManager. *)
EnqueuePayload(w) == wq[w].buffer = "receiver" /\ InsertPayload(w)
EnqueueIncoming(w) == wq[w].buffer = "sender" /\ InsertChunk(w)
EnqueueOutgoing(w) == wq[w].buffer = "receiver" /\ InsertChunk(w)

(* ZADD NX. *)
AddValue(w) ==
    /\ Step(w, "number", "value")
    /\ zset' = [zset EXCEPT ![QueueKey(wq[w])] =
         @ \cup {[id |-> wid[w], guid |-> w, off |-> 0, order |-> 0]}]
    /\ UNCHANGED <<counter, ids, rev, index, lock, wq, wid, earlier, tk, msgs, out, cut>>

(* HSET guid, then HSET of :rev. *)
SetGuid(w) ==
    /\ Step(w, "value", "guid")
    /\ ids' = [ids EXCEPT ![MetadataKey(wq[w])] = Set(@, w, wid[w])]
    /\ UNCHANGED <<zset, counter, rev, index, lock, wq, wid, earlier, tk, msgs, out, cut>>

SetRev(w) ==
    /\ Step(w, "guid", "rev")
    /\ rev' = [rev EXCEPT ![RevKey(wq[w])] = Set(@, wid[w], w)]
    /\ UNCHANGED <<zset, counter, ids, index, lock, wq, wid, earlier, tk, msgs, out, cut>>

(* Mutant: only the first value puts the queue in the index. *)
FirstToIndex(w) ==
    /\ Step(w, "rev", "done")
    /\ index' = IF wid[w] > 1 THEN index
                ELSE [index EXCEPT ![IndexKey(wq[w])] = @ \cup {QueueKey(wq[w])}]
    /\ UNCHANGED <<zset, counter, ids, rev, lock, wq, wid, earlier, tk, msgs, out, cut>>

(* ZADD NX of the queue to the index. *)
AddToIndex(w) ==
    /\ Step(w, "rev", "done")
    /\ index' = [index EXCEPT ![IndexKey(wq[w])] = @ \cup {QueueKey(wq[w])}]
    /\ UNCHANGED <<zset, counter, ids, rev, lock, wq, wid, earlier, tk, msgs, out, cut>>
-----------------------------------------------------------------------------
(***************************************************************************)
(* remove: for every guid, and then what is to be done when the queue is   *)
(* empty.                                                                  *)
(***************************************************************************)
At(t, pc) == tk[t].pc = pc
Go(t, pc) == tk' = [tk EXCEPT ![t].pc = pc]
Queue(t) == t[2]
Guid(t) == Head(tk[t].todo)

StartRemove(t, guids) == tk' = [tk EXCEPT ![t] = [Idle EXCEPT !.pc = "remove", !.todo = guids]]

(* A connection calls remove for one guid at a time, the others for all    *)
(* guids of a page.  A connection waits for an answer to what it sent.     *)
GuidDone(t) ==
    /\ tk' = [tk EXCEPT ![t].todo = Tail(@), ![t].held = NoValue,
         ![t].pc = IF t[1] = "each" \/ Len(tk[t].todo) = 1 THEN "card" ELSE "remove"]
    /\ sent' = IF t[1] = "each" THEN sent \cup {Guid(t)} ELSE sent
    /\ UNCHANGED answered

CallDone(t) ==
    tk' = [tk EXCEPT ![t] =
        IF @.todo # <<>> THEN [@ EXCEPT !.pc = "remove"]
        ELSE IF t[1] = "persist" THEN [Idle EXCEPT !.pc = "page"] ELSE Idle]

(* HGET of the guid.  A guid that is not recorded is passed over. *)
LookupGuid(t) ==
    /\ At(t, "remove")
    /\ LET m == ids[MetadataKey(Queue(t))]
       IN  IF Guid(t) \in DOMAIN m
           THEN tk' = [tk EXCEPT ![t].pc = "range", ![t].id = m[Guid(t)]] /\ UNCHANGED msgs
           ELSE GuidDone(t)
    /\ UNCHANGED <<store, writerVars, out, cut>>

(* ZRANGE BYSCORE LIMIT 0 1: the value to return. *)
RangeById(t) ==
    /\ At(t, "range")
    /\ \E v \in WithId(Queue(t), tk[t].id) \cup {NoValue} :
         /\ IF v = NoValue THEN WithId(Queue(t), tk[t].id) = {}
                           ELSE IsFirst(v, WithId(Queue(t), tk[t].id))
         /\ tk' = [tk EXCEPT ![t].pc = "zremrange", ![t].held = v]
    /\ UNCHANGED <<store, writerVars, msgs, out, cut>>

(* Mutant: the value with the lowest id is removed. *)
RemoveLowest(t) ==
    /\ At(t, "zremrange") /\ Go(t, "hdel")
    /\ zset' = [zset EXCEPT ![QueueKey(Queue(t))] = {v \in @ : \E u \in @ : u.id < v.id}]
    /\ UNCHANGED <<counter, ids, rev, index, lock, writerVars, msgs, out, cut>>

(* ZREMRANGEBYSCORE, HDEL, HDEL of :rev. *)
RemoveById(t) ==
    /\ At(t, "zremrange") /\ Go(t, "hdel")
    /\ zset' = [zset EXCEPT ![QueueKey(Queue(t))] = {v \in @ : v.id # tk[t].id}]
    /\ UNCHANGED <<counter, ids, rev, index, lock, writerVars, msgs, out, cut>>

DeleteGuid(t) ==
    /\ At(t, "hdel") /\ Go(t, "hdelrev")
    /\ ids' = [ids EXCEPT ![MetadataKey(Queue(t))] = Unset(@, Guid(t))]
    /\ UNCHANGED <<zset, counter, rev, index, lock, writerVars, msgs, out, cut>>

Piece(v, hi, order) == [guid |-> v.guid, lo |-> v.off + 1, hi |-> hi, order |-> order]

DeleteRev(t) ==
    /\ At(t, "hdelrev")
    /\ GuidDone(t)
    /\ rev' = [rev EXCEPT ![RevKey(Queue(t))] = Unset(@, tk[t].id)]
    /\ out' = [out EXCEPT ![Queue(t)] =
         IF tk[t].held = NoValue THEN @ ELSE Append(@, Piece(tk[t].held, Length, Final))]
    /\ UNCHANGED <<zset, counter, ids, index, lock, writerVars, cut>>

(* ZCARD. *)
Card(t) ==
    /\ At(t, "card")
    /\ IF zset[QueueKey(Queue(t))] = {} THEN Go(t, "del") ELSE CallDone(t)
    /\ UNCHANGED <<store, writerVars, msgs, out, cut>>

(* DEL of the queue and of its metadata (not of :rev), ZREM from the index. *)
DeleteQueue(t) ==
    /\ At(t, "del") /\ Go(t, "delmeta")
    /\ zset' = [zset EXCEPT ![QueueKey(Queue(t))] = {}]
    /\ UNCHANGED <<counter, ids, rev, index, lock, writerVars, msgs, out, cut>>

DeleteMetadata(t) ==
    /\ At(t, "delmeta") /\ Go(t, "unindex")
    /\ counter' = [counter EXCEPT ![MetadataKey(Queue(t))] = 0]
    /\ ids' = [ids EXCEPT ![MetadataKey(Queue(t))] = <<>>]
    /\ UNCHANGED <<zset, rev, index, lock, writerVars, msgs, out, cut>>

RemoveFromIndex(t) ==
    /\ At(t, "unindex") /\ CallDone(t)
    /\ index' = [index EXCEPT ![IndexKey(Queue(t))] = @ \ {QueueKey(Queue(t))}]
    /\ UNCHANGED <<zset, counter, ids, rev, lock, writerVars, msgs, out, cut>>
-----------------------------------------------------------------------------
(***************************************************************************)
(* Taking values.                                                          *)
(***************************************************************************)
(* The connection: get_values looks at the lock, then reads a page.  The   *)
(* guids are in the envelopes.                                             *)
CheckLock(t) ==
    /\ t[1] = "each" /\ At(t, "idle") /\ LockKey(Queue(t)) \notin lock
    /\ Go(t, "page")
    /\ UNCHANGED <<store, writerVars, msgs, out, cut>>

Guids(page) == [i \in DOMAIN page |-> page[i].guid]
FirstPage(q) ==
    {v \in zset[QueueKey(q)] :
        Cardinality({u \in zset[QueueKey(q)] : Precedes(u, v)}) < PageSize}

ReadMessages(t) ==
    /\ At(t, "page")
    /\ IF zset[QueueKey(Queue(t))] = {}
       THEN tk' = [tk EXCEPT ![t] = IF t[1] = "persist" THEN [@ EXCEPT !.pc = "unlock"] ELSE Idle]
       ELSE \E page \in InOrder(FirstPage(Queue(t))) :
              tk' = [tk EXCEPT ![t].pc = "remove", ![t].todo = Guids(page)]
    /\ UNCHANGED <<store, writerVars, msgs, out, cut>>

(* An answer: remove is called for the message once more. *)
RemoveAnswered(t, w) ==
    /\ t[1] = "each" /\ At(t, "idle")
    /\ w \in sent \ answered /\ wq[w] = Queue(t)
    /\ answered' = answered \cup {w}
    /\ StartRemove(t, <<w>>)
    /\ UNCHANGED <<store, writerVars, sent, out, cut>>

(* The persister reads the index, removes the queue from it, locks the     *)
(* queue, moves pages until it finds none, and unlocks it.  (That the lock *)
(* expires is part of MessageDelivery.)                                    *)
ReadIndex(t) ==
    /\ t[1] = "persist" /\ At(t, "idle") /\ QueueKey(Queue(t)) \in index[IndexKey(Queue(t))]
    /\ Go(t, "picked")
    /\ UNCHANGED <<store, writerVars, msgs, out, cut>>

PickQueue(t) ==
    /\ At(t, "picked") /\ Go(t, "lock")
    /\ index' = [index EXCEPT ![IndexKey(Queue(t))] = @ \ {QueueKey(Queue(t))}]
    /\ UNCHANGED <<zset, counter, ids, rev, lock, writerVars, msgs, out, cut>>

SetLock(t) ==
    /\ At(t, "lock") /\ Go(t, "page")
    /\ lock' = lock \cup {LockKey(Queue(t))}
    /\ UNCHANGED <<zset, counter, ids, rev, index, writerVars, msgs, out, cut>>

ReleaseLock(t) ==
    /\ At(t, "unlock") /\ Go(t, "idle")
    /\ lock' = lock \ {LockKey(Queue(t))}
    /\ UNCHANGED <<zset, counter, ids, rev, index, writerVars, msgs, out, cut>>

(* get_values finds the guids of chunks by :rev (a value without one is    *)
(* left), and all of the page is removed.                                  *)
ReadChunks(t) ==
    /\ t[1] = "page" /\ At(t, "idle") /\ zset[QueueKey(Queue(t))] # {}
    /\ \A w \in Writers : wq[w] = Queue(t) => ~Active(w)
    /\ LET r == rev[RevKey(Queue(t))]
           found == {v \in FirstPage(Queue(t)) : v.id \in DOMAIN r}
       IN  IF found = {} THEN Go(t, "card")
           ELSE \E page \in InOrder(found) :
                  StartRemove(t, [i \in DOMAIN page |-> r[page[i].id]])
    /\ UNCHANGED <<store, writerVars, msgs, out, cut>>

DequeueIncoming(t) == Queue(t).buffer = "sender" /\ ReadChunks(t)
DequeueOutgoing(t) == Queue(t).buffer = "receiver" /\ ReadChunks(t)

(* dequeue_bytes: get_first, then either update_value or remove.  Nobody   *)
(* locks a payload queue.  (An amount of 0 is part of Downlink.)           *)
ReadFirst(t, amount) ==
    /\ t[1] = "stream" /\ At(t, "idle")
    /\ \E v \in zset[QueueKey(Queue(t))] :
         /\ IsFirst(v, zset[QueueKey(Queue(t))])
         /\ tk' = [tk EXCEPT ![t].held = v, ![t].id = v.id, ![t].amount = amount,
                             ![t].pc = IF amount < Length - v.off THEN "old" ELSE "guid"]
    /\ UNCHANGED <<store, writerVars, msgs, out, cut>>

DequeuePayload(t, amount) == Queue(t).buffer = "receiver" /\ ReadFirst(t, amount)

(* ZRANGEBYSCORE finds the entry again, ZREM takes it out and ZADD puts    *)
(* the rest in its place: the bytes are those get_first read, the order is *)
(* that of the entry found now.                                            *)
FindOld(t) ==
    /\ At(t, "old")
    /\ LET found == WithId(Queue(t), tk[t].id)
       IN  IF found = {} THEN tk' = [tk EXCEPT ![t] = Idle]
           ELSE \E v \in found :
                  /\ IsFirst(v, found)
                  /\ tk' = [tk EXCEPT ![t].pc = "zrem", ![t].held.order = v.order,
                                      ![t].todo = <<v.guid>>]
    /\ UNCHANGED <<store, writerVars, msgs, out, cut>>

RemoveOld(t) ==
    /\ At(t, "zrem")
    /\ LET old == {v \in zset[QueueKey(Queue(t))] :
                      v.id = tk[t].id /\ v.guid = Guid(t) /\ v.order = tk[t].held.order}
       IN  /\ zset' = [zset EXCEPT ![QueueKey(Queue(t))] = @ \ old]
           /\ IF old = {} THEN tk' = [tk EXCEPT ![t] = Idle] ELSE Go(t, "zadd")
    /\ UNCHANGED <<counter, ids, rev, index, lock, writerVars, msgs, out, cut>>

AddRest(t) ==
    /\ At(t, "zadd")
    /\ LET v == tk[t].held
           rest == [v EXCEPT !.off = @ + tk[t].amount, !.order = @ - 1]
       IN  /\ zset' = [zset EXCEPT ![QueueKey(Queue(t))] = @ \cup {rest}]
           /\ out' = [out EXCEPT ![Queue(t)] = Append(@, Piece(v, rest.off, v.order))]
    /\ tk' = [tk EXCEPT ![t] = Idle]
    /\ UNCHANGED <<counter, ids, rev, index, lock, writerVars, msgs, cut>>

(* HGET of :rev; "field guid not found" is an error. *)
FindGuid(t) ==
    /\ At(t, "guid")
    /\ LET r == rev[RevKey(Queue(t))]
       IN  IF tk[t].id \in DOMAIN r THEN StartRemove(t, <<r[tk[t].id]>>)
           ELSE tk' = [tk EXCEPT ![t] = Idle]
    /\ UNCHANGED <<store, writerVars, msgs, out, cut>>
-----------------------------------------------------------------------------
(***************************************************************************)
(* Failures: Redis fails or the server stops in the middle of a call, once *)
(* in a behaviour; the values concerned are noted.  (A connection or       *)
(* persister that fails to remove messages is part of MessageDelivery.)    *)
(***************************************************************************)
CutInsert(w) ==
    /\ "cut" \in Failures /\ cut = {} /\ Active(w)
    /\ wpc' = [wpc EXCEPT ![w] = "cut"] /\ cut' = {w}
    /\ UNCHANGED <<store, wq, wid, earlier, tk, msgs, out>>

CutTaker(t) ==
    /\ "cut" \in Failures /\ cut = {} /\ t[1] \in {"stream", "page"} /\ ~At(t, "idle")
    /\ tk' = [tk EXCEPT ![t] = Idle]
    /\ cut' = (Range(tk[t].todo) \cup {tk[t].held.guid}) \ {None}
    /\ UNCHANGED <<store, writerVars, msgs, out>>
-----------------------------------------------------------------------------
InsertStep(w) ==
    \/ InsertMessage(w) \/ EnqueuePayload(w) \/ EnqueueIncoming(w) \/ EnqueueOutgoing(w)
    \/ AddValue(w) \/ SetGuid(w) \/ SetRev(w) \/ AddToIndex(w)

RemoveStep(t) ==
    \/ LookupGuid(t) \/ RangeById(t) \/ RemoveById(t) \/ DeleteGuid(t) \/ DeleteRev(t)
    \/ Card(t) \/ DeleteQueue(t) \/ DeleteMetadata(t) \/ RemoveFromIndex(t)

TakeStep(t) ==
    \/ ReadMessages(t) \/ ReadIndex(t) \/ PickQueue(t) \/ SetLock(t) \/ ReleaseLock(t)
    \/ DequeueIncoming(t) \/ DequeueOutgoing(t) \/ \E n \in Amounts : DequeuePayload(t, n)
    \/ FindOld(t) \/ RemoveOld(t) \/ AddRest(t) \/ FindGuid(t)

Command ==
    \/ \E w \in Writers : InsertStep(w) \/ CutInsert(w)
    \/ \E t \in Takers : RemoveStep(t) \/ TakeStep(t) \/ CheckLock(t) \/ CutTaker(t)
    \/ \E t \in Takers, w \in Writers : RemoveAnswered(t, w)

(* An insert overlaps the commands of a remove that found the queue empty. *)
Drain == \E w \in Writers, t \in Takers : Queue(t) = wq[w] /\ Active(w) /\ Draining(t)

(* The counter starts again while another remove still holds an id. *)
Stale ==
    \E t, u \in Takers :
        t # u /\ Queue(t) = Queue(u) /\ At(t, "delmeta") /\ tk'[t].pc = "unindex" /\ HoldsId(u)

(* A message is to be removed before its guid is recorded. *)
Early == \E t \in Takers : At(t, "remove") /\ Active(Guid(t))

(* A behaviour is followed until the keys of a queue may disagree. *)
Sound == raced \cap {"drain", "stale"} = {}

RedisNext ==
    /\ Sound /\ Command
    /\ raced' = raced \cup (IF Drain' THEN {"drain"} ELSE {})
                      \cup (IF Stale THEN {"stale"} ELSE {})
                      \cup (IF Early THEN {"early"} ELSE {})

RedisSpec == RedisInit /\ [][RedisNext]_redisVars
-----------------------------------------------------------------------------
(***************************************************************************)
(* Properties.                                                             *)
(***************************************************************************)
Done(w) == wpc[w] = "done" /\ w \notin cut
Gone(w) == \E i \in DOMAIN out[wq[w]] : out[wq[w]][i].guid = w /\ out[wq[w]][i].order = Final

(* The keys of the queue agree about w, which has one value and an id of   *)
(* its own.                                                                *)
Recorded(w) ==
    LET q == wq[w]
        Z == zset[QueueKey(q)]
    IN  \E v \in Z :
          /\ v.guid = w
          /\ w \in DOMAIN ids[MetadataKey(q)] /\ ids[MetadataKey(q)][w] = v.id
          /\ v.id \in DOMAIN rev[RevKey(q)] /\ rev[RevKey(q)][v.id] = w
          /\ \A u \in Z : u # v => u.id # v.id /\ u.guid # w

InHand(w) ==
    \E t \in Takers :
        \/ tk[t].pc \in {"hdel", "hdelrev"} /\ Guid(t) = w
        \/ At(t, "zadd") /\ tk[t].held.guid = w

(* An insert that has returned is kept by every command that follows: its  *)
(* value is in the queue under an id that its guid and :rev agree on, or   *)
(* is being taken, or was returned to a caller.  Only two overlaps can     *)
(* break this, an insert during the deletion of an empty queue (ZCARD to   *)
(* ZREM of remove) and a deletion of the metadata while another remove     *)
(* holds an id; a call cut short harms the value it was about, no other.   *)
QueueIntact ==
    Sound => \A w \in Writers : Done(w) => Recorded(w) \/ InHand(w) \/ Gone(w)

(* A queue that holds messages is in the index, or the persister has it.   *)
IndexCovers ==
    Sound => \A w \in Writers :
        Done(w) /\ wq[w] \in MessageQueues /\ w \in Stored(wq[w]) =>
            \/ QueueKey(wq[w]) \in index[IndexKey(wq[w])]
            \/ tk[<<"persist", wq[w]>>].pc \notin {"idle", "unlock"}

(* The types of all variables, and IndexCovers. *)
RedisInv == RedisTypeOK /\ IndexCovers

(* A message that was sent is not in the queue any more, to be sent again  *)
(* (remove), unless it was read before insert had recorded its guid.       *)
NotSentAgain ==
    raced = {} => \A w \in sent \ cut : w \notin Stored(wq[w])

(* Who inserts after another insert has returned comes behind it, and the  *)
(* pieces of a payload are taken one after the other without a gap, with   *)
(* descending orders (HINCRBY, update_value): nothing is reordered until   *)
(* the counter of a queue in use is deleted.                               *)
TakenInOrder ==
    Sound => \A q \in Queues :
        /\ \A u, v \in zset[QueueKey(q)] : u.guid \in earlier[v.guid] => u.id < v.id
        /\ q \notin MessageQueues => \A j \in DOMAIN out[q] :
             LET p == out[q][j]
             IN  /\ p.lo = 1 \/ \E i \in 1..(j - 1) :
                        /\ out[q][i].guid = p.guid /\ out[q][i].hi = p.lo - 1
                        /\ p.order \in {out[q][i].order - 1, Final}
                        /\ \A k \in (i + 1)..(j - 1) : out[q][k].guid # p.guid
                 /\ \A i \in 1..(j - 1) :
                      /\ p.guid \in earlier[out[q][i].guid] => p.guid \in cut
                      /\ out[q][i].guid = p.guid => out[q][i].order # Final

=============================================================================
