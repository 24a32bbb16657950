-------------------------- MODULE MessageDelivery --------------------------
(***************************************************************************)
(* The way of regular messages to one device: the message cache (Redis),   *)
(* the message table (Postgres), the connection that sends them and the    *)
(* persister that moves old queues from the cache to the table.            *)
(*                                                                         *)
(* A sender's handler inserts a message in the cache and spawns a task     *)
(* that notifies the listener of the device.  The tasks hold the lock of   *)
(* the listener map while they send, and everything a connection does      *)
(* holds its own lock, so one of its actions is in progress at a time; the *)
(* persister takes no lock that the connection takes, only the Redis key   *)
(* that makes get_values answer with nothing.                              *)
(*                                                                         *)
(* A call of redis::insert, and the removal of one guid by redis::remove,  *)
(* is one step here.  Time is left out: the persister may take a queue at  *)
(* any time after it was put in the index, and takes it in the end.        *)
(***************************************************************************)
EXTENDS Integers, Sequences, FiniteSets, SequencesExt

CONSTANTS
    Faults,        \* what may go wrong: a subset of FaultKinds
    MaxMsgs        \* bound: messages ever inserted

FaultKinds == {"break", "delete", "persister", "expiry"}

ASSUME DeliveryAssumption ==
    /\ Faults \subseteq FaultKinds
    /\ MaxMsgs \in Nat

VARIABLES
    inserted,  \* messages ever inserted: 1..inserted
    cache,     \* the device's queue in the message cache
    indexed,   \* the queue is in the queue index
    locked,    \* the persist-in-progress key exists
    db,        \* the device's rows of msq_queue
    conn,      \* connection: off, joining (first send), adding (listener), on
    up,        \* its socket works
    wake,      \* spawned notify_cached tasks
    wakeP,     \* spawned notify_persisted tasks
    spc,       \* what the connection is doing
    dbToo,     \* send_persisted: read the table as well
    batch,     \* envelopes to send
    acks,      \* messages the client will still answer: pending_requests
    ppc,       \* what the persister is doing
    toPush,    \* messages it has to write to the table
    toRemove,  \* messages it has to remove from the cache
    \* history
    written,   \* messages written to the socket, in order
    persisted, \* messages that were ever in the table
    failed     \* the store fault that has happened

storeVars == <<cache, indexed, db>>
connVars == <<conn, up, wake, wakeP, spc, dbToo, batch, acks, written>>
persisterVars == <<locked, ppc, toPush, toRemove, persisted>>
vars == <<inserted, storeVars, connVars, persisterVars, failed>>

Msgs == 1..inserted

TypeOK ==
    /\ inserted \in 0..MaxMsgs
    /\ cache \in Seq(Msgs) /\ db \in Seq(Msgs)
    /\ indexed \in BOOLEAN /\ locked \in BOOLEAN /\ up \in BOOLEAN /\ dbToo \in BOOLEAN
    /\ conn \in {"off", "joining", "adding", "on"}
    /\ wake \in Nat /\ wakeP \in Nat
    /\ spc \in {"idle", "fetch", "fetchDb", "send", "delCache", "delDb", "ackDb"}
    /\ batch \in Seq(Msgs) /\ acks \subseteq Msgs
    /\ ppc \in {"idle", "lock", "read", "push", "remove", "unlock"}
    /\ toPush \in Seq(Msgs) /\ toRemove \in Seq(Msgs)
    /\ written \in Seq(Msgs) /\ persisted \subseteq Msgs
    /\ failed \subseteq {"delete", "persister", "expiry"}

Init ==
    /\ inserted = 0
    /\ cache = <<>> /\ indexed = FALSE /\ locked = FALSE /\ db = <<>>
    /\ conn = "off" /\ up = TRUE /\ wake = 0 /\ wakeP = 0
    /\ spc = "idle" /\ dbToo = FALSE /\ batch = <<>> /\ acks = {}
    /\ ppc = "idle" /\ toPush = <<>> /\ toRemove = <<>>
    /\ written = <<>> /\ persisted = {} /\ failed = {}
-----------------------------------------------------------------------------
(***************************************************************************)
(* The stores.                                                             *)
(***************************************************************************)
(* MessageCache::insert: append to the queue, add it to the index unless   *)
(* it is there (ZADD NX), spawn notify_cached.                             *)
Insert ==
    /\ inserted < MaxMsgs
    /\ inserted' = inserted + 1
    /\ cache' = Append(cache, inserted + 1)
    /\ indexed' = TRUE
    /\ wake' = wake + 1
    /\ UNCHANGED <<db, conn, up, wakeP, spc, dbToo, batch, acks, written, persisterVars, failed>>

(* The caches of chunks and deniable payloads share the listener map of    *)
(* the message cache: their inserts notify the device too.                 *)
PayloadInserted ==
    /\ wake = 0
    /\ wake' = 1
    /\ UNCHANGED <<inserted, failed, storeVars, conn, up, wakeP, spc, dbToo, batch, acks,
                   written, persisterVars>>

(* redis::remove of one guid: its entry goes, if there is one; an empty    *)
(* queue leaves the index, also when the guid was not there.               *)
RemoveFromCache(m) ==
    /\ cache' = IF m \in Range(cache)
                THEN RemoveAt(cache, CHOOSE i \in DOMAIN cache : cache[i] = m)
                ELSE cache
    /\ indexed' = (indexed /\ cache' # <<>>)

(* db.delete_messages: every row of the device. *)
WipeTable == db' = <<>>
-----------------------------------------------------------------------------
(***************************************************************************)
(* The connection.                                                         *)
(***************************************************************************)
(* create_websocket_endpoint: register the connection, then send_persisted. *)
Connect ==
    /\ conn = "off" /\ spc = "idle"
    /\ conn' = "joining" /\ up' = TRUE
    /\ spc' = "fetch" /\ dbToo' = TRUE
    /\ UNCHANGED <<inserted, failed, storeVars, wake, wakeP, batch, acks, written, persisterVars>>

AddListener ==
    /\ conn = "adding"
    /\ conn' = "on"
    /\ UNCHANGED <<inserted, failed, storeVars, up, wake, wakeP, spc, dbToo, batch, acks,
                   written, persisterVars>>

(* A notification task finds no listener, or one that is not active. *)
NotifyNobody ==
    /\ conn # "on"
    /\ \/ wake > 0 /\ wake' = wake - 1 /\ UNCHANGED wakeP
       \/ wakeP > 0 /\ wakeP' = wakeP - 1 /\ UNCHANGED wake
    /\ UNCHANGED <<inserted, failed, storeVars, conn, up, spc, dbToo, batch, acks,
                   written, persisterVars>>

(* It calls send_cached or send_persisted of the listener. *)
NotifyCached ==
    /\ conn = "on" /\ spc = "idle" /\ wake > 0
    /\ wake' = wake - 1 /\ spc' = "fetch" /\ dbToo' = FALSE
    /\ UNCHANGED <<inserted, failed, storeVars, conn, up, wakeP, batch, acks, written, persisterVars>>

NotifyPersisted ==
    /\ conn = "on" /\ spc = "idle" /\ wakeP > 0
    /\ wakeP' = wakeP - 1 /\ spc' = "fetch" /\ dbToo' = TRUE
    /\ UNCHANGED <<inserted, failed, storeVars, conn, up, wake, batch, acks, written, persisterVars>>

(* get_messages_for_device reads the cache, which answers with nothing     *)
(* while the queue is locked, and then perhaps the table.                  *)
FetchCached ==
    /\ spc = "fetch"
    /\ batch' = IF locked THEN <<>> ELSE cache
    /\ spc' = IF dbToo THEN "fetchDb" ELSE "send"
    /\ UNCHANGED <<inserted, failed, storeVars, conn, up, wake, wakeP, dbToo, acks, written, persisterVars>>

FetchPersisted ==
    /\ spc = "fetchDb"
    /\ batch' = batch \o db /\ spc' = "send"
    /\ UNCHANGED <<inserted, failed, storeVars, conn, up, wake, wakeP, dbToo, acks, written, persisterVars>>

(* send_message: create_message files the request as pending, then send. *)
SendMessage ==
    /\ spc = "send" /\ batch # <<>> /\ up
    /\ written' = Append(written, Head(batch)) /\ acks' = acks \cup {Head(batch)}
    /\ spc' = "delCache"
    /\ UNCHANGED <<inserted, failed, storeVars, conn, up, wake, wakeP, dbToo, batch, persisterVars>>

SendFails ==
    /\ spc = "send" /\ batch # <<>> /\ ~up
    /\ batch' = Tail(batch)
    /\ UNCHANGED <<inserted, failed, storeVars, conn, up, wake, wakeP, spc, dbToo, acks,
                   written, persisterVars>>

(* Mutant: the message is only removed while the socket works. *)
DeleteCachedIfUp ==
    /\ spc = "delCache"
    /\ IF up THEN RemoveFromCache(Head(batch)) ELSE UNCHANGED <<cache, indexed>>
    /\ spc' = "delDb"
    /\ UNCHANGED <<inserted, failed, db, conn, up, wake, wakeP, dbToo, batch, acks, written, persisterVars>>

(* Once sent, MessagesManager::delete: the guid goes from the cache ...    *)
DeleteCached ==
    /\ spc = "delCache"
    /\ RemoveFromCache(Head(batch))
    /\ spc' = "delDb"
    /\ UNCHANGED <<inserted, failed, db, conn, up, wake, wakeP, dbToo, batch, acks, written, persisterVars>>

(* ... and the table loses every message of the device. *)
DeletePersisted ==
    /\ spc = "delDb"
    /\ WipeTable
    /\ batch' = Tail(batch) /\ spc' = "send"
    /\ UNCHANGED <<inserted, failed, cache, indexed, conn, up, wake, wakeP, dbToo, acks, written, persisterVars>>

(* Every envelope was tried: send_queue_empty. *)
SendDone ==
    /\ spc = "send" /\ batch = <<>>
    /\ spc' = "idle"
    /\ conn' = IF conn = "joining" THEN "adding" ELSE conn
    /\ UNCHANGED <<inserted, failed, storeVars, up, wake, wakeP, dbToo, batch, acks, written, persisterVars>>

(* handle_response: the client answered, delete is called once more. *)
Acknowledge(m) ==
    /\ spc = "idle" /\ conn # "off" /\ m \in acks
    /\ RemoveFromCache(m)
    /\ acks' = acks \ {m} /\ spc' = "ackDb"
    /\ UNCHANGED <<inserted, failed, db, conn, up, wake, wakeP, dbToo, batch, written, persisterVars>>

AcknowledgePersisted ==
    /\ spc = "ackDb"
    /\ WipeTable
    /\ spc' = "idle"
    /\ UNCHANGED <<inserted, failed, cache, indexed, conn, up, wake, wakeP, dbToo, batch, acks,
                   written, persisterVars>>

(* close_connection takes the lock of the connection.  The listener map    *)
(* keeps the closed connection, whose send_cached returns at once.         *)
Close ==
    /\ conn # "off" /\ ~up /\ spc = "idle"
    /\ conn' = "off" /\ acks' = {}
    /\ UNCHANGED <<inserted, failed, storeVars, up, wake, wakeP, spc, dbToo, batch, written, persisterVars>>
-----------------------------------------------------------------------------
(***************************************************************************)
(* The persister.                                                          *)
(***************************************************************************)
(* Mutant: only the queues of devices that are away are taken. *)
PickOfAway ==
    /\ ppc = "idle" /\ indexed /\ conn # "on"
    /\ indexed' = FALSE /\ ppc' = "lock"
    /\ UNCHANGED <<inserted, cache, db, connVars, locked, toPush, toRemove, persisted, failed>>

(* get_message_queues_to_persist reads the index and removes what it read. *)
Pick ==
    /\ ppc = "idle" /\ indexed
    /\ indexed' = FALSE /\ ppc' = "lock"
    /\ UNCHANGED <<inserted, cache, db, connVars, locked, toPush, toRemove, persisted, failed>>

LockQueue ==
    /\ ppc = "lock"
    /\ locked' = TRUE /\ ppc' = "read"
    /\ UNCHANGED <<inserted, failed, storeVars, connVars, toPush, toRemove, persisted>>

(* get_messages_to_persist, which does not look at the lock. *)
ReadQueue ==
    /\ ppc = "read"
    /\ toPush' = cache /\ toRemove' = cache
    /\ ppc' = IF cache = <<>> THEN "unlock" ELSE "push"
    /\ UNCHANGED <<inserted, failed, storeVars, connVars, locked, persisted>>

(* persist_messages: push_message_queue inserts row by row ... *)
PushMessage ==
    /\ ppc = "push" /\ toPush # <<>>
    /\ db' = Append(db, Head(toPush)) /\ persisted' = persisted \cup {Head(toPush)}
    /\ toPush' = Tail(toPush)
    /\ UNCHANGED <<inserted, failed, cache, indexed, connVars, locked, ppc, toRemove>>

(* Mutant: messages leave the cache before they are in the table. *)
RemoveBeforePush ==
    /\ ppc \in {"push", "remove"} /\ toRemove # <<>>
    /\ RemoveFromCache(Head(toRemove))
    /\ toRemove' = Tail(toRemove) /\ ppc' = IF toPush = <<>> THEN "remove" ELSE "push"
    /\ UNCHANGED <<inserted, failed, db, connVars, locked, toPush, persisted>>

(* ... and when all are in the table they are removed from the cache. *)
RemoveMessage ==
    /\ ppc \in {"push", "remove"} /\ toPush = <<>> /\ toRemove # <<>>
    /\ RemoveFromCache(Head(toRemove))
    /\ toRemove' = Tail(toRemove) /\ ppc' = "remove"
    /\ UNCHANGED <<inserted, failed, db, connVars, locked, toPush, persisted>>

BatchDone ==
    /\ ppc = "remove" /\ toRemove = <<>>
    /\ ppc' = "read"
    /\ UNCHANGED <<inserted, failed, storeVars, connVars, locked, toPush, toRemove, persisted>>

UnlockQueue ==
    /\ ppc = "unlock"
    /\ locked' = FALSE /\ wakeP' = wakeP + 1 /\ ppc' = "idle"
    /\ UNCHANGED <<inserted, failed, storeVars, conn, up, wake, spc, dbToo, batch, acks, written,
                   toPush, toRemove, persisted>>

(* The persist-in-progress key expires after 30 seconds, long after an     *)
(* error of the persister.                                                 *)
LockExpires ==
    /\ locked /\ ppc = "idle"
    /\ locked' = FALSE
    /\ UNCHANGED <<inserted, failed, storeVars, connVars, ppc, toPush, toRemove, persisted>>
-----------------------------------------------------------------------------
(***************************************************************************)
(* Faults.                                                                 *)
(***************************************************************************)
Break ==
    /\ "break" \in Faults /\ conn # "off" /\ up
    /\ up' = FALSE
    /\ UNCHANGED <<inserted, failed, storeVars, conn, wake, wakeP, spc, dbToo, batch, acks,
                   written, persisterVars>>

(* Bound: the faults that follow happen once in a behaviour, one of them. *)
StoreFault(kind) == kind \in Faults /\ failed = {} /\ failed' = {kind}

(* Redis or Postgres fails in delete: send_messages logs it and goes on. *)
DeleteFails ==
    /\ StoreFault("delete") /\ spc \in {"delCache", "delDb"}
    /\ batch' = Tail(batch) /\ spc' = "send"
    /\ UNCHANGED <<inserted, storeVars, conn, up, wake, wakeP, dbToo, acks, written, persisterVars>>

(* An error anywhere in persist (an account or a device that is gone, a    *)
(* store that fails) ends this round; listen calls persist again.          *)
PersisterFails ==
    /\ StoreFault("persister") /\ ppc # "idle"
    /\ ppc' = "idle" /\ toPush' = <<>> /\ toRemove' = <<>>
    /\ UNCHANGED <<inserted, storeVars, connVars, locked, persisted>>

(* The persister takes longer than the 30 seconds of the key. *)
LockExpiresEarly ==
    /\ StoreFault("expiry") /\ locked /\ ppc # "idle"
    /\ locked' = FALSE
    /\ UNCHANGED <<inserted, storeVars, connVars, ppc, toPush, toRemove, persisted>>
-----------------------------------------------------------------------------
Sending ==
    \/ FetchCached \/ FetchPersisted \/ SendMessage \/ SendFails
    \/ DeleteCached \/ DeletePersisted \/ SendDone \/ AcknowledgePersisted

Notifying == NotifyNobody \/ NotifyCached \/ NotifyPersisted

Persister ==
    \/ Pick \/ LockQueue \/ ReadQueue \/ PushMessage
    \/ RemoveMessage \/ BatchDone \/ UnlockQueue

Fault == Break \/ DeleteFails \/ PersisterFails \/ LockExpiresEarly

Next ==
    \/ Insert \/ PayloadInserted
    \/ Connect \/ AddListener \/ Close \/ \E m \in acks : Acknowledge(m)
    \/ Sending \/ Notifying \/ Persister \/ LockExpires \/ Fault

Spec == Init /\ [][Next]_vars

(***************************************************************************)
(* Fairness.  The task of listen runs.  No connection has to be there, go  *)
(* on or end, and no notification has to arrive.                           *)
(***************************************************************************)
Fairness == WF_vars(Persister)

FairSpec == Spec /\ Fairness
-----------------------------------------------------------------------------
(***************************************************************************)
(* Properties.                                                             *)
(***************************************************************************)
(* Whatever fails, a message leaves the cache only after it was written to *)
(* the socket or stored in the message table (send_message deletes after   *)
(* sending, persist_messages removes after storing).                       *)
LeavesCacheSafely ==
    Msgs \subseteq Range(cache) \cup Range(written) \cup persisted

(* As long as delete works, the messages that the persister never touched  *)
(* are written at most once and in the order of their insertion, also when *)
(* notifications, acknowledgements and reconnections overlap.              *)
WrittenOnceInOrder ==
    "delete" \notin failed =>
        \A i, j \in DOMAIN written :
            i < j /\ written[i] \notin persisted /\ written[j] \notin persisted
                => written[i] < written[j]

(* As long as the persister had no error, a queue that holds messages is   *)
(* in the index the persister reads, or the persister has it in hand       *)
(* (get_message_queues_to_persist, redis::remove).                         *)
IndexCoversQueue ==
    "persister" \notin failed /\ cache # <<>> /\ ppc = "idle" => indexed

(* The types of all variables, LeavesCacheSafely and IndexCoversQueue:     *)
(* what was inserted is in the cache where the persister looks, or has     *)
(* been sent or stored (send_message, persist_messages, redis::remove).    *)
DeliveryInv == TypeOK /\ LeavesCacheSafely /\ IndexCoversQueue

(* "the ID of the message so the message manager can delete it"            *)
(* (connection.rs): delete removes the message that was sent; a message    *)
(* that was never written to the socket is still stored somewhere.         *)
NothingLost ==
    Msgs \subseteq Range(cache) \cup Range(db) \cup Range(written)

(* No message stays in the cache for ever: the persister moves it, or a    *)
(* connection takes it before, also when its notification came too early,  *)
(* connections come, stop halfway and go, or a deletion failed; only an    *)
(* error of the persister can leave one behind (MessageCache::insert,      *)
(* MessagePersister::listen).                                              *)
CacheDrains ==
    \A m \in 1..MaxMsgs :
        (m \in Range(cache)) ~> (m \notin Range(cache) \/ "persister" \in failed)
=============================================================================
