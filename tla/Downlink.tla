------------------------------ MODULE Downlink ------------------------------
(***************************************************************************)
(* The downlink of the deniable transport: the outgoing payload buffer the *)
(* server keeps in Redis for one device, the regular messages whose free   *)
(* space it is cut into, and the client that puts the pieces together.     *)
(*                                                                         *)
(* Handlers of other devices append payloads at any time                   *)
(* (enqueue_outgoing_payload_buffer).  When the connection of the device   *)
(* sends a regular message, create_denim_message first dequeues chunks for *)
(* its free space and the message is sent afterwards.  The client keeps    *)
(* the chunks of an unfinished payload in its database; a message with a   *)
(* Final chunk makes it take them out, reassemble and process              *)
(* (receive_message, handle_incoming_chunks).                              *)
(*                                                                         *)
(* A device has one connection here, used under its lock, and one call of  *)
(* redis::insert or redis::dequeue_bytes is one step.                      *)
(***************************************************************************)
EXTENDS DenimChunks

CONSTANTS
    Lengths,       \* possible lengths of a serialized payload
    Budgets,       \* get_free_space_in_bytes of one message
    Faults,        \* what may go wrong: a subset of FaultKinds
    MaxPayloads,   \* bound: payloads ever put in the buffer
    MaxNet,        \* bound: messages sent and not read yet
    MaxSkip        \* bound: order numbers that messages without room skip

FaultKinds == {"sendfail", "dequeue", "lost", "crash"}

ASSUME DownlinkAssumption ==
    /\ Lengths \subseteq Nat \ {0}
    /\ Budgets \subseteq Nat
    /\ Faults \subseteq FaultKinds
    /\ MaxPayloads \in Nat
    /\ MaxNet \in Nat \ {0}
    /\ MaxSkip \in Nat

VARIABLES
    \* the server
    sent,      \* lengths of the payloads put in the buffer, in order
    outbuf,    \* outgoing payload buffer (Redis): [id, off, order]
    spc,       \* what the connection of the device is doing
    part,      \* chunks of the message being filled
    budget,    \* free space it started with
    take,      \* free space left in it
    \* the socket and the client's queue of unread messages
    net,
    \* the client
    cpc,       \* what receive_message is doing
    incoming,  \* chunks of the message not looked at yet
    stored,    \* table IncomingDeniableChunk
    pending,   \* chunks in hand
    done,      \* reassembled payloads not processed yet (0: garbage)
    got,       \* history: payloads processed, without the garbage
    \* history
    faulty     \* a fault has happened

serverVars == <<sent, outbuf, spc, part, budget, take>>
clientVars == <<cpc, incoming, stored, pending, done, got>>
vars == <<serverVars, net, clientVars, faulty>>

TypeOK ==
    /\ sent \in Seq(Lengths)
    /\ outbuf \in Seq([id : Nat \ {0}, off : Nat, order : Int])
    /\ spc \in {"idle", "filling"}
    /\ part \in Seq(Chunk) /\ budget \in Nat /\ take \in Nat
    /\ net \in Seq(Seq(Chunk))
    /\ cpc \in {"idle", "scan", "process"}
    /\ incoming \in Seq(Chunk) /\ stored \in Seq(Chunk) /\ pending \in Seq(Chunk)
    /\ done \in Seq(Nat) /\ got \in Seq(Nat) /\ faulty \in BOOLEAN

Init ==
    /\ sent = <<>> /\ outbuf = <<>>
    /\ spc = "idle" /\ part = <<>> /\ budget = 0 /\ take = 0
    /\ net = <<>>
    /\ cpc = "idle" /\ incoming = <<>> /\ stored = <<>> /\ pending = <<>>
    /\ done = <<>> /\ got = <<>> /\ faulty = FALSE
-----------------------------------------------------------------------------
(***************************************************************************)
(* The server.                                                             *)
(***************************************************************************)
(* PayloadCache::insert.  The notification it sends makes the connection   *)
(* look for regular messages; the payload alone makes none go out.         *)
Enqueue(len) ==
    /\ Len(sent) < MaxPayloads
    /\ sent' = Append(sent, len)
    /\ outbuf' = Append(outbuf, [id |-> Len(sent) + 1, off |-> 0, order |-> 0])
    /\ UNCHANGED <<spc, part, budget, take, net, clientVars>>

(* send_message takes the next regular message. *)
StartMessage(b) ==
    /\ spc = "idle" /\ Len(net) < MaxNet
    /\ spc' = "filling" /\ part' = <<>> /\ budget' = b /\ take' = b
    /\ UNCHANGED <<sent, outbuf, net, clientVars>>

(* One round of dequeue_payload_data: chunk c leaves left bytes. *)
Put(c, left) ==
    /\ part' = Append(part, c) /\ take' = left
    /\ UNCHANGED <<sent, spc, budget, net, clientVars>>

Filling == spc = "filling" /\ take >= EmptyDenimChunkSize
Room == take - EmptyDenimChunkSize
Remaining == sent[Head(outbuf).id] - Head(outbuf).off

(* The first value fits: dequeue_bytes removes it, a Final chunk. *)
TakeFinal ==
    /\ Filling /\ outbuf # <<>> /\ Remaining <= Room
    /\ LET h == Head(outbuf)
       IN  Put(FinalChunk(h.id, h.off + 1, sent[h.id]), Room - Remaining)
    /\ outbuf' = Tail(outbuf)

(* Mutant: a value waits for a message into which all of it fits. *)
TakeDataNever ==
    /\ Filling /\ outbuf # <<>> /\ 0 < Room /\ Room < Remaining
    /\ Put(DummyChunk(Room), 0)
    /\ UNCHANGED outbuf

(* It does not fit: a Data chunk, and update_value keeps the rest. *)
TakeData ==
    /\ Filling /\ outbuf # <<>> /\ 0 < Room /\ Room < Remaining
    /\ LET h == Head(outbuf)
       IN  /\ Put(DataChunk(h.id, h.off + 1, h.off + Room, h.order), 0)
           /\ outbuf' = [outbuf EXCEPT ![1] =
                [id |-> h.id, off |-> h.off + Room, order |-> h.order - 1]]

(* There is room for the header alone: dequeue_bytes takes 0 bytes, yet    *)
(* update_value advances the order; the caller makes a Dummy chunk of it.  *)
(* At the bound the order stays: as if fewer such messages had been sent.  *)
TakeNothing ==
    /\ Filling /\ outbuf # <<>> /\ Room = 0
    /\ Put(DummyChunk(0), 0)
    /\ outbuf' = [outbuf EXCEPT ![1].order = IF @ > -MaxSkip THEN @ - 1 ELSE @]

(* Mutant: the Dummy chunk does not use the room. *)
TakeDummyHalf ==
    /\ Filling /\ outbuf = <<>>
    /\ Put(DummyChunk(0), 0)
    /\ UNCHANGED outbuf

(* The buffer is empty: a Dummy chunk takes all the room. *)
TakeDummy ==
    /\ Filling /\ outbuf = <<>>
    /\ Put(DummyChunk(Room), 0)
    /\ UNCHANGED outbuf

Full == spc = "filling" /\ take < EmptyDenimChunkSize   \* take: the ballast

EndMessage == spc' = "idle" /\ part' = <<>> /\ budget' = 0 /\ take' = 0

SendMessage ==
    /\ Full
    /\ net' = Append(net, part)
    /\ EndMessage
    /\ UNCHANGED <<sent, outbuf, clientVars>>
-----------------------------------------------------------------------------
(***************************************************************************)
(* The client.                                                             *)
(***************************************************************************)
IsReal(c) == ~IsDummy(c)
HasFinal(s) == \E i \in DOMAIN s : IsFinal(s[i])

(* The chunks of a message without the dummies. *)
RealChunks(s) ==
    LET upTo[i \in 0..Len(s)] ==
          IF i = 0 THEN <<>>
          ELSE IF IsReal(s[i]) THEN Append(upTo[i - 1], s[i]) ELSE upTo[i - 1]
    IN  upTo[Len(s)]

(* get_and_remove_incoming_deniable_chunks, in one transaction.            *)
GetAndRemoveIncoming == pending' = stored /\ stored' = <<>>

(* store_incoming_deniable_chunks, in one transaction.                     *)
StoreIncoming(chunks) == stored' = stored \o chunks

(* receive_message decrypts the regular payload and drops the dummies;     *)
(* handle_incoming_chunks takes the stored chunks out of the database if a *)
(* new chunk is Final.                                                     *)
Receive ==
    /\ cpc = "idle" /\ net # <<>>
    /\ LET chunks == RealChunks(Head(net))
       IN  /\ incoming' = chunks
           /\ cpc' = IF chunks = <<>> THEN "idle" ELSE "scan"
           /\ IF HasFinal(chunks)
              THEN GetAndRemoveIncoming
              ELSE UNCHANGED <<pending, stored>>
    /\ net' = Tail(net)
    /\ UNCHANGED <<serverVars, done, got>>

Scanning == cpc = "scan" /\ incoming # <<>>

HoldData ==
    /\ Scanning /\ ~IsFinal(Head(incoming))
    /\ pending' = Append(pending, Head(incoming)) /\ incoming' = Tail(incoming)
    /\ UNCHANGED <<serverVars, net, cpc, stored, done, got>>

Complete == IsWholePayload(pending, Head(incoming), sent[Head(incoming).id])

CompletePayload ==
    /\ Scanning /\ IsFinal(Head(incoming)) /\ Complete
    /\ done' = Append(done, Head(incoming).id)
    /\ pending' = <<>> /\ incoming' = Tail(incoming)
    /\ UNCHANGED <<serverVars, net, cpc, stored, got>>

(* Everything the process holds in memory is gone, the messages that the   *)
(* server has sent and the user has not read included; the database stays. *)
Stop ==
    /\ cpc' = "idle" /\ net' = <<>>
    /\ incoming' = <<>> /\ pending' = <<>> /\ done' = <<>>
    /\ UNCHANGED <<serverVars, stored, got>>

(* The bytes are no payload anybody serialized: deserialize refuses and    *)
(* "Should be deniable payload" ends the client, or something is decoded.  *)
RefuseGarbage ==
    /\ Scanning /\ IsFinal(Head(incoming)) /\ ~Complete
    /\ Stop

DecodeGarbage ==
    /\ Scanning /\ IsFinal(Head(incoming)) /\ ~Complete
    /\ done' = Append(done, 0)
    /\ pending' = <<>> /\ incoming' = Tail(incoming)
    /\ UNCHANGED <<serverVars, net, cpc, stored, got>>

(* Mutant: the rest goes in front of what is stored. *)
StoreRestInFront ==
    /\ cpc = "scan" /\ incoming = <<>>
    /\ stored' = pending \o stored /\ pending' = <<>> /\ cpc' = "process"
    /\ UNCHANGED <<serverVars, net, incoming, done, got>>

(* What no Final chunk closed goes to the database. *)
StoreRest ==
    /\ cpc = "scan" /\ incoming = <<>>
    /\ StoreIncoming(pending) /\ pending' = <<>> /\ cpc' = "process"
    /\ UNCHANGED <<serverVars, net, incoming, done, got>>

(* Mutant: the payload reassembled last is processed first. *)
ProcessLast ==
    /\ cpc = "process" /\ done # <<>>
    /\ got' = Append(got, done[Len(done)]) /\ done' = SubSeq(done, 1, Len(done) - 1)
    /\ UNCHANGED <<serverVars, net, cpc, incoming, stored, pending>>

(* receive_message decrypts an envelope or handles a key response. *)
Process ==
    /\ cpc = "process" /\ done # <<>>
    /\ got' = IF Head(done) = 0 THEN got ELSE Append(got, Head(done))
    /\ done' = Tail(done)
    /\ UNCHANGED <<serverVars, net, cpc, incoming, stored, pending>>

ReceiveDone ==
    /\ cpc = "process" /\ done = <<>>
    /\ cpc' = "idle"
    /\ UNCHANGED <<serverVars, net, incoming, stored, pending, done, got>>
-----------------------------------------------------------------------------
(***************************************************************************)
(* Faults.                                                                 *)
(***************************************************************************)
(* The socket refuses the message: the regular message stays in the cache, *)
(* its chunks have left the buffer.                                        *)
SendFails ==
    /\ "sendfail" \in Faults /\ Full
    /\ EndMessage
    /\ UNCHANGED <<sent, outbuf, net, clientVars>>

(* Redis fails, or the server stops, during dequeue_bytes: the chunks      *)
(* dequeued before are gone, and the value too if its entry was already    *)
(* removed (update_value, remove).                                         *)
DequeueFails ==
    /\ "dequeue" \in Faults /\ Filling
    /\ outbuf' \in {outbuf, IF outbuf = <<>> THEN outbuf ELSE Tail(outbuf)}
    /\ EndMessage
    /\ UNCHANGED <<sent, net, clientVars>>

(* The connection breaks, or the broadcast channel overruns the reader:    *)
(* the last messages do not arrive.                                        *)
LoseMessages ==
    /\ "lost" \in Faults
    /\ \E k \in 0..(Len(net) - 1) : net' = SubSeq(net, 1, k)
    /\ UNCHANGED <<serverVars, clientVars>>

(* The client ends: a payload or the regular message cannot be decrypted   *)
(* ("Expected Message"), or the user stops it.                             *)
ClientStops ==
    /\ "crash" \in Faults
    /\ Stop
-----------------------------------------------------------------------------
Server ==
    \/ \E len \in Lengths : Enqueue(len)
    \/ \E b \in Budgets : StartMessage(b)
    \/ TakeFinal \/ TakeData \/ TakeNothing \/ TakeDummy \/ SendMessage

Client ==
    \/ Receive \/ HoldData \/ CompletePayload \/ RefuseGarbage \/ DecodeGarbage
    \/ StoreRest \/ Process \/ ReceiveDone

Fault == SendFails \/ DequeueFails \/ LoseMessages \/ ClientStops

Next ==
    \/ (Server \/ Client) /\ UNCHANGED faulty
    \/ Fault /\ faulty' = TRUE

Spec == Init /\ [][Next]_vars

(***************************************************************************)
(* Fairness.  The server finishes the message it is filling, the user      *)
(* reads, and regular messages in which a chunk fits keep being sent.      *)
(***************************************************************************)
Roomy == {b \in Budgets : b > EmptyDenimChunkSize}

Fairness ==
    /\ WF_vars(UNCHANGED faulty /\ (TakeFinal \/ TakeData \/ TakeNothing \/ TakeDummy \/ SendMessage))
    /\ WF_vars(UNCHANGED faulty /\ Client)
    /\ SF_vars(UNCHANGED faulty /\ \E b \in Roomy : StartMessage(b))

FairSpec == Spec /\ Fairness
-----------------------------------------------------------------------------
(***************************************************************************)
(* Properties.                                                             *)
(***************************************************************************)
(* What the client holds of unfinished payloads. *)
Held == stored \o pending \o incoming

(* The chunks the client holds for unfinished payloads are in the order    *)
(* in which they were cut off, whatever is lost between them, so sorting   *)
(* by order (which is only a position within one payload) can at worst mix *)
(* the pieces of payloads that lost chunks (handle_incoming_chunks).       *)
HeldInOrder ==
    \A i, j \in DOMAIN Held : i < j =>
        \/ Held[i].id < Held[j].id
        \/ Held[i].id = Held[j].id /\ Held[i].hi < Held[j].lo

(* The types of all variables, and HeldInOrder. *)
DownlinkInv == TypeOK /\ HeldInOrder

(* The chunks s and the Final chunk fin are all of a payload, in order. *)
CutsFit(s, fin) ==
    /\ \A i \in DOMAIN s : s[i].id = fin.id
    /\ \A i \in 1..(Len(s) + 1) :
         (IF i <= Len(s) THEN s[i] ELSE fin).lo = (IF i = 1 THEN 0 ELSE s[i - 1].hi) + 1

(* A payload is damaged only by the loss of chunks of its own or of the    *)
(* payload before it: if the chunks in hand when a Final chunk comes are   *)
(* all of its payload and none is missing, they are put together right,    *)
(* also when messages with room for a header alone skipped order numbers.  *)
WholeIfNoneLost ==
    (Scanning /\ IsFinal(Head(incoming)) /\ CutsFit(pending, Head(incoming)))
        => Complete

Channel == INSTANCE DeniableChannel WITH
    Accounts <- {"device"},
    sent <- [i \in DOMAIN sent |-> [len |-> sent[i], to |-> "device"]],
    got <- [a \in {"device"} |-> got],
    lossy <- faulty

(* The downlink is a DeniableChannel to one device: until something fails, *)
(* the client processes the payloads of the outgoing buffer whole, each    *)
(* once and in order; after that some may be missing or be garbage, but    *)
(* none is processed twice or after a later one.                           *)
ImplementsChannel == Channel!Spec

(* As long as nothing fails, every payload in the outgoing buffer is       *)
(* processed by the client, provided regular messages with room for a      *)
(* chunk keep coming.                                                      *)
EventuallyProcessed ==
    \A id \in 1..MaxPayloads :
        (Len(sent) >= id) ~> (faulty \/ id \in {got[i] : i \in DOMAIN got})
=============================================================================
