------------------------------- MODULE Uplink -------------------------------
(***************************************************************************)
(* The uplink of the deniable transport: one sending device, the requests  *)
(* PUT /v1/messages it makes, and the incoming chunk buffer the server     *)
(* keeps for it in Redis.                                                  *)
(*                                                                         *)
(* send_deniable_message stores a payload in the client's database.        *)
(* send_message drains that buffer into chunks that fill the free space of *)
(* the regular messages it is sending anyway (Chunker::create_chunks).     *)
(* The server strips the dummies, appends the rest to the sender's         *)
(* incoming buffer, and when the request held a Final chunk dequeues a     *)
(* page of the buffer, reassembles payloads and routes each one to the     *)
(* outgoing payload buffer of its destination account                      *)
(* (handle_receiving_chunks, flush_incoming_chunk_buffer).                 *)
(*                                                                         *)
(* A client handles one command at a time, and the server handles the      *)
(* requests of a connection one at a time under the connection's lock, so  *)
(* the buffer of one sender has one user.  The outcome of a request does   *)
(* not reach the client: send_msg ignores the status of the response, and  *)
(* only a failure of the socket makes send_message try again.              *)
(***************************************************************************)
EXTENDS ChunkStream

CONSTANTS
    Accounts,      \* destinations of deniable payloads
    Lengths,       \* possible lengths of a serialized payload
    Budgets,       \* free space of one message, EMPTY_VEC_SIZE already taken off
    PageSize,      \* PAGE_SIZE of redis.rs: chunks one flush can dequeue
    Faults,        \* what may go wrong: a subset of FaultKinds
    MaxPayloads,   \* bound: payloads the client ever submits
    MaxParts       \* bound: messages (devices of the contact) in one request

FaultKinds ==
    {"crash", "lagged", "disconnect", "reject", "error", "abort", "unroutable"}

ASSUME UplinkAssumption ==
    /\ Accounts # {}
    /\ Lengths \subseteq Nat \ {0}
    /\ Budgets \subseteq Nat
    /\ PageSize \in Nat \ {0}
    /\ Faults \subseteq FaultKinds
    /\ MaxPayloads \in Nat
    /\ MaxParts \in Nat \ {0}

VARIABLES
    \* the client
    sent,      \* submitted payloads, in order: [len, to]
    buffer,    \* table DeniablePayload: [id, off, count], off bytes already cut off
    cpc,       \* what send_message is doing
    parts,     \* messages of the request under construction or sent
    body,      \* chunks of the finished messages of this request
    part,      \* chunks of the message being filled
    budget,    \* free space the message being filled started with
    free,      \* free space left in it
    attempts,  \* how often this request was sent
    \* the connection
    net,       \* requests on their way to the server
    \* the server
    spc,       \* what the handler of this device's request is doing
    request,   \* chunks of the request not enqueued yet
    hasFinal,  \* the request held a Final chunk
    inbuf,     \* the sender's incoming chunk buffer (Redis)
    page,      \* dequeued chunks still to be looked at
    pending,   \* Data chunks waiting for their Final chunk
    done,      \* reassembled payloads waiting to be routed (0: garbage)
    got,       \* payloads put in the outgoing buffer of each account
    \* history
    expect     \* the payload the server completes next; 0 while out of step

clientVars == <<sent, buffer, cpc, parts, body, part, budget, free, attempts>>
serverVars == <<spc, request, hasFinal, inbuf, page, pending, done, got>>
vars == <<clientVars, net, serverVars, expect>>

ClientStates == {"idle", "filling", "waiting"}
ServerStates == {"idle", "enqueue", "assemble", "requeue", "route", "commit"}

TypeOK ==
    /\ sent \in Seq([len : Lengths, to : Accounts])
    /\ buffer \in Seq([id : Nat \ {0}, off : Nat, count : Int])
    /\ cpc \in ClientStates
    /\ parts \in 0..MaxParts
    /\ body \in Seq(Chunk) /\ part \in Seq(Chunk)
    /\ budget \in Nat /\ free \in Nat
    /\ attempts \in 0..2
    /\ net \in Seq(Seq(Chunk))
    /\ spc \in ServerStates
    /\ request \in Seq(Chunk) /\ hasFinal \in BOOLEAN
    /\ inbuf \in Seq(Chunk) /\ page \in Seq(Chunk) /\ pending \in Seq(Chunk)
    /\ done \in Seq(Nat)
    /\ got \in [Accounts -> Seq(Nat)]
    /\ expect \in Nat

Init ==
    /\ sent = <<>> /\ buffer = <<>> /\ cpc = "idle" /\ parts = 0
    /\ body = <<>> /\ part = <<>> /\ budget = 0 /\ free = 0 /\ attempts = 0
    /\ net = <<>>
    /\ spc = "idle" /\ request = <<>> /\ hasFinal = FALSE
    /\ inbuf = <<>> /\ page = <<>> /\ pending = <<>> /\ done = <<>>
    /\ got = [a \in Accounts |-> <<>>]
    /\ expect = 1
-----------------------------------------------------------------------------
(***************************************************************************)
(* Being in step.  The history variable expect holds the number of the     *)
(* payload the server has to complete next.  A fault that destroys or      *)
(* repeats chunks puts it to 0.  The transport is aligned when no chunk is *)
(* on its way and the client is at the start of a payload: from there on   *)
(* the next payload to be cut up is the next one to complete.              *)
(***************************************************************************)
Aligned ==
    /\ cpc = "idle" /\ net = <<>> /\ spc = "idle" /\ inbuf = <<>>
    /\ buffer # <<>> => Head(buffer).off = 0

NextUncut == IF buffer = <<>> THEN Len(sent) + 1 ELSE Head(buffer).id

InStep(e) == expect' = IF Aligned' THEN NextUncut' ELSE e

HasReal(s) == \E i \in DOMAIN s : ~IsDummy(s[i])

LoseStepIf(lost) == InStep(IF lost THEN 0 ELSE expect)
-----------------------------------------------------------------------------
(***************************************************************************)
(* The client.                                                             *)
(***************************************************************************)
(* send_deniable_message / add_deniable_contact_and_queue_message: store   *)
(* the payload with chunk_count 0 at the end of the table.                 *)
Submit(len, a) ==
    /\ cpc = "idle"
    /\ Len(sent) < MaxPayloads
    /\ sent' = Append(sent, [len |-> len, to |-> a])
    /\ buffer' = Append(buffer, [id |-> Len(sent) + 1, off |-> 0, count |-> 0])
    /\ UNCHANGED <<cpc, parts, body, part, budget, free, attempts, net, serverVars>>
    /\ InStep(expect)

(* send_message encrypts for the first device of the contact.  A client    *)
(* that was restarted logs in and builds its next request after its last   *)
(* one has been handled or lost: handlers of two connections of one device *)
(* do not overlap here.                                                    *)
StartRequest(b) ==
    /\ cpc = "idle" /\ net = <<>> /\ spc = "idle"
    /\ cpc' = "filling" /\ parts' = 1 /\ attempts' = 0
    /\ body' = <<>> /\ part' = <<>> /\ budget' = b /\ free' = b
    /\ UNCHANGED <<sent, buffer, net, serverVars>>
    /\ InStep(expect)

(* Mutant: the room a chunk takes is that of its body alone. *)
PutBodyOnly(c) ==
    /\ part' = Append(part, c)
    /\ free' = free - (c.hi - c.lo + 1)
    /\ UNCHANGED <<sent, cpc, parts, body, budget, attempts, net, serverVars>>
    /\ InStep(expect)

(* One round of the loop of create_chunks: put chunk c in the message. *)
Put(c) ==
    /\ part' = Append(part, c)
    /\ free' = free - SizeOf(c)
    /\ UNCHANGED <<sent, cpc, parts, body, budget, attempts, net, serverVars>>
    /\ InStep(expect)

ChunkSize == free - EmptyDenimChunkSize   \* room for the body of one more chunk
Remaining == sent[Head(buffer).id].len - Head(buffer).off

(* Mutant: the loop goes on while any room is left. *)
FillingAnyRoom == cpc = "filling" /\ free > 0

Filling == cpc = "filling" /\ free >= EmptyDenimChunkSize
HasPayload == buffer # <<>> /\ ChunkSize # 0

(* The rest of the first payload fits: a Final chunk, and its row goes. *)
PutFinal ==
    /\ Filling /\ HasPayload /\ Remaining <= ChunkSize
    /\ LET h == Head(buffer)
       IN  Put(FinalChunk(h.id, h.off + 1, sent[h.id].len))
    /\ buffer' = Tail(buffer)

(* Mutant: the order of the Data chunks is not counted down. *)
PutDataSameOrder ==
    /\ Filling /\ HasPayload /\ Remaining > ChunkSize
    /\ LET h == Head(buffer)
       IN  /\ Put(DataChunk(h.id, h.off + 1, h.off + ChunkSize, h.count))
           /\ buffer' = [buffer EXCEPT ![1].off = h.off + ChunkSize]

(* Mutant: a payload waits for a message into which all of it fits. *)
PutDataNever ==
    /\ Filling /\ HasPayload /\ Remaining > ChunkSize
    /\ Put(DummyChunk(ChunkSize))
    /\ UNCHANGED buffer

(* It does not fit: a Data chunk takes all the room, the row keeps the rest. *)
PutData ==
    /\ Filling /\ HasPayload /\ Remaining > ChunkSize
    /\ LET h == Head(buffer)
       IN  /\ Put(DataChunk(h.id, h.off + 1, h.off + ChunkSize, h.count))
           /\ buffer' = [buffer EXCEPT ![1] =
                [id |-> h.id, off |-> h.off + ChunkSize, count |-> h.count - 1]]

(* Nothing to send, or no room for a byte: a Dummy chunk takes all the room. *)
PutDummy ==
    /\ Filling /\ ~HasPayload
    /\ Put(DummyChunk(ChunkSize))
    /\ UNCHANGED buffer

PartFull == cpc = "filling" /\ free < EmptyDenimChunkSize   \* free: the ballast

(* The message for another device of the contact goes in the same request. *)
NextPart(b) ==
    /\ PartFull /\ parts < MaxParts
    /\ parts' = parts + 1
    /\ body' = body \o part /\ part' = <<>> /\ budget' = b /\ free' = b
    /\ UNCHANGED <<sent, buffer, cpc, attempts, net, serverVars>>
    /\ InStep(expect)

SendRequest ==
    /\ PartFull
    /\ cpc' = "waiting" /\ attempts' = 1
    /\ body' = body \o part /\ part' = <<>>
    /\ net' = Append(net, body')
    /\ UNCHANGED <<sent, buffer, parts, budget, free, serverVars>>
    /\ InStep(expect)

ForgetRequest ==
    /\ cpc' = "idle" /\ parts' = 0 /\ body' = <<>> /\ part' = <<>>
    /\ budget' = 0 /\ free' = 0 /\ attempts' = 0

(* A response arrived, whatever its status: send_msg returns Ok. *)
ReceiveResponse ==
    /\ cpc = "waiting" /\ net = <<>> /\ spc = "idle"
    /\ ForgetRequest
    /\ UNCHANGED <<sent, buffer, net, serverVars>>
    /\ InStep(expect)
-----------------------------------------------------------------------------
(***************************************************************************)
(* The server.                                                             *)
(***************************************************************************)
(* on_receive takes the next request; handle_put_messages accepts it. *)
AcceptRequest ==
    /\ net # <<>> /\ spc = "idle"
    /\ net' = Tail(net)
    /\ spc' = "enqueue" /\ request' = Head(net) /\ hasFinal' = FALSE
    /\ UNCHANGED <<clientVars, inbuf, page, pending, done, got>>
    /\ InStep(expect)

(* handle_receiving_chunks drops dummies and inserts every other chunk. *)
EnqueueChunk ==
    /\ spc = "enqueue" /\ request # <<>>
    /\ LET c == Head(request)
       IN  /\ inbuf' = IF IsDummy(c) THEN inbuf ELSE Append(inbuf, c)
           /\ hasFinal' = (hasFinal \/ IsFinal(c))
    /\ request' = Tail(request)
    /\ UNCHANGED <<clientVars, net, spc, page, pending, done, got>>
    /\ InStep(expect)

EndRequest == spc' = "idle" /\ hasFinal' = FALSE

(* No Final chunk (or no chunk at all): the handler is done. *)
NoFinal ==
    /\ spc = "enqueue" /\ request = <<>> /\ ~hasFinal
    /\ EndRequest
    /\ UNCHANGED <<clientVars, net, request, inbuf, page, pending, done, got>>
    /\ InStep(expect)

(* dequeue_incoming_chunks: get_values reads at most a page, and remove    *)
(* deletes what was read.  A buffer longer than a page is left cut in two. *)
DequeuePage ==
    /\ spc = "enqueue" /\ request = <<>> /\ hasFinal
    /\ IF Len(inbuf) <= PageSize
       THEN page' = inbuf /\ inbuf' = <<>>
       ELSE /\ page' = SubSeq(inbuf, 1, PageSize)
            /\ inbuf' = SubSeq(inbuf, PageSize + 1, Len(inbuf))
    /\ spc' = "assemble"
    /\ UNCHANGED <<clientVars, net, request, hasFinal, pending, done, got>>
    /\ LoseStepIf(Len(inbuf) > PageSize)

Assembling == spc = "assemble" /\ page # <<>>

(* Mutant: a Final chunk may be held back like a Data chunk. *)
HoldAnyChunk ==
    /\ Assembling
    /\ pending' = Append(pending, Head(page)) /\ page' = Tail(page)
    /\ UNCHANGED <<clientVars, net, spc, request, hasFinal, inbuf, done, got>>
    /\ InStep(expect)

(* create_deniable_payloads: a Data chunk waits for its Final chunk. *)
HoldData ==
    /\ Assembling /\ ~IsFinal(Head(page))
    /\ pending' = Append(pending, Head(page)) /\ page' = Tail(page)
    /\ UNCHANGED <<clientVars, net, spc, request, hasFinal, inbuf, done, got>>
    /\ InStep(expect)

Complete == IsWholePayload(pending, Head(page), sent[Head(page).id].len)

(* A Final chunk closes what is pending, and the bytes are a payload. *)
CompletePayload ==
    /\ Assembling /\ IsFinal(Head(page)) /\ Complete
    /\ done' = Append(done, Head(page).id)
    /\ pending' = <<>> /\ page' = Tail(page)
    /\ UNCHANGED <<clientVars, net, spc, request, hasFinal, inbuf, got>>
    /\ InStep(IF expect = 0 THEN 0 ELSE Head(page).id + 1)

(* The bytes are no payload anybody serialized: what bincode makes of them *)
(* is one of three outcomes.  It refuses, and the request fails with all   *)
(* it had dequeued; it decodes another payload; or one of a kind that the  *)
(* handler only reports ("Payload not supported").                         *)
RefuseGarbage ==
    /\ Assembling /\ IsFinal(Head(page)) /\ ~Complete
    /\ page' = <<>> /\ pending' = <<>> /\ done' = <<>>
    /\ EndRequest
    /\ UNCHANGED <<clientVars, net, request, inbuf, got>>
    /\ LoseStepIf(TRUE)

DecodeGarbage ==
    /\ Assembling /\ IsFinal(Head(page)) /\ ~Complete
    /\ done' \in {done, Append(done, 0)}
    /\ pending' = <<>> /\ page' = Tail(page)
    /\ UNCHANGED <<clientVars, net, spc, request, hasFinal, inbuf, got>>
    /\ LoseStepIf(TRUE)

(* flush_incoming_chunk_buffer puts the chunks of unfinished payloads back. *)
PageDone ==
    /\ spc = "assemble" /\ page = <<>>
    /\ spc' = "requeue"
    /\ UNCHANGED <<clientVars, net, request, hasFinal, inbuf, page, pending, done, got>>
    /\ InStep(expect)

RequeueChunk ==
    /\ spc = "requeue" /\ pending # <<>>
    /\ inbuf' = Append(inbuf, Head(pending)) /\ pending' = Tail(pending)
    /\ UNCHANGED <<clientVars, net, spc, request, hasFinal, page, done, got>>
    /\ InStep(expect)

FlushDone ==
    /\ spc = "requeue" /\ pending = <<>>
    /\ spc' = "route"
    /\ UNCHANGED <<clientVars, net, request, hasFinal, inbuf, page, pending, done, got>>
    /\ InStep(expect)

(* Every payload found its account: they go to account_payloads_map. *)
Route ==
    /\ spc = "route"
    /\ spc' = "commit"
    /\ UNCHANGED <<clientVars, net, request, hasFinal, inbuf, page, pending, done, got>>
    /\ InStep(expect)

(* The account of garbage is whatever the bytes say. *)
GoesTo(id, a) == IF id = 0 THEN TRUE ELSE sent[id].to = a

RemoveAtIndex(s, i) == SubSeq(s, 1, i - 1) \o SubSeq(s, i + 1, Len(s))

(* Mutant: no order within an account either. *)
CommitAnyPayload(i, a) ==
    /\ spc = "commit" /\ i \in DOMAIN done /\ GoesTo(done[i], a)
    /\ got' = [got EXCEPT ![a] = Append(@, done[i])]
    /\ done' = RemoveAtIndex(done, i)
    /\ UNCHANGED <<clientVars, net, spc, request, hasFinal, inbuf, page, pending>>
    /\ InStep(expect)

(* Mutant: a payload that was put in the outgoing buffer stays on the list. *)
CommitKeepsPayload(i, a) ==
    /\ spc = "commit" /\ i \in DOMAIN done /\ GoesTo(done[i], a)
    /\ got' = [got EXCEPT ![a] = Append(@, done[i])]
    /\ UNCHANGED <<clientVars, net, spc, request, hasFinal, inbuf, page, pending, done>>
    /\ InStep(expect)

(* enqueue_outgoing_payload_buffer, account by account in the order of a   *)
(* HashMap: any order between accounts, request order within one.          *)
CommitPayload(i, a) ==
    /\ spc = "commit" /\ i \in DOMAIN done /\ GoesTo(done[i], a)
    /\ \A j \in 1..(i - 1) : ~GoesTo(done[j], a)
    /\ got' = [got EXCEPT ![a] = Append(@, done[i])]
    /\ done' = RemoveAtIndex(done, i)
    /\ UNCHANGED <<clientVars, net, spc, request, hasFinal, inbuf, page, pending>>
    /\ InStep(expect)

RequestDone ==
    /\ spc = "commit" /\ done = <<>>
    /\ EndRequest
    /\ UNCHANGED <<clientVars, net, request, inbuf, page, pending, done, got>>
    /\ InStep(expect)
-----------------------------------------------------------------------------
(***************************************************************************)
(* Faults.                                                                 *)
(***************************************************************************)
(* The client stops: create_chunks has already taken the chunks of the     *)
(* request out of the database; a request that was sent is still handled.  *)
ClientCrash ==
    /\ "crash" \in Faults /\ cpc # "idle"
    /\ ForgetRequest
    /\ UNCHANGED <<sent, buffer, net, serverVars>>
    /\ LoseStepIf(cpc = "filling" /\ HasReal(body \o part))

(* wait_for_id fails because the broadcast channel overran its receiver:   *)
(* the socket works, so the same request is sent a second time.            *)
ResendRequest ==
    /\ "lagged" \in Faults /\ cpc = "waiting" /\ attempts = 1
    /\ attempts' = 2
    /\ net' = Append(net, body)
    /\ UNCHANGED <<sent, buffer, cpc, parts, body, part, budget, free, serverVars>>
    /\ LoseStepIf(HasReal(body))

(* The socket breaks: requests on the way are lost.  Either sending fails  *)
(* (the second attempt of send_message too), or wait_for_id, which has no  *)
(* timeout, waits for an answer until the user starts the client again.    *)
Disconnect ==
    /\ "disconnect" \in Faults /\ cpc = "waiting"
    /\ ForgetRequest
    /\ net' = <<>>
    /\ UNCHANGED <<sent, buffer, serverVars>>
    /\ LoseStepIf(\E i \in DOMAIN net : HasReal(net[i]))

(* handle_put_messages returns an error before it looks at the chunks. *)
RejectRequest ==
    /\ "reject" \in Faults /\ net # <<>> /\ spc = "idle"
    /\ net' = Tail(net)
    /\ UNCHANGED <<clientVars, serverVars>>
    /\ LoseStepIf(HasReal(Head(net)))

(* Redis or Postgres fails somewhere in the handler, and the error goes    *)
(* back as status 500: what the handler had in hand is gone.               *)
DropAll ==
    /\ EndRequest
    /\ request' = <<>> /\ page' = <<>> /\ pending' = <<>> /\ done' = <<>>

HandlerError ==
    /\ "error" \in Faults /\ spc # "idle"
    /\ DropAll
    /\ UNCHANGED <<clientVars, net, inbuf, got>>
    /\ LoseStepIf(HasReal(request \o page \o pending))

(* The handler stops half way (a panic, the end of the server process):    *)
(* Redis keeps the buffer, what was dequeued is gone, the socket breaks.   *)
ServerAbort ==
    /\ "abort" \in Faults /\ spc # "idle"
    /\ DropAll
    /\ net' = <<>>
    /\ IF cpc = "waiting"
       THEN ForgetRequest
       ELSE UNCHANGED <<cpc, parts, body, part, budget, free, attempts>>
    /\ UNCHANGED <<sent, buffer, inbuf, got>>
    /\ LoseStepIf(\/ HasReal(request \o page \o pending)
                  \/ \E i \in DOMAIN net : HasReal(net[i]))

(* get_account fails for one payload: no payload of this flush is routed. *)
Unroutable ==
    /\ "unroutable" \in Faults /\ spc = "route" /\ done # <<>>
    /\ done' = <<>>
    /\ EndRequest
    /\ UNCHANGED <<clientVars, net, request, inbuf, page, pending, got>>
    /\ InStep(expect)
-----------------------------------------------------------------------------
Fill == PutFinal \/ PutData \/ PutDummy

Client ==
    \/ \E len \in Lengths, a \in Accounts : Submit(len, a)
    \/ \E b \in Budgets : StartRequest(b) \/ NextPart(b)
    \/ Fill \/ SendRequest \/ ReceiveResponse

Server ==
    \/ AcceptRequest \/ EnqueueChunk \/ NoFinal \/ DequeuePage
    \/ HoldData \/ CompletePayload \/ RefuseGarbage \/ DecodeGarbage
    \/ PageDone \/ RequeueChunk \/ FlushDone \/ Route
    \/ \E i \in 1..Len(done), a \in Accounts : CommitPayload(i, a)
    \/ RequestDone

Fault ==
    \/ ClientCrash \/ ResendRequest \/ Disconnect
    \/ RejectRequest \/ HandlerError \/ ServerAbort \/ Unroutable

Next == Client \/ Server \/ Fault

Spec == Init /\ [][Next]_vars

(***************************************************************************)
(* Fairness.  The client and the server keep running the step they are in, *)
(* and the user goes on sending regular messages in which a chunk fits:    *)
(* deniable traffic moves only inside regular traffic.                     *)
(***************************************************************************)
Roomy == {b \in Budgets : b > EmptyDenimChunkSize}

Fairness ==
    /\ WF_vars(Fill) /\ WF_vars(SendRequest) /\ WF_vars(ReceiveResponse)
    /\ WF_vars(Server)
    /\ SF_vars(\E b \in Roomy : StartRequest(b))

FairSpec == Spec /\ Fairness
-----------------------------------------------------------------------------
(***************************************************************************)
(* Properties.                                                             *)
(***************************************************************************)
(* As long as the transport is in step, whatever happened before, the      *)
(* chunks sorted in front of a Final chunk in create_deniable_payloads are *)
(* exactly the bytes of the next payload: no payload is ever assembled     *)
(* from chunks of two, with a hole, or out of turn.                        *)
AssemblesNextPayload ==
    (Assembling /\ IsFinal(Head(page)) /\ expect # 0)
        => Head(page).id = expect /\ Complete

(* "Dequeue all payloads from incoming chunk buffer" (denim_manager.rs):   *)
(* after flush_incoming_chunk_buffer no Final chunk, so no payload that    *)
(* could be completed, is left in the sender's buffer.                     *)
FlushLeavesNoPayload ==
    spc \in {"route", "commit"} => \A i \in DOMAIN inbuf : ~IsFinal(inbuf[i])

(* Payloads reach the outgoing buffer of an account in the order they were *)
(* submitted, and none of them twice.                                      *)
InOrder ==
    \A a \in Accounts : \A i, j \in DOMAIN got[a] :
        i < j /\ got[a][i] # 0 /\ got[a][j] # 0 => got[a][i] < got[a][j]

Channel == INSTANCE DeniableChannel WITH lossy <- FALSE

(* The uplink without faults is a DeniableChannel that never fails:        *)
(* payloads reach the outgoing buffer of their account whole, once and in  *)
(* order (handle_receiving_chunks).                                        *)
ImplementsChannel == Channel!Spec

(* Every payload the user submits reaches the outgoing buffer of its       *)
(* account, provided regular messages with room for a chunk keep coming.   *)
EventuallyRouted ==
    \A id \in 1..MaxPayloads :
        (Len(sent) >= id) ~> (\E a \in Accounts : id \in Channel!Out(a))
-----------------------------------------------------------------------------
(***************************************************************************)
(* The inductive invariant behind AssemblesNextPayload.                    *)
(***************************************************************************)
(* The cursor of the client's buffer: where it cuts off the next chunk. *)
BufferCursor ==
    IF buffer = <<>> THEN Start(Len(sent) + 1)
    ELSE [id |-> Head(buffer).id, off |-> Head(buffer).off, cnt |-> Head(buffer).count]

(* The buffer holds the last payloads submitted; only its head is cut. *)
BufferOK ==
    /\ Len(buffer) <= Len(sent)
    /\ \A i \in 1..Len(buffer) :
         /\ buffer[i].id = Len(sent) - Len(buffer) + i
         /\ buffer[i].off < sent[buffer[i].id].len
         /\ buffer[i].count <= 0
         /\ buffer[i].off = 0 => buffer[i].count = 0
         /\ i > 1 => buffer[i].off = 0

AllReal(s) == \A i \in 1..Len(s) : ~IsDummy(s[i])
AllData(s) == \A i \in 1..Len(s) : ~IsDummy(s[i]) /\ ~IsFinal(s[i])

(* What each phase of the client and of the server leaves empty. *)
PhaseOK ==
    /\ cpc = "filling" => net = <<>> /\ spc = "idle"
    /\ cpc # "filling" => part = <<>>
    /\ spc \in {"idle", "enqueue"} => done = <<>>
    /\ spc # "enqueue" => request = <<>>
    /\ spc # "assemble" => page = <<>>
    /\ spc \notin {"assemble", "requeue"} => pending = <<>>
    /\ AllReal(inbuf) /\ AllReal(page) /\ AllData(pending)

(* The chunks the server holds, oldest first, and those on their way to it. *)
Held == inbuf \o (pending \o page)

Flow ==
    IF cpc = "filling" THEN body \o part
    ELSE IF spc # "idle" THEN request
    ELSE IF net # <<>> THEN net[1] ELSE <<>>

(* The whole pipe from the server's next payload e to the client's buffer  *)
(* is one unbroken run; requests behind the first one carry only dummies.  *)
PipeFrom(e) ==
    /\ Linked(sent, Start(e), Held)
    /\ Chain(sent, End(Start(e), Held), Flow, BufferCursor)
    /\ \A i \in 1..Len(net) : i > 1 \/ spc # "idle" => ~HasReal(net[i])
    /\ spc = "assemble" =>
         /\ inbuf = <<>>
         /\ \A i \in 1..Len(pending) : pending[i].id = e /\ pending[i].flags = 1 - i

Pipe == expect # 0 => PipeFrom(expect)

UplinkInv == TypeOK /\ BufferOK /\ PhaseOK /\ Pipe
=============================================================================
