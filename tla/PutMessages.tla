---------------------------- MODULE PutMessages ----------------------------
(***************************************************************************)
(* Which devices a message is for: handle_put_messages (server.rs) and     *)
(* DestinationDeviceValidator, while accounts and devices come and go      *)
(* (Accounts).                                                             *)
(*                                                                         *)
(* A sender encrypts a message for every device it knows of the account it *)
(* writes to, and names each by its device id and its registration id.     *)
(* The server compares that with the devices it reads, and puts each       *)
(* message in the queue of an address, that is of an account and a device  *)
(* id; the id of a deleted device is given to the next that is linked.  On *)
(* a websocket, the sender and its account are those read when the         *)
(* connection was opened, however long ago, and nothing closes the         *)
(* connection of a device that is deleted.                                 *)
(*                                                                         *)
(* Registration ids are random; here they tell devices apart, so a message *)
(* is named by the device it was encrypted for.  A message may name        *)
(* registration id 0 instead, for which the server compares nothing; the   *)
(* clients of this repository never do, they choose ids from 1 on          *)
(* (client.rs:113).  What becomes of a queue is the subject of             *)
(* MessageDelivery, of the chunks in a request that of Uplink.             *)
(***************************************************************************)
EXTENDS Accounts

CONSTANT MaxUnnamed  \* bound: messages of a request with registration id 0

VARIABLES
    socket,  \* the open websocket, if any: its AuthenticatedDevice
    put      \* the request in progress, if any, with what it has put in queues

putVars == <<socket, put>>
allVars == <<vars, putVars>>

(* A device of an account that nobody changes. *)
Stranger == [acc |-> 0, id |-> 1, by |-> 0]

PutInit == Init /\ socket = <<>> /\ put = <<>>

(* AuthenticatedDevice: the device and the devices of its account. *)
AuthenticatedDevice(d) == [device |-> d, devices |-> GetAllDevices(d.acc)]
-----------------------------------------------------------------------------
(* create_websocket_endpoint authenticates; the connection keeps that.     *)
OpenSocket(d) ==
    /\ socket = <<>> /\ AuthenticateDevice(d)
    /\ socket' = <<AuthenticatedDevice(d)>>
    /\ UNCHANGED <<vars, put>>

CloseSocket ==
    /\ socket # <<>>
    /\ socket' = <<>>
    /\ UNCHANGED <<vars, put>>

(* handle_put_messages begins: `who' sends to account a.  For its own      *)
(* account (a sync message) the devices are those of the authentication.   *)
(* `since' is for the property: the devices the request has to do with.    *)
BeginPut(who, a) ==
    LET sync == a = who.device.acc
    IN  /\ put = <<>>
        /\ put' = <<[pc |-> IF sync THEN "validate" ELSE "devices",
                     acc |-> a, list |-> {}, unnamed |-> {}, queued |-> {},
                     senderKnows |-> {d \in rows : d.acc = a},
                     found |-> IF sync THEN who.devices ELSE {},
                     excluded |-> IF sync THEN {who.device.id} ELSE {},
                     since |-> IF sync THEN who.devices ELSE GetAllDevices(a)]>>
        /\ UNCHANGED <<vars, socket>>

(* put_messages_endpoint: the sender is authenticated with the request. *)
PutEndpoint(d, a) ==
    /\ d = Stranger \/ AuthenticateDevice(d)
    /\ BeginPut(AuthenticatedDevice(d), a)

(* WebSocketConnection::handle_request: it was with the connection. *)
PutOnSocket(a) ==
    /\ socket # <<>>
    /\ BeginPut(socket[1], a)

PutAt(p) == put # <<>> /\ put[1].pc = p
PutGoto(p) == put' = <<[put[1] EXCEPT !.pc = p]>>

(* get_account for the destination: first its devices ... *)
ReadDestination ==
    /\ PutAt("devices")
    /\ put' = <<[put[1] EXCEPT !.pc = "account", !.found = GetAllDevices(put[1].acc)]>>
    /\ UNCHANGED <<vars, socket>>

(* ... and then its row: NOT_FOUND if there is none. *)
GetAccount ==
    /\ PutAt("account")
    /\ IF put[1].acc \in live THEN PutGoto("validate") ELSE put' = <<>>
    /\ UNCHANGED <<vars, socket>>

Ids(ds) == {d.id : d \in ds}

(* Mutant: a device without a message is not noticed. *)
ValidateNoExtraDevices(found, list, excluded) == Ids(list) \subseteq Ids(found) \ excluded

(* validate_complete_device_list: no device missing and none too many. *)
ValidateCompleteDeviceList(found, list, excluded) == Ids(list) = Ids(found) \ excluded

(* Mutant: that there is a device with the id is enough. *)
ValidateDeviceId(found, list, unnamed) == Ids(list \ unnamed) \subseteq Ids(found)

(* validate_registration_id_from_messages: each message that names a       *)
(* registration id, one above 0, names that of the device with its device  *)
(* id.  Those of `unnamed' have 0 and are not compared.                    *)
ValidateRegistrationId(found, list, unnamed) ==
    \A m \in list \ unnamed : \E d \in found : d.id = m.id /\ d = m

(* The messages of the request, for any devices the account ever had that  *)
(* its sender may know, some of them with registration id 0: CONFLICT or   *)
(* GONE, or they are inserted.                                             *)
Validate(list, unnamed) ==
    /\ PutAt("validate") /\ list \subseteq put[1].senderKnows
    /\ Cardinality(unnamed) <= MaxUnnamed
    /\ IF /\ ValidateCompleteDeviceList(put[1].found, list, put[1].excluded)
          /\ ValidateRegistrationId(put[1].found, list, unnamed)
       THEN put' = <<[put[1] EXCEPT !.pc = "insert", !.list = list, !.unnamed = unnamed,
                                  !.found = {}, !.senderKnows = {}]>>
       ELSE put' = <<>>
    /\ UNCHANGED <<vars, socket>>

(* message_manager.insert, message by message: the address is made of the  *)
(* account and the device id.                                              *)
InsertFor(m) ==
    /\ PutAt("insert") /\ m \in put[1].list
    /\ put' = <<[put[1] EXCEPT !.list = @ \ {m},
                              !.queued = @ \cup {[acc |-> put[1].acc, id |-> m.id, for |-> m]}]>>
    /\ UNCHANGED <<vars, socket>>

(* The answer. *)
AnswerPut ==
    /\ PutAt("insert") /\ put[1].list = {}
    /\ put' = <<>>
    /\ UNCHANGED <<vars, socket>>

(* A store fails, or the server stops; the sender has no answer. *)
PutFails ==
    /\ Faults /\ put # <<>>
    /\ put' = <<>>
    /\ UNCHANGED <<vars, socket>>

PutNext ==
    \/ Next /\ UNCHANGED putVars
    \/ \E d \in rows : OpenSocket(d)
    \/ CloseSocket
    \/ \E a \in known : PutOnSocket(a) \/ \E d \in rows \cup {Stranger} : PutEndpoint(d, a)
    \/ ReadDestination \/ GetAccount
    \/ \E list \in SUBSET rows : \E unnamed \in SUBSET list : Validate(list, unnamed)
    \/ \E m \in rows : InsertFor(m)
    \/ AnswerPut \/ PutFails

PutSpec == PutInit /\ [][PutNext]_allVars
-----------------------------------------------------------------------------
(* A message that is answered has reached every device that was there from *)
(* the time the request came in (for a sync message: from the time the     *)
(* sender was authenticated, other than the sender) until now: its queue   *)
(* has one that was encrypted for it, or one that names no registration    *)
(* id.  What is put in a queue and names a registration id was encrypted   *)
(* for a device that was there in that time, never for one deleted before, *)
(* whose id another device has now (handle_put_messages,                   *)
(* DestinationDeviceValidator).  A message with registration id 0 may have *)
(* been encrypted for the one deleted.                                     *)
PutExact ==
    put # <<>> =>
        LET p == put[1]
            IsFor(m, d) == m.acc = d.acc /\ m.id = d.id /\ m.for = d
            MayBeFor(m, d) == m.acc = d.acc /\ m.id = d.id /\ m.for \in p.unnamed
        IN
        /\ p.pc = "insert" /\ p.list = {} =>
             \A d \in p.since \cap devices :
                 \/ d.id \in p.excluded
                 \/ \E m \in p.queued : IsFor(m, d) \/ MayBeFor(m, d)
        /\ \A m \in p.queued : m.for \in p.unnamed \/ \E d \in p.since : IsFor(m, d)
=============================================================================
