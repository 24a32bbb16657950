--------------------------- MODULE ClientSession ---------------------------
(***************************************************************************)
(* The contacts, sessions and queued deniable messages of one client:      *)
(* the command loop of client/src/main.rs, the contact and session         *)
(* operations of client/src/client.rs, ContactManager, and the SQLite      *)
(* tables of client/src/storage/device.rs they write.                      *)
(*                                                                         *)
(* The client runs one command at a time, but a command is many SQL        *)
(* statements and no transaction: `todo' holds the statements the running  *)
(* command has still to execute, and a crash between two of them leaves    *)
(* the tables as they are and loses the rest.  What one step pushes back   *)
(* on `todo' depends on the tables at that moment, as in the code.         *)
(*                                                                         *)
(* An alias is the phone number of the peer, so it is named by the peer    *)
(* itself.  The deniable transport is the subject of Uplink and Downlink;  *)
(* here it takes the oldest payload, and answers a key request.            *)
(***************************************************************************)
EXTENDS Integers, SequencesExt

CONSTANTS
  Peers,          \* the accounts the user writes to, or hears from
  Devices,        \* the device ids of an account
  Primary,        \* the device the server answers a deniable key request for
  Msgs,           \* the texts the user enters after "denim:"
  None,           \* no entry in the ContactManager
  Faults,         \* the client may crash, a request fail, a payload get lost
  MaxInbox        \* bound: deniable payloads waiting at the server

ASSUME SessionAssumption ==
  /\ Primary \in Devices
  /\ \A devs \in SUBSET Devices : devs # None
  /\ Faults \in BOOLEAN
  /\ MaxInbox \in Nat \ {0}

VARIABLES
  contacts,       \* ContactManager.contacts: the device ids known, in memory
  saved,          \* table Contacts
  nick,           \* table Nicknames: the peers whose alias resolves
  session,        \* table DeviceSessionStore
  deniable,       \* table DeniableDeviceSessionStore
  keyRequest,     \* table DeniableKeyRequestsSent
  awaiting,       \* table DeniableMessageAwaitingEncryption, by alias
  payloads,       \* table DeniablePayload, oldest first
  inbox,          \* deniable payloads on their way to this client, oldest first
  todo,           \* the statements the running command has still to execute
  typed,          \* the messages the user has entered
  sent,           \* history: the messages put in DeniablePayload, in order
  faulty          \* history: a crash, a failed call or a loss has happened

vars == <<contacts, saved, nick, session, deniable, keyRequest, awaiting,
          payloads, inbox, todo, typed, sent, faulty>>

tables == <<saved, nick, session, deniable, keyRequest, awaiting, payloads, sent>>
user   == <<inbox, typed, faulty>>

Addresses == Peers \X Devices

KeyRequest(p)    == [kind |-> "request", peer |-> p]
Message(p, d, m) == [kind |-> "message", peer |-> p, device |-> d, text |-> m]
KeyResponse(p)   == [kind |-> "response", peer |-> p]
Envelope(p, d)   == [kind |-> "envelope", peer |-> p, device |-> d]

(* One statement a command has still to execute. *)
Do(op, p)       == [op |-> op, peer |-> p]
DoMsg(op, p, m) == [op |-> op, peer |-> p, text |-> m]

(* add_contact(alias, service_id, Some(devices)): the devices are known,   *)
(* and with None, when the server is asked for them.                       *)
AddContact(p, devs) == [op |-> "contact", peer |-> p, devices |-> devs]
AddNewContact(p)    == Do("newContact", p)

(* update_contact(alias, devices). *)
Update(p, devs)     == [op |-> "update", peer |-> p, devices |-> devs]

(* The payloads of a message still to be stored, one for each device. *)
Fan(p, m, devs)     == [op |-> "store", peer |-> p, text |-> m, devices |-> devs]

Idle == todo = <<>>

Init ==
  /\ contacts = [p \in Peers |-> None]
  /\ saved = [p \in Peers |-> None]
  /\ nick = {}
  /\ session = {}
  /\ deniable = {}
  /\ keyRequest = {}
  /\ awaiting = [p \in Peers |-> <<>>]
  /\ payloads = <<>>
  /\ inbox = <<>>
  /\ todo = <<>>
  /\ typed = {}
  /\ sent = <<>>
  /\ faulty = FALSE

(* get_service_id_by_nickname finds a row.                                 *)
Resolves(p) == p \in nick

(* ContactManager::get_contact finds an entry.                             *)
Known(p) == contacts[p] # None

(* ContactManager::add_contact: a new entry, without devices.              *)
WithEntry(p) == [contacts EXCEPT ![p] = {}]

(* ContactManager::update_contact: the entry with more devices.            *)
WithDevices(p, devs) == [contacts EXCEPT ![p] = @ \cup devs]

(* load_session, load_deniable_session find a record.                      *)
Loads(p, d, store) == <<p, d>> \in store

(* The sessions process_prekey_bundle and message_decrypt store.           *)
Sessions(p, devs) == {p} \X devs

(* try_get_key_request_sent finds a row.                                   *)
Requested(p) == p \in keyRequest

(* store_deniable_payload(None, ..) inserts a row after all others.        *)
Stored(payload) == Append(payloads, payload)

(* store_contact inserts or replaces the row of p.                         *)
SavedAs(p, devs) == [saved EXCEPT ![p] = devs]

(* encrypt for a peer by its alias: the alias resolves and there is a      *)
(* session with every device of the contact.                               *)
CanEncrypt(p, store) ==
  /\ Resolves(p)
  /\ Known(p)
  /\ \A d \in contacts[p] : Loads(p, d, store)

(* The process ends: the memory is gone, login() reads the contacts back.  *)
Restart ==
  /\ contacts' = saved
  /\ todo' = <<>>

-----------------------------------------------------------------------------
(* The commands of the user.                                               *)

(* Mutant: the keys are asked for with every message. *)
DenimAlwaysAsks(p, m) ==
  /\ Idle
  /\ m \notin typed
  /\ typed' = typed \cup {m}
  /\ todo' = IF CanEncrypt(p, deniable) THEN <<Fan(p, m, contacts[p])>>
             ELSE <<Do("request", p), Do("requested", p), DoMsg("await", p, m)>>
  /\ UNCHANGED <<contacts, inbox, faulty>> /\ UNCHANGED tables

(* "denim:p:m": the message is encrypted and stored at once, or else it is *)
(* queued behind a request for the keys of p.                              *)
Denim(p, m) ==
  /\ Idle
  /\ m \notin typed
  /\ typed' = typed \cup {m}
  /\ todo' = IF CanEncrypt(p, deniable) THEN <<Fan(p, m, contacts[p])>>
             ELSE IF Requested(p) THEN <<DoMsg("await", p, m)>>
             ELSE <<Do("request", p), Do("requested", p), DoMsg("await", p, m)>>
  /\ UNCHANGED <<contacts, inbox, faulty>> /\ UNCHANGED tables

(* "send:p" to an account the client does not know: add_contact without    *)
(* device ids, which asks the server for the key bundles.                  *)
SendNew(p) ==
  /\ Idle
  /\ ~Known(p)
  /\ todo' = <<AddNewContact(p)>>
  /\ UNCHANGED contacts /\ UNCHANGED user /\ UNCHANGED tables

(* "send:p" to a known account that cannot be encrypted to: send_message   *)
(* fails, add_contact returns at once for a known contact, and the second  *)
(* failure ends the program.                                               *)
SendStuck(p) ==
  /\ Idle
  /\ Known(p)
  /\ ~CanEncrypt(p, session)
  /\ Restart
  /\ UNCHANGED user /\ UNCHANGED tables

(* A fault happens, if faults are modelled. *)
Fault ==
  /\ Faults
  /\ faulty' = TRUE

(* "send:p" and send_msg fails, which it does only if the socket fails or  *)
(* the wait for the answer is given up: it ignores the status.  The        *)
(* bundles are fetched again and the contact is updated before the message *)
(* is sent once more.                                                      *)
SendFails(p) ==
  /\ Fault
  /\ Idle
  /\ CanEncrypt(p, session)
  /\ todo' = <<Do("fetch", p), Update(p, Devices)>>
  /\ UNCHANGED <<contacts, inbox, typed>> /\ UNCHANGED tables

(* The senders of the envelopes among payloads s, to be added in order.    *)
Senders(s) ==
  LET upTo[i \in 0..Len(s)] ==
        IF i = 0 THEN <<>>
        ELSE IF s[i].kind = "envelope"
             THEN Append(upTo[i - 1], AddContact(s[i].peer, {s[i].device}))
             ELSE upTo[i - 1]
  IN  upTo[Len(s)]

(* What receive_message does with a payload: an envelope is decrypted.     *)
Handle(e) ==
  IF e.kind = "envelope"
  THEN [op |-> "decrypt", peer |-> e.peer, devices |-> {e.device}]
  ELSE Do("response", e.peer)

(* "read": receive_message takes one message off the socket, a regular     *)
(* envelope that completes the first n deniable payloads, and main adds    *)
(* the sender of every envelope to the contacts.                           *)
Read(n, regular, sender) ==
  /\ Idle
  /\ n <= Len(inbox)
  /\ LET done == SubSeq(inbox, 1, n)
     IN  todo' = regular \o [i \in 1..n |-> Handle(done[i])] \o sender \o Senders(done)
  /\ inbox' = SubSeq(inbox, n + 1, Len(inbox))
  /\ UNCHANGED <<contacts, typed, faulty>> /\ UNCHANGED tables

(* The regular envelope comes from device d of p, or from some account     *)
(* outside Peers, whose rows are of no interest here.                      *)
Receive(p, d, n) ==
  Read(n, <<[op |-> "regular", peer |-> p, devices |-> {d}]>>, <<AddContact(p, {d})>>)

ReceiveOther(n) == Read(n, <<>>, <<>>)

(* "quit" between two commands, or a crash between two statements of one, *)
(* and the next start.                                                     *)
Stop ==
  /\ IF Idle THEN UNCHANGED faulty ELSE Fault
  /\ Restart
  /\ UNCHANGED <<inbox, typed>> /\ UNCHANGED tables

-----------------------------------------------------------------------------
(* The statements of a command, one step each.                             *)

Head1 == Head(todo)

(* The step of operation op takes its statement off `todo'.                *)
Next1(op) == ~Idle /\ Head1.op = op

(* add_deniable_contact_and_queue_message: the request for the keys is     *)
(* stored as a payload, then the request is recorded, then the message.    *)
StoreKeyRequest ==
  /\ Next1("request")
  /\ payloads' = Stored(KeyRequest(Head1.peer))
  /\ todo' = Tail(todo)
  /\ UNCHANGED <<contacts, saved, nick, session, deniable, keyRequest, awaiting, sent>>
  /\ UNCHANGED user

StoreRequestSent ==
  /\ Next1("requested")
  /\ keyRequest' = keyRequest \cup {Head1.peer}
  /\ todo' = Tail(todo)
  /\ UNCHANGED <<contacts, saved, nick, session, deniable, awaiting, payloads, sent>>
  /\ UNCHANGED user

StoreAwaiting ==
  /\ Next1("await")
  /\ awaiting' = [awaiting EXCEPT ![Head1.peer] = Append(@, Head1.text)]
  /\ todo' = Tail(todo)
  /\ UNCHANGED <<contacts, saved, nick, session, deniable, keyRequest, payloads, sent>>
  /\ UNCHANGED user

(* send_deniable_message stores one payload for each device, in the order  *)
(* of a hash map; with no device left the command goes on.                 *)
StorePayload ==
  /\ Next1("store")
  /\ \/ /\ Head1.devices = {}
        /\ todo' = Tail(todo)
        /\ UNCHANGED <<payloads, sent>>
     \/ \E d \in Head1.devices :
          LET msg == Message(Head1.peer, d, Head1.text) IN
          /\ payloads' = Stored(msg)
          /\ sent' = Append(sent, msg)
          /\ todo' = <<Fan(Head1.peer, Head1.text, Head1.devices \ {d})>> \o Tail(todo)
  /\ UNCHANGED <<contacts, saved, nick, session, deniable, keyRequest, awaiting>>
  /\ UNCHANGED user

(* add_contact: nothing for a known contact; otherwise an entry without    *)
(* devices in memory and in the table, to be followed by the nickname, the *)
(* bundles if the devices are not known, and the devices.                  *)
StoreContact ==
  /\ Next1("contact") \/ Next1("newContact")
  /\ LET p == Head1.peer
         rest == IF Head1.op = "contact"
                 THEN <<Do("nick", p), Update(p, Head1.devices)>>
                 ELSE <<Do("nick", p), Do("fetch", p), Update(p, Devices)>>
     IN  IF Known(p)
         THEN /\ todo' = Tail(todo)
              /\ UNCHANGED <<contacts, saved>>
         ELSE /\ contacts' = WithEntry(p)
              /\ saved' = SavedAs(p, {})
              /\ todo' = rest \o Tail(todo)
  /\ UNCHANGED <<nick, session, deniable, keyRequest, awaiting, payloads, sent>>
  /\ UNCHANGED user

(* insert_service_id_for_nickname: service_id is UNIQUE, so the statement  *)
(* fails, and the client panics, if the peer has a nickname already.       *)
InsertNickname ==
  /\ Next1("nick")
  /\ IF Resolves(Head1.peer)
     THEN /\ Restart
          /\ UNCHANGED nick
     ELSE /\ nick' = nick \cup {Head1.peer}
          /\ todo' = Tail(todo)
          /\ UNCHANGED contacts
  /\ UNCHANGED <<saved, session, deniable, keyRequest, awaiting, payloads, sent>>
  /\ UNCHANGED user

(* get_new_device_ids: a regular session with every device of the peer.    *)
(* When the server does not answer the command gives up or panics, and the *)
(* contact stays as it is.                                                 *)
FetchBundles ==
  /\ Next1("fetch")
  /\ \/ /\ session' = session \cup Sessions(Head1.peer, Devices)
        /\ todo' = Tail(todo)
        /\ UNCHANGED <<contacts, faulty>>
     \/ /\ Fault
        /\ Restart
        /\ UNCHANGED session
  /\ UNCHANGED <<saved, nick, deniable, keyRequest, awaiting, payloads, sent, inbox, typed>>

(* Mutant: the devices are not saved. *)
UpdateContactInMemory ==
  /\ Next1("update")
  /\ contacts' = WithDevices(Head1.peer, Head1.devices)
  /\ todo' = Tail(todo)
  /\ UNCHANGED tables /\ UNCHANGED user

(* update_contact: the devices are added in memory, the contact is saved.  *)
UpdateContact ==
  /\ Next1("update")
  /\ LET p == Head1.peer IN
     /\ contacts' = WithDevices(p, Head1.devices)
     /\ saved' = SavedAs(p, contacts'[p])
  /\ todo' = Tail(todo)
  /\ UNCHANGED <<nick, session, deniable, keyRequest, awaiting, payloads, sent>>
  /\ UNCHANGED user

(* Envelope::decrypt of a regular and of a deniable envelope: each leaves  *)
(* a session in its own table.                                             *)
Decrypt ==
  /\ \/ /\ Next1("regular")
        /\ session' = session \cup Sessions(Head1.peer, Head1.devices)
        /\ UNCHANGED deniable
     \/ /\ Next1("decrypt")
        /\ deniable' = deniable \cup Sessions(Head1.peer, Head1.devices)
        /\ UNCHANGED session
  /\ todo' = Tail(todo)
  /\ UNCHANGED <<contacts, saved, nick, keyRequest, awaiting, payloads, sent>>
  /\ UNCHANGED user

(* Mutant: the request is forgotten after the messages are stored. *)
HandleKeyResponseForgetLast ==
  /\ Next1("response")
  /\ LET p == Head1.peer IN
     /\ deniable' = deniable \cup Sessions(p, {Primary})
     /\ IF Requested(p)
        THEN /\ todo' = <<AddContact(p, {Primary}), Do("flush", p), Do("forget", p)>> \o Tail(todo)
             /\ UNCHANGED contacts
        ELSE Restart
  /\ UNCHANGED <<saved, nick, session, keyRequest, awaiting, payloads, sent>>
  /\ UNCHANGED user

(* A KeyResponse: a deniable session with the device of the bundle, then   *)
(* the alias is looked up in DeniableKeyRequestsSent; with no row there    *)
(* the client panics.                                                      *)
HandleKeyResponse ==
  /\ Next1("response")
  /\ LET p == Head1.peer IN
     /\ deniable' = deniable \cup Sessions(p, {Primary})
     /\ IF Requested(p)
        THEN /\ todo' = <<AddContact(p, {Primary}), Do("forget", p), Do("flush", p)>> \o Tail(todo)
             /\ UNCHANGED contacts
        ELSE Restart
  /\ UNCHANGED <<saved, nick, session, keyRequest, awaiting, payloads, sent>>
  /\ UNCHANGED user

RemoveKeyRequest ==
  /\ Next1("forget")
  /\ keyRequest' = keyRequest \ {Head1.peer}
  /\ todo' = Tail(todo)
  /\ UNCHANGED <<contacts, saved, nick, session, deniable, awaiting, payloads, sent>>
  /\ UNCHANGED user

(* Mutant: one row is read. *)
ReadAwaitingFirst ==
  /\ Next1("flush")
  /\ LET p == Head1.peer IN
     todo' = [i \in 1..(IF awaiting[p] = <<>> THEN 0 ELSE 1) |-> DoMsg("send", p, awaiting[p][i])] \o Tail(todo)
  /\ UNCHANGED contacts /\ UNCHANGED user /\ UNCHANGED tables

(* get_messages_awaiting_encryption: the rows are read and never removed.  *)
ReadAwaiting ==
  /\ Next1("flush")
  /\ LET p == Head1.peer IN
     todo' = [i \in DOMAIN awaiting[p] |-> DoMsg("send", p, awaiting[p][i])] \o Tail(todo)
  /\ UNCHANGED contacts /\ UNCHANGED user /\ UNCHANGED tables

(* send_deniable_message for one of them; an error ends the client.        *)
SendAwaiting ==
  /\ Next1("send")
  /\ LET p == Head1.peer IN
     IF CanEncrypt(p, deniable)
     THEN /\ todo' = <<Fan(p, Head1.text, contacts[p])>> \o Tail(todo)
          /\ UNCHANGED contacts
     ELSE Restart
  /\ UNCHANGED user /\ UNCHANGED tables

Statement ==
  \/ StoreKeyRequest \/ StoreRequestSent \/ StoreAwaiting \/ StorePayload
  \/ StoreContact \/ InsertNickname \/ FetchBundles \/ UpdateContact
  \/ Decrypt \/ HandleKeyResponse \/ RemoveKeyRequest \/ ReadAwaiting \/ SendAwaiting

-----------------------------------------------------------------------------
(* The deniable transport, seen from here.                                 *)

(* The oldest payload reaches the server, which answers a key request.     *)
Transport ==
  /\ payloads # <<>>
  /\ Len(inbox) < MaxInbox
  /\ inbox' = IF Head(payloads).kind = "request"
              THEN Append(inbox, KeyResponse(Head(payloads).peer)) ELSE inbox
  /\ payloads' = Tail(payloads)
  /\ UNCHANGED <<contacts, saved, nick, session, deniable, keyRequest, awaiting, todo, typed, sent, faulty>>

(* A peer sends this client a deniable message of its own.                 *)
PeerWrites(p, d) ==
  /\ Len(inbox) < MaxInbox
  /\ inbox' = Append(inbox, Envelope(p, d))
  /\ UNCHANGED <<contacts, todo, typed, faulty>> /\ UNCHANGED tables

(* A payload is lost on the way (see Uplink and Downlink).                 *)
Lose ==
  /\ Fault
  /\ inbox # <<>>
  /\ inbox' = Tail(inbox)
  /\ UNCHANGED <<contacts, todo, typed>> /\ UNCHANGED tables

Next ==
  \/ \E p \in Peers, m \in Msgs : Denim(p, m)
  \/ \E p \in Peers : SendNew(p) \/ SendStuck(p) \/ SendFails(p)
  \/ \E p \in Peers, d \in Devices, n \in 0..MaxInbox : Receive(p, d, n)
  \/ \E n \in 1..MaxInbox : ReceiveOther(n)
  \/ Statement
  \/ Stop
  \/ Transport
  \/ \E p \in Peers, d \in Devices : PeerWrites(p, d)
  \/ Lose

Spec == Init /\ [][Next]_vars

(* The client finishes its commands, the user goes on sending regular      *)
(* messages, which carry the payloads, and reading what has arrived.       *)
FairSpec ==
  /\ Spec
  /\ WF_vars(Statement)
  /\ SF_vars(Transport)
  /\ SF_vars(\E n \in 1..MaxInbox :
               ReceiveOther(n) \/ \E p \in Peers, d \in Devices : Receive(p, d, n))

-----------------------------------------------------------------------------
Statements ==
  [op : {"request", "requested", "newContact", "nick", "fetch", "response", "forget", "flush"},
   peer : Peers]
    \cup [op : {"await", "send"}, peer : Peers, text : Msgs]
    \cup [op : {"contact", "update", "regular", "decrypt"}, peer : Peers,
          devices : SUBSET Devices]
    \cup [op : {"store"}, peer : Peers, text : Msgs, devices : SUBSET Devices]

Sent == {Message(p, d, m) : p \in Peers, d \in Devices, m \in Msgs}

(* Type invariant: every table, the memory and the running command of the  *)
(* client hold values of their types.                                      *)
TypeOK ==
  /\ contacts \in [Peers -> {None} \cup SUBSET Devices]
  /\ saved \in [Peers -> {None} \cup SUBSET Devices]
  /\ nick \subseteq Peers
  /\ session \subseteq Addresses
  /\ deniable \subseteq Addresses
  /\ keyRequest \subseteq Peers
  /\ awaiting \in [Peers -> Seq(Msgs)]
  /\ payloads \in Seq({KeyRequest(p) : p \in Peers} \cup Sent)
  /\ inbox \in Seq({KeyResponse(p) : p \in Peers}
                     \cup {Envelope(p, d) : p \in Peers, d \in Devices})
  /\ todo \in Seq(Statements)
  /\ typed \subseteq Msgs
  /\ sent \in Seq(Sent)
  /\ faulty \in BOOLEAN

(* A message is put in DeniablePayload at most once for each device, even  *)
(* though its row in DeniableMessageAwaitingEncryption is never removed    *)
(* and a crash may make the client ask for the same keys twice: the row of *)
(* the request is removed before the first message is stored, and no other *)
(* request can follow it while the account has the one device that the     *)
(* client of this repository registers.                                    *)
SentAtMostOnce == \A i, j \in DOMAIN sent : sent[i] = sent[j] => i = j

(* insert_service_id_for_nickname never meets the UNIQUE constraint of     *)
(* Nicknames, wherever an earlier add_contact was cut short: the contact   *)
(* is stored before its nickname, and a stored contact is not added again. *)
NicknameIsNew == ~Idle /\ Head1.op = "nick" => Head1.peer \notin nick

(* Where a key request of peer p, or the answer to it, is.                *)
InFlight(p) ==
  ({"payloads"} \X {i \in DOMAIN payloads : payloads[i] = KeyRequest(p)})
    \cup ({"inbox"} \X {i \in DOMAIN inbox : inbox[i] = KeyResponse(p)})
    \cup ({"todo"} \X {i \in DOMAIN todo : todo[i] = Do("response", p)})

(* As long as no command was cut short, every deniable key request in      *)
(* flight is recorded, and only one is: what lets the handler of a         *)
(* KeyResponse expect a row in DeniableKeyRequestsSent.                    *)
ResponseExpected ==
  ~faulty => \A p \in Peers :
    /\ \A x, y \in InFlight(p) : x = y
    /\ InFlight(p) # {} => p \in keyRequest \/ (~Idle /\ Head1 = Do("requested", p))

(* As long as no command was cut short, between two commands every contact *)
(* the client knows resolves by its alias, has a device, and has a         *)
(* session, so that "denim" either encrypts the message or asks for the    *)
(* keys, and never drops it for lack of a device to encrypt to; a restart  *)
(* changes none of this.                                                   *)
ContactUsable ==
  Idle /\ ~faulty => \A p \in Peers :
    Known(p) =>
      /\ p \in nick
      /\ contacts[p] # {}
      /\ contacts[p] = saved[p]
      /\ \E d \in contacts[p] : <<p, d>> \in session \cup deniable

(* The types of all variables, NicknameIsNew and ContactUsable: the tables *)
(* and the contacts in memory (add_contact, update_contact, load_contacts) *)
(* are left as every command expects them.                                 *)
SessionInv == TypeOK /\ NicknameIsNew /\ ContactUsable

MessageSent(m) == \E i \in DOMAIN sent : sent[i].text = m

(* As long as nothing fails, a message entered with "denim" is stored as a *)
(* payload in the end, now or when the keys of the peer have arrived       *)
(* (send_deniable_message, and receive_message for a KeyResponse).         *)
EventuallySent == \A m \in Msgs : (m \in typed) ~> (MessageSent(m) \/ faulty)

=============================================================================
