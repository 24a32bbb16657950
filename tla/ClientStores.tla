---------------------------- MODULE ClientStores ----------------------------
(***************************************************************************)
(* The protocol stores of a client (client/src/storage/database.rs,        *)
(* generic.rs and the tables of device.rs) under message_encrypt,          *)
(* message_decrypt and process_prekey_bundle of libsignal, together with   *)
(* the registration that fills the key tables (ClientStart).               *)
(*                                                                         *)
(* The client has two of everything that belongs to a peer, one for        *)
(* regular and one for deniable traffic: a table of sessions and a table   *)
(* of the identity keys it trusts.  The keys of its own it has once.  Each *)
(* store object says which table it stands for; each caller says which     *)
(* objects it hands to libsignal.                                          *)
(*                                                                         *)
(* libsignal reads first and then writes one SQL statement after another:  *)
(* the identity of the peer, then, in an order this module leaves open,    *)
(* the removal of the one-time key and the session.  `task' holds what is  *)
(* left of it, and a crash loses the rest.  A regular message stays at the *)
(* server until it is answered, and is read again after a restart; a       *)
(* deniable one comes once.  A message that cannot be read makes           *)
(* receive_message of main.rs panic, before it is answered.                *)
(***************************************************************************)
EXTENDS ClientStart

CONSTANTS
  Peers,          \* the addresses of other devices
  Identities,     \* identity keys they may show
  NoKey,          \* no row in a table of identities
  MaxTalks,       \* bound: conversations ever opened
  MaxLetters      \* bound: messages ever sent to this client

ASSUME StoresAssumption ==
  /\ NoKey \notin Identities
  /\ MaxTalks \in Nat
  /\ MaxLetters \in Nat

Channels == {"regular", "deniable"}

VARIABLES
  trusted,        \* trusted[t][p]: table t of identities, the row of p
  sessions,       \* sessions[t][p]: table t of sessions, the record of p: the
                  \* current session, if any, and the previous ones
  task,           \* what message_encrypt, message_decrypt or
                  \* process_prekey_bundle has still to write
  queue,          \* regular messages the server has no answer for, in order
  reading,        \* how many of them this connection has delivered
  hidden,         \* deniable messages on their way, in order
  talks,          \* how many conversations were opened
  written,        \* conversations the client has written in
  letters,        \* history: how many messages were sent to the client
  read,           \* history: the messages read
  reread,         \* history: the messages read more than once
  torn            \* history: conversations whose one-time key was removed
                  \* and whose session was not stored

stores == <<trusted, sessions>>
mail   == <<queue, reading, hidden, letters>>
seen   == <<read, reread, torn>>
vars == <<startVars, stores, task, mail, talks, written, seen>>

-----------------------------------------------------------------------------
(* The store objects.                                                      *)

(* DeviceIdentityKeyStore: get_identity, save_identity and                 *)
(* is_trusted_identity of the table of the same name.                      *)
DeviceIdentityKeyStore == "DeviceIdentityKeyStore"

(* Mutant: the deniable store is a copy of the other one. *)
DeniableIdentityKeyStoreCopied == "DeviceIdentityKeyStore"

(* DeniableIdentityKeyStore: the same of another table, with the same      *)
(* identity key pair and registration id of the client itself.             *)
DeniableIdentityKeyStore == "DeniableDeviceIdentityKeyStore"

(* DeviceSessionStore and DeniableStore: load_session, store_session.      *)
DeviceSessionStore == "DeviceSessionStore"
DeniableStore == "DeniableDeviceSessionStore"

IdentityTables == {"DeviceIdentityKeyStore", "DeniableDeviceIdentityKeyStore"}
SessionTables  == {"DeviceSessionStore", "DeniableDeviceSessionStore"}

(* The stores of the client's own keys: one for each kind of key, and the  *)
(* same for both kinds of traffic.                                         *)
DevicePreKeyStore       == keys["oneTime"]
DeviceSignedPreKeyStore == keys["signed"]
DeviceKyberPreKeyStore  == keys["kyber"]

ProtocolStore ==
  [identity_key_store          |-> DeviceIdentityKeyStore,
   session_store               |-> DeviceSessionStore,
   deniable_identity_key_store |-> DeniableIdentityKeyStore,
   deniable_store              |-> DeniableStore]

(* The objects receive_message, send_message, send_deniable_message and    *)
(* initialize_sessions_from_bundle choose.                                 *)
IdentityStore(c) ==
  IF c = "deniable" THEN ProtocolStore.deniable_identity_key_store
                    ELSE ProtocolStore.identity_key_store

SessionStore(c) ==
  IF c = "deniable" THEN ProtocolStore.deniable_store ELSE ProtocolStore.session_store

(* The tables and what they do.                                            *)

(* get_identity, get_deniable_identity. *)
GetIdentity(t, p) == trusted[t][p]

(* is_trusted_identity, is_trusted_deniable_identity: the first key seen   *)
(* is trusted, and from then on no other.                                  *)
IsTrusted(t, p, i) == GetIdentity(t, p) \in {NoKey, i}

(* insert_identity, insert_deniable_identity: an INSERT that replaces the  *)
(* row of the same address.                                                *)
InsertRow(t, p, i) == [trusted EXCEPT ![t][p] = i]

(* save_identity, save_deniable_identity: the row is written unless it     *)
(* holds this key, whatever other key it holds.                            *)
SaveIdentity(t, p, i) ==
  IF GetIdentity(t, p) = i THEN trusted ELSE InsertRow(t, p, i)

(* load_session, load_deniable_session: the record of p.                   *)
LoadSession(t, p) == sessions[t][p]

NoSession == [current |-> {}, previous |-> {}]

(* Mutant: the INSERT leaves an existing row alone. *)
StoreSessionOnce(t, p, record) ==
  [sessions EXCEPT ![t][p] = IF @ = NoSession THEN record ELSE @]

(* store_session, store_deniable_session: an INSERT that replaces the row. *)
StoreSession(t, p, record) == [sessions EXCEPT ![t][p] = record]

(* get_pre_key, get_signed_pre_key and get_kyber_pre_key find the keys a   *)
(* first message names.                                                    *)
GetPreKey(talk)       == talk.keys["oneTime"] \subseteq DevicePreKeyStore
GetSignedPreKey(talk) == talk.keys["signed"] \subseteq DeviceSignedPreKeyStore
GetKyberPreKey(talk)  == talk.keys["kyber"] \subseteq DeviceKyberPreKeyStore

(* get_identity_key_pair and get_local_registration_id find the row.       *)
GetIdentityKeyPair == identity

HasKeys(talk) ==
  GetIdentityKeyPair /\ GetPreKey(talk) /\ GetSignedPreKey(talk) /\ GetKyberPreKey(talk)

(* Mutant: the newest key is removed. *)
RemoveNewestPreKey(talk) ==
  [keys EXCEPT !["oneTime"] =
     IF talk.keys["oneTime"] = {} THEN @ ELSE @ \ {Max(@)}]

(* remove_pre_key.                                                         *)
RemovePreKey(talk) == [keys EXCEPT !["oneTime"] = @ \ talk.keys["oneTime"]]

-----------------------------------------------------------------------------
Init ==
  /\ StartInit
  /\ trusted = [t \in IdentityTables |-> [p \in Peers |-> NoKey]]
  /\ sessions = [t \in SessionTables |-> [p \in Peers |-> NoSession]]
  /\ task = <<>>
  /\ queue = <<>> /\ reading = 0 /\ hidden = <<>> /\ letters = 0
  /\ talks = 0
  /\ written = {}
  /\ read = {} /\ reread = {} /\ torn = {}

Ready == pc = Running /\ task = <<>>

(* The sessions of a record, each with its conversation and the messages   *)
(* of it that have been read; those of a conversation.                     *)
All(record) == record.current \cup record.previous
Sessions(talk, record) == {s \in All(record) : s.talk = talk}

(* The conversation becomes the current one; the messages ns are read.     *)
Promoted(talk, record, ns) ==
  LET old == Sessions(talk, record)
  IN  [current  |-> {[talk |-> talk, ns |-> (UNION {s.ns : s \in old}) \cup ns]},
       previous |-> All(record) \ old]

(* What a call has left to write: the statements, the conversation, the    *)
(* record it stores, the message it has read or is about to send, if any,  *)
(* and the deniable message that comes after it.                           *)
Task(left, talk, ns, letter, sends, then) ==
  <<[left |-> left, talk |-> talk,
     record |-> Promoted(talk, LoadSession(SessionStore(talk.channel), talk.peer), ns),
     letter |-> letter, sends |-> sends, then |-> then]>>

(* The process ends; the next connection gets all of the queue again.      *)
End ==
  /\ pc' = Off
  /\ task' = <<>>
  /\ reading' = 0

-----------------------------------------------------------------------------
(* Reading.                                                                *)

(* message_decrypt finds a session, or the keys for one, and has not read  *)
(* the message before.                                                     *)
Decrypts(l) ==
  LET talk == l.talk
      old  == Sessions(talk, LoadSession(SessionStore(talk.channel), talk.peer))
  IN  /\ IsTrusted(IdentityStore(talk.channel), talk.peer, talk.identity)
      /\ IF old = {} THEN ~l.plain /\ HasKeys(talk)
                     ELSE \A s \in old : l.n \notin s.ns

(* message_decrypt up to its first statement, or the panic.                *)
Decrypt(l, then) ==
  IF Decrypts(l)
  THEN /\ task' = LET known == Sessions(l.talk, LoadSession(SessionStore(l.talk.channel), l.talk.peer)) # {}
                      spent == ~known /\ l.talk.keys["oneTime"] # {}
                  IN  Task({"identity", "session"} \cup (IF spent THEN {"key"} ELSE {}),
                           l.talk, {l.n}, <<l>>, FALSE, then)
       /\ UNCHANGED <<pc, reading>>
  ELSE End

(* receive_message takes the next regular message, with up to one deniable *)
(* message that its chunks complete.                                       *)
Receive(k) ==
  /\ Ready
  /\ reading < Len(queue)
  /\ k <= Len(hidden)
  /\ Decrypt(queue[reading + 1], SubSeq(hidden, 1, k))
  /\ hidden' = SubSeq(hidden, k + 1, Len(hidden))
  /\ UNCHANGED <<file, identity, account, keys, next, request, server>>
  /\ UNCHANGED <<stores, queue, letters, talks, written, seen>>

(* The same with a regular message of somebody else.                       *)
ReceiveOther ==
  /\ Ready
  /\ hidden # <<>>
  /\ Decrypt(Head(hidden), <<>>)
  /\ hidden' = Tail(hidden)
  /\ UNCHANGED <<file, identity, account, keys, next, request, server>>
  /\ UNCHANGED <<stores, queue, letters, talks, written, seen>>

-----------------------------------------------------------------------------
(* Writing.                                                                *)

(* initialize_sessions_from_bundle for a bundle of p: the identity and a   *)
(* new session, or, if the key is not trusted, an error that ends the      *)
(* program.                                                                *)
ProcessBundle(c, p, i) ==
  /\ Ready
  /\ talks < MaxTalks
  /\ talks' = talks + 1
  /\ LET talk == [id |-> talks + 1, channel |-> c, peer |-> p, identity |-> i, keys |-> None]
     IN  IF IsTrusted(IdentityStore(c), p, i)
         THEN /\ task' = Task({"identity", "session"}, talk, {}, <<>>, FALSE, <<>>)
              /\ UNCHANGED <<pc, reading>>
         ELSE End
  /\ UNCHANGED <<file, identity, account, keys, next, request, server>>
  /\ UNCHANGED <<stores, queue, hidden, letters, written, seen>>

(* encrypt for p with the current session; without one it fails with       *)
(* NoSession.                                                              *)
Encrypt(c, p) ==
  /\ Ready
  /\ \E s \in LoadSession(SessionStore(c), p).current :
     /\ s.talk \notin written
     /\ IsTrusted(IdentityStore(c), p, s.talk.identity)
     /\ task' = Task({"identity", "session"}, s.talk, {}, <<>>, TRUE, <<>>)
  /\ UNCHANGED <<startVars, stores, mail, talks, written, seen>>

-----------------------------------------------------------------------------
(* The statements.                                                         *)

Left(s) == task # <<>> /\ s \in task[1].left

Written(s) == task' = <<[task[1] EXCEPT !.left = @ \ {s}]>>

WriteIdentity ==
  /\ Left("identity")
  /\ LET talk == task[1].talk IN
     trusted' = SaveIdentity(IdentityStore(talk.channel), talk.peer, talk.identity)
  /\ Written("identity")
  /\ UNCHANGED <<startVars, sessions, mail, talks, written, seen>>

WriteSession ==
  /\ Left("session")
  /\ ~Left("identity")
  /\ LET talk == task[1].talk IN
     sessions' = StoreSession(SessionStore(talk.channel), talk.peer, task[1].record)
  /\ Written("session")
  /\ UNCHANGED <<startVars, trusted, mail, talks, written, seen>>

SpendKey ==
  /\ Left("key")
  /\ ~Left("identity")
  /\ keys' = RemovePreKey(task[1].talk)
  /\ Written("key")
  /\ UNCHANGED <<file, identity, account, next, pc, request, server>>
  /\ UNCHANGED <<stores, mail, talks, written, seen>>

(* The call returns.  A regular message is answered, and the answer may    *)
(* get lost, which nobody notices; then the deniable one is read.          *)
Finish ==
  /\ task # <<>>
  /\ task[1].left = {}
  /\ LET ls == Range(task[1].letter)
         regular == {l \in ls : l.talk.channel = "regular"}
     IN  /\ read' = read \cup ls
         /\ reread' = reread \cup (ls \cap read)
         /\ \/ /\ queue' = IF regular = {} THEN queue ELSE RemoveAt(queue, reading + 1)
               /\ UNCHANGED reading
            \/ /\ Faults /\ regular # {}
               /\ reading' = reading + 1
               /\ UNCHANGED queue
  /\ written' = IF task[1].sends THEN written \cup {task[1].talk} ELSE written
  /\ task' = IF task[1].then = <<>> THEN <<>>
             ELSE <<[task[1] EXCEPT !.left = {"next"}, !.letter = task[1].then]>>
  /\ UNCHANGED <<startVars, stores, hidden, letters, talks, torn>>

(* The deniable message that came with it.                                 *)
ReadHidden ==
  /\ Left("next")
  /\ Decrypt(task[1].letter[1], <<>>)
  /\ UNCHANGED <<file, identity, account, keys, next, request, server>>
  /\ UNCHANGED <<stores, queue, hidden, letters, talks, written, seen>>

(* The one-time key of a call has been removed.                            *)
Spent(t) == /\ t.talk.keys["oneTime"] # {}
            /\ t.talk.keys["oneTime"] \cap DevicePreKeyStore = {}

(* "quit", or a crash between two statements.                              *)
Crash ==
  /\ pc # Off
  /\ Faults \/ Ready
  /\ End
  /\ torn' = torn \cup {t.talk : t \in {u \in Range(task) : Spent(u) /\ "session" \in u.left}}
  /\ UNCHANGED <<file, identity, account, keys, next, request, server>>
  /\ UNCHANGED <<stores, queue, hidden, letters, talks, written, read, reread>>

-----------------------------------------------------------------------------
(* The peers.                                                              *)

Send(talk, n) ==
  LET l == [talk |-> talk, n |-> n, plain |-> talk \in written] IN
  /\ letters < MaxLetters
  /\ letters' = letters + 1
  /\ IF talk.channel = "regular"
     THEN queue' = Append(queue, l) /\ UNCHANGED hidden
     ELSE hidden' = Append(hidden, l) /\ UNCHANGED queue
  /\ UNCHANGED <<reading, file, identity, account, keys, next, pc, request, registered, given>>
  /\ UNCHANGED <<stores, task, written, seen>>

(* A peer asks for the keys and writes.  The server gives a one-time key   *)
(* that it gives to nobody else, or none if there is none left; of the     *)
(* other kinds, whose tables only grow, the newest stands for all.         *)
PeerOpens(c, p, i) ==
  /\ registered
  /\ talks < MaxTalks
  /\ talks' = talks + 1
  /\ \E o \in {{k} : k \in published["oneTime"]} \cup {{}} :
       /\ o = {} => published["oneTime"] = {}
       /\ published' = [published EXCEPT !["oneTime"] = @ \ o]
       /\ Send([id |-> talks + 1, channel |-> c, peer |-> p, identity |-> i,
                keys |-> [k \in Kinds |-> IF k = "oneTime" THEN o ELSE {Max(published[k])}]], 1)

(* A peer writes again in a conversation it opened, or answers.            *)
Known == {l.talk : l \in Range(queue) \cup Range(hidden) \cup read} \cup written

PeerContinues ==
  /\ \E talk \in Known : Send(talk, letters + 1)
  /\ UNCHANGED <<published, talks>>

Next ==
  \/ StartNext /\ UNCHANGED <<stores, task, mail, talks, written, seen>>
  \/ \E k \in 0..1 : Receive(k)
  \/ ReceiveOther
  \/ \E c \in Channels, p \in Peers :
       Encrypt(c, p) \/ \E i \in Identities : ProcessBundle(c, p, i) \/ PeerOpens(c, p, i)
  \/ WriteIdentity \/ WriteSession \/ SpendKey \/ Finish \/ ReadHidden
  \/ Crash
  \/ PeerContinues

Spec == Init /\ [][Next]_vars

-----------------------------------------------------------------------------
Talks ==
  [id : 1..MaxTalks, channel : Channels, peer : Peers, identity : Identities,
   keys : [Kinds -> SUBSET Ids]]

IsLetter(l) ==
  /\ l.talk \in Talks
  /\ l.n \in 1..MaxLetters
  /\ l.plain \in BOOLEAN

IsRecord(r) == \A s \in All(r) : s.talk \in Talks /\ s.ns \subseteq 1..MaxLetters

(* Type invariant: tables, queues and the running call hold values of      *)
(* their types.                                                            *)
TypeOK ==
  /\ StartTypeOK
  /\ trusted \in [IdentityTables -> [Peers -> Identities \cup {NoKey}]]
  /\ DOMAIN sessions = SessionTables
  /\ \A t \in SessionTables : DOMAIN sessions[t] = Peers /\ \A p \in Peers : IsRecord(sessions[t][p])
  /\ Len(task) <= 1
  /\ \A t \in Range(task) :
       /\ t.left \subseteq {"identity", "session", "key", "next"}
       /\ t.talk \in Talks /\ IsRecord(t.record) /\ t.sends \in BOOLEAN
       /\ \A l \in Range(t.letter) \cup Range(t.then) : IsLetter(l)
  /\ \A l \in Range(queue) \cup Range(hidden) \cup read \cup reread : IsLetter(l)
  /\ reading \in 0..MaxLetters /\ letters \in 0..MaxLetters /\ talks \in 0..MaxTalks
  /\ written \subseteq Talks /\ torn \subseteq Talks

(* TypeOK; the row login() reads is there only for an account the server   *)
(* knows; and after login() the key manager goes on with ids under which   *)
(* no key is stored that a peer may still use.                             *)
StoresInv == TypeOK /\ AccountIsRegistered /\ IdsUnused

(* The tables meant for each kind of traffic.                              *)
Tables ==
  [regular  |-> [sessions   |-> "DeviceSessionStore",
                 identities |-> "DeviceIdentityKeyStore"],
   deniable |-> [sessions   |-> "DeniableDeviceSessionStore",
                 identities |-> "DeniableDeviceIdentityKeyStore"]]

(* A session of a peer belongs to the traffic whose table it is in, and    *)
(* was made with the very identity key that the table of the same traffic  *)
(* trusts: the first key seen there is pinned before there is a session,   *)
(* and neither a later bundle, nor a message under another key, nor a      *)
(* crash between the statements, nor the traffic of the other kind changes *)
(* it (IdentityKeyStore and SessionStore of database.rs).                  *)
SessionsPinned ==
  \A c \in Channels, p \in Peers :
    \A s \in All(sessions[Tables[c].sessions][p]) :
      /\ s.talk.channel = c
      /\ s.talk.identity = trusted[Tables[c].identities][p]

(* The session says that the message was read.                             *)
AlreadyRead(l) ==
  \E s \in All(sessions[SessionStore(l.talk.channel)][l.talk.peer]) :
    s.talk = l.talk /\ l.n \in s.ns

(* Messages this connection has still to read. *)
Waiting == Range(SubSeq(queue, reading + 1, Len(queue))) \cup Range(hidden)

(* Whatever the server can give to a peer has its private half in the      *)
(* tables, wherever the registration was cut short, and every message on   *)
(* its way can be decrypted, but for three reasons: its sender shows       *)
(* another identity key than the pinned one, it was read before and its    *)
(* answer got lost, or a crash fell between the removal of its one-time    *)
(* key and the session.  (Such a message is never answered:                *)
(* receive_message fails before it answers, the client panics, and reads   *)
(* it first again.)  What is decrypted may still not decode, if its        *)
(* content holds the byte 0x80 (unpad_message); contents are not modelled. *)
LettersReadable ==
  /\ \A k \in Kinds : published[k] \subseteq keys[k]
  /\ Ready => \A l \in Waiting :
       \/ Decrypts(l)
       \/ ~IsTrusted(IdentityStore(l.talk.channel), l.talk.peer, l.talk.identity)
       \/ AlreadyRead(l)
       \/ l.talk \in torn

(* No message is shown to the user twice, although every regular message   *)
(* is delivered again until the server has its answer: the session is      *)
(* stored before the message is returned (Envelope::decrypt).              *)
ReadOnce == reread = {}

=============================================================================
