---------------------------- MODULE Connections ----------------------------
(***************************************************************************)
(* The life of WebSocket connections on the server: the connection map of  *)
(* WebSocketManager, the listener map of the message cache, the listeners  *)
(* of ClientPresenceManager, and the tasks that use them: the endpoint     *)
(* that sets a connection up, the reader that handles what the client      *)
(* sends and in the end removes it, the tasks that add listeners and the   *)
(* tasks that notify them.                                                 *)
(*                                                                         *)
(* Everything done with a connection holds its mutex.  Only a reader takes *)
(* something else meanwhile; what the other tasks do under a connection's  *)
(* mutex is one step here, enabled while the reader does not hold it.  A   *)
(* notify task takes the mutex of the listener map and then that of the    *)
(* connection.  The mutex of the connection map is never held over an      *)
(* await.  Which messages are sent is the subject of MessageDelivery.      *)
(***************************************************************************)
EXTENDS Integers, Sequences

CONSTANTS
    Devices,     \* protocol addresses
    Requests,    \* what clients may send: a subset of RequestKinds
    MaxConns,    \* bound: connections ever opened
    MaxInserts   \* bound: messages ever inserted in the cache

\* "message": handled with success; "keepalive"; "bad": on_receive fails
RequestKinds == {"message", "keepalive", "bad", "undecodable"}

Conns == 1..MaxConns
None == 0

ASSUME ConnectionsAssumption ==
    /\ None \notin Devices
    /\ Requests \subseteq RequestKinds
    /\ MaxConns \in Nat /\ MaxInserts \in Nat

VARIABLES
    dev,        \* dev[c]: the device of connection c; connections are numbered
                \* in the order of their registration
    ended,      \* connections whose client has gone, and all it sent was read
    closed,     \* connections in ConnectionState::Closed
    told,       \* connections that were sent a close frame
    epc,        \* epc[c]: where c's run of the endpoint is
    joined,     \* the connection that run got from the connection map
    rpc,        \* rpc[c]: where c's reader is
    frame,      \* the message it handles
    target,     \* the connection its keepalive handler wants to close
    sockets,    \* WebSocketManager::sockets
    listeners,  \* MessageCache::listeners
    adding,     \* runs of the endpoint whose task has still to add a listener
    notify,     \* notify[d]: spawned notify tasks
    mapLock,    \* the device whose task holds the listener map; None
    epPresence, \* displacement_listeners of the endpoint's state
    cnPresence, \* displacement_listeners of the state in the connection
    \* history
    inserts,    \* messages inserted
    alone       \* connections opened after all others of their device were over

connVars == <<dev, alone, ended, closed, told>>
endpointVars == <<epc, joined, adding, epPresence>>
readerVars == <<rpc, frame, target, cnPresence>>
notifyVars == <<listeners, notify, mapLock, inserts>>
vars == <<connVars, endpointVars, readerVars, sockets, notifyVars>>

Opened == 1..Len(dev)

TypeOK ==
    /\ dev \in Seq(Devices) /\ Len(dev) <= MaxConns
    /\ alone \subseteq Opened /\ ended \subseteq Opened /\ closed \subseteq Opened /\ told \subseteq Opened
    /\ epc \in [Conns -> {"get", "join", "present", "done", "gone"}]
    /\ joined \in [Conns -> Opened \cup {None}]
    /\ adding \subseteq Opened
    /\ rpc \in [Conns -> {"read", "handle", "target", "closeErr", "removeErr",
                          "close", "remove", "done", "panicked"}]
    /\ frame \in [Conns -> RequestKinds \cup {"none"}]
    /\ target \in [Conns -> Opened \cup {None}]
    /\ sockets \in [Devices -> Opened \cup {None}]
    /\ listeners \in [Devices -> Opened \cup {None}]
    /\ notify \in [Devices -> Nat] /\ mapLock \in Devices \cup {None}
    /\ epPresence \in [Conns -> [Devices -> Opened \cup {None}]]
    /\ cnPresence \in [Conns -> [Devices -> Opened \cup {None}]]
    /\ inserts \in 0..MaxInserts

(* ClientPresenceManager::connect: the router's state has no listener, and *)
(* every request works on a clone of it, with a map of its own.            *)
RouterPresence == [d \in Devices |-> None]

Init ==
    /\ dev = <<>> /\ alone = {} /\ ended = {} /\ closed = {} /\ told = {}
    /\ epc = [c \in Conns |-> "get"] /\ joined = [c \in Conns |-> None]
    /\ adding = {} /\ epPresence = [c \in Conns |-> RouterPresence]
    /\ rpc = [c \in Conns |-> "read"] /\ frame = [c \in Conns |-> "none"]
    /\ target = [c \in Conns |-> None] /\ cnPresence = [c \in Conns |-> RouterPresence]
    /\ sockets = [d \in Devices |-> None]
    /\ listeners = [d \in Devices |-> None] /\ notify = [d \in Devices |-> 0]
    /\ mapLock = None /\ inserts = 0

(* The reader of c holds the mutex of c. *)
Held(c) == rpc[c] \in {"handle", "target"}

Over(c) ==
    /\ rpc[c] \in {"done", "panicked"}
    /\ epc[c] \in {"done", "gone"} /\ c \notin adding
-----------------------------------------------------------------------------
(***************************************************************************)
(* The endpoint '/v1/websocket'.                                           *)
(***************************************************************************)
(* The upgrade succeeded: the connection gets a clone of the state, is put *)
(* in the connection map, over any other of its device, and its reader is  *)
(* spawned.                                                                *)
Open(d) ==
    LET c == Len(dev) + 1
    IN  /\ c <= MaxConns
        /\ dev' = Append(dev, d)
        /\ alone' = IF \A b \in Opened : dev[b] = d => Over(b) THEN alone \cup {c} ELSE alone
        /\ sockets' = [sockets EXCEPT ![d] = c]
        /\ cnPresence' = [cnPresence EXCEPT ![c] = epPresence[c]]
        /\ UNCHANGED <<ended, closed, told, endpointVars, rpc, frame, target, notifyVars>>

(* websocket_manager.get(&address): it may be a newer connection, or none. *)
EndpointGet(c) ==
    LET s == sockets[dev[c]]
    IN  /\ epc[c] = "get"
        /\ joined' = [joined EXCEPT ![c] = s]
        /\ epc' = [epc EXCEPT ![c] = IF s = None THEN "gone" ELSE "join"]
        /\ UNCHANGED <<connVars, adding, epPresence, readerVars, sockets, notifyVars>>

(* send_persisted, under the connection's mutex; then                      *)
(* add_message_availability_listener spawns the task that adds it.         *)
EndpointSend(c) ==
    /\ epc[c] = "join" /\ ~Held(joined[c])
    /\ epc' = [epc EXCEPT ![c] = "present"]
    /\ adding' = adding \cup {c}
    /\ UNCHANGED <<connVars, joined, epPresence, readerVars, sockets, notifyVars>>

(* set_present on the endpoint's state: a listener that is there is        *)
(* displaced (handle_displacement, under its mutex) and replaced.          *)
SetPresent(c) ==
    LET old == epPresence[c][dev[c]]
    IN  /\ epc[c] = "present"
        /\ old # None => ~Held(old)
        /\ epc' = [epc EXCEPT ![c] = "done"]
        /\ told' = told \cup ({old} \ {None})
        /\ epPresence' = [epPresence EXCEPT ![c][dev[c]] = joined[c]]
        /\ UNCHANGED <<dev, alone, ended, closed, joined, adding, readerVars, sockets, notifyVars>>

(* Mutant: a listener that is in the map is kept. *)
AddListenerOnce(c) ==
    /\ c \in adding /\ mapLock = None
    /\ adding' = adding \ {c}
    /\ listeners' = [listeners EXCEPT ![dev[c]] = IF @ = None THEN joined[c] ELSE @]
    /\ UNCHANGED <<connVars, epc, joined, epPresence, readerVars, sockets, notify,
                   mapLock, inserts>>

(* The spawned task of availability_listener::add. *)
AddListener(c) ==
    /\ c \in adding /\ mapLock = None
    /\ adding' = adding \ {c}
    /\ listeners' = [listeners EXCEPT ![dev[c]] = joined[c]]
    /\ UNCHANGED <<connVars, epc, joined, epPresence, readerVars, sockets, notify,
                   mapLock, inserts>>
-----------------------------------------------------------------------------
(***************************************************************************)
(* The reader.                                                             *)
(***************************************************************************)
(* The client goes: it closes the socket, or the network breaks. *)
Disconnect(c) ==
    /\ c \notin ended
    /\ ended' = ended \cup {c}
    /\ UNCHANGED <<dev, alone, closed, told, endpointVars, readerVars, sockets, notifyVars>>

(* A binary message: the reader takes the mutex of its connection, which   *)
(* no other task keeps over a step, also for one that does not decode.     *)
Receive(c, f) ==
    /\ rpc[c] = "read" /\ c \notin ended
    /\ f = "message" => inserts < MaxInserts
    /\ frame' = [frame EXCEPT ![c] = f]
    /\ rpc' = [rpc EXCEPT ![c] = "handle"]
    /\ UNCHANGED <<connVars, endpointVars, target, cnPresence, sockets, notifyVars>>

(* The stream is over, with a close frame or without. *)
ReceiveEnd(c) ==
    /\ rpc[c] = "read" /\ c \in ended
    /\ rpc' = [rpc EXCEPT ![c] = "close"]
    /\ UNCHANGED <<connVars, endpointVars, frame, target, cnPresence, sockets, notifyVars>>

(* The stream yields an error: close_connection is called here, and again  *)
(* after the loop.                                                         *)
ReceiveError(c) ==
    /\ rpc[c] = "read" /\ c \in ended
    /\ rpc' = [rpc EXCEPT ![c] = "closeErr"]
    /\ UNCHANGED <<connVars, endpointVars, frame, target, cnPresence, sockets, notifyVars>>

(* on_receive is over: the mutex is released. *)
Release(c, pc) ==
    /\ rpc' = [rpc EXCEPT ![c] = pc]
    /\ frame' = [frame EXCEPT ![c] = "none"]
    /\ target' = [target EXCEPT ![c] = None]

(* The answer is sent; when the client has gone that may fail, and the     *)
(* unwrap of on_receive's result panics.                                   *)
Answer(c) ==
    \/ Release(c, "read")
    \/ c \in ended /\ Release(c, "panicked")

(* Mutant: the handler waits for the notify task. *)
HandleMessageAwaits(c) ==
    /\ rpc[c] = "handle" /\ frame[c] = "message"
    /\ mapLock = None
    /\ \/ /\ inserts < MaxInserts
          /\ inserts' = inserts + 1
          /\ \E d \in Devices : notify' = [notify EXCEPT ![d] = @ + 1]
       \/ /\ inserts = MaxInserts
          /\ UNCHANGED <<inserts, notify>>
    /\ Answer(c)
    /\ UNCHANGED <<connVars, endpointVars, cnPresence, sockets, listeners, mapLock>>

(* handle_put_messages: the message is inserted for its destination, which *)
(* spawns a notify task.  Inserts past the bound are not counted.          *)
HandleMessage(c) ==
    /\ rpc[c] = "handle" /\ frame[c] = "message"
    /\ \/ /\ inserts < MaxInserts
          /\ inserts' = inserts + 1
          /\ \E d \in Devices : notify' = [notify EXCEPT ![d] = @ + 1]
       \/ /\ inserts = MaxInserts
          /\ UNCHANGED <<inserts, notify>>
    /\ Answer(c)
    /\ UNCHANGED <<connVars, endpointVars, cnPresence, sockets, listeners, mapLock>>

(* A wrong path, a body that does not parse, a response nobody waits for:  *)
(* on_receive returns an error and the reader panics; the mutex is         *)
(* released, the connection stays where it is.                             *)
HandleBad(c) ==
    /\ rpc[c] = "handle" /\ frame[c] = "bad"
    /\ Release(c, "panicked")
    /\ UNCHANGED <<connVars, endpointVars, cnPresence, sockets, notifyVars>>

(* Mutant: a connection whose message does not decode is only told to close. *)
UndecodableStays(c) ==
    /\ rpc[c] = "handle" /\ frame[c] = "undecodable"
    /\ told' = told \cup {c}
    /\ Release(c, "done")
    /\ UNCHANGED <<dev, alone, ended, closed, endpointVars, cnPresence, sockets, notifyVars>>

(* close_reason(1007), and out of the loop. *)
HandleUndecodable(c) ==
    /\ rpc[c] = "handle" /\ frame[c] = "undecodable"
    /\ told' = told \cup {c}
    /\ Release(c, "close")
    /\ UNCHANGED <<dev, alone, ended, closed, endpointVars, cnPresence, sockets, notifyVars>>

(* handle_keepalive, under the mutex of c: a device that is not present in *)
(* the connection's copy of the presence manager has the connection that   *)
(* the connection map holds closed, which needs that connection's mutex.   *)
HandleKeepalive(c) ==
    LET d == dev[c]
    IN  /\ rpc[c] = "handle" /\ frame[c] = "keepalive"
        /\ IF cnPresence[c][d] # None \/ sockets[d] = None
           THEN Answer(c)
           ELSE /\ target' = [target EXCEPT ![c] = sockets[d]]
                /\ rpc' = [rpc EXCEPT ![c] = "target"]
                /\ UNCHANGED frame
        /\ UNCHANGED <<connVars, endpointVars, cnPresence, sockets, notifyVars>>

KeepaliveCloses(c) ==
    /\ rpc[c] = "target" /\ ~Held(target[c])
    /\ told' = told \cup {target[c]}
    /\ Answer(c)
    /\ UNCHANGED <<dev, alone, ended, closed, endpointVars, cnPresence, sockets, notifyVars>>

(* close_connection: WebSocketConnection::close under the mutex ... *)
Close(c) ==
    /\ \/ rpc[c] = "close" /\ rpc' = [rpc EXCEPT ![c] = "remove"]
       \/ rpc[c] = "closeErr" /\ rpc' = [rpc EXCEPT ![c] = "removeErr"]
    /\ closed' = closed \cup {c}
    /\ UNCHANGED <<dev, alone, ended, told, endpointVars, frame, target, cnPresence, sockets, notifyVars>>

(* ... and then the removal of whatever the map holds for the device.      *)
Remove(c) ==
    /\ \/ rpc[c] = "remove" /\ rpc' = [rpc EXCEPT ![c] = "done"]
       \/ rpc[c] = "removeErr" /\ rpc' = [rpc EXCEPT ![c] = "close"]
    /\ sockets' = [sockets EXCEPT ![dev[c]] = None]
    /\ UNCHANGED <<connVars, endpointVars, frame, target, cnPresence, notifyVars>>
-----------------------------------------------------------------------------
(***************************************************************************)
(* Notifications.                                                          *)
(***************************************************************************)
(* A message inserted by some other handler: notify_cached is spawned. *)
Insert(d) ==
    /\ inserts < MaxInserts
    /\ inserts' = inserts + 1
    /\ notify' = [notify EXCEPT ![d] = @ + 1]
    /\ UNCHANGED <<connVars, endpointVars, readerVars, sockets, listeners, mapLock>>

(* The task locks the listener map; without a listener it is over. *)
NotifyLock(d) ==
    /\ notify[d] > 0 /\ mapLock = None
    /\ IF listeners[d] = None
       THEN notify' = [notify EXCEPT ![d] = @ - 1] /\ UNCHANGED mapLock
       ELSE mapLock' = d /\ UNCHANGED notify
    /\ UNCHANGED <<connVars, endpointVars, readerVars, sockets, listeners, inserts>>

(* It waits for the listener's mutex, sends, and lets go of both. *)
NotifySend(d) ==
    /\ mapLock = d /\ ~Held(listeners[d])
    /\ mapLock' = None
    /\ notify' = [notify EXCEPT ![d] = @ - 1]
    /\ UNCHANGED <<connVars, endpointVars, readerVars, sockets, listeners, inserts>>
-----------------------------------------------------------------------------
Endpoint(c) == EndpointGet(c) \/ EndpointSend(c) \/ SetPresent(c)

Handle(c) ==
    \/ HandleMessage(c) \/ HandleBad(c) \/ HandleUndecodable(c)
    \/ HandleKeepalive(c) \/ KeepaliveCloses(c) \/ Close(c) \/ Remove(c)

(* What the tasks of the server do without waiting for a client. *)
Tasks ==
    \/ \E d \in Devices : NotifyLock(d) \/ NotifySend(d)
    \/ \E c \in Opened : Endpoint(c) \/ AddListener(c) \/ Handle(c)

Next ==
    \/ Tasks
    \/ \E d \in Devices : Open(d) \/ Insert(d)
    \/ \E c \in Opened :
        \/ Disconnect(c) \/ ReceiveEnd(c) \/ ReceiveError(c)
        \/ \E f \in Requests : Receive(c, f)

Spec == Init /\ [][Next]_vars
-----------------------------------------------------------------------------
(* The connection that a run of the endpoint goes on with, and makes the   *)
(* listener, is its own or one registered later for the same device: a     *)
(* reconnecting device is never tied to an older connection by its newest  *)
(* run (register_new_connection before get in create_websocket_endpoint).  *)
JoinsNewest ==
    \A c \in Opened : joined[c] # None => joined[c] >= c /\ dev[joined[c]] = dev[c]

(* A reader that is over has closed its connection and taken it out of the *)
(* connection map, where nothing puts it back (WebSocketManager::listen).  *)
NoDeadEntry ==
    \A c \in Opened : rpc[c] = "done" => c \in closed /\ sockets[dev[c]] # c

(* The types of all variables, JoinsNewest and NoDeadEntry: the connection *)
(* map, and what an endpoint takes from it, are never behind the readers   *)
(* (register_new_connection, close_connection).                            *)
ConnectionsInv == TypeOK /\ JoinsNewest /\ NoDeadEntry

(* The reader of c waits for the mutex it holds itself. *)
SelfWait(c) == rpc[c] = "target" /\ target[c] = c

(* Some task has something left to do. *)
Busy ==
    \/ mapLock # None \/ \E d \in Devices : notify[d] > 0
    \/ \E c \in Opened : \/ rpc[c] \notin {"read", "done", "panicked"}
                          \/ epc[c] \notin {"done", "gone"} \/ c \in adding

(* The tasks never wait for each other for ever, although a notify task    *)
(* holds the listener map of all devices while it waits for a connection   *)
(* (notify_cached), and a reader holds its connection while it handles a   *)
(* request: whenever a task has something left to do some task can go on,  *)
(* unless a reader waits for itself in handle_keepalive.                   *)
NoStandstill ==
    Busy => ENABLED Tasks \/ \E c \in Opened : SelfWait(c)

Newest(c) == \A b \in Opened : dev[b] = dev[c] => b <= c

(* A device's newest connection, once the endpoint is through with it and  *)
(* as long as its reader works, is the one that the connection map holds   *)
(* and the one that is notified of messages, provided the device did not   *)
(* connect before its last connection was over (create_websocket_endpoint, *)
(* close_connection).                                                      *)
Served ==
    \A c \in alone :
        /\ Newest(c) /\ epc[c] = "done" /\ c \notin adding
        /\ rpc[c] \in {"read", "handle", "target"}
        => sockets[dev[c]] = c /\ listeners[dev[c]] = c
=============================================================================
