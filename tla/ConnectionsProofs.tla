-------------------------- MODULE ConnectionsProofs --------------------------
(***************************************************************************)
(* Proofs about Connections, for any number of devices, connections and    *)
(* messages: the connection map and the listener map keep up with the      *)
(* connections (ConnectionsInv, Served), and whenever a task is left with  *)
(* something to do some task can go on, unless a reader waits for itself   *)
(* (TasksGoOn).                                                            *)
(***************************************************************************)
EXTENDS Connections, FiniteSetsExt, FiniteSetTheorems, TLAPS

Working(c) == rpc[c] \in {"read", "handle", "target"}

(* Nothing has happened to a connection that is still to be opened. *)
Untouched ==
    \A c \in Conns \ Opened :
        epc[c] = "get" /\ rpc[c] = "read" /\ joined[c] = None /\ target[c] = None

(* What the reader's and the notify task's place in the code says. *)
Places ==
    /\ \A c \in Opened :
        /\ rpc[c] = "handle" => frame[c] # "none"
        /\ rpc[c] = "target" => target[c] # None
        /\ rpc[c] \in {"remove", "removeErr"} => c \in closed
        /\ epc[c] \in {"join", "present", "done"} => joined[c] # None
        /\ c \in adding => epc[c] \in {"present", "done"}
    /\ mapLock # None => notify[mapLock] > 0 /\ listeners[mapLock] # None

(* The connection map holds the newest connection of a device, if any. *)
MapHoldsNewest ==
    \A d \in Devices : sockets[d] # None => dev[sockets[d]] = d /\ Newest(sockets[d])

(* A reader that wants to close a connection found it in the map: it is    *)
(* its own or a later one of the same device.                              *)
TargetsLater ==
    \A c \in Opened : target[c] # None => target[c] >= c

(* The newest connection of a device that had no other when it was opened. *)
AloneServed ==
    \A c \in alone : Newest(c) =>
        /\ \A b \in Opened : dev[b] = dev[c] => b = c \/ Over(b)
        /\ Working(c) => sockets[dev[c]] = c
        /\ epc[c] \in {"present", "done"} /\ c \notin adding => listeners[dev[c]] = c

ConnectionsInd ==
    /\ ConnectionsInv /\ Untouched /\ Places
    /\ MapHoldsNewest /\ TargetsLater /\ AloneServed

(* The guards of Tasks. *)
CanGo ==
    \/ \E d \in Devices : \/ notify[d] > 0 /\ mapLock = None
                          \/ mapLock = d /\ ~Held(listeners[d])
    \/ \E c \in Opened :
        \/ epc[c] = "get" \/ (epc[c] = "join" /\ ~Held(joined[c]))
        \/ epc[c] = "present" /\ (epPresence[c][dev[c]] # None => ~Held(epPresence[c][dev[c]]))
        \/ c \in adding /\ mapLock = None
        \/ rpc[c] = "handle" /\ frame[c] \in RequestKinds
        \/ rpc[c] = "target" /\ ~Held(target[c])
        \/ rpc[c] \in {"close", "closeErr", "remove", "removeErr"}

(* Whenever a task has something left to do some task can go on, unless a  *)
(* reader waits for the mutex of its own connection (notify_cached,        *)
(* handle_keepalive).                                                      *)
TasksGoOn == Busy => CanGo \/ \E c \in Opened : SelfWait(c)

LEMMA OpenedIs == TypeOK => Opened \subseteq Conns /\ \A c \in Opened : dev[c] \in Devices
BY ConnectionsAssumption DEF TypeOK, Opened, Conns

(* A step that changes neither the maps nor the endpoint, and starts no    *)
(* reader that was through with its connection.                            *)
LEMMA AloneStays ==
    ASSUME AloneServed, UNCHANGED <<dev, alone, epc, adding, sockets, listeners>>,
           \A b \in Opened : /\ rpc[b] \in {"done", "panicked"} => rpc'[b] \in {"done", "panicked"}
                             /\ Working(b)' => Working(b),
           alone \subseteq Opened
    PROVE  AloneServed'
<1>1. Opened' = Opened /\ \A c : Newest(c)' <=> Newest(c)
    BY DEF Newest, Opened
<1>2. \A b \in Opened : Over(b) => Over(b)'
    BY DEF Over, Working
<1>3. \A c \in Opened : Working(c)' => Working(c)
    BY DEF Working
<1> QED BY <1>1, <1>2, <1>3 DEF AloneServed, Working, Over

LEMMA StepOpen ==
    ASSUME ConnectionsInd, NEW d \in Devices, Open(d)
    PROVE  ConnectionsInd'
<1> USE ConnectionsAssumption DEF ConnectionsInd, ConnectionsInv, Open, connVars, endpointVars,
        readerVars, notifyVars
<1>0. Opened \subseteq Conns /\ \A b \in Opened : dev[b] \in Devices
    BY OpenedIs
<1> DEFINE n == Len(dev) + 1
<1>a. /\ n \in Conns /\ n \notin Opened /\ Opened' = Opened \cup {n}
      /\ \A b \in Opened : dev'[b] = dev[b] /\ b < n
      /\ dev'[n] = d /\ dev' \in Seq(Devices) /\ Len(dev') <= MaxConns
    BY DEF TypeOK, Opened, Conns
<1>b. epc[n] = "get" /\ rpc[n] = "read" /\ joined[n] = None /\ target[n] = None
    BY <1>a DEF Untouched
<1>c. /\ sockets' = [sockets EXCEPT ![d] = n] /\ cnPresence' = [cnPresence EXCEPT ![n] = epPresence[n]]
      /\ alone' = IF \A b \in Opened : dev[b] = d => Over(b) THEN alone \cup {n} ELSE alone
      /\ UNCHANGED <<ended, closed, told, epc, joined, adding, epPresence, rpc, frame, target,
                     listeners, notify, mapLock, inserts>>
    OBVIOUS
<1> HIDE DEF n, Open
<1>1. TypeOK'
    <2>1. /\ alone' \subseteq Opened' /\ ended' \subseteq Opened' /\ closed' \subseteq Opened'
          /\ told' \subseteq Opened' /\ adding' \subseteq Opened'
        BY <1>a, <1>c DEF TypeOK
    <2>2. Opened \cup {None} \subseteq Opened' \cup {None} /\ n \in Opened'
        BY <1>a
    <2>3. /\ joined' \in [Conns -> Opened' \cup {None}] /\ target' \in [Conns -> Opened' \cup {None}]
          /\ sockets' \in [Devices -> Opened' \cup {None}]
          /\ listeners' \in [Devices -> Opened' \cup {None}]
        BY <1>c, <2>2 DEF TypeOK
    <2>4. [Devices -> Opened \cup {None}] \subseteq [Devices -> Opened' \cup {None}]
        BY <2>2
    <2>5. /\ epPresence' \in [Conns -> [Devices -> Opened' \cup {None}]]
          /\ cnPresence' \in [Conns -> [Devices -> Opened' \cup {None}]]
        BY <1>a, <1>c, <2>4 DEF TypeOK
    <2> QED BY <1>a, <1>c, <2>1, <2>3, <2>5 DEF TypeOK
<1>2. JoinsNewest'
    <2>1. ASSUME NEW c \in Opened, joined[c] # None PROVE joined[c] \in Opened
        BY <1>0, <2>1 DEF TypeOK
    <2> QED BY <1>a, <1>b, <1>c, <2>1 DEF JoinsNewest
<1>3. NoDeadEntry'
    BY <1>0, <1>a, <1>b, <1>c DEF TypeOK, NoDeadEntry
<1>4. Untouched'
    BY <1>a, <1>c DEF Untouched
<1>5. Places'
    <2>1. n \notin adding
        BY <1>a DEF TypeOK
    <2> QED BY <1>a, <1>b, <1>c, <2>1 DEF Places
<1>6. MapHoldsNewest'
    <2> SUFFICES ASSUME NEW e \in Devices, sockets'[e] # None
                 PROVE  dev'[sockets'[e]] = e /\ Newest(sockets[e])'
        BY DEF MapHoldsNewest
    <2>1. CASE e = d
        <3>1. sockets'[e] = n
            BY <1>c, <2>1 DEF TypeOK
        <3>2. n \in Nat /\ \A b \in Opened : b \in Nat
            BY <1>a DEF Conns, Opened
        <3> QED BY <1>a, <2>1, <3>1, <3>2 DEF Newest
    <2>2. CASE e # d
        <3>1. sockets'[e] = sockets[e] /\ sockets[e] \in Opened
            BY <1>c, <2>2 DEF TypeOK
        <3>2. dev[sockets[e]] = e /\ Newest(sockets[e])
            BY <3>1 DEF MapHoldsNewest
        <3> QED BY <1>a, <2>2, <3>1, <3>2 DEF Newest
    <2> QED BY <2>1, <2>2
<1>7. TargetsLater'
    BY <1>a, <1>b, <1>c DEF TargetsLater
<1>8. AloneServed'
    <2> SUFFICES ASSUME NEW c \in alone', Newest(c)'
                 PROVE  /\ \A b \in Opened' : dev'[b] = dev'[c] => b = c \/ Over(b)'
                        /\ Working(c)' => sockets'[dev'[c]] = c
                        /\ epc'[c] \in {"present", "done"} /\ c \notin adding' => listeners'[dev'[c]] = c
        BY DEF AloneServed
    <2>1. \A b \in Opened : Over(b)' <=> Over(b)
        BY <1>c DEF Over
    <2>2. CASE c = n
        <3>1. \A b \in Opened : dev[b] = d => Over(b)
            <4>1. n \notin alone
                BY <1>a DEF TypeOK
            <4> QED BY <1>c, <2>2, <4>1
        <3>2. sockets'[dev'[c]] = c
            BY <1>a, <1>c, <2>2 DEF TypeOK
        <3> QED BY <1>a, <1>b, <1>c, <2>1, <2>2, <3>1, <3>2
    <2>3. CASE c # n
        <3>1. c \in alone /\ c \in Opened
            BY <1>c, <2>3 DEF TypeOK
        <3>2. dev'[c] = dev[c] /\ dev[c] # d /\ c \in Nat
            <4>1. c < n /\ c \in Nat /\ n \in Nat
                BY <1>a, <3>1 DEF Conns, Opened
            <4> QED BY <1>a, <3>1, <4>1 DEF Newest
        <3>3. Newest(c)
            BY <1>a, <3>1, <3>2 DEF Newest
        <3>4. sockets'[dev[c]] = sockets[dev[c]]
            BY <1>0, <1>c, <3>1, <3>2 DEF TypeOK
        <3> QED BY <1>a, <1>c, <2>1, <3>1, <3>2, <3>3, <3>4 DEF AloneServed, Working
    <2> QED BY <2>2, <2>3
<1> QED BY <1>1, <1>2, <1>3, <1>4, <1>5, <1>6, <1>7, <1>8

LEMMA StepEndpointGet ==
    ASSUME ConnectionsInd, NEW c \in Opened, EndpointGet(c)
    PROVE  ConnectionsInd'
<1> USE ConnectionsAssumption DEF ConnectionsInd, ConnectionsInv, EndpointGet, connVars, endpointVars,
        readerVars, notifyVars
<1>0. Opened \subseteq Conns /\ \A b \in Opened : dev[b] \in Devices
    BY OpenedIs
<1>1. TypeOK'
    BY <1>0 DEF TypeOK, Opened, Conns, None, Places, RequestKinds
<1>2. JoinsNewest'
    <2> DEFINE s == sockets[dev[c]]
    <2>1. joined' = [joined EXCEPT ![c] = s] /\ UNCHANGED dev
        OBVIOUS
    <2>2. s # None => s >= c /\ dev[s] = dev[c]
        BY <1>0 DEF MapHoldsNewest, Newest, TypeOK, Opened
    <2> HIDE DEF s, EndpointGet
    <2> QED BY <1>0, <2>1, <2>2 DEF TypeOK, JoinsNewest, Opened
<1>3. NoDeadEntry'
    BY <1>0 DEF TypeOK, NoDeadEntry, Opened
<1>4. Untouched'
    BY <1>0 DEF TypeOK, Untouched, Opened
<1>5. Places'
    BY <1>0 DEF TypeOK, Places, Opened
<1>6. MapHoldsNewest'
    BY <1>0 DEF TypeOK, MapHoldsNewest, Newest, Opened
<1>7. TargetsLater'
    BY <1>0 DEF TypeOK, TargetsLater, Opened
<1>8. AloneServed'
    BY <1>0 DEF TypeOK, AloneServed, Newest, Over, Working, Opened
<1> QED BY <1>1, <1>2, <1>3, <1>4, <1>5, <1>6, <1>7, <1>8

LEMMA StepEndpointSend ==
    ASSUME ConnectionsInd, NEW c \in Opened, EndpointSend(c)
    PROVE  ConnectionsInd'
<1> USE ConnectionsAssumption DEF ConnectionsInd, ConnectionsInv, EndpointSend, connVars, endpointVars,
        readerVars, notifyVars
<1>0. Opened \subseteq Conns /\ \A b \in Opened : dev[b] \in Devices
    BY OpenedIs
<1>1. TypeOK'
    BY <1>0, SMTT(30) DEF TypeOK, Opened, Conns, None, Places, RequestKinds
<1>2. JoinsNewest'
    BY <1>0 DEF TypeOK, JoinsNewest, Opened
<1>3. NoDeadEntry'
    BY <1>0 DEF TypeOK, NoDeadEntry, Opened
<1>4. Untouched'
    BY <1>0 DEF TypeOK, Untouched, Opened
<1>5. Places'
    BY <1>0 DEF TypeOK, Places, Opened
<1>6. MapHoldsNewest'
    BY <1>0 DEF TypeOK, MapHoldsNewest, Newest, Opened
<1>7. TargetsLater'
    BY <1>0 DEF TypeOK, TargetsLater, Opened
<1>8. AloneServed'
    BY <1>0 DEF TypeOK, AloneServed, Newest, Over, Working, Opened
<1> QED BY <1>1, <1>2, <1>3, <1>4, <1>5, <1>6, <1>7, <1>8

LEMMA StepSetPresent ==
    ASSUME ConnectionsInd, NEW c \in Opened, SetPresent(c)
    PROVE  ConnectionsInd'
<1> USE ConnectionsAssumption DEF ConnectionsInd, ConnectionsInv, SetPresent, connVars, endpointVars,
        readerVars, notifyVars
<1>0. Opened \subseteq Conns /\ \A b \in Opened : dev[b] \in Devices
    BY OpenedIs
<1>a. joined[c] \in Opened \cup {None} /\ dev[c] \in Devices /\ c \in Conns
    BY <1>0 DEF TypeOK
<1>b. epPresence' \in [Conns -> [Devices -> Opened \cup {None}]]
    BY <1>a DEF TypeOK
<1>c. told' \subseteq Opened
    BY <1>a DEF TypeOK
<1>1. TypeOK'
    BY <1>0, <1>b, <1>c DEF TypeOK, Opened
<1>2. JoinsNewest'
    BY <1>0 DEF TypeOK, JoinsNewest, Opened
<1>3. NoDeadEntry'
    BY <1>0 DEF TypeOK, NoDeadEntry, Opened
<1>4. Untouched'
    BY <1>0 DEF TypeOK, Untouched, Opened
<1>5. Places'
    BY <1>0 DEF TypeOK, Places, Opened
<1>6. MapHoldsNewest'
    BY <1>0 DEF TypeOK, MapHoldsNewest, Newest, Opened
<1>7. TargetsLater'
    BY <1>0 DEF TypeOK, TargetsLater, Opened
<1>8. AloneServed'
    BY <1>0 DEF TypeOK, AloneServed, Newest, Over, Working, Opened
<1> QED BY <1>1, <1>2, <1>3, <1>4, <1>5, <1>6, <1>7, <1>8

LEMMA StepAddListener ==
    ASSUME ConnectionsInd, NEW c \in Opened, AddListener(c)
    PROVE  ConnectionsInd'
<1> USE ConnectionsAssumption DEF ConnectionsInd, ConnectionsInv, AddListener, connVars, endpointVars,
        readerVars, notifyVars
<1>0. Opened \subseteq Conns /\ \A b \in Opened : dev[b] \in Devices
    BY OpenedIs
<1>1. TypeOK'
    BY <1>0 DEF TypeOK, Opened, Conns, None, Places, RequestKinds
<1>2. JoinsNewest'
    BY <1>0 DEF TypeOK, JoinsNewest, Opened
<1>3. NoDeadEntry'
    BY <1>0 DEF TypeOK, NoDeadEntry, Opened
<1>4. Untouched'
    BY <1>0 DEF TypeOK, Untouched, Opened
<1>5. Places'
    BY <1>0 DEF TypeOK, Places, Opened
<1>6. MapHoldsNewest'
    BY <1>0 DEF TypeOK, MapHoldsNewest, Newest, Opened
<1>7. TargetsLater'
    BY <1>0 DEF TypeOK, TargetsLater, Opened
<1>8. AloneServed'
    <2> SUFFICES ASSUME NEW a \in alone, Newest(a)
                 PROVE  /\ \A b \in Opened : dev[b] = dev[a] => b = a \/ Over(b)'
                        /\ Working(a)' => sockets[dev[a]] = a
                        /\ epc[a] \in {"present", "done"} /\ a \notin adding' => listeners'[dev[a]] = a
        BY DEF AloneServed, Newest, Opened
    <2>0. a \in Opened
        BY DEF TypeOK
    <2>1. \A b \in Opened : Over(b) => Over(b)'
        BY DEF Over
    <2>2. CASE dev[c] = dev[a]
        <3>1. c = a
            BY <2>2 DEF AloneServed, Over
        <3>2. joined[a] = a
            <4>1. joined[a] # None /\ joined[a] \in Opened
                BY <1>0, <3>1 DEF Places, TypeOK
            <4> QED BY <2>0, <4>1 DEF JoinsNewest, Newest, Opened
        <3>3. listeners'[dev[a]] = a
            BY <1>0, <2>0, <3>1, <3>2 DEF TypeOK
        <3> QED BY <2>1, <3>3 DEF AloneServed, Working
    <2>3. CASE dev[c] # dev[a]
        <3>1. listeners'[dev[a]] = listeners[dev[a]] /\ c # a
            BY <1>0, <2>0, <2>3 DEF TypeOK
        <3> QED BY <2>1, <3>1 DEF AloneServed, Working
    <2> QED BY <2>2, <2>3
<1> QED BY <1>1, <1>2, <1>3, <1>4, <1>5, <1>6, <1>7, <1>8

LEMMA StepHandleMessage ==
    ASSUME ConnectionsInd, NEW c \in Opened, HandleMessage(c)
    PROVE  ConnectionsInd'
<1> USE ConnectionsAssumption DEF ConnectionsInd, ConnectionsInv, HandleMessage, Answer, Release, connVars, endpointVars,
        readerVars, notifyVars
<1>0. Opened \subseteq Conns /\ \A b \in Opened : dev[b] \in Devices
    BY OpenedIs
<1>a. \/ rpc' = [rpc EXCEPT ![c] = "read"] \/ rpc' = [rpc EXCEPT ![c] = "panicked"]
    OBVIOUS
<1>b. frame' = [frame EXCEPT ![c] = "none"] /\ target' = [target EXCEPT ![c] = None]
    OBVIOUS
<1>c. notify' \in [Devices -> Nat] /\ inserts' \in 0..MaxInserts
    BY DEF TypeOK
<1>d. \A e \in Devices : notify'[e] >= notify[e]
    <2>1. CASE notify' = notify
        BY <2>1 DEF TypeOK
    <2>2. CASE \E d \in Devices : notify' = [notify EXCEPT ![d] = @ + 1]
        BY <2>2 DEF TypeOK
    <2> QED BY <2>1, <2>2
<1>1. TypeOK'
    BY <1>0, <1>a, <1>b, <1>c, ZenonT(40) DEF TypeOK, Opened
<1>2. JoinsNewest'
    BY <1>0 DEF TypeOK, JoinsNewest, Opened
<1>3. NoDeadEntry'
    BY <1>0 DEF TypeOK, NoDeadEntry, Opened
<1>4. Untouched'
    BY <1>0 DEF TypeOK, Untouched, Opened
<1>5. Places'
    <2>1. mapLock' # None => notify'[mapLock'] > 0 /\ listeners'[mapLock'] # None
        BY <1>c, <1>d DEF Places, TypeOK
    <2> QED BY <1>0, <1>a, <1>b, <2>1, ZenonT(40) DEF TypeOK, Places, Opened
<1>6. MapHoldsNewest'
    BY <1>0 DEF TypeOK, MapHoldsNewest, Newest, Opened
<1>7. TargetsLater'
    BY <1>0 DEF TypeOK, TargetsLater, Opened
<1>8. AloneServed'
    <2>0. Working(c) \/ (rpc[c] \in {"close", "closeErr"} /\ ~Working(c)')
        BY <1>0, <1>a DEF Working, TypeOK
    <2> HIDE DEF HandleMessage
    <2>1. ASSUME NEW b \in Opened
          PROVE  /\ rpc[b] \in {"done", "panicked"} => rpc'[b] \in {"done", "panicked"}
                 /\ Working(b)' => Working(b)
        <3>1. b \in Conns /\ c \in Conns /\ DOMAIN rpc = Conns
            BY <1>0 DEF TypeOK
        <3>2. CASE b = c
            BY <1>a, <2>0, <3>1, <3>2 DEF Working
        <3>3. CASE b # c
            <4>1. rpc'[b] = rpc[b]
                BY <1>a, <3>1, <3>3
            <4> QED BY <4>1 DEF Working
        <3> QED BY <3>2, <3>3
    <2> USE DEF HandleMessage
    <2> QED BY <2>1, AloneStays DEF TypeOK
<1> QED BY <1>1, <1>2, <1>3, <1>4, <1>5, <1>6, <1>7, <1>8

LEMMA StepHandleBad ==
    ASSUME ConnectionsInd, NEW c \in Opened, HandleBad(c)
    PROVE  ConnectionsInd'
<1> USE ConnectionsAssumption DEF ConnectionsInd, ConnectionsInv, HandleBad, Release, connVars, endpointVars,
        readerVars, notifyVars
<1>0. Opened \subseteq Conns /\ \A b \in Opened : dev[b] \in Devices
    BY OpenedIs
<1>1. TypeOK'
    BY <1>0 DEF TypeOK, Opened, Conns, None, Places, RequestKinds
<1>2. JoinsNewest'
    BY <1>0 DEF TypeOK, JoinsNewest, Opened
<1>3. NoDeadEntry'
    BY <1>0 DEF TypeOK, NoDeadEntry, Opened
<1>4. Untouched'
    BY <1>0 DEF TypeOK, Untouched, Opened
<1>5. Places'
    BY <1>0 DEF TypeOK, Places, Opened
<1>6. MapHoldsNewest'
    BY <1>0 DEF TypeOK, MapHoldsNewest, Newest, Opened
<1>7. TargetsLater'
    BY <1>0 DEF TypeOK, TargetsLater, Opened
<1>8. AloneServed'
    BY <1>0 DEF TypeOK, AloneServed, Newest, Over, Working, Opened
<1> QED BY <1>1, <1>2, <1>3, <1>4, <1>5, <1>6, <1>7, <1>8

LEMMA StepHandleUndecodable ==
    ASSUME ConnectionsInd, NEW c \in Opened, HandleUndecodable(c)
    PROVE  ConnectionsInd'
<1> USE ConnectionsAssumption DEF ConnectionsInd, ConnectionsInv, HandleUndecodable, Release, connVars, endpointVars,
        readerVars, notifyVars
<1>0. Opened \subseteq Conns /\ \A b \in Opened : dev[b] \in Devices
    BY OpenedIs
<1>1. TypeOK'
    BY <1>0, SMTT(30) DEF TypeOK, Opened, Conns, None, Places, RequestKinds
<1>2. JoinsNewest'
    BY <1>0 DEF TypeOK, JoinsNewest, Opened
<1>3. NoDeadEntry'
    BY <1>0 DEF TypeOK, NoDeadEntry, Opened
<1>4. Untouched'
    BY <1>0 DEF TypeOK, Untouched, Opened
<1>5. Places'
    BY <1>0 DEF TypeOK, Places, Opened
<1>6. MapHoldsNewest'
    BY <1>0 DEF TypeOK, MapHoldsNewest, Newest, Opened
<1>7. TargetsLater'
    BY <1>0 DEF TypeOK, TargetsLater, Opened
<1>8. AloneServed'
    BY <1>0 DEF TypeOK, AloneServed, Newest, Over, Working, Opened
<1> QED BY <1>1, <1>2, <1>3, <1>4, <1>5, <1>6, <1>7, <1>8

LEMMA StepHandleKeepalive ==
    ASSUME ConnectionsInd, NEW c \in Opened, HandleKeepalive(c)
    PROVE  ConnectionsInd'
<1> USE ConnectionsAssumption DEF ConnectionsInd, ConnectionsInv, HandleKeepalive, Answer, Release, connVars, endpointVars,
        readerVars, notifyVars
<1>0. Opened \subseteq Conns /\ \A b \in Opened : dev[b] \in Devices
    BY OpenedIs
<1>a. \/ /\ rpc' \in {[rpc EXCEPT ![c] = "read"], [rpc EXCEPT ![c] = "panicked"]}
         /\ frame' = [frame EXCEPT ![c] = "none"] /\ target' = [target EXCEPT ![c] = None]
      \/ /\ sockets[dev[c]] # None /\ rpc' = [rpc EXCEPT ![c] = "target"]
         /\ frame' = frame /\ target' = [target EXCEPT ![c] = sockets[dev[c]]]
    OBVIOUS
<1>b. sockets[dev[c]] \in Opened \cup {None}
    BY <1>0 DEF TypeOK
<1>c. UNCHANGED <<dev, alone, closed, epc, joined, adding, sockets, listeners, notify, mapLock>>
    OBVIOUS
<1>1. TypeOK'
    <2>1. /\ rpc' \in [Conns -> {"read", "handle", "target", "closeErr", "removeErr",
                             "close", "remove", "done", "panicked"}]
          /\ frame' \in [Conns -> RequestKinds \cup {"none"}]
          /\ target' \in [Conns -> Opened \cup {None}]
        <3> HIDE DEF HandleKeepalive
        <3>1. CASE rpc' \in {[rpc EXCEPT ![c] = "read"], [rpc EXCEPT ![c] = "panicked"]}
            BY <1>0, <1>a, <1>b, <3>1, ZenonT(40) DEF TypeOK
        <3>2. CASE /\ sockets[dev[c]] # None /\ rpc' = [rpc EXCEPT ![c] = "target"]
                   /\ frame' = frame /\ target' = [target EXCEPT ![c] = sockets[dev[c]]]
            BY <1>0, <1>b, <3>2 DEF TypeOK
        <3> QED BY <1>a, <3>1, <3>2
    <2> QED BY <2>1 DEF TypeOK, Opened
<1>2. JoinsNewest'
    BY <1>0 DEF TypeOK, JoinsNewest, Opened
<1>3. NoDeadEntry'
    BY <1>0, ZenonT(40) DEF TypeOK, NoDeadEntry, Opened
<1>4. Untouched'
    BY <1>0 DEF TypeOK, Untouched, Opened
<1>5. Places'
    <2> HIDE DEF HandleKeepalive
    <2>1. CASE rpc' \in {[rpc EXCEPT ![c] = "read"], [rpc EXCEPT ![c] = "panicked"]}
        BY <1>0, <1>a, <1>c, <2>1, ZenonT(40) DEF TypeOK, Places, Opened
    <2>2. CASE /\ sockets[dev[c]] # None /\ rpc' = [rpc EXCEPT ![c] = "target"]
               /\ frame' = frame /\ target' = [target EXCEPT ![c] = sockets[dev[c]]]
        BY <1>0, <1>c, <2>2 DEF TypeOK, Places, Opened
    <2> QED BY <1>a, <2>1, <2>2
<1>6. MapHoldsNewest'
    BY <1>0 DEF TypeOK, MapHoldsNewest, Newest, Opened
<1>7. TargetsLater'
    <2>1. sockets[dev[c]] # None => sockets[dev[c]] >= c
        BY <1>0 DEF MapHoldsNewest, Newest, TypeOK, Opened
    <2> QED BY <1>0, <1>a, <1>c, <2>1 DEF TypeOK, TargetsLater, Opened
<1>8. AloneServed'
    <2>0. Working(c) \/ (rpc[c] \in {"close", "closeErr"} /\ ~Working(c)')
        BY <1>0, <1>a DEF Working, TypeOK
    <2> HIDE DEF HandleKeepalive
    <2>1. ASSUME NEW b \in Opened
          PROVE  /\ rpc[b] \in {"done", "panicked"} => rpc'[b] \in {"done", "panicked"}
                 /\ Working(b)' => Working(b)
        <3>1. b \in Conns /\ c \in Conns /\ DOMAIN rpc = Conns
            BY <1>0 DEF TypeOK
        <3>2. CASE b = c
            BY <1>a, <2>0, <3>1, <3>2 DEF Working
        <3>3. CASE b # c
            <4>1. rpc'[b] = rpc[b]
                BY <1>a, <3>1, <3>3
            <4> QED BY <4>1 DEF Working
        <3> QED BY <3>2, <3>3
    <2> USE DEF HandleKeepalive
    <2> QED BY <2>1, AloneStays DEF TypeOK
<1> QED BY <1>1, <1>2, <1>3, <1>4, <1>5, <1>6, <1>7, <1>8

LEMMA StepKeepaliveCloses ==
    ASSUME ConnectionsInd, NEW c \in Opened, KeepaliveCloses(c)
    PROVE  ConnectionsInd'
<1> USE ConnectionsAssumption DEF ConnectionsInd, ConnectionsInv, KeepaliveCloses, Answer, Release, connVars, endpointVars,
        readerVars, notifyVars
<1>0. Opened \subseteq Conns /\ \A b \in Opened : dev[b] \in Devices
    BY OpenedIs
<1>a. \/ rpc' = [rpc EXCEPT ![c] = "read"] \/ rpc' = [rpc EXCEPT ![c] = "panicked"]
    OBVIOUS
<1>b. frame' = [frame EXCEPT ![c] = "none"] /\ target' = [target EXCEPT ![c] = None]
    OBVIOUS
<1>c. told' \subseteq Opened
    BY <1>0 DEF TypeOK, Places
<1>1. TypeOK'
    <2>1. /\ rpc' \in [Conns -> {"read", "handle", "target", "closeErr", "removeErr",
                             "close", "remove", "done", "panicked"}]
          /\ frame' \in [Conns -> RequestKinds \cup {"none"}]
          /\ target' \in [Conns -> Opened \cup {None}]
        <3> HIDE DEF KeepaliveCloses
        <3> QED BY <1>0, <1>a, <1>b DEF TypeOK
    <2> QED BY <1>c, <2>1 DEF TypeOK, Opened
<1>2. JoinsNewest'
    BY <1>0 DEF TypeOK, JoinsNewest, Opened
<1>3. NoDeadEntry'
    BY <1>0 DEF TypeOK, NoDeadEntry, Opened
<1>4. Untouched'
    BY <1>0 DEF TypeOK, Untouched, Opened
<1>5. Places'
    BY <1>0, ZenonT(40) DEF TypeOK, Places, Opened
<1>6. MapHoldsNewest'
    BY <1>0 DEF TypeOK, MapHoldsNewest, Newest, Opened
<1>7. TargetsLater'
    BY <1>0 DEF TypeOK, TargetsLater, Opened
<1>8. AloneServed'
    <2>0. Working(c) \/ (rpc[c] \in {"close", "closeErr"} /\ ~Working(c)')
        BY <1>0, <1>a DEF Working, TypeOK
    <2> HIDE DEF KeepaliveCloses
    <2>1. ASSUME NEW b \in Opened
          PROVE  /\ rpc[b] \in {"done", "panicked"} => rpc'[b] \in {"done", "panicked"}
                 /\ Working(b)' => Working(b)
        <3>1. b \in Conns /\ c \in Conns /\ DOMAIN rpc = Conns
            BY <1>0 DEF TypeOK
        <3>2. CASE b = c
            BY <1>a, <2>0, <3>1, <3>2 DEF Working
        <3>3. CASE b # c
            <4>1. rpc'[b] = rpc[b]
                BY <1>a, <3>1, <3>3
            <4> QED BY <4>1 DEF Working
        <3> QED BY <3>2, <3>3
    <2> USE DEF KeepaliveCloses
    <2> QED BY <2>1, AloneStays DEF TypeOK
<1> QED BY <1>1, <1>2, <1>3, <1>4, <1>5, <1>6, <1>7, <1>8

LEMMA StepClose ==
    ASSUME ConnectionsInd, NEW c \in Opened, Close(c)
    PROVE  ConnectionsInd'
<1> USE ConnectionsAssumption DEF ConnectionsInd, ConnectionsInv, Close, connVars, endpointVars,
        readerVars, notifyVars
<1>0. Opened \subseteq Conns /\ \A b \in Opened : dev[b] \in Devices
    BY OpenedIs
<1>a. \/ rpc[c] = "close" /\ rpc' = [rpc EXCEPT ![c] = "remove"]
      \/ rpc[c] = "closeErr" /\ rpc' = [rpc EXCEPT ![c] = "removeErr"]
    OBVIOUS
<1>1. TypeOK'
    BY <1>0 DEF TypeOK, Opened, Conns, None, Places, RequestKinds
<1>2. JoinsNewest'
    BY <1>0 DEF TypeOK, JoinsNewest, Opened
<1>3. NoDeadEntry'
    BY <1>0 DEF TypeOK, NoDeadEntry, Opened
<1>4. Untouched'
    BY <1>0 DEF TypeOK, Untouched, Opened
<1>5. Places'
    BY <1>0, ZenonT(40) DEF TypeOK, Places, Opened
<1>6. MapHoldsNewest'
    BY <1>0 DEF TypeOK, MapHoldsNewest, Newest, Opened
<1>7. TargetsLater'
    BY <1>0 DEF TypeOK, TargetsLater, Opened
<1>8. AloneServed'
    <2>0. Working(c) \/ (rpc[c] \in {"close", "closeErr"} /\ ~Working(c)')
        BY <1>0, <1>a DEF Working, TypeOK
    <2> HIDE DEF Close
    <2>1. ASSUME NEW b \in Opened
          PROVE  /\ rpc[b] \in {"done", "panicked"} => rpc'[b] \in {"done", "panicked"}
                 /\ Working(b)' => Working(b)
        <3>1. b \in Conns /\ c \in Conns /\ DOMAIN rpc = Conns
            BY <1>0 DEF TypeOK
        <3>2. CASE b = c
            BY <1>a, <2>0, <3>1, <3>2 DEF Working
        <3>3. CASE b # c
            <4>1. rpc'[b] = rpc[b]
                BY <1>a, <3>1, <3>3
            <4> QED BY <4>1 DEF Working
        <3> QED BY <3>2, <3>3
    <2> USE DEF Close
    <2> QED BY <2>1, AloneStays DEF TypeOK
<1> QED BY <1>1, <1>2, <1>3, <1>4, <1>5, <1>6, <1>7, <1>8

LEMMA StepRemove ==
    ASSUME ConnectionsInd, NEW c \in Opened, Remove(c)
    PROVE  ConnectionsInd'
<1> USE ConnectionsAssumption DEF ConnectionsInd, ConnectionsInv, Remove, connVars, endpointVars,
        readerVars, notifyVars
<1>0. Opened \subseteq Conns /\ \A b \in Opened : dev[b] \in Devices
    BY OpenedIs
<1>1. TypeOK'
    BY <1>0 DEF TypeOK, Opened, Conns, None, Places, RequestKinds
<1>2. JoinsNewest'
    BY <1>0 DEF TypeOK, JoinsNewest, Opened
<1>3. NoDeadEntry'
    <2>1. c \in closed
        <3>1. rpc[c] \in {"remove", "removeErr"}
            OBVIOUS
        <3> QED BY <3>1 DEF Places
    <2>2. \A b \in Opened : /\ rpc'[b] = "done" => rpc[b] = "done" \/ b = c
                            /\ sockets'[dev[b]] \in {sockets[dev[b]], None}
                            /\ b = c => sockets'[dev[b]] = None
        BY <1>0 DEF TypeOK
    <2>3. \A b \in Opened : b # None
        BY DEF Opened, None
    <2>4. UNCHANGED <<dev, closed>> /\ Opened' = Opened
        BY DEF Opened
    <2> HIDE DEF Remove
    <2>5. ASSUME NEW b \in Opened, rpc'[b] = "done" PROVE b \in closed /\ sockets'[dev[b]] # b
        <3>1. CASE b = c
            BY <2>1, <2>2, <2>3, <3>1
        <3>2. CASE b # c
            <4>1. rpc[b] = "done"
                BY <2>2, <2>5, <3>2
            <4> QED BY <2>2, <2>3, <4>1 DEF NoDeadEntry
        <3> QED BY <3>1, <3>2
    <2> QED BY <2>4, <2>5 DEF NoDeadEntry
<1>4. Untouched'
    BY <1>0 DEF TypeOK, Untouched, Opened
<1>5. Places'
    BY <1>0, ZenonT(40) DEF TypeOK, Places, Opened
<1>6. MapHoldsNewest'
    BY <1>0 DEF TypeOK, MapHoldsNewest, Newest, Opened
<1>7. TargetsLater'
    BY <1>0 DEF TypeOK, TargetsLater, Opened
<1>8. AloneServed'
    <2> SUFFICES ASSUME NEW a \in alone, Newest(a)
                 PROVE  /\ \A b \in Opened : dev[b] = dev[a] => b = a \/ Over(b)'
                        /\ Working(a)' => sockets'[dev[a]] = a
                        /\ epc[a] \in {"present", "done"} /\ a \notin adding => listeners[dev[a]] = a
        BY DEF AloneServed, Newest, Opened
    <2>0. a \in Opened
        BY DEF TypeOK
    <2>1. \A b \in Opened : Over(b) => Over(b)'
        BY <1>0 DEF Over, TypeOK
    <2>2. Working(a)' => Working(a) /\ a # c
        BY <1>0, <2>0 DEF Working, TypeOK
    <2>3. a # c => dev[c] # dev[a]
        BY DEF AloneServed, Over
    <2> QED BY <1>0, <2>0, <2>1, <2>2, <2>3 DEF AloneServed, TypeOK
<1> QED BY <1>1, <1>2, <1>3, <1>4, <1>5, <1>6, <1>7, <1>8

LEMMA StepInsert ==
    ASSUME ConnectionsInd, NEW d \in Devices, Insert(d)
    PROVE  ConnectionsInd'
<1> USE ConnectionsAssumption DEF ConnectionsInd, ConnectionsInv, Insert, connVars, endpointVars,
        readerVars, notifyVars
<1>0. Opened \subseteq Conns /\ \A b \in Opened : dev[b] \in Devices
    BY OpenedIs
<1>1. TypeOK'
    BY <1>0 DEF TypeOK, Opened, Conns, None, Places, RequestKinds
<1>2. JoinsNewest'
    BY <1>0 DEF TypeOK, JoinsNewest, Opened
<1>3. NoDeadEntry'
    BY <1>0 DEF TypeOK, NoDeadEntry, Opened
<1>4. Untouched'
    BY <1>0 DEF TypeOK, Untouched, Opened
<1>5. Places'
    BY <1>0 DEF TypeOK, Places, Opened
<1>6. MapHoldsNewest'
    BY <1>0 DEF TypeOK, MapHoldsNewest, Newest, Opened
<1>7. TargetsLater'
    BY <1>0 DEF TypeOK, TargetsLater, Opened
<1>8. AloneServed'
    BY <1>0 DEF TypeOK, AloneServed, Newest, Over, Working, Opened
<1> QED BY <1>1, <1>2, <1>3, <1>4, <1>5, <1>6, <1>7, <1>8

LEMMA StepNotifyLock ==
    ASSUME ConnectionsInd, NEW d \in Devices, NotifyLock(d)
    PROVE  ConnectionsInd'
<1> USE ConnectionsAssumption DEF ConnectionsInd, ConnectionsInv, NotifyLock, connVars, endpointVars,
        readerVars, notifyVars
<1>0. Opened \subseteq Conns /\ \A b \in Opened : dev[b] \in Devices
    BY OpenedIs
<1>1. TypeOK'
    BY <1>0 DEF TypeOK, Opened, Conns, None, Places, RequestKinds
<1>2. JoinsNewest'
    BY <1>0 DEF TypeOK, JoinsNewest, Opened
<1>3. NoDeadEntry'
    BY <1>0 DEF TypeOK, NoDeadEntry, Opened
<1>4. Untouched'
    BY <1>0 DEF TypeOK, Untouched, Opened
<1>5. Places'
    BY <1>0 DEF TypeOK, Places, Opened
<1>6. MapHoldsNewest'
    BY <1>0 DEF TypeOK, MapHoldsNewest, Newest, Opened
<1>7. TargetsLater'
    BY <1>0 DEF TypeOK, TargetsLater, Opened
<1>8. AloneServed'
    BY <1>0 DEF TypeOK, AloneServed, Newest, Over, Working, Opened
<1> QED BY <1>1, <1>2, <1>3, <1>4, <1>5, <1>6, <1>7, <1>8

LEMMA StepNotifySend ==
    ASSUME ConnectionsInd, NEW d \in Devices, NotifySend(d)
    PROVE  ConnectionsInd'
<1> USE ConnectionsAssumption DEF ConnectionsInd, ConnectionsInv, NotifySend, connVars, endpointVars,
        readerVars, notifyVars
<1>0. Opened \subseteq Conns /\ \A b \in Opened : dev[b] \in Devices
    BY OpenedIs
<1>1. TypeOK'
    BY <1>0, SMTT(30) DEF TypeOK, Opened, Conns, None, Places, RequestKinds
<1>2. JoinsNewest'
    BY <1>0 DEF TypeOK, JoinsNewest, Opened
<1>3. NoDeadEntry'
    BY <1>0 DEF TypeOK, NoDeadEntry, Opened
<1>4. Untouched'
    BY <1>0 DEF TypeOK, Untouched, Opened
<1>5. Places'
    BY <1>0 DEF TypeOK, Places, Opened
<1>6. MapHoldsNewest'
    BY <1>0 DEF TypeOK, MapHoldsNewest, Newest, Opened
<1>7. TargetsLater'
    BY <1>0 DEF TypeOK, TargetsLater, Opened
<1>8. AloneServed'
    BY <1>0 DEF TypeOK, AloneServed, Newest, Over, Working, Opened
<1> QED BY <1>1, <1>2, <1>3, <1>4, <1>5, <1>6, <1>7, <1>8

LEMMA StepDisconnect ==
    ASSUME ConnectionsInd, NEW c \in Opened, Disconnect(c)
    PROVE  ConnectionsInd'
<1> USE ConnectionsAssumption DEF ConnectionsInd, ConnectionsInv, Disconnect, connVars, endpointVars,
        readerVars, notifyVars
<1>0. Opened \subseteq Conns /\ \A b \in Opened : dev[b] \in Devices
    BY OpenedIs
<1>1. TypeOK'
    BY <1>0 DEF TypeOK, Opened, Conns, None, Places, RequestKinds
<1>2. JoinsNewest'
    BY <1>0 DEF TypeOK, JoinsNewest, Opened
<1>3. NoDeadEntry'
    BY <1>0 DEF TypeOK, NoDeadEntry, Opened
<1>4. Untouched'
    BY <1>0 DEF TypeOK, Untouched, Opened
<1>5. Places'
    BY <1>0 DEF TypeOK, Places, Opened
<1>6. MapHoldsNewest'
    BY <1>0 DEF TypeOK, MapHoldsNewest, Newest, Opened
<1>7. TargetsLater'
    BY <1>0 DEF TypeOK, TargetsLater, Opened
<1>8. AloneServed'
    BY <1>0 DEF TypeOK, AloneServed, Newest, Over, Working, Opened
<1> QED BY <1>1, <1>2, <1>3, <1>4, <1>5, <1>6, <1>7, <1>8

LEMMA StepReceiveEnd ==
    ASSUME ConnectionsInd, NEW c \in Opened, ReceiveEnd(c)
    PROVE  ConnectionsInd'
<1> USE ConnectionsAssumption DEF ConnectionsInd, ConnectionsInv, ReceiveEnd, connVars, endpointVars,
        readerVars, notifyVars
<1>0. Opened \subseteq Conns /\ \A b \in Opened : dev[b] \in Devices
    BY OpenedIs
<1>1. TypeOK'
    BY <1>0 DEF TypeOK, Opened, Conns, None, Places, RequestKinds
<1>2. JoinsNewest'
    BY <1>0 DEF TypeOK, JoinsNewest, Opened
<1>3. NoDeadEntry'
    BY <1>0 DEF TypeOK, NoDeadEntry, Opened
<1>4. Untouched'
    BY <1>0 DEF TypeOK, Untouched, Opened
<1>5. Places'
    BY <1>0 DEF TypeOK, Places, Opened
<1>6. MapHoldsNewest'
    BY <1>0 DEF TypeOK, MapHoldsNewest, Newest, Opened
<1>7. TargetsLater'
    BY <1>0 DEF TypeOK, TargetsLater, Opened
<1>8. AloneServed'
    BY <1>0 DEF TypeOK, AloneServed, Newest, Over, Working, Opened
<1> QED BY <1>1, <1>2, <1>3, <1>4, <1>5, <1>6, <1>7, <1>8

LEMMA StepReceiveError ==
    ASSUME ConnectionsInd, NEW c \in Opened, ReceiveError(c)
    PROVE  ConnectionsInd'
<1> USE ConnectionsAssumption DEF ConnectionsInd, ConnectionsInv, ReceiveError, connVars, endpointVars,
        readerVars, notifyVars
<1>0. Opened \subseteq Conns /\ \A b \in Opened : dev[b] \in Devices
    BY OpenedIs
<1>1. TypeOK'
    BY <1>0 DEF TypeOK, Opened, Conns, None, Places, RequestKinds
<1>2. JoinsNewest'
    BY <1>0 DEF TypeOK, JoinsNewest, Opened
<1>3. NoDeadEntry'
    BY <1>0 DEF TypeOK, NoDeadEntry, Opened
<1>4. Untouched'
    BY <1>0 DEF TypeOK, Untouched, Opened
<1>5. Places'
    BY <1>0 DEF TypeOK, Places, Opened
<1>6. MapHoldsNewest'
    BY <1>0 DEF TypeOK, MapHoldsNewest, Newest, Opened
<1>7. TargetsLater'
    BY <1>0 DEF TypeOK, TargetsLater, Opened
<1>8. AloneServed'
    BY <1>0 DEF TypeOK, AloneServed, Newest, Over, Working, Opened
<1> QED BY <1>1, <1>2, <1>3, <1>4, <1>5, <1>6, <1>7, <1>8

LEMMA StepReceive ==
    ASSUME ConnectionsInd, NEW c \in Opened, NEW f \in Requests, Receive(c, f)
    PROVE  ConnectionsInd'
<1> USE ConnectionsAssumption DEF ConnectionsInd, ConnectionsInv, Receive, connVars, endpointVars,
        readerVars, notifyVars
<1>0. Opened \subseteq Conns /\ \A b \in Opened : dev[b] \in Devices
    BY OpenedIs
<1>1. TypeOK'
    BY <1>0 DEF TypeOK, Opened, Conns, None, Places, RequestKinds
<1>2. JoinsNewest'
    BY <1>0 DEF TypeOK, JoinsNewest, Opened
<1>3. NoDeadEntry'
    BY <1>0 DEF TypeOK, NoDeadEntry, Opened
<1>4. Untouched'
    BY <1>0 DEF TypeOK, Untouched, Opened
<1>5. Places'
    BY <1>0 DEF TypeOK, Places, Opened, RequestKinds
<1>6. MapHoldsNewest'
    BY <1>0 DEF TypeOK, MapHoldsNewest, Newest, Opened
<1>7. TargetsLater'
    BY <1>0 DEF TypeOK, TargetsLater, Opened
<1>8. AloneServed'
    BY <1>0 DEF TypeOK, AloneServed, Newest, Over, Working, Opened
<1> QED BY <1>1, <1>2, <1>3, <1>4, <1>5, <1>6, <1>7, <1>8

LEMMA InitConnections == Init => ConnectionsInd
<1> SUFFICES ASSUME Init PROVE ConnectionsInd
    OBVIOUS
<1>1. Opened = {} /\ Len(dev) = 0
    BY DEF Init, Opened
<1>2. TypeOK
    BY <1>1, ConnectionsAssumption DEF Init, TypeOK, RouterPresence
<1>3. JoinsNewest /\ NoDeadEntry /\ Untouched /\ Places /\ TargetsLater
    BY <1>1 DEF Init, JoinsNewest, NoDeadEntry, Untouched, Places, TargetsLater
<1>4. MapHoldsNewest /\ AloneServed
    BY <1>1 DEF Init, MapHoldsNewest, AloneServed
<1> QED BY <1>2, <1>3, <1>4 DEF ConnectionsInd, ConnectionsInv

(* ConnectionsInd is inductive. *)
LEMMA NextConnections == ConnectionsInd /\ [Next]_vars => ConnectionsInd'
<1> SUFFICES ASSUME ConnectionsInd, [Next]_vars PROVE ConnectionsInd'
    OBVIOUS
<1>1. CASE UNCHANGED vars
    BY <1>1 DEF ConnectionsInd, ConnectionsInv, TypeOK, JoinsNewest, NoDeadEntry, Untouched, Places,
        MapHoldsNewest, TargetsLater, AloneServed, Newest, Over, Working, Opened, vars, connVars,
        endpointVars, readerVars, notifyVars
<1>2. ASSUME NEW d \in Devices, NotifyLock(d) \/ NotifySend(d) \/ Open(d) \/ Insert(d)
      PROVE  ConnectionsInd'
    BY <1>2, StepNotifyLock, StepNotifySend, StepOpen, StepInsert
<1>3. ASSUME NEW c \in Opened, Endpoint(c) \/ AddListener(c)
      PROVE  ConnectionsInd'
    BY <1>3, StepEndpointGet, StepEndpointSend, StepSetPresent, StepAddListener DEF Endpoint
<1>4. ASSUME NEW c \in Opened, Handle(c)
      PROVE  ConnectionsInd'
    BY <1>4, StepHandleMessage, StepHandleBad, StepHandleUndecodable, StepHandleKeepalive,
       StepKeepaliveCloses, StepClose, StepRemove DEF Handle
<1>5. ASSUME NEW c \in Opened, Disconnect(c) \/ ReceiveEnd(c) \/ ReceiveError(c)
      PROVE  ConnectionsInd'
    BY <1>5, StepDisconnect, StepReceiveEnd, StepReceiveError
<1>6. ASSUME NEW c \in Opened, NEW f \in Requests, Receive(c, f)
      PROVE  ConnectionsInd'
    BY <1>6, StepReceive
<1> QED BY <1>1, <1>2, <1>3, <1>4, <1>5, <1>6 DEF Next, Tasks

LEMMA AlwaysConnections == Spec => []ConnectionsInd
BY InitConnections, NextConnections, PTL DEF Spec

(* The connection map and what an endpoint takes from it are never behind  *)
(* the readers, whichever connections of a device come, go and overlap     *)
(* (register_new_connection, close_connection).                            *)
THEOREM ConnectionsCorrect == Spec => []ConnectionsInv
<1>1. ConnectionsInd => ConnectionsInv
    BY DEF ConnectionsInd
<1> QED BY <1>1, AlwaysConnections, PTL

(* A device that did not connect before its last connection was over is    *)
(* found in the connection map and notified of its messages as long as its *)
(* reader works (create_websocket_endpoint, availability_listener::add).   *)
THEOREM NewestServed == Spec => []Served
<1>1. ConnectionsInd => Served
    BY DEF ConnectionsInd, AloneServed, Served, Working
<1> QED BY <1>1, AlwaysConnections, PTL
-----------------------------------------------------------------------------
(* A finite set of numbers has a greatest element, and Max chooses it. *)
LEMMA MaxOf ==
    ASSUME NEW S \in SUBSET Int, S # {}, IsFiniteSet(S)
    PROVE  Max(S) \in S /\ \A x \in S : x <= Max(S)
<1> DEFINE From(k) == {x \in S : k <= x}
           tops == {From(k) : k \in S}
           R == StrictSubsetOrdering(S)
<1>1. IsWellFoundedOn(R, FiniteSubsetsOf(S))
    BY FS_StrictSubsetOrderingWellFounded
<1>2. tops \subseteq FiniteSubsetsOf(S)
    BY FS_FiniteSubsetsOfFinite
<1>3. PICK T \in tops : \A Q \in tops : <<Q, T>> \notin R
    <2> HIDE DEF tops, R
    <2>1. tops # {}
        BY DEF tops
    <2> QED BY <1>1, <1>2, <2>1, WFMin
<1>4. PICK k \in S : T = From(k)
    OBVIOUS
<1>5. ASSUME NEW x \in S PROVE x <= k
    <2> SUFFICES ASSUME k < x PROVE FALSE
        OBVIOUS
    <2>1. From(x) \subseteq From(k) /\ From(x) # From(k)
        <3>1. ASSUME NEW y \in S, x <= y PROVE k <= y
            <4>1. k \in Int /\ x \in Int /\ y \in Int
                OBVIOUS
            <4> QED BY <3>1, <4>1
        <3>2. k \in From(k) /\ k \notin From(x)
            OBVIOUS
        <3> QED BY <3>1, <3>2
    <2>2. <<From(x), From(k)>> \in R
        BY <2>1 DEF StrictSubsetOrdering
    <2> QED BY <1>3, <1>4, <2>2
<1>6. \E x \in S : \A y \in S : x >= y
    BY <1>5
<1> QED BY <1>6 DEF Max

(* A notify task waits for a reader, a reader for a later reader of its    *)
(* device or for itself; the last of those that wait can go on, or the one *)
(* it waits for can.                                                       *)
LEMMA GoOnFromInd == ConnectionsInd => TasksGoOn
<1> SUFFICES ASSUME ConnectionsInd, Busy, ~CanGo, \A c \in Opened : ~SelfWait(c)
             PROVE  FALSE
    BY DEF TasksGoOn
<1> USE DEF ConnectionsInd, ConnectionsInv
<1>0. Opened \subseteq Conns /\ \A c \in Opened : dev[c] \in Devices
    BY OpenedIs
<1>1. \A c \in Opened : rpc[c] # "handle"
    BY <1>0 DEF CanGo, Places, TypeOK
<1> DEFINE waiting == {c \in Opened : rpc[c] = "target"}
<1>2. CASE waiting = {}
    <2>1. \A c \in Opened : ~Held(c)
        BY <1>1, <1>2 DEF Held
    <2>2. mapLock = None
        <3> SUFFICES ASSUME mapLock # None PROVE FALSE
            OBVIOUS
        <3>1. mapLock \in Devices /\ listeners[mapLock] \in Opened
            BY DEF TypeOK, Places
        <3> QED BY <2>1, <3>1 DEF CanGo
    <2>3. \A d \in Devices : ~(notify[d] > 0)
        BY <2>2 DEF CanGo
    <2>4. PICK c \in Opened : \/ rpc[c] \notin {"read", "done", "panicked"}
                              \/ epc[c] \notin {"done", "gone"} \/ c \in adding
        BY <2>2, <2>3 DEF Busy
    <2>5. c \in Conns /\ dev[c] \in Devices
        BY <1>0
    <2>6. CASE rpc[c] \notin {"read", "done", "panicked"}
        BY <1>1, <1>2, <2>5, <2>6 DEF CanGo, TypeOK
    <2>7. CASE epc[c] \notin {"done", "gone"}
        <3>1. epc[c] \in {"get", "join", "present"}
            BY <2>5, <2>7 DEF TypeOK
        <3>2. joined[c] # None => joined[c] \in Opened
            BY <2>5 DEF TypeOK
        <3>3. epPresence[c][dev[c]] # None => epPresence[c][dev[c]] \in Opened
            BY <2>5 DEF TypeOK
        <3> QED BY <2>1, <3>1, <3>2, <3>3 DEF CanGo, Places
    <2>8. CASE c \in adding
        BY <2>2, <2>8 DEF CanGo
    <2> QED BY <2>4, <2>6, <2>7, <2>8
<1>3. CASE waiting # {}
    <2>1. waiting \in SUBSET Int /\ IsFiniteSet(waiting)
        <3>1. Len(dev) \in Nat /\ Opened = 1..Len(dev)
            BY DEF TypeOK, Opened
        <3>2. IsFiniteSet(Opened) /\ waiting \in SUBSET Opened
            BY <3>1, FS_Interval
        <3> QED BY <3>1, <3>2, FS_Subset
    <2> DEFINE c == Max(waiting)
    <2>2. c \in waiting /\ \A b \in waiting : b <= c
        BY <1>3, <2>1, MaxOf
    <2> HIDE DEF c
    <2>3. c \in Opened /\ c \in Conns /\ rpc[c] = "target"
        BY <1>0, <2>2
    <2>4. target[c] \in Opened /\ target[c] >= c /\ target[c] # c
        BY <2>3 DEF TypeOK, Places, TargetsLater, SelfWait
    <2>5. Held(target[c])
        BY <2>3 DEF CanGo
    <2>6. target[c] \in waiting
        BY <1>1, <2>4, <2>5 DEF Held
    <2> QED BY <2>1, <2>2, <2>4, <2>6
<1> QED BY <1>2, <1>3

(* No standstill: the notify tasks, which hold the listener map of all     *)
(* devices while they wait for a connection, and the readers, which hold   *)
(* their connection while they handle a request, never all wait for each   *)
(* other, but for a reader that waits for itself in handle_keepalive.      *)
THEOREM NoCircularWait == Spec => []TasksGoOn
BY GoOnFromInd, AlwaysConnections, PTL
=============================================================================
