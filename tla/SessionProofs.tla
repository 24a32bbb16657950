--------------------------- MODULE SessionProofs ---------------------------
(***************************************************************************)
(* Theorems about ClientSession, for any accounts, devices, messages and   *)
(* number of waiting payloads, with faults or without.                     *)
(*                                                                         *)
(* Every argument is about `todo': which statements may stand behind which *)
(* (ShapeOf), what the statements still to come will provide (ProvidedIn,  *)
(* Mended), and where the request for the keys of an account is            *)
(* (AnsweredFor).  A step takes the first statement off and puts others in *)
(* its place, so most steps need one lemma on sequences, PushOf, and one   *)
(* for each conjunct of the invariant (ShapePush, ProvidedPush,            *)
(* FlightPush, OneEachPush, ForgetsPush).                                  *)
(***************************************************************************)
EXTENDS ClientSession, SequenceTheorems, FiniteSetTheorems, TLAPS

(***************************************************************************)
(* Statements and sequences of them.                                       *)
(***************************************************************************)
Entries == {None} \cup SUBSET Devices
Simple == {"request", "requested", "newContact", "nick", "fetch", "response", "forget", "flush"}
Texted == {"await", "send"}
Deviced == {"contact", "update", "regular", "decrypt"}

(* The statements a command is made of are of the type of `todo'. *)
LEMMA Makes ==
    ASSUME NEW p \in Peers, NEW m \in Msgs, NEW devs \in SUBSET Devices
    PROVE  /\ \A op \in Simple : Do(op, p) \in Statements
           /\ \A op \in Texted : DoMsg(op, p, m) \in Statements
           /\ AddContact(p, devs) \in Statements
           /\ Update(p, devs) \in Statements
           /\ [op |-> "regular", peer |-> p, devices |-> devs] \in Statements
           /\ [op |-> "decrypt", peer |-> p, devices |-> devs] \in Statements
           /\ Fan(p, m, devs) \in Statements
  BY DEF Statements, Simple, Texted, Do, DoMsg, AddContact, Update, Fan

(* What a statement holds. *)
LEMMA Holds ==
    ASSUME NEW x \in Statements
    PROVE  /\ x.peer \in Peers
           /\ x.op \in Simple \cup Texted \cup Deviced \cup {"store"}
           /\ x.op \in Simple => x = Do(x.op, x.peer)
           /\ x.op \in Texted => x.text \in Msgs
           /\ x.op \in Deviced => x.devices \in SUBSET Devices
           /\ x.op = "store" => x.text \in Msgs /\ x.devices \in SUBSET Devices
  <1>1. CASE x \in [op : Simple, peer : Peers]
    BY <1>1 DEF Simple, Texted, Deviced, Do
  <1>2. CASE x \in [op : Texted, peer : Peers, text : Msgs]
    BY <1>2 DEF Simple, Texted, Deviced
  <1>3. CASE x \in [op : Deviced, peer : Peers, devices : SUBSET Devices]
    BY <1>3 DEF Simple, Texted, Deviced
  <1>4. CASE x \in [op : {"store"}, peer : Peers, text : Msgs, devices : SUBSET Devices]
    BY <1>4 DEF Simple, Texted, Deviced
  <1> QED BY <1>1, <1>2, <1>3, <1>4 DEF Statements, Simple, Texted, Deviced

(* r is s with f in the place of its first element. *)
PushOf(r, s, f) ==
    /\ s[1] = Head(s) /\ 1 \in DOMAIN s
    /\ Len(f) \in Nat /\ DOMAIN f = 1..Len(f) /\ DOMAIN s = 1..Len(s) /\ Len(s) \in Nat
    /\ DOMAIN r = 1..(Len(f) + Len(s) - 1)
    /\ \A i \in DOMAIN f : i \in DOMAIN r /\ r[i] = f[i]
    /\ \A i \in DOMAIN s : i # 1 => Len(f) + i - 1 \in DOMAIN r /\ r[Len(f) + i - 1] = s[i]
    /\ \A j \in DOMAIN r :
         \/ j \in DOMAIN f
         \/ j - Len(f) + 1 \in DOMAIN s /\ j - Len(f) + 1 > 1 /\ r[j] = s[j - Len(f) + 1]

(* What todo' holds when statements f replace the first of s. *)
LEMMA Pushed ==
    ASSUME NEW S, NEW s \in Seq(S), s # <<>>, NEW f \in Seq(S)
    PROVE  f \o Tail(s) \in Seq(S) /\ Head(s) \in S /\ PushOf(f \o Tail(s), s, f)
  <1>1. f \o Tail(s) \in Seq(S) /\ Head(s) \in S
    OBVIOUS
  <1>2. s[1] = Head(s) /\ 1 \in DOMAIN s
    OBVIOUS
  <1>3. /\ Len(f) \in Nat /\ DOMAIN f = 1..Len(f) /\ DOMAIN s = 1..Len(s) /\ Len(s) \in Nat
        /\ DOMAIN (f \o Tail(s)) = 1..(Len(f) + Len(s) - 1)
    OBVIOUS
  <1>4. \A i \in DOMAIN f : i \in DOMAIN (f \o Tail(s)) /\ (f \o Tail(s))[i] = f[i]
    OBVIOUS
  <1>5. \A i \in DOMAIN s : i # 1 =>
           Len(f) + i - 1 \in DOMAIN (f \o Tail(s)) /\ (f \o Tail(s))[Len(f) + i - 1] = s[i]
    OBVIOUS
  <1>6. \A j \in DOMAIN (f \o Tail(s)) :
         \/ j \in DOMAIN f
         \/ j - Len(f) + 1 \in DOMAIN s /\ j - Len(f) + 1 > 1 /\ (f \o Tail(s))[j] = s[j - Len(f) + 1]
    OBVIOUS
  <1> QED BY <1>1, <1>2, <1>3, <1>4, <1>5, <1>6 DEF PushOf

(* r is s followed by t. *)
JoinOf(r, s, t) ==
    /\ Len(r) = Len(s) + Len(t)
    /\ Len(s) \in Nat /\ Len(t) \in Nat
    /\ DOMAIN s = 1..Len(s) /\ DOMAIN t = 1..Len(t)
    /\ \A i \in DOMAIN s : i \in DOMAIN r /\ r[i] = s[i]
    /\ \A i \in DOMAIN t : Len(s) + i \in DOMAIN r /\ r[Len(s) + i] = t[i]
    /\ \A j \in DOMAIN r :
         \/ j \in DOMAIN s /\ r[j] = s[j]
         \/ \E k \in DOMAIN t : j = Len(s) + k /\ r[j] = t[k]

(* What the concatenation of two sequences holds. *)
LEMMA Joined ==
    ASSUME NEW S, NEW s \in Seq(S), NEW t \in Seq(S)
    PROVE  s \o t \in Seq(S) /\ JoinOf(s \o t, s, t)
  <1>1. \A j \in DOMAIN (s \o t) : j \in DOMAIN s \/ j - Len(s) \in DOMAIN t
    OBVIOUS
  <1>2. \A j \in DOMAIN (s \o t) : j = Len(s) + (j - Len(s))
    OBVIOUS
  <1>3. \A i \in DOMAIN t : Len(s) + i \in DOMAIN (s \o t) /\ (s \o t)[Len(s) + i] = t[i]
    OBVIOUS
  <1>4. \A i \in DOMAIN s : i \in DOMAIN (s \o t) /\ (s \o t)[i] = s[i]
    OBVIOUS
  <1>5. s \o t \in Seq(S) /\ Len(s \o t) = Len(s) + Len(t)
          /\ Len(s) \in Nat /\ Len(t) \in Nat /\ DOMAIN s = 1..Len(s) /\ DOMAIN t = 1..Len(t)
    OBVIOUS
  <1>6. ASSUME NEW j \in DOMAIN (s \o t)
        PROVE  \/ j \in DOMAIN s /\ (s \o t)[j] = s[j]
               \/ \E k \in DOMAIN t : j = Len(s) + k /\ (s \o t)[j] = t[k]
    <2>1. CASE j \in DOMAIN s
      BY <1>4, <2>1
    <2>2. CASE j - Len(s) \in DOMAIN t
      BY <1>2, <1>3, <2>2
    <2> QED BY <1>1, <2>1, <2>2
  <1> QED BY <1>3, <1>4, <1>5, <1>6 DEF JoinOf

(* What is left when the first statement is taken off. *)
LEMMA Tailed ==
    ASSUME NEW S, NEW s \in Seq(S), s # <<>>
    PROVE  /\ Tail(s) \in Seq(S)
           /\ s[1] = Head(s) /\ Head(s) \in S /\ 1 \in DOMAIN s
           /\ Len(Tail(s)) = Len(s) - 1
           /\ <<>> \o Tail(s) = Tail(s)
           /\ \A i \in DOMAIN s : i # 1 => i - 1 \in DOMAIN Tail(s) /\ Tail(s)[i - 1] = s[i]
           /\ \A i \in DOMAIN Tail(s) : i + 1 \in DOMAIN s /\ i + 1 > 1 /\ Tail(s)[i] = s[i + 1]
  OBVIOUS

(* Induction on the natural numbers, for a set. *)
LEMMA SetInduction ==
    ASSUME NEW S, 0 \in S, \A n \in Nat : n \in S => n + 1 \in S
    PROVE  Nat \subseteq S
<1> SUFFICES ASSUME NEW m \in Nat, m \notin S PROVE FALSE
    OBVIOUS
<1> DEFINE T == {k \in 0..m : k \in S}
           From(k) == {x \in T : k <= x}
           tops == {From(k) : k \in T}
           R == StrictSubsetOrdering(T)
<1>1. IsFiniteSet(T)
    <2>1. IsFiniteSet(0..m)
        BY FS_Interval
    <2> QED BY <2>1, FS_Subset
<1>2. IsWellFoundedOn(R, FiniteSubsetsOf(T))
    BY FS_StrictSubsetOrderingWellFounded
<1>3. tops \subseteq FiniteSubsetsOf(T)
    BY <1>1, FS_FiniteSubsetsOfFinite
<1>4. 0 \in T
    OBVIOUS
<1>5. PICK top \in tops : \A Q \in tops : <<Q, top>> \notin R
    <2>1. tops # {}
        BY <1>4
    <2> HIDE DEF tops, R
    <2> QED BY <1>2, <1>3, <2>1, WFMin
<1>6. PICK k \in T : top = From(k)
    BY <1>5
<1>7. k \in Nat /\ k # m /\ k + 1 \in T
    OBVIOUS
<1>8. From(k + 1) \subseteq From(k) /\ From(k + 1) # From(k)
    <2>1. k \in From(k) /\ k \notin From(k + 1)
        BY <1>7
    <2>2. ASSUME NEW x \in T, k + 1 <= x PROVE k <= x
        BY <1>7, <2>2
    <2> QED BY <2>1, <2>2
<1>9. <<From(k + 1), From(k)>> \in R
    BY <1>8 DEF StrictSubsetOrdering
<1> QED BY <1>5, <1>6, <1>7, <1>9

(* What may arrive, and what a Read adds to the contacts. *)
Arrivals == {KeyResponse(p) : p \in Peers} \cup {Envelope(p, d) : p \in Peers, d \in Devices}

LEMMA Arrived ==
    ASSUME NEW e \in Arrivals
    PROVE  /\ e.peer \in Peers
           /\ e.kind = "envelope" => e.device \in Devices /\ e = Envelope(e.peer, e.device)
           /\ e.kind # "envelope" => e.kind = "response" /\ e = KeyResponse(e.peer)
  BY DEF Arrivals, KeyResponse, Envelope

(* The contacts added after a "read" are senders of the envelopes read. *)
LEMMA SendersAre ==
    ASSUME NEW s \in Seq(Arrivals)
    PROVE  /\ Senders(s) \in Seq(Statements)
           /\ \A i \in DOMAIN Senders(s) : \E k \in DOMAIN s :
                /\ s[k].kind = "envelope"
                /\ Senders(s)[i] = AddContact(s[k].peer, {s[k].device})
  <1> DEFINE Add(k) == AddContact(s[k].peer, {s[k].device})
             Rule(f, n) ==
               f = [i \in 0..n |-> IF i = 0 THEN <<>>
                                   ELSE IF s[i].kind = "envelope" THEN Append(f[i - 1], Add(i)) ELSE f[i - 1]]
             L == Len(s)
  <1>0. L \in Nat /\ DOMAIN s = 1..L /\ \A i \in 1..L : s[i] \in Arrivals
    OBVIOUS
  <1>1. \E f : Rule(f, L)
    <2> DEFINE S == {n \in Nat : \E f : Rule(f, n)}
    <2>1. 0 \in S
      <3>1. Rule([i \in 0..0 |-> <<>>], 0)
        OBVIOUS
      <3> QED BY <3>1
    <2>2. ASSUME NEW n \in Nat, n \in S PROVE n + 1 \in S
      <3>1. PICK f : Rule(f, n)
        BY <2>2
      <3> HIDE DEF Add
      <3> DEFINE g == [i \in 0..(n + 1) |->
                        IF i <= n THEN f[i]
                        ELSE IF s[i].kind = "envelope" THEN Append(f[i - 1], Add(i)) ELSE f[i - 1]]
      <3>2. ASSUME NEW i \in 0..(n + 1)
            PROVE  g[i] = IF i = 0 THEN <<>>
                          ELSE IF s[i].kind = "envelope" THEN Append(g[i - 1], Add(i)) ELSE g[i - 1]
        <4>1. CASE i = 0
          BY <3>1, <4>1
        <4>2. CASE i # 0
          <5>1. i - 1 \in 0..n /\ g[i - 1] = f[i - 1]
            BY <4>2
          <5>2. CASE i <= n
            <6>1. i \in 0..n
              BY <5>2
            <6>2. f[i] = IF s[i].kind = "envelope" THEN Append(f[i - 1], Add(i)) ELSE f[i - 1]
              BY <3>1, <4>2, <6>1
            <6> QED BY <4>2, <5>1, <5>2, <6>2
          <5>3. CASE ~(i <= n)
            BY <4>2, <5>1, <5>3
          <5> QED BY <5>2, <5>3
        <4> QED BY <4>1, <4>2
      <3>3. Rule(g, n + 1)
        BY <3>2
      <3> HIDE DEF Rule, g
      <3> QED BY <3>3
    <2> HIDE DEF Rule
    <2> QED BY <1>0, <2>1, <2>2, SetInduction
  <1> DEFINE f == CHOOSE f : Rule(f, L)
  <1>2. Rule(f, L)
    <2> HIDE DEF Rule
    <2> QED BY <1>1
  <1>3. Senders(s) = f[L]
    BY DEF Senders
  <1> HIDE DEF f, Add
  <1> DEFINE Good(n) ==
               /\ f[n] \in Seq(Statements)
               /\ \A i \in DOMAIN f[n] : \E k \in 1..L : s[k].kind = "envelope" /\ f[n][i] = Add(k)
             G == {n \in Nat : n <= L => Good(n)}
  <1>4. 0 \in G
    <2>1. f[0] = <<>>
      BY <1>0, <1>2
    <2>2. <<>> \in Seq(Statements) /\ DOMAIN <<>> = {}
      OBVIOUS
    <2> QED BY <2>1, <2>2
  <1>5. ASSUME NEW n \in Nat, n \in G PROVE n + 1 \in G
    <2> SUFFICES ASSUME n + 1 <= L PROVE Good(n + 1)
      OBVIOUS
    <2>1. Good(n) /\ n + 1 \in 1..L
      BY <1>0, <1>5
    <2>2. f[n + 1] = IF s[n + 1].kind = "envelope" THEN Append(f[n], Add(n + 1)) ELSE f[n]
      <3>1. n + 1 \in 0..L /\ n + 1 # 0 /\ (n + 1) - 1 = n
        BY <1>0, <2>1
      <3> QED BY <1>2, <3>1
    <2>3. CASE s[n + 1].kind = "envelope"
      <3>1. Add(n + 1) \in Statements
        <4>1. s[n + 1].peer \in Peers /\ s[n + 1].device \in Devices
          BY <1>0, <2>1, <2>3, Arrived
        <4> QED BY <4>1 DEF AddContact, Statements, Add
      <3>2. f[n + 1] = Append(f[n], Add(n + 1))
        BY <2>2, <2>3
      <3>3. f[n + 1] \in Seq(Statements)
        BY <2>1, <3>1, <3>2
      <3>4. ASSUME NEW i \in DOMAIN f[n + 1]
            PROVE  \E k \in 1..L : s[k].kind = "envelope" /\ f[n + 1][i] = Add(k)
        <4>1. CASE i \in DOMAIN f[n]
          <5>1. f[n + 1][i] = f[n][i]
            BY <2>1, <3>1, <3>2, <4>1
          <5> QED BY <2>1, <4>1, <5>1
        <4>2. CASE i \notin DOMAIN f[n]
          <5>1. f[n + 1][i] = Add(n + 1)
            BY <2>1, <3>1, <3>2, <4>2
          <5> QED BY <2>1, <2>3, <5>1
        <4> QED BY <4>1, <4>2
      <3> QED BY <3>3, <3>4
    <2>4. CASE s[n + 1].kind # "envelope"
      BY <2>1, <2>2, <2>4
    <2> QED BY <2>3, <2>4
  <1> HIDE DEF Good
  <1>6. L \in G
    BY <1>0, <1>4, <1>5, SetInduction
  <1>7. Good(L)
    BY <1>0, <1>6
  <1> QED BY <1>0, <1>3, <1>7 DEF Good, Add

(***************************************************************************)
(* Types.                                                                  *)
(***************************************************************************)
LEMMA SessionTypeInit == Init => TypeOK
  <1> SUFFICES ASSUME Init PROVE TypeOK
    OBVIOUS
  <1>1. contacts \in [Peers -> Entries] /\ saved \in [Peers -> Entries]
    BY Zenon DEF Init, Entries
  <1>2. awaiting \in [Peers -> Seq(Msgs)]
    BY DEF Init
  <1>3. /\ nick = {} /\ session = {} /\ deniable = {} /\ keyRequest = {} /\ typed = {}
        /\ payloads = <<>> /\ inbox = <<>> /\ todo = <<>> /\ sent = <<>> /\ faulty = FALSE
    BY DEF Init
  <1>4. \A S : <<>> \in Seq(S)
    OBVIOUS
  <1>5. /\ nick \subseteq Peers /\ session \subseteq Addresses /\ deniable \subseteq Addresses
        /\ keyRequest \subseteq Peers /\ typed \subseteq Msgs /\ faulty \in BOOLEAN
    BY <1>3
  <1>6. \A S : payloads \in Seq(S) /\ inbox \in Seq(S) /\ todo \in Seq(S) /\ sent \in Seq(S)
    BY <1>3, <1>4
  <1> QED BY <1>1, <1>2, <1>5, <1>6 DEF TypeOK, Entries

(* So are those after a restart, *)
LEMMA RestartTypes ==
    ASSUME TypeOK, Restart
    PROVE  contacts' \in [Peers -> Entries] /\ todo' \in Seq(Statements)
  BY DEF TypeOK, Restart, Entries

(* and those behind the running statement. *)
LEMMA TailTypes ==
    ASSUME TypeOK, ~Idle
    PROVE  Tail(todo) \in Seq(Statements) /\ Head1 \in Statements
  BY Tailed DEF TypeOK, Idle, Head1

(* Every command of the user leaves values of the right types. *)
LEMMA CommandTypes ==
    ASSUME TypeOK, SessionAssumption
    PROVE  /\ \A p \in Peers, m \in Msgs : Denim(p, m) => TypeOK'
           /\ \A p \in Peers : SendNew(p) \/ SendStuck(p) \/ SendFails(p) => TypeOK'
  <1>1. ASSUME NEW p \in Peers, NEW m \in Msgs, Denim(p, m) PROVE TypeOK'
    <2>1. CanEncrypt(p, deniable) => contacts[p] \in SUBSET Devices
      BY DEF TypeOK, CanEncrypt, Known
    <2>2. todo' \in Seq(Statements)
      <3>1. CASE CanEncrypt(p, deniable)
        <4>1. Fan(p, m, contacts[p]) \in Statements
          BY <2>1, <3>1, Makes
        <4> QED BY <1>1, <3>1, <4>1 DEF Denim
      <3>2. CASE ~CanEncrypt(p, deniable)
        <4>1. Do("request", p) \in Statements /\ Do("requested", p) \in Statements
                /\ DoMsg("await", p, m) \in Statements
          BY Makes DEF Simple, Texted
        <4> QED BY <1>1, <3>2, <4>1 DEF Denim
      <3> QED BY <3>1, <3>2
    <2>3. typed' \subseteq Msgs
      BY <1>1 DEF Denim, TypeOK
    <2> QED BY <1>1, <2>2, <2>3 DEF Denim, TypeOK, tables
  <1>2. ASSUME NEW p \in Peers, SendNew(p) PROVE TypeOK'
    <2>1. AddNewContact(p) \in Statements
      BY Makes DEF AddNewContact, Simple, Statements, Do
    <2> QED BY <1>2, <2>1 DEF SendNew, TypeOK, tables, user
  <1>3. ASSUME NEW p \in Peers, SendStuck(p) PROVE TypeOK'
    BY <1>3, RestartTypes DEF SendStuck, TypeOK, tables, user, Entries
  <1>4. ASSUME NEW p \in Peers, SendFails(p) PROVE TypeOK'
    <2>1. Do("fetch", p) \in Statements /\ Update(p, Devices) \in Statements
      BY DEF Statements, Do, Update
    <2>2. faulty' \in BOOLEAN
      BY <1>4 DEF SendFails, Fault
    <2> QED BY <1>4, <2>1, <2>2 DEF SendFails, TypeOK, tables
  <1> QED BY <1>1, <1>2, <1>3, <1>4
(* What receive_message does with what arrives. *)
LEMMA HandleIs ==
    ASSUME NEW e \in Arrivals
    PROVE  /\ Handle(e) \in Statements
           /\ Handle(e).peer = e.peer
           /\ Handle(e).op \in {"decrypt", "response"}
           /\ e.kind = "envelope" => Handle(e).op = "decrypt" /\ Handle(e).devices = {e.device}
           /\ Handle(e).op = "response" => e = KeyResponse(e.peer)
  <1>1. CASE e.kind = "envelope"
    BY <1>1, Arrived, Makes DEF Handle, Statements
  <1>2. CASE e.kind # "envelope"
    BY <1>2, Arrived DEF Handle, Do, Statements
  <1> QED BY <1>1, <1>2

(* The j-th statement after a "read" of n payloads is x. *)
ReadAt(j, x, n, regular, sender) ==
    \/ j \in DOMAIN regular /\ x = regular[j]
    \/ \E k \in 1..n : j = Len(regular) + k /\ x = Handle(inbox[k])
    \/ \E k \in DOMAIN sender : j = Len(regular) + n + k /\ x = sender[k]
    \/ /\ j > Len(regular) + n + Len(sender)
       /\ \E k \in 1..n : inbox[k].kind = "envelope" /\ x = AddContact(inbox[k].peer, {inbox[k].device})

(* What a "read" leaves to be done: the envelopes and answers are handled, *)
(* and then every sender is added to the contacts.                         *)
LEMMA ReadDoes ==
    ASSUME TypeOK, NEW n \in Nat, NEW regular \in Seq(Statements), NEW sender \in Seq(Statements),
           Read(n, regular, sender)
    PROVE  /\ todo' \in Seq(Statements)
           /\ inbox' \in Seq(Arrivals)
           /\ n \in 0..Len(inbox)
           /\ \A j \in DOMAIN inbox' : n + j \in DOMAIN inbox /\ inbox'[j] = inbox[n + j]
           /\ \A j \in DOMAIN todo' : ReadAt(j, todo'[j], n, regular, sender)
           /\ \A j \in DOMAIN regular : j \in DOMAIN todo' /\ todo'[j] = regular[j]
           /\ \A k \in 1..n : Len(regular) + k \in DOMAIN todo' /\ todo'[Len(regular) + k] = Handle(inbox[k])
  <1> DEFINE done == SubSeq(inbox, 1, n)
             B == [i \in 1..n |-> Handle(done[i])]
             D == Senders(done)
  <1>1. inbox \in Seq(Arrivals) /\ n <= Len(inbox) /\ Len(inbox) \in Nat
    BY DEF TypeOK, Read, Arrivals
  <1>2. done \in Seq(Arrivals) /\ Len(done) = n /\ DOMAIN done = 1..n
          /\ \A k \in 1..n : done[k] = inbox[k] /\ k \in DOMAIN inbox
    BY <1>1
  <1>3. inbox' \in Seq(Arrivals) /\ \A j \in DOMAIN inbox' : n + j \in DOMAIN inbox /\ inbox'[j] = inbox[n + j]
    <2>1. inbox' = SubSeq(inbox, n + 1, Len(inbox))
      BY DEF Read
    <2> QED BY <1>1, <2>1
  <1> HIDE DEF done
  <1>4. B \in Seq(Statements) /\ Len(B) = n /\ DOMAIN B = 1..n /\ \A k \in 1..n : B[k] = Handle(inbox[k])
    <2>1. \A k \in 1..n : Handle(done[k]) \in Statements
      BY <1>2, HandleIs
    <2> QED BY <1>2, <2>1
  <1>5. D \in Seq(Statements)
    BY <1>2, SendersAre
  <1>6. \A i \in DOMAIN D : \E k \in 1..n :
           inbox[k].kind = "envelope" /\ D[i] = AddContact(inbox[k].peer, {inbox[k].device})
    <2>1. \A i \in DOMAIN Senders(done) : \E k \in DOMAIN done :
            /\ done[k].kind = "envelope"
            /\ Senders(done)[i] = AddContact(done[k].peer, {done[k].device})
      BY <1>2, SendersAre
    <2> QED BY <1>2, <2>1
  <1>7. todo' = regular \o B \o sender \o D
    BY DEF Read, done
  <1> HIDE DEF B, D
  <1> DEFINE F == regular \o B
             H == F \o sender
  <1>8. F \in Seq(Statements) /\ Len(F) = Len(regular) + n
          /\ (\A j \in DOMAIN regular : j \in DOMAIN F /\ F[j] = regular[j])
          /\ (\A k \in 1..n : Len(regular) + k \in DOMAIN F /\ F[Len(regular) + k] = B[k])
          /\ \A j \in DOMAIN F : \/ j \in DOMAIN regular /\ F[j] = regular[j]
                                 \/ \E k \in 1..n : j = Len(regular) + k /\ F[j] = B[k]
    <2>1. F \in Seq(Statements) /\ JoinOf(F, regular, B)
      BY <1>4, Joined
    <2> HIDE DEF F
    <2> QED BY <1>4, <2>1 DEF JoinOf
  <1> HIDE DEF F
  <1>9. H \in Seq(Statements) /\ Len(H) = Len(regular) + n + Len(sender)
          /\ (\A j \in DOMAIN F : j \in DOMAIN H /\ H[j] = F[j])
          /\ \A j \in DOMAIN H : \/ j \in DOMAIN F /\ H[j] = F[j]
                                 \/ \E k \in DOMAIN sender : j = Len(F) + k /\ H[j] = sender[k]
    <2>1. H \in Seq(Statements) /\ JoinOf(H, F, sender)
      BY <1>8, Joined
    <2> HIDE DEF H
    <2> QED BY <1>8, <2>1 DEF JoinOf
  <1> HIDE DEF H
  <1> DEFINE R == H \o D
  <1>10. R \in Seq(Statements)
           /\ (\A j \in DOMAIN H : j \in DOMAIN R /\ R[j] = H[j])
           /\ \A j \in DOMAIN R : \/ j \in DOMAIN H /\ R[j] = H[j]
                                  \/ j > Len(H) /\ \E i \in DOMAIN D : R[j] = D[i]
    <2>1. \A k \in DOMAIN D : Len(H) + k > Len(H)
      BY <1>5, <1>9
    <2>2. R \in Seq(Statements) /\ JoinOf(R, H, D)
      BY <1>5, <1>9, Joined
    <2> HIDE DEF R
    <2> QED BY <2>1, <2>2 DEF JoinOf
  <1>11. todo' = R
    BY <1>7 DEF H, F
  <1> HIDE DEF R
  <1>12. ASSUME NEW j \in DOMAIN todo'
         PROVE  ReadAt(j, todo'[j], n, regular, sender)
    <2>1. CASE j \in DOMAIN H
      <3>1. todo'[j] = H[j]
        BY <1>10, <1>11, <2>1
      <3>2. CASE j \in DOMAIN F
        BY <1>4, <1>8, <1>9, <2>1, <3>1, <3>2 DEF ReadAt
      <3>3. CASE \E k \in DOMAIN sender : j = Len(F) + k /\ H[j] = sender[k]
        BY <1>8, <3>1, <3>3 DEF ReadAt
      <3> QED BY <1>9, <2>1, <3>2, <3>3
    <2>2. CASE j \notin DOMAIN H
      <3>1. j \in DOMAIN R
        BY <1>11
      <3>2. j > Len(H)
        BY <1>10, <2>2, <3>1
      <3>3. PICK i \in DOMAIN D : R[j] = D[i]
        BY <1>10, <2>2, <3>1
      <3>4. PICK k \in 1..n : inbox[k].kind = "envelope" /\ D[i] = AddContact(inbox[k].peer, {inbox[k].device})
        BY <1>6, <3>3
      <3>5. todo'[j] = AddContact(inbox[k].peer, {inbox[k].device})
        BY <1>11, <3>3, <3>4
      <3> QED BY <1>9, <3>2, <3>4, <3>5 DEF ReadAt
    <2> QED BY <2>1, <2>2
  <1>13. \A j \in DOMAIN F : j \in DOMAIN todo' /\ todo'[j] = F[j]
    BY <1>9, <1>10, <1>11
  <1>14. n \in 0..Len(inbox)
    BY <1>1
  <1>15. \A j \in DOMAIN regular : j \in DOMAIN todo' /\ todo'[j] = regular[j]
    BY <1>8, <1>13
  <1>16. ASSUME NEW k \in 1..n
         PROVE  Len(regular) + k \in DOMAIN todo' /\ todo'[Len(regular) + k] = Handle(inbox[k])
    <2>1. PICK a : a = Len(regular) + k
      OBVIOUS
    <2>2. a \in DOMAIN F /\ F[a] = Handle(inbox[k])
      BY <1>4, <1>8, <2>1
    <2> QED BY <1>13, <2>1, <2>2
  <1>17. todo' \in Seq(Statements)
    BY <1>10, <1>11
  <1> QED BY <1>3, <1>12, <1>14, <1>15, <1>16, <1>17

(* "read" leaves values of the right types, *)
LEMMA ReadTypes ==
    ASSUME TypeOK
    PROVE  /\ \A p \in Peers, d \in Devices, n \in Nat : Receive(p, d, n) => TypeOK'
           /\ \A n \in Nat : ReceiveOther(n) => TypeOK'
  <1>1. ASSUME NEW n \in Nat, NEW regular \in Seq(Statements), NEW sender \in Seq(Statements),
               Read(n, regular, sender)
        PROVE  TypeOK'
    <2>1. todo' \in Seq(Statements) /\ inbox' \in Seq(Arrivals)
      BY <1>1, ReadDoes
    <2>2. UNCHANGED <<contacts, typed, faulty>> /\ UNCHANGED tables
      BY <1>1 DEF Read
    <2> QED BY <2>1, <2>2 DEF TypeOK, tables, Arrivals
  <1>2. ASSUME NEW p \in Peers, NEW d \in Devices
        PROVE  /\ <<[op |-> "regular", peer |-> p, devices |-> {d}]>> \in Seq(Statements)
               /\ <<AddContact(p, {d})>> \in Seq(Statements)
    BY DEF Statements, AddContact
  <1>3. <<>> \in Seq(Statements)
    OBVIOUS
  <1> QED BY <1>1, <1>2, <1>3 DEF Receive, ReceiveOther

(* Every statement leaves values of the right types. *)
LEMMA StatementTypes ==
    ASSUME TypeOK, SessionAssumption, Statement, Next1("update") => Known(Head1.peer)
    PROVE  TypeOK'
  <1>0. ASSUME ~Idle PROVE Tail(todo) \in Seq(Statements) /\ Head1 \in Statements /\ Head1.peer \in Peers
    BY <1>0, TailTypes, Holds
  <1>1. CASE StoreKeyRequest
    <2>1. payloads' \in Seq({KeyRequest(p) : p \in Peers} \cup Sent)
      <3>1. KeyRequest(Head1.peer) \in {KeyRequest(p) : p \in Peers} \cup Sent
        BY <1>0, <1>1 DEF StoreKeyRequest, Next1
      <3> HIDE DEF KeyRequest, Sent
      <3> QED BY <1>1, <3>1 DEF StoreKeyRequest, TypeOK, Stored
    <2> QED BY <1>0, <1>1, <2>1 DEF StoreKeyRequest, Next1, TypeOK, user
  <1>2. CASE StoreRequestSent
    BY <1>0, <1>2 DEF StoreRequestSent, Next1, TypeOK, user
  <1>3. CASE StoreAwaiting
    <2>1. Head1.text \in Msgs
      BY <1>0, <1>3, Holds DEF StoreAwaiting, Next1, Texted
    <2>2. awaiting' \in [Peers -> Seq(Msgs)]
      <3>1. Append(awaiting[Head1.peer], Head1.text) \in Seq(Msgs)
        BY <1>0, <1>3, <2>1 DEF StoreAwaiting, Next1, TypeOK
      <3> QED BY <1>0, <1>3, <3>1 DEF StoreAwaiting, Next1, TypeOK
    <2> QED BY <1>0, <1>3, <2>2 DEF StoreAwaiting, Next1, TypeOK, user
  <1>4. CASE StorePayload
    <2>1. Head1.text \in Msgs /\ Head1.devices \in SUBSET Devices
      BY <1>0, <1>4, Holds DEF StorePayload, Next1
    <2>2. CASE Head1.devices = {} /\ todo' = Tail(todo) /\ UNCHANGED <<payloads, sent>>
      BY <1>0, <1>4, <2>2 DEF StorePayload, Next1, TypeOK, user
    <2>3. ASSUME NEW d \in Head1.devices,
                 payloads' = Stored(Message(Head1.peer, d, Head1.text)),
                 sent' = Append(sent, Message(Head1.peer, d, Head1.text)),
                 todo' = <<Fan(Head1.peer, Head1.text, Head1.devices \ {d})>> \o Tail(todo)
          PROVE  TypeOK'
      <3>0. Tail(todo) \in Seq(Statements) /\ Head1.peer \in Peers
        BY <1>0, <1>4 DEF StorePayload, Next1
      <3>1. Message(Head1.peer, d, Head1.text) \in Sent
        BY <2>1, <3>0 DEF Sent
      <3>2. Fan(Head1.peer, Head1.text, Head1.devices \ {d}) \in Statements
        BY <2>1, <3>0, Makes
      <3> HIDE DEF Message, Sent, Fan
      <3>3. payloads' \in Seq({KeyRequest(p) : p \in Peers} \cup Sent) /\ sent' \in Seq(Sent)
        BY <2>3, <3>1 DEF TypeOK, Stored
      <3>4. todo' \in Seq(Statements)
        BY <2>3, <3>0, <3>2
      <3> QED BY <1>4, <3>3, <3>4 DEF StorePayload, TypeOK, user
    <2> QED BY <1>4, <2>2, <2>3 DEF StorePayload
  <1>5. CASE StoreContact
    <2> DEFINE p == Head1.peer
    <2>1. ~Idle /\ p \in Peers
      BY <1>0, <1>5 DEF StoreContact, Next1
    <2>2. Head1.op = "contact" => Head1.devices \in SUBSET Devices
      BY <1>0, <2>1, Holds DEF Deviced
    <2>3. CASE Known(p)
      <3>1. todo' = Tail(todo) /\ UNCHANGED <<contacts, saved>>
        BY <1>5, <2>3 DEF StoreContact
      <3> QED BY <1>0, <1>5, <2>1, <3>1 DEF StoreContact, TypeOK, user
    <2>4. CASE ~Known(p)
      <3>1. todo' \in Seq(Statements)
        <4>1. Do("nick", p) \in Statements /\ Do("fetch", p) \in Statements
                /\ Update(p, Devices) \in Statements
                /\ (Head1.op = "contact" => Update(p, Head1.devices) \in Statements)
          BY <2>1, <2>2 DEF Statements, Do, Update
        <4> HIDE DEF p
        <4>2. CASE Head1.op = "contact"
          <5>1. todo' = <<Do("nick", p), Update(p, Head1.devices)>> \o Tail(todo)
            BY <1>5, <2>4, <4>2 DEF StoreContact, p
          <5> QED BY <1>0, <2>1, <4>1, <4>2, <5>1
        <4>3. CASE Head1.op # "contact"
          <5>1. todo' = <<Do("nick", p), Do("fetch", p), Update(p, Devices)>> \o Tail(todo)
            BY <1>5, <2>4, <4>3 DEF StoreContact, p
          <5> QED BY <1>0, <2>1, <4>1, <4>3, <5>1
        <4> QED BY <4>2, <4>3
      <3>2. contacts' \in [Peers -> Entries] /\ saved' \in [Peers -> Entries]
        <4>1. contacts' = [contacts EXCEPT ![p] = {}] /\ saved' = [saved EXCEPT ![p] = {}]
          BY <1>5, <2>4 DEF StoreContact, WithEntry, SavedAs
        <4>2. {} \in Entries /\ contacts \in [Peers -> Entries] /\ saved \in [Peers -> Entries]
          BY DEF TypeOK, Entries
        <4> HIDE DEF Entries
        <4> QED BY <2>1, <4>1, <4>2
      <3> QED BY <1>5, <3>1, <3>2 DEF StoreContact, TypeOK, user, Entries
    <2> QED BY <2>3, <2>4
  <1>6. CASE InsertNickname
    <2>1. CASE Restart /\ UNCHANGED nick
      BY <1>6, <2>1, RestartTypes DEF InsertNickname, TypeOK, user, Entries
    <2>2. CASE ~Resolves(Head1.peer)
      <3>1. ~Idle /\ nick' = nick \cup {Head1.peer} /\ todo' = Tail(todo) /\ UNCHANGED contacts
        BY <1>6, <2>2 DEF InsertNickname, Next1
      <3> QED BY <1>0, <1>6, <3>1 DEF InsertNickname, TypeOK, user
    <2> QED BY <1>6, <2>1, <2>2 DEF InsertNickname
  <1>7. CASE FetchBundles
    <2>1. CASE session' = session \cup Sessions(Head1.peer, Devices) /\ todo' = Tail(todo) /\ UNCHANGED <<contacts, faulty>>
      <3>1. session' \subseteq Addresses
        BY <1>0, <1>7, <2>1 DEF FetchBundles, Next1, TypeOK, Sessions, Addresses
      <3> QED BY <1>0, <1>7, <2>1, <3>1 DEF FetchBundles, Next1, TypeOK
    <2>2. CASE Fault /\ Restart /\ UNCHANGED session
      BY <1>7, <2>2, RestartTypes DEF FetchBundles, Fault, TypeOK, Entries
    <2> QED BY <1>7, <2>1, <2>2 DEF FetchBundles
  <1>8. CASE UpdateContact
    <2>1. Head1.devices \in SUBSET Devices /\ Head1.peer \in Peers /\ ~Idle
      BY <1>0, <1>8, Holds DEF UpdateContact, Next1, Deviced
    <2>2. contacts' \in [Peers -> Entries]
      <3>1. contacts[Head1.peer] \cup Head1.devices \in Entries
        BY <1>8, <2>1 DEF UpdateContact, TypeOK, Known, Entries
      <3>2. contacts' = [contacts EXCEPT ![Head1.peer] = @ \cup Head1.devices]
        BY <1>8 DEF UpdateContact, WithDevices
      <3>3. contacts \in [Peers -> Entries]
        BY DEF TypeOK, Entries
      <3> HIDE DEF Entries
      <3> QED BY <2>1, <3>1, <3>2, <3>3
    <2> QED BY <1>0, <1>8, <2>1, <2>2 DEF UpdateContact, TypeOK, user, SavedAs, Entries
  <1>9. CASE Decrypt
    <2>1. ~Idle /\ Head1.devices \in SUBSET Devices
      BY <1>0, <1>9, Holds DEF Decrypt, Next1, Deviced
    <2>2. Sessions(Head1.peer, Head1.devices) \subseteq Addresses
      BY <1>0, <2>1 DEF Sessions, Addresses
    <2> QED BY <1>0, <1>9, <2>1, <2>2 DEF Decrypt, TypeOK, user
  <1>10. CASE HandleKeyResponse
    <2> DEFINE p == Head1.peer
    <2>1. ~Idle /\ p \in Peers
      BY <1>0, <1>10 DEF HandleKeyResponse, Next1
    <2>2. deniable' \subseteq Addresses
      BY <1>10, <2>1 DEF HandleKeyResponse, TypeOK, Sessions, Addresses, SessionAssumption
    <2>3. contacts' \in [Peers -> Entries] /\ todo' \in Seq(Statements)
      <3>1. CASE Requested(p)
        <4>1. {AddContact(p, {Primary}), Do("forget", p), Do("flush", p)} \subseteq Statements
          BY <2>1 DEF Statements, AddContact, Do, SessionAssumption
        <4> HIDE DEF p
        <4>2. todo' = <<AddContact(p, {Primary}), Do("forget", p), Do("flush", p)>> \o Tail(todo)
          BY <1>10, <3>1 DEF HandleKeyResponse, p
        <4> QED BY <1>0, <1>10, <2>1, <3>1, <4>1, <4>2 DEF HandleKeyResponse, TypeOK, Entries, p
      <3>2. CASE ~Requested(p)
        BY <1>10, <3>2, RestartTypes DEF HandleKeyResponse
      <3> QED BY <3>1, <3>2
    <2>4. UNCHANGED <<saved, nick, session, keyRequest, awaiting, payloads, sent>> /\ UNCHANGED user
      BY <1>10 DEF HandleKeyResponse
    <2> QED BY <2>2, <2>3, <2>4 DEF TypeOK, user, Entries
  <1>11. CASE RemoveKeyRequest
    BY <1>0, <1>11 DEF RemoveKeyRequest, Next1, TypeOK, user
  <1>12. CASE ReadAwaiting
    <2> DEFINE p == Head1.peer
               sends == [i \in DOMAIN awaiting[p] |-> DoMsg("send", p, awaiting[p][i])]
    <2>1. ~Idle /\ p \in Peers
      BY <1>0, <1>12 DEF ReadAwaiting, Next1
    <2>2. sends \in Seq(Statements)
      <3>1. awaiting[p] \in Seq(Msgs)
        BY <2>1 DEF TypeOK
      <3>2. \A i \in DOMAIN awaiting[p] : DoMsg("send", p, awaiting[p][i]) \in Statements
        BY <2>1, <3>1 DEF DoMsg, Statements
      <3> HIDE DEF DoMsg, p
      <3> QED BY <3>1, <3>2
    <2>3. todo' = sends \o Tail(todo)
      BY <1>12 DEF ReadAwaiting
    <2> HIDE DEF sends
    <2>4. todo' \in Seq(Statements)
      BY <1>0, <2>1, <2>2, <2>3
    <2> QED BY <1>12, <2>4 DEF ReadAwaiting, TypeOK, user, tables
  <1>13. CASE SendAwaiting
    <2> DEFINE p == Head1.peer
    <2>1. ~Idle /\ p \in Peers /\ Head1.text \in Msgs
      BY <1>0, <1>13, Holds DEF SendAwaiting, Next1, Texted
    <2>2. contacts' \in [Peers -> Entries] /\ todo' \in Seq(Statements)
      <3>1. CASE CanEncrypt(p, deniable)
        <4>1. contacts[p] \in SUBSET Devices
          BY <2>1, <3>1 DEF TypeOK, CanEncrypt, Known
        <4>2. Fan(p, Head1.text, contacts[p]) \in Statements
          BY <2>1, <4>1, Makes
        <4>3. todo' = <<Fan(p, Head1.text, contacts[p])>> \o Tail(todo) /\ UNCHANGED contacts
          BY <1>13, <3>1 DEF SendAwaiting
        <4> HIDE DEF Fan
        <4>4. todo' \in Seq(Statements)
          BY <1>0, <2>1, <4>2, <4>3
        <4> QED BY <4>3, <4>4 DEF TypeOK, Entries
      <3>2. CASE ~CanEncrypt(p, deniable)
        BY <1>13, <3>2, RestartTypes DEF SendAwaiting
      <3> QED BY <3>1, <3>2
    <2> QED BY <1>13, <2>2 DEF SendAwaiting, TypeOK, user, tables, Entries
  <1> QED
    BY <1>1, <1>2, <1>3, <1>4, <1>5, <1>6, <1>7, <1>8, <1>9, <1>10, <1>11, <1>12, <1>13 DEF Statement

(* and so do the transport, the peers and faults. *)
LEMMA OtherTypes ==
    ASSUME TypeOK
    PROVE  /\ Stop => TypeOK'
           /\ Transport => TypeOK'
           /\ \A p \in Peers, d \in Devices : PeerWrites(p, d) => TypeOK'
           /\ Lose => TypeOK'
  <1>1. ASSUME Stop PROVE TypeOK'
    <2>1. faulty' \in BOOLEAN
      <3>1. UNCHANGED faulty \/ Fault
        BY <1>1 DEF Stop
      <3>2. CASE UNCHANGED faulty
        BY <3>2 DEF TypeOK
      <3>3. CASE Fault
        BY <3>3 DEF Fault
      <3> QED BY <3>1, <3>2, <3>3
    <2> QED BY <1>1, <2>1, RestartTypes DEF Stop, TypeOK, tables, Entries
  <1>2. ASSUME Transport PROVE TypeOK'
    <2>1. inbox \in Seq(Arrivals) /\ payloads \in Seq({KeyRequest(p) : p \in Peers} \cup Sent) /\ payloads # <<>>
      BY <1>2 DEF TypeOK, Arrivals, Transport
    <2>2. Head(payloads) \in {KeyRequest(p) : p \in Peers} \cup Sent
      BY <2>1, Tailed
    <2>3. payloads' \in Seq({KeyRequest(p) : p \in Peers} \cup Sent)
      BY <1>2, <2>1, Tailed DEF Transport
    <2>4. Head(payloads).kind = "request" => Head(payloads).peer \in Peers
      BY <2>2 DEF KeyRequest, Sent, Message
    <2>5. Head(payloads).kind = "request" => KeyResponse(Head(payloads).peer) \in Arrivals
      BY <2>4 DEF Arrivals
    <2> HIDE DEF Arrivals
    <2>6. inbox' \in Seq(Arrivals)
      BY <1>2, <2>1, <2>5 DEF Transport
    <2> QED BY <1>2, <2>3, <2>6 DEF Transport, TypeOK, Arrivals
  <1>3. ASSUME NEW p \in Peers, NEW d \in Devices, PeerWrites(p, d) PROVE TypeOK'
    <2>1. Envelope(p, d) \in Arrivals /\ inbox \in Seq(Arrivals)
      BY DEF Arrivals, TypeOK
    <2>2. inbox' \in Seq(Arrivals)
      BY <1>3, <2>1 DEF PeerWrites
    <2> QED BY <1>3, <2>2 DEF PeerWrites, TypeOK, Arrivals, tables
  <1>4. ASSUME Lose PROVE TypeOK'
    <2>1. inbox' \in Seq(Arrivals)
      BY <1>4, Tailed DEF Lose, TypeOK, Arrivals
    <2> QED BY <1>4, <2>1 DEF Lose, Fault, TypeOK, Arrivals, tables
  <1> QED BY <1>1, <1>2, <1>3, <1>4

(* Every step does, if a contact is known when its devices are added. *)
LEMMA SessionTypeNext ==
    ASSUME SessionAssumption, TypeOK, [Next]_vars, Next1("update") => Known(Head1.peer)
    PROVE  TypeOK'
  <1>1. CASE UNCHANGED vars
    BY <1>1 DEF vars, TypeOK
  <1>2. 0..MaxInbox \subseteq Nat /\ 1..MaxInbox \subseteq Nat
    BY DEF SessionAssumption
  <1> QED BY <1>1, <1>2, CommandTypes, ReadTypes, StatementTypes, OtherTypes DEF Next

(***************************************************************************)
(* The order of the statements of a command.                               *)
(***************************************************************************)
Follow == {"regular", "decrypt", "response"}
Later == Follow \cup {"contact"}

(* Statement y may wait behind statement x. *)
Pair(x, y) ==
    /\ y.op \notin {"nick", "request", "store"}
    /\ x.op \in Follow \cup {"flush"} => y.op \in Later
    /\ x.op \in {"send", "store"} => y.op \in Later \cup {"send"}
    /\ x.op \in {"request", "requested", "await"} => y.op \in {"requested", "await"}
    /\ y.op \in {"requested", "await"} => x.op \in {"request", "requested"}
    /\ y.op = "update" => x.op \in {"nick", "fetch"}
    /\ y.op = "requested" => x = Do("request", y.peer)

Ordered(t) == \A i, j \in DOMAIN t : i < j => Pair(t[i], t[j])

(* The request for keys is recorded next, the messages that wait are read  *)
(* after the request is forgotten.                                         *)
Adjacent(t) ==
    \A i \in DOMAIN t :
      /\ t[i].op = "forget" => i + 1 \in DOMAIN t /\ t[i + 1] = Do("flush", t[i].peer)
      /\ t[i].op = "request" => i + 1 \in DOMAIN t /\ t[i + 1] = Do("requested", t[i].peer)

ShapeOf(t) == Ordered(t) /\ Adjacent(t)

(* The statement x leaves a session with device d of p. *)
Comes(x, p, d) ==
    /\ x.peer = p
    /\ x.op = "fetch" \/ (x.op \in {"regular", "decrypt"} /\ d \in x.devices)

(* Every device to be added to a contact has one of the sessions A then. *)
ProvidedIn(t, A) ==
    \A j \in DOMAIN t : t[j].op \in {"contact", "update"} =>
      /\ t[j].devices # {}
      /\ \A d \in t[j].devices :
           <<t[j].peer, d>> \in A \/ \E i \in DOMAIN t : i < j /\ Comes(t[i], t[j].peer, d)

HasUpdate(t, p) == \E i \in DOMAIN t : t[i].op = "update" /\ t[i].peer = p

(* The contacts in memory and in the tables agree, between any two         *)
(* statements, and what is still missing will be added.                    *)
ContactsOK ==
    /\ contacts = saved
    /\ \A p \in nick : Known(p)
    /\ \A i \in DOMAIN todo :
         /\ todo[i].op = "nick" => todo[i].peer \notin nick
         /\ todo[i].op \in {"nick", "update"} => Known(todo[i].peer)
    /\ ProvidedIn(todo, session \cup deniable)

Mended ==
    ~faulty => \A p \in Peers : Known(p) =>
      /\ p \in nick \/ (~Idle /\ Head1 = Do("nick", p))
      /\ (\E d \in contacts[p] : <<p, d>> \in session \cup deniable) \/ HasUpdate(todo, p)

ContactInv == TypeOK /\ ShapeOf(todo) /\ ContactsOK /\ Mended

(* Statements f in place of the first keep the order, if they may stand    *)
(* before whatever it may stand before.                                    *)
LEMMA ShapePush ==
    ASSUME NEW s \in Seq(Statements), s # <<>>, NEW f \in Seq(Statements),
           ShapeOf(s), ShapeOf(f),
           \A i \in DOMAIN f, y \in Statements : Pair(Head(s), y) => Pair(f[i], y)
    PROVE  ShapeOf(f \o Tail(s))
  <1> DEFINE r == f \o Tail(s)
  <1>1. \A i \in DOMAIN s : s[i] \in Statements
    OBVIOUS
  <1>9. r \in Seq(Statements) /\ PushOf(r, s, f)
    BY Pushed
  <1> HIDE DEF r
  <1>0. /\ r \in Seq(Statements) /\ s[1] = Head(s) /\ 1 \in DOMAIN s
        /\ Len(f) \in Nat /\ DOMAIN f = 1..Len(f) /\ DOMAIN s = 1..Len(s) /\ Len(s) \in Nat
        /\ DOMAIN r = 1..(Len(f) + Len(s) - 1)
        /\ \A i \in DOMAIN f : i \in DOMAIN r /\ r[i] = f[i]
        /\ \A i \in DOMAIN s : i # 1 => Len(f) + i - 1 \in DOMAIN r /\ r[Len(f) + i - 1] = s[i]
        /\ \A j \in DOMAIN r :
             \/ j \in DOMAIN f
             \/ j - Len(f) + 1 \in DOMAIN s /\ j - Len(f) + 1 > 1 /\ r[j] = s[j - Len(f) + 1]
    BY <1>9 DEF PushOf
  <1>2. ASSUME NEW i \in DOMAIN r, NEW j \in DOMAIN r, i < j PROVE Pair(r[i], r[j])
    <2>1. CASE j \in DOMAIN f
      <3>1. i \in DOMAIN f
        BY <1>0, <1>2, <2>1
      <3> QED BY <1>0, <1>2, <2>1, <3>1 DEF ShapeOf, Ordered
    <2>2. CASE j \notin DOMAIN f /\ i \in DOMAIN f
      <3>1. PICK k \in DOMAIN s : k > 1 /\ r[j] = s[k]
        BY <1>0, <2>2
      <3>2. Pair(Head(s), s[k])
        BY <1>0, <3>1 DEF ShapeOf, Ordered
      <3> QED BY <1>0, <1>1, <2>2, <3>1, <3>2
    <2>3. CASE j \notin DOMAIN f /\ i \notin DOMAIN f
      <3>1. /\ j - Len(f) + 1 \in DOMAIN s /\ r[j] = s[j - Len(f) + 1]
            /\ i - Len(f) + 1 \in DOMAIN s /\ r[i] = s[i - Len(f) + 1]
        BY <1>0, <2>3
      <3>2. i - Len(f) + 1 < j - Len(f) + 1
        BY <1>0, <1>2
      <3> QED BY <3>1, <3>2 DEF ShapeOf, Ordered
    <2> QED BY <2>1, <2>2, <2>3
  <1>3. ASSUME NEW i \in DOMAIN r
        PROVE  /\ r[i].op = "forget" => i + 1 \in DOMAIN r /\ r[i + 1] = Do("flush", r[i].peer)
               /\ r[i].op = "request" => i + 1 \in DOMAIN r /\ r[i + 1] = Do("requested", r[i].peer)
    <2>1. CASE i \in DOMAIN f
      BY <1>0, <2>1 DEF ShapeOf, Adjacent
    <2>2. CASE i \notin DOMAIN f
      <3> DEFINE k == i - Len(f) + 1
      <3>1. k \in DOMAIN s /\ k > 1 /\ r[i] = s[k] /\ k \in Nat /\ i \in Nat
        BY <1>0, <2>2
      <3>2. k + 1 \in DOMAIN s => i + 1 \in DOMAIN r /\ r[i + 1] = s[k + 1]
        <4>1. Len(f) + (k + 1) - 1 = i + 1 /\ k + 1 # 1
          BY <1>0, <3>1
        <4> QED BY <1>0, <4>1
      <3> HIDE DEF k
      <3> QED BY <3>1, <3>2 DEF ShapeOf, Adjacent
    <2> QED BY <2>1, <2>2
  <1>4. ShapeOf(r)
    BY <1>2, <1>3 DEF ShapeOf, Ordered, Adjacent
  <1> QED BY <1>4 DEF r

(* The sessions the first statement was to bring are there, or f brings    *)
(* them.                                                                   *)
LEMMA ProvidedPush ==
    ASSUME NEW s \in Seq(Statements), s # <<>>, NEW f \in Seq(Statements), NEW A, NEW B,
           A \subseteq B, ProvidedIn(s, A), ProvidedIn(f, B),
           \A p \in Peers, d \in Devices : Comes(Head(s), p, d) =>
              <<p, d>> \in B \/ \E i \in DOMAIN f : Comes(f[i], p, d)
    PROVE  ProvidedIn(f \o Tail(s), B)
  <1> DEFINE r == f \o Tail(s)
  <1>1. \A i \in DOMAIN s : s[i] \in Statements
    OBVIOUS
  <1>9. r \in Seq(Statements) /\ PushOf(r, s, f)
    BY Pushed
  <1> HIDE DEF r
  <1>0. /\ r \in Seq(Statements) /\ s[1] = Head(s) /\ 1 \in DOMAIN s
        /\ Len(f) \in Nat /\ DOMAIN f = 1..Len(f) /\ DOMAIN s = 1..Len(s) /\ Len(s) \in Nat
        /\ DOMAIN r = 1..(Len(f) + Len(s) - 1)
        /\ \A i \in DOMAIN f : i \in DOMAIN r /\ r[i] = f[i]
        /\ \A i \in DOMAIN s : i # 1 => Len(f) + i - 1 \in DOMAIN r /\ r[Len(f) + i - 1] = s[i]
        /\ \A j \in DOMAIN r :
             \/ j \in DOMAIN f
             \/ j - Len(f) + 1 \in DOMAIN s /\ j - Len(f) + 1 > 1 /\ r[j] = s[j - Len(f) + 1]
    BY <1>9 DEF PushOf
  <1>2. ASSUME NEW j \in DOMAIN r, r[j].op \in {"contact", "update"}
        PROVE  /\ r[j].devices # {}
               /\ \A d \in r[j].devices :
                    <<r[j].peer, d>> \in B \/ \E i \in DOMAIN r : i < j /\ Comes(r[i], r[j].peer, d)
    <2>1. CASE j \in DOMAIN f
      BY <1>0, <1>2, <2>1 DEF ProvidedIn
    <2>2. CASE j \notin DOMAIN f
      <3> DEFINE k == j - Len(f) + 1
      <3>1. k \in DOMAIN s /\ k > 1 /\ r[j] = s[k] /\ k \in Nat /\ j \in Nat /\ j = Len(f) + k - 1
        BY <1>0, <2>2
      <3> HIDE DEF k
      <3>2. s[k].devices # {} /\ s[k].devices \in SUBSET Devices /\ s[k].peer \in Peers
        BY <1>1, <1>2, <3>1, Holds DEF ProvidedIn, Deviced
      <3>3. ASSUME NEW d \in s[k].devices
            PROVE  <<s[k].peer, d>> \in B \/ \E i \in DOMAIN r : i < j /\ Comes(r[i], s[k].peer, d)
        <4>1. CASE <<s[k].peer, d>> \in A
          BY <4>1
        <4>2. ASSUME NEW i \in DOMAIN s, i < k, Comes(s[i], s[k].peer, d)
              PROVE  <<s[k].peer, d>> \in B \/ \E h \in DOMAIN r : h < j /\ Comes(r[h], s[k].peer, d)
          <5>1. CASE i = 1
            <6>1. <<s[k].peer, d>> \in B \/ \E h \in DOMAIN f : Comes(f[h], s[k].peer, d)
              BY <1>0, <3>2, <4>2, <5>1
            <6>2. \A h \in DOMAIN f : h < j
              BY <1>0, <3>1
            <6> QED BY <1>0, <6>1, <6>2
          <5>2. CASE i # 1
            <6>1. Len(f) + i - 1 \in DOMAIN r /\ r[Len(f) + i - 1] = s[i]
              BY <1>0, <5>2
            <6>2. Len(f) + i - 1 < j
              BY <1>0, <3>1, <4>2
            <6> QED BY <4>2, <6>1, <6>2
          <5> QED BY <5>1, <5>2
        <4> QED BY <1>2, <3>1, <4>1, <4>2 DEF ProvidedIn
      <3> QED BY <3>1, <3>2, <3>3
    <2> QED BY <2>1, <2>2
  <1>3. ProvidedIn(r, B)
    BY <1>2 DEF ProvidedIn
  <1> QED BY <1>3 DEF r

(* Nothing to be done. *)
LEMMA Empty ==
    /\ <<>> \in Seq(Statements)
    /\ ShapeOf(<<>>)
    /\ \A A : ProvidedIn(<<>>, A)
    /\ \A p : ~HasUpdate(<<>>, p)
  BY DEF ShapeOf, Ordered, Adjacent, ProvidedIn, HasUpdate

(* A statement that is not about the contacts leaves them in order. *)
LEMMA ContactKeeps ==
    ASSUME ContactInv, TypeOK', ~Idle, NEW f \in Seq(Statements), todo' = f \o Tail(todo),
           UNCHANGED <<contacts, saved, nick, faulty>>,
           session \cup deniable \subseteq session' \cup deniable',
           Head1.op \notin {"nick", "update"},
           \A i \in DOMAIN f : f[i].op \notin {"nick", "update"},
           ShapeOf(f),
           \A i \in DOMAIN f, y \in Statements : Pair(Head1, y) => Pair(f[i], y),
           ProvidedIn(f, session' \cup deniable'),
           \A p \in Peers, d \in Devices : Comes(Head1, p, d) =>
              <<p, d>> \in session' \cup deniable' \/ \E i \in DOMAIN f : Comes(f[i], p, d)
    PROVE  ContactInv'
  <1>1. todo \in Seq(Statements) /\ todo # <<>> /\ Head1 = Head(todo)
    BY DEF ContactInv, TypeOK, Idle, Head1
  <1>2. ShapeOf(todo')
    BY <1>1, ShapePush DEF ContactInv
  <1>3. ProvidedIn(todo', session' \cup deniable')
    BY <1>1, ProvidedPush DEF ContactInv, ContactsOK
  <1>4. PushOf(todo', todo, f)
    BY <1>1, Pushed
  <1>5. \A j \in DOMAIN todo' : todo'[j].op \in {"nick", "update"} =>
           \E i \in DOMAIN todo : todo'[j] = todo[i]
    BY <1>4 DEF PushOf
  <1>6. ContactsOK'
    BY <1>3, <1>5 DEF ContactInv, ContactsOK, Known
  <1>7. ASSUME NEW p \in Peers, HasUpdate(todo, p) PROVE HasUpdate(todo', p)
    <2>1. PICK i \in DOMAIN todo : todo[i].op = "update" /\ todo[i].peer = p
      BY <1>7 DEF HasUpdate
    <2>2. i # 1
      BY <1>1, <1>4, <2>1 DEF PushOf
    <2>3. Len(f) + i - 1 \in DOMAIN todo' /\ todo'[Len(f) + i - 1] = todo[i]
      BY <1>4, <2>2 DEF PushOf
    <2> QED BY <2>1, <2>3 DEF HasUpdate
  <1>8. ASSUME NEW p \in Peers PROVE Head1 # Do("nick", p)
    BY DEF Do
  <1>9. Mended'
    <2> SUFFICES ASSUME ~faulty', NEW p \in Peers, Known(p)'
                 PROVE  /\ p \in nick'
                        /\ (\E d \in contacts'[p] : <<p, d>> \in session' \cup deniable') \/ HasUpdate(todo', p)
      BY DEF Mended
    <2>1. ~faulty /\ Known(p)
      BY DEF Known
    <2>2. p \in nick /\ ((\E d \in contacts[p] : <<p, d>> \in session \cup deniable) \/ HasUpdate(todo, p))
      BY <1>8, <2>1 DEF ContactInv, Mended
    <2> QED BY <1>7, <2>2
  <1> QED BY <1>2, <1>6, <1>9 DEF ContactInv

(* The same for a statement that leaves nothing to be done. *)
LEMMA ContactTail ==
    ASSUME ContactInv, TypeOK', ~Idle, todo' = Tail(todo),
           UNCHANGED <<contacts, saved, nick, faulty>>,
           session \cup deniable \subseteq session' \cup deniable',
           Head1.op \notin {"nick", "update"},
           \A p \in Peers, d \in Devices : Comes(Head1, p, d) => <<p, d>> \in session' \cup deniable'
    PROVE  ContactInv'
  <1>1. todo \in Seq(Statements) /\ todo # <<>>
    BY DEF ContactInv, TypeOK, Idle
  <1>2. todo' = <<>> \o Tail(todo)
    BY <1>1, Tailed
  <1>3. PICK f : f = <<>>
    OBVIOUS
  <1>4. f \in Seq(Statements) /\ DOMAIN f = {} /\ ShapeOf(f) /\ ProvidedIn(f, session' \cup deniable')
    BY <1>3, Empty
  <1>5. todo' = f \o Tail(todo)
    BY <1>2, <1>3
  <1> QED BY <1>4, <1>5, ContactKeeps

(* The end of the process: what is saved is enough, unless a fault cut the *)
(* command short.                                                          *)
LEMMA ContactRestart ==
    ASSUME ContactInv, TypeOK', Restart, UNCHANGED <<saved, nick>>,
           session \cup deniable \subseteq session' \cup deniable',
           faulty' \/ (~faulty /\ (Idle \/ Head1.op \notin {"nick", "fetch", "update"}))
    PROVE  ContactInv'
  <1>1. todo \in Seq(Statements) /\ todo' = <<>> /\ contacts' = contacts
    BY DEF ContactInv, TypeOK, Restart, ContactsOK
  <1>2. ShapeOf(todo') /\ ContactsOK'
    BY <1>1, Empty DEF ContactInv, ContactsOK, Known
  <1>3. ASSUME ~faulty', NEW p \in Peers PROVE ~HasUpdate(todo, p)
    <2>1. CASE Idle
      BY <2>1, Empty DEF Idle
    <2>2. CASE ~Idle /\ Head1.op \notin {"nick", "fetch", "update"}
      <3>1. todo[1] = Head1 /\ DOMAIN todo = 1..Len(todo) /\ Len(todo) \in Nat /\ 1 \in DOMAIN todo
        BY <1>1, <2>2 DEF Idle, Head1
      <3>2. \A i \in DOMAIN todo : i # 1 => Pair(Head1, todo[i])
        BY <3>1 DEF ContactInv, ShapeOf, Ordered
      <3> QED BY <2>2, <3>1, <3>2 DEF HasUpdate, Pair
    <2> QED BY <1>3, <2>1, <2>2
  <1>4. Mended'
    <2> SUFFICES ASSUME ~faulty', NEW p \in Peers, Known(p)'
                 PROVE  /\ p \in nick'
                        /\ (\E d \in contacts'[p] : <<p, d>> \in session' \cup deniable') \/ HasUpdate(todo', p)
      BY DEF Mended
    <2>1. ~faulty /\ Known(p) /\ (Idle \/ Head1 # Do("nick", p))
      BY <1>1 DEF Known, Do
    <2> QED BY <1>1, <1>3, <2>1 DEF ContactInv, Mended
  <1> QED BY <1>2, <1>4 DEF ContactInv

(* The begin of a command. *)
LEMMA ContactBegin ==
    ASSUME ContactInv, TypeOK', Idle, UNCHANGED <<contacts, saved, nick, session, deniable>>,
           faulty' \/ ~faulty, ShapeOf(todo'), ProvidedIn(todo', session \cup deniable),
           \A i \in DOMAIN todo' :
             /\ todo'[i].op # "nick"
             /\ todo'[i].op = "update" => Known(todo'[i].peer)
    PROVE  ContactInv'
  <1>1. ContactsOK'
    BY DEF ContactInv, ContactsOK, Known
  <1>2. Mended'
    <2> SUFFICES ASSUME ~faulty', NEW p \in Peers, Known(p)'
                 PROVE  /\ p \in nick'
                        /\ (\E d \in contacts'[p] : <<p, d>> \in session' \cup deniable') \/ HasUpdate(todo', p)
      BY DEF Mended
    <2>1. ~faulty /\ Known(p) /\ ~HasUpdate(todo, p)
      BY Empty DEF Known, Idle
    <2> QED BY <2>1 DEF ContactInv, Mended
  <1> QED BY <1>1, <1>2 DEF ContactInv

(* add_contact of an account that is not known. *)
LEMMA ContactAdded ==
    ASSUME SessionAssumption, ContactInv, TypeOK', StoreContact, ~Known(Head1.peer)
    PROVE  ContactInv'
  <1> DEFINE p == Head1.peer
             A == session \cup deniable
             f == IF Head1.op = "contact" THEN <<Do("nick", p), Update(p, Head1.devices)>>
                  ELSE <<Do("nick", p), Do("fetch", p), Update(p, Devices)>>
  <1>1. /\ todo \in Seq(Statements) /\ todo # <<>> /\ Head1 = Head(todo) /\ Head1 \in Statements
        /\ p \in Peers /\ Head1.op \in {"contact", "newContact"}
        /\ Head1.op = "contact" => Head1.devices \in SUBSET Devices
    <2>1. ~Idle /\ Head1.op \in {"contact", "newContact"}
      BY DEF StoreContact, Next1
    <2>2. todo \in Seq(Statements) /\ todo # <<>> /\ Head1 = Head(todo)
      BY <2>1 DEF ContactInv, TypeOK, Idle, Head1
    <2>3. Head1 \in Statements
      BY <2>2, Tailed
    <2> QED BY <2>1, <2>2, <2>3, Holds DEF Deviced
  <1>2. /\ todo' = f \o Tail(todo)
        /\ contacts' = [contacts EXCEPT ![p] = {}] /\ saved' = [saved EXCEPT ![p] = {}]
        /\ UNCHANGED <<nick, session, deniable, faulty>>
    BY DEF StoreContact, WithEntry, SavedAs, user
  <1>3. f \in Seq(Statements)
    <2>1. Do("nick", p) \in Statements /\ Do("fetch", p) \in Statements
            /\ Update(p, Devices) \in Statements
            /\ (Head1.op = "contact" => Update(p, Head1.devices) \in Statements)
      BY <1>1 DEF Statements, Do, Update
    <2> QED BY <2>1
  <1>4. ShapeOf(f)
    BY DEF ShapeOf, Ordered, Adjacent, Pair, Do, Update, Follow, Later
  <1>5. \A i \in DOMAIN f, y \in Statements : Pair(Head1, y) => Pair(f[i], y)
    BY <1>1 DEF Pair, Do, Update, Follow, Later
  <1>6. ProvidedIn(f, A)
    <2>1. CASE Head1.op = "contact"
      <3>1. todo[1] = Head1 /\ DOMAIN todo = 1..Len(todo) /\ Len(todo) \in Nat /\ 1 \in DOMAIN todo
        BY <1>1
      <3>2. Head1.devices # {} /\ \A d \in Head1.devices : <<p, d>> \in A
        BY <2>1, <3>1 DEF ContactInv, ContactsOK, ProvidedIn
      <3>3. f = <<Do("nick", p), Update(p, Head1.devices)>>
        BY <2>1
      <3> QED BY <3>2, <3>3 DEF ProvidedIn, Do, Update
    <2>2. CASE Head1.op # "contact"
      <3>1. f = <<Do("nick", p), Do("fetch", p), Update(p, Devices)>>
        BY <2>2
      <3> HIDE DEF f
      <3>2. Comes(f[2], p, Primary) /\ \A d \in Devices : Comes(f[2], p, d)
        BY <3>1 DEF Comes, Do
      <3>3. DOMAIN f = 1..3 /\ f[1].op = "nick" /\ f[2].op = "fetch"
              /\ f[3].peer = p /\ f[3].devices = Devices
        BY <3>1 DEF Do, Update
      <3> QED BY <3>2, <3>3 DEF ProvidedIn, SessionAssumption
    <2> QED BY <2>1, <2>2
  <1>7. f[1] = Do("nick", p) /\ 1 \in DOMAIN f
        /\ (\A i \in DOMAIN f : f[i].peer = p)
        /\ (\A i \in DOMAIN f : f[i].op = "nick" => i = 1)
        /\ HasUpdate(f, p)
    <2>1. CASE Head1.op = "contact"
      BY <2>1 DEF Do, Update, HasUpdate
    <2>2. CASE Head1.op # "contact"
      BY <2>2 DEF Do, Update, HasUpdate
    <2> QED BY <2>1, <2>2
  <1> HIDE DEF f
  <1>8. ShapeOf(todo')
    BY <1>1, <1>2, <1>3, <1>4, <1>5, ShapePush DEF ContactInv
  <1>9. ProvidedIn(todo', session' \cup deniable')
    <2>1. \A q \in Peers, d \in Devices : ~Comes(Head1, q, d)
      BY <1>1 DEF Comes
    <2> QED BY <1>1, <1>2, <1>3, <1>6, <2>1, ProvidedPush DEF ContactInv, ContactsOK
  <1>10. PushOf(todo', todo, f) /\ todo' \in Seq(Statements)
    BY <1>1, <1>2, <1>3, Pushed
  <1>11. \A i \in DOMAIN todo : todo[i].op \notin {"nick", "update"}
    <2>1. \A i \in DOMAIN todo : i # 1 => Pair(Head1, todo[i])
      BY <1>1, <1>10 DEF PushOf, ContactInv, ShapeOf, Ordered
    <2> QED BY <1>1, <1>10, <2>1 DEF PushOf, Pair
  <1>12. \A j \in DOMAIN todo' : todo'[j].op \in {"nick", "update"} => todo'[j].peer = p
    BY <1>7, <1>10, <1>11 DEF PushOf
  <1>13. p \notin nick
    BY DEF ContactInv, ContactsOK
  <1>14. (\A q \in Peers : q # p => contacts'[q] = contacts[q]) /\ contacts'[p] # None
    <2>1. {} # None
      BY DEF SessionAssumption
    <2>2. p \in DOMAIN contacts /\ DOMAIN contacts = Peers
      BY <1>1 DEF ContactInv, TypeOK
    <2> QED BY <1>2, <2>1, <2>2 DEF Known
  <1>15. ContactsOK'
    <2>1. contacts' = saved'
      BY <1>2 DEF ContactInv, ContactsOK
    <2>2. \A q \in nick' : Known(q)'
      <3>1. nick \subseteq Peers /\ nick' = nick
        BY <1>2 DEF ContactInv, TypeOK
      <3> QED BY <1>13, <1>14, <3>1 DEF ContactInv, ContactsOK, Known
    <2>3. \A j \in DOMAIN todo' : /\ todo'[j].op = "nick" => todo'[j].peer \notin nick'
                                  /\ todo'[j].op \in {"nick", "update"} => contacts'[todo'[j].peer] # None
      BY <1>2, <1>12, <1>13, <1>14
    <2> QED BY <1>9, <2>1, <2>2, <2>3 DEF ContactsOK, Known
  <1>16. HasUpdate(todo', p)
    BY <1>7, <1>10 DEF HasUpdate, PushOf
  <1>17. ~Idle' /\ Head1' = Do("nick", p)
    <2>1. 1 \in DOMAIN todo' /\ todo'[1] = Do("nick", p)
      BY <1>7, <1>10 DEF PushOf
    <2> QED BY <1>10, <2>1 DEF Idle, Head1
  <1>18. Mended'
    <2> SUFFICES ASSUME ~faulty', NEW q \in Peers, Known(q)'
                 PROVE  /\ q \in nick' \/ (~Idle' /\ Head1' = Do("nick", q))
                        /\ (\E d \in contacts'[q] : <<q, d>> \in session' \cup deniable') \/ HasUpdate(todo', q)
      BY DEF Mended
    <2>1. CASE q = p
      BY <1>16, <1>17, <2>1
    <2>2. CASE q # p
      <3>1. ~faulty /\ Known(q) /\ Head1 # Do("nick", q) /\ ~HasUpdate(todo, q)
        BY <1>1, <1>2, <1>11, <1>14, <2>2 DEF Known, Do, HasUpdate
      <3> QED BY <1>2, <1>14, <2>2, <3>1 DEF ContactInv, Mended
    <2> QED BY <2>1, <2>2
  <1> QED BY <1>8, <1>15, <1>18 DEF ContactInv

(* insert_service_id_for_nickname meets no older row. *)
LEMMA ContactNicknamed ==
    ASSUME ContactInv, TypeOK', InsertNickname
    PROVE  ContactInv' /\ Head1.peer \notin nick
  <1> DEFINE p == Head1.peer
  <1>1. ~Idle /\ Head1.op = "nick" /\ todo \in Seq(Statements) /\ todo # <<>> /\ Head1 = Head(todo)
    BY DEF InsertNickname, Next1, ContactInv, TypeOK, Idle, Head1
  <1>2. /\ Tail(todo) \in Seq(Statements) /\ todo[1] = Head1 /\ Head1 \in Statements /\ 1 \in DOMAIN todo
        /\ \A i \in DOMAIN todo : i # 1 => i - 1 \in DOMAIN Tail(todo) /\ Tail(todo)[i - 1] = todo[i]
        /\ \A i \in DOMAIN Tail(todo) : i + 1 \in DOMAIN todo /\ i + 1 > 1 /\ Tail(todo)[i] = todo[i + 1]
        /\ <<>> \o Tail(todo) = Tail(todo)
    BY <1>1, Tailed
  <1>3. p \notin nick /\ Known(p)
    BY <1>1, <1>2 DEF ContactInv, ContactsOK
  <1>4. /\ nick' = nick \cup {p} /\ todo' = Tail(todo)
        /\ UNCHANGED <<contacts, saved, session, deniable, faulty>>
    BY <1>3 DEF InsertNickname, Resolves, user
  <1>5. PICK f : f = <<>>
    OBVIOUS
  <1>6. f \in Seq(Statements) /\ DOMAIN f = {} /\ ShapeOf(f) /\ ProvidedIn(f, session \cup deniable)
    BY <1>5, Empty
  <1>7. todo' = f \o Tail(todo)
    BY <1>2, <1>4, <1>5
  <1>8. ShapeOf(todo')
    BY <1>1, <1>6, <1>7, ShapePush DEF ContactInv
  <1>9. ProvidedIn(todo', session' \cup deniable')
    <2>1. \A q \in Peers, d \in Devices : ~Comes(Head1, q, d)
      BY <1>1 DEF Comes
    <2> QED BY <1>1, <1>4, <1>6, <1>7, <2>1, ProvidedPush DEF ContactInv, ContactsOK
  <1>10. \A j \in DOMAIN todo' : todo'[j].op # "nick" /\ \E i \in DOMAIN todo : todo'[j] = todo[i]
    <2>1. \A i \in DOMAIN todo : 1 < i => todo[i].op # "nick"
      BY <1>2 DEF ContactInv, ShapeOf, Ordered, Pair
    <2> QED BY <1>2, <1>4, <2>1
  <1>11. ContactsOK'
    BY <1>3, <1>4, <1>9, <1>10 DEF ContactInv, ContactsOK, Known
  <1>12. ASSUME NEW q \in Peers, HasUpdate(todo, q) PROVE HasUpdate(todo', q)
    <2>1. PICK i \in DOMAIN todo : todo[i].op = "update" /\ todo[i].peer = q
      BY <1>12 DEF HasUpdate
    <2>2. i # 1
      BY <1>1, <1>2, <2>1
    <2>3. PICK j : j = i - 1
      OBVIOUS
    <2>4. j \in DOMAIN todo' /\ todo'[j] = todo[i]
      BY <1>2, <1>4, <2>2, <2>3
    <2> QED BY <2>1, <2>4 DEF HasUpdate
  <1>13. Mended'
    <2> SUFFICES ASSUME ~faulty', NEW q \in Peers, Known(q)'
                 PROVE  /\ q \in nick'
                        /\ (\E d \in contacts'[q] : <<q, d>> \in session' \cup deniable') \/ HasUpdate(todo', q)
      BY DEF Mended
    <2>1. ~faulty /\ Known(q)
      BY <1>4 DEF Known
    <2>2. Head1 = Do("nick", q) => p = q
      BY DEF Do
    <2> QED BY <1>4, <1>12, <2>1, <2>2 DEF ContactInv, Mended
  <1> QED BY <1>3, <1>8, <1>11, <1>13 DEF ContactInv

(* update_contact: the contact has a device, and a session with it. *)
LEMMA ContactUpdated ==
    ASSUME SessionAssumption, ContactInv, TypeOK', UpdateContact
    PROVE  ContactInv'
  <1> DEFINE p == Head1.peer
  <1>1. ~Idle /\ Head1.op = "update" /\ todo \in Seq(Statements) /\ todo # <<>> /\ Head1 = Head(todo)
    BY DEF UpdateContact, Next1, ContactInv, TypeOK, Idle, Head1
  <1>2. /\ Tail(todo) \in Seq(Statements) /\ todo[1] = Head1 /\ Head1 \in Statements /\ 1 \in DOMAIN todo
        /\ \A i \in DOMAIN todo : i # 1 => i - 1 \in DOMAIN Tail(todo) /\ Tail(todo)[i - 1] = todo[i]
        /\ \A i \in DOMAIN Tail(todo) : i + 1 \in DOMAIN todo /\ i + 1 > 1 /\ Tail(todo)[i] = todo[i + 1]
        /\ <<>> \o Tail(todo) = Tail(todo)
    BY <1>1, Tailed
  <1>3. p \in Peers /\ Head1.devices \in SUBSET Devices /\ Known(p)
    BY <1>1, <1>2, Holds DEF ContactInv, ContactsOK, Deviced
  <1>4. Head1.devices # {} /\ \A d \in Head1.devices : <<p, d>> \in session \cup deniable
    <2>1. \A i \in DOMAIN todo : ~(i < 1)
      BY <1>1
    <2> QED BY <1>1, <1>2, <2>1 DEF ContactInv, ContactsOK, ProvidedIn
  <1>5. /\ contacts' = [contacts EXCEPT ![p] = @ \cup Head1.devices]
        /\ saved' = [saved EXCEPT ![p] = contacts'[p]]
        /\ todo' = Tail(todo)
        /\ UNCHANGED <<nick, session, deniable, faulty>>
    BY DEF UpdateContact, WithDevices, SavedAs, user
  <1>6. PICK f : f = <<>>
    OBVIOUS
  <1>7. f \in Seq(Statements) /\ DOMAIN f = {} /\ ShapeOf(f) /\ ProvidedIn(f, session \cup deniable)
    BY <1>6, Empty
  <1>8. todo' = f \o Tail(todo)
    BY <1>2, <1>5, <1>6
  <1>9. ShapeOf(todo')
    BY <1>1, <1>7, <1>8, ShapePush DEF ContactInv
  <1>10. ProvidedIn(todo', session' \cup deniable')
    <2>1. \A q \in Peers, d \in Devices : ~Comes(Head1, q, d)
      BY <1>1 DEF Comes
    <2> QED BY <1>1, <1>5, <1>7, <1>8, <2>1, ProvidedPush DEF ContactInv, ContactsOK
  <1>11. \A j \in DOMAIN todo' : todo'[j].op # "update" /\ \E i \in DOMAIN todo : todo'[j] = todo[i]
    <2>1. \A i \in DOMAIN todo : 1 < i => todo[i].op # "update"
      BY <1>1, <1>2 DEF ContactInv, ShapeOf, Ordered, Pair
    <2> QED BY <1>2, <1>5, <2>1
  <1>12. contacts \in [Peers -> Entries] /\ contacts = saved
    BY DEF ContactInv, TypeOK, Entries, ContactsOK
  <1>13. contacts'[p] = contacts[p] \cup Head1.devices /\ (\A q \in Peers : q # p => contacts'[q] = contacts[q])
    BY <1>3, <1>5, <1>12
  <1>14. contacts'[p] # None /\ \A q \in Peers : Known(q) <=> Known(q)'
    <2>1. contacts[p] \in SUBSET Devices
      BY <1>3, <1>12 DEF Entries, Known
    <2>2. contacts'[p] \in SUBSET Devices
      BY <1>3, <1>13, <2>1
    <2>3. contacts'[p] # None
      BY <2>2 DEF SessionAssumption, Known
    <2> QED BY <1>3, <1>13, <2>3 DEF Known
  <1>15. ContactsOK'
    <2>1. contacts' = saved'
      BY <1>3, <1>5, <1>12
    <2>2. nick \subseteq Peers /\ \A i \in DOMAIN todo : todo[i].peer \in Peers
      <3>1. \A i \in DOMAIN todo : todo[i] \in Statements
        BY <1>1
      <3> QED BY <3>1, Holds DEF ContactInv, TypeOK
    <2>3. \A q \in nick' : Known(q)'
      BY <1>5, <1>14, <2>2 DEF ContactInv, ContactsOK
    <2>4. \A j \in DOMAIN todo' : /\ todo'[j].op = "nick" => todo'[j].peer \notin nick'
                                  /\ todo'[j].op \in {"nick", "update"} => contacts'[todo'[j].peer] # None
      BY <1>5, <1>11, <1>14, <2>2 DEF ContactInv, ContactsOK, Known
    <2> QED BY <1>10, <2>1, <2>3, <2>4 DEF ContactsOK, Known
  <1>16. Mended'
    <2> SUFFICES ASSUME ~faulty', NEW q \in Peers, Known(q)'
                 PROVE  /\ q \in nick'
                        /\ \E d \in contacts'[q] : <<q, d>> \in session' \cup deniable'
      BY DEF Mended
    <2>1. ~faulty /\ Known(q) /\ Head1 # Do("nick", q)
      BY <1>1, <1>5, <1>14 DEF Do
    <2>2. CASE q = p
      BY <1>4, <1>5, <1>13, <2>1, <2>2 DEF ContactInv, Mended
    <2>3. CASE q # p
      <3>1. ~HasUpdate(todo, q)
        <4>1. \A i \in DOMAIN todo : i # 1 => todo[i].op # "update"
          <5> SUFFICES ASSUME NEW i \in DOMAIN todo, i # 1 PROVE todo[i].op # "update"
            OBVIOUS
          <5>1. PICK j : j = i - 1
            OBVIOUS
          <5>2. j \in DOMAIN todo' /\ todo'[j] = todo[i]
            BY <1>2, <1>5, <5>1
          <5> QED BY <1>11, <5>2
        <4> QED BY <1>2, <2>3, <4>1 DEF HasUpdate
      <3> QED BY <1>5, <1>13, <2>1, <2>3, <3>1 DEF ContactInv, Mended
    <2> QED BY <2>2, <2>3
  <1> QED BY <1>9, <1>15, <1>16 DEF ContactInv

(* A contact whose devices are added is known. *)
LEMMA UpdateKnown == ContactInv => (Next1("update") => Known(Head1.peer))
  <1> SUFFICES ASSUME ContactInv, Next1("update") PROVE Known(Head1.peer)
    OBVIOUS
  <1>1. todo \in Seq(Statements) /\ todo # <<>> /\ Head1 = Head(todo) /\ Head1.op = "update"
    BY DEF ContactInv, TypeOK, Next1, Idle, Head1
  <1>2. 1 \in DOMAIN todo /\ todo[1] = Head1
    BY <1>1
  <1> QED BY <1>1, <1>2 DEF ContactInv, ContactsOK

(* The commands of the user, *)
LEMMA ContactCommand ==
    ASSUME SessionAssumption, ContactInv, TypeOK'
    PROVE  /\ \A p \in Peers, m \in Msgs : Denim(p, m) => ContactInv'
           /\ \A p \in Peers : SendNew(p) \/ SendStuck(p) \/ SendFails(p) => ContactInv'
           /\ \A p \in Peers, d \in Devices, n \in Nat : Receive(p, d, n) => ContactInv'
           /\ \A n \in Nat : ReceiveOther(n) => ContactInv'
           /\ Stop => ContactInv'
  <1>1. ASSUME NEW p \in Peers, NEW m \in Msgs, Denim(p, m) PROVE ContactInv'
    <2>1. todo' = <<Fan(p, m, contacts[p])>> \/ todo' = <<DoMsg("await", p, m)>>
            \/ todo' = <<Do("request", p), Do("requested", p), DoMsg("await", p, m)>>
      BY <1>1 DEF Denim
    <2>2. ShapeOf(todo')
      BY <2>1 DEF ShapeOf, Ordered, Adjacent, Pair, Follow, Later, Fan, Do, DoMsg
    <2>3. \A i \in DOMAIN todo' : todo'[i].op \notin {"nick", "update", "contact"}
      BY <2>1 DEF Fan, Do, DoMsg
    <2>4. ProvidedIn(todo', session \cup deniable)
      BY <2>3 DEF ProvidedIn
    <2>5. Idle /\ UNCHANGED <<contacts, saved, nick, session, deniable, faulty>>
      BY <1>1 DEF Denim, tables
    <2>6. faulty' \/ ~faulty
      BY <2>5
    <2> QED BY <2>2, <2>3, <2>4, <2>5, <2>6, ContactBegin
  <1>2. ASSUME NEW p \in Peers, SendNew(p) PROVE ContactInv'
    <2>1. todo' = <<AddNewContact(p)>>
      BY <1>2 DEF SendNew
    <2>2. ShapeOf(todo')
      BY <2>1 DEF ShapeOf, Ordered, Adjacent, AddNewContact, Do
    <2>3. \A i \in DOMAIN todo' : todo'[i].op \notin {"nick", "update", "contact"}
      BY <2>1 DEF AddNewContact, Do
    <2>4. ProvidedIn(todo', session \cup deniable)
      BY <2>3 DEF ProvidedIn
    <2>5. Idle /\ UNCHANGED <<contacts, saved, nick, session, deniable, faulty>>
      BY <1>2 DEF SendNew, tables, user
    <2>6. faulty' \/ ~faulty
      BY <2>5
    <2> QED BY <2>2, <2>3, <2>4, <2>5, <2>6, ContactBegin
  <1>3. ASSUME NEW p \in Peers, SendStuck(p) PROVE ContactInv'
    <2>1. Idle /\ Restart /\ UNCHANGED <<saved, nick, session, deniable, faulty>>
      BY <1>3 DEF SendStuck, tables, user
    <2>2. faulty' \/ (~faulty /\ Idle)
      BY <2>1
    <2> QED BY <2>1, <2>2, ContactRestart
  <1>4. ASSUME NEW p \in Peers, SendFails(p) PROVE ContactInv'
    <2>1. todo' = <<Do("fetch", p), Update(p, Devices)>>
      BY <1>4 DEF SendFails
    <2>2. ShapeOf(todo')
      BY <2>1 DEF ShapeOf, Ordered, Adjacent, Pair, Follow, Later, Do, Update
    <2>3. DOMAIN todo' = 1..2 /\ todo'[1] = Do("fetch", p) /\ todo'[2] = Update(p, Devices)
      BY <2>1
    <2>4. ProvidedIn(todo', session \cup deniable)
      BY <2>3 DEF ProvidedIn, Do, Update, Comes, SessionAssumption
    <2>5. Idle /\ UNCHANGED <<contacts, saved, nick, session, deniable>> /\ faulty' = TRUE /\ Known(p)
      BY <1>4 DEF SendFails, tables, Fault, CanEncrypt
    <2>6. \A i \in DOMAIN todo' : todo'[i].op # "nick" /\ todo'[i].peer = p
      BY <2>3 DEF Do, Update
    <2> QED BY <2>2, <2>4, <2>5, <2>6, ContactBegin
  <1>5. ASSUME NEW n \in Nat, NEW regular \in Seq(Statements), NEW sender \in Seq(Statements),
               Read(n, regular, sender),
               \A j \in DOMAIN regular : regular[j].op = "regular",
               \A k \in DOMAIN sender : \E j \in DOMAIN regular, d \in Devices :
                  sender[k] = AddContact(regular[j].peer, {d}) /\ d \in regular[j].devices
        PROVE  ContactInv'
    <2>0. TypeOK /\ inbox \in Seq(Arrivals)
      BY DEF ContactInv, TypeOK, Arrivals
    <2>r. n \in Nat /\ regular \in Seq(Statements) /\ sender \in Seq(Statements) /\ Read(n, regular, sender)
      BY <1>5
    <2>d. /\ n \in 0..Len(inbox)
          /\ \A k \in 1..n : Len(regular) + k \in DOMAIN todo' /\ todo'[Len(regular) + k] = Handle(inbox[k])
      BY <2>0, <2>r, ReadDoes, Zenon
    <2>1. \A k \in 1..n : inbox[k] \in Arrivals
      BY <2>0, <2>d
    <2>2. \A k \in 1..n : Handle(inbox[k]).op \in {"decrypt", "response"}
      BY <2>1, HandleIs
    <2>3. ASSUME NEW j \in DOMAIN todo' PROVE todo'[j].op \in Later
      <3>1. ReadAt(j, todo'[j], n, regular, sender)
        BY <1>5, <2>0, ReadDoes
      <3>2. \A p, d : AddContact(p, d).op = "contact"
        BY DEF AddContact
      <3>3. ASSUME NEW k \in DOMAIN sender PROVE sender[k].op = "contact"
        <4>1. PICK i \in DOMAIN regular, d \in Devices : sender[k] = AddContact(regular[i].peer, {d})
          BY <1>5
        <4> QED BY <3>2, <4>1
      <3>4. \A i \in DOMAIN regular : regular[i].op = "regular"
        BY <1>5
      <3>5. todo'[j].op \in {"regular", "decrypt", "response", "contact"}
        <4> DEFINE x == todo'[j]
        <4>1. ReadAt(j, x, n, regular, sender)
          BY <3>1
        <4> HIDE DEF x
        <4>2. x.op \in {"regular", "decrypt", "response", "contact"}
          <5>1. ASSUME NEW k \in 1..n, x = AddContact(inbox[k].peer, {inbox[k].device}) PROVE x.op = "contact"
            BY <3>2, <5>1
          <5>2. ASSUME j \in DOMAIN regular, x = regular[j] PROVE x.op = "regular"
            BY <3>4, <5>2
          <5>3. ASSUME NEW k \in 1..n, x = Handle(inbox[k]) PROVE x.op \in {"decrypt", "response"}
            BY <2>2, <5>3
          <5>4. ASSUME NEW k \in DOMAIN sender, x = sender[k] PROVE x.op = "contact"
            BY <3>3, <5>4
          <5> QED BY <4>1, <5>1, <5>2, <5>3, <5>4 DEF ReadAt
        <4> QED BY <4>2 DEF x
      <3> QED BY <3>5 DEF Later, Follow
    <2>4. ShapeOf(todo')
      BY <2>3 DEF ShapeOf, Ordered, Adjacent, Pair, Later, Follow
    <2>5. ASSUME NEW j \in DOMAIN todo', todo'[j].op \in {"contact", "update"}
          PROVE  /\ todo'[j].devices # {}
                 /\ \A d \in todo'[j].devices :
                      \E i \in DOMAIN todo' : i < j /\ Comes(todo'[i], todo'[j].peer, d)
      <3>0. Len(regular) \in Nat /\ DOMAIN regular = 1..Len(regular) /\ Len(sender) \in Nat
               /\ DOMAIN sender = 1..Len(sender)
        OBVIOUS
      <3>1. CASE j \in DOMAIN regular /\ todo'[j] = regular[j]
        BY <1>5, <2>5, <3>1
      <3>2. CASE \E k \in 1..n : j = Len(regular) + k /\ todo'[j] = Handle(inbox[k])
        BY <2>2, <2>5, <3>2
      <3>3. ASSUME NEW k \in DOMAIN sender, j = Len(regular) + n + k, todo'[j] = sender[k]
            PROVE  /\ todo'[j].devices # {}
                   /\ \A d \in todo'[j].devices :
                      \E i \in DOMAIN todo' : i < j /\ Comes(todo'[i], todo'[j].peer, d)
        <4>1. PICK i \in DOMAIN regular, d \in Devices :
                 sender[k] = AddContact(regular[i].peer, {d}) /\ d \in regular[i].devices
          BY <1>5
        <4>2. i \in DOMAIN todo' /\ todo'[i] = regular[i]
          BY <1>5, <2>0, ReadDoes
        <4>3. i < j
          BY <3>0, <3>3
        <4>4. regular[i].op = "regular"
          BY <1>5
        <4>5. todo'[j].peer = regular[i].peer /\ todo'[j].devices = {d}
          BY <3>3, <4>1 DEF AddContact
        <4>6. Comes(todo'[i], todo'[j].peer, d)
          BY <4>1, <4>2, <4>4, <4>5 DEF Comes
        <4> QED BY <4>2, <4>3, <4>5, <4>6
      <3>4. ASSUME NEW k \in 1..n, j > Len(regular) + n + Len(sender), inbox[k].kind = "envelope",
                   todo'[j] = AddContact(inbox[k].peer, {inbox[k].device})
            PROVE  /\ todo'[j].devices # {}
                   /\ \A d \in todo'[j].devices :
                      \E i \in DOMAIN todo' : i < j /\ Comes(todo'[i], todo'[j].peer, d)
        <4>1. Len(regular) + k \in DOMAIN todo' /\ todo'[Len(regular) + k] = Handle(inbox[k])
          BY <2>d
        <4>2. Len(regular) + k < j
          BY <2>0, <3>0, <3>4, <1>5, ReadDoes
        <4>3. Handle(inbox[k]).peer = inbox[k].peer /\ Handle(inbox[k]).op = "decrypt"
                 /\ Handle(inbox[k]).devices = {inbox[k].device}
          BY <2>1, <3>4, HandleIs
        <4>4. todo'[j].peer = inbox[k].peer /\ todo'[j].devices = {inbox[k].device}
          BY <3>4 DEF AddContact
        <4>5. Comes(todo'[Len(regular) + k], todo'[j].peer, inbox[k].device)
          BY <4>1, <4>3, <4>4 DEF Comes
        <4> QED BY <4>1, <4>2, <4>4, <4>5
      <3>5. ReadAt(j, todo'[j], n, regular, sender)
        BY <1>5, <2>0, ReadDoes
      <3> QED BY <3>1, <3>2, <3>3, <3>4, <3>5 DEF ReadAt
    <2>6. ProvidedIn(todo', session \cup deniable)
      BY <2>5 DEF ProvidedIn
    <2>7. Idle /\ UNCHANGED <<contacts, saved, nick, session, deniable, faulty>>
      BY <1>5 DEF Read, tables
    <2>8. faulty' \/ ~faulty
      BY <2>7
    <2>9. \A i \in DOMAIN todo' : todo'[i].op \notin {"nick", "update"}
      BY <2>3 DEF Later, Follow
    <2> QED BY <2>4, <2>6, <2>7, <2>8, <2>9, ContactBegin
  <1>6. ASSUME NEW p \in Peers, NEW d \in Devices, NEW n \in Nat, Receive(p, d, n) PROVE ContactInv'
    <2> DEFINE regular == <<[op |-> "regular", peer |-> p, devices |-> {d}]>>
               sender == <<AddContact(p, {d})>>
    <2>1. regular \in Seq(Statements) /\ sender \in Seq(Statements)
      BY DEF Statements, AddContact
    <2>2. \A j \in DOMAIN regular : regular[j].op = "regular"
      OBVIOUS
    <2>3. \A k \in DOMAIN sender : \E j \in DOMAIN regular, e \in Devices :
             sender[k] = AddContact(regular[j].peer, {e}) /\ e \in regular[j].devices
      <3>1. 1 \in DOMAIN regular /\ regular[1].peer = p /\ regular[1].devices = {d}
        OBVIOUS
      <3>2. \A k \in DOMAIN sender : sender[k] = AddContact(p, {d})
        OBVIOUS
      <3> QED BY <3>1, <3>2
    <2>4. Read(n, regular, sender)
      BY <1>6 DEF Receive
    <2> HIDE DEF regular, sender
    <2> QED BY <1>5, <2>1, <2>2, <2>3, <2>4
  <1>7. ASSUME NEW n \in Nat, ReceiveOther(n) PROVE ContactInv'
    <2>1. PICK f : f = <<>>
      OBVIOUS
    <2>2. f \in Seq(Statements) /\ DOMAIN f = {} /\ Read(n, f, f)
      BY <1>7, <2>1 DEF ReceiveOther
    <2> QED BY <1>5, <2>2
  <1>8. ASSUME Stop PROVE ContactInv'
    <2>1. Restart /\ UNCHANGED <<saved, nick, session, deniable>>
      BY <1>8 DEF Stop, tables
    <2>2. faulty' \/ (~faulty /\ Idle)
      BY <1>8 DEF Stop, Fault
    <2> QED BY <2>1, <2>2, ContactRestart
  <1> QED BY <1>1, <1>2, <1>3, <1>4, <1>6, <1>7, <1>8

(* and the statements of the running command. *)
LEMMA ContactStatement ==
    ASSUME SessionAssumption, ContactInv, TypeOK', Statement
    PROVE  ContactInv'
  <1>0. ASSUME ~Idle
        PROVE  /\ todo \in Seq(Statements) /\ todo # <<>> /\ Head1 = Head(todo) /\ Head1 \in Statements
               /\ Head1.peer \in Peers /\ Tail(todo) \in Seq(Statements)
    BY <1>0, Tailed, Holds DEF ContactInv, TypeOK, Idle, Head1
  <1>1. CASE StoreKeyRequest \/ StoreRequestSent \/ StoreAwaiting \/ RemoveKeyRequest
    <2>1. /\ ~Idle /\ Head1.op \in {"request", "requested", "await", "forget"} /\ todo' = Tail(todo)
          /\ UNCHANGED <<contacts, saved, nick, session, deniable, faulty>>
      BY <1>1 DEF StoreKeyRequest, StoreRequestSent, StoreAwaiting, RemoveKeyRequest, Next1, user
    <2>2. \A p \in Peers, d \in Devices : ~Comes(Head1, p, d)
      BY <2>1 DEF Comes
    <2> QED BY <2>1, <2>2, ContactTail
  <1>2. CASE StorePayload
    <2>1. ~Idle /\ Head1.op = "store" /\ UNCHANGED <<contacts, saved, nick, session, deniable, faulty>>
      BY <1>2 DEF StorePayload, Next1, user
    <2>2. \A p \in Peers, d \in Devices : ~Comes(Head1, p, d)
      BY <2>1 DEF Comes
    <2>3. CASE todo' = Tail(todo)
      BY <2>1, <2>2, <2>3, ContactTail
    <2>4. ASSUME NEW d \in Head1.devices,
                 todo' = <<Fan(Head1.peer, Head1.text, Head1.devices \ {d})>> \o Tail(todo)
          PROVE  ContactInv'
      <3>1. PICK f : f = <<Fan(Head1.peer, Head1.text, Head1.devices \ {d})>>
        OBVIOUS
      <3>2. f \in Seq(Statements)
        <4>1. Head1.text \in Msgs /\ Head1.devices \in SUBSET Devices
          BY <1>0, <2>1, Holds
        <4>2. Fan(Head1.peer, Head1.text, Head1.devices \ {d}) \in Statements
          BY <1>0, <2>1, <4>1, Makes
        <4> QED BY <3>1, <4>2
      <3>3. DOMAIN f = 1..1 /\ f[1].op = "store"
        BY <3>1 DEF Fan
      <3>4. ShapeOf(f) /\ ProvidedIn(f, session' \cup deniable')
        BY <3>3 DEF ShapeOf, Ordered, Adjacent, ProvidedIn
      <3>5. \A i \in DOMAIN f, y \in Statements : Pair(Head1, y) => Pair(f[i], y)
        BY <2>1, <3>3 DEF Pair, Follow, Later
      <3>6. todo' = f \o Tail(todo)
        BY <2>4, <3>1, Zenon
      <3>8. \A i \in DOMAIN f : f[i].op \notin {"nick", "update"}
        BY <3>3
      <3>7. session \cup deniable \subseteq session' \cup deniable'
        BY <2>1
      <3> QED BY <2>1, <2>2, <3>2, <3>4, <3>5, <3>6, <3>7, <3>8, ContactKeeps
    <2> QED BY <1>2, <2>3, <2>4 DEF StorePayload
  <1>3. CASE StoreContact
    <2>1. CASE Known(Head1.peer)
      <3>1. /\ ~Idle /\ Head1.op \in {"contact", "newContact"} /\ todo' = Tail(todo)
            /\ UNCHANGED <<contacts, saved, nick, session, deniable, faulty>>
        BY <1>3, <2>1 DEF StoreContact, Next1, user
      <3>2. \A p \in Peers, d \in Devices : ~Comes(Head1, p, d)
        BY <3>1 DEF Comes
      <3> QED BY <3>1, <3>2, ContactTail
    <2>2. CASE ~Known(Head1.peer)
      BY <1>3, <2>2, ContactAdded
    <2> QED BY <2>1, <2>2
  <1>4. CASE InsertNickname
    BY <1>4, ContactNicknamed
  <1>5. CASE FetchBundles
    <2>1. ~Idle /\ Head1.op = "fetch" /\ UNCHANGED <<saved, nick, deniable>>
      BY <1>5 DEF FetchBundles, Next1
    <2>2. CASE session' = session \cup Sessions(Head1.peer, Devices) /\ todo' = Tail(todo) /\ UNCHANGED <<contacts, faulty>>
      <3>1. \A p \in Peers, d \in Devices : Comes(Head1, p, d) => <<p, d>> \in session' \cup deniable'
        BY <2>1, <2>2 DEF Comes, Sessions
      <3>2. session \cup deniable \subseteq session' \cup deniable'
        BY <2>1, <2>2
      <3> QED BY <2>1, <2>2, <3>1, <3>2, ContactTail
    <2>3. CASE Fault /\ Restart /\ UNCHANGED session
      BY <2>1, <2>3, ContactRestart DEF Fault
    <2> QED BY <1>5, <2>2, <2>3 DEF FetchBundles
  <1>6. CASE UpdateContact
    BY <1>6, ContactUpdated
  <1>7. CASE Decrypt
    <2>1. /\ ~Idle /\ Head1.op \in {"regular", "decrypt"} /\ todo' = Tail(todo)
          /\ session' \cup deniable' = session \cup deniable \cup Sessions(Head1.peer, Head1.devices)
          /\ UNCHANGED <<contacts, saved, nick, faulty>>
      BY <1>7 DEF Decrypt, Next1, user
    <2>2. \A p \in Peers, d \in Devices : Comes(Head1, p, d) => <<p, d>> \in session' \cup deniable'
      BY <2>1 DEF Comes, Sessions
    <2> QED BY <2>1, <2>2, ContactTail
  <1>8. CASE HandleKeyResponse
    <2> DEFINE p == Head1.peer
    <2>1. /\ ~Idle /\ Head1.op = "response" /\ UNCHANGED <<saved, nick, session, faulty>>
          /\ deniable' = deniable \cup Sessions(p, {Primary})
      BY <1>8 DEF HandleKeyResponse, Next1, user
    <2>2. CASE Requested(p)
      <3>1. PICK f : f = <<AddContact(p, {Primary}), Do("forget", p), Do("flush", p)>>
        OBVIOUS
      <3>2. todo' = f \o Tail(todo) /\ UNCHANGED contacts
        BY <1>8, <2>2, <3>1 DEF HandleKeyResponse
      <3>3. f \in Seq(Statements)
        <4>1. {AddContact(p, {Primary}), Do("forget", p), Do("flush", p)} \subseteq Statements
          BY <1>0, <2>1 DEF Statements, AddContact, Do, SessionAssumption
        <4> QED BY <3>1, <4>1
      <3>4. /\ DOMAIN f = 1..3 /\ f[1].op = "contact" /\ f[1].peer = p /\ f[1].devices = {Primary}
            /\ f[2] = Do("forget", p) /\ f[3] = Do("flush", p)
        BY <3>1 DEF AddContact
      <3> HIDE DEF p
      <3>5. ShapeOf(f)
        BY <3>4 DEF ShapeOf, Ordered, Adjacent, Pair, Follow, Later, Do
      <3>6. ProvidedIn(f, session' \cup deniable')
        <4>1. <<p, Primary>> \in session' \cup deniable'
          BY <2>1 DEF Sessions
        <4> QED BY <3>4, <4>1 DEF ProvidedIn, Do
      <3>7. \A i \in DOMAIN f, y \in Statements : Pair(Head1, y) => Pair(f[i], y)
        BY <2>1, <3>4 DEF Pair, Follow, Later, Do
      <3>8. \A i \in DOMAIN f : f[i].op \notin {"nick", "update"}
        BY <3>4 DEF Do
      <3>9. \A q \in Peers, d \in Devices : ~Comes(Head1, q, d)
        BY <2>1 DEF Comes
      <3>10. session \cup deniable \subseteq session' \cup deniable'
        BY <2>1
      <3> QED BY <2>1, <3>2, <3>3, <3>5, <3>6, <3>7, <3>8, <3>9, <3>10, ContactKeeps
    <2>3. CASE ~Requested(p)
      <3>1. Restart
        BY <1>8, <2>3 DEF HandleKeyResponse
      <3>2. faulty' \/ (~faulty /\ Head1.op \notin {"nick", "fetch", "update"})
        BY <2>1
      <3>3. session \cup deniable \subseteq session' \cup deniable'
        BY <2>1
      <3> QED BY <2>1, <3>1, <3>2, <3>3, ContactRestart
    <2> QED BY <2>2, <2>3
  <1>9. CASE ReadAwaiting
    <2> DEFINE p == Head1.peer
    <2>1. ~Idle /\ Head1.op = "flush" /\ UNCHANGED <<contacts, saved, nick, session, deniable, faulty>>
      BY <1>9 DEF ReadAwaiting, Next1, user, tables
    <2>2. PICK f : f = [i \in DOMAIN awaiting[p] |-> DoMsg("send", p, awaiting[p][i])]
      OBVIOUS
    <2>3. todo' = f \o Tail(todo)
      BY <1>9, <2>2 DEF ReadAwaiting
    <2>4. f \in Seq(Statements)
      <3>1. awaiting[p] \in Seq(Msgs) /\ p \in Peers
        BY <1>0, <2>1 DEF ContactInv, TypeOK
      <3>2. \A i \in DOMAIN awaiting[p] : DoMsg("send", p, awaiting[p][i]) \in Statements
        BY <3>1 DEF DoMsg, Statements
      <3> HIDE DEF DoMsg, p
      <3> QED BY <2>2, <3>1, <3>2
    <2>5. \A i \in DOMAIN f : f[i].op = "send"
      BY <2>2 DEF DoMsg
    <2> HIDE DEF p
    <2>6. ShapeOf(f) /\ ProvidedIn(f, session' \cup deniable')
      BY <2>5 DEF ShapeOf, Ordered, Adjacent, Pair, Follow, Later, ProvidedIn
    <2>7. \A i \in DOMAIN f, y \in Statements : Pair(Head1, y) => Pair(f[i], y)
      BY <2>1, <2>5 DEF Pair, Follow, Later
    <2>8. \A q \in Peers, d \in Devices : ~Comes(Head1, q, d)
      BY <2>1 DEF Comes
    <2>9. \A i \in DOMAIN f : f[i].op \notin {"nick", "update"}
      BY <2>5
    <2> QED BY <2>1, <2>3, <2>4, <2>6, <2>7, <2>8, <2>9, ContactKeeps
  <1>10. CASE SendAwaiting
    <2> DEFINE p == Head1.peer
    <2>1. ~Idle /\ Head1.op = "send" /\ UNCHANGED <<saved, nick, session, deniable, faulty>>
      BY <1>10 DEF SendAwaiting, Next1, user, tables
    <2>2. CASE CanEncrypt(p, deniable)
      <3>1. PICK f : f = <<Fan(p, Head1.text, contacts[p])>>
        OBVIOUS
      <3>2. todo' = f \o Tail(todo) /\ UNCHANGED contacts
        BY <1>10, <2>2, <3>1 DEF SendAwaiting
      <3>3. f \in Seq(Statements)
        <4>1. Head1.text \in Msgs /\ p \in Peers
          BY <1>0, <2>1, Holds DEF Texted
        <4>2. contacts[p] \in SUBSET Devices
          BY <2>2, <4>1 DEF ContactInv, TypeOK, CanEncrypt, Known
        <4>3. Fan(p, Head1.text, contacts[p]) \in Statements
          BY <4>1, <4>2, Makes
        <4> QED BY <3>1, <4>3
      <3>4. DOMAIN f = 1..1 /\ f[1].op = "store"
        BY <3>1 DEF Fan
      <3>5. ShapeOf(f) /\ ProvidedIn(f, session' \cup deniable')
        BY <3>4 DEF ShapeOf, Ordered, Adjacent, ProvidedIn
      <3>6. \A i \in DOMAIN f, y \in Statements : Pair(Head1, y) => Pair(f[i], y)
        BY <2>1, <3>4 DEF Pair, Follow, Later
      <3>7. \A q \in Peers, d \in Devices : ~Comes(Head1, q, d)
        BY <2>1 DEF Comes
      <3>8. \A i \in DOMAIN f : f[i].op \notin {"nick", "update"}
        BY <3>4
      <3> QED BY <2>1, <3>2, <3>3, <3>5, <3>6, <3>7, <3>8, ContactKeeps
    <2>3. CASE ~CanEncrypt(p, deniable)
      <3>1. Restart
        BY <1>10, <2>3 DEF SendAwaiting
      <3>2. faulty' \/ (~faulty /\ Head1.op \notin {"nick", "fetch", "update"})
        BY <2>1
      <3> QED BY <2>1, <3>1, <3>2, ContactRestart
    <2> QED BY <2>2, <2>3
  <1> QED
    BY <1>1, <1>2, <1>3, <1>4, <1>5, <1>6, <1>7, <1>8, <1>9, <1>10 DEF Statement

(* The transport is not concerned. *)
LEMMA ContactOther ==
    ASSUME ContactInv, TypeOK',
           UNCHANGED <<contacts, saved, nick, session, deniable, todo>>, faulty' \/ ~faulty
    PROVE  ContactInv'
  BY DEF ContactInv, ContactsOK, Mended, Known, Idle, Head1

(* ContactInv is inductive. *)
LEMMA ContactNext ==
    ASSUME SessionAssumption, ContactInv, [Next]_vars
    PROVE  ContactInv'
  <1>1. TypeOK'
    BY UpdateKnown, SessionTypeNext DEF ContactInv
  <1>2. 0..MaxInbox \subseteq Nat /\ 1..MaxInbox \subseteq Nat
    BY DEF SessionAssumption
  <1>3. ASSUME UNCHANGED vars \/ Transport \/ Lose \/ \E p \in Peers, d \in Devices : PeerWrites(p, d)
        PROVE  ContactInv'
    <2>1. UNCHANGED <<contacts, saved, nick, session, deniable, todo>> /\ (faulty' \/ ~faulty)
      BY <1>3 DEF vars, Transport, Lose, PeerWrites, tables, Fault
    <2> QED BY <1>1, <2>1, ContactOther
  <1> QED BY <1>1, <1>2, <1>3, ContactCommand, ContactStatement DEF Next

(* It holds at first, *)
LEMMA ContactFirst == Init => ContactInv
  <1> SUFFICES ASSUME Init PROVE ContactInv
    OBVIOUS
  <1>1. todo = <<>> /\ nick = {} /\ contacts = saved /\ \A p \in Peers : contacts[p] = None
    BY DEF Init
  <1> QED BY <1>1, SessionTypeInit, Empty DEF ContactInv, ContactsOK, Mended, Known

(* and says more than SessionInv. *)
LEMMA ContactImplies == ContactInv => SessionInv
  <1> SUFFICES ASSUME ContactInv PROVE SessionInv
    OBVIOUS
  <1>1. TypeOK
    BY DEF ContactInv
  <1>2. NicknameIsNew
    <2> SUFFICES ASSUME ~Idle, Head1.op = "nick" PROVE Head1.peer \notin nick
      BY DEF NicknameIsNew
    <2>1. 1 \in DOMAIN todo /\ todo[1] = Head1
      BY Tailed DEF ContactInv, TypeOK, Idle, Head1
    <2> QED BY <2>1 DEF ContactInv, ContactsOK
  <1>3. ContactUsable
    <2> SUFFICES ASSUME Idle, ~faulty, NEW p \in Peers, Known(p)
                 PROVE  /\ p \in nick
                        /\ contacts[p] # {}
                        /\ contacts[p] = saved[p]
                        /\ \E d \in contacts[p] : <<p, d>> \in session \cup deniable
      BY DEF ContactUsable
    <2>1. ~HasUpdate(todo, p)
      BY Empty DEF Idle
    <2>2. p \in nick /\ \E d \in contacts[p] : <<p, d>> \in session \cup deniable
      BY <2>1 DEF ContactInv, Mended
    <2> QED BY <2>2 DEF ContactInv, ContactsOK
  <1> QED BY <1>1, <1>2, <1>3 DEF SessionInv

(* ContactInv holds throughout. *)
LEMMA ContactAlways == Spec => []ContactInv
  <1>1. ContactInv /\ [Next]_vars => ContactInv'
    BY SessionAssumption, ContactNext
  <1> QED BY <1>1, ContactFirst, PTL DEF Spec

(* The client never panics on the UNIQUE constraint of Nicknames, whatever *)
(* statement an earlier add_contact was cut short at; and, until something *)
(* fails, between two commands every contact in memory is the one in the   *)
(* table, resolves by its alias and has a device with a session            *)
(* (add_contact, update_contact, get_new_device_ids, load_contacts).       *)
THEOREM SessionCorrect == Spec => []SessionInv
  BY ContactAlways, ContactImplies, PTL

(***************************************************************************)
(* Key requests and their answers.                                         *)
(***************************************************************************)
InP(p) == {i \in DOMAIN payloads : payloads[i] = KeyRequest(p)}
InI(p) == {i \in DOMAIN inbox : inbox[i] = KeyResponse(p)}
Answers(s, p) == {i \in DOMAIN s : s[i] = Do("response", p)}
InT(p) == Answers(todo, p)

Absent(P, I, T) == P = {} /\ I = {} /\ T = {}

(* At most one place in all. *)
Alone(P, I, T) ==
    /\ \A i, j \in P : i = j
    /\ \A i, j \in I : i = j
    /\ \A i, j \in T : i = j
    /\ P = {} \/ (I = {} /\ T = {})
    /\ I = {} \/ T = {}

NotInFlight(p) == Absent(InP(p), InI(p), InT(p))

(* Until something fails a request in flight is the only one and recorded, *)
(* and none is in flight when one is made or forgotten.                    *)
AnsweredFor(p) ==
    /\ Alone(InP(p), InI(p), InT(p))
    /\ NotInFlight(p) \/ p \in keyRequest \/ (~Idle /\ Head1 = Do("requested", p))
    /\ (\E i \in DOMAIN todo : todo[i].op \in {"request", "forget"} /\ todo[i].peer = p) => NotInFlight(p)

AnsweredInv == ~faulty => \A p \in Peers : AnsweredFor(p)

(* The places of InFlight are those of InP, InI and InT. *)
LEMMA FlightIs == AnsweredInv => ResponseExpected
  <1> SUFFICES ASSUME AnsweredInv, ~faulty, NEW p \in Peers
               PROVE  /\ \A x, y \in InFlight(p) : x = y
                      /\ InFlight(p) # {} => p \in keyRequest \/ (~Idle /\ Head1 = Do("requested", p))
    BY DEF ResponseExpected
  <1>1. AnsweredFor(p)
    BY DEF AnsweredInv
  <1>2. InFlight(p) = ({"payloads"} \X InP(p)) \cup ({"inbox"} \X InI(p)) \cup ({"todo"} \X InT(p))
    BY DEF InFlight, InP, InI, InT, Answers
  <1>3. NotInFlight(p) => InFlight(p) = {}
    BY <1>2 DEF NotInFlight, Absent
  <1>4. ASSUME NEW x \in InFlight(p)
        PROVE  \/ \E i \in InP(p) : x = <<"payloads", i>>
               \/ \E i \in InI(p) : x = <<"inbox", i>>
               \/ \E i \in InT(p) : x = <<"todo", i>>
    BY <1>2
  <1>5. ASSUME NEW x \in InFlight(p), NEW y \in InFlight(p) PROVE x = y
    BY <1>1, <1>4 DEF AnsweredFor, Alone
  <1> QED BY <1>1, <1>3, <1>5 DEF AnsweredFor

(* The statements behind the first one keep the answers they handle.       *)
LEMMA FlightPush ==
    ASSUME NEW s \in Seq(Statements), s # <<>>, NEW f \in Seq(Statements), NEW r, r = f \o Tail(s),
           NEW p, \A i \in DOMAIN f : f[i] # Do("response", p)
    PROVE  /\ \A P, I : Alone(P, I, Answers(s, p)) => Alone(P, I, Answers(r, p))
           /\ \A P, I : Absent(P, I, Answers(s, p)) => Absent(P, I, Answers(r, p))
           /\ Head(s) = Do("response", p) =>
                \A P, I : Alone(P, I, Answers(s, p)) => Absent(P, I, Answers(r, p))
  <1> DEFINE T == Answers(s, p)
             U == Answers(r, p)
  <1>1. PushOf(r, s, f)
    BY Pushed
  <1>2. \A j \in U : j \in DOMAIN r /\ j - Len(f) + 1 \in T /\ j - Len(f) + 1 > 1
    BY <1>1 DEF PushOf, Answers
  <1>3. \A i, j \in U : i - Len(f) + 1 = j - Len(f) + 1 => i = j
    BY <1>1 DEF PushOf, Answers
  <1>4. Head(s) = Do("response", p) => 1 \in T
    BY <1>1 DEF PushOf, Answers
  <1> HIDE DEF T, U
  <1>5. T = {} => U = {}
    BY <1>2
  <1>6. (\A i, j \in T : i = j) => \A i, j \in U : i = j
    BY <1>2, <1>3
  <1>7. (\A i, j \in T : i = j) /\ 1 \in T => U = {}
    BY <1>2
  <1>8. \A P, I : Alone(P, I, T) => Alone(P, I, U)
    BY <1>5, <1>6 DEF Alone
  <1>9. \A P, I : Absent(P, I, T) => Absent(P, I, U)
    BY <1>5 DEF Absent
  <1>10. Head(s) = Do("response", p) => \A P, I : Alone(P, I, T) => Absent(P, I, U)
    BY <1>4, <1>7 DEF Alone, Absent
  <1> QED BY <1>8, <1>9, <1>10 DEF T, U

(* A statement that is not about key requests. *)
LEMMA AnsweredKeeps ==
    ASSUME ContactInv, AnsweredInv, ~Idle, NEW f \in Seq(Statements), todo' = f \o Tail(todo),
           UNCHANGED <<inbox, keyRequest, faulty>>, \A q \in Peers : InP(q)' = InP(q),
           Head1.op # "requested",
           \A i \in DOMAIN f : f[i].op \notin {"request", "response", "forget"}
    PROVE  AnsweredInv'
  <1> SUFFICES ASSUME ~faulty', NEW q \in Peers PROVE AnsweredFor(q)'
    BY DEF AnsweredInv
  <1>1. todo \in Seq(Statements) /\ todo # <<>> /\ AnsweredFor(q) /\ Head1 # Do("requested", q)
    BY DEF ContactInv, TypeOK, Idle, AnsweredInv, Do
  <1>2. InP(q)' = InP(q) /\ InI(q)' = InI(q)
    BY DEF InI
  <1>3. /\ Alone(InP(q), InI(q), InT(q)) => Alone(InP(q), InI(q), InT(q)')
        /\ Absent(InP(q), InI(q), InT(q)) => Absent(InP(q), InI(q), InT(q)')
    <2>1. \A i \in DOMAIN f : f[i] # Do("response", q)
      BY DEF Do
    <2> QED BY <1>1, <2>1, FlightPush DEF InT
  <1>4. PushOf(todo', todo, f)
    BY <1>1, Pushed
  <1>5. Alone(InP(q), InI(q), InT(q))' /\ (NotInFlight(q) => NotInFlight(q)')
    BY <1>1, <1>2, <1>3 DEF AnsweredFor, NotInFlight
  <1>6. NotInFlight(q)' \/ q \in keyRequest'
    BY <1>1, <1>5 DEF AnsweredFor
  <1>7. ASSUME NEW j \in DOMAIN todo', todo'[j].op \in {"request", "forget"}, todo'[j].peer = q
        PROVE  NotInFlight(q)'
    <2>1. PICK i \in DOMAIN todo : todo'[j] = todo[i]
      BY <1>4, <1>7 DEF PushOf
    <2> QED BY <1>1, <1>5, <1>7, <2>1 DEF AnsweredFor
  <1> QED BY <1>5, <1>6, <1>7 DEF AnsweredFor

(* The end of the process forgets the answers not yet handled. *)
LEMMA AnsweredRestart ==
    ASSUME ContactInv, AnsweredInv, todo' = <<>>, UNCHANGED <<payloads, inbox, keyRequest>>,
           faulty' \/ (~faulty /\ (Idle \/ Head1.op # "requested"))
    PROVE  AnsweredInv'
  <1> SUFFICES ASSUME ~faulty', NEW q \in Peers PROVE AnsweredFor(q)'
    BY DEF AnsweredInv
  <1>1. AnsweredFor(q) /\ (Idle \/ Head1 # Do("requested", q))
    BY DEF AnsweredInv, Do
  <1>2. InP(q)' = InP(q) /\ InI(q)' = InI(q) /\ InT(q)' = {} /\ DOMAIN todo' = {}
    BY DEF InP, InI, InT, Answers
  <1>3. Alone(InP(q), InI(q), InT(q))' /\ (NotInFlight(q) => NotInFlight(q)')
    BY <1>1, <1>2 DEF AnsweredFor, NotInFlight, Alone, Absent
  <1> QED BY <1>1, <1>2, <1>3 DEF AnsweredFor

(* A statement whose successors are all still in `todo'. *)
LEMMA AnsweredTail ==
    ASSUME ContactInv, AnsweredInv, ~Idle, todo' = Tail(todo),
           UNCHANGED <<inbox, keyRequest, faulty>>, \A q \in Peers : InP(q)' = InP(q),
           Head1.op # "requested"
    PROVE  AnsweredInv'
  <1>1. todo \in Seq(Statements) /\ todo # <<>>
    BY DEF ContactInv, TypeOK, Idle
  <1>2. todo' = <<>> \o Tail(todo)
    BY <1>1, Tailed
  <1>3. PICK f : f = <<>>
    OBVIOUS
  <1>4. f \in Seq(Statements) /\ DOMAIN f = {}
    BY <1>3, Empty
  <1>5. todo' = f \o Tail(todo)
    BY <1>2, <1>3
  <1> QED BY <1>4, <1>5, AnsweredKeeps

(* What stands at the head of `todo', and behind it. *)
LEMMA AtHead ==
    ASSUME ContactInv, ~Idle
    PROVE  /\ todo \in Seq(Statements) /\ todo # <<>> /\ Head1 = Head(todo) /\ Head1 \in Statements
           /\ Head1.peer \in Peers /\ Tail(todo) \in Seq(Statements)
           /\ todo[1] = Head1 /\ 1 \in DOMAIN todo
           /\ \A i \in DOMAIN todo : i # 1 => Pair(Head1, todo[i])
  <1>1. todo \in Seq(Statements) /\ todo # <<>> /\ Head1 = Head(todo)
    BY DEF ContactInv, TypeOK, Idle, Head1
  <1>2. todo[1] = Head1 /\ 1 \in DOMAIN todo /\ Head1 \in Statements /\ Tail(todo) \in Seq(Statements)
    BY <1>1, Tailed
  <1>3. \A i \in DOMAIN todo : i # 1 => 1 < i
    BY <1>1
  <1>4. \A i \in DOMAIN todo : i # 1 => Pair(Head1, todo[i])
    BY <1>2, <1>3 DEF ContactInv, ShapeOf, Ordered
  <1> QED BY <1>1, <1>2, <1>4, Holds

(* The request for the keys of p becomes a payload. *)
LEMMA AnsweredRequest ==
    ASSUME ContactInv, AnsweredInv, StoreKeyRequest
    PROVE  AnsweredInv'
  <1> DEFINE p == Head1.peer
  <1>1. ~Idle /\ Head1.op = "request" /\ todo' = Tail(todo) /\ payloads' = Append(payloads, KeyRequest(p))
          /\ UNCHANGED <<inbox, keyRequest, faulty>>
    BY DEF StoreKeyRequest, Next1, user, Stored
  <1>2. /\ Tail(todo) \in Seq(Statements) /\ todo[1] = Head1 /\ Head1 \in Statements /\ 1 \in DOMAIN todo
        /\ \A i \in DOMAIN todo : i # 1 => i - 1 \in DOMAIN Tail(todo) /\ Tail(todo)[i - 1] = todo[i]
        /\ \A i \in DOMAIN Tail(todo) : i + 1 \in DOMAIN todo /\ i + 1 > 1 /\ Tail(todo)[i] = todo[i + 1]
        /\ p \in Peers
    BY <1>1, AtHead, Tailed
  <1>3. \A j \in DOMAIN todo' : todo'[j].op \in {"requested", "await"}
    <2>1. \A i \in DOMAIN todo : i > 1 => todo[i].op \in {"requested", "await"}
      BY <1>1, AtHead DEF Pair
    <2> QED BY <1>1, <1>2, <2>1
  <1>4. ~Idle' /\ Head1' = Do("requested", p)
    <2>1. 2 \in DOMAIN todo /\ todo[2] = Do("requested", p)
      BY <1>1, <1>2 DEF ContactInv, ShapeOf, Adjacent
    <2>2. 1 \in DOMAIN todo' /\ todo'[1] = Do("requested", p) /\ todo' \in Seq(Statements)
      BY <1>1, <1>2, <2>1
    <2>3. todo' # <<>> /\ Head(todo') = todo'[1]
      BY <2>2
    <2> QED BY <2>2, <2>3 DEF Idle, Head1
  <1> SUFFICES ASSUME ~faulty', NEW q \in Peers PROVE AnsweredFor(q)'
    BY DEF AnsweredInv
  <1>5. AnsweredFor(q) /\ Head1 # Do("requested", q) /\ (q = p => NotInFlight(q))
    BY <1>1, <1>2 DEF AnsweredInv, AnsweredFor, Do
  <1>6. InI(q)' = InI(q) /\ InT(q)' = {}
    BY <1>1, <1>3 DEF InI, InT, Answers, Do
  <1>7. Len(payloads) \in Nat /\ payloads' # <<>>
          /\ InP(q)' = IF q = p THEN InP(q) \cup {Len(payloads) + 1} ELSE InP(q)
    <2>1. KeyRequest(q) = KeyRequest(p) <=> q = p
      BY DEF KeyRequest
    <2>2. payloads \in Seq({KeyRequest(r) : r \in Peers} \cup Sent)
      BY DEF ContactInv, TypeOK
    <2>3. PICK x, T : x = KeyRequest(p) /\ T = {KeyRequest(r) : r \in Peers} \cup Sent
      OBVIOUS
    <2>4. x \in T
      BY <1>2, <2>3
    <2>5. /\ DOMAIN payloads' = DOMAIN payloads \cup {Len(payloads) + 1} /\ payloads'[Len(payloads) + 1] = x
          /\ \A i \in DOMAIN payloads : payloads'[i] = payloads[i]
          /\ Len(payloads) \in Nat /\ payloads' # <<>>
      BY <1>1, <2>2, <2>3, <2>4
    <2> QED BY <2>1, <2>3, <2>5 DEF InP
  <1>8. Alone(InP(q), InI(q), InT(q))'
    BY <1>5, <1>6, <1>7 DEF AnsweredFor, NotInFlight, Alone, Absent
  <1>9. NotInFlight(q)' \/ q \in keyRequest' \/ q = p
    BY <1>1, <1>5, <1>6, <1>7 DEF AnsweredFor, NotInFlight, Absent
  <1> QED BY <1>3, <1>4, <1>8, <1>9 DEF AnsweredFor

(* The answer is handled, and the request will be forgotten. *)
LEMMA AnsweredResponse ==
    ASSUME ContactInv, AnsweredInv, HandleKeyResponse, SessionAssumption
    PROVE  AnsweredInv'
  <1> DEFINE p == Head1.peer
  <1>1. ~Idle /\ Head1.op = "response" /\ UNCHANGED <<payloads, inbox, keyRequest, faulty>>
    BY DEF HandleKeyResponse, Next1, user
  <1>2. CASE Requested(p)
    <2>1. PICK f : f = <<AddContact(p, {Primary}), Do("forget", p), Do("flush", p)>>
      OBVIOUS
    <2>2. todo' = f \o Tail(todo)
      BY <1>2, <2>1 DEF HandleKeyResponse
    <2>3. p \in Peers /\ Head1 = Do("response", p) /\ todo \in Seq(Statements) /\ todo # <<>>
             /\ Head1 = Head(todo)
      BY <1>1, AtHead, Holds DEF Simple
    <2>4. f \in Seq(Statements)
      <3>1. {AddContact(p, {Primary}), Do("forget", p), Do("flush", p)} \subseteq Statements
        BY <2>3 DEF Statements, AddContact, Do, SessionAssumption
      <3> QED BY <2>1, <3>1
    <2>5. /\ \A i \in DOMAIN f : f[i].peer = p /\ f[i].op \notin {"request", "response"}
      BY <2>1 DEF AddContact, Do
    <2>6. PushOf(todo', todo, f)
      BY <2>2, <2>3, <2>4, Pushed
    <2> HIDE DEF p
    <2>7. \A j \in DOMAIN todo' : todo'[j].op \in {"request", "forget"} => todo'[j].peer = p
      <3>1. \A i \in DOMAIN todo : i > 1 => todo[i].op \notin {"request", "forget"}
        BY <1>1, AtHead DEF Pair, Follow, Later
      <3> QED BY <2>5, <2>6, <3>1 DEF PushOf
    <2> SUFFICES ASSUME ~faulty', NEW q \in Peers PROVE AnsweredFor(q)'
      BY DEF AnsweredInv
    <2>8. AnsweredFor(q) /\ Head1 # Do("requested", q)
      BY <1>1 DEF AnsweredInv, Do
    <2>9. InP(q)' = InP(q) /\ InI(q)' = InI(q)
      BY <1>1 DEF InP, InI
    <2>10. /\ Alone(InP(q), InI(q), InT(q)) => Alone(InP(q), InI(q), InT(q)')
           /\ Absent(InP(q), InI(q), InT(q)) => Absent(InP(q), InI(q), InT(q)')
           /\ q = p => (Alone(InP(q), InI(q), InT(q)) => Absent(InP(q), InI(q), InT(q)'))
      <3>1. \A i \in DOMAIN f : f[i] # Do("response", q)
        BY <2>5 DEF Do
      <3> QED BY <2>2, <2>3, <2>4, <3>1, FlightPush DEF InT
    <2>11. Alone(InP(q), InI(q), InT(q))' /\ (NotInFlight(q) => NotInFlight(q)') /\ (q = p => NotInFlight(q)')
      BY <2>8, <2>9, <2>10 DEF AnsweredFor, NotInFlight
    <2>12. NotInFlight(q)' \/ q \in keyRequest'
      BY <1>1, <2>8, <2>11 DEF AnsweredFor
    <2> QED BY <2>7, <2>11, <2>12 DEF AnsweredFor
  <1>3. CASE ~Requested(p)
    <2>1. todo' = <<>>
      BY <1>3 DEF HandleKeyResponse, Restart
    <2>2. faulty' \/ (~faulty /\ Head1.op # "requested")
      BY <1>1
    <2> QED BY <1>1, <2>1, <2>2, AnsweredRestart
  <1> QED BY <1>2, <1>3

(* The request is recorded, or forgotten. *)
LEMMA AnsweredRow ==
    ASSUME ContactInv, AnsweredInv, StoreRequestSent \/ RemoveKeyRequest
    PROVE  AnsweredInv'
  <1> DEFINE p == Head1.peer
  <1>1. ~Idle /\ todo' = Tail(todo) /\ UNCHANGED <<payloads, inbox, faulty>>
          /\ \/ Head1.op = "requested" /\ keyRequest' = keyRequest \cup {p}
             \/ Head1.op = "forget" /\ keyRequest' = keyRequest \ {p}
    BY DEF StoreRequestSent, RemoveKeyRequest, Next1, user
  <1>2. /\ todo \in Seq(Statements) /\ todo # <<>> /\ todo' = <<>> \o Tail(todo)
        /\ todo[1] = Head1 /\ 1 \in DOMAIN todo /\ Head1 \in Statements /\ p \in Peers
        /\ \A j \in DOMAIN todo' : \E i \in DOMAIN todo : todo'[j] = todo[i]
    <2>1. todo \in Seq(Statements) /\ todo # <<>> /\ todo[1] = Head1 /\ 1 \in DOMAIN todo
            /\ Head1 \in Statements /\ p \in Peers
      BY <1>1, AtHead
    <2> QED BY <1>1, <2>1, Tailed
  <1> SUFFICES ASSUME ~faulty', NEW q \in Peers PROVE AnsweredFor(q)'
    BY DEF AnsweredInv
  <1>3. AnsweredFor(q)
    BY <1>1 DEF AnsweredInv
  <1>4. InP(q)' = InP(q) /\ InI(q)' = InI(q)
    BY <1>1 DEF InP, InI
  <1>5. /\ Alone(InP(q), InI(q), InT(q)) => Alone(InP(q), InI(q), InT(q)')
        /\ Absent(InP(q), InI(q), InT(q)) => Absent(InP(q), InI(q), InT(q)')
    <2>1. PICK f : f = <<>>
      OBVIOUS
    <2>2. f \in Seq(Statements) /\ DOMAIN f = {} /\ todo' = f \o Tail(todo)
      BY <1>2, <2>1, Empty
    <2> QED BY <1>2, <2>2, FlightPush DEF InT
  <1>6. Alone(InP(q), InI(q), InT(q))' /\ (NotInFlight(q) => NotInFlight(q)')
    BY <1>3, <1>4, <1>5 DEF AnsweredFor, NotInFlight
  <1>7. NotInFlight(q)' \/ q \in keyRequest'
    <2>1. CASE Head1.op = "requested"
      BY <1>1, <1>3, <1>6, <2>1 DEF AnsweredFor, Do
    <2>2. CASE Head1.op = "forget"
      <3>1. q = p => NotInFlight(q)
        BY <1>2, <1>3, <2>2 DEF AnsweredFor
      <3>2. Head1 # Do("requested", q)
        BY <2>2 DEF Do
      <3> QED BY <1>1, <1>3, <1>6, <2>2, <3>1, <3>2 DEF AnsweredFor
    <2> QED BY <1>1, <2>1, <2>2
  <1>8. ASSUME NEW j \in DOMAIN todo', todo'[j].op \in {"request", "forget"}, todo'[j].peer = q
        PROVE  NotInFlight(q)'
    BY <1>2, <1>3, <1>6, <1>8 DEF AnsweredFor
  <1> QED BY <1>6, <1>7, <1>8 DEF AnsweredFor

(* The statements of the running command, *)
LEMMA AnsweredStatement ==
    ASSUME SessionAssumption, ContactInv, AnsweredInv, Statement
    PROVE  AnsweredInv'
  <1>0. UNCHANGED payloads => \A q \in Peers : InP(q)' = InP(q)
    BY DEF InP
  <1>1. CASE StoreAwaiting \/ UpdateContact \/ Decrypt
    <2>1. ~Idle /\ Head1.op # "requested" /\ todo' = Tail(todo) /\ UNCHANGED <<payloads, inbox, keyRequest, faulty>>
      BY <1>1 DEF StoreAwaiting, UpdateContact, Decrypt, Next1, user
    <2> QED BY <1>0, <2>1, AnsweredTail
  <1>2. CASE StorePayload
    <2>1. ~Idle /\ Head1.op = "store" /\ UNCHANGED <<inbox, keyRequest, faulty>>
      BY <1>2 DEF StorePayload, Next1, user
    <2>2. CASE todo' = Tail(todo) /\ UNCHANGED payloads
      BY <1>0, <2>1, <2>2, AnsweredTail
    <2>3. ASSUME NEW d \in Head1.devices,
                 payloads' = Append(payloads, Message(Head1.peer, d, Head1.text)),
                 todo' = <<Fan(Head1.peer, Head1.text, Head1.devices \ {d})>> \o Tail(todo)
          PROVE  AnsweredInv'
      <3>1. PICK f : f = <<Fan(Head1.peer, Head1.text, Head1.devices \ {d})>>
        OBVIOUS
      <3>2. f \in Seq(Statements)
        <4>1. Head1.text \in Msgs /\ Head1.devices \in SUBSET Devices /\ Head1.peer \in Peers
          BY <2>1, AtHead, Holds
        <4>2. Fan(Head1.peer, Head1.text, Head1.devices \ {d}) \in Statements
          BY <2>1, <4>1, Makes
        <4> QED BY <3>1, <4>2
      <3>3. \A i \in DOMAIN f : f[i].op = "store"
        BY <3>1 DEF Fan
      <3>4. todo' = f \o Tail(todo)
        BY <2>3, <3>1, Zenon
      <3>5. ASSUME NEW q \in Peers PROVE InP(q)' = InP(q)
        <4>1. PICK x, T : x = Message(Head1.peer, d, Head1.text) /\ T = {KeyRequest(r) : r \in Peers} \cup Sent
          OBVIOUS
        <4>2. payloads \in Seq(T) /\ payloads' = Append(payloads, x)
          BY <2>3, <4>1 DEF ContactInv, TypeOK
        <4>3. x # KeyRequest(q)
          BY <4>1 DEF Message, KeyRequest
        <4>4. /\ DOMAIN payloads' = DOMAIN payloads \cup {Len(payloads) + 1} /\ payloads'[Len(payloads) + 1] = x
              /\ \A i \in DOMAIN payloads : payloads'[i] = payloads[i]
          BY <4>2
        <4> QED BY <4>3, <4>4 DEF InP
      <3>6. \A i \in DOMAIN f : f[i].op \notin {"request", "response", "forget"}
        BY <3>3
      <3> QED BY <2>1, <3>2, <3>4, <3>5, <3>6, AnsweredKeeps
    <2> QED BY <1>2, <2>2, <2>3 DEF StorePayload, Stored
  <1>3. CASE StoreContact
    <2> DEFINE p == Head1.peer
    <2>1. ~Idle /\ Head1.op \in {"contact", "newContact"} /\ UNCHANGED <<payloads, inbox, keyRequest, faulty>>
      BY <1>3 DEF StoreContact, Next1, user
    <2>2. CASE Known(p)
      <3>1. todo' = Tail(todo) /\ Head1.op # "requested"
        BY <1>3, <2>1, <2>2 DEF StoreContact
      <3> QED BY <1>0, <2>1, <3>1, AnsweredTail
    <2>3. CASE ~Known(p)
      <3>1. PICK f : f = IF Head1.op = "contact"
                         THEN <<Do("nick", p), Update(p, Head1.devices)>>
                         ELSE <<Do("nick", p), Do("fetch", p), Update(p, Devices)>>
        OBVIOUS
      <3>2. todo' = f \o Tail(todo)
        BY <1>3, <2>3, <3>1 DEF StoreContact
      <3>3. f \in Seq(Statements)
        <4>1. p \in Peers /\ (Head1.op = "contact" => Head1.devices \in SUBSET Devices)
          BY <2>1, AtHead, Holds DEF Deviced
        <4>2. Do("nick", p) \in Statements /\ Do("fetch", p) \in Statements
                /\ Update(p, Devices) \in Statements
                /\ (Head1.op = "contact" => Update(p, Head1.devices) \in Statements)
          BY <4>1 DEF Statements, Do, Update
        <4> QED BY <3>1, <4>2
      <3>4. \A i \in DOMAIN f : f[i].op \notin {"request", "response", "forget"}
        <4>1. CASE Head1.op = "contact"
          BY <3>1, <4>1 DEF Do, Update
        <4>2. CASE Head1.op # "contact"
          BY <3>1, <4>2 DEF Do, Update
        <4> QED BY <4>1, <4>2
      <3>5. Head1.op # "requested"
        BY <2>1
      <3> QED BY <1>0, <2>1, <3>2, <3>3, <3>4, <3>5, AnsweredKeeps
    <2> QED BY <2>2, <2>3
  <1>4. CASE InsertNickname
    <2>1. ~Idle /\ Head1.op = "nick" /\ UNCHANGED <<payloads, inbox, keyRequest, faulty>>
      BY <1>4 DEF InsertNickname, Next1, user
    <2>2. Head1.peer \notin nick
      BY <2>1, AtHead DEF ContactInv, ContactsOK
    <2>3. todo' = Tail(todo)
      BY <1>4, <2>2 DEF InsertNickname, Resolves
    <2> QED BY <1>0, <2>1, <2>3, AnsweredTail
  <1>5. CASE FetchBundles
    <2>1. ~Idle /\ Head1.op = "fetch" /\ UNCHANGED <<payloads, inbox, keyRequest>>
      BY <1>5 DEF FetchBundles, Next1
    <2>2. CASE todo' = Tail(todo) /\ UNCHANGED faulty
      BY <1>0, <2>1, <2>2, AnsweredTail
    <2>3. CASE Fault /\ Restart
      BY <2>1, <2>3, AnsweredRestart DEF Fault, Restart
    <2> QED BY <1>5, <2>2, <2>3 DEF FetchBundles
  <1>6. CASE ReadAwaiting
    <2> DEFINE p == Head1.peer
    <2>1. ~Idle /\ Head1.op = "flush" /\ UNCHANGED <<payloads, inbox, keyRequest, faulty>>
      BY <1>6 DEF ReadAwaiting, Next1, user, tables
    <2>2. PICK f : f = [i \in DOMAIN awaiting[p] |-> DoMsg("send", p, awaiting[p][i])]
      OBVIOUS
    <2>3. todo' = f \o Tail(todo)
      BY <1>6, <2>2 DEF ReadAwaiting
    <2>4. f \in Seq(Statements)
      <3>1. p \in Peers
        BY <2>1, AtHead
      <3>2. awaiting[p] \in Seq(Msgs)
        BY <3>1 DEF ContactInv, TypeOK
      <3>3. \A i \in DOMAIN awaiting[p] : DoMsg("send", p, awaiting[p][i]) \in Statements
        BY <3>1, <3>2 DEF DoMsg, Statements
      <3> HIDE DEF DoMsg, p
      <3> QED BY <2>2, <3>2, <3>3
    <2>5. \A i \in DOMAIN f : f[i].op \notin {"request", "response", "forget"}
      BY <2>2 DEF DoMsg
    <2>6. Head1.op # "requested"
      BY <2>1
    <2> QED BY <1>0, <2>1, <2>3, <2>4, <2>5, <2>6, AnsweredKeeps
  <1>7. CASE SendAwaiting
    <2> DEFINE p == Head1.peer
    <2>1. ~Idle /\ Head1.op = "send" /\ UNCHANGED <<payloads, inbox, keyRequest, faulty>>
      BY <1>7 DEF SendAwaiting, Next1, user, tables
    <2>2. CASE CanEncrypt(p, deniable)
      <3>1. PICK f : f = <<Fan(p, Head1.text, contacts[p])>>
        OBVIOUS
      <3>2. todo' = f \o Tail(todo)
        BY <1>7, <2>2, <3>1 DEF SendAwaiting
      <3>3. f \in Seq(Statements)
        <4>1. Head1.text \in Msgs /\ p \in Peers
          BY <2>1, AtHead, Holds DEF Texted
        <4>2. contacts[p] \in SUBSET Devices
          BY <2>2, <4>1 DEF ContactInv, TypeOK, CanEncrypt, Known
        <4>3. Fan(p, Head1.text, contacts[p]) \in Statements
          BY <4>1, <4>2, Makes
        <4> QED BY <3>1, <4>3
      <3>4. \A i \in DOMAIN f : f[i].op \notin {"request", "response", "forget"}
        BY <3>1 DEF Fan
      <3>5. Head1.op # "requested"
        BY <2>1
      <3> QED BY <1>0, <2>1, <3>2, <3>3, <3>4, <3>5, AnsweredKeeps
    <2>3. CASE ~CanEncrypt(p, deniable)
      <3>1. todo' = <<>>
        BY <1>7, <2>3 DEF SendAwaiting, Restart
      <3>2. faulty' \/ (~faulty /\ Head1.op # "requested")
        BY <2>1
      <3> QED BY <2>1, <3>1, <3>2, AnsweredRestart
    <2> QED BY <2>2, <2>3
  <1> QED
    BY <1>1, <1>2, <1>3, <1>4, <1>5, <1>6, <1>7, AnsweredRequest, AnsweredResponse, AnsweredRow DEF Statement

(* the envelopes and answers taken off the socket, *)
LEMMA AnsweredRead ==
    ASSUME ContactInv, AnsweredInv, NEW n \in Nat,
           NEW regular \in Seq(Statements), NEW sender \in Seq(Statements), Read(n, regular, sender),
           \A j \in DOMAIN regular : regular[j].op = "regular",
           \A k \in DOMAIN sender : sender[k].op = "contact"
    PROVE  AnsweredInv'
  <1>1. TypeOK /\ inbox \in Seq(Arrivals)
    BY DEF ContactInv, TypeOK, Arrivals
  <1>2. Idle /\ UNCHANGED <<payloads, keyRequest, faulty>>
    BY DEF Read, tables
  <1>3. /\ n \in 0..Len(inbox)
        /\ \A j \in DOMAIN inbox' : n + j \in DOMAIN inbox /\ inbox'[j] = inbox[n + j]
        /\ inbox' \in Seq(Arrivals)
    BY <1>1, ReadDoes
  <1>4. \A k \in 1..n : inbox[k] \in Arrivals /\ k \in DOMAIN inbox
    BY <1>1, <1>3
  <1>5. ASSUME NEW j \in DOMAIN todo'
        PROVE  /\ todo'[j].op \notin {"request", "forget"}
               /\ todo'[j].op = "response" => \E k \in 1..n : j = Len(regular) + k /\ inbox[k] = KeyResponse(todo'[j].peer)
    <2> DEFINE x == todo'[j]
    <2>0. ReadAt(j, x, n, regular, sender)
      BY <1>1, ReadDoes
    <2> HIDE DEF x
    <2>1. ASSUME j \in DOMAIN regular, x = regular[j] PROVE x.op = "regular"
      BY <2>1
    <2>2. ASSUME NEW k \in 1..n, j = Len(regular) + k, x = Handle(inbox[k])
          PROVE  x.op \in {"decrypt", "response"} /\ (x.op = "response" => inbox[k] = KeyResponse(x.peer))
      BY <1>4, <2>2, HandleIs
    <2>3. ASSUME NEW k \in DOMAIN sender, x = sender[k] PROVE x.op = "contact"
      BY <2>3
    <2>4. ASSUME NEW k \in 1..n, x = AddContact(inbox[k].peer, {inbox[k].device}) PROVE x.op = "contact"
      BY <2>4 DEF AddContact
    <2>5. /\ x.op \notin {"request", "forget"}
          /\ x.op = "response" => \E k \in 1..n : j = Len(regular) + k /\ inbox[k] = KeyResponse(x.peer)
      BY <2>0, <2>1, <2>2, <2>3, <2>4 DEF ReadAt
    <2> QED BY <2>5 DEF x
  <1> SUFFICES ASSUME ~faulty', NEW q \in Peers PROVE AnsweredFor(q)'
    BY DEF AnsweredInv
  <1>6. AnsweredFor(q)
    BY <1>2 DEF AnsweredInv
  <1>7. InT(q) = {} /\ InP(q)' = InP(q)
    BY <1>2 DEF InT, Answers, InP, Idle
  <1>8. \A j \in InI(q)' : n + j \in InI(q) /\ j > 0 /\ j \in Nat
    BY <1>3 DEF InI
  <1>9. Len(regular) \in Nat /\ \A j \in InT(q)' : j \in Nat /\ j - Len(regular) \in InI(q) /\ j - Len(regular) <= n
    <2>1. Len(regular) \in Nat
      OBVIOUS
    <2>2. ASSUME NEW j \in InT(q)' PROVE j \in Nat /\ j - Len(regular) \in InI(q) /\ j - Len(regular) <= n
      <3>1. j \in DOMAIN todo' /\ todo'[j].op = "response" /\ todo'[j].peer = q
        BY DEF InT, Answers, Do
      <3>2. PICK k \in 1..n : j = Len(regular) + k /\ inbox[k] = KeyResponse(q)
        BY <1>5, <3>1
      <3> QED BY <1>4, <2>1, <3>2 DEF InI
    <2> QED BY <2>1, <2>2
  <1>10. InI(q) = {} => InI(q)' = {} /\ InT(q)' = {}
    BY <1>8, <1>9
  <1>11. ASSUME \A i, j \in InI(q) : i = j
         PROVE  /\ \A i, j \in InI(q)' : i = j
                /\ \A i, j \in InT(q)' : i = j
                /\ InI(q)' = {} \/ InT(q)' = {}
    <2>1. \A i, j \in InI(q)' : i = j
      <3>1. \A i, j \in InI(q)' : n + i = n + j
        BY <1>8, <1>11
      <3> QED BY <1>8, <3>1
    <2>2. \A i, j \in InT(q)' : i = j
      <3>1. \A i, j \in InT(q)' : i - Len(regular) = j - Len(regular)
        BY <1>9, <1>11
      <3> QED BY <1>9, <3>1
    <2>3. ASSUME NEW i \in InI(q)', NEW j \in InT(q)' PROVE FALSE
      <3>1. n + i = j - Len(regular)
        BY <1>8, <1>9, <1>11
      <3> QED BY <1>8, <1>9, <3>1
    <2> QED BY <2>1, <2>2, <2>3
  <1>12. Alone(InP(q), InI(q), InT(q))' /\ (NotInFlight(q) => NotInFlight(q)')
    BY <1>6, <1>7, <1>10, <1>11 DEF AnsweredFor, Alone, Absent, NotInFlight
  <1>13. NotInFlight(q)' \/ q \in keyRequest'
    BY <1>2, <1>6, <1>12 DEF AnsweredFor
  <1> QED BY <1>5, <1>12, <1>13 DEF AnsweredFor

(* the commands of the user, *)
LEMMA AnsweredCommand ==
    ASSUME SessionAssumption, ContactInv, AnsweredInv
    PROVE  /\ \A p \in Peers, m \in Msgs : Denim(p, m) => AnsweredInv'
           /\ \A p \in Peers : SendNew(p) \/ SendStuck(p) \/ SendFails(p) => AnsweredInv'
           /\ \A p \in Peers, d \in Devices, n \in Nat : Receive(p, d, n) => AnsweredInv'
           /\ \A n \in Nat : ReceiveOther(n) => AnsweredInv'
           /\ Stop => AnsweredInv'
  <1>1. ASSUME NEW p \in Peers, NEW m \in Msgs, Denim(p, m) PROVE AnsweredInv'
    <2>1. /\ Idle /\ UNCHANGED <<payloads, inbox, keyRequest, faulty>>
          /\ \/ todo' = <<Fan(p, m, contacts[p])>>
             \/ todo' = <<DoMsg("await", p, m)>>
             \/ p \notin keyRequest /\ todo' = <<Do("request", p), Do("requested", p), DoMsg("await", p, m)>>
      BY <1>1 DEF Denim, tables, Requested
    <2>2. \A i \in DOMAIN todo' :
             /\ todo'[i].op \notin {"response", "forget"}
             /\ todo'[i].op = "request" => todo'[i].peer = p /\ p \notin keyRequest
      BY <2>1 DEF Fan, Do, DoMsg
    <2> SUFFICES ASSUME ~faulty', NEW q \in Peers PROVE AnsweredFor(q)'
      BY DEF AnsweredInv
    <2>3. AnsweredFor(q)
      BY <2>1 DEF AnsweredInv
    <2>4. InP(q)' = InP(q) /\ InI(q)' = InI(q) /\ InT(q)' = {} /\ InT(q) = {}
      <3>1. InT(q)' = {}
        BY <2>2 DEF InT, Answers, Do
      <3> QED BY <2>1, <3>1 DEF InP, InI, InT, Answers, Idle
    <2>5. Alone(InP(q), InI(q), InT(q))' /\ (NotInFlight(q) => NotInFlight(q)')
      BY <2>3, <2>4 DEF AnsweredFor, NotInFlight
    <2>6. NotInFlight(q)' \/ q \in keyRequest'
      BY <2>1, <2>3, <2>5 DEF AnsweredFor
    <2>7. ASSUME NEW j \in DOMAIN todo', todo'[j].op \in {"request", "forget"}, todo'[j].peer = q
          PROVE  NotInFlight(q)'
      BY <2>1, <2>2, <2>6, <2>7
    <2> QED BY <2>5, <2>6, <2>7 DEF AnsweredFor
  <1>2. ASSUME NEW p \in Peers, SendNew(p) PROVE AnsweredInv'
    <2>1. Idle /\ UNCHANGED <<payloads, inbox, keyRequest, faulty>> /\ todo' = <<AddNewContact(p)>>
      BY <1>2 DEF SendNew, tables, user
    <2>2. \A i \in DOMAIN todo' : todo'[i].op = "newContact"
      BY <2>1 DEF AddNewContact, Do
    <2> SUFFICES ASSUME ~faulty', NEW q \in Peers PROVE AnsweredFor(q)'
      BY DEF AnsweredInv
    <2>3. AnsweredFor(q)
      BY <2>1 DEF AnsweredInv
    <2>4. InP(q)' = InP(q) /\ InI(q)' = InI(q) /\ InT(q)' = InT(q)
      <3>1. InT(q)' = {}
        BY <2>2 DEF InT, Answers, Do
      <3> QED BY <2>1, <3>1 DEF InP, InI, InT, Answers, Idle
    <2>5. Alone(InP(q), InI(q), InT(q))' /\ (NotInFlight(q) => NotInFlight(q)')
      BY <2>3, <2>4 DEF AnsweredFor, NotInFlight
    <2> QED BY <2>1, <2>2, <2>3, <2>5 DEF AnsweredFor
  <1>3. ASSUME NEW p \in Peers, SendStuck(p) PROVE AnsweredInv'
    <2>1. Idle /\ todo' = <<>> /\ UNCHANGED <<payloads, inbox, keyRequest, faulty>>
      BY <1>3 DEF SendStuck, tables, user, Restart
    <2>2. faulty' \/ (~faulty /\ Idle)
      BY <2>1
    <2> QED BY <2>1, <2>2, AnsweredRestart
  <1>4. ASSUME NEW p \in Peers, SendFails(p) PROVE AnsweredInv'
    BY <1>4 DEF SendFails, Fault, AnsweredInv
  <1>5. ASSUME NEW p \in Peers, NEW d \in Devices, NEW n \in Nat, Receive(p, d, n) PROVE AnsweredInv'
    <2> DEFINE regular == <<[op |-> "regular", peer |-> p, devices |-> {d}]>>
               sender == <<AddContact(p, {d})>>
    <2>1. regular \in Seq(Statements) /\ sender \in Seq(Statements)
      BY DEF Statements, AddContact
    <2>2. \A j \in DOMAIN regular : regular[j].op = "regular"
      OBVIOUS
    <2>3. \A k \in DOMAIN sender : sender[k].op = "contact"
      BY DEF AddContact
    <2>4. Read(n, regular, sender)
      BY <1>5 DEF Receive
    <2> HIDE DEF regular, sender
    <2> QED BY <2>1, <2>2, <2>3, <2>4, AnsweredRead
  <1>6. ASSUME NEW n \in Nat, ReceiveOther(n) PROVE AnsweredInv'
    <2>1. PICK f : f = <<>>
      OBVIOUS
    <2>2. f \in Seq(Statements) /\ DOMAIN f = {} /\ Read(n, f, f)
      BY <1>6, <2>1 DEF ReceiveOther
    <2> QED BY <2>2, AnsweredRead
  <1>7. ASSUME Stop PROVE AnsweredInv'
    <2>1. todo' = <<>> /\ UNCHANGED <<payloads, inbox, keyRequest>>
      BY <1>7 DEF Stop, tables, Restart
    <2>2. faulty' \/ (~faulty /\ Idle)
      BY <1>7 DEF Stop, Fault
    <2> QED BY <2>1, <2>2, AnsweredRestart
  <1> QED BY <1>1, <1>2, <1>3, <1>4, <1>5, <1>6, <1>7

(* and the server, which answers a request. *)
LEMMA AnsweredTransport ==
    ASSUME ContactInv, AnsweredInv, Transport
    PROVE  AnsweredInv'
  <1> DEFINE T == {KeyRequest(r) : r \in Peers} \cup Sent
             x == Head(payloads)
  <1>1. payloads \in Seq(T) /\ payloads # <<>> /\ inbox \in Seq(Arrivals)
          /\ payloads' = Tail(payloads) /\ UNCHANGED <<todo, keyRequest, faulty>>
    BY DEF ContactInv, TypeOK, Transport, Arrivals
  <1>2. x \in T /\ 1 \in DOMAIN payloads /\ payloads[1] = x
          /\ \A i \in DOMAIN payloads' : i + 1 \in DOMAIN payloads /\ i + 1 > 1 /\ payloads'[i] = payloads[i + 1] /\ i \in Nat
    <2> HIDE DEF T
    <2> QED BY <1>1, Tailed
  <1>3. x.kind = "request" => x.peer \in Peers /\ x = KeyRequest(x.peer)
    BY <1>2 DEF KeyRequest, Sent, Message
  <1>4. PICK y : y = KeyResponse(x.peer)
    OBVIOUS
  <1>5. inbox' = IF x.kind = "request" THEN Append(inbox, y) ELSE inbox
    BY <1>4 DEF Transport
  <1>6. x.kind = "request" => y \in Arrivals
    BY <1>3, <1>4 DEF Arrivals
  <1> HIDE DEF x, T
  <1> SUFFICES ASSUME ~faulty', NEW q \in Peers PROVE AnsweredFor(q)'
    BY DEF AnsweredInv
  <1>7. AnsweredFor(q)
    BY <1>1 DEF AnsweredInv
  <1>8. \A i \in InP(q)' : i + 1 \in InP(q) /\ i + 1 > 1 /\ i \in Nat
    BY <1>2 DEF InP
  <1>9. InT(q)' = InT(q)
    BY <1>1 DEF InT
  <1>10. CASE x.kind = "request" /\ x.peer = q
    <2>1. 1 \in InP(q)
      BY <1>2, <1>3, <1>10 DEF InP
    <2>2. InP(q)' = {} /\ InI(q) = {} /\ InT(q) = {}
      BY <1>7, <1>8, <2>1 DEF AnsweredFor, Alone
    <2>3. \A i, j \in InI(q)' : i = j
      <3>1. inbox' = Append(inbox, y) /\ y \in Arrivals
        BY <1>5, <1>6, <1>10
      <3>2. \A i \in DOMAIN inbox' : i = Len(inbox) + 1 \/ (i \in DOMAIN inbox /\ inbox'[i] = inbox[i])
        BY <1>1, <3>1
      <3> QED BY <2>2, <3>2 DEF InI
    <2>4. Alone(InP(q), InI(q), InT(q))'
      BY <1>9, <2>2, <2>3 DEF Alone
    <2>5. ~NotInFlight(q)
      BY <2>1 DEF NotInFlight, Absent
    <2> QED BY <1>1, <1>7, <2>4, <2>5 DEF AnsweredFor, Idle, Head1
  <1>11. CASE ~(x.kind = "request" /\ x.peer = q)
    <2>1. InI(q)' = InI(q)
      <3>1. CASE x.kind = "request"
        <4>1. y # KeyResponse(q)
          BY <1>4, <1>11, <3>1 DEF KeyResponse
        <4>2. inbox' = Append(inbox, y) /\ y \in Arrivals
          BY <1>5, <1>6, <3>1
        <4>3. /\ DOMAIN inbox' = DOMAIN inbox \cup {Len(inbox) + 1} /\ inbox'[Len(inbox) + 1] = y
              /\ \A i \in DOMAIN inbox : inbox'[i] = inbox[i]
          BY <1>1, <4>2
        <4> QED BY <4>1, <4>3 DEF InI
      <3>2. CASE x.kind # "request"
        BY <1>5, <3>2 DEF InI
      <3> QED BY <3>1, <3>2
    <2>2. (\A i, j \in InP(q) : i = j) => \A i, j \in InP(q)' : i = j
      <3> SUFFICES ASSUME \A i, j \in InP(q) : i = j, NEW i \in InP(q)', NEW j \in InP(q)' PROVE i = j
        OBVIOUS
      <3>1. i + 1 = j + 1
        BY <1>8
      <3> QED BY <1>8, <3>1
    <2>3. InP(q) = {} => InP(q)' = {}
      BY <1>8
    <2>4. Alone(InP(q), InI(q), InT(q))' /\ (NotInFlight(q) => NotInFlight(q)')
      BY <1>7, <1>9, <2>1, <2>2, <2>3 DEF AnsweredFor, Alone, Absent, NotInFlight
    <2> QED BY <1>1, <1>7, <2>4 DEF AnsweredFor, Idle, Head1
  <1> QED BY <1>10, <1>11

(* AnsweredInv is inductive, given ContactInv. *)
LEMMA AnsweredNext ==
    ASSUME SessionAssumption, ContactInv, AnsweredInv, [Next]_vars
    PROVE  AnsweredInv'
  <1>1. 0..MaxInbox \subseteq Nat /\ 1..MaxInbox \subseteq Nat
    BY DEF SessionAssumption
  <1>2. ASSUME Lose PROVE AnsweredInv'
    BY <1>2 DEF Lose, Fault, AnsweredInv
  <1>3. ASSUME UNCHANGED vars \/ \E p \in Peers, d \in Devices : PeerWrites(p, d) PROVE AnsweredInv'
    <2>1. UNCHANGED <<payloads, todo, keyRequest, faulty>>
      BY <1>3 DEF vars, PeerWrites, tables
    <2>2. ASSUME NEW q \in Peers PROVE InI(q)' = InI(q)
      <3>1. CASE UNCHANGED vars
        BY <3>1 DEF vars, InI
      <3>2. ASSUME NEW p \in Peers, NEW d \in Devices, PeerWrites(p, d) PROVE InI(q)' = InI(q)
        <4>1. inbox \in Seq(Arrivals)
          BY DEF ContactInv, TypeOK, Arrivals
        <4>2. PICK y : y = Envelope(p, d)
          OBVIOUS
        <4>3. y \in Arrivals /\ y # KeyResponse(q) /\ inbox' = Append(inbox, y)
          BY <3>2, <4>2 DEF Arrivals, Envelope, KeyResponse, PeerWrites
        <4>4. /\ DOMAIN inbox' = DOMAIN inbox \cup {Len(inbox) + 1} /\ inbox'[Len(inbox) + 1] = y
              /\ \A i \in DOMAIN inbox : inbox'[i] = inbox[i]
          BY <4>1, <4>3
        <4> QED BY <4>3, <4>4 DEF InI
      <3> QED BY <1>3, <3>1, <3>2
    <2> SUFFICES ASSUME ~faulty', NEW q \in Peers PROVE AnsweredFor(q)'
      BY DEF AnsweredInv
    <2>3. InP(q)' = InP(q) /\ InT(q)' = InT(q) /\ InI(q)' = InI(q)
      BY <2>1, <2>2 DEF InP, InT
    <2> QED BY <2>1, <2>3 DEF AnsweredInv, AnsweredFor, NotInFlight, Idle, Head1
  <1> QED BY <1>1, <1>2, <1>3, AnsweredCommand, AnsweredStatement, AnsweredTransport DEF Next

(* No request is in flight at first. *)
LEMMA AnsweredFirst == Init => AnsweredInv
  <1> SUFFICES ASSUME Init, NEW p \in Peers PROVE AnsweredFor(p)
    BY DEF AnsweredInv
  <1>1. InP(p) = {} /\ InI(p) = {} /\ InT(p) = {} /\ DOMAIN todo = {}
    BY DEF Init, InP, InI, InT, Answers
  <1> QED BY <1>1 DEF AnsweredFor, Alone, Absent, NotInFlight

(* Until something fails, the row in DeniableKeyRequestsSent that the      *)
(* handler of a KeyResponse unwraps is there whenever one is on its way,   *)
(* and no second request for the same account is                           *)
(* (add_deniable_contact_and_queue_message, receive_message).              *)
THEOREM ResponseCorrect == Spec => []ResponseExpected
  <1>1. ContactInv /\ AnsweredInv /\ [Next]_vars => AnsweredInv'
    BY SessionAssumption, AnsweredNext
  <1> QED BY <1>1, AnsweredFirst, ContactAlways, FlightIs, PTL DEF Spec

(***************************************************************************)
(* Every message is stored once.                                           *)
(***************************************************************************)
Texts == {"send", "await", "store"}
TextSent(m) == \E k \in DOMAIN sent : sent[k].text = m
Waits(p, m) == \E i \in DOMAIN awaiting[p] : awaiting[p][i] = m
HasDevice(p) == p \in nick /\ Known(p) /\ <<p, Primary>> \in deniable

(* What holds of a statement x of the running command.  A message queued   *)
(* for encryption has not been stored before the keys are there, and once  *)
(* they are no more keys are asked for.                                    *)
Timely(x) ==
    /\ x.op \in Texts => x.text \in typed
    /\ x.op \in {"send", "await"} => ~TextSent(x.text)
    /\ x.op = "await" => \A p \in Peers : ~Waits(p, x.text)
    /\ x.op = "send" => Waits(x.peer, x.text) /\ x.peer \notin keyRequest
    /\ x.op = "store" =>
         /\ \A d \in x.devices, k \in DOMAIN sent : sent[k] # Message(x.peer, d, x.text)
         /\ \A p \in Peers : Waits(p, x.text) =>
              p = x.peer /\ p \notin keyRequest /\ (x.devices # {} => HasDevice(p))
    /\ x.op \in {"flush", "request", "requested"} =>
         \A m \in Msgs : Waits(x.peer, m) => ~TextSent(m)

(* No two statements are about the same message. *)
OneEach(t) ==
    \A i, j \in DOMAIN t : t[i].op \in Texts /\ t[j].op \in Texts /\ t[i].text = t[j].text => i = j

(* The messages that wait for p are read when its row is gone from rows.   *)
Forgets(t, rows) ==
    \A i \in DOMAIN t : t[i].op = "flush" =>
      t[i].peer \notin rows \/ \E j \in DOMAIN t : j < i /\ t[j] = Do("forget", t[i].peer)

OnceTodo == (\A i \in DOMAIN todo : Timely(todo[i])) /\ OneEach(todo) /\ Forgets(todo, keyRequest)

OnceData ==
    /\ \A p \in Peers : \A i \in DOMAIN awaiting[p] : awaiting[p][i] \in typed
    /\ \A k \in DOMAIN sent : sent[k].text \in typed
    /\ \A p, q \in Peers : \A i \in DOMAIN awaiting[p], j \in DOMAIN awaiting[q] :
         awaiting[p][i] = awaiting[q][j] => p = q /\ i = j
    /\ SentAtMostOnce
    /\ \A p \in Peers, m \in Msgs : Waits(p, m) /\ TextSent(m) => HasDevice(p) /\ p \notin keyRequest

OnceInv == OnceTodo /\ OnceData

(* Once the keys of p are there nothing takes them away. *)
LEMMA DeviceStays ==
    ASSUME nick \subseteq nick', deniable \subseteq deniable',
           \A p \in Peers : contacts[p] # None => contacts'[p] # None
    PROVE  \A p \in Peers : HasDevice(p) => HasDevice(p)'
  BY DEF HasDevice, Known

(* What holds of a statement holds until a message is queued or stored. *)
LEMMA TimelyStays ==
    ASSUME UNCHANGED <<awaiting, typed, sent>>, keyRequest' \subseteq keyRequest,
           \A p \in Peers : HasDevice(p) => HasDevice(p)'
    PROVE  \A x : Timely(x) => Timely(x)'
  <1>1. \A m : TextSent(m) <=> TextSent(m)'
    BY DEF TextSent
  <1>2. \A p, m : Waits(p, m) <=> Waits(p, m)'
    BY DEF Waits
  <1>3. ASSUME NEW x, Timely(x), x.op = "store"
        PROVE  /\ \A d \in x.devices, k \in DOMAIN sent' : sent'[k] # Message(x.peer, d, x.text)
               /\ \A p \in Peers : Waits(p, x.text)' =>
                    p = x.peer /\ p \notin keyRequest' /\ (x.devices # {} => HasDevice(p)')
    BY <1>2, <1>3 DEF Timely
  <1>4. ASSUME NEW x, Timely(x)
        PROVE  /\ x.op \in Texts => x.text \in typed'
               /\ x.op \in {"send", "await"} => ~TextSent(x.text)'
               /\ x.op = "await" => \A p \in Peers : ~Waits(p, x.text)'
               /\ x.op = "send" => Waits(x.peer, x.text)' /\ x.peer \notin keyRequest'
               /\ x.op \in {"flush", "request", "requested"} =>
                    \A m \in Msgs : Waits(x.peer, m)' => ~TextSent(m)'
    BY <1>1, <1>2, <1>4 DEF Timely
  <1> QED BY <1>3, <1>4 DEF Timely

(* So does what holds of the tables. *)
LEMMA DataStays ==
    ASSUME OnceData, UNCHANGED <<awaiting, typed, sent>>, keyRequest' \subseteq keyRequest,
           \A p \in Peers : HasDevice(p) => HasDevice(p)'
    PROVE  OnceData'
  <1>1. \A m : TextSent(m) <=> TextSent(m)'
    BY DEF TextSent
  <1>2. \A p, m : Waits(p, m) <=> Waits(p, m)'
    BY DEF Waits
  <1>3. SentAtMostOnce'
    BY DEF OnceData, SentAtMostOnce
  <1>4. \A p \in Peers, m \in Msgs : Waits(p, m)' /\ TextSent(m)' => HasDevice(p)' /\ p \notin keyRequest'
    BY <1>1, <1>2 DEF OnceData
  <1> QED BY <1>3, <1>4 DEF OnceData

(* The new statements are about messages of their own. *)
LEMMA OneEachPush ==
    ASSUME NEW s \in Seq(Statements), s # <<>>, NEW f \in Seq(Statements), OneEach(s), OneEach(f),
           \A i \in DOMAIN f, j \in DOMAIN s :
             j # 1 /\ f[i].op \in Texts /\ s[j].op \in Texts => f[i].text # s[j].text
    PROVE  OneEach(f \o Tail(s))
  <1> DEFINE r == f \o Tail(s)
  <1>1. PushOf(r, s, f)
    BY Pushed
  <1> HIDE DEF r
  <1>2. ASSUME NEW i \in DOMAIN r, NEW j \in DOMAIN r,
               r[i].op \in Texts, r[j].op \in Texts, r[i].text = r[j].text
        PROVE  i = j
    <2>1. CASE i \in DOMAIN f /\ j \in DOMAIN f
      BY <1>1, <1>2, <2>1 DEF PushOf, OneEach
    <2>2. CASE i \in DOMAIN f /\ j \notin DOMAIN f
      <3>1. PICK k \in DOMAIN s : k > 1 /\ r[j] = s[k]
        BY <1>1, <2>2 DEF PushOf
      <3>2. k # 1
        BY <3>1, <1>1 DEF PushOf
      <3> QED BY <1>1, <1>2, <2>2, <3>1, <3>2 DEF PushOf
    <2>3. CASE i \notin DOMAIN f /\ j \in DOMAIN f
      <3>1. PICK k \in DOMAIN s : k > 1 /\ r[i] = s[k]
        BY <1>1, <2>3 DEF PushOf
      <3>2. k # 1
        BY <3>1, <1>1 DEF PushOf
      <3> QED BY <1>1, <1>2, <2>3, <3>1, <3>2 DEF PushOf
    <2>4. CASE i \notin DOMAIN f /\ j \notin DOMAIN f
      <3>1. /\ j - Len(f) + 1 \in DOMAIN s /\ r[j] = s[j - Len(f) + 1]
            /\ i - Len(f) + 1 \in DOMAIN s /\ r[i] = s[i - Len(f) + 1]
        BY <1>1, <2>4 DEF PushOf
      <3>2. i - Len(f) + 1 = j - Len(f) + 1
        BY <1>2, <3>1 DEF OneEach
      <3> QED BY <1>1, <3>2 DEF PushOf
    <2> QED BY <2>1, <2>2, <2>3, <2>4
  <1>3. OneEach(r)
    BY <1>2 DEF OneEach
  <1> QED BY <1>3 DEF r

(* The row is removed before the messages are read. *)
LEMMA ForgetsPush ==
    ASSUME NEW s \in Seq(Statements), s # <<>>, NEW f \in Seq(Statements), NEW R, NEW Q,
           Forgets(s, R), Forgets(f, Q), Q \subseteq R,
           \A p \in Peers : Head(s) = Do("forget", p) => p \notin Q
    PROVE  Forgets(f \o Tail(s), Q)
  <1> DEFINE r == f \o Tail(s)
  <1>1. PushOf(r, s, f)
    BY Pushed
  <1>2. \A i \in DOMAIN s : s[i].peer \in Peers
    <2>1. \A i \in DOMAIN s : s[i] \in Statements
      OBVIOUS
    <2> QED BY <2>1, Holds
  <1> HIDE DEF r
  <1>3. ASSUME NEW i \in DOMAIN r, r[i].op = "flush", r[i].peer \in Q
        PROVE  \E j \in DOMAIN r : j < i /\ r[j] = Do("forget", r[i].peer)
    <2>1. CASE i \in DOMAIN f
      BY <1>1, <1>3, <2>1 DEF PushOf, Forgets
    <2>2. CASE i \notin DOMAIN f
      <3> DEFINE k == i - Len(f) + 1
      <3>1. k \in DOMAIN s /\ k > 1 /\ r[i] = s[k] /\ k \in Nat /\ i = Len(f) + k - 1 /\ Len(f) \in Nat
        BY <1>1, <2>2 DEF PushOf
      <3> HIDE DEF k
      <3>2. PICK j \in DOMAIN s : j < k /\ s[j] = Do("forget", s[k].peer)
        BY <1>3, <3>1 DEF Forgets
      <3>3. j # 1
        BY <1>1, <1>2, <1>3, <3>1, <3>2 DEF PushOf
      <3>4. Len(f) + j - 1 \in DOMAIN r /\ r[Len(f) + j - 1] = s[j]
        BY <1>1, <3>3 DEF PushOf
      <3>5. Len(f) + j - 1 < i
        BY <1>1, <3>1, <3>2 DEF PushOf
      <3> QED BY <3>1, <3>2, <3>4, <3>5
    <2> QED BY <2>1, <2>2
  <1>4. Forgets(r, Q)
    BY <1>3 DEF Forgets
  <1> QED BY <1>4 DEF r

(* A statement that stores and queues nothing is replaced by statements f. *)
LEMMA OncePush ==
    ASSUME ContactInv, OnceInv, ~Idle, NEW f \in Seq(Statements), todo' = f \o Tail(todo),
           UNCHANGED <<awaiting, typed, sent>>, keyRequest' \subseteq keyRequest,
           \A p \in Peers : HasDevice(p) => HasDevice(p)',
           \A p \in Peers : Head1 = Do("forget", p) => p \notin keyRequest',
           \A i \in DOMAIN f : Timely(f[i]),
           OneEach(f),
           \A i \in DOMAIN f, j \in DOMAIN todo :
             j # 1 /\ f[i].op \in Texts /\ todo[j].op \in Texts => f[i].text # todo[j].text,
           Forgets(f, keyRequest')
    PROVE  OnceInv'
  <1>1. todo \in Seq(Statements) /\ todo # <<>> /\ Head1 = Head(todo)
    BY AtHead
  <1>2. PushOf(todo', todo, f)
    BY <1>1, Pushed
  <1>3. \A x : Timely(x) => Timely(x)'
    BY TimelyStays
  <1>4. ASSUME NEW j \in DOMAIN todo' PROVE Timely(todo[j])'
    <2>1. PICK x : x = todo'[j]
      OBVIOUS
    <2>2. Timely(x)
      BY <1>2, <2>1 DEF PushOf, OnceInv, OnceTodo
    <2>3. Timely(x)'
      BY <1>3, <2>2
    <2> QED BY <2>1, <2>3 DEF Timely
  <1>5. OneEach(todo')
    BY <1>1, OneEachPush DEF OnceInv, OnceTodo
  <1>6. Forgets(todo', keyRequest')
    BY <1>1, ForgetsPush DEF OnceInv, OnceTodo
  <1>7. OnceData'
    BY DataStays DEF OnceInv
  <1> QED BY <1>4, <1>5, <1>6, <1>7 DEF OnceInv, OnceTodo

(* None of the statements f is about a message. *)
LEMMA OnceKeeps ==
    ASSUME ContactInv, OnceInv, ~Idle, NEW f \in Seq(Statements), todo' = f \o Tail(todo),
           UNCHANGED <<awaiting, typed, sent>>, keyRequest' \subseteq keyRequest,
           \A p \in Peers : HasDevice(p) => HasDevice(p)',
           \A p \in Peers : Head1 = Do("forget", p) => p \notin keyRequest',
           \A i \in DOMAIN f : f[i].op \notin Texts,
           \A i \in DOMAIN f : Timely(f[i]),
           Forgets(f, keyRequest')
    PROVE  OnceInv'
  <1>1. OneEach(f)
    BY DEF OneEach
  <1> QED BY <1>1, OncePush

(* A statement is done and leaves no other. *)
LEMMA OnceTail ==
    ASSUME ContactInv, OnceInv, ~Idle, todo' = Tail(todo),
           UNCHANGED <<awaiting, typed, sent>>, keyRequest' \subseteq keyRequest,
           \A p \in Peers : HasDevice(p) => HasDevice(p)',
           \A p \in Peers : Head1 = Do("forget", p) => p \notin keyRequest'
    PROVE  OnceInv'
  <1>1. todo' = <<>> \o Tail(todo)
    BY AtHead, Tailed
  <1>2. PICK f : f = <<>>
    OBVIOUS
  <1>3. f \in Seq(Statements) /\ DOMAIN f = {} /\ todo' = f \o Tail(todo) /\ Forgets(f, keyRequest')
    BY <1>1, <1>2, Empty DEF Forgets
  <1> QED BY <1>3, OnceKeeps

(* A command that neither stores nor queues a message begins, or ends. *)
LEMMA OnceQuiet ==
    ASSUME OnceInv, UNCHANGED <<awaiting, typed, sent>>, keyRequest' \subseteq keyRequest,
           \A p \in Peers : HasDevice(p) => HasDevice(p)',
           \A i \in DOMAIN todo' : todo'[i].op \notin Texts \cup {"flush", "request", "requested"}
    PROVE  OnceInv'
  <1>1. \A i \in DOMAIN todo' : Timely(todo[i])'
    BY DEF Timely, Texts
  <1>2. OneEach(todo') /\ Forgets(todo', keyRequest')
    BY DEF OneEach, Forgets
  <1> QED BY <1>1, <1>2, DataStays DEF OnceInv, OnceTodo

(* "denim:p:m": a new message. *)
LEMMA OnceDenim ==
    ASSUME Devices = {Primary}, ContactInv, OnceInv, NEW p \in Peers, NEW m \in Msgs, Denim(p, m)
    PROVE  OnceInv'
  <1>1. /\ m \notin typed /\ typed' = typed \cup {m}
        /\ UNCHANGED <<contacts, nick, deniable, keyRequest, awaiting, sent>>
        /\ \/ todo' = <<Fan(p, m, contacts[p])>>
           \/ todo' = <<DoMsg("await", p, m)>>
           \/ ~CanEncrypt(p, deniable) /\ todo' = <<Do("request", p), Do("requested", p), DoMsg("await", p, m)>>
    BY DEF Denim, tables
  <1>2. ~TextSent(m) /\ \A q \in Peers : ~Waits(q, m)
    BY <1>1 DEF OnceInv, OnceData, TextSent, Waits
  <1>3. \A x : TextSent(x) <=> TextSent(x)'
    BY <1>1 DEF TextSent
  <1>4. \A q, x : Waits(q, x) <=> Waits(q, x)'
    BY <1>1 DEF Waits
  <1>5. \A q \in Peers : HasDevice(q) => HasDevice(q)'
    BY <1>1, DeviceStays
  <1>6. OnceData'
    <2>1. SentAtMostOnce'
      BY <1>1 DEF OnceInv, OnceData, SentAtMostOnce
    <2>2. \A q \in Peers, x \in Msgs : Waits(q, x)' /\ TextSent(x)' => HasDevice(q)' /\ q \notin keyRequest'
      BY <1>1, <1>3, <1>4, <1>5 DEF OnceInv, OnceData
    <2> QED BY <1>1, <2>1, <2>2 DEF OnceInv, OnceData
  <1>7. ~CanEncrypt(p, deniable) => \A x \in Msgs : Waits(p, x) => ~TextSent(x)
    <2>1. HasDevice(p) => CanEncrypt(p, deniable)
      <3>1. contacts[p] \in Entries
        BY DEF ContactInv, TypeOK, Entries
      <3> QED BY <3>1 DEF HasDevice, CanEncrypt, Resolves, Known, Loads, Entries
    <2> QED BY <2>1 DEF OnceInv, OnceData
  <1>8. ASSUME NEW i \in DOMAIN todo' PROVE Timely(todo[i])'
    <2>1. CASE todo'[i] = Fan(p, m, contacts[p])
      <3>1. \A d : \A k \in DOMAIN sent : sent[k] # Message(p, d, m)
        BY <1>2 DEF TextSent, Message
      <3>2. /\ todo'[i].op = "store" /\ todo'[i].peer = p /\ todo'[i].text = m
        BY <2>1 DEF Fan
      <3>3. \A d : \A k \in DOMAIN sent' : sent'[k] # Message(p, d, m)
        BY <1>1, <1>2 DEF TextSent, Message
      <3>4. \A q \in Peers : ~Waits(q, m)'
        BY <1>2, <1>4
      <3>5. m \in typed'
        BY <1>1
      <3>6. PICK x : x = todo'[i]
        OBVIOUS
      <3>7. x.op = "store" /\ x.peer = p /\ x.text = m
        BY <3>2, <3>6
      <3>8. /\ \A q \in Peers : ~Waits(q, x.text)'
            /\ \A d : \A k \in DOMAIN sent' : sent'[k] # Message(x.peer, d, x.text)
            /\ x.text \in typed'
        BY <3>3, <3>4, <3>5, <3>7 DEF Waits
      <3>9. Timely(x)'
        BY <3>7, <3>8 DEF Timely, Texts
      <3> QED BY <3>6, <3>9 DEF Timely
    <2>2. CASE todo'[i] = DoMsg("await", p, m)
      <3>1. /\ todo'[i].op = "await" /\ todo'[i].peer = p /\ todo'[i].text = m
        BY <2>2 DEF DoMsg
      <3> QED BY <1>1, <1>2, <1>3, <1>4, <3>1 DEF Timely, Texts
    <2>3. CASE todo'[i].op \in {"request", "requested"} /\ todo'[i].peer = p /\ ~CanEncrypt(p, deniable)
      <3>1. \A x \in Msgs : Waits(p, x)' => ~TextSent(x)'
        BY <1>3, <1>4, <1>7, <2>3
      <3> QED BY <2>3, <3>1 DEF Timely, Texts
    <2> QED BY <1>1, <2>1, <2>2, <2>3 DEF Do
  <1>9. OneEach(todo')
    BY <1>1 DEF OneEach, Texts, Fan, Do, DoMsg
  <1>10. Forgets(todo', keyRequest')
    BY <1>1 DEF Forgets, Fan, Do, DoMsg
  <1> QED BY <1>6, <1>8, <1>9, <1>10 DEF OnceInv, OnceTodo

(* The message is queued for encryption. *)
LEMMA OnceAwait ==
    ASSUME ContactInv, OnceInv, StoreAwaiting
    PROVE  OnceInv'
  <1> DEFINE p == Head1.peer
             m == Head1.text
  <1>1. /\ ~Idle /\ Head1.op = "await" /\ todo' = Tail(todo)
        /\ awaiting' = [awaiting EXCEPT ![p] = Append(@, m)]
        /\ UNCHANGED <<contacts, nick, deniable, keyRequest, typed, sent>>
    BY DEF StoreAwaiting, Next1, user
  <1>2. p \in Peers /\ m \in Msgs /\ Timely(Head1) /\ awaiting \in [Peers -> Seq(Msgs)]
    BY <1>1, AtHead, Holds DEF ContactInv, TypeOK, OnceInv, OnceTodo, Texted
  <1>3. DOMAIN todo' = {}
    <2>1. \A i \in DOMAIN todo : i = 1
      BY <1>1, AtHead DEF Pair
    <2>2. todo \in Seq(Statements) /\ todo # <<>>
      BY <1>1, AtHead
    <2> QED BY <1>1, <2>1, <2>2, Tailed
  <1>4. m \in typed /\ ~TextSent(m) /\ \A q \in Peers : ~Waits(q, m)
    BY <1>1, <1>2 DEF Timely, Texts
  <1>5. /\ \A q \in Peers : q # p => awaiting'[q] = awaiting[q]
        /\ DOMAIN awaiting'[p] = DOMAIN awaiting[p] \cup {Len(awaiting[p]) + 1}
        /\ Len(awaiting[p]) + 1 \notin DOMAIN awaiting[p]
        /\ awaiting'[p][Len(awaiting[p]) + 1] = m
        /\ \A i \in DOMAIN awaiting[p] : awaiting'[p][i] = awaiting[p][i]
    <2>1. awaiting'[p] = Append(awaiting[p], m) /\ awaiting[p] \in Seq(Msgs)
      BY <1>1, <1>2
    <2>2. \A q \in Peers : q # p => awaiting'[q] = awaiting[q]
      BY <1>1, <1>2
    <2> HIDE DEF p, m
    <2> QED BY <1>2, <2>1, <2>2
  <1> HIDE DEF p, m
  <1>6. ASSUME NEW q \in Peers, NEW i \in DOMAIN awaiting'[q]
        PROVE  \/ i \in DOMAIN awaiting[q] /\ awaiting'[q][i] = awaiting[q][i]
               \/ q = p /\ i = Len(awaiting[p]) + 1 /\ awaiting'[q][i] = m
    BY <1>5
  <1>7. ASSUME NEW q \in Peers, NEW i \in DOMAIN awaiting[q] PROVE awaiting[q][i] \in typed /\ awaiting[q][i] # m
    BY <1>4 DEF OnceInv, OnceData, Waits
  <1>8. OnceData'
    <2>1. \A q \in Peers : \A i \in DOMAIN awaiting'[q] : awaiting'[q][i] \in typed'
      BY <1>1, <1>4, <1>6, <1>7
    <2>2. ASSUME NEW q \in Peers, NEW r \in Peers, NEW i \in DOMAIN awaiting'[q], NEW j \in DOMAIN awaiting'[r],
                 awaiting'[q][i] = awaiting'[r][j]
          PROVE  q = r /\ i = j
      <3>1. CASE q = p /\ i = Len(awaiting[p]) + 1 /\ awaiting'[q][i] = m
        BY <1>6, <1>7, <2>2, <3>1
      <3>2. CASE i \in DOMAIN awaiting[q] /\ awaiting'[q][i] = awaiting[q][i]
        <4>1. j \in DOMAIN awaiting[r] /\ awaiting'[r][j] = awaiting[r][j]
          BY <1>6, <1>7, <2>2, <3>2
        <4>2. awaiting[q][i] = awaiting[r][j]
          BY <2>2, <3>2, <4>1
        <4>3. \A h, k \in Peers : \A a \in DOMAIN awaiting[h], b \in DOMAIN awaiting[k] :
                 awaiting[h][a] = awaiting[k][b] => h = k /\ a = b
          BY DEF OnceInv, OnceData
        <4> QED BY <3>2, <4>1, <4>2, <4>3
      <3> QED BY <1>6, <3>1, <3>2
    <2>3. SentAtMostOnce'
      BY <1>1 DEF OnceInv, OnceData, SentAtMostOnce
    <2>4. ASSUME NEW q \in Peers, NEW x \in Msgs, Waits(q, x)', TextSent(x)'
          PROVE  HasDevice(q)' /\ q \notin keyRequest'
      <3>1. TextSent(x) /\ x # m
        BY <1>1, <1>4, <2>4 DEF TextSent
      <3>2. Waits(q, x)
        BY <1>6, <2>4, <3>1 DEF Waits
      <3>3. HasDevice(q) => HasDevice(q)'
        BY <1>1, DeviceStays
      <3> QED BY <1>1, <3>1, <3>2, <3>3 DEF OnceInv, OnceData
    <2>5. \A k \in DOMAIN sent' : sent'[k].text \in typed'
      BY <1>1 DEF OnceInv, OnceData
    <2> QED BY <2>1, <2>2, <2>3, <2>4, <2>5 DEF OnceData
  <1> QED BY <1>3, <1>8 DEF OnceInv, OnceTodo, OneEach, Forgets

(* The request is recorded. *)
LEMMA OnceRow ==
    ASSUME ContactInv, OnceInv, StoreRequestSent
    PROVE  OnceInv'
  <1> DEFINE p == Head1.peer
  <1>1. /\ ~Idle /\ Head1.op = "requested" /\ todo' = Tail(todo)
        /\ keyRequest' = keyRequest \cup {p}
        /\ UNCHANGED <<contacts, nick, deniable, awaiting, typed, sent>>
    BY DEF StoreRequestSent, Next1, user
  <1>2. p \in Peers /\ Timely(Head1) /\ todo \in Seq(Statements) /\ todo # <<>>
    BY <1>1, AtHead DEF OnceInv, OnceTodo
  <1>3. \A m \in Msgs : Waits(p, m) => ~TextSent(m)
    BY <1>1, <1>2 DEF Timely
  <1>4. \A j \in DOMAIN todo' : j + 1 \in DOMAIN todo /\ j + 1 > 1 /\ todo'[j] = todo[j + 1] /\ j \in Nat
    BY <1>1, <1>2, Tailed
  <1>5. \A j \in DOMAIN todo' : todo'[j].op = "await"
    <2>1. \A i \in DOMAIN todo : i # 1 => todo[i].op = "await"
      <3>1. \A q : Head1 # Do("request", q)
        BY <1>1 DEF Do
      <3> QED BY <1>1, <3>1, AtHead DEF Pair
    <2> QED BY <1>4, <2>1
  <1>6. \A m : TextSent(m) <=> TextSent(m)'
    BY <1>1 DEF TextSent
  <1>7. \A q, m : Waits(q, m) <=> Waits(q, m)'
    BY <1>1 DEF Waits
  <1> HIDE DEF p
  <1>8. ASSUME NEW j \in DOMAIN todo' PROVE Timely(todo[j])'
    <2>1. PICK x : x = todo'[j]
      OBVIOUS
    <2>2. Timely(x) /\ x.op = "await"
      BY <1>4, <1>5, <2>1 DEF OnceInv, OnceTodo
    <2>3. Timely(x)'
      BY <1>1, <1>6, <1>7, <2>2 DEF Timely, Texts
    <2> QED BY <2>1, <2>3 DEF Timely
  <1>9. OneEach(todo')
    <2>1. \A i, j \in DOMAIN todo' : i + 1 = j + 1 => i = j
      BY <1>4
    <2> QED BY <1>4, <2>1 DEF OneEach, OnceInv, OnceTodo
  <1>10. Forgets(todo', keyRequest')
    BY <1>5 DEF Forgets
  <1>11. OnceData'
    <2>1. SentAtMostOnce'
      BY <1>1 DEF OnceInv, OnceData, SentAtMostOnce
    <2>2. ASSUME NEW q \in Peers, NEW x \in Msgs, Waits(q, x)', TextSent(x)'
          PROVE  HasDevice(q)' /\ q \notin keyRequest'
      <3>1. Waits(q, x) /\ TextSent(x)
        BY <1>6, <1>7, <2>2
      <3>2. HasDevice(q) => HasDevice(q)'
        BY <1>1, DeviceStays
      <3>3. q # p
        BY <1>3, <3>1
      <3> QED BY <1>1, <3>1, <3>2, <3>3 DEF OnceInv, OnceData
    <2> QED BY <1>1, <2>1, <2>2 DEF OnceInv, OnceData
  <1> QED BY <1>8, <1>9, <1>10, <1>11 DEF OnceInv, OnceTodo

(* A payload of the message is stored. *)
LEMMA OnceStored ==
    ASSUME Devices = {Primary}, ContactInv, OnceInv, StorePayload
    PROVE  OnceInv'
  <1>0. PICK p, m, D : p = Head1.peer /\ m = Head1.text /\ D = Head1.devices
    OBVIOUS
  <1>1. /\ ~Idle /\ Head1.op = "store"
        /\ UNCHANGED <<contacts, nick, deniable, keyRequest, awaiting, typed>>
    BY DEF StorePayload, Next1, user
  <1>2. /\ p \in Peers /\ m \in Msgs /\ D \in SUBSET Devices /\ Timely(Head1) /\ sent \in Seq(Sent)
        /\ todo \in Seq(Statements) /\ todo # <<>> /\ Head1 = Head(todo)
    BY <1>0, <1>1, AtHead, Holds DEF ContactInv, TypeOK, OnceInv, OnceTodo
  <1>3. \A q \in Peers : HasDevice(q) => HasDevice(q)'
    BY <1>1, DeviceStays
  <1>4. CASE todo' = Tail(todo) /\ UNCHANGED sent
    <2>1. \A q \in Peers : Head1 # Do("forget", q)
      BY <1>1 DEF Do
    <2> QED BY <1>1, <1>3, <1>4, <2>1, OnceTail
  <1>5. ASSUME NEW d \in D, NEW x, x = Message(p, d, m), sent' = Append(sent, x),
               NEW g, g = Fan(p, m, D \ {d}), todo' = <<g>> \o Tail(todo)
        PROVE  OnceInv'
    <2>1. g \in Statements /\ g.op = "store" /\ g.peer = p /\ g.text = m /\ g.devices = D \ {d}
      <3>1. Fan(p, m, D \ {d}) \in Statements
        BY <1>2, Makes
      <3> QED BY <1>5, <3>1 DEF Fan
    <2>2. x \in Sent /\ x.text = m /\ x.peer = p /\ x.device = d
      BY <1>2, <1>5 DEF Sent, Message
    <2>3. PICK f : f = <<g>>
      OBVIOUS
    <2>4. f \in Seq(Statements) /\ DOMAIN f = {1} /\ f[1] = g /\ todo' = f \o Tail(todo)
      BY <1>5, <2>1, <2>3
    <2>5. PushOf(todo', todo, f)
      BY <1>2, <2>4, Pushed
    <2>6. \A j \in DOMAIN todo' : todo'[j] = g \/ \E i \in DOMAIN todo : i # 1 /\ todo'[j] = todo[i]
      <3>1. \A i : i > 1 => i # 1
        OBVIOUS
      <3> QED BY <2>4, <2>5, <3>1 DEF PushOf
    <2>7. /\ DOMAIN sent' = DOMAIN sent \cup {Len(sent) + 1} /\ sent'[Len(sent) + 1] = x
          /\ \A k \in DOMAIN sent : sent'[k] = sent[k]
      BY <1>2, <1>5, <2>2
    <2>8. /\ m \in typed
          /\ \A e \in D, k \in DOMAIN sent : sent[k] # Message(p, e, m)
          /\ \A q \in Peers : Waits(q, m) => q = p /\ q \notin keyRequest /\ (D # {} => HasDevice(q))
      BY <1>0, <1>1, <1>2 DEF Timely, Texts
    <2>9. \A y : TextSent(y)' => TextSent(y) \/ y = m
      BY <2>2, <2>7 DEF TextSent
    <2>10. \A q, y : Waits(q, y) <=> Waits(q, y)'
      BY <1>1 DEF Waits
    <2>11. Timely(g)'
      <3>1. ASSUME NEW e \in D \ {d}, NEW k \in DOMAIN sent' PROVE sent'[k] # Message(p, e, m)
        <4>1. Message(p, e, m) # x
          BY <1>5 DEF Message
        <4> QED BY <2>7, <2>8, <4>1
      <3>2. ASSUME NEW q \in Peers, Waits(q, m)' PROVE q = p /\ q \notin keyRequest' /\ HasDevice(q)'
        <4>1. D # {}
          BY <1>5
        <4>2. Waits(q, m)
          BY <2>10, <3>2
        <4>3. q = p /\ q \notin keyRequest /\ HasDevice(q)
          BY <2>8, <4>1, <4>2
        <4> QED BY <1>1, <1>3, <4>3
      <3>3. \A e \in g.devices, k \in DOMAIN sent' : sent'[k] # Message(g.peer, e, g.text)
        BY <2>1, <3>1
      <3>4. ASSUME NEW q \in Peers, Waits(q, g.text)' PROVE q = g.peer /\ q \notin keyRequest' /\ HasDevice(q)'
        <4>1. Waits(q, m)'
          BY <2>1, <3>4 DEF Waits
        <4> QED BY <2>1, <3>2, <4>1
      <3>5. g.text \in typed'
        BY <1>1, <2>1, <2>8
      <3> QED BY <2>1, <3>3, <3>4, <3>5 DEF Timely, Texts
    <2>12. ASSUME NEW y \in Statements, NEW i \in DOMAIN todo, i # 1, y = todo[i] PROVE Timely(y)'
      <3>1. Timely(y) /\ y.op \in Later \cup {"send"}
        BY <1>1, <2>12, AtHead DEF OnceInv, OnceTodo, Pair
      <3>2. CASE y.op = "send"
        <4>1. y.text # m
          <5>1. 1 \in DOMAIN todo /\ todo[1] = Head1
            BY <1>1, AtHead
          <5> QED BY <1>0, <1>1, <2>12, <3>2, <5>1 DEF OnceInv, OnceTodo, OneEach, Texts
        <4>2. /\ ~TextSent(y.text) /\ Waits(y.peer, y.text) /\ y.peer \notin keyRequest /\ y.text \in typed
          BY <3>1, <3>2 DEF Timely, Texts
        <4>3. ~TextSent(y.text)' /\ Waits(y.peer, y.text)'
          BY <2>9, <2>10, <4>1, <4>2
        <4> QED BY <1>1, <3>2, <4>2, <4>3 DEF Timely, Texts
      <3>3. CASE y.op # "send"
        BY <3>1, <3>3 DEF Timely, Texts, Later, Follow
      <3> QED BY <3>2, <3>3
    <2>13. \A j \in DOMAIN todo' : Timely(todo[j])'
      <3> SUFFICES ASSUME NEW j \in DOMAIN todo' PROVE Timely(todo[j])'
        OBVIOUS
      <3>1. PICK y : y = todo'[j]
        OBVIOUS
      <3>2. Timely(y)'
        <4>1. \A i \in DOMAIN todo : todo[i] \in Statements
          BY <1>2
        <4> QED BY <2>6, <2>11, <2>12, <3>1, <4>1
      <3> QED BY <3>1, <3>2 DEF Timely
    <2>14. OneEach(todo')
      <3>1. OneEach(f)
        BY <2>4 DEF OneEach
      <3>2. ASSUME NEW i \in DOMAIN f, NEW j \in DOMAIN todo, j # 1, todo[j].op \in Texts
            PROVE  f[i].text # todo[j].text
        <4>1. 1 \in DOMAIN todo /\ todo[1] = Head1 /\ f[i].text = m
          BY <1>1, <2>1, <2>4, AtHead
        <4> QED BY <1>0, <1>1, <3>2, <4>1 DEF OnceInv, OnceTodo, OneEach, Texts
      <3> QED BY <1>2, <2>4, <3>1, <3>2, OneEachPush DEF OnceInv, OnceTodo
    <2>15. Forgets(todo', keyRequest')
      <3>1. Forgets(f, keyRequest')
        BY <2>1, <2>4 DEF Forgets
      <3>2. \A q \in Peers : Head(todo) # Do("forget", q)
        BY <1>1, <1>2 DEF Do
      <3> QED BY <1>1, <1>2, <2>4, <3>1, <3>2, ForgetsPush DEF OnceInv, OnceTodo
    <2>16. SentAtMostOnce'
      <3>1. \A k \in DOMAIN sent : sent[k] # x
        BY <1>5, <2>8
      <3>2. \A i, j \in DOMAIN sent : sent[i] = sent[j] => i = j
        BY DEF OnceInv, OnceData, SentAtMostOnce
      <3>3. ASSUME NEW i \in DOMAIN sent', NEW j \in DOMAIN sent', sent'[i] = sent'[j] PROVE i = j
        BY <2>7, <3>1, <3>2, <3>3
      <3> QED BY <3>3 DEF SentAtMostOnce
    <2>17. ASSUME NEW q \in Peers, NEW y \in Msgs, Waits(q, y)', TextSent(y)'
           PROVE  HasDevice(q)' /\ q \notin keyRequest'
      <3>1. Waits(q, y)
        BY <2>10, <2>17
      <3>2. CASE y = m
        BY <1>1, <1>3, <1>5, <2>8, <3>1, <3>2
      <3>3. CASE y # m
        <4>1. TextSent(y)
          BY <2>9, <2>17, <3>3
        <4> QED BY <1>1, <1>3, <3>1, <4>1 DEF OnceInv, OnceData
      <3> QED BY <3>2, <3>3
    <2>18. \A k \in DOMAIN sent' : sent'[k].text \in typed'
      BY <1>1, <2>2, <2>7, <2>8 DEF OnceInv, OnceData
    <2>19. OnceData'
      BY <1>1, <2>16, <2>17, <2>18 DEF OnceInv, OnceData
    <2> QED BY <2>13, <2>14, <2>15, <2>19 DEF OnceInv, OnceTodo
  <1> QED BY <1>0, <1>4, <1>5 DEF StorePayload

(* The messages that waited for the keys are read. *)
LEMMA OnceFlushed ==
    ASSUME ContactInv, OnceInv, ReadAwaiting
    PROVE  OnceInv'
  <1> DEFINE p == Head1.peer
  <1>1. ~Idle /\ Head1.op = "flush" /\ UNCHANGED <<contacts, nick, deniable, keyRequest, awaiting, typed, sent>>
    BY DEF ReadAwaiting, Next1, user, tables
  <1>2. PICK f : f = [i \in DOMAIN awaiting[p] |-> DoMsg("send", p, awaiting[p][i])]
    OBVIOUS
  <1>3. todo' = f \o Tail(todo)
    BY <1>2 DEF ReadAwaiting
  <1>4. /\ p \in Peers /\ Timely(Head1) /\ todo \in Seq(Statements) /\ todo # <<>> /\ Head1 = Head(todo)
        /\ todo[1] = Head1 /\ 1 \in DOMAIN todo
    BY <1>1, AtHead DEF OnceInv, OnceTodo
  <1>5. awaiting[p] \in Seq(Msgs)
    BY <1>4 DEF ContactInv, TypeOK
  <1>6. f \in Seq(Statements)
    <2>1. \A i \in DOMAIN awaiting[p] : DoMsg("send", p, awaiting[p][i]) \in Statements
      BY <1>4, <1>5 DEF DoMsg, Statements
    <2> HIDE DEF DoMsg, p
    <2> QED BY <1>2, <1>5, <2>1
  <1>7. DOMAIN f = DOMAIN awaiting[p]
          /\ \A i \in DOMAIN f : f[i].op = "send" /\ f[i].peer = p /\ f[i].text = awaiting[p][i]
    BY <1>2 DEF DoMsg
  <1>8. p \notin keyRequest
    <2>1. \A j \in DOMAIN todo : ~(j < 1)
      BY <1>4
    <2> QED BY <1>1, <1>4, <2>1 DEF OnceInv, OnceTodo, Forgets
  <1>9. \A m \in Msgs : Waits(p, m) => ~TextSent(m)
    BY <1>1, <1>4 DEF Timely
  <1> HIDE DEF p
  <1>11. \A i \in DOMAIN todo : i > 1 => todo[i].op \in Later
    BY <1>1, AtHead DEF Pair
  <1>12. \A q \in Peers : HasDevice(q) => HasDevice(q)'
    BY <1>1, DeviceStays
  <1>13. ASSUME NEW i \in DOMAIN f PROVE Timely(f[i])
    <2>1. PICK x : x = f[i]
      OBVIOUS
    <2>2. x.op = "send" /\ x.peer = p /\ x.text \in Msgs /\ x.text = awaiting[p][i] /\ i \in DOMAIN awaiting[p]
      BY <1>5, <1>7, <2>1
    <2>3. Waits(p, x.text)
      BY <2>2 DEF Waits
    <2>4. ~TextSent(x.text)
      BY <1>9, <2>2, <2>3
    <2>5. x.text \in typed
      BY <1>4, <2>2 DEF OnceInv, OnceData
    <2>6. Timely(x)
      BY <1>8, <2>2, <2>3, <2>4, <2>5 DEF Timely, Texts
    <2> QED BY <2>1, <2>6
  <1>14. OneEach(f)
    <2>1. \A i, j \in DOMAIN awaiting[p] : awaiting[p][i] = awaiting[p][j] => i = j
      BY <1>4 DEF OnceInv, OnceData
    <2> QED BY <1>7, <2>1 DEF OneEach
  <1>15. \A j \in DOMAIN todo : j # 1 => todo[j].op \notin Texts
    <2>1. \A j \in DOMAIN todo : j # 1 => j > 1
      BY <1>4
    <2> QED BY <1>11, <2>1 DEF Later, Follow, Texts
  <1>16. Forgets(f, keyRequest')
    BY <1>7 DEF Forgets
  <1>17. \A q \in Peers : Head1 # Do("forget", q)
    BY <1>1 DEF Do
  <1> QED BY <1>1, <1>3, <1>6, <1>12, <1>13, <1>14, <1>15, <1>16, <1>17, OncePush

(* One of them is encrypted, or the client ends. *)
LEMMA OnceSend ==
    ASSUME Devices = {Primary}, ContactInv, OnceInv, SendAwaiting
    PROVE  OnceInv'
  <1>0. PICK p, m : p = Head1.peer /\ m = Head1.text
    OBVIOUS
  <1>1. ~Idle /\ Head1.op = "send" /\ UNCHANGED <<saved, nick, deniable, keyRequest, awaiting, typed, sent>>
    BY DEF SendAwaiting, Next1, user, tables
  <1>2. /\ p \in Peers /\ m \in Msgs /\ Timely(Head1) /\ todo \in Seq(Statements) /\ todo # <<>>
        /\ 1 \in DOMAIN todo /\ todo[1] = Head1
    BY <1>0, <1>1, AtHead, Holds DEF OnceInv, OnceTodo, Texted
  <1>3. contacts' = contacts /\ \A q \in Peers : HasDevice(q) => HasDevice(q)'
    <2>1. contacts' = contacts
      BY DEF SendAwaiting, Restart, ContactInv, ContactsOK
    <2> QED BY <1>1, <2>1, DeviceStays
  <1>4. m \in typed /\ ~TextSent(m) /\ Waits(p, m) /\ p \notin keyRequest
    BY <1>0, <1>1, <1>2 DEF Timely, Texts
  <1>5. CASE Restart
    <2>1. DOMAIN todo' = {}
      BY <1>5 DEF Restart
    <2> QED BY <1>1, <1>3, <2>1, OnceQuiet
  <1>6. ASSUME CanEncrypt(p, deniable), NEW g, g = Fan(p, m, contacts[p]), todo' = <<g>> \o Tail(todo)
        PROVE  OnceInv'
    <2>1. contacts[p] \in SUBSET Devices
      BY <1>2, <1>6 DEF ContactInv, TypeOK, CanEncrypt, Known
    <2>2. g \in Statements /\ g.op = "store" /\ g.peer = p /\ g.text = m /\ g.devices = contacts[p]
      <3>1. Fan(p, m, contacts[p]) \in Statements
        BY <1>2, <2>1, Makes
      <3> QED BY <1>6, <3>1 DEF Fan
    <2>3. PICK f : f = <<g>>
      OBVIOUS
    <2>4. f \in Seq(Statements) /\ DOMAIN f = {1} /\ f[1] = g /\ todo' = f \o Tail(todo)
      BY <1>6, <2>2, <2>3
    <2>5. contacts[p] # {} => HasDevice(p)
      <3>1. ASSUME contacts[p] # {} PROVE Primary \in contacts[p]
        BY <2>1, <3>1
      <3> QED BY <1>6, <3>1 DEF HasDevice, CanEncrypt, Resolves, Loads
    <2>6. \A q \in Peers : Waits(q, m) => q = p
      BY <1>2, <1>4 DEF OnceInv, OnceData, Waits
    <2>7. \A d, k : k \in DOMAIN sent => sent[k] # Message(p, d, m)
      BY <1>4 DEF TextSent, Message
    <2>8. Timely(g)
      <3>1. \A q \in Peers : Waits(q, g.text) =>
              q = g.peer /\ q \notin keyRequest /\ (g.devices # {} => HasDevice(q))
        BY <1>4, <2>2, <2>5, <2>6
      <3>2. \A d \in g.devices, k \in DOMAIN sent : sent[k] # Message(g.peer, d, g.text)
        BY <2>2, <2>7
      <3> QED BY <1>4, <2>2, <3>1, <3>2 DEF Timely, Texts
    <2>9. OneEach(f) /\ Forgets(f, keyRequest')
      BY <2>2, <2>4 DEF OneEach, Forgets
    <2>10. ASSUME NEW j \in DOMAIN todo, j # 1, todo[j].op \in Texts PROVE todo[j].text # m
      BY <1>0, <1>1, <1>2, <2>10 DEF OnceInv, OnceTodo, OneEach, Texts
    <2>11. \A q \in Peers : Head1 # Do("forget", q)
      BY <1>1 DEF Do
    <2>12. \A i \in DOMAIN f, j \in DOMAIN todo :
             j # 1 /\ f[i].op \in Texts /\ todo[j].op \in Texts => f[i].text # todo[j].text
      BY <2>2, <2>4, <2>10
    <2> QED BY <1>1, <1>3, <2>2, <2>4, <2>8, <2>9, <2>11, <2>12, OncePush
  <1> QED BY <1>0, <1>5, <1>6 DEF SendAwaiting

(* The keys have come. *)
LEMMA OnceResponse ==
    ASSUME SessionAssumption, ContactInv, OnceInv, HandleKeyResponse
    PROVE  OnceInv'
  <1>0. PICK p : p = Head1.peer
    OBVIOUS
  <1>1. ~Idle /\ Head1.op = "response" /\ UNCHANGED <<saved, nick, keyRequest, awaiting, typed, sent>>
        /\ deniable \subseteq deniable'
    BY DEF HandleKeyResponse, Next1, user
  <1>2. p \in Peers
    BY <1>0, <1>1, AtHead
  <1>3. \A q \in Peers : HasDevice(q) => HasDevice(q)'
    <2>1. contacts' = contacts
      BY DEF HandleKeyResponse, Restart, ContactInv, ContactsOK
    <2> QED BY <1>1, <2>1, DeviceStays
  <1>4. CASE Restart
    <2>1. DOMAIN todo' = {}
      BY <1>4 DEF Restart
    <2> QED BY <1>1, <1>3, <2>1, OnceQuiet
  <1>5. ASSUME Requested(p), NEW f, f = <<AddContact(p, {Primary}), Do("forget", p), Do("flush", p)>>,
               todo' = f \o Tail(todo)
        PROVE  OnceInv'
    <2>1. f \in Seq(Statements)
      <3>1. {AddContact(p, {Primary}), Do("forget", p), Do("flush", p)} \subseteq Statements
        BY <1>2 DEF Statements, AddContact, Do, SessionAssumption
      <3> QED BY <1>5, <3>1
    <2>2. /\ DOMAIN f = 1..3 /\ f[1].op = "contact"
          /\ f[2] = Do("forget", p) /\ f[3] = Do("flush", p)
      BY <1>5 DEF AddContact
    <2>3. \A i \in DOMAIN f : f[i].op \notin Texts
      BY <2>2 DEF Do, Texts
    <2>4. \A m \in Msgs : Waits(p, m) => ~TextSent(m)
      BY <1>2, <1>5 DEF OnceInv, OnceData, Requested
    <2>5. ASSUME NEW i \in DOMAIN f PROVE Timely(f[i])
      <3>1. CASE f[i].op \in {"contact", "forget"}
        BY <3>1 DEF Timely, Texts
      <3>2. CASE f[i].op = "flush" /\ f[i].peer = p
        BY <2>4, <3>2 DEF Timely, Texts
      <3> QED BY <2>2, <3>1, <3>2 DEF Do
    <2>6. Forgets(f, keyRequest')
      BY <2>2 DEF Forgets, Do
    <2>7. \A q \in Peers : Head1 # Do("forget", q)
      BY <1>1 DEF Do
    <2> QED BY <1>1, <1>3, <1>5, <2>1, <2>3, <2>5, <2>6, <2>7, OnceKeeps
  <1> QED BY <1>0, <1>4, <1>5 DEF HandleKeyResponse

(* A contact, a nickname, bundles or a session are stored. *)
LEMMA OnceContact ==
    ASSUME SessionAssumption, ContactInv, TypeOK', OnceInv,
           StoreContact \/ InsertNickname \/ FetchBundles \/ UpdateContact \/ Decrypt
    PROVE  OnceInv'
  <1>0. PICK p : p = Head1.peer
    OBVIOUS
  <1>1. /\ ~Idle /\ Head1.op \notin Texts \cup {"forget", "flush", "request", "requested"}
        /\ UNCHANGED <<keyRequest, awaiting, typed, sent>>
        /\ nick \subseteq nick' /\ deniable \subseteq deniable'
    BY DEF StoreContact, InsertNickname, FetchBundles, UpdateContact, Decrypt, Next1, user, Texts
  <1>2. p \in Peers
    BY <1>0, <1>1, AtHead
  <1>3. \A q \in Peers : contacts[q] # None => contacts'[q] # None
    <2>1. contacts \in [Peers -> Entries] /\ contacts = saved
      BY DEF ContactInv, TypeOK, ContactsOK, Entries
    <2>2. CASE contacts' = contacts
      BY <2>2
    <2>3. CASE contacts' = WithEntry(p)
      BY <1>2, <2>1, <2>3 DEF WithEntry, SessionAssumption
    <2>4. CASE UpdateContact
      <3>1. contacts' = [contacts EXCEPT ![p] = @ \cup Head1.devices]
        BY <1>0, <2>4 DEF UpdateContact, WithDevices
      <3>2. contacts' \in [Peers -> Entries] /\ Known(p)
        BY <1>0, <2>4, UpdateKnown DEF UpdateContact, TypeOK, Entries
      <3>3. contacts[p] \in SUBSET Devices /\ Head1.devices \in SUBSET Devices
        BY <1>1, <1>2, <2>1, <2>4, <3>2, AtHead, Holds DEF Known, Entries, UpdateContact, Next1, Deviced
      <3>4. contacts'[p] # None
        BY <1>2, <2>1, <3>1, <3>3 DEF SessionAssumption
      <3> QED BY <2>1, <3>1, <3>4
    <2> QED BY <1>0, <2>1, <2>2, <2>3, <2>4
         DEF StoreContact, InsertNickname, FetchBundles, UpdateContact, Decrypt, Restart
  <1>4. \A q \in Peers : HasDevice(q) => HasDevice(q)'
    BY <1>1, <1>3, DeviceStays
  <1>5. \A q \in Peers : Head1 # Do("forget", q)
    BY <1>1 DEF Do
  <1>6. CASE todo' = Tail(todo)
    BY <1>1, <1>4, <1>5, <1>6, OnceTail
  <1>7. CASE todo' = <<>>
    <2>1. DOMAIN todo' = {}
      BY <1>7
    <2> QED BY <1>1, <1>4, <2>1, OnceQuiet
  <1>8. ASSUME NEW f, todo' = f \o Tail(todo), Head1.op \in {"contact", "newContact"},
               f = IF Head1.op = "contact"
                   THEN <<Do("nick", p), Update(p, Head1.devices)>>
                   ELSE <<Do("nick", p), Do("fetch", p), Update(p, Devices)>>
        PROVE  OnceInv'
    <2>1. f \in Seq(Statements)
      <3>1. Head1.op = "contact" => Head1.devices \in SUBSET Devices
        BY <1>1, AtHead, Holds DEF Deviced
      <3>2. /\ Do("nick", p) \in Statements /\ Do("fetch", p) \in Statements /\ Update(p, Devices) \in Statements
            /\ Head1.op = "contact" => Update(p, Head1.devices) \in Statements
        BY <1>2, <3>1 DEF Statements, Do, Update
      <3> QED BY <1>8, <3>2
    <2>2. \A i \in DOMAIN f : f[i].op \in {"nick", "fetch", "update"}
      BY <1>8 DEF Do, Update
    <2>3. \A i \in DOMAIN f : f[i].op \notin Texts /\ Timely(f[i])
      BY <2>2 DEF Timely, Texts
    <2>4. Forgets(f, keyRequest')
      BY <2>2 DEF Forgets
    <2> QED BY <1>1, <1>4, <1>5, <1>8, <2>1, <2>3, <2>4, OnceKeeps
  <1>9. CASE StoreContact
    BY <1>0, <1>6, <1>8, <1>9 DEF StoreContact, Next1
  <1>10. CASE ~StoreContact
    BY <1>6, <1>7, <1>10 DEF InsertNickname, FetchBundles, UpdateContact, Decrypt, Restart
  <1> QED BY <1>9, <1>10

(* The statements of the running command, *)
LEMMA OnceStatement ==
    ASSUME Devices = {Primary}, SessionAssumption, ContactInv, TypeOK', OnceInv, Statement
    PROVE  OnceInv'
  <1>1. CASE StoreKeyRequest \/ RemoveKeyRequest
    <2>1. /\ ~Idle /\ todo' = Tail(todo) /\ UNCHANGED <<contacts, nick, deniable, awaiting, typed, sent>>
          /\ keyRequest' \subseteq keyRequest
      BY <1>1 DEF StoreKeyRequest, RemoveKeyRequest, Next1, user
    <2>2. \A p \in Peers : Head1 = Do("forget", p) => p \notin keyRequest'
      BY <1>1 DEF StoreKeyRequest, RemoveKeyRequest, Next1, Do
    <2>3. \A p \in Peers : HasDevice(p) => HasDevice(p)'
      BY <2>1, DeviceStays
    <2> QED BY <2>1, <2>2, <2>3, OnceTail
  <1> QED
    BY <1>1, OnceRow, OnceAwait, OnceStored, OnceContact, OnceResponse, OnceFlushed, OnceSend DEF Statement

(* the envelopes and answers taken off the socket, *)
LEMMA OnceRead ==
    ASSUME ContactInv, OnceInv, NEW n \in Nat,
           NEW regular \in Seq(Statements), NEW sender \in Seq(Statements), Read(n, regular, sender),
           \A j \in DOMAIN regular : regular[j].op = "regular",
           \A k \in DOMAIN sender : sender[k].op = "contact"
    PROVE  OnceInv'
  <1>1. TypeOK /\ inbox \in Seq(Arrivals)
    BY DEF ContactInv, TypeOK, Arrivals
  <1>2. UNCHANGED <<contacts, nick, deniable, keyRequest, awaiting, typed, sent>>
    BY DEF Read, tables
  <1>3. ASSUME NEW k \in 1..n PROVE Handle(inbox[k]).op \in {"decrypt", "response"}
    <2>1. inbox[k] \in Arrivals
      BY <1>1, ReadDoes
    <2> QED BY <2>1, HandleIs
  <1>4. ASSUME NEW j \in DOMAIN todo' PROVE todo'[j].op \in Later
    <2>1. PICK x : x = todo'[j]
      OBVIOUS
    <2>2. ReadAt(j, x, n, regular, sender)
      BY <1>1, <2>1, ReadDoes
    <2>3. \A p, d : AddContact(p, d).op = "contact"
      BY DEF AddContact
    <2>4. x.op \in Later
      <3>1. ASSUME NEW k \in 1..n, x = AddContact(inbox[k].peer, {inbox[k].device}) PROVE x.op = "contact"
        BY <2>3, <3>1
      <3>2. ASSUME NEW k \in 1..n, x = Handle(inbox[k]) PROVE x.op \in {"decrypt", "response"}
        BY <1>3, <3>2
      <3> QED BY <2>2, <3>1, <3>2 DEF ReadAt, Later, Follow
    <2> QED BY <2>1, <2>4
  <1>5. \A j \in DOMAIN todo' : todo'[j].op \notin Texts \cup {"flush", "request", "requested"}
    BY <1>4 DEF Later, Follow, Texts
  <1>6. \A p \in Peers : HasDevice(p) => HasDevice(p)'
    BY <1>2, DeviceStays
  <1> QED BY <1>2, <1>5, <1>6, OnceQuiet

(* and the commands of the user. *)
LEMMA OnceCommand ==
    ASSUME Devices = {Primary}, ContactInv, OnceInv
    PROVE  /\ \A p \in Peers, m \in Msgs : Denim(p, m) => OnceInv'
           /\ \A p \in Peers : SendNew(p) \/ SendStuck(p) \/ SendFails(p) => OnceInv'
           /\ \A p \in Peers, d \in Devices, n \in Nat : Receive(p, d, n) => OnceInv'
           /\ \A n \in Nat : ReceiveOther(n) => OnceInv'
           /\ Stop => OnceInv'
  <1>1. ASSUME NEW p \in Peers, SendNew(p) \/ SendStuck(p) \/ SendFails(p) \/ Stop PROVE OnceInv'
    <2>1. contacts' = contacts /\ UNCHANGED <<nick, deniable, keyRequest, awaiting, typed, sent>>
      BY <1>1 DEF SendNew, SendStuck, SendFails, Stop, Restart, tables, user, ContactInv, ContactsOK
    <2>2. todo' = <<AddNewContact(p)>> \/ todo' = <<>> \/ todo' = <<Do("fetch", p), Update(p, Devices)>>
      BY <1>1 DEF SendNew, SendStuck, SendFails, Stop, Restart
    <2>3. \A j \in DOMAIN todo' : todo'[j].op \notin Texts \cup {"flush", "request", "requested"}
      BY <2>2 DEF AddNewContact, Do, Update, Texts
    <2>4. \A q \in Peers : HasDevice(q) => HasDevice(q)'
      BY <2>1, DeviceStays
    <2> QED BY <2>1, <2>3, <2>4, OnceQuiet
  <1>2. ASSUME Stop PROVE OnceInv'
    <2>1. contacts' = contacts /\ UNCHANGED <<nick, deniable, keyRequest, awaiting, typed, sent>>
      BY <1>2 DEF Stop, Restart, tables, ContactInv, ContactsOK
    <2>2. DOMAIN todo' = {}
      BY <1>2 DEF Stop, Restart
    <2>3. \A q \in Peers : HasDevice(q) => HasDevice(q)'
      BY <2>1, DeviceStays
    <2> QED BY <2>1, <2>2, <2>3, OnceQuiet
  <1>3. ASSUME NEW p \in Peers, NEW d \in Devices, NEW n \in Nat, Receive(p, d, n) PROVE OnceInv'
    <2> DEFINE regular == <<[op |-> "regular", peer |-> p, devices |-> {d}]>>
               sender == <<AddContact(p, {d})>>
    <2>1. regular \in Seq(Statements) /\ sender \in Seq(Statements)
      BY DEF Statements, AddContact
    <2>2. \A j \in DOMAIN regular : regular[j].op = "regular"
      OBVIOUS
    <2>3. \A k \in DOMAIN sender : sender[k].op = "contact"
      BY DEF AddContact
    <2>4. Read(n, regular, sender)
      BY <1>3 DEF Receive
    <2> HIDE DEF regular, sender
    <2> QED BY <2>1, <2>2, <2>3, <2>4, OnceRead
  <1>4. ASSUME NEW n \in Nat, ReceiveOther(n) PROVE OnceInv'
    <2>1. PICK f : f = <<>>
      OBVIOUS
    <2>2. f \in Seq(Statements) /\ DOMAIN f = {} /\ Read(n, f, f)
      BY <1>4, <2>1 DEF ReceiveOther
    <2> QED BY <2>2, OnceRead
  <1> QED BY <1>1, <1>2, <1>3, <1>4, OnceDenim

(* OnceInv is inductive, given ContactInv, for accounts with one device. *)
LEMMA OnceNext ==
    ASSUME Devices = {Primary}, SessionAssumption, ContactInv, OnceInv, [Next]_vars
    PROVE  OnceInv'
  <1>1. 0..MaxInbox \subseteq Nat /\ 1..MaxInbox \subseteq Nat
    BY DEF SessionAssumption
  <1>2. TypeOK'
    BY ContactNext DEF ContactInv
  <1>3. ASSUME UNCHANGED vars \/ Transport \/ Lose \/ \E p \in Peers, d \in Devices : PeerWrites(p, d)
        PROVE  OnceInv'
    <2>1. UNCHANGED <<contacts, nick, deniable, keyRequest, awaiting, todo, typed, sent>>
      BY <1>3 DEF vars, Transport, Lose, PeerWrites, tables
    <2>2. \A p \in Peers : HasDevice(p) => HasDevice(p)'
      BY <2>1, DeviceStays
    <2>3. \A x : Timely(x) => Timely(x)'
      BY <2>1, <2>2, TimelyStays
    <2>4. ASSUME NEW i \in DOMAIN todo' PROVE Timely(todo[i])'
      <3>1. PICK x : x = todo'[i]
        OBVIOUS
      <3>2. Timely(x)'
        BY <2>1, <2>3, <3>1 DEF OnceInv, OnceTodo
      <3> QED BY <3>1, <3>2 DEF Timely
    <2> QED BY <2>1, <2>2, <2>4, DataStays DEF OnceInv, OnceTodo, OneEach, Forgets
  <1> QED BY <1>1, <1>2, <1>3, OnceCommand, OnceStatement DEF Next

(* No message is queued or stored at first. *)
LEMMA OnceFirst == Init => OnceInv
  <1> SUFFICES ASSUME Init PROVE OnceInv
    OBVIOUS
  <1>1. DOMAIN todo = {} /\ DOMAIN sent = {} /\ \A p \in Peers : DOMAIN awaiting[p] = {}
    BY DEF Init
  <1> QED BY <1>1 DEF OnceInv, OnceTodo, OnceData, OneEach, Forgets, SentAtMostOnce, Waits

(* A message is put in DeniablePayload at most once (send_deniable_message *)
(* after get_messages_awaiting_encryption, whose rows are never removed),  *)
(* across crashes, losses and repeated requests for keys, for accounts     *)
(* with one device, which is what the client of this repository registers. *)
THEOREM SentOnce ==
    ASSUME Devices = {Primary}
    PROVE  Spec => []SentAtMostOnce
  <1>1. ContactInv /\ OnceInv /\ [Next]_vars => OnceInv'
    BY SessionAssumption, OnceNext
  <1>2. OnceInv => SentAtMostOnce
    BY DEF OnceInv, OnceData
  <1> QED BY <1>1, <1>2, OnceFirst, ContactAlways, PTL DEF Spec

=============
