---------------------------- MODULE StoresProofs ----------------------------
(***************************************************************************)
(* Proofs about ClientStores and ClientStart, for any numbers of peers,    *)
(* identity keys, conversations, messages and keys of a bundle, and with   *)
(* crashes between any two statements: ids are not reused (StoresInv), a   *)
(* session stays in the table of its traffic with the pinned identity      *)
(* (SessionsPinned), a message can be read but for three reasons           *)
(* (LettersReadable) and is shown once (ReadOnce).  The four follow from   *)
(* StoresInd, which is inductive.                                          *)
(***************************************************************************)
EXTENDS ClientStores, FiniteSetTheorems, SequenceTheorems, WellFoundedInduction, TLAPS

(***************************************************************************)
(* The inductive invariant.                                                *)
(***************************************************************************)
Letters  == [talk : Talks, n : 1..MaxLetters, plain : BOOLEAN]
Session  == [talk : Talks, ns : SUBSET (1..MaxLetters)]
Records  == [current : SUBSET Session, previous : SUBSET Session]
Calls    == [left : SUBSET {"identity", "session", "key", "next"}, talk : Talks,
             record : Records, letter : Seq(Letters), sends : BOOLEAN,
             then : Seq(Letters)]

(* TypeOK, with what it leaves open. *)
StoreTypes ==
    /\ trusted \in [IdentityTables -> [Peers -> Identities \cup {NoKey}]]
    /\ sessions \in [SessionTables -> [Peers -> Records]]
    /\ task = <<>> \/ (task = <<task[1]>> /\ task[1] \in Calls)
    /\ queue \in Seq(Letters) /\ hidden \in Seq(Letters)
    /\ reading \in Nat /\ letters \in 0..MaxLetters /\ talks \in 0..MaxTalks
    /\ reading <= Len(queue) /\ Len(queue) <= letters
    /\ written \in SUBSET Talks /\ read \in SUBSET Letters
    /\ reread \in SUBSET Letters /\ torn \in SUBSET Talks

(* Sessions are in the records of their peers. *)
Placed == \A t \in SessionTables, p \in Peers : \A s \in All(sessions[t][p]) : s.talk.peer = p

(* How far a registration has come shows in what there is. *)
Registering == pc \in 1..(Running - 1)
StartOK ==
    /\ StartTypeOK
    /\ ~file => /\ pc = Off /\ ~registered /\ ~account
                /\ \A k \in Kinds : keys[k] = {} /\ published[k] = {} /\ given[k] = {}
    /\ account => registered
    /\ registered \/ pc > 1 => identity
    /\ pc >= 7 => registered
    /\ pc \in 3..6 => request["signed"] # {}
    /\ pc \in 5..6 => request["kyber"] # {}
    /\ pc \in 1..6 => request["oneTime"] = {}
    /\ registered => published["signed"] # {} /\ published["kyber"] # {}

(* Ids of keys: what is in the tables, what was published, what is next. *)
KeyOK(k) ==
    /\ Registering => request[k] \subseteq keys[k] /\ next[k] <= pc
    /\ keys[k] \subseteq 1..(Running - 1)
    /\ pc # Off => \A i \in keys[k] : i < next[k]
    /\ published[k] \subseteq keys[k] /\ published[k] \subseteq given[k]
    /\ k # "oneTime" => given[k] \subseteq keys[k]
KeysOK ==
    /\ \A k \in Kinds : KeyOK(k)
    /\ Registering => given["oneTime"] = {}

(* The record of a conversation's peer, and whether the conversation has   *)
(* a session in it.                                                        *)
RecordOf(a)   == LoadSession(SessionStore(a.channel), a.peer)
HasSession(a) == Sessions(a, RecordOf(a)) # {}
TrustedOf(a)  == GetIdentity(IdentityStore(a.channel), a.peer)

(* s is a session of a record in the table of conversation a's traffic. *)
Beside(s, a) ==
    s.talk.channel = a.channel /\ s.talk.peer = a.peer /\ s.talk.identity = a.identity

(* The record that is to be stored: of the peer and the traffic of the     *)
(* call, under the trusted identity, with all that was in the table and    *)
(* with the message that is read.                                          *)
ToStore(u) ==
    /\ TrustedOf(u.talk) \in {NoKey, u.talk.identity}
    /\ \A s \in All(u.record) : Beside(s, u.talk)
    /\ \A s \in All(RecordOf(u.talk)) :
          \E r \in All(u.record) : r.talk = s.talk /\ s.ns \subseteq r.ns
    /\ \E r \in All(u.record) :
          r.talk = u.talk /\ \A l \in Range(u.letter) : l.n \in r.ns

(* The running call. *)
CallOK(u) ==
    /\ pc = Running
    /\ \A l \in Range(u.then) : l.talk.channel = "deniable"
    /\ "next" \in u.left =>
          /\ u.left = {"next"} /\ u.letter # <<>>
          /\ \A l \in Range(u.letter) : l.talk.channel = "deniable"
    /\ "next" \notin u.left =>
          /\ \A l \in Range(u.letter) :
                /\ l.talk = u.talk /\ l \notin read
                /\ l.talk.channel = "regular" => reading < Len(queue)
          /\ "identity" \in u.left => "session" \in u.left
          /\ "identity" \notin u.left => TrustedOf(u.talk) = u.talk.identity
          /\ "session" \in u.left => ToStore(u)
          /\ "session" \notin u.left =>
                HasSession(u.talk) /\ \A l \in Range(u.letter) : AlreadyRead(l)
TaskOK == task # <<>> => CallOK(task[1])

(* What was read, and what was written, has its session. *)
HistoryOK ==
    /\ \A l \in read : AlreadyRead(l)
    /\ \A a \in written : HasSession(a)

(* The messages on their way. *)
MailOK ==
    /\ \A l \in Range(queue) : l.talk.channel = "regular"
    /\ \A l \in Range(hidden) : l.talk.channel = "deniable"
    /\ \A l \in Range(queue) \cup Range(hidden) : l.plain => l.talk \in written

(* Every conversation there is a trace of. *)
LetterTalks  == {l.talk : l \in Range(queue) \cup Range(hidden) \cup read}
SessionTalks == {a \in Talks : \E t \in SessionTables, p \in Peers :
                                  \E s \in All(sessions[t][p]) : s.talk = a}
CallTalks(u) == {u.talk} \cup {l.talk : l \in Range(u.letter) \cup Range(u.then)}
                  \cup {s.talk : s \in All(u.record)}
AllTalks == LetterTalks \cup SessionTalks \cup written
              \cup (IF task = <<>> THEN {} ELSE CallTalks(task[1]))

(* Its private keys are there as long as they may be needed. *)
Opened(a) ==
    \/ a.keys["oneTime"] \subseteq keys["oneTime"]
    \/ HasSession(a)
    \/ a \in torn
    \/ task # <<>> /\ "session" \in task[1].left /\ task[1].talk = a /\ Spent(task[1])
TalkOK(a) ==
    /\ a.id <= talks
    /\ a.keys["oneTime"] \subseteq given["oneTime"] \ published["oneTime"]
    /\ \A k \in Kinds \ {"oneTime"} : a.keys[k] \subseteq keys[k]
    /\ Opened(a)
    /\ \A b \in AllTalks : a # b => a.keys["oneTime"] \cap b.keys["oneTime"] = {}
TalksOK == \A a \in AllTalks : TalkOK(a)

StoresInd ==
    /\ StoreTypes /\ StartOK /\ KeysOK /\ SessionsPinned /\ Placed /\ TaskOK
    /\ HistoryOK /\ MailOK /\ TalksOK /\ ReadOnce
(***************************************************************************)
(* Stores, records and sequences.                                          *)
(***************************************************************************)
(* The two kinds of traffic have tables of their own, and the objects that *)
(* a caller chooses stand for those of its traffic.                        *)
LEMMA StoreNames ==
    /\ \A c \in Channels : /\ IdentityStore(c) = Tables[c].identities
                           /\ SessionStore(c) = Tables[c].sessions
                           /\ IdentityStore(c) \in IdentityTables
                           /\ SessionStore(c) \in SessionTables
    /\ \A c, d \in Channels : /\ IdentityStore(c) = IdentityStore(d) => c = d
                              /\ SessionStore(c) = SessionStore(d) => c = d
    /\ \A t \in SessionTables : \E c \in Channels : t = SessionStore(c)
  BY DEF Channels, IdentityStore, SessionStore, Tables, IdentityTables, SessionTables,
         ProtocolStore, DeviceIdentityKeyStore, DeniableIdentityKeyStore,
         DeviceSessionStore, DeniableStore

(* What a conversation holds. *)
LEMMA TalkHolds ==
    ASSUME NEW a \in Talks
    PROVE  /\ a.channel \in Channels /\ a.peer \in Peers /\ a.identity \in Identities
           /\ a.identity # NoKey /\ a.id \in 1..MaxTalks
           /\ a.keys \in [Kinds -> SUBSET Ids]
  BY StoresAssumption DEF Talks

(* The conversation that is promoted is in the record; nothing of the      *)
(* others is lost, and nothing else is added.                              *)
LEMMA PromotedHolds ==
    ASSUME NEW a \in Talks, NEW record \in Records, NEW ns \in SUBSET (1..MaxLetters)
    PROVE  LET new == Promoted(a, record, ns) IN
           /\ new \in Records
           /\ \A r \in All(new) : r.talk = a \/ r \in All(record)
           /\ \A s \in All(record) : \E r \in All(new) : r.talk = s.talk /\ s.ns \subseteq r.ns
           /\ \E r \in All(new) : r.talk = a /\ ns \subseteq r.ns
  <1>1. PICK old : old = Sessions(a, record)
    OBVIOUS
  <1>2. PICK past : past = UNION {s.ns : s \in old}
    OBVIOUS
  <1>3. PICK new : new = [current |-> {[talk |-> a, ns |-> past \cup ns]}, previous |-> All(record) \ old]
    OBVIOUS
  <1>4. Promoted(a, record, ns) = new
    BY <1>1, <1>2, <1>3 DEF Promoted
  <1>5. /\ \A s \in All(record) : s \in Session /\ s.talk \in Talks /\ s.ns \in SUBSET (1..MaxLetters)
        /\ \A s \in old : s \in All(record) /\ s.talk = a
    BY <1>1 DEF Records, All, Session, Sessions
  <1>6. past \in SUBSET (1..MaxLetters)
    <2>1. ASSUME NEW n \in past
          PROVE  n \in 1..MaxLetters
      <3>1. PICK s \in old : n \in s.ns
        BY <1>2, <2>1
      <3> QED BY <1>5, <3>1
    <2> QED BY <2>1
  <1>7. \A s \in old : s.ns \subseteq past
    BY <1>2
  <1>8. PICK top \in Session : top.talk = a /\ top.ns = past \cup ns /\ new.current = {top}
    <2>1. [talk |-> a, ns |-> past \cup ns] \in Session
      BY <1>6 DEF Session
    <2> QED BY <1>3, <2>1
  <1>9. new \in Records
    <2>1. All(record) \ old \in SUBSET Session
      BY <1>5
    <2>2. {[talk |-> a, ns |-> past \cup ns]} \in SUBSET Session
      BY <1>6 DEF Session
    <2> QED BY <1>3, <2>1, <2>2 DEF Records
  <1>10. All(new) = {top} \cup (All(record) \ old)
    BY <1>3, <1>8 DEF All
  <1>11. ASSUME NEW s \in All(record)
         PROVE  \E r \in All(new) : r.talk = s.talk /\ s.ns \subseteq r.ns
    <2>1. CASE s \in old
      <3>1. s.talk = top.talk /\ s.ns \subseteq top.ns
        BY <2>1, <1>5, <1>7, <1>8
      <3> QED BY <3>1, <1>10
    <2>2. CASE s \notin old
      BY <2>2, <1>10
    <2> QED BY <2>1, <2>2
  <1>12. \A r \in All(new) : r.talk = a \/ r \in All(record)
    BY <1>8, <1>10
  <1>13. \E r \in All(new) : r.talk = a /\ ns \subseteq r.ns
    BY <1>8, <1>10
  <1> QED BY <1>4, <1>9, <1>11, <1>12, <1>13

(* The queue without one of its messages. *)
LEMMA Removed ==
    ASSUME NEW S, NEW s \in Seq(S), NEW i \in 1..Len(s)
    PROVE  /\ RemoveAt(s, i) \in Seq(S)
           /\ Len(RemoveAt(s, i)) = Len(s) - 1
           /\ Range(RemoveAt(s, i)) \subseteq Range(s)
  <1>1. SubSeq(s, 1, i - 1) \in Seq(S) /\ SubSeq(s, i + 1, Len(s)) \in Seq(S)
    OBVIOUS
  <1>2. Len(SubSeq(s, 1, i - 1)) = i - 1 /\ Len(SubSeq(s, i + 1, Len(s))) = Len(s) - i
    OBVIOUS
  <1>3. \A j \in 1..(i - 1) : SubSeq(s, 1, i - 1)[j] = s[j]
    OBVIOUS
  <1>4. \A j \in 1..(Len(s) - i) : SubSeq(s, i + 1, Len(s))[j] = s[j + i]
    OBVIOUS
  <1>5. /\ RemoveAt(s, i) \in Seq(S)
        /\ Len(RemoveAt(s, i)) = Len(s) - 1
        /\ \A j \in 1..(Len(s) - 1) :
              RemoveAt(s, i)[j] = IF j <= i - 1 THEN SubSeq(s, 1, i - 1)[j]
                                  ELSE SubSeq(s, i + 1, Len(s))[j - (i - 1)]
    <2> DEFINE f == SubSeq(s, 1, i - 1)
               g == SubSeq(s, i + 1, Len(s))
    <2>1. RemoveAt(s, i) = f \o g
      BY DEF RemoveAt
    <2>2. f \in Seq(S) /\ g \in Seq(S) /\ Len(f) = i - 1 /\ Len(g) = Len(s) - i
      BY <1>1, <1>2
    <2> HIDE DEF f, g
    <2>3. /\ f \o g \in Seq(S) /\ Len(f \o g) = Len(f) + Len(g)
          /\ \A j \in 1..(Len(f) + Len(g)) :
                (f \o g)[j] = IF j <= Len(f) THEN f[j] ELSE g[j - Len(f)]
      BY <2>2, ConcatProperties
    <2>4. (i - 1) + (Len(s) - i) = Len(s) - 1
      OBVIOUS
    <2>5. /\ RemoveAt(s, i) \in Seq(S) /\ Len(RemoveAt(s, i)) = Len(s) - 1
          /\ \A j \in 1..(Len(s) - 1) :
                RemoveAt(s, i)[j] = IF j <= i - 1 THEN f[j] ELSE g[j - (i - 1)]
      BY <2>1, <2>2, <2>3, <2>4
    <2> QED BY <2>5 DEF f, g
  <1>6. ASSUME NEW j \in 1..(Len(s) - 1)
        PROVE  RemoveAt(s, i)[j] \in Range(s)
    <2>1. CASE j < i
      <3>1. RemoveAt(s, i)[j] = s[j]
        <4>1. j <= i - 1 /\ j \in 1..(i - 1)
          BY <2>1
        <4> QED BY <1>3, <1>5, <4>1
      <3> QED BY <3>1 DEF Range
    <2>2. CASE j >= i
      <3>1. RemoveAt(s, i)[j] = SubSeq(s, i + 1, Len(s))[j - (i - 1)]
        BY <1>5, <2>2
      <3>2. j - (i - 1) \in 1..(Len(s) - i)
        BY <2>2
      <3>3. RemoveAt(s, i)[j] = s[j + 1]
        BY <3>1, <3>2, <1>4
      <3> QED BY <3>3, <2>2 DEF Range
    <2> QED BY <2>1, <2>2
  <1> QED BY <1>5, <1>6 DEF Range

(* The members of sequences made from others. *)
LEMMA PartOf ==
    ASSUME NEW S, NEW s \in Seq(S), NEW i \in Nat, NEW j \in Nat, 1 <= i, j <= Len(s)
    PROVE  /\ SubSeq(s, i, j) \in Seq(S)
           /\ Range(SubSeq(s, i, j)) \subseteq Range(s)
  <1>1. SubSeq(s, i, j) \in Seq(S)
    OBVIOUS
  <1>2. \A n \in 1..Len(SubSeq(s, i, j)) : SubSeq(s, i, j)[n] = s[i + n - 1] /\ i + n - 1 \in 1..Len(s)
    OBVIOUS
  <1> QED BY <1>1, <1>2 DEF Range

(* Appending adds one member. *)
LEMMA Grown ==
    ASSUME NEW S, NEW s \in Seq(S), NEW e \in S
    PROVE  /\ Append(s, e) \in Seq(S) /\ Len(Append(s, e)) = Len(s) + 1
           /\ Range(Append(s, e)) = Range(s) \cup {e}
  <1>1. Append(s, e) \in Seq(S) /\ Len(Append(s, e)) = Len(s) + 1
    OBVIOUS
  <1>2. \A n \in 1..Len(s) : Append(s, e)[n] = s[n]
    OBVIOUS
  <1>3. Append(s, e)[Len(s) + 1] = e
    OBVIOUS
  <1> QED BY <1>1, <1>2, <1>3 DEF Range

(* A sequence that is not empty has a head; its tail adds nothing. *)
LEMMA Shrunk ==
    ASSUME NEW S, NEW s \in Seq(S), s # <<>>
    PROVE  /\ Head(s) \in S /\ Head(s) \in Range(s)
           /\ Tail(s) \in Seq(S) /\ Range(Tail(s)) \subseteq Range(s)
  <1>1. \A n \in 1..Len(Tail(s)) : Tail(s)[n] = s[n + 1] /\ n + 1 \in 1..Len(s)
    OBVIOUS
  <1>2. Head(s) \in S /\ Tail(s) \in Seq(S) /\ Head(s) = s[1] /\ 1 \in 1..Len(s)
    OBVIOUS
  <1> QED BY <1>1, <1>2 DEF Range

(* The members of a sequence over S. *)
LEMMA Members ==
    ASSUME NEW S, NEW s \in Seq(S)
    PROVE  Range(s) \subseteq S
  BY DEF Range

(* The member of a sequence of one. *)
LEMMA Singles ==
    ASSUME NEW x
    PROVE  Range(<<x>>) = {x}
  BY DEF Range

(* The empty sequence has no members. *)
LEMMA Nothing == Range(<<>>) = {}
  BY DEF Range

(***************************************************************************)
(* Registration and login.                                                 *)
(***************************************************************************)
(* A finite set of numbers has a greatest element, and Max chooses it. *)
LEMMA MaxOf ==
    ASSUME NEW S \in SUBSET Int, S # {}, IsFiniteSet(S)
    PROVE  Max(S) \in S /\ \A x \in S : x <= Max(S)
<1> DEFINE From(k) == {x \in S : k <= x}
           tops == {From(k) : k \in S}
           R == StrictSubsetOrdering(S)
<1>1. IsWellFoundedOn(R, FiniteSubsetsOf(S))
    BY FS_StrictSubsetOrderingWellFounded
<1>2. tops \subseteq FiniteSubsetsOf(S)
    BY FS_FiniteSubsetsOfFinite
<1>3. PICK T \in tops : \A Q \in tops : <<Q, T>> \notin R
    <2> HIDE DEF tops, R
    <2>1. tops # {}
        BY DEF tops
    <2> QED BY <1>1, <1>2, <2>1, WFMin
<1>4. PICK k \in S : T = From(k)
    OBVIOUS
<1>5. ASSUME NEW x \in S PROVE x <= k
    <2> SUFFICES ASSUME k < x PROVE FALSE
        OBVIOUS
    <2>1. From(x) \subseteq From(k) /\ From(x) # From(k)
        <3>1. ASSUME NEW y \in S, x <= y PROVE k <= y
            <4>1. k \in Int /\ x \in Int /\ y \in Int
                OBVIOUS
            <4> QED BY <3>1, <4>1
        <3>2. k \in From(k) /\ k \notin From(x)
            OBVIOUS
        <3> QED BY <3>1, <3>2
    <2>2. <<From(x), From(k)>> \in R
        BY <2>1 DEF StrictSubsetOrdering
    <2> QED BY <1>3, <1>4, <2>2
<1>6. \E x \in S : \A y \in S : x >= y
    BY <1>5
<1> QED BY <1>6 DEF Max

(* The greatest of some ids. *)
LEMMA MaxId ==
    ASSUME NEW S \in SUBSET Ids, S # {}
    PROVE  Max(S) \in S /\ \A x \in S : x <= Max(S)
  <1>1. IsFiniteSet(Ids) /\ Ids \in SUBSET Int
    <2>1. Running \in Int
      BY StartAssumption DEF Running
    <2> QED BY <2>1, FS_Interval DEF Ids
  <1>2. IsFiniteSet(S)
    BY <1>1, FS_Subset
  <1> QED BY <1>1, <1>2, MaxOf

(* The program counter of a client that runs; with BundleSize > 0. *)
LEMMA RunningIs == Running \in Nat /\ Running > 12 /\ 0 \in Nat /\ Off = 0
  BY StartAssumption DEF Running, Off

(* Where in the registration each step is. *)
LEMMA StepAt ==
    /\ DOMAIN Registration = 1..(Running - 1)
    /\ \A i \in 1..(Running - 1) :
         /\ Registration[i] = "identity" => i = 1
         /\ Registration[i] = "register" => i = 6
         /\ Registration[i] = "account" => i = 7
         /\ Registration[i] = "publish" => i = Running - 1
         /\ Registration[i] = "oneTime" => i > 7
         /\ Registration[i] = "signed" => i \in {2, 3} \/ i > 7
         /\ Registration[i] = "kyber" => i \in {4, 5} \/ i > 7
  <1> DEFINE B == BundleSize
  <1>1. B \in Nat \ {0}
    BY StartAssumption
  <1>2. Running - 1 = 2 * B + 10
    BY <1>1 DEF Running
  <1>3. DOMAIN Registration = 1..(Running - 1)
    BY <1>2 DEF Registration
  <1>4. ASSUME NEW i \in 1..7
        PROVE  Registration[i] = AccountSteps[i]
    <2>1. i \in 1..(2 * BundleSize + 10)
      BY <1>1
    <2> QED BY <2>1 DEF Registration
  <1>5. ASSUME NEW i \in 8..(2 * BundleSize + 7)
        PROVE  Registration[i] \in {"oneTime", "kyber"} /\ i > 7
    <2>1. i \in 1..(2 * BundleSize + 10) /\ i \notin 1..7
      BY <1>1
    <2> QED BY <2>1 DEF Registration
  <1>6. ASSUME NEW i \in (2 * BundleSize + 8)..(2 * BundleSize + 10)
        PROVE  Registration[i] = LastSteps[i - 2 * BundleSize - 7] /\ i > 7
    <2>1. i \in 1..(2 * BundleSize + 10) /\ i \notin 1..7 /\ i \notin 8..(2 * BundleSize + 7)
      BY <1>1
    <2> QED BY <2>1 DEF Registration
  <1>7. ASSUME NEW i \in 1..7
        PROVE  /\ AccountSteps[i] = "identity" => i = 1
               /\ AccountSteps[i] = "register" => i = 6
               /\ AccountSteps[i] = "account" => i = 7
               /\ AccountSteps[i] \notin {"publish", "oneTime"}
               /\ AccountSteps[i] = "signed" => i \in {2, 3}
               /\ AccountSteps[i] = "kyber" => i \in {4, 5}
    <2>1. i \in {1, 2, 3, 4, 5, 6, 7}
      OBVIOUS
    <2> QED BY <2>1 DEF AccountSteps
  <1>8. ASSUME NEW j \in 1..3
        PROVE  LastSteps[j] \in {"signed", "kyber", "publish"} /\ (LastSteps[j] = "publish" => j = 3)
    <2>1. j \in {1, 2, 3}
      OBVIOUS
    <2> QED BY <2>1 DEF LastSteps
  <1>9. ASSUME NEW i \in 1..(Running - 1)
        PROVE  i \in 1..7 \/ i \in 8..(2 * BundleSize + 7)
               \/ (i \in (2 * BundleSize + 8)..(2 * BundleSize + 10) /\ i - 2 * BundleSize - 7 \in 1..3
                   /\ (i - 2 * BundleSize - 7 = 3 => i = Running - 1))
    BY <1>1, <1>2
  <1>10. ASSUME NEW i \in 1..(Running - 1)
         PROVE  /\ Registration[i] = "identity" => i = 1
                /\ Registration[i] = "register" => i = 6
                /\ Registration[i] = "account" => i = 7
                /\ Registration[i] = "publish" => i = Running - 1
                /\ Registration[i] = "oneTime" => i > 7
                /\ Registration[i] = "signed" => i \in {2, 3} \/ i > 7
                /\ Registration[i] = "kyber" => i \in {4, 5} \/ i > 7
    <2>1. CASE i \in 1..7
      BY <2>1, <1>4, <1>7
    <2>2. CASE i \in 8..(2 * BundleSize + 7)
      BY <2>2, <1>5
    <2>3. CASE i \in (2 * BundleSize + 8)..(2 * BundleSize + 10)
      <3>1. Registration[i] = LastSteps[i - 2 * BundleSize - 7] /\ i > 7
        BY <2>3, <1>6
      <3>2. i - 2 * BundleSize - 7 \in 1..3 /\ (i - 2 * BundleSize - 7 = 3 => i = Running - 1)
        BY <2>3, <1>1, <1>2
      <3> HIDE DEF B
      <3>3. /\ Registration[i] \in {"signed", "kyber", "publish"}
            /\ Registration[i] = "publish" => i = Running - 1
        BY <3>1, <3>2, <1>8
      <3> QED BY <3>1, <3>3
    <2> QED BY <1>9, <2>1, <2>2, <2>3
  <1> QED BY <1>3, <1>10

(* The step a registration is at. *)
LEMMA WhereAt ==
    ASSUME NEW step, At(step)
    PROVE  /\ pc \in 1..(Running - 1)
           /\ step = "identity" => pc = 1
           /\ step = "register" => pc = 6
           /\ step = "account" => pc = 7
           /\ step = "publish" => pc = Running - 1
           /\ step = "oneTime" => pc > 7
           /\ step = "signed" => pc \in {2, 3} \/ pc > 7
           /\ step = "kyber" => pc \in {4, 5} \/ pc > 7
  BY StepAt DEF At

(* What a step of the registration that makes a key of kind k changes. *)
LEMMA GeneratedKeeps ==
    ASSUME StartOK, KeysOK, NEW k \in Kinds, At(k), identity,
           k = "oneTime" => pc > 7,
           keys' = [keys EXCEPT ![k] = @ \cup {next[k]}], Generated(k)
    PROVE  StartOK' /\ KeysOK'
  <1> USE RunningIs
  <1>1. /\ pc \in 1..(Running - 1) /\ pc' = pc + 1
        /\ k = "oneTime" => pc > 7
        /\ k = "signed" => pc \in {2, 3} \/ pc > 7
        /\ k = "kyber" => pc \in {4, 5} \/ pc > 7
    BY WhereAt DEF Generated, Advance
  <1>2. UNCHANGED <<file, identity, account, registered, published, given>>
    BY DEF Generated, server
  <1>3. /\ next' = [next EXCEPT ![k] = @ + 1]
        /\ request' = [request EXCEPT ![k] = @ \cup {next[k]}]
    BY DEF Generated
  <1>4. next \in [Kinds -> Ids] /\ keys \in [Kinds -> SUBSET Ids] /\ request \in [Kinds -> SUBSET Ids]
    BY DEF StartOK, StartTypeOK
  <1>5. next[k] \in 1..pc
    BY <1>1, <1>4 DEF KeysOK, KeyOK, Registering, Ids
  <1>6. next' \in [Kinds -> Ids] /\ keys' \in [Kinds -> SUBSET Ids] /\ request' \in [Kinds -> SUBSET Ids]
    <2>1. next[k] \in Ids /\ next[k] + 1 \in Ids
      BY <1>1, <1>5 DEF Ids
    <2> QED BY <1>3, <1>4, <2>1
  <1>7. StartTypeOK'
    <2>1. pc' \in Off..Running
      BY <1>1
    <2> QED BY <1>2, <1>6, <2>1 DEF StartOK, StartTypeOK
  <1>8. /\ k = "signed" => request'["signed"] # {}
        /\ k # "signed" => request'["signed"] = request["signed"]
        /\ k = "kyber" => request'["kyber"] # {}
        /\ k # "kyber" => request'["kyber"] = request["kyber"]
        /\ k # "oneTime" => request'["oneTime"] = request["oneTime"]
    BY <1>3, <1>4 DEF Kinds
  <1>9. /\ pc' \in 3..6 => request'["signed"] # {}
        /\ pc' \in 5..6 => request'["kyber"] # {}
        /\ pc' \in 1..6 => request'["oneTime"] = {}
    <2>1. /\ pc \in 3..6 => request["signed"] # {}
          /\ pc \in 5..6 => request["kyber"] # {}
          /\ pc \in 1..6 => request["oneTime"] = {}
      BY DEF StartOK
    <2>2. k \in {"oneTime", "signed", "kyber"}
      BY DEF Kinds
    <2> QED BY <1>1, <1>8, <2>1, <2>2
  <1>10. file /\ (pc' >= 7 => registered)
    <2>1. file
      BY <1>1 DEF StartOK
    <2>2. pc' >= 7 => pc >= 7
      <3>1. pc # 6
        BY <1>1 DEF Kinds
      <3> QED BY <1>1, <3>1
    <2> QED BY <2>1, <2>2 DEF StartOK
  <1>11. StartOK'
    BY <1>1, <1>2, <1>7, <1>9, <1>10 DEF StartOK
  <1>12. Registering
    BY <1>1 DEF Registering
  <1>13. ASSUME NEW j \in Kinds
         PROVE  KeyOK(j)'
    <2>1. KeyOK(j)
      BY DEF KeysOK
    <2>2. CASE j = k
      <3>1. keys'[j] = keys[j] \cup {next[j]} /\ next'[j] = next[j] + 1 /\ request'[j] = request[j] \cup {next[j]}
        BY <1>3, <1>4, <2>2
      <3>2. next[j] \in 1..(Running - 1) /\ next[j] + 1 <= pc'
        BY <1>1, <1>5, <2>2
      <3>3. keys'[j] \subseteq 1..(Running - 1)
        BY <2>1, <3>1, <3>2 DEF KeyOK
      <3>4. \A i \in keys'[j] : i < next'[j]
        <4>1. \A i \in keys[j] : i < next[j] /\ i \in Int
          BY <1>1, <2>1 DEF KeyOK
        <4> QED BY <3>1, <3>2, <4>1
      <3>5. request'[j] \subseteq keys'[j]
        BY <1>12, <2>1, <3>1 DEF KeyOK
      <3> QED BY <1>2, <2>1, <3>1, <3>2, <3>3, <3>4, <3>5 DEF KeyOK
    <2>3. CASE j # k
      <3>1. keys'[j] = keys[j] /\ next'[j] = next[j] /\ request'[j] = request[j]
        BY <1>3, <1>4, <2>3
      <3>2. next[j] <= pc'
        BY <1>1, <1>4, <1>12, <2>1 DEF KeyOK, Ids
      <3> QED BY <1>1, <1>2, <1>12, <2>1, <3>1, <3>2 DEF KeyOK
    <2> QED BY <2>2, <2>3
  <1>14. (Registering => given["oneTime"] = {})'
    BY <1>2, <1>12 DEF KeysOK
  <1>15. KeysOK'
    BY <1>13, <1>14 DEF KeysOK
  <1> QED BY <1>11, <1>15

(* What a request to the server changes. *)
LEMMA PublishKeeps ==
    ASSUME StartOK, KeysOK, Registering, Publish, request' = None,
           UNCHANGED <<file, identity, account, keys, next>>,
           pc' \in {Off, pc + 1}, registered' \in BOOLEAN, registered => registered',
           \/ pc = 6 /\ registered'
           \/ pc = Running - 1
    PROVE  StartOK' /\ KeysOK'
  <1> USE RunningIs
  <1>1. pc \in 1..(Running - 1)
    BY DEF Registering
  <1>2. /\ published \in [Kinds -> SUBSET Ids] /\ given \in [Kinds -> SUBSET Ids]
        /\ request \in [Kinds -> SUBSET Ids] /\ keys \in [Kinds -> SUBSET Ids]
    BY DEF StartOK, StartTypeOK
  <1>3. \A k \in Kinds : /\ published'[k] = published[k] \cup request[k]
                         /\ given'[k] = given[k] \cup request[k]
                         /\ request'[k] = {}
    BY DEF Publish, None
  <1>4. /\ published' \in [Kinds -> SUBSET Ids] /\ given' \in [Kinds -> SUBSET Ids]
        /\ request' \in [Kinds -> SUBSET Ids]
    BY <1>2 DEF Publish, None
  <1>5. StartTypeOK'
    BY <1>1, <1>4 DEF StartOK, StartTypeOK
  <1>6. registered'
    BY <1>1 DEF StartOK
  <1>7. file /\ identity
    BY <1>1 DEF StartOK
  <1>8. published'["signed"] # {} /\ published'["kyber"] # {}
    <2>1. registered \/ (request["signed"] # {} /\ request["kyber"] # {})
      BY <1>1 DEF StartOK
    <2> QED BY <1>3, <2>1 DEF StartOK, Kinds
  <1>9. request'["oneTime"] = {} /\ pc' \notin 3..6
    BY <1>1, <1>3 DEF Kinds
  <1>10. StartOK'
    BY <1>5, <1>6, <1>7, <1>8, <1>9 DEF StartOK
  <1>11. ASSUME NEW k \in Kinds
         PROVE  KeyOK(k)'
    <2>1. KeyOK(k) /\ request[k] \subseteq keys[k]
      BY DEF KeysOK, KeyOK
    <2>2. next[k] <= pc /\ next[k] \in Int
      BY <2>1 DEF KeyOK, StartOK, StartTypeOK, Ids
    <2>3. published'[k] \subseteq keys[k] /\ published'[k] \subseteq given'[k]
      BY <1>3, <2>1 DEF KeyOK
    <2>4. k # "oneTime" => given'[k] \subseteq keys[k]
      BY <1>3, <2>1 DEF KeyOK
    <2>5. pc' # Off => next[k] <= pc'
      BY <1>1, <2>2
    <2>6. Registering' => request'[k] \subseteq keys[k] /\ next[k] <= pc'
      BY <1>3, <2>5 DEF Registering
    <2> QED BY <1>1, <2>1, <2>3, <2>4, <2>6 DEF KeyOK
  <1>12. (Registering => given["oneTime"] = {})'
    <2>1. CASE pc = 6
      <3>1. request["oneTime"] = {} /\ given["oneTime"] = {}
        BY <2>1 DEF StartOK, KeysOK
      <3> QED BY <1>3, <3>1 DEF Kinds
    <2>2. CASE pc = Running - 1
      BY <2>2 DEF Registering
    <2> QED BY <2>1, <2>2
  <1> QED BY <1>10, <1>11, <1>12 DEF KeysOK

(* A step of registration or login. *)
LEMMA StartKeeps ==
    ASSUME StartOK, KeysOK, StartNext
    PROVE  StartOK' /\ KeysOK'
  <1> USE RunningIs
  <1>0. /\ file \in BOOLEAN /\ identity \in BOOLEAN /\ account \in BOOLEAN /\ registered \in BOOLEAN
        /\ keys \in [Kinds -> SUBSET Ids] /\ request \in [Kinds -> SUBSET Ids]
        /\ published \in [Kinds -> SUBSET Ids] /\ given \in [Kinds -> SUBSET Ids]
        /\ next \in [Kinds -> Ids] /\ pc \in Off..Running
    BY DEF StartOK, StartTypeOK
  <1>1. CASE Register
    <2>1. pc = Off /\ ~file /\ file' = TRUE /\ next' = FirstIds /\ request' = None /\ pc' = 1
          /\ UNCHANGED <<identity, account, keys, registered, published, given>>
      BY <1>1 DEF Register, server
    <2>2. /\ ~registered /\ ~account
          /\ \A k \in Kinds : keys[k] = {} /\ published[k] = {} /\ given[k] = {}
      BY <2>1 DEF StartOK
    <2>3. \A k \in Kinds : next'[k] = 1 /\ request'[k] = {}
      BY <2>1 DEF FirstIds, None
    <2>4. next' \in [Kinds -> Ids] /\ request' \in [Kinds -> SUBSET Ids]
      BY <2>1 DEF FirstIds, None, Ids
    <2>5. StartTypeOK'
      BY <1>0, <2>1, <2>4 DEF StartTypeOK
    <2>6. StartOK'
      BY <2>1, <2>2, <2>3, <2>5 DEF StartOK, Kinds
    <2>7. \A k \in Kinds : KeyOK(k)'
      BY <2>1, <2>2, <2>3 DEF KeyOK, Registering
    <2>8. given'["oneTime"] = {}
      BY <2>1, <2>2 DEF Kinds
    <2> QED BY <2>6, <2>7, <2>8 DEF KeysOK
  <1>2. CASE InsertIdentity
    <2>1. pc = 1
      BY <1>2, WhereAt DEF InsertIdentity
    <2>2. identity' = TRUE /\ pc' = 2
          /\ UNCHANGED <<file, account, keys, next, request, registered, published, given>>
      BY <1>2, <2>1 DEF InsertIdentity, server, Advance
    <2>3. StartTypeOK'
      BY <1>0, <2>2 DEF StartTypeOK
    <2>4. StartOK'
      BY <2>1, <2>2, <2>3 DEF StartOK
    <2>5. Registering /\ \A k \in Kinds : next[k] \in Int
      BY <1>0, <2>1 DEF Registering, Ids
    <2>6. \A k \in Kinds : KeyOK(k)'
      BY <2>1, <2>2, <2>5 DEF KeysOK, KeyOK, Registering
    <2> QED BY <2>2, <2>4, <2>5, <2>6 DEF KeysOK
  <1>3. CASE GeneratePreKey
    <2>1. pc > 7 /\ pc \in 1..(Running - 1)
      BY <1>3, WhereAt DEF GeneratePreKey
    <2>2. identity
      BY <2>1 DEF StartOK
    <2> QED BY <1>3, <2>1, <2>2, GeneratedKeeps DEF GeneratePreKey, SavePreKey, Kinds
  <1>4. CASE GenerateSignedPreKey
    BY <1>4, GeneratedKeeps DEF GenerateSignedPreKey, SaveSignedPreKey, Kinds
  <1>5. CASE GenerateKyberPreKey
    BY <1>5, GeneratedKeeps DEF GenerateKyberPreKey, SaveKyberPreKey, Kinds
  <1>6. CASE RequestAccount
    <2>1. pc = 6 /\ Registering
      BY <1>6, WhereAt DEF RequestAccount, Registering
    <2>2. request' = None /\ UNCHANGED <<file, identity, account, keys, next>>
      BY <1>6 DEF RequestAccount
    <2>3. CASE registered' = TRUE /\ Publish /\ (pc' = pc + 1 \/ pc' = Off)
      BY <2>1, <2>2, <2>3, PublishKeeps
    <2>4. CASE pc' = Off /\ UNCHANGED <<registered, published, given>>
      BY <1>0, <2>1, <2>2, <2>4 DEF StartOK, StartTypeOK, KeysOK, KeyOK, Registering, None
    <2> QED BY <1>6, <2>3, <2>4 DEF RequestAccount, Advance
  <1>7. CASE InsertAccount
    <2>1. pc = 7
      BY <1>7, WhereAt DEF InsertAccount
    <2>2. account' = TRUE /\ pc' = 8
          /\ UNCHANGED <<file, identity, keys, next, request, registered, published, given>>
      BY <1>7, <2>1 DEF InsertAccount, server, Advance
    <2>3. StartTypeOK'
      BY <1>0, <2>2 DEF StartTypeOK
    <2>4. StartOK'
      BY <2>1, <2>2, <2>3 DEF StartOK
    <2>5. Registering /\ \A k \in Kinds : next[k] \in Int
      BY <1>0, <2>1 DEF Registering, Ids
    <2>6. \A k \in Kinds : KeyOK(k)'
      BY <2>1, <2>2, <2>5 DEF KeysOK, KeyOK, Registering
    <2> QED BY <2>2, <2>4, <2>5, <2>6 DEF KeysOK
  <1>8. CASE PublishBundle
    <2>1. pc = Running - 1 /\ Registering
      BY <1>8, WhereAt DEF PublishBundle, Registering
    <2>2. request' = None /\ UNCHANGED <<file, identity, account, keys, next, registered>>
      BY <1>8 DEF PublishBundle
    <2>3. CASE Publish /\ (pc' = pc + 1 \/ pc' = Off)
      BY <1>0, <2>1, <2>2, <2>3, PublishKeeps
    <2>4. CASE pc' = Off /\ UNCHANGED <<published, given>>
      BY <1>0, <2>1, <2>2, <2>4 DEF StartOK, StartTypeOK, KeysOK, KeyOK, Registering, None
    <2> QED BY <1>8, <2>3, <2>4 DEF PublishBundle, Advance
  <1>9. CASE Login
    <2>1. /\ file /\ account /\ registered /\ pc = Off /\ pc' = Running
          /\ next' = [k \in Kinds |-> GetKeyId(k) + 1]
          /\ UNCHANGED <<file, identity, account, keys, request, registered, published, given>>
      BY <1>9 DEF Login, server, GetPassword
    <2>2. ASSUME NEW k \in Kinds
          PROVE  GetKeyId(k) + 1 \in Ids /\ \A i \in keys[k] : i < GetKeyId(k) + 1
      <3>1. keys[k] \subseteq 1..(Running - 1) /\ keys[k] \in SUBSET Ids
        BY <1>0 DEF KeysOK, KeyOK
      <3>2. CASE keys[k] = {}
        BY <3>2 DEF GetKeyId, Ids
      <3>3. CASE keys[k] # {}
        <4>1. Max(keys[k]) \in keys[k] /\ \A x \in keys[k] : x <= Max(keys[k])
          BY <3>1, <3>3, MaxId
        <4>2. GetKeyId(k) = Max(keys[k])
          BY <3>3 DEF GetKeyId
        <4>3. GetKeyId(k) \in 1..(Running - 1)
          BY <3>1, <4>1, <4>2
        <4>4. \A i \in keys[k] : i < GetKeyId(k) + 1
          BY <3>1, <4>1, <4>2
        <4> QED BY <4>3, <4>4 DEF Ids
      <3> QED BY <3>2, <3>3
    <2>3. next' \in [Kinds -> Ids]
      BY <2>1, <2>2
    <2>4. StartTypeOK'
      BY <1>0, <2>1, <2>3 DEF StartTypeOK
    <2>5. StartOK'
      BY <2>1, <2>4 DEF StartOK
    <2>6. \A k \in Kinds : next'[k] = GetKeyId(k) + 1
      BY <2>1
    <2>7. ~Registering'
      BY <2>1 DEF Registering
    <2>8. \A k \in Kinds : KeyOK(k)'
      BY <2>1, <2>2, <2>6, <2>7 DEF KeysOK, KeyOK
    <2> QED BY <2>5, <2>7, <2>8 DEF KeysOK
  <1> QED BY <1>1, <1>2, <1>3, <1>4, <1>5, <1>6, <1>7, <1>8, <1>9 DEF StartNext

(* The keys a peer gets, the one-time key the client has used, and the end *)
(* of the process.                                                         *)
LEMMA OtherStartKeeps ==
    ASSUME StartOK, KeysOK, UNCHANGED <<file, identity, account, next, request, registered, given>>,
           pc' = pc \/ pc' = Off,
           published' \in [Kinds -> SUBSET Ids], keys' \in [Kinds -> SUBSET Ids],
           \A k \in Kinds : /\ published'[k] \subseteq published[k] /\ keys'[k] \subseteq keys[k]
                            /\ published'[k] \subseteq keys'[k]
                            /\ k # "oneTime" => published'[k] = published[k] /\ keys'[k] = keys[k],
           Registering => keys' = keys
    PROVE  StartOK' /\ KeysOK'
  <1> USE RunningIs
  <1>1. StartTypeOK'
    BY DEF StartOK, StartTypeOK
  <1>2. published'["signed"] = published["signed"] /\ published'["kyber"] = published["kyber"]
    BY DEF Kinds
  <1>3. \A k \in Kinds : published[k] = {} => published'[k] = {}
    OBVIOUS
  <1>4. \A k \in Kinds : keys[k] = {} => keys'[k] = {}
    OBVIOUS
  <1>5. StartOK'
    BY <1>1, <1>2, <1>3, <1>4 DEF StartOK
  <1>6. Registering' => Registering /\ pc' = pc
    BY DEF Registering
  <1>7. ASSUME NEW k \in Kinds
        PROVE  KeyOK(k)'
    <2>1. KeyOK(k)
      BY DEF KeysOK
    <2>2. published'[k] \subseteq given[k] /\ (k # "oneTime" => given[k] \subseteq keys'[k])
      BY <2>1 DEF KeyOK
    <2> QED BY <1>6, <2>1, <2>2 DEF KeyOK
  <1>8. (Registering => given["oneTime"] = {})'
    BY <1>6 DEF KeysOK
  <1> QED BY <1>5, <1>7, <1>8 DEF KeysOK

(***************************************************************************)
(* Calls of libsignal.                                                     *)
(***************************************************************************)
(* The record of a conversation is of the peer and the traffic of it. *)
LEMMA RecordIs ==
    ASSUME StoreTypes, SessionsPinned, Placed, NEW a \in Talks
    PROVE  /\ RecordOf(a) \in Records /\ All(RecordOf(a)) \in SUBSET Session
           /\ TrustedOf(a) \in Identities \cup {NoKey}
           /\ \A s \in All(RecordOf(a)) :
                 /\ s.talk.channel = a.channel /\ s.talk.peer = a.peer
                 /\ s.talk.identity = TrustedOf(a)
  <1>1. a.channel \in Channels /\ a.peer \in Peers
    BY TalkHolds
  <1>2. /\ SessionStore(a.channel) = Tables[a.channel].sessions /\ SessionStore(a.channel) \in SessionTables
        /\ IdentityStore(a.channel) = Tables[a.channel].identities /\ IdentityStore(a.channel) \in IdentityTables
    BY <1>1, StoreNames
  <1>3. /\ RecordOf(a) = sessions[SessionStore(a.channel)][a.peer]
        /\ TrustedOf(a) = trusted[IdentityStore(a.channel)][a.peer]
    BY DEF RecordOf, TrustedOf, LoadSession, GetIdentity
  <1>4. RecordOf(a) \in Records /\ TrustedOf(a) \in Identities \cup {NoKey}
    BY <1>1, <1>2, <1>3 DEF StoreTypes
  <1>5. All(RecordOf(a)) \in SUBSET Session
    BY <1>4 DEF Records, All
  <1>6. \A s \in All(RecordOf(a)) : s.talk.channel = a.channel /\ s.talk.identity = TrustedOf(a)
    BY <1>1, <1>2, <1>3 DEF SessionsPinned
  <1>7. \A s \in All(RecordOf(a)) : s.talk.peer = a.peer
    BY <1>1, <1>2, <1>3 DEF Placed
  <1> QED BY <1>4, <1>5, <1>6, <1>7

(* What a call of libsignal is going to write. *)
LEMMA CallMade ==
    ASSUME StoreTypes, SessionsPinned, Placed, NEW a \in Talks,
           IsTrusted(IdentityStore(a.channel), a.peer, a.identity),
           NEW ns \in SUBSET (1..MaxLetters),
           NEW u, u.talk = a, u.record = Promoted(a, RecordOf(a), ns),
           \A l \in Range(u.letter) : l.n \in ns
    PROVE  /\ u.record \in Records
           /\ ToStore(u)
           /\ \A s \in All(u.record) : s.talk = a \/ s \in All(RecordOf(a))
  <1> DEFINE new == Promoted(a, RecordOf(a), ns)
  <1>2. RecordOf(a) \in Records
    BY RecordIs
  <1>3. /\ new \in Records
        /\ \A r \in All(new) : r.talk = a \/ r \in All(RecordOf(a))
        /\ \A s \in All(RecordOf(a)) : \E r \in All(new) : r.talk = s.talk /\ s.ns \subseteq r.ns
        /\ \E r \in All(new) : r.talk = a /\ ns \subseteq r.ns
    BY <1>2, PromotedHolds
  <1>4. u.record = new
    OBVIOUS
  <1> HIDE DEF new
  <1>5. TrustedOf(a) \in {NoKey, a.identity}
    BY DEF IsTrusted, TrustedOf
  <1>6. ASSUME NEW s \in All(new)
        PROVE  Beside(s, a)
    <2>1. CASE s.talk = a
      BY <2>1 DEF Beside
    <2>2. CASE s \in All(RecordOf(a))
      <3>1. s.talk.channel = a.channel /\ s.talk.peer = a.peer /\ s.talk.identity = TrustedOf(a)
        BY <2>2, RecordIs
      <3>2. s.talk.identity # NoKey
        <4>1. s.talk \in Talks
          BY <2>2, RecordIs DEF Session
        <4> QED BY <4>1, TalkHolds
      <3> QED BY <1>5, <3>1, <3>2 DEF Beside
    <2> QED BY <1>3, <2>1, <2>2
  <1>7. \E r \in All(new) : r.talk = a /\ \A l \in Range(u.letter) : l.n \in r.ns
    BY <1>3
  <1>9. ToStore(u)
    BY <1>3, <1>4, <1>5, <1>6, <1>7 DEF ToStore
  <1> QED BY <1>3, <1>4, <1>9

(* A message that is read, which was not read before; or the end. *)
LEMMA Reads ==
    ASSUME StoreTypes, SessionsPinned, Placed, HistoryOK,
           NEW l \in Letters, NEW then \in Seq(Letters), Decrypt(l, then)
    PROVE  \/ /\ UNCHANGED <<pc, reading>>
              /\ l \notin read
              /\ \E u \in Calls :
                    /\ task' = <<u>> /\ u.left \in SUBSET {"identity", "session", "key"}
                    /\ {"identity", "session"} \subseteq u.left
                    /\ u.talk = l.talk /\ u.letter = <<l>> /\ u.then = then
                    /\ ToStore(u)
                    /\ \A s \in All(u.record) : s.talk = l.talk \/ s \in All(RecordOf(l.talk))
           \/ End
  <1>1. CASE Decrypts(l)
    <2>1. l.talk \in Talks /\ l.n \in 1..MaxLetters
      BY DEF Letters
    <2>2. IsTrusted(IdentityStore(l.talk.channel), l.talk.peer, l.talk.identity)
      BY <1>1 DEF Decrypts
    <2>3. l \notin read
      <3>1. SUFFICES ASSUME AlreadyRead(l) PROVE FALSE
        BY DEF HistoryOK
      <3>2. PICK s \in All(RecordOf(l.talk)) : s.talk = l.talk /\ l.n \in s.ns
        BY <3>1 DEF AlreadyRead, RecordOf, LoadSession
      <3>3. s \in Sessions(l.talk, RecordOf(l.talk))
        BY <3>2 DEF Sessions
      <3>4. l.n \notin s.ns
        BY <1>1, <3>3 DEF Decrypts, RecordOf
      <3> QED BY <3>2, <3>4
    <2>4. PICK left \in SUBSET {"identity", "session", "key", "next"} :
             /\ left \in SUBSET {"identity", "session", "key"} /\ {"identity", "session"} \subseteq left
             /\ task' = Task(left, l.talk, {l.n}, <<l>>, FALSE, then)
             /\ UNCHANGED <<pc, reading>>
      BY <1>1 DEF Decrypt
    <2> DEFINE u == [left |-> left, talk |-> l.talk,
                     record |-> Promoted(l.talk, RecordOf(l.talk), {l.n}),
                     letter |-> <<l>>, sends |-> FALSE, then |-> then]
    <2>5. task' = <<u>>
      BY <2>4 DEF Task, RecordOf
    <2>6. /\ u.left = left /\ u.talk = l.talk /\ u.letter = <<l>> /\ u.then = then
          /\ u.record = Promoted(l.talk, RecordOf(l.talk), {l.n})
      OBVIOUS
    <2>7. u.record \in Records => u \in Calls
      <3>1. <<l>> \in Seq(Letters)
        OBVIOUS
      <3> QED BY <2>1, <3>1 DEF Calls
    <2> HIDE DEF u
    <2>8. (\A m \in Range(u.letter) : m.n \in {l.n}) /\ {l.n} \in SUBSET (1..MaxLetters)
      BY <2>1, <2>6, Singles
    <2>9. /\ u.record \in Records
          /\ ToStore(u)
          /\ \A s \in All(u.record) : s.talk = l.talk \/ s \in All(RecordOf(l.talk))
      BY <2>1, <2>2, <2>6, <2>8, CallMade
    <2> QED BY <2>3, <2>4, <2>5, <2>6, <2>7, <2>9
  <1>2. CASE ~Decrypts(l)
    BY <1>2 DEF Decrypt
  <1> QED BY <1>1, <1>2

(***************************************************************************)
(* Conversations.                                                          *)
(***************************************************************************)
LEMMA AllInTalks ==
    StoreTypes => AllTalks \in SUBSET Talks
  <1> SUFFICES ASSUME StoreTypes
               PROVE  AllTalks \in SUBSET Talks
    OBVIOUS
  <1>1. LetterTalks \in SUBSET Talks
    <2>1. \A l \in Range(queue) \cup Range(hidden) \cup read : l \in Letters
      BY Members DEF StoreTypes
    <2> QED BY <2>1 DEF LetterTalks, Letters
  <1>2. SessionTalks \in SUBSET Talks /\ written \in SUBSET Talks
    BY DEF SessionTalks, StoreTypes
  <1>3. ASSUME NEW u \in Calls
        PROVE  CallTalks(u) \in SUBSET Talks
    <2>1. u.talk \in Talks /\ u.letter \in Seq(Letters) /\ u.then \in Seq(Letters) /\ u.record \in Records
      BY DEF Calls
    <2>2. \A l \in Range(u.letter) \cup Range(u.then) : l.talk \in Talks
      BY <2>1, Members DEF Letters
    <2>3. \A s \in All(u.record) : s.talk \in Talks
      BY <2>1 DEF All, Records, Session
    <2> QED BY <2>1, <2>2, <2>3 DEF CallTalks
  <1>4. task # <<>> => CallTalks(task[1]) \in SUBSET Talks
    BY <1>3 DEF StoreTypes
  <1> QED BY <1>1, <1>2, <1>4 DEF AllTalks

(* The sessions of a conversation's record are among those of the tables. *)
LEMMA SessionsOf ==
    ASSUME StoreTypes, NEW a \in Talks
    PROVE  \A s \in All(RecordOf(a)) : s.talk \in SessionTalks
  <1>1. SessionStore(a.channel) \in SessionTables /\ a.peer \in Peers
    BY TalkHolds, StoreNames
  <1>2. sessions[SessionStore(a.channel)][a.peer] \in Records
    BY <1>1 DEF StoreTypes
  <1>3. ASSUME NEW s \in All(RecordOf(a))
        PROVE  s.talk \in SessionTalks
    <2>1. s \in All(sessions[SessionStore(a.channel)][a.peer])
      BY DEF RecordOf, LoadSession
    <2>2. s.talk \in Talks
      BY <1>2, <2>1 DEF All, Records, Session
    <2> QED BY <1>1, <2>1, <2>2 DEF SessionTalks
  <1> QED BY <1>3

(* What does not change while the tables do not. *)
LEMMA SameStores ==
    ASSUME UNCHANGED <<trusted, sessions>>
    PROVE  /\ \A a : RecordOf(a)' = RecordOf(a) /\ TrustedOf(a)' = TrustedOf(a)
           /\ \A a : HasSession(a)' <=> HasSession(a)
           /\ \A l : AlreadyRead(l)' <=> AlreadyRead(l)
           /\ \A u : ToStore(u)' <=> ToStore(u)
           /\ SessionTalks' = SessionTalks
           /\ SessionsPinned' <=> SessionsPinned
           /\ Placed' <=> Placed
  <1>1. \A a : RecordOf(a)' = RecordOf(a) /\ TrustedOf(a)' = TrustedOf(a)
    BY DEF RecordOf, TrustedOf, LoadSession, GetIdentity
  <1>2. \A a : HasSession(a)' <=> HasSession(a)
    BY <1>1 DEF HasSession
  <1>3. \A l : AlreadyRead(l)' <=> AlreadyRead(l)
    BY DEF AlreadyRead
  <1>4. \A u : ToStore(u)' <=> ToStore(u)
    BY <1>1 DEF ToStore
  <1>5. SessionTalks' = SessionTalks
    BY DEF SessionTalks
  <1>6. (SessionsPinned' <=> SessionsPinned) /\ (Placed' <=> Placed)
    BY DEF SessionsPinned, Placed
  <1> QED BY <1>1, <1>2, <1>3, <1>4, <1>5, <1>6

(* A step that neither makes, gives out nor removes a key, and that leaves *)
(* to each conversation what it had.                                       *)
LEMMA TalksKeep ==
    ASSUME StoreTypes, StoreTypes', TalksOK, talks <= talks',
           UNCHANGED <<keys, given, published>>,
           \A a \in AllTalks' : \/ a \in AllTalks /\ Opened(a)'
                                \/ a.id <= talks' /\ a.keys = None
    PROVE  TalksOK'
  <1>1. AllTalks \in SUBSET Talks /\ AllTalks' \in SUBSET Talks
    <2>1. (StoreTypes => AllTalks \in SUBSET Talks)'
      BY AllInTalks, PTL
    <2> QED BY <2>1, AllInTalks
  <1>2. talks \in Int /\ talks' \in Int
    BY DEF StoreTypes
  <1>3. \A k \in Kinds : None[k] = {}
    BY DEF None
  <1>4. "oneTime" \in Kinds
    BY DEF Kinds
  <1>5. ASSUME NEW a \in AllTalks'
        PROVE  TalkOK(a)'
    <2>1. CASE a \in AllTalks /\ Opened(a)'
      <3>1. TalkOK(a)
        BY <2>1 DEF TalksOK
      <3>2. a.id <= talks'
        BY <1>1, <1>2, <2>1, <3>1, TalkHolds DEF TalkOK
      <3>3. \A b \in AllTalks' : a # b => a.keys["oneTime"] \cap b.keys["oneTime"] = {}
        BY <1>3, <1>4, <3>1 DEF TalkOK
      <3> QED BY <2>1, <3>1, <3>2, <3>3 DEF TalkOK
    <2>2. CASE a.id <= talks' /\ a.keys = None
      <3>1. \A k \in Kinds : a.keys[k] = {}
        BY <1>3, <2>2
      <3>2. Opened(a)'
        BY <1>4, <3>1 DEF Opened
      <3> QED BY <1>4, <2>2, <3>1, <3>2 DEF TalkOK
    <2> QED BY <2>1, <2>2
  <1> QED BY <1>5 DEF TalksOK

(***************************************************************************)
(* A call begins, or fails at once and ends the process.                   *)
(***************************************************************************)
Begun(u) ==
    /\ u \in Calls /\ ToStore(u)
    /\ u.left \in SUBSET {"identity", "session", "key"} /\ {"identity", "session"} \subseteq u.left
    /\ \A l \in Range(u.letter) :
          l.talk = u.talk /\ l \notin read /\ (l.talk.channel = "regular" => reading < Len(queue))
    /\ \A l \in Range(u.then) : l.talk.channel = "deniable"

Starts ==
    /\ UNCHANGED <<file, identity, account, keys, next, request, registered, published, given>>
    /\ UNCHANGED <<trusted, sessions, queue, letters, written, read, reread, torn>>
    /\ hidden' \in Seq(Letters) /\ Range(hidden') \subseteq Range(hidden)
    /\ talks' \in talks..MaxTalks
    /\ pc = Running /\ (task # <<>> => "session" \notin task[1].left)
    /\ \/ /\ UNCHANGED <<pc, reading>>
          /\ \E u \in Calls :
                /\ Begun(u) /\ task' = <<u>>
                /\ \A a \in CallTalks(u) : a \in AllTalks \/ (a.id = talks' /\ a.keys = None)
       \/ End

(* A call that starts, or the end of the process instead: the tables stay, *)
(* a message that is taken to be read was on its way, and the conversation *)
(* of the call is one that was known, or a new one of the client's own.    *)
LEMMA StartsKeep ==
    ASSUME StoresInd, Starts
    PROVE  StoresInd'
  <1>0. /\ StoreTypes /\ StartOK /\ KeysOK /\ SessionsPinned /\ Placed /\ TaskOK
        /\ HistoryOK /\ MailOK /\ TalksOK /\ ReadOnce
    BY DEF StoresInd
  <1>1. /\ UNCHANGED <<file, identity, account, keys, next, request, registered, published, given>>
        /\ UNCHANGED <<trusted, sessions, queue, letters, written, read, reread, torn>>
        /\ hidden' \in Seq(Letters) /\ Range(hidden') \subseteq Range(hidden)
        /\ talks' \in talks..MaxTalks
        /\ pc = Running /\ (task # <<>> => "session" \notin task[1].left)
    BY DEF Starts
  <1>2. pc' = pc \/ pc' = Off
    BY DEF Starts, End
  <1>3. StartOK' /\ KeysOK'
    <2>1. published \in [Kinds -> SUBSET Ids] /\ keys \in [Kinds -> SUBSET Ids]
      BY <1>0 DEF StartOK, StartTypeOK
    <2>2. \A k \in Kinds : published[k] \subseteq keys[k]
      BY <1>0 DEF KeysOK, KeyOK
    <2> QED BY <1>0, <1>1, <1>2, <2>1, <2>2, OtherStartKeeps
  <1>4. PICK u : \/ /\ UNCHANGED <<pc, reading>>
                    /\ Begun(u) /\ task' = <<u>>
                    /\ \A a \in CallTalks(u) : a \in AllTalks \/ (a.id = talks' /\ a.keys = None)
                 \/ End
    BY DEF Starts
  <1>5. (task' = <<u>> /\ Begun(u) /\ u \in Calls /\ UNCHANGED <<pc, reading>>) \/ (task' = <<>> /\ reading' = 0)
    BY <1>4 DEF End, Begun
  <1>6. StoreTypes'
    <2>1. task' = <<>> \/ (task' = <<task'[1]>> /\ task'[1] \in Calls)
      BY <1>5
    <2>2. talks' \in 0..MaxTalks
      BY <1>0, <1>1, StoresAssumption DEF StoreTypes
    <2>3. reading' \in Nat /\ reading' <= Len(queue)
      BY <1>0, <1>5 DEF StoreTypes
    <2> QED BY <1>0, <1>1, <2>1, <2>2, <2>3 DEF StoreTypes
  <1>7. UNCHANGED <<trusted, sessions>>
    BY <1>1
  <1>8. SessionsPinned' /\ Placed'
    BY <1>0, <1>7, SameStores
  <1>9. TaskOK'
    <2>1. CASE task' = <<>>
      BY <2>1 DEF TaskOK
    <2>2. CASE task' = <<u>> /\ Begun(u) /\ u \in Calls /\ UNCHANGED <<pc, reading>>
      <3>1. ToStore(u)'
        BY <1>7, <2>2, SameStores DEF Begun
      <3>2. CallOK(u)'
        BY <1>1, <2>2, <3>1 DEF CallOK, Begun
      <3> QED BY <2>2, <3>2 DEF TaskOK
    <2> QED BY <1>5, <2>1, <2>2
  <1>10. HistoryOK'
    BY <1>0, <1>1, <1>7, SameStores DEF HistoryOK
  <1>11. MailOK'
    BY <1>0, <1>1 DEF MailOK
  <1>12. TalksOK'
    <2>1. talks <= talks' /\ talks' \in Nat
      BY <1>0, <1>1 DEF StoreTypes
    <2>2. ASSUME NEW a \in AllTalks'
          PROVE  a \in AllTalks \/ (a.id <= talks' /\ a.keys = None)
      <3>1. CASE a \in LetterTalks'
        BY <1>1, <3>1 DEF AllTalks, LetterTalks
      <3>2. CASE a \in SessionTalks' \cup written'
        BY <1>1, <1>7, <3>2, SameStores DEF AllTalks
      <3>3. CASE task' # <<>> /\ a \in CallTalks(task'[1])
        <4>1. a \in AllTalks \/ (a.id = talks' /\ a.keys = None)
          BY <1>4, <1>5, <3>3 DEF End
        <4> QED BY <2>1, <4>1
      <3> QED BY <3>1, <3>2, <3>3 DEF AllTalks
    <2>3. ASSUME NEW a \in AllTalks
          PROVE  Opened(a)'
      <3>1. Opened(a)
        BY <1>0 DEF TalksOK, TalkOK
      <3>2. (HasSession(a)' <=> HasSession(a)) /\ UNCHANGED <<keys, torn>>
        BY <1>1, <1>7, SameStores
      <3> QED BY <1>1, <3>1, <3>2 DEF Opened
    <2> QED BY <1>0, <1>1, <1>6, <2>1, <2>2, <2>3, TalksKeep
  <1>13. ReadOnce'
    BY <1>0, <1>1 DEF ReadOnce
  <1> QED BY <1>3, <1>6, <1>8, <1>9, <1>10, <1>11, <1>12, <1>13 DEF StoresInd

(* Reading a message that waits. *)
LEMMA DecryptStarts ==
    ASSUME StoresInd, NEW l \in Letters, NEW then \in Seq(Letters), Decrypt(l, then),
           UNCHANGED <<file, identity, account, keys, next, request, server>>,
           UNCHANGED <<stores, queue, letters, talks, written, seen>>,
           hidden' \in Seq(Letters), Range(hidden') \subseteq Range(hidden),
           pc = Running, task # <<>> => "session" \notin task[1].left,
           l.talk \in AllTalks, l.talk.channel = "regular" => reading < Len(queue),
           \A m \in Range(then) : m.talk \in AllTalks /\ m.talk.channel = "deniable"
    PROVE  Starts
  <1>0. StoreTypes /\ SessionsPinned /\ Placed /\ HistoryOK
    BY DEF StoresInd
  <1>1. talks' \in talks..MaxTalks
    BY <1>0, StoresAssumption DEF StoreTypes
  <1>2. \/ UNCHANGED <<pc, reading>> /\ l \notin read /\
             \E u \in Calls :
                    /\ task' = <<u>> /\ u.left \in SUBSET {"identity", "session", "key"}
                    /\ {"identity", "session"} \subseteq u.left
                    /\ u.talk = l.talk /\ u.letter = <<l>> /\ u.then = then
                    /\ ToStore(u)
                    /\ \A s \in All(u.record) : s.talk = l.talk \/ s \in All(RecordOf(l.talk))
        \/ End
    BY <1>0, Reads
  <1>3. CASE End
    BY <1>1, <1>3 DEF Starts, stores, seen, server
  <1>4. CASE ~End
    <2>1. PICK u \in Calls :
                    /\ task' = <<u>> /\ u.left \in SUBSET {"identity", "session", "key"}
                    /\ {"identity", "session"} \subseteq u.left
                    /\ u.talk = l.talk /\ u.letter = <<l>> /\ u.then = then
                    /\ ToStore(u)
                    /\ \A s \in All(u.record) : s.talk = l.talk \/ s \in All(RecordOf(l.talk))
      BY <1>2, <1>4
    <2>2. UNCHANGED <<pc, reading>> /\ l \notin read
      BY <1>2, <1>4
    <2>3. Range(u.letter) = {l}
      BY <2>1, Singles
    <2>4. Begun(u)
      BY <2>1, <2>2, <2>3 DEF Begun
    <2>5. \A s \in All(RecordOf(l.talk)) : s.talk \in AllTalks
      <3>1. l.talk \in Talks
        BY DEF Letters
      <3> QED BY <1>0, <3>1, SessionsOf DEF AllTalks
    <2>6. \A a \in CallTalks(u) : a \in AllTalks
      BY <2>1, <2>3, <2>5 DEF CallTalks
    <2> QED BY <1>1, <2>1, <2>2, <2>4, <2>6 DEF Starts, stores, seen, server
  <1> QED BY <1>3, <1>4

(* The messages of the queues. *)
LEMMA MailTalks ==
    ASSUME NEW l \in Range(queue) \cup Range(hidden)
    PROVE  l.talk \in AllTalks
  BY DEF AllTalks, LetterTalks

(* A regular message, with up to one deniable message, is taken. *)
LEMMA ReceiveStarts ==
    ASSUME StoresInd, NEW k \in 0..1, Receive(k)
    PROVE  Starts
  <1>1. /\ StoreTypes /\ MailOK
        /\ queue \in Seq(Letters) /\ hidden \in Seq(Letters) /\ reading \in Nat
    BY DEF StoresInd, StoreTypes
  <1>2. /\ pc = Running /\ task = <<>> /\ reading < Len(queue) /\ k <= Len(hidden)
        /\ Decrypt(queue[reading + 1], SubSeq(hidden, 1, k))
        /\ hidden' = SubSeq(hidden, k + 1, Len(hidden))
        /\ UNCHANGED <<file, identity, account, keys, next, request, server>>
        /\ UNCHANGED <<stores, queue, letters, talks, written, seen>>
    BY DEF Receive, Ready
  <1>3. SubSeq(hidden, 1, k) \in Seq(Letters) /\ Range(SubSeq(hidden, 1, k)) \subseteq Range(hidden)
    BY <1>1, <1>2, PartOf
  <1>4. SubSeq(hidden, k + 1, Len(hidden)) \in Seq(Letters)
        /\ Range(SubSeq(hidden, k + 1, Len(hidden))) \subseteq Range(hidden)
    <2>1. Len(hidden) \in Nat
      BY <1>1
    <2> QED BY <1>1, <2>1, PartOf
  <1>5. queue[reading + 1] \in Letters /\ queue[reading + 1] \in Range(queue)
    BY <1>1, <1>2 DEF Range
  <1>6. queue[reading + 1].talk \in AllTalks
    BY <1>5, MailTalks
  <1>7. \A m \in Range(SubSeq(hidden, 1, k)) : m.talk \in AllTalks /\ m.talk.channel = "deniable"
    BY <1>1, <1>3, MailTalks DEF MailOK
  <1> QED BY <1>2, <1>3, <1>4, <1>5, <1>6, <1>7, DecryptStarts

(* A deniable message is taken that came with another's message. *)
LEMMA ReceiveOtherStarts ==
    ASSUME StoresInd, ReceiveOther
    PROVE  Starts
  <1>1. StoreTypes /\ MailOK /\ hidden \in Seq(Letters)
    BY DEF StoresInd, StoreTypes
  <1>2. /\ pc = Running /\ task = <<>> /\ hidden # <<>>
        /\ Decrypt(Head(hidden), <<>>)
        /\ hidden' = Tail(hidden)
        /\ UNCHANGED <<file, identity, account, keys, next, request, server>>
        /\ UNCHANGED <<stores, queue, letters, talks, written, seen>>
    BY DEF ReceiveOther, Ready
  <1>3. /\ Head(hidden) \in Letters /\ Head(hidden) \in Range(hidden)
        /\ hidden' \in Seq(Letters) /\ Range(hidden') \subseteq Range(hidden)
    BY <1>1, <1>2, Shrunk
  <1>4. Head(hidden).talk \in AllTalks /\ Head(hidden).talk.channel = "deniable"
    BY <1>1, <1>3, MailTalks DEF MailOK
  <1>5. <<>> \in Seq(Letters) /\ Range(<<>>) = {}
    BY Nothing
  <1>6. PICK none \in Seq(Letters) : none = <<>> /\ Range(none) = {}
    BY <1>5
  <1> QED BY <1>2, <1>3, <1>4, <1>6, DecryptStarts

(* The deniable message after a regular one. *)
LEMMA ReadHiddenStarts ==
    ASSUME StoresInd, ReadHidden
    PROVE  Starts
  <1>1. StoreTypes /\ TaskOK /\ hidden \in Seq(Letters)
    BY DEF StoresInd, StoreTypes
  <1>2. /\ task # <<>> /\ "next" \in task[1].left /\ Decrypt(task[1].letter[1], <<>>)
        /\ UNCHANGED <<file, identity, account, keys, next, request, server>>
        /\ UNCHANGED <<stores, queue, hidden, letters, talks, written, seen>>
    BY DEF ReadHidden, Left
  <1>3. CallOK(task[1]) /\ task[1] \in Calls
    BY <1>1, <1>2 DEF TaskOK, StoreTypes
  <1>4. /\ pc = Running /\ task[1].left = {"next"} /\ task[1].letter # <<>>
        /\ task[1].letter \in Seq(Letters)
        /\ \A l \in Range(task[1].letter) : l.talk.channel = "deniable"
    BY <1>2, <1>3 DEF CallOK, Calls
  <1>5. task[1].letter[1] \in Letters /\ task[1].letter[1] \in Range(task[1].letter)
    BY <1>4 DEF Range
  <1>6. task[1].letter[1].talk \in AllTalks /\ task[1].letter[1].talk.channel = "deniable"
    BY <1>2, <1>4, <1>5 DEF AllTalks, CallTalks
  <1>7. PICK none \in Seq(Letters) : none = <<>> /\ Range(none) = {}
    <2>1. <<>> \in Seq(Letters) /\ Range(<<>>) = {}
      BY Nothing
    <2> QED BY <2>1
  <1> QED BY <1>1, <1>2, <1>4, <1>5, <1>6, <1>7, DecryptStarts

(* A call without a message of a peer. *)
LEMMA CallStarts ==
    ASSUME StoresInd, NEW a \in Talks, NEW sends \in BOOLEAN, Ready,
           IsTrusted(IdentityStore(a.channel), a.peer, a.identity),
           a \in AllTalks \/ (a.id = talks' /\ a.keys = None),
           talks' \in talks..MaxTalks,
           task' = Task({"identity", "session"}, a, {}, <<>>, sends, <<>>),
           UNCHANGED <<pc, reading>>,
           UNCHANGED <<file, identity, account, keys, next, request, server>>,
           UNCHANGED <<stores, queue, hidden, letters, written, seen>>
    PROVE  Starts
  <1>0. StoreTypes /\ SessionsPinned /\ Placed /\ hidden \in Seq(Letters)
    BY DEF StoresInd, StoreTypes
  <1>1. pc = Running /\ task = <<>>
    BY DEF Ready
  <1> DEFINE u == [left |-> {"identity", "session"}, talk |-> a,
                   record |-> Promoted(a, RecordOf(a), {}),
                   letter |-> <<>>, sends |-> sends, then |-> <<>>]
  <1>2. task' = <<u>>
    BY DEF Task, RecordOf
  <1>3. /\ u.left = {"identity", "session"} /\ u.talk = a /\ u.letter = <<>> /\ u.then = <<>>
        /\ u.record = Promoted(a, RecordOf(a), {})
    OBVIOUS
  <1>4. u.record \in Records => u \in Calls
    <2>1. <<>> \in Seq(Letters)
      OBVIOUS
    <2> QED BY <2>1 DEF Calls
  <1> HIDE DEF u
  <1>5. PICK ns \in SUBSET (1..MaxLetters) : ns = {}
    OBVIOUS
  <1>6. Range(u.letter) = {} /\ Range(u.then) = {}
    BY <1>3, Nothing
  <1>7. /\ u.record \in Records
        /\ ToStore(u)
        /\ \A s \in All(u.record) : s.talk = a \/ s \in All(RecordOf(a))
    BY <1>0, <1>3, <1>5, <1>6, CallMade
  <1>8. Begun(u)
    BY <1>3, <1>4, <1>6, <1>7 DEF Begun
  <1>9. \A b \in CallTalks(u) : b \in AllTalks \/ (b.id = talks' /\ b.keys = None)
    BY <1>0, <1>3, <1>6, <1>7, SessionsOf DEF CallTalks, AllTalks
  <1> QED BY <1>0, <1>1, <1>2, <1>4, <1>7, <1>8, <1>9 DEF Starts, stores, seen, server

(* A message is encrypted in the current session. *)
LEMMA EncryptStarts ==
    ASSUME StoresInd, NEW c \in Channels, NEW p \in Peers, Encrypt(c, p)
    PROVE  Starts
  <1>0. StoreTypes /\ SessionsPinned /\ Placed
    BY DEF StoresInd
  <1>1. PICK s \in LoadSession(SessionStore(c), p).current :
           /\ IsTrusted(IdentityStore(c), p, s.talk.identity)
           /\ task' = Task({"identity", "session"}, s.talk, {}, <<>>, TRUE, <<>>)
    BY DEF Encrypt
  <1>2. SessionStore(c) = Tables[c].sessions /\ SessionStore(c) \in SessionTables
    BY StoreNames
  <1>3. s \in All(sessions[SessionStore(c)][p])
    BY <1>1 DEF LoadSession, All
  <1>4. sessions[SessionStore(c)][p] \in Records
    BY <1>0, <1>2 DEF StoreTypes
  <1>5. s.talk \in Talks /\ s.talk.channel = c /\ s.talk.peer = p
    <2>1. s.talk \in Talks
      BY <1>3, <1>4 DEF All, Records, Session
    <2> QED BY <1>0, <1>2, <1>3, <2>1 DEF SessionsPinned, Placed
  <1>6. s.talk \in AllTalks
    BY <1>2, <1>3, <1>5 DEF AllTalks, SessionTalks
  <1>7. talks' \in talks..MaxTalks /\ UNCHANGED <<pc, reading>>
    BY <1>0, StoresAssumption DEF Encrypt, StoreTypes, startVars, mail
  <1>8. /\ Ready /\ UNCHANGED <<file, identity, account, keys, next, request, server>>
        /\ UNCHANGED <<stores, queue, hidden, letters, written, seen>>
    BY DEF Encrypt, startVars, mail
  <1>9. PICK sends \in BOOLEAN : sends = TRUE
    OBVIOUS
  <1> QED BY <1>1, <1>5, <1>6, <1>7, <1>8, <1>9, CallStarts

(* A bundle is made a session, in a conversation that is new. *)
LEMMA ProcessBundleStarts ==
    ASSUME StoresInd, NEW c \in Channels, NEW p \in Peers, NEW i \in Identities, ProcessBundle(c, p, i)
    PROVE  Starts
  <1> DEFINE a == [id |-> talks + 1, channel |-> c, peer |-> p, identity |-> i, keys |-> None]
  <1>0. StoreTypes /\ hidden \in Seq(Letters) /\ talks \in 0..MaxTalks
    BY DEF StoresInd, StoreTypes
  <1>1. /\ Ready /\ talks < MaxTalks /\ talks' = talks + 1
        /\ UNCHANGED <<file, identity, account, keys, next, request, server>>
        /\ UNCHANGED <<stores, queue, hidden, letters, written, seen>>
    BY DEF ProcessBundle
  <1>2. talks' \in talks..MaxTalks
    BY <1>0, <1>1, StoresAssumption
  <1>3. CASE IsTrusted(IdentityStore(c), p, i)
    <2>1. task' = Task({"identity", "session"}, a, {}, <<>>, FALSE, <<>>) /\ UNCHANGED <<pc, reading>>
      BY <1>3 DEF ProcessBundle
    <2>2. a \in Talks
      <3>1. None \in [Kinds -> SUBSET Ids]
        BY DEF None
      <3>2. talks + 1 \in 1..MaxTalks
        BY <1>0, <1>1, StoresAssumption
      <3> QED BY <3>1, <3>2 DEF Talks
    <2>3. a.id = talks' /\ a.keys = None /\ a.channel = c /\ a.peer = p /\ a.identity = i
      BY <1>1
    <2> HIDE DEF a
    <2>4. PICK sends \in BOOLEAN : sends = FALSE
      OBVIOUS
    <2> QED BY <1>1, <1>2, <1>3, <2>1, <2>2, <2>3, <2>4, CallStarts
  <1>4. CASE ~IsTrusted(IdentityStore(c), p, i)
    <2>1. End
      BY <1>4 DEF ProcessBundle
    <2> QED BY <1>0, <1>1, <1>2, <2>1 DEF Starts, Ready, stores, seen, server
  <1> QED BY <1>3, <1>4

(***************************************************************************)
(* The statements of a call.                                               *)
(***************************************************************************)
(* A statement is taken off the call. *)
LEMMA WrittenIs ==
    ASSUME StoreTypes, TaskOK, NEW s, Left(s), Written(s)
    PROVE  \E u \in Calls, v \in Calls :
              /\ task = <<u>> /\ task' = <<v>> /\ CallOK(u)
              /\ s \in u.left /\ v.left = u.left \ {s} /\ v.talk = u.talk /\ v.record = u.record
              /\ v.letter = u.letter /\ v.then = u.then
              /\ CallTalks(v) = CallTalks(u)
              /\ task[1] = u /\ task'[1] = v
  <1>1. PICK u \in Calls : u = task[1] /\ task = <<u>>
    BY DEF Left, StoreTypes
  <1>2. CallOK(u) /\ s \in u.left
    BY <1>1 DEF TaskOK, Left
  <1>3. PICK v : v = [u EXCEPT !.left = @ \ {s}]
    OBVIOUS
  <1>4. task' = <<v>>
    BY <1>1, <1>3 DEF Written
  <1>5. v \in Calls /\ v.left = u.left \ {s} /\ v.talk = u.talk /\ v.record = u.record
        /\ v.letter = u.letter /\ v.then = u.then
    BY <1>3 DEF Calls
  <1>6. CallTalks(v) = CallTalks(u)
    BY <1>5 DEF CallTalks
  <1> QED BY <1>1, <1>2, <1>4, <1>5, <1>6

(* save_identity: the trusted identity is set or stays the same.           *)
LEMMA WriteIdentityKeeps ==
    ASSUME StoresInd, WriteIdentity
    PROVE  StoresInd'
  <1>0. /\ StoreTypes /\ StartOK /\ KeysOK /\ SessionsPinned /\ Placed /\ TaskOK
        /\ HistoryOK /\ MailOK /\ TalksOK /\ ReadOnce
    BY DEF StoresInd
  <1>1. Left("identity") /\ Written("identity")
    BY DEF WriteIdentity
  <1>2. PICK u \in Calls, v \in Calls :
              /\ task = <<u>> /\ task' = <<v>> /\ CallOK(u)
              /\ "identity" \in u.left /\ v.left = u.left \ {"identity"} /\ v.talk = u.talk
              /\ v.record = u.record /\ v.letter = u.letter /\ v.then = u.then
              /\ CallTalks(v) = CallTalks(u)
              /\ task[1] = u /\ task'[1] = v
    BY <1>0, <1>1, WrittenIs
  <1>3. PICK a \in Talks : a = u.talk
    BY DEF Calls
  <1>4. PICK c \in Channels, p \in Peers : c = a.channel /\ p = a.peer
    BY TalkHolds
  <1>5. /\ UNCHANGED <<file, identity, account, keys, next, pc, request, registered, published, given>>
        /\ UNCHANGED <<sessions, queue, reading, hidden, letters, talks, written, read, reread, torn>>
    BY DEF WriteIdentity, startVars, server, mail, seen
  <1>6. "next" \notin u.left /\ "session" \in u.left /\ ToStore(u)
    BY <1>2 DEF CallOK
  <1>7. trusted' = SaveIdentity(IdentityStore(c), p, a.identity)
    BY <1>2, <1>3, <1>4 DEF WriteIdentity
  <1>8. IdentityStore(c) = Tables[c].identities /\ IdentityStore(c) \in IdentityTables
    BY StoreNames
  <1>9. trusted \in [IdentityTables -> [Peers -> Identities \cup {NoKey}]] /\ a.identity \in Identities
    BY <1>0, TalkHolds DEF StoreTypes
  <1>10. trusted' = [trusted EXCEPT ![IdentityStore(c)][p] = a.identity]
    BY <1>7, <1>8, <1>9 DEF SaveIdentity, InsertRow, GetIdentity
  <1>11. /\ trusted' \in [IdentityTables -> [Peers -> Identities \cup {NoKey}]]
         /\ trusted'[IdentityStore(c)][p] = a.identity
         /\ \A t \in IdentityTables, q \in Peers :
               t # IdentityStore(c) \/ q # p => trusted'[t][q] = trusted[t][q]
    BY <1>8, <1>9, <1>10
  <1>12. StoreTypes'
    BY <1>0, <1>2, <1>5, <1>11 DEF StoreTypes
  <1>13. StartOK' /\ KeysOK'
    BY <1>0, <1>5 DEF StartOK, StartTypeOK, KeysOK, KeyOK, Registering
  <1>14. SessionsPinned'
    <2>1. ASSUME NEW d \in Channels, NEW q \in Peers, NEW s \in All(sessions[Tables[d].sessions][q])
          PROVE  s.talk.channel = d /\ s.talk.identity = trusted'[Tables[d].identities][q]
      <3>1. s.talk.channel = d /\ s.talk.identity = trusted[Tables[d].identities][q]
        BY <1>0 DEF SessionsPinned
      <3>2. Tables[d].identities \in IdentityTables /\ (d # c => Tables[d].identities # IdentityStore(c))
        BY <1>8, StoreNames
      <3>3. CASE d # c \/ q # p
        BY <1>11, <3>1, <3>2, <3>3
      <3>4. CASE d = c /\ q = p
        <4>1. trusted[IdentityStore(c)][p] \in {NoKey, a.identity}
          BY <1>3, <1>4, <1>6 DEF ToStore, TrustedOf, GetIdentity
        <4>2. s.talk.identity # NoKey
          <5>1. Tables[d].sessions \in SessionTables
            BY StoreNames
          <5>2. sessions[Tables[d].sessions][q] \in Records
            BY <1>0, <5>1 DEF StoreTypes
          <5>3. s.talk \in Talks
            BY <5>2 DEF All, Records, Session
          <5> QED BY <5>3, TalkHolds
        <4> QED BY <1>8, <1>11, <3>1, <3>4, <4>1, <4>2
      <3> QED BY <3>3, <3>4
    <2> QED BY <1>5, <2>1 DEF SessionsPinned
  <1>15. Placed'
    BY <1>0, <1>5 DEF Placed
  <1>16. TrustedOf(a)' = a.identity
    BY <1>4, <1>11 DEF TrustedOf, GetIdentity
  <1>17. \A b : RecordOf(b)' = RecordOf(b)
    BY <1>5 DEF RecordOf, LoadSession
  <1>18. \A b : HasSession(b)' <=> HasSession(b)
    BY <1>17 DEF HasSession
  <1>19. \A l : AlreadyRead(l)' <=> AlreadyRead(l)
    BY <1>5 DEF AlreadyRead
  <1>20. ToStore(v)'
    <2>1. TrustedOf(v.talk)' \in {NoKey, v.talk.identity}
      BY <1>2, <1>3, <1>16
    <2> QED BY <1>2, <1>6, <1>17, <2>1 DEF ToStore
  <1>21. TaskOK'
    <2>1. CallOK(v)'
      BY <1>2, <1>3, <1>5, <1>6, <1>16, <1>20 DEF CallOK
    <2> QED BY <1>2, <2>1 DEF TaskOK
  <1>22. HistoryOK'
    BY <1>0, <1>5, <1>18, <1>19 DEF HistoryOK
  <1>23. MailOK'
    BY <1>0, <1>5 DEF MailOK
  <1>24. TalksOK'
    <2>1. ASSUME NEW b \in AllTalks'
          PROVE  b \in AllTalks /\ Opened(b)'
      <3>1. b \in AllTalks
        <4>1. SessionTalks' = SessionTalks
          BY <1>5 DEF SessionTalks
        <4> QED BY <1>2, <1>5, <4>1 DEF AllTalks, LetterTalks
      <3>2. Opened(b)
        BY <1>0, <3>1 DEF TalksOK, TalkOK
      <3>3. Spent(u) => Spent(v)'
        BY <1>2, <1>5 DEF Spent, DevicePreKeyStore
      <3> QED BY <1>2, <1>5, <1>18, <3>1, <3>2, <3>3 DEF Opened
    <2>2. talks <= talks'
      BY <1>0, <1>5 DEF StoreTypes
    <2> QED BY <1>0, <1>5, <1>12, <2>1, <2>2, TalksKeep
  <1>25. ReadOnce'
    BY <1>0, <1>5 DEF ReadOnce
  <1> QED BY <1>12, <1>13, <1>14, <1>15, <1>21, <1>22, <1>23, <1>24, <1>25 DEF StoresInd

(* store_session: the record of the call replaces the row, and loses       *)
(* nothing of it.                                                          *)
LEMMA WriteSessionKeeps ==
    ASSUME StoresInd, WriteSession
    PROVE  StoresInd'
  <1>0. /\ StoreTypes /\ StartOK /\ KeysOK /\ SessionsPinned /\ Placed /\ TaskOK
        /\ HistoryOK /\ MailOK /\ TalksOK /\ ReadOnce
    BY DEF StoresInd
  <1>1. Left("session") /\ Written("session") /\ ~Left("identity")
    BY DEF WriteSession
  <1>2. PICK u \in Calls, v \in Calls :
              /\ task = <<u>> /\ task' = <<v>> /\ CallOK(u)
              /\ "session" \in u.left /\ v.left = u.left \ {"session"} /\ v.talk = u.talk
              /\ v.record = u.record /\ v.letter = u.letter /\ v.then = u.then
              /\ CallTalks(v) = CallTalks(u)
              /\ task[1] = u /\ task'[1] = v
    BY <1>0, <1>1, WrittenIs
  <1>3. PICK a \in Talks : a = u.talk
    BY DEF Calls
  <1>4. PICK c \in Channels, p \in Peers : c = a.channel /\ p = a.peer
    BY TalkHolds
  <1>5. /\ UNCHANGED <<file, identity, account, keys, next, pc, request, registered, published, given>>
        /\ UNCHANGED <<trusted, queue, reading, hidden, letters, talks, written, read, reread, torn>>
    BY DEF WriteSession, startVars, server, mail, seen
  <1>6. "next" \notin u.left /\ "identity" \notin u.left /\ ToStore(u) /\ TrustedOf(a) = a.identity
    <2>1. "identity" \notin u.left
      BY <1>1, <1>2 DEF Left
    <2> QED BY <1>2, <1>3, <2>1 DEF CallOK
  <1>7. sessions' = [sessions EXCEPT ![SessionStore(c)][p] = u.record]
    BY <1>2, <1>3, <1>4 DEF WriteSession, StoreSession
  <1>8. SessionStore(c) = Tables[c].sessions /\ SessionStore(c) \in SessionTables
    BY StoreNames
  <1>9. sessions \in [SessionTables -> [Peers -> Records]] /\ u.record \in Records
    BY <1>0 DEF StoreTypes, Calls
  <1>10. /\ sessions' \in [SessionTables -> [Peers -> Records]]
         /\ sessions'[SessionStore(c)][p] = u.record
         /\ \A t \in SessionTables, q \in Peers :
               t # SessionStore(c) \/ q # p => sessions'[t][q] = sessions[t][q]
    BY <1>7, <1>8, <1>9
  <1>11. \A s \in All(u.record) : s.talk.channel = c /\ s.talk.peer = p /\ s.talk.identity = a.identity
    BY <1>3, <1>4, <1>6 DEF ToStore, Beside
  <1>12. StoreTypes'
    BY <1>0, <1>2, <1>5, <1>10 DEF StoreTypes
  <1>13. StartOK' /\ KeysOK'
    BY <1>0, <1>5 DEF StartOK, StartTypeOK, KeysOK, KeyOK, Registering
  <1>14. SessionsPinned'
    <2>1. ASSUME NEW d \in Channels, NEW q \in Peers, NEW s \in All(sessions'[Tables[d].sessions][q])
          PROVE  s.talk.channel = d /\ s.talk.identity = trusted[Tables[d].identities][q]
      <3>1. Tables[d].sessions \in SessionTables /\ (d # c => Tables[d].sessions # SessionStore(c))
        BY <1>8, StoreNames
      <3>2. CASE d # c \/ q # p
        <4>1. s \in All(sessions[Tables[d].sessions][q])
          BY <1>10, <3>1, <3>2
        <4> QED BY <1>0, <4>1 DEF SessionsPinned
      <3>3. CASE d = c /\ q = p
        <4>1. s \in All(u.record)
          BY <1>8, <1>10, <3>3
        <4>2. TrustedOf(a) = trusted[Tables[c].identities][p]
          BY <1>4, StoreNames DEF TrustedOf, GetIdentity
        <4> QED BY <1>6, <1>11, <3>3, <4>1, <4>2
      <3> QED BY <3>2, <3>3
    <2> QED BY <1>5, <2>1 DEF SessionsPinned
  <1>15. Placed'
    <2>1. ASSUME NEW t \in SessionTables, NEW q \in Peers, NEW s \in All(sessions'[t][q])
          PROVE  s.talk.peer = q
      <3>1. CASE t = SessionStore(c) /\ q = p
        BY <1>10, <1>11, <3>1
      <3>2. CASE ~(t = SessionStore(c) /\ q = p)
        BY <1>0, <1>10, <3>2 DEF Placed
      <3> QED BY <3>1, <3>2
    <2> QED BY <2>1 DEF Placed
  <1>16. \A b : TrustedOf(b)' = TrustedOf(b)
    BY <1>5 DEF TrustedOf, GetIdentity
  <1>17. ASSUME NEW b \in Talks
         PROVE  \A s \in All(RecordOf(b)) : \E r \in All(RecordOf(b)') : r.talk = s.talk /\ s.ns \subseteq r.ns
    <2>1. SessionStore(b.channel) \in SessionTables /\ b.peer \in Peers
      BY TalkHolds, StoreNames
    <2>2. /\ RecordOf(b) = sessions[SessionStore(b.channel)][b.peer]
          /\ RecordOf(b)' = sessions'[SessionStore(b.channel)][b.peer]
      BY DEF RecordOf, LoadSession
    <2>3. CASE SessionStore(b.channel) = SessionStore(c) /\ b.peer = p
      <3>1. RecordOf(b)' = u.record
        BY <1>10, <2>2, <2>3
      <3>2. RecordOf(b) = RecordOf(u.talk)
        BY <1>3, <1>4, <2>3 DEF RecordOf
      <3> QED BY <1>6, <3>1, <3>2 DEF ToStore
    <2>4. CASE ~(SessionStore(b.channel) = SessionStore(c) /\ b.peer = p)
      <3>1. RecordOf(b)' = RecordOf(b)
        BY <1>10, <2>1, <2>2, <2>4
      <3> QED BY <3>1
    <2> QED BY <2>3, <2>4
  <1>18. ASSUME NEW b \in Talks, HasSession(b)
         PROVE  HasSession(b)'
    <2>1. PICK s \in All(RecordOf(b)) : s.talk = b
      BY <1>18 DEF HasSession, Sessions
    <2>2. PICK r \in All(RecordOf(b)') : r.talk = b
      BY <1>17, <2>1
    <2> QED BY <2>2 DEF HasSession, Sessions
  <1>19. ASSUME NEW l \in Letters, AlreadyRead(l)
         PROVE  AlreadyRead(l)'
    <2>1. PICK s \in All(RecordOf(l.talk)) : s.talk = l.talk /\ l.n \in s.ns
      BY <1>19 DEF AlreadyRead, RecordOf, LoadSession
    <2>2. l.talk \in Talks
      BY DEF Letters
    <2>3. PICK r \in All(RecordOf(l.talk)') : r.talk = l.talk /\ l.n \in r.ns
      BY <1>17, <2>1, <2>2
    <2> QED BY <2>3 DEF AlreadyRead, RecordOf, LoadSession
  <1>20. HasSession(a)' /\ \A l \in Range(u.letter) : AlreadyRead(l)'
    <2>1. RecordOf(a)' = u.record
      BY <1>4, <1>10 DEF RecordOf, LoadSession
    <2>2. PICK r \in All(u.record) : r.talk = a /\ \A l \in Range(u.letter) : l.n \in r.ns
      BY <1>3, <1>6 DEF ToStore
    <2>3. HasSession(a)'
      BY <2>1, <2>2 DEF HasSession, Sessions
    <2>4. ASSUME NEW l \in Range(u.letter)
          PROVE  AlreadyRead(l)'
      <3>1. l.talk = a
        BY <1>2, <1>3, <1>6 DEF CallOK
      <3>2. r \in All(sessions'[SessionStore(l.talk.channel)][l.talk.peer])
        BY <1>4, <1>10, <2>2, <3>1
      <3> QED BY <2>2, <3>1, <3>2 DEF AlreadyRead
    <2> QED BY <2>3, <2>4
  <1>21. TaskOK'
    <2>1. CallOK(v)'
      BY <1>2, <1>3, <1>5, <1>6, <1>16, <1>20 DEF CallOK
    <2> QED BY <1>2, <2>1 DEF TaskOK
  <1>22. HistoryOK'
    <2>1. read \in SUBSET Letters /\ written \in SUBSET Talks
      BY <1>0 DEF StoreTypes
    <2> QED BY <1>0, <1>5, <1>18, <1>19, <2>1 DEF HistoryOK
  <1>23. MailOK'
    BY <1>0, <1>5 DEF MailOK
  <1>24. TalksOK'
    <2>1. ASSUME NEW b \in AllTalks'
          PROVE  b \in AllTalks /\ Opened(b)'
      <3>1. ASSUME NEW t \in SessionTables, NEW q \in Peers, NEW s \in All(sessions'[t][q])
            PROVE  s.talk \in AllTalks
        <4>1. CASE t = SessionStore(c) /\ q = p
          <5>1. s \in All(u.record)
            BY <1>10, <4>1
          <5>2. s.talk \in CallTalks(u)
            BY <5>1 DEF CallTalks
          <5> QED BY <1>2, <5>2 DEF AllTalks
        <4>2. CASE ~(t = SessionStore(c) /\ q = p)
          <5>1. s \in All(sessions[t][q])
            BY <1>10, <4>2
          <5>2. s.talk \in Talks
            BY <1>9, <5>1 DEF All, Records, Session
          <5> QED BY <5>1, <5>2 DEF AllTalks, SessionTalks
        <4> QED BY <4>1, <4>2
      <3>2. SessionTalks' \subseteq AllTalks
        BY <3>1 DEF SessionTalks
      <3>3. b \in AllTalks
        BY <1>2, <1>5, <3>2 DEF AllTalks, LetterTalks
      <3>4. Opened(b) /\ b \in Talks
        BY <1>0, <3>3, AllInTalks DEF TalksOK, TalkOK
      <3>5. HasSession(b) => HasSession(b)'
        BY <1>18, <3>4
      <3>6. b = a => HasSession(b)'
        BY <1>20
      <3> QED BY <1>2, <1>3, <1>5, <3>3, <3>4, <3>5, <3>6 DEF Opened
    <2>2. talks <= talks'
      BY <1>0, <1>5 DEF StoreTypes
    <2> QED BY <1>0, <1>5, <1>12, <2>1, <2>2, TalksKeep
  <1>25. ReadOnce'
    BY <1>0, <1>5 DEF ReadOnce
  <1> QED BY <1>12, <1>13, <1>14, <1>15, <1>21, <1>22, <1>23, <1>24, <1>25 DEF StoresInd

(* remove_pre_key: only this conversation has that one-time key.           *)
LEMMA SpendKeyKeeps ==
    ASSUME StoresInd, SpendKey
    PROVE  StoresInd'
  <1>0. /\ StoreTypes /\ StartOK /\ KeysOK /\ SessionsPinned /\ Placed /\ TaskOK
        /\ HistoryOK /\ MailOK /\ TalksOK /\ ReadOnce
    BY DEF StoresInd
  <1>1. Left("key") /\ Written("key")
    BY DEF SpendKey
  <1>2. PICK u \in Calls, v \in Calls :
              /\ task = <<u>> /\ task' = <<v>> /\ CallOK(u)
              /\ "key" \in u.left /\ v.left = u.left \ {"key"} /\ v.talk = u.talk
              /\ v.record = u.record /\ v.letter = u.letter /\ v.then = u.then
              /\ CallTalks(v) = CallTalks(u)
              /\ task[1] = u /\ task'[1] = v
    BY <1>0, <1>1, WrittenIs
  <1>3. PICK a \in Talks : a = u.talk /\ a \in AllTalks
    BY <1>2 DEF Calls, AllTalks, CallTalks
  <1>4. /\ UNCHANGED <<file, identity, account, next, pc, request, registered, published, given>>
        /\ UNCHANGED <<trusted, sessions, queue, reading, hidden, letters, talks, written, read, reread, torn>>
    BY DEF SpendKey, server, stores, mail, seen
  <1>5. keys' = [keys EXCEPT !["oneTime"] = @ \ a.keys["oneTime"]]
    BY <1>2, <1>3 DEF SpendKey, RemovePreKey
  <1>6. keys \in [Kinds -> SUBSET Ids] /\ published \in [Kinds -> SUBSET Ids]
    BY <1>0 DEF StartOK, StartTypeOK
  <1>7. /\ keys' \in [Kinds -> SUBSET Ids]
        /\ keys'["oneTime"] = keys["oneTime"] \ a.keys["oneTime"]
        /\ \A k \in Kinds : /\ keys'[k] \subseteq keys[k]
                            /\ k # "oneTime" => keys'[k] = keys[k]
    BY <1>5, <1>6 DEF Kinds
  <1>8. TalkOK(a)
    BY <1>0, <1>3 DEF TalksOK
  <1>9. \A k \in Kinds : published[k] \subseteq keys'[k]
    <2>1. \A k \in Kinds : published[k] \subseteq keys[k]
      BY <1>0 DEF KeysOK, KeyOK
    <2> QED BY <1>7, <1>8, <2>1 DEF TalkOK
  <1>10. "next" \notin u.left /\ pc = Running
    BY <1>2 DEF CallOK
  <1>11. StartOK' /\ KeysOK'
    <2>1. ~Registering
      BY <1>10, RunningIs DEF Registering
    <2> QED BY <1>0, <1>4, <1>6, <1>7, <1>9, <2>1, OtherStartKeeps
  <1>12. StoreTypes'
    BY <1>0, <1>2, <1>4 DEF StoreTypes
  <1>13. UNCHANGED <<trusted, sessions>>
    BY <1>4
  <1>14. SessionsPinned' /\ Placed'
    BY <1>0, <1>13, SameStores
  <1>15. TaskOK'
    <2>1. ToStore(v)' <=> ToStore(v)
      BY <1>13, SameStores
    <2>2. ToStore(v) <=> ToStore(u)
      BY <1>2 DEF ToStore
    <2>3. /\ TrustedOf(u.talk)' = TrustedOf(u.talk)
          /\ HasSession(u.talk)' <=> HasSession(u.talk)
          /\ \A l : AlreadyRead(l)' <=> AlreadyRead(l)
      BY <1>13, SameStores
    <2>4. CallOK(v)'
      BY <1>2, <1>4, <1>10, <2>1, <2>2, <2>3 DEF CallOK
    <2> QED BY <1>2, <2>4 DEF TaskOK
  <1>16. HistoryOK'
    BY <1>0, <1>4, <1>13, SameStores DEF HistoryOK
  <1>17. MailOK'
    BY <1>0, <1>4 DEF MailOK
  <1>18. AllTalks' = AllTalks
    BY <1>2, <1>4, <1>13, SameStores DEF AllTalks, LetterTalks
  <1>19. ASSUME NEW b \in AllTalks
         PROVE  TalkOK(b)'
    <2>1. TalkOK(b)
      BY <1>0 DEF TalksOK
    <2>2. \A k \in Kinds \ {"oneTime"} : b.keys[k] \subseteq keys'[k]
      BY <1>7, <2>1 DEF TalkOK
    <2>3. HasSession(b)' <=> HasSession(b)
      BY <1>13, SameStores
    <2>4. Opened(b)'
      <3>1. CASE b = a
        <4>1. CASE "session" \in u.left
          <5>1. Spent(v)' \/ b.keys["oneTime"] = {}
            BY <1>2, <1>3, <1>7, <3>1 DEF Spent, DevicePreKeyStore
          <5> QED BY <1>2, <1>3, <3>1, <4>1, <5>1 DEF Opened
        <4>2. CASE "session" \notin u.left
          <5>1. HasSession(b)
            BY <1>2, <1>3, <1>10, <3>1, <4>2 DEF CallOK
          <5> QED BY <2>3, <5>1 DEF Opened
        <4> QED BY <4>1, <4>2
      <3>2. CASE b # a
        <4>1. a.keys["oneTime"] \cap b.keys["oneTime"] = {}
          BY <1>3, <1>8, <3>2 DEF TalkOK
        <4>2. b.keys["oneTime"] \subseteq keys["oneTime"] => b.keys["oneTime"] \subseteq keys'["oneTime"]
          BY <1>7, <4>1
        <4> QED BY <1>2, <1>3, <1>4, <2>1, <2>3, <3>2, <4>2 DEF Opened, TalkOK
      <3> QED BY <3>1, <3>2
    <2> QED BY <1>4, <1>18, <2>1, <2>2, <2>4 DEF TalkOK
  <1>20. TalksOK'
    BY <1>18, <1>19 DEF TalksOK
  <1>21. ReadOnce'
    BY <1>0, <1>4 DEF ReadOnce
  <1> QED BY <1>11, <1>12, <1>14, <1>15, <1>16, <1>17, <1>20, <1>21 DEF StoresInd

(* The call returns. *)
LEMMA FinishKeeps ==
    ASSUME StoresInd, Finish
    PROVE  StoresInd'
  <1>0. /\ StoreTypes /\ StartOK /\ KeysOK /\ SessionsPinned /\ Placed /\ TaskOK
        /\ HistoryOK /\ MailOK /\ TalksOK /\ ReadOnce
    BY DEF StoresInd
  <1>1. PICK u \in Calls : u = task[1] /\ task = <<u>>
    BY <1>0 DEF Finish, StoreTypes
  <1>2. CallOK(u) /\ u.left = {}
    BY <1>0, <1>1 DEF TaskOK, Finish
  <1>3. PICK ls, regular : ls = Range(u.letter) /\ regular = {l \in ls : l.talk.channel = "regular"}
    OBVIOUS
  <1>4. /\ read' = read \cup ls /\ reread' = reread \cup (ls \cap read)
        /\ \/ /\ queue' = IF regular = {} THEN queue ELSE RemoveAt(queue, reading + 1)
              /\ UNCHANGED reading
           \/ /\ regular # {} /\ reading' = reading + 1
              /\ UNCHANGED queue
    BY <1>1, <1>3 DEF Finish
  <1>5. /\ UNCHANGED <<file, identity, account, keys, next, pc, request, registered, published, given>>
        /\ UNCHANGED <<trusted, sessions, hidden, letters, talks, torn>>
    BY DEF Finish, startVars, server, stores
  <1>6. written' = IF u.sends THEN written \cup {u.talk} ELSE written
    BY <1>1 DEF Finish
  <1>7. /\ ls \in SUBSET Letters /\ u.talk \in Talks /\ u.then \in Seq(Letters)
        /\ queue \in Seq(Letters) /\ reading \in Nat
    BY <1>0, <1>3, Members DEF Calls, StoreTypes
  <1>8. /\ pc = Running
        /\ \A l \in Range(u.then) : l.talk.channel = "deniable"
        /\ \A l \in ls : /\ l.talk = u.talk /\ l \notin read /\ AlreadyRead(l)
                         /\ l.talk.channel = "regular" => reading < Len(queue)
        /\ HasSession(u.talk)
    BY <1>2, <1>3 DEF CallOK
  <1>9. regular # {} => reading < Len(queue) /\ reading + 1 \in 1..Len(queue)
    BY <1>3, <1>7, <1>8
  <1>10. /\ queue' \in Seq(Letters) /\ Range(queue') \subseteq Range(queue)
         /\ reading' \in Nat /\ reading' <= Len(queue') /\ Len(queue') <= Len(queue)
    <2>1. CASE queue' = queue /\ reading' = reading
      BY <1>0, <2>1 DEF StoreTypes
    <2>2. CASE regular # {} /\ reading' = reading /\ queue' = RemoveAt(queue, reading + 1)
      <3>1. /\ queue' \in Seq(Letters) /\ Len(queue') = Len(queue) - 1
            /\ Range(queue') \subseteq Range(queue)
        BY <1>7, <1>9, <2>2, Removed
      <3> QED BY <1>7, <1>9, <2>2, <3>1
    <2>3. CASE regular # {} /\ reading' = reading + 1 /\ queue' = queue
      BY <1>7, <1>9, <2>3
    <2> QED BY <1>4, <2>1, <2>2, <2>3
  <1>11. PICK v : v = [u EXCEPT !.left = {"next"}, !.letter = u.then]
    OBVIOUS
  <1>12. task' = IF u.then = <<>> THEN <<>> ELSE <<v>>
    BY <1>1, <1>11 DEF Finish
  <1>13. /\ v \in Calls /\ v.left = {"next"} /\ v.letter = u.then /\ v.then = u.then
         /\ v.talk = u.talk /\ v.record = u.record
    BY <1>7, <1>11 DEF Calls
  <1>14. StoreTypes'
    <2>1. read' \in SUBSET Letters /\ reread' \in SUBSET Letters /\ written' \in SUBSET Talks
      BY <1>0, <1>4, <1>6, <1>7 DEF StoreTypes
    <2>2. task' = <<>> \/ (task' = <<task'[1]>> /\ task'[1] \in Calls)
      BY <1>12, <1>13
    <2>3. Len(queue') <= letters'
      BY <1>0, <1>5, <1>10 DEF StoreTypes
    <2> QED BY <1>0, <1>5, <1>10, <2>1, <2>2, <2>3 DEF StoreTypes
  <1>15. StartOK' /\ KeysOK'
    BY <1>0, <1>5 DEF StartOK, StartTypeOK, KeysOK, KeyOK, Registering
  <1>16. UNCHANGED <<trusted, sessions>>
    BY <1>5
  <1>17. SessionsPinned' /\ Placed'
    BY <1>0, <1>16, SameStores
  <1>18. TaskOK'
    <2>1. u.then # <<>> => CallOK(v)'
      BY <1>5, <1>8, <1>13 DEF CallOK
    <2> QED BY <1>12, <2>1 DEF TaskOK
  <1>19. HistoryOK'
    <2>1. \A l : AlreadyRead(l)' <=> AlreadyRead(l)
      BY <1>16, SameStores
    <2>2. \A a : HasSession(a)' <=> HasSession(a)
      BY <1>16, SameStores
    <2> QED BY <1>0, <1>4, <1>6, <1>8, <2>1, <2>2 DEF HistoryOK
  <1>20. MailOK'
    BY <1>0, <1>5, <1>6, <1>10 DEF MailOK
  <1>21. TalksOK'
    <2>1. ASSUME NEW b \in AllTalks'
          PROVE  b \in AllTalks /\ Opened(b)'
      <3>1. CallTalks(u) \subseteq AllTalks
        BY <1>1 DEF AllTalks
      <3>2. LetterTalks' \subseteq LetterTalks \cup CallTalks(u)
        BY <1>3, <1>4, <1>5, <1>10 DEF LetterTalks, CallTalks
      <3>3. SessionTalks' = SessionTalks
        BY <1>16, SameStores
      <3>4. written' \subseteq written \cup CallTalks(u)
        BY <1>6 DEF CallTalks
      <3>5. CallTalks(v) \subseteq CallTalks(u)
        BY <1>13 DEF CallTalks
      <3>6. b \in AllTalks
        <4>1. LetterTalks \subseteq AllTalks /\ SessionTalks \subseteq AllTalks /\ written \subseteq AllTalks
          BY DEF AllTalks
        <4>2. b \in LetterTalks' \cup SessionTalks' \cup written' \cup CallTalks(v)
          BY <1>12 DEF AllTalks
        <4> QED BY <3>1, <3>2, <3>3, <3>4, <3>5, <4>1, <4>2
      <3>7. Opened(b)
        BY <1>0, <3>6 DEF TalksOK, TalkOK
      <3>8. HasSession(b)' <=> HasSession(b)
        BY <1>16, SameStores
      <3> QED BY <1>1, <1>2, <1>5, <3>6, <3>7, <3>8 DEF Opened
    <2>2. talks <= talks'
      BY <1>0, <1>5 DEF StoreTypes
    <2> QED BY <1>0, <1>5, <1>14, <2>1, <2>2, TalksKeep
  <1>22. ReadOnce'
    BY <1>0, <1>4, <1>8 DEF ReadOnce
  <1> QED BY <1>14, <1>15, <1>17, <1>18, <1>19, <1>20, <1>21, <1>22 DEF StoresInd

(* The process ends between any two statements.                            *)
LEMMA CrashKeeps ==
    ASSUME StoresInd, Crash
    PROVE  StoresInd'
  <1>0. /\ StoreTypes /\ StartOK /\ KeysOK /\ SessionsPinned /\ Placed /\ TaskOK
        /\ HistoryOK /\ MailOK /\ TalksOK /\ ReadOnce
    BY DEF StoresInd
  <1>1. /\ pc' = Off /\ task' = <<>> /\ reading' = 0
        /\ torn' = torn \cup {t.talk : t \in {u \in Range(task) : Spent(u) /\ "session" \in u.left}}
        /\ UNCHANGED <<file, identity, account, keys, next, request, registered, published, given>>
        /\ UNCHANGED <<trusted, sessions, queue, hidden, letters, talks, written, read, reread>>
    BY DEF Crash, End, server, stores
  <1>2. task # <<>> => task[1] \in Calls /\ Range(task) = {task[1]}
    BY <1>0, Singles DEF StoreTypes
  <1>3. task = <<>> => Range(task) = {}
    BY Nothing
  <1>4. torn' \in SUBSET Talks
    BY <1>0, <1>1, <1>2, <1>3 DEF StoreTypes, Calls
  <1>5. torn \subseteq torn' /\ (task # <<>> /\ Spent(task[1]) /\ "session" \in task[1].left => task[1].talk \in torn')
    BY <1>1, <1>2
  <1>6. StoreTypes'
    BY <1>0, <1>1, <1>4 DEF StoreTypes
  <1>7. StartOK' /\ KeysOK'
    <2>1. published \in [Kinds -> SUBSET Ids] /\ keys \in [Kinds -> SUBSET Ids]
      BY <1>0 DEF StartOK, StartTypeOK
    <2>2. \A k \in Kinds : published[k] \subseteq keys[k]
      BY <1>0 DEF KeysOK, KeyOK
    <2> QED BY <1>0, <1>1, <2>1, <2>2, OtherStartKeeps
  <1>8. UNCHANGED <<trusted, sessions>>
    BY <1>1
  <1>9. SessionsPinned' /\ Placed'
    BY <1>0, <1>8, SameStores
  <1>10. TaskOK'
    BY <1>1 DEF TaskOK
  <1>11. HistoryOK'
    BY <1>0, <1>1, <1>8, SameStores DEF HistoryOK
  <1>12. MailOK'
    BY <1>0, <1>1 DEF MailOK
  <1>13. TalksOK'
    <2>1. ASSUME NEW b \in AllTalks'
          PROVE  b \in AllTalks /\ Opened(b)'
      <3>1. b \in AllTalks
        BY <1>1, <1>8, SameStores DEF AllTalks, LetterTalks
      <3>2. Opened(b)
        BY <1>0, <3>1 DEF TalksOK, TalkOK
      <3>3. HasSession(b)' <=> HasSession(b)
        BY <1>8, SameStores
      <3> QED BY <1>1, <1>5, <3>1, <3>2, <3>3 DEF Opened
    <2>2. talks <= talks'
      BY <1>0, <1>1 DEF StoreTypes
    <2> QED BY <1>0, <1>1, <1>6, <2>1, <2>2, TalksKeep
  <1>14. ReadOnce'
    BY <1>0, <1>1 DEF ReadOnce
  <1> QED BY <1>6, <1>7, <1>9, <1>10, <1>11, <1>12, <1>13, <1>14 DEF StoresInd

(***************************************************************************)
(* The peers, and the registration.                                        *)
(***************************************************************************)
(* A peer writes in a conversation: what is known of its keys stays.       *)
LEMMA SendKeeps ==
    ASSUME StoresInd, NEW a \in Talks, NEW n \in 1..MaxLetters, Send(a, n),
           talks' \in talks..MaxTalks, StartOK', KeysOK', UNCHANGED keys,
           published'["oneTime"] \subseteq published["oneTime"],
           a \in AllTalks \/
              (/\ a.id <= talks'
               /\ a.keys["oneTime"] \subseteq given["oneTime"] \ published'["oneTime"]
               /\ \A k \in Kinds : a.keys[k] \subseteq keys[k]
               /\ \A b \in AllTalks : a # b => a.keys["oneTime"] \cap b.keys["oneTime"] = {})
    PROVE  StoresInd'
  <1>0. /\ StoreTypes /\ StartOK /\ KeysOK /\ SessionsPinned /\ Placed /\ TaskOK
        /\ HistoryOK /\ MailOK /\ TalksOK /\ ReadOnce
    BY DEF StoresInd
  <1>1. PICK l \in Letters : l.talk = a /\ (l.plain => a \in written)
                             /\ l = [talk |-> a, n |-> n, plain |-> a \in written]
    <2>1. [talk |-> a, n |-> n, plain |-> a \in written] \in Letters
      BY DEF Letters
    <2>2. [talk |-> a, n |-> n, plain |-> a \in written].plain => a \in written
      OBVIOUS
    <2> QED BY <2>1, <2>2
  <1>2. /\ letters < MaxLetters /\ letters' = letters + 1
        /\ \/ a.channel = "regular" /\ queue' = Append(queue, l) /\ UNCHANGED hidden
           \/ a.channel # "regular" /\ hidden' = Append(hidden, l) /\ UNCHANGED queue
        /\ UNCHANGED <<reading, file, identity, account, keys, next, pc, request, registered, given>>
        /\ UNCHANGED <<trusted, sessions, task, written, read, reread, torn>>
    BY <1>1 DEF Send, stores, seen
  <1>3. queue \in Seq(Letters) /\ hidden \in Seq(Letters) /\ a.channel \in {"regular", "deniable"}
    BY <1>0, TalkHolds DEF StoreTypes, Channels
  <1>4. /\ queue' \in Seq(Letters) /\ hidden' \in Seq(Letters)
        /\ Len(queue') \in {Len(queue), Len(queue) + 1}
        /\ \A m \in Range(queue') : m \in Range(queue) \/ (m = l /\ a.channel = "regular")
        /\ \A m \in Range(hidden') : m \in Range(hidden) \/ (m = l /\ a.channel = "deniable")
    <2>1. CASE a.channel = "regular" /\ queue' = Append(queue, l) /\ UNCHANGED hidden
      BY <1>3, <2>1, Grown
    <2>2. CASE a.channel # "regular" /\ hidden' = Append(hidden, l) /\ UNCHANGED queue
      BY <1>3, <2>2, Grown
    <2> QED BY <1>2, <2>1, <2>2
  <1>5. StoreTypes'
    <2>1. letters' \in 0..MaxLetters /\ reading <= Len(queue') /\ Len(queue') <= letters'
      <3>1. /\ letters \in 0..MaxLetters /\ reading \in Nat
            /\ reading <= Len(queue) /\ Len(queue) <= letters /\ Len(queue) \in Nat
        BY <1>0, <1>3 DEF StoreTypes
      <3>2. letters < MaxLetters /\ letters' = letters + 1 /\ MaxLetters \in Nat
        BY <1>2, StoresAssumption
      <3>3. Len(queue') = Len(queue) \/ Len(queue') = Len(queue) + 1
        BY <1>4
      <3> QED BY <3>1, <3>2, <3>3
    <2>2. talks' \in 0..MaxTalks
      BY <1>0, StoresAssumption DEF StoreTypes
    <2> QED BY <1>0, <1>2, <1>4, <2>1, <2>2 DEF StoreTypes
  <1>6. UNCHANGED <<trusted, sessions>>
    BY <1>2
  <1>7. SessionsPinned' /\ Placed'
    BY <1>0, <1>6, SameStores
  <1>8. TaskOK'
    <2>1. Len(queue) <= Len(queue') /\ Len(queue) \in Nat /\ reading \in Nat
      BY <1>0, <1>3, <1>4 DEF StoreTypes
    <2>2. /\ \A u : ToStore(u)' <=> ToStore(u)
          /\ \A b : TrustedOf(b)' = TrustedOf(b) /\ (HasSession(b)' <=> HasSession(b))
          /\ \A m : AlreadyRead(m)' <=> AlreadyRead(m)
      BY <1>6, SameStores
    <2>3. \A m : m.talk.channel = "regular" /\ reading < Len(queue) => reading' < Len(queue')
      BY <1>2, <2>1, <1>4, <1>3
    <2>4. task # <<>> => CallOK(task[1])
      BY <1>0 DEF TaskOK
    <2>5. task # <<>> => CallOK(task[1])'
      BY <1>2, <2>2, <2>3, <2>4 DEF CallOK
    <2> QED BY <1>2, <2>5 DEF TaskOK
  <1>9. HistoryOK'
    BY <1>0, <1>2, <1>6, SameStores DEF HistoryOK
  <1>10. MailOK'
    BY <1>0, <1>1, <1>2, <1>4 DEF MailOK
  <1>11. AllTalks' \subseteq AllTalks \cup {a}
    <2>1. LetterTalks' \subseteq LetterTalks \cup {a}
      BY <1>1, <1>2, <1>4 DEF LetterTalks
    <2>2. SessionTalks' = SessionTalks
      BY <1>6, SameStores
    <2> QED BY <1>2, <2>1, <2>2 DEF AllTalks
  <1>12. talks \in Int /\ talks' \in Int /\ talks <= talks' /\ AllTalks \in SUBSET Talks
    BY <1>0, <1>5, AllInTalks DEF StoreTypes
  <1>13. \A b : HasSession(b)' <=> HasSession(b)
    BY <1>6, SameStores
  <1>14. ASSUME NEW b \in AllTalks
         PROVE  /\ b.id <= talks' /\ Opened(b)'
                /\ b.keys["oneTime"] \subseteq given["oneTime"] \ published'["oneTime"]
                /\ \A k \in Kinds \ {"oneTime"} : b.keys[k] \subseteq keys[k]
                /\ \A d \in AllTalks : b # d => b.keys["oneTime"] \cap d.keys["oneTime"] = {}
    <2>1. TalkOK(b) /\ b.id \in Int
      BY <1>0, <1>12, TalkHolds DEF TalksOK
    <2>2. Opened(b)'
      <3>1. task # <<>> /\ Spent(task[1]) => Spent(task[1])'
        BY <1>2 DEF Spent, DevicePreKeyStore
      <3> QED BY <1>2, <1>13, <2>1, <3>1 DEF TalkOK, Opened
    <2> QED BY <1>12, <2>1, <2>2 DEF TalkOK
  <1>15. ASSUME NEW b \in AllTalks'
         PROVE  TalkOK(b)'
    <2>1. CASE a \in AllTalks
      <3>1. AllTalks' \subseteq AllTalks
        BY <1>11, <2>1
      <3>2. b \in AllTalks
        BY <3>1
      <3> QED BY <1>2, <1>14, <3>1, <3>2 DEF TalkOK
    <2>2. CASE a \notin AllTalks
      <3>1. CASE b = a
        <4>1. Opened(b)'
          BY <1>2, <2>2, <3>1 DEF Opened, Kinds
        <4> QED BY <1>2, <1>11, <2>2, <3>1, <4>1 DEF TalkOK
      <3>2. CASE b # a
        <4>1. b \in AllTalks
          BY <1>11, <3>2
        <4>2. \A d \in AllTalks' : b # d => b.keys["oneTime"] \cap d.keys["oneTime"] = {}
          BY <1>11, <1>14, <2>2, <3>2, <4>1
        <4> QED BY <1>2, <1>14, <4>1, <4>2 DEF TalkOK
      <3> QED BY <3>1, <3>2
    <2> QED BY <2>1, <2>2
  <1>16. TalksOK'
    BY <1>15 DEF TalksOK
  <1>17. ReadOnce'
    BY <1>0, <1>2 DEF ReadOnce
  <1> QED BY <1>5, <1>7, <1>8, <1>9, <1>10, <1>16, <1>17 DEF StoresInd

(* A peer opens a conversation: no other has the one-time key it gets.     *)
LEMMA PeerOpensKeeps ==
    ASSUME StoresInd, NEW c \in Channels, NEW p \in Peers, NEW i \in Identities, PeerOpens(c, p, i)
    PROVE  StoresInd'
  <1>0. StoreTypes /\ StartOK /\ KeysOK /\ TalksOK
    BY DEF StoresInd
  <1>1. registered /\ talks < MaxTalks /\ talks' = talks + 1
    BY DEF PeerOpens
  <1>2. PICK o \in {{k} : k \in published["oneTime"]} \cup {{}} :
           /\ published' = [published EXCEPT !["oneTime"] = @ \ o]
           /\ Send([id |-> talks + 1, channel |-> c, peer |-> p, identity |-> i,
                    keys |-> [k \in Kinds |-> IF k = "oneTime" THEN o ELSE {Max(published[k])}]], 1)
    BY DEF PeerOpens
  <1>3. PICK own : own = [k \in Kinds |-> IF k = "oneTime" THEN o ELSE {Max(published[k])}]
    OBVIOUS
  <1>4. PICK a : a = [id |-> talks + 1, channel |-> c, peer |-> p, identity |-> i, keys |-> own]
    OBVIOUS
  <1>5. published \in [Kinds -> SUBSET Ids] /\ keys \in [Kinds -> SUBSET Ids]
    BY <1>0 DEF StartOK, StartTypeOK
  <1>6. o \subseteq published["oneTime"]
    BY <1>2
  <1>7. ASSUME NEW k \in Kinds \ {"oneTime"}
        PROVE  own[k] = {Max(published[k])} /\ own[k] \subseteq published[k]
    <2>1. published[k] # {} /\ published[k] \in SUBSET Ids
      BY <1>0, <1>1, <1>5 DEF StartOK, Kinds
    <2>2. Max(published[k]) \in published[k]
      BY <2>1, MaxId
    <2> QED BY <1>3, <2>2
  <1>8. own["oneTime"] = o
    BY <1>3 DEF Kinds
  <1>9. own \in [Kinds -> SUBSET Ids]
    <2>1. \A k \in Kinds : own[k] \in SUBSET Ids
      BY <1>5, <1>6, <1>7, <1>8
    <2>2. own = [k \in Kinds |-> own[k]]
      BY <1>3
    <2> QED BY <2>1, <2>2
  <1>10. talks \in 0..MaxTalks
    BY <1>0 DEF StoreTypes
  <1>11. talks + 1 \in 1..MaxTalks /\ talks' \in talks..MaxTalks
    BY <1>1, <1>10, StoresAssumption
  <1>12. a \in Talks /\ a.id = talks + 1 /\ a.keys = own
    BY <1>4, <1>9, <1>11 DEF Talks
  <1>13. Send(a, 1)
    BY <1>2, <1>3, <1>4
  <1>14. 1 \in 1..MaxLetters
    <2>1. letters < MaxLetters /\ letters \in 0..MaxLetters
      BY <1>0, <1>13 DEF Send, StoreTypes
    <2> QED BY <2>1, StoresAssumption
  <1>15. UNCHANGED <<file, identity, account, keys, next, pc, request, registered, given>>
    BY <1>13 DEF Send
  <1>16. /\ published' \in [Kinds -> SUBSET Ids]
         /\ published'["oneTime"] = published["oneTime"] \ o
         /\ \A k \in Kinds : /\ published'[k] \subseteq published[k]
                             /\ k # "oneTime" => published'[k] = published[k]
    BY <1>2, <1>5 DEF Kinds
  <1>17. \A k \in Kinds : published[k] \subseteq keys[k] /\ published[k] \subseteq given[k]
    BY <1>0 DEF KeysOK, KeyOK
  <1>18. StartOK' /\ KeysOK'
    <2>1. \A k \in Kinds : /\ published'[k] \subseteq published[k] /\ keys'[k] \subseteq keys[k]
                           /\ published'[k] \subseteq keys'[k]
                           /\ k # "oneTime" => published'[k] = published[k] /\ keys'[k] = keys[k]
      BY <1>15, <1>16, <1>17
    <2>2. keys' \in [Kinds -> SUBSET Ids] /\ (pc' = pc \/ pc' = Off) /\ (Registering => keys' = keys)
      BY <1>5, <1>15
    <2> QED BY <1>0, <1>15, <1>16, <2>1, <2>2, OtherStartKeeps
  <1>19. a.keys["oneTime"] \subseteq given["oneTime"] \ published'["oneTime"]
    BY <1>6, <1>8, <1>12, <1>16, <1>17 DEF Kinds
  <1>20. \A k \in Kinds : a.keys[k] \subseteq keys[k]
    BY <1>6, <1>7, <1>8, <1>12, <1>17
  <1>21. \A b \in AllTalks : a # b => a.keys["oneTime"] \cap b.keys["oneTime"] = {}
    <2>1. \A b \in AllTalks : b.keys["oneTime"] \cap published["oneTime"] = {}
      BY <1>0 DEF TalksOK, TalkOK
    <2> QED BY <1>6, <1>8, <1>12, <2>1
  <1>22. a.id <= talks'
    BY <1>1, <1>10, <1>12
  <1> QED BY <1>11, <1>12, <1>13, <1>14, <1>15, <1>16, <1>18, <1>19, <1>20, <1>21, <1>22, SendKeeps

(* A peer writes again in a conversation. *)
LEMMA PeerContinuesKeeps ==
    ASSUME StoresInd, PeerContinues
    PROVE  StoresInd'
  <1>0. StoreTypes /\ StartOK /\ KeysOK
    BY DEF StoresInd
  <1>1. PICK a \in Known : Send(a, letters + 1)
    BY DEF PeerContinues
  <1>2. UNCHANGED <<published, talks>>
    BY DEF PeerContinues
  <1>3. a \in AllTalks /\ a \in Talks
    <2>1. a \in AllTalks
      BY <1>1 DEF Known, AllTalks, LetterTalks
    <2> QED BY <1>0, <2>1, AllInTalks
  <1>4. letters + 1 \in 1..MaxLetters /\ talks' \in talks..MaxTalks
    <2>1. letters < MaxLetters /\ letters \in 0..MaxLetters /\ talks \in 0..MaxTalks
      BY <1>0, <1>1 DEF Send, StoreTypes
    <2> QED BY <1>2, <2>1, StoresAssumption
  <1>5. UNCHANGED <<file, identity, account, keys, next, pc, request, registered, given>>
    BY <1>1 DEF Send
  <1>6. StartOK' /\ KeysOK'
    BY <1>0, <1>2, <1>5 DEF StartOK, StartTypeOK, KeysOK, KeyOK, Registering
  <1> QED BY <1>1, <1>2, <1>3, <1>4, <1>5, <1>6, SendKeeps

(* Registration and login, while no call runs. *)
LEMMA StartNextKeeps ==
    ASSUME StoresInd, StartNext, UNCHANGED <<stores, task, mail, talks, written, seen>>
    PROVE  StoresInd'
  <1>0. /\ StoreTypes /\ StartOK /\ KeysOK /\ SessionsPinned /\ Placed /\ TaskOK
        /\ HistoryOK /\ MailOK /\ TalksOK /\ ReadOnce
    BY DEF StoresInd
  <1>1. UNCHANGED <<trusted, sessions, task, queue, reading, hidden, letters, talks, written, read, reread, torn>>
    BY DEF stores, mail, seen
  <1>2. /\ pc # Running
        /\ Registering \/ UNCHANGED <<published, given>>
        /\ \A k \in Kinds : keys[k] \subseteq keys'[k]
    <2>1. keys \in [Kinds -> SUBSET Ids]
      BY <1>0 DEF StartOK, StartTypeOK
    <2>2. CASE Register \/ Login
      BY <2>2, RunningIs DEF Register, Login, server
    <2>3. CASE InsertIdentity \/ RequestAccount \/ InsertAccount \/ PublishBundle
      <3>1. Registering /\ keys' = keys
        BY <2>3, WhereAt DEF InsertIdentity, RequestAccount, InsertAccount, PublishBundle, Registering
      <3> QED BY <3>1, RunningIs DEF Registering
    <2>4. CASE GeneratePreKey \/ GenerateSignedPreKey \/ GenerateKyberPreKey
      <3>1. Registering
        BY <2>4, WhereAt DEF GeneratePreKey, GenerateSignedPreKey, GenerateKyberPreKey, Registering
      <3>2. \A k \in Kinds : keys[k] \subseteq keys'[k]
        BY <2>1, <2>4 DEF GeneratePreKey, GenerateSignedPreKey, GenerateKyberPreKey,
              SavePreKey, SaveSignedPreKey, SaveKyberPreKey
      <3> QED BY <3>1, <3>2, RunningIs DEF Registering
    <2> QED BY <2>2, <2>3, <2>4 DEF StartNext
  <1>3. task = <<>>
    BY <1>0, <1>2 DEF TaskOK, CallOK
  <1>4. StartOK' /\ KeysOK'
    BY <1>0, StartKeeps
  <1>5. StoreTypes'
    BY <1>0, <1>1 DEF StoreTypes
  <1>6. UNCHANGED <<trusted, sessions>>
    BY <1>1
  <1>7. SessionsPinned' /\ Placed'
    BY <1>0, <1>6, SameStores
  <1>8. TaskOK'
    BY <1>1, <1>3 DEF TaskOK
  <1>9. HistoryOK'
    BY <1>0, <1>1, <1>6, SameStores DEF HistoryOK
  <1>10. MailOK' /\ ReadOnce'
    BY <1>0, <1>1 DEF MailOK, ReadOnce
  <1>11. AllTalks' = AllTalks
    BY <1>1, <1>3, <1>6, SameStores DEF AllTalks, LetterTalks
  <1>12. ASSUME NEW a \in AllTalks
         PROVE  TalkOK(a)'
    <2>1. TalkOK(a)
      BY <1>0 DEF TalksOK
    <2>2. a.keys["oneTime"] \subseteq given'["oneTime"] \ published'["oneTime"]
      <3>1. CASE Registering
        <4>1. given["oneTime"] = {}
          BY <1>0, <3>1 DEF KeysOK
        <4>2. a.keys["oneTime"] = {}
          BY <2>1, <4>1 DEF TalkOK
        <4> QED BY <4>2
      <3>2. CASE UNCHANGED <<published, given>>
        BY <2>1, <3>2 DEF TalkOK
      <3> QED BY <1>2, <3>1, <3>2
    <2>3. \A k \in Kinds \ {"oneTime"} : a.keys[k] \subseteq keys'[k]
      BY <1>2, <2>1 DEF TalkOK
    <2>4. Opened(a)'
      <3>1. HasSession(a)' <=> HasSession(a)
        BY <1>6, SameStores
      <3>2. keys["oneTime"] \subseteq keys'["oneTime"]
        BY <1>2 DEF Kinds
      <3> QED BY <1>1, <1>3, <2>1, <3>1, <3>2 DEF TalkOK, Opened
    <2> QED BY <1>1, <1>11, <2>1, <2>2, <2>3, <2>4 DEF TalkOK
  <1>13. TalksOK'
    BY <1>11, <1>12 DEF TalksOK
  <1> QED BY <1>4, <1>5, <1>7, <1>8, <1>9, <1>10, <1>13 DEF StoresInd

(***************************************************************************)
(* The theorems.                                                           *)
(***************************************************************************)
LEMMA StoresInit ==
    ASSUME Init
    PROVE  StoresInd
  <1> USE RunningIs
  <1>1. /\ file = FALSE /\ identity = FALSE /\ account = FALSE /\ registered = FALSE
        /\ keys = None /\ next = FirstIds /\ pc = Off /\ request = None
        /\ published = None /\ given = None
    BY DEF Init, StartInit
  <1>2. None \in [Kinds -> SUBSET Ids] /\ FirstIds \in [Kinds -> Ids] /\ \A k \in Kinds : None[k] = {}
    BY DEF None, FirstIds, Ids
  <1>3. StartOK
    <2>1. StartTypeOK
      <3>1. pc \in Off..Running
        BY <1>1
      <3>2. /\ file \in BOOLEAN /\ identity \in BOOLEAN /\ account \in BOOLEAN
            /\ registered \in BOOLEAN
        BY <1>1
      <3>3. /\ keys \in [Kinds -> SUBSET Ids] /\ request \in [Kinds -> SUBSET Ids]
            /\ published \in [Kinds -> SUBSET Ids] /\ given \in [Kinds -> SUBSET Ids]
            /\ next \in [Kinds -> Ids]
        BY <1>1, <1>2
      <3> QED BY <3>1, <3>2, <3>3 DEF StartTypeOK
    <2>2. \A k \in Kinds : keys[k] = {} /\ published[k] = {} /\ given[k] = {}
      BY <1>1, <1>2
    <2>3. ~(pc > 1) /\ ~(pc >= 7) /\ pc \notin 3..6 /\ pc \notin 5..6 /\ pc \notin 1..6
      BY <1>1 DEF Off
    <2> QED BY <1>1, <2>1, <2>2, <2>3 DEF StartOK
  <1>4. KeysOK
    BY <1>1, <1>2 DEF KeysOK, KeyOK, Registering, Kinds
  <1>5. /\ trusted = [t \in IdentityTables |-> [p \in Peers |-> NoKey]]
        /\ sessions = [t \in SessionTables |-> [p \in Peers |-> NoSession]]
        /\ task = <<>> /\ queue = <<>> /\ reading = 0 /\ hidden = <<>> /\ letters = 0 /\ talks = 0
        /\ written = {} /\ read = {} /\ reread = {} /\ torn = {}
    BY DEF Init
  <1>6. NoSession \in Records /\ All(NoSession) = {}
    BY DEF NoSession, Records, All
  <1>7. StoreTypes
    BY <1>5, <1>6, StoresAssumption DEF StoreTypes
  <1>8. \A t \in SessionTables, p \in Peers : All(sessions[t][p]) = {}
    BY <1>5, <1>6
  <1>9. SessionsPinned
    BY <1>8, StoreNames DEF SessionsPinned
  <1>10. Placed
    BY <1>8 DEF Placed
  <1>11. Range(queue) = {} /\ Range(hidden) = {}
    BY <1>5, Nothing
  <1>12. TaskOK /\ HistoryOK /\ MailOK /\ ReadOnce
    BY <1>5, <1>11 DEF TaskOK, HistoryOK, MailOK, ReadOnce
  <1>13. AllTalks = {}
    BY <1>5, <1>8, <1>11 DEF AllTalks, LetterTalks, SessionTalks
  <1>14. TalksOK
    BY <1>13 DEF TalksOK
  <1> QED BY <1>3, <1>4, <1>7, <1>9, <1>10, <1>12, <1>14 DEF StoresInd

(* Every step keeps the invariant, action by action. *)
LEMMA StoresNext ==
    ASSUME StoresInd, [Next]_vars
    PROVE  StoresInd'
  <1>1. CASE StartNext /\ UNCHANGED <<stores, task, mail, talks, written, seen>>
    BY <1>1, StartNextKeeps
  <1>2. CASE \E k \in 0..1 : Receive(k)
    BY <1>2, ReceiveStarts, StartsKeep
  <1>3. CASE ReceiveOther
    BY <1>3, ReceiveOtherStarts, StartsKeep
  <1>4. CASE \E c \in Channels, p \in Peers : Encrypt(c, p)
    BY <1>4, EncryptStarts, StartsKeep
  <1>5. CASE \E c \in Channels, p \in Peers : \E i \in Identities : ProcessBundle(c, p, i)
    BY <1>5, ProcessBundleStarts, StartsKeep
  <1>6. CASE \E c \in Channels, p \in Peers : \E i \in Identities : PeerOpens(c, p, i)
    BY <1>6, PeerOpensKeeps
  <1>7. CASE WriteIdentity
    BY <1>7, WriteIdentityKeeps
  <1>8. CASE WriteSession
    BY <1>8, WriteSessionKeeps
  <1>9. CASE SpendKey
    BY <1>9, SpendKeyKeeps
  <1>10. CASE Finish
    BY <1>10, FinishKeeps
  <1>11. CASE ReadHidden
    BY <1>11, ReadHiddenStarts, StartsKeep
  <1>12. CASE Crash
    BY <1>12, CrashKeeps
  <1>13. CASE PeerContinues
    BY <1>13, PeerContinuesKeeps
  <1>14. CASE UNCHANGED vars
    <2>0. /\ StoreTypes /\ StartOK /\ KeysOK /\ SessionsPinned /\ Placed /\ TaskOK
          /\ HistoryOK /\ MailOK /\ TalksOK /\ ReadOnce
      BY DEF StoresInd
    <2>1. /\ UNCHANGED <<file, identity, account, keys, next, pc, request, registered, published, given>>
          /\ UNCHANGED <<trusted, sessions, task, queue, reading, hidden, letters, talks>>
          /\ UNCHANGED <<written, read, reread, torn>>
      BY <1>14 DEF vars, startVars, server, stores, mail, seen
    <2>2. UNCHANGED <<trusted, sessions>>
      BY <2>1
    <2>3. StoreTypes'
      BY <2>0, <2>1 DEF StoreTypes
    <2>4. StartOK' /\ KeysOK'
      BY <2>0, <2>1 DEF StartOK, StartTypeOK, KeysOK, KeyOK, Registering
    <2>5. SessionsPinned' /\ Placed'
      BY <2>0, <2>2, SameStores
    <2>6. TaskOK'
      <3>1. /\ \A u : ToStore(u)' <=> ToStore(u)
            /\ \A b : TrustedOf(b)' = TrustedOf(b) /\ (HasSession(b)' <=> HasSession(b))
            /\ \A m : AlreadyRead(m)' <=> AlreadyRead(m)
        BY <2>2, SameStores
      <3>2. task # <<>> => CallOK(task[1])'
        BY <2>0, <2>1, <3>1 DEF TaskOK, CallOK
      <3> QED BY <2>1, <3>2 DEF TaskOK
    <2>7. HistoryOK' /\ MailOK' /\ ReadOnce'
      BY <2>0, <2>1, <2>2, SameStores DEF HistoryOK, MailOK, ReadOnce
    <2>8. TalksOK'
      <3>1. ASSUME NEW b \in AllTalks'
            PROVE  b \in AllTalks /\ Opened(b)'
        <4>1. b \in AllTalks
          BY <2>1, <2>2, SameStores DEF AllTalks, LetterTalks, CallTalks, All
        <4>2. Opened(b)
          BY <2>0, <4>1 DEF TalksOK, TalkOK
        <4>3. HasSession(b)' <=> HasSession(b)
          BY <2>2, SameStores
        <4>4. task # <<>> /\ Spent(task[1]) => Spent(task[1])'
          BY <2>1 DEF Spent, DevicePreKeyStore
        <4> QED BY <2>1, <4>1, <4>2, <4>3, <4>4 DEF Opened
      <3>2. talks <= talks'
        BY <2>0, <2>1 DEF StoreTypes
      <3> QED BY <2>0, <2>1, <2>3, <3>1, <3>2, TalksKeep
    <2> QED BY <2>3, <2>4, <2>5, <2>6, <2>7, <2>8 DEF StoresInd
  <1> QED BY <1>1, <1>2, <1>3, <1>4, <1>5, <1>6, <1>7, <1>8, <1>9, <1>10, <1>11, <1>12, <1>13, <1>14 DEF Next

(* So it holds in every reachable state. *)
LEMMA StoresInductive == Spec => []StoresInd
  <1>1. Init => StoresInd
    BY StoresInit
  <1>2. StoresInd /\ [Next]_vars => StoresInd'
    BY StoresNext
  <1> QED BY <1>1, <1>2, PTL DEF Spec

(* The tables, queues and the running call hold values of their types, a   *)
(* row of an account is there only for an account the server knows, and    *)
(* login() goes on with ids that no key has (ClientStart, get_key_ids).    *)
THEOREM StoresCorrect == Spec => []StoresInv
  <1>1. StoresInd => StoresInv
    <2> SUFFICES ASSUME StoresInd PROVE StoresInv
      OBVIOUS
    <2>0. /\ StoreTypes /\ StartOK /\ KeysOK /\ ReadOnce
      BY DEF StoresInd
    <2>1. \A l \in Letters : IsLetter(l)
      BY DEF Letters, IsLetter
    <2>2. \A r \in Records : IsRecord(r)
      BY DEF Records, IsRecord, All, Session
    <2>3. \A l \in Range(queue) \cup Range(hidden) \cup read \cup reread : IsLetter(l)
      BY <2>0, <2>1, Members DEF StoreTypes
    <2>4. \A t \in SessionTables :
             DOMAIN sessions[t] = Peers /\ \A p \in Peers : IsRecord(sessions[t][p])
      BY <2>0, <2>2 DEF StoreTypes
    <2>5. DOMAIN sessions = SessionTables
      BY <2>0 DEF StoreTypes
    <2>6. ASSUME NEW u \in Calls
          PROVE  /\ u.left \subseteq {"identity", "session", "key", "next"}
                 /\ u.talk \in Talks /\ IsRecord(u.record) /\ u.sends \in BOOLEAN
                 /\ \A l \in Range(u.letter) \cup Range(u.then) : IsLetter(l)
      <3>1. /\ u.left \subseteq {"identity", "session", "key", "next"}
            /\ u.talk \in Talks /\ u.record \in Records /\ u.sends \in BOOLEAN
            /\ u.letter \in Seq(Letters) /\ u.then \in Seq(Letters)
        BY DEF Calls
      <3> QED BY <2>1, <2>2, <3>1, Members
    <2>7. Len(task) <= 1 /\ \A u \in Range(task) : u \in Calls
      <3>1. CASE task = <<>>
        BY <3>1, Nothing
      <3>2. CASE task = <<task[1]>> /\ task[1] \in Calls
        <4>1. PICK u \in Calls : task = <<u>>
          BY <3>2
        <4> QED BY <4>1, Singles
      <3> QED BY <2>0, <3>1, <3>2 DEF StoreTypes
    <2>8. reading \in 0..MaxLetters
      <3>1. Len(queue) \in Nat
        BY <2>0 DEF StoreTypes
      <3> QED BY <2>0, <3>1, StoresAssumption DEF StoreTypes
    <2>9. TypeOK
      BY <2>0, <2>3, <2>4, <2>5, <2>6, <2>7, <2>8 DEF TypeOK, StoreTypes, StartOK
    <2>10. AccountIsRegistered
      BY <2>0 DEF AccountIsRegistered, StartOK
    <2>11. IdsUnused
      <3>1. ASSUME pc = Running, NEW k \in Kinds
            PROVE  next[k] \notin keys[k] \cup published[k] /\ (k # "oneTime" => next[k] \notin given[k])
        <4>1. KeyOK(k) /\ next[k] \in Int /\ pc # Off
          BY <2>0, <3>1, RunningIs DEF KeysOK, StartOK, StartTypeOK, Ids
        <4>2. next[k] \notin keys[k]
          BY <4>1 DEF KeyOK
        <4> QED BY <4>1, <4>2 DEF KeyOK
      <3> QED BY <3>1 DEF IdsUnused
    <2> QED BY <2>9, <2>10, <2>11 DEF StoresInv
  <1> QED BY <1>1, StoresInductive, PTL

(* A session is in the table of its own traffic, under the identity that   *)
(* was pinned there first (IdentityKeyStore, SessionStore).                *)
THEOREM PinnedForGood == Spec => []SessionsPinned
  <1>1. StoresInd => SessionsPinned
    BY DEF StoresInd
  <1> QED BY <1>1, StoresInductive, PTL

(* What the server can give out has its private half, and a message on its *)
(* way can be read, but for three reasons (message_decrypt).               *)
THEOREM ReadableUnlessTorn == Spec => []LettersReadable
  <1>1. StoresInd => LettersReadable
    <2> SUFFICES ASSUME StoresInd PROVE LettersReadable
      OBVIOUS
    <2>0. /\ StoreTypes /\ StartOK /\ KeysOK /\ HistoryOK /\ MailOK /\ TalksOK
      BY DEF StoresInd
    <2>1. \A k \in Kinds : published[k] \subseteq keys[k]
      BY <2>0 DEF KeysOK, KeyOK
    <2>2. ASSUME Ready, NEW l \in Waiting,
                 IsTrusted(IdentityStore(l.talk.channel), l.talk.peer, l.talk.identity),
                 ~AlreadyRead(l), l.talk \notin torn
          PROVE  Decrypts(l)
      <3>1. l \in Range(queue) \cup Range(hidden)
        <4>1. queue \in Seq(Letters) /\ reading \in Nat /\ Len(queue) \in Nat
          BY <2>0 DEF StoreTypes
        <4>2. Range(SubSeq(queue, reading + 1, Len(queue))) \subseteq Range(queue)
          BY <4>1, PartOf
        <4> QED BY <4>2 DEF Waiting
      <3>2. TalkOK(l.talk)
        BY <2>0, <3>1, MailTalks DEF TalksOK
      <3>3. PICK old : old = Sessions(l.talk, RecordOf(l.talk))
        OBVIOUS
      <3>4. CASE old = {}
        <4>1. ~HasSession(l.talk)
          BY <3>3, <3>4 DEF HasSession
        <4>2. ~l.plain
          BY <2>0, <3>1, <4>1 DEF MailOK, HistoryOK
        <4>3. task = <<>> /\ pc = Running
          BY <2>2 DEF Ready
        <4>4. l.talk.keys["oneTime"] \subseteq keys["oneTime"]
          BY <2>2, <3>2, <4>1, <4>3 DEF TalkOK, Opened
        <4>5. identity
          BY <2>0, <4>3, RunningIs DEF StartOK
        <4>6. HasKeys(l.talk)
          BY <3>2, <4>4, <4>5 DEF TalkOK, HasKeys, GetIdentityKeyPair, GetPreKey, GetSignedPreKey,
             GetKyberPreKey, DevicePreKeyStore, DeviceSignedPreKeyStore, DeviceKyberPreKeyStore, Kinds
        <4> QED BY <2>2, <3>3, <3>4, <4>2, <4>6 DEF Decrypts, RecordOf
      <3>5. CASE old # {}
        <4>1. \A s \in old : l.n \notin s.ns
          BY <2>2, <3>3 DEF AlreadyRead, Sessions, RecordOf, LoadSession
        <4> QED BY <2>2, <3>3, <3>5, <4>1 DEF Decrypts, RecordOf
      <3> QED BY <3>4, <3>5
    <2> QED BY <2>1, <2>2 DEF LettersReadable
  <1> QED BY <1>1, StoresInductive, PTL

(* No message is shown to the user twice (Envelope::decrypt). *)
THEOREM ShownOnce == Spec => []ReadOnce
  <1>1. StoresInd => ReadOnce
    BY DEF StoresInd
  <1> QED BY <1>1, StoresInductive, PTL
=============================================================================
