---------------------------- MODULE SocketProofs ----------------------------
(***************************************************************************)
(* Proofs about ClientSocket: for every capacity of the broadcast channel  *)
(* and any number of requests and messages, main reads the messages of the *)
(* server from the first on and without a gap, takes only the answer to    *)
(* its own request for that answer, and nothing is written after the close *)
(* frame.                                                                  *)
(*                                                                         *)
(* The argument: while the task of PersistentReceiver runs, the messages   *)
(* its receiver has not passed and those on their way to the client are    *)
(* exactly the ones that follow what it has queued, in order (Awaited,     *)
(* Ascending, NoneMissing).  A task that fell behind has ended, and        *)
(* nothing is required of what comes after.                                *)
(***************************************************************************)
EXTENDS ClientSocket, SequenceTheorems, TLAPS

IsMsg(m) == m.type = "message"

(* How many messages the task has put into the queue. *)
Queued == Len(read) + Len(queue)

(* The part of the channel that the receiver of the task has not passed. *)
Ahead == (taskPos + 1)..Len(log)

(* What the task has not seen is later than what it has queued. *)
Awaited ==
    task =>
        /\ \A i \in Ahead : IsMsg(log[i]) => log[i].id \in (Queued + 1)..pushed
        /\ \A i \in DOMAIN inc : IsMsg(inc[i]) => inc[i].id \in (Queued + 1)..pushed

(* It comes in the order in which the server pushed it. *)
Ascending ==
    task =>
        /\ \A i, j \in Ahead :
              i < j /\ IsMsg(log[i]) /\ IsMsg(log[j]) => log[i].id < log[j].id
        /\ \A i, j \in DOMAIN inc :
              i < j /\ IsMsg(inc[i]) /\ IsMsg(inc[j]) => inc[i].id < inc[j].id
        /\ \A i \in Ahead, j \in DOMAIN inc :
              IsMsg(log[i]) /\ IsMsg(inc[j]) => log[i].id < inc[j].id

(* And all of it comes. *)
NoneMissing ==
    task =>
        \A k \in (Queued + 1)..pushed :
            \/ \E i \in Ahead : log[i] = Pushed(k)
            \/ \E i \in DOMAIN inc : inc[i] = Pushed(k)

(* Only what the server pushed is queued. *)
QueuedArePushed == Queued <= pushed

(* The connection is active until the close frame is written, and the      *)
(* message main replies to has been read.                                  *)
OpenUntilClosed == active => \A i \in DOMAIN out : out[i] # CloseFrame
RepliesToRead == main = "replying" => read # <<>>

(* The induction invariant. *)
SocketInd ==
    /\ TypeOK /\ ReadsWithoutGap /\ NothingAfterClose /\ AnswersOwnRequest
    /\ Awaited /\ Ascending /\ NoneMissing
    /\ QueuedArePushed /\ OpenUntilClosed /\ RepliesToRead

-----------------------------------------------------------------------------
(* Facts about sequences and messages.                                     *)

LEMMA AppendIs ==
    ASSUME NEW S, NEW s \in Seq(S), NEW e \in S
    PROVE  /\ Append(s, e) \in Seq(S) /\ Len(Append(s, e)) = Len(s) + 1
           /\ DOMAIN Append(s, e) = 1..(Len(s) + 1) /\ DOMAIN s = 1..Len(s)
           /\ Append(s, e)[Len(s) + 1] = e
           /\ \A i \in 1..Len(s) : Append(s, e)[i] = s[i]
           /\ Len(s) \in Nat
OBVIOUS

LEMMA TailIs ==
    ASSUME NEW S, NEW s \in Seq(S), s # <<>>
    PROVE  /\ Tail(s) \in Seq(S) /\ Head(s) = s[1] /\ Head(s) \in S
           /\ Len(s) \in Nat \ {0} /\ Len(Tail(s)) = Len(s) - 1
           /\ DOMAIN Tail(s) = 1..(Len(s) - 1) /\ DOMAIN s = 1..Len(s)
           /\ \A i \in 1..(Len(s) - 1) : Tail(s)[i] = s[i + 1]
OBVIOUS

LEMMA ConcatIs ==
    ASSUME NEW S, NEW s \in Seq(S), NEW t \in Seq(S)
    PROVE  s \o t \in Seq(S) /\ Len(s \o t) = Len(s) + Len(t)
OBVIOUS

LEMMA ConcatAppend ==
    ASSUME NEW S, NEW s \in Seq(S), NEW t \in Seq(S), NEW e \in S
    PROVE  s \o Append(t, e) = Append(s \o t, e)
OBVIOUS

LEMMA EmptyIs ==
    ASSUME NEW S
    PROVE  <<>> \in Seq(S) /\ Len(<<>>) = 0 /\ DOMAIN <<>> = {}
OBVIOUS

LEMMA MessagesAre ==
    /\ \A n \in 0..MaxSends : Request(n) \in Messages /\ Response(n) \in Messages
    /\ \A n \in 0..MaxPushed : Pushed(n) \in Messages /\ Reply(n) \in Messages
    /\ CloseFrame \in Messages
    /\ \A m \in Messages : Response(m.id) \in Messages /\ Reply(m.id) \in Messages
    /\ \A m \in Messages : IsMsg(m) => m = Pushed(m.id)
    /\ \A m \in Messages : m.type = "response" => m = Response(m.id)
    /\ \A m \in Messages : m.id \in Nat
BY SocketAssumption DEF Messages, Request, Response, Pushed, Reply, CloseFrame, IsMsg

LEMMA KindsAre ==
    /\ \A n : IsMsg(Pushed(n)) /\ Pushed(n).id = n
    /\ \A n : ~IsMsg(Response(n)) /\ ~IsMsg(Reply(n)) /\ ~IsMsg(Request(n))
    /\ \A n : Request(n) # CloseFrame /\ Reply(n) # CloseFrame
    /\ \A f \in BadFrames : ~IsMsg(f)
    /\ \A n : Pushed(n) \notin BadFrames
BY DEF IsMsg, Pushed, Response, Reply, Request, CloseFrame, BadFrames

-----------------------------------------------------------------------------
(* What an action that leaves a part of the state alone preserves.         *)

LEMMA SameStream ==
    ASSUME SocketInd, UNCHANGED <<task, taskPos, log, inc, pushed, read, queue>>
    PROVE  ReadsWithoutGap' /\ Awaited' /\ Ascending' /\ NoneMissing' /\ QueuedArePushed'
BY DEF SocketInd, ReadsWithoutGap, Awaited, Ascending, NoneMissing, QueuedArePushed, Ahead, Queued

LEMMA SameOut ==
    ASSUME SocketInd, UNCHANGED <<out, active>>
    PROVE  NothingAfterClose' /\ OpenUntilClosed'
BY DEF SocketInd, NothingAfterClose, OpenUntilClosed

LEMMA SameAnswers ==
    ASSUME SocketInd, UNCHANGED answers
    PROVE  AnswersOwnRequest'
BY DEF SocketInd, AnswersOwnRequest

(* A frame is written while the connection is active.                      *)
LEMMA Written ==
    ASSUME SocketInd, active, active' = active, NEW m \in Messages, m # CloseFrame,
           out' = Append(out, m)
    PROVE  out' \in Seq(Messages) /\ Len(out') = Len(out) + 1
           /\ NothingAfterClose' /\ OpenUntilClosed'
<1>1. out \in Seq(Messages) /\ \A i \in DOMAIN out : out[i] # CloseFrame
    BY DEF SocketInd, TypeOK, OpenUntilClosed
<1>2. out' \in Seq(Messages) /\ Len(out') = Len(out) + 1 /\ Len(out) \in Nat
      /\ DOMAIN out' = 1..(Len(out) + 1) /\ DOMAIN out = 1..Len(out)
      /\ out'[Len(out) + 1] = m /\ \A i \in 1..Len(out) : out'[i] = out[i]
    BY <1>1, AppendIs
<1>3. \A i \in DOMAIN out' : out'[i] # CloseFrame
    BY <1>1, <1>2
<1> QED BY <1>2, <1>3 DEF NothingAfterClose, OpenUntilClosed

LEMMA CloseIs ==
    ASSUME SocketInd, Close
    PROVE  out' \in Seq(Messages) /\ Len(out) <= Len(out') /\ active' \in BOOLEAN
           /\ NothingAfterClose' /\ OpenUntilClosed'
<1>1. out \in Seq(Messages) /\ NothingAfterClose /\ OpenUntilClosed /\ active' = FALSE
      /\ active \in BOOLEAN
    BY DEF SocketInd, TypeOK, Close
<1>0. OpenUntilClosed' /\ active' \in BOOLEAN
    <2>1. ~active'
        BY Zenon DEF Close
    <2> QED BY <1>1, <2>1, Zenon DEF OpenUntilClosed
<1>2. CASE active
    <2>1. out' = Append(out, CloseFrame) /\ \A i \in DOMAIN out : out[i] # CloseFrame
        BY <1>1, <1>2 DEF Close, OpenUntilClosed
    <2>2. out' \in Seq(Messages) /\ Len(out') = Len(out) + 1 /\ Len(out) \in Nat
          /\ DOMAIN out' = 1..(Len(out) + 1) /\ DOMAIN out = 1..Len(out)
          /\ \A i \in 1..Len(out) : out'[i] = out[i]
        BY <1>1, <2>1, AppendIs, MessagesAre
    <2>3. \A i \in DOMAIN out' : out'[i] = CloseFrame => i = Len(out')
        BY <2>1, <2>2
    <2>4. NothingAfterClose' /\ Len(out) <= Len(out')
        BY <2>2, <2>3 DEF NothingAfterClose
    <2> QED BY <1>0, <1>1, <2>2, <2>4
<1>3. CASE ~active
    <2>1. out' = out /\ Len(out) \in Nat
        BY <1>1, <1>3 DEF Close
    <2>2. NothingAfterClose' /\ Len(out) <= Len(out')
        BY <1>1, <2>1 DEF NothingAfterClose
    <2> QED BY <1>0, <1>1, <2>1, <2>2
<1> QED BY <1>1, <1>2, <1>3

-----------------------------------------------------------------------------
(* Main.                                                                   *)

LEMMA NextIdStep == SocketInd /\ NextId => SocketInd'
<1> SUFFICES ASSUME SocketInd, NextId PROVE SocketInd'
    OBVIOUS
<1>1. UNCHANGED <<active, reader, out, served, inc, log, mainPos, task, taskPos, queue, read,
                  answers, pushed>>
      /\ main' = "sending" /\ id' = nextId /\ nextId' = nextId + 1 /\ nextId < MaxSends
    BY DEF NextId, netVars, taskVars
<1>2. TypeOK
    BY DEF SocketInd
<1>3. TypeOK'
    <2>1. id' \in 0..MaxSends /\ nextId' \in 0..MaxSends
        BY <1>1, <1>2, SocketAssumption DEF TypeOK
    <2> QED BY <1>1, <1>2, <2>1 DEF TypeOK
<1>4. RepliesToRead'
    BY <1>1 DEF RepliesToRead
<1> QED BY <1>1, <1>3, <1>4, SameStream, SameOut, SameAnswers DEF SocketInd

LEMMA SendStep == SocketInd /\ Send => SocketInd'
<1> SUFFICES ASSUME SocketInd, Send PROVE SocketInd'
    OBVIOUS
<1>1. UNCHANGED <<active, reader, served, inc, log, mainPos, task, taskPos, queue, read, id,
                  nextId, answers, pushed>>
      /\ main' \in {"waiting", "idle"}
    BY DEF Send, netVars, taskVars
<1>2. TypeOK
    BY DEF SocketInd
<1>3. out' \in Seq(Messages) /\ served' \in 0..Len(out') /\ NothingAfterClose' /\ OpenUntilClosed'
    <2>1. CASE active /\ out' = Append(out, Request(id))
        <3>1. Request(id) \in Messages /\ Request(id) # CloseFrame
            BY <1>2, MessagesAre, KindsAre DEF TypeOK
        <3>2. out' \in Seq(Messages) /\ Len(out') = Len(out) + 1
              /\ NothingAfterClose' /\ OpenUntilClosed'
            BY <1>1, <2>1, <3>1, Written
        <3>3. out \in Seq(Messages) /\ served \in 0..Len(out) /\ served' = served
            BY <1>1, <1>2 DEF TypeOK
        <3>4. served' \in 0..Len(out')
            BY <3>2, <3>3
        <3> QED BY <3>2, <3>4
    <2>2. CASE UNCHANGED out
        BY <1>1, <1>2, <2>2, SameOut DEF TypeOK
    <2> QED BY <2>1, <2>2 DEF Send
<1>4. TypeOK'
    BY <1>1, <1>2, <1>3 DEF TypeOK
<1>5. RepliesToRead'
    BY <1>1 DEF RepliesToRead
<1> QED BY <1>1, <1>3, <1>4, <1>5, SameStream, SameAnswers DEF SocketInd

LEMMA WaitForIdStep == SocketInd /\ WaitForId => SocketInd'
<1> SUFFICES ASSUME SocketInd, WaitForId PROVE SocketInd'
    OBVIOUS
<1>1. UNCHANGED <<active, reader, out, served, inc, log, task, taskPos, queue, read, id,
                  nextId, pushed>>
      /\ main = "waiting" /\ mainPos < Len(log)
    BY DEF WaitForId, netVars, taskVars
<1>2. TypeOK /\ AnswersOwnRequest
    BY DEF SocketInd
<1>3. log \in Seq(Messages) /\ mainPos \in 0..Len(log) /\ Len(log) \in Nat /\ mainPos \in Nat
    BY <1>2 DEF TypeOK
<1>4. PICK msg : msg = log[mainPos + 1]
    OBVIOUS
<1>5. msg \in Messages
    <2>1. mainPos + 1 \in DOMAIN log
        BY <1>1, <1>3
    <2> QED BY <1>3, <1>4, <2>1
<1>6. \/ mainPos' = Len(log) - Capacity /\ Lagged(mainPos) /\ main' = "idle" /\ answers' = answers
      \/ mainPos' = mainPos + 1 /\ UNCHANGED <<answers, main>>
      \/ /\ mainPos' = mainPos + 1 /\ main' = "idle" /\ msg.type = "response" /\ msg.id = id
         /\ answers' = answers \cup {[id |-> id, got |-> msg]}
    BY <1>4 DEF WaitForId
<1>7. mainPos' \in 0..Len(log)
    BY <1>1, <1>3, <1>6, SocketAssumption DEF Lagged
<1>8. main' \in {"idle", "waiting"}
    BY <1>1, <1>6
<1>9. answers' \subseteq [id : 0..MaxSends, got : Messages] /\ AnswersOwnRequest'
    <2>1. CASE answers' = answers
        BY <1>2, <2>1 DEF TypeOK, AnswersOwnRequest
    <2>2. CASE /\ msg.type = "response" /\ msg.id = id
               /\ answers' = answers \cup {[id |-> id, got |-> msg]}
        <3>1. msg = Response(id)
            BY <1>5, <2>2, MessagesAre
        <3>2. [id |-> id, got |-> msg] \in [id : 0..MaxSends, got : Messages]
            BY <1>2, <1>5 DEF TypeOK
        <3>3. \A a \in answers' : a.got = Response(a.id)
            BY <1>2, <2>2, <3>1 DEF AnswersOwnRequest
        <3> QED BY <1>2, <2>2, <3>2, <3>3 DEF TypeOK, AnswersOwnRequest
    <2> QED BY <1>6, <2>1, <2>2
<1>10. TypeOK'
    BY <1>1, <1>2, <1>7, <1>8, <1>9 DEF TypeOK
<1>11. RepliesToRead'
    BY <1>8 DEF RepliesToRead
<1> QED BY <1>1, <1>9, <1>10, <1>11, SameStream, SameOut DEF SocketInd

LEMMA GetMessageStep == SocketInd /\ GetMessage => SocketInd'
<1> SUFFICES ASSUME SocketInd, GetMessage PROVE SocketInd'
    OBVIOUS
<1>1. UNCHANGED <<active, reader, out, served, inc, log, mainPos, task, taskPos, id, nextId,
                  answers, pushed>>
      /\ queue # <<>> /\ queue' = Tail(queue) /\ main' = "replying"
    BY DEF GetMessage, netVars, taskVars
<1>2. PICK m : m = Head(queue) /\ read' = Append(read, m)
    BY DEF GetMessage
<1>3. TypeOK /\ ReadsWithoutGap /\ Awaited /\ Ascending /\ NoneMissing /\ QueuedArePushed
    BY DEF SocketInd
<1>4. read \in Seq(Messages) /\ queue \in Seq(Messages)
    BY <1>3 DEF TypeOK
<1>5. m \in Messages /\ queue' \in Seq(Messages) /\ Len(queue) \in Nat \ {0}
      /\ Len(queue') = Len(queue) - 1 /\ m = queue[1]
      /\ \A i \in 1..(Len(queue) - 1) : queue'[i] = queue[i + 1]
    BY <1>1, <1>2, <1>4, TailIs
<1>6. read' \in Seq(Messages) /\ Len(read') = Len(read) + 1 /\ Len(read) \in Nat
      /\ read'[Len(read) + 1] = m /\ \A i \in 1..Len(read) : read'[i] = read[i]
    BY <1>2, <1>4, <1>5, AppendIs
<1>7. read' \o queue' = read \o queue
    <2>1. /\ read \o queue \in Seq(Messages) /\ read' \o queue' \in Seq(Messages)
          /\ Len(read \o queue) = Len(read) + Len(queue)
          /\ Len(read' \o queue') = Len(read') + Len(queue')
        BY <1>4, <1>5, <1>6, ConcatIs
    <2>2. Len(read' \o queue') = Len(read \o queue)
        BY <1>5, <1>6, <2>1
    <2>3. ASSUME NEW i \in 1..Len(read \o queue)
          PROVE  (read' \o queue')[i] = (read \o queue)[i]
        <3>1. CASE i <= Len(read)
            BY <1>4, <1>5, <1>6, <2>1, <2>2, <3>1
        <3>2. CASE i = Len(read) + 1
            <4>1. (read' \o queue')[i] = read'[i]
                BY <1>5, <1>6, <3>2
            <4>2. (read \o queue)[i] = queue[1]
                BY <1>4, <1>5, <1>6, <3>2
            <4> QED BY <1>5, <1>6, <3>2, <4>1, <4>2
        <3>3. CASE i > Len(read) + 1
            <4>1. i - Len(read) - 1 \in 1..(Len(queue) - 1)
                BY <1>5, <1>6, <2>1, <3>3
            <4>2. (read' \o queue')[i] = queue'[i - Len(read) - 1]
                BY <1>5, <1>6, <2>1, <2>2, <3>3
            <4>3. (read \o queue)[i] = queue[i - Len(read)]
                BY <1>4, <1>5, <1>6, <2>1, <3>3
            <4>4. (i - Len(read) - 1) + 1 = i - Len(read)
                BY <1>6, <2>1
            <4> QED BY <1>5, <4>1, <4>2, <4>3, <4>4
        <3>4. i \in Int /\ Len(read) \in Int
            BY <1>6, <2>1
        <3>5. i <= Len(read) \/ i = Len(read) + 1 \/ i > Len(read) + 1
            BY <3>4
        <3> QED BY <3>1, <3>2, <3>3, <3>5, Zenon
    <2> QED BY <2>1, <2>2, <2>3, SeqEqual
<1>8. Queued' = Queued
    BY <1>5, <1>6 DEF Queued
<1>9. ReadsWithoutGap'
    BY <1>3, <1>7 DEF ReadsWithoutGap
<1>10. Awaited' /\ Ascending' /\ NoneMissing' /\ QueuedArePushed'
    BY <1>1, <1>3, <1>8 DEF Awaited, Ascending, NoneMissing, QueuedArePushed, Ahead
<1>11. TypeOK'
    BY <1>1, <1>3, <1>5, <1>6 DEF TypeOK
<1>12. RepliesToRead'
    BY <1>6, EmptyIs DEF RepliesToRead
<1> QED BY <1>1, <1>9, <1>10, <1>11, <1>12, SameOut, SameAnswers DEF SocketInd

LEMMA SendResponseStep == SocketInd /\ SendResponse => SocketInd'
<1> SUFFICES ASSUME SocketInd, SendResponse PROVE SocketInd'
    OBVIOUS
<1>1. UNCHANGED <<active, reader, served, inc, log, mainPos, task, taskPos, queue, read, id,
                  nextId, answers, pushed>>
      /\ main = "replying" /\ main' = "idle"
    BY DEF SendResponse, netVars, taskVars
<1>2. TypeOK /\ RepliesToRead
    BY DEF SocketInd
<1>3. PICK m : m = Reply(Last(read).id)
               /\ out' = IF active THEN Append(out, m) ELSE out
    BY DEF SendResponse
<1>4. m \in Messages /\ m # CloseFrame
    <2>1. read \in Seq(Messages) /\ read # <<>>
        BY <1>1, <1>2 DEF TypeOK, RepliesToRead
    <2>2. Last(read) \in Messages
        BY <2>1 DEF Last
    <2> QED BY <1>3, <2>2, MessagesAre, KindsAre
<1>5. out' \in Seq(Messages) /\ served' \in 0..Len(out') /\ NothingAfterClose' /\ OpenUntilClosed'
    <2>1. CASE active
        <3>1. out' \in Seq(Messages) /\ Len(out') = Len(out) + 1
              /\ NothingAfterClose' /\ OpenUntilClosed'
            BY <1>1, <1>3, <1>4, <2>1, Written
        <3>2. out \in Seq(Messages) /\ served \in 0..Len(out) /\ served' = served
            BY <1>1, <1>2 DEF TypeOK
        <3>3. served' \in 0..Len(out')
            BY <3>1, <3>2
        <3> QED BY <3>1, <3>3
    <2>2. CASE ~active
        <3>1. out' = out
            BY <1>3, <2>2
        <3> QED BY <1>1, <1>2, <3>1, SameOut DEF TypeOK
    <2> QED BY <2>1, <2>2
<1>6. TypeOK'
    BY <1>1, <1>2, <1>5 DEF TypeOK
<1>7. RepliesToRead'
    BY <1>1 DEF RepliesToRead
<1> QED BY <1>1, <1>5, <1>6, <1>7, SameStream, SameAnswers DEF SocketInd

LEMMA DisconnectStep == SocketInd /\ Disconnect => SocketInd'
<1> SUFFICES ASSUME SocketInd, Disconnect PROVE SocketInd'
    OBVIOUS
<1>1. UNCHANGED <<reader, served, inc, log, mainPos, task, taskPos, queue, read, id, nextId,
                  answers, pushed>>
      /\ Close /\ main' = "done"
    BY DEF Disconnect, netVars, taskVars
<1>2. TypeOK
    BY DEF SocketInd
<1>3. out' \in Seq(Messages) /\ Len(out) <= Len(out') /\ active' \in BOOLEAN
      /\ NothingAfterClose' /\ OpenUntilClosed'
    BY <1>1, CloseIs
<1>4. served' \in 0..Len(out')
    <2>1. out \in Seq(Messages) /\ served \in 0..Len(out) /\ served' = served
        BY <1>1, <1>2 DEF TypeOK
    <2> QED BY <1>3, <2>1
<1>5. TypeOK'
    BY <1>1, <1>2, <1>3, <1>4 DEF TypeOK
<1>6. RepliesToRead'
    BY <1>1 DEF RepliesToRead
<1> QED BY <1>1, <1>3, <1>5, <1>6, SameStream, SameAnswers DEF SocketInd

-----------------------------------------------------------------------------
(* What arrives.                                                           *)

(* A frame m that the server sends comes last.                             *)
LEMMA Arrives ==
    ASSUME SocketInd, NEW m \in Messages \cup BadFrames, inc' = Append(inc, m),
           pushed' \in Nat, pushed <= pushed',
           IsMsg(m) => pushed' = pushed + 1 /\ m = Pushed(pushed'),
           ~IsMsg(m) => pushed' = pushed,
           UNCHANGED <<task, taskPos, log, read, queue>>
    PROVE  /\ inc' \in Seq(Messages \cup BadFrames)
           /\ ReadsWithoutGap' /\ Awaited' /\ Ascending' /\ NoneMissing'
<1>1. TypeOK /\ ReadsWithoutGap /\ Awaited /\ Ascending /\ NoneMissing
    BY DEF SocketInd
<1>2. inc \in Seq(Messages \cup BadFrames) /\ pushed \in Nat /\ Queued \in Nat
    BY <1>1 DEF TypeOK, Queued
<1>3. /\ inc' \in Seq(Messages \cup BadFrames)
      /\ DOMAIN inc' = 1..(Len(inc) + 1) /\ DOMAIN inc = 1..Len(inc) /\ Len(inc) \in Nat
      /\ inc'[Len(inc) + 1] = m /\ \A i \in 1..Len(inc) : inc'[i] = inc[i]
    BY <1>2, AppendIs
<1>4. Ahead' = Ahead /\ Queued' = Queued
    BY DEF Ahead, Queued
<1>5. ReadsWithoutGap'
    BY <1>1 DEF ReadsWithoutGap
<1>6. ASSUME task'
      PROVE  /\ \A i \in Ahead : IsMsg(log[i]) => log[i].id \in (Queued + 1)..pushed
             /\ \A i \in DOMAIN inc : IsMsg(inc[i]) => inc[i].id \in (Queued + 1)..pushed
             /\ Queued <= pushed
    <2>1. Queued <= pushed
        BY <1>6 DEF SocketInd, QueuedArePushed
    <2> QED BY <1>1, <1>6, <2>1 DEF Awaited
<1>7. Awaited'
    <2>1. ASSUME task', NEW i \in Ahead, IsMsg(log[i])
          PROVE  log[i].id \in (Queued + 1)..pushed'
        BY <1>2, <1>6, <2>1
    <2>2. ASSUME task', NEW i \in DOMAIN inc', IsMsg(inc'[i])
          PROVE  inc'[i].id \in (Queued + 1)..pushed'
        <3>1. CASE i \in DOMAIN inc
            BY <1>2, <1>3, <1>6, <2>2, <3>1
        <3>2. CASE i = Len(inc) + 1
            <4>1. inc'[i].id = pushed + 1 /\ pushed' = pushed + 1
                BY <1>3, <2>2, <3>2, KindsAre
            <4> QED BY <1>2, <1>6, <2>2, <4>1
        <3> QED BY <1>3, <3>1, <3>2
    <2> QED BY <1>4, <2>1, <2>2 DEF Awaited
<1>8. ASSUME task', IsMsg(m)
      PROVE  /\ m.id = pushed + 1
             /\ \A i \in Ahead : IsMsg(log[i]) => log[i].id < m.id
             /\ \A i \in DOMAIN inc : IsMsg(inc[i]) => inc[i].id < m.id
    <2>1. m.id = pushed + 1
        BY <1>8, KindsAre
    <2> QED BY <1>2, <1>6, <1>8, <2>1
<1>9. Ascending'
    <2>1. ASSUME task', NEW i \in DOMAIN inc', NEW j \in DOMAIN inc', i < j,
                 IsMsg(inc'[i]), IsMsg(inc'[j])
          PROVE  inc'[i].id < inc'[j].id
        <3>1. CASE j \in DOMAIN inc
            BY <1>1, <1>3, <2>1, <3>1 DEF Ascending
        <3>2. CASE j = Len(inc) + 1
            BY <1>3, <1>8, <2>1, <3>2
        <3> QED BY <1>3, <3>1, <3>2
    <2>2. ASSUME task', NEW i \in Ahead, NEW j \in DOMAIN inc', IsMsg(log[i]), IsMsg(inc'[j])
          PROVE  log[i].id < inc'[j].id
        <3>1. CASE j \in DOMAIN inc
            BY <1>1, <1>3, <2>2, <3>1 DEF Ascending
        <3>2. CASE j = Len(inc) + 1
            BY <1>3, <1>8, <2>2, <3>2
        <3> QED BY <1>3, <3>1, <3>2
    <2> QED BY <1>1, <1>4, <2>1, <2>2 DEF Ascending
<1>10. NoneMissing'
    <2>1. ASSUME task', NEW k \in (Queued + 1)..pushed'
          PROVE  \/ \E i \in Ahead : log[i] = Pushed(k)
                 \/ \E i \in DOMAIN inc' : inc'[i] = Pushed(k)
        <3>1. CASE k \in (Queued + 1)..pushed
            BY <1>1, <1>3, <2>1, <3>1 DEF NoneMissing
        <3>2. CASE k \notin (Queued + 1)..pushed
            <4>1. IsMsg(m) /\ k = pushed'
                BY <1>2, <2>1, <3>2
            <4> QED BY <1>3, <4>1
        <3> QED BY <3>1, <3>2
    <2> QED BY <1>4, <2>1 DEF NoneMissing
<1> QED BY <1>3, <1>5, <1>7, <1>9, <1>10

LEMMA ServeStep == SocketInd /\ Serve => SocketInd'
<1> SUFFICES ASSUME SocketInd, Serve PROVE SocketInd'
    OBVIOUS
<1>1. UNCHANGED <<active, reader, out, log, queue, pushed, task, taskPos, mainPos, read, main,
                  id, nextId, answers>>
      /\ served < Len(out) /\ served' = served + 1
    BY DEF Serve, taskVars, mainVars
<1>2. TypeOK
    BY DEF SocketInd
<1>3. out \in Seq(Messages) /\ served' \in 0..Len(out) /\ served + 1 \in DOMAIN out
    BY <1>1, <1>2 DEF TypeOK
<1>4. PICK m : m = Response(out[served + 1].id)
    OBVIOUS
<1>5. m \in Messages /\ ~IsMsg(m)
    <2>1. out[served + 1] \in Messages
        BY <1>3
    <2> QED BY <1>4, <2>1, MessagesAre, KindsAre
<1>6. /\ inc' \in Seq(Messages \cup BadFrames)
      /\ ReadsWithoutGap' /\ Awaited' /\ Ascending' /\ NoneMissing'
    <2>1. CASE inc' = Append(inc, m)
        <3>1. pushed' \in Nat /\ pushed <= pushed'
            BY <1>1, <1>2 DEF TypeOK
        <3> QED BY <1>1, <1>5, <2>1, <3>1, Arrives
    <2>2. CASE inc' = inc
        BY <1>1, <1>2, <2>2, SameStream DEF TypeOK
    <2> QED BY <1>4, <2>1, <2>2 DEF Serve
<1>7. TypeOK'
    BY <1>1, <1>2, <1>3, <1>6 DEF TypeOK
<1>8. RepliesToRead' /\ QueuedArePushed'
    BY <1>1 DEF RepliesToRead, SocketInd, QueuedArePushed, Queued
<1> QED BY <1>1, <1>6, <1>7, <1>8, SameOut, SameAnswers DEF SocketInd

LEMMA PushStep == SocketInd /\ Push => SocketInd'
<1> SUFFICES ASSUME SocketInd, Push PROVE SocketInd'
    OBVIOUS
<1>1. UNCHANGED <<active, reader, out, served, log, queue, task, taskPos, mainPos, read, main,
                  id, nextId, answers>>
      /\ pushed < MaxPushed /\ pushed' = pushed + 1 /\ inc' = Append(inc, Pushed(pushed'))
    BY DEF Push, taskVars, mainVars
<1>2. TypeOK
    BY DEF SocketInd
<1>3. pushed \in Nat /\ pushed' \in 0..MaxPushed /\ pushed <= pushed' /\ pushed' \in Nat
    BY <1>1, <1>2, SocketAssumption DEF TypeOK
<1>4. PICK m : m = Pushed(pushed')
    OBVIOUS
<1>5. m \in Messages /\ IsMsg(m)
    BY <1>3, <1>4, MessagesAre, KindsAre
<1>6. /\ inc' \in Seq(Messages \cup BadFrames)
      /\ ReadsWithoutGap' /\ Awaited' /\ Ascending' /\ NoneMissing'
    BY <1>1, <1>3, <1>4, <1>5, Arrives
<1>7. TypeOK'
    BY <1>1, <1>2, <1>3, <1>6 DEF TypeOK
<1>8. RepliesToRead' /\ QueuedArePushed'
    <2>1. Queued' = Queued /\ Queued \in Nat
        BY <1>1, <1>2 DEF Queued, TypeOK
    <2> QED BY <1>1, <1>3, <2>1 DEF RepliesToRead, SocketInd, QueuedArePushed
<1> QED BY <1>1, <1>6, <1>7, <1>8, SameOut, SameAnswers DEF SocketInd

LEMMA BreakStep == SocketInd /\ Break => SocketInd'
<1> SUFFICES ASSUME SocketInd, Break PROVE SocketInd'
    OBVIOUS
<1>1. UNCHANGED <<active, reader, out, served, log, queue, pushed, task, taskPos, mainPos, read,
                  main, id, nextId, answers>>
    BY DEF Break, taskVars, mainVars
<1>2. PICK f \in BadFrames : inc' = Append(inc, f)
    BY DEF Break
<1>3. TypeOK /\ ~IsMsg(f)
    BY KindsAre DEF SocketInd
<1>4. pushed' \in Nat /\ pushed <= pushed'
    BY <1>1, <1>3 DEF TypeOK
<1>5. /\ inc' \in Seq(Messages \cup BadFrames)
      /\ ReadsWithoutGap' /\ Awaited' /\ Ascending' /\ NoneMissing'
    BY <1>1, <1>2, <1>3, <1>4, Arrives
<1>6. TypeOK'
    BY <1>1, <1>3, <1>5 DEF TypeOK
<1>7. RepliesToRead' /\ QueuedArePushed'
    BY <1>1 DEF RepliesToRead, SocketInd, QueuedArePushed, Queued
<1> QED BY <1>1, <1>5, <1>6, <1>7, SameOut, SameAnswers DEF SocketInd

-----------------------------------------------------------------------------
(* The task of set_stream.                                                 *)

LEMMA BroadcastStep == SocketInd /\ Broadcast => SocketInd'
<1> SUFFICES ASSUME SocketInd, Broadcast PROVE SocketInd'
    OBVIOUS
<1>1. UNCHANGED <<active, reader, out, served, queue, pushed, task, taskPos, mainPos, read, main,
                  id, nextId, answers>>
      /\ inc # <<>> /\ inc' = Tail(inc)
    BY DEF Broadcast, taskVars, mainVars
<1>2. PICK m : m = Head(inc) /\ m \notin BadFrames /\ log' = Append(log, m)
    BY DEF Broadcast
<1>3. TypeOK /\ ReadsWithoutGap /\ Awaited /\ Ascending /\ NoneMissing
    BY DEF SocketInd
<1>4. inc \in Seq(Messages \cup BadFrames) /\ log \in Seq(Messages) /\ taskPos \in 0..Len(log)
      /\ mainPos \in 0..Len(log) /\ Len(log) \in Nat
    BY <1>3 DEF TypeOK
<1>5. /\ m = inc[1] /\ m \in Messages /\ inc' \in Seq(Messages \cup BadFrames)
      /\ Len(inc) \in Nat \ {0} /\ DOMAIN inc = 1..Len(inc) /\ DOMAIN inc' = 1..(Len(inc) - 1)
      /\ \A i \in 1..(Len(inc) - 1) : inc'[i] = inc[i + 1]
    BY <1>1, <1>2, <1>4, TailIs
<1>6. /\ log' \in Seq(Messages) /\ Len(log') = Len(log) + 1
      /\ log'[Len(log) + 1] = m /\ \A i \in 1..Len(log) : log'[i] = log[i]
    BY <1>2, <1>4, <1>5, AppendIs
<1>7. Queued' = Queued
    BY <1>1 DEF Queued
<1>8. /\ Ahead' = Ahead \cup {Len(log) + 1} /\ Ahead \subseteq 1..Len(log)
      /\ \A i \in Ahead : i \in Nat /\ log'[i] = log[i]
    <2>1. Ahead' = (taskPos + 1)..(Len(log) + 1)
        BY <1>1, <1>6 DEF Ahead
    <2>2. Ahead \subseteq 1..Len(log)
        BY <1>4 DEF Ahead
    <2>3. (taskPos + 1)..(Len(log) + 1) = (taskPos + 1)..Len(log) \cup {Len(log) + 1}
        BY <1>4
    <2>4. Ahead = (taskPos + 1)..Len(log)
        BY DEF Ahead
    <2>5. Ahead' = Ahead \cup {Len(log) + 1}
        BY <2>1, <2>3, <2>4
    <2>6. ASSUME NEW i \in Ahead PROVE i \in Nat /\ log'[i] = log[i]
        BY <1>6, <2>2, <2>6
    <2> QED BY <2>2, <2>5, <2>6
<1>9. \A i \in DOMAIN inc' : i + 1 \in DOMAIN inc /\ inc'[i] = inc[i + 1] /\ i \in Nat /\ 1 < i + 1
    BY <1>5
<1>10. 1 \in DOMAIN inc
    BY <1>5
<1>11. Awaited'
    <2>1. ASSUME task', NEW i \in Ahead', IsMsg(log'[i])
          PROVE  log'[i].id \in (Queued + 1)..pushed
        <3>1. CASE i \in Ahead
            BY <1>1, <1>3, <1>8, <2>1, <3>1 DEF Awaited
        <3>2. CASE i = Len(log) + 1
            BY <1>1, <1>3, <1>5, <1>6, <1>10, <2>1, <3>2 DEF Awaited
        <3> QED BY <1>8, <3>1, <3>2
    <2>2. ASSUME task', NEW i \in DOMAIN inc', IsMsg(inc'[i])
          PROVE  inc'[i].id \in (Queued + 1)..pushed
        BY <1>1, <1>3, <1>9, <2>2 DEF Awaited
    <2> QED BY <1>1, <1>7, <2>1, <2>2 DEF Awaited
<1>12. Ascending'
    <2>1. ASSUME task', NEW i \in Ahead', NEW j \in Ahead', i < j, IsMsg(log'[i]), IsMsg(log'[j])
          PROVE  log'[i].id < log'[j].id
        <3>1. i \in Ahead /\ log'[i] = log[i]
            BY <1>4, <1>8, <2>1
        <3>2. CASE j \in Ahead
            BY <1>1, <1>3, <1>8, <2>1, <3>1, <3>2 DEF Ascending
        <3>3. CASE j = Len(log) + 1
            <4>1. log'[j] = inc[1]
                BY <1>5, <1>6, <3>3
            <4> QED BY <1>1, <1>3, <1>10, <2>1, <3>1, <4>1 DEF Ascending
        <3> QED BY <1>8, <3>2, <3>3
    <2>2. ASSUME task', NEW i \in DOMAIN inc', NEW j \in DOMAIN inc', i < j,
                 IsMsg(inc'[i]), IsMsg(inc'[j])
          PROVE  inc'[i].id < inc'[j].id
        <3>1. i + 1 < j + 1
            BY <1>9, <2>2
        <3> QED BY <1>1, <1>3, <1>9, <2>2, <3>1 DEF Ascending
    <2>3. ASSUME task', NEW i \in Ahead', NEW j \in DOMAIN inc', IsMsg(log'[i]), IsMsg(inc'[j])
          PROVE  log'[i].id < inc'[j].id
        <3>1. CASE i \in Ahead
            BY <1>1, <1>3, <1>8, <1>9, <2>3, <3>1 DEF Ascending
        <3>2. CASE i = Len(log) + 1
            <4>1. log'[i] = inc[1]
                BY <1>5, <1>6, <3>2
            <4> QED BY <1>1, <1>3, <1>9, <1>10, <2>3, <4>1 DEF Ascending
        <3> QED BY <1>8, <3>1, <3>2
    <2> QED BY <2>1, <2>2, <2>3 DEF Ascending
<1>13. NoneMissing'
    <2>1. ASSUME task', NEW k \in (Queued + 1)..pushed
          PROVE  \/ \E i \in Ahead' : log'[i] = Pushed(k)
                 \/ \E i \in DOMAIN inc' : inc'[i] = Pushed(k)
        <3>1. \/ \E i \in Ahead : log[i] = Pushed(k)
              \/ \E i \in DOMAIN inc : inc[i] = Pushed(k)
            BY <1>1, <1>3, <2>1 DEF NoneMissing
        <3>2. CASE \E i \in Ahead : log[i] = Pushed(k)
            BY <1>8, <3>2
        <3>3. ASSUME NEW i \in DOMAIN inc, inc[i] = Pushed(k)
              PROVE  \/ \E j \in Ahead' : log'[j] = Pushed(k)
                     \/ \E j \in DOMAIN inc' : inc'[j] = Pushed(k)
            <4>1. CASE i = 1
                BY <1>5, <1>6, <1>8, <3>3, <4>1
            <4>2. CASE i # 1
                <5>1. i - 1 \in DOMAIN inc' /\ (i - 1) + 1 = i
                    BY <1>5, <4>2
                <5>2. inc'[i - 1] = Pushed(k)
                    BY <1>9, <3>3, <5>1
                <5> QED BY <5>1, <5>2
            <4> QED BY <4>1, <4>2
        <3> QED BY <3>1, <3>2, <3>3
    <2> QED BY <1>1, <1>7, <2>1 DEF NoneMissing
<1>14. TypeOK'
    <2>1. mainPos' \in 0..Len(log') /\ taskPos' \in 0..Len(log')
        BY <1>1, <1>4, <1>6
    <2> QED BY <1>1, <1>3, <1>5, <1>6, <2>1 DEF TypeOK
<1>15. RepliesToRead' /\ QueuedArePushed' /\ ReadsWithoutGap'
    BY <1>1, <1>7 DEF RepliesToRead, SocketInd, QueuedArePushed, ReadsWithoutGap
<1> QED BY <1>1, <1>11, <1>12, <1>13, <1>14, <1>15, SameOut, SameAnswers DEF SocketInd

LEMMA ReaderClosesStep == SocketInd /\ ReaderCloses => SocketInd'
<1> SUFFICES ASSUME SocketInd, ReaderCloses PROVE SocketInd'
    OBVIOUS
<1>1. UNCHANGED <<served, log, queue, pushed, task, taskPos, mainPos, read, main, id, nextId,
                  answers>>
      /\ Close /\ reader' \in BOOLEAN /\ inc # <<>> /\ Head(inc) \in BadFrames /\ inc' = Tail(inc)
    BY DEF ReaderCloses, taskVars, mainVars
<1>2. TypeOK /\ Awaited /\ Ascending /\ NoneMissing
    BY DEF SocketInd
<1>3. inc \in Seq(Messages \cup BadFrames)
    BY <1>2 DEF TypeOK
<1>4. /\ inc[1] \in BadFrames /\ inc' \in Seq(Messages \cup BadFrames)
      /\ Len(inc) \in Nat \ {0} /\ DOMAIN inc = 1..Len(inc) /\ DOMAIN inc' = 1..(Len(inc) - 1)
      /\ \A i \in 1..(Len(inc) - 1) : inc'[i] = inc[i + 1]
    BY <1>1, <1>3, TailIs
<1>5. Queued' = Queued /\ Ahead' = Ahead
    BY <1>1 DEF Queued, Ahead
<1>6. \A i \in DOMAIN inc' : i + 1 \in DOMAIN inc /\ inc'[i] = inc[i + 1] /\ i \in Nat
    BY <1>4
<1>7. Awaited'
    BY <1>1, <1>2, <1>5, <1>6 DEF Awaited
<1>8. Ascending'
    <2>1. ASSUME task', NEW i \in DOMAIN inc', NEW j \in DOMAIN inc', i < j,
                 IsMsg(inc'[i]), IsMsg(inc'[j])
          PROVE  inc'[i].id < inc'[j].id
        <3>1. i + 1 < j + 1
            BY <1>6, <2>1
        <3> QED BY <1>1, <1>2, <1>6, <2>1, <3>1 DEF Ascending
    <2> QED BY <1>1, <1>2, <1>5, <1>6, <2>1 DEF Ascending
<1>9. NoneMissing'
    <2>1. ASSUME NEW i \in DOMAIN inc, NEW k, inc[i] = Pushed(k)
          PROVE  \E j \in DOMAIN inc' : inc'[j] = Pushed(k)
        <3>1. i # 1
            BY <1>4, <2>1, KindsAre
        <3>2. i - 1 \in DOMAIN inc' /\ (i - 1) + 1 = i
            BY <1>4, <3>1
        <3>3. inc'[i - 1] = Pushed(k)
            BY <1>6, <2>1, <3>2
        <3> QED BY <3>2, <3>3
    <2> QED BY <1>1, <1>2, <1>5, <2>1 DEF NoneMissing
<1>10. out' \in Seq(Messages) /\ Len(out) <= Len(out') /\ active' \in BOOLEAN
      /\ NothingAfterClose' /\ OpenUntilClosed'
    BY <1>1, CloseIs
<1>11. served' \in 0..Len(out')
    <2>1. out \in Seq(Messages) /\ served \in 0..Len(out) /\ served' = served
        BY <1>1, <1>2 DEF TypeOK
    <2> QED BY <1>10, <2>1
<1>12. TypeOK'
    BY <1>1, <1>2, <1>4, <1>10, <1>11 DEF TypeOK
<1>13. RepliesToRead' /\ QueuedArePushed' /\ ReadsWithoutGap'
    BY <1>1, <1>5 DEF RepliesToRead, SocketInd, QueuedArePushed, ReadsWithoutGap
<1> QED BY <1>1, <1>7, <1>8, <1>9, <1>10, <1>12, <1>13, SameAnswers DEF SocketInd

LEMMA StreamEndsStep == SocketInd /\ StreamEnds => SocketInd'
<1> SUFFICES ASSUME SocketInd, StreamEnds PROVE SocketInd'
    OBVIOUS
<1>1. UNCHANGED <<active, out, served, inc, log, mainPos, task, taskPos, queue, read, main, id,
                  nextId, answers, pushed>>
      /\ reader' \in BOOLEAN
    BY DEF StreamEnds, netVars, taskVars, mainVars
<1>2. TypeOK'
    BY <1>1 DEF SocketInd, TypeOK
<1>3. RepliesToRead'
    BY <1>1 DEF SocketInd, RepliesToRead
<1> QED BY <1>1, <1>2, <1>3, SameStream, SameOut, SameAnswers DEF SocketInd

-----------------------------------------------------------------------------
(* The task of PersistentReceiver.                                         *)

(* The next message its receiver meets is the one that follows what it has *)
(* queued: if that one were missing here it would have to come later, and  *)
(* what comes later has a higher number.                                   *)
LEMMA NextIsNext ==
    ASSUME SocketInd, task, taskPos < Len(log), IsMsg(log[taskPos + 1])
    PROVE  log[taskPos + 1] = Pushed(Queued + 1) /\ Queued < pushed
<1>1. TypeOK /\ Awaited /\ Ascending /\ NoneMissing
    BY DEF SocketInd
<1>2. log \in Seq(Messages) /\ taskPos \in Nat /\ Len(log) \in Nat /\ pushed \in Nat
      /\ Queued \in Nat
    BY <1>1 DEF TypeOK, Queued
<1>3. PICK p : p = taskPos + 1
    OBVIOUS
<1>4. p \in Ahead /\ p \in DOMAIN log /\ \A i \in Ahead : i # p => p < i
    BY <1>2, <1>3 DEF Ahead
<1>5. PICK k : k = log[p].id
    OBVIOUS
<1>6. IsMsg(log[p]) /\ log[p] = Pushed(k) /\ k \in (Queued + 1)..pushed
    <2>1. log[p] \in Messages
        BY <1>2, <1>4
    <2>2. IsMsg(log[p])
        BY <1>3
    <2> QED BY <1>1, <1>4, <1>5, <2>1, <2>2, MessagesAre DEF Awaited
<1>7. Queued + 1 \in (Queued + 1)..pushed
    BY <1>2, <1>6
<1>8. ASSUME k # Queued + 1 PROVE FALSE
    <2>1. \/ \E i \in Ahead : log[i] = Pushed(Queued + 1)
          \/ \E i \in DOMAIN inc : inc[i] = Pushed(Queued + 1)
        BY <1>1, <1>7 DEF NoneMissing
    <2>2. IsMsg(Pushed(Queued + 1)) /\ Pushed(Queued + 1).id = Queued + 1
        BY KindsAre
    <2>3. ASSUME NEW i \in Ahead, log[i] = Pushed(Queued + 1) PROVE FALSE
        <3>1. i # p
            BY <1>5, <1>8, <2>2, <2>3
        <3>2. log[p].id < log[i].id
            BY <1>1, <1>4, <1>6, <2>2, <2>3, <3>1 DEF Ascending
        <3>3. k < Queued + 1
            BY <1>5, <2>2, <2>3, <3>2
        <3> QED BY <1>2, <1>6, <3>3
    <2>4. ASSUME NEW i \in DOMAIN inc, inc[i] = Pushed(Queued + 1) PROVE FALSE
        <3>1. log[p].id < inc[i].id
            BY <1>1, <1>4, <1>6, <2>2, <2>4 DEF Ascending
        <3>2. k < Queued + 1
            BY <1>5, <2>2, <2>4, <3>1
        <3> QED BY <1>2, <1>6, <3>2
    <2> QED BY <2>1, <2>3, <2>4
<1>9. Queued < pushed
    BY <1>2, <1>7
<1> QED BY <1>3, <1>6, <1>8, <1>9

LEMMA PersistStep == SocketInd /\ Persist => SocketInd'
<1> SUFFICES ASSUME SocketInd, Persist PROVE SocketInd'
    OBVIOUS
<1>1. UNCHANGED <<active, reader, out, log, served, inc, pushed, mainPos, read, main, id, nextId,
                  answers>>
      /\ task /\ taskPos < Len(log)
    BY DEF Persist, netVars, mainVars
<1>2. TypeOK /\ ReadsWithoutGap /\ Awaited /\ Ascending /\ NoneMissing /\ QueuedArePushed
    BY DEF SocketInd
<1>3. log \in Seq(Messages) /\ taskPos \in Nat /\ Len(log) \in Nat /\ queue \in Seq(Messages)
      /\ read \in Seq(Messages) /\ Queued \in Nat /\ pushed \in Nat
    BY <1>2 DEF TypeOK, Queued
<1>4. RepliesToRead'
    BY <1>1 DEF RepliesToRead, SocketInd
<1>5. CASE Lagged(taskPos)
    <2>1. task' = FALSE /\ taskPos' = Len(log) - Capacity /\ queue' = queue
        BY <1>5 DEF Persist
    <2>2. taskPos' \in 0..Len(log)
        BY <1>3, <1>5, <2>1, SocketAssumption DEF Lagged
    <2>3. TypeOK'
        BY <1>1, <1>2, <2>1, <2>2 DEF TypeOK
    <2>4. ~task'
        BY <2>1, Zenon
    <2>5. Awaited' /\ Ascending' /\ NoneMissing'
        BY <2>4, Zenon DEF Awaited, Ascending, NoneMissing
    <2>6. ReadsWithoutGap' /\ QueuedArePushed'
        BY <1>1, <1>2, <2>1 DEF ReadsWithoutGap, QueuedArePushed, Queued
    <2> QED BY <1>1, <1>4, <2>3, <2>5, <2>6, SameOut, SameAnswers DEF SocketInd
<1>6. CASE ~Lagged(taskPos)
    <2>1. PICK m : m = log[taskPos + 1]
        OBVIOUS
    <2>2. task' = task /\ taskPos' = taskPos + 1
          /\ queue' = IF IsMsg(m) THEN Append(queue, m) ELSE queue
        BY <1>6, <2>1 DEF Persist, IsMsg
    <2>3. m \in Messages
        <3>1. taskPos + 1 \in DOMAIN log
            BY <1>1, <1>3
        <3> QED BY <1>3, <2>1, <3>1
    <2>4. /\ taskPos + 1 \in Ahead /\ Ahead' = Ahead \ {taskPos + 1}
          /\ \A i \in Ahead' : i \in Ahead /\ taskPos + 1 < i
        <3>1. Ahead' = (taskPos + 2)..Len(log)
            BY <1>1, <1>3, <2>2 DEF Ahead
        <3>2. Ahead = (taskPos + 1)..Len(log)
            BY DEF Ahead
        <3>3. (taskPos + 2)..Len(log) = ((taskPos + 1)..Len(log)) \ {taskPos + 1}
            BY <1>3
        <3>4. taskPos + 1 \in Ahead /\ Ahead' = Ahead \ {taskPos + 1}
            BY <1>1, <1>3, <3>1, <3>2, <3>3
        <3>5. ASSUME NEW i \in Ahead' PROVE i \in Ahead /\ taskPos + 1 < i
            BY <1>3, <3>1, <3>4, <3>5
        <3> QED BY <3>4, <3>5
    <2>5. taskPos' \in 0..Len(log)
        BY <1>1, <1>3, <2>2
    <2>6. queue' \in Seq(Messages)
        BY <1>3, <2>2, <2>3, AppendIs
    <2>7. TypeOK'
        BY <1>1, <1>2, <2>2, <2>5, <2>6 DEF TypeOK
    <2>8. Ascending'
        BY <1>1, <1>2, <2>2, <2>4 DEF Ascending
    <2>9. CASE IsMsg(m)
        <3>1. m = Pushed(Queued + 1) /\ Queued < pushed
            BY <1>1, <2>1, <2>9, NextIsNext
        <3>2. queue' = Append(queue, m)
            BY <2>2, <2>9
        <3>3. Queued' = Queued + 1
            <4>1. Len(queue') = Len(queue) + 1 /\ Len(queue) \in Nat /\ Len(read) \in Nat
                BY <1>3, <2>3, <3>2, AppendIs
            <4> QED BY <1>1, <4>1 DEF Queued
        <3>4. ReadsWithoutGap'
            <4>1. PICK g : g = read \o queue
                OBVIOUS
            <4>2. g \in Seq(Messages) /\ Len(g) = Queued /\ \A i \in DOMAIN g : g[i] = Pushed(i)
                BY <1>2, <1>3, <4>1, ConcatIs DEF Queued, ReadsWithoutGap
            <4>3. read' \o queue' = Append(g, m)
                BY <1>1, <1>3, <2>3, <3>2, <4>1, ConcatAppend
            <4>4. \A i \in DOMAIN Append(g, m) : Append(g, m)[i] = Pushed(i)
                <5>1. /\ DOMAIN Append(g, m) = 1..(Queued + 1) /\ DOMAIN g = 1..Queued
                      /\ Append(g, m)[Queued + 1] = m
                      /\ \A i \in 1..Queued : Append(g, m)[i] = g[i]
                    BY <2>3, <4>2, AppendIs
                <5> QED BY <1>3, <3>1, <4>2, <5>1
            <4> QED BY <4>3, <4>4 DEF ReadsWithoutGap
        <3>5. QueuedArePushed'
            BY <1>1, <1>3, <3>1, <3>3 DEF QueuedArePushed
        <3>6. m.id = Queued + 1
            BY <3>1, KindsAre
        <3>7. Awaited'
            <4>1. ASSUME NEW i \in Ahead', IsMsg(log[i])
                  PROVE  log[i].id \in (Queued + 2)..pushed
                <5>1. log[i].id \in (Queued + 1)..pushed
                    BY <1>1, <1>2, <2>4, <4>1 DEF Awaited
                <5>2. m.id < log[i].id
                    BY <1>1, <1>2, <2>1, <2>4, <2>9, <4>1 DEF Ascending
                <5> QED BY <1>3, <3>6, <5>1, <5>2
            <4>2. ASSUME NEW i \in DOMAIN inc, IsMsg(inc[i])
                  PROVE  inc[i].id \in (Queued + 2)..pushed
                <5>1. inc[i].id \in (Queued + 1)..pushed
                    BY <1>1, <1>2, <4>2 DEF Awaited
                <5>2. m.id < inc[i].id
                    BY <1>1, <1>2, <2>1, <2>4, <2>9, <4>2 DEF Ascending
                <5> QED BY <1>3, <3>6, <5>1, <5>2
            <4>3. Queued' + 1 = Queued + 2
                BY <1>3, <3>3
            <4> QED BY <1>1, <4>1, <4>2, <4>3 DEF Awaited
        <3>8. NoneMissing'
            <4>1. ASSUME NEW k \in (Queued + 2)..pushed
                  PROVE  \/ \E i \in Ahead' : log[i] = Pushed(k)
                         \/ \E i \in DOMAIN inc : inc[i] = Pushed(k)
                <5>1. k \in (Queued + 1)..pushed /\ k # Queued + 1
                    BY <1>3
                <5>2. \/ \E i \in Ahead : log[i] = Pushed(k)
                      \/ \E i \in DOMAIN inc : inc[i] = Pushed(k)
                    BY <1>1, <1>2, <5>1 DEF NoneMissing
                <5>3. log[taskPos + 1] # Pushed(k)
                    BY <2>1, <3>6, <5>1, KindsAre
                <5> QED BY <2>4, <5>2, <5>3
            <4>2. Queued' + 1 = Queued + 2
                BY <1>3, <3>3
            <4> QED BY <1>1, <4>1, <4>2 DEF NoneMissing
        <3> QED BY <1>1, <1>4, <2>7, <2>8, <3>4, <3>5, <3>7, <3>8, SameOut, SameAnswers DEF SocketInd
    <2>10. CASE ~IsMsg(m)
        <3>1. queue' = queue /\ Queued' = Queued
            BY <1>1, <2>2, <2>10 DEF Queued
        <3>2. ReadsWithoutGap' /\ QueuedArePushed'
            BY <1>1, <1>2, <3>1 DEF ReadsWithoutGap, QueuedArePushed
        <3>3. Awaited'
            BY <1>1, <1>2, <2>4, <3>1 DEF Awaited
        <3>4. NoneMissing'
            <4>1. \A k : log[taskPos + 1] # Pushed(k)
                BY <2>1, <2>10, KindsAre
            <4> QED BY <1>1, <1>2, <2>4, <3>1, <4>1 DEF NoneMissing
        <3> QED BY <1>1, <1>4, <2>7, <2>8, <3>2, <3>3, <3>4, SameOut, SameAnswers DEF SocketInd
    <2> QED BY <2>9, <2>10
<1> QED BY <1>5, <1>6

-----------------------------------------------------------------------------
LEMMA InitInd == Init => SocketInd
<1> SUFFICES ASSUME Init PROVE SocketInd
    OBVIOUS
<1>1. /\ active = TRUE /\ reader = TRUE /\ out = <<>> /\ served = 0 /\ inc = <<>> /\ log = <<>>
      /\ mainPos = 0 /\ task = TRUE /\ taskPos = 0 /\ queue = <<>> /\ read = <<>>
      /\ main = "idle" /\ id = 0 /\ nextId = 0 /\ answers = {} /\ pushed = 0
    BY DEF Init
<1>2. TypeOK
    BY <1>1, EmptyIs, SocketAssumption DEF TypeOK
<1>3. Queued = 0 /\ Ahead = {} /\ (Queued + 1)..pushed = {} /\ DOMAIN inc = {} /\ DOMAIN out = {}
    BY <1>1, EmptyIs DEF Queued, Ahead
<1>4. read \o queue = <<>>
    BY <1>1
<1>5. ReadsWithoutGap
    BY <1>4, EmptyIs DEF ReadsWithoutGap
<1>6. NothingAfterClose /\ AnswersOwnRequest /\ OpenUntilClosed /\ RepliesToRead
    BY <1>1, <1>3 DEF NothingAfterClose, AnswersOwnRequest, OpenUntilClosed, RepliesToRead
<1>7. Awaited /\ Ascending /\ NoneMissing /\ QueuedArePushed
    BY <1>1, <1>3 DEF Awaited, Ascending, NoneMissing, QueuedArePushed
<1> QED BY <1>2, <1>5, <1>6, <1>7 DEF SocketInd

LEMMA StepInd == SocketInd /\ [Next]_vars => SocketInd'
<1> SUFFICES ASSUME SocketInd, [Next]_vars PROVE SocketInd'
    OBVIOUS
<1>1. CASE Next
    BY <1>1, NextIdStep, SendStep, WaitForIdStep, GetMessageStep, SendResponseStep, DisconnectStep,
       BroadcastStep, ReaderClosesStep, StreamEndsStep, PersistStep, ServeStep, PushStep, BreakStep
       DEF Next
<1>2. CASE UNCHANGED vars
    <2>1. UNCHANGED <<active, reader, out, served, inc, log, mainPos, task, taskPos, queue, read,
                      main, id, nextId, answers, pushed>>
        BY <1>2 DEF vars
    <2>2. TypeOK' /\ RepliesToRead'
        BY <2>1 DEF SocketInd, TypeOK, RepliesToRead
    <2> QED BY <2>1, <2>2, SameStream, SameOut, SameAnswers DEF SocketInd
<1> QED BY <1>1, <1>2

LEMMA AlwaysInd == Spec => []SocketInd
BY InitInd, StepInd, PTL DEF Spec

(* Whatever the capacity of the broadcast channel and however far the task *)
(* of PersistentReceiver falls behind, main reads the messages the server  *)
(* pushed from the first on and without a gap, and whoever closes the      *)
(* connection, one close frame is written and nothing after it.            *)
THEOREM SocketCorrect == Spec => []SocketInv
<1>1. SocketInd => SocketInv
    BY DEF SocketInd, SocketInv
<1> QED BY <1>1, AlwaysInd, PTL

(* What send() returns for a request is the answer to that request, also   *)
(* after waits that ended because the receiver of main fell behind.        *)
THEOREM AnswersMatch == Spec => []AnswersOwnRequest
<1>1. SocketInd => AnswersOwnRequest
    BY DEF SocketInd
<1> QED BY <1>1, AlwaysInd, PTL
=============================================================================
