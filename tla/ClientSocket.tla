---------------------------- MODULE ClientSocket ----------------------------
(***************************************************************************)
(* The websocket of one client: SocketManager (client/src/                 *)
(* socket_manager.rs), the calls of SignalServer on it (client/src/        *)
(* server.rs) and PersistentReceiver (client/src/persistent_receiver.rs).  *)
(*                                                                         *)
(* Three tasks run: main sends requests, waits for their answers and       *)
(* replies to the messages it reads; the reader of set_stream broadcasts   *)
(* every frame that arrives; the task of PersistentReceiver copies the     *)
(* messages to an unbounded queue.  The broadcast channel keeps the last   *)
(* Capacity messages: a receiver that is further behind gets an error.     *)
(*                                                                         *)
(* The server is external: it answers requests in order and pushes         *)
(* messages whenever it likes.                                             *)
(***************************************************************************)
EXTENDS Integers, SequencesExt

CONSTANTS
  Capacity,       \* capacity of the broadcast channel
  MaxSends,       \* bound: requests main sends
  MaxPushed,      \* bound: messages the server pushes
  Faults          \* writes fail, the server closes or sends what is no message

ASSUME SocketAssumption ==
  /\ Capacity \in Nat \ {0}
  /\ MaxSends \in Nat
  /\ MaxPushed \in Nat
  /\ Faults \in BOOLEAN

VARIABLES
  active,         \* SocketManager.connection is Active
  reader,         \* the task of set_stream is running
  out,            \* what was written to the socket, in order
  served,         \* how much of it the server has handled
  inc,            \* frames on their way to the client
  log,            \* all messages sent to the broadcast channel
  mainPos,        \* how many of them the receiver of main has passed
  task,           \* the task of PersistentReceiver is running
  taskPos,        \* how many of them its receiver has passed
  queue,          \* the queue of PersistentReceiver
  read,           \* history: the messages main has read from it
  main,           \* "idle", "sending", "waiting", "replying", "done"
  id,             \* the id of the request main is sending or waiting for
  nextId,         \* SocketManager.next_id
  answers,        \* history: what send() returned, by request id
  pushed          \* messages the server has pushed

vars == <<active, reader, out, served, inc, log, mainPos, task, taskPos, queue,
          read, main, id, nextId, answers, pushed>>

netVars   == <<served, inc, pushed>>
taskVars  == <<task, taskPos>>
mainVars  == <<mainPos, read, main, id, nextId, answers>>

Request(n)  == [type |-> "request", id |-> n]     \* a request of the client
Response(n) == [type |-> "response", id |-> n]    \* the answer to it
Pushed(n)   == [type |-> "message", id |-> n]     \* PUT /api/v1/message
Reply(n)    == [type |-> "reply", id |-> n]       \* the client's answer to it
CloseFrame  == [type |-> "close", id |-> 0]

(* What arrives and is no WebSocketMessage: a text frame, a close frame, a *)
(* read error, a frame that does not decode.                               *)
BadFrames == {[type |-> t, id |-> 0] : t \in {"text", "close", "error", "garbage"}}

Init ==
  /\ active = TRUE
  /\ reader = TRUE
  /\ out = <<>>
  /\ served = 0
  /\ inc = <<>>
  /\ log = <<>>
  /\ mainPos = 0
  /\ task = TRUE
  /\ taskPos = 0
  /\ queue = <<>>
  /\ read = <<>>
  /\ main = "idle"
  /\ id = 0
  /\ nextId = 0
  /\ answers = {}
  /\ pushed = 0

(* recv on the broadcast channel: the message was overwritten.             *)
Lagged(pos) == Len(log) - pos > Capacity

-----------------------------------------------------------------------------
(* Main.                                                                   *)

(* send_msg takes the next id.                                             *)
NextId ==
  /\ main = "idle"
  /\ nextId < MaxSends
  /\ id' = nextId
  /\ nextId' = nextId + 1
  /\ main' = "sending"
  /\ UNCHANGED <<active, reader, out, log, mainPos, queue, read, answers>>
  /\ UNCHANGED netVars /\ UNCHANGED taskVars

(* send: the request is written under the lock of the connection; an error *)
(* if it is closed or the write fails.                                     *)
Send ==
  /\ main = "sending"
  /\ \/ /\ active
        /\ out' = Append(out, Request(id))
        /\ main' = "waiting"
     \/ /\ ~active \/ Faults
        /\ main' = "idle"
        /\ UNCHANGED out
  /\ UNCHANGED <<active, reader, log, mainPos, queue, read, id, nextId, answers>>
  /\ UNCHANGED netVars /\ UNCHANGED taskVars

(* Mutant: any response is taken for the answer. *)
WaitForAny ==
  /\ main = "waiting"
  /\ mainPos < Len(log)
  /\ LET msg == log[mainPos + 1] IN
     IF Lagged(mainPos)
     THEN /\ mainPos' = Len(log) - Capacity
          /\ main' = "idle"
          /\ UNCHANGED answers
     ELSE /\ mainPos' = mainPos + 1
          /\ IF msg.type = "response"
             THEN /\ answers' = answers \cup {[id |-> id, got |-> msg]}
                  /\ main' = "idle"
             ELSE UNCHANGED <<answers, main>>
  /\ UNCHANGED <<active, reader, out, log, queue, read, id, nextId>>
  /\ UNCHANGED netVars /\ UNCHANGED taskVars

(* wait_for_id: messages are received until one has the id; an error of    *)
(* the channel ends the wait, and the receiver goes on with the oldest     *)
(* message that is left.  The ids the server gives its own requests are    *)
(* random 64-bit numbers and taken to be none of the client's.             *)
WaitForId ==
  /\ main = "waiting"
  /\ mainPos < Len(log)
  /\ LET msg == log[mainPos + 1] IN
     IF Lagged(mainPos)
     THEN /\ mainPos' = Len(log) - Capacity
          /\ main' = "idle"
          /\ UNCHANGED answers
     ELSE /\ mainPos' = mainPos + 1
          /\ IF msg.type = "response" /\ msg.id = id
             THEN /\ answers' = answers \cup {[id |-> id, got |-> msg]}
                  /\ main' = "idle"
             ELSE UNCHANGED <<answers, main>>
  /\ UNCHANGED <<active, reader, out, log, queue, read, id, nextId>>
  /\ UNCHANGED netVars /\ UNCHANGED taskVars

(* get_message takes the first message of the queue.                       *)
GetMessage ==
  /\ main = "idle"
  /\ queue # <<>>
  /\ read' = Append(read, Head(queue))
  /\ queue' = Tail(queue)
  /\ main' = "replying"
  /\ UNCHANGED <<active, reader, out, log, mainPos, id, nextId, answers>>
  /\ UNCHANGED netVars /\ UNCHANGED taskVars

(* send_response for the message read last; an error is ignored.           *)
SendResponse ==
  /\ main = "replying"
  /\ out' = IF active THEN Append(out, Reply(Last(read).id)) ELSE out
  /\ main' = "idle"
  /\ UNCHANGED <<active, reader, log, mainPos, queue, read, id, nextId, answers>>
  /\ UNCHANGED netVars /\ UNCHANGED taskVars

(* close: the first caller that finds the connection active closes it.     *)
Close ==
  /\ active' = FALSE
  /\ out' = IF active THEN Append(out, CloseFrame) ELSE out

(* "quit".                                                                 *)
Disconnect ==
  /\ main = "idle"
  /\ Close
  /\ main' = "done"
  /\ UNCHANGED <<reader, log, mainPos, queue, read, id, nextId, answers>>
  /\ UNCHANGED netVars /\ UNCHANGED taskVars

-----------------------------------------------------------------------------
(* The task of set_stream.                                                 *)

(* Mutant: responses are not passed on. *)
BroadcastMessages ==
  /\ reader
  /\ inc # <<>>
  /\ Head(inc) \notin BadFrames
  /\ log' = IF Head(inc).type = "message" THEN Append(log, Head(inc)) ELSE log
  /\ inc' = Tail(inc)
  /\ UNCHANGED <<active, reader, out, served, queue, pushed>>
  /\ UNCHANGED taskVars /\ UNCHANGED mainVars

(* A message goes to all receivers.                                        *)
Broadcast ==
  /\ reader
  /\ inc # <<>>
  /\ Head(inc) \notin BadFrames
  /\ log' = Append(log, Head(inc))
  /\ inc' = Tail(inc)
  /\ UNCHANGED <<active, reader, out, served, queue, pushed>>
  /\ UNCHANGED taskVars /\ UNCHANGED mainVars

(* Anything else closes the connection and ends the task.                  *)
ReaderCloses ==
  /\ reader
  /\ inc # <<>>
  /\ Head(inc) \in BadFrames
  /\ Close
  /\ reader' = FALSE
  /\ inc' = Tail(inc)
  /\ UNCHANGED <<served, log, queue, pushed>>
  /\ UNCHANGED taskVars /\ UNCHANGED mainVars

(* The stream ends: so does the task, and the connection stays as it is.   *)
StreamEnds ==
  /\ Faults
  /\ reader
  /\ inc = <<>>
  /\ reader' = FALSE
  /\ UNCHANGED <<active, out, log, queue>>
  /\ UNCHANGED netVars /\ UNCHANGED taskVars /\ UNCHANGED mainVars

-----------------------------------------------------------------------------
(* The task of PersistentReceiver.                                         *)

(* Mutant: the task goes on with the oldest message left. *)
PersistSkipping ==
  /\ task
  /\ taskPos < Len(log)
  /\ IF Lagged(taskPos)
     THEN /\ taskPos' = Len(log) - Capacity
          /\ UNCHANGED <<task, queue>>
     ELSE /\ queue' = IF log[taskPos + 1].type = "message"
                      THEN Append(queue, log[taskPos + 1]) ELSE queue
          /\ taskPos' = taskPos + 1
          /\ UNCHANGED task
  /\ UNCHANGED <<active, reader, out, log>>
  /\ UNCHANGED netVars /\ UNCHANGED mainVars

(* A pushed message is queued, anything else passed over; an error of the  *)
(* channel ends the task.                                                  *)
Persist ==
  /\ task
  /\ taskPos < Len(log)
  /\ IF Lagged(taskPos)
     THEN /\ task' = FALSE
          /\ taskPos' = Len(log) - Capacity
          /\ UNCHANGED queue
     ELSE /\ queue' = IF log[taskPos + 1].type = "message"
                      THEN Append(queue, log[taskPos + 1]) ELSE queue
          /\ taskPos' = taskPos + 1
          /\ UNCHANGED task
  /\ UNCHANGED <<active, reader, out, log>>
  /\ UNCHANGED netVars /\ UNCHANGED mainVars

-----------------------------------------------------------------------------
(* The server.                                                             *)

(* It handles what the client has written, and answers a request.          *)
Serve ==
  /\ served < Len(out)
  /\ served' = served + 1
  /\ inc' = IF out[served + 1].type = "request"
            THEN Append(inc, Response(out[served + 1].id)) ELSE inc
  /\ UNCHANGED <<active, reader, out, log, queue, pushed>>
  /\ UNCHANGED taskVars /\ UNCHANGED mainVars

Push ==
  /\ pushed < MaxPushed
  /\ pushed' = pushed + 1
  /\ inc' = Append(inc, Pushed(pushed + 1))
  /\ UNCHANGED <<active, reader, out, served, log, queue>>
  /\ UNCHANGED taskVars /\ UNCHANGED mainVars

(* A frame after which nothing else comes.                                 *)
Break ==
  /\ Faults
  /\ \A i \in DOMAIN inc : inc[i] \notin BadFrames
  /\ \E f \in BadFrames : inc' = Append(inc, f)
  /\ UNCHANGED <<active, reader, out, served, log, queue, pushed>>
  /\ UNCHANGED taskVars /\ UNCHANGED mainVars

Next ==
  \/ NextId \/ Send \/ WaitForId \/ GetMessage \/ SendResponse \/ Disconnect
  \/ Broadcast \/ ReaderCloses \/ StreamEnds
  \/ Persist
  \/ Serve \/ Push \/ Break

Spec == Init /\ [][Next]_vars

(* The tasks run on, and the server answers.                               *)
FairSpec ==
  /\ Spec
  /\ WF_vars(Send)
  /\ WF_vars(WaitForId)
  /\ WF_vars(SendResponse)
  /\ WF_vars(Broadcast)
  /\ WF_vars(Persist)
  /\ WF_vars(Serve)

-----------------------------------------------------------------------------
Messages == [type : {"request", "response", "message", "reply", "close"},
             id : 0..MaxSends \cup 0..MaxPushed]

(* Type invariant: the tasks, the channel and the socket hold values of    *)
(* their types, and no receiver is ahead of the channel.                   *)
TypeOK ==
  /\ active \in BOOLEAN /\ reader \in BOOLEAN /\ task \in BOOLEAN
  /\ out \in Seq(Messages)
  /\ served \in 0..Len(out)
  /\ inc \in Seq(Messages \cup BadFrames)
  /\ log \in Seq(Messages)
  /\ mainPos \in 0..Len(log) /\ taskPos \in 0..Len(log)
  /\ queue \in Seq(Messages) /\ read \in Seq(Messages)
  /\ main \in {"idle", "sending", "waiting", "replying", "done"}
  /\ id \in 0..MaxSends /\ nextId \in 0..MaxSends
  /\ answers \subseteq [id : 0..MaxSends, got : Messages]
  /\ pushed \in 0..MaxPushed

(* What main reads and what it still has to read are the messages the      *)
(* server pushed, in order and from the first on: the task that falls      *)
(* behind the channel stops, and never skips a message to go on with a     *)
(* later one.                                                              *)
ReadsWithoutGap ==
  LET got == read \o queue IN \A i \in DOMAIN got : got[i] = Pushed(i)

(* What send() returns for a request is the answer to that request, also   *)
(* when an earlier wait was given up and its answer arrives late.          *)
AnswersOwnRequest == \A a \in answers : a.got = Response(a.id)

(* Main and the reader may both close: one close frame is written, and     *)
(* nothing after it.                                                       *)
NothingAfterClose == \A i \in DOMAIN out : out[i] = CloseFrame => i = Len(out)

(* The types of all variables, ReadsWithoutGap and NothingAfterClose: both *)
(* directions of the socket carry what they should, whoever closes it      *)
(* (PersistentReceiver::new, SocketManager::close).                        *)
SocketInv == TypeOK /\ ReadsWithoutGap /\ NothingAfterClose

(* The connection is closed, or a frame that ends it has been sent. *)
Down == ~active \/ ~reader \/ \E i \in DOMAIN inc : inc[i] \in BadFrames

(* While the connection is up send() returns, with the answer or with the  *)
(* error of a receiver that fell behind: wait_for_id passes over any       *)
(* number of other messages and does not lose its own among them.          *)
SendReturns == main = "waiting" ~> main = "idle" \/ Down

=============================================================================
