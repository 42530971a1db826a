------------------------------ MODULE ClientV2 ------------------------------
(***************************************************************************)
(* The v2 client library: CpuCom in CpuComImpl_v2.cpp, over its            *)
(* CpuComMessenger.                                                        *)
(*                                                                         *)
(* Application threads call send, request, subscribe and unsubscribe, and  *)
(* destroy the response objects request returns.  Each call changes the    *)
(* client's tables under their mutex, unlocks, and then hands a message to *)
(* the messenger: two steps, since another thread, or the messenger's      *)
(* incoming thread, can run between them.  The messenger's incoming       *)
(* executor runs the on* handlers one message at a time.  When the         *)
(* connection closes the messenger reconnects, under a new session, and   *)
(* runs the resume handler of initialize.                                  *)
(*                                                                         *)
(* Ghost state: answers[i] is the cause of the data request i's promise   *)
(* was set to, sentOn[i] the session the message of call i went out on    *)
(* (NoSession if it was dropped), and                                     *)
(* responses the ids whose response objects the application holds.        *)
(***************************************************************************)
EXTENDS Naturals, Sequences, SequencesExt

CONSTANTS
  Sessions, Commands, Ids, NoId,
  NoSession,      \* the client's session while it is not connected
  AppCommands,    \* the commands the application sends and subscribes to
  Threads,        \* application threads
  ReqCmd,         \* the command requests send
  RespCmd,        \* the command that answers ReqCmd
  MaxCalls        \* bound on send/subscribe/unsubscribe calls

VARIABLES
  session,            \* the messenger's current session, or NoSession
  callbacks,          \* the commands of m_callbacks
  promises,           \* the ids of m_requests
  deliveryCallbacks,  \* the ids of m_deliveryStatusCallbacks
  pc,                 \* thread -> [op, cmd, id]: the call it is in
  used,               \* ids generated so far
  calls,              \* calls made so far, against MaxCalls
  responses, answers, sentOn,
  resume,             \* the resume handler: [todo, cur], see below
  strays,             \* ghost: commands the resume handler resubscribed
                      \* after the application had dropped them
  toDaemon, toClient, sessions

clientVars == <<session, callbacks, promises, deliveryCallbacks, pc, used,
                calls, responses, answers, sentOn, resume, strays>>

NotSet == "notset"
Idle == [op |-> "idle", cmd |-> NoId, id |-> NoId]
ResumeIdle == [todo |-> {}, cur |-> NoId]

ClientInit(s0) ==
  /\ session = s0
  /\ callbacks = {} /\ promises = {} /\ deliveryCallbacks = {}
  /\ pc = [t \in Threads |-> Idle]
  /\ used = {} /\ calls = 0 /\ responses = {}
  /\ answers = [i \in Ids |-> NotSet]
  /\ sentOn = [i \in Ids |-> NoSession]
  /\ resume = ResumeIdle /\ strays = {}

-----------------------------------------------------------------------------
(* The messenger: a message sent while there is no connection is dropped. *)

SendMessage(m) ==
  toDaemon' = IF session # NoSession
              THEN [toDaemon EXCEPT ![session] = Append(@, m)]
              ELSE toDaemon

\* Thread t, idle, starts a call; Step(t, op, c, i) is the step that ends
\* with the tables changed and the message still to send.
Step(t, op, c, i) == pc' = [pc EXCEPT ![t] = [op |-> op, cmd |-> c, id |-> i]]
Done(t) == pc' = [pc EXCEPT ![t] = Idle]

-----------------------------------------------------------------------------
(* The calls of the application threads.                                   *)

send(t, c) ==
  /\ pc[t] = Idle /\ calls < MaxCalls
  /\ SendMessage([type |-> "SendCommand", cmd |-> c])
  /\ calls' = calls + 1
  /\ UNCHANGED <<resume, strays, session, callbacks, promises, deliveryCallbacks, pc, used,
                 responses, answers, sentOn, toClient, sessions>>

sendWithStatus(t, c) ==
  /\ pc[t] = Idle
  /\ \E i \in Ids \ used :
       /\ deliveryCallbacks' = deliveryCallbacks \cup {i}
       /\ used' = used \cup {i}
       /\ Step(t, "sendWithStatus", c, i)
  /\ UNCHANGED <<resume, strays, session, callbacks, promises, calls, responses, answers,
                 sentOn, toDaemon, toClient, sessions>>

\* Mutant: the id is not a fresh UUID, so a later call can reuse it.
requestReusesId(t) ==
  /\ pc[t] = Idle
  /\ \E i \in Ids :
       /\ promises' = promises \cup {i}
       /\ Step(t, "request", ReqCmd, i)
  /\ UNCHANGED <<resume, strays, session, callbacks, deliveryCallbacks, used, calls, responses,
                 answers, sentOn, toDaemon, toClient, sessions>>

request(t) ==
  /\ pc[t] = Idle
  /\ \E i \in Ids \ used :
       /\ promises' = promises \cup {i}
       /\ used' = used \cup {i}
       /\ Step(t, "request", ReqCmd, i)
  /\ UNCHANGED <<resume, strays, session, callbacks, deliveryCallbacks, calls, responses,
                 answers, sentOn, toDaemon, toClient, sessions>>

\* ~CpuComResponse: the cleanup erases the promise and cancels only if it
\* was still there.
destroyResponse(t) ==
  /\ pc[t] = Idle
  /\ \E i \in responses :
       /\ responses' = responses \ {i}
       /\ promises' = promises \ {i}
       /\ IF i \in promises THEN Step(t, "cancel", NoId, i) ELSE Done(t)
  /\ UNCHANGED <<resume, strays, session, callbacks, deliveryCallbacks, used, calls, answers,
                 sentOn, toDaemon, toClient, sessions>>

\* A command inserted while the resume handler iterates m_callbacks may or
\* may not be reached by the iteration, depending on where it sorts.
subscribe(t, c) ==
  /\ pc[t] = Idle /\ calls < MaxCalls
  /\ calls' = calls + 1
  /\ IF c \notin callbacks
     THEN /\ callbacks' = callbacks \cup {c}
          /\ Step(t, "subscribe", c, NoId)
          /\ strays' = strays \ {c}
          /\ \/ UNCHANGED resume
             \/ resume # ResumeIdle /\ resume' = [resume EXCEPT !.todo = @ \cup {c}]
     ELSE UNCHANGED <<callbacks, pc, resume, strays>>
  /\ UNCHANGED <<session, promises, deliveryCallbacks, used, responses,
                 answers, sentOn, toDaemon, toClient, sessions>>

unsubscribe(t, c) ==
  /\ pc[t] = Idle /\ calls < MaxCalls
  /\ calls' = calls + 1
  /\ callbacks' = callbacks \ {c}
  /\ Step(t, "unsubscribe", c, NoId)
  /\ UNCHANGED <<resume, strays, session, promises, deliveryCallbacks, used, responses,
                 answers, sentOn, toDaemon, toClient, sessions>>

\* The second step of each call: the message, after the unlock.
CallMessage(p) ==
  CASE p.op = "sendWithStatus" ->
         [type |-> "SendCommandWithDeliveryStatus", id |-> p.id, cmd |-> p.cmd]
    [] p.op = "request" ->
         [type |-> "Request", id |-> p.id, cmd |-> ReqCmd, resp |-> RespCmd]
    [] p.op = "cancel"      -> [type |-> "CancelRequest", id |-> p.id]
    [] p.op = "subscribe"   -> [type |-> "Subscribe", cmd |-> p.cmd]
    [] p.op = "unsubscribe" -> [type |-> "Unsubscribe", cmd |-> p.cmd]

sendCallMessage(t) ==
  /\ pc[t] # Idle
  /\ SendMessage(CallMessage(pc[t]))
  /\ Done(t)
  /\ sentOn' = IF pc[t].op \in {"sendWithStatus", "request"}
               THEN [sentOn EXCEPT ![pc[t].id] = session]
               ELSE sentOn
  /\ responses' = IF pc[t].op = "request" THEN responses \cup {pc[t].id}
                                          ELSE responses
  /\ UNCHANGED <<resume, strays, session, callbacks, promises, deliveryCallbacks, used, calls,
                 answers, toClient, sessions>>
-----------------------------------------------------------------------------
(* The messenger's incoming thread.                                        *)

Receive(type) ==
  /\ session # NoSession
  /\ toClient[session] # << >>
  /\ Head(toClient[session]).type = type
  /\ toClient' = [toClient EXCEPT ![session] = Tail(@)]

In == Head(toClient[session])

\* The callback found under the lock, if any, is called: no table changes.
onNotification ==
  /\ Receive("Notification")
  /\ UNCHANGED <<clientVars, toDaemon, sessions>>

onSendCommandResult ==
  /\ Receive("SendCommandResult")
  /\ UNCHANGED <<clientVars, toDaemon, sessions>>

onRequestResponse ==
  /\ Receive("RequestResponse")
  /\ answers' = IF In.id \in promises
                THEN [answers EXCEPT ![In.id] = In.cause]
                ELSE answers
  /\ promises' = promises \ {In.id}
  /\ UNCHANGED <<resume, strays, session, callbacks, deliveryCallbacks, pc, used, calls,
                 responses, sentOn, toDaemon, sessions>>

onDeliveryStatus ==
  /\ Receive("DeliveryStatus")
  /\ deliveryCallbacks' = deliveryCallbacks \ {In.id}
  /\ UNCHANGED <<resume, strays, session, callbacks, promises, pc, used, calls, responses,
                 answers, sentOn, toDaemon, sessions>>

-----------------------------------------------------------------------------
(* The connection.  The messenger notices a closed connection, drops what  *)
(* it had not read, and calls the closed handler; it then reconnects under *)
(* a session the server has not used and calls the resume handler, which  *)
(* walks m_callbacks WITHOUT m_callbacksMutex and sends Subscribe for each  *)
(* command it finds.  resume.todo holds the commands the walk has still to *)
(* reach, resume.cur the one whose key it has read and not yet sent.  The  *)
(* application threads keep running during the walk.                      *)

connectionClosed ==
  /\ session # NoSession
  /\ sessions' = [sessions EXCEPT ![session] = "closing"]
  /\ toClient' = [toClient EXCEPT ![session] = << >>]
  /\ session' = NoSession
  /\ UNCHANGED <<callbacks, promises, deliveryCallbacks, pc, used, calls,
                 responses, answers, sentOn, resume, strays, toDaemon>>

\* Mutant: the resume handler does not resubscribe.
connectionResumedNoResubscribe ==
  /\ session = NoSession /\ resume = ResumeIdle
  /\ \E s \in Sessions :
       /\ sessions[s] = "unused"
       /\ sessions' = [sessions EXCEPT ![s] = "open"]
       /\ session' = s
  /\ UNCHANGED <<callbacks, promises, deliveryCallbacks, pc, used, calls,
                 responses, answers, sentOn, resume, strays, toDaemon, toClient>>

connectionResumed ==
  /\ session = NoSession /\ resume = ResumeIdle
  /\ \E s \in Sessions :
       /\ sessions[s] = "unused"
       /\ sessions' = [sessions EXCEPT ![s] = "open"]
       /\ session' = s
  /\ resume' = [todo |-> callbacks, cur |-> NoId]
  /\ UNCHANGED <<callbacks, promises, deliveryCallbacks, pc, used, calls,
                 responses, answers, sentOn, strays, toDaemon, toClient>>

\* The walk reaches a command; one erased before it got there is not met.
resumeRead ==
  /\ resume.cur = NoId
  /\ \E c \in resume.todo :
       resume' = [todo |-> resume.todo \ {c},
                  cur  |-> IF c \in callbacks THEN c ELSE NoId]
  /\ UNCHANGED <<session, callbacks, promises, deliveryCallbacks, pc, used,
                 calls, responses, answers, sentOn, strays, toDaemon, toClient,
                 sessions>>

\* sendSubscribeMessage(i->first).  If an application thread erased the
\* command after the walk read it, the Subscribe still goes out (the erase
\* invalidates the iterator: the model takes the outcome in which the stale
\* key is sent and the walk goes on).
resumeSend ==
  /\ resume.cur # NoId
  /\ SendMessage([type |-> "Subscribe", cmd |-> resume.cur])
  /\ strays' = IF resume.cur \in callbacks THEN strays ELSE strays \cup {resume.cur}
  /\ resume' = [resume EXCEPT !.cur = NoId]
  /\ UNCHANGED <<session, callbacks, promises, deliveryCallbacks, pc, used,
                 calls, responses, answers, sentOn, toClient, sessions>>

ResumeHandler == resumeRead \/ resumeSend

-----------------------------------------------------------------------------
AppThread(t) ==
  \/ \E c \in AppCommands :
       send(t, c) \/ sendWithStatus(t, c) \/ subscribe(t, c) \/ unsubscribe(t, c)
  \/ request(t) \/ destroyResponse(t) \/ sendCallMessage(t)

IncomingThread ==
  onNotification \/ onSendCommandResult \/ onRequestResponse \/ onDeliveryStatus

ClientNext ==
  \/ \E t \in Threads : AppThread(t)
  \/ IncomingThread
  \/ connectionClosed \/ connectionResumed \/ ResumeHandler
=============================================================================
