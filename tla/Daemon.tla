------------------------------- MODULE Daemon -------------------------------
(***************************************************************************)
(* CpuComDaemon (CpuComDaemon.cpp) between its clients and the MCU.        *)
(*                                                                         *)
(* Two threads run the daemon's code.  The message server's incoming       *)
(* SingleThreadExecutor (main.cpp) runs one handler at a time, on the      *)
(* oldest unhandled message of some session: on* below.  The periodic     *)
(* executor runs vcpuThreadFunction again and again: it reads a payload,   *)
(* copies the subscribers of its command under m_subscribersMutex, sends   *)
(* the notifications, and then, under m_requestsMutex, takes the first    *)
(* request waiting for that command and sends it the response.  These are  *)
(* two steps, vcpuRead and vcpuMatch, since the incoming thread can change *)
(* m_requests between them.                                                *)
(*                                                                         *)
(* A payload is [cmd, cause]: its command and the request id whose         *)
(* request the MCU answered with it (NoId for any other payload).  The     *)
(* cause is ghost state: it lets a property ask whether a response went to *)
(* the request that caused it.                                             *)
(***************************************************************************)
EXTENDS Naturals, Sequences, SequencesExt

CONSTANTS
  Sessions,       \* the session ids the message server hands out
  Commands,       \* CPU commands
  Ids,            \* request ids (UUIDs) clients generate
  NoId,           \* the cause of a payload that answers no request
  WriteOutcomes   \* what one MultipleCPU::write call may do, a subset of
                  \* {"ok", "lost", "late"}: see write below

VARIABLES
  subscribers,    \* m_subscribers: command -> set of sessions
  requests,       \* m_requests: sequence of [id, cmd, session]
  vcpu,           \* the vcpu thread: [pc, msg]
  toDaemon,       \* session -> client messages not yet handled, in order
  toClient,       \* session -> daemon messages not yet handled, in order
  toMcu,          \* payloads the transmit Protocol delivered, not yet
                  \* processed by the MCU
  fromMcu,        \* payloads the MCU sent, not yet read
  sessions        \* session -> "unused", "open", "closing" or "closed"

daemonVars == <<subscribers, requests, vcpu>>

NoPayload == [cmd |-> NoId, cause |-> NoId]
VcpuIdle == [pc |-> "read", msg |-> NoPayload]

DaemonInit ==
  /\ subscribers = [c \in Commands |-> {}]
  /\ requests = << >>
  /\ vcpu = VcpuIdle

-----------------------------------------------------------------------------
(* MultipleCPU, the ICPU of the deployed daemon (main.cpp defines         *)
(* USE_2_UART): write sends on the transmit Protocol, read receives on    *)
(* the receive Protocol.  The Link module checks one Protocol pair.  What *)
(* it shows is kept here as the outcomes of a write:                       *)
(*   "ok"   delivered, and send() returns true;                            *)
(*   "lost" not delivered, and send() returns false;                       *)
(*   "late" delivered, but send() returns false (the peer accepted the     *)
(*          frame and the acknowledgement was lost).                       *)

write(cmd, cause, o) ==
  toMcu' = IF o \in {"ok", "late"}
           THEN Append(toMcu, [cmd |-> cmd, cause |-> cause])
           ELSE toMcu

WriteReturns(o) == o = "ok"

\* read: a payload of the receive Protocol.  Every MCU payload carries the
\* receive codebit here; the codebit check is the subject of FrameCodec.
read == Head(fromMcu)

-----------------------------------------------------------------------------
(* The message server: a message to a session that is not open is        *)
(* dropped; a message of a session is handled only after the ones before  *)
(* it.                                                                     *)

Post(s, m) ==
  toClient' = IF sessions[s] = "open"
              THEN [toClient EXCEPT ![s] = Append(@, m)]
              ELSE toClient

Handle(s, type) ==
  /\ sessions[s] \in {"open", "closing"}
  /\ toDaemon[s] # << >>
  /\ Head(toDaemon[s]).type = type
  /\ toDaemon' = [toDaemon EXCEPT ![s] = Tail(@)]

Msg(s) == Head(toDaemon[s])

-----------------------------------------------------------------------------
(* The handlers of the incoming thread.                                    *)

onSendCommand(s) ==
  /\ Handle(s, "SendCommand")
  /\ \E o \in WriteOutcomes :
       /\ write(Msg(s).cmd, NoId, o)
       /\ IF WriteReturns(o)
          THEN UNCHANGED toClient
          ELSE Post(s, [type |-> "SendCommandResult", cmd |-> Msg(s).cmd])
  /\ UNCHANGED <<daemonVars, fromMcu, sessions>>

onSubscribe(s) ==
  /\ Handle(s, "Subscribe")
  /\ subscribers' = [subscribers EXCEPT ![Msg(s).cmd] = @ \cup {s}]
  /\ UNCHANGED <<requests, vcpu, toClient, toMcu, fromMcu, sessions>>

onUnsubscribe(s) ==
  /\ Handle(s, "Unsubscribe")
  /\ subscribers' = [subscribers EXCEPT ![Msg(s).cmd] = @ \ {s}]
  /\ UNCHANGED <<requests, vcpu, toClient, toMcu, fromMcu, sessions>>

\* The request is recorded before the write; the write's result is ignored.
onRequest(s) ==
  /\ Handle(s, "Request")
  /\ requests' = Append(requests,
                        [id |-> Msg(s).id, cmd |-> Msg(s).resp, session |-> s])
  /\ \E o \in WriteOutcomes : write(Msg(s).cmd, Msg(s).id, o)
  /\ UNCHANGED <<subscribers, vcpu, toClient, fromMcu, sessions>>

\* Mutant: no handler is registered for CancelRequest; the message is read
\* and dropped.
onCancelRequestIgnored(s) ==
  /\ Handle(s, "CancelRequest")
  /\ UNCHANGED <<subscribers, requests, vcpu, toClient, toMcu, fromMcu, sessions>>

onCancelRequest(s) ==
  /\ Handle(s, "CancelRequest")
  /\ LET i == SelectInSeq(requests, LAMBDA r : r.id = Msg(s).id)
     IN  requests' = IF i # 0 THEN RemoveAt(requests, i) ELSE requests
  /\ UNCHANGED <<subscribers, vcpu, toClient, toMcu, fromMcu, sessions>>

\* Mutant: the status is sent only when the write failed, as onSendCommand
\* does with its result.
onSendCommandWithDeliveryStatusOnFailure(s) ==
  /\ Handle(s, "SendCommandWithDeliveryStatus")
  /\ \E o \in WriteOutcomes :
       /\ write(Msg(s).cmd, NoId, o)
       /\ IF WriteReturns(o)
          THEN UNCHANGED toClient
          ELSE Post(s, [type |-> "DeliveryStatus", id |-> Msg(s).id, ok |-> FALSE])
  /\ UNCHANGED <<daemonVars, fromMcu, sessions>>

onSendCommandWithDeliveryStatus(s) ==
  /\ Handle(s, "SendCommandWithDeliveryStatus")
  /\ \E o \in WriteOutcomes :
       /\ write(Msg(s).cmd, NoId, o)
       /\ Post(s, [type |-> "DeliveryStatus", id |-> Msg(s).id,
                   ok |-> WriteReturns(o)])
  /\ UNCHANGED <<daemonVars, fromMcu, sessions>>

\* The message server calls this once it has read the last message of a
\* session whose client closed the connection.
onClientDisconnected(s) ==
  /\ sessions[s] = "closing"
  /\ toDaemon[s] = << >>
  /\ subscribers' = [c \in Commands |-> subscribers[c] \ {s}]
  /\ requests' = SelectSeq(requests, LAMBDA r : r.session # s)
  /\ sessions' = [sessions EXCEPT ![s] = "closed"]
  /\ UNCHANGED <<vcpu, toDaemon, toClient, toMcu, fromMcu>>

-----------------------------------------------------------------------------
(* The vcpu thread: vcpuThreadFunction and onReceiveCommand.               *)

\* The copy of the subscribers is taken and the notifications are sent in
\* one step: between the two the incoming thread can only change the table,
\* which the copy no longer sees, or post other messages, whose order
\* relative to the notifications no client table depends on.
vcpuRead ==
  /\ vcpu.pc = "read"
  /\ fromMcu # << >>
  /\ fromMcu' = Tail(fromMcu)
  /\ toClient' =
       [s \in Sessions |->
          IF s \in subscribers[read.cmd] /\ sessions[s] = "open"
          THEN Append(toClient[s], [type |-> "Notification", cmd |-> read.cmd])
          ELSE toClient[s]]
  /\ vcpu' = [pc |-> "match", msg |-> read]
  /\ UNCHANGED <<subscribers, requests, toDaemon, toMcu, sessions>>

vcpuMatch ==
  /\ vcpu.pc = "match"
  /\ LET i == SelectInSeq(requests, LAMBDA r : r.cmd = vcpu.msg.cmd)
     IN  IF i # 0
         THEN /\ requests' = RemoveAt(requests, i)
              /\ Post(requests[i].session,
                      [type |-> "RequestResponse", id |-> requests[i].id,
                       cause |-> vcpu.msg.cause])
         ELSE UNCHANGED <<requests, toClient>>
  /\ vcpu' = VcpuIdle
  /\ UNCHANGED <<subscribers, toDaemon, toMcu, fromMcu, sessions>>

-----------------------------------------------------------------------------
DaemonNext ==
  \/ \E s \in Sessions :
       \/ onSendCommand(s) \/ onSubscribe(s) \/ onUnsubscribe(s)
       \/ onRequest(s) \/ onCancelRequest(s)
       \/ onSendCommandWithDeliveryStatus(s) \/ onClientDisconnected(s)
  \/ vcpuRead \/ vcpuMatch

\* The incoming executor and the vcpu thread each keep running.
IncomingThread ==
  \E s \in Sessions :
    \/ onSendCommand(s) \/ onSubscribe(s) \/ onUnsubscribe(s)
    \/ onRequest(s) \/ onCancelRequest(s)
    \/ onSendCommandWithDeliveryStatus(s) \/ onClientDisconnected(s)

VcpuThread == vcpuRead \/ vcpuMatch
=============================================================================
