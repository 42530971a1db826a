---------------------------- MODULE CpuComSystem ----------------------------
(***************************************************************************)
(* The daemon with its clients: one v2 client (ClientV2), which reconnects *)
(* under a new session when its connection closes, one v1 client          *)
(* (ClientV1) on its own session, and the MCU at the far end of the two    *)
(* UART channels.  The components share the socket channels toDaemon and  *)
(* toClient, the session table, and the UART queues toMcu and fromMcu.   *)
(*                                                                         *)
(* The daemon runs in one of the two deployments of its main.cpp, chosen  *)
(* once: over MultipleCPU straight to the MCU, or, when the property        *)
(* vendor.vcpuemulator is set, over the socket to the VcpuEmulator          *)
(* (Emulator), which sits between it and the MCU.                          *)
(*                                                                         *)
(* The MCU answers every ReqCmd it receives with one RespCmd, in the order *)
(* it received them.                                                       *)
(***************************************************************************)
EXTENDS Naturals, Sequences, SequencesExt

CONSTANTS
  Sessions, Commands, Ids, NoId, NoSession, WriteOutcomes,
  AppCommands, Threads, ReqCmd, RespCmd, MaxCalls,
  FirstSession,     \* the v2 client's session after connect()
  V1Session, V1Commands, Listeners, V1Threads, MaxV1Calls,
  EmuConfig, EmuNames, MaxEmuCli, MaxRepeats

ASSUME Commands = {ReqCmd, RespCmd}

VARIABLES
  subscribers, requests, vcpu,
  session, callbacks, promises, deliveryCallbacks, pc, used, calls,
  responses, answers, sentOn, resume, strays,
  listeners, v1pc, v1calls, intended,
  toDaemon, toClient, toMcu, fromMcu, sessions,
  emulated, emuJobs, rep, cli, emuCalls, repeats, emuCrashed, toReal, fromReal

D  == INSTANCE Daemon
C  == INSTANCE ClientV2
V1 == INSTANCE ClientV1
E  == INSTANCE Emulator

daemonVars == <<subscribers, requests, vcpu>>
clientVars == <<session, callbacks, promises, deliveryCallbacks, pc, used,
                calls, responses, answers, sentOn, resume, strays>>
v1Vars     == <<listeners, v1pc, v1calls, intended>>
emuState   == <<emulated, emuJobs, rep, cli, emuCalls, repeats, emuCrashed,
                toReal, fromReal>>
vars == <<daemonVars, clientVars, v1Vars, toDaemon, toClient, toMcu, fromMcu,
          sessions, emuState>>

Init ==
  /\ D!DaemonInit
  /\ C!ClientInit(FirstSession)
  /\ V1!V1Init
  /\ sessions = [s \in Sessions |->
                   IF s \in {FirstSession, V1Session} THEN "open" ELSE "unused"]
  /\ toDaemon = [s \in Sessions |-> << >>]
  /\ toClient = [s \in Sessions |-> << >>]
  /\ toMcu = << >> /\ fromMcu = << >>
  /\ emulated \in BOOLEAN
  /\ E!EmuInit

-----------------------------------------------------------------------------
(* The MCU.                                                                *)

Mcu(in, out) ==
  /\ in # << >>
  /\ in' = Tail(in)
  /\ out' = IF Head(in).cmd = ReqCmd
            THEN Append(out, [cmd |-> RespCmd, cause |-> Head(in).cause])
            ELSE out

\* The MCU is at the daemon's UART, or at the emulator's.
McuReceive ==
  /\ \/ ~emulated /\ Mcu(toMcu, fromMcu) /\ UNCHANGED <<toReal, fromReal>>
     \/ emulated /\ Mcu(toReal, fromReal) /\ UNCHANGED <<toMcu, fromMcu>>
  /\ UNCHANGED <<daemonVars, clientVars, v1Vars, toDaemon, toClient, sessions,
                 emulated, emuJobs, rep, cli, emuCalls, repeats, emuCrashed>>

-----------------------------------------------------------------------------
DaemonStep == D!DaemonNext /\ UNCHANGED <<clientVars, v1Vars, emuState>>
ClientStep == C!ClientNext /\ UNCHANGED <<daemonVars, v1Vars, toMcu, fromMcu, emuState>>
V1Step     == V1!V1Next /\ UNCHANGED <<daemonVars, clientVars, toMcu, fromMcu,
                                       sessions, emuState>>
EmuStep    == E!EmuNext /\ UNCHANGED <<daemonVars, clientVars, v1Vars, toDaemon,
                                       toClient, sessions, emulated>>

Next == DaemonStep \/ ClientStep \/ V1Step \/ EmuStep \/ McuReceive

\* Every thread that has work keeps running: the daemon's incoming executor
\* and vcpu thread, the MCU, the messenger's incoming executor and its
\* reconnection, the v1 notifications and send threads, and an application
\* thread in the middle of a call; the emulator's input threads, its worker
\* pool, its repeater threads, and the CLI handler inside stoprepeat.
\* Nothing forces a new call, a CLI command or the loss of a connection.
\* The CLI handler inside stoprepeat, and the repeater threads, keep running.
CliFairness ==
  /\ WF_vars(EmuStep /\ (E!stopNext \/ E!joined))
  /\ \A n \in EmuNames : WF_vars(EmuStep /\ E!RepeaterThread(n))

Fairness ==
  /\ WF_vars(D!IncomingThread /\ UNCHANGED <<clientVars, v1Vars, emuState>>)
  /\ WF_vars(D!VcpuThread /\ UNCHANGED <<clientVars, v1Vars, emuState>>)
  /\ WF_vars(McuReceive)
  /\ WF_vars(C!IncomingThread /\ UNCHANGED <<daemonVars, v1Vars, toMcu, fromMcu,
                                              emuState>>)
  /\ WF_vars((C!connectionResumed \/ C!ResumeHandler)
             /\ UNCHANGED <<daemonVars, v1Vars, toMcu, fromMcu, emuState>>)
  /\ \A t \in Threads :
       WF_vars(C!sendCallMessage(t) /\ UNCHANGED <<daemonVars, v1Vars, toMcu,
                                                   fromMcu, emuState>>)
  /\ WF_vars(V1!onReadyReadFromDaemon /\ UNCHANGED <<daemonVars, clientVars,
                                          toMcu, fromMcu, sessions, emuState>>)
  /\ \A t \in V1Threads :
       WF_vars((V1!subscribeInsert(t) \/ V1!subscribeSend(t) \/ V1!unsubscribeSend(t))
               /\ UNCHANGED <<daemonVars, clientVars, toMcu, fromMcu, sessions,
                              emuState>>)
  /\ WF_vars(EmuStep /\ (E!mcpuThreadFunction \/ E!vcpuThreadFunction))
  /\ WF_vars(EmuStep /\ \E k \in 1..Len(emuJobs) : E!execute(k))
  /\ CliFairness

Spec == Init /\ [][Next]_vars /\ Fairness

-----------------------------------------------------------------------------
(* Properties.                                                             *)

TypeOK ==
  /\ subscribers \in [Commands -> SUBSET Sessions]
  /\ \A k \in 1..Len(requests) :
       requests[k] \in [id : Ids, cmd : Commands, session : Sessions]
  /\ vcpu.pc \in {"read", "match"}
  /\ session \in Sessions \cup {NoSession}
  /\ callbacks \subseteq Commands
  /\ promises \cup deliveryCallbacks \cup responses \subseteq used
  /\ answers \in [Ids -> Ids \cup {NoId, C!NotSet}]
  /\ resume.todo \subseteq Commands /\ resume.cur \in Commands \cup {NoId}
  /\ strays \subseteq Commands
  /\ \A c \in Commands : Len(listeners[c]) <= Cardinality(Listeners) * Cardinality(V1Threads)
  /\ sessions \in [Sessions -> {"unused", "open", "closing", "closed"}]
  /\ \A k \in 1..Len(emuJobs) :
       emuJobs[k].act \in E!Actions /\ emuJobs[k].side \in E!Sides
  /\ rep \in [EmuNames -> [entry : BOOLEAN, flag : BOOLEAN,
                            thread : {"none", "check", "call", "done"},
                            cmd : Commands \cup {NoId}]]
  /\ cli.op \in {"idle", "stop", "stopall"} /\ cli.name \in EmuNames \cup {NoId}

\* No call is half done, no client message is unhandled, the v2 client is
\* connected and the daemon has handled every closed connection.
Quiescent ==
  /\ \A t \in Threads : pc[t] = C!Idle
  /\ \A t \in V1Threads : v1pc[t] = V1!V1Idle
  /\ \A s \in Sessions : toDaemon[s] = << >> /\ sessions[s] # "closing"
  /\ session # NoSession /\ resume = C!ResumeIdle

\* Once the clients' subscribe/unsubscribe calls, the resume handler's walk
\* of m_callbacks after a reconnect and the daemon's onSubscribe,
\* onUnsubscribe and onClientDisconnected have all run, the daemon sends a
\* command to the v2 client's session whenever the client has a callback for
\* it (no notification is lost), and to no session whose client dropped the
\* command, except a command the unlocked walk read before an unsubscribe
\* erased it and then resubscribed (strays).  The v1 client's listeners and
\* its subscriptions agree exactly.
SubscriptionsAgree ==
  Quiescent =>
    \A c \in Commands :
      /\ (c \in callbacks) => (session \in subscribers[c])
      /\ (session \in subscribers[c]) => (c \in callbacks \/ c \in strays)
      /\ (listeners[c] # << >>) <=> (V1Session \in subscribers[c])

\* The daemon's m_requests and the v2 client's m_requests agree on the
\* client's current session: a request the daemon keeps for it is one the
\* client still waits for, or one whose CancelRequest is on its way; a
\* request the client waits for, sent on this session, is still in the
\* socket, kept by the daemon, or answered by a response on its way back.
RequestsConsistent ==
  /\ \A k \in 1..Len(requests) :
       requests[k].session = session =>
         \/ requests[k].id \in promises
         \/ [type |-> "CancelRequest", id |-> requests[k].id] \in Range(toDaemon[session])
         \/ \E t \in Threads : pc[t].op = "cancel" /\ pc[t].id = requests[k].id
  /\ \A i \in promises :
       sentOn[i] = session /\ session # NoSession =>
         \/ \E m \in Range(toDaemon[session]) : m.type = "Request" /\ m.id = i
         \/ \E k \in 1..Len(requests) : requests[k].id = i
         \/ \E m \in Range(toClient[session]) : m.type = "RequestResponse" /\ m.id = i

\* A send() with a delivery status callback whose message went out on the
\* client's current session is not forgotten: its message is still in the
\* socket, or the daemon has answered it with a DeliveryStatus that is on
\* its way back, whatever MultipleCPU::write returned.  (The callback of a
\* message dropped, or sent on a session that then closed, is never called.)
DeliveryStatusOnItsWay ==
  \A i \in deliveryCallbacks :
    sentOn[i] = session /\ session # NoSession =>
      \/ \E m \in Range(toDaemon[session]) :
           m.type = "SendCommandWithDeliveryStatus" /\ m.id = i
      \/ \E m \in Range(toClient[session]) : m.type = "DeliveryStatus" /\ m.id = i

\* The data a request's promise is set to is the MCU's answer to that
\* request, and not the answer to another request or a payload the MCU
\* sent of its own accord.
ResponseMatchesRequest ==
  \A i \in Ids : answers[i] \in {C!NotSet, i}
=============================================================================
