------------------------------ MODULE ClientV1 ------------------------------
(***************************************************************************)
(* The v1 client library: CpuComImpl in impl_CpuComImpl.h, behind the      *)
(* CpuCom facade of CpuComImpl.cpp.                                        *)
(*                                                                         *)
(* m_listeners maps a command to its list of listeners; a command is in    *)
(* the map exactly while its list is not empty, so listeners[c] = << >>   *)
(* stands for "c not in the map".  Messages go through the send worker     *)
(* thread, one FIFO queue, to the socket; the notifications thread reads   *)
(* the socket.  The v1 client connects once, in its constructor.           *)
(*                                                                         *)
(* subscribe looks the command up WITHOUT m_listenersMutex, then takes the *)
(* lock to insert or to append, then queues the Subscribe message: three   *)
(* steps.  intended is the caller's state: the (command, listener) pairs   *)
(* whose subscribe call has returned and whose unsubscribe has not        *)
(* started; a caller unsubscribes only what it has subscribed.            *)
(***************************************************************************)
EXTENDS Naturals, Sequences, SequencesExt

CONSTANTS
  Commands, NoId,
  V1Commands,     \* the commands the v1 application uses
  V1Session,      \* the session of the v1 client
  Listeners,      \* ICpuCommandListener objects
  V1Threads,      \* application threads of the v1 client
  MaxV1Calls      \* bound on the calls of the v1 client

VARIABLES
  listeners,      \* m_listeners: command -> sequence of listeners
  v1pc,           \* thread -> [op, cmd, l, absent]
  v1calls,        \* calls made so far, against MaxV1Calls
  intended,       \* ghost, see above
  toDaemon, toClient

v1Vars == <<listeners, v1pc, v1calls, intended>>

V1Idle == [op |-> "idle", cmd |-> NoId, l |-> NoId, absent |-> FALSE]

V1Init ==
  /\ listeners = [c \in Commands |-> << >>]
  /\ v1pc = [t \in V1Threads |-> V1Idle]
  /\ v1calls = 0
  /\ intended = {}

\* SendThreadPolicy::call: the worker thread writes the messages it is
\* given, in order, to the socket.
V1Send(m) == toDaemon' = [toDaemon EXCEPT ![V1Session] = Append(@, m)]

V1Goto(t, r) == v1pc' = [v1pc EXCEPT ![t] = r]

-----------------------------------------------------------------------------
(* The calls of the application threads.                                   *)

v1send(t, c) ==
  /\ v1pc[t] = V1Idle /\ v1calls < MaxV1Calls
  /\ V1Send([type |-> "SendCommand", cmd |-> c])
  /\ v1calls' = v1calls + 1
  /\ UNCHANGED <<listeners, v1pc, intended, toClient>>

\* Line 108: m_listeners.find(command), without the lock.  The application
\* subscribes a listener it has not subscribed to that command.
subscribeFind(t, c, l) ==
  /\ v1pc[t] = V1Idle /\ v1calls < MaxV1Calls
  /\ <<c, l>> \notin intended
  /\ v1calls' = v1calls + 1
  /\ V1Goto(t, [op |-> "insert", cmd |-> c, l |-> l,
                absent |-> listeners[c] = << >>])
  /\ UNCHANGED <<listeners, intended, toDaemon, toClient>>

\* Under the lock: insert {listener} (std::map::insert leaves an entry that
\* is already there), or push_back on m_listeners.at(command), which throws
\* std::out_of_range when the command is no longer in the map.
subscribeInsert(t) ==
  /\ v1pc[t].op = "insert"
  /\ LET p == v1pc[t] IN
       IF p.absent
       THEN /\ listeners' = [listeners EXCEPT ![p.cmd] =
                               IF @ = << >> THEN <<p.l>> ELSE @]
            /\ V1Goto(t, [p EXCEPT !.op = "subscribe"])
            /\ UNCHANGED intended
       ELSE IF listeners[p.cmd] = << >>
       THEN /\ V1Goto(t, [p EXCEPT !.op = "crashed"])
            /\ UNCHANGED <<listeners, intended>>
       ELSE /\ listeners' = [listeners EXCEPT ![p.cmd] = Append(@, p.l)]
            /\ V1Goto(t, V1Idle)
            /\ intended' = intended \cup {<<p.cmd, p.l>>}
  /\ UNCHANGED <<v1calls, toDaemon, toClient>>

subscribeSend(t) ==
  /\ v1pc[t].op = "subscribe"
  /\ V1Send([type |-> "Subscribe", cmd |-> v1pc[t].cmd])
  /\ intended' = intended \cup {<<v1pc[t].cmd, v1pc[t].l>>}
  /\ V1Goto(t, V1Idle)
  /\ UNCHANGED <<listeners, v1calls, toClient>>

\* Under the lock: erase the listener; if the list is then empty, erase the
\* command and send Unsubscribe after the unlock.
v1unsubscribe(t, c, l) ==
  /\ v1pc[t] = V1Idle /\ v1calls < MaxV1Calls
  /\ <<c, l>> \in intended
  /\ v1calls' = v1calls + 1
  /\ intended' = intended \ {<<c, l>>}
  /\ LET i == SelectInSeq(listeners[c], LAMBDA x : x = l) IN
       IF i # 0
       THEN /\ listeners' = [listeners EXCEPT ![c] = RemoveAt(@, i)]
            /\ IF Len(listeners[c]) = 1
               THEN V1Goto(t, [V1Idle EXCEPT !.op = "unsubscribe", !.cmd = c])
               ELSE UNCHANGED v1pc
       ELSE UNCHANGED <<listeners, v1pc>>
  /\ UNCHANGED <<toDaemon, toClient>>

unsubscribeSend(t) ==
  /\ v1pc[t].op = "unsubscribe"
  /\ V1Send([type |-> "Unsubscribe", cmd |-> v1pc[t].cmd])
  /\ V1Goto(t, V1Idle)
  /\ UNCHANGED <<listeners, v1calls, intended, toClient>>

-----------------------------------------------------------------------------
(* The notifications thread: onReadyReadFromDaemon.  A notification is     *)
(* passed to a copy of its command's listeners, taken under the lock; a   *)
(* SendCommandResult to the error callback; nothing changes either table. *)

onReadyReadFromDaemon ==
  /\ toClient[V1Session] # << >>
  /\ toClient' = [toClient EXCEPT ![V1Session] = Tail(@)]
  /\ UNCHANGED <<v1Vars, toDaemon>>

-----------------------------------------------------------------------------
V1AppThread(t) ==
  \/ \E c \in V1Commands :
       \/ v1send(t, c)
       \/ \E l \in Listeners : subscribeFind(t, c, l) \/ v1unsubscribe(t, c, l)
  \/ subscribeInsert(t) \/ subscribeSend(t) \/ unsubscribeSend(t)

V1Next == (\E t \in V1Threads : V1AppThread(t)) \/ onReadyReadFromDaemon
=============================================================================
