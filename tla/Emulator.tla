------------------------------ MODULE Emulator ------------------------------
(***************************************************************************)
(* VcpuEmulator (tools/VcpuEmulator: Emulator.cpp, Actions.cpp, main.cpp)  *)
(* and its Repeater (Internal/src/Repeater.cpp).                           *)
(*                                                                         *)
(* The daemon runs against the emulator when vendor.vcpuemulator is set   *)
(* (CpuComDaemon main.cpp): the daemon's CPU talks over the "emulator"    *)
(* socket to the emulator's m_mcpu, and the emulator's m_vcpu talks over  *)
(* the UART to the real MCU.  Two input threads read a payload from each   *)
(* side, apply the rules of that side and queue the actions of every rule *)
(* the payload's command satisfies, then the side's default action, on    *)
(* the worker ThreadPool.  The CLI handler (main.cpp), on the message      *)
(* server's single incoming executor, queues sends, and starts and stops   *)
(* Repeaters, each a thread that queues a send and sleeps until stopped.   *)
(*                                                                         *)
(* The ThreadPool's size is not fixed by this repository: any queued job   *)
(* may be the next to finish.                                              *)
(***************************************************************************)
EXTENDS Naturals, Sequences, SequencesExt

CONSTANTS
  Commands, NoId, WriteOutcomes,
  EmuConfig,      \* side -> its config file, see loadCPUConfig below
  EmuNames,       \* repeater names the CLI uses
  MaxEmuCli,      \* bound on CLI commands
  MaxRepeats      \* bound on the sends of all repeater threads

VARIABLES
  emulated,       \* the daemon runs against the emulator
  emuJobs,        \* jobs queued on m_workerThread: [act, side, ev]
  rep,            \* name -> [entry, flag, thread, cmd]: the m_repeaters
                  \* entry, its m_stopFlag and its thread
  cli,            \* the CLI handler: [op, name]
  emuCalls,       \* CLI commands so far, against MaxEmuCli
  repeats,        \* repeater sends so far, against MaxRepeats
  emuCrashed,     \* a job dereferenced a null Action
  toMcu, fromMcu, \* the socket to and from the daemon
  toReal, fromReal \* the UART to and from the real MCU

emuVars == <<emuJobs, rep, cli, emuCalls, repeats, emuCrashed, toReal, fromReal>>

Sides == {"mcpu", "vcpu"}
Other(side) == IF side = "mcpu" THEN "vcpu" ELSE "mcpu"

\* RulesBuilder::createAction: a send/replace action carries its command;
\* an action whose JSON is invalid is a null shared_ptr.
Actions ==
  {[kind |-> k, cmd |-> NoId] : k \in {"resend", "print", "nop", "null"}} \cup
  {[kind |-> k, cmd |-> c] : k \in {"send", "replace"}, c \in Commands}

NullAction == [kind |-> "null", cmd |-> NoId]

-----------------------------------------------------------------------------
(* The configs (Emulator::start, loadCPUConfig, RulesBuilder, utils).      *)
(*                                                                         *)
(* A config file is [readable, default, rules]: readable is FALSE when it *)
(* does not open or its JSON does not parse.  An action is [type, command, *)
(* data]; a rule is [type, isString, command, actions], its command the    *)
(* set of commands its regex matches.  A command text is a                 *)
(* command (its "xx,yy" in hex) or the shapes [first, second] of a text    *)
(* whose two fields are not both hex: each "empty" or "nonhex".  A data    *)
(* text is "hex" (hex fields), "none" (the empty string) or "nonhex".      *)

\* The CpuCommand commandFromString leaves when it does not assign: the
\* value-initialised std::pair, (0,0).
ZeroCommand == "cmd00,00"

\* utils::commandFromString.  The inner block declares a second valid, so
\* the result is only whether both fields are non-empty.
commandFromString(t) ==
  IF t \in Commands THEN [valid |-> TRUE, cmd |-> t]
  ELSE [valid |-> t.first # "empty" /\ t.second # "empty", cmd |-> ZeroCommand]

\* utils::dataFromString: the empty string is valid data, a field that is
\* empty or not hex is not.
dataFromString(d) == d \in {"hex", "none"}

\* RulesBuilder::createAction.  A send or replace whose command or data
\* does not parse, and a type that is missing or unknown, give nullptr.
createAction(j) ==
  CASE j.type \in {"send", "replace"} ->
         IF commandFromString(j.command).valid /\ dataFromString(j.data)
         THEN [kind |-> j.type, cmd |-> commandFromString(j.command).cmd]
         ELSE NullAction
    [] j.type \in {"print", "resend", "nop"} -> [kind |-> j.type, cmd |-> NoId]
    [] OTHER -> NullAction

\* RulesBuilder::createRule: a "receive" rule with a string command.
createRule(r) == r.type = "receive" /\ r.isString

\* Emulator::loadCPUConfig: the default action and every rule createRule
\* makes, with all its actions, null ones included.  An unreadable file
\* leaves no default action: operator[] then yields a null one.
loadCPUConfig(cfg) ==
  IF ~cfg.readable THEN [rules |-> << >>, default |-> NullAction]
  ELSE LET rs == SelectSeq(cfg.rules, createRule)
       IN  [rules |-> [i \in 1..Len(rs) |->
                         [match |-> rs[i].command,
                          acts  |-> [k \in 1..Len(rs[i].actions) |->
                                       createAction(rs[i].actions[k])]]],
            default |-> createAction(cfg.default)]

\* Emulator::start loads the config of each side: its rules, a sequence of
\* [match, acts], and its default action.
EmuLoaded == [side \in Sides |-> loadCPUConfig(EmuConfig[side])]
EmuRules == [side \in Sides |-> EmuLoaded[side].rules]
EmuDefault == [side \in Sides |-> EmuLoaded[side].default]

NoEvent == [cmd |-> NoId, cause |-> NoId]
RepIdle == [entry |-> FALSE, flag |-> FALSE, thread |-> "none", cmd |-> NoId]
CliIdle == [op |-> "idle", name |-> NoId]

EmuInit ==
  /\ emuJobs = << >>
  /\ rep = [n \in EmuNames |-> RepIdle]
  /\ cli = CliIdle
  /\ emuCalls = 0 /\ repeats = 0
  /\ emuCrashed = FALSE
  /\ toReal = << >> /\ fromReal = << >>

-----------------------------------------------------------------------------
(* The input threads.                                                      *)

\* The jobs one payload queues: the actions of every rule it satisfies, in
\* rule order, then the side's default action.
InputJobs(side, ev) ==
  LET rules == SelectSeq(EmuRules[side], LAMBDA r : ev.cmd \in r.match)
      acts  == FlattenSeq([i \in 1..Len(rules) |-> rules[i].acts])
  IN  [i \in 1..Len(acts) |-> [act |-> acts[i], side |-> side, ev |-> ev]]
      \o << [act |-> EmuDefault[side], side |-> side, ev |-> ev] >>

mcpuThreadFunction ==
  /\ emulated /\ ~emuCrashed
  /\ toMcu # << >>
  /\ toMcu' = Tail(toMcu)
  /\ emuJobs' = emuJobs \o InputJobs("mcpu", Head(toMcu))
  /\ UNCHANGED <<rep, cli, emuCalls, repeats, emuCrashed, fromMcu, toReal, fromReal>>

vcpuThreadFunction ==
  /\ emulated /\ ~emuCrashed
  /\ fromReal # << >>
  /\ fromReal' = Tail(fromReal)
  /\ emuJobs' = emuJobs \o InputJobs("vcpu", Head(fromReal))
  /\ UNCHANGED <<rep, cli, emuCalls, repeats, emuCrashed, toMcu, fromMcu, toReal>>

-----------------------------------------------------------------------------
(* The worker: Action::execute.  ICPU::write on the daemon's side reaches  *)
(* fromMcu, on the real side toReal; a write may be lost like any other.   *)

EmuWrite(side, p, o) ==
  IF o \in {"ok", "late"}
  THEN IF side = "mcpu"
       THEN fromMcu' = Append(fromMcu, p) /\ UNCHANGED toReal
       ELSE toReal' = Append(toReal, p) /\ UNCHANGED fromMcu
  ELSE UNCHANGED <<fromMcu, toReal>>

\* ActionSend writes its command on the CPU whose config it came from;
\* ActionResend the event, and ActionReplace its command, on the other one.
\* The CLI's send is a send job of the mcpu side.
execute(k) ==
  /\ emulated /\ ~emuCrashed
  /\ k \in 1..Len(emuJobs)
  /\ emuJobs' = RemoveAt(emuJobs, k)
  /\ LET j == emuJobs[k] IN
       CASE j.act.kind = "null" ->
              emuCrashed' = TRUE /\ UNCHANGED <<fromMcu, toReal>>
         [] j.act.kind \in {"print", "nop"} ->
              UNCHANGED <<emuCrashed, fromMcu, toReal>>
         [] j.act.kind = "resend" ->
              \E o \in WriteOutcomes :
                EmuWrite(Other(j.side), j.ev, o) /\ UNCHANGED emuCrashed
         [] j.act.kind = "send" ->
              \E o \in WriteOutcomes :
                EmuWrite(j.side, [cmd |-> j.act.cmd, cause |-> NoId], o)
                /\ UNCHANGED emuCrashed
         [] j.act.kind = "replace" ->
              \E o \in WriteOutcomes :
                EmuWrite(Other(j.side), [cmd |-> j.act.cmd, cause |-> NoId], o)
                /\ UNCHANGED emuCrashed
  /\ UNCHANGED <<rep, cli, emuCalls, repeats, toMcu, fromReal>>

-----------------------------------------------------------------------------
(* The CLI handler of main.cpp, on the CLI server's single incoming        *)
(* executor.  "send c", "repeat name interval c" with interval # 0, and    *)
(* "stoprepeat [name]"; a line that does not parse changes nothing.  Data  *)
(* bytes are abstracted away.                                              *)

\* Emulator::send: a job writing c on m_mcpu.
SendJob(c) == [act |-> [kind |-> "send", cmd |-> c], side |-> "mcpu", ev |-> NoEvent]

CliCall == /\ emulated /\ cli = CliIdle /\ emuCalls < MaxEmuCli
           /\ emuCalls' = emuCalls + 1

cliSend(c) ==
  /\ CliCall
  /\ emuJobs' = Append(emuJobs, SendJob(c))
  /\ UNCHANGED <<rep, cli, repeats, emuCrashed, toMcu, fromMcu, toReal, fromReal>>

\* Emulator::repeat: a name already in m_repeaters is left alone; a new one
\* gets a Repeater whose thread is started.
repeat(n, c) ==
  /\ CliCall
  /\ rep' = IF rep[n].entry THEN rep
            ELSE [rep EXCEPT ![n] = [entry |-> TRUE, flag |-> FALSE,
                                     thread |-> "check", cmd |-> c]]
  /\ UNCHANGED <<emuJobs, cli, repeats, emuCrashed, toMcu, fromMcu, toReal, fromReal>>

\* Emulator::stoprepeat(name): Repeater::stop sets m_stopFlag and joins the
\* thread; the CLI handler waits in the join, and erases the entry after it.
stoprepeat(n) ==
  /\ CliCall
  /\ IF rep[n].entry
     THEN rep' = [rep EXCEPT ![n].flag = TRUE] /\ cli' = [op |-> "stop", name |-> n]
     ELSE UNCHANGED <<rep, cli>>
  /\ UNCHANGED <<emuJobs, repeats, emuCrashed, toMcu, fromMcu, toReal, fromReal>>

\* Emulator::stoprepeat(): stop, and so join, every repeater in turn, then
\* clear the map.  cli.name is the repeater being joined, NoId between two.
stoprepeatAll ==
  /\ CliCall
  /\ cli' = [op |-> "stopall", name |-> NoId]
  /\ UNCHANGED <<emuJobs, rep, repeats, emuCrashed, toMcu, fromMcu, toReal, fromReal>>

stopNext ==
  /\ cli.op = "stopall" /\ cli.name = NoId
  /\ IF \E n \in EmuNames : rep[n].entry /\ ~rep[n].flag
     THEN \E n \in EmuNames :
            /\ rep[n].entry /\ ~rep[n].flag
            /\ rep' = [rep EXCEPT ![n].flag = TRUE]
            /\ cli' = [cli EXCEPT !.name = n]
     ELSE /\ rep' = [n \in EmuNames |-> [rep[n] EXCEPT !.entry = FALSE]]
          /\ cli' = CliIdle
  /\ UNCHANGED <<emuJobs, emuCalls, repeats, emuCrashed, toMcu, fromMcu, toReal, fromReal>>

\* The join returns once the repeater's thread has left its loop.
joined ==
  /\ cli.op \in {"stop", "stopall"} /\ cli.name # NoId
  /\ rep[cli.name].thread = "done"
  /\ IF cli.op = "stop"
     THEN rep' = [rep EXCEPT ![cli.name].entry = FALSE] /\ cli' = CliIdle
     ELSE UNCHANGED rep /\ cli' = [cli EXCEPT !.name = NoId]
  /\ UNCHANGED <<emuJobs, emuCalls, repeats, emuCrashed, toMcu, fromMcu, toReal, fromReal>>

-----------------------------------------------------------------------------
(* Repeater::threadFunction: test m_stopFlag, call the callable (a send),  *)
(* sleep, and test again.  A thread whose sends reached MaxRepeats sleeps  *)
(* until its flag is set.                                                  *)

repeaterCheck(n) ==
  /\ rep[n].thread = "check"
  /\ \/ rep[n].flag /\ rep' = [rep EXCEPT ![n].thread = "done"]
     \/ ~rep[n].flag /\ repeats < MaxRepeats /\ rep' = [rep EXCEPT ![n].thread = "call"]
  /\ UNCHANGED <<emuJobs, cli, emuCalls, repeats, emuCrashed, toMcu, fromMcu, toReal, fromReal>>

repeaterCall(n) ==
  /\ rep[n].thread = "call"
  /\ emuJobs' = Append(emuJobs, SendJob(rep[n].cmd))
  /\ repeats' = repeats + 1
  /\ rep' = [rep EXCEPT ![n].thread = "check"]
  /\ UNCHANGED <<cli, emuCalls, emuCrashed, toMcu, fromMcu, toReal, fromReal>>

-----------------------------------------------------------------------------
CliHandler ==
  \/ \E c \in Commands : cliSend(c)
  \/ \E n \in EmuNames : \/ \E c \in Commands : repeat(n, c)
                         \/ stoprepeat(n)
  \/ stoprepeatAll \/ stopNext \/ joined

RepeaterThread(n) == repeaterCheck(n) \/ repeaterCall(n)

\* A null Action crashes the process: every thread of it stops.
EmuNext ==
  /\ ~emuCrashed
  /\ \/ mcpuThreadFunction \/ vcpuThreadFunction
     \/ \E k \in 1..Len(emuJobs) : execute(k)
     \/ CliHandler
     \/ \E n \in EmuNames : RepeaterThread(n)
====
