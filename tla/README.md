# TLA+ models of CpuCom

These modules model the CPU communication stack of this repository and
check it with TLC:

- the serial link protocol of `CpuComDaemon`
  (`src/CpuComDaemon/src/vcpu/protocol/Protocol.cpp`) and the addressing
  around it (`CPU.cpp`, `CPUCommon.cpp`);
- the daemon (`CpuComDaemon.cpp`, `MultipleCPU.cpp`, its message server);
- the client libraries `libCpuCom` v1 and v2;
- the `VcpuEmulator` tool and its `Repeater`.

## The system

The system has the following parts:

- **Frame codec.** `prepareFrames()` turns a payload (command, sub-command,
  codebit, data) into frames. A payload is split by size:
  - at most 251 bytes: one *regular* frame;
  - at most 1030 bytes: one *extended-length* frame with a 3-byte EXTLEN field;
  - more: several *divided* frames, each with a frame number and a frame count,
    and with flags ORed into the codebit.

  The receive handlers `recvLength` .. `recvChecksum` parse the fields of a
  frame back. `Protocol::receive()` then reassembles the payload from the
  `RecvContext`.
- **Send state machine.** `Protocol::send()` runs the handlers `send*`:
  - states: idle, enquiry, reenquiry, ack, frame, ack2, retry, nak, wait,
    done, error, end;
  - transitions: the table in the constructor;
  - state kept: the `SendContext` (the frames, the current frame, the result),
    the counter `m_r2` and `m_accessLock`.
- **Receive state machine.** `Protocol::receive()` runs the handlers `recv*`:
  - states: idle, poll, repoll, enquiry, ack, one state per frame field, ack2,
    nak, retry, done, error, end;
  - state kept: the `RecvContext` (frames, transmission type, data length,
    frame number, total frames, result), `m_r1` and the same lock.
- **Addressing.** `CPU::write` packs the send codebit into the payload.
  `CPU::read` drops a payload whose codebit is not the receive codebit.
- **Daemon.** `CpuComDaemon` runs two threads:
  - the message server's single incoming executor runs one `on*` handler at
    a time. The handlers subscribe, unsubscribe, send, request, cancel a
    request, send with a delivery status, and clean up a disconnected
    session;
  - the periodic executor runs `vcpuThreadFunction`. It reads an MCU
    payload, notifies the subscribers, then gives the payload to the first
    request waiting for its command.

  The daemon writes to the MCU with `MultipleCPU::write`.
- **Clients.**
  - **v2 client** (`CpuComImpl_v2.cpp`, `CpuComMessenger`): each call
    changes the tables under a mutex and sends its message after the
    unlock. When the connection closes, the messenger reconnects under a new
    session and resubscribes.
  - **v1 client** (`impl_CpuComImpl.h`): `subscribe` looks the command up
    without the lock, then inserts or appends under it.
- **VcpuEmulator and Repeater.** With `vendor.vcpuemulator` set, the
  daemon's `main.cpp` talks over a socket to the emulator instead of the
  UART, and the emulator talks to the MCU:
  - two input threads read from each side, apply the JSON-configured rules,
    and queue the actions on a worker pool. The actions are send, resend,
    replace, print and nop;
  - a CLI handler sends commands, and starts and stops `Repeater` threads.

The daemon, the clients, the emulator and the MCU interact only through
queues:

- the client sockets (`toDaemon`/`toClient`, per session);
- the UART or emulator socket (`toMcu`/`fromMcu`);
- the emulator's UART to the MCU (`toReal`/`fromReal`).

The two sides of the link are two `Protocol` objects, one in each CPU. They
interact only through the UART. The sender writes ENQ and waits for ACK. It
then writes a frame and waits for ACK (ACK2). A NAK or ENQ in the wrong place,
a timeout or an I/O error leads to `sendRetry`, which:

- counts the attempt in `m_r2`;
- unlocks the lock;
- every `kSendAttemptsForPortReinit` attempts, closes and reopens the port.

## Modules

| Module | Models |
|---|---|
| `FrameCodec` | Constants and control codes. `PrepareFrames`/`DivideFrames` (recursive, one step per loop iteration of `prepareFrames`). `RecvParse`, the receive states' length arithmetic applied to one intact frame. `Reassemble`, `Protocol::receive()`. `getSendCodebit`/`getReceiveCodebit`. Bytes are abstracted to their positions in the payload, except the codebit, whose value is kept. |
| `MCFrameCodec` | One initial state per payload size 3..`MaxPayload`, with the frames parsed in order. |
| `Link` | One sending `Protocol` and the peer's receiving `Protocol`, joined by two channels `toR` and `toS` (sequences of tokens: control bytes, or whole frames as records). Each `send*` and `recv*` handler is one action. The guard of each action is its state; its disjuncts are the handler's outcomes (success, timeout, I/O error); its event picks the next state from `SendTransition`/`RecvTransition`, the constructor's tables. `send` is the next `CPU::write` call, and `receive` is the tail of `Protocol::receive()`, which reassembles the payload and records it in `received`. `WireFault` loses or damages one token, within a budget `MaxFaults`. Damage to LEN or EXTLEN always makes the handler refuse the frame; the code would take a garbled EXTLEN above 1032 as a divided frame, an outcome left out because no property depends on it. |
| `MCLink` | The message sequences used by the cfgs. |
| `Daemon` | State: `m_subscribers`, `m_requests`, the vcpu thread's position. Each handler of `CpuComDaemon` is an action. `vcpuThreadFunction` is two actions, `vcpuRead` (notify) and `vcpuMatch` (match a request by command), because the incoming thread can change `m_requests` between them. A write's outcome is `ok`, `lost` or `late` (delivered, but `send()` returned false). The `Link` findings show two more outcomes of a faulty link: `send()` returns true for a frame that was not accepted (`link_ackshift`), and a payload is delivered twice (`link_duplicate`). The system model does not feed these into the daemon. |
| `ClientV2` | State: `m_callbacks`, `m_requests`, `m_deliveryStatusCallbacks`, the session. Each call is split at its unlock: the table change, then the message. Also modelled: the four incoming handlers, and connection closed and resumed. The resubscription walk of `onConnectionResumedHandler` runs without `m_callbacksMutex`, as in the code: `resumeRead` takes the next command, `resumeSend` sends its Subscribe. The ghost `strays` records a Subscribe the walk sent for a command the application had already unsubscribed. Ghost variables record what each request was answered with and on which session it went out. |
| `ClientV1` | `m_listeners` as command -> sequence of listeners. `subscribe` is three steps: the unlocked find, the locked insert-or-append (which throws when the command vanished), and the Subscribe message. `unsubscribe` is two steps. |
| `Emulator` | The input threads (`mcpuThreadFunction`/`vcpuThreadFunction`), with the rules and default action of each side computed from its config file by `loadCPUConfig`, `createRule` and `createAction`. A config is an abstract JSON value. A command text is a command or the shape of a malformed "x,y". `commandFromString` keeps the shadowed `valid`, so a text with a non-hex field parses as command (0,0). `dataFromString` accepts the empty string. An unreadable file or an invalid action gives the null action. The worker pool is a job queue from which any job may finish next. The size of `common::ThreadPool` is not fixed here. `execute` models the `Action::execute` of each kind; a null action crashes the process. The CLI handler and each `Repeater` thread (test the flag, call, test again) are modelled, and so is `stop` (set the flag, then join). |
| `CpuComSystem` | Composes `Daemon`, one `ClientV2` (reconnecting), one `ClientV1`, the `Emulator` and an MCU that answers each ReqCmd with one RespCmd. `Init` picks the deployment of the daemon's `main.cpp` once: the MCU directly, or the emulator in between. |
| `MCCpuComSystem` | The emulator config files used by the runs (both well formed), and the state constraint on the emulated deployment. |

`FiniteStateMachine` (StateMachine.h) is not in the repository. Its `run`
loop is modelled from the spec as `SendGo`/`RecvGo`: each step runs one
handler, and the event the handler returns picks the next state.

## Timing and fairness

The reads wait `kTimeout3` or `kTimeout4` (50 ms). Every handler without a
wait runs in far less time, and `sendRetry` and `sendWait` sleep 5 ms.
`TimeoutsExceedSteps = TRUE` lets a read time out only while the peer is
itself blocked, that is, in one of these situations:

- waiting for a byte;
- stopped between calls;
- reading a damaged frame whose bytes never come.

Without this assumption TLC finds runs that real timing rules out: for
example, a receiver timeout that fires while the sender is between two
immediate steps.

In `Link`, `Spec` has weak fairness on `SendStep` and on `RecvStep`, one
thread per side. Faults have no fairness, since nothing forces them to
happen.

In `CpuComSystem`, every thread that exists in the code has weak fairness
while it has work:

- the daemon's incoming executor and its vcpu thread;
- the messenger's incoming executor and its reconnection;
- an application thread in the middle of a call;
- the v1 notification and send threads;
- the emulator's input threads and its worker pool;
- the CLI handler inside `stoprepeat`;
- the repeater threads.

Nothing forces a new call, a CLI command or the loss of a connection. The
passing system run checks invariants only, so these fairness conditions are
not exercised by a run yet.

## Runs

| Run | Checks | Result |
|---|---|---|
| `codec_pass` | Every size 3..4000: frames cover the payload once, in order (`FramesCoverPayload`); the receiver finds ETX where the sender wrote it (`ReceiverAcceptsEveryFrame`). | passes |
| `codec_data` | `RoundTripData` | **violated at 1028 bytes**: the frame's EXTLEN is 1033 > 1032, so the receiver parses it as divided |
| `codec_cb` | `RoundTripCodebit` | **violated at 1031 bytes**: the division flags stay in the codebit, so `CPU::read` drops every divided payload |
| `link_faulty` | One fault of any kind: the sender holds the lock exactly in the handshake states (`SendLockOwnership`), and every `send()` returns (`SendTerminates`) | passes, 90k states |
| `link_ideal` | No faults, a 3-frame and then a 2-frame divided payload: exactly once and in order, `send()` true only if accepted, and everything delivered | passes |
| `link_device` | Two faults, three short payloads: a failed reopen is followed by a successful one while messages remain (`DeviceRecovers`) | passes, 680k states, ~1 min |
| `link_ackshift` | `SendTrueMeansAccepted` | **violated**: after an ack2 read error, every ACK is consumed one phase late |
| `link_duplicate` | `ReceivedExactlyOnceInOrder` | **violated**: a fault between divided frames makes `receive()` return the second frame as a payload on its own |
| `link_crash` | `ReceiveNeverThrows` | **violated**: `frames().at(i)` runs past the frames held, and the `std::out_of_range` is not caught |
| `link_unlock` | `RecvUnlockOnlyWhenHeld` | **violated**: a failed poll leads to `recvEnd` unlocking a mutex it does not hold |
| `sys_pass` | Both deployments. A reconnecting v2 client and a v1 client; writes may be lost or acknowledged late. Checks: at quiescence every client callback has a daemon subscription, and a daemon subscription without a callback is a stray left by the unlocked resubscription walk (`SubscriptionsAgree`); daemon and client request tables agree (`RequestsConsistent`); and every delivery status is on its way (`DeliveryStatusOnItsWay`). | passes, 554k states, ~1-2 min |
| `sys_misroute` | `ResponseMatchesRequest` | **violated**: the daemon matches an MCU answer to the first request waiting for its command. The run uses the direct deployment (`MCDirectSpec`) and only delivered writes: the answer to a request that was cancelled after it was forwarded goes to the client's next request. A write reported as failed but delivered would leave a stray answer the same way; the run does not exercise that path. |

The findings in `PROJECT.json` give the code lines of each violation.

## Bounds

The bounds are chosen so that every branch of the code is reached within
them:

- `MaxSendAttempts = 3`, `MaxRecvAttempts = 2` and `PortReinitEvery = 2`,
  instead of 240/5/6. With these values one call reaches a reopen (attempt
  2) and also the limit (attempt 3).
- `PayloadValues = {0, 1}`: the values a damaged frame number or count can
  take, which is enough to hit both the early-completion case and the
  past-the-end case.
- Payload sizes of 10, 600, 1100 and 2100 bytes cover the regular, the
  extended and the divided shape, with two and with three frames.
- `MaxFaults` is 0 to 2.
- `CsMayBeControl` lets a frame's checksum byte equal ENQ or NAK.

System runs:

- `sys_pass`:
  - sessions `s1`, `s2` for the v2 client (one reconnect) and `v1s` for the
    v1 client;
  - one id, `MaxCalls = 2`, one application thread per client, two v1
    listeners with `MaxV1Calls = 2`, and the constraint `MCCallBudget`
    (at most two calls of both clients together);
  - all three write outcomes.

  These bounds reach:
  - a reconnect with a pending subscription;
  - a cancel racing the answer;
  - a lost write;
  - two listeners on one command;
  - subscribe, reconnect, unsubscribe interleaved with the resubscription
    walk. With `MaxCalls = 1` this race is out of reach; with two calls TLC
    reaches the stray subscription: the walk reads `c`, `unsubscribe(c)`
    erases it and sends Unsubscribe, then the walk sends Subscribe(c). The
    daemon then forwards `c` to a client with no callback for it.

  The passing run has one v1 thread. With two threads, the unlocked find in
  `subscribe` loses a listener. This is listed as a hazard with no run,
  because all run slots are in use.
- In the emulated deployment, the constraint `MCEmulatedBound` allows the
  clients only requests and sends with delivery status. Only the emulator's
  own CLI (`MaxEmuCli = 2`, one repeater name, `MaxRepeats = 1`) adds
  traffic. Two CLI commands are enough for `repeat` followed by
  `stoprepeat(name)` or by `stoprepeat()`. Without the constraint the
  composed state space exceeds 30 million states.

## Not modelled

- **JNI layer** (`CpuComService/jni`). Every entry point holds
  `gClientsMutex`, so the layer is sequential in front of the v2 client. Its
  hazards are about call order (use after `destroy`, an error callback kept
  for a reused pid) and are listed in `PROJECT.json`.
- **Logging, device configuration, the test apps and the CSV generators.**
  They only format output or drive the public APIs.
- **`FiniteStateMachine`, `common::ThreadPool`, `SingleThreadExecutor`.**
  They are not in the repository. Each is modelled by what the spec says:
  one handler per step, any queued job next, one task at a time.
- **Payload data bytes.** Apart from the frame codec, a payload is its
  command plus a ghost cause.
- **Repeater termination.** The repeater thread tests `m_stopFlag` again after
  every sleep, so the join in `Repeater::stop` returns. The model keeps the
  order of the steps (set the flag, then join, then erase), and checks no
  liveness property of it.
- **The v2 destructor (`~CpuCom`).** It sets every pending promise to an
  empty result. The client in `sys_pass` lives for the whole behaviour.
  The race between the destructor and a response's cleanup, which has
  already locked the weak pointer, is listed as an open hazard.
- **The emulator's null-action crash.** It is in the model, with the config
  parsing that produces it, but the checked configuration is valid.
- **Exceptions while parsing emulator input.** Three cases throw: `std::stoi`
  on a hex field beyond `int`, the truncation of a field above `ff` to
  `uint8_t`, and a rule command that is not a valid regex. Command texts
  are abstracted to their shapes, so none of these is modelled.

## Plan for later work

The project uses the twelve runs its checker allows. Each item below needs
a run of its own, so a run would have to be given up for it.

1. A violation run for a broken emulator config (a null action in a rule).
2. The JNI call sequence as a small module of its own.
3. The liveness of `stoprepeat` on a smaller instance.
4. `~CpuCom` as an action of `ClientV2`, racing `destroyResponse`.
