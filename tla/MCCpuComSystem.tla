--------------------------- MODULE MCCpuComSystem ---------------------------
(* Instances of CpuComSystem for TLC. *)
EXTENDS CpuComSystem

MCCommands == {ReqCmd, RespCmd}

\* Every outcome of MultipleCPU::write.
MCAllOutcomes == {"ok", "lost", "late"}

\* A perfect link: every write is delivered and returns true.
MCOkOnly == {"ok"}
\* The emulator's config files: the vcpu side prints every RespCmd it
\* reads, and both sides resend whatever they read to the other side, as
\* the default action.
MCResend == [type |-> "resend", command |-> NoId, data |-> "none"]
MCEmuConfig ==
  [side \in {"mcpu", "vcpu"} |->
     [readable |-> TRUE,
      default |-> MCResend,
      rules |-> IF side = "vcpu"
                THEN << [type |-> "receive", isString |-> TRUE, command |-> {RespCmd},
                         actions |-> << [type |-> "print", command |-> NoId,
                                         data |-> "none"] >>] >>
                ELSE << >>]]

\* In the emulated deployment the clients make no send, subscribe or
\* unsubscribe call: the requests and delivery statuses of the v2 client
\* and the emulator's CLI are what cross the emulator.
MCEmulatedBound == emulated => calls = 0 /\ v1calls = 0

\* The two clients share a budget of two calls: a v2 subscribe and
\* unsubscribe around a reconnect, or two v1 subscribes, in one behaviour.
MCCallBudget == calls + v1calls <= 2
\* The daemon's USE_2_UART deployment only: the MCU straight behind
\* MultipleCPU, without the emulator and its CLI.
MCDirectInit == Init /\ ~emulated
MCDirectSpec == MCDirectInit /\ [][Next]_vars
=============================================================================
