--------------------------------- MODULE Link ---------------------------------
(***************************************************************************)
(* One direction of the serial link: the send state machine of the         *)
(* transmitting Protocol (Protocol::send, called by CPU::write for each    *)
(* message the daemon writes) and the receive state machine of the peer's  *)
(* Protocol (Protocol::receive, called in a loop by CPU::read), joined by  *)
(* the two byte streams of one UART or socket.  This is the production    *)
(* two-UART configuration (MultipleCPU), where a Protocol object only      *)
(* sends or only receives.  The emulator link is not this: there each side *)
(* is one Protocol object that both sends and receives on one socket.     *)
(*                                                                         *)
(* A state variable holds the name of the state whose handler runs next;  *)
(* each handler is one action that computes its Event and moves along the *)
(* transition table set up in the Protocol constructor.  The wire carries  *)
(* tokens: the control bytes and whole frames.  The wire may lose a token  *)
(* or garble it, and a device call may fail; these faults share a budget.  *)
(* A read with a timeout times out only when nothing has arrived: delays   *)
(* are the freedom of the peer to answer late.                             *)
(***************************************************************************)
EXTENDS FrameCodec, FiniteSets, SequencesExt

CONSTANTS
  Msgs,               \* sizes of the payloads the sender sends, in order
  Address,            \* address the transmitting CPU object is built with
  MaxSendAttempts,    \* kMaxNumberOfSendAttempts (240)
  MaxRecvAttempts,    \* kMaxNumberOfRecvAttempts (5)
  PortReinitEvery,    \* kSendAttemptsForPortReinit (6)
  MaxFaults,          \* faults (loss, garbling, device errors) in a behaviour
  PayloadValues,      \* values a payload byte read as a frame number can have
  Damages,            \* the fields in which the wire may damage a frame
  TimeoutsExceedSteps,\* a 50 ms timeout outlasts every step that does not wait
  CsMayBeControl      \* a checksum byte may have the value of ENQ or NAK

VARIABLES
  sState, sMsg, sCur, sResult, r2, sLock, sDevOk, sResults,
  rState, rIn, rCur, rFrames, rType, rDataLen, rFno, rTotal, rResult, r1,
  rLock, accepted, received,
  toR, toS, faults

sVars == <<sState, sMsg, sCur, sResult, r2, sLock, sDevOk, sResults>>
rVars == <<rState, rIn, rCur, rFrames, rType, rDataLen, rFno, rTotal, rResult,
           r1, rLock, accepted, received>>
vars  == <<sVars, rVars, toR, toS, faults>>

Events == {"Pass", "Busy", "Wait", "Deny", "Fail"}

SendStates == {"idle", "enquiry", "reenquiry", "ack", "frame", "ack2",
               "retry", "nak", "wait", "done", "error", "end"}
RecvStates == {"idle", "poll", "repoll", "enquiry", "ack", "stx", "len",
               "datacmd", "dataextlen", "dataframenumber", "data", "etx",
               "cs", "ack2", "nak", "retry", "done", "error", "end"}

\* The codebit CPU::write() packs, and the one CPU::read() of the peer
\* (built with the other address) accepts.
SendCb == getSendCodebit(Address)
RecvCb == getReceiveCodebit(Peer(Address))

\* The frames of the message being sent (SendContext::m_frames).
SendFrames == PrepareFrames(Msgs[sMsg], SendCb)

Ctrl(c) == [k |-> c]
\* A frame on the wire: message m, frame i of it, the frame record f, and
\* the receive state in which damage to it shows ("none" when intact).
FrameToken(m, i, f) == [k |-> "FRAME", m |-> m, i |-> i, f |-> f, bad |-> "none"]
NoFrame == [m |-> 0, i |-> 0, lo |-> 0, cnt |-> 0, cb |-> 0]

-----------------------------------------------------------------------------
(* Transition tables of the Protocol constructor.                          *)

SendTransition(s, e) ==
  CASE s = "idle"      -> IF e = "Pass" THEN "enquiry" ELSE "retry"
    [] s = "enquiry"   -> IF e = "Pass" THEN "reenquiry" ELSE "retry"
    [] s = "reenquiry" -> CASE e = "Pass" -> "ack" [] e = "Wait" -> "nak"
                          [] OTHER -> "retry"
    [] s = "ack"       -> CASE e = "Pass" -> "frame" [] e = "Busy" -> "reenquiry"
                          [] e = "Wait" -> "nak" [] OTHER -> "retry"
    [] s = "frame"     -> IF e = "Pass" THEN "ack2" ELSE "retry"
    [] s = "ack2"      -> IF e = "Pass" THEN "done" ELSE "retry"
    [] s = "retry"     -> CASE e = "Pass" -> "enquiry" [] e = "Fail" -> "error"
                          [] OTHER -> "retry"
    [] s = "nak"       -> IF e = "Pass" THEN "wait" ELSE "retry"
    [] s = "wait"      -> IF e = "Pass" THEN "enquiry" ELSE "retry"
    [] s = "done"      -> IF e = "Wait" THEN "reenquiry" ELSE "end"
    [] s = "error"     -> "end"

\* The states that read one field of a frame, in the order they run.
FieldStates == <<"stx", "len", "datacmd", "dataextlen", "dataframenumber",
                 "data", "etx">>
NextField(s) ==
  CASE s = "stx" -> "len" [] s = "len" -> "datacmd"
    [] s = "datacmd" -> "dataextlen" [] s = "dataextlen" -> "dataframenumber"
    [] s = "dataframenumber" -> "data" [] s = "data" -> "etx"
    [] s = "etx" -> "cs"

RecvTransition(s, e) ==
  CASE s \in {"idle", "repoll"} -> IF e = "Pass" THEN "poll" ELSE "error"
    [] s = "poll"    -> IF e = "Pass" THEN "enquiry" ELSE "error"
    [] s = "enquiry" -> CASE e = "Pass" -> "ack" [] e = "Busy" -> "repoll"
                        [] e = "Deny" -> "retry" [] OTHER -> "error"
    [] s = "ack"     -> IF e = "Pass" THEN "stx" ELSE "error"
    [] s \in {"stx", "len", "datacmd", "dataextlen", "dataframenumber",
              "data", "etx"} ->
                        CASE e = "Pass" -> NextField(s) [] e = "Deny" -> "nak"
                        [] OTHER -> "error"
    [] s = "cs"      -> CASE e = "Pass" -> "ack2" [] e \in {"Deny", "Fail"} -> "nak"
                        [] OTHER -> "error"
    [] s = "ack2"    -> IF e = "Pass" THEN "done" ELSE "error"
    [] s = "nak"     -> IF e = "Pass" THEN "retry" ELSE "error"
    [] s = "retry"   -> IF e = "Pass" THEN "repoll" ELSE "error"
    [] s = "done"    -> IF e = "Wait" THEN "enquiry" ELSE "end"
    [] s = "error"   -> "end"

SendGo(e) == sState' = SendTransition(sState, e)
RecvGo(e) == rState' = RecvTransition(rState, e)

\* The event recvEnquiry draws from the last byte it drained.  A frame ends
\* with its checksum byte, whose value the model does not keep: it may be
\* any byte, and ENQ and NAK too when CsMayBeControl.
LastByteEvents(t) ==
  CASE t.k = "ENQ"   -> {"Pass"}
    [] t.k = "NAK"   -> {"Busy"}
    [] t.k = "FRAME" -> IF CsMayBeControl THEN {"Pass", "Busy", "Deny"} ELSE {"Deny"}
    [] OTHER         -> {"Deny"}

\* The event sendAcknowledgement draws from the byte it read.
ByteEvent(t) ==
  CASE t.k = "ACK" -> "Pass"
    [] t.k = "NAK" -> "Busy"
    [] t.k = "ENQ" -> "Wait"
    [] OTHER       -> "Deny"

\* Timing.  A read with kTimeout3/kTimeout4 (50 ms) times out only after
\* the peer has had 50 ms to write.  When TimeoutsExceedSteps holds, a
\* timeout fires only while the peer is itself blocked: the sender waiting
\* for a byte that has not come or between send() calls, the receiver
\* waiting in poll or stx for a byte that has not come, reading a damaged
\* frame whose missing bytes never come, or stopped.  Every other handler
\* runs in far less than 50 ms (sendRetry and sendWait sleep 5 ms).
RecvFieldStates == {"stx", "len", "datacmd", "dataextlen", "dataframenumber",
                    "data", "etx", "cs"}
SenderBlocked ==
  \/ sState \in {"ack", "ack2"} /\ toS = << >>
  \/ sState = "ret"
ReceiverBlocked ==
  \/ rState \in {"poll", "stx"} /\ toR = << >>
  \/ rState \in RecvFieldStates /\ rIn.bad # "none"
  \/ rState = "crashed"
SendMayTimeOut == ~TimeoutsExceedSteps \/ ReceiverBlocked
RecvMayTimeOut == ~TimeoutsExceedSteps \/ SenderBlocked

\* A device call of the sending Protocol returns Error: always once a
\* reopen has failed, otherwise as one of the faults of the behaviour.
SendIOError ==
  \/ ~sDevOk /\ UNCHANGED faults
  \/ faults < MaxFaults /\ faults' = faults + 1
RecvIOError == faults < MaxFaults /\ faults' = faults + 1

-----------------------------------------------------------------------------
(* Send state machine: one action per Protocol::send handler.            *)

sendIdle ==
  /\ sState = "idle"
  /\ r2' = 0
  /\ SendGo("Pass")
  /\ UNCHANGED <<sMsg, sCur, sResult, sLock, sDevOk, sResults, toR, toS, faults>>
  /\ UNCHANGED rVars

\* m_accessLock.lock(): only this thread takes the sending Protocol's lock.
sendEnquiry ==
  /\ sState = "enquiry"
  /\ ~sLock
  /\ sLock' = TRUE
  /\ SendGo("Pass")
  /\ UNCHANGED <<sMsg, sCur, sResult, r2, sDevOk, sResults, toR, toS, faults>>
  /\ UNCHANGED rVars

\* Drain the input, then write ENQ.  A write error after the drain leaves
\* the input drained.
sendReenquiry ==
  /\ sState = "reenquiry"
  /\ \/ /\ sDevOk
        /\ toS' = << >>
        /\ toR' = Append(toR, Ctrl("ENQ"))
        /\ SendGo("Pass")
        /\ UNCHANGED faults
     \/ /\ SendIOError
        /\ toS' \in {toS, << >>}
        /\ SendGo("Fail")
        /\ UNCHANGED toR
  /\ UNCHANGED <<sMsg, sCur, sResult, r2, sLock, sDevOk, sResults>>
  /\ UNCHANGED rVars

\* sendAcknowledgement, run in state ack and (as sendAcknowledgement2) in
\* state ack2: one byte within kTimeout3.
sendAcknowledgement ==
  /\ sState \in {"ack", "ack2"}
  /\ \/ /\ sDevOk /\ toS # << >>
        /\ toS' = Tail(toS)
        /\ SendGo(ByteEvent(Head(toS)))
        /\ UNCHANGED faults
     \/ /\ sDevOk /\ toS = << >> /\ SendMayTimeOut
        /\ SendGo("Deny")
        /\ UNCHANGED <<toS, faults>>
     \/ /\ SendIOError
        /\ SendGo("Fail")
        /\ UNCHANGED toS
  /\ UNCHANGED <<sMsg, sCur, sResult, r2, sLock, sDevOk, sResults, toR>>
  /\ UNCHANGED rVars

sendFrame ==
  /\ sState = "frame"
  /\ \/ /\ sDevOk
        /\ toR' = Append(toR, FrameToken(sMsg, sCur, SendFrames[sCur]))
        /\ SendGo("Pass")
        /\ UNCHANGED faults
     \/ /\ SendIOError
        /\ SendGo("Fail")
        /\ UNCHANGED toR
  /\ UNCHANGED <<sMsg, sCur, sResult, r2, sLock, sDevOk, sResults, toS>>
  /\ UNCHANGED rVars

\* Mutant: the limit compared with <= lets one more attempt through.
sendRetryOffByOne ==
  /\ sState = "retry"
  /\ r2' = r2 + 1
  /\ \/ /\ r2 + 1 <= MaxSendAttempts
        /\ sLock' = FALSE
        /\ SendGo("Pass")
        /\ UNCHANGED <<toS, sDevOk, faults>>
     \/ /\ r2 + 1 > MaxSendAttempts
        /\ SendGo("Fail")
        /\ UNCHANGED <<sLock, toS, sDevOk, faults>>
  /\ UNCHANGED <<sMsg, sCur, sResult, sResults, toR>>
  /\ UNCHANGED rVars

\* Mutant: the attempt counter is not incremented.
sendRetryNoCount ==
  /\ sState = "retry"
  /\ sLock' = FALSE
  /\ SendGo("Pass")
  /\ UNCHANGED <<sMsg, sCur, sResult, r2, sDevOk, sResults, toR, toS, faults>>
  /\ UNCHANGED rVars

\* Mutant: a reopen that succeeds does not replace a failed device.
sendRetryNoRecovery ==
  /\ sState = "retry"
  /\ r2' = r2 + 1
  /\ \/ /\ r2 + 1 < MaxSendAttempts
        /\ sLock' = FALSE
        /\ SendGo("Pass")
        /\ IF (r2 + 1) % PortReinitEvery = 0
           THEN /\ toS' \in {toS, << >>}
                /\ \/ UNCHANGED <<sDevOk, faults>>
                   \/ /\ faults < MaxFaults /\ faults' = faults + 1
                      /\ sDevOk' = FALSE
           ELSE UNCHANGED <<toS, sDevOk, faults>>
     \/ /\ r2 + 1 >= MaxSendAttempts
        /\ SendGo("Fail")
        /\ UNCHANGED <<sLock, toS, sDevOk, faults>>
  /\ UNCHANGED <<sMsg, sCur, sResult, sResults, toR>>
  /\ UNCHANGED rVars

\* ++m_r2; below the limit: unlock, sleep, and every PortReinitEvery-th
\* attempt close and reopen the device (the open's result is only logged;
\* whether close discards unread input depends on the device, so both
\* outcomes are allowed).  At the limit: Fail, lock still held.
sendRetry ==
  /\ sState = "retry"
  /\ r2' = r2 + 1
  /\ \/ /\ r2 + 1 < MaxSendAttempts
        /\ sLock' = FALSE
        /\ SendGo("Pass")
        /\ IF (r2 + 1) % PortReinitEvery = 0
           THEN /\ toS' \in {toS, << >>}
                /\ \/ sDevOk' = TRUE /\ UNCHANGED faults
                   \/ /\ faults < MaxFaults /\ faults' = faults + 1
                      /\ sDevOk' = FALSE
           ELSE UNCHANGED <<toS, sDevOk, faults>>
     \/ /\ r2 + 1 >= MaxSendAttempts
        /\ SendGo("Fail")
        /\ UNCHANGED <<sLock, toS, sDevOk, faults>>
  /\ UNCHANGED <<sMsg, sCur, sResult, sResults, toR>>
  /\ UNCHANGED rVars

sendNak ==
  /\ sState = "nak"
  /\ \/ /\ sDevOk
        /\ toR' = Append(toR, Ctrl("NAK"))
        /\ SendGo("Pass")
        /\ UNCHANGED faults
     \/ /\ SendIOError
        /\ SendGo("Fail")
        /\ UNCHANGED toR
  /\ UNCHANGED <<sMsg, sCur, sResult, r2, sLock, sDevOk, sResults, toS>>
  /\ UNCHANGED rVars

\* Mutant: sendWait keeps the lock.
sendWaitKeepsLock ==
  /\ sState = "wait"
  /\ SendGo("Pass")
  /\ UNCHANGED <<sMsg, sCur, sResult, r2, sLock, sDevOk, sResults, toR, toS, faults>>
  /\ UNCHANGED rVars

sendWait ==
  /\ sState = "wait"
  /\ sLock' = FALSE
  /\ SendGo("Pass")
  /\ UNCHANGED <<sMsg, sCur, sResult, r2, sDevOk, sResults, toR, toS, faults>>
  /\ UNCHANGED rVars

\* Mutant: the call completes one frame early.
sendDoneEarly ==
  /\ sState = "done"
  /\ IF sCur < Len(SendFrames) - 1
     THEN sCur' = sCur + 1 /\ SendGo("Wait") /\ UNCHANGED sResult
     ELSE sResult' = TRUE /\ SendGo("Pass") /\ UNCHANGED sCur
  /\ UNCHANGED <<sMsg, r2, sLock, sDevOk, sResults, toR, toS, faults>>
  /\ UNCHANGED rVars

sendDone ==
  /\ sState = "done"
  /\ IF sCur < Len(SendFrames)
     THEN sCur' = sCur + 1 /\ SendGo("Wait") /\ UNCHANGED sResult
     ELSE sResult' = TRUE /\ SendGo("Pass") /\ UNCHANGED sCur
  /\ UNCHANGED <<sMsg, r2, sLock, sDevOk, sResults, toR, toS, faults>>
  /\ UNCHANGED rVars

sendError ==
  /\ sState = "error"
  /\ sResult' = FALSE
  /\ SendGo("Pass")
  /\ UNCHANGED <<sMsg, sCur, r2, sLock, sDevOk, sResults, toR, toS, faults>>
  /\ UNCHANGED rVars

\* sendEnd unlocks; the machine stops and send() returns context.result().
sendEnd ==
  /\ sState = "end"
  /\ sLock' = FALSE
  /\ sState' = "ret"
  /\ sResults' = Append(sResults, sResult)
  /\ UNCHANGED <<sMsg, sCur, sResult, r2, sDevOk, toR, toS, faults>>
  /\ UNCHANGED rVars

\* CPU::write() of the next message: send() with a fresh SendContext.
send ==
  /\ sState = "ret"
  /\ sMsg < Len(Msgs)
  /\ sMsg' = sMsg + 1
  /\ sState' = "idle"
  /\ sCur' = 1
  /\ sResult' = FALSE
  /\ UNCHANGED <<r2, sLock, sDevOk, sResults, toR, toS, faults>>
  /\ UNCHANGED rVars

-----------------------------------------------------------------------------
(* Receive state machine: one action per Protocol::recv handler.           *)

recvIdle ==
  /\ rState = "idle"
  /\ r1' = 0
  /\ RecvGo("Pass")
  /\ UNCHANGED <<rIn, rCur, rFrames, rType, rDataLen, rFno, rTotal, rResult,
                 rLock, accepted, received, toR, toS, faults>>
  /\ UNCHANGED sVars

\* poll with an infinite timeout: blocks until a byte has arrived; then
\* takes m_accessLock.  Only the Fail outcome does not lock.
recvPoll ==
  /\ rState = "poll"
  /\ \/ /\ toR # << >> /\ ~rLock
        /\ rLock' = TRUE
        /\ RecvGo("Pass")
        /\ UNCHANGED faults
     \/ /\ RecvIOError
        /\ RecvGo("Fail")
        /\ UNCHANGED rLock
  /\ UNCHANGED <<rIn, rCur, rFrames, rType, rDataLen, rFno, rTotal, rResult, r1,
                 accepted, received, toR, toS>>
  /\ UNCHANGED sVars

recvRepoll ==
  /\ rState = "repoll"
  /\ rLock' = FALSE
  /\ RecvGo("Pass")
  /\ UNCHANGED <<rIn, rCur, rFrames, rType, rDataLen, rFno, rTotal, rResult, r1,
                 accepted, received, toR, toS, faults>>
  /\ UNCHANGED sVars

\* Drain every byte that has arrived and classify the last one; nothing at
\* all is a timeout, which counts as Busy.
recvEnquiry ==
  /\ rState = "enquiry"
  /\ \/ /\ toR = << >>
        /\ RecvGo("Busy")
        /\ UNCHANGED <<toR, faults>>
     \/ /\ toR # << >>
        /\ toR' = << >>
        /\ \E e \in LastByteEvents(toR[Len(toR)]) : RecvGo(e)
        /\ UNCHANGED faults
     \/ /\ RecvIOError
        /\ RecvGo("Fail")
        /\ UNCHANGED toR
  /\ UNCHANGED <<rIn, rCur, rFrames, rType, rDataLen, rFno, rTotal, rResult, r1,
                 rLock, accepted, received, toS>>
  /\ UNCHANGED sVars

\* recvAcknowledgement and recvAcknowledgement2 write ACK, recvNak NAK.
RecvWrite(c) ==
  \/ toS' = Append(toS, Ctrl(c)) /\ RecvGo("Pass") /\ UNCHANGED faults
  \/ RecvIOError /\ RecvGo("Fail") /\ UNCHANGED toS

recvAcknowledgement ==
  /\ rState \in {"ack", "ack2"}
  /\ RecvWrite("ACK")
  /\ UNCHANGED <<rIn, rCur, rFrames, rType, rDataLen, rFno, rTotal, rResult, r1,
                 rLock, accepted, received, toR>>
  /\ UNCHANGED sVars

recvNak ==
  /\ rState = "nak"
  /\ RecvWrite("NAK")
  /\ UNCHANGED <<rIn, rCur, rFrames, rType, rDataLen, rFno, rTotal, rResult, r1,
                 rLock, accepted, received, toR>>
  /\ UNCHANGED sVars

Div == "ExtendedLengthWithFrameDivision"

\* The frame being read shows its damage in receive state st.
Damaged(st) == rIn.bad = st

\* Event of a field state that read its bytes: Deny when they are not what
\* the state accepts.
FieldEvent(st, ok) == IF Damaged(st) \/ ~ok THEN "Deny" ELSE "Pass"

\* What the field states leave alone.
FieldRest == UNCHANGED <<rFrames, rResult, r1, rLock, received, toS>>

\* recvControlCode(STX): one byte within kTimeout3.
recvStx ==
  /\ rState = "stx"
  /\ \/ /\ toR # << >> /\ Head(toR).k = "FRAME"
        /\ rIn' = Head(toR) /\ toR' = Tail(toR)
        /\ RecvGo("Pass")
        /\ UNCHANGED faults
     \/ /\ toR # << >> /\ Head(toR).k # "FRAME"
        /\ toR' = Tail(toR)
        /\ RecvGo("Deny")
        /\ UNCHANGED <<rIn, faults>>
     \/ /\ toR = << >> /\ RecvMayTimeOut
        /\ RecvGo("Deny")
        /\ UNCHANGED <<rIn, toR, faults>>
     \/ /\ RecvIOError
        /\ RecvGo("Fail")
        /\ UNCHANGED <<rIn, toR>>
  /\ UNCHANGED <<rCur, rType, rDataLen, rFno, rTotal, accepted>>
  /\ FieldRest
  /\ UNCHANGED sVars

recvLength ==
  /\ rState = "len"
  /\ \/ LET ok == LengthAccepted(rIn.f.len) /\ ~Damaged("len")
        IN  /\ RecvGo(FieldEvent("len", ok))
            /\ rType' = IF ok THEN TypeAfterLength(rIn.f.len, rType) ELSE rType
            /\ rDataLen' = IF ok THEN DataLengthAfterLength(rIn.f.len, rDataLen)
                           ELSE rDataLen
            /\ UNCHANGED faults
     \/ RecvIOError /\ RecvGo("Fail") /\ UNCHANGED <<rType, rDataLen>>
  /\ UNCHANGED <<rIn, rCur, rFno, rTotal, accepted, toR>>
  /\ FieldRest
  /\ UNCHANGED sVars

\* Reads command, sub-command and codebit into the frame.
recvDataCommand ==
  /\ rState = "datacmd"
  /\ \/ /\ RecvGo(FieldEvent("datacmd", TRUE))
        /\ rCur' = [rCur EXCEPT !.m = rIn.m, !.i = rIn.i, !.cb = rIn.f.cb]
        /\ UNCHANGED faults
     \/ RecvIOError /\ RecvGo("Fail") /\ UNCHANGED rCur
  /\ UNCHANGED <<rIn, rType, rDataLen, rFno, rTotal, accepted, toR>>
  /\ FieldRest
  /\ UNCHANGED sVars

\* Reads the extended length unless the type is Regular.
recvDataExtLen ==
  /\ rState = "dataextlen"
  /\ \/ /\ rType = "Regular"
        /\ RecvGo("Pass")
        /\ UNCHANGED <<rType, rDataLen, faults>>
     \/ /\ rType # "Regular"
        /\ RecvGo(FieldEvent("dataextlen", TRUE))
        /\ IF Damaged("dataextlen")
           THEN UNCHANGED <<rType, rDataLen>>
           ELSE /\ rDataLen' = UInt32(rIn.f.ext - kFrameFooterLength)
                /\ rType' = TypeAfterExtLen(rIn.f.ext, rType)
        /\ UNCHANGED faults
     \/ /\ rType # "Regular" /\ RecvIOError
        /\ RecvGo("Fail")
        /\ UNCHANGED <<rType, rDataLen>>
  /\ UNCHANGED <<rIn, rCur, rFno, rTotal, accepted, toR>>
  /\ FieldRest
  /\ UNCHANGED sVars

\* Reads frame number and frame count when the type is division.  In a
\* frame that carries no such fields the four bytes read are payload bytes.
recvDataFrameNumber ==
  /\ rState = "dataframenumber"
  /\ \/ /\ rType # Div
        /\ RecvGo("Pass")
        /\ UNCHANGED <<rFno, rTotal, faults>>
     \/ /\ rType = Div /\ ~Damaged("dataframenumber")
        /\ rIn.f.shape = "divided"
        /\ rFno' = rIn.f.fno /\ rTotal' = rIn.f.total
        /\ RecvGo("Pass")
        /\ UNCHANGED faults
     \/ /\ rType = Div /\ ~Damaged("dataframenumber")
        /\ rIn.f.shape # "divided"
        /\ \E fno, total \in PayloadValues : rFno' = fno /\ rTotal' = total
        /\ RecvGo("Pass")
        /\ UNCHANGED faults
     \/ /\ rType = Div /\ Damaged("dataframenumber")
        /\ RecvGo("Deny")
        /\ UNCHANGED <<rFno, rTotal, faults>>
     \/ /\ rType = Div /\ RecvIOError
        /\ RecvGo("Fail")
        /\ UNCHANGED <<rFno, rTotal>>
  /\ UNCHANGED <<rIn, rCur, rType, rDataLen, accepted, toR>>
  /\ FieldRest
  /\ UNCHANGED sVars

\* Reads DataSize(dataLength, type) bytes: the run of payload positions
\* that lie at those offsets of the frame.
recvData ==
  /\ rState = "data"
  /\ \/ /\ RecvGo(FieldEvent("data", TRUE))
        /\ rCur' = [rCur EXCEPT
                      !.lo  = rIn.f.lo + ReceiverHeader(rType) - SenderHeader(rIn.f),
                      !.cnt = DataSize(rDataLen, rType)]
        /\ UNCHANGED faults
     \/ RecvIOError /\ RecvGo("Fail") /\ UNCHANGED rCur
  /\ UNCHANGED <<rIn, rType, rDataLen, rFno, rTotal, accepted, toR>>
  /\ FieldRest
  /\ UNCHANGED sVars

\* recvControlCode(ETX): the byte after the data is the sender's ETX only
\* when the receiver's header and data length add up to the sender's.
EtxInPlace ==
  ReceiverHeader(rType) + DataSize(rDataLen, rType)
    = SenderHeader(rIn.f) + rIn.f.cnt

recvEtx ==
  /\ rState = "etx"
  /\ \/ RecvGo(FieldEvent("etx", EtxInPlace)) /\ UNCHANGED faults
     \/ RecvIOError /\ RecvGo("Fail")
  /\ UNCHANGED <<rIn, rCur, rType, rDataLen, rFno, rTotal, accepted, toR>>
  /\ FieldRest
  /\ UNCHANGED sVars

\* The checksum over the frame matches unless some byte of it was damaged.
recvChecksum ==
  /\ rState = "cs"
  /\ \/ /\ rIn.bad = "none"
        /\ accepted' = accepted \cup {<<rIn.m, rIn.i>>}
        /\ RecvGo("Pass")
        /\ UNCHANGED faults
     \/ /\ rIn.bad # "none"
        /\ RecvGo("Deny")
        /\ UNCHANGED <<accepted, faults>>
     \/ RecvIOError /\ RecvGo("Fail") /\ UNCHANGED accepted
  /\ UNCHANGED <<rIn, rCur, rType, rDataLen, rFno, rTotal, toR>>
  /\ FieldRest
  /\ UNCHANGED sVars

\* ++m_r1 and clear the current frame; Fail at the limit.
recvRetry ==
  /\ rState = "retry"
  /\ r1' = r1 + 1
  /\ rCur' = NoFrame
  /\ RecvGo(IF r1 + 1 < MaxRecvAttempts THEN "Pass" ELSE "Fail")
  /\ UNCHANGED <<rIn, rFrames, rType, rDataLen, rFno, rTotal, rResult, rLock,
                 accepted, received, toR, toS, faults>>
  /\ UNCHANGED sVars

\* Mutant: the last divided frame is recognised by fno = totalFrames.
recvDoneOffByOne ==
  /\ rState = "done"
  /\ \/ /\ rType \in {"Regular", "ExtendedLength"}
        /\ rResult' = TRUE
        /\ RecvGo("Pass")
        /\ UNCHANGED <<rCur, rFrames>>
     \/ /\ rType = Div /\ rFno = rTotal
        /\ rResult' = TRUE
        /\ RecvGo("Pass")
        /\ UNCHANGED <<rCur, rFrames>>
     \/ /\ rType = Div /\ rFno # rTotal
        /\ rFrames' = Append(rFrames, rCur)
        /\ rCur' = NoFrame
        /\ RecvGo("Wait")
        /\ UNCHANGED rResult
  /\ UNCHANGED <<rIn, rType, rDataLen, rFno, rTotal, r1, rLock, accepted,
                 received, toR, toS, faults>>
  /\ UNCHANGED sVars

\* Mutant: a completed frame is put in front of the earlier ones.
recvDonePrepends ==
  /\ rState = "done"
  /\ \/ /\ rType \in {"Regular", "ExtendedLength"}
        /\ rResult' = TRUE
        /\ RecvGo("Pass")
        /\ UNCHANGED <<rCur, rFrames>>
     \/ /\ rType = Div /\ rFno = rTotal - 1
        /\ rResult' = TRUE
        /\ RecvGo("Pass")
        /\ UNCHANGED <<rCur, rFrames>>
     \/ /\ rType = Div /\ rFno # rTotal - 1
        /\ rFrames' = <<rCur>> \o rFrames
        /\ rCur' = NoFrame
        /\ RecvGo("Wait")
        /\ UNCHANGED rResult
  /\ UNCHANGED <<rIn, rType, rDataLen, rFno, rTotal, r1, rLock, accepted,
                 received, toR, toS, faults>>
  /\ UNCHANGED sVars

\* A regular or extended frame completes the call; a divided one does when
\* its number is totalFrames - 1 (uint32: never when totalFrames is 0),
\* else onFrameCompleted() opens a new frame and Wait goes back to enquiry.
recvDone ==
  /\ rState = "done"
  /\ \/ /\ rType \in {"Regular", "ExtendedLength"}
        /\ rResult' = TRUE
        /\ RecvGo("Pass")
        /\ UNCHANGED <<rCur, rFrames>>
     \/ /\ rType = Div /\ rFno = rTotal - 1
        /\ rResult' = TRUE
        /\ RecvGo("Pass")
        /\ UNCHANGED <<rCur, rFrames>>
     \/ /\ rType = Div /\ rFno # rTotal - 1
        /\ rFrames' = Append(rFrames, rCur)
        /\ rCur' = NoFrame
        /\ RecvGo("Wait")
        /\ UNCHANGED rResult
  /\ UNCHANGED <<rIn, rType, rDataLen, rFno, rTotal, r1, rLock, accepted,
                 received, toR, toS, faults>>
  /\ UNCHANGED sVars

recvError ==
  /\ rState = "error"
  /\ rResult' = FALSE
  /\ RecvGo("Pass")
  /\ UNCHANGED <<rIn, rCur, rFrames, rType, rDataLen, rFno, rTotal, r1, rLock,
                 accepted, received, toR, toS, faults>>
  /\ UNCHANGED sVars

\* recvEnd unlocks m_accessLock, whether or not this thread holds it.
recvEnd ==
  /\ rState = "end"
  /\ rLock' = FALSE
  /\ rState' = "ret"
  /\ UNCHANGED <<rIn, rCur, rFrames, rType, rDataLen, rFno, rTotal, rResult, r1,
                 accepted, received, toR, toS, faults>>
  /\ UNCHANGED sVars

\* The frames of the context: the completed ones and the current one.
RecvFrames == Append(rFrames, rCur)

\* The frames receive() reassembles from.
UsedFrames ==
  IF rType = Div THEN SubSeq(RecvFrames, 1, rTotal)
  ELSE << RecvFrames[Len(RecvFrames)] >>

\* The rest of Protocol::receive() after the machine stops, and the next
\* call of receive() by the reading thread.  With a result, receive()
\* rebuilds the payload; frames().at(i) for i >= frames().size() throws
\* std::out_of_range, which nothing catches: the daemon stops.  The payload
\* returned is recorded with the frames it was rebuilt from.
receive ==
  /\ rState = "ret"
  /\ IF rResult /\ ~ReassemblyInRange(RecvFrames, rType, rTotal)
     THEN /\ rState' = "crashed"
          /\ UNCHANGED <<rCur, rFrames, rType, rDataLen, rFno, rTotal, rResult,
                         received>>
     ELSE /\ received' =
               IF rResult
               THEN LET p == Reassemble(RecvFrames, rType, rTotal)
                    IN  Append(received,
                               [frames |-> [j \in DOMAIN UsedFrames |->
                                              <<UsedFrames[j].m, UsedFrames[j].i>>],
                                runs   |-> p.runs, cb |-> p.cb])
               ELSE received
          /\ rState' = "idle"
          /\ rCur' = NoFrame /\ rFrames' = << >>
          /\ rType' = "NotDefinedYet" /\ rDataLen' = 0
          /\ rFno' = 0 /\ rTotal' = 0 /\ rResult' = FALSE
  /\ UNCHANGED <<rIn, r1, rLock, accepted, toR, toS, faults>>
  /\ UNCHANGED sVars

-----------------------------------------------------------------------------
(* The wire.  A fault loses one token in flight or damages it: a control   *)
(* byte turns into any other byte, a frame gets a fault that the receive   *)
(* states notice in one of the fields it has.                              *)

DamageKinds(f) ==
  {"len", "datacmd", "data", "etx", "cs"}
    \cup (IF f.shape # "regular" THEN {"dataextlen"} ELSE {})
    \cup (IF f.shape = "divided" THEN {"dataframenumber"} ELSE {})

Lose(w) == \E i \in 1..Len(w) : w' = RemoveAt(w, i)

\* A control byte turns into any other byte.
DamageByte(w) ==
  \E i \in 1..Len(w), c \in {"ENQ", "ACK", "NAK", "JUNK"} :
     /\ w[i].k # "FRAME" /\ w[i].k # c
     /\ w' = [w EXCEPT ![i] = Ctrl(c)]

\* An intact frame gets damage that shows in one of its fields.  Damage to
\* LEN or EXTLEN is abstracted to a value the handler refuses (Deny); a
\* garbled EXTLEN above 1032 that the code would take as a divided frame
\* is not among the outcomes, and no property here depends on it.
DamageFrame(w) ==
  \E i \in 1..Len(w) :
     /\ w[i].k = "FRAME" /\ w[i].bad = "none"
     /\ \E d \in DamageKinds(w[i].f) \cap Damages : w' = [w EXCEPT ![i].bad = d]

WireFault ==
  /\ faults < MaxFaults
  /\ faults' = faults + 1
  /\ \/ Lose(toR) /\ UNCHANGED toS
     \/ Lose(toS) /\ UNCHANGED toR
     \/ DamageByte(toR) /\ UNCHANGED toS
     \/ DamageByte(toS) /\ UNCHANGED toR
     \/ DamageFrame(toR) /\ UNCHANGED toS
  /\ UNCHANGED <<sVars, rVars>>

-----------------------------------------------------------------------------
NoToken == FrameToken(0, 0, PrepareFrames(kCmdLength, 0)[1])

Init ==
  /\ sState = "idle" /\ sMsg = 1 /\ sCur = 1 /\ sResult = FALSE
  /\ r2 = 0 /\ sLock = FALSE /\ sDevOk = TRUE /\ sResults = << >>
  /\ rState = "idle" /\ rIn = NoToken /\ rCur = NoFrame /\ rFrames = << >>
  /\ rType = "NotDefinedYet" /\ rDataLen = 0 /\ rFno = 0 /\ rTotal = 0
  /\ rResult = FALSE /\ r1 = 0 /\ rLock = FALSE
  /\ accepted = {} /\ received = << >>
  /\ toR = << >> /\ toS = << >> /\ faults = 0

SendStep ==
  \/ sendIdle \/ sendEnquiry \/ sendReenquiry \/ sendAcknowledgement
  \/ sendFrame \/ sendRetry \/ sendNak \/ sendWait \/ sendDone
  \/ sendError \/ sendEnd \/ send

RecvStep ==
  \/ recvIdle \/ recvPoll \/ recvRepoll \/ recvEnquiry \/ recvAcknowledgement
  \/ recvStx \/ recvLength \/ recvDataCommand \/ recvDataExtLen
  \/ recvDataFrameNumber \/ recvData \/ recvEtx \/ recvChecksum
  \/ recvNak \/ recvRetry \/ recvDone \/ recvError \/ recvEnd \/ receive

Next == SendStep \/ RecvStep \/ WireFault

\* Each Protocol is driven by a thread of its own that keeps running while
\* it has something to do; faults are not bound to happen.
Spec == Init /\ [][Next]_vars /\ WF_vars(SendStep) /\ WF_vars(RecvStep)

-----------------------------------------------------------------------------
Tokens == {Ctrl(c) : c \in {"ENQ", "ACK", "NAK", "JUNK"}}

TypeOK ==
  /\ sState \in SendStates \cup {"ret"}
  /\ sMsg \in 1..Len(Msgs) /\ sCur \in 1..Len(SendFrames)
  /\ sResult \in BOOLEAN /\ sLock \in BOOLEAN /\ sDevOk \in BOOLEAN
  /\ r2 \in 0..MaxSendAttempts
  /\ sResults \in Seq(BOOLEAN)
  /\ rState \in RecvStates \cup {"ret", "crashed"}
  /\ rType \in TransmitionTypes
  /\ r1 \in 0..MaxRecvAttempts /\ rLock \in BOOLEAN /\ rResult \in BOOLEAN
  /\ \A t \in Range(toR) \cup Range(toS) : t \in Tokens \/ t.k = "FRAME"
  /\ \A t \in Range(toS) : t \in Tokens
  /\ faults \in 0..MaxFaults

\* Frames of message m as the sender builds them.
MsgFrames(m) == PrepareFrames(Msgs[m], SendCb)

\* A send() call that returned true had every frame of its message
\* accepted by the peer's receive machine (checksum passed).  It rests on
\* sendAcknowledgement taking an ACK read in state ack2 as the
\* acknowledgement of the frame just written.
SendTrueMeansAccepted ==
  \A j \in DOMAIN sResults :
     sResults[j] => \A i \in 1..Len(MsgFrames(j)) : <<j, i>> \in accepted

\* Every payload Protocol::receive() returns is exactly one message the
\* sender sent, its frames each once and in order, and no message is
\* returned twice or after a later one: the link delivers exactly once, in
\* order.
ReceivedExactlyOnceInOrder ==
  /\ \A d \in DOMAIN received :
        \E m \in DOMAIN Msgs :
           /\ received[d].frames = [i \in 1..Len(MsgFrames(m)) |-> <<m, i>>]
           /\ Covers(received[d].runs, kCmdLength + 1, Msgs[m])
  /\ \A d1, d2 \in DOMAIN received :
        d1 < d2 => received[d1].frames[1][1] < received[d2].frames[1][1]

\* Protocol::receive() never indexes past the frames it has received
\* (an uncaught std::out_of_range stops the daemon).
ReceiveNeverThrows == rState # "crashed"

\* Every call of send() returns.
SendTerminates == [](sState # "ret" => <>(sState = "ret"))

\* The receiving thread unlocks m_accessLock only while it holds it:
\* recvRepoll and recvEnd run only after recvPoll took the lock.
RecvUnlockOnlyWhenHeld == rState \in {"repoll", "end"} => rLock

\* The sending thread holds m_accessLock exactly from sendEnquiry until
\* sendRetry (below the limit), sendWait or sendEnd releases it: it never
\* locks twice (a self-deadlock of std::mutex) and never runs a handshake
\* state without the lock.
LockedSendStates == {"reenquiry", "ack", "frame", "ack2", "retry", "nak",
                     "wait", "done", "error", "end"}
SendLockOwnership == sLock <=> sState \in LockedSendStates

\* Without faults every message is eventually returned by receive().
AllMessagesReceived == <>(Len(received) = Len(Msgs))

\* A device whose reopen failed while messages were left to send is
\* reopened successfully by a later retry: every PortReinitEvery-th attempt
\* of the same or a later send() call reopens it.
DeviceRecovers ==
  [](~sDevOk /\ sMsg < Len(Msgs) => <>sDevOk)
=============================================================================
