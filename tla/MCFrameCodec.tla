----------------------------- MODULE MCFrameCodec -----------------------------
(***************************************************************************)
(* Checks prepareFrames() and the receive-side parsing of FrameCodec over  *)
(* every payload size 3..MaxPayload (Protocol::send asserts size > 2).     *)
(* The single variable n is the payload size; each size is an initial     *)
(* state and the steps stutter, so every invariant is checked once per     *)
(* size.                                                                   *)
(***************************************************************************)
EXTENDS FrameCodec

CONSTANT MaxPayload, Address

VARIABLE n

\* The codebit CPU::write() puts in every payload it sends.
SendCb == getSendCodebit(Address)

Frames == PrepareFrames(n, SendCb)

\* The receive machine applied to the frames in the order they are sent,
\* carrying the context's transmission type from one frame to the next.
RECURSIVE ParseAll(_, _)
ParseAll(F, type) ==
  IF F = << >> THEN << >>
  ELSE LET p == RecvParse(Head(F), type)
       IN  <<p>> \o ParseAll(Tail(F), p.type)

Parsed == ParseAll(Frames, "NotDefinedYet")

Init == n \in 3..MaxPayload
Next == UNCHANGED n
Spec == Init /\ [][Next]_n

\* prepareFrames() splits the payload into as many frames as the shape
\* table prescribes, and their data runs are the payload bytes after the
\* three header bytes, each exactly once and in order; divided frames are
\* numbered 0..count-1 and each carries the count.
FramesCoverPayload ==
  /\ Len(Frames) = RefFrameCount(n)
  /\ Covers([i \in 1..Len(Frames) |-> <<Frames[i].lo, Frames[i].cnt>>],
            kCmdLength + 1, n)
  /\ \A i \in 1..Len(Frames) :
        Frames[i].shape = "divided" =>
           /\ Frames[i].fno = i - 1
           /\ Frames[i].total = Len(Frames)

\* Every frame the sender builds is accepted field by field by the receive
\* states: its LEN byte is in range, and the receiver's length arithmetic
\* (recvDataExtLen, recvData) puts ETX exactly where the sender wrote it.
ReceiverAcceptsEveryFrame ==
  \A i \in 1..Len(Parsed) : Parsed[i].lenOk /\ Parsed[i].etxOk

\* The totalFrames receive() uses.  When the frame number fields were read
\* from payload bytes it is taken as 1: the data run is then already short
\* by those bytes whatever their value.
LastTotal == LET last == Parsed[Len(Parsed)]
             IN  IF last.fnPayload THEN 1 ELSE last.total

\* What receive() rebuilds from the frames of a payload carries the same
\* data bytes as the payload (the round-trip property of the link
\* specification, for the data positions).
RoundTripData ==
  LET last == Parsed[Len(Parsed)]
  IN  /\ ReassemblyInRange(Parsed, last.type, LastTotal)
      /\ Covers(Reassemble(Parsed, last.type, LastTotal).runs, kCmdLength + 1, n)

\* What receive() rebuilds carries the codebit the payload was sent with,
\* which CPU::read() compares with the codebit it expects.
RoundTripCodebit ==
  LET last == Parsed[Len(Parsed)]
  IN  Reassemble(Parsed, last.type, LastTotal).cb = SendCb
=============================================================================
