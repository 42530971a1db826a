------------------------------ MODULE FrameCodec ------------------------------
(***************************************************************************)
(* Frame layout of the serial link (CpuComDaemon/src/vcpu/protocol).       *)
(*                                                                         *)
(* A payload is the byte vector handed to Protocol::send(): command,       *)
(* sub-command, codebit, then application data.  The model abstracts its   *)
(* bytes to their POSITIONS 1..n, except the codebit (position 3) whose    *)
(* value the addressing layer compares.  A frame is a record giving its    *)
(* shape, the LEN byte, the codebit byte it carries, the extended length,  *)
(* the frame number and count, and the run lo..lo+cnt-1 of payload         *)
(* positions it carries after its header.  Byte offsets inside a frame are *)
(* 1-based: 1 STX, 2 LEN, 3..5 CMD SUBCMD CODEBIT, then EXTLEN (3 bytes),  *)
(* then FRAMENO/FRAMECOUNT (2+2 bytes), then data, ETX, CS.                *)
(***************************************************************************)
EXTENDS Integers, Sequences, Bitwise

\* Data transmission control codes (enum ControlCode).
STX == 2
ETX == 3
ENQ == 5
ACK == 6
NAK == 21
EXT_LEN == 254

\* Field lengths and frame length limits.
kCmdLength == 3
kExtLenLength == 3
kFrameNumberLength == 2
kTotalFramesLength == 2
kFrameFooterLength == 2
kMinFrameLength == 5
kMaxFrameLength == 253
kMaxActualDataLength == 1024
kMaxExtendedLengthFrameLength == 1032

MinOf(a, b) == IF a < b THEN a ELSE b

\* Unsigned wrap-around of a C++ integer of width w <= 16.
UInt(x, w) == x % (2 ^ w)

\* A uint32 result.  TLC integers are 32-bit signed, so a subtraction that
\* wraps around (a value of 2^32 + x for x < 0) is kept as the negative x:
\* it stands for a length larger than any frame.
UInt32(x) == x

-----------------------------------------------------------------------------
(* Sending side: prepareFrames().                                          *)

\* One iteration of the division loop and the iterations after it: frame i
\* of count, actual data bytes not yet framed, the unconsumed part of the
\* payload vector starting at position lo and rest bytes long, and the
\* codebit, which the loop ORs with the division flags and never resets.
RECURSIVE DivideFrames(_, _, _, _, _, _)

DivideFrames(i, count, actual, lo, rest, cb) ==
  IF i >= count THEN << >>
  ELSE
    LET cbi        == cb | (IF i = count - 1 THEN 3 ELSE 2)
        length     == MinOf(actual, kMaxActualDataLength)
        begin      == IF i = 0 THEN lo + kCmdLength ELSE lo
        dataLength == MinOf(kMaxActualDataLength, rest)
        consumed   == dataLength + (IF i = 0 THEN kCmdLength ELSE 0)
        frame      == [shape |-> "divided", len |-> EXT_LEN, cb |-> cbi,
                       ext   |-> length + kCmdLength + kExtLenLength
                                 + kFrameNumberLength + kTotalFramesLength
                                 + kFrameFooterLength,
                       fno   |-> UInt(i, 16), total |-> UInt(count, 16),
                       lo    |-> begin, cnt |-> dataLength]
    IN  <<frame>> \o DivideFrames(i + 1, count, actual - length,
                                  lo + consumed, rest - consumed, cbi)

\* Mutant: the frame count ignores a partial last frame.
PrepareFramesNoRemainder(n, cb) ==
  IF n <= kMaxFrameLength - kFrameFooterLength
  THEN << [shape |-> "regular", len |-> UInt(n + kFrameFooterLength, 8),
           cb |-> cb, ext |-> 0, fno |-> 0, total |-> 0,
           lo |-> kCmdLength + 1, cnt |-> n - kCmdLength] >>
  ELSE IF n <= kMaxExtendedLengthFrameLength - kFrameFooterLength
  THEN << [shape |-> "extended", len |-> EXT_LEN, cb |-> cb,
           ext |-> n + kExtLenLength + kFrameFooterLength,
           fno |-> 0, total |-> 0,
           lo |-> kCmdLength + 1, cnt |-> n - kCmdLength] >>
  ELSE DivideFrames(0, (n - kCmdLength) \div kMaxActualDataLength,
                    n - kCmdLength, 1, n, cb)

\* The frames of a payload of n bytes whose codebit is cb.
PrepareFrames(n, cb) ==
  IF n <= kMaxFrameLength - kFrameFooterLength
  THEN << [shape |-> "regular", len |-> UInt(n + kFrameFooterLength, 8),
           cb |-> cb, ext |-> 0, fno |-> 0, total |-> 0,
           lo |-> kCmdLength + 1, cnt |-> n - kCmdLength] >>
  ELSE IF n <= kMaxExtendedLengthFrameLength - kFrameFooterLength
  THEN << [shape |-> "extended", len |-> EXT_LEN, cb |-> cb,
           ext |-> n + kExtLenLength + kFrameFooterLength,
           fno |-> 0, total |-> 0,
           lo |-> kCmdLength + 1, cnt |-> n - kCmdLength] >>
  ELSE LET actual == n - kCmdLength
           count  == actual \div kMaxActualDataLength
                     + (IF actual % kMaxActualDataLength > 0 THEN 1 ELSE 0)
       IN  DivideFrames(0, count, actual, 1, n, cb)

\* Header length of a frame as laid out by the sender.
SenderHeader(f) ==
  5 + (IF f.shape # "regular" THEN kExtLenLength ELSE 0)
    + (IF f.shape = "divided"
       THEN kFrameNumberLength + kTotalFramesLength ELSE 0)

-----------------------------------------------------------------------------
(* Receiving side: the field states of the receive machine.               *)
(* Transmission types of RecvContext.                                      *)
TransmitionTypes == {"NotDefinedYet", "Regular", "ExtendedLength",
                     "ExtendedLengthWithFrameDivision"}

\* recvLength: the LEN byte b either is the extended-length marker, which
\* leaves the type as it is, or fixes a regular frame of b - 2 data bytes.
LengthAccepted(b) == b = EXT_LEN \/ (b >= kMinFrameLength /\ b <= kMaxFrameLength)
TypeAfterLength(b, type) == IF b = EXT_LEN THEN type ELSE "Regular"
DataLengthAfterLength(b, dataLength) ==
  IF b = EXT_LEN THEN dataLength ELSE b - kFrameFooterLength

\* recvDataExtLen: a length above 1032, or a context already receiving a
\* divided message, selects frame division.
TypeAfterExtLen(length, type) ==
  IF length > kMaxExtendedLengthFrameLength
     \/ type = "ExtendedLengthWithFrameDivision"
  THEN "ExtendedLengthWithFrameDivision" ELSE "ExtendedLength"

\* Mutant: an extended-length frame is taken to have no EXTLEN field.
DataSizeNoExtLen(dataLength, type) ==
  UInt32(dataLength - (CASE type = "Regular" -> kCmdLength
                       [] type = "ExtendedLength" -> kCmdLength
                       [] OTHER -> kCmdLength + kExtLenLength
                                   + kFrameNumberLength + kTotalFramesLength))

\* recvData: number of data bytes read after the header (uint32 arithmetic).
DataSize(dataLength, type) ==
  UInt32(dataLength - (CASE type = "Regular" -> kCmdLength
                       [] type = "ExtendedLength" -> kCmdLength + kExtLenLength
                       [] OTHER -> kCmdLength + kExtLenLength
                                   + kFrameNumberLength + kTotalFramesLength))

ReceiverHeader(type) ==
  5 + (IF type # "Regular" THEN kExtLenLength ELSE 0)
    + (IF type = "ExtendedLengthWithFrameDivision"
       THEN kFrameNumberLength + kTotalFramesLength ELSE 0)

\* The receive states len .. etx applied to an intact frame f, in a context
\* whose type is type0.  fnPayload says the receiver took data bytes for
\* the frame number fields, whose values are then those of the payload.  etxOk says the byte at the
\* offset where the receiver expects ETX is the sender's ETX.
RecvParse(f, type0) ==
  LET type1 == TypeAfterLength(f.len, type0)
      dl1   == DataLengthAfterLength(f.len, 0)
      type2 == IF type1 = "Regular" THEN type1 ELSE TypeAfterExtLen(f.ext, type1)
      dl2   == IF type1 = "Regular" THEN dl1 ELSE UInt32(f.ext - kFrameFooterLength)
      size  == DataSize(dl2, type2)
      shift == ReceiverHeader(type2) - SenderHeader(f)
      byFn  == type2 = "ExtendedLengthWithFrameDivision"
  IN  [lenOk |-> LengthAccepted(f.len),
       type  |-> type2,
       cb    |-> f.cb,
       fnPayload |-> byFn /\ f.shape # "divided",
       fno   |-> IF byFn /\ f.shape = "divided" THEN f.fno ELSE 0,
       total |-> IF byFn /\ f.shape = "divided" THEN f.total ELSE 0,
       lo    |-> f.lo + shift,
       cnt   |-> size,
       etxOk |-> ReceiverHeader(type2) + size = SenderHeader(f) + f.cnt]

\* Protocol::receive() after a successful run: the payload rebuilt from the
\* received frames P (in the order received), the context's type and its
\* totalFrames (taken from the last frame).  Frame i = 0 keeps its command
\* bytes; every frame contributes its data run.  For the regular and the
\* extended type only the current (last) frame is used.  Frame 0 loses its
\* ETX and CS when it is taken, and the last frame when the payload is
\* finished; a division of one frame loses both, which cuts two data bytes.
Reassemble(P, type, total) ==
  IF type = "ExtendedLengthWithFrameDivision"
  THEN [cb |-> P[1].cb,
        runs |-> [i \in 1..total |->
                    <<P[i].lo, P[i].cnt - (IF total = 1 THEN kFrameFooterLength ELSE 0)>>]]
  ELSE [cb |-> P[Len(P)].cb, runs |-> << <<P[Len(P)].lo, P[Len(P)].cnt>> >>]

\* receive() reads context.frames().at(i) for i < totalFrames.
ReassemblyInRange(P, type, total) ==
  type = "ExtendedLengthWithFrameDivision" => total <= Len(P)

-----------------------------------------------------------------------------
(* Addressing (CPUCommon.cpp).                                             *)
kAddressVCPU == 1
kAddressMCPU == 2
Peer(address) == IF address = kAddressVCPU THEN kAddressMCPU ELSE kAddressVCPU
getSendCodebit(address) == Peer(address) * 32 + address * 4
getReceiveCodebit(address) == address * 32 + Peer(address) * 4

-----------------------------------------------------------------------------
\* The runs, concatenated in order, are exactly the positions from..to.
RECURSIVE Covers(_, _, _)
Covers(runs, from, to) ==
  IF runs = << >> THEN from = to + 1
  ELSE /\ Head(runs)[1] = from
       /\ Head(runs)[2] >= 0
       /\ Covers(Tail(runs), from + Head(runs)[2], to)

\* Reference frame count, from the shape table of the link specification.
RefFrameCount(n) ==
  IF n <= 1030 THEN 1 ELSE ((n - 3) + 1023) \div 1024
=============================================================================
