------------------------------ MODULE WsFrames ------------------------------
(***************************************************************************)
(* WebSocket frames: the two functions that build one                      *)
(* (WebSocketParser::buildFrame, which masks, and build_ws_frame as        *)
(* WebSocketChannel calls it, which does not), and what                    *)
(* WebSocketParser::feedRecvData makes of the bytes at the front of its    *)
(* buffer. The bytes of a header are computed; those of the mask and of    *)
(* the payload are only counted. Lengths are at most MaxPayload.           *)
(***************************************************************************)
EXTENDS Integers, Sequences, SequencesExt

Opcode == [continuation |-> 0, text |-> 1, binary |-> 2, close |-> 8, ping |-> 9, pong |-> 10]

MaskSize == 4

\* The longest payload of which sendFrame can double the size of the frame, an
\* int. (buildFrame stops earlier, at MAX_FRAME_SIZE; other clients may not.)
MaxPayload == 1073741813

\* The low byte of n >> k.
ByteOf(n, k) == IF k > 30 THEN 0 ELSE (n \div 2 ^ k) % 256

\* ws_hton of the low bytes of n.
BigEndian(n, bytes) == [b \in 1 .. bytes |-> ByteOf(n, 8 * (bytes - b))]

\* ws_ntoh.
ValueOf(bytes) ==
    LET value[k \in 0 .. Len(bytes)] == IF k = 0 THEN 0 ELSE value[k - 1] * 256 + bytes[k]
    IN  value[Len(bytes)]

\* fin, opcode; mask, length.
FirstTwo(op, masked, short) ==
    <<128 + Opcode[op], (IF masked THEN 128 ELSE 0) + short>>

\* The header buildFrame writes, up to the mask.
BuildFrame(op, len) ==
    LET short == IF len > 65535 THEN 127 ELSE IF len > 125 THEN 126 ELSE len
    IN  FirstTwo(op, TRUE, short) \o
        (IF short = 126 THEN BigEndian(len % 65536, 2)
         ELSE IF short = 127 THEN BigEndian(len, 8)
         ELSE <<>>)

\* The shifts build_ws_frame gives the eight bytes of a long length (64: a
\* byte that is 0). The first four should be 56, 48, 40 and 32; of a length
\* that is an int they are 0 either way.
Shifts == <<64, 56, 48, 40, 24, 16, 8, 0>>

\* The header build_ws_frame writes without a mask.
BuildWsFrame(op, len) ==
    IF len < 126 THEN FirstTwo(op, FALSE, len)
    ELSE IF len <= 65535 THEN FirstTwo(op, FALSE, 126) \o <<ByteOf(len, 8), ByteOf(len, 0)>>
    ELSE FirstTwo(op, FALSE, 127) \o [b \in 1 .. 8 |-> ByteOf(len, Shifts[b])]

\* ws_calc_frame_size without a mask: what the channel allocates and sends.
CalcFrameSize(len) ==
    2 + (IF len < 126 THEN 0 ELSE IF len <= 65535 THEN 2 ELSE 8) + len

\* A frame as a peer sends it.
Frame(op, len, masked) ==
    LET head == IF masked THEN BuildFrame(op, len) ELSE BuildWsFrame(op, len)
    IN  [op |-> op, len |-> len, head |-> head,
         size |-> IF masked THEN Len(head) + MaskSize + len ELSE CalcFrameSize(len)]

-----------------------------------------------------------------------------
(* One turn of feedRecvData. bytes are the first bytes of the buffer, as   *)
(* many as a header has if they are there; size is all of the buffer.      *)

More == [whole |-> FALSE]

LengthBytes(short) == CASE short = 126 -> 2 [] short = 127 -> 8 [] OTHER -> 0

\* Mutant: a length of 126 is taken for the payload's.
TakeFrame_OffByOne(bytes, size) ==
    IF size < 2 THEN More
    ELSE LET short == bytes[2] % 128
             offset == 2 + (IF short > 126 THEN LengthBytes(short) ELSE 0)
             mask == IF bytes[2] >= 128 THEN MaskSize ELSE 0
         IN  IF size < offset THEN More
             ELSE LET payload == IF short <= 126 THEN short
                                 ELSE ValueOf(SubSeq(bytes, 3, offset))
                  IN  IF size < offset + payload + mask THEN More
                      ELSE [whole |-> TRUE, op |-> bytes[1] % 16, len |-> payload,
                            size |-> offset + mask + payload]

TakeFrame(bytes, size) ==
    IF size < 2 THEN More
    ELSE LET short == bytes[2] % 128
             offset == 2 + LengthBytes(short)
             mask == IF bytes[2] >= 128 THEN MaskSize ELSE 0
         IN  IF size < offset THEN More
             ELSE LET payload == IF short < 126 THEN short
                                 ELSE ValueOf(SubSeq(bytes, 3, offset))
                  IN  IF size < offset + payload + mask THEN More
                      ELSE [whole |-> TRUE, op |-> bytes[1] % 16, len |-> payload,
                            size |-> offset + mask + payload]
==============================================================================
