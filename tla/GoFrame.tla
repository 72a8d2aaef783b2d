------------------------------- MODULE GoFrame -------------------------------
(***************************************************************************)
(* Frames (src/go/frame.go): a header of three little-endian uint64 words  *)
(* and a payload.  The top bit of the first word tells a response from a   *)
(* request, the bits below it are the request ID.  Bytes have Radix        *)
(* values; a word has eight of them, as two halves of two halves of two    *)
(* bytes, so that no definition recurses.                                  *)
(***************************************************************************)
EXTENDS Integers, Sequences

CONSTANTS
    Radix,              \* the values of a byte
    MaxFramePayload     \* the largest payload a reader accepts

ASSUME RadixAssumption == Radix \in Nat \ {0} /\ Radix % 2 = 0
ASSUME CeilingAssumption == MaxFramePayload \in Nat

Byte == 0 .. Radix - 1

R2 == Radix * Radix
R4 == R2 * R2
R8 == R4 * R4
responseBit == R4 * (R4 \div 2)
headerSize == 24

\* binary.LittleEndian.Uint64.
Uint16(b) == b[1] + Radix * b[2]
Uint32(b) == Uint16(SubSeq(b, 1, 2)) + R2 * Uint16(SubSeq(b, 3, 4))
Uint64(b) == Uint32(SubSeq(b, 1, 4)) + R4 * Uint32(SubSeq(b, 5, 8))

\* binary.LittleEndian.PutUint64.
PutUint16(v) == <<v % Radix, v \div Radix>>
PutUint32(v) == PutUint16(v % R2) \o PutUint16(v \div R2)
PutUint64(v) == PutUint32(v % R4) \o PutUint32(v \div R4)

\* The words of a header: the raw ID, the key and the length of the payload.
Word(b, i) == Uint64(SubSeq(b, 8 * i + 1, 8 * i + 8))

\* A bug: the request ID keeps the response bit.
parseFrameHeader_keeps_bit(b) ==
    [ok |-> Word(b, 2) <= MaxFramePayload,
     kind |-> IF Word(b, 0) >= responseBit THEN "response" ELSE "request",
     id |-> Word(b, 0), key |-> Word(b, 1), length |-> Word(b, 2)]

parseFrameHeader(b) ==
    [ok |-> Word(b, 2) <= MaxFramePayload,
     kind |-> IF Word(b, 0) >= responseBit THEN "response" ELSE "request",
     id |-> Word(b, 0) % responseBit, key |-> Word(b, 1), length |-> Word(b, 2)]

\* The payload is allocated once the header is accepted, and then read in full.
readFrame(stream) ==
    LET h == parseFrameHeader(stream)
        end == headerSize + h.length
        Broken(why, alloc) == [err |-> why, alloc |-> alloc]
    IN  IF Len(stream) < headerSize THEN Broken("transport error", 0)
        ELSE IF ~h.ok THEN Broken("protocol error", 0)
        ELSE IF Len(stream) < end THEN Broken("transport error", h.length)
        ELSE [err |-> "", alloc |-> h.length, kind |-> h.kind, id |-> h.id, key |-> h.key,
              payload |-> SubSeq(stream, headerSize + 1, end), rest |-> SubSeq(stream, end + 1, Len(stream))]

\* A sender has no ceiling of its own.
buildFrame(kind, id, key, payload) ==
    LET raw == id % responseBit
    IN  PutUint64(IF kind = "response" THEN raw + responseBit ELSE raw)
            \o PutUint64(key) \o PutUint64(Len(payload)) \o payload

=============================================================================
