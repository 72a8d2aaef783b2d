---------------------------- MODULE GoFrameStream ----------------------------
(***************************************************************************)
(* A reader of frames and the bytes that lie before it.                    *)
(***************************************************************************)
EXTENDS GoFrame

VARIABLES
    stream,     \* the bytes that lie before the reader
    frame       \* what readFrame made of them, Nothing until it has

frameVars == <<stream, frame>>

Nothing == [k |-> "nothing"]

FrameInit == stream = <<>> /\ frame = Nothing

\* Bytes arrive, from a peer that sends whatever it likes
SendBytes(b) == stream' = b /\ frame' = Nothing

\* or from a sender that builds a frame.
SendFrame(kind, id, key, payload) == SendBytes(buildFrame(kind, id, key, payload))

ReadFrame == frame' = readFrame(stream) /\ UNCHANGED stream

FrameNext == (\E b \in Seq(Byte) : SendBytes(b)) \/ ReadFrame

FrameSpec == FrameInit /\ [][FrameNext]_frameVars

-----------------------------------------------------------------------------
(* Properties.                                                             *)

\* What is read is what the bytes say.  A frame that is accepted, built again
\* and followed by what was left of the stream, is the stream: no ID, key or
\* payload is changed, no byte of the next frame is taken; a whole frame below
\* the ceiling is always accepted, and no header makes the reader allocate
\* more than the ceiling.
FramesExact ==
    frame # Nothing =>
        LET whole == Len(stream) >= headerSize /\ Len(stream) >= headerSize + Word(stream, 2)
        IN  /\ (frame.err = "") <=> whole /\ Word(stream, 2) <= MaxFramePayload
            /\ frame.err = "" =>
                 /\ buildFrame(frame.kind, frame.id, frame.key, frame.payload) \o frame.rest = stream
                 /\ frame.id \in 0 .. responseBit - 1
            /\ frame.alloc <= MaxFramePayload
=============================================================================
