---------------------------- MODULE EventDecoder ----------------------------
(* The decoder of the upstream's event stream                                *)
(* (src/src/kiro/parser/decoder.rs, frame.rs).  Bytes come in chunks cut     *)
(* anywhere; a frame is a prelude with the frame's length, and a body, both  *)
(* with a checksum.  After an error the decoder skips a byte or a frame and  *)
(* stops iterating until the next chunk; after MaxErrors errors in a row it  *)
(* stops for good.                                                           *)
(*                                                                           *)
(* A byte is [f, o]: the frame it belongs to and its place there.  What is   *)
(* wrong with a frame is its kind; bytes that are not a frame's own length   *)
(* read as an arbitrary length, the same one all over a stream.              *)
EXTENDS Integers, Sequences, Functions

CONSTANTS
    LengthSize,      \* bytes of total_length, the first ones of a prelude
    PreludeSize,     \* PRELUDE_SIZE
    MinMessageSize,  \* MIN_MESSAGE_SIZE
    MaxMessageSize,  \* MAX_MESSAGE_SIZE
    MaxBufferSize,   \* DEFAULT_MAX_BUFFER_SIZE
    MaxErrors,       \* DEFAULT_MAX_ERRORS
    FrameSize,       \* bytes of every frame
    FrameCounts,     \* numbers of frames a stream may have
    Garbage          \* lengths that damaged or misread bytes may give

ASSUME DecoderAssumption ==
    /\ {LengthSize, PreludeSize, MinMessageSize, MaxMessageSize, MaxBufferSize, MaxErrors,
        FrameSize} \subseteq Nat
    /\ 0 < LengthSize /\ LengthSize <= PreludeSize /\ PreludeSize < MinMessageSize
    /\ MinMessageSize <= FrameSize /\ FrameSize <= MaxMessageSize
    /\ MaxErrors > 0
    /\ FrameCounts \subseteq Nat /\ Garbage \subseteq Nat

VARIABLES
    frames,          \* what the upstream sends: the kind of every frame
    garbage,         \* the length that misread bytes give
    fed,             \* bytes handed to feed so far
    overflowed,      \* a chunk was refused
    buffer, state, errors,   \* EventStreamDecoder
    decoded,         \* the frames handed on, in order
    iterating        \* decode_iter is being run

decoderVars == <<frames, garbage, fed, overflowed, buffer, state, errors, decoded, iterating>>

FrameKinds == {"good", "length", "prelude", "message", "header", "headers"}

Total == Len(frames) * FrameSize

ByteAt(i) == [f |-> (i - 1) \div FrameSize + 1, o |-> ((i - 1) % FrameSize) + 1]

\* The first n bytes there are are the first ones of a frame.  They are not when
\* a chunk was refused, or the boundary is wrong.
Together(n) == \A i \in 1..n : buffer[i] = [f |-> buffer[1].f, o |-> i]

\* total_length as it is read.
LengthRead ==
    IF Together(LengthSize) /\ frames[buffer[1].f] # "length" THEN FrameSize ELSE garbage

\* parse_frame: "frame", "more", or an error, in the order of the tests; the
\* checksum of the prelude is looked at only when a whole frame is there.
ParseFrame ==
    LET n    == LengthRead
        kind == frames[buffer[1].f]
    IN  IF Len(buffer) < PreludeSize THEN "more"
        ELSE IF n < MinMessageSize THEN "MessageTooSmall"
        ELSE IF n > MaxMessageSize THEN "MessageTooLarge"
        ELSE IF Len(buffer) < n THEN "more"
        ELSE IF ~Together(PreludeSize) \/ kind \in {"length", "prelude"}
             THEN "PreludeCrcMismatch"
        ELSE IF ~Together(n) \/ kind = "message" THEN "MessageCrcMismatch"
        ELSE IF kind = "header" THEN "HeaderParseFailed"
        ELSE IF kind = "headers" THEN "Incomplete"
        ELSE "frame"

\* Mutant: an error in the data loses one byte, not the frame.
Skip_OneByte(error) == 1

\* try_recover: how many bytes are skipped.
Skip(error) ==
    IF error \in {"MessageCrcMismatch", "HeaderParseFailed"}
       /\ LengthRead \in MinMessageSize..Len(buffer)
    THEN LengthRead ELSE 1

Advance(n) == buffer' = SubSeq(buffer, n + 1, Len(buffer))

DecoderInit ==
    /\ \E n \in FrameCounts : frames \in [1..n -> FrameKinds]
    /\ garbage \in Garbage
    /\ fed = 0 /\ overflowed = FALSE
    /\ buffer = <<>> /\ state = "Ready" /\ errors = 0
    /\ decoded = <<>> /\ iterating = FALSE

\* feed, and decode_iter on what is there; a chunk that does not fit is lost.
Feed ==
    /\ ~iterating /\ fed < Total
    /\ \E n \in (fed + 1)..Total :
        LET chunk == [i \in 1..(n - fed) |-> ByteAt(fed + i)]
            fits  == Len(buffer) + Len(chunk) <= MaxBufferSize
        IN  /\ fed' = n
            /\ buffer' = IF fits THEN buffer \o chunk ELSE buffer
            /\ overflowed' = (overflowed \/ ~fits)
            /\ state' = IF fits /\ state = "Recovering" THEN "Ready" ELSE state
    /\ iterating' = TRUE
    /\ UNCHANGED <<frames, garbage, errors, decoded>>

\* DecodeIter::next in a state in which it goes no further.
IterEnds ==
    /\ iterating /\ state \in {"Recovering", "Stopped"}
    /\ iterating' = FALSE
    /\ UNCHANGED <<frames, garbage, fed, overflowed, buffer, state, errors, decoded>>

\* decode: there is no whole frame.
NeedMore ==
    /\ iterating /\ state = "Ready"
    /\ buffer = <<>> \/ ParseFrame = "more"
    /\ iterating' = FALSE
    /\ UNCHANGED <<frames, garbage, fed, overflowed, buffer, state, errors, decoded>>

\* decode: a frame.
DecodeFrame ==
    /\ iterating /\ state = "Ready"
    /\ buffer # <<>> /\ ParseFrame = "frame"
    /\ Advance(LengthRead)
    /\ decoded' = Append(decoded, buffer[1].f)
    /\ errors' = 0
    /\ UNCHANGED <<frames, garbage, fed, overflowed, state, iterating>>

\* decode: an error.
Fail ==
    /\ iterating /\ state = "Ready"
    /\ buffer # <<>> /\ ParseFrame \notin {"frame", "more"}
    /\ errors' = errors + 1
    /\ IF errors' >= MaxErrors THEN state' = "Stopped" /\ UNCHANGED buffer
       ELSE state' = "Recovering" /\ Advance(Skip(ParseFrame))
    /\ UNCHANGED <<frames, garbage, fed, overflowed, decoded, iterating>>

DecoderNext == Feed \/ IterEnds \/ NeedMore \/ DecodeFrame \/ Fail

DecoderSpec == DecoderInit /\ [][DecoderNext]_decoderVars

-----------------------------------------------------------------------------
\* The good frames among the first n bytes.
GoodWithin(n) == {i \in 1..(n \div FrameSize) : frames[i] = "good"}

\* The frames of what was fed are whole but for their bodies.
PreludesIntact ==
    ~overflowed /\ \A i \in 1..((fed + FrameSize - 1) \div FrameSize) :
                      frames[i] \in {"good", "message", "header"}

\* Damage to one frame's data loses that frame and no other, wherever the
\* chunks cut: when the decoder waits for data it has handed on, in order,
\* every good frame that has arrived, and it gives up only after MaxErrors
\* damaged frames in a row.  (While it recovers, the frames behind the damage
\* wait for the next chunk; behind the last chunk's damage they are lost.)  And
\* whatever is damaged, it never hands on a frame that was not sent so, twice or
\* out of order.
OnlyDamagedFramesAreLost ==
    /\ ~iterating /\ state = "Ready" /\ PreludesIntact => Range(decoded) = GoodWithin(fed)
    /\ state = "Stopped" /\ PreludesIntact =>
          \E last \in MaxErrors..(fed \div FrameSize) :
             \A i \in (last - MaxErrors + 1)..last : frames[i] # "good"
    /\ \A i, j \in DOMAIN decoded :
          (i < j => decoded[i] < decoded[j]) /\ frames[decoded[i]] = "good"

=============================================================================
