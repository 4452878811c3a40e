---------------------------- MODULE MessageStream ----------------------------
(***************************************************************************)
(* xs/message/serialize.c, PerlUpb_Message_ToHandle and                    *)
(* PerlUpb_Message_FromHandle: messages in a file, each behind its length  *)
(* as a varint.  The disk may be full in the middle of a frame, and the    *)
(* writing process may die, leaving the front part of the file; whoever    *)
(* reads has only the bytes.                                               *)
(*                                                                         *)
(* Bytes are numbers below 2 * Base, as a varint uses them: Base is the    *)
(* continuation bit (128 in the code).                                     *)
(***************************************************************************)
EXTENDS Integers, SequencesExt

CONSTANTS
    Messages,     \* messages
    Body,         \* the bytes each message serializes to
    Json,         \* the bytes of its JSON text
    Base,         \* 2 ^ 7 in the code
    VarintBytes,  \* the most bytes ReadVarint looks at (10 in the code)
    Half,         \* 2 ^ 63 in the code: a size_t is below 2 * Half
    Capacity,     \* the first buffer of a read to the end (4096 in the code)
    MaxWrites     \* bound: calls of ToHandle

ASSUME MessageStreamAssumption ==
    /\ Base \in Nat \ {0, 1}
    /\ Body \in [Messages -> Seq(0 .. 2 * Base - 1)]
    /\ Json \in [Messages -> Seq(0 .. 2 * Base - 1)]
    /\ VarintBytes \in Nat \ {0}
    /\ Half \in Nat \ {0}
    /\ Capacity \in Nat \ {0}
    /\ MaxWrites \in Nat

VARIABLES
    file,         \* the bytes in the file
    written,      \* the messages whose ToHandle returned
    writes,       \* the calls of ToHandle
    writer,       \* "open", "failed" after a croak, "closed" or "crashed"
    garbled,      \* the file is not a row of frames any more (history)
    pos,          \* how far the reader has come
    results,      \* the messages FromHandle returned
    reader,       \* "idle", "all" (reading to the end), or how it ended
    buffer        \* [capacity, total_read] of a read to the end

stream_vars == <<file, written, writes, writer, garbled, pos, results, reader, buffer>>
writing == <<file, written, writes, writer, garbled>>

StreamTypeOK ==
    /\ file \in Seq(0 .. 2 * Base - 1)
    /\ written \in Seq(Messages)
    /\ writes \in 0 .. MaxWrites
    /\ writer \in {"open", "failed", "closed", "crashed"}
    /\ garbled \in BOOLEAN
    /\ pos \in 0 .. Len(file)
    /\ results \in Seq(Messages)
    /\ reader \in {"idle", "all", "undef", "croak", "decode_error", "whole", "crash"}
    /\ buffer \in [capacity : Nat \ {0}, total_read : Nat]
    /\ buffer.total_read <= buffer.capacity

StreamInit ==
    /\ file = << >>
    /\ written = << >>
    /\ writes = 0
    /\ writer = "open"
    /\ garbled = FALSE
    /\ pos = 0
    /\ results = << >>
    /\ reader = "idle"
    /\ buffer = [capacity |-> Capacity, total_read |-> 0]

-----------------------------------------------------------------------------
(* The bytes WriteVarint puts out, least significant group first. *)
WriteVarint[n \in Nat] ==
    IF n < Base THEN <<n>> ELSE <<Base + (n % Base)>> \o WriteVarint[n \div Base]

(* A message is known by its bytes, and its length is one a buffer can have *)
(* and fits in a varint (of ten bytes, in the code, for a size_t).         *)
ASSUME FramesAssumption ==
    /\ \A m, l \in Messages : Body[m] = Body[l] => m = l
    /\ \A m \in Messages : Len(Body[m]) < Half
    /\ \A m \in Messages : Len(WriteVarint[Len(Body[m])]) <= VarintBytes

Frame(m) == WriteVarint[Len(Body[m])] \o Body[m]

(* PerlUpb_Message_ToHandle *)
ToHandle(m) ==
    /\ writer \in {"open", "failed"}
    /\ writes < MaxWrites
    /\ file' = file \o Frame(m)
    /\ written' = Append(written, m)
    /\ writes' = writes + 1
    /\ garbled' = (garbled \/ writer = "failed")
    /\ writer' = "open"
    /\ UNCHANGED <<pos, results, reader, buffer>>

(* The write of the body comes up short: the call croaks.  The one of the   *)
(* length may have come up short before, which nobody checks.  What is in  *)
(* the file stays there; the program may go on writing.                    *)
ToHandleCroaks(m) ==
    /\ writer \in {"open", "failed"}
    /\ writes < MaxWrites
    /\ \E j \in 0 .. Len(WriteVarint[Len(Body[m])]), k \in 0 .. Len(Body[m]) - 1 :
          /\ file' = file \o SubSeq(WriteVarint[Len(Body[m])], 1, j) \o SubSeq(Body[m], 1, k)
          /\ garbled' = (garbled \/ writer = "failed"
                         \/ (j < Len(WriteVarint[Len(Body[m])]) /\ k > 0))
    /\ writes' = writes + 1
    /\ writer' = "failed"
    /\ UNCHANGED <<written, pos, results, reader, buffer>>

(* The write of the length comes up short, which nobody checks, and that of *)
(* the body does not: the call returns.                                    *)
ToHandleLosesLength(m) ==
    /\ writer \in {"open", "failed"}
    /\ writes < MaxWrites
    /\ \E k \in 0 .. Len(WriteVarint[Len(Body[m])]) - 1 :
          file' = file \o SubSeq(WriteVarint[Len(Body[m])], 1, k) \o Body[m]
    /\ written' = Append(written, m)
    /\ writes' = writes + 1
    /\ garbled' = TRUE
    /\ writer' = "open"
    /\ UNCHANGED <<pos, results, reader, buffer>>

(* PerlUpb_Message_JsonToHandle: the text without a length, between the     *)
(* frames if the program writes both to one handle.  A write that comes up *)
(* short is not noticed either.                                            *)
JsonToHandle(m) ==
    /\ writer \in {"open", "failed"}
    /\ writes < MaxWrites
    /\ \E k \in 0 .. Len(Json[m]) : file' = file \o SubSeq(Json[m], 1, k)
    /\ writes' = writes + 1
    /\ garbled' = TRUE
    /\ writer' = "open"
    /\ UNCHANGED <<written, pos, results, reader, buffer>>

Close ==
    /\ writer \in {"open", "failed"}
    /\ writer' = "closed"
    /\ UNCHANGED <<file, written, writes, garbled, pos, results, reader, buffer>>

(* The writing process dies with bytes still buffered. *)
Crash ==
    /\ writer \in {"open", "failed"}
    /\ writer' = "crashed"
    /\ \E k \in 0 .. Len(file) : file' = SubSeq(file, 1, k)
    /\ UNCHANGED <<written, writes, garbled, pos, results, reader, buffer>>

-----------------------------------------------------------------------------
(* PerlUpb_Message_FromHandle *)

Rest == SubSeq(file, pos + 1, Len(file))
Min2(a, b) == IF a < b THEN a ELSE b

(* Faulty variant: a length of zero is taken for the end of the file.      *)
Faulty_VarintEnds(bytes) ==
    {i \in 1 .. Min2(VarintBytes, Len(bytes)) :
        bytes[i] \in 1 .. Base - 1 /\ \A j \in 1 .. i - 1 : bytes[j] >= Base}

(* The bytes of the varint at the front of bytes: as far as the first one   *)
(* without the continuation bit.                                           *)
VarintEnds(bytes) ==
    {i \in 1 .. Min2(VarintBytes, Len(bytes)) :
        bytes[i] < Base /\ \A j \in 1 .. i - 1 : bytes[j] >= Base}

VarintSum(bytes) ==
    LET value[k \in 0 .. Len(bytes)] ==      \* of the last k bytes
            IF k = 0 THEN 0
            ELSE (bytes[Len(bytes) - k + 1] % Base) + (Base * value[k - 1])
    IN  value[Len(bytes)]

(* A uint64_t: the bits the last byte has too many are shifted out. *)
VarintValue(bytes) == VarintSum(bytes) % (2 * Half)

(* (SSize_t)total_to_read *)
SSize(total) == IF total < Half THEN total ELSE total - 2 * Half

Decoded(bytes) == {m \in Messages : Body[m] = bytes}

Reads == reader = "idle" /\ writer \in {"closed", "crashed"}

(* Faulty variant: a varint that does not end is waited for.               *)
Faulty_FromHandleUndef ==
    /\ Reads
    /\ Rest = << >>
    /\ reader' = "undef"
    /\ UNCHANGED <<writing, pos, results, buffer>>

(* ReadVarint meets the end of the file, or no end of the varint: undef. *)
FromHandleUndef ==
    /\ Reads
    /\ VarintEnds(Rest) = {}
    /\ reader' = "undef"
    /\ pos' = pos + Min2(VarintBytes, Len(Rest))
    /\ UNCHANGED <<writing, results, buffer>>

(* What PerlIO_read finds of the body. *)
BodyRead(k, total) == Min2(total, Len(Rest) - k)

FromHandleLength ==
    /\ Reads
    /\ \E k \in VarintEnds(Rest) :
          LET total == VarintValue(SubSeq(Rest, 1, k))
              n == BodyRead(k, total)
              decoded == Decoded(SubSeq(Rest, k + 1, k + n))
          IN  \/ /\ n < SSize(total)
                 /\ reader' = "croak"
                 /\ pos' = Len(file)
                 /\ UNCHANGED results
              \/ /\ n = total
                 /\ pos' = pos + k + n
                 /\ IF decoded = {}
                    THEN reader' = "decode_error" /\ UNCHANGED results
                    ELSE /\ \E m \in decoded : results' = Append(results, m)
                         /\ UNCHANGED reader
    /\ UNCHANGED <<writing, buffer>>

(* A length of Half or more is negative in the comparison and is not        *)
(* refused: upb_Decode is given more bytes than were read, of a buffer that *)
(* is most likely NULL.  It dies, fails, or makes any message of them.     *)
FromHandleOverread ==
    /\ Reads
    /\ \E k \in VarintEnds(Rest) :
          LET total == VarintValue(SubSeq(Rest, 1, k))
              n == BodyRead(k, total)
          IN  n < total /\ ~(n < SSize(total))
    /\ pos' = Len(file)
    /\ \/ reader' \in {"crash", "decode_error"} /\ UNCHANGED results
       \/ (\E m \in Messages : results' = Append(results, m)) /\ UNCHANGED reader
    /\ UNCHANGED <<writing, buffer>>

(* Without length_prefixed the file is read to its end, into a buffer that  *)
(* doubles when it is full.                                                *)
FromHandleAll ==
    /\ Reads
    /\ pos = 0
    /\ reader' = "all"
    /\ UNCHANGED <<writing, pos, results, buffer>>

Grown == IF buffer.total_read = buffer.capacity THEN 2 * buffer.capacity
                                                ELSE buffer.capacity

ReadChunk ==
    /\ reader = "all"
    /\ pos < Len(file)
    /\ \E n \in 1 .. Min2(Grown - buffer.total_read, Len(Rest)) :
          /\ pos' = pos + n
          /\ buffer' = [capacity |-> Grown, total_read |-> buffer.total_read + n]
    /\ UNCHANGED <<writing, results, reader>>

(* The end of the file: all of it is one message, or none. *)
ReadChunksEnd ==
    /\ reader = "all"
    /\ pos = Len(file)
    /\ reader' = IF Decoded(file) = {} THEN "decode_error" ELSE "whole"
    /\ UNCHANGED <<writing, pos, results, buffer>>

(* Nothing checks what upb_Arena_Malloc and upb_Message_New return: where   *)
(* FromHandle gets a buffer or makes the message, no memory is a crash.    *)
OutOfMemory ==
    /\ \/ Reads /\ VarintEnds(Rest) # {}
       \/ /\ reader = "all"
          /\ \/ buffer.total_read \in {0, buffer.capacity}
             \/ pos = Len(file)
    /\ reader' = "crash"
    /\ UNCHANGED <<writing, pos, results, buffer>>

StreamNext ==
    \/ \E m \in Messages :
          \/ ToHandle(m)
          \/ ToHandleCroaks(m)
          \/ ToHandleLosesLength(m)
          \/ JsonToHandle(m)
    \/ Close
    \/ Crash
    \/ FromHandleUndef
    \/ FromHandleLength
    \/ FromHandleOverread
    \/ FromHandleAll
    \/ ReadChunk
    \/ ReadChunksEnd
    \/ OutOfMemory

(* A reader that was started reads on; nothing makes the writer write. *)
StreamSpec ==
    /\ StreamInit
    /\ [][StreamNext]_stream_vars
    /\ WF_stream_vars(FromHandleLength \/ FromHandleOverread \/ FromHandleUndef)
    /\ WF_stream_vars(ReadChunk \/ ReadChunksEnd)

-----------------------------------------------------------------------------
(* Properties. *)

(* Whatever was lost at the end of the file, the messages that are read are *)
(* the ones that were written, in their order: a cut is an undef or a      *)
(* croak, never another message.  And an undef from a file that was closed, *)
(* not cut, means that every message whose ToHandle returned was read, also *)
(* when the last call croaked.  Only writing on after a croak, a length     *)
(* that was lost unnoticed, or JSON between the frames breaks either.      *)
ReadsWhatWasWritten ==
    ~garbled =>
        /\ IsPrefix(results, written)
        /\ reader = "undef" /\ writer = "closed" => results = written

(* Every read comes to an end, whatever is in the file: a cut length or     *)
(* body is not waited for, and a length too large for SSize_t, which is not *)
(* refused, has no more than one go at what upb_Decode makes of it, a crash *)
(* among that.                                                             *)
ReadingEnds == writer \in {"closed", "crashed"} ~> reader \notin {"idle", "all"}
=============================================================================
