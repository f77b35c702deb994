------------------------------ MODULE Deframer ------------------------------
(***************************************************************************)
(* InputLengthPrefixedProtocol: the bytes of a connection are cut into     *)
(* messages, whatever the chunks in which AsyncReader::read receives them. *)
(*                                                                         *)
(* A byte is a digit of base Radix, a length is LengthSize digits, lowest  *)
(* first (256 and 4 in the code).  The stream is any sequence of bytes:    *)
(* nothing assumes that the peer frames its messages as the server does.   *)
(***************************************************************************)
EXTENDS Integers, Sequences

CONSTANTS
  Radix,       \* values of a byte, 2 at least
  LengthSize,  \* LENGTH_SIZE, positive
  StreamLen,   \* bound: bytes the peer sends
  ChunkSize    \* BUFFER_SIZE, the most that one recv returns

\* The module that checks the server's input assumes it.
DeframerAssumption ==
  /\ Radix \in Nat /\ StreamLen \in Nat /\ ChunkSize \in Nat
  /\ LengthSize \in Nat \ {0}

Byte == 0..Radix - 1

VARIABLES
  stream,          \* everything the peer sends
  pos,             \* bytes of it handled: buffer_seek
  chunk_end,       \* where the chunk being handled ends: buffer->end()
  state,           \* State::state
  message_length,  \* State::message_length
  buffer,          \* the first State::read_length bytes of State::buffer
  delivered        \* the messages given to handleRequest

vars == <<stream, pos, chunk_end, state, message_length, buffer, delivered>>

\* The value of a length field.
ValueOf(digits) ==
  LET v[i \in 0..Len(digits)] ==
        IF i = 0 THEN 0 ELSE v[i - 1] * Radix + digits[Len(digits) + 1 - i]
  IN v[Len(digits)]

Init ==
  /\ stream \in [1..StreamLen -> Byte]
  /\ pos = 0 /\ chunk_end = 0
  /\ state = "READING_LENGTH" /\ message_length = LengthSize
  /\ buffer = <<>> /\ delivered = <<>>

\* AsyncReader::read: recv returns the next bytes, as many as it likes.
ReadChunk ==
  /\ pos = chunk_end
  /\ \E n \in 1..ChunkSize :
       /\ chunk_end + n <= StreamLen
       /\ chunk_end' = chunk_end + n
  /\ UNCHANGED <<stream, pos, state, message_length, buffer, delivered>>

Portion == chunk_end - pos
ReadLength == Len(buffer)
Rest(n) == SubSeq(stream, pos + 1, pos + n)

\* What is left of the chunk does not complete the length or the message.
Incomplete == Portion + ReadLength < message_length

\* Part of the length, or part of the message: it is kept.
ReadPart ==
  /\ pos < chunk_end
  /\ Incomplete
  /\ buffer' = buffer \o Rest(Portion)
  /\ pos' = chunk_end
  /\ UNCHANGED <<stream, chunk_end, state, message_length, delivered>>

\* A mutation, not the code: the part that was read before the chunk is forgotten.
Remaining_All == message_length
Remaining == message_length - ReadLength

ReadWholeLength ==
  /\ pos < chunk_end
  /\ state = "READING_LENGTH" /\ ~Incomplete
  /\ state' = "READING_DATA"
  /\ message_length' = ValueOf(buffer \o Rest(Remaining))
  /\ buffer' = <<>>
  /\ pos' = pos + Remaining
  /\ UNCHANGED <<stream, chunk_end, delivered>>

ReadWholeMessage ==
  /\ pos < chunk_end
  /\ state = "READING_DATA" /\ ~Incomplete
  /\ delivered' = Append(delivered, buffer \o Rest(Remaining))
  /\ state' = "READING_LENGTH" /\ message_length' = LengthSize
  /\ buffer' = <<>>
  /\ pos' = pos + Remaining
  /\ UNCHANGED <<stream, chunk_end>>

Next == ReadChunk \/ ReadPart \/ ReadWholeLength \/ ReadWholeMessage

Spec == Init /\ [][Next]_vars

-----------------------------------------------------------------------------
(* Properties *)

\* The reference, the stream read as one piece: where the frame behind the i-th byte ends,
\* or a place behind the stream if the stream ends first, and so where each frame ends.
Beyond == StreamLen + 1
FrameEnd(i) ==
  LET end == i + LengthSize + ValueOf(SubSeq(stream, i + 1, i + LengthSize))
  IN IF i + LengthSize > StreamLen \/ end > StreamLen THEN Beyond ELSE end

Cuts[k \in 0..StreamLen] == IF k = 0 THEN 0 ELSE FrameEnd(Cuts[k - 1])
MessageAt(k) == SubSeq(stream, Cuts[k - 1] + LengthSize + 1, Cuts[k])

\* An empty message is delivered only when a byte after it arrives: the loop of
\* processDataChunk ends with the chunk, before it looks at the new state.
EmptyPending == IF state = "READING_DATA" /\ message_length = 0 THEN << <<>> >> ELSE <<>>

\* However the bytes are cut into chunks, the messages delivered so far are those of
\* the frames that end within the bytes handled so far.
ChunkingIndependent ==
  \E m \in 0..StreamLen :
    /\ Cuts[m] <= pos /\ (m < StreamLen => pos < Cuts[m + 1])
    /\ delivered \o EmptyPending = [k \in 1..m |-> MessageAt(k)]
=============================================================================
