----------------------------- MODULE OutputPath -----------------------------
(***************************************************************************)
(* How a message gets from the server to a peer: addOutput queues it, the  *)
(* IO thread's onOutput hands the queue to AsyncWriter::write, which writes *)
(* to a non-blocking socket, and the peer reads the bytes.                 *)
(*                                                                         *)
(* Message m, the m-th one queued, is framed into FrameLen bytes, the      *)
(* numbers (m - 1) * FrameLen + 1 .. m * FrameLen: a stream from which no  *)
(* byte is missing counts 1, 2, 3, ...  The socket's buffers hold Capacity *)
(* bytes that the peer has not read; a write takes what fits, and fails    *)
(* with EAGAIN when nothing does.                                          *)
(***************************************************************************)
EXTENDS Naturals, Sequences, SequencesExt

CONSTANTS
  MaxMessages,  \* bound: messages ever queued
  FrameLen,     \* bytes of a framed message
  Capacity      \* bytes the socket's buffers hold

ASSUME OutputAssumption ==
  /\ MaxMessages \in Nat
  /\ FrameLen \in Nat \ {0}
  /\ Capacity \in Nat \ {0}

VARIABLES
  output_queue_,  \* ConnectionWithOutput::output_queue_
  flushing,       \* the IO thread is in onOutput and holds mutex_
  buffer_,        \* AsyncWriter::buffer_, the remembered frame
  wire,           \* bytes written and not yet read by the peer
  received,       \* bytes the peer has read
  queued,         \* number of messages queued so far
  choked          \* history: a write took less than its whole frame

vars == <<output_queue_, flushing, buffer_, wire, received, queued, choked>>

\* OutputLengthPrefixedProtocol::getResponse: the length and the message as one buffer.
Frame(m) == [k \in 1..FrameLen |-> (m - 1) * FrameLen + k]

Init ==
  /\ output_queue_ = <<>> /\ flushing = FALSE /\ buffer_ = <<>>
  /\ wire = <<>> /\ received = <<>>
  /\ queued = 0 /\ choked = FALSE

\* addOutput, by the game thread or by the IO thread for a confirmation.
AddOutput ==
  /\ ~flushing
  /\ queued < MaxMessages
  /\ queued' = queued + 1
  /\ output_queue_' = Append(output_queue_, queued + 1)
  /\ UNCHANGED <<flushing, buffer_, wire, received, choked>>

\* epoll reported the socket writable: onOutput takes the mutex.
OnOutput ==
  /\ ~flushing /\ Len(wire) < Capacity
  /\ flushing' = TRUE
  /\ UNCHANGED <<output_queue_, buffer_, wire, received, queued, choked>>

\* What write puts on the socket: the remembered frame, if there is one.
ToWrite == IF buffer_ = <<>> THEN Frame(Head(output_queue_)) ELSE buffer_
Room == Capacity - Len(wire)

\* A mutation, not the code: one write empties the queue.
AfterWrite_Cleared == <<>>
\* onOutput pops the front whatever write did with it.
AfterWrite == Tail(output_queue_)

\* write: EAGAIN.  The frame is remembered and write returns as if it had succeeded.
WriteBlocked ==
  /\ flushing /\ output_queue_ # <<>>
  /\ Room = 0
  /\ buffer_' = ToWrite
  /\ output_queue_' = AfterWrite
  /\ choked' = TRUE
  /\ UNCHANGED <<flushing, wire, received, queued>>

\* A mutation, not the code: the buffer is kept after the write.
Remembered_Kept == ToWrite
Remembered == <<>>

\* write: the socket takes the frame, or as much of it as fits, and buffer_ is
\* emptied without a look at how much was written.
Write ==
  /\ flushing /\ output_queue_ # <<>>
  /\ Room > 0
  /\ LET n == IF Len(ToWrite) <= Room THEN Len(ToWrite) ELSE Room IN
     /\ wire' = wire \o SubSeq(ToWrite, 1, n)
     /\ choked' = (choked \/ n < Len(ToWrite))
  /\ buffer_' = Remembered
  /\ output_queue_' = AfterWrite
  /\ UNCHANGED <<flushing, received, queued>>

EndOutput ==
  /\ flushing /\ output_queue_ = <<>>
  /\ flushing' = FALSE
  /\ UNCHANGED <<output_queue_, buffer_, wire, received, queued, choked>>

PeerReads ==
  /\ wire # <<>>
  /\ received' = Append(received, Head(wire))
  /\ wire' = Tail(wire)
  /\ UNCHANGED <<output_queue_, flushing, buffer_, queued, choked>>

IoThread == OnOutput \/ WriteBlocked \/ Write \/ EndOutput

Next == AddOutput \/ IoThread \/ PeerReads

Spec == Init /\ [][Next]_vars

\* The event loop runs, and the peer reads what it is sent.
FairSpec == Spec /\ WF_vars(IoThread) /\ WF_vars(PeerReads)

-----------------------------------------------------------------------------
(* Properties *)

TypeOK ==
  /\ output_queue_ \in Seq(1..MaxMessages)
  /\ flushing \in BOOLEAN /\ choked \in BOOLEAN
  /\ buffer_ \in Seq(Nat) /\ wire \in Seq(Nat) /\ received \in Seq(Nat)
  /\ queued \in 0..MaxMessages

\* The bytes that have left the queue.
Left == received \o wire \o buffer_

\* Bytes of a later message never overtake those of an earlier one and nothing is
\* written twice, even when writes fail or are cut short.
BytesInOrder == \A i, j \in DOMAIN Left : i < j => Left[i] < Left[j]

\* Every message reaches the peer in full, unless a write was cut short.
MessagesArrive ==
  \A m \in 1..MaxMessages :
    queued >= m ~> (choked \/ Range(Frame(m)) \subseteq Range(received))

\* "remembered this buffer, will try to put it next time" (async_io.hpp): a full
\* socket only delays messages, nothing between addOutput and the peer is lost.
BlockedWritesLoseNothing ==
  Left \o FlattenSeq([i \in DOMAIN output_queue_ |-> Frame(output_queue_[i])])
    = [k \in 1..queued * FrameLen |-> k]
=============================================================================
