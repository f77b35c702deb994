----------------------------- MODULE MCStreams -----------------------------
(* Where byte streams begin and end, checked side by side: what one          *)
(* connection of the server puts into its socket (OutputPath), how the       *)
(* clients cut it into messages (ClientFraming) and how the server does what *)
(* it receives (Deframer).  A behaviour is of one of them, and leaves the     *)
(* others in their initial states.                                           *)
EXTENDS OutputPath

CONSTANTS HeaderLength, BufferSize, FrameLengths, FrameCount,
          Radix, LengthSize, StreamLen, ChunkSize

\* Messages that do and do not fit into the Gamer's buffer.
ShortAndLong == {1, 3}

VARIABLES
  subject,  \* "path", "client" or "input"
  client, arrival, lengths, arrived, ended, pc, pos, got, length, first, delivered, message,
  stream, handled, chunk_end, state, message_length, buffer, requests

Reader == INSTANCE ClientFraming
reader_vars ==
  <<client, arrival, lengths, arrived, ended, pc, pos, got, length, first, delivered, message>>

Input == INSTANCE Deframer WITH pos <- handled, delivered <- requests
input_vars == <<stream, handled, chunk_end, state, message_length, buffer, requests>>

ASSUME ReaderAssumption == Reader!FramingAssumption
ASSUME InputAssumption == Input!DeframerAssumption

NoClient == client = "gamer" /\ arrival = "any" /\ \A i, j \in Reader!Frames : lengths[i] = lengths[j]
NoInput == stream = [i \in 1..StreamLen |-> 0]

MCInit ==
  /\ Init /\ Reader!Init /\ Input!Init
  /\ \/ subject = "path" /\ NoClient /\ NoInput
     \/ subject = "client" /\ NoInput
     \/ subject = "input" /\ NoClient

MCNext ==
  /\ UNCHANGED subject
  /\ \/ subject = "path" /\ Next /\ UNCHANGED <<reader_vars, input_vars>>
     \/ subject = "client" /\ Reader!Next /\ UNCHANGED <<vars, input_vars>>
     \/ subject = "input" /\ Input!Next /\ UNCHANGED <<vars, reader_vars>>

\* Of each, the fairness it states: OutputPath!FairSpec and ClientFraming!FairSpec.
MCSpec ==
  /\ MCInit /\ [][MCNext]_<<subject, vars, reader_vars, input_vars>>
  /\ WF_vars(subject = "path" /\ IoThread) /\ WF_vars(subject = "path" /\ PeerReads)
  /\ WF_reader_vars(subject = "client" /\ Reader!Client)

\* See ClientFraming: one message per frame, in order, for the arrivals a client can read.
FramesAreMessages == Reader!FramesAreMessages

\* See ClientFraming: a client that is sent the game in such a way takes FINISH.
FinishTaken == Reader!FinishTaken

\* See ClientFraming: the viewer stops waiting when its connection ends.
ViewerEnds == Reader!ViewerEnds

\* See Deframer: however the bytes are cut into chunks, the messages are the same.
ChunkingIndependent == Input!ChunkingIndependent
=============================================================================
