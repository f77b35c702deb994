---------------------------- MODULE ClientFraming ----------------------------
(***************************************************************************)
(* How the two clients cut the server's byte stream into messages.         *)
(*                                                                         *)
(* The server's frames (a length, then that many bytes) reach the client's *)
(* socket in pieces.  A Gamer reads with ClientIO::RecvAll, the web viewer *)
(* with ReceiveFullMessage and RecvBuf.  A byte is its position in the     *)
(* stream.  The length a client reads is that of the frame when it took    *)
(* all of the length field; otherwise it made it up from other bytes, or   *)
(* from a buffer it did not fill, and it may be anything.                  *)
(*                                                                         *)
(* The first frame is the confirmation, the last one FINISH.  What the     *)
(* Gamer sends in between is left out.                                     *)
(***************************************************************************)
EXTENDS Naturals

CONSTANTS
  HeaderLength,  \* sizeof(uint32_t)
  BufferSize,    \* sizeof(current_buf) in RecvAll
  FrameLengths,  \* the lengths of the messages
  FrameCount     \* bound: the frames of a game

\* sizeof and frames are not empty; the module that checks a client assumes it.
FramingAssumption ==
  /\ HeaderLength \in Nat \ {0} /\ BufferSize \in Nat \ {0}
  /\ FrameLengths \subseteq Nat \ {0}
  /\ FrameCount \in Nat \ {0}

Frames == 1..FrameCount

VARIABLES
  client,     \* "gamer" or "viewer"
  arrival,    \* how the bytes arrive, see Arrive
  lengths,    \* the length of each message
  arrived,    \* bytes that have reached the socket
  ended,      \* what has become of the connection: "no", "fin" or "reset"
  pc,         \* reading a length, or a message; "spinning" and "ended"
  pos,        \* bytes the client has taken
  got,        \* bytes of the current length or message it counts: read_pos, total_recv_count
  length,     \* how many it wants
  first,      \* where the current length or message began
  delivered,  \* how many messages it has received
  message     \* the last of them, as the positions between which it lies

streamVars == <<client, arrival, lengths>>
netVars    == <<arrived, ended>>
vars == <<streamVars, netVars, pc, pos, got, length, first, delivered, message>>

\* The bytes of the first k frames, and so those before a frame; Start(FrameCount + 1)
\* is the whole stream.
Ends[k \in 0..FrameCount] == IF k = 0 THEN 0 ELSE Ends[k - 1] + HeaderLength + lengths[k]
Start(k) == Ends[k - 1]
Body(k) == Start(k) + HeaderLength
StreamLength == Start(FrameCount + 1)
Boundaries == {Start(k) : k \in 1..FrameCount + 1}

Init ==
  /\ client \in {"gamer", "viewer"}
  /\ arrival \in {"any", "paced", "whole"}
  /\ lengths \in [Frames -> FrameLengths]
  /\ arrived = 0 /\ ended = "no"
  /\ pc = "header" /\ pos = 0 /\ got = 0 /\ length = HeaderLength /\ first = 0
  /\ delivered = 0 /\ message = <<0, 0>>

-----------------------------------------------------------------------------
(* The network and the server's process *)

\* Bytes arrive in any pieces.  When they are paced, a frame arrives only after the
\* one before it was taken, with its length in one piece; when they are whole, each
\* piece is made of whole frames.
Arrive ==
  /\ ended = "no"
  /\ \E n \in arrived + 1..StreamLength :
       /\ arrival = "paced" =>
            /\ \A b \in Boundaries : ~(arrived < b /\ b < n)
            /\ arrived \in Boundaries => arrived = pos /\ n >= arrived + HeaderLength
       /\ arrival = "whole" => n \in Boundaries
       /\ arrived' = n
  /\ UNCHANGED <<streamVars, ended, pc, pos, got, length, first, delivered, message>>

\* The server's end is closed, or lost; a reset discards what the client has not taken.
Disconnect ==
  /\ ended = "no"
  /\ ended' \in {"fin", "reset"}
  /\ UNCHANGED <<streamVars, arrived, pc, pos, got, length, first, delivered, message>>

-----------------------------------------------------------------------------
(* The client *)

\* A mutation, not the code: the loops go on until more than length bytes are there.
More_AtMost ==
  pc \in {"header", "body"} /\ IF client = "gamer" /\ pc = "header" THEN got = 0 ELSE got <= length
\* The Gamer calls recv once for a length, whatever it returns, and else until it has
\* length bytes; RecvBuf loops for both.
More ==
  pc \in {"header", "body"} /\ IF client = "gamer" /\ pc = "header" THEN got = 0 ELSE got < length

\* A mutation, not the code: the viewer fills a buffer, too.
Wanted_Buffer == IF pc = "body" THEN BufferSize ELSE length
\* A message is received by the Gamer in its own buffer, in RecvBuf in the space it
\* asked for, of which the part already filled is not subtracted.
Wanted == IF client = "gamer" /\ pc = "body" THEN BufferSize ELSE length

Taken == IF arrived - pos < Wanted THEN arrived - pos ELSE Wanted

\* RecvBuf has written behind the end of the length or the message: the process may
\* end at once or not at all.
Overrun(count) == client = "viewer" /\ count > length

\* recv or read returns bytes.
Recv ==
  /\ More /\ ended # "reset" /\ pos < arrived
  /\ got' = got + Taken
  /\ pos' = pos + Taken
  /\ \/ pc' = pc
     \/ /\ Overrun(got')
        /\ pc' = "ended"
  /\ UNCHANGED <<streamVars, netVars, length, first, delivered, message>>

\* A mutation, not the code: the viewer asks again when read returned 0.
GivesUpAtEnd_Never == FALSE
GivesUpAtEnd == client = "viewer"

\* It returns 0: RecvBuf gives up.  RecvAll counts 0 bytes and goes on: it asks for a
\* message for ever, or gets empty ones that are complained about for ever, except
\* that an empty confirmation ends the Gamer.
EndOfStream ==
  /\ More /\ ended = "fin" /\ pos = arrived
  /\ \/ /\ GivesUpAtEnd
        /\ pc' = "ended"
     \/ /\ ~GivesUpAtEnd
        /\ pc' = "spinning"
     \/ /\ ~GivesUpAtEnd
        /\ pc = "header" /\ delivered = 0
        /\ pc' = "ended"
  /\ UNCHANGED <<streamVars, netVars, pos, got, length, first, delivered, message>>

\* It returns -1.
RecvFails ==
  /\ More /\ ended = "reset"
  /\ pc' = "ended"
  /\ UNCHANGED <<streamVars, netVars, pos, got, length, first, delivered, message>>

\* What other bytes can be read as; the greatest stands for all that exceed the stream.
SomeLength == 0..StreamLength + 1

\* The client holds the length of the k-th frame.
TookLength(k) == first = Start(k) /\ pos >= Body(k)

ReadLength ==
  /\ pc = "header" /\ ~More
  /\ \/ \E k \in Frames : TookLength(k) /\ length' = lengths[k]
     \/ /\ ~ \E k \in Frames : TookLength(k)
        /\ length' \in SomeLength
  /\ pc' = "body" /\ got' = 0 /\ first' = pos
  /\ UNCHANGED <<streamVars, netVars, pos, delivered, message>>

\* The message begins with all of the k-th one: the parser does not mind what follows.
Holds(k) == first = Body(k) /\ pos >= Start(k + 1)
Unreadable == ~ \E k \in Frames : Holds(k)

\* The message is complete.  The viewer ends when it cannot be parsed, the Gamer only
\* during the handshake; both end with FINISH.
Deliver ==
  /\ pc = "body" /\ ~More
  /\ delivered' = delivered + 1
  /\ message' = <<first, pos>>
  /\ pc' = IF \/ Holds(FrameCount)
              \/ Unreadable /\ client = "viewer"
              \/ Unreadable /\ delivered = 0
           THEN "ended" ELSE "header"
  /\ got' = 0 /\ length' = HeaderLength /\ first' = pos
  /\ UNCHANGED <<streamVars, netVars, pos>>

Client == Recv \/ EndOfStream \/ RecvFails \/ ReadLength \/ Deliver

Next == Arrive \/ Disconnect \/ Client

Spec == Init /\ [][Next]_vars

\* The client's thread runs; nothing makes the server send or close.
FairSpec == Spec /\ WF_vars(Client)

-----------------------------------------------------------------------------
(* Properties *)

\* Said of the last message in every state, it is said of each.
OneFrameEach ==
  delivered > 0 => delivered \in Frames /\ message = <<Body(delivered), Start(delivered + 1)>>

\* A client gets one message per frame, in order, in whatever pieces a frame arrives, as
\* long as each frame arrives after the one before was read.  RecvAll reads past the frame
\* otherwise, and a length in two pieces misleads it.  RecvBuf asks for the whole length
\* again after a short read: the viewer may have any number of frames waiting in its
\* socket, if none of them is there in part.
FramesAreMessages ==
  (client = "gamer" /\ arrival = "paced" /\ ended = "no")
    \/ (client = "viewer" /\ arrival \in {"paced", "whole"})
  => OneFrameEach

Suitable == arrival = "paced" \/ (client = "viewer" /\ arrival = "whole")

\* A client that is sent the whole game in a way it can read takes FINISH and ends,
\* though the server closes right after it.
FinishTaken == (Suitable /\ arrived = StreamLength) ~> (pc = "ended" \/ ended = "reset")

\* However badly it has misread the stream, the viewer stops waiting for the game when
\* the connection ends.
ViewerEnds == (client = "viewer" /\ ended # "no") ~> (pc = "ended")
=============================================================================
