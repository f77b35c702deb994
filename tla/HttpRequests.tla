---------------------------- MODULE HttpRequests ----------------------------
(***************************************************************************)
(* How a worker of the web UI reads a request: ReadHttpRequest takes chunks *)
(* until an automaton has seen CR LF CR LF and drops what follows in the    *)
(* chunk, and HttpRequest::Parse cuts the request into lines.  The two find *)
(* line ends in different ways: Parse searches for CR LF from where the     *)
(* last line ended and, with none left, would start again near the front.   *)
(***************************************************************************)
EXTENDS Integers, Sequences

CONSTANTS
  RequestLen,  \* bound: bytes the browser sends
  ReadSize     \* buf.size(), the most that one read returns

\* The module that checks the reading of requests assumes it.
RequestsAssumption == RequestLen \in Nat /\ ReadSize \in Nat

Symbol == {"CR", "LF", "x"}

VARIABLES
  sent,        \* everything the browser sends
  taken,       \* bytes of it read
  dfa,         \* DfaStateForHttpRequest
  request,     \* result, client_request_
  phase,       \* "reading", "parsing", "parsed" or "refused"
  line_start,  \* where Parse looks for the next line, counted from 0
  lines        \* the request line and the header lines

vars == <<sent, taken, dfa, request, phase, line_start, lines>>

Init ==
  /\ sent \in UNION {[1..n -> Symbol] : n \in 0..RequestLen}
  /\ taken = 0 /\ dfa = "initial" /\ request = <<>>
  /\ phase = "reading" /\ line_start = 0 /\ lines = <<>>

\* A mutation, not the code: after a CR LF CR, another CR is a fresh start.
NextState_Fresh(state, c) ==
  CASE state = "initial" /\ c = "CR" -> "seen_cr"
    [] state = "seen_cr" /\ c = "LF" -> "seen_crlf"
    [] state = "seen_cr" /\ c = "CR" -> "seen_cr"
    [] state = "seen_crlf" /\ c = "CR" -> "seen_crlfcr"
    [] state = "seen_crlfcr" /\ c = "LF" -> "seen_crlfcrlf"
    [] OTHER -> "initial"
\* DfaStateForHttpRequest_next_state; the last state is never left.
NextState(state, c) ==
  CASE state = "seen_crlfcrlf" -> state
    [] state # "seen_crlfcrlf" /\ c = "CR" -> IF state = "seen_crlf" THEN "seen_crlfcr" ELSE "seen_cr"
    [] c = "LF" /\ state = "seen_cr" -> "seen_crlf"
    [] c = "LF" /\ state = "seen_crlfcr" -> "seen_crlfcrlf"
    [] OTHER -> "initial"

\* The state of the automaton after each of the next n bytes.
After(n) ==
  LET run[k \in 0..n] == IF k = 0 THEN dfa ELSE NextState(run[k - 1], sent[taken + k])
  IN run

\* read returns the next bytes, as many as it likes, and the automaton runs over them.
\* (It is never interrupted: the program handles no signal.)
ReadHttpRequest ==
  /\ phase = "reading"
  /\ \E n \in 1..ReadSize :
       LET ends == {k \in 1..n : After(n)[k] = "seen_crlfcrlf"}
           used == IF ends = {} THEN n ELSE CHOOSE k \in ends : \A j \in ends : k <= j
       IN  /\ taken + n <= Len(sent)
           /\ taken' = taken + n
           /\ dfa' = After(n)[used]
           /\ request' = request \o SubSeq(sent, taken + 1, taken + used)
           /\ phase' = IF ends = {} THEN "reading" ELSE "parsing"
  /\ UNCHANGED <<sent, line_start, lines>>

\* read returns 0, or fails.
RefuseRequest ==
  /\ phase = "reading"
  /\ phase' = "refused"
  /\ UNCHANGED <<sent, taken, dfa, request, line_start, lines>>

\* body_str.find("\r\n", from): the offsets of the line ends.
LineEnds(from) == {i \in from..Len(request) - 2 : request[i + 1] = "CR" /\ request[i + 2] = "LF"}
LineEnd == CHOOSE i \in LineEnds(line_start) : \A j \in LineEnds(line_start) : i <= j

\* One line; npos + 2 is 1.
ParseLine ==
  /\ phase = "parsing"
  /\ LineEnds(line_start) = {} \/ lines = <<>> \/ LineEnd # line_start
  /\ IF LineEnds(line_start) = {}
     THEN /\ line_start' = 1
          /\ lines' = Append(lines, SubSeq(request, line_start + 1, Len(request)))
     ELSE /\ line_start' = LineEnd + 2
          /\ lines' = Append(lines, SubSeq(request, line_start + 1, LineEnd))
  /\ UNCHANGED <<sent, taken, dfa, request, phase>>

\* The empty line.
EndOfHeader ==
  /\ phase = "parsing"
  /\ LineEnds(line_start) # {} /\ lines # <<>> /\ LineEnd = line_start
  /\ phase' = "parsed" /\ line_start' = LineEnd + 2
  /\ UNCHANGED <<sent, taken, dfa, request, lines>>

Next == ReadHttpRequest \/ RefuseRequest \/ ParseLine \/ EndOfHeader

Spec == Init /\ [][Next]_vars

-----------------------------------------------------------------------------
(* Properties *)

EndsRequest(k) == k >= 4 /\ SubSeq(sent, k - 3, k) = <<"CR", "LF", "CR", "LF">>

\* A request goes to the first CR LF CR LF that the browser sent, wherever the chunks
\* were cut, and no request is taken before that is there.
RequestEndFound ==
  /\ request = SubSeq(sent, 1, Len(request))
  /\ \A k \in 1..Len(request) : EndsRequest(k) => k = Len(request)
  /\ phase \in {"parsing", "parsed"} <=> Len(request) > 0 /\ EndsRequest(Len(request))

\* Lines that are put together again.
Joined(ls) ==
  LET text[k \in 0..Len(ls)] ==
        IF k = 0 THEN <<>> ELSE text[k - 1] \o ls[k] \o <<"CR", "LF">>
  IN text[Len(ls)]

\* Parse always finds another line end in a request it was given, and its lines make up
\* the whole request.
LinesAreTheRequest ==
  /\ phase = "parsing" => LineEnds(line_start) # {}
  /\ phase = "parsed" => request = Joined(lines) \o <<"CR", "LF">>

\* What a browser sends is taken for a request when it is one, and read to its end.
RequestsRead == RequestEndFound /\ LinesAreTheRequest
=============================================================================
