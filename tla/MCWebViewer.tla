----------------------------- MODULE MCWebViewer -----------------------------
(* A small instance of WebViewer for TLC: two workers and three connections, one *)
(* of them silent and one with a request that does not parse, if it is sent at all; *)
(* and, as other systems of the same run, the page that asks them and a worker that *)
(* reads what a browser sends. *)
EXTENDS WebViewer

CONSTANTS
  w1, w2, a, b, s,   \* model values
  PageStates, MaxInFlight, MaxFailures, MaxTimers,
  RequestLen, ReadSize

TwoWorkers == {w1, w2}
ThreeConnections == {a, b, s}
SilentOne == {s}
MalformedOne == {b}

VARIABLES
  subject,   \* the system this behaviour is of
  newest, gameState, picture, board, intervals, intervalId, flights, wanted, failures,
  sent, taken, dfa, request, progress, line_start, lines

Page == INSTANCE WebPage WITH MaxState <- PageStates

pageVars == <<newest, gameState, picture, board, intervals, intervalId, flights, wanted, failures>>

Requests == INSTANCE HttpRequests WITH phase <- progress
requestVars == <<sent, taken, dfa, request, progress, line_start, lines>>
mcVars == <<vars, subject, pageVars, requestVars>>

ASSUME ReadAssumption == Requests!RequestsAssumption

\* All start; only the subject moves.
MCInit ==
  /\ Init /\ Page!Init /\ Requests!Init
  /\ (subject \in {"server", "page"} /\ sent = <<>>) \/ subject = "request"

MCNext ==
  /\ UNCHANGED subject
  /\ \/ subject = "server" /\ Next /\ UNCHANGED <<pageVars, requestVars>>
     \/ subject = "page" /\ Page!Next /\ UNCHANGED <<vars, requestVars>>
     \/ subject = "request" /\ Requests!Next /\ UNCHANGED <<vars, pageVars>>

\* The fairness of each, asked only of its own behaviours.
MCFairness ==
  /\ WF_vars(subject = "server" /\ AcceptLoop)
  /\ \A w \in Workers : WF_vars(subject = "server" /\ Worker(w))
  /\ \A c \in Connections \ Silent : WF_vars(subject = "server" /\ Ask(c))
  /\ WF_pageVars(subject = "page" /\ Page!Tick)
  /\ WF_pageVars(subject = "page" /\ Page!Success(1))

MCSpec == MCInit /\ [][MCNext]_mcVars /\ MCFairness

PageSettles == Page!PageSettles

\* See HttpRequests: a request goes to the first CR LF CR LF, wherever the chunks end,
\* and Parse always finds the next line end in it and loses nothing.
RequestsRead == Requests!RequestsRead
=============================================================================
