------------------------------ MODULE WebViewer ------------------------------
(***************************************************************************)
(* The web viewer: a process that follows the game as an observer and      *)
(* shows it to browsers.                                                   *)
(*                                                                         *)
(*  - The viewer thread runs ViewerClient::Run and keeps the last state it *)
(*    was sent in field_, under field_mutex_.                              *)
(*  - The web server's thread accepts browsers' connections and gives each *)
(*    to the thread pool (ThreadPool, instantiated with the connections as *)
(*    its tasks).                                                          *)
(*  - A worker runs ClientHandler::Serve: it reads a request from its      *)
(*    blocking socket, answers GET /game_state with field_, and returns.   *)
(*                                                                         *)
(* A state is its id, the answer "null" is 0.  The other URLs answer with  *)
(* constants and are left out, and so is the text of requests: the bytes   *)
(* up to the blank line have arrived (asked) or not.  The process is never *)
(* asked to end: AcceptLoop does not return, so the pool's destructor and  *)
(* its Shutdown are not reached.  It installs no signal handlers, so no    *)
(* call is interrupted.                                                    *)
(***************************************************************************)
EXTENDS Naturals, Sequences, FiniteSets

CONSTANTS
  Workers,      \* the threads of worker_pool
  Connections,  \* the browsers' connections, one request each
  Silent,       \* the connections on which the browser may never send its request
  Impatient,    \* the connections the browser may close before it is answered
  Malformed,    \* the connections with a request that HttpRequest::Parse throws on
  MaxState,     \* bound: the last state of the game
  NoTask

ASSUME WebViewerAssumption ==
  /\ IsFiniteSet(Workers) /\ Workers # {}
  /\ IsFiniteSet(Connections)
  /\ Silent \subseteq Connections /\ Impatient \subseteq Connections
  /\ Malformed \subseteq Connections
  /\ MaxState \in Nat
  /\ NoTask \notin Connections

VARIABLES
  field_,       \* ViewerClient::field_, 0 before the first state
  have_field_,
  phase,        \* how far each connection has come; all are made, and wait to be accepted
  response,     \* what its handler has prepared for it
  asked,        \* the connections whose request has been sent completely
  left,         \* the connections the browser has closed
  answer,       \* what the browser was answered
  since,        \* history: field_ when the request was sent
  \* the variables of worker_pool
  work_queue_, should_quit_, wpc, fn, enqueuing, owner, joined, enqueued, started

viewerVars  == <<field_, have_field_>>
handlerVars == <<phase, response>>
browserVars == <<asked, left, answer, since>>
poolVars    == <<work_queue_, should_quit_, wpc, fn, enqueuing, owner, joined, enqueued, started>>
vars == <<viewerVars, handlerVars, browserVars, poolVars>>

Pool == INSTANCE ThreadPool WITH Tasks <- Connections, Failing <- Malformed

NoAnswer == MaxState + 1

Init ==
  /\ field_ = 0 /\ have_field_ = FALSE
  /\ phase = [c \in Connections |-> "backlog"]
  /\ response = [c \in Connections |-> NoAnswer]
  /\ asked = {} /\ left = {}
  /\ answer = [c \in Connections |-> NoAnswer]
  /\ since = [c \in Connections |-> 0]
  /\ Pool!Init

-----------------------------------------------------------------------------
(* The viewer thread *)

\* A mutation, not the code: the flag is not set with the state.
HaveField_Unset == have_field_
HaveField == TRUE

\* Run: after the handshake, GetNextFieldState takes one STATE after the other.  The
\* first may be any, the others follow each other (ObserverStream).  A failed
\* handshake, FINISH, an unexpected message and the end of the stream all end Run:
\* this step is then never taken again, and field_ goes on being served.
GetNextFieldState ==
  /\ \E s \in 1..MaxState :
       /\ have_field_ => s = field_ + 1
       /\ field_' = s
  /\ have_field_' = HaveField
  /\ UNCHANGED <<handlerVars, browserVars, poolVars>>

-----------------------------------------------------------------------------
(* The browsers *)

\* The last byte of the request is sent.
Ask(c) ==
  /\ phase[c] # "served" /\ c \notin asked \union left
  /\ asked' = asked \union {c}
  /\ since' = [since EXCEPT ![c] = field_]
  /\ UNCHANGED <<viewerVars, handlerVars, left, answer, poolVars>>

\* The browser closes the connection, before or after it has asked.  Once Serve is
\* over, nobody notices.
Leave(c) ==
  /\ c \in Impatient \ left
  /\ phase[c] # "served"
  /\ left' = left \union {c}
  /\ UNCHANGED <<viewerVars, handlerVars, asked, answer, since, poolVars>>

-----------------------------------------------------------------------------
(* The web server's thread: AcceptLoop *)

\* accept, a ClientHandler for the connection, and Enqueue up to its notification.
\* One thread enqueues: the next accept comes after the notification.
Accept(c) ==
  /\ phase[c] = "backlog"
  /\ enqueuing = {}
  /\ Pool!Push(c)
  /\ phase' = [phase EXCEPT ![c] = "queued"]
  /\ UNCHANGED <<viewerVars, response, browserVars>>

\* accept fails when the browser has given up already: the error is printed, and the loop
\* goes on.  A failure that takes no connection, as when there is no descriptor left,
\* changes nothing; the loop tries again, and is taken to succeed in the end.
AcceptFails(c) ==
  /\ phase[c] = "backlog" /\ c \in left
  /\ enqueuing = {}
  /\ phase' = [phase EXCEPT ![c] = "served"]
  /\ UNCHANGED <<viewerVars, response, browserVars, poolVars>>

Notify(c) ==
  /\ Pool!NotifyOne(c)
  /\ UNCHANGED <<viewerVars, handlerVars, browserVars>>

-----------------------------------------------------------------------------
(* A worker: Serve *)

\* The worker waits for work, or wakes up without a reason.
Idle(w) ==
  /\ Pool!Wait(w)
  /\ UNCHANGED <<viewerVars, handlerVars, browserVars>>

Wakeup(w) ==
  /\ Pool!SpuriousWakeup(w)
  /\ UNCHANGED <<viewerVars, handlerVars, browserVars>>

StartServe(w) ==
  /\ Pool!Take(w)
  /\ phase' = [phase EXCEPT ![fn'[w]] = "reading"]
  /\ UNCHANGED <<viewerVars, response, browserVars>>

Serving(w, p) == wpc[w] = "running" /\ phase[fn[w]] = p

\* A mutation, not the code: the end of the stream is not noticed.
HungUp_Ignored(c) == FALSE
\* read returned 0, "Client closed connection before sending request", or an error: a
\* reset discards also what was sent before.
HungUp(c) == c \in left

ReadFails(w) ==
  /\ Serving(w, "reading") /\ HungUp(fn[w])
  /\ phase' = [phase EXCEPT ![fn[w]] = "served"]
  /\ UNCHANGED <<viewerVars, response, browserVars, poolVars>>

\* ReadHttpRequest saw the blank line, but the request cannot be parsed: Serve throws.
ParseThrows(w) ==
  /\ Serving(w, "reading") /\ fn[w] \in asked \intersect Malformed
  /\ phase' = [phase EXCEPT ![fn[w]] = "served"]
  /\ UNCHANGED <<viewerVars, response, browserVars, poolVars>>

\* GameStateHandler: GetField copies field_ and have_field_ under the mutex.
GameStateHandler(w) ==
  /\ Serving(w, "reading") /\ fn[w] \in asked \ Malformed
  /\ response' = [response EXCEPT ![fn[w]] = IF have_field_ THEN field_ ELSE 0]
  /\ phase' = [phase EXCEPT ![fn[w]] = "responding"]
  /\ UNCHANGED <<viewerVars, browserVars, poolVars>>

\* SendHttpResponse; the send fails when the browser is gone.
SendHttpResponse(w) ==
  LET c == fn[w] IN
  /\ Serving(w, "responding")
  /\ answer' = IF c \in left THEN answer ELSE [answer EXCEPT ![c] = response[c]]
  /\ response' = [response EXCEPT ![c] = NoAnswer]
  /\ phase' = [phase EXCEPT ![c] = "served"]
  /\ UNCHANGED <<viewerVars, asked, left, since, poolVars>>

\* Serve returned or threw: Run goes on, and the handler and its socket are gone.
Return(w) ==
  /\ Serving(w, "served")
  /\ Pool!Finish(w)
  /\ UNCHANGED <<viewerVars, handlerVars, browserVars>>

Worker(w) ==
  \/ Idle(w) \/ StartServe(w) \/ ReadFails(w) \/ ParseThrows(w)
  \/ GameStateHandler(w) \/ SendHttpResponse(w) \/ Return(w)

Next ==
  \/ GetNextFieldState
  \/ \E c \in Connections : Ask(c) \/ Leave(c) \/ Accept(c) \/ AcceptFails(c) \/ Notify(c)
  \/ \E w \in Workers : Worker(w) \/ Wakeup(w)

Spec == Init /\ [][Next]_vars

AcceptLoop == \E c \in Connections : Accept(c) \/ AcceptFails(c) \/ Notify(c)

\* The server's threads run, and browsers send what they connected for, except on
\* the silent connections.  Nothing makes the game go on.
Fairness ==
  /\ WF_vars(AcceptLoop)
  /\ \A w \in Workers : WF_vars(Worker(w))
  /\ \A c \in Connections \ Silent : WF_vars(Ask(c))

FairSpec == Spec /\ Fairness

-----------------------------------------------------------------------------
(* Properties *)

\* A browser is answered with a state that was the newest at some moment between its
\* question and the answer, and "null" only while there was none: so a page that polls
\* one request after the other never goes back.
AnswersCurrent ==
  \A c \in Connections : answer[c] # NoAnswer => answer[c] \in since[c]..field_

\* Every request is answered, whatever the other browsers do, as long as there are
\* more workers than connections on which no request comes: those hold a worker each.
RequestsAnswered ==
  \A c \in Connections \ Malformed :
    Cardinality(Silent) < Cardinality(Workers) =>
      (c \in asked ~> answer[c] # NoAnswer \/ c \in left)
=============================================================================
