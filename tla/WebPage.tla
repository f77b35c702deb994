------------------------------ MODULE WebPage ------------------------------
(***************************************************************************)
(* The page of the web UI, app.js: every 100 ms it asks for /game_state,   *)
(* whether or not the last request was answered, and draws what it gets.    *)
(* Its requests go over different connections to different workers, so     *)
(* that answers overtake each other.                                       *)
(*                                                                         *)
(* Of the server it relies on what WebViewer shows: an answer carries a     *)
(* state that was the newest at some moment since the request.  A state is  *)
(* its number, and 0 is null, which is sent before the first state.         *)
(***************************************************************************)
EXTENDS Naturals, Sequences, SequencesExt

CONSTANTS
  MaxState,     \* bound: states of the game
  MaxInFlight,  \* bound: requests of the page not answered yet
  MaxFailures,  \* bound: requests that ever fail
  MaxTimers     \* bound: timers that run at once; the code has one

VARIABLES
  newest,      \* the viewer client's field_
  gameState,   \* the page's global variable
  picture,     \* the state on the canvas
  board,       \* the state of the score board
  intervals,   \* timers that setInterval started and nobody cleared
  intervalId,  \* intervalId is not null
  flights,     \* requests not answered: what was newest when they were sent
  wanted,      \* history: the last button was "start"
  failures     \* requests that failed

page_vars == <<newest, gameState, picture, board, intervals, intervalId, flights, wanted, failures>>

Init ==
  /\ newest = 0 /\ gameState = 0 /\ picture = 0 /\ board = 0
  /\ intervals = 0 /\ intervalId = FALSE /\ flights = <<>>
  /\ wanted = FALSE /\ failures = 0

\* The viewer client stores another state.
Publish ==
  /\ newest < MaxState
  /\ newest' = newest + 1
  /\ UNCHANGED <<gameState, picture, board, intervals, intervalId, flights, wanted, failures>>

\* A mutation, not the code: each click starts a timer.
Starts_Always == TRUE
Starts == ~intervalId

StartUpdating ==
  /\ wanted' = TRUE
  /\ IF Starts THEN intervals' = intervals + 1 /\ intervalId' = TRUE
     ELSE UNCHANGED <<intervals, intervalId>>
  /\ intervals' <= MaxTimers
  /\ UNCHANGED <<newest, gameState, picture, board, flights, failures>>

StopUpdating ==
  /\ wanted' = FALSE
  /\ IF intervalId THEN intervals' = intervals - 1 /\ intervalId' = FALSE
     ELSE UNCHANGED <<intervals, intervalId>>
  /\ UNCHANGED <<newest, gameState, picture, board, flights, failures>>

\* A timer's function.
Tick ==
  /\ intervals > 0 /\ Len(flights) < MaxInFlight
  /\ flights' = Append(flights, newest)
  /\ UNCHANGED <<newest, gameState, picture, board, intervals, intervalId, wanted, failures>>

\* drawGameState: the score board always, the canvas only if there is a state.
DrawGameState(canvas) ==
  /\ board' = gameState'
  /\ picture' = IF gameState' = 0 THEN canvas ELSE gameState'

\* The i-th request succeeds.
Success(i) ==
  /\ i \in DOMAIN flights
  /\ gameState' \in flights[i]..newest
  /\ DrawGameState(picture)
  /\ flights' = RemoveAt(flights, i)
  /\ UNCHANGED <<newest, intervals, intervalId, wanted, failures>>

\* It fails, and nothing is called.
Failure(i) ==
  /\ i \in DOMAIN flights /\ failures < MaxFailures
  /\ failures' = failures + 1
  /\ flights' = RemoveAt(flights, i)
  /\ UNCHANGED <<newest, gameState, picture, board, intervals, intervalId, wanted>>

\* updateCanvasSize: a canvas that is given a size is blank.
UpdateCanvasSize ==
  /\ UNCHANGED gameState
  /\ DrawGameState(0)
  /\ UNCHANGED <<newest, intervals, intervalId, flights, wanted, failures>>

Next ==
  \/ Publish \/ StartUpdating \/ StopUpdating \/ Tick \/ UpdateCanvasSize
  \/ \E i \in 1..MaxInFlight : Success(i) \/ Failure(i)

\* Timers run, and no request waits for ever.
Fairness == WF_page_vars(Tick) /\ WF_page_vars(Success(1))

-----------------------------------------------------------------------------
(* Properties *)

\* Though answers overtake each other and pictures may go back, a page that keeps
\* updating ends on the current state, canvas and score board, when the game stands
\* still; one that was stopped goes quiet, however often the buttons were clicked.
PageSettles ==
  /\ \A n \in 0..MaxState :
       <>[](wanted /\ newest = n) => <>[](picture = n /\ board = n)
  /\ <>[](~wanted) => <>[](flights = <<>>)
=============================================================================
