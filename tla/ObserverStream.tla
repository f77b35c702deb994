--------------------------- MODULE ObserverStream ---------------------------
(***************************************************************************)
(* What the game server promises its observers.  The game advances one     *)
(* state at a time.  An observer may join at any state; it is then given,  *)
(* at its own pace, every later state in turn, beginning with the one the  *)
(* game is at or the next one, and after it has stopped nothing more.      *)
(***************************************************************************)
EXTENDS Naturals

CONSTANTS Observers, MaxStates

VARIABLES
  round,   \* the state the game is at, 0 before the first
  joined,  \* the observers that have joined
  start,   \* per observer, the state the game was at when it joined
  last,    \* per observer, the last state taken, 0 before the first
  over     \* per observer, whether it has stopped

vars == <<round, joined, start, last, over>>

Init ==
  /\ round = 0
  /\ joined = {}
  /\ start = [o \in Observers |-> 0]
  /\ last = [o \in Observers |-> 0]
  /\ over = [o \in Observers |-> FALSE]

Advance ==
  /\ round < MaxStates
  /\ round' = round + 1
  /\ UNCHANGED <<joined, start, last, over>>

Join(o) ==
  /\ o \notin joined
  /\ joined' = joined \union {o}
  /\ start' = [start EXCEPT ![o] = round]
  /\ UNCHANGED <<round, last, over>>

\* The states an observer may be given next.
Due(o) == IF last[o] = 0 THEN {start[o], start[o] + 1} ELSE {last[o] + 1}

Take(o) ==
  /\ o \in joined /\ ~over[o]
  /\ \E s \in Due(o) \intersect (1..round) : last' = [last EXCEPT ![o] = s]
  /\ UNCHANGED <<round, joined, start, over>>

Stop(o) ==
  /\ over' = [over EXCEPT ![o] = TRUE]
  /\ UNCHANGED <<round, joined, start, last>>

Next == Advance \/ \E o \in Observers : Join(o) \/ Take(o) \/ Stop(o)

Spec == Init /\ [][Next]_vars
=============================================================================
