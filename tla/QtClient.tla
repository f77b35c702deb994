------------------------------ MODULE QtClient ------------------------------
(***************************************************************************)
(* The Qt client's three threads and the UiGameClientIpc they share.       *)
(* network_client changes it and notifies; the updater thread asks the UI  *)
(* thread for a repaint after each wakeup; paintEvent reads it.  All three *)
(* hold the mutex for it, and the updater lets go of it only in cv.wait.   *)
(*                                                                         *)
(* What is shared is a version: 1 while connecting, 2 when connected, one  *)
(* more with each tick, and Disconnected.                                  *)
(***************************************************************************)
EXTENDS Naturals

CONSTANTS
  Ticks,      \* field updates before the connection ends, 499 in the code
  MaxPosted   \* bound: no spurious wakeup while so many calls are queued

\* The module that instantiates this one assumes it.
QtAssumption == Ticks \in Nat

Disconnected == Ticks + 3

VARIABLES
  version,   \* connection_state, field_counter and current_field
  updater,   \* the updater thread: "top", "posted", "waiting" in cv.wait, "woken" or "ended"
  posted,    \* updateFieldView calls queued for the UI thread
  painted,   \* the version painted last, 0 before the first
  ui         \* the main thread: "starting", "exec", "joining" or "ended"

qt_vars == <<version, updater, posted, painted, ui>>

Init == version = 1 /\ updater = "top" /\ posted = 0 /\ painted = 0 /\ ui = "starting"

\* Of the three only the updater holds the mutex from one step to the next.
MutexFree == updater # "posted"

\* A mutation, not the code: the last change is not notified.
Notifies_Fields(v) == v # Disconnected
Notifies(v) == TRUE

\* network_client: connected, 499 ticks, disconnected.
NetworkClient ==
  /\ MutexFree /\ version < Disconnected
  /\ version' = version + 1
  /\ updater' = IF Notifies(version') /\ updater = "waiting" THEN "woken" ELSE updater
  /\ UNCHANGED <<posted, painted, ui>>

SpuriousWakeup ==
  /\ updater = "waiting" /\ posted < MaxPosted
  /\ updater' = "woken"
  /\ UNCHANGED <<version, posted, painted, ui>>

\* A mutation, not the code: the thread returns before it asks for the last repaint.
Posts_Unless(v) == v # Disconnected
\* invokeMethod from another thread queues the call and returns.
Posts(v) == TRUE

Invoke ==
  /\ updater \in {"top", "woken"}
  /\ posted' = IF Posts(version) THEN posted + 1 ELSE posted
  /\ updater' = "posted"
  /\ UNCHANGED <<version, painted, ui>>

ReturnOrWait ==
  /\ updater = "posted"
  /\ updater' = IF version = Disconnected THEN "ended" ELSE "waiting"
  /\ UNCHANGED <<version, posted, painted, ui>>

\* fieldView.show(), and the paint event that follows.
Show ==
  /\ ui = "starting" /\ MutexFree
  /\ ui' = "exec" /\ painted' = version
  /\ UNCHANGED <<version, updater, posted>>

UpdateFieldView ==
  /\ ui = "exec" /\ posted > 0 /\ MutexFree
  /\ posted' = posted - 1 /\ painted' = version
  /\ UNCHANGED <<version, updater, ui>>

\* The window is closed, and app.exec() returns.
CloseWindow ==
  /\ ui = "exec" /\ ui' = "joining"
  /\ UNCHANGED <<version, updater, posted, painted>>

\* The two joins, and the end of main.
Join ==
  /\ ui = "joining" /\ updater = "ended" /\ version = Disconnected
  /\ ui' = "ended"
  /\ UNCHANGED <<version, updater, posted, painted>>

UpdaterThread == Invoke \/ ReturnOrWait
MainThread == Show \/ UpdateFieldView \/ Join

Next == NetworkClient \/ SpuriousWakeup \/ UpdaterThread \/ MainThread \/ CloseWindow

Spec == Init /\ [][Next]_qt_vars

-----------------------------------------------------------------------------
(* Properties *)

\* Every change is followed by a picture of it or of a later one, the disconnection
\* included, as long as the window is open.
PictureCatchesUp ==
  \A v \in 1..Disconnected :
    version >= v /\ ui = "exec" ~> painted >= v \/ ui # "exec"

\* The process ends after its window was closed, whichever thread was where.
ProcessEnds == ui = "joining" ~> ui = "ended"
=============================================================================
