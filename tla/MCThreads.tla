----------------------------- MODULE MCThreads -----------------------------
(* Two places where threads wait on a condition variable: a pool of two      *)
(* workers and three tasks, one of which throws, and the Qt client.  A       *)
(* behaviour is of one of them, the other stays in its initial state.        *)
EXTENDS ThreadPool

CONSTANTS w1, w2, t1, t2, t3, Ticks, MaxPosted

TwoWorkers == {w1, w2}
ThreeTasks == {t1, t2, t3}
FailingTask == {t2}

VARIABLES
  subject,  \* "pool" or "qt"
  version, updater, posted, painted, ui

Qt == INSTANCE QtClient
qt_vars == <<version, updater, posted, painted, ui>>

ASSUME TicksAssumption == Qt!QtAssumption

MCInit == subject \in {"pool", "qt"} /\ Init /\ Qt!Init

MCNext ==
  \/ subject = "pool" /\ Next /\ UNCHANGED qt_vars /\ UNCHANGED subject
  \/ subject = "qt" /\ Qt!Next /\ UNCHANGED vars /\ UNCHANGED subject

\* The pool's fairness is ThreadPool!Fairness.  Of the Qt client each thread runs; the
\* user need not close the window.
MCSpec ==
  /\ MCInit /\ [][MCNext]_<<subject, vars, qt_vars>>
  /\ \A w \in Workers : WF_vars(subject = "pool" /\ Worker(w))
  /\ \A t \in Tasks : WF_vars(subject = "pool" /\ NotifyOne(t))
  /\ WF_vars(subject = "pool" /\ Shutdown)
  /\ WF_qt_vars(subject = "qt" /\ Qt!NetworkClient)
  /\ WF_qt_vars(subject = "qt" /\ Qt!UpdaterThread)
  /\ WF_qt_vars(subject = "qt" /\ Qt!MainThread)

\* See QtClient: every change is followed by a picture of it or of a later one.
PictureCatchesUp == Qt!PictureCatchesUp

\* See QtClient: the process ends once its window is closed.
ProcessEnds == Qt!ProcessEnds
=============================================================================
