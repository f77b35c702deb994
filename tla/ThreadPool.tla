----------------------------- MODULE ThreadPool -----------------------------
(***************************************************************************)
(* ab::ThreadPool, the pool that serves the web viewer's HTTP connections. *)
(*                                                                         *)
(* Each critical section under mutex_ is one step.  What lies between the  *)
(* critical sections is a step of its own: Enqueue notifies after it has   *)
(* released the mutex, Shutdown notifies and joins after it has set        *)
(* should_quit_.  Waiting on has_more_work_ releases the mutex in the same *)
(* step; a woken worker takes the mutex again and looks at the predicate   *)
(* anew, and may also wake up for no reason.                               *)
(***************************************************************************)
EXTENDS Naturals, Sequences, FiniteSets

CONSTANTS
  Workers,  \* the threads of workers_
  Tasks,    \* the functions ever given to Enqueue, each once
  Failing,  \* the tasks that throw
  NoTask    \* a WorkerFunction before anything is assigned to it

ASSUME PoolAssumption ==
  /\ IsFiniteSet(Workers) /\ Workers # {}
  /\ IsFiniteSet(Tasks)
  /\ Failing \subseteq Tasks
  /\ NoTask \notin Tasks

VARIABLES
  work_queue_,
  should_quit_,
  wpc,        \* control state of each worker
  fn,         \* what each worker took from the queue
  enqueuing,  \* the tasks whose Enqueue has pushed and not yet notified
  owner,      \* control state of the thread that calls the destructor
  joined,     \* the workers Shutdown has joined
  enqueued,   \* history: the tasks pushed, in order
  started     \* history: the tasks taken, in order

vars == <<work_queue_, should_quit_, wpc, fn, enqueuing, owner, joined, enqueued, started>>

Init ==
  /\ work_queue_ = <<>>
  /\ should_quit_ = FALSE
  /\ wpc = [w \in Workers |-> "dequeue"]
  /\ fn = [w \in Workers |-> NoTask]
  /\ enqueuing = {}
  /\ owner = "using"
  /\ joined = {}
  /\ enqueued = <<>>
  /\ started = <<>>

At(pc) == {w \in Workers : wpc[w] = pc}
Waiting == At("waiting")

-----------------------------------------------------------------------------
(* Enqueue *)

\* A task is given to Enqueue at most once, and never after the destructor began.
Push(t) ==
  /\ owner = "using"
  /\ \A i \in DOMAIN enqueued : enqueued[i] # t
  /\ work_queue_' = Append(work_queue_, t)
  /\ enqueued' = Append(enqueued, t)
  /\ enqueuing' = enqueuing \union {t}
  /\ UNCHANGED <<should_quit_, wpc, fn, owner, joined, started>>

\* A mutation, not the code: only the push into an empty queue notifies.
NeedsNotify_FirstOnly == Len(work_queue_) = 1
NeedsNotify == TRUE

\* has_more_work_.notify_one(): one of the waiting workers, if there is one.
NotifyOne(t) ==
  /\ t \in enqueuing
  /\ enqueuing' = enqueuing \ {t}
  /\ \/ /\ Waiting # {} /\ NeedsNotify
        /\ \E w \in Waiting : wpc' = [wpc EXCEPT ![w] = "dequeue"]
     \/ /\ ~(Waiting # {} /\ NeedsNotify)
        /\ UNCHANGED wpc
  /\ UNCHANGED <<work_queue_, should_quit_, fn, owner, joined, enqueued, started>>

-----------------------------------------------------------------------------
(* A worker: Run *)

SpuriousWakeup(w) ==
  /\ wpc[w] = "waiting"
  /\ wpc' = [wpc EXCEPT ![w] = "dequeue"]
  /\ UNCHANGED <<work_queue_, should_quit_, fn, enqueuing, owner, joined, enqueued, started>>

\* WorkerDequeue: nothing to do yet.
Wait(w) ==
  /\ wpc[w] = "dequeue"
  /\ ~should_quit_ /\ work_queue_ = <<>>
  /\ wpc' = [wpc EXCEPT ![w] = "waiting"]
  /\ UNCHANGED <<work_queue_, should_quit_, fn, enqueuing, owner, joined, enqueued, started>>

\* A mutation, not the code: the newest task is taken.
NextTask_Newest == work_queue_[Len(work_queue_)]
NextTask == Head(work_queue_)

\* WorkerDequeue: a task is taken.
Take(w) ==
  /\ wpc[w] = "dequeue"
  /\ ~should_quit_ /\ work_queue_ # <<>>
  /\ fn' = [fn EXCEPT ![w] = NextTask]
  /\ work_queue_' = Tail(work_queue_)
  /\ started' = Append(started, NextTask)
  /\ wpc' = [wpc EXCEPT ![w] = "running"]
  /\ UNCHANGED <<should_quit_, enqueuing, owner, joined, enqueued>>

\* WorkerDequeue returned false: the thread function returns.  The tasks still in
\* the queue are never run.
Quit(w) ==
  /\ wpc[w] = "dequeue"
  /\ should_quit_
  /\ wpc' = [wpc EXCEPT ![w] = "exited"]
  /\ UNCHANGED <<work_queue_, should_quit_, fn, enqueuing, owner, joined, enqueued, started>>

\* A mutation, not the code: an exception ends the thread function.
AfterTask_Escapes(t) == IF t \in Failing THEN "exited" ELSE "dequeue"
\* fn() returned, or threw and Run caught it: the loop goes on.
AfterTask(t) == "dequeue"

Finish(w) ==
  /\ wpc[w] = "running"
  /\ wpc' = [wpc EXCEPT ![w] = AfterTask(fn[w])]
  /\ fn' = [fn EXCEPT ![w] = NoTask]
  /\ UNCHANGED <<work_queue_, should_quit_, enqueuing, owner, joined, enqueued, started>>

Worker(w) == Wait(w) \/ Take(w) \/ Quit(w) \/ Finish(w)

-----------------------------------------------------------------------------
(* Shutdown, called by the destructor when no Enqueue is in progress *)

SetShouldQuit ==
  /\ owner = "using" /\ enqueuing = {}
  /\ should_quit_' = TRUE
  /\ owner' = "notifying"
  /\ UNCHANGED <<work_queue_, wpc, fn, enqueuing, joined, enqueued, started>>

\* A mutation, not the code: notify_one.
Notified_One == IF Waiting = {} THEN {} ELSE {CHOOSE w \in Waiting : TRUE}
Notified == Waiting

\* has_more_work_.notify_all()
NotifyAll ==
  /\ owner = "notifying"
  /\ wpc' = [w \in Workers |-> IF w \in Notified THEN "dequeue" ELSE wpc[w]]
  /\ owner' = "joining"
  /\ UNCHANGED <<work_queue_, should_quit_, fn, enqueuing, joined, enqueued, started>>

\* thread.join() for each worker; then workers_.clear().
Join ==
  /\ owner = "joining"
  /\ \E w \in Workers \ joined :
       /\ wpc[w] = "exited"
       /\ joined' = joined \union {w}
       /\ owner' = IF joined' = Workers THEN "done" ELSE "joining"
  /\ UNCHANGED <<work_queue_, should_quit_, wpc, fn, enqueuing, enqueued, started>>

Shutdown == NotifyAll \/ Join

Next ==
  \/ \E t \in Tasks : Push(t) \/ NotifyOne(t)
  \/ \E w \in Workers : SpuriousWakeup(w) \/ Worker(w)
  \/ SetShouldQuit \/ Shutdown

Spec == Init /\ [][Next]_vars

\* Every thread is scheduled and every task returns or throws.  Nothing makes a
\* caller enqueue a task, destroy the pool, or a waiting thread wake up by itself.
Fairness ==
  /\ \A w \in Workers : WF_vars(Worker(w))
  /\ \A t \in Tasks : WF_vars(NotifyOne(t))
  /\ WF_vars(Shutdown)

FairSpec == Spec /\ Fairness

-----------------------------------------------------------------------------
(* Properties *)

TypeOK ==
  /\ work_queue_ \in Seq(Tasks)
  /\ should_quit_ \in BOOLEAN
  /\ wpc \in [Workers -> {"dequeue", "waiting", "running", "exited"}]
  /\ fn \in [Workers -> Tasks \union {NoTask}]
  /\ enqueuing \subseteq Tasks
  /\ owner \in {"using", "notifying", "joining", "done"}
  /\ joined \subseteq Workers
  /\ enqueued \in Seq(Tasks)
  /\ started \in Seq(Tasks)

\* Tasks are started in the order in which Enqueue pushed them, each at most once,
\* and none disappears: the started ones and the queue make up what was enqueued.
QueueOrder == started \o work_queue_ = enqueued

\* No wakeup is lost: while a worker sleeps, each queued task has a notify_one still
\* to come or an awake worker about to look at the queue (WorkerDequeue tests its
\* predicate under the mutex, Enqueue notifies after releasing it).  And nobody sleeps
\* once the destructor waits for the workers.
NoLostWakeup ==
  /\ Waiting # {} /\ ~should_quit_ =>
       Len(work_queue_) <= Cardinality(enqueuing) + Cardinality(At("dequeue"))
  /\ owner \in {"joining", "done"} => Waiting = {}

\* An exception in a task never costs the pool a worker: threads exit only after
\* the destructor has set should_quit_, and all have before it returns.
WorkersSurvive ==
  /\ At("exited") # {} => should_quit_
  /\ owner = "done" => At("exited") = Workers

\* A queued task is started, unless the pool is destroyed first.
EveryTaskStarts ==
  \A t \in Tasks :
    (\E i \in DOMAIN enqueued : enqueued[i] = t)
      ~> ((\E i \in DOMAIN started : started[i] = t) \/ should_quit_)

\* The destructor returns: every sleeping worker hears notify_all.
ShutdownReturns == should_quit_ ~> owner = "done"
=============================================================================
