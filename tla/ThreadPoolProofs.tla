-------------------------- MODULE ThreadPoolProofs --------------------------
(***************************************************************************)
(* Proofs about ThreadPool for every number of workers and every finite    *)
(* set of tasks.                                                           *)
(*                                                                         *)
(* QueueOrder is inductive together with the types, and WorkersSurvive with *)
(* where the destructor is (Ending).                                        *)
(* NoLostWakeup compares the queue with the number of pending notifications *)
(* and of awake workers, so its proof follows these numbers through every  *)
(* step; it needs in addition that a pending notification belongs to a task *)
(* that was pushed (NotifiersPushed).                                      *)
(***************************************************************************)
EXTENDS MCThreads, FiniteSetTheorems, SequenceTheorems, TLAPS

QuitFirst == At("exited") # {} => should_quit_

\* What the destructor has done: it joins threads that have left their loop.
Ending ==
  /\ owner = "using" <=> ~should_quit_
  /\ joined \subseteq At("exited")
  /\ owner = "done" => joined = Workers

\* NoLostWakeup is added to it further down, with the invariant it needs itself.
IInv == TypeOK /\ QueueOrder /\ QuitFirst /\ Ending

-----------------------------------------------------------------------------

\* The pool starts with an empty queue and every worker at WorkerDequeue.
LEMMA InitIInv == Init => IInv
<1> SUFFICES ASSUME Init PROVE IInv
  OBVIOUS
<1>1. TypeOK
  <2>1. should_quit_ \in BOOLEAN
    BY DEF Init
  <2>2. /\ work_queue_ \in Seq(Tasks) /\ enqueued \in Seq(Tasks) /\ started \in Seq(Tasks)
        /\ enqueuing \subseteq Tasks /\ joined \subseteq Workers
    BY DEF Init
  <2>3. /\ wpc \in [Workers -> {"dequeue", "waiting", "running", "exited"}]
        /\ fn \in [Workers -> Tasks \union {NoTask}]
        /\ owner \in {"using", "notifying", "joining", "done"}
    BY DEF Init
  <2> QED
    BY <2>1, <2>2, <2>3 DEF TypeOK
<1>2. QueueOrder
  BY DEF Init, QueueOrder
<1>3. QuitFirst
  BY DEF Init, QuitFirst, At
<1>4. Ending
  BY DEF Init, Ending
<1> QED
  BY <1>1, <1>2, <1>3, <1>4 DEF IInv

\* Taking the first task moves it from the queue to the end of the started ones.
LEMMA HeadMoves ==
  ASSUME NEW s \in Seq(Tasks), NEW q \in Seq(Tasks), q # <<>>
  PROVE  Append(s, Head(q)) \o Tail(q) = s \o q
OBVIOUS

\* Pushing a task puts it at the end of what was started and queued.
LEMMA PushMoves ==
  ASSUME NEW s \in Seq(Tasks), NEW q \in Seq(Tasks), NEW t \in Tasks
  PROVE  s \o Append(q, t) = Append(s \o q, t)
OBVIOUS

-----------------------------------------------------------------------------
(* The steps *)

\* The parts of TypeOK that a step of the kinds below can change.
QueueTypes == work_queue_ \in Seq(Tasks) /\ enqueued \in Seq(Tasks) /\ started \in Seq(Tasks)
WorkerTypes ==
  /\ wpc \in [Workers -> {"dequeue", "waiting", "running", "exited"}]
  /\ fn \in [Workers -> Tasks \union {NoTask}]
OwnerTypes ==
  /\ enqueuing \subseteq Tasks /\ joined \subseteq Workers
  /\ owner \in {"using", "notifying", "joining", "done"}

\* TypeOK is the conjunction of these parts.
LEMMA TypeParts ==
  TypeOK <=> QueueTypes /\ WorkerTypes /\ OwnerTypes /\ should_quit_ \in BOOLEAN
BY DEF TypeOK, QueueTypes, WorkerTypes, OwnerTypes

\* Enqueue: the push and the notification.
LEMMA EnqueueIInv ==
  ASSUME IInv, NEW t \in Tasks, Push(t) \/ NotifyOne(t)
  PROVE  IInv'
<1>0. QueueTypes /\ WorkerTypes /\ OwnerTypes /\ QueueOrder /\ QuitFirst /\ Ending
  BY TypeParts DEF IInv
<1>1. fn' = fn /\ owner' = owner /\ joined' = joined /\ should_quit_' = should_quit_
  BY DEF Push, NotifyOne
<1>2. QueueTypes' /\ QueueOrder'
  <2>1. CASE Push(t)
    BY <1>0, <2>1, PushMoves DEF Push, QueueTypes, QueueOrder
  <2>2. CASE NotifyOne(t)
    BY <1>0, <2>2 DEF NotifyOne, QueueTypes, QueueOrder
  <2> QED
    BY <2>1, <2>2
<1>3. wpc' = wpc \/ \E w \in Workers : wpc' = [wpc EXCEPT ![w] = "dequeue"]
  BY DEF Push, NotifyOne, Waiting, At
<1>4. WorkerTypes' /\ QuitFirst'
  BY <1>0, <1>1, <1>3 DEF WorkerTypes, QuitFirst, At
<1>5. OwnerTypes'
  BY <1>0, <1>1 DEF Push, NotifyOne, OwnerTypes
<1>6. (should_quit_ \in BOOLEAN)'
  BY <1>1 DEF IInv, TypeOK
<1>7. Ending'
  <2>1. \A w \in Workers : wpc[w] = "exited" => wpc'[w] = "exited"
    BY <1>0 DEF Push, NotifyOne, Waiting, At, WorkerTypes
  <2> QED
    BY <1>0, <1>1, <2>1 DEF Ending, At
<1> QED
  BY <1>2, <1>4, <1>5, <1>6, <1>7, TypeParts DEF IInv, TypeOK, QueueTypes, WorkerTypes, OwnerTypes

\* A worker: only Take touches the queue, only Quit leaves the loop.
LEMMA WorkerIInv ==
  ASSUME IInv, NEW w \in Workers, SpuriousWakeup(w) \/ Worker(w)
  PROVE  IInv'
<1>0. QueueTypes /\ WorkerTypes /\ OwnerTypes /\ QueueOrder /\ QuitFirst /\ Ending
  BY TypeParts DEF IInv
<1>1. /\ should_quit_' = should_quit_ /\ enqueuing' = enqueuing /\ owner' = owner
      /\ joined' = joined /\ enqueued' = enqueued
  BY DEF SpuriousWakeup, Worker, Wait, Take, Quit, Finish
<1>2. QueueTypes' /\ QueueOrder'
  <2>1. CASE Take(w)
    <3>1. Head(work_queue_) \in Tasks /\ Tail(work_queue_) \in Seq(Tasks)
      BY <1>0, <2>1 DEF Take, QueueTypes
    <3>2. started' = Append(started, Head(work_queue_)) /\ work_queue_' = Tail(work_queue_)
      BY <2>1 DEF Take, NextTask
    <3>3. started' \o work_queue_' = started \o work_queue_
      BY <1>0, <2>1, <3>2, HeadMoves DEF Take, QueueTypes
    <3> QED
      BY <1>0, <1>1, <3>1, <3>2, <3>3 DEF QueueTypes, QueueOrder
  <2>2. CASE SpuriousWakeup(w) \/ Wait(w) \/ Quit(w) \/ Finish(w)
    BY <1>0, <1>1, <2>2 DEF SpuriousWakeup, Wait, Quit, Finish, QueueTypes, QueueOrder
  <2> QED
    BY <2>1, <2>2 DEF Worker
<1>3. /\ \E pc \in {"dequeue", "waiting", "running", "exited"} :
           wpc' = [wpc EXCEPT ![w] = pc] /\ (pc = "exited" => should_quit_)
      /\ \E t \in Tasks \union {NoTask} : fn' = [fn EXCEPT ![w] = t] \/ fn' = fn
  <2>1. CASE Take(w)
    <3>1. Head(work_queue_) \in Tasks
      BY <1>0, <2>1 DEF Take, QueueTypes
    <3> QED
      BY <2>1, <3>1 DEF Take, NextTask
  <2>2. CASE SpuriousWakeup(w) \/ Wait(w) \/ Quit(w) \/ Finish(w)
    BY <2>2 DEF SpuriousWakeup, Wait, Quit, Finish, AfterTask
  <2> QED
    BY <2>1, <2>2 DEF Worker
<1>4. WorkerTypes'
  BY <1>0, <1>3 DEF WorkerTypes
<1>5. QuitFirst'
  BY <1>0, <1>1, <1>3 DEF WorkerTypes, QuitFirst, At
<1>6. OwnerTypes' /\ (should_quit_ \in BOOLEAN)'
  BY <1>0, <1>1 DEF OwnerTypes, IInv, TypeOK
<1>7. Ending'
  <2>1. \A u \in Workers : wpc[u] = "exited" => wpc'[u] = "exited"
    <3>1. wpc[w] # "exited"
      BY DEF SpuriousWakeup, Worker, Wait, Take, Quit, Finish
    <3> QED
      BY <1>0, <1>3, <3>1 DEF WorkerTypes
  <2> QED
    BY <1>0, <1>1, <2>1 DEF Ending, At
<1> QED
  BY <1>2, <1>4, <1>5, <1>6, <1>7, TypeParts DEF IInv, TypeOK, QueueTypes, WorkerTypes, OwnerTypes

\* Shutdown sets should_quit_ and never clears it; notify_all only wakes.
LEMMA ShutdownIInv ==
  ASSUME IInv, SetShouldQuit \/ Shutdown
  PROVE  IInv'
<1>0. QueueTypes /\ WorkerTypes /\ OwnerTypes /\ QueueOrder /\ QuitFirst /\ Ending
  BY TypeParts DEF IInv
<1>1. /\ work_queue_' = work_queue_ /\ enqueued' = enqueued /\ started' = started
      /\ fn' = fn /\ enqueuing' = enqueuing
  BY DEF SetShouldQuit, Shutdown, NotifyAll, Join
<1>2. QueueTypes' /\ QueueOrder'
  BY <1>0, <1>1 DEF QueueTypes, QueueOrder
<1>3. (should_quit_ \in BOOLEAN)' /\ (should_quit_ => should_quit_')
  BY DEF IInv, TypeOK, SetShouldQuit, Shutdown, NotifyAll, Join
<1>4. WorkerTypes' /\ At("exited")' \subseteq At("exited")
  <2>1. CASE NotifyAll
    BY <1>0, <1>1, <2>1 DEF NotifyAll, Notified, Waiting, At, WorkerTypes
  <2>2. CASE SetShouldQuit \/ Join
    BY <1>0, <1>1, <2>2 DEF SetShouldQuit, Join, At, WorkerTypes
  <2> QED
    BY <2>1, <2>2 DEF Shutdown
<1>5. QuitFirst'
  BY <1>0, <1>3, <1>4 DEF QuitFirst
<1>6. OwnerTypes'
  BY <1>0, <1>1 DEF OwnerTypes, SetShouldQuit, Shutdown, NotifyAll, Join
<1>7. Ending'
  <2>1. CASE SetShouldQuit
    BY <1>0, <2>1 DEF SetShouldQuit, Ending, At
  <2>2. CASE NotifyAll
    <3>1. \A w \in Workers : wpc[w] = "exited" => wpc'[w] = "exited"
      BY <2>2 DEF NotifyAll, Notified, Waiting, At
    <3>2. joined' = joined /\ should_quit_' = should_quit_ /\ owner = "notifying" /\ owner' = "joining"
      BY <2>2 DEF NotifyAll
    <3> QED
      BY <1>0, <3>1, <3>2 DEF Ending, At
  <2>3. CASE Join
    <3>1. PICK w \in Workers \ joined :
            /\ wpc[w] = "exited" /\ joined' = joined \union {w}
            /\ owner' = IF joined' = Workers THEN "done" ELSE "joining"
      BY <2>3 DEF Join
    <3>2. owner = "joining" /\ wpc' = wpc /\ should_quit_' = should_quit_
      BY <2>3 DEF Join
    <3> QED
      BY <1>0, <3>1, <3>2 DEF Ending, At
  <2> QED
    BY <2>1, <2>2, <2>3 DEF Shutdown
<1> QED
  BY <1>2, <1>3, <1>4, <1>5, <1>6, <1>7, TypeParts DEF IInv, TypeOK, QueueTypes, WorkerTypes, OwnerTypes

\* Every step of the pool.
LEMMA NextIInv == IInv /\ [Next]_vars => IInv'
<1> SUFFICES ASSUME IInv, [Next]_vars PROVE IInv'
  OBVIOUS
<1>1. CASE \E t \in Tasks : Push(t) \/ NotifyOne(t)
  BY <1>1, EnqueueIInv
<1>2. CASE \E w \in Workers : SpuriousWakeup(w) \/ Worker(w)
  BY <1>2, WorkerIInv
<1>3. CASE SetShouldQuit \/ Shutdown
  BY <1>3, ShutdownIInv
<1>4. CASE UNCHANGED vars
  BY <1>4 DEF vars, IInv, TypeOK, QueueOrder, QuitFirst, Ending, At
<1> QED
  BY <1>1, <1>2, <1>3, <1>4 DEF Next

-----------------------------------------------------------------------------

\* The strengthened invariant holds in every reachable state of the pool.
THEOREM Invariance == Spec => []IInv
BY InitIInv, NextIInv, PTL DEF Spec

\* Every variable of the pool keeps its type, the queue and the histories included.
THEOREM TypeCorrect == Spec => []TypeOK
BY Invariance, PTL DEF IInv

\* Enqueue and WorkerDequeue keep the order of the tasks and lose none, for any
\* number of workers and tasks.
THEOREM TasksInOrder == Spec => []QueueOrder
BY Invariance, PTL DEF IInv

\* No throwing task ends a thread: Run leaves its loop only after Shutdown began, and the
\* destructor returns, with the queue and its mutex gone, only after every thread has.
THEOREM ThreadsStay == Spec => []WorkersSurvive
<1>1. IInv => WorkersSurvive
  BY DEF IInv, QuitFirst, Ending, WorkersSurvive, At
<1> QED
  BY <1>1, Invariance, PTL

-----------------------------------------------------------------------------
(* No lost wakeup *)

\* The two halves of NoLostWakeup.
TasksHeard ==
  Waiting # {} /\ ~should_quit_ =>
    Len(work_queue_) <= Cardinality(enqueuing) + Cardinality(At("dequeue"))
ShutdownHeard == owner \in {"joining", "done"} => Waiting = {}

\* A task whose notification is still to come has been pushed: so the next push,
\* of a task never pushed before, adds one to the pending notifications.
NotifiersPushed == \A t \in enqueuing : \E i \in DOMAIN enqueued : enqueued[i] = t

\* The workers in one control state are finitely many.
LEMMA WorkersCounted ==
  ASSUME TypeOK, NEW pc
  PROVE  IsFiniteSet(At(pc)) /\ Cardinality(At(pc)) \in Nat
BY PoolAssumption, FS_Subset, FS_CardinalityType DEF At

\* The pending notifications are finitely many.
LEMMA NotifiersCounted ==
  ASSUME TypeOK
  PROVE  IsFiniteSet(enqueuing) /\ Cardinality(enqueuing) \in Nat
BY PoolAssumption, FS_Subset, FS_CardinalityType DEF TypeOK

\* A worker that comes back to WorkerDequeue is one awake worker more.
LEMMA OneMoreAwake ==
  ASSUME TypeOK, NEW w \in Workers, wpc[w] # "dequeue",
         wpc' = [wpc EXCEPT ![w] = "dequeue"]
  PROVE  Cardinality(At("dequeue")') = Cardinality(At("dequeue")) + 1
<1>1. At("dequeue")' = At("dequeue") \cup {w} /\ w \notin At("dequeue")
  BY DEF At, TypeOK
<1> QED
  BY <1>1, WorkersCounted, FS_AddElement

\* A worker that leaves WorkerDequeue is one awake worker less.
LEMMA OneLessAwake ==
  ASSUME TypeOK, NEW w \in Workers, wpc[w] = "dequeue",
         NEW pc, pc # "dequeue", wpc' = [wpc EXCEPT ![w] = pc]
  PROVE  Cardinality(At("dequeue")') = Cardinality(At("dequeue")) - 1
<1>1. At("dequeue")' = At("dequeue") \ {w} /\ w \in At("dequeue")
  BY DEF At, TypeOK
<1> QED
  BY <1>1, WorkersCounted, FS_RemoveElement

\* Push adds the task to both, and nothing is removed from what was pushed.
LEMMA NotifiersStep == IInv /\ NotifiersPushed /\ [Next]_vars => NotifiersPushed'
<1> SUFFICES ASSUME IInv, NotifiersPushed, [Next]_vars PROVE NotifiersPushed'
  OBVIOUS
<1>0. enqueued \in Seq(Tasks)
  BY DEF IInv, TypeOK
<1>1. ASSUME NEW t \in Tasks, Push(t) PROVE NotifiersPushed'
  <2>1. enqueued' = Append(enqueued, t) /\ enqueuing' = enqueuing \union {t}
    BY <1>1 DEF Push
  <2>2. /\ DOMAIN enqueued' = 1 .. Len(enqueued) + 1
        /\ enqueued'[Len(enqueued) + 1] = t
        /\ \A i \in DOMAIN enqueued : enqueued'[i] = enqueued[i] /\ i \in DOMAIN enqueued'
        /\ Len(enqueued) + 1 \in DOMAIN enqueued'
    BY <1>0, <2>1
  <2> QED
    BY <2>1, <2>2 DEF NotifiersPushed
<1>2. ASSUME NEW t \in Tasks, NotifyOne(t) PROVE NotifiersPushed'
  BY <1>2 DEF NotifyOne, NotifiersPushed
<1>3. CASE UNCHANGED <<enqueuing, enqueued>>
  BY <1>3 DEF NotifiersPushed
<1>4. ASSUME NEW w \in Workers, SpuriousWakeup(w) \/ Worker(w)
      PROVE  UNCHANGED <<enqueuing, enqueued>>
  BY <1>4 DEF SpuriousWakeup, Worker, Wait, Take, Quit, Finish
<1>5. CASE SetShouldQuit \/ Shutdown
  BY <1>5, <1>3 DEF SetShouldQuit, Shutdown, NotifyAll, Join
<1>6. CASE UNCHANGED vars
  BY <1>6, <1>3 DEF vars
<1> QED
  BY <1>1, <1>2, <1>3, <1>4, <1>5, <1>6 DEF Next

\* The two numbers the bound compares with the queue, as naturals.
LEMMA Counted ==
  ASSUME TypeOK
  PROVE  /\ Len(work_queue_) \in Nat
         /\ Cardinality(enqueuing) \in Nat
         /\ Cardinality(At("dequeue")) \in Nat
BY WorkersCounted, NotifiersCounted DEF TypeOK

\* Enqueue: the push raises both sides by one, the notification turns a pending
\* notification into an awake worker.
LEMMA EnqueueWakes ==
  ASSUME IInv, NotifiersPushed, TasksHeard, NEW t \in Tasks, Push(t) \/ NotifyOne(t)
  PROVE  TasksHeard'
<1>0. TypeOK
  BY DEF IInv
<1>1. CASE Push(t)
  <2>1. t \notin enqueuing
    BY <1>1 DEF Push, NotifiersPushed
  <2>2. Cardinality(enqueuing') = Cardinality(enqueuing) + 1
    BY <1>0, <1>1, <2>1, NotifiersCounted, FS_AddElement DEF Push
  <2>3. Len(work_queue_') = Len(work_queue_) + 1
    BY <1>0, <1>1 DEF Push, TypeOK
  <2>4. wpc' = wpc /\ should_quit_' = should_quit_
    BY <1>1 DEF Push
  <2>5. At("dequeue")' = At("dequeue") /\ Waiting' = Waiting
    BY <2>4 DEF At, Waiting
  <2> QED
    BY <1>0, <2>2, <2>3, <2>4, <2>5, Counted DEF TasksHeard
<1>2. CASE NotifyOne(t)
  <2>0. work_queue_' = work_queue_ /\ should_quit_' = should_quit_
    BY <1>2 DEF NotifyOne
  <2>1. CASE Waiting = {}
    <3>1. wpc' = wpc
      BY <1>2, <2>1 DEF NotifyOne
    <3> QED
      BY <2>1, <3>1 DEF TasksHeard, Waiting, At
  <2>2. CASE Waiting # {}
    <3>1. PICK w \in Waiting : wpc' = [wpc EXCEPT ![w] = "dequeue"]
      BY <1>2, <2>2 DEF NotifyOne, NeedsNotify
    <3>2. w \in Workers /\ wpc[w] # "dequeue"
      BY DEF Waiting, At
    <3>3. Cardinality(At("dequeue")') = Cardinality(At("dequeue")) + 1
      BY <1>0, <3>1, <3>2, OneMoreAwake
    <3>4. Cardinality(enqueuing') = Cardinality(enqueuing) - 1
      BY <1>0, <1>2, NotifiersCounted, FS_RemoveElement DEF NotifyOne
    <3> QED
      BY <1>0, <2>0, <2>2, <3>3, <3>4, Counted DEF TasksHeard
  <2> QED
    BY <2>1, <2>2
<1> QED
  BY <1>1, <1>2

\* A worker: it goes to sleep only on an empty queue, and the one that stops being
\* awake for a task takes that task away.
LEMMA WorkerWakes ==
  ASSUME IInv, TasksHeard, NEW w \in Workers, SpuriousWakeup(w) \/ Worker(w)
  PROVE  TasksHeard'
<1>0. TypeOK
  BY DEF IInv
<1>1. enqueuing' = enqueuing /\ should_quit_' = should_quit_
  BY DEF SpuriousWakeup, Worker, Wait, Take, Quit, Finish
<1>2. CASE SpuriousWakeup(w) \/ Finish(w)
  <2>1. wpc[w] # "dequeue" /\ wpc' = [wpc EXCEPT ![w] = "dequeue"]
        /\ work_queue_' = work_queue_
    BY <1>2 DEF SpuriousWakeup, Finish, AfterTask
  <2>2. Cardinality(At("dequeue")') = Cardinality(At("dequeue")) + 1
    BY <1>0, <2>1, OneMoreAwake
  <2>3. Waiting' \subseteq Waiting
    BY <1>0, <2>1 DEF Waiting, At, TypeOK
  <2> QED
    BY <1>0, <1>1, <2>1, <2>2, <2>3, Counted DEF TasksHeard
<1>3. CASE Wait(w)
  <2>1. work_queue_' = <<>> /\ Len(work_queue_') = 0
    BY <1>3 DEF Wait
  <2>2. At("dequeue")' \in SUBSET Workers
    BY DEF At
  <2>3. Cardinality(At("dequeue")') \in Nat /\ Cardinality(enqueuing) \in Nat
    BY <1>0, <2>2, Counted, PoolAssumption, FS_Subset, FS_CardinalityType
  <2> QED
    BY <1>1, <2>1, <2>3 DEF TasksHeard
<1>4. CASE Take(w)
  <2>1. Cardinality(At("dequeue")') = Cardinality(At("dequeue")) - 1
    BY <1>0, <1>4, OneLessAwake DEF Take
  <2>2. Len(work_queue_') = Len(work_queue_) - 1
    BY <1>0, <1>4 DEF Take, TypeOK
  <2>3. Waiting' \subseteq Waiting
    BY <1>0, <1>4 DEF Take, Waiting, At, TypeOK
  <2> QED
    BY <1>0, <1>1, <2>1, <2>2, <2>3, Counted DEF TasksHeard
<1>5. CASE Quit(w)
  BY <1>1, <1>5 DEF Quit, TasksHeard
<1> QED
  BY <1>2, <1>3, <1>4, <1>5 DEF Worker

\* Shutdown: after should_quit_ nobody has to be woken for a task any more, and
\* notify_all leaves nobody asleep.
LEMMA ShutdownWakes ==
  ASSUME IInv, TasksHeard, SetShouldQuit \/ Shutdown
  PROVE  TasksHeard'
<1>1. CASE SetShouldQuit
  BY <1>1 DEF SetShouldQuit, TasksHeard
<1>2. CASE NotifyAll
  <2>1. Waiting' = {}
    BY <1>2 DEF NotifyAll, Notified, Waiting, At
  <2> QED
    BY <2>1 DEF TasksHeard
<1>3. CASE Join
  BY <1>3 DEF Join, TasksHeard, Waiting, At
<1> QED
  BY <1>1, <1>2, <1>3 DEF Shutdown

\* After notify_all nobody goes to sleep: WorkerDequeue looks at should_quit_, which was set
\* before, under the mutex.
LEMMA ShutdownStep == IInv /\ ShutdownHeard /\ [Next]_vars => ShutdownHeard'
<1> SUFFICES ASSUME IInv, ShutdownHeard, [Next]_vars PROVE ShutdownHeard'
  OBVIOUS
<1>0. Ending /\ wpc \in [Workers -> {"dequeue", "waiting", "running", "exited"}]
  BY DEF IInv, TypeOK
<1>1. CASE NotifyAll
  BY <1>1 DEF NotifyAll, Notified, Waiting, At, ShutdownHeard
<1>2. ASSUME NEW w \in Workers, SpuriousWakeup(w) \/ Worker(w)
      PROVE  ShutdownHeard'
  <2>1. owner' = owner /\ (owner \in {"joining", "done"} => should_quit_)
    BY <1>0, <1>2 DEF SpuriousWakeup, Worker, Wait, Take, Quit, Finish, Ending
  <2>2. should_quit_ => Waiting' \subseteq Waiting
    BY <1>0, <1>2 DEF SpuriousWakeup, Worker, Wait, Take, Quit, Finish, AfterTask, Waiting, At
  <2> QED
    BY <2>1, <2>2 DEF ShutdownHeard
<1>3. ASSUME NEW t \in Tasks, Push(t) \/ NotifyOne(t)
      PROVE  ShutdownHeard'
  <2>1. owner' = owner /\ Waiting' \subseteq Waiting
    BY <1>0, <1>3 DEF Push, NotifyOne, Waiting, At
  <2> QED
    BY <2>1 DEF ShutdownHeard
<1>4. CASE SetShouldQuit
  BY <1>4 DEF SetShouldQuit, ShutdownHeard
<1>5. CASE Join
  BY <1>5 DEF Join, ShutdownHeard, Waiting, At
<1>6. CASE UNCHANGED vars
  BY <1>6 DEF vars, ShutdownHeard, Waiting, At
<1> QED
  BY <1>1, <1>2, <1>3, <1>4, <1>5, <1>6 DEF Next, Shutdown

\* A sleeping worker never misses the task meant for it: for any number of workers,
\* each queued task has a notify_one still to come or an awake worker.  Nor does it miss
\* the end: while the destructor joins the threads, none of them sleeps.
THEOREM WakeupsKept == Spec => []NoLostWakeup
<1> DEFINE J == IInv /\ NotifiersPushed /\ TasksHeard /\ ShutdownHeard
<1>1. Init => J
  <2> SUFFICES ASSUME Init PROVE J
    OBVIOUS
  <2>1. NotifiersPushed
    BY DEF Init, NotifiersPushed
  <2>2. TasksHeard
    BY DEF Init, TasksHeard, Waiting, At
  <2>3. ShutdownHeard
    BY DEF Init, ShutdownHeard
  <2> QED
    BY <2>1, <2>2, <2>3, InitIInv
<1>2. J /\ [Next]_vars => J'
  <2> SUFFICES ASSUME J, [Next]_vars PROVE J'
    OBVIOUS
  <2>1. IInv' /\ NotifiersPushed' /\ ShutdownHeard'
    BY NextIInv, NotifiersStep, ShutdownStep
  <2>2. CASE \E t \in Tasks : Push(t) \/ NotifyOne(t)
    BY <2>1, <2>2, EnqueueWakes
  <2>3. CASE \E w \in Workers : SpuriousWakeup(w) \/ Worker(w)
    BY <2>1, <2>3, WorkerWakes
  <2>4. CASE SetShouldQuit \/ Shutdown
    BY <2>1, <2>4, ShutdownWakes
  <2>5. CASE UNCHANGED vars
    BY <2>1, <2>5 DEF vars, TasksHeard, Waiting, At
  <2> QED
    BY <2>2, <2>3, <2>4, <2>5 DEF Next
<1>3. J => NoLostWakeup
  BY DEF TasksHeard, ShutdownHeard, NoLostWakeup
<1> QED
  BY <1>1, <1>2, <1>3, PTL DEF Spec

-----------------------------------------------------------------------------
(***************************************************************************)
(* The Qt client                                                           *)
(*                                                                         *)
(* What makes PictureCatchesUp and ProcessEnds true at every moment: the   *)
(* condition variable is waited for without a predicate, but a change can  *)
(* only come while the updater waits or before it first asks for a repaint.*)
(***************************************************************************)

QtTypes ==
  /\ version \in 1..Qt!Disconnected /\ posted \in Nat
  /\ updater \in {"top", "posted", "waiting", "woken", "ended"}

\* A picture that is not of the newest change has a repaint queued or an updater about to
\* ask for one, and the updater does not wait once nothing will change any more.
NoChangeMissed ==
  /\ ui = "exec" /\ painted # version => posted > 0 \/ updater \in {"top", "woken"}
  /\ version = Qt!Disconnected => updater # "waiting"

QtInv == QtTypes /\ NoChangeMissed /\ (updater = "ended" => version = Qt!Disconnected)

\* No change of what the Qt client shows is lost between network_client's notification and
\* the updater's wait, the disconnection included, for any number of changes.
THEOREM NothingGoesUnpainted == Qt!Spec => []NoChangeMissed
<1>1. Qt!Disconnected \in Nat /\ Qt!Disconnected > 1
  BY TicksAssumption DEF Qt!QtAssumption, Qt!Disconnected
<1>2. Qt!Init => QtInv
  BY <1>1 DEF Qt!Init, QtInv, QtTypes, NoChangeMissed
<1>3. QtInv /\ [Qt!Next]_(Qt!qt_vars) => QtInv'
  <2> SUFFICES ASSUME QtInv, [Qt!Next]_(Qt!qt_vars) PROVE QtInv'
    OBVIOUS
  <2> DEFINE last == Qt!Disconnected
  <2>0. /\ QtTypes /\ NoChangeMissed /\ (updater = "ended" => version = last)
        /\ last \in Nat /\ last' = last
    BY <1>1 DEF QtInv, Qt!Disconnected
  <2>1. CASE Qt!NetworkClient
    <3>1. /\ version < last /\ version' = version + 1 /\ posted' = posted /\ ui' = ui
          /\ updater # "posted"
          /\ updater' = IF updater = "waiting" THEN "woken" ELSE updater
      BY <2>1 DEF Qt!NetworkClient, Qt!MutexFree, Qt!Notifies
    <3>2. updater # "ended" /\ version' \in 1..last
      BY <2>0, <3>1 DEF QtTypes
    <3>3. updater' \in {"top", "woken"}
      BY <2>0, <3>1, <3>2 DEF QtTypes
    <3> QED
      BY <2>0, <3>1, <3>2, <3>3 DEF QtInv, QtTypes, NoChangeMissed
  <2>2. CASE Qt!SpuriousWakeup
    BY <2>0, <2>2 DEF Qt!SpuriousWakeup, QtInv, QtTypes, NoChangeMissed
  <2>3. CASE Qt!Invoke
    BY <2>0, <2>3 DEF Qt!Invoke, Qt!Posts, QtInv, QtTypes, NoChangeMissed
  <2>4. CASE Qt!ReturnOrWait
    BY <2>0, <2>4 DEF Qt!ReturnOrWait, QtInv, QtTypes, NoChangeMissed
  <2>5. CASE Qt!Show
    BY <2>0, <2>5 DEF Qt!Show, QtInv, QtTypes, NoChangeMissed
  <2>6. CASE Qt!UpdateFieldView
    BY <2>0, <2>6 DEF Qt!UpdateFieldView, QtInv, QtTypes, NoChangeMissed
  <2>7. CASE Qt!CloseWindow \/ Qt!Join
    BY <2>0, <2>7 DEF Qt!CloseWindow, Qt!Join, QtInv, QtTypes, NoChangeMissed
  <2>8. CASE UNCHANGED Qt!qt_vars
    BY <2>0, <2>8 DEF Qt!qt_vars, QtInv, QtTypes, NoChangeMissed
  <2> QED
    BY <2>1, <2>2, <2>3, <2>4, <2>5, <2>6, <2>7, <2>8
    DEF Qt!Next, Qt!UpdaterThread, Qt!MainThread
<1>4. QtInv => NoChangeMissed
  BY DEF QtInv
<1> QED
  BY <1>2, <1>3, <1>4, PTL DEF Qt!Spec
==============================================================================
