--------------------------- MODULE WebViewerProofs ---------------------------
(***************************************************************************)
(* Proofs about WebViewer for any browsers, workers and states, and about  *)
(* HttpRequests for any bytes and any reads.                               *)
(*                                                                         *)
(* AnswersCurrent depends on what a worker carries from GetField to the    *)
(* answer, while the viewer thread goes on: Current says of the prepared   *)
(* responses what AnswersCurrent says of the answers.  What the pool does  *)
(* with the connections does not matter for it.                            *)
(***************************************************************************)
EXTENDS MCWebViewer, SequenceTheorems, Recursion

Types ==
  /\ field_ \in 0..MaxState /\ have_field_ \in BOOLEAN
  /\ asked \subseteq Connections
  /\ response \in [Connections -> 0..NoAnswer]
  /\ answer \in [Connections -> 0..NoAnswer]
  /\ since \in [Connections -> 0..MaxState]

\* A value given to c after it asked, and not newer than field_.
Current(c, value) == c \in asked /\ value \in since[c]..field_

IInv ==
  /\ Types
  /\ ~have_field_ => field_ = 0
  /\ \A c \in Connections :
       /\ since[c] <= field_
       /\ response[c] # NoAnswer => Current(c, response[c])
       /\ answer[c] # NoAnswer => Current(c, answer[c])

-----------------------------------------------------------------------------

\* Nothing is known, asked or answered at first.
LEMMA InitIInv == Init => IInv
<1> SUFFICES ASSUME Init PROVE IInv
  OBVIOUS
<1>1. NoAnswer \in 0..NoAnswer /\ 0 \in 0..MaxState
  BY WebViewerAssumption DEF NoAnswer
<1>2. Types
  BY <1>1 DEF Init, Types
<1>3. \A c \in Connections : since[c] = 0 /\ response[c] = NoAnswer /\ answer[c] = NoAnswer
  BY DEF Init
<1>4. field_ = 0
  BY DEF Init
<1> QED
  BY <1>2, <1>3, <1>4 DEF IInv

\* A new state leaves the older ones between the question and the newest.
LEMMA StateIInv ==
  ASSUME IInv, GetNextFieldState
  PROVE  IInv'
<1> USE WebViewerAssumption DEF NoAnswer
<1>1. /\ field_' \in 1..MaxState /\ have_field_' = TRUE
      /\ have_field_ => field_' = field_ + 1
      /\ UNCHANGED <<asked, response, answer, since>>
  BY DEF GetNextFieldState, HaveField, handlerVars, browserVars
<1>2. field_ <= field_' /\ field_ \in 0..MaxState
  BY <1>1 DEF IInv, Types
<1>3. Types'
  BY <1>1 DEF IInv, Types
<1>4. \A c \in Connections : since[c] \in 0..MaxState /\ response[c] \in 0..NoAnswer
                             /\ answer[c] \in 0..NoAnswer
  BY DEF IInv, Types
<1> QED
  BY <1>1, <1>2, <1>3, <1>4 DEF IInv, Current

\* Asking sets the lower bound for a connection that has no response yet.
LEMMA AskIInv ==
  ASSUME IInv, NEW c \in Connections, Ask(c)
  PROVE  IInv'
<1> USE WebViewerAssumption DEF NoAnswer
<1>1. /\ c \notin asked /\ asked' = asked \union {c}
      /\ since' = [since EXCEPT ![c] = field_]
      /\ UNCHANGED <<field_, have_field_, response, answer>>
  BY DEF Ask, viewerVars, handlerVars
<1>2. Types'
  BY <1>1 DEF IInv, Types
<1>3. response[c] = NoAnswer /\ answer[c] = NoAnswer
  BY <1>1 DEF IInv, Current
<1> QED
  BY <1>1, <1>2, <1>3 DEF IInv, Types, Current

\* GetField's copy is the newest state, and "null" stands for none.
LEMMA HandlerIInv ==
  ASSUME IInv, NEW w \in Workers, GameStateHandler(w)
  PROVE  IInv'
<1> USE WebViewerAssumption DEF NoAnswer
<1> DEFINE c == fn[w]
<1>1. /\ c \in asked /\ response' = [response EXCEPT ![c] = field_]
      /\ UNCHANGED <<field_, have_field_, asked, answer, since>>
  BY DEF GameStateHandler, IInv, viewerVars, browserVars
<1>2. c \in Connections
  BY <1>1 DEF IInv, Types
<1> HIDE DEF c
<1>3. Types'
  BY <1>1, <1>2 DEF IInv, Types
<1> QED
  BY <1>1, <1>2, <1>3 DEF IInv, Types, Current

\* The answer is the prepared response, which was current.
LEMMA SendIInv ==
  ASSUME IInv, NEW w \in Workers, SendHttpResponse(w)
  PROVE  IInv'
<1> USE WebViewerAssumption DEF NoAnswer
<1> DEFINE c == fn[w]
<1>1. /\ answer' \in {answer, [answer EXCEPT ![c] = response[c]]}
      /\ response' = [response EXCEPT ![c] = NoAnswer]
      /\ UNCHANGED <<field_, have_field_, asked, since>>
  BY DEF SendHttpResponse, viewerVars
<1> HIDE DEF c
<1>2. Types'
  <2>1. NoAnswer \in 0..NoAnswer
    OBVIOUS
  <2>2. response' \in [Connections -> 0..NoAnswer]
    BY <1>1, <2>1 DEF IInv, Types
  <2>3. answer' \in [Connections -> 0..NoAnswer]
    <3>1. CASE answer' = answer
      BY <3>1 DEF IInv, Types
    <3>2. CASE answer' = [answer EXCEPT ![c] = response[c]]
      BY <3>2 DEF IInv, Types
    <3> QED
      BY <1>1, <3>1, <3>2
  <2> QED
    BY <1>1, <2>2, <2>3 DEF IInv, Types
<1>3. \A d \in Connections :
        /\ response'[d] \in {response[d], NoAnswer}
        /\ answer'[d] \in {answer[d], response[d]}
  BY <1>1 DEF IInv, Types
<1> QED
  BY <1>1, <1>2, <1>3 DEF IInv, Current

\* The other steps concern the pool and the phases only.
LEMMA FrameIInv ==
  ASSUME IInv, UNCHANGED <<field_, have_field_, response, asked, answer, since>>
  PROVE  IInv'
BY DEF IInv, Types, Current

\* Every step of the viewer and the browsers.
LEMMA NextIInv == IInv /\ [Next]_vars => IInv'
<1> SUFFICES ASSUME IInv, [Next]_vars PROVE IInv'
  OBVIOUS
<1>1. CASE GetNextFieldState
  BY <1>1, StateIInv
<1>2. ASSUME NEW c \in Connections, Ask(c) \/ Leave(c) \/ Accept(c) \/ AcceptFails(c) \/ Notify(c)
      PROVE  IInv'
  <2>1. CASE Ask(c)
    BY <2>1, AskIInv
  <2>2. CASE Leave(c) \/ Accept(c) \/ AcceptFails(c) \/ Notify(c)
    BY <2>2, FrameIInv DEF Leave, Accept, AcceptFails, Notify, viewerVars, handlerVars, browserVars
  <2> QED
    BY <1>2, <2>1, <2>2
<1>3. ASSUME NEW w \in Workers, Worker(w) \/ Wakeup(w)
      PROVE  IInv'
  <2>1. CASE GameStateHandler(w)
    BY <2>1, HandlerIInv
  <2>2. CASE SendHttpResponse(w)
    BY <2>2, SendIInv
  <2>3. CASE Idle(w) \/ StartServe(w) \/ ReadFails(w) \/ ParseThrows(w) \/ Return(w) \/ Wakeup(w)
    BY <2>3, FrameIInv DEF Idle, StartServe, ReadFails, ParseThrows, Return, Wakeup,
                           viewerVars, handlerVars, browserVars
  <2> QED
    BY <1>3, <2>1, <2>2, <2>3 DEF Worker
<1>4. CASE UNCHANGED vars
  BY <1>4, FrameIInv DEF vars, viewerVars, handlerVars, browserVars
<1> QED
  BY <1>1, <1>2, <1>3, <1>4 DEF Next

\* Whatever the viewer thread stores between a question and its answer, the answer
\* was the newest state at some moment in between.
THEOREM AnswersAreCurrent == Spec => []AnswersCurrent
<1>1. IInv => AnswersCurrent
  BY DEF IInv, AnswersCurrent, Current
<1> QED
  BY <1>1, InitIInv, NextIInv, PTL DEF Spec

-----------------------------------------------------------------------------
(***************************************************************************)
(* Serving a connection                                                    *)
(*                                                                         *)
(* The web server uses the thread pool as ThreadPool describes it, so that *)
(* what is proved of ThreadPool holds of its workers.  Nothing in the pool *)
(* knows of the phases; that a connection is in the queue once, while it   *)
(* is queued, and then with one worker, is what ServeInv follows.          *)
(***************************************************************************)

\* Every step of the viewer, the browsers, the accept loop and the handlers is a step of
\* the pool or leaves it alone.
THEOREM PoolAsSpecified == Spec => Pool!Spec
<1>1. Init => Pool!Init
  BY DEF Init
<1>2. [Next]_vars => [Pool!Next]_(Pool!vars)
  <2> SUFFICES ASSUME [Next]_vars PROVE [Pool!Next]_(Pool!vars)
    OBVIOUS
  <2>1. CASE GetNextFieldState
    BY <2>1 DEF GetNextFieldState, poolVars, Pool!vars
  <2>2. ASSUME NEW c \in Connections, Ask(c) \/ Leave(c) \/ Accept(c) \/ AcceptFails(c) \/ Notify(c)
        PROVE  [Pool!Next]_(Pool!vars)
    BY <2>2 DEF Ask, Leave, Accept, AcceptFails, Notify, poolVars, Pool!vars, Pool!Next
  <2>3. ASSUME NEW w \in Workers, Worker(w) \/ Wakeup(w)
        PROVE  [Pool!Next]_(Pool!vars)
    <3>1. CASE ReadFails(w) \/ ParseThrows(w) \/ GameStateHandler(w) \/ SendHttpResponse(w)
      BY <3>1 DEF ReadFails, ParseThrows, GameStateHandler, SendHttpResponse, poolVars, Pool!vars
    <3>2. CASE Idle(w) \/ StartServe(w) \/ Return(w) \/ Wakeup(w)
      BY <3>2 DEF Idle, StartServe, Return, Wakeup, Pool!Next, Pool!Worker
    <3> QED
      BY <2>3, <3>1, <3>2 DEF Worker
  <2>4. CASE UNCHANGED vars
    BY <2>4 DEF vars, poolVars, Pool!vars
  <2> QED
    BY <2>1, <2>2, <2>3, <2>4 DEF Next
<1> QED
  BY <1>1, <1>2, PTL DEF Spec, Pool!Spec

Busy == {w \in Workers : wpc[w] = "running"}
Phases == {"backlog", "queued", "reading", "responding", "served"}

ServeTypes ==
  /\ work_queue_ \in Seq(Connections)
  /\ phase \in [Connections -> Phases]
  /\ wpc \in [Workers -> {"dequeue", "waiting", "running", "exited"}]
  /\ fn \in [Workers -> Connections \cup {NoTask}]

\* A queued connection waits in one place of the queue.
QueuedOnce ==
  /\ \A i \in 1..Len(work_queue_) : phase[work_queue_[i]] = "queued"
  /\ \A i, j \in 1..Len(work_queue_) : work_queue_[i] = work_queue_[j] => i = j

\* A connection that is read or answered is with one worker.
OneWorker ==
  /\ \A w \in Busy : fn[w] \in Connections /\ phase[fn[w]] \in {"reading", "responding", "served"}
  /\ \A u, w \in Busy : fn[u] = fn[w] => u = w

\* Who was answered is done with.
AnsweredIsServed == \A c \in Connections : answer[c] # NoAnswer => phase[c] = "served"

ServeInv == ServeTypes /\ QueuedOnce /\ OneWorker /\ AnsweredIsServed

LEMMA InitServe == Init => ServeInv
<1> SUFFICES ASSUME Init PROVE ServeInv
  OBVIOUS
<1>1. /\ work_queue_ = <<>> /\ phase = [c \in Connections |-> "backlog"]
      /\ wpc = [w \in Workers |-> "dequeue"] /\ fn = [w \in Workers |-> NoTask]
      /\ answer = [c \in Connections |-> NoAnswer]
  BY DEF Init, Pool!Init
<1>3. ServeTypes
  BY <1>1 DEF ServeTypes, Phases
<1>4. QueuedOnce /\ Busy = {}
  BY <1>1 DEF QueuedOnce, Busy
<1> QED
  BY <1>1, <1>3, <1>4 DEF ServeInv, OneWorker, AnsweredIsServed

\* A connection is pushed when it leaves the backlog, so it is nowhere else.
LEMMA AcceptServe ==
  ASSUME ServeInv, NEW c \in Connections, Accept(c)
  PROVE  ServeInv'
<1>1. /\ phase[c] = "backlog" /\ work_queue_' = Append(work_queue_, c)
      /\ phase' = [phase EXCEPT ![c] = "queued"]
      /\ wpc' = wpc /\ fn' = fn /\ answer' = answer
  BY DEF Accept, Pool!Push, browserVars
<1>2. ServeTypes /\ QueuedOnce /\ OneWorker /\ AnsweredIsServed
  BY DEF ServeInv
<1>3. ServeTypes'
  BY <1>1, <1>2 DEF ServeTypes, Phases
<1> DEFINE n == Len(work_queue_)
<1>4. /\ n \in Nat /\ Len(work_queue_') = n + 1 /\ work_queue_'[n + 1] = c
      /\ \A i \in 1..n : work_queue_'[i] = work_queue_[i] /\ work_queue_[i] \in Connections
  BY <1>1, <1>2 DEF ServeTypes
<1>5. /\ phase'[c] = "queued"
      /\ \A d \in Connections : d # c => phase'[d] = phase[d]
  BY <1>1, <1>2 DEF ServeTypes
<1>6. QueuedOnce'
  <2>1. \A i \in 1..n : work_queue_[i] # c /\ phase[work_queue_[i]] = "queued"
    BY <1>1, <1>2 DEF QueuedOnce
  <2>2. ASSUME NEW i \in 1..n + 1
        PROVE  phase'[work_queue_'[i]] = "queued"
    <3>1. i \in 1..n \/ i = n + 1
      BY <1>4
    <3> QED
      BY <1>4, <1>5, <2>1, <3>1
  <2>3. ASSUME NEW i \in 1..n + 1, NEW j \in 1..n + 1, work_queue_'[i] = work_queue_'[j]
        PROVE  i = j
    <3>1. (i \in 1..n \/ i = n + 1) /\ (j \in 1..n \/ j = n + 1)
      BY <1>4
    <3>2. \A k, l \in 1..n : work_queue_[k] = work_queue_[l] => k = l
      BY <1>2 DEF QueuedOnce
    <3> HIDE DEF n
    <3> QED
      BY <1>4, <2>1, <2>3, <3>1, <3>2
  <2> HIDE DEF n
  <2> QED
    BY <1>4, <2>2, <2>3 DEF QueuedOnce
<1>7. OneWorker' /\ AnsweredIsServed'
  BY <1>1, <1>2, <1>5 DEF OneWorker, AnsweredIsServed, Busy
<1> QED
  BY <1>3, <1>6, <1>7 DEF ServeInv

\* A connection that cannot be accepted is over before it was queued.
LEMMA AcceptFailsServe ==
  ASSUME ServeInv, NEW c \in Connections, AcceptFails(c)
  PROVE  ServeInv' /\ answer' = answer
<1>1. /\ phase[c] = "backlog" /\ phase' = [phase EXCEPT ![c] = "served"]
      /\ UNCHANGED <<work_queue_, wpc, fn, answer>>
  BY DEF AcceptFails, browserVars, poolVars
<1>2. ServeTypes /\ QueuedOnce /\ OneWorker /\ AnsweredIsServed
  BY DEF ServeInv
<1>3. phase'[c] = "served" /\ \A d \in Connections : d # c => phase'[d] = phase[d]
  BY <1>1, <1>2 DEF ServeTypes
<1>4. ServeTypes'
  BY <1>1, <1>2 DEF ServeTypes, Phases
<1>5. QueuedOnce'
  <2>1. \A i \in 1..Len(work_queue_) : work_queue_[i] \in Connections /\ work_queue_[i] # c
    BY <1>1, <1>2 DEF ServeTypes, QueuedOnce
  <2> QED
    BY <1>1, <1>2, <1>3, <2>1 DEF QueuedOnce
<1>6. OneWorker' /\ AnsweredIsServed'
  BY <1>1, <1>2, <1>3 DEF OneWorker, AnsweredIsServed, Busy
<1> QED
  BY <1>1, <1>4, <1>5, <1>6 DEF ServeInv

\* The connection at the head of the queue goes to the worker that takes it.
LEMMA TakeServe ==
  ASSUME ServeInv, NEW w \in Workers, StartServe(w)
  PROVE  ServeInv'
<1> DEFINE c == Head(work_queue_)
           n == Len(work_queue_)
<1>1. /\ work_queue_ # <<>> /\ work_queue_' = Tail(work_queue_) /\ wpc[w] = "dequeue"
      /\ wpc' = [wpc EXCEPT ![w] = "running"] /\ fn' = [fn EXCEPT ![w] = c]
      /\ phase' = [phase EXCEPT ![fn'[w]] = "reading"] /\ answer' = answer
  BY DEF StartServe, Pool!Take, Pool!NextTask, browserVars
<1>2. ServeTypes /\ QueuedOnce /\ OneWorker /\ AnsweredIsServed
  BY DEF ServeInv
<1>3. /\ n \in Nat /\ n >= 1 /\ c = work_queue_[1] /\ c \in Connections
      /\ work_queue_' \in Seq(Connections) /\ Len(work_queue_') = n - 1
      /\ \A i \in 1..n - 1 : work_queue_'[i] = work_queue_[i + 1]
      /\ \A i \in 1..n : work_queue_[i] \in Connections
  BY <1>1, <1>2 DEF ServeTypes
<1> HIDE DEF c, n
<1>4. fn'[w] = c /\ phase' = [phase EXCEPT ![c] = "reading"]
  BY <1>1, <1>2 DEF ServeTypes
<1>5. ServeTypes'
  BY <1>1, <1>2, <1>3, <1>4 DEF ServeTypes, Phases
<1>6. /\ \A i \in 1..n : phase[work_queue_[i]] = "queued"
      /\ \A i, j \in 1..n : work_queue_[i] = work_queue_[j] => i = j
  BY <1>2 DEF QueuedOnce, n
<1>7. phase[c] = "queued" /\ phase'[c] = "reading" /\ \A d \in Connections : d # c => phase'[d] = phase[d]
  BY <1>2, <1>3, <1>4, <1>6 DEF ServeTypes
<1>8. QueuedOnce'
  <2>1. \A i \in 1..n - 1 : i + 1 \in 1..n /\ i + 1 # 1
    BY <1>3
  <2>2. \A i \in 1..n - 1 : work_queue_'[i] \in Connections /\ work_queue_'[i] # c
    BY <1>3, <1>6, <2>1
  <2>3. \A i \in 1..n - 1 : phase'[work_queue_'[i]] = "queued"
    BY <1>3, <1>6, <1>7, <2>1, <2>2
  <2>4. ASSUME NEW i \in 1..n - 1, NEW j \in 1..n - 1, work_queue_'[i] = work_queue_'[j]
        PROVE  i = j
    <3>1. i + 1 = j + 1
      BY <1>3, <1>6, <2>1, <2>4
    <3> QED
      BY <3>1
  <2> QED
    BY <1>3, <2>3, <2>4 DEF QueuedOnce
<1>9. OneWorker'
  <2>1. Busy' = Busy \cup {w} /\ \A u \in Busy : u # w /\ fn'[u] = fn[u]
    BY <1>1, <1>2 DEF ServeTypes, Busy
  <2>2. \A u \in Busy : fn[u] \in Connections /\ fn[u] # c
    BY <1>2, <1>7 DEF OneWorker
  <2> QED
    BY <1>2, <1>3, <1>4, <1>7, <2>1, <2>2 DEF OneWorker
<1>10. AnsweredIsServed'
  BY <1>1, <1>2, <1>7 DEF AnsweredIsServed
<1> QED
  BY <1>5, <1>8, <1>9, <1>10 DEF ServeInv

\* A worker goes on with the connection it has, and answers one that has no answer yet.
LEMMA HandleServe ==
  ASSUME IInv, ServeInv, NEW w \in Workers,
         ReadFails(w) \/ ParseThrows(w) \/ GameStateHandler(w) \/ SendHttpResponse(w)
  PROVE  /\ ServeInv'
         /\ \A c \in Connections : answer[c] # NoAnswer => answer'[c] = answer[c]
<1> DEFINE c == fn[w]
<1>1. /\ work_queue_' = work_queue_ /\ wpc' = wpc /\ fn' = fn /\ wpc[w] = "running"
      /\ phase[c] \in {"reading", "responding"}
      /\ \E p \in {"responding", "served"} : phase' = [phase EXCEPT ![c] = p]
  BY DEF ReadFails, ParseThrows, GameStateHandler, SendHttpResponse, Serving, poolVars
<1>2. ServeTypes /\ QueuedOnce /\ OneWorker /\ AnsweredIsServed /\ Types
  BY DEF ServeInv, IInv
<1>3. w \in Busy /\ c \in Connections
  BY <1>1, <1>2 DEF OneWorker, Busy
<1>4. answer' = answer \/ (answer' = [answer EXCEPT ![c] = response[c]] /\ phase' = [phase EXCEPT ![c] = "served"])
  BY DEF ReadFails, ParseThrows, GameStateHandler, SendHttpResponse, browserVars
<1> HIDE DEF c
<1>5. /\ phase'[c] \in {"responding", "served"}
      /\ \A d \in Connections : d # c => phase'[d] = phase[d] /\ answer'[d] = answer[d]
      /\ answer' = answer \/ phase'[c] = "served"
  BY <1>1, <1>2, <1>3, <1>4 DEF ServeTypes, Types
<1>6. answer[c] = NoAnswer
  BY <1>1, <1>2, <1>3 DEF AnsweredIsServed
<1>7. ServeTypes'
  BY <1>1, <1>2, <1>3 DEF ServeTypes, Phases
<1>8. QueuedOnce'
  <2>1. \A i \in 1..Len(work_queue_) : work_queue_[i] \in Connections /\ work_queue_[i] # c
    BY <1>1, <1>2 DEF QueuedOnce, ServeTypes
  <2> QED
    BY <1>1, <1>2, <1>5, <2>1 DEF QueuedOnce
<1>9. OneWorker'
  BY <1>1, <1>2, <1>5 DEF OneWorker, Busy
<1>10. AnsweredIsServed'
  BY <1>2, <1>5, <1>6 DEF AnsweredIsServed
<1> QED
  BY <1>5, <1>6, <1>7, <1>8, <1>9, <1>10 DEF ServeInv

\* The pool moves workers that hold no connection.
LEMMA PoolServe ==
  ASSUME ServeInv, NEW w \in Workers, Idle(w) \/ Wakeup(w) \/ Return(w)
  PROVE  ServeInv' /\ answer' = answer
<1>1. /\ work_queue_' = work_queue_ /\ phase' = phase /\ answer' = answer
      /\ \E pc \in {"waiting", "dequeue"} : wpc' = [wpc EXCEPT ![w] = pc]
      /\ fn' = fn \/ fn' = [fn EXCEPT ![w] = NoTask]
  BY DEF Idle, Wakeup, Return, Pool!Wait, Pool!SpuriousWakeup, Pool!Finish, Pool!AfterTask,
         handlerVars, browserVars
<1>2. ServeTypes /\ QueuedOnce /\ OneWorker /\ AnsweredIsServed
  BY DEF ServeInv
<1>3. ServeTypes' /\ QueuedOnce' /\ AnsweredIsServed'
  BY <1>1, <1>2 DEF ServeTypes, QueuedOnce, AnsweredIsServed
<1>4. Busy' \subseteq Busy /\ \A u \in Busy' : fn'[u] = fn[u]
  BY <1>1, <1>2 DEF ServeTypes, Busy
<1>5. OneWorker'
  BY <1>1, <1>2, <1>4 DEF OneWorker
<1> QED
  BY <1>1, <1>3, <1>5 DEF ServeInv

LEMMA NotifyServe ==
  ASSUME ServeInv, NEW c \in Connections, Notify(c)
  PROVE  ServeInv' /\ answer' = answer
<1>1. /\ work_queue_' = work_queue_ /\ phase' = phase /\ answer' = answer /\ fn' = fn
      /\ wpc' = wpc \/ \E w \in Workers : wpc' = [wpc EXCEPT ![w] = "dequeue"]
  BY DEF Notify, Pool!NotifyOne, Pool!Waiting, Pool!At, handlerVars, browserVars
<1>2. ServeTypes /\ QueuedOnce /\ OneWorker /\ AnsweredIsServed
  BY DEF ServeInv
<1>3. ServeTypes' /\ QueuedOnce' /\ AnsweredIsServed'
  BY <1>1, <1>2 DEF ServeTypes, QueuedOnce, AnsweredIsServed
<1>4. Busy' \subseteq Busy
  BY <1>1, <1>2 DEF ServeTypes, Busy
<1>5. OneWorker'
  BY <1>1, <1>2, <1>4 DEF OneWorker
<1> QED
  BY <1>1, <1>3, <1>5 DEF ServeInv

\* The viewer thread and the browsers do not touch what is served.
LEMMA FrameServe ==
  ASSUME ServeInv, UNCHANGED <<work_queue_, phase, wpc, fn, answer>>
  PROVE  ServeInv'
BY DEF ServeInv, ServeTypes, QueuedOnce, OneWorker, AnsweredIsServed, Busy

\* An answer that was given is never given again or changed.
AnswerKept == \A c \in Connections : answer[c] # NoAnswer => answer'[c] = answer[c]

LEMMA NextServe == IInv /\ ServeInv /\ [Next]_vars => ServeInv' /\ AnswerKept
<1> SUFFICES ASSUME IInv, ServeInv, [Next]_vars PROVE ServeInv' /\ AnswerKept
  OBVIOUS
<1>0. answer' = answer => AnswerKept
  BY DEF AnswerKept
<1>1. CASE GetNextFieldState
  BY <1>0, <1>1, FrameServe DEF GetNextFieldState, handlerVars, browserVars, poolVars
<1>2. ASSUME NEW c \in Connections, Ask(c) \/ Leave(c) \/ Accept(c) \/ AcceptFails(c) \/ Notify(c)
      PROVE  ServeInv' /\ AnswerKept
  <2>1. CASE Ask(c) \/ Leave(c)
    BY <1>0, <2>1, FrameServe DEF Ask, Leave, handlerVars, poolVars
  <2>2. CASE Accept(c)
    BY <1>0, <2>2, AcceptServe DEF Accept, browserVars
  <2>3. CASE Notify(c)
    BY <1>0, <2>3, NotifyServe
  <2>4. CASE AcceptFails(c)
    BY <1>0, <2>4, AcceptFailsServe
  <2> QED
    BY <1>2, <2>1, <2>2, <2>3, <2>4
<1>3. ASSUME NEW w \in Workers, Worker(w) \/ Wakeup(w)
      PROVE  ServeInv' /\ AnswerKept
  <2>1. CASE StartServe(w)
    BY <1>0, <2>1, TakeServe DEF StartServe, browserVars
  <2>2. CASE ReadFails(w) \/ ParseThrows(w) \/ GameStateHandler(w) \/ SendHttpResponse(w)
    BY <2>2, HandleServe DEF AnswerKept
  <2>3. CASE Idle(w) \/ Return(w) \/ Wakeup(w)
    BY <1>0, <2>3, PoolServe
  <2> QED
    BY <1>3, <2>1, <2>2, <2>3 DEF Worker
<1>4. CASE UNCHANGED vars
  BY <1>0, <1>4, FrameServe DEF vars, handlerVars, browserVars, poolVars
<1> QED
  BY <1>1, <1>2, <1>3, <1>4 DEF Next

\* However many workers there are, a connection is in the queue or with one of them, and is
\* read and answered by nobody else.
THEOREM ServedByOne == Spec => [](QueuedOnce /\ OneWorker)
<1>1. ServeInv => QueuedOnce /\ OneWorker
  BY DEF ServeInv
<1> QED
  BY <1>1, InitIInv, NextIInv, InitServe, NextServe, PTL DEF Spec

\* A browser is answered once: its answer stays what it was.
THEOREM AnsweredOnce == Spec => [][AnswerKept]_vars
BY InitIInv, NextIInv, InitServe, NextServe, PTL DEF Spec

-----------------------------------------------------------------------------
(***************************************************************************)
(* Reading a request                                                       *)
(*                                                                         *)
(* The automaton and Parse agree on a request because both are right about *)
(* its bytes: what the automaton remembers is Seen, a function of the last *)
(* three bytes as long as no request ended, and what Parse has found is    *)
(* the request up to where it searches next.  So the first CR LF CR LF is  *)
(* at the end of the request and nowhere before, and Parse, which always   *)
(* searches from after a line end, cannot pass it.                         *)
(***************************************************************************)

Final == "seen_crlfcrlf"
DfaState == {"initial", "seen_cr", "seen_crlf", "seen_crlfcr", Final}

\* The k-th byte is the last of the four that end a request.
Ending(k) ==
  k >= 4 /\ sent[k - 3] = "CR" /\ sent[k - 2] = "LF" /\ sent[k - 1] = "CR" /\ sent[k] = "LF"

\* What the automaton remembers of the first k bytes, if none of them ends a request:
\* the last three are enough to tell.
Seen(k) ==
  IF k >= 1 /\ sent[k] = "CR"
  THEN IF k >= 3 /\ sent[k - 2] = "CR" /\ sent[k - 1] = "LF" THEN "seen_crlfcr" ELSE "seen_cr"
  ELSE IF k >= 2 /\ sent[k - 1] = "CR" /\ sent[k] = "LF" THEN "seen_crlf" ELSE "initial"

RequestTypes ==
  /\ sent \in Seq(Requests!Symbol) /\ taken \in 0..Len(sent)
  /\ request \in Seq(Requests!Symbol) /\ Len(request) <= Len(sent)
  /\ \A i \in 1..Len(request) : request[i] = sent[i]
  /\ progress \in {"reading", "parsing", "parsed", "refused"}
  /\ line_start \in Nat /\ lines \in Seq(Seq(Requests!Symbol))

\* The lines found so far end where the next one is looked for, which is not behind the
\* empty line.
ParsingOK ==
  /\ line_start <= Len(request) - 2
  /\ IF lines = <<>> THEN line_start = 0
     ELSE line_start >= 2 /\ request[line_start - 1] = "CR" /\ request[line_start] = "LF"
  /\ SubSeq(request, 1, line_start) = Requests!Joined(lines)

RInv ==
  /\ RequestTypes
  /\ \A k \in 1..Len(request) - 1 : ~Ending(k)
  /\ progress \in {"reading", "refused"} =>
       ~Ending(Len(request)) /\ line_start = 0 /\ lines = <<>>
  /\ progress = "reading" => Len(request) = taken /\ dfa = Seen(taken)
  /\ progress \in {"parsing", "parsed"} => Ending(Len(request))
  /\ progress = "parsing" => ParsingOK
  /\ progress = "parsed" => request = Requests!Joined(lines) \o <<"CR", "LF">>

-----------------------------------------------------------------------------
(* The automaton *)

\* One byte more: the automaton has seen the end exactly if it is there.
LEMMA SeenNext ==
  ASSUME NEW k \in Nat
  PROVE  /\ Seen(k) # Final
         /\ Ending(k + 1) => Requests!NextState(Seen(k), sent[k + 1]) = Final
         /\ ~Ending(k + 1) => Requests!NextState(Seen(k), sent[k + 1]) = Seen(k + 1)
<1> DEFINE c == sent[k + 1]
<1>1. /\ (k + 1) - 1 = k /\ (k + 1) - 2 = k - 1 /\ (k + 1) - 3 = k - 2
      /\ k + 1 >= 1 /\ (k + 1 >= 2 <=> k >= 1) /\ (k + 1 >= 3 <=> k >= 2) /\ (k + 1 >= 4 <=> k >= 3)
  OBVIOUS
<1>2. Seen(k) # Final
  BY DEF Seen, Final
<1>3. Ending(k + 1) <=> (k >= 3 /\ sent[k - 2] = "CR" /\ sent[k - 1] = "LF" /\ sent[k] = "CR" /\ c = "LF")
  BY <1>1 DEF Ending
<1>4. Seen(k + 1) =
        IF c = "CR"
        THEN IF k >= 2 /\ sent[k - 1] = "CR" /\ sent[k] = "LF" THEN "seen_crlfcr" ELSE "seen_cr"
        ELSE IF k >= 1 /\ sent[k] = "CR" /\ c = "LF" THEN "seen_crlf" ELSE "initial"
  BY <1>1 DEF Seen
<1> HIDE DEF c
<1>5. CASE c = "CR"
  BY <1>2, <1>3, <1>4, <1>5 DEF Seen, Requests!NextState, Final, c
<1>6. CASE c = "LF"
  BY <1>2, <1>3, <1>4, <1>6 DEF Seen, Requests!NextState, Final, c
<1>7. CASE c # "CR" /\ c # "LF"
  BY <1>2, <1>3, <1>4, <1>7 DEF Seen, Requests!NextState, Final, c
<1> QED
  BY <1>5, <1>6, <1>7

\* After is the function its recursive definition describes.
LEMMA AfterAdvances ==
  ASSUME NEW n \in Nat, dfa \in DfaState
  PROVE  /\ Requests!After(n)[0] = dfa
         /\ \A k \in 1..n : Requests!After(n)[k] = Requests!NextState(Requests!After(n)[k - 1], sent[taken + k])
<1> DEFINE step == [k \in 1..n |-> [x \in DfaState |-> Requests!NextState(x, sent[taken + k])]]
           run == CHOOSE f : f = [k \in 0..n |->
                    IF k = 0 THEN dfa ELSE Requests!NextState(f[k - 1], sent[taken + k])]
<1>1. \A x \in DfaState : \A c : Requests!NextState(x, c) \in DfaState
  BY DEF Requests!NextState, DfaState, Final
<1>2. step \in [1..n -> [DfaState -> DfaState]]
  BY <1>1
<1>3. \A k \in 1..n, x \in DfaState : step[k][x] = Requests!NextState(x, sent[taken + k])
  OBVIOUS
<1> HIDE DEF step
<1>4. PICK f \in [0..n -> DfaState] : Walks(f, n, dfa, step)
  <2> HIDE DEF DfaState
  <2> QED
    BY <1>2, StepByStep
<1>5. ASSUME NEW i \in 1..n
      PROVE  f[i] = Requests!NextState(f[i - 1], sent[taken + i])
  <2>1. i - 1 \in 0..n
    OBVIOUS
  <2>2. f[i - 1] \in DfaState
    BY <2>1
  <2> QED
    BY <1>3, <1>4, <2>2 DEF Walks
<1>6. f = [k \in 0..n |-> IF k = 0 THEN dfa ELSE Requests!NextState(f[k - 1], sent[taken + k])]
  <2>1. ASSUME NEW k \in 0..n
        PROVE  f[k] = IF k = 0 THEN dfa ELSE Requests!NextState(f[k - 1], sent[taken + k])
    <3>1. k = 0 \/ k \in 1..n
      OBVIOUS
    <3> QED
      BY <1>4, <1>5, <3>1 DEF Walks
  <2> QED
    BY <2>1
<1>7. run = [k \in 0..n |-> IF k = 0 THEN dfa ELSE Requests!NextState(run[k - 1], sent[taken + k])]
  BY <1>6
<1>8. Requests!After(n) = run
  BY DEF Requests!After
<1> HIDE DEF run
<1>9. \A k \in 0..n : run[k] = IF k = 0 THEN dfa ELSE Requests!NextState(run[k - 1], sent[taken + k])
  BY <1>7
<1>10. 0 \in 0..n /\ \A k \in 1..n : k \in 0..n /\ k # 0
  OBVIOUS
<1> QED
  BY <1>8, <1>9, <1>10

\* As long as the automaton has not seen an end, there was none.
LEMMA NoEndSeen ==
  ASSUME NEW n \in Nat, taken \in Nat, dfa = Seen(taken), NEW u \in 0..n,
         \A j \in 1..u : Requests!After(n)[j] # Final
  PROVE  /\ Requests!After(n)[u] = Seen(taken + u)
         /\ \A j \in 1..u : ~Ending(taken + j)
<1> DEFINE run == Requests!After(n)
           Good == {k \in 0..u : run[k] = Seen(taken + k) /\ \A j \in 1..k : ~Ending(taken + j)}
<1>1. dfa \in DfaState
  BY DEF Seen, DfaState
<1>2. run[0] = dfa /\ \A k \in 1..n : run[k] = Requests!NextState(run[k - 1], sent[taken + k])
  BY <1>1, AfterAdvances
<1> HIDE DEF run
<1>3. 0 \in Good
  <2>1. taken + 0 = taken /\ 0 \in 0..u /\ \A j \in 1..0 : FALSE
    OBVIOUS
  <2> QED
    BY <1>2, <2>1
<1>4. ASSUME NEW k \in 1..u, k - 1 \in Good
      PROVE  k \in Good
  <2>1. /\ run[k - 1] = Seen(taken + (k - 1)) /\ \A j \in 1..k - 1 : ~Ending(taken + j)
        /\ k \in 1..n /\ k \in 0..u
    BY <1>4
  <2> DEFINE m == taken + (k - 1)
  <2>2. m \in Nat /\ m + 1 = taken + k
    OBVIOUS
  <2>3. run[k] = Requests!NextState(Seen(m), sent[m + 1])
    BY <1>2, <2>1, <2>2
  <2>4. /\ Ending(m + 1) => Requests!NextState(Seen(m), sent[m + 1]) = Final
        /\ ~Ending(m + 1) => Requests!NextState(Seen(m), sent[m + 1]) = Seen(m + 1)
    <3> HIDE DEF m
    <3> QED
      BY <2>2, SeenNext
  <2>5. run[k] # Final
    BY DEF run
  <2>6. ~Ending(taken + k) /\ run[k] = Seen(taken + k)
    <3> HIDE DEF m
    <3> QED
      BY <2>2, <2>3, <2>4, <2>5
  <2>7. ASSUME NEW j \in 1..k
        PROVE  ~Ending(taken + j)
    <3>1. j = k \/ j \in 1..k - 1
      OBVIOUS
    <3> QED
      BY <2>1, <2>6, <3>1
  <2> QED
    BY <2>1, <2>6, <2>7
<1>5. u \in Nat
  OBVIOUS
<1>6. 0..u \subseteq Good
  <2> HIDE DEF Good
  <2> QED
    BY <1>3, <1>4, <1>5, Upwards
<1>7. u \in Good
  BY <1>5, <1>6
<1> QED
  BY <1>7 DEF run

\* And if it sees one for the first time, there is one.
LEMMA EndSeen ==
  ASSUME NEW n \in Nat, taken \in Nat, dfa = Seen(taken), NEW u \in 1..n,
         Requests!After(n)[u] = Final, \A j \in 1..u - 1 : Requests!After(n)[j] # Final
  PROVE  Ending(taken + u) /\ \A j \in 1..u - 1 : ~Ending(taken + j)
<1> DEFINE run == Requests!After(n)
           m == taken + (u - 1)
<1>1. u - 1 \in 0..n /\ m \in Nat /\ m + 1 = taken + u
  OBVIOUS
<1>2. run[u - 1] = Seen(m) /\ \A j \in 1..u - 1 : ~Ending(taken + j)
  BY <1>1, NoEndSeen
<1>3. dfa \in DfaState
  BY DEF Seen, DfaState
<1>4. run[u] = Requests!NextState(run[u - 1], sent[taken + u])
  BY <1>3, AfterAdvances
<1> HIDE DEF m
<1>5. /\ Seen(m + 1) # Final
      /\ ~Ending(m + 1) => Requests!NextState(Seen(m), sent[m + 1]) = Seen(m + 1)
  <2>1. m + 1 \in Nat
    BY <1>1
  <2> QED
    BY <1>1, <2>1, SeenNext
<1> QED
  BY <1>1, <1>2, <1>4, <1>5

-----------------------------------------------------------------------------
(* Sequences of bytes and of lines *)

\* The end of a request, as the property states it and byte by byte.
LEMMA EndsIsEnding ==
  ASSUME sent \in Seq(Requests!Symbol), NEW k \in 0..Len(sent)
  PROVE  Requests!EndsRequest(k) <=> Ending(k)
<1>1. CASE k < 4
  BY <1>1 DEF Requests!EndsRequest, Ending
<1>2. CASE k >= 4
  <2> DEFINE s4 == SubSeq(sent, k - 3, k)
  <2>1. s4 \in Seq(Requests!Symbol) /\ Len(s4) = 4
    BY <1>2
  <2>2. s4[1] = sent[k - 3] /\ s4[2] = sent[k - 2] /\ s4[3] = sent[k - 1] /\ s4[4] = sent[k]
    BY <1>2
  <2>3. s4 = <<"CR", "LF", "CR", "LF">> <=> s4[1] = "CR" /\ s4[2] = "LF" /\ s4[3] = "CR" /\ s4[4] = "LF"
    <3> HIDE DEF s4
    <3> QED
      BY <2>1
  <2> HIDE DEF s4
  <2>4. Requests!EndsRequest(k) <=> s4 = <<"CR", "LF", "CR", "LF">>
    BY <1>2 DEF Requests!EndsRequest, s4
  <2> QED
    BY <1>2, <2>2, <2>3, <2>4 DEF Ending
<1> QED
  BY <1>1, <1>2

CrLf == <<"CR", "LF">>

\* f[k] is the text of the first k lines.
Texts(f, ls) == f[0] = <<>> /\ \A k \in 1..Len(ls) : f[k] = f[k - 1] \o ls[k] \o CrLf

\* Joined is what its recursive definition describes.
LEMMA JoinedAdvances ==
  ASSUME NEW ls \in Seq(Seq(Requests!Symbol))
  PROVE  \E f \in [0..Len(ls) -> Seq(Requests!Symbol)] : Texts(f, ls) /\ Requests!Joined(ls) = f[Len(ls)]
<1> DEFINE n == Len(ls)
           V == Seq(Requests!Symbol)
           step == [k \in 1..n |-> [x \in V |-> x \o ls[k] \o CrLf]]
           text == CHOOSE f : f = [k \in 0..n |-> IF k = 0 THEN <<>> ELSE f[k - 1] \o ls[k] \o <<"CR", "LF">>]
<1>1. CrLf \in V /\ <<>> \in V /\ n \in Nat
  BY DEF CrLf, Requests!Symbol
<1>2. \A k \in 1..n : ls[k] \in V
  OBVIOUS
<1>3. \A k \in 1..n, x \in V : x \o ls[k] \o CrLf \in V
  <2> SUFFICES ASSUME NEW k \in 1..n, NEW x \in V PROVE x \o ls[k] \o CrLf \in V
    OBVIOUS
  <2>1. x \o ls[k] \in V
    BY <1>2, ConcatProperties
  <2> QED
    BY <1>1, <2>1, ConcatProperties
<1> HIDE DEF V
<1>4. step \in [1..n -> [V -> V]]
  BY <1>3
<1>5. \A k \in 1..n, x \in V : step[k][x] = x \o ls[k] \o CrLf
  OBVIOUS
<1> HIDE DEF step, n
<1>6. PICK f \in [0..n -> V] : Walks(f, n, <<>>, step)
  BY <1>1, <1>4, StepByStep
<1>7. ASSUME NEW i \in 1..n
      PROVE  f[i] = f[i - 1] \o ls[i] \o CrLf
  <2>1. i - 1 \in 0..n
    BY <1>1
  <2>2. f[i - 1] \in V
    BY <2>1
  <2> QED
    BY <1>5, <1>6, <2>2 DEF Walks
<1>8. f = [k \in 0..n |-> IF k = 0 THEN <<>> ELSE f[k - 1] \o ls[k] \o <<"CR", "LF">>]
  <2>1. ASSUME NEW k \in 0..n
        PROVE  f[k] = IF k = 0 THEN <<>> ELSE f[k - 1] \o ls[k] \o <<"CR", "LF">>
    <3>1. k = 0 \/ k \in 1..n
      BY <1>1
    <3> QED
      BY <1>6, <1>7, <3>1 DEF Walks, CrLf
  <2> QED
    BY <2>1
<1>9. text = [k \in 0..n |-> IF k = 0 THEN <<>> ELSE text[k - 1] \o ls[k] \o <<"CR", "LF">>]
  BY <1>8
<1>10. Requests!Joined(ls) = text[n]
  BY DEF Requests!Joined, n
<1> HIDE DEF text
<1>11. \A k \in 0..n : text[k] = IF k = 0 THEN <<>> ELSE text[k - 1] \o ls[k] \o CrLf
  BY <1>9 DEF CrLf
<1>12. text[0] = <<>> /\ \A k \in 1..n : text[k] = text[k - 1] \o ls[k] \o CrLf
  <2>1. 0 \in 0..n /\ \A k \in 1..n : k \in 0..n /\ k # 0
    BY <1>1
  <2> QED
    BY <1>11, <2>1
<1> DEFINE Good == {k \in 0..n : text[k] = f[k]}
<1>13. 0 \in Good
  BY <1>1, <1>6, <1>12 DEF Walks
<1>14. ASSUME NEW k \in 1..n, k - 1 \in Good
      PROVE  k \in Good
  <2>1. text[k - 1] = f[k - 1] /\ k \in 0..n
    BY <1>1, <1>14
  <2>2. f[k] = f[k - 1] \o ls[k] \o CrLf /\ text[k] = text[k - 1] \o ls[k] \o CrLf
    BY <1>7, <1>12
  <2>3. text[k] = f[k]
    BY <2>1, <2>2
  <2> QED
    BY <2>1, <2>3
<1>15. 0..n \subseteq Good
  <2> HIDE DEF Good
  <2> QED
    BY <1>1, <1>13, <1>14, Upwards
<1>16. text[n] = f[n]
  BY <1>1, <1>15
<1>17. Texts(f, ls)
  BY <1>6, <1>7 DEF Texts, Walks, n
<1> QED
  BY <1>10, <1>16, <1>17 DEF n, V

\* No lines make an empty text, and a line more adds itself and its end.
LEMMA JoinedLines ==
  /\ Requests!Joined(<<>>) = <<>>
  /\ \A ls \in Seq(Seq(Requests!Symbol)), l \in Seq(Requests!Symbol) :
       /\ Requests!Joined(ls) \in Seq(Requests!Symbol)
       /\ Requests!Joined(Append(ls, l)) = Requests!Joined(ls) \o l \o CrLf
<1>1. Requests!Joined(<<>>) = <<>>
  <2>1. <<>> \in Seq(Seq(Requests!Symbol)) /\ Len(<<>>) = 0
    OBVIOUS
  <2> QED
    BY <2>1, JoinedAdvances DEF Texts
<1>2. ASSUME NEW ls \in Seq(Seq(Requests!Symbol)), NEW l \in Seq(Requests!Symbol)
      PROVE  /\ Requests!Joined(ls) \in Seq(Requests!Symbol)
             /\ Requests!Joined(Append(ls, l)) = Requests!Joined(ls) \o l \o CrLf
  <2> DEFINE n == Len(ls)
             V == Seq(Requests!Symbol)
             more == Append(ls, l)
  <2>1. /\ n \in Nat /\ more \in Seq(V) /\ Len(more) = n + 1 /\ more[n + 1] = l
        /\ \A k \in 1..n : more[k] = ls[k]
    OBVIOUS
  <2>2. PICK f \in [0..n -> V] : Texts(f, ls) /\ Requests!Joined(ls) = f[n]
    BY JoinedAdvances
  <2>3. PICK g \in [0..Len(more) -> V] : Texts(g, more) /\ Requests!Joined(more) = g[Len(more)]
    <3> HIDE DEF more
    <3> QED
      BY <2>1, JoinedAdvances
  <2> HIDE DEF n, more, V
  <2> DEFINE Good == {k \in 0..n : f[k] = g[k]}
  <2>4. /\ f[0] = <<>> /\ \A k \in 1..n : f[k] = f[k - 1] \o ls[k] \o CrLf
        /\ g[0] = <<>> /\ \A k \in 1..n + 1 : g[k] = g[k - 1] \o more[k] \o CrLf
    BY <2>1, <2>2, <2>3 DEF Texts, n
  <2>5. 0 \in Good
    BY <2>1, <2>4
  <2>6. ASSUME NEW k \in 1..n, k - 1 \in Good
        PROVE  k \in Good
    <3>1. f[k - 1] = g[k - 1] /\ k \in 0..n /\ k \in 1..n + 1 /\ more[k] = ls[k]
      BY <2>1, <2>6
    <3>2. f[k] = f[k - 1] \o ls[k] \o CrLf /\ g[k] = g[k - 1] \o more[k] \o CrLf
      BY <2>4, <3>1
    <3>3. f[k] = g[k]
      BY <3>1, <3>2
    <3> QED
      BY <3>1, <3>3
  <2>7. 0..n \subseteq Good
    <3> HIDE DEF Good
    <3> QED
      BY <2>1, <2>5, <2>6, Upwards
  <2>8. n \in 0..n /\ n + 1 \in 1..n + 1 /\ (n + 1) - 1 = n
    BY <2>1
  <2>9. f[n] = g[n] /\ g[n + 1] = g[n] \o l \o CrLf
    BY <2>1, <2>4, <2>7, <2>8
  <2> QED
    BY <2>1, <2>2, <2>3, <2>8, <2>9 DEF more, V
<1> QED
  BY <1>1, <1>2

\* The front of a sequence and what follows make up a longer front.
LEMMA FrontGrows ==
  ASSUME NEW T, NEW whole \in Seq(T), NEW front \in Seq(T), NEW u \in Nat,
         Len(front) + u <= Len(whole), \A i \in 1..Len(front) : front[i] = whole[i],
         NEW longer, longer = front \o SubSeq(whole, Len(front) + 1, Len(front) + u)
  PROVE  /\ longer \in Seq(T) /\ Len(longer) = Len(front) + u
         /\ \A i \in 1..Len(longer) : longer[i] = whole[i]
<1> DEFINE n == Len(front)
           more == SubSeq(whole, n + 1, n + u)
<1>1. n \in Nat
  OBVIOUS
<1>2. more \in Seq(T) /\ Len(more) = u /\ \A j \in 1..u : more[j] = whole[n + j]
  <2>1. \A j \in n + 1..n + u : whole[j] \in T
    BY <1>1
  <2> QED
    BY <1>1, <2>1, SubSeqProperties
<1> HIDE DEF more
<1>3. /\ longer \in Seq(T) /\ Len(longer) = n + u
      /\ \A i \in 1..n + u : longer[i] = IF i <= n THEN front[i] ELSE more[i - n]
  BY <1>1, <1>2, ConcatProperties DEF more
<1>4. ASSUME NEW i \in 1..n + u
      PROVE  longer[i] = whole[i]
  <2>1. CASE i <= n
    BY <1>3, <2>1
  <2>2. CASE i > n
    <3>1. i - n \in 1..u /\ n + (i - n) = i
      BY <1>1, <2>2
    <3>2. longer[i] = more[i - n]
      BY <1>1, <1>3, <2>2
    <3> QED
      BY <1>2, <3>1, <3>2
  <2> QED
    BY <1>1, <2>1, <2>2
<1> QED
  BY <1>3, <1>4

-----------------------------------------------------------------------------
(* The invariant *)

LEMMA StartsRight ==
  ASSUME Requests!Init
  PROVE  RInv
<1>1. PICK n \in 0..RequestLen : sent \in [1..n -> Requests!Symbol]
  BY DEF Requests!Init
<1>2. sent \in Seq(Requests!Symbol) /\ Len(sent) \in Nat
  BY <1>1, ReadAssumption DEF Requests!RequestsAssumption
<1>3. /\ taken = 0 /\ dfa = "initial" /\ request = <<>> /\ Len(request) = 0
      /\ progress = "reading" /\ line_start = 0 /\ lines = <<>>
  BY DEF Requests!Init
<1>4. RequestTypes
  BY <1>2, <1>3 DEF RequestTypes
<1>5. ~Ending(0) /\ Seen(0) = "initial"
  BY DEF Ending, Seen
<1> QED
  BY <1>3, <1>4, <1>5 DEF RInv

\* What the reader has of the request after n more bytes.
LEMMA ReadKeeps ==
  ASSUME RInv, Requests!ReadHttpRequest
  PROVE  RInv'
<1> DEFINE done(n) == {k \in 1..n : Requests!After(n)[k] = "seen_crlfcrlf"}
<1>1. PICK n \in 1..ReadSize :
        LET ends == done(n)
            used == IF ends = {} THEN n ELSE CHOOSE k \in ends : \A j \in ends : k <= j
        IN  /\ taken + n <= Len(sent)
            /\ taken' = taken + n
            /\ dfa' = Requests!After(n)[used]
            /\ request' = request \o SubSeq(sent, taken + 1, taken + used)
            /\ progress' = IF ends = {} THEN "reading" ELSE "parsing"
  BY DEF Requests!ReadHttpRequest
<1>2. progress = "reading" /\ sent' = sent /\ line_start' = line_start /\ lines' = lines
  BY DEF Requests!ReadHttpRequest
<1>3. /\ RequestTypes /\ Len(request) = taken /\ dfa = Seen(taken)
      /\ \A k \in 1..taken - 1 : ~Ending(k)
      /\ ~Ending(taken) /\ line_start = 0 /\ lines = <<>>
  BY <1>2 DEF RInv
<1>4. n \in Nat /\ n >= 1 /\ taken \in Nat /\ Len(sent) \in Nat
  BY <1>3, ReadAssumption DEF Requests!RequestsAssumption, RequestTypes
<1> DEFINE run == Requests!After(n)
           ends == {k \in 1..n : run[k] = "seen_crlfcrlf"}
           used == IF ends = {} THEN n ELSE CHOOSE k \in ends : \A j \in ends : k <= j
<1>5. /\ taken + n <= Len(sent) /\ taken' = taken + n /\ dfa' = run[used]
      /\ request' = request \o SubSeq(sent, taken + 1, taken + used)
      /\ progress' = IF ends = {} THEN "reading" ELSE "parsing"
  BY <1>1
<1>6. used \in 1..n /\ (ends # {} => used \in ends /\ \A j \in ends : used <= j)
  <2>1. CASE ends = {}
    BY <1>4, <2>1
  <2>2. CASE ends # {}
    <3>1. ends \subseteq Nat /\ ends \subseteq 1..n
      OBVIOUS
    <3>2. \E k \in ends : \A j \in ends : k <= j
      <4> HIDE DEF ends
      <4> QED
        BY <2>2, <3>1, LeastNumber
    <3> HIDE DEF ends
    <3>3. used \in ends /\ \A j \in ends : used <= j
      BY <2>2, <3>2
    <3> QED
      BY <3>1, <3>3
  <2> QED
    BY <2>1, <2>2
<1>7. \A j \in 1..used - 1 : run[j] # Final
  <2>1. CASE ends = {}
    <3>1. used = n
      BY <2>1
    <3> QED
      BY <1>4, <2>1, <3>1 DEF Final
  <2>2. CASE ends # {}
    <3>1. ASSUME NEW j \in 1..used - 1, run[j] = Final
          PROVE  FALSE
      <4> HIDE DEF used
      <4>1. j \in 1..n /\ j < used
        BY <1>6
      <4>2. j \in ends
        BY <3>1, <4>1 DEF Final
      <4>3. used <= j
        BY <1>6, <2>2, <4>2
      <4> QED
        BY <1>6, <4>1, <4>3
    <3> QED
      BY <3>1
  <2> QED
    BY <2>1, <2>2
<1>8. /\ ends = {} => \A j \in 1..used : run[j] # Final
      /\ ends # {} => run[used] = Final
      /\ ends = {} => used = n
  BY <1>4, <1>6 DEF Final
<1> HIDE DEF used, ends, run
<1>9. \A j \in 1..used - 1 : ~Ending(taken + j)
  <2>1. used - 1 \in 0..n /\ \A j \in 1..used - 1 : Requests!After(n)[j] # Final
    BY <1>6, <1>7 DEF run
  <2>2. \A j \in 1..used - 1 : ~Ending(taken + j)
    BY <1>3, <1>4, <2>1, NoEndSeen
  <2> QED
    BY <2>2
<1>10. ends = {} => run[used] = Seen(taken + used) /\ ~Ending(taken + used)
  <2> SUFFICES ASSUME ends = {} PROVE run[used] = Seen(taken + used) /\ ~Ending(taken + used)
    OBVIOUS
  <2>1. used \in 0..n /\ used \in 1..used /\ \A j \in 1..used : Requests!After(n)[j] # Final
    BY <1>6, <1>8 DEF run
  <2>2. /\ Requests!After(n)[used] = Seen(taken + used)
        /\ \A j \in 1..used : ~Ending(taken + j)
    BY <1>3, <1>4, <2>1, NoEndSeen
  <2> QED
    BY <2>1, <2>2 DEF run
<1>11. ends # {} => Ending(taken + used)
  <2> SUFFICES ASSUME ends # {} PROVE Ending(taken + used)
    OBVIOUS
  <2>1. Requests!After(n)[used] = Final /\ \A j \in 1..used - 1 : Requests!After(n)[j] # Final
    BY <1>7, <1>8 DEF run
  <2> QED
    BY <1>3, <1>4, <1>6, <2>1, EndSeen
<1> DEFINE grown == taken + used
<1>12. /\ request' \in Seq(Requests!Symbol) /\ Len(request') = grown
       /\ \A i \in 1..Len(request') : request'[i] = sent[i]
  <2>1. /\ sent \in Seq(Requests!Symbol) /\ request \in Seq(Requests!Symbol) /\ used \in Nat
        /\ Len(request) + used <= Len(sent)
        /\ \A i \in 1..Len(request) : request[i] = sent[i]
        /\ request' = request \o SubSeq(sent, Len(request) + 1, Len(request) + used)
    BY <1>3, <1>4, <1>5, <1>6 DEF RequestTypes
  <2>2. PICK whole, front, longer, u : whole = sent /\ front = request /\ longer = request' /\ u = used
    OBVIOUS
  <2>3. PICK T : T = Requests!Symbol
    OBVIOUS
  <2>4. /\ whole \in Seq(T) /\ front \in Seq(T) /\ u \in Nat /\ Len(front) + u <= Len(whole)
        /\ \A i \in 1..Len(front) : front[i] = whole[i]
        /\ longer = front \o SubSeq(whole, Len(front) + 1, Len(front) + u)
    BY <2>1, <2>2, <2>3
  <2>5. /\ longer \in Seq(T) /\ Len(longer) = Len(front) + u
        /\ \A i \in 1..Len(longer) : longer[i] = whole[i]
    BY <2>4, FrontGrows
  <2> QED
    BY <1>3, <2>2, <2>3, <2>5
<1>13. \A k \in 1..grown - 1 : ~Ending(k)
  <2> SUFFICES ASSUME NEW k \in 1..grown - 1 PROVE ~Ending(k)
    OBVIOUS
  <2>1. CASE k <= taken
    <3>1. k \in 1..taken - 1 \/ k = taken
      BY <1>4, <2>1
    <3> QED
      BY <1>3, <3>1
  <2>2. CASE k > taken
    <3>1. k - taken \in 1..used - 1 /\ taken + (k - taken) = k
      BY <1>4, <1>6, <2>2
    <3> QED
      BY <1>9, <3>1
  <2> QED
    BY <1>4, <2>1, <2>2
<1>14. \A k : Ending(k)' <=> Ending(k)
  BY <1>2 DEF Ending
<1>15. grown \in Nat /\ grown <= taken + n
  BY <1>4, <1>6
<1>16. RequestTypes'
  <2>1. taken' \in 0..Len(sent) /\ grown <= Len(sent)
    BY <1>4, <1>5, <1>15
  <2>2. progress' \in {"reading", "parsing", "parsed", "refused"}
    BY <1>5
  <2> HIDE DEF grown
  <2> QED
    BY <1>2, <1>3, <1>12, <2>1, <2>2 DEF RequestTypes
<1>17. Len(request') = taken + used /\ \A k \in 1..Len(request') - 1 : ~Ending(k)'
  BY <1>12, <1>13, <1>14
<1>18. CASE ends = {}
  <2>1. progress' = "reading" /\ taken' = taken + used /\ dfa' = Seen(taken + used)
    BY <1>5, <1>8, <1>10, <1>18
  <2>2. ~Ending(Len(request))'
    BY <1>2, <1>10, <1>17, <1>18 DEF Ending
  <2>3. Seen(taken)' = dfa'
    BY <1>2, <2>1 DEF Seen
  <2> QED
    BY <1>2, <1>3, <1>16, <1>17, <2>1, <2>2, <2>3 DEF RInv
<1>19. CASE ends # {}
  <2>1. progress' = "parsing" /\ Ending(Len(request))'
    BY <1>2, <1>5, <1>11, <1>17, <1>19 DEF Ending
  <2>2. ParsingOK'
    <3>1. Len(request') >= 4
      BY <1>11, <1>17, <1>19 DEF Ending
    <3>2. SubSeq(request', 1, 0) = <<>>
      BY <1>12
    <3>3. Requests!Joined(lines)' = <<>>
      <4>1. Requests!Joined(lines)' = Requests!Joined(lines')
        BY DEF Requests!Joined
      <4> QED
        BY <1>2, <1>3, <4>1, JoinedLines
    <3>4. line_start' = 0 /\ lines' = <<>> /\ Len(request') \in Nat
      BY <1>2, <1>3, <1>12
    <3> QED
      BY <3>1, <3>2, <3>3, <3>4 DEF ParsingOK
  <2> QED
    BY <1>16, <1>17, <2>1, <2>2 DEF RInv
<1> QED
  BY <1>18, <1>19

\* A text up to a line end, in pieces: the front, the line and its end.
LEMMA CutAtLineEnd ==
  ASSUME NEW r \in Seq(Requests!Symbol), NEW p \in Nat, NEW q \in Nat, p <= q, q + 2 <= Len(r),
         r[q + 1] = "CR", r[q + 2] = "LF"
  PROVE  /\ SubSeq(r, p + 1, q) \in Seq(Requests!Symbol)
         /\ SubSeq(r, 1, q + 2) = SubSeq(r, 1, p) \o SubSeq(r, p + 1, q) \o CrLf
         /\ SubSeq(r, 1, q + 2) = SubSeq(r, 1, q) \o CrLf
<1> DEFINE T == Requests!Symbol
           x == SubSeq(r, 1, p)
           y == SubSeq(r, p + 1, q)
           xy == SubSeq(r, 1, q)
           all == SubSeq(r, 1, q + 2)
<1>1. x \in Seq(T) /\ Len(x) = p /\ \A i \in 1..p : x[i] = r[i]
  OBVIOUS
<1>2. y \in Seq(T) /\ Len(y) = q - p /\ \A i \in 1..q - p : y[i] = r[p + i]
  OBVIOUS
<1>3. xy \in Seq(T) /\ Len(xy) = q /\ \A i \in 1..q : xy[i] = r[i]
  OBVIOUS
<1>4. all \in Seq(T) /\ Len(all) = q + 2 /\ \A i \in 1..q + 2 : all[i] = r[i]
  OBVIOUS
<1>5. CrLf \in Seq(T) /\ Len(CrLf) = 2 /\ CrLf[1] = "CR" /\ CrLf[2] = "LF"
  BY DEF CrLf, Requests!Symbol
<1> HIDE DEF x, y, xy, all, T
<1>6. x \o y = xy
  <2> DEFINE c == x \o y
  <2>1. /\ c \in Seq(T) /\ Len(c) = q
        /\ \A i \in 1..q : c[i] = IF i <= p THEN x[i] ELSE y[i - p]
    <3>1. /\ c \in Seq(T) /\ Len(c) = Len(x) + Len(y)
          /\ \A i \in 1..Len(x) + Len(y) : c[i] = IF i <= Len(x) THEN x[i] ELSE y[i - Len(x)]
      <4>1. x \in Seq(T) /\ y \in Seq(T)
        BY <1>1, <1>2
      <4> QED
        BY <4>1, ConcatProperties
    <3>2. Len(x) = p /\ Len(x) + Len(y) = q
      <4>1. Len(x) = p /\ Len(y) = q - p
        BY <1>1, <1>2
      <4>2. p + (q - p) = q
        OBVIOUS
      <4> QED
        BY <4>1, <4>2
    <3> HIDE DEF c
    <3> QED
      BY <3>1, <3>2
  <2> HIDE DEF c
  <2>2. ASSUME NEW i \in 1..q
        PROVE  c[i] = r[i]
    <3>1. CASE i <= p
      BY <1>1, <2>1, <3>1
    <3>2. CASE i > p
      <4>1. i - p \in 1..q - p /\ p + (i - p) = i
        BY <3>2
      <4>2. c[i] = y[i - p]
        BY <2>1, <3>2
      <4> QED
        BY <1>2, <4>1, <4>2
    <3> QED
      BY <3>1, <3>2
  <2>3. c = xy
    BY <1>3, <2>1, <2>2, SeqEqual
  <2> QED
    BY <2>3 DEF c
<1>7. xy \o CrLf = all
  <2> DEFINE c == xy \o CrLf
  <2>1. /\ c \in Seq(T) /\ Len(c) = q + 2
        /\ \A i \in 1..q + 2 : c[i] = IF i <= q THEN xy[i] ELSE CrLf[i - q]
    <3>1. /\ c \in Seq(T) /\ Len(c) = Len(xy) + Len(CrLf)
          /\ \A i \in 1..Len(xy) + Len(CrLf) : c[i] = IF i <= Len(xy) THEN xy[i] ELSE CrLf[i - Len(xy)]
      BY <1>3, <1>5, ConcatProperties
    <3>2. Len(xy) = q /\ Len(xy) + Len(CrLf) = q + 2
      BY <1>3, <1>5
    <3> HIDE DEF c
    <3> QED
      BY <3>1, <3>2
  <2> HIDE DEF c
  <2>2. ASSUME NEW i \in 1..q + 2
        PROVE  c[i] = r[i]
    <3>1. CASE i <= q
      BY <1>3, <2>1, <3>1
    <3>2. CASE i > q
      <4>1. (i = q + 1 /\ i - q = 1) \/ (i = q + 2 /\ i - q = 2)
        BY <3>2
      <4>2. c[i] = CrLf[i - q]
        BY <2>1, <3>2
      <4> QED
        BY <1>5, <4>1, <4>2
    <3> QED
      BY <3>1, <3>2
  <2>3. c = all
    BY <1>4, <2>1, <2>2, SeqEqual
  <2> QED
    BY <2>3 DEF c
<1> QED
  BY <1>2, <1>6, <1>7 DEF x, y, xy, all, T

\* The search for the next line end of a request that was read finds one: before the
\* empty line, or that of the empty line itself.
LEMMA FindsLineEnd ==
  ASSUME RequestTypes, Ending(Len(request)), ParsingOK
  PROVE  /\ Requests!LineEnds(line_start) # {}
         /\ Requests!LineEnd \in line_start..Len(request) - 2
         /\ request[Requests!LineEnd + 1] = "CR" /\ request[Requests!LineEnd + 2] = "LF"
         /\ \/ Requests!LineEnd <= Len(request) - 4
            \/ Requests!LineEnd = line_start /\ line_start = Len(request) - 2
         /\ Len(request) >= 4
<1> DEFINE n == Len(request)
           ends == Requests!LineEnds(line_start)
           e == Requests!LineEnd
<1>1. /\ n \in Nat /\ n >= 4 /\ line_start \in Nat /\ line_start <= n - 2
      /\ \A i \in 1..n : request[i] = sent[i]
  BY DEF RequestTypes, Ending, ParsingOK
<1>2. request[n - 3] = "CR" /\ request[n - 2] = "LF" /\ request[n - 1] = "CR" /\ request[n] = "LF"
  <2>1. n - 3 \in 1..n /\ n - 2 \in 1..n /\ n - 1 \in 1..n /\ n \in 1..n
    BY <1>1
  <2> QED
    BY <1>1, <2>1 DEF Ending
<1>3. \A i : i \in ends <=> i \in line_start..n - 2 /\ request[i + 1] = "CR" /\ request[i + 2] = "LF"
  BY DEF Requests!LineEnds
<1> HIDE DEF n
<1>4. n - 2 \in ends
  <2>1. (n - 2) + 1 = n - 1 /\ (n - 2) + 2 = n /\ n - 2 \in line_start..n - 2
    BY <1>1
  <2> QED
    BY <1>2, <1>3, <2>1
<1>5. ends \subseteq Nat
  BY <1>1, <1>3
<1>6. e \in ends /\ \A i \in ends : e <= i
  <2>1. \E m \in ends : \A i \in ends : m <= i
    <3> HIDE DEF ends
    <3> QED
      BY <1>4, <1>5, LeastNumber
  <2>2. e = CHOOSE m \in ends : \A i \in ends : m <= i
    BY DEF Requests!LineEnd
  <2> HIDE DEF ends, e
  <2> QED
    BY <2>1, <2>2
<1> HIDE DEF ends, e
<1>7. e \in line_start..n - 2 /\ request[e + 1] = "CR" /\ request[e + 2] = "LF"
  BY <1>3, <1>6
<1>8. e <= n - 4 \/ (e = line_start /\ line_start = n - 2)
  <2>1. CASE line_start <= n - 4
    <3>1. (n - 4) + 1 = n - 3 /\ (n - 4) + 2 = n - 2 /\ n - 4 \in line_start..n - 2
      BY <1>1, <2>1
    <3>2. n - 4 \in ends
      BY <1>2, <1>3, <3>1
    <3> QED
      BY <1>6, <3>2
  <2>2. CASE line_start = n - 3
    <3>1. line_start # 0
      BY <1>1, <2>2
    <3>2. request[line_start] = "LF"
      BY <3>1 DEF ParsingOK
    <3> QED
      BY <1>2, <2>2, <3>2
  <2>3. CASE line_start = n - 2
    BY <1>1, <1>7, <2>3
  <2> QED
    BY <1>1, <2>1, <2>2, <2>3
<1> QED
  BY <1>1, <1>4, <1>7, <1>8 DEF n, ends, e

LEMMA LineKeeps ==
  ASSUME RInv, Requests!ParseLine
  PROVE  RInv'
<1> DEFINE n == Len(request)
           e == Requests!LineEnd
           line == SubSeq(request, line_start + 1, e)
<1>1. /\ progress = "parsing" /\ progress' = progress /\ sent' = sent /\ taken' = taken
      /\ dfa' = dfa /\ request' = request
  BY DEF Requests!ParseLine
<1>2. RequestTypes /\ Ending(n) /\ ParsingOK /\ \A k \in 1..n - 1 : ~Ending(k)
  BY <1>1 DEF RInv
<1>3. /\ Requests!LineEnds(line_start) # {} /\ e \in line_start..n - 2
      /\ request[e + 1] = "CR" /\ request[e + 2] = "LF"
      /\ e <= n - 4 \/ (e = line_start /\ line_start = n - 2)
      /\ n >= 4
  BY <1>2, FindsLineEnd
<1>4. /\ lines = <<>> \/ e # line_start
      /\ line_start' = e + 2 /\ lines' = Append(lines, line)
  BY <1>3 DEF Requests!ParseLine
<1>5. /\ line_start \in Nat /\ n \in Nat /\ request \in Seq(Requests!Symbol)
      /\ lines \in Seq(Seq(Requests!Symbol))
      /\ IF lines = <<>> THEN line_start = 0 ELSE line_start >= 2
      /\ SubSeq(request, 1, line_start) = Requests!Joined(lines)
  BY <1>2 DEF RequestTypes, ParsingOK
<1> HIDE DEF e
<1>6. e \in Nat /\ line_start <= e /\ e <= n - 4
  <2> HIDE DEF n
  <2> QED
    BY <1>3, <1>4, <1>5
<1>7. /\ line \in Seq(Requests!Symbol)
      /\ SubSeq(request, 1, e + 2) = SubSeq(request, 1, line_start) \o line \o CrLf
  <2>1. e + 2 <= Len(request)
    BY <1>5, <1>6
  <2> QED
    BY <1>3, <1>5, <1>6, <2>1, CutAtLineEnd
<1> HIDE DEF line
<1>8. /\ lines' \in Seq(Seq(Requests!Symbol)) /\ lines' # <<>>
      /\ Requests!Joined(lines') = SubSeq(request, 1, e + 2)
  <2>1. Append(lines, line) \in Seq(Seq(Requests!Symbol)) /\ Append(lines, line) # <<>>
    <3>1. PICK V : V = Seq(Requests!Symbol)
      OBVIOUS
    <3>2. lines \in Seq(V) /\ line \in V
      BY <1>5, <1>7, <3>1
    <3>3. Append(lines, line) \in Seq(V) /\ Append(lines, line) # <<>>
      BY <3>2, AppendProperties
    <3> QED
      BY <3>1, <3>3
  <2> QED
    BY <1>4, <1>5, <1>7, <2>1, JoinedLines
<1>9. Requests!Joined(lines)' = Requests!Joined(lines')
  BY DEF Requests!Joined
<1>10. (e + 2) - 1 = e + 1 /\ e + 2 \in Nat /\ e + 2 >= 2 /\ e + 2 <= n - 2
  BY <1>5, <1>6
<1>11. ParsingOK'
  BY <1>1, <1>3, <1>4, <1>8, <1>9, <1>10 DEF ParsingOK
<1>12. RequestTypes'
  BY <1>1, <1>2, <1>4, <1>8, <1>10 DEF RequestTypes
<1>13. Ending(Len(request))' /\ \A k \in 1..Len(request') - 1 : ~Ending(k)'
  BY <1>1, <1>2 DEF Ending
<1> QED
  BY <1>1, <1>11, <1>12, <1>13 DEF RInv

\* The empty line is the one that ends the request, as none before it does.
LEMMA HeaderKeeps ==
  ASSUME RInv, Requests!EndOfHeader
  PROVE  RInv'
<1> DEFINE n == Len(request)
           e == Requests!LineEnd
<1>1. /\ progress = "parsing" /\ progress' = "parsed" /\ sent' = sent /\ taken' = taken
      /\ dfa' = dfa /\ request' = request /\ lines' = lines
      /\ lines # <<>> /\ e = line_start /\ line_start' = e + 2
  BY DEF Requests!EndOfHeader
<1>2. RequestTypes /\ Ending(n) /\ ParsingOK /\ \A k \in 1..n - 1 : ~Ending(k)
  BY <1>1 DEF RInv
<1>3. /\ e \in line_start..n - 2
      /\ request[e + 1] = "CR" /\ request[e + 2] = "LF"
      /\ e <= n - 4 \/ (e = line_start /\ line_start = n - 2)
      /\ n >= 4
  BY <1>2, FindsLineEnd
<1>4. /\ line_start \in Nat /\ n \in Nat /\ request \in Seq(Requests!Symbol)
      /\ \A i \in 1..n : request[i] = sent[i]
      /\ line_start >= 2 /\ request[line_start - 1] = "CR" /\ request[line_start] = "LF"
      /\ SubSeq(request, 1, line_start) = Requests!Joined(lines)
  BY <1>1, <1>2 DEF RequestTypes, ParsingOK
<1> HIDE DEF e
<1>5. line_start = n - 2
  <2> SUFFICES ASSUME line_start <= n - 4 PROVE FALSE
    BY <1>1, <1>3
  <2> DEFINE k == line_start + 2
  <2>1. /\ k \in 1..n - 1 /\ k >= 4 /\ k - 3 = line_start - 1 /\ k - 2 = line_start
        /\ k - 1 = line_start + 1
    BY <1>4
  <2>2. /\ request[k - 3] = "CR" /\ request[k - 2] = "LF"
        /\ request[k - 1] = "CR" /\ request[k] = "LF"
    BY <1>1, <1>3, <1>4, <2>1
  <2>3. k - 3 \in 1..n /\ k - 2 \in 1..n /\ k - 1 \in 1..n /\ k \in 1..n
    BY <1>4, <2>1
  <2> HIDE DEF k
  <2>4. Ending(k)
    BY <1>4, <2>1, <2>2, <2>3 DEF Ending
  <2> QED
    BY <1>2, <2>1, <2>4
<1>6. line_start + 2 = n /\ line_start + 2 <= n
  BY <1>4, <1>5
<1>7. SubSeq(request, 1, line_start + 2) = SubSeq(request, 1, line_start) \o CrLf
  BY <1>1, <1>3, <1>4, <1>6, CutAtLineEnd
<1>8. SubSeq(request, 1, n) = request
  BY <1>4
<1>9. request = Requests!Joined(lines) \o <<"CR", "LF">>
  BY <1>4, <1>6, <1>7, <1>8 DEF CrLf
<1>10. Requests!Joined(lines)' = Requests!Joined(lines')
  BY DEF Requests!Joined
<1>11. RequestTypes'
  BY <1>1, <1>2, <1>4 DEF RequestTypes
<1>12. Ending(Len(request))' /\ \A k \in 1..Len(request') - 1 : ~Ending(k)'
  BY <1>1, <1>2 DEF Ending
<1> QED
  BY <1>1, <1>9, <1>10, <1>11, <1>12 DEF RInv

\* The request is read to its end, and its lines are found.
LEMMA RInvReads ==
  ASSUME RInv
  PROVE  RequestsRead
<1>1. RequestTypes /\ Len(request) \in 0..Len(sent) /\ Len(sent) \in Nat
  BY DEF RInv, RequestTypes
<1>2. \A k \in 0..Len(sent) : Requests!EndsRequest(k) <=> Ending(k)
  BY <1>1, EndsIsEnding DEF RequestTypes
<1>3. request = SubSeq(sent, 1, Len(request))
  <2> DEFINE front == SubSeq(sent, 1, Len(request))
  <2>1. /\ front \in Seq(Requests!Symbol) /\ Len(front) = Len(request)
        /\ \A i \in 1..Len(request) : front[i] = sent[i]
    BY <1>1 DEF RequestTypes
  <2> HIDE DEF front
  <2>2. request \in Seq(Requests!Symbol) /\ \A i \in 1..Len(request) : request[i] = sent[i]
    BY <1>1 DEF RequestTypes
  <2>3. front = request
    BY <2>1, <2>2, SeqEqual
  <2> QED
    BY <2>3 DEF front
<1>4. ASSUME NEW k \in 1..Len(request), Requests!EndsRequest(k)
      PROVE  k = Len(request)
  <2>1. Ending(k)
    BY <1>1, <1>2, <1>4
  <2> QED
    BY <1>1, <2>1 DEF RInv
<1>5. progress \in {"parsing", "parsed"} <=> Len(request) > 0 /\ Requests!EndsRequest(Len(request))
  <2>1. Requests!EndsRequest(Len(request)) <=> Ending(Len(request))
    BY <1>1, <1>2
  <2>2. Ending(Len(request)) => Len(request) > 0
    BY <1>1 DEF Ending
  <2>3. progress \in {"reading", "parsing", "parsed", "refused"}
    BY <1>1 DEF RequestTypes
  <2> QED
    BY <2>1, <2>2, <2>3 DEF RInv
<1>6. Requests!RequestEndFound
  BY <1>3, <1>4, <1>5 DEF Requests!RequestEndFound
<1>7. Requests!LinesAreTheRequest
  <2>1. progress = "parsing" => Requests!LineEnds(line_start) # {}
    BY FindsLineEnd DEF RInv
  <2> QED
    BY <2>1 DEF RInv, Requests!LinesAreTheRequest
<1> QED
  BY <1>6, <1>7 DEF RequestsRead, Requests!RequestsRead

\* A request goes to the first CR LF CR LF the browser sent, wherever the chunks were cut
\* and however long it is, and Parse finds every line of it and then the empty line.
THEOREM RequestsReadToTheirEnd == Requests!Spec => []RequestsRead
<1>1. Requests!Init => RInv
  BY StartsRight
<1>2. RInv /\ [Requests!Next]_(Requests!vars) => RInv'
  <2> SUFFICES ASSUME RInv, [Requests!Next]_(Requests!vars) PROVE RInv'
    OBVIOUS
  <2>1. CASE Requests!ReadHttpRequest
    BY <2>1, ReadKeeps
  <2>2. CASE Requests!RefuseRequest
    BY <2>2 DEF Requests!RefuseRequest, RInv, RequestTypes, Ending, ParsingOK
  <2>3. CASE Requests!ParseLine
    BY <2>3, LineKeeps
  <2>4. CASE Requests!EndOfHeader
    BY <2>4, HeaderKeeps
  <2>5. CASE UNCHANGED Requests!vars
    <3>1. Requests!Joined(lines)' = Requests!Joined(lines')
      BY DEF Requests!Joined
    <3> QED
      BY <2>5, <3>1 DEF Requests!vars, RInv, RequestTypes, Ending, Seen, ParsingOK
  <2> QED
    BY <2>1, <2>2, <2>3, <2>4, <2>5 DEF Requests!Next
<1>3. RInv => RequestsRead
  BY RInvReads
<1> QED
  BY <1>1, <1>2, <1>3, PTL DEF Requests!Spec
==============================================================================
