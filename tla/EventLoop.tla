----------------------------- MODULE EventLoop -----------------------------
(***************************************************************************)
(* The life of a connection in mio::IOServer.  A Connection is alive while *)
(* the list connections_ or somebody else has a shared_ptr to it; while it *)
(* is alive its socket is open, and while its socket is open epoll reports *)
(* it, with an iterator into connections_ as the data of the event.        *)
(* MessageManager keeps weak_ptrs only, but SendMessage on the game thread *)
(* locks one for as long as it takes to queue a message.                   *)
(*                                                                         *)
(* What a write puts on the socket is OutputPath, what the messages mean   *)
(* is GameServer.  Each peer connects once.                                *)
(***************************************************************************)
CONSTANTS
  Peers,     \* the processes that connect
  Listener   \* the listening socket's connection, always in the list

VARIABLES
  net,           \* a peer's socket: "away", "backlog", "open", "eof", "reset" or "closed" by the server
  unread,        \* peers whose bytes wait in their sockets
  connections_,  \* peers whose Connection is in IOServer::connections_
  known,         \* peers that MessageManager has a weak_ptr to
  locked,        \* peers whose Connection SendMessage holds
  pending,       \* peers with a message in their output_queue_
  batch,         \* events_: the flags of each event not handled yet
  erased_polled, \* history: locked but not in the list at the last epoll_wait
  outcome        \* "running", "threw" out of eventLoop, or "undefined"

vars == <<net, unread, connections_, known, locked, pending, batch, erased_polled, outcome>>

Init ==
  /\ net = [p \in Peers |-> "away"]
  /\ unread = {} /\ connections_ = {} /\ known = {} /\ locked = {} /\ pending = {}
  /\ batch = <<>> /\ erased_polled = {} /\ outcome = "running"

Running == outcome = "running"
Backlog == {p \in Peers : net[p] = "backlog"}

\* A mutation, not the code: MessageManager::connections_ has shared_ptrs.
Alive_Kept(p) == p \in connections_ \cup locked \cup known
\* Somebody has a shared_ptr to the connection, so its socket is open.
Alive(p) == p \in connections_ \cup locked

\* A shared_ptr to the connection goes; with the last one its socket is closed.
DropReference(p) ==
  IF Alive(p)' THEN UNCHANGED <<net, unread>>
  ELSE net' = [net EXCEPT ![p] = "closed"] /\ unread' = unread \ {p}

-----------------------------------------------------------------------------
(* The peers. *)

Connect(p) ==
  /\ Running /\ net[p] = "away"
  /\ net' = [net EXCEPT ![p] = "backlog"]
  /\ UNCHANGED <<unread, connections_, known, locked, pending, batch, erased_polled, outcome>>

PeerSends(p) ==
  /\ Running /\ net[p] = "open" /\ p \notin unread
  /\ unread' = unread \cup {p}
  /\ UNCHANGED <<net, connections_, known, locked, pending, batch, erased_polled, outcome>>

\* The peer shuts its side down, or its process ends; bytes it sent can still be read,
\* unless it resets the connection.
PeerLeaves(p) ==
  /\ Running
  /\ \/ net[p] = "open" /\ net' = [net EXCEPT ![p] = "eof"]
     \/ net[p] \in {"open", "eof"} /\ net' = [net EXCEPT ![p] = "reset"]
  /\ UNCHANGED <<unread, connections_, known, locked, pending, batch, erased_polled, outcome>>

-----------------------------------------------------------------------------
(* MessageManager::SendMessage on the game thread. *)

LockConnection(p) ==
  /\ Running /\ locked = {}
  /\ p \in known /\ Alive(p)
  /\ locked' = {p}
  /\ UNCHANGED <<net, unread, connections_, known, pending, batch, erased_polled, outcome>>

\* addOutput, and the shared_ptr goes: if it was the last one, the socket with it.
AddOutput(p) ==
  /\ Running /\ p \in locked
  /\ locked' = {}
  /\ UNCHANGED <<connections_, known, batch, erased_polled, outcome>>
  /\ DropReference(p)
  /\ pending' = IF Alive(p)' THEN pending \cup {p} ELSE pending \ {p}

-----------------------------------------------------------------------------
(* IOServer::eventLoop. *)

\* A mutation, not the code: the descriptor is watched for input only.
Flags_Input(p) ==
  IF net[p] = "reset" THEN {"ERR", "HUP", "IN"}
  ELSE IF p \in unread \/ net[p] = "eof" THEN {"IN"} ELSE {}
\* What epoll reports of an open socket; the peer's FIN can be read as the end of input.
Flags(p) ==
  CASE net[p] = "reset" -> {"ERR", "HUP", "IN", "OUT", "RDHUP"}
    [] net[p] = "eof" -> {"IN", "OUT", "RDHUP"}
    [] OTHER -> IF p \in unread THEN {"IN", "OUT"} ELSE {"OUT"}

\* getReadyDescriptors: epoll_wait waits for something to report.
Poll ==
  /\ Running /\ batch = <<>>
  /\ LET ready == {p \in Peers : Alive(p) /\ Flags(p) # {}}
     IN  /\ ready # {} \/ Backlog # {}
         /\ batch' = [p \in ready \cup IF Backlog = {} THEN {} ELSE {Listener} |->
                        IF p = Listener THEN {"IN"} ELSE Flags(p)]
         /\ erased_polled' = (ready \cap locked) \ connections_
  /\ UNCHANGED <<net, unread, connections_, known, locked, pending, outcome>>

Handled(p) == batch' = [q \in DOMAIN batch \ {p} |-> batch[q]]

\* ServerAcceptor::read: the whole backlog, and addConnection of each.
Accept ==
  /\ Running /\ Listener \in DOMAIN batch
  /\ Handled(Listener)
  /\ net' = [p \in Peers |-> IF p \in Backlog THEN "open" ELSE net[p]]
  /\ connections_' = connections_ \cup Backlog
  /\ UNCHANGED <<unread, known, locked, pending, erased_polled, outcome>>

Throws == outcome' = "threw" /\ UNCHANGED <<net, unread, connections_, known, locked, pending, erased_polled>>

\* accept fails for another reason than an empty backlog: no descriptor is left.
AcceptFails ==
  /\ Running /\ Listener \in DOMAIN batch
  /\ Handled(Listener)
  /\ Throws

\* The iterator of an event is good for a connection that is still in the list.
Event(p) == Running /\ p \in DOMAIN batch /\ p \in connections_ /\ Handled(p)

\* closeConnection; messages still queued go with the connection.
CloseConnection(p) ==
  /\ connections_' = connections_ \ {p} /\ UNCHANGED <<locked, erased_polled, outcome>>
  /\ DropReference(p)
  /\ pending' = IF Alive(p)' THEN pending ELSE pending \ {p}

Error(flags) == flags \cap {"ERR", "HUP"} # {}
Input(flags) == ~Error(flags) /\ "IN" \in flags
Output(flags) == ~Error(flags) /\ "IN" \notin flags /\ "OUT" \in flags

HandleError(p) ==
  /\ Event(p) /\ Error(batch[p])
  /\ UNCHANGED known
  /\ CloseConnection(p)

\* A mutation, not the code: a read that found the end of the stream reports success.
NeedClose_Never(p) == FALSE
\* AsyncReader::read returned true.
NeedClose(p) == net[p] = "eof"

\* onInput reads until the socket is empty, and dispatches the messages: a subscription
\* is answered.  A socket that was reset since epoll_wait throws.
HandleInput(p) ==
  /\ Event(p) /\ Input(batch[p])
  /\ IF net[p] = "reset" THEN Throws
     ELSE /\ known' = IF p \in unread THEN known \cup {p} ELSE known
          /\ IF NeedClose(p) THEN CloseConnection(p)
             ELSE /\ unread' = unread \ {p}
                  /\ \/ UNCHANGED pending
                     \/ p \in unread /\ pending' = pending \cup {p}
                  /\ UNCHANGED <<net, connections_, locked, erased_polled, outcome>>

\* onOutput writes the queue; a write to a peer that is gone throws, or is a SIGPIPE.
HandleOutput(p) ==
  /\ Event(p) /\ Output(batch[p])
  /\ IF net[p] = "reset" /\ p \in pending THEN Throws
     ELSE /\ pending' = pending \ {p}
          /\ UNCHANGED <<net, unread, connections_, known, locked, erased_polled, outcome>>

\* The list's node is gone: whatever reading it does.
StaleEvent(p) ==
  /\ Running /\ p \in DOMAIN batch \cap Peers /\ p \notin connections_
  /\ Handled(p)
  /\ outcome' = "undefined"
  /\ UNCHANGED <<net, unread, connections_, known, locked, pending, erased_polled>>

HandleEvent(p) == HandleError(p) \/ HandleInput(p) \/ HandleOutput(p) \/ StaleEvent(p)
IoThread == Poll \/ Accept \/ AcceptFails \/ \E p \in Peers : HandleEvent(p)
GameThread == \E p \in Peers : AddOutput(p)

Next ==
  \/ IoThread \/ GameThread
  \/ \E p \in Peers : Connect(p) \/ PeerSends(p) \/ PeerLeaves(p) \/ LockConnection(p)

\* Both threads run; a peer does as it likes.
Fairness == WF_vars(IoThread) /\ WF_vars(GameThread)
Spec == Init /\ [][Next]_vars /\ Fairness

-----------------------------------------------------------------------------
(* Properties *)

\* An event always names a connection of the list, so that its iterator is good, except
\* when SendMessage held a connection that had been erased, while epoll_wait was called:
\* only then can the loop read a node that is gone.
IteratorsGood == \A p \in DOMAIN batch \cap Peers : p \in connections_ \cup erased_polled

\* A connection whose peer is gone is closed, and its socket with it.
PeerGoneClosed ==
  \A p \in Peers : net[p] \in {"eof", "reset"} ~> (net[p] = "closed" \/ ~Running)

\* What is queued gets to onOutput, unless its peer never stops sending: the loop does
\* not look at output while there is input.
OutputReached ==
  \A p \in Peers : <>[](p \notin unread) => (p \in pending ~> (p \notin pending \/ ~Running))
=============================================================================
