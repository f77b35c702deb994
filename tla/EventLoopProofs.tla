--------------------------- MODULE EventLoopProofs ---------------------------
(***************************************************************************)
(* Proofs about EventLoop for any peers: when an event of epoll may name a *)
(* node of connections_ that is gone, and that a connection's socket is    *)
(* open as long as somebody holds the connection.                          *)
(*                                                                         *)
(* The loop erases only the connection whose event it handles, so that     *)
(* within a batch nothing becomes dangling; what epoll_wait may report is  *)
(* a connection that is alive without being in the list.  So               *)
(* IteratorsGood is inductive as it stands.  SocketsHeld needs that        *)
(* SendMessage holds one connection at a time.                             *)
(***************************************************************************)
EXTENDS EventLoop, TLAPS

-----------------------------------------------------------------------------

\* Handling an event takes it out of the batch.
LEMMA HandledDomain ==
  ASSUME NEW p, Handled(p)
  PROVE  DOMAIN batch' = DOMAIN batch \ {p}
BY DEF Handled

\* No event is pending at first.
LEMMA InitGood == Init => IteratorsGood
<1> SUFFICES ASSUME Init PROVE IteratorsGood
  OBVIOUS
<1>1. DOMAIN batch = {}
  BY DEF Init
<1> QED
  BY <1>1 DEF IteratorsGood

\* The peers and the game thread touch neither the batch nor the list.
LEMMA OthersGood ==
  ASSUME IteratorsGood, NEW p \in Peers,
         Connect(p) \/ PeerSends(p) \/ PeerLeaves(p) \/ LockConnection(p) \/ AddOutput(p)
  PROVE  IteratorsGood'
<1>1. UNCHANGED <<batch, connections_, erased_polled>>
  BY DEF Connect, PeerSends, PeerLeaves, LockConnection, AddOutput
<1> QED
  BY <1>1 DEF IteratorsGood

\* epoll_wait: what is reported is alive, in the list or in SendMessage's hands.
LEMMA PollGood ==
  ASSUME IteratorsGood, Poll, Listener \notin Peers
  PROVE  IteratorsGood'
<1> DEFINE ready == {p \in Peers : Alive(p) /\ Flags(p) # {}}
<1>1. /\ DOMAIN batch' = ready \cup IF Backlog = {} THEN {} ELSE {Listener}
      /\ erased_polled' = (ready \cap locked) \ connections_
      /\ connections_' = connections_
  BY DEF Poll
<1>2. ASSUME NEW p \in ready
      PROVE  p \in connections_ \cup locked
  BY DEF Alive
<1> QED
  BY <1>1, <1>2 DEF IteratorsGood

\* The acceptor adds to the list.
LEMMA AcceptGood ==
  ASSUME IteratorsGood, Accept \/ AcceptFails
  PROVE  IteratorsGood'
<1>1. DOMAIN batch' = DOMAIN batch \ {Listener}
  BY HandledDomain DEF Accept, AcceptFails
<1>2. connections_ \subseteq connections_' /\ erased_polled' = erased_polled
  BY DEF Accept, AcceptFails, Throws
<1> QED
  BY <1>1, <1>2 DEF IteratorsGood

\* An event's handler erases its own connection at most.
LEMMA EventGood ==
  ASSUME IteratorsGood, NEW p \in Peers, HandleEvent(p)
  PROVE  IteratorsGood'
<1>1. DOMAIN batch' = DOMAIN batch \ {p}
  BY HandledDomain DEF HandleEvent, HandleError, HandleInput, HandleOutput, StaleEvent, Event
<1>2. erased_polled' = erased_polled
  BY DEF HandleEvent, HandleError, HandleInput, HandleOutput, StaleEvent, CloseConnection, Throws
<1>3. connections_ \ {p} \subseteq connections_'
  BY DEF HandleEvent, HandleError, HandleInput, HandleOutput, StaleEvent, CloseConnection, Throws
<1> QED
  BY <1>1, <1>2, <1>3 DEF IteratorsGood

\* Every step.
LEMMA NextGood ==
  ASSUME Listener \notin Peers, IteratorsGood, [Next]_vars
  PROVE  IteratorsGood'
<1>1. CASE IoThread
  BY <1>1, PollGood, AcceptGood, EventGood DEF IoThread
<1>2. CASE GameThread
  BY <1>2, OthersGood DEF GameThread
<1>3. CASE \E p \in Peers : Connect(p) \/ PeerSends(p) \/ PeerLeaves(p) \/ LockConnection(p)
  BY <1>3, OthersGood
<1>4. CASE UNCHANGED vars
  BY <1>4 DEF vars, IteratorsGood
<1> QED
  BY <1>1, <1>2, <1>3, <1>4 DEF Next

\* eventLoop reads a list node that is gone only for a connection that was erased
\* before, and that SendMessage held when epoll_wait was called: the range of the
\* race at io_server.hpp:189, for any number of connections and of events in a batch.
THEOREM IteratorsStayGood ==
  ASSUME Listener \notin Peers
  PROVE  Spec => []IteratorsGood
<1>1. IteratorsGood /\ [Next]_vars => IteratorsGood'
  BY NextGood
<1> QED
  BY <1>1, InitGood, PTL DEF Spec
-----------------------------------------------------------------------------
(***************************************************************************)
(* Descriptors                                                             *)
(*                                                                         *)
(* What IteratorsGood leaves open: sockets do not leak.  Shared pointers   *)
(* are let go of in two threads, and the last one closes the socket,       *)
(* whichever thread has it.                                                *)
(***************************************************************************)

NetTypes == net \in [Peers -> {"away", "backlog", "open", "eof", "reset", "closed"}]

OpenSocket(p) == net[p] \in {"open", "eof", "reset"}

\* A connection's socket is open as long as the list or SendMessage holds the connection,
\* and no longer; bytes and messages wait for connections that are held.
SocketsHeld ==
  /\ \A p \in Peers : OpenSocket(p) <=> Alive(p)
  /\ unread \cup pending \subseteq {p \in Peers : Alive(p)}

\* SendMessage holds one connection at a time.
HeldInv == NetTypes /\ SocketsHeld /\ \A p, q \in locked : p = q

LEMMA InitHeld == Init => HeldInv
BY DEF Init, HeldInv, NetTypes, SocketsHeld, OpenSocket, Alive

\* A step that only changes what its connection's peer did, or what waits for it.
LEMMA PeerHeld ==
  ASSUME HeldInv, NEW p \in Peers, Connect(p) \/ PeerSends(p) \/ PeerLeaves(p)
  PROVE  HeldInv'
<1>1. /\ connections_' = connections_ /\ locked' = locked /\ pending' = pending
      /\ unread' = unread \/ (unread' = unread \cup {p} /\ net[p] = "open")
      /\ \/ net' = net
         \/ net[p] = "away" /\ net' = [net EXCEPT ![p] = "backlog"]
         \/ OpenSocket(p) /\ \E how \in {"eof", "reset"} : net' = [net EXCEPT ![p] = how]
  BY DEF Connect, PeerSends, PeerLeaves, OpenSocket
<1>2. NetTypes /\ \A q \in Peers : OpenSocket(q)' <=> OpenSocket(q)
  BY <1>1 DEF HeldInv, NetTypes, OpenSocket
<1>3. NetTypes'
  BY <1>1, <1>2 DEF NetTypes
<1> QED
  BY <1>1, <1>2, <1>3 DEF HeldInv, SocketsHeld, OpenSocket, Alive

\* A shared pointer goes: if it was the last one, the socket is closed, and what waited
\* for the connection goes with it.
LEMMA DropHeld ==
  ASSUME HeldInv, NEW p \in Peers, Alive(p), DropReference(p), locked' \subseteq locked,
         \A q \in Peers : q # p => (Alive(q)' <=> Alive(q)),
         pending' \subseteq {q \in pending \cup {p} : q = p => Alive(p)'}
  PROVE  HeldInv'
<1>0. \A q, r \in locked' : q = r
  BY DEF HeldInv
<1>1. CASE Alive(p)'
  BY <1>0, <1>1 DEF DropReference, HeldInv, NetTypes, SocketsHeld, OpenSocket
<1>2. CASE ~Alive(p)'
  <2>1. net' = [net EXCEPT ![p] = "closed"] /\ unread' = unread \ {p}
    BY <1>2 DEF DropReference
  <2>2. NetTypes' /\ ~OpenSocket(p)' /\ \A q \in Peers : q # p => (OpenSocket(q)' <=> OpenSocket(q))
    BY <2>1 DEF HeldInv, NetTypes, OpenSocket
  <2> QED
    BY <1>0, <1>2, <2>1, <2>2 DEF HeldInv, SocketsHeld
<1> QED
  BY <1>1, <1>2

\* SendMessage takes a connection that is held, and lets go of it.
LEMMA SendHeld ==
  ASSUME HeldInv, NEW p \in Peers, LockConnection(p) \/ AddOutput(p)
  PROVE  HeldInv'
<1>1. CASE LockConnection(p)
  <2>1. Alive(p) /\ locked = {} /\ locked' = {p}
        /\ UNCHANGED <<net, unread, connections_, pending>>
    BY <1>1 DEF LockConnection
  <2>2. \A q \in Peers : Alive(q)' <=> Alive(q)
    BY <2>1 DEF Alive
  <2> QED
    BY <2>1, <2>2 DEF HeldInv, NetTypes, SocketsHeld, OpenSocket
<1>2. CASE AddOutput(p)
  <2>1. /\ p \in locked /\ locked' = {} /\ connections_' = connections_ /\ DropReference(p)
        /\ pending' = IF Alive(p)' THEN pending \cup {p} ELSE pending \ {p}
    BY <1>2 DEF AddOutput
  <2>2. locked = {p}
    BY <2>1 DEF HeldInv
  <2>3. \A q \in Peers : q # p => (Alive(q)' <=> Alive(q))
    BY <2>1, <2>2 DEF Alive
  <2>4. Alive(p)
    BY <2>1 DEF Alive
  <2>5. pending' \subseteq {q \in pending \cup {p} : q = p => Alive(p)'}
    BY <2>1
  <2> QED
    BY <2>1, <2>3, <2>4, <2>5, DropHeld
<1> QED
  BY <1>1, <1>2

\* accept opens the sockets of the backlog and puts their connections into the list.
LEMMA AcceptHeld ==
  ASSUME HeldInv, Accept
  PROVE  HeldInv'
<1>1. /\ net' = [p \in Peers |-> IF p \in Backlog THEN "open" ELSE net[p]]
      /\ connections_' = connections_ \cup Backlog
      /\ UNCHANGED <<unread, locked, pending>>
  BY DEF Accept
<1>2. \A p \in Peers : OpenSocket(p)' <=> (OpenSocket(p) \/ p \in Backlog)
  BY <1>1 DEF OpenSocket
<1>3. \A p \in Peers : Alive(p)' <=> (Alive(p) \/ p \in Backlog)
  BY <1>1 DEF Alive
<1> QED
  BY <1>1, <1>2, <1>3 DEF HeldInv, NetTypes, SocketsHeld

\* closeConnection: SendMessage may still hold the connection that leaves the list.
LEMMA CloseHeld ==
  ASSUME HeldInv, NEW p \in Peers, p \in connections_, CloseConnection(p)
  PROVE  HeldInv'
<1>1. /\ connections_' = connections_ \ {p} /\ locked' = locked /\ DropReference(p)
      /\ pending' = IF Alive(p)' THEN pending ELSE pending \ {p}
  BY DEF CloseConnection
<1>2. Alive(p) /\ \A q \in Peers : q # p => (Alive(q)' <=> Alive(q))
  BY <1>1 DEF Alive
<1>3. pending' \subseteq {q \in pending \cup {p} : q = p => Alive(p)'}
  BY <1>1
<1> QED
  BY <1>1, <1>2, <1>3, DropHeld

\* An event's handler closes the connection, or leaves every reference as it is.
LEMMA EventHeld ==
  ASSUME HeldInv, NEW p \in Peers, HandleEvent(p)
  PROVE  HeldInv'
<1> DEFINE Kept ==
      /\ UNCHANGED <<net, connections_, locked>> /\ unread' \subseteq unread
      /\ pending' \subseteq pending \cup (connections_ \cap {p})
<1>1. (p \in connections_ /\ CloseConnection(p)) \/ Kept
  <2>1. CASE HandleError(p)
    BY <2>1 DEF HandleError, Event
  <2>2. CASE HandleInput(p)
    BY <2>2 DEF HandleInput, Event, Throws
  <2>3. CASE HandleOutput(p) \/ StaleEvent(p)
    BY <2>3 DEF HandleOutput, StaleEvent, Throws
  <2> QED
    BY <2>1, <2>2, <2>3 DEF HandleEvent
<1>2. CASE Kept
  <2>1. \A q \in Peers : (Alive(q)' <=> Alive(q)) /\ (OpenSocket(q)' <=> OpenSocket(q))
    BY <1>2 DEF Alive, OpenSocket
  <2>2. \A q \in connections_ \cap {p} : q \in Peers /\ Alive(q)
    BY DEF Alive
  <2> QED
    BY <1>2, <2>1, <2>2 DEF HeldInv, NetTypes, SocketsHeld
<1> QED
  BY <1>1, <1>2, CloseHeld

\* Every step.
LEMMA NextHeld ==
  ASSUME HeldInv, [Next]_vars
  PROVE  HeldInv'
<1>1. CASE IoThread
  <2>1. CASE Poll \/ AcceptFails
    <3>1. UNCHANGED <<net, unread, connections_, locked, pending>>
      BY <2>1 DEF Poll, AcceptFails, Throws
    <3> QED
      BY <3>1 DEF HeldInv, NetTypes, SocketsHeld, OpenSocket, Alive
  <2> QED
    BY <1>1, <2>1, AcceptHeld, EventHeld DEF IoThread
<1>2. CASE GameThread
  BY <1>2, SendHeld DEF GameThread
<1>3. CASE \E p \in Peers : Connect(p) \/ PeerSends(p) \/ PeerLeaves(p) \/ LockConnection(p)
  BY <1>3, PeerHeld, SendHeld
<1>4. CASE UNCHANGED vars
  BY <1>4 DEF vars, HeldInv, NetTypes, SocketsHeld, OpenSocket, Alive
<1> QED
  BY <1>1, <1>2, <1>3, <1>4 DEF Next

\* Whichever thread lets go of a connection last, its socket is closed then and not
\* before, and nothing waits for a connection that is gone: the shared pointers of
\* IOServer::connections_ and SendMessage (message_manager.hpp) leak no descriptor.
THEOREM SocketsOpenWhileHeld == Spec => []SocketsHeld
<1>1. HeldInv /\ [Next]_vars => HeldInv'
  BY NextHeld
<1>2. HeldInv => SocketsHeld
  BY DEF HeldInv
<1> QED
  BY <1>1, <1>2, InitHeld, PTL DEF Spec
=============================================================================
