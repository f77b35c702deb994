----------------------------- MODULE GameServer -----------------------------
(***************************************************************************)
(* The game server: one process with two threads.                          *)
(*                                                                         *)
(*  - The game thread runs GameStateManager::Run: it waits for enough      *)
(*    players, then per round increments the state id, sends the state to  *)
(*    every observer, sleeps, applies the turns, and at the end sends      *)
(*    FINISH and stops the IO server.                                      *)
(*  - The IO thread runs IOServer::eventLoop: it accepts connections, hands *)
(*    each received message to the MessageManager, and flushes the output  *)
(*    queues of the connections.                                           *)
(*                                                                         *)
(* Around it are the peers: Gamer processes (Clients) and ViewerClient     *)
(* threads of web viewers (Viewers), each with one TCP connection.         *)
(* A message is a record that carries only what the properties tell apart: *)
(* the geometry of a state and the coins are left out, an acceleration is  *)
(* "zero" or "chosen".  Bytes, framing and short writes are left out here. *)
(*                                                                         *)
(* GameStateManager::mutex_ is held by the game thread exactly while it    *)
(* sends (SendPhases) and by the IO thread inside AddTurn and AddPlayer,   *)
(* which are single steps unless GetPlayer never returns ("spinning").     *)
(* The weak_ptr locks of the managers always succeed: GameServer owns them.*)
(*                                                                         *)
(* A ConnectionId is modelled by the connection it indexes: connections_   *)
(* is only appended to, so an id never changes its meaning.  What is kept  *)
(* of connections_ is its size, which grows with every message received.   *)
(***************************************************************************)
EXTENDS Naturals, Sequences, FiniteSets

CONSTANTS
  Clients,      \* connections of Gamer processes
  Viewers,      \* connections of web viewers
  Listener,     \* the listening socket's connection
  Mortal,       \* the peers whose process may be killed at any moment
  MinPlayers,   \* GameConfig::min_players_count
  MaxPlayers,   \* GameConfig::max_players_count
  MaxStates,    \* GameConfig::max_states_count
  Room          \* players for which the field has a free place wherever they are

Peers == Clients \union Viewers

\* GameConfig::Check compares min_players_count with max_states_count, and
\* leaves max_players_count free to be smaller than min_players_count.
GameConfigCheck ==
  /\ MinPlayers \in Nat \ {0}
  /\ MaxPlayers \in Nat
  /\ MaxStates \in Nat \ {0}
  /\ MinPlayers < MaxStates

ASSUME ConstantsAssumption ==
  /\ GameConfigCheck
  /\ Room \in Nat
  /\ Clients \intersect Viewers = {}
  /\ Listener \notin Peers
  /\ Mortal \subseteq Peers

\* Only the number of connections needs it: a descriptor is a number below a limit.
ASSUME FinitelyManyPeers == IsFiniteSet(Clients) /\ IsFiniteSet(Viewers)

VARIABLES
  gpc,          \* control state of the game thread
  sendPos,      \* range-for over client_ids_ or viewer_ids_: next position ...
  sendEnd,      \* ... and the end captured when the loop was entered
  state_id,     \* GameStateManager::state_.id
  players,      \* ids of state_.players
  turns,        \* GameStateManager::turns_
  applied,      \* per player, the turn the last Emulate took its acceleration from
  next_id,      \* DefaultPlayerGenerator::last_player_id_
  ipc,          \* control state of the IO thread
  events,       \* the rest of the batch epoll_wait returned
  current,      \* the message being handled and its connection
  stop_,        \* IOServer::stop_
  alive,        \* the process has not been terminated by an uncaught exception
  connections,  \* MessageManager::connections_.size()
  client_ids_,  \* ObserversManager::client_ids_, as the connections they index
  viewer_ids_,  \* ObserversManager::viewer_ids_
  since,        \* history: the state the game was at when a peer became an observer
  output,       \* ConnectionWithOutput::output_queue_ of each connection
  conn,         \* the server's side of each connection
  up, down,     \* bytes in flight to the server and to the peer, as messages
  peer,         \* control state of each peer
  player_id_,   \* Gamer::player_id_
  seen          \* id of the last STATE the peer took (ViewerClient::field_.id)

gameVars  == <<gpc, sendPos, sendEnd>>
stateVars == <<state_id, players, turns, applied, next_id>>
ioVars    == <<ipc, events, current>>
obsVars   == <<connections, client_ids_, viewer_ids_, since>>
procVars  == <<stop_, alive>>
netVars   == <<output, conn, up, down>>
peerVars  == <<peer, player_id_, seen>>
vars == <<gameVars, stateVars, ioVars, obsVars, procVars, netVars, peerVars>>

-----------------------------------------------------------------------------
(* Messages *)

Accelerations == {"zero", "chosen"}
Turn == [player_id: Nat, state_id: Nat, acceleration: Accelerations]
NoTurn == [player_id |-> 0, state_id |-> 0, acceleration |-> "zero"]

UpMessage == [type: {"CLI_SUB_REQUEST", "VIEW_SUB_REQUEST", "TURN"}, turn: Turn]
DownMessage == [type: {"CLI_SUB_RESULT", "VIEW_SUB_RESULT", "STATE", "FINISH"},
                result: BOOLEAN, id: Nat]

ClientSubscribeRequest == [type |-> "CLI_SUB_REQUEST", turn |-> NoTurn]
ViewerSubscribeRequest == [type |-> "VIEW_SUB_REQUEST", turn |-> NoTurn]
TurnMessage(p, s) ==
  [type |-> "TURN",
   turn |-> [player_id |-> p, state_id |-> s, acceleration |-> "chosen"]]

\* A refusal carries no id: BuildClientSubscribeResultMessage leaves it out.
ClientSubscribeResult(ok, id) ==
  [type |-> "CLI_SUB_RESULT", result |-> ok, id |-> IF ok THEN id ELSE 0]
ViewerSubscribeResult(id) ==
  [type |-> "VIEW_SUB_RESULT", result |-> TRUE, id |-> id]
State(s) == [type |-> "STATE", result |-> TRUE, id |-> s]
Finish == [type |-> "FINISH", result |-> TRUE, id |-> 0]

Idle == [conn |-> Listener, msg |-> ClientSubscribeRequest]

SendPhases == {"stateToClients", "stateToViewers", "finishToClients", "finishToViewers"}
GamePcs == SendPhases \union {"waiting", "looping", "sleeping", "stopping", "done"}
IoPcs == {"top", "polling", "dispatch", "reading", "addPlayer", "spinning",
          "refused", "accepted", "confirmViewer", "addTurn", "exited"}
ConnStates == {"none", "backlog", "open", "closed"}
PeerStates == {"new", "joining", "playing", "finished", "gone"}

Init ==
  /\ gpc = "waiting" /\ sendPos = 1 /\ sendEnd = 0
  /\ state_id = 0 /\ players = <<>> /\ turns = <<>> /\ applied = <<>> /\ next_id = 0
  /\ ipc = "top" /\ events = {} /\ current = Idle
  /\ stop_ = FALSE /\ alive = TRUE
  /\ connections = 0 /\ client_ids_ = <<>> /\ viewer_ids_ = <<>>
  /\ since = [p \in Peers |-> 0]
  /\ output = [p \in Peers |-> <<>>]
  /\ conn = [p \in Peers |-> "none"]
  /\ up = [p \in Peers |-> <<>>]
  /\ down = [p \in Peers |-> <<>>]
  /\ peer = [p \in Peers |-> "new"]
  /\ player_id_ = [p \in Peers |-> 0]
  /\ seen = [p \in Peers |-> 0]

\* MessageManager::SendMessage: nothing is sent when the weak_ptr has expired.
SendMessage(m, p) ==
  output' = IF conn[p] = "open" THEN [output EXCEPT ![p] = Append(@, m)] ELSE output

-----------------------------------------------------------------------------
(* The game thread: GameStateManager::Run *)

GameHoldsMutex == gpc \in SendPhases
IoHoldsMutex == ipc = "spinning"

\* The vector the current send loop ranges over.
Observers ==
  IF gpc \in {"stateToClients", "finishToClients"} THEN client_ids_ ELSE viewer_ids_

\* A mutation, not the code: the wait is for one player more.
EnoughPlayers_OneMore == Len(players) > MinPlayers
EnoughPlayers == Len(players) >= MinPlayers

InitialStateId == 0

\* Enough players: the wait loop is left and state_.id is set to 0.
CheckPlayersCount ==
  /\ gpc = "waiting" /\ ~IoHoldsMutex
  /\ EnoughPlayers
  /\ gpc' = "looping"
  /\ state_id' = InitialStateId
  /\ UNCHANGED <<sendPos, sendEnd, players, turns, applied, next_id,
                 ioVars, obsVars, procVars, netVars, peerVars>>

\* A round begins: ++state_.id (only this thread reads it), then the mutex is
\* taken and SendStateToAllObservers enters its loop over client_ids_.
BeginState ==
  /\ gpc = "looping" /\ ~IoHoldsMutex
  /\ state_id < MaxStates
  /\ state_id' = state_id + 1
  /\ gpc' = "stateToClients"
  /\ sendPos' = 1 /\ sendEnd' = Len(client_ids_)
  /\ UNCHANGED <<players, turns, applied, next_id,
                 ioVars, obsVars, procVars, netVars, peerVars>>

\* The last round is over: SendFinishToAllObservers.
BeginFinish ==
  /\ gpc = "looping" /\ ~IoHoldsMutex
  /\ state_id >= MaxStates
  /\ gpc' = "finishToClients"
  /\ sendPos' = 1 /\ sendEnd' = Len(client_ids_)
  /\ UNCHANGED <<stateVars, ioVars, obsVars, procVars, netVars, peerVars>>

\* A mutation, not the code: the end of the game is one more state.
Outgoing_NoFinish == State(state_id)
Outgoing == IF gpc \in {"stateToClients", "stateToViewers"} THEN State(state_id) ELSE Finish

\* One iteration of SendMessageToConnections.
SendToNext ==
  /\ gpc \in SendPhases
  /\ sendPos <= sendEnd
  /\ SendMessage(Outgoing, Observers[sendPos])
  /\ sendPos' = sendPos + 1
  /\ UNCHANGED <<gpc, sendEnd, stateVars, ioVars, obsVars, procVars,
                 conn, up, down, peerVars>>

\* The IO thread appended to the vector during the loop (AddClient and AddViewer
\* push_back without a lock): the loop may run over freed memory.  It may find the old
\* contents there, which is SendToNext; garbage, at which connections_.at throws in a
\* thread that catches nothing; or the id of another connection, which is then sent a
\* message that is not meant for it.  Nothing can be claimed of what follows the last
\* two: the model ends here, and its properties speak of what came before.
SendReadsFreedMemory ==
  /\ gpc \in SendPhases
  /\ sendPos <= sendEnd
  /\ Len(Observers) > sendEnd
  /\ alive' = FALSE
  /\ UNCHANGED <<gameVars, stateVars, ioVars, obsVars, stop_, netVars, peerVars>>

\* The loop over the clients is done; the one over the viewers is entered.
ClientsDone ==
  /\ gpc \in {"stateToClients", "finishToClients"}
  /\ sendPos > sendEnd
  /\ gpc' = IF gpc = "stateToClients" THEN "stateToViewers" ELSE "finishToViewers"
  /\ sendPos' = 1 /\ sendEnd' = Len(viewer_ids_)
  /\ UNCHANGED <<stateVars, ioVars, obsVars, procVars, netVars, peerVars>>

\* Everything is sent: the mutex is released.
ViewersDone ==
  /\ gpc \in {"stateToViewers", "finishToViewers"}
  /\ sendPos > sendEnd
  /\ gpc' = IF gpc = "stateToViewers" THEN "sleeping" ELSE "stopping"
  /\ UNCHANGED <<sendPos, sendEnd, stateVars, ioVars, obsVars, procVars, netVars, peerVars>>

\* FilterTurns iterates over copies of the turns (for (auto turn: turns_)), so
\* the accelerations it zeroes are those of the copies.
FilterTurns(ts) == ts

\* GetAccelerations: the first turn of the player, found by its player_id.
TurnOf(id, ts) ==
  ts[CHOOSE k \in DOMAIN ts :
       ts[k].player_id = id /\ \A j \in DOMAIN ts : ts[j].player_id = id => k <= j]

\* After the sleep: FilterTurns, then Emulate moves the players by their turns.
Emulate ==
  /\ gpc = "sleeping" /\ ~IoHoldsMutex
  /\ turns' = FilterTurns(turns)
  /\ applied' = [i \in 1..Len(players) |-> TurnOf(players[i], FilterTurns(turns))]
  /\ gpc' = "looping"
  /\ UNCHANGED <<sendPos, sendEnd, state_id, players, next_id,
                 ioVars, obsVars, procVars, netVars, peerVars>>

\* GameServer::Run's lambda calls Stop after GameStateManager::Run returned.
Stop ==
  /\ gpc = "stopping"
  /\ stop_' = TRUE
  /\ gpc' = "done"
  /\ UNCHANGED <<sendPos, sendEnd, stateVars, ioVars, obsVars, alive, netVars, peerVars>>

GameThread ==
  /\ alive
  /\ \/ CheckPlayersCount \/ BeginState \/ BeginFinish
     \/ SendToNext \/ SendReadsFreedMemory \/ ClientsDone \/ ViewersDone
     \/ Emulate \/ Stop

-----------------------------------------------------------------------------
(* The IO thread: IOServer::eventLoop *)

Event(p, kind) == [conn |-> p, kind |-> kind]
Open == {p \in Peers : conn[p] = "open"}
Backlog == {p \in Peers : conn[p] = "backlog"}

\* closeConnection: the list's shared_ptr was the last one, the queue dies with it.
CloseConnection(p) ==
  /\ conn' = [conn EXCEPT ![p] = "closed"]
  /\ output' = [output EXCEPT ![p] = <<>>]
  /\ up' = [up EXCEPT ![p] = <<>>]

\* A mutation, not the code: the flag is not looked at.
AfterLoopTop_Always == "polling"
AfterLoopTop == IF stop_ THEN "exited" ELSE "polling"

\* while (!stop_)
LoopTop ==
  /\ ipc = "top"
  /\ ipc' = AfterLoopTop
  /\ UNCHANGED <<gameVars, stateVars, events, current, obsVars, procVars, netVars, peerVars>>

\* The flag that decides the branch of eventLoop for a connection: error, else
\* input, else output.  A connection is always writable (its socket buffer is
\* never full here).  A closed peer gives input (end of file) or, when the
\* connection was reset, an error.
Kinds(p) ==
  IF peer[p] = "gone" THEN {"input", "error"}
  ELSE IF up[p] # <<>> THEN {"input"} ELSE {"output"}

\* epoll_wait(-1): blocks until something is ready, and is not woken by stop().
Poll ==
  /\ ipc = "polling"
  /\ Open \union Backlog # {}
  /\ \E kind \in [Open -> {"input", "output", "error"}] :
       /\ \A p \in Open : kind[p] \in Kinds(p)
       /\ events' = {Event(p, kind[p]) : p \in Open}
                      \union {Event(Listener, "input") : p \in Backlog}
  /\ ipc' = "dispatch"
  /\ UNCHANGED <<gameVars, stateVars, current, obsVars, procVars, netVars, peerVars>>

BatchDone ==
  /\ ipc = "dispatch" /\ events = {}
  /\ ipc' = "top"
  /\ UNCHANGED <<gameVars, stateVars, events, current, obsVars, procVars, netVars, peerVars>>

\* ServerAcceptor::read accepts until there is nothing left to accept.
Accept ==
  /\ ipc = "dispatch" /\ Event(Listener, "input") \in events
  /\ events' = events \ {Event(Listener, "input")}
  /\ conn' = [p \in Peers |-> IF p \in Backlog THEN "open" ELSE conn[p]]
  /\ UNCHANGED <<gameVars, stateVars, ipc, current, obsVars, procVars,
                 output, up, down, peerVars>>

OnError(p) ==
  /\ ipc = "dispatch" /\ Event(p, "error") \in events
  /\ events' = events \ {Event(p, "error")}
  /\ CloseConnection(p)
  /\ UNCHANGED <<gameVars, stateVars, ipc, current, obsVars, procVars, down, peerVars>>

\* A mutation, not the code: the queue is emptied after one write.
Flushed_FirstOnly(p) == IF output[p] = <<>> THEN <<>> ELSE << Head(output[p]) >>
\* What one onOutput writes: the whole queue, in order.
Flushed(p) == output[p]

\* ConnectionWithOutput::onOutput.
OnOutput(p) ==
  /\ ipc = "dispatch" /\ Event(p, "output") \in events
  /\ events' = events \ {Event(p, "output")}
  /\ down' = [down EXCEPT ![p] = IF peer[p] = "gone" THEN @ ELSE @ \o Flushed(p)]
  /\ output' = [output EXCEPT ![p] = <<>>]
  /\ UNCHANGED <<gameVars, stateVars, ipc, current, obsVars, procVars, conn, up, peerVars>>

\* The peer closed after the batch was fetched: the write fails (SIGPIPE, or
\* "write failed" thrown through eventLoop).
OnOutputFails(p) ==
  /\ ipc = "dispatch" /\ Event(p, "output") \in events
  /\ peer[p] = "gone" /\ output[p] # <<>>
  /\ alive' = FALSE
  /\ UNCHANGED <<gameVars, stateVars, ioVars, obsVars, stop_, netVars, peerVars>>

\* Connection::onInput calls AsyncReader::read, which reads until EAGAIN.
OnInput(p) ==
  /\ ipc = "dispatch" /\ Event(p, "input") \in events
  /\ events' = events \ {Event(p, "input")}
  /\ current' = [Idle EXCEPT !.conn = p]
  /\ ipc' = "reading"
  /\ UNCHANGED <<gameVars, stateVars, obsVars, procVars, netVars, peerVars>>

\* handleRequest and ReceiveMessage: the message gets a new ConnectionId, then
\* DispatchMessage.  AddClient's push_back comes before AddPlayer is called.
ReceiveMessage ==
  LET p == current.conn IN
  /\ ipc = "reading" /\ up[p] # <<>>
  /\ up' = [up EXCEPT ![p] = Tail(@)]
  /\ connections' = connections + 1
  /\ current' = [conn |-> p, msg |-> Head(up[p])]
  /\ \/ /\ Head(up[p]).type = "CLI_SUB_REQUEST"
        /\ client_ids_' = Append(client_ids_, p)
        /\ since' = [since EXCEPT ![p] = state_id]
        /\ ipc' = "addPlayer"
        /\ UNCHANGED viewer_ids_
     \/ /\ Head(up[p]).type = "VIEW_SUB_REQUEST"
        /\ viewer_ids_' = Append(viewer_ids_, p)
        /\ since' = [since EXCEPT ![p] = state_id]
        /\ ipc' = "confirmViewer"
        /\ UNCHANGED client_ids_
     \/ /\ Head(up[p]).type = "TURN"
        /\ ipc' = "addTurn"
        /\ UNCHANGED <<client_ids_, viewer_ids_, since>>
  /\ UNCHANGED <<gameVars, stateVars, events, procVars, output, conn, down, peerVars>>

\* recv returned EAGAIN: the event is handled.
InputDrained ==
  /\ ipc = "reading" /\ up[current.conn] = <<>> /\ peer[current.conn] # "gone"
  /\ ipc' = "dispatch" /\ current' = Idle
  /\ UNCHANGED <<gameVars, stateVars, events, obsVars, procVars, netVars, peerVars>>

\* recv returned 0: need_close_, and eventLoop closes the connection.
EndOfFile ==
  /\ ipc = "reading" /\ up[current.conn] = <<>> /\ peer[current.conn] = "gone"
  /\ CloseConnection(current.conn)
  /\ ipc' = "dispatch" /\ current' = Idle
  /\ UNCHANGED <<gameVars, stateVars, events, obsVars, procVars, down, peerVars>>

\* The peer reset the connection after the batch was fetched: "recv failed" is
\* thrown through eventLoop and main, which catch nothing.
RecvFails ==
  /\ ipc = "reading" /\ peer[current.conn] = "gone"
  /\ alive' = FALSE
  /\ UNCHANGED <<gameVars, stateVars, ioVars, obsVars, stop_, netVars, peerVars>>

\* A mutation, not the code: a refused client is not answered.
AfterRefusal_Silent == "reading"
AfterRefusal == "refused"

\* GameStateManager::AddPlayer at the limit.
RefusePlayer ==
  /\ ipc = "addPlayer" /\ ~GameHoldsMutex
  /\ Len(players) >= MaxPlayers
  /\ ipc' = AfterRefusal
  /\ UNCHANGED <<gameVars, stateVars, events, current, obsVars, procVars, netVars, peerVars>>

\* A mutation, not the code: the new turn's player_id is left as resize made it.
TurnsWithNewPlayer_OwnerUnset == Append(turns, NoTurn)
\* A mutation, not the code: the turns are assigned anew.
TurnsWithNewPlayer_Cleared ==
  [i \in 1..Len(turns) + 1 |-> [NoTurn EXCEPT !.player_id = i - 1]]
\* turns_.resize, then the turn at the new player's id is filled in.
TurnsWithNewPlayer ==
  [Append(turns, NoTurn) EXCEPT ![next_id + 1] = [NoTurn EXCEPT !.player_id = next_id]]

FollowingId == next_id + 1

AddPlayer ==
  /\ ipc = "addPlayer" /\ ~GameHoldsMutex
  /\ Len(players) < MaxPlayers
  /\ players' = Append(players, next_id)
  /\ turns' = TurnsWithNewPlayer
  /\ next_id' = FollowingId
  /\ ipc' = "accepted"
  /\ UNCHANGED <<gameVars, state_id, applied, events, current, obsVars, procVars,
                 netVars, peerVars>>

\* No free place among the players where they are now: GetPlayer draws positions
\* for ever, with the mutex held.
GetPlayerSpins ==
  /\ ipc = "addPlayer" /\ ~GameHoldsMutex
  /\ Len(players) < MaxPlayers /\ Len(players) >= Room
  /\ ipc' = "spinning"
  /\ UNCHANGED <<gameVars, stateVars, events, current, obsVars, procVars, netVars, peerVars>>

\* A mutation, not the code: the id the next player will get.
NewPlayerId_Next == next_id
\* AddClient's player_id: the id of the player just added.
NewPlayerId == next_id - 1

\* SendClientConfirmation and SendViewerConfirmation.  ViewerIds start at 0.
SendConfirmation ==
  /\ ipc \in {"refused", "accepted", "confirmViewer"}
  /\ SendMessage(IF ipc = "confirmViewer"
                 THEN ViewerSubscribeResult(Len(viewer_ids_) - 1)
                 ELSE ClientSubscribeResult(ipc = "accepted", NewPlayerId),
                 current.conn)
  /\ ipc' = "reading"
  /\ UNCHANGED <<gameVars, stateVars, events, current, obsVars, procVars,
                 conn, up, down, peerVars>>

\* A mutation, not the code: the turn of the youngest player is overwritten.
TurnSlot_Last == Len(turns)
\* turns_.at(turn.player_id); TLA+ sequences start at 1.
TurnSlot == current.msg.turn.player_id + 1

\* GameStateManager::AddTurn: turns_.at(turn.player_id) = turn.  at never throws
\* (AddTurnInRange), so the step that would end the process is not modelled.
AddTurn ==
  /\ ipc = "addTurn" /\ ~GameHoldsMutex
  /\ TurnSlot \in DOMAIN turns
  /\ turns' = [turns EXCEPT ![TurnSlot] = current.msg.turn]
  /\ ipc' = "reading"
  /\ UNCHANGED <<gameVars, state_id, players, applied, next_id, events, current,
                 obsVars, procVars, netVars, peerVars>>

IoThread ==
  /\ alive
  /\ \/ LoopTop \/ Poll \/ BatchDone \/ Accept
     \/ \E p \in Peers : OnError(p) \/ OnOutput(p) \/ OnOutputFails(p) \/ OnInput(p)
     \/ ReceiveMessage \/ InputDrained \/ EndOfFile \/ RecvFails
     \/ RefusePlayer \/ AddPlayer \/ GetPlayerSpins \/ SendConfirmation \/ AddTurn

-----------------------------------------------------------------------------
(* The peers *)

\* A peer is served while the server's process runs.
Running == alive /\ ipc # "exited"

\* Gamer::ConnectionToServer and ViewerClient::Run: connect, send the request.
Join(p) ==
  /\ peer[p] = "new" /\ Running
  /\ peer' = [peer EXCEPT ![p] = "joining"]
  /\ conn' = [conn EXCEPT ![p] = "backlog"]
  /\ up' = [up EXCEPT ![p] = << IF p \in Clients THEN ClientSubscribeRequest
                                ELSE ViewerSubscribeRequest >>]
  /\ UNCHANGED <<gameVars, stateVars, ioVars, obsVars, procVars, output, down,
                 player_id_, seen>>

\* The first message is the confirmation of the subscription.  A Gamer that gets
\* something else, or a refusal (it has no id and does not parse), ends and its
\* socket closes; a viewer whose handshake fails keeps its socket.
Confirmed(p) ==
  /\ peer[p] = "joining" /\ down[p] # <<>>
  /\ down' = [down EXCEPT ![p] = Tail(@)]
  /\ LET m == Head(down[p]) IN
     \/ /\ p \in Clients /\ m.type = "CLI_SUB_RESULT" /\ m.result
        /\ player_id_' = [player_id_ EXCEPT ![p] = m.id]
        /\ peer' = [peer EXCEPT ![p] = "playing"]
     \/ /\ p \in Viewers /\ m.type = "VIEW_SUB_RESULT"
        /\ peer' = [peer EXCEPT ![p] = "playing"]
        /\ UNCHANGED player_id_
     \/ /\ p \in Clients /\ ~(m.type = "CLI_SUB_RESULT" /\ m.result)
        /\ peer' = [peer EXCEPT ![p] = "gone"]
        /\ UNCHANGED player_id_
     \/ /\ p \in Viewers /\ m.type # "VIEW_SUB_RESULT"
        /\ peer' = [peer EXCEPT ![p] = "finished"]
        /\ UNCHANGED player_id_
  /\ UNCHANGED <<gameVars, stateVars, ioVars, obsVars, procVars, output, conn, up, seen>>

\* A mutation, not the code: the turn is sent again.
Answer_Twice(p, s) == << TurnMessage(p, s), TurnMessage(p, s) >>
\* A mutation, not the code: the turn is for the state after the one received.
Answer_Ahead(p, s) == << TurnMessage(p, s + 1) >>
Answer(p, s) == << TurnMessage(p, s) >>

\* Gamer::Turn answers a STATE; GetNextFieldState stores it.
TakeState(p) ==
  /\ peer[p] = "playing" /\ down[p] # <<>>
  /\ Head(down[p]).type = "STATE"
  /\ down' = [down EXCEPT ![p] = Tail(@)]
  /\ seen' = [seen EXCEPT ![p] = Head(down[p]).id]
  /\ up' = [up EXCEPT ![p] =
              IF p \in Clients
              THEN @ \o Answer(player_id_[p], Head(down[p]).id) ELSE @]
  /\ UNCHANGED <<gameVars, stateVars, ioVars, obsVars, procVars, output, conn,
                 peer, player_id_>>

\* Gamer::Finish takes any other message for the end, ViewerClient::Run stops at
\* FINISH.  The Gamer's process ends; the viewer's socket stays open.
TakeFinish(p) ==
  /\ peer[p] = "playing" /\ down[p] # <<>>
  /\ Head(down[p]).type # "STATE"
  /\ down' = [down EXCEPT ![p] = IF p \in Clients THEN <<>> ELSE Tail(@)]
  /\ peer' = [peer EXCEPT ![p] = IF p \in Clients THEN "gone" ELSE "finished"]
  /\ UNCHANGED <<gameVars, stateVars, ioVars, obsVars, procVars, output, conn, up,
                 player_id_, seen>>

\* The peer's process is killed.
Die(p) ==
  /\ p \in Mortal /\ peer[p] \in {"joining", "playing", "finished"}
  /\ peer' = [peer EXCEPT ![p] = "gone"]
  /\ down' = [down EXCEPT ![p] = <<>>]
  /\ UNCHANGED <<gameVars, stateVars, ioVars, obsVars, procVars, output, conn, up,
                 player_id_, seen>>

Reads(p) == Confirmed(p) \/ TakeState(p) \/ TakeFinish(p)

Next ==
  \/ GameThread
  \/ IoThread
  \/ \E p \in Peers : Join(p) \/ Reads(p) \/ Die(p)

Spec == Init /\ [][Next]_vars

\* Both threads are scheduled, and every peer that is started runs.
Fairness ==
  /\ WF_vars(GameThread)
  /\ WF_vars(IoThread)
  /\ \A p \in Peers : WF_vars(Join(p)) /\ WF_vars(Reads(p))

FairSpec == Spec /\ Fairness

-----------------------------------------------------------------------------
(* Properties *)

GameTypeOK == gpc \in GamePcs /\ sendPos \in Nat \ {0} /\ sendEnd \in Nat
StateTypeOK ==
  /\ state_id \in Nat /\ next_id \in Nat
  /\ players \in Seq(Nat) /\ turns \in Seq(Turn) /\ applied \in Seq(Turn)
IoTypeOK ==
  /\ ipc \in IoPcs
  /\ events \subseteq [conn: Peers \union {Listener}, kind: {"input", "output", "error"}]
  /\ current \in [conn: Peers \union {Listener}, msg: UpMessage]
ObsTypeOK ==
  /\ connections \in Nat /\ client_ids_ \in Seq(Peers) /\ viewer_ids_ \in Seq(Peers)
  /\ since \in [Peers -> Nat]
ProcTypeOK == stop_ \in BOOLEAN /\ alive \in BOOLEAN
NetTypeOK ==
  /\ conn \in [Peers -> ConnStates]
  /\ up \in [Peers -> Seq(UpMessage)]
  /\ output \in [Peers -> Seq(DownMessage)] /\ down \in [Peers -> Seq(DownMessage)]
PeerTypeOK ==
  /\ peer \in [Peers -> PeerStates]
  /\ player_id_ \in [Peers -> Nat] /\ seen \in [Peers -> Nat]

TypeOK ==
  /\ GameTypeOK /\ StateTypeOK /\ IoTypeOK /\ ObsTypeOK
  /\ ProcTypeOK /\ NetTypeOK /\ PeerTypeOK

\* turns_ and state_.players stay parallel and the player at index i has id i:
\* Emulate's assertion holds and GetAccelerations finds a turn for every player.
TurnsMatchPlayers ==
  /\ Len(turns) = Len(players)
  /\ \A i \in DOMAIN players : players[i] = i - 1 /\ turns[i].player_id = i - 1

\* The TURN being handled names a player the game has: turns_.at in AddTurn never
\* throws through the event loop, however the messages and the joins interleave.
AddTurnInRange ==
  ipc = "addTurn" => TurnSlot \in DOMAIN turns

\* connections_ never shrinks, yet it stays bounded: one entry per subscription and
\* one per state a Gamer answers, because no state is answered twice.
ConnectionsBounded ==
  connections <= Cardinality(Peers) + Cardinality(Clients) * MaxStates

\* No turn is stored for a state the game has not sent yet.
NoTurnForFutureState == \A i \in DOMAIN turns : turns[i].state_id <= state_id

\* A stored turn is never replaced by a turn for an earlier state, whatever the order
\* in which the IO thread handles the connections.
TurnsNeverGoBack ==
  [][\A i \in DOMAIN turns :
       turns'[i].state_id >= turns[i].state_id]_vars

\* A player's turn is replaced only while a message of its own Gamer is handled.
OwnTurnOnly ==
  [][\A i \in DOMAIN turns :
       turns'[i].state_id # turns[i].state_id => player_id_[current.conn] = i - 1]_vars

\* When the game thread has sent FINISH, it is the last message in the pipe of
\* every peer that was given a state: no state follows it, and none is without it.
FinishQueued ==
  gpc \in {"stopping", "done"} =>
    \A p \in Peers : peer[p] = "playing" /\ seen[p] > 0 =>
      LET pipe == down[p] \o output[p] IN
      pipe # <<>> /\ pipe[Len(pipe)].type = "FINISH"

\* The first message a subscriber is given is the answer to its request: both
\* clients end with "Bad response type" (gamer.cpp) or "Bad handshake response
\* type" (viewer_client.cpp) otherwise.
ConfirmationFirst ==
  \A p \in Peers : peer[p] = "joining" /\ down[p] # <<>> =>
    Head(down[p]).type \in {"CLI_SUB_RESULT", "VIEW_SUB_RESULT"}

\* A player is accelerated only by a turn made for the state that was just sent:
\* what FilterTurns is written to ensure.
StaleTurnsFiltered ==
  [][applied' # applied =>
       \A i \in DOMAIN applied' :
         applied'[i].acceleration # "zero" => applied'[i].state_id = state_id]_vars

\* The peers that AddClient or AddViewer made observers.
Subscribed == {client_ids_[i] : i \in DOMAIN client_ids_}
                \union {viewer_ids_[i] : i \in DOMAIN viewer_ids_}
Streams ==
  INSTANCE ObserverStream
  WITH Observers <- Peers, round <- state_id, joined <- Subscribed, start <- since,
       last <- seen, over <- [p \in Peers |-> peer[p] \in {"finished", "gone"}]
\* The server implements ObserverStream for all its peers together: an observer is
\* given every state from the one of its subscription on, without a gap and in order,
\* whatever the order in which the two threads fill and flush the queues.
StreamsSpec == Streams!Spec

\* The data race, a reset connection and GetPlayer can end the service.
Doomed == ~alive \/ ipc = "spinning"

\* Once enough players have joined, the game is played to its end.
GameFinishes == Len(players) >= MinPlayers ~> gpc = "done" \/ Doomed

\* The answer to p's request is on its way or waits to be read.
Answered(p) ==
  LET pipe == down[p] \o output[p] IN
  \E i \in DOMAIN pipe : pipe[i].type \in {"CLI_SUB_RESULT", "VIEW_SUB_RESULT"}

\* Every subscription is answered, also one that is refused, late or behind a state
\* as the answer may be: only a request that the IO thread has not taken when the
\* game ends may stay without.
SubscriptionsAnswered ==
  \A p \in Peers \ Mortal :
    peer[p] = "joining" ~> Answered(p) \/ (stop_ /\ p \notin Subscribed) \/ Doomed

\* eventLoop notices stop_ if some connection stays open to wake epoll_wait.
StopEndsLoop ==
  \A p \in Viewers \ Mortal : stop_ /\ conn[p] = "open" ~> ipc = "exited" \/ Doomed
=============================================================================
