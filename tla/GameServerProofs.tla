-------------------------- MODULE GameServerProofs ---------------------------
(***************************************************************************)
(* Proofs about GameServer for every set of peers and every limit: its     *)
(* types and ids, the turns of the Gamers, the streams to the observers    *)
(* (the refinement of ObserverStream), the end of the game and the         *)
(* connections.                                                            *)
(*                                                                         *)
(* The invariants of GameServer are not inductive by themselves: what a    *)
(* TURN may say depends on the messages still on their way. IInv follows a *)
(* player id from AddPlayer through the confirmation to the Gamer, and     *)
(* from there in its turns back to AddTurn, and a state id likewise.       *)
(***************************************************************************)
EXTENDS GameServer, FiniteSetTheorems, SequenceTheorems, TLAPS

\* Messages to the server that only name players among the first n, and states
\* not beyond s.
KnownUp(n, s) ==
  {m \in UpMessage : m.type = "TURN" => m.turn.player_id < n /\ m.turn.state_id <= s}

\* Messages to the peers that only give out ids of the first n players, and
\* states not beyond s.
KnownDown(n, s) ==
  {m \in DownMessage :
     /\ m.type = "CLI_SUB_RESULT" /\ m.result => m.id < n
     /\ m.type = "STATE" => m.id <= s}

Handling == {"reading", "addPlayer", "spinning", "refused", "accepted", "confirmViewer", "addTurn"}

PipesKnown ==
  /\ up \in [Peers -> Seq(KnownUp(Len(players), state_id))]
  /\ down \in [Peers -> Seq(KnownDown(Len(players), state_id))]
  /\ output \in [Peers -> Seq(KnownDown(Len(players), state_id))]

GamersKnown == \A p \in Clients : peer[p] = "playing" => player_id_[p] < Len(players)

HandledKnown ==
  /\ ipc \in Handling => current.conn \in Peers
  /\ ipc = "addTurn" => current.msg \in KnownUp(Len(players), state_id) /\ current.msg.type = "TURN"
  /\ ipc = "accepted" => players # <<>>
  /\ ipc = "confirmViewer" => viewer_ids_ # <<>>

IInv ==
  /\ TypeOK
  /\ TurnsMatchPlayers
  /\ next_id = Len(players)
  /\ gpc = "waiting" => state_id = 0
  /\ NoTurnForFutureState
  /\ PipesKnown
  /\ GamersKnown
  /\ HandledKnown

-----------------------------------------------------------------------------

\* What is known of a message stays known when players or states are added.
LEMMA KnownMonotone ==
  ASSUME NEW n \in Nat, NEW s \in Nat, NEW n2 \in Nat, NEW s2 \in Nat, n <= n2, s <= s2
  PROVE  /\ KnownUp(n, s) \subseteq KnownUp(n2, s2)
         /\ KnownDown(n, s) \subseteq KnownDown(n2, s2)
BY DEF KnownUp, KnownDown, UpMessage, DownMessage, Turn

\* A sequence over a set is one over every larger set.
LEMMA SeqMonotone ==
  ASSUME NEW S, NEW T, S \subseteq T, NEW f \in [Peers -> Seq(S)]
  PROVE  f \in [Peers -> Seq(T)]
OBVIOUS

\* Append, element by element.
LEMMA Appended ==
  ASSUME NEW S, NEW s \in Seq(S), NEW x \in S
  PROVE  /\ Append(s, x) \in Seq(S)
         /\ Len(Append(s, x)) = Len(s) + 1 /\ Append(s, x) # <<>>
         /\ DOMAIN Append(s, x) = 1..(Len(s) + 1) /\ DOMAIN s = 1..Len(s)
         /\ \A i \in 1..Len(s) : Append(s, x)[i] = s[i]
         /\ Append(s, x)[Len(s) + 1] = x
OBVIOUS

\* resize, then an assignment to the new last element.
LEMMA AppendedThenSet ==
  ASSUME NEW S, NEW s \in Seq(S), NEW x \in S, NEW y \in S
  PROVE  [Append(s, x) EXCEPT ![Len(s) + 1] = y] = Append(s, y)
<1> DEFINE a == Append(s, x)
           l == [a EXCEPT ![Len(s) + 1] = y]
           r == Append(s, y)
<1>1. /\ a \in Seq(S) /\ r \in Seq(S) /\ Len(a) = Len(s) + 1 /\ Len(r) = Len(s) + 1
      /\ \A i \in 1..Len(s) : a[i] = r[i]
      /\ r[Len(s) + 1] = y /\ Len(s) \in Nat
  BY Appended
<1> HIDE DEF a, r
<1>2. /\ l \in Seq(S) /\ Len(l) = Len(a)
      /\ \A i \in 1..Len(a) : l[i] = IF i = Len(s) + 1 THEN y ELSE a[i]
  BY <1>1, ExceptSeq
<1> HIDE DEF l
<1>3. \A i \in 1..Len(l) : l[i] = r[i]
  BY <1>1, <1>2
<1>4. l = r
  BY <1>1, <1>2, <1>3, SeqEqual
<1> QED
  BY <1>4 DEF l, r, a

\* Emptying one pipe keeps the family of pipes one of sequences.
LEMMA EmptiedPipe ==
  ASSUME NEW S, NEW f \in [Peers -> Seq(S)], NEW p
  PROVE  [f EXCEPT ![p] = <<>>] \in [Peers -> Seq(S)]
<1>1. <<>> \in Seq(S)
  OBVIOUS
<1> QED
  BY <1>1

\* SendMessage adds at most its message to one queue.
LEMMA SentIsQueued ==
  ASSUME NEW S, output \in [Peers -> Seq(S)], NEW m \in S, NEW p, SendMessage(m, p)
  PROVE  output' \in [Peers -> Seq(S)]
<1>1. CASE conn[p] = "open"
  <2>1. output' = [output EXCEPT ![p] = Append(output[p], m)]
    BY <1>1 DEF SendMessage
  <2>2. p \in Peers => Append(output[p], m) \in Seq(S)
    OBVIOUS
  <2> QED
    BY <2>1, <2>2
<1>2. CASE conn[p] # "open"
  BY <1>2 DEF SendMessage
<1> QED
  BY <1>1, <1>2

\* The server starts with no players, no turns and empty pipes.
LEMMA InitIInv == Init => IInv
<1> SUFFICES ASSUME Init PROVE IInv
  OBVIOUS
<1>1. NoTurn \in Turn /\ Idle \in [conn: Peers \union {Listener}, msg: UpMessage]
  BY DEF Idle, ClientSubscribeRequest, NoTurn, UpMessage, Turn, Accelerations
<1>2. GameTypeOK
  BY DEF Init, GameTypeOK, GamePcs
<1>3. StateTypeOK
  BY DEF Init, StateTypeOK
<1>4. IoTypeOK
  BY <1>1 DEF Init, IoTypeOK, IoPcs
<1>5. ObsTypeOK
  BY DEF Init, ObsTypeOK
<1>6. ProcTypeOK
  BY DEF Init, ProcTypeOK
<1>7. NetTypeOK /\ PeerTypeOK
  BY DEF Init, NetTypeOK, PeerTypeOK, ConnStates, PeerStates
<1>8. TurnsMatchPlayers /\ NoTurnForFutureState
  BY DEF Init, TurnsMatchPlayers, NoTurnForFutureState
<1>9. PipesKnown /\ GamersKnown /\ HandledKnown
  BY DEF Init, PipesKnown, GamersKnown, HandledKnown, Handling, Peers
<1>10. next_id = Len(players) /\ (gpc = "waiting" => state_id = 0)
  BY DEF Init
<1> QED
  BY <1>2, <1>3, <1>4, <1>5, <1>6, <1>7, <1>8, <1>9, <1>10 DEF IInv, TypeOK

-----------------------------------------------------------------------------
(* What a step leaves alone stays as it was. *)

\* Steps that change no variable of a kind keep its types.
LEMMA FrameTypes ==
  ASSUME IInv
  PROVE  /\ UNCHANGED gameVars => GameTypeOK'
         /\ UNCHANGED stateVars => StateTypeOK'
         /\ UNCHANGED ioVars => IoTypeOK'
         /\ UNCHANGED obsVars => ObsTypeOK'
         /\ UNCHANGED procVars => ProcTypeOK'
         /\ UNCHANGED netVars => NetTypeOK'
         /\ UNCHANGED peerVars => PeerTypeOK'
<1> USE DEF IInv, TypeOK
<1>1. UNCHANGED gameVars => GameTypeOK'
  BY DEF gameVars, GameTypeOK
<1>2. UNCHANGED stateVars => StateTypeOK'
  BY DEF stateVars, StateTypeOK
<1>3. UNCHANGED ioVars => IoTypeOK'
  BY DEF ioVars, IoTypeOK
<1>4. UNCHANGED obsVars => ObsTypeOK'
  BY DEF obsVars, ObsTypeOK
<1>5. UNCHANGED procVars => ProcTypeOK'
  BY DEF procVars, ProcTypeOK
<1>6. UNCHANGED netVars => NetTypeOK'
  BY DEF netVars, NetTypeOK
<1>7. UNCHANGED peerVars => PeerTypeOK'
  BY DEF peerVars, PeerTypeOK
<1> QED
  BY <1>1, <1>2, <1>3, <1>4, <1>5, <1>6, <1>7

\* The parts of IInv about the game's players and turns.
PlayersInv ==
  /\ TurnsMatchPlayers
  /\ next_id = Len(players)
  /\ NoTurnForFutureState

\* The parts of IInv about ids and states that are on their way.
KnownInv == PipesKnown /\ GamersKnown /\ HandledKnown

\* A step that leaves players, turns and the state id alone.
LEMMA FramePlayers ==
  ASSUME IInv, UNCHANGED stateVars
  PROVE  PlayersInv'
BY DEF IInv, PlayersInv, TurnsMatchPlayers, NoTurnForFutureState, stateVars

\* A step that moves no message and no peer keeps KnownInv, also when it adds a
\* player or a state.
LEMMA FramePipes ==
  ASSUME IInv, UNCHANGED netVars,
         Len(players') \in Nat, Len(players) <= Len(players'),
         state_id' \in Nat, state_id <= state_id'
  PROVE  PipesKnown'
<1>1. Len(players) \in Nat /\ state_id \in Nat
  BY DEF IInv, TypeOK, StateTypeOK
<1>2. /\ KnownUp(Len(players), state_id) \subseteq KnownUp(Len(players'), state_id')
      /\ KnownDown(Len(players), state_id) \subseteq KnownDown(Len(players'), state_id')
  BY <1>1, KnownMonotone
<1> QED
  BY <1>2, SeqMonotone DEF IInv, PipesKnown, netVars

\* A playing Gamer's id stays known when players are added.
LEMMA FrameGamers ==
  ASSUME IInv, UNCHANGED peerVars, Len(players') \in Nat, Len(players) <= Len(players')
  PROVE  GamersKnown'
BY DEF IInv, GamersKnown, peerVars, TypeOK, StateTypeOK, PeerTypeOK, Peers

\* The message in the IO thread's hands stays known when players or states are added.
LEMMA FrameHandled ==
  ASSUME IInv, UNCHANGED ioVars, UNCHANGED obsVars, players' = <<>> => players = <<>>,
         Len(players') \in Nat, Len(players) <= Len(players'),
         state_id' \in Nat, state_id <= state_id'
  PROVE  HandledKnown'
<1>1. Len(players) \in Nat /\ state_id \in Nat
  BY DEF IInv, TypeOK, StateTypeOK
<1>2. KnownUp(Len(players), state_id) \subseteq KnownUp(Len(players'), state_id')
  BY <1>1, KnownMonotone
<1> QED
  BY <1>2 DEF IInv, HandledKnown, ioVars, obsVars

-----------------------------------------------------------------------------
(* Emulate finds a turn for every player. *)

\* A player's turn is the one at its index, so GetAccelerations' find_if succeeds.
LEMMA TurnOfPlayer ==
  ASSUME IInv, NEW i \in 1..Len(players)
  PROVE  TurnOf(players[i], turns) = turns[i] /\ turns[i] \in Turn
<1>0. /\ players \in Seq(Nat) /\ turns \in Seq(Turn)
      /\ Len(turns) = Len(players)
      /\ \A k \in DOMAIN players : players[k] = k - 1 /\ turns[k].player_id = k - 1
  BY DEF IInv, TypeOK, StateTypeOK, TurnsMatchPlayers
<1>d. DOMAIN turns = 1..Len(players) /\ DOMAIN players = 1..Len(players)
  BY <1>0
<1>1. /\ DOMAIN turns = 1..Len(players) /\ players[i] = i - 1
      /\ \A k \in DOMAIN turns : turns[k].player_id = k - 1
  BY <1>0, <1>d
<1>2. \A k \in DOMAIN turns : turns[k].player_id = i - 1 <=> k = i
  BY <1>1
<1>3. \A k \in DOMAIN turns :
        (turns[k].player_id = players[i]
          /\ \A j \in DOMAIN turns : turns[j].player_id = players[i] => k <= j) <=> k = i
  BY <1>1, <1>2
<1>4. (CHOOSE k \in DOMAIN turns :
         turns[k].player_id = players[i]
           /\ \A j \in DOMAIN turns : turns[j].player_id = players[i] => k <= j) = i
  BY <1>1, <1>3
<1> QED
  BY <1>0, <1>1, <1>4 DEF TurnOf

-----------------------------------------------------------------------------
(* The game thread *)

\* While the players and the pipes stay as they are, only the types are left to show.
LEMMA FrameAll ==
  ASSUME IInv, UNCHANGED <<stateVars, ioVars, obsVars, netVars, peerVars>>
  PROVE  /\ StateTypeOK' /\ IoTypeOK' /\ ObsTypeOK' /\ NetTypeOK' /\ PeerTypeOK'
         /\ PlayersInv' /\ KnownInv'
<1>1. Len(players) \in Nat /\ state_id \in Nat
  BY DEF IInv, TypeOK, StateTypeOK
<1>2. /\ UNCHANGED stateVars /\ UNCHANGED ioVars /\ UNCHANGED obsVars
      /\ UNCHANGED netVars /\ UNCHANGED peerVars
  OBVIOUS
<1>3. players' = players /\ state_id' = state_id
  BY <1>2 DEF stateVars
<1>4. StateTypeOK' /\ IoTypeOK' /\ ObsTypeOK' /\ NetTypeOK' /\ PeerTypeOK'
  BY <1>2, FrameTypes
<1> QED
  BY <1>1, <1>2, <1>3, <1>4, FramePlayers, FramePipes, FrameGamers, FrameHandled DEF KnownInv

\* GameStateManager::Run, one step per statement that others can see.
LEMMA GameThreadIInv ==
  ASSUME IInv, GameThread
  PROVE  IInv'
<1>0. /\ GameTypeOK /\ StateTypeOK /\ ObsTypeOK /\ ProcTypeOK /\ NetTypeOK
      /\ Len(players) \in Nat /\ state_id \in Nat
  BY DEF IInv, TypeOK, StateTypeOK
<1>1. CASE CheckPlayersCount
  <2>1. state_id = 0 /\ state_id' = 0
    BY <1>1 DEF CheckPlayersCount, InitialStateId, IInv
  <2>2. UNCHANGED <<stateVars, ioVars, obsVars, netVars, peerVars>> /\ UNCHANGED procVars
    BY <1>1, <2>1 DEF CheckPlayersCount, stateVars
  <2>3. GameTypeOK' /\ gpc' # "waiting"
    BY <1>0, <1>1 DEF CheckPlayersCount, GameTypeOK, GamePcs
  <2> QED
    BY <2>2, <2>3, FrameAll, FrameTypes DEF IInv, TypeOK, PlayersInv, KnownInv
<1>2. CASE BeginState
  <2>1. /\ UNCHANGED <<players, turns, applied, next_id>> /\ UNCHANGED ioVars
        /\ UNCHANGED obsVars /\ UNCHANGED procVars /\ UNCHANGED netVars /\ UNCHANGED peerVars
        /\ state_id' = state_id + 1
    BY <1>2 DEF BeginState
  <2>2. GameTypeOK' /\ gpc' # "waiting"
    BY <1>0, <1>2 DEF BeginState, GameTypeOK, ObsTypeOK, GamePcs, SendPhases
  <2>3. StateTypeOK'
    BY <1>0, <2>1 DEF StateTypeOK
  <2>4. PlayersInv'
    <3>1. \A i \in DOMAIN turns : turns[i].state_id \in Nat /\ turns[i].state_id <= state_id
      <4>1. turns \in Seq(Turn)
        BY <1>0 DEF StateTypeOK
      <4>2. \A i \in DOMAIN turns : turns[i] \in Turn
        BY <4>1, LenProperties
      <4> QED
        BY <4>2 DEF Turn, IInv, NoTurnForFutureState
    <3> QED
      BY <1>0, <2>1, <3>1 DEF PlayersInv, TurnsMatchPlayers, NoTurnForFutureState, IInv
  <2>5. KnownInv'
    BY <1>0, <2>1, FramePipes, FrameGamers, FrameHandled DEF KnownInv
  <2> QED
    BY <2>1, <2>2, <2>3, <2>4, <2>5, FrameTypes DEF IInv, TypeOK, PlayersInv, KnownInv
<1>3. CASE SendToNext
  <2>1. /\ UNCHANGED stateVars /\ UNCHANGED ioVars /\ UNCHANGED obsVars
        /\ UNCHANGED procVars /\ UNCHANGED peerVars
        /\ players' = players /\ state_id' = state_id /\ gpc' = gpc
        /\ UNCHANGED <<conn, up, down>>
    BY <1>3 DEF SendToNext, stateVars
  <2>2. GameTypeOK'
    BY <1>0, <1>3 DEF SendToNext, GameTypeOK
  <2>3. Outgoing \in KnownDown(Len(players), state_id)
    BY <1>0 DEF Outgoing, State, Finish, KnownDown, DownMessage
  <2>4. output' \in [Peers -> Seq(KnownDown(Len(players), state_id))]
    BY <1>3, <2>3, SentIsQueued DEF SendToNext, IInv, PipesKnown
  <2>5. PipesKnown'
    BY <2>1, <2>4 DEF PipesKnown, IInv
  <2>6. NetTypeOK'
    <3>1. KnownDown(Len(players), state_id) \subseteq DownMessage
      BY DEF KnownDown
    <3> QED
      BY <1>0, <2>1, <2>4, <3>1, SeqMonotone DEF NetTypeOK
  <2>7. KnownInv' /\ PlayersInv'
    BY <1>0, <2>1, <2>5, FrameGamers, FrameHandled, FramePlayers DEF KnownInv
  <2> QED
    BY <2>1, <2>2, <2>6, <2>7, FrameTypes DEF IInv, TypeOK, PlayersInv, KnownInv
<1>4. CASE Emulate
  <2>1. /\ UNCHANGED ioVars /\ UNCHANGED obsVars /\ UNCHANGED procVars
        /\ UNCHANGED netVars /\ UNCHANGED peerVars
        /\ UNCHANGED <<players, turns, next_id, state_id>>
    BY <1>4 DEF Emulate, FilterTurns
  <2>2. GameTypeOK' /\ gpc' # "waiting"
    BY <1>0, <1>4 DEF Emulate, GameTypeOK, GamePcs
  <2>3. applied' \in Seq(Turn)
    <3>1. ASSUME NEW i \in 1..Len(players)
          PROVE  TurnOf(players[i], turns) \in Turn
      BY TurnOfPlayer
    <3> QED
      BY <1>0, <1>4, <3>1 DEF Emulate, FilterTurns
  <2>4. StateTypeOK'
    BY <1>0, <2>1, <2>3 DEF StateTypeOK
  <2>5. PlayersInv'
    BY <2>1 DEF PlayersInv, TurnsMatchPlayers, NoTurnForFutureState, IInv
  <2>6. KnownInv'
    BY <1>0, <2>1, FramePipes, FrameGamers, FrameHandled DEF KnownInv
  <2> QED
    BY <2>1, <2>2, <2>4, <2>5, <2>6, FrameTypes DEF IInv, TypeOK, PlayersInv, KnownInv
<1>5. CASE BeginFinish \/ ClientsDone \/ ViewersDone \/ SendReadsFreedMemory \/ Stop
  <2>1. UNCHANGED <<stateVars, ioVars, obsVars, netVars, peerVars>>
    BY <1>5 DEF BeginFinish, ClientsDone, ViewersDone, SendReadsFreedMemory, Stop
  <2>2. GameTypeOK' /\ gpc' # "waiting"
    BY <1>0, <1>5 DEF BeginFinish, ClientsDone, ViewersDone, SendReadsFreedMemory, Stop,
                      gameVars, GameTypeOK, ObsTypeOK, GamePcs, SendPhases
  <2>3. ProcTypeOK'
    BY <1>0, <1>5 DEF BeginFinish, ClientsDone, ViewersDone, SendReadsFreedMemory, Stop,
                      procVars, ProcTypeOK
  <2> QED
    BY <2>1, <2>2, <2>3, FrameAll DEF IInv, TypeOK, PlayersInv, KnownInv
<1> QED
  BY <1>1, <1>2, <1>3, <1>4, <1>5 DEF GameThread

-----------------------------------------------------------------------------
(* The IO thread *)

\* The IO thread with nothing in hand.
LEMMA IdleTyped == Idle \in [conn: Peers \union {Listener}, msg: UpMessage]
BY DEF Idle, ClientSubscribeRequest, NoTurn, UpMessage, Turn, Accelerations

\* Steps that only move the IO thread on, and steps that end the process.
IoMoves ==
  \/ LoopTop \/ Poll \/ BatchDone \/ InputDrained \/ RefusePlayer \/ GetPlayerSpins
  \/ \E p \in Peers : OnInput(p)
IoFails == RecvFails \/ \E p \in Peers : OnOutputFails(p)

\* Steps of the loop that move no message.
LEMMA IoMovesIInv ==
  ASSUME IInv, IoMoves
  PROVE  IInv'
<1>0. IoTypeOK /\ HandledKnown /\ Len(players) \in Nat /\ state_id \in Nat
  BY DEF IInv, TypeOK, StateTypeOK
<1>1. /\ UNCHANGED gameVars /\ UNCHANGED stateVars /\ UNCHANGED obsVars
      /\ UNCHANGED procVars /\ UNCHANGED netVars /\ UNCHANGED peerVars
  BY DEF IoMoves, LoopTop, Poll, BatchDone, InputDrained, RefusePlayer, GetPlayerSpins, OnInput
<1>2. gpc' = gpc /\ state_id' = state_id /\ players' = players /\ viewer_ids_' = viewer_ids_
  BY <1>1 DEF gameVars, stateVars, obsVars
<1>3. IoTypeOK' /\ HandledKnown'
  <2>1. CASE LoopTop
    BY <1>0, <2>1 DEF LoopTop, AfterLoopTop, IoTypeOK, IoPcs, HandledKnown, Handling
  <2>2. CASE Poll
    <3>1. events' \subseteq [conn: Peers \union {Listener}, kind: {"input", "output", "error"}]
      BY <2>2 DEF Poll, Event, Open
    <3>2. ipc' = "dispatch" /\ current' = current
      BY <2>2 DEF Poll
    <3> QED
      BY <1>0, <3>1, <3>2 DEF IoTypeOK, IoPcs, HandledKnown, Handling
  <2>3. CASE BatchDone \/ InputDrained
    BY <1>0, <2>3, IdleTyped DEF BatchDone, InputDrained, IoTypeOK, IoPcs, HandledKnown, Handling
  <2>4. CASE RefusePlayer \/ GetPlayerSpins
    BY <1>0, <2>4 DEF RefusePlayer, AfterRefusal, GetPlayerSpins, IoTypeOK, IoPcs,
                      HandledKnown, Handling
  <2>5. ASSUME NEW p \in Peers, OnInput(p)
        PROVE  IoTypeOK' /\ HandledKnown'
    <3>1. current' = [Idle EXCEPT !.conn = p] /\ ipc' = "reading" /\ events' \subseteq events
      BY <2>5 DEF OnInput
    <3>2. current' \in [conn: Peers \union {Listener}, msg: UpMessage] /\ current'.conn = p
      BY <3>1, IdleTyped
    <3> QED
      BY <1>0, <3>1, <3>2 DEF IoTypeOK, IoPcs, HandledKnown
  <2> QED
    BY <2>1, <2>2, <2>3, <2>4, <2>5 DEF IoMoves
<1>4. PlayersInv' /\ KnownInv'
  BY <1>0, <1>1, <1>2, <1>3, FramePlayers, FramePipes, FrameGamers DEF KnownInv
<1> QED
  BY <1>1, <1>2, <1>3, <1>4, FrameTypes DEF IInv, TypeOK, PlayersInv, KnownInv

\* The uncaught exceptions of reads and writes.
LEMMA IoFailsIInv ==
  ASSUME IInv, IoFails
  PROVE  IInv'
<1>1. /\ UNCHANGED <<stateVars, ioVars, obsVars, netVars, peerVars>>
      /\ UNCHANGED gameVars /\ gpc' = gpc /\ state_id' = state_id
      /\ alive' = FALSE /\ stop_' = stop_
  BY DEF IoFails, RecvFails, OnOutputFails, gameVars, stateVars
<1>2. ProcTypeOK'
  BY <1>1 DEF IInv, TypeOK, ProcTypeOK
<1> QED
  BY <1>1, <1>2, FrameAll, FrameTypes DEF IInv, TypeOK, PlayersInv, KnownInv

\* Closing, accepting and flushing move messages or drop them, and make none.
IoTransfers ==
  \/ Accept \/ EndOfFile
  \/ \E p \in Peers : OnError(p) \/ OnOutput(p)

\* Steps of the loop that move messages between a queue and a socket.
LEMMA IoTransfersIInv ==
  ASSUME IInv, IoTransfers
  PROVE  IInv'
<1>0. IoTypeOK /\ HandledKnown /\ NetTypeOK /\ Len(players) \in Nat /\ state_id \in Nat
  BY DEF IInv, TypeOK, StateTypeOK
<1>1. /\ UNCHANGED gameVars /\ UNCHANGED stateVars /\ UNCHANGED obsVars
      /\ UNCHANGED procVars /\ UNCHANGED peerVars
  BY DEF IoTransfers, Accept, EndOfFile, OnError, OnOutput
<1>2. gpc' = gpc /\ state_id' = state_id /\ players' = players /\ viewer_ids_' = viewer_ids_
  BY <1>1 DEF gameVars, stateVars, obsVars
<1>3. IoTypeOK' /\ HandledKnown'
  <2>1. /\ events' \subseteq events
        /\ ipc' = "dispatch"
        /\ current' = current \/ current' = Idle
    BY DEF IoTransfers, Accept, EndOfFile, OnError, OnOutput
  <2> QED
    BY <1>0, <2>1, IdleTyped DEF IoTypeOK, IoPcs, HandledKnown, Handling
<1> DEFINE U == KnownUp(Len(players), state_id)
           D == KnownDown(Len(players), state_id)
           Piped == /\ conn' \in [Peers -> ConnStates] /\ up' \in [Peers -> Seq(U)]
                    /\ down' \in [Peers -> Seq(D)] /\ output' \in [Peers -> Seq(D)]
<1>4. up \in [Peers -> Seq(U)] /\ down \in [Peers -> Seq(D)] /\ output \in [Peers -> Seq(D)]
  BY DEF IInv, PipesKnown
<1>5. Piped
  <2> HIDE DEF U, D
  <2>1. CASE Accept
    BY <1>0, <1>4, <2>1 DEF Accept, NetTypeOK, ConnStates
  <2>2. ASSUME NEW p, CloseConnection(p), down' = down
        PROVE  Piped
    <3>1. conn' \in [Peers -> ConnStates]
      BY <1>0, <2>2 DEF CloseConnection, NetTypeOK, ConnStates
    <3>2. output' \in [Peers -> Seq(D)]
      BY <1>4, <2>2, EmptiedPipe DEF CloseConnection
    <3>3. up' \in [Peers -> Seq(U)]
      BY <1>4, <2>2, EmptiedPipe DEF CloseConnection
    <3> QED
      BY <1>4, <2>2, <3>1, <3>2, <3>3
  <2>3. ASSUME NEW p \in Peers, OnOutput(p)
        PROVE  Piped
    <3>1. down[p] \o output[p] \in Seq(D)
      BY <1>4
    <3> QED
      BY <1>0, <1>4, <2>3, <3>1 DEF OnOutput, Flushed, NetTypeOK
  <2> QED
    BY <2>1, <2>2, <2>3 DEF IoTransfers, EndOfFile, OnError
<1>6. NetTypeOK'
  <2>1. U \subseteq UpMessage /\ D \subseteq DownMessage
    BY DEF KnownUp, KnownDown
  <2> HIDE DEF U, D
  <2> QED
    BY <1>5, <2>1, SeqMonotone DEF NetTypeOK
<1>7. PlayersInv' /\ KnownInv'
  BY <1>0, <1>1, <1>2, <1>3, <1>5, FramePlayers, FrameGamers DEF KnownInv, PipesKnown
<1> QED
  BY <1>1, <1>2, <1>3, <1>6, <1>7, FrameTypes DEF IInv, TypeOK, PlayersInv, KnownInv

\* Taking the first message off a pipe leaves a pipe of the same kind.
LEMMA TakenFromPipe ==
  ASSUME NEW S, NEW f \in [Peers -> Seq(S)], NEW p \in Peers, f[p] # <<>>
  PROVE  [f EXCEPT ![p] = Tail(@)] \in [Peers -> Seq(S)] /\ Head(f[p]) \in S
<1>1. f[p] \in Seq(S)
  OBVIOUS
<1>2. Tail(f[p]) \in Seq(S) /\ Head(f[p]) \in S
  BY <1>1
<1> QED
  BY <1>2

\* ReceiveMessage and DispatchMessage, up to the split of a subscription.
LEMMA ReceiveMessageIInv ==
  ASSUME IInv, ReceiveMessage
  PROVE  IInv'
<1> DEFINE p == current.conn
           n == Len(players)
           U == KnownUp(n, state_id)
<1>0. /\ IoTypeOK /\ ObsTypeOK /\ HandledKnown /\ NetTypeOK
      /\ Len(players) \in Nat /\ state_id \in Nat
      /\ up \in [Peers -> Seq(U)]
  BY DEF IInv, TypeOK, StateTypeOK, PipesKnown
<1>1. /\ UNCHANGED gameVars /\ UNCHANGED stateVars /\ UNCHANGED procVars /\ UNCHANGED peerVars
      /\ UNCHANGED <<events, output, conn, down>>
      /\ ipc = "reading" /\ up[p] # <<>>
      /\ up' = [up EXCEPT ![p] = Tail(@)]
      /\ connections' = connections + 1
      /\ current' = [conn |-> p, msg |-> Head(up[p])]
  BY DEF ReceiveMessage
<1>2. gpc' = gpc /\ state_id' = state_id /\ players' = players
  BY <1>1 DEF gameVars, stateVars
<1>3. p \in Peers
  BY <1>0, <1>1 DEF HandledKnown, Handling
<1>4. up' \in [Peers -> Seq(U)] /\ Head(up[p]) \in U
  <2> HIDE DEF U, p
  <2> QED
    BY <1>0, <1>1, <1>3, TakenFromPipe
<1>5. U \subseteq UpMessage
  BY DEF KnownUp
<1>6. NetTypeOK'
  <2> HIDE DEF U
  <2> QED
    BY <1>0, <1>1, <1>4, <1>5, SeqMonotone DEF NetTypeOK
<1>7. PipesKnown'
  BY <1>1, <1>2, <1>4 DEF IInv, PipesKnown
<1>8. ObsTypeOK'
  <2> HIDE DEF p
  <2>1. /\ connections \in Nat /\ client_ids_ \in Seq(Peers) /\ viewer_ids_ \in Seq(Peers)
        /\ Append(client_ids_, p) \in Seq(Peers) /\ Append(viewer_ids_, p) \in Seq(Peers)
    BY <1>0, <1>3, Appended DEF ObsTypeOK
  <2>2. /\ client_ids_' \in {client_ids_, Append(client_ids_, p)}
        /\ viewer_ids_' \in {viewer_ids_, Append(viewer_ids_, p)}
    BY DEF ReceiveMessage, p
  <2>3. connections' \in Nat
    BY <1>1, <2>1
  <2>4. client_ids_' \in Seq(Peers) /\ viewer_ids_' \in Seq(Peers)
    BY <2>1, <2>2
  <2>5. since' \in {since, [since EXCEPT ![p] = state_id]}
    BY DEF ReceiveMessage, p
  <2>6. since' \in [Peers -> Nat]
    BY <1>0, <2>5 DEF ObsTypeOK
  <2> QED
    BY <2>3, <2>4, <2>6 DEF ObsTypeOK
<1>9. current' \in [conn: Peers \union {Listener}, msg: UpMessage] /\ current'.conn = p
      /\ current'.msg \in U
  <2> HIDE DEF U, p
  <2> QED
    BY <1>1, <1>3, <1>4, <1>5
<1>10. \/ ipc' = "addPlayer"
       \/ ipc' = "confirmViewer" /\ viewer_ids_' = Append(viewer_ids_, p)
       \/ ipc' = "addTurn" /\ current'.msg.type = "TURN"
  BY <1>1 DEF ReceiveMessage
<1>11. viewer_ids_' = Append(viewer_ids_, p) => viewer_ids_' # <<>>
  <2> HIDE DEF p
  <2>1. viewer_ids_ \in Seq(Peers)
    BY <1>0 DEF ObsTypeOK
  <2> QED
    BY <1>3, <2>1, Appended
<1>12. IoTypeOK' /\ HandledKnown'
  <2>1. IoTypeOK'
    BY <1>0, <1>1, <1>9, <1>10 DEF IoTypeOK, IoPcs
  <2>2. HandledKnown'
    BY <1>2, <1>3, <1>9, <1>10, <1>11 DEF HandledKnown
  <2> QED
    BY <2>1, <2>2
<1>13. PlayersInv' /\ KnownInv'
  BY <1>0, <1>1, <1>2, <1>7, <1>12, FramePlayers, FrameGamers DEF KnownInv
<1> QED
  BY <1>1, <1>2, <1>6, <1>8, <1>12, <1>13, FrameTypes DEF IInv, TypeOK, PlayersInv, KnownInv

\* AddPlayer: the new player and its turn are the last of their vectors.
LEMMA AddPlayerIInv ==
  ASSUME IInv, AddPlayer
  PROVE  IInv'
<1> DEFINE n == Len(players)
           t == [NoTurn EXCEPT !.player_id = n]
<1>0. /\ IoTypeOK /\ StateTypeOK /\ HandledKnown /\ TurnsMatchPlayers /\ NoTurnForFutureState
      /\ n \in Nat /\ state_id \in Nat /\ next_id = n /\ Len(turns) = n
      /\ players \in Seq(Nat) /\ turns \in Seq(Turn)
  BY DEF IInv, TypeOK, StateTypeOK, TurnsMatchPlayers
<1>1. /\ UNCHANGED gameVars /\ UNCHANGED obsVars /\ UNCHANGED procVars
      /\ UNCHANGED netVars /\ UNCHANGED peerVars
      /\ UNCHANGED <<state_id, applied, events, current>>
      /\ ipc = "addPlayer" /\ ipc' = "accepted"
      /\ players' = Append(players, n) /\ next_id' = n + 1
      /\ turns' = [Append(turns, NoTurn) EXCEPT ![n + 1] = t]
  BY <1>0 DEF AddPlayer, TurnsWithNewPlayer, FollowingId
<1>2. t \in Turn /\ t.player_id = n /\ t.state_id = 0
  BY <1>0 DEF NoTurn, Turn, Accelerations
<1>3. turns' = Append(turns, t)
  <2>1. NoTurn \in Turn
    BY DEF NoTurn, Turn, Accelerations
  <2> HIDE DEF t
  <2> QED
    BY <1>0, <1>1, <1>2, <2>1, AppendedThenSet
<1>4. StateTypeOK' /\ Len(players') = n + 1 /\ players' # <<>>
  <2> HIDE DEF t
  <2>1. players' \in Seq(Nat) /\ Len(players') = n + 1 /\ players' # <<>>
    BY <1>0, <1>1, Appended
  <2>2. turns' \in Seq(Turn)
    BY <1>0, <1>2, <1>3, Appended
  <2> QED
    BY <1>0, <1>1, <2>1, <2>2 DEF StateTypeOK
<1>5. TurnsMatchPlayers'
  <2> HIDE DEF t
  <2>1. \A i \in 1..n : players[i] = i - 1 /\ turns[i].player_id = i - 1
    BY <1>0 DEF TurnsMatchPlayers
  <2>2. /\ \A i \in 1..n : players'[i] = players[i] /\ turns'[i] = turns[i]
        /\ players'[n + 1] = n /\ turns'[n + 1] = t
        /\ DOMAIN players' = 1..(n + 1) /\ Len(turns') = n + 1
    BY <1>0, <1>1, <1>2, <1>3
  <2>3. \A i \in 1..(n + 1) : players'[i] = i - 1 /\ turns'[i].player_id = i - 1
    <3> SUFFICES ASSUME NEW i \in 1..(n + 1)
                 PROVE  players'[i] = i - 1 /\ turns'[i].player_id = i - 1
      OBVIOUS
    <3>1. CASE i \in 1..n
      BY <2>1, <2>2, <3>1
    <3>2. CASE i = n + 1
      BY <1>0, <1>2, <2>2, <3>2
    <3> QED
      BY <1>0, <3>1, <3>2
  <2> QED
    BY <1>4, <2>2, <2>3 DEF TurnsMatchPlayers
<1>6. NoTurnForFutureState'
  <2> HIDE DEF t
  <2>1. /\ DOMAIN turns' = 1..(n + 1) /\ DOMAIN turns = 1..n
        /\ \A i \in 1..n : turns'[i] = turns[i]
        /\ turns'[n + 1] = t
    BY <1>0, <1>2, <1>3, Appended
  <2>2. ASSUME NEW i \in 1..(n + 1)
        PROVE  turns'[i].state_id <= state_id
    <3>1. CASE i \in 1..n
      BY <2>1, <1>0, <3>1 DEF NoTurnForFutureState
    <3>2. CASE i = n + 1
      BY <1>0, <1>2, <2>1, <3>2
    <3> QED
      BY <1>0, <3>1, <3>2
  <2> QED
    BY <1>1, <2>1, <2>2 DEF NoTurnForFutureState
<1>7. IoTypeOK' /\ HandledKnown'
  BY <1>0, <1>1, <1>4 DEF IoTypeOK, IoPcs, HandledKnown, Handling
<1>8. KnownInv'
  BY <1>0, <1>1, <1>4, <1>7, FramePipes, FrameGamers DEF KnownInv
<1>9. gpc' = gpc
  BY <1>1 DEF gameVars
<1> QED
  BY <1>0, <1>1, <1>4, <1>5, <1>6, <1>7, <1>8, <1>9, FrameTypes DEF IInv, TypeOK, KnownInv

\* The confirmation names the player that was just added.
LEMMA SendConfirmationIInv ==
  ASSUME IInv, SendConfirmation
  PROVE  IInv'
<1> DEFINE n == Len(players)
           D == KnownDown(n, state_id)
           m == IF ipc = "confirmViewer"
                THEN ViewerSubscribeResult(Len(viewer_ids_) - 1)
                ELSE ClientSubscribeResult(ipc = "accepted", NewPlayerId)
<1>0. /\ IoTypeOK /\ ObsTypeOK /\ HandledKnown /\ NetTypeOK /\ PipesKnown
      /\ n \in Nat /\ state_id \in Nat /\ next_id = n /\ players \in Seq(Nat)
      /\ viewer_ids_ \in Seq(Peers) /\ output \in [Peers -> Seq(D)]
  BY DEF IInv, TypeOK, StateTypeOK, ObsTypeOK, PipesKnown
<1>1. /\ UNCHANGED gameVars /\ UNCHANGED stateVars /\ UNCHANGED obsVars /\ UNCHANGED procVars
      /\ UNCHANGED peerVars /\ UNCHANGED <<events, current, conn, up, down>>
      /\ ipc \in {"refused", "accepted", "confirmViewer"} /\ ipc' = "reading"
      /\ SendMessage(m, current.conn)
  BY DEF SendConfirmation
<1>2. gpc' = gpc /\ state_id' = state_id /\ players' = players
  BY <1>1 DEF gameVars, stateVars
<1>3. m \in D
  <2>1. CASE ipc = "confirmViewer"
    <3>1. Len(viewer_ids_) - 1 \in Nat
      BY <1>0, <2>1 DEF HandledKnown
    <3> QED
      BY <2>1, <3>1 DEF ViewerSubscribeResult, KnownDown, DownMessage
  <2>2. CASE ipc = "accepted"
    <3>1. NewPlayerId \in Nat /\ NewPlayerId < n
      BY <1>0, <2>2 DEF HandledKnown, NewPlayerId
    <3> QED
      BY <2>2, <3>1 DEF ClientSubscribeResult, KnownDown, DownMessage
  <2>3. CASE ipc = "refused"
    BY <2>3 DEF ClientSubscribeResult, KnownDown, DownMessage
  <2> QED
    BY <1>1, <2>1, <2>2, <2>3
<1>4. output' \in [Peers -> Seq(D)]
  <2> HIDE DEF D, m
  <2> QED
    BY <1>0, <1>1, <1>3, SentIsQueued
<1>5. PipesKnown'
  BY <1>0, <1>1, <1>2, <1>4 DEF PipesKnown
<1>6. NetTypeOK'
  <2>1. D \subseteq DownMessage
    BY DEF KnownDown
  <2> HIDE DEF D
  <2> QED
    BY <1>0, <1>1, <1>4, <2>1, SeqMonotone DEF NetTypeOK
<1>7. IoTypeOK' /\ HandledKnown'
  BY <1>0, <1>1 DEF IoTypeOK, IoPcs, HandledKnown, Handling
<1>8. PlayersInv' /\ KnownInv'
  BY <1>0, <1>1, <1>2, <1>5, <1>7, FramePlayers, FrameGamers DEF KnownInv
<1> QED
  BY <1>1, <1>2, <1>6, <1>7, <1>8, FrameTypes DEF IInv, TypeOK, PlayersInv, KnownInv

\* AddTurn stores a turn of a known player for a state that was sent.
LEMMA AddTurnIInv ==
  ASSUME IInv, AddTurn
  PROVE  IInv'
<1> DEFINE n == Len(players)
           t == current.msg.turn
           k == TurnSlot
<1>0. /\ IoTypeOK /\ StateTypeOK /\ HandledKnown /\ TurnsMatchPlayers /\ NoTurnForFutureState
      /\ n \in Nat /\ state_id \in Nat /\ next_id = n /\ Len(turns) = n
      /\ players \in Seq(Nat) /\ turns \in Seq(Turn)
  BY DEF IInv, TypeOK, StateTypeOK, TurnsMatchPlayers
<1>1. /\ UNCHANGED gameVars /\ UNCHANGED obsVars /\ UNCHANGED procVars
      /\ UNCHANGED netVars /\ UNCHANGED peerVars
      /\ UNCHANGED <<state_id, players, applied, next_id, events, current>>
      /\ ipc = "addTurn" /\ ipc' = "reading"
      /\ k \in DOMAIN turns /\ turns' = [turns EXCEPT ![k] = t]
  BY DEF AddTurn
<1>2. t \in Turn /\ t.state_id <= state_id /\ k = t.player_id + 1
  BY <1>0, <1>1 DEF HandledKnown, KnownUp, UpMessage, TurnSlot
<1>3. turns' \in Seq(Turn) /\ Len(turns') = n /\ DOMAIN turns' = DOMAIN turns
  <2> HIDE DEF t, k
  <2> QED
    BY <1>0, <1>1, <1>2
<1>4. \A i \in DOMAIN turns : turns'[i] = IF i = k THEN t ELSE turns[i]
  BY <1>1
<1>5. StateTypeOK'
  BY <1>0, <1>1, <1>3 DEF StateTypeOK
<1>6. TurnsMatchPlayers'
  <2>1. DOMAIN turns = DOMAIN players
    BY <1>0
  <2>2. t.player_id = k - 1
    BY <1>2 DEF Turn
  <2> HIDE DEF t, k
  <2> QED
    BY <1>0, <1>1, <1>3, <1>4, <2>1, <2>2 DEF TurnsMatchPlayers
<1>7. NoTurnForFutureState'
  <2> HIDE DEF t, k
  <2> QED
    BY <1>0, <1>1, <1>2, <1>3, <1>4 DEF NoTurnForFutureState
<1>8. IoTypeOK' /\ HandledKnown'
  BY <1>0, <1>1 DEF IoTypeOK, IoPcs, HandledKnown, Handling
<1>9. KnownInv'
  BY <1>0, <1>1, <1>8, FramePipes, FrameGamers DEF KnownInv
<1>10. gpc' = gpc
  BY <1>1 DEF gameVars
<1> QED
  BY <1>0, <1>1, <1>5, <1>6, <1>7, <1>8, <1>9, <1>10, FrameTypes DEF IInv, TypeOK, KnownInv

\* Every step of the IO thread.
LEMMA IoThreadIInv ==
  ASSUME IInv, IoThread
  PROVE  IInv'
BY IoMovesIInv, IoFailsIInv, IoTransfersIInv, ReceiveMessageIInv, AddPlayerIInv,
   SendConfirmationIInv, AddTurnIInv
   DEF IoThread, IoMoves, IoFails, IoTransfers

-----------------------------------------------------------------------------
(* The peers *)

\* A step of a peer leaves the server's threads alone: only the pipes and the
\* peer's own variables have to be looked at.
PeerStep(p) == Join(p) \/ Confirmed(p) \/ TakeState(p) \/ TakeFinish(p) \/ Die(p)

\* What a step of a peer leaves alone.
LEMMA PeerFrame ==
  ASSUME IInv, NEW p \in Peers, PeerStep(p)
  PROVE  /\ UNCHANGED gameVars /\ UNCHANGED stateVars /\ UNCHANGED ioVars
         /\ UNCHANGED obsVars /\ UNCHANGED procVars /\ UNCHANGED output
         /\ gpc' = gpc /\ state_id' = state_id /\ players' = players
         /\ PlayersInv' /\ HandledKnown'
<1>1. /\ UNCHANGED gameVars /\ UNCHANGED stateVars /\ UNCHANGED ioVars
      /\ UNCHANGED obsVars /\ UNCHANGED procVars /\ UNCHANGED output
  BY DEF PeerStep, Join, Confirmed, TakeState, TakeFinish, Die
<1>2. gpc' = gpc /\ state_id' = state_id /\ players' = players
  BY <1>1 DEF gameVars, stateVars
<1>3. Len(players) \in Nat /\ state_id \in Nat
  BY DEF IInv, TypeOK, StateTypeOK
<1> QED
  BY <1>1, <1>2, <1>3, FramePlayers, FrameHandled

\* What remains: the pipes and the peers' variables after the step.
LEMMA PeerIInv ==
  ASSUME IInv, NEW p \in Peers, PeerStep(p),
         conn' \in [Peers -> ConnStates],
         up' \in [Peers -> Seq(KnownUp(Len(players), state_id))],
         down' \in [Peers -> Seq(KnownDown(Len(players), state_id))],
         PeerTypeOK', GamersKnown'
  PROVE  IInv'
<1> DEFINE U == KnownUp(Len(players), state_id)
           D == KnownDown(Len(players), state_id)
<1>1. output \in [Peers -> Seq(D)] /\ output' = output
  BY PeerFrame DEF IInv, PipesKnown
<1>2. NetTypeOK'
  <2>1. U \subseteq UpMessage /\ D \subseteq DownMessage
    BY DEF KnownUp, KnownDown
  <2>2. up' \in [Peers -> Seq(U)] /\ down' \in [Peers -> Seq(D)] /\ output' \in [Peers -> Seq(D)]
    BY <1>1
  <2> HIDE DEF U, D
  <2> QED
    BY <2>1, <2>2, SeqMonotone DEF NetTypeOK
<1>3. PipesKnown'
  BY <1>1, PeerFrame DEF PipesKnown
<1> QED
  BY <1>2, <1>3, PeerFrame, FrameTypes DEF IInv, TypeOK, PlayersInv

\* A peer puts into its pipe only what it learned from the server.
LEMMA PeersIInv ==
  ASSUME IInv, NEW p \in Peers, PeerStep(p)
  PROVE  IInv'
<1> DEFINE n == Len(players)
           U == KnownUp(n, state_id)
           D == KnownDown(n, state_id)
<1>0. /\ up \in [Peers -> Seq(U)] /\ down \in [Peers -> Seq(D)]
      /\ conn \in [Peers -> ConnStates] /\ PeerTypeOK /\ GamersKnown
      /\ n \in Nat /\ state_id \in Nat /\ players' = players
      /\ Clients \subseteq Peers
  BY PeerFrame DEF IInv, PipesKnown, TypeOK, NetTypeOK, StateTypeOK, Peers
<1>1. CASE Join(p)
  <2>1. PICK m \in {ClientSubscribeRequest, ViewerSubscribeRequest} :
          up' = [up EXCEPT ![p] = <<m>>]
    BY <1>1 DEF Join
  <2>2. m \in U
    BY <1>0 DEF ClientSubscribeRequest, ViewerSubscribeRequest, NoTurn, KnownUp, UpMessage, Turn,
                Accelerations
  <2>3. up' \in [Peers -> Seq(U)] /\ down' = down
    <3> HIDE DEF U
    <3>1. <<m>> \in Seq(U)
      BY <2>2
    <3> QED
      BY <1>0, <1>1, <2>1, <3>1 DEF Join
  <2>4. conn' \in [Peers -> ConnStates]
    BY <1>0, <1>1 DEF Join, ConnStates
  <2>5. PeerTypeOK' /\ GamersKnown'
    BY <1>0, <1>1 DEF Join, PeerTypeOK, PeerStates, GamersKnown
  <2> QED
    BY <1>0, <2>3, <2>4, <2>5, PeerIInv
<1>2. CASE Confirmed(p)
  <2> DEFINE m == Head(down[p])
  <2>1. down' \in [Peers -> Seq(D)] /\ m \in D
    <3> HIDE DEF D
    <3> QED
      BY <1>0, <1>2, TakenFromPipe DEF Confirmed
  <2>2. m.id \in Nat /\ (m.type = "CLI_SUB_RESULT" /\ m.result => m.id < n)
    BY <2>1 DEF KnownDown, DownMessage
  <2>3. PeerTypeOK' /\ GamersKnown'
    <3> HIDE DEF m
    <3>1. /\ seen' = seen
          /\ \/ /\ player_id_' = [player_id_ EXCEPT ![p] = m.id]
                /\ peer' = [peer EXCEPT ![p] = "playing"]
                /\ m.type = "CLI_SUB_RESULT" /\ m.result
             \/ /\ player_id_' = player_id_
                /\ \/ p \notin Clients /\ peer' = [peer EXCEPT ![p] = "playing"]
                   \/ peer' = [peer EXCEPT ![p] = "gone"]
                   \/ peer' = [peer EXCEPT ![p] = "finished"]
      BY <1>2, ConstantsAssumption DEF Confirmed, m
    <3>2. PeerTypeOK'
      BY <1>0, <2>2, <3>1 DEF PeerTypeOK, PeerStates
    <3>3. GamersKnown'
      BY <1>0, <2>2, <3>1 DEF GamersKnown, PeerTypeOK
    <3> QED
      BY <3>2, <3>3
  <2>4. conn' = conn /\ up' = up
    BY <1>2 DEF Confirmed
  <2> QED
    BY <1>0, <2>1, <2>3, <2>4, PeerIInv
<1>3. CASE TakeState(p)
  <2> DEFINE m == Head(down[p])
  <2>1. down' \in [Peers -> Seq(D)] /\ m \in D /\ m.type = "STATE"
    <3> HIDE DEF D
    <3> QED
      BY <1>0, <1>3, TakenFromPipe DEF TakeState
  <2>2. m.id \in Nat /\ m.id <= state_id
    BY <2>1 DEF KnownDown, DownMessage
  <2>3. /\ conn' = conn /\ peer' = peer /\ player_id_' = player_id_
        /\ seen' = [seen EXCEPT ![p] = m.id] /\ peer[p] = "playing"
        /\ up' = [up EXCEPT ![p] = IF p \in Clients
                                   THEN @ \o <<TurnMessage(player_id_[p], m.id)>> ELSE @]
    BY <1>3 DEF TakeState, Answer
  <2>4. PeerTypeOK' /\ GamersKnown'
    BY <1>0, <2>2, <2>3 DEF PeerTypeOK, GamersKnown
  <2>5. up' \in [Peers -> Seq(U)]
    <3>1. CASE p \in Clients
      <4>1. TurnMessage(player_id_[p], m.id) \in U
        <5> HIDE DEF m
        <5>1. player_id_[p] \in Nat /\ player_id_[p] < n
          BY <1>0, <2>3, <3>1 DEF GamersKnown, PeerTypeOK
        <5> QED
          BY <2>2, <5>1 DEF TurnMessage, KnownUp, UpMessage, Turn, Accelerations
      <4>2. up[p] \o <<TurnMessage(player_id_[p], m.id)>> \in Seq(U)
        <5> HIDE DEF U, m
        <5> QED
          BY <1>0, <4>1, ConcatProperties
      <4> QED
        BY <1>0, <2>3, <3>1, <4>2
    <3>2. CASE p \notin Clients
      BY <1>0, <2>3, <3>2
    <3> QED
      BY <3>1, <3>2
  <2> QED
    BY <1>0, <2>1, <2>3, <2>4, <2>5, PeerIInv
<1>4. CASE TakeFinish(p) \/ Die(p)
  <2>1. /\ conn' = conn /\ up' = up /\ player_id_' = player_id_ /\ seen' = seen
        /\ peer' \in {[peer EXCEPT ![p] = "gone"], [peer EXCEPT ![p] = "finished"]}
        /\ \/ down' = [down EXCEPT ![p] = <<>>]
           \/ down[p] # <<>> /\ down' = [down EXCEPT ![p] = Tail(@)]
    BY <1>4 DEF TakeFinish, Die
  <2>2. down' \in [Peers -> Seq(D)]
    <3> HIDE DEF D
    <3>1. [down EXCEPT ![p] = <<>>] \in [Peers -> Seq(D)]
      BY <1>0, EmptiedPipe
    <3>2. down[p] # <<>> => [down EXCEPT ![p] = Tail(@)] \in [Peers -> Seq(D)]
      BY <1>0, TakenFromPipe
    <3> QED
      BY <2>1, <3>1, <3>2
  <2>3. PeerTypeOK' /\ GamersKnown'
    BY <1>0, <2>1 DEF PeerTypeOK, PeerStates, GamersKnown
  <2> QED
    BY <1>0, <2>1, <2>2, <2>3, PeerIInv
<1> QED
  BY <1>1, <1>2, <1>3, <1>4 DEF PeerStep

-----------------------------------------------------------------------------
(* The invariant *)

\* A stuttering step.
LEMMA StutterIInv ==
  ASSUME IInv, UNCHANGED vars
  PROVE  IInv'
<1>1. /\ UNCHANGED <<stateVars, ioVars, obsVars, netVars, peerVars>>
      /\ UNCHANGED gameVars /\ UNCHANGED procVars /\ gpc' = gpc /\ state_id' = state_id
  BY DEF vars, gameVars, stateVars
<1> QED
  BY <1>1, FrameAll, FrameTypes DEF IInv, TypeOK, PlayersInv, KnownInv

\* Every step of the server and its peers.
LEMMA NextIInv == IInv /\ [Next]_vars => IInv'
<1> SUFFICES ASSUME IInv, [Next]_vars PROVE IInv'
  OBVIOUS
<1>1. CASE GameThread
  BY <1>1, GameThreadIInv
<1>2. CASE IoThread
  BY <1>2, IoThreadIInv
<1>3. ASSUME NEW p \in Peers, Join(p) \/ Reads(p) \/ Die(p)
      PROVE  IInv'
  BY <1>3, PeersIInv DEF PeerStep, Reads
<1>4. CASE UNCHANGED vars
  BY <1>4, StutterIInv
<1> QED
  BY <1>1, <1>2, <1>3, <1>4 DEF Next

\* The strengthened invariant holds in every reachable state.
THEOREM Invariance == Spec => []IInv
BY InitIInv, NextIInv, PTL DEF Spec

\* Every variable of the server and of its peers keeps its type.
THEOREM TypeCorrect == Spec => []TypeOK
<1>1. IInv => TypeOK
  BY DEF IInv
<1> QED
  BY <1>1, Invariance, PTL

\* turns_ and state_.players stay parallel, so Emulate's assertion holds.
THEOREM TurnsMatch == Spec => []TurnsMatchPlayers
<1>1. IInv => TurnsMatchPlayers
  BY DEF IInv
<1> QED
  BY <1>1, Invariance, PTL

\* AddTurn's turns_.at never throws, for any number of Gamers and whatever the order
\* in which their messages and subscriptions are handled.
THEOREM AddTurnNeverThrows == Spec => []AddTurnInRange
<1>1. IInv => AddTurnInRange
  <2> SUFFICES ASSUME IInv, ipc = "addTurn"
               PROVE  TurnSlot \in DOMAIN turns
    BY DEF AddTurnInRange
  <2>1. /\ current.msg.turn.player_id \in Nat
        /\ current.msg.turn.player_id < Len(players)
    BY DEF IInv, HandledKnown, KnownUp, UpMessage, Turn
  <2>2. turns \in Seq(Turn) /\ Len(turns) = Len(players)
    BY DEF IInv, TypeOK, StateTypeOK, TurnsMatchPlayers
  <2> QED
    BY <2>1, <2>2 DEF TurnSlot
<1> QED
  BY <1>1, Invariance, PTL

\* A turn is never stored before its state was sent.
THEOREM TurnsNotEarly == Spec => []NoTurnForFutureState
<1>1. IInv => NoTurnForFutureState
  BY DEF IInv
<1> QED
  BY <1>1, Invariance, PTL

-----------------------------------------------------------------------------
(***************************************************************************)
(* The turns of the Gamers                                                 *)
(*                                                                         *)
(* Proofs about the turns of GameServer's Gamers: a stored turn is         *)
(* replaced only by a message of the Gamer the player belongs to, and only *)
(* by a turn for the same or a later state.                                *)
(*                                                                         *)
(* The argument follows each peer around its loop. The states on their way *)
(* to it are in order and not before the last one it took; so the turns on *)
(* their way back are in order, between the stored one and the last state  *)
(* taken. That the stored turn is the peer's own needs that no id is given *)
(* to two peers, however a confirmation is delayed or lost.                *)
(***************************************************************************)

\* The messages that carry a state id, and the id.
Stamped(m) == m.type \in {"STATE", "TURN"}
Stamp(m) == IF m.type = "STATE" THEN m.id ELSE m.turn.state_id

\* The states or turns of s are in order, between lo and hi.
Ordered(s, lo, hi) ==
  \A i \in DOMAIN s : Stamped(s[i]) =>
    /\ lo <= Stamp(s[i]) /\ Stamp(s[i]) <= hi
    /\ \A j \in DOMAIN s : i < j /\ Stamped(s[j]) => Stamp(s[i]) <= Stamp(s[j])

\* What peer p has sent and AddTurn has not stored: the turn in the IO thread's
\* hands, then the pipe.
Sent(p) ==
  IF ipc = "addTurn" /\ current.conn = p THEN << current.msg >> \o up[p] ELSE up[p]

\* What peer p is to get: the pipe, then the queue.
Given(p) == down[p] \o output[p]

\* A turn, and a confirmation that gives out an id.
IsTurn(m) == m.type = "TURN"
IsGrant(m) == m.type = "CLI_SUB_RESULT" /\ m.result

\* The ids on their way to p, the one in the IO thread's hands included, and the
\* id p uses or has used.
Confirming(p) == {d \in {NewPlayerId} : ipc = "accepted" /\ current.conn = p}
GrantsIn(s) == {s[i].id : i \in {k \in DOMAIN s : IsGrant(s[k])}}
Granted(p) == GrantsIn(Given(p)) \union Confirming(p)
Active(p) ==
  p \in Clients /\ (peer[p] = "playing" \/ \E i \in DOMAIN Sent(p) : IsTurn(Sent(p)[i]))
Ids(p) == Granted(p) \union {d \in {player_id_[p]} : Active(p)}

\* A peer that has no confirmation yet.
Waiting == {"new", "joining"}

\* The states on their way to p follow the last one it took.
StatesInOrder(p) == seen[p] <= state_id /\ Ordered(Given(p), seen[p], state_id)
\* The turns on their way from p name p's player.
TurnsAreOwn(p) ==
  \A i \in DOMAIN Sent(p) : IsTurn(Sent(p)[i]) =>
    peer[p] \notin Waiting /\ p \in Clients /\ Sent(p)[i].turn.player_id = player_id_[p]
\* They lie between the stored turn and the last state p took.
TurnsInOrder(p) ==
  Active(p) =>
    LET stored == turns[player_id_[p] + 1].state_id IN
    stored <= seen[p] /\ Ordered(Sent(p), stored, seen[p])
\* A player whose Gamer waits for its id has no turn.
NoTurnYet(p) ==
  peer[p] \in Waiting => \A d \in Granted(p) : turns[d + 1].state_id = 0

\* The strengthened invariant: each peer is in order, and no two share an id.
PeerOK(p) == StatesInOrder(p) /\ TurnsAreOwn(p) /\ TurnsInOrder(p) /\ NoTurnYet(p)
IdsApart == \A p, q \in Peers : p # q => Ids(p) \intersect Ids(q) = {}

TInv == IInv /\ (\A p \in Peers : PeerOK(p)) /\ IdsApart

-----------------------------------------------------------------------------
(* Sequences of messages *)

Messages == UpMessage \union DownMessage

\* a is a part of b: b without some of its first and some of its last elements.
Part(a, b) ==
  \E k \in Nat : \A i \in DOMAIN a : i + k \in DOMAIN b /\ a[i] = b[i + k]

\* A state id is a number.
LEMMA StampNat ==
  ASSUME NEW m \in Messages, Stamped(m)
  PROVE  Stamp(m) \in Nat
BY DEF Messages, UpMessage, DownMessage, Turn, Stamped, Stamp

\* All of a sequence is a part of it.
LEMMA PartRefl ==
  ASSUME NEW S, NEW s \in Seq(S)
  PROVE  Part(s, s)
<1>1. 0 \in Nat /\ \A i \in DOMAIN s : i + 0 = i
  OBVIOUS
<1> QED
  BY <1>1 DEF Part

\* The empty sequence is a part of every other.
LEMMA PartNothing ==
  ASSUME NEW s
  PROVE  Part(<<>>, s)
BY DEF Part

\* What is left when the first element is taken.
LEMMA PartTail ==
  ASSUME NEW S, NEW s \in Seq(S), s # <<>>
  PROVE  Part(Tail(s), s)
<1>1. Tail(s) \in Seq(S) /\ Len(Tail(s)) = Len(s) - 1 /\ Len(s) \in Nat /\ Len(s) >= 1
      /\ \A i \in 1..Len(Tail(s)) : Tail(s)[i] = s[i + 1]
  BY HeadTailProperties, EmptySeq
<1>2. \A i \in DOMAIN Tail(s) : i + 1 \in DOMAIN s /\ Tail(s)[i] = s[i + 1]
  BY <1>1
<1> QED
  BY <1>2 DEF Part

\* What is left when the first or the last part of a concatenation is lost.
LEMMA PartConcat ==
  ASSUME NEW S, NEW a \in Seq(S), NEW b \in Seq(S)
  PROVE  Part(a, a \o b) /\ Part(b, a \o b)
<1>1. /\ Len(a \o b) = Len(a) + Len(b) /\ a \o b \in Seq(S)
      /\ Len(a) \in Nat /\ Len(b) \in Nat
      /\ \A i \in 1..(Len(a) + Len(b)) :
           (a \o b)[i] = IF i <= Len(a) THEN a[i] ELSE b[i - Len(a)]
  BY ConcatProperties
<1> DEFINE c == a \o b
<1> HIDE DEF c
<1>0. /\ c = a \o b /\ Len(c) = Len(a) + Len(b) /\ c \in Seq(S)
      /\ \A i \in 1..(Len(a) + Len(b)) : c[i] = IF i <= Len(a) THEN a[i] ELSE b[i - Len(a)]
  BY <1>1 DEF c
<1>2. \A i \in DOMAIN a : i + 0 \in DOMAIN c /\ a[i] = c[i + 0]
  BY <1>0, <1>1
<1>3. \A i \in DOMAIN b : i + Len(a) \in DOMAIN c /\ b[i] = c[i + Len(a)]
  BY <1>0, <1>1
<1>4. Part(a, c)
  BY <1>2 DEF Part
<1>5. Part(b, c)
  BY <1>1, <1>3 DEF Part
<1> QED
  BY <1>0, <1>4, <1>5

\* A part of a part.
LEMMA PartTrans ==
  ASSUME NEW a, NEW b, NEW c, NEW S, a \in Seq(S), Part(a, b), Part(b, c)
  PROVE  Part(a, c)
<1>1. PICK k \in Nat : \A i \in DOMAIN a : i + k \in DOMAIN b /\ a[i] = b[i + k]
  BY DEF Part
<1>2. PICK l \in Nat : \A i \in DOMAIN b : i + l \in DOMAIN c /\ b[i] = c[i + l]
  BY DEF Part
<1>3. k + l \in Nat /\ \A i \in DOMAIN a : i + (k + l) \in DOMAIN c /\ a[i] = c[i + (k + l)]
  <2> SUFFICES ASSUME NEW i \in DOMAIN a
               PROVE  i + (k + l) \in DOMAIN c /\ a[i] = c[i + (k + l)]
    OBVIOUS
  <2>1. (i + k) + l = i + (k + l)
    OBVIOUS
  <2> QED
    BY <1>1, <1>2, <2>1
<1> QED
  BY <1>3 DEF Part

\* What is in a part is in the whole.
LEMMA PartElement ==
  ASSUME NEW a, NEW b, Part(a, b), NEW i \in DOMAIN a
  PROVE  \E j \in DOMAIN b : b[j] = a[i]
BY DEF Part

\* A part is in order too, and the bounds may be wider.
LEMMA OrderedPart ==
  ASSUME NEW a \in Seq(Messages), NEW b \in Seq(Messages), Part(a, b),
         NEW lo \in Nat, NEW hi \in Nat, NEW lo2 \in Nat, NEW hi2 \in Nat,
         lo2 <= lo, hi <= hi2, Ordered(b, lo, hi)
  PROVE  Ordered(a, lo2, hi2)
<1>1. PICK k \in Nat : \A i \in DOMAIN a : i + k \in DOMAIN b /\ a[i] = b[i + k]
  BY DEF Part
<1> SUFFICES ASSUME NEW i \in DOMAIN a, Stamped(a[i])
             PROVE  /\ lo2 <= Stamp(a[i]) /\ Stamp(a[i]) <= hi2
                    /\ \A j \in DOMAIN a : i < j /\ Stamped(a[j]) => Stamp(a[i]) <= Stamp(a[j])
  BY DEF Ordered
<1>2. a[i] \in Messages
  OBVIOUS
<1>3. Stamp(a[i]) \in Nat
  BY <1>2, StampNat
<1>4. lo <= Stamp(a[i]) /\ Stamp(a[i]) <= hi
  BY <1>1 DEF Ordered
<1>5. ASSUME NEW j \in DOMAIN a, i < j, Stamped(a[j])
      PROVE  Stamp(a[i]) <= Stamp(a[j])
  <2>1. i + k < j + k
    BY <1>5
  <2> QED
    BY <1>1, <1>5, <2>1 DEF Ordered
<1> QED
  BY <1>3, <1>4, <1>5

\* When the first one is taken, the others are not before it.
LEMMA OrderedTail ==
  ASSUME NEW s \in Seq(Messages), s # <<>>, NEW lo \in Nat, NEW hi \in Nat,
         Ordered(s, lo, hi), Stamped(Head(s))
  PROVE  /\ Ordered(Tail(s), Stamp(Head(s)), hi)
         /\ Stamp(Head(s)) \in Nat /\ lo <= Stamp(Head(s)) /\ Stamp(Head(s)) <= hi
<1> DEFINE t == Tail(s)
           h == Head(s)
<1>1. t \in Seq(Messages) /\ Len(t) = Len(s) - 1 /\ Len(s) \in Nat /\ Len(s) >= 1
      /\ h = s[1] /\ \A i \in 1..Len(t) : t[i] = s[i + 1]
  BY HeadTailProperties, EmptySeq
<1> HIDE DEF t, h
<1>2. 1 \in DOMAIN s /\ \A i \in DOMAIN t : i + 1 \in DOMAIN s /\ t[i] = s[i + 1] /\ 1 < i + 1
  BY <1>1
<1>3. h \in Messages /\ Stamped(h)
  BY <1>1, <1>2 DEF h
<1>4. Stamp(h) \in Nat /\ lo <= Stamp(h) /\ Stamp(h) <= hi
  BY <1>1, <1>2, <1>3, StampNat DEF Ordered
<1>5. ASSUME NEW i \in DOMAIN t, Stamped(t[i])
      PROVE  /\ Stamp(h) <= Stamp(t[i]) /\ Stamp(t[i]) <= hi
             /\ \A j \in DOMAIN t : i < j /\ Stamped(t[j]) => Stamp(t[i]) <= Stamp(t[j])
  <2>1. Stamp(h) <= Stamp(t[i]) /\ Stamp(t[i]) <= hi
    BY <1>1, <1>2, <1>3, <1>5 DEF Ordered
  <2>2. ASSUME NEW j \in DOMAIN t, i < j, Stamped(t[j])
        PROVE  Stamp(t[i]) <= Stamp(t[j])
    <3>1. i + 1 < j + 1
      BY <1>1, <2>2
    <3> QED
      BY <1>2, <1>5, <2>2, <3>1 DEF Ordered
  <2> QED
    BY <2>1, <2>2
<1> QED
  BY <1>4, <1>5 DEF Ordered, t, h

\* A message for the last state there is may be added at the end.
LEMMA OrderedAppend ==
  ASSUME NEW s \in Seq(Messages), NEW m \in Messages, NEW lo \in Nat, NEW hi \in Nat,
         lo <= hi, Ordered(s, lo, hi), Stamped(m) => Stamp(m) = hi
  PROVE  Ordered(Append(s, m), lo, hi)
<1> DEFINE a == Append(s, m)
<1>1. /\ DOMAIN a = 1..(Len(s) + 1) /\ DOMAIN s = 1..Len(s) /\ Len(s) \in Nat
      /\ \A i \in 1..Len(s) : a[i] = s[i]
      /\ a[Len(s) + 1] = m
  BY Appended
<1> HIDE DEF a
<1>2. ASSUME NEW i \in DOMAIN a, Stamped(a[i])
      PROVE  /\ lo <= Stamp(a[i]) /\ Stamp(a[i]) <= hi
             /\ \A j \in DOMAIN a : i < j /\ Stamped(a[j]) => Stamp(a[i]) <= Stamp(a[j])
  <2>1. CASE i \in 1..Len(s)
    <3>1. /\ lo <= Stamp(s[i]) /\ Stamp(s[i]) <= hi /\ a[i] = s[i] /\ Stamped(s[i])
          /\ \A j \in DOMAIN s : i < j /\ Stamped(s[j]) => Stamp(s[i]) <= Stamp(s[j])
      BY <1>1, <1>2, <2>1 DEF Ordered
    <3>2. ASSUME NEW j \in DOMAIN a, i < j, Stamped(a[j])
          PROVE  Stamp(a[i]) <= Stamp(a[j])
      <4>1. CASE j \in 1..Len(s)
        BY <1>1, <3>1, <3>2, <4>1
      <4>2. CASE j = Len(s) + 1
        BY <1>1, <3>1, <3>2, <4>2
      <4> QED
        BY <1>1, <4>1, <4>2
    <3> QED
      BY <3>1, <3>2
  <2>2. CASE i = Len(s) + 1
    <3>1. a[i] = m /\ \A j \in DOMAIN a : ~(i < j)
      BY <1>1, <2>2
    <3> QED
      BY <1>2, <3>1
  <2> QED
    BY <1>1, <2>1, <2>2
<1> QED
  BY <1>2 DEF Ordered, a

-----------------------------------------------------------------------------
(* What IInv says of the messages between a peer and the server. *)

\* The pipes between peer p and the server, with the types the lemmas need.
MessagesOK(p) ==
  /\ Sent(p) \in Seq(KnownUp(Len(players), state_id))
  /\ Given(p) \in Seq(KnownDown(Len(players), state_id))
  /\ Sent(p) \in Seq(Messages) /\ Given(p) \in Seq(Messages)
  /\ down[p] \in Seq(Messages) /\ output[p] \in Seq(Messages) /\ up[p] \in Seq(Messages)
  /\ seen[p] \in Nat /\ state_id \in Nat /\ player_id_[p] \in Nat
  /\ turns \in Seq(Turn) /\ Len(turns) = Len(players) /\ Len(players) \in Nat

AllMessagesOK == \A p \in Peers : MessagesOK(p)

\* The pipes are sequences of messages, and the ids in them are of known players.
LEMMA PipesAreMessages == IInv => AllMessagesOK
<1> SUFFICES ASSUME IInv, NEW p \in Peers
             PROVE  MessagesOK(p)
  BY DEF AllMessagesOK
<1> DEFINE U == KnownUp(Len(players), state_id)
           D == KnownDown(Len(players), state_id)
<1>0. /\ up[p] \in Seq(U) /\ down[p] \in Seq(D) /\ output[p] \in Seq(D)
      /\ seen[p] \in Nat /\ state_id \in Nat
      /\ U \subseteq Messages /\ D \subseteq Messages
      /\ next_id = Len(players) /\ players \in Seq(Nat) /\ HandledKnown
      /\ player_id_[p] \in Nat /\ turns \in Seq(Turn) /\ Len(turns) = Len(players)
  BY DEF IInv, PipesKnown, TypeOK, PeerTypeOK, StateTypeOK, TurnsMatchPlayers,
         Messages, KnownUp, KnownDown
<1>1. ipc = "addTurn" => current.msg \in U
  BY <1>0 DEF HandledKnown
<1> HIDE DEF U, D
<1>4. Given(p) \in Seq(D)
  BY <1>0, ConcatProperties DEF Given
<1>5. Sent(p) \in Seq(U)
  <2>1. CASE ipc = "addTurn" /\ current.conn = p
    <3>1. <<current.msg>> \in Seq(U)
      BY <1>1, <2>1
    <3> QED
      BY <1>0, <2>1, <3>1, ConcatProperties DEF Sent
  <2>2. CASE ~(ipc = "addTurn" /\ current.conn = p)
    BY <1>0, <2>2 DEF Sent
  <2> QED
    BY <2>1, <2>2
<1>6. \A s : (s \in Seq(U) => s \in Seq(Messages)) /\ (s \in Seq(D) => s \in Seq(Messages))
  BY <1>0
<1> QED
  BY <1>0, <1>4, <1>5, <1>6 DEF U, D, MessagesOK

\* The same in the state after a step.
LEMMA PipesAreMessagesNext ==
  ASSUME IInv', NEW p \in Peers
  PROVE  MessagesOK(p)'
<1>1. (IInv => AllMessagesOK)'
  BY PipesAreMessages, PTL
<1> QED
  BY <1>1 DEF AllMessagesOK

\* The stored turns carry numbers.
LEMMA TurnStates ==
  ASSUME turns \in Seq(Turn), Len(turns) = Len(players), Len(players) \in Nat,
         NEW d \in Nat, d < Len(players)
  PROVE  turns[d + 1].state_id \in Nat
<1>1. turns[d + 1] \in Turn
  OBVIOUS
<1> QED
  BY <1>1 DEF Turn

\* An id that a peer has or will get is one of a player, who has a turn.
LEMMA IdsKnown ==
  ASSUME IInv, NEW p \in Peers, TurnsAreOwn(p), NEW d \in Ids(p)
  PROVE  d \in Nat /\ d < Len(players) /\ turns[d + 1].state_id \in Nat
<1>0. MessagesOK(p) /\ GamersKnown
  BY PipesAreMessages DEF AllMessagesOK, IInv
<1>3. CASE d \in Confirming(p)
  <2>1. d = next_id - 1 /\ next_id = Len(players) /\ players # <<>> /\ players \in Seq(Nat)
    BY <1>3 DEF Confirming, NewPlayerId, IInv, HandledKnown, TypeOK, StateTypeOK
  <2>2. Len(players) # 0
    BY <2>1, EmptySeq
  <2>3. d \in Nat /\ d < Len(players)
    BY <1>0, <2>1, <2>2 DEF MessagesOK
  <2> QED
    BY <1>0, <2>3, TurnStates DEF MessagesOK
<1>1. CASE d \in GrantsIn(Given(p))
  <2>1. PICK i \in DOMAIN Given(p) : IsGrant(Given(p)[i]) /\ d = Given(p)[i].id
    BY <1>1 DEF GrantsIn
  <2>2. Given(p)[i] \in KnownDown(Len(players), state_id)
    BY <1>0 DEF MessagesOK
  <2> QED
    BY <1>0, <2>1, <2>2, TurnStates DEF KnownDown, DownMessage, IsGrant, MessagesOK
<1>2. CASE d = player_id_[p] /\ Active(p)
  <2>1. CASE peer[p] = "playing"
    BY <1>0, <1>2, <2>1, TurnStates DEF Active, GamersKnown, MessagesOK
  <2>2. CASE \E i \in DOMAIN Sent(p) : IsTurn(Sent(p)[i])
    <3>1. PICK i \in DOMAIN Sent(p) : IsTurn(Sent(p)[i])
      BY <2>2
    <3>2. Sent(p)[i] \in KnownUp(Len(players), state_id) /\ Sent(p)[i].turn.player_id = d
      BY <1>0, <1>2, <3>1 DEF MessagesOK, TurnsAreOwn
    <3> QED
      BY <1>0, <3>1, <3>2, TurnStates DEF KnownUp, IsTurn, MessagesOK, UpMessage, Turn
  <2> QED
    BY <1>2, <2>1, <2>2 DEF Active
<1> QED
  BY <1>1, <1>2, <1>3 DEF Ids, Granted

-----------------------------------------------------------------------------
(* A step that gives a peer nothing new and leaves its turn alone. *)

\* What such a step does to peer p.
Quiet(p) ==
  /\ player_id_'[p] = player_id_[p] /\ seen'[p] = seen[p] /\ state_id <= state_id'
  /\ p \in Clients /\ peer'[p] = "playing" => peer[p] = "playing"
  /\ peer'[p] \in Waiting => peer[p] \in Waiting
  /\ Part(Sent(p)', Sent(p))
  /\ Granted(p)' \subseteq Granted(p)
  /\ StatesInOrder(p)'
  /\ \A d \in Ids(p) : turns'[d + 1].state_id = turns[d + 1].state_id

\* p gets no id, and keeps one only if it had it.
LEMMA QuietIds ==
  ASSUME NEW p \in Peers, Quiet(p)
  PROVE  /\ Active(p)' => Active(p)
         /\ Ids(p)' \subseteq Ids(p)
<1>2. Active(p)' => Active(p)
  <2>1. ASSUME NEW i \in DOMAIN Sent(p)', IsTurn(Sent(p)'[i])
        PROVE  \E j \in DOMAIN Sent(p) : IsTurn(Sent(p)[j])
    <3>1. PICK j \in DOMAIN Sent(p) : Sent(p)[j] = Sent(p)'[i]
      BY PartElement DEF Quiet
    <3> QED
      BY <2>1, <3>1
  <2> QED
    BY <2>1 DEF Active, Quiet, IsTurn
<1> QED
  BY <1>2 DEF Ids, Quiet

\* p stays in order.
LEMMA QuietKeeps ==
  ASSUME IInv, IInv', NEW p \in Peers, PeerOK(p), Quiet(p)
  PROVE  PeerOK(p)'
<1>0. MessagesOK(p) /\ MessagesOK(p)'
  BY PipesAreMessages, PipesAreMessagesNext DEF AllMessagesOK
<1>1. StatesInOrder(p)'
  BY DEF Quiet
<1>2. TurnsAreOwn(p)'
  <2> SUFFICES ASSUME NEW i \in DOMAIN Sent(p)', IsTurn(Sent(p)'[i])
               PROVE  /\ peer'[p] \notin Waiting /\ p \in Clients
                      /\ Sent(p)'[i].turn.player_id = player_id_'[p]
    BY DEF TurnsAreOwn, IsTurn, Waiting
  <2>1. PICK j \in DOMAIN Sent(p) : Sent(p)[j] = Sent(p)'[i]
    BY PartElement DEF Quiet
  <2> QED
    BY <2>1 DEF Quiet, PeerOK, TurnsAreOwn
<1>3. TurnsInOrder(p)'
  <2> SUFFICES ASSUME Active(p)'
               PROVE  /\ turns'[player_id_'[p] + 1].state_id <= seen'[p]
                      /\ Ordered(Sent(p)', turns'[player_id_'[p] + 1].state_id, seen'[p])
    BY DEF TurnsInOrder, Ordered, Stamped, Stamp
  <2>1. Active(p) /\ player_id_[p] \in Ids(p)
    BY QuietIds DEF Ids
  <2>2. /\ turns[player_id_[p] + 1].state_id \in Nat
        /\ turns'[player_id_'[p] + 1].state_id = turns[player_id_[p] + 1].state_id
    BY <2>1, IdsKnown DEF Quiet, PeerOK
  <2>3. /\ turns[player_id_[p] + 1].state_id <= seen[p]
        /\ Ordered(Sent(p), turns[player_id_[p] + 1].state_id, seen[p])
    BY <2>1 DEF PeerOK, TurnsInOrder
  <2>4. Ordered(Sent(p)', turns[player_id_[p] + 1].state_id, seen[p])
    <3> DEFINE lo == turns[player_id_[p] + 1].state_id
    <3>1. /\ Sent(p)' \in Seq(Messages) /\ Sent(p) \in Seq(Messages)
          /\ Part(Sent(p)', Sent(p)) /\ seen[p] \in Nat
      BY <1>0 DEF Quiet, MessagesOK
    <3>2. lo \in Nat /\ Ordered(Sent(p), lo, seen[p])
      BY <2>2, <2>3
    <3> HIDE DEF lo
    <3>3. lo <= lo /\ seen[p] <= seen[p]
      BY <3>1, <3>2
    <3>4. Ordered(Sent(p)', lo, seen[p])
      BY <3>1, <3>2, <3>3, OrderedPart
    <3> QED
      BY <3>4 DEF lo
  <2> QED
    BY <2>2, <2>3, <2>4 DEF Quiet
<1>4. NoTurnYet(p)'
  <2> SUFFICES ASSUME peer'[p] \in Waiting, NEW d \in Granted(p)'
               PROVE  turns'[d + 1].state_id = 0
    BY DEF NoTurnYet, Waiting
  <2>1. d \in Granted(p) /\ d \in Ids(p)
    BY DEF Ids, Quiet
  <2> QED
    BY <2>1 DEF Quiet, PeerOK, NoTurnYet
<1> QED
  BY <1>1, <1>2, <1>3, <1>4 DEF PeerOK

-----------------------------------------------------------------------------
(* Steps *)

\* All peers but c are given nothing new, and c gets no id that another has.
LEMMA OneMoves ==
  ASSUME TInv, IInv', NEW c, \A p \in Peers \ {c} : Quiet(p),
         c \in Peers => PeerOK(c)' /\ \A d \in Ids(c)' :
                           d \in Ids(c) \/ \A q \in Peers \ {c} : d \notin Ids(q)
  PROVE  TInv'
<1>1. ASSUME NEW p \in Peers
      PROVE  PeerOK(p)'
  BY <1>1, QuietKeeps DEF TInv
<1>2. ASSUME NEW p \in Peers, NEW q \in Peers, p # q, NEW d, d \in Ids(p)', d \in Ids(q)'
      PROVE  FALSE
  <2>1. CASE p # c /\ q # c
    BY <1>2, <2>1, QuietIds DEF TInv, IdsApart
  <2>2. CASE p = c
    BY <1>2, <2>2, QuietIds DEF TInv, IdsApart
  <2>3. CASE q = c
    BY <1>2, <2>3, QuietIds DEF TInv, IdsApart
  <2> QED
    BY <2>1, <2>2, <2>3
<1>3. IdsApart'
  <2> SUFFICES ASSUME NEW p \in Peers, NEW q \in Peers, p # q
               PROVE  (Ids(p) \intersect Ids(q))' = {}
    BY DEF IdsApart
  <2> QED
    BY <1>2
<1> QED
  BY <1>1, <1>3 DEF TInv

\* Before the first peer joins there is nothing to put in order.
LEMMA InitTInv == Init => TInv
<1> SUFFICES ASSUME Init PROVE TInv
  OBVIOUS
<1>1. IInv
  BY InitIInv
<1>2. ASSUME NEW p \in Peers
      PROVE  /\ Sent(p) = <<>> /\ Given(p) = <<>> /\ Confirming(p) = {}
             /\ seen[p] = 0 /\ state_id = 0 /\ peer[p] = "new"
  BY DEF Init, Sent, Given, Confirming
<1>3. ASSUME NEW p \in Peers
      PROVE  PeerOK(p) /\ Ids(p) = {}
  <2>1. DOMAIN <<>> = {} /\ GrantsIn(<<>>) = {}
    BY DEF GrantsIn
  <2>2. Granted(p) = {} /\ ~Active(p)
    BY <1>2, <2>1 DEF Granted, Active
  <2>3. Ids(p) = {}
    BY <2>2 DEF Ids
  <2>4. StatesInOrder(p)
    BY <1>2, <2>1 DEF StatesInOrder, Ordered
  <2> QED
    BY <1>2, <2>1, <2>2, <2>3, <2>4
       DEF PeerOK, TurnsAreOwn, TurnsInOrder, NoTurnYet
<1> QED
  BY <1>1, <1>3 DEF TInv, IdsApart

\* Peer p sends nothing: the IO thread takes the first message of its pipe, or its
\* pipe is emptied or left alone; and no confirmation for it is made up.
SendsNothing(p) ==
  \/ ~(ipc' \in {"accepted", "addTurn"} /\ current'.conn = p) /\ Part(up'[p], up[p])
  \/ UNCHANGED <<ipc, current, next_id>> /\ up'[p] = up[p]
  \/ /\ ipc = "reading" /\ ipc' = "addTurn" /\ up[p] # <<>>
     /\ current' = [conn |-> p, msg |-> Head(up[p])] /\ up'[p] = Tail(up[p])

\* Such a peer has no more turns on their way and gets no new id.
LEMMA SendsNothingKeeps ==
  ASSUME TInv, NEW p \in Peers, SendsNothing(p), up'[p] \in Seq(Messages)
  PROVE  Part(Sent(p)', Sent(p)) /\ Confirming(p)' \subseteq Granted(p)
<1>0. MessagesOK(p) /\ IInv
  BY PipesAreMessages DEF AllMessagesOK, TInv
<1>1. CASE ~(ipc' \in {"accepted", "addTurn"} /\ current'.conn = p) /\ Part(up'[p], up[p])
  <2>1. Sent(p)' = up'[p] /\ Confirming(p)' = {}
    BY <1>1 DEF Sent, Confirming
  <2>2. Part(up[p], Sent(p))
    <3>1. CASE ipc = "addTurn" /\ current.conn = p
      <4>1. current.msg \in Messages
        BY <1>0, <3>1 DEF IInv, HandledKnown, KnownUp, Messages
      <4>2. <<current.msg>> \in Seq(Messages) /\ up[p] \in Seq(Messages)
        BY <1>0, <4>1 DEF MessagesOK
      <4> QED
        BY <3>1, <4>2, PartConcat DEF Sent
    <3>2. CASE ~(ipc = "addTurn" /\ current.conn = p)
      BY <1>0, <3>2, PartRefl DEF Sent, MessagesOK
    <3> QED
      BY <3>1, <3>2
  <2> QED
    BY <1>1, <2>1, <2>2, PartTrans
<1>2. CASE UNCHANGED <<ipc, current, next_id>> /\ up'[p] = up[p]
  <2>1. Sent(p)' = Sent(p) /\ Confirming(p)' = Confirming(p)
    BY <1>2 DEF Sent, Confirming, NewPlayerId
  <2> QED
    BY <1>0, <2>1, PartRefl DEF MessagesOK, Granted
<1>3. CASE /\ ipc = "reading" /\ ipc' = "addTurn" /\ up[p] # <<>>
           /\ current' = [conn |-> p, msg |-> Head(up[p])] /\ up'[p] = Tail(up[p])
  <2>1. up[p] \in Seq(Messages) /\ Sent(p) = up[p]
    BY <1>0, <1>3 DEF MessagesOK, Sent
  <2>2. <<Head(up[p])>> \o Tail(up[p]) = up[p]
    BY <1>3, <2>1
  <2>3. Sent(p)' = up[p] /\ Confirming(p)' = {}
    BY <1>3, <2>2 DEF Sent, Confirming
  <2> QED
    BY <2>1, <2>3, PartRefl
<1> QED
  BY <1>1, <1>2, <1>3 DEF SendsNothing

\* What p is given is no more than before.
LEMMA LessGiven ==
  ASSUME TInv, IInv', NEW p \in Peers, Part(Given(p)', Given(p)),
         seen'[p] = seen[p], state_id <= state_id'
  PROVE  StatesInOrder(p)' /\ GrantsIn(Given(p))' \subseteq Granted(p)
<1>0. MessagesOK(p) /\ MessagesOK(p)' /\ StatesInOrder(p)
  BY PipesAreMessages, PipesAreMessagesNext DEF AllMessagesOK, TInv, PeerOK
<1>1. StatesInOrder(p)'
  <2>1. Ordered(Given(p)', seen[p], state_id')
    <3>1. /\ Given(p)' \in Seq(Messages) /\ Given(p) \in Seq(Messages)
          /\ seen[p] \in Nat /\ state_id \in Nat /\ state_id' \in Nat
      BY <1>0 DEF MessagesOK
    <3>2. seen[p] <= seen[p] /\ Ordered(Given(p), seen[p], state_id)
      BY <1>0, <3>1 DEF StatesInOrder
    <3> QED
      BY <3>1, <3>2, OrderedPart
  <2> QED
    BY <1>0, <2>1 DEF StatesInOrder, MessagesOK, Ordered, Stamped, Stamp
<1>2. ASSUME NEW i \in DOMAIN Given(p)', IsGrant(Given(p)'[i])
      PROVE  Given(p)'[i].id \in Granted(p)
  <2>1. PICK j \in DOMAIN Given(p) : Given(p)[j] = Given(p)'[i]
    BY PartElement
  <2> QED
    BY <1>2, <2>1 DEF GrantsIn, Granted
<1> QED
  BY <1>1, <1>2 DEF GrantsIn, IsGrant

\* The sum of it: a peer that sends nothing and is given no more than before.
LEMMA QuietPeer ==
  ASSUME TInv, IInv', NEW p \in Peers,
         player_id_'[p] = player_id_[p], seen'[p] = seen[p], state_id <= state_id',
         p \in Clients /\ peer'[p] = "playing" => peer[p] = "playing",
         peer'[p] \in Waiting => peer[p] \in Waiting,
         SendsNothing(p), Part(Given(p)', Given(p)),
         \A d \in Ids(p) : turns'[d + 1].state_id = turns[d + 1].state_id
  PROVE  Quiet(p)
<1>1. /\ Part(Sent(p)', Sent(p)) /\ Confirming(p)' \subseteq Granted(p)
      /\ StatesInOrder(p)' /\ GrantsIn(Given(p))' \subseteq Granted(p)
  BY SendsNothingKeeps, LessGiven, PipesAreMessagesNext DEF MessagesOK
<1> QED
  BY <1>1 DEF Quiet, Granted

\* The first element of a concatenation.
LEMMA TailConcat ==
  ASSUME NEW S, NEW s \in Seq(S), s # <<>>, NEW t \in Seq(S)
  PROVE  Head(s \o t) = Head(s) /\ Tail(s \o t) = Tail(s) \o t /\ s \o t # <<>>
<1>1. s = <<Head(s)>> \o Tail(s) /\ Head(s) \in S /\ Tail(s) \in Seq(S)
  BY HeadTailProperties
<1>2. <<Head(s)>> \in Seq(S) /\ Tail(s) \o t \in Seq(S)
  BY <1>1, ConcatProperties
<1>3. s \o t = <<Head(s)>> \o (Tail(s) \o t)
  BY <1>1, <1>2, ConcatAssociative
<1>4. \A h \in S, r \in Seq(S) : Head(<<h>> \o r) = h /\ Tail(<<h>> \o r) = r /\ <<h>> \o r # <<>>
  OBVIOUS
<1> QED
  BY <1>1, <1>2, <1>3, <1>4

\* An element appended to the second part of a concatenation.
LEMMA ConcatAppend ==
  ASSUME NEW S, NEW s \in Seq(S), NEW t \in Seq(S), NEW m \in S
  PROVE  s \o Append(t, m) = Append(s \o t, m)
<1>1. <<m>> \in Seq(S) /\ s \o t \in Seq(S)
  BY ConcatProperties
<1>2. Append(t, m) = t \o <<m>> /\ Append(s \o t, m) = (s \o t) \o <<m>>
  BY <1>1, AppendIsConcat
<1>3. (s \o t) \o <<m>> = s \o (t \o <<m>>)
  BY <1>1, ConcatAssociative
<1> QED
  BY <1>2, <1>3

\* What a peer, a close or a write takes from the end or the front of what p is given.
LEMMA GivenLess ==
  ASSUME IInv, NEW p \in Peers,
         \/ output'[p] = output[p] /\ down'[p] \in {down[p], <<>>}
         \/ output'[p] = output[p] /\ down[p] # <<>> /\ down'[p] = Tail(down[p])
         \/ output'[p] = <<>> /\ down'[p] \in {down[p], down[p] \o output[p]}
  PROVE  Part(Given(p)', Given(p))
<1>0. /\ down[p] \in Seq(Messages) /\ output[p] \in Seq(Messages)
      /\ Given(p) = down[p] \o output[p] /\ Given(p) \in Seq(Messages)
      /\ Given(p)' = down'[p] \o output'[p]
  BY PipesAreMessages DEF AllMessagesOK, MessagesOK, Given
<1>1. CASE output'[p] = output[p] /\ down'[p] = down[p]
  BY <1>0, <1>1, PartRefl
<1>2. CASE output'[p] = output[p] /\ down'[p] = <<>>
  BY <1>0, <1>2, PartConcat, ConcatEmptySeq
<1>3. CASE output'[p] = output[p] /\ down[p] # <<>> /\ down'[p] = Tail(down[p])
  <2>1. /\ Tail(down[p] \o output[p]) = Tail(down[p]) \o output[p]
        /\ down[p] \o output[p] # <<>>
    BY <1>0, <1>3, TailConcat
  <2>2. Given(p)' = Tail(Given(p)) /\ Given(p) # <<>>
    BY <1>0, <1>3, <2>1
  <2> QED
    BY <1>0, <2>2, PartTail
<1>4. CASE output'[p] = <<>> /\ down'[p] = down[p]
  BY <1>0, <1>4, PartConcat, ConcatEmptySeq
<1>5. CASE output'[p] = <<>> /\ down'[p] = down[p] \o output[p]
  BY <1>0, <1>5, PartRefl, ConcatEmptySeq
<1> QED
  BY <1>1, <1>2, <1>3, <1>4, <1>5

\* What is sent to an open connection is the last that its peer is given.
LEMMA GivenSent ==
  ASSUME IInv, NEW c \in Peers, NEW m \in Messages, SendMessage(m, c), down' = down,
         conn[c] = "open"
  PROVE  Given(c)' = Append(Given(c), m)
<1> DEFINE d == down[c]
           o == output[c]
<1>1. output'[c] = Append(o, m) /\ d \in Seq(Messages) /\ o \in Seq(Messages)
  BY PipesAreMessages DEF SendMessage, IInv, TypeOK, NetTypeOK, AllMessagesOK, MessagesOK
<1>2. Given(c)' = d \o output'[c] /\ Given(c) = d \o o
  BY DEF Given
<1> HIDE DEF d, o
<1>3. d \o Append(o, m) = Append(d \o o, m)
  BY <1>1, ConcatAppend
<1> QED
  BY <1>1, <1>2, <1>3, Zenon

\* Every peer is quiet in a step that moves nothing into the IO thread's hands.
LEMMA QuietStep ==
  ASSUME TInv, IInv', UNCHANGED peerVars, state_id <= state_id', turns' = turns,
         \A p \in Peers : SendsNothing(p),
         \A p \in Peers : Part(Given(p)', Given(p))
  PROVE  TInv'
<1>1. peer' = peer /\ player_id_' = player_id_ /\ seen' = seen
  BY DEF peerVars
<1>2. ASSUME NEW p \in Peers
      PROVE  Quiet(p)
  BY <1>1, QuietPeer
<1>3. Listener \notin Peers
  BY ConstantsAssumption
<1> QED
  BY <1>2, <1>3, OneMoves

\* A step that leaves the IO thread and the network alone.
LEMMA LeftAlone ==
  ASSUME TInv, IInv', UNCHANGED <<ioVars, netVars, peerVars>>, next_id' = next_id,
         state_id <= state_id', turns' = turns
  PROVE  TInv'
<1>1. /\ UNCHANGED <<ipc, current, next_id>> /\ UNCHANGED peerVars
      /\ up' = up /\ down' = down /\ output' = output
  BY DEF ioVars, netVars
<1>2. ASSUME NEW p \in Peers
      PROVE  SendsNothing(p) /\ Part(Given(p)', Given(p))
  BY <1>1, GivenLess DEF SendsNothing, TInv
<1> QED
  BY <1>1, <1>2, QuietStep

\* SendMessage gives peer c the state the game is at, or a message without one.
LEMMA Sending ==
  ASSUME TInv, IInv', NEW c \in Peers, NEW m \in Messages, SendMessage(m, c),
         UNCHANGED <<up, down>>, UNCHANGED peerVars, UNCHANGED <<state_id, turns>>,
         Stamped(m) => Stamp(m) = state_id,
         IsGrant(m) => m.id \in Granted(c),
         \A p \in Peers : SendsNothing(p)
  PROVE  TInv'
<1>0. /\ peer' = peer /\ player_id_' = player_id_ /\ seen' = seen
      /\ up' = up /\ down' = down /\ turns' = turns /\ state_id' = state_id
  BY DEF peerVars
<1>1. ASSUME NEW p \in Peers
      PROVE  MessagesOK(p) /\ PeerOK(p) /\ state_id <= state_id
  BY PipesAreMessages DEF AllMessagesOK, TInv, MessagesOK
<1>2. ASSUME NEW p \in Peers, output'[p] = output[p]
      PROVE  Quiet(p)
  <2>1. Part(Given(p)', Given(p))
    BY <1>0, <1>2, GivenLess DEF TInv
  <2> QED
    BY <1>0, <1>1, <2>1, QuietPeer
<1>3. ASSUME conn[c] = "open"
      PROVE  Quiet(c)
  <2>2. Given(c)' = Append(Given(c), m)
    BY <1>0, <1>3, GivenSent DEF TInv
  <2>3. StatesInOrder(c)'
    <3>1. /\ Given(c) \in Seq(Messages) /\ seen[c] \in Nat /\ state_id \in Nat
          /\ seen[c] <= state_id /\ Ordered(Given(c), seen[c], state_id)
      BY <1>1 DEF MessagesOK, PeerOK, StatesInOrder
    <3>2. Ordered(Append(Given(c), m), seen[c], state_id)
      BY <3>1, OrderedAppend
    <3> QED
      BY <1>0, <2>2, <3>1, <3>2 DEF StatesInOrder, Ordered, Stamped, Stamp
  <2>4. GrantsIn(Given(c))' \subseteq Granted(c)
    <3> DEFINE g == Append(Given(c), m)
    <3>1. /\ DOMAIN g = 1..(Len(Given(c)) + 1) /\ DOMAIN Given(c) = 1..Len(Given(c))
          /\ Len(Given(c)) \in Nat /\ \A i \in 1..Len(Given(c)) : g[i] = Given(c)[i]
          /\ g[Len(Given(c)) + 1] = m
      BY <1>1, Appended DEF MessagesOK
    <3> HIDE DEF g
    <3>2. ASSUME NEW i \in DOMAIN g, IsGrant(g[i])
          PROVE  g[i].id \in Granted(c)
      <4>1. CASE i \in 1..Len(Given(c))
        BY <3>1, <3>2, <4>1 DEF Granted, GrantsIn
      <4>2. CASE i = Len(Given(c)) + 1
        BY <3>1, <3>2, <4>2
      <4> QED
        BY <3>1, <4>1, <4>2
    <3>3. Given(c)' = g
      BY <2>2 DEF g
    <3> QED
      BY <3>2, <3>3 DEF GrantsIn, IsGrant
  <2>5. Part(Sent(c)', Sent(c)) /\ Confirming(c)' \subseteq Granted(c)
    BY <1>0, <1>1, SendsNothingKeeps DEF MessagesOK
  <2> QED
    BY <1>0, <1>1, <2>3, <2>4, <2>5 DEF Quiet, Granted
<1>4. ASSUME NEW p \in Peers
      PROVE  Quiet(p)
  <2>1. conn[c] # "open" => output' = output
    BY DEF SendMessage
  <2>2. p # c => output'[p] = output[p]
    BY DEF SendMessage
  <2> QED
    BY <1>2, <1>3, <2>1, <2>2
<1>5. Listener \notin Peers
  BY ConstantsAssumption
<1> QED
  BY <1>4, <1>5, OneMoves

-----------------------------------------------------------------------------
(* The game thread *)

\* Sending is all that GameStateManager::Run does to a peer.
LEMMA GameThreadTInv ==
  ASSUME TInv, GameThread
  PROVE  TInv'
<1>0. IInv /\ IInv' /\ state_id \in Nat
  BY GameThreadIInv DEF TInv, IInv, TypeOK, StateTypeOK
<1>1. CASE SendToNext
  <2> DEFINE c == Observers[sendPos]
  <2>1. /\ UNCHANGED stateVars /\ UNCHANGED ioVars /\ UNCHANGED peerVars
        /\ UNCHANGED <<conn, up, down>> /\ SendMessage(Outgoing, c)
    BY <1>1 DEF SendToNext
  <2>2. UNCHANGED <<state_id, turns, next_id, ipc, current>> /\ up' = up /\ down' = down
    BY <2>1 DEF stateVars, ioVars
  <2>3. CASE c \in Peers
    <3>1. /\ Outgoing \in Messages /\ ~IsGrant(Outgoing)
          /\ Stamped(Outgoing) => Stamp(Outgoing) = state_id
      BY <1>0 DEF Outgoing, State, Finish, Messages, DownMessage, IsGrant, Stamped, Stamp
    <3>2. \A p \in Peers : SendsNothing(p)
      BY <2>2 DEF SendsNothing
    <3> QED
      BY <1>0, <2>1, <2>2, <2>3, <3>1, <3>2, Sending
  <2>4. CASE c \notin Peers
    <3>1. output' = output
      BY <1>0, <2>1, <2>4 DEF SendMessage, IInv, TypeOK, NetTypeOK
    <3>2. UNCHANGED <<ioVars, netVars, peerVars>> /\ next_id' = next_id /\ turns' = turns
          /\ state_id <= state_id'
      BY <1>0, <2>1, <2>2, <3>1 DEF netVars
    <3> QED
      BY <1>0, <3>2, LeftAlone
  <2> QED
    BY <2>3, <2>4
<1>2. CASE CheckPlayersCount \/ BeginState \/ Emulate
  <2>1. /\ UNCHANGED <<ioVars, netVars, peerVars>> /\ next_id' = next_id /\ turns' = turns
        /\ state_id <= state_id'
    BY <1>0, <1>2 DEF CheckPlayersCount, BeginState, Emulate, FilterTurns, InitialStateId, IInv
  <2> QED
    BY <1>0, <2>1, LeftAlone
<1>3. CASE BeginFinish \/ ClientsDone \/ ViewersDone \/ SendReadsFreedMemory \/ Stop
  <2>1. /\ UNCHANGED <<ioVars, netVars, peerVars>> /\ next_id' = next_id /\ turns' = turns
        /\ state_id <= state_id'
    BY <1>0, <1>3 DEF BeginFinish, ClientsDone, ViewersDone, SendReadsFreedMemory, Stop, stateVars
  <2> QED
    BY <1>0, <2>1, LeftAlone
<1> QED
  BY <1>1, <1>2, <1>3 DEF GameThread

-----------------------------------------------------------------------------
(* The IO thread *)

\* The steps that neither send nor subscribe nor store a turn.
LEMMA IoQuietTInv ==
  ASSUME TInv, IInv', IoMoves \/ IoFails \/ IoTransfers
  PROVE  TInv'
<1>0. /\ IInv /\ state_id \in Nat /\ \A p \in Peers : MessagesOK(p)
  BY PipesAreMessages DEF TInv, IInv, TypeOK, StateTypeOK, AllMessagesOK
<1>1. UNCHANGED stateVars /\ UNCHANGED peerVars
  BY DEF IoMoves, LoopTop, Poll, BatchDone, InputDrained, RefusePlayer, GetPlayerSpins, OnInput,
         IoFails, RecvFails, OnOutputFails, IoTransfers, Accept, EndOfFile, OnError, OnOutput
<1>2. next_id' = next_id /\ turns' = turns /\ state_id' = state_id /\ state_id <= state_id'
  BY <1>0, <1>1 DEF stateVars
<1>3. CASE IoMoves
  <2>1. UNCHANGED netVars /\ ipc' \notin {"accepted", "addTurn"}
    BY <1>3 DEF IoMoves, LoopTop, Poll, BatchDone, InputDrained, RefusePlayer, GetPlayerSpins,
                OnInput, AfterLoopTop, AfterRefusal
  <2>2. up' = up /\ down' = down /\ output' = output
    BY <2>1 DEF netVars
  <2>3. ASSUME NEW p \in Peers
        PROVE  SendsNothing(p) /\ Part(Given(p)', Given(p))
    BY <1>0, <2>1, <2>2, GivenLess, PartRefl DEF SendsNothing, MessagesOK
  <2> QED
    BY <1>1, <1>2, <2>3, QuietStep
<1>4. CASE IoFails
  <2>1. UNCHANGED <<ioVars, netVars, peerVars>>
    BY <1>4 DEF IoFails, RecvFails, OnOutputFails
  <2> QED
    BY <1>2, <2>1, LeftAlone
<1>5. CASE IoTransfers
  <2>1. ipc' \notin {"accepted", "addTurn"}
    BY <1>5 DEF IoTransfers, Accept, EndOfFile, OnError, OnOutput
  <2>2. ASSUME NEW p \in Peers
        PROVE  /\ up'[p] \in {up[p], <<>>}
               /\ \/ output'[p] = output[p] /\ down'[p] = down[p]
                  \/ output'[p] = <<>> /\ down'[p] \in {down[p], down[p] \o output[p]}
    BY <1>0, <1>5 DEF IoTransfers, Accept, EndOfFile, OnError, OnOutput, CloseConnection, Flushed,
                      IInv, TypeOK, NetTypeOK
  <2>3. ASSUME NEW p \in Peers
        PROVE  SendsNothing(p) /\ Part(Given(p)', Given(p))
    <3>1. Part(up'[p], up[p])
      BY <1>0, <2>2, PartRefl, PartNothing DEF MessagesOK
    <3> QED
      BY <1>0, <2>1, <2>2, <3>1, GivenLess DEF SendsNothing
  <2> QED
    BY <1>1, <1>2, <2>3, QuietStep
<1> QED
  BY <1>3, <1>4, <1>5

\* A message goes from the pipe into the IO thread's hands.
LEMMA ReceiveMessageTInv ==
  ASSUME TInv, IInv', ReceiveMessage
  PROVE  TInv'
<1> DEFINE c == current.conn
<1>0. /\ IInv /\ state_id \in Nat /\ \A p \in Peers : MessagesOK(p)
  BY PipesAreMessages DEF TInv, IInv, TypeOK, StateTypeOK, AllMessagesOK
<1>1. /\ UNCHANGED stateVars /\ UNCHANGED peerVars /\ output' = output /\ down' = down
      /\ ipc = "reading" /\ up[c] # <<>> /\ up' = [up EXCEPT ![c] = Tail(@)]
      /\ current' = [conn |-> c, msg |-> Head(up[c])]
      /\ ipc' \in {"addPlayer", "confirmViewer", "addTurn"}
  BY DEF ReceiveMessage
<1>2. next_id' = next_id /\ turns' = turns /\ state_id' = state_id /\ state_id <= state_id'
  BY <1>0, <1>1 DEF stateVars
<1>3. c \in Peers /\ up \in [Peers -> Seq(UpMessage)]
  BY <1>0, <1>1 DEF IInv, HandledKnown, Handling, TypeOK, NetTypeOK
<1> HIDE DEF c
<1>4. ASSUME NEW p \in Peers
      PROVE  SendsNothing(p)
  <2>1. CASE p = c
    <3>1. up'[p] = Tail(up[p]) /\ Part(Tail(up[p]), up[p])
      BY <1>0, <1>1, <1>3, <2>1, PartTail DEF MessagesOK
    <3> QED
      BY <1>1, <2>1, <3>1 DEF SendsNothing
  <2>2. CASE p # c
    <3>1. up'[p] = up[p] /\ Part(up[p], up[p]) /\ current'.conn # p
      BY <1>0, <1>1, <1>3, <2>2, PartRefl DEF MessagesOK
    <3> QED
      BY <3>1 DEF SendsNothing
  <2> QED
    BY <2>1, <2>2
<1>5. ASSUME NEW p \in Peers
      PROVE  Part(Given(p)', Given(p))
  BY <1>0, <1>1, GivenLess
<1> QED
  BY <1>1, <1>2, <1>4, <1>5, QuietStep

\* The confirmation gives a Gamer the id that AddPlayer made for it.
LEMMA SendConfirmationTInv ==
  ASSUME TInv, IInv', SendConfirmation
  PROVE  TInv'
<1> DEFINE c == current.conn
           m == IF ipc = "confirmViewer"
                THEN ViewerSubscribeResult(Len(viewer_ids_) - 1)
                ELSE ClientSubscribeResult(ipc = "accepted", NewPlayerId)
<1>0. IInv /\ \A p \in Peers : MessagesOK(p)
  BY PipesAreMessages DEF TInv, AllMessagesOK
<1>1. /\ UNCHANGED stateVars /\ UNCHANGED peerVars /\ UNCHANGED <<up, down>>
      /\ ipc \in {"refused", "accepted", "confirmViewer"} /\ ipc' = "reading"
      /\ SendMessage(m, c)
  BY DEF SendConfirmation
<1>2. c \in Peers
  BY <1>0, <1>1 DEF IInv, HandledKnown, Handling
<1>3. m \in Messages /\ ~Stamped(m)
  <2>0. /\ viewer_ids_ \in Seq(Peers) /\ players \in Seq(Nat) /\ next_id = Len(players)
        /\ HandledKnown
    BY <1>0 DEF IInv, TypeOK, ObsTypeOK, StateTypeOK
  <2>1. CASE ipc = "confirmViewer"
    <3>1. Len(viewer_ids_) - 1 \in Nat
      BY <2>0, <2>1 DEF HandledKnown
    <3> QED
      BY <2>1, <3>1 DEF ViewerSubscribeResult, Messages, DownMessage, Stamped
  <2>2. CASE ipc = "accepted"
    <3>1. NewPlayerId \in Nat
      BY <2>0, <2>2 DEF HandledKnown, NewPlayerId
    <3> QED
      BY <2>2, <3>1 DEF ClientSubscribeResult, Messages, DownMessage, Stamped
  <2>3. CASE ipc = "refused"
    BY <2>3 DEF ClientSubscribeResult, Messages, DownMessage, Stamped
  <2> QED
    BY <1>1, <2>1, <2>2, <2>3
<1>4. IsGrant(m) => m.id \in Granted(c)
  BY <1>1 DEF IsGrant, ViewerSubscribeResult, ClientSubscribeResult, Granted, Confirming
<1>5. ASSUME NEW p \in Peers
      PROVE  SendsNothing(p)
  BY <1>0, <1>1, PartRefl DEF SendsNothing, MessagesOK
<1>6. UNCHANGED <<state_id, turns>>
  BY <1>1 DEF stateVars
<1> HIDE DEF m, c
<1> QED
  BY <1>1, <1>2, <1>3, <1>4, <1>5, <1>6, Sending

\* The new player's id is nobody's, and its turn is for no state.
LEMMA AddPlayerTInv ==
  ASSUME TInv, IInv', AddPlayer
  PROVE  TInv'
<1> DEFINE n == Len(players)
<1>0. /\ IInv /\ state_id \in Nat /\ \A p \in Peers : MessagesOK(p) /\ PeerOK(p)
      /\ next_id = n /\ n \in Nat /\ turns \in Seq(Turn) /\ Len(turns) = n
  BY PipesAreMessages DEF TInv, IInv, TypeOK, StateTypeOK, AllMessagesOK, TurnsMatchPlayers
<1>1. /\ UNCHANGED peerVars /\ UNCHANGED netVars /\ UNCHANGED <<state_id, current>>
      /\ ipc = "addPlayer" /\ ipc' = "accepted"
      /\ turns' = TurnsWithNewPlayer /\ next_id' = FollowingId
  BY DEF AddPlayer
<1>2. /\ up' = up /\ down' = down /\ output' = output
      /\ peer' = peer /\ player_id_' = player_id_ /\ seen' = seen
  BY <1>1 DEF netVars, peerVars
<1>3. PICK c \in Peers : c = current.conn /\ current' = current
  BY <1>0, <1>1 DEF IInv, HandledKnown, Handling
<1>4. /\ \A i \in 1..n : turns'[i] = turns[i]
      /\ turns'[n + 1].state_id = 0
  <2> DEFINE t == [NoTurn EXCEPT !.player_id = n]
  <2>1. NoTurn \in Turn /\ t \in Turn /\ t.state_id = 0
    BY <1>0 DEF NoTurn, Turn, Accelerations
  <2>2. turns' = [Append(turns, NoTurn) EXCEPT ![n + 1] = t]
    BY <1>0, <1>1 DEF TurnsWithNewPlayer
  <2> HIDE DEF t
  <2>3. turns' = Append(turns, t)
    BY <1>0, <2>1, <2>2, AppendedThenSet
  <2> QED
    BY <1>0, <2>1, <2>3, Appended
<1>5. ASSUME NEW p \in Peers, NEW d \in Ids(p)
      PROVE  d < n /\ turns'[d + 1].state_id = turns[d + 1].state_id
  <2>1. d \in Nat /\ d < n
    BY <1>0, IdsKnown DEF PeerOK
  <2> QED
    BY <1>0, <1>4, <2>1
<1>6. ASSUME NEW p \in Peers
      PROVE  Part(Given(p)', Given(p)) /\ state_id <= state_id'
  BY <1>0, <1>1, <1>2, GivenLess
<1>7. ASSUME NEW p \in Peers \ {c}
      PROVE  Quiet(p)
  <2>1. SendsNothing(p)
    BY <1>0, <1>1, <1>2, <1>3, PartRefl DEF SendsNothing, MessagesOK
  <2> QED
    BY <1>2, <1>5, <1>6, <2>1, QuietPeer
<1>8. Confirming(c)' = {n}
  BY <1>0, <1>1, <1>3 DEF Confirming, NewPlayerId, FollowingId
<1>9. Granted(c)' \subseteq Granted(c) \union {n} /\ StatesInOrder(c)'
  BY <1>2, <1>3, <1>6, <1>8, LessGiven DEF Granted
<1>10. Sent(c)' = Sent(c) /\ Active(c)' = Active(c)
  <2>1. Sent(c)' = Sent(c)
    BY <1>1, <1>2, <1>3 DEF Sent
  <2> QED
    BY <1>2, <2>1 DEF Active, IsTurn
<1>11. PeerOK(c)'
  <2>0. PeerOK(c)
    BY <1>0, <1>3
  <2>1. TurnsAreOwn(c)'
    BY <1>2, <1>10, <2>0 DEF PeerOK, TurnsAreOwn, IsTurn, Waiting
  <2>2. TurnsInOrder(c)'
    <3> SUFFICES ASSUME Active(c)
                 PROVE  /\ turns'[player_id_[c] + 1].state_id <= seen[c]
                        /\ Ordered(Sent(c), turns'[player_id_[c] + 1].state_id, seen[c])
      BY <1>2, <1>10 DEF TurnsInOrder, Ordered, Stamped, Stamp
    <3>1. player_id_[c] \in Ids(c)
      BY DEF Ids
    <3>2. turns'[player_id_[c] + 1].state_id = turns[player_id_[c] + 1].state_id
      BY <1>3, <1>5, <3>1
    <3> QED
      BY <2>0, <3>2 DEF PeerOK, TurnsInOrder
  <2>3. NoTurnYet(c)'
    <3> SUFFICES ASSUME peer[c] \in Waiting, NEW d \in Granted(c)'
                 PROVE  turns'[d + 1].state_id = 0
      BY <1>2 DEF NoTurnYet, Waiting
    <3>1. CASE d = n
      BY <1>4, <3>1
    <3>2. CASE d \in Granted(c)
      <4>1. d \in Ids(c)
        BY <3>2 DEF Ids
      <4> QED
        BY <1>3, <1>5, <2>0, <3>2, <4>1 DEF PeerOK, NoTurnYet
    <3> QED
      BY <1>9, <3>1, <3>2
  <2> QED
    BY <1>9, <2>1, <2>2, <2>3 DEF PeerOK
<1>12. ASSUME NEW d \in Ids(c)'
       PROVE  d \in Ids(c) \/ \A q \in Peers \ {c} : d \notin Ids(q)
  <2>1. d \in Ids(c) \/ d = n
    BY <1>2, <1>9, <1>10, <1>12 DEF Ids
  <2>2. \A q \in Peers : n \notin Ids(q)
    BY <1>0, <1>5
  <2> QED
    BY <2>1, <2>2
<1> QED
  BY <1>7, <1>11, <1>12, OneMoves

\* The stored turn is the next one of the peer it belongs to.
LEMMA AddTurnFacts ==
  ASSUME TInv, AddTurn
  PROVE  LET c == current.conn
             t == current.msg.turn
         IN  /\ c \in Peers /\ Active(c) /\ player_id_[c] = t.player_id
             /\ t.player_id \in Nat /\ t.state_id \in Nat
             /\ t.player_id < Len(players)
             /\ turns' = [turns EXCEPT ![t.player_id + 1] = t]
             /\ turns[t.player_id + 1].state_id \in Nat
             /\ turns[t.player_id + 1].state_id <= t.state_id
             /\ t.state_id <= seen[c]
             /\ Ordered(up[c], t.state_id, seen[c])
<1> DEFINE c == current.conn
           m == current.msg
           t == m.turn
           stored == turns[t.player_id + 1].state_id
<1>0. IInv /\ ipc = "addTurn" /\ turns' = [turns EXCEPT ![t.player_id + 1] = t]
  BY DEF TInv, AddTurn, TurnSlot
<1>1. c \in Peers /\ m \in KnownUp(Len(players), state_id) /\ m.type = "TURN"
  BY <1>0 DEF IInv, HandledKnown, Handling
<1>2. /\ m \in Messages /\ t.player_id \in Nat /\ t.state_id \in Nat
      /\ t.player_id < Len(players)
      /\ IsTurn(m) /\ Stamped(m) /\ Stamp(m) = t.state_id
  BY <1>1 DEF KnownUp, Messages, UpMessage, Turn, IsTurn, Stamped, Stamp
<1>3. MessagesOK(c) /\ PeerOK(c)
  BY <1>0, <1>1, PipesAreMessages DEF AllMessagesOK, TInv
<1> HIDE DEF m, c
<1>4. /\ Sent(c) = <<m>> \o up[c] /\ Sent(c) \in Seq(Messages) /\ up[c] \in Seq(Messages)
  BY <1>0, <1>3 DEF Sent, MessagesOK, m, c
<1>5. Head(Sent(c)) = m /\ Tail(Sent(c)) = up[c] /\ Sent(c) # <<>> /\ 1 \in DOMAIN Sent(c)
      /\ Sent(c)[1] = m
  BY <1>2, <1>4
<1>6. /\ c \in Clients /\ t.player_id = player_id_[c] /\ Active(c)
  BY <1>2, <1>3, <1>5 DEF PeerOK, TurnsAreOwn, Active
<1>7. /\ stored \in Nat /\ seen[c] \in Nat
      /\ Ordered(Sent(c), stored, seen[c])
  BY <1>2, <1>3, <1>6, TurnStates DEF PeerOK, TurnsInOrder, MessagesOK
<1> HIDE DEF stored
<1>8. stored <= t.state_id /\ t.state_id <= seen[c] /\ Ordered(up[c], t.state_id, seen[c])
  BY <1>2, <1>4, <1>5, <1>7, OrderedTail
<1> QED
  BY <1>0, <1>1, <1>2, <1>6, <1>7, <1>8 DEF m, c, stored

\* Storing a turn changes nothing for the other peers: the player is theirs neither
\* now nor when a confirmation on its way arrives.
LEMMA AddTurnTInv ==
  ASSUME TInv, IInv', AddTurn
  PROVE  TInv'
<1>0. /\ IInv /\ state_id \in Nat /\ \A p \in Peers : MessagesOK(p) /\ PeerOK(p)
      /\ turns \in Seq(Turn) /\ Len(turns) = Len(players) /\ Len(players) \in Nat
  BY PipesAreMessages DEF TInv, IInv, TypeOK, StateTypeOK, AllMessagesOK, TurnsMatchPlayers
<1>1. /\ UNCHANGED peerVars /\ UNCHANGED netVars /\ UNCHANGED <<state_id, next_id, current>>
      /\ ipc = "addTurn" /\ ipc' = "reading"
  BY DEF AddTurn
<1>2. /\ up' = up /\ down' = down /\ output' = output /\ current' = current
      /\ peer' = peer /\ player_id_' = player_id_ /\ seen' = seen
  BY <1>1 DEF netVars, peerVars
<1>3. PICK c \in Peers, t \in Turn :
        /\ c = current.conn /\ Active(c) /\ player_id_[c] = t.player_id
        /\ t.player_id \in Nat /\ t.state_id \in Nat
        /\ t.player_id < Len(players)
        /\ turns' = [turns EXCEPT ![t.player_id + 1] = t]
        /\ turns[t.player_id + 1].state_id <= t.state_id
        /\ t.state_id <= seen[c]
        /\ Ordered(up[c], t.state_id, seen[c])
  <2>1. current.msg.turn \in Turn
    BY <1>0, <1>1 DEF IInv, HandledKnown, KnownUp, UpMessage
  <2> QED
    BY <2>1, AddTurnFacts
<1>4. /\ turns'[t.player_id + 1] = t
      /\ \A d \in Nat : d < Len(players) /\ d # t.player_id => turns'[d + 1] = turns[d + 1]
  BY <1>0, <1>3
<1>5. ASSUME NEW p \in Peers
      PROVE  /\ Part(Given(p)', Given(p)) /\ state_id <= state_id'
             /\ SendsNothing(p)
  BY <1>0, <1>1, <1>2, GivenLess, PartRefl DEF SendsNothing, MessagesOK
<1>6. player_id_[c] \in Ids(c)
  BY <1>3 DEF Ids
<1>7. ASSUME NEW p \in Peers \ {c}
      PROVE  Quiet(p)
  <2>1. ASSUME NEW d \in Ids(p)
        PROVE  turns'[d + 1].state_id = turns[d + 1].state_id
    <3>1. d \in Nat /\ d < Len(players)
      BY <1>0, IdsKnown DEF PeerOK
    <3>2. d # t.player_id
      BY <1>3, <1>6 DEF TInv, IdsApart
    <3> QED
      BY <1>4, <3>1, <3>2
  <2> QED
    BY <1>2, <1>5, <2>1, QuietPeer
<1>8. /\ Sent(c)' = up[c] /\ Part(Sent(c)', Sent(c)) /\ Confirming(c)' = {}
      /\ StatesInOrder(c)' /\ Granted(c)' \subseteq Granted(c)
  <2>1. Sent(c)' = up[c] /\ Confirming(c)' = {}
    BY <1>1, <1>2 DEF Sent, Confirming
  <2>2. Part(Sent(c)', Sent(c))
    BY <1>0, <1>2, <1>5, SendsNothingKeeps DEF MessagesOK
  <2>3. StatesInOrder(c)' /\ GrantsIn(Given(c))' \subseteq Granted(c)
    BY <1>2, <1>5, LessGiven
  <2> QED
    BY <2>1, <2>2, <2>3 DEF Granted
<1>9. PeerOK(c)'
  <2>0. PeerOK(c)
    BY <1>0
  <2>1. TurnsAreOwn(c)'
    <3> SUFFICES ASSUME NEW i \in DOMAIN Sent(c)', IsTurn(Sent(c)'[i])
                 PROVE  /\ peer[c] \notin Waiting /\ c \in Clients
                        /\ Sent(c)'[i].turn.player_id = player_id_[c]
      BY <1>2 DEF TurnsAreOwn, IsTurn, Waiting
    <3>1. PICK j \in DOMAIN Sent(c) : Sent(c)[j] = Sent(c)'[i]
      BY <1>8, PartElement
    <3> QED
      BY <2>0, <3>1 DEF PeerOK, TurnsAreOwn
  <2>2. TurnsInOrder(c)'
    <3>1. turns'[player_id_[c] + 1].state_id = t.state_id
      BY <1>3, <1>4
    <3> QED
      BY <1>2, <1>3, <1>8, <3>1 DEF TurnsInOrder, Ordered, Stamped, Stamp
  <2>3. NoTurnYet(c)'
    <3>1. peer[c] \notin Waiting
      <4>1. CASE peer[c] = "playing"
        BY <4>1 DEF Waiting
      <4>2. CASE \E i \in DOMAIN Sent(c) : IsTurn(Sent(c)[i])
        BY <2>0, <4>2 DEF PeerOK, TurnsAreOwn
      <4> QED
        BY <1>3, <4>1, <4>2 DEF Active
    <3> QED
      BY <1>2, <3>1 DEF NoTurnYet, Waiting
  <2> QED
    BY <1>8, <2>1, <2>2, <2>3 DEF PeerOK
<1>10. ASSUME NEW d \in Ids(c)'
       PROVE  d \in Ids(c)
  BY <1>2, <1>6, <1>8, <1>10 DEF Ids
<1> QED
  BY <1>7, <1>9, <1>10, OneMoves

\* Every step of the IO thread.
LEMMA IoThreadTInv ==
  ASSUME TInv, IoThread
  PROVE  TInv'
<1>1. IInv'
  BY IoThreadIInv DEF TInv
<1> QED
  BY <1>1, IoQuietTInv, ReceiveMessageTInv, AddPlayerTInv, SendConfirmationTInv, AddTurnTInv
     DEF IoThread, IoMoves, IoFails, IoTransfers

-----------------------------------------------------------------------------
(* The peers *)

\* The server's side of a step of peer c, and the other peers.
LEMMA PeerLeaves ==
  ASSUME TInv, NEW c \in Peers, PeerStep(c)
  PROVE  /\ IInv' /\ state_id' = state_id /\ turns' = turns /\ state_id <= state_id'
         /\ UNCHANGED <<ipc, current, next_id>> /\ output' = output
         /\ Confirming(c)' = Confirming(c)
         /\ \A p \in Peers \ {c} : Quiet(p)
<1>0. /\ IInv /\ IInv' /\ state_id \in Nat /\ PeerTypeOK /\ NetTypeOK
      /\ UNCHANGED stateVars /\ UNCHANGED ioVars /\ output' = output
  BY PeersIInv, PeerFrame DEF TInv, IInv, TypeOK, StateTypeOK
<1>1. /\ state_id' = state_id /\ turns' = turns /\ state_id <= state_id'
      /\ UNCHANGED <<ipc, current, next_id>>
  BY <1>0 DEF stateVars, ioVars
<1>2. ASSUME NEW p \in Peers, p # c
      PROVE  /\ player_id_'[p] = player_id_[p] /\ seen'[p] = seen[p] /\ peer'[p] = peer[p]
             /\ up'[p] = up[p] /\ down'[p] = down[p]
  BY <1>0, <1>2 DEF PeerStep, Join, Confirmed, TakeState, TakeFinish, Die, PeerTypeOK, NetTypeOK
<1>3. ASSUME NEW p \in Peers \ {c}
      PROVE  Quiet(p)
  <2>1. SendsNothing(p) /\ Part(Given(p)', Given(p))
    BY <1>0, <1>1, <1>2, GivenLess DEF SendsNothing
  <2> QED
    BY <1>0, <1>1, <1>2, <2>1, QuietPeer
<1> QED
  BY <1>0, <1>1, <1>3 DEF Confirming, NewPlayerId

\* A peer that waits for its confirmation has sent no turn.
LEMMA NoTurnWhileWaiting ==
  ASSUME TInv, NEW c \in Peers, peer[c] \in Waiting
  PROVE  /\ \A i \in DOMAIN Sent(c) : ~IsTurn(Sent(c)[i])
         /\ ~(ipc = "addTurn" /\ current.conn = c)
<1>1. PeerOK(c) /\ MessagesOK(c)
  BY PipesAreMessages DEF TInv, AllMessagesOK
<1>2. \A i \in DOMAIN Sent(c) : ~IsTurn(Sent(c)[i])
  BY <1>1 DEF PeerOK, TurnsAreOwn
<1>3. ASSUME ipc = "addTurn", current.conn = c
      PROVE  FALSE
  <2>1. IsTurn(current.msg) /\ current.msg \in Messages
    BY <1>3 DEF TInv, IInv, HandledKnown, KnownUp, Messages, IsTurn
  <2>2. Sent(c) = <<current.msg>> \o up[c] /\ up[c] \in Seq(Messages)
    BY <1>1, <1>3 DEF Sent, MessagesOK
  <2>3. 1 \in DOMAIN Sent(c) /\ Sent(c)[1] = current.msg
    BY <2>1, <2>2
  <2> QED
    BY <1>2, <2>1, <2>3
<1> QED
  BY <1>2, <1>3

\* The first message of the pipe is the first of all that p is given.
LEMMA FirstGiven ==
  ASSUME TInv, NEW c \in Peers, down[c] # <<>>
  PROVE  /\ Head(Given(c)) = Head(down[c]) /\ Given(c) # <<>>
         /\ Tail(Given(c)) = Tail(down[c]) \o output[c]
         /\ 1 \in DOMAIN Given(c) /\ Given(c)[1] = Head(down[c])
         /\ IsGrant(Head(down[c])) => Head(down[c]).id \in Granted(c)
<1>1. /\ down[c] \in Seq(Messages) /\ output[c] \in Seq(Messages) /\ Given(c) \in Seq(Messages)
  BY PipesAreMessages DEF TInv, AllMessagesOK, MessagesOK
<1>2. /\ Head(Given(c)) = Head(down[c]) /\ Given(c) # <<>>
      /\ Tail(Given(c)) = Tail(down[c]) \o output[c]
  BY <1>1, TailConcat DEF Given
<1>3. 1 \in DOMAIN Given(c) /\ Given(c)[1] = Head(Given(c))
  BY <1>1, <1>2
<1> QED
  BY <1>2, <1>3 DEF Granted, GrantsIn

\* The request to subscribe.
LEMMA JoinTInv ==
  ASSUME TInv, NEW c \in Peers, Join(c)
  PROVE  TInv'
<1>0. /\ IInv /\ PeerOK(c) /\ MessagesOK(c) /\ PeerTypeOK /\ NetTypeOK
  BY PipesAreMessages DEF TInv, AllMessagesOK, IInv, TypeOK
<1>1. /\ peer[c] = "new" /\ peer'[c] = "joining"
      /\ seen' = seen /\ player_id_' = player_id_ /\ down' = down
      /\ \/ up'[c] = <<ClientSubscribeRequest>>
         \/ up'[c] = <<ViewerSubscribeRequest>>
  BY <1>0 DEF Join, PeerTypeOK, NetTypeOK
<1>2. PeerStep(c)
  BY DEF PeerStep
<1>3. /\ StatesInOrder(c)' /\ Granted(c)' \subseteq Granted(c)
  <2>1. Part(Given(c)', Given(c))
    BY <1>0, <1>1, <1>2, PeerLeaves, GivenLess
  <2> QED
    BY <1>1, <1>2, <2>1, PeerLeaves, LessGiven DEF Granted
<1>4. ASSUME NEW i \in DOMAIN Sent(c)'
      PROVE  ~IsTurn(Sent(c)'[i])
  <2>1. Sent(c)' = up'[c]
    BY <1>1, <1>2, PeerLeaves, NoTurnWhileWaiting DEF Sent, Waiting
  <2>2. ~IsTurn(ClientSubscribeRequest) /\ ~IsTurn(ViewerSubscribeRequest)
    BY DEF IsTurn, ClientSubscribeRequest, ViewerSubscribeRequest
  <2> QED
    BY <1>1, <2>1, <2>2
<1>5. ~Active(c)'
  BY <1>1, <1>4 DEF Active, IsTurn
<1>6. PeerOK(c)'
  <2>1. TurnsAreOwn(c)' /\ TurnsInOrder(c)'
    BY <1>4, <1>5 DEF TurnsAreOwn, TurnsInOrder, IsTurn
  <2>2. NoTurnYet(c)'
    BY <1>0, <1>1, <1>2, <1>3, PeerLeaves DEF PeerOK, NoTurnYet, Waiting
  <2> QED
    BY <1>3, <2>1, <2>2 DEF PeerOK
<1>7. Ids(c)' \subseteq Ids(c)
  BY <1>3, <1>5 DEF Ids
<1> QED
  BY <1>2, <1>6, <1>7, PeerLeaves, OneMoves

\* A confirmation: the id that was on its way becomes the Gamer's own.
LEMMA ConfirmedTInv ==
  ASSUME TInv, NEW c \in Peers, Confirmed(c)
  PROVE  TInv'
<1> DEFINE m == Head(down[c])
<1>0. /\ IInv /\ PeerOK(c) /\ MessagesOK(c) /\ PeerTypeOK /\ NetTypeOK
  BY PipesAreMessages DEF TInv, AllMessagesOK, IInv, TypeOK
<1>1. /\ peer[c] = "joining" /\ down[c] # <<>> /\ down'[c] = Tail(down[c])
      /\ seen' = seen /\ up' = up
  BY <1>0 DEF Confirmed, NetTypeOK
<1>2. PeerStep(c)
  BY DEF PeerStep
<1>3. Part(Given(c)', Given(c)) /\ SendsNothing(c)
  BY <1>0, <1>1, <1>2, PeerLeaves, GivenLess DEF SendsNothing
<1>4. CASE c \notin Clients \/ ~IsGrant(m)
  <2>1. /\ player_id_'[c] = player_id_[c]
        /\ c \in Clients => peer'[c] # "playing"
        /\ peer'[c] \notin Waiting
    BY <1>0, <1>4, ConstantsAssumption DEF Confirmed, IsGrant, PeerTypeOK, Waiting
  <2>2. Quiet(c)
    BY <1>1, <1>2, <1>3, <2>1, PeerLeaves, QuietPeer
  <2> QED
    BY <1>2, <2>2, PeerLeaves, QuietKeeps, QuietIds, OneMoves DEF TInv
<1>5. CASE c \in Clients /\ IsGrant(m)
  <2>1. player_id_'[c] = m.id /\ peer'[c] = "playing"
    BY <1>0, <1>5, ConstantsAssumption DEF Confirmed, IsGrant, PeerTypeOK
  <2>2. m.id \in Granted(c) /\ turns[m.id + 1].state_id = 0
    BY <1>0, <1>1, <1>5, FirstGiven DEF PeerOK, NoTurnYet, Waiting
  <2>3. StatesInOrder(c)' /\ Granted(c)' \subseteq Granted(c)
    BY <1>1, <1>2, <1>3, PeerLeaves, LessGiven DEF Granted
  <2>4. /\ Sent(c)' = Sent(c) /\ \A i \in DOMAIN Sent(c) : ~IsTurn(Sent(c)[i])
    BY <1>1, <1>2, PeerLeaves, NoTurnWhileWaiting DEF Sent, Waiting
  <2>5. \A i \in DOMAIN Sent(c) : ~Stamped(Sent(c)[i])
    <3>1. \A i \in DOMAIN Sent(c) : Sent(c)[i] \in UpMessage
      BY <1>0 DEF MessagesOK, KnownUp
    <3> QED
      BY <2>4, <3>1 DEF UpMessage, Stamped, IsTurn
  <2>6. PeerOK(c)'
    <3>1. TurnsAreOwn(c)'
      BY <2>4 DEF TurnsAreOwn, IsTurn
    <3>2. TurnsInOrder(c)'
      <4>1. turns'[player_id_'[c] + 1].state_id <= seen'[c]
        BY <1>0, <1>1, <1>2, <2>1, <2>2, PeerLeaves DEF MessagesOK
      <4>2. Ordered(Sent(c)', turns'[player_id_'[c] + 1].state_id, seen'[c])
        BY <2>4, <2>5 DEF Ordered
      <4> QED
        BY <4>1, <4>2 DEF TurnsInOrder, Ordered, Stamped, Stamp
    <3>3. NoTurnYet(c)'
      BY <2>1 DEF NoTurnYet, Waiting
    <3> QED
      BY <2>3, <3>1, <3>2, <3>3 DEF PeerOK
  <2>7. Ids(c)' \subseteq Ids(c)
    BY <2>1, <2>2, <2>3 DEF Ids
  <2> QED
    BY <1>2, <2>6, <2>7, PeerLeaves, OneMoves
<1> QED
  BY <1>4, <1>5

\* A state taken and, by a Gamer, answered.
LEMMA TakeStateTInv ==
  ASSUME TInv, NEW c \in Peers, TakeState(c)
  PROVE  TInv'
<1> DEFINE m == Head(down[c])
           t == TurnMessage(player_id_[c], m.id)
<1>0. /\ IInv /\ PeerOK(c) /\ MessagesOK(c) /\ PeerTypeOK /\ NetTypeOK
  BY PipesAreMessages DEF TInv, AllMessagesOK, IInv, TypeOK
<1>1. /\ peer[c] = "playing" /\ down[c] # <<>> /\ m.type = "STATE"
      /\ down'[c] = Tail(down[c]) /\ seen'[c] = m.id
      /\ up'[c] = IF c \in Clients THEN up[c] \o <<t>> ELSE up[c]
      /\ peer' = peer /\ player_id_' = player_id_
  BY <1>0 DEF TakeState, Answer, PeerTypeOK, NetTypeOK
<1>2. PeerStep(c)
  BY DEF PeerStep
<1>3. /\ Stamped(m) /\ Stamp(m) = m.id /\ m = Head(Given(c)) /\ Given(c) # <<>>
      /\ Given(c)' = Tail(Given(c))
      /\ Given(c) \in Seq(Messages)
  <2>1. Given(c)' = Tail(down[c]) \o output[c]
    BY <1>1, <1>2, PeerLeaves DEF Given
  <2> QED
    BY <1>0, <1>1, <2>1, FirstGiven DEF Stamped, Stamp, MessagesOK
<1>4. /\ m.id \in Nat /\ seen[c] <= m.id /\ m.id <= state_id
      /\ Ordered(Tail(Given(c)), m.id, state_id)
  <2>1. /\ seen[c] \in Nat /\ state_id \in Nat /\ Ordered(Given(c), seen[c], state_id)
    BY <1>0 DEF PeerOK, StatesInOrder, MessagesOK
  <2> HIDE DEF m
  <2>2. /\ Ordered(Tail(Given(c)), Stamp(Head(Given(c))), state_id)
        /\ Stamp(Head(Given(c))) \in Nat
        /\ seen[c] <= Stamp(Head(Given(c))) /\ Stamp(Head(Given(c))) <= state_id
    BY <1>3, <2>1, OrderedTail
  <2> QED
    BY <1>3, <2>2
<1>5. StatesInOrder(c)'
  BY <1>1, <1>2, <1>3, <1>4, PeerLeaves DEF StatesInOrder, Ordered, Stamped, Stamp
<1>6. Granted(c)' \subseteq Granted(c)
  <2>1. Part(Given(c)', Given(c))
    BY <1>3, PartTail
  <2>2. ASSUME NEW i \in DOMAIN Given(c)', IsGrant(Given(c)'[i])
        PROVE  Given(c)'[i].id \in Granted(c)
    <3>1. PICK j \in DOMAIN Given(c) : Given(c)[j] = Given(c)'[i]
      BY <2>1, PartElement
    <3> QED
      BY <2>2, <3>1 DEF Granted, GrantsIn
  <2>3. GrantsIn(Given(c))' \subseteq Granted(c)
    BY <2>2 DEF GrantsIn, IsGrant
  <2> QED
    BY <1>2, <2>3, PeerLeaves DEF Granted
<1>7. NoTurnYet(c)'
  BY <1>1 DEF NoTurnYet, Waiting
<1>8. CASE c \notin Clients
  <2>1. Sent(c)' = Sent(c)
    BY <1>1, <1>2, <1>8, PeerLeaves DEF Sent
  <2>2. TurnsAreOwn(c)' /\ TurnsInOrder(c)' /\ ~Active(c)'
    BY <1>0, <1>1, <1>8, <2>1 DEF PeerOK, TurnsAreOwn, TurnsInOrder, Active, IsTurn, Waiting
  <2>3. PeerOK(c)' /\ Ids(c)' \subseteq Ids(c)
    BY <1>5, <1>6, <1>7, <2>2 DEF PeerOK, Ids
  <2> QED
    BY <1>2, <2>3, PeerLeaves, OneMoves
<1>9. CASE c \in Clients
  <2>1. /\ t \in Messages /\ Stamped(t) /\ Stamp(t) = m.id /\ t.turn.player_id = player_id_[c]
    <3> HIDE DEF m
    <3> QED
      BY <1>0, <1>4 DEF TurnMessage, Messages, UpMessage, Turn, Accelerations, Stamped, Stamp,
                        MessagesOK
  <2>2. Active(c) /\ player_id_[c] \in Ids(c)
    BY <1>1, <1>9 DEF Active, Ids
  <2>3. Sent(c)' = Append(Sent(c), t)
    <3> HIDE DEF t
    <3>1. up'[c] = Append(up[c], t)
      BY <1>0, <1>1, <1>9, <2>1, AppendIsConcat DEF MessagesOK
    <3>2. CASE ipc = "addTurn" /\ current.conn = c
      <4> DEFINE h == <<current.msg>>
      <4>1. h \in Seq(Messages) /\ up[c] \in Seq(Messages)
        BY <1>0, <3>2 DEF IInv, HandledKnown, KnownUp, Messages, MessagesOK
      <4>2. Sent(c) = h \o up[c] /\ Sent(c)' = h \o Append(up[c], t)
        BY <1>2, <3>1, <3>2, PeerLeaves DEF Sent
      <4> HIDE DEF h
      <4>3. h \o Append(up[c], t) = Append(h \o up[c], t)
        BY <2>1, <4>1, ConcatAppend
      <4> QED
        BY <4>2, <4>3
    <3>3. CASE ~(ipc = "addTurn" /\ current.conn = c)
      BY <1>2, <3>1, <3>3, PeerLeaves DEF Sent
    <3> QED
      BY <3>2, <3>3
  <2> DEFINE s == Append(Sent(c), t)
             stored == turns[player_id_[c] + 1].state_id
  <2>4. /\ DOMAIN s = 1..(Len(Sent(c)) + 1) /\ DOMAIN Sent(c) = 1..Len(Sent(c))
        /\ Len(Sent(c)) \in Nat /\ \A i \in 1..Len(Sent(c)) : s[i] = Sent(c)[i]
        /\ s[Len(Sent(c)) + 1] = t
    <3> HIDE DEF t
    <3> QED
      BY <1>0, <2>1, Appended DEF MessagesOK
  <2>5. TurnsAreOwn(c)'
    <3> HIDE DEF s, t
    <3>1. ASSUME NEW i \in DOMAIN s, IsTurn(s[i])
          PROVE  s[i].turn.player_id = player_id_[c]
      <4>1. CASE i \in 1..Len(Sent(c))
        BY <1>0, <2>4, <3>1, <4>1 DEF PeerOK, TurnsAreOwn
      <4>2. CASE i = Len(Sent(c)) + 1
        BY <2>1, <2>4, <4>2
      <4> QED
        BY <2>4, <4>1, <4>2
    <3>2. Sent(c)' = s
      BY <2>3 DEF s
    <3> QED
      BY <1>1, <1>9, <3>1, <3>2 DEF TurnsAreOwn, IsTurn, Waiting
  <2>6. TurnsInOrder(c)'
    <3>1. stored \in Nat /\ stored <= seen[c] /\ Ordered(Sent(c), stored, seen[c])
      BY <1>0, <2>2, IdsKnown DEF PeerOK, TurnsInOrder
    <3>2. Sent(c) \in Seq(Messages) /\ seen[c] \in Nat
      BY <1>0 DEF MessagesOK
    <3> HIDE DEF stored, t, m
    <3>3. stored <= Head(down[c]).id /\ stored <= stored
      BY <1>4, <3>1, <3>2 DEF m
    <3>4. Ordered(Sent(c), stored, m.id)
      BY <1>4, <3>1, <3>2, <3>3, PartRefl, OrderedPart
    <3>5. Ordered(Append(Sent(c), t), stored, m.id)
      BY <1>4, <2>1, <3>1, <3>2, <3>3, <3>4, OrderedAppend DEF m
    <3>6. turns'[player_id_'[c] + 1].state_id = stored /\ seen'[c] = m.id
      BY <1>1, <1>2, PeerLeaves DEF stored
    <3> QED
      BY <2>3, <3>3, <3>5, <3>6 DEF TurnsInOrder, Ordered, Stamped, Stamp, m
  <2>7. PeerOK(c)'
    BY <1>5, <1>7, <2>5, <2>6 DEF PeerOK
  <2>8. Ids(c)' \subseteq Ids(c)
    BY <1>1, <1>6, <2>2 DEF Ids
  <2> QED
    BY <1>2, <2>7, <2>8, PeerLeaves, OneMoves
<1> QED
  BY <1>8, <1>9

\* The end of a peer.
LEMMA PeerEndsTInv ==
  ASSUME TInv, NEW c \in Peers, TakeFinish(c) \/ Die(c)
  PROVE  TInv'
<1>0. IInv /\ PeerTypeOK /\ NetTypeOK
  BY DEF TInv, IInv, TypeOK
<1>1. /\ up' = up /\ player_id_' = player_id_ /\ seen' = seen
      /\ peer'[c] \in {"gone", "finished"}
      /\ \/ down'[c] = <<>>
         \/ down[c] # <<>> /\ down'[c] = Tail(down[c])
  BY <1>0 DEF TakeFinish, Die, PeerTypeOK, NetTypeOK
<1>2. PeerStep(c)
  BY DEF PeerStep
<1>3. Part(Given(c)', Given(c)) /\ SendsNothing(c)
  BY <1>0, <1>1, <1>2, PeerLeaves, GivenLess DEF SendsNothing
<1>4. Quiet(c)
  BY <1>1, <1>2, <1>3, PeerLeaves, QuietPeer DEF Waiting
<1> QED
  BY <1>2, <1>4, PeerLeaves, QuietKeeps, QuietIds, OneMoves DEF TInv

-----------------------------------------------------------------------------
(* The invariant *)

\* Every step of the server and its peers.
LEMMA NextTInv == TInv /\ [Next]_vars => TInv'
<1> SUFFICES ASSUME TInv, [Next]_vars PROVE TInv'
  OBVIOUS
<1>1. CASE GameThread
  BY <1>1, GameThreadTInv
<1>2. CASE IoThread
  BY <1>2, IoThreadTInv
<1>3. ASSUME NEW p \in Peers, Join(p) \/ Reads(p) \/ Die(p)
      PROVE  TInv'
  BY <1>3, JoinTInv, ConfirmedTInv, TakeStateTInv, PeerEndsTInv DEF Reads
<1>4. CASE UNCHANGED vars
  <2>1. IInv' /\ state_id \in Nat
    BY <1>4, StutterIInv DEF TInv, IInv, TypeOK, StateTypeOK
  <2>2. /\ UNCHANGED <<ioVars, netVars, peerVars>> /\ next_id' = next_id /\ turns' = turns
        /\ state_id <= state_id'
    BY <1>4, <2>1 DEF vars, stateVars
  <2> QED
    BY <2>1, <2>2, LeftAlone
<1> QED
  BY <1>1, <1>2, <1>3, <1>4 DEF Next

\* The order of states and turns holds in every reachable state.
THEOREM OrderInvariance == Spec => []TInv
BY InitTInv, NextTInv, PTL DEF Spec

\* The only steps that change a stored turn.
LEMMA TurnsChange ==
  ASSUME IInv, [Next]_vars, ~AddTurn, NEW i \in DOMAIN turns
  PROVE  turns'[i].state_id = turns[i].state_id
<1>0. /\ turns \in Seq(Turn) /\ next_id = Len(turns)
  BY DEF IInv, TypeOK, StateTypeOK, TurnsMatchPlayers
<1>1. CASE AddPlayer
  <2> DEFINE t == [NoTurn EXCEPT !.player_id = next_id]
  <2>1. NoTurn \in Turn /\ t \in Turn
    BY <1>0 DEF NoTurn, Turn, Accelerations
  <2>2. turns' = [Append(turns, NoTurn) EXCEPT ![Len(turns) + 1] = t]
    BY <1>0, <1>1 DEF AddPlayer, TurnsWithNewPlayer
  <2> HIDE DEF t
  <2>3. turns' = Append(turns, t)
    BY <1>0, <2>1, <2>2, AppendedThenSet
  <2> QED
    BY <1>0, <2>1, <2>3, Appended
<1>2. CASE GameThread
  BY <1>2 DEF GameThread, CheckPlayersCount, BeginState, BeginFinish, SendToNext,
              SendReadsFreedMemory, ClientsDone, ViewersDone, Emulate, FilterTurns, Stop, stateVars
<1>3. CASE IoThread /\ ~AddPlayer
  BY <1>3 DEF IoThread, LoopTop, Poll, BatchDone, Accept, OnError, OnOutput, OnOutputFails,
              OnInput, ReceiveMessage, InputDrained, EndOfFile, RecvFails, RefusePlayer,
              GetPlayerSpins, SendConfirmation, stateVars
<1>4. ASSUME NEW p \in Peers, Join(p) \/ Reads(p) \/ Die(p)
      PROVE  turns' = turns
  BY <1>4 DEF Join, Reads, Confirmed, TakeState, TakeFinish, Die, stateVars
<1>5. CASE UNCHANGED vars
  BY <1>5 DEF vars, stateVars
<1> QED
  BY <1>1, <1>2, <1>3, <1>4, <1>5 DEF Next

\* A step of AddTurn stores a turn of the Gamer that sent it, for the same state as
\* the stored turn or a later one.
LEMMA AddTurnStores ==
  ASSUME TInv, AddTurn, NEW i \in DOMAIN turns
  PROVE  /\ turns'[i].state_id >= turns[i].state_id
         /\ turns'[i].state_id # turns[i].state_id => player_id_[current.conn] = i - 1
<1>0. turns \in Seq(Turn)
  BY DEF TInv, IInv, TypeOK, StateTypeOK
<1>1. PICK t \in Turn :
        /\ player_id_[current.conn] = t.player_id
        /\ turns' = [turns EXCEPT ![t.player_id + 1] = t]
        /\ t.player_id \in Nat /\ t.state_id \in Nat
        /\ turns[t.player_id + 1].state_id <= t.state_id
        /\ turns[t.player_id + 1].state_id \in Nat
  <2>1. current.msg.turn \in Turn
    BY DEF TInv, IInv, HandledKnown, AddTurn, KnownUp, UpMessage
  <2> QED
    BY <2>1, AddTurnFacts
<1>2. CASE i = t.player_id + 1
  BY <1>0, <1>1, <1>2
<1>3. CASE i # t.player_id + 1
  <2>1. turns[i] \in Turn /\ turns'[i] = turns[i]
    BY <1>0, <1>1, <1>3
  <2> QED
    BY <2>1 DEF Turn
<1> QED
  BY <1>2, <1>3

\* A player's turn is replaced only while a message of its own Gamer is handled, for
\* any number of Gamers, also when confirmations are delayed, lost or refused.
THEOREM OwnTurns == Spec => OwnTurnOnly
<1>1. ASSUME TInv, [Next]_vars
      PROVE  [\A i \in DOMAIN turns :
                turns'[i].state_id # turns[i].state_id => player_id_[current.conn] = i - 1]_vars
  BY <1>1, TurnsChange, AddTurnStores DEF TInv
<1> QED
  BY <1>1, OrderInvariance, PTL DEF Spec, OwnTurnOnly

\* A stored turn is never replaced by a turn for an earlier state, however the pipes
\* of the Gamers are filled, read and dropped.
THEOREM TurnOrder == Spec => TurnsNeverGoBack
<1>1. ASSUME TInv, [Next]_vars
      PROVE  [\A i \in DOMAIN turns : turns'[i].state_id >= turns[i].state_id]_vars
  <2> SUFFICES ASSUME NEW i \in DOMAIN turns
               PROVE  turns'[i].state_id >= turns[i].state_id
    OBVIOUS
  <2>1. turns[i].state_id \in Nat
    <3>1. turns \in Seq(Turn)
      BY <1>1 DEF TInv, IInv, TypeOK, StateTypeOK
    <3>2. turns[i] \in Turn
      BY <3>1
    <3> QED
      BY <3>2 DEF Turn
  <2>2. CASE AddTurn
    BY <1>1, <2>2, AddTurnStores
  <2>3. CASE ~AddTurn
    BY <1>1, <2>1, <2>3, TurnsChange DEF TInv
  <2> QED
    BY <2>2, <2>3
<1> QED
  BY <1>1, OrderInvariance, PTL DEF Spec, TurnsNeverGoBack

-----------------------------------------------------------------------------
(***************************************************************************)
(* The streams                                                             *)
(*                                                                         *)
(* GameServer implements ObserverStream, for every set of peers and every  *)
(* limit: the two threads, the queues, the sockets and the peers together  *)
(* give every observer every state from its subscription on, in order and  *)
(* without a gap.                                                          *)
(*                                                                         *)
(* The states on their way to a peer continue what it has taken, and end   *)
(* just before the state that the send loop will give it next. Which one   *)
(* that is depends on where the loop is: NextSent.                         *)
(***************************************************************************)

\* The stamped messages of s are those for the states from..(to - 1), in order.
Chain(s, from, to) ==
  /\ from <= to
  /\ \A i \in DOMAIN s : Stamped(s[i]) =>
       /\ from <= Stamp(s[i]) /\ Stamp(s[i]) < to
       /\ \A j \in DOMAIN s : i < j /\ Stamped(s[j]) => Stamp(s[i]) < Stamp(s[j])
  /\ \A v \in from..(to - 1) : \E i \in DOMAIN s : Stamped(s[i]) /\ Stamp(s[i]) = v

IsClient(p) == \E i \in DOMAIN client_ids_ : client_ids_[i] = p
IsViewer(p) == \E i \in DOMAIN viewer_ids_ : viewer_ids_[i] = p

\* The game thread has still to send the current state to p in this round.
StillToSend(p) ==
  \/ gpc = "stateToClients" /\ \E i \in sendPos..sendEnd : client_ids_[i] = p
  \/ gpc = "stateToClients" /\ IsViewer(p)
  \/ gpc = "stateToViewers" /\ \E i \in sendPos..sendEnd : viewer_ids_[i] = p
NextSent(p) == IF StillToSend(p) THEN state_id ELSE state_id + 1

\* The states p may be given next, and a peer that still takes them.
DueTo(p) == IF seen[p] = 0 THEN {since[p], since[p] + 1} ELSE {seen[p] + 1}
Live(p) == peer[p] \notin {"finished", "gone"}

\* An observer's stream goes on where it stopped.
FlowOK(p) ==
  p \in Subscribed /\ Live(p) =>
    \E n \in DueTo(p) : n >= 1 /\ Chain(Given(p), n, NextSent(p))

\* Before it subscribes a peer is given no state.
UnsubscribedOK(p) ==
  p \notin Subscribed =>
    seen[p] = 0 /\ \A i \in DOMAIN Given(p) : ~Stamped(Given(p)[i])

\* A peer asks once, before everything else it sends.
RequestOK(p) ==
  /\ peer[p] = "new" => p \notin Subscribed
  /\ \A i \in DOMAIN up[p] : up[p][i].type # "TURN" => i = 1 /\ p \notin Subscribed

\* The server closes only connections whose peer is gone.
ConnOK(p) ==
  /\ peer[p] = "new" => conn[p] = "none"
  /\ conn[p] = "closed" => peer[p] = "gone"
  /\ p \in Subscribed => conn[p] \in {"open", "closed"}

EventsOK ==
  /\ \A e \in events : e.conn \in Peers =>
       conn[e.conn] \in {"open", "closed"} /\ (e.kind = "error" => peer[e.conn] = "gone")
  /\ ipc \in Handling => conn[current.conn] \in {"open", "closed"}

\* A send loop is within the vector it ranges over.
LoopOK ==
  /\ gpc \in {"stateToClients", "finishToClients"} => sendEnd <= Len(client_ids_)
  /\ gpc \in {"stateToViewers", "finishToViewers"} => sendEnd <= Len(viewer_ids_)
  /\ gpc \in {"stateToClients", "stateToViewers"} => state_id >= 1

\* No peer is an observer twice.
OnceOK ==
  /\ \A i, j \in DOMAIN client_ids_ : client_ids_[i] = client_ids_[j] => i = j
  /\ \A i, j \in DOMAIN viewer_ids_ : viewer_ids_[i] = viewer_ids_[j] => i = j
  /\ \A i \in DOMAIN client_ids_, j \in DOMAIN viewer_ids_ : client_ids_[i] # viewer_ids_[j]

StreamOK(p) == FlowOK(p) /\ UnsubscribedOK(p) /\ RequestOK(p) /\ ConnOK(p)

SInv == IInv /\ EventsOK /\ LoopOK /\ OnceOK /\ \A p \in Peers : StreamOK(p)

-----------------------------------------------------------------------------
(* Chains of states *)

\* Nothing is a chain of no states.
LEMMA ChainEmpty ==
  ASSUME NEW s, \A i \in DOMAIN s : ~Stamped(s[i]), NEW n \in Nat
  PROVE  Chain(s, n, n)
BY DEF Chain

\* The first message is taken: it is the first of the states, or none of them.
LEMMA ChainTail ==
  ASSUME NEW s \in Seq(Messages), s # <<>>, NEW from \in Nat, NEW to \in Nat,
         Chain(s, from, to)
  PROVE  /\ ~Stamped(Head(s)) => Chain(Tail(s), from, to)
         /\ Stamped(Head(s)) =>
              Stamp(Head(s)) = from /\ from < to /\ Chain(Tail(s), from + 1, to)
<1> DEFINE t == Tail(s)
           h == Head(s)
<1>1. t \in Seq(Messages) /\ Len(t) = Len(s) - 1 /\ Len(s) \in Nat /\ Len(s) >= 1
      /\ h = s[1] /\ \A i \in 1..Len(t) : t[i] = s[i + 1]
  BY HeadTailProperties, EmptySeq
<1> HIDE DEF t, h
<1>2. /\ 1 \in DOMAIN s
      /\ \A i \in DOMAIN t : i + 1 \in DOMAIN s /\ t[i] = s[i + 1] /\ 1 < i + 1
      /\ \A i \in DOMAIN s : i # 1 => i - 1 \in DOMAIN t /\ t[i - 1] = s[i]
  BY <1>1
<1>3. \A i \in DOMAIN s : s[i] \in Messages
  OBVIOUS
<1>4. \A i \in DOMAIN s : Stamped(s[i]) => Stamp(s[i]) \in Nat
  BY <1>3, StampNat
<1>5. \A i \in DOMAIN t, j \in DOMAIN t :
        i < j /\ Stamped(t[i]) /\ Stamped(t[j]) => Stamp(t[i]) < Stamp(t[j])
  <2> SUFFICES ASSUME NEW i \in DOMAIN t, NEW j \in DOMAIN t, i < j,
                      Stamped(t[i]), Stamped(t[j])
               PROVE  Stamp(t[i]) < Stamp(t[j])
    OBVIOUS
  <2>1. i + 1 < j + 1
    BY <1>1
  <2> QED
    BY <1>2, <2>1 DEF Chain
<1>6. ASSUME ~Stamped(h)
      PROVE  Chain(t, from, to)
  <2>1. \A i \in DOMAIN t : Stamped(t[i]) => from <= Stamp(t[i]) /\ Stamp(t[i]) < to
    BY <1>2 DEF Chain
  <2>2. ASSUME NEW v \in from..(to - 1)
        PROVE  \E i \in DOMAIN t : Stamped(t[i]) /\ Stamp(t[i]) = v
    <3>1. PICK i \in DOMAIN s : Stamped(s[i]) /\ Stamp(s[i]) = v
      BY DEF Chain
    <3> QED
      BY <1>1, <1>2, <1>6, <3>1
  <2> QED
    BY <1>5, <2>1, <2>2 DEF Chain
<1>7. ASSUME Stamped(h)
      PROVE  Stamp(h) = from /\ from < to /\ Chain(t, from + 1, to)
  <2>1. Stamp(h) \in Nat /\ from <= Stamp(h) /\ Stamp(h) < to
    BY <1>1, <1>2, <1>4, <1>7 DEF Chain
  <2>2. Stamp(h) = from
    <3>1. from \in from..(to - 1)
      BY <2>1
    <3>2. PICK i \in DOMAIN s : Stamped(s[i]) /\ Stamp(s[i]) = from
      BY <3>1 DEF Chain
    <3>3. CASE i = 1
      BY <1>1, <3>2, <3>3
    <3>4. CASE i # 1
      <4>1. 1 < i
        BY <1>1, <3>4
      <4>2. Stamp(h) < Stamp(s[i])
        BY <1>1, <1>2, <1>7, <3>2, <4>1 DEF Chain
      <4> QED
        BY <2>1, <3>2, <4>2
    <3> QED
      BY <3>3, <3>4
  <2>3. \A i \in DOMAIN t : Stamped(t[i]) => from + 1 <= Stamp(t[i]) /\ Stamp(t[i]) < to
    <3> SUFFICES ASSUME NEW i \in DOMAIN t, Stamped(t[i])
                 PROVE  from + 1 <= Stamp(t[i]) /\ Stamp(t[i]) < to
      OBVIOUS
    <3>1. Stamp(h) < Stamp(t[i]) /\ Stamp(t[i]) < to /\ Stamp(t[i]) \in Nat
      BY <1>1, <1>2, <1>4, <1>7 DEF Chain
    <3> QED
      BY <2>2, <3>1
  <2>4. ASSUME NEW v \in (from + 1)..(to - 1)
        PROVE  \E i \in DOMAIN t : Stamped(t[i]) /\ Stamp(t[i]) = v
    <3>1. PICK i \in DOMAIN s : Stamped(s[i]) /\ Stamp(s[i]) = v
      BY DEF Chain
    <3>2. i # 1
      BY <1>1, <2>2, <3>1
    <3> QED
      BY <1>2, <3>1, <3>2
  <2> QED
    BY <1>5, <2>1, <2>2, <2>3, <2>4 DEF Chain
<1> QED
  BY <1>6, <1>7 DEF t, h

\* A message is appended: the next state, or none.
LEMMA ChainAppend ==
  ASSUME NEW s \in Seq(Messages), NEW m \in Messages, NEW from \in Nat, NEW to \in Nat,
         Chain(s, from, to)
  PROVE  /\ ~Stamped(m) => Chain(Append(s, m), from, to)
         /\ Stamped(m) /\ Stamp(m) = to => Chain(Append(s, m), from, to + 1)
<1> DEFINE a == Append(s, m)
<1>1. /\ DOMAIN a = 1..(Len(s) + 1) /\ DOMAIN s = 1..Len(s) /\ Len(s) \in Nat
      /\ \A i \in 1..Len(s) : a[i] = s[i]
      /\ a[Len(s) + 1] = m
  BY Appended
<1> HIDE DEF a
<1>2. \A i \in DOMAIN s : s[i] \in Messages
  OBVIOUS
<1>3. \A i \in DOMAIN s : Stamped(s[i]) =>
        Stamp(s[i]) \in Nat /\ from <= Stamp(s[i]) /\ Stamp(s[i]) < to
  BY <1>2, StampNat DEF Chain
<1>4. \A i, j \in DOMAIN s : i < j /\ Stamped(s[i]) /\ Stamped(s[j]) => Stamp(s[i]) < Stamp(s[j])
  BY DEF Chain
<1>5. ASSUME ~Stamped(m)
      PROVE  Chain(a, from, to)
  <2>1. \A i \in DOMAIN a : Stamped(a[i]) => i \in DOMAIN s /\ a[i] = s[i]
    BY <1>1, <1>5
  <2>2. ASSUME NEW v \in from..(to - 1)
        PROVE  \E i \in DOMAIN a : Stamped(a[i]) /\ Stamp(a[i]) = v
    <3>1. PICK i \in DOMAIN s : Stamped(s[i]) /\ Stamp(s[i]) = v
      BY DEF Chain
    <3> QED
      BY <1>1, <3>1
  <2> QED
    BY <1>3, <1>4, <2>1, <2>2 DEF Chain
<1>6. ASSUME Stamped(m), Stamp(m) = to
      PROVE  Chain(a, from, to + 1)
  <2>1. from <= to
    BY DEF Chain
  <2>2. \A i \in DOMAIN a : Stamped(a[i]) => from <= Stamp(a[i]) /\ Stamp(a[i]) < to + 1
    <3> SUFFICES ASSUME NEW i \in DOMAIN a, Stamped(a[i])
                 PROVE  from <= Stamp(a[i]) /\ Stamp(a[i]) < to + 1
      OBVIOUS
    <3>1. CASE i \in 1..Len(s)
      BY <1>1, <1>3, <3>1
    <3>2. CASE i = Len(s) + 1
      BY <1>1, <1>6, <2>1, <3>2
    <3> QED
      BY <1>1, <3>1, <3>2
  <2>3. \A i, j \in DOMAIN a : i < j /\ Stamped(a[i]) /\ Stamped(a[j]) => Stamp(a[i]) < Stamp(a[j])
    <3> SUFFICES ASSUME NEW i \in DOMAIN a, NEW j \in DOMAIN a, i < j,
                        Stamped(a[i]), Stamped(a[j])
                 PROVE  Stamp(a[i]) < Stamp(a[j])
      OBVIOUS
    <3>1. i \in DOMAIN s /\ a[i] = s[i]
      BY <1>1
    <3>2. CASE j \in 1..Len(s)
      BY <1>1, <1>4, <3>1, <3>2
    <3>3. CASE j = Len(s) + 1
      BY <1>1, <1>3, <1>6, <3>1, <3>3
    <3> QED
      BY <1>1, <3>2, <3>3
  <2>4. ASSUME NEW v \in from..((to + 1) - 1)
        PROVE  \E i \in DOMAIN a : Stamped(a[i]) /\ Stamp(a[i]) = v
    <3>1. CASE v = to
      <4>1. Len(s) + 1 \in DOMAIN a
        BY <1>1
      <4> QED
        BY <1>1, <1>6, <3>1, <4>1
    <3>2. CASE v # to
      <4>1. v \in from..(to - 1)
        BY <3>2
      <4>2. PICK i \in DOMAIN s : Stamped(s[i]) /\ Stamp(s[i]) = v
        BY <4>1 DEF Chain
      <4> QED
        BY <1>1, <4>2
    <3> QED
      BY <3>1, <3>2
  <2>5. from <= to + 1
    BY <2>1
  <2>6. \A i \in DOMAIN a : Stamped(a[i]) =>
          /\ from <= Stamp(a[i]) /\ Stamp(a[i]) < to + 1
          /\ \A j \in DOMAIN a : i < j /\ Stamped(a[j]) => Stamp(a[i]) < Stamp(a[j])
    BY <2>2, <2>3
  <2> QED
    BY <2>4, <2>5, <2>6, Zenon DEF Chain
<1> QED
  BY <1>5, <1>6 DEF a

-----------------------------------------------------------------------------
(* One peer in one step *)

\* What the proofs need of the types.
TypesOK(p) ==
  /\ MessagesOK(p) /\ since[p] \in Nat /\ NextSent(p) \in Nat
  /\ client_ids_ \in Seq(Peers) /\ viewer_ids_ \in Seq(Peers)
  /\ sendPos \in Nat \ {0} /\ sendEnd \in Nat

\* What the type invariant says of the peers and of the positions of the send loops.
LEMMA StreamTypes ==
  ASSUME IInv, NEW p \in Peers
  PROVE  TypesOK(p)
<1>1. MessagesOK(p)
  BY PipesAreMessages DEF AllMessagesOK
<1>2. since[p] \in Nat /\ state_id \in Nat /\ client_ids_ \in Seq(Peers) /\ viewer_ids_ \in Seq(Peers)
      /\ sendPos \in Nat \ {0} /\ sendEnd \in Nat
  BY DEF IInv, TypeOK, ObsTypeOK, StateTypeOK, GameTypeOK
<1> QED
  BY <1>1, <1>2 DEF TypesOK, NextSent

\* A step in which p's stream stands still: it takes nothing and is sent nothing.
LEMMA StillStream ==
  ASSUME SInv, NEW p \in Peers, StreamOK(p),
         (p \in Subscribed)' <=> p \in Subscribed, since'[p] = since[p],
         p \in Subscribed => NextSent(p)' = NextSent(p),
         seen'[p] = seen[p], peer'[p] = "new" => peer[p] = "new", Live(p)' => Live(p),
         Part(up'[p], up[p]), up'[p] \in Seq(Messages), ConnOK(p)',
         Part(Given(p)', Given(p)), Live(p)' => Given(p)' = Given(p)
  PROVE  StreamOK(p)'
<1>0. TypesOK(p)
  BY StreamTypes DEF SInv
<1>1. FlowOK(p)'
  <2> SUFFICES ASSUME (p \in Subscribed)', Live(p)'
               PROVE  \E n \in DueTo(p)' : n >= 1 /\ Chain(Given(p)', n, NextSent(p)')
    BY DEF FlowOK, Chain, Stamped, Stamp
  <2>1. DueTo(p)' = DueTo(p)
    BY DEF DueTo
  <2>2. PICK n \in DueTo(p) : n >= 1 /\ Chain(Given(p), n, NextSent(p))
    BY DEF StreamOK, FlowOK
  <2> QED
    BY <2>1, <2>2
<1>2. UnsubscribedOK(p)'
  <2> SUFFICES ASSUME p \notin Subscribed
               PROVE  seen[p] = 0 /\ \A i \in DOMAIN Given(p)' : ~Stamped(Given(p)'[i])
    BY DEF UnsubscribedOK, Stamped
  <2>1. seen[p] = 0 /\ \A i \in DOMAIN Given(p) : ~Stamped(Given(p)[i])
    BY DEF StreamOK, UnsubscribedOK
  <2> QED
    BY <2>1, PartElement
<1>3. RequestOK(p)'
  <2>1. PICK k \in Nat : \A i \in DOMAIN up'[p] : i + k \in DOMAIN up[p] /\ up'[p][i] = up[p][i + k]
    BY DEF Part
  <2>2. \A i \in DOMAIN up'[p] : i \in Nat /\ i >= 1
    OBVIOUS
  <2>3. \A i \in DOMAIN up'[p] : up'[p][i].type # "TURN" => i = 1 /\ p \notin Subscribed
    <3> SUFFICES ASSUME NEW i \in DOMAIN up'[p], up'[p][i].type # "TURN"
                 PROVE  i = 1 /\ p \notin Subscribed
      OBVIOUS
    <3>1. i + k = 1 /\ p \notin Subscribed
      BY <2>1 DEF StreamOK, RequestOK
    <3> QED
      BY <2>2, <3>1
  <2> QED
    BY <2>3 DEF StreamOK, RequestOK
<1> QED
  BY <1>1, <1>2, <1>3 DEF StreamOK

\* A step that sends p a message: the state that is due, or none.
LEMMA SentStream ==
  ASSUME SInv, NEW c \in Peers, StreamOK(c), NEW m \in Messages, SendMessage(m, c),
         UNCHANGED <<up, down, conn, client_ids_, viewer_ids_, since>>, UNCHANGED peerVars,
         \/ ~Stamped(m) /\ NextSent(c)' = NextSent(c)
         \/ /\ Stamped(m) /\ c \in Subscribed
            /\ Stamp(m) = NextSent(c) /\ NextSent(c)' = NextSent(c) + 1
  PROVE  StreamOK(c)'
<1>0. TypesOK(c) /\ IInv
  BY StreamTypes DEF SInv
<1>1. /\ peer' = peer /\ seen' = seen /\ up' = up /\ down' = down /\ conn' = conn
      /\ (c \in Subscribed)' <=> c \in Subscribed
      /\ Live(c)' = Live(c) /\ DueTo(c)' = DueTo(c)
  BY DEF peerVars, Subscribed, Live, DueTo
<1>2. conn[c] # "open" => Given(c)' = Given(c)
  BY <1>1 DEF SendMessage, Given
<1>3. conn[c] = "open" => Given(c)' = Append(Given(c), m)
  BY <1>0, <1>1, GivenSent
<1>4. FlowOK(c)'
  <2> SUFFICES ASSUME c \in Subscribed, Live(c)
               PROVE  \E n \in DueTo(c) : n >= 1 /\ Chain(Given(c)', n, NextSent(c)')
    BY <1>1 DEF FlowOK, Chain, Stamped, Stamp
  <2>1. conn[c] = "open"
    BY DEF StreamOK, ConnOK, Live
  <2>2. PICK n \in DueTo(c) : n >= 1 /\ Chain(Given(c), n, NextSent(c))
    BY DEF StreamOK, FlowOK
  <2>3. n \in Nat
    BY <1>0 DEF DueTo, TypesOK, MessagesOK
  <2>4. Chain(Append(Given(c), m), n, NextSent(c)')
    BY <1>0, <2>2, <2>3, ChainAppend DEF TypesOK, MessagesOK
  <2> QED
    BY <1>3, <2>1, <2>2, <2>4
<1>5. UnsubscribedOK(c)'
  <2> SUFFICES ASSUME c \notin Subscribed
               PROVE  seen[c] = 0 /\ \A i \in DOMAIN Given(c)' : ~Stamped(Given(c)'[i])
    BY <1>1 DEF UnsubscribedOK, Stamped
  <2>1. seen[c] = 0 /\ ~Stamped(m) /\ \A i \in DOMAIN Given(c) : ~Stamped(Given(c)[i])
    BY DEF StreamOK, UnsubscribedOK
  <2>2. CASE conn[c] # "open"
    BY <1>2, <2>1, <2>2
  <2>3. CASE conn[c] = "open"
    <3> DEFINE a == Append(Given(c), m)
    <3>1. /\ DOMAIN a = 1..(Len(Given(c)) + 1) /\ DOMAIN Given(c) = 1..Len(Given(c))
          /\ Len(Given(c)) \in Nat /\ \A i \in 1..Len(Given(c)) : a[i] = Given(c)[i]
          /\ a[Len(Given(c)) + 1] = m
      BY <1>0, Appended DEF TypesOK, MessagesOK
    <3>2. Given(c)' = a
      BY <1>3, <2>3
    <3> HIDE DEF a
    <3>3. \A i \in DOMAIN a : ~Stamped(a[i])
      <4> SUFFICES ASSUME NEW i \in DOMAIN a PROVE ~Stamped(a[i])
        OBVIOUS
      <4>1. CASE i \in 1..Len(Given(c))
        BY <2>1, <3>1, <4>1
      <4>2. CASE i = Len(Given(c)) + 1
        BY <2>1, <3>1, <4>2
      <4> QED
        BY <3>1, <4>1, <4>2
    <3> QED
      BY <2>1, <3>2, <3>3
  <2> QED
    BY <2>2, <2>3
<1>6. RequestOK(c)' /\ ConnOK(c)'
  BY <1>1 DEF StreamOK, RequestOK, ConnOK
<1> QED
  BY <1>4, <1>5, <1>6 DEF StreamOK

\* The server starts without observers.
LEMMA InitSInv == Init => SInv
<1> SUFFICES ASSUME Init PROVE SInv
  OBVIOUS
<1>1. IInv
  BY InitIInv
<1>2. EventsOK /\ LoopOK /\ OnceOK /\ Subscribed = {}
  BY DEF Init, EventsOK, LoopOK, OnceOK, Subscribed, Handling
<1>3. ASSUME NEW p \in Peers
      PROVE  StreamOK(p)
  <2>1. Given(p) = <<>> /\ up[p] = <<>> /\ seen[p] = 0 /\ peer[p] = "new" /\ conn[p] = "none"
    BY DEF Init, Given
  <2> QED
    BY <1>2, <2>1 DEF StreamOK, FlowOK, UnsubscribedOK, RequestOK, ConnOK
<1> QED
  BY <1>1, <1>2, <1>3 DEF SInv

-----------------------------------------------------------------------------
(* The game thread *)

\* The peers and the observers are as before.
LEMMA SameObservers ==
  ASSUME SInv, UNCHANGED <<ioVars, obsVars, conn, up, peerVars>>
  PROVE  /\ EventsOK' /\ OnceOK' /\ Subscribed' = Subscribed
         /\ \A p \in Peers : ConnOK(p)' /\ Live(p)' = Live(p) /\ IsViewer(p)' = IsViewer(p)
<1>1. /\ UNCHANGED <<events, ipc, current>> /\ conn' = conn /\ peer' = peer
      /\ client_ids_' = client_ids_ /\ viewer_ids_' = viewer_ids_
  BY DEF ioVars, obsVars, peerVars
<1>2. EventsOK'
  BY <1>1 DEF SInv, EventsOK
<1>3. OnceOK'
  BY <1>1 DEF SInv, OnceOK
<1>4. Subscribed' = Subscribed
  BY <1>1 DEF Subscribed
<1>5. ASSUME NEW p \in Peers
      PROVE  ConnOK(p)' /\ Live(p)' = Live(p) /\ IsViewer(p)' = IsViewer(p)
  BY <1>1, <1>4 DEF SInv, StreamOK, ConnOK, Live, IsViewer
<1> QED
  BY <1>2, <1>3, <1>4, <1>5

\* A step of the game thread that sends nothing.
LEMMA SendsNoState ==
  ASSUME SInv, IInv', UNCHANGED <<ioVars, obsVars, netVars, peerVars>>, LoopOK',
         \A p \in Peers : p \in Subscribed => NextSent(p)' = NextSent(p)
  PROVE  SInv'
<1>0. UNCHANGED <<ioVars, obsVars, conn, up, peerVars>> /\ up' = up /\ down' = down /\ output' = output
      /\ since' = since /\ seen' = seen /\ peer' = peer
  BY DEF netVars, obsVars, peerVars
<1>1. ASSUME NEW p \in Peers
      PROVE  StreamOK(p)'
  <2>1. TypesOK(p)
    BY StreamTypes DEF SInv
  <2>2. Given(p)' = Given(p) /\ Part(Given(p)', Given(p)) /\ Part(up'[p], up[p])
        /\ up'[p] \in Seq(Messages)
    BY <1>0, <2>1, PartRefl DEF Given, TypesOK, MessagesOK
  <2> QED
    BY <1>0, <2>2, SameObservers, StillStream DEF SInv
<1> QED
  BY <1>0, <1>1, SameObservers DEF SInv

\* An observer is in one vector, at one place.
LEMMA OnePlace ==
  ASSUME SInv, NEW p
  PROVE  /\ p \in Subscribed <=> IsClient(p) \/ IsViewer(p)
         /\ ~(IsClient(p) /\ IsViewer(p))
BY DEF SInv, OnceOK, IsClient, IsViewer, Subscribed

\* A new round: every observer is due the state that was next.
LEMMA BeginStateSInv ==
  ASSUME SInv, IInv', BeginState
  PROVE  SInv'
<1>0. /\ IInv /\ state_id \in Nat /\ client_ids_ \in Seq(Peers) /\ viewer_ids_ \in Seq(Peers)
  BY DEF SInv, IInv, TypeOK, StateTypeOK, ObsTypeOK
<1>1. /\ UNCHANGED <<ioVars, obsVars, netVars, peerVars>>
      /\ gpc = "looping" /\ gpc' = "stateToClients" /\ state_id' = state_id + 1
      /\ sendPos' = 1 /\ sendEnd' = Len(client_ids_)
      /\ client_ids_' = client_ids_ /\ viewer_ids_' = viewer_ids_
  BY DEF BeginState, obsVars
<1>2. LoopOK'
  BY <1>0, <1>1 DEF LoopOK
<1>3. ASSUME NEW p \in Peers, p \in Subscribed
      PROVE  NextSent(p)' = NextSent(p)
  <2>1. ~StillToSend(p)
    BY <1>1 DEF StillToSend
  <2>2. StillToSend(p)'
    <3>1. CASE IsViewer(p)
      BY <1>1, <3>1 DEF StillToSend, IsViewer
    <3>2. CASE IsClient(p)
      <4>1. PICK i \in DOMAIN client_ids_ : client_ids_[i] = p
        BY <3>2 DEF IsClient
      <4>2. i \in sendPos'..sendEnd' /\ client_ids_'[i] = p
        BY <1>0, <1>1, <4>1
      <4> QED
        BY <1>1, <4>2 DEF StillToSend
    <3> QED
      BY <1>3, <3>1, <3>2, OnePlace
  <2> QED
    BY <1>1, <2>1, <2>2 DEF NextSent
<1> QED
  BY <1>1, <1>2, <1>3, SendsNoState

\* Every client has the state, every viewer is still due it.
LEMMA ClientsDoneSInv ==
  ASSUME SInv, IInv', ClientsDone
  PROVE  SInv'
<1>0. /\ state_id \in Nat /\ client_ids_ \in Seq(Peers) /\ viewer_ids_ \in Seq(Peers)
      /\ sendPos \in Nat /\ sendEnd \in Nat /\ LoopOK
  BY DEF SInv, IInv, TypeOK, StateTypeOK, ObsTypeOK, GameTypeOK
<1>1. /\ UNCHANGED <<ioVars, obsVars, netVars, peerVars>>
      /\ gpc \in {"stateToClients", "finishToClients"} /\ sendPos > sendEnd
      /\ gpc' = IF gpc = "stateToClients" THEN "stateToViewers" ELSE "finishToViewers"
      /\ sendPos' = 1 /\ sendEnd' = Len(viewer_ids_)
      /\ client_ids_' = client_ids_ /\ viewer_ids_' = viewer_ids_ /\ state_id' = state_id
  BY DEF ClientsDone, obsVars, stateVars
<1>2. LoopOK'
  BY <1>0, <1>1 DEF LoopOK
<1>3. ASSUME NEW p \in Peers
      PROVE  StillToSend(p)' <=> StillToSend(p)
  <2>1. StillToSend(p) <=> gpc = "stateToClients" /\ IsViewer(p)
    BY <1>0, <1>1 DEF StillToSend
  <2>2. StillToSend(p)' <=> gpc = "stateToClients" /\ \E i \in 1..Len(viewer_ids_) : viewer_ids_[i] = p
    BY <1>1 DEF StillToSend
  <2>3. IsViewer(p) <=> \E i \in 1..Len(viewer_ids_) : viewer_ids_[i] = p
    BY <1>0 DEF IsViewer
  <2> QED
    BY <2>1, <2>2, <2>3
<1>4. ASSUME NEW p \in Peers
      PROVE  NextSent(p)' = NextSent(p)
  BY <1>1, <1>3 DEF NextSent
<1> QED
  BY <1>1, <1>2, <1>4, SendsNoState

\* The steps outside the send loops, and the end of the second one.
LEMMA GameMovesSInv ==
  ASSUME SInv, IInv',
         CheckPlayersCount \/ BeginFinish \/ ViewersDone \/ Emulate \/ Stop \/ SendReadsFreedMemory
  PROVE  SInv'
<1>0. /\ state_id \in Nat /\ client_ids_ \in Seq(Peers) /\ viewer_ids_ \in Seq(Peers)
      /\ sendPos \in Nat /\ sendEnd \in Nat /\ LoopOK /\ (gpc = "waiting" => state_id = 0)
  BY DEF SInv, IInv, TypeOK, StateTypeOK, ObsTypeOK, GameTypeOK
<1>1. /\ UNCHANGED <<ioVars, obsVars, netVars, peerVars>>
      /\ client_ids_' = client_ids_ /\ viewer_ids_' = viewer_ids_ /\ state_id' = state_id
  BY <1>0 DEF CheckPlayersCount, InitialStateId, BeginFinish, ViewersDone, Emulate, Stop,
              SendReadsFreedMemory, obsVars, stateVars
<1>2. CASE SendReadsFreedMemory
  <2>1. gpc' = gpc /\ sendPos' = sendPos /\ sendEnd' = sendEnd
    BY <1>2 DEF SendReadsFreedMemory, gameVars
  <2>2. LoopOK'
    BY <1>0, <1>1, <2>1 DEF LoopOK
  <2>3. ASSUME NEW p \in Peers
        PROVE  NextSent(p)' = NextSent(p)
    BY <1>1, <2>1 DEF NextSent, StillToSend, IsViewer
  <2> QED
    BY <1>1, <2>2, <2>3, SendsNoState
<1>3. CASE ~SendReadsFreedMemory
  <2>1. /\ gpc' \notin {"stateToClients", "stateToViewers", "finishToViewers"}
        /\ gpc # "stateToClients"
        /\ gpc = "stateToViewers" => sendPos > sendEnd
        /\ gpc' = "finishToClients" => sendEnd' = Len(client_ids_)
    BY <1>3 DEF CheckPlayersCount, BeginFinish, ViewersDone, Emulate, Stop
  <2>2. LoopOK'
    BY <1>0, <1>1, <2>1 DEF LoopOK
  <2>3. ASSUME NEW p \in Peers
        PROVE  NextSent(p)' = NextSent(p)
    <3>1. ~StillToSend(p) /\ ~StillToSend(p)'
      BY <1>0, <2>1 DEF StillToSend
    <3> QED
      BY <1>1, <3>1 DEF NextSent
  <2> QED
    BY <1>1, <2>2, <2>3, SendsNoState
<1> QED
  BY <1>2, <1>3

\* One observer is sent the state it is due, or the end.
LEMMA SendToNextSInv ==
  ASSUME SInv, IInv', SendToNext
  PROVE  SInv'
<1>0. /\ IInv /\ state_id \in Nat /\ client_ids_ \in Seq(Peers) /\ viewer_ids_ \in Seq(Peers)
      /\ sendPos \in Nat \ {0} /\ sendEnd \in Nat /\ LoopOK /\ OnceOK
  BY DEF SInv, IInv, TypeOK, StateTypeOK, ObsTypeOK, GameTypeOK
<1>1. /\ UNCHANGED <<ioVars, obsVars, conn, up, peerVars>> /\ UNCHANGED <<conn, up, down>>
      /\ gpc \in SendPhases /\ gpc' = gpc /\ sendPos <= sendEnd
      /\ sendPos' = sendPos + 1 /\ sendEnd' = sendEnd
      /\ state_id' = state_id /\ client_ids_' = client_ids_ /\ viewer_ids_' = viewer_ids_
      /\ since' = since /\ SendMessage(Outgoing, Observers[sendPos])
  BY DEF SendToNext, stateVars, obsVars
<1>2. /\ gpc \in {"stateToClients", "finishToClients"} =>
           /\ sendPos \in DOMAIN client_ids_ /\ Observers[sendPos] = client_ids_[sendPos]
           /\ \A i \in sendPos..sendEnd : i \in DOMAIN client_ids_
      /\ gpc \in {"stateToViewers", "finishToViewers"} =>
           /\ sendPos \in DOMAIN viewer_ids_ /\ Observers[sendPos] = viewer_ids_[sendPos]
           /\ \A i \in sendPos..sendEnd : i \in DOMAIN viewer_ids_
  BY <1>0, <1>1 DEF LoopOK, Observers, SendPhases
<1>3. PICK c \in Peers : c = Observers[sendPos] /\ c \in Subscribed
  <2>1. /\ \A i \in DOMAIN client_ids_ : client_ids_[i] \in Peers
        /\ \A i \in DOMAIN viewer_ids_ : viewer_ids_[i] \in Peers
    BY <1>0
  <2> QED
    BY <1>1, <1>2, <2>1 DEF Subscribed, SendPhases
<1>4. LoopOK'
  BY <1>0, <1>1 DEF LoopOK
<1>5. ASSUME NEW p \in Peers, p # c
      PROVE  NextSent(p)' = NextSent(p)
  <2>1. StillToSend(p)' <=> StillToSend(p)
    <3>1. gpc = "stateToClients" =>
            ((\E i \in sendPos..sendEnd : client_ids_[i] = p)
              <=> (\E i \in (sendPos + 1)..sendEnd : client_ids_[i] = p))
      BY <1>0, <1>1, <1>2, <1>3, <1>5
    <3>2. gpc = "stateToViewers" =>
            ((\E i \in sendPos..sendEnd : viewer_ids_[i] = p)
              <=> (\E i \in (sendPos + 1)..sendEnd : viewer_ids_[i] = p))
      BY <1>0, <1>1, <1>2, <1>3, <1>5
    <3>3. IsViewer(p)' <=> IsViewer(p)
      BY <1>1 DEF IsViewer
    <3> QED
      BY <1>1, <3>1, <3>2, <3>3 DEF StillToSend
  <2> QED
    BY <1>1, <2>1 DEF NextSent
<1>6. gpc \in {"stateToClients", "stateToViewers"} => StillToSend(c) /\ ~StillToSend(c)'
  <2>1. CASE gpc = "stateToClients"
    <3>1. sendPos \in sendPos..sendEnd /\ client_ids_[sendPos] = c
      BY <1>0, <1>1, <1>2, <1>3, <2>1
    <3>2. ASSUME NEW i \in (sendPos + 1)..sendEnd, client_ids_[i] = c
          PROVE  FALSE
      <4>1. i \in DOMAIN client_ids_ /\ sendPos \in DOMAIN client_ids_ /\ i # sendPos
        BY <1>0, <1>2, <2>1
      <4> QED
        BY <1>0, <3>1, <3>2, <4>1 DEF OnceOK
    <3>3. ~IsViewer(c)'
      <4>1. IsClient(c)
        BY <1>2, <2>1, <3>1 DEF IsClient
      <4>2. ~IsViewer(c)
        BY <4>1, OnePlace
      <4> QED
        BY <1>1, <4>2 DEF IsViewer
    <3> QED
      BY <1>1, <2>1, <3>1, <3>2, <3>3 DEF StillToSend
  <2>2. CASE gpc = "stateToViewers"
    <3>1. sendPos \in sendPos..sendEnd /\ viewer_ids_[sendPos] = c
      BY <1>0, <1>1, <1>2, <1>3, <2>2
    <3>2. ASSUME NEW i \in (sendPos + 1)..sendEnd, viewer_ids_[i] = c
          PROVE  FALSE
      <4>1. i \in DOMAIN viewer_ids_ /\ sendPos \in DOMAIN viewer_ids_ /\ i # sendPos
        BY <1>0, <1>2, <2>2
      <4> QED
        BY <1>0, <3>1, <3>2, <4>1 DEF OnceOK
    <3> QED
      BY <1>1, <2>2, <3>1, <3>2 DEF StillToSend
  <2> QED
    BY <2>1, <2>2
<1>7. StreamOK(c)'
  <2>1. StreamOK(c)
    BY DEF SInv
  <2>2. CASE gpc \in {"stateToClients", "stateToViewers"}
    <3>1. Outgoing \in Messages /\ Stamped(Outgoing) /\ Stamp(Outgoing) = state_id
      BY <1>0, <2>2 DEF Outgoing, State, Messages, DownMessage, Stamped, Stamp
    <3>2. NextSent(c) = state_id /\ NextSent(c)' = NextSent(c) + 1
      BY <1>0, <1>1, <1>6, <2>2 DEF NextSent
    <3> QED
      BY <1>1, <1>3, <2>1, <3>1, <3>2, SentStream
  <2>3. CASE gpc \notin {"stateToClients", "stateToViewers"}
    <3>1. Outgoing \in Messages /\ ~Stamped(Outgoing)
      BY <1>0, <2>3 DEF Outgoing, Finish, Messages, DownMessage, Stamped
    <3>2. NextSent(c)' = NextSent(c)
      BY <1>1, <2>3 DEF NextSent, StillToSend
    <3> QED
      BY <1>1, <1>3, <2>1, <3>1, <3>2, SentStream
  <2> QED
    BY <2>2, <2>3
<1>8. ASSUME NEW p \in Peers
      PROVE  StreamOK(p)'
  <2>1. CASE p = c
    BY <1>7, <2>1
  <2>2. CASE p # c
    <3>1. output'[p] = output[p]
      BY <1>1, <1>3, <2>2 DEF SendMessage
    <3>2. TypesOK(p)
      BY StreamTypes DEF SInv
    <3>3. Given(p)' = Given(p) /\ Part(Given(p)', Given(p)) /\ Part(up'[p], up[p])
          /\ up'[p] \in Seq(Messages)
      BY <1>1, <3>1, <3>2, PartRefl DEF Given, TypesOK, MessagesOK
    <3>4. since'[p] = since[p] /\ seen'[p] = seen[p] /\ peer'[p] = peer[p]
      BY <1>1 DEF peerVars
    <3> QED
      BY <1>1, <1>5, <2>2, <3>3, <3>4, SameObservers, StillStream DEF SInv
  <2> QED
    BY <2>1, <2>2
<1> QED
  BY <1>1, <1>4, <1>8, SameObservers DEF SInv

\* Every step of the game thread.
LEMMA GameThreadSInv ==
  ASSUME SInv, GameThread
  PROVE  SInv'
<1>1. IInv'
  BY GameThreadIInv DEF SInv
<1> QED
  BY <1>1, BeginStateSInv, ClientsDoneSInv, GameMovesSInv, SendToNextSInv DEF GameThread

-----------------------------------------------------------------------------
(* The IO thread *)

\* A step of the IO thread that subscribes and sends nothing.
LEMMA IoKeeps ==
  ASSUME SInv, IInv', UNCHANGED <<gameVars, state_id, client_ids_, viewer_ids_, since>>,
         UNCHANGED peerVars, EventsOK',
         \A p \in Peers : /\ ConnOK(p)' /\ Part(up'[p], up[p]) /\ Part(Given(p)', Given(p))
                          /\ Live(p) => Given(p)' = Given(p)
  PROVE  SInv'
<1>1. /\ gpc' = gpc /\ sendPos' = sendPos /\ sendEnd' = sendEnd /\ state_id' = state_id
      /\ client_ids_' = client_ids_ /\ viewer_ids_' = viewer_ids_ /\ since' = since
      /\ peer' = peer /\ seen' = seen
  BY DEF gameVars, peerVars
<1>2. LoopOK' /\ OnceOK'
  BY <1>1 DEF SInv, LoopOK, OnceOK
<1>3. ASSUME NEW p \in Peers
      PROVE  StreamOK(p)'
  <2>1. NextSent(p)' = NextSent(p) /\ Live(p)' = Live(p) /\ ((p \in Subscribed)' <=> p \in Subscribed)
    BY <1>1 DEF NextSent, StillToSend, IsViewer, Live, Subscribed
  <2>2. up'[p] \in Seq(Messages)
    BY PipesAreMessagesNext DEF MessagesOK
  <2> QED
    BY <1>1, <2>1, <2>2, StillStream DEF SInv
<1> QED
  BY <1>2, <1>3 DEF SInv

\* A step of it that does not touch the network either.
LEMMA IoLeaves ==
  ASSUME SInv, IInv', UNCHANGED <<gameVars, state_id, client_ids_, viewer_ids_, since>>,
         UNCHANGED peerVars, UNCHANGED netVars, EventsOK'
  PROVE  SInv'
<1>1. ASSUME NEW p \in Peers
      PROVE  /\ ConnOK(p)' /\ Part(up'[p], up[p]) /\ Part(Given(p)', Given(p))
             /\ Live(p) => Given(p)' = Given(p)
  <2>1. TypesOK(p) /\ ConnOK(p)
    BY StreamTypes DEF SInv, StreamOK
  <2>2. /\ up'[p] = up[p] /\ Given(p)' = Given(p) /\ up[p] \in Seq(Messages)
        /\ Given(p) \in Seq(Messages) /\ conn' = conn
    BY <2>1 DEF netVars, Given, TypesOK, MessagesOK
  <2>3. Part(up'[p], up[p]) /\ Part(Given(p)', Given(p))
    BY <2>2, PartRefl
  <2>4. ConnOK(p)'
    BY <2>1, <2>2 DEF ConnOK, peerVars, Subscribed
  <2> QED
    BY <2>2, <2>3, <2>4
<1> QED
  BY <1>1, IoKeeps

\* What the IO thread does between the reads and writes.
LEMMA IoMovesSInv ==
  ASSUME SInv, IInv', IoMoves \/ IoFails \/ AddPlayer \/ AddTurn
  PROVE  SInv'
<1>1. /\ UNCHANGED <<gameVars, state_id, client_ids_, viewer_ids_, since>>
      /\ UNCHANGED peerVars /\ UNCHANGED netVars
  BY DEF IoMoves, LoopTop, Poll, BatchDone, InputDrained, RefusePlayer, GetPlayerSpins, OnInput,
         IoFails, RecvFails, OnOutputFails, AddPlayer, AddTurn, stateVars, obsVars
<1>2. conn' = conn /\ peer' = peer
  BY <1>1 DEF netVars, peerVars
<1>3. EventsOK'
  <2>1. CASE Poll
    <3>1. PICK kind \in [Open -> {"input", "output", "error"}] :
            /\ \A p \in Open : kind[p] \in Kinds(p)
            /\ events' = {Event(p, kind[p]) : p \in Open}
                           \union {Event(Listener, "input") : p \in Backlog}
      BY <2>1 DEF Poll
    <3>2. ASSUME NEW e \in events', e.conn \in Peers
          PROVE  conn[e.conn] = "open" /\ (e.kind = "error" => peer[e.conn] = "gone")
      <4>1. PICK p \in Open : e = Event(p, kind[p])
        BY <3>1, <3>2, ConstantsAssumption DEF Event
      <4> QED
        BY <3>1, <4>1 DEF Event, Open, Kinds
    <3> QED
      BY <1>2, <2>1, <3>2 DEF Poll, EventsOK, Handling
  <2>2. ASSUME NEW p \in Peers, OnInput(p)
        PROVE  EventsOK'
    <3>1. /\ Event(p, "input") \in events /\ events' \subseteq events /\ current'.conn = p
      BY <2>2 DEF OnInput, Idle
    <3>2. conn[p] \in {"open", "closed"}
      BY <3>1 DEF SInv, EventsOK, Event
    <3> QED
      BY <1>2, <3>1, <3>2 DEF SInv, EventsOK
  <2>3. CASE LoopTop \/ BatchDone \/ InputDrained
    BY <1>2, <2>3 DEF LoopTop, AfterLoopTop, BatchDone, InputDrained, SInv, EventsOK, Handling
  <2>4. CASE RefusePlayer \/ GetPlayerSpins \/ AddPlayer \/ AddTurn
    <3>1. events' = events /\ current' = current /\ ipc \in Handling
      BY <2>4 DEF RefusePlayer, GetPlayerSpins, AddPlayer, AddTurn, Handling
    <3> QED
      BY <1>2, <3>1 DEF SInv, EventsOK
  <2>5. CASE IoFails
    BY <1>2, <2>5 DEF IoFails, RecvFails, OnOutputFails, ioVars, SInv, EventsOK
  <2> QED
    BY <2>1, <2>2, <2>3, <2>4, <2>5 DEF IoMoves
<1> QED
  BY <1>1, <1>3, IoLeaves

\* A connection of a peer that is gone is closed.
LEMMA ClosesConnection ==
  ASSUME SInv, IInv', NEW c \in Peers, CloseConnection(c), peer[c] = "gone", down' = down,
         UNCHANGED <<gameVars, stateVars, obsVars, peerVars>>,
         events' \subseteq events, ipc' = "dispatch"
  PROVE  SInv'
<1>0. NetTypeOK /\ IInv /\ EventsOK
  BY DEF SInv, IInv, TypeOK
<1>1. /\ conn' = [conn EXCEPT ![c] = "closed"] /\ output' = [output EXCEPT ![c] = <<>>]
      /\ up' = [up EXCEPT ![c] = <<>>] /\ peer' = peer
      /\ UNCHANGED <<gameVars, state_id, client_ids_, viewer_ids_, since>> /\ UNCHANGED peerVars
  BY DEF CloseConnection, stateVars, obsVars, peerVars
<1>2. EventsOK'
  BY <1>0, <1>1 DEF EventsOK, Handling, NetTypeOK
<1>3. ASSUME NEW p \in Peers
      PROVE  /\ ConnOK(p)' /\ Part(up'[p], up[p]) /\ Part(Given(p)', Given(p))
             /\ Live(p) => Given(p)' = Given(p)
  <2>1. TypesOK(p) /\ ConnOK(p)
    BY StreamTypes DEF SInv, StreamOK
  <2>2. ConnOK(p)'
    BY <1>0, <1>1, <2>1 DEF ConnOK, NetTypeOK, Subscribed
  <2>3. Part(up'[p], up[p])
    BY <1>0, <1>1, <2>1, PartRefl, PartNothing DEF NetTypeOK, TypesOK, MessagesOK
  <2>4. Part(Given(p)', Given(p))
    <3>1. output'[p] \in {output[p], <<>>} /\ down'[p] = down[p]
      BY <1>0, <1>1 DEF NetTypeOK
    <3> QED
      BY <1>0, <3>1, GivenLess
  <2>5. Live(p) => Given(p)' = Given(p)
    BY <1>0, <1>1 DEF Live, Given, NetTypeOK
  <2> QED
    BY <2>2, <2>3, <2>4, <2>5
<1> QED
  BY <1>1, <1>2, <1>3, IoKeeps

\* Connections are accepted, closed and flushed.
LEMMA IoTransfersSInv ==
  ASSUME SInv, IInv', IoTransfers
  PROVE  SInv'
<1>0. NetTypeOK /\ IInv /\ EventsOK /\ HandledKnown
  BY DEF SInv, IInv, TypeOK
<1>1. CASE Accept
  <2>1. /\ conn' = [p \in Peers |-> IF p \in Backlog THEN "open" ELSE conn[p]]
        /\ up' = up /\ down' = down /\ output' = output /\ peer' = peer
        /\ events' \subseteq events /\ ipc' = ipc /\ ipc = "dispatch"
        /\ UNCHANGED <<gameVars, state_id, client_ids_, viewer_ids_, since>> /\ UNCHANGED peerVars
    BY <1>1 DEF Accept, stateVars, obsVars, peerVars
  <2>2. EventsOK'
    BY <1>0, <2>1 DEF EventsOK, Handling, NetTypeOK, Backlog
  <2>3. ASSUME NEW p \in Peers
        PROVE  /\ ConnOK(p)' /\ Part(up'[p], up[p]) /\ Part(Given(p)', Given(p))
               /\ Live(p) => Given(p)' = Given(p)
    <3>1. TypesOK(p) /\ ConnOK(p)
      BY StreamTypes DEF SInv, StreamOK
    <3>2. ConnOK(p)'
      BY <2>1, <3>1 DEF ConnOK, Backlog, Subscribed
    <3> QED
      BY <2>1, <3>1, <3>2, PartRefl DEF Given, TypesOK, MessagesOK
  <2> QED
    BY <2>1, <2>2, <2>3, IoKeeps
<1>2. CASE EndOfFile
  <2>1. PICK c \in Peers : c = current.conn
    BY <1>0, <1>2 DEF EndOfFile, HandledKnown, Handling
  <2> QED
    BY <1>2, <2>1, ClosesConnection DEF EndOfFile
<1>3. ASSUME NEW c \in Peers, OnError(c)
      PROVE  SInv'
  <2>1. Event(c, "error") \in events /\ ipc' = "dispatch" /\ events' \subseteq events
    BY <1>3 DEF OnError
  <2>2. peer[c] = "gone"
    BY <1>0, <2>1 DEF EventsOK, Event
  <2> QED
    BY <1>3, <2>1, <2>2, ClosesConnection DEF OnError
<1>4. ASSUME NEW c \in Peers, OnOutput(c)
      PROVE  SInv'
  <2>1. /\ down' = [down EXCEPT ![c] = IF peer[c] = "gone" THEN @ ELSE @ \o output[c]]
        /\ output' = [output EXCEPT ![c] = <<>>]
        /\ up' = up /\ conn' = conn /\ peer' = peer
        /\ events' \subseteq events /\ ipc' = ipc /\ ipc = "dispatch"
        /\ UNCHANGED <<gameVars, state_id, client_ids_, viewer_ids_, since>> /\ UNCHANGED peerVars
    BY <1>4 DEF OnOutput, Flushed, stateVars, obsVars, peerVars
  <2>2. EventsOK'
    BY <1>0, <2>1 DEF EventsOK, Handling
  <2>3. ASSUME NEW p \in Peers
        PROVE  /\ ConnOK(p)' /\ Part(up'[p], up[p]) /\ Part(Given(p)', Given(p))
               /\ Live(p) => Given(p)' = Given(p)
    <3>1. TypesOK(p) /\ ConnOK(p)
      BY StreamTypes DEF SInv, StreamOK
    <3>2. ConnOK(p)'
      BY <2>1, <3>1 DEF ConnOK, Subscribed
    <3>3. \/ output'[p] = output[p] /\ down'[p] = down[p]
          \/ /\ output'[p] = <<>>
             /\ down'[p] = IF peer[p] = "gone" THEN down[p] ELSE down[p] \o output[p]
      BY <1>0, <2>1 DEF NetTypeOK
    <3>4. Part(Given(p)', Given(p))
      BY <1>0, <3>3, GivenLess
    <3>5. Live(p) => Given(p)' = Given(p)
      <4>1. CASE output'[p] = output[p] /\ down'[p] = down[p]
        BY <4>1 DEF Given
      <4>2. CASE output'[p] = <<>> /\ down'[p] = down[p] \o output[p]
        <5>1. Given(p)' = Given(p) \o <<>> /\ Given(p) \in Seq(Messages)
          BY <3>1, <4>2 DEF Given, TypesOK, MessagesOK
        <5> QED
          BY <5>1, ConcatEmptySeq
      <4> QED
        BY <3>3, <4>1, <4>2 DEF Live
    <3> QED
      BY <2>1, <3>1, <3>2, <3>4, <3>5, PartRefl DEF TypesOK, MessagesOK
  <2> QED
    BY <2>1, <2>2, <2>3, IoKeeps
<1> QED
  BY <1>1, <1>2, <1>3, <1>4 DEF IoTransfers

\* The answer to a subscription comes before or after any state, and is none.
LEMMA SendConfirmationSInv ==
  ASSUME SInv, IInv', SendConfirmation
  PROVE  SInv'
<1> DEFINE m == IF ipc = "confirmViewer"
                THEN ViewerSubscribeResult(Len(viewer_ids_) - 1)
                ELSE ClientSubscribeResult(ipc = "accepted", NewPlayerId)
<1>0. /\ NetTypeOK /\ IInv /\ EventsOK /\ HandledKnown
      /\ viewer_ids_ \in Seq(Peers) /\ players \in Seq(Nat) /\ next_id = Len(players)
  BY DEF SInv, IInv, TypeOK, ObsTypeOK, StateTypeOK
<1>1. /\ SendMessage(m, current.conn) /\ ipc \in {"refused", "accepted", "confirmViewer"}
      /\ ipc' = "reading" /\ events' = events /\ current' = current
      /\ up' = up /\ down' = down /\ conn' = conn /\ peer' = peer /\ seen' = seen
      /\ gpc' = gpc /\ sendPos' = sendPos /\ sendEnd' = sendEnd /\ state_id' = state_id
      /\ client_ids_' = client_ids_ /\ viewer_ids_' = viewer_ids_ /\ since' = since
      /\ UNCHANGED peerVars
  BY DEF SendConfirmation, gameVars, stateVars, obsVars, peerVars
<1>2. PICK c \in Peers : c = current.conn
  BY <1>0, <1>1 DEF HandledKnown, Handling
<1>3. m \in Messages /\ ~Stamped(m)
  <2>1. CASE ipc = "confirmViewer"
    <3>1. Len(viewer_ids_) - 1 \in Nat
      BY <1>0, <2>1 DEF HandledKnown
    <3> QED
      BY <2>1, <3>1 DEF ViewerSubscribeResult, Messages, DownMessage, Stamped
  <2>2. CASE ipc = "accepted"
    <3>1. NewPlayerId \in Nat
      BY <1>0, <2>2 DEF HandledKnown, NewPlayerId
    <3> QED
      BY <2>2, <3>1 DEF ClientSubscribeResult, Messages, DownMessage, Stamped
  <2>3. CASE ipc = "refused"
    BY <2>3 DEF ClientSubscribeResult, Messages, DownMessage, Stamped
  <2> QED
    BY <1>1, <2>1, <2>2, <2>3
<1> HIDE DEF m
<1>4. EventsOK' /\ LoopOK' /\ OnceOK'
  BY <1>0, <1>1 DEF SInv, EventsOK, LoopOK, OnceOK, Handling
<1>5. ASSUME NEW p \in Peers
      PROVE  /\ StreamOK(p) /\ NextSent(p)' = NextSent(p) /\ Live(p)' = Live(p)
             /\ ((p \in Subscribed)' <=> p \in Subscribed) /\ ConnOK(p)'
  BY <1>1 DEF SInv, StreamOK, NextSent, StillToSend, IsViewer, Live, Subscribed, ConnOK
<1>6. StreamOK(c)'
  BY <1>1, <1>2, <1>3, <1>5, SentStream
<1>7. ASSUME NEW p \in Peers, p # c
      PROVE  StreamOK(p)'
  <2>1. output'[p] = output[p] /\ TypesOK(p)
    BY <1>1, <1>2, <1>7, StreamTypes DEF SendMessage, SInv
  <2>2. Given(p)' = Given(p) /\ Part(Given(p)', Given(p)) /\ Part(up'[p], up[p])
        /\ up'[p] \in Seq(Messages)
    BY <1>1, <2>1, PartRefl DEF Given, TypesOK, MessagesOK
  <2> QED
    BY <1>1, <1>5, <2>2, StillStream
<1> QED
  BY <1>4, <1>6, <1>7 DEF SInv

\* A peer becomes an observer, also while a send loop runs.
LEMMA Subscribing ==
  ASSUME SInv, NEW c \in Peers, c \notin Subscribed, UNCHANGED <<gameVars, state_id>>,
         \/ client_ids_' = Append(client_ids_, c) /\ viewer_ids_' = viewer_ids_
         \/ viewer_ids_' = Append(viewer_ids_, c) /\ client_ids_' = client_ids_
  PROVE  /\ Subscribed' = Subscribed \union {c} /\ OnceOK' /\ LoopOK'
         /\ \A p \in Peers : p # c => NextSent(p)' = NextSent(p)
<1>0. /\ IInv /\ client_ids_ \in Seq(Peers) /\ viewer_ids_ \in Seq(Peers)
      /\ sendPos \in Nat \ {0} /\ sendEnd \in Nat /\ LoopOK /\ OnceOK
  BY DEF SInv, IInv, TypeOK, ObsTypeOK, GameTypeOK
<1>1. gpc' = gpc /\ sendPos' = sendPos /\ sendEnd' = sendEnd /\ state_id' = state_id
  BY DEF gameVars
<1>2. /\ \A i \in DOMAIN client_ids_ : client_ids_[i] # c
      /\ \A i \in DOMAIN viewer_ids_ : viewer_ids_[i] # c
  BY DEF Subscribed
<1>3. CASE client_ids_' = Append(client_ids_, c) /\ viewer_ids_' = viewer_ids_
  <2>1. /\ DOMAIN client_ids_' = 1..(Len(client_ids_) + 1)
        /\ DOMAIN client_ids_ = 1..Len(client_ids_)
        /\ Len(client_ids_') = Len(client_ids_) + 1 /\ Len(client_ids_) \in Nat
        /\ \A i \in 1..Len(client_ids_) : client_ids_'[i] = client_ids_[i]
        /\ client_ids_'[Len(client_ids_) + 1] = c
    BY <1>0, <1>3, Appended
  <2>2. \A i \in DOMAIN client_ids_' :
          \/ i \in DOMAIN client_ids_ /\ client_ids_'[i] = client_ids_[i]
          \/ i = Len(client_ids_) + 1 /\ client_ids_'[i] = c
    BY <2>1
  <2>3. \A i \in DOMAIN client_ids_ : i \in DOMAIN client_ids_' /\ client_ids_'[i] = client_ids_[i]
    BY <2>1
  <2>4. Subscribed' = Subscribed \union {c}
    <3>1. Len(client_ids_) + 1 \in DOMAIN client_ids_'
      BY <2>1
    <3>2. {client_ids_'[i] : i \in DOMAIN client_ids_'}
            = {client_ids_[i] : i \in DOMAIN client_ids_} \union {c}
      BY <2>1, <2>2, <2>3, <3>1
    <3> QED
      BY <1>3, <3>2 DEF Subscribed
  <2>5. OnceOK'
    <3>1. \A i, j \in DOMAIN client_ids_' : client_ids_'[i] = client_ids_'[j] => i = j
      BY <1>0, <1>2, <2>2 DEF OnceOK
    <3>2. \A i \in DOMAIN client_ids_', j \in DOMAIN viewer_ids_ : client_ids_'[i] # viewer_ids_[j]
      BY <1>0, <1>2, <2>2 DEF OnceOK
    <3> QED
      BY <1>0, <1>3, <3>1, <3>2 DEF OnceOK
  <2>6. LoopOK'
    BY <1>0, <1>1, <1>3, <2>1 DEF LoopOK
  <2>7. ASSUME NEW p \in Peers, p # c
        PROVE  NextSent(p)' = NextSent(p)
    <3>1. gpc = "stateToClients" =>
            \A i \in sendPos..sendEnd : client_ids_'[i] = client_ids_[i]
      BY <1>0, <2>1 DEF LoopOK
    <3>2. StillToSend(p)' <=> StillToSend(p)
      BY <1>1, <1>3, <3>1 DEF StillToSend, IsViewer
    <3> QED
      BY <1>1, <3>2 DEF NextSent
  <2> QED
    BY <2>4, <2>5, <2>6, <2>7
<1>4. CASE viewer_ids_' = Append(viewer_ids_, c) /\ client_ids_' = client_ids_
  <2>1. /\ DOMAIN viewer_ids_' = 1..(Len(viewer_ids_) + 1)
        /\ DOMAIN viewer_ids_ = 1..Len(viewer_ids_)
        /\ Len(viewer_ids_') = Len(viewer_ids_) + 1 /\ Len(viewer_ids_) \in Nat
        /\ \A i \in 1..Len(viewer_ids_) : viewer_ids_'[i] = viewer_ids_[i]
        /\ viewer_ids_'[Len(viewer_ids_) + 1] = c
    BY <1>0, <1>4, Appended
  <2>2. \A i \in DOMAIN viewer_ids_' :
          \/ i \in DOMAIN viewer_ids_ /\ viewer_ids_'[i] = viewer_ids_[i]
          \/ i = Len(viewer_ids_) + 1 /\ viewer_ids_'[i] = c
    BY <2>1
  <2>3. \A i \in DOMAIN viewer_ids_ : i \in DOMAIN viewer_ids_' /\ viewer_ids_'[i] = viewer_ids_[i]
    BY <2>1
  <2>4. Subscribed' = Subscribed \union {c}
    <3>1. Len(viewer_ids_) + 1 \in DOMAIN viewer_ids_'
      BY <2>1
    <3>2. {viewer_ids_'[i] : i \in DOMAIN viewer_ids_'}
            = {viewer_ids_[i] : i \in DOMAIN viewer_ids_} \union {c}
      BY <2>1, <2>2, <2>3, <3>1
    <3> QED
      BY <1>4, <3>2 DEF Subscribed
  <2>5. OnceOK'
    <3>1. \A i, j \in DOMAIN viewer_ids_' : viewer_ids_'[i] = viewer_ids_'[j] => i = j
      BY <1>0, <1>2, <2>2 DEF OnceOK
    <3>2. \A i \in DOMAIN client_ids_, j \in DOMAIN viewer_ids_' : client_ids_[i] # viewer_ids_'[j]
      BY <1>0, <1>2, <2>2 DEF OnceOK
    <3> QED
      BY <1>0, <1>4, <3>1, <3>2 DEF OnceOK
  <2>6. LoopOK'
    BY <1>0, <1>1, <1>4, <2>1 DEF LoopOK
  <2>7. ASSUME NEW p \in Peers, p # c
        PROVE  NextSent(p)' = NextSent(p)
    <3>1. gpc = "stateToViewers" =>
            \A i \in sendPos..sendEnd : viewer_ids_'[i] = viewer_ids_[i]
      BY <1>0, <2>1 DEF LoopOK
    <3>2. IsViewer(p)' <=> IsViewer(p)
      BY <1>4, <1>0, <2>2, <2>3, <2>7 DEF IsViewer
    <3>3. StillToSend(p)' <=> StillToSend(p)
      BY <1>1, <1>4, <3>1, <3>2 DEF StillToSend
    <3> QED
      BY <1>1, <3>3 DEF NextSent
  <2> QED
    BY <2>4, <2>5, <2>6, <2>7
<1> QED
  BY <1>3, <1>4

\* A turn is taken from a pipe, or a request makes its peer an observer: the states
\* it is due begin with the one the game is at or the next one.
LEMMA ReceiveMessageSInv ==
  ASSUME SInv, IInv', ReceiveMessage
  PROVE  SInv'
<1>0. NetTypeOK /\ ObsTypeOK /\ IInv /\ EventsOK /\ HandledKnown
  BY DEF SInv, IInv, TypeOK
<1>1. PICK c \in Peers : c = current.conn
  BY <1>0 DEF ReceiveMessage, HandledKnown, Handling
<1>2. /\ up[c] # <<>> /\ up' = [up EXCEPT ![c] = Tail(@)]
      /\ current'.conn = c /\ ipc = "reading" /\ ipc' \in Handling /\ events' = events
      /\ output' = output /\ down' = down /\ conn' = conn /\ peer' = peer /\ seen' = seen
      /\ state_id' = state_id /\ UNCHANGED gameVars /\ UNCHANGED peerVars
  BY <1>1 DEF ReceiveMessage, stateVars, peerVars, Handling
<1>3. EventsOK'
  BY <1>0, <1>1, <1>2 DEF EventsOK, Handling
<1>4. ASSUME NEW p \in Peers
      PROVE  /\ TypesOK(p) /\ StreamOK(p) /\ Given(p)' = Given(p)
             /\ Part(Given(p)', Given(p)) /\ Part(up'[p], up[p]) /\ up'[p] \in Seq(Messages)
             /\ Live(p)' = Live(p)
  <2>1. TypesOK(p) /\ StreamOK(p) /\ Given(p)' = Given(p) /\ Live(p)' = Live(p)
    BY <1>2, StreamTypes DEF SInv, Given, Live
  <2>2. Part(Given(p)', Given(p))
    BY <2>1, PartRefl DEF TypesOK, MessagesOK
  <2>3. up[p] \in Seq(Messages) /\ up'[p] = IF p = c THEN Tail(up[p]) ELSE up[p]
    BY <1>0, <1>2, <2>1 DEF TypesOK, MessagesOK, NetTypeOK
  <2>4. Part(up'[p], up[p])
    BY <1>2, <2>3, PartRefl, PartTail
  <2>5. up'[p] \in Seq(Messages)
    BY <1>2, <2>3
  <2> QED
    BY <2>1, <2>2, <2>4, <2>5
<1>5. up[c] \in Seq(Messages) /\ 1 \in DOMAIN up[c] /\ Head(up[c]) = up[c][1]
      /\ up'[c] = Tail(up[c]) /\ \A i \in DOMAIN up'[c] : i + 1 \in DOMAIN up[c] /\ i # 0
                                                  /\ up'[c][i] = up[c][i + 1]
  <2>1. up[c] \in Seq(Messages) /\ up'[c] = Tail(up[c])
    BY <1>0, <1>2, <1>4 DEF TypesOK, MessagesOK, NetTypeOK
  <2>2. Tail(up[c]) \in Seq(Messages) /\ Len(Tail(up[c])) = Len(up[c]) - 1 /\ Len(up[c]) \in Nat
        /\ Len(up[c]) >= 1 /\ Head(up[c]) = up[c][1]
        /\ \A i \in 1..Len(Tail(up[c])) : Tail(up[c])[i] = up[c][i + 1]
    BY <1>2, <2>1, HeadTailProperties, EmptySeq
  <2> DEFINE t == Tail(up[c])
  <2> HIDE DEF t
  <2>3. \A i \in DOMAIN t : i \in 1..Len(t) /\ i # 0 /\ i + 1 \in DOMAIN up[c]
    BY <2>1, <2>2 DEF t
  <2> QED
    BY <2>1, <2>2, <2>3 DEF t
<1>6. CASE UNCHANGED <<client_ids_, viewer_ids_, since>>
  <2>1. ASSUME NEW p \in Peers
        PROVE  ConnOK(p)'
    BY <1>2, <1>4, <1>6 DEF StreamOK, ConnOK, Subscribed
  <2> QED
    BY <1>2, <1>3, <1>4, <1>6, <2>1, IoKeeps
<1>7. CASE Head(up[c]).type # "TURN"
  <2>1. /\ since' = [since EXCEPT ![c] = state_id]
        /\ \/ client_ids_' = Append(client_ids_, c) /\ viewer_ids_' = viewer_ids_
           \/ viewer_ids_' = Append(viewer_ids_, c) /\ client_ids_' = client_ids_
    BY <1>1, <1>7 DEF ReceiveMessage
  <2>2. c \notin Subscribed
    BY <1>4, <1>5, <1>7 DEF StreamOK, RequestOK
  <2>3. /\ Subscribed' = Subscribed \union {c} /\ OnceOK' /\ LoopOK'
        /\ \A p \in Peers : p # c => NextSent(p)' = NextSent(p)
    BY <1>2, <2>1, <2>2, Subscribing
  <2>4. ASSUME NEW p \in Peers, p # c
        PROVE  StreamOK(p)'
    <3>1. since'[p] = since[p] /\ ((p \in Subscribed)' <=> p \in Subscribed)
      BY <1>0, <2>1, <2>3, <2>4 DEF ObsTypeOK
    <3>2. ConnOK(p)'
      BY <1>2, <1>4, <3>1 DEF StreamOK, ConnOK
    <3> QED
      BY <1>2, <1>4, <2>3, <2>4, <3>1, <3>2, StillStream
  <2>5. StreamOK(c)'
    <3>1. /\ seen[c] = 0 /\ \A i \in DOMAIN Given(c) : ~Stamped(Given(c)[i])
          /\ conn[c] \in {"open", "closed"} /\ peer[c] # "new" /\ (c \in Subscribed)'
      BY <1>0, <1>1, <1>2, <1>4, <2>2, <2>3
         DEF StreamOK, UnsubscribedOK, ConnOK, EventsOK, Handling
    <3>2. FlowOK(c)'
      <4>1. since'[c] = state_id /\ state_id \in Nat
        BY <1>0, <1>4, <2>1 DEF ObsTypeOK, TypesOK, MessagesOK
      <4>2. NextSent(c)' \in {state_id, state_id + 1} /\ NextSent(c)' >= 1
        <5>1. StillToSend(c)' => state_id >= 1
          BY <1>2, <2>3 DEF StillToSend, LoopOK
        <5> QED
          BY <1>2, <4>1, <5>1 DEF NextSent
      <4>3. NextSent(c)' \in DueTo(c)'
        BY <1>2, <3>1, <4>1, <4>2 DEF DueTo
      <4>4. Chain(Given(c), NextSent(c)', NextSent(c)')
        BY <3>1, <4>1, <4>2, ChainEmpty
      <4>5. \E n \in DueTo(c)' : n >= 1 /\ Chain(Given(c)', n, NextSent(c)')
        BY <1>4, <4>2, <4>3, <4>4
      <4> QED
        BY <4>5 DEF FlowOK, Chain, Stamped, Stamp
    <3>3. UnsubscribedOK(c)'
      BY <3>1 DEF UnsubscribedOK
    <3>4. RequestOK(c)'
      <4>1. \A i \in DOMAIN up'[c] : up'[c][i].type = "TURN"
        <5> SUFFICES ASSUME NEW i \in DOMAIN up'[c], up'[c][i].type # "TURN"
                     PROVE  FALSE
          OBVIOUS
        <5>1. i + 1 = 1 /\ i \in Nat /\ i # 0
          BY <1>4, <1>5 DEF StreamOK, RequestOK
        <5> QED
          BY <5>1
      <4> QED
        BY <1>2, <3>1, <4>1 DEF RequestOK
    <3>5. ConnOK(c)'
      BY <1>2, <1>4, <3>1 DEF StreamOK, ConnOK
    <3> QED
      BY <3>2, <3>3, <3>4, <3>5 DEF StreamOK
  <2> QED
    BY <1>3, <2>3, <2>4, <2>5 DEF SInv
<1> QED
  BY <1>1, <1>6, <1>7 DEF ReceiveMessage

\* Every step of the IO thread.
LEMMA IoThreadSInv ==
  ASSUME SInv, IoThread
  PROVE  SInv'
<1>1. IInv'
  BY IoThreadIInv DEF SInv
<1> QED
  BY <1>1, IoMovesSInv, IoTransfersSInv, ReceiveMessageSInv, SendConfirmationSInv
     DEF IoThread, IoMoves, IoFails, IoTransfers

-----------------------------------------------------------------------------
(* The peers *)

\* The server and the other peers see no more of a step of peer c than its messages.
LEMMA OnePeerSInv ==
  ASSUME SInv, NEW c \in Peers, PeerStep(c), StreamOK(c)'
  PROVE  SInv'
<1>0. /\ IInv /\ IInv' /\ EventsOK /\ HandledKnown /\ NetTypeOK /\ PeerTypeOK
      /\ UNCHANGED gameVars /\ UNCHANGED ioVars /\ UNCHANGED obsVars /\ output' = output
      /\ state_id' = state_id
  BY PeersIInv, PeerFrame DEF SInv, IInv, TypeOK
<1>1. /\ gpc' = gpc /\ sendPos' = sendPos /\ sendEnd' = sendEnd
      /\ client_ids_' = client_ids_ /\ viewer_ids_' = viewer_ids_ /\ since' = since
      /\ ipc' = ipc /\ events' = events /\ current' = current
  BY <1>0 DEF gameVars, obsVars, ioVars
<1>2. /\ peer[c] # "gone"
      /\ \/ conn' = conn
         \/ peer[c] = "new" /\ conn' = [conn EXCEPT ![c] = "backlog"]
  BY DEF PeerStep, Join, Confirmed, TakeState, TakeFinish, Die
<1>3. \A p \in Peers : p # c =>
        /\ peer'[p] = peer[p] /\ seen'[p] = seen[p] /\ conn'[p] = conn[p]
        /\ up'[p] = up[p] /\ down'[p] = down[p]
  BY <1>0 DEF PeerStep, Join, Confirmed, TakeState, TakeFinish, Die, PeerTypeOK, NetTypeOK
<1>4. EventsOK'
  <2>1. peer[c] = "new" => conn[c] = "none"
    BY DEF SInv, StreamOK, ConnOK
  <2>2. \A p \in Peers : conn[p] \in {"open", "closed"} => conn'[p] = conn[p]
    BY <1>2, <1>3, <2>1
  <2>3. \A p \in Peers : peer[p] = "gone" => peer'[p] = "gone"
    BY <1>2, <1>3
  <2>4. ASSUME NEW e \in events, e.conn \in Peers
        PROVE  conn'[e.conn] \in {"open", "closed"} /\ (e.kind = "error" => peer'[e.conn] = "gone")
    BY <1>0, <2>2, <2>3, <2>4 DEF EventsOK
  <2>5. ASSUME ipc \in Handling
        PROVE  conn'[current.conn] \in {"open", "closed"}
    BY <1>0, <2>2, <2>5 DEF EventsOK, HandledKnown
  <2> QED
    BY <1>1, <2>4, <2>5 DEF EventsOK, Handling
<1>5. LoopOK' /\ OnceOK'
  BY <1>0, <1>1 DEF SInv, LoopOK, OnceOK
<1>6. ASSUME NEW p \in Peers, p # c
      PROVE  StreamOK(p)'
  <2>1. TypesOK(p) /\ StreamOK(p)
    BY StreamTypes DEF SInv
  <2>2. /\ NextSent(p)' = NextSent(p) /\ ((p \in Subscribed)' <=> p \in Subscribed)
    BY <1>0, <1>1 DEF NextSent, StillToSend, IsViewer, Subscribed
  <2>3. Live(p)' = Live(p) /\ Given(p)' = Given(p)
    BY <1>0, <1>3, <1>6 DEF Live, Given
  <2>4. Part(up'[p], up[p]) /\ Part(Given(p)', Given(p)) /\ up'[p] \in Seq(Messages)
    BY <1>3, <1>6, <2>1, <2>3, PartRefl DEF TypesOK, MessagesOK
  <2>5. ConnOK(p)'
    BY <1>3, <1>6, <2>1, <2>2 DEF StreamOK, ConnOK
  <2> QED
    BY <1>1, <1>3, <1>6, <2>1, <2>2, <2>3, <2>4, <2>5, StillStream
<1> QED
  BY <1>0, <1>4, <1>5, <1>6 DEF SInv

\* What a step of a peer leaves of its own stream.
LEMMA OwnStep ==
  ASSUME SInv, NEW c \in Peers, PeerStep(c)
  PROVE  /\ since' = since /\ output' = output /\ NextSent(c)' = NextSent(c)
         /\ ((c \in Subscribed)' <=> c \in Subscribed) /\ TypesOK(c) /\ StreamOK(c)
<1>1. /\ UNCHANGED gameVars /\ UNCHANGED obsVars /\ output' = output /\ state_id' = state_id
  BY PeerFrame DEF SInv
<1> QED
  BY <1>1, StreamTypes DEF SInv, NextSent, StillToSend, IsViewer, Subscribed, gameVars, obsVars

\* The first message on its way to a peer is the first in its pipe.
LEMMA FirstOfGiven ==
  ASSUME IInv, NEW c \in Peers, down[c] # <<>>
  PROVE  /\ Given(c) # <<>> /\ Given(c) \in Seq(Messages) /\ Head(Given(c)) = Head(down[c])
         /\ Tail(Given(c)) = Tail(down[c]) \o output[c]
         /\ 1 \in DOMAIN Given(c) /\ Given(c)[1] = Head(down[c])
<1>1. /\ down[c] \in Seq(Messages) /\ output[c] \in Seq(Messages) /\ Given(c) \in Seq(Messages)
  BY PipesAreMessages DEF AllMessagesOK, MessagesOK
<1>2. /\ Head(Given(c)) = Head(down[c]) /\ Given(c) # <<>>
      /\ Tail(Given(c)) = Tail(down[c]) \o output[c]
  BY <1>1, TailConcat DEF Given
<1>3. 1 \in DOMAIN Given(c) /\ Given(c)[1] = Head(Given(c))
  BY <1>1, <1>2
<1> QED
  BY <1>1, <1>2, <1>3

\* A request to subscribe.
LEMMA JoinSInv ==
  ASSUME SInv, NEW c \in Peers, Join(c)
  PROVE  SInv'
<1>0. PeerStep(c) /\ PeerTypeOK /\ NetTypeOK
  BY DEF PeerStep, SInv, IInv, TypeOK
<1>1. /\ peer[c] = "new" /\ peer'[c] = "joining" /\ conn'[c] = "backlog"
      /\ up'[c] \in {<<ClientSubscribeRequest>>, <<ViewerSubscribeRequest>>}
      /\ down' = down /\ seen' = seen
  BY <1>0 DEF Join, PeerTypeOK, NetTypeOK
<1>2. c \notin Subscribed /\ (c \notin Subscribed)' /\ StreamOK(c) /\ Given(c)' = Given(c)
  BY <1>0, <1>1, OwnStep DEF StreamOK, RequestOK, Given
<1>3. FlowOK(c)' /\ UnsubscribedOK(c)'
  BY <1>1, <1>2 DEF StreamOK, FlowOK, UnsubscribedOK, Stamped
<1>4. RequestOK(c)'
  <2>1. DOMAIN up'[c] = {1}
    BY <1>1
  <2> QED
    BY <1>1, <1>2, <2>1 DEF RequestOK
<1>5. ConnOK(c)'
  BY <1>1, <1>2 DEF ConnOK
<1> QED
  BY <1>0, <1>3, <1>4, <1>5, OnePeerSInv DEF StreamOK

\* A peer stops.
LEMMA PeerStopsSInv ==
  ASSUME SInv, NEW c \in Peers, PeerStep(c), peer'[c] \in {"gone", "finished"}, peer[c] # "gone",
         seen'[c] = seen[c], up'[c] = up[c], conn'[c] = conn[c],
         \/ down'[c] = <<>>
         \/ down[c] # <<>> /\ down'[c] = Tail(down[c])
  PROVE  SInv'
<1>1. /\ since' = since /\ output' = output /\ NextSent(c)' = NextSent(c)
      /\ ((c \in Subscribed)' <=> c \in Subscribed) /\ TypesOK(c) /\ StreamOK(c)
  BY OwnStep
<1>2. ~Live(c)'
  BY DEF Live
<1>3. Part(Given(c)', Given(c))
  BY <1>1, GivenLess DEF SInv
<1>4. Part(up'[c], up[c]) /\ up'[c] \in Seq(Messages)
  BY <1>1, PartRefl DEF TypesOK, MessagesOK
<1>5. ConnOK(c)'
  BY <1>1 DEF StreamOK, ConnOK
<1>6. StreamOK(c)'
  BY <1>1, <1>2, <1>3, <1>4, <1>5, StillStream
<1> QED
  BY <1>6, OnePeerSInv

\* The answer to the request is not a state: the stream goes on behind it.
LEMMA ConfirmedSInv ==
  ASSUME SInv, NEW c \in Peers, Confirmed(c)
  PROVE  SInv'
<1>0. /\ PeerStep(c) /\ PeerTypeOK /\ NetTypeOK /\ IInv
  BY DEF PeerStep, SInv, IInv, TypeOK
<1>1. /\ peer[c] = "joining" /\ down[c] # <<>> /\ down'[c] = Tail(down[c])
      /\ seen' = seen /\ up' = up /\ conn' = conn
      /\ \/ peer'[c] \in {"gone", "finished"}
         \/ peer'[c] = "playing" /\ ~Stamped(Head(down[c]))
  BY <1>0 DEF Confirmed, PeerTypeOK, NetTypeOK, Stamped
<1>2. CASE peer'[c] \in {"gone", "finished"}
  BY <1>0, <1>1, <1>2, PeerStopsSInv
<1>3. CASE peer'[c] = "playing" /\ ~Stamped(Head(down[c]))
  <2>1. /\ since' = since /\ output' = output /\ NextSent(c)' = NextSent(c)
        /\ ((c \in Subscribed)' <=> c \in Subscribed) /\ TypesOK(c) /\ StreamOK(c)
    BY <1>0, OwnStep
  <2>2. /\ Given(c)' = Tail(Given(c)) /\ Given(c) # <<>> /\ Given(c) \in Seq(Messages)
        /\ ~Stamped(Head(Given(c)))
    BY <1>0, <1>1, <1>3, <2>1, FirstOfGiven DEF Given
  <2>3. Live(c) /\ DueTo(c)' = DueTo(c)
    BY <1>1, <2>1 DEF Live, DueTo
  <2>4. FlowOK(c)'
    <3> SUFFICES ASSUME c \in Subscribed
                 PROVE  \E n \in DueTo(c) : n >= 1 /\ Chain(Given(c)', n, NextSent(c)')
      BY <2>1, <2>3 DEF FlowOK, Chain, Stamped, Stamp
    <3>1. PICK n \in DueTo(c) : n >= 1 /\ Chain(Given(c), n, NextSent(c))
      BY <2>1, <2>3 DEF StreamOK, FlowOK
    <3>2. n \in Nat /\ NextSent(c) \in Nat
      BY <2>1 DEF DueTo, TypesOK, MessagesOK
    <3>3. Chain(Tail(Given(c)), n, NextSent(c))
      BY <2>2, <3>1, <3>2, ChainTail
    <3> QED
      BY <2>1, <2>2, <3>1, <3>3
  <2>5. UnsubscribedOK(c)'
    <3>1. Part(Tail(Given(c)), Given(c))
      BY <2>2, PartTail
    <3>2. (\A i \in DOMAIN Given(c) : ~Stamped(Given(c)[i])) =>
            \A i \in DOMAIN Given(c)' : ~Stamped(Given(c)'[i])
      BY <2>2, <3>1, PartElement
    <3> QED
      BY <1>1, <2>1, <3>2 DEF StreamOK, UnsubscribedOK, Stamped
  <2>6. RequestOK(c)' /\ ConnOK(c)'
    BY <1>1, <1>3, <2>1 DEF StreamOK, RequestOK, ConnOK
  <2> QED
    BY <1>0, <2>4, <2>5, <2>6, OnePeerSInv DEF StreamOK
<1> QED
  BY <1>1, <1>2, <1>3

\* The state a peer takes is the one it is due, and one the game has begun.
LEMMA TakesDue ==
  ASSUME SInv, NEW c \in Peers, TakeState(c)
  PROVE  \E n \in DueTo(c) :
           /\ n = Head(down[c]).id /\ n \in Nat /\ 1 <= n /\ n <= state_id
           /\ c \in Subscribed /\ Live(c) /\ Chain(Tail(Given(c)), n + 1, NextSent(c))
<1>0. /\ TypesOK(c) /\ StreamOK(c) /\ IInv
  BY StreamTypes DEF SInv
<1>1. peer[c] = "playing" /\ down[c] # <<>> /\ Head(down[c]).type = "STATE"
  BY DEF TakeState
<1>2. /\ Given(c) # <<>> /\ Given(c) \in Seq(Messages) /\ 1 \in DOMAIN Given(c)
      /\ Stamped(Given(c)[1]) /\ Stamped(Head(Given(c))) /\ Stamp(Head(Given(c))) = Head(down[c]).id
  BY <1>0, <1>1, FirstOfGiven DEF Stamped, Stamp
<1>3. c \in Subscribed /\ Live(c)
  BY <1>0, <1>1, <1>2 DEF StreamOK, UnsubscribedOK, Live
<1>4. PICK n \in DueTo(c) : n >= 1 /\ Chain(Given(c), n, NextSent(c))
  BY <1>0, <1>3 DEF StreamOK, FlowOK
<1>5. n \in Nat /\ NextSent(c) \in Nat /\ state_id \in Nat /\ NextSent(c) <= state_id + 1
  BY <1>0 DEF DueTo, TypesOK, MessagesOK, NextSent
<1>6. Head(down[c]).id = n /\ n < NextSent(c) /\ Chain(Tail(Given(c)), n + 1, NextSent(c))
  BY <1>2, <1>4, <1>5, ChainTail
<1>7. n <= state_id
  BY <1>5, <1>6
<1> QED
  BY <1>3, <1>4, <1>5, <1>6, <1>7

\* A state taken and, by a Gamer, answered.
LEMMA TakeStateSInv ==
  ASSUME SInv, NEW c \in Peers, TakeState(c)
  PROVE  SInv'
<1> DEFINE t == TurnMessage(player_id_[c], Head(down[c]).id)
<1>0. /\ PeerStep(c) /\ PeerTypeOK /\ NetTypeOK /\ IInv
  BY DEF PeerStep, SInv, IInv, TypeOK
<1>1. /\ peer[c] = "playing" /\ peer' = peer /\ conn' = conn /\ down[c] # <<>>
      /\ down'[c] = Tail(down[c]) /\ seen'[c] = Head(down[c]).id
      /\ up'[c] = IF c \in Clients THEN up[c] \o <<t>> ELSE up[c]
  BY <1>0 DEF TakeState, Answer, PeerTypeOK, NetTypeOK
<1>2. PICK n \in DueTo(c) :
        /\ n = Head(down[c]).id /\ n \in Nat /\ 1 <= n
        /\ c \in Subscribed /\ Chain(Tail(Given(c)), n + 1, NextSent(c))
  BY TakesDue
<1>3. /\ since' = since /\ output' = output /\ NextSent(c)' = NextSent(c)
      /\ (c \in Subscribed)' /\ TypesOK(c) /\ StreamOK(c)
  BY <1>0, <1>2, OwnStep
<1>4. Given(c)' = Tail(Given(c))
  BY <1>0, <1>1, <1>3, FirstOfGiven DEF Given
<1>5. FlowOK(c)'
  <2>1. n + 1 \in DueTo(c)' /\ n + 1 >= 1
    BY <1>1, <1>2 DEF DueTo
  <2>2. Chain(Given(c)', n + 1, NextSent(c)')
    BY <1>2, <1>3, <1>4
  <2>3. \E k \in DueTo(c)' : k >= 1 /\ Chain(Given(c)', k, NextSent(c)')
    BY <2>1, <2>2
  <2> QED
    BY <2>3 DEF FlowOK, Chain, Stamped, Stamp
<1>6. UnsubscribedOK(c)'
  BY <1>3 DEF UnsubscribedOK
<1>7. RequestOK(c)'
  <2>1. \A i \in DOMAIN up[c] : up[c][i].type = "TURN"
    BY <1>2, <1>3 DEF StreamOK, RequestOK
  <2>2. CASE c \in Clients
    <3>1. t \in Messages /\ t.type = "TURN"
      BY <1>2, <1>3 DEF TurnMessage, Messages, UpMessage, Turn, Accelerations, TypesOK, MessagesOK
    <3> HIDE DEF t
    <3>2. up'[c] = Append(up[c], t) /\ up[c] \in Seq(Messages)
      BY <1>1, <1>3, <2>2, <3>1, AppendIsConcat DEF TypesOK, MessagesOK
    <3> DEFINE a == Append(up[c], t)
    <3>3. /\ DOMAIN a = 1..(Len(up[c]) + 1) /\ DOMAIN up[c] = 1..Len(up[c]) /\ Len(up[c]) \in Nat
          /\ \A i \in 1..Len(up[c]) : a[i] = up[c][i]
          /\ a[Len(up[c]) + 1] = t
      BY <3>1, <3>2, Appended
    <3> HIDE DEF a
    <3>4. ASSUME NEW i \in DOMAIN a
          PROVE  a[i].type = "TURN"
      <4>1. CASE i \in 1..Len(up[c])
        BY <2>1, <3>3, <4>1
      <4>2. CASE i = Len(up[c]) + 1
        BY <3>1, <3>3, <4>2
      <4> QED
        BY <3>3, <4>1, <4>2
    <3>5. up'[c] = a
      BY <3>2 DEF a
    <3> QED
      BY <1>1, <3>4, <3>5 DEF RequestOK
  <2>3. CASE c \notin Clients
    BY <1>1, <2>1, <2>3 DEF RequestOK
  <2> QED
    BY <2>2, <2>3
<1>8. ConnOK(c)'
  BY <1>1, <1>2, <1>3 DEF StreamOK, ConnOK
<1> QED
  BY <1>0, <1>5, <1>6, <1>7, <1>8, OnePeerSInv DEF StreamOK

\* The end of a peer.
LEMMA PeerEndsSInv ==
  ASSUME SInv, NEW c \in Peers, TakeFinish(c) \/ Die(c)
  PROVE  SInv'
<1>0. /\ PeerStep(c) /\ PeerTypeOK /\ NetTypeOK
  BY DEF PeerStep, SInv, IInv, TypeOK
<1>1. /\ peer'[c] \in {"gone", "finished"} /\ peer[c] # "gone"
      /\ seen'[c] = seen[c] /\ up'[c] = up[c] /\ conn'[c] = conn[c]
      /\ \/ down'[c] = <<>>
         \/ down[c] # <<>> /\ down'[c] = Tail(down[c])
  BY <1>0 DEF TakeFinish, Die, PeerTypeOK, NetTypeOK
<1> QED
  BY <1>0, <1>1, PeerStopsSInv

-----------------------------------------------------------------------------
(* The invariant *)

\* Every step of the server and its peers.
LEMMA NextSInv == SInv /\ [Next]_vars => SInv'
<1> SUFFICES ASSUME SInv, [Next]_vars PROVE SInv'
  OBVIOUS
<1>1. CASE GameThread
  BY <1>1, GameThreadSInv
<1>2. CASE IoThread
  BY <1>2, IoThreadSInv
<1>3. ASSUME NEW p \in Peers, Join(p) \/ Reads(p) \/ Die(p)
      PROVE  SInv'
  BY <1>3, JoinSInv, ConfirmedSInv, TakeStateSInv, PeerEndsSInv DEF Reads
<1>4. CASE UNCHANGED vars
  <2>1. IInv'
    BY <1>4, StutterIInv DEF SInv
  <2>2. /\ UNCHANGED <<gameVars, state_id, client_ids_, viewer_ids_, since>>
        /\ UNCHANGED peerVars /\ UNCHANGED netVars /\ EventsOK'
    BY <1>4 DEF vars, stateVars, obsVars, ioVars, netVars, peerVars, SInv, EventsOK
  <2> QED
    BY <2>1, <2>2, IoLeaves
<1> QED
  BY <1>1, <1>2, <1>3, <1>4 DEF Next

\* Every stream goes on where it stopped, in every reachable state.
THEOREM StreamInvariance == Spec => []SInv
BY InitSInv, NextSInv, PTL DEF Spec

-----------------------------------------------------------------------------
(* The refinement *)

\* A step that ObserverStream does not see.
LEMMA StreamsUnseen ==
  ASSUME state_id' = state_id, Subscribed' = Subscribed, since' = since, seen' = seen,
         \A p \in Peers : Live(p)' = Live(p)
  PROVE  UNCHANGED Streams!vars
<1>1. [p \in Peers |-> peer[p] \in {"finished", "gone"}]'
        = [p \in Peers |-> peer[p] \in {"finished", "gone"}]
  BY DEF Live
<1> QED
  BY <1>1 DEF Streams!vars

\* The server begins where ObserverStream does.
LEMMA InitStreams == Init => Streams!Init
<1> SUFFICES ASSUME Init PROVE Streams!Init
  OBVIOUS
<1>1. Subscribed = {} /\ \A p \in Peers : peer[p] = "new"
  BY DEF Init, Subscribed
<1>2. [p \in Peers |-> peer[p] \in {"finished", "gone"}] = [p \in Peers |-> FALSE]
  <2>1. \A p \in Peers : (peer[p] \in {"finished", "gone"}) = FALSE
    BY <1>1
  <2> QED
    BY <2>1, Zenon
<1> QED
  BY <1>1, <1>2 DEF Init, Streams!Init

\* The game thread advances the game once per round.
LEMMA GameThreadStreams ==
  ASSUME SInv, GameThread
  PROVE  [Streams!Next]_(Streams!vars)
<1>1. UNCHANGED obsVars /\ UNCHANGED peerVars
  BY DEF GameThread, CheckPlayersCount, BeginState, BeginFinish, SendToNext,
         SendReadsFreedMemory, ClientsDone, ViewersDone, Emulate, Stop
<1>2. /\ Subscribed' = Subscribed /\ since' = since /\ seen' = seen /\ peer' = peer
      /\ \A p \in Peers : Live(p)' = Live(p)
  BY <1>1 DEF Subscribed, obsVars, peerVars, Live
<1>3. CASE BeginState
  <2>1. Streams!Advance
    BY <1>2, <1>3 DEF BeginState, Streams!Advance
  <2> QED
    BY <2>1 DEF Streams!Next
<1>4. CASE ~BeginState
  <2>1. gpc = "waiting" => state_id = 0
    BY DEF SInv, IInv
  <2>2. state_id' = state_id
    BY <1>4, <2>1 DEF GameThread, CheckPlayersCount, InitialStateId, BeginFinish, SendToNext,
           SendReadsFreedMemory, ClientsDone, ViewersDone, Emulate, Stop, stateVars
  <2> QED
    BY <1>2, <2>2, StreamsUnseen
<1> QED
  BY <1>3, <1>4

\* A request that the IO thread takes makes its peer an observer of the state the game
\* is at.
LEMMA IoThreadStreams ==
  ASSUME SInv, IoThread
  PROVE  [Streams!Next]_(Streams!vars)
<1>1. state_id' = state_id /\ UNCHANGED peerVars
  BY DEF IoThread, LoopTop, Poll, BatchDone, Accept, OnError, OnOutput, OnOutputFails, OnInput,
         ReceiveMessage, InputDrained, EndOfFile, RecvFails, RefusePlayer, AddPlayer,
         GetPlayerSpins, SendConfirmation, AddTurn, stateVars
<1>2. seen' = seen /\ peer' = peer /\ \A p \in Peers : Live(p)' = Live(p)
  BY <1>1 DEF peerVars, Live
<1>3. CASE UNCHANGED <<client_ids_, viewer_ids_, since>>
  BY <1>1, <1>2, <1>3, StreamsUnseen DEF Subscribed
<1>4. CASE ReceiveMessage /\ ~UNCHANGED <<client_ids_, viewer_ids_, since>>
  <2>1. PICK c \in Peers : c = current.conn
    BY <1>4 DEF ReceiveMessage, SInv, IInv, HandledKnown, Handling
  <2>2. /\ up[c] # <<>> /\ Head(up[c]).type # "TURN" /\ UNCHANGED <<gameVars, state_id>>
        /\ since' = [since EXCEPT ![c] = state_id]
        /\ \/ client_ids_' = Append(client_ids_, c) /\ viewer_ids_' = viewer_ids_
           \/ viewer_ids_' = Append(viewer_ids_, c) /\ client_ids_' = client_ids_
    BY <1>1, <1>4, <2>1 DEF ReceiveMessage
  <2>3. c \notin Subscribed
    <3>1. up[c] \in Seq(Messages) /\ RequestOK(c)
      BY StreamTypes DEF SInv, TypesOK, MessagesOK, StreamOK
    <3>2. 1 \in DOMAIN up[c] /\ up[c][1] = Head(up[c])
      BY <2>2, <3>1
    <3> QED
      BY <2>2, <3>1, <3>2 DEF RequestOK
  <2>4. Subscribed' = Subscribed \union {c}
    BY <2>2, <2>3, Subscribing
  <2>5. Streams!Join(c)
    BY <1>1, <1>2, <2>2, <2>3, <2>4 DEF Streams!Join
  <2> QED
    BY <2>5 DEF Streams!Next
<1>5. ReceiveMessage \/ UNCHANGED <<client_ids_, viewer_ids_, since>>
  BY DEF IoThread, LoopTop, Poll, BatchDone, Accept, OnError, OnOutput, OnOutputFails, OnInput,
         InputDrained, EndOfFile, RecvFails, RefusePlayer, AddPlayer,
         GetPlayerSpins, SendConfirmation, AddTurn, obsVars
<1> QED
  BY <1>3, <1>4, <1>5

\* A peer takes the state it is due, or stops.
LEMMA PeerStreams ==
  ASSUME SInv, NEW c \in Peers, PeerStep(c)
  PROVE  [Streams!Next]_(Streams!vars)
<1> DEFINE over == [p \in Peers |-> peer[p] \in {"finished", "gone"}]
<1>0. /\ PeerTypeOK /\ state_id' = state_id /\ UNCHANGED obsVars
  BY PeerFrame DEF SInv, IInv, TypeOK
<1>1. Subscribed' = Subscribed /\ since' = since
  BY <1>0 DEF obsVars, Subscribed
<1>2. CASE seen' = seen /\ peer[c] # "gone" /\ peer[c] # "finished"
             /\ peer'[c] \notin {"finished", "gone"}
  <2>1. \A p \in Peers : Live(p)' = Live(p)
    BY <1>0, <1>2 DEF PeerStep, Join, Confirmed, TakeState, TakeFinish, Die, PeerTypeOK, Live
  <2> QED
    BY <1>0, <1>1, <1>2, <2>1, StreamsUnseen
<1>3. CASE seen' = seen /\ peer'[c] \in {"finished", "gone"}
  <2>1. \A p \in Peers : p # c => peer'[p] = peer[p]
    BY <1>0 DEF PeerStep, Join, Confirmed, TakeState, TakeFinish, Die, PeerTypeOK
  <2>2. over' = [over EXCEPT ![c] = TRUE]
    BY <1>3, <2>1
  <2>3. Streams!Stop(c)
    BY <1>0, <1>1, <1>3, <2>2 DEF Streams!Stop
  <2> QED
    BY <2>3 DEF Streams!Next
<1>4. CASE TakeState(c)
  <2>1. PICK n \in DueTo(c) :
          /\ n = Head(down[c]).id /\ n \in Nat /\ 1 <= n /\ n <= state_id
          /\ c \in Subscribed /\ Live(c)
    BY <1>4, TakesDue
  <2>2. seen' = [seen EXCEPT ![c] = n] /\ peer' = peer
    BY <1>4, <2>1 DEF TakeState
  <2>3. n \in Streams!Due(c) \intersect (1..state_id)
    <3>1. state_id \in Nat
      BY DEF SInv, IInv, TypeOK, StateTypeOK
    <3>2. Streams!Due(c) = DueTo(c)
      BY DEF Streams!Due, DueTo
    <3> QED
      BY <2>1, <3>1, <3>2
  <2>4. over' = over /\ ~over[c]
    BY <2>1, <2>2 DEF Live
  <2>5. Streams!Take(c)
    BY <1>0, <1>1, <2>1, <2>2, <2>3, <2>4 DEF Streams!Take
  <2> QED
    BY <2>5 DEF Streams!Next
<1>5. \/ TakeState(c)
      \/ seen' = seen /\ peer'[c] \in {"finished", "gone"}
      \/ seen' = seen /\ peer[c] # "gone" /\ peer[c] # "finished"
           /\ peer'[c] \notin {"finished", "gone"}
  BY <1>0 DEF PeerStep, Join, Confirmed, TakeFinish, Die, PeerTypeOK
<1> QED
  BY <1>2, <1>3, <1>4, <1>5

\* Every step is one of ObserverStream, or one that it does not see.
LEMMA NextStreams == SInv /\ [Next]_vars => [Streams!Next]_(Streams!vars)
<1> SUFFICES ASSUME SInv, [Next]_vars PROVE [Streams!Next]_(Streams!vars)
  OBVIOUS
<1>1. CASE GameThread
  BY <1>1, GameThreadStreams
<1>2. CASE IoThread
  BY <1>2, IoThreadStreams
<1>3. ASSUME NEW p \in Peers, Join(p) \/ Reads(p) \/ Die(p)
      PROVE  [Streams!Next]_(Streams!vars)
  BY <1>3, PeerStreams DEF Reads, PeerStep
<1>4. CASE UNCHANGED vars
  <2>1. /\ state_id' = state_id /\ Subscribed' = Subscribed /\ since' = since /\ seen' = seen
        /\ \A p \in Peers : Live(p)' = Live(p)
    BY <1>4 DEF vars, stateVars, obsVars, peerVars, Subscribed, Live
  <2> QED
    BY <2>1, StreamsUnseen
<1> QED
  BY <1>1, <1>2, <1>3, <1>4 DEF Next

\* The server implements ObserverStream for any number of observers: each is given every
\* state from its subscription on, in order and without a gap, whatever the interleaving
\* of the send loops with the subscriptions, the flushes, the closes and the peers.
THEOREM ServerImplementsStreams == Spec => StreamsSpec
BY InitStreams, NextStreams, StreamInvariance, PTL DEF Spec, StreamsSpec, Streams!Spec

-----------------------------------------------------------------------------
(***************************************************************************)
(* The end of the game                                                     *)
(*                                                                         *)
(* The end of the game reaches everybody it concerns: when the game thread *)
(* has sent FINISH, it is the last message on its way to every playing     *)
(* peer that was given a state.                                            *)
(*                                                                         *)
(* What could come behind it is the answer to a subscription, since        *)
(* AddClient makes a client an observer before it is answered. But a peer  *)
(* whose answer comes behind a state or FINISH never plays.                *)
(***************************************************************************)

IsAnswer(m) == m.type \in {"CLI_SUB_RESULT", "VIEW_SUB_RESULT"}
EndsWell(s) == s # <<>> /\ s[Len(s)].type = "FINISH"

\* An observer whose answer the IO thread has still to queue, and the peers that
\* have none on its way.
Unanswered(p) ==
  /\ ipc \in {"addPlayer", "spinning", "refused", "accepted", "confirmViewer"}
  /\ current.conn = p
Waits(p) == p \notin Subscribed \/ Unanswered(p)

AskedOK(p) ==
  /\ peer[p] \in {"new", "joining"} => seen[p] = 0
  /\ Unanswered(p) => p \in Subscribed
  /\ Waits(p) => peer[p] # "playing" /\ \A i \in DOMAIN Given(p) : ~IsAnswer(Given(p)[i])

\* The game is over, and FINISH is being sent or was sent.
Finishing == gpc \in {"finishToClients", "finishToViewers", "stopping", "done"}
ToFinish(p) ==
  \/ gpc = "finishToClients" /\ \E i \in sendPos..sendEnd : client_ids_[i] = p
  \/ gpc = "finishToClients" /\ IsViewer(p)
  \/ gpc = "finishToViewers" /\ \E i \in sendPos..sendEnd : viewer_ids_[i] = p

\* p was given a state.
Stated(p) == seen[p] > 0 \/ \E i \in DOMAIN Given(p) : Stamped(Given(p)[i])
\* p plays, or will if the next message on its way is an answer.
Hopeful(p) ==
  \/ peer[p] = "playing"
  \/ peer[p] = "joining" /\ (Given(p) # <<>> => IsAnswer(Given(p)[1]))

FinOK(p) ==
  Finishing /\ Stated(p) /\ Hopeful(p) => ToFinish(p) \/ EndsWell(Given(p))

FInv == SInv /\ \A p \in Peers : AskedOK(p) /\ FinOK(p)

-----------------------------------------------------------------------------
(* One peer in one step *)

\* The last message stays the last when the first one is taken and is another one.
LEMMA TailEndsWell ==
  ASSUME NEW s \in Seq(Messages), s # <<>>, Head(s).type # "FINISH", EndsWell(s)
  PROVE  EndsWell(Tail(s))
<1> DEFINE t == Tail(s)
<1>1. t \in Seq(Messages) /\ Len(t) = Len(s) - 1 /\ Len(s) \in Nat /\ Len(s) >= 1
      /\ Head(s) = s[1] /\ \A i \in 1..Len(t) : t[i] = s[i + 1]
  BY HeadTailProperties, EmptySeq
<1> HIDE DEF t
<1>2. Len(s) # 1 /\ Len(t) \in Nat
  BY <1>1 DEF EndsWell
<1>3. Len(t) \in 1..Len(t) /\ Len(t) + 1 = Len(s)
  BY <1>1, <1>2
<1>4. t # <<>> /\ t[Len(t)] = s[Len(s)]
  BY <1>1, <1>3
<1> QED
  BY <1>4 DEF EndsWell, t

\* FINISH is sent.
LEMMA FinishEndsWell ==
  ASSUME NEW s \in Seq(Messages), NEW m \in Messages, m.type = "FINISH"
  PROVE  EndsWell(Append(s, m))
<1>1. Append(s, m) # <<>> /\ Len(Append(s, m)) = Len(s) + 1 /\ Append(s, m)[Len(s) + 1] = m
  BY Appended
<1> QED
  BY <1>1 DEF EndsWell

\* Nothing is stamped, confirmed or answered in a part that is not in the whole.
LEMMA PartHasLess ==
  ASSUME NEW a, NEW b, Part(a, b)
  PROVE  /\ (\A i \in DOMAIN b : ~IsAnswer(b[i])) => \A i \in DOMAIN a : ~IsAnswer(a[i])
         /\ (\E i \in DOMAIN a : Stamped(a[i])) => \E i \in DOMAIN b : Stamped(b[i])
BY PartElement

\* A step that gives p nothing.
LEMMA StillAsked ==
  ASSUME NEW p \in Peers, AskedOK(p), Part(Given(p)', Given(p)), seen'[p] = seen[p],
         (p \notin Subscribed)' => p \notin Subscribed, Unanswered(p)' => (p \in Subscribed)',
         Unanswered(p)' => Waits(p),
         peer'[p] \in {"new", "joining"} => peer[p] \in {"new", "joining"},
         peer'[p] = "playing" => peer[p] = "playing"
  PROVE  AskedOK(p)'
<1>1. Waits(p)' => Waits(p)
  BY DEF Waits
<1>2. (\A i \in DOMAIN Given(p) : ~IsAnswer(Given(p)[i])) =>
        \A i \in DOMAIN Given(p)' : ~IsAnswer(Given(p)'[i])
  BY PartHasLess
<1> QED
  BY <1>1, <1>2 DEF AskedOK, IsAnswer

\* A step that gives p nothing, and changes nothing in what the game thread has to
\* send it.
LEMMA StillFinished ==
  ASSUME NEW p \in Peers, FinOK(p), Live(p)' => Given(p)' = Given(p), seen'[p] = seen[p],
         peer'[p] \in {"joining", "playing"} => peer'[p] = peer[p],
         Finishing' => Finishing /\ (ToFinish(p) => ToFinish(p)')
  PROVE  FinOK(p)'
<1> SUFFICES ASSUME Finishing', Stated(p)', Hopeful(p)'
             PROVE  ToFinish(p)' \/ EndsWell(Given(p)')
  BY DEF FinOK, EndsWell
<1>1. Live(p)' /\ peer'[p] = peer[p]
  BY DEF Hopeful, Live
<1>2. Given(p)' = Given(p) /\ Stated(p) /\ Hopeful(p)
  BY <1>1 DEF Stated, Stamped, Hopeful, IsAnswer
<1> QED
  BY <1>2 DEF FinOK

\* Nobody is stated who has not subscribed.
LEMMA UnsubscribedNotStated ==
  ASSUME SInv, NEW p \in Peers, p \notin Subscribed
  PROVE  seen[p] = 0 /\ ~Stated(p)
BY DEF SInv, StreamOK, UnsubscribedOK, Stated

\* The server starts without observers.
LEMMA InitFInv == Init => FInv
<1> SUFFICES ASSUME Init, NEW p \in Peers
             PROVE  SInv /\ AskedOK(p) /\ FinOK(p)
  BY InitSInv DEF FInv
<1>1. Given(p) = <<>> /\ seen[p] = 0 /\ peer[p] = "new" /\ ~Unanswered(p) /\ ~Finishing
  BY DEF Init, Given, Unanswered, Finishing
<1> QED
  BY <1>1, InitSInv DEF AskedOK, FinOK

-----------------------------------------------------------------------------
(* The game thread *)

\* A step of the game thread that sends nothing.
LEMMA GameSendsNothing ==
  ASSUME FInv, SInv', UNCHANGED <<ioVars, obsVars, netVars, peerVars>>,
         \A p \in Peers : Finishing' /\ Stated(p) =>
                            ToFinish(p)' \/ (Finishing /\ ~ToFinish(p))
  PROVE  FInv'
<1>0. /\ ipc' = ipc /\ current' = current /\ client_ids_' = client_ids_ /\ viewer_ids_' = viewer_ids_
      /\ output' = output /\ down' = down /\ peer' = peer /\ seen' = seen
  BY DEF ioVars, obsVars, netVars, peerVars
<1>1. ASSUME NEW p \in Peers
      PROVE  AskedOK(p)' /\ FinOK(p)'
  <2>1. AskedOK(p) /\ FinOK(p)
    BY DEF FInv
  <2>2. /\ Given(p)' = Given(p) /\ (Unanswered(p)' <=> Unanswered(p)) /\ Subscribed' = Subscribed
        /\ (Stated(p)' <=> Stated(p)) /\ (Hopeful(p)' <=> Hopeful(p))
    BY <1>0 DEF Given, Unanswered, Subscribed, Stated, Stamped, Hopeful, IsAnswer
  <2>3. AskedOK(p)'
    BY <1>0, <2>1, <2>2 DEF AskedOK, Waits, IsAnswer
  <2>4. FinOK(p)'
    BY <2>1, <2>2 DEF FinOK, EndsWell
  <2> QED
    BY <2>3, <2>4
<1> QED
  BY <1>1 DEF FInv

\* The steps of the game thread outside the loops' bodies.
LEMMA GameMovesFInv ==
  ASSUME FInv, SInv', GameThread, ~SendToNext
  PROVE  FInv'
<1>0. /\ client_ids_ \in Seq(Peers) /\ viewer_ids_ \in Seq(Peers)
      /\ sendPos \in Nat \ {0} /\ sendEnd \in Nat
      /\ SInv /\ gpc \in GamePcs
  BY DEF FInv, SInv, IInv, TypeOK, ObsTypeOK, GameTypeOK
<1>1. UNCHANGED <<ioVars, obsVars, netVars, peerVars>>
  BY DEF GameThread, CheckPlayersCount, BeginState, BeginFinish,
         SendReadsFreedMemory, ClientsDone, ViewersDone, Emulate, Stop
<1>2. client_ids_' = client_ids_ /\ viewer_ids_' = viewer_ids_
  BY <1>1 DEF obsVars
<1>3. ASSUME NEW p \in Peers, Finishing', Stated(p)
      PROVE  ToFinish(p)' \/ (Finishing /\ ~ToFinish(p))
  <2>1. CASE BeginFinish
    <3>1. gpc' = "finishToClients" /\ sendPos' = 1 /\ sendEnd' = Len(client_ids_)
      BY <2>1 DEF BeginFinish
    <3>2. IsClient(p) \/ IsViewer(p)
      BY <1>0, <1>3, OnePlace, UnsubscribedNotStated
    <3>3. IsViewer(p)' <=> IsViewer(p)
      BY <1>2 DEF IsViewer
    <3>4. ASSUME IsClient(p)
          PROVE  \E i \in sendPos'..sendEnd' : client_ids_'[i] = p
      <4>1. PICK i \in DOMAIN client_ids_ : client_ids_[i] = p
        BY <3>4 DEF IsClient
      <4>2. i \in sendPos'..sendEnd'
        BY <1>0, <3>1
      <4> QED
        BY <1>2, <4>1, <4>2
    <3> QED
      BY <3>1, <3>2, <3>3, <3>4 DEF ToFinish
  <2>2. CASE ClientsDone
    <3>1. /\ gpc = "finishToClients" /\ gpc' = "finishToViewers" /\ sendPos > sendEnd
          /\ sendPos' = 1 /\ sendEnd' = Len(viewer_ids_)
      BY <1>3, <2>2 DEF ClientsDone, Finishing
    <3>2. ToFinish(p) <=> IsViewer(p)
      BY <1>0, <3>1 DEF ToFinish
    <3>3. ToFinish(p)' <=> \E i \in 1..Len(viewer_ids_) : viewer_ids_[i] = p
      BY <1>2, <3>1 DEF ToFinish
    <3>4. IsViewer(p) <=> \E i \in 1..Len(viewer_ids_) : viewer_ids_[i] = p
      BY <1>0 DEF IsViewer
    <3> QED
      BY <3>1, <3>2, <3>3, <3>4 DEF Finishing
  <2>3. CASE ViewersDone
    <3>1. gpc = "finishToViewers" /\ sendPos > sendEnd
      BY <1>3, <2>3 DEF ViewersDone, Finishing
    <3> QED
      BY <1>0, <3>1 DEF ToFinish, Finishing
  <2>4. CASE Stop
    BY <2>4 DEF Stop, ToFinish, Finishing
  <2>5. CASE SendReadsFreedMemory
    <3>1. gpc' = gpc /\ sendPos' = sendPos /\ sendEnd' = sendEnd
      BY <2>5 DEF SendReadsFreedMemory, gameVars
    <3>2. ToFinish(p)' <=> ToFinish(p)
      BY <1>2, <3>1 DEF ToFinish, IsViewer
    <3> QED
      BY <1>3, <3>1, <3>2 DEF Finishing
  <2>6. CASE CheckPlayersCount \/ BeginState \/ Emulate
    BY <1>3, <2>6 DEF CheckPlayersCount, BeginState, Emulate, Finishing
  <2> QED
    BY <2>1, <2>2, <2>3, <2>4, <2>5, <2>6 DEF GameThread
<1> QED
  BY <1>1, <1>3, GameSendsNothing


\* A message that is no answer is appended.
LEMMA StillNoAnswer ==
  ASSUME NEW s \in Seq(Messages), NEW m \in Messages, ~IsAnswer(m),
         \A i \in DOMAIN s : ~IsAnswer(s[i])
  PROVE  \A i \in DOMAIN Append(s, m) : ~IsAnswer(Append(s, m)[i])
<1> DEFINE a == Append(s, m)
<1>1. /\ DOMAIN a = 1..(Len(s) + 1) /\ DOMAIN s = 1..Len(s) /\ Len(s) \in Nat
      /\ \A i \in 1..Len(s) : a[i] = s[i]
      /\ a[Len(s) + 1] = m
  BY Appended
<1> HIDE DEF a
<1>2. ASSUME NEW i \in DOMAIN a
      PROVE  ~IsAnswer(a[i])
  <2>1. CASE i \in 1..Len(s)
    BY <1>1, <2>1
  <2>2. CASE i = Len(s) + 1
    BY <1>1, <2>2
  <2> QED
    BY <1>1, <2>1, <2>2
<1> QED
  BY <1>2 DEF a

\* One observer is sent a state, or FINISH.
LEMMA SendToNextFInv ==
  ASSUME FInv, SInv', SendToNext
  PROVE  FInv'
<1>0. /\ SInv /\ IInv /\ client_ids_ \in Seq(Peers) /\ viewer_ids_ \in Seq(Peers)
      /\ sendPos \in Nat \ {0} /\ sendEnd \in Nat /\ LoopOK /\ state_id \in Nat
  BY DEF FInv, SInv, IInv, TypeOK, ObsTypeOK, GameTypeOK, StateTypeOK
<1>1. /\ UNCHANGED <<ioVars, obsVars, conn, up, down, peerVars>>
      /\ gpc \in SendPhases /\ gpc' = gpc /\ sendPos <= sendEnd
      /\ sendPos' = sendPos + 1 /\ sendEnd' = sendEnd
      /\ SendMessage(Outgoing, Observers[sendPos])
  BY DEF SendToNext
<1>2. /\ ipc' = ipc /\ current' = current /\ client_ids_' = client_ids_ /\ viewer_ids_' = viewer_ids_
      /\ down' = down /\ conn' = conn /\ peer' = peer /\ seen' = seen
  BY <1>1 DEF ioVars, obsVars, peerVars
<1>3. /\ gpc \in {"stateToClients", "finishToClients"} =>
           sendPos \in DOMAIN client_ids_ /\ Observers[sendPos] = client_ids_[sendPos]
      /\ gpc \in {"stateToViewers", "finishToViewers"} =>
           sendPos \in DOMAIN viewer_ids_ /\ Observers[sendPos] = viewer_ids_[sendPos]
  BY <1>0, <1>1 DEF LoopOK, Observers, SendPhases
<1>4. PICK c \in Peers : c = Observers[sendPos] /\ c \in Subscribed
  <2>1. /\ \A i \in DOMAIN client_ids_ : client_ids_[i] \in Peers
        /\ \A i \in DOMAIN viewer_ids_ : viewer_ids_[i] \in Peers
    BY <1>0
  <2> QED
    BY <1>1, <1>3, <2>1 DEF Subscribed, SendPhases
<1>5. ASSUME NEW p \in Peers
      PROVE  /\ AskedOK(p) /\ FinOK(p) /\ TypesOK(p) /\ ConnOK(p)
             /\ (Waits(p)' <=> Waits(p)) /\ (Unanswered(p)' <=> Unanswered(p))
             /\ (p \in Subscribed)' = (p \in Subscribed)
             /\ (Finishing' <=> Finishing) /\ (IsViewer(p)' <=> IsViewer(p))
  BY <1>0, <1>1, <1>2, StreamTypes
     DEF FInv, SInv, StreamOK, Waits, Unanswered, Subscribed, Finishing, IsViewer
<1>6. ASSUME NEW p \in Peers, p # c
      PROVE  AskedOK(p)' /\ FinOK(p)'
  <2>0. output'[p] = output[p]
    BY <1>1, <1>4, <1>6 DEF SendMessage
  <2>1. Given(p)' = Given(p)
    BY <1>2, <2>0 DEF Given
  <2>2. AskedOK(p)'
    BY <1>2, <1>5, <2>1 DEF AskedOK, IsAnswer
  <2>3. gpc = "finishToClients" =>
          ((\E i \in sendPos..sendEnd : client_ids_[i] = p)
            <=> (\E i \in (sendPos + 1)..sendEnd : client_ids_[i] = p))
    BY <1>0, <1>1, <1>3, <1>4, <1>6
  <2>4. gpc = "finishToViewers" =>
          ((\E i \in sendPos..sendEnd : viewer_ids_[i] = p)
            <=> (\E i \in (sendPos + 1)..sendEnd : viewer_ids_[i] = p))
    BY <1>0, <1>1, <1>3, <1>4, <1>6
  <2>5. ToFinish(p)' <=> ToFinish(p)
    BY <1>1, <1>2, <1>5, <2>3, <2>4 DEF ToFinish
  <2>6. (Stated(p)' <=> Stated(p)) /\ (Hopeful(p)' <=> Hopeful(p))
    BY <1>2, <2>1 DEF Stated, Stamped, Hopeful, IsAnswer
  <2>7. FinOK(p)'
    BY <1>5, <2>1, <2>5, <2>6 DEF FinOK, EndsWell
  <2> QED
    BY <2>2, <2>7
<1>7. Outgoing \in Messages /\ ~IsAnswer(Outgoing) /\ (Finishing => Outgoing.type = "FINISH")
  BY <1>0 DEF Outgoing, State, Finish, Messages, DownMessage, IsAnswer, Finishing
<1>8. conn[c] = "open" => Given(c)' = Append(Given(c), Outgoing)
  BY <1>0, <1>1, <1>2, <1>4, <1>7, GivenSent
<1>9. conn[c] # "open" => Given(c)' = Given(c)
  BY <1>1, <1>2, <1>4 DEF SendMessage, Given
<1>10. Given(c) \in Seq(Messages)
  BY <1>5 DEF TypesOK, MessagesOK
<1>11. AskedOK(c)'
  <2>1. (\A i \in DOMAIN Given(c) : ~IsAnswer(Given(c)[i])) =>
          \A i \in DOMAIN Given(c)' : ~IsAnswer(Given(c)'[i])
    BY <1>7, <1>8, <1>9, <1>10, StillNoAnswer
  <2> QED
    BY <1>2, <1>5, <2>1 DEF AskedOK, IsAnswer
<1>12. FinOK(c)'
  <2> SUFFICES ASSUME Finishing, Hopeful(c)'
               PROVE  EndsWell(Given(c)')
    BY <1>5 DEF FinOK, EndsWell
  <2>1. conn[c] = "open"
    BY <1>2, <1>4, <1>5 DEF ConnOK, Hopeful
  <2> QED
    BY <1>7, <1>8, <1>10, <2>1, FinishEndsWell
<1> QED
  BY <1>6, <1>11, <1>12 DEF FInv

\* Every step of the game thread.
LEMMA GameThreadFInv ==
  ASSUME FInv, GameThread
  PROVE  FInv'
<1>1. SInv'
  BY GameThreadSInv DEF FInv
<1> QED
  BY <1>1, GameMovesFInv, SendToNextFInv


-----------------------------------------------------------------------------
(* The IO thread *)

\* Apart from the answers, it gives nobody anything, and takes nothing from a peer that
\* still reads.
LEMMA IoGives ==
  ASSUME SInv, IoThread, ~SendConfirmation, NEW p \in Peers
  PROVE  Part(Given(p)', Given(p)) /\ (Live(p) => Given(p)' = Given(p))
<1>0. NetTypeOK /\ IInv /\ EventsOK /\ HandledKnown /\ TypesOK(p)
  BY StreamTypes DEF SInv, IInv, TypeOK
<1>1. CASE output' = output /\ down' = down
  <2>1. Given(p)' = Given(p) /\ Given(p) \in Seq(Messages)
    BY <1>0, <1>1 DEF Given, TypesOK, MessagesOK
  <2> QED
    BY <2>1, PartRefl
<1>2. ASSUME NEW c \in Peers, OnOutput(c)
      PROVE  Part(Given(p)', Given(p)) /\ (Live(p) => Given(p)' = Given(p))
  <2>1. \/ output'[p] = output[p] /\ down'[p] = down[p]
        \/ /\ output'[p] = <<>>
           /\ down'[p] = IF peer[p] = "gone" THEN down[p] ELSE down[p] \o output[p]
    BY <1>0, <1>2 DEF OnOutput, Flushed, NetTypeOK
  <2>2. Part(Given(p)', Given(p))
    BY <1>0, <2>1, GivenLess
  <2>3. CASE output'[p] = output[p] /\ down'[p] = down[p]
    BY <2>2, <2>3 DEF Given
  <2>4. CASE output'[p] = <<>> /\ down'[p] = down[p] \o output[p]
    <3>1. Given(p)' = Given(p) \o <<>> /\ Given(p) \in Seq(Messages)
      BY <1>0, <2>4 DEF Given, TypesOK, MessagesOK
    <3> QED
      BY <2>2, <3>1, ConcatEmptySeq
  <2> QED
    BY <2>1, <2>2, <2>3, <2>4 DEF Live
<1>3. ASSUME NEW c \in Peers, CloseConnection(c), peer[c] = "gone", down' = down
      PROVE  Part(Given(p)', Given(p)) /\ (Live(p) => Given(p)' = Given(p))
  <2>1. /\ output'[p] \in {output[p], <<>>} /\ down'[p] = down[p]
        /\ p # c => output'[p] = output[p]
    BY <1>0, <1>3 DEF CloseConnection, NetTypeOK
  <2>2. Part(Given(p)', Given(p))
    BY <1>0, <2>1, GivenLess
  <2> QED
    BY <1>3, <2>1, <2>2 DEF Live, Given
<1>4. ASSUME NEW c \in Peers, OnError(c)
      PROVE  CloseConnection(c) /\ peer[c] = "gone" /\ down' = down
  BY <1>0, <1>4 DEF OnError, EventsOK, Event
<1>5. ASSUME EndOfFile
      PROVE  /\ current.conn \in Peers /\ CloseConnection(current.conn)
             /\ peer[current.conn] = "gone" /\ down' = down
  BY <1>0, <1>5 DEF EndOfFile, HandledKnown, Handling
<1>6. \/ output' = output /\ down' = down
      \/ EndOfFile
      \/ \E c \in Peers : OnError(c) \/ OnOutput(c)
  BY DEF IoThread, LoopTop, Poll, BatchDone, Accept, OnOutputFails, OnInput, ReceiveMessage,
         InputDrained, RecvFails, RefusePlayer, AddPlayer, GetPlayerSpins, AddTurn, netVars
<1> QED
  BY <1>1, <1>2, <1>3, <1>4, <1>5, <1>6

\* A step of it that makes nobody an observer and answers nobody.
LEMMA IoKeepsFInv ==
  ASSUME FInv, SInv', IoThread, ~SendConfirmation, UNCHANGED <<client_ids_, viewer_ids_>>
  PROVE  FInv'
<1>1. SInv /\ gpc' = gpc /\ sendPos' = sendPos /\ sendEnd' = sendEnd /\ peer' = peer /\ seen' = seen
  BY DEF FInv, IoThread, LoopTop, Poll, BatchDone, Accept, OnError, OnOutput, OnOutputFails,
         OnInput, ReceiveMessage, InputDrained, EndOfFile, RecvFails, RefusePlayer, AddPlayer,
         GetPlayerSpins, SendConfirmation, AddTurn, gameVars, peerVars
<1>2. ASSUME NEW p \in Peers
      PROVE  Unanswered(p)' => Unanswered(p)
  <2>1. ~(ipc' = "confirmViewer" /\ ipc # "confirmViewer") /\ ~(ipc' = "addPlayer" /\ ipc # "addPlayer")
    <3>1. viewer_ids_ \in Seq(Peers) /\ client_ids_ \in Seq(Peers)
      BY <1>1 DEF SInv, IInv, TypeOK, ObsTypeOK
    <3>2. /\ \A c : viewer_ids_ # Append(viewer_ids_, c)
          /\ \A c : client_ids_ # Append(client_ids_, c)
      BY <3>1, AppendProperties
    <3> QED
      BY <3>2 DEF IoThread, LoopTop, AfterLoopTop, Poll, BatchDone, Accept, OnError, OnOutput,
             OnOutputFails, OnInput, ReceiveMessage, InputDrained, EndOfFile, RecvFails,
             RefusePlayer, AfterRefusal, AddPlayer, GetPlayerSpins, AddTurn, ioVars
  <2> QED
    BY <2>1 DEF Unanswered, IoThread, LoopTop, AfterLoopTop, Poll, BatchDone, Accept, OnError,
           OnOutput, OnOutputFails, OnInput, ReceiveMessage, InputDrained, EndOfFile, RecvFails,
           RefusePlayer, AfterRefusal, AddPlayer, GetPlayerSpins, AddTurn, ioVars
<1>3. ASSUME NEW p \in Peers
      PROVE  AskedOK(p)' /\ FinOK(p)'
  <2>1. /\ AskedOK(p) /\ FinOK(p) /\ Subscribed' = Subscribed /\ Live(p)' = Live(p)
        /\ (Finishing' <=> Finishing) /\ (ToFinish(p)' <=> ToFinish(p))
    BY <1>1 DEF FInv, Subscribed, Live, Finishing, ToFinish, IsViewer
  <2>2. Part(Given(p)', Given(p)) /\ (Live(p)' => Given(p)' = Given(p))
    BY <1>1, <2>1, IoGives
  <2>3. Unanswered(p)' => (p \in Subscribed)' /\ Waits(p)
    BY <1>2, <2>1 DEF AskedOK, Waits
  <2> QED
    BY <1>1, <2>1, <2>2, <2>3, StillAsked, StillFinished
<1> QED
  BY <1>3 DEF FInv


\* A request makes its peer an observer, who was given no state before.
LEMMA SubscribeFInv ==
  ASSUME FInv, SInv', ReceiveMessage, ~UNCHANGED <<client_ids_, viewer_ids_>>
  PROVE  FInv'
<1>0. /\ SInv /\ IInv /\ HandledKnown /\ client_ids_ \in Seq(Peers) /\ viewer_ids_ \in Seq(Peers)
      /\ sendPos \in Nat \ {0} /\ sendEnd \in Nat /\ LoopOK
  BY DEF FInv, SInv, IInv, TypeOK, ObsTypeOK, GameTypeOK
<1>1. PICK c \in Peers : c = current.conn
  BY <1>0 DEF ReceiveMessage, HandledKnown, Handling
<1>2. /\ up[c] # <<>> /\ Head(up[c]).type # "TURN"
      /\ output' = output /\ down' = down /\ peer' = peer /\ seen' = seen
      /\ gpc' = gpc /\ sendPos' = sendPos /\ sendEnd' = sendEnd /\ current'.conn = c
      /\ ipc = "reading" /\ ipc' \in {"addPlayer", "confirmViewer"}
      /\ UNCHANGED <<gameVars, state_id>>
      /\ \/ client_ids_' = Append(client_ids_, c) /\ viewer_ids_' = viewer_ids_
         \/ viewer_ids_' = Append(viewer_ids_, c) /\ client_ids_' = client_ids_
  BY <1>1 DEF ReceiveMessage, gameVars, stateVars, peerVars
<1>3. c \notin Subscribed
  <2>1. up[c] \in Seq(Messages) /\ RequestOK(c)
    BY <1>0, StreamTypes DEF SInv, TypesOK, MessagesOK, StreamOK
  <2>2. 1 \in DOMAIN up[c] /\ up[c][1] = Head(up[c])
    BY <1>2, <2>1
  <2> QED
    BY <1>2, <2>1, <2>2 DEF RequestOK
<1>4. Subscribed' = Subscribed \union {c}
  BY <1>0, <1>2, <1>3, Subscribing
<1>5. /\ \A i \in 1..Len(client_ids_) : client_ids_'[i] = client_ids_[i]
      /\ \A i \in 1..Len(viewer_ids_) : viewer_ids_'[i] = viewer_ids_[i]
      /\ DOMAIN viewer_ids_ \subseteq DOMAIN viewer_ids_'
      /\ Len(client_ids_) \in Nat /\ Len(viewer_ids_) \in Nat
  <2>1. CASE client_ids_' = Append(client_ids_, c) /\ viewer_ids_' = viewer_ids_
    BY <1>0, <2>1, Appended
  <2>2. CASE viewer_ids_' = Append(viewer_ids_, c) /\ client_ids_' = client_ids_
    <3>1. DOMAIN viewer_ids_' = 1..(Len(viewer_ids_) + 1) /\ DOMAIN viewer_ids_ = 1..Len(viewer_ids_)
          /\ Len(viewer_ids_) \in Nat /\ Len(client_ids_) \in Nat
          /\ \A i \in 1..Len(viewer_ids_) : viewer_ids_'[i] = viewer_ids_[i]
      BY <1>0, <2>2, Appended
    <3>2. 1..Len(viewer_ids_) \subseteq 1..(Len(viewer_ids_) + 1)
      BY <3>1
    <3>3. DOMAIN viewer_ids_ \subseteq DOMAIN viewer_ids_'
      BY <3>1, <3>2, Zenon
    <3> QED
      BY <2>2, <3>1, <3>3
  <2> QED
    BY <1>2, <2>1, <2>2
<1>6. ASSUME NEW p \in Peers
      PROVE  /\ AskedOK(p) /\ FinOK(p) /\ Given(p)' = Given(p) /\ (Finishing' <=> Finishing)
             /\ (Stated(p)' <=> Stated(p)) /\ (Hopeful(p)' <=> Hopeful(p)) /\ ~Unanswered(p)
             /\ (Unanswered(p)' <=> p = c)
  BY <1>2 DEF FInv, Given, Finishing, Stated, Stamped, Hopeful, IsAnswer, Unanswered
<1>7. ASSUME NEW p \in Peers, p # c
      PROVE  AskedOK(p)' /\ FinOK(p)'
  <2>1. AskedOK(p)'
    BY <1>2, <1>4, <1>6, <1>7 DEF AskedOK, Waits, IsAnswer
  <2>2. ToFinish(p) => ToFinish(p)'
    <3>1. IsViewer(p) => IsViewer(p)'
      BY <1>0, <1>5 DEF IsViewer
    <3>2. gpc = "finishToClients" => \A i \in sendPos..sendEnd : client_ids_'[i] = client_ids_[i]
      BY <1>0, <1>5 DEF LoopOK
    <3>3. gpc = "finishToViewers" => \A i \in sendPos..sendEnd : viewer_ids_'[i] = viewer_ids_[i]
      BY <1>0, <1>5 DEF LoopOK
    <3> QED
      BY <1>2, <3>1, <3>2, <3>3 DEF ToFinish
  <2>3. FinOK(p)'
    BY <1>6, <2>2 DEF FinOK, EndsWell
  <2> QED
    BY <2>1, <2>3
<1>8. AskedOK(c)'
  BY <1>2, <1>3, <1>4, <1>6 DEF AskedOK, Waits, IsAnswer
<1>9. FinOK(c)'
  <2>1. ~Stated(c)
    BY <1>0, <1>3, UnsubscribedNotStated
  <2> QED
    BY <1>6, <2>1 DEF FinOK
<1> QED
  BY <1>7, <1>8, <1>9 DEF FInv

\* The answer to a request: behind a state or FINISH it comes too late.
LEMMA SendConfirmationFInv ==
  ASSUME FInv, SInv', SendConfirmation
  PROVE  FInv'
<1> DEFINE m == IF ipc = "confirmViewer"
                THEN ViewerSubscribeResult(Len(viewer_ids_) - 1)
                ELSE ClientSubscribeResult(ipc = "accepted", NewPlayerId)
<1>0. /\ SInv /\ IInv /\ HandledKnown /\ NetTypeOK
      /\ viewer_ids_ \in Seq(Peers) /\ players \in Seq(Nat) /\ next_id = Len(players)
  BY DEF FInv, SInv, IInv, TypeOK, ObsTypeOK, StateTypeOK
<1>1. /\ SendMessage(m, current.conn) /\ ipc \in {"refused", "accepted", "confirmViewer"}
      /\ ipc' = "reading" /\ current' = current
      /\ down' = down /\ conn' = conn /\ peer' = peer /\ seen' = seen
      /\ gpc' = gpc /\ sendPos' = sendPos /\ sendEnd' = sendEnd
      /\ client_ids_' = client_ids_ /\ viewer_ids_' = viewer_ids_
  BY DEF SendConfirmation, gameVars, obsVars, peerVars
<1>2. PICK c \in Peers : c = current.conn
  BY <1>0, <1>1 DEF HandledKnown, Handling
<1>3. m \in Messages /\ ~Stamped(m)
  <2>1. CASE ipc = "confirmViewer"
    <3>1. Len(viewer_ids_) - 1 \in Nat
      BY <1>0, <2>1 DEF HandledKnown
    <3> QED
      BY <2>1, <3>1 DEF ViewerSubscribeResult, Messages, DownMessage, Stamped
  <2>2. CASE ipc = "accepted"
    <3>1. NewPlayerId \in Nat
      BY <1>0, <2>2 DEF HandledKnown, NewPlayerId
    <3> QED
      BY <2>2, <3>1 DEF ClientSubscribeResult, Messages, DownMessage, Stamped
  <2>3. CASE ipc = "refused"
    BY <2>3 DEF ClientSubscribeResult, Messages, DownMessage, Stamped
  <2> QED
    BY <1>1, <2>1, <2>2, <2>3
<1> HIDE DEF m
<1>4. ASSUME NEW p \in Peers
      PROVE  /\ AskedOK(p) /\ FinOK(p) /\ Subscribed' = Subscribed /\ ~Unanswered(p)'
             /\ (Finishing' <=> Finishing) /\ (ToFinish(p)' <=> ToFinish(p))
  BY <1>1 DEF FInv, Subscribed, Unanswered, Finishing, ToFinish, IsViewer
<1>5. ASSUME NEW p \in Peers, p # c
      PROVE  AskedOK(p)' /\ FinOK(p)'
  <2>1. output'[p] = output[p]
    BY <1>1, <1>2, <1>5 DEF SendMessage
  <2>2. Given(p)' = Given(p) /\ Given(p) \in Seq(Messages)
    BY <1>0, <1>1, <2>1, StreamTypes DEF Given, TypesOK, MessagesOK
  <2>3. Part(Given(p)', Given(p))
    BY <2>2, PartRefl
  <2> QED
    BY <1>1, <1>4, <2>2, <2>3, StillAsked, StillFinished
<1>6. Unanswered(c) /\ Waits(c)
  BY <1>1, <1>2 DEF Unanswered, Waits
<1>7. c \in Subscribed /\ peer[c] # "playing" /\ Given(c) \in Seq(Messages) /\ ConnOK(c)
      /\ \A i \in DOMAIN Given(c) : ~IsAnswer(Given(c)[i])
  BY <1>0, <1>4, <1>6, StreamTypes DEF AskedOK, TypesOK, MessagesOK, SInv, StreamOK
<1>8. AskedOK(c)'
  BY <1>1, <1>4, <1>7 DEF AskedOK, Waits
<1>9. FinOK(c)'
  <2> SUFFICES ASSUME Stated(c)', Hopeful(c)'
               PROVE  FALSE
    BY DEF FinOK, EndsWell
  <2>1. peer[c] = "joining" /\ seen[c] = 0
    BY <1>1, <1>4, <1>7 DEF Hopeful, AskedOK
  <2>2. Given(c)' = Append(Given(c), m)
    <3>1. conn[c] = "open"
      BY <1>7, <2>1 DEF ConnOK
    <3> QED
      BY <1>0, <1>1, <1>2, <1>3, <3>1, GivenSent
  <2> DEFINE a == Append(Given(c), m)
  <2>3. /\ DOMAIN a = 1..(Len(Given(c)) + 1) /\ Len(Given(c)) \in Nat
        /\ DOMAIN Given(c) = 1..Len(Given(c))
        /\ \A i \in 1..Len(Given(c)) : a[i] = Given(c)[i]
        /\ a[Len(Given(c)) + 1] = m /\ a # <<>>
    BY <1>3, <1>7, Appended
  <2>4. Given(c)' = a
    BY <2>2
  <2> HIDE DEF a
  <2>5. CASE Given(c) = <<>>
    <3>1. \A i \in DOMAIN a : a[i] = m
      BY <2>3, <2>5
    <3> QED
      BY <1>1, <1>3, <2>1, <2>4, <3>1 DEF Stated, Stamped
  <2>6. CASE Given(c) # <<>>
    <3>1. 1 \in DOMAIN Given(c) /\ a[1] = Given(c)[1]
      BY <1>7, <2>3, <2>6
    <3>2. IsAnswer(a[1])
      BY <1>1, <2>1, <2>3, <2>4 DEF Hopeful, IsAnswer
    <3> QED
      BY <1>7, <3>1, <3>2
  <2> QED
    BY <2>5, <2>6
<1> QED
  BY <1>5, <1>8, <1>9 DEF FInv

\* Every step of the IO thread.
LEMMA IoThreadFInv ==
  ASSUME FInv, IoThread
  PROVE  FInv'
<1>1. SInv'
  BY IoThreadSInv DEF FInv
<1>2. ReceiveMessage \/ SendConfirmation \/ UNCHANGED <<client_ids_, viewer_ids_>>
  BY DEF IoThread, LoopTop, Poll, BatchDone, Accept, OnError, OnOutput, OnOutputFails, OnInput,
         InputDrained, EndOfFile, RecvFails, RefusePlayer, AddPlayer, GetPlayerSpins, AddTurn,
         obsVars
<1> QED
  BY <1>1, <1>2, IoKeepsFInv, SubscribeFInv, SendConfirmationFInv


-----------------------------------------------------------------------------
(* The peers *)

\* A step of peer c shows in no other one, and not in what the game thread has to send.
LEMMA OnePeerFInv ==
  ASSUME FInv, NEW c \in Peers, PeerStep(c), SInv'
  PROVE  /\ Subscribed' = Subscribed /\ (Waits(c)' <=> Waits(c))
         /\ (Unanswered(c)' <=> Unanswered(c))
         /\ (Finishing' <=> Finishing) /\ (ToFinish(c)' <=> ToFinish(c))
         /\ AskedOK(c) /\ FinOK(c) /\ IInv /\ NetTypeOK /\ PeerTypeOK
         /\ AskedOK(c)' /\ FinOK(c)' => FInv'
<1>0. /\ IInv /\ NetTypeOK /\ PeerTypeOK /\ UNCHANGED gameVars /\ UNCHANGED ioVars
      /\ UNCHANGED obsVars /\ output' = output
  BY PeerFrame DEF FInv, SInv, IInv, TypeOK
<1>1. /\ gpc' = gpc /\ sendPos' = sendPos /\ sendEnd' = sendEnd
      /\ client_ids_' = client_ids_ /\ viewer_ids_' = viewer_ids_
      /\ ipc' = ipc /\ current' = current
  BY <1>0 DEF gameVars, obsVars, ioVars
<1>2. ASSUME NEW p \in Peers
      PROVE  /\ AskedOK(p) /\ FinOK(p) /\ Subscribed' = Subscribed /\ (Waits(p)' <=> Waits(p))
             /\ (Unanswered(p)' <=> Unanswered(p))
             /\ (Finishing' <=> Finishing) /\ (ToFinish(p)' <=> ToFinish(p))
  BY <1>1 DEF FInv, Subscribed, Waits, Unanswered, Finishing, ToFinish, IsViewer
<1>3. \A p \in Peers : p # c => peer'[p] = peer[p] /\ seen'[p] = seen[p] /\ down'[p] = down[p]
  BY <1>0 DEF PeerStep, Join, Confirmed, TakeState, TakeFinish, Die, PeerTypeOK, NetTypeOK
<1>4. ASSUME NEW p \in Peers, p # c
      PROVE  AskedOK(p)' /\ FinOK(p)'
  <2>1. Given(p)' = Given(p)
    BY <1>0, <1>3, <1>4 DEF Given
  <2>2. AskedOK(p)'
    BY <1>2, <1>3, <1>4, <2>1 DEF AskedOK, IsAnswer
  <2>3. (Stated(p)' <=> Stated(p)) /\ (Hopeful(p)' <=> Hopeful(p))
    BY <1>3, <1>4, <2>1 DEF Stated, Stamped, Hopeful, IsAnswer
  <2>4. FinOK(p)'
    BY <1>2, <2>1, <2>3 DEF FinOK, EndsWell
  <2> QED
    BY <2>2, <2>4
<1> QED
  BY <1>0, <1>2, <1>4 DEF FInv

\* A request to subscribe.
LEMMA JoinFInv ==
  ASSUME FInv, NEW c \in Peers, Join(c)
  PROVE  FInv'
<1>0. PeerStep(c) /\ SInv /\ SInv'
  BY JoinSInv DEF FInv, PeerStep
<1>1. /\ Subscribed' = Subscribed /\ (Waits(c)' <=> Waits(c)) /\ (Unanswered(c)' <=> Unanswered(c))
      /\ (Finishing' <=> Finishing) /\ AskedOK(c) /\ NetTypeOK /\ PeerTypeOK
      /\ AskedOK(c)' /\ FinOK(c)' => FInv'
  BY <1>0, OnePeerFInv
<1>2. /\ peer[c] = "new" /\ peer'[c] = "joining" /\ seen' = seen /\ down' = down /\ output' = output
  BY <1>1 DEF Join, PeerTypeOK
<1>3. c \notin Subscribed /\ Given(c)' = Given(c)
  BY <1>0, <1>2 DEF SInv, StreamOK, RequestOK, Given
<1>4. AskedOK(c)'
  BY <1>1, <1>2, <1>3 DEF AskedOK, IsAnswer
<1>5. ~Stated(c)'
  BY <1>0, <1>2, <1>3, UnsubscribedNotStated DEF Stated, Stamped
<1> QED
  BY <1>1, <1>4, <1>5 DEF FinOK

\* A peer stops.
LEMMA PeerStopsFInv ==
  ASSUME FInv, NEW c \in Peers, PeerStep(c), SInv', peer'[c] \in {"gone", "finished"},
         seen'[c] = seen[c], output' = output,
         \/ down'[c] = <<>>
         \/ down[c] # <<>> /\ down'[c] = Tail(down[c])
  PROVE  FInv'
<1>1. /\ Subscribed' = Subscribed /\ (Waits(c)' <=> Waits(c)) /\ (Unanswered(c)' <=> Unanswered(c))
      /\ AskedOK(c) /\ IInv /\ (AskedOK(c)' /\ FinOK(c)' => FInv')
  BY OnePeerFInv
<1>2. Part(Given(c)', Given(c))
  BY <1>1, GivenLess
<1>3. AskedOK(c)'
  BY <1>1, <1>2, StillAsked DEF AskedOK
<1>4. FinOK(c)'
  BY DEF FinOK, Hopeful
<1> QED
  BY <1>1, <1>3, <1>4

\* A peer reads a message that is not FINISH, plays on, and FINISH stays where it was.
LEMMA PeerReadsFInv ==
  ASSUME FInv, NEW c \in Peers, PeerStep(c), SInv', peer'[c] = "playing", output' = output,
         down[c] # <<>>, down'[c] = Tail(down[c]), Head(down[c]).type # "FINISH",
         Stated(c)' => Stated(c), Hopeful(c), ~Waits(c)
  PROVE  FInv'
<1>1. /\ Subscribed' = Subscribed /\ (Waits(c)' <=> Waits(c)) /\ (Unanswered(c)' <=> Unanswered(c))
      /\ (Finishing' <=> Finishing) /\ (ToFinish(c)' <=> ToFinish(c))
      /\ AskedOK(c) /\ FinOK(c) /\ IInv /\ (AskedOK(c)' /\ FinOK(c)' => FInv')
  BY OnePeerFInv
<1>2. /\ Given(c) # <<>> /\ Given(c) \in Seq(Messages) /\ Head(Given(c)).type # "FINISH"
      /\ Given(c)' = Tail(Given(c))
  BY <1>1, FirstOfGiven DEF Given
<1>3. AskedOK(c)'
  BY <1>1 DEF AskedOK
<1>4. EndsWell(Given(c)) => EndsWell(Given(c)')
  BY <1>2, TailEndsWell
<1>5. FinOK(c)'
  BY <1>1, <1>4 DEF FinOK, EndsWell
<1> QED
  BY <1>1, <1>3, <1>5

\* The answer to the request: a peer that reads it first was not waiting for it.
LEMMA ConfirmedFInv ==
  ASSUME FInv, NEW c \in Peers, Confirmed(c)
  PROVE  FInv'
<1>0. PeerStep(c) /\ SInv /\ SInv' /\ IInv /\ NetTypeOK /\ PeerTypeOK
  BY ConfirmedSInv DEF FInv, PeerStep, SInv, IInv, TypeOK
<1>1. /\ peer[c] = "joining" /\ down[c] # <<>> /\ down'[c] = Tail(down[c])
      /\ seen' = seen /\ output' = output
      /\ \/ peer'[c] \in {"gone", "finished"}
         \/ peer'[c] = "playing" /\ IsAnswer(Head(down[c]))
  BY <1>0 DEF Confirmed, PeerTypeOK, NetTypeOK, IsAnswer
<1>2. CASE peer'[c] \in {"gone", "finished"}
  BY <1>0, <1>1, <1>2, PeerStopsFInv
<1>3. CASE peer'[c] = "playing" /\ IsAnswer(Head(down[c]))
  <2>1. /\ Given(c) # <<>> /\ Given(c) \in Seq(Messages) /\ 1 \in DOMAIN Given(c)
        /\ Given(c)[1] = Head(down[c]) /\ Given(c)' = Tail(Given(c))
    BY <1>0, <1>1, FirstOfGiven DEF Given
  <2>2. Hopeful(c) /\ ~Waits(c)
    BY <1>1, <1>3, <2>1 DEF Hopeful, FInv, AskedOK
  <2>3. Part(Given(c)', Given(c))
    BY <2>1, PartTail
  <2>4. Stated(c)' => Stated(c)
    BY <1>1, <2>3, PartHasLess DEF Stated, Stamped
  <2>5. Head(down[c]).type # "FINISH"
    BY <1>3 DEF IsAnswer
  <2> QED
    BY <1>0, <1>1, <1>3, <2>2, <2>4, <2>5, PeerReadsFInv
<1> QED
  BY <1>1, <1>2, <1>3

\* A state taken.
LEMMA TakeStateFInv ==
  ASSUME FInv, NEW c \in Peers, TakeState(c)
  PROVE  FInv'
<1>0. PeerStep(c) /\ SInv /\ SInv' /\ IInv /\ NetTypeOK
  BY TakeStateSInv DEF FInv, PeerStep, SInv, IInv, TypeOK
<1>1. /\ peer[c] = "playing" /\ peer' = peer /\ output' = output /\ down[c] # <<>>
      /\ down'[c] = Tail(down[c]) /\ Head(down[c]).type = "STATE"
  BY <1>0 DEF TakeState, NetTypeOK
<1>2. Hopeful(c) /\ ~Waits(c)
  BY <1>1 DEF Hopeful, FInv, AskedOK
<1>3. Stated(c)
  BY <1>0, <1>1, FirstOfGiven DEF Stated, Stamped
<1> QED
  BY <1>0, <1>1, <1>2, <1>3, PeerReadsFInv

\* The end of a peer.
LEMMA PeerEndsFInv ==
  ASSUME FInv, NEW c \in Peers, TakeFinish(c) \/ Die(c)
  PROVE  FInv'
<1>0. PeerStep(c) /\ SInv /\ SInv' /\ PeerTypeOK /\ NetTypeOK
  BY PeerEndsSInv DEF FInv, PeerStep, SInv, IInv, TypeOK
<1>1. /\ peer'[c] \in {"gone", "finished"} /\ seen'[c] = seen[c] /\ output' = output
      /\ \/ down'[c] = <<>>
         \/ down[c] # <<>> /\ down'[c] = Tail(down[c])
  BY <1>0 DEF TakeFinish, Die, PeerTypeOK, NetTypeOK
<1> QED
  BY <1>0, <1>1, PeerStopsFInv

-----------------------------------------------------------------------------
(* The invariant *)

\* Every step of the server and its peers.
LEMMA NextFInv == FInv /\ [Next]_vars => FInv'
<1> SUFFICES ASSUME FInv, [Next]_vars PROVE FInv'
  OBVIOUS
<1>1. CASE GameThread
  BY <1>1, GameThreadFInv
<1>2. CASE IoThread
  BY <1>2, IoThreadFInv
<1>3. ASSUME NEW p \in Peers, Join(p) \/ Reads(p) \/ Die(p)
      PROVE  FInv'
  BY <1>3, JoinFInv, ConfirmedFInv, TakeStateFInv, PeerEndsFInv DEF Reads
<1>4. CASE UNCHANGED vars
  <2>1. SInv'
    BY <1>4, NextSInv DEF FInv
  <2>2. UNCHANGED <<gpc, sendPos, sendEnd>> /\ UNCHANGED <<ioVars, obsVars, netVars, peerVars>>
    BY <1>4 DEF vars, gameVars
  <2>3. ASSUME NEW p \in Peers, Finishing', Stated(p)
        PROVE  ToFinish(p)' \/ (Finishing /\ ~ToFinish(p))
    BY <2>2, <2>3 DEF obsVars, ToFinish, Finishing, IsViewer
  <2> QED
    BY <2>1, <2>2, <2>3, GameSendsNothing
<1> QED
  BY <1>1, <1>2, <1>3, <1>4 DEF Next

\* FINISH is on its way to everybody it concerns, or the game thread has still to send it.
THEOREM FinishInvariance == Spec => []FInv
BY InitFInv, NextFInv, PTL DEF Spec

\* When the game thread has sent FINISH, it is the last message in the pipe of every
\* playing peer that was given a state, for any number of peers: no answer, turn, close
\* or late subscription comes in between.
THEOREM FinishReachesPlayers == Spec => []FinishQueued
<1>1. FInv => FinishQueued
  <2> SUFFICES ASSUME FInv, gpc \in {"stopping", "done"},
                      NEW p \in Peers, peer[p] = "playing", seen[p] > 0
               PROVE  Given(p) # <<>> /\ Given(p)[Len(Given(p))].type = "FINISH"
    BY DEF FinishQueued, Given
  <2>1. Finishing /\ Stated(p) /\ Hopeful(p) /\ ~ToFinish(p)
    BY DEF Finishing, Stated, Hopeful, ToFinish
  <2> QED
    BY <2>1 DEF FInv, FinOK, EndsWell
<1> QED
  BY <1>1, FinishInvariance, PTL

-----------------------------------------------------------------------------
(***************************************************************************)
(* The connections                                                         *)
(*                                                                         *)
(* connections_ stays bounded, for every finite set of peers and every     *)
(* limit of the game: the vector only grows, by one entry for every        *)
(* message, so the proof is about the messages still to come.              *)
(*                                                                         *)
(* Every message the server will ever take from a peer has a slot: one for *)
(* the peer's request, and one for every state a Gamer may answer. A slot  *)
(* is unspent while its message may still be sent or waits in the pipe. No *)
(* message is there twice, so each one taken spends a slot.                *)
(***************************************************************************)

\* State 0 stands for the request.
Slots == (Peers \X {0}) \union (Clients \X (1..MaxStates))

RequestToCome(p) == peer[p] = "new" \/ \E i \in DOMAIN up[p] : ~IsTurn(up[p][i])
TurnToCome(p, s) ==
  s > seen[p] \/ \E i \in DOMAIN up[p] : IsTurn(up[p][i]) /\ up[p][i].turn.state_id = s
ToCome(p, s) == IF s = 0 THEN RequestToCome(p) ELSE TurnToCome(p, s)
Unspent == {slot \in Slots : ToCome(slot[1], slot[2])}

\* The turns in a Gamer's pipe are for different states, none later than the last it took.
AnswersOK(p) ==
  \A i \in DOMAIN up[p] : IsTurn(up[p][i]) =>
    /\ p \in Clients /\ 1 <= up[p][i].turn.state_id /\ up[p][i].turn.state_id <= seen[p]
    /\ \A j \in DOMAIN up[p] :
         i < j /\ IsTurn(up[p][j]) => up[p][i].turn.state_id < up[p][j].turn.state_id

\* The strengthened invariant: what is taken and what is to come is within the slots.
CInv ==
  /\ SInv
  /\ state_id <= MaxStates
  /\ \A p \in Peers : AnswersOK(p)
  /\ connections + Cardinality(Unspent) <= Cardinality(Slots)

-----------------------------------------------------------------------------
(* The slots *)

\* One slot for the request of each peer, and one for each state and Gamer.
LEMMA SlotsCounted ==
  /\ IsFiniteSet(Slots)
  /\ Cardinality(Slots) = Cardinality(Peers) + Cardinality(Clients) * MaxStates
<1> DEFINE R == Peers \X {0}
           T == Clients \X (1..MaxStates)
<1>1. IsFiniteSet(Clients) /\ IsFiniteSet(Peers) /\ MaxStates \in Nat \ {0}
  BY FinitelyManyPeers, ConstantsAssumption, FS_Union DEF Peers, GameConfigCheck
<1>2. Cardinality(Clients) \in Nat /\ Cardinality(Peers) \in Nat
  BY <1>1, FS_CardinalityType
<1>3. IsFiniteSet({0}) /\ Cardinality({0}) = 1
  BY FS_Singleton
<1>4. IsFiniteSet(1..MaxStates) /\ Cardinality(1..MaxStates) = MaxStates
  BY <1>1, FS_Interval
<1>5. IsFiniteSet(R) /\ Cardinality(R) = Cardinality(Peers) * Cardinality({0})
  BY <1>1, <1>3, FS_Product
<1>6. IsFiniteSet(T) /\ Cardinality(T) = Cardinality(Clients) * Cardinality(1..MaxStates)
  BY <1>1, <1>4, FS_Product
<1>7. R \intersect T = {}
  BY <1>1
<1> HIDE DEF R, T
<1>8. Cardinality(R) = Cardinality(Peers)
  BY <1>2, <1>3, <1>5
<1>9. Cardinality(T) = Cardinality(Clients) * MaxStates
  BY <1>4, <1>6
<1>10. Cardinality(T) \in Nat
  BY <1>6, FS_CardinalityType
<1>11. IsFiniteSet(R \union T)
       /\ Cardinality(R \union T) = Cardinality(R) + Cardinality(T) - Cardinality(R \intersect T)
  BY <1>5, <1>6, FS_Union
<1>12. Cardinality(R \intersect T) = 0
  BY <1>7, FS_EmptySet
<1>13. Cardinality(R \union T) = Cardinality(Peers) + Cardinality(T)
  BY <1>2, <1>8, <1>10, <1>11, <1>12
<1> QED
  BY <1>9, <1>11, <1>13 DEF R, T, Slots

\* What one step may do: nothing comes back, and an entry is paid for with a slot.
LEMMA SpentSlots ==
  ASSUME CInv, connections \in Nat,
         \A p \in Peers, s \in Nat : ToCome(p, s)' => ToCome(p, s),
         \/ connections' = connections
         \/ /\ connections' = connections + 1
            /\ \E slot \in Unspent : slot \notin Unspent'
  PROVE  connections' + Cardinality(Unspent') <= Cardinality(Slots)
<1>1. IsFiniteSet(Slots) /\ MaxStates \in Nat /\ Clients \subseteq Peers
  BY SlotsCounted, ConstantsAssumption DEF GameConfigCheck, Peers
<1>2. Unspent \subseteq Slots /\ Unspent' \subseteq Slots
  BY DEF Unspent
<1>3. Unspent' \subseteq Unspent
  <2> SUFFICES ASSUME NEW slot \in Slots, ToCome(slot[1], slot[2])'
               PROVE  ToCome(slot[1], slot[2])
    BY DEF Unspent
  <2>1. slot[1] \in Peers /\ slot[2] \in Nat
    BY <1>1 DEF Slots
  <2> QED
    BY <2>1
<1>4. IsFiniteSet(Unspent) /\ IsFiniteSet(Unspent')
  BY <1>1, <1>2, FS_Subset
<1>5. Cardinality(Unspent) \in Nat /\ Cardinality(Unspent') \in Nat /\ Cardinality(Slots) \in Nat
  BY <1>1, <1>4, FS_CardinalityType
<1>6. connections + Cardinality(Unspent) <= Cardinality(Slots)
  BY DEF CInv
<1>7. Cardinality(Unspent') <= Cardinality(Unspent)
  BY <1>3, <1>4, FS_Subset
<1>8. ASSUME NEW slot \in Unspent, slot \notin Unspent'
      PROVE  Cardinality(Unspent') <= Cardinality(Unspent) - 1
  <2>1. IsFiniteSet(Unspent \ {slot}) /\ Cardinality(Unspent \ {slot}) = Cardinality(Unspent) - 1
    BY <1>4, <1>8, FS_RemoveElement
  <2>2. Unspent' \subseteq Unspent \ {slot}
    BY <1>3, <1>8
  <2> QED
    BY <2>1, <2>2, FS_Subset
<1>9. CASE connections' = connections
  BY <1>5, <1>6, <1>7, <1>9
<1>10. CASE connections' = connections + 1 /\ \E slot \in Unspent : slot \notin Unspent'
  BY <1>5, <1>6, <1>8, <1>10
<1> QED
  BY <1>9, <1>10

\* A peer that only loses messages has no more to come, and its turns stay apart.
LEMMA LosesMessages ==
  ASSUME NEW p \in Peers, AnswersOK(p), Part(up'[p], up[p]), NEW S, up'[p] \in Seq(S),
         up[p] \in Seq(S), seen'[p] = seen[p], peer'[p] = "new" => peer[p] = "new"
  PROVE  AnswersOK(p)' /\ \A s : ToCome(p, s)' => ToCome(p, s)
<1>1. PICK k \in Nat : \A i \in DOMAIN up'[p] : i + k \in DOMAIN up[p] /\ up'[p][i] = up[p][i + k]
  BY DEF Part
<1>2. AnswersOK(p)'
  <2> SUFFICES ASSUME NEW i \in DOMAIN up'[p], IsTurn(up'[p][i])
               PROVE  /\ p \in Clients /\ 1 <= up'[p][i].turn.state_id
                      /\ up'[p][i].turn.state_id <= seen[p]
                      /\ \A j \in DOMAIN up'[p] : i < j /\ IsTurn(up'[p][j]) =>
                           up'[p][i].turn.state_id < up'[p][j].turn.state_id
    BY DEF AnswersOK, IsTurn
  <2>1. i + k \in DOMAIN up[p] /\ up'[p][i] = up[p][i + k] /\ IsTurn(up[p][i + k])
    BY <1>1
  <2>2. ASSUME NEW j \in DOMAIN up'[p], i < j, IsTurn(up'[p][j])
        PROVE  up'[p][i].turn.state_id < up'[p][j].turn.state_id
    <3>1. j + k \in DOMAIN up[p] /\ up'[p][j] = up[p][j + k] /\ IsTurn(up[p][j + k])
      BY <1>1, <2>2
    <3>2. i + k < j + k
      BY <2>2
    <3> QED
      BY <2>1, <3>1, <3>2 DEF AnswersOK
  <2> QED
    BY <2>1, <2>2 DEF AnswersOK
<1>3. RequestToCome(p)' => RequestToCome(p)
  BY <1>1 DEF RequestToCome, IsTurn
<1>4. ASSUME NEW s, TurnToCome(p, s)'
      PROVE  TurnToCome(p, s)
  BY <1>1, <1>4 DEF TurnToCome, IsTurn
<1> QED
  BY <1>2, <1>3, <1>4 DEF ToCome

-----------------------------------------------------------------------------
(* The steps *)

\* The strengthened invariant holds at first, and every step keeps it.
LEMMA InitCInv == Init => CInv
<1> SUFFICES ASSUME Init PROVE CInv
  OBVIOUS
<1>1. SInv
  BY InitSInv
<1>2. state_id <= MaxStates
  BY ConstantsAssumption DEF Init, GameConfigCheck
<1>3. ASSUME NEW p \in Peers
      PROVE  AnswersOK(p)
  BY <1>3 DEF Init, AnswersOK
<1>4. connections + Cardinality(Unspent) <= Cardinality(Slots)
  <2>1. IsFiniteSet(Slots) /\ Unspent \subseteq Slots
    BY SlotsCounted DEF Unspent
  <2>2. /\ Cardinality(Unspent) \in Nat /\ Cardinality(Slots) \in Nat
        /\ Cardinality(Unspent) <= Cardinality(Slots)
    BY <2>1, FS_Subset, FS_CardinalityType
  <2> QED
    BY <2>2 DEF Init
<1> QED
  BY <1>1, <1>2, <1>3, <1>4 DEF CInv

\* A step in which nothing is sent to the server, nor taken by it.
LEMMA NothingTaken ==
  ASSUME CInv, SInv', state_id' <= MaxStates, connections' = connections, seen' = seen,
         \A p \in Peers : Part(up'[p], up[p]) /\ (peer'[p] = "new" => peer[p] = "new")
  PROVE  CInv'
<1>1. ASSUME NEW p \in Peers
      PROVE  AnswersOK(p)' /\ \A s : ToCome(p, s)' => ToCome(p, s)
  <2>1. up[p] \in Seq(Messages) /\ up'[p] \in Seq(Messages)
    BY PipesAreMessages, PipesAreMessagesNext DEF CInv, SInv, AllMessagesOK, MessagesOK
  <2>2. AnswersOK(p) /\ seen'[p] = seen[p]
    BY DEF CInv
  <2> QED
    BY <2>1, <2>2, LosesMessages
<1>2. connections \in Nat
  BY DEF CInv, SInv, IInv, TypeOK, ObsTypeOK
<1>3. connections' + Cardinality(Unspent') <= Cardinality(Slots)
  BY <1>1, <1>2, SpentSlots
<1> QED
  BY <1>1, <1>3 DEF CInv

\* The game thread counts the states up to the limit, and leaves the pipes alone.
LEMMA GameThreadCInv ==
  ASSUME CInv, GameThread
  PROVE  CInv'
<1>1. SInv /\ SInv'
  BY GameThreadSInv DEF CInv
<1>2. /\ up' = up /\ connections' = connections /\ seen' = seen /\ peer' = peer
  BY DEF GameThread, CheckPlayersCount, BeginState, BeginFinish, SendToNext,
         SendReadsFreedMemory, ClientsDone, ViewersDone, Emulate, Stop,
         netVars, obsVars, peerVars
<1>3. state_id' <= MaxStates
  <2>1. state_id \in Nat /\ MaxStates \in Nat \ {0} /\ state_id <= MaxStates
    BY ConstantsAssumption DEF CInv, SInv, IInv, TypeOK, StateTypeOK, GameConfigCheck
  <2>2. \/ state_id' = state_id \/ state_id' = 0
        \/ state_id < MaxStates /\ state_id' = state_id + 1
    BY DEF GameThread, CheckPlayersCount, BeginState, BeginFinish, SendToNext, InitialStateId,
           SendReadsFreedMemory, ClientsDone, ViewersDone, Emulate, Stop, stateVars
  <2> QED
    BY <2>1, <2>2
<1>4. ASSUME NEW p \in Peers
      PROVE  Part(up'[p], up[p])
  <2>1. up[p] \in Seq(Messages)
    BY <1>1, PipesAreMessages DEF SInv, AllMessagesOK, MessagesOK
  <2> QED
    BY <1>2, <2>1, PartRefl
<1> QED
  BY <1>1, <1>2, <1>3, <1>4, NothingTaken

\* The steps of the IO thread that take no message: a pipe may be emptied.
LEMMA IoQuietCInv ==
  ASSUME CInv, IoThread, ~ReceiveMessage
  PROVE  CInv'
<1>1. SInv /\ SInv' /\ NetTypeOK
  BY IoThreadSInv DEF CInv, SInv, IInv, TypeOK
<1>2. /\ connections' = connections /\ seen' = seen /\ peer' = peer /\ state_id' = state_id
      /\ up' = up \/ \E p \in Peers \union {Listener} : up' = [up EXCEPT ![p] = <<>>]
  <2>1. current.conn \in Peers \union {Listener}
    BY DEF CInv, SInv, IInv, TypeOK, IoTypeOK
  <2> QED
    BY <2>1 DEF IoThread, LoopTop, Poll, BatchDone, Accept, OnError, OnOutput, OnOutputFails, OnInput,
         InputDrained, EndOfFile, RecvFails, RefusePlayer, AddPlayer, GetPlayerSpins,
         SendConfirmation, AddTurn, CloseConnection, netVars, obsVars, peerVars, stateVars
<1>3. ASSUME NEW p \in Peers
      PROVE  Part(up'[p], up[p])
  <2>1. up[p] \in Seq(Messages)
    BY <1>1, PipesAreMessages DEF SInv, AllMessagesOK, MessagesOK
  <2>2. up'[p] = up[p] \/ up'[p] = <<>>
    BY <1>1, <1>2 DEF NetTypeOK
  <2> QED
    BY <2>1, <2>2, PartRefl, PartNothing
<1> QED
  BY <1>1, <1>2, <1>3, NothingTaken DEF CInv

\* The message taken is not to come again: there was one request, and the turns
\* behind this one are for later states.
LEMMA ReceiveMessageCInv ==
  ASSUME CInv, ReceiveMessage, IoThread
  PROVE  CInv'
<1>0. /\ SInv /\ SInv' /\ IInv /\ NetTypeOK /\ HandledKnown /\ EventsOK /\ state_id \in Nat
      /\ connections \in Nat
  BY IoThreadSInv DEF CInv, SInv, IInv, TypeOK, StateTypeOK, ObsTypeOK
<1>1. PICK c \in Peers : c = current.conn
  BY <1>0 DEF ReceiveMessage, HandledKnown, Handling
<1>2. /\ up[c] # <<>> /\ up' = [up EXCEPT ![c] = Tail(@)] /\ connections' = connections + 1
      /\ seen' = seen /\ peer' = peer /\ state_id' = state_id /\ ipc = "reading"
  BY <1>1 DEF ReceiveMessage, stateVars, peerVars
<1>3. /\ up[c] \in Seq(KnownUp(Len(players), state_id)) /\ up[c] \in Seq(Messages)
      /\ AnswersOK(c) /\ StreamOK(c)
  BY <1>0, PipesAreMessages DEF IInv, PipesKnown, AllMessagesOK, MessagesOK, CInv, SInv
<1>4. /\ up'[c] = Tail(up[c]) /\ 1 \in DOMAIN up[c] /\ Head(up[c]) = up[c][1]
      /\ \A i \in DOMAIN up'[c] : i + 1 \in DOMAIN up[c] /\ up'[c][i] = up[c][i + 1] /\ 1 < i + 1
  <2>1. up'[c] = Tail(up[c])
    BY <1>0, <1>2 DEF NetTypeOK
  <2> DEFINE t == Tail(up[c])
             s == up[c]
  <2>2. t \in Seq(Messages) /\ Len(t) = Len(s) - 1 /\ Len(s) \in Nat /\ Len(s) >= 1
        /\ Head(s) = s[1] /\ \A i \in 1..Len(t) : t[i] = s[i + 1]
    BY <1>2, <1>3, HeadTailProperties, EmptySeq
  <2> HIDE DEF t
  <2>3. /\ 1 \in DOMAIN s
        /\ \A i \in DOMAIN t : i + 1 \in DOMAIN s /\ t[i] = s[i + 1] /\ 1 < i + 1
    BY <1>3, <2>2
  <2> QED
    BY <2>1, <2>2, <2>3 DEF t
<1>5. ASSUME NEW p \in Peers
      PROVE  AnswersOK(p)' /\ \A s : ToCome(p, s)' => ToCome(p, s)
  <2>1. up[p] \in Seq(Messages) /\ up'[p] \in Seq(Messages)
    BY <1>0, PipesAreMessages, PipesAreMessagesNext DEF SInv, AllMessagesOK, MessagesOK
  <2>2. Part(up'[p], up[p])
    <3>1. CASE p = c
      BY <1>2, <1>4, <2>1, <3>1, PartTail
    <3>2. CASE p # c
      BY <1>0, <1>2, <2>1, <3>2, PartRefl DEF NetTypeOK
    <3> QED
      BY <3>1, <3>2
  <2> QED
    BY <1>2, <2>1, <2>2, LosesMessages DEF CInv
<1>6. \E slot \in Unspent : slot \notin Unspent'
  <2>1. CASE ~IsTurn(up[c][1])
    <3>1. <<c, 0>> \in Unspent
      BY <1>4, <2>1 DEF Unspent, Slots, ToCome, RequestToCome
    <3>2. peer'[c] # "new"
      BY <1>0, <1>1, <1>2, <1>3 DEF StreamOK, ConnOK, EventsOK, Handling
    <3>3. \A i \in DOMAIN up'[c] : IsTurn(up'[c][i])
      BY <1>3, <1>4 DEF StreamOK, RequestOK, IsTurn
    <3>4. <<c, 0>> \notin Unspent'
      BY <3>2, <3>3 DEF Unspent, ToCome, RequestToCome, IsTurn
    <3> QED
      BY <3>1, <3>4
  <2>2. CASE IsTurn(up[c][1])
    <3>1. PICK s \in Nat :
            /\ s = up[c][1].turn.state_id
            /\ c \in Clients /\ 1 <= s /\ s <= seen[c] /\ s <= state_id
            /\ \A j \in DOMAIN up[c] : 1 < j /\ IsTurn(up[c][j]) => s < up[c][j].turn.state_id
      <4>1. up[c][1] \in KnownUp(Len(players), state_id)
        BY <1>3, <1>4
      <4>2. up[c][1].turn.state_id \in Nat /\ up[c][1].turn.state_id <= state_id
        BY <2>2, <4>1 DEF KnownUp, UpMessage, Turn, IsTurn
      <4> QED
        BY <1>3, <1>4, <2>2, <4>2 DEF AnswersOK
    <3>2. s \in 1..MaxStates /\ s # 0 /\ seen[c] \in Nat
      BY <1>0, <3>1, ConstantsAssumption DEF CInv, GameConfigCheck, IInv, TypeOK, PeerTypeOK
    <3>3. <<c, s>> \in Slots /\ TurnToCome(c, s)
      BY <1>4, <2>2, <3>1, <3>2 DEF Slots, TurnToCome
    <3>4. ~TurnToCome(c, s)'
      <4> SUFFICES ASSUME NEW i \in DOMAIN up'[c], IsTurn(up'[c][i]), up'[c][i].turn.state_id = s
                   PROVE  FALSE
        BY <1>2, <3>1, <3>2 DEF TurnToCome, IsTurn
      <4>1. s < s
        BY <1>4, <3>1
      <4> QED
        BY <3>1, <4>1
    <3>5. <<c, s>> \in Unspent /\ <<c, s>> \notin Unspent'
      BY <3>2, <3>3, <3>4 DEF Unspent, ToCome
    <3> QED
      BY <3>5
  <2> QED
    BY <2>1, <2>2
<1>7. connections' + Cardinality(Unspent') <= Cardinality(Slots)
  BY <1>0, <1>2, <1>5, <1>6, SpentSlots
<1> QED
  BY <1>0, <1>2, <1>5, <1>7 DEF CInv

\* Every step of the IO thread.
LEMMA IoThreadCInv ==
  ASSUME CInv, IoThread
  PROVE  CInv'
BY IoQuietCInv, ReceiveMessageCInv

\* A peer's request was to come, and so was the answer to a state after the last it took.
LEMMA PeerCInv ==
  ASSUME CInv, NEW c \in Peers, PeerStep(c)
  PROVE  CInv'
<1>0. /\ SInv /\ SInv' /\ IInv /\ PeerTypeOK /\ NetTypeOK /\ connections \in Nat
  BY NextSInv DEF CInv, SInv, IInv, TypeOK, ObsTypeOK, PeerStep, Next, Reads
<1>1. /\ UNCHANGED obsVars /\ connections' = connections /\ state_id' = state_id
      /\ state_id' <= MaxStates
  BY <1>0, PeerFrame DEF obsVars, CInv
<1>2. \A p \in Peers : p # c => up'[p] = up[p] /\ seen'[p] = seen[p] /\ peer'[p] = peer[p]
  BY <1>0 DEF PeerStep, Join, Confirmed, TakeState, TakeFinish, Die, PeerTypeOK, NetTypeOK
<1>3. AnswersOK(c)' /\ \A s \in Nat : ToCome(c, s)' => ToCome(c, s)
  <2>0. up[c] \in Seq(Messages) /\ up'[c] \in Seq(Messages) /\ AnswersOK(c) /\ seen[c] \in Nat
    BY <1>0, PipesAreMessages, PipesAreMessagesNext
       DEF CInv, SInv, AllMessagesOK, MessagesOK, PeerTypeOK
  <2>1. CASE Join(c)
    <3>1. /\ peer[c] = "new" /\ seen' = seen
          /\ up'[c] \in {<<ClientSubscribeRequest>>, <<ViewerSubscribeRequest>>}
      BY <1>0, <2>1 DEF Join, NetTypeOK
    <3>2. \A i \in DOMAIN up'[c] : ~IsTurn(up'[c][i])
      <4>1. DOMAIN up'[c] = {1}
        BY <3>1
      <4> QED
        BY <3>1, <4>1 DEF IsTurn, ClientSubscribeRequest, ViewerSubscribeRequest
    <3>3. AnswersOK(c)'
      BY <3>2 DEF AnswersOK, IsTurn
    <3>4. RequestToCome(c)
      BY <3>1 DEF RequestToCome
    <3>5. ASSUME NEW s \in Nat, TurnToCome(c, s)'
          PROVE  TurnToCome(c, s)
      BY <3>1, <3>2, <3>5 DEF TurnToCome, IsTurn
    <3> QED
      BY <3>3, <3>4, <3>5 DEF ToCome
  <2>2. CASE Confirmed(c) \/ TakeFinish(c) \/ Die(c)
    <3>1. up' = up /\ seen' = seen /\ peer'[c] # "new"
      BY <1>0, <2>2 DEF Confirmed, TakeFinish, Die, PeerTypeOK
    <3>2. Part(up'[c], up[c])
      BY <2>0, <3>1, PartRefl
    <3> QED
      BY <2>0, <3>1, <3>2, LosesMessages
  <2>3. CASE TakeState(c)
    <3>1. PICK n \in DueTo(c) : n = Head(down[c]).id /\ n \in Nat /\ 1 <= n
      BY <1>0, <2>3, TakesDue
    <3>2. seen[c] < n
      BY <2>0, <3>1 DEF DueTo
    <3>3. seen'[c] = n /\ peer' = peer
      BY <1>0, <2>3, <3>1 DEF TakeState, PeerTypeOK
    <3>4. CASE c \notin Clients
      <4>1. up'[c] = up[c] /\ \A i \in DOMAIN up[c] : ~IsTurn(up[c][i])
        BY <1>0, <2>0, <2>3, <3>4 DEF TakeState, NetTypeOK, AnswersOK
      <4>2. AnswersOK(c)'
        BY <4>1 DEF AnswersOK, IsTurn
      <4>3. RequestToCome(c)' => RequestToCome(c)
        BY <3>3, <4>1 DEF RequestToCome, IsTurn
      <4>4. ASSUME NEW s \in Nat, TurnToCome(c, s)'
            PROVE  TurnToCome(c, s)
        BY <2>0, <3>1, <3>2, <3>3, <4>1, <4>4 DEF TurnToCome, IsTurn
      <4> QED
        BY <4>2, <4>3, <4>4 DEF ToCome
    <3>5. CASE c \in Clients
      <4>1. PICK t \in Messages : /\ t.type = "TURN" /\ t.turn.state_id = n
                                  /\ up'[c] = Append(up[c], t)
        <5>1. up'[c] = up[c] \o <<TurnMessage(player_id_[c], n)>>
          BY <1>0, <2>3, <3>1, <3>5 DEF TakeState, Answer, NetTypeOK
        <5>2. player_id_[c] \in Nat
          BY <1>0 DEF PeerTypeOK
        <5>3. /\ TurnMessage(player_id_[c], n) \in Messages
              /\ TurnMessage(player_id_[c], n).type = "TURN"
              /\ TurnMessage(player_id_[c], n).turn.state_id = n
          BY <3>1, <5>2 DEF TurnMessage, Messages, UpMessage, Turn, Accelerations
        <5>4. up'[c] = Append(up[c], TurnMessage(player_id_[c], n))
          BY <2>0, <5>1, <5>3, AppendIsConcat
        <5> QED
          BY <5>3, <5>4
      <4>2. /\ DOMAIN up'[c] = 1..(Len(up[c]) + 1) /\ DOMAIN up[c] = 1..Len(up[c])
            /\ Len(up[c]) \in Nat /\ \A i \in 1..Len(up[c]) : up'[c][i] = up[c][i]
            /\ up'[c][Len(up[c]) + 1] = t
        BY <2>0, <4>1, Appended
      <4>3. \A i \in DOMAIN up'[c] :
              \/ i \in DOMAIN up[c] /\ up'[c][i] = up[c][i]
              \/ i = Len(up[c]) + 1 /\ up'[c][i] = t
        BY <4>2
      <4>4. AnswersOK(c)'
        <5> SUFFICES ASSUME NEW i \in DOMAIN up'[c], IsTurn(up'[c][i])
                     PROVE  /\ 1 <= up'[c][i].turn.state_id /\ up'[c][i].turn.state_id <= seen'[c]
                            /\ \A j \in DOMAIN up'[c] : i < j /\ IsTurn(up'[c][j]) =>
                                 up'[c][i].turn.state_id < up'[c][j].turn.state_id
          BY <3>5 DEF AnswersOK, IsTurn
        <5>1. CASE i \in DOMAIN up[c] /\ up'[c][i] = up[c][i]
          <6>1. /\ 1 <= up[c][i].turn.state_id /\ up[c][i].turn.state_id <= seen[c]
                /\ up[c][i].turn.state_id \in Nat
            <7>1. up[c][i] \in Messages /\ IsTurn(up[c][i])
              BY <2>0, <5>1
            <7>2. up[c][i].turn.state_id \in Nat
              BY <7>1 DEF IsTurn, Messages, UpMessage, DownMessage, Turn
            <7> QED
              BY <2>0, <5>1, <7>1, <7>2 DEF AnswersOK
          <6>2. ASSUME NEW j \in DOMAIN up'[c], i < j, IsTurn(up'[c][j])
                PROVE  up[c][i].turn.state_id < up'[c][j].turn.state_id
            <7>1. CASE j \in DOMAIN up[c] /\ up'[c][j] = up[c][j]
              BY <2>0, <5>1, <6>2, <7>1 DEF AnswersOK
            <7>2. CASE up'[c][j] = t
              BY <2>0, <3>1, <3>2, <4>1, <6>1, <7>2
            <7> QED
              BY <4>3, <7>1, <7>2
          <6> QED
            BY <2>0, <3>1, <3>2, <3>3, <5>1, <6>1, <6>2
        <5>2. CASE i = Len(up[c]) + 1 /\ up'[c][i] = t
          <6>1. \A j \in DOMAIN up'[c] : ~(i < j)
            BY <4>2, <5>2
          <6> QED
            BY <3>1, <3>3, <4>1, <5>2, <6>1
        <5> QED
          BY <4>3, <5>1, <5>2
      <4>5. RequestToCome(c)' => RequestToCome(c)
        BY <3>3, <4>1, <4>3 DEF RequestToCome, IsTurn
      <4>6. ASSUME NEW s \in Nat, TurnToCome(c, s)'
            PROVE  TurnToCome(c, s)
        <5>1. CASE s > n
          BY <2>0, <3>1, <3>2, <5>1 DEF TurnToCome
        <5>2. CASE ~(s > n)
          <6>1. PICK i \in DOMAIN up'[c] : IsTurn(up'[c][i]) /\ up'[c][i].turn.state_id = s
            BY <3>1, <3>3, <4>6, <5>2 DEF TurnToCome, IsTurn
          <6>2. CASE i \in DOMAIN up[c] /\ up'[c][i] = up[c][i]
            BY <6>1, <6>2 DEF TurnToCome
          <6>3. CASE up'[c][i] = t
            BY <2>0, <3>1, <3>2, <4>1, <6>1, <6>3 DEF TurnToCome
          <6> QED
            BY <4>3, <6>2, <6>3
        <5> QED
          BY <5>1, <5>2
      <4> QED
        BY <4>4, <4>5, <4>6 DEF ToCome
    <3> QED
      BY <3>4, <3>5
  <2> QED
    BY <2>1, <2>2, <2>3 DEF PeerStep
<1>4. ASSUME NEW p \in Peers
      PROVE  AnswersOK(p)' /\ \A s \in Nat : ToCome(p, s)' => ToCome(p, s)
  <2>1. CASE p = c
    BY <1>3, <2>1
  <2>2. CASE p # c
    <3>1. up[p] \in Seq(Messages) /\ up'[p] = up[p] /\ AnswersOK(p)
      BY <1>0, <1>2, <2>2, PipesAreMessages DEF CInv, SInv, AllMessagesOK, MessagesOK
    <3>2. Part(up'[p], up[p])
      BY <3>1, PartRefl
    <3> QED
      BY <1>2, <2>2, <3>1, <3>2, LosesMessages
  <2> QED
    BY <2>1, <2>2
<1>5. connections' + Cardinality(Unspent') <= Cardinality(Slots)
  BY <1>0, <1>1, <1>4, SpentSlots
<1> QED
  BY <1>0, <1>1, <1>4, <1>5 DEF CInv

LEMMA NextCInv == CInv /\ [Next]_vars => CInv'
<1> SUFFICES ASSUME CInv, [Next]_vars PROVE CInv'
  OBVIOUS
<1>1. CASE GameThread
  BY <1>1, GameThreadCInv
<1>2. CASE IoThread
  BY <1>2, IoThreadCInv
<1>3. ASSUME NEW p \in Peers, Join(p) \/ Reads(p) \/ Die(p)
      PROVE  CInv'
  BY <1>3, PeerCInv DEF Reads, PeerStep
<1>4. CASE UNCHANGED vars
  <2>1. SInv' /\ state_id' <= MaxStates
    BY <1>4, NextSInv DEF CInv, vars, stateVars
  <2>2. connections' = connections /\ seen' = seen /\ up' = up /\ peer' = peer
    BY <1>4 DEF vars, obsVars, netVars, peerVars
  <2>3. \A p \in Peers : Part(up'[p], up[p])
    BY <2>2, PipesAreMessages, PartRefl DEF CInv, SInv, AllMessagesOK, MessagesOK
  <2> QED
    BY <2>1, <2>2, <2>3, NothingTaken
<1> QED
  BY <1>1, <1>2, <1>3, <1>4 DEF Next

\* What the server has taken and what is still to come never exceed the slots.
THEOREM ConnectionsInvariance == Spec => []CInv
BY InitCInv, NextCInv, PTL DEF Spec

\* MessageManager::connections_, which is never cleaned up, holds at most one entry for
\* the subscription of each peer and one for each state a Gamer may answer.
THEOREM ConnectionsStayBounded == Spec => []ConnectionsBounded
<1>1. CInv => ConnectionsBounded
  <2> SUFFICES ASSUME CInv PROVE ConnectionsBounded
    OBVIOUS
  <2>1. IsFiniteSet(Slots) /\ IsFiniteSet(Unspent)
    BY SlotsCounted, FS_Subset DEF Unspent
  <2>2. Cardinality(Slots) \in Nat /\ Cardinality(Unspent) \in Nat /\ connections \in Nat
    BY <2>1, FS_CardinalityType DEF CInv, SInv, IInv, TypeOK, ObsTypeOK
  <2>3. connections <= Cardinality(Slots)
    BY <2>2 DEF CInv
  <2> QED
    BY <2>3, SlotsCounted DEF ConnectionsBounded
<1> QED
  BY <1>1, ConnectionsInvariance, PTL
==============================================================================
