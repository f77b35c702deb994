# A verification development for angry-balls

angry-balls is a game server and its clients. Players ("Gamers") connect to the
server, which every `time_delta` milliseconds sends the state of the field to
all observers; a Gamer answers each state with a turn (an acceleration), and the
server moves the balls by the turns it has. Viewers (the web UI) get the states
and send nothing. This directory holds TLA+ models of the parts whose behaviour
depends on the order of events or on the form of the data, the TLC configurations
that check them, and proofs about them.

Paths below are relative to the root of the repository.

## The system

| component | state | operations | interacts with |
|---|---|---|---|
| `GameStateManager` (`src/server/game_state_manager.*`), the game thread | `state_` (id, players, coins), `turns_`, `mutex_` | `Run`; from the IO thread `AddPlayer`, `AddTurn` | sends through `ObserversManager`, moves the balls with the emulator |
| `ObserversManager` (`observers_manager.*`) | `client_ids_`, `viewer_ids_`, not locked | `AddClient`, `AddViewer` (IO thread); `SendStateToAllObservers`, `SendFinishToAllObservers` (game thread) | `MessageManager` |
| `MessageManager` (`message_manager.*`) | `connections_`, with its own mutex | `ReceiveMessage`, `DispatchMessage`, `SendMessage` | the connections' queues |
| `mio` (`include/mio`), the IO thread | `connections_` list, `stop_`, per connection `output_queue_` and the writer's `buffer_` | `eventLoop`, `closeConnection`, `onInput`, `onOutput`, `AsyncReader::read`, `AsyncWriter::write` | epoll, sockets |
| framing (`src/server/protocol.hpp`) | `State` of the deframer | `processDataChunk`, `getResponse` | JSON parser |
| messages (`lib/protocol`) over jsoncpp (`contrib/jsoncpp`) | none | `BuildJsonMessage`, `ParseJsonMessage`; the library's values, reader and writers | everybody who sends or receives |
| emulator (`lib/emulator`) and generators | the generator's `last_player_id_` | `Emulate`, `DivideCoins`, `GetPlayer`, `GetCoin` | the game thread |
| thread pool (`lib/util/thread_pool.cpp`) | `work_queue_`, `should_quit_` | `Enqueue`, `Run`, `Shutdown` | the web UI's HTTP connections |
| Gamer (`src/client/gamer.cpp`) | `player_id_` | `ConnectionToServer`, `Turn`, `Finish`; `ClientIO` cuts frames | the server, a strategy |
| strategies (`src/strategies`) | the direction of `RandomAcceleration` | `GetTurn` | the Gamer |
| web UI (`src/web-ui-client`) | `field_`, `have_field_`; of the page `gameState`, `intervalId` | `ViewerClient::Run`; HTTP accept loop, `ClientHandler::Serve`, `HttpRequest::Parse`; the page's timer, buttons and requests | the server, browsers, the thread pool |
| Qt client (`src/qt-client`) | `UiGameClientIpc` | `network_client`, the updater thread, `paintEvent` | Qt; it makes its states up itself |

The server is one process with two threads. They share `GameStateManager`
(guarded by `mutex_`), the observer vectors (guarded by nothing), the
connections' output queues (each with a mutex) and the `stop_` flag.

What is hard here: the game thread iterates over vectors the IO thread appends
to; a subscription touches three objects in a row while the game thread may send
a state between any two of them; turns arrive late, from several connections and
in any order, while the vectors they index are growing; peers die between
`epoll_wait` and the read or write it announced, and the game thread may hold the
connection that is erased; the sockets are non-blocking and may take part of a
frame or none of it; a message arrives in any chunks, and its text may be cut,
or hold a number that is none; threads wait on condition variables that are
notified outside the mutex or waited for without a predicate; requests of a page
overtake each other. The hazards, each with its line and the properties aimed at
it, are listed in `PROJECT.json`.

What makes each component correct:

- game: players, turns and ids stay in correspondence; a turn counts only for its
  state and its player; the game that can start ends;
- observers: each gets consecutive states, its confirmation first, FINISH last;
- IO: everybody who connects is answered; the loop ends after `stop()`; an event
  names a live connection; a connection whose peer is gone is closed;
- output: the byte stream is the concatenation of the frames that were queued;
- framing: the messages do not depend on the chunks;
- messages: what is received is what was sent, but for the rounding of reals, and nothing
  else is taken for it;
- emulator: coins are neither made nor lost, the nearest get them, balls stay in;
- thread pool: tasks start in order, no wakeup is lost, shutdown returns;
- web UI: requests are answered, with a state that is not older than the request;
  the page ends on the last one.

## Modules

### GameServer

The core: both threads, the managers, the queues and the peers. Control is kept,
data is abstracted: a message is a record with its type, the ids it carries and,
for a turn, whether the acceleration is zero. The field, coins and velocities are
left out; `applied` records which turn each player was last accelerated by.

| model | code |
|---|---|
| `CheckPlayersCount`, `BeginState`, `SendToNext`, `ClientsDone`, `ViewersDone`, `Emulate`, `BeginFinish`, `Stop` | `GameStateManager::Run` and the lambda in `GameServer::Run`. Sending is one step per observer, because the IO thread runs between them; `sendEnd` is the end iterator captured by the range-for |
| `SendReadsFreedMemory` | the vector grew during the loop: reallocation leaves the loop in freed memory. What is read there may be the old contents (`SendToNext`), garbage at which `connections_.at` throws, or the id of another connection, which is then sent a message not meant for it. Nothing can be claimed of what follows the last two: the model ends here, and every property is claimed up to it |
| `FilterTurns`, `TurnOf` | `FilterTurns` (the identity, see the findings) and `GetAccelerations` |
| `LoopTop`, `Poll`, `BatchDone` | `eventLoop`: `Poll` fixes for each ready connection the branch it will take, and the batch is handled in any order |
| `Accept`, `OnError`, `OnOutput`, `OnInput`, `InputDrained`, `EndOfFile` | the branches of the loop. `reading` is the loop of `AsyncReader::read`: it goes on until the socket is drained, one message at a time |
| `OnOutputFails`, `RecvFails` | the exceptions of `AsyncWriter::write` and `AsyncReader::read`, which nothing catches |
| `ReceiveMessage`, `AddPlayer`, `RefusePlayer`, `GetPlayerSpins`, `SendConfirmation`, `AddTurn` | `DispatchMessage` and what it calls; a subscription is split where the game thread can run in between |
| `Join`, `Confirmed`, `TakeState`, `TakeFinish`, `Die` | `Gamer::Run`, `ViewerClient::Run`, and the end of a peer's process at any moment |

`mutex_` is not a variable: the game thread holds it exactly in the four sending
phases and the IO thread within single steps, except in `spinning`, the state in
which `GetPlayer` looks for a free place for ever. A peer takes one whole message
at a time; how `ClientIO::RecvAll` and `RecvBuf` cut frames out of the stream is
`ClientFraming`. Every peer opens one connection in its life and sends
only what the repository's clients send.

### ObserverStream

The abstract specification of what the observers are promised: the game advances
one state at a time; an observer that joins at any time is given every state from
the one the game is at, or the next one, without a gap, and none that the game has
not reached. `GameServer` implements it (`StreamsSpec`), with `state_id` for the
round, the observer vectors for `joined`, the history variable `since` for the
state at the `push_back`, and `seen` for the last state taken.

### OutputPath

One connection's way out, byte by byte: `addOutput`, `onOutput`, `AsyncWriter`
with its remembered buffer, the socket with limited room, the peer. Frames are
runs of consecutive numbers, so a lost, repeated or overtaken byte is visible in
what has left (`Left`: received, in the socket, or remembered).

### EventLoop

The life of several connections in `mio::IOServer`: who holds a reference to each,
what `epoll_wait` reports, and which branch of the loop handles it.

| model | code |
|---|---|
| `connections_`, `known`, `locked` | the list of `shared_ptr`s; `MessageManager`'s `weak_ptr`s; the `shared_ptr` that `SendMessage` has for as long as it queues a message |
| `Alive`, `DropReference` | a connection lives while somebody has a `shared_ptr`; with the last one its socket is closed |
| `Poll`, `Flags` | `getReadyDescriptors`: the flags of each socket that is open, whether or not its entry is still in the list |
| `Accept`, `AcceptFails` | `ServerAcceptor::read` takes the whole backlog; an `accept` that fails for another reason ends the server |
| `HandleError`, `HandleInput`, `HandleOutput`, `CloseConnection` | the exclusive branches of the loop, `onInput`, `onOutput`, `closeConnection` |
| `StaleEvent` | the event's iterator points to a node that is gone: undefined behaviour |
| `LockConnection`, `AddOutput` | `SendMessage` on the game thread |
| `Connect`, `PeerSends`, `PeerLeaves` | the peers, which may close, shut down or reset at any moment |

### Deframer

`InputLengthPrefixedProtocol` over every byte stream and every division into chunks, against
a reference that reads the whole stream as one piece (`Cuts`, `MessageAt`). The base and the
length of the length field are parameters (256 and 4 in the code).

### JsonValue, JsonText, JsonNumber, Json, StyledJson

The part of jsoncpp that the program uses, and its writers for people.

| module | code |
|---|---|
| `JsonValue` | `Json::Value`: eight types, `asInt`, `asUInt`, `asDouble`, `asString`, `isConvertibleTo`, `size`, access to members and elements. `MaxUInt` is the width of integers. A real is a double, counted in units of the least one: a mantissa below `Precision` (2^53) times one of `Ulps` (1 to 2^2045); `One` is the units of 1 (2^1074), `NaN` also stands for the infinities |
| `JsonText` | the bytes of a string: `valueToQuotedString`, `readString`, `decodeString`, escapes, surrogate pairs, `codePointToUTF8` |
| `JsonNumber` | `decodeNumber` with its overflow test; `decodeDouble`, with what `sscanf` does: sign, point, exponent, the nearest double (`NearestDouble`), infinity. A token of exactly 32 characters is written behind the buffer; what comes of it is `PastBuffer` |
| `Json` | `FastWriter` and `Reader` on symbols: tokens, comments, objects, arrays. `valueToString(double)` with what `sprintf("%#.16g")` does (`Printed`: `WrittenDigits` digits, an exponent outside `LeastFixed`..`WrittenDigits` - 1) and the zeros it cuts off (`Shortened`) |
| `StyledJson` | `StyledWriter` and `StyledStreamWriter` with the members their recursive calls share (`childValues_`, the indentation). `RightMargin` is their `rightMargin_` |

What the reader does is modelled where it is not what one expects: any token
separates two elements of an array (the test that a token is both `,` and `]`
never fails), and a `/` that begins no comment costs one more character, so that `[1/x2]`
is read as `[1,2]`; `{"":1,}` is accepted, since a `}` is taken for a name's place while
the last name was empty; the second half of a surrogate pair may be anything;
a text after the document is not looked at; `isConvertibleTo(stringValue)` holds
for numbers, which `asString` refuses, and `asInt` refuses the unsigned `maxInt`
that `isConvertibleTo(intValue)` accepts. The program itself does not call the
styled writers.

### Messages, Protocol, Subjects

`BuildJsonMessage` and `ParseJsonMessage`. `Messages` has what they do with values
(`BuildValue`, `ParseValue`), `Protocol` puts the writer and the reader around it.
Between the two a real is rounded twice, to 16 digits and to a double again (`AsRead`),
which does not give back every double.
Parsing has four outcomes: a message, none (the null pointer), an exception, or a
failed assertion of the library. Both functions are translated member by member, with
the guards before each conversion (`Guarded`); a refusal sets `result` to `true` again
and asks for an id (`ParseResult`). `Subjects` states what holds of every document,
number and string, of a variable `subject` that the run and the proofs share.

### HttpRequests

`ReadHttpRequest`, an automaton that looks for CR LF CR LF over chunks of any
size, and `HttpRequest::Parse`, which searches the same bytes for line ends in
another way: with none left, `npos + 2` would start again near the front.

### ThreadPool

`ab::ThreadPool`: each critical section is a step, and the notifications outside
them are steps of their own; spurious wakeups happen at any time, some tasks
throw.

### QtClient

The three threads of the Qt client and the structure they share. The updater
waits on its condition variable without a predicate and leaves the mutex nowhere
else, so that a change can come only before its first wait or during one. Qt's
event queue is `posted`; `client.cpp` of the Qt client connects to nobody and
makes its states up.

### WebViewer

The web UI's process: the viewer thread, the accept loop and the workers, with
`ThreadPool` instantiated on the browsers' connections.

| model | code |
|---|---|
| `GetNextFieldState` | `ViewerClient::Run` after the handshake; `Run` may end at any time, and `field_` goes on being served |
| `Accept`, `AcceptFails`, `Notify` | `AcceptLoop`: accept and the push are one step, the notification is another; an accept that fails, since the browser has given up, is one of its own |
| `Idle`, `Wakeup`, `StartServe`, `Return` | the worker's loop, by the pool's `Wait`, `SpuriousWakeup`, `Take` and `Finish` |
| `ReadFails`, `ParseThrows`, `GameStateHandler`, `SendHttpResponse` | `ClientHandler::Serve` and what it calls; the response is built from a copy of `field_` that may be old when it is sent |
| `Ask`, `Leave` | the browser sends its whole request, or closes the connection |

Every connection carries one request, as in the code, and all of them wait in the
backlog at first: when they were made does not matter to the server. Requests are
for `/game_state`; a response is small enough never to fill a socket.

### WebPage

The page, `app.js`: a timer asks for `/game_state` every 100 ms whether or not the
last request was answered, an answer is drawn, the buttons start and stop the
timer, a resize blanks the canvas and draws again. Of the server it relies on what
`AnswersCurrent` shows: an answer is a state that was the newest at some moment
since the request. An answer of `null` changes the score board and leaves the
canvas as it is.

### ClientFraming

How `ClientIO::RecvAll` (Gamer) and `ReceiveFullMessage` (viewer) cut the server's
frames out of the stream; `client` says which of them reads.

| model | code |
|---|---|
| `Recv`, `EndOfStream`, `RecvFails` | what one `recv` or `read` returns; `More` and `Wanted` are the loop's condition and the size asked for |
| `ReadLength` | the length is used: the frame's if its field was read from its start and in full, and otherwise any |
| `Deliver` | the message goes to the parser, and the client goes on or ends |
| `Arrive` | the environment, in three kinds: `any` pieces, frames that are `paced` (each after the one before was read, its length in one piece), frames that are `whole` |

Neither client reads every stream. `RecvAll` asks for the length once and takes up
to a buffer of the message, so it needs paced frames; `RecvBuf` asks for the full
length again after a short read, so it needs frames that are paced or whole. After
the end of the stream `RecvAll` never returns (`spinning`), while the viewer ends
(`ViewerEnds`, for all three kinds of arrival). On a loopback connection with
`time_delta` between states the frames are paced, apart from a confirmation with a
state right behind it.

### Field

The rules of the game on one diameter of the field, with integers.

| model | code |
|---|---|
| `AddPlayer`, `SendState` | `GetPlayer` (clear of the others), `GetCoin` or none |
| `ApplyAcceleration`, `MovePlayers`, `HandleBallToBallCollisions`, `HandleBallToBorderCollisions` | the same functions of `default_emulator.cpp`; on a diameter their formulas come down to exchanging and reversing velocities |
| `DivideCoins`, `OnTheMinDistance`, `Less`, `Equal` | `helpers.cpp`, with its tolerance, player by player and coin by coin |
| `Emulate` | the turns once, then `StepsNumber` times move, collide and divide |

Each loop over the balls, the coins or the steps is a recursive function, with one
turn of the loop as an operator of its own (`ResolveCollision`, `Look`, `DivideCoin`,
`Step`), so that what a loop keeps can be proved of one turn. For two balls on one spot
`ResolveCollision` makes up a distance of 1.0 (`SpotDistance`), at which balls of a small
radius do not collide (`IsResolved`).

Players that are as far off as each other need not fare alike: the tolerance is not
transitive, and a nearer player empties the list of those found before. With three or
more players and a tolerance of 3, of players at distances 10, 8, 6, 8 only the last
two share. `NearestShare` therefore claims the bounds that hold in every order.

### Strategies

What `GetTurn` of each strategy makes of a state of the `Field`. A unit vector is
-1, 0 or 1 there, and `NaN` where the code divides 0 by 0, which
`BuildJsonMessage` writes as `nan` and no parser reads. A standing Buffalo draws two numbers
from [0, 1), either or both of which may be 0 (`Drawn`). Two things are modelled as
they are: no case of `DrunkStrategy`'s switch ends with a break, so its turn is
always the last one's; the predictor multiplies with `time_delta`, the emulator
with a hundredth of it.

### Proof modules

| module | about |
|---|---|
| `GameServerProofs` | `GameServer`: types and ids, the turns of the Gamers, the streams to the observers (the refinement), the end of the game, the connections |
| `JsonProofs` | `Messages`, `JsonNumber` and `JsonText`, as `Subjects` puts them together: documents, numbers, strings, messages |
| `ByteStreamProofs` | `OutputPath`, `ClientFraming` and `Deframer`, as `MCStreams` instantiates them |
| `FieldProofs` | `Field` and `Strategies` |
| `WebViewerProofs` | `WebViewer` and `HttpRequests`, as `MCWebViewer` instantiates it |
| `ThreadPoolProofs` | `ThreadPool` and `QtClient`, as `MCThreads` instantiates it |
| `EventLoopProofs` | `EventLoop` |
| `Recursion` | induction over 0..n, and recursive functions |

### Modules for TLC

`MCGameServer`, `MCOutputPath`, `MCEventLoop` and `MCField` give the parameters
small values. Four others check two or more components side by side:
`MCStreams` (`OutputPath`, `ClientFraming` and `Deframer`, where byte streams begin
and end), `MCThreads` (`ThreadPool` and `QtClient`), `MCWebViewer` (`WebViewer`,
`WebPage` and `HttpRequests`) and `MCMessages` (messages and documents). In these a
variable `subject` says which component a behaviour is of; the others stay in
their initial states. Nothing is synchronised between them, so that what holds in
the run holds of each component alone, and the fairness of each is asked only of
its own behaviours. In `MCMessages` nothing happens: a message, a
document, a number or a string is an initial state, and the property evaluates the
functions on it.

Definitions whose name ends in `_Something` and whose comment says "a mutation, not
the code" are not used by the specifications: each is the body of its neighbour
with a plausible mistake, and shows that a property notices it.

## Runs

| run | instance | shows |
|---|---|---|
| `players` | two Gamers, one mortal, 1 to 2 players, 2 states, a field with room for one | the safety properties of the game and `StreamsSpec`, 1.4 million states |
| `viewer` | a Gamer and a viewer | `GameFinishes`, `StopEndsLoop` under fairness |
| `refused` | two Gamers, one place | `SubscriptionsAnswered` under fairness, also for the one that is refused |
| `confirmation` | one Gamer, a game that starts with one player | violated: the first state overtakes the confirmation |
| `stale_turns` | one Gamer | violated: an old turn is applied again |
| `streams` | five messages of two bytes, room for five bytes; either client, three frames of one or three bytes, lengths of two bytes, a buffer of two; to the server, every stream of nine binary digits with lengths of two | what blocked and short writes do to the stream; which arrivals each client reads correctly, and that the viewer always ends; the server's messages do not depend on the chunks |
| `output_blocked` | four messages of one byte, room for two | violated: a blocked write loses a message |
| `event_loop` | two peers | which event uses a dangling iterator; connections are closed, output is written |
| `thread_pool` | two workers, three tasks, one throws; the Qt client with three ticks | order, wakeups, shutdown; every change is painted, the process ends |
| `messages` | see below | round trips, cut texts, guards, numbers and strings, both layouts |
| `web_viewer` | two workers, three connections: a good one, a silent one, one that is malformed or hangs up; the page with two states; a request of up to eight symbols in chunks of up to three | answers are current, requests are answered; the page settles; where a request ends and which lines it has |
| `field` | two balls and a coin on a diameter of eleven places; one round of three balls from every placing | coins and scores, who shares, the border, every strategy's turn |

Why the bounds are enough. Two Gamers are the least for which ids, turns and refusals can be
confused, and in which one subscribes while the other is sent a state; two states are the
least in which a turn can be late, a stream can have a gap, and an observer can join after
the first. `Room = 1` makes the spinning `GetPlayer` reachable by the second player. In
`streams` the capacity is odd and the frames are even, so that frames fit, are cut short and
are refused; five messages let several of these happen in one history; a client's message is
shorter or longer than its buffer, and the first, a middle and the last frame can be merged
or cut. The streams to the server have nine binary digits with lengths of two digits (0 to
3), chunks up to five: every relation between field, message and chunk occurs, with two or
more messages in a stream. In `event_loop` two peers are the least in which a batch has an
event left when another connection is closed. Three tasks on two workers have a queue behind
two busy workers; the Qt client's ticks differ in nothing, so three of 499 are enough, and
`MaxPosted` bounds only spurious wakeups. In `web_viewer` `MaxState` is 1: handlers only
copy the state, so two values ("null" and one state) are enough for one to be out of date;
with the silent connection one worker is left, the least with which `RequestsAnswered`
claims anything; the page has two requests in flight, the least in which they overtake each
other, one failure, and room for a second timer if a click would start one. Requests have up
to eight symbols, reads up to three: CR LF CR LF can be cut in every way, and preceded by a
broken one.

In `messages` integers have six bits (`MaxUInt = 63`), so that all limits of the
conversions and of `decodeNumber` lie within numbers of up to three digits; the
messages have ids at and beyond the limit, no, one or two players and coins, and
reals that are whole, negative, broken or none. Doubles have a mantissa of six bits,
distances from 1/32 to 2, and are written with two digits and an exponent below -1 or
above 1, so that all of them, 256 of either sign, can be tried: they have more digits than
are written, as in the code, they are written in both forms, and the last one comes back as
infinity. Each message is cut at every byte and
continued by another frame, and each member of a document is removed or replaced by
each of 21 other values. `RightMargin` is 12 and not 74, so that short arrays lie
on both sides of it.

In `field` `StepsNumber` is 3 (100 by default). `BorderHolds` needs two: one step is not
enough to bring back what a turn lets out. `Epsilon`
is 2, so that distances can be equal within the tolerance without being equal.
`SpotDistance` is 3, more than a diameter, so that two balls on one spot do not collide, which
is what sets the case apart; the proofs take any. Three
balls are needed for a tolerance that is not transitive; they play one round, since
longer games with three do not fit.

`CHECK_DEADLOCK FALSE` is set because the system really stops: the game ends,
the process ends, or every peer is gone and `epoll_wait` blocks.

Fairness. `GameServer` assumes that both threads are scheduled (weak fairness of
each thread's next step) and that a started peer goes on reading; nothing forces
a peer to die or the data race to hit. Weak fairness of the thread as a whole is
enough, since each thread always has at most one thing to do, apart from the
choice within a batch, which is finite. `OutputPath` adds that the peer reads.
`EventLoop` assumes that both threads run; no peer has to do anything.
`ThreadPool` assumes that workers, pending notifications and the destructor's
thread run, and not that anybody enqueues, destroys the pool or wakes up
spuriously; `QtClient` that its threads run, and not that the window is closed.
`WebViewer` assumes that the accept loop and the workers run and that browsers send
the requests they connected for, except on the `Silent` connections; nothing makes
the game go on. `WebPage` assumes that the timer fires while it is set and that the
oldest request is answered at last, which is what `RequestsAnswered` shows of the
server. `ClientFraming` assumes only that the client's thread runs.

Liveness is stated up to the outcomes in which the code gives up: `Doomed` is a
process that was ended by an exception or the race, or a `GetPlayer` that does not
return; `StopEndsLoop` is about a loop that still has an open connection;
`MessagesArrive` is about writes that were not cut short; `PeerGoneClosed` and
`OutputReached` hold while the loop runs, the second for a peer that stops sending
at some time, because the loop does not look at output while there is input;
`RequestsAnswered` holds while fewer connections are silent than there are workers,
since `read` has no timeout and each of them keeps a worker.

## Findings

1. `FilterTurns` zeroes the accelerations of copies
   (`src/server/game_state_manager.cpp:41`), so a player goes on accelerating by
   its last turn until a new one arrives. Run `stale_turns`.
2. A client or viewer becomes an observer before it is confirmed
   (`src/server/observers_manager.cpp:28`, `:40`), and the game thread may send a state
   between the two; both clients give up if their first message is a state. Run
   `confirmation`: `AddPlayer` has made the players complete, the game starts and queues
   state 1 for the Gamer, and the confirmation comes behind it.
3. A blocked write loses a message, and a short write the tail of one, against
   the comment at `include/mio/async_io.hpp:80`. Run `output_blocked`.

The runs that pass also state limits of the code, each at the property's comment: a Gamer
needs paced frames (`FramesAreMessages`); refusals never reach a client as such, a NaN
reaches nobody, and reals arrive rounded to the 16 digits that are written (`RoundTrip`); an
event can name a connection that is gone when `SendMessage` held it (`IteratorsGood`);
`MoveToClosest` and `Predictive` divide by zero on the exact center of a coin, and so does a
standing Buffalo that draws 0 twice (`TurnsAreNumbers`).

## Proofs

`GameServerProofs` proves, for every finite or infinite set of Gamers and viewers
and all limits, that `TypeOK`, `TurnsMatchPlayers`, `AddTurnInRange` and
`NoTurnForFutureState` are invariants of `GameServer`. The only assumption is
`ConstantsAssumption` (what `GameConfig::Check` ensures, and that clients and
viewers are different connections).

None of these but the first is inductive: whether `turns_.at` is in range depends
on the TURN that is handled, which came out of a socket, into which a Gamer put
it with an id it had from a confirmation, which came out of an output queue. The
invariant `IInv` therefore says of every pipe and queue that it only names players
that exist and states that were sent (`PipesKnown`, by the sets `KnownUp` and
`KnownDown`), of every playing Gamer that its id exists (`GamersKnown`), and of
the IO thread's current message the same (`HandledKnown`). `KnownMonotone` says
that what is known stays known when players or states are added, which is why
growing `players` and `state_id` disturbs nothing. The proof then goes action by
action: the frame lemmas dispose of what a step leaves alone, and only the parts
it changes are argued.

The second part of `GameServerProofs` proves `OwnTurnOnly` and `TurnsNeverGoBack` from the same
assumption. Both are about one step, but what makes the step right was decided long
before, at the other end of the network. The invariant `TInv` adds to `IInv`, for
every peer, where its messages are: `Given(p)` is what the server has for it (socket
and output queue), `Sent(p)` what it sent and `AddTurn` has not stored. The states
in `Given(p)` are in order and not before the last one taken; so the turns in
`Sent(p)`, which answer taken states, are in order between the stored turn and the
last state taken; so the turn that `AddTurn` stores is not before the one it
replaces. For this a stored turn must be changed by one Gamer only: `IdsApart` says
that no id is in use by, or on its way to, two peers, from `AddPlayer` through the
confirmation in the queue to the Gamer, also if the confirmation is never read. Most
steps give a peer nothing new (`Quiet`); `OneMoves` reduces the others to the one
peer they are about.

Its third part proves the refinement, `Spec => StreamsSpec`: `GameServer` implements
`ObserverStream` for any peers and limits. That a peer which takes a state takes the
one after the last is not visible in the step: it is so because what is on its way
to the peer is a `Chain`, the states from the one that is due to the one before
`NextSent(p)`, each once and in order, with confirmations and FINISH between them
or behind. `NextSent(p)` is the state after the current one, except while the send
loop has still to reach `p` (`StillToSend`), which depends on the position of the
loop, on the end it captured and on the vector `p` is in; an observer that is added
while the loop runs is behind that end and is therefore due the next state. The rest
of `SInv` is what the chain rests on: no peer is an observer twice (`OnceOK`, from
`RequestOK`: a peer asks once, before its turns), the loop stays inside its vector
(`LoopOK`), nothing is given to those who have not subscribed (`UnsubscribedOK`), and
the server closes a connection only when its peer is gone (`ConnOK`, `EventsOK`), so
no state of a live peer is dropped with an output queue. `ChainTail`, `ChainAppend`
and `ChainEmpty` are the facts about sequences; `StillStream` and `SentStream` the two
things a step can do to a stream.

Its fourth part proves `FinishQueued`. FINISH is sent in two loops that run while the
IO thread goes on, so the invariant `FInv` adds to `SInv` that, from the beginning
of the first loop on (`Finishing`), every peer that was given a state and plays, or
may still play, is either ahead of the loops (`ToFinish`) or has FINISH as its last
message (`FinOK`). A late subscriber is not ahead of them, but was given no state
either. What could come behind FINISH is the answer to a subscription, since
`AddClient` makes a client an observer before it is answered; `AskedOK` says that a
peer whose answer the IO thread has still to queue is not playing and has none on
its way. So it will never play: the first message it reads is the state, or FINISH
(`Hopeful` says which peers may). This is the race of finding 2 seen from its end:
it costs the peer the game, but leaves no playing peer without its FINISH.

Its fifth part proves `ConnectionsBounded`, the one theorem that needs the sets of
peers to be finite (`FinitelyManyPeers`). `connections_` only grows, by an entry for
every message the server takes, and nothing in the state says how many more there
will be. `Slots` are the messages that can ever be taken: one request of each peer, and
one turn of each Gamer for each state. A slot is `Unspent` while its message may still
be sent (the peer has not asked; the Gamer has not seen the state) or waits in the pipe.
`CInv` says that the entries and the unspent slots together are no more than the slots.
A message taken spends its slot, because no pipe holds two requests or two turns for
one state (`AnswersOK`); a message sent only moves its slot from one way of being
unspent to the other.

`ThreadPoolProofs` proves, for every finite set of workers and of tasks
(`PoolAssumption`) and whichever tasks throw, that `TypeOK`, `QueueOrder`,
`WorkersSurvive` and `NoLostWakeup` are invariants of `ThreadPool`. The first
three are inductive together. `NoLostWakeup` says that the queue is at most as
long as the pending notifications and the awake workers are many; its proof
follows the three numbers through each step (a push adds to the queue and to the
pending notifications, a notification or spurious wakeup turns a sleeper into an
awake worker, a worker falls asleep only on an empty queue, a taken task lowers
both sides). That a push adds a notification rests on `NotifiersPushed`: the
pending ones belong to tasks that were pushed before.

`WorkersSurvive` and `NoLostWakeup` also speak of the end: the destructor has returned only
when every thread has left its loop, so that none of them finds the mutex gone, and while it
joins them none of them sleeps. Both rest on `Ending`: who was joined has left its loop, and
`should_quit_` is set before the destructor gets to `notify_all`, so that a worker that
looked at it earlier either sleeps by then, and is woken, or has taken a task, and no worker
falls asleep afterwards.

The module's last part does the same for the Qt client's condition variable.
`NoChangeMissed` is the safety behind `PictureCatchesUp` and `ProcessEnds`: while there is
something new to show, an update event is on its way or the updater awake, and it does not
wait once the disconnection was counted. That what is posted gets painted is liveness.

`WebViewerProofs` proves `AnswersCurrent` for any connections, workers and number
of states. The strengthening says of the prepared but unsent responses what the
property says of the answers, and that both belong to requests that were made; the
pool's variables do not matter for it.

Its next part proves that the server does use the pool as `ThreadPool` describes it
(`PoolAsSpecified`: every step of `WebViewer` is a step of the pool or leaves it alone), so
that whatever is proved of `ThreadPool` holds of the server's threads. The pool knows
nothing of a connection's phases; `ServeInv` relates the two: a connection that is queued
is in the queue once, one that is read or answered is with exactly one worker
(`ServedByOne`), and therefore no request is answered twice and no answer is replaced
(`AnsweredOnce`).

Its last part proves `RequestsRead` of `HttpRequests` for any bytes the browser
sends and any reads (`RequestsAssumption`: the two bounds are numbers). The automaton
remembers less than what it has read, and Parse does not look for the end at all, so
neither half of the property is inductive. `Seen(k)` is what the automaton has to
remember of the first k bytes, which the last three decide as long as no request has
ended; `NoEndSeen` and `EndSeen` follow it through one chunk, whose last byte need
not be the one that ends the request. `ParsingOK` says that Parse starts each search
at the front or right behind a line end, not behind the empty line, and that the
lines it has make up what is before. `FindsLineEnd` then leaves two cases, a line end
before the empty line or that of the empty line itself; and an empty line found
earlier would be a CR LF CR LF earlier.

The first part of `ByteStreamProofs` proves `TypeOK` and `BytesInOrder` of `OutputPath` for
any number and length of messages and any room in the socket. That what has left is in order
does not say that what is appended next is later. The invariant `IInv` therefore follows the
messages: with `Popped` for the number of messages that are no longer queued, the k-th one
in the queue is the message `Popped + k`, and no byte that has left is beyond the last byte
of the message `Popped`. A write appends bytes of the front message, or of the remembered
buffer, whose bytes are already counted as left. The lemmas about concatenation, prefixes
and single frames are stated separately (`ConcatIncreasing` and its neighbours).

Its second part proves `FramesAreMessages` of `ClientFraming` for any number and lengths
of frames, any length of the header and any buffer. The property speaks of what was
delivered; what makes it so is where the client is: in the arrivals it can read
(`Readable`) it waits for a length exactly where a frame begins, and for a message
exactly behind its length (`InStep`). For the Gamer that depends on the arrival, since
it takes whatever is there up to its buffer: `ArrivedOK` says that what is there ends
within the frame after those it has taken, and not within its length.

Its third part proves `ChunkingIndependent` of `Deframer` for any stream, base, length of
the length field and chunks. `DInv` says that the messages delivered are those of the
first frames of the reference, and that the buffer holds the stream from where the next
frame begins (`InLength`), or from where its message begins (`InData`), to where the
server is. The theorem then has to tell how many frames end within the bytes handled: all
that were delivered, and the next one exactly if its message is empty and its length
complete, the case in which the loop of `processDataChunk` has ended before it looked.

`FieldProofs` proves `ScoresAccountForCoins`, `NearestShare` and `TurnsAreNumbers` for any
number of players and coins, any field, tolerance and speeds, with the types
(`FieldTypeOK`). The assumptions are that the constants are numbers (`FieldAssumption`),
that the shares of a coin make up the coin (`CoinsCanBeShared`: what dividing a double does
but for rounding), and that `NaN` is no number (`NaNIsNoNumber`). Each loop is followed turn
by turn: a collision and the border leave the scores alone; the loop over the
players has, after each of them, a distance that one of those it has found lies at, and
that none of those it has seen is nearer than by more than the tolerance (`Nearest`), which
is what a distance within the tolerance of it does not disturb; a coin raises the sum of
the scores by as many shares as there are winners, and there is always one (`TotalScore` as
partial sums, `Worth` of players and coins). `TurnsAreNumbers` then only needs that centers
and velocities are integers: a strategy divides by a distance or by a speed it has compared
with 0, except `MoveToClosest` and `Predictive` on the center of a coin and a standing
Buffalo that draws 0 twice.

`BallsComeBack` proves `BorderHolds` for any number of balls and a turn of at least two
steps (`steps_number_` is 100 unless the emulator is made with another; with one step a
ball that is driven outwards in every turn does get farther). The border turns a ball only
while it is on its way out, and balls that overlap exchange their velocities in every step;
so a ball outside may stay there as long as others meet it, and how far it gets depends on
how far they are. The invariant (`Settled`) therefore is a sum over every set of balls: k of
n balls are together no farther beyond `Reach`, one step's way from inside, than
`Bound(n, k)`, which is the radius times k(2n - k - 1), a diameter for each pair of which
one or both are among the k. For one ball this is the property.
What makes the bound a sum is that the way out is handed over: a ball counts with where it
will be after the next step (`Soon`), which is one less if it moves, since it is coming
back (`Returns`). When it collides with one that stands, it loses that one, and the other
gets it. No set of balls leaves its bound by that (`Transfer`): if a set with the one that
gets it and without the one that gives it is at its bound, the bounds of the sets with one
ball more and one less say that the giver is a diameter nearer, too far off to drive the
other out any farther. After the first step of a turn, which may have stopped or driven out
any ball, the balls are only `Settling`, after every later one `Settled` again.

`JsonProofs` is about every document, number, string and message, of any size; it assumes
that the integers have some width (`JsonAssumption`), and of doubles that they are mantissas
times distances that double from one to the next, among which is that of the whole numbers
(`DoubleAssumption`); nothing of what a token of 32 characters comes to.

- `GuardsAreEnough` states `GuardsHold`. A document is a value of some set that contains,
  with an object or an array, also what is in it (`Closed`); nothing more is needed of
  its depth, since `ParseValue` looks no deeper than three levels. Each conversion is then
  met with the test before it; what the tests leave open is the shape of the document, a
  type that is no string, a player or a coin that is no object (`EndsProgram`).
- `AllScalarsReadBack` states `ScalarsReadBack`. For numbers it follows `decodeNumber` digit
  by digit: below the threshold another digit does not overflow, and the number that reaches
  it early is one that does not fit. What does not fit is read as a double: the least
  distance at which a mantissa reaches the number loses nothing below `Precision`, since it
  is not greater than that of the whole numbers, and above it less than a mantissa's last
  digit, since at half the distance no mantissa reached the number (`WithDistance`); what
  becomes infinite is no double, or within the last distance of being none (`BeyondAll`). A
  string is followed twice: each character's escape stands where the writer put it
  (`EscapedAll`), and `readString` and `decodeString`, which look for the end in different
  ways, both arrive behind it. The loops over the text run at most as many times as it has
  characters, which `AsManyAtLeast` and `SameWalk` turn into their having come to an end. A
  code point is split into groups of six bits, a surrogate pair put together again.
- `EverySentIsReceived` says of every message that may be sent (`Sent`) that its document is
  parsed as what was sent (`SentIsReceived`), before it becomes a text: the members of each
  object hold what was put there and nothing else is looked for; all balls of a kind have
  one radius; the id of a state, wider than an unsigned int, is cut to it. `RoundTrip` says
  the same of the texts of some messages, with their reals rounded.

`Recursion` holds the induction these proofs need. The library's induction theorems take an
operator as a parameter, which the installed provers cannot instantiate; `Upwards` takes a
set instead, and follows from the order of the numbers being well-founded, as does
`LeastNumber`. `StepByStep` says that a recursive function over 0..n exists, `StaysWithin`
that its values stay where its steps lead, `SameWalk` that two with the same steps are
the same; with these, a definition `f[n \in 0..N] == ...`
becomes the equations it is meant to be.

`EventLoopProofs` proves `IteratorsGood` for any number of peers, from the one
assumption that the listening socket is none of them. The property is inductive as
it stands: the loop erases only the connection whose event it has just taken out of
the batch, and what `epoll_wait` reports without being in the list is what
`SendMessage` held at that moment. `SocketsOpenWhileHeld` is the other half of that race:
whichever thread lets go of a connection last, the socket is open until then and closed
from then on, and neither unread bytes nor queued messages outlive it. It needs that
`SendMessage` holds one connection at a time.

`PoolAsSpecified`, `ServedByOne`, `AnsweredOnce`, `NothingGoesUnpainted` and
`SocketsOpenWhileHeld` are not properties of a run: their statements are defined in
the proof modules, as the safety that the liveness properties of the runs
(`RequestsAnswered`, `PictureCatchesUp`, `PeerGoneClosed`) take for granted.

Left to TLC:

- liveness: TLAPS does not do fairness and ENABLED here;
- how reals are written, and the texts of documents (`RoundTrip`, `CutTextHarmless`,
  `StyledReadsAsFast`): the reader and the writers are RECURSIVE operators, with which the
  prover loses its arithmetic and its sets. They recur on the structure of a document, not
  on a number, so that they cannot be written as functions over 0..n. What they are made of,
  numbers and strings, and what is made of the documents, is proved.

## Plan

Done, in this order: `GameServer` with `ObserverStream`, `OutputPath`, `Deframer`,
`ThreadPool`, `GameServerProofs`, `ThreadPoolProofs`, `WebViewer`,
`WebViewerProofs`, `ClientFraming`; then `EventLoop`, the JSON modules and
`Protocol`, `HttpRequests`, `Field`, `Strategies`, `QtClient`, `WebPage`,
`EventLoopProofs` and the streams in `GameServerProofs`; then the connections there,
`Recursion`, `FieldProofs`, `ByteStreamProofs`, and the requests in
`WebViewerProofs`; the end of the pool and the Qt client in `ThreadPoolProofs`, the
connections' way through the pool in `WebViewerProofs`, the descriptors in
`EventLoopProofs`; then `Messages` and `JsonNumber` apart from the texts,
`JsonProofs`, and the border in `FieldProofs`. Left:

1. The texts of JSON documents, whose reader and writers are recursive: with a prover that
   can use induction over data, `RoundTrip` for documents of any depth.
2. The lines of an HTTP header and the routing of URLs.

## Not modelled

- The field across a diameter: the emulator computes with doubles, and `Field` has
  what remains exact with integers. Directions, rounding and the angle of a
  collision are left out; so is the search of `GetBestMove`, which may have any
  result.
- What the page and the Qt client draw. The comparison function that `app.js` gives
  to `sort` returns a boolean, so the order of the score board is the engine's.
- The parsing of the command lines. `GameConfig::Check`
  compares `min_players_count` with `max_states_count` and not with
  `max_players_count`; with more players required than allowed the game never
  starts, which the constants of the runs exclude.
- Lengths of 2^31 and more, which become negative in `processDataChunk`.
- The rest of jsoncpp: the internal map and array containers, which are compiled
  only with `JSON_VALUE_USE_INTERNAL_MAP`, `Path`, comments kept in values, its
  tests and release scripts. Nothing of the program calls them.
- `junk/`, which no build file outside it names, and `src/qt-client/ipc.hpp`'s
  include of `include/util/basics.h`, a file that is not in the repository: the Qt
  client is modelled from its text.
- The sign of zero; what `sscanf` makes of an exponent without digits (here: none) and of
  exponents beyond an int.
- In `GameServer` sockets are never full (that is `OutputPath`), chunks are whole
  messages (`Deframer`), and texts are records (`Messages`, `Protocol`).
