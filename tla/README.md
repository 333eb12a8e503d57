# TLA+ models of the duel server

This directory specifies the parts of the server whose correctness depends on
the order in which things happen, and some whose cases are too many for tests:
matchmaking, the lobbies and matches of both engines, the conversation of a
duel, reserved duels, ratings and their repair, decks, ban lists and card
databases. It holds TLA+ modules, the TLC configurations that model-check them,
and TLAPS proofs. `PROJECT.json` maps every definition to the lines it models
and lists runs, mutants, hazards, findings and theorems.

    tlasany Matchmaking.tla                                      # parse
    tlc -workers 2 -config MCMatchmakingPoll.cfg MCMatchmaking   # check
    tlapm MatchmakingProofs.tla                                  # prove

## The system

One Node process holds the rooms in memory. A *turn* of the event loop (a
client frame, an HTTP request, a socket close, a timer, the continuation of an
`await`) runs to completion, so the only interleaving is between turns; the
hard behaviour is in code that reads state, awaits, and goes on with what it
read, and in turns that arrive in an order the author did not have in mind.
Postgres and Redis sit behind the process. A YGOPro duel runs in a worker thread
with the WASM engine, an EDOPro duel in a core process fed through its stdin.

An action of these models is one turn. A handler with an `await` is several
actions, and the state between them is what the others can interfere with. A
handler that takes the room mutex is a first action (the gates before it, and
the entry in the queue) and a second one (what the mutex runs).

### Inventory

| component | state | operations | interacts with |
|---|---|---|---|
| matchmaking pool | participants, userId index, pending matches, requeued ids | add, remove, dequeue, accept, decline, tick | pairing policies, the participants' channels, the dispatcher |
| HTTP leg (`MatchmakingQueue`) | records by ticket, userId -> ticket | enqueue, poll, cancel, abortRoom, interval tick with reconcile | the pool; its own interval |
| socket leg | `Session.queueState` | ENTER, CANCEL, ACCEPT, DECLINE, close | the same pool, without reconcile |
| provisioning and reaper | room id -> created at | a dispatched match becomes a room; track, sweep | pool, room list, windbot |
| YGOPro lobby | players, stands, host, readiness, decks, reservation, mutex | find or make a room, admit, seat changes, deck, start, leave, finalize | credential lookup, windbot, leagues |
| YGOPro match | score, hands, duels, side decks, grace and side timers | frames of a player, timers, engine events, endings | engine worker, ending hooks, `GameOver` subscribers |
| ocgcore worker | the duel, its record, who is asked, the clocks | advance, answer, confirm, resync, timeout, dispose | match, players |
| reserved duels | key in Redis, row in Postgres, a session per room | claim, open, seat, begin, result, abandon, boot sweep | lobby, match, HTTP issuer |
| EDOPro lobby | clients, seats, kicked list, decks being built, mutex | create, join, kick, move, deck, start, close | credential lookup, HTTP room creation |
| EDOPro match | score, clocks, core processes, side decks, reconnecting flags | RPS, order, response, surrender, clock, core messages, endings | core process, replay, `GameOver` |
| core channel | queue of commands, waiting for drain | attach, send, drain, exit | EDOPro duels, core process |
| duel-event hub | a bounded queue per plugin and room state | attach, dispatch, drain, disconnect | duel states, plugins |
| statistics, ratings, achievements | tables and advisory locks | two subscribers, the achievements hook | `GameOver`, Postgres |
| repair scripts | plans, pages, inserts | points ledger, achievements, group ladder | the same tables, beside a live server |
| decks | the deck of a seat | submit, judge, lock, side | ban lists, room rules |
| ban lists | EDOPro and YGOPro catalogs, a fingerprint | boot, reload tick, swap | resource releases on disk, rooms |
| card databases | storage per pool, loads in flight, a lock | load, share, re-read, hash | duels, deck checks, worker threads |
| windbot | one-shot AIJOIN tokens, retries | requestBot | rooms |
| servers, HTTP, room-list socket, tickets, rate limits, auth, metrics, messages | sockets, buffers, caches | accept, parse, look up, broadcast | everything |

`PROJECT.json` repeats the list, finer, with the sources, a status and a reason
each. The room action queue is listed there as dead code: nothing imports it.

### What makes each part correct, and what is hard about it

* **Pool.** A user is in one place only, over replaced sockets, abandoned
  matches and failed provisioning; an opponent's behaviour never costs a
  participant its place; nobody opted into the accept step meets a human it did
  not ACCEPT. Hard: ACCEPT, DECLINE, deadline, death and replacement race for
  one pending match, and late answers arrive after the requeue.
* **HTTP leg.** Two maps that name each other; a searching record exactly while
  its participant is in the pool; a silent client frees its user. Hard: the
  request checks, awaits and then enqueues; a socket of the same user replaces
  the ticket's participant without the facade hearing of it.
* **Lobbies.** Whoever asked for a seat, the stands or an invitation gets that
  or a refusal; one host, distinct seats, the league's conditions for everybody
  who plays; a room nobody is connected to goes. Hard: the mutex is held over a
  credential lookup, closes queue behind it, TRY_START does not take it.
* **Match.** A decided score stays decided; one result counts per duel; nobody
  present is forfeited; a departure is settled. Hard: the result awaits hooks
  and replays while the room still answers frames, timers and engines.
* **Duel.** The record replays the duel; only the player asked is on the clock;
  time lost was time spent; silence ends. Hard: several `advance` loops, refused
  answers, confirmations and a resync around the awaits on the worker.
* **Reserved duels.** One outcome, the first; a result is never overwritten by
  an abandonment; a crash leaves nothing open. Hard: background writes with
  retries, late or lost, against joins, timeouts and a boot sweep.
* **Books.** The rating is the fold of its history, statistics that of the
  ledger, an achievement is awarded once, no lock cycle; a repair calls an
  account balanced only when it is. Hard: concurrent transactions and scripts.
* **Services.** Commands and events in order and without gaps; lists and cards
  never older than before and never lost. Hard: back-pressure, slow handlers,
  timers that overlap, releases published in the middle of a read.

## Modules

| module | what it is |
|---|---|
| `MatchmakingPool` | the pool's methods as operators from pool to pool, one section per source file |
| `Matchmaking` | both legs, provisioning, lobby of a match, teardown and reaper over one pool |
| `BestOf` | what a match promises about its score: an abstract specification |
| `YGOProMatch` | a room from its ready check to its end |
| `DuelTurn` | one duel between the engine's worker and the players: loops, clocks, record, resync |
| `YGOProLobby` | the rooms players make on the YGOPro server |
| `ReservedDuel` | from the reservation in Redis to the row in Postgres |
| `EdoLobby`, `EdoMatch` | the EDOPro waiting room, and its match to the end of the room |
| `OrderedFeed` | an ordered feed towards a consumer that may be cut off: an abstract specification |
| `CoreChannel` | JSON-line commands to an EDOPro core, with drain |
| `DuelEventHub` | duel events on their way to the plugins |
| `RoomRules`, `BanListCatalog` | the three tiers of password tokens, and which list an alias or index means |
| `BanListReload` | the lists in memory against the releases on disk |
| `CardLoad`, `CardPools` | from manifest to hash table; loads, shared loads and re-reads behind one lock |
| `DeckCheck` | the deck of a seat through a match, under either engine |
| `Elo`, `GameLedger` | the rating curve; the transactions of games that end together |
| `RankGroups`, `LedgerRepair` | which ladders a list feeds; the scripts that rebuild ledger and awards |
| `MC...` | the TLC instances: identities, symmetry, constraints, small data |
| `...Proofs` | theorems (see Proofs) |

`Matchmaking` and `YGOProMatch` meet at TRY_START: the first makes the room and
seats its players, the second begins with both seated and none ready. The same
holds for `EdoLobby` and `EdoMatch`, and for `YGOProLobby`, where a match is one
phase. `DuelTurn` refines the one step "the duel ends" of `YGOProMatch`.
`MCServices` and `MCGameLedger` put modules that share no variable beside one
another; a behaviour runs one of them while the others rest.

### Matchmaking

| variable | code |
|---|---|
| `now` | `Date.now()`, in units of the shortest constant |
| `pool` | `MatchmakingPool`: `InMemoryPoolStore` (with `byUserId`), `PendingMatches`, `requeuedByMatchId` |
| `records`, `usersInQueue` | the two maps of `MatchmakingQueue` |
| `ticket` | how far an HTTP enqueue request got: not sent, past its first check, done |
| `session` | `Session.queueState` of each socket |
| `sock` | `open`; `closing` once `close()` was called; `closed` once the close event ran |
| `rooms` | live matchmaking rooms, with the reaper's entry of each (`tracked`, `at`) |
| `orphans` | finalized rooms whose bot request has not settled |

`Tick` is the queue's interval; `Advance` moves time; `Sweep` is the reaper's
interval. The HTTP leg is `CheckRequest` (the controller up to its last await),
`Enqueue` (after it), `Poll`, `CancelTicket`. The socket leg is `Enter`,
`EnterWithWrongVersion`, `CancelSearch`, `Accept`, `Decline`, `SocketClosed`.
A room is entered by `Join` or `Watch` (gate and name check, up to the mutex)
and `Seat` (the rest, when the credential is known); `ToObserver` and `ToDuel`
change seats; `BotSeat`, `BotAnswer`, `LateBotAnswer` and `BotLeaves` are the
bot; `StartMatch` is TRY_START and `EndMatch` the end of whatever is played.

Enqueueing, ENTER and the interval all run the same `TickFrom`, because the code
ticks the pool inside each: sweep the dead, resolve pending matches, forget
closed requeues, pair, propose or dispatch, open rooms. Only the facade's own
ticks reconcile, which the argument `isFacade` carries.

Abstractions:

* A match id (a random UUID) is the deadline of the match with the ids it pairs.
* Names, decks, messages and ranks are data: a joiner *may* hold a name already
  taken, an account *may* have been banned since, a deck is accepted or not.
  The model takes both outcomes wherever the code could.
* Candidates with equal `enqueuedAt` may be paired in either order.
* `TCPClientSocket.close()` leaves `closed` false until the close event;
  `WebSocketClientSocket.close()` sets it at once. `TcpSockets` says which is
  which. `destroy()` detaches the listeners, so `Finalize` closes without a
  `SocketClosed`.
* A socket enters the model after AUTH and PLAYER_INFO, with its user resolved.
  It has at most one JOIN outstanding.
* `abandon()` returns each participant through `add()`. `StoreRestore` returns
  them together and leaves out `add()`'s replacement branch, because none of
  them has a rival: this is `UserQueuedOnce`, proved below over these very
  operators.
* Creating a room fails when no id is free; sends and events do not fail.
* `answers` and `optedIn` are history: which ACCEPTs reached the match, and who
  had asked for the step.

### The YGOPro match and its duel

| variable | code |
|---|---|
| `room` | `finalizing`; `silent` once `finalizeWithReplays` took the room's listeners too |
| `state` | `duelState` and the room state object that goes with it |
| `away` | players whose `socket.closed` is true |
| `ready`, `picked`, `chosen`, `byRps` | `isReady`, `handResult`, `clientWhoChoosesTurn`, `turnChoiceRequiresRps` |
| `match`, `wins`, `games`, `duelIds` | the `Match` of the room (which one, score, history) and `_duelIds` |
| `duel` | `currentDuel` and its `isFinished` |
| `round`, `core` | which dueling state was entered last, and the engine of each |
| `queue` | the room mutex: JOINs, the first of which holds it, and duels waiting to be created |
| `grace`, `side` | the timers of `AbandonBetweenDuels` and of side decking |
| `ending`, `results` | results that await `runEnding`, and the `GameOverDomainEvent`s published |
| `gaveUp` | history: whose surrender between duels ended the match |

`Ready`, `TryStart`, `RpsChoice`, `TurnChoice`, `Concede`, `EngineError`,
`UpdateDeck`, `RejectedDeck` and `Surrender` are frames of a player, taken only
while the room has listeners and the player a socket. `CoreUp`, `EngineWin` and
`Timeout` come from the engine. `GraceFires` and `SideTimeout` are the timers.
`Close`, `Reconnect`, `JoinStart` and `JoinDone` are the connections; the last
two are a JOIN up to the identity lookup and from its answer. `AbandonEnds` and
`DuelEnds` are what the two endings do after awaiting their hooks. Three
operators are shared because the code shares them: `WinCondition` (whatever ends
a duel), `Resolve` (whatever settles a departure) and `Finalize`.

`currentDuel` and the state machine are separate variables on purpose. The state
changes in the turn of the frame; the duel is created when the room mutex lets
it, and a win that arrives first meets the previous, finished duel and is
dropped.

* One player a team, no bot, tag partner, reservation or spectator. Who chooses
  the order is left out because TURN_CHOICE is taken from either player; the host
  is likewise either player.
* A timer has no duration. One that is set may fire at any moment, which covers
  every duration and every clock the code reads for it.
* An engine starts, runs, wins, expires or goes. It may come up in any state the
  room has reached by then. The rest is `DuelTurn`.
* Building a deck awaits only what is already in memory, so it belongs to the
  turn of its frame. `UpdateDeck(p, TRUE)` is the one case where that shows: the
  second of two deck frames of one socket read.

`DuelTurn` has two parties outside the code, marked external: the engine
(`engine` waits on a side, `buffer` is the answer it was given, `fed` those it
acted on) and the clients (`shown`, `flight`). The code's part is `loops` (each
`advance()` in flight, and what it awaits), `responseSide`, `lastRequest` and
`retrying`, the record `responses`, `resync`, and `TimerState`: the banks by
team, `runningPos`, `elapsed`, `due`, `awaitingConfirm`. Sides and teams are
kept apart by `swapped`, as in the code. `LoopStep` is one continuation of a
loop, `PlayerStep` an answer, its arrival, a confirmation or a reconnection with
the steps of its resync, `Tick` and `TimerFires` the clock, `Closes` and `Concede` the ends
that come from outside. What the engine's messages say, and how they are masked
for each player, is left out.

### Lobbies that players make

`YGOProLobby` has per connection where its join stands (`at`), the room it was
sent to, its seat, deck and credential, and per room its phase, its mutex queue,
its players and stands, and its bot's token. `JoinByKey`, `WatchJoin`,
`InviteJoin`, `JoinWithBot` and `BotJoins` are the ways in, up to the mutex;
`Admit`, `Return`, `ToObserver`, `ToDuel`, `SetDeck`, `NotReady` and `RunLeave`
are what the mutex runs. `TryStart` and `Disconnect` do not wait for it.
`AdmitStale` is an admission that resumes when its room is gone. `position` and
`team` outlive a client's stay in the code, so `pos` does here. TO_DUEL and
OBSERVER ask the client object and not the room's lists (`IsSpectator`): a
watcher who closes while his TO_DUEL waits is gone from the stands at once, and
takes a seat all the same when the section runs. `ghosts` is history: who was
admitted with his socket closed, or taken back while his removal waited. Rooms of
tags appear by their seats only.

`EdoLobby` is its counterpart: client objects are kept when their client leaves,
with their flags as sets (`host`, `ready`, `updating`, `saved`, `kicked`), decks
are built across an `await` (`builds`) and stored by seat number, and the mutex
is `holder` and `asked`. Every handler asks the mutex (`Command`, `UpdateDeck`,
`JoinGame`, `Disconnect`), `Run` is what it runs next; only a ranked JOIN keeps
it, until `LookedUp`. A close decides at once from which of the two lists its
client will be removed, and `RunRemove` looks in that one only: a command that
was queued before may have moved the client to the other, where it stays,
closed. `late` is history: whose socket had closed before the room took them in.

`EdoMatch` keeps each duel's core process (`core`, `told` for DESTROY_DUEL), the
running clocks, the endings in flight (`FinishDuelHandler.run` between counting
and what follows the replay), side decks being built, and who is reconnecting.
Clocks have no durations. `timedOut` and `restarted` are history: the two ways
by which the code leaves its usual order, which the properties name.

`ReservedDuel` keeps both ends and the road between: the key, the claim script's
answer per connection, `opening` (openRoom and its transaction), the room with
its mutex queue, seats, decks, bot and session, the row, and `writes`, the
background notes and outcomes not yet applied. `WriteRuns` may apply one and
keep it (a retry after a lost answer); `WriteFails` gives up. `Crash` empties
memory, `Restart` is the boot sweep.

### Books, decks and services

`GameLedger` interleaves the statements of the transactions of statistics and
ratings, with their advisory locks in the order they are asked for, the
achievements hook, and the group script; a delivery may be repeated or fail at
each statement. The curve is a parameter: `Elo` translates the code's, the runs
scale it down. `LedgerRepair` has the tables as sets of entries, live play with
half-written games, and the scripts page by page. `RankGroups` is which group
a list feeds, with aliases and the newest list of each server.

`DeckCheck` has decks as counts of codes, a handler of the validator's chain as
a conjunct, and keeps what a validator is made with (`judge`) apart from whether
the room's hash still finds its list (`listed`). `RoomRules` creates a room from
a sequence of tokens; a token stands for all spellings of its mapping.
`BanListCatalog` finds the list. `BanListReload` is boot, ticks and rooms against
a disk that may change between any two reads. `CardLoad` is one load from the
manifest to the open-addressing table, `CardPools` the jobs at the lock; a timer
run is the set of pools it has still to refresh, the named ones in any order.
`CoreChannel` and `DuelEventHub` number commands and events and keep as history
what was asked for and what was received.

## Runs

| run | question | bounds |
|---|---|---|
| `accept` | do answers early, late and after a requeue, replacements, deadlines and disconnects keep places, turns, consent and the index, and who is seated in the room that follows? | three users, the first with two TCP connections, one format; 3 clock values, timeouts of 0 and 1; one room id, so provisioning also fails; `FirstRoom`: the third user is gone, or waits first with everybody connected; a room is followed to its match while nobody else waits |
| `poll` | do the facade, the pool and the rooms agree under tickets, heartbeats, a socket of the same user, aborts and bots? | two users, three tickets (two of one user) and a socket; bot delay absent, shorter and longer than the clamp; two room ids; 3 clock values |
| `live` | what the two intervals guarantee when clients do nothing | a socket and a ticket, one room id, 4 clock values |
| `match` | what may the score do, who may forfeit, is every departure settled? | best of three; two duels, two matches, three games; one player may also return by JOIN |
| `edoLobby` | is the EDOPro lobby sound under joins, kicks, moves, decks and closes? | three clients, two of them with one name; a seat per team; two operations waiting for the mutex |
| `edoMatch` | does an EDOPro match count its results once? | best of three; two duels, two results for the first; one return of one player; one side deck at a time; hands that win, lose and are refused |
| `duelTurn` | does a duel's conversation keep record, turn and clock? | banks of two ticks; two questions, one refusal, one resync, two loops at a time |
| `duelTurnSilence` | does a silent player lose by his clock, whatever is left on it? (violated: finding 1) | as `duelTurn` |
| `reservedDuel` | one outcome, whatever order writes, joins, timeouts and crashes take? | three connections of two users; seven reservations, a crash in three of them; one match, two duels |
| `ygoproLobby` | who is seated, watching, refused, and when does the room go? | four connections in parties of different ways in, two rooms, one command of each waiting |
| `ledger` | do ratings, statistics, achievements, scripts and decks agree? | three users; eleven cases of one to three games, one of a list with the name of a group, four pasts of the scripts, ten deck rooms; small thresholds |
| `services` | feeds, rules, lists and cards, one at a time | two attachments, queue of two, two slow handlers; commands of up to three tokens; two timer callbacks, two versions, one failure; two askers |

Why these bounds are enough. The pool's races are between the two members of a
match, a second connection of one of them, and one third party: three users with
four sockets, or two with three tickets and a socket, is every such cast. FIFO
is at stake when a requeued player meets somebody who came later and somebody
who came earlier, which three users with the accept step on are enough for. In
the room, the third user and the second connection are the intruders;
`FirstRoom` keeps pool and room from being explored as a product. Timeouts
compare `now` with one stored instant, so what matters is before, at and after
each, which three or four clock values give with the timeouts at 0 or 1. One
room id makes exhaustion reachable, two let a second room live beside the first.
`MaxNow` stops the clock; nothing else bounds these runs, because tickets are
consumed once and every other set is finite.

In the match, two duels let an event of the first meet the second, and two
matches let one begin while the result of the other waits; best of three is the
shortest match in which a score can be level, and three games include a draw.
`NotSilent` cuts a run where the room has lost its listeners: what still arrives
there is dropped or touches timers and engines nobody reads. For the liveness
properties the room is closed there already. `Going` in `duelTurn` cuts a duel
where a question was answered twice, which the properties except, and lets side 0
be asked first: the sides differ by their numbers only, and both values of
`swapped` are taken.

In the lobbies, an admission, the operation that overtakes it or waits behind it
and one more actor are the cast of every race at the mutex: three clients or
four. In `ledger` two games that share one or both players, or three around a
triangle, are what two transactions can conflict over; a lock cycle needs no
more, once two lists look their ranks up in different orders (`Named`). Three
wins one after the other let an award fail and be made up for (`Recovered`). In
`services` a fault needs two of each thing: two cores for a late drain, two
ticks for an overlap, two versions for a stale one. Two of a slow handler reach
the disconnection, a queue of two its overflow.

No run checks deadlock: every client may simply stop. `SYMMETRY` exchanges
connections, tickets or whole users that no constant tells apart, only in runs
without liveness. Each passing run finds between 2,500 and two million distinct states.

### What the properties say

Some properties are named conjunctions of those that one question asks.

* `UserQueuedOnce`, `IndexAgrees` - one participant per user, and an index that
  finds exactly it.
* `ConsentBeforeRoom` - no opted-in participant is put in a human match it did
  not ACCEPT.
* `KeepsPlace` - whoever still searches over a live channel is in the pool after
  the step with the `enqueuedAt` it had, or in a new room.
* `TicketsHold` = `OneRecordPerUser`, `QueuedTicketSearches` - the facade's maps
  name each other, and a poll participant in the pool has its searching record.
* `PollersAreServed` = `KeepsPlace`, `BotOnlyWhenAlone` (a bot only for whom FIFO
  left alone), `AbortFreesBoth` (when a lobby goes, no record keeps naming it).
* `NoOvertaking` - FIFO within a format, requeued participants included, while
  room ids suffice (`RoomsSuffice`): a failed provisioning drops a match from the
  middle. A user who comes back over a new connection gives up his place.
* `RoomOfTwo` - a ranked room pairs two people and seats only them. It counts
  people, not connections: both connections of one can be seated (finding 3).
* `NobodyWaitsForever` = `PairLeavesStore`, `ProposalSettled`,
  `SilentTicketFreed`, `ShortLobbyReaped` - for what falls due before the clock's
  bound.
* `KeepsScore` - the score implements `BestOf`: a decided match stays decided
  while its ending is awaited, whatever duel is played meanwhile. Checked of both
  engines' matches.
* `PresentNeverForfeits` - a match is forfeited only by a player who surrendered,
  is away, or still owes a side deck.
* `MatchSettles` = `DepartureSettled` (a player away between duels comes back, or
  the match moves on, or the room closes), `DecidedMatchCloses`.
* `LobbySound` = `SeatsDistinct`, `OneHost`, `ForeignDeckIsALeavers`,
  `HeldReadyAwaitsADeck`; `StartsWithThePresent`, of unranked rooms; `LobbyAnswers` =
  `JoinAnswered`, `DeletedRoomEnds` (unranked), `LastOneOutDeletes` (a room on the
  list has a member connected, ranked or not, unless it took somebody in whose
  socket had already closed).
* `ResultsCountOnce` = `OneGamePerDuel`, `PublishedOnce` - but for the duels from
  the first that a clock or a late side deck interfered with (finding 5);
  `MatchSound` = `NoCoreForgotten`, with the same exception,
  `DeletedRoomHoldsNobody`, of casual rooms, `OrderHasAChooser`.
* `RecordReplaysDuel` - the record is exactly the answers the engine acted on.
  `ClockIsFair` = `AskedSideHasClock`, `TimeoutIsEarned`, `ThinkingTimeIsBounded`.
  `SilenceEnds` - a player who is asked with time in the bank answers or loses it.
  `SilentPlayerLoses` says the same of whoever is asked, and does not hold: with
  an empty bank no clock runs (finding 1).
* `ReservationSound` - types, `QuickQuitIsStarted` (a duel that began is recorded
  as started), `SeatsAreTheirs`, `OneEntryEach`. `ResultOwnsTheOutcome` - a match
  decided in an open room is not recorded as abandoned. `OutcomeIsFinal` - the
  first outcome stays. `ReservationSettles` = `RowSettles`,
  `ClosedReservationIsGivenBack`, `DecidedIsRecorded`.
* `LeagueHolds` - who plays in a league meets its conditions. `RoomsSound` =
  `SeatsDistinct`, `NoTokenOutlivesItsRoom`, `OneBotPerRoom`,
  `LastOneOutClosesTheRoom`. `RequestsAreHonoured` = `InviteNeverWatches`,
  `WatcherJoinsTheStands`, `StartIsDeliberate`, `JoinIsAnswered`.
* `RatingIsItsHistory`, `NoLockCycle`; `BooksAgree` - statistics are the sum of
  the ledger, but for a game announced twice (finding 5) and a group row the
  script moves between a read of it and its write; a match row has its credits,
  awards come once and catch up, an account called clean is balanced and its wins
  and losses on Global are its matches, a replay awards what live play did.
* `DecksAreLegal` - a deck that duels is legal under its room's list, or, where
  that is lost (finding 2), was judged by the empty one, or is the reserved one;
  side decking moves cards without changing them.
* `RoomIsAsAsked` - each setting comes from the last token of the highest tier
  that speaks of it, list 0 where the list it asks for is not loaded, and the room
  can be played; the default is the newest TCG list (finding 4). `LoadsHold` - a
  duel reads of
  each card the row its pool puts first, through collisions and shared loads.
* `ChannelHolds` - the channel implements `OrderedFeed`, and no step makes it wait
  for a drain the attached core does not owe: the late drain of a replaced core
  keeps the order and is caught here. `HubIsOrderedFeed` - the hub implements it
  too.
* `ListsNeverLost` - a reload leaves no catalog empty or older, and a match loses
  its list only to a newer one; that it loses it is finding 2. `CardsNeverGoBack` - the same of a pool.
* `ServicesCatchUp` - queued commands and events are delivered, lists and pools
  follow the disk, whoever asks for a pool is answered.

### Fairness

* `live`: weak fairness of `Advance`, `Tick` and `Sweep`, two `setInterval`
  callbacks nothing cancels, and time. Clients, bots and lookups get none.
* `match`: the grace timer, the side-deck timer and the endings. Timers fire
  unless cleared, and `MatchLifecycleHooks` bounds the await by a budget. A
  departure between duels is settled by nobody's help: by the grace timer its
  close starts, or, for a player already away before side decking, by the
  side-deck timer, which therefore has to start for absent players too.
* `edoLobby`: the mutex runs what it is asked, a lookup answers or fails.
* `ygoproLobby`: the same, and the bot request has ten attempts at most.
* `duelTurn`: time, a timer that is due, the loops (the worker answers, or
  `processWithTimeout`'s minute ends) and the end of a resync. Not the players.
* `reservedDuel`: timers, transactions, the mutex, the end of a duel, the next
  boot. A write is retried a bounded number of times, then given up: what is fair
  is that it leaves, not that it succeeds, and `RowSettles` excepts those.
* `ledger`: none; that awards catch up is an action property of the next award.
* `services`: "drain" follows the emptying of a live process's pipe; microtasks
  run; a reload's reads return and its interval keeps firing; card workers finish
  or throw. `HubFair` also assumes that a plugin's handler returns, which is the
  plugin's own part: of one that does not, only a full queue ends the wait, and
  `EveryEventHandled` says nothing.

### Findings

Where a doc, a comment or a test says one thing and the code does another
(`findings` in `PROJECT.json`):

1. **An empty bank stops the clock.** `setResponseTimer` clears the running clock
   and, with nothing left, calls `handleResponseTimeout`, which returns because no
   clock runs (`ocgcore.ts:1077`). A silent player asked then holds the duel for
   ever, against `YGOProMidDuelNoShow.test.ts:125`. The run `duelTurnSilence` is
   the counterexample: a TIME_CONFIRM settles the bank to nothing, and no step is
   left but the players'.
2. **Rooms in flight lose their list.** `bootstrapBanListReloader.ts:15` says that
   they snapshot it; they keep a hash (`YGOProRoom.ts:394`). After a reload decks
   are judged by no list (`listed` in `DeckCheck`) and the match is credited to
   none. `ListsNeverLost` and `DecksAreLegal` name the case; without it neither
   holds.
3. **One identity, two seats.** The gate is asked before the mutex and the
   credential lookup only (`YGOProWaitingState.ts:122`), so two connections of one
   reserved user can both be seated, against the comment of `holdsLiveSeat`.
4. **The default list** is the newest TCG list (`YGOProRoom.ts:208`), where
   `docs/join-commands.md:81` and `:119` say the first.
5. **Published twice.** `docs/plugins.md:84` says a match is published once by both
   pipelines. An EDOPro clock that fires in whatever state the room is in, and a
   side deck that lands late, make it twice (`timedOut` and `restarted` in
   `EdoMatch`), and the statistics count both.

### Where the code does something else than one expects

No text says otherwise; these were met while modelling, and the properties above
are stated so that they hold of what the code does.

* A late CANCEL is refused when the queue state is `matched`
  (`CancelMatchmaking.ts:30`), which nothing assigns.
* A socket that closes during its admission is seated afterwards; with two of
  them the reaper stops tracking a lobby whose close events are spent. In the rooms
  players make so it is too (`ghosts`), and a watcher who closes while his TO_DUEL
  waits for the mutex is seated as well. The last one out still closes the room in
  the latter case: the policy asks who is connected, not who is listed.
* A removal in an EDOPro lobby misses a client whose role changed since the close,
  who stays in the other list, closed.
* TRY_START needs every *seated* player ready, so a lone host of a match starts;
  in an EDOPro room with a team missing, it throws.
* While an abandoned match awaits its ending hooks the room still plays, and a
  duel that ends in that time publishes a second result.
* An engine that comes up after its duel was left, or whose room was closed in
  mid-duel, is never disposed; its answer clock can end the next duel.
* A rejected side deck does not restart the side-deck timer, and a second deck
  frame in one read can skip an RPS.
* A matched record is kept alive by polling (`MatchmakingQueue.ts:413`), not
  counted from `matchedAt`; a user with a room by socket may queue again by HTTP.
* A watcher's close aborts the lobby of a match as a player's does; a bot request
  that fails late releases records by a room id that may be in use again.
* A resync while an answer is processed makes the server forget the side it asks
  (`ocgcore.ts:1163`): answers are dropped until the clock ends the duel.
  `ClockIsFair`, `RecordReplaysDuel` and `SilenceEnds` except these (`lost`).
* An EDOPro kick bans by address only while the kicked client is connected.
* The pattern of "lf" also takes the "lf" off "lflist<N>", and looks the rest up
  as the name of a list. An AI room made with a PIN is in the external league,
  which turns its own bot away as a guest.

## Proofs

Each result holds for every value of the constants that satisfies the named
assumptions; the runs check the same formulas on the instances above. The proofs
share one shape: the property alone is not inductive, an invariant that is gets
one lemma per operator or per conjunct, then a case per action, and PTL closes
the induction.

### The pool (`MatchmakingProofs`)

`PoolInOrder`, `WaitsOnce` (`UserQueuedOnce`), `IndexSound` (`IndexAgrees`),
`TypeCorrect` (`TypeOK`). Assumptions: each id has one owner (`OwnerAssumption`),
sockets and tickets are disjoint and `None` is neither (`IdsAssumption`,
`NoneAssumption`), the times are naturals (`TimesAssumption`), and the parameters
of `Matchmaking` are subsets of what their names say (`ModelAssumption`).

`UserQueuedOnce` is not inductive: `add()` looks for the newcomer's rival in the
index first and in the pending book only if the index finds nobody, so a stale or
missing index entry would let a second participant in. `IndexAgrees` is not
either: the index can name only one participant per user. `PoolInv` takes the two
with the types and with "every participant belongs to the owner of its id", and
each pool operator preserves it (`StoreDropOK` to `DispatchOK`). The delicate one
is `AbandonOK`: returning participants to the store keeps one place per user
because the match that held them left the book in the same turn and nobody in the
store had their users. Types need `PoolInv` in turn: a tick's rooms reserve users
of participants.

### What a match room promises (`MatchmakingProofs`)

`PromisesKept`, `ConsentProved` (`ConsentBeforeRoom`), `RoomOfTwoProved`
(`RoomOfTwo`), `TicketsProved` (`TicketsHold`).

`ConsentBeforeRoom` speaks of a room, but consent is given to a proposal. The
invariant `PromiseInv` therefore follows the promise on its way: in the book, a
proposal has exactly two members of two users and its recorded answers are those
of the members that opted in (`BookOK`); between the two, a match that is
dispatched is `Fit`; in a room, the reserved users are the match's and the seats
are theirs (`RoomsSound`). `TickFrom` was shown once to be the chain of the pool's
operators (`TickShape`), so each of them has one lemma about `BookOK`. That a pair
reserves two people and not one twice is `UserQueuedOnce` again. For
`TicketsHold` the maps have to name each other owner by owner (`MapsOK`): then
`removeRecord` takes both entries of a ticket and nobody else's. A tick marks a
record matched exactly where its participant leaves the pool (`FoundMaps`,
`SameId`, which is `PoolInv`), and reconciling drops no ticket the pool holds.

### Whose turn it is (`MatchmakingProofs`)

`KeepsPlaceProved`, `NoOvertakingProved`, `PollersServedProved`
(`PollersAreServed`); the last two from `IsFiniteSet(Users)` as well, since they
count rooms.

`KeepsPlace` needs one fact beside `PoolInv` and `PromiseInv` (`OptedOut`): whoever
of a proposal is not asked counts as having accepted. Otherwise a deadline or a
decline would drop a poll participant, who cannot accept, for not answering. Each
pool operator then says whom it keeps (`RemoveStays`, `AbandonStays`, `AddStays`,
`SweptStays`): everybody but those it is called for, those whose channel is gone
and those who owed an answer. A tick keeps the rest or gives it a room
(`PairedKeeps`), and `PlaceStep` goes through the turns.

`NoOvertaking` and `BotOnlyWhenAlone` are about one tick at a time: FIFO pairs
the earliest (`IsFifoPairing`) and leaves at most one of a format over, whoever
was swept, came back or arrived just before. What can go wrong is a match that is
formed and then not placed. `DirectPlaced` excludes it by counting: the matches
placed at once are disjoint sets of stored participants, each participant is of
another user, a pair takes two of them (`PairCount`) and a bot one
(`DirectCount`), so there are no more of them than `RoomsSuffice` has ids for.

`AbortFreesBoth` follows from the turns alone (`ReleaseStep`): the waiting rooms a
turn finalizes are among those whose records it releases (`ReleasedRecords`).

### The score, and who forfeits (`YGOProMatchProofs`)

From `MatchAssumption` (two players, a positive number of wins needed):
`ScoreImplementsBestOf` (`KeepsScore`), `OnlyTheAbsentForfeit`
(`PresentNeverForfeits`), `TypeCorrect`. The refinement rests on `ScoreOK` alone:
`ScoreNext` shows that each action changes the score in one of the three ways
`BestOf` allows or not at all. The forfeits need `SideOK`: a side-deck timer runs
only in side decking and only for a player who is not ready. Without it the timer
of a player who has handed a deck in could fire. `ResolveForfeits` adds that
settling one player's departure never raises that player's own score.

### Reserved duels (`ReservedDuelProofs`)

`ReservationInvariant`, `ReservationSoundProved`, `ResultOwnsProved`
(`ResultOwnsTheOutcome`), `OutcomeIsFinalProved`. From `ReservedAssumption`: seats
are numbers, the bot and `None` are no connections, reservations have their fields.

The code spreads what it knows over a session object, a `finalizing` latch, a row
and writes in flight, and each alone may lag. `ReservedInv` says how they lag:

* nothing exists before the room is opened (`FreshInv`), while `openRoom` waits
  its caller waits and nothing can be written (`OpeningInv`), a reservation of an
  unknown format never has a room (`UnplayableInv`);
* an open room that is not finalized is abandoned neither on the row nor by a
  write in flight (`CleanInv`); of a decided match neither is, and the flag that
  `close()` reads is set (`DecidedInv`);
* every abandonment in flight of a duel that began says so (`BegunInv`), which is
  what makes `QuickQuitIsStarted` inductive: the write copies the flag long before
  it lands;
* one connection claims the key (`ClaimedOnce`); whoever passed the claim is a
  user of the reservation (`SeatInv`); an admission waits once for a connection
  that waits for it (`AdmitInv`); whoever is in has joined on the row
  (`EntryInv`): from these, `SeatsAreTheirs` and `OneEntryEach`.

There is one lemma per conjunct. Steps that leave a part alone are grouped by
frames (`Ending`, `OnlyRequests`, `QuietLobby`, `QuietQueue`), so that a lemma has
few cases.

### The lobbies (`YGOProLobbyProofs`, `EdoLobbyProofs`)

YGOPro: `LobbyInvariant`, `LeagueHoldsProved`, `RoomsSoundProved`, and
`RequestsKept`, the safety part of `RequestsAreHonoured`. From `LobbyAssumption`.
What is queued at a room's mutex decides what may happen next, so the invariant
reads the queue: an entry is of a connection that was sent to that room, at most
one admits it, and nothing of it comes before (`EntriesInv`); a connection is of
one room, the one it was sent to (`HomesInv`); cells and hosts are not shared
(`CellsInv`); the room's only bot came with its spent token (`BotsInv`). That the
last one out closes the room needs `OpenInv`: without `ghosts`, each removal queued
is of somebody who is closed, and of those inside one is not; and `MovesInv`: a
TO_DUEL that waits seats its client, gone or not, only in a room somebody is in.

EDOPro: `LobbyInvariant`, `TypeCorrect`, `OneHostProved`, `LobbySoundProved`,
`StartsWithThePresentProved`, `LastOneOutProved` (`LastOneOutDeletes`). From
`LobbyBounds`, for teams of any size. `nextAvailablePosition` gives the position it
wraps round to the team of the lowest one there is (`NextPlace`), so a player who
wraps into a second team of two is filed under the first, and a newcomer can be
given his position: `SeatsDistinct` says that this is the only way two players come
to hold one (`SharedIsMisfiled`), and that with one seat in the second team nobody
does. `OpsInv` orders what waits for the mutex: nothing of a member moves it once
its removal has run, so who left does not come back, and the host is never the one
removed. `SeatsInv` carries the decks: where positions are distinct, one built for a
seat belongs to its player or to somebody who left. `UnrankedInv` says that in an
unranked lobby the mutex is free between frames, so that a start finds the closed
players gone. `LastInv` is for any lobby: on the list there is a member connected,
or one who came in closed and is never removed.

### The match of EDOPro (`EdoMatchProofs`)

`TypeCorrect`, `MatchInvariant`, `ResultsCountOnceProved`, `MatchSoundProved`,
`ScoreImplementsBestOf` (`KeepsScore`), from `MatchBounds`. `ResultsCountOnce`
needs to know what is on its way: while no clock and no late side deck has
interfered, an ending is alone, of the current duel, and nothing was published
(`EndingAlone`); a counted duel that is not finished was timed out. The score
refines `BestOf` by the same three cases as YGOPro's.

### The conversation of a duel (`DuelTurnProofs`)

`DuelInvariant`, `TypeCorrect`, `RecordReplaysDuelProved`, `ClockIsFairProved`,
from `TurnBounds`: times are naturals, a second is at least one tick, the time
limit is a whole number of seconds (`time_limit` is), at least one loop runs.

* `OneLoop`: unless an answer was doubled, one `advance()` works, and none while a
  side is asked.
* `RecordInv` says for each point of that loop how the record stands to what the
  engine acted on: ahead by the answer in hand while it is set and processed, even
  again when the refused answer has been taken back or a new question is up.
* `BankInv` is the arithmetic of `TimerState`: what a response adds to one bank it
  takes from the other, in whole seconds, so neither passes the limit.
* `ClockInv` balances the books of a turn: what was used, what is left, what was
  given back and what runs now add up to at least the limit (nobody is timed out
  early) and at most what the banks allow (nobody thinks longer).

### Services (`ServicesProofs`)

* `ChannelImplementsFeed`, `WaitIsTheAttachedCores`, and `ChannelHoldsProved`
  (`ChannelHolds`), which is both:
  what the attached core has read, followed by what waits, is what was asked
  (`NothingLost`); the wait is the attached core's own (`WaitsForItsOwnDrain`).
  Each step then maps to one of `OrderedFeed`.
* `HubImplementsFeeds` (`HubIsOrderedFeed`) and `HubStaysBounded`: the same ledger
  per plugin while it is connected (`NothingSkipped`), and a plugin out of patience
  is disconnected with no handler awaited (`PatienceHolds`), without which a late
  handler would deliver more.
* `ReloadKeepsLists` (`ListsNeverLost`): the overlap guard keeps one cycle awake
  (`OneCycle`); what it read is at least what it replaces and at most what is on
  disk (`CycleIsAhead`, `ListsAreRead`); a room's list is no newer than the catalog
  (`RoomsAreBehind`).
* `CardsNeverGoBackProved` (`CardsNeverGoBack`, and `PromiseHasItsLoad` of
  `LoadsHold`), from `CardBounds`. Timer runs have no overlap guard here, so the
  order at the lock has to do (`QueueSound`): of the jobs queued only the holder
  has read, and what it read lies between the storage and the disk; a load is the
  only one of its promise, for a pool with no storage yet; a run's job is for a
  pool that has one. `JobJoins`, `HolderLeaves`, `HolderReads` and `DiskGrows` show
  that of any queue, and each action is one or two of them.

### What the proofs corrected

Three properties held in their runs only because of the bounds, and two more only
because a run cuts doubled answers; the attempt to prove them showed it, and they
now say what the code does for every size.

* `NoCoreForgotten`: a clock, or a late side deck, can leave an ending behind that
  takes a *later* duel away from its engine too, so the exception is for every duel
  from the interfered one on, not for that one alone.
* `LastOneOutClosesTheRoom`: somebody who takes a seat back while the removal of
  the old connection is queued is removed by it, still connected (`Removed`). Such a
  room can be left with closed connections only; the exception for `ghosts` is per
  room now, and party `Back` of the run reaches the case.
* `NoOvertaking` counted room ids for the pairs only; bots take ids as well, and a
  bot's room can leave none for a pair that is formed before a later one. It also
  took a user who was replaced by his own new connection, and is matched in the
  format that one asked for, for one who overtook.
* `AskedSideHasClock` and `SilenceEnds` except a question that was answered twice
  (`doubled`): two loops then work on it and the last question put is not the
  engine's.

### What is only model-checked

* Liveness and everything that rests on fairness or `ENABLED`: `NobodyWaitsForever`,
  `MatchSettles`, `LobbyAnswers`, `SilenceEnds`, `ReservationSettles`,
  `ServicesCatchUp`, `JoinIsAnswered`. Both are out of the prover's reach.
* What a recursive definition computes for every input (induction over data): the
  folds of `RatingIsItsHistory` and `BooksAgree`, the counting of decks in
  `DecksAreLegal`, the walk of the hash table in `LoadsHold`, the tiers of
  `RoomIsAsAsked`.
* `NoLockCycle`: that locks taken in sorted order cannot form a cycle rests on a
  finite set having a largest element and on what the sort returns, both
  inductions over data.
* Liveness of the EDOPro match is not checked either: with endings, clocks and
  side decks fair the graph does not fit a run of a few minutes.

## Not modelled

The C++ core and the WASM engine's card effects, the encoding of messages and
replays, masking of duel messages, tag duels beyond their seats, chat and emotes,
the caches and single look-ups of tickets, credentials and rate limits, the
read-only HTTP catalogues, the room-list broadcast, metrics and wiring: either
data without coordination, or coordination that the database performs.
`PROJECT.json` gives the reason of each. Two modules that meet (a lobby and its
match) are checked apart: the second starts from every state the first may hand
over, and no run composes them.

## Plan

1. *Done:* matchmaking, the YGOPro match over `BestOf`, their first theorems.
2. *Done:* lobbies and match of both engines, the duel's conversation, reserved
   duels, books, decks, lists, cards and feeds.
3. *Done:* proofs of the rooms' promises, the reserved duel, the feeds, the reload.
4. *Done:* proofs of both lobbies, EDOPro's match, the duel's record and clock,
   the card databases, and who is served in what order.
5. What is left: the matching of locks in `NoLockCycle` and the folds of the books,
   if a prover for induction over data becomes available; the liveness of EDOPro's
   match, if a smaller abstraction of it is found.
