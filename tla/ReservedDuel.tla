---------------------------- MODULE ReservedDuel ----------------------------
(***************************************************************************)
(* A reserved duel from the reservation in Redis to its row in Postgres    *)
(* (docs/reserved-duels.md): participants claim it with "rv#<id>", the     *)
(* first one opens the room, the seats and decks are fixed, the server     *)
(* starts the duel, and one outcome is recorded whatever ends it: the      *)
(* result, a leaver, the lobby timeout, a missing bot or a restart.        *)
(* Writes run in the background with retries, so they land late, in any    *)
(* order, twice or never.  An action is one turn of the event loop.        *)
(***************************************************************************)
EXTENDS Naturals, Sequences, FiniteSets

CONSTANTS
  Conn,          \* connections, each with a ticket
  SeatOf,        \* the seat whose user a connection belongs to, or None
  Comes,         \* bound: the connections that use a reservation
  Reservations,  \* what the issuer may have written
  MaxAsked,      \* bound: commands of a connection not handled yet
  MaxMatches,    \* bound: createMatch calls
  MaxDuels,      \* bound: duels of the match
  Crashes,       \* bound: crashes, by reservation
  Bot, None

ASSUME ReservedAssumption ==
  /\ SeatOf \in [Conn -> {0, 1, None}] /\ Comes \in [Reservations -> SUBSET Conn]
  /\ {MaxAsked, MaxMatches, MaxDuels} \subseteq Nat /\ Crashes \in [Reservations -> Nat]
  /\ Reservations \subseteq [readable : BOOLEAN, format : {"fits", "unfit", "unknown"},
                             single : BOOLEAN, bot : BOOLEAN, reconnect : BOOLEAN, exact : BOOLEAN]
  /\ Bot \notin Conn \cup {None} /\ {0, 1, None} \cap Conn = {} /\ None \notin {0, 1}

VARIABLES
  opt,        \* the reservation
  key,        \* external: its key in Redis, by who claimed it
  script,     \* external: the claim script of each connection, and its answer
  up,         \* the server runs
  at,         \* where each connection's join stands
  closed,     \* connections whose socket is closed
  opening,    \* who runs openRoom, and how its transaction stands
  room,       \* the room's phase
  finalizing, \* YGOProRoom.finalizing
  queue,      \* the room mutex: what waits for it
  occupant,   \* who holds each seat
  ready,      \* the seats marked ready
  building,   \* decks on their way to their check, by connection
  bot,        \* how far the bot that was asked for is
  session,    \* ReservedDuelSession: started, gameOver, closed
  row,        \* external: the reserved_duels row, or None
  joined,     \* external: seats with joined_at
  writes,     \* background writes under way
  crashes,    \* for the bound
  matches,    \* history: createMatch calls
  duels,      \* duels of this match
  begun,      \* history: a duel began
  decided,    \* history: the match was decided in a room still open
  failed      \* history: a background write or the boot sweep failed for good

redis == <<key, script>>
lobby == <<queue, occupant, ready, building>>
db == <<row, joined>>
past == <<crashes, matches, duels, begun, decided, failed>>
vars == <<opt, redis, up, at, closed, opening, room, finalizing, lobby, bot, session, db, writes, past>>

Seat == {0, 1}
NoRow == [outcome |-> "none", by |-> None, started |-> FALSE]
Session0 == [started |-> FALSE, gameOver |-> FALSE, closed |-> FALSE]
Closers == {"disconnect", "room_closed", "no_show", "bot_unavailable"}
Outcomes == {"none", "open", "result", "server_restart"} \cup Closers
Between == {"rps", "siding"}

TypeOK ==
  /\ opt \in Reservations /\ key \in {"unclaimed", "here", "elsewhere", "gone"}
  /\ script \in [Conn -> {"none", "sent", "claimed", "here", "refused"}]
  /\ at \in [Conn -> {"out", "claiming", "waiting", "claimingSeat", "queued", "seated", "watching", "refused", "unheard"}]
  /\ opening \in [by : Conn \cup {None}, tx : {"none", "sent", "committed", "failed"}]
  /\ room \in {"none", "opening", "waiting", "rps", "duel", "siding", "ending", "over"}
  /\ occupant \in [Seat -> Conn \cup {Bot, None}] /\ ready \subseteq Seat /\ closed \subseteq Conn
  /\ building \in [Conn -> 0 .. MaxAsked] /\ bot \in {"none", "asked", "coming", "here", "decked"}
  /\ {up, finalizing, begun, decided, failed} \subseteq BOOLEAN
  /\ session \in [started : BOOLEAN, gameOver : BOOLEAN, closed : BOOLEAN]
  /\ row \in [outcome : Outcomes, by : Seat \cup {None}, started : BOOLEAN] /\ joined \subseteq Seat
  /\ joined # {} => row.outcome # "none"
  /\ \A w \in writes : w.what \in {"open", "start", "abandon", "result", "release"}

\* A reservation waits in Redis; nobody has come.
Init ==
  /\ opt \in Reservations /\ key = "unclaimed" /\ script = [c \in Conn |-> "none"]
  /\ up = TRUE /\ at = [c \in Conn |-> "out"] /\ closed = {}
  /\ opening = [by |-> None, tx |-> "none"] /\ room = "none" /\ finalizing = FALSE
  /\ queue = <<>> /\ occupant = [s \in Seat |-> None] /\ ready = {}
  /\ building = [c \in Conn |-> 0]
  /\ bot = "none" /\ session = Session0
  /\ row = NoRow /\ joined = {} /\ writes = {}
  /\ crashes = 0 /\ matches = 0 /\ duels = 0 /\ begun = FALSE /\ decided = FALSE /\ failed = FALSE

UserSeat(c) == IF SeatOf[c] = 1 /\ opt.bot THEN None ELSE SeatOf[c]
Users == IF opt.bot THEN {0} ELSE Seat
SeatedAt(c) == {s \in Seat : occupant[s] = c}
Live(s) == occupant[s] \notin {None, Bot} /\ occupant[s] \notin closed
HeldBy(s) == occupant[s] \in Conn

-----------------------------------------------------------------------------
(* Closing: the session, its background writes and the teardown. *)

Abandon(reason, by) == [what |-> "abandon", reason |-> reason, by |-> by, started |-> session.started]

\* Bugs.
CloseWrites_Always(reason, by) == {Abandon(reason, by), [what |-> "release"]}
CloseWrites_KeepsKey(reason, by) == IF session.gameOver THEN {} ELSE {Abandon(reason, by), [what |-> "release"]}

\* ReservedDuelSession.close: once a game over was dispatched the result is its
\* subscriber's.
CloseWrites(reason, by) == (IF session.gameOver THEN {} ELSE {Abandon(reason, by)}) \cup {[what |-> "release"]}

Clients == {c \in Conn : at[c] = "watching" \/ SeatedAt(c) # {}}

\* FinalizeYGOProRoom, which `and` more sockets close with.
Finalize(reason, by, and) ==
  IF finalizing THEN closed' = closed \cup and /\ UNCHANGED <<finalizing, session, writes>>
  ELSE /\ finalizing' = TRUE
       /\ session' = [session EXCEPT !.closed = TRUE]
       /\ writes' = writes \cup CloseWrites(reason, by)
       /\ closed' = closed \cup Clients \cup and

teardown == <<finalizing, session, writes, closed>>

-----------------------------------------------------------------------------
(* The issuer and the other instances (external). *)

Revoke == key = "unclaimed" /\ key' = "gone"
          /\ UNCHANGED <<opt, script, up, at, opening, room, lobby, bot, db, past, teardown>>
ClaimedElsewhere == key = "unclaimed" /\ key' = "elsewhere"
          /\ UNCHANGED <<opt, script, up, at, opening, room, lobby, bot, db, past, teardown>>

-----------------------------------------------------------------------------
(* Joining with "rv#<id>". *)

Join(c) ==
  /\ up /\ at[c] = "out" /\ c \in Comes[opt]
  /\ at' = [at EXCEPT ![c] = "claiming"] /\ script' = [script EXCEPT ![c] = "sent"]
  /\ UNCHANGED <<opt, key, up, opening, room, lobby, bot, db, past, teardown>>

\* CLAIM_RESERVATION_SCRIPT, which also runs after the server stopped waiting.
ScriptRuns(c) ==
  /\ script[c] = "sent"
  /\ LET answer == IF UserSeat(c) = None \/ key \in {"gone", "elsewhere"} THEN "refused"
                   ELSE IF key = "unclaimed" THEN "claimed" ELSE "here"
     IN  /\ script' = [script EXCEPT ![c] = answer]
         /\ key' = IF answer = "claimed" THEN "here" ELSE key
  /\ UNCHANGED <<opt, up, at, opening, room, lobby, bot, db, past, teardown>>

Refuse(c) == at' = [at EXCEPT ![c] = "refused"] /\ closed' = closed \cup {c}

\* Nothing takes the claim back when its answer is late.
ClaimTimesOut(c) ==
  /\ up /\ at[c] = "claiming" /\ Refuse(c)
  /\ UNCHANGED <<opt, redis, up, opening, room, lobby, bot, db, past, finalizing, session, writes>>

\* handle, up to the transaction of openRoom.  An unknown format is recorded in
\* the background, as a row that is closed at once.
ClaimAnswered(c) ==
  /\ up /\ at[c] = "claiming" /\ script[c] \in {"claimed", "here", "refused"}
  /\ CASE script[c] = "refused" \/ ~opt.readable ->
            Refuse(c) /\ UNCHANGED <<opening, room, writes>>
       [] script[c] = "claimed" /\ opt.readable /\ opt.format = "unknown" ->
            Refuse(c) /\ writes' = writes \cup {[what |-> "open"]} /\ UNCHANGED <<opening, room>>
       [] script[c] = "claimed" /\ opt.readable /\ opt.format # "unknown" ->
            /\ at' = [at EXCEPT ![c] = "waiting"]
            /\ opening' = [by |-> c, tx |-> "sent"] /\ room' = "opening"
            /\ UNCHANGED <<closed, writes>>
       [] OTHER -> at' = [at EXCEPT ![c] = "waiting"] /\ UNCHANGED <<closed, opening, room, writes>>
  /\ UNCHANGED <<opt, redis, up, lobby, bot, db, past, finalizing, session>>

RowOpen == [outcome |-> "open", by |-> None, started |-> FALSE]

\* repository.open (external): it commits with the opener's seat joined, or not.
OpenRuns ==
  /\ opening.tx = "sent"
  /\ \/ /\ opening' = [opening EXCEPT !.tx = "committed"]
        /\ row' = RowOpen /\ joined' = {SeatOf[opening.by]}
     \/ opening' = [opening EXCEPT !.tx = "failed"] /\ UNCHANGED db
  /\ UNCHANGED <<opt, redis, up, at, room, lobby, bot, past, teardown>>

NotOpening == [by |-> None, tx |-> "none"]

\* The rows are there: the room is listed, the opener's JOIN emitted, the lobby
\* timeout set and the bot asked for.
Activate ==
  /\ up /\ opening.tx = "committed" /\ opt.format = "fits"
  /\ room' = "waiting" /\ opening' = NotOpening
  /\ queue' = Append(queue, [what |-> "admit", who |-> opening.by])
  /\ at' = [at EXCEPT ![opening.by] = "queued"]
  /\ bot' = IF opt.bot THEN "asked" ELSE bot
  /\ UNCHANGED <<opt, redis, up, occupant, ready, building, db, past, teardown>>

\* No rows, rows nobody could confirm, or a format that contradicts the mode.
CloseUnopened ==
  /\ up /\ opening.tx \in {"committed", "failed"}
  /\ Refuse(opening.by) /\ opening' = NotOpening /\ room' = "none"
  /\ session' = [session EXCEPT !.closed = TRUE] /\ writes' = writes \cup CloseWrites("room_closed", None)
  /\ UNCHANGED <<opt, redis, up, lobby, bot, db, past, finalizing>>

\* joinOpenRoom once the room being opened is settled.
JoinOpen(c) ==
  /\ up /\ at[c] = "waiting" /\ opening = NotOpening
  /\ IF room \in {"none", "over"} \/ finalizing THEN Refuse(c)
     ELSE at' = [at EXCEPT ![c] = "claimingSeat"] /\ UNCHANGED closed
  /\ UNCHANGED <<opt, redis, up, opening, room, lobby, bot, db, past, finalizing, session, writes>>

\* JOIN, in whatever phase the room is by now: the gates of the waiting room (the
\* name of a player on the way out may still be taken), or the stands; a ticket's
\* seat is only given back by its reconnection token.
Enter(c) ==
  LET s == UserSeat(c)
  IN  CASE room = "waiting" ->
             \/ occupant[s] # None /\ Refuse(c) /\ UNCHANGED queue
             \/ /\ ~Live(s) /\ at' = [at EXCEPT ![c] = "queued"] /\ UNCHANGED closed
                /\ queue' = Append(queue, [what |-> "admit", who |-> c])
        [] room \in Between \cup {"duel"} ->
             /\ IF Live(s) THEN Refuse(c) ELSE at' = [at EXCEPT ![c] = "watching"] /\ UNCHANGED closed
             /\ UNCHANGED queue
        [] room = "ending" /\ ~Live(s) -> at' \in {[at EXCEPT ![c] = x] : x \in {"watching", "unheard"}} /\ UNCHANGED <<closed, queue>>
        [] OTHER -> at' = [at EXCEPT ![c] = "unheard"] /\ UNCHANGED <<closed, queue>>

\* A bug: a seat already taken does not stop the join.
SeatIsTaken_Never(c) == FALSE

SeatIsTaken(c) == UserSeat(c) \in joined /\ ~opt.reconnect

\* claimSeat answers: the row took the seat, it was taken, or the query failed.
SeatClaimed(c) ==
  /\ up /\ at[c] = "claimingSeat"
  /\ \/ Refuse(c) /\ UNCHANGED <<queue, joined>>
     \/ /\ joined' = joined \cup {UserSeat(c)}
        /\ IF SeatIsTaken(c) THEN Refuse(c) /\ UNCHANGED queue ELSE Enter(c)
  /\ UNCHANGED <<opt, redis, up, opening, room, occupant, ready, building, bot, row, past, finalizing, session, writes>>

-----------------------------------------------------------------------------
(* The waiting room: sections of the room mutex, one at a time. *)

Section(what) == queue # <<>> /\ Head(queue).what = what /\ up

\* reservedSeatFor: the bot's, or the user's own.
ReservedSeat(who) ==
  LET s == IF who = Bot THEN 1 ELSE UserSeat(who)
  IN  IF occupant[s] = None THEN s ELSE None

\* AdmitToRoom once the lookup is back; a lookup that throws leaves the socket
\* unanswered.  The room may be finalized by now.
Admit ==
  /\ Section("admit")
  /\ LET who == Head(queue).who
         s == ReservedSeat(who)
     IN  /\ occupant' = IF s = None THEN occupant ELSE [occupant EXCEPT ![s] = who]
         /\ ready' = ready \ {s}
         /\ IF who = Bot THEN bot' = "here" /\ UNCHANGED at
            ELSE at' = [at EXCEPT ![who] = IF s = None THEN "watching" ELSE "seated"] /\ UNCHANGED bot
  /\ queue' = Tail(queue)
  /\ UNCHANGED <<opt, redis, up, opening, room, building, db, past, teardown>>

AdmitThrows ==
  /\ Section("admit") /\ Head(queue).who # Bot
  /\ at' = [at EXCEPT ![Head(queue).who] = "unheard"] /\ queue' = Tail(queue)
  /\ UNCHANGED <<opt, redis, up, opening, room, occupant, ready, building, bot, db, past, teardown>>

Asked(c) == building[c] + Cardinality({i \in DOMAIN queue : queue[i].who = c})
Heard(c) == up /\ SeatedAt(c) # {} /\ c \notin closed /\ room = "waiting" /\ Asked(c) < MaxAsked

UpdateDeck(c) ==
  /\ Heard(c)
  /\ building' = [building EXCEPT ![c] = @ + 1]
  /\ UNCHANGED <<opt, redis, up, at, opening, room, queue, occupant, ready, bot, db, past, teardown>>

\* The deck is built: it breaks a rule or the lock, it comes after an exact lock
\* closed, or it waits for the mutex.
DeckBuilt(c) ==
  /\ up /\ building[c] > 0 /\ building' = [building EXCEPT ![c] = @ - 1]
  /\ \/ ready' = ready \ SeatedAt(c) /\ UNCHANGED queue
     \/ opt.exact /\ SeatedAt(c) \subseteq ready /\ UNCHANGED <<ready, queue>>
     \/ /\ ~opt.exact \/ ~(SeatedAt(c) \subseteq ready)
        /\ queue' = Append(queue, [what |-> "deck", who |-> c]) /\ UNCHANGED ready
  /\ UNCHANGED <<opt, redis, up, at, opening, room, occupant, bot, db, past, teardown>>

\* The bot connects back, and sends its deck, which no lock binds.
BotArrives ==
  /\ up /\ bot = "asked" /\ room = "waiting" /\ ~finalizing
  /\ bot' = "coming" /\ queue' = Append(queue, [what |-> "admit", who |-> Bot])
  /\ UNCHANGED <<opt, redis, up, at, opening, room, occupant, ready, building, db, past, teardown>>
BotDecks ==
  /\ up /\ bot = "here" /\ room = "waiting" /\ ~finalizing
  /\ bot' = "decked" /\ queue' = Append(queue, [what |-> "deck", who |-> Bot])
  /\ UNCHANGED <<opt, redis, up, at, opening, room, occupant, ready, building, db, past, teardown>>

\* startMatch, which does not ask whether the room still waits.
StartMatch ==
  /\ room' = "rps" /\ matches' = IF matches < MaxMatches THEN matches + 1 ELSE matches
  /\ duels' = 0

\* setDecksToPlayerUnsafe and startReservedDuelWhenReady.
SetDeck ==
  /\ Section("deck")
  /\ ready' = ready \cup SeatedAt(Head(queue).who)
  /\ queue' = Tail(queue)
  /\ IF ready' = Seat /\ \A s \in Seat : occupant[s] # None
       THEN StartMatch ELSE UNCHANGED <<room, matches, duels>>
  /\ UNCHANGED <<opt, redis, up, at, opening, occupant, building, bot, db, crashes, begun, decided, failed, teardown>>

NotReady(c) ==
  /\ Heard(c) /\ SeatedAt(c) \subseteq ready
  /\ queue' = Append(queue, [what |-> "unready", who |-> c])
  /\ UNCHANGED <<opt, redis, up, at, opening, room, occupant, ready, building, bot, db, past, teardown>>
RunNotReady ==
  /\ Section("unready")
  /\ ready' = ready \ SeatedAt(Head(queue).who) /\ queue' = Tail(queue)
  /\ UNCHANGED <<opt, redis, up, at, opening, room, occupant, building, bot, db, past, teardown>>
RunLeave ==
  /\ Section("leave")
  /\ LET s == SeatedAt(Head(queue).who)
     IN  occupant' = [t \in Seat |-> IF t \in s THEN None ELSE occupant[t]] /\ ready' = ready \ s
  /\ queue' = Tail(queue)
  /\ UNCHANGED <<opt, redis, up, at, opening, room, building, bot, db, past, teardown>>

-----------------------------------------------------------------------------
(* Leaving, coming back, and the timeouts. *)

\* The policy finds the room of a client only: a join under way goes on.
Disconnect(c) ==
  /\ up /\ at[c] # "out" /\ c \notin closed
  /\ LET s == CHOOSE t \in SeatedAt(c) : TRUE
         last == \A t \in Seat : occupant[t] # c => ~Live(t)
     IN  IF SeatedAt(c) = {} \/ finalizing
           THEN closed' = closed \cup {c} /\ UNCHANGED <<finalizing, session, writes, queue>>
         ELSE IF last \/ ~opt.reconnect
           THEN Finalize("disconnect", s, {c}) /\ UNCHANGED queue
         ELSE /\ closed' = closed \cup {c} /\ UNCHANGED <<finalizing, session, writes>>
              /\ queue' = IF room = "waiting" THEN Append(queue, [what |-> "leave", who |-> c]) ELSE queue
  /\ UNCHANGED <<opt, redis, up, at, opening, room, occupant, ready, building, bot, db, past>>

\* A reconnection token gives a seat back.
Resume(c) ==
  /\ up /\ opt.reconnect /\ ~finalizing /\ room \in Between \cup {"duel"}
  /\ SeatedAt(c) # {} /\ c \in closed /\ closed' = closed \ {c}
  /\ UNCHANGED <<opt, redis, up, at, opening, room, lobby, bot, db, past, finalizing, session, writes>>

BotFails ==
  /\ up /\ bot # "none" /\ ~finalizing /\ room \in {"waiting", "rps"}
  /\ Finalize("bot_unavailable", None, {c \in Conn : script[c] = "claimed"})
  /\ UNCHANGED <<opt, redis, up, at, opening, room, lobby, bot, db, past>>
BotDrops ==
  /\ up /\ Bot \in {occupant[s] : s \in Seat} /\ ~finalizing
  /\ Finalize("bot_unavailable", None, {})
  /\ UNCHANGED <<opt, redis, up, at, opening, room, lobby, bot, db, past>>

\* ReservedDuelLobbyTimeout.expire, which blames the first seat nobody sits in,
\* else the first that is not ready; it does nothing once a duel started.
LobbyTimeout ==
  LET blamed == IF \E s \in Users : ~Live(s) THEN {s \in Users : ~Live(s)} ELSE Users \ ready
  IN  /\ up /\ room \in {"waiting", "rps"} /\ ~finalizing /\ ~session.started
      /\ IF blamed = {} THEN Finalize("bot_unavailable", None, {})
         ELSE Finalize("no_show", CHOOSE s \in blamed : \A t \in blamed : s <= t, {})
      /\ UNCHANGED <<opt, redis, up, at, opening, room, lobby, bot, db, past>>

\* AbandonBetweenDuels: the grace of a player who left, or a surrender.
Abandoned(s) ==
  /\ up /\ room \in Between /\ ~finalizing /\ HeldBy(s)
  /\ IF duels = 0
       THEN Finalize("disconnect", s, {}) /\ UNCHANGED <<room, decided>>
       ELSE /\ room' = "ending" /\ decided' = TRUE /\ session' = [session EXCEPT !.gameOver = TRUE]
            /\ UNCHANGED <<finalizing, writes, closed>>
  /\ UNCHANGED <<opt, redis, up, at, opening, lobby, bot, db, crashes, matches, duels, begun, failed>>

-----------------------------------------------------------------------------
(* The match, as far as its record goes. *)

\* The duel is created in the room mutex; markStarted only counts once.
BeginDuel ==
  /\ up /\ room \in Between /\ ~finalizing /\ duels < MaxDuels /\ queue = <<>>
  /\ \A s \in Seat : occupant[s] # None
  /\ room' = "duel" /\ duels' = duels + 1 /\ begun' = TRUE
  /\ session' = [session EXCEPT !.started = TRUE]
  /\ writes' = IF session.started THEN writes ELSE writes \cup {[what |-> "start"]}
  /\ UNCHANGED <<opt, redis, up, at, closed, opening, finalizing, lobby, bot, db, crashes, matches, decided, failed>>

\* determineNextPhase, also of a duel whose room is gone: the match is finished,
\* at once when it is a single one, or goes on to side decking.
DuelEnds ==
  /\ up /\ room = "duel" /\ ready' = {}
  /\ \/ /\ room' = "ending" /\ decided' = (decided \/ ~finalizing)
        /\ session' = [session EXCEPT !.gameOver = TRUE]
     \/ ~opt.single /\ duels < MaxDuels /\ room' = "siding" /\ UNCHANGED <<session, decided>>
  /\ UNCHANGED <<opt, redis, up, at, closed, opening, finalizing, queue, occupant, building, bot, db, writes,
                 crashes, matches, duels, begun, failed>>

\* The hooks and replays are done: the game over is published, the room closed.
\* Its subscriber writes the result.
GameOver ==
  /\ up /\ room = "ending" /\ room' = "over"
  /\ finalizing' = TRUE /\ session' = [session EXCEPT !.closed = TRUE]
  /\ closed' = closed \cup Clients
  /\ writes' = writes \cup {[what |-> "result"]}
               \cup IF finalizing THEN {} ELSE CloseWrites("room_closed", None)
  /\ UNCHANGED <<opt, redis, up, at, opening, lobby, bot, db, past>>

-----------------------------------------------------------------------------
(* Background writes, crashes and the boot sweep. *)

\* A bug: the result is written whatever closed the row.
RecordResult_Overwrites == IF row.outcome = "none" THEN row ELSE [outcome |-> "result", by |-> None, started |-> TRUE]

RecordResult == IF row.outcome # "open" THEN row ELSE [outcome |-> "result", by |-> None, started |-> TRUE]
RecordAbandon(w) ==
  IF row.outcome # "open" THEN row ELSE [outcome |-> w.reason, by |-> w.by, started |-> row.started \/ w.started]
MarkStarted == IF row.outcome # "open" THEN row ELSE [row EXCEPT !.started = TRUE]

\* A write runs; when its answer is lost it is tried again.
WriteRuns(w) ==
  /\ up /\ w.what # "open" /\ writes' \in {writes, writes \ {w}}
  /\ row' = CASE w.what = "start" -> MarkStarted [] w.what = "abandon" -> RecordAbandon(w)
              [] w.what = "result" -> RecordResult [] OTHER -> row
  /\ key' = IF w.what = "release" THEN "gone" ELSE key
  /\ UNCHANGED <<opt, script, up, at, closed, opening, room, finalizing, lobby, bot, session, joined, past>>

\* The row of a reservation nobody can play: written once, then closed.
OpenUnplayable ==
  /\ up /\ [what |-> "open"] \in writes
  /\ LET left == (writes \ {[what |-> "open"]}) \cup {[what |-> "release"]}
     IN  \/ row' = RowOpen /\ writes' = left \cup {Abandon("room_closed", None)}
         \/ writes' = left /\ UNCHANGED row
  /\ UNCHANGED <<opt, redis, up, at, closed, opening, room, finalizing, lobby, bot, session, joined, past>>

\* The last attempt of a write failed: it is logged.
WriteFails(w) ==
  /\ up /\ w.what # "open" /\ writes' = writes \ {w} /\ failed' = TRUE
  /\ UNCHANGED <<opt, redis, up, at, closed, opening, room, finalizing, lobby, bot, session, db, crashes, matches, duels, begun, decided>>

\* The process goes, with its memory; a transaction under way commits or not.
Crash ==
  /\ up /\ crashes < Crashes[opt] /\ crashes' = crashes + 1 /\ up' = FALSE
  /\ at' = [c \in Conn |-> IF at[c] = "out" THEN "out" ELSE "refused"]
  /\ closed' = {c \in Conn : at[c] # "out"}
  /\ \/ UNCHANGED row
     \/ row.outcome = "none" /\ (opening.tx = "sent" \/ [what |-> "open"] \in writes) /\ row' = RowOpen
  /\ opening' = NotOpening /\ room' = "none" /\ finalizing' = FALSE
  /\ queue' = <<>> /\ occupant' = [s \in Seat |-> None] /\ ready' = {} /\ building' = [c \in Conn |-> 0]
  /\ bot' = "none" /\ session' = Session0 /\ writes' = {} /\ duels' = 0
  /\ UNCHANGED <<opt, redis, joined, matches, begun, decided, failed>>

\* bootstrapReservedDuels: the sweep closes what this instance left open.
Restart ==
  /\ ~up /\ up' = TRUE
  /\ \/ /\ row' = IF row.outcome = "open" THEN [row EXCEPT !.outcome = "server_restart"] ELSE row
        /\ UNCHANGED failed
     \/ failed' = TRUE /\ UNCHANGED row
  /\ UNCHANGED <<opt, redis, at, opening, room, lobby, bot, joined, crashes, matches, duels, begun, decided, teardown>>

-----------------------------------------------------------------------------
Next ==
  \/ Revoke \/ ClaimedElsewhere
  \/ \E c \in Conn : \/ Join(c) \/ ScriptRuns(c) \/ ClaimTimesOut(c) \/ ClaimAnswered(c)
                     \/ JoinOpen(c) \/ SeatClaimed(c)
                     \/ UpdateDeck(c) \/ DeckBuilt(c) \/ NotReady(c) \/ Disconnect(c) \/ Resume(c)
  \/ OpenRuns \/ Activate \/ CloseUnopened
  \/ Admit \/ AdmitThrows \/ SetDeck \/ RunNotReady \/ RunLeave
  \/ BotArrives \/ BotDecks \/ BotFails \/ BotDrops
  \/ LobbyTimeout \/ \E s \in Seat : Abandoned(s)
  \/ BeginDuel \/ DuelEnds \/ GameOver
  \/ \E w \in writes : WriteRuns(w) \/ WriteFails(w)
  \/ OpenUnplayable \/ Crash \/ Restart

\* Timers fire, awaited calls return, a write that is retried gets through or
\* gives up, a duel ends and the process is started again.
Fairness ==
  /\ WF_vars(OpenRuns) /\ WF_vars(Activate \/ CloseUnopened)
  /\ WF_vars(LobbyTimeout) /\ WF_vars(BeginDuel) /\ WF_vars(DuelEnds) /\ WF_vars(GameOver)
  /\ WF_vars(Admit) /\ WF_vars(SetDeck) /\ WF_vars(RunNotReady) /\ WF_vars(RunLeave)
  /\ WF_vars(\E w \in writes : (WriteRuns(w) \/ WriteFails(w)) /\ w \notin writes')
  /\ WF_vars(OpenUnplayable) /\ WF_vars(Restart)

Spec == Init /\ [][Next]_vars /\ Fairness

-----------------------------------------------------------------------------
(* Properties. *)

\* The first outcome written to the row is the last: no later write, whichever
\* order the background writes and their retries land in, changes a row that is
\* closed (the WHERE outcome = 'open' of every update).
OutcomeIsFinal == [][row.outcome \notin {"none", "open"} => row' = row]_vars

\* A match decided while its room was open is never recorded as abandoned,
\* whoever leaves while its hooks and replays run (ReservedDuelSession.gameOver).
ResultOwnsTheOutcome ==
  decided => row.outcome \notin Closers /\ \A w \in writes : w.what # "abandon"

\* A duel that began is on record as started, also when the leaver's write
\* overtakes the one that marks the start.
QuickQuitIsStarted == begun /\ row.outcome \in Closers => row.started

\* Nobody but its user, or the bot when there is one, holds a reserved seat.
SeatsAreTheirs ==
  \A s \in Seat : occupant[s] \in {None, IF opt.bot /\ s = 1 THEN Bot ELSE None}
                               \cup {c \in Conn : UserSeat(c) = s}

\* With reconnection off a reserved room has no stands: a user comes in once.
OneEntryEach ==
  ~opt.reconnect =>
    \A c, d \in Conn : c # d /\ SeatOf[c] = SeatOf[d]
                       => ~({at[c], at[d]} \subseteq {"queued", "seated", "watching"})

\* A row does not stay open: something ends the duel, or the next boot sweeps it.
RowSettles == row.outcome = "open" ~> row.outcome # "open" \/ failed

\* A reservation this server closed is not left for its participants to claim.
ClosedReservationIsGivenBack == session.closed ~> key = "gone" \/ failed \/ crashes > 0

\* A decided match gets an outcome of its own.
DecidedIsRecorded == decided ~> row.outcome = "result" \/ failed \/ crashes > 0

\* Seats are their users', one entry each, and the row says what began.
ReservationSound == TypeOK /\ QuickQuitIsStarted /\ SeatsAreTheirs /\ OneEntryEach

\* A reservation comes to its end on every record of it: the row in Postgres,
\* the key in Redis, the result of a match that was decided.
ReservationSettles == RowSettles /\ ClosedReservationIsGivenBack /\ DecidedIsRecorded
=============================================================================
