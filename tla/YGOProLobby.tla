---------------------------- MODULE YGOProLobby ----------------------------
(***************************************************************************)
(* The waiting rooms of the YGOPro server: how a JOIN_GAME finds or makes  *)
(* a room, the admission that decides who plays, watches or is refused,    *)
(* the lobby commands, bots called over HTTP, and the rooms' end.  The     *)
(* credential lookup is awaited inside the room mutex; what has to be      *)
(* exclusive waits behind it, what has not (TRY_START, a disconnect, the   *)
(* gates before the mutex) does not.  Matchmaking rooms and reserved duels *)
(* have modules of their own; a match is one phase here.                   *)
(***************************************************************************)
EXTENDS Naturals, Sequences, FiniteSets

CONSTANTS
  Conn,      \* connections, bots among them
  Parties,   \* who comes: the way in, the key and the name of each connection, and
             \* (a bound) what it may do besides
  MaxRooms,  \* bound: rooms made
  MaxAsked,  \* bound: commands of a connection not handled yet
  None

Room == 1 .. MaxRooms
Seat == {0, 1}
Observer == 7   \* NetPlayerType.OBSERVER

ASSUME LobbyAssumption ==
  /\ {MaxRooms, MaxAsked} \subseteq Nat /\ None \notin Room
  /\ \A p \in Parties : \A c \in Conn :
       /\ p[c].way \in {"out", "pair", "named", "watch", "invite", "ai", "bot"}
       /\ p[c].auth \in {"ticket", "pin", "none"}
       /\ p[c].may \subseteq {"make", "limited", "deck", "observer", "toDuel", "unready", "leave", "break"}

VARIABLES
  who,      \* the party
  rooms,    \* the rooms made, in the order of the list
  phase,    \* per room: waiting, or the match
  over,     \* per room: finalizing, and so off the list
  queue,    \* per room: what waits for its mutex
  players, stands, \* per room
  at,       \* where each connection's join stands
  home,     \* the room a connection was sent to
  pos,      \* YgoClient.position, which outlives the client's stay
  host, ready, \* the clients with the flag
  deck,     \* whose deck a client holds
  cred,     \* the credential a client was admitted with
  closed,   \* connections whose socket is closed
  building, \* decks on their way to their check
  token,    \* per room: the bot's join token
  http,     \* external: the request that calls the bot
  readied,  \* history: readied since the room last began to wait
  ghosts    \* history: admitted after their socket closed, or taken back while
            \* their removal was queued

roomVars == <<rooms, phase, over>>
seats == <<players, stands, pos, host, ready, deck, cred>>
bots == <<token, http>>
past == <<readied, ghosts>>
vars == <<who, roomVars, queue, seats, at, home, closed, building, bots, past>>

TypeOK ==
  /\ who \in Parties /\ rooms \in UNION {[1 .. n -> [key : {who[c].key : c \in Conn}, ai : BOOLEAN,
                                     league : {"casual", "external", "verified"}]] : n \in 0 .. MaxRooms}
  /\ phase \in [Room -> {"waiting", "match"}] /\ over \in [Room -> BOOLEAN]
  /\ players \in [Room -> SUBSET Conn] /\ stands \in [Room -> SUBSET Conn]
  /\ at \in [Conn -> {"out", "queued", "seated", "watching", "resumed", "refused", "unheard"}]
  /\ home \in [Conn -> Room \cup {None}] /\ pos \in [Conn -> Seat \cup {Observer, None}]
  /\ {host, ready, closed, readied, ghosts} \subseteq SUBSET Conn
  /\ deck \in [Conn -> Conn \cup {None}] /\ cred \in [Conn -> {"verified", "external", "guest", None}]
  /\ building \in [Conn -> 0 .. MaxAsked]
  /\ token \in [Room -> {"none", "live", "used", "cleared"}] /\ http \in [Room -> {"idle", "asked", "done"}]
  /\ \A r \in Room : \A i \in DOMAIN queue[r] :
       queue[r][i].what \in {"admit", "return", "observer", "toDuel", "deck", "unready", "leave"}

Init ==
  /\ who \in Parties /\ rooms = <<>>
  /\ phase = [r \in Room |-> "waiting"] /\ over = [r \in Room |-> FALSE]
  /\ queue = [r \in Room |-> <<>>]
  /\ players = [r \in Room |-> {}] /\ stands = [r \in Room |-> {}]
  /\ at = [c \in Conn |-> "out"] /\ home = [c \in Conn |-> None] /\ pos = [c \in Conn |-> None]
  /\ host = {} /\ ready = {} /\ deck = [c \in Conn |-> None] /\ cred = [c \in Conn |-> None]
  /\ closed = {} /\ building = [c \in Conn |-> 0]
  /\ token = [r \in Room |-> "none"] /\ http = [r \in Room |-> "idle"]
  /\ readied = {} /\ ghosts = {}

-----------------------------------------------------------------------------
(* Rooms, seats and leagues. *)

Listed == {r \in DOMAIN rooms : ~over[r]}
First(S) == CHOOSE r \in S : \A s \in S : r <= s

\* RoomLeague.determine for the strategies that make a room.
League(c) ==
  IF who[c].way # "ai" /\ who[c].auth = "ticket" THEN "verified"
  ELSE IF who[c].auth = "pin" THEN "external" ELSE "casual"

AdmitsAsPlayer(league, credential) ==
  CASE league = "casual"   -> TRUE
    [] league = "verified" -> credential = "verified"
    [] league = "external" -> credential \in {"verified", "external"}

\* A bug: the seat of a player whose socket is closed counts as free.
FreeSeats_Stale(r) == Seat \ {pos[p] : p \in players[r] \ closed}

\* calculatePlaceUnsafe: team 0 first.
FreeSeats(r) == Seat \ {pos[p] : p \in players[r]}

NameTaken(r, c) == \E p \in players[r] : who[p].name = who[c].name

CanAcceptInvitation(r) == ~over[r] /\ phase[r] = "waiting" /\ FreeSeats(r) # {}

\* isReconnectEligibleSeat; connections of one name share their address.
ReconnectEligible(r, c, p) ==
  /\ p \in players[r] /\ cred[p] # "verified" /\ who[p].name = who[c].name
  /\ rooms[r].league = "casual" => p \in closed

\* findReconnectingPlayer: a ranked seat goes back to its own account only.
Reconnecting(r, c, account) ==
  {p \in players[r] : ReconnectEligible(r, c, p) /\ (rooms[r].league # "casual" => cred[p] = "external" /\ account)}

-----------------------------------------------------------------------------
(* The end of a room. *)

\* WindbotTokenStore.clearByRoom.
ClearByRoom(r) == IF token[r] = "live" THEN [token EXCEPT ![r] = "cleared"] ELSE token

\* FinalizeYGOProRoom, which `and` more sockets close with.
Finalize(r, and) ==
  /\ over' = [over EXCEPT ![r] = TRUE]
  /\ token' = ClearByRoom(r)
  /\ closed' = closed \cup players[r] \cup stands[r] \cup and

-----------------------------------------------------------------------------
(* Routing a JOIN_GAME: one turn of the event loop, up to the room mutex. *)

Refuse(c) == at' = [at EXCEPT ![c] = "refused"] /\ closed' = closed \cup {c}

\* The JOIN of room r: the name gate of a waiting room, then the mutex.
EnterRoom(r, c, there) ==
  IF phase[r] = "waiting" /\ NameTaken(r, c)
    THEN Refuse(c) /\ queue' = queue /\ UNCHANGED home
    ELSE /\ at' = [at EXCEPT ![c] = "queued"] /\ home' = [home EXCEPT ![c] = r] /\ UNCHANGED closed
         /\ queue' = [queue EXCEPT ![r] = Append(@, [what |-> there, who |-> c])]

Door(r) == IF phase[r] = "waiting" THEN "admit" ELSE "return"

\* YGOProRoom.create, for findOrCreateRoom and WindBotJoinStrategy.
Create(c) ==
  LET r == Len(rooms) + 1
  IN  /\ Len(rooms) < MaxRooms /\ "make" \in who[c].may
      /\ rooms' = Append(rooms, [key |-> who[c].key, ai |-> who[c].way = "ai", league |-> League(c)])
      /\ at' = [at EXCEPT ![c] = "queued"] /\ home' = [home EXCEPT ![c] = r]
      /\ queue' = [queue EXCEPT ![r] = Append(@, [what |-> "admit", who |-> c])]

\* The rate limiter turns the attempt away.
RateLimited(c) ==
  /\ at[c] = "out" /\ "limited" \in who[c].may /\ Refuse(c)
  /\ UNCHANGED <<who, roomVars, queue, seats, home, building, bots, past>>

\* findByNameAndPassword, in whatever phase the room is.
Keyed(c) == {r \in Listed : rooms[r].key = who[c].key}

\* findPairingReconnectTarget: a match that may be missing this joiner.
Resumable(c) == {r \in Keyed(c) : phase[r] # "waiting" /\ \E p \in players[r] : ReconnectEligible(r, c, p)}

\* findJoinableByName: guests pass ranked rooms by.
Joinable(c) ==
  {r \in Keyed(c) : /\ phase[r] = "waiting" /\ FreeSeats(r) # {}
                    /\ who[c].auth = "none" => rooms[r].league = "casual"}

\* findOrCreateRoom: the rooms of which the first is reused; a bare command pairs.
Reusable(c) ==
  IF who[c].way = "named" THEN Keyed(c)
  ELSE IF Resumable(c) # {} THEN Resumable(c) ELSE Joinable(c)

\* Ticket and default joins.
JoinByKey(c) ==
  /\ at[c] = "out" /\ who[c].way \in {"pair", "named"}
  /\ IF Reusable(c) # {} THEN EnterRoom(First(Reusable(c)), c, Door(First(Reusable(c)))) /\ UNCHANGED rooms
     ELSE Create(c) /\ UNCHANGED closed
  /\ UNCHANGED <<who, phase, over, seats, building, bots, past>>

\* "w,<id>" and "j,<invite>" name a room, if they do, and never make one.
WatchJoin(c) ==
  /\ at[c] = "out" /\ who[c].way = "watch"
  /\ \/ \E r \in Listed : EnterRoom(r, c, Door(r))
     \/ Refuse(c) /\ UNCHANGED <<queue, home>>
  /\ UNCHANGED <<who, roomVars, seats, building, bots, past>>
InviteJoin(c) ==
  /\ at[c] = "out" /\ who[c].way = "invite"
  /\ \/ \E r \in Listed : CanAcceptInvitation(r) /\ EnterRoom(r, c, Door(r))
     \/ Refuse(c) /\ UNCHANGED <<queue, home>>
  /\ UNCHANGED <<who, roomVars, seats, building, bots, past>>

\* WindbotModule.requestBot: the token, then the call.
RequestBot(r) == token' = [token EXCEPT ![r] = "live"] /\ http' = [http EXCEPT ![r] = "asked"]

\* "ai": a room of one's own, its bot asked for in the background.
JoinWithBot(c) ==
  /\ at[c] = "out" /\ who[c].way = "ai" /\ Create(c)
  /\ RequestBot(Len(rooms) + 1)
  /\ UNCHANGED <<who, phase, over, seats, closed, building, past>>

\* WindbotTokenStore.consume.
Consume(r) == token' = [token EXCEPT ![r] = "used"]

\* AIJoinTokenStrategy.  A request that timed out was answered all the same, so
\* two bots may come with one token.
BotJoins(b, r) ==
  /\ at[b] = "out" /\ who[b].way = "bot" /\ http[r] # "idle"
  /\ IF token[r] = "live" THEN EnterRoom(r, b, Door(r)) /\ Consume(r)
     ELSE Refuse(b) /\ UNCHANGED <<queue, home, token>>
  /\ UNCHANGED <<who, roomVars, seats, building, http, past>>

\* HttpWindBotProvider.requestJoin is answered, or gives up: the last attempt
\* failed, or the room was finalized between two.
BotCalled(r) ==
  /\ http[r] = "asked" /\ http' = [http EXCEPT ![r] = "done"]
  /\ UNCHANGED <<who, roomVars, queue, seats, at, home, closed, building, token, past>>
BotUnreachable(r) ==
  /\ http[r] = "asked" /\ http' = [http EXCEPT ![r] = "done"]
  /\ Finalize(r, {c \in Conn : home[c] = r /\ who[c].way = "ai"})
  /\ UNCHANGED <<who, rooms, phase, queue, seats, at, home, building, past>>

-----------------------------------------------------------------------------
(* Sections of the room mutex. *)

Section(r, what) == queue[r] # <<>> /\ Head(queue[r]).what = what /\ queue' = [queue EXCEPT ![r] = Tail(@)]
Heads(r) == Head(queue[r]).who

Lookups(c) == {"guest"} \cup CASE who[c].auth = "ticket" -> {"verified"} [] who[c].auth = "pin" -> {"external"}
                               [] OTHER -> {}

SeatPlayer(r, c, seat, credential) ==
  /\ players' = [players EXCEPT ![r] = @ \cup {c}] /\ pos' = [pos EXCEPT ![c] = seat]
  /\ host' = IF players[r] \cap host = {} THEN host \cup {c} ELSE host
  /\ cred' = [cred EXCEPT ![c] = credential] /\ at' = [at EXCEPT ![c] = "seated"]
  /\ ghosts' = IF c \in closed THEN ghosts \cup {c} ELSE ghosts
  /\ UNCHANGED <<stands, ready, deck, closed>>

SeatSpectator(r, c, credential) ==
  /\ stands' = [stands EXCEPT ![r] = @ \cup {c}] /\ pos' = [pos EXCEPT ![c] = Observer]
  /\ cred' = [cred EXCEPT ![c] = credential] /\ at' = [at EXCEPT ![c] = "watching"]
  /\ ghosts' = IF c \in closed THEN ghosts \cup {c} ELSE ghosts
  /\ UNCHANGED <<players, host, ready, deck, closed>>

TurnAway(c) == Refuse(c) /\ UNCHANGED <<seats, ghosts>>

\* YGOProRoom.admissionTarget's freeSeat: none for a watcher or a stale invitation.
SeatOffer(r, c) ==
  IF who[c].way = "watch" \/ (who[c].way = "invite" /\ ~CanAcceptInvitation(r)) THEN {} ELSE FreeSeats(r)

\* RoomAdmission.decide.
Decide(league, credential, offered) ==
  IF league # "casual" /\ credential = "guest" THEN "rejected"
  ELSE IF AdmitsAsPlayer(league, credential) /\ offered # {} THEN "player" ELSE "spectator"

\* The other callbacks of admissionTarget: an invited player whose socket closed,
\* or who would watch, is refused.
Admission(r, c, credential) ==
  LET decision == Decide(rooms[r].league, credential, SeatOffer(r, c))
      invited == who[c].way = "invite"
  IN  CASE decision = "player" /\ ~(invited /\ c \in closed) -> SeatPlayer(r, c, First(SeatOffer(r, c)), credential)
        [] decision = "spectator" /\ ~invited -> SeatSpectator(r, c, credential)
        [] OTHER -> TurnAway(c)

\* The lookup may throw, and then nobody answers the socket.
Admit(r) ==
  /\ Section(r, "admit")
  /\ \/ \E credential \in Lookups(Heads(r)) : Admission(r, Heads(r), credential)
     \/ /\ Lookups(Heads(r)) # {"guest"} /\ at' = [at EXCEPT ![Heads(r)] = "unheard"]
        /\ UNCHANGED <<seats, closed, ghosts>>
  /\ UNCHANGED <<who, roomVars, home, building, bots, readied>>

\* An invitation that is stale when its section starts is not looked up.
AdmitStale(r) ==
  /\ Section(r, "admit") /\ who[Heads(r)].way = "invite" /\ ~CanAcceptInvitation(r)
  /\ Refuse(Heads(r))
  /\ UNCHANGED <<who, roomVars, seats, home, building, bots, past>>

\* Its removal is in the queue: it takes the player whose seat it was, also when the
\* seat was given back meanwhile.
Removed(r, p) == \E i \in DOMAIN queue[r] : queue[r][i].what = "leave" /\ queue[r][i].who = p

\* A mid-match JOIN: a watcher, a seat given back, or the stands.
Return(r) ==
  /\ Section(r, "return")
  /\ LET c == Heads(r)
     IN  \E account \in BOOLEAN :
           LET mine == IF who[c].way = "watch" THEN {} ELSE Reconnecting(r, c, account)
           IN  /\ account => who[c].auth = "pin"
               /\ IF mine # {}
                    THEN /\ at' = [at EXCEPT ![c] = "resumed"] /\ closed' = closed \ mine
                         /\ ghosts' = ghosts \cup {p \in mine : Removed(r, p)} /\ UNCHANGED seats
                    ELSE SeatSpectator(r, c, "guest")
  /\ UNCHANGED <<who, roomVars, home, building, bots, readied>>

\* playerToSpectatorUnsafe.
ToStands(r, c) ==
  /\ players' = [players EXCEPT ![r] = @ \ {c}] /\ stands' = [stands EXCEPT ![r] = @ \cup {c}]
  /\ pos' = [pos EXCEPT ![c] = Observer] /\ ready' = ready \ {c}
  /\ at' = [at EXCEPT ![c] = "watching"]

\* spectatorToPlayerUnsafe, when there is a seat: whoever closed in the stands while
\* TO_DUEL waited has left them, and is seated all the same.
FromStands(r, c) ==
  /\ stands' = [stands EXCEPT ![r] = @ \ {c}] /\ players' = [players EXCEPT ![r] = @ \cup {c}]
  /\ pos' = [pos EXCEPT ![c] = First(FreeSeats(r))] /\ ready' = ready \ {c}
  /\ at' = [at EXCEPT ![c] = "seated"]

\* nextAvailablePosition: the next free cell, else the first one.
NextCell(r, s) ==
  LET later == {u \in FreeSeats(r) : u > s} IN First(IF later # {} THEN later ELSE FreeSeats(r))

\* movePlayerToAnotherCellUnsafe, when there is a cell.
ToOtherCell(r, c) ==
  /\ pos' = [pos EXCEPT ![c] = NextCell(r, pos[c])] /\ ready' = ready \ {c}
  /\ UNCHANGED <<players, stands, at>>

Stay == UNCHANGED <<players, stands, pos, ready, at>>

\* The client object's team, which outlives the client's stay.
IsSpectator(c) == pos[c] = Observer

\* handleToObserver: not for the host.
ToObserver(r) ==
  /\ Section(r, "observer")
  /\ IF ~IsSpectator(Heads(r)) /\ Heads(r) \notin host THEN ToStands(r, Heads(r)) ELSE Stay
  /\ UNCHANGED <<who, roomVars, host, deck, cred, home, closed, building, bots, past>>

\* A bug: the league is not asked at this door.
ToDuel_AnyLeague(r) ==
  /\ Section(r, "toDuel")
  /\ IF FreeSeats(r) = {} THEN Stay
     ELSE IF IsSpectator(Heads(r)) THEN FromStands(r, Heads(r)) ELSE ToOtherCell(r, Heads(r))
  /\ UNCHANGED <<who, roomVars, host, deck, cred, home, closed, building, bots, past>>

\* handleToDuel: a spectator is seated if the league takes the credential, anybody
\* else moves on.  It asks the client object, not the lists.
ToDuel(r) ==
  /\ Section(r, "toDuel")
  /\ LET c == Heads(r)
     IN  IF FreeSeats(r) = {} THEN Stay
         ELSE IF ~IsSpectator(c) THEN ToOtherCell(r, c)
         ELSE IF AdmitsAsPlayer(rooms[r].league, cred[c]) THEN FromStands(r, c) ELSE Stay
  /\ UNCHANGED <<who, roomVars, host, deck, cred, home, closed, building, bots, past>>

\* setDecksToPlayerUnsafe: whoever sits where the sender sits, or sat.
SetDeck(r) ==
  /\ Section(r, "deck")
  /\ LET c == Heads(r)
         there == {p \in players[r] : pos[p] = pos[c]}
     IN  /\ ready' = ready \cup there /\ readied' = readied \cup there
         /\ deck' = [p \in Conn |-> IF p \in there THEN c ELSE deck[p]]
  /\ UNCHANGED <<who, roomVars, players, stands, pos, host, cred, at, home, closed, building, bots, ghosts>>

NotReady(r) ==
  /\ Section(r, "unready") /\ ready' = ready \ {Heads(r)}
  /\ UNCHANGED <<who, roomVars, players, stands, pos, host, deck, cred, at, home, closed, building, bots, past>>

RunLeave(r) ==
  /\ Section(r, "leave")
  /\ players' = [players EXCEPT ![r] = @ \ {Heads(r)}]
  /\ UNCHANGED <<who, roomVars, stands, pos, host, ready, deck, cred, at, home, closed, building, bots, past>>

-----------------------------------------------------------------------------
(* What clients do. *)

Client(c) == home[c] # None /\ c \in players[home[c]] \cup stands[home[c]]
Asked(c) == building[c] + Cardinality({i \in DOMAIN queue[home[c]] : queue[home[c]][i].who = c})
Heard(c) == Client(c) /\ c \notin closed /\ phase[home[c]] = "waiting" /\ Asked(c) < MaxAsked

\* OBSERVER, TO_DUEL and NOT_READY wait for the mutex.
Command(c, what) ==
  /\ Heard(c) /\ what \in who[c].may
  /\ queue' = [queue EXCEPT ![home[c]] = Append(@, [what |-> what, who |-> c])]
  /\ UNCHANGED <<who, roomVars, seats, at, home, closed, building, bots, past>>

UpdateDeck(c) ==
  /\ Heard(c) /\ c \in players[home[c]] /\ "deck" \in who[c].may
  /\ building' = [building EXCEPT ![c] = @ + 1]
  /\ UNCHANGED <<who, roomVars, queue, seats, at, home, closed, bots, past>>

\* The deck is built, whether its sender is still there or not.
DeckBuilt(c) ==
  /\ building[c] > 0 /\ building' = [building EXCEPT ![c] = @ - 1]
  /\ \/ /\ ready' = IF pos[c] = Observer THEN ready ELSE ready \ {c}
        /\ UNCHANGED queue
     \/ /\ queue' = [queue EXCEPT ![home[c]] = Append(@, [what |-> "deck", who |-> c])]
        /\ UNCHANGED ready
  /\ UNCHANGED <<who, roomVars, players, stands, pos, host, deck, cred, at, home, closed, bots, past>>

\* startMatch, and sendDeckCountMessage, which throws for a side without a player
\* before the match begins.
StartMatch(r) == FreeSeats(r) = {} /\ phase' = [phase EXCEPT ![r] = "match"]

\* handleTryStart, which does not wait for the mutex.
TryStart(c) ==
  /\ Heard(c) /\ c \in host
  /\ players[home[c]] \subseteq ready /\ StartMatch(home[c])
  /\ UNCHANGED <<who, rooms, over, queue, seats, at, home, closed, building, bots, past>>

\* YGOProRoom.playerLeave: the removal waits for the mutex.
PlayerLeave(r, c) == [queue EXCEPT ![r] = Append(@, [what |-> "leave", who |-> c])]

\* DisconnectHandler and YGOProDisconnectPolicy.onDisconnect: a join under way is
\* no client yet; the last one out closes the room.
Disconnect(c) ==
  /\ at[c] # "out" /\ c \notin closed /\ "leave" \in who[c].may
  /\ LET r == home[c]
     IN  IF ~Client(c) \/ over[r] THEN closed' = closed \cup {c} /\ UNCHANGED <<over, token, queue, stands>>
         ELSE IF players[r] \subseteq closed \cup {c} THEN Finalize(r, {c}) /\ UNCHANGED <<queue, stands>>
         ELSE IF c \in stands[r] THEN
           /\ closed' = closed \cup {c} /\ stands' = [stands EXCEPT ![r] = @ \ {c}]
           /\ UNCHANGED <<over, token, queue>>
         ELSE IF rooms[r].ai THEN Finalize(r, {c}) /\ UNCHANGED <<queue, stands>>
         ELSE /\ closed' = closed \cup {c} /\ UNCHANGED <<over, token, stands>>
              /\ queue' = IF phase[r] = "waiting" THEN PlayerLeave(r, c) ELSE queue
  /\ UNCHANGED <<who, rooms, phase, players, pos, host, ready, deck, cred, at, home, building, http, past>>

-----------------------------------------------------------------------------
(* The match, as far as the lobby goes. *)

MatchEnds(r) ==
  /\ r \in Listed /\ phase[r] = "match" /\ Finalize(r, {})
  /\ UNCHANGED <<who, rooms, phase, queue, seats, at, home, building, http, past>>

\* A bug: the ready flags of the broken duel stay.
Wait_KeepsReady(r) == phase' = [phase EXCEPT ![r] = "waiting"] /\ UNCHANGED ready

\* YGOProRoom.waiting, entered again.
Wait(r) == phase' = [phase EXCEPT ![r] = "waiting"] /\ ready' = ready \ players[r]

\* setDuelFinished: the core failed.
DuelBreaks(r) ==
  /\ r \in Listed /\ phase[r] = "match" /\ (\E c \in Conn : "break" \in who[c].may)
  /\ Wait(r) /\ readied' = readied \ players[r]
  /\ UNCHANGED <<who, rooms, over, queue, players, stands, pos, host, deck, cred, at, home, closed, building, bots, ghosts>>

-----------------------------------------------------------------------------
Next ==
  \/ \E c \in Conn :
       \/ RateLimited(c) \/ JoinByKey(c) \/ WatchJoin(c) \/ InviteJoin(c) \/ JoinWithBot(c)
       \/ \E r \in DOMAIN rooms : BotJoins(c, r)
       \/ \E what \in {"observer", "toDuel", "unready"} : Command(c, what)
       \/ UpdateDeck(c) \/ DeckBuilt(c) \/ TryStart(c) \/ Disconnect(c)
  \/ \E r \in DOMAIN rooms :
       \/ BotCalled(r) \/ BotUnreachable(r)
       \/ Admit(r) \/ AdmitStale(r) \/ Return(r) \/ ToObserver(r) \/ ToDuel(r) \/ SetDeck(r) \/ NotReady(r) \/ RunLeave(r)
       \/ MatchEnds(r) \/ DuelBreaks(r)

\* Lookups return and the mutex goes to the next in line; a bot request has ten
\* attempts.
Sections(r) ==
  Admit(r) \/ AdmitStale(r) \/ Return(r) \/ ToObserver(r) \/ ToDuel(r) \/ SetDeck(r) \/ NotReady(r) \/ RunLeave(r)
Fairness == \A r \in Room : /\ WF_vars(r \in DOMAIN rooms /\ Sections(r))
                            /\ WF_vars(r \in DOMAIN rooms /\ (BotCalled(r) \/ BotUnreachable(r)))

Spec == Init /\ [][Next]_vars /\ Fairness

-----------------------------------------------------------------------------
(* Properties. *)

\* Whatever door a player came through, the join or the stands, the league of
\* its room takes the credential it was admitted with.
LeagueHolds ==
  \A r \in DOMAIN rooms : \A p \in players[r] : AdmitsAsPlayer(rooms[r].league, cred[p])

\* Two players never share a cell and a room has at most one host, although seats
\* are given by sections queued behind lookups while others leave and move.
SeatsDistinct ==
  \A r \in DOMAIN rooms : \A p, q \in players[r] :
     p # q => pos[p] # pos[q] /\ ~({p, q} \subseteq host)

\* An invitation is for a seat: between its check and its admission the last seat
\* may go, and then it is refused, never turned into a place in the stands.
InviteNeverWatches ==
  [][\A c \in Conn : who[c].way = "invite" /\ at[c] = "queued" => at'[c] # "watching"]_vars

\* A watcher is not seated by its join, however many seats are free by then.
WatcherJoinsTheStands ==
  [][\A c \in Conn : who[c].way = "watch" /\ at[c] = "queued" => at'[c] \notin {"seated", "resumed"}]_vars

\* A match starts with two players, each readied since the room last began to
\* wait: a room that comes back from a broken duel is not started by a bare
\* TRY_START.
StartIsDeliberate ==
  [][\A r \in Room : phase[r] = "waiting" /\ phase'[r] = "match"
       => Cardinality(players[r]) = 2 /\ players[r] \subseteq readied]_vars

\* The token of a bot that never came is not left for a room that is gone.
NoTokenOutlivesItsRoom == \A r \in DOMAIN rooms : token[r] = "live" => ~over[r]

\* A room is entered by one bot, also when the request was repeated.
OneBotPerRoom ==
  \A r \in Room : Cardinality({b \in Conn : who[b].way = "bot" /\ home[b] = r}) <= 1

\* A room nobody is connected to any more is closed, whatever removals and moves
\* are still queued: also when a closed watcher's TO_DUEL has taken a seat, or a
\* closed player's OBSERVER a place in the stands, which nothing removes them from
\* any more.  Not so a room that admitted somebody after their socket had closed,
\* or gave a seat back to somebody whose removal was queued, and who is removed
\* then, connected as they are.
LastOneOutClosesTheRoom ==
  \A r \in Listed : LET clients == players[r] \cup stands[r]
                   IN  clients # {} /\ clients \subseteq closed => \E g \in ghosts : home[g] = r

\* Every join that reached a room is answered, unless its lookup throws.
JoinIsAnswered == \A c \in Conn : (at[c] = "queued") ~> (at[c] # "queued")

\* Cells, hosts, bots and their tokens stay those of a room somebody is in.
RoomsSound ==
  TypeOK /\ SeatsDistinct /\ NoTokenOutlivesItsRoom /\ OneBotPerRoom /\ LastOneOutClosesTheRoom

\* What a client asked for is what it gets, although the room moved on between
\* the check and the section that serves it.
RequestsAreHonoured ==
  InviteNeverWatches /\ WatcherJoinsTheStands /\ StartIsDeliberate /\ JoinIsAnswered
=============================================================================
