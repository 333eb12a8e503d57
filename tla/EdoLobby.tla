------------------------------ MODULE EdoLobby ------------------------------
(***************************************************************************)
(* The lobby of a room of the EDOPro engine, from its creation to          *)
(* TRY_START or its deletion: WaitingState, the client operations of Room, *)
(* the seat arithmetic of YgoRoom, JoinHandler, GameCreatorHandler,        *)
(* RoomCreator and EdoproDisconnectPolicy.                                 *)
(*                                                                         *)
(* Every handler of a command asks the room's mutex to run it.  While the  *)
(* mutex is free the asked operation runs before anything else happens in  *)
(* the process; a ranked JOIN holds the mutex over its credential lookup,  *)
(* and then operations wait in the order they were asked.                  *)
(***************************************************************************)
EXTENDS Integers, Sequences, FiniteSets

CONSTANTS
  Client,       \* connections, each with one name and one address
  NameOf,       \* the name a connection's PLAYER_INFO carries
  AddressOf,    \* its remote address
  Team0, Team1, \* seats of each team
  NoClient,
  MaxBuilds,    \* bound: UPDATE_DECKs each connection sends
  MaxAsked,     \* bound: operations waiting for the mutex
  Admits        \* whether the credential lookup may admit and refuse

ASSUME LobbyBounds == /\ Team0 \in Nat \ {0} /\ Team1 \in Nat \ {0}
                      /\ MaxBuilds \in [Client -> Nat] /\ MaxAsked \in Nat \ {0}
                      /\ NoClient \notin Client
                      /\ Admits \subseteq BOOLEAN

VARIABLES
  phase,     \* "none" | "waiting" | "rps", and
  listed,    \* whether RoomList has the room
  heard,     \* whether the room still has listeners
  ranked,
  conn,      \* what became of each connection
  closed,    \* the connections whose socket is closed
  role,      \* "none" | "player" | "spectator", as the room's lists have it
  seat,      \* the position field; NoSeat for a spectator
  team,      \* the team field
  host, ready, updating, saved,  \* flags of the client objects, as sets
  kicked,    \* the room's list of kicked clients
  deck,      \* whose submission the client's deck is, and which
  builds,    \* decks being built
  sent,      \* UPDATE_DECKs sent by each
  tokens,    \* the clients with a reconnection token
  holder,    \* the JOIN whose lookup holds the mutex
  asked,     \* operations waiting for it
  late       \* history: the clients that became members with their socket closed

vars == <<phase, listed, heard, ranked, conn, closed, role, seat, team, host, ready,
          updating, saved, kicked, deck, builds, sent, tokens, holder, asked, late>>
flags == <<host, ready, updating, saved, kicked, deck>>
decks == <<builds, sent>>
room == <<phase, listed, heard, ranked, tokens>>
mutex == <<holder, asked>>
places == <<role, seat, team>>
nets == <<conn, closed, late>>

Seats == 0 .. Team0 + Team1 - 1
NoSeat == -1
NoDeck == [who |-> NoClient, n |-> 0]
Players == {c \in Client : role[c] = "player"}
TeamOf(s) == IF s < Team0 THEN 0 ELSE 1

Op == [do : {"join", "create", "ready", "notReady", "observer", "toDuel"}, who : Client]
      \cup [do : {"remove"}, who : Client, from : {"player", "spectator"}]
      \cup [do : {"start", "destroy"}]
      \cup [do : {"deck"}, who : Client, n : Nat \ {0}]
      \cup [do : {"kick"}, pos : Seats]

TypeOK ==
  /\ phase \in {"none", "waiting", "rps"} /\ listed \in BOOLEAN
  /\ heard \in BOOLEAN /\ ranked \in BOOLEAN
  /\ conn \in [Client -> {"away", "creating", "checking", "joining", "in", "refused", "unheard"}]
  /\ role \in [Client -> {"none", "player", "spectator"}]
  /\ seat \in [Client -> Seats \cup {NoSeat}] /\ team \in [Client -> {0, 1, 3}]
  /\ \A c \in Client : role[c] = "spectator" => seat[c] = NoSeat /\ team[c] = 3
  /\ \A f \in {closed, host, ready, updating, saved, kicked, tokens, late} : f \subseteq Client
  /\ deck \in [Client -> [who : Client, n : Nat \ {0}] \cup {NoDeck}]
  /\ builds \subseteq [who : Client, n : Nat \ {0}, ok : BOOLEAN]
  /\ sent \in [Client -> Nat]
  /\ holder \in Client \cup {NoClient} /\ asked \in Seq(Op)

Init ==
  /\ phase = "none" /\ listed = FALSE /\ heard = FALSE /\ ranked \in BOOLEAN
  /\ conn = [c \in Client |-> "away"] /\ closed = {} /\ tokens = {} /\ role = [c \in Client |-> "none"]
  /\ seat = [c \in Client |-> NoSeat] /\ team = [c \in Client |-> 3]
  /\ host = {} /\ ready = {} /\ updating = {} /\ saved = {} /\ kicked = {}
  /\ deck = [c \in Client |-> NoDeck] /\ builds = {} /\ sent = [c \in Client |-> 0]
  /\ holder = NoClient /\ asked = <<>> /\ late = {}

(* A turn of the event loop starts when no operation can run any more. *)
Turn == asked = <<>> \/ holder # NoClient

Ask(op) == Len(asked) < MaxAsked /\ asked' = Append(asked, op)

-----------------------------------------------------------------------------
(* Seats. *)

(* calculatePlaceUnsafe: a position is taken by a player of the position's
   own team. *)
FreeOf(t) == {s \in Seats : TeamOf(s) = t
                /\ ~\E c \in Players : seat[c] = s /\ team[c] = t}
Least(S) == CHOOSE s \in S : \A u \in S : s <= u
FreePlace == IF FreeOf(0) # {} THEN {Least(FreeOf(0))}
             ELSE IF FreeOf(1) # {} THEN {Least(FreeOf(1))} ELSE {}

(* nextAvailablePosition: the next free position after s, else the first one;
   the latter gets the team of the lowest position there is. *)
Unoccupied == Seats \ {seat[c] : c \in Players}
NextPlace(s) == LET later == {u \in Unoccupied : u > s} IN
  IF later # {} THEN [pos |-> Least(later), team |-> TeamOf(Least(later))]
  ELSE [pos |-> Least(Unoccupied), team |-> TeamOf(Least(Seats))]

Enters(c) == /\ conn' = [conn EXCEPT ![c] = "in"]
             /\ late' = IF c \in closed THEN late \cup {c} ELSE late

(* addPlayerUnsafe after createPlayerUnsafe: the first player is the host. *)
SitDown(c, s) ==
  /\ role' = [role EXCEPT ![c] = "player"]
  /\ seat' = [seat EXCEPT ![c] = s] /\ team' = [team EXCEPT ![c] = TeamOf(s)]
  /\ host' = IF Players \cap host # {} THEN host ELSE host \cup {c}
  /\ Enters(c)
  /\ UNCHANGED <<closed, ready, updating, saved, kicked, deck>>

(* addSpectatorUnsafe after createSpectatorUnsafe *)
StandBy(c) ==
  /\ role' = [role EXCEPT ![c] = "spectator"]
  /\ seat' = [seat EXCEPT ![c] = NoSeat] /\ team' = [team EXCEPT ![c] = 3]
  /\ Enters(c)
  /\ UNCHANGED <<closed, flags>>

(* createPlayerUnsafe, and what its callers do when no place is left. *)
SitOrStand(c) == \/ \E s \in FreePlace : SitDown(c, s)
                 \/ FreePlace = {} /\ StandBy(c)

-----------------------------------------------------------------------------
(* Creation. *)

(* Room.create, waiting() and RoomList.addRoom *)
OpenRoom == phase' = "waiting" /\ heard' = TRUE /\ listed' = TRUE

(* CREATE_GAME.  The creator of a ranked room is looked up before there is a
   room, and its socket may close meanwhile. *)
CreateGame(c) ==
  /\ Turn /\ phase = "none" /\ \A d \in Client : conn[d] = "away"
  /\ c \notin closed
  /\ conn' = [conn EXCEPT ![c] = "creating"]
  /\ UNCHANGED <<room, closed, late, places, flags, decks, mutex>>

Created(c) ==
  /\ conn[c] = "creating" /\ phase = "none" /\ (c \in closed => ranked)
  /\ OpenRoom
  /\ Ask([do |-> "create", who |-> c])
  /\ UNCHANGED <<ranked, tokens, nets, places, flags, decks, holder>>

CreateRefused(c) ==
  /\ conn[c] = "creating" /\ phase = "none" /\ ranked
  /\ conn' = [conn EXCEPT ![c] = "refused"]
  /\ UNCHANGED <<room, closed, late, places, flags, decks, mutex>>

(* RoomCreator: a room made by HTTP starts empty. *)
CreateByHttp ==
  /\ phase = "none" /\ \A d \in Client : conn[d] = "away"
  /\ OpenRoom
  /\ UNCHANGED <<ranked, tokens, nets, places, flags, decks, mutex>>

-----------------------------------------------------------------------------
(* JOIN.  JoinHandler finds the room, awaits (attempts, credentials), and
   then emits to the room it found. *)

JoinGame(c) ==
  /\ Turn /\ phase # "none" /\ conn[c] = "away" /\ c \notin closed
  /\ \/ listed /\ conn' = [conn EXCEPT ![c] = "checking"] /\ UNCHANGED closed
     \/ ~listed /\ conn' = [conn EXCEPT ![c] = "refused"] /\ closed' = closed \cup {c}
  /\ UNCHANGED <<room, late, places, flags, decks, mutex>>

JoinRefused(c) ==
  /\ Turn /\ conn[c] = "checking"
  /\ conn' = [conn EXCEPT ![c] = "refused"]
  /\ closed' \in {closed, closed \cup {c}}
  /\ UNCHANGED <<room, late, places, flags, decks, mutex>>

NameTaken(c) == \E p \in Players : NameOf[p] = NameOf[c]

(* WaitingState.handle up to the mutex; nobody listens in a destroyed room. *)
Join(c) ==
  /\ Turn /\ conn[c] = "checking"
  /\ \/ /\ ~heard
        /\ conn' = [conn EXCEPT ![c] = "unheard"] /\ UNCHANGED asked
     \/ /\ heard /\ phase = "waiting" /\ NameTaken(c)
        /\ conn' = [conn EXCEPT ![c] = "refused"] /\ UNCHANGED asked
     \/ /\ heard /\ phase = "waiting" /\ ~NameTaken(c)
        /\ conn' = [conn EXCEPT ![c] = "joining"] /\ Ask([do |-> "join", who |-> c])
  /\ UNCHANGED <<room, closed, late, places, flags, decks, holder>>

(* ... and inside it *)
RunJoin(c) ==
  \/ /\ (ranked => FreePlace = {})
     /\ SitOrStand(c) /\ UNCHANGED holder
  \/ /\ ranked /\ FreePlace # {}
     /\ holder' = c /\ UNCHANGED <<nets, places, flags>>

LookedUp(c, isUser) ==
  /\ holder = c /\ holder' = NoClient
  /\ IF isUser THEN SitOrStand(c)
     ELSE conn' = [conn EXCEPT ![c] = "refused"] /\ UNCHANGED <<closed, late, places, flags>>
  /\ UNCHANGED <<room, decks, asked>>

-----------------------------------------------------------------------------
(* Commands of a member.  Each asks the mutex, except UPDATE_DECK. *)

Heard(c) == Turn /\ heard /\ phase = "waiting" /\ conn[c] = "in" /\ c \notin closed

Command(c) ==
  /\ Heard(c)
  /\ \/ \E k \in {"ready", "notReady", "observer", "toDuel"} :
          Ask([do |-> k, who |-> c])
     \/ Ask([do |-> "start"])
     \/ \E s \in Seats : Ask([do |-> "kick", pos |-> s])
  /\ UNCHANGED <<room, nets, places, flags, decks, holder>>

(* What DeckCreator.build may make of the cards sent, as validate() finds it. *)
Outcomes(c, n) == [who : {c}, n : {n}, ok : BOOLEAN]

(* handleUpdateDeck up to the await *)
UpdateDeck(c) ==
  /\ Heard(c) /\ sent[c] < MaxBuilds[c]
  /\ updating' = updating \cup {c}
  /\ sent' = [sent EXCEPT ![c] = @ + 1]
  /\ \E b \in Outcomes(c, sent'[c]) : builds' = builds \cup {b}
  /\ UNCHANGED <<room, nets, places, host, ready, saved, kicked, deck, mutex>>

(* ... and after it.  An invalid deck takes the readiness at once, and leaves
   the client "updating". *)
Built(b) ==
  /\ Turn /\ builds' = builds \ {b}
  /\ IF b.ok THEN Ask([do |-> "deck", who |-> b.who, n |-> b.n]) /\ UNCHANGED ready
     ELSE ready' = ready \ {b.who} /\ UNCHANGED asked
  /\ UNCHANGED <<room, nets, places, host, updating, saved, kicked, deck, sent, holder>>

(* The close event of a connection the room knows or may yet know:
   EdoproDisconnectPolicy. *)
Known(c) == conn[c] \in {"creating", "checking", "joining", "in"}
Delete ==
  /\ listed' = FALSE /\ tokens' = tokens \ {c \in Client : role[c] # "none"}
  /\ UNCHANGED <<phase, heard, ranked>>

(* bug: a player that leaves the lobby keeps its seat *)
Disconnect_KeepsSeat(c) ==
  /\ Turn /\ Known(c) /\ c \notin closed /\ closed' = closed \cup {c}
  /\ IF listed /\ role[c] = "player" /\ (c \in host \/ Players \subseteq closed')
     THEN Delete /\ Ask([do |-> "destroy"])
     ELSE UNCHANGED <<room, asked>>
  /\ UNCHANGED <<conn, late, places, flags, decks, holder>>

(* The list to be removed from is chosen here, and the removal waits. *)
Disconnect(c) ==
  /\ Turn /\ Known(c) /\ c \notin closed /\ closed' = closed \cup {c}
  /\ LET found == listed /\ role[c] # "none"
         empty == Players \subseteq closed'
         hostLeaves == role[c] = "player" /\ c \in host /\ phase = "waiting"
         leaves == role[c] = "spectator" \/ phase = "waiting"
     IN \/ ~found /\ UNCHANGED <<room, asked>>
        \/ found /\ (empty \/ hostLeaves) /\ Delete /\ Ask([do |-> "destroy"])
        \/ /\ found /\ ~empty /\ ~hostLeaves /\ UNCHANGED room
           /\ IF leaves THEN Ask([do |-> "remove", who |-> c, from |-> role[c]]) ELSE UNCHANGED asked
  /\ UNCHANGED <<conn, late, places, flags, decks, holder>>

-----------------------------------------------------------------------------
(* What each operation does when the mutex runs it. *)

RunReady(c) ==
  /\ IF c \in updating THEN saved' = saved \cup {c} /\ UNCHANGED ready
     ELSE ready' = ready \cup {c} /\ UNCHANGED saved
  /\ UNCHANGED <<nets, places, host, updating, kicked, deck, room, holder>>

RunNotReady(c) ==
  /\ ready' = ready \ {c}
  /\ UNCHANGED <<nets, places, host, updating, saved, kicked, deck, room, holder>>

(* playerToSpectatorUnsafe *)
MoveToStands(c) ==
  /\ role' = [role EXCEPT ![c] = "spectator"]
  /\ seat' = [seat EXCEPT ![c] = NoSeat] /\ team' = [team EXCEPT ![c] = 3]
  /\ ready' = ready \ {c}

RunObserver(c) ==
  /\ IF team[c] # 3 /\ c \notin host THEN MoveToStands(c)
     ELSE UNCHANGED <<places, ready>>
  /\ UNCHANGED <<nets, host, updating, saved, kicked, deck, room, holder>>

(* handleKick: any member may kick any player but the host. *)
RunKick(s) ==
  /\ \/ \E c \in Players \ host :
          seat[c] = s /\ MoveToStands(c) /\ kicked' = kicked \cup {c}
     \/ /\ \A c \in Players \ host : seat[c] # s
        /\ UNCHANGED <<places, ready, kicked>>
  /\ UNCHANGED <<nets, host, updating, saved, deck, room, holder>>

(* A closed socket has no remote address any more, and so that of any other. *)
Banned(c) ==
  \E k \in kicked : IF c \in closed THEN k \in closed ELSE k \notin closed /\ AddressOf[k] = AddressOf[c]

(* handleToDuel: a spectator takes a free place, a player moves on to the
   next free position, and either is not ready then. *)
RunToDuel(c) ==
  /\ LET goal == IF Banned(c) THEN {}
                 ELSE IF team[c] = 3 THEN {[pos |-> s, team |-> TeamOf(s)] : s \in FreePlace}
                 ELSE IF Unoccupied = {} THEN {} ELSE {NextPlace(seat[c])}
     IN \/ \E g \in goal :
             /\ seat' = [seat EXCEPT ![c] = g.pos] /\ team' = [team EXCEPT ![c] = g.team]
             /\ role' = IF team[c] = 3 THEN [role EXCEPT ![c] = "player"] ELSE role
             /\ ready' = ready \ {c}
        \/ goal = {} /\ UNCHANGED <<places, ready>>
  /\ UNCHANGED <<nets, host, updating, saved, kicked, deck, room, holder>>

(* bug: the deck's arrival does not look for a saved READY *)
RunDeck_ForgetsReady(c, n) ==
  /\ deck' = [p \in Client |-> IF p \in Players /\ seat[p] = seat[c]
                               THEN [who |-> c, n |-> n] ELSE deck[p]]
  /\ updating' = updating \ {c}
  /\ UNCHANGED <<nets, places, host, ready, saved, kicked, room, holder>>

(* The end of handleUpdateDeck.  The deck goes to whoever sits at the
   position the sender's client object has. *)
RunDeck(c, n) ==
  /\ deck' = [p \in Client |-> IF p \in Players /\ seat[p] = seat[c]
                               THEN [who |-> c, n |-> n] ELSE deck[p]]
  /\ updating' = updating \ {c} /\ saved' = saved \ {c}
  /\ ready' = IF c \in saved THEN ready \cup {c} ELSE ready
  /\ UNCHANGED <<nets, places, host, kicked, room, holder>>

(* removePlayer, removeSpectator: each looks in its own list, which a TO_DUEL, an
   OBSERVER or a KICK that was asked before may have taken the client from. *)
RunRemove(c, from) ==
  /\ role' = IF role[c] = from THEN [role EXCEPT ![c] = "none"] ELSE role
  /\ UNCHANGED <<nets, seat, team, flags, room, holder>>

(* tryStartHandler: without a player in each team it throws before it has
   changed anything.  A match that starts gives every player a token. *)
BothTeams == \A t \in {0, 1} : \E c \in Players : team[c] = t
RunStart ==
  /\ IF Players \subseteq ready /\ BothTeams
     THEN phase' = "rps" /\ heard' = TRUE /\ tokens' = tokens \cup Players
     ELSE UNCHANGED <<phase, heard, tokens>>
  /\ UNCHANGED <<nets, places, flags, listed, ranked, holder>>

(* bug: the guests' sockets are left open *)
RunDestroy_Hosts ==
  /\ heard' = FALSE
  /\ closed' = closed \cup (host \cap Players)
  /\ UNCHANGED <<conn, late, places, flags, phase, listed, ranked, tokens, holder>>

(* Room.destroy *)
RunDestroy ==
  /\ heard' = FALSE
  /\ closed' = closed \cup {c \in Client : role[c] # "none"}
  /\ UNCHANGED <<conn, late, places, flags, phase, listed, ranked, tokens, holder>>

RunCreate(c) == (\E s \in FreePlace : SitDown(c, s)) /\ UNCHANGED holder

Run ==
  /\ holder = NoClient /\ asked # <<>> /\ asked' = Tail(asked)
  /\ UNCHANGED decks
  /\ LET op == Head(asked)
         c == op.who IN
     \/ op.do = "create" /\ RunCreate(c) /\ UNCHANGED room
     \/ op.do = "join" /\ RunJoin(c) /\ UNCHANGED room
     \/ op.do = "ready" /\ RunReady(c)
     \/ op.do = "notReady" /\ RunNotReady(c)
     \/ op.do = "observer" /\ RunObserver(c)
     \/ op.do = "toDuel" /\ RunToDuel(c)
     \/ op.do = "kick" /\ RunKick(op.pos)
     \/ op.do = "deck" /\ RunDeck(c, op.n)
     \/ op.do = "remove" /\ RunRemove(c, op.from)
     \/ op.do = "start" /\ RunStart
     \/ op.do = "destroy" /\ RunDestroy

Next ==
  \/ CreateByHttp \/ Run
  \/ \E c \in Client :
       \/ CreateGame(c) \/ Created(c) \/ CreateRefused(c)
       \/ JoinGame(c) \/ JoinRefused(c) \/ Join(c)
       \/ \E ok \in Admits : LookedUp(c, ok)
       \/ Command(c) \/ UpdateDeck(c) \/ Disconnect(c)
  \/ \E b \in builds : Built(b)

(* The lookup answers, and the mutex runs what it is asked.  Nothing a client
   does is fair. *)
Fairness ==
  /\ WF_vars(Run)
  /\ WF_vars(\E c \in Client, ok \in Admits : LookedUp(c, ok))

Spec == Init /\ [][Next]_vars /\ Fairness

-----------------------------------------------------------------------------
(* Properties. *)

(* Two players hold one position only where nextAvailablePosition, wrapping
   round, has filed one of them under the other team, to which
   calculatePlaceUnsafe then counts the position as free.  It cannot when the
   second team has one seat: positions are distinct there, and a player's team
   is its position's.  So it stays through the JOIN that computes a place,
   awaits, and computes it again. *)
Misfiled(c) == team[c] # TeamOf(seat[c])
SeatsDistinct ==
  /\ \A c, d \in Players : seat[c] = seat[d] => c = d \/ Misfiled(c) \/ Misfiled(d)
  /\ \A c \in Players : seat[c] # NoSeat /\ (Team1 = 1 => ~Misfiled(c))

(* While anyone plays, exactly one of the players is the host: createPlayer
   makes one when there is none, the host cannot go to the stands or be
   kicked, and a waiting room does not survive its host. *)
OneHost == Players # {} => Cardinality(Players \cap host) = 1

(* A deck that is not its holder's own was sent by someone who left: only the
   client objects of departed players still point at a seat that may be
   somebody else's when the build ends.  Two who share a position share decks. *)
ForeignDeckIsALeavers == Team1 = 1 =>
  \A p \in Players : deck[p].who \notin {p, NoClient} => role[deck[p].who] = "none"

(* An unranked match starts with every player connected and ready: the lobby
   takes a closed player out before the next command is looked at. *)
StartsWithThePresent ==
  [][~ranked /\ phase = "waiting" /\ phase' = "rps" =>
       Players \subseteq ready \ closed /\ BothTeams]_vars

(* A JOIN the lobby took up is answered, even when the room is deleted while
   it waits for the mutex. *)
JoinAnswered == []<>(\A c \in Client : conn[c] # "joining")

(* A READY is only kept back while a deck update is open, so that the deck's
   arrival, which closes the update, also releases it. *)
HeldReadyAwaitsADeck == saved \subseteq updating

(* An unranked room that left the list leaves nothing behind: every member's
   socket is closed and no token leads to it. *)
DeletedRoomEnds ==
  (~ranked /\ phase # "none" /\ ~listed)
    ~> (tokens = {} /\ \A c \in Client : role[c] # "none" => c \in closed)

(* A room on the list has a member connected, whatever removals, moves and kicks
   wait behind a lookup, those that leave a closed client behind in the other list
   included: the last one out finds everybody closed.  Not so a room that took in
   somebody whose socket had closed during the lookup. *)
SomebodyIsIn == LET members == {c \in Client : role[c] # "none"} IN
  members # {} /\ members \cap late = {} => ~(members \subseteq closed)
LastOneOutDeletes == [](listed => SomebodyIsIn)

(* The seating of the lobby, whatever joins, moves, kicks, decks and closes are
   on their way: places, teams, the host, and whose deck and READY is whose. *)
LobbySound ==
  TypeOK /\ SeatsDistinct /\ OneHost /\ ForeignDeckIsALeavers /\ HeldReadyAwaitsADeck

(* Nobody is left waiting on a lobby: joins are answered, the last one out deletes
   the room, and an unranked room that goes takes its sockets and tokens along. *)
LobbyAnswers == JoinAnswered /\ DeletedRoomEnds /\ LastOneOutDeletes
=============================================================================
