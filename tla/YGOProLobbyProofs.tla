------------------------- MODULE YGOProLobbyProofs -------------------------
(***************************************************************************)
(* What holds in the waiting rooms of the YGOPro server for every number   *)
(* of connections and rooms and for everybody who may come: a room's       *)
(* league takes each of its players, cells, hosts and bots stay single,    *)
(* and the last one out closes the room.                                   *)
(*                                                                         *)
(* The argument.  A connection waits for its admission in one entry of one *)
(* room's queue, and everything else queued under its name was queued      *)
(* after that entry was served (EntriesInv): so a section that seats       *)
(* somebody seats a connection that is no client anywhere yet.             *)
(***************************************************************************)
EXTENDS YGOProLobby, SequenceTheorems, FiniteSetTheorems, WellFoundedInduction, TLAPS

-----------------------------------------------------------------------------
(* The inductive invariant. *)

Entry == [what : {"admit", "return", "observer", "toDuel", "deck", "unready", "leave"}, who : Conn]
RoomRecord == [key : {who[c].key : c \in Conn}, ai : BOOLEAN, league : {"casual", "external", "verified"}]

RoomTypes ==
  /\ who \in Parties /\ rooms \in Seq(RoomRecord) /\ Len(rooms) <= MaxRooms
  /\ phase \in [Room -> {"waiting", "match"}] /\ over \in [Room -> BOOLEAN]
  /\ token \in [Room -> {"none", "live", "used", "cleared"}] /\ http \in [Room -> {"idle", "asked", "done"}]
  /\ \A r \in Room : over[r] => r \in DOMAIN rooms

SeatTypes ==
  /\ players \in [Room -> SUBSET Conn] /\ stands \in [Room -> SUBSET Conn]
  /\ pos \in [Conn -> Seat \cup {Observer, None}] /\ cred \in [Conn -> {"verified", "external", "guest", None}]
  /\ deck \in [Conn -> Conn \cup {None}]
  /\ {host, ready, readied, ghosts} \subseteq SUBSET Conn

JoinTypes ==
  /\ queue \in [Room -> Seq(Entry)]
  /\ at \in [Conn -> {"out", "queued", "seated", "watching", "resumed", "refused", "unheard"}]
  /\ home \in [Conn -> Room \cup {None}]
  /\ closed \subseteq Conn /\ building \in [Conn -> 0 .. MaxAsked]

Types == RoomTypes /\ SeatTypes /\ JoinTypes

\* A connection that is no client yet.
Pending(c) == at[c] \in {"out", "queued"}

\* One entry admits a connection, and nothing is queued for it before.
EntriesInv ==
  \A r \in Room : \A i \in DOMAIN queue[r] :
    LET e == queue[r][i]
    IN  /\ home[e.who] = r
        /\ e.what \in {"admit", "return"} =>
             at[e.who] = "queued" /\ \A j \in DOMAIN queue[r] : queue[r][j].who = e.who => j = i
        /\ e.what \notin {"admit", "return"} => ~Pending(e.who)
        /\ e.what = "return" => who[e.who].way # "invite"

\* A connection is of the room it was sent to, and of no other.
HomesInv ==
  /\ \A c \in Conn : /\ at[c] = "out" => home[c] = None
                     /\ home[c] # None => home[c] \in DOMAIN rooms
                     /\ building[c] > 0 => home[c] # None /\ ~Pending(c)
                     /\ c \in host => ~Pending(c)
  /\ \A r \in Room : \A c \in players[r] \cup stands[r] : home[c] = r /\ ~Pending(c)

CellsInv ==
  /\ \A r \in Room : /\ \A p \in players[r] : pos[p] \in Seat
                     /\ \A p, q \in players[r] : p # q => pos[p] # pos[q] /\ ~({p, q} \subseteq host)
  /\ \A c \in host : pos[c] # Observer

\* A bot came with the token of its room, which admits no other.
BotsInv ==
  \A r \in Room :
    /\ token[r] = "live" => ~over[r]
    /\ \A b, c \in Conn : who[b].way = "bot" /\ home[b] = r =>
         /\ token[r] \notin {"none", "live"}
         /\ who[c].way = "bot" /\ home[c] = r => b = c

\* A room without ghosts: whoever is to be removed is closed, and somebody is not.
OpenInv ==
  \A r \in Listed : (\A g \in ghosts : home[g] # r) =>
    /\ \A i \in DOMAIN queue[r] : queue[r][i].what = "leave" => queue[r][i].who \in closed
    /\ players[r] \cup stands[r] # {} => ~(players[r] \cup stands[r] \subseteq closed)

\* A queued TO_DUEL or OBSERVER seats its client even if they have left meanwhile:
\* but never in a room everybody has left.
MovesInv ==
  \A r \in Listed : (\A g \in ghosts : home[g] # r) =>
    \A i \in DOMAIN queue[r] :
      queue[r][i].what \in {"observer", "toDuel"} => players[r] \cup stands[r] # {}

IInv ==
  /\ Types /\ EntriesInv /\ HomesInv /\ CellsInv /\ LeagueHolds /\ BotsInv /\ OpenInv /\ MovesInv
  /\ ready \subseteq readied

-----------------------------------------------------------------------------
(* What the room helpers return. *)

LEMMA Basics ==
  ASSUME Types
  PROVE  /\ DOMAIN rooms = 1 .. Len(rooms) /\ Len(rooms) \in Nat /\ DOMAIN rooms \subseteq Room
         /\ \A r \in Room : queue[r] \in Seq(Entry) /\ DOMAIN queue[r] = 1 .. Len(queue[r]) /\ Len(queue[r]) \in Nat
         /\ \A r \in Room : \A i \in DOMAIN queue[r] : queue[r][i].who \in Conn
         /\ \A c \in Conn : home[c] # None => home[c] \in Room
         /\ None \notin Room /\ MaxAsked \in Nat /\ MaxRooms \in Nat
         /\ \A c \in Conn : /\ who[c].way \in {"out", "pair", "named", "watch", "invite", "ai", "bot"}
                            /\ who[c].auth \in {"ticket", "pin", "none"}
  <1>1. DOMAIN rooms = 1 .. Len(rooms) /\ Len(rooms) \in Nat /\ Len(rooms) <= MaxRooms
    BY DEF Types, RoomTypes
  <1>2. MaxAsked \in Nat /\ MaxRooms \in Nat /\ None \notin Room
    BY LobbyAssumption
  <1>3. \A r \in Room : queue[r] \in Seq(Entry) /\ DOMAIN queue[r] = 1 .. Len(queue[r]) /\ Len(queue[r]) \in Nat
    BY DEF Types, JoinTypes
  <1>4. \A r \in Room : \A i \in DOMAIN queue[r] : queue[r][i] \in Entry
    BY <1>3
  <1>5. \A c \in Conn : home[c] # None => home[c] \in Room
    BY DEF Types, JoinTypes
  <1>6. \A c \in Conn : /\ who[c].way \in {"out", "pair", "named", "watch", "invite", "ai", "bot"}
                        /\ who[c].auth \in {"ticket", "pin", "none"}
    BY LobbyAssumption DEF Types, RoomTypes
  <1>7. DOMAIN rooms \subseteq Room
    BY <1>1, <1>2 DEF Room
  <1>8. \A r \in Room : \A i \in DOMAIN queue[r] : queue[r][i].who \in Conn
    BY <1>4 DEF Entry
  <1> QED BY <1>1, <1>2, <1>3, <1>5, <1>6, <1>7, <1>8

LEMMA FirstSeat ==
  ASSUME NEW S \in SUBSET Seat, S # {}
  PROVE  First(S) \in S
  <1>1. CASE 0 \in S
    <2>1. \E r \in S : \A s \in S : r <= s
      BY <1>1 DEF Seat
    <2> QED BY <2>1 DEF First
  <1>2. CASE 0 \notin S
    <2>1. S = {1}
      BY <1>2 DEF Seat
    <2> QED BY <2>1 DEF First
  <1> QED BY <1>1, <1>2

LEMMA FirstRoom ==
  ASSUME Types, NEW S \in SUBSET DOMAIN rooms, S # {}
  PROVE  First(S) \in S
  <1>1. S \subseteq Nat
    BY Basics
  <1>2. \E r \in S : \A s \in S : r <= s
    <2>1. OpToRel(<, Nat) = {pair \in Nat \X Nat : pair[1] < pair[2]}
      BY Zenon DEF OpToRel
    <2>2. \E r \in S : \A s \in S : ~ (<<s, r>> \in OpToRel(<, Nat))
      BY <1>1, NatLessThanWellFounded, WFMin, Zenon
    <2>3. PICK r \in S : \A s \in S : ~ (<<s, r>> \in {pair \in Nat \X Nat : pair[1] < pair[2]})
      BY <2>1, <2>2
    <2>4. ASSUME NEW s \in S, ~ (r <= s)
          PROVE  FALSE
      <3>1. s \in Nat /\ r \in Nat /\ s < r
        BY <1>1, <2>4
      <3>2. <<s, r>> \in {pair \in Nat \X Nat : pair[1] < pair[2]}
        BY <3>1
      <3> QED BY <2>3, <3>2
    <2> QED BY <2>3, <2>4
  <1> QED BY <1>2 DEF First

LEMMA FreeSeat ==
  ASSUME NEW r \in Room, FreeSeats(r) # {}
  PROVE  First(FreeSeats(r)) \in Seat /\ \A p \in players[r] : pos[p] # First(FreeSeats(r))
  BY FirstSeat DEF FreeSeats

LEMMA NextSeat ==
  ASSUME NEW r \in Room, NEW s, FreeSeats(r) # {}
  PROVE  NextCell(r, s) \in Seat /\ \A p \in players[r] : pos[p] # NextCell(r, s)
  <1> DEFINE later == {u \in FreeSeats(r) : u > s}
             cells == IF later # {} THEN later ELSE FreeSeats(r)
  <1>1. FreeSeats(r) \subseteq Seat /\ \A u \in FreeSeats(r) : \A p \in players[r] : pos[p] # u
    BY DEF FreeSeats
  <1>2. cells \subseteq FreeSeats(r) /\ cells # {}
    OBVIOUS
  <1>3. NextCell(r, s) = First(cells)
    BY DEF NextCell
  <1> HIDE DEF cells, later
  <1>4. First(cells) \in cells
    BY <1>1, <1>2, FirstSeat
  <1> QED BY <1>1, <1>2, <1>3, <1>4

-----------------------------------------------------------------------------
(* What a JOIN_GAME does before the mutex, whichever strategy routes it. *)

Turned(c) ==
  /\ at' = [at EXCEPT ![c] = "refused"] /\ closed' = closed \cup {c}
  /\ UNCHANGED <<rooms, queue, home>>

Entered(c, r, there) ==
  /\ at' = [at EXCEPT ![c] = "queued"] /\ home' = [home EXCEPT ![c] = r]
  /\ queue' = [queue EXCEPT ![r] = Append(@, [what |-> there, who |-> c])]
  /\ there = "return" => who[c].way # "invite"
  /\ \/ r \in DOMAIN rooms /\ rooms' = rooms
     \/ /\ r = Len(rooms) + 1 /\ r <= MaxRooms /\ who[c].way # "bot"
        /\ \E room \in RoomRecord : rooms' = Append(rooms, room)
  /\ closed' = closed

Arrival(c) ==
  /\ at[c] = "out" /\ (Turned(c) \/ \E r \in Room, there \in {"admit", "return"} : Entered(c, r, there))
  /\ UNCHANGED <<who, phase, over, seats, building, past>>

Doors(c) ==
  \/ RateLimited(c) \/ JoinByKey(c) \/ WatchJoin(c) \/ InviteJoin(c) \/ JoinWithBot(c)
  \/ \E r \in DOMAIN rooms : BotJoins(c, r)

LEMMA EnterArrives ==
  ASSUME Types, NEW c \in Conn, NEW r \in DOMAIN rooms, EnterRoom(r, c, Door(r)), rooms' = rooms,
         who[c].way = "invite" => phase[r] = "waiting"
  PROVE  Turned(c) \/ \E s \in Room, there \in {"admit", "return"} : Entered(c, s, there)
  <1>1. CASE phase[r] = "waiting" /\ NameTaken(r, c)
    BY <1>1 DEF EnterRoom, Refuse, Turned
  <1>2. CASE ~(phase[r] = "waiting" /\ NameTaken(r, c))
    <2>1. r \in Room /\ Door(r) \in {"admit", "return"}
      BY Basics DEF Door
    <2>2. Entered(c, r, Door(r))
      BY <1>2 DEF EnterRoom, Entered, Door
    <2> QED BY <2>1, <2>2
  <1> QED BY <1>1, <1>2

LEMMA CreateArrives ==
  ASSUME Types, NEW c \in Conn, Create(c), closed' = closed, who[c].way # "bot"
  PROVE  /\ Len(rooms) + 1 \in Room
         /\ Entered(c, Len(rooms) + 1, "admit")
  <1>1. Len(rooms) + 1 \in Room /\ Len(rooms) + 1 <= MaxRooms
    BY Basics DEF Create, Room
  <1>2. League(c) \in {"casual", "external", "verified"}
    BY DEF League
  <1>3. [key |-> who[c].key, ai |-> who[c].way = "ai", league |-> League(c)] \in RoomRecord
    BY <1>2 DEF RoomRecord
  <1> QED BY <1>1, <1>3 DEF Create, Entered

LEMMA DoorsArrive ==
  ASSUME Types, NEW c \in Conn, Doors(c)
  PROVE  Arrival(c)
  <1>1. ASSUME RateLimited(c)
        PROVE  Arrival(c)
    BY <1>1 DEF RateLimited, Refuse, Turned, Arrival, roomVars, past
  <1>2. ASSUME JoinByKey(c)
        PROVE  Arrival(c)
    <2>1. who[c].way \in {"pair", "named"} /\ at[c] = "out" /\ UNCHANGED <<who, phase, over, seats, building, past>>
      BY <1>2 DEF JoinByKey
    <2>2. CASE Reusable(c) # {}
      <3>1. Reusable(c) \subseteq DOMAIN rooms
        BY DEF Reusable, Keyed, Resumable, Joinable, Listed
      <3>2. First(Reusable(c)) \in DOMAIN rooms
        BY <2>2, <3>1, FirstRoom
      <3>3. EnterRoom(First(Reusable(c)), c, Door(First(Reusable(c)))) /\ rooms' = rooms
        BY <1>2, <2>2 DEF JoinByKey
      <3> QED BY <2>1, <3>2, <3>3, EnterArrives DEF Arrival
    <2>3. CASE Reusable(c) = {}
      <3>1. Create(c) /\ closed' = closed
        BY <1>2, <2>3 DEF JoinByKey
      <3> QED BY <2>1, <3>1, CreateArrives DEF Arrival
    <2> QED BY <2>2, <2>3
  <1>3. ASSUME WatchJoin(c)
        PROVE  Arrival(c)
    <2>1. who[c].way = "watch" /\ at[c] = "out" /\ rooms' = rooms /\ UNCHANGED <<who, phase, over, seats, building, past>>
      BY <1>3 DEF WatchJoin, roomVars
    <2>2. CASE \E r \in Listed : EnterRoom(r, c, Door(r))
      BY <2>1, <2>2, EnterArrives DEF Arrival, Listed
    <2>3. CASE Refuse(c) /\ UNCHANGED <<queue, home>>
      BY <2>1, <2>3 DEF Arrival, Turned, Refuse
    <2> QED BY <1>3, <2>2, <2>3 DEF WatchJoin
  <1>4. ASSUME InviteJoin(c)
        PROVE  Arrival(c)
    <2>1. who[c].way = "invite" /\ at[c] = "out" /\ rooms' = rooms /\ UNCHANGED <<who, phase, over, seats, building, past>>
      BY <1>4 DEF InviteJoin, roomVars
    <2>2. CASE \E r \in Listed : CanAcceptInvitation(r) /\ EnterRoom(r, c, Door(r))
      BY <2>1, <2>2, EnterArrives DEF Arrival, Listed, CanAcceptInvitation
    <2>3. CASE Refuse(c) /\ UNCHANGED <<queue, home>>
      BY <2>1, <2>3 DEF Arrival, Turned, Refuse
    <2> QED BY <1>4, <2>2, <2>3 DEF InviteJoin
  <1>5. ASSUME JoinWithBot(c)
        PROVE  Arrival(c)
    BY <1>5, CreateArrives DEF JoinWithBot, Arrival
  <1>6. ASSUME NEW r \in DOMAIN rooms, BotJoins(c, r)
        PROVE  Arrival(c)
    <2>1. who[c].way = "bot" /\ at[c] = "out" /\ rooms' = rooms /\ UNCHANGED <<who, phase, over, seats, building, past>>
      BY <1>6 DEF BotJoins, roomVars
    <2>2. CASE token[r] = "live"
      BY <1>6, <2>1, <2>2, EnterArrives DEF BotJoins, Arrival
    <2>3. CASE token[r] # "live"
      BY <1>6, <2>1, <2>3 DEF BotJoins, Arrival, Turned, Refuse
    <2> QED BY <2>2, <2>3
  <1> QED BY <1>1, <1>2, <1>3, <1>4, <1>5, <1>6 DEF Doors

-----------------------------------------------------------------------------
(* The sections of the mutex: one entry is taken, and at most the one it is of *)
(* stops to wait.                                                              *)

Popped(r) == queue[r] # <<>> /\ queue' = [queue EXCEPT ![r] = Tail(@)]

\* The connections whose standing a section changes are clients when it ends.
Served(r) ==
  \A c \in Conn : at'[c] # at[c] =>
    /\ at'[c] \notin {"out", "queued"}
    /\ Pending(c) => c = Heads(r) /\ Head(queue[r]).what \in {"admit", "return"}

Serves(r) ==
  \/ Admit(r) \/ AdmitStale(r) \/ Return(r) \/ ToObserver(r) \/ ToDuel(r) \/ SetDeck(r) \/ NotReady(r) \/ RunLeave(r)

LEMMA PoppedEntries ==
  ASSUME Types, NEW r \in Room, Popped(r)
  PROVE  /\ queue' \in [Room -> Seq(Entry)]
         /\ 1 \in DOMAIN queue[r] /\ queue[r][1] = Head(queue[r]) /\ Heads(r) \in Conn
         /\ \A i \in DOMAIN queue'[r] : i + 1 \in DOMAIN queue[r] /\ i + 1 # 1 /\ queue'[r][i] = queue[r][i + 1]
         /\ \A s \in Room \ {r} : queue'[s] = queue[s]
  <1>1. queue[r] \in Seq(Entry) /\ queue[r] # <<>> /\ DOMAIN queue[r] = 1 .. Len(queue[r]) /\ Len(queue[r]) \in Nat
    BY Basics DEF Popped
  <1>2. /\ Head(queue[r]) \in Entry /\ Tail(queue[r]) \in Seq(Entry) /\ Len(Tail(queue[r])) = Len(queue[r]) - 1
        /\ \A i \in 1 .. Len(Tail(queue[r])) : Tail(queue[r])[i] = queue[r][i + 1]
    BY <1>1, HeadTailProperties
  <1>3. queue'[r] = Tail(queue[r]) /\ \A s \in Room \ {r} : queue'[s] = queue[s]
    BY DEF Popped, Types, JoinTypes
  <1>4. queue' \in [Room -> Seq(Entry)]
    BY <1>2 DEF Popped, Types, JoinTypes
  <1>5. 1 \in DOMAIN queue[r] /\ queue[r][1] = Head(queue[r])
    BY <1>1
  <1>6. Heads(r) \in Conn
    BY <1>2 DEF Heads, Entry
  <1>7. ASSUME NEW i \in DOMAIN queue'[r]
        PROVE  i + 1 \in DOMAIN queue[r] /\ i + 1 # 1 /\ queue'[r][i] = queue[r][i + 1]
    <2>1. DOMAIN queue'[r] = 1 .. Len(Tail(queue[r]))
      BY <1>2, <1>3
    <2>2. i \in 1 .. Len(Tail(queue[r])) /\ Len(Tail(queue[r])) = Len(queue[r]) - 1
      BY <1>2, <2>1
    <2>3. i + 1 \in DOMAIN queue[r] /\ i + 1 # 1
      BY <1>1, <2>2
    <2> QED BY <1>2, <1>3, <2>2, <2>3
  <1> QED BY <1>3, <1>4, <1>5, <1>6, <1>7

LEMMA Appended ==
  ASSUME Types, NEW r \in Room, NEW e \in Entry, queue' = [queue EXCEPT ![r] = Append(@, e)]
  PROVE  /\ queue' \in [Room -> Seq(Entry)]
         /\ \A i \in DOMAIN queue'[r] : \/ i \in DOMAIN queue[r] /\ queue'[r][i] = queue[r][i]
                                        \/ i = Len(queue[r]) + 1 /\ queue'[r][i] = e
         /\ \A s \in Room \ {r} : queue'[s] = queue[s]
  <1>1. queue[r] \in Seq(Entry) /\ DOMAIN queue[r] = 1 .. Len(queue[r]) /\ Len(queue[r]) \in Nat
    BY Basics
  <1>2. queue'[r] = Append(queue[r], e) /\ \A s \in Room \ {r} : queue'[s] = queue[s]
    BY DEF Types, JoinTypes
  <1>3. /\ Append(queue[r], e) \in Seq(Entry) /\ Len(Append(queue[r], e)) = Len(queue[r]) + 1
        /\ \A i \in 1 .. Len(queue[r]) : Append(queue[r], e)[i] = queue[r][i]
        /\ Append(queue[r], e)[Len(queue[r]) + 1] = e
    BY <1>1, AppendProperties
  <1>4. queue' \in [Room -> Seq(Entry)]
    BY <1>3 DEF Types, JoinTypes
  <1>5. DOMAIN queue'[r] = 1 .. Len(queue[r]) + 1
    BY <1>2, <1>3
  <1> QED BY <1>1, <1>2, <1>3, <1>4, <1>5

\* What every section has in common.
Frame(r) == Popped(r) /\ Served(r) /\ UNCHANGED <<who, rooms, phase, over, home, building, token, http>>

LEMMA SectionsServe ==
  ASSUME Types, EntriesInv, HomesInv, NEW r \in DOMAIN rooms, Serves(r)
  PROVE  Frame(r)
  <1>1. r \in Room
    BY Basics
  <1>2. Popped(r)
    BY DEF Serves, Admit, AdmitStale, Return, ToObserver, ToDuel, SetDeck, NotReady, RunLeave, Section, Popped
  <1>3. Heads(r) \in Conn /\ at \in [Conn -> {"out", "queued", "seated", "watching", "resumed", "refused", "unheard"}]
    BY <1>1, <1>2, PoppedEntries DEF Types, JoinTypes
  <1>4. UNCHANGED <<who, rooms, phase, over, home, building, token, http>>
    BY DEF Serves, Admit, AdmitStale, Return, ToObserver, ToDuel, SetDeck, NotReady, RunLeave, roomVars, bots
  <1>5. ASSUME Admit(r) \/ AdmitStale(r) \/ Return(r)
        PROVE  Served(r)
    <2>1. Head(queue[r]).what \in {"admit", "return"}
      BY <1>5 DEF Admit, AdmitStale, Return, Section
    <2>2. \/ at' = at
          \/ \E to \in {"seated", "watching", "resumed", "refused", "unheard"} : at' = [at EXCEPT ![Heads(r)] = to]
      <3>1. ASSUME NEW credential, Admission(r, Heads(r), credential)
            PROVE  \E to \in {"seated", "watching", "refused"} : at' = [at EXCEPT ![Heads(r)] = to]
        BY <3>1 DEF Admission, SeatPlayer, SeatSpectator, TurnAway, Refuse
      <3>2. CASE Admit(r)
        BY <3>1, <3>2 DEF Admit
      <3>3. CASE AdmitStale(r)
        BY <3>3 DEF AdmitStale, Refuse
      <3>4. CASE Return(r)
        BY <3>4 DEF Return, SeatSpectator
      <3> QED BY <1>5, <3>2, <3>3, <3>4
    <2> QED BY <1>3, <2>1, <2>2 DEF Served
  <1>6. ASSUME ToObserver(r) \/ ToDuel(r)
        PROVE  Served(r)
    <2>1. \/ at' = at
          \/ \E to \in {"seated", "watching"} : at' = [at EXCEPT ![Heads(r)] = to]
      BY <1>6 DEF ToObserver, ToDuel, ToStands, FromStands, ToOtherCell, Stay
    <2>2. ~Pending(Heads(r))
      <3>1. Head(queue[r]).what \notin {"admit", "return"}
        BY <1>6 DEF ToObserver, ToDuel, Section
      <3>2. 1 \in DOMAIN queue[r] /\ queue[r][1] = Head(queue[r])
        BY <1>1, <1>2, PoppedEntries
      <3> QED BY <1>1, <3>1, <3>2 DEF EntriesInv, Heads
    <2> QED BY <1>3, <2>1, <2>2 DEF Served
  <1>7. ASSUME SetDeck(r) \/ NotReady(r) \/ RunLeave(r)
        PROVE  Served(r)
    BY <1>7 DEF SetDeck, NotReady, RunLeave, Served
  <1> QED BY <1>2, <1>4, <1>5, <1>6, <1>7 DEF Serves, Frame

-----------------------------------------------------------------------------
(* Types. *)

Commands(c) == \E what \in {"observer", "toDuel", "unready"} : Command(c, what)
Rest(r) == BotCalled(r) \/ BotUnreachable(r) \/ MatchEnds(r) \/ DuelBreaks(r)

LEMMA Steps ==
  ASSUME [Next]_vars
  PROVE  \/ \E c \in Conn : Doors(c) \/ Commands(c) \/ UpdateDeck(c) \/ DeckBuilt(c) \/ TryStart(c) \/ Disconnect(c)
         \/ \E r \in DOMAIN rooms : Serves(r) \/ Rest(r)
         \/ UNCHANGED vars
  BY DEF Next, Doors, Commands, Serves, Rest

LEMMA RoomTypesKept ==
  ASSUME Types, EntriesInv, HomesInv, [Next]_vars
  PROVE  RoomTypes'
  <1>a. DOMAIN rooms \subseteq Room
    BY Basics
  <1>c. who' = who => RoomRecord' = RoomRecord
    BY DEF RoomRecord
  <1>b. ASSUME NEW r \in Room, NEW and, Finalize(r, and), r \in DOMAIN rooms, UNCHANGED <<who, rooms, phase>>,
               http' \in [Room -> {"idle", "asked", "done"}]
        PROVE  RoomTypes'
    <2>1. over' \in [Room -> BOOLEAN] /\ \A s \in Room : over'[s] => s \in DOMAIN rooms
      BY <1>b DEF Types, RoomTypes, Finalize
    <2>2. token' \in [Room -> {"none", "live", "used", "cleared"}]
      BY <1>b DEF Types, RoomTypes, Finalize, ClearByRoom
    <2> QED BY <1>b, <1>c, <2>1, <2>2 DEF Types, RoomTypes
  <1>1. ASSUME NEW c \in Conn, Doors(c)
        PROVE  RoomTypes'
    <2>1. Arrival(c)
      BY <1>1, DoorsArrive
    <2>2. rooms' \in Seq(RoomRecord) /\ Len(rooms') <= MaxRooms /\ DOMAIN rooms \subseteq DOMAIN rooms'
      <3>1. CASE rooms' = rooms
        BY <3>1 DEF Types, RoomTypes
      <3>2. CASE \E room \in RoomRecord : rooms' = Append(rooms, room) /\ Len(rooms) + 1 <= MaxRooms
        <4>1. PICK room \in RoomRecord : rooms' = Append(rooms, room) /\ Len(rooms) + 1 <= MaxRooms
          BY <3>2
        <4>2. rooms \in Seq(RoomRecord) /\ DOMAIN rooms = 1 .. Len(rooms) /\ Len(rooms) \in Nat
          BY Basics DEF Types, RoomTypes
        <4>3. rooms' \in Seq(RoomRecord) /\ Len(rooms') = Len(rooms) + 1
          BY <4>1, <4>2, AppendProperties
        <4>4. DOMAIN rooms' = 1 .. Len(rooms')
          BY <4>3
        <4> QED BY <4>1, <4>2, <4>3, <4>4
      <3> QED BY <2>1, <3>1, <3>2 DEF Arrival, Turned, Entered
    <2>3. token' \in [Room -> {"none", "live", "used", "cleared"}] /\ http' \in [Room -> {"idle", "asked", "done"}]
      BY <1>1, <1>a DEF Doors, RateLimited, JoinByKey, WatchJoin, InviteJoin, JoinWithBot, BotJoins, RequestBot, Consume,
                        bots, Types, RoomTypes
    <2>4. who' = who /\ phase' = phase /\ over' = over
      BY <2>1 DEF Arrival
    <2> QED BY <2>2, <2>3, <2>4 DEF Types, RoomTypes, RoomRecord
  <1>2. ASSUME NEW c \in Conn, Commands(c) \/ UpdateDeck(c) \/ DeckBuilt(c)
        PROVE  RoomTypes'
    BY <1>2, <1>c DEF Commands, Command, UpdateDeck, DeckBuilt, roomVars, bots, Types, RoomTypes
  <1>3. ASSUME NEW c \in Conn, TryStart(c)
        PROVE  RoomTypes'
    BY <1>3, <1>c DEF TryStart, StartMatch, bots, Types, RoomTypes
  <1>4. ASSUME NEW c \in Conn, Disconnect(c)
        PROVE  RoomTypes'
    <2>1. UNCHANGED <<who, rooms, phase, http>>
      BY <1>4 DEF Disconnect
    <2>2. CASE UNCHANGED <<over, token>>
      BY <2>1, <2>2 DEF Types, RoomTypes, RoomRecord
    <2>3. CASE Client(c) /\ Finalize(home[c], {c})
      <3>1. home[c] \in DOMAIN rooms
        BY <2>3 DEF Client, HomesInv
      <3> QED BY <1>a, <1>b, <2>1, <2>3, <3>1 DEF Types, RoomTypes
    <2> QED BY <1>4, <2>2, <2>3 DEF Disconnect
  <1>5. ASSUME NEW r \in DOMAIN rooms, Serves(r)
        PROVE  RoomTypes'
    BY <1>5, <1>c, SectionsServe DEF Frame, Types, RoomTypes
  <1>6. ASSUME NEW r \in DOMAIN rooms, Rest(r)
        PROVE  RoomTypes'
    <2>1. CASE BotCalled(r)
      BY <1>a, <2>1 DEF BotCalled, roomVars, Types, RoomTypes, RoomRecord
    <2>2. CASE BotUnreachable(r)
      <3>1. http' \in [Room -> {"idle", "asked", "done"}]
        BY <2>2 DEF BotUnreachable, Types, RoomTypes
      <3> QED BY <1>a, <1>b, <2>2, <3>1 DEF BotUnreachable
    <2>3. CASE MatchEnds(r)
      BY <1>a, <1>b, <2>3 DEF MatchEnds, Types, RoomTypes
    <2>4. CASE DuelBreaks(r)
      BY <1>a, <2>4 DEF DuelBreaks, Wait, bots, Types, RoomTypes, RoomRecord
    <2> QED BY <1>6, <2>1, <2>2, <2>3, <2>4 DEF Rest
  <1>7. CASE UNCHANGED vars
    BY <1>7 DEF vars, roomVars, bots, Types, RoomTypes, RoomRecord
  <1> QED BY <1>1, <1>2, <1>3, <1>4, <1>5, <1>6, <1>7, Steps

LEMMA SeatTypesKept ==
  ASSUME Types, EntriesInv, HomesInv, [Next]_vars
  PROVE  SeatTypes'
  <1>a. DOMAIN rooms \subseteq Room
    BY Basics
  <1>1. ASSUME NEW c \in Conn, Doors(c)
        PROVE  SeatTypes'
    BY <1>1, DoorsArrive DEF Arrival, seats, past, Types, SeatTypes
  <1>2. ASSUME NEW c \in Conn, Commands(c) \/ UpdateDeck(c) \/ DeckBuilt(c) \/ TryStart(c)
        PROVE  SeatTypes'
    BY <1>2 DEF Commands, Command, UpdateDeck, DeckBuilt, TryStart, seats, past, Types, SeatTypes
  <1>3. ASSUME NEW c \in Conn, Disconnect(c)
        PROVE  SeatTypes'
    <2>1. stands' = stands \/ (Client(c) /\ stands' = [stands EXCEPT ![home[c]] = @ \ {c}])
      BY <1>3 DEF Disconnect
    <2>2. stands' \in [Room -> SUBSET Conn]
      BY <2>1 DEF Types, SeatTypes
    <2> QED BY <1>3, <2>2 DEF Disconnect, past, Types, SeatTypes
  <1>4. ASSUME NEW r \in DOMAIN rooms, Serves(r)
        PROVE  SeatTypes'
    <2>1. r \in Room /\ Heads(r) \in Conn
      BY <1>4, <1>a, SectionsServe, PoppedEntries DEF Frame
    <2>2. ASSUME NEW credential \in {"guest", "verified", "external"}, SeatSpectator(r, Heads(r), credential), readied' = readied
          PROVE  SeatTypes'
      BY <2>1, <2>2 DEF SeatSpectator, Types, SeatTypes
    <2>3. ASSUME NEW credential \in {"guest", "verified", "external"}, Admission(r, Heads(r), credential), readied' = readied
          PROVE  SeatTypes'
      <3>1. ASSUME NEW seat \in Seat, SeatPlayer(r, Heads(r), seat, credential)
            PROVE  SeatTypes'
        BY <2>1, <2>3, <3>1 DEF SeatPlayer, Types, SeatTypes
      <3>2. CASE TurnAway(Heads(r))
        BY <2>3, <3>2 DEF TurnAway, seats, Types, SeatTypes
      <3>3. CASE /\ Decide(rooms[r].league, credential, SeatOffer(r, Heads(r))) = "player"
                 /\ SeatPlayer(r, Heads(r), First(SeatOffer(r, Heads(r))), credential)
        <4>1. SeatOffer(r, Heads(r)) # {} /\ SeatOffer(r, Heads(r)) \subseteq Seat
          BY <3>3 DEF Decide, SeatOffer, FreeSeats
        <4> QED BY <3>1, <3>3, <4>1, FirstSeat
      <3> QED BY <2>2, <2>3, <3>2, <3>3 DEF Admission
    <2>4. CASE Admit(r)
      <3>1. readied' = readied /\ Lookups(Heads(r)) \subseteq {"guest", "verified", "external"}
        BY <2>4 DEF Admit, Lookups
      <3>2. CASE UNCHANGED <<seats, ghosts>>
        BY <3>1, <3>2 DEF seats, Types, SeatTypes
      <3> QED BY <2>3, <2>4, <3>1, <3>2 DEF Admit
    <2>5. CASE AdmitStale(r)
      BY <2>5 DEF AdmitStale, seats, past, Types, SeatTypes
    <2>6. CASE Return(r)
      <3>1. CASE SeatSpectator(r, Heads(r), "guest")
        BY <2>2, <2>6, <3>1 DEF Return
      <3>2. CASE seats' = seats /\ \E S \in SUBSET players[r] : ghosts' = ghosts \cup S
        BY <2>1, <2>6, <3>2 DEF Return, seats, Types, SeatTypes
      <3> QED BY <2>6, <3>1, <3>2 DEF Return, Reconnecting
    <2>7. CASE ToObserver(r)
      BY <2>1, <2>7 DEF ToObserver, ToStands, Stay, past, Types, SeatTypes
    <2>8. CASE ToDuel(r)
      <3>1. CASE Stay
        BY <2>8, <3>1 DEF ToDuel, Stay, past, Types, SeatTypes
      <3>2. CASE FreeSeats(r) # {} /\ (FromStands(r, Heads(r)) \/ ToOtherCell(r, Heads(r)))
        <4>1. First(FreeSeats(r)) \in Seat /\ NextCell(r, pos[Heads(r)]) \in Seat
          BY <2>1, <3>2, FreeSeat, NextSeat
        <4> QED BY <2>1, <2>8, <3>2, <4>1 DEF ToDuel, FromStands, ToOtherCell, past, Types, SeatTypes
      <3> QED BY <2>8, <3>1, <3>2 DEF ToDuel
    <2>9. CASE SetDeck(r)
      BY <2>1, <2>9 DEF SetDeck, Types, SeatTypes
    <2>10. CASE NotReady(r) \/ RunLeave(r)
      BY <2>1, <2>10 DEF NotReady, RunLeave, past, Types, SeatTypes
    <2> QED BY <1>4, <2>4, <2>5, <2>6, <2>7, <2>8, <2>9, <2>10 DEF Serves
  <1>5. ASSUME NEW r \in DOMAIN rooms, Rest(r)
        PROVE  SeatTypes'
    BY <1>5 DEF Rest, BotCalled, BotUnreachable, MatchEnds, DuelBreaks, Wait, seats, past, Types, SeatTypes
  <1>6. CASE UNCHANGED vars
    BY <1>6 DEF vars, seats, past, Types, SeatTypes
  <1> QED BY <1>1, <1>2, <1>3, <1>4, <1>5, <1>6, Steps

LEMMA JoinTypesKept ==
  ASSUME Types, EntriesInv, HomesInv, [Next]_vars
  PROVE  JoinTypes'
  <1>a. DOMAIN rooms \subseteq Room
    BY Basics
  <1>b. ASSUME NEW c \in Conn, Heard(c)
        PROVE  home[c] \in Room /\ building[c] < MaxAsked
    <2>1. home[c] \in Room
      BY <1>b, Basics DEF Heard, Client
    <2>2. DOMAIN queue[home[c]] = 1 .. Len(queue[home[c]]) /\ Len(queue[home[c]]) \in Nat
      BY <2>1, Basics
    <2>3. IsFiniteSet(DOMAIN queue[home[c]])
      BY <2>2, FS_Interval
    <2>4. Cardinality({i \in DOMAIN queue[home[c]] : queue[home[c]][i].who = c}) \in Nat
      BY <2>3, FS_Subset, FS_CardinalityType
    <2>5. building[c] \in Nat /\ MaxAsked \in Nat
      BY Basics DEF Types, JoinTypes
    <2> QED BY <1>b, <2>1, <2>4, <2>5 DEF Heard, Asked
  <1>1. ASSUME NEW c \in Conn, Doors(c)
        PROVE  JoinTypes'
    <2>1. Arrival(c)
      BY <1>1, DoorsArrive
    <2>2. CASE Turned(c)
      BY <2>1, <2>2 DEF Arrival, Turned, Types, JoinTypes
    <2>3. ASSUME NEW r \in Room, NEW there \in {"admit", "return"}, Entered(c, r, there)
          PROVE  JoinTypes'
      <3>1. queue' \in [Room -> Seq(Entry)]
        BY <2>3, Appended DEF Entered, Entry
      <3> QED BY <2>1, <2>3, <3>1 DEF Arrival, Entered, Types, JoinTypes
    <2> QED BY <2>1, <2>2, <2>3 DEF Arrival
  <1>2. ASSUME NEW c \in Conn, Commands(c)
        PROVE  JoinTypes'
    <2>1. PICK what \in {"observer", "toDuel", "unready"} : Command(c, what)
      BY <1>2 DEF Commands
    <2>2. queue' \in [Room -> Seq(Entry)]
      BY <2>1, <1>b, Appended DEF Command, Entry
    <2> QED BY <2>1, <2>2 DEF Command, Types, JoinTypes
  <1>3. ASSUME NEW c \in Conn, UpdateDeck(c)
        PROVE  JoinTypes'
    <2>1. building[c] + 1 \in 0 .. MaxAsked
      BY <1>3, <1>b, Basics DEF UpdateDeck, Types, JoinTypes
    <2> QED BY <1>3, <2>1 DEF UpdateDeck, Types, JoinTypes
  <1>4. ASSUME NEW c \in Conn, DeckBuilt(c)
        PROVE  JoinTypes'
    <2>1. building[c] \in 0 .. MaxAsked /\ building[c] > 0 /\ MaxAsked \in Nat
      BY <1>4, Basics DEF DeckBuilt, Types, JoinTypes
    <2>2. building[c] - 1 \in 0 .. MaxAsked
      BY <2>1
    <2>3. home[c] \in Room
      BY <2>1, Basics DEF HomesInv
    <2>4. queue' \in [Room -> Seq(Entry)]
      <3>1. CASE queue' = queue
        BY <3>1 DEF Types, JoinTypes
      <3>2. CASE queue' = [queue EXCEPT ![home[c]] = Append(@, [what |-> "deck", who |-> c])]
        BY <2>3, <3>2, Appended DEF Entry
      <3> QED BY <1>4, <3>1, <3>2 DEF DeckBuilt
    <2> QED BY <1>4, <2>2, <2>4 DEF DeckBuilt, Types, JoinTypes
  <1>5. ASSUME NEW c \in Conn, TryStart(c)
        PROVE  JoinTypes'
    BY <1>5 DEF TryStart, Types, JoinTypes
  <1>6. ASSUME NEW c \in Conn, Disconnect(c)
        PROVE  JoinTypes'
    <2>1. queue' \in [Room -> Seq(Entry)]
      <3>1. CASE queue' = queue
        BY <3>1 DEF Types, JoinTypes
      <3>2. CASE Client(c) /\ queue' = PlayerLeave(home[c], c)
        BY <3>2, Basics, Appended DEF Client, PlayerLeave, Entry
      <3> QED BY <1>6, <3>1, <3>2 DEF Disconnect
    <2>2. closed' = closed \cup {c} \/ (Client(c) /\ closed' = closed \cup players[home[c]] \cup stands[home[c]] \cup {c})
      BY <1>6 DEF Disconnect, Finalize
    <2>3. closed' \subseteq Conn
      BY <2>2, Basics DEF Client, Types, JoinTypes, SeatTypes
    <2> QED BY <1>6, <2>1, <2>3 DEF Disconnect, Types, JoinTypes
  <1>7. ASSUME NEW r \in DOMAIN rooms, Serves(r)
        PROVE  JoinTypes'
    <2>1. r \in Room /\ Frame(r)
      BY <1>7, <1>a, SectionsServe
    <2>2. queue' \in [Room -> Seq(Entry)] /\ Heads(r) \in Conn
      BY <2>1, PoppedEntries DEF Frame
    <2>3. closed' \subseteq closed \cup {Heads(r)}
      BY <1>7 DEF Serves, Admit, Admission, SeatPlayer, SeatSpectator, TurnAway, Refuse, AdmitStale, Return, ToObserver, ToDuel,
                  SetDeck, NotReady, RunLeave
    <2>4. \/ at' = at
          \/ \E to \in {"seated", "watching", "resumed", "refused", "unheard"} : at' = [at EXCEPT ![Heads(r)] = to]
      BY <1>7 DEF Serves, Admit, Admission, SeatPlayer, SeatSpectator, TurnAway, Refuse, AdmitStale, Return, ToObserver, ToDuel,
                  ToStands, FromStands, ToOtherCell, Stay, SetDeck, NotReady, RunLeave
    <2> QED BY <2>1, <2>2, <2>3, <2>4 DEF Frame, Types, JoinTypes
  <1>8. ASSUME NEW r \in DOMAIN rooms, Rest(r)
        PROVE  JoinTypes'
    BY <1>8, <1>a DEF Rest, BotCalled, BotUnreachable, MatchEnds, DuelBreaks, Finalize, Types, JoinTypes, SeatTypes
  <1>9. CASE UNCHANGED vars
    BY <1>9 DEF vars, Types, JoinTypes
  <1> QED BY <1>1, <1>2, <1>3, <1>4, <1>5, <1>6, <1>7, <1>8, <1>9, Steps

-----------------------------------------------------------------------------
(* The entries of the queues. *)

EntryOK(r, i) ==
  LET e == queue[r][i]
  IN  /\ home[e.who] = r
      /\ e.what \in {"admit", "return"} =>
           at[e.who] = "queued" /\ \A j \in DOMAIN queue[r] : queue[r][j].who = e.who => j = i
      /\ e.what \notin {"admit", "return"} => ~Pending(e.who)
      /\ e.what = "return" => who[e.who].way # "invite"

LEMMA EntriesKeptBySections ==
  ASSUME Types, EntriesInv, NEW r \in Room, Frame(r)
  PROVE  EntriesInv' /\ \A s \in Room : \A i \in DOMAIN queue'[s] :
                          Head(queue[r]).what \in {"admit", "return"} => queue'[s][i].who # Heads(r)
  <1>1. /\ \A i \in DOMAIN queue'[r] : i + 1 \in DOMAIN queue[r] /\ i + 1 # 1 /\ queue'[r][i] = queue[r][i + 1]
        /\ \A s \in Room \ {r} : queue'[s] = queue[s]
        /\ 1 \in DOMAIN queue[r] /\ queue[r][1] = Head(queue[r]) /\ queue' \in [Room -> Seq(Entry)]
    BY PoppedEntries DEF Frame
  <1>2. UNCHANGED <<who, home>> /\ Served(r)
    BY DEF Frame
  <1>3. \A s \in Room : \A i \in DOMAIN queue'[s] : queue'[s][i].who \in Conn /\ i \in Nat
    <2>1. \A s \in Room : queue'[s] \in Seq(Entry)
      BY <1>1
    <2>2. \A s \in Room : \A i \in DOMAIN queue'[s] : queue'[s][i] \in Entry /\ i \in Nat
      BY <2>1
    <2> QED BY <2>2 DEF Entry
  <1>4. Head(queue[r]).what \in {"admit", "return"} => home[Heads(r)] = r /\ at[Heads(r)] = "queued"
    BY <1>1 DEF EntriesInv, Heads
  <1>5. ASSUME NEW s \in Room, NEW i \in DOMAIN queue'[s], Head(queue[r]).what \in {"admit", "return"},
               queue'[s][i].who = Heads(r)
        PROVE  FALSE
    <2>1. CASE s = r
      <3>1. i + 1 \in DOMAIN queue[r] /\ i + 1 # 1 /\ queue[r][i + 1].who = queue[r][1].who
        BY <1>1, <1>5, <2>1 DEF Heads
      <3> QED BY <1>1, <1>5, <3>1 DEF EntriesInv
    <2>2. CASE s # r
      <3>1. i \in DOMAIN queue[s] /\ queue[s][i].who = Heads(r)
        BY <1>1, <1>5, <2>2
      <3> QED BY <1>4, <1>5, <2>2, <3>1 DEF EntriesInv
    <2> QED BY <2>1, <2>2
  <1>6. ASSUME NEW s \in Room, NEW i \in DOMAIN queue'[s], NEW k \in DOMAIN queue[s],
               queue'[s][i] = queue[s][k], \A j \in DOMAIN queue'[s] :
                  \E m \in DOMAIN queue[s] : queue'[s][j] = queue[s][m] /\ (m = k => j = i)
        PROVE  EntryOK(s, i)'
    <2> DEFINE e == queue[s][k]
    <2>1. e.who \in Conn /\ queue'[s][i] = e
      BY <1>3, <1>6
    <2>2. /\ home[e.who] = s
          /\ e.what \in {"admit", "return"} =>
               at[e.who] = "queued" /\ \A j \in DOMAIN queue[s] : queue[s][j].who = e.who => j = k
          /\ e.what \notin {"admit", "return"} => ~Pending(e.who)
          /\ e.what = "return" => who[e.who].way # "invite"
      BY DEF EntriesInv
    <2>3. e.what \in {"admit", "return"} => at'[e.who] = "queued"
      <3>1. CASE Head(queue[r]).what \in {"admit", "return"}
        BY <1>2, <1>5, <1>6, <2>1, <2>2, <3>1 DEF Served, Pending
      <3>2. CASE Head(queue[r]).what \notin {"admit", "return"}
        BY <1>2, <2>1, <2>2, <3>2 DEF Served, Pending
      <3> QED BY <3>1, <3>2
    <2>4. e.what \notin {"admit", "return"} => at'[e.who] \notin {"out", "queued"}
      BY <1>2, <2>1, <2>2 DEF Served, Pending
    <2>5. e.what \in {"admit", "return"} => \A j \in DOMAIN queue'[s] : queue'[s][j].who = e.who => j = i
      BY <1>6, <2>2
    <2> QED BY <1>2, <2>1, <2>2, <2>3, <2>4, <2>5 DEF EntryOK, Pending
  <1>7. ASSUME NEW s \in Room, NEW i \in DOMAIN queue'[s]
        PROVE  EntryOK(s, i)'
    <2>1. CASE s = r
      <3>1. i + 1 \in DOMAIN queue[s] /\ queue'[s][i] = queue[s][i + 1]
        BY <1>1, <2>1
      <3>2. \A j \in DOMAIN queue'[s] :
              \E m \in DOMAIN queue[s] : queue'[s][j] = queue[s][m] /\ (m = i + 1 => j = i)
        <4>1. \A j \in DOMAIN queue'[s] : j + 1 \in DOMAIN queue[s] /\ queue'[s][j] = queue[s][j + 1] /\ (j + 1 = i + 1 => j = i)
          BY <1>1, <1>3, <2>1
        <4> QED BY <4>1
      <3> QED BY <1>6, <3>1, <3>2
    <2>2. CASE s # r
      BY <1>1, <1>6, <2>2
    <2> QED BY <2>1, <2>2
  <1>8. EntriesInv'
    BY <1>7 DEF EntriesInv, EntryOK
  <1> QED BY <1>5, <1>8

LEMMA EntriesKeptByAppend ==
  ASSUME Types, EntriesInv, NEW r \in Room, NEW e \in Entry,
         queue' = [queue EXCEPT ![r] = Append(@, e)], who' = who,
         \A d \in Conn : d # e.who => at'[d] = at[d] /\ home'[d] = home[d],
         home'[e.who] = r,
         \/ /\ e.what \in {"admit", "return"} /\ at[e.who] = "out" /\ at'[e.who] = "queued"
            /\ e.what = "return" => who[e.who].way # "invite"
         \/ e.what \notin {"admit", "return"} /\ ~Pending(e.who) /\ at'[e.who] = at[e.who] /\ home'[e.who] = home[e.who]
  PROVE  EntriesInv'
  <1>1. /\ \A i \in DOMAIN queue'[r] : \/ i \in DOMAIN queue[r] /\ queue'[r][i] = queue[r][i]
                                       \/ i = Len(queue[r]) + 1 /\ queue'[r][i] = e
        /\ \A s \in Room \ {r} : queue'[s] = queue[s]
    BY Appended
  <1>2. \A s \in Room : \A i \in DOMAIN queue[s] : queue[s][i].who \in Conn
    BY Basics
  <1>3. ASSUME NEW s \in Room, NEW i \in DOMAIN queue'[s], i \in DOMAIN queue[s], queue'[s][i] = queue[s][i]
        PROVE  EntryOK(s, i)'
    <2> DEFINE f == queue[s][i]
    <2>1. /\ home[f.who] = s
          /\ f.what \in {"admit", "return"} =>
               at[f.who] = "queued" /\ \A j \in DOMAIN queue[s] : queue[s][j].who = f.who => j = i
          /\ f.what \notin {"admit", "return"} => ~Pending(f.who)
          /\ f.what = "return" => who[f.who].way # "invite"
      BY <1>3 DEF EntriesInv
    <2>2. f.what \in {"admit", "return"} => f.who # e.who
      BY <2>1 DEF Pending
    <2>3. f.what \notin {"admit", "return"} => at'[f.who] = at[f.who] /\ home'[f.who] = home[f.who]
      BY <1>2, <1>3, <2>1 DEF Pending
    <2>4. f.what \in {"admit", "return"} => \A j \in DOMAIN queue'[s] : queue'[s][j].who = f.who => j = i
      BY <1>1, <2>1, <2>2
    <2>5. f.what \in {"admit", "return"} => at'[f.who] = at[f.who] /\ home'[f.who] = home[f.who]
      BY <1>2, <1>3, <2>2
    <2> HIDE DEF f
    <2> QED BY <1>3, <2>1, <2>3, <2>4, <2>5 DEF EntryOK, Pending, f
  <1>4. ASSUME NEW i \in DOMAIN queue'[r], i = Len(queue[r]) + 1, queue'[r][i] = e
        PROVE  EntryOK(r, i)'
    <2>1. e.what \in {"admit", "return"} => \A j \in DOMAIN queue[r] : queue[r][j].who # e.who
      BY DEF EntriesInv, Pending
    <2>2. e.what \in {"admit", "return"} => \A j \in DOMAIN queue'[r] : queue'[r][j].who = e.who => j = i
      BY <1>1, <1>4, <2>1
    <2> QED BY <1>4, <2>2 DEF EntryOK, Pending
  <1>5. \A s \in Room : \A i \in DOMAIN queue'[s] : EntryOK(s, i)'
    BY <1>1, <1>3, <1>4
  <1> QED BY <1>5 DEF EntriesInv, EntryOK

LEMMA EntriesKept ==
  ASSUME Types, EntriesInv, HomesInv, [Next]_vars
  PROVE  EntriesInv'
  <1>a. DOMAIN rooms \subseteq Room /\ \A s \in Room : \A i \in DOMAIN queue[s] : queue[s][i].who \in Conn
    BY Basics
  <1>1. ASSUME NEW c \in Conn, Doors(c)
        PROVE  EntriesInv'
    <2>1. Arrival(c)
      BY <1>1, DoorsArrive
    <2>2. CASE Turned(c)
      <3>1. \A s \in Room : \A i \in DOMAIN queue[s] : at'[queue[s][i].who] = at[queue[s][i].who]
        BY <1>a, <2>1, <2>2 DEF Arrival, Turned, EntriesInv, Pending, Types, JoinTypes
      <3>2. who' = who /\ home' = home /\ queue' = queue
        BY <2>1, <2>2 DEF Arrival, Turned
      <3> QED BY <3>1, <3>2 DEF EntriesInv, Pending
    <2>3. ASSUME NEW r \in Room, NEW there \in {"admit", "return"}, Entered(c, r, there)
          PROVE  EntriesInv'
      <3> DEFINE e == [what |-> there, who |-> c]
      <3>1. e \in Entry /\ e.who = c /\ e.what = there
        BY DEF Entry
      <3>2. /\ queue' = [queue EXCEPT ![r] = Append(@, e)] /\ who' = who
            /\ at[c] = "out" /\ at'[c] = "queued" /\ home'[c] = r
            /\ \A d \in Conn : d # c => at'[d] = at[d] /\ home'[d] = home[d]
            /\ there = "return" => who[c].way # "invite"
        BY <2>1, <2>3 DEF Arrival, Entered, Types, JoinTypes
      <3> HIDE DEF e
      <3> QED BY <3>1, <3>2, EntriesKeptByAppend
    <2> QED BY <2>1, <2>2, <2>3 DEF Arrival
  <1>2. ASSUME NEW c \in Conn, NEW what \in {"observer", "toDuel", "unready", "deck", "leave"}, home[c] # None, ~Pending(c),
               queue' = [queue EXCEPT ![home[c]] = Append(@, [what |-> what, who |-> c])], UNCHANGED <<who, at, home>>
        PROVE  EntriesInv'
    <2> DEFINE e == [what |-> what, who |-> c]
    <2>1. e \in Entry /\ e.who = c /\ e.what = what /\ home[c] \in Room
      BY <1>2, Basics DEF Entry
    <2>2. queue' = [queue EXCEPT ![home[c]] = Append(@, e)]
      BY <1>2
    <2> HIDE DEF e
    <2> QED BY <1>2, <2>1, <2>2, EntriesKeptByAppend
  <1>3. ASSUME UNCHANGED <<who, at, home, queue>>
        PROVE  EntriesInv'
    BY <1>3 DEF EntriesInv, Pending
  <1>b. \A c \in Conn : Client(c) => home[c] # None /\ ~Pending(c)
    BY Basics DEF Client, HomesInv
  <1>4. ASSUME NEW c \in Conn, Commands(c)
        PROVE  EntriesInv'
    BY <1>4, <1>b, <1>2 DEF Commands, Command, Heard
  <1>5. ASSUME NEW c \in Conn, UpdateDeck(c) \/ TryStart(c)
        PROVE  EntriesInv'
    BY <1>5, <1>3 DEF UpdateDeck, TryStart
  <1>6. ASSUME NEW c \in Conn, DeckBuilt(c)
        PROVE  EntriesInv'
    <2>1. home[c] # None /\ ~Pending(c) /\ UNCHANGED <<who, at, home>>
      BY <1>6 DEF DeckBuilt, HomesInv
    <2> QED BY <1>6, <2>1, <1>2, <1>3 DEF DeckBuilt
  <1>7. ASSUME NEW c \in Conn, Disconnect(c)
        PROVE  EntriesInv'
    <2>1. UNCHANGED <<who, at, home>>
      BY <1>7 DEF Disconnect
    <2>2. queue' = queue \/ (Client(c) /\ queue' = PlayerLeave(home[c], c))
      BY <1>7 DEF Disconnect
    <2> QED BY <1>b, <1>2, <1>3, <2>1, <2>2 DEF PlayerLeave
  <1>8. ASSUME NEW r \in DOMAIN rooms, Serves(r)
        PROVE  EntriesInv'
    BY <1>a, <1>8, SectionsServe, EntriesKeptBySections
  <1>9. ASSUME NEW r \in DOMAIN rooms, Rest(r)
        PROVE  EntriesInv'
    BY <1>9, <1>3 DEF Rest, BotCalled, BotUnreachable, MatchEnds, DuelBreaks
  <1>10. CASE UNCHANGED vars
    BY <1>10, <1>3 DEF vars
  <1> QED BY <1>1, <1>4, <1>5, <1>6, <1>7, <1>8, <1>9, <1>10, Steps

-----------------------------------------------------------------------------
(* Homes, and the clients of a room. *)

\* The three ways a section ends for the connection it is of.
Seated(r, c, seat, credential) == SeatPlayer(r, c, seat, credential) /\ seat \in FreeSeats(r) /\ AdmitsAsPlayer(rooms[r].league, credential)
Stood(r, c) == \E credential \in {"guest", "verified", "external"} : SeatSpectator(r, c, credential)

LEMMA Head1 ==
  ASSUME Types, EntriesInv, HomesInv, NEW r \in DOMAIN rooms, Serves(r)
  PROVE  /\ r \in Room /\ Heads(r) \in Conn /\ home[Heads(r)] = r
         /\ Head(queue[r]).what \in {"admit", "return"} =>
              /\ at[Heads(r)] = "queued" /\ Heads(r) \notin host
              /\ \A s \in Room : Heads(r) \notin players[s] \cup stands[s]
  <1>1. r \in Room /\ Popped(r)
    BY SectionsServe, Basics DEF Frame
  <1>2. 1 \in DOMAIN queue[r] /\ queue[r][1] = Head(queue[r]) /\ Heads(r) \in Conn
    BY <1>1, PoppedEntries
  <1>3. home[Heads(r)] = r /\ (Head(queue[r]).what \in {"admit", "return"} => at[Heads(r)] = "queued")
    BY <1>1, <1>2 DEF EntriesInv, Heads
  <1> QED BY <1>1, <1>2, <1>3 DEF HomesInv, Pending

\* Admissions, in the terms the invariants are about.
LEMMA AdmissionEnds ==
  ASSUME Types, NEW r \in Room, Admit(r) \/ AdmitStale(r) \/ Return(r)
  PROVE  /\ Head(queue[r]).what \in {"admit", "return"}
         /\ \/ \E seat \in Seat, credential \in {"guest", "verified", "external"} : Seated(r, Heads(r), seat, credential)
            \/ Stood(r, Heads(r))
            \/ UNCHANGED seats
  <1>1. Head(queue[r]).what \in {"admit", "return"}
    BY DEF Admit, AdmitStale, Return, Section
  <1>2. ASSUME NEW credential \in {"guest", "verified", "external"}, Admission(r, Heads(r), credential)
        PROVE  \/ \E seat \in Seat : Seated(r, Heads(r), seat, credential)
               \/ Stood(r, Heads(r)) \/ UNCHANGED seats
    <2>1. CASE TurnAway(Heads(r))
      BY <2>1 DEF TurnAway
    <2>2. CASE SeatSpectator(r, Heads(r), credential)
      BY <2>2 DEF Stood
    <2>3. CASE /\ Decide(rooms[r].league, credential, SeatOffer(r, Heads(r))) = "player"
               /\ SeatPlayer(r, Heads(r), First(SeatOffer(r, Heads(r))), credential)
      <3>1. AdmitsAsPlayer(rooms[r].league, credential) /\ SeatOffer(r, Heads(r)) # {} /\ SeatOffer(r, Heads(r)) = FreeSeats(r)
        BY <2>3 DEF Decide, SeatOffer
      <3>2. First(FreeSeats(r)) \in FreeSeats(r) /\ First(FreeSeats(r)) \in Seat
        BY <3>1, FirstSeat DEF FreeSeats
      <3> QED BY <2>3, <3>1, <3>2 DEF Seated
    <2> QED BY <1>2, <2>1, <2>2, <2>3 DEF Admission
  <1>3. CASE Admit(r)
    <2>1. Lookups(Heads(r)) \subseteq {"guest", "verified", "external"}
      BY DEF Lookups
    <2> QED BY <1>1, <1>2, <1>3, <2>1 DEF Admit
  <1>4. CASE AdmitStale(r)
    BY <1>1, <1>4 DEF AdmitStale
  <1>5. CASE Return(r)
    BY <1>1, <1>5 DEF Return, Stood
  <1> QED BY <1>3, <1>4, <1>5

LEMMA SectionClients ==
  ASSUME Types, EntriesInv, HomesInv, NEW r \in DOMAIN rooms, Serves(r)
  PROVE  /\ \A s \in Room \ {r} : players'[s] = players[s] /\ stands'[s] = stands[s]
         /\ \A d \in players'[r] \cup stands'[r] :
               d \in players[r] \cup stands[r] \/ (d = Heads(r) /\ at'[d] \in {"seated", "watching"})
         /\ \A d \in host' : d \in host \/ (d = Heads(r) /\ at'[d] = "seated")
  <1>1. r \in Room /\ Heads(r) \in Conn
    BY Head1
  <1>2. CASE Admit(r) \/ AdmitStale(r) \/ Return(r)
    <2>1. CASE \E seat \in Seat, credential \in {"guest", "verified", "external"} : Seated(r, Heads(r), seat, credential)
      BY <1>1, <2>1 DEF Seated, SeatPlayer, Types, SeatTypes, JoinTypes
    <2>2. CASE Stood(r, Heads(r))
      BY <1>1, <2>2 DEF Stood, SeatSpectator, Types, SeatTypes, JoinTypes
    <2>3. CASE UNCHANGED seats
      BY <1>1, <2>3 DEF seats
    <2> QED BY <1>1, <1>2, <2>1, <2>2, <2>3, AdmissionEnds
  <1>3. CASE ToObserver(r)
    BY <1>1, <1>3 DEF ToObserver, ToStands, Stay, Types, SeatTypes, JoinTypes
  <1>4. CASE ToDuel(r)
    BY <1>1, <1>4 DEF ToDuel, FromStands, ToOtherCell, Stay, Types, SeatTypes, JoinTypes
  <1>5. CASE SetDeck(r) \/ NotReady(r) \/ RunLeave(r)
    BY <1>1, <1>5 DEF SetDeck, NotReady, RunLeave, Types, SeatTypes, JoinTypes
  <1> QED BY <1>2, <1>3, <1>4, <1>5 DEF Serves

LEMMA HomesKept ==
  ASSUME Types, EntriesInv, HomesInv, [Next]_vars
  PROVE  HomesInv'
  <1>a. \A c \in Conn : Client(c) => home[c] # None /\ ~Pending(c)
    BY Basics DEF Client, HomesInv
  <1>1. ASSUME NEW c \in Conn, Doors(c)
        PROVE  HomesInv'
    <2>1. Arrival(c)
      BY <1>1, DoorsArrive
    <2>2. at[c] = "out" /\ UNCHANGED <<players, stands, host, building>>
      BY <2>1 DEF Arrival, seats
    <2>3. home[c] = None /\ ~(building[c] > 0) /\ c \notin host /\ \A r \in Room : c \notin players[r] \cup stands[r]
      BY <2>2 DEF HomesInv, Pending
    <2>4. CASE Turned(c)
      BY <2>2, <2>3, <2>4 DEF Turned, HomesInv, Pending, Types, JoinTypes, SeatTypes
    <2>5. ASSUME NEW r \in Room, NEW there \in {"admit", "return"}, Entered(c, r, there)
          PROVE  HomesInv'
      <3>1. r \in DOMAIN rooms' /\ DOMAIN rooms \subseteq DOMAIN rooms'
        <4>1. rooms \in Seq(RoomRecord) /\ DOMAIN rooms = 1 .. Len(rooms) /\ Len(rooms) \in Nat
          BY Basics DEF Types, RoomTypes
        <4>2. ASSUME NEW room \in RoomRecord, rooms' = Append(rooms, room)
              PROVE  DOMAIN rooms' = 1 .. Len(rooms) + 1
          BY <4>1, <4>2, AppendProperties
        <4> QED BY <2>5, <4>1, <4>2 DEF Entered
      <3>2. /\ \A d \in Conn \ {c} : at'[d] = at[d] /\ home'[d] = home[d]
            /\ at'[c] = "queued" /\ home'[c] = r
        BY <2>5 DEF Entered, Types, JoinTypes
      <3> QED BY <2>2, <2>3, <3>1, <3>2 DEF HomesInv, Pending, Types, SeatTypes
    <2> QED BY <2>1, <2>4, <2>5 DEF Arrival
  <1>2. ASSUME UNCHANGED <<at, home, rooms, host, building>>,
               \A r \in Room : players'[r] \cup stands'[r] \subseteq players[r] \cup stands[r]
        PROVE  HomesInv'
    BY <1>2 DEF HomesInv, Pending
  <1>3. ASSUME NEW c \in Conn, Commands(c) \/ TryStart(c)
        PROVE  HomesInv'
    BY <1>3, <1>2 DEF Commands, Command, TryStart, seats, roomVars
  <1>4. ASSUME NEW c \in Conn, UpdateDeck(c)
        PROVE  HomesInv'
    <2>1. UNCHANGED <<at, home, rooms, host, players, stands>> /\ \A d \in Conn \ {c} : building'[d] = building[d]
      BY <1>4 DEF UpdateDeck, seats, roomVars, Types, JoinTypes
    <2> QED BY <1>4, <1>a, <2>1 DEF UpdateDeck, Heard, HomesInv, Pending
  <1>5. ASSUME NEW c \in Conn, DeckBuilt(c)
        PROVE  HomesInv'
    <2>1. UNCHANGED <<at, home, rooms, host, players, stands>> /\ \A d \in Conn \ {c} : building'[d] = building[d]
      BY <1>5 DEF DeckBuilt, roomVars, Types, JoinTypes
    <2> QED BY <1>5, <2>1 DEF DeckBuilt, HomesInv, Pending
  <1>6. ASSUME NEW c \in Conn, Disconnect(c)
        PROVE  HomesInv'
    <2>1. \A r \in Room : stands'[r] \subseteq stands[r]
      BY <1>6 DEF Disconnect, Types, SeatTypes
    <2> QED BY <1>2, <1>6, <2>1 DEF Disconnect
  <1>7. ASSUME NEW r \in DOMAIN rooms, Serves(r)
        PROVE  HomesInv'
    <2>1. Frame(r) /\ r \in Room /\ home[Heads(r)] = r
      BY <1>7, SectionsServe, Head1
    <2>2. /\ \A s \in Room \ {r} : players'[s] = players[s] /\ stands'[s] = stands[s]
          /\ \A d \in players'[r] \cup stands'[r] :
               d \in players[r] \cup stands[r] \/ (d = Heads(r) /\ at'[d] \in {"seated", "watching"})
          /\ \A d \in host' : d \in host \/ (d = Heads(r) /\ at'[d] = "seated")
      BY <1>7, SectionClients
    <2>3. UNCHANGED <<home, rooms, building>> /\ \A c \in Conn : ~Pending(c) => ~Pending(c)'
      BY <2>1 DEF Frame, Served, Pending
    <2>4. \A c \in Conn : at'[c] = "out" => at[c] = "out"
      BY <2>1 DEF Frame, Served
    <2>5. \A c \in Conn : at'[c] \in {"seated", "watching"} => ~Pending(c)'
      BY DEF Pending
    <2>6. \A s \in Room : \A c \in players'[s] \cup stands'[s] : c \in Conn
      BY <1>7, SeatTypesKept, Steps, <2>1, <2>2, Head1 DEF Types, SeatTypes
    <2>7. \A c \in Conn : /\ at'[c] = "out" => home'[c] = None
                          /\ home'[c] # None => home'[c] \in DOMAIN rooms'
                          /\ building'[c] > 0 => home'[c] # None /\ ~Pending(c)'
                          /\ c \in host' => ~Pending(c)'
      BY <2>2, <2>3, <2>4, <2>5 DEF HomesInv
    <2>8. \A s \in Room : \A c \in players'[s] \cup stands'[s] : home'[c] = s /\ ~Pending(c)'
      BY <2>1, <2>2, <2>3, <2>5, <2>6 DEF HomesInv
    <2> QED BY <2>7, <2>8 DEF HomesInv
  <1>8. ASSUME NEW r \in DOMAIN rooms, Rest(r)
        PROVE  HomesInv'
    BY <1>8, <1>2 DEF Rest, BotCalled, BotUnreachable, MatchEnds, DuelBreaks, seats, roomVars
  <1>9. CASE UNCHANGED vars
    BY <1>9, <1>2 DEF vars, seats, roomVars
  <1> QED BY <1>1, <1>3, <1>4, <1>5, <1>6, <1>7, <1>8, <1>9, Steps

-----------------------------------------------------------------------------
(* Cells, hosts and leagues. *)

\* A step that seats nobody.
Unmoved ==
  /\ UNCHANGED <<pos, host, cred>>
  /\ \A r \in Room : players'[r] \subseteq players[r] /\ stands'[r] \subseteq stands[r]

LEMMA OthersUnmoved ==
  ASSUME Types, EntriesInv, HomesInv, [Next]_vars
  PROVE  \/ Unmoved
         \/ \E r \in DOMAIN rooms : Admit(r) \/ AdmitStale(r) \/ Return(r) \/ ToObserver(r) \/ ToDuel(r)
  <1>1. ASSUME NEW c \in Conn, Doors(c)
        PROVE  Unmoved
    BY <1>1, DoorsArrive DEF Arrival, seats, Unmoved
  <1>2. ASSUME NEW c \in Conn, Commands(c) \/ UpdateDeck(c) \/ DeckBuilt(c) \/ TryStart(c)
        PROVE  Unmoved
    BY <1>2 DEF Commands, Command, UpdateDeck, DeckBuilt, TryStart, seats, Unmoved
  <1>3. ASSUME NEW c \in Conn, Disconnect(c)
        PROVE  Unmoved
    BY <1>3 DEF Disconnect, Unmoved, Types, SeatTypes
  <1>4. ASSUME NEW r \in DOMAIN rooms, Rest(r)
        PROVE  Unmoved
    BY <1>4 DEF Rest, BotCalled, BotUnreachable, MatchEnds, DuelBreaks, seats, Unmoved
  <1>5. ASSUME NEW r \in DOMAIN rooms, SetDeck(r) \/ NotReady(r) \/ RunLeave(r)
        PROVE  Unmoved
    BY <1>5 DEF SetDeck, NotReady, RunLeave, Unmoved, Types, SeatTypes
  <1>6. CASE UNCHANGED vars
    BY <1>6 DEF vars, seats, Unmoved
  <1> QED BY <1>1, <1>2, <1>3, <1>4, <1>5, <1>6, Steps DEF Serves

LEMMA CellsKept ==
  ASSUME Types, EntriesInv, HomesInv, CellsInv, [Next]_vars
  PROVE  CellsInv'
  <1>1. CASE Unmoved
    BY <1>1 DEF Unmoved, CellsInv
  <1>2. ASSUME NEW r \in DOMAIN rooms, Admit(r) \/ AdmitStale(r) \/ Return(r)
        PROVE  CellsInv'
    <2> DEFINE c == Heads(r)
    <2>1. /\ r \in Room /\ c \in Conn
          /\ c \notin host /\ \A s \in Room : c \notin players[s] \cup stands[s]
      BY <1>2, Head1, AdmissionEnds, Basics DEF Serves
    <2>2. ASSUME NEW seat \in Seat, NEW credential, Seated(r, c, seat, credential)
          PROVE  CellsInv'
      <3>1. /\ players'[r] = players[r] \cup {c} /\ \A s \in Room \ {r} : players'[s] = players[s]
            /\ stands' = stands /\ pos'[c] = seat /\ \A d \in Conn \ {c} : pos'[d] = pos[d]
            /\ host' = IF players[r] \cap host = {} THEN host \cup {c} ELSE host
        BY <2>1, <2>2 DEF Seated, SeatPlayer, Types, SeatTypes
      <3>2. \A p \in players[r] : pos[p] # seat
        BY <2>2 DEF Seated, FreeSeats
      <3>3. \A s \in Room : players[s] \subseteq Conn \ {c} /\ stands[s] \subseteq Conn \ {c}
        BY <2>1 DEF Types, SeatTypes
      <3> HIDE DEF c
      <3>4. \A s \in Room : \A p \in players'[s] : pos'[p] \in Seat
        BY <3>1, <3>3 DEF CellsInv
      <3>5. \A s \in Room : \A p, q \in players'[s] : p # q => pos'[p] # pos'[q]
        BY <3>1, <3>2, <3>3 DEF CellsInv
      <3>6. \A s \in Room : \A p, q \in players'[s] : p # q => ~({p, q} \subseteq host')
        BY <3>1, <3>3, <2>1 DEF CellsInv
      <3>7. \A d \in host' : pos'[d] # Observer
        BY <3>1, <2>1 DEF CellsInv, Types, SeatTypes, Seat, Observer
      <3> QED BY <3>4, <3>5, <3>6, <3>7 DEF CellsInv
    <2>3. ASSUME NEW credential, SeatSpectator(r, c, credential)
          PROVE  CellsInv'
      <3>1. /\ stands'[r] = stands[r] \cup {c} /\ \A s \in Room \ {r} : stands'[s] = stands[s]
            /\ players' = players /\ host' = host /\ \A d \in Conn \ {c} : pos'[d] = pos[d]
        BY <2>1, <2>3 DEF SeatSpectator, Types, SeatTypes
      <3>2. \A s \in Room : players[s] \subseteq Conn \ {c} /\ stands[s] \subseteq Conn \ {c}
        BY <2>1 DEF Types, SeatTypes
      <3>3. host \subseteq Conn
        BY DEF Types, SeatTypes
      <3> HIDE DEF c
      <3> QED BY <3>1, <3>2, <3>3, <2>1 DEF CellsInv
    <2>4. CASE UNCHANGED seats
      BY <2>4 DEF seats, CellsInv
    <2> QED BY <1>2, <2>1, <2>2, <2>3, <2>4, AdmissionEnds DEF Stood
  <1>3. ASSUME NEW r \in DOMAIN rooms, ToObserver(r)
        PROVE  CellsInv'
    <2> DEFINE c == Heads(r)
    <2>1. r \in Room /\ c \in Conn
      BY <1>3, Head1 DEF Serves
    <2>2. CASE Stay
      BY <1>3, <2>2 DEF ToObserver, Stay, CellsInv
    <2>3. CASE c \notin host /\ ToStands(r, c)
      <3>1. /\ players'[r] = players[r] \ {c} /\ \A s \in Room \ {r} : players'[s] = players[s] /\ stands'[s] = stands[s]
            /\ stands'[r] = stands[r] \cup {c} /\ host' = host /\ \A d \in Conn \ {c} : pos'[d] = pos[d]
        BY <1>3, <2>1, <2>3 DEF ToObserver, ToStands, Types, SeatTypes
      <3>2. \A s \in Room \ {r} : c \notin players[s]
        BY <1>3, <2>1, Head1 DEF HomesInv, Serves
      <3>3. \A s \in Room : players'[s] \subseteq players[s] \ {c} /\ players[s] \subseteq Conn /\ host \subseteq Conn
        BY <3>1, <3>2 DEF Types, SeatTypes
      <3> HIDE DEF c
      <3>4. \A s \in Room : \A p \in players'[s] : p \in players[s] /\ pos'[p] = pos[p]
        BY <3>1, <3>3
      <3>5. \A d \in host' : pos'[d] # Observer
        <4>1. \A d \in host : d \in Conn \ {c} /\ pos[d] # Observer
          BY <2>1, <3>3, <2>3 DEF CellsInv
        <4> QED BY <3>1, <4>1
      <3> QED BY <3>1, <3>4, <3>5 DEF CellsInv
    <2> QED BY <1>3, <2>2, <2>3 DEF ToObserver
  <1>4. ASSUME NEW r \in DOMAIN rooms, ToDuel(r)
        PROVE  CellsInv'
    <2> DEFINE c == Heads(r)
               seat == IF IsSpectator(c) THEN First(FreeSeats(r)) ELSE NextCell(r, pos[c])
    <2>1. r \in Room /\ c \in Conn /\ home[c] = r /\ host' = host
      BY <1>4, Head1 DEF Serves, ToDuel
    <2>2. CASE Stay
      BY <2>1, <2>2 DEF Stay, CellsInv
    <2>3. CASE /\ FreeSeats(r) # {}
               /\ (IsSpectator(c) /\ FromStands(r, c)) \/ (~IsSpectator(c) /\ ToOtherCell(r, c))
      <3>1. seat \in Seat /\ \A p \in players[r] : pos[p] # seat
        BY <2>1, <2>3, FreeSeat, NextSeat
      <3>2. \A s \in Room \ {r} : c \notin players[s]
        BY <2>1, <2>3 DEF HomesInv
      <3>3. /\ players'[r] \subseteq players[r] \cup {c} /\ \A s \in Room \ {r} : players'[s] = players[s]
            /\ \A s \in Room : stands'[s] \subseteq stands[s]
            /\ pos'[c] = seat /\ \A d \in Conn \ {c} : pos'[d] = pos[d]
        BY <2>1, <2>3 DEF FromStands, ToOtherCell, Types, SeatTypes
      <3>4. c \notin players[r] => c \notin host \/ players'[r] \subseteq players[r]
        BY <2>1, <2>3 DEF CellsInv, IsSpectator, ToOtherCell
      <3>5. host \subseteq Conn /\ \A s \in Room : players[s] \subseteq Conn
        BY DEF Types, SeatTypes
      <3> HIDE DEF c, seat
      <3>6. \A s \in Room : \A p \in players'[s] : pos'[p] \in Seat
        BY <3>1, <3>2, <3>3, <3>5 DEF CellsInv
      <3>7. \A s \in Room : \A p, q \in players'[s] : p # q => pos'[p] # pos'[q]
        BY <3>1, <3>2, <3>3, <3>5 DEF CellsInv
      <3>8. \A s \in Room : \A p, q \in players'[s] : p # q => ~({p, q} \subseteq host')
        BY <2>1, <3>3, <3>4 DEF CellsInv
      <3>9. \A d \in host' : pos'[d] # Observer
        BY <2>1, <3>1, <3>3, <3>5 DEF CellsInv, Seat, Observer
      <3> QED BY <3>6, <3>7, <3>8, <3>9 DEF CellsInv
    <2> QED BY <1>4, <2>2, <2>3 DEF ToDuel
  <1> QED BY <1>1, <1>2, <1>3, <1>4, OthersUnmoved

LEMMA LeagueKept ==
  ASSUME Types, EntriesInv, HomesInv, LeagueHolds, [Next]_vars
  PROVE  LeagueHolds'
  <1>a. /\ DOMAIN rooms \subseteq Room /\ \A r \in DOMAIN rooms : rooms'[r] = rooms[r]
        /\ DOMAIN rooms' \subseteq Room
    <2>1. DOMAIN rooms \subseteq Room /\ DOMAIN rooms = 1 .. Len(rooms) /\ Len(rooms) \in Nat /\ rooms \in Seq(RoomRecord)
      BY Basics DEF Types, RoomTypes
    <2>2. rooms' = rooms \/ \E c \in Conn : Doors(c)
      BY Steps, SectionsServe DEF Commands, Command, UpdateDeck, DeckBuilt, TryStart, Disconnect, Frame, Rest, BotCalled, BotUnreachable,
              MatchEnds, DuelBreaks, roomVars, vars
    <2>3. rooms' = rooms \/ \E room \in RoomRecord : rooms' = Append(rooms, room)
      BY <2>2, DoorsArrive DEF Arrival, Turned, Entered
    <2>4. \A r \in DOMAIN rooms : rooms'[r] = rooms[r]
      BY <2>1, <2>3, AppendProperties
    <2>5. DOMAIN rooms' \subseteq Room
      <3>1. rooms' \in Seq(RoomRecord)' /\ Len(rooms') <= MaxRooms
        BY RoomTypesKept DEF RoomTypes
      <3>2. DOMAIN rooms' = 1 .. Len(rooms') /\ Len(rooms') \in Nat
        BY <3>1
      <3> QED BY <3>1, <3>2, LobbyAssumption DEF Room
    <2> QED BY <2>1, <2>4, <2>5
  <1>b. \A r \in Room \ DOMAIN rooms : players[r] = {}
    BY LobbyAssumption DEF HomesInv, Types, SeatTypes
  <1>c. (\A r \in Room : \A p \in players'[r] :
           \/ p \in players[r] /\ cred'[p] = cred[p]
           \/ r \in DOMAIN rooms /\ AdmitsAsPlayer(rooms[r].league, cred'[p]))
        => LeagueHolds'
    BY <1>a, <1>b DEF LeagueHolds
  <1>1. CASE Unmoved
    BY <1>1, <1>c DEF Unmoved
  <1>2. ASSUME NEW r \in DOMAIN rooms, Admit(r) \/ AdmitStale(r) \/ Return(r)
        PROVE  LeagueHolds'
    <2> DEFINE c == Heads(r)
    <2>1. r \in Room /\ c \in Conn /\ \A s \in Room : c \notin players[s] /\ players[s] \subseteq Conn
      BY <1>2, Head1, AdmissionEnds DEF Serves, Types, SeatTypes
    <2>2. ASSUME NEW seat, NEW credential, Seated(r, c, seat, credential)
          PROVE  LeagueHolds'
      <3>1. /\ players'[r] = players[r] \cup {c} /\ \A s \in Room \ {r} : players'[s] = players[s]
            /\ cred'[c] = credential /\ \A d \in Conn \ {c} : cred'[d] = cred[d]
            /\ AdmitsAsPlayer(rooms[r].league, credential)
        BY <2>1, <2>2 DEF Seated, SeatPlayer, Types, SeatTypes
      <3> HIDE DEF c
      <3> QED BY <1>c, <2>1, <3>1
    <2>3. ASSUME NEW credential, SeatSpectator(r, c, credential)
          PROVE  LeagueHolds'
      <3>1. players' = players /\ \A d \in Conn \ {c} : cred'[d] = cred[d]
        BY <2>1, <2>3 DEF SeatSpectator, Types, SeatTypes
      <3> HIDE DEF c
      <3> QED BY <1>c, <2>1, <3>1
    <2>4. CASE UNCHANGED seats
      BY <1>c, <2>4 DEF seats
    <2> QED BY <1>2, <2>1, <2>2, <2>3, <2>4, AdmissionEnds DEF Stood
  <1>3. ASSUME NEW r \in DOMAIN rooms, ToObserver(r)
        PROVE  LeagueHolds'
    <2>1. cred' = cred /\ \A s \in Room : players'[s] \subseteq players[s]
      BY <1>3 DEF ToObserver, ToStands, Stay, Types, SeatTypes
    <2> QED BY <1>c, <2>1
  <1>4. ASSUME NEW r \in DOMAIN rooms, ToDuel(r)
        PROVE  LeagueHolds'
    <2>1. /\ cred' = cred /\ \A s \in Room \ {r} : players'[s] = players[s]
          /\ \A p \in players'[r] : p \in players[r] \/ AdmitsAsPlayer(rooms[r].league, cred[p])
      BY <1>4, <1>a DEF ToDuel, FromStands, ToOtherCell, Stay, Types, SeatTypes
    <2> QED BY <1>c, <2>1
  <1> QED BY <1>1, <1>2, <1>3, <1>4, OthersUnmoved

-----------------------------------------------------------------------------
(* Bots and their tokens. *)

LEMMA BotsKept ==
  ASSUME Types, EntriesInv, HomesInv, BotsInv, [Next]_vars
  PROVE  BotsInv'
  <1>a. DOMAIN rooms \subseteq Room /\ DOMAIN rooms = 1 .. Len(rooms) /\ Len(rooms) \in Nat
    BY Basics
  <1>b. ASSUME UNCHANGED <<who, over, token>>, \A b \in Conn : who[b].way = "bot" => home'[b] = home[b]
        PROVE  BotsInv'
    BY <1>b DEF BotsInv
  <1>c. ASSUME NEW r \in Room, NEW and, Finalize(r, and), UNCHANGED <<who, home>>
        PROVE  BotsInv'
    <2>1. /\ over'[r] = TRUE /\ \A s \in Room \ {r} : over'[s] = over[s] /\ token'[s] = token[s]
          /\ token'[r] # "live" /\ (token[r] # "live" => token'[r] = token[r]) /\ (token[r] = "live" => token'[r] = "cleared")
      BY <1>c DEF Finalize, ClearByRoom, Types, RoomTypes
    <2> QED BY <1>c, <2>1 DEF BotsInv
  <1>1. ASSUME NEW c \in Conn, RateLimited(c) \/ JoinByKey(c) \/ WatchJoin(c) \/ InviteJoin(c)
        PROVE  BotsInv'
    <2>1. UNCHANGED <<who, over, token>>
      BY <1>1 DEF RateLimited, JoinByKey, WatchJoin, InviteJoin, roomVars, bots
    <2>2. home' = home \/ who[c].way # "bot"
      BY <1>1 DEF RateLimited, JoinByKey, WatchJoin, InviteJoin
    <2>3. \A d \in Conn \ {c} : home'[d] = home[d]
      <3>1. Arrival(c)
        BY <1>1, DoorsArrive DEF Doors
      <3> QED BY <3>1 DEF Arrival, Turned, Entered, Types, JoinTypes
    <2> QED BY <1>b, <2>1, <2>2, <2>3
  <1>2. ASSUME NEW c \in Conn, JoinWithBot(c)
        PROVE  BotsInv'
    <2> DEFINE r == Len(rooms) + 1
    <2>1. /\ who' = who /\ over' = over /\ who[c].way # "bot"
          /\ token' = [token EXCEPT ![r] = "live"] /\ home' = [home EXCEPT ![c] = r]
      BY <1>2 DEF JoinWithBot, Create, RequestBot
    <2>2. r \notin DOMAIN rooms
      BY <1>a
    <2> HIDE DEF r
    <2>3. /\ \A s \in Room : token'[s] = IF s = r THEN "live" ELSE token[s]
          /\ \A d \in Conn : who[d].way = "bot" => home'[d] = home[d]
      BY <2>1 DEF Types, RoomTypes, JoinTypes
    <2>4. \A d \in Conn : r \in Room => home[d] # r
      BY <2>2, LobbyAssumption DEF HomesInv
    <2>5. r \in Room => ~over[r]
      BY <2>2 DEF Types, RoomTypes
    <2> QED BY <2>1, <2>3, <2>4, <2>5 DEF BotsInv
  <1>3. ASSUME NEW b \in Conn, NEW r \in DOMAIN rooms, BotJoins(b, r)
        PROVE  BotsInv'
    <2>1. r \in Room /\ who' = who /\ over' = over /\ at[b] = "out" /\ home[b] = None
      BY <1>a, <1>3 DEF BotJoins, roomVars, HomesInv
    <2>2. CASE token[r] # "live"
      BY <1>b, <1>3, <2>1, <2>2 DEF BotJoins
    <2>3. CASE token[r] = "live"
      <3>1. /\ \A s \in Room : token'[s] = IF s = r THEN "used" ELSE token[s]
            /\ \A d \in Conn \ {b} : home'[d] = home[d]
            /\ home'[b] \in {None, r}
        BY <1>3, <2>1, <2>3 DEF BotJoins, Consume, EnterRoom, Types, RoomTypes, JoinTypes
      <3>2. \A d \in Conn : who[d].way = "bot" => home[d] # r
        BY <2>1, <2>3 DEF BotsInv
      <3>3. \A s \in Room : s # None
        BY LobbyAssumption
      <3> QED BY <2>1, <3>1, <3>2, <3>3 DEF BotsInv
    <2> QED BY <2>2, <2>3
  <1>4. ASSUME NEW c \in Conn, Commands(c) \/ UpdateDeck(c) \/ DeckBuilt(c) \/ TryStart(c)
        PROVE  BotsInv'
    BY <1>4, <1>b DEF Commands, Command, UpdateDeck, DeckBuilt, TryStart, roomVars, bots
  <1>5. ASSUME NEW c \in Conn, Disconnect(c)
        PROVE  BotsInv'
    <2>1. UNCHANGED <<who, home>>
      BY <1>5 DEF Disconnect
    <2>2. UNCHANGED <<over, token>> \/ (Client(c) /\ Finalize(home[c], {c}))
      BY <1>5 DEF Disconnect
    <2>3. Client(c) => home[c] \in Room
      BY Basics DEF Client
    <2> QED BY <1>b, <1>c, <2>1, <2>2, <2>3
  <1>6. ASSUME NEW r \in DOMAIN rooms, Serves(r)
        PROVE  BotsInv'
    BY <1>6, <1>b, SectionsServe DEF Frame
  <1>7. ASSUME NEW r \in DOMAIN rooms, Rest(r)
        PROVE  BotsInv'
    <2>1. UNCHANGED <<who, home>>
      BY <1>7 DEF Rest, BotCalled, BotUnreachable, MatchEnds, DuelBreaks
    <2>2. UNCHANGED <<over, token>> \/ \E and : Finalize(r, and)
      BY <1>7 DEF Rest, BotCalled, BotUnreachable, MatchEnds, DuelBreaks, roomVars, bots
    <2> QED BY <1>a, <1>b, <1>c, <2>1, <2>2
  <1>8. CASE UNCHANGED vars
    BY <1>8, <1>b DEF vars, roomVars, bots
  <1> QED BY <1>1, <1>2, <1>3, <1>4, <1>5, <1>6, <1>7, <1>8, Steps DEF Doors

-----------------------------------------------------------------------------
(* Who is still connected. *)

OpenRoom(r) ==
  (\A g \in ghosts : home[g] # r) =>
    /\ \A i \in DOMAIN queue[r] : queue[r][i].what = "leave" => queue[r][i].who \in closed
    /\ players[r] \cup stands[r] # {} => ~(players[r] \cup stands[r] \subseteq closed)

LEMMA GhostsHome ==
  ASSUME Types, HomesInv, NEW c \in Conn, Arrival(c), NEW r \in Room, \A g \in ghosts' : home'[g] # r
  PROVE  \A g \in ghosts : home[g] # r
  <1>1. ghosts' = ghosts /\ home[c] = None /\ r # None /\ ghosts \subseteq Conn
    BY LobbyAssumption DEF Arrival, past, HomesInv, Types, SeatTypes
  <1>2. \A d \in Conn \ {c} : home'[d] = home[d]
    BY DEF Arrival, Turned, Entered, Types, JoinTypes
  <1> QED BY <1>1, <1>2

LEMMA OpenKeptBySections ==
  ASSUME Types, EntriesInv, HomesInv, OpenInv, MovesInv, NEW r \in DOMAIN rooms, Serves(r)
  PROVE  OpenInv'
  <1> DEFINE c == Heads(r)  clients(s) == players[s] \cup stands[s]
  <1>a. /\ r \in Room /\ c \in Conn /\ home[c] = r /\ Frame(r) /\ DOMAIN rooms \subseteq Room
        /\ Head(queue[r]).what \in {"admit", "return"} => Pending(c) /\ \A s \in Room : c \notin clients(s)
    BY Head1, SectionsServe, Basics DEF Pending
  <1>b. /\ \A s \in Room \ {r} : players'[s] = players[s] /\ stands'[s] = stands[s] /\ queue'[s] = queue[s]
        /\ \A i \in DOMAIN queue'[r] : i + 1 \in DOMAIN queue[r] /\ queue'[r][i] = queue[r][i + 1]
        /\ 1 \in DOMAIN queue[r] /\ queue[r][1] = Head(queue[r])
    BY <1>a, SectionClients, PoppedEntries DEF Frame
  <1>c. /\ \A s \in Room : \A i \in DOMAIN queue[s] : queue[s][i].who \in Conn /\ home[queue[s][i].who] = s
        /\ \A s \in Room : clients(s) \subseteq Conn /\ \A d \in clients(s) : home[d] = s /\ ~Pending(d)
        /\ closed \subseteq Conn
    BY Basics DEF EntriesInv, HomesInv, Types, SeatTypes, JoinTypes
  <1>d. Listed' = Listed /\ home' = home /\ Listed \subseteq Room
    BY <1>a DEF Frame, Listed
  <1>e. \A s \in Listed : (\A g \in ghosts : home[g] # s) =>
           /\ \A i \in DOMAIN queue[s] : queue[s][i].what = "leave" => queue[s][i].who \in closed
           /\ clients(s) # {} => ~(clients(s) \subseteq closed)
    BY DEF OpenInv
  <1>1. ASSUME ghosts \subseteq ghosts',
               \A d \in closed' : d \in closed \/ Pending(d),
               \A d \in closed : d \in closed' \/ (home[d] = r /\ (Removed(r, d) => d \in ghosts')),
               r \in Listed /\ (\A g \in ghosts' : home[g] # r) => (clients(r)' # {} => ~(clients(r)' \subseteq closed'))
        PROVE  OpenInv'
    <2>1. ASSUME NEW s \in Listed, \A g \in ghosts' : home[g] # s
          PROVE  /\ \A i \in DOMAIN queue'[s] : queue'[s][i].what = "leave" => queue'[s][i].who \in closed'
                 /\ clients(s)' # {} => ~(clients(s)' \subseteq closed')
      <3>1. /\ \A i \in DOMAIN queue[s] : queue[s][i].what = "leave" => queue[s][i].who \in closed
            /\ clients(s) # {} => ~(clients(s) \subseteq closed)
        BY <1>1, <1>e, <2>1
      <3>2. CASE s = r
        <4>1. ASSUME NEW i \in DOMAIN queue'[r], queue'[r][i].what = "leave"
              PROVE  queue'[r][i].who \in closed'
          <5>1. i + 1 \in DOMAIN queue[r] /\ queue'[r][i] = queue[r][i + 1]
            BY <1>b
          <5>2. queue[r][i + 1].who \in closed /\ Removed(r, queue[r][i + 1].who)
            BY <3>1, <3>2, <4>1, <5>1 DEF Removed
          <5>3. home[queue[r][i + 1].who] = r
            BY <1>a, <1>c, <5>1
          <5> QED BY <1>1, <2>1, <3>2, <5>1, <5>2, <5>3
        <4> QED BY <1>1, <2>1, <3>2, <4>1
      <3>3. CASE s # r
        <4>1. s \in Room /\ clients(s)' = clients(s) /\ queue'[s] = queue[s]
          BY <1>b, <1>d, <3>3
        <4>2. \A i \in DOMAIN queue[s] : queue[s][i].who \in closed => queue[s][i].who \in closed'
          BY <1>1, <1>c, <3>3, <4>1
        <4>3. clients(s) \subseteq closed' => clients(s) \subseteq closed
          BY <1>1, <1>c, <4>1
        <4> HIDE DEF clients
        <4> QED BY <3>1, <4>1, <4>2, <4>3
      <3> QED BY <3>2, <3>3
    <2> QED BY <1>d, <2>1 DEF OpenInv
  <1>2. ASSUME Head(queue[r]).what \in {"admit", "return"}, closed' = closed,
               clients(r)' = clients(r) \cup {c}, ghosts' = IF c \in closed THEN ghosts \cup {c} ELSE ghosts
        PROVE  OpenInv'
    BY <1>1, <1>2, <1>a
  <1>3. ASSUME UNCHANGED <<players, stands, ghosts>>, closed' = closed \/ closed' = closed \cup {c},
               closed' = closed \/ Pending(c)
        PROVE  OpenInv'
    <2>1. r \in Listed /\ (\A g \in ghosts' : home[g] # r) => (clients(r)' # {} => ~(clients(r)' \subseteq closed'))
      BY <1>3, <1>a, <1>c, <1>e
    <2> QED BY <1>1, <1>3, <2>1
  <1>4. ASSUME NEW credential, SeatSpectator(r, c, credential), Head(queue[r]).what \in {"admit", "return"}
        PROVE  OpenInv'
    <2>1. clients(r)' = clients(r) \cup {c}
      BY <1>a, <1>4 DEF SeatSpectator, Types, SeatTypes
    <2> QED BY <1>2, <1>4, <2>1 DEF SeatSpectator
  <1>5. ASSUME Admit(r)
        PROVE  OpenInv'
    <2>1. Head(queue[r]).what = "admit"
      BY <1>5 DEF Admit, Section
    <2>2. CASE UNCHANGED <<seats, closed, ghosts>>
      BY <1>3, <2>2 DEF seats
    <2>3. ASSUME NEW credential, Admission(r, c, credential)
          PROVE  OpenInv'
      <3>1. ASSUME NEW seat, SeatPlayer(r, c, seat, credential)
            PROVE  OpenInv'
        <4>1. clients(r)' = clients(r) \cup {c}
          BY <1>a, <3>1 DEF SeatPlayer, Types, SeatTypes
        <4> QED BY <1>2, <2>1, <3>1, <4>1 DEF SeatPlayer
      <3>2. CASE TurnAway(c)
        BY <1>3, <1>a, <2>1, <3>2 DEF TurnAway, Refuse, seats
      <3>3. CASE SeatSpectator(r, c, credential)
        BY <1>4, <2>1, <3>3
      <3> QED BY <2>3, <3>1, <3>2, <3>3 DEF Admission
    <2> QED BY <1>5, <2>2, <2>3 DEF Admit
  <1>6. ASSUME AdmitStale(r)
        PROVE  OpenInv'
    BY <1>3, <1>a, <1>6 DEF AdmitStale, Section, Refuse, seats, past
  <1>7. ASSUME Return(r)
        PROVE  OpenInv'
    <2>1. Head(queue[r]).what = "return"
      BY <1>7 DEF Return, Section
    <2>2. CASE SeatSpectator(r, c, "guest")
      BY <1>4, <2>1, <2>2
    <2>3. CASE /\ UNCHANGED seats
               /\ \E mine \in SUBSET players[r] : closed' = closed \ mine /\ ghosts' = ghosts \cup {p \in mine : Removed(r, p)}
      <3>1. PICK mine \in SUBSET players[r] : closed' = closed \ mine /\ ghosts' = ghosts \cup {p \in mine : Removed(r, p)}
        BY <2>3
      <3>2. \A d \in mine : home[d] = r
        BY <1>a, <1>c
      <3>3. clients(r)' = clients(r)
        BY <2>3 DEF seats
      <3>4. r \in Listed /\ (\A g \in ghosts' : home[g] # r) => (clients(r)' # {} => ~(clients(r)' \subseteq closed'))
        BY <1>e, <3>1, <3>3
      <3>5. \A d \in closed : d \in closed' \/ (home[d] = r /\ (Removed(r, d) => d \in ghosts'))
        BY <3>1, <3>2
      <3> QED BY <1>1, <3>1, <3>4, <3>5
    <2>4. \A account \in BOOLEAN : Reconnecting(r, c, account) \subseteq players[r]
      BY DEF Reconnecting
    <2> QED BY <1>7, <2>2, <2>3, <2>4 DEF Return
  <1>8. ASSUME UNCHANGED <<closed, ghosts>>, clients(r) \subseteq clients(r)', Head(queue[r]).what \in {"observer", "toDuel"}
        PROVE  OpenInv'
    <2>1. r \in Listed /\ (\A g \in ghosts : home[g] # r) => clients(r) # {}
      BY <1>b, <1>8 DEF MovesInv
    <2>2. r \in Listed /\ (\A g \in ghosts' : home[g] # r) => ~(clients(r)' \subseteq closed')
      BY <1>8, <1>e, <2>1
    <2> QED BY <1>1, <1>8, <2>2
  <1>9. ASSUME ToObserver(r)
        PROVE  OpenInv'
    <2>1. clients(r) \subseteq clients(r)'
      BY <1>a, <1>9 DEF ToObserver, ToStands, Stay, Types, SeatTypes
    <2> QED BY <1>8, <1>9, <2>1 DEF ToObserver, Section, past
  <1>10. ASSUME ToDuel(r)
         PROVE  OpenInv'
    <2>1. clients(r) \subseteq clients(r)'
      BY <1>a, <1>10 DEF ToDuel, FromStands, ToOtherCell, Stay, Types, SeatTypes
    <2> QED BY <1>8, <1>10, <2>1 DEF ToDuel, Section, past
  <1>11. ASSUME SetDeck(r) \/ NotReady(r)
         PROVE  OpenInv'
    <2>1. UNCHANGED <<players, stands, closed, ghosts>>
      BY <1>11 DEF SetDeck, NotReady, past
    <2> QED BY <1>3, <2>1
  <1>12. ASSUME RunLeave(r)
         PROVE  OpenInv'
    <2>1. UNCHANGED <<stands, closed, ghosts>> /\ players'[r] = players[r] \ {c}
      BY <1>a, <1>12 DEF RunLeave, past, Types, SeatTypes
    <2>2. Head(queue[r]).what = "leave"
      BY <1>12 DEF RunLeave, Section
    <2>3. r \in Listed /\ (\A g \in ghosts' : home[g] # r) => c \in closed
      BY <1>b, <1>e, <2>1, <2>2 DEF Heads
    <2>4. r \in Listed /\ (\A g \in ghosts' : home[g] # r) => (clients(r)' # {} => ~(clients(r)' \subseteq closed'))
      <3> SUFFICES ASSUME r \in Listed, \A g \in ghosts' : home[g] # r, clients(r)' # {}
                   PROVE  ~(clients(r)' \subseteq closed')
        OBVIOUS
      <3>1. clients(r)' \subseteq clients(r)
        BY <2>1
      <3>2. PICK d \in clients(r) : d \notin closed
        BY <1>e, <2>1, <3>1
      <3>3. d # c /\ d \in clients(r)'
        BY <2>1, <2>3, <3>2
      <3> QED BY <2>1, <3>2, <3>3
    <2> QED BY <1>1, <2>1, <2>4
  <1> QED BY <1>5, <1>6, <1>7, <1>9, <1>10, <1>11, <1>12 DEF Serves

LEMMA OpenKept ==
  ASSUME Types, EntriesInv, HomesInv, OpenInv, MovesInv, [Next]_vars
  PROVE  OpenInv'
  <1>a. DOMAIN rooms \subseteq Room
    BY Basics
  <1>b. /\ \A r \in Room : players[r] \subseteq Conn /\ stands[r] \subseteq Conn
        /\ closed \subseteq Conn /\ ghosts \subseteq Conn
        /\ \A r \in Room : \A i \in DOMAIN queue[r] : queue[r][i].who \in Conn
    BY Basics DEF Types, SeatTypes, JoinTypes
  <1>c. ASSUME UNCHANGED <<rooms, over, queue, home, players, stands, closed, ghosts>>
        PROVE  OpenInv'
    BY <1>c DEF OpenInv, Listed
  <1>d. ASSUME NEW r \in Room, NEW and, Finalize(r, and), \A c \in and : home[c] = r,
               UNCHANGED <<rooms, queue, home, players, stands, ghosts>>
        PROVE  OpenInv'
    <2>1. Listed' = Listed \ {r}
      BY <1>d, <1>a DEF Listed, Finalize, Types, RoomTypes
    <2>2. closed \subseteq closed' /\ \A c \in closed' : c \in closed \/ home[c] = r
      BY <1>d DEF Finalize, HomesInv
    <2>3. ASSUME NEW s \in Listed \ {r}
          PROVE  players[s] \cup stands[s] \subseteq closed' => players[s] \cup stands[s] \subseteq closed
      BY <1>a, <2>2, <2>3 DEF HomesInv, Listed
    <2> QED BY <1>d, <2>1, <2>2, <2>3 DEF OpenInv
  <1>1. ASSUME NEW c \in Conn, Doors(c)
        PROVE  OpenInv'
    <2>1. Arrival(c) /\ at[c] = "out" /\ UNCHANGED <<players, stands, over, ghosts>>
      BY <1>1, DoorsArrive DEF Arrival, seats, past
    <2>2. \A r \in Room : c \notin players[r] \cup stands[r]
      BY <2>1 DEF HomesInv, Pending
    <2>3. closed \subseteq closed' /\ closed' \subseteq closed \cup {c}
      BY <2>1 DEF Arrival, Turned, Entered
    <2>4. ASSUME NEW r \in Room, NEW i \in DOMAIN queue'[r], queue'[r][i].what = "leave"
          PROVE  i \in DOMAIN queue[r] /\ queue'[r][i] = queue[r][i]
      <3>1. CASE Turned(c)
        BY <2>4, <3>1 DEF Turned
      <3>2. ASSUME NEW s \in Room, NEW there \in {"admit", "return"}, Entered(c, s, there)
            PROVE  i \in DOMAIN queue[r] /\ queue'[r][i] = queue[r][i]
        <4> DEFINE e == [what |-> there, who |-> c]
        <4>1. e \in Entry /\ e.what # "leave" /\ queue' = [queue EXCEPT ![s] = Append(@, e)]
          BY <3>2 DEF Entry, Entered
        <4> HIDE DEF e
        <4> QED BY <2>4, <4>1, Appended
      <3> QED BY <2>1, <3>1, <3>2 DEF Arrival
    <2>5. ASSUME NEW r \in Listed', \A g \in ghosts' : home'[g] # r
          PROVE  /\ \A i \in DOMAIN queue'[r] : queue'[r][i].what = "leave" => queue'[r][i].who \in closed'
                 /\ players'[r] \cup stands'[r] # {} => ~(players'[r] \cup stands'[r] \subseteq closed')
      <3>1. r \in Room
        <4>1. rooms' \in Seq(RoomRecord)' /\ Len(rooms') <= MaxRooms
          BY RoomTypesKept DEF RoomTypes
        <4>2. DOMAIN rooms' = 1 .. Len(rooms') /\ Len(rooms') \in Nat
          BY <4>1
        <4> QED BY <2>5, <4>1, <4>2, LobbyAssumption DEF Room, Listed
      <3>2. \A g \in ghosts : home[g] # r
        BY <2>1, <2>5, <3>1, GhostsHome
      <3>3. CASE r \in DOMAIN rooms
        <4>1. r \in Listed
          BY <2>1, <2>5, <3>3 DEF Listed
        <4>2. /\ \A i \in DOMAIN queue[r] : queue[r][i].what = "leave" => queue[r][i].who \in closed
              /\ players[r] \cup stands[r] # {} => ~(players[r] \cup stands[r] \subseteq closed)
          BY <3>2, <4>1 DEF OpenInv
        <4> QED BY <2>1, <2>2, <2>3, <2>4, <3>1, <4>2
      <3>4. CASE r \notin DOMAIN rooms
        <4>1. players[r] \cup stands[r] = {} /\ DOMAIN queue[r] = {}
          <5>1. \A d \in Conn : home[d] # r
            BY <3>1, <3>4, LobbyAssumption DEF HomesInv
          <5>2. \A i \in DOMAIN queue[r] : FALSE
            BY <1>b, <3>1, <5>1 DEF EntriesInv
          <5> QED BY <1>b, <3>1, <5>1, <5>2 DEF HomesInv
        <4> QED BY <2>1, <2>4, <3>1, <4>1
      <3> QED BY <3>3, <3>4
    <2> QED BY <2>5 DEF OpenInv
  <1>2. ASSUME NEW c \in Conn, NEW what \in {"observer", "toDuel", "unready", "deck", "leave"}, home[c] \in Room,
               queue' = [queue EXCEPT ![home[c]] = Append(@, [what |-> what, who |-> c])],
               UNCHANGED <<rooms, over, home, players, ghosts, stands>>,
               \/ closed' = closed /\ what # "leave"
               \/ closed' = closed \cup {c} /\ c \in players[home[c]] /\ ~(players[home[c]] \subseteq closed \cup {c})
        PROVE  OpenInv'
    <2> DEFINE e == [what |-> what, who |-> c]
    <2>1. /\ \A i \in DOMAIN queue'[home[c]] : \/ i \in DOMAIN queue[home[c]] /\ queue'[home[c]][i] = queue[home[c]][i]
                                              \/ queue'[home[c]][i] = e
          /\ \A s \in Room \ {home[c]} : queue'[s] = queue[s]
      <3>1. e \in Entry /\ queue' = [queue EXCEPT ![home[c]] = Append(@, e)]
        BY <1>2 DEF Entry
      <3> HIDE DEF e
      <3> QED BY <1>2, <3>1, Appended
    <2>2. e.what = what /\ e.who = c
      OBVIOUS
    <2> HIDE DEF e
    <2>3. ASSUME NEW r \in Listed, \A g \in ghosts : home[g] # r
          PROVE  /\ \A i \in DOMAIN queue'[r] : queue'[r][i].what = "leave" => queue'[r][i].who \in closed'
                 /\ players[r] \cup stands[r] # {} => ~(players[r] \cup stands[r] \subseteq closed')
      <3>1. r \in Room
        BY <1>a DEF Listed
      <3>2. /\ \A i \in DOMAIN queue[r] : queue[r][i].what = "leave" => queue[r][i].who \in closed
            /\ players[r] \cup stands[r] # {} => ~(players[r] \cup stands[r] \subseteq closed)
        BY <2>3 DEF OpenInv
      <3>3. \A i \in DOMAIN queue'[r] : queue'[r][i].what = "leave" => queue'[r][i].who \in closed'
        BY <1>2, <2>1, <2>2, <3>1, <3>2
      <3>4. players[r] \cup stands[r] # {} => ~(players[r] \cup stands[r] \subseteq closed')
        BY <1>2, <3>1, <3>2 DEF HomesInv
      <3> QED BY <3>3, <3>4
    <2>4. Listed' = Listed /\ ghosts' = ghosts /\ home' = home /\ players' = players /\ stands' = stands
      BY <1>2 DEF Listed
    <2> QED BY <2>3, <2>4 DEF OpenInv
  <1>e. \A c \in Conn : Client(c) => home[c] \in Room
    BY Basics DEF Client
  <1>3. ASSUME NEW c \in Conn, Commands(c)
        PROVE  OpenInv'
    BY <1>3, <1>e, <1>2 DEF Commands, Command, Heard, roomVars, seats, past
  <1>4. ASSUME NEW c \in Conn, UpdateDeck(c) \/ TryStart(c)
        PROVE  OpenInv'
    BY <1>4, <1>c DEF UpdateDeck, TryStart, roomVars, seats, past
  <1>5. ASSUME NEW c \in Conn, DeckBuilt(c)
        PROVE  OpenInv'
    <2>1. home[c] \in Room
      BY <1>5, Basics DEF DeckBuilt, HomesInv
    <2> QED BY <1>5, <2>1, <1>2, <1>c DEF DeckBuilt, roomVars, past
  <1>6. ASSUME NEW c \in Conn, Disconnect(c)
        PROVE  OpenInv'
    <2> DEFINE r == home[c]
    <2>1. UNCHANGED <<rooms, home, players, ghosts>>
      BY <1>6 DEF Disconnect, past
    <2>2. CASE ~Client(c) \/ over[r]
      <3>1. closed' = closed \cup {c} /\ UNCHANGED <<over, queue, stands>>
        BY <1>6, <2>2 DEF Disconnect
      <3>2. \A s \in Listed : c \notin players[s] \cup stands[s]
        BY <1>a, <2>2, LobbyAssumption DEF Client, Listed, HomesInv
      <3>3. Listed' = Listed
        BY <2>1, <3>1 DEF Listed
      <3> HIDE DEF r
      <3> QED BY <2>1, <3>1, <3>2, <3>3 DEF OpenInv
    <2>3. CASE Client(c) /\ Finalize(r, {c}) /\ UNCHANGED <<queue, stands>>
      BY <1>d, <1>e, <2>1, <2>3
    <2>4. CASE /\ Client(c) /\ ~(players[r] \subseteq closed \cup {c}) /\ closed' = closed \cup {c}
               /\ stands' = [stands EXCEPT ![r] = @ \ {c}] /\ UNCHANGED <<over, queue>>
      <3>1. r \in Room
        BY <1>e, <2>4
      <3>2. stands'[r] = stands[r] \ {c} /\ \A s \in Room \ {r} : stands'[s] = stands[s]
        BY <2>4, <3>1 DEF Types, SeatTypes
      <3>3. Listed' = Listed
        BY <2>1, <2>4 DEF Listed
      <3>4. ASSUME NEW s \in Listed, \A g \in ghosts : home[g] # s
            PROVE  /\ \A i \in DOMAIN queue[s] : queue[s][i].what = "leave" => queue[s][i].who \in closed'
                   /\ players[s] \cup stands'[s] # {} => ~(players[s] \cup stands'[s] \subseteq closed')
        BY <1>a, <2>4, <3>2, <3>4 DEF OpenInv, HomesInv, Listed
      <3> HIDE DEF r
      <3> QED BY <2>1, <2>4, <3>3, <3>4 DEF OpenInv
    <2>5. CASE /\ Client(c) /\ ~(players[r] \subseteq closed \cup {c}) /\ closed' = closed \cup {c} /\ c \notin stands[r]
               /\ UNCHANGED <<over, stands>> /\ (queue' = queue \/ queue' = PlayerLeave(r, c))
      <3>1. r \in Room /\ c \in players[r]
        BY <1>e, <2>5 DEF Client
      <3>2. CASE queue' = PlayerLeave(r, c)
        BY <1>2, <2>1, <2>5, <3>1, <3>2 DEF PlayerLeave
      <3>3. CASE queue' = queue
        <4>1. Listed' = Listed
          BY <2>1, <2>5 DEF Listed
        <4>2. ASSUME NEW s \in Listed, \A g \in ghosts : home[g] # s
              PROVE  /\ \A i \in DOMAIN queue[s] : queue[s][i].what = "leave" => queue[s][i].who \in closed'
                     /\ players[s] \cup stands[s] # {} => ~(players[s] \cup stands[s] \subseteq closed')
          BY <1>a, <2>5, <3>1, <4>2 DEF OpenInv, HomesInv, Listed
        <4> HIDE DEF r
        <4> QED BY <2>1, <2>5, <3>3, <4>1, <4>2 DEF OpenInv
      <3> QED BY <2>5, <3>2, <3>3
    <2> QED BY <1>6, <2>2, <2>3, <2>4, <2>5 DEF Disconnect
  <1>8. ASSUME NEW r \in DOMAIN rooms, Rest(r)
        PROVE  OpenInv'
    <2>1. CASE BotCalled(r) \/ DuelBreaks(r)
      BY <2>1, <1>c DEF BotCalled, DuelBreaks, roomVars, seats, past
    <2>2. CASE BotUnreachable(r)
      BY <1>a, <2>2, <1>d DEF BotUnreachable, seats, past
    <2>3. CASE MatchEnds(r)
      BY <1>a, <2>3, <1>d DEF MatchEnds, seats, past
    <2> QED BY <1>8, <2>1, <2>2, <2>3 DEF Rest
  <1>9. CASE UNCHANGED vars
    BY <1>9, <1>c DEF vars, roomVars, seats, past
  <1>7. ASSUME NEW r \in DOMAIN rooms, Serves(r)
        PROVE  OpenInv'
    BY <1>7, OpenKeptBySections
  <1> QED BY <1>1, <1>3, <1>4, <1>5, <1>6, <1>7, <1>8, <1>9, Steps

\* Ghosts, homes and closed rooms stay.
LEMMA Stays ==
  ASSUME Types, EntriesInv, HomesInv, [Next]_vars
  PROVE  /\ ghosts \subseteq ghosts' /\ \A c \in Conn : home[c] # None => home'[c] = home[c]
         /\ \A r \in Room : over[r] => over'[r]
  <1>1. ASSUME NEW c \in Conn, Doors(c)
        PROVE  /\ UNCHANGED <<ghosts, over>> /\ \A d \in Conn : home[d] # None => home'[d] = home[d]
    <2>1. Arrival(c) /\ home[c] = None
      BY <1>1, DoorsArrive DEF Arrival, HomesInv
    <2> QED BY <2>1 DEF Arrival, Turned, Entered, past, Types, JoinTypes
  <1>2. ASSUME NEW c \in Conn, Commands(c) \/ UpdateDeck(c) \/ DeckBuilt(c) \/ TryStart(c)
        PROVE  UNCHANGED <<ghosts, over, home>>
    BY <1>2 DEF Commands, Command, UpdateDeck, DeckBuilt, TryStart, past, roomVars
  <1>3. ASSUME NEW r \in Room, NEW and, Finalize(r, and)
        PROVE  \A s \in Room : over[s] => over'[s]
    BY <1>3 DEF Finalize, Types, RoomTypes
  <1>4. ASSUME NEW c \in Conn, Disconnect(c)
        PROVE  UNCHANGED <<ghosts, home>> /\ \A s \in Room : over[s] => over'[s]
    <2>1. UNCHANGED <<ghosts, home>>
      BY <1>4 DEF Disconnect, past
    <2>2. over' = over \/ (Client(c) /\ Finalize(home[c], {c}))
      BY <1>4 DEF Disconnect
    <2> QED BY <1>3, <2>1, <2>2, Basics DEF Client
  <1>5. ASSUME NEW r \in DOMAIN rooms, Serves(r)
        PROVE  UNCHANGED <<over, home>> /\ ghosts \subseteq ghosts'
    <2>1. UNCHANGED <<over, home>>
      BY <1>5, SectionsServe DEF Frame
    <2>2. ghosts \subseteq ghosts'
      BY <1>5 DEF Serves, Admit, Admission, SeatPlayer, SeatSpectator, TurnAway, AdmitStale, Return, ToObserver, ToDuel, SetDeck,
           NotReady, RunLeave, past
    <2> QED BY <2>1, <2>2
  <1>6. ASSUME NEW r \in DOMAIN rooms, Rest(r)
        PROVE  UNCHANGED <<ghosts, home>> /\ \A s \in Room : over[s] => over'[s]
    <2>1. UNCHANGED <<ghosts, home>>
      BY <1>6 DEF Rest, BotCalled, BotUnreachable, MatchEnds, DuelBreaks, past
    <2>2. over' = over \/ \E and : Finalize(r, and)
      BY <1>6 DEF Rest, BotCalled, BotUnreachable, MatchEnds, DuelBreaks, roomVars
    <2> QED BY <1>3, <2>1, <2>2, Basics
  <1>7. CASE UNCHANGED vars
    BY <1>7 DEF vars, past, roomVars
  <1> QED BY <1>1, <1>2, <1>4, <1>5, <1>6, <1>7, Steps

\* A room without ghosts that has clients keeps some.
LEMMA Inhabited ==
  ASSUME Types, EntriesInv, HomesInv, OpenInv, [Next]_vars,
         NEW r \in Listed, \A g \in ghosts : home[g] # r, players[r] \cup stands[r] # {}
  PROVE  players'[r] \cup stands'[r] # {}
  <1>1. r \in Room /\ r \in DOMAIN rooms
    BY Basics DEF Listed
  <1>2. PICK d \in players[r] \cup stands[r] : d \notin closed
    BY DEF OpenInv
  <1>3. CASE players[r] \subseteq players'[r] /\ stands[r] \subseteq stands'[r]
    BY <1>2, <1>3
  <1>4. ASSUME NEW c \in Conn, Disconnect(c)
        PROVE  players'[r] \cup stands'[r] # {}
    <2>1. players' = players
      BY <1>4 DEF Disconnect
    <2>2. stands' = stands \/ (~(players[home[c]] \subseteq closed \cup {c}) /\ stands' = [stands EXCEPT ![home[c]] = @ \ {c}])
      BY <1>4 DEF Disconnect
    <2> QED BY <1>1, <1>2, <2>1, <2>2 DEF Types, SeatTypes
  <1>5. ASSUME NEW s \in DOMAIN rooms, Serves(s)
        PROVE  players'[r] \cup stands'[r] # {}
    <2>1. s # r => players'[r] = players[r] /\ stands'[r] = stands[r]
      BY <1>1, <1>5, Head1, SectionClients
    <2>2. CASE s = r /\ (Admit(r) \/ AdmitStale(r) \/ Return(r) \/ ToObserver(r) \/ ToDuel(r) \/ SetDeck(r) \/ NotReady(r))
      BY <1>1, <1>2, <2>2 DEF Admit, Admission, SeatPlayer, SeatSpectator, TurnAway, AdmitStale, Return, ToObserver, ToStands,
           ToDuel, FromStands, ToOtherCell, Stay, SetDeck, NotReady, seats, Types, SeatTypes
    <2>3. CASE s = r /\ RunLeave(r)
      <3>1. 1 \in DOMAIN queue[r] /\ queue[r][1] = Head(queue[r]) /\ Head(queue[r]).what = "leave"
        BY <1>1, <2>3, PoppedEntries DEF RunLeave, Section, Popped
      <3>2. Heads(r) \in closed
        BY <3>1 DEF OpenInv, Heads
      <3>3. players'[r] = players[r] \ {Heads(r)} /\ stands' = stands
        BY <1>1, <2>3 DEF RunLeave, Types, SeatTypes
      <3> QED BY <1>2, <3>2, <3>3
    <2>4. CASE s = r
      BY <1>5, <2>2, <2>3, <2>4 DEF Serves
    <2>5. CASE s # r
      BY <1>2, <2>1, <2>5
    <2> QED BY <2>4, <2>5
  <1>6. ASSUME NEW c \in Conn, Doors(c)
        PROVE  UNCHANGED <<players, stands>>
    BY <1>6, DoorsArrive DEF Arrival, seats
  <1>7. ASSUME NEW c \in Conn, Commands(c) \/ UpdateDeck(c) \/ DeckBuilt(c) \/ TryStart(c)
        PROVE  UNCHANGED <<players, stands>>
    BY <1>7 DEF Commands, Command, UpdateDeck, DeckBuilt, TryStart, seats
  <1>8. ASSUME NEW s \in DOMAIN rooms, Rest(s)
        PROVE  UNCHANGED <<players, stands>>
    BY <1>8 DEF Rest, BotCalled, BotUnreachable, MatchEnds, DuelBreaks, seats
  <1>9. CASE UNCHANGED vars
    BY <1>3, <1>9 DEF vars, seats
  <1> QED BY <1>3, <1>4, <1>5, <1>6, <1>7, <1>8, <1>9, Steps

\* Who asks to move is a client then.
LEMMA MovesAsked ==
  ASSUME Types, EntriesInv, HomesInv, [Next]_vars, NEW r \in Room, NEW i \in DOMAIN queue'[r],
         queue'[r][i].what \in {"observer", "toDuel"}
  PROVE  \/ \E j \in DOMAIN queue[r] : queue[r][j] = queue'[r][i]
         \/ players'[r] \cup stands'[r] # {}
  <1>1. CASE queue' = queue
    BY <1>1
  <1>2. ASSUME NEW c \in Conn, Doors(c)
        PROVE  \E j \in DOMAIN queue[r] : queue[r][j] = queue'[r][i]
    <2>1. CASE Turned(c)
      BY <2>1 DEF Turned
    <2>2. ASSUME NEW s \in Room, NEW there \in {"admit", "return"}, Entered(c, s, there)
          PROVE  \E j \in DOMAIN queue[r] : queue[r][j] = queue'[r][i]
      <3> DEFINE e == [what |-> there, who |-> c]
      <3>1. e \in Entry /\ e.what \notin {"observer", "toDuel"} /\ queue' = [queue EXCEPT ![s] = Append(@, e)]
        BY <2>2 DEF Entry, Entered
      <3> HIDE DEF e
      <3> QED BY <3>1, Appended
    <2> QED BY <1>2, <2>1, <2>2, DoorsArrive DEF Arrival
  <1>3. ASSUME NEW c \in Conn, NEW what \in {"unready", "deck", "leave", "observer", "toDuel"}, home[c] \in Room,
               queue' = [queue EXCEPT ![home[c]] = Append(@, [what |-> what, who |-> c])],
               what \in {"observer", "toDuel"} => players'[home[c]] \cup stands'[home[c]] # {}
        PROVE  (\E j \in DOMAIN queue[r] : queue[r][j] = queue'[r][i]) \/ players'[r] \cup stands'[r] # {}
    <2> DEFINE e == [what |-> what, who |-> c]
    <2>1. e \in Entry /\ e.what = what /\ queue' = [queue EXCEPT ![home[c]] = Append(@, e)]
      BY <1>3 DEF Entry
    <2> HIDE DEF e
    <2>2. CASE r = home[c]
      <3>1. (i \in DOMAIN queue[r] /\ queue'[r][i] = queue[r][i]) \/ queue'[r][i] = e
        BY <1>3, <2>1, <2>2, Appended
      <3> QED BY <1>3, <2>1, <2>2, <3>1
    <2>3. CASE r # home[c]
      BY <1>3, <2>1, <2>3, Appended
    <2> QED BY <2>2, <2>3
  <1>a. \A c \in Conn : Client(c) => home[c] \in Room
    BY Basics DEF Client
  <1>4. ASSUME NEW c \in Conn, Commands(c)
        PROVE  (\E j \in DOMAIN queue[r] : queue[r][j] = queue'[r][i]) \/ players'[r] \cup stands'[r] # {}
    BY <1>3, <1>4, <1>a DEF Commands, Command, Heard, Client, seats
  <1>5. ASSUME NEW c \in Conn, DeckBuilt(c)
        PROVE  (\E j \in DOMAIN queue[r] : queue[r][j] = queue'[r][i]) \/ players'[r] \cup stands'[r] # {}
    <2>1. home[c] \in Room
      BY <1>5, Basics DEF DeckBuilt, HomesInv
    <2> QED BY <1>1, <1>3, <1>5, <2>1 DEF DeckBuilt
  <1>6. ASSUME NEW c \in Conn, Disconnect(c)
        PROVE  (\E j \in DOMAIN queue[r] : queue[r][j] = queue'[r][i]) \/ players'[r] \cup stands'[r] # {}
    <2>1. queue' = queue \/ (Client(c) /\ queue' = PlayerLeave(home[c], c))
      BY <1>6 DEF Disconnect
    <2> QED BY <1>1, <1>3, <1>a, <2>1 DEF PlayerLeave
  <1>7. ASSUME NEW s \in DOMAIN rooms, Serves(s)
        PROVE  \E j \in DOMAIN queue[r] : queue[r][j] = queue'[r][i]
    <2>1. s \in Room /\ Popped(s)
      BY <1>7, Head1, SectionsServe DEF Frame
    <2> QED BY <2>1, PoppedEntries
  <1>8. \/ queue' = queue \/ (\E c \in Conn : Doors(c) \/ Commands(c) \/ DeckBuilt(c) \/ Disconnect(c))
        \/ \E s \in DOMAIN rooms : Serves(s)
    BY Steps DEF UpdateDeck, TryStart, Rest, BotCalled, BotUnreachable, MatchEnds, DuelBreaks, vars
  <1> QED BY <1>1, <1>2, <1>4, <1>5, <1>6, <1>7, <1>8

LEMMA MovesKept ==
  ASSUME Types, EntriesInv, HomesInv, OpenInv, MovesInv, [Next]_vars
  PROVE  MovesInv'
  <1> SUFFICES ASSUME NEW r \in Listed', \A g \in ghosts' : home'[g] # r, NEW i \in DOMAIN queue'[r],
                      queue'[r][i].what \in {"observer", "toDuel"}
               PROVE  players'[r] \cup stands'[r] # {}
    BY DEF MovesInv
  <1>1. r \in Room
    <2>1. rooms' \in Seq(RoomRecord)' /\ Len(rooms') <= MaxRooms
      BY RoomTypesKept DEF RoomTypes
    <2>2. DOMAIN rooms' = 1 .. Len(rooms') /\ Len(rooms') \in Nat
      BY <2>1
    <2> QED BY <2>1, <2>2, LobbyAssumption DEF Room, Listed
  <1>2. ASSUME NEW j \in DOMAIN queue[r], queue[r][j] = queue'[r][i]
        PROVE  players'[r] \cup stands'[r] # {}
    <2>1. home[queue[r][j].who] = r /\ queue[r][j].who \in Conn
      BY <1>1, <1>2, Basics DEF EntriesInv
    <2>2. r \in DOMAIN rooms
      BY <1>1, <2>1, LobbyAssumption DEF HomesInv
    <2>3. ~over[r]
      BY <1>1, Stays DEF Listed
    <2>4. r \in Listed
      BY <2>2, <2>3 DEF Listed
    <2>5. \A g \in ghosts : home[g] # r
      BY <1>1, Stays, LobbyAssumption DEF Types, SeatTypes
    <2>6. players[r] \cup stands[r] # {}
      BY <1>2, <2>4, <2>5 DEF MovesInv
    <2> QED BY <2>4, <2>5, <2>6, Inhabited
  <1> QED BY <1>1, <1>2, MovesAsked

-----------------------------------------------------------------------------
(* The theorems. *)

LEMMA ReadiedKept ==
  ASSUME Types, ready \subseteq readied, [Next]_vars
  PROVE  ready' \subseteq readied'
  <1>1. ASSUME NEW c \in Conn, Doors(c)
        PROVE  ready' \subseteq readied'
    BY <1>1, DoorsArrive DEF Arrival, seats, past
  <1>2. ASSUME NEW c \in Conn, Commands(c) \/ UpdateDeck(c) \/ DeckBuilt(c) \/ TryStart(c) \/ Disconnect(c)
        PROVE  ready' \subseteq readied'
    BY <1>2 DEF Commands, Command, UpdateDeck, DeckBuilt, TryStart, Disconnect, seats, past
  <1>3. ASSUME NEW r \in DOMAIN rooms, Serves(r)
        PROVE  ready' \subseteq readied'
    <2>1. CASE SetDeck(r)
      BY <2>1 DEF SetDeck
    <2>2. CASE Admit(r) \/ AdmitStale(r) \/ Return(r)
      BY <2>2 DEF Admit, AdmitStale, Return, Admission, SeatPlayer, SeatSpectator, TurnAway, seats, past
    <2>3. CASE ToObserver(r) \/ ToDuel(r) \/ NotReady(r) \/ RunLeave(r)
      BY <2>3 DEF ToObserver, ToDuel, ToStands, FromStands, ToOtherCell, Stay, NotReady, RunLeave, past
    <2> QED BY <1>3, <2>1, <2>2, <2>3 DEF Serves
  <1>4. ASSUME NEW r \in DOMAIN rooms, Rest(r)
        PROVE  ready' \subseteq readied'
    BY <1>4 DEF Rest, BotCalled, BotUnreachable, MatchEnds, DuelBreaks, Wait, seats, past
  <1>5. CASE UNCHANGED vars
    BY <1>5 DEF vars, seats, past
  <1> QED BY <1>1, <1>2, <1>3, <1>4, <1>5, Steps

LEMMA InitIInv == Init => IInv
  <1> SUFFICES ASSUME Init
               PROVE  IInv
    OBVIOUS
  <1>1. RoomTypes
    BY LobbyAssumption DEF Init, RoomTypes, Room
  <1>2. SeatTypes
    BY DEF Init, SeatTypes
  <1>3. JoinTypes
    BY LobbyAssumption DEF Init, JoinTypes
  <1>4. EntriesInv /\ HomesInv /\ CellsInv
    BY DEF Init, EntriesInv, HomesInv, CellsInv
  <1>5. LeagueHolds /\ BotsInv /\ OpenInv /\ MovesInv /\ ready \subseteq readied
    BY LobbyAssumption DEF Init, LeagueHolds, BotsInv, OpenInv, MovesInv, Listed
  <1> QED BY <1>1, <1>2, <1>3, <1>4, <1>5 DEF IInv, Types

LEMMA StepIInv == IInv /\ [Next]_vars => IInv'
  BY RoomTypesKept, SeatTypesKept, JoinTypesKept, EntriesKept, HomesKept, CellsKept, LeagueKept, BotsKept, OpenKept, MovesKept, ReadiedKept
  DEF IInv, Types

\* The inductive invariant of the lobby.
THEOREM LobbyInvariant == Spec => []IInv
  BY InitIInv, StepIInv, PTL DEF Spec

\* Through the join or from the stands, a room's league takes the credential of
\* each of its players (RoomLeague.admitsAsPlayer at the admission and in
\* handleToDuel).
THEOREM LeagueHoldsProved == Spec => []LeagueHolds
  <1>1. IInv => LeagueHolds
    BY DEF IInv
  <1> QED BY <1>1, LobbyInvariant, PTL

\* Cells and hosts are never shared, no token and at most one bot is left to a
\* room, and a room nobody is connected to is closed.
THEOREM RoomsSoundProved == Spec => []RoomsSound
  <1>1. ASSUME IInv
        PROVE  RoomsSound
    <2>1. TypeOK
      <3>1. RoomTypes /\ SeatTypes /\ JoinTypes
        BY <1>1 DEF IInv, Types
      <3>2. rooms \in [1 .. Len(rooms) -> RoomRecord] /\ Len(rooms) \in 0 .. MaxRooms
        BY <3>1, LobbyAssumption DEF RoomTypes
      <3>3. rooms \in UNION {[1 .. n -> RoomRecord] : n \in 0 .. MaxRooms}
        BY <3>2
      <3>4. \A r \in Room : \A i \in DOMAIN queue[r] :
              queue[r][i].what \in {"admit", "return", "observer", "toDuel", "deck", "unready", "leave"}
        <4>1. \A r \in Room : \A i \in DOMAIN queue[r] : queue[r][i] \in Entry
          BY <3>1 DEF JoinTypes
        <4> QED BY <4>1 DEF Entry
      <3> QED BY <3>1, <3>3, <3>4 DEF TypeOK, RoomTypes, SeatTypes, JoinTypes, RoomRecord
    <2>2. DOMAIN rooms \subseteq Room
      BY <1>1, Basics DEF IInv
    <2>3. SeatsDistinct /\ NoTokenOutlivesItsRoom
      BY <1>1, <2>2 DEF IInv, CellsInv, BotsInv, SeatsDistinct, NoTokenOutlivesItsRoom
    <2>4. OneBotPerRoom
      <3> SUFFICES ASSUME NEW r \in Room
                   PROVE  Cardinality({b \in Conn : who[b].way = "bot" /\ home[b] = r}) <= 1
        BY DEF OneBotPerRoom
      <3> DEFINE S == {b \in Conn : who[b].way = "bot" /\ home[b] = r}
      <3>1. \A b, c \in S : b = c
        BY <1>1 DEF IInv, BotsInv
      <3>2. S = {} \/ \E b : S = {b}
        BY <3>1
      <3> HIDE DEF S
      <3>3. Cardinality(S) <= 1
        <4>1. CASE S = {}
          BY <4>1, FS_EmptySet
        <4>2. ASSUME NEW b, S = {b}
              PROVE  Cardinality(S) <= 1
          <5>1. Cardinality(S) = 1
            BY <4>2, FS_Singleton
          <5> QED BY <5>1
        <4> QED BY <3>2, <4>1, <4>2
      <3> QED BY <3>3 DEF S
    <2>5. LastOneOutClosesTheRoom
      BY <1>1 DEF IInv, OpenInv, LastOneOutClosesTheRoom
    <2> QED BY <2>1, <2>3, <2>4, <2>5 DEF RoomsSound
  <1> QED BY <1>1, LobbyInvariant, PTL

\* What a client asked for is what it gets: an invitation ends in a seat or in a
\* refusal, a watcher stays in the stands, and a match begins with two players
\* who readied for it.
THEOREM RequestsKept == Spec => InviteNeverWatches /\ WatcherJoinsTheStands /\ StartIsDeliberate
  <1> DEFINE Invited == \A c \in Conn : who[c].way = "invite" /\ at[c] = "queued" => at'[c] # "watching"
             Watched == \A c \in Conn : who[c].way = "watch" /\ at[c] = "queued" => at'[c] \notin {"seated", "resumed"}
             Started == \A r \in Room : phase[r] = "waiting" /\ phase'[r] = "match"
                                          => Cardinality(players[r]) = 2 /\ players[r] \subseteq readied
  <1>1. ASSUME IInv, [Next]_vars
        PROVE  Invited /\ Watched
    <2>a. Types /\ EntriesInv /\ HomesInv
      BY <1>1 DEF IInv
    <2>1. ASSUME NEW c \in Conn, Doors(c)
          PROVE  Invited /\ Watched
      <3>1. at[c] = "out" /\ at'[c] \in {"refused", "queued"} /\ \A d \in Conn \ {c} : at'[d] = at[d]
        <4>1. Arrival(c)
          BY <2>a, <2>1, DoorsArrive
        <4> QED BY <2>a, <4>1 DEF Arrival, Turned, Entered, Types, JoinTypes
      <3> QED BY <3>1
    <2>2. ASSUME NEW r \in DOMAIN rooms, Serves(r)
          PROVE  Invited /\ Watched
      <3> DEFINE c == Heads(r)
      <3>1. /\ r \in Room /\ c \in Conn /\ Served(r) /\ Popped(r)
            /\ 1 \in DOMAIN queue[r] /\ queue[r][1] = Head(queue[r])
        BY <2>a, <2>2, Head1, SectionsServe, PoppedEntries DEF Frame
      <3>2. \A d \in Conn : at'[d] # at[d] /\ at[d] = "queued" => d = c /\ Head(queue[r]).what \in {"admit", "return"}
        BY <3>1 DEF Served, Pending
      <3>3. CASE Head(queue[r]).what \notin {"admit", "return"}
        BY <3>2, <3>3
      <3>4. CASE Head(queue[r]).what = "return"
        <4>1. who[c].way # "invite"
          BY <2>a, <3>1, <3>4 DEF EntriesInv, Heads
        <4>2. who[c].way = "watch" => at'[c] = "watching"
          <5>1. Return(r)
            BY <2>2, <3>4 DEF Serves, Admit, AdmitStale, ToObserver, ToDuel, SetDeck, NotReady, RunLeave, Section
          <5>2. who[c].way = "watch" => SeatSpectator(r, c, "guest")
            BY <5>1 DEF Return
          <5> QED BY <2>a, <3>1, <5>2 DEF SeatSpectator, Types, JoinTypes
        <4> HIDE DEF c
        <4> QED BY <3>2, <4>1, <4>2
      <3>5. CASE Head(queue[r]).what = "admit"
        <4>1. Admit(r) \/ AdmitStale(r)
          BY <2>2, <3>5 DEF Serves, Return, ToObserver, ToDuel, SetDeck, NotReady, RunLeave, Section
        <4>2. ASSUME NEW credential, Admission(r, c, credential)
              PROVE  /\ who[c].way = "invite" => at'[c] # "watching"
                     /\ who[c].way = "watch" => at'[c] \notin {"seated", "resumed"}
          <5>1. CASE TurnAway(c)
            BY <2>a, <3>1, <5>1 DEF TurnAway, Refuse, Types, JoinTypes
          <5>2. CASE SeatSpectator(r, c, credential) /\ who[c].way # "invite"
            BY <2>a, <3>1, <5>2 DEF SeatSpectator, Types, JoinTypes
          <5>3. CASE \E seat : SeatPlayer(r, c, seat, credential) /\ SeatOffer(r, c) # {}
            <6>1. at'[c] = "seated" /\ who[c].way # "watch"
              BY <2>a, <3>1, <5>3 DEF SeatPlayer, SeatOffer, Types, JoinTypes
            <6> QED BY <6>1
          <5> QED BY <4>2, <5>1, <5>2, <5>3 DEF Admission, Decide
        <4>3. CASE at' = [at EXCEPT ![c] = "unheard"] \/ at' = [at EXCEPT ![c] = "refused"]
          BY <2>a, <3>1, <3>2, <4>3 DEF Types, JoinTypes
        <4>4. \/ \E credential : Admission(r, c, credential)
              \/ at' = [at EXCEPT ![c] = "unheard"] \/ at' = [at EXCEPT ![c] = "refused"]
          BY <4>1 DEF Admit, AdmitStale, Refuse
        <4> HIDE DEF c
        <4> QED BY <3>2, <4>2, <4>3, <4>4
      <3> QED BY <3>3, <3>4, <3>5
    <2>3. CASE at' = at
      BY <2>3
    <2>4. at' = at \/ (\E c \in Conn : Doors(c)) \/ (\E r \in DOMAIN rooms : Serves(r))
      BY <1>1, Steps DEF Commands, Command, UpdateDeck, DeckBuilt, TryStart, Disconnect, Rest, BotCalled, BotUnreachable,
                         MatchEnds, DuelBreaks, vars
    <2> QED BY <2>1, <2>2, <2>3, <2>4
  <1>2. ASSUME IInv, [Next]_vars
        PROVE  Started
    <2>a. Types /\ EntriesInv /\ HomesInv /\ CellsInv /\ ready \subseteq readied
      BY <1>2 DEF IInv
    <2>1. ASSUME NEW c \in Conn, TryStart(c)
          PROVE  Started
      <3> DEFINE r == home[c]
      <3>1. r \in Room /\ players[r] \subseteq ready /\ FreeSeats(r) = {} /\ phase' = [phase EXCEPT ![r] = "match"]
        BY <2>a, <2>1, Basics DEF TryStart, Heard, Client, StartMatch
      <3>2. \A s \in Room \ {r} : phase'[s] = phase[s]
        BY <2>a, <3>1 DEF Types, RoomTypes
      <3> HIDE DEF r
      <3>3. PICK p \in players[r], q \in players[r] : pos[p] = 0 /\ pos[q] = 1
        BY <3>1 DEF FreeSeats, Seat
      <3>4. players[r] = {p, q} /\ p # q
        <4>1. \A s \in players[r] : pos[s] = 0 \/ pos[s] = 1
          BY <2>a, <3>1 DEF CellsInv, Seat
        <4>2. \A s, t \in players[r] : pos[s] = pos[t] => s = t
          BY <2>a, <3>1 DEF CellsInv
        <4> QED BY <3>3, <4>1, <4>2
      <3>5. Cardinality({p} \cup {q}) = 2
        <4>1. IsFiniteSet({p}) /\ Cardinality({p}) = 1
          BY FS_Singleton
        <4>2. q \notin {p}
          BY <3>4
        <4> QED BY <4>1, <4>2, FS_AddElement, SMTT(40)
      <3>6. players[r] = {p} \cup {q}
        BY <3>4
      <3> QED BY <2>a, <3>1, <3>2, <3>5, <3>6
    <2>2. CASE phase' = phase
      BY <2>2
    <2>3. ASSUME NEW r \in DOMAIN rooms, DuelBreaks(r)
          PROVE  Started
      BY <2>a, <2>3 DEF DuelBreaks, Wait, Types, RoomTypes
    <2>4. phase' = phase \/ (\E c \in Conn : TryStart(c)) \/ (\E r \in DOMAIN rooms : DuelBreaks(r))
      BY <1>2, <2>a, Steps, DoorsArrive, SectionsServe DEF Arrival, Frame, Commands, Command, UpdateDeck, DeckBuilt, Disconnect,
                         Rest, BotCalled, BotUnreachable, MatchEnds, vars, roomVars
    <2> QED BY <2>1, <2>2, <2>3, <2>4
  <1>3. IInv /\ [Next]_vars => Invited /\ Watched /\ Started
    BY <1>1, <1>2
  <1> QED BY <1>3, LobbyInvariant, PTL DEF Spec, InviteNeverWatches, WatcherJoinsTheStands, StartIsDeliberate
=============================================================================
