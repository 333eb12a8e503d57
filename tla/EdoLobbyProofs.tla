--------------------------- MODULE EdoLobbyProofs ---------------------------
(***************************************************************************)
(* What holds in the lobby of an EDOPro room for every number of clients   *)
(* and seats.  The order of the operations that wait for the mutex is what *)
(* it rests on: a connection is seated by the one operation it waits for,  *)
(* the removal of a member is the last it moves by (OpsInv), and so who    *)
(* has left never comes back, and the host, who is never removed, stays    *)
(* while anybody does.                                                     *)
(***************************************************************************)
EXTENDS EdoLobby, SequenceTheorems, FiniteSetTheorems, WellFoundedInduction, TLAPS

-----------------------------------------------------------------------------
(* The inductive invariant. *)

Removes(op, c) == op.do = "remove" /\ op.who = c
Mine == {"ready", "notReady", "observer", "toDuel", "deck", "remove"}

\* Who an operation is of, and what it may find.
OpsInv ==
  \A i \in DOMAIN asked :
    LET op == asked[i]
    IN  /\ op.do = "join" => conn[op.who] = "joining" /\ holder # op.who
        /\ op.do = "create" => conn[op.who] = "creating"
        /\ op.do \in {"join", "create"} => \A j \in DOMAIN asked : asked[j] = op => j = i
        /\ op.do \in Mine => conn[op.who] = "in"
        /\ op.do \in {"observer", "toDuel"} =>
             role[op.who] # "none" /\ \A j \in DOMAIN asked : j < i => ~Removes(asked[j], op.who)
        /\ op.do = "remove" => op.who \notin host /\ op.who \in closed

\* Whoever has a place, a flag or a deck came in.
ConnInv ==
  /\ \A c \in Client : c \in host \cup ready \cup saved \/ role[c] # "none" => conn[c] = "in"
  /\ \A c \in Client : conn[c] = "in" /\ c \notin closed => role[c] # "none"
  /\ \A c \in Client : role[c] = "player" => team[c] # 3
  /\ \A b \in builds : conn[b.who] = "in"
  /\ \A p \in Client : deck[p].who # NoClient => conn[deck[p].who] = "in"
  /\ holder # NoClient => conn[holder] = "joining"
  /\ phase = "none" => asked = <<>> /\ holder = NoClient /\ \A c \in Client : conn[c] # "in"

\* The host plays as long as anybody is a member.
HostInv ==
  /\ (\E c \in Client : role[c] # "none") => Players \cap host # {}
  /\ \A c, d \in Players \cap host : c = d
  /\ \A c \in host : role[c] # "spectator"

\* Positions, and with one seat in the second team whose deck is whose.
SeatsInv ==
  /\ SeatsDistinct
  /\ Team1 = 1 => \A p \in Client : deck[p].who \notin {p, NoClient} => role[deck[p].who] = "none"

\* In an unranked lobby the mutex is free: a member that closed and might start
\* the match is out before anything else is heard.
Leaving(c) == \E i \in DOMAIN asked : Removes(asked[i], c) \/ asked[i].do = "destroy"
UnrankedInv ==
  ~ranked =>
    /\ holder = NoClient /\ Len(asked) <= 1
    /\ \A i \in DOMAIN asked : /\ asked[i].do = "ready" => asked[i].who \notin closed
                               /\ asked[i].do = "start" => heard
                               /\ asked[i].do = "remove" => asked[i].from = role[asked[i].who]
    /\ phase = "waiting" /\ heard =>
         /\ \A c \in closed \cap (ready \cup saved) : role[c] # "none" => Leaving(c)
         /\ ~listed => \E i \in DOMAIN asked : asked[i].do = "destroy"

IInv == TypeOK /\ OpsInv /\ ConnInv /\ HostInv /\ SeatsInv /\ UnrankedInv /\ HeldReadyAwaitsADeck

-----------------------------------------------------------------------------
(* Types, by the part of the state. *)

NetTypes ==
  /\ phase \in {"none", "waiting", "rps"} /\ listed \in BOOLEAN /\ heard \in BOOLEAN /\ ranked \in BOOLEAN
  /\ conn \in [Client -> {"away", "creating", "checking", "joining", "in", "refused", "unheard"}]
  /\ closed \subseteq Client /\ late \subseteq Client /\ tokens \subseteq Client /\ holder \in Client \cup {NoClient}

PlaceTypes ==
  /\ role \in [Client -> {"none", "player", "spectator"}]
  /\ seat \in [Client -> Seats \cup {NoSeat}] /\ team \in [Client -> {0, 1, 3}]
  /\ \A c \in Client : role[c] = "spectator" => seat[c] = NoSeat /\ team[c] = 3

FlagTypes ==
  /\ host \subseteq Client /\ ready \subseteq Client /\ updating \subseteq Client /\ saved \subseteq Client
  /\ kicked \subseteq Client
  /\ deck \in [Client -> [who : Client, n : Nat \ {0}] \cup {NoDeck}]
  /\ builds \subseteq [who : Client, n : Nat \ {0}, ok : BOOLEAN]
  /\ sent \in [Client -> Nat]

LEMMA TypesSplit == TypeOK <=> NetTypes /\ PlaceTypes /\ FlagTypes /\ asked \in Seq(Op)
  <1>1. TypeOK => NetTypes /\ PlaceTypes /\ asked \in Seq(Op)
    BY DEF TypeOK, NetTypes, PlaceTypes
  <1>2. TypeOK => FlagTypes
    BY DEF TypeOK, FlagTypes
  <1>3. NetTypes /\ PlaceTypes /\ FlagTypes /\ asked \in Seq(Op) => TypeOK
    BY DEF TypeOK, NetTypes, PlaceTypes, FlagTypes
  <1> QED BY <1>1, <1>2, <1>3

LEMMA OpFields ==
  ASSUME NEW op \in Op
  PROVE  /\ op.do \in {"join", "create", "start", "destroy", "kick"} \cup Mine
         /\ op.do \in {"join", "create"} \cup Mine => op.who \in Client
         /\ op.do = "deck" => op.n \in Nat \ {0}
         /\ op.do = "kick" => op.pos \in Seats
         /\ op.do \in {"join", "create"} => op = [do |-> op.do, who |-> op.who]
         /\ op.do = "remove" => op.from \in {"player", "spectator"}
  BY DEF Op, Mine

LEMMA OpMakes ==
  /\ \A c \in Client : \A k \in {"join", "create", "ready", "notReady", "observer", "toDuel"} : [do |-> k, who |-> c] \in Op
  /\ \A c \in Client, f \in {"player", "spectator"} : [do |-> "remove", who |-> c, from |-> f] \in Op
  /\ [do |-> "start"] \in Op /\ [do |-> "destroy"] \in Op
  /\ \A c \in Client, n \in Nat \ {0} : [do |-> "deck", who |-> c, n |-> n] \in Op
  /\ \A s \in Seats : [do |-> "kick", pos |-> s] \in Op
  BY DEF Op

LEMMA Asks ==
  ASSUME asked \in Seq(Op), NEW op \in Op, asked' = Append(asked, op)
  PROVE  /\ asked' \in Seq(Op) /\ Len(asked') = Len(asked) + 1 /\ Len(asked) \in Nat /\ DOMAIN asked = 1 .. Len(asked)
         /\ DOMAIN asked' = 1 .. Len(asked) + 1 /\ asked'[Len(asked) + 1] = op
         /\ \A i \in DOMAIN asked : i \in DOMAIN asked' /\ asked'[i] = asked[i]
         /\ \A i \in DOMAIN asked' : i \in DOMAIN asked \/ i = Len(asked) + 1
  <1>1. /\ asked' \in Seq(Op) /\ Len(asked') = Len(asked) + 1
        /\ \A i \in 1 .. Len(asked) : asked'[i] = asked[i]
        /\ asked'[Len(asked) + 1] = op
    BY AppendProperties
  <1>2. Len(asked) \in Nat /\ DOMAIN asked = 1 .. Len(asked) /\ DOMAIN asked' = 1 .. Len(asked')
    BY <1>1
  <1> QED BY <1>1, <1>2

LEMMA Pops ==
  ASSUME asked \in Seq(Op), asked # <<>>, asked' = Tail(asked)
  PROVE  /\ asked' \in Seq(Op) /\ Len(asked') = Len(asked) - 1 /\ Len(asked) \in Nat
         /\ 1 \in DOMAIN asked /\ asked[1] = Head(asked) /\ asked[1] \in Op
         /\ \A i \in DOMAIN asked' : i + 1 \in DOMAIN asked /\ i \in Nat \ {0} /\ asked'[i] = asked[i + 1]
  <1>1. /\ asked' \in Seq(Op) /\ Len(asked') = Len(asked) - 1 /\ Head(asked) \in Op
        /\ \A i \in 1 .. Len(asked') : asked'[i] = asked[i + 1]
    BY HeadTailProperties
  <1>2. Len(asked) \in Nat /\ DOMAIN asked = 1 .. Len(asked) /\ DOMAIN asked' = 1 .. Len(asked') /\ asked[1] = Head(asked)
    BY <1>1
  <1>3. Len(asked) >= 1
    BY <1>1, <1>2
  <1> QED BY <1>1, <1>2, <1>3

LEMMA LeastIn ==
  ASSUME NEW S \in SUBSET Nat, S # {}
  PROVE  Least(S) \in S /\ \A u \in S : Least(S) <= u
  <1>1. \E r \in S : \A s \in S : r <= s
    <2>1. OpToRel(<, Nat) = {pair \in Nat \X Nat : pair[1] < pair[2]}
      BY Zenon DEF OpToRel
    <2>2. \E r \in S : \A s \in S : ~ (<<s, r>> \in OpToRel(<, Nat))
      BY NatLessThanWellFounded, WFMin, Zenon
    <2>3. PICK r \in S : \A s \in S : ~ (<<s, r>> \in {pair \in Nat \X Nat : pair[1] < pair[2]})
      BY <2>1, <2>2
    <2>4. ASSUME NEW s \in S, ~ (r <= s)
          PROVE  FALSE
      <3>1. s \in Nat /\ r \in Nat /\ s < r
        BY <2>4
      <3>2. <<s, r>> \in {pair \in Nat \X Nat : pair[1] < pair[2]}
        BY <3>1
      <3> QED BY <2>3, <3>2
    <2> QED BY <2>3, <2>4
  <1> QED BY <1>1 DEF Least

LEMMA SeatRange ==
  /\ Seats \subseteq Nat /\ NoSeat \notin Seats /\ \A s \in Seats : TeamOf(s) \in {0, 1}
  /\ \A t \in {0, 1} : FreeOf(t) \subseteq Seats
  BY LobbyBounds DEF Seats, NoSeat, TeamOf, FreeOf

\* calculatePlaceUnsafe finds a seat nobody of its team holds, or there is none.
LEMMA PlaceIsFree ==
  /\ \A s \in FreePlace : /\ s \in Seats
                          /\ ~\E c \in Players : seat[c] = s /\ team[c] = TeamOf(s)
  /\ FreePlace = {} => FreeOf(0) = {} /\ FreeOf(1) = {}
  <1>1. \A t \in {0, 1} : FreeOf(t) # {} => Least(FreeOf(t)) \in FreeOf(t)
    BY SeatRange, LeastIn
  <1>2. \A t \in {0, 1} : \A s \in FreeOf(t) : s \in Seats /\ ~\E c \in Players : seat[c] = s /\ team[c] = TeamOf(s)
    BY DEF FreeOf
  <1>3. \A s \in FreePlace : s \in FreeOf(0) \/ s \in FreeOf(1)
    BY <1>1 DEF FreePlace
  <1>4. FreePlace = {} => FreeOf(0) = {} /\ FreeOf(1) = {}
    BY DEF FreePlace
  <1> QED BY <1>2, <1>3, <1>4

\* With one seat in the second team, nextAvailablePosition gives a free seat its team.
LEMMA NextIsFree ==
  ASSUME Unoccupied # {}, NEW s \in Seats \cup {NoSeat}
  PROVE  /\ NextPlace(s).pos \in Unoccupied /\ NextPlace(s).pos \in Seats /\ NextPlace(s).team \in {0, 1}
         /\ Team1 = 1 /\ s \notin Unoccupied => NextPlace(s).team = TeamOf(NextPlace(s).pos)
  <1> DEFINE later == {u \in Unoccupied : u > s}
  <1>1. Unoccupied \subseteq Seats /\ later \subseteq Unoccupied /\ Seats \subseteq Nat /\ 0 \in Seats
    BY SeatRange, LobbyBounds DEF Unoccupied, Seats
  <1>2. CASE later # {}
    <2>1. Least(later) \in later
      BY <1>1, <1>2, LeastIn
    <2>2. NextPlace(s) = [pos |-> Least(later), team |-> TeamOf(Least(later))]
      BY <1>2 DEF NextPlace
    <2>3. NextPlace(s).pos = Least(later) /\ NextPlace(s).team = TeamOf(Least(later))
      BY <2>2
    <2>4. Least(later) \in Unoccupied /\ Least(later) \in Seats
      BY <1>1, <2>1
    <2>5. TeamOf(Least(later)) \in {0, 1}
      BY <2>4, SeatRange
    <2> HIDE DEF later
    <2> QED BY <2>3, <2>4, <2>5
  <1>3. CASE later = {}
    <2>1. Least(Unoccupied) \in Unoccupied /\ Least(Unoccupied) \in Seats
      BY <1>1, LeastIn
    <2>2. NextPlace(s) = [pos |-> Least(Unoccupied), team |-> TeamOf(Least(Seats))]
      BY <1>3 DEF NextPlace
    <2>a. NextPlace(s).pos = Least(Unoccupied) /\ NextPlace(s).team = TeamOf(Least(Seats))
      BY <2>2
    <2>3. Least(Seats) = 0
      <3>1. Seats \in SUBSET Nat /\ Seats # {}
        BY <1>1
      <3>2. Least(Seats) \in Seats /\ \A u \in Seats : Least(Seats) <= u
        BY <3>1, LeastIn
      <3>3. Least(Seats) \in Nat /\ Least(Seats) <= 0
        BY <1>1, <3>2
      <3> QED BY <3>3
    <2>4. TeamOf(0) = 0
      BY LobbyBounds DEF TeamOf
    <2>5. Team1 = 1 /\ s \notin Unoccupied => TeamOf(Least(Unoccupied)) = 0
      <3> SUFFICES ASSUME Team1 = 1, s \notin Unoccupied
                   PROVE  TeamOf(Least(Unoccupied)) = 0
        OBVIOUS
      <3>1. ~(Least(Unoccupied) > s) /\ Least(Unoccupied) # s
        BY <1>3, <2>1
      <3> HIDE DEF later
      <3> DEFINE l == Least(Unoccupied)
      <3>2. l \in Nat
        BY <1>1, <2>1
      <3>3. s \in Seats \/ s = -1
        BY DEF NoSeat
      <3> HIDE DEF l
      <3>4. ~(l > s) /\ l # s
        BY <3>1 DEF l
      <3>5. s \in Nat /\ s \in Seats /\ l < s
        BY <1>1, <3>2, <3>3, <3>4
      <3>6. s <= Team0 /\ Team0 \in Nat
        BY <3>5, LobbyBounds DEF Seats
      <3>7. l < Team0
        BY <3>2, <3>5, <3>6
      <3> QED BY <3>7 DEF TeamOf, l
    <2> HIDE DEF later
    <2> QED BY <2>1, <2>a, <2>3, <2>4, <2>5
  <1> QED BY <1>2, <1>3

-----------------------------------------------------------------------------
(* What a step does to the places, the flags and the decks of the members:  *)
(* each action is of one of these kinds.                                    *)

Members == <<role, seat, team, host, ready, updating, saved, deck, builds, sent>>

\* Nothing, while connections knock, close or are turned away.
Quiet ==
  /\ UNCHANGED Members /\ kicked' = kicked /\ late' = late
  /\ closed \subseteq closed' /\ closed' \subseteq Client
  /\ \A d \in Client : conn'[d] = "in" <=> conn[d] = "in"
  /\ conn' \in [Client -> {"away", "creating", "checking", "joining", "in", "refused", "unheard"}]

\* A newcomer gets its place.
Came(c) == conn[c] \in {"creating", "joining"} /\ SitOrStand(c) /\ UNCHANGED decks

\* A player that is not the host stands up.
Stood(c) ==
  /\ c \in Players \ host /\ MoveToStands(c)
  /\ UNCHANGED <<nets, host, updating, saved, deck, decks>> /\ kicked' \in {kicked, kicked \cup {c}}

\* A spectator sits down, or a player moves on.
Goal(c) == IF team[c] = 3 THEN {[pos |-> s, team |-> TeamOf(s)] : s \in FreePlace}
           ELSE IF Unoccupied = {} THEN {} ELSE {NextPlace(seat[c])}
Sat(c) ==
  /\ role[c] # "none"
  /\ \E g \in Goal(c) :
       /\ seat' = [seat EXCEPT ![c] = g.pos] /\ team' = [team EXCEPT ![c] = g.team]
       /\ role' = IF team[c] = 3 THEN [role EXCEPT ![c] = "player"] ELSE role
  /\ ready' = ready \ {c} /\ UNCHANGED <<nets, host, updating, saved, kicked, deck, decks>>

\* A member that closed is out.
Gone(c) ==
  /\ conn[c] = "in" /\ c \notin host /\ c \in closed /\ UNCHANGED decks
  /\ \E f \in {"player", "spectator"} : RunRemove(c, f)

\* A member's READY or deck.
Flagged(c) ==
  /\ conn[c] = "in" /\ UNCHANGED <<nets, places, host, kicked>>
  /\ ready' \subseteq ready \cup {c} /\ saved' \subseteq saved \cup {c}
  /\ updating' \subseteq updating \cup {c}
  /\ saved' \subseteq updating'
  /\ \A b \in builds' : b \in builds \/ b \in [who : {c}, n : Nat \ {0}, ok : BOOLEAN]
  /\ sent' \in [Client -> Nat]
  /\ deck' = deck \/ \E n \in Nat \ {0} :
       deck' = [p \in Client |-> IF p \in Players /\ seat[p] = seat[c] THEN [who |-> c, n |-> n] ELSE deck[p]]

StepKind ==
  Quiet \/ \E c \in Client : Came(c) \/ Stood(c) \/ Sat(c) \/ Gone(c) \/ Flagged(c)

\* The operation the mutex runs is the first, and finds what OpsInv says.
LEMMA HeadOp ==
  ASSUME TypeOK, OpsInv, asked # <<>>
  PROVE  LET op == Head(asked)
         IN  /\ op \in Op /\ asked[1] = op /\ 1 \in DOMAIN asked
             /\ op.do \in {"join", "create"} \cup Mine => op.who \in Client
             /\ op.do = "join" => conn[op.who] = "joining" /\ holder # op.who
             /\ op.do = "create" => conn[op.who] = "creating"
             /\ op.do \in Mine => conn[op.who] = "in"
             /\ op.do \in {"observer", "toDuel"} => role[op.who] # "none"
             /\ op.do = "remove" => op.who \notin host /\ op.who \in closed /\ op.from \in {"player", "spectator"}
             /\ op.do = "deck" => op.n \in Nat \ {0}
             /\ op.do = "kick" => op.pos \in Seats
  <1>1. asked \in Seq(Op)
    BY DEF TypeOK
  <1>2. 1 \in DOMAIN asked /\ asked[1] = Head(asked) /\ asked[1] \in Op
    <2>1. Head(asked) \in Op
      BY <1>1, HeadTailProperties
    <2>2. Len(asked) \in Nat /\ DOMAIN asked = 1 .. Len(asked) /\ asked[1] = Head(asked)
      BY <1>1
    <2>3. Len(asked) >= 1
      BY <1>1, <2>2
    <2> QED BY <2>1, <2>2, <2>3
  <1>3. asked[1].do \in {"join", "create"} \cup Mine => asked[1].who \in Client
    BY <1>2, OpFields
  <1>4. /\ (asked[1].do = "deck" => asked[1].n \in Nat \ {0}) /\ (asked[1].do = "kick" => asked[1].pos \in Seats)
        /\ asked[1].do = "remove" => asked[1].from \in {"player", "spectator"}
    BY <1>2, OpFields
  <1>5. LET op == asked[1]
        IN  /\ op.do = "join" => conn[op.who] = "joining" /\ holder # op.who
            /\ op.do = "create" => conn[op.who] = "creating"
            /\ op.do \in Mine => conn[op.who] = "in"
            /\ op.do \in {"observer", "toDuel"} => role[op.who] # "none"
            /\ op.do = "remove" => op.who \notin host /\ op.who \in closed
    BY <1>2 DEF OpsInv
  <1> QED BY <1>2, <1>3, <1>4, <1>5

LEMMA RunKinds ==
  ASSUME TypeOK, OpsInv, ConnInv, HostInv, HeldReadyAwaitsADeck, Run
  PROVE  StepKind
  <1> DEFINE op == Head(asked)
             c == op.who
  <1>a. asked # <<>> /\ UNCHANGED decks
    BY DEF Run
  <1>b. /\ op.do \in {"join", "create"} \cup Mine => c \in Client
        /\ op.do = "join" => conn[c] = "joining"
        /\ op.do = "create" => conn[c] = "creating"
        /\ op.do \in Mine => conn[c] = "in"
        /\ op.do \in {"observer", "toDuel"} => role[c] # "none"
        /\ op.do = "remove" => c \notin host /\ c \in closed /\ op.from \in {"player", "spectator"}
        /\ op.do = "deck" => op.n \in Nat \ {0}
    BY <1>a, HeadOp
  <1>c. \/ op.do = "create" /\ RunCreate(c)
        \/ op.do = "join" /\ RunJoin(c)
        \/ op.do = "ready" /\ RunReady(c)
        \/ op.do = "notReady" /\ RunNotReady(c)
        \/ op.do = "observer" /\ RunObserver(c)
        \/ op.do = "toDuel" /\ RunToDuel(c)
        \/ op.do = "kick" /\ RunKick(op.pos)
        \/ op.do = "deck" /\ RunDeck(c, op.n)
        \/ op.do = "remove" /\ RunRemove(c, op.from)
        \/ op.do = "start" /\ RunStart
        \/ op.do = "destroy" /\ RunDestroy
    BY DEF Run
  <1>d. /\ closed \subseteq Client /\ sent \in [Client -> Nat]
        /\ \A d \in Client : role[d] = "spectator" => team[d] = 3
        /\ role \in [Client -> {"none", "player", "spectator"}]
        /\ conn \in [Client -> {"away", "creating", "checking", "joining", "in", "refused", "unheard"}]
        /\ builds \subseteq [who : Client, n : Nat \ {0}, ok : BOOLEAN]
    BY DEF TypeOK
  <1>e. saved \subseteq updating
    BY DEF HeldReadyAwaitsADeck
  <1>f. UNCHANGED <<nets, places, flags>> => Quiet
    BY <1>a, <1>d DEF Quiet, Members, nets, places, flags, decks
  <1> HIDE DEF op, c
  <1>1. CASE op.do = "create" /\ RunCreate(c)
    <2>1. Came(c) /\ c \in Client
      BY <1>a, <1>b, <1>1 DEF Came, RunCreate, SitOrStand
    <2> QED BY <2>1 DEF StepKind
  <1>2. CASE op.do = "join" /\ RunJoin(c)
    <2>1. CASE SitOrStand(c)
      <3>1. Came(c) /\ c \in Client
        BY <1>a, <1>b, <1>2, <2>1 DEF Came
      <3> QED BY <3>1 DEF StepKind
    <2>2. CASE UNCHANGED <<nets, places, flags>>
      BY <2>2, <1>f DEF StepKind
    <2> QED BY <1>2, <2>1, <2>2 DEF RunJoin
  <1>3. CASE op.do = "ready" /\ RunReady(c)
    <2>1. c \in Client /\ conn[c] = "in"
      BY <1>b, <1>3 DEF Mine
    <2>2. Flagged(c)
      BY <1>a, <1>d, <1>e, <1>3, <2>1 DEF Flagged, RunReady, decks, nets, places
    <2> QED BY <2>1, <2>2 DEF StepKind
  <1>4. CASE op.do = "notReady" /\ RunNotReady(c)
    <2>1. c \in Client /\ conn[c] = "in"
      BY <1>b, <1>4 DEF Mine
    <2>2. Flagged(c)
      BY <1>a, <1>d, <1>e, <1>4, <2>1 DEF Flagged, RunNotReady, decks, nets, places
    <2> QED BY <2>1, <2>2 DEF StepKind
  <1>5. CASE op.do = "observer" /\ RunObserver(c)
    <2>1. c \in Client /\ role[c] # "none"
      BY <1>b, <1>5 DEF Mine
    <2>2. CASE team[c] # 3 /\ c \notin host
      <3>1. c \in Players \ host
        BY <1>d, <2>1, <2>2 DEF Players
      <3>2. Stood(c)
        BY <1>a, <1>5, <2>2, <3>1 DEF Stood, RunObserver
      <3> QED BY <2>1, <3>2 DEF StepKind
    <2>3. CASE ~(team[c] # 3 /\ c \notin host)
      <3>1. UNCHANGED <<nets, places, flags>>
        BY <1>5, <2>3 DEF RunObserver, flags
      <3> QED BY <3>1, <1>f DEF StepKind
    <2> QED BY <2>2, <2>3
  <1>6. CASE op.do = "toDuel" /\ RunToDuel(c)
    <2>1. c \in Client /\ role[c] # "none"
      BY <1>b, <1>6 DEF Mine
    <2> DEFINE goal == IF Banned(c) THEN {} ELSE Goal(c)
    <2>2. \/ \E g \in goal :
             /\ seat' = [seat EXCEPT ![c] = g.pos] /\ team' = [team EXCEPT ![c] = g.team]
             /\ role' = IF team[c] = 3 THEN [role EXCEPT ![c] = "player"] ELSE role
             /\ ready' = ready \ {c}
          \/ goal = {} /\ UNCHANGED <<places, ready>>
      BY <1>6 DEF RunToDuel, Goal
    <2>3. UNCHANGED <<nets, host, updating, saved, kicked, deck>>
      BY <1>6 DEF RunToDuel
    <2>4. \A g \in goal : g \in Goal(c)
      OBVIOUS
    <2> HIDE DEF goal
    <2>5. CASE UNCHANGED <<places, ready>>
      <3>1. UNCHANGED <<nets, places, flags>>
        BY <2>3, <2>5 DEF flags
      <3> QED BY <3>1, <1>f DEF StepKind
    <2>6. CASE \E g \in goal :
             /\ seat' = [seat EXCEPT ![c] = g.pos] /\ team' = [team EXCEPT ![c] = g.team]
             /\ role' = IF team[c] = 3 THEN [role EXCEPT ![c] = "player"] ELSE role
             /\ ready' = ready \ {c}
      <3>1. Sat(c)
        BY <1>a, <2>1, <2>3, <2>4, <2>6 DEF Sat
      <3> QED BY <2>1, <3>1 DEF StepKind
    <2> QED BY <2>2, <2>5, <2>6
  <1>7. CASE op.do = "kick" /\ RunKick(op.pos)
    <2>1. CASE \E d \in Players \ host : MoveToStands(d) /\ kicked' = kicked \cup {d}
      <3>1. PICK d \in Players \ host : MoveToStands(d) /\ kicked' = kicked \cup {d}
        BY <2>1
      <3>2. Stood(d) /\ d \in Client
        BY <1>a, <1>7, <3>1 DEF Stood, RunKick, Players
      <3> QED BY <3>2 DEF StepKind
    <2>2. CASE UNCHANGED <<places, ready, kicked>>
      <3>1. UNCHANGED <<nets, places, flags>>
        BY <1>7, <2>2 DEF RunKick, flags
      <3> QED BY <3>1, <1>f DEF StepKind
    <2> QED BY <1>7, <2>1, <2>2 DEF RunKick
  <1>8. CASE op.do = "deck" /\ RunDeck(c, op.n)
    <2>1. c \in Client /\ conn[c] = "in"
      BY <1>b, <1>8 DEF Mine
    <2>2. Flagged(c)
      BY <1>a, <1>b, <1>d, <1>e, <1>8, <2>1 DEF Flagged, RunDeck, decks, nets, places
    <2> QED BY <2>1, <2>2 DEF StepKind
  <1>9. CASE op.do = "remove" /\ RunRemove(c, op.from)
    <2>1. c \in Client /\ Gone(c)
      BY <1>a, <1>b, <1>9 DEF Gone, Mine
    <2> QED BY <2>1 DEF StepKind
  <1>10. CASE op.do = "start" /\ RunStart
    BY <1>10, <1>f DEF StepKind, RunStart
  <1>11. CASE op.do = "destroy" /\ RunDestroy
    <2>1. Quiet
      BY <1>a, <1>d, <1>11 DEF Quiet, Members, RunDestroy, places, flags, decks
    <2> QED BY <2>1 DEF StepKind
  <1> QED BY <1>c, <1>1, <1>2, <1>3, <1>4, <1>5, <1>6, <1>7, <1>8, <1>9, <1>10, <1>11

LEMMA NextKinds ==
  ASSUME TypeOK, OpsInv, ConnInv, HostInv, HeldReadyAwaitsADeck, [Next]_vars
  PROVE  StepKind
  <1>d. /\ closed \subseteq Client /\ sent \in [Client -> Nat]
        /\ conn \in [Client -> {"away", "creating", "checking", "joining", "in", "refused", "unheard"}]
        /\ builds \subseteq [who : Client, n : Nat \ {0}, ok : BOOLEAN]
    BY DEF TypeOK
  <1>e. saved \subseteq updating
    BY DEF HeldReadyAwaitsADeck
  <1>f. UNCHANGED <<nets, places, flags, decks>> => Quiet
    BY <1>d DEF Quiet, Members, nets, places, flags, decks
  <1>g. ASSUME NEW c \in Client, NEW k \in {"creating", "checking", "joining", "refused", "unheard"}, conn[c] # "in",
               conn' = [conn EXCEPT ![c] = k], closed \subseteq closed', closed' \subseteq Client, UNCHANGED <<late, places, flags, decks>>
        PROVE  Quiet
    BY <1>d, <1>g DEF Quiet, Members, places, flags, decks
  <1>1. CASE CreateByHttp
    BY <1>1, <1>f DEF CreateByHttp, StepKind
  <1>2. CASE Run
    BY <1>2, RunKinds
  <1>3. ASSUME NEW c \in Client, CreateGame(c) PROVE Quiet
    <2>1. conn[c] = "away" /\ conn' = [conn EXCEPT ![c] = "creating"] /\ UNCHANGED <<closed, late, places, flags, decks>>
      BY <1>3 DEF CreateGame
    <2> QED BY <2>1, <1>d, <1>g
  <1>4. ASSUME NEW c \in Client, Created(c) PROVE Quiet
    BY <1>4, <1>f DEF Created
  <1>5. ASSUME NEW c \in Client, CreateRefused(c) PROVE Quiet
    <2>1. conn[c] = "creating" /\ conn' = [conn EXCEPT ![c] = "refused"] /\ UNCHANGED <<closed, late, places, flags, decks>>
      BY <1>5 DEF CreateRefused
    <2> QED BY <2>1, <1>d, <1>g
  <1>6. ASSUME NEW c \in Client, JoinGame(c) PROVE Quiet
    <2>1. conn[c] = "away" /\ \E k \in {"checking", "refused"} : conn' = [conn EXCEPT ![c] = k]
      BY <1>6 DEF JoinGame
    <2>2. closed' \in {closed, closed \cup {c}} /\ UNCHANGED <<late, places, flags, decks>>
      BY <1>6 DEF JoinGame
    <2> QED BY <2>1, <2>2, <1>d, <1>g
  <1>7. ASSUME NEW c \in Client, JoinRefused(c) PROVE Quiet
    <2>1. conn[c] = "checking" /\ conn' = [conn EXCEPT ![c] = "refused"] /\ closed' \in {closed, closed \cup {c}} /\ UNCHANGED <<late, places, flags, decks>>
      BY <1>7 DEF JoinRefused
    <2> QED BY <2>1, <1>d, <1>g
  <1>8. ASSUME NEW c \in Client, Join(c) PROVE Quiet
    <2>1. conn[c] = "checking" /\ \E k \in {"unheard", "refused", "joining"} : conn' = [conn EXCEPT ![c] = k]
      BY <1>8 DEF Join
    <2>2. UNCHANGED <<closed, late, places, flags, decks>>
      BY <1>8 DEF Join
    <2> QED BY <2>1, <2>2, <1>d, <1>g
  <1>9. ASSUME NEW c \in Client, NEW ok \in Admits, LookedUp(c, ok) PROVE Quiet \/ Came(c)
    <2>1. conn[c] = "joining"
      BY <1>9, LobbyBounds DEF LookedUp, ConnInv
    <2>2. CASE ok
      BY <1>9, <2>1, <2>2 DEF LookedUp, Came
    <2>3. CASE ~ok
      <3>1. conn' = [conn EXCEPT ![c] = "refused"] /\ UNCHANGED <<closed, late, places, flags, decks>>
        BY <1>9, <2>3 DEF LookedUp
      <3> QED BY <3>1, <2>1, <1>d, <1>g
    <2> QED BY <2>2, <2>3
  <1>10. ASSUME NEW c \in Client, Command(c) PROVE Quiet
    BY <1>10, <1>f DEF Command
  <1>11. ASSUME NEW c \in Client, UpdateDeck(c) PROVE Flagged(c)
    <2>1. conn[c] = "in" /\ sent' = [sent EXCEPT ![c] = @ + 1]
      BY <1>11 DEF UpdateDeck, Heard
    <2>2. sent' \in [Client -> Nat] /\ sent'[c] \in Nat \ {0}
      BY <1>d, <2>1
    <2>3. \A b \in Outcomes(c, sent'[c]) : b \in [who : {c}, n : Nat \ {0}, ok : BOOLEAN]
      BY <2>2 DEF Outcomes
    <2>4. \A b \in builds' : b \in builds \/ b \in [who : {c}, n : Nat \ {0}, ok : BOOLEAN]
      BY <1>11, <2>3 DEF UpdateDeck
    <2>5. UNCHANGED <<nets, places, host, ready, saved, kicked, deck>> /\ updating' = updating \cup {c}
      BY <1>11 DEF UpdateDeck
    <2> QED BY <1>e, <2>1, <2>2, <2>4, <2>5 DEF Flagged
  <1>12. ASSUME NEW c \in Client, Disconnect(c) PROVE Quiet
    BY <1>12, <1>d DEF Quiet, Members, Disconnect, places, flags, decks
  <1>13. ASSUME NEW b \in builds, Built(b) PROVE b.who \in Client /\ Flagged(b.who)
    <2>1. b.who \in Client /\ conn[b.who] = "in"
      BY <1>d DEF ConnInv
    <2>2. UNCHANGED <<nets, places, host, updating, saved, kicked, deck, sent>> /\ builds' = builds \ {b} /\ ready' \subseteq ready
      BY <1>13 DEF Built
    <2> QED BY <1>d, <1>e, <2>1, <2>2 DEF Flagged
  <1>14. CASE UNCHANGED vars
    BY <1>14, <1>f DEF vars, nets, places, flags, decks, StepKind
  <1> QED BY <1>1, <1>2, <1>3, <1>4, <1>5, <1>6, <1>7, <1>8, <1>9, <1>10, <1>11, <1>12, <1>13, <1>14 DEF Next, StepKind

-----------------------------------------------------------------------------
(* Types. *)

\* Where a toDuel may lead.
LEMMA GoalIsFree ==
  ASSUME PlaceTypes, NEW c \in Client, NEW g \in Goal(c)
  PROVE  /\ g.pos \in Seats /\ g.team \in {0, 1}
         /\ team[c] = 3 => /\ g.team = TeamOf(g.pos)
                           /\ ~\E d \in Players : seat[d] = g.pos /\ team[d] = TeamOf(g.pos)
         /\ team[c] # 3 => /\ g.pos \in Unoccupied
                           /\ Team1 = 1 /\ seat[c] \notin Unoccupied => g.team = TeamOf(g.pos)
  <1>1. seat[c] \in Seats \cup {NoSeat}
    BY DEF PlaceTypes
  <1>2. CASE team[c] = 3
    <2>1. PICK s \in FreePlace : g = [pos |-> s, team |-> TeamOf(s)]
      BY <1>2 DEF Goal
    <2>2. g.pos = s /\ g.team = TeamOf(s)
      BY <2>1
    <2> QED BY <1>2, <2>1, <2>2, PlaceIsFree, SeatRange
  <1>3. CASE team[c] # 3
    <2>1. Unoccupied # {} /\ g = NextPlace(seat[c])
      BY <1>3 DEF Goal
    <2> QED BY <1>1, <1>3, <2>1, NextIsFree
  <1> QED BY <1>2, <1>3

LEMMA PlaceTypesKept ==
  ASSUME PlaceTypes, StepKind
  PROVE  PlaceTypes'
  <1>1. CASE Quiet
    BY <1>1 DEF Quiet, Members, PlaceTypes
  <1>2. ASSUME NEW c \in Client, Came(c) PROVE PlaceTypes'
    <2>1. CASE \E s \in FreePlace : SitDown(c, s)
      <3>1. PICK s \in Seats : SitDown(c, s)
        BY <2>1, PlaceIsFree
      <3>2. TeamOf(s) \in {0, 1, 3}
        BY SeatRange
      <3> QED BY <3>1, <3>2 DEF SitDown, Enters, PlaceTypes
    <2>2. CASE StandBy(c)
      BY <2>2 DEF StandBy, Enters, PlaceTypes
    <2> QED BY <1>2, <2>1, <2>2 DEF Came, SitOrStand
  <1>3. ASSUME NEW c \in Client, Stood(c) PROVE PlaceTypes'
    BY <1>3 DEF Stood, MoveToStands, PlaceTypes
  <1>4. ASSUME NEW c \in Client, Sat(c) PROVE PlaceTypes'
    <2>1. PICK g \in Goal(c) :
             /\ seat' = [seat EXCEPT ![c] = g.pos] /\ team' = [team EXCEPT ![c] = g.team]
             /\ role' = IF team[c] = 3 THEN [role EXCEPT ![c] = "player"] ELSE role
      BY <1>4 DEF Sat
    <2>2. g.pos \in Seats /\ g.team \in {0, 1}
      BY <2>1, GoalIsFree
    <2>3. role[c] # "none"
      BY <1>4 DEF Sat
    <2>4. role' \in [Client -> {"none", "player", "spectator"}] /\ role'[c] # "spectator"
          /\ \A d \in Client : d # c => role'[d] = role[d]
      BY <2>1, <2>3 DEF PlaceTypes
    <2>5. seat' \in [Client -> Seats \cup {NoSeat}] /\ team' \in [Client -> {0, 1, 3}]
          /\ \A d \in Client : d # c => seat'[d] = seat[d] /\ team'[d] = team[d]
      BY <2>1, <2>2 DEF PlaceTypes
    <2> QED BY <2>4, <2>5 DEF PlaceTypes
  <1>5. ASSUME NEW c \in Client, Gone(c) PROVE PlaceTypes'
    BY <1>5 DEF Gone, RunRemove, PlaceTypes
  <1>6. ASSUME NEW c \in Client, Flagged(c) PROVE PlaceTypes'
    BY <1>6 DEF Flagged, places, PlaceTypes
  <1> QED BY <1>1, <1>2, <1>3, <1>4, <1>5, <1>6 DEF StepKind

LEMMA FlagTypesKept ==
  ASSUME FlagTypes, StepKind, HeldReadyAwaitsADeck
  PROVE  FlagTypes' /\ HeldReadyAwaitsADeck'
  <1>1. CASE Quiet
    BY <1>1 DEF Quiet, Members, FlagTypes, HeldReadyAwaitsADeck
  <1>2. ASSUME NEW c \in Client, Came(c) PROVE FlagTypes' /\ HeldReadyAwaitsADeck'
    <2>1. CASE \E s \in FreePlace : SitDown(c, s)
      BY <1>2, <2>1 DEF Came, SitDown, Enters, FlagTypes, HeldReadyAwaitsADeck, decks
    <2>2. CASE StandBy(c)
      BY <1>2, <2>2 DEF Came, StandBy, Enters, FlagTypes, HeldReadyAwaitsADeck, decks, flags
    <2> QED BY <1>2, <2>1, <2>2 DEF Came, SitOrStand
  <1>3. ASSUME NEW c \in Client, Stood(c) PROVE FlagTypes' /\ HeldReadyAwaitsADeck'
    BY <1>3 DEF Stood, MoveToStands, FlagTypes, HeldReadyAwaitsADeck, decks
  <1>4. ASSUME NEW c \in Client, Sat(c) PROVE FlagTypes' /\ HeldReadyAwaitsADeck'
    BY <1>4 DEF Sat, FlagTypes, HeldReadyAwaitsADeck, decks
  <1>5. ASSUME NEW c \in Client, Gone(c) PROVE FlagTypes' /\ HeldReadyAwaitsADeck'
    BY <1>5 DEF Gone, RunRemove, FlagTypes, HeldReadyAwaitsADeck, decks, flags
  <1>6. ASSUME NEW c \in Client, Flagged(c) PROVE FlagTypes' /\ HeldReadyAwaitsADeck'
    <2>1. deck' \in [Client -> [who : Client, n : Nat \ {0}] \cup {NoDeck}]
      <3>1. CASE deck' = deck
        BY <3>1 DEF FlagTypes
      <3>2. ASSUME NEW n \in Nat \ {0},
                   deck' = [p \in Client |-> IF p \in Players /\ seat[p] = seat[c] THEN [who |-> c, n |-> n] ELSE deck[p]]
            PROVE  deck' \in [Client -> [who : Client, n : Nat \ {0}] \cup {NoDeck}]
        <4>1. [who |-> c, n |-> n] \in [who : Client, n : Nat \ {0}]
          OBVIOUS
        <4>2. \A p \in Client : deck[p] \in [who : Client, n : Nat \ {0}] \cup {NoDeck}
          BY DEF FlagTypes
        <4> QED BY <3>2, <4>1, <4>2, Zenon
      <3> QED BY <1>6, <3>1, <3>2 DEF Flagged
    <2>2. builds' \subseteq [who : Client, n : Nat \ {0}, ok : BOOLEAN]
      <3>1. \A b \in [who : {c}, n : Nat \ {0}, ok : BOOLEAN] : b \in [who : Client, n : Nat \ {0}, ok : BOOLEAN]
        OBVIOUS
      <3> QED BY <1>6, <3>1 DEF Flagged, FlagTypes
    <2> QED BY <1>6, <2>1, <2>2 DEF Flagged, FlagTypes, HeldReadyAwaitsADeck
  <1> QED BY <1>1, <1>2, <1>3, <1>4, <1>5, <1>6 DEF StepKind

\* A connection that came in stays in, and a closed socket closed.
LEMMA NetsKept ==
  ASSUME NetTypes, PlaceTypes, StepKind
  PROVE  /\ conn' \in [Client -> {"away", "creating", "checking", "joining", "in", "refused", "unheard"}]
         /\ closed \subseteq closed' /\ closed' \subseteq Client /\ late' \subseteq Client
         /\ \A d \in Client : conn[d] = "in" => conn'[d] = "in"
  <1>1. CASE Quiet
    BY <1>1 DEF Quiet, NetTypes
  <1>2. ASSUME NEW c \in Client, Came(c)
        PROVE  closed' = closed /\ conn' = [conn EXCEPT ![c] = "in"] /\ late' \subseteq late \cup {c}
    BY <1>2 DEF Came, SitOrStand, SitDown, Enters, StandBy
  <1>3. ASSUME NEW c \in Client, Stood(c) \/ Sat(c) \/ Gone(c) \/ Flagged(c)
        PROVE  closed' = closed /\ conn' = conn /\ late' = late
    BY <1>3 DEF Stood, Sat, Gone, RunRemove, Flagged, nets
  <1> QED BY <1>1, <1>2, <1>3 DEF StepKind, NetTypes

LEMMA RoomKept ==
  ASSUME NetTypes, OpsInv, asked \in Seq(Op), [Next]_vars
  PROVE  /\ phase' \in {"none", "waiting", "rps"} /\ listed' \in BOOLEAN /\ heard' \in BOOLEAN /\ ranked' = ranked
         /\ tokens' \subseteq Client /\ holder' \in Client \cup {NoClient}
  <1> USE DEF NetTypes, room
  <1>1. CASE CreateByHttp
    BY <1>1 DEF CreateByHttp, OpenRoom, mutex
  <1>2. CASE Run
    <2> DEFINE op == Head(asked)
               c == op.who
    <2>a. op.do = "join" => c \in Client
      <3>1. op \in Op
        BY <1>2, HeadTailProperties DEF Run
      <3> QED BY <3>1, OpFields
    <2>b. \/ RunCreate(c) /\ UNCHANGED room
          \/ op.do = "join" /\ RunJoin(c) /\ UNCHANGED room
          \/ RunReady(c) \/ RunNotReady(c) \/ RunObserver(c) \/ RunToDuel(c) \/ RunKick(op.pos) \/ RunDeck(c, op.n) \/ RunRemove(c, op.from)
          \/ RunStart
          \/ RunDestroy
      BY <1>2 DEF Run
    <2> HIDE DEF op, c
    <2>1. CASE RunCreate(c) /\ UNCHANGED room
      BY <2>1 DEF RunCreate
    <2>2. CASE op.do = "join" /\ RunJoin(c) /\ UNCHANGED room
      BY <2>2, <2>a DEF RunJoin
    <2>3. CASE RunReady(c) \/ RunNotReady(c) \/ RunObserver(c) \/ RunToDuel(c)
      BY <2>3 DEF RunReady, RunNotReady, RunObserver, RunToDuel
    <2>4. CASE RunKick(op.pos) \/ RunDeck(c, op.n) \/ RunRemove(c, op.from)
      BY <2>4 DEF RunKick, RunDeck, RunRemove
    <2>5. CASE RunStart
      BY <2>5 DEF RunStart, Players
    <2>6. CASE RunDestroy
      BY <2>6 DEF RunDestroy
    <2> QED BY <2>b, <2>1, <2>2, <2>3, <2>4, <2>5, <2>6
  <1>3. ASSUME NEW c \in Client, CreateGame(c) \/ Created(c) \/ CreateRefused(c) \/ JoinGame(c) \/ JoinRefused(c) \/ Join(c)
        PROVE  /\ phase' \in {"none", "waiting", "rps"} /\ listed' \in BOOLEAN /\ heard' \in BOOLEAN /\ ranked' = ranked
               /\ tokens' \subseteq Client /\ holder' \in Client \cup {NoClient}
    BY <1>3 DEF CreateGame, Created, CreateRefused, JoinGame, JoinRefused, Join, OpenRoom, mutex
  <1>4. ASSUME NEW c \in Client, NEW ok \in Admits, LookedUp(c, ok)
        PROVE  UNCHANGED room /\ holder' = NoClient
    BY <1>4 DEF LookedUp
  <1>5. ASSUME NEW c \in Client, Command(c) \/ UpdateDeck(c)
        PROVE  UNCHANGED room /\ holder' = holder
    BY <1>5 DEF Command, UpdateDeck, mutex
  <1>6. ASSUME NEW c \in Client, Disconnect(c)
        PROVE  /\ phase' = phase /\ listed' \in BOOLEAN /\ heard' = heard /\ ranked' = ranked
               /\ tokens' \subseteq tokens /\ holder' = holder
    BY <1>6 DEF Disconnect, Delete
  <1>7. ASSUME NEW b \in builds, Built(b)
        PROVE  UNCHANGED room /\ holder' = holder
    BY <1>7 DEF Built
  <1>8. CASE UNCHANGED vars
    BY <1>8 DEF vars
  <1> QED BY <1>1, <1>2, <1>3, <1>4, <1>5, <1>6, <1>7, <1>8 DEF Next

-----------------------------------------------------------------------------
(* The operations that wait. *)

\* A step outside the mutex leaves what the waiting operations find ...
Waits ==
  /\ \A c \in Client : conn'[c] = conn[c] \/ c = holder \/ conn[c] \in {"away", "checking"} \/ asked = <<>>
  /\ holder' \in {holder, NoClient} /\ closed \subseteq closed'
  /\ \A c \in Client : role'[c] = "none" => role[c] = "none"
  /\ \A c \in host' : c \in host \/ c = holder

\* ... and asks for one that is in order.
NewOp(e) ==
  /\ e.do \in {"join", "create"} => \A j \in DOMAIN asked : asked[j] # e
  /\ e.do = "join" => conn'[e.who] = "joining" /\ holder' # e.who
  /\ e.do = "create" => conn'[e.who] = "creating"
  /\ e.do \in Mine => conn'[e.who] = "in"
  /\ e.do \in {"observer", "toDuel"} => role'[e.who] # "none" /\ \A j \in DOMAIN asked : ~Removes(asked[j], e.who)
  /\ e.do = "remove" => e.who \notin host' /\ e.who \in closed'

Asking == asked' = asked \/ \E e \in Op : asked' = Append(asked, e) /\ NewOp(e)

LEMMA Outside ==
  ASSUME IInv, [Next]_vars, ~Run
  PROVE  Waits /\ Asking
  <1>a. TypeOK /\ OpsInv /\ ConnInv /\ HostInv
    BY DEF IInv
  <1>b. /\ conn \in [Client -> {"away", "creating", "checking", "joining", "in", "refused", "unheard"}]
        /\ role \in [Client -> {"none", "player", "spectator"}] /\ asked \in Seq(Op)
        /\ holder # NoClient => conn[holder] = "joining"
        /\ phase = "none" => asked = <<>>
        /\ NoClient \notin Client
    BY <1>a, LobbyBounds DEF TypeOK, ConnInv
  <1>c. UNCHANGED <<nets, places, host, holder>> => Waits
    BY DEF Waits, nets, places
  <1>d. \A j \in DOMAIN asked : asked[j] \in Op
    BY <1>b
  <1>e. \A j \in DOMAIN asked : /\ asked[j].do = "join" => conn[asked[j].who] = "joining"
                                /\ asked[j].do = "remove" => asked[j].who \in closed
    BY <1>a DEF OpsInv
  <1>1. CASE CreateByHttp
    BY <1>1, <1>c DEF CreateByHttp, flags, mutex, Asking
  <1>2. ASSUME NEW c \in Client, CreateGame(c) \/ CreateRefused(c) \/ JoinGame(c) \/ JoinRefused(c)
        PROVE  Waits /\ Asking
    <2>1. UNCHANGED <<places, flags, mutex>> /\ closed \subseteq closed'
      BY <1>2 DEF CreateGame, CreateRefused, JoinGame, JoinRefused
    <2>2. CASE CreateGame(c)
      BY <1>b, <2>1, <2>2 DEF CreateGame, Waits, Asking, places, flags, mutex
    <2>3. CASE CreateRefused(c)
      BY <1>b, <2>1, <2>3 DEF CreateRefused, Waits, Asking, places, flags, mutex
    <2>4. CASE JoinGame(c)
      BY <1>b, <2>1, <2>4 DEF JoinGame, Waits, Asking, places, flags, mutex
    <2>5. CASE JoinRefused(c)
      BY <1>b, <2>1, <2>5 DEF JoinRefused, Waits, Asking, places, flags, mutex
    <2> QED BY <1>2, <2>2, <2>3, <2>4, <2>5
  <1>3. ASSUME NEW c \in Client, Created(c)
        PROVE  Waits /\ Asking
    <2> DEFINE e == [do |-> "create", who |-> c]
    <2>1. e \in Op /\ asked' = Append(asked, e) /\ UNCHANGED <<nets, places, host, holder>> /\ asked = <<>> /\ conn[c] = "creating"
      BY <1>3, <1>b, OpMakes DEF Created, Ask, flags
    <2>2. NewOp(e)
      BY <2>1 DEF NewOp, Mine, nets
    <2> QED BY <2>1, <2>2, <1>c DEF Asking
  <1>4. ASSUME NEW c \in Client, Join(c)
        PROVE  Waits /\ Asking
    <2> DEFINE e == [do |-> "join", who |-> c]
    <2>1. conn[c] = "checking" /\ UNCHANGED <<closed, places, host, holder>> /\ \E k \in {"unheard", "refused", "joining"} : conn' = [conn EXCEPT ![c] = k]
      BY <1>4 DEF Join, flags
    <2>2. Waits
      BY <1>b, <2>1 DEF Waits, places
    <2>3. asked' = asked \/ (asked' = Append(asked, e) /\ conn' = [conn EXCEPT ![c] = "joining"])
      BY <1>4 DEF Join, Ask
    <2>4. conn' = [conn EXCEPT ![c] = "joining"] => NewOp(e)
      <3> SUFFICES ASSUME conn' = [conn EXCEPT ![c] = "joining"]
                   PROVE  NewOp(e)
        OBVIOUS
      <3>1. conn'[c] = "joining" /\ holder' # c
        BY <1>b, <2>1
      <3>2. \A j \in DOMAIN asked : asked[j] # e
        BY <1>e, <2>1
      <3> QED BY <3>1, <3>2 DEF NewOp, Mine
    <2> QED BY <2>2, <2>3, <2>4, OpMakes DEF Asking
  <1>5. ASSUME NEW c \in Client, NEW ok \in Admits, LookedUp(c, ok)
        PROVE  Waits /\ Asking
    <2>1. holder = c /\ holder' = NoClient /\ asked' = asked
      BY <1>5 DEF LookedUp
    <2>2. CASE ok
      <3>1. CASE \E s \in FreePlace : SitDown(c, s)
        BY <1>b, <2>1, <3>1 DEF SitDown, Enters, Waits, Asking
      <3>2. CASE StandBy(c)
        BY <1>b, <2>1, <3>2 DEF StandBy, Enters, Waits, Asking, flags
      <3> QED BY <1>5, <2>2, <3>1, <3>2 DEF LookedUp, SitOrStand
    <2>3. CASE ~ok
      BY <1>5, <1>b, <2>1, <2>3 DEF LookedUp, Waits, Asking, places, flags
    <2> QED BY <2>2, <2>3
  <1>6. ASSUME NEW c \in Client, Command(c)
        PROVE  Waits /\ Asking
    <2>1. UNCHANGED <<nets, places, host, holder>> /\ conn[c] = "in" /\ c \notin closed /\ conn' = conn /\ role' = role
      BY <1>6 DEF Command, Heard, flags, nets, places
    <2>2. role[c] # "none"
      BY <1>a, <2>1 DEF ConnInv
    <2>3. \A j \in DOMAIN asked : ~Removes(asked[j], c)
      BY <1>e, <2>1 DEF Removes
    <2>4. ASSUME NEW k \in {"ready", "notReady", "observer", "toDuel"}, asked' = Append(asked, [do |-> k, who |-> c])
          PROVE  Asking
      <3> DEFINE e == [do |-> k, who |-> c]
      <3>1. e \in Op /\ e.do = k /\ e.who = c
        BY OpMakes
      <3> HIDE DEF e
      <3>2. NewOp(e)
        BY <2>1, <2>2, <2>3, <3>1 DEF NewOp, Mine
      <3>3. asked' = Append(asked, e)
        BY <2>4 DEF e
      <3> QED BY <3>1, <3>2, <3>3 DEF Asking
    <2>5. ASSUME asked' = Append(asked, [do |-> "start"])
          PROVE  Asking
      <3>1. NewOp([do |-> "start"])
        BY DEF NewOp, Mine
      <3> QED BY <2>5, <3>1, OpMakes DEF Asking
    <2>6. ASSUME NEW s \in Seats, asked' = Append(asked, [do |-> "kick", pos |-> s])
          PROVE  Asking
      <3>1. NewOp([do |-> "kick", pos |-> s])
        BY DEF NewOp, Mine
      <3> QED BY <2>6, <3>1, OpMakes DEF Asking
    <2> QED BY <1>6, <1>c, <2>1, <2>4, <2>5, <2>6 DEF Command, Ask
  <1>7. ASSUME NEW c \in Client, UpdateDeck(c)
        PROVE  Waits /\ Asking
    BY <1>7, <1>c DEF UpdateDeck, mutex, Asking
  <1>8. ASSUME NEW c \in Client, Disconnect(c)
        PROVE  Waits /\ Asking
    <2>1. closed' = closed \cup {c} /\ UNCHANGED <<conn, places, flags, holder>> /\ conn' = conn /\ role' = role /\ host' = host
      BY <1>8 DEF Disconnect, places, flags
    <2>2. Waits
      BY <2>1 DEF Waits
    <2>3. ASSUME asked' = Append(asked, [do |-> "destroy"])
          PROVE  Asking
      <3>1. NewOp([do |-> "destroy"])
        BY DEF NewOp, Mine
      <3> QED BY <2>3, <3>1, OpMakes DEF Asking
    <2>4. ASSUME asked' = Append(asked, [do |-> "remove", who |-> c, from |-> role[c]]), role[c] # "none",
                 ~(role[c] = "player" /\ c \in host /\ phase = "waiting"), role[c] = "spectator" \/ phase = "waiting"
          PROVE  Asking
      <3> DEFINE e == [do |-> "remove", who |-> c, from |-> role[c]]
      <3>1. c \notin host'
        BY <1>a, <1>b, <2>1, <2>4 DEF HostInv
      <3>2. conn'[c] = "in" /\ c \in closed'
        BY <1>a, <2>1, <2>4 DEF ConnInv
      <3>f. role[c] \in {"player", "spectator"}
        BY <1>b, <2>4
      <3>e. e \in Op
        BY <3>f, OpMakes
      <3>3. NewOp(e) /\ e \in Op
        BY <3>1, <3>2, <3>e DEF NewOp, Mine
      <3> QED BY <2>4, <3>3 DEF Asking
    <2>5. asked' = asked => Asking
      BY DEF Asking
    <2> QED BY <1>8, <2>2, <2>3, <2>4, <2>5 DEF Disconnect, Ask
  <1>9. ASSUME NEW b \in builds, Built(b)
        PROVE  Waits /\ Asking
    <2>1. b.who \in Client /\ b.n \in Nat \ {0} /\ conn[b.who] = "in"
      BY <1>a DEF ConnInv, TypeOK
    <2>2. UNCHANGED <<nets, places, host, holder>> /\ conn' = conn
      BY <1>9 DEF Built, nets
    <2> DEFINE e == [do |-> "deck", who |-> b.who, n |-> b.n]
    <2>3. e \in Op /\ NewOp(e)
      BY <2>1, <2>2, OpMakes DEF NewOp, Mine
    <2>4. asked' = asked \/ asked' = Append(asked, e)
      BY <1>9 DEF Built, Ask
    <2> QED BY <1>c, <2>2, <2>3, <2>4 DEF Asking
  <1>10. CASE UNCHANGED vars
    BY <1>10, <1>c DEF vars, Asking, nets, places
  <1> QED BY <1>1, <1>2, <1>3, <1>4, <1>5, <1>6, <1>7, <1>8, <1>9, <1>10 DEF Next

LEMMA OpsKeptOutside ==
  ASSUME TypeOK, OpsInv, ConnInv, Waits, Asking
  PROVE  OpsInv'
  <1>a. asked \in Seq(Op) /\ NoClient \notin Client
    BY LobbyBounds DEF TypeOK
  <1>b. holder # NoClient => conn[holder] = "joining"
    BY DEF ConnInv
  <1>c. \A i \in DOMAIN asked : asked[i] \in Op
    BY <1>a
  <1> DEFINE InOrder(op) ==
        /\ op.do = "join" => conn'[op.who] = "joining" /\ holder' # op.who
        /\ op.do = "create" => conn'[op.who] = "creating"
        /\ op.do \in Mine => conn'[op.who] = "in"
        /\ op.do \in {"observer", "toDuel"} => role'[op.who] # "none"
        /\ op.do = "remove" => op.who \notin host' /\ op.who \in closed'
  <1>1. ASSUME NEW i \in DOMAIN asked
        PROVE  InOrder(asked[i])
    <2> DEFINE op == asked[i]
    <2>1. /\ op.do = "join" => conn[op.who] = "joining" /\ holder # op.who
          /\ op.do = "create" => conn[op.who] = "creating"
          /\ op.do \in Mine => conn[op.who] = "in"
          /\ op.do \in {"observer", "toDuel"} => role[op.who] # "none"
          /\ op.do = "remove" => op.who \notin host /\ op.who \in closed
      BY DEF OpsInv
    <2>2. op.do \in {"join", "create"} \cup Mine => op.who \in Client
      BY <1>c, OpFields
    <2>3. asked # <<>>
      OBVIOUS
    <2> HIDE DEF op
    <2>4. op.do \in {"create"} \cup Mine => op.who # holder
      BY <1>a, <1>b, <2>1, <2>2
    <2>5. op.do \in {"join", "create"} \cup Mine => conn'[op.who] = conn[op.who]
      BY <2>1, <2>2, <2>3, <2>4 DEF Waits
    <2>6. op.do = "join" => holder' # op.who
      BY <1>a, <2>1, <2>2 DEF Waits
    <2>7. op.do \in {"observer", "toDuel"} => role'[op.who] # "none"
      BY <2>1, <2>2 DEF Waits, Mine
    <2>8. op.do = "remove" => op.who \notin host' /\ op.who \in closed'
      BY <2>1, <2>2, <2>4 DEF Waits, Mine
    <2>9. InOrder(op)
      BY <2>1, <2>5, <2>6, <2>7, <2>8
    <2> QED BY <2>9 DEF op
  <1>2. \A i \in DOMAIN asked : /\ asked[i].do \in {"join", "create"} => \A j \in DOMAIN asked : asked[j] = asked[i] => j = i
                                /\ asked[i].do \in {"observer", "toDuel"} => \A j \in DOMAIN asked : j < i => ~Removes(asked[j], asked[i].who)
    BY DEF OpsInv
  <1>3. CASE asked' = asked
    <2> HIDE DEF InOrder
    <2>1. \A i \in DOMAIN asked' : InOrder(asked'[i])
      BY <1>1, <1>3
    <2> QED BY <1>2, <1>3, <2>1 DEF OpsInv, InOrder, Removes
  <1>4. ASSUME NEW e \in Op, asked' = Append(asked, e), NewOp(e)
        PROVE  OpsInv'
    <2>1. /\ DOMAIN asked' = 1 .. Len(asked) + 1 /\ asked'[Len(asked) + 1] = e /\ Len(asked) \in Nat /\ DOMAIN asked = 1 .. Len(asked)
          /\ \A i \in DOMAIN asked : i \in DOMAIN asked' /\ asked'[i] = asked[i]
          /\ \A i \in DOMAIN asked' : i \in DOMAIN asked \/ i = Len(asked) + 1
      BY <1>a, <1>4, Asks
    <2>2. InOrder(e)
      BY <1>4 DEF NewOp
    <2> HIDE DEF InOrder
    <2>3. \A i \in DOMAIN asked' : InOrder(asked'[i])
      BY <1>1, <2>1, <2>2
    <2>4. ASSUME NEW i \in DOMAIN asked', NEW j \in DOMAIN asked', asked'[i].do \in {"join", "create"}, asked'[j] = asked'[i]
          PROVE  j = i
      <3>1. e.do \in {"join", "create"} => \A k \in DOMAIN asked : asked[k] # e
        BY <1>4 DEF NewOp
      <3> QED BY <1>2, <2>1, <2>4, <3>1
    <2>5. ASSUME NEW i \in DOMAIN asked', NEW j \in DOMAIN asked', asked'[i].do \in {"observer", "toDuel"}, j < i
          PROVE  ~Removes(asked'[j], asked'[i].who)
      <3>1. e.do \in {"observer", "toDuel"} => \A k \in DOMAIN asked : ~Removes(asked[k], e.who)
        BY <1>4 DEF NewOp
      <3>2. j \in DOMAIN asked
        BY <2>1, <2>5
      <3>3. CASE i \in DOMAIN asked
        BY <1>2, <2>1, <2>5, <3>2, <3>3
      <3>4. CASE i = Len(asked) + 1
        BY <2>1, <2>5, <3>1, <3>2, <3>4
      <3> QED BY <2>1, <3>3, <3>4
    <2> QED BY <2>3, <2>4, <2>5 DEF OpsInv, InOrder, Removes
  <1> QED BY <1>3, <1>4 DEF Asking

\* What the operation that runs may change of what the others find.
Runs ==
  LET op == Head(asked)
  IN  /\ asked # <<>> /\ asked' = Tail(asked) /\ holder = NoClient /\ closed \subseteq closed'
      /\ \A c \in Client : conn'[c] = conn[c] \/ (op.do \in {"join", "create"} /\ op.who = c)
      /\ holder' = NoClient \/ (op.do = "join" /\ op.who = holder')
      /\ \A c \in Client : role'[c] = "none" => role[c] = "none" \/ Removes(op, c)
      /\ \A c \in host' : c \in host \/ (op.do \in {"join", "create"} /\ op.who = c)

LEMMA RunRuns ==
  ASSUME TypeOK, OpsInv, ConnInv, Run
  PROVE  Runs
  <1> DEFINE op == Head(asked)
             c == op.who
  <1>a. asked # <<>> /\ asked' = Tail(asked) /\ holder = NoClient
    BY DEF Run
  <1>b. /\ op.do \in {"join", "create"} \cup Mine => c \in Client
        /\ op.do \in {"observer", "toDuel"} => role[c] # "none"
        /\ op \in Op
    BY <1>a, HeadOp
  <1>c. \/ op.do = "create" /\ RunCreate(c)
        \/ op.do = "join" /\ RunJoin(c)
        \/ op.do = "ready" /\ RunReady(c)
        \/ op.do = "notReady" /\ RunNotReady(c)
        \/ op.do = "observer" /\ RunObserver(c)
        \/ op.do = "toDuel" /\ RunToDuel(c)
        \/ op.do = "kick" /\ RunKick(op.pos)
        \/ op.do = "deck" /\ RunDeck(c, op.n)
        \/ op.do = "remove" /\ RunRemove(c, op.from)
        \/ op.do = "start" /\ RunStart
        \/ op.do = "destroy" /\ RunDestroy
    BY DEF Run
  <1>d. /\ role \in [Client -> {"none", "player", "spectator"}]
        /\ conn \in [Client -> {"away", "creating", "checking", "joining", "in", "refused", "unheard"}]
    BY DEF TypeOK
  <1>r. op.do = "remove" /\ c \in Client => Removes(op, c)
    BY <1>b, OpFields DEF Removes
  <1> HIDE DEF op, c
  <1> SUFFICES /\ closed \subseteq closed'
               /\ \A d \in Client : conn'[d] = conn[d] \/ (op.do \in {"join", "create"} /\ c = d)
               /\ holder' = NoClient \/ (op.do = "join" /\ c = holder')
               /\ \A d \in Client : role'[d] = "none" => role[d] = "none" \/ Removes(op, d)
               /\ \A d \in host' : d \in host \/ (op.do \in {"join", "create"} /\ c = d)
    BY <1>a DEF Runs, op, c
  <1>1. CASE op.do = "create" /\ RunCreate(c)
    BY <1>1, <1>a, <1>b, <1>d DEF RunCreate, SitDown, Enters
  <1>2. CASE op.do = "join" /\ RunJoin(c)
    <2>1. CASE \E s \in FreePlace : SitDown(c, s)
      BY <1>2, <2>1, <1>a, <1>b, <1>d DEF RunJoin, SitDown, Enters
    <2>2. CASE StandBy(c)
      BY <1>2, <2>2, <1>a, <1>b, <1>d DEF RunJoin, StandBy, Enters, flags
    <2>3. CASE UNCHANGED <<nets, places, flags>>
      BY <1>2, <2>3, <1>a DEF RunJoin, nets, places, flags
    <2> QED BY <1>2, <2>1, <2>2, <2>3 DEF RunJoin, SitOrStand
  <1>3. CASE op.do \in {"ready", "notReady", "deck"} /\ (RunReady(c) \/ RunNotReady(c) \/ RunDeck(c, op.n))
    BY <1>3, <1>a DEF RunReady, RunNotReady, RunDeck, nets, places
  <1>4. CASE op.do = "observer" /\ RunObserver(c)
    BY <1>4, <1>a, <1>b, <1>d DEF RunObserver, MoveToStands, nets, places
  <1>5. CASE op.do = "toDuel" /\ RunToDuel(c)
    <2>1. role' = role \/ role' = [role EXCEPT ![c] = "player"]
      BY <1>5 DEF RunToDuel, places
    <2>2. UNCHANGED <<nets, host, holder>>
      BY <1>5 DEF RunToDuel
    <2> QED BY <2>1, <2>2, <1>a, <1>d DEF nets
  <1>6. CASE op.do = "kick" /\ RunKick(op.pos)
    <2>1. role' = role \/ \E d \in Players : role' = [role EXCEPT ![d] = "spectator"]
      BY <1>6 DEF RunKick, MoveToStands, places
    <2>2. UNCHANGED <<nets, host, holder>>
      BY <1>6 DEF RunKick
    <2> QED BY <2>1, <2>2, <1>a, <1>d DEF nets
  <1>7. CASE op.do = "remove" /\ RunRemove(c, op.from)
    <2>1. c \in Client /\ Removes(op, c)
      BY <1>b, <1>r, <1>7 DEF Mine
    <2> QED BY <1>7, <2>1, <1>a, <1>d DEF RunRemove, nets, flags
  <1>8. CASE (op.do = "start" /\ RunStart) \/ (op.do = "destroy" /\ RunDestroy)
    BY <1>8, <1>a DEF RunStart, RunDestroy, nets, places, flags
  <1> QED BY <1>c, <1>1, <1>2, <1>3, <1>4, <1>5, <1>6, <1>7, <1>8

LEMMA OpsKeptByRun ==
  ASSUME TypeOK, OpsInv, Runs
  PROVE  OpsInv'
  <1>a. asked \in Seq(Op) /\ NoClient \notin Client
    BY LobbyBounds DEF TypeOK
  <1> DEFINE head == Head(asked)
  <1>b. /\ 1 \in DOMAIN asked /\ asked[1] = head
        /\ \A i \in DOMAIN asked' : i + 1 \in DOMAIN asked /\ i \in Nat \ {0} /\ asked'[i] = asked[i + 1]
        /\ asked' \in Seq(Op)
    BY <1>a, Pops DEF Runs
  <1>c. /\ holder = NoClient /\ closed \subseteq closed'
        /\ \A c \in Client : conn'[c] = conn[c] \/ (head.do \in {"join", "create"} /\ head.who = c)
        /\ holder' = NoClient \/ (head.do = "join" /\ head.who = holder')
        /\ \A c \in Client : role'[c] = "none" => role[c] = "none" \/ Removes(head, c)
        /\ \A c \in host' : c \in host \/ (head.do \in {"join", "create"} /\ head.who = c)
    BY DEF Runs
  <1>d. \A i \in DOMAIN asked : asked[i] \in Op
    BY <1>a
  <1> HIDE DEF head
  <1>1. ASSUME NEW i \in DOMAIN asked'
        PROVE  LET op == asked'[i]
               IN  /\ op.do = "join" => conn'[op.who] = "joining" /\ holder' # op.who
                   /\ op.do = "create" => conn'[op.who] = "creating"
                   /\ op.do \in Mine => conn'[op.who] = "in"
                   /\ op.do \in {"observer", "toDuel"} => role'[op.who] # "none"
                   /\ op.do = "remove" => op.who \notin host' /\ op.who \in closed'
    <2> DEFINE op == asked'[i]
    <2>0. i + 1 \in DOMAIN asked /\ op = asked[i + 1] /\ i + 1 # 1 /\ 1 < i + 1
      BY <1>b
    <2>1. /\ op.do = "join" => conn[op.who] = "joining"
          /\ op.do = "create" => conn[op.who] = "creating"
          /\ op.do \in Mine => conn[op.who] = "in"
          /\ op.do \in {"observer", "toDuel"} => role[op.who] # "none" /\ ~Removes(head, op.who)
          /\ op.do = "remove" => op.who \notin host /\ op.who \in closed
      BY <1>b, <2>0 DEF OpsInv
    <2>2. /\ head.do = "join" => conn[head.who] = "joining"
          /\ head.do = "create" => conn[head.who] = "creating"
      BY <1>b DEF OpsInv
    <2>3. op.do \in {"join", "create"} => op # head
      BY <1>b, <2>0 DEF OpsInv
    <2>4. op \in Op /\ head \in Op
      BY <1>b, <1>d
    <2>5. /\ op.do \in {"join", "create"} \cup Mine => op.who \in Client
          /\ op.do \in {"join", "create"} => op = [do |-> op.do, who |-> op.who]
          /\ head.do \in {"join", "create"} => head = [do |-> head.do, who |-> head.who]
      BY <2>4, OpFields, Zenon
    <2> HIDE DEF op
    <2>6. head.do \in {"join", "create"} /\ op.do \in {"join", "create"} \cup Mine => head.who # op.who
      <3> SUFFICES ASSUME head.do \in {"join", "create"}, op.do \in {"join", "create"} \cup Mine, head.who = op.who
                   PROVE  FALSE
        OBVIOUS
      <3>1. op.do = head.do
        BY <2>1, <2>2
      <3> QED BY <2>3, <2>5, <3>1
    <2>7. op.do \in {"join", "create"} \cup Mine => conn'[op.who] = conn[op.who]
      BY <1>c, <2>5, <2>6
    <2>8. op.do = "join" => holder' # op.who
      BY <1>a, <1>c, <2>5, <2>6
    <2>9. op.do \in {"observer", "toDuel"} => role'[op.who] # "none"
      BY <1>c, <2>1, <2>5 DEF Mine
    <2>10. op.do = "remove" => op.who \notin host' /\ op.who \in closed'
      BY <1>c, <2>1, <2>6 DEF Mine
    <2>11. /\ op.do = "join" => conn'[op.who] = "joining" /\ holder' # op.who
           /\ op.do = "create" => conn'[op.who] = "creating"
           /\ op.do \in Mine => conn'[op.who] = "in"
           /\ op.do \in {"observer", "toDuel"} => role'[op.who] # "none"
           /\ op.do = "remove" => op.who \notin host' /\ op.who \in closed'
      BY <2>1, <2>7, <2>8, <2>9, <2>10
    <2> QED BY <2>11 DEF op
  <1>2. ASSUME NEW i \in DOMAIN asked', NEW j \in DOMAIN asked', asked'[i].do \in {"join", "create"}, asked'[j] = asked'[i]
        PROVE  j = i
    <2>1. i + 1 \in DOMAIN asked /\ j + 1 \in DOMAIN asked /\ asked[j + 1] = asked[i + 1] /\ asked[i + 1].do \in {"join", "create"}
      BY <1>b, <1>2
    <2>2. j + 1 = i + 1
      BY <2>1 DEF OpsInv
    <2> QED BY <1>b, <2>2
  <1>3. ASSUME NEW i \in DOMAIN asked', NEW j \in DOMAIN asked', asked'[i].do \in {"observer", "toDuel"}, j < i
        PROVE  ~Removes(asked'[j], asked'[i].who)
    <2>1. i + 1 \in DOMAIN asked /\ j + 1 \in DOMAIN asked /\ asked[i + 1].do \in {"observer", "toDuel"} /\ j + 1 < i + 1
      BY <1>b, <1>3
    <2>2. ~Removes(asked[j + 1], asked[i + 1].who)
      BY <2>1 DEF OpsInv
    <2> QED BY <1>b, <2>2
  <1> QED BY <1>1, <1>2, <1>3 DEF OpsInv, Removes

LEMMA OpsKept ==
  ASSUME IInv, [Next]_vars
  PROVE  OpsInv' /\ asked' \in Seq(Op)
  <1>a. TypeOK /\ OpsInv /\ ConnInv /\ asked \in Seq(Op)
    BY DEF IInv, TypeOK
  <1>1. CASE Run
    <2>1. Runs
      BY <1>a, <1>1, RunRuns
    <2>2. asked' \in Seq(Op)
      BY <1>a, <2>1, Pops DEF Runs
    <2> QED BY <1>a, <2>1, <2>2, OpsKeptByRun
  <1>2. CASE ~Run
    <2>1. Waits /\ Asking
      BY <1>2, Outside
    <2>2. asked' \in Seq(Op)
      BY <1>a, <2>1, Asks DEF Asking
    <2> QED BY <1>a, <2>1, <2>2, OpsKeptOutside
  <1> QED BY <1>1, <1>2

LEMMA TypesKept ==
  ASSUME IInv, [Next]_vars
  PROVE  TypeOK' /\ HeldReadyAwaitsADeck'
  <1>a. TypeOK /\ OpsInv /\ ConnInv /\ HostInv /\ HeldReadyAwaitsADeck
    BY DEF IInv
  <1>b. NetTypes /\ PlaceTypes /\ FlagTypes /\ asked \in Seq(Op)
    BY <1>a, TypesSplit
  <1>1. StepKind
    BY <1>a, NextKinds
  <1>2. PlaceTypes'
    BY <1>b, <1>1, PlaceTypesKept
  <1>3. FlagTypes' /\ HeldReadyAwaitsADeck'
    BY <1>a, <1>b, <1>1, FlagTypesKept
  <1>4. NetTypes'
    BY <1>a, <1>b, <1>1, NetsKept, RoomKept DEF NetTypes
  <1>5. asked' \in Seq(Op)
    BY OpsKept
  <1>6. NetTypes' /\ PlaceTypes' /\ FlagTypes' /\ asked' \in Seq(Op) => TypeOK'
    BY DEF TypeOK, NetTypes, PlaceTypes, FlagTypes
  <1> QED BY <1>2, <1>3, <1>4, <1>5, <1>6

-----------------------------------------------------------------------------
(* Who has a place, and which. *)

LEMMA ConnKept ==
  ASSUME IInv, [Next]_vars
  PROVE  ConnInv'
  <1>a. TypeOK /\ OpsInv /\ ConnInv /\ HostInv /\ HeldReadyAwaitsADeck
    BY DEF IInv
  <1>b. NetTypes /\ PlaceTypes /\ FlagTypes /\ asked \in Seq(Op)
    BY <1>a, TypesSplit
  <1>c. StepKind
    BY <1>a, NextKinds
  <1>d. \A d \in Client : conn[d] = "in" => conn'[d] = "in"
    BY <1>b, <1>c, NetsKept
  <1>e. TypeOK'
    BY TypesKept
  <1>1. \A d \in Client : d \in host' \cup ready' \cup saved' \/ role'[d] # "none" => conn'[d] = "in"
    <2>1. CASE Quiet
      BY <1>a, <1>d, <2>1 DEF Quiet, Members, ConnInv
    <2>2. ASSUME NEW c \in Client, Came(c)
          PROVE  conn'[c] = "in" /\ \A d \in Client : d \in host' \cup ready' \cup saved' \/ role'[d] # "none" => d \in host \cup ready \cup saved \/ role[d] # "none" \/ d = c
      <3>1. CASE \E s \in FreePlace : SitDown(c, s)
        BY <1>b, <3>1 DEF SitDown, Enters, NetTypes, PlaceTypes
      <3>2. CASE StandBy(c)
        BY <1>b, <3>2 DEF StandBy, Enters, NetTypes, PlaceTypes, flags
      <3> QED BY <2>2, <3>1, <3>2 DEF Came, SitOrStand
    <2>3. ASSUME NEW c \in Client, Stood(c) \/ Sat(c) \/ Gone(c) \/ Flagged(c)
          PROVE  (role[c] # "none" \/ conn[c] = "in") /\ \A d \in Client : d \in host' \cup ready' \cup saved' \/ role'[d] # "none" => d \in host \cup ready \cup saved \/ role[d] # "none" \/ d = c
      <3>1. CASE Stood(c)
        BY <1>b, <3>1 DEF Stood, MoveToStands, PlaceTypes, Players
      <3>2. CASE Sat(c)
        BY <1>b, <3>2 DEF Sat, PlaceTypes
      <3>3. CASE Gone(c)
        BY <1>b, <3>3 DEF Gone, RunRemove, PlaceTypes, flags
      <3>4. CASE Flagged(c)
        BY <1>b, <3>4 DEF Flagged, places, FlagTypes
      <3> QED BY <2>3, <3>1, <3>2, <3>3, <3>4
    <2> QED BY <1>a, <1>c, <1>d, <2>1, <2>2, <2>3 DEF StepKind, ConnInv

  <1>2. \A d \in Client : conn'[d] = "in" /\ d \notin closed' => role'[d] # "none"
    <2>1. CASE Quiet
      BY <1>a, <2>1 DEF Quiet, Members, ConnInv
    <2>2. ASSUME NEW c \in Client, Came(c)
          PROVE  role'[c] # "none" /\ closed' = closed /\ \A d \in Client : d # c => conn'[d] = conn[d] /\ role'[d] = role[d]
      <3>1. CASE \E s \in FreePlace : SitDown(c, s)
        BY <1>b, <3>1 DEF SitDown, Enters, NetTypes, PlaceTypes
      <3>2. CASE StandBy(c)
        BY <1>b, <3>2 DEF StandBy, Enters, NetTypes, PlaceTypes
      <3> QED BY <2>2, <3>1, <3>2 DEF Came, SitOrStand
    <2>3. ASSUME NEW c \in Client, Stood(c) \/ Sat(c) \/ Flagged(c)
          PROVE  conn' = conn /\ closed' = closed /\ \A d \in Client : role[d] # "none" => role'[d] # "none"
      <3>1. CASE Stood(c)
        BY <1>b, <3>1 DEF Stood, MoveToStands, PlaceTypes, nets
      <3>2. CASE Sat(c)
        BY <1>b, <3>2 DEF Sat, PlaceTypes, nets
      <3>3. CASE Flagged(c)
        BY <3>3 DEF Flagged, places, nets
      <3> QED BY <2>3, <3>1, <3>2, <3>3
    <2>4. ASSUME NEW c \in Client, Gone(c)
          PROVE  conn' = conn /\ closed' = closed /\ c \in closed /\ \A d \in Client : d # c => role'[d] = role[d]
      BY <1>b, <2>4 DEF Gone, RunRemove, PlaceTypes, nets
    <2>5. \A d \in Client : conn[d] = "in" /\ d \notin closed => role[d] # "none"
      BY <1>a DEF ConnInv
    <2>6. ASSUME NEW c \in Client, Came(c)
          PROVE  \A d \in Client : conn'[d] = "in" /\ d \notin closed' => role'[d] # "none"
      BY <2>2, <2>5, <2>6
    <2> QED BY <1>c, <2>1, <2>3, <2>4, <2>5, <2>6 DEF StepKind
  <1>3. \A d \in Client : role'[d] = "player" => team'[d] # 3
    <2>a. \A d \in Client : role[d] = "player" => team[d] # 3
      BY <1>a DEF ConnInv
    <2>1. CASE Quiet
      BY <2>a, <2>1 DEF Quiet, Members
    <2>2. ASSUME NEW c \in Client, Came(c)
          PROVE  \A d \in Client : role'[d] = "player" => team'[d] # 3
      <3>1. CASE \E s \in FreePlace : SitDown(c, s)
        <4>1. PICK s \in Seats : SitDown(c, s)
          BY <3>1, PlaceIsFree
        <4>2. TeamOf(s) # 3
          BY SeatRange
        <4> QED BY <1>b, <2>a, <4>1, <4>2 DEF SitDown, Enters, PlaceTypes
      <3>2. CASE StandBy(c)
        BY <1>b, <2>a, <3>2 DEF StandBy, Enters, PlaceTypes
      <3> QED BY <2>2, <3>1, <3>2 DEF Came, SitOrStand
    <2>3. ASSUME NEW c \in Client, Stood(c) \/ Gone(c) \/ Flagged(c)
          PROVE  \A d \in Client : role'[d] = "player" => team'[d] # 3
      BY <1>b, <2>a, <2>3 DEF Stood, MoveToStands, Gone, RunRemove, Flagged, places, PlaceTypes
    <2>4. ASSUME NEW c \in Client, Sat(c)
          PROVE  \A d \in Client : role'[d] = "player" => team'[d] # 3
      <3>1. PICK g \in Goal(c) :
               /\ team' = [team EXCEPT ![c] = g.team]
               /\ role' = IF team[c] = 3 THEN [role EXCEPT ![c] = "player"] ELSE role
        BY <2>4 DEF Sat
      <3>2. g.team # 3
        BY <1>b, <3>1, GoalIsFree
      <3> QED BY <1>b, <2>a, <3>1, <3>2 DEF PlaceTypes
    <2> QED BY <1>c, <2>1, <2>2, <2>3, <2>4 DEF StepKind
  <1>4. \A b \in builds' : conn'[b.who] = "in"
    <2>a. \A b \in builds : b.who \in Client /\ conn[b.who] = "in"
      BY <1>a, <1>b DEF ConnInv, FlagTypes
    <2>1. builds' = builds \/ \E c \in Client : Flagged(c)
      BY <1>c DEF StepKind, Quiet, Members, Came, Stood, Sat, Gone, decks
    <2>2. ASSUME NEW c \in Client, Flagged(c)
          PROVE  \A b \in builds' : b \in builds \/ (b.who = c /\ conn[c] = "in")
      BY <2>2 DEF Flagged
    <2> QED BY <1>d, <2>a, <2>1, <2>2
  <1>5. \A p \in Client : deck'[p].who # NoClient => conn'[deck'[p].who] = "in"
    <2>a. \A p \in Client : deck[p].who # NoClient => deck[p].who \in Client /\ conn[deck[p].who] = "in"
      BY <1>a, <1>b DEF ConnInv, FlagTypes, NoDeck
    <2>1. deck' = deck \/ \E c \in Client : Flagged(c)
      <3>1. ASSUME NEW c \in Client, Came(c) PROVE deck' = deck
        BY <3>1 DEF Came, SitOrStand, SitDown, Enters, StandBy, flags
      <3> QED BY <1>c, <3>1 DEF StepKind, Quiet, Members, Stood, Sat, Gone, RunRemove, flags
    <2>2. ASSUME NEW c \in Client, Flagged(c)
          PROVE  conn[c] = "in" /\ \A p \in Client : deck'[p].who \in {deck[p].who, c}
      BY <2>2 DEF Flagged
    <2> QED BY <1>d, <2>a, <2>1, <2>2
  <1>6. holder' # NoClient => conn'[holder'] = "joining"
    <2>a. holder # NoClient => holder \in Client /\ conn[holder] = "joining"
      BY <1>a, <1>b DEF ConnInv, NetTypes
    <2>1. CASE Run
      <3> DEFINE op == Head(asked)
                 c == op.who
      <3>1. holder = NoClient
        BY <2>1 DEF Run
      <3>2. CASE holder' = NoClient
        BY <3>2
      <3>3. CASE holder' # NoClient
        <4>1. op.do = "join" /\ RunJoin(c)
          BY <2>1, <3>1, <3>3 DEF Run, RunJoin, RunCreate, RunReady, RunNotReady, RunObserver, RunToDuel, RunKick, RunDeck, RunRemove, RunStart, RunDestroy
        <4>2. conn[c] = "joining"
          BY <1>a, <2>1, <4>1, HeadOp DEF Run
        <4>3. holder' = c /\ conn' = conn
          BY <3>1, <3>3, <4>1 DEF RunJoin, nets
        <4> QED BY <4>2, <4>3
      <3> QED BY <3>2, <3>3
    <2>2. CASE ~Run /\ ~\E c \in Client, ok \in Admits : LookedUp(c, ok)
      <3>1. holder' = holder
        BY <2>2 DEF Next, CreateByHttp, CreateGame, Created, CreateRefused, JoinGame, JoinRefused, Join, Command, UpdateDeck, Disconnect, Built, mutex, vars
      <3>2. holder # NoClient => conn'[holder] = conn[holder]
        <4> SUFFICES ASSUME holder # NoClient
                     PROVE  conn'[holder] = conn[holder]
          OBVIOUS
        <4>1. holder \in Client /\ conn[holder] = "joining" /\ phase # "none"
          BY <1>a, <2>a DEF ConnInv
        <4>2. conn' = conn \/ \E c \in Client, k \in {"checking", "refused", "joining", "unheard"} : conn[c] \in {"away", "checking"} /\ conn' = [conn EXCEPT ![c] = k]
          BY <2>2, <4>1 DEF Next, CreateByHttp, CreateGame, Created, CreateRefused, JoinGame, JoinRefused, Join, Command, UpdateDeck, Disconnect, Built, nets, vars
        <4> QED BY <1>b, <4>1, <4>2 DEF NetTypes
      <3> QED BY <2>a, <3>1, <3>2
    <2>3. ASSUME NEW c \in Client, NEW ok \in Admits, LookedUp(c, ok) PROVE holder' = NoClient
      BY <2>3 DEF LookedUp
    <2> QED BY <2>1, <2>2, <2>3
  <1>7. phase' = "none" => asked' = <<>> /\ holder' = NoClient /\ \A c \in Client : conn'[c] # "in"
    <2> SUFFICES ASSUME phase' = "none"
                 PROVE  asked' = <<>> /\ holder' = NoClient /\ \A c \in Client : conn'[c] # "in"
      OBVIOUS
    <2>1. phase = "none"
      BY DEF Next, CreateByHttp, Created, OpenRoom, Run, RunCreate, RunJoin, RunReady, RunNotReady, RunObserver, RunToDuel, RunKick, RunDeck, RunRemove, RunStart, RunDestroy,
             CreateGame, CreateRefused, JoinGame, JoinRefused, Join, LookedUp, Command, UpdateDeck, Disconnect, Delete, Built, room, vars
    <2>2. asked = <<>> /\ holder = NoClient /\ NoClient \notin Client /\ \A c \in Client : conn[c] # "in"
      BY <1>a, <2>1, LobbyBounds DEF ConnInv
    <2>3. ~CreateByHttp /\ ~Run /\ \A c \in Client : ~Created(c) /\ ~JoinGame(c) /\ ~Command(c) /\ ~UpdateDeck(c) /\ ~\E ok \in Admits : LookedUp(c, ok)
      BY <2>1, <2>2 DEF CreateByHttp, OpenRoom, Run, Created, JoinGame, LookedUp, Command, UpdateDeck, Heard
    <2>5. \A c \in Client : role[c] = "none"
      BY <1>a, <2>2 DEF ConnInv
    <2>6. \A b \in builds : FALSE
      BY <1>a, <1>b, <2>2 DEF ConnInv, FlagTypes
    <2>7. ASSUME NEW c \in Client, CreateGame(c) \/ CreateRefused(c) \/ JoinRefused(c)
          PROVE  asked' = asked /\ holder' = holder /\ \A d \in Client : conn'[d] # "in"
      BY <1>b, <2>2, <2>7 DEF CreateGame, CreateRefused, JoinRefused, mutex, NetTypes
    <2>8. ASSUME NEW c \in Client, Disconnect(c)
          PROVE  asked' = asked /\ holder' = holder /\ conn' = conn
      BY <2>5, <2>8 DEF Disconnect
    <2>9. ASSUME NEW c \in Client, Join(c)
          PROVE  asked' = asked /\ holder' = holder /\ \A d \in Client : conn'[d] # "in"
      BY <1>b, <2>1, <2>2, <2>9 DEF Join, NetTypes
    <2> QED BY <2>2, <2>3, <2>6, <2>7, <2>8, <2>9 DEF Next, vars
  <1> QED BY <1>1, <1>2, <1>3, <1>4, <1>5, <1>6, <1>7 DEF ConnInv

\* Whoever is found to have no free seat plays with somebody.
LEMMA FullHouse ==
  ASSUME FreePlace = {}
  PROVE  Players # {}
  <1>1. 0 \in Seats /\ TeamOf(0) = 0 /\ FreeOf(0) = {}
    BY LobbyBounds, PlaceIsFree DEF Seats, TeamOf
  <1> QED BY <1>1 DEF FreeOf

LEMMA HostKept ==
  ASSUME IInv, [Next]_vars
  PROVE  HostInv'
  <1>a. TypeOK /\ OpsInv /\ ConnInv /\ HostInv /\ HeldReadyAwaitsADeck
    BY DEF IInv
  <1>b. NetTypes /\ PlaceTypes /\ FlagTypes /\ asked \in Seq(Op)
    BY <1>a, TypesSplit
  <1>c. StepKind
    BY <1>a, NextKinds
  <1>h. /\ (\E c \in Client : role[c] # "none") => \E d \in host : role[d] = "player"
        /\ \A c, d \in host : role[c] = "player" /\ role[d] = "player" => c = d
        /\ \A c \in host : role[c] # "spectator"
        /\ host \subseteq Client
    BY <1>a, <1>b DEF HostInv, FlagTypes, Players
  <1> SUFFICES /\ (\E c \in Client : role'[c] # "none") => \E d \in host' : role'[d] = "player"
               /\ \A c, d \in host' : role'[c] = "player" /\ role'[d] = "player" => c = d
               /\ \A c \in host' : role'[c] # "spectator"
    <2>1. host' \subseteq Client
      BY <1>b, <1>c, <1>a, FlagTypesKept DEF FlagTypes
    <2> QED BY <2>1 DEF HostInv, Players
  <1>1. CASE Quiet
    BY <1>h, <1>1 DEF Quiet, Members
  <1>2. ASSUME NEW c \in Client, Came(c)
        PROVE  /\ (\E d \in Client : role'[d] # "none") => \E d \in host' : role'[d] = "player"
               /\ \A d, e \in host' : role'[d] = "player" /\ role'[e] = "player" => d = e
               /\ \A d \in host' : role'[d] # "spectator"
    <2>0. c \notin host /\ role[c] = "none"
      BY <1>a, <1>2 DEF Came, ConnInv
    <2>1. CASE \E s \in FreePlace : SitDown(c, s)
      <3>1. /\ role' = [role EXCEPT ![c] = "player"]
            /\ host' = IF Players \cap host # {} THEN host ELSE host \cup {c}
        BY <2>1 DEF SitDown, Enters
      <3>2. CASE Players \cap host # {}
        <4>1. PICK h \in host : role[h] = "player"
          BY <3>2 DEF Players
        <4> QED BY <1>b, <1>h, <2>0, <3>1, <3>2, <4>1 DEF PlaceTypes
      <3>3. CASE Players \cap host = {}
        <4>1. \A d \in Client : role[d] = "none"
          BY <1>h, <3>3 DEF Players
        <4> QED BY <1>b, <1>h, <3>1, <3>3, <4>1 DEF PlaceTypes
      <3> QED BY <3>2, <3>3
    <2>2. CASE FreePlace = {} /\ StandBy(c)
      <3>1. role' = [role EXCEPT ![c] = "spectator"] /\ host' = host
        BY <2>2 DEF StandBy, Enters, flags
      <3>2. PICK p \in Client : role[p] = "player"
        BY <2>2, FullHouse DEF Players
      <3>3. PICK h \in host : role[h] = "player"
        BY <1>h, <3>2
      <3> QED BY <1>b, <1>h, <2>0, <3>1, <3>3 DEF PlaceTypes
    <2> QED BY <1>2, <2>1, <2>2 DEF Came, SitOrStand
  <1>3. ASSUME NEW c \in Client, Stood(c) \/ Gone(c)
        PROVE  /\ (\E d \in Client : role'[d] # "none") => \E d \in host' : role'[d] = "player"
               /\ \A d, e \in host' : role'[d] = "player" /\ role'[e] = "player" => d = e
               /\ \A d \in host' : role'[d] # "spectator"
    <2>1. c \notin host /\ host' = host
      BY <1>3 DEF Stood, Gone, RunRemove, flags
    <2>2. (\A d \in Client : d # c => role'[d] = role[d]) /\ (role'[c] # "none" => role[c] # "none")
      BY <1>b, <1>3 DEF Stood, MoveToStands, Gone, RunRemove, PlaceTypes, Players
    <2> QED BY <1>h, <2>1, <2>2
  <1>4. ASSUME NEW c \in Client, Sat(c)
        PROVE  /\ (\E d \in Client : role'[d] # "none") => \E d \in host' : role'[d] = "player"
               /\ \A d, e \in host' : role'[d] = "player" /\ role'[e] = "player" => d = e
               /\ \A d \in host' : role'[d] # "spectator"
    <2>1. host' = host /\ role[c] # "none" /\ (role' = role \/ (team[c] = 3 /\ role' = [role EXCEPT ![c] = "player"]))
      BY <1>4 DEF Sat
    <2>2. CASE role' = role
      BY <1>h, <2>1, <2>2
    <2>3. CASE team[c] = 3 /\ role' = [role EXCEPT ![c] = "player"]
      <3>1. role[c] = "spectator"
        BY <1>a, <1>b, <2>1, <2>3 DEF ConnInv, PlaceTypes
      <3>2. c \notin host
        BY <1>h, <3>1
      <3> QED BY <1>b, <1>h, <2>1, <2>3, <3>1, <3>2 DEF PlaceTypes
    <2> QED BY <2>1, <2>2, <2>3
  <1>5. ASSUME NEW c \in Client, Flagged(c)
        PROVE  /\ (\E d \in Client : role'[d] # "none") => \E d \in host' : role'[d] = "player"
               /\ \A d, e \in host' : role'[d] = "player" /\ role'[e] = "player" => d = e
               /\ \A d \in host' : role'[d] # "spectator"
    BY <1>h, <1>5 DEF Flagged, places
  <1> QED BY <1>c, <1>1, <1>2, <1>3, <1>4, <1>5 DEF StepKind

\* A newcomer and whoever comes down from the stands take a position that nobody
\* holds in its team, and whoever moves on takes one that nobody holds.
LEMMA SharedIsMisfiled ==
  ASSUME IInv, [Next]_vars
  PROVE  \A d, e \in Client : role'[d] = "player" /\ role'[e] = "player" =>
           /\ seat'[d] # NoSeat
           /\ seat'[d] = seat'[e] => d = e \/ team'[d] # TeamOf(seat'[d]) \/ team'[e] # TeamOf(seat'[e])
  <1>a. TypeOK /\ OpsInv /\ ConnInv /\ HostInv /\ HeldReadyAwaitsADeck
    BY DEF IInv
  <1>b. NetTypes /\ PlaceTypes /\ FlagTypes /\ asked \in Seq(Op)
    BY <1>a, TypesSplit
  <1>c. StepKind
    BY <1>a, NextKinds
  <1>s. \A d, e \in Client : role[d] = "player" /\ role[e] = "player" =>
           /\ seat[d] # NoSeat
           /\ seat[d] = seat[e] => d = e \/ team[d] # TeamOf(seat[d]) \/ team[e] # TeamOf(seat[e])
    BY DEF IInv, SeatsInv, SeatsDistinct, Misfiled, Players
  <1> DEFINE Shared == \A d, e \in Client : role'[d] = "player" /\ role'[e] = "player" =>
           /\ seat'[d] # NoSeat
           /\ seat'[d] = seat'[e] => d = e \/ team'[d] # TeamOf(seat'[d]) \/ team'[e] # TeamOf(seat'[e])
  <1>1. CASE Quiet
    BY <1>s, <1>1 DEF Quiet, Members
  <1>2. ASSUME NEW c \in Client, Came(c)
        PROVE  Shared
    <2>1. CASE \E s \in FreePlace : SitDown(c, s)
      <3>1. PICK s \in FreePlace : SitDown(c, s)
        BY <2>1
      <3>2. s # NoSeat /\ \A d \in Client : role[d] = "player" /\ seat[d] = s => team[d] # TeamOf(s)
        BY <3>1, PlaceIsFree, SeatRange DEF Players
      <3>3. seat'[c] = s /\ \A d \in Client : d # c => role'[d] = role[d] /\ seat'[d] = seat[d] /\ team'[d] = team[d]
        BY <1>b, <3>1 DEF SitDown, PlaceTypes
      <3> QED BY <1>s, <3>2, <3>3
    <2>2. CASE StandBy(c)
      <3>1. role'[c] = "spectator" /\ \A d \in Client : d # c => role'[d] = role[d] /\ seat'[d] = seat[d] /\ team'[d] = team[d]
        BY <1>b, <2>2 DEF StandBy, PlaceTypes
      <3> QED BY <1>s, <3>1
    <2> QED BY <1>2, <2>1, <2>2 DEF Came, SitOrStand
  <1>3. ASSUME NEW c \in Client, Stood(c) \/ Gone(c) \/ Flagged(c)
        PROVE  Shared
    <2>1. /\ role'[c] # "player" \/ (role'[c] = role[c] /\ seat'[c] = seat[c] /\ team'[c] = team[c])
          /\ \A d \in Client : d # c => role'[d] = role[d] /\ seat'[d] = seat[d] /\ team'[d] = team[d]
      BY <1>b, <1>3 DEF Stood, MoveToStands, Gone, RunRemove, Flagged, places, PlaceTypes
    <2> QED BY <1>s, <2>1
  <1>4. ASSUME NEW c \in Client, Sat(c)
        PROVE  Shared
    <2>1. PICK g \in Goal(c) :
             /\ seat' = [seat EXCEPT ![c] = g.pos] /\ team' = [team EXCEPT ![c] = g.team]
             /\ role' = IF team[c] = 3 THEN [role EXCEPT ![c] = "player"] ELSE role
      BY <1>4 DEF Sat
    <2>2. seat'[c] = g.pos /\ \A d \in Client : d # c => role'[d] = role[d] /\ seat'[d] = seat[d] /\ team'[d] = team[d]
      BY <1>b, <2>1 DEF PlaceTypes
    <2>3. g.pos # NoSeat
      BY <1>b, <2>1, GoalIsFree, SeatRange
    <2>4. \A d \in Client : role[d] = "player" /\ seat[d] = g.pos => team[d] # TeamOf(g.pos)
      <3>1. CASE team[c] = 3
        BY <1>b, <2>1, <3>1, GoalIsFree DEF Players
      <3>2. CASE team[c] # 3
        <4>1. g.pos \in Unoccupied
          BY <1>b, <2>1, <3>2, GoalIsFree
        <4> QED BY <4>1 DEF Unoccupied, Players
      <3> QED BY <3>1, <3>2
    <2> QED BY <1>s, <2>2, <2>3, <2>4
  <1> QED BY <1>c, <1>1, <1>2, <1>3, <1>4 DEF StepKind

LEMMA SeatsKept ==
  ASSUME IInv, [Next]_vars
  PROVE  SeatsInv'
  <1>a. TypeOK /\ OpsInv /\ ConnInv /\ HostInv /\ HeldReadyAwaitsADeck
    BY DEF IInv
  <1>b. NetTypes /\ PlaceTypes /\ FlagTypes /\ asked \in Seq(Op)
    BY <1>a, TypesSplit
  <1>c. StepKind
    BY <1>a, NextKinds
  <1> SUFFICES ASSUME Team1 = 1
               PROVE  /\ \A d, e \in Client : role'[d] = "player" /\ role'[e] = "player" =>
                           (seat'[d] = seat'[e] => d = e) /\ seat'[d] # NoSeat /\ team'[d] = TeamOf(seat'[d])
                      /\ \A p \in Client : deck'[p].who \notin {p, NoClient} => role'[deck'[p].who] = "none"
    BY SharedIsMisfiled DEF SeatsInv, SeatsDistinct, Misfiled, Players, TeamOf
  <1>s. \A d, e \in Client : role[d] = "player" /\ role[e] = "player" =>
          (seat[d] = seat[e] => d = e) /\ seat[d] # NoSeat /\ team[d] = TeamOf(seat[d])
    BY DEF IInv, SeatsInv, SeatsDistinct, Misfiled, Players
  <1>d. \A p \in Client : deck[p].who \notin {p, NoClient} => role[deck[p].who] = "none"
    BY DEF IInv, SeatsInv
  <1>t. \A p \in Client : deck[p].who # NoClient => deck[p].who \in Client /\ conn[deck[p].who] = "in"
    BY <1>a, <1>b DEF ConnInv, FlagTypes, NoDeck
  <1> DEFINE Distinct == \A d, e \in Client : role'[d] = "player" /\ role'[e] = "player" =>
                           (seat'[d] = seat'[e] => d = e) /\ seat'[d] # NoSeat /\ team'[d] = TeamOf(seat'[d])
             Own == \A p \in Client : deck'[p].who \notin {p, NoClient} => role'[deck'[p].who] = "none"
  <1>1. CASE Quiet
    BY <1>s, <1>d, <1>1 DEF Quiet, Members
  <1>2. ASSUME NEW c \in Client, Came(c)
        PROVE  Distinct /\ Own
    <2>1. deck' = deck /\ conn[c] # "in" /\ \A d \in Client : d # c => role'[d] = role[d]
      BY <1>b, <1>2 DEF Came, SitOrStand, SitDown, Enters, StandBy, PlaceTypes, flags
    <2>2. Own
      BY <1>d, <1>t, <2>1
    <2>3. CASE \E s \in FreePlace : SitDown(c, s)
      <3>1. PICK s \in FreePlace : SitDown(c, s)
        BY <2>3
      <3>2. s \in Seats /\ s # NoSeat /\ ~\E d \in Players : seat[d] = s /\ team[d] = TeamOf(s)
        BY <3>1, PlaceIsFree, SeatRange
      <3>3. /\ role' = [role EXCEPT ![c] = "player"]
            /\ seat' = [seat EXCEPT ![c] = s] /\ team' = [team EXCEPT ![c] = TeamOf(s)]
        BY <3>1 DEF SitDown, Enters
      <3>4. \A d \in Client : role[d] = "player" => seat[d] # s
        BY <1>s, <3>2 DEF Players
      <3>5. seat'[c] = s /\ team'[c] = TeamOf(s) /\ \A d \in Client : d # c => role'[d] = role[d] /\ seat'[d] = seat[d] /\ team'[d] = team[d]
        BY <1>b, <3>3 DEF PlaceTypes
      <3>6. Distinct
        BY <1>s, <3>2, <3>4, <3>5
      <3> QED BY <2>2, <3>6
    <2>4. CASE StandBy(c)
      <3>1. role'[c] = "spectator" /\ \A d \in Client : d # c => role'[d] = role[d] /\ seat'[d] = seat[d] /\ team'[d] = team[d]
        BY <1>b, <2>4 DEF StandBy, Enters, PlaceTypes
      <3>2. Distinct
        BY <1>s, <3>1
      <3> QED BY <2>2, <3>2
    <2> QED BY <1>2, <2>3, <2>4 DEF Came, SitOrStand
  <1>3. ASSUME NEW c \in Client, Stood(c) \/ Gone(c)
        PROVE  Distinct /\ Own
    <2>1. deck' = deck
      BY <1>3 DEF Stood, Gone, RunRemove, flags
    <2>2. /\ role'[c] # "player" \/ (role'[c] = role[c] /\ seat'[c] = seat[c] /\ team'[c] = team[c])
          /\ \A d \in Client : d # c => role'[d] = role[d] /\ seat'[d] = seat[d] /\ team'[d] = team[d]
          /\ role[c] = "none" => role'[c] = "none"
      BY <1>b, <1>3 DEF Stood, MoveToStands, Gone, RunRemove, PlaceTypes, Players
    <2>3. Distinct
      BY <1>s, <2>2
    <2>4. Own
      BY <1>d, <1>t, <2>1, <2>2
    <2> QED BY <2>3, <2>4
  <1>4. ASSUME NEW c \in Client, Sat(c)
        PROVE  Distinct /\ Own
    <2>0. deck' = deck /\ role[c] # "none"
      BY <1>4 DEF Sat
    <2>1. PICK g \in Goal(c) :
             /\ seat' = [seat EXCEPT ![c] = g.pos] /\ team' = [team EXCEPT ![c] = g.team]
             /\ role' = IF team[c] = 3 THEN [role EXCEPT ![c] = "player"] ELSE role
      BY <1>4 DEF Sat
    <2>2. seat'[c] = g.pos /\ team'[c] = g.team /\ \A d \in Client : d # c => role'[d] = role[d] /\ seat'[d] = seat[d] /\ team'[d] = team[d]
      BY <1>b, <2>1 DEF PlaceTypes
    <2>3. g.pos \in Seats /\ g.pos # NoSeat
      BY <1>b, <2>1, GoalIsFree, SeatRange
    <2>4. g.team = TeamOf(g.pos) /\ \A d \in Client : d # c /\ role[d] = "player" => seat[d] # g.pos
      <3>1. CASE team[c] = 3
        BY <1>b, <1>s, <2>1, <3>1, GoalIsFree DEF Players
      <3>2. CASE team[c] # 3
        <4>1. role[c] = "player"
          BY <1>b, <2>0, <3>2 DEF PlaceTypes
        <4>2. seat[c] \notin Unoccupied /\ \A d \in Client : role[d] = "player" => seat[d] \notin Unoccupied
          BY <4>1 DEF Unoccupied, Players
        <4> QED BY <1>b, <2>1, <3>2, <4>2, GoalIsFree
      <3> QED BY <3>1, <3>2
    <2>5. Distinct
      BY <1>s, <2>2, <2>3, <2>4
    <2>6. Own
      BY <1>d, <1>t, <2>0, <2>2
    <2> QED BY <2>5, <2>6
  <1>5. ASSUME NEW c \in Client, Flagged(c)
        PROVE  Distinct /\ Own
    <2>1. role' = role /\ seat' = seat /\ team' = team
      BY <1>5 DEF Flagged, places
    <2>2. Distinct
      BY <1>s, <2>1
    <2>3. ASSUME NEW n \in Nat \ {0},
                 deck' = [p \in Client |-> IF p \in Players /\ seat[p] = seat[c] THEN [who |-> c, n |-> n] ELSE deck[p]]
          PROVE  Own
      <3>1. \A p \in Client : deck'[p] = deck[p] \/ (deck'[p].who = c /\ role[p] = "player" /\ seat[p] = seat[c])
        BY <2>3 DEF Players
      <3>2. \A p \in Client : role[p] = "player" /\ seat[p] = seat[c] => p = c \/ role[c] = "none"
        <4>1. \A p \in Client : role[p] = "player" => seat[p] # NoSeat
          BY <1>s
        <4>2. role[c] = "spectator" => seat[c] = NoSeat
          BY <1>b DEF PlaceTypes
        <4>3. role[c] \in {"none", "player", "spectator"}
          BY <1>b DEF PlaceTypes
        <4> QED BY <1>s, <4>1, <4>2, <4>3
      <3>3. ASSUME NEW p \in Client, deck'[p].who \notin {p, NoClient}
            PROVE  role'[deck'[p].who] = "none"
        <4>1. CASE deck'[p] = deck[p]
          BY <1>d, <2>1, <3>3, <4>1
        <4>2. CASE deck'[p].who = c /\ role[p] = "player" /\ seat[p] = seat[c]
          BY <2>1, <3>2, <3>3, <4>2
        <4> QED BY <3>1, <4>1, <4>2
      <3> QED BY <3>3
    <2>4. deck' = deck => Own
      BY <1>d, <2>1
    <2>5. deck' = deck \/ \E n \in Nat \ {0} :
            deck' = [p \in Client |-> IF p \in Players /\ seat[p] = seat[c] THEN [who |-> c, n |-> n] ELSE deck[p]]
      BY <1>5 DEF Flagged
    <2> HIDE DEF Distinct, Own
    <2> QED BY <2>2, <2>3, <2>4, <2>5
  <1> HIDE DEF Distinct, Own
  <1>6. Distinct /\ Own
    BY <1>c, <1>2, <1>3, <1>4, <1>5, <1>1 DEF StepKind, Distinct, Own, Quiet
  <1> QED BY <1>6 DEF Distinct, Own

-----------------------------------------------------------------------------
(* The unranked lobby, whose mutex never waits. *)

LEMMA OneAsked ==
  ASSUME asked = <<>>, NEW e, asked' = Append(asked, e)
  PROVE  Len(asked') = 1 /\ DOMAIN asked' = {1} /\ asked'[1] = e
  <1>1. asked' = <<e>>
    OBVIOUS
  <1> QED BY <1>1

\* A step that starts with nothing waiting, and closes nobody that is ready.
LEMMA UnrankedFrame ==
  ASSUME UnrankedInv, ~ranked, asked = <<>>, holder' = NoClient, UNCHANGED <<phase, heard, listed, role>>,
         ready' \subseteq ready, saved' \subseteq saved,
         \A d \in closed' : d \in closed \/ d \notin ready \cup saved \/ role[d] = "none",
         asked' = <<>> \/ \E e : asked' = Append(asked, e) /\ (e.do = "ready" => e.who \notin closed') /\ (e.do = "start" => heard) /\ e.do # "remove"
  PROVE  UnrankedInv'
  <1>1. Len(asked) = 0 /\ DOMAIN asked = {}
    OBVIOUS
  <1>2. phase = "waiting" /\ heard => listed /\ \A d \in closed \cap (ready \cup saved) : role[d] = "none"
    BY <1>1 DEF UnrankedInv, Leaving
  <1>3. phase' = "waiting" /\ heard' => listed' /\ \A d \in closed' \cap (ready' \cup saved') : role'[d] = "none"
    BY <1>2
  <1>4. CASE asked' = <<>>
    <2>1. Len(asked') = 0 /\ DOMAIN asked' = {}
      BY <1>4
    <2> QED BY <1>3, <2>1 DEF UnrankedInv, Leaving
  <1>5. ASSUME NEW e, asked' = Append(asked, e), e.do = "ready" => e.who \notin closed', e.do = "start" => heard, e.do # "remove"
        PROVE  UnrankedInv'
    <2>1. Len(asked') = 1 /\ DOMAIN asked' = {1} /\ asked'[1] = e
      BY <1>5, OneAsked
    <2> QED BY <1>3, <1>5, <2>1 DEF UnrankedInv, Leaving
  <1> QED BY <1>4, <1>5

LEMMA UnrankedRun ==
  ASSUME IInv, Run, ~ranked
  PROVE  UnrankedInv'
  <1>a. TypeOK /\ OpsInv /\ ConnInv /\ UnrankedInv
    BY DEF IInv
  <1>b. NetTypes /\ PlaceTypes /\ FlagTypes /\ asked \in Seq(Op) /\ NoClient \notin Client
    BY <1>a, TypesSplit, LobbyBounds
  <1> DEFINE op == Head(asked)
             c == op.who
  <1>c. asked # <<>> /\ asked' = Tail(asked)
    BY DEF Run
  <1>d. /\ op \in Op /\ asked[1] = op /\ 1 \in DOMAIN asked
        /\ op.do \in {"join", "create"} \cup Mine => c \in Client
        /\ op.do = "join" => conn[c] = "joining"
        /\ op.do = "create" => conn[c] = "creating"
    BY <1>a, <1>c, HeadOp
  <1>e. Len(asked) = 1 /\ DOMAIN asked = {1} /\ asked' = <<>> /\ Len(asked') = 0 /\ DOMAIN asked' = {}
    <2>1. Len(asked) \in Nat /\ DOMAIN asked = 1 .. Len(asked) /\ Len(asked) <= 1 /\ holder = NoClient
      BY <1>a, <1>b DEF UnrankedInv
    <2>2. Len(asked) = 1
      BY <1>d, <2>1
    <2>3. asked' \in Seq(Op) /\ Len(asked') = 0
      BY <1>b, <1>c, <2>2, Pops
    <2>4. asked' = <<>>
      BY <2>3
    <2> QED BY <2>1, <2>2, <2>4
  <1>f. /\ op.do = "ready" => c \notin closed
        /\ op.do = "remove" => op.from = role[c]
        /\ op.do = "start" => heard
        /\ phase = "waiting" /\ heard =>
             /\ \A d \in closed \cap (ready \cup saved) : role[d] # "none" => Removes(op, d) \/ op.do = "destroy"
             /\ ~listed => op.do = "destroy"
    BY <1>a, <1>d, <1>e DEF UnrankedInv, Leaving
  <1>g. op.do = "remove" /\ c \in Client => Removes(op, c)
    BY <1>d, OpFields DEF Removes
  <1>h. \A d \in Client : Removes(op, d) => op.do = "remove" /\ c = d
    BY DEF Removes
  <1>i. /\ \/ op.do = "create" /\ RunCreate(c) /\ UNCHANGED room
           \/ op.do = "join" /\ RunJoin(c) /\ UNCHANGED room
           \/ op.do = "ready" /\ RunReady(c)
           \/ op.do = "notReady" /\ RunNotReady(c)
           \/ op.do = "observer" /\ RunObserver(c)
           \/ op.do = "toDuel" /\ RunToDuel(c)
           \/ op.do = "kick" /\ RunKick(op.pos)
           \/ op.do = "deck" /\ RunDeck(c, op.n)
           \/ op.do = "remove" /\ RunRemove(c, op.from)
           \/ op.do = "start" /\ RunStart
           \/ op.do = "destroy" /\ RunDestroy
        /\ holder = NoClient
    BY DEF Run
  <1>j. \A d \in Client : conn[d] # "in" => d \notin ready \cup saved
    BY <1>a DEF ConnInv
  <1> HIDE DEF op, c
  \* What has to be shown of the step: nobody ready and closed is left in.
  <1> DEFINE Clear == phase' = "waiting" /\ heard' =>
                        listed' /\ \A d \in closed' \cap (ready' \cup saved') : role'[d] = "none"
  <1>k. holder' = NoClient /\ Clear => UnrankedInv'
    BY <1>e DEF UnrankedInv
  \* Before the step, when the operation is neither a removal nor the end.
  <1>l. op.do \notin {"remove", "destroy"} /\ phase = "waiting" /\ heard =>
          listed /\ \A d \in closed \cap (ready \cup saved) : role[d] = "none"
    BY <1>f, <1>b, <1>h DEF FlagTypes
  <1>m. ASSUME op.do \notin {"remove", "destroy"}, UNCHANGED <<room, closed>>, holder' = NoClient,
               \A d \in closed : d \in ready' \cup saved' => (d \in ready \cup saved /\ role'[d] = role[d]) \/ role'[d] = "none"
        PROVE  UnrankedInv'
    <2>1. Clear
      BY <1>l, <1>m DEF room
    <2> QED BY <1>k, <1>m, <2>1
  <1>1. CASE op.do = "create" /\ RunCreate(c) /\ UNCHANGED room
    <2>1. c \in Client /\ conn[c] = "creating"
      BY <1>1, <1>d
    <2>2. closed' = closed /\ ready' = ready /\ saved' = saved /\ holder' = NoClient /\ \A d \in Client : d # c => role'[d] = role[d]
      BY <1>1, <1>b, <1>i DEF RunCreate, SitDown, Enters, PlaceTypes
    <2> QED BY <1>1, <1>b, <1>j, <1>m, <2>1, <2>2 DEF NetTypes
  <1>2. CASE op.do = "join" /\ RunJoin(c) /\ UNCHANGED room
    <2>1. c \in Client /\ conn[c] = "joining"
      BY <1>2, <1>d
    <2>2. SitOrStand(c) /\ holder' = NoClient
      BY <1>2, <1>i DEF RunJoin
    <2>3. closed' = closed /\ ready' = ready /\ saved' = saved /\ \A d \in Client : d # c => role'[d] = role[d]
      BY <2>2, <1>b DEF SitOrStand, SitDown, Enters, StandBy, PlaceTypes, flags
    <2> QED BY <1>2, <1>b, <1>j, <1>m, <2>1, <2>2, <2>3 DEF NetTypes
  <1>3. CASE op.do = "ready" /\ RunReady(c)
    <2>1. UNCHANGED <<room, closed, role>> /\ holder' = NoClient /\ ready' \subseteq ready \cup {c} /\ saved' \subseteq saved \cup {c}
      BY <1>3, <1>i DEF RunReady, nets, places
    <2>2. \A d \in closed : d \in ready' \cup saved' => (d \in ready \cup saved /\ role'[d] = role[d]) \/ role'[d] = "none"
      BY <1>3, <1>f, <2>1
    <2> QED BY <1>3, <1>m, <2>1, <2>2
  <1>4. CASE op.do = "notReady" /\ RunNotReady(c)
    <2>1. UNCHANGED <<room, closed, role, saved>> /\ holder' = NoClient /\ ready' \subseteq ready
      BY <1>4, <1>i DEF RunNotReady, nets, places
    <2> QED BY <1>4, <1>m, <2>1
  <1>5. CASE op.do = "deck" /\ RunDeck(c, op.n)
    <2>1. UNCHANGED <<room, closed, role>> /\ holder' = NoClient /\ ready' \cup saved' \subseteq ready \cup saved
      BY <1>5, <1>i DEF RunDeck, nets, places
    <2> QED BY <1>5, <1>m, <2>1
  <1>6. CASE op.do = "observer" /\ RunObserver(c)
    <2>1. UNCHANGED <<room, closed, saved>> /\ holder' = NoClient
      BY <1>6, <1>i DEF RunObserver, nets
    <2>2. \A d \in Client : role'[d] # role[d] => role[d] # "none" /\ d = c
      <3>1. c \in Client /\ role[c] # "none"
        BY <1>a, <1>c, <1>6, HeadOp DEF op, c, Mine
      <3> QED BY <1>6, <1>b, <3>1 DEF RunObserver, MoveToStands, PlaceTypes, places
    <2>3. ready' \subseteq ready
      BY <1>6 DEF RunObserver, MoveToStands
    <2> QED BY <1>6, <1>b, <1>l, <1>k, <2>1, <2>2, <2>3 DEF NetTypes, room
  <1>7. CASE op.do = "toDuel" /\ RunToDuel(c)
    <2>1. UNCHANGED <<room, closed, saved>> /\ holder' = NoClient
      BY <1>7, <1>i DEF RunToDuel, nets
    <2>2. role' = role \/ role' = [role EXCEPT ![c] = "player"]
      BY <1>7 DEF RunToDuel, places
    <2>3. c \in Client /\ role[c] # "none"
      BY <1>a, <1>c, <1>7, HeadOp DEF op, c, Mine
    <2>4. \A d \in Client : role[d] = "none" => role'[d] = "none"
      BY <1>b, <2>2, <2>3 DEF PlaceTypes
    <2>5. ready' \subseteq ready
      BY <1>7 DEF RunToDuel
    <2> QED BY <1>7, <1>b, <1>l, <1>k, <2>1, <2>4, <2>5 DEF NetTypes, room
  <1>8. CASE op.do = "kick" /\ RunKick(op.pos)
    <2>1. UNCHANGED <<room, closed, saved>> /\ holder' = NoClient
      BY <1>8, <1>i DEF RunKick, nets
    <2>2. \A d \in Client : role[d] = "none" => role'[d] = "none"
      BY <1>8, <1>b DEF RunKick, MoveToStands, PlaceTypes, places, Players
    <2>3. ready' \subseteq ready
      BY <1>8 DEF RunKick, MoveToStands
    <2> QED BY <1>8, <1>b, <1>l, <1>k, <2>1, <2>2, <2>3 DEF NetTypes, room
  <1>9. CASE op.do = "remove" /\ RunRemove(c, op.from)
    <2>1. c \in Client /\ Removes(op, c)
      BY <1>d, <1>g, <1>9 DEF Mine
    <2>2. UNCHANGED <<room, closed, ready, saved>> /\ holder' = NoClient
      BY <1>9, <1>i DEF RunRemove, nets, flags
    <2>3. role'[c] = "none" /\ \A d \in Client : d # c => role'[d] = role[d]
      BY <1>b, <1>f, <1>9, <2>1 DEF RunRemove, PlaceTypes
    <2>4. phase = "waiting" /\ heard => listed /\ \A d \in closed \cap (ready \cup saved) : role[d] # "none" => d = c
      BY <1>b, <1>f, <1>h, <1>9 DEF NetTypes
    <2>5. Clear
      BY <1>b, <2>2, <2>3, <2>4 DEF NetTypes, room
    <2> QED BY <1>k, <2>2, <2>5
  <1>10. CASE op.do = "start" /\ RunStart
    <2>1. UNCHANGED <<closed, ready, saved, role, listed>> /\ holder' = NoClient
      BY <1>10, <1>i DEF RunStart, nets, places, flags
    <2>2. phase' = "rps" \/ (phase' = phase /\ heard' = heard)
      BY <1>10 DEF RunStart
    <2>3. Clear
      BY <1>l, <1>10, <2>1, <2>2
    <2> QED BY <1>k, <2>1, <2>3
  <1>11. CASE op.do = "destroy" /\ RunDestroy
    <2>1. heard' = FALSE /\ holder' = NoClient
      BY <1>11, <1>i DEF RunDestroy
    <2> QED BY <1>k, <2>1
  <1> QED BY <1>i, <1>1, <1>2, <1>3, <1>4, <1>5, <1>6, <1>7, <1>8, <1>9, <1>10, <1>11

LEMMA UnrankedKept ==
  ASSUME IInv, [Next]_vars
  PROVE  UnrankedInv'
  <1>a. TypeOK /\ OpsInv /\ ConnInv /\ HostInv /\ UnrankedInv
    BY DEF IInv
  <1>b. NetTypes /\ PlaceTypes /\ FlagTypes /\ asked \in Seq(Op) /\ NoClient \notin Client
    BY <1>a, TypesSplit, LobbyBounds
  <1>c. ranked' = ranked
    BY <1>a, <1>b, RoomKept
  <1> SUFFICES ASSUME ~ranked
               PROVE  UnrankedInv'
    BY <1>c DEF UnrankedInv
  <1>d. holder = NoClient /\ (Turn => asked = <<>>)
    BY <1>a DEF UnrankedInv, Turn
  <1>e. phase = "none" => asked = <<>> /\ \A d \in Client : d \notin ready \cup saved
    BY <1>a DEF ConnInv
  <1>j. \A d \in Client : conn[d] # "in" => d \notin ready \cup saved
    BY <1>a DEF ConnInv
  <1>o. ASSUME phase = "none", OpenRoom, UNCHANGED <<ready, saved, closed, holder>>,
               asked' = <<>> \/ \E c \in Client : asked' = Append(asked, [do |-> "create", who |-> c])
        PROVE  UnrankedInv'
    <2>1. listed' /\ closed' \cap (ready' \cup saved') = {}
      BY <1>b, <1>e, <1>o DEF OpenRoom, NetTypes
    <2>2. CASE asked' = <<>>
      <3>1. Len(asked') = 0 /\ DOMAIN asked' = {}
        BY <2>2
      <3> QED BY <1>d, <1>o, <2>1, <3>1 DEF UnrankedInv
    <2>3. ASSUME NEW c \in Client, asked' = Append(asked, [do |-> "create", who |-> c])
          PROVE  UnrankedInv'
      <3>1. Len(asked') = 1 /\ DOMAIN asked' = {1} /\ asked'[1] = [do |-> "create", who |-> c]
        BY <1>e, <1>o, <2>3, OneAsked
      <3> QED BY <1>d, <1>o, <2>1, <3>1 DEF UnrankedInv
    <2> QED BY <1>o, <2>2, <2>3
  <1>1. CASE CreateByHttp
    BY <1>1, <1>e, <1>o DEF CreateByHttp, nets, flags, mutex
  <1>2. CASE Run
    BY <1>2, UnrankedRun
  <1>3. ASSUME NEW c \in Client, Created(c) PROVE UnrankedInv'
    BY <1>3, <1>o DEF Created, Ask, nets, flags
  <1>4. ASSUME NEW c \in Client, CreateGame(c) \/ CreateRefused(c) \/ JoinGame(c) \/ JoinRefused(c) PROVE UnrankedInv'
    <2>1. UNCHANGED <<phase, heard, listed, role, ready, saved, asked, holder>>
      BY <1>4 DEF CreateGame, CreateRefused, JoinGame, JoinRefused, room, places, flags, mutex
    <2>2. asked = <<>>
      BY <1>4, <1>d, <1>e DEF CreateGame, CreateRefused, JoinGame, JoinRefused
    <2>3. closed' = closed \/ (closed' = closed \cup {c} /\ conn[c] \in {"away", "checking"})
      BY <1>4 DEF CreateGame, CreateRefused, JoinGame, JoinRefused
    <2>4. \A d \in closed' : d \in closed \/ d \notin ready \cup saved
      BY <1>j, <2>3
    <2> QED BY <1>a, <1>d, <2>1, <2>2, <2>4, UnrankedFrame
  <1>5. ASSUME NEW c \in Client, Join(c) PROVE UnrankedInv'
    <2>1. UNCHANGED <<phase, heard, listed, role, ready, saved, closed, holder>> /\ asked = <<>>
      BY <1>5, <1>d DEF Join, room, places, flags
    <2>2. asked' = <<>> \/ asked' = Append(asked, [do |-> "join", who |-> c])
      BY <1>5, <2>1 DEF Join, Ask
    <2>3. asked' = <<>> \/ \E e : asked' = Append(asked, e) /\ (e.do = "ready" => e.who \notin closed') /\ (e.do = "start" => heard) /\ e.do # "remove"
      <3>1. [do |-> "join", who |-> c].do = "join"
        OBVIOUS
      <3> QED BY <2>2, <3>1
    <2> QED BY <1>a, <1>d, <2>1, <2>3, UnrankedFrame
  <1>6. ASSUME NEW c \in Client, NEW ok \in Admits, LookedUp(c, ok) PROVE FALSE
    BY <1>6, <1>b, <1>d DEF LookedUp
  <1>7. ASSUME NEW c \in Client, Command(c) PROVE UnrankedInv'
    <2>1. UNCHANGED <<phase, heard, listed, role, ready, saved, closed, holder>> /\ asked = <<>> /\ heard /\ c \notin closed
      BY <1>7, <1>d DEF Command, Heard, room, nets, places, flags
    <2>2. \E e : asked' = Append(asked, e) /\ (e.do = "ready" => e.who \notin closed') /\ (e.do = "start" => heard) /\ e.do # "remove"
      <3>1. ASSUME NEW k \in {"ready", "notReady", "observer", "toDuel"}, asked' = Append(asked, [do |-> k, who |-> c])
            PROVE  \E e : asked' = Append(asked, e) /\ (e.do = "ready" => e.who \notin closed') /\ (e.do = "start" => heard) /\ e.do # "remove"
        BY <2>1, <3>1
      <3>2. ASSUME asked' = Append(asked, [do |-> "start"])
            PROVE  \E e : asked' = Append(asked, e) /\ (e.do = "ready" => e.who \notin closed') /\ (e.do = "start" => heard) /\ e.do # "remove"
        <4>1. [do |-> "start"].do = "start"
          OBVIOUS
        <4> QED BY <2>1, <3>2, <4>1
      <3>3. ASSUME NEW s \in Seats, asked' = Append(asked, [do |-> "kick", pos |-> s])
            PROVE  \E e : asked' = Append(asked, e) /\ (e.do = "ready" => e.who \notin closed') /\ (e.do = "start" => heard) /\ e.do # "remove"
        <4>1. [do |-> "kick", pos |-> s].do = "kick"
          OBVIOUS
        <4> QED BY <3>3, <4>1
      <3> QED BY <1>7, <3>1, <3>2, <3>3 DEF Command, Ask
    <2> QED BY <1>a, <1>d, <2>1, <2>2, UnrankedFrame
  <1>8. ASSUME NEW c \in Client, UpdateDeck(c) PROVE UnrankedInv'
    <2>1. UNCHANGED <<phase, heard, listed, role, ready, saved, closed, holder, asked>> /\ asked = <<>>
      BY <1>8, <1>d DEF UpdateDeck, Heard, room, nets, places, mutex
    <2> QED BY <1>a, <1>d, <2>1, UnrankedFrame
  <1>9. ASSUME NEW b \in builds, Built(b) PROVE UnrankedInv'
    <2>1. UNCHANGED <<phase, heard, listed, role, saved, closed, holder>> /\ asked = <<>> /\ ready' \subseteq ready
      BY <1>9, <1>d DEF Built, room, nets, places
    <2>2. asked' = <<>> \/ \E e : asked' = Append(asked, e) /\ (e.do = "ready" => e.who \notin closed') /\ (e.do = "start" => heard) /\ e.do # "remove"
      <3>1. [do |-> "deck", who |-> b.who, n |-> b.n].do = "deck"
        OBVIOUS
      <3>2. asked' = <<>> \/ asked' = Append(asked, [do |-> "deck", who |-> b.who, n |-> b.n])
        BY <1>9, <2>1 DEF Built, Ask
      <3> QED BY <3>1, <3>2
    <2> QED BY <1>a, <1>d, <2>1, <2>2, UnrankedFrame
  <1>10. ASSUME NEW c \in Client, Disconnect(c) PROVE UnrankedInv'
    <2>1. /\ UNCHANGED <<phase, heard, role, ready, saved, holder>> /\ asked = <<>>
          /\ closed' = closed \cup {c}
      BY <1>10, <1>d DEF Disconnect, Delete, places, flags, room
    <2>2. Len(asked) = 0 /\ DOMAIN asked = {}
      BY <2>1
    <2>3. phase = "waiting" /\ heard => listed /\ \A d \in closed \cap (ready \cup saved) : role[d] = "none"
      BY <1>a, <2>2 DEF UnrankedInv, Leaving
    <2>4. CASE asked' = asked /\ listed' = listed /\ (phase = "waiting" /\ listed => role[c] = "none")
      <3>1. CASE phase = "waiting" /\ heard
        <4>1. role[c] = "none"
          BY <2>3, <2>4, <3>1
        <4> QED BY <1>a, <1>d, <1>c, <2>1, <2>4, <4>1, UnrankedFrame
      <3>2. CASE ~(phase = "waiting" /\ heard)
        <4>1. Len(asked') = 0 /\ DOMAIN asked' = {}
          BY <2>2, <2>4
        <4> QED BY <1>d, <2>1, <3>2, <4>1 DEF UnrankedInv
      <3> QED BY <3>1, <3>2
    <2>5. CASE asked' = Append(asked, [do |-> "destroy"])
      <3>1. Len(asked') = 1 /\ DOMAIN asked' = {1} /\ asked'[1] = [do |-> "destroy"]
        BY <2>1, <2>5, OneAsked
      <3>2. asked'[1].do = "destroy"
        BY <3>1
      <3> QED BY <1>d, <2>1, <3>1, <3>2 DEF UnrankedInv, Leaving
    <2>6. CASE asked' = Append(asked, [do |-> "remove", who |-> c, from |-> role[c]]) /\ listed' = listed
      <3>1. Len(asked') = 1 /\ DOMAIN asked' = {1} /\ Removes(asked'[1], c) /\ asked'[1].from = role[c]
        BY <2>1, <2>6, OneAsked DEF Removes
      <3>2. asked'[1].do = "remove"
        BY <3>1 DEF Removes
      <3>3. phase' = "waiting" /\ heard' =>
              listed' /\ \A d \in closed' \cap (ready' \cup saved') : role'[d] # "none" => Removes(asked'[1], d)
        BY <2>1, <2>3, <2>6, <3>1
      <3>4. phase' = "waiting" /\ heard' =>
              /\ \A d \in closed' \cap (ready' \cup saved') : role'[d] # "none" => Leaving(d)'
              /\ ~listed' => FALSE
        BY <3>1, <3>3 DEF Leaving, Removes
      <3> HIDE DEF Leaving
      <3>5. \A i \in DOMAIN asked' : asked'[i].do = "remove" /\ asked'[i].from = role'[asked'[i].who]
        BY <2>1, <3>1, <3>2 DEF Removes
      <3>6. holder' = NoClient /\ Len(asked') <= 1
        BY <1>d, <2>1, <3>1
      <3> QED BY <3>4, <3>5, <3>6 DEF UnrankedInv
    <2>7. \/ asked' = asked /\ listed' = listed /\ (phase = "waiting" /\ listed => role[c] = "none")
          \/ asked' = Append(asked, [do |-> "destroy"])
          \/ asked' = Append(asked, [do |-> "remove", who |-> c, from |-> role[c]]) /\ listed' = listed
      BY <1>10 DEF Disconnect, Ask, room
    <2> QED BY <2>4, <2>5, <2>6, <2>7
  <1>11. CASE UNCHANGED vars
    BY <1>a, <1>11 DEF vars, UnrankedInv, Leaving, Removes
  <1> QED BY <1>1, <1>2, <1>3, <1>4, <1>5, <1>6, <1>7, <1>8, <1>9, <1>10, <1>11 DEF Next

-----------------------------------------------------------------------------
(* The theorems. *)

LEMMA InitSound ==
  ASSUME Init
  PROVE  IInv
  <1>1. asked = <<>> /\ asked \in Seq(Op) /\ Len(asked) = 0 /\ DOMAIN asked = {}
    BY DEF Init
  <1>2. TypeOK
    BY <1>1, LobbyBounds DEF Init, TypeOK, NoSeat, NoDeck
  <1>3. OpsInv /\ HostInv /\ UnrankedInv /\ HeldReadyAwaitsADeck
    BY <1>1 DEF Init, OpsInv, HostInv, UnrankedInv, HeldReadyAwaitsADeck
  <1>4. ConnInv
    BY <1>1, LobbyBounds DEF Init, ConnInv, NoDeck
  <1>5. SeatsInv
    BY LobbyBounds DEF Init, SeatsInv, SeatsDistinct, Players, NoDeck
  <1> QED BY <1>2, <1>3, <1>4, <1>5 DEF IInv

LEMMA StepSound ==
  ASSUME IInv, [Next]_vars
  PROVE  IInv'
  BY TypesKept, OpsKept, ConnKept, HostKept, SeatsKept, UnrankedKept DEF IInv

\* The inductive invariant holds throughout.
THEOREM LobbyInvariant == Spec => []IInv
  BY InitSound, StepSound, PTL DEF Spec

\* Every variable of the lobby keeps its type.
THEOREM TypeCorrect == Spec => []TypeOK
  <1>1. IInv => TypeOK
    BY DEF IInv
  <1> QED BY <1>1, LobbyInvariant, PTL

LEMMA OneHostAlways ==
  ASSUME IInv
  PROVE  OneHost
  <1> SUFFICES ASSUME Players # {}
               PROVE  Cardinality(Players \cap host) = 1
    BY DEF OneHost
  <1>1. Players \cap host # {} /\ \A c, d \in Players \cap host : c = d
    BY DEF IInv, HostInv, Players
  <1>2. PICK h : Players \cap host = {h}
    BY <1>1
  <1> QED BY <1>2, FS_Singleton

\* The host: whatever joins, stands up, is kicked or closes, while anyone plays
\* exactly one of the players is the host.
THEOREM OneHostProved == Spec => []OneHost
  BY LobbyInvariant, OneHostAlways, PTL

\* The lobby, for teams of any size: positions, teams, host, decks and READYs.
\* What only one seat in the second team ensures, the formula says of that.
THEOREM LobbySoundProved == Spec => []LobbySound
  <1>1. ASSUME IInv
        PROVE  LobbySound
    <2>1. TypeOK /\ SeatsDistinct /\ HeldReadyAwaitsADeck
      BY <1>1 DEF IInv, SeatsInv
    <2>2. OneHost
      BY <1>1, OneHostAlways
    <2>3. ForeignDeckIsALeavers
      BY <1>1 DEF IInv, SeatsInv, ForeignDeckIsALeavers, Players
    <2> QED BY <2>1, <2>2, <2>3 DEF LobbySound
  <1>2. IInv => LobbySound
    BY <1>1
  <1> QED BY <1>2, LobbyInvariant, PTL

\* An unranked match starts with everybody connected and ready, and with a
\* player in each team: tryStartHandler reads the flags of the lobby, which the
\* removal of a closed player has cleared before another command is heard.
THEOREM StartsWithThePresentProved == Spec => StartsWithThePresent
  <1>1. ASSUME IInv, [Next]_vars, ~ranked, phase = "waiting", phase' = "rps"
        PROVE  Players \subseteq ready \ closed /\ BothTeams
    <2>a. TypeOK /\ OpsInv /\ UnrankedInv /\ asked \in Seq(Op)
      BY <1>1 DEF IInv, TypeOK
    <2>1. Run
      BY <1>1 DEF Next, CreateByHttp, CreateGame, Created, CreateRefused, OpenRoom, JoinGame, JoinRefused, Join, LookedUp, Command,
                  UpdateDeck, Disconnect, Delete, Built, room, vars
    <2>2. Head(asked).do = "start" /\ RunStart
      BY <1>1, <2>1 DEF Run, RunCreate, RunJoin, RunReady, RunNotReady, RunObserver, RunToDuel, RunKick, RunDeck, RunRemove, RunDestroy, room
    <2>3. asked # <<>>
      BY <2>1 DEF Run
    <2>4. asked[1] = Head(asked) /\ 1 \in DOMAIN asked /\ DOMAIN asked \subseteq {1}
      <3>1. Len(asked) \in Nat /\ DOMAIN asked = 1 .. Len(asked) /\ Len(asked) <= 1
        BY <1>1, <2>a DEF UnrankedInv
      <3> QED BY <2>a, <2>3, <3>1, HeadOp
    <2>5. heard
      BY <1>1, <2>a, <2>2, <2>4 DEF UnrankedInv
    <2>6. \A c \in Client : ~Leaving(c)
      BY <2>2, <2>4 DEF Leaving, Removes
    <2>7. \A c \in closed \cap ready : c \in Client => role[c] = "none"
      BY <1>1, <2>a, <2>5, <2>6 DEF UnrankedInv
    <2>8. Players \subseteq ready /\ BothTeams
      BY <1>1, <2>2 DEF RunStart
    <2> QED BY <2>7, <2>8 DEF Players
  <1>2. IInv /\ [Next]_vars => [~ranked /\ phase = "waiting" /\ phase' = "rps" => Players \subseteq ready \ closed /\ BothTeams]_vars
    BY <1>1
  <1> QED BY <1>2, LobbyInvariant, PTL DEF Spec, StartsWithThePresent

-----------------------------------------------------------------------------
(* The last one out. *)

\* A room on the list is empty, or has a member connected, or took in one whose
\* socket had closed, and that one is never removed.
LastInv ==
  /\ late \subseteq closed
  /\ \A i \in DOMAIN asked : /\ asked[i].do = "remove" => asked[i].who \notin late
                             /\ asked[i].do = "destroy" => ~listed
  /\ listed => \/ \A c \in Client : role[c] = "none"
               \/ \E c \in Client : role[c] # "none" /\ (c \in late \/ c \notin closed)

\* Operations that were waiting, and one that is asked.
LEMMA LastAsked ==
  ASSUME LastInv, asked \in Seq(Op), late' \subseteq closed', UNCHANGED listed,
         \A i \in DOMAIN asked : asked[i].do = "remove" => asked[i].who \notin late',
         \/ asked' = asked \/ (asked # <<>> /\ asked' = Tail(asked))
         \/ \E e \in Op : asked' = Append(asked, e) /\ e.do \notin {"remove", "destroy"},
         listed => \/ \A c \in Client : role'[c] = "none"
                   \/ \E c \in Client : role'[c] # "none" /\ (c \in late' \/ c \notin closed')
  PROVE  LastInv'
  <1>1. \A i \in DOMAIN asked : (asked[i].do = "remove" => asked[i].who \notin late') /\ (asked[i].do = "destroy" => ~listed')
    BY DEF LastInv
  <1>2. CASE asked' = asked
    BY <1>1, <1>2 DEF LastInv
  <1>3. CASE asked # <<>> /\ asked' = Tail(asked)
    <2>1. \A i \in DOMAIN asked' : i + 1 \in DOMAIN asked /\ asked'[i] = asked[i + 1]
      BY <1>3, Pops
    <2> QED BY <1>1, <2>1 DEF LastInv
  <1>4. ASSUME NEW e \in Op, asked' = Append(asked, e), e.do \notin {"remove", "destroy"}
        PROVE  LastInv'
    <2>1. \A i \in DOMAIN asked' : (i \in DOMAIN asked /\ asked'[i] = asked[i]) \/ asked'[i] = e
      BY <1>4, Asks
    <2> QED BY <1>1, <1>4, <2>1 DEF LastInv
  <1> QED BY <1>2, <1>3, <1>4

LEMMA LastRun ==
  ASSUME IInv, LastInv, Run
  PROVE  LastInv'
  <1>a. TypeOK /\ OpsInv /\ ConnInv /\ asked \in Seq(Op)
    BY DEF IInv, TypeOK
  <1>b. NetTypes /\ PlaceTypes
    BY <1>a, TypesSplit
  <1> DEFINE op == Head(asked)
             c == op.who
             Whoever == listed => \/ \A d \in Client : role'[d] = "none"
                                  \/ \E d \in Client : role'[d] # "none" /\ (d \in late' \/ d \notin closed')
  <1>c. asked # <<>> /\ asked' = Tail(asked)
    BY DEF Run
  <1>d. /\ asked[1] = op /\ 1 \in DOMAIN asked
        /\ op.do \in {"join", "create"} \cup Mine => c \in Client
        /\ op.do = "join" => conn[c] = "joining"
        /\ op.do = "create" => conn[c] = "creating"
        /\ op.do \in {"observer", "toDuel"} => role[c] # "none"
        /\ op.do = "remove" => c \in closed
    BY <1>a, <1>c, HeadOp
  <1>e. (op.do = "remove" => c \notin late) /\ (op.do = "destroy" => ~listed)
    BY <1>d DEF LastInv
  <1>f. \A i \in DOMAIN asked : asked[i].do = "remove" => asked[i].who \notin late /\ conn[asked[i].who] = "in"
    BY <1>a DEF LastInv, OpsInv, Mine
  <1>g. late \subseteq closed
    BY DEF LastInv
  <1>h. listed => \/ \A d \in Client : role[d] = "none"
                  \/ \E d \in Client : role[d] # "none" /\ (d \in late \/ d \notin closed)
    BY DEF LastInv
  <1>i. \/ op.do = "create" /\ RunCreate(c) /\ UNCHANGED room
        \/ op.do = "join" /\ RunJoin(c) /\ UNCHANGED room
        \/ op.do = "ready" /\ RunReady(c)
        \/ op.do = "notReady" /\ RunNotReady(c)
        \/ op.do = "observer" /\ RunObserver(c)
        \/ op.do = "toDuel" /\ RunToDuel(c)
        \/ op.do = "kick" /\ RunKick(op.pos)
        \/ op.do = "deck" /\ RunDeck(c, op.n)
        \/ op.do = "remove" /\ RunRemove(c, op.from)
        \/ op.do = "start" /\ RunStart
        \/ op.do = "destroy" /\ RunDestroy
    BY DEF Run
  <1> HIDE DEF op, c
  <1>j. ASSUME UNCHANGED <<listed, late>>, closed \subseteq closed', Whoever
        PROVE  LastInv'
    <2>1. late' \subseteq closed' /\ listed' = listed /\ \A i \in DOMAIN asked : asked[i].do = "remove" => asked[i].who \notin late'
      BY <1>f, <1>g, <1>j
    <2> HIDE DEF LastInv
    <2> QED BY <1>a, <1>c, <1>j, <2>1, LastAsked
  <1>k. ASSUME UNCHANGED <<listed, late, closed>>, \A d \in Client : role'[d] = "none" <=> role[d] = "none"
        PROVE  LastInv'
    <2>1. Whoever
      BY <1>h, <1>k
    <2> QED BY <1>j, <1>k, <2>1
  <1>1. ASSUME c \in Client, conn[c] # "in", SitOrStand(c), UNCHANGED room
        PROVE  LastInv'
    <2>1. /\ role'[c] # "none" /\ closed' = closed /\ listed' = listed
          /\ late' = IF c \in closed THEN late \cup {c} ELSE late
      BY <1>b, <1>1 DEF SitOrStand, SitDown, StandBy, Enters, PlaceTypes, room
    <2>2. late' \subseteq closed'
      BY <1>g, <2>1
    <2>3. \A i \in DOMAIN asked : asked[i].do = "remove" => asked[i].who \notin late'
      BY <1>f, <1>1, <2>1
    <2>4. Whoever
      BY <1>1, <2>1
    <2> HIDE DEF LastInv
    <2> QED BY <1>a, <1>c, <2>1, <2>2, <2>3, <2>4, LastAsked
  <1>2. CASE op.do = "create" /\ RunCreate(c) /\ UNCHANGED room
    <2>1. c \in Client /\ conn[c] # "in" /\ SitOrStand(c)
      BY <1>d, <1>2 DEF RunCreate, SitOrStand
    <2> QED BY <1>1, <1>2, <2>1
  <1>3. CASE op.do = "join" /\ RunJoin(c) /\ UNCHANGED room
    <2>1. c \in Client /\ conn[c] # "in"
      BY <1>d, <1>3
    <2>2. CASE SitOrStand(c)
      BY <1>1, <1>3, <2>1, <2>2
    <2>3. CASE UNCHANGED <<nets, places, flags>>
      BY <1>3, <1>k, <2>3 DEF nets, places, room
    <2> QED BY <1>3, <2>2, <2>3 DEF RunJoin
  <1>4. CASE op.do \in {"ready", "notReady", "deck"} /\ (RunReady(c) \/ RunNotReady(c) \/ RunDeck(c, op.n))
    BY <1>4, <1>k DEF RunReady, RunNotReady, RunDeck, nets, places, room
  <1>5. CASE op.do = "observer" /\ RunObserver(c)
    <2>1. UNCHANGED <<listed, late, closed>>
      BY <1>5 DEF RunObserver, nets, room
    <2>2. c \in Client /\ role[c] # "none"
      BY <1>d, <1>5 DEF Mine
    <2>3. role' = role \/ role' = [role EXCEPT ![c] = "spectator"]
      BY <1>5 DEF RunObserver, MoveToStands, places
    <2> QED BY <1>b, <1>k, <2>1, <2>2, <2>3 DEF PlaceTypes
  <1>6. CASE op.do = "toDuel" /\ RunToDuel(c)
    <2>1. UNCHANGED <<listed, late, closed>>
      BY <1>6 DEF RunToDuel, nets, room
    <2>2. c \in Client /\ role[c] # "none"
      BY <1>d, <1>6 DEF Mine
    <2>3. role' = role \/ role' = [role EXCEPT ![c] = "player"]
      BY <1>6 DEF RunToDuel, places
    <2> QED BY <1>b, <1>k, <2>1, <2>2, <2>3 DEF PlaceTypes
  <1>7. CASE op.do = "kick" /\ RunKick(op.pos)
    <2>1. UNCHANGED <<listed, late, closed>>
      BY <1>7 DEF RunKick, nets, room
    <2>2. role' = role \/ \E d \in Players : role' = [role EXCEPT ![d] = "spectator"]
      BY <1>7 DEF RunKick, MoveToStands, places
    <2> QED BY <1>b, <1>k, <2>1, <2>2 DEF PlaceTypes, Players
  <1>8. CASE op.do = "remove" /\ RunRemove(c, op.from)
    <2>1. c \in closed \ late
      BY <1>d, <1>e, <1>8
    <2>2. /\ UNCHANGED <<listed, late, closed>>
          /\ \A d \in Client : role'[d] = role[d] \/ (d = c /\ role'[d] = "none")
      BY <1>b, <1>8 DEF RunRemove, nets, room, PlaceTypes
    <2>3. Whoever
      BY <1>h, <2>1, <2>2
    <2> QED BY <1>j, <2>2, <2>3
  <1>9. CASE op.do = "start" /\ RunStart
    BY <1>9, <1>k DEF RunStart, nets, places
  <1>10. CASE op.do = "destroy" /\ RunDestroy
    <2>1. ~listed /\ UNCHANGED <<listed, late>> /\ closed \subseteq closed'
      BY <1>e, <1>10 DEF RunDestroy
    <2> QED BY <1>j, <2>1
  <1> QED BY <1>i, <1>2, <1>3, <1>4, <1>5, <1>6, <1>7, <1>8, <1>9, <1>10

LEMMA LastKept ==
  ASSUME IInv, LastInv, [Next]_vars
  PROVE  LastInv'
  <1>a. TypeOK /\ OpsInv /\ ConnInv /\ asked \in Seq(Op) /\ NoClient \notin Client
    BY LobbyBounds DEF IInv, TypeOK
  <1>b. NetTypes /\ PlaceTypes
    BY <1>a, TypesSplit
  <1>f. \A i \in DOMAIN asked : asked[i].do = "remove" => asked[i].who \notin late /\ conn[asked[i].who] = "in"
    BY <1>a DEF LastInv, OpsInv, Mine
  <1>g. late \subseteq closed
    BY DEF LastInv
  <1>h. listed => \/ \A d \in Client : role[d] = "none"
                  \/ \E d \in Client : role[d] # "none" /\ (d \in late \/ d \notin closed)
    BY DEF LastInv
  <1>i. \A d \in Client : conn[d] # "in" => role[d] = "none"
    BY <1>a DEF ConnInv
  <1>j. ASSUME UNCHANGED <<listed, late, role>>, closed' \in {closed} \cup {closed \cup {d} : d \in {e \in Client : role[e] = "none"}},
               asked' = asked \/ \E e \in Op : asked' = Append(asked, e) /\ e.do \notin {"remove", "destroy"}
        PROVE  LastInv'
    <2>1. late' \subseteq closed' /\ \A i \in DOMAIN asked : asked[i].do = "remove" => asked[i].who \notin late'
      BY <1>f, <1>g, <1>j
    <2>2. listed => \/ \A d \in Client : role'[d] = "none"
                    \/ \E d \in Client : role'[d] # "none" /\ (d \in late' \/ d \notin closed')
      BY <1>h, <1>j
    <2> QED BY <1>a, <1>j, <2>1, <2>2, LastAsked
  <1>o. ASSUME phase = "none", UNCHANGED <<late, role, closed>>,
               asked' = asked \/ \E c \in Client : asked' = Append(asked, [do |-> "create", who |-> c])
        PROVE  LastInv'
    <2>1. asked = <<>> /\ \A d \in Client : role[d] = "none"
      BY <1>a, <1>i, <1>o DEF ConnInv
    <2>2. \A i \in DOMAIN asked' : asked'[i].do = "create"
      <3>1. CASE asked' = asked
        BY <2>1, <3>1
      <3>2. ASSUME NEW c \in Client, asked' = Append(asked, [do |-> "create", who |-> c])
            PROVE  \A i \in DOMAIN asked' : asked'[i].do = "create"
        BY <2>1, <3>2, OneAsked
      <3> QED BY <1>o, <3>1, <3>2
    <2> QED BY <1>g, <1>o, <2>1, <2>2 DEF LastInv
  <1>1. CASE CreateByHttp
    BY <1>1, <1>o DEF CreateByHttp, nets, places, mutex
  <1>2. CASE Run
    BY <1>2, LastRun
  <1>3. ASSUME NEW c \in Client, Created(c) PROVE LastInv'
    BY <1>3, <1>o DEF Created, Ask, nets, places
  <1>4. ASSUME NEW c \in Client, CreateGame(c) \/ CreateRefused(c) \/ JoinGame(c) \/ JoinRefused(c) PROVE LastInv'
    <2>1. UNCHANGED <<listed, late, role, asked>> /\ conn[c] # "in"
      BY <1>4 DEF CreateGame, CreateRefused, JoinGame, JoinRefused, room, places, mutex
    <2>2. closed' = closed \/ closed' = closed \cup {c}
      BY <1>4 DEF CreateGame, CreateRefused, JoinGame, JoinRefused
    <2> QED BY <1>i, <1>j, <2>1, <2>2
  <1>5. ASSUME NEW c \in Client, Join(c) PROVE LastInv'
    <2>1. UNCHANGED <<listed, late, role, closed>>
      BY <1>5 DEF Join, room, places
    <2>2. asked' = asked \/ asked' = Append(asked, [do |-> "join", who |-> c])
      BY <1>5 DEF Join, Ask
    <2>3. asked' = asked \/ \E e \in Op : asked' = Append(asked, e) /\ e.do \notin {"remove", "destroy"}
      <3> DEFINE e == [do |-> "join", who |-> c]
      <3>1. e \in Op /\ e.do = "join"
        BY OpMakes
      <3> QED BY <2>2, <3>1
    <2> QED BY <1>j, <2>1, <2>3
  <1>6. ASSUME NEW c \in Client, NEW ok \in Admits, LookedUp(c, ok) PROVE LastInv'
    <2>1. conn[c] # "in" /\ UNCHANGED <<listed, asked>>
      BY <1>6, <1>a DEF LookedUp, ConnInv, room
    <2>2. CASE SitOrStand(c)
      <3>1. /\ role'[c] # "none" /\ closed' = closed
            /\ late' = IF c \in closed THEN late \cup {c} ELSE late
        BY <1>b, <2>2 DEF SitOrStand, SitDown, StandBy, Enters, PlaceTypes
      <3>2. late' \subseteq closed' /\ \A i \in DOMAIN asked : asked[i].do = "remove" => asked[i].who \notin late'
        BY <1>f, <1>g, <2>1, <3>1
      <3>3. \E d \in Client : role'[d] # "none" /\ (d \in late' \/ d \notin closed')
        BY <3>1
      <3> QED BY <1>a, <2>1, <3>2, <3>3, LastAsked
    <2>3. CASE ~ok
      BY <1>6, <1>j, <2>1, <2>3 DEF LookedUp, places
    <2> QED BY <1>6, <2>2, <2>3 DEF LookedUp
  <1>7. ASSUME NEW c \in Client, Command(c) PROVE LastInv'
    <2>1. UNCHANGED <<listed, late, role, closed>>
      BY <1>7 DEF Command, room, nets, places
    <2>2. \E e \in Op : asked' = Append(asked, e) /\ e.do \notin {"remove", "destroy"}
      <3>1. ASSUME NEW k \in {"ready", "notReady", "observer", "toDuel"}, asked' = Append(asked, [do |-> k, who |-> c])
            PROVE  \E e \in Op : asked' = Append(asked, e) /\ e.do \notin {"remove", "destroy"}
        <4> DEFINE e == [do |-> k, who |-> c]
        <4>1. e \in Op /\ e.do = k
          BY OpMakes
        <4> QED BY <3>1, <4>1
      <3>2. ASSUME asked' = Append(asked, [do |-> "start"])
            PROVE  \E e \in Op : asked' = Append(asked, e) /\ e.do \notin {"remove", "destroy"}
        <4> DEFINE e == [do |-> "start"]
        <4>1. e \in Op /\ e.do = "start"
          BY OpMakes
        <4> QED BY <3>2, <4>1
      <3>3. ASSUME NEW s \in Seats, asked' = Append(asked, [do |-> "kick", pos |-> s])
            PROVE  \E e \in Op : asked' = Append(asked, e) /\ e.do \notin {"remove", "destroy"}
        <4> DEFINE e == [do |-> "kick", pos |-> s]
        <4>1. e \in Op /\ e.do = "kick"
          BY OpMakes
        <4> QED BY <3>3, <4>1
      <3> QED BY <1>7, <3>1, <3>2, <3>3 DEF Command, Ask
    <2> QED BY <1>j, <2>1, <2>2
  <1>8. ASSUME NEW c \in Client, UpdateDeck(c) PROVE LastInv'
    BY <1>8, <1>j DEF UpdateDeck, room, nets, places, mutex
  <1>9. ASSUME NEW b \in builds, Built(b) PROVE LastInv'
    <2>1. UNCHANGED <<listed, late, role, closed>>
      BY <1>9 DEF Built, room, nets, places
    <2>2. b.who \in Client /\ b.n \in Nat \ {0}
      BY <1>a DEF TypeOK
    <2> DEFINE e == [do |-> "deck", who |-> b.who, n |-> b.n]
    <2>3. e \in Op /\ e.do = "deck"
      BY <2>2, OpMakes
    <2>4. asked' = asked \/ asked' = Append(asked, e)
      BY <1>9 DEF Built, Ask
    <2> HIDE DEF e
    <2> QED BY <1>j, <2>1, <2>3, <2>4
  <1>10. ASSUME NEW c \in Client, Disconnect(c) PROVE LastInv'
    <2>1. c \notin closed /\ closed' = closed \cup {c} /\ late' = late /\ role' = role
      BY <1>10 DEF Disconnect, places
    <2>2. \A i \in DOMAIN asked : asked[i].do = "destroy" => ~listed
      BY DEF LastInv
    <2>3. CASE ~(listed /\ role[c] # "none") /\ UNCHANGED <<room, asked>>
      <3>1. CASE ~listed
        BY <1>f, <1>g, <2>1, <2>2, <2>3, <3>1 DEF LastInv, room
      <3>2. CASE role[c] = "none"
        BY <1>j, <2>1, <2>3, <3>2 DEF room
      <3> QED BY <2>3, <3>1, <3>2
    <2>4. CASE Delete /\ asked' = Append(asked, [do |-> "destroy"])
      <3> DEFINE e == [do |-> "destroy"]
      <3>0. e \in Op /\ e.do = "destroy"
        BY OpMakes
      <3>1. ~listed'
        BY <2>4 DEF Delete
      <3>2. \A i \in DOMAIN asked' : (i \in DOMAIN asked /\ asked'[i] = asked[i]) \/ asked'[i] = e
        BY <1>a, <2>4, <3>0, Asks
      <3> HIDE DEF e
      <3>3. \A i \in DOMAIN asked' : asked'[i].do = "remove" => asked'[i].who \notin late'
        BY <1>f, <2>1, <3>0, <3>2
      <3> QED BY <1>g, <2>1, <3>1, <3>3 DEF LastInv
    <2>5. CASE /\ listed /\ role[c] # "none" /\ ~(Players \subseteq closed') /\ UNCHANGED room
               /\ asked' = asked \/ asked' = Append(asked, [do |-> "remove", who |-> c, from |-> role[c]])
      <3> DEFINE e == [do |-> "remove", who |-> c, from |-> role[c]]
      <3>0. e \in Op /\ e.do = "remove" /\ e.who = c
        BY <1>b, <2>5, OpMakes DEF PlaceTypes
      <3>1. \A i \in DOMAIN asked' : (i \in DOMAIN asked /\ asked'[i] = asked[i]) \/ asked'[i] = e
        BY <1>a, <2>5, <3>0, Asks
      <3>2. \E d \in Client : role'[d] # "none" /\ d \notin closed'
        BY <2>1, <2>5 DEF Players
      <3> HIDE DEF e
      <3>3. \A i \in DOMAIN asked' : /\ asked'[i].do = "remove" => asked'[i].who \notin late'
                                     /\ asked'[i].do = "destroy" => ~listed'
        BY <1>f, <1>g, <2>1, <2>2, <2>5, <3>0, <3>1 DEF room
      <3> QED BY <1>g, <2>1, <3>2, <3>3 DEF LastInv
    <2> QED BY <1>10, <2>3, <2>4, <2>5 DEF Disconnect, Ask
  <1>11. CASE UNCHANGED vars
    BY <1>11, <1>j DEF vars
  <1> QED BY <1>1, <1>2, <1>3, <1>4, <1>5, <1>6, <1>7, <1>8, <1>9, <1>10, <1>11 DEF Next

\* The last one out of a lobby deletes the room: EdoproDisconnectPolicy counts the
\* connected players and not the lists, and so no removal that waits behind a
\* lookup, nor a closed member it misses, keeps the room.
THEOREM LastOneOutProved == Spec => LastOneOutDeletes
  <1>1. Init => LastInv
    <2> SUFFICES ASSUME Init PROVE LastInv
      OBVIOUS
    <2>1. asked = <<>> /\ DOMAIN asked = {}
      BY DEF Init
    <2> QED BY <2>1 DEF Init, LastInv
  <1>2. IInv /\ LastInv /\ [Next]_vars => LastInv'
    BY LastKept
  <1>3. LastInv => (listed => SomebodyIsIn)
    BY DEF LastInv, SomebodyIsIn
  <1> QED BY <1>1, <1>2, <1>3, LobbyInvariant, PTL DEF Spec, LastOneOutDeletes
=============================================================================
