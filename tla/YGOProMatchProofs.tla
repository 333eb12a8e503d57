------------------------- MODULE YGOProMatchProofs -------------------------
(***************************************************************************)
(* The match of YGOProMatch keeps its score as BestOf promises, and only a *)
(* player who surrendered, is away or owes a deck forfeits it: for every   *)
(* length of match and any number of rounds, matches and games.            *)
(***************************************************************************)
EXTENDS YGOProMatch, TLAPS

\* Each player faces the other one: opponentsOf and matchForfeit never leave the
\* two teams, and nobody shares an opponent.
LEMMA Opponents ==
    /\ \A p \in Players : Other(p) \in Players /\ Other(p) # p
    /\ \A p, q \in Players : Other(p) = Other(q) => p = q
  <1>1. PICK a \in Players, b \in Players : a # b /\ Players = {a, b}
    BY MatchAssumption
  <1>2. \A p \in Players : \E q \in Players : q # p
    BY <1>1
  <1>3. \A p \in Players : Other(p) \in Players /\ Other(p) # p
    BY <1>2 DEF Other
  <1> QED  BY <1>1, <1>3

-----------------------------------------------------------------------------
(* The score *)

\* The part of TypeOK the score rests on.
ScoreOK == wins \in [Players -> 0..NeedWins] /\ games \in Nat

\* Match.duelWinner: nothing for a draw or a decided match, else one game to one
\* side, which reaches NeedWins at most.
LEMMA CountedGame ==
    ASSUME NEW w \in Players \cup {Draw}, ScoreOK
    PROVE  /\ Counted(w) \in [Players -> 0..NeedWins]
           /\ \/ Counted(w) = wins
              \/ /\ ~Decided(wins)
                 /\ \E p \in Players : Counted(w) = [wins EXCEPT ![p] = @ + 1]
  <1>1. CASE w = Draw \/ Decided(wins)
    BY <1>1 DEF Counted, ScoreOK
  <1>2. CASE w # Draw /\ ~Decided(wins)
    <2>1. w \in Players /\ wins[w] \in 0..NeedWins /\ ~(wins[w] >= NeedWins)
      BY <1>2 DEF Decided, ScoreOK
    <2>2. wins[w] + 1 \in 0..NeedWins
      BY <2>1, MatchAssumption
    <2> QED  BY <1>2, <2>1, <2>2 DEF Counted, ScoreOK
  <1> QED  BY <1>1, <1>2

\* What any step does to the score: nothing, a fresh match, one game, or what is
\* left to the side that stayed.
ScoreStep ==
    \/ wins' = wins
    \/ wins' = [q \in Players |-> 0]
    \/ /\ ~Decided(wins)
       /\ \E p \in Players : \/ wins' = [wins EXCEPT ![p] = @ + 1]
                             \/ wins' = [wins EXCEPT ![p] = NeedWins]

\* The dueling state's handleWinCondition, whoever calls it.
LEMMA WinConditionScore ==
    ASSUME NEW w \in Players \cup {Draw}, NEW c, ScoreOK, WinCondition(w, c)
    PROVE  ScoreOK' /\ ScoreStep
  BY CountedGame DEF WinCondition, ScoreOK, ScoreStep

\* Settling a match its player left: only an undecided one is forfeited.
LEMMA ResolveScore ==
    ASSUME NEW p \in Players, ScoreOK, Resolve(p)
    PROVE  ScoreOK' /\ ScoreStep
  <1>1. CASE UNCHANGED <<wins, games>>
    BY <1>1 DEF ScoreOK, ScoreStep
  <1>2. CASE ~Decided(wins) /\ Forfeit(p)
    <2>1. Other(p) \in Players /\ wins[Other(p)] \in 0..NeedWins
      BY Opponents DEF ScoreOK
    <2>2. wins' = [wins EXCEPT ![Other(p)] = NeedWins]
          /\ games' = games + (NeedWins - wins[Other(p)])
      BY <1>2 DEF Forfeit
    <2>3. games' \in Nat
      BY <2>1, <2>2, MatchAssumption DEF ScoreOK
    <2>4. wins' \in [Players -> 0..NeedWins]
      BY <2>1, <2>2, MatchAssumption DEF ScoreOK
    <2> QED  BY <1>2, <2>1, <2>2, <2>3, <2>4 DEF ScoreOK, ScoreStep
  <1> QED  BY <1>1, <1>2 DEF Resolve, Finalize

\* Every step of the room keeps ScoreOK and moves the score as ScoreStep says.
LEMMA ScoreNext == ScoreOK /\ [Next]_vars => ScoreOK' /\ ScoreStep
  <1> SUFFICES ASSUME ScoreOK, [Next]_vars
               PROVE  ScoreOK' /\ ScoreStep
    OBVIOUS
  <1>1. CASE PlayerFrame
    <2> SUFFICES ASSUME NEW p \in Players,
                        \/ Ready(p) \/ TryStart(p) \/ RpsChoice(p) \/ TurnChoice(p)
                        \/ EngineError(p) \/ Concede(p)
                        \/ \E twice \in BOOLEAN : UpdateDeck(p, twice)
                        \/ RejectedDeck(p) \/ Surrender(p)
                 PROVE  ScoreOK' /\ ScoreStep
      BY <1>1 DEF PlayerFrame
    <2>1. CASE TryStart(p)
      BY <2>1, MatchAssumption DEF TryStart, ScoreOK, ScoreStep
    <2>2. CASE Concede(p)
      BY <2>2, Opponents, WinConditionScore DEF Concede
    <2>3. CASE Surrender(p)
      BY <2>3, ResolveScore DEF Surrender
    <2>4. CASE \/ Ready(p) \/ RpsChoice(p) \/ TurnChoice(p) \/ EngineError(p)
               \/ \E twice \in BOOLEAN : UpdateDeck(p, twice)
               \/ RejectedDeck(p)
      BY <2>4 DEF Ready, RpsChoice, TurnChoice, EngineError, UpdateDeck, RejectedDeck,
                  score, ScoreOK, ScoreStep
    <2> QED  BY <2>1, <2>2, <2>3, <2>4
  <1>2. CASE Connection
    BY <1>2 DEF Connection, Close, Reconnect, JoinStart, JoinDone, score, ScoreOK, ScoreStep
  <1>3. CASE Engine
    <2>1. ASSUME NEW w \in Players \cup {Draw}, EngineWin(w)
          PROVE  ScoreOK' /\ ScoreStep
      BY <2>1, WinConditionScore DEF EngineWin
    <2>2. ASSUME NEW k \in 1..MaxRounds, CoreUp(k)
          PROVE  ScoreOK' /\ ScoreStep
      BY <2>2 DEF CoreUp, score, ScoreOK, ScoreStep
    <2>3. ASSUME NEW k \in 1..MaxRounds, Timeout(k)
          PROVE  ScoreOK' /\ ScoreStep
      <3>1. \/ UNCHANGED <<wins, games>>
            \/ \E w \in Players, c \in {[core EXCEPT ![k] = "expired"]} : WinCondition(w, c)
        BY <2>3 DEF Timeout
      <3> QED  BY <3>1, WinConditionScore DEF ScoreOK, ScoreStep
    <2> QED  BY <1>3, <2>1, <2>2, <2>3 DEF Engine
  <1>4. CASE Timer
    <2>1. ASSUME NEW p \in Players, GraceFires(p) \/ SideTimeout(p)
          PROVE  Resolve(p) \/ UNCHANGED <<wins, games>>
      BY <2>1 DEF GraceFires, SideTimeout
    <2> QED  BY <1>4, <2>1, ResolveScore DEF Timer, ScoreOK, ScoreStep
  <1>5. CASE Ending \/ UNCHANGED vars
    BY <1>5 DEF Ending, AbandonEnds, DuelEnds, vars, score, ScoreOK, ScoreStep
  <1> QED  BY <1>1, <1>2, <1>3, <1>4, <1>5 DEF Next

\* The score of every match stays within the wins that decide it.
THEOREM ScoreBounded == Spec => []ScoreOK
  <1>1. Init => ScoreOK
    BY MatchAssumption DEF Init, ScoreOK
  <1> QED  BY <1>1, ScoreNext, PTL DEF Spec

\* The room's match implements BestOf: no frame, timer, late engine event or
\* second ending moves a decided score, and a game moves one side by one.
THEOREM ScoreImplementsBestOf == Spec => KeepsScore
  <1>1. Init => Score!Init
    BY DEF Init, Score!Init
  <1>2. ScoreStep => [Score!Next]_wins
    BY DEF ScoreStep, Decided, Score!Next, Score!NewMatch, Score!Game, Score!Award,
           Score!Decided
  <1> QED  BY <1>1, <1>2, ScoreNext, ScoreBounded, PTL DEF Spec, KeepsScore, Score!Spec

-----------------------------------------------------------------------------
(* Forfeits *)

\* A side-deck timer runs only in side decking, for a player who owes a deck.
SideOK == side # {} => state = "siding" /\ side \cap ready = {}

\* handleWinCondition takes readiness back before it starts the timers.
LEMMA WinConditionSide ==
    ASSUME NEW w, NEW c, state = "dueling", SideOK, WinCondition(w, c)
    PROVE  SideOK'
  BY DEF WinCondition, SideOK

\* Every step keeps SideOK: a deck clears its player's timer as it makes the
\* player ready, and the last one clears them all as side decking ends.
LEMMA SideNext == SideOK /\ [Next]_vars => SideOK'
  <1> SUFFICES ASSUME SideOK, [Next]_vars
               PROVE  SideOK'
    OBVIOUS
  <1>1. CASE PlayerFrame
    <2> SUFFICES ASSUME NEW p \in Players,
                        \/ Ready(p) \/ TryStart(p) \/ RpsChoice(p) \/ TurnChoice(p)
                        \/ EngineError(p) \/ Concede(p)
                        \/ \E twice \in BOOLEAN : UpdateDeck(p, twice)
                        \/ RejectedDeck(p) \/ Surrender(p)
                 PROVE  SideOK'
      BY <1>1 DEF PlayerFrame
    <2>1. CASE Concede(p)
      BY <2>1, WinConditionSide DEF Concede
    <2>2. ASSUME NEW twice \in BOOLEAN, UpdateDeck(p, twice)
          PROVE  SideOK'
      BY <2>2 DEF UpdateDeck, SideOK
    <2>3. CASE RejectedDeck(p)
      BY <2>3 DEF RejectedDeck, timers, SideOK
    <2>4. CASE Surrender(p)
      BY <2>4 DEF Surrender, SideOK
    <2>5. CASE \/ Ready(p) \/ TryStart(p) \/ RpsChoice(p) \/ TurnChoice(p) \/ EngineError(p)
      BY <2>5 DEF Ready, TryStart, RpsChoice, TurnChoice, EngineError, timers, SideOK
    <2> QED  BY <2>1, <2>2, <2>3, <2>4, <2>5
  <1>2. CASE Connection
    BY <1>2 DEF Connection, Close, Reconnect, JoinStart, JoinDone, timers, SideOK
  <1>3. CASE Engine
    <2>1. ASSUME NEW w \in Players \cup {Draw}, EngineWin(w)
          PROVE  SideOK'
      BY <2>1, WinConditionSide DEF EngineWin
    <2>2. ASSUME NEW k \in 1..MaxRounds, CoreUp(k) \/ Timeout(k)
          PROVE  SideOK'
      BY <2>2, WinConditionSide DEF CoreUp, Timeout, timers, SideOK
    <2> QED  BY <1>3, <2>1, <2>2 DEF Engine
  <1>4. CASE Timer
    BY <1>4 DEF Timer, GraceFires, SideTimeout, SideOK
  <1>5. CASE Ending \/ UNCHANGED vars
    BY <1>5 DEF Ending, AbandonEnds, DuelEnds, vars, timers, SideOK
  <1> QED  BY <1>1, <1>2, <1>3, <1>4, <1>5 DEF Next

\* The step that forfeits the match for p, and the excuses it may have.
Forfeited(p) ==
    <<"abandon", match>> \in ending' \ ending /\ wins'[Other(p)] > wins[Other(p)]

Deserved(p) ==
    \/ p \in away \cup gaveUp'
    \/ state = "siding" /\ p \notin ready

\* Settling q's departure raises the score of q's opponent alone.
LEMMA ResolveForfeits ==
    ASSUME NEW p \in Players, NEW q \in Players, ScoreOK, Resolve(q), Forfeited(p)
    PROVE  p = q /\ ending' # ending
  <1>1. Forfeit(q)
    BY DEF Resolve, Forfeited
  <1>2. \A r \in Players : r # Other(q) => wins'[r] = wins[r]
    BY <1>1 DEF Forfeit, ScoreOK
  <1>3. Other(p) \in Players /\ wins[Other(p)] \in Nat
    BY Opponents, MatchAssumption DEF ScoreOK
  <1>4. Other(p) = Other(q)
    BY <1>2, <1>3 DEF Forfeited
  <1> QED  BY <1>4, Opponents DEF Forfeited

\* A duel that ends enters its own ending, never the one of an abandonment.
LEMMA WinConditionForfeitsNothing ==
    ASSUME NEW w, NEW c, WinCondition(w, c)
    PROVE  <<"abandon", match>> \notin ending' \ ending
  <1>1. ending' \subseteq ending \cup {<<"duel", round>>}
    BY DEF WinCondition
  <1>2. <<"abandon", match>> # <<"duel", round>>
    OBVIOUS
  <1> QED  BY <1>1, <1>2

\* Every step that forfeits a match has its excuse.
LEMMA ForfeitNext ==
    ASSUME ScoreOK, SideOK, [Next]_vars, NEW p \in Players, Forfeited(p)
    PROVE  Deserved(p)
  <1>1. ASSUME NEW q \in Players, Surrender(q)  PROVE  Deserved(p)
    <2>1. p = q /\ ending' # ending
      BY <1>1, ResolveForfeits DEF Surrender
    <2> QED  BY <1>1, <2>1 DEF Surrender, Deserved
  <1>2. ASSUME NEW q \in Players, GraceFires(q)  PROVE  Deserved(p)
    <2>1. q \in away /\ Resolve(q)
      BY <1>2 DEF GraceFires, Forfeited
    <2> QED  BY <2>1, ResolveForfeits DEF Deserved
  <1>3. ASSUME NEW q \in Players, SideTimeout(q)  PROVE  Deserved(p)
    <2>1. q \in side /\ Resolve(q)
      BY <1>3 DEF SideTimeout
    <2>2. state = "siding" /\ q \notin ready
      BY <2>1 DEF SideOK
    <2> QED  BY <2>1, <2>2, ResolveForfeits DEF Deserved
  <1>4. ASSUME NEW q \in Players, Concede(q)  PROVE  Deserved(p)
    BY <1>4, WinConditionForfeitsNothing DEF Concede, Forfeited
  <1>5. ASSUME NEW w \in Players \cup {Draw}, EngineWin(w)  PROVE  Deserved(p)
    BY <1>5, WinConditionForfeitsNothing DEF EngineWin, Forfeited
  <1>6. ASSUME NEW k \in 1..MaxRounds, Timeout(k)  PROVE  Deserved(p)
    <2>1. \/ ending' = ending
          \/ \E w \in Players, c \in {[core EXCEPT ![k] = "expired"]} : WinCondition(w, c)
      BY <1>6 DEF Timeout
    <2> QED  BY <2>1, WinConditionForfeitsNothing DEF Forfeited
  <1>7. ASSUME NEW n, AbandonEnds(n) \/ DuelEnds(n)  PROVE  Deserved(p)
    BY <1>7 DEF AbandonEnds, DuelEnds, Forfeited
  <1>8. ASSUME NEW q \in Players,
               \/ Ready(q) \/ TryStart(q) \/ RpsChoice(q) \/ TurnChoice(q)
               \/ EngineError(q) \/ RejectedDeck(q)
               \/ \E twice \in BOOLEAN : UpdateDeck(q, twice)
               \/ Close(q) \/ Reconnect(q) \/ JoinStart(q)
        PROVE  Deserved(p)
    BY <1>8 DEF Ready, TryStart, RpsChoice, TurnChoice, EngineError, RejectedDeck,
                UpdateDeck, Close, Reconnect, JoinStart, finish, Forfeited
  <1>9. CASE JoinDone \/ UNCHANGED vars \/ \E k \in 1..MaxRounds : CoreUp(k)
    BY <1>9 DEF JoinDone, CoreUp, vars, finish, Forfeited
  <1> QED
    BY <1>1, <1>2, <1>3, <1>4, <1>5, <1>6, <1>7, <1>8, <1>9
    DEF Next, PlayerFrame, Connection, Engine, Timer, Ending

\* A grace timer whose player is back, and a side-deck timer whose player has
\* handed a deck in, never cost that player the match.
THEOREM OnlyTheAbsentForfeit == Spec => PresentNeverForfeits
  <1>1. Init => SideOK
    BY DEF Init, SideOK
  <1>2. Spec => []SideOK
    BY <1>1, SideNext, PTL DEF Spec
  <1>3. ScoreOK /\ SideOK /\ [Next]_vars
        => [\A p \in Players : Forfeited(p) => Deserved(p)]_vars
    BY ForfeitNext
  <1>4. Spec => [][\A p \in Players : Forfeited(p) => Deserved(p)]_vars
    BY <1>2, <1>3, ScoreBounded, PTL DEF Spec
  <1> QED  BY <1>4 DEF PresentNeverForfeits, Forfeited, Deserved

-----------------------------------------------------------------------------
(* Types *)

\* The parts of TypeOK, grouped by the actions that touch them.
RoomOK ==
    /\ room \in {"live", "closed", "silent"}
    /\ state \in {"waiting", "rps", "choosing", "dueling", "siding"}
    /\ {away, ready, picked, grace, side, gaveUp} \subseteq SUBSET Players
    /\ chosen \in BOOLEAN /\ byRps \in BOOLEAN

CountsOK ==
    /\ match \in 0..MaxMatches
    /\ ScoreOK
    /\ duelIds \in Nat
    /\ round \in 0..MaxRounds
    /\ duel \in {"none", "live", "finished"}

CoreOK == core \in [1..MaxRounds -> {"none", "starting", "running", "expired", "gone"}]

QueuesOK ==
    /\ queue \in Seq(Players \cup {NewDuel})
    /\ ending \subseteq {"abandon", "duel"} \X Nat
    /\ results \in Seq(Result)

\* TypeOK is its parts.
LEMMA TypeParts ==
    /\ TypeOK <=> RoomOK /\ CountsOK /\ CoreOK /\ QueuesOK
    /\ TypeOK' <=> RoomOK' /\ CountsOK' /\ CoreOK' /\ QueuesOK'
  BY DEF TypeOK, RoomOK, CountsOK, CoreOK, QueuesOK, ScoreOK

\* An engine that is disposed of stays a core of its round.
LEMMA DisposedOK ==
    ASSUME NEW c \in [1..MaxRounds -> {"none", "starting", "running", "expired", "gone"}], NEW k
    PROVE  Disposed(c, k) \in [1..MaxRounds -> {"none", "starting", "running", "expired", "gone"}]
  BY DEF Disposed

\* The end of a duel keeps every type; it leaves the variables it does not name
\* to its caller.
LEMMA WinConditionTypes ==
    ASSUME TypeOK, NEW w \in Players \cup {Draw},
           NEW c \in [1..MaxRounds -> {"none", "starting", "running", "expired", "gone"}],
           WinCondition(w, c),
           UNCHANGED <<room, away, picked, match, duelIds, queue, round, grace, results, gaveUp>>
    PROVE  TypeOK'
  <1> USE TypeParts
  <1>1. RoomOK'
    <2>1. (byRps' = byRps \/ byRps' = (w = Draw)) /\ (chosen' = chosen \/ chosen' = (chosen \/ w # Draw))
      BY DEF WinCondition
    <2>2. byRps' \in BOOLEAN /\ chosen' \in BOOLEAN
      BY <2>1 DEF RoomOK
    <2>3. state' \in {state, "siding"} /\ ready' \in {ready, {}} /\ side' \in {side, Players}
      BY DEF WinCondition, SideTimers
    <2> QED  BY <2>2, <2>3 DEF RoomOK
  <1>2. CountsOK'
    BY WinConditionScore, CountedGame DEF WinCondition, CountsOK, ScoreOK
  <1>3. CoreOK'
    BY DisposedOK DEF WinCondition, CoreOK
  <1>4. QueuesOK'
    BY MatchAssumption DEF WinCondition, QueuesOK, CountsOK
  <1> QED  BY <1>1, <1>2, <1>3, <1>4

\* So does settling a departure.
LEMMA ResolveTypes ==
    ASSUME TypeOK, NEW p \in Players, Resolve(p),
           UNCHANGED <<state, ready, turn, match, duel, queue, engine, results>>,
           side' \in SUBSET Players, gaveUp' \in SUBSET Players
    PROVE  TypeOK'
  <1> USE TypeParts
  <1>1. RoomOK'
    BY DEF Resolve, Finalize, RoomOK, turn
  <1>2. duelIds' \in Nat
    <2>1. Other(p) \in Players /\ wins[Other(p)] \in 0..NeedWins
      BY Opponents DEF CountsOK, ScoreOK
    <2>2. NeedWins - wins[Other(p)] \in Nat
      BY <2>1, MatchAssumption
    <2> QED  BY <2>2 DEF Resolve, Forfeit, Finalize, CountsOK
  <1>3. CountsOK' /\ CoreOK'
    BY <1>2, ResolveScore DEF CountsOK, CoreOK, engine
  <1>4. QueuesOK'
    BY MatchAssumption DEF Resolve, Forfeit, QueuesOK, CountsOK
  <1> QED  BY <1>1, <1>3, <1>4

\* Every step keeps every variable in the range the code's types give it.
LEMMA TypeNext == TypeOK /\ [Next]_vars => TypeOK'
  <1> SUFFICES ASSUME TypeOK, [Next]_vars
               PROVE  TypeOK'
    OBVIOUS
  <1> USE TypeParts
  <1>1. CASE PlayerFrame
    <2> SUFFICES ASSUME NEW p \in Players,
                        \/ Ready(p) \/ TryStart(p) \/ RpsChoice(p) \/ TurnChoice(p)
                        \/ EngineError(p) \/ Concede(p)
                        \/ \E twice \in BOOLEAN : UpdateDeck(p, twice)
                        \/ RejectedDeck(p) \/ Surrender(p)
                 PROVE  TypeOK'
      BY <1>1 DEF PlayerFrame
    <2>1. CASE Ready(p)
      BY <2>1 DEF Ready, RoomOK, CountsOK, CoreOK, QueuesOK, ScoreOK, turn, score, duels,
                  engine, timers, finish
    <2>2. CASE TryStart(p)
      BY <2>2, MatchAssumption, SMTT(40)
      DEF TryStart, RoomOK, CountsOK, CoreOK, QueuesOK, ScoreOK, turn, engine, timers
    <2>3. CASE RpsChoice(p)
      <3>1. RoomOK'
        <4>1. /\ chosen' \in {chosen, TRUE}
              /\ state' \in {state, "choosing"}
              /\ picked' \in {picked \cup {p}, {}}
              /\ UNCHANGED <<room, away, ready, byRps, grace, side, gaveUp>>
          BY <2>3 DEF RpsChoice, timers, finish
        <4> QED  BY <4>1 DEF RoomOK
      <3>2. CountsOK' /\ CoreOK' /\ QueuesOK'
        BY <2>3 DEF RpsChoice, CountsOK, CoreOK, QueuesOK, ScoreOK, score, duels, engine, finish
      <3> QED  BY <3>1, <3>2
    <2>4. CASE TurnChoice(p)
      <3>1. RoomOK' /\ ScoreOK' /\ match' = match
        BY <2>4 DEF TurnChoice, RoomOK, CountsOK, ScoreOK, turn, score, timers, finish
      <3>2. round' \in 0..MaxRounds /\ CoreOK'
        BY <2>4, MatchAssumption DEF TurnChoice, CountsOK, CoreOK
      <3>3. duelIds' \in Nat /\ duel' \in {"none", "live", "finished"}
        BY <2>4 DEF TurnChoice, CreateDuel, CountsOK
      <3>4. QueuesOK'
        <4>1. NewDuel \in Players \cup {NewDuel}
          OBVIOUS
        <4>2. queue' = queue \/ queue' = Append(queue, NewDuel)
          BY <2>4 DEF TurnChoice, CreateDuel
        <4>3. queue' \in Seq(Players \cup {NewDuel})
          BY <4>1, <4>2 DEF QueuesOK
        <4> QED  BY <2>4, <4>3 DEF TurnChoice, QueuesOK, finish
      <3> QED  BY <3>1, <3>2, <3>3, <3>4 DEF CountsOK
    <2>5. CASE EngineError(p)
      BY <2>5, DisposedOK
      DEF EngineError, RoomOK, CountsOK, CoreOK, QueuesOK, ScoreOK, turn, score, duels,
          timers, finish
    <2>6. CASE Concede(p)
      BY <2>6, Opponents, WinConditionTypes DEF Concede, CoreOK
    <2>7. ASSUME NEW twice \in BOOLEAN, UpdateDeck(p, twice)
          PROVE  TypeOK'
      <3>1. RoomOK'
        <4>1. /\ byRps' \in {byRps, FALSE}
              /\ state' \in {state, "rps", "choosing"}
              /\ ready' = ready \cup {p}
              /\ side' \in {side \ {p}, {}}
              /\ UNCHANGED <<room, away, picked, chosen, grace, gaveUp>>
          BY <2>7 DEF UpdateDeck, finish
        <4> QED  BY <4>1 DEF RoomOK
      <3>2. CountsOK' /\ CoreOK' /\ QueuesOK'
        BY <2>7 DEF UpdateDeck, CountsOK, CoreOK, QueuesOK, ScoreOK, score, duels, engine, finish
      <3> QED  BY <3>1, <3>2
    <2>8. CASE RejectedDeck(p)
      BY <2>8 DEF RejectedDeck, RoomOK, CountsOK, CoreOK, QueuesOK, ScoreOK, turn, score,
                  duels, engine, timers, finish
    <2>9. CASE Surrender(p)
      BY <2>9, ResolveTypes DEF Surrender, RoomOK
    <2> QED  BY <2>1, <2>2, <2>3, <2>4, <2>5, <2>6, <2>7, <2>8, <2>9
  <1>2. CASE Connection
    <2>1. ASSUME NEW p \in Players, Close(p) \/ Reconnect(p)
          PROVE  TypeOK'
      BY <2>1 DEF Close, Reconnect, Finalize, RoomOK, CountsOK, CoreOK, QueuesOK, ScoreOK,
                  turn, score, duels, engine, timers, finish
    <2>2. ASSUME NEW p \in Players, JoinStart(p)
          PROVE  TypeOK'
      <3>1. RoomOK' /\ CountsOK' /\ CoreOK'
        BY <2>2 DEF JoinStart, RoomOK, CountsOK, CoreOK, ScoreOK, turn, score, engine,
                    timers, finish
      <3>2. QueuesOK'
        BY <2>2 DEF JoinStart, QueuesOK, finish
      <3> QED  BY <3>1, <3>2
    <2>3. CASE JoinDone
      <3>1. PICK n \in 0..Len(Tail(queue)) :
              /\ queue' = SubSeq(Tail(queue), n + 1, Len(Tail(queue)))
              /\ duelIds' = duelIds + n
              /\ duel' = IF n > 0 THEN "live" ELSE duel
        BY <2>3 DEF JoinDone
      <3>2. Tail(queue) \in Seq(Players \cup {NewDuel})
        BY <2>3 DEF JoinDone, QueuesOK
      <3>3. n \in Nat /\ queue' \in Seq(Players \cup {NewDuel})
        BY <3>1, <3>2
      <3>4. RoomOK' /\ CountsOK' /\ CoreOK'
        BY <2>3, <3>1, <3>3, SMTT(40) DEF JoinDone, RoomOK, CountsOK, CoreOK, ScoreOK, turn, score,
                                engine, timers, finish
      <3>5. QueuesOK'
        BY <2>3, <3>3 DEF JoinDone, QueuesOK, finish
      <3> QED  BY <3>4, <3>5
    <2> QED  BY <1>2, <2>1, <2>2, <2>3 DEF Connection
  <1>3. CASE Engine
    <2>1. ASSUME NEW w \in Players \cup {Draw}, EngineWin(w)
          PROVE  TypeOK'
      <3>1. [core EXCEPT ![round] = "gone"]
              \in [1..MaxRounds -> {"none", "starting", "running", "expired", "gone"}]
        BY DEF CoreOK
      <3> QED  BY <2>1, <3>1, WinConditionTypes DEF EngineWin
    <2>2. ASSUME NEW k \in 1..MaxRounds, CoreUp(k)
          PROVE  TypeOK'
      BY <2>2 DEF CoreUp, RoomOK, CountsOK, CoreOK, QueuesOK, ScoreOK, turn, score, duels,
                  timers, finish
    <2>3. ASSUME NEW k \in 1..MaxRounds, Timeout(k)
          PROVE  TypeOK'
      <3> DEFINE c == [core EXCEPT ![k] = "expired"]
      <3>1. c \in [1..MaxRounds -> {"none", "starting", "running", "expired", "gone"}]
        BY DEF CoreOK
      <3>2. CASE \E w \in Players : WinCondition(w, c)
        BY <2>3, <3>1, <3>2, WinConditionTypes DEF Timeout
      <3>3. CASE /\ core' = c
                 /\ UNCHANGED <<state, ready, chosen, byRps, wins, games, duel, side, ending>>
        BY <2>3, <3>1, <3>3 DEF Timeout, RoomOK, CountsOK, CoreOK, QueuesOK, ScoreOK
      <3> QED  BY <2>3, <3>2, <3>3 DEF Timeout
    <2> QED  BY <1>3, <2>1, <2>2, <2>3 DEF Engine
  <1>4. CASE Timer
    <2>1. ASSUME NEW p \in Players, GraceFires(p), Resolve(p)
          PROVE  TypeOK'
      BY <2>1, ResolveTypes DEF GraceFires, RoomOK
    <2>2. ASSUME NEW p \in Players, GraceFires(p), grace' = grace \ {p},
                 UNCHANGED <<room, away, wins, games, duelIds, ending>>
          PROVE  TypeOK'
      BY <2>2 DEF GraceFires, RoomOK, CountsOK, CoreOK, QueuesOK, ScoreOK, turn, engine
    <2>3. ASSUME NEW p \in Players, SideTimeout(p)
          PROVE  TypeOK'
      BY <2>3, ResolveTypes DEF SideTimeout, RoomOK
    <2> QED  BY <1>4, <2>1, <2>2, <2>3 DEF Timer, GraceFires
  <1>5. CASE Ending
    <2>1. [match |-> match, games |-> games, duelIds |-> duelIds] \in Result
      BY MatchAssumption DEF Result, CountsOK, ScoreOK
    <2>2. ASSUME Publish, NEW e, ending' = ending \ {e}, UNCHANGED queue
          PROVE  QueuesOK'
      BY <2>1, <2>2 DEF Publish, QueuesOK
    <2>3. ASSUME NEW n \in 0..MaxRounds + MaxMatches, AbandonEnds(n)
          PROVE  TypeOK'
      <3>1. RoomOK' /\ CountsOK' /\ CoreOK'
        BY <2>3 DEF AbandonEnds, Finalize, RoomOK, CountsOK, CoreOK, ScoreOK, turn, score,
                    duels, engine, timers
      <3> QED  BY <2>2, <2>3, <3>1 DEF AbandonEnds, duels
    <2>4. ASSUME NEW n \in 0..MaxRounds + MaxMatches, DuelEnds(n)
          PROVE  TypeOK'
      <3>1. RoomOK' /\ CountsOK'
        BY <2>4 DEF DuelEnds, RoomOK, CountsOK, ScoreOK, turn, score, duels, timers
      <3>2. CoreOK'
        BY <2>4, DisposedOK DEF DuelEnds, CoreOK
      <3> QED  BY <2>2, <2>4, <3>1, <3>2 DEF DuelEnds, duels
    <2> QED  BY <1>5, <2>3, <2>4 DEF Ending
  <1>6. CASE UNCHANGED vars
    BY <1>6 DEF vars, turn, score, duels, engine, timers, finish, TypeOK
  <1> QED  BY <1>1, <1>2, <1>3, <1>4, <1>5, <1>6 DEF Next

\* Type correctness: no wins beyond what the match needs, rounds and duels within
\* the bounds, results and pending endings well formed.
THEOREM TypeCorrect == Spec => []TypeOK
  <1>1. Init => TypeOK
    <2> SUFFICES ASSUME Init
                 PROVE  RoomOK /\ CountsOK /\ CoreOK /\ QueuesOK
      BY TypeParts
    <2>1. RoomOK
      BY DEF Init, RoomOK
    <2>2. CountsOK
      BY MatchAssumption DEF Init, CountsOK, ScoreOK
    <2>3. CoreOK
      BY DEF Init, CoreOK
    <2>4. QueuesOK
      BY DEF Init, QueuesOK
    <2> QED  BY <2>1, <2>2, <2>3, <2>4
  <1> QED  BY <1>1, TypeNext, PTL DEF Spec
=============================================================================
