---------------------------------- MODULE Elo ----------------------------------
(***************************************************************************)
(* Ratings: what one rated game does to two of them, and the replay of a   *)
(* window of games with the same formula.  Teams of one.                   *)
(***************************************************************************)
EXTENDS Integers, Sequences, SequencesExt

CONSTANTS
  InitialRating, RatingFloor, ProvisionalGames, HighRated, MaxGap,
  KProvisional, KHighRated, KDefault,
  Curve(_, _, _)  \* Curve(k, gap, won): the rounded k * (actual - expected), gap the opponent's lead

ASSUME EloAssumption ==
  /\ {InitialRating, RatingFloor, ProvisionalGames, HighRated, MaxGap} \subseteq Nat
  /\ RatingFloor <= InitialRating

Greater(m, n) == IF m >= n THEN m ELSE n

Unrated == [value |-> InitialRating, games |-> 0, peak |-> InitialRating]

\* The part of a delta a rating can absorb.
EffectiveDelta(rating, delta) == Greater(RatingFloor, rating.value + delta) - rating.value

ApplyDelta(rating, delta) ==
  LET value == rating.value + EffectiveDelta(rating, delta)
  IN  [value |-> value, games |-> rating.games + 1, peak |-> Greater(rating.peak, value)]

KFactor(rating) ==
  CASE rating.games < ProvisionalGames -> KProvisional
    [] rating.games >= ProvisionalGames /\ rating.value >= HighRated -> KHighRated
    [] OTHER -> KDefault

Gap(own, other) == IF other - own > MaxGap THEN MaxGap ELSE Greater(-MaxGap, other - own)

\* EloCalculator.deltasFor, of one player.
DeltaFor(rating, opponent, won) == Curve(KFactor(rating), Gap(rating.value, opponent.value), won)

-----------------------------------------------------------------------------
(* A game is [game, winner, loser]; a history row [game, user, prev, delta]. *)

Playing(game) == {game.winner, game.loser}
Other(game, u) == IF u = game.winner THEN game.loser ELSE game.winner

RowFor(game, u, ratings) ==
  [game |-> game.game, user |-> u, prev |-> ratings[u].value,
   delta |-> EffectiveDelta(ratings[u], DeltaFor(ratings[u], ratings[Other(game, u)], u = game.winner))]

\* One game of replayRatingWindow; finals is the state of every user.
Replayed(state, game) ==
  [rows   |-> state.rows \cup {RowFor(game, u, state.finals) : u \in Playing(game)},
   finals |-> [u \in DOMAIN state.finals |->
                 IF u \in Playing(game) THEN ApplyDelta(state.finals[u], RowFor(game, u, state.finals).delta)
                 ELSE state.finals[u]]]

ReplayWindow(baselines, games) == FoldLeft(Replayed, [rows |-> {}, finals |-> baselines], games)

\* baselineAtWindowStart: inside are the rows of the window, first the first of them.
Baseline(current, inside, first, before) ==
  IF inside = {} THEN current
  ELSE LET reached == {InitialRating} \cup {row.prev : row \in before} \cup {row.prev + row.delta : row \in before}
       IN  [value |-> first.prev, games |-> current.games - Cardinality(inside),
            peak |-> CHOOSE p \in reached : \A q \in reached : q <= p]
=============================================================================
