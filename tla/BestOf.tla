------------------------------- MODULE BestOf -------------------------------
(***************************************************************************)
(* What a match promises about its score (shared/room/domain/match): a     *)
(* game moves one side by one until somebody has the wins the match needs, *)
(* an abandonment gives the other side what it still needs, and a decided  *)
(* score stays until another match is created.                             *)
(***************************************************************************)
EXTENDS Naturals

CONSTANTS
    Players,    \* the two sides
    NeedWins    \* ceil(bestOf / 2)

VARIABLE wins       \* playerScore and opponentScore, by team

Decided(w) == \E p \in Players : w[p] >= NeedWins

Init == wins = [p \in Players |-> 0]

Game(p) == ~Decided(wins) /\ wins' = [wins EXCEPT ![p] = @ + 1]

Award(p) == ~Decided(wins) /\ wins' = [wins EXCEPT ![p] = NeedWins]

NewMatch == wins' = [p \in Players |-> 0]

Next == NewMatch \/ \E p \in Players : Game(p) \/ Award(p)

Spec == Init /\ [][Next]_wins
=============================================================================
