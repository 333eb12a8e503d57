----------------------------- MODULE MCDuelTurn -----------------------------
(* Instances of DuelTurn for TLC. *)
EXTENDS DuelTurn

(* A question answered twice is reached, and not continued: the properties except it. *)
(* The sides only differ by their numbers, which swapped covers: the first question   *)
(* goes to side 0.                                                                    *)
Going == ~doubled /\ (asks = 1 => engine # 1)
=============================================================================
