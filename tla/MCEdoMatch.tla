----------------------------- MODULE MCEdoMatch -----------------------------
EXTENDS EdoMatch

\* Two hands that differ, and one out of range.
TwoHands == {"rock", "paper", "bad"}

\* The first duel may be counted twice.
TwoGames == <<2, 1>>

\* One of the two comes back, once.
OneReturn == [t \in Team |-> t]
=============================================================================
