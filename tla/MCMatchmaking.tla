--------------------------- MODULE MCMatchmaking ---------------------------
(* Instances of Matchmaking for TLC. *)
EXTENDS Matchmaking, TLC

CONSTANTS u1, u2, u3, s1, s2, s3, s4, t1, t2, t3

\* Three users on the socket leg, the first with two connections.
ThreeUsers == (s1 :> u1) @@ (s2 :> u2) @@ (s3 :> u1) @@ (s4 :> u3)

\* Two users on the poll leg, the first with a second ticket and a socket.
PollOwners == (t1 :> u1) @@ (t2 :> u2) @@ (t3 :> u1) @@ (s1 :> u1)

\* One user with a socket, one with a ticket.
MixedOwners == (s1 :> u1) @@ (t2 :> u2)

\* s1 and s3 belong to the same user and are interchangeable.
SameUser == Permutations({s1, s3})
SameUserTickets == Permutations({t1, t3})

Gone(s) == sock[s] = "closed" /\ session[s] = "idle"

\* How far the run of the accept step looks: to the first room, and into that
\* room up to its match once nobody waits.  Before the room the third user is
\* either gone, or the first of all to wait while everybody stays connected;
\* at time 0 he and the second socket of u1 may come to the room as intruders.
FirstRoom ==
    \/ DOMAIN rooms = {} /\ Gone(s4)
    \/ /\ DOMAIN rooms = {} /\ now <= 1
       /\ \A s \in Sockets : sock[s] = "open"
       /\ session[s4] = "idle" => pool = EmptyPool
    \/ /\ DOMAIN rooms # {} /\ pool = EmptyPool
       /\ \/ now <= 1 /\ Gone(s4)
          \/ now = 0 /\ sock[s4] = "open" /\ sock[s1] = "open" /\ sock[s3] = "open"

NoBot   == {None}
SomeBot == {None, 0, 3}
=============================================================================
