----------------------------- MODULE MCEdoLobby -----------------------------
(* The lobby with one seat per team: the connections ann and ann2 give one name *)
(* and come from one address.                                              *)
EXTENDS EdoLobby
CONSTANTS ann, bob, ann2
MCClient == {ann, bob, ann2}
MCName == [x \in MCClient |-> IF x = bob THEN "bob" ELSE "ann"]
MCAddress == [x \in MCClient |-> IF x = bob THEN 2 ELSE 1]
MCMaxBuilds == [x \in MCClient |-> IF x = bob THEN 1 ELSE 0]
MCAdmits == BOOLEAN
=============================================================================
