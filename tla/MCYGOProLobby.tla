--------------------------- MODULE MCYGOProLobby ---------------------------
(* The instance of YGOProLobby for TLC. *)
EXTENDS YGOProLobby, TLC

CONSTANTS a, b, d, e

By(way, auth, name, may) == [way |-> way, auth |-> auth, name |-> name, key |-> "tcg", may |-> may]
Away == By("out", "none", "", {})
Four(w, x, y, z) == a :> w @@ b :> x @@ d :> y @@ e :> z

\* Strangers who pair, one of them under the first one's name, in two rooms.
Pairs == Four(By("pair", "none", "x", {"make", "deck", "leave"}), By("pair", "none", "y", {"make", "deck", "leave", "break"}),
              By("pair", "none", "x", {"make", "limited"}), Away)

\* A full room whose players move, watch, ready and unready.
Moves == Four(By("named", "none", "x", {"make", "deck", "toDuel", "leave"}),
              By("named", "none", "y", {"deck", "observer", "unready", "leave"}),
              By("watch", "none", "z", {"toDuel", "leave"}), Away)

\* A room opened with a PIN, found by a ticket and a guest; one opened with a
\* ticket, found by a PIN, whose player watches and tries for the seat.
External == Four(By("named", "pin", "x", {"make", "observer", "toDuel", "leave"}), By("named", "ticket", "y", {"toDuel", "leave"}),
                 By("named", "none", "z", {}), Away)
Verified == Four(By("named", "ticket", "x", {"make", "toDuel", "leave"}), By("named", "pin", "y", {"toDuel", "leave"}),
                 By("named", "ticket", "z", {"observer", "toDuel"}), Away)

\* Two invited players, a watcher and a stranger after one seat.
Invited == Four(By("pair", "none", "x", {"make", "deck", "leave"}), By("invite", "none", "y", {"deck", "leave"}),
                By("invite", "none", "z", {"leave"}), By("watch", "none", "v", {"limited"}))

\* A room with a bot, called twice with one token; the same, made with a PIN.
WithBot(auth) == Four(By("ai", auth, "x", {"make", "deck", "leave"}), By("bot", "none", "", {"deck", "leave"}),
                      By("bot", "none", "", {}), By("watch", "none", "v", {"leave"}))

\* A match broken while the first one's seat waits to be given back, who leaves
\* meanwhile.
Back == Four(By("named", "none", "x", {"make", "deck", "leave"}), By("named", "none", "y", {"deck", "leave", "break"}),
             By("named", "none", "x", {}), Away)

AllParties == {Pairs, Moves, External, Verified, Invited, WithBot("none"), WithBot("pin"), Back}
=============================================================================
