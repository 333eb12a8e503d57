--------------------------- MODULE MCReservedDuel ---------------------------
(* Two users, the first with a second connection, and seven reservations. *)
EXTENDS ReservedDuel

CONSTANTS a, a2, b

MCSeatOf == [c \in Conn |-> IF c = b THEN 1 ELSE 0]
Humans == [readable |-> TRUE, format |-> "fits", single |-> FALSE, bot |-> FALSE, reconnect |-> TRUE, exact |-> FALSE]
Training == [readable |-> TRUE, format |-> "fits", single |-> TRUE, bot |-> TRUE, reconnect |-> FALSE, exact |-> TRUE]
Once == [Humans EXCEPT !.single = TRUE, !.reconnect = FALSE]
Alone == [Humans EXCEPT !.exact = TRUE]
Coming == [Training EXCEPT !.reconnect = TRUE]
Unknown == [Humans EXCEPT !.format = "unknown"]
Unfit == [Humans EXCEPT !.format = "unfit"]
MCReservations == {Humans, Training, Coming, Once, Alone, Unknown, Unfit}
MCComes ==
  [r \in MCReservations |->
     CASE r \in {Training, Unknown} -> {a} [] r \in {Coming, Once, Alone} -> {a, a2} [] OTHER -> {a, b}]
MCCrashes == [r \in MCReservations |-> IF r \in {Training, Unknown, Unfit} THEN 1 ELSE 0]
=============================================================================
