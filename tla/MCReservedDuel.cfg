SPECIFICATION Spec
CONSTANTS
  a = a
  a2 = a2
  b = b
  Conn = {a, a2, b}
  SeatOf <- MCSeatOf
  Reservations <- MCReservations
  Comes <- MCComes
  MaxAsked = 1
  MaxMatches = 1
  MaxDuels = 2
  Crashes <- MCCrashes
  Bot = Bot
  None = None
CHECK_DEADLOCK FALSE
INVARIANTS ResultOwnsTheOutcome ReservationSound
PROPERTIES OutcomeIsFinal ReservationSettles
