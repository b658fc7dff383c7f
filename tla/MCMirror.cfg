CONSTANTS
  Handlers = {w1, w2}
  Moves <- MCMoves
  MaxEvents = 4
  MaxSecond = 3
  MaxLost = 2
  Disputes = TRUE
  Null = Null
SPECIFICATION MirrorSpec
SYMMETRY Symmetry
INVARIANTS
  RowConverges
  EntitlementConverges
  DisputeSuspends
CHECK_DEADLOCK FALSE
