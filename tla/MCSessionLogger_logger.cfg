\* Up to six entries, alone or in twos, with appends that fail anywhere.
CONSTANTS
  MaxLogged = 6
  MaxBurst = 2
SPECIFICATION LoggerFairSpec
INVARIANTS
  LogInOrder
  FlushedIsLogged
PROPERTY LogSettles
CHECK_DEADLOCK FALSE
