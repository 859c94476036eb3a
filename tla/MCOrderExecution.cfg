CONSTANTS
  Qty = 3
  MaxAttempts = 3
  BookLags = FALSE
SPECIFICATION FairSpec
CHECK_DEADLOCK FALSE
INVARIANTS
  ReplacementIsRemainder
  ResultsAreTrue
  NothingLeftUnnoticed
PROPERTIES
  ImplementsIntent
  Terminates
