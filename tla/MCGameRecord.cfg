SPECIFICATION RecordSpec
CONSTANTS
  Pos <- MCPos
  Starts <- MCStarts
  Wordings <- MCWordings
  MaxTail = 2
INVARIANTS OneTerminality ClaimVerdictsAreRight BoardOutcomeStands EndingsAgree
PROPERTY PliesStopAtTheEnd
\* A game is read and reported once.
CHECK_DEADLOCK FALSE
