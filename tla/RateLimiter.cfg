SPECIFICATION FairSpec
CONSTANTS
  Limit = 3
  Window = 4
INVARIANTS TypeOK AtMostTwice RefusedForCause
PROPERTY LetInAgain
