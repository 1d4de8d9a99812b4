SPECIFICATION FairSpec
CONSTANTS
  Window = 3
  MaxTries = 2
  MaxTotal = 5
INVARIANT TypeOK
PROPERTIES WrongAnswerOnlyWhenReused CommandReturns
