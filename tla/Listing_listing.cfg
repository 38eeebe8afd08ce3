\* Four codes of which one is not valid, pages of one or two items.
SPECIFICATION Spec
CONSTANTS
  Absent = Absent
  Null = Null
  Letters <- MCLetters
  Kind <- MCKind
  Now = 0
  Codes = {1, 2, 3, 4}
  ValidCodes = {1, 2, 4}
  Entities <- MCEntities
  Searches <- MCSearches
  WalkSearches <- MCWalkSearches
  Limits = {0, 1, 2}
  MaxLimit = 2
  MaxWrites = 3
INVARIANTS NoRepeats SearchAfterComplete PageDrift PrefilterIsSound
           LimitedSearchIsFull
PROPERTY EndsEarlyOnlyByInvalid
