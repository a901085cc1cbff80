\* The desktop: three crashes, one that leaves a migration half done, one in the run that
\* recovers from it, and one after that; five commits, two of an older version before or
\* during the migration, and two of the program when it serves.  The phone: as many deaths,
\* and one transaction more than an old version left.
SPECIFICATION MCSpec
CONSTANTS
  MaxCommits = 5
  MaxCrashes = 3
  MaxStored = 3
  MaxDeaths = 3
INVARIANTS
  TypeOK
  KeyBeforeCipher
  ServingIsClean
  RefusedOnlyIfBlocked
  PhoneRefusesOnlyIfBlocked
PROPERTIES
  ImplementsUpgrade
  StartEnds
  PhoneImplementsUpgrade
CHECK_DEADLOCK FALSE
