SPECIFICATION MCSpec
CONSTANTS
  Keys = {"global", "user"}
  Scanned = {"pair"}
  Rank <- MCRank
  Kinds <- MCKinds
  Modes = {"none", "plain", "encrypted"}
  MaxRecords = 3
  RetentionDays = 1
  AgeChoices <- MCAges
  MaxInserts = 4
  MaxTime = 2
  MaxDamage = 2
  MaxCrashes = 2
INVARIANTS TypeOK CountedAtMostOnce RingIsCounted FaultsAreContained
PROPERTIES NeverTotalsMonotone FullRingForgets
