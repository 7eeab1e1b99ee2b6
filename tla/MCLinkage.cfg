SPECIFICATION Spec
CONSTANTS
  Programs <- MCPrograms
  LowerOf <- MCLowerOf
INVARIANTS ReachesExact OnlyVisible WellTyped SourcesRead UsingHolds
CHECK_DEADLOCK FALSE
