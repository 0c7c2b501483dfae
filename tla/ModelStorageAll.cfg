SPECIFICATION FairSpec
CONSTANTS
  MaxChanges = 3
  MaxCrashes = 2
INVARIANT SavedCanBeLoaded
PROPERTIES SavedChangesAreKept ChangesAreSaved
