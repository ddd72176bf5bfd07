CONSTANTS
  CPU = {c1, c2}
  NumLock = 2
SPECIFICATION FairSpec
INVARIANTS MutualExclusion OwnerAccurate NoPanic InterruptsRestored
PROPERTIES ImplementsLock EventuallyFree
