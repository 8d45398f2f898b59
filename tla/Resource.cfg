\* Resource: three reloads, stop and one observing component.
SPECIFICATION FairSpec
CONSTANTS
  MaxRuns = 3
  Stopper = Stopper
INVARIANTS
  LatestWins
  CancelOwned
  InFlightNotCancelled
  SettledView
PROPERTIES
  SupersededCancelled
  LoadingEnds
  ImplementsAsyncValue
CHECK_DEADLOCK FALSE
