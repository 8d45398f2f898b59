\* The graph and the scheduler on a fork: every property. FairSpec is Spec
\* with the fairness that EventuallyFresh needs.
SPECIFICATION FairSpec
CONSTANTS
  s1 = s1
  c1 = c1
  w1 = w1
  w2 = w2
  None = None
  States = {s1}
  Computeds = {c1}
  Watchers = {w1, w2}
  Reads <- ForkReads
  MaxVersion = 2
  MaxBatch = 2
INVARIANTS
  SubscriptionSymmetry
  QueueDiscipline
  SettledFresh
  QuietCachesCurrent
  BatchDefersFlush
PROPERTIES
  OnlyStaleReruns
  StoppedNeverRuns
  EventuallyFresh
