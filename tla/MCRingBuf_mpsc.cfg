\* Two producers and one consumer, as the log thread's ring: N = 3 blocks, so
\* that four pushes reuse a block, and the assumption of one lap.
CONSTANTS
  p1 = p1  p2 = p2  p3 = p3  c1 = c1  c2 = c2
  Producers = {p1, p2}
  Consumers = {c1}
  N = 3
  MaxPushes = 4
  MaxLap = 2
SPECIFICATION FairSpec
INVARIANTS TypeOK NoOverlappingCopy NothingStuck
PROPERTIES AgainIsHonest ClearFlagIsExplained ImplementsQueue PublishedEventually
