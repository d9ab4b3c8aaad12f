\* One block of the grid at a time, every block of the launch.
CONSTANTS
  BI = 3
  BJ = 1
  KB = 2
  NX = 4
  NY = 1
  KSize = 3
  KMinus = 0
  KPlus = 1

SPECIFICATION Spec

\* The kernel returns when every thread has left the k loop.
CHECK_DEADLOCK FALSE

INVARIANT TypeOK
INVARIANT OutputExact
INVARIANT LaunchCoversDomain
INVARIANT ReadsWithinExtent
INVARIANT BarriersAligned
