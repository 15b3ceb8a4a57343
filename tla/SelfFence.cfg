CONSTANTS
  Every = 3
  Fence = 10
  Look = 5
  Window = 15
  Delay = 1
  Horizon = 24
SPECIFICATION Spec
INVARIANTS ReachableIsAlive NeverOwnsBeside OverlapIsBounded
CHECK_DEADLOCK FALSE
