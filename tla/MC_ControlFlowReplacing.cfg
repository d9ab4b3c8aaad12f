\* Control-flow descriptor under repeated stencil splitting.
CONSTANTS
  InitialStencils <- MC_InitialStencils
  NumTopLevel = 3
  MaxNodes = 13
  MaxUID = 7
  MaxSplit = 2

SPECIFICATION Spec

\* The optimizer runs finitely many splitting passes and then stops.
CHECK_DEADLOCK FALSE

INVARIANT CallBindingsExact
INVARIANT ControlFlowIsTree
PROPERTY RefinesRunOrder
