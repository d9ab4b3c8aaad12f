\* Generation for two vertical domain sizes, MultiStages of up to two Stages.
CONSTANTS
  Intervals <- MC_Intervals
  DomainSizes = {3, 4}
  MaxStages = 2

SPECIFICATION Spec

\* Code is generated once per compilation; the generator then stops.
CHECK_DEADLOCK FALSE

INVARIANT TypeOK
INVARIANT LevelOrderRespected
