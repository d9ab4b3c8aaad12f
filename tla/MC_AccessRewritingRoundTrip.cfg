\* The field -> variable -> field round trip on the Laplacian stencil.
CONSTANTS
  MaxNodes = 20

SPECIFICATION Spec
CHECK_DEADLOCK FALSE

INVARIANT FieldOffsetsPreserved
