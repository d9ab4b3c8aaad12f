\* Field/variable rewrites on the copy and Laplacian stencils.
CONSTANTS
  MaxNodes = 20

SPECIFICATION Spec

\* The optimizer applies finitely many rewrites and then stops.
CHECK_DEADLOCK FALSE

INVARIANT AccessBindingsExact
INVARIANT IdentitiesPreserved
