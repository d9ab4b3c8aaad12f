\* The wrapper of every instantiation of up to three stencils, any of them possibly emptied, without globals.
CONSTANTS
  FieldOrder <- MC_FieldOrder
  MaxStencils = 3
  GlobalsChoices = {FALSE}
  AllowEmpty = TRUE
SPECIFICATION Spec
\* Code generation ends once the wrapper is emitted.
CHECK_DEADLOCK FALSE
INVARIANT TypeOK
INVARIANT StencilCtorCallsMatch
INVARIANT WrapperNamesDeclared
INVARIANT TemporariesShared
