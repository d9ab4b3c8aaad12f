\* The code as it is: generateStencilInstantiation does not call generateStencilFunctions.
CONSTANTS
  Instantiations <- MC_Instantiations
  FunNames <- MC_FunNames
  MaxFuns = 2
  EmitStencilFunctions = FALSE

SPECIFICATION Spec

\* generateCode returns after the last instantiation.
CHECK_DEADLOCK FALSE






INVARIANT EveryStencilFunctionEmitted
