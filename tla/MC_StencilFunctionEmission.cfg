\* generateStencilFunctions in effect (line 81 restored): two instantiations
\* with up to two StencilFunctionInstantiations each, over two names.
CONSTANTS
  Instantiations <- MC_Instantiations
  FunNames <- MC_FunNames
  MaxFuns = 2
  EmitStencilFunctions = TRUE

SPECIFICATION Spec

\* generateCode returns after the last instantiation.
CHECK_DEADLOCK FALSE

INVARIANT EmittedExactlyTheValidPrefix
 
