\* The StatementMapper on every two-statement body of the pool.
CONSTANTS
  GlobalFields <- MC_GlobalFields
  Funs <- MC_Funs
  Params <- MC_Params
  Body <- MC_Body
  Programs <- MC_Programs
SPECIFICATION Spec
\* Mapping stops when it is done or after a fatal error.
CHECK_DEADLOCK FALSE
INVARIANT TypeOK
INVARIANT FieldsResolveThroughCallChain
INVARIANT StatementsInTheirDoMethods
INVARIANT VariablesLocalToInstantiation
