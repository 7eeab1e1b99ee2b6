SPECIFICATION Spec
CONSTANTS
  VarTypes <- MCVarTypes
  FieldsOf <- MCFields
  ParamOf <- MCParams
  Programs <- MCPrograms
  Families = {"operators", "types", "effects"}
INVARIANTS CodeFits SameValue
CHECK_DEADLOCK FALSE
