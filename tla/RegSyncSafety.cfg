SPECIFICATION Spec
CONSTANTS
  NVar = 2
  Writable = TRUE
  Value = {v1, v2}
  Asked = {v1, v2}
  Driven = {}
  Bad = bad
SYMMETRY Alike
INVARIANTS
  TypeOK
  BadNeverGood
  ErrorsAgree
