SPECIFICATION Spec
CONSTANTS
  NVar = 1
  Writable = TRUE
  Value = {v1, v2}
  Asked = {}
  Driven = {}
  Bad = bad
INVARIANT OnlyClientsCommand
