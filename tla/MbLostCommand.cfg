SPECIFICATION Spec
CONSTANTS
  NReg = 1
  Writable = {1}
  Value = {v1, v2}
  Placeholder = unread
  Attempts = 1
  ErrMod = 8
INVARIANT CommandKept
