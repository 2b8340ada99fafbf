SPECIFICATION FairSpec
CONSTANTS
  NVar = 1
  Writable = TRUE
  Value = {v1, v2}
  Asked = {v1, v2}
  Driven = {1}
  Bad = bad
PROPERTIES
  CommandForwarded
  
