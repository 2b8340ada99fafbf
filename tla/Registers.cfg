SPECIFICATION Spec
CONSTANTS
  File <- Files
  Reload <- Reloads
  Command = {"c"}
INVARIANTS
  TypeOK
  NothingDangles
  
  GapsOnlyCrash
PROPERTIES
  ShownAsNamed
  WholeUnlessTorn
  CommandReadsBack
CHECK_DEADLOCK FALSE
