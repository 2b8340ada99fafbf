SPECIFICATION FairSpec
CONSTANTS
  NReg = 2
  Writable = {2}
  Value = {v1, v2}
  Placeholder = unread
  Attempts = 2
  ErrMod = 8
INVARIANTS
  TypeOK
  FailedConnectionNotReused
  FlagClearedOnlyWhenServed
  DownIsReported
  GoodWasRead
  PlaceholderNeverSent
  CommandKeptUnlessRaced
PROPERTIES
  ImplementsMirror
  PollEnds
  Converges
