\* A state of the host program and a session, with two handles each; two channels.
CONSTANTS
  p1 = p1 p2 = p2 p3 = p3
  State = {p1, p2}
  Host = {p1}
  Slot = {1, 2}
  MaxId = 2
  MaxErrors = 1
  NoChannel = NoChannel
SPECIFICATION FairSpec
INVARIANTS RefsAccounted NoUseAfterFree
PROPERTY ChannelsGo
CHECK_DEADLOCK FALSE
