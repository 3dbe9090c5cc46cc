\* Two processes that come and go; event channels with room for two events.
CONSTANTS
  PIDS = {1, 2}
  Kernel = Kernel
  Tags = {0}
  Tag = 0
  None = None
  Blocks = {b1, b2, b3, b4}
  MaxShares = 3
  MaxEvents = 2
SPECIFICATION FairCSpec
INVARIANTS NoReleaseWhileMapped PagesAccounted EndsAgree
PROPERTIES DetachedReleased ConnectAccepted
