SPECIFICATION Spec
CONSTANTS
  Nodes = {1, 2, 3}
  Blocks = {1, 2, 3, 4, 5, 6, 7, 12, 13}
  Zero = 0
  Prev <- MCPrev
  Slot <- MCSlot
  None = None
  Limit = 3
  MinPrefetch = 4
  PerPeer = 1
  MaxHandle = 2
  MaxPrefetch = 2
  Grace = 0
  Stories <- TwoPeers
CHECK_DEADLOCK FALSE
PROPERTY AllEndInSync
