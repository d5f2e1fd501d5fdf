SPECIFICATION MCSpec
CONSTANTS
  Names = {1, 2, 3, 4}
  k1 = k1
  k2 = k2
  song = song
  Keys = {k1, k2}
  MaxDepth = 2
  Contents = {song}
  Manage <- MCManage
  Owner <- MCOwner
  Basic <- MCBasic
  Active <- MCActive
  NewActive <- MCNewActive
  Coins <- MCCoins
  Stories <- MCStories
  MaxNesting = 2
  Lifetime = 2
  None = None
  MaxId = 3
  MaxTime = 2
  OwnerAuths = {o1, o2}
  Partners = {p1, p2}
  Nobody = Nobody
  RecoveryPeriod = 3
  RequestPeriod = 2
  UpdateLimit = 1
  MaxClock = 4
  MaxChanges = 2
CHECK_DEADLOCK FALSE
INVARIANT AllListed
