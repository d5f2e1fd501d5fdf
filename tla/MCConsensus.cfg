SPECIFICATION ConsensusSpec
CONSTANTS
  Blocks = {"a1", "a2", "a3", "a4", "x4", "b2", "b3", "b4", "b5"}
  Genesis = "genesis"
  Prev <- MCPrev
  NoHead = NoHead
  Good <- MCGood
  Late = {"x4"}
  Proposing = {"a3"}
  Witness <- Alone
  Witnesses = {"w1"}
  TxsOf <- MCTxsOf
  Txs = {"t", "u"}
  Clash <- MCClash
  MaxMiners = 1
  StartVoting = 3
  Offset = 0
  MinUndoHistory = 3
  MaxUndoHistory = 3
  Accounts = {"a", "b"}
  Compound = 1
  Year = 2
  InterestRate = 1
  OneHundred = 1
  Reward = 2
  Leverage = 1
  MaxOrders = 2
  MaxClock = 3
  MaxSupply = 10
  LedgerProfiles <- MCLedgerProfiles
  AccountListeners = {"a"}
  Users = {"u"}
  Hundred = 10
  MaxTime = 4
  Platforms = {1, 2}
  Contents = {"c"}
  Day = 3
  FullTime = 2
  Intervals = {1, 3}
  MaxReports = 3
  None = None
  StreamingProfiles <- MCStreamingProfiles
CHECK_DEADLOCK FALSE
INVARIANTS
  ChainSound
  RestartKeepsChain
  SupplyAddsUp
  OrdersFair
  StreamingSound
PROPERTIES
  NoTxLost
  SettledBlocksStay
  SharesKeepTheirValue
  PaidInProportion
