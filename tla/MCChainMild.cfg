SPECIFICATION MildSpec
CONSTANTS
  Blocks = {"a1", "a2", "a3", "a4", "a5", "x4", "d4", "d5", "d6", "b2", "b3", "b4", "f1", "z2"}
  Genesis = "genesis"
  Prev <- MCPrev
  NoHead = NoHead
  Good <- MCGood
  Late = {"x4"}
  Proposing = {"a3"}
  Witness <- Lagging
  Witnesses = {"w1", "w2", "w3"}
  TxsOf <- MCTxsOf
  Txs = {"t", "u"}
  Clash <- MCClash
  MaxMiners = 2
  StartVoting = 1
  Offset = 1
  MinUndoHistory = 3
  MaxUndoHistory = 6
PROPERTIES
  HistoryKeepsReaching
  PushOutcome
  Converges
