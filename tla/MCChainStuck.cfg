SPECIFICATION SafeSpec
CONSTANTS
  Blocks = {"a1", "a2", "a3", "a4", "a5", "b2", "b3", "b4", "b5", "y6"}
  Genesis = "genesis"
  Prev <- MCPrev
  NoHead = NoHead
  Good <- MCGood
  Late = {}
  Proposing = {"a3"}
  Witness <- Rivals
  Witnesses = {"w1", "w2"}
  TxsOf <- MCTxsOf
  Txs = {"t", "u"}
  Clash <- MCClash
  MaxMiners = 2
  StartVoting = 1
  Offset = 0
  MinUndoHistory = 3
  MaxUndoHistory = 6
PROPERTY EveryPushUnwound
