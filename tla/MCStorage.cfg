\* Two keys and values; histories of two blocks, three states deep at most
\* when a proposal's session is opened.
SPECIFICATION MCSpec
CONSTANTS
  Types = {t1}
  MaxInst = 1
  Keys = {k1, k2}
  Vals = {v1, v2}
  NoObj = NoObj
  NoId = NoId
  MaxStack = 3
  MaxSize = 2
  Blocks = {"a1", "a2", "a3", "b2"}
  Prev <- MCPrev
  Num <- MCNum
  Size <- MCSize
  None = None
  MaxCells = 7
  Indexes = {i1, i2, i3}
  NoFile = NoFile
  Partial = Partial
  NoDir = NoDir
  MaxVersion = 3
SYMMETRY Symmetry
INVARIANTS
  TypeOK
  HInv
  HistoryRetraced
  RollbackNeverThrows
  MergeNeverNA
  OpenSessionsKept
  LogSound
  StoreSound
PROPERTIES
  AbsSpec
  OneFlushLoaded
