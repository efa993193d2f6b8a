SPECIFICATION Spec
CONSTANTS
  n1 = n1  n2 = n2
  list = list  entry = entry
  Nodes <- TwoNodes
  Writers <- OneNode
  SwrKeys <- Lists
  PlainKeys <- Others
  NoEntry = NoEntry
  NoTask = NoTask
  MaxVersion = 1
  MaxFetches = 3
  MaxLosses = 1
CHECK_DEADLOCK FALSE
INVARIANTS TypeOK ClearedIsGone
PROPERTIES InvalidationArrives
