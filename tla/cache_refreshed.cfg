SPECIFICATION Spec
CONSTANTS
  n1 = n1  n2 = n2
  list = list  entry = entry
  Nodes <- OneNode
  Writers <- OneNode
  SwrKeys <- Lists
  PlainKeys <- Others
  NoEntry = NoEntry
  NoTask = NoTask
  MaxVersion = 1
  MaxFetches = 3
  MaxLosses = 0
CHECK_DEADLOCK FALSE
INVARIANT InvalidatedIsGone
CONSTRAINT ByPattern
