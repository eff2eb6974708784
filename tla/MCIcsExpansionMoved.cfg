CONSTANTS
  a = a
  b = b
  c = c
  None = None
  Uids = {a, b, c}
  Feeds <- MCFeeds
  WindowStart = 3
  WindowEnd = 8
  Hour = 1
  Spring = 3
  Autumn = 20
  MaxEvents = 3
  MaxOccurrences = 2
  MaxPerEvent = 2
  MaxScanned = 4
SPECIFICATION Spec
CHECK_DEADLOCK FALSE
INVARIANTS
  ExpansionComplete
