SPECIFICATION Spec
CONSTANTS
  None = None
  Keep = Keep
  Parts <- MCParts
  Editors = {e1, e2}
  Channels = {c1, c2}
  Calendars = {k1, k2}
  Times <- MCTimes
  Payloads <- MCPayloads
  Rooms <- MCRooms
  Labels = {l1, l2}
  Runs = {r1, r2}
  Demo <- MCDemo
  MaxWrites <- MCMaxWrites
  MaxRuns = 3
  MaxFaults = 1
INVARIANTS PublishedComplete CatalogueHolds ServesReady
PROPERTIES LinkKept
SYMMETRY Symmetry
CHECK_DEADLOCK FALSE
