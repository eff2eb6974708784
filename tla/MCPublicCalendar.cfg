CONSTANTS
  c1 = c1
  c2 = c2
  ch1 = ch1
  ch2 = ch2
  f1 = f1
  b1 = b1
  b2 = b2
  k1 = k1
  k2 = k2
  None = None
  Calendars = {c1, c2}
  Channels = {ch1, ch2}
  Feeds = {f1}
  Bodies = {b1, b2}
  Keys = {k1, k2}
  Content <- MCContent
  Catalogues <- MCCatalogues
  Lookback = 0
  Lookahead = 2
  Slots = {1, 2}
  MaxDay = 0
  MaxEdits = 1
  MaxFaults = 1
SPECIFICATION Spec
INVARIANTS
  ServedOnlyAfterImport
PROPERTIES
  CatalogueMirrored
