CONSTANTS
  a = a
  b = b
  l1 = l1
  l2 = l2
  y1 = y1
  y2 = y2
  t1 = t1
  t2 = t2
  None = None
  Classes = {a, b}
  Lessons = {l1, l2}
  Years = {y1, y2}
  First <- MCFirst
  Last <- MCLast
  Contents = {t1, t2}
  Plans <- MCPlans
  Catalogues <- MCCatalogues
  Lookback = 0
  Lookahead = 1
  MaxDay = 1
  MaxEdits = 1
  MaxFaults = 1
SPECIFICATION FairSpec
INVARIANTS
  LessonsAttended
PROPERTIES
  LastGoodKept
  EndsUpComplete
  EndsUpWithdrawn
  EndsUpOffered
