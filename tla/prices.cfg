SPECIFICATION Spec
CONSTANTS
  m1 = m1 m2 = m2 s1 = s1 s2 = s2 e1 = e1 e2 = e2
  None = None
  Models = {m1, m2}
  Override <- MCOverride
  DefaultMode = "scraped"
  Seed <- MCSeed
  Amounts = {1, 2}
  Pages <- MCPages
  Scrapes = {s1, s2}
  Edits = {e1, e2}
  StaleAfter = 2
  MaxFaults = 1
SYMMETRY Sym
INVARIANTS CuratedServed HistoryCurrent
PROPERTIES DegradedKeepsPrice
CHECK_DEADLOCK FALSE
