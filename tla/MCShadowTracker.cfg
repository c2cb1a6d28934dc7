CONSTANTS
  grp = grp
  a = a
  b = b
  c = c
  s1 = s1
  s2 = s2
  Groups = {grp}
  Outcomes = {a, b, c}
  GroupOf <- MCGroupOf
  MayLackTokens = {c}
  OpenAtStart = {a, b}
  MayClose = {c}
  MinMarkets = 1
  Checks = TRUE
  FilterWorks = TRUE
  PageLimit = 3
  Portfolios <- MCPortfolios
  InitialCapital = 12
  CapitalPct = 50
  MaxSize = 6
  MinSize = 3
  MaxConcurrent <- MCMaxConcurrent
  Parts = 6
  MaxExposure <- MCMaxExposure
  Sides <- MCSides
  ProfitPct = 34
  ExitPcts <- MCExitPcts
  Garbled <- MCGarbled
  MaxEntries = 2
  MaxSaves = 2
  MaxBoots = 1
SPECIFICATION FairSpec
INVARIANTS TypeOK ExposureMatches
PROPERTIES KeptOrClosed LiveCovers ShadowsClose
CHECK_DEADLOCK FALSE
