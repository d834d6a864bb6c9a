\* Two workers, twelve sources of the eight items, closed in groups.
SPECIFICATION Spec
CONSTANTS
  CanonCodes = {"A", "N"}
  HistoricCodes = {"T"}
  OtherCodes = {"X"}
  ExchangeOf <- MCExchangeOf
  Sessions <- MCSessions
  Null = Null
  Inf = Inf
  Bad = Bad
  Workers = {w1, w2}
  Sources <- MCSources
  ItemOf <- MCItemOf
  ScopeOf <- MCScopeOf
  Answers <- MCAnswers
  MaxVersion = 2
  Bounds <- MCBounds
  w1 = w1
  w2 = w2
INVARIANTS TablesMirrorRaw KnownSecurities NoSilentChoice MinuteDayComplete ConflictsAreLater
PROPERTY WritesOnce
SYMMETRY WorkerSymmetry
CHECK_DEADLOCK FALSE
