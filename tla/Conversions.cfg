SPECIFICATION SpecEither
CONSTANTS
  Word = {"a", "nonchar", "1e999"}
  NonUnicode = {"nonchar"}
  NonFinite = {"1e999"}
  BadWord = "bad"
  MaxText = 6
  MaxCanonical = 5
  MaxLimit = 2
  Char = {"a", "true", "'", "dquote", "backslash", " ", "nl", "[", ","}
  MaxAlone = 4
  MaxPaired = 2
  MaxInner = 1
INVARIANTS
  TypeOK
  AgreesWithParser
  DepthLimitExact
  UnwindsExactly
  CanonicalExact
  CanonicalLimit
  RoundTrips
PROPERTY AlwaysAnswered
CHECK_DEADLOCK FALSE
