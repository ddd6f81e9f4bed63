SPECIFICATION SpecCall
CONSTANTS
  Word = {"a", "nonchar", "1e999"}
  NonUnicode = {"nonchar"}
  NonFinite = {"1e999"}
  BadWord = "bad"
  MaxText = 3
  MaxCanonical = 4
  MaxLimit = 1
INVARIANT TooDeepReported
CHECK_DEADLOCK FALSE
