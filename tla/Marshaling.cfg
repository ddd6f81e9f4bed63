SPECIFICATION SpecEither
CONSTANTS
  Numbers <- MCNumbers
  Indices <- MCIndices
  Ascending <- MCAscending
  BuiltInUris = {"time", "set"}
  BuiltInTags = {"#bits", "#dur", "#geo", "#set", "#tag"}
  Vocabularies <- MCVocabularies
  Enabled = {"", "time", "u", "unknown"}
  Limits = {2, 3}
  MaxOptions = 2
  Width = 7
  Second = 2
  MaxNumber = 64
  Documents <- MCDocuments
  Timed <- MCTimed
  Held <- MCHeld
  MaxCalls = 2
  Programs <- MCPrograms
  Heap <- MCHeap
  FloatRenderers <- MCFloatRenderers
  MaxLimit = 1
  MaxEncodes = 2
INVARIANTS
  OptionsExact
  SameMeaning
  CanonicalForm
  AnswersExplained
  RetrySame
  StreamExact
  OneDocument
  EncodingExplained
  EncodedCanonical
PROPERTY HeldSame
CHECK_DEADLOCK FALSE
