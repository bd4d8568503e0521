CONSTANTS
  Predicates = {"sessionKeyIs", "query", "storageLocIs"}
  PolicyValues = {"a", "b"}
  MaxItems = 4
  Hashes = {"h1", "h2"}
  Versions = {2, 9, 10}
  Locations = {"uk", "de"}
  MaxUserFws = 2
  MaxIdentities = 2
  Byte = 4
  Magnitudes = {0, 1, 2, 7, 8, 31, 32, 127, 128, 2047, 2048, 32767}
  Sizes = {0, 1, 3, 60}
  ZeroSizes = {2}
  MaxFields = 2
SPECIFICATION Spec
INVARIANT CompiledMeans GrantsAsDocumented VerdictForKnownNode SizesExact RoundTrip
CHECK_DEADLOCK FALSE
