CONSTANTS
  Types = {position, quote}
  Keys <- SomeKeys
  Data = {d1, d2}
  None = None
  Hashes <- SomeHashes
  Hash <- Scattered
  StableKeys = TRUE
SPECIFICATION Spec
PROPERTIES ImplementsKeyedStore
