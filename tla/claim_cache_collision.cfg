CONSTANTS
  Types = {position, quote}
  Keys <- SomeKeys
  Data = {d1, d2}
  None = None
  Hashes <- SomeHashes
  Hash <- Colliding
  StableKeys = TRUE
SPECIFICATION Spec
INVARIANTS LookupIsOfKey
