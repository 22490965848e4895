CONSTANTS
  Types = {position, quote}
  Keys <- MoreKeys
  Data = {d1}
  None = None
  Hashes <- SomeHashes
  Hash <- Paired
  StableKeys = FALSE
SPECIFICATION Spec
INVARIANTS ReplyIsOfKey IndexedByKey
PROPERTIES KeysIndependent
