CONSTANTS
  IMax = 31
  U64Max = 17
  SecMax = 6
  NanosPerSec = 4
SPECIFICATION Spec
INVARIANTS TypeOK NoDrift TimersAreAhead WaitsAddUp ConversionsAreFaithful
PROPERTIES OnlySetGoesBack
