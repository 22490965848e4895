CONSTANTS
  UMax = 127
  MaxScale = 2
  Pow10 <- MCPow10
  Operands <- MCOperands
  TypedChars = {0, 1, 7, 10, 11}
  MaxTyped = 5
SPECIFICATION Spec
INVARIANTS TypeOK QuantityNeverNegative SumsAreExact ProductsTruncate QuotientsTruncate ComparesAsNumbers RoundTrip ReadsFaithfully
