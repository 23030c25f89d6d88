SPECIFICATION AllSpec
CONSTANTS
  Kinds = {"codepoints", "number", "string"}
  Units <- MCUnits
  MaxUnits = 4
  Widths = {3, 4, 8}
  IntWidth = 8
  Samples <- MCSamples
  Precision = 5
  NaN = NaN
  Undefined = Undefined
  Error = Error
  Pieces <- MCPieces
  Separators <- MCSeparators
  Langs = {"", "tr", "lt"}
  MaxPieces = 3
  MaxSize <- MCMaxSize
INVARIANTS RepairFaithful ArithmeticExact CastsExact SplitJoinInverse TrimExact CasingExact TranscodingLossless
PROPERTY ReachesEnd
