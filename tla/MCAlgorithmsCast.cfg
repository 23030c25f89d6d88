SPECIFICATION AllSpec
CONSTANTS
  Kinds = {"number"}
  Units <- MCBytes
  MaxUnits = 3
  Widths = {3, 4, 8}
  IntWidth = 8
  Samples <- MCSamples
  Precision = 5
  NaN = NaN
  Undefined = Undefined
  Error = Error
  Pieces <- MCPieces
  Separators <- MCSeparators
  Langs = {""}
  MaxPieces = 1
  MaxSize <- MCMaxSize
INVARIANT CheckedFloatDefined
