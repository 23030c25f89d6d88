SPECIFICATION AllSpec
CONSTANTS
  Kinds = {"codepoints"}
  Units <- MCBytes
  MaxUnits = 3
  Widths = {3, 4, 8}
  IntWidth = 8
  Samples = {0, 1}
  Precision = 5
  NaN = NaN
  Undefined = Undefined
  Error = Error
  Pieces <- MCPieces
  Separators <- MCSeparators
  Langs = {""}
  MaxPieces = 1
  MaxSize <- MCMaxSize
INVARIANT InvalidStartsReplaced
