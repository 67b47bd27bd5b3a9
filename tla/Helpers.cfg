SPECIFICATION Spec
CONSTANTS
  SampleBytes <- MCBytes
  SampleChars <- MCChars
  MaxBytes = 4
  MaxChars = 8
  Boxes = {"upper", "digit", "special"}
  Special = "special"
  CheckedAtFirst = {"upper", "digit"}
  Lengths = {1, 2}
  WordCounts = {1, 3}
  WordListSize = 2
  Rows = {r1, r2}
  Names <- MCNames
  Domain <- MCDomain
  FileOf <- MCFileOf
  Providers = 3
INVARIANTS
  EncodingsInvert
  AcceptedTextDecodes
  ShownPasswordFits
  RowsShowIcons
CHECK_DEADLOCK FALSE
