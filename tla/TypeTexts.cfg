\* Texts of types, nodes of all shapes, conversions with unsigned ints that wrap.
CONSTANTS
  IndexKey <- Digits
  dynamic = dynamic
  Dynamic = dynamic
  Number <- MCNumber
  UintMod = 16
  Digit <- MCDigit
  UlongMax = 9
  Basics <- MCBasics
  Strings <- MCStrings
  Eigens <- MCEigens
  Zeros <- MCZeros
  ZeroNumber <- MCZeroNumber
  SizeNumber <- MCSizeNumber
  ZeroString <- MCZeroString
  Types <- MCTypes_
  Bases <- MCBases
  Nodes <- MCNodes
  Others <- MCOthers
  Matrices <- MCMatrices
SPECIFICATION Spec
INVARIANTS
  ShapeDecides
  ApplyAgrees
  ThrowsIfMalformed
  ZeroFits
  MatrixFits
  EqualAsRead
PROPERTIES
  CheckTypeOfDerived
  RoundTrip
