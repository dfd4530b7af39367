CONSTANTS
  int = int
  string = string
  NoVariant = NoVariant
  NoObject = NoObject
  Unusable = Unusable
  Variants = {va1, va2}
  Ts <- TwoTypes
  Values = {x, y}
SPECIFICATION Spec
INVARIANTS IndexNamesObject
CHECK_DEADLOCK FALSE
