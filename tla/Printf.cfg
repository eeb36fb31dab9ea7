SPECIFICATION FairSpec
CONSTANTS
  NtoaBuffer = 6
  FtoaBuffer = 7
  DefaultPrecision = 2
  MaxFloat = 99
  MaxPower = 2
  GLow = 1
  GHigh = 2
  Mantissa = 9
  MaxExp2 = 9
  LongExponent = 3
  PowerError = 1000
  TypeBits <- MCTypeBits
  Calls <- MCCalls
INVARIANTS
  IntegerAsInC
  FieldFilled
  FloatAccurate
  CutAndTerminated
  InsideFormat
PROPERTY
  CallReturns
CHECK_DEADLOCK FALSE
