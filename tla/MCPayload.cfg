SPECIFICATION Spec
CONSTANTS
  Garbled = Garbled
  NaN = NaN
  Names <- ThreeNames
  Numbers <- TwoNumbers
  Loads <- SomeLoads
INVARIANT TypeOK
INVARIANT Heard
INVARIANT Understood
INVARIANT LoadWithinLimits
