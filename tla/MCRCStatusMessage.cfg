SPECIFICATION Spec
CONSTANTS
  Kinds = {err, wrn}
  Numbers = {0, 1}
  Infos = {0}
  MaxLog = 3
  MaxPos = 0
INVARIANT NoErrorNoMessage
