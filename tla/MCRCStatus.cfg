SPECIFICATION Spec
CONSTANTS
  Kinds = {err, wrn}
  Numbers = {0, 1}
  Infos = {0, 1}
  MaxLog = 3
  MaxPos = 1
INVARIANT TypeOK
INVARIANT Snapshot
INVARIANT InfoOfNumber
INVARIANT MessageOfNumber
INVARIANT NoStaleSession
INVARIANT CurrentFromAnswer
SYMMETRY KindSymmetry
