SPECIFICATION Spec
CONSTANTS
  Req = {r1, r2}
  Worker = {w}
  Key = {1, 2}
  Ruled = {1}
  Ver = {1, 2}
  MaxEpoch = 2
  Bad = Bad
  Nil = Nil
VIEW View
SYMMETRY Symmetry
INVARIANTS PoolsSound  LastModifiedHonest StaleIsCandidate
