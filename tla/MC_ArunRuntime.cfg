\* Two lace workers, the block_on future and two spawned tasks.
CONSTANTS
  Workers = {w1, w2}
  Tasks = {"m", "t1", "t2"}
  Main = "m"
  Chans = {"c1", "c2"}
  Prog <- Program
  None = None
SPECIFICATION Spec
INVARIANTS
  TypeOK
  NoLostWakeup
PROPERTIES
  MainReturns
