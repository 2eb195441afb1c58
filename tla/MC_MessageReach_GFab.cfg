\* Saturating counter against LTLSPEC G F a & G F b: three workers. The accepting nodes are reachable but lie on no cycle, so backward rounds shrink the fair states until none is left and the property holds.
CONSTANTS
  States <- Latch
  TransRel <- Counter
  Invariants <- Latch
  FsmInit <- Start0
  NumAut = 3
  Edges <- GFabEdges
  AutInit = {0}
  Accepting = {1, 2}
SPECIFICATION Spec
INVARIANTS
  TypeOK
  
  ResultCorrect
  NoPanic
  VerdictCorrect
PROPERTIES
  Terminates
  ImplementsFairStates
