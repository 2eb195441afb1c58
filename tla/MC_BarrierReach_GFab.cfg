\* Barrier engine, flip-flop against LTLSPEC G F a & G F b: three tasks per round, stealing.
CONSTANTS
  States <- Latch
  TransRel <- FlipFlop
  Invariants <- Latch
  FsmInit <- Start0
  NumAut = 3
  Edges <- GFabEdges
  AutInit = {0}
  Accepting = {1, 2}
SPECIFICATION Spec
INVARIANTS
  TypeOK
  VerdictCorrect
PROPERTIES
  ImplementsFairStates

