\* Flip-flop against LTLSPEC G a: the property fails.
CONSTANTS
  States <- Latch
  TransRel <- FlipFlop
  Invariants <- Latch
  FsmInit <- Start0
  NumAut = 2
  Edges <- GaEdges
  AutInit = {0}
  Accepting = {1}
SPECIFICATION Spec
INVARIANTS
  ResultCorrect
  VerdictCorrect
