\* Both algorithms, with and without --ga, every --ev list, on all 256 deterministic two-latch systems.
CONSTANTS
  States <- Latch
  Invariants <- NotBoth
  FsmInit <- Latch
  NumAut = 3
  Edges <- GFabEdges
  AutInit = {0}
  Accepting = {1, 2}
  Fairness <- FairA
  VarNames <- LatchNames
  EvLists <- SplitLists
  Systems <- DetSystems
  CondBdd <- LatchConds
  Written <- WrittenAutomata
SPECIFICATION Spec
INVARIANTS
  TypeOK
  TraditionalCorrect
  AgreesWithPropertyDriven
  SplitPreservesVerdict
  ClaimRoundTrip
