------------------------- MODULE MC_TransPartition -------------------------
(* Two latches a (variables 0, 1) and b (2, 3) and TRANS conjuncts over   *)
(* them, in every order, with repetitions and constants.                  *)
EXTENDS TransPartition

CopyA  == { x \in Asg : x[1] = x[0] }            \* next(a) = a
FlipA  == { x \in Asg : x[1] = ~x[0] }           \* next(a) = !a
BGetsA == { x \in Asg : x[3] = x[0] }            \* next(b) = a
KeepB  == { x \in Asg : x[3] = x[2] }            \* next(b) = b
Guard  == { x \in Asg : ~x[0] \/ x[3] }          \* a -> next(b)

Pool == {CopyA, FlipA, BGetsA, KeepB, Guard, {}, Asg}

(* Non-empty TRANS lists of up to three conjuncts. *)
NonEmptyInputs == UNION { [1 .. n -> Pool] : n \in 1 .. 3 }

(* The relations of one-state automata, whose FSM has no encoding       *)
(* variable and whose relation is its edge label, over present states.  *)
LabelA     == { x \in Asg : x[0] }                 \* a
LabelAImpB == { x \in Asg : ~x[0] \/ x[2] }        \* a -> b
Automata == { LabelA, LabelAImpB }

(* A model without TRANS. *)
NoTrans == { << >> }

(* Two or three satisfiable conjuncts, and one unsatisfiable conjunct:   *)
(* the boundary case of an empty transition relation.                   *)
UnsatInputs == { Append(s, {}) : s \in UNION { [1 .. n -> Pool \ {{}, Asg}] : n \in 2 .. 3 } }
=============================================================================
