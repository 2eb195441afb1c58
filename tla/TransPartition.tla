--------------------------- MODULE TransPartition ---------------------------
(***************************************************************************)
(* Trans (fsmbdd/src/trans.rs): Trans::new removes duplicate conjuncts of *)
(* the TRANS, partition_new clusters them greedily by the affinity of     *)
(* their supports, build computes the early-quantification schedules, and *)
(* pre_image / post_image conjoin the parts one by one, quantifying each  *)
(* variable as soon as no later part depends on it.                       *)
(*                                                                         *)
(* The BDD operations are SylvanBdd's.  BDD node counts are computed in  *)
(* C (Sylvan_nodecount): a comparison size() > THRESHOLD is a free choice *)
(* for every non-constant BDD, and false for the constants.               *)
(***************************************************************************)
EXTENDS Naturals, FiniteSets, Sequences, SylvanBdd

CONSTANTS
  Inputs,   \* the TRANS conjunct lists the SMV front end may produce
  AutTrans  \* the relations of the automaton's FSM, built Monolithic

(* BddManager::state_vars and next_state_vars: the even and the odd      *)
(* indices below num_var.                                                *)
StateVars == { v \in VarIdx : v % 2 = 0 }
NextStateVars == { v \in VarIdx : v % 2 = 1 }

VARIABLES
  phase,   \* "scan", "merge", "built", "panic"
  input,   \* the conjuncts Trans::new was called with
  trans,   \* partition_new `trans`: the deduplicated conjuncts, then merges
  i,       \* the scan loop index
  exist,   \* `trans_exist`
  heap,    \* `affinity_heap`: entries <<num, den, x, y>>
  res,     \* `res`: the parts of the result
  preElim, \* Trans::pre_eliminate
  postElim, \* Trans::post_eliminate
  other    \* the automaton's Trans the result is multiplied with, or << >>

vars == <<phase, input, trans, i, exist, heap, res, preElim, postElim, other>>

-----------------------------------------------------------------------------
(* Bdd::size() > THRESHOLD, for a BDD of the given node count. *)
MayExceedThreshold(f) == ~IsConstant(f, TRUE) /\ ~IsConstant(f, FALSE)

(* Trans::monolithic_new: constant(true) and &= every conjunct. *)
RECURSIVE Conj(_)
Conj(s) == IF s = << >> THEN Constant(TRUE) ELSE BddAnd(Head(s), Conj(Tail(s)))

-----------------------------------------------------------------------------
(* Trans::new: keep the first occurrence of every conjunct. *)
RECURSIVE Dedup(_, _)
Dedup(s, seen) ==
  IF s = << >> THEN seen
  ELSE Dedup(Tail(s), IF \E k \in DOMAIN seen : seen[k] = Head(s)
                      THEN seen ELSE Append(seen, Head(s)))

(* compute_affinity: |supp a /\ supp b| / |supp a \/ supp b|, kept as a  *)
(* fraction; a zero denominator is the NaN that NotNan::new rejects.      *)
Affinity(a, b) ==
  << Cardinality(SupportIndex(a) \cap SupportIndex(b)),
     Cardinality(SupportIndex(a) \cup SupportIndex(b)) >>

IsNaN(a, b) == Affinity(a, b)[2] = 0

(* Variant of Entries that pushes the new index first. *)
EntriesSwapped(t, n, live) ==
  { << Affinity(t[n], t[e])[1], Affinity(t[n], t[e])[2], n, e >> : e \in live }

(* The heap entries pushed for a new index n against every live index. *)
Entries(t, n, live) ==
  { << Affinity(t[n], t[e])[1], Affinity(t[n], t[e])[2], e, n >> : e \in live }

(* BinaryHeap::pop: the greatest (affinity, x, y), lexicographically. *)
Greater(p, q) ==
  \/ p[1] * q[2] > q[1] * p[2]
  \/ /\ p[1] * q[2] = q[1] * p[2]
     /\ \/ p[3] > q[3]
        \/ p[3] = q[3] /\ p[4] > q[4]

Top == CHOOSE p \in heap : \A q \in heap \ {p} : Greater(p, q)

(* Variant of build_schedule that skips the support of the next part. *)
BuildScheduleSkipNext(parts, vs) ==
  [k \in DOMAIN parts |->
     vs \ UNION { SupportIndex(parts[j]) : j \in k + 2 .. Len(parts) }]

(* build_schedule: before part k, the variables no later part depends on. *)
BuildSchedule(parts, vs) ==
  [k \in DOMAIN parts |->
     vs \ UNION { SupportIndex(parts[j]) : j \in k + 1 .. Len(parts) }]

(* Trans::build, on the parts partition_new returns. *)
Build(parts) ==
  /\ preElim' = BuildSchedule(parts, NextStateVars)
  /\ postElim' = BuildSchedule(parts, StateVars)

(* Trans::post_image and Trans::pre_image. *)
RECURSIVE Chain(_, _, _, _)
Chain(r, parts, sched, k) ==
  IF k > Len(sched) THEN r
  ELSE Chain(AndAbstract(r, parts[k], sched[k]), parts, sched, k + 1)

PostImage(parts, sched, s) ==
  IF Len(parts) = 1 THEN BddPostImage(s, parts[1])
  ELSE PreviousState(Chain(s, parts, sched, 1))

PreImage(parts, sched, s) ==
  IF Len(parts) = 1 THEN BddPreImage(s, parts[1])
  ELSE Chain(NextState(s), parts, sched, 1)

-----------------------------------------------------------------------------
Init ==
  /\ input \in Inputs
  /\ trans = Dedup(input, << >>)
  /\ phase = "scan"
  /\ i = 1
  /\ exist = {}
  /\ heap = {}
  /\ res = << >>
  /\ preElim = << >>
  /\ postElim = << >>
  /\ other = << >>

(* Scan loop: a conjunct over THRESHOLD goes straight to res. *)
KeepLarge ==
  /\ phase = "scan"
  /\ i <= Len(trans)
  /\ MayExceedThreshold(trans[i])
  /\ res' = Append(res, trans[i])
  /\ i' = i + 1
  /\ UNCHANGED <<phase, input, trans, exist, heap, preElim, postElim, other>>

(* Scan loop: a small conjunct is paired with every live one. *)
InsertSmall ==
  /\ phase = "scan"
  /\ i <= Len(trans)
  /\ IF \E e \in exist : IsNaN(trans[i], trans[e])
       THEN /\ phase' = "panic"
            /\ UNCHANGED <<i, exist, heap>>
       ELSE /\ heap' = heap \cup Entries(trans, i, exist)
            /\ exist' = exist \cup {i}
            /\ i' = i + 1
            /\ UNCHANGED phase
  /\ UNCHANGED <<input, trans, res, preElim, postElim, other>>

EndScan ==
  /\ phase = "scan"
  /\ i > Len(trans)
  /\ phase' = "merge"
  /\ UNCHANGED <<input, trans, i, exist, heap, res, preElim, postElim, other>>

(* A popped pair one of whose members was merged already. *)
PopStale ==
  /\ phase = "merge"
  /\ heap # {}
  /\ ~(Top[3] \in exist /\ Top[4] \in exist)
  /\ heap' = heap \ {Top}
  /\ UNCHANGED <<phase, input, trans, i, exist, res, preElim, postElim, other>>

(* The pair is conjoined; a result over THRESHOLD goes to res. *)
MergeLarge ==
  /\ phase = "merge"
  /\ heap # {}
  /\ Top[3] \in exist /\ Top[4] \in exist
  /\ MayExceedThreshold(BddAnd(trans[Top[3]], trans[Top[4]]))
  /\ heap' = heap \ {Top}
  /\ exist' = exist \ {Top[3], Top[4]}
  /\ res' = Append(res, BddAnd(trans[Top[3]], trans[Top[4]]))
  /\ UNCHANGED <<phase, input, trans, i, preElim, postElim, other>>

(* Variant of MergeSmall that does not insert the merged conjunct into   *)
(* trans_exist.                                                            *)
MergeSmallNoInsert ==
  /\ phase = "merge"
  /\ heap # {}
  /\ Top[3] \in exist /\ Top[4] \in exist
  /\ LET xy   == BddAnd(trans[Top[3]], trans[Top[4]])
         t    == Append(trans, xy)
         live == exist \ {Top[3], Top[4]}
     IN  /\ trans' = t
         /\ heap' = (heap \ {Top}) \cup Entries(t, Len(t), live)
         /\ exist' = live
  /\ UNCHANGED <<phase, input, i, res, preElim, postElim, other>>

(* A small result becomes a new live conjunct, paired with the others. *)
MergeSmall ==
  /\ phase = "merge"
  /\ heap # {}
  /\ Top[3] \in exist /\ Top[4] \in exist
  /\ LET xy   == BddAnd(trans[Top[3]], trans[Top[4]])
         t    == Append(trans, xy)
         live == exist \ {Top[3], Top[4]}
     IN  /\ trans' = t
         /\ IF \E e \in live : IsNaN(xy, trans[e])
              THEN /\ phase' = "panic"
                   /\ UNCHANGED <<exist, heap>>
              ELSE /\ heap' = (heap \ {Top}) \cup Entries(t, Len(t), live)
                   /\ exist' = live \cup {Len(t)}
                   /\ UNCHANGED phase
  /\ UNCHANGED <<input, i, res, preElim, postElim, other>>

(* The heap is empty: a residual conjunct joins res, the assertion that   *)
(* none is left runs, and Trans::build computes the schedules.            *)
Finish ==
  /\ phase = "merge"
  /\ heap = {}
  /\ LET parts == IF Cardinality(exist) = 1
                    THEN Append(res, trans[CHOOSE e \in exist : TRUE])
                    ELSE res
     IN  /\ res' = parts
         /\ exist' = IF Cardinality(exist) = 1 THEN {} ELSE exist
         /\ phase' = IF exist' = {} THEN "built" ELSE "panic"
         /\ Build(parts)
  /\ UNCHANGED <<input, trans, i, heap, other>>

(* Variant of Trans::product that keeps the schedules of self and of    *)
(* other instead of calling build.                                       *)
ProductNoRebuild(o) ==
  /\ phase = "built"
  /\ phase' = "product"
  /\ other' = << o >>
  /\ res' = IF Len(res) = 1 THEN << BddAnd(res[1], o) >> ELSE res \o << o >>
  /\ preElim' = preElim \o << NextStateVars >>
  /\ postElim' = postElim \o << StateVars >>
  /\ UNCHANGED <<input, trans, i, exist, heap>>

(* FsmBdd::product calls Trans::product on the system's Trans and the    *)
(* automaton's, which has the single part monolithic_new builds: two     *)
(* single parts are conjoined, otherwise the part lists are              *)
(* concatenated; build then computes the schedules afresh.               *)
Product(o) ==
  /\ phase = "built"
  /\ phase' = "product"
  /\ other' = << o >>
  /\ LET parts == IF Len(res) = 1 THEN << BddAnd(res[1], o) >> ELSE res \o << o >>
     IN  /\ res' = parts
         /\ Build(parts)
  /\ UNCHANGED <<input, trans, i, exist, heap>>

Done ==
  /\ phase \in {"built", "product", "panic"}
  /\ UNCHANGED vars

Next == KeepLarge \/ InsertSmall \/ EndScan \/ PopStale \/ MergeLarge
          \/ MergeSmall \/ Finish \/ (\E o \in AutTrans : Product(o)) \/ Done

Spec == Init /\ [][Next]_vars /\ WF_vars(Next)

-----------------------------------------------------------------------------
(* The single states, as BDDs over present-state variables.  Both images *)
(* distribute over union (conjunction and exists do), so agreeing on      *)
(* every single state is agreeing on every set of states.                 *)
StateCubes ==
  { { x \in Asg : \A v \in StateVars : x[v] = c[v] } : c \in [StateVars -> BOOLEAN] }

TypeOK ==
  /\ phase \in {"scan", "merge", "built", "product", "panic"}
  /\ other \in Seq(AutTrans) /\ Len(other) <= 1
  /\ trans \in Seq(SUBSET Asg) /\ res \in Seq(SUBSET Asg)
  /\ i \in 1 .. Len(trans) + 1
  /\ exist \subseteq DOMAIN trans
  /\ \A p \in heap : p[3] < p[4] /\ {p[3], p[4]} \subseteq DOMAIN trans

(* partition_new neither meets NaN in compute_affinity (NotNan::new(..)   *)
(* .unwrap()) nor fails its final assert!(trans_exist.is_empty()).        *)
NoPanic == phase # "panic"

(* The relation the parts must denote: the TRANS, conjoined with the     *)
(* automaton's relation once Trans::product has run.                     *)
Relation == Conj(input \o other)

(* The parts partition_new returns conjoin to the TRANS: every conjunct   *)
(* ends in exactly one part, whichever conjuncts are over THRESHOLD.      *)
PartsPreserveRelation ==
  phase = "built" => Conj(res) = Conj(input)

(* With the early-quantification schedules of build, Trans::post_image   *)
(* and Trans::pre_image of every state set equal the images through the  *)
(* monolithic relation that TransBddMethod::Monolithic builds, and after *)
(* Trans::product those through the product relation: each variable is   *)
(* quantified only once no part of the system or of the automaton needs  *)
(* it.                                                                   *)
ImagesAgree ==
  phase \in {"built", "product"} =>
    \A s \in StateCubes :
      /\ PostImage(res, postElim, s) = BddPostImage(s, Relation)
      /\ PreImage(res, preElim, s) = BddPreImage(s, Relation)

=============================================================================
