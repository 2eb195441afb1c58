---------------------------- MODULE BarrierReach ----------------------------
(***************************************************************************)
(* The barrier engine of ppsmc (--op, old_impl): lace_post_reachable,     *)
(* lace_pre_reachable / lace_pre_iteration and fair_states (reachable.rs, *)
(* fair.rs), run inside lace_run by one lace worker, the owner.  Each     *)
(* round the owner pushes one task per automaton state on its deque       *)
(* (lace_spawn) and then pops them back, newest first, with               *)
(* lace_sync_multi, which reverses the results (sylvan-rs/src/lace.rs).  *)
(* Other lace workers steal the oldest task not yet taken and run it; the *)
(* owner runs a task it pops that nobody stole, and waits for one that    *)
(* was stolen and is not finished.                                        *)
(*                                                                         *)
(* A task is pure: its result is computed from values captured at spawn   *)
(* time, which the owner does not change before the sync.                 *)
(***************************************************************************)
EXTENDS ProductGraph, SequencesExt

VARIABLES
  phase,     \* "post", "postImg", "preImg", "preIter", "and", "done"
  dq,        \* the owner's deque: tasks [idx, st, res], oldest first
  synced,    \* results of lace_sync so far, in pop order
  frontier,  \* lace_post_reachable / lace_pre_reachable `frontier`
  reach,     \* lace_post_reachable `reach`
  tmpReach,  \* lace_post_reachable `tmp_reach`
  tmp,       \* lace_post_reachable `tmp`, captured by the image tasks
  preReach,  \* lace_pre_reachable `reach`
  R,         \* reach[] of check()
  F,         \* fair_states
  verdict    \* the Boolean check() returns

vars == <<phase, dq, synced, frontier, reach, tmpReach, tmp, preReach, R, F,
          verdict>>

Empty == [i \in AutStates |-> {}]

AllFalse(v) == \A i \in AutStates : v[i] = {}

(* Worker::propagate_value, as called by lace_pre_iteration: pull        *)
(* data[j] & label & constraint over the edges i -> j, minus reach.       *)
PropagateValue(i) ==
  LET u == (UNION { frontier[e[1]] \cap e[2] : e \in AsSet(forward(i)) }
              \cap R[i]) \ preReach[i]
  IN  <<preReach[i] \cup u, u>>

(* The closure a task runs, for the round the owner is in. *)
TaskResult(i) ==
  CASE phase = "postImg" ->
         LET image == PostImage(tmp[i]) IN <<reach[i] \cup image, image>>
    [] phase = "preImg" -> PreImage(F[i])
    [] phase = "preIter" ->
         LET pv == PropagateValue(i)
         IN  <<pv[1], IF pv[2] # {} THEN PreImage(pv[2]) ELSE {}>>
    [] phase = "and" -> F[i] \cap preReach[i]

(* lace_spawn for i in 0..partitioned_len. *)
SpawnAll == [k \in 1 .. NumAut |-> [idx |-> k - 1, st |-> "spawned", res |-> {}]]

(* A thief steals the oldest task nobody has taken yet. *)
Steal ==
  \E k \in DOMAIN dq :
    /\ dq[k].st = "spawned"
    /\ \A m \in 1 .. k - 1 : dq[m].st # "spawned"
    /\ dq' = [dq EXCEPT ![k].st = "stolen"]
    /\ UNCHANGED <<phase, synced, frontier, reach, tmpReach, tmp, preReach,
                   R, F, verdict>>

(* The thief runs the stolen task. *)
RunStolen ==
  \E k \in DOMAIN dq :
    /\ dq[k].st = "stolen"
    /\ dq' = [dq EXCEPT ![k].st = "done", ![k].res = TaskResult(dq[k].idx)]
    /\ UNCHANGED <<phase, synced, frontier, reach, tmpReach, tmp, preReach,
                   R, F, verdict>>

(* lace_sync: pop the newest task; run it if nobody stole it, take its    *)
(* result if a thief finished it, wait otherwise.                         *)
Sync ==
  /\ dq # <<>>
  /\ Last(dq).st # "stolen"
  /\ synced' = Append(synced, IF Last(dq).st = "done" THEN Last(dq).res
                                                     ELSE TaskResult(Last(dq).idx))
  /\ dq' = Front(dq)
  /\ UNCHANGED <<phase, frontier, reach, tmpReach, tmp, preReach, R, F,
                 verdict>>

(* Variant of lace_sync_multi that returns the results in pop order. *)
SyncMultiInOrder == synced

(* lace_sync_multi: the results of the syncs, reversed. *)
SyncMulti == Reverse(synced)

Firsts(v)  == [i \in AutStates |-> v[i + 1][1]]
Seconds(v) == [i \in AutStates |-> v[i + 1][2]]
AsVector(v) == [i \in AutStates |-> v[i + 1]]

(* Variant of Round that keeps collecting into the previous result      *)
(* vector.                                                               *)
RoundKeepSynced(next) ==
  /\ phase' = next
  /\ dq' = SpawnAll
  /\ UNCHANGED synced

(* Starts the next round of tasks. *)
Round(next) ==
  /\ phase' = next
  /\ dq' = SpawnAll
  /\ synced' = <<>>

-----------------------------------------------------------------------------
(* One iteration of the lace_post_reachable loop: propagate the frontier *)
(* along every edge i -> j into tmp[j], minus tmp_reach[j] (the edges   *)
(* into j are backward(j), the duals add_edge keeps); break with reach *)
(* when tmp is all false (and enter fair_states), else spawn the images.  *)
PostPropagate ==
  /\ phase = "post"
  /\ LET t == [j \in AutStates |->
                 UNION { frontier[p[1]] \cap p[2] : p \in AsSet(backward(j)) }
                 \ tmpReach[j]]
     IN IF AllFalse(t)
          THEN /\ R' = reach
               /\ F' = [i \in AutStates |-> IF i \in Accepting THEN reach[i] ELSE {}]
               /\ frontier' = F'
               /\ Round("preImg")
               /\ UNCHANGED <<reach, tmpReach, tmp, preReach>>
          ELSE /\ tmp' = t
               /\ tmpReach' = [j \in AutStates |-> tmpReach[j] \cup t[j]]
               /\ Round("postImg")
               /\ UNCHANGED <<frontier, reach, preReach, R, F>>
  /\ UNCHANGED verdict

(* After the image round: reach and frontier from the task results. *)
CollectPostImg ==
  /\ phase = "postImg"
  /\ dq = <<>>
  /\ reach' = Firsts(SyncMulti)
  /\ frontier' = Seconds(SyncMulti)
  /\ phase' = "post"
  /\ UNCHANGED <<dq, synced, tmpReach, tmp, preReach, R, F, verdict>>

(* lace_pre_reachable: the first frontier is the pre-image of `from`,     *)
(* reach starts false; then the first lace_pre_iteration.                 *)
CollectPreImg ==
  /\ phase = "preImg"
  /\ dq = <<>>
  /\ frontier' = AsVector(SyncMulti)
  /\ preReach' = Empty
  /\ Round("preIter")
  /\ UNCHANGED <<reach, tmpReach, tmp, R, F, verdict>>

(* After an iteration: stop when every new frontier is false, and        *)
(* intersect fair_states with the result (one more round of tasks).      *)
CollectPreIter ==
  /\ phase = "preIter"
  /\ dq = <<>>
  /\ preReach' = Firsts(SyncMulti)
  /\ IF AllFalse(Seconds(SyncMulti))
       THEN /\ Round("and")
            /\ UNCHANGED frontier
       ELSE /\ frontier' = Seconds(SyncMulti)
            /\ Round("preIter")
  /\ UNCHANGED <<reach, tmpReach, tmp, R, F, verdict>>

(* Variant of CollectAnd that compares the new fair states with the old  *)
(* by inclusion.                                                         *)
CollectAndSubset ==
  /\ phase = "and"
  /\ dq = <<>>
  /\ IF \A i \in AutStates : AsVector(SyncMulti)[i] \subseteq F[i]
       THEN /\ verdict' = \A a \in Accepting : R[a] \cap F[a] = {}
            /\ phase' = "done"
            /\ UNCHANGED <<dq, synced, frontier, F>>
       ELSE /\ F' = AsVector(SyncMulti)
            /\ frontier' = F'
            /\ Round("preImg")
            /\ UNCHANGED verdict
  /\ UNCHANGED <<reach, tmpReach, tmp, preReach, R>>

(* fair_states: stop when the intersection changes nothing, and return   *)
(* the verdict of PPSMC::check; otherwise the next backward search.      *)
CollectAnd ==
  /\ phase = "and"
  /\ dq = <<>>
  /\ IF AsVector(SyncMulti) = F
       THEN /\ verdict' = \A a \in Accepting : R[a] \cap F[a] = {}
            /\ phase' = "done"
            /\ UNCHANGED <<dq, synced, frontier, F>>
       ELSE /\ F' = AsVector(SyncMulti)
            /\ frontier' = F'
            /\ Round("preImg")
            /\ UNCHANGED verdict
  /\ UNCHANGED <<reach, tmpReach, tmp, preReach, R>>

Finished ==
  /\ phase = "done"
  /\ UNCHANGED vars

(* PPSMC::check with old_impl: reach[] seeded with fsmbdd.init on the    *)
(* initial automaton states; lace_post_reachable starts with frontier =  *)
(* reach = from and tmp_reach all false.                                  *)
Init ==
  /\ phase = "post"
  /\ dq = <<>>
  /\ synced = <<>>
  /\ frontier = InitReach
  /\ reach = InitReach
  /\ tmpReach = Empty
  /\ tmp = Empty
  /\ preReach = Empty
  /\ R = Empty
  /\ F = Empty
  /\ verdict = FALSE

Owner == PostPropagate \/ Sync \/ CollectPostImg \/ CollectPreImg
           \/ CollectPreIter \/ CollectAnd

Next == Owner \/ Steal \/ RunStolen \/ Finished

(* The owner and the thieves are lace worker threads: each is weakly     *)
(* fair.                                                                   *)
Spec == Init /\ [][Next]_vars /\ WF_vars(Owner) /\ WF_vars(RunStolen)

-----------------------------------------------------------------------------
Phases == {"post", "postImg", "preImg", "preIter", "and", "done"}

(* Types; a round never holds more than partitioned_len tasks and        *)
(* results.                                                               *)
TypeOK ==
  /\ phase \in Phases
  /\ \A k \in DOMAIN dq : dq[k].idx \in AutStates
                         /\ dq[k].st \in {"spawned", "stolen", "done"}
  /\ Len(dq) + Len(synced) <= NumAut
  /\ \A v \in {frontier, reach, tmpReach, tmp, preReach, R, F} :
       v \in [AutStates -> SUBSET States]
  /\ verdict \in BOOLEAN

(* The forward search and each backward search are single steps of      *)
(* FairStates; task, steal and sync steps are stutters.                  *)
AbsPhase == CASE phase \in {"post", "postImg"} -> "init"
              [] phase = "done"                -> "done"
              [] OTHER                         -> "fair"

Abstract == INSTANCE FairStates WITH phase <- AbsPhase

(* The barrier engine implements FairStates: whatever tasks are stolen   *)
(* and in whatever order they finish, lace_sync_multi hands result i to   *)
(* automaton state i, so R, every fair-states round and the verdict are  *)
(* those of the abstract loop, and the loop ends.                         *)
ImplementsFairStates == Abstract!Spec

(* check() with old_impl returns true iff no reachable accepting node of *)
(* the product lies on a cycle.                                           *)
VerdictCorrect ==
  phase = "done" => (verdict <=> ~HasFairCycle)

=============================================================================
