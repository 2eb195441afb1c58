---------------------------- MODULE MessageReach ----------------------------
(***************************************************************************)
(* The default property-driven engine of ppsmc: one worker task per        *)
(* automaton state (property_driven/worker.rs), message-driven forward and *)
(* backward reachability with quiescence detected on the shared `active`   *)
(* counter, and the driver that runs one forward search and then backward  *)
(* searches until the fair states are stable (PPSMC::check, reachable.rs,  *)
(* fair.rs async_fair_states).                                             *)
(*                                                                         *)
(* Each step of a worker is one atomic operation of the code on shared     *)
(* state: one fetch_add/fetch_sub on `active`, one send, one recv or       *)
(* try_recv; local BDD computation is folded into the step that follows    *)
(* it.  BDDs are sets of system states (see ProductGraph).                 *)
(***************************************************************************)
EXTENDS ProductGraph, Integers, Sequences, Functions

VARIABLES
  phase,       \* driver: "init", "post", "fair", "done" or "panic"
  direction,   \* the running call: "post" (post_reachable) or "pre"
  seed,        \* per-worker `init` argument of the running call
  constraint,  \* per-worker `constraint` argument (pre_reachable)
  pc,          \* per-worker program counter
  mailbox,     \* per-worker unbounded FIFO channel of Message
  active,      \* the shared AtomicI32 `active`
  reach,       \* per-worker local `reach`
  update,      \* per-worker local `update` (coalesced Data)
  numUpdate,   \* per-worker local `num_update`
  sendData,    \* per-worker `data` argument of the running propagate
  outbox,      \* per-worker edges propagate has still to walk, in order
  counted,     \* per-worker: the head of outbox is counted, not yet sent
  result,      \* per-worker value returned by the task
  R,           \* driver: reach[] returned by the forward search
  F,           \* driver: fair_states
  verdict      \* driver: the Boolean that check() returns

workerVars == <<pc, mailbox, active, reach, update, numUpdate, sendData,
                outbox, counted, result>>
driverVars == <<phase, direction, seed, constraint, R, F, verdict>>
vars == <<phase, direction, seed, constraint, R, F, verdict, pc, mailbox,
          active, reach, update, numUpdate, sendData, outbox, counted, result>>

Data(d)  == [kind |-> "Data", bdd |-> d]
QuitMsg  == [kind |-> "Quit", bdd |-> {}]
Message  == [kind : {"Data"}, bdd : SUBSET States] \cup {QuitMsg}

PCs == {"idle", "start", "seed", "top", "recv", "drain", "prop", "done",
        "panic"}

(* The edges propagate walks: forward edges for post_reachable, backward  *)
(* ones for pre_reachable.                                                 *)
Labels(i) == IF direction = "post" THEN forward(i) ELSE backward(i)

(* The value a task returns: reach for post_reachable, reach & init for   *)
(* pre_reachable.                                                          *)
Ret(i) == IF direction = "post" THEN reach[i] ELSE reach[i] \cap seed[i]

-----------------------------------------------------------------------------
(* Worker::propagate is entered with `data`: nothing is sent when data is *)
(* false, otherwise every edge is visited.                                 *)
BeginPropagate(i, data, next) ==
  /\ UNCHANGED counted
  /\ sendData' = [sendData EXCEPT ![i] = data]
  /\ outbox' = [outbox EXCEPT ![i] = IF data = {} THEN <<>> ELSE Labels(i)]
  /\ pc' = [pc EXCEPT ![i] = next]

(* post_reachable / pre_reachable, up to and into the first propagate:  *)
(* reach starts as init (forward) or false (backward, which propagates  *)
(* the pre-image of a non-false init).                                   *)
StartPost(i) ==
  /\ pc[i] = "start"
  /\ direction = "post"
  /\ reach' = [reach EXCEPT ![i] = seed[i]]
  /\ BeginPropagate(i, seed[i], "seed")
  /\ UNCHANGED <<mailbox, active, update, numUpdate, result>>
  /\ UNCHANGED driverVars

StartPre(i) ==
  /\ pc[i] = "start"
  /\ direction = "pre"
  /\ reach' = [reach EXCEPT ![i] = {}]
  /\ BeginPropagate(i, IF seed[i] # {} THEN PreImage(seed[i]) ELSE {}, "seed")
  /\ UNCHANGED <<mailbox, active, update, numUpdate, result>>
  /\ UNCHANGED driverVars

(* The next edge of propagate, a message `data & label`: a non-false one *)
(* is first counted (active.fetch_add(1)) ...                             *)
CountEdge(i) ==
  /\ pc[i] \in {"seed", "prop"}
  /\ outbox[i] # <<>>
  /\ ~counted[i]
  /\ sendData[i] \cap Head(outbox[i])[2] # {}
  /\ active' = active + 1
  /\ counted' = [counted EXCEPT ![i] = TRUE]
  /\ UNCHANGED <<pc, mailbox, reach, update, numUpdate, sendData, outbox,
                 result>>
  /\ UNCHANGED driverVars

(* ... and then sent on the channel of the neighbour. *)
SendEdge(i) ==
  /\ counted[i]
  /\ LET e == Head(outbox[i]) IN
       mailbox' = [mailbox EXCEPT ![e[1]] = Append(@, Data(sendData[i] \cap e[2]))]
  /\ outbox' = [outbox EXCEPT ![i] = Tail(@)]
  /\ counted' = [counted EXCEPT ![i] = FALSE]
  /\ UNCHANGED <<pc, active, reach, update, numUpdate, sendData, result>>
  /\ UNCHANGED driverVars

(* A false message is not sent. *)
SkipEdge(i) ==
  /\ pc[i] \in {"seed", "prop"}
  /\ outbox[i] # <<>>
  /\ ~counted[i]
  /\ sendData[i] \cap Head(outbox[i])[2] = {}
  /\ outbox' = [outbox EXCEPT ![i] = Tail(@)]
  /\ UNCHANGED <<pc, mailbox, active, reach, update, numUpdate, sendData,
                 counted, result>>
  /\ UNCHANGED driverVars

(* The initial propagate has returned: enter the loop. *)
SeedDone(i) ==
  /\ pc[i] = "seed"
  /\ outbox[i] = <<>>
  /\ pc' = [pc EXCEPT ![i] = "top"]
  /\ UNCHANGED <<mailbox, active, reach, update, numUpdate, sendData, outbox, counted,
                 result>>
  /\ UNCHANGED driverVars

(* Worker::quit: Quit to every other worker. *)
Quit(i) ==
  [j \in AutStates |-> IF j # i THEN Append(mailbox[j], QuitMsg) ELSE mailbox[j]]

(* Top of the loop: active.fetch_sub(1); the worker that takes it from 1  *)
(* to 0 broadcasts Quit and returns, the others go on to recv.            *)
Top(i) ==
  /\ pc[i] = "top"
  /\ active' = active - 1
  /\ IF active = 1
       THEN /\ mailbox' = Quit(i)
            /\ result' = [result EXCEPT ![i] = Ret(i)]
            /\ pc' = [pc EXCEPT ![i] = "done"]
       ELSE /\ pc' = [pc EXCEPT ![i] = "recv"]
            /\ UNCHANGED <<mailbox, result>>
  /\ UNCHANGED <<reach, update, numUpdate, sendData, outbox, counted>>
  /\ UNCHANGED driverVars

(* Variant of Recv that starts num_update at -1, as if the recv'd message *)
(* were one of the coalesced ones.                                         *)
RecvOffByOne(i) ==
  /\ pc[i] = "recv"
  /\ mailbox[i] # <<>>
  /\ mailbox' = [mailbox EXCEPT ![i] = Tail(@)]
  /\ IF Head(mailbox[i]).kind = "Data"
       THEN /\ update' = [update EXCEPT ![i] = Head(mailbox[i]).bdd]
            /\ numUpdate' = [numUpdate EXCEPT ![i] = -1]
            /\ pc' = [pc EXCEPT ![i] = "drain"]
            /\ UNCHANGED result
       ELSE /\ result' = [result EXCEPT ![i] = Ret(i)]
            /\ pc' = [pc EXCEPT ![i] = "done"]
            /\ UNCHANGED <<update, numUpdate>>
  /\ UNCHANGED <<active, reach, sendData, outbox, counted>>
  /\ UNCHANGED driverVars

(* receiver.recv().await: blocks until a message is there. *)
Recv(i) ==
  /\ pc[i] = "recv"
  /\ mailbox[i] # <<>>
  /\ mailbox' = [mailbox EXCEPT ![i] = Tail(@)]
  /\ IF Head(mailbox[i]).kind = "Data"
       THEN /\ update' = [update EXCEPT ![i] = Head(mailbox[i]).bdd]
            /\ numUpdate' = [numUpdate EXCEPT ![i] = 0]
            /\ pc' = [pc EXCEPT ![i] = "drain"]
            /\ UNCHANGED result
       ELSE /\ result' = [result EXCEPT ![i] = Ret(i)]
            /\ pc' = [pc EXCEPT ![i] = "done"]
            /\ UNCHANGED <<update, numUpdate>>
  /\ UNCHANGED <<active, reach, sendData, outbox, counted>>
  /\ UNCHANGED driverVars

(* Variant of Drain that coalesces with `num_update += 1`. *)
DrainWrongSign(i) ==
  /\ pc[i] = "drain"
  /\ mailbox[i] # <<>>
  /\ mailbox' = [mailbox EXCEPT ![i] = Tail(@)]
  /\ IF Head(mailbox[i]).kind = "Data"
       THEN /\ update' = [update EXCEPT ![i] = @ \cup Head(mailbox[i]).bdd]
            /\ numUpdate' = [numUpdate EXCEPT ![i] = @ + 1]
            /\ UNCHANGED pc
       ELSE /\ pc' = [pc EXCEPT ![i] = "panic"]
            /\ UNCHANGED <<update, numUpdate>>
  /\ UNCHANGED <<active, reach, sendData, outbox, counted, result>>
  /\ UNCHANGED driverVars

Drain(i) ==
  /\ pc[i] = "drain"
  /\ mailbox[i] # <<>>
  /\ mailbox' = [mailbox EXCEPT ![i] = Tail(@)]
  /\ IF Head(mailbox[i]).kind = "Data"
       THEN /\ update' = [update EXCEPT ![i] = @ \cup Head(mailbox[i]).bdd]
            /\ numUpdate' = [numUpdate EXCEPT ![i] = @ - 1]
            /\ UNCHANGED pc
       ELSE /\ pc' = [pc EXCEPT ![i] = "panic"]
            /\ UNCHANGED <<update, numUpdate>>
  /\ UNCHANGED <<active, reach, sendData, outbox, counted, result>>
  /\ UNCHANGED driverVars

(* Variant of ProcessPost whose forward branch removes reach from the         *)
(* received states before the image, as ProcessPre does.                 *)
ProcessPostSubtractFirst(i) ==
  /\ pc[i] = "drain"
  /\ mailbox[i] = <<>>
  /\ direction = "post"
  /\ LET u == PostImage(update[i] \ reach[i]) \ reach[i] IN
     /\ reach' = [reach EXCEPT ![i] = @ \cup u]
     /\ BeginPropagate(i, u, "prop")
  /\ UNCHANGED <<mailbox, active, update, numUpdate, result>>
  /\ UNCHANGED driverVars

(* try_recv found the channel empty: compute the image and start the     *)
(* propagate (post: image minus reach; pre: constrain, minus reach, then  *)
(* pre-image).                                                             *)
ProcessPost(i) ==
  /\ pc[i] = "drain"
  /\ mailbox[i] = <<>>
  /\ direction = "post"
  /\ IF update[i] # {}
       THEN LET u == PostImage(update[i]) \ reach[i] IN
            /\ reach' = [reach EXCEPT ![i] = @ \cup u]
            /\ BeginPropagate(i, u, "prop")
       ELSE /\ BeginPropagate(i, {}, "prop")
            /\ UNCHANGED reach
  /\ UNCHANGED <<mailbox, active, update, numUpdate, result>>
  /\ UNCHANGED driverVars

ProcessPre(i) ==
  /\ pc[i] = "drain"
  /\ mailbox[i] = <<>>
  /\ direction = "pre"
  /\ LET u == (update[i] \cap constraint[i]) \ reach[i] IN
     /\ reach' = [reach EXCEPT ![i] = @ \cup u]
     /\ BeginPropagate(i, IF u # {} THEN PreImage(u) ELSE {}, "prop")
  /\ UNCHANGED <<mailbox, active, update, numUpdate, result>>
  /\ UNCHANGED driverVars

(* active.fetch_add(num_update): the coalesced messages are released. *)
Reconcile(i) ==
  /\ pc[i] = "prop"
  /\ outbox[i] = <<>>
  /\ active' = active + numUpdate[i]
  /\ pc' = [pc EXCEPT ![i] = "top"]
  /\ UNCHANGED <<mailbox, reach, update, numUpdate, sendData, outbox, counted, result>>
  /\ UNCHANGED driverVars

Worker(i) ==
  \/ StartPost(i) \/ StartPre(i) \/ CountEdge(i) \/ SendEdge(i)
  \/ SkipEdge(i) \/ SeedDone(i) \/ Top(i)
  \/ Recv(i) \/ Drain(i) \/ ProcessPost(i) \/ ProcessPre(i) \/ Reconcile(i)

-----------------------------------------------------------------------------
(* new_parallel_reachable: Worker::reset on every worker (drop the Quit   *)
(* messages left over, active.fetch_max(id + 1)), then spawn the tasks.  *)
(* A Data message left over makes reset reach todo!(): phase "panic".    *)
DataLeft == \E i \in AutStates : \E k \in DOMAIN mailbox[i] :
              mailbox[i][k].kind = "Data"

Call(dir, from, constr, nextPhase) ==
  /\ phase' = IF DataLeft THEN "panic" ELSE nextPhase
  /\ mailbox' = [i \in AutStates |-> <<>>]
  /\ active' = IF active >= NumAut THEN active ELSE NumAut
  /\ direction' = dir
  /\ seed' = from
  /\ constraint' = constr
  /\ pc' = [i \in AutStates |-> "start"]
  /\ UNCHANGED <<reach, update, numUpdate, sendData, outbox, counted, result>>

AllDone == \A i \in AutStates : pc[i] = "done"

(* The end of PPSMC::check: false iff some accepting state has a state  *)
(* both reachable and fair.                                              *)
Verdict(rs, fs) == \A a \in Accepting : rs[a] \cap fs[a] = {}

(* PPSMC::check: seed reach[] and run the forward search. *)
Begin ==
  /\ phase = "init"
  /\ Call("post", InitReach, Unconstrained, "post")
  /\ UNCHANGED <<R, F, verdict>>

(* Variant of CollectPost that seeds fair_states with the `from` argument *)
(* of the forward search instead of its result.                           *)
CollectPostFromSeeds ==
  /\ phase = "post"
  /\ AllDone
  /\ LET fair0 == [i \in AutStates |-> IF i \in Accepting THEN seed[i] ELSE {}]
     IN /\ R' = result
        /\ F' = fair0
        /\ Call("pre", fair0, result, "fair")
  /\ UNCHANGED verdict

(* async_fair_states: fair_states starts as reach on accepting states,    *)
(* then the first backward search is started.                             *)
CollectPost ==
  /\ phase = "post"
  /\ AllDone
  /\ LET fair0 == [i \in AutStates |-> IF i \in Accepting THEN result[i] ELSE {}]
     IN /\ R' = result
        /\ F' = fair0
        /\ Call("pre", fair0, result, "fair")
  /\ UNCHANGED verdict

(* Variant of CollectFair that never stores the new fair states. *)
CollectFairNoShrink ==
  /\ phase = "fair"
  /\ AllDone
  /\ IF result = F
       THEN /\ verdict' = Verdict(R, F)
            /\ phase' = "done"
            /\ UNCHANGED <<direction, seed, constraint, workerVars, F>>
       ELSE /\ Call("pre", F, R, "fair")
            /\ UNCHANGED <<F, verdict>>
  /\ UNCHANGED R

(* Variant of CollectFair that returns after the first backward search. *)
CollectFairSingleRound ==
  /\ phase = "fair"
  /\ AllDone
  /\ verdict' = Verdict(R, result)
  /\ phase' = "done"
  /\ UNCHANGED <<direction, seed, constraint, workerVars, F, R>>

(* One more round of the fair-states loop, or its end and the verdict. *)
CollectFair ==
  /\ phase = "fair"
  /\ AllDone
  /\ IF result = F
       THEN /\ verdict' = Verdict(R, F)
            /\ phase' = "done"
            /\ UNCHANGED <<direction, seed, constraint, workerVars, F>>
       ELSE /\ F' = result
            /\ Call("pre", result, R, "fair")
            /\ UNCHANGED verdict
  /\ UNCHANGED R

Finished ==
  /\ phase = "done"
  /\ UNCHANGED vars

Driver == Begin \/ CollectPost \/ CollectFair

Init ==
  /\ phase = "init"
  /\ direction = "post"
  /\ seed = [i \in AutStates |-> {}]
  /\ constraint = [i \in AutStates |-> {}]
  /\ pc = [i \in AutStates |-> "idle"]
  /\ mailbox = [i \in AutStates |-> <<>>]
  /\ active = 0
  /\ reach = [i \in AutStates |-> {}]
  /\ update = [i \in AutStates |-> {}]
  /\ numUpdate = [i \in AutStates |-> 0]
  /\ sendData = [i \in AutStates |-> {}]
  /\ outbox = [i \in AutStates |-> <<>>]
  /\ counted = [i \in AutStates |-> FALSE]
  /\ result = [i \in AutStates |-> {}]
  /\ R = [i \in AutStates |-> {}]
  /\ F = [i \in AutStates |-> {}]
  /\ verdict = FALSE

Next ==
  \/ \E i \in AutStates : StartPost(i)
  \/ \E i \in AutStates : StartPre(i)
  \/ \E i \in AutStates : CountEdge(i)
  \/ \E i \in AutStates : SendEdge(i)
  \/ \E i \in AutStates : SkipEdge(i)
  \/ \E i \in AutStates : SeedDone(i)
  \/ \E i \in AutStates : Top(i)
  \/ \E i \in AutStates : Recv(i)
  \/ \E i \in AutStates : Drain(i)
  \/ \E i \in AutStates : ProcessPost(i)
  \/ \E i \in AutStates : ProcessPre(i)
  \/ \E i \in AutStates : Reconcile(i)
  \/ Driver
  \/ Finished

(* The task runtime polls every ready task again (arun worker threads)    *)
(* and a send wakes the receiving task: each worker is weakly fair, and   *)
(* so is the driver, which only waits on the joins.                       *)
Spec == Init /\ [][Next]_vars
             /\ \A i \in AutStates : WF_vars(Worker(i))
             /\ WF_vars(Driver)

-----------------------------------------------------------------------------
TypeOK ==
  /\ phase \in {"init", "post", "fair", "done", "panic"}
  /\ direction \in {"post", "pre"}
  /\ seed \in [AutStates -> SUBSET States]
  /\ constraint \in [AutStates -> SUBSET States]
  /\ pc \in [AutStates -> PCs]
  /\ mailbox \in [AutStates -> Seq(Message)]
  /\ active \in Nat
  /\ reach \in [AutStates -> SUBSET States]
  /\ update \in [AutStates -> SUBSET States]
  /\ numUpdate \in [AutStates -> {n \in Int : n <= 0}]
  /\ sendData \in [AutStates -> SUBSET States]
  /\ outbox \in [AutStates -> Seq(AutStates \X SUBSET States)]
  /\ counted \in [AutStates -> BOOLEAN]
  /\ result \in [AutStates -> SUBSET States]
  /\ R \in [AutStates -> SUBSET States]
  /\ F \in [AutStates -> SUBSET States]
  /\ verdict \in BOOLEAN

(* The work units a worker holds: one from spawn (fetch_max) until its    *)
(* first fetch_sub, then one per received Data message it has not yet     *)
(* released (the recv'd one and the -num_update coalesced ones).          *)
Tokens(i) ==
  CASE pc[i] \in {"start", "seed", "top"} -> 1
    [] pc[i] \in {"drain", "prop"}        -> 1 - numUpdate[i]
    [] OTHER                              -> 0

(* A message counted by fetch_add but not yet on the channel. *)
Counted(i) == IF counted[i] THEN 1 ELSE 0

InFlight(i) ==
  Cardinality({ k \in DOMAIN mailbox[i] : mailbox[i][k].kind = "Data" })

Expected ==
  IF direction = "post" THEN PostReachRef(seed) ELSE PreReachRef(seed, constraint)

(* A task only returns (on seeing active reach 0, or on Quit) once the    *)
(* whole fixpoint is computed: its result is the reference reachable set *)
(* of its automaton state, for the forward and for each backward search. *)
ResultCorrect ==
  \A i \in AutStates : pc[i] = "done" => result[i] = Expected[i]

(* Neither the coalescing loop (Quit mid-stream, panic!()) nor            *)
(* Worker::reset (Data left over, todo!()) ever meets a message it does   *)
(* not expect.                                                             *)
NoPanic ==
  /\ phase # "panic"
  /\ \A i \in AutStates : pc[i] # "panic"

(* check() returns true iff no reachable accepting node of the product   *)
(* lies on a cycle.                                                        *)
VerdictCorrect ==
  phase = "done" => (verdict <=> ~HasFairCycle)

(* The driver seen through its own variables: the forward search and    *)
(* each backward search of async_fair_states are single steps of         *)
(* FairStates, every worker step is a stutter.                            *)
AbsPhase == IF phase = "post" THEN "init" ELSE phase

Abstract == INSTANCE FairStates WITH phase <- AbsPhase

(* The engine implements FairStates: PPSMC::check with the async engine   *)
(* computes R, every round of the fair-states loop and the verdict as the *)
(* abstract loop does, and gets to the verdict.                           *)
ImplementsFairStates == Abstract!Spec

(* The driver always gets its verdict: every search is detected as       *)
(* terminated and the fair-states loop stabilises.                        *)
Terminates == <>(phase = "done")

=============================================================================
