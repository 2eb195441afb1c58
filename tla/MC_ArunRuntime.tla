-------------------------- MODULE MC_ArunRuntime ---------------------------
(* The shape of new_parallel_reachable: the block_on future spawns one   *)
(* task per automaton state and joins them in order; the two tasks       *)
(* exchange one message each way, as two workers of a search do.         *)
EXTENDS ArunRuntime

S(o, a) == [op |-> o, arg |-> a]

Program ==
  [t \in Tasks |->
     CASE t = "m"  -> << S("spawn", "t1"), S("spawn", "t2"),
                         S("join", "t1"), S("join", "t2") >>
       [] t = "t1" -> << S("send", "c2"), S("recv", "c1") >>
       [] t = "t2" -> << S("recv", "c2"), S("send", "c1") >>]
=============================================================================
