----------------------------- MODULE MC_Systems -----------------------------
(***************************************************************************)
(* The systems and automata the engines are checked on: two SMV latches   *)
(* a and b, transition relations over them, and the never claims          *)
(* ltl2tgba -s produces for the negated properties, edges in the order   *)
(* of the claim (the order BuchiAutomata::parse adds them).              *)
(***************************************************************************)
EXTENDS Naturals

Latch == [a : BOOLEAN, b : BOOLEAN]
FlipFlop == { <<s, t>> \in Latch \X Latch : t.a = ~s.a /\ t.b = s.a }
Start0 == { s \in Latch : ~s.a /\ ~s.b }
NotA == { s \in Latch : ~s.a }

(* never claim of !(G F a) = F G !a:                                       *)
(*   T0_init:   :: (1) -> goto T0_init   :: (!a) -> goto accept_S1          *)
(*   accept_S1: :: (!a) -> goto accept_S1                                   *)
GFaEdges == << <<0, 0, Latch>>, <<0, 1, NotA>>, <<1, 1, NotA>> >>

(* never claim of !(G F a & G F b) = F G !a | F G !b: three states.       *)
(*   T0_init:   :: (1) -> goto T0_init  :: (!a) -> goto accept_S1           *)
(*              :: (!b) -> goto accept_S2                                   *)
(*   accept_S1: :: (!a) -> goto accept_S1                                   *)
(*   accept_S2: :: (!b) -> goto accept_S2                                   *)
NotB == { s \in Latch : ~s.b }
GFabEdges == << <<0, 0, Latch>>, <<0, 1, NotA>>, <<0, 2, NotB>>,
               <<1, 1, NotA>>, <<2, 2, NotB>> >>

(* never claim of !(G a) = F !a:                                           *)
(*   T0_init:    :: (!a) -> goto accept_all   :: (1) -> goto T0_init        *)
(*   accept_all: skip                                                       *)
GaEdges == << <<0, 1, NotA>>, <<0, 0, Latch>>, <<1, 1, Latch>> >>

(* A saturating two-bit counter (a high, b low) from 00 up to 11, with  *)
(* LTLSPEC G F a: accepting nodes are reachable at 01 and 10 but lie on  *)
(* no cycle, so the fair-states loop needs three backward searches.       *)
Val(s) == 2 * (IF s.a THEN 1 ELSE 0) + (IF s.b THEN 1 ELSE 0)
Counter == { <<s, t>> \in Latch \X Latch :
               Val(t) = IF Val(s) = 3 THEN 3 ELSE Val(s) + 1 }

(* never claim of !(G F b) = F G !b, the automaton of the --ga runs,    *)
(* where FAIRNESS a stays a justice constraint of the system.            *)
GFbEdges == << <<0, 0, Latch>>, <<0, 1, NotB>>, <<1, 1, NotB>> >>
HasA == { s \in Latch : s.a }
FairA == << HasA >>
NoFairness == << >>

(* INVAR !(a & b). *)
NotBoth == { s \in Latch : ~(s.a /\ s.b) }

(* Every deterministic system of two latches: next(a) and next(b) any    *)
(* functions of a and b.                                                  *)
DetSystems == { { <<s, f[s]>> : s \in Latch } : f \in [Latch -> Latch] }

=============================================================================
