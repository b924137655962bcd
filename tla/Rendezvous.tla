------------------------------ MODULE Rendezvous ------------------------------
(***************************************************************************)
(* What the parallel-run coordinator promises to the processes of a run: a *)
(* row of gates.  A party arrives at a gate at most once, and passes it    *)
(* only when every party that is expected has arrived there.  A party may  *)
(* stay away from a gate, or give up waiting at one: it then never passes  *)
(* it.                                                                     *)
(***************************************************************************)
CONSTANTS Party, Gate

VARIABLES expected,          \* the parties each gate is for
          arrived, passed    \* by gate, sets of parties

Init ==
    /\ expected \subseteq Party
    /\ arrived = [g \in Gate |-> {}]
    /\ passed = [g \in Gate |-> {}]

Arrive(p, g) ==
    /\ p \notin arrived[g]
    /\ arrived' = [arrived EXCEPT ![g] = @ \cup {p}]
    /\ UNCHANGED <<expected, passed>>

Pass(p, g) ==
    /\ p \in arrived[g] \ passed[g]
    /\ expected \subseteq arrived[g]
    /\ passed' = [passed EXCEPT ![g] = @ \cup {p}]
    /\ UNCHANGED <<expected, arrived>>

Next == \E p \in Party, g \in Gate : Arrive(p, g) \/ Pass(p, g)

Spec == Init /\ [][Next]_<<expected, arrived, passed>>
=============================================================================
