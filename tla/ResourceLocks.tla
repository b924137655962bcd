---------------------------- MODULE ResourceLocks ----------------------------
(***************************************************************************)
(* What SRPTO promises to the scripts it runs: a client gets all of the    *)
(* resources it claims at once or none of them, no resource has two        *)
(* holders, and a client gives back everything in one step.                *)
(* ParallelScheduler is shown to implement this module.                    *)
(***************************************************************************)
CONSTANTS Client, Resource

VARIABLE held   \* what each client holds

Init == held = [c \in Client |-> {}]

Grant(c, claim) ==
    /\ held[c] = {}
    /\ \A other \in Client : held[other] \cap claim = {}
    /\ held' = [held EXCEPT ![c] = claim]

Return(c) == held' = [held EXCEPT ![c] = {}]

Next == \E c \in Client : Return(c) \/ \E claim \in SUBSET Resource : Grant(c, claim)

Spec == Init /\ [][Next]_held
=============================================================================
