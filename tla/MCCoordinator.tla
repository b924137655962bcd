---------------------------- MODULE MCCoordinator ----------------------------
(***************************************************************************)
(* Instances of ParallelCoordinator for TLC: a leader and two followers.   *)
(***************************************************************************)
EXTENDS ParallelCoordinator

AllModes == {"FULL_PARALLEL", "RP_FIRST"}
AllAtOnce == {"FULL_PARALLEL"}
\* Each DUT has a test that reloads, or skips it, or fails before; the two
\* line cards can be exchanged.
AnyOf == {r \in SUBSET Proc : "lc2" \in r => "lc1" \in r}
\* The same test reloads everywhere, or nowhere.
InStep == {{}, Proc}
=============================================================================
