--------------------------- MODULE ConflictDetector ---------------------------
(***************************************************************************)
(* The pre-flight check of SRPTO (srpto/scheduler/conflict.py): which      *)
(* pairs of requirements it reports, and as which kinds of conflict.  It   *)
(* only warns; ParallelScheduler states what the pool makes of the pairs.  *)
(***************************************************************************)
EXTENDS Sequences

LOCAL NamesOf(req) == {req.named[i] : i \in DOMAIN req.named}

\* Mutant: only two exclusive scripts conflict.
CompareBothExclusive(a, b) ==
    {kind \in {"exclusive", "ptf", "shared_resource", "dut_overlap"} :
        \/ kind = "exclusive" /\ a.exclusive /\ b.exclusive
        \/ kind = "ptf" /\ a.ptf /\ b.ptf
        \/ kind = "shared_resource" /\ a.shared \cap b.shared # {}
        \/ kind = "dut_overlap" /\ NamesOf(a) \cap NamesOf(b) # {}}

\* The kinds _compare reports for two requirements.
Compare(a, b) ==
    {kind \in {"exclusive", "ptf", "shared_resource", "dut_overlap"} :
        \/ kind = "exclusive" /\ (a.exclusive \/ b.exclusive)
        \/ kind = "ptf" /\ a.ptf /\ b.ptf
        \/ kind = "shared_resource" /\ a.shared \cap b.shared # {}
        \/ kind = "dut_overlap" /\ NamesOf(a) \cap NamesOf(b) # {}}

\* check_all walks over the pairs of different paths of the run; requirements
\* is keyed by path, so that a path listed twice is not compared with itself.
CheckAll(requirements) ==
    {pair \in (DOMAIN requirements) \X (DOMAIN requirements) :
        pair[1] # pair[2] /\ Compare(requirements[pair[1]], requirements[pair[2]]) # {}}
=============================================================================
