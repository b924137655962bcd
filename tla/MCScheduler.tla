----------------------------- MODULE MCScheduler -----------------------------
(***************************************************************************)
(* Instances of ParallelScheduler for TLC: testbeds of two and three DUTs, *)
(* script lists and the sets of requirements the scripts are drawn from.   *)
(***************************************************************************)
EXTENDS ParallelScheduler, TLC

TwoDuts == {"d1", "d2"}
ThreeDuts == {"d1", "d2", "d3"}
Position == [d \in Dut |-> CASE d = "d1" -> 1 [] d = "d2" -> 2 [] d = "d3" -> 3]
Names == {"d1", "d2", "d3", "d4"}
NoLinks == <<>>
\* d1 and d2 share two links recorded from d2, d2 and d3 one.
Chain == <<"d2", "d1">> :> 2 @@ <<"d2", "d3">> :> 1

TwoScripts == <<"bgp/test_a.py", "bgp/test_b.py">>
ThreeScripts == <<"bgp/test_a.py", "bgp/test_b.py", "acl/test_c.py">>
Files == {"test_a.py", "test_b.py", "test_c.py"}
Base == [p \in Path |->
    CASE p = "bgp/test_a.py" -> "test_a.py"
      [] p = "bgp/test_b.py" -> "test_b.py"
      [] p = "acl/test_c.py" -> "test_c.py"]

Vlans == {"vlan:100"}

Plain(n) == [count |-> n, named |-> <<>>, ptf |-> FALSE, exclusive |-> FALSE,
             shared |-> {}, links |-> {}]
One == Plain(1)
Two == Plain(2)
Three == Plain(3)
WithPtf == [One EXCEPT !.ptf = TRUE]
Reboot == [One EXCEPT !.exclusive = TRUE]
OnVlan == [One EXCEPT !.shared = Vlans]
Pinned == [One EXCEPT !.named = <<"d2">>]
Linked == [Two EXCEPT !.links = {[a |-> 1, b |-> 2, n |-> 2]}]
\* A request no pool of this testbed can serve.
TooMany == Plain(4)
\* dut_count: 0 in the resource map.
Nothing == Plain(0)
PtfOnly == [Nothing EXCEPT !.ptf = TRUE]

Kinds == <<WithPtf, Reboot, OnVlan, Pinned, Linked, Three>>
\* Every choice of three kinds.  With a thread for each script the order in
\* which the scripts are listed does not matter, so that one order is enough.
Mixed == {[p \in Path |-> Kinds[kind[p]]] : kind \in
    {k \in [Path -> 1 .. 6] :
        k["bgp/test_a.py"] <= k["bgp/test_b.py"] /\ k["bgp/test_b.py"] <= k["acl/test_c.py"]}}
Served == [Path -> {Two, Three, Reboot, Linked}]
Sessions == [Path -> {Two, TooMany}]
Singles == [Path -> {Nothing, One, Two}]
ZeroDuts == [Path -> {One, PtfOnly}]
=============================================================================
