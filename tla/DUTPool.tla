------------------------------- MODULE DUTPool -------------------------------
(***************************************************************************)
(* The DUT pool of SRPTO (srpto/lock_manager/dut_lock.py, class DUTPool):  *)
(* the devices under test of one testbed, the PTF host, the                *)
(* whole-topology lock, the named shared resources (VLANs, port channels)  *)
(* and the counter of the anti-starvation guard.                           *)
(*                                                                         *)
(* The pool has no thread of its own.  This module gives its state and its *)
(* operations; a module that EXTENDS it lets the threads that own the pool *)
(* call them (ParallelScheduler: the workers of the engine).  acquire is a *)
(* polling loop around TryAllocate and belongs to the calling thread.      *)
(*                                                                         *)
(* An allocation is a set here, where the code has a list: nothing after   *)
(* the allocation looks at the order.  _try_allocate, release and          *)
(* get_status run under one mutex, so that each is one step;               *)
(* register_pending and unregister_pending run under a second one, which   *)
(* _try_allocate takes once, to read the counter.                          *)
(***************************************************************************)
EXTENDS Integers, FiniteSets, Sequences, Functions

CONSTANTS
    Dut,        \* the devices of the testbed: the keys of _slots
    SlotPos,    \* the position of each in the insertion order of _slots
    DutName,    \* names a requirement may list: devices of the testbed or not
    ScriptName, \* the names under which scripts hold resources
    Shared,     \* names of shared resources
    Links,      \* _topology_connections: a number of links by ordered pair
    NoOne       \* held_by = None

ASSUME PoolAssumption ==
    /\ IsFiniteSet(Dut) /\ Dut \subseteq DutName
    /\ SlotPos \in [Dut -> Nat] /\ IsInjective(SlotPos)
    /\ DOMAIN Links \subseteq DutName \X DutName
    /\ \A pair \in DOMAIN Links : Links[pair] \in Nat
    /\ NoOne \notin ScriptName

VARIABLES
    slot,       \* held_by of each slot; busy is held_by # None
    ptf,        \* _ptf_held_by; _ptf_busy is _ptf_held_by # None
    topo,       \* _topo_held_by, likewise
    holders,    \* _shared_resources; a missing key is the empty set
    maxPending  \* _max_pending_dut_count

poolVars == <<slot, ptf, topo, holders, maxPending>>

-----------------------------------------------------------------------------
(* What a script asks for.  A link requirement asks for n links between    *)
(* the DUTs that take the roles "Da" and "Db" of the script.               *)

LinkRequirement == [a : Nat, b : Nat, n : Nat]

ResourceRequirement ==
    [count : Nat, named : Seq(DutName), ptf : BOOLEAN, exclusive : BOOLEAN,
     shared : SUBSET Shared, links : SUBSET LinkRequirement]

PoolTypeOK ==
    /\ slot \in [Dut -> ScriptName \cup {NoOne}]
    /\ ptf \in ScriptName \cup {NoOne}
    /\ topo \in ScriptName \cup {NoOne}
    /\ holders \in [Shared -> SUBSET ScriptName]
    /\ maxPending \in Nat

PoolInit ==
    /\ slot = [d \in Dut |-> NoOne]
    /\ ptf = NoOne
    /\ topo = NoOne
    /\ holders = [res \in Shared |-> {}]
    /\ maxPending = 0

Free == {d \in Dut : slot[d] = NoOne}

-----------------------------------------------------------------------------
(* Which DUTs a request takes from a set of free ones.                     *)

\* The n first elements of S in the order of pos: Python's list[:n].
FirstN(S, n, pos) == {x \in S : Cardinality({y \in S : pos[y] <= pos[x]}) <= n}

\* topology_connections.get((dA, dB), 0) or ...get((dB, dA), 0)
LinksFrom(dA, dB) == IF <<dA, dB>> \in DOMAIN Links THEN Links[dA, dB] ELSE 0
Wired(dA, dB) == IF LinksFrom(dA, dB) # 0 THEN LinksFrom(dA, dB) ELSE LinksFrom(dB, dA)

\* Some assignment of the roles D1 .. Dn to the DUTs of combo has the links
\* req asks for; a role beyond Dn never has.
Satisfies(req, combo) ==
    \E role \in [1 .. req.count -> combo] :
        /\ IsInjective(role)
        /\ \A link \in req.links :
              /\ {link.a, link.b} \subseteq 1 .. req.count
              /\ Wired(role[link.a], role[link.b]) >= link.n

\* itertools.combinations yields combo c before combo d.
Before(c, d) == \E x \in c \ d : \A y \in d \ c : SlotPos[x] < SlotPos[y]

Matching(req, free) ==
    {combo \in SUBSET free : Cardinality(combo) = req.count /\ Satisfies(req, combo)}

FindDutsMatchingTopology(req, free, duts) ==
    /\ duts \in Matching(req, free)
    /\ \A other \in Matching(req, free) \ {duts} : Before(duts, other)

\* Mutant: the names are not compared with the free list.
NamedAnywhere(req, free) == {i \in DOMAIN req.named : req.named[i] \in Dut}

\* available_named[: dut_count], as positions in dut_names.
AvailableNamed(req, free) == {i \in DOMAIN req.named : req.named[i] \in free}

TakeNamed(req, free, duts) ==
    LET available == AvailableNamed(req, free)
    IN  /\ Cardinality(available) >= req.count
        /\ duts = {req.named[i] : i \in FirstN(available, req.count, [i \in available |-> i])}

ByTopology(req) == DOMAIN Links # {} /\ req.links # {}

Selects(req, free, duts) ==
    /\ Cardinality(free) >= req.count
    /\ \/ /\ ByTopology(req)
          /\ FindDutsMatchingTopology(req, free, duts)
       \/ /\ ~ByTopology(req) /\ req.named # <<>>
          /\ TakeNamed(req, free, duts)
       \/ /\ ~ByTopology(req) /\ req.named = <<>>
          /\ duts = FirstN(free, req.count, SlotPos)

\* A pool with nothing allocated can serve req.
IdlePoolServes(req) == \E duts \in SUBSET Dut : Selects(req, Dut, duts)

-----------------------------------------------------------------------------
(* Operations.                                                             *)

\* Mutants: no shared-resource check; no check of the PTF host.
BlockedIgnoringShared(req) ==
    \/ topo # NoOne
    \/ req.exclusive /\ (Free # Dut \/ ptf # NoOne)
    \/ req.ptf /\ ptf # NoOne
BlockedIgnoringPtf(req) ==
    \/ topo # NoOne
    \/ req.exclusive /\ (Free # Dut \/ ptf # NoOne)
    \/ \E res \in req.shared : holders[res] # {}

\* Guards 1 to 3 of _try_allocate: topology lock, PTF host, shared resources.
Blocked(req) ==
    \/ topo # NoOne
    \/ req.exclusive /\ (Free # Dut \/ ptf # NoOne)
    \/ req.ptf /\ ptf # NoOne
    \/ \E res \in req.shared : holders[res] # {}

\* Mutant: the guard also holds back the largest request itself.
WouldStarveAny(req) ==
    /\ maxPending >= req.count
    /\ Cardinality(Free) - req.count < maxPending

\* The anti-starvation guard: a larger request is pending and would be left
\* with fewer free DUTs than it needs.
WouldStarve(req) ==
    /\ maxPending > req.count
    /\ Cardinality(Free) - req.count < maxPending

Allocatable(req, duts) ==
    /\ ~Blocked(req)
    /\ Selects(req, Free, duts)
    /\ ~WouldStarve(req)

CanAllocate(req) == \E duts \in SUBSET Dut : Allocatable(req, duts)

Commit(name, req, duts) ==
    /\ slot' = [d \in Dut |-> IF d \in duts THEN name ELSE slot[d]]
    /\ ptf' = IF req.ptf THEN name ELSE ptf
    /\ topo' = IF req.exclusive THEN name ELSE topo
    /\ holders' = [res \in Shared |->
                      IF res \in req.shared THEN holders[res] \cup {name} ELSE holders[res]]
    /\ UNCHANGED maxPending

TryAllocate(name, req, duts) ==
    /\ Allocatable(req, duts)
    /\ Commit(name, req, duts)

\* Mutant: the names of shared resources are not given back.
ReleaseKeepingShared(name, req, duts) ==
    /\ slot' = [d \in Dut |-> IF d \in duts THEN NoOne ELSE slot[d]]
    /\ ptf' = IF req.ptf /\ ptf = name THEN NoOne ELSE ptf
    /\ topo' = IF req.exclusive /\ topo = name THEN NoOne ELSE topo
    /\ UNCHANGED <<holders, maxPending>>

Release(name, req, duts) ==
    /\ slot' = [d \in Dut |-> IF d \in duts THEN NoOne ELSE slot[d]]
    /\ ptf' = IF req.ptf /\ ptf = name THEN NoOne ELSE ptf
    /\ topo' = IF req.exclusive /\ topo = name THEN NoOne ELSE topo
    /\ holders' = [res \in Shared |->
                      IF res \in req.shared THEN holders[res] \ {name} ELSE holders[res]]
    /\ UNCHANGED maxPending

\* Mutant: the last request instead of the largest.
RegisterLast(n) ==
    /\ maxPending' = n
    /\ UNCHANGED <<slot, ptf, topo, holders>>

RegisterPending(n) ==
    /\ maxPending' = IF n > maxPending THEN n ELSE maxPending
    /\ UNCHANGED <<slot, ptf, topo, holders>>

\* Mutants: an off-by-one in the test; a counter instead of a maximum.
UnregisterAbove(n) ==
    /\ maxPending' = IF n > maxPending THEN 0 ELSE maxPending
    /\ UNCHANGED <<slot, ptf, topo, holders>>
UnregisterBySubtraction(n) ==
    /\ maxPending' = maxPending - n
    /\ UNCHANGED <<slot, ptf, topo, holders>>

UnregisterPending(n) ==
    /\ maxPending' = IF n >= maxPending THEN 0 ELSE maxPending
    /\ UNCHANGED <<slot, ptf, topo, holders>>
=============================================================================
