----------------------------- MODULE BatchScheduler -----------------------------
(***************************************************************************)
(* The batch scheduler of SpyTest (spytest/spytest/batch.py).  A testbed   *)
(* is cut into topologies of several sizes, the buckets; each has a worker *)
(* (an xdist node, with its own process) and the topologies overlap in     *)
(* devices.  The workers of the whole testbed start first; one that has    *)
(* run out of test modules ends and frees its devices, upon which those    *)
(* workers start that find all of theirs free.                             *)
(*                                                                         *)
(* The scheduler's data, the record wa, changes under wa.lock in handlers  *)
(* of pytest-xdist's events; a monitor thread may enter between two of     *)
(* them.  A handler is one step; where the code has a loop over workers or *)
(* nodes, after[n] is the data after its n-th round.  pytest-xdist is      *)
(* external: the process of a node runs a test when it has a second one or *)
(* has been told to shut down, its events arrive in their order, and the   *)
(* controller tells all nodes to shut down when tests_finished holds after *)
(* an event.                                                               *)
(***************************************************************************)
EXTENDS Integers, FiniteSets, SequencesExt

CONSTANTS Setups   \* the testbeds and suites that a run may be started with

Largest == 200     \* the bucket of a whole testbed

InfraFirst == 1    \* indexes of test_spytest_infra_first, _second and _last
InfraSecond == 2
InfraLast == 3
InfraTests == {InfraFirst, InfraSecond, InfraLast}

(* A setup lists the workers in the order of wa.workers.  Of a worker: its *)
(* devices, the testbed they are from, the range of its bucket, whether it *)
(* is a backup; the modules in the order of collection, each with bucket,  *)
(* order, tests and the workers whose topology fits; the orders in which   *)
(* nodes may arrive; options; and how many processes may die, where        *)
(* exclude says that they may report a device.                             *)
WorkersOf(s) == DOMAIN s.workers
ModulesOf(s) == DOMAIN s.modules
Starter(s, w) == s.workers[w].bucket = Largest /\ ~ s.workers[w].backup

(* Every testbed has one worker for the whole of it: this the code makes   *)
(* sure of.  That different testbeds have no device in common is up to who *)
(* writes the testbed files, and checked nowhere.                          *)
TestbedsAssumption(s) ==
    /\ Len(s.workers) \in Nat /\ WorkersOf(s) = 1 .. Len(s.workers)
    /\ \A w \in WorkersOf(s) : s.workers[w].devices # {} /\ \E v \in WorkersOf(s) :
          /\ Starter(s, v) /\ s.workers[v].bed = s.workers[w].bed
          /\ s.workers[w].devices \subseteq s.workers[v].devices
    /\ \A v, w \in WorkersOf(s) : v # w /\ Starter(s, v) /\ Starter(s, w) =>
          s.workers[v].devices \cap s.workers[w].devices = {}
    /\ \A order \in s.arrivals :
          order \in Seq(WorkersOf(s)) /\ IsInjective(order) /\ ToSet(order) = WorkersOf(s)

(* The ids of the tests are unique.                                        *)
ModulesAssumption(s) ==
    /\ Len(s.modules) \in Nat /\ ModulesOf(s) = 1 .. Len(s.modules)
    /\ \A m \in ModulesOf(s) :
          LET tests == s.modules[m].tests IN
          /\ tests # <<>> /\ tests \in Seq(ToSet(tests)) /\ IsInjective(tests)
          /\ ToSet(tests) \cap InfraTests = {}
          /\ \A n \in ModulesOf(s) \ {m} : ToSet(tests) \cap ToSet(s.modules[n].tests) = {}
          /\ s.modules[m].order \in Int /\ s.modules[m].fits \subseteq WorkersOf(s)

ASSUME SetupsAssumption == \A s \in Setups :
    /\ TestbedsAssumption(s) /\ ModulesAssumption(s)
    /\ {s.infra, s.exclude, s.monitor} \subseteq BOOLEAN /\ s.deaths \in Nat

VARIABLES
    setup,      \* what this run was started with
    begun,      \* all nodes have been collected and schedule() was called
    wa,         \* the scheduler's data
    proc,       \* the processes of the nodes
    deaths      \* the number of processes that died so far

vars == <<setup, begun, wa, proc, deaths>>

Worker == WorkersOf(setup)
Module == ModulesOf(setup)
Devices(w) == setup.workers[w].devices
BedOf(w) == UNION {Devices(v) : v \in {v \in Worker : setup.workers[v].bed = setup.workers[w].bed}}
Tests(m) == ToSet(setup.modules[m].tests)

Test == InfraTests \cup UNION {Tests(m) : m \in Module}
Device == UNION {Devices(w) : w \in Worker}

Data ==
    [started : SUBSET Worker, completed : [Worker -> {"False", "True", "None"}],
     excluded : [Worker -> 0 .. 2], errored : SUBSET Worker, applicable : SUBSET Worker,
     infra : SUBSET Worker, free : SUBSET Device, out : SUBSET Device, main : SUBSET Module,
     nodes : Seq(Worker), shut : SUBSET Worker, queue : [Worker -> Seq(Test)],
     inbox : [Worker -> Seq(Test)], ran : SUBSET Test, nes : SUBSET Test]

Process ==
    [phase : {"run", "done", "dead", "gone", "buried"}, lost : SUBSET Device, reports : Seq(Test)]

TypeOK ==
    /\ setup \in Setups /\ begun \in BOOLEAN /\ deaths \in 0 .. setup.deaths
    /\ wa \in Data /\ proc \in [Worker -> Process]

(***************************************************************************)
(* Which workers a module may run on: those of its bucket whose topology   *)
(* fits, else those of the next larger bucket that has some, else those of *)
(* a whole testbed, whatever the module's topology.                        *)
(***************************************************************************)
Matching(md) == {w \in Worker :
    /\ setup.workers[w].bucket # Largest
    /\ md.bucket \in setup.workers[w].min .. setup.workers[w].bucket
    /\ w \in md.fits}

Larger(md) ==
    LET fit == {w \in md.fits : setup.workers[w].bucket \in md.bucket + 1 .. Largest - 1}
    IN {w \in fit : \A v \in fit : setup.workers[w].bucket <= setup.workers[v].bucket}

WholeBed == {w \in Worker : setup.workers[w].bucket = Largest}

NodesOf(m) ==
    LET md == setup.modules[m]
    IN IF Matching(md) # {} THEN Matching(md)
       ELSE IF Larger(md) # {} THEN Larger(md) ELSE WholeBed

Pending(d, w) == {m \in d.main : w \in NodesOf(m)}

UpdateApplicable(d) ==
    [d EXCEPT !.applicable = {w \in Worker : d.completed[w] # "None" /\ Pending(d, w) # {}}]

(***************************************************************************)
(* Tests are sent to a node until it has two: first the tests that prepare *)
(* the devices, then whole modules, those of the highest order first.      *)
(***************************************************************************)
Before(m, n) ==
    \/ setup.modules[m].order > setup.modules[n].order
    \/ setup.modules[m].order = setup.modules[n].order /\ m < n

AssignTest(d, w) ==
    IF Pending(d, w) = {} THEN d
    ELSE IF w \in d.infra
    THEN [d EXCEPT !.infra = @ \ {w}, !.queue[w] = @ \o <<InfraFirst, InfraSecond>>]
    ELSE LET m == CHOOSE m \in Pending(d, w) : \A n \in Pending(d, w) \ {m} : Before(m, n)
         IN [d EXCEPT !.main = @ \ {m},
                      !.queue[w] = @ \o setup.modules[m].tests
                                     \o (IF setup.infra THEN <<InfraLast>> ELSE <<>>)]

AssignMore(d, w) == IF Len(d.queue[w]) >= 2 THEN d ELSE AssignTest(d, w)

Sent(old, new, w) == SubSeq(new.queue[w], Len(old.queue[w]) + 1, Len(new.queue[w]))

ShutIfShort(d, w) == IF Len(d.queue[w]) >= 2 THEN d ELSE [d EXCEPT !.shut = @ \cup {w}]

(* Mutant: a module of one test is not followed by another. *)
LoadOnce(d, w) ==
    IF Len(d.queue[w]) >= 2 THEN d
    ELSE LET new == AssignMore(d, w)
         IN ShutIfShort([new EXCEPT !.inbox[w] = @ \o Sent(d, new, w)], w)

Load(d, w) ==
    IF Len(d.queue[w]) >= 2 THEN d
    ELSE LET new == AssignMore(AssignMore(d, w), w)
         IN ShutIfShort([new EXCEPT !.inbox[w] = @ \o Sent(d, new, w)], w)

ScheduleNode(d, w) ==
    IF w \in d.shut THEN d
    ELSE IF d.excluded[w] # 0 THEN [d EXCEPT !.shut = @ \cup {w}]
    ELSE IF d.completed[w] # "False" \/ w \notin d.started THEN d
    ELSE Load(UpdateApplicable(d), w)

(* Mutant: the end of a worker forgets its tests. *)
ReportNothing(d, w) == UpdateApplicable(d)

ReportUnexecuted(d, w) ==
    IF d.queue[w] = <<>> THEN d
    ELSE UpdateApplicable([d EXCEPT !.nes = @ \cup (ToSet(d.queue[w]) \ InfraTests)])

Visit(d, w, finished) ==
    IF w \in finished THEN ReportUnexecuted(d, w) ELSE ScheduleNode(d, w)

Schedule(d, finished) ==
    LET after[n \in 0 .. Len(d.nodes)] ==
            IF n = 0 THEN d ELSE Visit(after[n - 1], d.nodes[n], finished)
    IN after[Len(d.nodes)]

(***************************************************************************)
(* The end of a worker.  lost are the devices its node_dead file names.    *)
(***************************************************************************)
Waits(d, w) ==
    /\ w \notin d.errored \cup d.started
    /\ d.completed[w] = "False"
    /\ w \in ToSet(d.nodes)
    /\ d.free \cap BedOf(w) # {}

(* Mutant: a worker starts when any of its devices is free. *)
ConsiderAny(d, w) ==
    IF ~ Waits(d, w) \/ Devices(w) \cap d.free = {} THEN d
    ELSE [d EXCEPT !.started = @ \cup {w}, !.free = @ \ Devices(w)]

(* Mutant: a worker without modules is not marked as completed. *)
ConsiderUnmarked(d, w) ==
    IF ~ Waits(d, w) THEN d
    ELSE IF w \notin d.applicable THEN [d EXCEPT !.started = @ \cup {w}]
    ELSE IF Devices(w) \subseteq d.free
    THEN [d EXCEPT !.started = @ \cup {w}, !.free = @ \ Devices(w)]
    ELSE d

Consider(d, w) ==
    IF ~ Waits(d, w) THEN d
    ELSE IF Devices(w) \cap d.out # {}
    THEN [d EXCEPT !.completed[w] = "None", !.excluded[w] = 2,
                   !.free = @ \cup (Devices(w) \ d.out)]
    ELSE IF w \notin d.applicable
    THEN [d EXCEPT !.started = @ \cup {w}, !.completed[w] = "True"]
    ELSE IF Devices(w) \subseteq d.free
    THEN [d EXCEPT !.started = @ \cup {w}, !.free = @ \ Devices(w)]
    ELSE d

(* Mutants: a status that is none of the three values of completed; the    *)
(* devices of a dead worker stay away.                                     *)
ReleaseWithStatus(d, w, error, lost) ==
    [d EXCEPT !.completed[w] = IF error THEN "DEAD" ELSE "FINISH",
              !.free = @ \cup (Devices(w) \ lost)]

ReleaseUnlessDead(d, w, error, lost) ==
    [d EXCEPT !.completed[w] = IF error THEN "None" ELSE "True",
              !.out = @ \cup lost,
              !.free = IF error THEN @ ELSE @ \cup Devices(w)]

Release(d, w, error, lost) ==
    [d EXCEPT !.excluded[w] = IF lost # {} THEN 1 ELSE @,
              !.completed[w] = IF error THEN "None" ELSE "True",
              !.out = @ \cup lost,
              !.free = @ \cup (Devices(w) \ lost)]

ConsiderAll(d) ==
    LET after[n \in 0 .. Len(setup.workers)] == IF n = 0 THEN d ELSE Consider(after[n - 1], n)
    IN after[Len(setup.workers)]

FinishNode(d, w, error, lost) ==
    IF d.completed[w] # "False" \/ w \notin d.started
    THEN [d EXCEPT !.errored = @ \cup {w}, !.completed[w] = "None"]
    ELSE Schedule(ConsiderAll(Release(d, w, error, lost)), {w})

RemoveNode(d, w) == [d EXCEPT !.nodes = RemoveFirst(@, w), !.queue[w] = <<>>]

IsActive(d, w) == d.excluded[w] = 0 /\ (d.completed[w] # "True" \/ w \notin d.started)

TestsFinished(d) == \A w \in ToSet(d.nodes) : ~ IsActive(d, w) /\ Len(d.queue[w]) < 2

ShutDownWhenFinished(d) ==
    IF TestsFinished(d) THEN [d EXCEPT !.shut = @ \cup ToSet(d.nodes)] ELSE d

(***************************************************************************)
(* Only the workers of whole testbeds are started when they are created,   *)
(* and no device is free then.  Nodes come in one of the setup's orders.   *)
(***************************************************************************)
Init ==
    /\ setup \in Setups
    /\ begun = FALSE
    /\ \E order \in setup.arrivals :
          wa = [started |-> {w \in Worker : Starter(setup, w)},
                completed |-> [w \in Worker |-> "False"],
                excluded |-> [w \in Worker |-> 0],
                errored |-> {}, applicable |-> {},
                infra |-> IF setup.infra THEN Worker ELSE {},
                free |-> {}, out |-> {}, main |-> Module, nodes |-> order, shut |-> {},
                queue |-> [w \in Worker |-> <<>>], inbox |-> [w \in Worker |-> <<>>],
                ran |-> {}, nes |-> {}]
    /\ proc = [w \in Worker |-> [phase |-> "run", lost |-> {}, reports |-> <<>>]]
    /\ deaths = 0

AllCollected == ~ begun /\ begun' = TRUE

ScheduleFirst ==
    /\ AllCollected
    /\ wa' = ShutDownWhenFinished(Schedule(wa, {}))
    /\ UNCHANGED <<setup, proc, deaths>>

(* The process of a node.                                                  *)
Execute(w) ==
    /\ proc[w].phase = "run"
    /\ Len(wa.inbox[w]) >= IF w \in wa.shut THEN 1 ELSE 2
    /\ wa' = [wa EXCEPT !.inbox[w] = Tail(@)]
    /\ proc' = [proc EXCEPT ![w].reports = Append(@, Head(wa.inbox[w]))]
    /\ UNCHANGED <<setup, begun, deaths>>

Quit(w) ==
    /\ proc[w].phase = "run" /\ w \in wa.shut /\ wa.inbox[w] = <<>>
    /\ proc' = [proc EXCEPT ![w].phase = "done"]
    /\ UNCHANGED <<setup, begun, wa, deaths>>

(* A process dies, one that is running tests perhaps after it has written  *)
(* the name of a device into node_dead.                                    *)
Die(w) ==
    /\ begun /\ deaths < setup.deaths /\ proc[w].phase = "run"
    /\ deaths' = deaths + 1
    /\ \E lost \in {{}} \cup {{d} : d \in Devices(w)} :
          /\ lost # {} => setup.exclude /\ wa.inbox[w] # <<>>
          /\ proc' = [proc EXCEPT ![w].phase = "dead", ![w].lost = lost]
    /\ wa' = [wa EXCEPT !.inbox[w] = <<>>]
    /\ UNCHANGED <<setup, begun>>

(* The controller notices that the channel of a node is closed.            *)
ChannelClosed(w) ==
    /\ proc[w].phase = "dead" /\ w \notin wa.shut
    /\ wa' = [wa EXCEPT !.shut = @ \cup {w}]
    /\ UNCHANGED <<setup, begun, proc, deaths>>

Complete(d, w, test) ==
    ScheduleNode([d EXCEPT !.queue[w] = RemoveFirst(@, test), !.ran = @ \cup {test}], w)

TakeReport(w) ==
    /\ proc[w].reports # <<>>
    /\ proc' = [proc EXCEPT ![w].reports = Tail(@)]

MarkTestComplete(w) ==
    /\ TakeReport(w)
    /\ wa' = ShutDownWhenFinished(Complete(wa, w, Head(proc[w].reports)))
    /\ UNCHANGED <<setup, begun, deaths>>

TakeDown(w) ==
    /\ proc[w].phase \in {"done", "dead"} /\ w \in wa.shut /\ proc[w].reports = <<>>
    /\ proc' = [proc EXCEPT ![w].phase = IF @ = "dead" THEN "buried" ELSE "gone"]

NodeDown(w) ==
    /\ TakeDown(w)
    /\ LET finished == FinishNode(wa, w, proc[w].phase = "dead", proc[w].lost)
       IN wa' = ShutDownWhenFinished(RemoveNode(finished, w))
    /\ UNCHANGED <<setup, begun, deaths>>

(* check_worker_status, from a thread of its own.                          *)
MonitorFindsDead(w) ==
    /\ setup.monitor /\ proc[w].phase \in {"done", "dead"}
    /\ wa.completed[w] = "False" /\ w \in wa.started
    /\ wa' = FinishNode(wa, w, TRUE, proc[w].lost)
    /\ UNCHANGED <<setup, begun, proc, deaths>>

Next == ScheduleFirst \/ \E w \in Worker :
    \/ Execute(w) \/ Quit(w) \/ Die(w)
    \/ ChannelClosed(w) \/ MarkTestComplete(w) \/ NodeDown(w) \/ MonitorFindsDead(w)

Spec == Init /\ [][Next]_vars

(* Some process goes on while one can, and the controller takes events     *)
(* while there are some.  Deaths and the monitor are not assumed.          *)
FairSpec ==
    /\ Spec
    /\ WF_begun(AllCollected)
    /\ WF_<<wa, proc>>(\E w \in Worker : Execute(w) \/ Quit(w) \/ ChannelClosed(w))
    /\ WF_proc(\E w \in Worker : TakeReport(w) \/ TakeDown(w))
----------------------------------------------------------------------------
(***************************************************************************)
(* Properties.                                                             *)
(***************************************************************************)

Holds(w) == w \in wa.started /\ wa.completed[w] = "False"
RunsTests(w) == proc[w].phase = "run" /\ wa.inbox[w] # <<>>

(* A device is used by one worker at a time, and by none while it is free: *)
(* of two workers that are started or whose process has tests to run, the  *)
(* devices differ, in spite of overlapping topologies, workers that die    *)
(* and a monitor that declares them dead early.                            *)
(* The code: free_devices and its updates in finish_node_locked.           *)
DevicesExclusive == \A w \in Worker :
    Holds(w) \/ RunsTests(w) =>
        /\ Devices(w) \cap wa.free = {}
        /\ \A v \in Worker \ {w} : Holds(v) \/ RunsTests(v) => Devices(v) \cap Devices(w) = {}

(* No device gets lost: each is free, excluded or used by a worker that    *)
(* will bring it back (finish_node_locked).                                *)
DevicesAccounted == \A w \in Worker : \A d \in Devices(w) :
    d \in wa.free \cup wa.out \/ \E v \in Worker : Holds(v) /\ d \in Devices(v)

Queued(t) == {w \in Worker : t \in ToSet(wa.queue[w])}

(* No test gets lost or runs twice: while its module is pending nobody has *)
(* it, then one node's list has it until it was run or its node's end was  *)
(* handled, which reports it as not executed.                              *)
TestsAccounted == \A m \in Module : \A t \in Tests(m) :
    IF m \in wa.main THEN Queued(t) = {} /\ t \notin wa.ran \cup wa.nes
    ELSE /\ Cardinality(Queued(t)) <= 1
         /\ Queued(t) # {} \/ t \in wa.ran \cup wa.nes
         /\ t \in wa.ran => Queued(t) = {}

Over == \A w \in Worker : proc[w].phase \in {"gone", "buried"}

(* A module that is still pending when the run is over had only nodes that *)
(* died or were excluded: a worker is told to shut down, or finished       *)
(* early, only when no module is left for it.                              *)
NothingLeftBehind ==
    Over => \A m \in wa.main : \A w \in NodesOf(m) :
                proc[w].phase = "buried" \/ wa.excluded[w] # 0

Waiting(w) == w \notin wa.started /\ wa.completed[w] = "False"
BedLost == \E w \in Worker : Waiting(w) /\ BedOf(w) \subseteq wa.out

(* Every run ends, whichever processes die, unless a worker is left that   *)
(* waits although all devices of its testbed have been excluded: apart     *)
(* from that no waiting worker stays behind when the last running one has  *)
(* finished (finish_node_locked).                                          *)
RunEnds == <>Over \/ <>[]BedLost
=============================================================================
