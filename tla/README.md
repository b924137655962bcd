# Formal models of the parallel test infrastructure of sonic-mgmt

The repository holds the test infrastructure and the tests of SONiC switches. Most of it
talks to devices. The parts that carry logic of their own, and that go wrong in ways no
unit test reaches, are those that let several tests share one lab: they allocate devices,
serialize conflicting tests, synchronize parallel runs and drive simulated hardware. This
project models these parts in TLA+, checks them with TLC and proves the most important
results with TLAPS. Four components are modelled: SRPTO, the scheduler of `src/srpto`; the
coordinator of parallel runs; the batch scheduler of SpyTest; and `parallel_run`.

## Inventory

| Component | State | Operations | Hard behaviour | What makes it correct |
|---|---|---|---|---|
| SRPTO DUT pool, `srpto/lock_manager/dut_lock.py` | holder of each DUT, of the PTF host, of the topology, of each shared resource; the largest pending request | `acquire` (poll, stop event, deadline), `_try_allocate`, `release`, `register_pending`, `unregister_pending` | threads polling one pool, two mutexes, a starvation guard | no DUT has two holders, nothing is left locked, all or nothing, the pool never wedges |
| SRPTO conflict detector, `srpto/scheduler/conflict.py` | none | `check_all`, `_compare` | must agree with what the pool does later | every refusal by a lock was announced |
| SRPTO engine, `srpto/scheduler/engine.py` | result by path, stop event, executor, one workspace and subprocess per worker | `run`, `stop`, `_run_one_script`, `_run_process`, `_scrub_duts` | threads, subprocesses, exceptions at any step, stop at any time | sessions see disjoint devices, outcomes are final, the run ends |
| SRPTO command line, `srpto/cli/srpto_run.py` | none | `main` | | failures reach the exit code |
| SRPTO resource tagger, `srpto/resource_tagger/tagger.py` | the resource map | `get_requirement`, `generate_resource_map_yaml` | three sources of one requirement, parsing with regular expressions | priority of the sources; a generated map means the same |
| SRPTO pytest plugin, `srpto/conftest_srpto.py` | one pool per pytest process | fixture `srpto_duts`, `pytest_collection_finish` | several processes under pytest-xdist | same as the pool |
| Parallel-run coordinator, `tests/common/helpers/parallel_utils.py` | a state file under a file lock, with a status and the acknowledgements of the followers | `set_new_status`, `ack_status`, waits with timeouts, failure statuses | processes, polling, lost and stale statuses, a leader that fails | a row of gates: nobody passes before all have arrived; the leader works on all DUTs alone; a failure stops all |
| Task runners, `tests/common/helpers/parallel.py`, `multi_thread_utils.py` | tasks, results, exceptions | `parallel_run`, `SafeThreadPoolExecutor` | timeouts, killed children, re-raised exceptions | every failure is reported, no process survives the call, it returns |
| Facts cache, `tests/common/cache/facts_cache.py` | memory and file copies of facts | `read`, `write`, `cleanup`, decorator | processes share the files | a read returns what was written |
| Mux simulator, `ansible/roles/vm_set/files/mux_simulator.py` | active side of each mux, counters, bridges and flows | HTTP handlers `GET`/`POST`/reset | one lock per mux, commands that fail half way | the flows agree with the active side |
| SpyTest batch scheduler, `spytest/spytest/batch.py` | nodes, buckets of testbeds, modules done and pending | xdist scheduling hooks | workers that die at any time, a monitor thread, topologies that overlap | devices are used by one worker at a time and come back, tests are neither lost nor run twice, the run ends |

How they interact: the engine owns one pool and one tagger, asks the detector for
warnings, and starts one thread per script; each thread calls the pool and starts one
SpyTest or pytest process, which learns its devices from a testbed file only. The plugin
owns a pool of its own. A pytest process may take part in a parallel run through the
coordinator and uses the task runners and the facts cache; dual-ToR tests call the mux
simulator over HTTP. The other parts (device wrappers, fixtures, playbooks, pipelines, the
tests themselves) are device I/O or data and are not modelled; `PROJECT.json` lists them.

## Plan

Done:

1. `DUTPool`, `ConflictDetector`, `ParallelScheduler`, with the abstract lock service
   `ResourceLocks`, the instances in `MCScheduler`, and the proofs in `DUTPoolProofs` and
   `ParallelSchedulerProofs` and `SchedulerOutcomeProofs`.
2. `ParallelCoordinator` with the abstract `Rendezvous` it implements, `MCCoordinator`, and
   the proofs in `ParallelCoordinatorProofs` and `CoordinatorPauseProofs`.
3. `BatchScheduler` and `MCBatch`, and the proofs in `BatchOperations` and
   `BatchSchedulerProofs`.
4. `ParallelRun` and the proofs in `ParallelRunProofs`.

Left:

5. `MuxSimulator` (per-mux lock, delete-then-add of flows and its failures),
   `SafeThreadPoolExecutor`, `ResourceTagger` as pure operators.

A specification is written so that it can be proved about: parameters are CONSTANTS with
named assumptions, every operation is one action, recursion is avoided.

## Modules

| Module | Content |
|---|---|
| `DUTPool` | state and operations of the pool: `PoolInit`, `TryAllocate`, `Release`, `RegisterPending`, `UnregisterPending`, and how DUTs are selected |
| `ConflictDetector` | `Compare` and `CheckAll` |
| `ParallelScheduler` | EXTENDS both: workers, subprocesses, `run()`, `stop()`; all properties |
| `ResourceLocks` | what the pool promises: claims granted at once, exclusively, returned at once |
| `MCScheduler` | testbeds, script lists and workloads for TLC |
| `DUTPoolProofs` | lemmas on the selection of DUTs |
| `ParallelSchedulerProofs` | the theorems about the scheduler |
| `SchedulerOutcomeProofs` | the theorems about statuses and the exit code |
| `Rendezvous` | what the coordinator promises: gates that are passed when all parties have arrived |
| `ParallelCoordinator` | the state file, leader and followers, deadlines, failures, kills |
| `MCCoordinator` | modes and reloads for TLC |
| `ParallelCoordinatorProofs` | the theorems about the coordinator's gates |
| `CoordinatorPauseProofs` | the theorems about its pauses: what stays on the last line |
| `BatchScheduler` | the scheduling hooks, workers, devices, the monitor, processes that die |
| `MCBatch` | testbeds and suites for TLC |
| `BatchOperations` | what the operations on the scheduler's data keep |
| `BatchSchedulerProofs` | the theorems about the batch scheduler |
| `ParallelRun` | the parent and the processes of `parallel_run` |
| `ParallelRunProofs` | the theorems about it |

Operators with a comment that begins with "Mutant" are faulty variants of the definition
that follows them; they take no part in the model and serve to test the properties.

### The pool

`slot`, `ptf`, `topo` and `holders` are the `held_by` fields of `DUTPool`; a busy flag is
the holder being different from `NoOne` (the code always sets the two together). The
operations that run under `_lock` are one step each. `_try_allocate` reads the counter of
the guard under a second lock; as it only reads it once, and no other operation needs both,
this is one step as well. `Selects` is declarative where the code enumerates: the first
combination, in the order of `itertools.combinations` over the free list, for which some
permutation gives every link requirement enough links (`FindDutsMatchingTopology`); the
first free names of `dut_names`; or the first free DUTs. `LinksFrom` and `Wired` keep that
a pair recorded in both orders is not added up. `dut_names` is a sequence, may repeat a name
and may name devices that do not exist. The result is a set: the order in which the code
returns DUTs (the permutation found) is used by nothing in the engine.

### The engine

A worker is a place (`pc`) in `_run_one_script`; the table at the head of the module names
the places. Places are separated wherever the code reads or writes state that another
thread may change: the stop event is checked in one step and `_try_allocate` is called in
the next, `_update_status` is a step of its own, the DUTs are acquired before the status is
shown, the workspace is written before the subprocess starts, and the subprocess reads it
later. `MustGiveUp` holds the two checks at the head of the loop of `acquire`. Time is
abstract: sleeps are steps that may take any time, the deadline of `acquire` is a flag that
may be raised at any moment of the wait (`PassDeadline`), and `now` is the integer second
that names workspaces. The executor starts workers in the order of submission, at most
`MaxWorkers` at a time. `KillProcess` is the branch of the stop event: terminate, wait five
seconds, kill, with both outcomes. `Fail` is an exception between the allocation and the
start of the subprocess. The `finally` block is `Unregister`, `ScrubDuts` and `ReleaseDuts`.
`Collect` is one iteration over `as_completed`, `Exit` the exit code of `main`.

Environment: `Stop` (nothing forces it), the clock, and the subprocess, which reads its
testbed file once (`ReadTestbed`) and ends with either verdict (`EndProcess`).

Left out: parsing of testbed files, command lines, the log tail, `get_status` and the
status callbacks (they read only), texts. An exception of the status output between
`acquire` and the workspace is not modelled, it would take the same way as `Fail`.

### The abstract specification

`ResourceLocks` has one variable, what each client holds, and two actions: `Grant` (the
client holds nothing, nobody holds any of what it claims, it gets all of it) and `Return`.
The refinement mapping (`Claim` in `ParallelScheduler`) is computed from the places of the
workers and not from the pool's own fields: a worker holds its claim from the return of
`acquire` to the return of `release`. An exclusive script claims all DUTs and the PTF host,
although the pool marks only those it selected.

### The coordinator

A parallel run starts one pytest process per DUT; one is the leader. Their only shared state
is a file whose last line holds a status and a count of acknowledgements; every operation
reads or appends a line under a file lock and is one step. `last` is that line; `wrote`, which
host has written which status, is what the older lines say, and only properties read it.
`pc[p]` is a place in the fixtures `sanity_check` (`prepare_parallel_run`) and
`core_dump_and_config_check` or in the decorator of synchronized reloads, with the status it is
about. `Proceed` is what follows a gate that was passed, `Abort` what follows the exception of a
gate that was not: pytest fails the test or the fixture and tears down what was set up.
`MarkAndWait`, `PassBarrier`, `Wake`, `LeaveEarly` are `mark_and_wait_for_status`; `CheckEarly`
is its `exit_if_early_complete` before the mark, a critical section of its own. `Expect`,
`Acknowledge`, `PassAcked` are `wait_and_ack_status_for_followers` (which reads the status once
to see it and once more to acknowledge it) and `wait_for_all_followers_ack`. `TimeOut` is any
`wait_until` that gives up. `Check`, `Collect` are the work of the leader on all DUTs, which may
find failures or raise; `SetVerdict` is its last word. `Crash` kills a process.

Time is abstract but for one thing: after a barrier a process sleeps for five polling intervals,
so that whoever can see the barrier complete sees it before a sleeper goes on (`Wake`).
`impatient` chooses whether deadlines pass at all: ten minutes to five days, against tests that
may be shorter or longer. In `RP_FIRST` mode the supervisor's process, the leader, runs alone to
its end before the line cards are started, and the handshakes are skipped
(`src/docs/tests/parallel_run`). A host reloads at most once (`Reloaders`); reboot uses the same
code with statuses of its own. `--skip_sanity` is not modelled.

`Rendezvous` knows nothing of files and counts: a party arrives at a gate at most once, and
passes only when all expected parties have arrived. The mapping takes `wrote` for the arrivals
and `past` for the passages.

### The batch scheduler

A testbed is cut into topologies of several sizes; each has a worker, an xdist node with a
process. The record `wa` of the model is the data that the code keeps under `wa.lock`. Each
hook is one step; where the code loops over workers (`ConsiderAll` in `FinishNode`) or nodes
(`Schedule`), a function `after` gives the data after each round. pytest-xdist is external and modelled from version 1.28's
contract with the hooks: a process runs the head of its inbox when it has two tests or was told
to shut down; reports and the end of a node arrive in their order; the controller tells all nodes
to shut down when `tests_finished` holds after an event. `MonitorFindsDead` is the zombie branch
of `check_worker_status`, from a thread of its own, between any two events. A process may die
after the collection, and may then name a device in its `node_dead` file.

`NodesOf` is `update_matching_nodes` with a module's fitting testbeds given as data: matches by
topology are computed from inventories, and which testbed fits which module is all that the
scheduling uses. Not modelled: reruns of failed tests, exact and relaxed matching modes, the
creation of bucket testbeds, restarts of nodes (off by default), `reverse_run_order`,
`SPYTEST_BATCH_NODE_PAUSE_TIME`, terminated stuck nodes, counters and reports. A test of a node that the monitor finished may be reported as not executed and then
still complete; `TestsAccounted` allows this.

### parallel_run

`proc` is the life of each process, `results` and `named` the entries of the shared dictionary,
`pipe` the exceptions sent and not read. Time is counted in waits: `timeouts` are those that took
their whole timeout, `rounds` those that ended before. `Start` is the check of the total time
with the loop that starts processes, `Gather` one `wait_procs` with all that follows it; the two
kill loops take one process per step (`Kill`, `Terminate`), while the other processes go on. What
a process comes to is chosen at the start (`fate`): it returns, raises an `Exception`, raises one
that does not fit into the pipe, calls `pytest.fail`, or hangs. `SIGTERM` is taken to kill at
once. The branch for an `os.kill` that fails cannot be reached, as a child that was not joined
keeps its pid. `parallel_run_threaded` is not modelled.

## Runs

Passing runs:

| Run | Instance | Properties |
|---|---|---|
| `SchedLocks` | 3 scripts, 3 workers, 3 DUTs in a chain of links, every choice of 3 out of 6 requirements, with repetition (PTF, exclusive, VLAN, named DUT, linked pair, three DUTs), stop at any time, dry run; 170k states | `TypeOK`, `DutsExclusive`, `PoolAccounted`, `ConflictsSerialized`, `RefusalsPredicted`, `PendingWitnessed`, `GuardLostOnlyToPeer`, `NoWedge`, `ImplementsLocks` |
| `SchedSessions` | 2 scripts with subprocesses over 2 DUTs asking for 0, 1 or 2, deadlines, failures, scrub, stop, clock of 2 seconds; 880k states | `SessionsIsolated`, `FailuresReported`, `OutcomesFinal` |
| `SchedEnds` | 3 scripts on 2 threads, all requests servable, dry run; 90k states | `RunReturns` |
| `SchedStop` | 2 scripts with subprocesses, some asking for more DUTs than there are, with and without timeout; 31k states | `StopEndsRun`, `RunReturns` |
| `Coordinator` | leader and 2 followers, both modes, each set of reloading hosts up to exchange of the line cards, with and without deadlines, one kill | `TypeOK`, `TestsAfterSetup`, `LeaderScope`, `ReloadTogether`, `BarrierStaysVisible`, `ImplementsRendezvous`, `AllEnd`, `FailedSetupEnds` |
| `Batch` | four setups: overlapping pairs in a testbed of three devices with two deaths and the monitor; two testbeds with a backup worker and the preparing tests, one death; a death that excludes a device; a testbed whose only device may be excluded; 200k states | `TypeOK`, `DevicesExclusive`, `DevicesAccounted`, `TestsAccounted`, `NothingLeftBehind`, `RunEnds` |
| `ParallelRun` | 3 nodes on 2 slots, every fate of each process, with and without timeout and `init_result`; 140k states | `TypeOK`, `NoSurvivors`, `SlotsAccounted`, `CleanIsComplete`, `Returns` |

The properties in words:

- `DutsExclusive`: what `acquire` hands out stays marked under the name of its holder until
  the holder releases it, and no other holder has any of it.
- `PoolAccounted`: everything locked is locked for a script that still has its allocation,
  whatever failures, stops and releases came in between.
- `ConflictsSerialized`, `RefusalsPredicted`: the pre-flight warnings and the locks agree.
  Pairs reported as exclusive, ptf or shared_resource never hold together, and a worker that
  the locks refuse waits for a script of a reported pair.
- `PendingWitnessed`, `GuardLostOnlyToPeer`: the counter of the anti-starvation guard always
  stands for a request that is still registered, and a waiting worker only loses it to one
  that asked for as many DUTs.
- `NoWedge`: when nobody holds anything and somebody waits, somebody can be served.
- `ImplementsLocks`: the refinement above, with all four kinds of resource.
- `SessionsIsolated`: the testbed files that running processes have read are disjoint.
- `FailuresReported`, `OutcomesFinal`: a failure reaches the exit code, unless `stop()` was called
  and the script is shown as cancelled; no later step of a
  worker or of `run()` replaces an outcome.
- `ImplementsRendezvous`, `TestsAfterSetup`, `LeaderScope`, `ReloadTogether`: the counts on the
  last line stand for processes that have come to the gate; nobody tests before everybody knows
  that the setup is over; the leader works on all DUTs alone, under a status that says so; a DUT
  reloads when all are ready to.
- `BarrierStaysVisible`: without deadlines, a barrier that all have marked is not overwritten
  while somebody polls for it. The end of the tests is left out when a reload was marked on some
  DUTs only: there a process may mark the reload between the check of another and its mark.
- `DevicesExclusive`, `DevicesAccounted`: a device is used by one worker at a time, by none while
  it is free, and is never lost.
- `TestsAccounted`, `NothingLeftBehind`: a test is pending, in one list, run, or reported as not
  executed; a module is left over only when all its nodes died or were excluded.
- `NoSurvivors`, `SlotsAccounted`, `CleanIsComplete`: `parallel_run` leaves no process behind,
  keeps to its slots, and a clean return means a result of every node. Excepted are nodes that a
  timeout kept from being started, and what `Unheard` lists: a process that called `pytest.fail`,
  one that raised after a wait had timed out, and one other than the first node's that was killed
  with `init_result`.
- `RunReturns`, `StopEndsRun`, `AllEnd`, `FailedSetupEnds`, `RunEnds`, `Returns`: liveness, see
  below. `RunEnds` excepts one hang of the code (`BedLost`), `Returns` another (`PipeFull`); both
  are met in the runs and described below.

Why the bounds are enough: the hazards need at most a holder, a waiter and a third script
that changes what the waiter sees (a smaller request for the guard, a conflicting one for
the locks); three DUTs are the least for which a linked pair, a named DUT and a request for
all of them compete. `SchedSessions` needs two sessions and two seconds to separate
workspaces. Dry runs leave the subprocess out where only the pool matters. No symmetry is
used: scripts are ordered by submission and DUTs by position. In `Coordinator` the hazards need
one who waits, one who has gone on and one who is late; one kill is enough, as a second only
removes one more of three. In `Batch` each setup has three sizes of topology, workers that share
devices both with a larger and with an equal one, modules of one and of two tests, and more
deaths than the handlers need to be called twice for one worker and once for another. The last
setup is the least in which a testbed loses all its devices while one of its workers waits.
`ParallelRun` has more nodes than slots, so that a process may outlive a wait next to one that
starts later. The invariants that matter are proved for every instance (next section), so that
the runs are also a test of the model.

`CHECK_DEADLOCK FALSE` is said where the system stops, in the runs of the coordinator, the batch
scheduler and `parallel_run`. The scheduler has a step `Ended` after its exit instead, so that its
runs find deadlocks.

Each of the following runs checks a statement of the repository that the code does not keep:

| Run | Property | Statement and behaviour |
|---|---|---|
| `LeakZeroDut` | `PoolAccounted` | "calls pool.release() when done" (`engine.py:22`). A requirement with `dut_count: 0` and a PTF host gets `[]`, which `if allocated:` takes for nothing to release: the PTF host stays locked. |
| `Overtaken` | `LargeNotOvertaken` | "While a 3-DUT test is waiting, the pool will not keep allocating 1-DUT tests if that would leave < 3 DUTs free" (`dut_lock.py:115`). When one of two requests of the largest size ends, the maximum is reset to 0, and a smaller request overtakes the other. |
| `LostAck` | `AckStaysVisible` | "Wait longer than the interval to prevent the situation where a host starts writing new status to the file while others are still within the waiting interval" (`parallel_utils.py:211`). `wait_for_all_followers_ack` makes no such pause: who sees the acknowledgements first may overwrite them while the others poll. |
| `BatchExclude` | `DevicesExclusive` | "search if all devices in the current worker are in free pool" (`batch.py:1989`). A waiting worker that is excluded puts all its devices on the free list, also those that another worker uses. |
| `RaisedReported` | `RaisedReported` | "would capture the exception thrown if the Process throws an exception" (`parallel.py:22`). Only an `Exception` is sent; `pytest.fail` raises another kind, and the parent does not look at the exit code. |

Further divergences were met, and have no run of their own:

- "It physically cannot see or touch busy DUTs" (`engine.py:441`): scripts of one file name that
  start in one second share a workspace, so that a session may read the testbed file of the
  other. `SessionsIsolated` fails with two such scripts; the theorem `Isolation` assumes that
  there are none.
- "Returns a list of ScriptResult, one per script" (`engine.py:296`): a path given twice has one
  result, and the success of one worker may hide the failure of the other from the exit code.
  `FailuresReported` fails with such a list; the theorem `Reporting` assumes that there is none.
- "Both explicitly request the same DUT name: Serialized" (`SRPTO_GUIDE.md:589`): a script takes
  the first free names of its list, so that two lists with a common name may run together.
- "Called when a worker acquires DUTs or is cancelled" (`dut_lock.py:243`, of
  `unregister_pending`): the engine calls it when the script has ended, and the guard holds
  smaller requests back while the large script runs (`PendingWitnessed` says so: its witness
  may hold its DUTs).
- Exit code 1 means "One or more scripts failed or were cancelled" (`SRPTO_GUIDE.md:790`), but
  cancelled scripts do not count, neither those of `stop()` (`FailuresReported` says that only
  they may hide a failure) nor those that timed out while waiting.
- "exclude the testbed if any of the needed device is in exclude pool" (`batch.py:1963`): the loop
  over waiting workers leaves out those of a testbed without a free device (line 1955) before it
  could exclude them. When the last device of a testbed is reported dead they stay active,
  `tests_finished` stays false and the run hangs. The last setup of `Batch` meets this hang, and
  `RunEnds` excepts it (`BedLost`).
- "explicitly check the processes exception to prevent any error miss" (`parallel.py:178`): the
  pipes of all workers are read, and closed, after every wait, so that who raises after a wait
  that has timed out is not heard. "If sanity check process is killed, it still has init results.
  set its failed to True" (line 108): with `init_result` the first entry of the dictionary is
  replaced, whoever was killed. `Unheard` lists both.
- "Force-read to prevent pipe hangs" (`parallel.py:181`): without a timeout the read comes after
  all processes have ended, and one whose exception does not fit into the pipe does not end before
  the read. `ParallelRun` meets this hang, and `Returns` excepts it (`PipeFull`).
- `exit_if_early_complete` and `_mark_status` (`parallel_utils.py:183`) are two critical sections.
  A process may end its tests in between; the mark of the reload then replaces its mark of
  `tests_completed`, and both wait for a deadline of hours (see `BarrierStaysVisible`).
- `SafeThreadPoolExecutor.__exit__` raises the first exception at once, contrary to "to wait for
  all tasks to finish" (`multi_thread_utils.py:19`). It is not modelled.
- After `kill()` the process is not waited for (`engine.py:570`), so that its DUTs may go to
  a worker that is already past the check of the stop event (`SessionsIsolated` therefore
  speaks of processes that nobody has killed).

## Fairness

`FairSpec` asks for weak fairness of each worker thread, of each subprocess, of the deadline
and of the collection by `run()`. Threads of one Python process are scheduled by the
operating system and the polling loops sleep for bounded times, so that an enabled step of
a thread is taken. Weak fairness of the polling worker is enough although a request may be
servable only now and then: when no other request competes any longer it stays servable.
That subprocesses end by themselves is an assumption about the scripts; without it no run
ends. Nothing forces `Stop`. `RunReturns` assumes a timeout, or that each request could be
served by an idle pool (`Servable`): without it the run hangs, which `StopEndsRun` shows
to be curable by `stop()`.

The processes of a parallel run, the tests and the checks go on until they end, and deadlines
pass (`FairSpec` of `ParallelCoordinator`: weak fairness of each process's steps and timeouts
together; kills are not assumed). `AllEnd` is about runs whose deadlines pass: without them a
killed process is waited for for ever. `FailedSetupEnds` needs no deadline. In `BatchScheduler`
the controller takes events while there are some and some process goes on while one can; deaths
and the monitor are not assumed, so that `RunEnds` does not rest on them. It excepts runs in which
a worker keeps waiting for a testbed that has lost all its devices. In `ParallelRun` the
parent and each process run; `Returns` assumes a timeout, or functions that end.

## Proofs

### The scheduler

`ParallelSchedulerProofs` and `SchedulerOutcomeProofs` prove, for every testbed, script list, workload, number of
workers and configuration that meets `PoolAssumption` and `SchedulerAssumption`:

| Theorem | Property | Further assumption |
|---|---|---|
| `Typing` | `TypeOK` | |
| `Exclusion` | `DutsExclusive` | |
| `Refinement` | `ImplementsLocks` | |
| `GuardForSomebody` | `PendingWitnessed` | |
| `GuardHeld` | `GuardLostOnlyToPeer` | |
| `Accounted` | `PoolAccounted` | every script asks for a DUT |
| `Serialization` | `ConflictsSerialized` | every script asks for a DUT |
| `Prediction` | `RefusalsPredicted` | every script asks for a DUT, no path twice |
| `Progress` | `NoWedge` | every script asks for a DUT, an idle pool can serve each request |
| `Isolation` | `SessionsIsolated` | no two scripts with one file name |
| `Reporting` | `FailuresReported` | no path twice |
| `Finality` | `OutcomesFinal` | no path twice |

The further assumptions are needed: `LeakZeroDut` and the first two further divergences above are
what happens without them.

The inductive invariants:

- `PendingInv` (the two properties of the counter) is inductive given the types. Only
  `Register` and `Unregister` touch it; `MoveKeepsPending` disposes of the other steps.
- `LockInv` strengthens `DutsExclusive`: a worker that does not hold an allocation has no
  DUTs, a holder is `Marked` in every field of the pool it claimed, and two holders are
  `Apart` (disjoint DUTs and shared resources, one PTF host, and next to an exclusive script
  only one with neither DUT nor PTF host). The marks are what the guards of `_try_allocate`
  test; without them a release might free what another worker has, and the refinement would
  fail at `Grant`. No assumption on file names is needed, as two scripts of one name never
  hold the same kind of resource.
- `AccountInv` adds that holders have DUTs (`SelectsSome` in `DUTPoolProofs`, from the
  cardinality guard and the well-foundedness of the naturals), so that the `finally` block
  calls `release`.
- `SessionInv` ties the content of a worker's workspace, from its writing to the end of the
  subprocess, to the DUTs the worker holds.
- `ResultInv` says that the status follows the worker up to its outcome (`Followed`), that who
  raised is shown as failed, and who has a failed subprocess as failed, or as cancelled after
  `stop()` (`Reported`), and that after the exit nobody is left to change a status. With a path
  listed twice the second run would overwrite the status of the first, so that neither part is inductive.
- `NoWedge` follows from `PoolAccounted` (nothing is held, so all is free) and
  `PendingWitnessed` (the guard either sleeps or stands for one of those that wait).
- The refinement maps `Acquire` to `Grant`, `ReleaseDuts` and the release of an empty
  allocation to `Return`, and every other step to a stutter.

### The coordinator

`ParallelCoordinatorProofs` and `CoordinatorPauseProofs` prove, for every number of processes,
both modes, any reloads, deadlines and kills, from `CoordinatorAssumption`:

| Theorem | Property |
|---|---|
| `Typing` | `TypeOK` |
| `SetupFirst` | `TestsAfterSetup` |
| `Scope` | `LeaderScope` |
| `Refinement` | `ImplementsRendezvous` |
| `ReloadsTogether` | `ReloadTogether` |
| `StaysVisible` | `BarrierStaysVisible` |

The inductive invariant ties the count on the last line to the processes it stands for. `Once`
says where a process can be when it has written a gate, so that none writes one twice; `Waiting`
that who waits has written and not passed; `Roles` and `Alone` who may be where, and that in
`RP_FIRST` mode the leader leaves no count behind. From these follows `Counted`: the count is at
most the number of hosts that have written the status of the last line, where a barrier counts
all and an announced status the followers only. With the required counts (`AllHere`,
`AllAckedHere`) whoever passes has all parties before it, although a count may be lower than the
number of lines written: a lost line delays a gate and never opens it. `SetupPhase`,
`TeardownPhase` and `TestPhase` follow the leader's work between the gates; `Quiet` says that
nobody marks meanwhile. There is one lemma per action.

That a count is no larger than the arrivals keeps a gate from opening too early. The last two
theorems need that it is no smaller: that no line is lost while somebody polls for it. This rests
on the pause after the last poll, holds only while no deadline has passed, and has an invariant of
its own, `PInv` (in `CInv` together with the one above and `Ready`, the part that deadlines do not
break):

- `Visible`: a barrier that is marked, and that not everybody has left, is on the last line with
  the exact number of its marks. `Together`: while one party has seen it complete and another
  polls, every party is at this barrier or dead, and no later barrier is marked. Each needs the
  other: a party goes on after its pause only when nobody can still see a complete count, which
  `Visible` turns into nobody polling (`Seen`); and what a party goes on to write overwrites
  nothing, as by `Together` the earlier barriers are closed (`NoOtherOpen`).
- `Gathered`, `Passed` and `Ordered` give the order of the barriers: who has marked one and no
  longer waits has seen it complete, and comes to the next only then. So who ends its pause first
  finds everybody there (`FirstToPass`).
- `Opened` and `Closing` say that the leader announces a status only before the tests or after
  their end (`LeaderHidden`), `Leftover` that in `RP_FIRST` mode it leaves no mark of its own on
  the last line.
- `Broken` is the exception: a party has ended its tests without a reload. Then who waits for the
  reload leaves, and the barrier of the reload need not stay visible (`Sound`). If all take part
  in the reload nobody can leave (`LeavesBroken`), which is why `ReloadTogether` has no such
  condition.

All steps but the mark, the end of a wait and the deadline are of one kind, `Move` within `Frame`,
and one lemma treats them together (`MoveKeeps`).

### The batch scheduler

`BatchSchedulerProofs` proves, for every set of setups that meets `SetupsAssumption`, hence for
every number of testbeds, workers, modules, tests and deaths, every order in which nodes arrive,
with and without the monitor:

| Theorem | Property | Further condition |
|---|---|---|
| `TypeCorrect` | `TypeOK` | |
| `ExclusiveDevices` | `DevicesExclusive` | the run excludes no devices (`~ setup.exclude`) |
| `AccountedDevices` | `DevicesAccounted` | |
| `AccountedTests` | `TestsAccounted` | |
| `NobodyLeavesWork` | `NothingLeftBehind` | |

The condition is needed, as `BatchExclude` shows. `SetupsAssumption` says in part what the code
makes sure of when it reads a testbed and a suite: each testbed has one worker for the whole of
it, which alone is started at first; ids of tests are unique; each node arrives once. The rest is
up to who writes the testbed files, and checked nowhere in `batch.py`: different testbeds have no
device in common.

The inductive invariant `Inv` relates the scheduler's data to the processes:

- `Accounted`: each device is free, excluded or held by a worker that is started and has not
  ended. `Disjoint`: held devices are not free, and are held once.
- `Placed`, `Once`: a test of a pending module is nowhere; of a module taken it is in exactly one
  list, or was run, or was reported.
- `InStep`: a node's list begins with the reports that the controller has not taken yet, followed,
  while the process runs, by what the process has still to run. So the report at the head is the
  head of the list, and what `remove` takes out is the right test. A process that has tests to
  run belongs to a worker that holds its devices: this carries `DevicesExclusive` from the
  scheduler's view over to the processes.
- `Ended`: the tests left in the list of a worker that has ended were reported.
- `Left`: a worker that finished well, was told to shut down while its process lives, or is gone,
  has no pending module or is excluded. It needs `Noted` (the applicable workers include those
  that a pending module waits for), as a waiting worker is passed over when it is not applicable.
  `Noted` holds only from the first round of `schedule()` on; `Fresh` describes what comes before.

The invariant is preserved in two layers. `BatchOperations` shows for each operation on the data
which parts it keeps, from the inside out: sending a node more tests (`Served`), a round of
`schedule()`, considering the waiting workers, the end of a worker (`Kept`). The loops are
functions on `0 .. n`; `ScheduleUnfolds` and `ConsiderAllUnfolds` show that these functions exist,
and `Induct`, from the well-foundedness of the naturals, carries a set of good rounds from the
first to the last. `BatchSchedulerProofs` adds the processes, one lemma per action. The order
inside an action matters: while a worker is ending, its tests are in its list and not yet
reported; `Ended(d, F)` excepts such workers until `ReportUnexecuted` has been reached.

### parallel_run

`ParallelRunProofs` proves, for every number of nodes and slots and every choice of fates, from
`RunAssumption`:

| Theorem | Property |
|---|---|
| `Typing` | `TypeOK` |
| `NobodySurvives` | `NoSurvivors` |
| `Slots` | `SlotsAccounted` |
| `CleanResults` | `CleanIsComplete` |

`Accounts` relates the two counters to the workers waited for: they do not count workers that are
about to be killed, and a wait always has somebody to wait for, which bounds the rounds. Without a
timeout only the end of the last task ends the loop, so that no node is left without a process.
`Known` says that every living process is among the workers, and in the sweep while the parent
kills. `Evidence` says what each process that has ended left behind: a result, an exception that
was read or waits in the pipe, or, once a wait has timed out, possibly nothing.

### Only model-checked

Every invariant and every action property of the passing runs is proved, and so are both
refinements. The liveness properties are only model-checked, as liveness under fairness is out of
the prover's reach.

## Not modelled

The mux simulator, the facts cache, the SRPTO plugin and tagger and `SafeThreadPoolExecutor`
could be modelled and are left for later: the first is a lock per mux around commands to a
switch, the second reads and writes one file at a time, the third repeats the pool's operations
in one process. The bulk of the repository - tests, device wrappers, CLI libraries of SpyTest,
playbooks, traffic generators - is sequential device I/O whose correctness lies in the texts
exchanged with devices, and has no state machine of its own to check. The share of the
repository's lines that the models cover is small for that reason.

## How to check

    tlc -config SchedLocks.cfg MCScheduler
    tlc -config Coordinator.cfg MCCoordinator
    tlc -config Batch.cfg MCBatch
    tlc -config ParallelRun.cfg ParallelRun
    tlapm ParallelSchedulerProofs.tla
    tlapm SchedulerOutcomeProofs.tla
    tlapm ParallelCoordinatorProofs.tla
    tlapm CoordinatorPauseProofs.tla
    tlapm BatchOperations.tla
    tlapm BatchSchedulerProofs.tla
    tlapm ParallelRunProofs.tla
