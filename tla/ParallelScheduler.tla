--------------------------- MODULE ParallelScheduler ---------------------------
(***************************************************************************)
(* The engine of SRPTO (srpto/scheduler/engine.py, class                   *)
(* ParallelScheduler) on top of its DUT pool: run() submits one worker per *)
(* script to a thread pool; a worker registers its request, polls the pool *)
(* until it gets its DUTs, writes a workspace with a testbed that names    *)
(* them only, runs the script as a subprocess, polls it, and returns the   *)
(* DUTs; run() collects the workers and the command line turns the results *)
(* into an exit code.                                                      *)
(*                                                                         *)
(* pc[w] is the place of worker w in _run_one_script:                      *)
(*   queued     in the queue of the executor                               *)
(*   register   shown as waiting, request not registered yet               *)
(*   check      at the head of the loop of acquire: stop event, deadline   *)
(*   try        past these two, about to call _try_allocate                *)
(*   abandon    acquire returned None, shown as cancelled                  *)
(*   allocated  acquire returned its DUTs                                  *)
(*   dryrun     shown as running, nothing to launch                        *)
(*   prepare    shown as running, workspace not written yet                *)
(*   launch     workspace written, about to start the subprocess           *)
(*   poll       in the loop of _run_process, at the check of the stop event*)
(*   reap       past that check, about to poll the subprocess              *)
(*   finish     the subprocess has a return code, not shown yet            *)
(*   unregister at the head of the finally block, holding DUTs             *)
(*   scrub      about to scrub its DUTs                                    *)
(*   release    about to return them                                       *)
(*   returned   the worker has returned or raised                          *)
(*   collected  run() has taken its future                                 *)
(***************************************************************************)
EXTENDS DUTPool, ConflictDetector

CONSTANTS
    ScriptPaths,    \* the script_paths argument of run, in order
    BaseName,       \* os.path.basename of each path
    Workloads,      \* what the tagger may resolve the paths to
    MaxWorkers,     \* cfg.max_workers
    AcquireTimeouts,\* what cfg.acquire_timeout > 0 may be
    DryRun,         \* cfg.dry_run
    Scrub,          \* cfg.dut_scrub_cmd is set
    MaxClock        \* bound on the seconds of the clock that names workspaces

Worker == DOMAIN ScriptPaths
Path == {ScriptPaths[w] : w \in Worker}
Name(w) == BaseName[ScriptPaths[w]]
Workspace == ScriptName \X (0 .. MaxClock)

ASSUME SchedulerAssumption ==
    /\ Worker = 1 .. Len(ScriptPaths) /\ Worker # {}
    /\ BaseName \in [Path -> ScriptName]
    /\ Workloads \subseteq [Path -> ResourceRequirement]
    /\ MaxWorkers \in Nat \ {0}
    /\ AcquireTimeouts \subseteq BOOLEAN /\ {DryRun, Scrub} \subseteq BOOLEAN
    /\ MaxClock \in Nat

VARIABLES
    requirements, \* by path, resolved before any worker starts
    timed,        \* cfg.acquire_timeout > 0
    stop,         \* _stop_event
    status,       \* _results[path].status
    pc,           \* where each worker is
    expired,      \* the deadline of each worker's acquire has passed
    duts,         \* allocated: the DUTs the worker still has to return
    raised,       \* the worker left by an exception
    rc,           \* what _run_process returned, as ok or not
    proc,         \* the subprocess of each worker
    sees,         \* the devices in the testbed file the subprocess has read
    workspace,    \* the directory of each worker: its name and its second
    subset,       \* content of testbed_subset.yaml, by directory
    now,          \* int(time.time())
    exitCode      \* of the command line; -1 while run() has not returned

workerVars == <<pc, expired, duts, raised, rc, workspace>>
processVars == <<proc, sees>>
config == <<requirements, timed>>
runVars == <<config, stop, status, subset, now, exitCode>>
vars == <<poolVars, workerVars, processVars, runVars>>

Req(w) == requirements[ScriptPaths[w]]

\* An idle pool can serve every request of the run.
Servable == \A p \in Path : IdlePoolServes(requirements[p])

PC == {"queued", "register", "check", "try", "abandon", "allocated", "dryrun", "prepare",
       "launch", "poll", "reap", "finish", "unregister", "scrub", "release",
       "returned", "collected"}

\* Between the return of acquire and the return of release.
HoldingPC == {"allocated", "dryrun", "prepare", "launch", "poll", "reap", "finish",
              "unregister", "scrub", "release"}
Holding(w) == pc[w] \in HoldingPC

\* Between register_pending and unregister_pending.
RegisteredPC == {"check", "try", "abandon"} \cup (HoldingPC \ {"scrub", "release"})
Registered(w) == pc[w] \in RegisteredPC

\* After unregister_pending.
GonePC == {"scrub", "release", "returned", "collected"}

Waiting(w) == pc[w] \in {"check", "try"}
Active(w) == pc[w] \notin {"queued", "returned", "collected"}
Alive(w) == proc[w] \in {"booting", "running", "dying"}

TypeOK ==
    /\ PoolTypeOK
    /\ requirements \in [Path -> ResourceRequirement]
    /\ timed \in BOOLEAN
    /\ stop \in BOOLEAN
    /\ status \in [Path -> {"queued", "waiting", "running", "done", "failed", "cancelled"}]
    /\ pc \in [Worker -> PC]
    /\ expired \in [Worker -> BOOLEAN]
    /\ duts \in [Worker -> SUBSET Dut]
    /\ raised \in [Worker -> BOOLEAN]
    /\ rc \in [Worker -> {"none", "zero", "nonzero"}]
    /\ proc \in [Worker -> {"none", "booting", "running", "dying", "passed", "broken"}]
    /\ sees \in [Worker -> SUBSET Dut]
    /\ workspace \in [Worker -> Workspace]
    /\ subset \in [Workspace -> SUBSET Dut]
    /\ now \in 0 .. MaxClock
    /\ exitCode \in -1 .. 1

Init ==
    /\ PoolInit
    /\ requirements \in Workloads
    /\ timed \in AcquireTimeouts
    /\ stop = FALSE
    /\ status = [p \in Path |-> "queued"]
    /\ pc = [w \in Worker |-> "queued"]
    /\ expired = [w \in Worker |-> FALSE]
    /\ duts = [w \in Worker |-> {}]
    /\ raised = [w \in Worker |-> FALSE]
    /\ rc = [w \in Worker |-> "none"]
    /\ proc = [w \in Worker |-> "none"]
    /\ sees = [w \in Worker |-> {}]
    /\ workspace = [w \in Worker |-> <<Name(w), 0>>]
    /\ subset = [dir \in Workspace |-> {}]
    /\ now = 0
    /\ exitCode = -1

Goto(w, from, to) ==
    /\ pc[w] = from
    /\ pc' = [pc EXCEPT ![w] = to]

Show(w, s) == status' = [status EXCEPT ![ScriptPaths[w]] = s]

-----------------------------------------------------------------------------
(* A worker up to the return of acquire.                                   *)

\* A thread of the executor takes the oldest submitted script.
Start(w) ==
    /\ \A v \in 1 .. w - 1 : pc[v] # "queued"
    /\ Cardinality({v \in Worker : Active(v)}) < MaxWorkers
    /\ Goto(w, "queued", "register")
    /\ Show(w, "waiting")
    /\ UNCHANGED <<poolVars, expired, duts, raised, rc, workspace, processVars,
                   config, stop, subset, now, exitCode>>

Register(w) ==
    /\ Goto(w, "register", "check")
    /\ RegisterPending(Req(w).count)
    /\ UNCHANGED <<expired, duts, raised, rc, workspace, processVars, runVars>>

\* Mutants: one of the two checks is missing.
MustGiveUpOnStop(w) == stop
MustGiveUpOnDeadline(w) == expired[w]

\* The two checks at the head of the loop; either makes acquire return None.
MustGiveUp(w) == stop \/ expired[w]

GiveUp(w) ==
    /\ MustGiveUp(w)
    /\ Goto(w, "check", "abandon")
    /\ Show(w, "cancelled")
    /\ UNCHANGED <<poolVars, expired, duts, raised, rc, workspace, processVars,
                   config, stop, subset, now, exitCode>>

GoOn(w) ==
    /\ ~MustGiveUp(w)
    /\ Goto(w, "check", "try")
    /\ UNCHANGED <<poolVars, expired, duts, raised, rc, workspace, processVars, runVars>>

Acquire(w) ==
    /\ Goto(w, "try", "allocated")
    /\ \E d \in SUBSET Dut :
          /\ TryAllocate(Name(w), Req(w), d)
          /\ duts' = [duts EXCEPT ![w] = d]
    /\ UNCHANGED <<expired, raised, rc, workspace, processVars, runVars>>

TryAgain(w) ==
    /\ ~CanAllocate(Req(w))
    /\ Goto(w, "try", "check")
    /\ UNCHANGED <<poolVars, expired, duts, raised, rc, workspace, processVars, runVars>>

-----------------------------------------------------------------------------
(* A worker that has its DUTs, up to the finally block.                    *)

ShowRunning(w) ==
    /\ Goto(w, "allocated", IF DryRun THEN "dryrun" ELSE "prepare")
    /\ Show(w, "running")
    /\ UNCHANGED <<poolVars, expired, duts, raised, rc, workspace, processVars,
                   config, stop, subset, now, exitCode>>

FinishDryRun(w) ==
    /\ Goto(w, "dryrun", "unregister")
    /\ Show(w, "done")
    /\ UNCHANGED <<poolVars, expired, duts, raised, rc, workspace, processVars,
                   config, stop, subset, now, exitCode>>

\* Mutant: the subprocess gets the testbed of the run.
WriteWholeTestbed(w) ==
    /\ Goto(w, "prepare", "launch")
    /\ workspace' = [workspace EXCEPT ![w] = <<Name(w), now>>]
    /\ subset' = [subset EXCEPT ![<<Name(w), now>>] = Dut]
    /\ UNCHANGED <<poolVars, expired, duts, raised, rc, processVars,
                   config, stop, status, now, exitCode>>

WriteWorkspace(w) ==
    /\ Goto(w, "prepare", "launch")
    /\ workspace' = [workspace EXCEPT ![w] = <<Name(w), now>>]
    /\ subset' = [subset EXCEPT ![<<Name(w), now>>] = duts[w]]
    /\ UNCHANGED <<poolVars, expired, duts, raised, rc, processVars,
                   config, stop, status, now, exitCode>>

Launch(w) ==
    /\ Goto(w, "launch", "poll")
    /\ proc' = [proc EXCEPT ![w] = "booting"]
    /\ UNCHANGED <<poolVars, expired, duts, raised, rc, workspace, sees, runVars>>

\* Writing the workspace or starting the subprocess raises.
Fail(w) ==
    /\ \/ Goto(w, "prepare", "unregister")
       \/ Goto(w, "launch", "unregister")
    /\ raised' = [raised EXCEPT ![w] = TRUE]
    /\ Show(w, "failed")
    /\ UNCHANGED <<poolVars, expired, duts, rc, workspace, processVars,
                   config, stop, subset, now, exitCode>>

\* The stop event is set: terminate, wait 5 s, kill without waiting, return -1
\* whatever the subprocess returned.
KillProcess(w) ==
    /\ stop
    /\ Goto(w, "poll", "finish")
    /\ rc' = [rc EXCEPT ![w] = "nonzero"]
    /\ \/ /\ Alive(w)
          /\ \E p \in {"broken", "dying"} : proc' = [proc EXCEPT ![w] = p]
       \/ /\ ~Alive(w)
          /\ UNCHANGED proc
    /\ UNCHANGED <<poolVars, expired, duts, raised, workspace, sees, runVars>>

PassStopCheck(w) ==
    /\ ~stop
    /\ Goto(w, "poll", "reap")
    /\ UNCHANGED <<poolVars, expired, duts, raised, rc, workspace, processVars, runVars>>

Reap(w) ==
    /\ \/ /\ Alive(w)
          /\ Goto(w, "reap", "poll")
          /\ UNCHANGED rc
       \/ /\ ~Alive(w)
          /\ Goto(w, "reap", "finish")
          /\ rc' = [rc EXCEPT ![w] = IF proc[w] = "passed" THEN "zero" ELSE "nonzero"]
    /\ UNCHANGED <<poolVars, expired, duts, raised, workspace, processVars, runVars>>

ShowOutcome(w) ==
    /\ Goto(w, "finish", "unregister")
    /\ Show(w, CASE rc[w] = "zero" -> "done"
                 [] rc[w] # "zero" /\ stop -> "cancelled"
                 [] rc[w] # "zero" /\ ~stop -> "failed")
    /\ UNCHANGED <<poolVars, expired, duts, raised, rc, workspace, processVars,
                   config, stop, subset, now, exitCode>>

-----------------------------------------------------------------------------
(* The finally block.                                                      *)

\* A worker without a DUT has nothing to scrub and does not call release.
Unregister(w) ==
    /\ \/ duts[w] = {} /\ Goto(w, "unregister", "returned")
       \/ duts[w] # {} /\ Goto(w, "unregister", IF Scrub THEN "scrub" ELSE "release")
       \/ Goto(w, "abandon", "returned")
    /\ UnregisterPending(Req(w).count)
    /\ UNCHANGED <<expired, duts, raised, rc, workspace, processVars, runVars>>

\* Failures and timeouts of the scrub command are ignored.
ScrubDuts(w) ==
    /\ Goto(w, "scrub", "release")
    /\ UNCHANGED <<poolVars, expired, duts, raised, rc, workspace, processVars, runVars>>

ReleaseDuts(w) ==
    /\ Goto(w, "release", "returned")
    /\ Release(Name(w), Req(w), duts[w])
    /\ duts' = [duts EXCEPT ![w] = {}]
    /\ UNCHANGED <<expired, raised, rc, workspace, processVars, runVars>>

-----------------------------------------------------------------------------
(* run() and the command line.                                             *)

\* Mutant: a worker that did not pass is marked as failed.
CollectAsFailed(w) ==
    /\ Goto(w, "returned", "collected")
    /\ IF rc[w] # "zero" THEN Show(w, "failed") ELSE UNCHANGED status
    /\ UNCHANGED <<poolVars, expired, duts, raised, rc, workspace, processVars,
                   config, stop, subset, now, exitCode>>

\* as_completed yields the future; an exception marks the script as failed.
Collect(w) ==
    /\ Goto(w, "returned", "collected")
    /\ IF raised[w] THEN Show(w, "failed") ELSE UNCHANGED status
    /\ UNCHANGED <<poolVars, expired, duts, raised, rc, workspace, processVars,
                   config, stop, subset, now, exitCode>>

\* Mutant: all instead of any.
ExitCodeAll == IF \A p \in Path : status[p] = "failed" THEN 1 ELSE 0

ExitCode == IF \E p \in Path : status[p] = "failed" THEN 1 ELSE 0

Exit ==
    /\ exitCode = -1
    /\ \A w \in Worker : pc[w] = "collected"
    /\ exitCode' = ExitCode
    /\ UNCHANGED <<poolVars, workerVars, processVars, config, stop, status, subset, now>>

-----------------------------------------------------------------------------
(* The environment: the caller of stop(), the clock and the subprocesses.  *)

Stop ==
    /\ ~stop /\ exitCode = -1
    /\ stop' = TRUE
    /\ UNCHANGED <<poolVars, workerVars, processVars, config, status, subset, now, exitCode>>

Tick ==
    /\ now < MaxClock /\ exitCode = -1
    /\ now' = now + 1
    /\ UNCHANGED <<poolVars, workerVars, processVars, config, stop, status, subset, exitCode>>

PassDeadline(w) ==
    /\ timed /\ Waiting(w) /\ ~expired[w]
    /\ expired' = [expired EXCEPT ![w] = TRUE]
    /\ UNCHANGED <<poolVars, pc, duts, raised, rc, workspace, processVars, runVars>>

\* The test framework reads the testbed file it was given.
ReadTestbed(w) ==
    /\ proc[w] = "booting"
    /\ proc' = [proc EXCEPT ![w] = "running"]
    /\ sees' = [sees EXCEPT ![w] = subset[workspace[w]]]
    /\ UNCHANGED <<poolVars, workerVars, runVars>>

EndProcess(w) ==
    /\ \/ proc[w] = "running" /\ \E p \in {"passed", "broken"} : proc' = [proc EXCEPT ![w] = p]
       \/ proc[w] \in {"booting", "dying"} /\ proc' = [proc EXCEPT ![w] = "broken"]
    /\ UNCHANGED <<poolVars, workerVars, sees, runVars>>

-----------------------------------------------------------------------------
WorkerStep(w) ==
    \/ Start(w) \/ Register(w) \/ GiveUp(w) \/ GoOn(w) \/ Acquire(w) \/ TryAgain(w)
    \/ ShowRunning(w) \/ FinishDryRun(w) \/ WriteWorkspace(w) \/ Launch(w) \/ Fail(w)
    \/ KillProcess(w) \/ PassStopCheck(w) \/ Reap(w) \/ ShowOutcome(w)
    \/ Unregister(w) \/ ScrubDuts(w) \/ ReleaseDuts(w)

ProcessStep(w) == ReadTestbed(w) \/ EndProcess(w)

\* The program has ended; TLC is not to report this as a deadlock.
Ended == exitCode # -1 /\ (\A w \in Worker : ~Alive(w)) /\ UNCHANGED vars

Next ==
    \/ \E w \in Worker : WorkerStep(w) \/ ProcessStep(w) \/ PassDeadline(w) \/ Collect(w)
    \/ Exit \/ Stop \/ Tick \/ Ended

Spec == Init /\ [][Next]_vars

\* Every thread keeps running, deadlines pass and every script ends by itself.
\* Nothing makes a caller call stop().
Fairness ==
    /\ \A w \in Worker : /\ WF_vars(WorkerStep(w))
                         /\ WF_vars(ProcessStep(w))
                         /\ WF_vars(PassDeadline(w))
                         /\ WF_vars(Collect(w))
    /\ WF_vars(Exit)

FairSpec == Spec /\ Fairness

-----------------------------------------------------------------------------
(* Safety properties.                                                      *)

\* Two scripts never hold the same DUT, and the slots of the pool agree with
\* the lists the workers got: what acquire hands out stays marked under the
\* name of its holder until that holder releases it, whatever the others do.
DutsExclusive ==
    \A w \in Worker : Holding(w) =>
        /\ \A d \in duts[w] : slot[d] = Name(w)
        /\ \A v \in Worker \ {w} : Holding(v) => duts[v] \cap duts[w] = {}

\* Whatever is locked is locked for a script that still holds its allocation:
\* no interleaving of allocations, failures and releases leaves a DUT, the PTF
\* host, the topology or a shared resource locked with nobody left to return it.
PoolAccounted ==
    /\ \A d \in Dut : slot[d] # NoOne =>
          \E w \in Worker : Holding(w) /\ d \in duts[w]
    /\ ptf # NoOne =>
          \E w \in Worker : Holding(w) /\ Req(w).ptf /\ Name(w) = ptf
    /\ topo # NoOne =>
          \E w \in Worker : Holding(w) /\ Req(w).exclusive /\ Name(w) = topo
    /\ \A res \in Shared : \A name \in holders[res] :
          \E w \in Worker : Holding(w) /\ res \in Req(w).shared /\ Name(w) = name

\* The guide: a conflict the detector reports as exclusive, ptf or
\* shared_resource is serialized at runtime, so that two scripts of such a
\* pair never hold their allocations at the same time.
ConflictsSerialized ==
    \A v, w \in Worker : v # w /\ Holding(v) /\ Holding(w) =>
        Compare(Req(v), Req(w)) \subseteq {"dut_overlap"}

\* The warnings of the pre-flight check are complete: a worker that the locks
\* (not the lack of DUTs) refuse waits for a script of a reported pair.
RefusalsPredicted ==
    \A w \in Worker : pc[w] = "try" /\ Blocked(Req(w)) =>
        \E v \in Worker : /\ Holding(v)
                          /\ <<ScriptPaths[v], ScriptPaths[w]>> \in CheckAll(requirements)

\* The anti-starvation guard never acts for a request that is not there: the
\* counter is 0 or the DUT count of a worker that has not unregistered yet.
PendingWitnessed ==
    maxPending > 0 => \E w \in Worker : Registered(w) /\ Req(w).count = maxPending

\* A worker that waits is protected by the guard, unless a worker that asked
\* for as many DUTs or more has unregistered and taken the guard with it.
GuardLostOnlyToPeer ==
    \A w \in Worker : Waiting(w) /\ maxPending < Req(w).count =>
        \E v \in Worker \ {w} :
            /\ pc[v] \in GonePC
            /\ Req(v).count >= Req(w).count

\* The pool never wedges: when nobody holds anything and somebody waits, the
\* guards of _try_allocate let one of those that wait through.
NoWedge ==
    /\ \A w \in Worker : pc[w] \in {"queued", "check", "try", "returned", "collected"}
    /\ \E w \in Worker : Waiting(w)
    => \E w \in Worker : Waiting(w) /\ CanAllocate(Req(w))

\* Two subprocesses that run, and that nobody has killed, never see the same
\* device: the testbed file each of them has read, and not the lock in the
\* parent, is what isolates the test sessions.
SessionsIsolated ==
    \A v, w \in Worker :
        v # w /\ proc[v] = "running" /\ proc[w] = "running" => sees[v] \cap sees[w] = {}

\* Exit code 0 means that no worker raised, and that no subprocess failed but
\* those of scripts that stop() has cancelled and that are shown as cancelled.
FailuresReported ==
    exitCode = 0 => \A w \in Worker :
        /\ ~raised[w]
        /\ rc[w] = "nonzero" => stop /\ status[ScriptPaths[w]] = "cancelled"

-----------------------------------------------------------------------------
(* Action and liveness properties.                                         *)

\* An outcome is final: once a script is shown as done, failed or cancelled no
\* later step of its worker or of run() shows it as anything else.
OutcomesFinal ==
    [][\A p \in Path : status[p] \in {"done", "failed", "cancelled"} =>
           status'[p] = status[p]]_vars

\* The comment on the guard: while a larger request waits, no smaller one gets
\* DUTs if that leaves fewer free than the larger one needs.
LargeNotOvertaken ==
    [][\A v, w \in Worker :
           /\ pc[v] = "try" /\ pc'[v] = "allocated"
           /\ Waiting(w) /\ Req(w).count > Req(v).count
           => Cardinality(Free') >= Req(w).count]_vars

\* run() returns, so that every script gets its turn and is collected, if an
\* idle pool can serve each request, or if a timeout bounds the waits.
RunReturns == timed \/ Servable ~> exitCode # -1

\* stop() ends the run, even when workers wait for what they can never get.
StopEndsRun == stop ~> exitCode # -1

-----------------------------------------------------------------------------
(* The promise of the pool to the scripts.  An exclusive script claims all  *)
(* DUTs and the PTF host, although it marks its own DUTs only.              *)

PtfHost == <<"ptf", "host">>

ClaimOf(req, d) ==
    ({"dut"} \X (IF req.exclusive THEN Dut ELSE d))
    \cup ({"shared"} \X req.shared)
    \cup (IF req.exclusive \/ req.ptf THEN {PtfHost} ELSE {})

Claim(w) == IF Holding(w) THEN ClaimOf(Req(w), duts[w]) ELSE {}

Locks == INSTANCE ResourceLocks WITH
    Client <- Worker,
    Resource <- ({"dut"} \X Dut) \cup ({"shared"} \X Shared) \cup {PtfHost},
    held <- [w \in Worker |-> Claim(w)]

\* The engine implements the abstract lock service.
ImplementsLocks == Locks!Spec
=============================================================================
