----------------------- MODULE ParallelSchedulerProofs -----------------------
(***************************************************************************)
(* Theorems about the engine and its DUT pool, for every testbed, script   *)
(* list, workload and configuration.                                       *)
(***************************************************************************)
EXTENDS ParallelScheduler, DUTPoolProofs

\* A script's name is a holder's name.
LEMMA NameType ==
    ASSUME NEW w \in Worker
    PROVE  ScriptPaths[w] \in Path /\ Name(w) \in ScriptName /\ Name(w) # NoOne
BY PoolAssumption, SchedulerAssumption DEF Name, Path

\* A worker's requirement is one.
LEMMA ReqType ==
    ASSUME TypeOK, NEW w \in Worker
    PROVE  /\ Req(w) \in ResourceRequirement
           /\ Req(w).count \in Nat
           /\ Req(w).ptf \in BOOLEAN
           /\ Req(w).exclusive \in BOOLEAN
           /\ Req(w).shared \in SUBSET Shared
BY NameType DEF TypeOK, Req, ResourceRequirement

-----------------------------------------------------------------------------
(* Type correctness.                                                       *)

\* Steps that move a worker and show a status keep the types.
LEMMA WorkerStepType ==
    ASSUME TypeOK, NEW w \in Worker, WorkerStep(w)
    PROVE  TypeOK'
<1> USE NameType, ReqType DEF TypeOK, PoolTypeOK, PC, Goto, Show, poolVars, config, runVars,
        processVars, workerVars
<1>1. CASE Start(w) BY <1>1 DEF Start
<1>2. CASE Register(w) BY <1>2 DEF Register, RegisterPending
<1>3. CASE GiveUp(w) BY <1>3 DEF GiveUp
<1>4. CASE GoOn(w) BY <1>4 DEF GoOn
<1>5. CASE Acquire(w) BY <1>5 DEF Acquire, TryAllocate, Commit
<1>6. CASE TryAgain(w) BY <1>6 DEF TryAgain
<1>7. CASE ShowRunning(w) BY <1>7 DEF ShowRunning
<1>8. CASE FinishDryRun(w) BY <1>8 DEF FinishDryRun
<1>9. CASE WriteWorkspace(w) BY <1>9 DEF WriteWorkspace, Workspace
<1>10. CASE Launch(w) BY <1>10 DEF Launch
<1>11. CASE Fail(w) BY <1>11 DEF Fail
<1>12. CASE KillProcess(w) BY <1>12 DEF KillProcess
<1>13. CASE PassStopCheck(w) BY <1>13 DEF PassStopCheck
<1>14. CASE Reap(w) BY <1>14 DEF Reap
<1>15. CASE ShowOutcome(w) BY <1>15 DEF ShowOutcome
<1>16. CASE Unregister(w) BY <1>16 DEF Unregister, UnregisterPending
<1>17. CASE ScrubDuts(w) BY <1>17 DEF ScrubDuts
<1>18. CASE ReleaseDuts(w) BY <1>18 DEF ReleaseDuts, Release
<1>19. QED
  BY <1>1, <1>2, <1>3, <1>4, <1>5, <1>6, <1>7, <1>8, <1>9, <1>10, <1>11, <1>12, <1>13,
     <1>14, <1>15, <1>16, <1>17, <1>18 DEF WorkerStep

\* Every variable of the engine and its pool keeps its type.
THEOREM Typing == Spec => []TypeOK
<1>1. Init => TypeOK
  <2> SUFFICES ASSUME Init PROVE TypeOK
    OBVIOUS
  <2>1. PoolTypeOK
    BY DEF Init, PoolInit, PoolTypeOK
  <2>2. requirements \in [Path -> ResourceRequirement] /\ timed \in BOOLEAN
    BY SchedulerAssumption DEF Init
  <2>3. workspace \in [Worker -> Workspace] /\ now \in 0 .. MaxClock
    <3>1. 0 \in 0 .. MaxClock
      BY SchedulerAssumption
    <3>2. \A w \in Worker : <<Name(w), 0>> \in Workspace
      BY <3>1, NameType DEF Workspace
    <3>3. QED BY <3>1, <3>2 DEF Init
  <2>4. /\ status \in [Path -> {"queued", "waiting", "running", "done", "failed", "cancelled"}]
        /\ pc \in [Worker -> PC]
        /\ rc \in [Worker -> {"none", "zero", "nonzero"}]
        /\ proc \in [Worker -> {"none", "booting", "running", "dying", "passed", "broken"}]
    BY DEF Init, PC
  <2>5. /\ expired \in [Worker -> BOOLEAN] /\ raised \in [Worker -> BOOLEAN] /\ stop \in BOOLEAN
        /\ duts \in [Worker -> SUBSET Dut] /\ sees \in [Worker -> SUBSET Dut]
        /\ subset \in [Workspace -> SUBSET Dut]
    BY DEF Init
  <2>6. exitCode \in -1 .. 1
    BY DEF Init
  <2>7. QED BY <2>1, <2>2, <2>3, <2>4, <2>5, <2>6 DEF TypeOK
<1>2. TypeOK /\ [Next]_vars => TypeOK'
  <2> SUFFICES ASSUME TypeOK, [Next]_vars PROVE TypeOK'
    OBVIOUS
  <2> USE NameType, SchedulerAssumption
      DEF TypeOK, PoolTypeOK, PC, Goto, Show, poolVars, config, runVars, processVars, workerVars
  <2>1. ASSUME NEW w \in Worker, WorkerStep(w) PROVE TypeOK'
    BY <2>1, WorkerStepType
  <2>2. ASSUME NEW w \in Worker, ReadTestbed(w) PROVE TypeOK'
    BY <2>2 DEF ReadTestbed
  <2>3. ASSUME NEW w \in Worker, EndProcess(w) PROVE TypeOK'
    <3>1. \E p \in {"passed", "broken"} : proc' = [proc EXCEPT ![w] = p]
      BY <2>3 DEF EndProcess
    <3>2. UNCHANGED <<poolVars, workerVars, sees, runVars>>
      BY <2>3 DEF EndProcess
    <3>3. QED BY <3>1, <3>2
  <2>4. ASSUME NEW w \in Worker, PassDeadline(w) PROVE TypeOK'
    BY <2>4 DEF PassDeadline
  <2>5. ASSUME NEW w \in Worker, Collect(w) PROVE TypeOK'
    <3>1. CASE raised[w] BY <2>5, <3>1 DEF Collect
    <3>2. CASE ~raised[w] BY <2>5, <3>2 DEF Collect
    <3>3. QED BY <3>1, <3>2
  <2>6. CASE Exit BY <2>6 DEF Exit, ExitCode
  <2>7. CASE Stop BY <2>7 DEF Stop
  <2>8. CASE Tick BY <2>8 DEF Tick
  <2>9. CASE UNCHANGED vars BY <2>9 DEF vars
  <2>10. QED
    BY <2>1, <2>2, <2>3, <2>4, <2>5, <2>6, <2>7, <2>8, <2>9 DEF Next, ProcessStep, Ended
<1>3. QED BY <1>1, <1>2, PTL DEF Spec

-----------------------------------------------------------------------------
(* The counter of the anti-starvation guard.                               *)

PendingInv == PendingWitnessed /\ GuardLostOnlyToPeer

\* A worker's move between places on the same side of register_pending and
\* unregister_pending does not touch what the counter means.
LEMMA MoveKeepsPending ==
    ASSUME TypeOK, PendingInv, NEW w \in Worker, NEW to \in PC,
           Goto(w, pc[w], to), UNCHANGED <<requirements, maxPending>>,
           pc[w] \in RegisteredPC => to \in RegisteredPC,
           to \in {"check", "try"} => pc[w] \in {"check", "try"},
           pc[w] \in GonePC => to \in GonePC
    PROVE  PendingInv'
<1> USE ReqType DEF Goto, TypeOK, PendingInv
<1>1. \A v \in Worker : Req(v)' = Req(v)
  BY DEF Req
<1>2. PendingWitnessed'
  BY <1>1 DEF PendingWitnessed, Registered
<1>3. GuardLostOnlyToPeer'
  BY <1>1 DEF GuardLostOnlyToPeer, Waiting
<1>4. QED BY <1>2, <1>3

LEMMA RegisterKeepsPending ==
    ASSUME TypeOK, PendingInv, NEW w \in Worker, Register(w)
    PROVE  PendingInv'
<1> USE ReqType DEF Goto, TypeOK, PoolTypeOK, PendingInv
<1>1. /\ \A v \in Worker : Req(v)' = Req(v)
      /\ maxPending' = IF Req(w).count > maxPending THEN Req(w).count ELSE maxPending
      /\ pc[w] = "register" /\ pc' = [pc EXCEPT ![w] = "check"]
  BY DEF Req, runVars, config, Register, RegisterPending
<1>2. PendingWitnessed'
  <2> SUFFICES ASSUME maxPending' > 0
               PROVE  \E v \in Worker : Registered(v)' /\ Req(v).count = maxPending'
    BY <1>1 DEF PendingWitnessed
  <2>1. CASE Req(w).count > maxPending
    BY <1>1, <2>1 DEF Registered, RegisteredPC
  <2>2. CASE ~(Req(w).count > maxPending)
    <3>1. PICK v \in Worker : Registered(v) /\ Req(v).count = maxPending
      BY <1>1, <2>2 DEF PendingWitnessed
    <3>2. v # w
      BY <1>1, <3>1 DEF Registered, RegisteredPC, HoldingPC
    <3>3. QED BY <1>1, <2>2, <3>1, <3>2 DEF Registered
  <2>3. QED BY <2>1, <2>2
<1>3. GuardLostOnlyToPeer'
  BY <1>1 DEF GuardLostOnlyToPeer, Waiting, GonePC
<1>4. QED BY <1>2, <1>3

LEMMA UnregisterKeepsPending ==
    ASSUME TypeOK, PendingInv, NEW w \in Worker, Unregister(w)
    PROVE  PendingInv'
<1> USE ReqType DEF Goto, TypeOK, PoolTypeOK, PendingInv
<1>1. /\ \A v \in Worker : Req(v)' = Req(v)
      /\ maxPending' = IF Req(w).count >= maxPending THEN 0 ELSE maxPending
      /\ pc[w] \in {"unregister", "abandon"}
      /\ \E to \in {"scrub", "release", "returned"} : pc' = [pc EXCEPT ![w] = to]
  BY DEF Req, runVars, config, Unregister, UnregisterPending
<1>2. PendingWitnessed'
  <2> SUFFICES ASSUME maxPending' > 0
               PROVE  \E v \in Worker : Registered(v)' /\ Req(v).count = maxPending
    BY <1>1 DEF PendingWitnessed
  <2>1. PICK v \in Worker : Registered(v) /\ Req(v).count = maxPending
    BY <1>1 DEF PendingWitnessed
  <2>2. v # w
    BY <1>1, <2>1
  <2>3. QED BY <1>1, <2>1, <2>2 DEF Registered
<1>3. GuardLostOnlyToPeer'
  <2> SUFFICES ASSUME NEW v \in Worker, Waiting(v)', maxPending' < Req(v).count
               PROVE  \E u \in Worker \ {v} : pc'[u] \in GonePC /\ Req(u).count >= Req(v).count
    BY <1>1 DEF GuardLostOnlyToPeer
  <2>1. v # w /\ Waiting(v)
    BY <1>1 DEF Waiting
  <2>2. CASE maxPending < Req(v).count
    BY <1>1, <2>1, <2>2 DEF GuardLostOnlyToPeer, GonePC
  <2>3. CASE maxPending >= Req(v).count
    <3>1. Req(w).count >= maxPending
      BY <1>1, <2>3
    <3>2. Req(w).count >= Req(v).count /\ pc'[w] \in GonePC
      BY <1>1, <2>3, <3>1 DEF GonePC
    <3>3. QED BY <2>1, <3>2
  <2>4. QED BY <2>2, <2>3
<1>4. QED BY <1>2, <1>3

LEMMA Pending == Spec => []PendingInv
<1>1. Init => PendingInv
  BY DEF Init, PoolInit, PendingInv, PendingWitnessed, GuardLostOnlyToPeer, Waiting
<1>2. TypeOK /\ PendingInv /\ [Next]_vars => PendingInv'
  <2> SUFFICES ASSUME TypeOK, PendingInv, [Next]_vars PROVE PendingInv'
    OBVIOUS
  <2> USE DEF PC, RegisteredPC, HoldingPC, GonePC, Goto, poolVars, config, runVars
  <2>1. ASSUME NEW w \in Worker, WorkerStep(w) PROVE PendingInv'
    <3> USE MoveKeepsPending DEF TypeOK
    <3>1. CASE Start(w) BY <3>1 DEF Start
    <3>2. CASE Register(w) BY <3>2, RegisterKeepsPending
    <3>3. CASE GiveUp(w) BY <3>3 DEF GiveUp
    <3>4. CASE GoOn(w) BY <3>4 DEF GoOn
    <3>5. CASE Acquire(w) BY <3>5 DEF Acquire, TryAllocate, Commit
    <3>6. CASE TryAgain(w) BY <3>6 DEF TryAgain
    <3>7. CASE ShowRunning(w) BY <3>7 DEF ShowRunning
    <3>8. CASE FinishDryRun(w) BY <3>8 DEF FinishDryRun
    <3>9. CASE WriteWorkspace(w) BY <3>9 DEF WriteWorkspace
    <3>10. CASE Launch(w) BY <3>10 DEF Launch
    <3>11. CASE Fail(w) BY <3>11 DEF Fail
    <3>12. CASE KillProcess(w) BY <3>12 DEF KillProcess
    <3>13. CASE PassStopCheck(w) BY <3>13 DEF PassStopCheck
    <3>14. CASE Reap(w) BY <3>14 DEF Reap
    <3>15. CASE ShowOutcome(w) BY <3>15 DEF ShowOutcome
    <3>16. CASE Unregister(w) BY <3>16, UnregisterKeepsPending
    <3>17. CASE ScrubDuts(w) BY <3>17 DEF ScrubDuts
    <3>18. CASE ReleaseDuts(w) BY <3>18 DEF ReleaseDuts, Release
    <3>19. QED
      BY <2>1, <3>1, <3>2, <3>3, <3>4, <3>5, <3>6, <3>7, <3>8, <3>9, <3>10, <3>11, <3>12,
         <3>13, <3>14, <3>15, <3>16, <3>17, <3>18 DEF WorkerStep
  <2>2. ASSUME NEW w \in Worker, Collect(w) PROVE PendingInv'
    BY <2>2, MoveKeepsPending DEF Collect, TypeOK
  <2>3. ASSUME UNCHANGED <<requirements, pc, maxPending>> PROVE PendingInv'
    BY <2>3 DEF PendingInv, PendingWitnessed, GuardLostOnlyToPeer, Registered, Waiting, Req
  <2>4. ASSUME NEW w \in Worker, ProcessStep(w) \/ PassDeadline(w) PROVE PendingInv'
    BY <2>3, <2>4 DEF ProcessStep, ReadTestbed, EndProcess, PassDeadline, workerVars
  <2>5. CASE Exit BY <2>3, <2>5 DEF Exit, workerVars
  <2>6. CASE Stop BY <2>3, <2>6 DEF Stop, workerVars
  <2>7. CASE Tick BY <2>3, <2>7 DEF Tick, workerVars
  <2>8. CASE UNCHANGED vars BY <2>3, <2>8 DEF vars, workerVars
  <2>9. QED BY <2>1, <2>2, <2>4, <2>5, <2>6, <2>7, <2>8 DEF Next, Ended
<1>3. QED BY <1>1, <1>2, Typing, PTL DEF Spec

\* The counter of the anti-starvation guard is 0 or the DUT count of a request
\* that has not been unregistered: the guard never acts for nobody.
THEOREM GuardForSomebody == Spec => []PendingWitnessed
<1>1. PendingInv => PendingWitnessed
  BY DEF PendingInv
<1>2. QED BY <1>1, Pending, PTL

\* A waiting worker only loses the protection of the guard to a worker that
\* asked for as many DUTs and has unregistered.
THEOREM GuardHeld == Spec => []GuardLostOnlyToPeer
<1>1. PendingInv => GuardLostOnlyToPeer
  BY DEF PendingInv
<1>2. QED BY <1>1, Pending, PTL

-----------------------------------------------------------------------------
(* The locks of the pool.                                                  *)

\* The pool carries the name of w on all that w holds.
Marked(w) ==
    /\ \A d \in duts[w] : slot[d] = Name(w)
    /\ Req(w).ptf => ptf = Name(w)
    /\ Req(w).exclusive => topo = Name(w)
    /\ \A res \in Req(w).shared : Name(w) \in holders[res]

\* v may hold its allocation together with w.
Apart(v, w) ==
    /\ duts[v] \cap duts[w] = {}
    /\ ~(Req(v).ptf /\ Req(w).ptf)
    /\ Req(v).shared \cap Req(w).shared = {}
    /\ Req(w).exclusive => ~Req(v).exclusive /\ ~Req(v).ptf /\ duts[v] = {}

LockInv ==
    /\ \A w \in Worker : ~Holding(w) => duts[w] = {}
    /\ \A w \in Worker : Holding(w) => Marked(w)
    /\ \A v, w \in Worker : v # w /\ Holding(v) /\ Holding(w) => Apart(v, w)

\* A worker's move that touches neither the pool nor the DUTs, and by which it
\* stops to hold its allocation only when that has no DUT.
LEMMA MoveKeepsLocks ==
    ASSUME TypeOK, LockInv, NEW w \in Worker, NEW to \in PC,
           Goto(w, pc[w], to), UNCHANGED <<requirements, duts, slot, ptf, topo, holders>>,
           to \in HoldingPC => pc[w] \in HoldingPC,
           to \notin HoldingPC => duts[w] = {}
    PROVE  LockInv'
<1>1. /\ \A v \in Worker : Req(v)' = Req(v)
      /\ \A v \in Worker : Holding(v)' => Holding(v)
      /\ \A v \in Worker : ~Holding(v)' => duts[v] = {}
  BY DEF Req, Holding, Goto, TypeOK, LockInv
<1>2. QED BY <1>1 DEF LockInv, Marked, Apart

LEMMA AcquireKeepsLocks ==
    ASSUME TypeOK, LockInv, NEW w \in Worker, Acquire(w)
    PROVE  LockInv'
<1>1. PICK d \in SUBSET Dut : TryAllocate(Name(w), Req(w), d) /\ duts' = [duts EXCEPT ![w] = d]
  BY DEF Acquire
<1>2. /\ \A v \in Worker : Req(v)' = Req(v)
      /\ ~Holding(w) /\ Holding(w)'
      /\ \A v \in Worker \ {w} : Holding(v)' <=> Holding(v)
  BY DEF Acquire, Goto, TypeOK, Holding, HoldingPC, Req, runVars, config
<1>3. /\ d \subseteq Free /\ ~Blocked(Req(w))
      /\ Commit(Name(w), Req(w), d)
  BY <1>1, SelectsFree DEF TryAllocate, Allocatable
<1>4. duts'[w] = d /\ \A v \in Worker \ {w} : duts'[v] = duts[v]
  BY <1>1 DEF TypeOK
<1> USE NameType, ReqType
<1>5. ASSUME NEW v \in Worker \ {w}, Holding(v)
      PROVE  Marked(v) /\ Marked(v)' /\ Apart(v, w)' /\ Apart(w, v)'
  <2>1. Marked(v)
    BY <1>5 DEF LockInv
  <2>2. duts[v] \cap d = {}
    BY <1>3, <2>1 DEF Marked, Free
  <2>3. /\ ~Req(v).exclusive
        /\ ~(Req(w).ptf /\ Req(v).ptf)
        /\ Req(v).shared \cap Req(w).shared = {}
        /\ Req(w).exclusive => duts[v] = {} /\ ~Req(v).ptf
    BY <1>3, <2>1 DEF Blocked, Free, Marked, TypeOK
  <2>4. Marked(v)'
    BY <1>2, <1>3, <1>4, <2>1, <2>2, <2>3 DEF Commit, Marked, TypeOK
  <2>5. Apart(v, w)' /\ Apart(w, v)'
    BY <1>2, <1>4, <2>2, <2>3 DEF Apart
  <2>6. QED BY <2>1, <2>4, <2>5
<1>6. Marked(w)'
  BY <1>2, <1>3, <1>4 DEF Commit, Marked, TypeOK
<1>7. ASSUME NEW u \in Worker \ {w}, NEW v \in Worker \ {w}, u # v, Holding(u), Holding(v)
      PROVE  Apart(u, v)'
  BY <1>2, <1>4, <1>7 DEF LockInv, Apart
<1>8. QED BY <1>2, <1>4, <1>5, <1>6, <1>7 DEF LockInv

LEMMA ReleaseKeepsLocks ==
    ASSUME TypeOK, LockInv, NEW w \in Worker, ReleaseDuts(w)
    PROVE  LockInv'
<1>1. /\ \A v \in Worker : Req(v)' = Req(v)
      /\ Holding(w) /\ ~Holding(w)'
      /\ \A v \in Worker \ {w} : Holding(v)' <=> Holding(v)
      /\ duts'[w] = {} /\ \A v \in Worker \ {w} : duts'[v] = duts[v]
  BY DEF ReleaseDuts, Goto, TypeOK, Holding, HoldingPC, Req, runVars, config
<1>2. Release(Name(w), Req(w), duts[w])
  BY DEF ReleaseDuts
<1> USE NameType, ReqType
<1>3. ASSUME NEW v \in Worker \ {w}, Holding(v)
      PROVE  Marked(v)'
  <2>1. Marked(v) /\ Apart(v, w) /\ Apart(w, v)
    BY <1>1, <1>3 DEF LockInv
  <2>2. QED BY <1>1, <1>2, <2>1 DEF Marked, Apart, Release, TypeOK
<1>4. ASSUME NEW u \in Worker \ {w}, NEW v \in Worker \ {w}, u # v, Holding(u), Holding(v)
      PROVE  Apart(u, v)'
  BY <1>1, <1>4 DEF LockInv, Apart
<1>5. QED BY <1>1, <1>3, <1>4 DEF LockInv

\* The locks of the pool exclude what they must, and the pool and its holders
\* agree on who holds what.
THEOREM Locking == Spec => []LockInv
<1>1. Init => LockInv
  BY DEF Init, LockInv, Holding, HoldingPC
<1>2. TypeOK /\ LockInv /\ [Next]_vars => LockInv'
  <2> SUFFICES ASSUME TypeOK, LockInv, [Next]_vars PROVE LockInv'
    OBVIOUS
  <2> USE DEF PC, HoldingPC, Goto, poolVars, config, runVars
  <2>1. ASSUME NEW w \in Worker, WorkerStep(w) PROVE LockInv'
    <3> USE MoveKeepsLocks DEF TypeOK
    <3>0. pc[w] \notin HoldingPC => duts[w] = {}
      BY DEF LockInv, Holding
    <3>1. CASE Start(w) BY <3>0, <3>1 DEF Start
    <3>2. CASE Register(w) BY <3>0, <3>2 DEF Register, RegisterPending
    <3>3. CASE GiveUp(w) BY <3>0, <3>3 DEF GiveUp
    <3>4. CASE GoOn(w) BY <3>0, <3>4 DEF GoOn
    <3>5. CASE Acquire(w) BY <3>5, AcquireKeepsLocks
    <3>6. CASE TryAgain(w) BY <3>0, <3>6 DEF TryAgain
    <3>7. CASE ShowRunning(w) BY <3>7 DEF ShowRunning
    <3>8. CASE FinishDryRun(w) BY <3>8 DEF FinishDryRun
    <3>9. CASE WriteWorkspace(w) BY <3>9 DEF WriteWorkspace
    <3>10. CASE Launch(w) BY <3>10 DEF Launch
    <3>11. CASE Fail(w) BY <3>11 DEF Fail
    <3>12. CASE KillProcess(w) BY <3>12 DEF KillProcess
    <3>13. CASE PassStopCheck(w) BY <3>13 DEF PassStopCheck
    <3>14. CASE Reap(w) BY <3>14 DEF Reap
    <3>15. CASE ShowOutcome(w) BY <3>15 DEF ShowOutcome
    <3>16. CASE Unregister(w) BY <3>0, <3>16 DEF Unregister, UnregisterPending
    <3>17. CASE ScrubDuts(w) BY <3>17 DEF ScrubDuts
    <3>18. CASE ReleaseDuts(w) BY <3>18, ReleaseKeepsLocks
    <3>19. QED
      BY <2>1, <3>1, <3>2, <3>3, <3>4, <3>5, <3>6, <3>7, <3>8, <3>9, <3>10, <3>11, <3>12,
         <3>13, <3>14, <3>15, <3>16, <3>17, <3>18 DEF WorkerStep
  <2>2. ASSUME NEW w \in Worker, Collect(w) PROVE LockInv'
    BY <2>2, MoveKeepsLocks DEF Collect, LockInv, Holding, TypeOK
  <2>3. ASSUME UNCHANGED <<requirements, pc, duts, slot, ptf, topo, holders>> PROVE LockInv'
    BY <2>3 DEF LockInv, Holding, Marked, Apart, Req
  <2>4. ASSUME NEW w \in Worker, ProcessStep(w) \/ PassDeadline(w) PROVE LockInv'
    BY <2>3, <2>4 DEF ProcessStep, ReadTestbed, EndProcess, PassDeadline, workerVars
  <2>5. CASE Exit BY <2>3, <2>5 DEF Exit, workerVars
  <2>6. CASE Stop BY <2>3, <2>6 DEF Stop, workerVars
  <2>7. CASE Tick BY <2>3, <2>7 DEF Tick, workerVars
  <2>8. CASE UNCHANGED vars BY <2>3, <2>8 DEF vars, workerVars
  <2>9. QED BY <2>1, <2>2, <2>4, <2>5, <2>6, <2>7, <2>8 DEF Next, Ended
<1>3. QED BY <1>1, <1>2, Typing, PTL DEF Spec

\* No DUT is held by two scripts, and the slots name its holder, whatever the
\* scripts ask for, and even if several have the same file name.
THEOREM Exclusion == Spec => []DutsExclusive
<1>1. LockInv => DutsExclusive
  BY DEF LockInv, Marked, Apart, DutsExclusive
<1>2. QED BY <1>1, Locking, PTL

-----------------------------------------------------------------------------
(* The engine implements the abstract lock service.                        *)

Held == [w \in Worker |-> Claim(w)]

\* What two scripts claim is disjoint if they may hold it together.
LEMMA ClaimsApart ==
    ASSUME NEW a, NEW b, NEW d, NEW e,
           d \cap e = {}, ~(a.ptf /\ b.ptf), a.shared \cap b.shared = {},
           a.exclusive => ~b.exclusive /\ ~b.ptf /\ e = {},
           b.exclusive => ~a.exclusive /\ ~a.ptf /\ d = {}
    PROVE  ClaimOf(a, d) \cap ClaimOf(b, e) = {}
<1> DEFINE DutsOf(req, f) == {"dut"} \X (IF req.exclusive THEN Dut ELSE f)
           HostOf(req) == IF req.exclusive \/ req.ptf THEN {PtfHost} ELSE {}
<1>1. DutsOf(a, d) \cap DutsOf(b, e) = {}
  OBVIOUS
<1>2. HostOf(a) \cap HostOf(b) = {}
  OBVIOUS
<1>3. QED BY <1>1, <1>2 DEF ClaimOf, PtfHost

LEMMA AcquireGrants ==
    ASSUME TypeOK, LockInv, LockInv', NEW w \in Worker, Acquire(w)
    PROVE  Locks!Grant(w, Claim(w)')
<1>1. /\ \A v \in Worker : Req(v)' = Req(v)
      /\ ~Holding(w) /\ Holding(w)'
      /\ \A v \in Worker \ {w} : (Holding(v)' <=> Holding(v)) /\ duts'[v] = duts[v]
  BY DEF Acquire, Goto, TypeOK, Holding, HoldingPC, Req, runVars, config
<1>2. ASSUME NEW v \in Worker \ {w} PROVE Claim(v)' = Claim(v)
  BY <1>1 DEF Claim
<1>3. Claim(w) = {}
  BY <1>1 DEF Claim
<1>4. ASSUME NEW v \in Worker \ {w} PROVE Claim(v) \cap Claim(w)' = {}
  <2>1. CASE Holding(v)
    <3>1. Apart(v, w)' /\ Apart(w, v)'
      BY <1>1, <2>1 DEF LockInv
    <3>2. ClaimOf(Req(v)', duts'[v]) \cap ClaimOf(Req(w)', duts'[w]) = {}
      BY <3>1, ClaimsApart DEF Apart
    <3>3. QED BY <1>1, <1>2, <2>1, <3>2 DEF Claim
  <2>2. CASE ~Holding(v)
    BY <2>2 DEF Claim
  <2>3. QED BY <2>1, <2>2
<1>5. Held' = [Held EXCEPT ![w] = Claim(w)']
  BY <1>2 DEF Held
<1>6. QED BY <1>3, <1>4, <1>5 DEF Locks!Grant, Held

LEMMA AcquireClaims ==
    ASSUME TypeOK, NEW w \in Worker, Acquire(w)
    PROVE  Claim(w)' \in SUBSET (({"dut"} \X Dut) \cup ({"shared"} \X Shared) \cup {PtfHost})
<1>1. PICK d \in SUBSET Dut : duts' = [duts EXCEPT ![w] = d]
  BY DEF Acquire
<1>2. Req(w)' = Req(w) /\ duts'[w] \in SUBSET Dut
  BY <1>1 DEF Acquire, Req, TypeOK, runVars, config
<1>3. Req(w).shared \in SUBSET Shared
  BY ReqType
<1>4. ClaimOf(Req(w)', duts'[w])
         \in SUBSET (({"dut"} \X Dut) \cup ({"shared"} \X Shared) \cup {PtfHost})
  BY <1>2, <1>3 DEF ClaimOf
<1>5. QED BY <1>4 DEF Claim

LEMMA NothingClaimed ==
    ASSUME Init, NEW w \in Worker
    PROVE  Claim(w) = {}
<1>1. ~Holding(w)
  BY DEF Init, Holding, HoldingPC
<1>2. QED BY <1>1 DEF Claim

\* A worker that stops to hold its allocation gives everything back.
LEMMA LeavingReturns ==
    ASSUME TypeOK, NEW w \in Worker, ~Holding(w)',
           \A v \in Worker \ {w} :
              (Holding(v)' <=> Holding(v)) /\ duts'[v] = duts[v] /\ Req(v)' = Req(v)
    PROVE  Locks!Return(w)
<1>1. Claim(w)' = {} /\ \A v \in Worker \ {w} : Claim(v)' = Claim(v)
  BY DEF Claim
<1>2. Held' = [Held EXCEPT ![w] = {}]
  BY <1>1 DEF Held
<1>3. QED BY <1>2 DEF Locks!Return, Held

\* A move between places on the same side of acquire and release is a stutter.
LEMMA MoveStutters ==
    ASSUME TypeOK, NEW w \in Worker, NEW to \in PC, Goto(w, pc[w], to),
           UNCHANGED <<requirements, duts>>, to \in HoldingPC <=> pc[w] \in HoldingPC
    PROVE  UNCHANGED Held
<1>1. \A v \in Worker : (Holding(v)' <=> Holding(v)) /\ Req(v)' = Req(v)
  BY DEF Goto, TypeOK, Holding, Req
<1>2. \A v \in Worker : Claim(v)' = Claim(v)
  BY <1>1 DEF Claim
<1>3. QED BY <1>2 DEF Held

\* The engine gives every script all it claims at once or nothing, gives it
\* nothing that another script has, and takes all of it back in one step.
THEOREM Refinement == Spec => ImplementsLocks
<1>1. Init => Locks!Init
  BY NothingClaimed DEF Locks!Init
<1>2. TypeOK /\ LockInv /\ LockInv' /\ [Next]_vars => [Locks!Next]_Held
  <2> SUFFICES ASSUME TypeOK, LockInv, LockInv', [Next]_vars PROVE [Locks!Next]_Held
    OBVIOUS
  <2> USE DEF PC, HoldingPC, Goto, poolVars, config, runVars, workerVars
  <2>1. ASSUME NEW w \in Worker, WorkerStep(w) PROVE [Locks!Next]_Held
    <3> USE MoveStutters DEF TypeOK
    <3>1. CASE Start(w) BY <3>1 DEF Start
    <3>2. CASE Register(w) BY <3>2 DEF Register, RegisterPending
    <3>3. CASE GiveUp(w) BY <3>3 DEF GiveUp
    <3>4. CASE GoOn(w) BY <3>4 DEF GoOn
    <3>5. CASE Acquire(w)
      <4>1. Locks!Grant(w, Claim(w)')
        BY <3>5, AcquireGrants
      <4>2. Claim(w)' \in SUBSET (({"dut"} \X Dut) \cup ({"shared"} \X Shared) \cup {PtfHost})
        BY <3>5, AcquireClaims
      <4>3. QED BY <4>1, <4>2 DEF Locks!Next
    <3>6. CASE TryAgain(w) BY <3>6 DEF TryAgain
    <3>7. CASE ShowRunning(w) BY <3>7 DEF ShowRunning
    <3>8. CASE FinishDryRun(w) BY <3>8 DEF FinishDryRun
    <3>9. CASE WriteWorkspace(w) BY <3>9 DEF WriteWorkspace
    <3>10. CASE Launch(w) BY <3>10 DEF Launch
    <3>11. CASE Fail(w) BY <3>11 DEF Fail
    <3>12. CASE KillProcess(w) BY <3>12 DEF KillProcess
    <3>13. CASE PassStopCheck(w) BY <3>13 DEF PassStopCheck
    <3>14. CASE Reap(w) BY <3>14 DEF Reap
    <3>15. CASE ShowOutcome(w) BY <3>15 DEF ShowOutcome
    <3>16. CASE Unregister(w)
      <4>1. CASE pc'[w] \in HoldingPC
        BY <3>16, <4>1 DEF Unregister
      <4>2. CASE pc'[w] \notin HoldingPC
        <5>1. Locks!Return(w)
          BY <3>16, <4>2, LeavingReturns DEF Unregister, Holding, Req
        <5>2. QED BY <5>1 DEF Locks!Next
      <4>3. QED BY <4>1, <4>2
    <3>17. CASE ScrubDuts(w) BY <3>17 DEF ScrubDuts
    <3>18. CASE ReleaseDuts(w)
      <4>1. Locks!Return(w)
        BY <3>18, LeavingReturns DEF ReleaseDuts, Holding, Req
      <4>2. QED BY <4>1 DEF Locks!Next
    <3>19. QED
      BY <2>1, <3>1, <3>2, <3>3, <3>4, <3>5, <3>6, <3>7, <3>8, <3>9, <3>10, <3>11, <3>12,
         <3>13, <3>14, <3>15, <3>16, <3>17, <3>18 DEF WorkerStep
  <2>2. ASSUME NEW w \in Worker, Collect(w) PROVE UNCHANGED Held
    BY <2>2, MoveStutters DEF Collect, TypeOK
  <2>3. ASSUME UNCHANGED <<requirements, pc, duts>> PROVE UNCHANGED Held
    BY <2>3 DEF Held, Claim, Holding, Req
  <2>4. ASSUME NEW w \in Worker, ProcessStep(w) \/ PassDeadline(w) PROVE UNCHANGED Held
    BY <2>3, <2>4 DEF ProcessStep, ReadTestbed, EndProcess, PassDeadline
  <2>5. CASE Exit BY <2>3, <2>5 DEF Exit
  <2>6. CASE Stop BY <2>3, <2>6 DEF Stop
  <2>7. CASE Tick BY <2>3, <2>7 DEF Tick
  <2>8. CASE UNCHANGED vars BY <2>3, <2>8 DEF vars
  <2>9. QED BY <2>1, <2>2, <2>4, <2>5, <2>6, <2>7, <2>8 DEF Next, Ended
<1>3. QED BY <1>1, <1>2, Typing, Locking, PTL DEF Spec, ImplementsLocks, Locks!Spec, Held

-----------------------------------------------------------------------------
(* Nothing is left behind.  This needs every script to ask for at least    *)
(* one DUT: release is not called for an empty allocation.                 *)

EachNeedsDuts == \A reqs \in Workloads : \A p \in Path : reqs[p].count > 0

AccountInv ==
    /\ requirements \in Workloads
    /\ \A w \in Worker : Holding(w) => duts[w] # {}
    /\ PoolAccounted

LEMMA MoveKeepsAccount ==
    ASSUME TypeOK, AccountInv, NEW w \in Worker, NEW to \in PC, Goto(w, pc[w], to),
           UNCHANGED <<requirements, duts, slot, ptf, topo, holders>>,
           to \in HoldingPC <=> pc[w] \in HoldingPC
    PROVE  AccountInv'
<1>1. \A v \in Worker : (Holding(v)' <=> Holding(v)) /\ Req(v)' = Req(v)
  BY DEF Goto, TypeOK, Holding, Req
<1>2. QED BY <1>1 DEF AccountInv, PoolAccounted

LEMMA AcquireKeepsAccount ==
    ASSUME EachNeedsDuts, TypeOK, AccountInv, NEW w \in Worker, Acquire(w)
    PROVE  AccountInv'
<1>1. PICK d \in SUBSET Dut : TryAllocate(Name(w), Req(w), d) /\ duts' = [duts EXCEPT ![w] = d]
  BY DEF Acquire
<1>2. /\ requirements' = requirements /\ \A v \in Worker : Req(v)' = Req(v)
      /\ ~Holding(w) /\ Holding(w)'
      /\ \A v \in Worker \ {w} : (Holding(v)' <=> Holding(v)) /\ duts'[v] = duts[v]
      /\ duts'[w] = d
  BY <1>1 DEF Acquire, Goto, TypeOK, Holding, HoldingPC, Req, runVars, config
<1>3. Commit(Name(w), Req(w), d)
  BY <1>1 DEF TryAllocate
<1> USE NameType, ReqType
<1>4. d # {}
  <2>1. Selects(Req(w), Free, d) /\ Free \in SUBSET Dut
    BY <1>1 DEF TryAllocate, Allocatable, Free
  <2>2. Req(w).count # 0
    BY DEF EachNeedsDuts, AccountInv, Req
  <2>3. QED BY <2>1, <2>2, SelectsSome
<1>5. \A v \in Worker : Holding(v)' => duts'[v] # {}
  BY <1>2, <1>4 DEF AccountInv
<1>6. ASSUME NEW e \in Dut, slot'[e] # NoOne
      PROVE  \E v \in Worker : Holding(v)' /\ e \in duts'[v]
  <2>1. CASE e \in d BY <1>2, <2>1
  <2>2. CASE e \notin d
    <3>1. slot[e] # NoOne
      BY <1>3, <1>6, <2>2 DEF Commit
    <3>2. PICK v \in Worker : Holding(v) /\ e \in duts[v]
      BY <3>1 DEF AccountInv, PoolAccounted
    <3>3. QED BY <1>2, <3>2
  <2>3. QED BY <2>1, <2>2
<1>7. ASSUME ptf' # NoOne
      PROVE  \E v \in Worker : Holding(v)' /\ Req(v).ptf /\ Name(v) = ptf'
  BY <1>2, <1>3, <1>7 DEF Commit, AccountInv, PoolAccounted
<1>8. ASSUME topo' # NoOne
      PROVE  \E v \in Worker : Holding(v)' /\ Req(v).exclusive /\ Name(v) = topo'
  BY <1>2, <1>3, <1>8 DEF Commit, AccountInv, PoolAccounted
<1>9. ASSUME NEW res \in Shared, NEW name \in holders'[res]
      PROVE  \E v \in Worker : Holding(v)' /\ res \in Req(v).shared /\ Name(v) = name
  <2>1. CASE res \in Req(w).shared /\ name = Name(w)
    BY <1>2, <2>1
  <2>2. CASE ~(res \in Req(w).shared /\ name = Name(w))
    <3>1. name \in holders[res]
      BY <1>3, <1>9, <2>2 DEF Commit
    <3>2. PICK v \in Worker : Holding(v) /\ res \in Req(v).shared /\ Name(v) = name
      BY <3>1 DEF AccountInv, PoolAccounted
    <3>3. QED BY <1>2, <3>2
  <2>3. QED BY <2>1, <2>2
<1>10. PoolAccounted'
  BY <1>2, <1>6, <1>7, <1>8, <1>9 DEF PoolAccounted, Name
<1>11. QED BY <1>2, <1>5, <1>10 DEF AccountInv

LEMMA ReleaseKeepsAccount ==
    ASSUME TypeOK, AccountInv, NEW w \in Worker, ReleaseDuts(w)
    PROVE  AccountInv'
<1>1. /\ requirements' = requirements /\ \A v \in Worker : Req(v)' = Req(v)
      /\ ~Holding(w)'
      /\ \A v \in Worker \ {w} : (Holding(v)' <=> Holding(v)) /\ duts'[v] = duts[v]
  BY DEF ReleaseDuts, Goto, TypeOK, Holding, HoldingPC, Req, runVars, config
<1>2. Release(Name(w), Req(w), duts[w])
  BY DEF ReleaseDuts
<1> USE NameType, ReqType
<1>3. ASSUME NEW e \in Dut, slot'[e] # NoOne
      PROVE  \E v \in Worker : Holding(v)' /\ e \in duts'[v]
  <2>1. e \notin duts[w] /\ slot[e] # NoOne
    BY <1>2, <1>3 DEF Release
  <2>2. PICK v \in Worker : Holding(v) /\ e \in duts[v]
    BY <2>1 DEF AccountInv, PoolAccounted
  <2>3. QED BY <1>1, <2>1, <2>2
<1>4. ASSUME ptf' # NoOne
      PROVE  \E v \in Worker : Holding(v)' /\ Req(v).ptf /\ Name(v) = ptf'
  BY <1>1, <1>2, <1>4 DEF Release, AccountInv, PoolAccounted
<1>5. ASSUME topo' # NoOne
      PROVE  \E v \in Worker : Holding(v)' /\ Req(v).exclusive /\ Name(v) = topo'
  BY <1>1, <1>2, <1>5 DEF Release, AccountInv, PoolAccounted
<1>6. ASSUME NEW res \in Shared, NEW name \in holders'[res]
      PROVE  \E v \in Worker : Holding(v)' /\ res \in Req(v).shared /\ Name(v) = name
  <2>1. name \in holders[res] /\ ~(res \in Req(w).shared /\ name = Name(w))
    BY <1>2, <1>6 DEF Release
  <2>2. PICK v \in Worker : Holding(v) /\ res \in Req(v).shared /\ Name(v) = name
    BY <2>1 DEF AccountInv, PoolAccounted
  <2>3. QED BY <1>1, <2>1, <2>2
<1>7. PoolAccounted'
  BY <1>1, <1>3, <1>4, <1>5, <1>6 DEF PoolAccounted, Name
<1>8. QED BY <1>1, <1>7 DEF AccountInv

LEMMA Accounting ==
    ASSUME EachNeedsDuts
    PROVE  Spec => []AccountInv
<1>1. Init => AccountInv
  BY DEF Init, PoolInit, AccountInv, PoolAccounted, Holding, HoldingPC
<1>2. TypeOK /\ LockInv /\ AccountInv /\ [Next]_vars => AccountInv'
  <2> SUFFICES ASSUME TypeOK, LockInv, AccountInv, [Next]_vars PROVE AccountInv'
    OBVIOUS
  <2> USE DEF PC, HoldingPC, Goto, poolVars, config, runVars
  <2>1. ASSUME NEW w \in Worker, WorkerStep(w) PROVE AccountInv'
    <3> USE MoveKeepsAccount DEF TypeOK
    <3>1. CASE Start(w) BY <3>1 DEF Start
    <3>2. CASE Register(w) BY <3>2 DEF Register, RegisterPending
    <3>3. CASE GiveUp(w) BY <3>3 DEF GiveUp
    <3>4. CASE GoOn(w) BY <3>4 DEF GoOn
    <3>5. CASE Acquire(w) BY <3>5, AcquireKeepsAccount
    <3>6. CASE TryAgain(w) BY <3>6 DEF TryAgain
    <3>7. CASE ShowRunning(w) BY <3>7 DEF ShowRunning
    <3>8. CASE FinishDryRun(w) BY <3>8 DEF FinishDryRun
    <3>9. CASE WriteWorkspace(w) BY <3>9 DEF WriteWorkspace
    <3>10. CASE Launch(w) BY <3>10 DEF Launch
    <3>11. CASE Fail(w) BY <3>11 DEF Fail
    <3>12. CASE KillProcess(w) BY <3>12 DEF KillProcess
    <3>13. CASE PassStopCheck(w) BY <3>13 DEF PassStopCheck
    <3>14. CASE Reap(w) BY <3>14 DEF Reap
    <3>15. CASE ShowOutcome(w) BY <3>15 DEF ShowOutcome
    <3>16. CASE Unregister(w)
      <4>1. pc[w] \in HoldingPC => duts[w] # {}
        BY DEF AccountInv, Holding
      <4>2. QED BY <3>16, <4>1 DEF Unregister, UnregisterPending
    <3>17. CASE ScrubDuts(w) BY <3>17 DEF ScrubDuts
    <3>18. CASE ReleaseDuts(w) BY <3>18, ReleaseKeepsAccount
    <3>19. QED
      BY <2>1, <3>1, <3>2, <3>3, <3>4, <3>5, <3>6, <3>7, <3>8, <3>9, <3>10, <3>11, <3>12,
         <3>13, <3>14, <3>15, <3>16, <3>17, <3>18 DEF WorkerStep
  <2>2. ASSUME NEW w \in Worker, Collect(w) PROVE AccountInv'
    BY <2>2, MoveKeepsAccount DEF Collect, TypeOK
  <2>3. ASSUME UNCHANGED <<requirements, pc, duts, slot, ptf, topo, holders>> PROVE AccountInv'
    BY <2>3 DEF AccountInv, PoolAccounted, Holding, Req, Name
  <2>4. ASSUME NEW w \in Worker, ProcessStep(w) \/ PassDeadline(w) PROVE AccountInv'
    BY <2>3, <2>4 DEF ProcessStep, ReadTestbed, EndProcess, PassDeadline, workerVars
  <2>5. CASE Exit BY <2>3, <2>5 DEF Exit, workerVars
  <2>6. CASE Stop BY <2>3, <2>6 DEF Stop, workerVars
  <2>7. CASE Tick BY <2>3, <2>7 DEF Tick, workerVars
  <2>8. CASE UNCHANGED vars BY <2>3, <2>8 DEF vars, workerVars
  <2>9. QED BY <2>1, <2>2, <2>4, <2>5, <2>6, <2>7, <2>8 DEF Next, Ended
<1>3. QED BY <1>1, <1>2, Typing, Locking, PTL DEF Spec

\* Whatever is locked is locked for a script that still holds its allocation.
THEOREM Accounted ==
    ASSUME EachNeedsDuts
    PROVE  Spec => []PoolAccounted
<1>1. AccountInv => PoolAccounted
  BY DEF AccountInv
<1>2. QED BY <1>1, Accounting, PTL

\* Scripts of a pair that the detector reports as exclusive, ptf or
\* shared_resource never hold their allocations together.
THEOREM Serialization ==
    ASSUME EachNeedsDuts
    PROVE  Spec => []ConflictsSerialized
<1>1. LockInv /\ AccountInv => ConflictsSerialized
  BY DEF LockInv, Apart, AccountInv, ConflictsSerialized, Compare
<1>2. QED BY <1>1, Locking, Accounting, PTL

\* If no path is listed twice, a worker that the locks refuse waits for a
\* script that the detector reports together with it.
THEOREM Prediction ==
    ASSUME EachNeedsDuts, IsInjective(ScriptPaths)
    PROVE  Spec => []RefusalsPredicted
<1>1. TypeOK /\ AccountInv => RefusalsPredicted
  <2> SUFFICES ASSUME TypeOK, AccountInv, NEW w \in Worker, pc[w] = "try", Blocked(Req(w))
               PROVE  \E v \in Worker :
                         /\ Holding(v)
                         /\ <<ScriptPaths[v], ScriptPaths[w]>> \in CheckAll(requirements)
    BY DEF RefusalsPredicted
  <2>1. \E v \in Worker : Holding(v) /\ Compare(Req(v), Req(w)) # {}
    <3>1. CASE topo # NoOne
      <4>1. PICK v \in Worker : Holding(v) /\ Req(v).exclusive
        BY <3>1 DEF AccountInv, PoolAccounted
      <4>2. "exclusive" \in Compare(Req(v), Req(w))
        BY <4>1 DEF Compare
      <4>3. QED BY <4>1, <4>2
    <3>2. CASE Req(w).exclusive /\ (Free # Dut \/ ptf # NoOne)
      <4>1. PICK v \in Worker : Holding(v)
        BY <3>2 DEF AccountInv, PoolAccounted, Free
      <4>2. "exclusive" \in Compare(Req(v), Req(w))
        BY <3>2 DEF Compare
      <4>3. QED BY <4>1, <4>2
    <3>3. CASE Req(w).ptf /\ ptf # NoOne
      <4>1. PICK v \in Worker : Holding(v) /\ Req(v).ptf
        BY <3>3 DEF AccountInv, PoolAccounted
      <4>2. "ptf" \in Compare(Req(v), Req(w))
        BY <3>3, <4>1 DEF Compare
      <4>3. QED BY <4>1, <4>2
    <3>4. CASE \E res \in Req(w).shared : holders[res] # {}
      <4>1. PICK res \in Req(w).shared : holders[res] # {}
        BY <3>4
      <4>2. res \in Shared
        BY ReqType
      <4>3. PICK v \in Worker : Holding(v) /\ res \in Req(v).shared
        BY <4>1, <4>2 DEF AccountInv, PoolAccounted
      <4>4. "shared_resource" \in Compare(Req(v), Req(w))
        BY <4>1, <4>3 DEF Compare
      <4>5. QED BY <4>3, <4>4
    <3>5. QED BY <3>1, <3>2, <3>3, <3>4 DEF Blocked
  <2>2. PICK v \in Worker : Holding(v) /\ Compare(Req(v), Req(w)) # {}
    BY <2>1
  <2>3. v # w
    BY <2>2 DEF Holding, HoldingPC
  <2>4. ScriptPaths[v] # ScriptPaths[w]
    BY <2>3 DEF IsInjective, Worker
  <2>5. DOMAIN requirements = Path
    BY DEF TypeOK
  <2>6. QED BY <2>2, <2>4, <2>5, NameType DEF CheckAll, Req
<1>2. QED BY <1>1, Typing, Accounting, PTL

\* If an idle pool can serve each request, the pool never wedges.
THEOREM Progress ==
    ASSUME EachNeedsDuts, \A reqs \in Workloads : \A p \in Path : IdlePoolServes(reqs[p])
    PROVE  Spec => []NoWedge
<1>1. TypeOK /\ AccountInv /\ PendingInv => NoWedge
  <2> SUFFICES ASSUME TypeOK, AccountInv, PendingInv,
                      \A w \in Worker :
                         pc[w] \in {"queued", "check", "try", "returned", "collected"},
                      NEW u \in Worker, Waiting(u)
               PROVE  \E w \in Worker : Waiting(w) /\ CanAllocate(Req(w))
    BY DEF NoWedge
  <2>1. \A w \in Worker : ~Holding(w)
    BY DEF Holding, HoldingPC
  <2>2. Free = Dut /\ ptf = NoOne /\ topo = NoOne /\ \A res \in Shared : holders[res] = {}
    BY <2>1 DEF AccountInv, PoolAccounted, Free
  <2>3. ASSUME NEW w \in Worker, ~(maxPending > Req(w).count) PROVE CanAllocate(Req(w))
    <3>1. ~Blocked(Req(w))
      BY <2>2, ReqType DEF Blocked
    <3>2. IdlePoolServes(Req(w))
      BY NameType DEF AccountInv, Req
    <3>3. ~WouldStarve(Req(w))
      BY <2>3 DEF WouldStarve
    <3>4. QED BY <2>2, <3>1, <3>2, <3>3 DEF IdlePoolServes, CanAllocate, Allocatable
  <2>4. CASE maxPending = 0
    <3>1. ~(maxPending > Req(u).count)
      BY <2>4, ReqType
    <3>2. QED BY <2>3, <3>1
  <2>5. CASE maxPending > 0
    <3>1. PICK w \in Worker : Registered(w) /\ Req(w).count = maxPending
      BY <2>5 DEF PendingInv, PendingWitnessed
    <3>2. Waiting(w)
      BY <3>1 DEF Registered, RegisteredPC, HoldingPC, Waiting
    <3>3. ~(maxPending > Req(w).count)
      BY <3>1, ReqType
    <3>4. QED BY <2>3, <3>2, <3>3
  <2>6. QED BY <2>4, <2>5 DEF TypeOK, PoolTypeOK
<1>2. QED BY <1>1, Typing, Accounting, Pending, PTL

-----------------------------------------------------------------------------
(* The test sessions.  They are isolated if no two scripts have the same   *)
(* file name: such scripts may share a workspace.                          *)

\* From the writing of the workspace to the end of the subprocess nobody else
\* writes it, and it names what the worker holds.
SessionInv ==
    \A w \in Worker :
        /\ pc[w] \in {"launch", "poll", "reap"} =>
              /\ workspace[w][1] = Name(w)
              /\ subset[workspace[w]] = duts[w]
        /\ proc[w] \in {"booting", "running"} => pc[w] \in {"poll", "reap"}
        /\ proc[w] = "running" => sees[w] = duts[w]

\* A worker's move that touches no workspace and no subprocess.
LEMMA MoveKeepsSessions ==
    ASSUME TypeOK, SessionInv, NEW w \in Worker, NEW to \in PC, Goto(w, pc[w], to),
           UNCHANGED <<workspace, subset, sees>>,
           \A v \in Worker \ {w} : duts'[v] = duts[v] /\ proc'[v] = proc[v],
           pc[w] \in {"launch", "poll", "reap"} => duts'[w] = duts[w],
           to \in {"launch", "poll", "reap"} => pc[w] \in {"launch", "poll", "reap"},
           proc'[w] \in {"booting", "running"} => to \in {"poll", "reap"},
           proc'[w] = "running" => proc[w] = "running"
    PROVE  SessionInv'
<1>1. /\ pc'[w] = to
      /\ \A v \in Worker \ {w} : pc'[v] = pc[v]
  BY DEF Goto, TypeOK
<1>2. QED BY <1>1 DEF SessionInv, Name

LEMMA WriteKeepsSessions ==
    ASSUME TypeOK, SessionInv, IsInjective([w \in Worker |-> Name(w)]),
           NEW w \in Worker, WriteWorkspace(w)
    PROVE  SessionInv'
<1>1. /\ pc[w] = "prepare" /\ pc'[w] = "launch"
      /\ \A v \in Worker \ {w} : pc'[v] = pc[v]
      /\ UNCHANGED <<duts, proc, sees>>
  BY DEF WriteWorkspace, Goto, TypeOK, processVars
<1>2. <<Name(w), now>> \in Workspace
  BY NameType DEF TypeOK, Workspace
<1>3. /\ workspace'[w] = <<Name(w), now>> /\ subset'[<<Name(w), now>>] = duts[w]
      /\ \A v \in Worker \ {w} : workspace'[v] = workspace[v]
      /\ \A dir \in Workspace \ {<<Name(w), now>>} : subset'[dir] = subset[dir]
  BY <1>2 DEF WriteWorkspace, TypeOK
<1>4. \A v \in Worker \ {w} : Name(v) # Name(w)
  BY DEF IsInjective
<1>5. ASSUME NEW v \in Worker \ {w}, pc[v] \in {"launch", "poll", "reap"}
      PROVE  subset'[workspace'[v]] = duts[v] /\ workspace'[v][1] = Name(v)
  <2>1. workspace[v] \in Workspace /\ workspace[v][1] = Name(v) /\ subset[workspace[v]] = duts[v]
    BY <1>5 DEF SessionInv, TypeOK
  <2>2. workspace[v] # <<Name(w), now>>
    BY <1>4, <2>1
  <2>3. QED BY <1>3, <2>1, <2>2
<1>6. QED BY <1>1, <1>3, <1>5 DEF SessionInv, Name

LEMMA Sessions ==
    ASSUME IsInjective([w \in Worker |-> Name(w)])
    PROVE  Spec => []SessionInv
<1>1. Init => SessionInv
  BY DEF Init, SessionInv
<1>2. TypeOK /\ LockInv /\ SessionInv /\ [Next]_vars => SessionInv'
  <2> SUFFICES ASSUME TypeOK, LockInv, SessionInv, [Next]_vars PROVE SessionInv'
    OBVIOUS
  <2> USE DEF PC, HoldingPC, Goto, runVars, processVars, workerVars
  <2>1. ASSUME NEW w \in Worker, WorkerStep(w) PROVE SessionInv'
    <3> USE MoveKeepsSessions DEF TypeOK
    <3>0. proc[w] \in {"booting", "running"} => pc[w] \in {"poll", "reap"}
      BY DEF SessionInv
    <3>1. CASE Start(w) BY <3>0, <3>1 DEF Start
    <3>2. CASE Register(w) BY <3>0, <3>2 DEF Register
    <3>3. CASE GiveUp(w) BY <3>0, <3>3 DEF GiveUp
    <3>4. CASE GoOn(w) BY <3>0, <3>4 DEF GoOn
    <3>5. CASE Acquire(w) BY <3>0, <3>5 DEF Acquire
    <3>6. CASE TryAgain(w) BY <3>0, <3>6 DEF TryAgain
    <3>7. CASE ShowRunning(w) BY <3>0, <3>7 DEF ShowRunning
    <3>8. CASE FinishDryRun(w) BY <3>0, <3>8 DEF FinishDryRun
    <3>9. CASE WriteWorkspace(w) BY <3>9, WriteKeepsSessions
    <3>10. CASE Launch(w) BY <3>0, <3>10 DEF Launch
    <3>11. CASE Fail(w) BY <3>0, <3>11 DEF Fail
    <3>12. CASE KillProcess(w) BY <3>0, <3>12 DEF KillProcess, Alive
    <3>13. CASE PassStopCheck(w) BY <3>0, <3>13 DEF PassStopCheck
    <3>14. CASE Reap(w) BY <3>0, <3>14 DEF Reap, Alive
    <3>15. CASE ShowOutcome(w) BY <3>0, <3>15 DEF ShowOutcome
    <3>16. CASE Unregister(w) BY <3>0, <3>16 DEF Unregister
    <3>17. CASE ScrubDuts(w) BY <3>0, <3>17 DEF ScrubDuts
    <3>18. CASE ReleaseDuts(w) BY <3>0, <3>18 DEF ReleaseDuts
    <3>19. QED
      BY <2>1, <3>1, <3>2, <3>3, <3>4, <3>5, <3>6, <3>7, <3>8, <3>9, <3>10, <3>11, <3>12,
         <3>13, <3>14, <3>15, <3>16, <3>17, <3>18 DEF WorkerStep
  <2>2. ASSUME NEW w \in Worker, Collect(w) PROVE SessionInv'
    BY <2>2, MoveKeepsSessions DEF Collect, SessionInv, TypeOK
  <2>3. ASSUME UNCHANGED <<pc, duts, proc, sees, workspace, subset>> PROVE SessionInv'
    BY <2>3 DEF SessionInv, Name
  <2>4. ASSUME NEW w \in Worker, ReadTestbed(w) PROVE SessionInv'
    BY <2>4 DEF ReadTestbed, SessionInv, TypeOK, Name
  <2>5. ASSUME NEW w \in Worker, EndProcess(w) PROVE SessionInv'
    <3>1. proc' \in {[proc EXCEPT ![w] = "passed"], [proc EXCEPT ![w] = "broken"]}
      BY <2>5 DEF EndProcess
    <3>2. UNCHANGED <<pc, duts, sees, workspace, subset>>
      BY <2>5 DEF EndProcess
    <3>3. QED BY <3>1, <3>2 DEF SessionInv, TypeOK, Name
  <2>6. ASSUME NEW w \in Worker, PassDeadline(w) PROVE SessionInv'
    BY <2>3, <2>6 DEF PassDeadline
  <2>7. CASE Exit BY <2>3, <2>7 DEF Exit
  <2>8. CASE Stop BY <2>3, <2>8 DEF Stop
  <2>9. CASE Tick BY <2>3, <2>9 DEF Tick
  <2>10. CASE UNCHANGED vars BY <2>3, <2>10 DEF vars
  <2>11. QED
    BY <2>1, <2>2, <2>4, <2>5, <2>6, <2>7, <2>8, <2>9, <2>10 DEF Next, ProcessStep, Ended
<1>3. QED BY <1>1, <1>2, Typing, Locking, PTL DEF Spec

\* If no two scripts have the same file name, sessions that run and that nobody
\* has killed see disjoint sets of devices.
THEOREM Isolation ==
    ASSUME IsInjective([w \in Worker |-> Name(w)])
    PROVE  Spec => []SessionsIsolated
<1>1. LockInv /\ SessionInv => SessionsIsolated
  BY DEF LockInv, Apart, Holding, HoldingPC, SessionInv, SessionsIsolated
<1>2. QED BY <1>1, Locking, Sessions, PTL
=============================================================================
