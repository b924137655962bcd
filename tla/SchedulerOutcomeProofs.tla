------------------------ MODULE SchedulerOutcomeProofs ------------------------
(***************************************************************************)
(* Theorems about what the engine reports: the status of each script and   *)
(* the exit code.  They need that no path is listed twice, as the results  *)
(* are kept by path: the second run of a script would overwrite the        *)
(* outcome of the first.                                                   *)
(***************************************************************************)
EXTENDS ParallelSchedulerProofs

Shown(w) == status[ScriptPaths[w]]

WaitingPC == {"register", "check", "try", "allocated"}
RunningPC == {"dryrun", "prepare", "launch", "poll", "reap", "finish"}
EndPC == {"unregister", "scrub", "release", "returned", "collected"}

\* What is shown follows the worker up to its outcome.
Followed(w) ==
    /\ pc[w] = "queued" => Shown(w) = "queued"
    /\ pc[w] \in WaitingPC => Shown(w) = "waiting"
    /\ pc[w] \in RunningPC => Shown(w) = "running"

\* A failure is shown as soon as the worker has left the try block.
Reported(w) ==
    /\ raised[w] => pc[w] \in EndPC /\ Shown(w) = "failed"
    /\ rc[w] = "nonzero" =>
          \/ pc[w] = "finish"
          \/ pc[w] \in EndPC /\ (Shown(w) = "failed" \/ (stop /\ Shown(w) = "cancelled"))

\* The exit code was computed from outcomes that nobody touches any more.
ExitInv ==
    /\ exitCode # -1 => \A w \in Worker : pc[w] = "collected"
    /\ exitCode = 0 => \A p \in Path : status[p] # "failed"

ResultInv == (\A w \in Worker : Followed(w) /\ Reported(w)) /\ ExitInv

Final == {"done", "failed", "cancelled"}

-----------------------------------------------------------------------------
\* A step of a worker or of its future keeps the worker's part of the
\* invariant and does not change an outcome.
LEMMA OwnOutcome ==
    ASSUME TypeOK, NEW w \in Worker, Followed(w), Reported(w), WorkerStep(w) \/ Collect(w)
    PROVE  /\ Followed(w)' /\ Reported(w)'
           /\ Shown(w) \in Final => Shown(w)' = Shown(w)
<1> USE NameType DEF TypeOK, Followed, Reported, Shown, Final, Goto, Show, WaitingPC, RunningPC,
        EndPC, runVars
<1>1. CASE Start(w) BY <1>1 DEF Start
<1>2. CASE Register(w) BY <1>2 DEF Register
<1>3. CASE GiveUp(w) BY <1>3 DEF GiveUp
<1>4. CASE GoOn(w) BY <1>4 DEF GoOn
<1>5. CASE Acquire(w) BY <1>5 DEF Acquire
<1>6. CASE TryAgain(w) BY <1>6 DEF TryAgain
<1>7. CASE ShowRunning(w) BY <1>7 DEF ShowRunning
<1>8. CASE FinishDryRun(w) BY <1>8 DEF FinishDryRun
<1>9. CASE WriteWorkspace(w) BY <1>9 DEF WriteWorkspace
<1>10. CASE Launch(w) BY <1>10 DEF Launch
<1>11. CASE Fail(w) BY <1>11 DEF Fail
<1>12. CASE KillProcess(w) BY <1>12 DEF KillProcess
<1>13. CASE PassStopCheck(w) BY <1>13 DEF PassStopCheck
<1>14. CASE Reap(w) BY <1>14 DEF Reap
<1>15. CASE ShowOutcome(w) BY <1>15 DEF ShowOutcome
<1>16. CASE Unregister(w) BY <1>16 DEF Unregister
<1>17. CASE ScrubDuts(w) BY <1>17 DEF ScrubDuts
<1>18. CASE ReleaseDuts(w) BY <1>18 DEF ReleaseDuts
<1>19. CASE Collect(w)
  <2>1. CASE raised[w] BY <1>19, <2>1 DEF Collect
  <2>2. CASE ~raised[w] BY <1>19, <2>2 DEF Collect
  <2>3. QED BY <2>1, <2>2
<1>20. QED
  BY <1>1, <1>2, <1>3, <1>4, <1>5, <1>6, <1>7, <1>8, <1>9, <1>10, <1>11, <1>12, <1>13,
     <1>14, <1>15, <1>16, <1>17, <1>18, <1>19 DEF WorkerStep

\* It leaves everybody else's place and result alone.
LEMMA OthersUntouched ==
    ASSUME IsInjective(ScriptPaths), TypeOK, NEW w \in Worker, WorkerStep(w) \/ Collect(w)
    PROVE  /\ pc[w] # "collected" /\ stop' = stop /\ exitCode' = exitCode
           /\ \A v \in Worker \ {w} :
                 /\ pc'[v] = pc[v] /\ raised'[v] = raised[v] /\ rc'[v] = rc[v]
                 /\ Shown(v)' = Shown(v)
<1>0. /\ ScriptPaths[w] \in Path
      /\ \A v \in Worker \ {w} : ScriptPaths[v] \in Path /\ ScriptPaths[v] # ScriptPaths[w]
  BY NameType DEF IsInjective, Worker
<1> USE <1>0 DEF TypeOK, Shown, Goto, Show, runVars
<1>1. CASE Start(w) BY <1>1 DEF Start
<1>2. CASE Register(w) BY <1>2 DEF Register
<1>3. CASE GiveUp(w) BY <1>3 DEF GiveUp
<1>4. CASE GoOn(w) BY <1>4 DEF GoOn
<1>5. CASE Acquire(w) BY <1>5 DEF Acquire
<1>6. CASE TryAgain(w) BY <1>6 DEF TryAgain
<1>7. CASE ShowRunning(w) BY <1>7 DEF ShowRunning
<1>8. CASE FinishDryRun(w) BY <1>8 DEF FinishDryRun
<1>9. CASE WriteWorkspace(w) BY <1>9 DEF WriteWorkspace
<1>10. CASE Launch(w) BY <1>10 DEF Launch
<1>11. CASE Fail(w) BY <1>11 DEF Fail
<1>12. CASE KillProcess(w) BY <1>12 DEF KillProcess
<1>13. CASE PassStopCheck(w) BY <1>13 DEF PassStopCheck
<1>14. CASE Reap(w) BY <1>14 DEF Reap
<1>15. CASE ShowOutcome(w) BY <1>15 DEF ShowOutcome
<1>16. CASE Unregister(w) BY <1>16 DEF Unregister
<1>17. CASE ScrubDuts(w) BY <1>17 DEF ScrubDuts
<1>18. CASE ReleaseDuts(w) BY <1>18 DEF ReleaseDuts
<1>19. CASE Collect(w)
  <2>1. CASE raised[w] BY <1>19, <2>1 DEF Collect
  <2>2. CASE ~raised[w] BY <1>19, <2>2 DEF Collect
  <2>3. QED BY <2>1, <2>2
<1>20. QED
  BY <1>1, <1>2, <1>3, <1>4, <1>5, <1>6, <1>7, <1>8, <1>9, <1>10, <1>11, <1>12, <1>13,
     <1>14, <1>15, <1>16, <1>17, <1>18, <1>19 DEF WorkerStep

\* So it keeps the invariant, and no outcome changes.
LEMMA StepKeepsResults ==
    ASSUME IsInjective(ScriptPaths), TypeOK, ResultInv,
           NEW w \in Worker, WorkerStep(w) \/ Collect(w)
    PROVE  /\ ResultInv'
           /\ \A p \in Path : status[p] \in Final => status'[p] = status[p]
<1>1. /\ Followed(w)' /\ Reported(w)'
      /\ Shown(w) \in Final => Shown(w)' = Shown(w)
  BY OwnOutcome DEF ResultInv
<1>2. \A v \in Worker \ {w} : Followed(v)' /\ Reported(v)'
  BY OthersUntouched DEF ResultInv, Followed, Reported
<1>3. ExitInv'
  <2>1. exitCode = -1 /\ exitCode' = -1
    BY OthersUntouched DEF ResultInv, ExitInv
  <2>2. QED BY <2>1 DEF ExitInv
<1>4. ASSUME NEW p \in Path, status[p] \in Final PROVE status'[p] = status[p]
  <2>1. PICK v \in Worker : p = ScriptPaths[v]
    BY DEF Path
  <2>2. CASE v = w BY <1>1, <1>4, <2>1, <2>2 DEF Shown
  <2>3. CASE v # w BY OthersUntouched, <2>1, <2>3 DEF Shown
  <2>4. QED BY <2>2, <2>3
<1>5. QED BY <1>1, <1>2, <1>3, <1>4 DEF ResultInv

LEMMA NextKeepsResults ==
    ASSUME IsInjective(ScriptPaths), TypeOK, ResultInv, [Next]_vars
    PROVE  /\ ResultInv'
           /\ \A p \in Path : status[p] \in Final => status'[p] = status[p]
<1> USE DEF ResultInv, Followed, Reported, Shown, ExitInv, workerVars, runVars
<1>1. ASSUME NEW w \in Worker, WorkerStep(w) \/ Collect(w)
      PROVE  /\ ResultInv'
             /\ \A p \in Path : status[p] \in Final => status'[p] = status[p]
  BY <1>1, StepKeepsResults
<1>2. ASSUME UNCHANGED <<pc, raised, rc, stop, status, exitCode>>
      PROVE  /\ ResultInv'
             /\ \A p \in Path : status[p] \in Final => status'[p] = status[p]
  BY <1>2
<1>3. ASSUME NEW w \in Worker, ProcessStep(w) \/ PassDeadline(w)
      PROVE  UNCHANGED <<pc, raised, rc, stop, status, exitCode>>
  BY <1>3 DEF ProcessStep, ReadTestbed, EndProcess, PassDeadline
<1>4. CASE Exit BY <1>4 DEF Exit, ExitCode
<1>5. CASE Stop BY <1>5 DEF Stop
<1>6. CASE Tick \/ UNCHANGED vars
  BY <1>2, <1>6 DEF Tick, vars
<1>7. QED BY <1>1, <1>2, <1>3, <1>4, <1>5, <1>6 DEF Next, Ended

LEMMA Results ==
    ASSUME IsInjective(ScriptPaths)
    PROVE  Spec => []ResultInv
<1>1. Init => ResultInv
  <2> SUFFICES ASSUME Init PROVE ResultInv
    OBVIOUS
  <2>1. \A w \in Worker : Followed(w) /\ Reported(w)
    BY NameType DEF Init, Followed, Reported, Shown, WaitingPC, RunningPC
  <2>2. QED BY <2>1 DEF Init, ResultInv, ExitInv
<1>2. TypeOK /\ ResultInv /\ [Next]_vars => ResultInv'
  BY NextKeepsResults
<1>3. QED BY <1>1, <1>2, Typing, PTL DEF Spec

-----------------------------------------------------------------------------
\* If no path is listed twice, exit code 0 means that no worker raised, and
\* that no subprocess failed but those of scripts cancelled by stop().
THEOREM Reporting ==
    ASSUME IsInjective(ScriptPaths)
    PROVE  Spec => []FailuresReported
<1>1. ResultInv => FailuresReported
  <2> SUFFICES ASSUME ResultInv, exitCode = 0, NEW w \in Worker
               PROVE  /\ ~raised[w]
                      /\ rc[w] = "nonzero" => stop /\ Shown(w) = "cancelled"
    BY DEF FailuresReported, Shown
  <2>1. pc[w] = "collected" /\ Shown(w) # "failed"
    BY NameType DEF ResultInv, ExitInv, Shown
  <2>2. QED BY <2>1 DEF ResultInv, Reported, EndPC
<1>2. QED BY <1>1, Results, PTL

\* If no path is listed twice, no later step shows a script that is done,
\* failed or cancelled as anything else.
THEOREM Finality ==
    ASSUME IsInjective(ScriptPaths)
    PROVE  Spec => OutcomesFinal
<1>1. TypeOK /\ ResultInv /\ [Next]_vars
      => [\A p \in Path : status[p] \in Final => status'[p] = status[p]]_vars
  BY NextKeepsResults
<1>2. QED BY <1>1, Typing, Results, PTL DEF Spec, OutcomesFinal, Final
=============================================================================
