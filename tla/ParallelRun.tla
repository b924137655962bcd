------------------------------ MODULE ParallelRun ------------------------------
(***************************************************************************)
(* parallel_run of tests/common/helpers/parallel.py: a function is run for *)
(* every node in a process of its own, at most ConcurrentTasks at a time,  *)
(* and the parent gathers results and exceptions and kills what does not   *)
(* end in time.                                                            *)
(*                                                                         *)
(* A process writes its result into a shared dictionary, and sends its     *)
(* exception through a pipe that the parent reads once and closes.  Time   *)
(* is counted in waits: one that runs into its timeout takes one unit, one *)
(* that returns earlier takes less.                                        *)
(***************************************************************************)
EXTENDS Integers, FiniteSets

CONSTANTS
    N,               \* the number of nodes, 1 .. N in the order of the list
    ConcurrentTasks, \* concurrent_tasks
    Timeouts,        \* whether timeout is given: a subset of BOOLEAN
    InitResults,     \* whether init_result is given: a subset of BOOLEAN
    Fates            \* what a process may come to

ASSUME RunAssumption ==
    /\ N \in Nat /\ ConcurrentTasks \in Nat \ {0}
    /\ Timeouts \subseteq BOOLEAN /\ InitResults \subseteq BOOLEAN
    \* The function returns; raises an Exception; raises one that a pipe does
    \* not hold before somebody reads; calls pytest.fail, whose exception is
    \* no Exception; never ends.
    /\ Fates \subseteq {"returns", "raises", "raises_long", "fails", "hangs"}

Node == 1 .. N

VARIABLES
    timed, init,    \* the parameters given
    fate,           \* what the process of each node comes to
    proc,           \* the state of each process
    pipe,           \* the nodes whose exception waits to be read
    results,        \* the entry of each node in the shared dictionary
    named,          \* the nodes whose process has an entry of its own: killed
    initFailed,     \* init_result["failed"]
    started,        \* how many nodes have been taken from the list
    workers,        \* the processes the parent waits for
    tasksRunning, tasksDone,
    closed,         \* the workers whose exception was asked for
    failed,         \* failed_processes
    sweep,          \* what the parent still goes through, to kill it
    timeouts,       \* the waits that ran into their timeout
    rounds,         \* the waits that did not
    pc              \* where the parent is

params == <<timed, init, fate>>
shared == <<proc, pipe, results>>
counts == <<started, tasksRunning, tasksDone, timeouts, rounds>>
marks == <<named, initFailed>>
vars == <<params, shared, counts, marks, workers, closed, failed, sweep, pc>>

(* total_timeout, in units of timeout.                                     *)
TotalTimeout == (N + ConcurrentTasks - 1) \div ConcurrentTasks

TypeOK ==
    /\ timed \in Timeouts /\ init \in InitResults /\ fate \in [Node -> Fates]
    /\ proc \in [Node -> {"none", "running", "exiting", "gone", "killed"}]
    /\ results \in [Node -> {"none", "init", "ok", "failed"}]
    /\ pipe \subseteq Node /\ closed \subseteq Node /\ failed \subseteq Node
    /\ named \subseteq Node /\ workers \subseteq Node /\ sweep \subseteq Node
    /\ initFailed \in BOOLEAN /\ started \in 0 .. N
    /\ tasksRunning \in 0 .. ConcurrentTasks /\ tasksDone \in 0 .. N
    /\ timeouts \in 0 .. TotalTimeout + 1 /\ rounds \in 0 .. N
    /\ pc \in {"loop", "wait", "force", "kill", "terminate", "last", "lastkill",
               "raised", "returned"}

Init ==
    /\ timed \in Timeouts /\ init \in InitResults /\ fate \in [Node -> Fates]
    /\ proc = [n \in Node |-> "none"] /\ results = [n \in Node |-> "none"]
    /\ pipe = {} /\ closed = {} /\ failed = {} /\ named = {} /\ initFailed = FALSE
    /\ started = 0 /\ tasksRunning = 0 /\ tasksDone = 0
    /\ workers = {} /\ sweep = {} /\ timeouts = 0 /\ rounds = 0 /\ pc = "loop"

(***************************************************************************)
(* A process.                                                              *)
(***************************************************************************)
Return(n) ==
    /\ fate[n] = "returns"
    /\ results' = [results EXCEPT ![n] = "ok"]
    /\ UNCHANGED pipe

(* Only an Exception is sent; nothing arrives once the pipe is closed.     *)
Raise(n) ==
    /\ fate[n] \in {"raises", "raises_long", "fails"}
    /\ pipe' = IF fate[n] = "fails" \/ n \in closed THEN pipe ELSE pipe \cup {n}
    /\ UNCHANGED results

Finish(n) ==
    /\ proc[n] = "running" /\ (Return(n) \/ Raise(n))
    /\ proc' = [proc EXCEPT ![n] = "exiting"]

(* A process that sends more than the pipe holds stays until it is read.   *)
Exit(n) ==
    /\ proc[n] = "exiting"
    /\ fate[n] = "raises_long" => n \in failed
    /\ proc' = [proc EXCEPT ![n] = "gone"]
    /\ UNCHANGED <<pipe, results>>

Process(n) ==
    /\ Finish(n) \/ Exit(n)
    /\ UNCHANGED <<params, counts, marks, workers, closed, failed, sweep, pc>>

(***************************************************************************)
(* The parent.                                                             *)
(***************************************************************************)
Alive(n) == proc[n] \in {"running", "exiting"}

StartableOneMore ==
    {n \in Node : n > started /\ n <= started + (ConcurrentTasks - tasksRunning) + 1}

(* The nodes that get a process: while there are nodes and free slots.     *)
Startable ==
    {n \in Node : n > started /\ n <= started + (ConcurrentTasks - tasksRunning)}

WaitForNew == Startable

(* The processes of the next wait: those that outlived the last one too.   *)
WaitFor == workers \cup Startable

Start ==
    /\ pc = "loop" /\ tasksDone < N
    /\ timed => timeouts <= TotalTimeout
    /\ proc' = [n \in Node |-> IF n \in Startable THEN "running" ELSE proc[n]]
    /\ results' = [n \in Node |->
           IF ~ init \/ n \notin Startable THEN results[n]
           ELSE IF initFailed THEN "failed" ELSE "init"]
    /\ workers' = WaitFor
    /\ tasksRunning' = tasksRunning + Cardinality(Startable)
    /\ started' = started + Cardinality(Startable)
    /\ pc' = "wait"
    /\ UNCHANGED <<params, pipe, marks, tasksDone, timeouts, rounds, closed, failed, sweep>>

(* tasks_done has reached the total, or the total time is over.            *)
LeaveLoop ==
    /\ pc = "loop"
    /\ tasksDone = N \/ (timed /\ timeouts + rounds >= TotalTimeout)
    /\ sweep' = workers /\ pc' = "terminate"
    /\ UNCHANGED <<params, shared, counts, marks, workers, closed, failed>>

WaitEndsUntimed(alive) == alive = {}

(* wait_procs returns when every worker is gone or its time is over.       *)
WaitEnds(alive) == alive = {} \/ timed

(* After the wait every exception that has been sent is read and the pipes *)
(* are closed.  When nobody has ended all workers count as done, and are   *)
(* killed.                                                                 *)
Gather ==
    LET alive == {n \in workers : Alive(n)}
        gone == workers \ alive IN
    /\ pc = "wait"
    /\ WaitEnds(alive)
    /\ IF alive = {} THEN rounds' = rounds + 1 /\ UNCHANGED timeouts
                     ELSE timeouts' = timeouts + 1 /\ UNCHANGED rounds
    /\ failed' = failed \cup (pipe \cap workers)
    /\ pipe' = pipe \ workers
    /\ closed' = closed \cup workers
    /\ workers' = alive
    /\ LET done == IF gone = {} THEN workers ELSE gone IN
       /\ tasksRunning' = tasksRunning - Cardinality(done)
       /\ tasksDone' = tasksDone + Cardinality(done)
    /\ pc' = IF gone = {} THEN "force" ELSE "loop"
    /\ UNCHANGED <<params, proc, results, marks, started, sweep>>

MarkFailedWithInit(n) ==
    IF init THEN /\ initFailed' = TRUE
                 /\ results' = [results EXCEPT ![1] = "failed"]
                 /\ UNCHANGED named
            ELSE UNCHANGED <<marks, results>>

(* A killed process is noted as failed: with init_result, in the first     *)
(* entry of the dictionary, otherwise in one under its own name.           *)
MarkFailed(n) ==
    IF init THEN /\ initFailed' = TRUE
                 /\ results' = [results EXCEPT ![1] = "failed"]
                 /\ UNCHANGED named
            ELSE named' = named \cup {n} /\ UNCHANGED <<initFailed, results>>

(* The last loop over the workers: terminate what is alive at its turn.    *)
Terminate(n) ==
    /\ pc = "terminate" /\ n \in sweep
    /\ IF Alive(n) THEN MarkFailed(n) /\ proc' = [proc EXCEPT ![n] = "killed"]
                   ELSE UNCHANGED <<marks, results, proc>>
    /\ sweep' = sweep \ {n}
    /\ UNCHANGED <<params, pipe, counts, workers, closed, failed, pc>>

Terminated ==
    /\ pc = "terminate" /\ sweep = {}
    /\ pc' = "last"
    /\ UNCHANGED <<params, shared, counts, marks, workers, closed, failed, sweep>>

(* force_terminate takes those alive and then kills them one by one.       *)
ForceTerminate ==
    /\ pc \in {"force", "last"}
    /\ sweep' = {n \in workers : Alive(n)}
    /\ pc' = IF pc = "force" THEN "kill" ELSE "lastkill"
    /\ UNCHANGED <<params, shared, counts, marks, workers, closed, failed>>

Kill(n) ==
    /\ pc \in {"kill", "lastkill"} /\ n \in sweep
    /\ MarkFailed(n)
    /\ proc' = IF Alive(n) THEN [proc EXCEPT ![n] = "killed"] ELSE proc
    /\ sweep' = sweep \ {n}
    /\ UNCHANGED <<params, pipe, counts, workers, closed, failed, pc>>

KilledKept ==
    /\ pc = "kill" /\ sweep = {}
    /\ pc' = "loop"
    /\ UNCHANGED <<params, shared, counts, marks, workers, closed, failed, sweep>>

Killed ==
    /\ pc = "kill" /\ sweep = {}
    /\ workers' = {} /\ pc' = "loop"
    /\ UNCHANGED <<params, shared, counts, marks, closed, failed, sweep>>

(* Raise what was read, or return the dictionary.                          *)
End ==
    /\ pc = "lastkill" /\ sweep = {}
    /\ pc' = IF failed # {} THEN "raised" ELSE "returned"
    /\ UNCHANGED <<params, shared, counts, marks, workers, closed, failed, sweep>>

Parent ==
    \/ Start \/ LeaveLoop \/ Gather \/ Terminated \/ ForceTerminate \/ Killed \/ End
    \/ \E n \in Node : Terminate(n) \/ Kill(n)

Next == Parent \/ \E n \in Node : Process(n)

Spec == Init /\ [][Next]_vars

(* The parent runs, and the operating system runs every process.           *)
FairSpec == Spec /\ WF_vars(Parent) /\ \A n \in Node : WF_vars(Process(n))
-------------------------------------------------------------------------------
(***************************************************************************)
(* Properties.                                                             *)
(***************************************************************************)
Over == pc \in {"raised", "returned"}

(* When parallel_run is over, no process it has started goes on: neither   *)
(* one that outlived a wait, nor one from before a forced termination.     *)
NoSurvivors == Over => \A n \in Node : ~ Alive(n)

(* Never more than concurrent_tasks processes are alive, and the two       *)
(* counters agree with the processes waited for, those that ended on their *)
(* own and those that were killed.                                         *)
SlotsAccounted ==
    /\ Cardinality({n \in Node : Alive(n)}) <= ConcurrentTasks
    /\ pc = "loop" => /\ tasksRunning = Cardinality(workers)
                      /\ tasksDone + tasksRunning = started

(* Nothing in the dictionary shows a failure, and nothing is raised.       *)
Clean == pc = "returned" /\ named = {} /\ \A n \in Node : results[n] # "failed"

(* What the parent never hears of: a call of pytest.fail, an exception     *)
(* after a wait that timed out, and, with init_result, the end of a killed *)
(* process other than the first node's, as the first node's result may     *)
(* overwrite its mark.                                                     *)
Unheard(n) ==
    \/ proc[n] = "gone" /\ fate[n] = "fails"
    \/ proc[n] = "gone" /\ fate[n] \in {"raises", "raises_long"} /\ timeouts > 0
    \/ proc[n] = "killed" /\ init /\ n # 1

(* A clean return means that every node has its result, up to those        *)
(* Unheard and, with a timeout, those left without a process when the      *)
(* total time was over.                                                    *)
CleanIsComplete ==
    Clean => \A n \in Node : results[n] = "ok" \/ (timed /\ proc[n] = "none") \/ Unheard(n)

(* The function of a process never ends, and no timeout was given.         *)
HangsForGood == ~ timed /\ \E n \in Node : fate[n] = "hangs"

(* Without a timeout, the parent waits for a process that waits for the    *)
(* parent to read its exception from the full pipe.                        *)
PipeFull ==
    /\ ~ timed /\ pc = "wait"
    /\ \E n \in workers : fate[n] = "raises_long" /\ proc[n] = "exiting"

(* parallel_run returns, with more nodes than slots, processes that        *)
(* outlive a wait and exceptions nobody reads any more, unless a function  *)
(* never ends or an exception fills the pipe: both need that no timeout    *)
(* was given.                                                              *)
Returns == <>(Over \/ HangsForGood) \/ <>[]PipeFull

(* SonicProcess is a "Wrapper class around multiprocessing.Process that    *)
(* would capture the exception thrown", and the parent reads it "to        *)
(* prevent any error miss": when its return shows no failure, no process   *)
(* that ended by itself has raised anything.                               *)
RaisedReported ==
    Clean => \A n \in Node : proc[n] = "gone" => fate[n] = "returns"
===============================================================================
