--------------------------- MODULE ParallelRunProofs ---------------------------
(***************************************************************************)
(* What parallel_run keeps for every number of nodes and slots: its types  *)
(* and counters, that it leaves no process behind, and what a clean result *)
(* means.                                                                  *)
(***************************************************************************)
EXTENDS ParallelRun, FiniteSetTheorems, TLAPS

USE RunAssumption

Sweeping == {"kill", "lastkill"}

(* The counters against the workers.  While the parent kills everybody the *)
(* workers are no longer counted; a wait always has somebody to wait for,  *)
(* which bounds the rounds by the tasks that are done.  Without a timeout  *)
(* only the last task ends the loop.                                       *)
Accounts ==
    /\ tasksDone + tasksRunning = started
    /\ tasksRunning = IF pc \in {"force", "kill"} THEN 0 ELSE Cardinality(workers)
    /\ Cardinality(workers) <= ConcurrentTasks
    /\ rounds <= tasksDone
    /\ pc = "wait" => workers # {}
    /\ pc = "wait" /\ timed => timeouts <= TotalTimeout
    /\ sweep \subseteq workers
    /\ pc \in {"loop", "wait", "force"} => sweep = {}
    /\ pc \in {"loop", "wait", "force", "kill"} \/ timed \/ tasksDone = N

(* Where the living processes are known to the parent.                     *)
Known ==
    /\ \A n \in Node : proc[n] = "none" <=> n > started
    /\ \A n \in workers : n <= started
    /\ \A n \in Node : Alive(n) => /\ ~ Over
                                   /\ n \in workers
                                   /\ pc \in Sweeping => n \in sweep

(* What is known of every process that has come to its end.                *)
Heard(n) ==
    /\ proc[n] \in {"exiting", "gone"} => fate[n] # "hangs"
    /\ proc[n] \in {"exiting", "gone"} /\ fate[n] = "returns" => results[n] \in {"ok", "failed"}
    /\ proc[n] \in {"exiting", "gone"} /\ fate[n] \in {"raises", "raises_long"} /\ timeouts = 0
           => n \in pipe \cup failed
    /\ proc[n] = "killed" /\ ~ init => n \in named
    /\ proc[n] = "killed" /\ init /\ n = 1 => results[n] = "failed"
    /\ n \in closed /\ timeouts = 0 => ~ Alive(n) /\ proc[n] # "none"

(* As long as no wait has timed out, every round ends with all workers.    *)
Evidence ==
    /\ \A n \in Node : Heard(n)
    /\ timeouts = 0 => pipe \subseteq workers
    /\ timeouts = 0 /\ pc # "wait" => workers = {}
    /\ pc = "returned" => failed = {}

IInv == TypeOK /\ Accounts /\ Known /\ Evidence
-------------------------------------------------------------------------------
LEMMA NodeFinite ==
    /\ IsFiniteSet(Node) /\ Cardinality(Node) = N
    /\ \A S : S \subseteq Node => IsFiniteSet(S) /\ Cardinality(S) \in 0 .. N
<1>1. IsFiniteSet(Node) /\ Cardinality(Node) = N
  BY FS_Interval DEF Node
<1>2. ASSUME NEW S, S \subseteq Node PROVE IsFiniteSet(S) /\ Cardinality(S) \in 0 .. N
  BY <1>1, <1>2, FS_Subset, FS_CardinalityType
<1> QED BY <1>1, <1>2

(* The nodes that get a process are the next k, and k fills the slots or   *)
(* the list.                                                               *)
LEMMA StartableCount ==
    ASSUME TypeOK, Accounts
    PROVE  LET k == Cardinality(Startable) IN
           /\ k \in Nat /\ started + k <= N /\ tasksRunning + k <= ConcurrentTasks
           /\ \A n \in Node : n \in Startable <=> n > started /\ n <= started + k
           /\ k = 0 => started = N \/ tasksRunning = ConcurrentTasks
           /\ Startable \subseteq Node
<1> DEFINE free == ConcurrentTasks - tasksRunning
           k == IF free <= N - started THEN free ELSE N - started
<1>1. /\ started \in Nat /\ started <= N /\ tasksRunning \in Nat
      /\ tasksRunning <= ConcurrentTasks /\ N \in Nat /\ ConcurrentTasks \in Nat
  BY DEF TypeOK
<1>2. k \in Nat /\ started + k <= N /\ tasksRunning + k <= ConcurrentTasks
  BY <1>1
<1>3. Startable = started + 1 .. started + k
  BY <1>1, <1>2 DEF Startable, Node
<1> HIDE DEF k
<1>4. Cardinality(Startable) = k
  <2>1. \A a, b \in Int : a <= b + 1 => Cardinality(a .. b) = b - a + 1
    BY FS_Interval
  <2>2. Cardinality(started + 1 .. started + k) = (started + k) - (started + 1) + 1
    BY <1>1, <1>2, <2>1
  <2> QED BY <1>1, <1>2, <1>3, <2>2
<1>5. \A n \in Node : n \in Startable <=> n > started /\ n <= started + k
  BY <1>1, <1>2, <1>3 DEF Node
<1>6. k = 0 => started = N \/ tasksRunning = ConcurrentTasks
  BY <1>1 DEF k
<1> QED BY <1>2, <1>4, <1>5, <1>6 DEF Startable
LEMMA TotalTimeoutNat == TotalTimeout \in Nat
<1>1. N + ConcurrentTasks - 1 \in Nat /\ ConcurrentTasks \in Nat \ {0}
  OBVIOUS
<1> QED BY <1>1 DEF TotalTimeout

(* Splitting a set of nodes by who is gone.                                *)
LEMMA Split ==
    ASSUME NEW S, NEW T, S \subseteq Node, T \subseteq S
    PROVE  /\ Cardinality(S \ T) = Cardinality(S) - Cardinality(T)
           /\ Cardinality(S) = 0 <=> S = {}
           /\ Cardinality(T) <= Cardinality(S)
<1>1. IsFiniteSet(S) /\ S \cap T = T
  BY NodeFinite
<1>2. Cardinality(S \ T) = Cardinality(S) - Cardinality(S \cap T)
  BY <1>1, FS_Difference
<1>3. Cardinality(S) = 0 <=> S = {}
  BY <1>1, FS_EmptySet
<1>4. Cardinality(T) <= Cardinality(S)
  BY <1>1, FS_Subset
<1> QED BY <1>1, <1>2, <1>3, <1>4

LEMMA Initial == Init => IInv
<1> SUFFICES ASSUME Init PROVE IInv
  OBVIOUS
<1>1. Cardinality({}) = 0
  BY FS_EmptySet
<1>2. 0 \in 0 .. N /\ 0 \in 0 .. ConcurrentTasks /\ 0 \in 0 .. TotalTimeout + 1
  BY TotalTimeoutNat
<1>3. TypeOK
  BY <1>2 DEF Init, TypeOK
<1>4. Accounts
  BY <1>1 DEF Init, Accounts
<1>5. Known
  BY DEF Init, Known, Alive, Node
<1>6. Evidence
  BY DEF Init, Evidence, Heard, Alive
<1> QED BY <1>3, <1>4, <1>5, <1>6 DEF IInv

LEMMA ProcessKeeps ==
    ASSUME IInv, NEW m \in Node, Process(m)
    PROVE  IInv'
<1> USE DEF IInv, Process, Finish, Exit, Return, Raise, params, counts, marks
<1>1. TypeOK'
  BY DEF TypeOK
<1>2. Accounts'
  BY DEF Accounts
<1>3. Known'
  BY DEF Known, Alive, Over, TypeOK, Sweeping
<1>4. Evidence'
  BY DEF Evidence, Heard, Known, Alive, TypeOK, Over
<1> QED BY <1>1, <1>2, <1>3, <1>4

LEMMA StartKeeps ==
    ASSUME IInv, Start
    PROVE  IInv'
<1> DEFINE k == Cardinality(Startable)
<1> USE DEF IInv
<1>1. /\ k \in Nat /\ started + k <= N /\ tasksRunning + k <= ConcurrentTasks
      /\ \A n \in Node : n \in Startable <=> n > started /\ n <= started + k
      /\ k = 0 => started = N \/ tasksRunning = ConcurrentTasks
      /\ Startable \subseteq Node
  BY StartableCount
<1>2. /\ started' = started + k /\ tasksRunning' = tasksRunning + k
      /\ workers' = workers \cup Startable
  BY DEF Start, WaitFor
<1> HIDE DEF k
<1>3. TypeOK'
  BY <1>1, <1>2 DEF TypeOK, Start, params, marks
<1>4. Accounts'
  <2>1. workers \cap Startable = {}
    BY <1>1 DEF Known, TypeOK, Node
  <2>2. Cardinality(workers') = Cardinality(workers) + k
    <3>1. IsFiniteSet(workers) /\ IsFiniteSet(Startable)
      BY <1>1, NodeFinite DEF TypeOK
    <3>2. Cardinality(workers) \in Nat /\ Cardinality({}) = 0
      BY <3>1, FS_CardinalityType, FS_EmptySet
    <3>3. Cardinality(workers \cup Startable) = Cardinality(workers) + Cardinality(Startable)
                                                   - Cardinality(workers \cap Startable)
      BY <3>1, FS_Union
    <3>4. Cardinality(workers \cap Startable) = 0 /\ Cardinality(Startable) = k
      BY <2>1, <3>2 DEF k
    <3>5. k \in Nat
      BY <1>1
    <3> QED BY <1>2, <3>2, <3>3, <3>4, <3>5
  <2>3. Cardinality(workers) = tasksRunning /\ tasksDone + tasksRunning = started
    BY DEF Start, Accounts
  <2>4. workers' # {}
    <3>1. k # 0 \/ tasksRunning # 0
      BY <1>1, <2>3 DEF Start, TypeOK
    <3>2. Cardinality(workers') # 0
      BY <1>1, <2>2, <2>3, <3>1 DEF TypeOK
    <3> QED BY <3>2, FS_EmptySet
  <2> QED BY <1>1, <1>2, <2>2, <2>3, <2>4 DEF Start, Accounts, TypeOK, params
<1>5. Known'
  BY <1>1, <1>2 DEF Start, Known, Alive, Over, Sweeping, TypeOK, Node
<1>6. Evidence'
  BY <1>1, <1>2 DEF Start, Evidence, Heard, Known, Alive, TypeOK, params, marks
<1> QED BY <1>3, <1>4, <1>5, <1>6

LEMMA GatherKeeps ==
    ASSUME IInv, Gather
    PROVE  IInv'
<1> DEFINE alive == {n \in workers : Alive(n)}
           gone == workers \ alive
           done == IF gone = {} THEN workers ELSE gone
<1> USE DEF IInv
<1>1. /\ pc = "wait" /\ alive \subseteq workers /\ workers \subseteq Node /\ workers # {}
      /\ tasksRunning = Cardinality(workers) /\ (alive = {} \/ timed)
  BY DEF Gather, Accounts, TypeOK, WaitEnds
<1>2. /\ workers' = alive /\ tasksRunning' = tasksRunning - Cardinality(done)
      /\ tasksDone' = tasksDone + Cardinality(done)
      /\ pc' = IF gone = {} THEN "force" ELSE "loop"
  BY DEF Gather
<1>3. /\ Cardinality(alive) \in Nat /\ Cardinality(workers) \in Nat
      /\ Cardinality(workers) # 0 /\ Cardinality(alive) <= Cardinality(workers)
      /\ Cardinality(gone) = Cardinality(workers) - Cardinality(alive)
      /\ alive = {} => Cardinality(alive) = 0
      /\ gone = {} <=> alive = workers
  <2>1. alive \subseteq Node
    BY <1>1
  <2> HIDE DEF alive
  <2>2. Cardinality(alive) \in Nat /\ Cardinality(workers) \in Nat
    BY <1>1, <2>1, NodeFinite
  <2>3. Cardinality(workers) # 0 /\ Cardinality(alive) <= Cardinality(workers)
        /\ Cardinality(gone) = Cardinality(workers) - Cardinality(alive)
    BY <1>1, Split
  <2>4. alive = {} => Cardinality(alive) = 0
    BY FS_EmptySet
  <2>5. gone = {} <=> alive = workers
    BY <1>1
  <2> QED BY <2>2, <2>3, <2>4, <2>5
<1> HIDE DEF alive
<1>4. /\ Cardinality(done) \in Nat /\ Cardinality(done) <= tasksRunning
      /\ tasksRunning - Cardinality(done) = IF gone = {} THEN 0 ELSE Cardinality(alive)
      /\ alive = {} => Cardinality(done) >= 1
  <2>1. CASE gone = {}
    <3>1. Cardinality(done) = Cardinality(workers)
      BY <2>1
    <3> HIDE DEF done, gone
    <3>2. tasksRunning = Cardinality(workers) /\ alive # {}
      BY <1>1, <1>3, <2>1
    <3> QED BY <1>3, <2>1, <3>1, <3>2
  <2>2. CASE gone # {}
    <3>1. Cardinality(done) = Cardinality(gone)
      BY <2>2
    <3> HIDE DEF done, gone
    <3>2. tasksRunning = Cardinality(workers)
      BY <1>1
    <3> QED BY <1>3, <2>2, <3>1, <3>2
  <2> QED BY <2>1, <2>2
<1> HIDE DEF gone
<1> HIDE DEF done
<1>5. TypeOK'
  <2>1. tasksRunning' \in 0 .. ConcurrentTasks
    BY <1>2, <1>4 DEF TypeOK
  <2>2. tasksDone' \in 0 .. N
    BY <1>2, <1>4 DEF TypeOK, Accounts
  <2>3. timeouts' \in 0 .. TotalTimeout + 1 /\ rounds' \in 0 .. N
    <3>1. CASE alive = {}
      <4>1. rounds' = rounds + 1 /\ timeouts' = timeouts
        BY <3>1 DEF Gather, alive
      <4>2. rounds + 1 <= tasksDone'
        BY <1>2, <1>4, <3>1 DEF TypeOK, Accounts
      <4> QED BY <2>2, <4>1, <4>2 DEF TypeOK
    <3>2. CASE alive # {}
      <4>1. rounds' = rounds /\ timeouts' = timeouts + 1 /\ timeouts <= TotalTimeout
        BY <1>1, <3>2 DEF Gather, Accounts, alive
      <4> QED BY <4>1, TotalTimeoutNat DEF TypeOK
    <3> QED BY <3>1, <3>2
  <2>4. workers' \subseteq Node /\ pc' \in {"force", "loop"}
    BY <1>1, <1>2
  <2> QED BY <2>1, <2>2, <2>3, <2>4 DEF TypeOK, Gather, params, marks
<1>6. Accounts'
  <2>1. tasksDone' + tasksRunning' = started'
    BY <1>2, <1>4 DEF Accounts, TypeOK, Gather
  <2>2. tasksRunning' = IF pc' \in {"force", "kill"} THEN 0 ELSE Cardinality(workers')
    BY <1>2, <1>4
  <2>3. Cardinality(workers') <= ConcurrentTasks
    BY <1>2, <1>3, ConcurrentTasks \in Nat DEF Accounts
  <2>4. rounds' <= tasksDone'
    <3>1. CASE alive = {}
      BY <1>2, <1>4, <3>1 DEF TypeOK, Accounts, Gather, alive
    <3>2. CASE alive # {}
      BY <1>2, <1>4, <3>2 DEF TypeOK, Accounts, Gather, alive
    <3> QED BY <3>1, <3>2
  <2>5. sweep' = {} /\ pc' # "wait" /\ pc' \in {"force", "loop"}
    BY <1>1, <1>2 DEF Accounts, Gather
  <2> QED BY <2>1, <2>2, <2>3, <2>4, <2>5 DEF Accounts
<1>7. Known'
  BY <1>1, <1>2 DEF Gather, Known, Alive, Over, Sweeping, alive
<1>8. Evidence'
  <2>1. timeouts' = 0 => timeouts = 0 /\ alive = {}
    BY DEF Gather, TypeOK, alive
  <2>2. ASSUME NEW n \in Node PROVE Heard(n)'
    <3>1. Heard(n) /\ (proc[n] = "none" <=> n > started) /\ (n \in workers => n <= started)
      BY DEF Evidence, Known
    <3>2. n \in workers /\ timeouts' = 0 => proc[n] # "none" /\ ~ Alive(n)
      BY <2>1, <3>1 DEF alive, TypeOK, Node
    <3> QED BY <2>1, <3>1, <3>2 DEF Gather, Heard, Alive, params, marks
  <2>3. timeouts' = 0 => pipe' = {} /\ workers' = {}
    BY <1>2, <2>1 DEF Gather, Evidence
  <2> QED BY <1>2, <2>2, <2>3 DEF Evidence
<1> QED BY <1>5, <1>6, <1>7, <1>8

(* The steps that only move the parent on, or take somebody out of a sweep. *)
LEMMA LeaveLoopKeeps == ASSUME IInv, LeaveLoop PROVE IInv'
<1> USE DEF IInv, LeaveLoop, params, shared, counts, marks
<1>1. TypeOK' /\ Accounts'
  BY DEF TypeOK, Accounts
<1>2. Known'
  BY DEF Known, Alive, Over, Sweeping
<1>3. Evidence'
  BY DEF Evidence, Heard, Alive
<1> QED BY <1>1, <1>2, <1>3

LEMMA TerminatedKeeps == ASSUME IInv, Terminated \/ ForceTerminate \/ Killed \/ End PROVE IInv'
<1> USE DEF IInv, Terminated, ForceTerminate, Killed, End, params, shared, counts, marks
<1>1. TypeOK'
  BY DEF TypeOK
<1>2. Accounts'
  <2>1. Cardinality({}) = 0
    BY FS_EmptySet
  <2>2. CASE Killed
    BY <2>1, <2>2 DEF Accounts, TypeOK
  <2>3. CASE ForceTerminate
    BY <2>3 DEF Accounts, TypeOK
  <2>4. CASE Terminated \/ End
    BY <2>4 DEF Accounts, TypeOK
  <2> QED BY <2>2, <2>3, <2>4
<1>3. Known'
  BY DEF Known, Alive, Over, Sweeping, TypeOK
<1>4. Evidence'
  BY DEF Evidence, Heard, Alive, TypeOK
<1> QED BY <1>1, <1>2, <1>3, <1>4

LEMMA SweepKeeps ==
    ASSUME IInv, NEW m \in Node, Terminate(m) \/ Kill(m)
    PROVE  IInv'
<1> USE DEF IInv, Terminate, Kill, MarkFailed, params, counts, marks
<1>1. TypeOK'
  BY DEF TypeOK
<1>2. Accounts'
  BY DEF Accounts
<1>3. Known'
  BY DEF Known, Alive, Over, Sweeping, TypeOK
<1>4. Evidence'
  BY DEF Evidence, Heard, Alive, TypeOK, Known, Accounts, Sweeping, Over
<1> QED BY <1>1, <1>2, <1>3, <1>4

LEMMA Inductive == IInv /\ [Next]_vars => IInv'
<1>1. ASSUME IInv, Next PROVE IInv'
  BY <1>1, ProcessKeeps, StartKeeps, GatherKeeps, LeaveLoopKeeps, TerminatedKeeps, SweepKeeps
     DEF Next, Parent
<1>2. ASSUME IInv, UNCHANGED vars PROVE IInv'
  BY <1>2 DEF IInv, TypeOK, Accounts, Known, Evidence, Heard, Alive, Over, Sweeping, vars,
     params, shared, counts, marks
<1> QED BY <1>1, <1>2

LEMMA Invariance == Spec => []IInv
BY Initial, Inductive, PTL DEF Spec
-------------------------------------------------------------------------------
(* Every variable keeps its type, for every number of nodes and slots.     *)
THEOREM Typing == Spec => []TypeOK
<1>1. IInv => TypeOK
  BY DEF IInv
<1> QED BY <1>1, Invariance, PTL

(* No process outlives the call: whoever is alive is one of the workers    *)
(* the parent knows, and is swept before the end.                          *)
THEOREM NobodySurvives == Spec => []NoSurvivors
<1>1. IInv => NoSurvivors
  BY DEF IInv, Known, NoSurvivors
<1> QED BY <1>1, Invariance, PTL

(* The slots and the counters of parallel_run agree with its processes.    *)
THEOREM Slots == Spec => []SlotsAccounted
<1>1. IInv => SlotsAccounted
  <2> SUFFICES ASSUME IInv PROVE SlotsAccounted
    OBVIOUS
  <2> DEFINE living == {n \in Node : Alive(n)}
  <2>1. living \subseteq workers /\ workers \subseteq Node
    BY DEF IInv, Known, TypeOK
  <2>2. /\ Cardinality(living) <= Cardinality(workers)
        /\ Cardinality(living) \in Nat /\ Cardinality(workers) \in Nat
    <3>1. living \subseteq Node
      OBVIOUS
    <3> HIDE DEF living
    <3>2. Cardinality(living) \in Nat /\ Cardinality(workers) \in Nat
      BY <2>1, <3>1, NodeFinite
    <3>3. Cardinality(living) <= Cardinality(workers)
      BY <2>1, Split
    <3> QED BY <3>2, <3>3
  <2>3. Cardinality(workers) <= ConcurrentTasks
    BY DEF IInv, Accounts
  <2> QED BY <2>2, <2>3 DEF IInv, Accounts, TypeOK, SlotsAccounted
<1> QED BY <1>1, Invariance, PTL

(* What a clean result of parallel_run means.                              *)
THEOREM CleanResults == Spec => []CleanIsComplete
<1>1. IInv => CleanIsComplete
  <2> SUFFICES ASSUME IInv, Clean, NEW n \in Node
               PROVE  results[n] = "ok" \/ (timed /\ proc[n] = "none") \/ Unheard(n)
    BY DEF CleanIsComplete
  <2>1. /\ pc = "returned" /\ n \notin named /\ results[n] # "failed" /\ failed = {}
        /\ Heard(n) /\ ~ Alive(n)
    BY DEF Clean, IInv, Evidence, Known, Over
  <2>2. timeouts = 0 => pipe = {}
    BY <2>1 DEF IInv, Evidence
  <2>3. fate[n] \in {"returns", "raises", "raises_long", "fails", "hangs"}
    BY DEF IInv, TypeOK
  <2>4. timeouts \in Nat
    BY TotalTimeoutNat DEF IInv, TypeOK
  <2>5. proc[n] \in {"none", "gone", "killed"}
    BY <2>1 DEF IInv, TypeOK, Alive
  <2>6. proc[n] = "none" => timed
    <3>1. tasksDone = N => started = N /\ n <= N
      BY DEF IInv, TypeOK, Accounts, Node
    <3>2. (proc[n] = "none" <=> n > started) /\ (timed \/ tasksDone = N)
      BY <2>1 DEF IInv, Known, Accounts
    <3> QED BY <3>1, <3>2 DEF IInv, TypeOK, Node
  <2> QED BY <2>1, <2>2, <2>3, <2>4, <2>5, <2>6 DEF Heard, Unheard
<1> QED BY <1>1, Invariance, PTL
===============================================================================
