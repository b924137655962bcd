------------------------- MODULE BatchSchedulerProofs -------------------------
(***************************************************************************)
(* What the batch scheduler keeps for every testbed and suite, in every    *)
(* interleaving of its workers, with processes that die and with the       *)
(* monitor: its types, its devices, its tests, and that nobody leaves while*)
(* there is work for him.                                                  *)
(***************************************************************************)
EXTENDS BatchOperations, FiniteSetTheorems

(***************************************************************************)
(* The inductive invariant.                                                *)
(***************************************************************************)

(* A node is known until its end was handled, and is in the list once.     *)
Known(d, P) ==
    /\ IsInjective(d.nodes)
    /\ \A w \in Worker : P[w].phase \in {"run", "done", "dead"} => w \in ToSet(d.nodes)

(* A process may lose only its own devices, and only where a run has       *)
(* excluded devices.                                                       *)
Losses(P) == \A w \in Worker : P[w].lost \subseteq Devices(w) /\ (~ setup.exclude => P[w].lost = {})

(* Before the first round nobody has had a test or has left, and the       *)
(* workers of the whole testbeds are started.                              *)
Fresh(d, P) ==
    /\ d.shut = {} /\ ToSet(d.nodes) = Worker
    /\ \A w \in Worker :
          /\ P[w].phase = "run" /\ P[w].reports = <<>> /\ d.inbox[w] = <<>>
          /\ Starter(setup, w) => HeldBy(d, w) /\ d.excluded[w] = 0

(* All that holds of the data d, of the processes P and of begun, b.       *)
Good(d, P, b) ==
    /\ d \in Data /\ P \in [Worker -> Process] /\ Known(d, P) /\ Losses(P)
    /\ TestsInv(d, P, {}) /\ DevicesInv(d) /\ (b => Noted(d)) /\ (~ b => Fresh(d, P))

(* The inductive invariant.                                                *)
Inv ==
    /\ setup \in Setups /\ begun \in BOOLEAN /\ deaths \in 0 .. setup.deaths
    /\ Good(wa, proc, begun)

(* The types depend on the setup only.                                     *)
LEMMA SameSetup ==
    ASSUME setup' = setup
    PROVE  /\ Data' = Data /\ Process' = Process /\ Worker' = Worker /\ Module' = Module
           /\ \A w : Devices(w)' = Devices(w)
           /\ \A m : Tests(m)' = Tests(m) /\ NodesOf(m)' = NodesOf(m)
<1>1. Worker' = Worker /\ Module' = Module
  BY DEF Worker, Module
<1>2. \A w : Devices(w)' = Devices(w)
  BY DEF Devices
<1>3. \A m : Tests(m)' = Tests(m)
  BY DEF Tests
<1>4. ASSUME NEW m PROVE NodesOf(m)' = NodesOf(m)
  BY <1>1 DEF NodesOf, Matching, Larger, WholeBed
<1>5. Test' = Test /\ Device' = Device
  BY <1>1, <1>2, <1>3 DEF Test, Device
<1>6. Data' = Data /\ Process' = Process
  BY <1>1, <1>5 DEF Data, Process
<1>7. QED BY <1>1, <1>2, <1>3, <1>4, <1>6

(* While the setup stays, to be good in the next state is to be good with  *)
(* the next data.                                                          *)
LEMMA SameGood ==
    ASSUME setup' = setup, Good(wa', proc', begun')
    PROVE  Good(wa, proc, begun)'
<1>1. /\ Data' = Data /\ Process' = Process /\ Worker' = Worker /\ Module' = Module
      /\ \A w : Devices(w)' = Devices(w)
      /\ \A m : Tests(m)' = Tests(m) /\ NodesOf(m)' = NodesOf(m)
  BY SameSetup
<1>2. (wa \in Data)' /\ (proc \in [Worker -> Process])'
  BY <1>1 DEF Good
<1>3. Known(wa, proc)'
  BY <1>1 DEF Good, Known
<1>4. Losses(proc)'
  BY <1>1 DEF Good, Losses
<1>5. Placed(wa)' /\ Once(wa)'
  BY <1>1 DEF Good, TestsInv, Placed, Once
<1>6. Ended(wa, {})' /\ InStep(wa, proc)'
  BY <1>1 DEF Good, TestsInv, Ended, InStep, HeldBy
<1>7. \A w : Nothing(wa, w)' <=> Nothing(wa', w)
  BY <1>1 DEF Nothing, Pending
<1>8. Left(wa, proc)'
  BY <1>1, <1>7 DEF Good, TestsInv, Left
<1>9. DevicesInv(wa)'
  BY <1>1 DEF Good, DevicesInv, Accounted, Disjoint, HeldBy
<1>10. (begun => Noted(wa))'
  BY <1>1 DEF Good, Noted, Pending
<1>11. (~ begun => Fresh(wa, proc))'
  BY <1>1 DEF Good, Fresh, HeldBy, Starter
<1>12. QED BY <1>2, <1>3, <1>4, <1>5, <1>6, <1>8, <1>9, <1>10, <1>11 DEF Good, TestsInv

(* The invariant holds at the start: the worker of each whole testbed has  *)
(* all of its devices, and no other worker has any.                        *)
LEMMA Initial ==
    ASSUME Init
    PROVE  Inv
<1>1. PICK order \in setup.arrivals :
          wa = [started |-> {w \in Worker : Starter(setup, w)},
                completed |-> [w \in Worker |-> "False"],
                excluded |-> [w \in Worker |-> 0],
                errored |-> {}, applicable |-> {},
                infra |-> IF setup.infra THEN Worker ELSE {},
                free |-> {}, out |-> {}, main |-> Module, nodes |-> order, shut |-> {},
                queue |-> [w \in Worker |-> <<>>], inbox |-> [w \in Worker |-> <<>>],
                ran |-> {}, nes |-> {}]
  BY DEF Init
<1>2. /\ setup \in Setups /\ begun = FALSE /\ deaths = 0
      /\ proc = [w \in Worker |-> [phase |-> "run", lost |-> {}, reports |-> <<>>]]
  BY DEF Init
<1>3. TestbedsAssumption(setup) /\ setup.deaths \in Nat
  BY <1>2, SetupsAssumption
<1>4. order \in Seq(Worker) /\ IsInjective(order) /\ ToSet(order) = Worker
  BY <1>3 DEF TestbedsAssumption, Worker
<1>5. <<>> \in Seq(Test)
  OBVIOUS
<1>6. wa \in Data
  <2>1. [w \in Worker |-> "False"] \in [Worker -> {"False", "True", "None"}]
    OBVIOUS
  <2>2. [w \in Worker |-> 0] \in [Worker -> 0 .. 2]
    OBVIOUS
  <2>3. [w \in Worker |-> <<>>] \in [Worker -> Seq(Test)]
    BY <1>5
  <2>4. (IF setup.infra THEN Worker ELSE {}) \in SUBSET Worker
    OBVIOUS
  <2>5. QED BY <1>1, <1>4, <2>1, <2>2, <2>3, <2>4 DEF Data
<1>7. proc \in [Worker -> Process]
  BY <1>2, <1>5 DEF Process
<1>8. /\ \A w \in Worker : /\ wa.queue[w] = <<>> /\ wa.inbox[w] = <<>> /\ wa.excluded[w] = 0
                           /\ wa.completed[w] = "False"
                           /\ proc[w].phase = "run" /\ proc[w].lost = {} /\ proc[w].reports = <<>>
      /\ wa.nodes = order /\ wa.shut = {} /\ wa.main = Module /\ wa.ran = {} /\ wa.nes = {}
      /\ wa.free = {} /\ wa.out = {} /\ wa.started = {w \in Worker : Starter(setup, w)}
  BY <1>1, <1>2
<1>9. \A w \in Worker : HeldBy(wa, w) <=> Starter(setup, w)
  BY <1>8 DEF HeldBy
<1>10. Known(wa, proc) /\ Losses(proc) /\ Fresh(wa, proc)
  BY <1>4, <1>8, <1>9 DEF Known, Losses, Fresh
<1>11. \A w \in Worker : ToSet(wa.queue[w]) = {}
  BY <1>8 DEF ToSet
<1>12. Placed(wa)
  BY <1>8, <1>11 DEF Placed
<1>13. Once(wa) /\ Ended(wa, {}) /\ Left(wa, proc)
  BY <1>8, <1>11 DEF Once, OnceIn, Ended, Left
<1>14. InStep(wa, proc)
  <2>1. <<>> \o <<>> = <<>> /\ Len(<<>>) = 0
    BY <1>5, ConcatEmptySeq, EmptySeq
  <2>2. \A w \in Worker : /\ wa.queue[w] = <<>> /\ wa.inbox[w] = <<>>
                           /\ proc[w].reports = <<>> /\ Len(proc[w].reports) = 0
    BY <1>8, <2>1
  <2>3. \A w \in Worker : wa.queue[w] = proc[w].reports \o wa.inbox[w]
    BY <2>1, <2>2
  <2>4. SUFFICES ASSUME NEW w \in Worker
                 PROVE  /\ Len(proc[w].reports) <= Len(wa.queue[w])
                        /\ \A i \in 1 .. Len(proc[w].reports) : proc[w].reports[i] = wa.queue[w][i]
                        /\ proc[w].phase = "run" => wa.queue[w] = proc[w].reports \o wa.inbox[w]
                        /\ proc[w].phase = "run" /\ wa.inbox[w] # <<>> => HeldBy(wa, w)
    BY DEF InStep
  <2>5. Len(proc[w].reports) = 0 /\ Len(wa.queue[w]) = 0
    BY <2>1, <2>2
  <2>6. Len(proc[w].reports) <= Len(wa.queue[w]) /\ 1 .. Len(proc[w].reports) = {}
    BY <2>5
  <2>7. QED BY <2>2, <2>3, <2>6
<1>15. Accounted(wa)
  <2>1. \A w \in Worker : \E v \in Worker : Starter(setup, v) /\ Devices(w) \subseteq Devices(v)
    BY <1>3 DEF TestbedsAssumption, Worker, Devices
  <2>2. QED BY <1>9, <2>1 DEF Accounted
<1>16. Disjoint(wa)
  <2>1. \A v, w \in Worker : v # w /\ Starter(setup, v) /\ Starter(setup, w) =>
           Devices(v) \cap Devices(w) = {}
    BY <1>3 DEF TestbedsAssumption, Worker, Devices
  <2>2. QED BY <1>8, <1>9, <2>1 DEF Disjoint
<1>17. 0 \in 0 .. setup.deaths
  BY <1>3
<1>18. QED BY <1>2, <1>6, <1>7, <1>10, <1>12, <1>13, <1>14, <1>15, <1>16, <1>17
           DEF Inv, Good, TestsInv, DevicesInv

(* The first round keeps the invariant.                                    *)
LEMMA ScheduleFirstGood ==
    ASSUME Inv, ScheduleFirst
    PROVE  Good(wa', proc', begun')
<1>1. /\ setup \in Setups /\ wa \in Data /\ proc \in [Worker -> Process] /\ Known(wa, proc)
      /\ Losses(proc) /\ TestsInv(wa, proc, {}) /\ DevicesInv(wa) /\ Fresh(wa, proc)
  BY DEF Inv, Good, ScheduleFirst, AllCollected
<1> DEFINE e == Schedule(wa, {})
<1>2. proc' = proc /\ begun' = TRUE /\ wa' = ShutDownWhenFinished(e)
  BY DEF ScheduleFirst, AllCollected
<1>3. e \in Data /\ SameHolders(wa, e) /\ TestsInv(e, proc, {}) /\ Noted(e)
  <2>1. CASE Worker = {}
    <3>1. Len(wa.nodes) \in Nat /\ DOMAIN wa.nodes = 1 .. Len(wa.nodes)
      BY <1>1 DEF Data
    <3>2. Len(wa.nodes) = 0
      <4>1. \A i \in 1 .. Len(wa.nodes) : FALSE
        <5>1. ToSet(wa.nodes) = {}
          BY <1>1, <2>1 DEF Fresh
        <5>2. QED BY <3>1, <5>1 DEF ToSet
      <4>2. QED BY <3>1, <4>1
    <3>3. e = wa
      BY <3>1, <3>2, ScheduleUnfolds
    <3>4. QED BY <1>1, <2>1, <3>3 DEF SameHolders, Noted
  <2>2. CASE Worker # {}
    <3>1. PICK w \in Worker : Starter(setup, w)
      <4>1. TestbedsAssumption(setup)
        BY <1>1, SetupsAssumption
      <4>2. QED BY <2>2, <4>1 DEF TestbedsAssumption, Worker
    <3>2. w \in ToSet(wa.nodes) /\ HeldBy(wa, w) /\ wa.excluded[w] = 0
      BY <1>1, <3>1 DEF Fresh
    <3>3. wa.shut = {} /\ IsInjective(wa.nodes)
      BY <1>1 DEF Fresh, Known
    <3>4. QED BY <1>1, <3>2, <3>3, FirstScheduleKeeps
  <2>3. QED BY <2>1, <2>2
<1> HIDE DEF e
<1>4. DevicesInv(e)
  BY <1>1, <1>3 DEF SameHolders, DevicesInv, Accounted, Disjoint, HeldBy
<1>5. Kept(e, wa', proc, {})
  BY <1>1, <1>2, <1>3, <1>4, ShutDownKeeps
<1>6. Known(wa', proc)
  BY <1>1, <1>3, <1>5 DEF Kept, SameHolders, Known
<1>7. QED BY <1>1, <1>2, <1>5, <1>6 DEF Good, Kept

(* Once something happened to a node the first round is over.              *)
LEMMA NotFresh ==
    ASSUME Inv, NEW w \in Worker,
           \/ proc[w].phase # "run" \/ proc[w].reports # <<>>
           \/ wa.inbox[w] # <<>> \/ w \in wa.shut
    PROVE  /\ begun /\ setup \in Setups /\ wa \in Data /\ proc \in [Worker -> Process]
           /\ Known(wa, proc) /\ Losses(proc) /\ Noted(wa) /\ DevicesInv(wa)
           /\ TestsInv(wa, proc, {})
           /\ Placed(wa) /\ Once(wa) /\ Ended(wa, {}) /\ InStep(wa, proc) /\ Left(wa, proc)
BY DEF Inv, Good, Fresh, TestsInv

(***************************************************************************)
(* The processes of the nodes.                                             *)
(***************************************************************************)

(* A process that stops running, or goes on as before, stays in step.      *)
LEMMA InStepStays ==
    ASSUME NEW d, NEW e, NEW P, NEW Q, InStep(d, P),
           \A v \in Worker :
              /\ Q[v].reports = P[v].reports /\ e.queue[v] = d.queue[v]
              /\ Q[v].phase = "run" => /\ P[v].phase = "run" /\ e.inbox[v] = d.inbox[v]
                                       /\ HeldBy(d, v) => HeldBy(e, v)
    PROVE  InStep(e, Q)
<1>1. SUFFICES ASSUME NEW v \in Worker
               PROVE  /\ Len(Q[v].reports) <= Len(e.queue[v])
                      /\ \A i \in 1 .. Len(Q[v].reports) : Q[v].reports[i] = e.queue[v][i]
                      /\ Q[v].phase = "run" => e.queue[v] = Q[v].reports \o e.inbox[v]
                      /\ Q[v].phase = "run" /\ e.inbox[v] # <<>> => HeldBy(e, v)
  BY DEF InStep
<1>2. /\ Len(P[v].reports) <= Len(d.queue[v])
      /\ \A i \in 1 .. Len(P[v].reports) : P[v].reports[i] = d.queue[v][i]
      /\ P[v].phase = "run" => d.queue[v] = P[v].reports \o d.inbox[v]
      /\ P[v].phase = "run" /\ d.inbox[v] # <<>> => HeldBy(d, v)
  BY DEF InStep
<1>3. QED
  BY <1>2

(* A change of one inbox changes only that.                                *)
LEMMA InboxOnly ==
    ASSUME NEW d \in Data, NEW w \in Worker, NEW b \in Seq(Test)
    PROVE  LET e == [d EXCEPT !.inbox[w] = b] IN
           /\ e \in Data /\ SameHolders(d, e) /\ e.main = d.main /\ e.queue = d.queue
           /\ e.ran = d.ran /\ e.nes = d.nes /\ e.applicable = d.applicable /\ e.shut = d.shut
           /\ e.inbox = [d.inbox EXCEPT ![w] = b]
BY DEF Data, SameHolders

(* Inboxes matter only to processes that run.                              *)
LEMMA InboxKeeps ==
    ASSUME NEW d \in Data, NEW e \in Data, NEW P, NEW Q,
           SameHolders(d, e), e.main = d.main, e.queue = d.queue,
           e.ran = d.ran, e.nes = d.nes, e.applicable = d.applicable, e.shut = d.shut,
           \A v \in Worker : Q[v].phase = P[v].phase \/ Q[v].phase = "dead",
           TestsInv(d, P, {}), InStep(e, Q), DevicesInv(d), Noted(d)
    PROVE  TestsInv(e, Q, {}) /\ DevicesInv(e) /\ Noted(e)
<1>1. Placed(e) /\ Once(e)
  BY DEF TestsInv, Placed, Once
<1>2. Ended(e, {})
  BY DEF TestsInv, Ended, SameHolders
<1>3. \A v \in Worker : Nothing(d, v) => Nothing(e, v)
  BY DEF Nothing, Pending, SameHolders
<1>4. Left(e, Q)
  BY <1>3 DEF TestsInv, Left, SameHolders
<1>5. DevicesInv(e)
  BY DEF DevicesInv, Accounted, Disjoint, HeldBy, SameHolders
<1>6. Noted(e)
  BY NotedShrinks DEF SameHolders
<1>7. QED BY <1>1, <1>2, <1>4, <1>5, <1>6 DEF TestsInv

(* A process runs a test.                                                  *)
LEMMA ExecuteGood ==
    ASSUME Inv, NEW w \in Worker, Execute(w)
    PROVE  Good(wa', proc', begun')
<1> DEFINE b == wa.inbox[w]
           r == proc[w].reports
           q == wa.queue[w]
<1>1. /\ proc[w].phase = "run" /\ Len(b) >= 1 /\ begun' = begun
      /\ wa' = [wa EXCEPT !.inbox[w] = Tail(b)]
      /\ proc' = [proc EXCEPT ![w].reports = Append(r, Head(b))]
  BY DEF Execute
<1>2. wa \in Data /\ proc \in [Worker -> Process]
  BY DEF Inv, Good
<1>3. b \in Seq(Test) /\ r \in Seq(Test) /\ q \in Seq(Test)
  BY <1>2 DEF Data, Process
<1>4. b # <<>>
  BY <1>1, <1>3, EmptySeq
<1>5. /\ begun /\ Known(wa, proc) /\ Losses(proc) /\ Noted(wa) /\ DevicesInv(wa)
      /\ TestsInv(wa, proc, {}) /\ InStep(wa, proc)
  BY <1>4, NotFresh
<1>6. HeldBy(wa, w) /\ q = r \o b
  BY <1>1, <1>4, <1>5 DEF InStep
<1> HIDE DEF b, r, q
<1>7. Tail(b) \in Seq(Test) /\ Head(b) \in Test /\ Append(r, Head(b)) \in Seq(Test)
  BY <1>3, <1>4, HeadTailProperties, AppendProperties
<1>8. /\ wa' \in Data /\ SameHolders(wa, wa') /\ wa'.main = wa.main /\ wa'.queue = wa.queue
      /\ wa'.ran = wa.ran /\ wa'.nes = wa.nes /\ wa'.applicable = wa.applicable
      /\ wa'.shut = wa.shut /\ wa'.inbox = [wa.inbox EXCEPT ![w] = Tail(b)]
  <2> DEFINE c == Tail(b)
             e == [wa EXCEPT !.inbox[w] = c]
  <2>1. c \in Seq(Test)
    BY <1>7
  <2> HIDE DEF c
  <2>2. /\ e \in Data /\ SameHolders(wa, e) /\ e.main = wa.main /\ e.queue = wa.queue
        /\ e.ran = wa.ran /\ e.nes = wa.nes /\ e.applicable = wa.applicable /\ e.shut = wa.shut
        /\ e.inbox = [wa.inbox EXCEPT ![w] = c]
    BY <1>2, <2>1, InboxOnly
  <2>3. wa' = e
    BY <1>1 DEF c
  <2> HIDE DEF e
  <2>4. QED BY <2>2, <2>3 DEF c
<1>9. /\ proc' \in [Worker -> Process]
      /\ \A v \in Worker :
            /\ proc'[v].phase = proc[v].phase /\ proc'[v].lost = proc[v].lost
            /\ proc'[v].reports = IF v = w THEN Append(r, Head(b)) ELSE proc[v].reports
            /\ wa'.inbox[v] = IF v = w THEN Tail(b) ELSE wa.inbox[v]
            /\ HeldBy(wa', v) <=> HeldBy(wa, v)
  <2> DEFINE a == Append(r, Head(b))
  <2>1. a \in Seq(Test)
    BY <1>7
  <2>2. proc' = [proc EXCEPT ![w].reports = a]
    BY <1>1
  <2> HIDE DEF a
  <2>3. /\ proc' \in [Worker -> Process]
        /\ \A v \in Worker :
              /\ proc'[v].phase = proc[v].phase /\ proc'[v].lost = proc[v].lost
              /\ proc'[v].reports = IF v = w THEN a ELSE proc[v].reports
    BY <1>2, <2>1, <2>2 DEF Process
  <2>4. \A v \in Worker :
            /\ wa'.inbox[v] = IF v = w THEN Tail(b) ELSE wa.inbox[v]
            /\ HeldBy(wa', v) <=> HeldBy(wa, v)
    BY <1>2, <1>8 DEF Data, HeldBy, SameHolders
  <2>5. QED BY <2>3, <2>4 DEF a
<1>10. InStep(wa', proc')
  <2> DEFINE a == Append(r, Head(b))
  <2>1. q = a \o Tail(b)
    BY <1>3, <1>4, <1>6, HeadMoves
  <2> HIDE DEF a
  <2>2. Len(a) <= Len(q) /\ \A i \in 1 .. Len(a) : a[i] = q[i]
    <3>1. /\ a \in Seq(Test) /\ Tail(b) \in Seq(Test)
      BY <1>7 DEF a
    <3>2. /\ Len(q) = Len(a) + Len(Tail(b))
          /\ \A i \in 1 .. Len(a) + Len(Tail(b)) :
                q[i] = IF i <= Len(a) THEN a[i] ELSE Tail(b)[i - Len(a)]
      BY <2>1, <3>1, ConcatProperties
    <3>3. Len(a) \in Nat /\ Len(Tail(b)) \in Nat
      BY <3>1
    <3>4. QED BY <3>2, <3>3
  <2>3. SUFFICES ASSUME NEW v \in Worker
                 PROVE  /\ Len(proc'[v].reports) <= Len(wa'.queue[v])
                        /\ \A i \in 1 .. Len(proc'[v].reports) :
                              proc'[v].reports[i] = wa'.queue[v][i]
                        /\ proc'[v].phase = "run" => wa'.queue[v] = proc'[v].reports \o wa'.inbox[v]
                        /\ proc'[v].phase = "run" /\ wa'.inbox[v] # <<>> => HeldBy(wa', v)
    BY DEF InStep
  <2>4. CASE v = w
    BY <1>6, <1>8, <1>9, <2>1, <2>2, <2>4 DEF q, a
  <2>5. CASE v # w
    <3>1. /\ proc'[v].reports = proc[v].reports /\ wa'.queue[v] = wa.queue[v]
          /\ wa'.inbox[v] = wa.inbox[v] /\ proc'[v].phase = proc[v].phase
          /\ HeldBy(wa', v) <=> HeldBy(wa, v)
      BY <1>8, <1>9, <2>5
    <3>2. QED BY <1>5, <3>1 DEF InStep
  <2>6. QED BY <2>4, <2>5
<1>11. TestsInv(wa', proc', {}) /\ DevicesInv(wa') /\ Noted(wa')
  BY <1>2, <1>5, <1>8, <1>9, <1>10, InboxKeeps
<1>12. Known(wa', proc') /\ Losses(proc')
  BY <1>5, <1>8, <1>9 DEF Known, Losses, SameHolders
<1>13. QED BY <1>1, <1>5, <1>8, <1>9, <1>11, <1>12 DEF Good

(* A process ends after it was told to shut down.                          *)
LEMMA QuitGood ==
    ASSUME Inv, NEW w \in Worker, Quit(w)
    PROVE  Good(wa', proc', begun')
<1>1. /\ proc[w].phase = "run" /\ w \in wa.shut /\ wa' = wa /\ begun' = begun
      /\ proc' = [proc EXCEPT ![w].phase = "done"]
  BY DEF Quit
<1>2. /\ begun /\ wa \in Data /\ proc \in [Worker -> Process]
      /\ Known(wa, proc) /\ Losses(proc) /\ Noted(wa) /\ DevicesInv(wa) /\ TestsInv(wa, proc, {})
      /\ Placed(wa) /\ Once(wa) /\ Ended(wa, {}) /\ InStep(wa, proc) /\ Left(wa, proc)
  BY <1>1, NotFresh
<1>3. /\ proc' \in [Worker -> Process]
      /\ \A v \in Worker : /\ proc'[v].lost = proc[v].lost /\ proc'[v].reports = proc[v].reports
                           /\ proc'[v].phase = IF v = w THEN "done" ELSE proc[v].phase
  BY <1>1, <1>2 DEF Process
<1>4. InStep(wa, proc')
  BY <1>2, <1>3, InStepStays
<1>5. Left(wa, proc')
  <2>1. SUFFICES ASSUME NEW v \in Worker,
                        \/ wa.completed[v] = "True"
                        \/ v \in wa.shut /\ proc'[v].phase \in {"run", "done"}
                        \/ proc'[v].phase = "gone"
                 PROVE  Nothing(wa, v)
    BY DEF Left
  <2>2. \/ wa.completed[v] = "True"
        \/ v \in wa.shut /\ proc[v].phase \in {"run", "done"}
        \/ proc[v].phase = "gone"
    BY <1>1, <1>3, <2>1
  <2>3. QED BY <1>2, <2>2 DEF Left
<1>6. Known(wa, proc') /\ Losses(proc')
  BY <1>1, <1>2, <1>3 DEF Known, Losses
<1>7. QED BY <1>1, <1>2, <1>3, <1>4, <1>5, <1>6 DEF Good, TestsInv

(* A process dies; what it had to run is lost to it, but is still in the   *)
(* controller's list.                                                      *)
LEMMA DieGood ==
    ASSUME Inv, NEW w \in Worker, Die(w)
    PROVE  Good(wa', proc', begun')
<1>1. /\ proc[w].phase = "run" /\ begun /\ begun' = begun
      /\ wa' = [wa EXCEPT !.inbox[w] = <<>>]
  BY DEF Die
<1>2. PICK lost \in {{}} \cup {{d} : d \in Devices(w)} :
          /\ lost # {} => setup.exclude
          /\ proc' = [proc EXCEPT ![w].phase = "dead", ![w].lost = lost]
  BY DEF Die
<1>3. /\ setup \in Setups /\ wa \in Data /\ proc \in [Worker -> Process]
      /\ Known(wa, proc) /\ Losses(proc) /\ Noted(wa) /\ DevicesInv(wa)
      /\ TestsInv(wa, proc, {}) /\ InStep(wa, proc)
  BY <1>1 DEF Inv, Good, TestsInv
<1>4. lost \subseteq Devices(w) /\ Devices(w) \subseteq Device
  BY <1>2, <1>3, SetupFacts
<1>5. /\ proc' \in [Worker -> Process]
      /\ \A v \in Worker : /\ proc'[v].reports = proc[v].reports
                           /\ proc'[v].phase = IF v = w THEN "dead" ELSE proc[v].phase
                           /\ proc'[v].lost = IF v = w THEN lost ELSE proc[v].lost
  <2> DEFINE P1 == [proc EXCEPT ![w].phase = "dead"]
             P2 == [P1 EXCEPT ![w].lost = lost]
  <2>1. proc' = P2
    BY <1>2, <1>3 DEF Process
  <2>2. /\ P1 \in [Worker -> Process]
        /\ \A v \in Worker : /\ P1[v].reports = proc[v].reports /\ P1[v].lost = proc[v].lost
                             /\ P1[v].phase = IF v = w THEN "dead" ELSE proc[v].phase
    BY <1>3 DEF Process
  <2> HIDE DEF P1
  <2>3. lost \in SUBSET Device
    BY <1>4
  <2>4. /\ P2 \in [Worker -> Process]
        /\ \A v \in Worker : /\ P2[v].reports = P1[v].reports /\ P2[v].phase = P1[v].phase
                             /\ P2[v].lost = IF v = w THEN lost ELSE P1[v].lost
    BY <2>2, <2>3 DEF Process
  <2>5. QED BY <2>1, <2>2, <2>4
<1>6. /\ wa' \in Data /\ SameHolders(wa, wa') /\ wa'.main = wa.main /\ wa'.queue = wa.queue
      /\ wa'.ran = wa.ran /\ wa'.nes = wa.nes /\ wa'.applicable = wa.applicable
      /\ wa'.shut = wa.shut
      /\ \A v \in Worker : v # w => wa'.inbox[v] = wa.inbox[v]
  <2> DEFINE c == <<>>
             e == [wa EXCEPT !.inbox[w] = c]
  <2>1. c \in Seq(Test)
    OBVIOUS
  <2>2. wa' = e
    BY <1>1
  <2> HIDE DEF c
  <2>3. /\ e \in Data /\ SameHolders(wa, e) /\ e.main = wa.main /\ e.queue = wa.queue
        /\ e.ran = wa.ran /\ e.nes = wa.nes /\ e.applicable = wa.applicable /\ e.shut = wa.shut
        /\ e.inbox = [wa.inbox EXCEPT ![w] = c]
    BY <1>3, <2>1, InboxOnly
  <2> HIDE DEF e
  <2>4. \A v \in Worker : v # w => e.inbox[v] = wa.inbox[v]
    BY <1>3, <2>3 DEF Data
  <2>5. QED BY <2>2, <2>3, <2>4
<1>7. InStep(wa', proc')
  <2>1. \A v \in Worker : HeldBy(wa, v) <=> HeldBy(wa', v)
    BY <1>6 DEF HeldBy, SameHolders
  <2>2. QED BY <1>3, <1>5, <1>6, <2>1, InStepStays
<1>8. \A v \in Worker : proc'[v].phase = proc[v].phase \/ proc'[v].phase = "dead"
  BY <1>5
<1>9. TestsInv(wa', proc', {}) /\ DevicesInv(wa') /\ Noted(wa')
  BY <1>3, <1>6, <1>7, <1>8, InboxKeeps
<1>10. Known(wa', proc')
  BY <1>1, <1>3, <1>5, <1>6 DEF Known, SameHolders
<1>11. Losses(proc')
  BY <1>2, <1>3, <1>4, <1>5 DEF Losses
<1>12. QED BY <1>1, <1>5, <1>6, <1>9, <1>10, <1>11 DEF Good

(* The node of a dead process counts as shut down.                         *)
LEMMA ChannelClosedGood ==
    ASSUME Inv, NEW w \in Worker, ChannelClosed(w)
    PROVE  Good(wa', proc', begun')
<1>1. /\ proc[w].phase = "dead" /\ proc' = proc /\ begun' = begun
      /\ wa' = [wa EXCEPT !.shut = @ \cup {w}]
  BY DEF ChannelClosed
<1>2. /\ begun /\ wa \in Data /\ proc \in [Worker -> Process]
      /\ Known(wa, proc) /\ Losses(proc) /\ Noted(wa) /\ DevicesInv(wa) /\ TestsInv(wa, proc, {})
      /\ Placed(wa) /\ Once(wa) /\ Ended(wa, {}) /\ InStep(wa, proc) /\ Left(wa, proc)
  BY <1>1, NotFresh
<1>3. /\ wa' \in Data /\ SameHolders(wa, wa') /\ wa'.main = wa.main /\ wa'.queue = wa.queue
      /\ wa'.inbox = wa.inbox /\ wa'.ran = wa.ran /\ wa'.nes = wa.nes
      /\ wa'.applicable = wa.applicable /\ wa'.shut = wa.shut \cup {w}
  BY <1>1, <1>2 DEF Data, SameHolders
<1>4. Placed(wa') /\ Once(wa') /\ Ended(wa', {})
  BY <1>2, <1>3 DEF Placed, Once, Ended, SameHolders
<1>5. InStep(wa', proc)
  BY <1>2, <1>3, InStepStays DEF HeldBy, SameHolders
<1>6. Left(wa', proc)
  <2>1. \A v \in Worker : Nothing(wa, v) => Nothing(wa', v)
    BY <1>3 DEF Nothing, Pending, SameHolders
  <2>2. SUFFICES ASSUME NEW v \in Worker,
                        \/ wa'.completed[v] = "True"
                        \/ v \in wa'.shut /\ proc[v].phase \in {"run", "done"}
                        \/ proc[v].phase = "gone"
                 PROVE  Nothing(wa', v)
    BY DEF Left
  <2>3. \/ wa.completed[v] = "True"
        \/ v \in wa.shut /\ proc[v].phase \in {"run", "done"}
        \/ proc[v].phase = "gone"
    BY <1>1, <1>3, <2>2 DEF SameHolders
  <2>4. QED BY <1>2, <2>1, <2>3 DEF Left
<1>7. DevicesInv(wa')
  BY <1>2, <1>3 DEF DevicesInv, Accounted, Disjoint, HeldBy, SameHolders
<1>8. Noted(wa')
  BY <1>2, <1>3, NotedShrinks DEF SameHolders
<1>9. Known(wa', proc)
  BY <1>2, <1>3 DEF Known, SameHolders
<1>10. QED BY <1>1, <1>2, <1>3, <1>4, <1>5, <1>6, <1>7, <1>8, <1>9 DEF Good, TestsInv

(***************************************************************************)
(* The controller and the monitor.                                         *)
(***************************************************************************)

(* The controller takes the report of a test.                              *)
LEMMA CompleteGood ==
    ASSUME Inv, NEW w \in Worker, MarkTestComplete(w)
    PROVE  Good(wa', proc', begun')
<1> DEFINE e == Complete(wa, w, Head(proc[w].reports))
           e1 == ShutDownWhenFinished(e)
<1>1. /\ proc[w].reports # <<>> /\ wa' = e1 /\ begun' = begun
      /\ proc' = [proc EXCEPT ![w].reports = Tail(@)]
  BY DEF MarkTestComplete, TakeReport
<1>2. /\ begun /\ setup \in Setups /\ wa \in Data /\ proc \in [Worker -> Process]
      /\ Known(wa, proc) /\ Losses(proc) /\ Noted(wa) /\ DevicesInv(wa) /\ TestsInv(wa, proc, {})
  BY <1>1, NotFresh
<1>3. /\ proc' \in [Worker -> Process]
      /\ \A v \in Worker : proc'[v].phase = proc[v].phase /\ proc'[v].lost = proc[v].lost
  <2> DEFINE x == Tail(proc[w].reports)
  <2>1. x \in Seq(Test)
    BY <1>1, <1>2, HeadTailProperties DEF Process
  <2>2. proc' = [proc EXCEPT ![w].reports = x]
    BY <1>1
  <2> HIDE DEF x
  <2>3. QED BY <1>2, <2>1, <2>2 DEF Process
<1>4. e \in Data /\ SameHolders(wa, e) /\ TestsInv(e, proc', {}) /\ Noted(e)
  BY <1>1, <1>2, <1>3, CompletingKeeps
<1> HIDE DEF e
<1>5. DevicesInv(e)
  BY <1>2, <1>4 DEF DevicesInv, Accounted, Disjoint, HeldBy, SameHolders
<1>6. Kept(e, e1, proc', {})
  BY <1>3, <1>4, <1>5, ShutDownKeeps
<1> HIDE DEF e1
<1>7. Known(e1, proc') /\ Losses(proc')
  BY <1>2, <1>3, <1>4, <1>6 DEF Known, Losses, Kept, SameHolders
<1>8. QED BY <1>1, <1>2, <1>3, <1>6, <1>7 DEF Good, Kept

(* The controller handles the end of a node: it may finish well only if its*)
(* process quit, and then nothing was left for it.                         *)
LEMMA NodeDownGood ==
    ASSUME Inv, NEW w \in Worker, NodeDown(w)
    PROVE  Good(wa', proc', begun')
<1> DEFINE lost == proc[w].lost
           error == proc[w].phase = "dead"
           e == FinishNode(wa, w, error, lost)
           e1 == RemoveNode(e, w)
           e2 == ShutDownWhenFinished(e1)
<1>1. /\ proc[w].phase \in {"done", "dead"} /\ w \in wa.shut /\ proc[w].reports = <<>>
      /\ proc' = [proc EXCEPT ![w].phase = IF @ = "dead" THEN "buried" ELSE "gone"]
      /\ wa' = e2 /\ begun' = begun
  BY DEF NodeDown, TakeDown
<1>2. /\ begun /\ setup \in Setups /\ wa \in Data /\ proc \in [Worker -> Process]
      /\ Known(wa, proc) /\ Losses(proc) /\ Noted(wa) /\ DevicesInv(wa)
      /\ Placed(wa) /\ Once(wa) /\ Ended(wa, {}) /\ InStep(wa, proc) /\ Left(wa, proc)
  BY <1>1, NotFresh
<1>3. w \in ToSet(wa.nodes) /\ lost \in SUBSET Devices(w) /\ (~ setup.exclude => lost = {})
  BY <1>1, <1>2 DEF Known, Losses
<1>4. /\ proc' \in [Worker -> Process]
      /\ \A v \in Worker :
            /\ proc'[v].lost = proc[v].lost /\ proc'[v].reports = proc[v].reports
            /\ v # w => proc'[v].phase = proc[v].phase
      /\ proc'[w].phase = IF error THEN "buried" ELSE "gone"
  BY <1>1, <1>2 DEF Process
<1>5. error \in BOOLEAN /\ (~ error => Nothing(wa, w))
  BY <1>1, <1>2 DEF Left
<1>6. InStep(wa, proc')
  <2>1. \A v \in Worker : proc'[v].phase = "run" => proc[v].phase = "run"
    BY <1>4
  <2>2. QED BY <1>2, <1>4, <2>1, InStepStays
<1>7. Left(wa, proc')
  <2>1. SUFFICES ASSUME NEW v \in Worker,
                        \/ wa.completed[v] = "True"
                        \/ v \in wa.shut /\ proc'[v].phase \in {"run", "done"}
                        \/ proc'[v].phase = "gone"
                 PROVE  Nothing(wa, v)
    BY DEF Left
  <2>2. CASE v = w /\ ~ error
    BY <1>5, <2>2
  <2>3. CASE v # w \/ error
    <3>1. \/ wa.completed[v] = "True"
          \/ v \in wa.shut /\ proc[v].phase \in {"run", "done"}
          \/ proc[v].phase = "gone"
      BY <1>4, <2>1, <2>3
    <3>2. QED BY <1>2, <3>1 DEF Left
  <2>4. QED BY <2>2, <2>3
<1>8. TestsInv(wa, proc', {}) /\ proc'[w].phase # "run" /\ proc'[w].reports = <<>>
  BY <1>1, <1>2, <1>4, <1>6, <1>7 DEF TestsInv
<1> HIDE DEF lost, error
<1>9. Kept(wa, e, proc', {}) /\ e.completed[w] # "False"
  BY <1>2, <1>3, <1>4, <1>5, <1>8, FinishNodeKeeps
<1> HIDE DEF e
<1>10. /\ e \in Data /\ IsInjective(e.nodes) /\ ToSet(e.nodes) = ToSet(wa.nodes)
       /\ TestsInv(e, proc', {}) /\ DevicesInv(e) /\ Noted(e)
  BY <1>2, <1>9 DEF Kept, Known
<1>11. /\ e1 \in Data /\ TestsInv(e1, proc', {}) /\ DevicesInv(e1) /\ Noted(e1)
       /\ IsInjective(e1.nodes) /\ ToSet(e1.nodes) = ToSet(wa.nodes) \ {w}
  BY <1>2, <1>4, <1>8, <1>9, <1>10, RemoveNodeKeeps
<1> HIDE DEF e1
<1>12. Kept(e1, e2, proc', {})
  BY <1>4, <1>11, ShutDownKeeps
<1> HIDE DEF e2
<1>13. Known(e2, proc')
  <2>1. \A v \in Worker : proc'[v].phase \in {"run", "done", "dead"} => v \in ToSet(wa.nodes) \ {w}
    BY <1>2, <1>4 DEF Known
  <2>2. QED BY <1>11, <1>12, <2>1 DEF Known, Kept
<1>14. Losses(proc')
  BY <1>2, <1>4 DEF Losses
<1>15. QED BY <1>1, <1>2, <1>4, <1>12, <1>13, <1>14 DEF Good, Kept

(* The monitor ends a worker whose process is not running.                 *)
LEMMA MonitorGood ==
    ASSUME Inv, NEW w \in Worker, MonitorFindsDead(w)
    PROVE  Good(wa', proc', begun')
<1> DEFINE lost == proc[w].lost
           e == FinishNode(wa, w, TRUE, lost)
<1>1. proc[w].phase \in {"done", "dead"} /\ wa' = e /\ proc' = proc /\ begun' = begun
  BY DEF MonitorFindsDead
<1>2. /\ begun /\ setup \in Setups /\ wa \in Data /\ proc \in [Worker -> Process]
      /\ Known(wa, proc) /\ Losses(proc) /\ Noted(wa) /\ DevicesInv(wa) /\ TestsInv(wa, proc, {})
  BY <1>1, NotFresh
<1>3. w \in ToSet(wa.nodes) /\ lost \in SUBSET Devices(w) /\ (~ setup.exclude => lost = {})
  BY <1>1, <1>2 DEF Known, Losses
<1> HIDE DEF lost
<1>4. Kept(wa, e, proc, {})
  BY <1>1, <1>2, <1>3, FinishNodeKeeps
<1> HIDE DEF e
<1>5. e \in Data /\ TestsInv(e, proc, {}) /\ DevicesInv(e) /\ Noted(e) /\ Known(e, proc)
  BY <1>2, <1>4 DEF Kept, Known
<1>6. QED BY <1>1, <1>2, <1>5 DEF Good

(***************************************************************************)
(* The results.                                                            *)
(***************************************************************************)

(* Every step keeps the invariant.                                         *)
LEMMA StepKeeps ==
    ASSUME Inv, [Next]_vars
    PROVE  Inv'
<1>1. setup \in Setups /\ begun \in BOOLEAN /\ deaths \in 0 .. setup.deaths /\ setup.deaths \in Nat
  BY SetupsAssumption DEF Inv
<1>2. CASE UNCHANGED vars
  <2>1. setup' = setup /\ wa' = wa /\ proc' = proc /\ begun' = begun /\ deaths' = deaths
    BY <1>2 DEF vars
  <2>2. Good(wa', proc', begun')
    BY <2>1 DEF Inv
  <2>3. QED BY <1>1, <2>1, <2>2, SameGood DEF Inv
<1>3. CASE ScheduleFirst
  <2>1. setup' = setup /\ begun' = TRUE /\ deaths' = deaths
    BY <1>3 DEF ScheduleFirst, AllCollected
  <2>2. QED BY <1>1, <1>3, <2>1, ScheduleFirstGood, SameGood DEF Inv
<1>4. ASSUME NEW w \in Worker,
             \/ Execute(w) \/ Quit(w) \/ Die(w) \/ ChannelClosed(w)
             \/ MarkTestComplete(w) \/ NodeDown(w) \/ MonitorFindsDead(w)
      PROVE  Inv'
  <2>1. setup' = setup /\ begun' = begun
    BY <1>4 DEF Execute, Quit, Die, ChannelClosed, MarkTestComplete, NodeDown, MonitorFindsDead
  <2>2. deaths' \in 0 .. setup.deaths
    <3>1. deaths' = deaths \/ (deaths' = deaths + 1 /\ deaths < setup.deaths)
      BY <1>4 DEF Execute, Quit, Die, ChannelClosed, MarkTestComplete, NodeDown, MonitorFindsDead
    <3>2. QED BY <1>1, <3>1
  <2>3. Good(wa', proc', begun')
    BY <1>4, ExecuteGood, QuitGood, DieGood, ChannelClosedGood, CompleteGood, NodeDownGood,
       MonitorGood
  <2>4. QED BY <1>1, <2>1, <2>2, <2>3, SameGood DEF Inv
<1>5. QED BY <1>2, <1>3, <1>4 DEF Next

(* Every state of every run has the inductive invariant.                   *)
THEOREM Invariant == Spec => []Inv
<1>1. Init => Inv
  BY Initial
<1>2. Inv /\ [Next]_vars => Inv'
  BY StepKeeps
<1>3. QED BY <1>1, <1>2, PTL DEF Spec

(* The parts that the properties rest on.                                  *)
LEMMA InvConsequences ==
    ASSUME Inv
    PROVE  /\ setup \in Setups /\ DevicesInv(wa) /\ Placed(wa) /\ InStep(wa, proc) /\ Left(wa, proc)
BY DEF Inv, Good, TestsInv

(* The scheduler's data and the processes keep their types: a worker's     *)
(* completed is one of the three values, and every list has known tests.   *)
THEOREM TypeCorrect == Spec => []TypeOK
<1>1. Inv => TypeOK
  BY DEF Inv, Good, TypeOK
<1>2. QED BY <1>1, Invariant, PTL

(* In a run that excludes no devices, a device is used by one worker at a  *)
(* time and by none while it is free (finish_node_locked).                 *)
THEOREM ExclusiveDevices == Spec => [](~ setup.exclude => DevicesExclusive)
<1>1. ASSUME Inv, ~ setup.exclude
      PROVE  DevicesExclusive
  <2>1. Disjoint(wa) /\ InStep(wa, proc)
    BY <1>1, InvConsequences DEF DevicesInv
  <2>2. ASSUME NEW w \in Worker, Holds(w) \/ RunsTests(w)
        PROVE  HeldBy(wa, w)
    BY <2>1, <2>2 DEF InStep, Holds, RunsTests, HeldBy
  <2>3. QED BY <2>1, <2>2 DEF DevicesExclusive, Disjoint
<1>2. QED BY <1>1, Invariant, PTL

(* No device gets lost: each is free, excluded, or held by a worker that   *)
(* has not ended (finish_node_locked).                                     *)
THEOREM AccountedDevices == Spec => []DevicesAccounted
<1>1. Inv => DevicesAccounted
  BY InvConsequences DEF DevicesInv, Accounted, DevicesAccounted, Holds, HeldBy
<1>2. QED BY <1>1, Invariant, PTL

(* No test gets lost or runs twice: one node has it from when its module is*)
(* taken until it was run or was reported as not executed (assign_test,    *)
(* mark_test_complete, report_unexecuted).                                 *)
THEOREM AccountedTests == Spec => []TestsAccounted
<1>1. ASSUME Inv
      PROVE  TestsAccounted
  <2>1. Placed(wa)
    BY <1>1, InvConsequences
  <2>2. SUFFICES ASSUME NEW m \in Module, NEW t \in Tests(m)
                 PROVE  IF m \in wa.main THEN Queued(t) = {} /\ t \notin wa.ran \cup wa.nes
                        ELSE /\ Cardinality(Queued(t)) <= 1
                             /\ Queued(t) # {} \/ t \in wa.ran \cup wa.nes
                             /\ t \in wa.ran => Queued(t) = {}
    BY DEF TestsAccounted
  <2>3. /\ m \in wa.main => t \notin wa.ran \cup wa.nes /\ Queued(t) = {}
        /\ m \notin wa.main => t \in wa.ran \cup wa.nes \/ Queued(t) # {}
        /\ t \in wa.ran => Queued(t) = {}
        /\ \A v, w \in Queued(t) : v = w
    BY <2>1 DEF Placed, Queued
  <2>4. Cardinality(Queued(t)) <= 1
    <3>1. CASE Queued(t) = {}
      BY <3>1, FS_EmptySet
    <3>2. CASE Queued(t) # {}
      <4>1. PICK w : Queued(t) = {w}
        BY <2>3, <3>2
      <4>2. QED BY <4>1, FS_Singleton
    <3>3. QED BY <3>1, <3>2
  <2>5. QED BY <2>3, <2>4
<1>2. QED BY <1>1, Invariant, PTL

(* When a run is over, a module that is pending has only nodes that died or*)
(* are excluded (schedule_node_locked, tests_finished).                    *)
THEOREM NobodyLeavesWork == Spec => []NothingLeftBehind
<1>1. ASSUME Inv
      PROVE  NothingLeftBehind
  <2>1. SUFFICES ASSUME Over, NEW m \in wa.main, NEW w \in NodesOf(m)
                 PROVE  proc[w].phase = "buried" \/ wa.excluded[w] # 0
    BY DEF NothingLeftBehind
  <2>2. w \in Worker
    <3>1. m \in Module /\ setup \in Setups
      BY <1>1 DEF Inv, Good, Data
    <3>2. QED BY <3>1, SetupFacts
  <2>3. Left(wa, proc)
    BY <1>1, InvConsequences
  <2>4. CASE proc[w].phase = "gone"
    <3>1. Pending(wa, w) = {} \/ wa.excluded[w] # 0
      BY <2>2, <2>3, <2>4 DEF Left, Nothing
    <3>2. m \in Pending(wa, w)
      BY <2>2 DEF Pending
    <3>3. QED BY <3>1, <3>2
  <2>5. QED BY <2>1, <2>2, <2>4 DEF Over
<1>2. QED BY <1>1, Invariant, PTL

===============================================================================
