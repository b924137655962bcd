----------------------- MODULE ParallelCoordinatorProofs -----------------------
(***************************************************************************)
(* What the coordinator keeps for every number of processes, in both       *)
(* modes, with deadlines and with killed processes: its types, the         *)
(* rendezvous it implements, and who may test when.                        *)
(***************************************************************************)
EXTENDS ParallelCoordinator, FiniteSetTheorems, TLAPS

At2(places, subject) == {<<x, subject>> : x \in places}
Over == <<"end", "none">>

(* Where a process can be once it has written a gate.                      *)
AfterTeardown == {<<"all", "teardown_completed">>, Over}
AfterTests == AfterTeardown
    \cup {<<"wait", "tests_completed">>, <<"sleep", "tests_completed">>,
          <<"set", "teardown_started">>, <<"do", "compare">>, <<"do", "post">>,
          <<"set", "verdict">>, <<"expect", "teardown_completed">>,
          <<"ack", "teardown_completed">>}
AfterReload == AfterTests
    \cup {<<"wait", "reload_completed">>, <<"sleep", "reload_completed">>,
          <<"do", "tests">>, <<"mark", "tests_completed">>}
AfterReady == AfterReload
    \cup {<<"wait", "reload_ready">>, <<"sleep", "reload_ready">>, <<"do", "reload">>,
          <<"mark", "reload_completed">>}
AfterSetup == AfterReady
    \cup {<<"all", "setup_completed">>, <<"check", "reload_ready">>, <<"mark", "reload_ready">>}

After(g) ==
    CASE g = "teardown_completed" -> AfterTeardown
      [] g = "tests_completed" -> AfterTests
      [] g = "reload_completed" -> AfterReload
      [] g = "reload_ready" -> AfterReady
      [] g = "setup_completed" -> AfterSetup
      [] g = "setup_ready" ->
             AfterSetup \cup
             {<<"wait", "setup_ready">>, <<"sleep", "setup_ready">>, <<"set", "setup_started">>,
              <<"do", "checks">>, <<"do", "collect">>, <<"set", "setup_completed">>,
              <<"expect", "setup_completed">>, <<"ack", "setup_completed">>}

(* The tests of a process, between setup and teardown.                     *)
Reloading == At2({"check", "mark", "wait", "sleep"}, "reload_ready") \cup {<<"do", "reload">>}
             \cup At2({"mark", "wait", "sleep"}, "reload_completed")
Testing == Reloading \cup {<<"do", "tests">>, <<"mark", "tests_completed">>}

(* Every gate is written once by each process.                             *)
Once ==
    /\ \A p \in Proc, g \in Gate : p \in wrote[g] => pc[p] \in After(g)
    /\ \A p \in unsynced : /\ p \notin wrote["reload_ready"] \cup wrote["reload_completed"]
                            /\ pc[p] \notin Reloading

(* What a process that waits has written, and not passed yet.              *)
Waiting ==
    /\ \A g \in Gate, p \in Proc : p \in past[g] => p \in wrote[g]
    /\ \A p \in Proc, b \in Barrier : pc[p] = <<"wait", b>> => p \in wrote[b] /\ p \notin past[b]
    /\ \A p \in Proc, a \in Announced : pc[p] = <<"all", a>> =>
           /\ p \notin past[a]
           /\ p = Leader \/ ~ RPFirst => p \in wrote[a]

(* The leader, and the followers, keep to their parts.                     *)
LeaderOnly ==
    {<<"set", "setup_started">>, <<"set", "setup_completed">>, <<"set", "teardown_started">>,
     <<"set", "verdict">>, <<"do", "checks">>, <<"do", "collect">>, <<"do", "compare">>,
     <<"do", "post">>}
FollowerOnly == At2({"expect", "ack"}, "setup_completed") \cup At2({"expect", "ack"}, "teardown_completed")

Roles ==
    /\ \A p \in Proc, b \in Barrier : pc[p] \notin At2({"expect", "ack", "all"}, b)
    /\ \A p \in Proc, a \in Announced : pc[p] \notin At2({"mark", "wait", "sleep"}, a)
    /\ pc[Leader] \notin FollowerOnly
    /\ \A q \in Follower : pc[q] \notin LeaderOnly
    /\ \A a \in Announced : last.status = a => Leader \in wrote[a]
    /\ \A q \in Follower, a \in Announced :
           q \in wrote[a] \/ (~ RPFirst /\ pc[q] \in At2({"ack", "all"}, a)) => Leader \in wrote[a]

(* In RP_FIRST mode the leader runs alone, and leaves no count behind.     *)
Alone ==
    /\ RPFirst => \A b \in Barrier : pc[Leader] \notin At2({"wait", "sleep"}, b)
    /\ RPFirst /\ pc[Leader] # Over => \A q \in Follower :
           /\ pc[q] \in {<<"new", "none">>, Over}
           /\ \A s \in ParallelStatus : q \notin wrote[s]
    /\ RPFirst /\ pc[Leader] = <<"all", "teardown_completed">> =>
           last = [status |-> "teardown_completed", acks |-> 0]
    /\ RPFirst => \A q \in Follower, a \in Announced : q \notin wrote[a] /\ pc[q] # <<"ack", a>>

(* Whom the count on the last line stands for.                             *)
Credit == IF last.status \in Barrier /\ ~ RPFirst THEN wrote[last.status]
          ELSE wrote[last.status] \cap Follower
Counted ==
    /\ \/ last.acks <= Cardinality(Credit)
       \/ RPFirst /\ pc[Leader] # Over /\ last.acks <= 1
    /\ last.status \notin Gate => last.acks <= 0
    /\ last.status \in Barrier => wrote[last.status] # {}

(* The leader sets up when all have come, and works under its own status.  *)
SetupPhase ==
    /\ ~ RPFirst /\ pc[Leader] \in {<<"set", "setup_started">>, <<"do", "checks">>,
           <<"do", "collect">>, <<"set", "setup_completed">>, <<"sleep", "setup_ready">>}
           => wrote["setup_ready"] = Proc
    /\ pc[Leader] \in {<<"do", "checks">>, <<"do", "collect">>, <<"set", "setup_completed">>}
           => last.status = "setup_started"
    /\ last.status = "setup_started" => Leader \notin wrote["setup_completed"]

TeardownPhase ==
    /\ ~ RPFirst /\ pc[Leader] \in {<<"set", "teardown_started">>, <<"do", "compare">>,
           <<"sleep", "tests_completed">>}
           => wrote["tests_completed"] = Proc
    /\ pc[Leader] = <<"do", "compare">> => last.status = "teardown_started"
    /\ last.status = "teardown_started" \/ pc[Leader] \in {<<"wait", "tests_completed">>,
           <<"sleep", "tests_completed">>, <<"set", "teardown_started">>}
           => Leader \in wrote["tests_completed"]

(* Who tests has seen the setup of everybody.                              *)
TestPhase ==
    /\ pc[Leader] \in Testing => Leader \in wrote["setup_completed"]
    /\ \A p \in Proc : ~ RPFirst /\ pc[p] \in Testing => wrote["setup_completed"] = Proc

IInv == /\ TypeOK /\ Once /\ Waiting /\ Roles /\ Alone /\ Counted
        /\ SetupPhase /\ TeardownPhase /\ TestPhase
--------------------------------------------------------------------------------
LEMMA Followers ==
    /\ IsFiniteSet(Follower) /\ Cardinality(Follower) \in Nat
    /\ Cardinality(Proc) = Cardinality(Follower) + 1
    /\ \A S : S \subseteq Proc => IsFiniteSet(S) /\ Cardinality(S) \in 0 .. Cardinality(Proc)
    /\ \A p \in Proc : /\ NumFollowers(p) = 0 <=> (RPFirst /\ p = Leader) \/ Follower = {}
                       /\ SkipsHandshake(p) <=> RPFirst \/ Follower = {}
                       /\ NumFollowers(p) \in Nat
<1>1. ASSUME NEW S, S \subseteq Proc
      PROVE  IsFiniteSet(S) /\ Cardinality(S) \in 0 .. Cardinality(Proc)
  BY <1>1, CoordinatorAssumption, FS_Subset, FS_CardinalityType
<1>2. IsFiniteSet(Follower) /\ Cardinality(Follower) \in Nat
  BY <1>1, FS_CardinalityType DEF Follower
<1>3. Cardinality(Follower) = 0 <=> Follower = {}
  BY <1>2, FS_EmptySet
<1>4. Cardinality(Proc) = Cardinality(Follower) + 1
  <2>1. Proc = Follower \cup {Leader} /\ Leader \notin Follower
    BY CoordinatorAssumption DEF Follower
  <2> QED BY <2>1, <1>2, FS_AddElement
<1>5. ASSUME NEW p \in Proc
      PROVE  /\ NumFollowers(p) = 0 <=> (RPFirst /\ p = Leader) \/ Follower = {}
             /\ SkipsHandshake(p) <=> RPFirst \/ Follower = {}
             /\ NumFollowers(p) \in Nat
  BY <1>2, <1>3 DEF NumFollowers, SkipsHandshake, RPFirst
<1> QED BY <1>1, <1>2, <1>4, <1>5

(* The counts of a barrier, and of an announced status, that let a process *)
(* pass.                                                                   *)
LEMMA AllHere ==
    ASSUME IInv, NEW p \in Proc, NEW b \in Barrier, pc[p] = <<"wait", b>>, AllMarked(p, b)
    PROVE  Parties \subseteq wrote[b]
<1> USE DEF IInv
<1>1. last.acks >= RequiredAck(p) /\ last.status = b /\ last.acks \in Int
  BY DEF AllMarked, TypeOK
<1>2. wrote[b] \subseteq Proc /\ b \in ParallelStatus
  BY DEF TypeOK, ParallelStatus, Gate
<1>3. CASE ~ RPFirst
  <2>1. RequiredAck(p) = Cardinality(Proc)
    BY <1>3, Followers DEF RequiredAck, NumFollowers
  <2>2. last.acks <= Cardinality(wrote[b])
    BY <1>1, <1>3 DEF Counted, Credit
  <2>3. Cardinality(wrote[b]) = Cardinality(Proc)
    BY <1>1, <1>2, <2>1, <2>2, Followers
  <2> QED BY <1>2, <1>3, <2>3, CoordinatorAssumption, FS_Subset DEF Parties
<1>4. CASE RPFirst
  <2>1. p \in Follower /\ pc[Leader] = Over
    <3>1. p # Leader
      BY <1>4 DEF Alone, At2
    <3>2. pc[p] \notin {<<"new", "none">>, Over}
      BY DEF Over
    <3> QED BY <1>4, <3>1, <3>2 DEF Alone, Follower
  <2>2. RequiredAck(p) = Cardinality(Follower)
    BY <1>4, <2>1 DEF RequiredAck, NumFollowers, Follower
  <2>3. last.acks <= Cardinality(wrote[b] \cap Follower)
    BY <1>1, <1>4, <2>1 DEF Counted, Credit
  <2>4. Cardinality(wrote[b] \cap Follower) = Cardinality(Follower)
    <3>1. Cardinality(wrote[b] \cap Follower) <= Cardinality(Follower)
      BY Followers, FS_Subset
    <3>2. Cardinality(wrote[b] \cap Follower) \in Nat
      BY <1>2, Followers
    <3> QED BY <1>1, <2>2, <2>3, <3>1, <3>2, Followers
  <2>5. wrote[b] \cap Follower = Follower
    BY <2>4, Followers, FS_Subset
  <2> QED BY <1>4, <2>5 DEF Parties
<1> QED BY <1>3, <1>4

LEMMA AllAckedHere ==
    ASSUME IInv, NEW p \in Proc, NEW a \in Announced, ~ RPFirst, AllAcked(p, a)
    PROVE  wrote[a] = Proc
<1> USE DEF IInv
<1>1. last.acks >= Cardinality(Follower) /\ last.status = a /\ last.acks \in Int
  BY DEF AllAcked, TypeOK, NumFollowers
<1>2. wrote[a] \subseteq Proc
  BY DEF TypeOK, ParallelStatus, Gate
<1>3. last.acks <= Cardinality(wrote[a] \cap Follower)
  BY <1>1 DEF Counted, Credit, Announced, Barrier
<1>4. Cardinality(wrote[a] \cap Follower) = Cardinality(Follower)
  <2>1. Cardinality(wrote[a] \cap Follower) <= Cardinality(Follower)
    BY Followers, FS_Subset
  <2>2. Cardinality(wrote[a] \cap Follower) \in Nat
    BY <1>2, Followers
  <2> QED BY <1>1, <1>3, <2>1, <2>2, Followers
<1>5. wrote[a] \cap Follower = Follower
  BY <1>4, Followers, FS_Subset
<1>6. Leader \in wrote[a]
  BY <1>1 DEF Roles
<1> QED BY <1>2, <1>5, <1>6, CoordinatorAssumption DEF Follower

LEMMA ProceedMoves ==
    ASSUME NEW p \in Proc, NEW g \in Gate, Proceed(p, g)
    PROVE  \/ g = "setup_ready" /\ p = Leader /\ Goto(p, "set", "setup_started")
           \/ g = "setup_ready" /\ p # Leader /\ Goto(p, "expect", "setup_completed")
           \/ g = "setup_completed" /\ Goto(p, "do", "tests")
           \/ g = "reload_ready" /\ Goto(p, "do", "reload")
           \/ g = "reload_completed" /\ Goto(p, "do", "tests")
           \/ g = "tests_completed" /\ p = Leader /\ Goto(p, "set", "teardown_started")
           \/ g = "tests_completed" /\ p # Leader /\ Goto(p, "expect", "teardown_completed")
           \/ g = "teardown_completed" /\ Goto(p, "end", "none")
<1>1. CASE g = "setup_ready"
  BY <1>1 DEF Proceed
<1>2. CASE g = "setup_completed"
  BY <1>2 DEF Proceed
<1>3. CASE g = "reload_ready"
  BY <1>3 DEF Proceed
<1>4. CASE g = "reload_completed"
  BY <1>4 DEF Proceed
<1>5. CASE g = "tests_completed"
  BY <1>5 DEF Proceed
<1>6. CASE g = "teardown_completed"
  BY <1>6 DEF Proceed
<1> QED BY <1>1, <1>2, <1>3, <1>4, <1>5, <1>6 DEF Gate, Barrier, Announced

LEMMA AbortMoves ==
    ASSUME NEW p \in Proc, NEW g \in Gate, Abort(p, g)
    PROVE  \/ g = "setup_ready" /\ Goto(p, "end", "none")
           \/ g \in {"reload_ready", "reload_completed"} /\ Goto(p, "do", "tests")
           \/ g \in {"setup_completed", "tests_completed"} /\ p = Leader /\ Goto(p, "do", "post")
           \/ g \in {"setup_completed", "tests_completed"} /\ p # Leader
              /\ Goto(p, "expect", "teardown_completed")
           \/ g = "teardown_completed" /\ Goto(p, "end", "none")
<1>1. CASE g = "setup_ready"
  BY <1>1 DEF Abort
<1>2. CASE g \in {"reload_ready", "reload_completed"}
  BY <1>2 DEF Abort
<1>3. CASE g \in {"setup_completed", "tests_completed"}
  BY <1>3 DEF Abort
<1>4. CASE g = "teardown_completed"
  BY <1>4 DEF Abort
<1> QED BY <1>1, <1>2, <1>3, <1>4 DEF Gate, Barrier, Announced

LEMMA SetStatusMoves ==
    ASSUME SetStatus
    PROVE  /\ \/ At(Leader, "set", "setup_started") /\ SetNew(Leader, "setup_started", 0)
                 /\ Goto(Leader, "do", "checks")
              \/ At(Leader, "set", "setup_completed") /\ SetNew(Leader, "setup_completed", 0)
                 /\ Goto(Leader, "all", "setup_completed")
              \/ At(Leader, "set", "teardown_started") /\ SetNew(Leader, "teardown_started", 0)
                 /\ Goto(Leader, "do", "compare")
           /\ UNCHANGED <<settings, unsynced, checkFailed, past, crashes>>
<1>1. PICK s \in {"setup_started", "setup_completed", "teardown_started"} :
          /\ At(Leader, "set", s)
          /\ SetNew(Leader, s, 0)
          /\ CASE s = "setup_started" -> Goto(Leader, "do", "checks")
               [] s = "setup_completed" -> Goto(Leader, "all", s)
               [] s = "teardown_started" -> Goto(Leader, "do", "compare")
  BY DEF SetStatus
<1>2. UNCHANGED <<settings, unsynced, checkFailed, past, crashes>>
  BY DEF SetStatus
<1>3. CASE s = "setup_started"
  BY <1>1, <1>2, <1>3
<1>4. CASE s = "setup_completed"
  BY <1>1, <1>2, <1>4
<1>5. CASE s = "teardown_started"
  BY <1>1, <1>2, <1>5
<1> QED BY <1>3, <1>4, <1>5

(* Who is about to write a gate has not written it.                        *)
LEMMA Fresh ==
    ASSUME Once, NEW p \in Proc
    PROVE  /\ \A b \in Barrier : pc[p] = <<"mark", b>> => p \notin wrote[b]
           /\ \A a \in Announced : pc[p] \in {<<"expect", a>>, <<"ack", a>>, <<"set", a>>}
                                   => p \notin wrote[a]
           /\ pc[p] = <<"set", "verdict">> => p \notin wrote["teardown_completed"]
<1> USE DEF Once, After, AfterTeardown, AfterTests, AfterReload, AfterReady, AfterSetup, Over,
            Gate, Barrier, Announced
<1>1. ASSUME NEW b \in Barrier, pc[p] = <<"mark", b>> PROVE p \notin wrote[b]
  BY <1>1
<1>2. ASSUME NEW a \in Announced, pc[p] \in {<<"expect", a>>, <<"ack", a>>, <<"set", a>>}
      PROVE  p \notin wrote[a]
  BY <1>2
<1>3. pc[p] = <<"set", "verdict">> => p \notin wrote["teardown_completed"]
  OBVIOUS
<1> QED BY <1>1, <1>2, <1>3

(* While the leader works on all DUTs nobody else is about to mark.        *)
LEMMA Quiet ==
    ASSUME IInv, NEW q \in Follower, NEW b \in Barrier, pc[q] = <<"mark", b>>
    PROVE  pc[Leader] \notin {<<"do", "checks">>, <<"do", "collect">>,
                             <<"set", "setup_completed">>, <<"do", "compare">>}
<1> USE DEF IInv
<1>1. CASE RPFirst
  BY <1>1 DEF Alone, Over
<1>2. CASE ~ RPFirst /\ pc[Leader] \in {<<"do", "checks">>, <<"do", "collect">>,
                                        <<"set", "setup_completed">>}
  <2>1. pc[q] \in After("setup_ready") /\ q \in Proc
    BY <1>2 DEF SetupPhase, Once, Follower, Gate, Barrier
  <2>2. pc[q] \in Testing
    BY <2>1 DEF After, AfterTeardown, AfterTests, AfterReload, AfterReady, AfterSetup, Over,
                Testing, Reloading, At2, Barrier
  <2>3. Leader \in wrote["setup_completed"]
    BY <1>2, <2>1, <2>2, CoordinatorAssumption DEF TestPhase
  <2>4. pc[Leader] \in AfterSetup
    BY <2>3, CoordinatorAssumption DEF Once, After, Gate, Announced
  <2> QED BY <1>2, <2>4 DEF AfterTeardown, AfterTests, AfterReload, AfterReady, AfterSetup, Over
<1>3. CASE ~ RPFirst /\ pc[Leader] = <<"do", "compare">>
  <2>1. pc[q] \in AfterTests
    BY <1>3 DEF TeardownPhase, Once, After, Follower, Gate, Barrier
  <2> QED BY <2>1 DEF AfterTeardown, AfterTests, Over
<1> QED BY <1>1, <1>2, <1>3

LEMMA CountedFrame ==
    ASSUME Counted, UNCHANGED <<mode, last, wrote>>,
           RPFirst /\ pc[Leader] # Over => pc'[Leader] # Over
    PROVE  Counted'
BY DEF Counted, Credit, RPFirst


(* The bound on the count that its type asks for.                          *)
LEMMA CountTyped ==
    ASSUME Counted', wrote' \in [ParallelStatus -> SUBSET Proc],
           last'.status \in ParallelStatus, last'.acks \in Int
    PROVE  last'.acks <= Cardinality(Proc)
<1>1. wrote'[last'.status] \subseteq Proc
  OBVIOUS
<1>2. Credit' \subseteq Proc
  BY <1>1 DEF Credit
<1>3. Cardinality(Credit') \in 0 .. Cardinality(Proc) /\ Cardinality(Proc) \in Nat \ {0}
  BY <1>2, Followers
<1>4. last'.acks <= Cardinality(Credit') \/ last'.acks <= 1
  BY DEF Counted
<1> QED BY <1>3, <1>4

LEMMA StartKeeps ==
    ASSUME IInv, NEW p \in Proc, Start(p)
    PROVE  IInv'
<1> USE CoordinatorAssumption DEF IInv, At, Goto, settings, file
<1>1. Once'
  BY DEF Start, Once, After, AfterTeardown, AfterTests, AfterReload, AfterReady, AfterSetup,
         Over, Reloading, At2, Barrier, Announced, Gate
<1>2. Waiting'
  <2>1. ASSUME NEW g0 \in Gate, NEW q \in Proc, q \in past'[g0] PROVE q \in wrote'[g0]
    BY <2>1 DEF Start, Waiting
  <2>2. ASSUME NEW q \in Proc, NEW c \in Barrier, pc'[q] = <<"wait", c>>
        PROVE  q \in wrote'[c] /\ q \notin past'[c]
    BY <2>2 DEF Start, Waiting
  <2>3. ASSUME NEW q \in Proc, NEW c \in Announced, pc'[q] = <<"all", c>>
        PROVE  /\ q \notin past'[c]
               /\ q = Leader \/ ~ RPFirst => q \in wrote'[c]
    BY <2>3 DEF Start, Waiting
  <2> QED BY <2>1, <2>2, <2>3 DEF Waiting, RPFirst, Start
<1>3. Roles'
  BY DEF Start, Roles, LeaderOnly, FollowerOnly, At2, RPFirst, Announced
<1>4. Alone'
  BY DEF Start, Alone, Over, At2, RPFirst, Follower
<1>5. Counted'
  <2>1. UNCHANGED <<mode, last, wrote>>
    BY DEF Start
  <2>2. RPFirst /\ pc[Leader] # Over => pc'[Leader] # Over
    BY DEF Start, Over
  <2> QED BY <2>1, <2>2, CountedFrame
<1>6. TypeOK'
  BY DEF Start, TypeOK, Place, Subject, Barrier, Gate, ParallelStatus
<1>7. SetupPhase'
  BY DEF Start, SetupPhase
<1>8. TeardownPhase'
  BY DEF Start, TeardownPhase
<1>9. TestPhase'
  BY DEF Start, TestPhase, Testing, Reloading, At2, RPFirst
<1> QED BY <1>1, <1>2, <1>3, <1>4, <1>5, <1>6, <1>7, <1>8, <1>9

LEMMA CheckEarlyKeeps ==
    ASSUME IInv, NEW p \in Proc, CheckEarly(p)
    PROVE  IInv'
<1> USE CoordinatorAssumption DEF IInv, At, Goto, settings, file
<1>1. Once'
  BY AbortMoves DEF CheckEarly, Once, TypeOK, After, AfterTeardown, AfterTests, AfterReload,
         AfterReady, AfterSetup, Over, Reloading, At2, Barrier, Announced, Gate
<1>2. Waiting'
  <2>1. ASSUME NEW g0 \in Gate, NEW q \in Proc, q \in past'[g0] PROVE q \in wrote'[g0]
    BY <2>1 DEF CheckEarly, Waiting
  <2>2. ASSUME NEW q \in Proc, NEW c \in Barrier, pc'[q] = <<"wait", c>>
        PROVE  q \in wrote'[c] /\ q \notin past'[c]
    BY <2>2, AbortMoves DEF CheckEarly, Waiting, TypeOK, Barrier, Gate
  <2>3. ASSUME NEW q \in Proc, NEW c \in Announced, pc'[q] = <<"all", c>>
        PROVE  /\ q \notin past'[c]
               /\ q = Leader \/ ~ RPFirst => q \in wrote'[c]
    BY <2>3, AbortMoves DEF CheckEarly, Waiting, TypeOK, Barrier, Gate
  <2> QED BY <2>1, <2>2, <2>3 DEF Waiting, RPFirst, CheckEarly
<1>3. Roles'
  BY AbortMoves DEF CheckEarly, Roles, TypeOK, LeaderOnly, FollowerOnly, At2, RPFirst, Follower,
         Barrier, Announced, Gate, ParallelStatus
<1>4. Alone'
  BY AbortMoves DEF CheckEarly, Alone, TypeOK, Over, At2, RPFirst, Follower, Barrier, Gate
<1>5. Counted'
  <2>1. UNCHANGED <<mode, last, wrote>>
    BY DEF CheckEarly
  <2>2. RPFirst /\ pc[Leader] # Over => pc'[Leader] # Over
    BY AbortMoves DEF CheckEarly, TypeOK, Over, Barrier, Gate
  <2> QED BY <2>1, <2>2, CountedFrame
<1>6. TypeOK'
  BY AbortMoves DEF CheckEarly, TypeOK, Place, Subject, Barrier, Gate
<1>7. SetupPhase'
  BY AbortMoves DEF CheckEarly, SetupPhase, TypeOK, RPFirst, Barrier, Gate
<1>8. TeardownPhase'
  BY AbortMoves DEF CheckEarly, TeardownPhase, TypeOK, RPFirst, Barrier, Gate
<1>9. TestPhase'
  BY AbortMoves DEF CheckEarly, TestPhase, TypeOK, Testing, Reloading, At2, RPFirst, Barrier,
         Gate
<1> QED BY <1>1, <1>2, <1>3, <1>4, <1>5, <1>6, <1>7, <1>8, <1>9

LEMMA MarkAndWaitKeeps ==
    ASSUME IInv, NEW p \in Proc, NEW b \in Barrier, MarkAndWait(p, b)
    PROVE  IInv'
<1> USE CoordinatorAssumption DEF IInv, At, Goto, settings, file
<1>1. Once'
  BY ProceedMoves DEF MarkAndWait, Mark, Once, TypeOK, After, AfterTeardown, AfterTests,
         AfterReload, AfterReady, AfterSetup, Over, Reloading, At2, Barrier, Announced, Gate
<1>2. Waiting'
  <2>1. ASSUME NEW g0 \in Gate, NEW q \in Proc, q \in past'[g0] PROVE q \in wrote'[g0]
    BY <2>1 DEF MarkAndWait, Mark, Waiting
  <2>2. ASSUME NEW q \in Proc, NEW c \in Barrier, pc'[q] = <<"wait", c>>
        PROVE  q \in wrote'[c] /\ q \notin past'[c]
    BY <2>2, ProceedMoves, Fresh DEF MarkAndWait, Mark, Waiting, TypeOK, Gate, ParallelStatus
  <2>3. ASSUME NEW q \in Proc, NEW c \in Announced, pc'[q] = <<"all", c>>
        PROVE  /\ q \notin past'[c]
               /\ q = Leader \/ ~ RPFirst => q \in wrote'[c]
    BY <2>3, ProceedMoves DEF MarkAndWait, Mark, Waiting, TypeOK, Gate
  <2> QED BY <2>1, <2>2, <2>3 DEF Waiting, RPFirst, MarkAndWait
<1>3. Roles'
  BY ProceedMoves DEF MarkAndWait, Mark, Roles, TypeOK, LeaderOnly, FollowerOnly, At2, RPFirst,
         Follower, Barrier, Gate
<1>4. Alone'
  BY ProceedMoves, Followers DEF MarkAndWait, Mark, Alone, TypeOK, Over, At2, RPFirst, Follower,
         Barrier, Announced, Gate
<1>5. Counted'
  <2>1. /\ b \in ParallelStatus /\ wrote[b] \subseteq Proc /\ last.acks \in Int
        /\ p \notin wrote[b] /\ mode' = mode /\ pc[p] = <<"mark", b>>
    BY Fresh DEF MarkAndWait, TypeOK, ParallelStatus, Gate
  <2>2. /\ last' = [status |-> b, acks |-> IF last.status = b THEN last.acks + 1 ELSE 1]
        /\ wrote'[b] = wrote[b] \cup {p}
    BY <2>1 DEF MarkAndWait, Mark, TypeOK
  <2>3. CASE ~ RPFirst
    <3>1. Cardinality(wrote[b] \cup {p}) = Cardinality(wrote[b]) + 1 /\ Cardinality(wrote[b]) \in Nat
      BY <2>1, Followers, FS_AddElement
    <3>2. last.status = b => last.acks <= Cardinality(wrote[b])
      BY <2>3 DEF Counted, Credit
    <3>3. Credit' = wrote[b] \cup {p}
      BY <2>1, <2>2, <2>3 DEF Credit, RPFirst
    <3>4. last'.acks <= Cardinality(wrote[b] \cup {p})
      BY <2>1, <2>2, <3>1, <3>2
    <3> QED BY <2>1, <2>2, <3>3, <3>4 DEF Counted, Gate
  <2>4. CASE RPFirst /\ p = Leader
    <3>1. wrote[b] = {}
      BY <2>1, <2>4 DEF Alone, Over, Follower
    <3>2. last'.acks <= 1
      BY <2>1, <2>2, <3>1 DEF Counted
    <3>3. pc'[Leader] # Over
      BY <2>1, <2>4, ProceedMoves DEF MarkAndWait, TypeOK, Over, Gate, Barrier
    <3> QED BY <2>1, <2>2, <2>4, <3>2, <3>3 DEF Counted, RPFirst, Gate
  <2>5. CASE RPFirst /\ p # Leader
    <3>1. pc[Leader] = Over /\ p \in Follower
      BY <2>1, <2>5 DEF Alone, Over, Follower
    <3>2. last.status = b => last.acks <= Cardinality(wrote[b] \cap Follower)
      BY <2>5, <3>1 DEF Counted, Credit
    <3>3. Credit' = (wrote[b] \cap Follower) \cup {p}
      BY <2>1, <2>2, <2>5, <3>1 DEF Credit, RPFirst
    <3>4. Cardinality((wrote[b] \cap Follower) \cup {p}) = Cardinality(wrote[b] \cap Follower) + 1
          /\ Cardinality(wrote[b] \cap Follower) \in Nat
      <4>1. wrote[b] \cap Follower \subseteq Proc /\ p \notin wrote[b] \cap Follower
        BY <2>1
      <4>2. IsFiniteSet(wrote[b] \cap Follower) /\ Cardinality(wrote[b] \cap Follower) \in Nat
        BY <4>1, Followers
      <4> QED BY <4>1, <4>2, FS_AddElement
    <3>5. last'.acks <= Cardinality((wrote[b] \cap Follower) \cup {p})
      BY <2>1, <2>2, <3>2, <3>4
    <3> QED BY <2>1, <2>2, <3>3, <3>5 DEF Counted, Gate
  <2> QED BY <2>3, <2>4, <2>5
<1>6. TypeOK'
  <2>1. b \in ParallelStatus /\ b \in Subject
    BY DEF Subject, ParallelStatus, Gate
  <2>2. wrote' \in [ParallelStatus -> SUBSET Proc]
    BY <2>1 DEF MarkAndWait, Mark, TypeOK
  <2>3. last' = [status |-> b, acks |-> last'.acks] /\ last'.acks \in Int /\ last'.acks >= 0
    BY <2>1 DEF MarkAndWait, Mark, TypeOK
  <2>4. last' \in [status : ParallelStatus, acks : -1 .. Cardinality(Proc)]
    BY <2>1, <2>2, <2>3, <1>5, CountTyped
  <2>5. pc' \in [Proc -> Place \X Subject]
    BY <2>1, ProceedMoves DEF MarkAndWait, TypeOK, Place, Subject, Gate, Announced,
           ParallelStatus
  <2> QED BY <2>2, <2>4, <2>5 DEF MarkAndWait, TypeOK
<1>7. SetupPhase'
  <2>1. /\ wrote' = [wrote EXCEPT ![b] = @ \cup {p}] /\ last'.status = b /\ mode' = mode
        /\ pc[p] = <<"mark", b>> /\ b # "setup_started"
    BY DEF MarkAndWait, Mark, Barrier
  <2>2. ASSUME NEW s \in ParallelStatus PROVE wrote[s] \subseteq wrote'[s] /\ wrote'[s] \subseteq Proc
    BY <2>1, <2>2 DEF TypeOK
  <2>3. CASE p = Leader
    <3>1. pc'[Leader] \in {<<"set", "setup_started">>, <<"sleep", "setup_ready">>} => wrote'[b] = Proc
          \/ RPFirst
      BY <2>1, <2>3, Followers DEF MarkAndWait, TypeOK, Follower, Gate, ParallelStatus
    <3>2. pc'[Leader] = <<"set", "setup_started">> => b = "setup_ready"
      BY <2>1, <2>3, ProceedMoves DEF MarkAndWait, TypeOK, Gate
    <3>3. pc'[Leader] \notin {<<"do", "checks">>, <<"do", "collect">>, <<"set", "setup_completed">>,
                             <<"sleep", "setup_ready">>}
      BY <2>1, <2>3, ProceedMoves DEF MarkAndWait, TypeOK, Gate
    <3> QED BY <2>1, <3>1, <3>2, <3>3 DEF SetupPhase, RPFirst
  <2>4. CASE p # Leader
    <3>1. pc'[Leader] = pc[Leader]
      BY <2>4, ProceedMoves DEF MarkAndWait, TypeOK, Gate
    <3>2. pc[Leader] \notin {<<"do", "checks">>, <<"do", "collect">>, <<"set", "setup_completed">>}
      BY <2>1, <2>4, Quiet DEF Follower
    <3>3. wrote["setup_ready"] \subseteq wrote'["setup_ready"] /\ wrote'["setup_ready"] \subseteq Proc
      BY <2>2 DEF ParallelStatus, Gate, Barrier
    <3> QED BY <2>1, <3>1, <3>2, <3>3 DEF SetupPhase, RPFirst
  <2> QED BY <2>3, <2>4
<1>8. TeardownPhase'
  <2>1. /\ wrote' = [wrote EXCEPT ![b] = @ \cup {p}] /\ last'.status = b /\ mode' = mode
        /\ pc[p] = <<"mark", b>> /\ b # "teardown_started"
    BY DEF MarkAndWait, Mark, Barrier
  <2>2. wrote["tests_completed"] \subseteq wrote'["tests_completed"] /\ wrote'["tests_completed"] \subseteq Proc
    BY <2>1 DEF TypeOK, ParallelStatus, Gate, Barrier
  <2>3. CASE p = Leader
    <3>1. pc'[Leader] = <<"set", "teardown_started">> => Follower = {} \/ RPFirst
      BY <2>1, <2>3, Followers DEF MarkAndWait, TypeOK
    <3>2. pc'[Leader] \in {<<"set", "teardown_started">>, <<"wait", "tests_completed">>}
          => b = "tests_completed" /\ Leader \in wrote'["tests_completed"]
      BY <2>1, <2>3, ProceedMoves DEF MarkAndWait, TypeOK, Gate, ParallelStatus
    <3>3. pc'[Leader] \notin {<<"do", "compare">>, <<"sleep", "tests_completed">>}
      <4>1. pc'[Leader] = <<"wait", b>> \/ Proceed(Leader, b)
        BY <2>3 DEF MarkAndWait, TypeOK
      <4>2. Proceed(Leader, b) => pc'[Leader] \notin {<<"do", "compare">>, <<"sleep", "tests_completed">>}
        BY ProceedMoves DEF TypeOK, Gate
      <4> QED BY <4>1, <4>2
    <3>4. ~ RPFirst /\ pc'[Leader] = <<"set", "teardown_started">> => wrote'["tests_completed"] = Proc
      BY <2>2, <3>1, <3>2 DEF Follower
    <3>5. last'.status # "teardown_started" /\ mode' = mode
      BY <2>1
    <3> QED BY <3>2, <3>3, <3>4, <3>5 DEF TeardownPhase, RPFirst
  <2>4. CASE p # Leader
    <3>1. pc'[Leader] = pc[Leader]
      BY <2>4, ProceedMoves DEF MarkAndWait, TypeOK, Gate
    <3>2. pc[Leader] # <<"do", "compare">>
      BY <2>1, <2>4, Quiet DEF Follower
    <3> QED BY <2>1, <2>2, <3>1, <3>2 DEF TeardownPhase, RPFirst
  <2> QED BY <2>3, <2>4
<1>9. TestPhase'
  BY ProceedMoves DEF MarkAndWait, Mark, TestPhase, TypeOK, Testing, Reloading, At2, RPFirst,
         Barrier, Gate
<1> QED BY <1>1, <1>2, <1>3, <1>4, <1>5, <1>6, <1>7, <1>8, <1>9

LEMMA PassBarrierKeeps ==
    ASSUME IInv, NEW p \in Proc, NEW b \in Barrier, PassBarrier(p, b)
    PROVE  IInv'
<1> USE CoordinatorAssumption DEF IInv, At, Goto, settings, file
<1>1. Once'
  BY DEF PassBarrier, Once, After, AfterTeardown, AfterTests, AfterReload, AfterReady,
         AfterSetup, Over, Reloading, At2, Barrier, Announced, Gate
<1>2. Waiting'
  <2>1. ASSUME NEW g0 \in Gate, NEW q \in Proc, q \in past'[g0] PROVE q \in wrote'[g0]
    BY <2>1 DEF PassBarrier, Waiting
  <2>2. ASSUME NEW q \in Proc, NEW c \in Barrier, pc'[q] = <<"wait", c>>
        PROVE  q \in wrote'[c] /\ q \notin past'[c]
    BY <2>2 DEF PassBarrier, Waiting, TypeOK
  <2>3. ASSUME NEW q \in Proc, NEW c \in Announced, pc'[q] = <<"all", c>>
        PROVE  /\ q \notin past'[c]
               /\ q = Leader \/ ~ RPFirst => q \in wrote'[c]
    BY <2>3 DEF PassBarrier, Waiting
  <2> QED BY <2>1, <2>2, <2>3 DEF Waiting, RPFirst, PassBarrier
<1>3. Roles'
  BY DEF PassBarrier, Roles, LeaderOnly, FollowerOnly, At2, RPFirst
<1>4. Alone'
  BY DEF PassBarrier, Alone, Over, At2, RPFirst
<1>5. Counted'
  <2>1. UNCHANGED <<mode, last, wrote>>
    BY DEF PassBarrier
  <2>2. RPFirst /\ pc[Leader] # Over => pc'[Leader] # Over
    BY DEF PassBarrier, Over
  <2> QED BY <2>1, <2>2, CountedFrame
<1>6. TypeOK'
  BY DEF PassBarrier, TypeOK, Place, Gate
<1>7. SetupPhase'
  <2>1. pc[p] = <<"wait", b>> /\ pc' = [pc EXCEPT ![p] = <<"sleep", b>>] /\ UNCHANGED <<mode, last, wrote>>
    BY DEF PassBarrier
  <2>2. Parties \subseteq wrote[b]
    BY <2>1, AllHere DEF PassBarrier
  <2>3. wrote[b] \subseteq Proc
    <3>1. b \in ParallelStatus
      BY DEF ParallelStatus, Gate
    <3> QED BY <3>1 DEF TypeOK
  <2>4. CASE p = Leader
    <3>1. pc'[Leader] = <<"sleep", b>> /\ (~ RPFirst => wrote[b] = Proc)
      BY <2>1, <2>2, <2>3, <2>4 DEF TypeOK, Parties
    <3> QED BY <2>1, <3>1 DEF SetupPhase, RPFirst
  <2>5. CASE p # Leader
    <3>1. pc'[Leader] = pc[Leader]
      BY <2>1, <2>5
    <3> QED BY <2>1, <3>1 DEF SetupPhase, RPFirst
  <2> QED BY <2>4, <2>5
<1>8. TeardownPhase'
  <2>1. pc[p] = <<"wait", b>> /\ pc' = [pc EXCEPT ![p] = <<"sleep", b>>] /\ UNCHANGED <<mode, last, wrote>>
    BY DEF PassBarrier
  <2>2. Parties \subseteq wrote[b]
    BY <2>1, AllHere DEF PassBarrier
  <2>3. wrote[b] \subseteq Proc
    <3>1. b \in ParallelStatus
      BY DEF ParallelStatus, Gate
    <3> QED BY <3>1 DEF TypeOK
  <2>4. CASE p = Leader
    <3>1. pc'[Leader] = <<"sleep", b>> /\ (~ RPFirst => wrote[b] = Proc)
      BY <2>1, <2>2, <2>3, <2>4 DEF TypeOK, Parties
    <3>2. b = "tests_completed" => Leader \in wrote["tests_completed"]
      BY <2>1, <2>4 DEF Waiting
    <3> QED BY <2>1, <3>1, <3>2 DEF TeardownPhase, RPFirst
  <2>5. CASE p # Leader
    <3>1. pc'[Leader] = pc[Leader]
      BY <2>1, <2>5
    <3> QED BY <2>1, <3>1 DEF TeardownPhase, RPFirst
  <2> QED BY <2>4, <2>5
<1>9. TestPhase'
  BY DEF PassBarrier, TestPhase, Testing, Reloading, At2, RPFirst
<1> QED BY <1>1, <1>2, <1>3, <1>4, <1>5, <1>6, <1>7, <1>8, <1>9

LEMMA WakeKeeps ==
    ASSUME IInv, NEW p \in Proc, NEW b \in Barrier, Wake(p, b)
    PROVE  IInv'
<1> USE CoordinatorAssumption DEF IInv, At, Goto, settings, file
<1>1. Once'
  BY ProceedMoves DEF Wake, Once, TypeOK, After, AfterTeardown, AfterTests, AfterReload,
         AfterReady, AfterSetup, Over, Reloading, At2, Barrier, Announced, Gate
<1>2. Waiting'
  <2>1. ASSUME NEW g0 \in Gate, NEW q \in Proc, q \in past'[g0] PROVE q \in wrote'[g0]
    BY <2>1 DEF Wake, Waiting
  <2>2. ASSUME NEW q \in Proc, NEW c \in Barrier, pc'[q] = <<"wait", c>>
        PROVE  q \in wrote'[c] /\ q \notin past'[c]
    BY <2>2, ProceedMoves DEF Wake, Waiting, TypeOK, Gate
  <2>3. ASSUME NEW q \in Proc, NEW c \in Announced, pc'[q] = <<"all", c>>
        PROVE  /\ q \notin past'[c]
               /\ q = Leader \/ ~ RPFirst => q \in wrote'[c]
    BY <2>3, ProceedMoves DEF Wake, Waiting, TypeOK, Gate
  <2> QED BY <2>1, <2>2, <2>3 DEF Waiting, RPFirst, Wake
<1>3. Roles'
  BY ProceedMoves DEF Wake, Roles, TypeOK, LeaderOnly, FollowerOnly, At2, RPFirst, Follower,
         Barrier, Announced, Gate
<1>4. Alone'
  BY ProceedMoves DEF Wake, Alone, TypeOK, Over, At2, RPFirst, Follower, Gate
<1>5. Counted'
  <2>1. UNCHANGED <<mode, last, wrote>>
    BY DEF Wake
  <2>2. RPFirst /\ pc[Leader] # Over => pc'[Leader] # Over
    BY ProceedMoves DEF Wake, TypeOK, Over, Barrier, Gate
  <2> QED BY <2>1, <2>2, CountedFrame
<1>6. TypeOK'
  BY ProceedMoves DEF Wake, TypeOK, Place, Subject, Announced, Gate, ParallelStatus
<1>7. SetupPhase'
  BY ProceedMoves DEF Wake, SetupPhase, TypeOK, RPFirst, Gate
<1>8. TeardownPhase'
  BY ProceedMoves DEF Wake, TeardownPhase, TypeOK, RPFirst, Gate
<1>9. TestPhase'
  BY ProceedMoves DEF Wake, TestPhase, TypeOK, Testing, Reloading, At2, RPFirst, Barrier, Gate
<1> QED BY <1>1, <1>2, <1>3, <1>4, <1>5, <1>6, <1>7, <1>8, <1>9

LEMMA LeaveEarlyKeeps ==
    ASSUME IInv, NEW p \in Proc, LeaveEarly(p)
    PROVE  IInv'
<1> USE CoordinatorAssumption DEF IInv, At, Goto, settings, file
<1>1. Once'
  BY AbortMoves DEF LeaveEarly, Once, TypeOK, After, AfterTeardown, AfterTests, AfterReload,
         AfterReady, AfterSetup, Over, Reloading, At2, Barrier, Announced, Gate
<1>2. Waiting'
  <2>1. ASSUME NEW g0 \in Gate, NEW q \in Proc, q \in past'[g0] PROVE q \in wrote'[g0]
    BY <2>1 DEF LeaveEarly, Waiting
  <2>2. ASSUME NEW q \in Proc, NEW c \in Barrier, pc'[q] = <<"wait", c>>
        PROVE  q \in wrote'[c] /\ q \notin past'[c]
    BY <2>2, AbortMoves DEF LeaveEarly, Waiting, TypeOK, Barrier, Gate
  <2>3. ASSUME NEW q \in Proc, NEW c \in Announced, pc'[q] = <<"all", c>>
        PROVE  /\ q \notin past'[c]
               /\ q = Leader \/ ~ RPFirst => q \in wrote'[c]
    BY <2>3, AbortMoves DEF LeaveEarly, Waiting, TypeOK, Barrier, Gate
  <2> QED BY <2>1, <2>2, <2>3 DEF Waiting, RPFirst, LeaveEarly
<1>3. Roles'
  BY AbortMoves DEF LeaveEarly, Roles, TypeOK, LeaderOnly, FollowerOnly, At2, RPFirst, Follower,
         Barrier, Gate
<1>4. Alone'
  BY AbortMoves DEF LeaveEarly, Alone, TypeOK, Over, At2, RPFirst, Follower, Barrier, Gate
<1>5. Counted'
  <2>1. UNCHANGED <<mode, last, wrote>>
    BY DEF LeaveEarly
  <2>2. RPFirst /\ pc[Leader] # Over => pc'[Leader] # Over
    BY AbortMoves DEF LeaveEarly, TypeOK, Over, Barrier, Gate
  <2> QED BY <2>1, <2>2, CountedFrame
<1>6. TypeOK'
  BY AbortMoves DEF LeaveEarly, TypeOK, Place, Subject, Barrier, Gate
<1>7. SetupPhase'
  BY AbortMoves DEF LeaveEarly, SetupPhase, TypeOK, RPFirst, Barrier, Gate
<1>8. TeardownPhase'
  BY AbortMoves DEF LeaveEarly, TeardownPhase, TypeOK, RPFirst, Barrier, Gate
<1>9. TestPhase'
  BY AbortMoves DEF LeaveEarly, TestPhase, TypeOK, Testing, Reloading, At2, RPFirst, Barrier,
         Gate
<1> QED BY <1>1, <1>2, <1>3, <1>4, <1>5, <1>6, <1>7, <1>8, <1>9

LEMMA ExpectKeeps ==
    ASSUME IInv, NEW p \in Proc, NEW a \in Announced, Expect(p, a)
    PROVE  IInv'
<1> USE CoordinatorAssumption DEF IInv, At, Goto, settings, file
<1>1. Once'
  BY AbortMoves, Followers DEF Expect, Once, TypeOK, After, AfterTeardown, AfterTests,
         AfterReload, AfterReady, AfterSetup, Over, Reloading, At2, Barrier, Announced, Gate
<1>2. Waiting'
  <2>1. ASSUME NEW g0 \in Gate, NEW q \in Proc, q \in past'[g0] PROVE q \in wrote'[g0]
    BY <2>1 DEF Expect, Waiting
  <2>2. ASSUME NEW q \in Proc, NEW c \in Barrier, pc'[q] = <<"wait", c>>
        PROVE  q \in wrote'[c] /\ q \notin past'[c]
    BY <2>2, AbortMoves DEF Expect, Waiting, TypeOK, Announced, Gate
  <2>3. ASSUME NEW q \in Proc, NEW c \in Announced, pc'[q] = <<"all", c>>
        PROVE  /\ q \notin past'[c]
               /\ q = Leader \/ ~ RPFirst => q \in wrote'[c]
    <3>1. p \in Follower /\ UNCHANGED <<mode, past, wrote>> /\ p \notin wrote[a]
      BY Fresh DEF Expect, Roles, FollowerOnly, At2, Follower, Announced
    <3>2. CASE q = p
      <4>1. c = a /\ RPFirst
        BY <2>3, <3>1, <3>2, AbortMoves, Followers DEF Expect, TypeOK, Gate
      <4> QED BY <3>1, <3>2, <4>1 DEF Waiting, Follower, Gate
    <3>3. CASE q # p
      <4>1. pc[q] = <<"all", c>>
        BY <2>3, <3>3, AbortMoves DEF Expect, TypeOK, Gate
      <4> QED BY <3>1, <4>1 DEF Waiting
    <3> QED BY <3>2, <3>3
  <2> QED BY <2>1, <2>2, <2>3 DEF Waiting, RPFirst, Expect
<1>3. Roles'
  BY AbortMoves, Followers DEF Expect, Roles, TypeOK, LeaderOnly, FollowerOnly, At2, RPFirst,
         Follower, Barrier, Announced, Gate
<1>4. Alone'
  <2>1. p \in Follower /\ UNCHANGED <<mode, last, wrote>> /\ pc[p] = <<"expect", a>>
    BY DEF Expect, Roles, FollowerOnly, At2, Follower, Announced
  <2>2. pc'[Leader] = pc[Leader]
    BY <2>1, AbortMoves DEF Expect, TypeOK, Follower, Gate
  <2>3. RPFirst => pc[Leader] = Over
    BY <2>1 DEF Alone, Over
  <2>4. RPFirst => \A c \in Announced : pc'[p] # <<"ack", c>>
    BY <2>1, AbortMoves, Followers DEF Expect, TypeOK, Gate
  <2>5. \A q \in Proc \ {p} : pc'[q] = pc[q]
    BY AbortMoves DEF Expect, TypeOK, Gate
  <2> QED BY <2>1, <2>2, <2>3, <2>4, <2>5 DEF Alone, RPFirst, Follower
<1>5. Counted'
  <2>1. UNCHANGED <<mode, last, wrote>>
    BY DEF Expect
  <2>2. RPFirst /\ pc[Leader] # Over => pc'[Leader] # Over
    BY AbortMoves DEF Expect, Roles, FollowerOnly, At2, TypeOK, Announced, Gate
  <2> QED BY <2>1, <2>2, CountedFrame
<1>6. TypeOK'
  BY AbortMoves DEF Expect, TypeOK, Place, Subject, Announced, Gate, ParallelStatus
<1>7. SetupPhase'
  BY AbortMoves DEF Expect, SetupPhase, TypeOK, RPFirst, Announced, Gate
<1>8. TeardownPhase'
  BY AbortMoves DEF Expect, TeardownPhase, TypeOK, RPFirst, Announced, Gate
<1>9. TestPhase'
  BY AbortMoves DEF Expect, TestPhase, TypeOK, Testing, Reloading, At2, RPFirst, Announced, Gate
<1> QED BY <1>1, <1>2, <1>3, <1>4, <1>5, <1>6, <1>7, <1>8, <1>9

LEMMA AcknowledgeKeeps ==
    ASSUME IInv, NEW p \in Proc, NEW a \in Announced, Acknowledge(p, a)
    PROVE  IInv'
<1> USE CoordinatorAssumption DEF IInv, At, Goto, settings, file
<1>1. Once'
  BY AbortMoves, Followers DEF Acknowledge, SetNew, Once, TypeOK, After, AfterTeardown,
         AfterTests, AfterReload, AfterReady, AfterSetup, Over, Reloading, At2, Barrier,
         Announced, Gate, ParallelStatus
<1>2. Waiting'
  <2>1. ASSUME NEW g0 \in Gate, NEW q \in Proc, q \in past'[g0] PROVE q \in wrote'[g0]
    BY <2>1 DEF Acknowledge, SetNew, Waiting, TypeOK, ParallelStatus
  <2>2. ASSUME NEW q \in Proc, NEW c \in Barrier, pc'[q] = <<"wait", c>>
        PROVE  q \in wrote'[c] /\ q \notin past'[c]
    BY <2>2, AbortMoves DEF Acknowledge, SetNew, Waiting, TypeOK, Announced, Gate,
           ParallelStatus
  <2>3. ASSUME NEW q \in Proc, NEW c \in Announced, pc'[q] = <<"all", c>>
        PROVE  /\ q \notin past'[c]
               /\ q = Leader \/ ~ RPFirst => q \in wrote'[c]
    BY <2>3, AbortMoves, Fresh DEF Acknowledge, SetNew, Waiting, TypeOK, Announced, Gate,
           ParallelStatus
  <2> QED BY <2>1, <2>2, <2>3 DEF Waiting, RPFirst, Acknowledge
<1>3. Roles'
  <2>1. p \in Follower /\ UNCHANGED mode /\ pc[p] = <<"ack", a>> /\ ~ RPFirst
    BY DEF Acknowledge, Roles, Alone, FollowerOnly, At2, Follower, Announced
  <2>2. Leader \in wrote[a]
    BY <2>1 DEF Roles, At2
  <2>3. \A s \in ParallelStatus : wrote[s] \subseteq wrote'[s] /\ wrote'[s] \subseteq wrote[s] \cup {p}
        /\ (s # a => wrote'[s] = wrote[s])
    BY DEF Acknowledge, SetNew, TypeOK
  <2>4. last'.status = last.status
    BY DEF Acknowledge, SetNew
  <2>5. \A q \in Proc \ {p} : pc'[q] = pc[q]
    BY AbortMoves DEF Acknowledge, TypeOK, Gate
  <2>6. pc'[p] \in {<<"all", a>>, <<"expect", "teardown_completed">>, Over}
    BY <2>1, AbortMoves DEF Acknowledge, TypeOK, Gate, Announced, Over, Follower
  <2> QED BY <2>1, <2>2, <2>3, <2>4, <2>5, <2>6
        DEF Roles, LeaderOnly, FollowerOnly, At2, RPFirst, Over, Follower, Announced, Barrier, ParallelStatus, Gate
<1>4. Alone'
  <2>1. ~ RPFirst /\ mode' = mode
    BY DEF Acknowledge, Roles, Alone, FollowerOnly, At2, Follower, Announced
  <2> QED BY <2>1 DEF Alone, RPFirst
<1>5. Counted'
  <2>1. /\ ~ RPFirst /\ mode' = mode /\ p \in Follower /\ p \notin wrote[a]
        /\ a \in ParallelStatus /\ wrote[a] \subseteq Proc /\ last.acks \in Int
    BY Fresh DEF Acknowledge, Roles, Alone, FollowerOnly, At2, Follower, Announced, TypeOK,
           ParallelStatus, Gate
  <2>2. CASE last.status # a
    BY <2>1, <2>2, CountedFrame DEF Acknowledge
  <2>3. CASE last.status = a
    <3>1. last' = [status |-> a, acks |-> last.acks + 1] /\ wrote'[a] = wrote[a] \cup {p}
      BY <2>1, <2>3 DEF Acknowledge, SetNew, TypeOK
    <3>2. last.acks <= Cardinality(wrote[a] \cap Follower)
      BY <2>1, <2>3 DEF Counted, Credit, Barrier, Announced
    <3>3. Credit' = (wrote[a] \cap Follower) \cup {p}
      BY <2>1, <3>1 DEF Credit, Barrier, Announced
    <3>4. Cardinality((wrote[a] \cap Follower) \cup {p}) = Cardinality(wrote[a] \cap Follower) + 1
          /\ Cardinality(wrote[a] \cap Follower) \in Nat
      <4>1. wrote[a] \cap Follower \subseteq Proc /\ p \notin wrote[a] \cap Follower
        BY <2>1
      <4>2. IsFiniteSet(wrote[a] \cap Follower) /\ Cardinality(wrote[a] \cap Follower) \in Nat
        BY <4>1, Followers
      <4> QED BY <4>1, <4>2, FS_AddElement
    <3>5. last'.acks <= Cardinality(Credit')
      BY <2>1, <3>1, <3>2, <3>3, <3>4
    <3> QED BY <3>1, <3>5 DEF Counted, Gate
  <2> QED BY <2>2, <2>3
<1>6. TypeOK'
  <2>1. a \in ParallelStatus /\ a \in Subject
    BY DEF Subject, ParallelStatus, Gate
  <2>2. wrote' \in [ParallelStatus -> SUBSET Proc]
    BY <2>1 DEF Acknowledge, SetNew, TypeOK
  <2>3. last' = [status |-> last'.status, acks |-> last'.acks] /\ last'.status \in ParallelStatus
        /\ last'.acks \in Int /\ last'.acks >= -1
    BY <2>1 DEF Acknowledge, SetNew, TypeOK
  <2>4. last' \in [status : ParallelStatus, acks : -1 .. Cardinality(Proc)]
    BY <2>1, <2>2, <2>3, <1>5, CountTyped
  <2>5. pc' \in [Proc -> Place \X Subject]
    BY <2>1, AbortMoves DEF Acknowledge, TypeOK, Place, Subject, Gate, Announced, ParallelStatus
  <2> QED BY <2>2, <2>4, <2>5 DEF Acknowledge, TypeOK
<1>7. SetupPhase'
  BY AbortMoves DEF Acknowledge, SetNew, SetupPhase, TypeOK, RPFirst, Barrier, Announced, Gate,
         ParallelStatus
<1>8. TeardownPhase'
  BY AbortMoves DEF Acknowledge, SetNew, TeardownPhase, TypeOK, RPFirst, Barrier, Announced,
         Gate, ParallelStatus
<1>9. TestPhase'
  <2>1. pc'[p] \notin Testing
    BY AbortMoves DEF Acknowledge, TypeOK, Gate, Announced, Testing, Reloading, At2
  <2>2. \A q \in Proc \ {p} : pc'[q] = pc[q]
    BY AbortMoves DEF Acknowledge, TypeOK, Gate
  <2>3. /\ wrote["setup_completed"] \subseteq wrote'["setup_completed"]
        /\ wrote'["setup_completed"] \subseteq Proc /\ mode' = mode
    BY DEF Acknowledge, SetNew, TypeOK, ParallelStatus, Gate, Announced
  <2> QED BY <2>1, <2>2, <2>3 DEF TestPhase, RPFirst
<1> QED BY <1>1, <1>2, <1>3, <1>4, <1>5, <1>6, <1>7, <1>8, <1>9

LEMMA PassAckedKeeps ==
    ASSUME IInv, NEW p \in Proc, NEW a \in Announced, PassAcked(p, a)
    PROVE  IInv'
<1> USE CoordinatorAssumption DEF IInv, At, Goto, settings, file
<1>1. Once'
  BY ProceedMoves, Followers DEF PassAcked, Once, TypeOK, After, AfterTeardown, AfterTests,
         AfterReload, AfterReady, AfterSetup, Over, Reloading, At2, Barrier, Announced, Gate
<1>2. Waiting'
  <2>1. ASSUME NEW g0 \in Gate, NEW q \in Proc, q \in past'[g0] PROVE q \in wrote'[g0]
    BY <2>1, Followers DEF PassAcked, Waiting, TypeOK
  <2>2. ASSUME NEW q \in Proc, NEW c \in Barrier, pc'[q] = <<"wait", c>>
        PROVE  q \in wrote'[c] /\ q \notin past'[c]
    BY <2>2, ProceedMoves DEF PassAcked, Waiting, TypeOK, Announced, Gate
  <2>3. ASSUME NEW q \in Proc, NEW c \in Announced, pc'[q] = <<"all", c>>
        PROVE  /\ q \notin past'[c]
               /\ q = Leader \/ ~ RPFirst => q \in wrote'[c]
    <3>1. UNCHANGED <<mode, wrote>> /\ \A g0 \in Gate : past'[g0] \subseteq past[g0] \cup {p}
      BY DEF PassAcked, TypeOK
    <3>2. pc'[p] # <<"all", c>>
      BY ProceedMoves DEF PassAcked, TypeOK, Gate
    <3>3. pc[q] = <<"all", c>> /\ q # p
      BY <2>3, <3>2, ProceedMoves DEF PassAcked, TypeOK, Gate
    <3> QED BY <3>1, <3>3 DEF Waiting, Gate
  <2> QED BY <2>1, <2>2, <2>3 DEF Waiting, RPFirst, PassAcked
<1>3. Roles'
  BY ProceedMoves DEF PassAcked, Roles, TypeOK, LeaderOnly, FollowerOnly, At2, RPFirst,
         Follower, Announced, Gate
<1>4. Alone'
  BY ProceedMoves DEF PassAcked, Alone, TypeOK, Over, At2, RPFirst, Follower, Announced, Gate
<1>5. Counted'
  <2>1. UNCHANGED <<mode, last, wrote>> /\ pc[p] = <<"all", a>>
    BY DEF PassAcked
  <2>2. CASE RPFirst /\ p = Leader /\ a = "teardown_completed"
    <3>1. last.acks = 0 /\ last.status = a
      BY <2>1, <2>2 DEF Alone
    <3>2. wrote[a] \subseteq Proc
      BY <2>2 DEF TypeOK, ParallelStatus, Gate
    <3>3. Cardinality(Credit) >= 0
      BY <3>1, <3>2, Followers DEF Credit
    <3> QED BY <2>1, <3>1, <3>3 DEF Counted, Credit, RPFirst
  <2>3. CASE ~ (RPFirst /\ p = Leader /\ a = "teardown_completed")
    <3>1. RPFirst /\ pc[Leader] # Over => pc'[Leader] # Over
      BY <2>3, ProceedMoves DEF PassAcked, TypeOK, Over, Gate
    <3> QED BY <2>1, <3>1, CountedFrame
  <2> QED BY <2>2, <2>3
<1>6. TypeOK'
  BY ProceedMoves DEF PassAcked, TypeOK, Place, Subject, Announced, Gate
<1>7. SetupPhase'
  BY ProceedMoves DEF PassAcked, SetupPhase, TypeOK, RPFirst, Announced, Gate
<1>8. TeardownPhase'
  BY ProceedMoves DEF PassAcked, TeardownPhase, TypeOK, RPFirst, Announced, Gate
<1>9. TestPhase'
  <2>1. UNCHANGED <<mode, wrote>> /\ pc[p] = <<"all", a>>
    BY DEF PassAcked
  <2>2. \A q \in Proc \ {p} : pc'[q] = pc[q]
    BY ProceedMoves DEF PassAcked, TypeOK, Gate
  <2>3. pc'[p] \in Testing => a = "setup_completed"
    BY ProceedMoves DEF PassAcked, TypeOK, Gate, Announced, Testing, Reloading, At2
  <2>4. p = Leader \/ ~ RPFirst => p \in wrote[a]
    BY <2>1 DEF Waiting
  <2>5. ~ RPFirst => wrote[a] = Proc
    <3>1. CASE ~ RPFirst /\ SkipsHandshake(p)
      <4>1. Proc = {p}
        BY <3>1, Followers DEF Follower
      <4>2. wrote[a] \subseteq Proc
        BY DEF TypeOK, ParallelStatus, Gate
      <4> QED BY <2>4, <3>1, <4>1, <4>2
    <3>2. CASE ~ RPFirst /\ ~ SkipsHandshake(p)
      <4>1. AllAcked(p, a)
        BY <3>2 DEF PassAcked
      <4> QED BY <3>2, <4>1, AllAckedHere
    <3> QED BY <3>1, <3>2
  <2> QED BY <2>1, <2>2, <2>3, <2>4, <2>5 DEF TestPhase, RPFirst
<1> QED BY <1>1, <1>2, <1>3, <1>4, <1>5, <1>6, <1>7, <1>8, <1>9

LEMMA TimeOutKeeps ==
    ASSUME IInv, NEW p \in Proc, NEW g \in Gate, TimeOut(p, g)
    PROVE  IInv'
<1> USE CoordinatorAssumption DEF IInv, At, Goto, settings, file
<1>1. Once'
  BY AbortMoves DEF TimeOut, Once, TypeOK, After, AfterTeardown, AfterTests, AfterReload,
         AfterReady, AfterSetup, Over, Reloading, At2, Barrier, Announced, Gate
<1>2. Waiting'
  <2>1. ASSUME NEW g0 \in Gate, NEW q \in Proc, q \in past'[g0] PROVE q \in wrote'[g0]
    BY <2>1 DEF TimeOut, Waiting
  <2>2. ASSUME NEW q \in Proc, NEW c \in Barrier, pc'[q] = <<"wait", c>>
        PROVE  q \in wrote'[c] /\ q \notin past'[c]
    BY <2>2, AbortMoves, Followers DEF TimeOut, Waiting, TypeOK
  <2>3. ASSUME NEW q \in Proc, NEW c \in Announced, pc'[q] = <<"all", c>>
        PROVE  /\ q \notin past'[c]
               /\ q = Leader \/ ~ RPFirst => q \in wrote'[c]
    BY <2>3, AbortMoves DEF TimeOut, Waiting, TypeOK
  <2> QED BY <2>1, <2>2, <2>3 DEF Waiting, RPFirst, TimeOut
<1>3. Roles'
  BY AbortMoves DEF TimeOut, Roles, TypeOK, LeaderOnly, FollowerOnly, At2, RPFirst, Follower,
         Barrier
<1>4. Alone'
  BY AbortMoves DEF TimeOut, Alone, TypeOK, Over, At2, RPFirst, Follower
<1>5. Counted'
  <2>1. UNCHANGED <<mode, last, wrote>>
    BY DEF TimeOut
  <2>2. ~ (RPFirst /\ p = Leader)
    <3>1. RPFirst /\ p = Leader => SkipsHandshake(p)
      BY Followers
    <3>2. RPFirst /\ p = Leader => pc[p] # <<"wait", g>>
      <4>1. CASE g \in Barrier
        BY <4>1 DEF Alone, At2
      <4>2. CASE g \in Announced
        BY <4>2 DEF Roles, At2
      <4> QED BY <4>1, <4>2 DEF Gate
    <3> QED BY <3>1, <3>2 DEF TimeOut
  <2>3. RPFirst => pc'[Leader] = pc[Leader]
    BY <2>2, AbortMoves DEF TimeOut, TypeOK
  <2> QED BY <2>1, <2>3, CountedFrame
<1>6. TypeOK'
  <2>1. pc' \in [Proc -> Place \X Subject]
    BY AbortMoves DEF TimeOut, TypeOK, Place, Subject, ParallelStatus, Gate, Announced
  <2> QED BY <2>1 DEF TimeOut, TypeOK
<1>7. SetupPhase'
  BY AbortMoves DEF TimeOut, SetupPhase, TypeOK, RPFirst
<1>8. TeardownPhase'
  BY AbortMoves DEF TimeOut, TeardownPhase, TypeOK, RPFirst
<1>9. TestPhase'
  <2>1. UNCHANGED <<mode, wrote>> /\ pc[p] \in At2({"wait", "expect", "all"}, g)
    BY DEF TimeOut, At2
  <2>2. \A q \in Proc \ {p} : pc'[q] = pc[q]
    BY AbortMoves DEF TimeOut, TypeOK
  <2>3. pc'[p] \in Testing => g \in {"reload_ready", "reload_completed"}
    BY AbortMoves DEF TimeOut, TypeOK, Testing, Reloading, At2
  <2>4. g \in {"reload_ready", "reload_completed"} => pc[p] \in Testing
    BY <2>1 DEF Roles, Testing, Reloading, At2, Barrier
  <2> QED BY <2>1, <2>2, <2>3, <2>4 DEF TestPhase, RPFirst
<1> QED BY <1>1, <1>2, <1>3, <1>4, <1>5, <1>6, <1>7, <1>8, <1>9

LEMMA SetStatusKeeps ==
    ASSUME IInv, SetStatus
    PROVE  IInv'
<1> USE CoordinatorAssumption DEF IInv, At, Goto, settings, file
<1>1. Once'
  BY SetStatusMoves DEF SetNew, Once, TypeOK, After, AfterTeardown, AfterTests, AfterReload,
         AfterReady, AfterSetup, Over, Reloading, At2, Barrier, Announced, Gate, ParallelStatus
<1>2. Waiting'
  <2>1. ASSUME NEW g0 \in Gate, NEW q \in Proc, q \in past'[g0] PROVE q \in wrote'[g0]
    BY <2>1, SetStatusMoves DEF SetNew, Waiting, TypeOK, ParallelStatus
  <2>2. ASSUME NEW q \in Proc, NEW c \in Barrier, pc'[q] = <<"wait", c>>
        PROVE  q \in wrote'[c] /\ q \notin past'[c]
    BY <2>2, SetStatusMoves DEF SetNew, Waiting, TypeOK, Gate, ParallelStatus
  <2>3. ASSUME NEW q \in Proc, NEW c \in Announced, pc'[q] = <<"all", c>>
        PROVE  /\ q \notin past'[c]
               /\ q = Leader \/ ~ RPFirst => q \in wrote'[c]
    <3>1. UNCHANGED <<mode, past>> /\ \A s \in ParallelStatus : wrote[s] \subseteq wrote'[s]
      BY SetStatusMoves DEF SetNew, TypeOK
    <3>2. CASE q = Leader
      <4>1. c = "setup_completed" /\ Leader \in wrote'[c] /\ pc[Leader] = <<"set", "setup_completed">>
        BY <2>3, <3>2, SetStatusMoves DEF SetNew, TypeOK, ParallelStatus, Gate
      <4>2. Leader \notin wrote[c]
        BY <4>1, Fresh
      <4> QED BY <3>1, <3>2, <4>1, <4>2 DEF Waiting, Gate
    <3>3. CASE q # Leader
      <4>1. pc[q] = <<"all", c>>
        BY <2>3, <3>3, SetStatusMoves DEF TypeOK
      <4> QED BY <3>1, <3>3, <4>1 DEF Waiting, ParallelStatus, Gate
    <3> QED BY <3>2, <3>3
  <2> QED BY <2>1, <2>2, <2>3, SetStatusMoves DEF Waiting, RPFirst
<1>3. Roles'
  BY SetStatusMoves DEF SetNew, Roles, TypeOK, FollowerOnly, At2, RPFirst, Follower, Barrier,
         Gate, ParallelStatus
<1>4. Alone'
  BY SetStatusMoves DEF SetNew, Alone, TypeOK, Over, At2, RPFirst, Follower, Gate,
         ParallelStatus
<1>5. Counted'
  BY SetStatusMoves, Followers DEF SetNew, Counted, Credit, TypeOK, Barrier, Announced, Gate,
         ParallelStatus
<1>6. TypeOK'
  BY SetStatusMoves, Followers DEF SetNew, TypeOK, Place, Subject, ParallelStatus
<1>7. SetupPhase'
  <2>1. mode' = mode /\ Leader \in Proc
    BY SetStatusMoves
  <2>2. CASE At(Leader, "set", "setup_started") /\ SetNew(Leader, "setup_started", 0)
             /\ Goto(Leader, "do", "checks")
    <3>1. Leader \notin wrote["setup_completed"]
      BY <2>1, <2>2 DEF Once, After, AfterTeardown, AfterTests, AfterReload, AfterReady,
             AfterSetup, Over, Gate, Announced
    <3>2. wrote' = [wrote EXCEPT !["setup_started"] = @ \cup {Leader}]
          /\ last'.status = "setup_started" /\ pc'[Leader] = <<"do", "checks">>
      BY <2>1, <2>2 DEF SetNew, TypeOK
    <3> QED BY <2>1, <2>2, <3>1, <3>2 DEF SetupPhase, RPFirst
  <2>3. CASE At(Leader, "set", "setup_completed") /\ SetNew(Leader, "setup_completed", 0)
             /\ Goto(Leader, "all", "setup_completed")
    <3>1. last'.status = "setup_completed" /\ pc'[Leader] = <<"all", "setup_completed">>
      BY <2>1, <2>3 DEF SetNew, TypeOK
    <3> QED BY <2>1, <3>1 DEF SetupPhase
  <2>4. CASE At(Leader, "set", "teardown_started") /\ SetNew(Leader, "teardown_started", 0)
             /\ Goto(Leader, "do", "compare")
    <3>1. last'.status = "teardown_started" /\ pc'[Leader] = <<"do", "compare">>
      BY <2>1, <2>4 DEF SetNew, TypeOK
    <3> QED BY <2>1, <3>1 DEF SetupPhase
  <2> QED BY <2>2, <2>3, <2>4, SetStatusMoves
<1>8. TeardownPhase'
  BY SetStatusMoves DEF SetNew, TeardownPhase, TypeOK, RPFirst, Barrier, Gate, ParallelStatus
<1>9. TestPhase'
  <2>1. mode' = mode /\ pc'[Leader] \notin Testing
    BY SetStatusMoves DEF TypeOK, Testing, Reloading, At2
  <2>2. \A q \in Proc \ {Leader} : pc'[q] = pc[q]
    BY SetStatusMoves DEF TypeOK
  <2>3. wrote["setup_completed"] \subseteq wrote'["setup_completed"]
        /\ wrote'["setup_completed"] \subseteq Proc
    BY SetStatusMoves DEF SetNew, TypeOK, ParallelStatus, Gate, Announced
  <2> QED BY <2>1, <2>2, <2>3 DEF TestPhase, RPFirst
<1> QED BY <1>1, <1>2, <1>3, <1>4, <1>5, <1>6, <1>7, <1>8, <1>9

LEMMA CheckCollectKeeps ==
    ASSUME IInv, Check \/ Collect
    PROVE  IInv'
<1> USE CoordinatorAssumption DEF IInv, At, Goto, settings, file
<1>1. Once'
  BY DEF Check, Collect, Once, TypeOK, After, AfterTeardown, AfterTests, AfterReload,
         AfterReady, AfterSetup, Over, Reloading, At2, Barrier, Announced, Gate
<1>2. Waiting'
  <2>1. ASSUME NEW g0 \in Gate, NEW q \in Proc, q \in past'[g0] PROVE q \in wrote'[g0]
    BY <2>1 DEF Check, Collect, Waiting
  <2>2. ASSUME NEW q \in Proc, NEW c \in Barrier, pc'[q] = <<"wait", c>>
        PROVE  q \in wrote'[c] /\ q \notin past'[c]
    BY <2>2 DEF Check, Collect, Waiting, TypeOK
  <2>3. ASSUME NEW q \in Proc, NEW c \in Announced, pc'[q] = <<"all", c>>
        PROVE  /\ q \notin past'[c]
               /\ q = Leader \/ ~ RPFirst => q \in wrote'[c]
    BY <2>3 DEF Check, Collect, Waiting, TypeOK
  <2> QED BY <2>1, <2>2, <2>3 DEF Waiting, RPFirst, Check, Collect
<1>3. Roles'
  BY DEF Check, Collect, Roles, TypeOK, FollowerOnly, At2, RPFirst, Follower
<1>4. Alone'
  BY DEF Check, Collect, Alone, TypeOK, Over, At2, RPFirst, Follower
<1>5. Counted'
  <2>1. UNCHANGED <<mode, last, wrote>>
    BY DEF Check, Collect
  <2>2. RPFirst /\ pc[Leader] # Over => pc'[Leader] # Over
    BY DEF Check, Collect, TypeOK, Over
  <2> QED BY <2>1, <2>2, CountedFrame
<1>6. TypeOK'
  BY DEF Check, Collect, TypeOK, Place, Subject, Announced, Gate, ParallelStatus
<1>7. SetupPhase'
  BY DEF Check, Collect, SetupPhase, TypeOK, RPFirst
<1>8. TeardownPhase'
  BY DEF Check, Collect, TeardownPhase, TypeOK
<1>9. TestPhase'
  BY DEF Check, Collect, TestPhase, TypeOK, Testing, Reloading, At2, RPFirst
<1> QED BY <1>1, <1>2, <1>3, <1>4, <1>5, <1>6, <1>7, <1>8, <1>9

LEMMA SetVerdictKeeps ==
    ASSUME IInv, SetVerdict
    PROVE  IInv'
<1> USE CoordinatorAssumption DEF IInv, At, Goto, settings, file
<1>1. Once'
  BY Followers DEF SetVerdict, SetNew, Once, TypeOK, After, AfterTeardown, AfterTests,
         AfterReload, AfterReady, AfterSetup, Over, Reloading, At2, Barrier, Announced, Gate,
         ParallelStatus
<1>2. Waiting'
  <2>1. ASSUME NEW g0 \in Gate, NEW q \in Proc, q \in past'[g0] PROVE q \in wrote'[g0]
    BY <2>1 DEF SetVerdict, SetNew, Waiting, TypeOK, ParallelStatus
  <2>2. ASSUME NEW q \in Proc, NEW c \in Barrier, pc'[q] = <<"wait", c>>
        PROVE  q \in wrote'[c] /\ q \notin past'[c]
    BY <2>2 DEF SetVerdict, SetNew, Waiting, TypeOK, Gate, ParallelStatus
  <2>3. ASSUME NEW q \in Proc, NEW c \in Announced, pc'[q] = <<"all", c>>
        PROVE  /\ q \notin past'[c]
               /\ q = Leader \/ ~ RPFirst => q \in wrote'[c]
    BY <2>3, Fresh DEF SetVerdict, SetNew, Waiting, TypeOK, Announced, Gate, ParallelStatus
  <2> QED BY <2>1, <2>2, <2>3 DEF Waiting, RPFirst, SetVerdict
<1>3. Roles'
  BY DEF SetVerdict, SetNew, Roles, TypeOK, FollowerOnly, At2, RPFirst, Follower, Barrier, Gate,
         ParallelStatus
<1>4. Alone'
  <2>1. /\ mode' = mode /\ Leader \in Proc /\ pc[Leader] = <<"set", "verdict">>
        /\ \A q \in Follower : pc'[q] = pc[q]
    BY DEF SetVerdict, TypeOK, Follower
  <2>2. \A q \in Follower, s \in ParallelStatus : q \in wrote'[s] <=> q \in wrote[s]
    BY DEF SetVerdict, SetNew, TypeOK, Follower
  <2>3. \/ pc'[Leader] = Over
        \/ pc'[Leader] = <<"all", "teardown_completed">>
           /\ last' = [status |-> "teardown_completed", acks |-> 0]
    BY <2>1 DEF SetVerdict, SetNew, TypeOK, Over
  <2>4. pc[Leader] # Over
    BY <2>1 DEF Over
  <2> QED BY <2>1, <2>2, <2>3, <2>4 DEF Alone, RPFirst, Over, At2, ParallelStatus, Gate
<1>5. Counted'
  BY Followers DEF SetVerdict, SetNew, Counted, Credit, TypeOK, Barrier, Announced, Gate,
         ParallelStatus
<1>6. TypeOK'
  BY Followers DEF SetVerdict, SetNew, TypeOK, Place, Subject, Announced, Gate, ParallelStatus
<1>7. SetupPhase'
  BY DEF SetVerdict, SetNew, SetupPhase, TypeOK
<1>8. TeardownPhase'
  BY DEF SetVerdict, SetNew, TeardownPhase, TypeOK
<1>9. TestPhase'
  BY DEF SetVerdict, SetNew, TestPhase, TypeOK, Testing, Reloading, At2, RPFirst, Announced,
         Gate, ParallelStatus
<1> QED BY <1>1, <1>2, <1>3, <1>4, <1>5, <1>6, <1>7, <1>8, <1>9

LEMMA TestsKeeps ==
    ASSUME IInv, NEW p \in Proc, EndTests(p) \/ CallReload(p) \/ Reload(p)
    PROVE  IInv'
<1> USE CoordinatorAssumption DEF IInv, At, Goto, settings, file
<1>1. Once'
  BY DEF EndTests, CallReload, Reload, Once, TypeOK, After, AfterTeardown, AfterTests,
         AfterReload, AfterReady, AfterSetup, Over, Reloading, Barrier, Announced, Gate
<1>2. Waiting'
  <2>1. ASSUME NEW g0 \in Gate, NEW q \in Proc, q \in past'[g0] PROVE q \in wrote'[g0]
    BY <2>1 DEF EndTests, CallReload, Reload, Waiting
  <2>2. ASSUME NEW q \in Proc, NEW c \in Barrier, pc'[q] = <<"wait", c>>
        PROVE  q \in wrote'[c] /\ q \notin past'[c]
    BY <2>2 DEF EndTests, CallReload, Reload, Waiting, TypeOK
  <2>3. ASSUME NEW q \in Proc, NEW c \in Announced, pc'[q] = <<"all", c>>
        PROVE  /\ q \notin past'[c]
               /\ q = Leader \/ ~ RPFirst => q \in wrote'[c]
    BY <2>3 DEF EndTests, CallReload, Reload, Waiting, TypeOK
  <2> QED BY <2>1, <2>2, <2>3 DEF Waiting, RPFirst, EndTests, CallReload, Reload
<1>3. Roles'
  BY DEF EndTests, CallReload, Reload, Roles, TypeOK, LeaderOnly, FollowerOnly, At2, RPFirst,
         Follower, Announced
<1>4. Alone'
  BY DEF EndTests, CallReload, Reload, Alone, TypeOK, Over, At2, RPFirst, Follower
<1>5. Counted'
  <2>1. UNCHANGED <<mode, last, wrote>>
    BY DEF EndTests, CallReload, Reload
  <2>2. RPFirst /\ pc[Leader] # Over => pc'[Leader] # Over
    BY DEF EndTests, CallReload, Reload, TypeOK, Over
  <2> QED BY <2>1, <2>2, CountedFrame
<1>6. TypeOK'
  BY DEF EndTests, CallReload, Reload, TypeOK, Place, Subject, Barrier, Gate, ParallelStatus
<1>7. SetupPhase'
  BY DEF EndTests, CallReload, Reload, SetupPhase, TypeOK, RPFirst
<1>8. TeardownPhase'
  BY DEF EndTests, CallReload, Reload, TeardownPhase, TypeOK, RPFirst
<1>9. TestPhase'
  BY DEF EndTests, CallReload, Reload, TestPhase, TypeOK, Testing, Reloading, RPFirst
<1> QED BY <1>1, <1>2, <1>3, <1>4, <1>5, <1>6, <1>7, <1>8, <1>9

LEMMA CrashKeeps ==
    ASSUME IInv, NEW p \in Proc, Crash(p)
    PROVE  IInv'
<1> USE CoordinatorAssumption DEF IInv, At, Goto, settings, file
<1>1. Once'
  BY DEF Crash, Once, After, AfterTeardown, AfterTests, AfterReload, AfterReady, AfterSetup,
         Over, Reloading, At2, Barrier, Announced, Gate
<1>2. Waiting'
  <2>1. ASSUME NEW g0 \in Gate, NEW q \in Proc, q \in past'[g0] PROVE q \in wrote'[g0]
    BY <2>1 DEF Crash, Waiting
  <2>2. ASSUME NEW q \in Proc, NEW c \in Barrier, pc'[q] = <<"wait", c>>
        PROVE  q \in wrote'[c] /\ q \notin past'[c]
    BY <2>2 DEF Crash, Waiting
  <2>3. ASSUME NEW q \in Proc, NEW c \in Announced, pc'[q] = <<"all", c>>
        PROVE  /\ q \notin past'[c]
               /\ q = Leader \/ ~ RPFirst => q \in wrote'[c]
    BY <2>3 DEF Crash, Waiting
  <2> QED BY <2>1, <2>2, <2>3 DEF Waiting, RPFirst, Crash
<1>3. Roles'
  BY DEF Crash, Roles, LeaderOnly, FollowerOnly, At2, RPFirst
<1>4. Alone'
  BY DEF Crash, Alone, Over, RPFirst
<1>5. Counted'
  <2>1. UNCHANGED <<mode, last, wrote>>
    BY DEF Crash
  <2>2. RPFirst /\ pc[Leader] # Over => pc'[Leader] # Over
    BY DEF Crash
  <2> QED BY <2>1, <2>2, CountedFrame
<1>6. TypeOK'
  BY DEF Crash, TypeOK, Place, Subject
<1>7. SetupPhase'
  BY DEF Crash, SetupPhase, RPFirst
<1>8. TeardownPhase'
  BY DEF Crash, TeardownPhase, RPFirst
<1>9. TestPhase'
  BY DEF Crash, TestPhase, Testing, Reloading, At2, RPFirst
<1> QED BY <1>1, <1>2, <1>3, <1>4, <1>5, <1>6, <1>7, <1>8, <1>9

-------------------------------------------------------------------------------
LEMMA Initial == Init => IInv
<1> SUFFICES ASSUME Init PROVE IInv
  OBVIOUS
<1>1. /\ mode \in Modes /\ impatient \in TimeoutsOn
      /\ last = [status |-> "idle", acks |-> 0]
      /\ \A s \in ParallelStatus : wrote[s] = {}
      /\ \A p \in Proc : pc[p] = <<"new", "none">>
      /\ \A g \in Gate : past[g] = {}
  BY DEF Init
<1>2. \A g \in Gate : g \in ParallelStatus
  BY DEF ParallelStatus
<1>3. Leader \in Proc /\ Follower \subseteq Proc /\ Cardinality(Proc) \in Nat
  BY CoordinatorAssumption, Followers DEF Follower
<1>4. TypeOK
  <2>1. last \in [status : ParallelStatus, acks : -1 .. Cardinality(Proc)]
    BY <1>1, <1>3 DEF ParallelStatus
  <2>2. pc \in [Proc -> Place \X Subject]
    BY DEF Init, Place, Subject
  <2> QED BY <2>1, <2>2, CoordinatorAssumption DEF TypeOK, Init
<1>5. Once
  <2>1. unsynced \subseteq Proc
    BY CoordinatorAssumption DEF Init
  <2>2. \A p \in unsynced : pc[p] \notin Reloading
    BY <1>1, <2>1 DEF Reloading, At2
  <2> QED BY <1>1, <1>2, <2>1, <2>2 DEF Once, Gate, Barrier
<1>6. Waiting
  BY <1>1 DEF Waiting
<1>7. Roles
  BY <1>1, <1>3 DEF Roles, At2, LeaderOnly, FollowerOnly, Announced, ParallelStatus, Gate
<1>8. Alone
  <2>1. \A p \in Proc, b \in Barrier : pc[p] \notin At2({"wait", "sleep"}, b)
    BY <1>1 DEF At2
  <2>2. \A q \in Follower : pc[q] = <<"new", "none">> /\ \A s \in ParallelStatus : q \notin wrote[s]
    BY <1>1, <1>3
  <2>3. \A a \in Announced : a \in ParallelStatus
    BY <1>2 DEF Gate
  <2>4. pc[Leader] # <<"all", "teardown_completed">>
    BY <1>1, <1>3
  <2>5. \A q \in Follower, a \in Announced : q \notin wrote[a] /\ pc[q] # <<"ack", a>>
    BY <2>2, <2>3
  <2> QED BY <1>3, <2>1, <2>2, <2>4, <2>5 DEF Alone
<1>9. Counted
  <2>1. Credit = {}
    BY <1>1 DEF Credit, Barrier, ParallelStatus
  <2> QED BY <1>1, <2>1, FS_EmptySet DEF Counted, Gate, Barrier, Announced
<1>10. SetupPhase /\ TeardownPhase /\ TestPhase
  BY <1>1, <1>3 DEF SetupPhase, TeardownPhase, TestPhase, Testing, Reloading, At2
<1> QED BY <1>4, <1>5, <1>6, <1>7, <1>8, <1>9, <1>10 DEF IInv

LEMMA Inductive == IInv /\ [Next]_vars => IInv'
<1> SUFFICES ASSUME IInv, [Next]_vars PROVE IInv'
  OBVIOUS
<1>1. CASE UNCHANGED vars
  BY <1>1 DEF vars, settings, file, IInv, TypeOK, Once, Waiting, Roles, Alone, Counted, Credit,
              SetupPhase, TeardownPhase, TestPhase, RPFirst
<1>2. ASSUME NEW p \in Proc, Step(p) PROVE IInv'
  <2>1. CASE \E b \in Barrier : MarkAndWait(p, b) \/ PassBarrier(p, b) \/ Wake(p, b)
    BY <2>1, MarkAndWaitKeeps, PassBarrierKeeps, WakeKeeps
  <2>2. CASE \E a \in Announced : Expect(p, a) \/ Acknowledge(p, a) \/ PassAcked(p, a)
    BY <2>2, ExpectKeeps, AcknowledgeKeeps, PassAckedKeeps
  <2>3. CASE Start(p) \/ CheckEarly(p) \/ LeaveEarly(p)
    BY <2>3, StartKeeps, CheckEarlyKeeps, LeaveEarlyKeeps
  <2>4. CASE EndTests(p) \/ CallReload(p) \/ Reload(p)
    BY <2>4, TestsKeeps
  <2>5. CASE SetStatus \/ Check \/ Collect \/ SetVerdict
    BY <2>5, SetStatusKeeps, CheckCollectKeeps, SetVerdictKeeps
  <2> QED BY <1>2, <2>1, <2>2, <2>3, <2>4, <2>5 DEF Step
<1>3. ASSUME NEW p \in Proc, Late(p) PROVE IInv'
  BY <1>3, TimeOutKeeps DEF Late
<1>4. ASSUME NEW p \in Proc, Crash(p) PROVE IInv'
  BY <1>4, CrashKeeps
<1> QED BY <1>1, <1>2, <1>3, <1>4 DEF Next

LEMMA Invariance == Spec => []IInv
BY Initial, Inductive, PTL DEF Spec

(* Every variable keeps its type: in particular the count on the last line *)
(* never exceeds the number of processes.                                  *)
THEOREM Typing == Spec => []TypeOK
<1>1. IInv => TypeOK
  BY DEF IInv
<1> QED BY <1>1, Invariance, PTL

(* No process tests in a full parallel run before the leader has finished  *)
(* the setup and all have acknowledged it.                                 *)
THEOREM SetupFirst == Spec => []TestsAfterSetup
<1>1. IInv => TestsAfterSetup
  BY DEF IInv, TestPhase, TestsAfterSetup, Testing, Reloading, At
<1> QED BY <1>1, Invariance, PTL

(* The leader works on all DUTs only while the last line says so and       *)
(* nobody else tests, and tests its own DUT under another status.          *)
THEOREM Scope == Spec => []LeaderScope
<1>1. ASSUME IInv PROVE LeaderScope
  <2> USE <1>1 DEF IInv
  <2>1. ASSUME pc[Leader] \in {<<"do", "checks">>, <<"do", "collect">>, <<"do", "compare">>}
        PROVE  /\ last.status \in {"setup_started", "teardown_started"}
               /\ \A q \in Follower : pc[q] \notin Testing
    <3>1. last.status \in {"setup_started", "teardown_started"}
      BY <2>1 DEF SetupPhase, TeardownPhase
    <3>2. ASSUME NEW q \in Follower, pc[q] \in Testing PROVE FALSE
      <4>1. q \in Proc
        BY DEF Follower
      <4>2. CASE RPFirst
        BY <2>1, <3>2, <4>2 DEF Alone, Over, Testing, Reloading, At2
      <4>3. CASE ~ RPFirst /\ pc[Leader] # <<"do", "compare">>
        <5>1. Leader \in wrote["setup_completed"]
          BY <3>2, <4>1, <4>3, CoordinatorAssumption DEF TestPhase
        <5>2. pc[Leader] \in AfterSetup
          BY <5>1, CoordinatorAssumption DEF Once, After, Gate, Announced
        <5> QED BY <2>1, <4>3, <5>2 DEF AfterTeardown, AfterTests, AfterReload, AfterReady,
               AfterSetup, Over
      <4>4. CASE ~ RPFirst /\ pc[Leader] = <<"do", "compare">>
        <5>1. pc[q] \in AfterTests
          BY <4>1, <4>4 DEF TeardownPhase, Once, After, Gate, Barrier
        <5> QED BY <3>2, <5>1 DEF AfterTeardown, AfterTests, Over, Testing, Reloading, At2
      <4> QED BY <4>2, <4>3, <4>4
    <3> QED BY <3>1, <3>2
  <2>2. ASSUME pc[Leader] \in Testing, last.status \in {"setup_started", "teardown_started"}
        PROVE  FALSE
    <3>1. Leader \in wrote["setup_completed"]
      BY <2>2 DEF TestPhase
    <3>2. Leader \in wrote["tests_completed"]
      BY <2>2, <3>1 DEF SetupPhase, TeardownPhase
    <3>3. pc[Leader] \in AfterTests
      BY <3>2, CoordinatorAssumption DEF Once, After, Gate, Barrier
    <3> QED BY <2>2, <3>3 DEF AfterTeardown, AfterTests, Over, Testing, Reloading, At2
  <2>3. <<"do", "tests">> \in Testing /\ <<"do", "reload">> \in Testing
    BY DEF Testing, Reloading
  <2> QED BY <2>1, <2>2, <2>3 DEF LeaderScope, At
<1> QED BY <1>1, Invariance, PTL
-------------------------------------------------------------------------------
(* A line about a gate is an arrival there; nothing else but the end of a  *)
(* wait is seen by the rendezvous.                                         *)
LEMMA Arrival ==
    ASSUME TypeOK, NEW p \in Proc, NEW g \in Gate, p \notin wrote[g],
           wrote' = [wrote EXCEPT ![g] = @ \cup {p}], UNCHANGED <<mode, past>>
    PROVE  Gates!Next
<1>1. g \in ParallelStatus /\ wrote \in [ParallelStatus -> SUBSET Proc]
  BY DEF ParallelStatus, TypeOK
<1>2. \A h \in Gate : wrote'[h] = IF h = g THEN wrote[g] \cup {p} ELSE wrote[h]
  BY <1>1 DEF ParallelStatus
<1>3. [h \in Gate |-> wrote'[h]] = [[h \in Gate |-> wrote[h]] EXCEPT ![g] = @ \cup {p}]
  BY <1>2
<1>4. Gates!Arrive(p, g)
  BY <1>3 DEF Gates!Arrive, Parties, RPFirst
<1> QED BY <1>4 DEF Gates!Next

LEMMA Passage ==
    ASSUME NEW p \in Proc, NEW g \in Gate, p \in wrote[g] \ past[g], Parties \subseteq wrote[g],
           past' = [past EXCEPT ![g] = @ \cup {p}], UNCHANGED <<mode, wrote>>
    PROVE  Gates!Next
<1>1. Gates!Pass(p, g)
  BY DEF Gates!Pass, Parties, RPFirst
<1> QED BY <1>1 DEF Gates!Next

Unseen == UNCHANGED <<Parties, [g \in Gate |-> wrote[g]], past>>

LEMMA Aside ==
    ASSUME TypeOK, NEW s \in ParallelStatus \ Gate, NEW p,
           wrote' = [wrote EXCEPT ![s] = @ \cup {p}], UNCHANGED <<mode, past>>
    PROVE  Unseen
<1>1. \A h \in Gate : wrote'[h] = wrote[h]
  BY DEF TypeOK, ParallelStatus
<1> QED BY <1>1 DEF Unseen, Parties, RPFirst

(* The state file is a row of gates, at which every process arrives at     *)
(* most once and which it passes only when all parties have arrived.       *)
THEOREM Refinement == Spec => ImplementsRendezvous
<1>1. Init => Gates!Init
  <2> SUFFICES ASSUME Init PROVE Gates!Init
    OBVIOUS
  <2>1. Parties \subseteq Proc
    BY DEF Parties, Follower
  <2>2. [g \in Gate |-> wrote[g]] = [g \in Gate |-> {}]
    BY DEF Init, ParallelStatus
  <2> QED BY <2>1, <2>2 DEF Init, Gates!Init
<1>2. IInv /\ [Next]_vars => Gates!Next \/ Unseen
  <2> SUFFICES ASSUME IInv, [Next]_vars PROVE Gates!Next \/ Unseen
    OBVIOUS
  <2> USE DEF settings, file
  <2>0. TypeOK /\ Once /\ Waiting
    BY DEF IInv
  <2>1. CASE UNCHANGED <<mode, wrote, past>>
    BY <2>1 DEF Unseen, Parties, RPFirst
  <2>2. ASSUME NEW p \in Proc, NEW b \in Barrier, MarkAndWait(p, b) PROVE Gates!Next
    <3>1. p \notin wrote[b] /\ b \in Gate
      BY <2>0, <2>2, Fresh DEF MarkAndWait, At, Gate
    <3>2. wrote' = [wrote EXCEPT ![b] = @ \cup {p}] /\ UNCHANGED <<mode, past>>
      BY <2>2 DEF MarkAndWait, Mark
    <3> QED BY <2>0, <3>1, <3>2, Arrival
  <2>3. ASSUME NEW p \in Proc, NEW b \in Barrier, PassBarrier(p, b) PROVE Gates!Next
    <3>1. pc[p] = <<"wait", b>> /\ AllMarked(p, b) /\ b \in Gate
      BY <2>3 DEF PassBarrier, At, Gate
    <3>2. p \in wrote[b] \ past[b]
      BY <2>0, <3>1 DEF Waiting
    <3>3. Parties \subseteq wrote[b]
      BY <3>1, AllHere
    <3>4. past' = [past EXCEPT ![b] = @ \cup {p}] /\ UNCHANGED <<mode, wrote>>
      BY <2>3 DEF PassBarrier
    <3> QED BY <3>1, <3>2, <3>3, <3>4, Passage
  <2>4. ASSUME NEW p \in Proc, NEW a \in Announced, Acknowledge(p, a), ~ UNCHANGED wrote
        PROVE  Gates!Next
    <3>1. p \notin wrote[a] /\ a \in Gate
      BY <2>0, <2>4, Fresh DEF Acknowledge, At, Gate
    <3>2. wrote' = [wrote EXCEPT ![a] = @ \cup {p}] /\ UNCHANGED <<mode, past>>
      BY <2>4 DEF Acknowledge, SetNew
    <3> QED BY <2>0, <3>1, <3>2, Arrival
  <2>5. ASSUME NEW p \in Proc, NEW a \in Announced, PassAcked(p, a), ~ UNCHANGED past
        PROVE  Gates!Next
    <3>1. /\ pc[p] = <<"all", a>> /\ ~ SkipsHandshake(p) /\ AllAcked(p, a) /\ a \in Gate
          /\ past' = [past EXCEPT ![a] = @ \cup {p}] /\ UNCHANGED <<mode, wrote>>
      BY <2>5 DEF PassAcked, At, Gate
    <3>2. ~ RPFirst
      BY <3>1, Followers
    <3>3. p \in wrote[a] \ past[a]
      BY <2>0, <3>1, <3>2 DEF Waiting
    <3>4. wrote[a] = Proc
      BY <3>1, <3>2, AllAckedHere
    <3>5. Parties \subseteq wrote[a]
      BY <3>2, <3>4 DEF Parties
    <3> QED BY <3>1, <3>3, <3>5, Passage
  <2>6. CASE SetStatus
    <3>1. Leader \in Proc /\ UNCHANGED <<mode, past>>
      BY <2>6, SetStatusMoves, CoordinatorAssumption
    <3>2. CASE At(Leader, "set", "setup_started") /\ SetNew(Leader, "setup_started", 0)
      BY <2>0, <3>1, <3>2, Aside DEF SetNew, ParallelStatus, Gate, Barrier, Announced
    <3>3. CASE At(Leader, "set", "teardown_started") /\ SetNew(Leader, "teardown_started", 0)
      BY <2>0, <3>1, <3>3, Aside DEF SetNew, ParallelStatus, Gate, Barrier, Announced
    <3>4. CASE At(Leader, "set", "setup_completed") /\ SetNew(Leader, "setup_completed", 0)
      <4>1. "setup_completed" \in Announced /\ "setup_completed" \in Gate
        BY DEF Announced, Gate
      <4>2. Leader \notin wrote["setup_completed"]
        BY <2>0, <3>1, <3>4, <4>1, Fresh DEF At
      <4> QED BY <2>0, <3>1, <3>4, <4>1, <4>2, Arrival DEF SetNew
    <3> QED BY <2>6, <3>2, <3>3, <3>4, SetStatusMoves
  <2>7. CASE SetVerdict
    <3>1. Leader \in Proc /\ UNCHANGED <<mode, past>> /\ pc[Leader] = <<"set", "verdict">>
      BY <2>7, CoordinatorAssumption DEF SetVerdict, At
    <3>2. CASE checkFailed
      BY <2>0, <2>7, <3>1, <3>2, Aside DEF SetVerdict, SetNew, ParallelStatus, Gate, Barrier,
             Announced
    <3>3. CASE ~ checkFailed
      <4>1. "teardown_completed" \in Gate /\ Leader \notin wrote["teardown_completed"]
        BY <2>0, <3>1, Fresh DEF Announced, Gate
      <4>2. wrote' = [wrote EXCEPT !["teardown_completed"] = @ \cup {Leader}]
        BY <2>7, <3>3 DEF SetVerdict, SetNew
      <4> QED BY <2>0, <3>1, <4>1, <4>2, Arrival
    <3> QED BY <3>2, <3>3
  <2>8. ASSUME NEW p \in Proc, Step(p) PROVE Gates!Next \/ Unseen
    <3>1. ASSUME NEW b \in Barrier, MarkAndWait(p, b) \/ PassBarrier(p, b) \/ Wake(p, b)
          PROVE  Gates!Next \/ Unseen
      BY <2>1, <2>2, <2>3, <3>1 DEF Wake
    <3>2. ASSUME NEW a \in Announced, Expect(p, a) \/ Acknowledge(p, a) \/ PassAcked(p, a)
          PROVE  Gates!Next \/ Unseen
      <4>1. CASE Expect(p, a)
        BY <2>1, <4>1 DEF Expect
      <4>2. CASE Acknowledge(p, a)
        BY <2>1, <2>4, <4>2 DEF Acknowledge
      <4>3. CASE PassAcked(p, a)
        BY <2>1, <2>5, <4>3 DEF PassAcked
      <4> QED BY <3>2, <4>1, <4>2, <4>3
    <3>3. CASE \/ Start(p) \/ CheckEarly(p) \/ LeaveEarly(p) \/ EndTests(p) \/ CallReload(p)
               \/ Reload(p) \/ Check \/ Collect
      BY <2>1, <3>3 DEF Start, CheckEarly, LeaveEarly, EndTests, CallReload, Reload, Check,
             Collect
    <3> QED BY <2>6, <2>7, <2>8, <3>1, <3>2, <3>3 DEF Step
  <2>9. ASSUME NEW p \in Proc, Late(p) \/ Crash(p) PROVE Gates!Next \/ Unseen
    BY <2>1, <2>9 DEF Late, TimeOut, Crash
  <2>10. CASE UNCHANGED vars
    BY <2>1, <2>10 DEF vars
  <2> QED BY <2>8, <2>9, <2>10 DEF Next
<1>3. IInv /\ [Next]_vars => [Gates!Next]_<<Parties, [g \in Gate |-> wrote[g]], past>>
  BY <1>2 DEF Unseen
<1> QED BY <1>1, <1>3, Invariance, PTL DEF Spec, ImplementsRendezvous, Gates!Spec
================================================================================
