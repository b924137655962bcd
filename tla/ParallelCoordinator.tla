-------------------------- MODULE ParallelCoordinator --------------------------
(***************************************************************************)
(* A parallel run of one test module: one pytest process per DUT, one of   *)
(* them the leader, which checks all DUTs before and after the tests.  The *)
(* processes talk through a state file (tests/common/helpers/              *)
(* parallel_utils.py) from the fixtures sanity_check (tests/common/plugins *)
(* /sanity_check) and core_dump_and_config_check (tests/conftest.py), and  *)
(* from the decorator synchronized_config_reload / synchronized_reboot.    *)
(*                                                                         *)
(* The file is append-only and read by its last line only.  Lines are      *)
(* written, and read, under a file lock: one step each.  wrote keeps, of   *)
(* the older lines, which host has written which status.                   *)
(*                                                                         *)
(* pc[p] is a pair of a place and the status it is about:                  *)
(*   new                 the process has not come to the first fixture     *)
(*   check   b           in front of barrier b: exit_if_early_complete     *)
(*   mark    b           about to mark b                                   *)
(*   wait    b           polling for all marks of b                        *)
(*   sleep   b           the pause after the last poll                     *)
(*   expect  a           polling for the leader's status a                 *)
(*   ack     a           about to acknowledge it                           *)
(*   all     a           polling for the acknowledgements of all followers *)
(*   set     s           the leader is about to write s                    *)
(*   do      x           between two uses of the file: initial checks,     *)
(*                       collection of data, tests, reload, comparison of  *)
(*                       data, post-test checks                            *)
(*   end                 the process is over                               *)
(* Failed assertions are pytest.fail, which wait_until does not catch.     *)
(* In RP_FIRST mode the process of the supervisor is the leader; it runs   *)
(* alone, without followers, before the others are started.                *)
(***************************************************************************)
EXTENDS Integers, FiniteSets

CONSTANTS
    Proc,       \* the processes, by target hostname
    Leader,     \* the one started with --is_parallel_leader
    Modes,      \* what --parallel_mode may be
    Reloaders,  \* sets of processes with a test that reloads, in step, once
    TimeoutsOn, \* whether waits may time out: a subset of BOOLEAN
    MaxCrashes  \* bound on the processes that are killed

ASSUME CoordinatorAssumption ==
    /\ IsFiniteSet(Proc) /\ Leader \in Proc
    /\ Modes \subseteq {"FULL_PARALLEL", "RP_FIRST"}
    /\ Reloaders \subseteq SUBSET Proc
    /\ TimeoutsOn \subseteq BOOLEAN
    /\ MaxCrashes \in Nat

Follower == Proc \ {Leader}

Barrier == {"setup_ready", "reload_ready", "reload_completed", "tests_completed"}
Announced == {"setup_completed", "teardown_completed"}
Gate == Barrier \cup Announced
ParallelStatus == Gate \cup {"idle", "setup_started", "teardown_started", "sanity_check_failed"}

VARIABLES
    mode,       \* --parallel_mode
    impatient,  \* waits may time out
    last,       \* status and acknowledgements of the last line
    wrote,      \* the hosts with a line of each status
    pc,         \* where each process is
    unsynced,   \* the processes whose tests have still to reload
    checkFailed,\* config.cache: pre_ or post_sanity_check_failed
    past,       \* the waits that have ended well, by gate
    crashes     \* the number of processes killed so far

settings == <<mode, impatient>>
file == <<last, wrote>>
vars == <<settings, file, pc, unsynced, checkFailed, past, crashes>>

Place == {"new", "check", "mark", "wait", "sleep", "expect", "ack", "all", "set", "do", "end"}
Subject == ParallelStatus \cup
           {"none", "verdict", "checks", "collect", "tests", "reload", "compare", "post"}

TypeOK ==
    /\ mode \in Modes /\ impatient \in TimeoutsOn
    /\ last \in [status : ParallelStatus, acks : -1 .. Cardinality(Proc)]
    /\ wrote \in [ParallelStatus -> SUBSET Proc]
    /\ pc \in [Proc -> Place \X Subject]
    /\ unsynced \subseteq Proc
    /\ checkFailed \in BOOLEAN
    /\ past \in [Gate -> SUBSET Proc]
    /\ crashes \in Nat

Init ==
    /\ mode \in Modes /\ impatient \in TimeoutsOn
    /\ last = [status |-> "idle", acks |-> 0]
    /\ wrote = [s \in ParallelStatus |-> {}]
    /\ pc = [p \in Proc |-> <<"new", "none">>]
    /\ unsynced \in Reloaders
    /\ checkFailed = FALSE
    /\ past = [g \in Gate |-> {}]
    /\ crashes = 0

At(p, place, subject) == pc[p] = <<place, subject>>
Goto(p, place, subject) == pc' = [pc EXCEPT ![p] = <<place, subject>>]

-----------------------------------------------------------------------------
(* The parameters of a process, and where its fixtures go on.              *)

RPFirst == mode = "RP_FIRST"

\* --parallel_followers: none for a leader that runs alone.
NumFollowers(p) == IF RPFirst /\ p = Leader THEN 0 ELSE Cardinality(Follower)

\* Mutant: the caller of the barrier is forgotten.
RequiredWithoutSelf(p) == NumFollowers(p)

RequiredAck(p) == IF RPFirst THEN NumFollowers(p) ELSE NumFollowers(p) + 1

\* The handshakes between leader and followers are skipped.
SkipsHandshake(p) == NumFollowers(p) = 0 \/ RPFirst

\* After a barrier, or after the acknowledgements of an announced status.
Proceed(p, g) ==
    CASE g = "setup_ready" /\ p = Leader -> Goto(p, "set", "setup_started")
      [] g = "setup_ready" /\ p # Leader -> Goto(p, "expect", "setup_completed")
      [] g = "setup_completed" -> Goto(p, "do", "tests")
      [] g = "reload_ready" -> Goto(p, "do", "reload")
      [] g = "reload_completed" -> Goto(p, "do", "tests")
      [] g = "tests_completed" /\ p = Leader -> Goto(p, "set", "teardown_started")
      [] g = "tests_completed" /\ p # Leader -> Goto(p, "expect", "teardown_completed")
      [] g = "teardown_completed" -> Goto(p, "end", "none")

\* After an exception at gate g: a test fails and the next one follows; a
\* fixture fails and the ones that are set up are torn down.
Abort(p, g) ==
    CASE g = "setup_ready" -> Goto(p, "end", "none")
      [] g \in {"reload_ready", "reload_completed"} -> Goto(p, "do", "tests")
      [] g \in {"setup_completed", "tests_completed"} /\ p = Leader -> Goto(p, "do", "post")
      [] g \in {"setup_completed", "tests_completed"} /\ p # Leader ->
             Goto(p, "expect", "teardown_completed")
      [] g = "teardown_completed" -> Goto(p, "end", "none")

-----------------------------------------------------------------------------
(* Writing a line.                                                         *)

\* Mutant: the count goes on when the status changes.
MarkCounting(p, s) ==
    /\ last' = [status |-> s, acks |-> last.acks + 1]
    /\ wrote' = [wrote EXCEPT ![s] = @ \cup {p}]

\* _mark_status
Mark(p, s) ==
    /\ last' = [status |-> s, acks |-> IF last.status = s THEN last.acks + 1 ELSE 1]
    /\ wrote' = [wrote EXCEPT ![s] = @ \cup {p}]

\* set_new_status
SetNew(p, s, acks) ==
    /\ last' = [status |-> s, acks |-> acks]
    /\ wrote' = [wrote EXCEPT ![s] = @ \cup {p}]

-----------------------------------------------------------------------------
(* mark_and_wait_for_status.                                               *)

Start(p) ==
    /\ At(p, "new", "none")
    /\ RPFirst /\ p # Leader => At(Leader, "end", "none")
    /\ Goto(p, "mark", "setup_ready")
    /\ UNCHANGED <<settings, file, unsynced, checkFailed, past, crashes>>

\* exit_if_early_complete in front of the mark; the leader that runs alone
\* does not look.
CheckEarly(p) ==
    /\ At(p, "check", "reload_ready")
    /\ IF NumFollowers(p) > 0 /\ last.status = "tests_completed"
       THEN Abort(p, "reload_ready")
       ELSE Goto(p, "mark", "reload_ready")
    /\ UNCHANGED <<settings, file, unsynced, checkFailed, past, crashes>>

MarkAndWait(p, b) ==
    /\ At(p, "mark", b)
    /\ Mark(p, b)
    /\ IF NumFollowers(p) = 0 THEN Proceed(p, b) ELSE Goto(p, "wait", b)
    /\ UNCHANGED <<settings, unsynced, checkFailed, past, crashes>>

AllMarked(p, b) == last.status = b /\ last.acks >= RequiredAck(p)

\* Mutant: no pause after the last poll.
PassAtOnce(p, b) ==
    /\ At(p, "wait", b)
    /\ AllMarked(p, b)
    /\ past' = [past EXCEPT ![b] = @ \cup {p}]
    /\ Proceed(p, b)
    /\ UNCHANGED <<settings, file, unsynced, checkFailed, crashes>>

PassBarrier(p, b) ==
    /\ At(p, "wait", b)
    /\ AllMarked(p, b)
    /\ past' = [past EXCEPT ![b] = @ \cup {p}]
    /\ Goto(p, "sleep", b)
    /\ UNCHANGED <<settings, file, unsynced, checkFailed, crashes>>

\* The pause is five polling intervals: whoever can see that all have marked
\* sees it before the pause of another ends.
Wake(p, b) ==
    /\ At(p, "sleep", b)
    /\ \A q \in Proc : ~(At(q, "wait", b) /\ AllMarked(q, b))
    /\ Proceed(p, b)
    /\ UNCHANGED <<settings, file, unsynced, checkFailed, past, crashes>>

\* While it polls for a reload, a process leaves when another has finished.
LeaveEarly(p) ==
    /\ At(p, "wait", "reload_ready")
    /\ last.status = "tests_completed"
    /\ Abort(p, "reload_ready")
    /\ UNCHANGED <<settings, file, unsynced, checkFailed, past, crashes>>

-----------------------------------------------------------------------------
(* wait_and_ack_status_for_followers, wait_for_all_followers_ack.          *)

\* Mutant: exit_if_failed_status is left out.
ExpectIgnoringFailure(p, a) ==
    /\ At(p, "expect", a)
    /\ \/ /\ SkipsHandshake(p)
          /\ Goto(p, "all", a)
       \/ /\ ~SkipsHandshake(p) /\ last.status = a
          /\ Goto(p, "ack", a)
    /\ UNCHANGED <<settings, file, unsynced, checkFailed, past, crashes>>

Expect(p, a) ==
    /\ At(p, "expect", a)
    /\ \/ /\ last.status = "sanity_check_failed"
          /\ Abort(p, a)
       \/ /\ SkipsHandshake(p) /\ last.status # "sanity_check_failed"
          /\ Goto(p, "all", a)
       \/ /\ ~SkipsHandshake(p) /\ last.status = a
          /\ Goto(p, "ack", a)
    /\ UNCHANGED <<settings, file, unsynced, checkFailed, past, crashes>>

\* The status is read again under the lock; another one is an error.
Acknowledge(p, a) ==
    /\ At(p, "ack", a)
    /\ \/ /\ last.status = a
          /\ SetNew(p, a, last.acks + 1)
          /\ Goto(p, "all", a)
       \/ /\ last.status # a
          /\ Abort(p, a)
          /\ UNCHANGED file
    /\ UNCHANGED <<settings, unsynced, checkFailed, past, crashes>>

\* Mutant: one acknowledgement too few.
OneAckShort(p, a) == last.status = a /\ last.acks >= NumFollowers(p) - 1

AllAcked(p, a) == last.status = a /\ last.acks >= NumFollowers(p)

PassAcked(p, a) ==
    /\ At(p, "all", a)
    /\ \/ /\ SkipsHandshake(p)
          /\ UNCHANGED past
       \/ /\ ~SkipsHandshake(p) /\ AllAcked(p, a)
          /\ past' = [past EXCEPT ![a] = @ \cup {p}]
    /\ Proceed(p, a)
    /\ UNCHANGED <<settings, file, unsynced, checkFailed, crashes>>

\* Mutant: no deadline for the acknowledgements.
AcksWaitForever(p, g) ==
    /\ impatient
    /\ \/ At(p, "wait", g) /\ ~AllMarked(p, g)
       \/ At(p, "expect", g) /\ last.status # g
    /\ ~(SkipsHandshake(p) /\ pc[p][1] = "expect")
    /\ Abort(p, g)
    /\ UNCHANGED <<settings, file, unsynced, checkFailed, past, crashes>>

\* The condition was false until the deadline.
TimeOut(p, g) ==
    /\ impatient
    /\ \/ At(p, "wait", g) /\ ~AllMarked(p, g)
       \/ At(p, "expect", g) /\ last.status # g
       \/ At(p, "all", g) /\ ~AllAcked(p, g)
    /\ ~(SkipsHandshake(p) /\ pc[p][1] \in {"expect", "all"})
    /\ Abort(p, g)
    /\ UNCHANGED <<settings, file, unsynced, checkFailed, past, crashes>>

-----------------------------------------------------------------------------
(* The leader between the gates.                                           *)

\* Mutant: the tests are opened before the checks.
SetThenCheck ==
    /\ \E s \in {"setup_started", "setup_completed", "teardown_started"} :
          /\ At(Leader, "set", s)
          /\ SetNew(Leader, IF s = "setup_started" THEN "setup_completed" ELSE s, 0)
          /\ CASE s = "setup_started" -> Goto(Leader, "do", "checks")
               [] s = "setup_completed" -> Goto(Leader, "all", s)
               [] s = "teardown_started" -> Goto(Leader, "do", "compare")
    /\ UNCHANGED <<settings, unsynced, checkFailed, past, crashes>>

SetStatus ==
    /\ \E s \in {"setup_started", "setup_completed", "teardown_started"} :
          /\ At(Leader, "set", s)
          /\ SetNew(Leader, s, 0)
          /\ CASE s = "setup_started" -> Goto(Leader, "do", "checks")
               [] s = "setup_completed" -> Goto(Leader, "all", s)
               [] s = "teardown_started" -> Goto(Leader, "do", "compare")
    /\ UNCHANGED <<settings, unsynced, checkFailed, past, crashes>>

\* Pre- and post-test checks pass, find a failure, or raise something else;
\* only a failure they find is remembered.
Check ==
    /\ \/ At(Leader, "do", "checks") /\ Goto(Leader, "do", "collect") /\ UNCHANGED checkFailed
       \/ At(Leader, "do", "checks") /\ Goto(Leader, "set", "verdict") /\ checkFailed' \in BOOLEAN
       \/ At(Leader, "do", "post") /\ Goto(Leader, "set", "verdict") /\ checkFailed' \in BOOLEAN
    /\ UNCHANGED <<settings, file, unsynced, past, crashes>>

\* The data of all DUTs is collected, and compared after the tests; both may
\* raise.
Collect ==
    /\ \/ At(Leader, "do", "collect") /\ Goto(Leader, "set", "setup_completed")
       \/ At(Leader, "do", "collect") /\ Goto(Leader, "do", "post")
       \/ At(Leader, "do", "compare") /\ Goto(Leader, "do", "post")
    /\ UNCHANGED <<settings, file, unsynced, checkFailed, past, crashes>>

\* Teardown of prepare_parallel_run.  After a failure nobody is waited for.
SetVerdict ==
    /\ At(Leader, "set", "verdict")
    /\ \/ /\ checkFailed
          /\ SetNew(Leader, "sanity_check_failed", -1)
          /\ Goto(Leader, "end", "none")
       \/ /\ ~checkFailed
          /\ SetNew(Leader, "teardown_completed", 0)
          /\ Goto(Leader, "all", "teardown_completed")
    /\ UNCHANGED <<settings, unsynced, checkFailed, past, crashes>>

-----------------------------------------------------------------------------
(* Tests.                                                                  *)

EndTests(p) ==
    /\ At(p, "do", "tests") /\ p \notin unsynced
    /\ Goto(p, "mark", "tests_completed")
    /\ UNCHANGED <<settings, file, unsynced, checkFailed, past, crashes>>

CallReload(p) ==
    /\ At(p, "do", "tests") /\ p \in unsynced
    /\ unsynced' = unsynced \ {p}
    /\ Goto(p, "check", "reload_ready")
    /\ UNCHANGED <<settings, file, checkFailed, past, crashes>>

\* Whether it raises or not, the finally block marks the end.
Reload(p) ==
    /\ At(p, "do", "reload")
    /\ Goto(p, "mark", "reload_completed")
    /\ UNCHANGED <<settings, file, unsynced, checkFailed, past, crashes>>

\* A process is killed, and writes nothing any more.  The line cards are not
\* started after a supervisor that was killed.
Crash(p) ==
    /\ crashes < MaxCrashes /\ ~At(p, "end", "none")
    /\ ~(RPFirst /\ p = Leader)
    /\ crashes' = crashes + 1
    /\ Goto(p, "end", "none")
    /\ UNCHANGED <<settings, file, unsynced, checkFailed, past>>

-----------------------------------------------------------------------------
Step(p) ==
    \/ Start(p) \/ CheckEarly(p) \/ LeaveEarly(p)
    \/ \E b \in Barrier : MarkAndWait(p, b) \/ PassBarrier(p, b) \/ Wake(p, b)
    \/ \E a \in Announced : Expect(p, a) \/ Acknowledge(p, a) \/ PassAcked(p, a)
    \/ EndTests(p) \/ CallReload(p) \/ Reload(p)
    \/ p = Leader /\ (SetStatus \/ Check \/ Collect \/ SetVerdict)

Late(p) == \E g \in Gate : TimeOut(p, g)

Next == \E p \in Proc : Step(p) \/ Late(p) \/ Crash(p)

Spec == Init /\ [][Next]_vars

\* Processes run, tests and checks end, and deadlines pass.
FairSpec == Spec /\ \A p \in Proc : WF_vars(Step(p) \/ Late(p))

-----------------------------------------------------------------------------
(* Safety.                                                                 *)

Parties == IF RPFirst THEN Follower ELSE Proc

\* mark_and_wait_for_status, wait_for_all_followers_ack: the counts on the
\* last line stand for the processes that have come to the gate, whatever
\* was written before and in between.
Gates == INSTANCE Rendezvous
    WITH Party <- Proc, expected <- Parties,
         arrived <- [g \in Gate |-> wrote[g]], passed <- past
ImplementsRendezvous == Gates!Spec

\* core_dump_and_config_check: no test runs before the leader has finished
\* the setup on all DUTs and every follower knows it.
TestsAfterSetup ==
    \A p \in Proc : ~RPFirst /\ (At(p, "do", "tests") \/ At(p, "do", "reload"))
                   => wrote["setup_completed"] = Proc

\* is_initial_checks_active, read by duthosts.nodes: while the leader works on
\* all DUTs the last line says so, nobody else tests, and while it tests its
\* own DUT the last line does not.
LeaderScope ==
    LET Started == {"setup_started", "teardown_started"} IN
    /\ (\E x \in {"checks", "collect", "compare"} : At(Leader, "do", x))
       => /\ last.status \in Started
          /\ \A q \in Follower : ~At(q, "do", "tests") /\ ~At(q, "do", "reload")
    /\ At(Leader, "do", "tests") \/ At(Leader, "do", "reload") => last.status \notin Started

\* synchronized_config_reload: a DUT reloads when all are ready to, and as
\* long as no deadline has passed nobody tests meanwhile.
ReloadTogether ==
    \A p \in Parties : At(p, "do", "reload") =>
        /\ Parties \subseteq wrote["reload_ready"]
        /\ ~impatient => \A q \in Parties : ~At(q, "do", "tests")

\* The comment in mark_and_wait_for_status: nobody starts to write a new
\* status while others still poll for one that all have marked.  Not so for
\* the end of the tests if a reload was marked on some of the DUTs only.
BarrierStaysVisible ==
    \A p \in Parties, b \in Barrier :
        /\ ~impatient /\ At(p, "wait", b) /\ Parties \subseteq wrote[b]
        /\ b = "tests_completed" => wrote["reload_ready"] \cap Parties \in {{}, Parties}
        => AllMarked(p, b)

\* The comment again: no gate is overwritten while somebody polls for it,
\* of wait_for_all_followers_ack, which makes no pause after its last poll.
AckStaysVisible ==
    \A p \in Parties, a \in Announced :
        ~impatient /\ At(p, "all", a) /\ Proc \subseteq wrote[a] => AllAcked(p, a)

-----------------------------------------------------------------------------
(* Liveness.                                                               *)

\* Whatever fails, is killed or is overwritten, the deadlines end every wait.
AllEnd == impatient ~> \A p \in Proc : At(p, "end", "none")

\* exit_if_failed_status: after checks that fail nobody waits for a deadline.
FailedSetupEnds ==
    ~RPFirst /\ last.status = "sanity_check_failed" /\ wrote["setup_completed"] = {}
    ~> \A p \in Proc : At(p, "end", "none")
=============================================================================
