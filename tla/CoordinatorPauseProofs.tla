------------------------ MODULE CoordinatorPauseProofs ------------------------
(***************************************************************************)
(* The pause after the last poll of a barrier.  As long as no deadline     *)
(* passes, the count of a barrier stays on the last line until everybody   *)
(* who polls for it has seen it, for every number of processes, in both    *)
(* modes, with killed processes, and whatever tests reload: so that no DUT *)
(* tests while another one reloads.                                        *)
(***************************************************************************)
EXTENDS ParallelCoordinatorProofs

(* The parties that have marked a barrier, that have seen that all have,   *)
(* and that still poll for it.                                             *)
Marked(b) == wrote[b] \cap Parties
Crossed(b) == past[b] \cap Parties
Polling(b) == \E p \in Parties : pc[p] = <<"wait", b>>
Open(b) == Crossed(b) = {} \/ Polling(b)

(* Somebody has ended its tests without a reload: who waits for the reload *)
(* leaves, and the barriers go out of step.                                *)
Broken == \E p \in Parties : p \in wrote["tests_completed"] /\ p \notin wrote["reload_ready"]
Sound(b) ==
    /\ b = "reload_ready" => ~ Broken
    /\ b = "tests_completed" => Marked("reload_ready") \in {{}, Parties}

TestBarrier == {"reload_ready", "reload_completed", "tests_completed"}
Later(b) ==
    CASE b = "setup_ready" -> TestBarrier
      [] b = "reload_ready" -> {"reload_completed", "tests_completed"}
      [] b = "reload_completed" -> {"tests_completed"}
      [] b = "tests_completed" -> {}

InReload == {<<"sleep", "reload_ready">>, <<"do", "reload">>, <<"mark", "reload_completed">>,
             <<"wait", "reload_completed">>}
InTeardown == {<<"set", "teardown_started">>, <<"do", "compare">>, <<"do", "post">>,
               <<"set", "verdict">>}

(* A party is past a barrier when all have marked it, and waits for        *)
(* somebody.                                                               *)
Ready ==
    \A p \in Parties :
        /\ \A b \in Barrier : pc[p] = <<"wait", b>> => Follower # {}
        /\ \A b \in Barrier : pc[p] = <<"sleep", b>> => Parties \subseteq wrote[b]
        /\ pc[p] \in InReload => Parties \subseteq wrote["reload_ready"]

Gathered == \A b \in Barrier : Crossed(b) # {} => Parties \subseteq wrote[b]

(* Without deadlines a wait ends well, but for the reload that somebody    *)
(* has left out.                                                           *)
Passed ==
    \A p \in Parties, b \in Barrier :
        p \in wrote[b] /\ pc[p] \notin {<<"wait", b>>, Over}
        => p \in past[b] \/ (b = "reload_ready" /\ Broken)

(* The order in which a party comes to the barriers.                       *)
Ordered ==
    \A p \in Parties :
        /\ pc[p] \notin {<<"new", "none">>, <<"mark", "setup_ready">>, Over}
           => p \in wrote["setup_ready"]
        /\ \A b \in TestBarrier : p \in wrote[b] => p \in past["setup_ready"]
        /\ pc[p] \in InReload \/ p \in wrote["reload_completed"] => p \in past["reload_ready"]
        /\ p \in past["reload_ready"]
           => pc[p] \in InReload \cup {Over} \/ p \in past["reload_completed"]
        /\ p \in wrote["tests_completed"] /\ p \in wrote["reload_ready"]
           => p \in past["reload_ready"] \/ Broken
        /\ p \in wrote["tests_completed"] /\ p \in past["reload_ready"]
           => p \in past["reload_completed"]

(* The leader opens the tests, and leaves them like everybody.             *)
Opened ==
    ~ RPFirst =>
        \A p \in Proc, b \in TestBarrier : p \in wrote[b] => wrote["setup_completed"] = Proc
Closing ==
    /\ ~ RPFirst /\ Leader \in wrote["setup_completed"]
    /\ Leader \in wrote["teardown_completed"] \/ pc[Leader] \in InTeardown
    => Leader \in past["tests_completed"]

(* The leader that has run alone leaves no barrier on the last line.       *)
Leftover == RPFirst /\ pc[Leader] = Over /\ last.status \in Barrier => Marked(last.status) # {}

(* The last line counts the parties at the barrier that is not yet closed, *)
(* and while one has seen that all are there, all the others wait too.     *)
Visible ==
    \A b \in Barrier :
        Sound(b) /\ Marked(b) # {} /\ Open(b)
        => last.status = b /\ last.acks = Cardinality(Marked(b))
Together ==
    \A b \in Barrier :
        Sound(b) /\ Crossed(b) # {} /\ Polling(b) =>
            /\ \A r \in Parties : pc[r] \in {<<"wait", b>>, <<"sleep", b>>, Over}
            /\ \A l \in Later(b) : Marked(l) = {}

Patient == ~ impatient /\ Follower # {}
PInv == Gathered /\ Passed /\ Ordered /\ Opened /\ Closing /\ Leftover /\ Visible /\ Together
CInv == IInv /\ Ready /\ (Patient => PInv)
--------------------------------------------------------------------------------
(* The parties of a barrier, and what a process among them waits for.      *)
LEMMA PartiesCount ==
    /\ Parties \subseteq Proc /\ IsFiniteSet(Parties) /\ Cardinality(Parties) \in Nat
    /\ ~ RPFirst => Parties = Proc
    /\ RPFirst => Parties = Follower
    /\ \A p \in Parties : /\ RequiredAck(p) = Cardinality(Parties)
                          /\ Follower # {} => NumFollowers(p) # 0
    /\ \A p \in Proc : p \notin Parties => RPFirst /\ p = Leader
<1>1. Parties \subseteq Proc
  BY DEF Parties, Follower
<1>2. IsFiniteSet(Parties) /\ Cardinality(Parties) \in Nat
  BY <1>1, Followers
<1>3. \A p \in Parties : RequiredAck(p) = Cardinality(Parties)
  BY Followers DEF Parties, RequiredAck, NumFollowers, Follower
<1>4. \A p \in Parties : Follower # {} => NumFollowers(p) # 0
  BY <1>1, Followers DEF Parties, Follower
<1>5. \A p \in Proc : p \notin Parties => RPFirst /\ p = Leader
  BY DEF Parties, Follower
<1>6. (~ RPFirst => Parties = Proc) /\ (RPFirst => Parties = Follower)
  BY DEF Parties
<1> QED BY <1>1, <1>2, <1>3, <1>4, <1>5, <1>6

(* A barrier on the last line is there for a party, once the parties run.  *)
LEMMA LineOfParty ==
    ASSUME IInv, Leftover, NEW p \in Parties, pc[p] \notin {<<"new", "none">>, Over},
           last.status \in Barrier
    PROVE  Marked(last.status) # {}
<1>1. CASE ~ RPFirst
  <2>1. wrote[last.status] # {} /\ wrote[last.status] \subseteq Proc
    BY DEF IInv, Counted, TypeOK
  <2> QED BY <1>1, <2>1 DEF Marked, Parties
<1>2. CASE RPFirst
  <2>1. pc[Leader] = Over
    BY <1>2 DEF IInv, Alone, Parties
  <2> QED BY <1>2, <2>1 DEF Leftover
<1> QED BY <1>1, <1>2

(* Who polls for a barrier that another one has seen complete sees it too. *)
LEMMA Seen ==
    ASSUME IInv, Gathered, Visible, NEW b \in Barrier, Sound(b), Crossed(b) # {},
           NEW q \in Parties, pc[q] = <<"wait", b>>
    PROVE  AllMarked(q, b)
<1>1. Marked(b) = Parties
  BY DEF Gathered, Marked
<1>2. Marked(b) # {} /\ Open(b)
  BY <1>1 DEF Open, Polling
<1>3. last.status = b /\ last.acks = Cardinality(Parties)
  BY <1>1, <1>2 DEF Visible
<1> QED BY <1>3, PartiesCount DEF AllMarked

(* Nobody leaves the wait for a reload that all parties take part in.      *)
LEMMA LeavesBroken ==
    ASSUME IInv, Leftover, Ordered, Together, NEW p \in Parties,
           pc[p] = <<"wait", "reload_ready">>, last.status = "tests_completed"
    PROVE  Broken
<1> SUFFICES ASSUME ~ Broken PROVE FALSE
  OBVIOUS
<1>1. Marked("tests_completed") # {}
  BY LineOfParty DEF Over, Barrier
<1>2. PICK r \in Parties : r \in wrote["tests_completed"]
  BY <1>1 DEF Marked
<1>3. r \in wrote["reload_ready"]
  BY <1>2 DEF Broken
<1>4. r \in past["reload_ready"]
  BY <1>2, <1>3 DEF Ordered
<1>5. Sound("reload_ready") /\ Crossed("reload_ready") # {} /\ Polling("reload_ready")
  BY <1>4 DEF Sound, Crossed, Polling
<1>6. "tests_completed" \in Later("reload_ready") /\ "reload_ready" \in Barrier
  BY DEF Later, Barrier
<1> QED BY <1>1, <1>5, <1>6 DEF Together

(* Who has crossed a barrier that is not closed yet is still at it.        *)
LEMMA Behind ==
    ASSUME Together, NEW b \in Barrier, Sound(b), Open(b), NEW r \in Parties, r \in past[b]
    PROVE  pc[r] \in {<<"wait", b>>, <<"sleep", b>>, Over}
<1>1. Crossed(b) # {}
  BY DEF Crossed
<1>2. Polling(b)
  BY <1>1 DEF Open
<1> QED BY <1>1, <1>2 DEF Together
--------------------------------------------------------------------------------
(* What all steps have in common that mark no barrier and end no wait.     *)
Frame ==
    /\ UNCHANGED <<mode, impatient>>
    /\ \A q \in Parties, b \in Barrier : /\ q \in wrote'[b] <=> q \in wrote[b]
                                         /\ q \in past'[b] <=> q \in past[b]

Move(p) ==
    /\ pc[p] # Over
    /\ \A q \in Proc \ {p} : pc'[q] = pc[q]
    /\ \A b \in Barrier :
           /\ pc'[p] \notin {<<"wait", b>>, <<"sleep", b>>}
           /\ pc[p] = <<"wait", b>> =>
                  pc'[p] = Over \/ (b = "reload_ready" /\ last.status = "tests_completed")
           /\ pc[p] = <<"sleep", b>> =>
                  pc'[p] = Over \/ \A q \in Proc : ~ (At(q, "wait", b) /\ AllMarked(q, b))
    /\ p \in Parties =>
           /\ pc[p] \in {<<"new", "none">>, <<"mark", "setup_ready">>}
              => pc'[p] \in {<<"mark", "setup_ready">>, Over}
           /\ pc'[p] \in InReload => pc[p] \in InReload
           /\ pc[p] \in InReload => pc'[p] \in InReload \cup {Over}

(* No barrier is on the last line that somebody may still wait for.        *)
Hidden == \A b \in Barrier : ~ (Sound(b) /\ Marked(b) # {} /\ Open(b))

(* Such a step leaves the barriers as they are.                            *)
LEMMA FrameSame ==
    ASSUME Frame
    PROVE  /\ Parties' = Parties /\ RPFirst' = RPFirst /\ Patient' = Patient
           /\ \A b \in Barrier : Marked(b)' = Marked(b) /\ Crossed(b)' = Crossed(b)
           /\ Broken' = Broken
           /\ \A b \in Barrier : Sound(b)' = Sound(b)
<1>1. Parties' = Parties /\ RPFirst' = RPFirst /\ Patient' = Patient
  BY DEF Frame, Parties, RPFirst, Patient
<1>2. \A b \in Barrier : Marked(b)' = Marked(b) /\ Crossed(b)' = Crossed(b)
  BY <1>1 DEF Frame, Marked, Crossed
<1>3. Broken' = Broken
  BY <1>1 DEF Frame, Broken, Barrier
<1>4. Marked("reload_ready")' = Marked("reload_ready")
  BY <1>2 DEF Barrier
<1>5. \A b \in Barrier : Sound(b)' = Sound(b)
  BY <1>1, <1>3, <1>4 DEF Sound
<1> QED BY <1>1, <1>2, <1>3, <1>5

(* A step that marks no barrier and ends no wait keeps the pause.          *)
LEMMA MoveKeeps ==
    ASSUME IInv, Gathered, Passed, Ordered, Leftover, Visible, Together,
           NEW p \in Proc, Frame, Move(p), UNCHANGED last \/ Hidden
    PROVE  Gathered' /\ Passed' /\ Ordered' /\ Visible' /\ Together'
<1> DEFINE Same == /\ Parties' = Parties
                   /\ \A b \in Barrier : Marked(b)' = Marked(b) /\ Crossed(b)' = Crossed(b)
                   /\ Broken' = Broken
                   /\ \A b \in Barrier : Sound(b)' = Sound(b)
<1>1. Same
  BY FrameSame
<1>2. \A q \in Parties, b \in Barrier : /\ q \in wrote'[b] <=> q \in wrote[b]
                                        /\ q \in past'[b] <=> q \in past[b]
  BY DEF Frame
<1>3. \A q \in Proc \ {p} : pc'[q] = pc[q]
  BY DEF Move
<1>4. ASSUME p \in Parties, pc[p] = <<"wait", "reload_ready">>, pc'[p] # Over
      PROVE  Broken
  <2>1. last.status = "tests_completed"
    BY <1>4 DEF Move, Barrier
  <2> QED BY <1>4, <2>1, LeavesBroken
<1>5. Gathered'
  BY <1>1, <1>2 DEF Gathered
<1>6. Passed'
  <2> SUFFICES ASSUME NEW q \in Parties, NEW b \in Barrier, q \in wrote[b],
                      pc'[q] \notin {<<"wait", b>>, Over}, ~ (b = "reload_ready" /\ Broken)
               PROVE  q \in past[b]
    BY <1>1, <1>2 DEF Passed
  <2>1. CASE q = p
    <3>1. pc[p] # <<"wait", b>>
      BY <1>4, <2>1 DEF Move
    <3> QED BY <2>1, <3>1 DEF Passed, Move
  <2>2. CASE q # p
    BY <1>3, <2>2, PartiesCount DEF Passed
  <2> QED BY <2>1, <2>2
<1>7. Ordered'
  <2>1. \A b \in TestBarrier \cup {"setup_ready"} : b \in Barrier
    BY DEF TestBarrier, Barrier
  <2> SUFFICES ASSUME NEW q \in Parties
               PROVE  /\ pc'[q] \notin {<<"new", "none">>, <<"mark", "setup_ready">>, Over}
                         => q \in wrote["setup_ready"]
                      /\ pc'[q] \in InReload => q \in past["reload_ready"]
                      /\ q \in past["reload_ready"]
                         => pc'[q] \in InReload \cup {Over} \/ q \in past["reload_completed"]
    BY <1>1, <1>2, <2>1 DEF Ordered, TestBarrier
  <2>2. CASE q = p
    BY <2>2 DEF Ordered, Move
  <2>3. CASE q # p
    BY <1>3, <2>3, PartiesCount DEF Ordered
  <2> QED BY <2>2, <2>3
<1>8. ASSUME NEW b \in Barrier, Polling(b)' PROVE Polling(b)
  BY <1>1, <1>3, <1>8, PartiesCount DEF Polling, Move
<1>9. Visible'
  <2> SUFFICES ASSUME NEW b \in Barrier, Sound(b), Marked(b) # {}, Open(b)'
               PROVE  last'.status = b /\ last'.acks = Cardinality(Marked(b))
    BY <1>1 DEF Visible
  <2>1. Open(b)
    BY <1>1, <1>8 DEF Open
  <2> QED BY <2>1 DEF Visible, Hidden
<1>10. Together'
  <2> SUFFICES ASSUME NEW b \in Barrier, Sound(b), Crossed(b) # {}, Polling(b)'
               PROVE  /\ \A r \in Parties : pc'[r] \in {<<"wait", b>>, <<"sleep", b>>, Over}
                      /\ \A l \in Later(b) : Marked(l) = {}
    <3>1. \A c \in Barrier : Later(c) \subseteq Barrier
      BY DEF Later, TestBarrier, Barrier
    <3> QED BY <1>1, <3>1 DEF Together
  <2>1. /\ \A r \in Parties : pc[r] \in {<<"wait", b>>, <<"sleep", b>>, Over}
        /\ \A l \in Later(b) : Marked(l) = {}
    BY <1>8 DEF Together
  <2>2. PICK q \in Parties : pc[q] = <<"wait", b>>
    BY <1>8 DEF Polling
  <2>3. At(q, "wait", b) /\ AllMarked(q, b) /\ q \in Proc
    BY <2>2, Seen, PartiesCount DEF At
  <2>4. p \in Parties => pc'[p] = Over
    <3>1. CASE pc[p] = <<"wait", b>>
      <4>1. b = "reload_ready" => ~ Broken
        BY DEF Sound
      <4> QED BY <1>4, <3>1, <4>1 DEF Move
    <3>2. CASE pc[p] = <<"sleep", b>>
      BY <2>3, <3>2 DEF Move
    <3> QED BY <2>1, <3>1, <3>2 DEF Move
  <2> QED BY <1>3, <2>1, <2>4, PartiesCount
<1> QED BY <1>5, <1>6, <1>7, <1>9, <1>10
--------------------------------------------------------------------------------
(* What is marked, and crossed, comes after what was before.               *)
LEMMA Backwards ==
    ASSUME Gathered, Ordered, Waiting, NEW q \in Parties, NEW l \in TestBarrier, q \in wrote[l]
    PROVE  /\ Parties \subseteq wrote["setup_ready"] /\ q \in past["setup_ready"]
           /\ l = "reload_completed" =>
                  q \in past["reload_ready"] /\ Parties \subseteq wrote["reload_ready"]
           /\ l = "tests_completed" /\ q \in wrote["reload_ready"] /\ ~ Broken =>
                  q \in past["reload_ready"] /\ q \in past["reload_completed"]
<1>1. q \in past["setup_ready"]
  BY DEF Ordered
<1>2. Parties \subseteq wrote["setup_ready"]
  BY <1>1 DEF Gathered, Crossed, Barrier
<1>3. l = "reload_completed" => q \in past["reload_ready"]
  BY DEF Ordered
<1>4. q \in past["reload_ready"] => Parties \subseteq wrote["reload_ready"]
  BY DEF Gathered, Crossed, Barrier
<1>5. l = "tests_completed" /\ q \in wrote["reload_ready"] /\ ~ Broken =>
          q \in past["reload_ready"] /\ q \in past["reload_completed"]
  BY DEF Ordered
<1> QED BY <1>1, <1>2, <1>3, <1>4, <1>5

(* Whose poll is the first to end finds everybody at this barrier.         *)
LEMMA FirstToPass ==
    ASSUME Waiting, Gathered, Passed, Ordered, NEW b \in Barrier, Sound(b), Crossed(b) = {},
           Parties \subseteq wrote[b]
    PROVE  /\ \A r \in Parties : pc[r] \in {<<"wait", b>>, Over}
           /\ \A l \in Later(b) : Marked(l) = {}
<1>1. \A r \in Parties : pc[r] \in {<<"wait", b>>, Over}
  BY DEF Passed, Crossed, Sound
<1>2. ASSUME NEW l \in Later(b), NEW r \in Parties, r \in wrote[l] PROVE FALSE
  <2>1. l \in TestBarrier /\ r \in wrote[b] /\ r \notin past[b]
    BY <1>2 DEF Later, TestBarrier, Barrier, Crossed
  <2>2. r \in past["setup_ready"]
    BY <1>2, <2>1, Backwards
  <2>3. CASE b = "setup_ready"
    BY <2>1, <2>2, <2>3
  <2>4. CASE b = "reload_ready"
    <3>1. l \in {"reload_completed", "tests_completed"} /\ ~ Broken
      BY <2>4 DEF Later, Sound
    <3> QED BY <1>2, <2>1, <2>4, <3>1, Backwards
  <2>5. CASE b = "reload_completed"
    <3>1. l = "tests_completed"
      BY <2>5 DEF Later
    <3>2. r \in past["reload_ready"]
      BY <2>1, <2>5 DEF Ordered
    <3> QED BY <1>2, <2>1, <2>5, <3>1, <3>2 DEF Ordered
  <2>6. CASE b = "tests_completed"
    BY <2>6 DEF Later
  <2> QED BY <2>3, <2>4, <2>5, <2>6 DEF Barrier
<1> QED BY <1>1, <1>2 DEF Marked

(* The end of a wait keeps the pause.                                      *)
LEMMA PassKeeps ==
    ASSUME IInv, Patient, PInv, NEW p \in Proc, NEW b \in Barrier, PassBarrier(p, b)
    PROVE  PInv'
<1> USE DEF PInv
<1>1. /\ pc[p] = <<"wait", b>> /\ AllMarked(p, b)
      /\ UNCHANGED <<mode, impatient, last, wrote>>
  BY DEF PassBarrier, At, settings, file
<1>2. /\ pc'[p] = <<"sleep", b>> /\ \A q \in Proc \ {p} : pc'[q] = pc[q]
  BY DEF PassBarrier, Goto, IInv, TypeOK
<1>3. \A q, c : c \in Barrier => (q \in past'[c] <=> q \in past[c] \/ (q = p /\ c = b))
  BY DEF PassBarrier, IInv, TypeOK, Gate
<1>4. p \in Parties
  BY <1>1, PartiesCount DEF IInv, Alone, At2
<1>5. Parties \subseteq wrote[b]
  BY <1>1, AllHere
<1>6. /\ Parties' = Parties /\ Broken' = Broken /\ RPFirst' = RPFirst
      /\ \A c \in Barrier : Marked(c)' = Marked(c) /\ Sound(c)' = Sound(c)
  BY <1>1 DEF Parties, Broken, RPFirst, Marked, Sound
<1>7. \A c \in Barrier : c # b => Crossed(c)' = Crossed(c)
  BY <1>3, <1>6 DEF Crossed
<1>8. ASSUME NEW c \in Barrier, Polling(c)' PROVE Polling(c)
  <2>1. PICK q \in Parties : pc'[q] = <<"wait", c>>
    BY <1>6, <1>8 DEF Polling
  <2>2. q # p /\ q \in Proc
    BY <1>2, <2>1, PartiesCount
  <2> QED BY <1>2, <2>1, <2>2 DEF Polling
<1>9. Gathered'
  BY <1>1, <1>5, <1>6, <1>7 DEF Gathered
<1>10. Passed'
  <2> SUFFICES ASSUME NEW q \in Parties, NEW c \in Barrier, q \in wrote[c],
                      pc'[q] \notin {<<"wait", c>>, Over}, ~ (c = "reload_ready" /\ Broken)
               PROVE  q \in past'[c]
    BY <1>1, <1>6 DEF Passed
  <2>1. CASE q = p
    <3>1. CASE c = b
      BY <1>3, <2>1, <3>1
    <3>2. CASE c # b
      BY <1>1, <1>3, <2>1, <3>2 DEF Passed, Over
    <3> QED BY <3>1, <3>2
  <2>2. CASE q # p
    BY <1>2, <1>3, <2>2, PartiesCount DEF Passed
  <2> QED BY <2>1, <2>2
<1>11. Ordered'
  <2>1. "setup_ready" \in Barrier /\ "reload_ready" \in Barrier /\ "reload_completed" \in Barrier
    BY DEF Barrier
  <2>2. \A q, c : c \in Barrier /\ q \in past[c] => q \in past'[c]
    BY <1>3
  <2> SUFFICES ASSUME NEW q \in Parties
               PROVE  /\ pc'[q] \notin {<<"new", "none">>, <<"mark", "setup_ready">>, Over}
                         => q \in wrote["setup_ready"]
                      /\ pc'[q] \in InReload => q \in past'["reload_ready"]
                      /\ q \in past'["reload_ready"]
                         => pc'[q] \in InReload \cup {Over} \/ q \in past'["reload_completed"]
                      /\ q \in wrote["tests_completed"] /\ q \in past'["reload_ready"]
                         => q \in past'["reload_completed"]
    BY <1>1, <1>6, <2>1, <2>2 DEF Ordered
  <2>3. CASE q # p
    BY <1>2, <1>3, <2>1, <2>3, PartiesCount DEF Ordered
  <2>4. CASE q = p
    <3>1. q \in wrote["setup_ready"]
      BY <1>1, <2>4 DEF Ordered, Over
    <3>2. pc'[q] \in InReload => b = "reload_ready"
      BY <1>2, <2>4 DEF InReload
    <3>3. b = "reload_ready" => q \in past'["reload_ready"] /\ pc'[q] \in InReload
                                /\ q \notin wrote["tests_completed"]
      <4> SUFFICES ASSUME b = "reload_ready" PROVE q \notin wrote["tests_completed"]
        BY <1>2, <1>3, <2>1, <2>4 DEF InReload
      <4>1. pc[q] \notin AfterTests
        BY <1>1, <2>4 DEF AfterTests, AfterTeardown, Over
      <4> QED BY <2>4, <4>1 DEF IInv, Once, After, Gate, Barrier
    <3>4. b # "reload_ready" /\ q \in past'["reload_ready"] => q \in past'["reload_completed"]
      <4> SUFFICES ASSUME b # "reload_ready", q \in past["reload_ready"], b # "reload_completed"
                   PROVE  q \in past'["reload_completed"]
        BY <1>3, <2>1, <2>4
      <4>1. pc[q] \notin InReload \cup {Over}
        BY <1>1, <2>4 DEF InReload, Over
      <4> QED BY <2>2, <2>1, <4>1 DEF Ordered
    <3> QED BY <3>1, <3>2, <3>3, <3>4
  <2> QED BY <2>3, <2>4
<1>12. Opened'
  BY <1>1, <1>6 DEF Opened
<1>13. Closing'
  <2>1. pc'[Leader] \in InTeardown => pc[Leader] \in InTeardown
    <3>1. CASE p = Leader
      BY <1>2, <3>1 DEF InTeardown
    <3>2. CASE p # Leader
      BY <1>2, <3>2, CoordinatorAssumption
    <3> QED BY <3>1, <3>2
  <2>2. "tests_completed" \in Barrier
    BY DEF Barrier
  <2> QED BY <1>1, <1>3, <1>6, <2>1, <2>2 DEF Closing
<1>14. Leftover'
  <2>1. pc'[Leader] = Over => pc[Leader] = Over
    <3>1. CASE p = Leader
      BY <1>2, <3>1 DEF Over
    <3>2. CASE p # Leader
      BY <1>2, <3>2, CoordinatorAssumption
    <3> QED BY <3>1, <3>2
  <2> QED BY <1>1, <1>6, <2>1 DEF Leftover
<1>15. Visible'
  <2> SUFFICES ASSUME NEW c \in Barrier, Sound(c), Marked(c) # {}, Open(c)'
               PROVE  last.status = c /\ last.acks = Cardinality(Marked(c))
    BY <1>1, <1>6 DEF Visible
  <2>1. Crossed(c)' = {} => Crossed(c) = {}
    BY <1>3, <1>6 DEF Crossed
  <2>2. Open(c)
    BY <1>8, <2>1 DEF Open
  <2> QED BY <2>2 DEF Visible
<1>16. Together'
  <2> SUFFICES ASSUME NEW c \in Barrier, Sound(c), Crossed(c)' # {}, Polling(c)'
               PROVE  /\ \A r \in Parties : pc'[r] \in {<<"wait", c>>, <<"sleep", c>>, Over}
                      /\ \A l \in Later(c) : Marked(l) = {}
    <3>1. \A d \in Barrier : Later(d) \subseteq Barrier
      BY DEF Later, TestBarrier, Barrier
    <3> QED BY <1>6, <3>1 DEF Together
  <2>1. Polling(c)
    BY <1>8
  <2>2. CASE c = b
    <3>1. /\ \A r \in Parties : pc[r] \in {<<"wait", b>>, <<"sleep", b>>, Over}
          /\ \A l \in Later(b) : Marked(l) = {}
      <4>1. CASE Crossed(b) = {}
        BY <1>5, <2>2, <4>1, FirstToPass DEF IInv
      <4>2. CASE Crossed(b) # {}
        BY <2>1, <2>2, <4>2 DEF Together
      <4> QED BY <4>1, <4>2
    <3> QED BY <1>2, <2>2, <3>1, PartiesCount
  <2>3. CASE c # b
    <3>1. pc[p] \in {<<"wait", c>>, <<"sleep", c>>, Over}
      BY <1>4, <1>7, <2>1, <2>3 DEF Together
    <3> QED BY <1>1, <2>3, <3>1 DEF Over
  <2> QED BY <2>2, <2>3
<1> QED BY <1>9, <1>10, <1>11, <1>12, <1>13, <1>14, <1>15, <1>16
--------------------------------------------------------------------------------
(* A party that comes to a barrier has crossed the ones before it.         *)
LEMMA Arriving ==
    ASSUME IInv, PInv, NEW p \in Parties, NEW b \in Barrier, pc[p] = <<"mark", b>>
    PROVE  /\ p \notin wrote[b] /\ p \notin past[b] /\ Crossed(b) = {}
           /\ b # "setup_ready" => p \in past["setup_ready"]
           /\ b = "reload_ready" => p \notin wrote["tests_completed"]
           /\ b = "reload_completed" => p \in past["reload_ready"]
           /\ b = "tests_completed" /\ p \in wrote["reload_ready"] /\ ~ Broken =>
                  p \in past["reload_ready"]
           /\ b = "tests_completed" /\ p \in past["reload_ready"] => p \in past["reload_completed"]
<1> USE DEF PInv
<1>1. p \in Proc
  BY PartiesCount
<1>2. p \notin wrote[b]
  BY <1>1, Fresh DEF IInv
<1>3. p \notin past[b]
  BY <1>1, <1>2 DEF IInv, Waiting, Gate
<1>4. Crossed(b) = {}
  BY <1>2 DEF Gathered
<1>5. ASSUME b # "setup_ready" PROVE p \in past["setup_ready"]
  <2>1. p \in wrote["setup_ready"]
    BY <1>5 DEF Ordered, Over
  <2> QED BY <2>1 DEF Passed, Over, Barrier
<1>6. ASSUME b = "reload_ready" PROVE p \notin wrote["tests_completed"]
  <2>1. pc[p] \notin AfterTests
    BY <1>6 DEF AfterTests, AfterTeardown, Over
  <2> QED BY <1>1, <2>1 DEF IInv, Once, After, Gate, Barrier
<1>7. b = "reload_completed" => p \in past["reload_ready"]
  BY DEF Ordered, InReload
<1>8. ASSUME b = "tests_completed", p \in wrote["reload_ready"], ~ Broken
      PROVE  p \in past["reload_ready"]
  BY <1>8 DEF Passed, Over, Barrier
<1>9. ASSUME b = "tests_completed", p \in past["reload_ready"]
      PROVE  p \in past["reload_completed"]
  BY <1>9 DEF Ordered, InReload, Over
<1> QED BY <1>2, <1>3, <1>4, <1>5, <1>6, <1>7, <1>8, <1>9

(* A party comes to a barrier only when nobody waits for another one.      *)
LEMMA NoOtherOpen ==
    ASSUME IInv, PInv, NEW p \in Parties, NEW b \in Barrier, pc[p] = <<"mark", b>>,
           NEW c \in Barrier, c # b, Marked(c) # {}, Open(c),
           c = "reload_ready" =>
               ~ Broken /\ (b = "tests_completed" => p \in wrote["reload_ready"]),
           c = "tests_completed" =>
               Marked("reload_ready") \cup (IF b = "reload_ready" THEN {p} ELSE {})
               \in {{}, Parties}
    PROVE  FALSE
<1> USE DEF PInv
<1>0. Waiting
  BY DEF IInv
<1>1. PICK q \in Parties : q \in wrote[c]
  BY DEF Marked
<1>2. ASSUME p \in past[c], Sound(c) PROVE FALSE
  BY <1>2, Behind DEF Over
<1>3. c \in TestBarrier => b # "setup_ready"
  BY <1>0, <1>1, Arriving, Backwards
<1>4. CASE c = "setup_ready"
  BY <1>2, <1>4, Arriving DEF Sound
<1>5. CASE c = "reload_ready"
  <2>1. p \in past["reload_ready"]
    BY <1>3, <1>5, Arriving DEF Barrier, TestBarrier
  <2> QED BY <1>2, <1>5, <2>1 DEF Sound
<1>6. CASE c = "reload_completed"
  <2>1. Parties \subseteq wrote["reload_ready"] /\ ~ Broken
    BY <1>0, <1>1, <1>6, Backwards DEF TestBarrier, Broken
  <2>2. b = "tests_completed"
    BY <1>3, <1>6, <2>1, Arriving DEF Barrier, TestBarrier
  <2>3. p \in past["reload_completed"]
    BY <2>1, <2>2, Arriving
  <2> QED BY <1>2, <1>6, <2>3 DEF Sound
<1>7. CASE c = "tests_completed"
  <2>1. q # p \/ b # "reload_ready"
    BY <1>1, <1>7, Arriving
  <2>2. CASE b = "reload_ready"
    <3>1. Parties \ {p} \subseteq wrote["reload_ready"]
      BY <1>7, <2>2 DEF Marked
    <3>2. ~ Broken
      BY <2>2, <3>1, Arriving DEF Broken
    <3>3. q \in past["reload_ready"]
      BY <1>0, <1>1, <1>7, <2>1, <2>2, <3>1, <3>2, Backwards DEF TestBarrier
    <3> QED BY <2>2, <3>3, Arriving DEF Crossed
  <2>3. CASE b = "reload_completed"
    <3>1. p \in past["reload_ready"]
      BY <2>3, Arriving
    <3>2. Parties \subseteq wrote["reload_ready"]
      BY <3>1 DEF Gathered, Crossed, Barrier
    <3>3. q \in past["reload_completed"]
      BY <1>0, <1>1, <1>7, <3>2, Backwards DEF TestBarrier, Broken
    <3> QED BY <2>3, <3>3, Arriving DEF Crossed
  <2> QED BY <1>3, <1>7, <2>2, <2>3 DEF Barrier, TestBarrier
<1> QED BY <1>4, <1>5, <1>6, <1>7 DEF Barrier

(* A party that marks a barrier counts itself, and hides no other barrier. *)
LEMMA MarkKeeps ==
    ASSUME IInv, Patient, PInv, NEW p \in Parties, NEW b \in Barrier, MarkAndWait(p, b)
    PROVE  PInv'
<1> USE DEF PInv
<1>0. p \in Proc /\ NumFollowers(p) # 0 /\ Patient
  BY PartiesCount DEF Patient
<1>1. /\ pc[p] = <<"mark", b>> /\ UNCHANGED <<mode, impatient, past>>
      /\ last' = [status |-> b, acks |-> IF last.status = b THEN last.acks + 1 ELSE 1]
  BY DEF MarkAndWait, Mark, At, settings
<1>2. /\ pc'[p] = <<"wait", b>> /\ \A q \in Proc \ {p} : pc'[q] = pc[q]
  BY <1>0 DEF MarkAndWait, Goto, IInv, TypeOK
<1>3. /\ \A q, s : s \in ParallelStatus => (q \in wrote'[s] <=> q \in wrote[s] \/ (q = p /\ s = b))
      /\ \A c \in Barrier : c \in ParallelStatus
      /\ "setup_completed" \in ParallelStatus /\ "teardown_completed" \in ParallelStatus
  BY DEF MarkAndWait, Mark, IInv, TypeOK, ParallelStatus, Gate, Announced
<1>4. /\ Parties' = Parties /\ RPFirst' = RPFirst /\ \A c \in Barrier : Crossed(c)' = Crossed(c)
  BY <1>1 DEF Parties, RPFirst, Crossed
<1>5. \A c \in Barrier : Marked(c)' = Marked(c) \cup (IF c = b THEN {p} ELSE {})
  BY <1>3, <1>4 DEF Marked
<1>6. /\ p \notin wrote[b] /\ p \notin past[b] /\ Crossed(b) = {}
      /\ b = "reload_ready" => p \notin wrote["tests_completed"]
  BY <1>1, Arriving
<1>7. Broken => Broken'
  BY <1>3, <1>4, <1>6 DEF Broken, Barrier
<1>8. ASSUME NEW c \in Barrier, Polling(c)', c # b PROVE Polling(c)
  <2>1. PICK q \in Parties : pc'[q] = <<"wait", c>>
    BY <1>4, <1>8 DEF Polling
  <2>2. q # p /\ q \in Proc
    BY <1>2, <1>8, <2>1, PartiesCount
  <2> QED BY <1>2, <2>1, <2>2 DEF Polling
<1>9. "reload_ready" \in Barrier /\ "tests_completed" \in Barrier /\ "setup_ready" \in Barrier
      /\ "reload_completed" \in Barrier
  BY DEF Barrier
<1>10. Gathered'
  BY <1>3, <1>4 DEF Gathered
<1>11. Passed'
  <2> SUFFICES ASSUME NEW q \in Parties, NEW c \in Barrier, q \in wrote'[c],
                      pc'[q] \notin {<<"wait", c>>, Over}, ~ (c = "reload_ready" /\ Broken)
               PROVE  q \in past[c]
    BY <1>1, <1>4, <1>7 DEF Passed
  <2>1. q \in wrote[c]
    BY <1>2, <1>3
  <2>2. pc[q] \notin {<<"wait", c>>, Over}
    BY <1>1, <1>2, PartiesCount DEF Over
  <2> QED BY <2>1, <2>2 DEF Passed
<1>12. Ordered'
  <2> SUFFICES ASSUME NEW q \in Parties
               PROVE  /\ pc'[q] \notin {<<"new", "none">>, <<"mark", "setup_ready">>, Over}
                         => q \in wrote'["setup_ready"]
                      /\ \A c \in TestBarrier : q \in wrote'[c] => q \in past["setup_ready"]
                      /\ pc'[q] \in InReload \/ q \in wrote'["reload_completed"]
                         => q \in past["reload_ready"]
                      /\ q \in past["reload_ready"]
                         => pc'[q] \in InReload \cup {Over} \/ q \in past["reload_completed"]
                      /\ q \in wrote'["tests_completed"] /\ q \in wrote'["reload_ready"]
                         => q \in past["reload_ready"] \/ Broken'
                      /\ q \in wrote'["tests_completed"] /\ q \in past["reload_ready"]
                         => q \in past["reload_completed"]
    BY <1>1, <1>4 DEF Ordered
  <2>1. CASE q # p
    <3>1. pc'[q] = pc[q] /\ \A c \in Barrier : q \in wrote'[c] <=> q \in wrote[c]
      BY <1>2, <1>3, <2>1, PartiesCount
    <3>2. TestBarrier \subseteq Barrier
      BY DEF TestBarrier, Barrier
    <3> QED BY <1>7, <1>9, <3>1, <3>2 DEF Ordered
  <2>2. CASE q = p
    <3>1. q \in wrote'["setup_ready"]
      <4>1. b # "setup_ready" => q \in wrote["setup_ready"]
        BY <1>1, <2>2 DEF Ordered, Over
      <4> QED BY <1>3, <1>9, <2>2, <4>1
    <3>2. ASSUME NEW c \in TestBarrier, q \in wrote'[c] PROVE q \in past["setup_ready"]
      <4>1. c \in Barrier /\ c # "setup_ready"
        BY DEF TestBarrier, Barrier
      <4>2. CASE q \in wrote[c]
        BY <4>2 DEF Ordered
      <4>3. CASE c = b
        BY <1>1, <2>2, <4>1, <4>3, Arriving
      <4> QED BY <1>3, <2>2, <3>2, <4>1, <4>2, <4>3
    <3>3. pc'[q] \in InReload \/ q \in wrote'["reload_completed"] => q \in past["reload_ready"]
      <4>1. pc'[q] \in InReload => b = "reload_completed"
        BY <1>2, <2>2 DEF InReload
      <4>2. q \in wrote["reload_completed"] => q \in past["reload_ready"]
        BY DEF Ordered
      <4>3. b = "reload_completed" => q \in past["reload_ready"]
        BY <1>1, <2>2, Arriving
      <4> QED BY <1>3, <1>9, <4>1, <4>2, <4>3
    <3>4. q \in past["reload_ready"]
          => pc'[q] \in InReload \cup {Over} \/ q \in past["reload_completed"]
      <4>1. CASE b = "reload_completed"
        BY <1>2, <2>2, <4>1 DEF InReload
      <4>2. CASE b # "reload_completed"
        BY <1>1, <2>2, <4>2 DEF Ordered, InReload, Over
      <4> QED BY <4>1, <4>2
    <3>5. q \in wrote'["tests_completed"] /\ q \in wrote'["reload_ready"]
          => q \in past["reload_ready"] \/ Broken'
      <4>1. CASE b = "tests_completed"
        <5>1. q \in wrote'["reload_ready"] => q \in wrote["reload_ready"]
          BY <1>3, <1>9, <4>1
        <5> QED BY <1>1, <1>7, <2>2, <4>1, <5>1, Arriving
      <4>2. CASE b = "reload_ready"
        BY <1>3, <1>6, <1>9, <2>2, <4>2
      <4>3. CASE b # "tests_completed" /\ b # "reload_ready"
        BY <1>3, <1>7, <1>9, <4>3 DEF Ordered
      <4> QED BY <4>1, <4>2, <4>3
    <3>6. q \in wrote'["tests_completed"] /\ q \in past["reload_ready"]
          => q \in past["reload_completed"]
      <4>1. CASE b = "tests_completed"
        BY <1>1, <2>2, <4>1, Arriving
      <4>2. CASE b # "tests_completed"
        BY <1>3, <1>9, <4>2 DEF Ordered
      <4> QED BY <4>1, <4>2
    <3> QED BY <3>1, <3>2, <3>3, <3>4, <3>5, <3>6
  <2> QED BY <2>1, <2>2
<1>13. Opened'
  <2> SUFFICES ASSUME ~ RPFirst, NEW q \in Proc, NEW c \in TestBarrier, q \in wrote'[c]
               PROVE  wrote'["setup_completed"] = Proc
    BY <1>4 DEF Opened
  <2>1. c \in Barrier
    BY DEF TestBarrier, Barrier
  <2>2. wrote["setup_completed"] = Proc
    <3>1. CASE q \in wrote[c]
      BY <3>1 DEF Opened
    <3>2. CASE c = b
      <4>1. pc[p] \in Testing
        BY <1>1, <3>2 DEF Testing, Reloading, At2, TestBarrier
      <4> QED BY <1>0, <4>1 DEF IInv, TestPhase
    <3> QED BY <1>3, <2>1, <3>1, <3>2
  <2>3. wrote'["setup_completed"] = wrote["setup_completed"]
    BY DEF MarkAndWait, Mark, IInv, TypeOK, Barrier
  <2> QED BY <2>2, <2>3
<1>14. Closing'
  <2>1. pc'[Leader] \in InTeardown => pc[Leader] \in InTeardown
    <3>1. CASE p = Leader
      BY <1>2, <3>1 DEF InTeardown
    <3>2. CASE p # Leader
      BY <1>2, <3>2, CoordinatorAssumption
    <3> QED BY <3>1, <3>2
  <2>2. /\ wrote'["setup_completed"] = wrote["setup_completed"]
        /\ wrote'["teardown_completed"] = wrote["teardown_completed"]
    BY DEF MarkAndWait, Mark, IInv, TypeOK, Barrier
  <2> QED BY <1>1, <1>4, <2>1, <2>2 DEF Closing
<1>15. Leftover'
  BY <1>1, <1>5 DEF Leftover
<1>16. ASSUME NEW c \in Barrier, c # b, Sound(c)', Marked(c) # {}, Open(c) PROVE FALSE
  <2>1. c = "reload_ready" => ~ Broken /\ (b = "tests_completed" => p \in wrote["reload_ready"])
    <3> SUFFICES ASSUME c = "reload_ready" PROVE ~ Broken'
                 /\ (~ Broken' /\ b = "tests_completed" => p \in wrote["reload_ready"])
      BY <1>7
    <3>1. ~ Broken'
      BY <1>16 DEF Sound
    <3>2. ASSUME b = "tests_completed", p \notin wrote["reload_ready"] PROVE Broken'
      BY <1>3, <1>4, <1>9, <3>2 DEF Broken
    <3> QED BY <3>1, <3>2
  <2>2. c = "tests_completed" =>
            Marked("reload_ready") \cup (IF b = "reload_ready" THEN {p} ELSE {})
            \in {{}, Parties}
    BY <1>4, <1>5, <1>9, <1>16 DEF Sound
  <2> QED BY <1>1, <1>16, <2>1, <2>2, NoOtherOpen
<1>17. Visible'
  <2> SUFFICES ASSUME NEW c \in Barrier, Sound(c)', Marked(c)' # {}, Open(c)'
               PROVE  last'.status = c /\ last'.acks = Cardinality(Marked(c)')
    BY DEF Visible
  <2>1. c = b
    <3> SUFFICES ASSUME c # b PROVE FALSE
      OBVIOUS
    <3>1. Marked(c) # {}
      BY <1>5
    <3>2. Open(c)
      BY <1>4, <1>8 DEF Open
    <3> QED BY <1>16, <3>1, <3>2
  <2>2. Sound(b)
    <3>1. b = "tests_completed" => Marked("reload_ready")' = Marked("reload_ready")
      BY <1>5, <1>9
    <3> QED BY <1>4, <1>7, <2>1, <3>1 DEF Sound
  <2>3. Marked(b)' = Marked(b) \cup {p} /\ p \notin Marked(b)
    BY <1>5, <1>6 DEF Marked
  <2>4. IsFiniteSet(Marked(b)) /\ Cardinality(Marked(b)) \in Nat
    BY Followers, PartiesCount DEF Marked
  <2>5. Cardinality(Marked(b)') = Cardinality(Marked(b)) + 1
    BY <2>3, <2>4, FS_AddElement
  <2>6. CASE Marked(b) = {}
    <3>1. last.status # b
      BY <1>1, <2>6, LineOfParty DEF Over
    <3>2. Cardinality(Marked(b)) = 0
      BY <2>6, FS_EmptySet
    <3> QED BY <1>1, <2>1, <2>5, <3>1, <3>2
  <2>7. CASE Marked(b) # {}
    <3>1. Open(b)
      BY <1>6 DEF Open
    <3>2. last.status = b /\ last.acks = Cardinality(Marked(b))
      BY <2>2, <2>7, <3>1 DEF Visible
    <3> QED BY <1>1, <2>1, <2>5, <3>2
  <2> QED BY <2>6, <2>7
<1>18. Together'
  <2> SUFFICES ASSUME NEW c \in Barrier, Sound(c)', Crossed(c) # {}, Polling(c)' PROVE FALSE
    BY <1>4 DEF Together
  <2>1. c # b
    BY <1>6
  <2>2. Open(c)
    BY <1>8, <2>1 DEF Open
  <2>3. Marked(c) # {}
    BY DEF Gathered, Marked, Crossed
  <2> QED BY <1>16, <2>1, <2>2, <2>3
<1> QED BY <1>10, <1>11, <1>12, <1>13, <1>14, <1>15, <1>17, <1>18
--------------------------------------------------------------------------------
(* The parts of the leader in a step that marks no barrier.                *)
LeaderMove ==
    /\ UNCHANGED last \/ Hidden
    /\ wrote["setup_completed"] = Proc => wrote'["setup_completed"] = Proc
    /\ /\ ~ RPFirst /\ Leader \in wrote'["setup_completed"]
       /\ Leader \in wrote'["teardown_completed"] \/ pc'[Leader] \in InTeardown
       => \/ pc[Leader] = <<"sleep", "tests_completed">>
          \/ /\ Leader \in wrote["setup_completed"]
             /\ Leader \in wrote["teardown_completed"] \/ pc[Leader] \in InTeardown
    /\ RPFirst /\ pc'[Leader] = Over /\ last'.status \in Barrier
       => pc[Leader] = Over /\ UNCHANGED last

(* All of the invariant, in such a step.                                   *)
LEMMA StepKeeps ==
    ASSUME IInv, Ready, PInv, NEW p \in Proc, Frame, Move(p), LeaderMove
    PROVE  PInv'
<1> USE DEF PInv
<1>1. UNCHANGED last \/ Hidden
  BY DEF LeaderMove
<1>2. Gathered' /\ Passed' /\ Ordered' /\ Visible' /\ Together'
  BY <1>1, MoveKeeps
<1>3. /\ Parties' = Parties /\ RPFirst' = RPFirst
      /\ \A b \in Barrier : Marked(b)' = Marked(b)
      /\ \A q \in Parties, b \in Barrier : /\ q \in wrote'[b] <=> q \in wrote[b]
                                           /\ q \in past'[b] <=> q \in past[b]
      /\ TestBarrier \subseteq Barrier /\ "tests_completed" \in Barrier
  BY FrameSame DEF Frame, TestBarrier, Barrier
<1>4. Opened'
  BY <1>3, PartiesCount DEF Opened, LeaderMove
<1>5. Closing'
  <2> SUFFICES ASSUME ~ RPFirst, Leader \in wrote'["setup_completed"],
                      Leader \in wrote'["teardown_completed"] \/ pc'[Leader] \in InTeardown
               PROVE  Leader \in past["tests_completed"]
    BY <1>3, CoordinatorAssumption, PartiesCount DEF Closing
  <2>1. CASE pc[Leader] = <<"sleep", "tests_completed">>
    <3>1. Leader \in Parties /\ Leader \in wrote["tests_completed"]
      BY <1>3, <2>1, CoordinatorAssumption, PartiesCount DEF Ready
    <3> QED BY <1>3, <2>1, <3>1 DEF Passed, Over
  <2>2. CASE /\ Leader \in wrote["setup_completed"]
             /\ Leader \in wrote["teardown_completed"] \/ pc[Leader] \in InTeardown
    BY <2>2 DEF Closing
  <2> QED BY <2>1, <2>2 DEF LeaderMove
<1>6. Leftover'
  <2> SUFFICES ASSUME RPFirst, pc'[Leader] = Over, last'.status \in Barrier
               PROVE  Marked(last'.status) # {}
    BY <1>3 DEF Leftover
  <2>1. pc[Leader] = Over /\ last' = last
    BY DEF LeaderMove
  <2> QED BY <2>1 DEF Leftover
<1> QED BY <1>2, <1>4, <1>5, <1>6

(* The leader that runs alone does so before the others have marked one.   *)
LEMMA LoneHidden ==
    ASSUME IInv, RPFirst, pc[Leader] # Over
    PROVE  Hidden
<1>1. \A b \in Barrier : Marked(b) = {}
  BY PartiesCount DEF IInv, Alone, Marked, ParallelStatus, Gate
<1> QED BY <1>1 DEF Hidden

(* In a full parallel run it writes after the setup barrier is closed, and *)
(* once the tests are open, only after their end is too.                   *)
LEMMA LeaderHidden ==
    ASSUME IInv, PInv, ~ RPFirst,
           pc[Leader] \in InTeardown \cup {<<"set", "setup_started">>, <<"set", "setup_completed">>}
    PROVE  Hidden
<1> SUFFICES ASSUME NEW b \in Barrier, Sound(b), Marked(b) # {}, Open(b) PROVE FALSE
  BY DEF Hidden
<1> USE DEF PInv
<1>0. Leader \in Proc /\ Leader \in Parties /\ Waiting
  BY CoordinatorAssumption, PartiesCount DEF IInv
<1>1. ASSUME Leader \in past[b] PROVE FALSE
  BY <1>0, <1>1, Behind DEF InTeardown, Over
<1>2. Leader \in past["setup_ready"]
  <2>1. Leader \in wrote["setup_ready"]
    BY <1>0 DEF Ordered, InTeardown, Over
  <2> QED BY <1>0, <2>1 DEF Passed, InTeardown, Over, Barrier
<1>3. PICK q \in Parties : q \in wrote[b]
  BY DEF Marked
<1>4. b \in TestBarrier
  BY <1>1, <1>2 DEF Barrier, TestBarrier
<1>5. Leader \in wrote["setup_completed"] /\ "setup_completed" \in Gate
  BY <1>0, <1>3, <1>4, PartiesCount DEF Opened, Gate, Announced
<1>6. pc[Leader] \in InTeardown
  <2>1. pc[Leader] \in AfterSetup
    BY <1>0, <1>5 DEF IInv, Once, After
  <2> QED BY <2>1 DEF AfterSetup, AfterReady, AfterReload, AfterTests, AfterTeardown, Over
<1>7. Leader \in past["tests_completed"]
  BY <1>5, <1>6 DEF Closing
<1>8. Leader \in wrote["tests_completed"]
  BY <1>0, <1>7 DEF Waiting, Gate, Barrier
<1>9. CASE b = "tests_completed"
  BY <1>1, <1>7, <1>9
<1>10. CASE b = "reload_ready"
  <2>1. ~ Broken /\ Leader \in wrote["reload_ready"]
    BY <1>0, <1>8, <1>10 DEF Sound, Broken
  <2> QED BY <1>0, <1>1, <1>8, <1>10, <2>1, Backwards DEF TestBarrier
<1>11. CASE b = "reload_completed"
  <2>1. Parties \subseteq wrote["reload_ready"]
    BY <1>0, <1>3, <1>4, <1>11, Backwards
  <2>2. ~ Broken
    BY <2>1 DEF Broken
  <2> QED BY <1>0, <1>1, <1>8, <1>11, <2>1, <2>2, Backwards DEF TestBarrier
<1> QED BY <1>4, <1>9, <1>10, <1>11 DEF TestBarrier
--------------------------------------------------------------------------------
(* Steps that write nothing, and end no wait for a barrier.                *)
LEMMA Unwritten ==
    ASSUME NEW p \in Proc, UNCHANGED <<mode, impatient, last, wrote>>,
           \A b \in Barrier : past'[b] = past[b], Move(p),
           pc'[Leader] \in InTeardown =>
               \/ pc[Leader] \in InTeardown \cup {<<"sleep", "tests_completed">>}
               \/ Leader \notin wrote["setup_completed"],
           RPFirst /\ pc'[Leader] = Over => pc[Leader] = Over \/ last.status \notin Barrier
    PROVE  Frame /\ LeaderMove
BY DEF Frame, LeaderMove

(* The start of a process.                                                 *)
LEMMA StartMove == ASSUME IInv, NEW p \in Proc, Start(p) PROVE Frame /\ Move(p) /\ LeaderMove
<1>1. pc[p] = <<"new", "none">> /\ UNCHANGED <<mode, impatient, last, wrote, past>>
  BY DEF Start, At, settings, file
<1>2. pc'[p] = <<"mark", "setup_ready">> /\ \A q \in Proc \ {p} : pc'[q] = pc[q]
  BY DEF Start, Goto, IInv, TypeOK
<1>3. Move(p)
  BY <1>1, <1>2 DEF Move, Over, InReload
<1> QED BY <1>1, <1>2, <1>3, Unwritten, CoordinatorAssumption DEF InTeardown, Over

(* In front of a reload, and out of the wait for it.                       *)
LEMMA CheckEarlyMove ==
    ASSUME IInv, NEW p \in Proc, CheckEarly(p) PROVE Frame /\ Move(p) /\ LeaderMove
<1>1. pc[p] = <<"check", "reload_ready">> /\ UNCHANGED <<mode, impatient, last, wrote, past>>
  BY DEF CheckEarly, At, settings, file
<1>2. /\ pc'[p] \in {<<"do", "tests">>, <<"mark", "reload_ready">>}
      /\ \A q \in Proc \ {p} : pc'[q] = pc[q]
  BY AbortMoves DEF CheckEarly, Goto, IInv, TypeOK, Gate, Barrier
<1>3. Move(p)
  BY <1>1, <1>2 DEF Move, Over, InReload
<1> QED BY <1>1, <1>2, <1>3, Unwritten, CoordinatorAssumption DEF InTeardown, Over

(* The wait is left only when another process has ended its tests.         *)
LEMMA LeaveEarlyMove ==
    ASSUME IInv, NEW p \in Proc, LeaveEarly(p) PROVE Frame /\ Move(p) /\ LeaderMove
<1>1. /\ pc[p] = <<"wait", "reload_ready">> /\ last.status = "tests_completed"
      /\ UNCHANGED <<mode, impatient, last, wrote, past>>
  BY DEF LeaveEarly, At, settings, file
<1>2. pc'[p] = <<"do", "tests">> /\ \A q \in Proc \ {p} : pc'[q] = pc[q]
  BY AbortMoves DEF LeaveEarly, Goto, IInv, TypeOK, Gate, Barrier
<1>3. Move(p)
  BY <1>1, <1>2 DEF Move, Over, InReload
<1> QED BY <1>1, <1>2, <1>3, Unwritten, CoordinatorAssumption DEF InTeardown, Over

(* The pause ends when nobody can still see the count without having seen  *)
(* it.                                                                     *)
LEMMA WakeMove ==
    ASSUME IInv, NEW p \in Proc, NEW b \in Barrier, Wake(p, b)
    PROVE  Frame /\ Move(p) /\ LeaderMove
<1>1. /\ pc[p] = <<"sleep", b>> /\ UNCHANGED <<mode, impatient, last, wrote, past>>
      /\ \A q \in Proc : ~ (At(q, "wait", b) /\ AllMarked(q, b))
  BY DEF Wake, At, settings, file
<1>2. /\ b = "setup_ready"
         => pc'[p] \in {<<"set", "setup_started">>, <<"expect", "setup_completed">>}
      /\ b = "reload_ready" => pc'[p] = <<"do", "reload">>
      /\ b = "reload_completed" => pc'[p] = <<"do", "tests">>
      /\ b = "tests_completed"
         => pc'[p] \in {<<"set", "teardown_started">>, <<"expect", "teardown_completed">>}
  BY ProceedMoves DEF Wake, Goto, IInv, TypeOK, Gate
<1>3. \A q \in Proc \ {p} : pc'[q] = pc[q]
  BY ProceedMoves DEF Wake, Goto, IInv, TypeOK, Gate
<1>4. Move(p)
  <2>1. pc'[p] # Over /\ \A c \in Barrier : pc'[p] \notin {<<"wait", c>>, <<"sleep", c>>}
    BY <1>2 DEF Over, Barrier
  <2>2. pc'[p] \in InReload <=> b = "reload_ready"
    BY <1>2 DEF InReload, Barrier
  <2>3. pc[p] \in InReload <=> b = "reload_ready"
    BY <1>1 DEF InReload
  <2> QED BY <1>1, <1>3, <2>1, <2>2, <2>3 DEF Move, Over
<1>5. pc'[Leader] \in InTeardown =>
          pc[Leader] \in InTeardown \/ pc[Leader] = <<"sleep", "tests_completed">>
  BY <1>1, <1>2, <1>3, CoordinatorAssumption DEF InTeardown, Barrier
<1>6. pc'[Leader] = Over => pc[Leader] = Over
  BY <1>2, <1>3, CoordinatorAssumption DEF Over, Barrier
<1> QED BY <1>1, <1>4, <1>5, <1>6, Unwritten

(* The handshakes.  Only a follower expects a status.                      *)
LEMMA ExpectMove ==
    ASSUME IInv, NEW p \in Proc, NEW a \in Announced, Expect(p, a)
    PROVE  Frame /\ Move(p) /\ LeaderMove
<1>1. /\ pc[p] = <<"expect", a>> /\ UNCHANGED <<mode, impatient, last, wrote, past>>
  BY DEF Expect, At, settings, file
<1>2. p # Leader
  BY <1>1 DEF IInv, Roles, FollowerOnly, At2, Announced
<1>3. /\ pc'[p] \in {<<"expect", "teardown_completed">>, <<"all", a>>, <<"ack", a>>, Over}
      /\ \A q \in Proc \ {p} : pc'[q] = pc[q]
  BY <1>2, AbortMoves DEF Expect, Goto, IInv, TypeOK, Gate, Announced, Over
<1>4. Move(p)
  BY <1>1, <1>3 DEF Move, Over, InReload
<1> QED BY <1>1, <1>2, <1>3, <1>4, Unwritten, CoordinatorAssumption

(* The acknowledgements are no barrier.                                    *)
LEMMA PassAckedMove ==
    ASSUME IInv, NEW p \in Proc, NEW a \in Announced, PassAcked(p, a)
    PROVE  Frame /\ Move(p) /\ LeaderMove
<1>1. /\ pc[p] = <<"all", a>> /\ UNCHANGED <<mode, impatient, last, wrote>>
  BY DEF PassAcked, At, settings, file
<1>2. \A b \in Barrier : past'[b] = past[b]
  BY DEF PassAcked, IInv, TypeOK, Gate, Barrier, Announced
<1>3. /\ \/ a = "setup_completed" /\ pc'[p] = <<"do", "tests">>
         \/ a = "teardown_completed" /\ pc'[p] = Over
      /\ \A q \in Proc \ {p} : pc'[q] = pc[q]
  <2>1. Proceed(p, a) /\ a \in Gate
    BY DEF PassAcked, Gate
  <2>2. CASE a = "setup_completed"
    <3>1. Goto(p, "do", "tests")
      BY <2>1, <2>2, ProceedMoves
    <3> QED BY <2>2, <3>1 DEF Goto, IInv, TypeOK
  <2>3. CASE a = "teardown_completed"
    <3>1. Goto(p, "end", "none")
      BY <2>1, <2>3, ProceedMoves
    <3> QED BY <2>3, <3>1 DEF Goto, IInv, TypeOK, Over
  <2> QED BY <2>2, <2>3 DEF Announced
<1>4. Move(p)
  BY <1>1, <1>3 DEF Move, Over, InReload
<1>5. pc'[Leader] \in InTeardown => pc[Leader] \in InTeardown
  BY <1>3, CoordinatorAssumption DEF InTeardown, Over
<1>6. RPFirst /\ pc'[Leader] = Over => pc[Leader] = Over \/ last.status \notin Barrier
  <2>1. pc'[Leader] = Over /\ pc[Leader] # Over => pc[Leader] = <<"all", "teardown_completed">>
    BY <1>1, <1>3, CoordinatorAssumption DEF Over
  <2> QED BY <2>1 DEF IInv, Alone, Barrier
<1> QED BY <1>1, <1>2, <1>4, <1>5, <1>6, Unwritten

(* Tests, and the call and the end of a reload.                            *)
LEMMA TestsMove ==
    ASSUME IInv, NEW p \in Proc, EndTests(p) \/ CallReload(p) \/ Reload(p)
    PROVE  Frame /\ Move(p) /\ LeaderMove
<1>1. /\ UNCHANGED <<mode, impatient, last, wrote, past>>
      /\ \/ pc[p] = <<"do", "tests">>
            /\ pc'[p] \in {<<"mark", "tests_completed">>, <<"check", "reload_ready">>}
         \/ pc[p] = <<"do", "reload">> /\ pc'[p] = <<"mark", "reload_completed">>
      /\ \A q \in Proc \ {p} : pc'[q] = pc[q]
  BY DEF EndTests, CallReload, Reload, At, Goto, settings, file, IInv, TypeOK
<1>2. Move(p)
  BY <1>1 DEF Move, Over, InReload
<1> QED BY <1>1, <1>2, Unwritten, CoordinatorAssumption DEF InTeardown, Over

(* A process that is killed.                                               *)
LEMMA CrashMove ==
    ASSUME IInv, NEW p \in Proc, Crash(p) PROVE Frame /\ Move(p) /\ LeaderMove
<1>1. /\ pc[p] # Over /\ ~ (RPFirst /\ p = Leader)
      /\ UNCHANGED <<mode, impatient, last, wrote, past>>
  BY DEF Crash, At, settings, file, Over
<1>2. pc'[p] = Over /\ \A q \in Proc \ {p} : pc'[q] = pc[q]
  BY DEF Crash, Goto, IInv, TypeOK, Over
<1>3. Move(p)
  BY <1>1, <1>2 DEF Move, Over, InReload
<1> QED BY <1>1, <1>2, <1>3, Unwritten, CoordinatorAssumption DEF InTeardown, Over

(* The leader between two lines.  What it does before it opens the tests   *)
(* is over when it has opened them.                                        *)
LEMMA CheckCollectMove ==
    ASSUME IInv, Check \/ Collect PROVE Frame /\ Move(Leader) /\ LeaderMove
<1>1. /\ UNCHANGED <<mode, impatient, last, wrote, past>>
      /\ \/ /\ pc[Leader] \in {<<"do", "checks">>, <<"do", "collect">>}
            /\ pc'[Leader] \in {<<"do", "collect">>, <<"set", "verdict">>, <<"do", "post">>,
                                <<"set", "setup_completed">>}
         \/ /\ pc[Leader] \in {<<"do", "post">>, <<"do", "compare">>}
            /\ pc'[Leader] \in {<<"set", "verdict">>, <<"do", "post">>}
      /\ \A q \in Proc \ {Leader} : pc'[q] = pc[q]
  BY CoordinatorAssumption DEF Check, Collect, At, Goto, settings, file, IInv, TypeOK
<1>2. Move(Leader)
  BY <1>1 DEF Move, Over, InReload
<1>3. pc[Leader] \in {<<"do", "checks">>, <<"do", "collect">>}
      => Leader \notin wrote["setup_completed"]
  <2>1. pc[Leader] \in {<<"do", "checks">>, <<"do", "collect">>} => pc[Leader] \notin AfterSetup
    BY DEF AfterSetup, AfterReady, AfterReload, AfterTests, AfterTeardown, Over
  <2> QED BY <2>1, CoordinatorAssumption DEF IInv, Once, After, Gate, Announced
<1>4. Leader \in wrote["setup_completed"] /\ pc'[Leader] \in InTeardown => pc[Leader] \in InTeardown
  BY <1>1, <1>3 DEF InTeardown
<1> QED BY <1>1, <1>2, <1>4, Unwritten, CoordinatorAssumption DEF Over

(* An acknowledgement stays under the status it is about.                  *)
LEMMA AcknowledgeMove ==
    ASSUME IInv, NEW p \in Proc, NEW a \in Announced, Acknowledge(p, a)
    PROVE  Frame /\ Move(p) /\ (PInv => LeaderMove)
<1>1. /\ pc[p] = <<"ack", a>> /\ UNCHANGED <<mode, impatient, past>>
  BY DEF Acknowledge, At, settings
<1>2. p # Leader
  BY <1>1 DEF IInv, Roles, FollowerOnly, At2, Announced
<1>3. /\ pc'[p] \in {<<"expect", "teardown_completed">>, <<"all", a>>, Over}
      /\ \A q \in Proc \ {p} : pc'[q] = pc[q]
  BY <1>2, AbortMoves DEF Acknowledge, Goto, IInv, TypeOK, Gate, Announced, Over
<1>4. /\ \A b \in Barrier : wrote'[b] = wrote[b]
      /\ \A s \in ParallelStatus : wrote'[s] \in {wrote[s], wrote[s] \cup {p}}
  BY DEF Acknowledge, SetNew, file, IInv, TypeOK, ParallelStatus, Gate, Barrier, Announced
<1>5. wrote["setup_completed"] = Proc => wrote'["setup_completed"] = Proc
  BY <1>4 DEF ParallelStatus, Gate, Announced
<1>6. \A s \in {"setup_completed", "teardown_completed"} :
          Leader \in wrote'[s] <=> Leader \in wrote[s]
  BY <1>2, <1>4 DEF ParallelStatus, Gate, Announced
<1>7. ASSUME PInv PROVE UNCHANGED last \/ (Hidden /\ last'.status \notin Barrier)
  <2>1. UNCHANGED last \/ (last.status = a /\ last'.status = a)
    BY DEF Acknowledge, SetNew, file
  <2>2. last.status = a => Hidden
    BY <1>7 DEF PInv, Hidden, Visible, Barrier, Announced
  <2> QED BY <2>1, <2>2 DEF Barrier, Announced
<1>8. Move(p)
  BY <1>1, <1>3 DEF Move, Over, InReload
<1>9. Frame
  BY <1>1, <1>4 DEF Frame
<1>10. PInv => LeaderMove
  BY <1>2, <1>3, <1>5, <1>6, <1>7, CoordinatorAssumption DEF LeaderMove
<1> QED BY <1>8, <1>9, <1>10

(* The leader announces a status, or its verdict, when no barrier is open. *)
LEMMA LeaderWrites ==
    ASSUME IInv, SetStatus \/ SetVerdict
    PROVE  Frame /\ Move(Leader) /\ (PInv => LeaderMove)
<1>1. /\ UNCHANGED <<mode, impatient, past>>
      /\ \A q \in Proc \ {Leader} : pc'[q] = pc[q]
      /\ \/ /\ pc[Leader] = <<"set", "setup_started">> /\ pc'[Leader] = <<"do", "checks">>
            /\ wrote' = [wrote EXCEPT !["setup_started"] = @ \cup {Leader}]
         \/ /\ pc[Leader] = <<"set", "setup_completed">>
            /\ pc'[Leader] = <<"all", "setup_completed">>
            /\ wrote' = [wrote EXCEPT !["setup_completed"] = @ \cup {Leader}]
         \/ /\ pc[Leader] = <<"set", "teardown_started">> /\ pc'[Leader] = <<"do", "compare">>
            /\ wrote' = [wrote EXCEPT !["teardown_started"] = @ \cup {Leader}]
         \/ /\ pc[Leader] = <<"set", "verdict">> /\ pc'[Leader] = Over
            /\ wrote' = [wrote EXCEPT !["sanity_check_failed"] = @ \cup {Leader}]
         \/ /\ pc[Leader] = <<"set", "verdict">> /\ pc'[Leader] = <<"all", "teardown_completed">>
            /\ wrote' = [wrote EXCEPT !["teardown_completed"] = @ \cup {Leader}]
  <2>1. CASE SetStatus
    BY <2>1, SetStatusMoves, CoordinatorAssumption
       DEF SetNew, At, Goto, settings, IInv, TypeOK
  <2>2. CASE SetVerdict
    BY <2>2, CoordinatorAssumption DEF SetVerdict, SetNew, At, Goto, settings, IInv, TypeOK, Over
  <2> QED BY <2>1, <2>2
<1>2. last'.status \notin Barrier
  <2>1. CASE SetStatus
    BY <2>1, SetStatusMoves DEF SetNew, Barrier
  <2>2. CASE SetVerdict
    BY <2>2 DEF SetVerdict, SetNew, Barrier
  <2> QED BY <2>1, <2>2
<1>3. Leader \in Proc /\ wrote \in [ParallelStatus -> SUBSET Proc]
  BY CoordinatorAssumption DEF IInv, TypeOK
<1>4. \A b \in Barrier : wrote'[b] = wrote[b]
  BY <1>1, <1>3 DEF Barrier, ParallelStatus, Gate
<1>5. Move(Leader)
  BY <1>1 DEF Move, Over, InReload
<1>6. ASSUME PInv PROVE Hidden
  <2>1. pc[Leader] \in {<<"set", "teardown_started">>, <<"set", "verdict">>,
                       <<"set", "setup_started">>, <<"set", "setup_completed">>}
    BY <1>1
  <2>2. pc[Leader] # Over
    BY <2>1 DEF Over
  <2>3. pc[Leader] \in InTeardown \cup {<<"set", "setup_started">>, <<"set", "setup_completed">>}
    BY <2>1 DEF InTeardown
  <2> QED BY <1>6, <2>2, <2>3, LoneHidden, LeaderHidden
<1>7. wrote["setup_completed"] = Proc => wrote'["setup_completed"] = Proc
  BY <1>1, <1>3 DEF ParallelStatus, Gate, Announced
<1>8. ASSUME Leader \in wrote'["setup_completed"],
             Leader \in wrote'["teardown_completed"] \/ pc'[Leader] \in InTeardown
      PROVE  /\ Leader \in wrote["setup_completed"]
             /\ Leader \in wrote["teardown_completed"] \/ pc[Leader] \in InTeardown
  <2>1. CASE pc[Leader] \in InTeardown
    BY <1>1, <1>3, <1>8, <2>1 DEF InTeardown, ParallelStatus, Gate, Announced
  <2>2. CASE pc[Leader] \in {<<"set", "setup_started">>, <<"set", "setup_completed">>}
    <3>1. Leader \in wrote["teardown_completed"]
      BY <1>1, <1>3, <1>8, <2>2 DEF InTeardown, ParallelStatus, Gate, Announced
    <3>2. pc[Leader] \in AfterTeardown
      BY <1>3, <3>1 DEF IInv, Once, After, Gate, Announced
    <3> QED BY <2>2, <3>2 DEF AfterTeardown, Over
  <2> QED BY <1>1, <2>1, <2>2 DEF InTeardown
<1>9. Frame
  BY <1>1, <1>4 DEF Frame
<1>10. PInv => LeaderMove
  BY <1>2, <1>6, <1>7, <1>8 DEF LeaderMove
<1> QED BY <1>5, <1>9, <1>10

(* The leader that runs alone marks barriers that are not for the others.  *)
LEMMA LoneMark ==
    ASSUME IInv, NEW p \in Proc, p \notin Parties, NEW b \in Barrier, MarkAndWait(p, b)
    PROVE  Frame /\ Move(p) /\ LeaderMove
<1>1. RPFirst /\ p = Leader /\ NumFollowers(p) = 0
  BY PartiesCount, Followers
<1>2. pc[p] = <<"mark", b>> /\ UNCHANGED <<mode, impatient, past>>
  BY DEF MarkAndWait, At, settings
<1>3. Proceed(p, b)
  BY <1>1 DEF MarkAndWait
<1>4. /\ b = "setup_ready" => pc'[p] = <<"set", "setup_started">>
      /\ b = "reload_ready" => pc'[p] = <<"do", "reload">>
      /\ b = "reload_completed" => pc'[p] = <<"do", "tests">>
      /\ b = "tests_completed" => pc'[p] = <<"set", "teardown_started">>
      /\ \A q \in Proc \ {p} : pc'[q] = pc[q]
  BY <1>1, <1>3, ProceedMoves DEF Goto, IInv, TypeOK, Gate
<1>5. /\ \A q \in Parties, c \in Barrier : q \in wrote'[c] <=> q \in wrote[c]
      /\ wrote["setup_completed"] = Proc => wrote'["setup_completed"] = Proc
  BY DEF MarkAndWait, Mark, IInv, TypeOK, ParallelStatus, Gate, Announced
<1>6. Hidden
  BY <1>1, <1>2, LoneHidden DEF Over
<1>7. Frame
  BY <1>2, <1>5 DEF Frame
<1>8. pc'[p] # Over
  BY <1>4 DEF Over, Barrier
<1>9. LeaderMove
  BY <1>1, <1>5, <1>6, <1>8 DEF LeaderMove
<1>10. Move(p)
  <2>1. \A c \in Barrier : pc'[p] \notin {<<"wait", c>>, <<"sleep", c>>}
    BY <1>4 DEF Barrier
  <2> QED BY <1>2, <1>4, <2>1 DEF Move, Over
<1> QED BY <1>7, <1>9, <1>10
--------------------------------------------------------------------------------
(* Every step marks a barrier, ends a wait, well or not, or is a move.     *)
LEMMA StepKinds ==
    ASSUME IInv, Next
    PROVE  \/ \E p \in Proc : Frame /\ Move(p) /\ (PInv => LeaderMove)
           \/ \E p \in Parties, b \in Barrier : MarkAndWait(p, b)
           \/ \E p \in Proc, b \in Barrier : PassBarrier(p, b)
           \/ \E p \in Proc, g \in Gate : TimeOut(p, g)
<1>1. ASSUME NEW p \in Proc, NEW b \in Barrier, MarkAndWait(p, b), p \notin Parties
      PROVE  Frame /\ Move(p) /\ LeaderMove
  BY <1>1, LoneMark
<1>2. ASSUME NEW p \in Proc, NEW b \in Barrier, Wake(p, b)
      PROVE  Frame /\ Move(p) /\ LeaderMove
  BY <1>2, WakeMove
<1>3. ASSUME NEW p \in Proc, NEW a \in Announced,
             Expect(p, a) \/ Acknowledge(p, a) \/ PassAcked(p, a)
      PROVE  Frame /\ Move(p) /\ (PInv => LeaderMove)
  BY <1>3, ExpectMove, AcknowledgeMove, PassAckedMove
<1>4. ASSUME NEW p \in Proc, \/ Start(p) \/ CheckEarly(p) \/ LeaveEarly(p)
                             \/ EndTests(p) \/ CallReload(p) \/ Reload(p) \/ Crash(p)
      PROVE  Frame /\ Move(p) /\ LeaderMove
  BY <1>4, StartMove, CheckEarlyMove, LeaveEarlyMove, TestsMove, CrashMove
<1>5. ASSUME SetStatus \/ Check \/ Collect \/ SetVerdict
      PROVE  Leader \in Proc /\ Frame /\ Move(Leader) /\ (PInv => LeaderMove)
  BY <1>5, CheckCollectMove, LeaderWrites, CoordinatorAssumption
<1>6. ASSUME NEW p \in Proc, Step(p)
      PROVE  \/ \E r \in Proc : Frame /\ Move(r) /\ (PInv => LeaderMove)
             \/ \E r \in Parties, b \in Barrier : MarkAndWait(r, b)
             \/ \E r \in Proc, b \in Barrier : PassBarrier(r, b)
  <2>1. CASE \E b \in Barrier : MarkAndWait(p, b) \/ PassBarrier(p, b) \/ Wake(p, b)
    BY <1>1, <1>2, <2>1
  <2>2. CASE \E a \in Announced : Expect(p, a) \/ Acknowledge(p, a) \/ PassAcked(p, a)
    BY <1>3, <2>2
  <2>3. CASE \/ Start(p) \/ CheckEarly(p) \/ LeaveEarly(p) \/ EndTests(p) \/ CallReload(p)
             \/ Reload(p)
    BY <1>4, <2>3
  <2>4. CASE SetStatus \/ Check \/ Collect \/ SetVerdict
    BY <1>5, <2>4
  <2> QED BY <1>6, <2>1, <2>2, <2>3, <2>4 DEF Step
<1>7. ASSUME NEW p \in Proc, Crash(p)
      PROVE  Frame /\ Move(p) /\ LeaderMove
  BY <1>4, <1>7
<1> QED BY <1>6, <1>7 DEF Next, Late

(* With deadlines or without, nobody is past a barrier before all are at   *)
(* it.                                                                     *)
LEMMA ReadyKeeps ==
    ASSUME IInv, Ready, [Next]_vars
    PROVE  Ready'
<1>1. ASSUME NEW p \in Proc, mode' = mode, \A q \in Proc \ {p} : pc'[q] = pc[q],
             \A q \in Parties, b \in Barrier : q \in wrote[b] => q \in wrote'[b],
             p \in Parties =>
                 /\ \A b \in Barrier : pc'[p] = <<"wait", b>> => Follower # {}
                 /\ \A b \in Barrier : pc'[p] = <<"sleep", b>> => Parties \subseteq wrote'[b]
                 /\ pc'[p] \in InReload => Parties \subseteq wrote'["reload_ready"]
      PROVE  Ready'
  <2>1. Parties' = Parties /\ "reload_ready" \in Barrier
    BY <1>1 DEF Parties, RPFirst, Barrier
  <2> SUFFICES ASSUME NEW q \in Parties
               PROVE  /\ \A b \in Barrier : pc'[q] = <<"wait", b>> => Follower # {}
                      /\ \A b \in Barrier : pc'[q] = <<"sleep", b>> => Parties \subseteq wrote'[b]
                      /\ pc'[q] \in InReload => Parties \subseteq wrote'["reload_ready"]
    BY <2>1 DEF Ready
  <2>2. CASE q = p
    BY <1>1, <2>2
  <2>3. CASE q # p
    BY <1>1, <2>1, <2>3, PartiesCount DEF Ready
  <2> QED BY <2>2, <2>3
<1>2. ASSUME NEW p \in Proc, Frame, Move(p) PROVE Ready'
  <2>1. "reload_ready" \in Barrier
    BY DEF Barrier
  <2>2. p \in Parties /\ pc'[p] \in InReload => Parties \subseteq wrote'["reload_ready"]
    BY <1>2, <2>1 DEF Frame, Move, Ready
  <2>3. \A b \in Barrier : pc'[p] \notin {<<"wait", b>>, <<"sleep", b>>}
    BY <1>2 DEF Move
  <2> QED BY <1>1, <1>2, <2>2, <2>3 DEF Frame, Move
<1>3. ASSUME NEW p \in Parties, NEW b \in Barrier, MarkAndWait(p, b) PROVE Ready'
  <2>1. p \in Proc /\ mode' = mode /\ pc[p] = <<"mark", b>> /\ b \in ParallelStatus
    BY <1>3, PartiesCount DEF MarkAndWait, At, settings, ParallelStatus, Gate
  <2>2. /\ \A q \in Proc \ {p} : pc'[q] = pc[q]
        /\ NumFollowers(p) # 0 => pc'[p] = <<"wait", b>>
    BY <1>3, <2>1, ProceedMoves DEF MarkAndWait, Goto, IInv, TypeOK, Gate
  <2>3. /\ \A q \in Parties, c \in Barrier : q \in wrote[c] => q \in wrote'[c]
        /\ p \in wrote'[b]
    BY <1>3, <2>1 DEF MarkAndWait, Mark, IInv, TypeOK, ParallelStatus, Gate
  <2>4. CASE NumFollowers(p) # 0
    <3>1. pc'[p] = <<"wait", b>> /\ Follower # {}
      BY <2>1, <2>2, <2>4, Followers
    <3>2. pc'[p] \in InReload => pc[p] \in InReload
      BY <2>1, <3>1 DEF InReload
    <3>3. pc'[p] \in InReload => Parties \subseteq wrote'["reload_ready"]
      BY <2>3, <3>2 DEF Ready, Barrier
    <3>4. \A c \in Barrier : pc'[p] # <<"sleep", c>>
      BY <3>1
    <3> QED BY <1>1, <2>1, <2>2, <2>3, <3>1, <3>3, <3>4
  <2>5. CASE NumFollowers(p) = 0
    <3>1. Parties \subseteq {p}
      <4>1. Follower = {}
        BY <2>5, PartiesCount
      <4> QED BY <2>1, <4>1, PartiesCount DEF Follower
    <3>2. Proceed(p, b)
      BY <1>3, <2>5 DEF MarkAndWait
    <3>3. /\ \A c \in Barrier : pc'[p] \notin {<<"wait", c>>, <<"sleep", c>>}
          /\ pc'[p] \in InReload => b = "reload_ready"
      BY <2>1, <3>2, ProceedMoves DEF Goto, InReload, IInv, TypeOK, Gate, Barrier
    <3>4. pc'[p] \in InReload => Parties \subseteq wrote'["reload_ready"]
      BY <2>3, <3>1, <3>3
    <3> QED BY <1>1, <2>1, <2>2, <2>3, <3>3, <3>4
  <2> QED BY <2>4, <2>5
<1>4. ASSUME NEW p \in Proc, NEW b \in Barrier, PassBarrier(p, b) PROVE Ready'
  <2>1. UNCHANGED <<mode, wrote>> /\ pc[p] = <<"wait", b>> /\ AllMarked(p, b)
    BY <1>4 DEF PassBarrier, At, settings, file
  <2>2. pc'[p] = <<"sleep", b>> /\ \A q \in Proc \ {p} : pc'[q] = pc[q]
    BY <1>4 DEF PassBarrier, Goto, IInv, TypeOK
  <2>3. Parties \subseteq wrote[b]
    BY <2>1, AllHere
  <2>4. pc'[p] \in InReload => b = "reload_ready"
    BY <2>2 DEF InReload
  <2> QED BY <1>1, <2>1, <2>2, <2>3, <2>4
<1>5. ASSUME NEW p \in Proc, NEW g \in Gate, TimeOut(p, g) PROVE Ready'
  <2>1. UNCHANGED <<mode, wrote>>
    BY <1>5 DEF TimeOut, settings, file
  <2>2. /\ pc'[p] \in {Over, <<"do", "tests">>, <<"do", "post">>,
                        <<"expect", "teardown_completed">>}
        /\ \A q \in Proc \ {p} : pc'[q] = pc[q]
    BY <1>5, AbortMoves DEF TimeOut, Goto, IInv, TypeOK, Over
  <2>3. /\ \A b \in Barrier : pc'[p] \notin {<<"wait", b>>, <<"sleep", b>>}
        /\ pc'[p] \notin InReload
    BY <2>2 DEF Over, InReload
  <2> QED BY <1>1, <2>1, <2>2, <2>3
<1>6. CASE UNCHANGED vars
  BY <1>6 DEF vars, settings, file, Ready, Parties, RPFirst
<1> QED BY <1>2, <1>3, <1>4, <1>5, <1>6, StepKinds

(* At the start nothing is marked and nobody waits.                        *)
LEMMA PauseInitial == Init => CInv
<1> SUFFICES ASSUME Init PROVE CInv
  OBVIOUS
<1>1. IInv
  BY Initial
<1>2. /\ \A p \in Proc : pc[p] = <<"new", "none">>
      /\ \A s \in ParallelStatus : wrote[s] = {}
      /\ \A g \in Gate : past[g] = {}
      /\ last.status = "idle" /\ Leader \in Proc
      /\ Barrier \subseteq Gate /\ Gate \subseteq ParallelStatus /\ TestBarrier \subseteq Barrier
      /\ "setup_completed" \in ParallelStatus /\ "teardown_completed" \in ParallelStatus
  BY CoordinatorAssumption DEF Init, Gate, ParallelStatus, Announced, Barrier, TestBarrier
<1>3. \A b \in Barrier : Marked(b) = {} /\ Crossed(b) = {}
  BY <1>2 DEF Marked, Crossed
<1>4. Ready
  BY <1>2, PartiesCount DEF Ready, InReload
<1>5. Gathered /\ Visible /\ Together
  BY <1>3 DEF Gathered, Visible, Together
<1>6. Passed
  BY <1>2 DEF Passed
<1>7. Ordered
  <2>1. ASSUME NEW p \in Parties
        PROVE  /\ pc[p] = <<"new", "none">>
               /\ \A b \in Barrier : p \notin wrote[b] /\ p \notin past[b]
    BY <1>2, PartiesCount
  <2>2. <<"new", "none">> \notin InReload
    BY DEF InReload
  <2> QED BY <1>2, <2>1, <2>2 DEF Ordered, Barrier
<1>8. Opened /\ Closing /\ Leftover
  BY <1>2 DEF Opened, Closing, Leftover, Over
<1> QED BY <1>1, <1>4, <1>5, <1>6, <1>7, <1>8 DEF CInv, PInv

(* No deadline passes while the processes are patient.                     *)
LEMMA PauseInductive == CInv /\ [Next]_vars => CInv'
<1> SUFFICES ASSUME CInv, [Next]_vars PROVE CInv'
  OBVIOUS
<1>1. IInv /\ Ready /\ (Patient => PInv)
  BY DEF CInv
<1>2. IInv' /\ Ready'
  BY <1>1, Inductive, ReadyKeeps
<1>3. ASSUME Patient' PROVE PInv'
  <2>1. UNCHANGED <<mode, impatient>>
    BY <1>1, StepKinds DEF Frame, MarkAndWait, PassBarrier, TimeOut, vars, settings
  <2>2. Patient /\ PInv
    BY <1>1, <1>3, <2>1 DEF Patient
  <2>3. CASE UNCHANGED vars
    BY <2>2, <2>3 DEF vars, settings, file, PInv, Gathered, Passed, Ordered, Opened, Closing,
       Leftover, Visible, Together, Marked, Crossed, Polling, Open, Broken, Sound, Parties, RPFirst
  <2>4. ASSUME NEW p \in Proc, Frame, Move(p), PInv => LeaderMove PROVE PInv'
    BY <1>1, <2>2, <2>4, StepKeeps
  <2>5. ASSUME NEW p \in Parties, NEW b \in Barrier, MarkAndWait(p, b) PROVE PInv'
    BY <1>1, <2>2, <2>5, MarkKeeps
  <2>6. ASSUME NEW p \in Proc, NEW b \in Barrier, PassBarrier(p, b) PROVE PInv'
    BY <1>1, <2>2, <2>6, PassKeeps
  <2>7. \A p \in Proc, g \in Gate : ~ TimeOut(p, g)
    BY <2>2 DEF Patient, TimeOut
  <2> QED BY <1>1, <2>3, <2>4, <2>5, <2>6, <2>7, StepKinds
<1> QED BY <1>2, <1>3 DEF CInv

(* The invariant of the pause.                                             *)
LEMMA PauseInvariance == Spec => []CInv
BY PauseInitial, PauseInductive, PTL DEF Spec

(* A DUT reloads when all parties are ready to, and as long as no deadline *)
(* has passed none of them tests meanwhile: whoever goes on to its tests   *)
(* has seen that all have reloaded.                                        *)
THEOREM ReloadsTogether == Spec => []ReloadTogether
<1>1. ASSUME CInv PROVE ReloadTogether
  <2> USE <1>1 DEF CInv
  <2> SUFFICES ASSUME NEW p \in Parties, pc[p] = <<"do", "reload">>
               PROVE  /\ Parties \subseteq wrote["reload_ready"]
                      /\ ~ impatient => \A q \in Parties : pc[q] # <<"do", "tests">>
    BY DEF ReloadTogether, At
  <2>1. Parties \subseteq wrote["reload_ready"]
    BY DEF Ready, InReload
  <2>2. ASSUME ~ impatient, NEW q \in Parties, pc[q] = <<"do", "tests">> PROVE FALSE
    <3>1. p \in Proc /\ q \in Proc
      BY PartiesCount
    <3>2. Patient
      BY <2>2, <3>1 DEF Patient, Follower
    <3> USE <3>2 DEF PInv
    <3>3. ~ Broken
      BY <2>1 DEF Broken
    <3>4. q \in past["reload_ready"]
      BY <2>1, <2>2, <3>3 DEF Passed, Over, Barrier
    <3>5. q \in past["reload_completed"]
      BY <2>2, <3>4 DEF Ordered, InReload, Over
    <3>6. p \in wrote["reload_completed"]
      BY <3>5 DEF Gathered, Crossed, Barrier
    <3>7. pc[p] \in AfterReload
      BY <3>1, <3>6 DEF IInv, Once, After, Gate, Barrier
    <3> QED BY <3>7 DEF AfterReload, AfterTests, AfterTeardown, Over
  <2> QED BY <2>1, <2>2
<1> QED BY <1>1, PauseInvariance, PTL

(* As long as no deadline has passed, and no reload was marked on some of  *)
(* the DUTs only, a barrier that all parties have marked is on the last    *)
(* line, with their full count, for each that still polls for it: nobody   *)
(* overwrites it before.                                                   *)
THEOREM StaysVisible == Spec => []BarrierStaysVisible
<1>1. ASSUME CInv PROVE BarrierStaysVisible
  <2> USE <1>1 DEF CInv
  <2> SUFFICES ASSUME NEW p \in Parties, NEW b \in Barrier, ~ impatient, pc[p] = <<"wait", b>>,
                      Parties \subseteq wrote[b],
                      b = "tests_completed" => wrote["reload_ready"] \cap Parties \in {{}, Parties}
               PROVE  AllMarked(p, b)
    BY DEF BarrierStaysVisible, At
  <2>1. Patient
    BY DEF Patient, Ready
  <2>2. Sound(b)
    BY DEF Sound, Broken, Marked
  <2>3. Marked(b) = Parties /\ Marked(b) # {} /\ Open(b)
    BY DEF Marked, Open, Polling
  <2>4. last.status = b /\ last.acks = Cardinality(Parties)
    BY <2>1, <2>2, <2>3 DEF PInv, Visible
  <2> QED BY <2>4, PartiesCount DEF AllMarked
<1> QED BY <1>1, PauseInvariance, PTL
================================================================================
