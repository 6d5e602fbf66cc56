------------------------------ MODULE ElasticProofs ------------------------------
(***************************************************************************)
(* Proofs about GracefulScaleIn, for every fleet, window, batch size and   *)
(* clock.                                                                  *)
(***************************************************************************)
EXTENDS GracefulScaleIn, SequenceTheorems, TLAPS

-----------------------------------------------------------------------------
(* A sequence without one of its elements: what is left keeps its order.   *)
LEMMA RemoveAtFacts ==
  ASSUME NEW S, NEW s \in Seq(S), NEW k \in 1..Len(s)
  PROVE  /\ RemoveAt(s, k) \in Seq(S)
         /\ Len(RemoveAt(s, k)) = Len(s) - 1
         /\ \A a \in 1..(Len(s) - 1) :
              RemoveAt(s, k)[a] = s[IF a < k THEN a ELSE a + 1]
<1> DEFINE front == SubSeq(s, 1, k - 1)
           back == SubSeq(s, k + 1, Len(s))
<1>1. Len(s) \in Nat /\ \A a \in 1..Len(s) : s[a] \in S
  BY LenProperties, ElementOfSeq
<1>2. front \in Seq(S) /\ Len(front) = k - 1
      /\ \A a \in 1..(k - 1) : front[a] = s[a]
  <2>1. \A a \in 1..(k - 1) : s[a] \in S
    BY <1>1
  <2> QED BY <1>1, <2>1, SubSeqProperties
<1>3. back \in Seq(S) /\ Len(back) = Len(s) - k
      /\ \A a \in 1..(Len(s) - k) : back[a] = s[k + a]
  <2>1. \A a \in (k + 1)..Len(s) : s[a] \in S
    BY <1>1
  <2>2. /\ back \in Seq(S)
        /\ Len(back) = IF k + 1 <= Len(s) THEN Len(s) - (k + 1) + 1 ELSE 0
        /\ \A a \in 1..(Len(s) - (k + 1) + 1) : back[a] = s[(k + 1) + a - 1]
    BY <1>1, <2>1, SubSeqProperties
  <2> QED BY <1>1, <2>2
<1>4. RemoveAt(s, k) = front \o back
  BY DEF RemoveAt
<1> HIDE DEF front, back
<1>5. /\ front \o back \in Seq(S)
      /\ Len(front \o back) = Len(front) + Len(back)
      /\ \A a \in 1..(Len(front) + Len(back)) :
           (front \o back)[a] = IF a <= Len(front) THEN front[a]
                                                  ELSE back[a - Len(front)]
  BY <1>2, <1>3, ConcatProperties
<1> QED BY <1>1, <1>2, <1>3, <1>4, <1>5

LEMMA LeaveFacts ==
  ASSUME FleetOK, NEW i, Leave(i)
  PROVE  /\ fleet' \in Seq(Instances)
         /\ aged' \in 0..Len(fleet')
         /\ \E k \in 1..Len(fleet) :
              /\ Len(fleet') = Len(fleet) - 1
              /\ \A a \in 1..Len(fleet') :
                   fleet'[a] = fleet[IF a < k THEN a ELSE a + 1]
<1>1. fleet \in Seq(Instances) /\ aged \in 0..Len(fleet) /\ Len(fleet) \in Nat
  BY LenProperties DEF FleetOK
<1>2. PICK k \in 1..Len(fleet) :
        /\ fleet' = RemoveAt(fleet, k)
        /\ aged' = IF k <= aged THEN aged - 1 ELSE aged
  BY <1>1, LenProperties DEF Leave
<1>3. /\ fleet' \in Seq(Instances)
      /\ Len(fleet') = Len(fleet) - 1
      /\ \A a \in 1..(Len(fleet) - 1) :
           fleet'[a] = fleet[IF a < k THEN a ELSE a + 1]
  BY <1>1, <1>2, RemoveAtFacts
<1>4. aged' \in 0..Len(fleet')
  BY <1>1, <1>2, <1>3
<1> QED BY <1>3, <1>4

(* What a step of the fleet outside a run keeps.                           *)
LEMMA LeaveKeepsOK ==
  ASSUME FleetOK, NEW i, Leave(i)
  PROVE  /\ agent' \in [Instances -> AgentStates]
         /\ marker' \subseteq Instances
         /\ unhealthy' \subseteq Instances
BY DEF FleetOK, Leave, AgentStates

LEMMA FleetStepKeepsOK ==
  ASSUME FleetOK, NEW i \in Instances, MemberStep(i)
  PROVE  FleetOK'
<1>1. fleet \in Seq(Instances) /\ aged \in 0..Len(fleet) /\ desired \in 0..MaxGroup
      /\ Len(fleet) \in Nat /\ MaxGroup \in Nat
  BY LenProperties, FleetAssumption DEF FleetOK
<1>2. CASE AgentStarts(i) \/ TakeJob(i) \/ FinishJobs(i) \/ AgentCrashes(i)
  BY <1>2 DEF FleetOK, AgentStarts, TakeJob, FinishJobs, AgentCrashes, Becomes,
              AgentStates, groupVars
<1>3. CASE Free(i) /\ Launch(i)
  <2>1. fleet' \in Seq(Instances) /\ Len(fleet') = Len(fleet) + 1
    BY <1>1, <1>3, AppendProperties DEF Launch
  <2> QED BY <1>1, <1>3, <2>1 DEF FleetOK, Launch, agentVars
<1>4. CASE ReplaceUnhealthy(i)
  BY <1>4, LeaveFacts, LeaveKeepsOK DEF FleetOK, ReplaceUnhealthy
<1>5. CASE Shrink(i)
  BY <1>5, LeaveFacts, LeaveKeepsOK DEF FleetOK, Shrink
<1>6. CASE SelfTerminate(i)
  <2>1. desired' \in 0..MaxGroup
    BY <1>1, <1>6 DEF SelfTerminate
  <2> QED BY <1>6, <2>1, LeaveFacts, LeaveKeepsOK DEF FleetOK, SelfTerminate
<1> QED BY <1>2, <1>3, <1>4, <1>5, <1>6 DEF MemberStep

(* What a step of a check does to its own state, whatever it is.           *)
LEMMA ContinueKeepsOK ==
  ASSUME CheckOK, NEW some \in SUBSET Instances, NEW next,
         next \in {"describe", "again", "online", "send"},
         ContinueWith(next, some), slot' = slot /\ round' = round
  PROVE  CheckOK'
BY DEF CheckOK, ContinueWith, EndCheck, Clear, NoScript

LEMMA JudgeKeepsOK ==
  ASSUME CheckOK, NEW answers, Judge(answers), slot' = slot /\ round' = round
  PROVE  CheckOK'
<1>1. { i \in work : answers[i] \in Down } \subseteq Instances
  BY DEF CheckOK
<1> QED BY <1>1 DEF CheckOK, Judge, EndCheck, Clear, NoScript

LEMMA GroupInstances ==
  ASSUME FleetOK
  PROVE  InGroup \subseteq Instances
BY RangeOfSeq DEF FleetOK, InGroup

LEMMA CheckStepKeepsOK ==
  ASSUME FleetOK, CheckOK, CheckStep
  PROVE  FleetOK' /\ CheckOK'
<1> USE GroupInstances
<1>0. work \subseteq Instances
  BY DEF CheckOK
<1>1. CASE ListGroup
  BY <1>1, ContinueKeepsOK DEF ListGroup, FleetOK, fleetVars
<1>2. CASE DescribeInstances
  <2>1. \A n \in Eligible : Windowed(n) \subseteq Instances
    BY <1>0 DEF Windowed, Candidates
  <2> QED BY <1>2, <2>1, ContinueKeepsOK DEF DescribeInstances, FleetOK, fleetVars
<1>3. CASE NotFound
  <2>1. work \intersect InGroup \subseteq Instances
    BY <1>0
  <2> QED BY <1>3, <2>1, ContinueKeepsOK DEF NotFound, FleetOK, fleetVars
<1>4. CASE FilterOnline
  <2>1. work \ Unreachable \subseteq Instances
    BY <1>0
  <2> QED BY <1>4, <2>1, ContinueKeepsOK DEF FilterOnline, FleetOK, fleetVars
<1>5. CASE SendCommand
  <2>1. PICK batch \in SUBSET Unsent : SendTo(batch)
    BY <1>5 DEF SendCommand
  <2>2. batch \subseteq Instances
    BY <1>0, <2>1 DEF Unsent
  <2> QED BY <1>5, <2>1, <2>2
          DEF SendCommand, SendTo, CheckOK, FleetOK, fleetVars, Underway
<1>6. CASE CheckFails
  BY <1>6 DEF CheckFails, EndCheck, Clear, NoScript, CheckOK, FleetOK, fleetVars
<1>7. CASE Poll
  <2>1. FleetOK' /\ slot' = slot /\ round' = round
    BY <1>7 DEF Poll, FleetOK, fleetVars
  <2>2. PICK listed \in SUBSET work :
          LET answers == [i \in Instances |->
                            IF i \in listed THEN Status(i) ELSE results[i]]
          IN  \/ Judge(answers)
              \/ /\ results' = answers
                 /\ UNCHANGED << pc, work, script, grounds >>
    BY <1>7 DEF Poll
  <2>3. \A i \in Instances : Status(i) \in {"none", "pending"} \union Answers
    BY DEF Status, CheckOK, Underway, Answers
  <2> DEFINE answers == [i \in Instances |->
                           IF i \in listed THEN Status(i) ELSE results[i]]
  <2>4. answers \in [Instances -> {"none", "pending"} \union Answers]
    BY <2>3 DEF CheckOK
  <2> HIDE DEF answers
  <2>5. CASE Judge(answers)
    BY <2>1, <2>5, JudgeKeepsOK
  <2>6. CASE results' = answers /\ UNCHANGED << pc, work, script, grounds >>
    BY <2>1, <2>4, <2>6 DEF CheckOK
  <2> QED BY <2>2, <2>5, <2>6 DEF answers
<1>8. CASE Mark
  BY <1>8 DEF Mark, EndCheck, Clear, NoScript, CheckOK, FleetOK, agentVars
<1> QED BY <1>1, <1>2, <1>3, <1>4, <1>5, <1>6, <1>7, <1>8 DEF CheckStep

LEMMA ScriptStepKeepsOK ==
  ASSUME FleetOK, CheckOK, NEW i \in Instances, ScriptStep(i)
  PROVE  FleetOK' /\ CheckOK'
BY DEF ScriptStep, TestMarker, ReadState, CommandFails, Script, FleetOK, CheckOK,
       fleetVars, Underway, Answers

LEMMA RunStepKeepsOK ==
  ASSUME ElasticTypeOK,
         \/ Decide \/ ChooseOldest \/ ChooseUnsorted \/ Signal
         \/ SetDesiredCapacity \/ TerminateLone \/ NextRun \/ Kill
  PROVE  ElasticTypeOK'
<1> USE DEF ElasticTypeOK, toldVars
<1>0. /\ InGroup \subseteq Instances
      /\ desired \in Nat /\ MaxGroup \in Nat
      /\ NoScript \in [Instances -> {"none"} \union Underway \union Answers]
      /\ NoScript \in [Instances -> {"none", "pending"} \union Answers]
      /\ << >> \in Seq(Instances)
      /\ Len(listing) \in Nat /\ \A k \in 1..Len(listing) : listing[k] \in Instances
      /\ Range(listing) \subseteq Instances
  BY GroupInstances, FleetAssumption, LenProperties, ElementOfSeq, EmptySeq,
     RangeOfSeq DEF NoScript, FleetOK
<1>1. ASSUME EndRun, slot' = slot, CheckOK PROVE
        /\ CheckOK'
        /\ target' \in 0..MaxGroup /\ excess' \in 0..MaxGroup
        /\ listing' \in Seq(Instances) /\ lone' \subseteq Instances
  BY <1>0, <1>1 DEF EndRun, Clear, CheckOK
<1>2. CASE Decide
  <2>1. FleetOK' /\ UNCHANGED << slot, toldVars >>
    BY <1>2 DEF Decide, FleetOK, fleetVars
  <2>2. CASE EndRun
    BY <1>1, <2>1, <2>2
  <2>3. ASSUME NEW t \in 0..MaxGroup, t < desired, ScaleIn(t) PROVE ElasticTypeOK'
    <3>1. excess' \in 0..MaxGroup
      BY <1>0, <2>3 DEF ScaleIn, Surplus, FleetOK
    <3>2. CheckOK'
      BY <2>1, <2>3 DEF ScaleIn, CheckOK
    <3>3. target' \in 0..MaxGroup /\ listing' \in Seq(Instances)
          /\ lone' \subseteq Instances
      BY <1>0, <2>3 DEF ScaleIn, FleetOK
    <3> QED BY <2>1, <3>1, <3>2, <3>3
  <2>4. ASSUME NEW t \in 0..MaxGroup, SetTo(t) PROVE ElasticTypeOK'
    BY <2>1, <2>4 DEF SetTo, CheckOK
  <2>5. CASE CheckAgain
    BY <2>1, <2>5 DEF CheckAgain, CheckOK
  <2> QED BY <1>2, <2>2, <2>3, <2>4, <2>5 DEF Decide
<1>3. CASE ChooseOldest
  <2>1. OldestFirst \subseteq Instances
    BY <1>0 DEF OldestFirst, WaveSize, FleetOK
  <2> QED BY <1>0, <1>3, <2>1 DEF ChooseOldest, CheckOK, FleetOK, fleetVars
<1>4. CASE ChooseUnsorted
  BY <1>0, <1>4 DEF ChooseUnsorted, CheckOK, FleetOK, fleetVars
<1>5. CASE Signal
  BY <1>5 DEF Signal, CheckOK, FleetOK, fleetVars
<1>6. CASE SetDesiredCapacity
  <2>1. FleetOK' /\ UNCHANGED << slot, toldVars >>
    BY <1>6 DEF SetDesiredCapacity, FleetOK, agentVars
  <2>2. CASE EndRun
    BY <1>1, <2>1, <2>2
  <2>3. CASE /\ pc' = "single"
             /\ UNCHANGED << round, work, script, results, grounds, target,
                             excess, listing, lone >>
    BY <2>1, <2>3 DEF CheckOK
  <2> QED BY <1>6, <2>2, <2>3 DEF SetDesiredCapacity
<1>7. CASE TerminateLone
  <2>1. EndRun /\ slot' = slot
    BY <1>7 DEF TerminateLone
  <2>2. CASE UNCHANGED << fleetVars, toldVars >>
    BY <1>1, <2>1, <2>2 DEF FleetOK, fleetVars
  <2>3. CASE (\E i \in lone : Leave(i)) /\ ForgetGone /\ UNCHANGED desired
    <3>1. FleetOK'
      BY <2>3, LeaveFacts, LeaveKeepsOK DEF FleetOK
    <3>2. /\ sigterm' \subseteq Instances
          /\ chosen' \subseteq Instances /\ blind' \subseteq Instances
      BY <2>3 DEF ForgetGone
    <3> QED BY <1>1, <2>1, <3>1, <3>2
  <2> QED BY <1>7, <2>2, <2>3 DEF TerminateLone
<1>8. CASE NextRun
  <2>1. slot' \in 0..(Slots - 1)
    BY <1>8, CheckAssumption, StrideAssumption DEF NextRun, CheckOK
  <2> QED BY <1>8, <2>1 DEF NextRun, CheckOK, FleetOK, fleetVars, waveVars
<1>9. CASE Kill
  <2>1. EndRun /\ FleetOK' /\ UNCHANGED << slot, toldVars >>
    BY <1>9 DEF Kill, FleetOK, fleetVars
  <2> QED BY <1>1, <2>1
<1> QED BY <1>2, <1>3, <1>4, <1>5, <1>6, <1>7, <1>8, <1>9

LEMMA OutsideKeepsOK ==
  ASSUME ElasticTypeOK,
         \/ \E i \in Instances : FleetStep(i) \/ Outside(RunSIGTERM(i))
         \/ Outside(ReachUptime) /\ UNCHANGED waveVars
  PROVE  ElasticTypeOK'
<1> USE DEF ElasticTypeOK
<1>1. ASSUME NoteDown, UNCHANGED << pc, slot, round, work, script, results >>
      PROVE  CheckOK'
  BY <1>1 DEF NoteDown, CheckOK
<1>2. ASSUME NEW i \in Instances, FleetStep(i) PROVE ElasticTypeOK'
  BY <1>1, <1>2, FleetStepKeepsOK DEF FleetStep, Outside, ForgetGone
<1>3. ASSUME NEW i \in Instances, Outside(RunSIGTERM(i)) PROVE ElasticTypeOK'
  <2>1. FleetOK'
    BY <1>3 DEF Outside, RunSIGTERM, FleetOK, Becomes, AgentStates, groupVars
  <2> QED BY <1>1, <1>3, <2>1 DEF Outside, RunSIGTERM
<1>4. ASSUME Outside(ReachUptime), UNCHANGED waveVars PROVE ElasticTypeOK'
  <2>1. FleetOK'
    BY <1>4, LenProperties DEF Outside, ReachUptime, FleetOK, agentVars
  <2> QED BY <1>1, <1>4, <2>1 DEF Outside, waveVars
<1> QED BY <1>2, <1>3, <1>4

LEMMA ElasticTypeInit == ElasticInit => ElasticTypeOK
BY EmptySeq, FleetAssumption, CheckAssumption
   DEF ElasticInit, FleetInit, CheckInit, ElasticTypeOK, FleetOK, CheckOK, NoScript,
       AgentStates

LEMMA TypeInductive ==
  ASSUME ElasticTypeOK, [ElasticNext]_elasticVars
  PROVE  ElasticTypeOK'
<1>1. CASE UNCHANGED elasticVars
  BY <1>1 DEF elasticVars, fleetVars, checkVars, waveVars, ElasticTypeOK, FleetOK,
              CheckOK
<1>2. CASE CheckStep /\ UNCHANGED waveVars
  BY <1>2, CheckStepKeepsOK DEF ElasticTypeOK, waveVars
<1>3. ASSUME NEW i \in Instances, ScriptStep(i), UNCHANGED waveVars
      PROVE  ElasticTypeOK'
  BY <1>3, ScriptStepKeepsOK DEF ElasticTypeOK, waveVars
<1> QED BY <1>1, <1>2, <1>3, RunStepKeepsOK, OutsideKeepsOK DEF ElasticNext

(* Every reachable state of GracefulScaleIn has its types.                 *)
THEOREM ElasticTypeCorrect == ElasticSpec => []ElasticTypeOK
<1>1. ElasticInit => ElasticTypeOK
  BY ElasticTypeInit
<1>2. ElasticTypeOK /\ [ElasticNext]_elasticVars => ElasticTypeOK'
  BY TypeInductive
<1> QED BY <1>1, <1>2, PTL DEF ElasticSpec

-----------------------------------------------------------------------------
(* The grounds of a check.  A script that will find the agent not running, *)
(* an answer or a poll's result that says so, and the instances that are   *)
(* about to be marked all have their grounds already.  That needs the      *)
(* order of the two steps of the script: once it has found no marker, an   *)
(* agent that is stopped by a SIGTERM is noted as it stops.                *)
GroundsInv ==
  /\ \A i \in marker : ~Running(i)
  /\ \A i \in InGroup :
       /\ script[i] = "sent" /\ ~Running(i) /\ i \notin marker => i \in grounds
       /\ script[i] = "tested" /\ ~Running(i) => i \in grounds
  /\ \A i \in Instances :
       /\ script[i] \in Down => i \in grounds
       /\ results[i] \in Down => i \in grounds
  /\ pc = "mark" => work \subseteq grounds

(* With no script, no result and nothing to mark only the first part is    *)
(* left.                                                                   *)
LEMMA ClearedGrounds ==
  ASSUME FleetOK', script' = NoScript, results' = NoScript, pc' # "mark",
         \A i \in marker' : ~(agent'[i] \in {"idle", "busy"})
  PROVE  GroundsInv'
<1>1. \A i \in InGroup' : i \in Instances
  BY RangeOfSeq DEF FleetOK, InGroup
<1> QED BY <1>1 DEF GroundsInv, NoScript, Down, Running

LEMMA CheckStepGrounds ==
  ASSUME FleetOK, FleetOK', CheckOK, CheckStep, GroundsInv
  PROVE  GroundsInv'
<1> USE DEF Running
<1>0. /\ \A i \in InGroup : i \in Instances
      /\ work \subseteq Instances
  BY GroupInstances DEF CheckOK
<1>1. ASSUME UNCHANGED << fleet, agent, marker >>, EndCheck PROVE GroundsInv'
  BY <1>1, ClearedGrounds DEF EndCheck, Clear, GroundsInv
<1>2. ASSUME UNCHANGED << fleet, agent, marker >>,
             NEW next, next # "mark", NEW some, ContinueWith(next, some)
      PROVE  GroundsInv'
  <2>1. CASE EndCheck
    BY <1>1, <1>2, <2>1
  <2>2. CASE pc' = next /\ UNCHANGED << script, results, grounds >>
    BY <1>2, <2>2 DEF GroundsInv, InGroup
  <2> QED BY <1>2, <2>1, <2>2 DEF ContinueWith
<1>3. CASE ListGroup \/ DescribeInstances \/ NotFound \/ FilterOnline
  BY <1>2, <1>3 DEF ListGroup, DescribeInstances, NotFound, FilterOnline, fleetVars
<1>4. CASE CheckFails
  BY <1>1, <1>4 DEF CheckFails, fleetVars
<1>5. CASE SendCommand
  <2>1. PICK batch \in SUBSET Unsent : SendTo(batch)
    BY <1>5 DEF SendCommand
  <2>2. UNCHANGED << fleet, agent, marker, results >> /\ pc' # "mark"
    BY <1>5, <2>1 DEF SendCommand, SendTo, fleetVars
  <2>3. grounds \subseteq grounds'
    BY <2>1 DEF SendTo
  <2>4. ASSUME NEW i \in Instances
        PROVE  script'[i] = IF i \in batch THEN "sent" ELSE script[i]
    BY <2>1, <2>4 DEF SendTo
  <2>5. \A i \in batch : ~Running(i) /\ i \notin marker => i \in grounds'
    BY <2>1 DEF SendTo
  <2> QED BY <1>0, <2>2, <2>3, <2>4, <2>5 DEF GroundsInv, Down, InGroup
<1>6. CASE Poll
  <2>1. UNCHANGED << fleet, agent, marker >>
    BY <1>6 DEF Poll, fleetVars
  <2>2. PICK listed \in SUBSET work :
          LET answers == [i \in Instances |->
                            IF i \in listed THEN Status(i) ELSE results[i]]
          IN  \/ Judge(answers)
              \/ /\ results' = answers
                 /\ UNCHANGED << pc, work, script, grounds >>
    BY <1>6 DEF Poll
  <2> DEFINE answers == [i \in Instances |->
                           IF i \in listed THEN Status(i) ELSE results[i]]
  <2>3. \A i \in Instances : answers[i] \in Down => i \in grounds
    BY DEF GroundsInv, Status, Down, Underway
  <2> HIDE DEF answers
  <2>4. CASE results' = answers /\ UNCHANGED << pc, work, script, grounds >>
    BY <2>1, <2>3, <2>4 DEF GroundsInv, InGroup
  <2>5. CASE Judge(answers)
    <3>1. CASE EndCheck
      BY <1>1, <2>1, <3>1
    <3>2. CASE /\ work' = { i \in work : answers[i] \in Down }
               /\ script' = NoScript
               /\ results' = NoScript
               /\ UNCHANGED grounds
      BY <1>0, <2>1, <2>3, <3>2 DEF GroundsInv, InGroup, NoScript, Down
    <3> QED BY <2>5, <3>1, <3>2 DEF Judge
  <2> QED BY <2>2, <2>4, <2>5 DEF answers
<1>7. CASE Mark
  <2>1. UNCHANGED << fleet, agent, marker >>
    BY <1>7 DEF Mark, agentVars
  <2>2. CASE EndCheck
    BY <1>1, <2>1, <2>2
  <2>3. CASE /\ work' \subseteq work
             /\ UNCHANGED << pc, script, results, grounds >>
    BY <2>1, <2>3 DEF GroundsInv, InGroup
  <2> QED BY <1>7, <2>2, <2>3 DEF Mark
<1> QED BY <1>3, <1>4, <1>5, <1>6, <1>7 DEF CheckStep

LEMMA ScriptStepGrounds ==
  ASSUME FleetOK, CheckOK, NEW i \in Instances, ScriptStep(i), GroundsInv
  PROVE  GroundsInv'
<1>1. /\ i \in InGroup
      /\ UNCHANGED << pc, work, results, fleet, agent, marker >>
      /\ grounds \subseteq grounds'
  BY DEF ScriptStep, TestMarker, ReadState, CommandFails, Script, fleetVars
<1>2. \A j \in Instances \ {i} : script'[j] = script[j]
  BY DEF ScriptStep, TestMarker, ReadState, CommandFails, Script, CheckOK
<1>3. \A j \in InGroup : j \in Instances
  BY GroupInstances
<1>4. /\ script'[i] \notin {"sent"}
      /\ script'[i] = "tested" => script[i] = "sent" /\ i \notin marker
      /\ script'[i] \in Down => i \in grounds'
  BY <1>1 DEF ScriptStep, TestMarker, ReadState, CommandFails, Script, CheckOK, Down,
              GroundsInv
<1> QED BY <1>1, <1>2, <1>3, <1>4 DEF GroundsInv, InGroup, Running

(* An instance that is in the group afterwards was there before, or had no *)
(* script; what its agent stops for is noted.                              *)
LEMMA OutsideGrounds ==
  ASSUME FleetOK, FleetOK', NoteDown, GroundsInv,
         UNCHANGED << pc, work, script, results >>,
         \A i \in marker' : ~(agent'[i] \in {"idle", "busy"}),
         \A i \in InGroup' :
           \/ script[i] = "none"
           \/ i \in InGroup /\ (i \in marker => i \in marker')
  PROVE  GroundsInv'
<1>1. grounds \subseteq grounds'
  BY DEF NoteDown
<1>2. \A i \in InGroup' : i \in Instances
  BY RangeOfSeq DEF FleetOK, InGroup
<1>3. \A i \in Instances :
        script[i] \in Underway /\ i \notin marker /\ ~(agent'[i] \in {"idle", "busy"})
          => i \in grounds'
  BY DEF NoteDown
<1>4. \A i \in InGroup' :
        /\ script'[i] = "sent" /\ ~(agent'[i] \in {"idle", "busy"}) /\ i \notin marker'
             => i \in grounds'
        /\ script'[i] = "tested" /\ ~(agent'[i] \in {"idle", "busy"}) => i \in grounds'
  BY <1>1, <1>2, <1>3 DEF GroundsInv, Underway, Running
<1> QED BY <1>1, <1>4 DEF GroundsInv, Running

-----------------------------------------------------------------------------
(* No instance is in the fleet twice.                                      *)
NoTwice ==
  \A a, b \in 1..Len(fleet) : fleet[a] = fleet[b] => a = b

LEMMA GroupIsRange ==
  ASSUME NEW f \in Seq(Instances)
  PROVE  Range(f) = { f[a] : a \in 1..Len(f) }
BY RangeEquality

LEMMA LeaveNoTwice ==
  ASSUME FleetOK, NoTwice, NEW i, Leave(i)
  PROVE  /\ NoTwice'
         /\ InGroup' = InGroup \ {i}
<1>1. fleet \in Seq(Instances) /\ Len(fleet) \in Nat
  BY LenProperties DEF FleetOK
<1>2. PICK k \in DOMAIN fleet : fleet[k] = i /\ fleet' = RemoveAt(fleet, k)
  BY DEF Leave
<1>3. k \in 1..Len(fleet)
  BY <1>1, <1>2, LenProperties
<1>4. /\ fleet' \in Seq(Instances)
      /\ Len(fleet') = Len(fleet) - 1
      /\ \A a \in 1..(Len(fleet) - 1) :
           fleet'[a] = fleet[IF a < k THEN a ELSE a + 1]
  BY <1>1, <1>2, <1>3, RemoveAtFacts
<1>5. NoTwice'
  BY <1>1, <1>3, <1>4 DEF NoTwice
<1>6. ASSUME NEW j \in InGroup' PROVE j \in InGroup \ {i}
  <2>1. PICK a \in 1..(Len(fleet) - 1) : j = fleet'[a]
    BY <1>4, <1>6, GroupIsRange DEF InGroup
  <2> DEFINE b == IF a < k THEN a ELSE a + 1
  <2>2. b \in 1..Len(fleet) /\ b # k /\ j = fleet[b]
    BY <1>1, <1>3, <1>4, <2>1
  <2> QED BY <1>1, <1>2, <1>3, <2>2, GroupIsRange DEF NoTwice, InGroup
<1>7. ASSUME NEW j \in InGroup \ {i} PROVE j \in InGroup'
  <2>1. PICK b \in 1..Len(fleet) : j = fleet[b]
    BY <1>1, <1>7, GroupIsRange DEF InGroup
  <2>2. b # k
    BY <1>2, <1>7, <2>1
  <2>3. PICK a \in 1..(Len(fleet) - 1) : b = IF a < k THEN a ELSE a + 1
    <3>1. CASE b < k
      BY <1>1, <1>3, <3>1
    <3>2. CASE b > k
      <4>1. b - 1 \in 1..(Len(fleet) - 1) /\ ~(b - 1 < k) /\ b = (b - 1) + 1
        BY <1>1, <1>3, <3>2
      <4> QED BY <4>1
    <3> QED BY <1>3, <2>2, <3>1, <3>2
  <2>4. j = fleet'[a]
    BY <1>4, <2>1, <2>3
  <2> QED BY <1>4, <2>3, <2>4, GroupIsRange DEF InGroup
<1> QED BY <1>5, <1>6, <1>7

LEMMA LaunchNoTwice ==
  ASSUME FleetOK, NoTwice, NEW i \in Instances, Launch(i)
  PROVE  /\ NoTwice'
         /\ InGroup' = InGroup \union {i}
         /\ fleet' \in Seq(Instances)
         /\ Len(fleet') = Len(fleet) + 1
         /\ \A a \in 1..Len(fleet) : fleet'[a] = fleet[a]
         /\ fleet'[Len(fleet) + 1] = i
<1>1. fleet \in Seq(Instances) /\ Len(fleet) \in Nat
  BY LenProperties DEF FleetOK
<1>2. /\ fleet' \in Seq(Instances)
      /\ Len(fleet') = Len(fleet) + 1
      /\ \A a \in 1..Len(fleet) : fleet'[a] = fleet[a]
      /\ fleet'[Len(fleet) + 1] = i
  BY <1>1, AppendProperties DEF Launch
<1>3. \A a \in 1..Len(fleet) : fleet[a] # i
  BY <1>1, GroupIsRange DEF Launch, InGroup
<1>4. NoTwice'
  BY <1>1, <1>2, <1>3 DEF NoTwice
<1>5. InGroup' = InGroup \union {i}
  BY <1>1, <1>2, GroupIsRange DEF InGroup
<1> QED BY <1>2, <1>4, <1>5

(* The group after a step of the fleet outside a run.                      *)
LEMMA MemberStepGroup ==
  ASSUME FleetOK, NoTwice, NEW i \in Instances, MemberStep(i)
  PROVE  /\ NoTwice'
         /\ \/ InGroup' = InGroup /\ marker' = marker
            \/ Free(i) /\ InGroup' = InGroup \union {i} /\ marker' = marker
            \/ InGroup' = InGroup \ {i} /\ marker' = marker \ {i}
<1>1. CASE AgentStarts(i) \/ TakeJob(i) \/ FinishJobs(i) \/ AgentCrashes(i)
  BY <1>1 DEF AgentStarts, TakeJob, FinishJobs, AgentCrashes, groupVars, NoTwice,
              InGroup
<1>2. CASE Free(i) /\ Launch(i)
  BY <1>2, LaunchNoTwice DEF Launch, agentVars
<1>3. CASE Leave(i)
  BY <1>3, LeaveNoTwice DEF Leave
<1> QED BY <1>1, <1>2, <1>3 DEF MemberStep, ReplaceUnhealthy, Shrink, SelfTerminate

LEMMA MemberStepAgents ==
  ASSUME FleetOK, NEW i \in Instances, MemberStep(i),
         \A j \in marker : ~Running(j)
  PROVE  \A j \in marker' : ~(agent'[j] \in {"idle", "busy"})
<1> USE DEF FleetOK, Running
<1>1. CASE AgentStarts(i) \/ TakeJob(i) \/ FinishJobs(i) \/ AgentCrashes(i)
  BY <1>1 DEF AgentStarts, TakeJob, FinishJobs, AgentCrashes, Becomes, HasJobs
<1>2. CASE Free(i) /\ Launch(i)
  BY <1>2 DEF Launch, agentVars
<1>3. CASE Leave(i)
  BY <1>3 DEF Leave
<1> QED BY <1>1, <1>2, <1>3 DEF MemberStep, ReplaceUnhealthy, Shrink, SelfTerminate

(* What MarkedOnGrounds rests on.                                          *)
GroundsIInv == ElasticTypeOK /\ NoTwice /\ GroundsInv

LEMMA GroundsInductive ==
  ASSUME GroundsIInv, [ElasticNext]_elasticVars
  PROVE  NoTwice' /\ GroundsInv'
<1> USE DEF GroundsIInv, ElasticTypeOK
<1>0. ElasticTypeOK'
  BY TypeInductive
<1>1. CASE UNCHANGED elasticVars
  BY <1>1 DEF elasticVars, fleetVars, checkVars, GroundsInv, NoTwice, InGroup, Running
<1>2. CASE CheckStep
  <2>1. fleet' = fleet
    BY <1>2 DEF CheckStep, ListGroup, DescribeInstances, NotFound, FilterOnline,
                SendCommand, CheckFails, Poll, Mark, fleetVars
  <2> QED BY <1>0, <1>2, <2>1, CheckStepGrounds DEF NoTwice
<1>3. ASSUME NEW i \in Instances, ScriptStep(i) PROVE NoTwice' /\ GroundsInv'
  <2>1. fleet' = fleet
    BY <1>3 DEF ScriptStep, TestMarker, ReadState, CommandFails, Script, fleetVars
  <2> QED BY <1>3, <2>1, ScriptStepGrounds DEF NoTwice
<1>4. ASSUME UNCHANGED << fleet, agent, marker >>,
             \/ EndRun
             \/ pc' # "mark" /\ UNCHANGED << script, results, grounds >>
      PROVE  NoTwice' /\ GroundsInv'
  BY <1>0, <1>4, ClearedGrounds
     DEF EndRun, Clear, GroundsInv, NoTwice, InGroup, Running
<1>5. CASE Decide
  BY <1>4, <1>5 DEF Decide, CheckAgain, ScaleIn, SetTo, fleetVars
<1>6. CASE ChooseOldest \/ ChooseUnsorted \/ Signal \/ NextRun \/ Kill
  BY <1>4, <1>6 DEF ChooseOldest, ChooseUnsorted, Signal, NextRun, Kill, fleetVars
<1>7. CASE SetDesiredCapacity
  BY <1>4, <1>7 DEF SetDesiredCapacity, agentVars
<1>8. CASE TerminateLone
  <2>1. CASE UNCHANGED fleetVars
    BY <1>4, <1>8, <2>1 DEF TerminateLone, fleetVars
  <2>2. ASSUME NEW i, Leave(i) PROVE NoTwice' /\ GroundsInv'
    <3>1. \A j \in marker' : ~(agent'[j] \in {"idle", "busy"})
      BY <2>2 DEF Leave, GroundsInv, FleetOK, Running
    <3> QED BY <1>0, <1>8, <2>2, <3>1, LeaveNoTwice, ClearedGrounds
            DEF TerminateLone, EndRun, Clear
  <2> QED BY <1>8, <2>1, <2>2 DEF TerminateLone
<1>9. ASSUME NEW i \in Instances, FleetStep(i) PROVE NoTwice' /\ GroundsInv'
  <2>1. MemberStep(i) /\ NoteDown /\ UNCHANGED << pc, work, script, results >>
    BY <1>9 DEF FleetStep, Outside
  <2>2. \A j \in marker' : ~(agent'[j] \in {"idle", "busy"})
    BY <2>1, MemberStepAgents DEF GroundsInv
  <2>3. \A j \in InGroup' :
          \/ script[j] = "none"
          \/ j \in InGroup /\ (j \in marker => j \in marker')
    BY <2>1, MemberStepGroup DEF Free
  <2> QED BY <1>0, <2>1, <2>2, <2>3, MemberStepGroup, OutsideGrounds
<1>10. ASSUME NEW i \in Instances, Outside(RunSIGTERM(i)) PROVE NoTwice' /\ GroundsInv'
  <2>1. /\ RunSIGTERM(i) /\ NoteDown /\ UNCHANGED << pc, work, script, results >>
        /\ fleet' = fleet /\ marker' = marker \union {i}
    BY <1>10 DEF Outside, RunSIGTERM, groupVars
  <2>2. \A j \in marker' : ~(agent'[j] \in {"idle", "busy"})
    BY <2>1 DEF RunSIGTERM, StopAgent, Becomes, GroundsInv, Running, HasJobs, FleetOK
  <2> QED BY <1>0, <2>1, <2>2, OutsideGrounds DEF NoTwice, InGroup
<1>11. CASE Outside(ReachUptime) /\ UNCHANGED waveVars
  <2>1. /\ NoteDown /\ UNCHANGED << pc, work, script, results, fleet, agent, marker >>
    BY <1>11 DEF Outside, ReachUptime, agentVars
  <2> QED BY <1>0, <2>1, OutsideGrounds DEF GroundsInv, NoTwice, InGroup, Running
<1> QED BY <1>1, <1>2, <1>3, <1>5, <1>6, <1>7, <1>8, <1>9, <1>10, <1>11
        DEF ElasticNext

LEMMA GroundsInvariant == ElasticSpec => []GroundsIInv
<1>1. ElasticInit => GroundsIInv
  <2> SUFFICES ASSUME ElasticInit PROVE NoTwice /\ GroundsInv
    BY ElasticTypeInit DEF GroundsIInv
  <2>1. fleet = << >> /\ InGroup = {}
    BY DEF ElasticInit, FleetInit, InGroup, Range
  <2> QED BY <2>1 DEF ElasticInit, FleetInit, CheckInit, NoTwice, GroundsInv, NoScript,
                      Down
<1>2. GroundsIInv /\ [ElasticNext]_elasticVars => GroundsIInv'
  BY TypeInductive, GroundsInductive DEF GroundsIInv
<1> QED BY <1>1, <1>2, PTL DEF ElasticSpec

(* A check marks an instance only on grounds that arose after its command  *)
(* was sent, whatever the agents, the group, late or missing answers and   *)
(* SIGTERMs do while it runs.                                              *)
THEOREM MarkedOnGroundsCorrect == ElasticSpec => MarkedOnGrounds
<1>1. GroundsIInv /\ [ElasticNext]_elasticVars
        => [\A i \in unhealthy' \ unhealthy : i \in grounds]_elasticVars
  <2> SUFFICES ASSUME GroundsIInv, ElasticNext, NEW i \in unhealthy' \ unhealthy
               PROVE  i \in grounds
    OBVIOUS
  <2>1. Mark
    <3>1. ASSUME NEW j, Leave(j) PROVE unhealthy' \subseteq unhealthy
      BY <3>1 DEF Leave
    <3>2. ASSUME NEW j \in Instances, MemberStep(j) PROVE unhealthy' \subseteq unhealthy
      BY <3>1, <3>2 DEF MemberStep, AgentStarts, TakeJob, FinishJobs, AgentCrashes,
                        Launch, ReplaceUnhealthy, Shrink, SelfTerminate, groupVars
    <3>3. CASE CheckStep
      BY <3>3 DEF CheckStep, ListGroup, DescribeInstances, NotFound, FilterOnline,
                  SendCommand, CheckFails, Poll, fleetVars
    <3>4. CASE TerminateLone
      BY <3>1, <3>4 DEF TerminateLone, fleetVars
    <3>5. CASE \E j \in Instances : FleetStep(j)
      BY <3>2, <3>5 DEF FleetStep, Outside
    <3>6. CASE \E j \in Instances : ScriptStep(j) \/ Outside(RunSIGTERM(j))
      BY <3>6 DEF ScriptStep, TestMarker, ReadState, CommandFails, Script, Outside,
                  RunSIGTERM, fleetVars, groupVars
    <3>7. CASE Outside(ReachUptime)
      BY <3>7 DEF Outside, ReachUptime
    <3>8. CASE \/ Decide \/ ChooseOldest \/ ChooseUnsorted \/ Signal
               \/ SetDesiredCapacity \/ NextRun \/ Kill
      BY <3>8 DEF Decide, ChooseOldest, ChooseUnsorted, Signal, SetDesiredCapacity,
                  NextRun, Kill, fleetVars
    <3> QED BY <3>3, <3>4, <3>5, <3>6, <3>7, <3>8 DEF ElasticNext
  <2>2. i \in work
    BY <2>1 DEF Mark
  <2> QED BY <2>1, <2>2 DEF Mark, GroundsIInv, GroundsInv
<1> QED BY <1>1, GroundsInvariant, PTL DEF ElasticSpec, MarkedOnGrounds

=============================================================================
