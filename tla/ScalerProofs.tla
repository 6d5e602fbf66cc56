----------------------------- MODULE ScalerProofs -----------------------------
(***************************************************************************)
(* Scaler for every set of scalers, every configuration, every demand and  *)
(* every size of the group: its types, the bounds of its requests, the     *)
(* pacing of its SIGTERMs, and for one scaler that of its capacity.        *)
(***************************************************************************)
EXTENDS Scaler, ScalingRulesProofs

-----------------------------------------------------------------------------
(* Facts the proofs share.                                                 *)

LEMMA ConstantFacts ==
  /\ Configs \subseteq Params
  /\ \A c \in Configs : c.inCooldown <= AgeCap /\ c.outCooldown <= AgeCap
  /\ Demand \subseteq AgentMetrics
  /\ MinSize \in Nat /\ MaxSize \in Nat /\ MinSize <= MaxSize
  /\ AgeCap \in Nat /\ AgeCap > 0
  /\ StaleAfter \in Nat
BY ScalerAssumption

LEMMA OlderType ==
  ASSUME NEW age \in AgeOrNever
  PROVE  /\ Older(age) \in AgeOrNever
         /\ Older(age) = Never <=> age = Never
         /\ Older(age) >= age
         /\ \A b \in AgeOrNever :
              (b # Never /\ b <= age) => Older(b) <= Older(age)
         /\ \A c \in Nat : (age >= c /\ c <= AgeCap) => Older(age) >= c
BY ConstantFacts DEF AgeOrNever, Ages, Older, Never, Least

LEMMA DetailsType ==
  ASSUME TypeOK
  PROVE  /\ Details \in AutoscaleGroupDetails
         /\ Details.desired = asg.desired
         /\ Details.min = MinSize /\ Details.max = MaxSize
         /\ Details.desired \in Details.min .. Details.max
BY ConstantFacts DEF TypeOK, Group, Details, AutoscaleGroupDetails

(* What a decision hands to the rest of its run.                           *)
Decided(s, step, r) ==
  /\ r.from = asg.desired
  /\ r.kind \in {"out", "in", "graceful"}
  /\ r.kind = "out" => /\ step = "request"
                       /\ r.target > r.from
                       /\ r.target \in MinSize..MaxSize
  /\ r.kind # "out" => /\ lastIn[s] = Never \/ lastIn[s] >= p.inCooldown
                       /\ ~(p.disableIn /\ ~p.elastic)
                       /\ p.inFactor <= Unit =>
                            r.target \in MinSize..MaxSize
  /\ r.kind = "graceful" => step = "history"

LEMMA NotCoolingDown ==
  ASSUME NEW q \in Params, NEW own \in AgeOrNever, NEW other \in AgeOrNever,
         ~ScaleInBlocked(q, own, other)
  PROVE  /\ own = Never \/ own >= q.inCooldown
         /\ ~(q.disableIn /\ ~q.elastic)
<1>1. q.inCooldown \in Nat
  BY DEF Params
<1> QED
  BY <1>1, ConstantFacts
  DEF ScaleInBlocked, CoolingDown, Least, AgeOrNever, Ages, Never

LEMMA DecideCases ==
  ASSUME TypeOK, NEW s \in Scalers, Decide(s)
  PROVE  \/ EndRun(s)
         \/ \E step \in {"history", "request", "check"}, r \in Request :
              /\ pc' = [pc EXCEPT ![s] = step]
              /\ req' = [req EXCEPT ![s] = r]
              /\ ForgetMetrics(s)
              /\ step # "check" => Decided(s, step, r)
<1> DEFINE a == Details
           t == Target(p, metrics[s], a, Stale(s))
           in == ScaleInTarget(p, a, t)
           out == ScaleOutTarget(p, a, t)
           Rec(kind, target) == [kind |-> kind, target |-> target,
                                 from |-> a.desired, ids |-> a.ids]
<1>1. p \in Params /\ metrics[s] \in AgentMetrics /\ Stale(s) \in BOOLEAN
  BY ConstantFacts DEF TypeOK, Stale
<1>2. /\ a \in AutoscaleGroupDetails
      /\ a.desired \in a.min .. a.max
      /\ a.desired = asg.desired /\ a.min = MinSize /\ a.max = MaxSize
      /\ a.ids \in Nat /\ a.desired \in Nat
      /\ a.min <= a.desired /\ a.min <= a.max
  BY DetailsType, ConstantFacts DEF AutoscaleGroupDetails
<1> HIDE DEF a
<1>3. t \in a.min .. a.max
  BY <1>1, <1>2, TargetWithinBounds
<1>4. lastIn[s] \in AgeOrNever /\ lastOut[s] \in AgeOrNever
  BY DEF TypeOK
<1>5. CASE /\ WantsOut(a, t) /\ ~ScaleOutBlocked(p, lastOut[s], lastIn[s])
           /\ pc' = [pc EXCEPT ![s] = "request"]
           /\ req' = [req EXCEPT ![s] = Rec("out", out)]
           /\ ForgetMetrics(s)
  <2>1. t > a.desired
    BY <1>5 DEF WantsOut
  <2> HIDE DEF t
  <2>2. out \in a.min .. a.max /\ out > a.desired
    BY <1>1, <1>2, <1>3, <2>1, ScaleOutTargetFacts
  <2>3. Rec("out", out) \in Request /\ Decided(s, "request", Rec("out", out))
    <3> HIDE DEF out
    <3> QED
      BY <1>2, <2>2, ConstantFacts DEF Request, Decided
  <2> QED
    BY <1>5, <2>3
<1>6. CASE /\ WantsIn(p, a, t) /\ ~ScaleInBlocked(p, lastIn[s], lastOut[s])
           /\ pc' = [pc EXCEPT ![s] = IF p.elastic THEN "history"
                                                   ELSE "request"]
           /\ req' = [req EXCEPT ![s] =
                        Rec(IF Graceful(p, a, in) THEN "graceful" ELSE "in", in)]
           /\ ForgetMetrics(s)
  <2> DEFINE step == IF p.elastic THEN "history" ELSE "request"
             kind == IF Graceful(p, a, in) THEN "graceful" ELSE "in"
  <2>1. /\ in \in Nat
        /\ p.inFactor <= Unit => in \in a.min .. a.max
    <3> HIDE DEF t
    <3> QED
      BY <1>1, <1>2, <1>3, ScaleInTargetFacts
  <2>2. /\ lastIn[s] = Never \/ lastIn[s] >= p.inCooldown
        /\ ~(p.disableIn /\ ~p.elastic)
    BY <1>1, <1>4, <1>6, NotCoolingDown
  <2>3. kind = "graceful" => step = "history"
    BY DEF Graceful
  <2>4. kind \in {"in", "graceful"} /\ step \in {"history", "request", "check"}
    OBVIOUS
  <2> HIDE DEF in, step, kind
  <2>5. Rec(kind, in) \in Request /\ Decided(s, step, Rec(kind, in))
    BY <1>2, <2>1, <2>2, <2>3, <2>4 DEF Request, Decided
  <2>6. /\ pc' = [pc EXCEPT ![s] = step]
        /\ req' = [req EXCEPT ![s] = Rec(kind, in)]
    BY <1>6 DEF step, kind, in
  <2> QED
    BY <1>6, <2>4, <2>5, <2>6
<1>7. CASE /\ pc' = [pc EXCEPT ![s] = "check"]
           /\ req' = [req EXCEPT ![s] = Rec("none", 0)]
           /\ ForgetMetrics(s)
  <2>1. Rec("none", 0) \in Request
    BY <1>2 DEF Request
  <2> QED
    BY <1>7, <2>1
<1>8. CASE EndRun(s)
  BY <1>8
<1> QED
  BY <1>5, <1>6, <1>7, <1>8 DEF Decide, a

-----------------------------------------------------------------------------
(* Type correctness.                                                       *)

LEMMA EndRunType ==
  ASSUME TypeOK, NEW s \in Scalers, EndRun(s)
  PROVE  /\ pc' \in [Scalers -> Steps]
         /\ metrics' \in [Scalers -> AgentMetrics]
         /\ polled' \in [Scalers -> AgeOrNever]
         /\ req' \in [Scalers -> Request]
<1>1. NoMetrics \in AgentMetrics
  BY DEF NoMetrics, AgentMetrics
<1>2. NoRequest \in Request
  BY DEF NoRequest, Request
<1>3. Never \in AgeOrNever /\ "start" \in Steps
  BY DEF AgeOrNever, Steps
<1> QED
  BY <1>1, <1>2, <1>3 DEF TypeOK, EndRun, ForgetMetrics

LEMMA MarkUnhealthyType ==
  ASSUME TypeOK, MarkUnhealthy
  PROVE  asg' \in Group /\ asg'.desired = asg.desired
<1>1. p.maxDangling \in Nat
  BY ConstantFacts DEF TypeOK, Params
<1>2. Examined \in Nat /\ Examined <= asg.inService
  BY <1>1 DEF Examined, Least, TypeOK, Group
<1>3. PICK k \in 0..Examined :
        asg' = [asg EXCEPT !.inService = @ - k, !.leaving = @ + k]
  BY DEF MarkUnhealthy
<1>4. asg.inService - k \in Nat /\ asg.leaving + k \in Nat
  BY <1>2 DEF TypeOK, Group
<1> QED
  BY <1>3, <1>4 DEF TypeOK, Group

LEMMA GroupStepType ==
  ASSUME TypeOK, GroupStep
  PROVE  asg' \in Group /\ asg'.desired = asg.desired
<1>1. asg \in Group
  BY DEF TypeOK
<1>2. /\ asg.pending + 1 \in Nat /\ asg.inService + 1 \in Nat
      /\ asg.leaving + 1 \in Nat
      /\ asg.pending > 0 => asg.pending - 1 \in Nat
      /\ asg.inService > 0 => asg.inService - 1 \in Nat
      /\ asg.leaving > 0 => asg.leaving - 1 \in Nat
  BY <1>1 DEF Group
<1>3. CASE Launch \/ CancelPending \/ Gone
  BY <1>1, <1>2, <1>3 DEF Launch, CancelPending, Gone, Group
<1>4. CASE BecomeInService
  BY <1>1, <1>2, <1>4 DEF BecomeInService, Group
<1>5. CASE Shrink \/ InstanceFails
  BY <1>1, <1>2, <1>5 DEF Shrink, InstanceFails, Group
<1> QED
  BY <1>3, <1>4, <1>5 DEF GroupStep

LEMMA TypeInit == Init => TypeOK
<1> SUFFICES ASSUME Init PROVE TypeOK
  OBVIOUS
<1>1. NoMetrics \in AgentMetrics
  BY DEF NoMetrics, AgentMetrics
<1>2. NoRequest \in Request
  BY DEF NoRequest, Request
<1> QED
  BY <1>1, <1>2, ConstantFacts
  DEF Init, TypeOK, Group, AgeOrNever, Steps

LEMMA TypeStep == TypeOK /\ [Next]_vars => TypeOK'
<1> SUFFICES ASSUME TypeOK, [Next]_vars PROVE TypeOK'
  OBVIOUS
<1> USE DEF eventVars, historyVars, runVars
<1>1. ASSUME NEW s \in Scalers, BeginRun(s) PROVE TypeOK'
  <2>1. asg' \in Group
    BY <1>1, MarkUnhealthyType DEF BeginRun, TypeOK
  <2> QED
    BY <1>1, <2>1 DEF BeginRun, TypeOK, Steps
<1>2. ASSUME NEW s \in Scalers, PollMetrics(s) PROVE TypeOK'
  <2>1. metrics' \in [Scalers -> AgentMetrics]
    BY <1>2, ConstantFacts DEF PollMetrics, TypeOK
  <2>2. 0 \in AgeOrNever
    BY ConstantFacts DEF AgeOrNever, Ages
  <2> QED
    BY <1>2, <2>1, <2>2 DEF PollMetrics, TypeOK, Steps
<1>3. ASSUME NEW s \in Scalers, AbortRun(s) PROVE TypeOK'
  BY <1>3, EndRunType DEF AbortRun, TypeOK
<1>4. ASSUME NEW s \in Scalers, Describe(s) PROVE TypeOK'
  <2>1. /\ pc' \in [Scalers -> Steps]
        /\ metrics' \in [Scalers -> AgentMetrics]
        /\ polled' \in [Scalers -> AgeOrNever]
        /\ req' \in [Scalers -> Request]
    <3>1. CASE EndRun(s)
      BY <3>1, EndRunType
    <3>2. CASE \E step \in {"history", "request", "check"}, r \in Request :
                 /\ pc' = [pc EXCEPT ![s] = step]
                 /\ req' = [req EXCEPT ![s] = r]
                 /\ ForgetMetrics(s)
      <4>1. NoMetrics \in AgentMetrics
        BY DEF NoMetrics, AgentMetrics
      <4>2. Never \in AgeOrNever
        BY DEF AgeOrNever
      <4> QED
        BY <3>2, <4>1, <4>2 DEF TypeOK, ForgetMetrics, Steps
    <3> QED
      BY <1>4, <3>1, <3>2, DecideCases DEF Describe
  <2> QED
    BY <1>4, <2>1 DEF Describe, TypeOK
<1>5. ASSUME NEW s \in Scalers, CheckDangling(s) PROVE TypeOK'
  BY <1>5, EndRunType, MarkUnhealthyType DEF CheckDangling, TypeOK
<1>6. ASSUME NEW s \in Scalers, HistoryBlocks(s) PROVE TypeOK'
  BY <1>6, EndRunType DEF HistoryBlocks, TypeOK
<1>7. ASSUME NEW s \in Scalers, HistoryAllows(s) PROVE TypeOK'
  BY <1>7 DEF HistoryAllows, TypeOK, Steps
<1>8. ASSUME NEW s \in Scalers, SendSIGTERMs(s) PROVE TypeOK'
  <2>1. 0 \in AgeOrNever
    BY ConstantFacts DEF AgeOrNever, Ages
  <2> QED
    BY <1>8, <2>1 DEF SendSIGTERMs, TypeOK, Steps
<1>9. ASSUME NEW s \in Scalers, SetDesiredCapacity(s) PROVE TypeOK'
  <2>1. asg' \in Group
    BY <1>9 DEF SetDesiredCapacity, Accepted, TypeOK, Group
  <2>2. sinceLowered' \in AgeOrNever /\ changedBy' \in {"scaler", "instance"}
    <3>1. 0 \in AgeOrNever
      BY ConstantFacts DEF AgeOrNever, Ages
    <3> QED
      BY <1>9, <3>1 DEF SetDesiredCapacity, TypeOK
  <2>3. /\ pc' \in [Scalers -> Steps]
        /\ metrics' \in [Scalers -> AgentMetrics]
        /\ polled' \in [Scalers -> AgeOrNever]
        /\ req' \in [Scalers -> Request]
    BY <1>9, EndRunType DEF SetDesiredCapacity, TypeOK, Steps
  <2> QED
    BY <1>9, <2>1, <2>2, <2>3 DEF SetDesiredCapacity, TypeOK
<1>10. ASSUME NEW s \in Scalers, Record(s) PROVE TypeOK'
  <2>1. 0 \in AgeOrNever
    BY ConstantFacts DEF AgeOrNever, Ages
  <2>2. asg' \in Group
    <3>1. asg \in Group
      BY DEF TypeOK
    <3>2. /\ asg.leaving + 1 \in Nat
          /\ asg.pending > 0 => asg.pending - 1 \in Nat
          /\ asg.inService > 0 => asg.inService - 1 \in Nat
      BY <3>1 DEF Group
    <3> QED
      BY <1>10, <3>1, <3>2 DEF Record, TerminateSingle, Group
  <2>3. lastIn' \in [Scalers -> AgeOrNever] /\ lastOut' \in [Scalers -> AgeOrNever]
    BY <1>10, <2>1 DEF Record, TypeOK
  <2> QED
    BY <1>10, <2>2, <2>3, EndRunType DEF Record, TypeOK
<1>11. CASE GroupStep
  BY <1>11, GroupStepType DEF GroupStep, TypeOK
<1>12. CASE SelfTerminate
  <2>1. asg' \in Group
    <3>1. asg \in Group
      BY DEF TypeOK
    <3>2. /\ asg.leaving + 1 \in Nat /\ asg.inService > 0
          /\ asg.inService - 1 \in Nat
          /\ asg.desired - 1 \in MinSize..MaxSize
      BY <1>12, <3>1, ConstantFacts DEF SelfTerminate, Group
    <3> QED
      BY <1>12, <3>1, <3>2 DEF SelfTerminate, Group
  <2> QED
    BY <1>12, <2>1 DEF SelfTerminate, TypeOK
<1>13. CASE Tick
  BY <1>13, OlderType DEF Tick, TypeOK
<1>14. CASE UNCHANGED vars
  BY <1>14 DEF vars, TypeOK
<1> QED
  BY <1>1, <1>2, <1>3, <1>4, <1>5, <1>6, <1>7, <1>8, <1>9, <1>10, <1>11,
     <1>12, <1>13, <1>14 DEF Next, ScalerStep

(* Every reachable state is well typed; in particular the desired capacity *)
(* never leaves the group's limits and no instance count becomes negative. *)
THEOREM TypeCorrect == Spec => []TypeOK
BY TypeInit, TypeStep, PTL DEF Spec

-----------------------------------------------------------------------------
(* The bounds of requests, for any number of scalers.                      *)

(* A request appears only by a decision and is kept until it is carried    *)
(* out; a step of one scaler touches no other scaler's run.                *)
LEMMA ScalerStepCases ==
  ASSUME TypeOK, NEW s \in Scalers, ScalerStep(s)
  PROVE  /\ p' = p
         /\ \A t \in Scalers \ {s} : pc'[t] = pc[t] /\ req'[t] = req[t]
         /\ \/ ~Requesting(s)'
            \/ /\ pc[s] = "describe" /\ pc'[s] \in {"history", "request"}
               /\ Decided(s, pc'[s], req'[s])
            \/ Requesting(s) /\ req'[s] = req[s]
<1> USE DEF TypeOK, Requesting
<1>1. CASE BeginRun(s) \/ PollMetrics(s)
  BY <1>1 DEF BeginRun, PollMetrics
<1>2. CASE AbortRun(s) \/ CheckDangling(s) \/ HistoryBlocks(s) \/ Record(s)
  BY <1>2 DEF AbortRun, CheckDangling, HistoryBlocks, Record, EndRun
<1>3. CASE Describe(s)
  <2>1. pc[s] = "describe" /\ p' = p
    BY <1>3 DEF Describe
  <2>2. CASE EndRun(s)
    BY <2>1, <2>2 DEF EndRun
  <2>3. CASE \E step \in {"history", "request", "check"}, r \in Request :
               /\ pc' = [pc EXCEPT ![s] = step]
               /\ req' = [req EXCEPT ![s] = r]
               /\ ForgetMetrics(s)
               /\ step # "check" => Decided(s, step, r)
    <3>1. PICK step \in {"history", "request", "check"}, r \in Request :
               /\ pc' = [pc EXCEPT ![s] = step]
               /\ req' = [req EXCEPT ![s] = r]
               /\ step # "check" => Decided(s, step, r)
      BY <2>3
    <3>2. pc'[s] = step /\ req'[s] = r
      BY <3>1
    <3>3. \A t \in Scalers \ {s} : pc'[t] = pc[t] /\ req'[t] = req[t]
      BY <3>1
    <3>4. CASE step = "check"
      BY <2>1, <3>2, <3>3, <3>4
    <3>5. CASE step # "check"
      <4>1. Decided(s, pc'[s], req'[s])
        BY <3>1, <3>2, <3>5
      <4> QED
        BY <2>1, <3>2, <3>3, <3>5, <4>1
    <3> QED
      BY <3>4, <3>5
  <2> QED
    BY <1>3, <2>2, <2>3, DecideCases DEF Describe
<1>4. CASE HistoryAllows(s) \/ SendSIGTERMs(s)
  BY <1>4 DEF HistoryAllows, SendSIGTERMs
<1>5. CASE SetDesiredCapacity(s)
  BY <1>5 DEF SetDesiredCapacity, EndRun
<1> QED
  BY <1>1, <1>2, <1>3, <1>4, <1>5 DEF ScalerStep

LEMMA OtherSteps ==
  ASSUME GroupStep \/ SelfTerminate \/ Tick \/ UNCHANGED vars
  PROVE  p' = p /\ pc' = pc /\ req' = req
BY DEF GroupStep, SelfTerminate, Tick, vars, runVars

LEMMA BoundsStep ==
  TypeOK /\ RequestsWithinBounds /\ [Next]_vars => RequestsWithinBounds'
<1> SUFFICES ASSUME TypeOK, RequestsWithinBounds, [Next]_vars,
                    NEW t \in Scalers, Requesting(t)', p'.inFactor <= Unit
             PROVE  req'[t].target \in MinSize..MaxSize
  BY DEF RequestsWithinBounds
<1>1. ASSUME NEW s \in Scalers, ScalerStep(s)
      PROVE  req'[t].target \in MinSize..MaxSize
  <2>1. p' = p
    BY <1>1, ScalerStepCases
  <2>2. CASE t # s
    BY <1>1, <2>1, <2>2, ScalerStepCases DEF RequestsWithinBounds, Requesting
  <2>3. CASE t = s
    <3>1. CASE Decided(s, pc'[s], req'[s])
      BY <2>1, <2>3, <3>1 DEF Decided
    <3>2. CASE Requesting(s) /\ req'[s] = req[s]
      BY <2>1, <2>3, <3>2 DEF RequestsWithinBounds
    <3> QED
      BY <1>1, <2>3, <3>1, <3>2, ScalerStepCases
  <2> QED
    BY <2>2, <2>3
<1>2. CASE GroupStep \/ SelfTerminate \/ Tick \/ UNCHANGED vars
  BY <1>2, OtherSteps DEF RequestsWithinBounds, Requesting
<1> QED
  BY <1>1, <1>2 DEF Next

(* However many scalers share the group and however old their snapshots    *)
(* are, none asks for a capacity outside the group's limits, as long as    *)
(* SCALE_IN_FACTOR is at most 1.                                           *)
THEOREM BoundsCorrect == Spec => []RequestsWithinBounds
<1>1. Init => RequestsWithinBounds
  BY DEF Init, RequestsWithinBounds, Requesting
<1> QED
  BY <1>1, BoundsStep, TypeCorrect, PTL DEF Spec

-----------------------------------------------------------------------------
(* Stale metrics, for any number of scalers.                               *)

NoBuffer == \A c \in Configs : c.elastic => c.instanceBuffer = 0

LEMMA StaleTarget ==
  ASSUME NEW q \in Params, q.elastic, q.instanceBuffer = 0,
         NEW m \in AgentMetrics, NEW a \in AutoscaleGroupDetails,
         a.desired \in a.min .. a.max
  PROVE  /\ Target(q, m, a, TRUE) = a.desired
         /\ ScaleInTarget(q, a, a.desired) = a.desired
<1>1. /\ a.desired \in Nat /\ a.min \in Nat /\ a.max \in Nat
      /\ a.min <= a.desired /\ a.desired <= a.max
      /\ q.inFactor \in Nat /\ Unit \in Nat \ {0}
  BY UnitAssumption DEF AutoscaleGroupDetails, Params
<1>2. DesiredCount(q, m, a, TRUE) = a.desired
  BY DEF DesiredCount
<1>3. Buffer(q, m) = 0
  <2> DEFINE jobs == m.scheduled + m.running
                       + (IF q.includeWaiting THEN m.waiting ELSE 0)
             proportional == IF q.agentsPerInstance <= 0
                             THEN jobs
                             ELSE CeilDiv(jobs, q.agentsPerInstance)
  <2>1. jobs \in Nat
    BY DEF AgentMetrics
  <2>2. proportional \in Nat
    <3>1. ~(q.agentsPerInstance <= 0) => q.agentsPerInstance \in Nat \ {0}
      BY DEF Params
    <3> HIDE DEF jobs
    <3> QED
      BY <2>1, <3>1, CeilNat
  <2> HIDE DEF proportional
  <2>3. Capped(q, proportional) \in Nat
    BY <2>2 DEF Capped, Least, Params
  <2>4. Least(Capped(q, proportional), q.instanceBuffer) = 0
    BY <2>3 DEF Least
  <2> QED
    BY <2>4 DEF Buffer, proportional
<1>4. Target(q, m, a, TRUE) = a.desired
  <2>1. a.desired + 0 = a.desired
    BY <1>1
  <2>2. Least(a.desired, a.max) = a.desired
    BY <1>1 DEF Least
  <2>3. Greatest(a.desired, a.min) = a.desired
    BY <1>1 DEF Greatest
  <2> QED
    BY <1>2, <1>3, <2>1, <2>2, <2>3, Zenon DEF Target
<1>5. ScaleInTarget(q, a, a.desired) = a.desired
  <2>1. (0 * q.inFactor) \div Unit = 0
    <3>1. 0 * q.inFactor = 0
      BY <1>1
    <3>2. 0 \div Unit \in Int /\ Unit * (0 \div Unit) <= 0
          /\ 0 < Unit * (0 \div Unit) + Unit
      BY <1>1, DivFacts
    <3> DEFINE d == 0 \div Unit
    <3>3. d \in Int /\ Unit * d <= 0 /\ 0 < Unit * d + Unit
      BY <3>2
    <3> HIDE DEF d
    <3>4. d = 0
      BY <1>1, <3>3
    <3> QED
      BY <3>1, <3>4 DEF d
  <2>2. a.desired - a.desired = 0 /\ a.desired + 0 = a.desired
    BY <1>1
  <2>3. Greatest(a.desired, a.min) = a.desired
        /\ Greatest(a.desired, 0) = a.desired
    BY <1>1 DEF Greatest
  <2> QED
    BY <2>1, <2>2, <2>3, Zenon DEF ScaleInTarget
<1> QED
  BY <1>4, <1>5

(* What a decision on metrics that are too old asks for, if anything.      *)
LEMMA StaleDecision ==
  ASSUME NoBuffer, TypeOK, NEW s \in Scalers, p.elastic, Stale(s), Decide(s),
         pc'[s] \in {"history", "request"}
  PROVE  req'[s].target = asg.desired
<1> DEFINE a == Details
           t == Target(p, metrics[s], a, Stale(s))
<1>1. /\ p \in Params /\ p.instanceBuffer = 0 /\ metrics[s] \in AgentMetrics
      /\ a \in AutoscaleGroupDetails /\ a.desired \in a.min .. a.max
      /\ a.desired = asg.desired /\ Stale(s) = TRUE
  BY DetailsType, ConstantFacts DEF NoBuffer, TypeOK, Stale
<1>2. /\ Target(p, metrics[s], a, TRUE) = a.desired
      /\ ScaleInTarget(p, a, a.desired) = a.desired
  <2> HIDE DEF a
  <2> QED
    BY <1>1, StaleTarget
<1>3. t = a.desired /\ ScaleInTarget(p, a, t) = a.desired
  BY <1>1, <1>2
<1>4. ~WantsOut(a, t)
  <2>1. a.desired \in Nat /\ t = a.desired
    BY <1>1, <1>3 DEF AutoscaleGroupDetails
  <2> HIDE DEF a, t
  <2> QED
    BY <2>1 DEF WantsOut
<1>5. DOMAIN pc = Scalers /\ DOMAIN req = Scalers
  BY DEF TypeOK
<1>6. CASE \E kind \in {"in", "graceful"} :
             req' = [req EXCEPT ![s] =
                       [kind |-> kind, target |-> ScaleInTarget(p, a, t),
                        from |-> a.desired, ids |-> a.ids]]
  BY <1>1, <1>3, <1>5, <1>6
<1>7. CASE pc' = [pc EXCEPT ![s] = "check"] \/ EndRun(s)
  BY <1>5, <1>7 DEF EndRun
<1> QED
  BY <1>4, <1>6, <1>7 DEF Decide

(* A request appears by the decision of its own scaler only.               *)
LEMMA RequestIsDecided ==
  ASSUME TypeOK, Next, NEW s \in Scalers, Requests(s)
  PROVE  Decide(s) /\ pc'[s] \in {"history", "request"}
<1>1. /\ pc[s] = "describe" /\ pc'[s] \in {"history", "request"}
  BY DEF Requests, Deciding
<1>2. pc' # pc
  BY <1>1
<1>3. ~(GroupStep \/ SelfTerminate \/ Tick)
  BY <1>2, OtherSteps
<1>4. PICK r \in Scalers : ScalerStep(r)
  BY <1>3 DEF Next
<1>5. r = s
  BY <1>1, <1>4, ScalerStepCases
<1>6. Describe(s)
  BY <1>1, <1>4, <1>5
  DEF ScalerStep, BeginRun, PollMetrics, AbortRun, CheckDangling,
      HistoryBlocks, HistoryAllows, SendSIGTERMs, SetDesiredCapacity,
      Record, EndRun, TypeOK
<1> QED
  BY <1>1, <1>6 DEF Describe

(* No decision on metrics that are too old changes the desired capacity in *)
(* Elastic CI mode, for any number of scalers, any factor and any group:   *)
(* unless there is an instance buffer, which Run adds to the kept count.   *)
THEOREM StaleMetricsHoldCorrect ==
  ASSUME NoBuffer
  PROVE  Spec => StaleMetricsHoldCapacity
<1>1. TypeOK /\ [Next]_vars =>
        [\A s \in Scalers :
           (p.elastic /\ Stale(s) /\ Requests(s))
             => req'[s].target = asg.desired]_vars
  <2> SUFFICES ASSUME TypeOK, Next, NEW s \in Scalers,
                      p.elastic, Stale(s), Requests(s)
               PROVE  req'[s].target = asg.desired
    OBVIOUS
  <2> QED
    BY RequestIsDecided, StaleDecision
<1> QED
  BY <1>1, TypeCorrect, PTL DEF Spec, StaleMetricsHoldCapacity

-----------------------------------------------------------------------------
(* Agents that are missing.                                                *)

(* The target is then not below the desired capacity: the boost exceeds it,*)
(* the kept count is it, and neither buffer nor limits go below.           *)
LEMMA BoostedTarget ==
  ASSUME NEW q \in Params, NEW m \in AgentMetrics, NEW a \in AutoscaleGroupDetails,
         a.desired \in a.min .. a.max, NEW stale \in BOOLEAN,
         AgentsRequired(q, m) > 0, LowAvailability(q, m, a), a.actual = a.desired
  PROVE  Target(q, m, a, stale) >= a.desired
<1>1. a.desired \in Nat /\ a.min \in Nat /\ a.max \in Nat /\ a.desired <= a.max
  BY DEF AutoscaleGroupDetails
<1>2. DesiredCount(q, m, a, stale) \in Nat /\ Buffer(q, m) \in Nat
  BY DesiredCountNat, BufferNat
<1>3. PerInstance(q, AgentsRequired(q, m)) \in Nat
  <2>1. AgentsRequired(q, m) \in Nat
    BY DEF AgentsRequired, AgentMetrics
  <2> QED BY <2>1, PerInstanceNat
<1>4. DesiredCount(q, m, a, stale) >= a.desired
  <2>1. Boosted(q, m, a)
          = Greatest(PerInstance(q, AgentsRequired(q, m)), a.desired + 1)
    BY DEF Boosted
  <2> QED BY <1>1, <1>3, <2>1 DEF DesiredCount, Greatest
<1> QED
  BY <1>1, <1>2, <1>4 DEF Target, Greatest, Least

LEMMA MissingDecision ==
  ASSUME TypeOK, Next, NEW s \in Scalers, Requests(s),
         AgentsRequired(p, metrics[s]) > 0,
         LowAvailability(p, metrics[s], Details),
         asg.inService = asg.desired
  PROVE  req'[s].kind = "out"
<1> DEFINE a == Details
           t == Target(p, metrics[s], a, Stale(s))
<1>1. Decide(s) /\ pc'[s] \in {"history", "request"}
  BY RequestIsDecided
<1>2. /\ p \in Params /\ metrics[s] \in AgentMetrics
      /\ a \in AutoscaleGroupDetails /\ a.desired \in a.min .. a.max
      /\ a.actual = a.desired /\ Stale(s) \in BOOLEAN
      /\ DOMAIN pc = Scalers /\ DOMAIN req = Scalers
  BY DetailsType, ConstantFacts DEF TypeOK, Stale, Details
<1>3. t >= a.desired /\ t \in a.min .. a.max
  <2>1. a.min <= a.max
    BY <1>2 DEF AutoscaleGroupDetails
  <2> HIDE DEF a
  <2> QED BY <1>2, <2>1, BoostedTarget, TargetWithinBounds DEF a
<1>4. ~WantsIn(p, a, t)
  <2>1. a.desired \in Nat /\ a.min \in Nat /\ a.max \in Nat
    BY <1>2 DEF AutoscaleGroupDetails
  <2>2. InstanceCount(a) = a.desired
    BY <1>2 DEF InstanceCount
  <2> HIDE DEF a, t
  <2> QED BY <1>3, <2>1, <2>2 DEF WantsIn
<1>5. CASE \E target : req' = [req EXCEPT ![s] =
                                 [kind |-> "out", target |-> target,
                                  from |-> a.desired, ids |-> a.ids]]
  BY <1>2, <1>5
<1>6. CASE pc' = [pc EXCEPT ![s] = "check"] \/ EndRun(s)
  BY <1>1, <1>2, <1>6 DEF EndRun
<1> QED
  BY <1>1, <1>4, <1>5, <1>6 DEF Decide

(* A group whose instances all run is never scaled in while there are jobs *)
(* and agents are missing, for any number of scalers and any configuration.*)
THEOREM MissingAgentsCorrect == Spec => MissingAgentsKeepInstances
<1>1. TypeOK /\ [Next]_vars =>
        [\A s \in Scalers :
           (/\ Requests(s)
            /\ AgentsRequired(p, metrics[s]) > 0
            /\ LowAvailability(p, metrics[s], Details)
            /\ asg.inService = asg.desired)
              => req'[s].kind = "out"]_vars
  BY MissingDecision
<1> QED
  BY <1>1, TypeCorrect, PTL DEF Spec, MissingAgentsKeepInstances

-----------------------------------------------------------------------------
(* The pacing of SIGTERMs, for any number of scalers.                      *)

(* Why a scaler's waves of SIGTERMs are a cooldown apart: a wave is either *)
(* about to be recorded, or the scale-in recorded last is not older than   *)
(* it; so a scale-in that passed its cooldown is a cooldown away from the  *)
(* wave.                                                                   *)
SignalsAhead(s) ==
  \/ pc[s] = "history" /\ req[s].kind = "graceful"
  \/ pc[s] = "signal"

SignalInvOf(s) ==
  /\ sinceSignal[s] # Never =>
       \/ pc[s] \in {"request", "record"} /\ req[s].kind = "graceful"
       \/ lastIn[s] # Never /\ lastIn[s] <= sinceSignal[s]
  /\ SignalsAhead(s) =>
       /\ req[s].kind = "graceful"
       /\ sinceSignal[s] = Never \/ sinceSignal[s] >= p.inCooldown

SignalInv == \A s \in Scalers : SignalInvOf(s)

(* No step of a scaler touches what another one remembers.                 *)
LEMMA OtherScalersKeep ==
  ASSUME TypeOK, NEW s \in Scalers, ScalerStep(s), NEW t \in Scalers, t # s
  PROVE  /\ lastIn'[t] = lastIn[t] /\ sinceSignal'[t] = sinceSignal[t]
         /\ pc'[t] = pc[t] /\ req'[t] = req[t] /\ p' = p
<1> USE DEF eventVars, historyVars
<1>1. pc'[t] = pc[t] /\ req'[t] = req[t] /\ p' = p
  BY ScalerStepCases
<1>2. CASE Record(s)
  BY <1>1, <1>2 DEF Record, TypeOK
<1>3. CASE SendSIGTERMs(s)
  BY <1>1, <1>3 DEF SendSIGTERMs, TypeOK
<1>4. CASE \/ BeginRun(s) \/ PollMetrics(s) \/ AbortRun(s) \/ Describe(s)
          \/ CheckDangling(s) \/ HistoryBlocks(s) \/ HistoryAllows(s)
          \/ SetDesiredCapacity(s)
  BY <1>1, <1>4
  DEF BeginRun, PollMetrics, AbortRun, Describe, CheckDangling,
      HistoryBlocks, HistoryAllows, SetDesiredCapacity
<1> QED
  BY <1>2, <1>3, <1>4 DEF ScalerStep

(* A scaler's own step.                                                    *)
LEMMA OwnSignalStep ==
  ASSUME TypeOK, NEW s \in Scalers, SignalInvOf(s), ScalerStep(s)
  PROVE  SignalInvOf(s)'
<1> USE DEF SignalInvOf, SignalsAhead, eventVars, historyVars, runVars
<1>1. /\ pc[s] \in Steps /\ lastIn[s] \in AgeOrNever
      /\ sinceSignal[s] \in AgeOrNever /\ p.inCooldown \in Nat
      /\ DOMAIN pc = Scalers /\ DOMAIN req = Scalers
      /\ DOMAIN lastIn = Scalers /\ DOMAIN sinceSignal = Scalers
  BY ConstantFacts DEF TypeOK, Params
<1>2. CASE BeginRun(s) \/ PollMetrics(s)
  BY <1>1, <1>2 DEF BeginRun, PollMetrics
<1>3. CASE AbortRun(s) \/ HistoryBlocks(s) \/ CheckDangling(s)
  BY <1>1, <1>3 DEF AbortRun, HistoryBlocks, CheckDangling, EndRun
<1>4. CASE Describe(s)
  <2>1. /\ pc[s] = "describe" /\ p' = p /\ lastIn' = lastIn
        /\ sinceSignal' = sinceSignal
    BY <1>4 DEF Describe
  <2>2. sinceSignal[s] # Never => lastIn[s] # Never /\ lastIn[s] <= sinceSignal[s]
    BY <2>1
  <2>3. CASE ~Requesting(s)'
    BY <2>1, <2>2, <2>3 DEF Requesting
  <2>4. CASE /\ pc'[s] \in {"history", "request"}
             /\ Decided(s, pc'[s], req'[s])
    <3>1. req'[s].kind = "graceful" =>
            (lastIn[s] = Never \/ lastIn[s] >= p.inCooldown)
      BY <2>4 DEF Decided
    <3>2. (lastIn[s] = Never \/ lastIn[s] >= p.inCooldown) =>
            (sinceSignal[s] = Never \/ sinceSignal[s] >= p.inCooldown)
      BY <1>1, <2>2 DEF AgeOrNever, Ages, Never
    <3> QED
      BY <2>1, <2>2, <2>4, <3>1, <3>2
  <2> QED
    BY <1>4, <2>1, <2>3, <2>4, ScalerStepCases DEF ScalerStep, Requesting
<1>5. CASE HistoryAllows(s)
  BY <1>1, <1>5 DEF HistoryAllows
<1>6. CASE SendSIGTERMs(s)
  BY <1>1, <1>6 DEF SendSIGTERMs
<1>7. CASE SetDesiredCapacity(s)
  BY <1>1, <1>7 DEF SetDesiredCapacity, Records, EndRun
<1>8. CASE Record(s)
  <2>1. /\ pc' = [pc EXCEPT ![s] = "start"]
        /\ sinceSignal' = sinceSignal /\ p' = p /\ pc[s] = "record"
    BY <1>8 DEF Record, EndRun
  <2>2. req[s].kind = "graceful" => lastIn'[s] = 0
    BY <1>1, <1>8 DEF Record
  <2>3. req[s].kind # "graceful" => lastIn'[s] = 0 \/ lastIn'[s] = lastIn[s]
    BY <1>1, <1>8 DEF Record
  <2>4. sinceSignal[s] # Never => 0 <= sinceSignal[s]
    BY <1>1 DEF AgeOrNever, Ages
  <2> QED
    BY <1>1, <2>1, <2>2, <2>3, <2>4 DEF Never
<1> QED
  BY <1>2, <1>3, <1>4, <1>5, <1>6, <1>7, <1>8 DEF ScalerStep

LEMMA SignalStep ==
  ASSUME TypeOK, SignalInv, [Next]_vars
  PROVE  SignalInv'
<1> SUFFICES ASSUME NEW t \in Scalers PROVE SignalInvOf(t)'
  BY DEF SignalInv
<1>1. SignalInvOf(t)
  BY DEF SignalInv
<1>2. ASSUME NEW s \in Scalers, ScalerStep(s) PROVE SignalInvOf(t)'
  <2>1. CASE t = s
    BY <1>1, <1>2, <2>1, OwnSignalStep
  <2>2. CASE t # s
    BY <1>1, <1>2, <2>2, OtherScalersKeep DEF SignalInvOf, SignalsAhead
  <2> QED
    BY <2>1, <2>2
<1>3. CASE GroupStep \/ SelfTerminate \/ UNCHANGED vars
  BY <1>1, <1>3
  DEF GroupStep, SelfTerminate, vars, eventVars, historyVars, runVars,
      SignalInvOf, SignalsAhead
<1>4. CASE Tick
  <2>1. /\ lastIn[t] \in AgeOrNever /\ sinceSignal[t] \in AgeOrNever
        /\ p.inCooldown \in Nat /\ p.inCooldown <= AgeCap
    BY ConstantFacts DEF TypeOK, Params
  <2>2. /\ p' = p /\ pc' = pc /\ req' = req
        /\ lastIn'[t] = Older(lastIn[t])
        /\ sinceSignal'[t] = Older(sinceSignal[t])
    BY <1>4 DEF Tick
  <2> QED
    BY <1>1, <2>1, <2>2, OlderType DEF SignalInvOf, SignalsAhead
<1> QED
  BY <1>2, <1>3, <1>4 DEF Next

(* The waves of SIGTERMs of each scaler are a scale-in cooldown apart,     *)
(* whatever becomes of its SetDesiredCapacity calls and whatever the other *)
(* scalers do.                                                             *)
THEOREM SignalsPacedCorrect == Spec => SignalsPaced
<1>1. Init => SignalInv
  BY DEF Init, SignalInv, SignalInvOf, SignalsAhead
<1>2. TypeOK /\ SignalInv /\ [Next]_vars => SignalInv'
  BY SignalStep
<1>3. TypeOK /\ SignalInv /\ [Next]_vars =>
        [\A s \in Scalers :
           (pc[s] = "signal" /\ pc'[s] # pc[s])
             => \/ sinceSignal[s] = Never
                \/ sinceSignal[s] >= p.inCooldown]_vars
  BY DEF SignalInv, SignalInvOf, SignalsAhead
<1> QED
  BY <1>1, <1>2, <1>3, TypeCorrect, PTL DEF Spec, SignalsPaced

-----------------------------------------------------------------------------
(* One scaler alone.                                                       *)

OneScaler == \A s, t \in Scalers : s = t

ScaleIn(s) == req[s].kind \in {"in", "graceful"}

(* Why lowerings are a cooldown apart: a lowering is either about to be    *)
(* recorded, or remembered by its scaler.                                  *)
Remembers(age) == sinceLowered # Never => (age # Never /\ age <= sinceLowered)

MemoryInv ==
  \A s \in Scalers :
    (pc[s] = "record" /\ ScaleIn(s)) \/ Remembers(lastIn[s])

(* Why only a scale-in lowers: the snapshot of the run in progress is an   *)
(* upper bound of the capacity, which only self-terminating instances      *)
(* change meanwhile.                                                       *)
RequestInv ==
  \A s \in Scalers :
    Requesting(s) =>
      /\ asg.desired <= req[s].from
      /\ req[s].kind = "out" => req[s].target > req[s].from
      /\ req[s].kind # "out" =>
           /\ ScaleIn(s)
           /\ sinceLowered = Never \/ sinceLowered >= p.inCooldown
           /\ ~(p.disableIn /\ ~p.elastic)

PacedInv == MemoryInv /\ RequestInv

-----------------------------------------------------------------------------
(* The pacing of the capacity: Scaler implements PacedCapacity.            *)

NoLostAnswers == "lost" \notin Outcomes

LEMMA PacedStep ==
  ASSUME OneScaler, NoLostAnswers, TypeOK, PacedInv, [Next]_vars
  PROVE  PacedInv'
<1> USE DEF PacedInv, MemoryInv, RequestInv, Remembers, ScaleIn, Requesting,
           eventVars, historyVars, runVars
<1>1. ASSUME NEW s \in Scalers, ScalerStep(s) PROVE PacedInv'
  <2>1. \A t \in Scalers : t = s
    BY DEF OneScaler
  <2>2. /\ lastIn[s] \in AgeOrNever /\ sinceLowered \in AgeOrNever
        /\ p.inCooldown \in Nat /\ req[s] \in Request /\ asg \in Group
        /\ DOMAIN pc = Scalers /\ DOMAIN req = Scalers
        /\ DOMAIN lastIn = Scalers
    BY ConstantFacts DEF TypeOK, Params
  <2>3. CASE BeginRun(s)
    BY <2>1, <2>2, <2>3 DEF BeginRun
  <2>4. CASE PollMetrics(s)
    BY <2>1, <2>2, <2>4 DEF PollMetrics
  <2>5. CASE AbortRun(s) \/ HistoryBlocks(s) \/ CheckDangling(s)
    BY <2>1, <2>2, <2>5 DEF AbortRun, HistoryBlocks, CheckDangling, EndRun
  <2>6. CASE Describe(s)
    <3>1. /\ pc[s] = "describe" /\ p' = p /\ lastIn' = lastIn
          /\ sinceLowered' = sinceLowered /\ asg' = asg
      BY <2>6 DEF Describe
    <3>2. sinceLowered # Never =>
            lastIn[s] # Never /\ lastIn[s] <= sinceLowered
      BY <3>1
    <3>3. CASE ~Requesting(s)'
      BY <2>1, <3>1, <3>2, <3>3
    <3>4. CASE Decided(s, pc'[s], req'[s])
      <4>1. (lastIn[s] = Never \/ lastIn[s] >= p.inCooldown) =>
              (sinceLowered = Never \/ sinceLowered >= p.inCooldown)
        BY <2>2, <3>2 DEF AgeOrNever, Ages, Never
      <4>2. asg'.desired <= req'[s].from
        BY <2>2, <3>1, <3>4, ConstantFacts DEF Decided, Group
      <4> QED
        BY <2>1, <3>1, <3>2, <3>4, <4>1, <4>2 DEF Decided
    <3> QED
      BY <2>6, <3>1, <3>3, <3>4, ScalerStepCases DEF ScalerStep
  <2>7. CASE HistoryAllows(s)
    BY <2>1, <2>2, <2>7 DEF HistoryAllows
  <2>8. CASE SendSIGTERMs(s)
    BY <2>1, <2>2, <2>8 DEF SendSIGTERMs
  <2>9. CASE SetDesiredCapacity(s)
    <3>1. PICK outcome \in Outcomes :
            /\ sinceLowered' = IF /\ Accepted(s, outcome)
                                  /\ req[s].target < asg.desired
                               THEN 0 ELSE sinceLowered
            /\ IF Records(s, outcome)
               THEN pc' = [pc EXCEPT ![s] = "record"] /\ req' = req
               ELSE EndRun(s)
      BY <2>9 DEF SetDesiredCapacity
    <3>2. pc[s] = "request" /\ p' = p /\ lastIn' = lastIn
      BY <2>9 DEF SetDesiredCapacity
    <3>3. outcome # "lost" /\ outcome \in {"ok", "failed", "lost"}
      BY ScalerAssumption DEF NoLostAnswers
    <3>4. CASE Accepted(s, outcome) /\ req[s].target < asg.desired
      <4>1. Records(s, outcome)
        BY <3>3, <3>4 DEF Records, Accepted
      <4>2. req[s].kind # "out"
        <5> SUFFICES ASSUME req[s].kind = "out" PROVE FALSE
          OBVIOUS
        <5>1. asg.desired <= req[s].from /\ req[s].from < req[s].target
          BY <2>2, <3>2 DEF Request
        <5>2. /\ asg.desired \in Int /\ req[s].from \in Int
              /\ req[s].target \in Int
          BY <2>2, ConstantFacts DEF Request, Group
        <5> QED
          BY <3>4, <5>1, <5>2
      <4> QED
        BY <2>1, <2>2, <3>1, <3>2, <4>1, <4>2
    <3>5. CASE ~(Accepted(s, outcome) /\ req[s].target < asg.desired)
      BY <2>1, <2>2, <3>1, <3>2, <3>5 DEF EndRun
    <3> QED
      BY <3>4, <3>5
  <2>10. CASE Record(s)
    <3>1. /\ pc' = [pc EXCEPT ![s] = "start"]
          /\ sinceLowered' = sinceLowered /\ p' = p /\ pc[s] = "record"
      BY <2>10 DEF Record, EndRun
    <3>2. ScaleIn(s) => lastIn'[s] = 0
      BY <2>2, <2>10 DEF Record
    <3>3. ~ScaleIn(s) => lastIn'[s] = 0 \/ lastIn'[s] = lastIn[s]
      BY <2>2, <2>10 DEF Record
    <3>4. sinceLowered # Never => 0 <= sinceLowered
      BY <2>2 DEF AgeOrNever, Ages
    <3> QED
      BY <2>1, <2>2, <3>1, <3>2, <3>3, <3>4 DEF Never
  <2> QED
    BY <1>1, <2>3, <2>4, <2>5, <2>6, <2>7, <2>8, <2>9, <2>10 DEF ScalerStep
<1>2. CASE GroupStep
  <2>1. asg'.desired = asg.desired
    BY <1>2, GroupStepType
  <2> QED
    BY <1>2, <2>1 DEF GroupStep
<1>3. CASE SelfTerminate
  <2>1. asg'.desired = asg.desired - 1 /\ asg.desired \in Int
    BY <1>3, ConstantFacts DEF SelfTerminate, TypeOK, Group
  <2>2. \A s \in Scalers : req[s].from \in Int
    BY DEF TypeOK, Request
  <2>3. \A s \in Scalers :
          asg.desired <= req[s].from => asg'.desired <= req[s].from
    BY <2>1, <2>2
  <2> QED
    BY <1>3, <2>3 DEF SelfTerminate
<1>4. CASE UNCHANGED vars
  BY <1>4 DEF vars
<1>5. CASE Tick
  <2>1. p' = p /\ pc' = pc /\ req' = req /\ asg' = asg
    BY <1>5 DEF Tick
  <2>2. p.inCooldown \in Nat /\ p.inCooldown <= AgeCap
    BY ConstantFacts DEF TypeOK, Params
  <2>3. \A s \in Scalers : /\ lastIn[s] \in AgeOrNever
                           /\ lastIn'[s] = Older(lastIn[s])
    BY <1>5 DEF TypeOK, Tick
  <2>4. sinceLowered \in AgeOrNever /\ sinceLowered' = Older(sinceLowered)
    BY <1>5 DEF TypeOK, Tick
  <2>5. \A s \in Scalers :
          (lastIn[s] # Never /\ lastIn[s] <= sinceLowered)
            => (lastIn'[s] # Never /\ lastIn'[s] <= sinceLowered')
    BY <2>3, <2>4, OlderType
  <2>6. (sinceLowered = Never \/ sinceLowered >= p.inCooldown)
          => (sinceLowered' = Never \/ sinceLowered' >= p.inCooldown)
    BY <2>2, <2>4, OlderType
  <2>7. sinceLowered' # Never => sinceLowered # Never
    BY <2>4, OlderType
  <2> QED
    BY <2>1, <2>5, <2>6, <2>7
<1> QED
  BY <1>1, <1>2, <1>3, <1>4, <1>5 DEF Next

(* Every step of the scaler is a step of PacedCapacity or changes nothing  *)
(* it speaks of.                                                           *)
LEMMA RefinementStep ==
  ASSUME OneScaler, NoLostAnswers, TypeOK, RequestInv, [Next]_vars
  PROVE  [Paced!Next]_(Paced!pacedVars)
<1> USE DEF eventVars, historyVars, runVars
<1> DEFINE Same == /\ asg'.desired = asg.desired /\ p' = p
                   /\ sinceLowered' = sinceLowered /\ changedBy' = changedBy
<1>1. Same => UNCHANGED Paced!pacedVars
  BY DEF Paced!pacedVars
<1>2. ASSUME NEW s \in Scalers, ScalerStep(s)
      PROVE  [Paced!Next]_(Paced!pacedVars)
  <2>1. CASE BeginRun(s)
    BY <1>1, <2>1, MarkUnhealthyType DEF BeginRun
  <2>2. CASE \/ PollMetrics(s) \/ AbortRun(s) \/ Describe(s)
            \/ HistoryBlocks(s) \/ HistoryAllows(s) \/ SendSIGTERMs(s)
    BY <1>1, <2>2
    DEF PollMetrics, AbortRun, Describe, HistoryBlocks, HistoryAllows,
        SendSIGTERMs
  <2>3. CASE CheckDangling(s)
    BY <1>1, <2>3, MarkUnhealthyType DEF CheckDangling
  <2>4. CASE Record(s)
    BY <1>1, <2>4 DEF Record, TerminateSingle, TypeOK, Group
  <2>5. CASE SetDesiredCapacity(s)
    <3>1. PICK outcome \in Outcomes :
            /\ asg' = IF Accepted(s, outcome)
                      THEN [asg EXCEPT !.desired = req[s].target] ELSE asg
            /\ sinceLowered' = IF /\ Accepted(s, outcome)
                                  /\ req[s].target < asg.desired
                               THEN 0 ELSE sinceLowered
            /\ changedBy' = IF /\ Accepted(s, outcome)
                               /\ req[s].target # asg.desired
                            THEN "scaler" ELSE changedBy
      BY <2>5 DEF SetDesiredCapacity
    <3>2. pc[s] = "request" /\ p' = p
      BY <2>5 DEF SetDesiredCapacity
    <3>3. /\ asg.desired \in Int /\ req[s].target \in Int
          /\ req[s].from \in Int /\ MinSize \in Nat /\ MaxSize \in Nat
      BY ConstantFacts DEF TypeOK, Group, Request
    <3>4. CASE ~Accepted(s, outcome) \/ req[s].target = asg.desired
      BY <1>1, <3>1, <3>2, <3>3, <3>4 DEF TypeOK, Group
    <3>5. CASE Accepted(s, outcome) /\ req[s].target > asg.desired
      <4>1. /\ asg'.desired = req[s].target /\ changedBy' = "scaler"
            /\ sinceLowered' = sinceLowered
        BY <3>1, <3>3, <3>5 DEF TypeOK, Group
      <4>2. req[s].target \in asg.desired + 1 .. MaxSize
        BY <3>3, <3>5 DEF Accepted
      <4>3. Paced!Raise
        BY <3>2, <4>1, <4>2 DEF Paced!Raise
      <4> QED
        BY <4>3 DEF Paced!Next
    <3>6. CASE Accepted(s, outcome) /\ req[s].target < asg.desired
      <4>1. /\ asg'.desired = req[s].target /\ changedBy' = "scaler"
            /\ sinceLowered' = 0
        BY <3>1, <3>3, <3>6 DEF TypeOK, Group
      <4>2. req[s].target \in MinSize .. asg.desired - 1
        BY <3>3, <3>6 DEF Accepted
      <4>3. req[s].kind # "out"
        BY <3>2, <3>3, <3>6 DEF RequestInv, Requesting
      <4>4. /\ sinceLowered = -1 \/ sinceLowered >= p.inCooldown
            /\ ~(p.disableIn /\ ~p.elastic)
        BY <3>2, <4>3 DEF RequestInv, Requesting, Never
      <4>5. Paced!Lower
        BY <3>2, <4>1, <4>2, <4>4 DEF Paced!Lower
      <4> QED
        BY <4>5 DEF Paced!Next
    <3> QED
      BY <3>3, <3>4, <3>5, <3>6
  <2> QED
    BY <1>2, <2>1, <2>2, <2>3, <2>4, <2>5 DEF ScalerStep
<1>3. CASE GroupStep
  BY <1>1, <1>3, GroupStepType DEF GroupStep
<1>4. CASE SelfTerminate
  <2>1. asg.desired > MinSize /\ asg'.desired = asg.desired - 1
    BY <1>4 DEF SelfTerminate, TypeOK, Group
  <2>2. Paced!SelfTerminate
    BY <1>4, <2>1 DEF SelfTerminate, Paced!SelfTerminate
  <2> QED
    BY <2>2 DEF Paced!Next
<1>5. CASE Tick
  <2>1. /\ sinceLowered' = Older(sinceLowered)
        /\ asg' = asg /\ p' = p /\ changedBy' = changedBy
    BY <1>5 DEF Tick
  <2>2. CASE Older(sinceLowered) = sinceLowered
    BY <1>1, <2>1, <2>2
  <2>3. CASE Older(sinceLowered) # sinceLowered
    <3>1. /\ sinceLowered \in 0 .. AgeCap - 1
          /\ Older(sinceLowered) = sinceLowered + 1
      BY <2>3, ConstantFacts
      DEF TypeOK, AgeOrNever, Ages, Older, Never, Least
    <3>2. Paced!Tick
      BY <2>1, <3>1 DEF Paced!Tick
    <3> QED
      BY <3>2 DEF Paced!Next
  <2> QED
    BY <2>2, <2>3
<1>6. CASE UNCHANGED vars
  BY <1>1, <1>6 DEF vars
<1> QED
  BY <1>2, <1>3, <1>4, <1>5, <1>6 DEF Next

(* One scaler implements PacedCapacity, for every configuration, demand and*)
(* size of the group: it lowers the capacity only where scale-in is not    *)
(* disabled and never twice within the scale-in cooldown.                  *)
THEOREM ImplementsPacedCorrect ==
  ASSUME OneScaler, NoLostAnswers
  PROVE  Spec => ImplementsPaced
<1>1. Init => Paced!Init
  BY ConstantFacts
  DEF Init, Paced!Init, Params, Never
<1>2. Init => PacedInv
  BY DEF Init, PacedInv, MemoryInv, Remembers, RequestInv, Requesting
<1>3. TypeOK /\ PacedInv /\ [Next]_vars => PacedInv'
  BY PacedStep
<1>4. TypeOK /\ PacedInv /\ [Next]_vars => [Paced!Next]_(Paced!pacedVars)
  BY RefinementStep DEF PacedInv
<1> QED
  BY <1>1, <1>2, <1>3, <1>4, TypeCorrect, PTL
  DEF Spec, ImplementsPaced, Paced!Spec

=============================================================================
