----------------------------- MODULE SteadyProofs -----------------------------
(***************************************************************************)
(* What a steady load does to the capacity, for every number of scalers or *)
(* environments, every size of the group and every load: no step carries   *)
(* it past the target, and one scaler moves it towards the target only.    *)
(* This is the part of Converges that needs no fairness.                   *)
(***************************************************************************)
EXTENDS LambdaProofs

(* The target of a load is the same for every snapshot: no availability    *)
(* boost, and no buffer where stale metrics keep the desired count.        *)
Unboosted == \A c \in Configs : c.threshold = 0

Damped == \A c \in Configs : c.inFactor <= Unit /\ c.outFactor <= Unit

SteadyAssumption == Unboosted /\ NoBuffer /\ Damped /\ ~SelfTerminating

-----------------------------------------------------------------------------
(* The target.                                                             *)

SteadyCount(q, m) ==
  LET required == AgentsRequired(q, m)
      jobBased == IF required > 0 THEN PerInstance(q, required) ELSE 0
  IN  Greatest(Least(jobBased + Buffer(q, m), MaxSize), MinSize)

LEMMA UnboostedTarget ==
  ASSUME NEW q \in Params, q.threshold = 0, NEW m \in AgentMetrics,
         NEW a \in AutoscaleGroupDetails, a.min = MinSize, a.max = MaxSize,
         NEW stale, ~(q.elastic /\ stale)
  PROVE  Target(q, m, a, stale) = SteadyCount(q, m)
<1>1. ~LowAvailability(q, m, a)
  <2> DEFINE expected == q.agentsPerInstance * InstanceCount(a)
  <2>1. m.total * Unit >= 0
    BY UnitAssumption DEF AgentMetrics
  <2>2. expected \in Int
    BY DEF Params, AutoscaleGroupDetails, InstanceCount
  <2> HIDE DEF expected
  <2>3. q.threshold * expected = 0
    BY <2>2
  <2> QED
    BY <2>1, <2>3, UnitAssumption DEF LowAvailability, expected, AgentMetrics
<1>2. DesiredCount(q, m, a, stale) = Boosted(q, m, a)
  BY DEF DesiredCount
<1> QED
  BY <1>1, <1>2 DEF Target, Boosted, SteadyCount

LEMMA SteadyGoal ==
  ASSUME Unboosted, TypeOK, NEW m \in AgentMetrics
  PROVE  /\ SteadyTarget(m) = SteadyCount(p, m)
         /\ SteadyCount(p, m) \in MinSize..MaxSize
<1> DEFINE a == [Details EXCEPT !.actual = asg.desired]
<1>1. p \in Params /\ p.threshold = 0 /\ asg.desired \in Nat
  BY ConstantFacts DEF Unboosted, TypeOK, Group
<1>2. /\ a \in AutoscaleGroupDetails
      /\ a.min = MinSize /\ a.max = MaxSize /\ a.min <= a.max
  BY <1>1, DetailsType, ConstantFacts DEF AutoscaleGroupDetails
<1>3. Target(p, m, a, FALSE) = SteadyCount(p, m)
  <2> HIDE DEF a
  <2> QED
    BY <1>1, <1>2, UnboostedTarget
<1>4. Target(p, m, a, FALSE) \in MinSize..MaxSize
  <2> HIDE DEF a
  <2> QED
    BY <1>1, <1>2, TargetWithinBounds
<1> QED
  BY <1>3, <1>4 DEF SteadyTarget

(* scaleIn, called with a target that is not below the desired count, does *)
(* not exceed it either.                                                   *)
LEMMA ScaleInUpwards ==
  ASSUME NEW q \in Params, NEW a \in AutoscaleGroupDetails,
         a.desired \in a.min .. a.max, NEW target \in a.min .. a.max,
         target >= a.desired, q.inFactor <= Unit
  PROVE  ScaleInTarget(q, a, target) <= target
<1> DEFINE c == target - a.desired
           d == (c * q.inFactor) \div Unit
<1>1. /\ a.desired \in Nat /\ a.min \in Nat /\ a.max \in Nat
      /\ q.inFactor \in Nat /\ target \in Nat
  BY DEF AutoscaleGroupDetails, Params
<1>2. c \in Int /\ c >= 0
  BY <1>1
<1>3. d \in Int /\ d <= c
  <2> HIDE DEF c
  <2> QED
    BY <1>1, <1>2, FactoredDown
<1> HIDE DEF d
<1>4. ScaleInTarget(q, a, target)
        = Greatest(IF q.inFactor = 0 THEN target
                                     ELSE Greatest(a.desired + d, a.min), 0)
  BY DEF ScaleInTarget, d
<1> QED
  BY <1>1, <1>3, <1>4 DEF Greatest

-----------------------------------------------------------------------------
(* A decision.                                                             *)

Aims(goal, r) ==
  /\ r.from = asg.desired
  /\ r.target \in Int
  /\ Towards(asg.desired, goal, r.target)

(* Whatever a decision on the metrics m asks for lies between what the     *)
(* group has and what m asks for.                                          *)
LEMMA SteadyDecision ==
  ASSUME SteadyAssumption, TypeOK, NEW s \in Scalers, Decide(s),
         pc'[s] \in {"history", "request"}
  PROVE  Aims(SteadyCount(p, metrics[s]), req'[s])
<1> DEFINE a == Details
           t == Target(p, metrics[s], a, Stale(s))
           goal == SteadyCount(p, metrics[s])
<1>1. /\ p \in Params /\ p.threshold = 0 /\ metrics[s] \in AgentMetrics
      /\ p.inFactor <= Unit /\ p.outFactor <= Unit
      /\ p.elastic => p.instanceBuffer = 0
      /\ DOMAIN pc = Scalers /\ DOMAIN req = Scalers
  BY ConstantFacts DEF SteadyAssumption, Unboosted, Damped, NoBuffer, TypeOK
<1>2. /\ a \in AutoscaleGroupDetails /\ a.desired \in a.min .. a.max
      /\ a.desired = asg.desired /\ a.min = MinSize /\ a.max = MaxSize
      /\ a.min <= a.desired /\ a.min <= a.max /\ a.desired \in Nat
  BY DetailsType, ConstantFacts DEF AutoscaleGroupDetails
<1>3. goal \in a.min .. a.max
  BY <1>1, <1>2, SteadyGoal DEF SteadyAssumption
<1>4. t = goal \/ t = a.desired
  <2>1. CASE p.elastic /\ Stale(s)
    <3>1. Stale(s) = TRUE
      BY <2>1 DEF Stale
    <3> HIDE DEF a
    <3> QED
      BY <1>1, <1>2, <2>1, <3>1, StaleTarget
  <2>2. CASE ~(p.elastic /\ Stale(s))
    <3> HIDE DEF a
    <3> QED
      BY <1>1, <1>2, <2>2, UnboostedTarget
  <2> QED
    BY <2>1, <2>2
<1> HIDE DEF a, t, goal
<1>5. CASE /\ WantsOut(a, t)
           /\ req' = [req EXCEPT ![s] =
                        [kind |-> "out", target |-> ScaleOutTarget(p, a, t),
                         from |-> a.desired, ids |-> a.ids]]
  <2>1. t = goal /\ goal > a.desired
    BY <1>2, <1>4, <1>5 DEF WantsOut
  <2> DEFINE step == ScaleOutTarget(p, a, t)
  <2>2. step \in Int /\ a.desired < step /\ step <= goal
    BY <1>1, <1>2, <1>3, <2>1, ScaleOutTargetFacts
  <2>3. req'[s].from = a.desired /\ req'[s].target = step
    BY <1>1, <1>5
  <2> HIDE DEF step
  <2>4. Towards(a.desired, goal, step)
    BY <1>2, <1>3, <2>2 DEF Towards
  <2> QED
    BY <1>2, <2>2, <2>3, <2>4 DEF Aims, goal
<1>6. CASE \E kind \in {"in", "graceful"} :
             req' = [req EXCEPT ![s] =
                       [kind |-> kind, target |-> ScaleInTarget(p, a, t),
                        from |-> a.desired, ids |-> a.ids]]
  <2> DEFINE step == ScaleInTarget(p, a, t)
  <2>1. t \in a.min .. a.max /\ t \in Int
    BY <1>2, <1>3, <1>4
  <2>2. /\ step \in Nat
        /\ t < a.desired => t <= step /\ step < a.desired
        /\ t >= a.desired => a.desired <= step /\ step <= t
    BY <1>1, <1>2, <2>1, ScaleInTargetFacts, ScaleInUpwards
  <2>3. req'[s].from = a.desired /\ req'[s].target = step
    BY <1>1, <1>6
  <2> HIDE DEF step
  <2>4. Towards(a.desired, goal, step)
    BY <1>2, <1>3, <1>4, <2>1, <2>2 DEF Towards
  <2> QED
    BY <1>2, <2>2, <2>3, <2>4 DEF Aims, goal
<1>7. CASE pc' = [pc EXCEPT ![s] = "check"] \/ EndRun(s)
  BY <1>1, <1>7 DEF EndRun
<1> QED
  BY <1>5, <1>6, <1>7 DEF Decide, a, t

-----------------------------------------------------------------------------
(* What a step does to the capacity and to the requests for it.            *)

(* A decision is taken on what Buildkite answered.                         *)
MeasuredInv == \A s \in Scalers : pc[s] = "describe" => metrics[s] \in Demand

(* No step of a run: the capacity stays, and requests stay or are dropped. *)
Keeps ==
  /\ p' = p
  /\ asg'.desired = asg.desired
  /\ \A t \in Scalers : Requesting(t)' => Requesting(t) /\ req'[t] = req[t]

(* A step of the run of s: its request appears, is kept or dropped, or its *)
(* last step is to set the capacity.                                       *)
Proceeds(s, goal) ==
  /\ p' = p
  /\ \A t \in Scalers \ {s} : pc'[t] = pc[t] /\ req'[t] = req[t]
  /\ \/ /\ asg'.desired = asg.desired
        /\ \/ ~Requesting(s)'
           \/ Requesting(s) /\ req'[s] = req[s]
           \/ Aims(goal, req'[s])
     \/ /\ Requesting(s) /\ ~Requesting(s)'
        /\ asg'.desired = req[s].target

LEMMA ScalerProceeds ==
  ASSUME SteadyAssumption, TypeOK, MeasuredInv,
         NEW m, Demand = {m}, NEW s \in Scalers, ScalerStep(s)
  PROVE  Proceeds(s, SteadyCount(p, m))
<1>1. /\ p' = p
      /\ \A t \in Scalers \ {s} : pc'[t] = pc[t] /\ req'[t] = req[t]
      /\ DOMAIN pc = Scalers /\ asg \in Group
  BY ScalerStepCases DEF TypeOK
<1>2. CASE SetDesiredCapacity(s)
  <2>1. Requesting(s) /\ ~Requesting(s)'
    BY <1>1, <1>2 DEF SetDesiredCapacity, EndRun, Requesting
  <2>2. asg'.desired = asg.desired \/ asg'.desired = req[s].target
    BY <1>1, <1>2 DEF SetDesiredCapacity, Group
  <2> QED
    BY <1>1, <2>1, <2>2 DEF Proceeds
<1>3. CASE ~SetDesiredCapacity(s)
  <2>1. asg'.desired = asg.desired
    <3>1. CASE BeginRun(s) \/ CheckDangling(s)
      BY <3>1, MarkUnhealthyType DEF BeginRun, CheckDangling
    <3>2. CASE Record(s)
      BY <1>1, <3>2 DEF Record, TerminateSingle, Group
    <3>3. CASE \/ PollMetrics(s) \/ AbortRun(s) \/ Describe(s)
              \/ HistoryBlocks(s) \/ HistoryAllows(s) \/ SendSIGTERMs(s)
      BY <3>3
      DEF PollMetrics, AbortRun, Describe, HistoryBlocks, HistoryAllows,
          SendSIGTERMs
    <3> QED
      BY <1>3, <3>1, <3>2, <3>3 DEF ScalerStep
  <2>2. CASE pc[s] = "describe" /\ pc'[s] \in {"history", "request"}
    <3>1. Decide(s)
      BY <2>2, RequestIsDecided DEF Next, Requests, Deciding
    <3>2. metrics[s] = m
      BY <2>2 DEF MeasuredInv
    <3>3. Aims(SteadyCount(p, m), req'[s])
      BY <2>2, <3>1, <3>2, SteadyDecision
    <3> QED
      BY <1>1, <2>1, <3>3 DEF Proceeds
  <2>3. CASE ~Requesting(s)' \/ (Requesting(s) /\ req'[s] = req[s])
    BY <1>1, <2>1, <2>3 DEF Proceeds
  <2> QED
    BY <2>2, <2>3, ScalerStepCases
<1> QED
  BY <1>2, <1>3

LEMMA OthersKeep ==
  ASSUME SteadyAssumption, TypeOK,
         GroupStep \/ SelfTerminate \/ Tick \/ UNCHANGED vars
  PROVE  Keeps
<1>1. p' = p /\ pc' = pc /\ req' = req
  BY OtherSteps
<1>2. ~SelfTerminate
  BY DEF SteadyAssumption, SelfTerminate
<1>3. asg'.desired = asg.desired
  BY <1>2, GroupStepType DEF Tick, vars
<1> QED
  BY <1>1, <1>3 DEF Keeps, Requesting

LEMMA SteadyStep ==
  ASSUME SteadyAssumption, TypeOK, MeasuredInv, NEW m, Demand = {m},
         [Next]_vars
  PROVE  Keeps \/ \E s \in Scalers : Proceeds(s, SteadyCount(p, m))
BY ScalerProceeds, OthersKeep DEF Next

LEMMA MeasuredStep ==
  ASSUME TypeOK, MeasuredInv, [Next]_vars
  PROVE  MeasuredInv'
<1> SUFFICES ASSUME NEW t \in Scalers, pc'[t] = "describe"
             PROVE  metrics'[t] \in Demand
  BY DEF MeasuredInv
<1> USE DEF MeasuredInv, TypeOK
<1>1. ASSUME NEW s \in Scalers, PollMetrics(s) PROVE metrics'[t] \in Demand
  BY <1>1 DEF PollMetrics
<1>2. ASSUME NEW s \in Scalers, AbortRun(s) \/ CheckDangling(s)
               \/ HistoryBlocks(s) \/ Record(s)
      PROVE  metrics'[t] \in Demand
  BY <1>2
  DEF AbortRun, CheckDangling, HistoryBlocks, Record, EndRun, ForgetMetrics
<1>3. ASSUME NEW s \in Scalers, Describe(s) PROVE metrics'[t] \in Demand
  <2>1. t # s /\ metrics'[t] = metrics[t] /\ pc'[t] = pc[t]
    <3>1. pc'[s] # "describe"
      BY <1>3, DecideCases DEF Describe, EndRun
    <3>2. t # s
      BY <3>1
    <3>3. ForgetMetrics(s)
      BY <1>3, DecideCases DEF Describe, EndRun
    <3> QED
      BY <1>3, <3>2, <3>3, ScalerStepCases DEF ForgetMetrics, ScalerStep
  <2> QED
    BY <2>1
<1>4. ASSUME NEW s \in Scalers, SetDesiredCapacity(s)
      PROVE  metrics'[t] \in Demand
  BY <1>4 DEF SetDesiredCapacity, EndRun, ForgetMetrics
<1>5. ASSUME NEW s \in Scalers,
             BeginRun(s) \/ HistoryAllows(s) \/ SendSIGTERMs(s)
      PROVE  metrics'[t] \in Demand
  BY <1>5 DEF BeginRun, HistoryAllows, SendSIGTERMs
<1>6. CASE GroupStep \/ SelfTerminate \/ Tick \/ UNCHANGED vars
  BY <1>6 DEF GroupStep, SelfTerminate, Tick, vars, runVars
<1> QED
  BY <1>1, <1>2, <1>3, <1>4, <1>5, <1>6 DEF Next, ScalerStep

-----------------------------------------------------------------------------
(* Any number of scalers.                                                  *)

(* The capacity and all that anybody is about to ask for lie on one side   *)
(* of the target, the target included.                                     *)
SideInv(goal) ==
  \/ /\ asg.desired <= goal
     /\ \A s \in Scalers : Requesting(s) => req[s].target <= goal
  \/ /\ asg.desired >= goal
     /\ \A s \in Scalers : Requesting(s) => req[s].target >= goal

LEMMA SideStep ==
  ASSUME TypeOK, NEW goal \in Int, SideInv(goal),
         Keeps \/ \E s \in Scalers : Proceeds(s, goal)
  PROVE  /\ SideInv(goal)'
         /\ asg.desired < goal => asg'.desired <= goal
         /\ asg.desired > goal => asg'.desired >= goal
<1>1. asg.desired \in Int /\ \A s \in Scalers : req[s].target \in Int
  BY ConstantFacts DEF TypeOK, Group, Request
<1>2. CASE Keeps
  BY <1>1, <1>2 DEF Keeps, SideInv, Requesting
<1>3. ASSUME NEW s \in Scalers, Proceeds(s, goal)
      PROVE  /\ SideInv(goal)'
             /\ asg.desired < goal => asg'.desired <= goal
             /\ asg.desired > goal => asg'.desired >= goal
  <2>1. \A t \in Scalers \ {s} :
          (Requesting(t)' <=> Requesting(t)) /\ req'[t] = req[t]
    BY <1>3 DEF Proceeds, Requesting
  <2>2. CASE asg'.desired = asg.desired
    <3>1. CASE ~Requesting(s)' \/ (Requesting(s) /\ req'[s] = req[s])
      BY <1>1, <2>1, <2>2, <3>1 DEF SideInv
    <3>2. CASE Aims(goal, req'[s])
      <4>1. /\ asg.desired <= goal => req'[s].target <= goal
            /\ asg.desired >= goal => req'[s].target >= goal
        <5> DEFINE to == req'[s].target
        <5>1. Towards(asg.desired, goal, to) /\ to \in Int
          BY <3>2 DEF Aims
        <5> HIDE DEF to
        <5> QED
          BY <1>1, <5>1 DEF Towards, to
      <4> QED
        BY <1>1, <2>1, <2>2, <4>1 DEF SideInv
    <3> QED
      BY <1>3, <3>1, <3>2 DEF Proceeds
  <2>3. CASE asg'.desired # asg.desired
    <3>1. /\ Requesting(s) /\ ~Requesting(s)'
          /\ asg'.desired = req[s].target
      BY <1>3, <2>3 DEF Proceeds
    <3> QED
      BY <1>1, <2>1, <3>1 DEF SideInv
  <2> QED
    BY <2>2, <2>3
<1> QED
  BY <1>2, <1>3

(* What a step does under a steady load.                                   *)
Steadily ==
  \A m \in Demand :
    (Demand = {m}) => Keeps \/ \E s \in Scalers : Proceeds(s, SteadyCount(p, m))

OneSided == \A m \in Demand : (Demand = {m}) => SideInv(SteadyCount(p, m))

NotPast ==
  \A m \in Demand :
    LET goal == SteadyTarget(m)
    IN  (Demand = {m}) =>
          /\ asg.desired < goal => asg'.desired <= goal
          /\ asg.desired > goal => asg'.desired >= goal

LEMMA OneSidedStep ==
  ASSUME SteadyAssumption, TypeOK, OneSided, Steadily
  PROVE  OneSided' /\ NotPast
<1> SUFFICES ASSUME NEW m \in Demand, Demand = {m}
             PROVE  LET goal == SteadyTarget(m)
                    IN  /\ SideInv(SteadyCount(p, m))'
                        /\ asg.desired < goal => asg'.desired <= goal
                        /\ asg.desired > goal => asg'.desired >= goal
  BY DEF OneSided, NotPast
<1> DEFINE count == SteadyCount(p, m)
<1>1. /\ SteadyTarget(m) = count /\ count \in Int
  BY SteadyGoal, ConstantFacts DEF SteadyAssumption
<1>2. p' = p /\ (Keeps \/ \E s \in Scalers : Proceeds(s, count))
  BY DEF Steadily, Keeps, Proceeds
<1>3. SideInv(count)
  BY DEF OneSided
<1>4. /\ asg.desired < count => asg'.desired <= count
      /\ asg.desired > count => asg'.desired >= count
  BY <1>1, <1>2, <1>3, SideStep
<1>5. SideInv(SteadyCount(p, m))'
  <2>1. PICK goal \in Int : goal = count
    BY <1>1
  <2>2. SteadyCount(p, m)' = goal
    BY <1>2, <2>1 DEF SteadyCount
  <2>3. SideInv(goal)'
    BY <1>2, <1>3, <2>1, SideStep
  <2> QED
    BY <2>2, <2>3 DEF SideInv
<1> QED
  BY <1>1, <1>4, <1>5

LEMMA OneSidedInit == SteadyAssumption /\ Init => OneSided /\ MeasuredInv
<1> SUFFICES ASSUME SteadyAssumption, Init PROVE OneSided /\ MeasuredInv
  OBVIOUS
<1>1. \A s \in Scalers : pc[s] = "start"
  BY DEF Init
<1>2. MeasuredInv
  BY <1>1 DEF MeasuredInv
<1>3. ASSUME NEW m \in Demand PROVE SideInv(SteadyCount(p, m))
  <2>1. asg.desired \in Int /\ SteadyCount(p, m) \in Int
    BY TypeInit, SteadyGoal, ConstantFacts DEF SteadyAssumption, TypeOK, Group
  <2> QED
    BY <1>1, <2>1 DEF SideInv, Requesting
<1> QED
  BY <1>2, <1>3 DEF OneSided

(* However many scalers overlap, however old their snapshots are and       *)
(* whatever becomes of their calls: under a steady load no step carries    *)
(* the capacity past what the load asks for.                               *)
THEOREM NeverOvershootsCorrect ==
  ASSUME SteadyAssumption
  PROVE  Spec => NeverOvershoots
<1>1. Init => OneSided /\ MeasuredInv
  BY OneSidedInit
<1>2. TypeOK /\ MeasuredInv /\ [Next]_vars => Steadily
  BY SteadyStep DEF Steadily
<1>3. TypeOK /\ MeasuredInv /\ [Next]_vars => MeasuredInv'
  BY MeasuredStep
<1>4. TypeOK /\ OneSided /\ Steadily => OneSided' /\ NotPast
  BY OneSidedStep
<1>5. TypeOK /\ OneSided /\ MeasuredInv /\ [Next]_vars
        => OneSided' /\ [NotPast]_vars
  BY <1>2, <1>4
<1>6. NeverOvershoots <=> [][NotPast]_vars
  BY DEF NeverOvershoots, NotPast
<1> QED
  BY <1>1, <1>3, <1>5, <1>6, TypeCorrect, PTL DEF Spec

-----------------------------------------------------------------------------
(* One scaler alone.                                                       *)

(* Its request is still about the capacity the group has.                  *)
AimInv(goal) == \A s \in Scalers : Requesting(s) => Aims(goal, req[s])

LEMMA AimStep ==
  ASSUME OneScaler, TypeOK, NEW goal \in Int, AimInv(goal),
         Keeps \/ \E s \in Scalers : Proceeds(s, goal)
  PROVE  /\ AimInv(goal)'
         /\ asg'.desired = asg.desired \/ Towards(asg.desired, goal, asg'.desired)
<1>1. CASE Keeps
  BY <1>1 DEF Keeps, AimInv, Aims
<1>2. ASSUME NEW s \in Scalers, Proceeds(s, goal)
      PROVE  /\ AimInv(goal)'
             /\ \/ asg'.desired = asg.desired
                \/ Towards(asg.desired, goal, asg'.desired)
  <2>1. \A t \in Scalers : t = s
    BY DEF OneScaler
  <2>2. CASE asg'.desired = asg.desired
    <3>1. CASE ~Requesting(s)'
      BY <2>1, <2>2, <3>1 DEF AimInv
    <3>2. CASE Requesting(s) /\ req'[s] = req[s]
      BY <2>1, <2>2, <3>2 DEF AimInv, Aims
    <3>3. CASE Aims(goal, req'[s])
      BY <2>1, <2>2, <3>3 DEF AimInv, Aims
    <3> QED
      BY <1>2, <2>2, <3>1, <3>2, <3>3 DEF Proceeds
  <2>3. CASE asg'.desired # asg.desired
    BY <1>2, <2>1, <2>3 DEF Proceeds, AimInv, Aims
  <2> QED
    BY <2>2, <2>3
<1> QED
  BY <1>1, <1>2

Aimed == \A m \in Demand : (Demand = {m}) => AimInv(SteadyCount(p, m))

MovesTowards ==
  \A m \in Demand :
    (Demand = {m}) => Towards(asg.desired, SteadyTarget(m), asg'.desired)

LEMMA AimedStep ==
  ASSUME SteadyAssumption, OneScaler, TypeOK, Aimed, Steadily
  PROVE  Aimed' /\ MovesTowards
<1> SUFFICES ASSUME NEW m \in Demand, Demand = {m}
             PROVE  /\ AimInv(SteadyCount(p, m))'
                    /\ Towards(asg.desired, SteadyTarget(m), asg'.desired)
  BY DEF Aimed, MovesTowards
<1>1. SteadyTarget(m) = SteadyCount(p, m) /\ SteadyCount(p, m) \in Int
  BY SteadyGoal, ConstantFacts DEF SteadyAssumption
<1>2. p' = p /\ (Keeps \/ \E s \in Scalers : Proceeds(s, SteadyCount(p, m)))
  BY DEF Steadily, Keeps, Proceeds
<1>3. PICK goal \in Int : goal = SteadyCount(p, m)
  BY <1>1
<1>4. SteadyCount(p, m)' = goal
  BY <1>2, <1>3 DEF SteadyCount
<1>5. AimInv(goal)
  BY <1>3 DEF Aimed
<1>6. /\ AimInv(goal)'
      /\ asg'.desired = asg.desired \/ Towards(asg.desired, goal, asg'.desired)
  BY <1>2, <1>3, <1>5, AimStep
<1>7. Towards(asg.desired, goal, asg.desired)
  BY <1>3, ConstantFacts DEF Towards, TypeOK, Group
<1> QED
  BY <1>1, <1>3, <1>4, <1>6, <1>7 DEF AimInv

LEMMA AimedInit == Init => Aimed
BY DEF Init, Aimed, AimInv, Requesting

(* Under a steady load one scaler only ever moves the capacity towards what*)
(* the load asks for, and it leaves the capacity alone once it is there,   *)
(* for every load, factor, cooldown and size of the group, and with calls  *)
(* that fail or lose their answer.                                         *)
THEOREM MovesTowardsCorrect ==
  ASSUME SteadyAssumption, OneScaler
  PROVE  Spec => MovesTowardsTarget
<1>1. Init => Aimed /\ MeasuredInv
  BY OneSidedInit, AimedInit
<1>2. TypeOK /\ MeasuredInv /\ [Next]_vars => Steadily
  BY SteadyStep DEF Steadily
<1>3. TypeOK /\ MeasuredInv /\ [Next]_vars => MeasuredInv'
  BY MeasuredStep
<1>4. TypeOK /\ Aimed /\ MeasuredInv /\ [Next]_vars => Aimed' /\ [MovesTowards]_vars
  BY <1>2, AimedStep
<1>5. MovesTowardsTarget <=> [][MovesTowards]_vars
  BY DEF MovesTowardsTarget, MovesTowards
<1> QED
  BY <1>1, <1>3, <1>4, <1>5, TypeCorrect, PTL DEF Spec

-----------------------------------------------------------------------------
(* The Lambda.                                                             *)

LEMMA LambdaMeasuredStep ==
  ASSUME LambdaTypeOK, MeasuredInv, [LambdaNext]_allVars
  PROVE  MeasuredInv'
<1>1. CASE [Next]_vars
  BY <1>1, MeasuredStep DEF LambdaTypeOK
<1>2. ASSUME NEW e \in Scalers, Build(e) PROVE MeasuredInv'
  BY <1>2 DEF Build, runVars, MeasuredInv
<1>3. ASSUME NEW e \in Scalers, Return(e) \/ Kill(e) PROVE MeasuredInv'
  BY <1>3
  DEF Return, Kill, DropScaler, ForgetMetrics, MeasuredInv, LambdaTypeOK,
      TypeOK
<1> QED
  BY <1>1, <1>2, <1>3, LambdaStepCases

(* A kill drops a request and a new scaler has none.                       *)
LEMMA LambdaSteadyStep ==
  ASSUME SteadyAssumption, LambdaTypeOK, MeasuredInv, [LambdaNext]_allVars
  PROVE  Steadily
<1>1. CASE [Next]_vars
  BY <1>1, SteadyStep DEF Steadily, LambdaTypeOK
<1>2. ASSUME NEW e \in Scalers, Build(e) PROVE Keeps
  BY <1>2 DEF Build, runVars, Keeps, Requesting
<1>3. ASSUME NEW e \in Scalers, Return(e) \/ Kill(e) PROVE Keeps
  <2>1. /\ p' = p /\ asg' = asg
        /\ pc' = [pc EXCEPT ![e] = "start"]
        /\ req' = [req EXCEPT ![e] = NoRequest]
    BY <1>3 DEF Return, Kill, DropScaler
  <2>2. DOMAIN pc = Scalers /\ DOMAIN req = Scalers
    BY DEF LambdaTypeOK, TypeOK
  <2> QED
    BY <2>1, <2>2 DEF Keeps, Requesting
<1> QED
  BY <1>1, <1>2, <1>3, LambdaStepCases DEF Steadily

(* Environments that overlap, take turns, are killed anywhere and start    *)
(* again never carry the capacity past what a steady load asks for either. *)
THEOREM LambdaNeverOvershoots ==
  ASSUME SteadyAssumption
  PROVE  LambdaSpec => NeverOvershoots
<1>1. LambdaInit => OneSided /\ MeasuredInv
  BY OneSidedInit DEF LambdaInit
<1>2. LambdaTypeOK /\ MeasuredInv /\ [LambdaNext]_allVars
        => Steadily /\ MeasuredInv'
  BY LambdaSteadyStep, LambdaMeasuredStep
<1>3. LambdaTypeOK /\ OneSided /\ MeasuredInv /\ [LambdaNext]_allVars
        => OneSided' /\ [NotPast]_vars
  BY <1>2, OneSidedStep DEF LambdaTypeOK
<1>4. NeverOvershoots <=> [][NotPast]_vars
  BY DEF NeverOvershoots, NotPast
<1> QED
  BY <1>1, <1>2, <1>3, <1>4, LambdaTypeCorrect, PTL DEF LambdaSpec

(* One environment moves the capacity towards what a steady load asks for  *)
(* and leaves it there, across invocations, kills and cold starts, whatever*)
(* its lookups answer.                                                     *)
THEOREM LambdaMovesTowards ==
  ASSUME SteadyAssumption, OneScaler
  PROVE  LambdaSpec => MovesTowardsTarget
<1>1. LambdaInit => Aimed /\ MeasuredInv
  BY OneSidedInit, AimedInit DEF LambdaInit
<1>2. LambdaTypeOK /\ MeasuredInv /\ [LambdaNext]_allVars
        => Steadily /\ MeasuredInv'
  BY LambdaSteadyStep, LambdaMeasuredStep
<1>3. LambdaTypeOK /\ Aimed /\ MeasuredInv /\ [LambdaNext]_allVars
        => Aimed' /\ [MovesTowards]_vars
  BY <1>2, AimedStep DEF LambdaTypeOK
<1>4. MovesTowardsTarget <=> [][MovesTowards]_vars
  BY DEF MovesTowardsTarget, MovesTowards
<1> QED
  BY <1>1, <1>2, <1>3, <1>4, LambdaTypeCorrect, PTL DEF LambdaSpec

=============================================================================
