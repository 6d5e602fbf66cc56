----------------------------- MODULE LambdaProofs -----------------------------
(***************************************************************************)
(* LambdaScaler for every set of environments, every configuration and     *)
(* every size of the group: its types, and for one environment the pacing  *)
(* of the capacity across invocations, kills and cold starts.              *)
(***************************************************************************)
EXTENDS LambdaScaler, ScalerProofs

-----------------------------------------------------------------------------
(* Types.                                                                  *)

(* What a step of the Lambda is to the scaler inside it.                   *)
LEMMA LambdaStepCases ==
  ASSUME [LambdaNext]_allVars
  PROVE  \/ [Next]_vars
         \/ \E e \in Scalers : Build(e) \/ Return(e) \/ Kill(e)
<1>1. ASSUME NEW e \in Scalers,
             Invoke(e) \/ Fetch(e) \/ BuildFails(e) \/ Expire(e)
               \/ IntervalOver(e)
      PROVE  UNCHANGED vars
  BY <1>1 DEF Invoke, Fetch, BuildFails, Expire, IntervalOver
<1>2. ASSUME NEW e \in Scalers, RunStep(e) PROVE Next
  BY <1>2 DEF RunStep, Next
<1>3. Environment \/ LambdaTick => Next
  BY DEF Environment, LambdaTick, Next
<1>4. UNCHANGED allVars => UNCHANGED vars
  BY DEF allVars
<1> QED
  BY <1>1, <1>2, <1>3, <1>4 DEF LambdaNext, Handler

LEMMA DropScalerType ==
  ASSUME TypeOK, NEW e \in Scalers, DropScaler(e)
  PROVE  TypeOK'
<1>1. NoMetrics \in AgentMetrics /\ NoRequest \in Request
  BY DEF NoMetrics, AgentMetrics, NoRequest, Request
<1>2. Never \in AgeOrNever /\ "start" \in Steps
  BY DEF AgeOrNever, Steps
<1> QED
  BY <1>1, <1>2 DEF DropScaler, ForgetMetrics, historyVars, TypeOK

LEMMA LookupType ==
  ASSUME NEW e \in Scalers, NEW global \in [Scalers -> AgeOrNever],
         NEW event \in AgeOrNever, NEW asked, NEW mayMiss
  PROVE  Lookup(e, asked, mayMiss, event, global) \subseteq AgeOrNever
BY DEF Lookup

LEMMA LambdaTypeInit == LambdaInit => LambdaTypeOK
BY TypeInit DEF LambdaInit, LambdaTypeOK, Phases, AgeOrNever

LEMMA LambdaTypeStep == LambdaTypeOK /\ [LambdaNext]_allVars => LambdaTypeOK'
<1> SUFFICES ASSUME LambdaTypeOK, [LambdaNext]_allVars PROVE LambdaTypeOK'
  OBVIOUS
<1> USE DEF globalVars, groupHistory
<1> DEFINE LambdaPart ==
             /\ phase \in [Scalers -> Phases]
             /\ fetched \in [Scalers -> BOOLEAN]
             /\ globalIn \in [Scalers -> AgeOrNever]
             /\ globalOut \in [Scalers -> AgeOrNever]
             /\ expired \in [Scalers -> BOOLEAN]
             /\ sinceRaised \in AgeOrNever
             /\ priorLowered \in AgeOrNever
<1>1. TypeOK'
  <2>1. ASSUME NEW e \in Scalers, Build(e) PROVE TypeOK'
    BY <2>1 DEF Build, LambdaTypeOK, TypeOK, runVars, historyVars
  <2>2. ASSUME NEW e \in Scalers, Return(e) \/ Kill(e) PROVE TypeOK'
    BY <2>2, DropScalerType DEF Return, Kill, LambdaTypeOK
  <2> QED
    BY <2>1, <2>2, LambdaStepCases, TypeStep DEF LambdaTypeOK
<1>2. LambdaPart'
  <2> USE DEF LambdaTypeOK, Phases
  <2>1. Never \in AgeOrNever /\ 0 \in AgeOrNever
    BY ConstantFacts DEF AgeOrNever, Ages
  <2>2. ASSUME NEW e \in Scalers,
               Invoke(e) \/ Build(e) \/ BuildFails(e) \/ Expire(e)
                 \/ IntervalOver(e) \/ Return(e)
        PROVE  LambdaPart'
    BY <2>2 DEF Enter, Invoke, Build, BuildFails, Expire, IntervalOver, Return
  <2>3. ASSUME NEW e \in Scalers, Fetch(e) PROVE LambdaPart'
    <3>1. CASE UNCHANGED globalVars
      BY <2>3, <3>1 DEF Enter, Fetch
    <3>2. CASE FetchFound(e)
      <4>1. \A event \in AgeOrNever :
              /\ LookupIn(e, event) \subseteq AgeOrNever
              /\ LookupOut(e, event) \subseteq AgeOrNever
        BY LookupType DEF LookupIn, LookupOut
      <4>2. sinceLowered \in AgeOrNever
        BY DEF TypeOK
      <4>3. globalIn' \in [Scalers -> AgeOrNever]
        BY <3>2, <4>1, <4>2 DEF FetchFound
      <4>4. globalOut' \in [Scalers -> AgeOrNever]
        BY <3>2, <4>1 DEF FetchFound
      <4> QED
        BY <2>3, <3>2, <4>3, <4>4 DEF Enter, Fetch, FetchFound
    <3> QED
      BY <2>3, <3>1, <3>2 DEF Fetch, FetchFailed
  <2>4. ASSUME NEW e \in Scalers, RunStep(e) PROVE LambdaPart'
    <3>1. lastIn'[e] \in AgeOrNever /\ lastOut'[e] \in AgeOrNever
      BY <1>1, <2>4 DEF TypeOK
    <3>2. sinceLowered \in AgeOrNever
      BY DEF TypeOK
    <3> QED
      BY <2>1, <2>4, <3>1, <3>2 DEF RunStep, Enter
  <2>5. ASSUME NEW e \in Scalers, Kill(e) PROVE LambdaPart'
    BY <2>1, <2>5 DEF Kill
  <2>6. CASE Environment \/ UNCHANGED allVars
    BY <2>6 DEF Environment, lambdaVars, allVars
  <2>7. CASE LambdaTick
    BY <2>7, OlderType DEF LambdaTick
  <2> QED
    BY <2>2, <2>3, <2>4, <2>5, <2>6, <2>7 DEF LambdaNext, Handler
<1> QED
  BY <1>1, <1>2 DEF LambdaTypeOK

(* Every reachable state of the Lambda is well typed, the scaler inside it *)
(* included.                                                               *)
THEOREM LambdaTypeCorrect == LambdaSpec => []LambdaTypeOK
BY LambdaTypeInit, LambdaTypeStep, PTL DEF LambdaSpec

-----------------------------------------------------------------------------
(* The bounds of requests.                                                 *)

(* Neither a kill nor a new scaler brings back a request: in the Lambda too*)
(* no environment ever asks for a capacity outside the group's limits.     *)
THEOREM LambdaBoundsCorrect == LambdaSpec => []RequestsWithinBounds
<1>1. LambdaInit => RequestsWithinBounds
  BY DEF LambdaInit, Init, RequestsWithinBounds, Requesting
<1>2. LambdaTypeOK /\ RequestsWithinBounds /\ [LambdaNext]_allVars
        => RequestsWithinBounds'
  <2> SUFFICES ASSUME LambdaTypeOK, RequestsWithinBounds,
                      [LambdaNext]_allVars
               PROVE  RequestsWithinBounds'
    OBVIOUS
  <2>1. CASE [Next]_vars
    BY <2>1, BoundsStep DEF LambdaTypeOK
  <2>2. ASSUME NEW e \in Scalers, Build(e) PROVE RequestsWithinBounds'
    BY <2>2 DEF Build, runVars, RequestsWithinBounds, Requesting
  <2>3. ASSUME NEW e \in Scalers, Return(e) \/ Kill(e)
        PROVE  RequestsWithinBounds'
    <3>1. /\ p' = p /\ pc' = [pc EXCEPT ![e] = "start"]
          /\ \A t \in Scalers \ {e} : req'[t] = req[t]
      BY <2>3 DEF Return, Kill, DropScaler, LambdaTypeOK, TypeOK
    <3> QED
      BY <3>1 DEF RequestsWithinBounds, Requesting, LambdaTypeOK, TypeOK
  <2> QED
    BY <2>1, <2>2, <2>3, LambdaStepCases
<1> QED
  BY <1>1, <1>2, LambdaTypeCorrect, PTL DEF LambdaSpec

-----------------------------------------------------------------------------
(* The decisions.                                                          *)

(* What an environment requests, a run decided: neither a new scaler nor a *)
(* kill requests anything.                                                 *)
LEMMA LambdaRequests ==
  ASSUME LambdaTypeOK, [LambdaNext]_allVars, NEW s \in Scalers, Requests(s)
  PROVE  Next
<1>1. pc[s] = "describe" /\ pc'[s] \in {"history", "request"}
  BY DEF Requests, Deciding
<1>2. ~(UNCHANGED vars)
  BY <1>1 DEF vars
<1>3. ASSUME NEW e \in Scalers PROVE ~Build(e)
  BY <1>1 DEF Build, runVars
<1>4. ASSUME NEW e \in Scalers PROVE ~(Return(e) \/ Kill(e))
  BY <1>1 DEF Return, Kill, DropScaler, LambdaTypeOK, TypeOK
<1> QED
  BY <1>2, <1>3, <1>4, LambdaStepCases

(* In the Lambda too, metrics that are too old change no capacity in       *)
(* Elastic CI mode, whatever the environments and wherever they are killed;*)
(* an instance buffer excepted, as for the scaler alone.                   *)
THEOREM LambdaStaleMetricsHold ==
  ASSUME NoBuffer
  PROVE  LambdaSpec => StaleMetricsHoldCapacity
<1>1. LambdaTypeOK /\ [LambdaNext]_allVars =>
        [\A s \in Scalers :
           (p.elastic /\ Stale(s) /\ Requests(s))
             => req'[s].target = asg.desired]_vars
  <2> SUFFICES ASSUME LambdaTypeOK, [LambdaNext]_allVars, NEW s \in Scalers,
                      p.elastic, Stale(s), Requests(s)
               PROVE  req'[s].target = asg.desired
    OBVIOUS
  <2> QED
    BY LambdaRequests, RequestIsDecided, StaleDecision DEF LambdaTypeOK
<1> QED
  BY <1>1, LambdaTypeCorrect, PTL DEF LambdaSpec, StaleMetricsHoldCapacity

(* Nor does an environment take an instance away while there are jobs and  *)
(* agents are missing, also in its first run after a cold start.           *)
THEOREM LambdaMissingAgents == LambdaSpec => MissingAgentsKeepInstances
<1>1. LambdaTypeOK /\ [LambdaNext]_allVars =>
        [\A s \in Scalers :
           (/\ Requests(s)
            /\ AgentsRequired(p, metrics[s]) > 0
            /\ LowAvailability(p, metrics[s], Details)
            /\ asg.inService = asg.desired)
              => req'[s].kind = "out"]_vars
  BY LambdaRequests, MissingDecision DEF LambdaTypeOK
<1> QED
  BY <1>1, LambdaTypeCorrect, PTL DEF LambdaSpec, MissingAgentsKeepInstances

-----------------------------------------------------------------------------
(* The pacing of the capacity, across invocations and cold starts.         *)

(* Every lookup succeeds and sees every lowering, and it is asked for the  *)
(* last scale-in wherever a run may scale in: without DISABLE_SCALE_IN, or *)
(* outside Elastic CI mode, which ignores it.                              *)
LookupsTell ==
  /\ Lookups = {"found"}
  /\ \A c \in Configs : c.disableIn => ~c.elastic

(* Where the last lowering is remembered in each phase: by the scaler while*)
(* it runs, by the globals between two runs, and by AWS alone before the   *)
(* first lookup, whatever an invocation killed before had done.            *)
WarmInv ==
  /\ RequestInv
  /\ (p.disableIn /\ ~p.elastic) => sinceLowered = Never
  /\ \A e \in Scalers :
       /\ IF phase[e] = "run"
          THEN (pc[e] = "record" /\ ScaleIn(e)) \/ Remembers(lastIn[e])
          ELSE pc[e] = "start"
       /\ phase[e] \notin {"idle", "fetch"} => fetched[e]
       /\ (phase[e] # "run" /\ fetched[e]) => Remembers(globalIn[e])
       /\ phase[e] = "wait" => lastIn[e] = globalIn[e]

(* An environment that is alone and runs has the invariant of Scaler.      *)
LEMMA WarmRuns ==
  ASSUME OneScaler, WarmInv, NEW e \in Scalers, phase[e] = "run"
  PROVE  PacedInv
<1>1. \A t \in Scalers : t = e
  BY DEF OneScaler
<1> QED
  BY <1>1 DEF WarmInv, PacedInv, MemoryInv

(* Every step of the Lambda is a step of PacedCapacity or changes nothing  *)
(* it speaks of.                                                           *)
LEMMA LambdaRefinementStep ==
  ASSUME OneScaler, NoLostAnswers, LambdaTypeOK, WarmInv, [LambdaNext]_allVars
  PROVE  [Paced!Next]_(Paced!pacedVars)
<1>1. ASSUME NEW e \in Scalers, Build(e) \/ Return(e) \/ Kill(e)
      PROVE  UNCHANGED Paced!pacedVars
  BY <1>1 DEF Build, Return, Kill, DropScaler, historyVars, Paced!pacedVars
<1>2. CASE [Next]_vars
  BY <1>2, RefinementStep DEF LambdaTypeOK, WarmInv
<1> QED
  BY <1>1, <1>2, LambdaStepCases

(* Where lowering is disabled nothing is ever lowered.                     *)
LEMMA NeverLowered ==
  ASSUME OneScaler, NoLostAnswers, LambdaTypeOK, WarmInv, [LambdaNext]_allVars
  PROVE  (p'.disableIn /\ ~p'.elastic) => sinceLowered' = Never
<1>1. [Paced!Next]_(Paced!pacedVars)
  BY LambdaRefinementStep
<1>2. p' = p
  <2>1. [Next]_vars => p' = p
    BY OtherSteps, ScalerStepCases DEF Next, LambdaTypeOK
  <2>2. \A e \in Scalers : Build(e) \/ Return(e) \/ Kill(e) => p' = p
    BY DEF Build, Return, Kill, DropScaler
  <2> QED
    BY <2>1, <2>2, LambdaStepCases
<1> QED
  BY <1>1, <1>2
  DEF WarmInv, Paced!Next, Paced!Raise, Paced!Lower, Paced!SelfTerminate,
      Paced!Tick, Paced!pacedVars, Never

(* What an environment that is asked for it finds is the last lowering.    *)
LEMMA FetchFinds ==
  ASSUME LookupsTell, LambdaTypeOK, WarmInv, NEW e \in Scalers, FetchFound(e)
  PROVE  /\ sinceLowered # Never => globalIn'[e] = sinceLowered
         /\ fetched'[e] = TRUE
<1>1. PICK t \in LookupIn(e, sinceLowered) :
        globalIn' = [globalIn EXCEPT ![e] = t]
  BY DEF FetchFound, LookupsTell
<1>2. sinceLowered # Never => ~p.disableIn
  BY DEF WarmInv, LookupsTell, LambdaTypeOK, TypeOK
<1>3. sinceLowered # Never => t = sinceLowered
  BY <1>1, <1>2 DEF LookupIn, Lookup
<1> QED
  BY <1>1, <1>3 DEF FetchFound, LambdaTypeOK

LEMMA WarmStep ==
  ASSUME OneScaler, NoLostAnswers, LookupsTell,
         LambdaTypeOK, WarmInv, [LambdaNext]_allVars
  PROVE  WarmInv'
<1> USE DEF globalVars, groupHistory
<1> DEFINE EnvInv(e) ==
             /\ IF phase[e] = "run"
                THEN (pc[e] = "record" /\ ScaleIn(e)) \/ Remembers(lastIn[e])
                ELSE pc[e] = "start"
             /\ phase[e] \notin {"idle", "fetch"} => fetched[e]
             /\ (phase[e] # "run" /\ fetched[e]) => Remembers(globalIn[e])
             /\ phase[e] = "wait" => lastIn[e] = globalIn[e]
<1>1. SUFFICES /\ RequestInv'
               /\ \A e \in Scalers : EnvInv(e)'
  BY NeverLowered DEF WarmInv
<1>2. \A e \in Scalers : EnvInv(e)
  BY DEF WarmInv
<1>3. ASSUME NEW e \in Scalers, Invoke(e) \/ Fetch(e) \/ Build(e)
               \/ BuildFails(e) \/ RunStep(e) \/ Expire(e)
               \/ IntervalOver(e) \/ Return(e) \/ Kill(e)
      PROVE  RequestInv' /\ EnvInv(e)'
  <2>1. \A t \in Scalers : t = e
    BY DEF OneScaler
  <2>2. /\ DOMAIN phase = Scalers /\ DOMAIN pc = Scalers
        /\ DOMAIN fetched = Scalers /\ DOMAIN globalIn = Scalers
        /\ DOMAIN lastIn = Scalers
    BY DEF LambdaTypeOK, TypeOK
  <2>3. pc'[e] = "start" => RequestInv'
    BY <2>1 DEF RequestInv, Requesting
  <2>4. UNCHANGED vars => RequestInv'
    BY DEF WarmInv, RequestInv, Requesting, ScaleIn, vars
  <2>5. CASE Invoke(e) \/ BuildFails(e) \/ Expire(e) \/ IntervalOver(e)
    BY <1>2, <2>2, <2>4, <2>5
    DEF Invoke, BuildFails, Expire, IntervalOver, Enter, vars, Remembers,
        ScaleIn
  <2>6. CASE Fetch(e)
    <3>1. /\ phase[e] = "fetch" /\ phase'[e] = "build" /\ UNCHANGED vars
      BY <2>2, <2>6 DEF Fetch, Enter
    <3>2. fetched'[e] /\ Remembers(globalIn[e])'
      <4>1. CASE fetched[e]
        BY <1>2, <2>6, <3>1, <4>1 DEF Fetch, Remembers, vars
      <4>2. CASE ~fetched[e]
        <5>1. FetchFound(e)
          BY <2>6, <4>2 DEF Fetch, FetchFailed, LookupsTell
        <5>2. sinceLowered' = sinceLowered /\ sinceLowered \in AgeOrNever
          BY <3>1 DEF vars, LambdaTypeOK, TypeOK
        <5>3. /\ sinceLowered # Never => globalIn'[e] = sinceLowered
              /\ fetched'[e] = TRUE
          BY <5>1, FetchFinds
        <5>4. sinceLowered <= sinceLowered
          BY <5>2, ConstantFacts DEF AgeOrNever, Ages, Never
        <5> QED
          BY <5>2, <5>3, <5>4 DEF Remembers
      <4> QED
        BY <4>1, <4>2
    <3> QED
      BY <1>2, <2>4, <3>1, <3>2 DEF vars
  <2>7. CASE Build(e)
    BY <1>2, <2>2, <2>3, <2>7
    DEF Build, Enter, Remembers, runVars, historyVars
  <2>8. CASE RunStep(e)
    <3>1. phase[e] = "run" /\ ScalerStep(e) /\ Next
      BY <2>8 DEF RunStep, Next
    <3>2. PacedInv'
      BY <3>1, WarmRuns, PacedStep DEF LambdaTypeOK
    <3>3. (pc'[e] = "record" /\ ScaleIn(e)') \/ Remembers(lastIn[e])'
      BY <3>2 DEF PacedInv, MemoryInv
    <3>4. CASE RunEnds(e)
      <4>1. /\ phase'[e] \in {"return", "wait"}
            /\ globalIn'[e] = lastIn'[e] /\ fetched'[e] = fetched[e]
            /\ pc'[e] = "start"
        BY <2>2, <2>8, <3>4 DEF RunStep, Enter, RunEnds
      <4> QED
        BY <1>2, <3>1, <3>2, <3>3, <4>1 DEF PacedInv, Remembers
    <3>5. CASE ~RunEnds(e)
      BY <1>2, <2>8, <3>1, <3>2, <3>3, <3>5 DEF RunStep, PacedInv
    <3> QED
      BY <3>4, <3>5
  <2>9. CASE Return(e)
    <3>1. pc'[e] = "start" /\ sinceLowered' = sinceLowered
      BY <2>2, <2>9 DEF Return, DropScaler, historyVars
    <3> QED
      BY <1>2, <2>2, <2>3, <2>9, <3>1 DEF Return, Enter, Remembers
  <2>10. CASE Kill(e)
    BY <2>2, <2>3, <2>10 DEF Kill, DropScaler
  <2> QED
    BY <1>3, <2>5, <2>6, <2>7, <2>8, <2>9, <2>10
<1>4. ASSUME NEW e \in Scalers, Handler(e)
      PROVE  RequestInv' /\ \A t \in Scalers : EnvInv(t)'
  <2>1. \A t \in Scalers : t = e
    BY DEF OneScaler
  <2> QED
    BY <1>3, <1>4, <2>1 DEF Handler
<1>5. CASE Environment \/ LambdaTick \/ UNCHANGED allVars
  <2>1. /\ [Next]_vars /\ phase' = phase /\ fetched' = fetched /\ pc' = pc
        /\ req' = req
    BY <1>5, OtherSteps
    DEF Environment, LambdaTick, Next, allVars, lambdaVars
  <2>2. RequestInv'
    <3>1. CASE \E e \in Scalers : phase[e] = "run"
      BY <2>1, <3>1, WarmRuns, PacedStep DEF LambdaTypeOK, PacedInv
    <3>2. CASE \A e \in Scalers : phase[e] # "run"
      BY <1>2, <2>1, <3>2 DEF RequestInv, Requesting
    <3> QED
      BY <3>1, <3>2
  <2>3. ASSUME NEW e \in Scalers PROVE EnvInv(e)'
    <3>1. /\ Remembers(lastIn[e]) => Remembers(lastIn[e])'
          /\ Remembers(globalIn[e]) => Remembers(globalIn[e])'
          /\ lastIn[e] = globalIn[e] => lastIn'[e] = globalIn'[e]
      <4>1. CASE Environment \/ UNCHANGED allVars
        BY <4>1
        DEF Environment, GroupStep, SelfTerminate, eventVars, historyVars,
            lambdaVars, allVars, vars, Remembers
      <4>2. CASE LambdaTick
        <5>1. /\ lastIn[e] \in AgeOrNever /\ globalIn[e] \in AgeOrNever
              /\ sinceLowered \in AgeOrNever
          BY DEF LambdaTypeOK, TypeOK
        <5>2. /\ lastIn'[e] = Older(lastIn[e])
              /\ globalIn'[e] = Older(globalIn[e])
              /\ sinceLowered' = Older(sinceLowered)
          BY <4>2 DEF LambdaTick, Tick
        <5> QED
          BY <5>1, <5>2, OlderType DEF Remembers
      <4> QED
        BY <1>5, <4>1, <4>2
    <3> QED
      BY <1>2, <2>1, <3>1 DEF ScaleIn
  <2> QED
    BY <2>2, <2>3
<1> QED
  BY <1>4, <1>5 DEF LambdaNext

(* One environment implements PacedCapacity across its invocations, however*)
(* often it is killed, also between lowering the capacity and recording it:*)
(* as long as every lookup succeeds, is up to date and asks for the last   *)
(* scale-in, no restart lets the scaler lower twice within the cooldown.   *)
THEOREM LambdaPacedCorrect ==
  ASSUME OneScaler, NoLostAnswers, LookupsTell
  PROVE  LambdaSpec => ImplementsPaced
<1>1. LambdaInit => Paced!Init
  BY ConstantFacts DEF LambdaInit, Init, Paced!Init, Params, Never
<1>2. LambdaInit => WarmInv
  BY DEF LambdaInit, Init, WarmInv, RequestInv, Requesting
<1>3. LambdaTypeOK /\ WarmInv /\ [LambdaNext]_allVars => WarmInv'
  BY WarmStep
<1>4. LambdaTypeOK /\ WarmInv /\ [LambdaNext]_allVars
        => [Paced!Next]_(Paced!pacedVars)
  BY LambdaRefinementStep
<1> QED
  BY <1>1, <1>2, <1>3, <1>4, LambdaTypeCorrect, PTL
  DEF LambdaSpec, ImplementsPaced, Paced!Spec

=============================================================================
