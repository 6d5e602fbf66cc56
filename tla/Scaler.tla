-------------------------------- MODULE Scaler --------------------------------
(***************************************************************************)
(* Scaler.Run as the Lambda and the command-line program call it, over and *)
(* over, against one Auto Scaling group.                                   *)
(*                                                                         *)
(* A run is a chain of remote calls: clean up dangling instances (Elastic  *)
(* CI mode), poll Buildkite, describe the group and decide, look at the    *)
(* group's scaling history, send SIGTERMs (Elastic CI mode again), set the *)
(* desired capacity, and record when that was.  Each call is an action, so *)
(* the group, the instances, the clock and the other scalers move between  *)
(* any two of them; what a run decided rests on the snapshot of its own    *)
(* Describe call.  Scalers has two members when two Lambda environments    *)
(* overlap.                                                                *)
(*                                                                         *)
(* Definitions named for a mistake (RecordsOnlySuccess) are slips the      *)
(* checks are shown to notice; nothing else uses them.                     *)
(*                                                                         *)
(* There is no absolute clock.  A moment is kept as its age, the time since*)
(* it, which Tick advances up to AgeCap; AgeCap is above every duration    *)
(* the code compares an age with, so a capped age answers every comparison *)
(* as the true one would.  Never is the age of what did not happen         *)
(* (LastEvent.IsZero()).                                                   *)
(***************************************************************************)
EXTENDS ScalingRules

CONSTANTS
  Scalers,       \* the processes that run the scaler on this group
  Configs,       \* the configurations considered, one per behavior
  Demand,        \* the metrics Buildkite may answer with
  MinSize,       \* the group's MinSize
  MaxSize,       \* the group's MaxSize
  StaleAfter,    \* the age beyond which metrics are too stale: 2 minutes
  AgeCap,        \* bound of every age
  Outcomes,      \* what may become of a SetDesiredCapacity call
  MaxLeaving,    \* bound: instances being terminated at once
  SelfTerminating  \* do idle instances terminate themselves?

Ages == 0..AgeCap
AgeOrNever == Ages \union {Never}

ASSUME ScalerAssumption ==
  /\ Configs \subseteq Params
  /\ \A c \in Configs : c.inCooldown <= AgeCap /\ c.outCooldown <= AgeCap
  /\ Demand \subseteq AgentMetrics
  /\ MinSize \in Nat
  /\ MaxSize \in Nat
  /\ MinSize <= MaxSize
  /\ StaleAfter \in Nat
  /\ AgeCap \in Nat
  /\ StaleAfter < AgeCap
  /\ Outcomes \subseteq {"ok", "failed", "lost"}
  /\ MaxLeaving \in Nat
  /\ SelfTerminating \in BOOLEAN

VARIABLES
  p,             \* the configuration; read once, never changed
  asg,           \* the group in AWS
  pc,            \* where each scaler's run stands
  metrics,       \* what each scaler's poll returned
  polled,        \* the age of those metrics (AgentMetrics.Timestamp)
  req,           \* the change each scaler decided on
  lastIn,        \* scaleInParams.LastEvent
  lastOut,       \* scaleOutParams.LastEvent
  sinceLowered,  \* history: age of the last SetDesiredCapacity that lowered
  sinceSignal,   \* history: age of each scaler's last wave of SIGTERMs
  changedBy      \* history: who last changed the desired capacity

vars == << p, asg, pc, metrics, polled, req, lastIn, lastOut,
           sinceLowered, sinceSignal, changedBy >>
runVars     == << pc, metrics, polled, req >>
eventVars   == << lastIn, lastOut >>
historyVars == << sinceLowered, sinceSignal, changedBy >>

-----------------------------------------------------------------------------

(* Instances of the group by lifecycle state.  Those leaving are still     *)
(* listed by Describe, with a state that is neither Pending nor InService. *)
Group ==
  [ desired : MinSize..MaxSize, pending : Nat, inService : Nat, leaving : Nat ]

Request ==
  [ kind : {"none", "out", "in", "graceful"},
    target : Nat, from : Nat, ids : Nat ]

Steps == {"start", "poll", "describe", "history", "signal", "request",
          "record", "check"}

NoMetrics == [scheduled |-> 0, running |-> 0, waiting |-> 0, total |-> 0]
NoRequest == [kind |-> "none", target |-> 0, from |-> 0, ids |-> 0]

TypeOK ==
  /\ p \in Configs
  /\ asg \in Group
  /\ pc \in [Scalers -> Steps]
  /\ metrics \in [Scalers -> AgentMetrics]
  /\ polled \in [Scalers -> AgeOrNever]
  /\ req \in [Scalers -> Request]
  /\ lastIn \in [Scalers -> AgeOrNever]
  /\ lastOut \in [Scalers -> AgeOrNever]
  /\ sinceLowered \in AgeOrNever
  /\ sinceSignal \in [Scalers -> AgeOrNever]
  /\ changedBy \in {"scaler", "instance"}

Init ==
  /\ p \in Configs
  /\ asg \in [desired : MinSize..MaxSize, pending : {0},
              inService : MinSize..MaxSize, leaving : {0}]
  /\ pc = [s \in Scalers |-> "start"]
  /\ metrics = [s \in Scalers |-> NoMetrics]
  /\ polled = [s \in Scalers |-> Never]
  /\ req = [s \in Scalers |-> NoRequest]
  /\ lastIn = [s \in Scalers |-> Never]
  /\ lastOut = [s \in Scalers |-> Never]
  /\ sinceLowered = Never
  /\ sinceSignal = [s \in Scalers |-> Never]
  /\ changedBy = "instance"

-----------------------------------------------------------------------------
(* One run of one scaler.                                                  *)

(* What Describe returns: the group as it is at this instant.              *)
Details ==
  [ pending |-> asg.pending, desired |-> asg.desired,
    min |-> MinSize, max |-> MaxSize,
    ids |-> asg.pending + asg.inService + asg.leaving,
    actual |-> asg.inService ]

(* A dangling check marks some of the instances it looks at unhealthy, and *)
(* the group starts to replace them.  Which ones is the business of the    *)
(* check itself; here any number up to the configured limit, where 0 means *)
(* no limit.                                                               *)
ExaminedBeyondGroup == p.maxDangling

Examined == IF p.maxDangling = 0 THEN asg.inService
                                 ELSE Least(p.maxDangling, asg.inService)

MarkUnhealthy ==
  \E k \in 0..Examined :
    /\ asg.leaving + k <= MaxLeaving
    /\ asg' = [asg EXCEPT !.inService = @ - k, !.leaving = @ + k]

(* Metrics are read by the decision and by nothing after it.               *)
ForgetMetrics(s) ==
  /\ metrics' = [metrics EXCEPT ![s] = NoMetrics]
  /\ polled' = [polled EXCEPT ![s] = Never]

EndRun(s) ==
  /\ pc' = [pc EXCEPT ![s] = "start"]
  /\ req' = [req EXCEPT ![s] = NoRequest]
  /\ ForgetMetrics(s)

(* Run: the cleanup that precedes everything else in Elastic CI mode; its  *)
(* failure is only logged.                                                 *)
BeginRun(s) ==
  /\ pc[s] = "start"
  /\ pc' = [pc EXCEPT ![s] = "poll"]
  /\ IF p.elastic THEN MarkUnhealthy ELSE UNCHANGED asg
  /\ UNCHANGED << p, metrics, polled, req, eventVars, historyVars >>

(* GetAgentMetrics: the client stamps the answer itself when it arrives.   *)
PollMetrics(s) ==
  /\ pc[s] = "poll"
  /\ \E m \in Demand : metrics' = [metrics EXCEPT ![s] = m]
  /\ polled' = [polled EXCEPT ![s] = 0]
  /\ pc' = [pc EXCEPT ![s] = "describe"]
  /\ UNCHANGED << p, asg, req, eventVars, historyVars >>

(* The poll, the publication of its metrics or the Describe call fails.    *)
AbortRun(s) ==
  /\ pc[s] \in {"poll", "describe"}
  /\ EndRun(s)
  /\ UNCHANGED << p, asg, eventVars, historyVars >>

(* The decision: Describe's answer, the calculation, the choice of a       *)
(* direction and the cooldown of that direction, all local to the process. *)
Stale(s) == polled[s] > StaleAfter

Decide(s) ==
  LET a == Details
      t == Target(p, metrics[s], a, Stale(s))
      Go(step, kind, target) ==
        /\ pc' = [pc EXCEPT ![s] = step]
        /\ req' = [req EXCEPT ![s] = [kind |-> kind, target |-> target,
                                      from |-> a.desired, ids |-> a.ids]]
        /\ ForgetMetrics(s)
      Out == WantsOut(a, t) /\ ~ScaleOutBlocked(p, lastOut[s], lastIn[s])
      In  == WantsIn(p, a, t) /\ ~ScaleInBlocked(p, lastIn[s], lastOut[s])
      inTarget == ScaleInTarget(p, a, t)
  IN  \/ Out /\ Go("request", "out", ScaleOutTarget(p, a, t))
      \/ In /\ Go(IF p.elastic THEN "history" ELSE "request",
                  IF Graceful(p, a, inTarget) THEN "graceful" ELSE "in",
                  inTarget)
      \/ WantsDanglingCheck(p, metrics[s], a, t) /\ Go("check", "none", 0)
      \/ /\ ~Out /\ ~In /\ ~WantsDanglingCheck(p, metrics[s], a, t)
         /\ EndRun(s)

Describe(s) ==
  /\ pc[s] = "describe"
  /\ Decide(s)
  /\ UNCHANGED << p, asg, eventVars, historyVars >>

(* The dangling check at the end of Run, when no agent reports at all.     *)
CheckDangling(s) ==
  /\ pc[s] = "check"
  /\ MarkUnhealthy
  /\ EndRun(s)
  /\ UNCHANGED << p, eventVars, historyVars >>

(* scaleIn in Elastic CI mode: a lowering of the desired capacity that the *)
(* group's own history shows within the cooldown stops the run.  Lowerings *)
(* whose activities are not yet successful are not found, and a failing    *)
(* call is ignored, so the check may also let the run go on.               *)
HistoryBlocks(s) ==
  /\ pc[s] = "history"
  /\ sinceLowered # Never
  /\ sinceLowered < p.inCooldown
  /\ EndRun(s)
  /\ UNCHANGED << p, asg, eventVars, historyVars >>

HistoryAllows(s) ==
  /\ pc[s] = "history"
  /\ pc' = [pc EXCEPT ![s] = IF req[s].kind = "graceful" THEN "signal"
                                                         ELSE "request"]
  /\ UNCHANGED << p, asg, metrics, polled, req, eventVars, historyVars >>

(* The loop over the oldest instances; an instance that cannot be reached  *)
(* is skipped.                                                             *)
SendSIGTERMs(s) ==
  /\ pc[s] = "signal"
  /\ pc' = [pc EXCEPT ![s] = "request"]
  /\ sinceSignal' = [sinceSignal EXCEPT ![s] = 0]
  /\ UNCHANGED << p, asg, metrics, polled, req, eventVars,
                  sinceLowered, changedBy >>

(* setDesiredCapacity.  AWS rejects a capacity outside MinSize..MaxSize; a *)
(* call may also fail without effect, or take effect while its answer is   *)
(* lost.  A failed standard scale-in or scale-out ends the run; a graceful *)
(* scale-in swallows the error and goes on.                                *)
Accepted(s, outcome) ==
  outcome # "failed" /\ req[s].target \in MinSize..MaxSize

RecordsOnlySuccess(s, outcome) == Accepted(s, outcome) /\ outcome = "ok"

Records(s, outcome) ==
  \/ Accepted(s, outcome) /\ outcome = "ok"
  \/ req[s].kind = "graceful"

SetDesiredCapacity(s) ==
  /\ pc[s] = "request"
  /\ \E outcome \in Outcomes :
       LET applied == Accepted(s, outcome)
           changes == applied /\ req[s].target # asg.desired
           lowers  == applied /\ req[s].target < asg.desired
       IN  /\ asg' = IF applied THEN [asg EXCEPT !.desired = req[s].target]
                                ELSE asg
           /\ sinceLowered' = IF lowers THEN 0 ELSE sinceLowered
           /\ changedBy' = IF changes THEN "scaler" ELSE changedBy
           /\ IF Records(s, outcome)
              THEN /\ pc' = [pc EXCEPT ![s] = "record"]
                   /\ UNCHANGED << metrics, polled, req >>
              ELSE EndRun(s)
  /\ UNCHANGED << p, eventVars, sinceSignal >>

(* LastEvent = now.  A graceful scale-in of a group with one instance      *)
(* first asks SSM about it and terminates it when that call fails.         *)
TerminateSingle(s) ==
  /\ req[s].kind = "graceful" /\ req[s].from <= 1 /\ req[s].ids = 1
  /\ asg.leaving < MaxLeaving
  /\ \/ /\ asg.inService > 0
        /\ asg' = [asg EXCEPT !.inService = @ - 1, !.leaving = @ + 1]
     \/ /\ asg.pending > 0
        /\ asg' = [asg EXCEPT !.pending = @ - 1, !.leaving = @ + 1]

Record(s) ==
  /\ pc[s] = "record"
  /\ lastOut' = IF req[s].kind = "out" THEN [lastOut EXCEPT ![s] = 0]
                                       ELSE lastOut
  /\ lastIn' = IF req[s].kind = "out" THEN lastIn
                                      ELSE [lastIn EXCEPT ![s] = 0]
  /\ UNCHANGED asg \/ TerminateSingle(s)
  /\ EndRun(s)
  /\ UNCHANGED << p, historyVars >>

ScalerStep(s) ==
  \/ BeginRun(s)
  \/ PollMetrics(s)
  \/ AbortRun(s)
  \/ Describe(s)
  \/ CheckDangling(s)
  \/ HistoryBlocks(s)
  \/ HistoryAllows(s)
  \/ SendSIGTERMs(s)
  \/ SetDesiredCapacity(s)
  \/ Record(s)

-----------------------------------------------------------------------------
(* The group and its instances, which AWS moves towards the desired        *)
(* capacity, and time.                                                     *)

Launch ==
  /\ asg.pending + asg.inService < asg.desired
  /\ asg' = [asg EXCEPT !.pending = @ + 1]

BecomeInService ==
  /\ asg.pending > 0
  /\ asg' = [asg EXCEPT !.pending = @ - 1, !.inService = @ + 1]

Shrink ==
  /\ asg.pending + asg.inService > asg.desired
  /\ asg.inService > 0
  /\ asg.leaving < MaxLeaving
  /\ asg' = [asg EXCEPT !.inService = @ - 1, !.leaving = @ + 1]

CancelPending ==
  /\ asg.pending + asg.inService > asg.desired
  /\ asg.pending > 0
  /\ asg' = [asg EXCEPT !.pending = @ - 1]

InstanceFails ==
  /\ asg.inService > 0
  /\ asg.leaving < MaxLeaving
  /\ asg' = [asg EXCEPT !.inService = @ - 1, !.leaving = @ + 1]

Gone ==
  /\ asg.leaving > 0
  /\ asg' = [asg EXCEPT !.leaving = @ - 1]

GroupStep ==
  /\ Launch \/ BecomeInService \/ Shrink \/ CancelPending
       \/ InstanceFails \/ Gone
  /\ UNCHANGED << p, runVars, eventVars, historyVars >>

(* An instance whose agent stopped terminates itself and decrements the    *)
(* desired capacity in one call (README.md).                               *)
SelfTerminate ==
  /\ SelfTerminating
  /\ asg.inService > 0
  /\ asg.desired > MinSize
  /\ asg.leaving < MaxLeaving
  /\ asg' = [asg EXCEPT !.desired = @ - 1, !.inService = @ - 1,
                        !.leaving = @ + 1]
  /\ changedBy' = "instance"
  /\ UNCHANGED << p, runVars, eventVars, sinceLowered, sinceSignal >>

Older(age) == IF age = Never THEN Never ELSE Least(age + 1, AgeCap)

Tick ==
  /\ polled' = [s \in Scalers |-> Older(polled[s])]
  /\ lastIn' = [s \in Scalers |-> Older(lastIn[s])]
  /\ lastOut' = [s \in Scalers |-> Older(lastOut[s])]
  /\ sinceLowered' = Older(sinceLowered)
  /\ sinceSignal' = [s \in Scalers |-> Older(sinceSignal[s])]
  /\ UNCHANGED << p, asg, pc, metrics, req, changedBy >>

-----------------------------------------------------------------------------

Next ==
  \/ \E s \in Scalers : ScalerStep(s)
  \/ GroupStep
  \/ SelfTerminate
  \/ Tick

Spec == Init /\ [][Next]_vars

-----------------------------------------------------------------------------
(* Fairness.  The loops of lambda/main.go and main.go call Run again and   *)
(* again, and every call in it returns.  A call that is tried again and    *)
(* again succeeds now and then, a Describe call before its run's metrics   *)
(* are stale; failures, lost answers and failing instances are not         *)
(* prevented, and AWS goes on moving the group towards its desired         *)
(* capacity.                                                               *)
Fairness ==
  /\ \A s \in Scalers :
       /\ WF_vars(BeginRun(s))
       /\ SF_vars(PollMetrics(s))
       /\ WF_vars(Describe(s))
       /\ SF_vars(Describe(s) /\ ~Stale(s))
       /\ WF_vars(CheckDangling(s))
       /\ WF_vars(HistoryBlocks(s) \/ HistoryAllows(s))
       /\ WF_vars(SendSIGTERMs(s))
       /\ WF_vars(SetDesiredCapacity(s))
       /\ SF_vars(SetDesiredCapacity(s) /\ asg'.desired = req[s].target)
       /\ WF_vars(Record(s))
  /\ WF_vars(GroupStep /\ BecomeInService)
  /\ WF_vars(GroupStep /\ Launch)
  /\ WF_vars(GroupStep /\ (Shrink \/ CancelPending))
  /\ WF_vars(GroupStep /\ Gone)
  /\ WF_vars(Tick)

LiveSpec == Spec /\ Fairness

-----------------------------------------------------------------------------
(* Properties.                                                             *)

Deciding(s)   == pc[s] = "describe"
Requesting(s) == pc[s] \in {"history", "signal", "request"}
Requests(s)   == Deciding(s) /\ pc'[s] \in {"history", "request"}

(* Every capacity a scaler is about to ask for lies within the group's     *)
(* limits, so AWS never refuses one: after the buffer, the availability    *)
(* boost, the clamp and the scaling factor, whatever the snapshot.  Factors*)
(* of scale-in above 1 are excepted: scaleIn, entered with fewer instances *)
(* desired than wanted, limits its result by MinSize only.                 *)
RequestsWithinBounds ==
  \A s \in Scalers :
    (Requesting(s) /\ p.inFactor <= Unit)
      => req[s].target \in MinSize..MaxSize

(* Two waves of SIGTERMs of a scaler are a scale-in cooldown apart, also   *)
(* when the call that should have lowered the capacity after the first one *)
(* failed or its answer was lost: the graceful path records the event      *)
(* regardless.                                                             *)
SignalsPaced ==
  [][\A s \in Scalers :
       (pc[s] = "signal" /\ pc'[s] # pc[s])
         => \/ sinceSignal[s] = Never
            \/ sinceSignal[s] >= p.inCooldown]_vars

(* A decision taken on metrics that are too old keeps the desired capacity *)
(* of the group: "return current desired count to avoid scaling based on   *)
(* stale data" (scaling_calculator.go).                                    *)
StaleMetricsHoldCapacity ==
  [][\A s \in Scalers :
       (p.elastic /\ Stale(s) /\ Requests(s))
         => req'[s].target = asg.desired]_vars

(* While there are jobs and agents are missing, a group whose instances all*)
(* run is never scaled in: the boost exceeds the jobs, buffer, clamp and   *)
(* limits do not take it back, and neither do stale metrics.               *)
MissingAgentsKeepInstances ==
  [][\A s \in Scalers :
       (/\ Requests(s)
        /\ AgentsRequired(p, metrics[s]) > 0
        /\ LowAvailability(p, metrics[s], Details)
        /\ asg.inService = asg.desired)
          => req'[s].kind = "out"]_vars

(* What the scaler promises of the capacity (PacedCapacity), which one     *)
(* scaler keeps whatever its instances do, as long as no SetDesiredCapacity*)
(* takes effect without its answer arriving: the snapshot it decided on is *)
(* then out of date only by instances that terminated themselves.          *)
Paced == INSTANCE PacedCapacity WITH
  Low <- MinSize, High <- MaxSize, capacity <- asg.desired,
  idle <- sinceLowered, mayLower <- ~(p.disableIn /\ ~p.elastic),
  cooldown <- p.inCooldown

ImplementsPaced == Paced!Spec

(* What a steady load asks for, and what the desired capacity then settles *)
(* on: every scaler repeats a decision that no longer changes anything.    *)
SteadyTarget(m) ==
  Target(p, m, [Details EXCEPT !.actual = asg.desired], FALSE)

Converges ==
  \A m \in Demand :
    (Demand = {m}) => <>[](asg.desired = SteadyTarget(m))

(* On the way there, one scaler only ever moves the capacity towards the   *)
(* target and not past it, and it leaves a capacity alone that is right:   *)
(* whatever part of the group is running, however old its metrics are, and *)
(* also when a call failed or its answer was lost.                         *)
Towards(from, goal, to) ==
  (from <= to /\ to <= goal) \/ (goal <= to /\ to <= from)

MovesTowardsTarget ==
  [][\A m \in Demand :
       (Demand = {m})
         => Towards(asg.desired, SteadyTarget(m), asg'.desired)]_vars

(* Overlapping scalers may undo each other's steps, since each writes what *)
(* it made of its own snapshot; but together too they never carry the      *)
(* capacity past the target.                                               *)
NeverOvershoots ==
  [][\A m \in Demand :
       LET goal == SteadyTarget(m)
       IN  (Demand = {m}) =>
             /\ asg.desired < goal => asg'.desired <= goal
             /\ asg.desired > goal => asg'.desired >= goal]_vars

=============================================================================
