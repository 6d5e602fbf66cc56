----------------------------- MODULE LambdaScaler -----------------------------
(***************************************************************************)
(* The Lambda around the scaler: Handler of lambda/main.go in its          *)
(* execution environments.                                                 *)
(*                                                                         *)
(* AWS keeps an environment between invocations and gives it one at a time.*)
(* Its global variables remember the last scale-in and scale-out.  An      *)
(* invocation looks these up in the group's scaling activities unless the  *)
(* environment did so before, builds a scaler from them, and then calls    *)
(* Run again and again, saving the scaler's times after each run, until    *)
(* LAMBDA_TIMEOUT.  Lambda may kill it at any moment, and may drop an idle *)
(* environment; both lose the globals.                                     *)
(*                                                                         *)
(* A member of Scalers is an environment here; pc, metrics, polled, req,   *)
(* lastIn and lastOut belong to the scaler its invocation built.           *)
(*                                                                         *)
(* Definitions named for a mistake (BuildWithoutTimes) are slips the checks*)
(* are shown to notice; nothing else uses them.                            *)
(***************************************************************************)
EXTENDS Scaler

CONSTANTS
  Lookups,       \* what a lookup of the scaling activities may give
  TimeoutSet     \* is LAMBDA_TIMEOUT set?

ASSUME LambdaAssumption ==
  /\ Lookups \subseteq {"found", "behind", "failed"}
  /\ TimeoutSet \in BOOLEAN

VARIABLES
  phase,         \* what the environment's invocation is doing
  fetched,       \* lastScaleTimesFetched
  globalIn,      \* lastScaleIn
  globalOut,     \* lastScaleOut
  expired,       \* LAMBDA_TIMEOUT has passed and nothing has consumed it
  sinceRaised,   \* history: age of the last SetDesiredCapacity that raised
  priorLowered   \* history: age of the lowering before the last one

globalVars == << fetched, globalIn, globalOut >>
groupHistory == << sinceRaised, priorLowered >>
lambdaVars == << phase, globalVars, expired, groupHistory >>
allVars == << vars, lambdaVars >>

Phases == {"idle", "fetch", "build", "run", "wait", "return"}

LambdaTypeOK ==
  /\ TypeOK
  /\ phase \in [Scalers -> Phases]
  /\ fetched \in [Scalers -> BOOLEAN]
  /\ globalIn \in [Scalers -> AgeOrNever]
  /\ globalOut \in [Scalers -> AgeOrNever]
  /\ expired \in [Scalers -> BOOLEAN]
  /\ sinceRaised \in AgeOrNever
  /\ priorLowered \in AgeOrNever

LambdaInit ==
  /\ Init
  /\ phase = [e \in Scalers |-> "idle"]
  /\ fetched = [e \in Scalers |-> FALSE]
  /\ globalIn = [e \in Scalers |-> Never]
  /\ globalOut = [e \in Scalers |-> Never]
  /\ expired = [e \in Scalers |-> FALSE]
  /\ sinceRaised = Never
  /\ priorLowered = Never

-----------------------------------------------------------------------------

Enter(e, next) == phase' = [phase EXCEPT ![e] = next]

(* The schedule invokes the environment; the timeout starts to run after   *)
(* the startup jitter.                                                     *)
Invoke(e) ==
  /\ phase[e] = "idle"
  /\ Enter(e, "fetch")
  /\ expired' = [expired EXCEPT ![e] = FALSE]
  /\ UNCHANGED << vars, globalVars, groupHistory >>

(* GetLastScalingInAndOutActivity.  The search asks for the directions that*)
(* are not disabled and stops when it has them, so another one may be      *)
(* missed; asked for neither, it reads the whole history.  An activity     *)
(* counts only once it is successful: a lookup that is behind finds the    *)
(* lowering before the last one, if there was one.                         *)
Lookup(e, asked, mayMiss, event, global) ==
  {IF event = Never THEN global[e] ELSE event}
    \union (IF ~asked /\ mayMiss THEN {global[e]} ELSE {})

LookupIn(e, event)  == Lookup(e, ~p.disableIn, ~p.disableOut, event, globalIn)
LookupOut(e, event) == Lookup(e, ~p.disableOut, ~p.disableIn, event, globalOut)

(* A lookup that fails or takes too long leaves the globals as they are,   *)
(* and the next invocation tries again.                                    *)
FetchFailed(e) ==
  /\ "failed" \in Lookups
  /\ UNCHANGED globalVars

FetchFound(e) ==
  /\ \E l \in Lookups \ {"failed"} :
       LET newest == IF l = "found" THEN sinceLowered ELSE priorLowered
       IN  \E t \in LookupIn(e, newest) :
             globalIn' = [globalIn EXCEPT ![e] = t]
  /\ \E t \in LookupOut(e, sinceRaised) :
       globalOut' = [globalOut EXCEPT ![e] = t]
  /\ fetched' = [fetched EXCEPT ![e] = TRUE]

Fetch(e) ==
  /\ phase[e] = "fetch"
  /\ Enter(e, "build")
  /\ IF fetched[e] THEN UNCHANGED globalVars
                   ELSE FetchFailed(e) \/ FetchFound(e)
  /\ UNCHANGED << vars, expired, groupHistory >>

BuildWithoutTimes(e) ==
  /\ phase[e] = "build"
  /\ Enter(e, "run")
  /\ lastIn' = [lastIn EXCEPT ![e] = Never]
  /\ lastOut' = [lastOut EXCEPT ![e] = Never]
  /\ UNCHANGED << p, asg, runVars, historyVars, globalVars, expired,
                  groupHistory >>

(* A new scaler starts from the globals.                                   *)
Build(e) ==
  /\ phase[e] = "build"
  /\ Enter(e, "run")
  /\ lastIn' = [lastIn EXCEPT ![e] = globalIn[e]]
  /\ lastOut' = [lastOut EXCEPT ![e] = globalOut[e]]
  /\ UNCHANGED << p, asg, runVars, historyVars, globalVars, expired,
                  groupHistory >>

(* No agent token: the invocation returns an error before its first run.   *)
BuildFails(e) ==
  /\ phase[e] = "build"
  /\ Enter(e, "idle")
  /\ UNCHANGED << vars, globalVars, expired, groupHistory >>

(* One step of a run; when it ends the run, the scaler's times are saved   *)
(* whatever came of it.                                                    *)
RunEnds(e) == pc[e] # "start" /\ pc'[e] = "start"

RunStep(e) ==
  /\ phase[e] = "run"
  /\ ScalerStep(e)
  /\ IF RunEnds(e)
     THEN /\ Enter(e, IF expired[e] THEN "return" ELSE "wait")
          /\ globalIn' = [globalIn EXCEPT ![e] = lastIn'[e]]
          /\ globalOut' = [globalOut EXCEPT ![e] = lastOut'[e]]
     ELSE UNCHANGED << phase, globalIn, globalOut >>
  /\ sinceRaised' = IF asg'.desired > asg.desired THEN 0 ELSE sinceRaised
  /\ priorLowered' = IF asg'.desired < asg.desired THEN sinceLowered
                                                   ELSE priorLowered
  /\ UNCHANGED << fetched, expired >>

(* The select at the end of the loop.  A timeout that passed during the run*)
(* is ready at once and the interval is not; one that passes during the    *)
(* wait may race the interval and, if it loses, is still there after the   *)
(* next run.                                                               *)
Expire(e) ==
  /\ TimeoutSet
  /\ phase[e] \in {"fetch", "build", "run", "wait"}
  /\ ~expired[e]
  /\ expired' = [expired EXCEPT ![e] = TRUE]
  /\ UNCHANGED << vars, phase, globalVars, groupHistory >>

IntervalOver(e) ==
  /\ phase[e] = "wait"
  /\ Enter(e, "run")
  /\ UNCHANGED << vars, globalVars, expired, groupHistory >>

(* The invocation and its scaler are gone; the environment stays.          *)
DropScaler(e) ==
  /\ pc' = [pc EXCEPT ![e] = "start"]
  /\ req' = [req EXCEPT ![e] = NoRequest]
  /\ ForgetMetrics(e)
  /\ lastIn' = [lastIn EXCEPT ![e] = Never]
  /\ lastOut' = [lastOut EXCEPT ![e] = Never]
  /\ UNCHANGED << p, asg, historyVars >>

ReturnDuringWaitOnly(e) ==
  /\ phase[e] = "wait" /\ expired[e]
  /\ Enter(e, "idle")
  /\ expired' = [expired EXCEPT ![e] = FALSE]
  /\ DropScaler(e)
  /\ UNCHANGED << globalVars, groupHistory >>

Return(e) ==
  /\ phase[e] = "return" \/ (phase[e] = "wait" /\ expired[e])
  /\ Enter(e, "idle")
  /\ expired' = [expired EXCEPT ![e] = FALSE]
  /\ DropScaler(e)
  /\ UNCHANGED << globalVars, groupHistory >>

(* Lambda's own limit ends the process wherever it is, between two calls of*)
(* a run too; or it drops an idle environment.  Either way the next        *)
(* invocation is a cold start.                                             *)
Kill(e) ==
  /\ phase' = [phase EXCEPT ![e] = "idle"]
  /\ expired' = [expired EXCEPT ![e] = FALSE]
  /\ DropScaler(e)
  /\ fetched' = [fetched EXCEPT ![e] = FALSE]
  /\ globalIn' = [globalIn EXCEPT ![e] = Never]
  /\ globalOut' = [globalOut EXCEPT ![e] = Never]
  /\ UNCHANGED groupHistory

Environment ==
  /\ GroupStep \/ SelfTerminate
  /\ UNCHANGED lambdaVars

LambdaTick ==
  /\ Tick
  /\ globalIn' = [e \in Scalers |-> Older(globalIn[e])]
  /\ globalOut' = [e \in Scalers |-> Older(globalOut[e])]
  /\ sinceRaised' = Older(sinceRaised)
  /\ priorLowered' = Older(priorLowered)
  /\ UNCHANGED << phase, fetched, expired >>

Handler(e) ==
  \/ Invoke(e)
  \/ Fetch(e)
  \/ Build(e)
  \/ BuildFails(e)
  \/ RunStep(e)
  \/ Expire(e)
  \/ IntervalOver(e)
  \/ Return(e)
  \/ Kill(e)

LambdaNext ==
  \/ \E e \in Scalers : Handler(e)
  \/ Environment
  \/ LambdaTick

LambdaSpec == LambdaInit /\ [][LambdaNext]_allVars

-----------------------------------------------------------------------------
(* Fairness.  The schedule invokes the environment again and again, a      *)
(* missing token is found again, and Lambda does not for ever kill         *)
(* invocations that have work left; idle environments it may drop whenever *)
(* it likes.  The rest is as in Scaler.                                    *)
Ongoing(e) ==
  phase[e] \in {"fetch", "run"} \/ (phase[e] = "wait" /\ ~expired[e])

KillsStop ==
  <>[][\A e \in Scalers : Ongoing(e) => ~Kill(e)]_allVars

LambdaFairness ==
  /\ KillsStop
  /\ \A e \in Scalers :
       /\ WF_allVars(Invoke(e))
       /\ WF_allVars(Fetch(e))
       /\ SF_allVars(Build(e))
       /\ WF_allVars(RunStep(e) /\ BeginRun(e))
       /\ SF_allVars(RunStep(e) /\ PollMetrics(e))
       /\ WF_allVars(RunStep(e) /\ Describe(e))
       /\ SF_allVars(RunStep(e) /\ Describe(e) /\ ~Stale(e))
       /\ WF_allVars(RunStep(e) /\ CheckDangling(e))
       /\ WF_allVars(RunStep(e) /\ (HistoryBlocks(e) \/ HistoryAllows(e)))
       /\ WF_allVars(RunStep(e) /\ SendSIGTERMs(e))
       /\ WF_allVars(RunStep(e) /\ SetDesiredCapacity(e))
       /\ SF_allVars(/\ RunStep(e) /\ SetDesiredCapacity(e)
                     /\ asg'.desired = req[e].target)
       /\ WF_allVars(RunStep(e) /\ Record(e))
       /\ WF_allVars(IntervalOver(e) \/ Return(e))
       /\ WF_allVars(Expire(e))
  /\ WF_allVars(Environment /\ BecomeInService)
  /\ WF_allVars(Environment /\ Launch)
  /\ WF_allVars(Environment /\ (Shrink \/ CancelPending))
  /\ WF_allVars(Environment /\ Gone)
  /\ WF_allVars(LambdaTick)

LambdaLiveSpec == LambdaSpec /\ LambdaFairness

-----------------------------------------------------------------------------
(* Properties.                                                             *)

(* An invocation with a LAMBDA_TIMEOUT ends, also when its timeout passes  *)
(* during a run or loses the race against the interval.                    *)
InvocationsEnd ==
  \A e \in Scalers : phase[e] # "idle" ~> phase[e] = "idle"

=============================================================================
