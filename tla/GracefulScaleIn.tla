----------------------------- MODULE GracefulScaleIn -----------------------------
(***************************************************************************)
(* A run in Elastic CI mode, instance by instance: the dangling check, then*)
(* the decision, and for a scale-in SIGTERMs to the oldest instances before*)
(* the capacity is lowered (scaleIn, SendSIGTERMToAgents).                 *)
(*                                                                         *)
(* How large the group should be is the business of Scaler; here a run may *)
(* decide on any size, or on nothing.  Lambda may kill it anywhere.        *)
(*                                                                         *)
(* Definitions named for a mistake (YoungestFirst) are slips the checks are*)
(* shown to notice; nothing else uses them.                                *)
(***************************************************************************)
EXTENDS DanglingCheck

CONSTANT
  Strides        \* intervals the clock may advance between two checks

ASSUME StrideAssumption == Strides \subseteq Nat

VARIABLES
  target,        \* the capacity the run decided on
  excess,        \* instancesToTerminate of a scale-in
  listing,       \* the instances Describe listed, oldest first
  lone,          \* the instance of a scale-in of a single-instance group
  sigterm,       \* instances with a SIGTERM command that has not run yet
  chosen,        \* history: members chosen by launch time for a wave
  blind          \* history: members only waves without them chose

waveVars == << target, excess, listing, lone, sigterm, chosen, blind >>
toldVars == << sigterm, chosen, blind >>
elasticVars == << fleetVars, checkVars, waveVars >>

ElasticTypeOK ==
  /\ FleetOK
  /\ CheckOK
  /\ target \in 0..MaxGroup
  /\ excess \in 0..MaxGroup
  /\ listing \in Seq(Instances)
  /\ lone \subseteq Instances
  /\ sigterm \subseteq Instances
  /\ chosen \subseteq Instances
  /\ blind \subseteq Instances

ElasticInit ==
  /\ FleetInit
  /\ CheckInit
  /\ target = 0
  /\ excess = 0
  /\ listing = << >>
  /\ lone = {}
  /\ sigterm = {}
  /\ chosen = {}
  /\ blind = {}

-----------------------------------------------------------------------------
(* The run after the check.                                                *)

(* Nothing of a run is left when it ends.                                  *)
EndRun ==
  /\ pc' = "wait"
  /\ target' = 0
  /\ excess' = 0
  /\ listing' = << >>
  /\ lone' = {}
  /\ round' = "first"
  /\ Clear

(* Describe and the decision.                                              *)
SurplusReversed(t) == t - desired

Surplus(t) == desired - t

ScaleIn(t) ==
  /\ pc' = "choose"
  /\ listing' = fleet
  /\ target' = t
  /\ excess' = Surplus(t)
  /\ lone' = IF desired = 1 /\ Len(fleet) = 1 THEN InGroup ELSE {}
  /\ UNCHANGED << round, work, script, results, grounds >>

SetTo(t) ==
  /\ pc' = "request"
  /\ target' = t
  /\ UNCHANGED << round, excess, listing, lone, work, script, results,
                  grounds >>

(* There is nothing to do, and Buildkite reports no agents (what it reports*)
(* is left open here): check once more, after which the run ends.          *)
CheckAgain ==
  /\ fleet # << >>
  /\ pc' = "list"
  /\ round' = "last"
  /\ UNCHANGED << target, excess, listing, lone, work, script, results,
                  grounds >>

Decide ==
  /\ pc = "decide"
  /\ \/ EndRun
     \/ round = "first" /\ CheckAgain
     \/ round = "first" /\ \E t \in 0..MaxGroup :
          \/ t < desired /\ fleet # << >> /\ ScaleIn(t)
          \/ t < desired /\ fleet = << >> /\ SetTo(t)
          \/ t > desired /\ SetTo(t)
  /\ UNCHANGED << slot, fleetVars, toldVars >>

(* The oldest of the instances Describe listed; some may be gone by now.   *)
WaveSize == IF excess <= Len(listing) THEN excess ELSE Len(listing)

YoungestFirst ==
  { listing[k] : k \in (Len(listing) - WaveSize + 1)..Len(listing) }

OldestFirst == { listing[k] : k \in 1..WaveSize }

ChooseOldest ==
  /\ pc = "choose"
  /\ pc' = "signal"
  /\ work' = OldestFirst
  /\ listing' = << >>
  /\ chosen' = chosen \union (OldestFirst \intersect InGroup)
  /\ blind' = blind \ OldestFirst
  /\ UNCHANGED << slot, round, script, results, grounds, fleetVars, target,
                  excess, lone, sigterm >>

(* DescribeInstances fails, which here one instance that is gone is enough *)
(* for: the first of the group's own listing, in whatever order that is.   *)
ChooseUnsorted ==
  /\ pc = "choose"
  /\ pc' = "signal"
  /\ \E some \in SUBSET Range(listing) :
       /\ Cardinality(some) = WaveSize
       /\ work' = some
       /\ blind' = blind \union ((some \intersect InGroup) \ chosen)
  /\ listing' = << >>
  /\ UNCHANGED << slot, round, script, results, grounds, fleetVars, target,
                  excess, lone, sigterm, chosen >>

(* SendSIGTERMToAgents: wait for the instance's SSM agent and send the     *)
(* command; an instance for which that fails is only counted.              *)
Signal ==
  /\ pc = "signal"
  /\ \E i \in work :
       /\ work' = work \ {i}
       /\ pc' = IF work = {i} THEN "request" ELSE "signal"
       /\ \/ /\ i \in InGroup \ Unreachable
             /\ sigterm' = sigterm \union {i}
          \/ UNCHANGED sigterm
  /\ UNCHANGED << slot, round, script, results, grounds, fleetVars, target,
                  excess, listing, lone, chosen, blind >>

(* SetDesiredCapacity, whose error a graceful scale-in swallows.           *)
SetDesiredCapacity ==
  /\ pc = "request"
  /\ desired' \in {desired, target}
  /\ IF lone = {}
     THEN EndRun
     ELSE /\ pc' = "single"
          /\ UNCHANGED << round, work, script, results, grounds, target,
                          excess, listing, lone >>
  /\ UNCHANGED << slot, fleet, aged, agentVars, unhealthy, toldVars >>

(* Commands to an instance are gone with it.                               *)
ForgetGone ==
  /\ sigterm' = sigterm \intersect Range(fleet')
  /\ chosen' = chosen \intersect Range(fleet')
  /\ blind' = blind \intersect Range(fleet')

(* A group of one: if its instance cannot be sent a command it is taken for*)
(* dangling and terminated, which may fail too.                            *)
TerminateLone ==
  /\ pc = "single"
  /\ EndRun
  /\ \/ UNCHANGED << fleetVars, toldVars >>
     \/ /\ \E i \in lone : Leave(i)
        /\ ForgetGone
        /\ UNCHANGED desired
  /\ UNCHANGED slot

(* The SIGTERM script on an instance: the marker makes a repetition do     *)
(* nothing.  systemctl stop lets the jobs finish.                          *)
StopAgent(i) == i \notin marker

RunSIGTERM(i) ==
  /\ i \in sigterm
  /\ sigterm' = sigterm \ {i}
  /\ marker' = marker \union {i}
  /\ IF StopAgent(i) /\ Running(i)
     THEN Becomes(i, IF HasJobs(i) THEN "stopping" ELSE "down")
     ELSE UNCHANGED agent
  /\ UNCHANGED << groupVars, target, excess, listing, lone, chosen, blind >>

(* The interval is over; a run takes time too, so the clock may show more  *)
(* than one interval more.                                                 *)
NextRun ==
  /\ pc = "wait"
  /\ pc' = "list"
  /\ \E n \in Strides : slot' = (slot + n) % Slots
  /\ UNCHANGED << round, work, script, results, grounds, fleetVars, waveVars >>

(* Lambda ends the invocation; commands that were sent still run.          *)
Kill ==
  /\ pc # "wait"
  /\ EndRun
  /\ UNCHANGED << slot, fleetVars, toldVars >>

-----------------------------------------------------------------------------
(* Instances and the group, at any time.                                   *)

(* An identity is used again only when no run refers to it any more.       *)
Free(i) ==
  /\ i \notin InGroup \union work \union Range(listing) \union lone
  /\ script[i] = "none"

MemberStep(i) ==
  \/ AgentStarts(i)
  \/ TakeJob(i)
  \/ FinishJobs(i)
  \/ AgentCrashes(i)
  \/ Free(i) /\ Launch(i)
  \/ ReplaceUnhealthy(i)
  \/ Shrink(i)
  \/ SelfTerminate(i)

(* What a check may hold against an instance: its agent was not running at *)
(* some time since the command was sent, and nobody had told it to stop.   *)
NoteDown ==
  grounds' = grounds \union
    { i \in Instances : script[i] \in Underway /\ i \notin marker
                          /\ ~(agent'[i] \in {"idle", "busy"}) }

Outside(step) ==
  /\ step
  /\ NoteDown
  /\ UNCHANGED << pc, slot, round, work, script, results >>

FleetStep(i) ==
  /\ Outside(MemberStep(i))
  /\ ForgetGone
  /\ UNCHANGED << target, excess, listing, lone >>

ElasticNext ==
  \/ CheckStep /\ UNCHANGED waveVars
  \/ Decide
  \/ ChooseOldest
  \/ ChooseUnsorted
  \/ Signal
  \/ SetDesiredCapacity
  \/ TerminateLone
  \/ NextRun
  \/ Kill
  \/ \E i \in Instances :
       \/ ScriptStep(i) /\ UNCHANGED waveVars
       \/ Outside(RunSIGTERM(i))
       \/ FleetStep(i)
  \/ Outside(ReachUptime) /\ UNCHANGED waveVars

ElasticSpec == ElasticInit /\ [][ElasticNext]_elasticVars

-----------------------------------------------------------------------------
(* Fairness.  Every call returns, and runs follow each other; what the     *)
(* clock shows when they begin is up to Strides.  From some time on the    *)
(* checks that begin the runs meet no trouble: none is killed, no call of  *)
(* one fails, and the answer of an instance that is online and stays in the*)
(* group is in before the deadline.                                        *)
Trouble ==
  /\ round = "first"
  /\ pc \in {"list", "describe", "again", "online", "send", "poll", "mark"}
  /\ \/ pc' = "wait"
     \/ CheckFails
     \/ \E i \in work \intersect InGroup :
          \/ script'[i] = "TIMED_OUT"
          \/ /\ pc = "poll" /\ pc' # "poll"
             /\ \/ script[i] \in Underway
                \/ script[i] \in Down /\ i \notin work'
     \/ pc = "mark" /\ \E i \in work \ work' : i \in InGroup \ unhealthy'

ElasticFairness ==
  /\ <>[][~Trouble]_elasticVars
  /\ WF_elasticVars(CheckStep /\ UNCHANGED waveVars)
  /\ WF_elasticVars(Decide)
  /\ WF_elasticVars(ChooseOldest)
  /\ WF_elasticVars(Signal)
  /\ WF_elasticVars(SetDesiredCapacity)
  /\ WF_elasticVars(TerminateLone)
  /\ WF_elasticVars(NextRun)
  /\ WF_elasticVars(Outside(ReachUptime) /\ UNCHANGED waveVars)
  /\ \A i \in Instances :
       WF_elasticVars(ScriptStep(i) /\ UNCHANGED waveVars)

ElasticLiveSpec == ElasticSpec /\ ElasticFairness

-----------------------------------------------------------------------------
(* Properties.                                                             *)

(* A check marks an instance only on grounds that arose after its command  *)
(* was sent: its agent was not running then, or stopped running later, and *)
(* it had no termination marker before that; or the command itself failed. *)
(* Answers that are missing, late, pending or timed out, instances that    *)
(* leave, and a SIGTERM that was there first never get one marked.         *)
MarkedOnGrounds ==
  [][\A i \in unhealthy' \ unhealthy : i \in grounds]_elasticVars

(* A check looks at as many instances as it may, no fewer and no more,     *)
(* though the window goes around the end of the list and the list is what  *)
(* is left of the group: all of those old enough, or else exactly          *)
(* MAX_DANGLING_INSTANCES_TO_CHECK different ones.                         *)
CheckUsesItsBudget ==
  [][DescribeInstances =>
       \E n \in Eligible :
         LET there == Cardinality(Candidates(n))
         IN  /\ work' \subseteq Candidates(n)
             /\ Cardinality(work') = IF WindowSize = 0 \/ there <= WindowSize
                                     THEN there
                                     ELSE WindowSize]_elasticVars

(* Repetitions of a scale-in, whose run was killed or whose capacity was   *)
(* never set, while instances leave and join.  Of two waves chosen by      *)
(* launch time one is part of the other, so however many there are they    *)
(* reach no further than the largest.  Waves without launch times add to   *)
(* that what they like, but only they do: whenever a wave goes out, of     *)
(* either kind, each member that some wave told to stop while an older one *)
(* was spared was picked by a wave without launch times.                   *)
Told == chosen \union blind

Overtakes(k, l) ==
  k < l /\ fleet[k] \in InGroup \ Told' /\ fleet[l] \in Told'

WavesNest ==
  [][/\ ChooseOldest =>
          LET wave == work' \intersect InGroup
          IN  wave \subseteq chosen \/ chosen \subseteq wave
     /\ (ChooseOldest \/ ChooseUnsorted) =>
          \A k, l \in 1..Len(fleet) :
            Overtakes(k, l) => fleet[l] \in blind']_elasticVars

(* An agent that is down for good gets its instance marked, also when the  *)
(* check's window holds fewer instances than the group, other instances    *)
(* never answer and the group changes all the time, as long as runs begin  *)
(* interval after interval.                                                *)
IsDangling(i) ==
  i \in InGroup /\ agent[i] = "down" /\ i \notin marker

DanglingAreReplaced ==
  \A i \in Instances \ Unreachable :
    IsDangling(i) ~> (~IsDangling(i) \/ i \in unhealthy)

=============================================================================
