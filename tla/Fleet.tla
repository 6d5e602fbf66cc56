---------------------------------- MODULE Fleet ----------------------------------
(***************************************************************************)
(* The instances of one Elastic CI group, each with its own agent.         *)
(*                                                                         *)
(* All of it is outside the program, modelled from what the program asks of*)
(* it: launch times, the state of the buildkite-agent service and the      *)
(* termination marker (scripts in asg.go), health and desired capacity.    *)
(***************************************************************************)
EXTENDS Integers, FiniteSets, SequencesExt

CONSTANTS
  Instances,     \* identities; one that is free may be used again
  MaxGroup       \* bound of the desired capacity

ASSUME FleetAssumption ==
  /\ IsFiniteSet(Instances)
  /\ MaxGroup \in Nat

VARIABLES
  fleet,         \* the instances of the group, oldest first
  aged,          \* how many of them have reached the minimum uptime
  desired,       \* the desired capacity
  agent,         \* the agent service of each instance
  marker,        \* instances with the termination marker file
  unhealthy      \* instances marked unhealthy and not yet terminated

fleetVars == << fleet, aged, desired, agent, marker, unhealthy >>
agentVars == << agent, marker >>
groupVars == << fleet, aged, desired, unhealthy >>

(* "down" is a service that is inactive or failed, "idle" and "busy" are   *)
(* active (without and with jobs), "stopping" is deactivating: jobs finish.*)
AgentStates == {"down", "idle", "busy", "stopping"}

InGroup == Range(fleet)
Running(i) == agent[i] \in {"idle", "busy"}
HasJobs(i) == agent[i] \in {"busy", "stopping"}

FleetOK ==
  /\ fleet \in Seq(Instances)
  /\ aged \in 0..Len(fleet)
  /\ desired \in 0..MaxGroup
  /\ agent \in [Instances -> AgentStates]
  /\ marker \subseteq Instances
  /\ unhealthy \subseteq Instances

FleetInit ==
  /\ fleet = << >>
  /\ aged = 0
  /\ desired = MaxGroup
  /\ agent = [i \in Instances |-> "down"]
  /\ marker = {}
  /\ unhealthy = {}

-----------------------------------------------------------------------------
(* Agents.  A service that failed may be started again; one that was told  *)
(* to stop is not.                                                         *)
Becomes(i, state) == agent' = [agent EXCEPT ![i] = state]

AgentStarts(i) ==
  /\ i \in InGroup
  /\ agent[i] = "down" /\ i \notin marker
  /\ Becomes(i, "idle")
  /\ UNCHANGED << groupVars, marker >>

TakeJob(i) ==
  /\ agent[i] = "idle"
  /\ Becomes(i, "busy")
  /\ UNCHANGED << groupVars, marker >>

FinishJobs(i) ==
  /\ HasJobs(i)
  /\ Becomes(i, IF agent[i] = "busy" THEN "idle" ELSE "down")
  /\ UNCHANGED << groupVars, marker >>

AgentCrashes(i) ==
  /\ Running(i)
  /\ Becomes(i, "down")
  /\ UNCHANGED << groupVars, marker >>

-----------------------------------------------------------------------------
(* The group.                                                              *)

(* Everything about an instance goes with it.                              *)
Leave(i) ==
  /\ \E k \in DOMAIN fleet :
       /\ fleet[k] = i
       /\ fleet' = RemoveAt(fleet, k)
       /\ aged' = IF k <= aged THEN aged - 1 ELSE aged
  /\ agent' = [agent EXCEPT ![i] = "down"]
  /\ marker' = marker \ {i}
  /\ unhealthy' = unhealthy \ {i}

(* A new instance is the youngest; its agent is not up yet.                *)
Launch(i) ==
  /\ Len(fleet) < desired
  /\ i \notin InGroup
  /\ fleet' = Append(fleet, i)
  /\ UNCHANGED << aged, desired, agentVars, unhealthy >>

ReachUptime ==
  /\ aged < Len(fleet)
  /\ aged' = aged + 1
  /\ UNCHANGED << fleet, desired, agentVars, unhealthy >>

ReplaceUnhealthy(i) ==
  /\ i \in unhealthy
  /\ Leave(i)
  /\ UNCHANGED desired

(* Which instance goes when the capacity was lowered is up to AWS.         *)
Shrink(i) ==
  /\ Len(fleet) > desired
  /\ Leave(i)
  /\ UNCHANGED desired

(* The post-exit action of an agent that stopped: the instance terminates  *)
(* itself and decrements the desired capacity (README.md).                 *)
SelfTerminate(i) ==
  /\ agent[i] = "down"
  /\ desired > 0
  /\ Leave(i)
  /\ desired' = desired - 1

=============================================================================
