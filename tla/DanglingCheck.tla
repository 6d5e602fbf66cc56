------------------------------ MODULE DanglingCheck ------------------------------
(***************************************************************************)
(* CleanupDanglingInstances: find the instances whose agent is not running *)
(* and mark them unhealthy.                                                *)
(*                                                                         *)
(* The check lists the group, asks EC2 for launch times, picks a window,   *)
(* sends the check script to those that are online, polls for the answers  *)
(* until a deadline, and marks.  The script runs on each instance at some  *)
(* time of its own, in two steps, while agents start, stop and crash and   *)
(* instances come and go.                                                  *)
(*                                                                         *)
(* Definitions named for a mistake (SilentIsDown) are slips the checks are *)
(* shown to notice; nothing else uses them.                                *)
(***************************************************************************)
EXTENDS Fleet, InstanceWindow

CONSTANTS
  WindowSize,    \* MAX_DANGLING_INSTANCES_TO_CHECK
  BatchSize,     \* sendCommandMaxTargets
  Slots,         \* bound: the clock shows check intervals modulo Slots
  Unreachable    \* instances whose SSM agent is never online

ASSUME CheckAssumption ==
  /\ WindowSize \in Nat
  /\ BatchSize \in Nat \ {0}
  /\ Slots \in Nat \ {0}
  /\ Unreachable \subseteq Instances

VARIABLES
  pc,            \* where the run stands
  slot,          \* the check intervals the clock shows
  round,         \* the first check of a run, or the one at its end
  work,          \* the instances this step of the run is about
  script,        \* the check command on each instance
  results,       \* what the polls have returned
  grounds        \* history: instances this check has grounds to mark

checkVars == << pc, slot, round, work, script, results, grounds >>

Answers == {"RUNNING", "NOT_RUNNING", "MARKER_EXISTS", "FAILED", "TIMED_OUT"}
Underway == {"sent", "tested"}

CheckOK ==
  /\ pc \in {"list", "describe", "again", "online", "send", "poll", "mark",
             "decide", "choose", "signal", "request", "single", "wait"}
  /\ slot \in 0..(Slots - 1)
  /\ round \in {"first", "last"}
  /\ work \subseteq Instances
  /\ script \in [Instances -> {"none"} \union Underway \union Answers]
  /\ results \in [Instances -> {"none", "pending"} \union Answers]
  /\ grounds \subseteq Instances

NoScript == [i \in Instances |-> "none"]

CheckInit ==
  /\ pc = "list"
  /\ slot = 0
  /\ round = "first"
  /\ work = {}
  /\ script = NoScript
  /\ results = NoScript
  /\ grounds = {}

-----------------------------------------------------------------------------
(* The check.  Nothing of it is left when it ends.                         *)
Clear ==
  /\ work' = {}
  /\ script' = NoScript
  /\ results' = NoScript
  /\ grounds' = {}

EndCheck == pc' = "decide" /\ Clear

ContinueWith(next, some) ==
  IF some = {}
  THEN EndCheck
  ELSE /\ pc' = next
       /\ work' = some
       /\ UNCHANGED << script, results, grounds >>

(* The check at the end of a run asks for ten minutes instead of the       *)
(* minimum uptime, which may be more or less: how many of the group have   *)
(* that age is open.                                                       *)
Eligible == IF round = "last" THEN 0..Len(fleet) ELSE {aged}

(* The instances that are still there, among the n oldest; sorted by launch*)
(* time, each has a position.                                              *)
Candidates(n) == { fleet[k] : k \in 1..n } \intersect work

Position(i, n) ==
  Cardinality({ k \in 1..n :
    fleet[k] \in work /\ \E l \in (k + 1)..n : fleet[l] = i })

Windowed(n) ==
  { i \in Candidates(n) :
      Position(i, n)
        \in Window(slot, WindowSize, Cardinality(Candidates(n))) }

ListGroup ==
  /\ pc = "list"
  /\ ContinueWith("describe", InGroup)
  /\ UNCHANGED << slot, round, fleetVars >>

DescribeInstances ==
  /\ pc \in {"describe", "again"}
  /\ \E n \in Eligible : ContinueWith("online", Windowed(n))
  /\ UNCHANGED << slot, round, fleetVars >>

(* DescribeInstances may refuse the whole list for the sake of one instance*)
(* that is gone; without those, it is asked once more.                     *)
NotFound ==
  /\ pc = "describe"
  /\ ~(work \subseteq InGroup)
  /\ ContinueWith("again", work \intersect InGroup)
  /\ UNCHANGED << slot, round, fleetVars >>

FilterOnline ==
  /\ pc = "online"
  /\ ContinueWith("send", work \ Unreachable)
  /\ UNCHANGED << slot, round, fleetVars >>

(* One command for each batch.  The order within the list matters to       *)
(* nothing from here on.                                                   *)
Unsent == { i \in work : script[i] = "none" }

SendTo(batch) ==
  /\ script' = [i \in Instances |-> IF i \in batch THEN "sent" ELSE script[i]]
  /\ grounds' = grounds \union
       { i \in batch : ~Running(i) /\ i \notin marker }
  /\ pc' = IF batch = Unsent THEN "poll" ELSE "send"

SendCommand ==
  /\ pc = "send"
  /\ \E batch \in SUBSET Unsent :
       /\ batch = Unsent \/ Cardinality(batch) = BatchSize
       /\ Cardinality(batch) <= BatchSize
       /\ SendTo(batch)
  /\ UNCHANGED << work, results, slot, round, fleetVars >>

(* An error of any of these calls ends the check, whatever the commands    *)
(* that were sent will answer.  Where the check would end in any case, an  *)
(* error makes no difference.                                              *)
WouldGoOn ==
  \/ pc = "list" /\ InGroup # {}
  \/ pc \in {"describe", "again"} /\ \E n \in Eligible : Windowed(n) # {}
  \/ pc = "online" /\ work \ Unreachable # {}
  \/ pc = "send"

CheckFails ==
  /\ WouldGoOn
  /\ EndCheck
  /\ UNCHANGED << slot, round, fleetVars >>

(* What a poll returns of an instance's invocation.                        *)
Status(i) == IF script[i] \in Underway THEN "pending" ELSE script[i]

SilentIsDown == {"NOT_RUNNING", "FAILED", "none", "pending"}

Down == {"NOT_RUNNING", "FAILED"}

(* Judge the answers that are in; those missing or not final are skipped,  *)
(* and a marker or a timeout is not held against an instance.              *)
Judge(answers) ==
  LET down == { i \in work : answers[i] \in Down }
  IN  IF down = {}
      THEN EndCheck
      ELSE /\ pc' = "mark"
           /\ work' = down
           /\ script' = NoScript
           /\ results' = NoScript
           /\ UNCHANGED grounds

(* pollCommandInvocations, one round: any of the invocations may not be    *)
(* listed yet.  Done when all have been listed and no listed one is        *)
(* pending; the deadline or an error ends it with what it has.             *)
Poll ==
  /\ pc = "poll"
  /\ \E listed \in SUBSET work :
       LET answers == [i \in Instances |->
                         IF i \in listed THEN Status(i) ELSE results[i]]
           complete == /\ \A i \in work : answers[i] # "none"
                       /\ \A i \in listed : Status(i) # "pending"
       IN  \/ Judge(answers)
           \/ /\ ~complete
              /\ results' = answers
              /\ UNCHANGED << pc, work, script, grounds >>
  /\ UNCHANGED << slot, round, fleetVars >>

(* SetInstanceHealth, one instance after the other.                        *)
Mark ==
  /\ pc = "mark"
  /\ \E i \in work :
       /\ IF work = {i}
          THEN EndCheck
          ELSE /\ work' = work \ {i}
               /\ UNCHANGED << pc, script, results, grounds >>
       /\ \/ /\ i \in InGroup
             /\ unhealthy' = unhealthy \union {i}
          \/ UNCHANGED unhealthy
  /\ UNCHANGED << slot, round, fleet, aged, desired, agentVars >>

CheckStep ==
  \/ ListGroup
  \/ DescribeInstances
  \/ NotFound
  \/ FilterOnline
  \/ SendCommand
  \/ CheckFails
  \/ Poll
  \/ Mark

-----------------------------------------------------------------------------
(* The check script (getCheckCommand, Linux): the marker first, then the   *)
(* state of the service.  A command may also fail or run out of time.      *)
Script(i, next) ==
  /\ i \in InGroup
  /\ script' = [script EXCEPT ![i] = next]
  /\ UNCHANGED << pc, slot, round, work, results, fleetVars >>

TestMarker(i) ==
  /\ script[i] = "sent"
  /\ Script(i, IF i \in marker THEN "MARKER_EXISTS" ELSE "tested")
  /\ UNCHANGED grounds

ReadState(i) ==
  /\ script[i] = "tested"
  /\ Script(i, IF Running(i) THEN "RUNNING" ELSE "NOT_RUNNING")
  /\ UNCHANGED grounds

CommandFails(i) ==
  /\ script[i] = "sent"
  /\ \/ Script(i, "FAILED") /\ grounds' = grounds \union {i}
     \/ Script(i, "TIMED_OUT") /\ UNCHANGED grounds

ScriptStep(i) == TestMarker(i) \/ ReadState(i) \/ CommandFails(i)

=============================================================================
