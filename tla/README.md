# Verification of buildkite-agent-scaler

TLA+ models of the scaler, checked with TLC on small instances, and theorems about them proved with TLAPS for every
value of the constants. Paths are relative to the repository.

## 1. The system

The program sizes one EC2 Auto Scaling group (ASG) to the demand of one Buildkite queue. Lambda (`lambda/main.go`) or a
command-line program (`main.go`) builds a `Scaler` and calls `Run` in a loop. One `Run` is a chain of remote calls:

    [dangling check] -> GetAgentMetrics -> publish -> Describe -> decide
        -> scaleOut: SetDesiredCapacity -> LastEvent = now
        -> scaleIn:  [activity history] -> [SIGTERMs] -> SetDesiredCapacity -> LastEvent = now
        -> [dangling check, when instances run and no agent reports]

Brackets mark Elastic CI mode. There are no threads inside a run. The concurrency is between a run and everything the
calls talk to: AWS launches and terminates instances, idle instances terminate themselves and lower the desired capacity,
time passes, a second Lambda environment runs its own scaler, and Lambda ends an invocation wherever it is.

| Component | State | Operations | Correct when |
|---|---|---|---|
| Scaling calculator, `scaler/scaling_calculator.go` | (a metrics cache) | `perInstance`, `DesiredCount` | smallest fleet that hosts the agents; more load never means fewer instances; stale metrics move nothing |
| Scaler, `scaler/scaler.go` | parameters, `LastEvent` of both directions | `Run`, `scaleIn`, `scaleOut` | requests stay within the group's limits; disabled directions do not move; lowerings and waves of SIGTERMs are a cooldown apart; a steady load is reached and kept |
| ASG driver, `scaler/asg.go` | none (all in AWS) | `Describe`, `SetDesiredCapacity`, activity history, SIGTERMs, dangling check | a lookup finds the last event that counts; only dangling instances are marked, and each is looked at some day |
| Lambda, `lambda/main.go` | globals: last events, "fetched" flag | `Handler` | events survive between invocations; invocations end |
| Buildkite client, `buildkite/buildkite.go` | none | `GetAgentMetrics` | timestamps tell the age of the metrics |
| Publisher, SSM, AWS config, environment, jitter, version | none | I/O and parsing | not part of the control |
| Command line, `main.go` | none | loop until the first error | as Scaler |

What is hard: a snapshot decides and an absolute write follows, much later; three memories of the last scale-in (the
scaler, the globals, the activity history) with a crash possible between any two of their updates; failing calls and
calls whose answer is lost; retries of a lookup after newer events were recorded; rounding and the order of buffer, cap,
boost, clamp and factor; a timeout that races the interval; convergence through all of that; a history that changes
while its pages are read; a script that runs on an instance at a time of its own while the agent starts, stops or
crashes and the instance may leave; answers that are late or missing; a clock that decides which instances are looked
at. PROJECT.json lists each hazard at its line.

## 2. Modules

| Module | What it is |
|---|---|
| `ScalingRules` | the arithmetic of one decision, as constant operators |
| `MCRules` | that arithmetic against reference definitions, over all small inputs |
| `Scaler` | `Run` over and over, one or more scalers on one group |
| `PacedCapacity` | abstract specification: how the capacity may change |
| `ScalerClaims` | what comments and docs say and `Scaler` does not keep |
| `LambdaScaler` | `Handler` around the scaler: environments, globals, lookups, kills |
| `LambdaClaims` | what comments and docs say and `LambdaScaler` does not keep |
| `ActivityHistory` | `GetLastScalingInAndOutActivity`: the search through the scaling activities |
| `EventLookup` | abstract specification: what such a search promises its caller |
| `Fleet` | the instances of an Elastic CI group, each with its agent (external) |
| `InstanceWindow` | `rotateInstanceWindow`, as constant operators |
| `DanglingCheck` | `CleanupDanglingInstances` and the check script on each instance |
| `GracefulScaleIn` | a run in Elastic CI mode, instance by instance: check, choice, SIGTERMs |
| `ElasticClaims` | what a comment and a document say and `GracefulScaleIn` does not keep |
| `MCScaler`, `MCScalerClaims`, `MCLambda`, `MCHistory`, `MCElastic` | values for TLC |
| `ScalingRulesProofs`, `RulesProofs`, `ScalerProofs`, `LambdaProofs`, `SteadyProofs`, `HistoryProofs`, `ElasticProofs`, `WaveProofs` | theorems |

`Scaler` EXTENDS `ScalingRules`; `LambdaScaler` EXTENDS `Scaler` and lets a scaler step only inside an invocation's loop;
`Scaler` INSTANCEs `PacedCapacity`, and `ActivityHistory` INSTANCEs `EventLookup`, under refinement mappings.
`DanglingCheck` EXTENDS `Fleet` and `InstanceWindow`, and `GracefulScaleIn` EXTENDS `DanglingCheck`. Two views of the same run stand side by side: `Scaler` counts instances and is
exact about capacities and cooldowns; `GracefulScaleIn` names instances and is exact about which of them a run touches,
while the size it decides on is arbitrary.

### ScalingRules

Each operator is a function of the code or a branch of `Run`: `PerInstance`, `DesiredCount` (with `AgentsRequired`,
`LowAvailability`, `Boosted`), `Buffer` and `Target` (buffer, then clamp), `WantsOut`, `WantsIn`, `WantsDanglingCheck`
(the `if` chain of `Run`), `ScaleInTarget`, `ScaleOutTarget` (factors), `CoolingDown`, `ScaleInBlocked`,
`ScaleOutBlocked`, `Graceful`. Floats are exact fractions over `Unit`. Counts are naturals. The calculator's cache of the
last metrics is left out because it has no effect: the client stamps an answer when it arrives and a scaler polls
sequentially, so a cached timestamp is never newer than the current one.

### Scaler

`p` is `Params`; `asg` is the group in AWS (desired capacity, and instances pending, in service and leaving); `pc` is the
place in `Run`; `metrics` and `polled` are the poll and its age; `req` is what a decision hands on (`desired` and the
`AutoscaleGroupDetails` snapshot); `lastIn` and `lastOut` are the `LastEvent`s. `sinceLowered`,
`sinceSignal` (of each scaler) and `changedBy` are history variables.

| Action | Code |
|---|---|
| `BeginRun` | cleanup of dangling instances, `Run` 148-157 |
| `PollMetrics`, `AbortRun` | `GetAgentMetrics`, publishing, errors |
| `Describe` (with `Decide`) | `Describe` and everything up to the next remote call, cooldown included |
| `HistoryBlocks`, `HistoryAllows` | the second cooldown check of `scaleIn`, which fails open |
| `SendSIGTERMs` | the loop over the oldest instances |
| `SetDesiredCapacity` | the call: accepted, refused outside the limits, failed, or done with its answer lost |
| `Record` | `LastEvent = now`, and the termination of the only instance |
| `CheckDangling` | the check at the end of `Run` |
| `Launch`, `BecomeInService`, `Shrink`, `CancelPending`, `InstanceFails`, `Gone`, `SelfTerminate`, `Tick` | AWS, the instances and the clock (external) |

Time: a moment is kept as its age, advanced by `Tick` up to `AgeCap`. Every duration the code compares with is at most
`AgeCap`, so a capped age gives the same answers.

### PacedCapacity

The capacity may rise at any time; it is lowered only where lowering is allowed, at most once per cooldown; instances
that terminate themselves lower it by one, unpaced. Mapping: `capacity <- asg.desired`, `idle <- sinceLowered`,
`mayLower <- ~(disableIn /\ ~elastic)`, `cooldown <- inCooldown`.

### LambdaScaler

`phase` is the place in `Handler`; `fetched`, `globalIn` and `globalOut` are the global variables; `expired` is the
message in the timeout channel. `Invoke` starts an invocation, `Fetch` is the one-time lookup (`FetchFailed`,
`FetchFound`), `Build` makes the scaler from the globals, `RunStep` is one step of `Run` and, at its end, saves the
times back; `Expire`, `IntervalOver` and `Return` are the `select`. `Kill` is Lambda ending the process anywhere, or
dropping an idle environment: globals and scaler are gone. `BuildFails` is a missing token. `sinceRaised` and
`priorLowered` are what the activity history says besides `sinceLowered`. A lookup is `found`, `behind` (the last
scale-in is not yet Successful) or `failed`. It asks for the directions that are not disabled and may miss another
one.

An activity's start time is taken to be the moment the capacity was set. A lowering that terminates nothing leaves no
scale-in activity in AWS; the model finds it, which only matters to the runs with `found`.

### ActivityHistory

`activities` is the group's history, oldest first; AWS lists it newest first. `pages` is `i`, `cursor` is `NextToken`,
`last` are the two results, `known` is a history variable: what there was to find when the search began.

| Action | Code |
|---|---|
| `LambdaAsks`, `ScaleInAsks` | the two callers: `main.go` 120-130 with the page limit, `scaleIn` 338-355 without |
| `StopAtLimit` | 470-474: the counter is incremented, then compared |
| `CallFails` | `DescribeScalingActivities` fails or its context ends |
| `ReadPage` | one page: `Scan` (first hit per direction), `HasFound`, `NextToken` |
| `Answer` | the caller uses the results or drops them |
| `NewActivity`, `ActivityEnds` | AWS, at any time, in any order (external) |

An activity is its direction and status; which cause text makes it one is in `Counts`. In `LambdaScaler` a lookup is one
step. That is what `AnswersAreUpToDate` allows: an answer is as new as what could be known when the search began
("found", or "behind" while a scale-in is not Successful), or there is none ("failed").

### EventLookup

The same promise as a specification of its own: a lookup is asked, events happen meanwhile, and in one step it answers
for each direction with an event that has happened by then and is not older than the last one there was when it was
asked, or with "none" if there was none or nobody asked, or it fails. Mapping: an event has happened when its activity
counts (`EventsOf`), `since <- known`, and the answer shows only when the search is done; each page read before is a
stutter. The answer need not have been the last event at any one instant: activities become Successful in any order, so
one that began earlier may become the newest that counts on a page that has been read already, while the search finds an
older one on the next.

### DanglingCheck and GracefulScaleIn

`fleet` lists the instances by launch time, `aged` counts those past the minimum uptime, `agent` and `marker` are the
service and the marker file on each; `pc` is the place in the run, `work` the instances the step is about, `script`
the check command on each instance, `results` what `pollCommandInvocations` has collected, `round` which of a run's
two checks it is, `listing` and `lone` the snapshot a scale-in works on, `sigterm` SIGTERM commands that have not run
yet. `grounds`, `chosen` and `blind` are history variables: the members chosen by launch time, and those only a wave
without launch times chose.

| Action | Code |
|---|---|
| `ListGroup`, `DescribeInstances`, `NotFound` | `Describe`, `describeInstancesTolerant` with its one retry |
| (`Windowed`, `Window`) | minimum uptime, order by age, `rotateInstanceWindow` |
| `FilterOnline`, `SendCommand` | `filterOnlineSSMInstances`, one command per batch |
| `Poll`, `Judge` | `pollCommandInvocations` round by round, then the verdict on each answer |
| `Mark` | `SetInstanceHealth`, which may fail for each |
| `CheckFails` | an error of any of these calls |
| `TestMarker`, `ReadState`, `CommandFails` | the two steps of the check script, on the instance |
| `Decide` | `Run` from `Describe` on: nothing, a change of the capacity, or a graceful scale-in |
| `CheckAgain` | no agent reports and nothing is to be changed: a second check, with ten minutes of uptime (`Eligible`) |
| `ChooseOldest`, `ChooseUnsorted` | the choice by launch time, and the fallback without |
| `Signal`, `RunSIGTERM` | `SendSIGTERMToAgents`, and its script when it runs on the instance |
| `SetDesiredCapacity`, `TerminateLone` | the capacity, and the termination of a single unresponsive instance |
| `NextRun`, `Kill` | the interval; Lambda ends the invocation |

The agent services, jobs, launches, terminations and self-terminations are external, in `Fleet`. The check script is that
of Linux. On Windows there is no marker to test, and no SIGTERM that could set one: such an instance behaves like one in
`Unreachable` towards `Signal` and like any other towards the check.

Two things these modules show that no property is about. A SIGTERM that runs between the two steps of the check script
makes the service `deactivating`, which the script reports as NOT_RUNNING: the instance is then marked although its jobs
are still finishing (`MarkedOnGrounds` admits it: the agent no longer runs, and had no marker when it was tested), while
asg.go:566 says "agent service is stopped, no jobs can be running". And `TerminateLone` ends the only instance of a group
whenever a command cannot be sent to it, busy or not.

## 3. Runs

Passing runs:

| Run | Instance | Shows |
|---|---|---|
| `requests` | one scaler, sizes 0..3, buffer, boost, factors up to 2, cooldown up to 2, calls that fail or lose their answer | `TypeOK`; `RequestsWithinBounds`; `SignalsPaced`; `StaleMetricsHoldCapacity`; `MissingAgentsKeepInstances` |
| `overlap` | two scalers, steady load, sizes 0..2 | `NeverOvershoots`; `Converges` |
| `rules` | 258k inputs | `PerInstanceIsSmallest`, `MoreLoadNeverFewerInstances`, `FactorsKeepMoving` |
| `restarts` | one environment, kills anywhere, up-to-date lookups, directions enabled or not | `LambdaTypeOK`; `ImplementsPaced` |
| `ends` | one environment, steady load, sizes 0..2, factors 1/2 and 1, buffer, cooldowns, failing calls and lookups, finitely many kills | `MovesTowardsTarget`; `Converges`; `InvocationsEnd` |
| `history` | 3 activities, pages of up to 2, limits -1..3, any directions disabled | `HistTypeOK`; `AnswersAreUpToDate`; `LimitCutsShortOnly`; `ImplementsLookup`; `SearchEnds` |
| `elastic` | 2 instances of which one never answers, a window and batches of 1, kills and failures anywhere | `ElasticTypeOK`; `MarkedOnGrounds`; `CheckUsesItsBudget`; `WavesNest`; `DanglingAreReplaced` |

Runs that refute a sentence of the repository (each a finding in PROJECT.json, which quotes it):

| Run | What happens |
|---|---|
| `disabled_out` | `scaleIn` raises the capacity although scale-out is disabled |
| `stale_buffer` | the buffer is added to the count kept for stale metrics, in every run |
| `lookup_again` | an environment whose first lookup failed scales in twice; the retried lookup, made while the second is in progress, replaces its time by the first one's |
| `starved` | runs at every second interval, a window of one over two instances: the second one is never examined |
| `stranded` | an instance whose agent was stopped by a SIGTERM, and that stays, is never replaced |

Each property of a passing run is also shown to notice a mistake: the definitions named for one (`RecordsOnlySuccess`,
`BuildWithoutTimes`, ...) stand before the definition they would replace, and with them the property fails.

What the passing properties leave out, because the code does not promise it: a scale-in factor above 1 may ask for more
than MaxSize (AWS refuses it); buffer and boost are added after MAX_INSTANCE_CAP; SCALE_ONLY_AFTER_ALL_EVENT holds a
direction back only once that direction has had an event of its own; a scale-in that finds the desired count already
right starts a cooldown.

Differences between code and text that were met and have no run of their own:

* scaling_calculator.go:131 boosts "only if ASG has converged": one run later the group converges, the boost is gone from
  the target and `scaleIn` may take back the instance it asked for. `MissingAgentsKeepInstances` is what remains true.
* scaler.go:276 checks for pending instances "before scaling down"; the scale-in for a capacity above the target
  (scaler.go:271) does not.
* `scaleOut` writes an absolute count (scaler.go:633): on an older snapshot it lowers the capacity, also with
  DISABLE_SCALE_IN ("should ever be decreased", template.yaml:107).
* MAX_DESCRIBE_SCALING_ACTIVITIES_PAGES of N reads N - 1 pages, and 0 and 1 read none and always fail (asg.go:472;
  template.yaml:131 "The number of pages to retrive").

### Bounds

Group sizes 0..2 or 0..3 hold an empty group, a change of one instance (where rounding decides), a larger one, and a
request at each limit. Cooldowns of 2 with `AgeCap` 2 tell "just now", "within" and "over"; `overlap` and `ends` use 1.
`MaxLeaving` = 1 limits instances being terminated at once: every decision that depends on them (`Graceful`) only asks
whether there are any. `StaleAfter` 0 or 1 lets metrics become stale between poll and decision. Load stays at most
three jobs in any answer. `Unit` = 2 gives the factors and the threshold 1/2, 1 and 2. One configuration is chosen per
behavior, so a run covers every configuration of its set. Deadlock is checked everywhere but in `rules`, whose
behaviors end with their one answer.

In `history`, three activities on pages of at most two make a second page, one that holds only some of what is asked
for, and an activity that begins while older pages are read; the limits -1, 0, 1, 2, 3 are none, two that let nothing
be read, one page and two pages. In `elastic`, two instances with a window of one make a window that misses one
instance; `Unreachable` = {i1} is the instance that fails every check ("oldest-N instances stuck failing SSM checks",
asg.go:617). `Slots` = 2 is the period of the window over two instances, and `Strides` = {1} lets runs begin interval
after interval; in `starved`, `Strides` = {2} lets them begin at every second one. Identities of instances that left are
used again, so the group changes without end.
Several batches of one check, and instances that are judged together, are beyond this run: with `WindowSize` = 0 and
no unreachable instance, and with three instances, TLC only explored the first 8 and 6 million states (no violation of
the safety properties). There the theorems stand alone. Neither run stops by itself, and deadlock is checked.

### Fairness

`LiveSpec` and `LambdaLiveSpec` state it. Weak fairness of the steps of a run: every call returns. Strong fairness of the
successful outcome of a poll, of a Describe before the metrics are stale, of an accepted SetDesiredCapacity and of
building the scaler: a call repeated for ever succeeds now and then. AWS keeps moving the group towards its desired
capacity, and time passes. Nothing is assumed about failures and failing instances. In `LambdaLiveSpec` the schedule
(template.yaml, every minute) invokes the environment again, and kills in the middle of an invocation stop some day;
without that, no property about reaching a target can hold. `HistoryAllows` alone is not assumed fair: a lowering within
the cooldown may block every time until it is old.

`HistLiveSpec`: every page request returns, and none needs to fail for the search to end. `SearchEnds` needs no bound
on what AWS appends meanwhile, because a search reads towards older activities.

`ElasticFairness`: calls return, scripts run, instances reach the minimum uptime. `Trouble` stops some day: from then
on no check at the start of a run is killed or fails, and the answers of instances that are online and stay are in
before the deadline. Without that no check finds anything. Runs follow each other; what the clock shows when they begin
is not a matter of fairness but of `Strides`. In `elastic` it shows the next interval, as with short runs in the loop of
the Lambda, and `DanglingAreReplaced` holds. With runs at every k-th interval, and k times the window a multiple of the
size of the group, the window shows the same instances each time: `starved` is the smallest case. The defaults come to
it with a group of ten when every check runs into its deadline (60 s, asg.go:302): LAMBDA_TIMEOUT (50 s) has then passed,
each invocation makes one check, the schedule's minute is six intervals of 10 s, and six windows of five are three turns
of ten. Strides that vary are in no run: some orders of them starve an instance, others do not. Nor is a group of three or
more whose size changes in step with the clock, which may have the same effect at any stride. Nothing is assumed of
agents or AWS.

`overlap` holds in standard mode; in Elastic CI mode two scalers that keep marking instances need not settle.

## 4. Proofs

| Theorem | Assumes |
|---|---|
| `TargetWithinBounds` | nothing but the types |
| `FactorsMakeProgress` | factors of at most 1 |
| `TypeCorrect`, `BoundsCorrect` | nothing: any number of scalers, any group |
| `SignalsPacedCorrect` | nothing: of each of any number of scalers |
| `ImplementsPacedCorrect` | `OneScaler`, `NoLostAnswers` |
| `StaleMetricsHoldCorrect` | `NoBuffer`: no instance buffer in Elastic CI mode |
| `NeverOvershootsCorrect`, `LambdaNeverOvershoots` | `SteadyAssumption`: any number of scalers or environments |
| `MovesTowardsCorrect`, `LambdaMovesTowards` | `SteadyAssumption`, `OneScaler` |
| `LambdaTypeCorrect`, `LambdaBoundsCorrect`, `LambdaMissingAgents` | nothing |
| `LambdaStaleMetricsHold` | `NoBuffer` |
| `LambdaPacedCorrect` | `OneScaler`, `NoLostAnswers`, `LookupsTell` |
| `MissingAgentsCorrect` | nothing: any number of scalers |
| `PerInstanceHosts`, `TargetMonotone` | nothing but the types |
| `SmallestCorrect`, `MoreLoadCorrect`, `FactorsCorrect` | `LimitAssumption`: the configurations of `MCRules`, counts of any size |
| `HistTypeCorrect`, `AnswersCorrect`, `LimitCorrect`, `ImplementsLookupCorrect`, `SearchShrinks` | `HistoryAssumption`: any limits, page size and bound |
| `ElasticTypeCorrect`, `MarkedOnGroundsCorrect`, `WavesNestCorrect`, `CheckUsesItsBudgetCorrect` | `FleetAssumption`, `CheckAssumption`, `StrideAssumption`: any finite fleet, any window, batch and set of unreachable instances |
| `WindowCovers` | nothing but the types |

`OneScaler`, `NoLostAnswers` and `LookupsTell` are needed, and the run `restarts` shows it when its constants are
changed: with `Outcomes` containing "lost", a scale-in without an answer starts no cooldown; with two members of
`Scalers`, environments that take turns know only their own events; with `Lookups` containing "behind", a cold start
misses a scale-in that is still in progress; with `Elastic` and `disableIn`, the lookup may stop before it comes to
the last scale-in. `ImplementsPaced` fails in each.

`SteadyAssumption` is `Unboosted`, `NoBuffer`, `Damped` and `~SelfTerminating`, and each part excludes something the code
does. The boost for missing agents makes the target depend on which part of the group is running. A buffer is added to
the count kept for stale metrics, so the group grows (`stale_buffer`). A factor above 1 asks for more than the whole
difference. And an instance that terminates itself lowers the desired capacity, below the target too, and a scaler whose
snapshot is older writes its absolute count over that. What the code does with boost and buffer in play is the subject of
`requests`.

* Bounds. `DecideCases` derives from `TargetWithinBounds` and `FactorsMakeProgress` what a decision hands on;
  `ScalerStepCases` says a request appears by a decision only and is kept, so the invariant is inductive with the
  types.
* Signals. `SignalInv`: a wave of SIGTERMs is about to be recorded, or the last recorded scale-in is not older than
  it; and whoever is about to send one has passed the cooldown. `SignalsPaced` alone is not inductive, since it says
  nothing of the run before it reaches the signal. It speaks of each scaler and its own waves only, so other scalers
  cannot disturb it.
* Steady load. `SteadyGoal`: without boost and buffer the target of a load is one number, whatever the snapshot.
  `SteadyDecision`: what a run asks for lies between the capacity it saw and that target, in each of the branches that
  reach `scaleIn` or `scaleOut`, the stale one included (`MeasuredInv` says the metrics of a run are the load). For one
  scaler `AimInv` says the pending request still starts at the capacity there is; `MovesTowardsTarget` is what its write
  then does. For several scalers that is false, since another one wrote in between. `SideInv` is what remains: the
  capacity and all pending requests lie on one side of the target, whichever of them is written last. Both
  outlive a kill, which only takes a request along (`LambdaNeverOvershoots`, `LambdaMovesTowards`).
* Refinement. `PacedInv` = `MemoryInv` (the same for lowerings) and `RequestInv` (the snapshot is an upper bound of
  the capacity, so a scale-out request still raises; a scale-in request has passed the cooldown). `RefinementStep`
  maps each action to a step or a stutter.
* Stale metrics. `StaleTarget`: the count kept for them passes clamp and factor unchanged, so whatever direction `Run`
  takes it asks for what the snapshot has. With a buffer it does not (`stale_buffer`), hence `NoBuffer`.
* Restarts. `WarmInv` says where the last lowering is remembered: by the scaler while it runs, by the globals between
  runs, and by AWS alone before the first lookup. `PacedStep` is reused for every step inside a run, and `Build`,
  `Return` and `Kill` are stutters of `PacedCapacity`.
* Missing agents. `BoostedTarget`: with missing agents and jobs, the boosted count lies above the instances that run,
  and buffer and clamp keep it there up to MaxSize; `RequestIsDecided` says that whatever a run requests, its own
  decision asked for.
* Load. `CeilIsLeast` characterizes rounding up; `PerInstanceMonotone`, `BoostedMonotone` and `BufferMonotone` give
  `TargetMonotone`. `MCRules` is the special case that its run checks.
* History. `FoundInv`: a result is an activity that counts, and not older than `known`. `LacksInv`: while a direction
  has no result, what was known lies in the pages not read yet. `HistoryGrows` says AWS only adds to what counts.
  `LimitCutsShortOnly` follows because a search with nothing left to do is not in "read". `ImplementsLookupCorrect` maps
  each step: `LookupAsks` and `LookupTells` are the two that show, and they rest on `FoundInv` and `LacksInv`.
* Marking. `GroundsInv` ties every state of a check script to the ground it may lead to: "NOT_RUNNING" and "FAILED"
  have one, "tested" with an agent that is not running has one, and so has "sent" without a marker. It needs
  `NoTwice`, because an instance that is listed twice could leave and stay.
* Waves. `WaveInv`: the members chosen by launch time so far are closed towards the older, in the fleet and in the prefix
  of a listing of any length, and departures and launches keep that. Of two closed sets one is part of the other
  (`ClosedSetsNest`). When DescribeInstances fails, the fallback (scaler.go:441) takes instances in the order AWS lists
  them: such waves need not nest, with each other or with the rest, and the agents they stop come on top.
  `OvertakersAreBlind`: they are the only ones that stop an agent while an older one is spared.
* Windows. `RemainderOfSum` and `RemainderUnique` are the arithmetic of `%`. A window around the end of the list repeats
  nothing (`WindowSizes`), so it holds as many positions as it may; the positions number the instances that are left of
  the list without a gap (`PositionsNumber`: an injection between finite sets of one size is onto), so as many
  instances are kept as the window has positions (`WindowedSizes`).

Only model-checked: the liveness properties (`Converges`, `InvocationsEnd`, `SearchEnds`, `DanglingAreReplaced`), because
they rest on fairness and ENABLED, which TLAPS does not handle. What they need besides fairness is proved of three of
them. `Converges`: no step leads away from the target (`MovesTowardsCorrect`) or past it (`NeverOvershootsCorrect`), and
a step of `scaleIn` or `scaleOut` is never zero (`FactorsMakeProgress`). `SearchEnds`: each page read leaves less to read
(`SearchShrinks`). `DanglingAreReplaced`: every instance of a list comes into the window before the clock has shown as
many intervals as there are windows in the list (`WindowCovers`), which helps only if a check begins in each of them.
Every other property of a passing run is a theorem. No module uses a RECURSIVE operator.

## 5. Not modelled

* Parsing of settings (`env.go`, `main.go`), HTTP and JSON (`buildkite.go`), CloudWatch datums, SSM parameter and AWS
  configuration: conversions and wrappers around libraries. Their failures are in the models where they end a run
  (`AbortRun`, `BuildFails`).
* Startup jitter, poll interval and the rate limit that extends it: time that passes in any phase, so they add no
  behavior. The jitter of an invocation is constant per group (a hash), so there is no state in it.
* Dry run and version: constants.
* The command-line program is `Scaler` with one scaler and a stop at the first error.
* Two Lambda environments that take turns on Elastic CI instances; commands of a killed check that still run on an
  instance (nobody reads their answers); more than one page of the answers to a poll.
