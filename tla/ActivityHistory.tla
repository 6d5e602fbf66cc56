---------------------------- MODULE ActivityHistory ----------------------------
(***************************************************************************)
(* GetLastScalingInAndOutActivity: the search for the last scale-in and the*)
(* last scale-out in the group's scaling activities.                       *)
(*                                                                         *)
(* AWS lists the activities in pages, newest first.  While one search reads*)
(* page after page, new activities begin and old ones become successful.   *)
(* An index counts from the oldest activity, so it means the same activity *)
(* throughout, and 0 means none (nil).                                     *)
(*                                                                         *)
(* Definitions named for a mistake (ScanKeepsLast) are slips the checks are*)
(* shown to notice; nothing else uses them.                                *)
(***************************************************************************)
EXTENDS Integers, Sequences

CONSTANTS
  Limits,         \* values of MAX_DESCRIBE_SCALING_ACTIVITIES_PAGES
  PageSize,       \* bound: activities on a page
  MaxActivities   \* bound: activities of the group

ASSUME HistoryAssumption ==
  /\ Limits \subseteq Int
  /\ PageSize \in Nat \ {0}
  /\ MaxActivities \in Nat

VARIABLES
  activities,     \* the group's scaling activities, oldest first
  limit,          \* MaxDescribeScalingActivitiesPages of the Lambda
  enabled,        \* the directions the Lambda has not disabled
  pc,             \* where the search stands
  asked,          \* the directions it looks for
  allowed,        \* the page limit it runs under
  pages,          \* i, the pages it has started to read under a limit
  cursor,         \* NextToken: the newest activity it has not read
  last,           \* what it has found in each direction
  known           \* history: what there was to find when it began

settings == << limit, enabled >>
search   == << asked, allowed, pages, cursor, last, known >>
histVars == << activities, settings, pc, search >>

Directions == {"out", "in"}

(* "other" is what carries neither of the causes looked for: replacements, *)
(* and instances that terminate themselves.                                *)
Activity ==
  [ kind : Directions \union {"other"},
    status : {"InProgress", "Successful", "Failed"} ]

HistTypeOK ==
  /\ activities \in Seq(Activity)
  /\ limit \in Limits
  /\ enabled \subseteq Directions
  /\ pc \in {"idle", "read", "done", "error"}
  /\ asked \subseteq Directions
  /\ allowed \in Int
  /\ pages \in Nat
  /\ cursor \in 0..Len(activities)
  /\ last \in [Directions -> 0..Len(activities)]
  /\ known \in [Directions -> 0..Len(activities)]

Nothing == [d \in Directions |-> 0]

HistInit ==
  /\ activities = << >>
  /\ limit \in Limits
  /\ enabled \in SUBSET Directions
  /\ pc = "idle"
  /\ asked = {}
  /\ allowed = -1
  /\ pages = 0
  /\ cursor = 0
  /\ last = Nothing
  /\ known = Nothing

-----------------------------------------------------------------------------
(* The search.                                                             *)

(* An activity counts if it is successful and a user request to change the *)
(* desired capacity in this direction.                                     *)
Counts(k, d) ==
  activities[k].status = "Successful" /\ activities[k].kind = d

(* The newest activity among the given ones that counts.                   *)
Newest(ks, d) ==
  IF \E k \in ks : Counts(k, d)
  THEN CHOOSE k \in ks :
         Counts(k, d) /\ \A j \in ks : Counts(j, d) => j <= k
  ELSE 0

NewestOfAll == [d \in Directions |-> Newest(1..Len(activities), d)]

Begin(directions, pageLimit) ==
  /\ pc = "idle"
  /\ pc' = "read"
  /\ asked' = directions
  /\ allowed' = pageLimit
  /\ pages' = 0
  /\ cursor' = Len(activities)
  /\ last' = Nothing
  /\ known' = NewestOfAll
  /\ UNCHANGED << activities, settings >>

(* The Lambda asks for the directions that are not disabled; scaleIn in    *)
(* Elastic CI mode asks for the last scale-in, and lifts the page limit.   *)
LambdaAsks == Begin(enabled, limit)
ScaleInAsks == Begin({"in"}, -1)

(* hasFoundScalingActivities.  Asked for nothing, it is never satisfied.   *)
HasFound(found) == asked # {} /\ \A d \in asked : found[d] # 0

(* The first activity that counts in a direction is kept.                  *)
ScanKeepsLast(page) ==
  [d \in Directions |->
     IF Newest(page, d) # 0 THEN Newest(page, d) ELSE last[d]]

Scan(page) ==
  [d \in Directions |-> IF last[d] = 0 THEN Newest(page, d) ELSE last[d]]

(* The page counter is incremented before it is compared: a limit of N lets*)
(* N - 1 pages be read.                                                    *)
OverLimit == allowed >= 0 /\ pages + 1 >= allowed

(* Without a limit nothing depends on the count, which is then left alone. *)
CountPage == pages' = IF allowed >= 0 THEN pages + 1 ELSE pages

StopAtLimit ==
  /\ pc = "read"
  /\ OverLimit
  /\ CountPage
  /\ pc' = "error"
  /\ UNCHANGED << activities, settings, asked, allowed, cursor, last, known >>

CallFails ==
  /\ pc = "read"
  /\ ~OverLimit
  /\ CountPage
  /\ pc' = "error"
  /\ UNCHANGED << activities, settings, asked, allowed, cursor, last, known >>

(* One page, of a size AWS chooses; the rest of a page is scanned also when*)
(* its first activities already answer the question.  No NextToken comes   *)
(* with the page that ends the history.                                    *)
SameToken(first) == cursor

TokenSkipsOne(first) == first - 2

NextToken(first) == first - 1

EndsOnlyWhenFound(found, token) == HasFound(found)

EndsWithOneFound(found, token) ==
  (\E d \in asked : found[d] # 0) \/ token = 0

SearchEndsWith(found, token) == HasFound(found) \/ token = 0

ReadPage ==
  /\ pc = "read"
  /\ ~OverLimit
  /\ CountPage
  /\ \E first \in 1..(cursor + 1) :
       /\ cursor + 1 - first <= PageSize
       /\ cursor > 0 => first <= cursor
       /\ last' = Scan(first..cursor)
       /\ cursor' = NextToken(first)
       /\ pc' = IF SearchEndsWith(last', cursor') THEN "done" ELSE "read"
  /\ UNCHANGED << activities, settings, asked, allowed, known >>

(* The caller uses the answer, or drops it because of the error.           *)
Answer ==
  /\ pc \in {"done", "error"}
  /\ pc' = "idle"
  /\ asked' = {}
  /\ allowed' = -1
  /\ pages' = 0
  /\ cursor' = 0
  /\ last' = Nothing
  /\ known' = Nothing
  /\ UNCHANGED << activities, settings >>

-----------------------------------------------------------------------------
(* AWS, at any time: an activity begins, or ends one way or the other, and *)
(* not always in the order in which they began.                            *)
NewActivity ==
  /\ Len(activities) < MaxActivities
  /\ \E kind \in Directions \union {"other"} :
       activities' =
         Append(activities, [kind |-> kind, status |-> "InProgress"])
  /\ UNCHANGED << settings, pc, search >>

ActivityEnds ==
  /\ \E k \in 1..Len(activities), status \in {"Successful", "Failed"} :
       /\ activities[k].status = "InProgress"
       /\ activities' = [activities EXCEPT ![k].status = status]
  /\ UNCHANGED << settings, pc, search >>

HistNext ==
  \/ LambdaAsks
  \/ ScaleInAsks
  \/ StopAtLimit
  \/ CallFails
  \/ ReadPage
  \/ Answer
  \/ NewActivity
  \/ ActivityEnds

HistSpec == HistInit /\ [][HistNext]_histVars

(* Every call of the search returns.  That it may fail does not help the   *)
(* search to end: calls that succeed are enough.                           *)
HistLiveSpec ==
  /\ HistSpec
  /\ WF_histVars(StopAtLimit)
  /\ WF_histVars(ReadPage)

-----------------------------------------------------------------------------
(* Properties.                                                             *)

(* A search that ends without an error never answers with an event older   *)
(* than the last one that was successful when it began, although pages are *)
(* read one by one while activities begin and end, and says "none" of a    *)
(* direction it was asked for only if there was none.  A direction it was  *)
(* not asked for it may miss, but what it then finds is not outdated.      *)
AnswersAreUpToDate ==
  pc = "done" =>
    \A d \in Directions :
      /\ last[d] # 0 => Counts(last[d], d)
      /\ (d \in asked \/ last[d] # 0) => last[d] >= known[d]

(* The page limit only ever cuts short a search that still lacks something *)
(* and has something left to read: an answer that is complete, or a history*)
(* read to its end, is never turned into an error.                         *)
LimitCutsShortOnly ==
  [][StopAtLimit => /\ cursor > 0 \/ pages = 0
                    /\ asked = {} \/ \E d \in asked : last[d] = 0]_histVars

(* A search that reads page by page is a lookup in one step (EventLookup): *)
(* what it answers happened, and is as new as what there was when it began,*)
(* and the answer stays as it is while the caller looks at it.             *)
EventsOf(d) == { k \in 1..Len(activities) : Counts(k, d) }

Promise == INSTANCE EventLookup WITH
  happened <- [d \in Directions |-> EventsOf(d)],
  state <- pc, since <- known,
  answer <- IF pc = "done" THEN last ELSE Nothing

ImplementsLookup == Promise!Spec

(* Every search ends, though activities keep being added while it reads.   *)
SearchEnds == pc = "read" ~> pc # "read"

=============================================================================
