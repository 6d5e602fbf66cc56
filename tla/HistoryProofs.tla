------------------------------ MODULE HistoryProofs ------------------------------
(***************************************************************************)
(* Proofs about ActivityHistory, for every history, page size and page     *)
(* limit.                                                                  *)
(***************************************************************************)
EXTENDS ActivityHistory, SequenceTheorems, WellFoundedInduction, TLAPS

-----------------------------------------------------------------------------
(* A set of numbers that is not empty has a least element, and one with an *)
(* upper bound a greatest.                                                 *)
LEMMA LeastElement ==
  ASSUME NEW T \in SUBSET Nat, T # {}
  PROVE  \E m \in T : \A k \in T : m <= k
<1>1. \E m \in T : \A k \in T : ~(<<k, m>> \in OpToRel(<, Nat))
  BY NatLessThanWellFounded, WFMin
<1>2. \A k, m \in Nat : k < m => <<k, m>> \in OpToRel(<, Nat)
  BY DEF OpToRel
<1>3. \E m \in T : \A k \in T : ~(k < m)
  BY <1>1, <1>2, Zenon
<1> QED BY <1>3

LEMMA GreatestElement ==
  ASSUME NEW n \in Nat, NEW T, T \subseteq 0..n, T # {}
  PROVE  \E m \in T : \A k \in T : k <= m
<1> DEFINE below == { n - k : k \in T }
<1>1. \A k \in T : k \in Nat /\ n - k \in Nat
  OBVIOUS
<1>2. below \subseteq Nat /\ below # {}
  BY <1>1
<1>3. \E b \in below : \A c \in below : b <= c
  BY <1>2, LeastElement
<1>4. PICK m \in T : \A k \in T : n - m <= n - k
  BY <1>3
<1>5. \A k \in T : k <= m
  BY <1>1, <1>4
<1> QED BY <1>5

(* What Newest finds: nothing, or the newest that counts.                  *)
LEMMA NewestFacts ==
  ASSUME NEW n \in Nat, NEW ks, ks \subseteq 1..n, NEW d
  PROVE  \/ Newest(ks, d) = 0 /\ \A k \in ks : ~Counts(k, d)
         \/ /\ Newest(ks, d) \in ks
            /\ Counts(Newest(ks, d), d)
            /\ \A k \in ks : Counts(k, d) => k <= Newest(ks, d)
<1>1. CASE \A k \in ks : ~Counts(k, d)
  BY <1>1 DEF Newest
<1>2. CASE \E k \in ks : Counts(k, d)
  <2> DEFINE T == { k \in ks : Counts(k, d) }
  <2>1. T \subseteq 0..n
    <3>1. \A k \in 1..n : k \in 0..n
      OBVIOUS
    <3>2. \A k \in T : k \in 0..n
      BY <3>1
    <3> QED BY <3>2, Zenon
  <2>2. T # {}
    BY <1>2
  <2>3. \E m \in T : \A k \in T : k <= m
    BY <2>1, <2>2, GreatestElement
  <2>4. \E m \in ks : Counts(m, d) /\ \A j \in ks : Counts(j, d) => j <= m
    BY <2>3
  <2> QED BY <1>2, <2>4 DEF Newest
<1> QED BY <1>1, <1>2

LEMMA NewestType ==
  ASSUME NEW n \in Nat, NEW ks, ks \subseteq 1..n, NEW d
  PROVE  Newest(ks, d) \in 0..n
<1>1. Newest(ks, d) = 0 \/ Newest(ks, d) \in ks
  BY NewestFacts
<1>2. 0 \in 0..n /\ \A k \in 1..n : k \in 0..n
  OBVIOUS
<1> QED BY <1>1, <1>2, Zenon

-----------------------------------------------------------------------------
(* Types.                                                                  *)

(* AWS only appends to the history and ends what is in progress, so that   *)
(* what counts goes on counting.                                           *)
LEMMA HistoryGrows ==
  ASSUME activities \in Seq(Activity), NewActivity \/ ActivityEnds
  PROVE  /\ activities' \in Seq(Activity)
         /\ Len(activities) <= Len(activities')
         /\ \A k \in 1..Len(activities) :
              \A d : Counts(k, d) => Counts(k, d)'
<1>1. /\ Len(activities) \in Nat
      /\ DOMAIN activities = 1..Len(activities)
      /\ \A k \in 1..Len(activities) : activities[k] \in Activity
  BY LenProperties, ElementOfSeq
<1>2. CASE NewActivity
  <2>1. PICK kind \in Directions \union {"other"} :
          activities' =
            Append(activities, [kind |-> kind, status |-> "InProgress"])
    BY <1>2 DEF NewActivity
  <2>2. [kind |-> kind, status |-> "InProgress"] \in Activity
    BY DEF Activity
  <2>3. /\ activities' \in Seq(Activity)
        /\ Len(activities') = Len(activities) + 1
        /\ \A k \in 1..Len(activities) : activities'[k] = activities[k]
    BY <2>1, <2>2, AppendProperties
  <2> QED BY <1>1, <2>3 DEF Counts
<1>3. CASE ActivityEnds
  <2>1. PICK k \in 1..Len(activities), status \in {"Successful", "Failed"} :
          /\ activities[k].status = "InProgress"
          /\ activities' = [activities EXCEPT ![k].status = status]
    BY <1>3 DEF ActivityEnds
  <2> DEFINE ended == [activities[k] EXCEPT !.status = status]
  <2>2. ended \in Activity
    BY <1>1 DEF Activity
  <2>3. activities' = [activities EXCEPT ![k] = ended]
    BY <2>1
  <2> HIDE DEF ended
  <2>4. /\ activities' \in Seq(Activity)
        /\ Len(activities') = Len(activities)
        /\ \A j \in 1..Len(activities) :
             activities'[j] = IF j = k THEN ended ELSE activities[j]
    BY <1>1, <2>2, <2>3, ExceptSeq
  <2>5. ASSUME NEW j \in 1..Len(activities), NEW d, Counts(j, d)
        PROVE  Counts(j, d)'
    <3>1. j # k
      BY <2>1, <2>5 DEF Counts
    <3> QED BY <2>4, <2>5, <3>1 DEF Counts
  <2> QED BY <1>1, <2>4, <2>5
<1> QED BY <1>2, <1>3

(* A page lies within the history.                                         *)
LEMMA ReadPageFacts ==
  ASSUME HistTypeOK, ReadPage
  PROVE  \E first \in 1..(cursor + 1) :
           /\ cursor > 0 => first <= cursor
           /\ first..cursor \subseteq 1..Len(activities)
           /\ last' = Scan(first..cursor)
           /\ cursor' = first - 1
           /\ cursor' \in 0..Len(activities)
           /\ pc' = IF SearchEndsWith(last', cursor') THEN "done" ELSE "read"
<1>1. Len(activities) \in Nat /\ cursor \in 0..Len(activities)
  BY LenProperties DEF HistTypeOK
<1> QED BY <1>1 DEF ReadPage, NextToken

LEMMA ScanType ==
  ASSUME HistTypeOK, NEW page, page \subseteq 1..Len(activities)
  PROVE  Scan(page) \in [Directions -> 0..Len(activities)]
<1>1. Len(activities) \in Nat
  BY LenProperties DEF HistTypeOK
<1> QED BY <1>1, NewestType DEF Scan, HistTypeOK

LEMMA HistTypeInductive ==
  ASSUME HistTypeOK, [HistNext]_histVars
  PROVE  HistTypeOK'
<1>0. /\ Len(activities) \in Nat
      /\ Nothing \in [Directions -> 0..Len(activities)]
      /\ NewestOfAll \in [Directions -> 0..Len(activities)]
      /\ limit \in Int
  <2>1. Len(activities) \in Nat /\ limit \in Int
    BY LenProperties, HistoryAssumption DEF HistTypeOK
  <2>2. \A d : Newest(1..Len(activities), d) \in 0..Len(activities)
    BY <2>1, NewestType, Zenon
  <2> QED BY <2>1, <2>2 DEF Nothing, NewestOfAll
<1>1. CASE UNCHANGED histVars
  BY <1>1 DEF histVars, settings, search, HistTypeOK
<1>2. ASSUME NEW directions \in SUBSET Directions, NEW pageLimit \in Int,
             Begin(directions, pageLimit)
      PROVE  HistTypeOK'
  BY <1>0, <1>2 DEF Begin, settings, HistTypeOK
<1>3. CASE StopAtLimit \/ CallFails
  BY <1>3 DEF StopAtLimit, CallFails, CountPage, settings, HistTypeOK
<1>4. CASE ReadPage
  <2>1. /\ last' \in [Directions -> 0..Len(activities)]
        /\ cursor' \in 0..Len(activities)
        /\ pc' \in {"done", "read"}
    BY <1>4, ReadPageFacts, ScanType
  <2>2. UNCHANGED << activities, limit, enabled, asked, allowed, known >>
        /\ pages' \in Nat
    BY <1>4 DEF ReadPage, CountPage, settings, HistTypeOK
  <2> QED BY <2>1, <2>2 DEF HistTypeOK
<1>5. CASE Answer
  BY <1>0, <1>5 DEF Answer, settings, HistTypeOK
<1>6. CASE NewActivity \/ ActivityEnds
  <2>1. /\ activities' \in Seq(Activity)
        /\ Len(activities) <= Len(activities') /\ Len(activities') \in Nat
    BY <1>6, HistoryGrows, LenProperties DEF HistTypeOK
  <2>2. UNCHANGED << limit, enabled, pc, asked, allowed, pages, cursor, last, known >>
    BY <1>6 DEF NewActivity, ActivityEnds, settings, search
  <2>3. \A k \in 0..Len(activities) : k \in 0..Len(activities')
    BY <1>0, <2>1
  <2>4. \A f \in [Directions -> 0..Len(activities)] :
          f \in [Directions -> 0..Len(activities')]
    BY <2>3
  <2> QED BY <2>1, <2>2, <2>3, <2>4 DEF HistTypeOK
<1>7. CASE LambdaAsks
  BY <1>0, <1>2, <1>7 DEF LambdaAsks, HistTypeOK
<1>8. CASE ScaleInAsks
  BY <1>2, <1>8 DEF ScaleInAsks, Directions
<1> QED BY <1>1, <1>3, <1>4, <1>5, <1>6, <1>7, <1>8 DEF HistNext

LEMMA HistTypeInit == HistInit => HistTypeOK
BY EmptySeq, HistoryAssumption DEF HistInit, HistTypeOK, Nothing

(* Every reachable state of ActivityHistory has its types.                 *)
THEOREM HistTypeCorrect == HistSpec => []HistTypeOK
<1>1. HistTypeOK /\ [HistNext]_histVars => HistTypeOK'
  BY HistTypeInductive
<1> QED BY <1>1, HistTypeInit, PTL DEF HistSpec

-----------------------------------------------------------------------------
(* The answer.  What there was to find when the search began still counts; *)
(* while a direction has nothing found, it lies among what is left to read.*)
FoundInv ==
  pc \in {"read", "done"} =>
    \A d \in Directions :
      /\ known[d] # 0 => Counts(known[d], d)
      /\ last[d] # 0 => Counts(last[d], d) /\ last[d] >= known[d]
      /\ pc = "read" /\ last[d] = 0 => known[d] <= cursor
      /\ pc = "done" /\ d \in asked => last[d] >= known[d]

(* A search that goes on lacks something, and has something to read.       *)
LacksInv ==
  pc = "read" => /\ cursor > 0 \/ pages = 0
                 /\ ~HasFound(last)

LEMMA BeginFinds ==
  ASSUME HistTypeOK, NEW directions \in SUBSET Directions, NEW pageLimit,
         Begin(directions, pageLimit)
  PROVE  FoundInv' /\ LacksInv'
<1>0. Len(activities) \in Nat
  BY LenProperties DEF HistTypeOK
<1>1. \A d : \/ Newest(1..Len(activities), d) = 0
             \/ /\ Newest(1..Len(activities), d) \in 1..Len(activities)
                /\ Counts(Newest(1..Len(activities), d), d)
  BY <1>0, NewestFacts, Zenon
<1>2. ASSUME NEW d \in Directions
      PROVE  /\ known'[d] # 0 => Counts(known[d], d)'
             /\ last'[d] = 0
             /\ known'[d] <= cursor'
  <2>1. /\ known'[d] = Newest(1..Len(activities), d) /\ last'[d] = 0
        /\ cursor' = Len(activities) /\ activities' = activities
    BY DEF Begin, NewestOfAll, Nothing
  <2> DEFINE newest == Newest(1..Len(activities), d)
  <2>2. \/ newest = 0
        \/ newest \in 1..Len(activities) /\ Counts(newest, d)
    BY <1>1
  <2> HIDE DEF newest
  <2>3. known'[d] = newest
    BY <2>1 DEF newest
  <2>4. newest <= Len(activities)
    BY <1>0, <2>2
  <2> QED BY <2>1, <2>2, <2>3, <2>4 DEF Counts
<1>3. FoundInv'
  <2>1. pc' = "read"
    BY DEF Begin
  <2> QED BY <1>2, <2>1 DEF FoundInv
<1>4. LacksInv'
  BY <1>2 DEF Begin, LacksInv, HasFound
<1> QED BY <1>3, <1>4

LEMMA PageFinds ==
  ASSUME HistTypeOK, FoundInv, ReadPage
  PROVE  FoundInv' /\ LacksInv'
<1>0. /\ Len(activities) \in Nat /\ cursor \in 0..Len(activities)
      /\ \A d \in Directions : /\ known[d] \in 0..Len(activities)
                              /\ last[d] \in 0..Len(activities)
      /\ pc = "read"
      /\ UNCHANGED << activities, known, asked >>
  BY LenProperties DEF HistTypeOK, ReadPage
<1>1. PICK first \in 1..(cursor + 1) :
        /\ first..cursor \subseteq 1..Len(activities)
        /\ last' = Scan(first..cursor)
        /\ cursor' = first - 1
        /\ pc' = IF SearchEndsWith(last', cursor') THEN "done" ELSE "read"
  BY ReadPageFacts
<1>2. ASSUME NEW d \in Directions
      PROVE  /\ known[d] # 0 => Counts(known[d], d)
             /\ last'[d] # 0 => Counts(last'[d], d) /\ last'[d] >= known[d]
             /\ last'[d] = 0 => known[d] <= cursor'
  <2>1. CASE last[d] # 0
    BY <1>0, <1>1, <2>1 DEF FoundInv, Scan
  <2>2. CASE last[d] = 0
    <3> DEFINE found == Newest(first..cursor, d)
    <3>1. last'[d] = found
      BY <1>1, <2>2 DEF Scan
    <3>2. \/ found = 0 /\ \A k \in first..cursor : ~Counts(k, d)
          \/ /\ found \in first..cursor
             /\ Counts(found, d)
             /\ \A k \in first..cursor : Counts(k, d) => k <= found
      BY <1>0, <1>1, NewestFacts, Zenon
    <3>3. known[d] <= cursor /\ (known[d] # 0 => Counts(known[d], d))
      BY <1>0, <2>2 DEF FoundInv
    <3> HIDE DEF found
    <3>4. known[d] \in first..cursor \/ known[d] < first
      BY <1>0, <1>1, <3>3
    <3> QED BY <1>0, <1>1, <3>1, <3>2, <3>3, <3>4
  <2> QED BY <2>1, <2>2
<1>3. ASSUME NEW d \in Directions, pc' = "done", d \in asked
      PROVE  last'[d] >= known[d]
  <2>1. HasFound(last') \/ cursor' = 0
    BY <1>1, <1>3 DEF SearchEndsWith
  <2>2. last'[d] \in 0..Len(activities)
    BY <1>0, <1>1, ScanType
  <2> QED BY <1>0, <1>2, <1>3, <2>1, <2>2 DEF HasFound
<1>4. FoundInv'
  BY <1>0, <1>2, <1>3 DEF FoundInv, Counts
<1>5. LacksInv'
  BY <1>0, <1>1 DEF LacksInv, SearchEndsWith, HasFound
<1> QED BY <1>4, <1>5

LEMMA HistoryStepFinds ==
  ASSUME HistTypeOK, FoundInv, LacksInv, NewActivity \/ ActivityEnds
  PROVE  FoundInv' /\ LacksInv'
<1>1. UNCHANGED << pc, asked, pages, cursor, last, known >>
  BY DEF NewActivity, ActivityEnds, search
<1>2. \A k \in 1..Len(activities) :
              \A d : Counts(k, d) => Counts(k, d)'
  BY HistoryGrows DEF HistTypeOK
<1>3. ASSUME NEW d \in Directions
      PROVE  /\ known[d] # 0 => known[d] \in 1..Len(activities)
             /\ last[d] # 0 => last[d] \in 1..Len(activities)
  BY LenProperties DEF HistTypeOK
<1>4. FoundInv'
  BY <1>1, <1>2, <1>3 DEF FoundInv, Counts
<1>5. LacksInv'
  BY <1>1 DEF LacksInv, HasFound
<1> QED BY <1>4, <1>5

HistIInv == HistTypeOK /\ FoundInv /\ LacksInv

LEMMA HistInductive ==
  ASSUME HistIInv, [HistNext]_histVars
  PROVE  HistIInv'
<1> USE DEF HistIInv
<1>0. HistTypeOK'
  BY HistTypeInductive
<1>1. CASE UNCHANGED histVars
  BY <1>0, <1>1 DEF histVars, search, FoundInv, LacksInv, Counts, HasFound
<1>2. CASE LambdaAsks \/ ScaleInAsks
  <2>1. enabled \in SUBSET Directions /\ {"in"} \in SUBSET Directions
    BY DEF HistTypeOK, Directions
  <2> QED BY <1>0, <1>2, <2>1, BeginFinds DEF LambdaAsks, ScaleInAsks
<1>3. CASE StopAtLimit \/ CallFails \/ Answer
  BY <1>0, <1>3 DEF StopAtLimit, CallFails, Answer, FoundInv, LacksInv
<1> QED BY <1>0, <1>1, <1>2, <1>3, PageFinds, HistoryStepFinds DEF HistNext

LEMMA HistInvariant == HistSpec => []HistIInv
<1>1. HistInit => HistIInv
  BY HistTypeInit DEF HistInit, HistIInv, FoundInv, LacksInv
<1>2. HistIInv /\ [HistNext]_histVars => HistIInv'
  BY HistInductive
<1> QED BY <1>1, <1>2, PTL DEF HistSpec

(* A search that ends without an error never answers with an event older   *)
(* than the last one that was successful when it began, and never misses a *)
(* direction it was asked for, however the history is paged and grows.     *)
THEOREM AnswersCorrect == HistSpec => []AnswersAreUpToDate
<1>1. HistIInv => AnswersAreUpToDate
  BY DEF HistIInv, FoundInv, AnswersAreUpToDate
<1> QED BY <1>1, HistInvariant, PTL

(* The page limit ends only a search that lacks something and has something*)
(* left to read, or that has not read a page at all.                       *)
THEOREM LimitCorrect == HistSpec => LimitCutsShortOnly
<1>1. HistIInv /\ [HistNext]_histVars
        => [StopAtLimit => /\ cursor > 0 \/ pages = 0
                           /\ asked = {} \/ \E d \in asked : last[d] = 0]_histVars
  BY DEF HistIInv, LacksInv, HasFound, StopAtLimit
<1> QED BY <1>1, HistInvariant, PTL DEF HistSpec, LimitCutsShortOnly

-----------------------------------------------------------------------------
(* The search as one step.                                                 *)

(* What has happened is what counts.                                       *)
LEMMA EventsFacts ==
  ASSUME HistTypeOK
  PROVE  \A d : /\ 0 \notin EventsOf(d)
                /\ \A n \in 1..Len(activities) :
                     n \in EventsOf(d) <=> Counts(n, d)
                /\ Promise!IsLast(Newest(1..Len(activities), d), EventsOf(d))
<1>0. Len(activities) \in Nat
  BY LenProperties DEF HistTypeOK
<1>1. SUFFICES ASSUME NEW d
               PROVE  Promise!IsLast(Newest(1..Len(activities), d), EventsOf(d))
  BY <1>0 DEF EventsOf
<1>2. \/ /\ Newest(1..Len(activities), d) = 0
         /\ \A k \in 1..Len(activities) : ~Counts(k, d)
      \/ /\ Newest(1..Len(activities), d) \in 1..Len(activities)
         /\ Counts(Newest(1..Len(activities), d), d)
         /\ \A k \in 1..Len(activities) :
              Counts(k, d) => k <= Newest(1..Len(activities), d)
  BY <1>0, NewestFacts, Zenon
<1> QED
  BY <1>2, Zenon DEF Promise!IsLast, EventsOf

LEMMA LookupInit == HistInit => Promise!Init
<1> SUFFICES ASSUME HistInit PROVE Promise!Init
  OBVIOUS
<1>1. \A d \in Directions : EventsOf(d) = {}
  BY EmptySeq DEF HistInit, EventsOf
<1> QED
  BY <1>1 DEF HistInit, Promise!Init, Promise!None, Nothing

LEMMA LookupAsks ==
  ASSUME HistTypeOK, NEW directions \in SUBSET Directions, NEW pageLimit,
         Begin(directions, pageLimit)
  PROVE  Promise!Ask
<1>1. \A d \in Directions : EventsOf(d)' = EventsOf(d)
  BY DEF Begin, EventsOf, Counts
<1>2. \A d \in Directions : Promise!IsLast(known'[d], EventsOf(d))
  <2>1. \A d \in Directions : known'[d] = Newest(1..Len(activities), d)
    BY DEF Begin, NewestOfAll
  <2> QED
    BY <2>1, EventsFacts
<1> QED
  BY <1>1, <1>2 DEF Begin, Promise!Ask, Promise!IsLast

(* A page is read without effect on the caller, or is the last and answers.*)
LEMMA LookupTells ==
  ASSUME HistIInv, ReadPage
  PROVE  Promise!Tell \/ UNCHANGED Promise!lookupVars
<1> USE DEF HistIInv
<1>1. /\ pc = "read" /\ pc' \in {"read", "done"}
      /\ UNCHANGED << activities, asked, known >>
  BY ReadPageFacts DEF ReadPage
<1>2. \A d \in Directions : EventsOf(d)' = EventsOf(d)
  BY <1>1 DEF EventsOf, Counts
<1>3. CASE pc' = "read"
  BY <1>1, <1>2, <1>3 DEF Promise!lookupVars
<1>4. CASE pc' = "done"
  <2>1. ASSUME NEW d \in Directions
        PROVE  \/ last'[d] \in EventsOf(d) /\ known[d] <= last'[d]
               \/ last'[d] = 0 /\ (d \in asked => known[d] = 0)
    <3>1. /\ last'[d] # 0 => Counts(last[d], d)' /\ last'[d] >= known[d]
          /\ d \in asked => last'[d] >= known[d]
      BY <1>1, <1>4, PageFinds DEF FoundInv
    <3>2. last'[d] \in 0..Len(activities) /\ known[d] \in 0..Len(activities)
      BY <1>1, ReadPageFacts, ScanType DEF HistTypeOK
    <3>3. Len(activities) \in Nat
      BY LenProperties DEF HistTypeOK
    <3>4. last'[d] # 0 => last'[d] \in 1..Len(activities)
      BY <3>2, <3>3
    <3>5. last'[d] # 0 => Counts(last'[d], d)
      BY <1>1, <3>1 DEF Counts
    <3>6. last'[d] # 0 => last'[d] \in EventsOf(d)
      BY <3>4, <3>5 DEF EventsOf
    <3> QED
      BY <3>1, <3>2, <3>3, <3>6
  <2> QED
    BY <1>1, <1>2, <1>4, <2>1 DEF Promise!Tell
<1> QED
  BY <1>1, <1>3, <1>4

LEMMA LookupStep ==
  ASSUME HistIInv, [HistNext]_histVars
  PROVE  [Promise!Next]_(Promise!lookupVars)
<1> USE DEF HistIInv
<1>0. UNCHANGED activities => \A d \in Directions : EventsOf(d)' = EventsOf(d)
  BY DEF EventsOf, Counts
<1>1. CASE UNCHANGED histVars
  BY <1>0, <1>1 DEF histVars, search, Promise!lookupVars
<1>2. CASE LambdaAsks \/ ScaleInAsks
  <2>1. enabled \in SUBSET Directions /\ {"in"} \in SUBSET Directions
    BY DEF HistTypeOK, Directions
  <2> QED
    BY <1>2, <2>1, LookupAsks DEF LambdaAsks, ScaleInAsks, Promise!Next
<1>3. CASE StopAtLimit \/ CallFails
  BY <1>0, <1>3 DEF StopAtLimit, CallFails, Promise!Next, Promise!Fail
<1>4. CASE ReadPage
  BY <1>4, LookupTells DEF Promise!Next
<1>5. CASE Answer
  BY <1>0, <1>5 DEF Answer, Promise!Next, Promise!Return, Promise!None, Nothing
<1>6. CASE NewActivity \/ ActivityEnds
  <2>1. /\ activities' \in Seq(Activity)
        /\ Len(activities) <= Len(activities')
        /\ \A k \in 1..Len(activities) :
              \A d : Counts(k, d) => Counts(k, d)'
    BY <1>6, HistoryGrows DEF HistTypeOK
  <2>2. Len(activities) \in Nat /\ Len(activities') \in Nat
    BY <2>1, LenProperties DEF HistTypeOK
  <2>3. 1..Len(activities) \subseteq 1..Len(activities')
    BY <2>1, <2>2
  <2>4. \A d \in Directions : EventsOf(d) \subseteq EventsOf(d)'
    BY <2>1, <2>3 DEF EventsOf
  <2>5. UNCHANGED << pc, asked, known, last >>
    BY <1>6 DEF NewActivity, ActivityEnds, search
  <2> QED
    BY <2>4, <2>5 DEF Promise!Next, Promise!Happen
<1> QED
  BY <1>1, <1>2, <1>3, <1>4, <1>5, <1>6 DEF HistNext

(* A search that reads page by page, of any size and under any limit, while*)
(* activities begin and end in any order, is a lookup in one step.         *)
THEOREM ImplementsLookupCorrect == HistSpec => ImplementsLookup
BY LookupInit, LookupStep, HistInvariant, PTL
DEF HistSpec, ImplementsLookup, Promise!Spec

-----------------------------------------------------------------------------
(* The end of a search: the part of SearchEnds that needs no fairness.     *)

(* A search goes on only by reading a page that leaves it less to read,    *)
(* however many activities begin meanwhile: it reads no more pages than    *)
(* there were activities when it began, or one.                            *)
THEOREM SearchShrinks ==
  HistSpec =>
    [][(pc = "read" /\ pc' = "read")
         => cursor' < cursor \/ UNCHANGED search]_histVars
<1>1. HistIInv /\ [HistNext]_histVars
        => [(pc = "read" /\ pc' = "read")
              => cursor' < cursor \/ UNCHANGED search]_histVars
  <2> SUFFICES ASSUME HistIInv, HistNext, pc = "read", pc' = "read"
               PROVE  cursor' < cursor \/ UNCHANGED search
    OBVIOUS
  <2>1. CASE ReadPage
    <3>1. cursor \in Nat
      BY LenProperties DEF HistIInv, HistTypeOK
    <3>2. PICK first \in 1..(cursor + 1) :
            /\ cursor > 0 => first <= cursor
            /\ cursor' = first - 1
            /\ pc' = IF SearchEndsWith(last', cursor') THEN "done" ELSE "read"
      BY <2>1, ReadPageFacts DEF HistIInv
    <3>3. cursor' # 0
      BY <3>2 DEF SearchEndsWith
    <3> QED
      BY <3>1, <3>2, <3>3
  <2>2. CASE NewActivity \/ ActivityEnds
    BY <2>2 DEF NewActivity, ActivityEnds
  <2> QED
    BY <2>1, <2>2
    DEF HistNext, LambdaAsks, ScaleInAsks, Begin, StopAtLimit, CallFails, Answer
<1> QED
  BY <1>1, HistInvariant, PTL DEF HistSpec

=============================================================================
