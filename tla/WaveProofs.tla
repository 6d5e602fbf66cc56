-------------------------------- MODULE WaveProofs --------------------------------
(***************************************************************************)
(* Proofs that the waves of SIGTERMs nest as far as launch times are known *)
(* (WavesNest of GracefulScaleIn), for every fleet and any number of killed*)
(* runs, and that the window of a dangling check is as large as it may be  *)
(* and comes around to every instance (CheckUsesItsBudget), for every size,*)
(* list and reading of the clock.                                          *)
(***************************************************************************)
EXTENDS ElasticProofs, FiniteSetTheorems

-----------------------------------------------------------------------------
(* Waves.                                                                  *)

(* With an instance, a set that is closed holds all older ones.            *)
Closed(f, some) ==
  \A a, b \in 1..Len(f) : a <= b /\ f[b] \in some => f[a] \in some

FirstListed(n) == { listing[k] : k \in 1..n }

(* The members chosen so far are the oldest of the group, and so are the   *)
(* first ones, however many, of a listing that is about to be used, as far *)
(* as they are still there.                                                *)
WaveInv ==
  /\ chosen \subseteq InGroup
  /\ Closed(fleet, chosen)
  /\ pc = "choose" => \A n \in 0..Len(listing) : Closed(fleet, FirstListed(n))

(* Of two closed sets of members one is part of the other.                 *)
LEMMA ClosedSetsNest ==
  ASSUME NEW f \in Seq(Instances), NEW P, NEW Q,
         P \subseteq Range(f), Q \subseteq Range(f), Closed(f, P), Closed(f, Q)
  PROVE  P \subseteq Q \/ Q \subseteq P
<1> SUFFICES ASSUME NEW x \in P, x \notin Q, NEW y \in Q, y \notin P
             PROVE  FALSE
  OBVIOUS
<1>1. PICK a \in 1..Len(f) : x = f[a]
  BY GroupIsRange
<1>2. PICK b \in 1..Len(f) : y = f[b]
  BY GroupIsRange
<1>3. a <= b \/ b <= a
  BY LenProperties
<1> QED BY <1>1, <1>2, <1>3 DEF Closed

(* The elements that are left keep their order.                            *)
LEMMA LeaveKeepsClosed ==
  ASSUME FleetOK, NEW i, Leave(i), NEW P, Closed(fleet, P)
  PROVE  Closed(fleet', P)
<1>1. PICK k \in 1..Len(fleet) :
        /\ Len(fleet') = Len(fleet) - 1
        /\ \A a \in 1..Len(fleet') :
             fleet'[a] = fleet[IF a < k THEN a ELSE a + 1]
  BY LeaveFacts
<1>2. Len(fleet) \in Nat
  BY LenProperties DEF FleetOK
<1> DEFINE before(a) == IF a < k THEN a ELSE a + 1
<1> SUFFICES ASSUME NEW a \in 1..Len(fleet'), NEW b \in 1..Len(fleet'),
                    a <= b, fleet'[b] \in P
             PROVE  fleet'[a] \in P
  BY DEF Closed
<1>3. /\ before(a) \in 1..Len(fleet)
      /\ before(b) \in 1..Len(fleet)
      /\ before(a) <= before(b)
  BY <1>1, <1>2
<1>4. fleet'[a] = fleet[before(a)] /\ fleet'[b] = fleet[before(b)]
  BY <1>1
<1> HIDE DEF before
<1> QED BY <1>3, <1>4 DEF Closed

(* A new instance is the youngest, and nothing chosen or listed.           *)
LEMMA LaunchKeepsClosed ==
  ASSUME FleetOK, NoTwice, NEW i \in Instances, Launch(i),
         NEW P, i \notin P, Closed(fleet, P)
  PROVE  Closed(fleet', P)
<1>1. /\ Len(fleet') = Len(fleet) + 1
      /\ \A a \in 1..Len(fleet) : fleet'[a] = fleet[a]
      /\ fleet'[Len(fleet) + 1] = i
  BY LaunchNoTwice
<1>2. Len(fleet) \in Nat
  BY LenProperties DEF FleetOK
<1> QED BY <1>1, <1>2 DEF Closed

(* Steps that leave the group alone.                                       *)
LEMMA WaveFrame ==
  ASSUME WaveInv, UNCHANGED << fleet, chosen >>,
         pc' # "choose" \/ UNCHANGED << pc, listing >>
  PROVE  WaveInv'
BY DEF WaveInv, InGroup, FirstListed

(* An instance leaves.                                                     *)
LEMMA LeaveKeepsWaves ==
  ASSUME FleetOK, WaveInv, NEW i, Leave(i), ForgetGone,
         pc' # "choose" \/ UNCHANGED << pc, listing >>
  PROVE  WaveInv'
<1>1. chosen' = chosen \intersect Range(fleet')
  BY DEF ForgetGone
<1>2. fleet' \in Seq(Instances)
  BY LeaveFacts
<1>3. Closed(fleet', chosen')
  <2>1. Closed(fleet', chosen)
    BY LeaveKeepsClosed DEF WaveInv
  <2>2. \A a \in 1..Len(fleet') : fleet'[a] \in Range(fleet')
    BY <1>2, GroupIsRange
  <2> QED BY <1>1, <2>1, <2>2 DEF Closed
<1>4. ASSUME pc' = "choose", NEW n \in 0..Len(listing)
      PROVE  Closed(fleet', FirstListed(n))
  BY <1>4, LeaveKeepsClosed DEF WaveInv
<1> QED BY <1>1, <1>3, <1>4 DEF WaveInv, InGroup, FirstListed

LEMMA MemberStepKeepsWaves ==
  ASSUME ElasticTypeOK, NoTwice, WaveInv, NEW i \in Instances, FleetStep(i)
  PROVE  WaveInv'
<1>0. /\ FleetOK /\ MemberStep(i) /\ ForgetGone
      /\ UNCHANGED << pc, listing >>
  BY DEF FleetStep, Outside, ElasticTypeOK
<1>1. CASE fleet' = fleet
  BY <1>0, <1>1, WaveFrame DEF ForgetGone, WaveInv, InGroup
<1>2. CASE Free(i) /\ Launch(i)
  <2>1. i \notin InGroup /\ i \notin Range(listing)
    BY <1>2 DEF Free
  <2>2. InGroup' = InGroup \union {i}
    BY <1>0, <1>2, LaunchNoTwice
  <2>3. chosen' = chosen
    BY <1>0, <2>2 DEF ForgetGone, WaveInv, InGroup
  <2>4. Closed(fleet', chosen)
    BY <1>0, <1>2, <2>1, LaunchKeepsClosed DEF WaveInv
  <2>5. ASSUME pc = "choose", NEW n \in 0..Len(listing)
        PROVE  Closed(fleet', FirstListed(n))
    <3>1. i \notin FirstListed(n)
      BY <2>1, GroupIsRange, LenProperties DEF FirstListed, ElasticTypeOK
    <3> QED BY <1>0, <1>2, <2>5, <3>1, LaunchKeepsClosed DEF WaveInv
  <2> QED BY <1>0, <2>2, <2>3, <2>4, <2>5 DEF WaveInv, FirstListed
<1>3. CASE Leave(i)
  BY <1>0, <1>3, LeaveKeepsWaves
<1> QED BY <1>0, <1>1, <1>2, <1>3
        DEF MemberStep, AgentStarts, TakeJob, FinishJobs, AgentCrashes, groupVars,
            ReplaceUnhealthy, Shrink, SelfTerminate

(* The listing of a scale-in is the group, oldest first.                   *)
LEMMA ListingIsClosed ==
  ASSUME FleetOK, NoTwice, NEW n \in 0..Len(fleet)
  PROVE  Closed(fleet, { fleet[k] : k \in 1..n })
<1>1. Len(fleet) \in Nat
  BY LenProperties DEF FleetOK
<1> SUFFICES ASSUME NEW a \in 1..Len(fleet), NEW b \in 1..Len(fleet), a <= b,
                    NEW k \in 1..n, fleet[b] = fleet[k]
             PROVE  a \in 1..n
  BY DEF Closed
<1>2. b = k
  BY <1>1 DEF NoTwice
<1> QED BY <1>1, <1>2

LEMMA WaveSizeRange ==
  ASSUME ElasticTypeOK
  PROVE  WaveSize \in 0..Len(listing) /\ OldestFirst = FirstListed(WaveSize)
BY LenProperties, FleetAssumption DEF ElasticTypeOK, WaveSize, OldestFirst, FirstListed

LEMMA RunStepKeepsWaves ==
  ASSUME ElasticTypeOK, NoTwice, WaveInv,
         \/ Decide \/ ChooseOldest \/ ChooseUnsorted \/ Signal
         \/ SetDesiredCapacity \/ TerminateLone \/ NextRun \/ Kill
  PROVE  WaveInv'
<1>1. CASE Decide
  <2>1. UNCHANGED << fleet, chosen >>
    BY <1>1 DEF Decide, fleetVars, toldVars
  <2>2. CASE listing' = fleet
    <3>1. \A n \in 0..Len(fleet) : Closed(fleet, { fleet[k] : k \in 1..n })
      BY ListingIsClosed DEF ElasticTypeOK
    <3> QED BY <2>1, <2>2, <3>1 DEF WaveInv, InGroup, FirstListed
  <2>3. CASE pc' # "choose"
    BY <2>1, <2>3, WaveFrame
  <2> QED BY <1>1, <2>2, <2>3 DEF Decide, CheckAgain, EndRun, ScaleIn, SetTo
<1>2. CASE ChooseOldest
  <2>1. Closed(fleet, OldestFirst)
    BY <1>2, WaveSizeRange DEF ChooseOldest, WaveInv
  <2>2. \A a \in 1..Len(fleet) : fleet[a] \in InGroup
    BY GroupIsRange DEF InGroup, ElasticTypeOK, FleetOK
  <2> QED BY <1>2, <2>1, <2>2 DEF ChooseOldest, WaveInv, Closed, InGroup, fleetVars
<1>3. CASE ChooseUnsorted \/ Signal \/ SetDesiredCapacity \/ NextRun \/ Kill
  BY <1>3, WaveFrame
     DEF ChooseUnsorted, Signal, SetDesiredCapacity, EndRun, NextRun, Kill, fleetVars,
         waveVars, toldVars
<1>4. CASE TerminateLone
  <2>1. pc' # "choose"
    BY <1>4 DEF TerminateLone, EndRun
  <2>2. ASSUME NEW i, Leave(i), ForgetGone PROVE WaveInv'
    BY <2>1, <2>2, LeaveKeepsWaves DEF ElasticTypeOK
  <2> QED BY <1>4, <2>1, <2>2, WaveFrame DEF TerminateLone, fleetVars, toldVars
<1> QED BY <1>1, <1>2, <1>3, <1>4

LEMMA WaveInductive ==
  ASSUME ElasticTypeOK, NoTwice, WaveInv, [ElasticNext]_elasticVars
  PROVE  WaveInv'
<1>1. CASE UNCHANGED elasticVars
  BY <1>1, WaveFrame DEF elasticVars, fleetVars, checkVars, waveVars
<1>2. CASE CheckStep /\ UNCHANGED waveVars
  <2>1. fleet' = fleet
    BY <1>2 DEF CheckStep, ListGroup, DescribeInstances, NotFound, FilterOnline,
                SendCommand, CheckFails, Poll, Mark, fleetVars
  <2>2. pc' # "choose" \/ pc' = pc
    BY <1>2 DEF CheckStep, ListGroup, DescribeInstances, NotFound, FilterOnline,
                SendCommand, SendTo, CheckFails, Poll, Judge, Mark, ContinueWith,
                EndCheck
  <2> QED BY <1>2, <2>1, <2>2, WaveFrame DEF waveVars
<1>3. ASSUME NEW i \in Instances, ScriptStep(i), UNCHANGED waveVars PROVE WaveInv'
  BY <1>3, WaveFrame DEF ScriptStep, TestMarker, ReadState, CommandFails, Script,
                         fleetVars, waveVars
<1>4. ASSUME NEW i \in Instances, Outside(RunSIGTERM(i)) PROVE WaveInv'
  BY <1>4, WaveFrame DEF Outside, RunSIGTERM, groupVars
<1>5. CASE Outside(ReachUptime) /\ UNCHANGED waveVars
  BY <1>5, WaveFrame DEF Outside, ReachUptime, waveVars
<1> QED BY <1>1, <1>2, <1>3, <1>4, <1>5, MemberStepKeepsWaves, RunStepKeepsWaves
        DEF ElasticNext

(* A wave of either kind leaves the members that were chosen by launch time*)
(* closed towards the older, so the others that overtake are blind picks.  *)
LEMMA OvertakersAreBlind ==
  ASSUME WaveInv', fleet' = fleet,
         NEW k \in 1..Len(fleet), NEW l \in 1..Len(fleet), Overtakes(k, l)
  PROVE  fleet[l] \in blind'
<1>1. SUFFICES ASSUME fleet[l] \in chosen' PROVE FALSE
  BY DEF Overtakes, Told
<1>2. fleet[k] \in chosen'
  <2>1. k <= l
    BY DEF Overtakes
  <2> QED BY <1>1, <2>1 DEF WaveInv, Closed
<1> QED BY <1>2 DEF Overtakes, Told

(* Of two waves of SIGTERMs chosen by launch time one is part of the other,*)
(* whatever left or joined the group, and however many runs were killed, in*)
(* between; and a member that any wave told to stop while an older one was *)
(* spared was picked by a wave for which DescribeInstances failed.         *)
THEOREM WavesNestCorrect == ElasticSpec => WavesNest
<1>1. ElasticInit => WaveInv
  BY DEF ElasticInit, FleetInit, CheckInit, WaveInv, Closed, InGroup, Range
<1>2. GroundsIInv /\ WaveInv /\ [ElasticNext]_elasticVars => WaveInv'
  BY WaveInductive DEF GroundsIInv
<1>3. GroundsIInv /\ WaveInv /\ [ElasticNext]_elasticVars
        => [/\ ChooseOldest =>
                 LET wave == work' \intersect InGroup
                 IN  wave \subseteq chosen \/ chosen \subseteq wave
            /\ (ChooseOldest \/ ChooseUnsorted) =>
                 \A k, l \in 1..Len(fleet) :
                   Overtakes(k, l) => fleet[l] \in blind']_elasticVars
  <2> SUFFICES ASSUME GroundsIInv, WaveInv, [ElasticNext]_elasticVars
               PROVE  /\ ChooseOldest =>
                           LET wave == work' \intersect InGroup
                           IN  wave \subseteq chosen \/ chosen \subseteq wave
                      /\ (ChooseOldest \/ ChooseUnsorted) =>
                           \A k, l \in 1..Len(fleet) :
                             Overtakes(k, l) => fleet[l] \in blind'
    OBVIOUS
  <2>1. ASSUME ChooseOldest
        PROVE  LET wave == work' \intersect InGroup
               IN  wave \subseteq chosen \/ chosen \subseteq wave
    <3>1. /\ work' = OldestFirst /\ Closed(fleet, OldestFirst)
          /\ fleet \in Seq(Instances)
      BY <2>1, WaveSizeRange
         DEF ChooseOldest, WaveInv, GroundsIInv, ElasticTypeOK, FleetOK
    <3>2. \A a \in 1..Len(fleet) : fleet[a] \in InGroup
      BY <3>1, GroupIsRange DEF InGroup
    <3>3. Closed(fleet, OldestFirst \intersect InGroup)
      BY <3>1, <3>2 DEF Closed
    <3> QED BY <3>1, <3>3, ClosedSetsNest DEF WaveInv, InGroup
  <2>2. ASSUME ChooseOldest \/ ChooseUnsorted,
               NEW k \in 1..Len(fleet), NEW l \in 1..Len(fleet), Overtakes(k, l)
        PROVE  fleet[l] \in blind'
    <3>1. WaveInv'
      BY <1>2
    <3>2. fleet' = fleet
      BY <2>2 DEF ChooseOldest, ChooseUnsorted, fleetVars
    <3> QED BY <2>2, <3>1, <3>2, OvertakersAreBlind
  <2> QED BY <2>1, <2>2
<1> QED BY <1>1, <1>2, <1>3, GroundsInvariant, PTL DEF ElasticSpec, WavesNest

-----------------------------------------------------------------------------
(* The window over a list.                                                 *)
(* Remainders: the one number below n that differs from x by a multiple.   *)
LEMMA Remainder ==
  ASSUME NEW x \in Int, NEW n \in Nat \ {0}
  PROVE  /\ x % n \in 0..(n - 1)
         /\ x = n * (x \div n) + (x % n)
         /\ x \div n \in Int
  OBVIOUS

LEMMA RemainderUnique ==
  ASSUME NEW x \in Int, NEW n \in Nat \ {0}, NEW q \in Int,
         NEW r \in 0..(n - 1), x = n * q + r
  PROVE  x % n = r
<1> DEFINE k == x \div n
           s == x % n
<1>1. k \in Int /\ s \in 0..(n - 1) /\ x = n * k + s
  BY Remainder
<1> HIDE DEF k, s
<1>2. n * (k - q) = r - s
  <2>1. n * (k - q) = n * k - n * q
    BY <1>1
  <2> QED BY <1>1, <2>1
<1>3. CASE k - q >= 1
  <2>1. n * (k - q) >= n * 1
    BY <1>1, <1>3
  <2> QED BY <1>1, <1>2, <2>1
<1>4. CASE k - q <= -1
  <2>1. n * (k - q) <= n * (-1)
    BY <1>1, <1>4
  <2> QED BY <1>1, <1>2, <2>1
<1>5. CASE k = q
  BY <1>1, <1>5 DEF s
<1> QED BY <1>1, <1>3, <1>4, <1>5

(* One turn around: at most one n has to be taken off.                     *)
LEMMA RemainderOnce ==
  ASSUME NEW n \in Nat \ {0}, NEW x \in 0..(n + n - 1)
  PROVE  (x < n /\ x % n = x) \/ (x >= n /\ x % n = x - n)
<1>1. CASE x < n
  BY <1>1, RemainderUnique, x = n * 0 + x
<1>2. CASE x >= n
  BY <1>2, RemainderUnique, x = n * 1 + (x - n)
<1> QED BY <1>1, <1>2

LEMMA RemainderOfStep ==
  ASSUME NEW n \in Nat \ {0}, NEW o \in 0..(n - 1), NEW i \in 0..(n - 1)
  PROVE  (o + i) % n \in {o + i, o + i - n}
<1>1. PICK x \in 0..(n + n - 1) : x = o + i
  OBVIOUS
<1>2. x % n \in {x, x - n}
  BY RemainderOnce
<1> QED BY <1>1, <1>2

(* Adding a number before or after taking the remainder is the same.       *)
LEMMA RemainderOfSum ==
  ASSUME NEW x \in Int, NEW y \in Int, NEW n \in Nat \ {0}
  PROVE  ((x % n) + y) % n = (x + y) % n
<1> DEFINE q == x \div n
           r == x % n
           k == (r + y) \div n
           s == (r + y) % n
<1>1. q \in Int /\ r \in Int /\ x = n * q + r
  BY Remainder
<1>2. k \in Int /\ s \in 0..(n - 1) /\ r + y = n * k + s
  BY <1>1, Remainder
<1> HIDE DEF q, r, k, s
<1>3. x + y = n * (q + k) + s
  <2>1. n * (q + k) = n * q + n * k
    BY <1>1, <1>2
  <2> QED BY <1>1, <1>2, <2>1
<1>4. x + y \in Int /\ q + k \in Int
  BY <1>1, <1>2
<1>5. (x + y) % n = s
  BY <1>2, <1>3, <1>4, RemainderUnique
<1> QED BY <1>5 DEF s, r

(* The window at any reading of the clock, for lists longer than it.       *)
LEMMA WindowPositions ==
  ASSUME NEW now \in Nat, NEW size \in Nat \ {0}, NEW total \in Nat,
         size < total
  PROVE  /\ Offset(now, size, total) \in 0..(total - 1)
         /\ Window(now, size, total)
              = { (Offset(now, size, total) + i) % total : i \in 0..(size - 1) }
         /\ Window(now, size, total) \subseteq 0..(total - 1)
<1>1. now * size \in Int
  OBVIOUS
<1>2. Offset(now, size, total) \in 0..(total - 1)
  <2>1. total \in Nat \ {0}
    OBVIOUS
  <2>2. (now * size) % total \in 0..(total - 1)
    BY <1>1, <2>1, Remainder, Zenon
  <2> QED BY <2>2 DEF Offset
<1>3. \A i \in 0..(size - 1) :
        (Offset(now, size, total) + i) % total \in 0..(total - 1)
  <2>1. PICK o \in Int : o = Offset(now, size, total)
    BY <1>2
  <2>2. \A i \in 0..(size - 1) : o + i \in Int
    BY <2>1
  <2>3. total \in Nat \ {0}
    OBVIOUS
  <2>4. \A i \in 0..(size - 1) : (o + i) % total \in 0..(total - 1)
    BY <2>2, <2>3, Remainder, Zenon
  <2> QED BY <2>1, <2>4, Zenon
<1> QED BY <1>2, <1>3 DEF Window

(* The window holds as many positions as it may.                           *)
LEMMA WindowSizes ==
  ASSUME NEW now \in Nat, NEW size \in Nat, NEW total \in Nat
  PROVE  /\ Window(now, size, total) \subseteq 0..(total - 1)
         /\ Cardinality(Window(now, size, total))
              = IF size = 0 \/ total <= size THEN total ELSE size
<1>1. CASE size = 0 \/ total <= size
  <2>1. Window(now, size, total) = 0..(total - 1)
    BY <1>1 DEF Window
  <2> QED BY <1>1, <2>1, FS_Interval
<1>2. CASE size > 0 /\ size < total
  <2> DEFINE W == Window(now, size, total)
             o == Offset(now, size, total)
             f == [i \in 0..(size - 1) |-> (o + i) % total]
  <2>1. /\ o \in 0..(total - 1)
        /\ W = { (o + i) % total : i \in 0..(size - 1) }
        /\ W \subseteq 0..(total - 1)
    BY <1>2, WindowPositions
  <2> HIDE DEF W, o
  <2>2. ASSUME NEW i \in 0..(size - 1), NEW j \in 0..(size - 1),
               (o + i) % total = (o + j) % total
        PROVE  i = j
    <3>1. /\ o \in 0..(total - 1) /\ total \in Nat \ {0}
          /\ i \in 0..(total - 1) /\ j \in 0..(total - 1)
      BY <1>2, <2>1
    <3>2. (o + i) % total \in {o + i, o + i - total}
      BY <3>1, RemainderOfStep, Zenon
    <3>3. (o + j) % total \in {o + j, o + j - total}
      BY <3>1, RemainderOfStep, Zenon
    <3> QED BY <1>2, <2>1, <2>2, <3>2, <3>3
  <2>3. f \in Bijection(0..(size - 1), W)
    BY <2>1, <2>2 DEF Bijection, Injection, IsInjective, Surjection
  <2>4. ExistsBijection(0..(size - 1), W)
    BY <2>3 DEF ExistsBijection
  <2>5. IsFiniteSet(0..(size - 1)) /\ Cardinality(0..(size - 1)) = size
    BY <1>2, FS_Interval
  <2> QED BY <1>2, <2>1, <2>4, <2>5, FS_Bijection DEF W
<1> QED BY <1>1, <1>2

(* Every position comes into the window within as many intervals as it     *)
(* takes windows to fill the list.                                         *)
THEOREM WindowCovers ==
  ASSUME NEW now \in Nat, NEW size \in Nat, NEW total \in Nat,
         NEW position \in 0..(total - 1)
  PROVE  \E k \in Nat : /\ k * size < total
                        /\ position \in Window(now + k, size, total)
<1>1. CASE size = 0 \/ total <= size
  BY <1>1, 0 * size < total DEF Window
<1>2. CASE size > 0 /\ size < total
  <2> DEFINE o == Offset(now, size, total)
             d == (position - o) % total
             k == d \div size
             i == d % size
  <2>1. o \in 0..(total - 1)
    BY <1>2, WindowPositions
  <2> HIDE DEF o
  <2>2. position - o \in Int /\ d \in 0..(total - 1)
    BY <1>2, <2>1, Remainder
  <2> HIDE DEF d
  <2>3. k \in Int /\ i \in 0..(size - 1) /\ d = size * k + i
    BY <1>2, <2>2, Remainder
  <2> HIDE DEF k, i
  <2>4. k \in Nat
    <3>1. SUFFICES ASSUME k <= -1 PROVE FALSE
      BY <2>3
    <3>2. size * k <= size * (-1)
      BY <1>2, <2>3, <3>1
    <3> QED BY <1>2, <2>2, <2>3, <3>2
  <2>5. k * size < total
    <3>1. k * size = size * k /\ k * size \in Int
      BY <2>4
    <3> QED BY <2>2, <2>3, <3>1
  <2>6. (Offset(now + k, size, total) + i) % total = position
    <3>1. (now + k) * size = now * size + k * size
      BY <2>4
    <3> DEFINE a == now * size
               b == k * size
    <3>2. a \in Int /\ b \in Int /\ a + b \in Int /\ i \in Int /\ b + i = d
          /\ total \in Nat \ {0}
      <4>1. k * size = size * k
        BY <2>4
      <4> QED BY <2>3, <2>4, <4>1
    <3>3. o = a % total
      BY DEF o, Offset
    <3>4. Offset(now + k, size, total) = (a + b) % total
      BY <3>1 DEF Offset
    <3> HIDE DEF a, b
    <3>5. (((a + b) % total) + i) % total = (a + b + i) % total
      BY <3>2, RemainderOfSum, Zenon
    <3>6. (a + b + i) % total = (a + d) % total
      BY <3>2, <2>3
    <3>7. (a + d) % total = (o + d) % total
      <4>1. d \in Int
        BY <2>2
      <4> QED BY <3>2, <3>3, <4>1, RemainderOfSum, Zenon
    <3>8. (o + d) % total = (position - o + o) % total
      BY <1>2, <2>1, <2>2, RemainderOfSum DEF d
    <3>9. position % total = position
      BY <1>2, RemainderOnce
    <3>10. position - o + o = position
      BY <2>1
    <3> QED BY <3>4, <3>5, <3>6, <3>7, <3>8, <3>9, <3>10
  <2>7. position \in Window(now + k, size, total)
    <3>1. now + k \in Nat /\ size \in Nat \ {0}
      BY <1>2, <2>4
    <3> QED BY <1>2, <2>3, <2>6, <3>1, WindowPositions
  <2> QED BY <2>4, <2>5, <2>7
<1> QED BY <1>1, <1>2

-----------------------------------------------------------------------------
(* The window over the instances that are still there.                     *)

(* The place in the sorted list of each candidate that is still there.     *)
LEMMA PositionFacts ==
  ASSUME FleetOK, NoTwice, NEW n \in 0..Len(fleet), NEW k \in 1..n
  PROVE  Position(fleet[k], n)
           = Cardinality({ a \in 1..(k - 1) : fleet[a] \in work })
<1>1. Len(fleet) \in Nat /\ 1..n \subseteq 1..Len(fleet)
  BY LenProperties DEF FleetOK
<1>2. \A l \in 1..n : fleet[l] = fleet[k] => l = k
  BY <1>1 DEF NoTwice
<1>3. { a \in 1..n : /\ fleet[a] \in work
                     /\ \E l \in (a + 1)..n : fleet[l] = fleet[k] }
        = { a \in 1..(k - 1) : fleet[a] \in work }
  <2>1. ASSUME NEW a \in 1..n, NEW l \in (a + 1)..n, fleet[l] = fleet[k]
        PROVE  a \in 1..(k - 1)
    <3>1. l \in 1..n
      BY <1>1
    <3> QED BY <1>1, <1>2, <2>1, <3>1
  <2>2. ASSUME NEW a \in 1..(k - 1)
        PROVE  a \in 1..n /\ k \in (a + 1)..n
    BY <1>1
  <2> QED BY <2>1, <2>2
<1> QED BY <1>3 DEF Position

(* The positions number the candidates, from 0 and without a gap.          *)
LEMMA PositionsNumber ==
  ASSUME FleetOK, NoTwice, NEW n \in 0..Len(fleet)
  PROVE  /\ IsFiniteSet(Candidates(n))
         /\ [i \in Candidates(n) |-> Position(i, n)]
              \in Bijection(Candidates(n), 0..(Cardinality(Candidates(n)) - 1))
<1> DEFINE cand == Candidates(n)
           places == { k \in 1..n : fleet[k] \in work }
           before(k) == { a \in 1..(k - 1) : fleet[a] \in work }
           at == [k \in places |-> fleet[k]]
           count == Cardinality(places)
           position == [i \in cand |-> Position(i, n)]
<1>1. Len(fleet) \in Nat /\ n \in Nat
  BY LenProperties DEF FleetOK
<1>2. IsFiniteSet(places) /\ count \in Nat
  <2>1. IsFiniteSet(1..n) /\ places \in SUBSET (1..n)
    BY <1>1, FS_Interval
  <2> HIDE DEF places
  <2> QED BY <2>1, FS_Subset, FS_CardinalityType
<1>3. cand = { fleet[k] : k \in places }
  BY DEF Candidates
<1>4. \A k, l \in places : fleet[k] = fleet[l] => k = l
  BY <1>1 DEF NoTwice
<1>5. at \in Bijection(places, cand)
  BY <1>3, <1>4 DEF Bijection, Injection, IsInjective, Surjection
<1>6. IsFiniteSet(cand) /\ Cardinality(cand) = count
  BY <1>2, <1>5, FS_Bijection DEF ExistsBijection
<1>7. \A k \in places : Position(fleet[k], n) = Cardinality(before(k))
  BY PositionFacts
<1>8. ASSUME NEW k \in places, NEW l \in places, k < l
      PROVE  Cardinality(before(k)) < Cardinality(before(l))
  <2>1. before(k) \subseteq before(l) /\ k \in before(l) /\ k \notin before(k)
    BY <1>1, <1>8
  <2>2. IsFiniteSet(before(l))
    <3>1. 1 \in Int /\ l - 1 \in Int
      BY <1>1
    <3>2. before(l) \in SUBSET (1..(l - 1))
      OBVIOUS
    <3> HIDE DEF before, places
    <3>3. IsFiniteSet(1..(l - 1))
      BY <3>1, FS_Interval
    <3> QED BY <3>2, <3>3, FS_Subset
  <2> HIDE DEF before
  <2> QED BY <2>1, <2>2, FS_Subset, FS_CardinalityType
<1>9. ASSUME NEW k \in places
      PROVE  Cardinality(before(k)) \in 0..(count - 1)
  <2>1. before(k) \subseteq places /\ k \notin before(k)
    BY <1>1
  <2> HIDE DEF before, places
  <2> QED BY <1>2, <2>1, FS_Subset, FS_CardinalityType
<1> HIDE DEF before
<1>10. \A i \in cand : Position(i, n) \in 0..(count - 1)
  BY <1>3, <1>7, <1>9
<1>11. ASSUME NEW i \in cand, NEW j \in cand, Position(i, n) = Position(j, n)
       PROVE  i = j
  <2>1. PICK k \in places : i = fleet[k]
    BY <1>3
  <2>2. PICK l \in places : j = fleet[l]
    BY <1>3
  <2>3. Cardinality(before(k)) = Cardinality(before(l))
    BY <1>7, <1>11, <2>1, <2>2
  <2>4. k \in Nat /\ l \in Nat
    BY <1>1
  <2>5. Cardinality(before(k)) \in Nat /\ Cardinality(before(l)) \in Nat
    BY <1>2, <1>9
  <2>6. k = l
    BY <1>8, <2>3, <2>4, <2>5
  <2> QED BY <2>1, <2>2, <2>6
<1> HIDE DEF cand, places
<1>12. position \in Injection(cand, 0..(count - 1))
  BY <1>10, <1>11 DEF Injection, IsInjective
<1>13. IsFiniteSet(0..(count - 1)) /\ Cardinality(0..(count - 1)) = count
  <2>1. count - 1 \in Int /\ 0 \in Int
    BY <1>2
  <2> HIDE DEF count
  <2>2. /\ IsFiniteSet(0..(count - 1))
        /\ Cardinality(0..(count - 1))
             = IF 0 > count - 1 THEN 0 ELSE count - 1 - 0 + 1
    BY <2>1, FS_Interval
  <2>3. count \in Nat
    BY <1>2 DEF count
  <2> QED BY <2>2, <2>3
<1>14. position \in Surjection(cand, 0..(count - 1))
  BY <1>6, <1>12, <1>13, FS_Injection
<1>15. position \in Bijection(cand, 0..(count - 1))
  BY <1>12, <1>14 DEF Bijection
<1> QED BY <1>6, <1>15 DEF cand

(* What a check keeps of the candidates: as many as it may.                *)
LEMMA WindowedSizes ==
  ASSUME FleetOK, NoTwice, slot \in Nat, NEW n \in 0..Len(fleet)
  PROVE  LET there == Cardinality(Candidates(n))
         IN  /\ Windowed(n) \subseteq Candidates(n)
             /\ Cardinality(Windowed(n))
                  = IF WindowSize = 0 \/ there <= WindowSize
                    THEN there
                    ELSE WindowSize
<1> DEFINE cand == Candidates(n)
           there == Cardinality(cand)
           window == Window(slot, WindowSize, there)
           kept == Windowed(n)
           position == [i \in kept |-> Position(i, n)]
<1>1. IsFiniteSet(cand) /\ there \in Nat
  BY PositionsNumber, FS_CardinalityType
<1>2. kept = { i \in cand : Position(i, n) \in window }
  BY DEF Windowed
<1>3. /\ window \subseteq 0..(there - 1)
      /\ Cardinality(window)
           = IF WindowSize = 0 \/ there <= WindowSize THEN there ELSE WindowSize
  BY <1>1, CheckAssumption, WindowSizes
<1>4. /\ \A i, j \in cand : Position(i, n) = Position(j, n) => i = j
      /\ \A p \in 0..(there - 1) : \E i \in cand : Position(i, n) = p
  BY PositionsNumber DEF Bijection, Injection, IsInjective, Surjection
<1>5. IsFiniteSet(kept) /\ kept \subseteq cand
  BY <1>1, <1>2, FS_Subset
<1> HIDE DEF cand, there, window, kept
<1>6. position \in Bijection(kept, window)
  BY <1>2, <1>3, <1>4 DEF Bijection, Injection, IsInjective, Surjection
<1>7. Cardinality(window) = Cardinality(kept)
  BY <1>5, <1>6, FS_Bijection DEF ExistsBijection
<1> QED BY <1>3, <1>5, <1>7 DEF cand, kept, there

(* A check looks at all candidates that are still there, or else at exactly*)
(* as many as it may: the window around the end of the list neither skips  *)
(* nor repeats one.                                                        *)
THEOREM CheckUsesItsBudgetCorrect == ElasticSpec => CheckUsesItsBudget
<1>1. GroundsIInv /\ [ElasticNext]_elasticVars
        => [DescribeInstances =>
              \E n \in Eligible :
                LET there == Cardinality(Candidates(n))
                IN  /\ work' \subseteq Candidates(n)
                    /\ Cardinality(work') = IF WindowSize = 0 \/ there <= WindowSize
                                            THEN there
                                            ELSE WindowSize]_elasticVars
  <2> SUFFICES ASSUME GroundsIInv, DescribeInstances
               PROVE  \E n \in Eligible :
                        LET there == Cardinality(Candidates(n))
                        IN  /\ work' \subseteq Candidates(n)
                            /\ Cardinality(work')
                                 = IF WindowSize = 0 \/ there <= WindowSize
                                   THEN there
                                   ELSE WindowSize
    OBVIOUS
  <2>1. FleetOK /\ CheckOK /\ NoTwice
    BY DEF GroundsIInv, ElasticTypeOK
  <2>2. PICK n \in Eligible : ContinueWith("online", Windowed(n))
    BY DEF DescribeInstances
  <2>3. work' = Windowed(n)
    BY <2>2 DEF ContinueWith, EndCheck, Clear
  <2>4. n \in 0..Len(fleet)
    BY <2>1, <2>2 DEF Eligible, FleetOK
  <2>5. slot \in Nat
    BY <2>1, CheckAssumption DEF CheckOK
  <2> QED BY <2>1, <2>3, <2>4, <2>5, WindowedSizes
<1> QED BY <1>1, GroundsInvariant, PTL DEF ElasticSpec, CheckUsesItsBudget

=============================================================================
