-------------------------- MODULE ScalingRulesProofs --------------------------
(***************************************************************************)
(* Facts about the arithmetic of a decision, for every configuration, every*)
(* answer of Buildkite and every state of the group.                       *)
(***************************************************************************)
EXTENDS ScalingRules, TLAPS

(* Floor division: the quotient and the remainder it leaves.               *)
LEMMA DivFacts ==
  ASSUME NEW x \in Int, NEW d \in Nat \ {0}
  PROVE  /\ x \div d \in Int
         /\ d * (x \div d) <= x
         /\ x < d * (x \div d) + d
  OBVIOUS

(* A factor of at most one, rounded down, keeps the sign of a change and   *)
(* does not increase it, and it leaves no decrease at zero.                *)
LEMMA FactoredDown ==
  ASSUME NEW c \in Int, NEW f \in Nat, f <= Unit
  PROVE  LET q == (c * f) \div Unit
         IN  /\ q \in Int
             /\ c >= 0 => 0 <= q /\ q <= c
             /\ c <= 0 => c <= q /\ q <= 0
             /\ (c < 0 /\ f > 0) => q < 0
<1> DEFINE x == c * f
           q == x \div Unit
<1>1. x \in Int
  OBVIOUS
<1>2. Unit \in Nat \ {0}
  BY UnitAssumption
<1>3. q \in Int /\ Unit * q <= x /\ x < Unit * q + Unit
  BY <1>1, <1>2, DivFacts
<1>4. c >= 0 => 0 <= x /\ x <= Unit * c
  BY <1>2
<1>5. c <= 0 => Unit * c <= x /\ x <= 0
  BY <1>2
<1>6. (c < 0 /\ f > 0) => x < 0
  OBVIOUS
<1> HIDE DEF x, q
<1>7. c >= 0 => 0 <= q /\ q <= c
  BY <1>1, <1>2, <1>3, <1>4
<1>8. c <= 0 => c <= q /\ q <= 0
  BY <1>1, <1>2, <1>3, <1>5
<1>9. (c < 0 /\ f > 0) => q < 0
  BY <1>1, <1>2, <1>3, <1>6
<1> QED
  BY <1>3, <1>7, <1>8, <1>9 DEF q, x

-----------------------------------------------------------------------------

LEMMA CeilFacts ==
  ASSUME NEW x \in Int, NEW d \in Nat \ {0}
  PROVE  /\ CeilDiv(x, d) \in Int
         /\ x <= d * CeilDiv(x, d)
         /\ d * CeilDiv(x, d) < x + d
<1> DEFINE y == -x
           q == y \div d
<1>1. y \in Int
  OBVIOUS
<1>2. q \in Int /\ d * q <= y /\ y < d * q + d
  BY <1>1, DivFacts
<1>3. CeilDiv(x, d) = -q
  BY DEF CeilDiv
<1>4. x = -y
  OBVIOUS
<1> HIDE DEF y, q
<1>5. d * (-q) = -(d * q)
  BY <1>2
<1> QED
  BY <1>1, <1>2, <1>3, <1>4, <1>5

(* The same for a change that is rounded up.                               *)
LEMMA FactoredUp ==
  ASSUME NEW c \in Nat, NEW f \in Nat
  PROVE  LET q == CeilDiv(c * f, Unit)
         IN  /\ q \in Nat
             /\ f <= Unit => q <= c
             /\ (c > 0 /\ f > 0) => q > 0
<1> DEFINE x == c * f
           q == CeilDiv(x, Unit)
<1>1. x \in Int /\ 0 <= x
  OBVIOUS
<1>2. Unit \in Nat \ {0}
  BY UnitAssumption
<1>3. q \in Int /\ x <= Unit * q /\ Unit * q < x + Unit
  BY <1>1, <1>2, CeilFacts
<1>4. f <= Unit => x <= Unit * c
  BY <1>2
<1>5. (c > 0 /\ f > 0) => x > 0
  OBVIOUS
<1> HIDE DEF x, q
<1>6. q >= 0
  BY <1>1, <1>2, <1>3
<1>7. f <= Unit => q <= c
  BY <1>1, <1>2, <1>3, <1>4
<1>8. (c > 0 /\ f > 0) => q > 0
  BY <1>1, <1>2, <1>3, <1>5
<1> QED
  BY <1>3, <1>6, <1>7, <1>8 DEF q, x

LEMMA CeilNat ==
  ASSUME NEW x \in Nat, NEW d \in Nat \ {0}
  PROVE  CeilDiv(x, d) \in Nat
<1> DEFINE q == CeilDiv(x, d)
<1>1. q \in Int /\ x <= d * q /\ d * q < x + d
  BY CeilFacts
<1> HIDE DEF q
<1>2. q >= 0
  BY <1>1
<1> QED
  BY <1>1, <1>2 DEF q

-----------------------------------------------------------------------------
(* The target.                                                             *)

LEMMA PerInstanceNat ==
  ASSUME NEW p \in Params, NEW n \in Nat
  PROVE  PerInstance(p, n) \in Nat
<1>1. CASE p.agentsPerInstance <= 0
  BY <1>1 DEF PerInstance
<1>2. CASE ~(p.agentsPerInstance <= 0)
  <2>1. p.agentsPerInstance \in Nat \ {0}
    BY <1>2 DEF Params
  <2>2. CeilDiv(n, p.agentsPerInstance) \in Nat
    BY <2>1, CeilNat
  <2>3. p.maxInstanceCap \in Nat
    BY DEF Params
  <2> QED
    BY <1>2, <2>2, <2>3 DEF PerInstance, Capped, Least
<1> QED
  BY <1>1, <1>2

LEMMA DesiredCountNat ==
  ASSUME NEW p \in Params, NEW m \in AgentMetrics,
         NEW a \in AutoscaleGroupDetails, NEW stale \in BOOLEAN
  PROVE  DesiredCount(p, m, a, stale) \in Nat
<1>1. AgentsRequired(p, m) \in Nat
  BY DEF AgentsRequired, AgentMetrics
<1>2. PerInstance(p, AgentsRequired(p, m)) \in Nat
  BY <1>1, PerInstanceNat
<1>3. a.desired \in Nat
  BY DEF AutoscaleGroupDetails
<1>4. Boosted(p, m, a) \in Nat
  BY <1>2, <1>3 DEF Boosted, Greatest
<1> QED
  BY <1>3, <1>4 DEF DesiredCount

LEMMA BufferNat ==
  ASSUME NEW p \in Params, NEW m \in AgentMetrics
  PROVE  Buffer(p, m) \in Nat
<1> DEFINE jobs == m.scheduled + m.running
                     + (IF p.includeWaiting THEN m.waiting ELSE 0)
           proportional == IF p.agentsPerInstance <= 0
                           THEN jobs
                           ELSE CeilDiv(jobs, p.agentsPerInstance)
<1>1. jobs \in Nat
  BY DEF AgentMetrics
<1> HIDE DEF jobs
<1>2. proportional \in Nat
  <2>1. CASE p.agentsPerInstance <= 0
    BY <1>1, <2>1
  <2>2. CASE ~(p.agentsPerInstance <= 0)
    <3>1. p.agentsPerInstance \in Nat \ {0}
      BY <2>2 DEF Params
    <3> QED
      BY <1>1, <2>2, <3>1, CeilNat
  <2> QED
    BY <2>1, <2>2
<1> HIDE DEF proportional
<1>3. p.maxInstanceCap \in Nat /\ p.instanceBuffer \in Nat
  BY DEF Params
<1>4. Least(Capped(p, proportional), p.instanceBuffer) \in Nat
  BY <1>2, <1>3 DEF Least, Capped
<1> QED
  BY <1>4 DEF Buffer, proportional, jobs

(* Whatever the metrics and the configuration, the target of a decision    *)
(* lies within the limits of the group it was taken for.                   *)
THEOREM TargetWithinBounds ==
  ASSUME NEW p \in Params, NEW m \in AgentMetrics,
         NEW a \in AutoscaleGroupDetails, a.min <= a.max,
         NEW stale \in BOOLEAN
  PROVE  Target(p, m, a, stale) \in a.min .. a.max
<1>1. DesiredCount(p, m, a, stale) + Buffer(p, m) \in Nat
  BY DesiredCountNat, BufferNat
<1>2. a.min \in Nat /\ a.max \in Nat
  BY DEF AutoscaleGroupDetails
<1> QED
  BY <1>1, <1>2 DEF Target, Least, Greatest

-----------------------------------------------------------------------------
(* The factors.                                                            *)

(* What scaleOut asks for lies above the group's desired capacity and      *)
(* within its limits.                                                      *)
LEMMA ScaleOutTargetFacts ==
  ASSUME NEW p \in Params, NEW a \in AutoscaleGroupDetails,
         a.min <= a.desired, NEW target \in a.min .. a.max,
         target > a.desired
  PROVE  LET step == ScaleOutTarget(p, a, target)
         IN  /\ step \in a.min .. a.max
             /\ a.desired < step
             /\ p.outFactor <= Unit => step <= target
<1> DEFINE c == target - a.desired
           q == CeilDiv(c * p.outFactor, Unit)
<1>1. /\ a.desired \in Nat /\ a.min \in Nat /\ a.max \in Nat
      /\ p.outFactor \in Nat
  BY DEF AutoscaleGroupDetails, Params
<1>2. c \in Nat /\ c > 0
  BY <1>1
<1>3. /\ q \in Nat
      /\ p.outFactor <= Unit => q <= c
      /\ p.outFactor > 0 => q > 0
  <2> HIDE DEF c
  <2> QED
    BY <1>1, <1>2, FactoredUp
<1> HIDE DEF q
<1>4. ScaleOutTarget(p, a, target)
        = IF p.outFactor = 0 THEN target ELSE Least(a.desired + q, a.max)
  BY DEF ScaleOutTarget, q
<1> QED
  BY <1>1, <1>2, <1>3, <1>4 DEF Least

(* What scaleIn asks for.  With a factor of at most 1 it lies within the   *)
(* limits and, for a target below the desired capacity, between the two;   *)
(* for a target that is not below, which scaleIn also meets, it does not   *)
(* fall below the desired capacity.                                        *)
LEMMA ScaleInTargetFacts ==
  ASSUME NEW p \in Params, NEW a \in AutoscaleGroupDetails,
         a.desired \in a.min .. a.max, NEW target \in a.min .. a.max
  PROVE  LET step == ScaleInTarget(p, a, target)
         IN  /\ step \in Nat
             /\ p.inFactor <= Unit =>
                  /\ step \in a.min .. a.max
                  /\ target < a.desired => target <= step /\ step < a.desired
                  /\ target >= a.desired => a.desired <= step
<1> DEFINE c == target - a.desired
           x == c * p.inFactor
           q == x \div Unit
<1>1. /\ a.desired \in Nat /\ a.min \in Nat /\ a.max \in Nat
      /\ p.inFactor \in Nat /\ target \in Nat
  BY DEF AutoscaleGroupDetails, Params
<1>2. c \in Int
  BY <1>1
<1>3. q \in Int
  <2>1. x \in Int
    <3> HIDE DEF c
    <3> QED
      BY <1>1, <1>2
  <2> HIDE DEF x
  <2> QED
    BY <2>1, DivFacts, UnitAssumption
<1>4. p.inFactor <= Unit =>
        /\ c >= 0 => 0 <= q /\ q <= c
        /\ c <= 0 => c <= q /\ q <= 0
        /\ (c < 0 /\ p.inFactor > 0) => q < 0
  <2> HIDE DEF c
  <2> QED
    BY <1>1, <1>2, FactoredDown DEF x
<1> HIDE DEF q
<1>5. ScaleInTarget(p, a, target)
        = Greatest(IF p.inFactor = 0 THEN target
                                     ELSE Greatest(a.desired + q, a.min), 0)
  BY DEF ScaleInTarget, q
<1> QED
  BY <1>1, <1>2, <1>3, <1>4, <1>5 DEF Greatest

(* Factors of at most 1 keep the capacity moving: a step towards a target  *)
(* that differs from the desired capacity is never empty and never passes  *)
(* the target, for every factor and every distance.                        *)
THEOREM FactorsMakeProgress ==
  ASSUME NEW p \in Params, NEW a \in AutoscaleGroupDetails,
         a.desired \in a.min .. a.max, NEW target \in a.min .. a.max,
         p.inFactor <= Unit, p.outFactor <= Unit
  PROVE  /\ target < a.desired =>
              /\ target <= ScaleInTarget(p, a, target)
              /\ ScaleInTarget(p, a, target) < a.desired
         /\ target > a.desired =>
              /\ a.desired < ScaleOutTarget(p, a, target)
              /\ ScaleOutTarget(p, a, target) <= target
<1>1. ASSUME target < a.desired
      PROVE  /\ target <= ScaleInTarget(p, a, target)
             /\ ScaleInTarget(p, a, target) < a.desired
  BY <1>1, ScaleInTargetFacts
<1>2. ASSUME target > a.desired
      PROVE  /\ a.desired < ScaleOutTarget(p, a, target)
             /\ ScaleOutTarget(p, a, target) <= target
  <2>1. a.min <= a.desired
    BY DEF AutoscaleGroupDetails
  <2> QED
    BY <1>2, <2>1, ScaleOutTargetFacts
<1> QED
  BY <1>1, <1>2

=============================================================================
