------------------------------- MODULE RulesProofs -------------------------------
(***************************************************************************)
(* What MCRules checks on small inputs, for counts of any size, and what   *)
(* holds of the arithmetic for every configuration (PerInstanceHosts,      *)
(* TargetMonotone).                                                        *)
(***************************************************************************)
EXTENDS MCRules, ScalingRulesProofs

-----------------------------------------------------------------------------
(* The smallest fleet.                                                     *)

(* Rounding up gives the least number of whole parts that suffice.         *)
LEMMA CeilIsLeast ==
  ASSUME NEW x \in Nat, NEW d \in Nat \ {0}
  PROVE  /\ CeilDiv(x, d) \in 0..x
         /\ CeilDiv(x, d) * d >= x
         /\ \A k \in Int : k * d >= x => CeilDiv(x, d) <= k
<1> DEFINE q == CeilDiv(x, d)
<1>1. q \in Nat /\ x <= d * q /\ d * q < x + d
  BY CeilFacts, CeilNat
<1> HIDE DEF q
<1>2. q * d = d * q
  BY <1>1
<1>3. ASSUME NEW k \in Int, k * d >= x PROVE q <= k
  <2>1. SUFFICES ASSUME k + 1 <= q PROVE FALSE
    BY <1>1
  <2>2. (k + 1) * d <= q * d
    BY <1>1, <2>1
  <2>3. (k + 1) * d = k * d + d
    OBVIOUS
  <2> QED BY <1>1, <1>2, <1>3, <2>2, <2>3
<1>4. q <= x
  <2>1. x * d >= x
    OBVIOUS
  <2> QED BY <1>3, <2>1
<1> QED BY <1>1, <1>2, <1>3, <1>4 DEF q

LEMMA SmallestFleetFacts ==
  ASSUME NEW p0 \in Params, p = p0, NEW agents \in Nat
  PROVE  SmallestFleet(agents) = IF p.agentsPerInstance <= 0
                                 THEN agents
                                 ELSE CeilDiv(agents, p.agentsPerInstance)
<1> DEFINE size == Greatest(p.agentsPerInstance, 1)
           q == CeilDiv(agents, size)
<1>1. size \in Nat \ {0}
  BY DEF Params, Greatest
<1>2. /\ q \in 0..agents /\ q * size >= agents
      /\ \A k \in Int : k * size >= agents => q <= k
  BY <1>1, CeilIsLeast
<1>3. q = IF p.agentsPerInstance <= 0 THEN agents
                                      ELSE CeilDiv(agents, p.agentsPerInstance)
  <2>1. CASE p.agentsPerInstance <= 0
    <3>1. size = 1
      BY <2>1 DEF Greatest, Params
    <3>2. agents * size >= agents
      BY <3>1
    <3>3. q * 1 >= agents
      BY <1>2, <3>1
    <3> HIDE DEF q, size
    <3>4. q >= agents /\ q <= agents
      BY <1>2, <3>3
    <3> QED BY <1>2, <2>1, <3>4
  <2>2. CASE ~(p.agentsPerInstance <= 0)
    <3>1. size = p.agentsPerInstance
      BY <2>2 DEF Greatest, Params
    <3> QED BY <2>2, <3>1
  <2> QED BY <2>1, <2>2
<1> HIDE DEF q
<1>4. Hosts(q, agents) /\ \A k \in 0..agents : Hosts(k, agents) => q <= k
  BY <1>2 DEF Hosts
<1>5. \A n \in 0..agents :
        Hosts(n, agents) /\ (\A k \in 0..agents : Hosts(k, agents) => n <= k)
          => n = q
  BY <1>2, <1>4
<1>6. SmallestFleet(agents) = q
  BY <1>2, <1>4, <1>5 DEF SmallestFleet
<1> QED BY <1>3, <1>6

(* Whatever the configuration, perInstance is no larger than any fleet that*)
(* hosts the agents, and hosts them itself unless the cap on instances says*)
(* otherwise.                                                              *)
THEOREM PerInstanceHosts ==
  ASSUME NEW c \in Params, NEW agents \in Nat
  PROVE  /\ \A k \in Nat :
              k * Greatest(c.agentsPerInstance, 1) >= agents
                => PerInstance(c, agents) <= k
         /\ \/ PerInstance(c, agents) * Greatest(c.agentsPerInstance, 1) >= agents
            \/ PerInstance(c, agents) = c.maxInstanceCap
<1>1. CASE c.agentsPerInstance <= 0
  <2>1. PerInstance(c, agents) = agents /\ Greatest(c.agentsPerInstance, 1) = 1
    BY <1>1 DEF PerInstance, Params, Greatest
  <2> QED BY <2>1
<1>2. CASE ~(c.agentsPerInstance <= 0)
  <2>1. /\ Greatest(c.agentsPerInstance, 1) = c.agentsPerInstance
        /\ c.agentsPerInstance \in Nat \ {0}
    BY <1>2 DEF Greatest, Params
  <2> DEFINE q == CeilDiv(agents, c.agentsPerInstance)
  <2>2. /\ q \in Nat /\ q * c.agentsPerInstance >= agents
        /\ \A k \in Nat : k * c.agentsPerInstance >= agents => q <= k
    BY <2>1, CeilIsLeast
  <2> HIDE DEF q
  <2>3. \/ PerInstance(c, agents) = q
        \/ PerInstance(c, agents) = c.maxInstanceCap /\ c.maxInstanceCap <= q
    BY <1>2, <2>2 DEF PerInstance, Capped, Params, Least, q
  <2>4. c.maxInstanceCap \in Int
    BY DEF Params
  <2> QED BY <2>1, <2>2, <2>3, <2>4
<1> QED BY <1>1, <1>2

-----------------------------------------------------------------------------
(* More load.                                                              *)

LEMMA CeilMonotone ==
  ASSUME NEW x \in Nat, NEW y \in Nat, x <= y, NEW d \in Nat \ {0}
  PROVE  CeilDiv(x, d) <= CeilDiv(y, d)
<1>1. CeilDiv(y, d) \in Int /\ CeilDiv(y, d) * d >= y
  BY CeilIsLeast
<1> DEFINE q == CeilDiv(y, d)
<1> HIDE DEF q
<1>2. q \in Int /\ q * d >= x
  <2>1. q \in Int /\ q * d >= y /\ q * d \in Int
    BY <1>1 DEF q
  <2> QED BY <2>1
<1> QED BY <1>2, CeilIsLeast DEF q

LEMMA PerInstanceMonotone ==
  ASSUME NEW c \in Params, NEW x \in Nat, NEW y \in Nat, x <= y
  PROVE  PerInstance(c, x) <= PerInstance(c, y)
<1>1. CASE c.agentsPerInstance <= 0
  BY <1>1 DEF PerInstance
<1>2. CASE ~(c.agentsPerInstance <= 0)
  <2> DEFINE d == c.agentsPerInstance
             q == CeilDiv(x, d)
             r == CeilDiv(y, d)
  <2>1. d \in Nat \ {0} /\ c.maxInstanceCap \in Nat
    BY <1>2 DEF Params
  <2>2. q \in Nat /\ r \in Nat /\ q <= r
    BY <2>1, CeilNat, CeilMonotone
  <2>3. PerInstance(c, x) = Capped(c, q) /\ PerInstance(c, y) = Capped(c, r)
    BY <1>2 DEF PerInstance
  <2> HIDE DEF q, r
  <2> QED BY <2>1, <2>2, <2>3 DEF Capped, Least
<1> QED BY <1>1, <1>2

(* Metrics that show at least the same load.                               *)
LoadGrows(some, more) ==
  /\ some.scheduled <= more.scheduled
  /\ some.running <= more.running
  /\ some.waiting <= more.waiting
  /\ some.total = more.total

LEMMA BoostedMonotone ==
  ASSUME NEW c \in Params, NEW g \in AutoscaleGroupDetails,
         NEW some \in AgentMetrics, NEW more \in AgentMetrics,
         LoadGrows(some, more)
  PROVE  Boosted(c, some, g) <= Boosted(c, more, g)
<1> DEFINE x == AgentsRequired(c, some)
           y == AgentsRequired(c, more)
<1>1. x \in Nat /\ y \in Nat /\ x <= y
  BY DEF AgentsRequired, AgentMetrics, LoadGrows
<1>2. /\ PerInstance(c, x) \in Nat /\ PerInstance(c, y) \in Nat
      /\ PerInstance(c, x) <= PerInstance(c, y)
  BY <1>1, PerInstanceNat, PerInstanceMonotone
<1>3. LowAvailability(c, some, g) = LowAvailability(c, more, g)
  BY DEF LowAvailability, LoadGrows
<1>4. g.desired \in Nat
  BY DEF AutoscaleGroupDetails
<1> HIDE DEF x, y
<1> QED BY <1>1, <1>2, <1>3, <1>4 DEF Boosted, Greatest, x, y

LEMMA BufferMonotone ==
  ASSUME NEW c \in Params, NEW some \in AgentMetrics, NEW more \in AgentMetrics,
         LoadGrows(some, more)
  PROVE  Buffer(c, some) <= Buffer(c, more)
<1> DEFINE jobs(m0) == m0.scheduled + m0.running
                         + (IF c.includeWaiting THEN m0.waiting ELSE 0)
           part(m0) == IF c.agentsPerInstance <= 0
                       THEN jobs(m0)
                       ELSE CeilDiv(jobs(m0), c.agentsPerInstance)
<1>1. jobs(some) \in Nat /\ jobs(more) \in Nat /\ jobs(some) <= jobs(more)
  BY DEF AgentMetrics, LoadGrows
<1> HIDE DEF jobs
<1>2. part(some) \in Nat /\ part(more) \in Nat /\ part(some) <= part(more)
  <2>1. CASE c.agentsPerInstance <= 0
    BY <1>1, <2>1
  <2>2. CASE ~(c.agentsPerInstance <= 0)
    <3>1. c.agentsPerInstance \in Nat \ {0}
      BY <2>2 DEF Params
    <3> QED BY <1>1, <2>2, <3>1, CeilNat, CeilMonotone
  <2> QED BY <2>1, <2>2
<1> HIDE DEF part
<1>3. /\ Buffer(c, some) = IF some.scheduled + some.running + some.waiting > 0
                           THEN Least(Capped(c, part(some)), c.instanceBuffer)
                           ELSE 0
      /\ Buffer(c, more) = IF more.scheduled + more.running + more.waiting > 0
                           THEN Least(Capped(c, part(more)), c.instanceBuffer)
                           ELSE 0
  BY DEF Buffer, part, jobs
<1>4. /\ c.instanceBuffer \in Nat /\ c.maxInstanceCap \in Nat
      /\ some.scheduled + some.running + some.waiting > 0
           => more.scheduled + more.running + more.waiting > 0
  BY DEF Params, AgentMetrics, LoadGrows
<1> QED BY <1>2, <1>3, <1>4 DEF Capped, Least

(* More load never asks for fewer instances, in any configuration and for  *)
(* any group.                                                              *)
THEOREM TargetMonotone ==
  ASSUME NEW c \in Params, NEW g \in AutoscaleGroupDetails,
         NEW some \in AgentMetrics, NEW more \in AgentMetrics,
         LoadGrows(some, more), NEW old \in BOOLEAN
  PROVE  Target(c, some, g, old) <= Target(c, more, g, old)
<1>1. /\ DesiredCount(c, some, g, old) \in Nat /\ DesiredCount(c, more, g, old) \in Nat
      /\ Buffer(c, some) \in Nat /\ Buffer(c, more) \in Nat
      /\ g.min \in Nat /\ g.max \in Nat /\ g.desired \in Nat
  BY DesiredCountNat, BufferNat DEF AutoscaleGroupDetails
<1>2. DesiredCount(c, some, g, old) <= DesiredCount(c, more, g, old)
  BY <1>1, BoostedMonotone DEF DesiredCount
<1>3. Buffer(c, some) <= Buffer(c, more)
  BY BufferMonotone
<1> QED BY <1>1, <1>2, <1>3 DEF Target, Greatest, Least

-----------------------------------------------------------------------------
(* The properties that the run of MCRules checks.                          *)

RulesInv ==
  /\ p \in Params /\ p.inFactor <= Unit /\ p.outFactor <= Unit
  /\ m \in AgentMetrics
  /\ a \in AutoscaleGroupDetails /\ a.desired \in a.min .. a.max
  /\ stale \in BOOLEAN
  /\ answer = -1 \/ answer = Target(p, m, a, stale)

LEMMA ConfigsAreParams ==
  \A c \in RulesConfigs : c \in Params /\ c.inFactor <= Unit /\ c.outFactor <= Unit
<1>1. 0 \in 0..Unit /\ 1 \in 0..Unit /\ \A f \in 0..Unit : f \in Nat /\ f <= Unit
  BY UnitAssumption
<1>2. SUFFICES ASSUME NEW c \in RulesConfigs
               PROVE  c \in Params /\ c.inFactor <= Unit /\ c.outFactor <= Unit
  OBVIOUS
<1>3. /\ c.inFactor \in 0..Unit /\ c.outFactor \in 0..Unit
      /\ c.threshold \in {0, 1}
  BY DEF RulesConfigs
<1>4. c \in Params
  <2>1. /\ {0, 2} \subseteq Int /\ {0, 1} \subseteq 0..Unit /\ {0, 1} \subseteq Nat
        /\ {0, 2} \subseteq Nat /\ 0..Unit \subseteq Nat /\ {0} \subseteq Nat
        /\ {1} \subseteq Nat /\ {TRUE} \subseteq BOOLEAN /\ {FALSE} \subseteq BOOLEAN
    BY <1>1
  <2> QED BY <2>1, Zenon DEF RulesConfigs, Params
<1> QED BY <1>1, <1>3, <1>4

LEMMA RulesInvariant == Spec => []RulesInv
<1>1. Init => RulesInv
  <2> SUFFICES ASSUME Init PROVE RulesInv
    OBVIOUS
  <2>1. m \in AgentMetrics
    BY LimitAssumption DEF Init, AgentMetrics
  <2>2. a \in AutoscaleGroupDetails /\ a.desired \in a.min .. a.max
    BY LimitAssumption DEF Init, AutoscaleGroupDetails
  <2> QED BY <2>1, <2>2, ConfigsAreParams DEF Init, RulesInv
<1>2. RulesInv /\ [Next]_rulesVars => RulesInv'
  BY DEF RulesInv, Next, Answer, rulesVars
<1> QED BY <1>1, <1>2, PTL DEF Spec

LEMMA RequiredNat ==
  ASSUME RulesInv
  PROVE  AgentsRequired(p, m) \in Nat
BY DEF RulesInv, AgentsRequired, AgentMetrics

(* perInstance is the smallest fleet that hosts the agents, up to the cap. *)
THEOREM SmallestCorrect == Spec => []PerInstanceIsSmallest
<1>1. RulesInv => PerInstanceIsSmallest
  <2> SUFFICES ASSUME RulesInv PROVE PerInstanceIsSmallest
    OBVIOUS
  <2> DEFINE required == AgentsRequired(p, m)
  <2>1. required \in Nat /\ p \in Params
    BY RequiredNat DEF RulesInv
  <2> HIDE DEF required
  <2>2. SmallestFleet(required) = IF p.agentsPerInstance <= 0
                                  THEN required
                                  ELSE CeilDiv(required, p.agentsPerInstance)
    BY <2>1, SmallestFleetFacts
  <2>3. PerInstance(p, required)
          = IF p.maxInstanceCap > 0 /\ p.agentsPerInstance > 0
            THEN Least(SmallestFleet(required), p.maxInstanceCap)
            ELSE SmallestFleet(required)
    BY <2>1, <2>2 DEF PerInstance, Capped, Params
  <2> QED BY <2>3 DEF PerInstanceIsSmallest, required
<1> QED BY <1>1, RulesInvariant, PTL

(* One job more of any kind never lowers the target.                       *)
THEOREM MoreLoadCorrect == Spec => []MoreLoadNeverFewerInstances
<1>1. RulesInv => MoreLoadNeverFewerInstances
  <2> SUFFICES ASSUME RulesInv, answer # -1, NEW more \in MoreLoad
               PROVE  Target(p, more, a, stale) >= answer
    BY DEF MoreLoadNeverFewerInstances
  <2>1. more \in AgentMetrics /\ LoadGrows(m, more)
    BY DEF MoreLoad, RulesInv, AgentMetrics, LoadGrows
  <2>2. a.min <= a.max
    BY DEF RulesInv, AutoscaleGroupDetails
  <2>3. /\ Target(p, m, a, stale) \in Int /\ Target(p, more, a, stale) \in Int
        /\ Target(p, m, a, stale) <= Target(p, more, a, stale)
    BY <2>1, <2>2, TargetMonotone, TargetWithinBounds DEF RulesInv
  <2> QED BY <2>3 DEF RulesInv
<1> QED BY <1>1, RulesInvariant, PTL

(* A factor of at most 1 moves every step towards the target and not past  *)
(* it.                                                                     *)
THEOREM FactorsCorrect == Spec => []FactorsKeepMoving
<1>1. RulesInv => FactorsKeepMoving
  <2> SUFFICES ASSUME RulesInv, answer # -1 PROVE FactorsKeepMoving
    BY DEF FactorsKeepMoving
  <2>1. a.min <= a.max
    BY DEF RulesInv, AutoscaleGroupDetails
  <2>2. answer \in a.min .. a.max
    BY <2>1, TargetWithinBounds DEF RulesInv
  <2> QED BY <2>2, FactorsMakeProgress DEF RulesInv, FactorsKeepMoving
<1> QED BY <1>1, RulesInvariant, PTL

=============================================================================
