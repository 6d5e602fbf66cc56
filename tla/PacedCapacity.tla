----------------------------- MODULE PacedCapacity -----------------------------
(***************************************************************************)
(* What the scaler promises about the desired capacity of a group: it may  *)
(* raise it at any time, but it lowers it only where lowering is allowed   *)
(* at all, and then at most once per cooldown.  Idle instances that        *)
(* terminate themselves lower it too, one at a time and unpaced; that is   *)
(* not the scaler's doing, and changedBy tells the two apart.              *)
(***************************************************************************)
EXTENDS Integers

CONSTANTS
  Low, High,   \* the limits of the capacity
  AgeCap       \* bound of the age of the last lowering

VARIABLES
  capacity,
  idle,        \* the age of the last lowering by the scaler, -1 if none
  changedBy,   \* who changed the capacity last
  mayLower,    \* is lowering allowed?
  cooldown     \* the time between two lowerings

pacedVars == << capacity, idle, changedBy, mayLower, cooldown >>

Init ==
  /\ capacity \in Low..High
  /\ idle = -1
  /\ changedBy = "instance"
  /\ mayLower \in BOOLEAN
  /\ cooldown \in Nat

Raise ==
  /\ capacity' \in capacity + 1 .. High
  /\ changedBy' = "scaler"
  /\ UNCHANGED << idle, mayLower, cooldown >>

Lower ==
  /\ mayLower
  /\ idle = -1 \/ idle >= cooldown
  /\ capacity' \in Low .. capacity - 1
  /\ idle' = 0
  /\ changedBy' = "scaler"
  /\ UNCHANGED << mayLower, cooldown >>

SelfTerminate ==
  /\ capacity > Low
  /\ capacity' = capacity - 1
  /\ changedBy' = "instance"
  /\ UNCHANGED << idle, mayLower, cooldown >>

Tick ==
  /\ idle \in 0 .. AgeCap - 1
  /\ idle' = idle + 1
  /\ UNCHANGED << capacity, changedBy, mayLower, cooldown >>

Next == Raise \/ Lower \/ SelfTerminate \/ Tick

Spec == Init /\ [][Next]_pacedVars

=============================================================================
