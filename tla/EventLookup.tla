------------------------------ MODULE EventLookup ------------------------------
(***************************************************************************)
(* What a lookup of the last events of a group promises its caller, as one *)
(* step: while it is underway events go on happening, and it answers for   *)
(* each direction with an event that has happened and is not older than    *)
(* the last one there was when it was asked.  Which of those events it     *)
(* answers with is open; it need not have been the last one at any moment, *)
(* because events do not happen in the order of their numbers.             *)
(***************************************************************************)
EXTENDS Integers

CONSTANT Directions

VARIABLES
  happened,     \* the events of each direction that have happened
  state,        \* what the caller is doing
  asked,        \* the directions it asks for
  since,        \* the last event of each direction when it asked, 0 if none
  answer        \* the answer for each direction, 0 if none

lookupVars == << happened, state, asked, since, answer >>

None == [d \in Directions |-> 0]

Init ==
  /\ happened = [d \in Directions |-> {}]
  /\ state = "idle"
  /\ asked = {}
  /\ since = None
  /\ answer = None

(* Events never become undone.                                             *)
Happen ==
  /\ \A d \in Directions : happened[d] \subseteq happened'[d]
  /\ UNCHANGED << state, asked, since, answer >>

IsLast(n, events) ==
  \/ n = 0 /\ events = {}
  \/ n \in events /\ \A e \in events : e <= n

Ask ==
  /\ state = "idle"
  /\ state' = "read"
  /\ asked' \in SUBSET Directions
  /\ \A d \in Directions : IsLast(since'[d], happened[d])
  /\ UNCHANGED << happened, answer >>

(* "None" is an answer where there was none, and where nobody asked.       *)
Tell ==
  /\ state = "read"
  /\ state' = "done"
  /\ \A d \in Directions :
       \/ answer'[d] \in happened[d] /\ since[d] <= answer'[d]
       \/ answer'[d] = 0 /\ (d \in asked => since[d] = 0)
  /\ UNCHANGED << happened, asked, since >>

Fail ==
  /\ state = "read"
  /\ state' = "error"
  /\ UNCHANGED << happened, asked, since, answer >>

Return ==
  /\ state \in {"done", "error"}
  /\ state' = "idle"
  /\ asked' = {}
  /\ since' = None
  /\ answer' = None
  /\ UNCHANGED happened

Next == Happen \/ Ask \/ Tell \/ Fail \/ Return

Spec == Init /\ [][Next]_lookupVars

=============================================================================
