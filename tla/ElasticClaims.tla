----------------------------- MODULE ElasticClaims -----------------------------
(***************************************************************************)
(* What comments and documents of the repository say of the dangling check *)
(* and GracefulScaleIn does not keep: each a property that one run refutes.*)
(***************************************************************************)
EXTENDS GracefulScaleIn

(* "Add scan for dangling instances (in case if buildkite-agent is not     *)
(* running, and post-exit action doesn't terminate EC2 instance": such an  *)
(* instance is replaced in the end.  One that was sent a SIGTERM is not: it*)
(* answers MARKER_EXISTS to every check, and if the capacity was never set,*)
(* or AWS took another instance, nothing else removes it.                  *)
StoppedAgentsAreReplaced ==
  \A i \in Instances \ Unreachable :
    (i \in InGroup /\ agent[i] = "down")
      ~> (i \notin InGroup \/ agent[i] # "down" \/ i \in unhealthy)

(* "Pick a sliding slice so oldest-N instances stuck failing SSM checks    *)
(* don't block the rest of the fleet from ever being examined": every      *)
(* instance that SSM can reach and that stays comes into the window.  With *)
(* runs that begin at a fixed number of intervals it need not: the window  *)
(* moves by the clock, and may have come around to the same instances each *)
(* time.                                                                   *)
Examined(i) == pc = "online" /\ i \in work

EachIsExamined ==
  \A i \in Instances \ Unreachable :
    i \in InGroup ~> (i \notin InGroup \/ Examined(i))

=============================================================================
