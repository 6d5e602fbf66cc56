------------------------------- MODULE MCHistory -------------------------------
(***************************************************************************)
(* An instance of ActivityHistory for TLC.                                 *)
(***************************************************************************)
EXTENDS ActivityHistory

(* Unlimited, no page at all, none, one and two pages.                     *)
SomeLimits == {-1, 0, 1, 2, 3}

=============================================================================
