------------------------------- MODULE MCQueue -------------------------------
(***************************************************************************)
(* Instances of QueueProperties for TLC.                                   *)
(***************************************************************************)
EXTENDS QueueProperties, TLC

\* A running test of two pairs and a queued one: two clients play, leases are
\* returned, expire and are granted again, and the end of one test starts the
\* other.
HandoverTestOf == 1 :> 1 @@ 2 :> 1 @@ 3 :> 2
HandoverKind == 1 :> "sprt" @@ 2 :> "gauntlet"
HandoverStatus == 1 :> "running" @@ 2 :> "queued"
HandoverPriority == 1 :> 0 @@ 2 :> 0
ResultsScenario == {"claim", "submit", "abandon", "recover", "expire", "abort"}

\* Tests are submitted, validated, stopped, given priorities and promoted while
\* one runs.  (Roll-backs, in ResultsScenario, would add steps but no states.)
AdminTestOf == 1 :> 1 @@ 2 :> 2 @@ 3 :> 3
AdminKind == [t \in 1..3 |-> "sprt"]
AdminStatus == 1 :> "running" @@ 2 :> "validating" @@ 3 :> "absent"
AdminPriority == [t \in 1..3 |-> 0]
AdminScenario == {"claim", "submit", "recover", "stop", "priority", "insert", "smoke",
                  "register", "ban"}

\* The administration of the queue with nobody playing: stops, priorities and
\* validations against a promotion.
StopTestOf == 1 :> 1 @@ 2 :> 2
StopKind == [t \in 1..2 |-> "gauntlet"]
StopStatus == 1 :> "running" @@ 2 :> "queued"
StopPriority == [t \in 1..2 |-> 0]
StopScenario == {"recover", "stop", "priority"}

LiveTestOf == 1 :> 1 @@ 2 :> 2
\* A client claims for ever and may never answer, and the waiting test is given
\* its priority again and again; no transaction fails for ever and no client
\* abandons for ever.
LiveScenario == {"claim", "submit", "recover", "expire", "priority"}

\* The first pair that is not level decides.
FirstLead(t, penta) ==
    CASE penta["WW"] > penta["LL"] -> "accept_h1"
      [] penta["LL"] > penta["WW"] -> "accept_h0"
      [] OTHER -> "continue"

\* Two wins decide.
TwoWins(t, penta) == IF penta["WW"] >= 2 THEN "accept_h1" ELSE "continue"

\* No result decides: tests end when their pairs do.
Undecided(t, penta) == "continue"

Symmetric == Permutations(Workers) \cup Permutations(Clients)
=============================================================================
