----------------------------- MODULE SerialQueue -----------------------------
(***************************************************************************)
(* What the queue of tests promises: the queue as it would be if each      *)
(* request ran alone.  A step ends, admits or stops one test and, in the   *)
(* same moment, promotes one that waits (finish_test, stop_test and the    *)
(* smoke worker call promote_next_test in their own transaction).  Only    *)
(* the choice comes before: what is promoted was the best of those that    *)
(* waited when it was chosen, and meanwhile it may be given another        *)
(* priority, or be stopped.  There is no pair, transaction, lock or        *)
(* session here.                                                           *)
(***************************************************************************)
EXTENDS Integers

CONSTANTS Tests, Priorities, None

VARIABLES
    status, priority, result,   \* of each test
    chosen                      \* the test to be promoted next, or None

vars == <<status, priority, result, chosen>>

Statuses == {"absent", "validating", "invalid", "queued", "running", "finished", "stopped"}
Verdicts == {"accepted", "rejected", "inconclusive", "completed"}

In(st, s) == {t \in Tests : st[t] = s}
Best(st) == {t \in In(st, "queued") : \A u \in In(st, "queued") \ {t} :
                priority[t] > priority[u] \/ (priority[t] = priority[u] /\ t < u)}

\* The statuses that a promotion may be chosen for: a test ends or is admitted.
Rooms ==
    {status}
      \cup {[status EXCEPT ![t] = to] : t \in In(status, "running"), to \in {"finished", "stopped"}}
      \cup {[status EXCEPT ![t] = "queued"] : t \in In(status, "validating")}

Choose ==
    /\ chosen = None
    /\ \E st \in Rooms : In(st, "running") = {} /\ chosen' \in Best(st)
    /\ UNCHANGED <<status, priority, result>>

\* The choice is rolled back.
GiveUp ==
    /\ chosen' = None
    /\ UNCHANGED <<status, priority, result>>

\* The queue moves on from the statuses st: nothing to promote, or the test that
\* was chosen runs; the one departure of the code is that it does so even when it
\* has been stopped since.
MovesOn(st) ==
    \/ /\ chosen = None
       /\ In(st, "running") # {} \/ In(st, "queued") = {}
       /\ status' = st /\ chosen' = None
    \/ /\ chosen # None
       /\ In(st, "running") = {}
       /\ st[chosen] \in {"queued", "stopped"}
       /\ status' = [st EXCEPT ![chosen] = "running"] /\ chosen' = None

Moves(t, from, to) ==
    /\ status[t] = from
    /\ status' = [status EXCEPT ![t] = to]
    /\ UNCHANGED <<priority, result, chosen>>

\* The running test leaves, and the next one starts at once.
Ends(t, to) ==
    /\ status[t] = "running"
    /\ MovesOn([status EXCEPT ![t] = to])
    /\ UNCHANGED priority

Insert(t, p) ==
    /\ status[t] = "absent"
    /\ status' = [status EXCEPT ![t] = "validating"]
    /\ priority' = [priority EXCEPT ![t] = p]
    /\ UNCHANGED <<result, chosen>>

Reprioritise(t, p) ==
    /\ status[t] \in {"validating", "queued"}
    /\ priority' = [priority EXCEPT ![t] = p]
    /\ UNCHANGED <<status, result, chosen>>

Reject(t) == Moves(t, "validating", "invalid")

Admit(t) ==
    /\ status[t] = "validating"
    /\ MovesOn([status EXCEPT ![t] = "queued"])
    /\ UNCHANGED <<priority, result>>

Finish(t, verdict) ==
    /\ Ends(t, "finished")
    /\ result' = [result EXCEPT ![t] = verdict]

Stop(t) ==
    \/ Moves(t, "validating", "stopped")
    \/ Moves(t, "queued", "stopped")
    \/ Ends(t, "stopped") /\ UNCHANGED result

\* The maintenance thread's promotion.
Tick ==
    /\ MovesOn(status)
    /\ UNCHANGED <<priority, result>>

OneRuns == \A t, u \in Tests : status[t] = "running" /\ status[u] = "running" => t = u
NobodyWaits == In(status, "queued") # {} => In(status, "running") # {}

Init ==
    /\ status \in [Tests -> {"absent", "validating", "queued", "running"}]
    /\ priority \in [Tests -> Priorities]
    /\ result = [t \in Tests |-> "pending"]
    /\ chosen = None
    /\ OneRuns /\ NobodyWaits

Next ==
    \/ \E t \in Tests, p \in Priorities : Insert(t, p) \/ Reprioritise(t, p)
    \/ \E t \in Tests : Reject(t) \/ Admit(t) \/ Stop(t)
    \/ \E t \in Tests, verdict \in Verdicts : Finish(t, verdict)
    \/ Choose \/ GiveUp \/ Tick

Spec == Init /\ [][Next]_vars
=============================================================================
