-------------------------- MODULE SerialQueueProofs --------------------------
(***************************************************************************)
(* What the queue promises of any set of tests: one runs at a time, and    *)
(* none waits while none runs.  The two are kept together: a promotion     *)
(* needs that nothing runs, and leaves something running.                  *)
(***************************************************************************)
EXTENDS SerialQueue, TLAPS

\* Every status is one of the table's, and what is chosen is a test.
Typed == status \in [Tests -> Statuses] /\ chosen \in Tests \cup {None}

QueueInv == Typed /\ OneRuns /\ NobodyWaits

\* What one step of the queue may leave behind, from statuses of which at most
\* one is "running": the promotion inside of finish_test, stop_test and the smoke
\* worker's last transaction.
LEMMA MovingOn ==
    ASSUME NEW st \in [Tests -> Statuses], chosen \in Tests \cup {None},
           \A t, u \in Tests : st[t] = "running" /\ st[u] = "running" => t = u,
           MovesOn(st)
    PROVE  QueueInv'
<1>1. CASE status' = st /\ chosen' = None /\ (In(st, "running") # {} \/ In(st, "queued") = {})
  BY <1>1 DEF QueueInv, Typed, OneRuns, NobodyWaits, In
<1>2. CASE /\ In(st, "running") = {}
           /\ chosen # None /\ status' = [st EXCEPT ![chosen] = "running"] /\ chosen' = None
  <2>1. PICK t \in Tests : status' = [st EXCEPT ![t] = "running"]
    BY <1>2
  <2>2. \A u \in Tests : status'[u] = "running" <=> u = t
    BY <1>2, <2>1 DEF In
  <2>3. Typed'
    BY <1>2, <2>1 DEF Typed, Statuses
  <2>4. OneRuns' /\ NobodyWaits'
    BY <2>2 DEF OneRuns, NobodyWaits, In
  <2> QED BY <2>3, <2>4 DEF QueueInv
<1> QED BY <1>1, <1>2 DEF MovesOn

\* A step that neither starts nor ends a run and makes no test wait.
LEMMA SmallMove ==
    ASSUME QueueInv, NEW t \in Tests, NEW to \in {"validating", "invalid", "stopped"},
           status[t] # "running", status' = [status EXCEPT ![t] = to], chosen' = chosen
    PROVE  QueueInv'
<1>1. \A u \in Tests : /\ status'[u] = "running" <=> status[u] = "running"
                       /\ status'[u] = "queued" => status[u] = "queued"
  BY DEF QueueInv, Typed
<1>2. Typed'
  BY DEF QueueInv, Typed, Statuses
<1>3. OneRuns' /\ NobodyWaits'
  BY <1>1 DEF QueueInv, OneRuns, NobodyWaits, In
<1> QED BY <1>2, <1>3 DEF QueueInv

\* A test that leaves or joins the queue and the promotion that follows.
LEMMA MoveAndPromote ==
    ASSUME QueueInv, NEW t \in Tests, NEW to \in {"queued", "finished", "stopped"},
           MovesOn([status EXCEPT ![t] = to])
    PROVE  QueueInv'
<1> DEFINE st == [status EXCEPT ![t] = to]
<1>1. st \in [Tests -> Statuses]
  BY DEF QueueInv, Typed, Statuses
<1>2. \A u, v \in Tests : st[u] = "running" /\ st[v] = "running" => u = v
  BY DEF QueueInv, Typed, OneRuns
<1> HIDE DEF st
<1>3. MovesOn(st) /\ chosen \in Tests \cup {None}
  BY DEF st, QueueInv, Typed
<1> QED BY <1>1, <1>2, <1>3, MovingOn

LEMMA QueueStep == QueueInv /\ [Next]_vars => QueueInv'
<1> SUFFICES ASSUME QueueInv, [Next]_vars PROVE QueueInv'
  OBVIOUS
<1>1. ASSUME NEW t \in Tests, NEW p \in Priorities, Insert(t, p) PROVE QueueInv'
  BY <1>1, SmallMove DEF Insert
<1>2. ASSUME NEW t \in Tests, NEW p \in Priorities, Reprioritise(t, p) PROVE QueueInv'
  BY <1>2 DEF Reprioritise, QueueInv, Typed, OneRuns, NobodyWaits, In
<1>3. ASSUME NEW t \in Tests, Reject(t) PROVE QueueInv'
  BY <1>3, SmallMove DEF Reject, Moves
<1>4. ASSUME NEW t \in Tests, Admit(t) PROVE QueueInv'
  BY <1>4, MoveAndPromote DEF Admit
<1>5. ASSUME NEW t \in Tests, Stop(t) PROVE QueueInv'
  <2>1. CASE Moves(t, "validating", "stopped") \/ Moves(t, "queued", "stopped")
    BY <2>1, SmallMove DEF Moves
  <2>2. CASE Ends(t, "stopped")
    BY <2>2, MoveAndPromote DEF Ends
  <2> QED BY <1>5, <2>1, <2>2 DEF Stop
<1>6. ASSUME NEW t \in Tests, NEW verdict \in Verdicts, Finish(t, verdict) PROVE QueueInv'
  BY <1>6, MoveAndPromote DEF Finish, Ends
<1>7. CASE Tick
  BY <1>7, MovingOn DEF Tick, QueueInv, Typed, OneRuns
<1>8. ASSUME status' = status, chosen' \in Tests \cup {None} PROVE QueueInv'
  BY <1>8 DEF QueueInv, Typed, OneRuns, NobodyWaits, In
<1>9. CASE Choose \/ GiveUp
  BY <1>8, <1>9 DEF Choose, GiveUp, Best, In
<1>10. CASE UNCHANGED vars
  BY <1>8, <1>10 DEF vars, QueueInv, Typed
<1> QED BY <1>1, <1>2, <1>3, <1>4, <1>5, <1>6, <1>7, <1>9, <1>10 DEF Next

\* At most one test is running, and while tests wait in the queue one is: what
\* any implementation of the queue, JobQueue in the run queue_admin, inherits
\* (one_running_test, promote_next_test).
THEOREM OneRunsAndNobodyWaits == Spec => [](OneRuns /\ NobodyWaits)
<1>1. Init => QueueInv
  <2>1. Init => Typed
    BY DEF Init, Typed, Statuses
  <2> QED BY <2>1 DEF Init, QueueInv
<1>2. QueueInv => OneRuns /\ NobodyWaits
  BY DEF QueueInv
<1> QED BY <1>1, <1>2, QueueStep, PTL DEF Spec
=============================================================================
