--------------------------- MODULE QueueProperties ---------------------------
(***************************************************************************)
(* What the queue of module JobQueue guarantees.  The invariants and       *)
(* action properties speak of committed rows: what another transaction, or *)
(* the server after a crash, can see.                                      *)
(***************************************************************************)
EXTENDS JobQueue

\* Every variable holds values of its type; results are values of the enum
\* test_result.
TypeOK ==
    /\ pair \in [Pairs -> PairRow] /\ pairNew \in [Pairs -> PairRow]
    /\ test \in [Tests -> TestRow] /\ testNew \in [Tests -> TestRow]
    /\ pairLock \in [Pairs -> Sessions \cup {None}]
    /\ testLocks \in [Tests -> SUBSET [by : Sessions, mode : LockModes]]
    /\ client \in [Clients -> ClientStatuses]
    /\ advisory \in Sessions \cup {None}
    /\ tx \in [Sessions -> Txs]

-----------------------------------------------------------------------------
(* Results and statistics. *)

Played(t, ks) == {p \in PairsOf(t) : pair[p].status = "completed" /\ pair[p].outcome \in ks}

\* test_stats is, at every commit, the recount of the completed valid pairs,
\* whatever the order in which concurrent submissions refresh it
\* (refresh_test: the row lock serialises the recounts).
StatsMatchResults ==
    \A t \in Tests, k \in Categories : test[t].penta[k] = Cardinality(Played(t, {k}))

\* The history has one point for each number of valid pairs, in order: no
\* point is lost or repeated by concurrent, invalid or late results.
HistoryIsGapless ==
    \A t \in Tests :
        \/ test[t].history = [i \in 1..(Cardinality(Played(t, Categories)) + 1) |-> i - 1]
        \/ test[t].history = <<>> /\ Played(t, Categories) = {}

\* A running test has a pair to play and statistics that decide nothing: no
\* interleaving of last results, discards and promotions leaves it running
\* with nothing to wait for.
RunningHasReason ==
    \A t \in Tests : test[t].status = "running" =>
        /\ \E p \in PairsOf(t) : pair[p].status \in {"pending", "leased"}
        /\ (Kind[t] = "sprt" /\ Played(t, Categories) # {})
               => SprtDecide(t, test[t].penta) = "continue"

\* A test finishes with the verdict of the statistics it commits with, and as
\* "inconclusive" or "completed" only when every pair is played or discarded.
FinishIsJustified ==
    [][\A t \in Tests : test[t].status # "finished" /\ test'[t].status = "finished" =>
         CASE test'[t].result = "accepted" ->
                Kind[t] = "sprt" /\ SprtDecide(t, test'[t].penta) = "accept_h1"
           [] test'[t].result = "rejected" ->
                Kind[t] = "sprt" /\ SprtDecide(t, test'[t].penta) = "accept_h0"
           [] OTHER ->
                /\ test'[t].result = (IF Kind[t] = "sprt" THEN "inconclusive" ELSE "completed")
                /\ \A p \in PairsOf(t) : pair'[p].status \in {"completed", "discarded"}
                /\ (Kind[t] = "sprt" /\ \E k \in Categories : test'[t].penta[k] > 0)
                     => SprtDecide(t, test'[t].penta) = "continue"]_vars

\* Each pair lives the life of module PairLease: a lease counts an attempt,
\* only the holder's result completes the pair, a completed or discarded pair
\* never changes, and only an expired lease at the limit discards it
\* (submit_result: a late result never overwrites another).
Lifecycle == INSTANCE PairLease WITH pair <- pair
PairLifecycle == Lifecycle!Spec

-----------------------------------------------------------------------------
(* The life of a test. *)

\* The unique index one_running_test is never put to use: the advisory lock
\* alone keeps two promotions from making two tests run.
OneRunningTest ==
    \A t, u \in Tests : test[t].status = "running" /\ test[u].status = "running" => t = u

\* No commit leaves a test in the queue and none running: whoever ends the
\* running test promotes the next, and a test that joins the queue while the
\* running one ends is promoted by one of the two transactions.
QueueNeverStalls ==
    (\E t \in Tests : test[t].status = "queued") => \E t \in Tests : test[t].status = "running"

\* The test that the holder of the advisory lock has chosen, from the choice to
\* the end of its transaction.
Promotions(s) ==
    {t \in Tests : /\ WritesTest(s, t)
                   /\ testNew[t].status = "running" /\ test[t].status # "running"}
Chosen ==
    IF \E s \in Sessions : advisory = s /\ (tx[s].at = "take" \/ Promotions(s) # {})
    THEN tx[advisory].t ELSE None

\* Whatever the interleaving, each commit is one step of the queue of module
\* SerialQueue: an ended test never comes back (but for the one stopped while a
\* promotion waits for its row), a result is final, the test that ends and the
\* one promoted in its place change in one commit, and the promoted one was the
\* best of those that waited when it was chosen, whatever priorities are set
\* (promote_next_test, finish_test, stop_test, set_priority).
Serial == INSTANCE SerialQueue WITH
            status <- [t \in Tests |-> test[t].status],
            priority <- [t \in Tests |-> test[t].priority],
            result <- [t \in Tests |-> test[t].result],
            chosen <- Chosen
QueueIsSerial == Serial!Spec

\* promote_next_test promotes a 'queued' test (a test that the same commit
\* validated was queued in it).
PromotesOnlyQueued ==
    [][\A t \in Tests : test'[t].status = "running" /\ test[t].status # "running" =>
         test[t].status \in {"queued", "validating"}]_vars

-----------------------------------------------------------------------------
(* Waiting. *)

\* The sessions that keep s from its next statement.
WaitsFor(s) ==
    CASE tx[s].at = "pairLock" -> {pairLock[tx[s].p]} \ {None}
      [] tx[s].at = "refresh" -> UNION {Blocking(s, t, RefreshMode) : t \in Lowest(tx[s].todo)}
      [] tx[s].at = "promote" -> {advisory} \ {None, s}
      [] tx[s].at = "take" -> Blocking(s, tx[s].t, "NoKeyUpdate")
      [] tx[s].at = "smoke" -> Blocking(s, tx[s].t, "ForUpdate")
      [] OTHER -> {}

\* No set of transactions waits on itself: pairs, then tests, then the
\* advisory lock, then the promoted test never close a cycle (the comment of
\* refresh_test on its lock mode).
NoWaitCycle ==
    \A S \in (SUBSET Sessions) \ {{}} : \E s \in S : WaitsFor(s) \cap S = {}

\* A lease always ends, in a result, a return or a discard.
LeasesEnd == \A p \in Pairs : pair[p].status = "leased" ~> pair[p].status # "leased"

\* A running test ends when clients keep claiming, whether they answer or not:
\* each lease that expires uses an attempt.
TestsEnd == \A t \in Tests : test[t].status = "running" ~> test[t].status # "running"
=============================================================================
