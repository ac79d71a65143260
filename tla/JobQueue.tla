------------------------------ MODULE JobQueue ------------------------------
(***************************************************************************)
(* The server's job queue: the tables tests, job_pairs, games, test_stats  *)
(* and clients of PostgreSQL, and the transactions that the HTTP workers,  *)
(* the maintenance thread and the smoke worker run on them                 *)
(* (server/queue.cpp, test_lifecycle.cpp, admin.cpp, smoke.cpp, main.cpp). *)
(*                                                                         *)
(* A transaction runs at READ COMMITTED, one SQL statement at a time.  A   *)
(* step of this module is a statement, or a run of statements that holds   *)
(* the locks that make it indivisible.  A statement that reads sees the    *)
(* rows committed when it starts and the transaction's own writes; a       *)
(* statement that locks a row waits until the row is free and then sees    *)
(* the row's latest version.  What the statement read from OTHER rows is   *)
(* not read again after such a wait.                                       *)
(*                                                                         *)
(* Abstracted: names, commits, time controls, dates, PGNs and node counts. *)
(* A pair's two games are one outcome: its pentanomial category, or        *)
(* "invalid" when a game failed the sanity check, which takes the pair out *)
(* of the view pair_outcomes.                                              *)
(***************************************************************************)
EXTENDS Integers, Sequences, FiniteSets

CONSTANTS
    Workers,        \* HTTP threads that are in a transaction at the same time
    Maintenance,    \* the session of the maintenance thread
    Smoke,          \* the session of the smoke worker
    Clients,        \* the clients that may register
    Tests,          \* ids of the tests, numbers given in increasing order
    Pairs,          \* ids of the pairs; a smaller id has a smaller dispatch_order
    TestOf,         \* the test of each pair
    Kind,           \* "sprt" or "gauntlet", for each test
    Categories,     \* pentanomial categories the games produce
    SprtDecide(_, _), \* the SPRT decision of a test on a pentanomial
    Slots,          \* clients.slots, the most pairs one claim returns
    MaxAttempts,    \* CAPI_MAX_ATTEMPTS
    AttemptCap,     \* bound of the model: no claim takes a pair past it
    Priorities,     \* the priorities that tests are given
    InitialStatus,  \* status of each test in the database the server starts on
    InitialPriority,\* its priority
    Scenario,       \* the kinds of request and failure of this instance
    None            \* NULL

Sessions == Workers \cup {Maintenance, Smoke}

TestStatuses == {"absent", "validating", "invalid", "queued", "running",
                 "finished", "stopped"}
TestResults == {"pending", "accepted", "rejected", "inconclusive", "completed"}
PairStatuses == {"absent", "pending", "leased", "completed", "discarded"}
ClientStatuses == {"absent", "active", "banned"}
Outcomes == Categories \cup {"invalid"}
LockModes == {"KeyShare", "NoKeyUpdate", "ForUpdate"}

ASSUME Constants ==
    /\ Tests \subseteq Nat /\ IsFiniteSet(Tests)
    /\ Pairs \subseteq Nat /\ IsFiniteSet(Pairs)
    /\ TestOf \in [Pairs -> Tests]
    /\ Kind \in [Tests -> {"sprt", "gauntlet"}]
    /\ Slots \in Nat /\ MaxAttempts \in Nat /\ AttemptCap \in Nat
    /\ Priorities \subseteq Int
    /\ InitialStatus \in [Tests -> {"absent", "validating", "queued", "running"}]
    /\ InitialPriority \in [Tests -> Priorities]
    /\ None \notin Sessions /\ None \notin Clients /\ None \notin Outcomes
    /\ None \notin Tests /\ None \notin Pairs
    /\ Maintenance \notin Workers \cup {Smoke} /\ Smoke \notin Workers
    \* partial unique index one_running_test
    /\ \A t, u \in Tests :
         InitialStatus[t] = "running" /\ InitialStatus[u] = "running" => t = u
    \* the server left the database: no test waits with none running
    /\ (\E t \in Tests : InitialStatus[t] = "queued") =>
         \E t \in Tests : InitialStatus[t] = "running"
    \* parse_test_spec refuses total_pairs below 1
    /\ \A t \in Tests : \E p \in Pairs : TestOf[p] = t

(***************************************************************************)
(* A row of job_pairs with its two games: due says lease_expires_at has    *)
(* passed, outcome and by (games.client_id) come with the games.  A row of *)
(* tests with its rows of test_stats and test_stats_history.               *)
(***************************************************************************)
PairsOf(t) == {p \in Pairs : TestOf[p] = t}

PairRow == [status : PairStatuses, leasedTo : Clients \cup {None},
            attempts : Nat, due : BOOLEAN,
            outcome : Outcomes \cup {None}, by : Clients \cup {None}]
TestRow == [status : TestStatuses, priority : Priorities, result : TestResults,
            penta : [Categories -> Nat], history : Seq(Nat)]

NoPair == [status |-> "absent", leasedTo |-> None, attempts |-> 0,
           due |-> FALSE, outcome |-> None, by |-> None]
NewPair == [NoPair EXCEPT !.status = "pending"]

VARIABLES
    pair, test,         \* committed rows (a test row carries its test_stats)
    pairNew, testNew,   \* rows as the transaction that locks them wrote them
    pairLock,           \* the session that locks each pair FOR UPDATE, or None
    testLocks,          \* the locks on each test row: records [by, mode]
    client,             \* status of each client
    advisory,           \* holder of the advisory lock capi_net.promote
    tx                  \* what each session is doing

rows == <<pair, pairNew, pairLock, test, testNew, testLocks>>
vars == <<pair, test, pairNew, testNew, pairLock, testLocks, client, advisory, tx>>

Steps == {"idle", "pairLock", "refresh", "promote", "take", "smoke", "commit"}
Ops == {"none", "claim", "submit", "abandon", "stop", "priority", "recover",
        "tick", "smoke"}

(***************************************************************************)
(* A session: the next statement (at), the operation, its arguments, what  *)
(* submit_result read of other rows (seenTest, seenClient), the tests that *)
(* remain to refresh (todo), and the test that promote_next_test chose.    *)
(***************************************************************************)
Idle == [at |-> "idle", op |-> "none", p |-> None, c |-> None,
         seenTest |-> "absent", seenClient |-> "absent", t |-> None, todo |-> {}]

Txs == {r \in [at : Steps, op : Ops, p : Pairs \cup {None}, c : Clients \cup {None},
               seenTest : TestStatuses, seenClient : ClientStatuses,
               t : Tests \cup {None}, todo : SUBSET Tests] :
          /\ r.at = "pairLock" => r.p \in Pairs
          /\ r.at \in {"take", "smoke"} => r.t \in Tests}

(***************************************************************************)
(* Rows as a session sees them: its own writes over the committed rows.    *)
(***************************************************************************)
WritesTest(s, t) == \E l \in testLocks[t] : l.by = s /\ l.mode # "KeyShare"
PairSeen(s, p) == IF pairLock[p] = s THEN pairNew[p] ELSE pair[p]
TestSeen(s, t) == IF WritesTest(s, t) THEN testNew[t] ELSE test[t]

(***************************************************************************)
(* Row locks of PostgreSQL, as far as the code takes them: FOR UPDATE      *)
(* excludes every other lock, FOR NO KEY UPDATE excludes all but the       *)
(* KEY SHARE that a foreign key takes.                                     *)
(***************************************************************************)
Conflicts(m, n) == "ForUpdate" \in {m, n} \/ {m, n} = {"NoKeyUpdate"}
Blocking(s, t, m) == {l.by : l \in {k \in testLocks[t] : Conflicts(k.mode, m)}} \ {s}
LockTest(s, t, m) ==
    /\ Blocking(s, t, m) = {}
    /\ testLocks' = [testLocks EXCEPT ![t] = @ \cup {[by |-> s, mode |-> m]}]

Release(s) ==
    /\ pairLock' = [p \in Pairs |-> IF pairLock[p] = s THEN None ELSE pairLock[p]]
    /\ testLocks' = [t \in Tests |-> {l \in testLocks[t] : l.by # s}]
    /\ advisory' = IF advisory = s THEN None ELSE advisory

Becomes(s, r) == tx' = [tx EXCEPT ![s] = r]
Starting(op) == [Idle EXCEPT !.op = op]
At(r, step) == [r EXCEPT !.at = step]
WithTodo(r, step, todo) == [r EXCEPT !.at = step, !.todo = todo]
WithChoice(r, step, t) == [r EXCEPT !.at = step, !.t = t]
Goto(s, step) == Becomes(s, At(tx[s], step))

WithStatus(row, status) == [row EXCEPT !.status = status]

-----------------------------------------------------------------------------
(***************************************************************************)
(* refresh_test: recount the pairs, append to the history when the number  *)
(* of valid pairs changed, and finish a running test on an SPRT boundary   *)
(* or when no pair is left.                                                *)
(***************************************************************************)
Scored(s, t, ks) == {p \in PairsOf(t) : /\ PairSeen(s, p).status = "completed"
                                        /\ PairSeen(s, p).outcome \in ks}
RecountCommitted(s, t) == \* mutant: a statistic read from outside the transaction
    [k \in Categories |-> Cardinality({p \in PairsOf(t) : pair[p].outcome = k})]
Recount(s, t) == [k \in Categories |-> Cardinality(Scored(s, t, {k}))]
PairsValid(s, t) == Cardinality(Scored(s, t, Categories))
Remaining(s, t) == {p \in PairsOf(t) : PairSeen(s, p).status \in {"pending", "leased"}}

PointAlways(history, n) == Append(history, n) \* mutant: no IS DISTINCT FROM
WithPoint(history, n) ==
    IF history # <<>> /\ history[Len(history)] = n THEN history ELSE Append(history, n)

Decision(s, t) == IF Kind[t] = "sprt" /\ PairsValid(s, t) > 0
                  THEN SprtDecide(t, Recount(s, t)) ELSE "continue"

VerdictExhaustedFirst(s, t) == \* mutant: exhaustion is tested before the boundaries
    CASE TestSeen(s, t).status # "running" -> "pending"
      [] TestSeen(s, t).status = "running" /\ Remaining(s, t) = {} ->
           IF Kind[t] = "sprt" THEN "inconclusive" ELSE "completed"
      [] OTHER -> CASE Decision(s, t) = "accept_h1" -> "accepted"
                    [] Decision(s, t) = "accept_h0" -> "rejected"
                    [] OTHER -> "pending"

\* The result the test finishes with; "pending" when it goes on.
Verdict(s, t) ==
    CASE TestSeen(s, t).status # "running" -> "pending"
      [] Decision(s, t) = "accept_h1" /\ TestSeen(s, t).status = "running" -> "accepted"
      [] Decision(s, t) = "accept_h0" /\ TestSeen(s, t).status = "running" -> "rejected"
      [] OTHER -> IF Remaining(s, t) # {} THEN "pending"
                  ELSE IF Kind[t] = "sprt" THEN "inconclusive" ELSE "completed"

RefreshedRaw(s, t) == \* mutant: the decision is stored where the result belongs
    [TestSeen(s, t) EXCEPT !.penta = Recount(s, t), !.result = Decision(s, t)]

Refreshed(s, t) ==
    LET row == [TestSeen(s, t) EXCEPT
                  !.penta = Recount(s, t),
                  !.history = WithPoint(@, PairsValid(s, t))]
    IN  IF Verdict(s, t) = "pending" THEN row
        ELSE [row EXCEPT !.status = "finished", !.result = Verdict(s, t)]

RefreshMode == "NoKeyUpdate"

Lowest(S) == {x \in S : \A y \in S : x <= y}

AfterRefresh(s, t) ==
    IF Verdict(s, t) # "pending" \/ tx[s].op = "smoke" THEN "promote"
    ELSE IF tx[s].todo # {t} THEN "refresh" ELSE "commit"

RefreshTest(s) ==
    /\ tx[s].at = "refresh"
    /\ \E t \in Lowest(tx[s].todo) :
         /\ LockTest(s, t, RefreshMode)
         /\ testNew' = [testNew EXCEPT ![t] = Refreshed(s, t)]
         /\ Becomes(s, WithTodo(tx[s], AfterRefresh(s, t), tx[s].todo \ {t}))
    /\ UNCHANGED <<pair, pairNew, pairLock, test, client, advisory>>

(***************************************************************************)
(* promote_next_test.  The UPDATE starts once the advisory lock is held:   *)
(* its snapshot picks the test and finds no running one.  It then waits    *)
(* for that test's row, and writes 'running' on the latest version of the  *)
(* row: the subqueries that tested the status are not evaluated again.     *)
(***************************************************************************)
SeenAs(s, status) == {t \in Tests : TestSeen(s, t).status = status}

Older(s, t, u) == t < u \* mutant: the priority is ignored
Better(s, t, u) ==
    \/ TestSeen(s, t).priority > TestSeen(s, u).priority
    \/ TestSeen(s, t).priority = TestSeen(s, u).priority /\ t < u

BestQueued(s) == {t \in SeenAs(s, "queued") :
                     \A u \in SeenAs(s, "queued") \ {t} : Better(s, t, u)}

AdvisoryIgnored(s) == TRUE \* mutant: promotions are not serialised
AdvisoryFree(s) == advisory \in {None, s}

AfterPromotion(s) == IF tx[s].todo # {} THEN "refresh" ELSE "commit"

PromoteNone(s) ==
    /\ tx[s].at = "promote"
    /\ AdvisoryFree(s)
    /\ SeenAs(s, "queued") = {} \/ SeenAs(s, "running") # {}
    /\ advisory' = s
    /\ Goto(s, AfterPromotion(s))
    /\ UNCHANGED <<rows, client>>

PromoteChoose(s) ==
    /\ tx[s].at = "promote"
    /\ AdvisoryFree(s)
    /\ SeenAs(s, "running") = {}
    /\ advisory' = s
    /\ \E t \in BestQueued(s) : Becomes(s, WithChoice(tx[s], "take", t))
    /\ UNCHANGED <<rows, client>>

PromoteTake(s) ==
    /\ tx[s].at = "take"
    /\ LockTest(s, tx[s].t, "NoKeyUpdate")
    /\ testNew' = [testNew EXCEPT ![tx[s].t] = WithStatus(TestSeen(s, tx[s].t), "running")]
    /\ Goto(s, AfterPromotion(s))
    /\ UNCHANGED <<pair, pairNew, pairLock, test, client, advisory>>

-----------------------------------------------------------------------------
(***************************************************************************)
(* Clients.  They are banned by hand, in SQL.                              *)
(***************************************************************************)
Register(c) ==
    /\ "register" \in Scenario
    /\ client[c] = "absent"
    /\ client' = [client EXCEPT ![c] = "active"]
    /\ UNCHANGED <<rows, advisory, tx>>

Ban(c) ==
    /\ "ban" \in Scenario
    /\ client[c] = "active"
    /\ client' = [client EXCEPT ![c] = "banned"]
    /\ UNCHANGED <<rows, advisory, tx>>

(***************************************************************************)
(* claim_pairs: one statement takes the first k pending pairs of the       *)
(* running test that no other transaction locks.                           *)
(***************************************************************************)
Free(t) == {p \in PairsOf(t) : pair[p].status = "pending" /\ pairLock[p] = None}
Picked(t, k) == {p \in Free(t) : Cardinality({q \in Free(t) : q < p}) < k}

Lease(row, c) == [row EXCEPT !.status = "leased", !.leasedTo = c, !.due = FALSE,
                             !.attempts = @ + 1]

ClaimPairs(w, c, k) ==
    /\ "claim" \in Scenario
    /\ tx[w].at = "idle"
    /\ client[c] = "active"
    /\ \E t \in Tests :
         /\ test[t].status = "running"
         /\ Picked(t, k) # {}
         /\ \A p \in Picked(t, k) : pair[p].attempts < AttemptCap
         /\ pairNew' = [p \in Pairs |-> IF p \in Picked(t, k) THEN Lease(pair[p], c)
                                        ELSE pairNew[p]]
         /\ pairLock' = [p \in Pairs |-> IF p \in Picked(t, k) THEN w ELSE pairLock[p]]
    /\ Becomes(w, At(Starting("claim"), "commit"))
    /\ UNCHANGED <<pair, test, testNew, testLocks, client, advisory>>

(***************************************************************************)
(* submit_result.  The SELECT reads the statuses of the test and of the    *)
(* client in its snapshot, waits for the pair and reads its latest         *)
(* version.  An accepted result completes the pair, and inserting its      *)
(* games takes KEY SHARE on the test.  The outcome arrives in the request; *)
(* it is first used, and chosen here, when the result is accepted.         *)
(***************************************************************************)
Submission(p, c, testStatus, clientStatus) ==
    [Idle EXCEPT !.at = "pairLock", !.op = "submit", !.p = p, !.c = c,
                 !.seenTest = testStatus, !.seenClient = clientStatus]

SubmitRead(w, p, c) ==
    /\ "submit" \in Scenario
    /\ tx[w].at = "idle"
    /\ pair[p].status # "absent"
    /\ Becomes(w, Submission(p, c, test[TestOf[p]].status, client[c]))
    /\ UNCHANGED <<rows, client, advisory>>

AcceptsAnyone(w) == \* mutant: the holder of the lease is not compared
    /\ tx[w].seenClient = "active"
    /\ tx[w].seenTest = "running"
    /\ pair[tx[w].p].status = "leased"

Accepts(w) ==
    /\ tx[w].seenClient = "active"
    /\ tx[w].seenTest = "running"
    /\ pair[tx[w].p].status = "leased"
    /\ pair[tx[w].p].leasedTo = tx[w].c

Complete(row, outcome, c) ==
    [row EXCEPT !.status = "completed", !.outcome = outcome, !.by = c]

SubmitAccept(w, outcome) ==
    /\ tx[w].at = "pairLock"
    /\ pairLock[tx[w].p] = None
    /\ Accepts(w)
    /\ LockTest(w, TestOf[tx[w].p], "KeyShare")
    /\ pairLock' = [pairLock EXCEPT ![tx[w].p] = w]
    /\ pairNew' = [pairNew EXCEPT ![tx[w].p] =
                     Complete(pair[tx[w].p], outcome, tx[w].c)]
    /\ Becomes(w, WithTodo(tx[w], "refresh", {TestOf[tx[w].p]}))
    /\ UNCHANGED <<pair, test, testNew, client, advisory>>

SubmitRefuse(w) ==
    /\ tx[w].at = "pairLock"
    /\ pairLock[tx[w].p] = None
    /\ ~Accepts(w)
    /\ Becomes(w, Idle)
    /\ UNCHANGED <<rows, client, advisory>>

Requeue(row) == [row EXCEPT !.status = "pending", !.leasedTo = None, !.due = FALSE]

AbandonPair(w, p, c) ==
    /\ "abandon" \in Scenario
    /\ tx[w].at = "idle"
    /\ pairLock[p] = None
    /\ pair[p].status = "leased" /\ pair[p].leasedTo = c
    /\ pairLock' = [pairLock EXCEPT ![p] = w]
    /\ pairNew' = [pairNew EXCEPT ![p] = Requeue(pair[p])]
    /\ Becomes(w, At(Starting("abandon"), "commit"))
    /\ UNCHANGED <<pair, test, testNew, testLocks, client, advisory>>

-----------------------------------------------------------------------------
(***************************************************************************)
(* Administration.                                                         *)
(***************************************************************************)
WithPriority(row, priority) == [row EXCEPT !.priority = priority]

InsertTest(t, priority) ==
    /\ "insert" \in Scenario
    /\ test[t].status = "absent"
    /\ \A u \in Tests : u < t => test[u].status # "absent"
    /\ test' = [test EXCEPT ![t] = WithPriority(WithStatus(test[t], "validating"), priority)]
    /\ testNew' = [testNew EXCEPT ![t] = test'[t]]
    /\ UNCHANGED <<pair, pairNew, pairLock, testLocks, client, advisory, tx>>

AfterStopNothing(t) == "commit" \* mutant: stopping does not promote
AfterStopAlways(t) == "promote" \* mutant: stopping a queued test promotes too
AfterStop(t) == IF test[t].status = "running" THEN "promote" ELSE "commit"

StopTest(w, t) ==
    /\ "stop" \in Scenario
    /\ tx[w].at = "idle"
    /\ test[t].status \in {"validating", "queued", "running"}
    /\ LockTest(w, t, "NoKeyUpdate")
    /\ testNew' = [testNew EXCEPT ![t] = WithStatus(test[t], "stopped")]
    /\ Becomes(w, At(Starting("stop"), AfterStop(t)))
    /\ UNCHANGED <<pair, pairNew, pairLock, test, client, advisory>>

SetPriority(w, t, priority) ==
    /\ "priority" \in Scenario
    /\ tx[w].at = "idle"
    /\ test[t].status \in {"validating", "queued"}
    /\ LockTest(w, t, "NoKeyUpdate")
    /\ testNew' = [testNew EXCEPT ![t] = WithPriority(test[t], priority)]
    /\ Becomes(w, At(Starting("priority"), "commit"))
    /\ UNCHANGED <<pair, pairNew, pairLock, test, client, advisory>>

-----------------------------------------------------------------------------
(***************************************************************************)
(* The maintenance thread: recover_expired_leases, then, in a transaction  *)
(* of its own, promote_next_test.                                          *)
(***************************************************************************)
Late(row) == [row EXCEPT !.due = TRUE]

LeaseExpires(p) ==
    /\ "expire" \in Scenario
    /\ pairLock[p] = None
    /\ pair[p].status = "leased" /\ ~pair[p].due
    /\ pair' = [pair EXCEPT ![p] = Late(pair[p])]
    /\ pairNew' = [pairNew EXCEPT ![p] = Late(pair[p])]
    /\ UNCHANGED <<test, testNew, pairLock, testLocks, client, advisory, tx>>

ExpiredOnce == \* mutant: a pair at its last attempt is never recovered
    {p \in Pairs : /\ pair[p].status = "leased" /\ pair[p].due /\ pairLock[p] = None
                   /\ pair[p].attempts < MaxAttempts}
Expired == {p \in Pairs : pair[p].status = "leased" /\ pair[p].due /\ pairLock[p] = None}

Recovered(row) == IF row.attempts >= MaxAttempts THEN [row EXCEPT !.status = "discarded"]
                  ELSE Requeue(row)

RefreshNone(ps) == {} \* mutant: a discard does not refresh its test
TestsWithDiscards(ps) == {TestOf[p] : p \in {q \in ps : pair[q].attempts >= MaxAttempts}}

RecoverExpired ==
    /\ "recover" \in Scenario
    /\ tx[Maintenance].at = "idle"
    /\ pairNew' = [p \in Pairs |-> IF p \in Expired THEN Recovered(pair[p]) ELSE pairNew[p]]
    /\ pairLock' = [p \in Pairs |-> IF p \in Expired THEN Maintenance ELSE pairLock[p]]
    /\ LET todo == TestsWithDiscards(Expired)
       IN  Becomes(Maintenance,
             WithTodo(Starting("recover"), IF todo # {} THEN "refresh" ELSE "commit", todo))
    /\ UNCHANGED <<pair, test, testNew, testLocks, client, advisory>>

(***************************************************************************)
(* The smoke worker: pick the oldest test under validation, build and try  *)
(* both engines with no transaction open, then lock the test and record    *)
(* the outcome; a test that passes gets its pairs and joins the queue.     *)
(***************************************************************************)
SmokePick ==
    /\ "smoke" \in Scenario
    /\ tx[Smoke].at = "idle"
    /\ \E t \in Lowest(SeenAs(Smoke, "validating")) :
         Becomes(Smoke, WithChoice(Starting("smoke"), "smoke", t))
    /\ UNCHANGED <<rows, client, advisory>>

StillValidating == test[tx[Smoke].t].status = "validating"

SmokeDiscard ==
    /\ tx[Smoke].at = "smoke"
    /\ Blocking(Smoke, tx[Smoke].t, "ForUpdate") = {}
    /\ ~StillValidating
    /\ Becomes(Smoke, Idle)
    /\ UNCHANGED <<rows, client, advisory>>

SmokeFail ==
    /\ tx[Smoke].at = "smoke"
    /\ StillValidating
    /\ LockTest(Smoke, tx[Smoke].t, "ForUpdate")
    /\ testNew' = [testNew EXCEPT ![tx[Smoke].t] = WithStatus(test[tx[Smoke].t], "invalid")]
    /\ Goto(Smoke, "commit")
    /\ UNCHANGED <<pair, pairNew, pairLock, test, client, advisory>>

SmokePass ==
    /\ tx[Smoke].at = "smoke"
    /\ StillValidating
    /\ LockTest(Smoke, tx[Smoke].t, "ForUpdate")
    /\ testNew' = [testNew EXCEPT ![tx[Smoke].t] = WithStatus(test[tx[Smoke].t], "queued")]
    /\ pairNew' = [p \in Pairs |-> IF TestOf[p] = tx[Smoke].t THEN NewPair ELSE pairNew[p]]
    /\ pairLock' = [p \in Pairs |-> IF TestOf[p] = tx[Smoke].t THEN Smoke ELSE pairLock[p]]
    /\ Becomes(Smoke, WithTodo(tx[Smoke], "refresh", {tx[Smoke].t}))
    /\ UNCHANGED <<pair, test, client, advisory>>

-----------------------------------------------------------------------------
(***************************************************************************)
(* The end of a transaction.  A statement that fails, a lost connection    *)
(* and a crash of the server all roll the transaction back; a crash of the *)
(* server is an Abort of each of its sessions.                             *)
(***************************************************************************)
Commit(s) ==
    /\ tx[s].at = "commit"
    /\ pair' = [p \in Pairs |-> PairSeen(s, p)]
    /\ test' = [t \in Tests |-> TestSeen(s, t)]
    /\ Release(s)
    /\ Becomes(s, IF tx[s].op = "recover" THEN At(Starting("tick"), "promote")
                  ELSE Idle)
    /\ UNCHANGED <<pairNew, testNew, client>>

Abort(s) ==
    /\ "abort" \in Scenario
    /\ tx[s].at # "idle"
    /\ pairNew' = [p \in Pairs |-> IF pairLock[p] = s THEN pair[p] ELSE pairNew[p]]
    /\ testNew' = [t \in Tests |-> IF WritesTest(s, t) THEN test[t] ELSE testNew[t]]
    /\ Release(s)
    /\ Becomes(s, Idle)
    /\ UNCHANGED <<pair, test, client>>

Init ==
    /\ test = [t \in Tests |->
                 [status |-> InitialStatus[t], priority |-> InitialPriority[t],
                  result |-> "pending", penta |-> [k \in Categories |-> 0],
                  history |-> IF InitialStatus[t] \in {"queued", "running"} THEN <<0>>
                              ELSE <<>>]]
    /\ pair = [p \in Pairs |-> IF InitialStatus[TestOf[p]] \in {"queued", "running"}
                               THEN NewPair ELSE NoPair]
    /\ testNew = test /\ pairNew = pair
    /\ pairLock = [p \in Pairs |-> None]
    /\ testLocks = [t \in Tests |-> {}]
    /\ client = [c \in Clients |-> IF "register" \in Scenario THEN "absent" ELSE "active"]
    /\ advisory = None
    /\ tx = [s \in Sessions |-> Idle]

Request(w) ==
    \/ \E c \in Clients, k \in 1..Slots : ClaimPairs(w, c, k)
    \/ \E p \in Pairs, c \in Clients : SubmitRead(w, p, c) \/ AbandonPair(w, p, c)
    \/ \E t \in Tests : StopTest(w, t)
    \/ \E t \in Tests, priority \in Priorities : SetPriority(w, t, priority)

\* The next statement of a transaction that is under way.
Continue(s) ==
    \/ RefreshTest(s)
    \/ PromoteNone(s)
    \/ PromoteChoose(s)
    \/ PromoteTake(s)
    \/ Commit(s)

Next ==
    \/ \E w \in Workers : Request(w) \/ SubmitRefuse(w)
    \/ \E w \in Workers, outcome \in Outcomes : SubmitAccept(w, outcome)
    \/ \E s \in Sessions : Continue(s) \/ Abort(s)
    \/ RecoverExpired
    \/ SmokePick \/ SmokeDiscard \/ SmokeFail \/ SmokePass
    \/ \E p \in Pairs : LeaseExpires(p)
    \/ \E c \in Clients : Register(c) \/ Ban(c)
    \/ \E t \in Tests, priority \in Priorities : InsertTest(t, priority)

Spec == Init /\ [][Next]_vars

(***************************************************************************)
(* Fairness.  A transaction under way executes its statements; the locks   *)
(* are queues, so a waiting one gets its turn.  The maintenance thread     *)
(* ticks for ever, time passes, and the clients keep asking for pairs (the *)
(* HTTP task queue serves each request in its turn).  Nothing is assumed   *)
(* of results or abandons: a client may never answer.                      *)
(***************************************************************************)
Fairness ==
    /\ \A s \in Sessions : SF_vars(Continue(s))
    /\ \A w \in Workers : SF_vars(SubmitRefuse(w) \/ \E o \in Outcomes : SubmitAccept(w, o))
    /\ WF_vars(RecoverExpired)
    /\ \A p \in Pairs : WF_vars(LeaseExpires(p))
    /\ SF_vars(\E w \in Workers, c \in Clients, k \in 1..Slots : ClaimPairs(w, c, k))

FairSpec == Spec /\ Fairness
=============================================================================
