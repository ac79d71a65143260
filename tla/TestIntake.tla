----------------------------- MODULE TestIntake -----------------------------
(***************************************************************************)
(* A test on its way into the queue: `capi_net submit --wait` posts it, an *)
(* HTTP thread checks it and stores it, the smoke worker builds both       *)
(* engines and samples the book, and the program that waits reads the      *)
(* verdict, while the book is replaced, the server is stopped, killed and  *)
(* started, and calls fail.                                                *)
(***************************************************************************)
EXTENDS TestSpec, Sequences, FiniteSets

CONSTANTS
    Users,       \* people who run `capi_net submit --wait`, once each
    Options,     \* what each of them may ask for
    Positions,   \* the number of positions in each edition of the book, 0
                 \* while there is no such file
    MaxFaults    \* bound of the model: stops and crashes of the server and
                 \* database errors

ASSUME IntakeAssumption ==
    /\ IsFiniteSet(Users) /\ Options \in [Users -> SUBSET Bodies]
    /\ Positions \in Seq(Nat) /\ Len(Positions) > 0

Tests == 1..Cardinality(Users)

VARIABLES
    server,    \* "up" | "draining" | "stopping" | "joining" | "down"
    stop, pending,  \* SmokeWorker::stop_, pending_
    smoke,     \* where the worker is, its test, its log and its sample
    book,      \* the edition of the file: its size and mtime tell it apart
    cache,     \* the static map of count_book_positions: one book, one entry
    request,   \* the HTTP thread of each user
    cli,       \* the program of each user
    tests,     \* the rows of the table tests
    faults

intakeVars == <<server, stop, pending, smoke, book, cache, request, cli, tests, faults>>

NoRequest == [at |-> "none", spec |-> None, stamp |-> 0, n |-> 0, same |-> FALSE, id |-> 0]
NoTest == [status |-> "absent", total |-> 0, priority |-> 0, positions |-> 0]
NoCount == [stamp |-> 0, n |-> 0]
There == Positions[book] > 0
At(place) == [at |-> place, t |-> 0, log |-> "none", n |-> 0]

-----------------------------------------------------------------------------
(* The program. *)

\* cmd_submit: an SPRT without a preset is a gainer.
BodyOf(o) == IF o.kind = "sprt" /\ o.preset = None THEN [o EXCEPT !.preset = "gainer"] ELSE o

Submit(u, o) ==
    /\ cli[u].at = "ready" /\ server = "up"
    /\ IF Accepts(BodyOf(o))
       THEN /\ cli' = [cli EXCEPT ![u].at = "waiting"]
            /\ request' = [request EXCEPT ![u] = [NoRequest EXCEPT !.at = "stat", !.spec = SpecOf(BodyOf(o))]]
       ELSE /\ cli' = [cli EXCEPT ![u].at = "error"]
            /\ UNCHANGED request
    /\ UNCHANGED <<server, stop, pending, smoke, book, cache, tests, faults>>

\* The answer takes more than 90 s, for a long count or GitHub, or the server is
\* gone: the program ends, the HTTP thread goes on.
NoAnswer(u) ==
    /\ \/ cli[u].at = "waiting" /\ request[u].at \in {"none", "count", "resolve"}
       \/ cli[u].at \in {"polling", "reading"} /\ server # "up"
    /\ cli' = [cli EXCEPT ![u].at = "error"]
    /\ UNCHANGED <<server, stop, pending, smoke, book, cache, request, tests, faults>>

\* One look at the validation, every two seconds, until the test is judged, and
\* one more for the exit code.
JudgedAtOnce(status) == TRUE \* mutant: the loop ends with the first answer
Judged(status) == status # "validating"
Poll(u) ==
    /\ server = "up"
    /\ \/ /\ cli[u].at = "polling" /\ Judged(tests[cli[u].id].status)
          /\ cli' = [cli EXCEPT ![u].at = "reading"]
       \/ /\ cli[u].at = "reading"
          /\ cli' = [cli EXCEPT ![u].at =
                       IF tests[cli[u].id].status = "invalid" THEN "failed" ELSE "ok"]
    /\ UNCHANGED <<server, stop, pending, smoke, book, cache, request, tests, faults>>

-----------------------------------------------------------------------------
(* POST /api/admin/tests. *)

\* The answer, to a program that may have left.
Answers(u, place) ==
    /\ request' = [request EXCEPT ![u] = NoRequest]
    /\ cli' = IF cli[u].at = "waiting"
              THEN [cli EXCEPT ![u] = [at |-> place, id |-> request[u].id]] ELSE cli

Refuses(u) == Answers(u, "error")

\* count_book_positions takes the stamp of the file before it reads it.
Stat(u) ==
    /\ request[u].at = "stat"
    /\ IF There
       THEN /\ request' = [request EXCEPT ![u].at = "lookup", ![u].stamp = book]
            /\ UNCHANGED cli
       ELSE Refuses(u)
    /\ UNCHANGED <<server, stop, pending, smoke, book, cache, tests, faults>>

Fits(u, n) == request[u].spec.total <= n

Compares(u, n) ==
    IF Fits(u, n)
    THEN /\ request' = [request EXCEPT ![u] = [NoRequest EXCEPT !.at = "resolve", !.spec = request[u].spec]]
         /\ UNCHANGED cli
    ELSE Refuses(u)

Lookup(u) ==
    /\ request[u].at = "lookup"
    /\ IF cache.stamp = request[u].stamp
       THEN Compares(u, cache.n)
       ELSE request' = [request EXCEPT ![u].at = "count"] /\ UNCHANGED cli
    /\ UNCHANGED <<server, stop, pending, smoke, book, cache, tests, faults>>

Count(u) ==
    /\ request[u].at = "count"
    /\ IF There
       THEN /\ request' = [request EXCEPT ![u].at = "store", ![u].n = Positions[book]]
            /\ UNCHANGED cli
       ELSE Refuses(u)
    /\ UNCHANGED <<server, stop, pending, smoke, book, cache, tests, faults>>

CountedLate(u) == [stamp |-> book, n |-> request[u].n] \* mutant: the stamp of afterwards
Counted(u) == [stamp |-> request[u].stamp, n |-> request[u].n]

Store(u) ==
    /\ request[u].at = "store"
    /\ cache' = Counted(u)
    /\ Compares(u, request[u].n)
    /\ UNCHANGED <<server, stop, pending, smoke, book, tests, faults>>

\* GitHub does not answer or does not know a ref, or both refs are resolved,
\* perhaps to the same commit.
DifferUnasked(same) == TRUE \* mutant: the commits are not compared
Differ(same) == ~same
Resolve(u) ==
    /\ request[u].at = "resolve"
    /\ \/ Refuses(u)
       \/ \E same \in {s \in BOOLEAN : Differ(s)} :
            /\ request' = [request EXCEPT ![u].at = "insert", ![u].same = same]
            /\ UNCHANGED cli
    /\ UNCHANGED <<server, stop, pending, smoke, book, cache, tests, faults>>

SpecIsStorable(u) ==
    Storable(request[u].spec, "candidate",
             IF request[u].same THEN "candidate" ELSE "baseline")

InsertTest(u) ==
    LET spec == request[u].spec
        id == CHOOSE t \in Tests : \A v \in Tests : tests[v].status = "absent" <=> v >= t
    IN
    /\ request[u].at = "insert"
    /\ \/ /\ SpecIsStorable(u)
          /\ tests' = [tests EXCEPT ![id] = [status |-> "validating", total |-> spec.total,
                                             priority |-> spec.priority, positions |-> 0]]
          /\ request' = [request EXCEPT ![u] = [NoRequest EXCEPT !.at = "notify", !.id = id]]
          /\ UNCHANGED <<cli, faults>>
       \/ /\ ~SpecIsStorable(u) \/ faults < MaxFaults
          /\ Refuses(u)
          /\ faults' = IF SpecIsStorable(u) THEN faults + 1 ELSE faults
          /\ UNCHANGED tests
    /\ UNCHANGED <<server, stop, pending, smoke, book, cache>>

\* notify sets pending_ under the mutex of the worker's wait.
Woken == IF smoke.at = "asleep" THEN At("woken") ELSE smoke
NotifySmoke(u) ==
    /\ request[u].at = "notify" /\ smoke.at # "drowsy"
    /\ pending' = TRUE /\ smoke' = Woken
    /\ Answers(u, "polling")
    /\ UNCHANGED <<server, stop, book, cache, tests, faults>>

HandlerStep(u) ==
    \/ Stat(u) \/ Lookup(u) \/ Count(u) \/ Store(u)
    \/ Resolve(u) \/ InsertTest(u) \/ NotifySmoke(u)

-----------------------------------------------------------------------------
(* SmokeWorker. *)

\* The look at the condition, with the mutex: from "drowsy" the worker falls
\* asleep and releases it.
Look ==
    /\ (smoke.at = "loop" /\ ~stop) \/ smoke.at = "woken"
    /\ IF pending \/ stop
       THEN pending' = FALSE /\ smoke' = At("poll")
       ELSE smoke' = At("drowsy") /\ UNCHANGED pending
    /\ UNCHANGED <<server, stop, book, cache, request, cli, tests, faults>>

FallAsleep ==
    /\ smoke.at = "drowsy" /\ smoke' = At("asleep")
    /\ UNCHANGED <<server, stop, pending, book, cache, request, cli, tests, faults>>

\* The 30 s pass.
WaitEndsNever == FALSE \* mutant: wait instead of wait_for
WaitEnds ==
    /\ smoke.at = "asleep" /\ smoke' = At("poll") /\ pending' = FALSE
    /\ UNCHANGED <<server, stop, book, cache, request, cli, tests, faults>>

\* The read of process_next: the oldest test to validate.
Validating == {t \in Tests : tests[t].status = "validating"}
Oldest(S) == CHOOSE t \in S : \A u \in S : t <= u

Pick ==
    /\ smoke.at = "poll"
    /\ IF stop \/ Validating = {} THEN smoke' = At("loop")
       ELSE smoke' = [At("build") EXCEPT !.t = Oldest(Validating)]
    /\ UNCHANGED <<server, stop, pending, book, cache, request, cli, tests, faults>>

\* Both engines are built and benched (module BuildCache), or one fails; a
\* build that is cancelled fails too.
BuildBoth ==
    /\ smoke.at = "build"
    /\ \/ smoke' = [smoke EXCEPT !.at = "sample"]
       \/ \E log \in {"failed"} \cup (IF stop THEN {"cancelled"} ELSE {}) :
            smoke' = [smoke EXCEPT !.at = "decide", !.log = log]
    /\ UNCHANGED <<server, stop, pending, book, cache, request, cli, tests, faults>>

\* sample_book reads the file again: it may have gone or be another edition.
Sampled == IF Positions[book] < tests[smoke.t].total
           THEN Positions[book] ELSE tests[smoke.t].total
EnoughAlways(n) == TRUE \* mutant: what was counted is taken for granted
Enough(n) == n >= tests[smoke.t].total
Sample ==
    /\ smoke.at = "sample"
    /\ smoke' = IF There /\ Enough(Sampled)
                THEN [smoke EXCEPT !.at = "decide", !.n = Sampled]
                ELSE [smoke EXCEPT !.at = "decide", !.log = "failed"]
    /\ UNCHANGED <<server, stop, pending, book, cache, request, cli, tests, faults>>

\* A test interrupted by the shutdown keeps its status.
InterruptedNever == FALSE \* mutant: a cancelled build is a failed one
Interrupted == stop
Decide ==
    /\ smoke.at = "decide"
    /\ smoke' = IF Interrupted THEN At("loop") ELSE [smoke EXCEPT !.at = "judge"]
    /\ UNCHANGED <<server, stop, pending, book, cache, request, cli, tests, faults>>

\* promote_next_test, on the rows ts.
Promoted(ts) ==
    LET queued == {t \in Tests : ts[t].status = "queued"}
        best == CHOOSE t \in queued : \A u \in queued \ {t} :
                    ts[t].priority > ts[u].priority \/ (ts[t].priority = ts[u].priority /\ t < u)
    IN IF queued = {} \/ \E t \in Tests : ts[t].status = "running" THEN ts
       ELSE [ts EXCEPT ![best].status = "running"]

\* The last transaction of process_next: the row may have changed meanwhile.
Judge ==
    /\ smoke.at = "judge"
    /\ smoke' = At("poll")
    /\ tests' = IF tests[smoke.t].status # "validating" THEN tests
                ELSE IF smoke.log # "none" THEN [tests EXCEPT ![smoke.t].status = "invalid"]
                ELSE Promoted([tests EXCEPT ![smoke.t].status = "queued",
                                            ![smoke.t].positions = smoke.n])
    /\ UNCHANGED <<server, stop, pending, book, cache, request, cli, faults>>

\* A transaction of process_next throws: the worker goes back to its wait.
SmokeError ==
    /\ smoke.at \in {"poll", "judge"} /\ faults < MaxFaults
    /\ smoke' = At("loop") /\ faults' = faults + 1
    /\ UNCHANGED <<server, stop, pending, book, cache, request, cli, tests>>

SmokeEnds ==
    /\ smoke.at = "loop" /\ stop /\ smoke' = At("ended")
    /\ UNCHANGED <<server, stop, pending, book, cache, request, cli, tests, faults>>

SmokeStep == Look \/ FallAsleep \/ WaitEnds \/ Pick \/ BuildBoth \/ Sample \/ Decide \/ Judge
             \/ SmokeEnds

-----------------------------------------------------------------------------
(* The server's process. *)

\* The signal thread stops the HTTP server, which takes no more requests.
Signal ==
    /\ server = "up" /\ faults < MaxFaults
    /\ server' = "draining" /\ faults' = faults + 1
    /\ UNCHANGED <<stop, pending, smoke, book, cache, request, cli, tests>>

\* listen returns when the handlers have ended; then ~SmokeWorker sets stop_,
\* without the mutex of the wait, notifies, and joins.
SetStop ==
    /\ server = "draining" /\ \A u \in Users : request[u].at = "none"
    /\ server' = "stopping" /\ stop' = TRUE
    /\ UNCHANGED <<pending, smoke, book, cache, request, cli, tests, faults>>

NotifyStop ==
    /\ server = "stopping" /\ server' = "joining" /\ smoke' = Woken
    /\ UNCHANGED <<stop, pending, book, cache, request, cli, tests, faults>>

\* What the next process finds: an empty cache, and a worker that looks at the
\* table before it waits.
Gone ==
    /\ server' = "down" /\ smoke' = At("ended")
    /\ stop' = FALSE /\ pending' = TRUE /\ cache' = NoCount
    /\ request' = [u \in Users |-> NoRequest]

Exit ==
    /\ server = "joining" /\ smoke.at = "ended" /\ Gone
    /\ UNCHANGED <<book, cli, tests, faults>>

Crash ==
    /\ server # "down" /\ faults < MaxFaults /\ Gone
    /\ faults' = faults + 1
    /\ UNCHANGED <<book, cli, tests>>

\* A process that cannot listen stops as after a signal.
Start ==
    /\ server = "down"
    /\ \/ server' = "up" /\ UNCHANGED faults
       \/ server' = "draining" /\ faults < MaxFaults /\ faults' = faults + 1
    /\ smoke' = At("loop")
    /\ UNCHANGED <<stop, pending, cache, book, request, cli, tests, faults>>

ServerStep == SetStop \/ NotifyStop \/ Exit \/ Start

-----------------------------------------------------------------------------
(* What happens around it. *)

\* The book is removed or replaced, under another stamp.
ChangeBook ==
    /\ book < Len(Positions) /\ book' = book + 1
    /\ UNCHANGED <<server, stop, pending, smoke, cache, request, cli, tests, faults>>

\* POST /api/admin/tests/:id/stop, of a test that is being validated.
StopValidating(t) ==
    /\ server = "up" /\ tests[t].status = "validating"
    /\ tests' = [tests EXCEPT ![t].status = "stopped"]
    /\ UNCHANGED <<server, stop, pending, smoke, book, cache, request, cli, faults>>

IntakeInit ==
    /\ server = "up" /\ stop = FALSE /\ pending = TRUE /\ smoke = At("loop")
    /\ book = 1 /\ cache = NoCount
    /\ request = [u \in Users |-> NoRequest]
    /\ cli = [u \in Users |-> [at |-> "ready", id |-> 0]]
    /\ tests = [t \in Tests |-> NoTest]
    /\ faults = 0

IntakeNext ==
    \/ \E u \in Users : \E o \in Options[u] : Submit(u, o)
    \/ \E u \in Users : NoAnswer(u) \/ Poll(u) \/ HandlerStep(u)
    \/ \E t \in Tests : StopValidating(t)
    \/ SmokeStep \/ SmokeError \/ ServerStep \/ Signal \/ Crash \/ ChangeBook

IntakeSpec == IntakeInit /\ [][IntakeNext]_intakeVars

-----------------------------------------------------------------------------
\* The count that the next request will trust is the one of the file it has
\* just looked at, also when the file was replaced while it was counted
\* (count_book_positions).
CacheIsCurrent ==
    cache.stamp = book /\ cache.stamp > 0 => cache.n = Positions[cache.stamp]

\* What parse_test_spec and resolve_ref let through, the table takes: a client
\* never gets an error 500 for a body that the checks took.
AcceptedIsStored == \A u \in Users : request[u].at = "insert" => SpecIsStorable(u)

\* A test that reaches the queue has exactly the positions it asked for, also
\* when its book shrank, or went, after it was counted (sample_book).
QueuedHasItsPositions ==
    \A t \in Tests : tests[t].status \in {"queued", "running"} =>
        tests[t].positions = tests[t].total

\* The program that waits ends with 0 only for a test that passed or was
\* stopped, with 1 for one that is invalid, although it asks twice
\* (cmd_submit, cmd_validation).
CliExitIsVerdict ==
    \A u \in Users :
        /\ cli[u].at = "ok" => tests[cli[u].id].status \notin {"absent", "validating", "invalid"}
        /\ cli[u].at = "failed" => tests[cli[u].id].status = "invalid"

\* A shutdown is no verdict: the builds it cancels fail, and the test waits for
\* the next start (process_next).
ShutdownIsNoVerdict ==
    [][\A t \in Tests : tests[t].status = "validating" /\ tests'[t].status = "invalid" =>
         smoke.log = "failed"]_intakeVars

\* Every test is judged, whoever crashes and whichever notification or
\* transaction is lost: the table is the queue of the worker.
EveryTestIsJudged ==
    \A t \in Tests : tests[t].status = "validating" ~> tests[t].status # "validating"

\* A stop ends the server, also when its notification falls between the
\* worker's look at the condition and its sleep.
ShutdownEnds == server \in {"draining", "stopping", "joining"} ~> server = "down"
=============================================================================
