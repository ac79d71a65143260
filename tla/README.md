# capi_net in TLA+

capi_net tests versions of the chess engine capizero against each other.  A
server keeps a queue of tests in PostgreSQL; clients claim *pairs* of games,
build the two engines of the test, play the pair with fastchess and submit the
result; the server recounts, applies the SPRT and moves on to the next test.

This directory is a model of that system: specifications that follow the code
handler by handler, instances that TLC checks, and proofs that TLAPS checks.
Paths in this file are relative to the root of the repository;
`PROJECT.json` maps every definition to the lines it stands for and lists the
runs, the mutants (plausible bugs each property is known to detect), the
hazards and the theorems.

    tlc -workers 2 -config QueueResults.cfg MCQueue.tla     # a run
    tlapm JobQueueProofs.tla                                # the proofs of a module

## 1. The system

| component | code | state | operations | modelled in |
|---|---|---|---|---|
| job queue | `server/queue.cpp` | rows of `job_pairs`, `games`, `clients` | register, claim, submit, abandon, recover leases | `JobQueue`, `PairLease`, `LeaseTime` |
| test lifecycle | `server/test_lifecycle.cpp` | rows of `tests`, `test_stats`, `test_stats_history`; an advisory lock | refresh, finish, promote | `JobQueue`, `SerialQueue` |
| administration | `server/admin.cpp` | rows of `tests` | insert, stop, set priority | `JobQueue`, `SerialQueue` |
| smoke worker | `server/smoke.cpp` | `stop_`, `pending_`, the test it validates | wait, notify, pick, build, sample, judge, end | `TestIntake`, `JobQueue` (its transactions), `BuildCache` (its builds) |
| server process, maintenance | `server/main.cpp` | – | start, stop by a signal, crash; a tick that recovers leases and promotes | `TestIntake`, `JobQueue` |
| HTTP routes | `server/http/` | – | one handler per request | `JobQueue`, `TestIntake`, `ClientHost`, `PairReport` |
| test specification | `server/spec.cpp` | none | parse and check a body | `TestSpec` |
| books | `server/books.cpp` | a cache of counts | count, sample | `TestIntake` |
| GitHub | `server/github.cpp` | none | resolve a ref | `TestIntake` (its outcomes) |
| PGN export | `server/reports.cpp`, `server/http/web_routes.cpp` | the cursor or the manifest of a download | list, send a batch | `PgnExport` |
| connection pool | `server/db/pool.cpp` | `idle_`, `created_`, a mutex and a condition variable | acquire, release | `ConnectionPool` |
| client topology and admission | `client/topology.cpp`, `client/main.cpp` | the processors, the slots and their cores | detect, decide, verify, register | `ClientHost` |
| client runner | `client/runner.cpp`, `api.cpp`, `main.cpp` | `engines_`, `failed_test_`, `pairs_done_`, `stop_`; one thread per slot | poll, prepare, claim, play, submit, give back | `ClientRunner` |
| reports of pairs | `client/pgn.cpp`, `client/runner.cpp`, `server/sanity.cpp` | none | read a PGN, make a report, check it, score it | `PairReport` |
| process runner | `common/process.cpp` | pipes, a child in its own process group | fork, feed, read, kill, wait | `RunProcess` |
| build cache | `common/engine_build.cpp`, `client/fastchess_setup.cpp` | directories `{key}` and `{key}.tmp` | download, unpack, compile, rename | `BuildCache` |
| command line | `cli/main.cpp` | none | `submit --wait`, `validation`; others print one answer | `TestIntake` (those two) |
| statistics | `common/gsprt.cpp`, `elo.cpp`, `penta.cpp` | none | floating point | a parameter of `JobQueue` |
| configuration, web pages, scripts | `server/config.cpp`, `client/config.cpp`, `web/`, `scripts/` | none | read once, present | no |

How they meet:

* An HTTP thread takes a connection from the pool for one request and runs one
  transaction of the queue on it.  The maintenance thread and the smoke worker
  do the same on their own schedule.  The server's threads share nothing but
  the pool and the database, so `JobQueue` is about *sessions* of PostgreSQL.
* A client's main thread and its slots share the stop flag, the engines and the
  counter of pairs; all of them run programs at once through `run_process`.
* A client and the smoke worker build through the same cache code, each in a
  work directory of its own.
* A test passes from hand to hand: the program that submits it, an HTTP thread,
  the smoke worker, the promotion, the slots of the clients, the view that
  counts its pairs, the downloads of its games.  Each relies on what the one
  before it has checked, some of it minutes earlier (`Journey`).
* The client and the server meet in five calls, each of which may fail, be
  answered late or be carried out after its caller has given up.

What is hard, and what makes each part correct:

* **Queue.** Results of one test are submitted concurrently, leases expire while
  results are under way, transactions roll back half-way.  Statistics have to
  match results at every commit, a pair counts once, only for the client that
  holds it, and a running test always has something to wait for.
* **Lifecycle.** Tests end, are stopped, validated and promoted at once.  At most
  one runs, the queue never stalls, an ended test stays ended, no set of
  transactions waits on itself.
* **Intake.** A body is checked twice in two languages, a book is counted for the
  request and sampled minutes later, the server stops or dies in between, the
  worker's notification is lost.  What was accepted can be stored, what is queued
  has its positions, a shutdown is no verdict, every test is judged.
* **Admission.** Threads, cores, classes, a mask and the user's wishes decide the
  slots.  No two of them share a core.
* **Reports.** A pair may be cut short, crash or be unbelievable, and the
  candidate changes colour.  It counts for what was played, or not at all.
* **Export.** Games commit in another order than their ids are drawn.  A download
  that ends is whole.
* **Pool.** Connections break in use or fail to open.  The pool never outgrows
  its size and no thread sleeps beside a connection it could have.
* **Client.** The active test changes between two reads, the server stays away,
  a signal comes at any time.  A pair is played with its own engines, none is
  left leased by an orderly end, and a stop ends every thread.
* **Process runner.** Two threads fork between each other's system calls.  Killed
  calls leave nobody behind, output is read to its end, nobody waits for ever.
* **Build cache.** Processes die and their compilers go on.  A cached name is
  always a whole binary, and nothing left behind blocks the next build.

The full list of hazards, each at its line and with the properties that watch
it, is in `PROJECT.json`.

## 2. Modules

    PairLease        abstract: the life of one pair           <-- refined by JobQueue
    SerialQueue      abstract: the queue of tests, serially   <-- refined by JobQueue
      SerialQueueProofs
    JobQueue         the transactions of the server
      QueueProperties  its properties                           MCQueue
        JobQueueProofs   types, QueueProofs   everything else
    LeaseTime        the length of a lease and of a pair (used by JobQueueProofs)
    Journey          the way of one test    JourneyProofs       MCJourney
                     (all five parts), composed of
      TestSpec         what a submission may ask for
      TestIntake       from the submission to the queue
      ClientHost       from a computer to a client
      PairReport       from the games of a pair to its score
        PgnExport        the games, stored and downloaded
    ConnectionPool   the pool              ConnectionPoolProofs  MCPool
    ClientRunner     a client machine      ClientRunnerProofs    MCClient
    RunProcess       run_process           RunProcessProofs      MCRun
    BuildCache       builds                BuildCacheProofs      MCBuild

### JobQueue

A transaction runs statement by statement at READ COMMITTED.  `pair` and `test`
are the committed rows; a transaction that changes a row locks it and writes to
`pairNew` and `testNew`, which `Commit` publishes and `Abort` (any exception, a
broken connection, a crash of the server) throws away.  `tx` holds for each
session the next statement and what it remembers from earlier ones.

* A step is one statement, or several that hold the locks that make them one.
  `submit_result` is `SubmitRead` (which fixes what it sees of the *other* rows:
  `seenTest`, `seenClient`), the wait for the pair's row, and `SubmitAccept` or
  `SubmitRefuse`; then `RefreshTest`, `PromoteNone` or `PromoteChoose` and
  `PromoteTake`, and `Commit`.
* `claim_pairs` is one statement with `FOR UPDATE SKIP LOCKED`, hence one action.
* `LockTest`, `Conflicts` and `Blocking` are PostgreSQL's row locks: the
  `KEY SHARE` that a foreign key takes, `FOR NO KEY UPDATE`, `FOR UPDATE`.
* `PromoteChoose` evaluates the subquery of `promote_next_test` and `PromoteTake`
  updates the row it chose, after a wait if another transaction holds it: the
  update sees the newest version of that row but does not choose again.
* A pair's two games are one outcome, a pentanomial category or "invalid".  The
  SPRT is a parameter `SprtDecide`; its arithmetic is floating point.

`QueueProperties` states the properties over committed rows, the view of any
other transaction and of a server that restarts.  `PairLease` says what the
queue promises of a pair without tests, transactions or locks; the property
`PairLifecycle` is that `JobQueue` implements it (`INSTANCE PairLease`, same
names).

### SerialQueue

The queue of tests as if each request ran alone: a step ends, admits or stops one
test and promotes, in the same moment, the one that is chosen.  There are no
pairs, transactions or locks.  The choice is a step of its own, since the code
chooses in a subquery and a `set_priority` may commit before the promotion does:
what is promoted was the best of those that waited when it was chosen.
`QueueIsSerial` is that `JobQueue` implements it, with the status, the priority
and the result of the committed rows for its variables and, for `chosen`, the
test that the holder of the advisory lock has chosen, from the choice to the end
of its transaction (`Chosen`); a roll-back gives the choice up.  One departure is
written into it, the race of finding 1: a test that is stopped after it was
chosen runs.

### Journey and its parts

* `TestSpec` has no state: `Accepts` is `parse_test_spec`, `Storable` the CHECKs
  and ranges of the table `tests`.  A body is a record of its fields; the range
  of an int is a parameter, so that `Narrowed` (a `long long` cut to an `int`)
  wraps within reach of TLC.
* `TestIntake` is one `capi_net submit --wait` for each user (`cli`), the HTTP
  thread that serves it (`request`, one step for each call that reads or writes
  something shared: the file of the book, the cache of counts, GitHub, the
  database, the worker's flag), the smoke worker (`smoke`, with the look at the
  condition and the sleep as separate steps), the process of the server
  (`server`: `SetStop` and `NotifyStop` are the two halves of `~SmokeWorker`) and
  the table `tests`.  The book is a sequence of editions, of which some are no
  file.
* `ClientHost` is the start of a client: `Detect` is `detect_topology`,
  `default_slots` and `decide_admission` on a machine that is a record of its
  processors, `VerifyPinning` the trial of the affinity, `RegisterHost` the
  registration.
* `PairReport` follows a pair from its games through the PGN (`Pgn`, external:
  what fastchess writes), `MakeResultBody` of the client, `Taken` and `CheckPair`
  of the server, to `PairScore`, the view `pair_outcomes`.
* `PgnExport` is the table `games` under concurrent inserts (`nextId` is drawn at
  the insert, the games appear at the commit, a rollback loses its ids) and the
  two downloads: the `.pgn.gz` by a manifest, the `.pgn` by a cursor.
* `Journey` composes them in two acts.  In the first, tests are submitted and
  judged.  When one runs and nobody is at work on another (`CurtainRises`), its
  number of positions is handed to the second, in which a computer becomes a
  client and its slots play that many pairs, report them and store them while the
  games are downloaded.  What happens to the pairs between a claim and a result
  is `JobQueue` and `ClientRunner`, with all their concurrency.

### LeaseTime

How long a lease is (`claim_pairs`) and how long a client lets a pair play
(`play_pair`), as arithmetic on the time control and the `cpu_factor` p / q.

### ConnectionPool

One thread, one place in `acquire()`.  The critical sections are steps; opening
a connection (`Connect`, `ConnectFails`) is outside of the mutex as in the code,
and a notification wakes any one sleeper, or is lost when nobody sleeps.
Spurious wakeups are steps.  `Breaks` closes a connection under its user.

### ClientRunner

`main` is the main thread in `run` and `poll_server`, `slot` the slots in
`slot_loop`; a step ends where the code reads or writes something shared or
waits for an answer.  `stop`, `engines`, `failed`, `done` are the shared fields.
The server is what a client can see of `JobQueue`: the active test, the status
of each pair, and whether this client holds it.  A call is answered, or fails;
one that failed may have been carried out, or may be later (`strays`).  `Crash`
is the end of the process without its destructors, after which `Start` begins
anew while the leases stay.

### RunProcess

`call` is the thread in `run_process`, `child` its program (before the `exec` it
is a copy of the caller, after it the program), `open` the descriptors of the
caller and `exposed` those still without the close-on-exec flag.  `MakePipe` and
the calls of `SetCloexec` are separate steps, so that another call can fork in
between and copy descriptors (`Inherited`).  Data are units in pipes of
`Capacity` units.  A program writes, then reads its stdin or ignores it, may
start another process that inherits its descriptors, and ends.

### BuildCache

The file system outlives the process.  `disk` says for each key whether the
tarball, the source tree and the binary in `{key}.tmp` are there, half there or
whole, and what file `{key}` names; `whole` are the files linked to their end.
`tools` are curl, tar and make as processes of their own: `run_process` puts
them in their own group, so they go on when the process that started them dies.
A tool works in the directory it has entered, not in one that is created later
under the same name (`InPlace`; `made` numbers the directories), except curl,
which opens its output by name and may do so late.  `remove_all` throws when a
tool creates files behind its back.

`tools`, their steps and the file system are external: they model curl, tar,
make and POSIX as the code uses them.

## 3. Runs

Times are for two workers; every run is exhaustive within its bounds.

| run | instance | states | shows |
|---|---|---|---|
| `queue_results` | 2 requests at a time, 2 clients, an SPRT test of 2 pairs and a queued test, any transaction may abort | 2,152,832 | `TypeOK`, `StatsMatchResults`, `HistoryIsGapless`, `RunningHasReason`, `PairLifecycle` (refinement) |
| `queue_admin` | 3 tests inserted, validated, stopped, given priorities, promoted; registration and bans | 2,385,618 | `OneRunningTest`, `QueueNeverStalls`, `NoWaitCycle`, `QueueIsSerial` (refinement) |
| `queue_liveness` | clients claim for ever and may never answer | 46,137 | `FinishIsJustified`, `LeasesEnd`, `TestsEnd` |
| `queue_stop` | a stop against a promotion | violated | `PromotesOnlyQueued` (finding 1) |
| `pool` | 4 threads, 2 connections | 4,864 | `PoolAccounts`, `NoLostWakeup`, `QuietPoolDrains` |
| `client_safety` | 2 slots, 2 tests that follow each other, `--max-pairs 1`, one stray call | 4.4 M | `ClientTypeOK`, `PlaysItsTest`, `LeavesNoLease`, `PairsBounded` |
| `client_stops` | 2 slots, a server that may stay away | 103,285 | `StopEnds`, `SubmitEnds`, `BanEnds` |
| `run_process` | an engine that is fed and a game that starts processes, is cancelled or times out | 417,876 | `RunTypeOK`, `GroupIsGone`, `OutputIsWhole`, `LeaksAreOneWay`, `CallsEnd` |
| `run_leak` | two engines that are fed | violated | `NoLeak` (finding 2) |
| `run_cancel` | a cancelled game | violated | `CancelKills` (finding 3) |
| `build` | 3 keys, one per kind of caller; one fault, one death | 861,907 | `BuildTypeOK`, `CachedIsWhole`, `BuildsInTheEnd` |
| `journey` | 2 submissions, 3 editions of the book, one fault; then 7 computers, 2 slots, games of 10 kinds, one rollback, both downloads | 574,850 | `AcceptedIsStored`, `CacheIsCurrent`, `QueuedHasItsPositions`, `CliExitIsVerdict`, `ShutdownIsNoVerdict`, `EveryTestIsJudged`, `ShutdownEnds`; `AdmittedIsFit`, `CountedAsPlayed`, `ExportIsWhole` |

Why the bounds are enough to meet the interesting cases:

* Two HTTP threads and the maintenance thread (and the smoke worker) already
  give every pair of transactions, and the cycles of up to four sessions that
  `NoWaitCycle` looks for.  Row conflicts are pairwise.
* Two pairs of one test let each of the last two results see the other one
  unfinished; the third pair belongs to the test that is promoted.  `AttemptCap`
  bounds the claims of a pair and is above or equal to `MaxAttempts`, so that
  pairs are discarded at the limit.
* Four threads on two connections: two hold, one sleeps, and one newcomer takes
  what the sleeper was woken for.
* Two slots and two tests: the engines change under a slot that has claimed.
  One stray request: a result or a return that arrives after its retry.
* Two calls in `run_process`: leaks are between two; `Capacity = 1` fills and
  empties a pipe at every unit.
* One fault and one death: an orphaned tool, then a failing one, in the same
  directory.  Four files: one for each key and one of an orphan.

* `journey`: two submissions suffice for one to use, or to overwrite, the count
  of the other, for a notification of one against the wait of the worker that
  judges the other, and for a promotion between two.  Three editions of the book
  are one that grows short, one that goes, one that comes back.  One fault (a
  signal, a crash, a failed start or a database error) at any moment; several
  would repeat from a state the first one leads to.  Two sessions with two games
  each and batches of two put a commit behind the cursor of a download and a
  rollback's gap in the ids.  The computers have siblings, slow cores, a mask,
  no affinity, or a system that is not known; the wishes ask for fewer, as many
  and more slots than there are, and for cores that suit, repeat or are
  siblings.  The durations and plies of the games lie on both sides of
  each limit of `check_game`.

What `journey` folds together: a body is checked in the step that submits it
(nothing shared is read), only the second user varies his body, a pair is played
before the download begins, and one download runs at a time (downloads do not
see each other).

The mutants in `PROJECT.json` show that each property fails in its own instance
when the code it is about is changed.

What an instance leaves out on purpose: `queue_admin` has no transaction that
rolls back, since that adds steps but no states (after a roll-back the rows are
as if the transaction had not begun).  `queue_results` has them, and the
theorems about the properties of `queue_admin` hold for every scenario.

Deadlock is checked except in the three runs of `RunProcess`, whose calls all
return and leave nothing to do, and in `journey`, a story with an end.

### Fairness

* Queue: a transaction that has begun executes its statements and gets the locks
  it waits for (PostgreSQL queues waiters); the maintenance thread ticks
  periodically (`main.cpp`); time passes, so leases expire; clients keep asking
  for pairs.  Nothing is assumed of results, returns or failures.
* Pool: threads leave their critical sections and connection attempts and return
  what they hold.  Nothing is assumed of who is notified.  `QuietPoolDrains` has
  its premise (requests stop coming) in the formula: without it a condition
  variable promises nothing to a particular thread.
* Client: threads run, calls end (each has a time limit in `api.cpp`), fastchess
  ends or is killed at its time limit, the clock runs.  The server may be out of
  reach for ever; only `BanEnds` has the premise that the server answers again
  and again.
* Process runner: threads run, and programs that have their input go on and end.
  No deadline has to pass and no flag has to be set.
* Journey (its first act): threads run, calls of tools end (each has a time
  limit), 30 s pass, and a server that is down is started again, as a service
  is.  `NotifySmoke` has strong fairness: it waits for a mutex that the worker,
  with nothing to do, holds for a moment every 30 s.  No program has to be
  answered, no fault has to stay away.
* Build cache: processes and tools run, and each key is asked for again and
  again (the two commits of a test, a client that starts again).  Faults and
  deaths are bounded, so they stop in the end.

## 4. Proofs

| theorem | module | for every |
|---|---|---|
| `Typing`: `Spec => []TypeOK` | `JobQueueProofs` | number of sessions, clients, tests, pairs, any SPRT |
| `LeaseOutlivesPair` | `JobQueueProofs` | time control, `cpu_factor` and least lease of 271 s or more |
| `OneRunsAndNobodyWaits` | `SerialQueueProofs` | set of tests and priorities |
| `OneTestRuns`: `Spec => []OneRunningTest` | `QueueProofs` | number of sessions, clients, tests, pairs, any SPRT |
| `TheQueueNeverStalls`: `Spec => []QueueNeverStalls` | `QueueProofs` | the same |
| `StatisticsMatchResults`, `HistoryHasNoGaps` | `QueueProofs` | the same |
| `NoTransactionsDeadlock`: `Spec => []NoWaitCycle` | `QueueProofs` | the same |
| `PairsLiveTheirLife`: `Spec => PairLifecycle` (refinement of `PairLease`) | `QueueProofs` | the same |
| `TheQueueIsSerial`: `Spec => QueueIsSerial` (refinement of `SerialQueue`) | `QueueProofs` | the same |
| `TestsStartFresh`: a test that begins to run has only pairs never leased | `QueueProofs` | the same |
| `ARunningTestGoesOn`: `Spec => []RunningHasReason` | `QueueProofs` | the same, an SPRT with the three known answers |
| `VerdictsAreJustified`: `Spec => FinishIsJustified` | `QueueProofs` | the same, an SPRT with the three known answers |
| `AcceptedTestsAreStored`: `Spec => []AcceptedIsStored` | `JourneyProofs` | bodies, bounds, presets, limits, any number of requests |
| `TheCacheIsCurrent`: `Spec => []CacheIsCurrent` | `JourneyProofs` | sequence of editions, number of requests |
| `QueuedTestsAreComplete`: `Spec => []QueuedHasItsPositions` | `JourneyProofs` | the same, any stops, crashes, errors |
| `ExitCodesAreVerdicts`: `Spec => []CliExitIsVerdict` | `JourneyProofs` | number of users |
| `ShutdownsAreNoVerdicts`: `Spec => ShutdownIsNoVerdict` | `JourneyProofs` | the same |
| `ClientsAreFit`: `Spec => []AdmittedIsFit` | `JourneyProofs` | computers, options |
| `PairsCountAsPlayed`: `Spec => []CountedAsPlayed` | `JourneyProofs` | games, plies, durations, limits of `check_game` |
| `DownloadsAreWhole`: `ExportSpec => []ExportIsWhole` | `JourneyProofs` | number of sessions and games, any batch |
| `TheStoryExports`: `Spec => ExportSpec` (refinement), `DownloadsOfTheStoryAreWhole` | `JourneyProofs` | the composed system |
| `PoolNeverOverflows`, `WakeupsAreNeverLost` | `ConnectionPoolProofs` | number of threads and size of the pool |
| `ClientTyping`, `OvershootIsBounded`: `Spec => []PairsBounded` | `ClientRunnerProofs` | number of slots, pairs, tests, `--max-pairs` |
| `PairsHaveTheirEngines`: `Spec => []PlaysItsTest` | `ClientRunnerProofs` | the same |
| `NoLeaseIsLeft`: `Spec => []LeavesNoLease` | `ClientRunnerProofs` | the same |
| `StopIsNear`: after a stop every step of a thread is one of the few it has left | `ClientRunnerProofs` | the same, whatever the server does |
| `RunTyping`, `NoMutualLeak`: `Spec => []LeaksAreOneWay` | `RunProcessProofs` | number of parallel calls and sizes of data and pipes |
| `NobodySurvives`: `Spec => []GroupIsGone` | `RunProcessProofs` | the same |
| `NoOutputIsLost`: `Spec => []OutputIsWhole` | `RunProcessProofs` | the same |
| `BuildTyping` | `BuildCacheProofs` | number of processes, keys, faults, deaths |
| `CacheHoldsWholeBinaries` | `BuildCacheProofs` | the same, with one process at a time |

They assume nothing but the named `ASSUME` of each specification, which TLC
evaluates in every run, and what the last column says.  Most of it is form:
constants are finite sets, numbers, functions of the right domain, and `None` is
none of them.  What is not:

* `Constants` (`JobQueue`): every test has a pair, since `parse_test_spec` takes
  no `max_pairs` below 1 (`server/spec.cpp:126`), and the database the server
  begins with does not stall (a database begins empty, and what it can become is
  what the theorem is about).
* `SpecAssumption`: the range of an int holds the limits that the checks compare
  with, and every preset passes them.
* `HostAssumption`: a computer has finitely many processors, and they have
  numbers.
* `GamesAssumption`: games and limits are natural numbers, and what a game ends
  with is one of the endings the code tells apart.
* `SprtDecides` (`ARunningTestGoesOn`, `VerdictsAreJustified`): the decision is
  one of "accept_h1", "accept_h0" and "continue", as that of `sprt_decide` is.

The arguments:

* **Typing.** `TypeOK` is inductive.  The lemmas say what a statement makes of a
  row (`Refreshed`, `Recovered`, `Complete`, ...), and the step lemma has one
  case per action.  The one place where it is not a matter of form: the stored
  result is a value of the enum `test_result`, although the decision of the SPRT
  has other names (`VerdictIsResult`).
* **Queue, at most one runs.** `Inv` follows the advisory lock: from the choice of
  a promotion to its commit its session holds it, so that nobody else has an
  uncommitted running test, and what it saw (no test runs) stays true of the
  committed rows.
* **Queue, no stall.** `StallInv`: a session neither ends the running test nor
  queues one unless its promotion is still before it (`Unpromoted`), and once it
  has promoted it sees a running test if it sees one that waits
  (`PromotedWell`).  Between the promotion and the commit it holds the advisory
  lock, so nobody else ends or queues one either.
* **Queue, statistics.** `CountInv`: between the recount and the commit the
  session has the row of the test, every other change of a result of that test
  needs the row, so the committed results and the session's own are what it
  counted.  The history is kept by the same lock (one point at a time).
* **Queue, reasons.** `ReasonInv`: a session that writes a running test has seen
  why it goes on (`GoesOn`: a pair is open, and the decision on the counts it
  writes is "continue"), one that finishes a test why it ends (`Ends`).  The
  reasons stay true until the commit, since whoever ends a pair needs the row of
  its test.
* **Queue, no deadlock.** Each session waits only for sessions that are further on
  (`Rank`): those at rest hold no lock, then come the first refresh, a refresh
  after another one, the wait for the advisory lock, what is done under that
  lock, and the commit, which waits for nobody.  `OrderInv` is what the order
  rests on: all but the maintenance thread refresh one test and before any other
  row (`RefreshesFirst`), and a tick that promotes between two refreshes has ended
  the running test (`EndedRunning`), so that no other session can hold the row it
  needs next and wait for it.
* **Queue, refinements.** Only a commit changes what is committed, and each pair
  and test it publishes has its row lock.  For `PairLease` the step of a pair is
  read off what its transaction may do to a row (`LockedMoves`).  For
  `SerialQueue` a commit is a move with its promotion.  `SerialInv` says of each
  transaction that it moves one test (`MovesOnce`), that only a verdict writes a
  result and only `set_priority` a priority (`KeepsTheRest`, `Prioritised`), and
  that it promotes what it has chosen (`PromotesChosen`).  The choice itself is a
  step of the serial queue because whoever chooses holds the advisory lock and
  sees its own move: the statuses it chooses from are those of `Rooms`.  That no
  promotion is missing at a commit is `StallInv`.
* **Queue, fresh starts.** `FreshInv`: where a session has promoted a test (it sees
  it running, and the committed row does not run), it sees the pairs of that test as
  they were inserted, and nobody else has touched their rows: only the pairs of a
  running test are claimed, and nobody sees it run before the commit.  It is what
  `ClientRunner` takes for granted when a test starts (`TestStarts` changes no
  lease).
* **Intake.** `IntakeInv` is the types, the order of the rows (ids are given out
  upwards, and a request that may still insert has room), and one part for each
  place that remembers something: `RequestHolds` (what it has checked and
  counted), `CliHolds` (what it was answered), `CacheHolds` (the count belongs to
  the edition), `SmokeHolds` (the test it has exists, its positions are counted
  when it decides without an error, and only a stop cancels).  `Onward` is how a
  row may change at all; a verdict is final by it, which is what the exit codes
  rest on.
* **Admission.** `HostFits` is what `decide_admission` makes sure of.  Two of the fast
  cores never share a physical core, since the least of its processors stands for
  it (`OneThreadPerCore`); counting is then by bijections.  The last cores exist:
  the number of fast cores above one is injective into 0..n-1, hence onto
  (`PlacesFromTheEnd`).
* **Reports.** `SlotsInv` says of each report under way that it is `MakeResultBody`
  of the games played.  `GameIsTold` compares the report of one game with the
  game, `GameIsChecked` what `check_game` does with it, and `PairCounts` joins
  two.  The prover found that `Fair` was wrong for limits that are no whole
  seconds: the client cuts durations to seconds, so it is what is *told* that has
  to keep below the limit.
* **Story.** Each step of `Journey` is a step of `ExportSpec` or leaves its
  variables alone (`StoryStep`); so its theorem holds of the whole.
* **Lease.** With X and Y the base and the increment times the `cpu_factor`, the
  rounded limit of a pair is at most 4X + 800Y + 120,402 ms and six estimates are
  24X + 1440Y.  Where 20X + 640Y covers the constant, six estimates are enough;
  where it does not, the limit is below 270,905 ms and the least lease is.  (The
  default of `CAPI_LEASE_TTL_MIN_S` is 600; with the 1 that the configuration
  also allows, a lease of a fast test ends while its pair is played: the queue
  then plays it again, `PairLifecycle` holds, and the late result is refused.)
* **Serial queue.** The invariant is the type of the statuses with `OneRuns` and
  `NobodyWaits`, which are inductive together: a promotion starts from statuses
  in which nothing runs, and leaves something running or nothing that waits
  (`MovingOn`).  Other moves make no test run or wait and end none that runs, and
  a choice, or giving it up, changes no status.
* **Downloads.** `ExportInv` adds to `ExportIsWhole` that whatever was committed
  when a `.pgn` began and is not beyond the cursor has been sent.  It is kept
  because a batch has no gaps (`LowestHasNoGaps`): with a game it has every
  committed one between the cursor and that game.  And a batch of games that
  remain is not empty (`LowestOfSome`, from the least element of a set of
  numbers), so an empty batch means the end.
* **Pool.** `PoolInv` is the types, `PoolAccounts` and `NoLostWakeup`: the three
  are inductive only together, since a wakeup is owed for the room that the
  accounts leave.  Counting needs `AddOne` and `RemoveOne`: a step moves one
  thread or one connection from one set to another.  `NoLostWakeup` is kept
  because each step that frees a connection or a place also wakes a sleeper, or
  there is none.
* **Overshoot.** `PairsBounded` is not inductive.  `LimitInv` counts the slots
  that have passed the limit (`Spent`): `done` is at most `MaxPairs - 1` plus
  their number once the limit is met, and a slot that is spent counts no more.
  `StartsAtZero` covers the time before the client registers.
* **Engines and leases.** `PlaysItsTest` needs that only the comparison after a
  claim leads to "playing".  For `LeavesNoLease`, `LeaseInv` says that while no
  call has failed, each lease the server would honour has a slot between its claim
  and its answer (`LeasesAreHeld`); that tests become active in order, so that a
  test that starts finds no lease of its own (`LeasedInTime`); and that no slot is
  busy while the main thread is not up, so an end in order, which joins the slots,
  leaves nobody to hold a lease.
* **Stop.** `StopIsNear` is the half of `StopEnds` that needs no fairness.
  `SlotWork` and `MainWork` number what a thread can still do once `stop` is set:
  at most 14 steps for a slot that is about to claim, the three further attempts
  of `submit_with_retry` and the sleeps between them included, and at most 6 for
  the main thread.  Each step of a thread makes its number smaller, nobody else's
  step makes it larger, and `stop` stays set until the client has ended.  That
  a step is possible and taken while the number is not 0 is `ENABLED` and
  fairness, and stays with TLC.
* **No mutual leak.** A descriptor without close-on-exec belongs to a call that
  has not forked (`ExposedEarly`), so what a program inherits belongs to a call
  that forks *later* than its own: of two programs only one can hold the other's
  pipes.  `LeakInv` is `OneWay` (of any two
  programs at most one keeps ends of the other) and `Unforked` (nothing runs
  before the fork).
* **Nobody survives.** The kill before the `setpgid` may find nobody; the second
  one, after the `waitpid`, finds what is left, because the program's own
  process is dead by then and no member of the group can be created outside of
  it.  `GoneInv` follows that through `Reap`, `KillsAgain` and `Return`.
* **No output lost.** `WholeInv`: whoever may write has the end since before the
  fork (`WritersHold`), a fork copies open ends only and an exec keeps only what
  the fork copied (`OpensOnly`), so an end of file stays one (`EofStays`) from the
  poll that saw it through the read to the return.
* **Cache.** Between `Clear` and `Install` the one process has `{key}.tmp` for
  itself.  `Numbered` (directories are numbered in the order of their creation)
  makes a fresh directory different from the one any orphan works in;
  `NoStrangers` says no orphaned make is in it; `Progress` follows the binary
  from "not there" through "linked by my make" to "whole when my make ended
  well".  The conjunction `SoloInv` is inductive and was first checked with TLC.

Only model-checked: the liveness properties (`LeasesEnd`, `TestsEnd`,
`QuietPoolDrains`, `StopEnds`, `SubmitEnds`, `BanEnds`, `CallsEnd`,
`BuildsInTheEnd`, `EveryTestIsJudged`, `ShutdownEnds`), which need fairness and
`ENABLED`, out of the prover's reach, and the absence of deadlocks of the whole
system.  Of `StopEnds` the safety half is a theorem (`StopIsNear`).  Every invariant and every action property of the passing runs is a
theorem, `CachedIsWhole` with one process at a time, as its run is.

## 5. What the runs found

1. **`queue_stop`.**  `promote_next_test` chooses a test in a subquery and then
   waits for its row.  When a stop of that test commits meanwhile, the update
   overwrites `stopped` with `running` (`server/test_lifecycle.cpp:138`).
   `server/test_lifecycle.hpp:20` says a queued test is promoted, serialised by
   the advisory lock; `stop_test` does not take that lock before the row.
2. **`run_leak`.**  `pipe()` and the close-on-exec flag are separate calls
   (`common/process.cpp:27`): a fork of another thread in between hands the ends
   to another program, which `process.cpp:28` says must not happen.  The
   invariant `LeaksAreOneWay` bounds the damage: nobody waits for ever.
3. **`run_cancel`.**  The child makes its own process group, so a kill by the
   group right after the fork finds nobody (`common/process.cpp:104`), its
   failure is not looked at, and the wait that follows has no limit, against
   `process.hpp:16`.

A remark that is not a finding: with two processes in one work directory TLC
violates `CachedIsWhole`.  One process removes and recreates `{key}.tmp` under
the other, whose `make` then takes the partial binary for up to date, and
renames it.  Nothing in the code says that a work directory may be shared, and
the run has one process at a time; but the default work directory of two clients
of one user is the same.

Other remarks, of things no text of the repository decides:

* `default_slots` is documented as limited to what the mode allows
  (`client/topology.hpp:48`); the code limits it only without affinity on an
  asymmetric Mac.  Elsewhere a quarter of the processors may be more than the
  fast cores, and the client refuses its own default.
* `priority` is the one integer of a body without a range: a value beyond an int
  wraps (`server/spec.cpp:129`) and is stored wrapped.
* A build that fails for a passing reason, such as GitHub out of reach, makes its
  test `invalid` for good (`server/smoke.cpp:86`).
* A program that gives up waiting (`cli/main.cpp:72`) says nothing of the test,
  which may be created all the same.

## 6. Not modelled, and why

* Floating point: GSPRT, Elo, pentanomial variance.  `SprtDecide` is a parameter,
  and the theorems hold for any (those on verdicts for any that answers with one
  of its three decisions).
* Parsing and presentation: JSON, the characters of refs, names and FENs,
  configuration, HTML, CSV, gzip, the tables the command line prints, the
  migrations' script.
* Read-only operations: `active_test` on the server, reports.  `heartbeat` only
  writes `last_seen`, which nothing modelled reads.
* In `RunProcess`: CPU affinity, the cap on the output, reuse of process ids, a
  program that closes its output and runs on.
* In `ClientRunner`: a 4xx answer to a submit other than the ones the protocol
  gives, and the steps of `main` before the registration.
* In `BuildCache`: an older Makefile that names the binary after its version
  (another name for the same file) and a configured fastchess (no build).
* Which positions of a book are sampled and which pair gets which: a function of
  the seed over 64-bit arithmetic, without state.
* The files under `/sys` and the calls of macOS that `ClientHost`'s machines are
  read from.

## 7. Plan

Next, in this order:

1. The thinning of the history and the JSON reports, as functions over a small
   table.
2. The safety halves of the other liveness properties, as `StopIsNear` is of
   `StopEnds`: measures for a drained pool and for a run of a program.
