----------------------------- MODULE QueueProofs -----------------------------
(***************************************************************************)
(* What the queue guarantees, for every number of workers, clients, tests  *)
(* and pairs: the invariants that its transactions keep between them.      *)
(*                                                                         *)
(* Most of them speak of what one session sees: the committed rows and the *)
(* rows that it has written under its locks.  A step changes what its own  *)
(* session sees, and a commit shows the others what it published: the      *)
(* proofs first reduce the steps of the model to the few kinds that differ *)
(* in this respect, and then treat each kind once.                         *)
(***************************************************************************)
EXTENDS JobQueueProofs

Early == {"absent", "validating"}
Resting == {"idle", "pairLock", "smoke"}
Over == {"completed", "discarded"}

Locks(s, t) == \E l \in testLocks[t] : l.by = s

\* The statuses that a transaction may have given to a test of status st.
Becoming(st) ==
    CASE st = "validating" -> {"validating", "invalid", "queued", "running", "stopped"}
      [] st = "queued" -> {"queued", "running", "stopped"}
      [] st = "running" -> {"running", "finished", "stopped"}
      [] st = "stopped" -> {"stopped", "running"}
      [] st \in {"invalid", "finished"} -> {st}
      [] OTHER -> {}

-----------------------------------------------------------------------------
(* The committed rows and the locks. *)

\* Row locks of two sessions that are held together do not conflict.
LocksExclude ==
    \A t \in Tests : \A l, k \in testLocks[t] : l.by # k.by => ~Conflicts(l.mode, k.mode)

\* The pairs of a test are inserted when it joins the queue.
EarlyHasNoPairs ==
    \A p \in Pairs : test[TestOf[p]].status \in Early => pair[p] = NoPair
StartedHasPairs ==
    \A p \in Pairs : test[TestOf[p]].status \in {"queued", "running", "finished"} =>
        pair[p].status # "absent"

\* Nobody has touched the pairs of a test that waits.
QueuedIsFresh ==
    \A p \in Pairs : test[TestOf[p]].status = "queued" => pair[p] = NewPair /\ pairLock[p] = None

CommittedInv == LocksExclude /\ EarlyHasNoPairs /\ StartedHasPairs /\ QueuedIsFresh
                /\ OneRunningTest

-----------------------------------------------------------------------------
(* A session. *)

\* Between transactions, while it waits for its pair and while the engines are
\* built, a session holds no lock.
RestsFree(s) ==
    tx[s].at \in Resting =>
        /\ advisory # s
        /\ \A p \in Pairs : pairLock[p] # s
        /\ \A t \in Tests : ~Locks(s, t)

Shape(s) ==
    /\ tx[s].at \in Resting \cup {"commit"} => tx[s].todo = {}
    /\ tx[s].at = "pairLock" => tx[s].op = "submit"
    /\ tx[s].at = "smoke" => tx[s].op = "smoke"
    /\ tx[s].op = "smoke" => s = Smoke
    /\ tx[s].at = "take" => advisory = s

Written(s) ==
    \A t \in Tests : WritesTest(s, t) => testNew[t].status \in Becoming(test[t].status)

\* What a session did with a pair that it locks.
Created(s, p) ==
    /\ pair[p].status = "absent" /\ pairNew[p] = NewPair
    /\ WritesTest(s, TestOf[p]) /\ testNew[TestOf[p]].status \notin Early
Claimed(s, p) == pair[p].status = "pending" /\ pairNew[p].status = "leased"
Requeued(s, p) == pair[p].status = "leased" /\ pairNew[p].status = "pending"
\* A pair that is over has its test refreshed before the commit.
Ended(s, p) ==
    /\ pair[p].status = "leased" /\ pairNew[p].status \in Over
    /\ pairNew[p].status = "completed" => tx[s].p = p
    /\ TestOf[p] \in tx[s].todo \/ WritesTest(s, TestOf[p])

LockedPairs(s) ==
    \A p \in Pairs : pairLock[p] = s =>
        Created(s, p) \/ Claimed(s, p) \/ Requeued(s, p) \/ Ended(s, p)

\* As StartedHasPairs and QueuedIsFresh, for the tests that the session wrote
\* and the one that it chose to promote.
SeesStarted(s) ==
    \A p \in Pairs :
        WritesTest(s, TestOf[p]) /\ testNew[TestOf[p]].status \in {"queued", "running", "finished"}
            => PairSeen(s, p).status # "absent"

Untouched(s, p) == PairSeen(s, p) = NewPair /\ pairLock[p] \in {None, s}
SeesFresh(s) ==
    \A p \in Pairs :
        WritesTest(s, TestOf[p]) /\ testNew[TestOf[p]].status = "queued" => Untouched(s, p)

ChoosesFresh(s) ==
    tx[s].at = "take" =>
        /\ \/ TestSeen(s, tx[s].t).status = "queued"
           \/ ~WritesTest(s, tx[s].t) /\ test[tx[s].t].status = "stopped"
        /\ \A p \in Pairs : TestOf[p] = tx[s].t => Untouched(s, p)

\* Tests are refreshed for a pair that ended, and only once; the smoke worker
\* refreshes the test that it has just queued.
TodoHasReason(s) ==
    \A t \in tx[s].todo :
        IF tx[s].op = "smoke"
        THEN /\ tx[s].todo = {t} /\ tx[s].at = "refresh"
             /\ WritesTest(s, t) /\ test[t].status = "validating" /\ testNew[t].status = "queued"
        ELSE /\ ~WritesTest(s, t)
             /\ \E p \in Pairs : TestOf[p] = t /\ pairLock[p] = s /\ pairNew[p].status \in Over

\* Only the holder of the advisory lock makes a test run, and only when it sees
\* no other.
PromotesAlone(s) ==
    /\ tx[s].at = "take" => \A t \in Tests : TestSeen(s, t).status # "running"
    /\ \A t \in Tests : WritesTest(s, t) /\ testNew[t].status = "running"
                        /\ test[t].status # "running" => advisory = s
    /\ \A t, u \in Tests : TestSeen(s, t).status = "running" /\ TestSeen(s, u).status = "running"
                           => t = u

SessionInv(s) ==
    /\ RestsFree(s) /\ Shape(s) /\ Written(s) /\ LockedPairs(s)
    /\ SeesStarted(s) /\ SeesFresh(s) /\ ChoosesFresh(s)
    /\ TodoHasReason(s) /\ PromotesAlone(s)

Inv == TypeOK /\ CommittedInv /\ \A s \in Sessions : SessionInv(s)

-----------------------------------------------------------------------------
(* Row locks. *)

\* A test row has one writer.
LEMMA OneWriter ==
    ASSUME LocksExclude, NEW s, NEW r, NEW t \in Tests, WritesTest(s, t), WritesTest(r, t), TypeOK
    PROVE  s = r
<1>1. PICK l \in testLocks[t] : l.by = s /\ l.mode # "KeyShare"
  BY DEF WritesTest
<1>2. PICK k \in testLocks[t] : k.by = r /\ k.mode # "KeyShare"
  BY DEF WritesTest
<1>3. l.mode \in LockModes /\ k.mode \in LockModes
  BY DEF TypeOK
<1>4. Conflicts(l.mode, k.mode)
  BY <1>1, <1>2, <1>3 DEF LockModes, Conflicts
<1>5. QED
  BY <1>1, <1>2, <1>4 DEF LocksExclude

LEMMA LockEffect ==
    ASSUME TypeOK, LocksExclude, NEW s \in Sessions, NEW t \in Tests, NEW m \in LockModes,
           LockTest(s, t, m)
    PROVE  /\ \A r \in Sessions, u \in Tests : Locks(r, u)' <=> Locks(r, u) \/ (r = s /\ u = t)
           /\ \A r \in Sessions, u \in Tests :
                WritesTest(r, u)' <=> WritesTest(r, u) \/ (r = s /\ u = t /\ m # "KeyShare")
           /\ m # "KeyShare" => \A r \in Sessions \ {s} : ~WritesTest(r, t)
           /\ LocksExclude'
<1> DEFINE new == [by |-> s, mode |-> m]
<1>1. \A u \in Tests : testLocks'[u] = IF u = t THEN testLocks[u] \cup {new} ELSE testLocks[u]
  BY DEF LockTest, TypeOK
<1>2. \A l \in testLocks[t] : l.by # s => ~Conflicts(l.mode, m)
  BY DEF LockTest, Blocking
<1>3. new.by = s /\ new.mode = m
  OBVIOUS
<1> HIDE DEF new
<1>4. \A r \in Sessions, u \in Tests : Locks(r, u)' <=> Locks(r, u) \/ (r = s /\ u = t)
  BY <1>1, <1>3 DEF Locks
<1>5. \A r \in Sessions, u \in Tests :
         WritesTest(r, u)' <=> WritesTest(r, u) \/ (r = s /\ u = t /\ m # "KeyShare")
  BY <1>1, <1>3 DEF WritesTest
<1>6. ASSUME m # "KeyShare", NEW r \in Sessions \ {s} PROVE ~WritesTest(r, t)
  <2>1. \A l \in testLocks[t] : l.mode \in LockModes
    BY DEF TypeOK
  <2>2. \A n \in LockModes : n # "KeyShare" => Conflicts(n, m)
    BY <1>6 DEF LockModes, Conflicts
  <2>3. QED
    BY <1>2, <2>1, <2>2 DEF WritesTest
<1>7. LocksExclude'
  <2>1. \A n, k : Conflicts(n, k) <=> Conflicts(k, n)
    BY DEF Conflicts
  <2>2. SUFFICES ASSUME NEW u \in Tests, NEW l \in testLocks'[u], NEW k \in testLocks'[u],
                        l.by # k.by
                 PROVE  ~Conflicts(l.mode, k.mode)
    BY DEF LocksExclude, Conflicts
  <2>3. CASE l \in testLocks[u] /\ k \in testLocks[u]
    BY <2>2, <2>3 DEF LocksExclude
  <2>4. CASE u = t /\ l = new
    <3>1. k \in testLocks[t] /\ k.by # s
      BY <1>1, <1>3, <2>2, <2>4
    <3>2. QED
      BY <1>2, <1>3, <2>1, <2>4, <3>1
  <2>5. CASE u = t /\ k = new
    <3>1. l \in testLocks[t] /\ l.by # s
      BY <1>1, <1>3, <2>2, <2>5
    <3>2. QED
      BY <1>2, <1>3, <2>5, <3>1
  <2>6. QED
    BY <1>1, <2>2, <2>3, <2>4, <2>5
<1>8. QED
  BY <1>4, <1>5, <1>6, <1>7

LEMMA ReleaseEffect ==
    ASSUME TypeOK, LocksExclude, NEW s \in Sessions, Release(s)
    PROVE  /\ \A r \in Sessions, u \in Tests : Locks(r, u)' <=> Locks(r, u) /\ r # s
           /\ \A r \in Sessions, u \in Tests : WritesTest(r, u)' <=> WritesTest(r, u) /\ r # s
           /\ \A p \in Pairs : pairLock'[p] = IF pairLock[p] = s THEN None ELSE pairLock[p]
           /\ advisory' = IF advisory = s THEN None ELSE advisory
           /\ LocksExclude'
<1>1. \A u \in Tests : testLocks'[u] = {l \in testLocks[u] : l.by # s}
  BY DEF Release
<1>2. QED
  BY <1>1 DEF Release, Locks, WritesTest, LocksExclude, Conflicts

LEMMA SameLocks ==
    ASSUME testLocks' = testLocks
    PROVE  /\ \A r \in Sessions, u \in Tests : Locks(r, u)' <=> Locks(r, u)
           /\ \A r \in Sessions, u \in Tests : WritesTest(r, u)' <=> WritesTest(r, u)
           /\ LocksExclude => LocksExclude'
BY DEF Locks, WritesTest, LocksExclude, Conflicts

-----------------------------------------------------------------------------
(* The kinds of steps. *)

HoldsNothing(r) ==
    /\ advisory # r
    /\ \A p \in Pairs : pairLock[p] # r
    /\ \A t \in Tests : ~Locks(r, t)

\* What the other sessions do and hold stays, and the rows under their locks.
OthersKeep(r) ==
    \A s \in Sessions \ {r} :
        /\ tx'[s] = tx[s]
        /\ advisory' = s <=> advisory = s
        /\ \A p \in Pairs : /\ pairLock'[p] = s <=> pairLock[p] = s
                            /\ pairLock[p] = s => pairNew'[p] = pairNew[p]
        /\ \A t \in Tests : /\ Locks(s, t)' <=> Locks(s, t)
                            /\ WritesTest(s, t)' <=> WritesTest(s, t)
                            /\ WritesTest(s, t) => testNew'[t] = testNew[t]

\* A statement of r publishes nothing.
Statement(r) ==
    /\ pair' = pair /\ test' = test
    /\ OthersKeep(r) /\ LocksExclude'
    /\ \A p \in Pairs : pairLock[p] = None /\ pairLock'[p] # None =>
         pair[p].status = "leased" \/ test[TestOf[p]].status \in {"running", "validating"}

\* r is at rest afterwards.
Rests(r) ==
    /\ Statement(r) /\ HoldsNothing(r)'
    /\ tx'[r].at \in Resting /\ tx'[r].todo = {}
    /\ tx'[r].at = "pairLock" => tx'[r].op = "submit"
    /\ tx'[r].at = "smoke" => tx'[r].op = "smoke"
    /\ tx'[r].op = "smoke" => r = Smoke

\* r begins with pairs: it claims them, returns them or ends them.
Claims(p) ==
    /\ pair[p].status = "pending" /\ test[TestOf[p]].status = "running"
    /\ \E c \in Clients : pairNew'[p] = Lease(pair[p], c)
Requeues(p) == pair[p].status = "leased" /\ pairNew'[p] = Requeue(pair[p])
Completes(r, p) ==
    /\ pair[p].status = "leased"
    /\ \E o \in Outcomes : pairNew'[p] = Complete(pair[p], o, pair[p].leasedTo)
    /\ tx'[r].p = p /\ tx'[r].todo = {TestOf[p]}
Discards(r, p) ==
    /\ pair[p].status = "leased" /\ pair[p].due /\ pair[p].attempts >= MaxAttempts
    /\ pairNew'[p] = [pair[p] EXCEPT !.status = "discarded"]
    /\ TestOf[p] \in tx'[r].todo

TakesPairs(r) ==
    /\ Statement(r) /\ HoldsNothing(r) /\ advisory' # r
    /\ tx'[r].at \in {"refresh", "commit"}
    /\ tx'[r].op \in {"claim", "submit", "abandon", "recover"}
    /\ tx'[r].at = "commit" => tx'[r].todo = {}
    /\ \A t, u \in tx'[r].todo : t # u => r = Maintenance
    /\ \A t \in Tests : ~WritesTest(r, t)'
    /\ \A p \in Pairs : pairLock'[p] = r =>
         /\ pairLock[p] = None
         /\ Claims(p) \/ Requeues(p) \/ Completes(r, p) \/ Discards(r, p)
    /\ \A t \in tx'[r].todo : \E p \in Pairs :
         TestOf[p] = t /\ pairLock'[p] = r /\ pairNew'[p].status \in Over

\* r begins with the row of one test.
Stops(r, t) ==
    /\ test[t].status \in {"validating", "queued", "running"}
    /\ testNew'[t] = WithStatus(test[t], "stopped")
    /\ tx'[r].at = AfterStop(t) /\ tx'[r].op = "stop"
Prioritises(r, t) ==
    /\ test[t].status \in {"validating", "queued"}
    /\ \E priority \in Priorities : testNew'[t] = WithPriority(test[t], priority)
    /\ tx'[r].at = "commit" /\ tx'[r].op = "priority" /\ "priority" \in Scenario
Fails(r, t) ==
    /\ test[t].status = "validating"
    /\ testNew'[t] = WithStatus(test[t], "invalid")
    /\ tx'[r].at = "commit" /\ tx'[r].op = "smoke" /\ r = Smoke

WritesOne(r, t) ==
    /\ Statement(r) /\ HoldsNothing(r) /\ advisory' # r /\ r # Maintenance
    /\ tx'[r].todo = {}
    /\ \A p \in Pairs : pairLock'[p] # r
    /\ \A u \in Tests : WritesTest(r, u)' <=> u = t
    /\ Stops(r, t) \/ Prioritises(r, t) \/ Fails(r, t)

\* The smoke worker queues the test t.
Passes(t) ==
    /\ Statement(Smoke) /\ HoldsNothing(Smoke) /\ advisory' # Smoke
    /\ test[t].status = "validating" /\ testNew'[t] = WithStatus(test[t], "queued")
    /\ \A u \in Tests : WritesTest(Smoke, u)' <=> u = t
    /\ \A p \in Pairs : pairLock'[p] = Smoke <=> TestOf[p] = t
    /\ \A p \in Pairs : TestOf[p] = t => pairNew'[p] = NewPair
    /\ tx'[Smoke].at = "refresh" /\ tx'[Smoke].op = "smoke" /\ tx'[Smoke].todo = {t}

\* r writes the row of t, beside what it has done before.
WritesRow(r, t) ==
    /\ Statement(r)
    /\ pairLock' = pairLock /\ pairNew' = pairNew /\ advisory' = advisory
    /\ \A u \in Tests : WritesTest(r, u)' <=> WritesTest(r, u) \/ u = t
    /\ \A u \in Tests \ {t} : testNew'[u] = testNew[u]
    /\ \A s \in Sessions \ {r} : ~WritesTest(s, t)

Refreshes(r, t) ==
    /\ WritesRow(r, t)
    /\ tx[r].at = "refresh" /\ t \in tx[r].todo
    /\ testNew'[t] = Refreshed(r, t)
    /\ tx'[r] = WithTodo(tx[r], AfterRefresh(r, t), tx[r].todo \ {t})

Promotes(r, t) ==
    /\ WritesRow(r, t)
    /\ tx[r].at = "take" /\ t = tx[r].t
    /\ testNew'[t] = WithStatus(TestSeen(r, t), "running")
    /\ tx'[r] = At(tx[r], AfterPromotion(r))

\* r takes the advisory lock, or has it.
Serialises(r) ==
    /\ Statement(r)
    /\ pairLock' = pairLock /\ pairNew' = pairNew /\ testNew' = testNew
    /\ \A t \in Tests : WritesTest(r, t)' <=> WritesTest(r, t)
    /\ advisory \in {None, r} /\ advisory' = r
    /\ tx[r].at = "promote"
PromotesNone(r) ==
    /\ Serialises(r)
    /\ SeenAs(r, "queued") = {} \/ SeenAs(r, "running") # {}
    /\ tx'[r] = At(tx[r], AfterPromotion(r))
Chooses(r, t) ==
    /\ Serialises(r)
    /\ SeenAs(r, "running") = {} /\ t \in BestQueued(r)
    /\ tx'[r] = WithChoice(tx[r], "take", t)

\* r publishes what it sees.
Publishes(r) ==
    /\ OthersKeep(r) /\ LocksExclude' /\ HoldsNothing(r)'
    /\ tx[r].at = "commit"
    /\ \A p \in Pairs : pair'[p] = PairSeen(r, p)
    /\ \A t \in Tests : test'[t] = TestSeen(r, t)
    /\ pairNew' = pairNew /\ testNew' = testNew
    /\ \A p \in Pairs : pairLock'[p] = IF pairLock[p] = r THEN None ELSE pairLock[p]
    /\ tx'[r].at \in {"idle", "promote"} /\ tx'[r].todo = {}
    /\ tx'[r].op \notin {"smoke", "priority"}

\* No session takes part.
Unseen ==
    /\ pairLock' = pairLock /\ advisory' = advisory /\ tx' = tx /\ LocksExclude'
    /\ \A s \in Sessions, t \in Tests : /\ Locks(s, t)' <=> Locks(s, t)
                                        /\ WritesTest(s, t)' <=> WritesTest(s, t)
Expires(p) ==
    /\ Unseen /\ test' = test /\ testNew' = testNew
    /\ pairLock[p] = None /\ pair[p].status = "leased"
    /\ pair'[p] = Late(pair[p])
    /\ \A q \in Pairs \ {p} : pair'[q] = pair[q] /\ pairNew'[q] = pairNew[q]
Inserts(t, priority) ==
    /\ Unseen /\ pair' = pair /\ pairNew' = pairNew
    /\ test[t].status = "absent"
    /\ test'[t] = WithPriority(WithStatus(test[t], "validating"), priority)
    /\ \A u \in Tests \ {t} : test'[u] = test[u] /\ testNew'[u] = testNew[u]
Stutters ==
    Unseen /\ pair' = pair /\ pairNew' = pairNew /\ test' = test /\ testNew' = testNew

StepKind ==
    \/ \E r \in Sessions : Rests(r) \/ TakesPairs(r) \/ PromotesNone(r) \/ Publishes(r)
    \/ \E r \in Sessions, t \in Tests :
         WritesOne(r, t) \/ Refreshes(r, t) \/ Promotes(r, t) \/ Chooses(r, t)
    \/ \E t \in Tests : Passes(t)
    \/ \E p \in Pairs : Expires(p)
    \/ \E t \in Tests, priority \in Priorities : Inserts(t, priority)
    \/ Stutters

-----------------------------------------------------------------------------
(* Every step is of one of the kinds. *)

LEMMA SessionAfter ==
    ASSUME TypeOK, NEW s \in Sessions, NEW r, Becomes(s, r)
    PROVE  tx'[s] = r /\ \A u \in Sessions \ {s} : tx'[u] = tx[u]
BY DEF Becomes, TypeOK

LEMMA Fields ==
    ASSUME NEW r \in Txs
    PROVE  /\ \A step : /\ At(r, step).at = step /\ At(r, step).op = r.op /\ At(r, step).p = r.p
                        /\ At(r, step).t = r.t /\ At(r, step).todo = r.todo
           /\ \A step, todo : /\ WithTodo(r, step, todo).at = step
                              /\ WithTodo(r, step, todo).op = r.op
                              /\ WithTodo(r, step, todo).p = r.p
                              /\ WithTodo(r, step, todo).t = r.t
                              /\ WithTodo(r, step, todo).todo = todo
           /\ \A step, t : /\ WithChoice(r, step, t).at = step /\ WithChoice(r, step, t).op = r.op
                           /\ WithChoice(r, step, t).p = r.p /\ WithChoice(r, step, t).t = t
                           /\ WithChoice(r, step, t).todo = r.todo
BY DEF At, WithTodo, WithChoice, Txs

LEMMA StartingFields ==
    ASSUME NEW op \in Ops
    PROVE  Starting(op).at = "idle" /\ Starting(op).op = op /\ Starting(op).todo = {}
BY DEF Starting, Idle

LEMMA IdleFields == Idle.at = "idle" /\ Idle.op = "none" /\ Idle.todo = {}
BY DEF Idle

LEMMA WorkersAreNotTheOthers ==
    /\ \A w \in Workers : w # Smoke /\ w # Maintenance /\ w \in Sessions
    /\ Maintenance # Smoke /\ None \notin Sessions
BY Constants DEF Sessions

\* A session that is at rest and locks nothing with its statement keeps nothing.
LEMMA RestStatement ==
    ASSUME TypeOK, LocksExclude, NEW r \in Sessions, RestsFree(r), tx[r].at \in Resting,
           UNCHANGED rows, advisory' = advisory, NEW new, Becomes(r, new),
           new.at \in Resting, new.todo = {},
           new.at = "pairLock" => new.op = "submit",
           new.at = "smoke" => new.op = "smoke", new.op = "smoke" => r = Smoke
    PROVE  Rests(r)
<1>1. testLocks' = testLocks /\ pair' = pair /\ test' = test /\ pairLock' = pairLock
      /\ pairNew' = pairNew /\ testNew' = testNew
  BY DEF rows
<1>2. Statement(r)
  BY <1>1, SameLocks, SessionAfter DEF Statement, OthersKeep
<1>3. HoldsNothing(r)'
  BY <1>1, SameLocks DEF RestsFree, HoldsNothing
<1>4. QED
  BY <1>2, <1>3, SessionAfter DEF Rests

\* A statement that locks pairs and no test.
LEMMA PairStatement ==
    ASSUME TypeOK, LocksExclude, NEW r \in Sessions, NEW S \in SUBSET Pairs, NEW new,
           \A p \in S : pairLock[p] = None,
           \A p \in S : pair[p].status = "leased" \/ test[TestOf[p]].status = "running",
           pairLock' = [p \in Pairs |-> IF p \in S THEN r ELSE pairLock[p]],
           \A p \in Pairs \ S : pairNew'[p] = pairNew[p],
           Becomes(r, new),
           UNCHANGED <<pair, test, testNew, testLocks, advisory>>
    PROVE  Statement(r)
<1>1. None \notin Sessions
  BY WorkersAreNotTheOthers
<1>2. \A s \in Sessions \ {r}, p \in Pairs :
        /\ pairLock'[p] = s <=> pairLock[p] = s
        /\ pairLock[p] = s => pairNew'[p] = pairNew[p]
  BY <1>1
<1>3. OthersKeep(r)
  BY <1>2, SameLocks, SessionAfter DEF OthersKeep
<1>4. QED
  BY <1>3, SameLocks DEF Statement

\* A statement that locks a test and no pair.
LEMMA TestStatement ==
    ASSUME TypeOK, LocksExclude, NEW r \in Sessions, NEW t \in Tests, NEW row, NEW new,
           NEW m \in {"NoKeyUpdate", "ForUpdate"}, LockTest(r, t, m),
           testNew' = [testNew EXCEPT ![t] = row],
           Becomes(r, new),
           UNCHANGED <<pair, pairNew, pairLock, test, advisory>>
    PROVE  /\ WritesRow(r, t)
           /\ testNew'[t] = row /\ tx'[r] = new
<1>1. m \in LockModes /\ m # "KeyShare"
  BY DEF LockModes
<1>2. /\ \A s \in Sessions, u \in Tests : Locks(s, u)' <=> Locks(s, u) \/ (s = r /\ u = t)
      /\ \A s \in Sessions, u \in Tests :
           WritesTest(s, u)' <=> WritesTest(s, u) \/ (s = r /\ u = t)
      /\ \A s \in Sessions \ {r} : ~WritesTest(s, t)
      /\ LocksExclude'
  BY <1>1, LockEffect
<1>3. testNew'[t] = row /\ \A u \in Tests \ {t} : testNew'[u] = testNew[u]
  BY DEF TypeOK
<1>4. OthersKeep(r)
  BY <1>2, <1>3, SessionAfter DEF OthersKeep
<1>5. Statement(r)
  BY <1>2, <1>4 DEF Statement
<1>6. QED
  BY <1>2, <1>3, <1>5, SessionAfter DEF WritesRow

LEMMA NoWritesWithoutLocks ==
    ASSUME NEW s, NEW t, ~Locks(s, t) PROVE ~WritesTest(s, t)
BY DEF Locks, WritesTest

\* claim_pairs, abandon_pair and recover_expired_leases.
LEMMA ClaimKind ==
    ASSUME TypeOK, LocksExclude, NEW w \in Workers, RestsFree(w), NEW c \in Clients, NEW k,
           ClaimPairs(w, c, k)
    PROVE  TakesPairs(w)
<1>1. w \in Sessions /\ w # Smoke
  BY WorkersAreNotTheOthers
<1>2. PICK t \in Tests :
        /\ test[t].status = "running"
        /\ pairNew' = [p \in Pairs |-> IF p \in Picked(t, k) THEN Lease(pair[p], c)
                                       ELSE pairNew[p]]
        /\ pairLock' = [p \in Pairs |-> IF p \in Picked(t, k) THEN w ELSE pairLock[p]]
  BY DEF ClaimPairs
<1>3. \A p \in Picked(t, k) :
        p \in Pairs /\ pairLock[p] = None /\ pair[p].status = "pending" /\ TestOf[p] = t
  BY DEF Picked, Free, PairsOf
<1>4. Becomes(w, At(Starting("claim"), "commit"))
  BY DEF ClaimPairs
<1>5. HoldsNothing(w)
  BY DEF RestsFree, HoldsNothing, ClaimPairs, Resting
<1>6. Statement(w)
  BY <1>1, <1>2, <1>3, <1>4, PairStatement, Zenon DEF ClaimPairs
<1>7. tx'[w].at = "commit" /\ tx'[w].op = "claim" /\ tx'[w].todo = {}
  BY <1>1, <1>4, SessionAfter, StartingTyped, StartingFields, Fields DEF Ops
<1>8. \A p \in Pairs : pairLock'[p] = w => pairLock[p] = None /\ Claims(p)
  BY <1>2, <1>3, <1>5 DEF Claims, HoldsNothing
<1>9. \A u \in Tests : ~WritesTest(w, u)'
  BY <1>1, <1>5, NoWritesWithoutLocks, SameLocks DEF HoldsNothing, ClaimPairs
<1>10. QED
  BY <1>5, <1>6, <1>7, <1>8, <1>9 DEF TakesPairs, HoldsNothing, ClaimPairs

LEMMA AbandonKind ==
    ASSUME TypeOK, LocksExclude, NEW w \in Workers, RestsFree(w), NEW p \in Pairs,
           NEW c \in Clients, AbandonPair(w, p, c)
    PROVE  TakesPairs(w)
<1>1. w \in Sessions /\ w # Smoke
  BY WorkersAreNotTheOthers
<1>2. /\ pairLock' = [q \in Pairs |-> IF q \in {p} THEN w ELSE pairLock[q]]
      /\ pairNew'[p] = Requeue(pair[p])
      /\ \A q \in Pairs \ {p} : pairNew'[q] = pairNew[q]
  BY DEF AbandonPair, TypeOK
<1>3. pairLock[p] = None /\ pair[p].status = "leased"
  BY DEF AbandonPair
<1>4. Becomes(w, At(Starting("abandon"), "commit"))
  BY DEF AbandonPair
<1>5. HoldsNothing(w)
  BY DEF RestsFree, HoldsNothing, AbandonPair, Resting
<1>6. Statement(w)
  BY <1>1, <1>2, <1>3, <1>4, PairStatement, Zenon DEF AbandonPair
<1>7. tx'[w].at = "commit" /\ tx'[w].op = "abandon" /\ tx'[w].todo = {}
  BY <1>1, <1>4, SessionAfter, StartingTyped, StartingFields, Fields DEF Ops
<1>8. \A q \in Pairs : pairLock'[q] = w => pairLock[q] = None /\ Requeues(q)
  BY <1>2, <1>3, <1>5 DEF Requeues, HoldsNothing
<1>9. \A u \in Tests : ~WritesTest(w, u)'
  BY <1>1, <1>5, NoWritesWithoutLocks, SameLocks DEF HoldsNothing, AbandonPair
<1>10. QED
  BY <1>5, <1>6, <1>7, <1>8, <1>9 DEF TakesPairs, HoldsNothing, AbandonPair

LEMMA RecoverKind ==
    ASSUME TypeOK, LocksExclude, RestsFree(Maintenance), RecoverExpired
    PROVE  TakesPairs(Maintenance)
<1> DEFINE m == Maintenance
           todo == TestsWithDiscards(Expired)
           new == WithTodo(Starting("recover"), IF todo # {} THEN "refresh" ELSE "commit", todo)
<1>1. m \in Sessions /\ m # Smoke
  BY WorkersAreNotTheOthers DEF Sessions
<1>2. /\ pairNew' = [p \in Pairs |-> IF p \in Expired THEN Recovered(pair[p]) ELSE pairNew[p]]
      /\ pairLock' = [p \in Pairs |-> IF p \in Expired THEN m ELSE pairLock[p]]
  BY DEF RecoverExpired
<1>3. \A p \in Expired : /\ p \in Pairs /\ pairLock[p] = None
                         /\ pair[p].status = "leased" /\ pair[p].due
  BY DEF Expired
<1>4. Becomes(m, new)
  BY DEF RecoverExpired
<1>5. HoldsNothing(m)
  BY DEF RestsFree, HoldsNothing, RecoverExpired, Resting
<1>6. Statement(m)
  BY <1>1, <1>2, <1>3, <1>4, PairStatement, Zenon DEF RecoverExpired
<1>7. /\ tx'[m].at = (IF todo # {} THEN "refresh" ELSE "commit")
      /\ tx'[m].op = "recover" /\ tx'[m].todo = todo
  BY <1>1, <1>4, SessionAfter, StartingTyped, StartingFields, Fields DEF Ops
<1>8. ASSUME NEW p \in Expired
      PROVE  /\ Requeues(p) \/ Discards(m, p)
             /\ pair[p].attempts >= MaxAttempts =>
                  pairNew'[p].status \in Over /\ TestOf[p] \in todo
  <2>1. pairNew'[p] = Recovered(pair[p]) /\ pair[p] \in PairRow
    BY <1>2, <1>3 DEF TypeOK
  <2>2. pair[p].attempts >= MaxAttempts =>
          /\ TestOf[p] \in todo
          /\ pairNew'[p] = [pair[p] EXCEPT !.status = "discarded"]
    BY <1>3, <2>1 DEF TestsWithDiscards, Recovered
  <2>3. [pair[p] EXCEPT !.status = "discarded"].status = "discarded"
    BY <2>1 DEF PairRow
  <2>4. ~(pair[p].attempts >= MaxAttempts) => pairNew'[p] = Requeue(pair[p])
    BY <2>1 DEF Recovered
  <2>5. QED
    BY <1>3, <1>7, <2>2, <2>3, <2>4 DEF Requeues, Discards, Over
<1>9. \A p \in Pairs : pairLock'[p] = m =>
        pairLock[p] = None /\ (Requeues(p) \/ Discards(m, p))
  BY <1>2, <1>3, <1>5, <1>8 DEF HoldsNothing
<1>10. \A t \in todo : \E p \in Pairs :
         TestOf[p] = t /\ pairLock'[p] = m /\ pairNew'[p].status \in Over
  BY <1>2, <1>3, <1>8 DEF TestsWithDiscards
<1>11. \A u \in Tests : ~WritesTest(m, u)'
  BY <1>1, <1>5, NoWritesWithoutLocks, SameLocks DEF HoldsNothing, RecoverExpired
<1>12. QED
  <2> HIDE DEF todo
  <2>1. /\ tx'[m].at \in {"refresh", "commit"} /\ tx'[m].op = "recover"
        /\ tx'[m].at = "commit" => tx'[m].todo = {}
    BY <1>7
  <2>2. QED
    BY <1>5, <1>6, <1>7, <1>9, <1>10, <1>11, <2>1 DEF TakesPairs, HoldsNothing, RecoverExpired

\* submit_result.
LEMMA SubmitReadKind ==
    ASSUME TypeOK, LocksExclude, NEW w \in Workers, RestsFree(w), NEW p \in Pairs,
           NEW c \in Clients, SubmitRead(w, p, c)
    PROVE  Rests(w)
<1> DEFINE new == Submission(p, c, test[TestOf[p]].status, client[c])
<1>1. new.at = "pairLock" /\ new.op = "submit" /\ new.todo = {}
  BY DEF Submission, Idle
<1>2. w \in Sessions /\ tx[w].at \in Resting /\ new.at \in Resting
  BY <1>1, WorkersAreNotTheOthers DEF SubmitRead, Resting
<1>3. Becomes(w, new)
  BY DEF SubmitRead
<1> HIDE DEF new
<1>4. QED
  BY <1>1, <1>2, <1>3, RestStatement DEF SubmitRead

LEMMA SubmitAcceptKind ==
    ASSUME TypeOK, LocksExclude, NEW w \in Workers, RestsFree(w), Shape(w),
           NEW outcome \in Outcomes, SubmitAccept(w, outcome)
    PROVE  TakesPairs(w)
<1> DEFINE p == tx[w].p
           t == TestOf[p]
<1>1. w \in Sessions /\ w # Smoke /\ tx[w] \in Txs
  BY WorkersAreNotTheOthers DEF TypeOK
<1>2. p \in Pairs /\ t \in Tests
  BY <1>1, Constants DEF SubmitAccept, Txs
<1>3. /\ pairLock' = [pairLock EXCEPT ![p] = w] /\ pairLock[p] = None
      /\ pairNew' = [pairNew EXCEPT ![p] = Complete(pair[p], outcome, pair[p].leasedTo)]
      /\ pair[p].status = "leased"
      /\ LockTest(w, t, "KeyShare") /\ Becomes(w, WithTodo(tx[w], "refresh", {t}))
      /\ pair' = pair /\ test' = test /\ testNew' = testNew /\ advisory' = advisory
  BY DEF SubmitAccept, Accepts
<1>4. HoldsNothing(w)
  BY DEF RestsFree, HoldsNothing, SubmitAccept, Resting
<1>5. tx'[w].at = "refresh" /\ tx'[w].op = tx[w].op /\ tx'[w].p = p /\ tx'[w].todo = {t}
  BY <1>1, <1>3, SessionAfter, Fields
<1>6. /\ \A s \in Sessions, u \in Tests : Locks(s, u)' <=> Locks(s, u) \/ (s = w /\ u = t)
      /\ \A s \in Sessions, u \in Tests : WritesTest(s, u)' <=> WritesTest(s, u)
      /\ LocksExclude'
  BY <1>1, <1>2, <1>3, LockEffect DEF LockModes
<1> HIDE DEF p, t
<1>7. /\ pairNew'[p] = Complete(pair[p], outcome, pair[p].leasedTo)
      /\ \A q \in Pairs \ {p} : pairNew'[q] = pairNew[q] /\ pairLock'[q] = pairLock[q]
      /\ pairLock'[p] = w
  BY <1>2, <1>3 DEF TypeOK
<1>8. OthersKeep(w)
  BY <1>1, <1>3, <1>6, <1>7, SessionAfter, WorkersAreNotTheOthers DEF OthersKeep
<1>9. Statement(w)
  BY <1>3, <1>6, <1>7, <1>8 DEF Statement
<1>10. \A q \in Pairs : pairLock'[q] = w => q = p
  BY <1>4, <1>7 DEF HoldsNothing
<1>11. Completes(w, p)
  BY <1>2, <1>3, <1>5, <1>7 DEF Completes, t, p
<1>12. pairNew'[p].status \in Over
  <2>1. pair[p] \in PairRow
    BY <1>2 DEF TypeOK
  <2>2. QED
    BY <1>7, <2>1 DEF Complete, PairRow, Over
<1>13. \A u \in Tests : ~WritesTest(w, u)'
  BY <1>1, <1>4, <1>6, NoWritesWithoutLocks DEF HoldsNothing
<1>14. tx[w].op = "submit"
  BY DEF SubmitAccept, Shape
<1>15. QED
  BY <1>2, <1>3, <1>4, <1>5, <1>7, <1>9, <1>10, <1>11, <1>12, <1>13, <1>14
  DEF TakesPairs, HoldsNothing, t

LEMMA SubmitRefuseKind ==
    ASSUME TypeOK, LocksExclude, NEW w \in Workers, RestsFree(w), SubmitRefuse(w)
    PROVE  Rests(w)
BY RestStatement, IdleFields, WorkersAreNotTheOthers DEF SubmitRefuse, Resting

\* Administration.
LEMMA StopKind ==
    ASSUME TypeOK, LocksExclude, NEW w \in Workers, RestsFree(w), NEW t \in Tests, StopTest(w, t)
    PROVE  WritesOne(w, t)
<1> DEFINE new == At(Starting("stop"), AfterStop(t))
<1>1. w \in Sessions
  BY WorkersAreNotTheOthers
<1>2. WritesRow(w, t) /\ testNew'[t] = WithStatus(test[t], "stopped") /\ tx'[w] = new
  <2> HIDE DEF new
  <2>1. Becomes(w, new)
    BY DEF StopTest, new
  <2>2. QED
    BY <1>1, <2>1, TestStatement, Zenon DEF StopTest
<1>3. new.at = AfterStop(t) /\ new.op = "stop" /\ new.todo = {}
  BY StartingTyped, StartingFields, Fields DEF Ops
<1>4. HoldsNothing(w)
  BY DEF RestsFree, HoldsNothing, StopTest, Resting
<1>5. QED
  BY <1>1, <1>2, <1>3, <1>4, NoWritesWithoutLocks, WorkersAreNotTheOthers
  DEF WritesOne, WritesRow, Stops, HoldsNothing, StopTest

LEMMA PriorityKind ==
    ASSUME TypeOK, LocksExclude, NEW w \in Workers, RestsFree(w), NEW t \in Tests,
           NEW priority \in Priorities, SetPriority(w, t, priority)
    PROVE  WritesOne(w, t)
<1> DEFINE new == At(Starting("priority"), "commit")
<1>1. w \in Sessions
  BY WorkersAreNotTheOthers
<1>2. WritesRow(w, t) /\ testNew'[t] = WithPriority(test[t], priority) /\ tx'[w] = new
  <2> HIDE DEF new
  <2>1. Becomes(w, new)
    BY DEF SetPriority, new
  <2>2. QED
    BY <1>1, <2>1, TestStatement, Zenon DEF SetPriority
<1>3. new.at = "commit" /\ new.op = "priority" /\ new.todo = {}
  BY StartingTyped, StartingFields, Fields DEF Ops
<1>4. HoldsNothing(w)
  BY DEF RestsFree, HoldsNothing, SetPriority, Resting
<1>5. QED
  BY <1>1, <1>2, <1>3, <1>4, NoWritesWithoutLocks, WorkersAreNotTheOthers
  DEF WritesOne, WritesRow, Prioritises, HoldsNothing, SetPriority

\* refresh_test and promote_next_test.
LEMMA RefreshKind ==
    ASSUME TypeOK, LocksExclude, NEW r \in Sessions, RefreshTest(r)
    PROVE  \E t \in Tests : Refreshes(r, t)
<1>1. PICK t \in Lowest(tx[r].todo) :
        /\ LockTest(r, t, RefreshMode)
        /\ testNew' = [testNew EXCEPT ![t] = Refreshed(r, t)]
        /\ Becomes(r, WithTodo(tx[r], AfterRefresh(r, t), tx[r].todo \ {t}))
  BY DEF RefreshTest
<1>2. t \in Tests /\ t \in tx[r].todo
  BY DEF Lowest, TypeOK, Txs
<1>3. /\ WritesRow(r, t) /\ testNew'[t] = Refreshed(r, t)
      /\ tx'[r] = WithTodo(tx[r], AfterRefresh(r, t), tx[r].todo \ {t})
  <2> DEFINE row == Refreshed(r, t)
             new == WithTodo(tx[r], AfterRefresh(r, t), tx[r].todo \ {t})
  <2>1. /\ Becomes(r, new) /\ LockTest(r, t, "NoKeyUpdate") /\ t \in Tests
        /\ testNew' = [testNew EXCEPT ![t] = row]
        /\ UNCHANGED <<pair, pairNew, pairLock, test, advisory>>
    BY <1>1, <1>2 DEF RefreshTest, RefreshMode
  <2> HIDE DEF row, new
  <2>2. WritesRow(r, t) /\ testNew'[t] = row /\ tx'[r] = new
    BY <2>1, TestStatement, Zenon
  <2>3. QED
    BY <2>2 DEF row, new
<1>4. QED
  BY <1>2, <1>3 DEF Refreshes, RefreshTest

LEMMA PromoteTakeKind ==
    ASSUME TypeOK, LocksExclude, NEW r \in Sessions, PromoteTake(r)
    PROVE  \E t \in Tests : Promotes(r, t)
<1>1. tx[r].t \in Tests
  BY DEF PromoteTake, TypeOK, Txs
<1>2. /\ WritesRow(r, tx[r].t)
      /\ testNew'[tx[r].t] = WithStatus(TestSeen(r, tx[r].t), "running")
      /\ tx'[r] = At(tx[r], AfterPromotion(r))
  <2> DEFINE t == tx[r].t
             row == WithStatus(TestSeen(r, t), "running")
             new == At(tx[r], AfterPromotion(r))
  <2>1. /\ Becomes(r, new) /\ LockTest(r, t, "NoKeyUpdate") /\ t \in Tests
        /\ testNew' = [testNew EXCEPT ![t] = row]
        /\ UNCHANGED <<pair, pairNew, pairLock, test, advisory>>
    BY <1>1 DEF PromoteTake, Goto
  <2> HIDE DEF t, row, new
  <2>2. WritesRow(r, t) /\ testNew'[t] = row /\ tx'[r] = new
    BY <2>1, TestStatement, Zenon
  <2>3. QED
    BY <2>2 DEF t, row, new
<1>3. QED
  BY <1>1, <1>2 DEF Promotes, PromoteTake

LEMMA AdvisoryStatement ==
    ASSUME TypeOK, LocksExclude, NEW r \in Sessions, tx[r].at = "promote", AdvisoryFree(r),
           advisory' = r, UNCHANGED rows, NEW new, Becomes(r, new)
    PROVE  Serialises(r) /\ tx'[r] = new
<1>1. testLocks' = testLocks /\ pair' = pair /\ test' = test /\ pairLock' = pairLock
      /\ pairNew' = pairNew /\ testNew' = testNew
  BY DEF rows
<1>2. advisory \in {None, r} /\ None \notin Sessions
  BY WorkersAreNotTheOthers DEF AdvisoryFree
<1>3. Statement(r)
  BY <1>1, <1>2, SameLocks, SessionAfter DEF Statement, OthersKeep
<1>4. QED
  BY <1>1, <1>2, <1>3, SameLocks, SessionAfter DEF Serialises

LEMMA PromoteNoneKind ==
    ASSUME TypeOK, LocksExclude, NEW r \in Sessions, PromoteNone(r)
    PROVE  PromotesNone(r)
BY AdvisoryStatement DEF PromoteNone, PromotesNone, Goto

LEMMA PromoteChooseKind ==
    ASSUME TypeOK, LocksExclude, NEW r \in Sessions, PromoteChoose(r)
    PROVE  \E t \in Tests : Chooses(r, t)
<1>1. PICK t \in BestQueued(r) : Becomes(r, WithChoice(tx[r], "take", t))
  BY DEF PromoteChoose
<1>2. t \in Tests
  BY DEF BestQueued, SeenAs
<1>3. Serialises(r) /\ tx'[r] = WithChoice(tx[r], "take", t)
  BY <1>1, AdvisoryStatement DEF PromoteChoose
<1>4. QED
  BY <1>2, <1>3 DEF Chooses, PromoteChoose

\* The smoke worker.
LEMMA SmokePickKind ==
    ASSUME TypeOK, LocksExclude, RestsFree(Smoke), SmokePick
    PROVE  Rests(Smoke)
<1>1. PICK t \in Tests : Becomes(Smoke, WithChoice(Starting("smoke"), "smoke", t))
  BY DEF SmokePick, Lowest, SeenAs
<1> DEFINE new == WithChoice(Starting("smoke"), "smoke", t)
<1>2. new.at = "smoke" /\ new.op = "smoke" /\ new.todo = {}
  BY StartingTyped, StartingFields, Fields DEF Ops
<1> HIDE DEF new
<1>3. Becomes(Smoke, new)
  BY <1>1 DEF new
<1>4. QED
  BY <1>2, <1>3, RestStatement, SessionsNamed DEF SmokePick, Resting

LEMMA SmokeDiscardKind ==
    ASSUME TypeOK, LocksExclude, RestsFree(Smoke), SmokeDiscard
    PROVE  Rests(Smoke)
BY RestStatement, IdleFields, SessionsNamed DEF SmokeDiscard, Resting

LEMMA SmokeFailKind ==
    ASSUME TypeOK, LocksExclude, RestsFree(Smoke), Shape(Smoke), SmokeFail
    PROVE  \E t \in Tests : WritesOne(Smoke, t)
<1> DEFINE t == tx[Smoke].t
<1>1. Smoke \in Sessions /\ tx[Smoke] \in Txs /\ t \in Tests
  BY SessionsNamed DEF SmokeFail, TypeOK, Txs
<1>2. /\ WritesRow(Smoke, t) /\ testNew'[t] = WithStatus(test[t], "invalid")
      /\ tx'[Smoke] = At(tx[Smoke], "commit")
  <2> DEFINE row == WithStatus(test[t], "invalid")
             new == At(tx[Smoke], "commit")
  <2>1. /\ Becomes(Smoke, new) /\ LockTest(Smoke, t, "ForUpdate") /\ t \in Tests
        /\ testNew' = [testNew EXCEPT ![t] = row]
        /\ UNCHANGED <<pair, pairNew, pairLock, test, advisory>>
    BY <1>1 DEF SmokeFail, Goto
  <2> HIDE DEF t, row, new
  <2>2. WritesRow(Smoke, t) /\ testNew'[t] = row /\ tx'[Smoke] = new
    BY <1>1, <2>1, TestStatement, Zenon
  <2>3. QED
    BY <2>2 DEF row, new
<1>3. /\ tx'[Smoke].at = "commit" /\ tx'[Smoke].op = "smoke" /\ tx'[Smoke].todo = {}
      /\ test[t].status = "validating"
  BY <1>1, <1>2, Fields DEF SmokeFail, Shape, StillValidating, Resting
<1>4. HoldsNothing(Smoke)
  BY DEF RestsFree, HoldsNothing, SmokeFail, Resting
<1> HIDE DEF t
<1>5. QED
  BY <1>1, <1>2, <1>3, <1>4, NoWritesWithoutLocks, WorkersAreNotTheOthers
  DEF WritesOne, WritesRow, Fails, HoldsNothing

\* The pairs that the smoke worker inserts are nobody's.
LEMMA SmokePassKind ==
    ASSUME Inv, SmokePass
    PROVE  \E t \in Tests : Passes(t)
<1> DEFINE t == tx[Smoke].t
           new == WithTodo(tx[Smoke], "refresh", {t})
<1>1. Smoke \in Sessions /\ tx[Smoke] \in Txs /\ t \in Tests
  BY SessionsNamed DEF SmokePass, Inv, TypeOK, Txs
<1>2. HoldsNothing(Smoke)
  BY <1>1 DEF Inv, SessionInv, RestsFree, HoldsNothing, SmokePass, Resting
<1>3. /\ LockTest(Smoke, t, "ForUpdate") /\ Becomes(Smoke, new)
      /\ test[t].status = "validating"
      /\ testNew' = [testNew EXCEPT ![t] = WithStatus(test[t], "queued")]
      /\ pair' = pair /\ test' = test /\ advisory' = advisory
      /\ \A p \in Pairs : pairNew'[p] = IF TestOf[p] = t THEN NewPair ELSE pairNew[p]
      /\ \A p \in Pairs : pairLock'[p] = IF TestOf[p] = t THEN Smoke ELSE pairLock[p]
  BY DEF SmokePass, StillValidating
<1>4. tx'[Smoke].at = "refresh" /\ tx'[Smoke].op = "smoke" /\ tx'[Smoke].todo = {t}
  <2>1. tx[Smoke].op = "smoke"
    BY <1>1 DEF Inv, SessionInv, Shape, SmokePass
  <2>2. QED
    BY <1>1, <1>3, <2>1, SessionAfter, Fields DEF Inv
<1>5. /\ \A s \in Sessions, u \in Tests : Locks(s, u)' <=> Locks(s, u) \/ (s = Smoke /\ u = t)
      /\ \A s \in Sessions, u \in Tests :
           WritesTest(s, u)' <=> WritesTest(s, u) \/ (s = Smoke /\ u = t)
      /\ \A s \in Sessions \ {Smoke} : ~WritesTest(s, t)
      /\ LocksExclude'
  BY <1>1, <1>3, LockEffect DEF LockModes, Inv, CommittedInv
<1> HIDE DEF t, new
<1>6. /\ \A u \in Tests \ {t} : testNew'[u] = testNew[u]
      /\ testNew'[t] = WithStatus(test[t], "queued")
  BY <1>1, <1>3 DEF Inv, TypeOK
<1>7. \A p \in Pairs : TestOf[p] = t => pairLock[p] = None
  <2> SUFFICES ASSUME NEW p \in Pairs, TestOf[p] = t, pairLock[p] # None PROVE FALSE
    OBVIOUS
  <2> DEFINE s == pairLock[p]
  <2>1. s \in Sessions \ {Smoke}
    BY <1>2 DEF Inv, TypeOK, HoldsNothing
  <2>2. pair[p].status = "absent"
    BY <1>3 DEF Inv, CommittedInv, EarlyHasNoPairs, Early, NoPair
  <2>3. Created(s, p)
    BY <2>1, <2>2 DEF Inv, SessionInv, LockedPairs, Claimed, Requeued, Ended
  <2>4. QED
    BY <1>5, <2>1, <2>3 DEF Created
<1>8. OthersKeep(Smoke)
  <2>1. \A s \in Sessions \ {Smoke}, p \in Pairs :
          /\ pairLock'[p] = s <=> pairLock[p] = s
          /\ pairLock[p] = s => pairNew'[p] = pairNew[p]
    BY <1>1, <1>3, <1>7, WorkersAreNotTheOthers
  <2>2. QED
    BY <1>1, <1>3, <1>5, <1>6, <2>1, SessionAfter DEF OthersKeep, Inv
<1>9. Statement(Smoke)
  BY <1>3, <1>5, <1>8 DEF Statement
<1>10. Passes(t)
  BY <1>1, <1>2, <1>3, <1>4, <1>5, <1>6, <1>9, NoWritesWithoutLocks DEF Passes, HoldsNothing
<1>11. QED
  BY <1>1, <1>10

\* The ends of a transaction, and the rest.
LEMMA CommitKind ==
    ASSUME TypeOK, LocksExclude, NEW r \in Sessions, Shape(r), Commit(r)
    PROVE  Publishes(r)
<1> DEFINE new == IF tx[r].op = "recover" THEN At(Starting("tick"), "promote") ELSE Idle
<1>1. Release(r) /\ Becomes(r, new)
  BY DEF Commit
<1>2. new.at \in {"idle", "promote"} /\ new.todo = {} /\ new.op \notin {"smoke", "priority"}
  <2>1. At(Starting("tick"), "promote").at = "promote"
        /\ At(Starting("tick"), "promote").todo = {} /\ At(Starting("tick"), "promote").op = "tick"
    BY StartingTyped, StartingFields, Fields DEF Ops
  <2>2. QED
    BY <2>1, IdleFields
<1> HIDE DEF new
<1>3. /\ \A s \in Sessions, u \in Tests : Locks(s, u)' <=> Locks(s, u) /\ s # r
      /\ \A s \in Sessions, u \in Tests : WritesTest(s, u)' <=> WritesTest(s, u) /\ s # r
      /\ \A p \in Pairs : pairLock'[p] = IF pairLock[p] = r THEN None ELSE pairLock[p]
      /\ advisory' = IF advisory = r THEN None ELSE advisory
      /\ LocksExclude'
  BY <1>1, ReleaseEffect
<1>4. OthersKeep(r)
  BY <1>1, <1>3, SessionAfter, WorkersAreNotTheOthers DEF OthersKeep, Commit
<1>5. HoldsNothing(r)'
  BY <1>3, WorkersAreNotTheOthers DEF HoldsNothing
<1>6. QED
  BY <1>1, <1>2, <1>3, <1>4, <1>5, SessionAfter DEF Publishes, Commit

LEMMA AbortKind ==
    ASSUME TypeOK, LocksExclude, NEW r \in Sessions, Abort(r)
    PROVE  Rests(r)
<1>1. Release(r) /\ Becomes(r, Idle) /\ pair' = pair /\ test' = test
  BY DEF Abort
<1>2. /\ \A s \in Sessions, u \in Tests : Locks(s, u)' <=> Locks(s, u) /\ s # r
      /\ \A s \in Sessions, u \in Tests : WritesTest(s, u)' <=> WritesTest(s, u) /\ s # r
      /\ \A p \in Pairs : pairLock'[p] = IF pairLock[p] = r THEN None ELSE pairLock[p]
      /\ advisory' = IF advisory = r THEN None ELSE advisory
      /\ LocksExclude'
  BY <1>1, ReleaseEffect
<1>3. \A s \in Sessions \ {r} :
        /\ \A p \in Pairs : pairLock[p] = s => pairNew'[p] = pairNew[p]
        /\ \A t \in Tests : WritesTest(s, t) => testNew'[t] = testNew[t]
  BY OneWriter DEF Abort
<1>4. OthersKeep(r)
  BY <1>1, <1>2, <1>3, SessionAfter, WorkersAreNotTheOthers DEF OthersKeep
<1>5. HoldsNothing(r)'
  BY <1>2, WorkersAreNotTheOthers DEF HoldsNothing
<1>6. Statement(r)
  BY <1>1, <1>2, <1>4 DEF Statement
<1>7. QED
  BY <1>1, <1>5, <1>6, SessionAfter, IdleFields DEF Rests, Resting

LEMMA ExpireKind ==
    ASSUME TypeOK, LocksExclude, NEW p \in Pairs, LeaseExpires(p)
    PROVE  Expires(p)
BY SameLocks DEF LeaseExpires, Expires, Unseen, TypeOK

LEMMA InsertKind ==
    ASSUME TypeOK, LocksExclude, NEW t \in Tests, NEW priority \in Priorities,
           InsertTest(t, priority)
    PROVE  Inserts(t, priority)
BY SameLocks DEF InsertTest, Inserts, Unseen, TypeOK

LEMMA StepsAreOfAKind == Inv /\ [Next]_vars => StepKind
<1> SUFFICES ASSUME Inv, [Next]_vars PROVE StepKind
  OBVIOUS
<1>1. /\ TypeOK /\ LocksExclude /\ \A s \in Sessions : RestsFree(s) /\ Shape(s)
      /\ Smoke \in Sessions /\ Maintenance \in Sessions /\ Workers \subseteq Sessions
  BY SessionsNamed DEF Inv, CommittedInv, SessionInv
<1>2. ASSUME NEW w \in Workers, Request(w) \/ SubmitRefuse(w) PROVE StepKind
  <2>1. CASE \E c \in Clients, k \in 1..Slots : ClaimPairs(w, c, k)
    BY <1>1, <2>1, ClaimKind DEF StepKind
  <2>2. CASE \E p \in Pairs, c \in Clients : SubmitRead(w, p, c) \/ AbandonPair(w, p, c)
    BY <1>1, <2>2, SubmitReadKind, AbandonKind DEF StepKind
  <2>3. CASE \E t \in Tests : StopTest(w, t)
    BY <1>1, <2>3, StopKind DEF StepKind
  <2>4. CASE \E t \in Tests, priority \in Priorities : SetPriority(w, t, priority)
    BY <1>1, <2>4, PriorityKind DEF StepKind
  <2>5. CASE SubmitRefuse(w)
    BY <1>1, <2>5, SubmitRefuseKind DEF StepKind
  <2>6. QED
    BY <1>2, <2>1, <2>2, <2>3, <2>4, <2>5 DEF Request
<1>3. ASSUME NEW w \in Workers, NEW outcome \in Outcomes, SubmitAccept(w, outcome)
      PROVE  StepKind
  BY <1>1, <1>3, SubmitAcceptKind DEF StepKind
<1>4. ASSUME NEW s \in Sessions, Continue(s) \/ Abort(s) PROVE StepKind
  <2>1. CASE RefreshTest(s)
    BY <1>1, <2>1, RefreshKind DEF StepKind
  <2>2. CASE PromoteNone(s)
    BY <1>1, <2>2, PromoteNoneKind DEF StepKind
  <2>3. CASE PromoteChoose(s)
    BY <1>1, <2>3, PromoteChooseKind DEF StepKind
  <2>4. CASE PromoteTake(s)
    BY <1>1, <2>4, PromoteTakeKind DEF StepKind
  <2>5. CASE Commit(s)
    BY <1>1, <2>5, CommitKind DEF StepKind
  <2>6. CASE Abort(s)
    BY <1>1, <2>6, AbortKind DEF StepKind
  <2>7. QED
    BY <1>4, <2>1, <2>2, <2>3, <2>4, <2>5, <2>6 DEF Continue
<1>5. ASSUME RecoverExpired PROVE StepKind
  BY <1>1, <1>5, RecoverKind DEF StepKind
<1>6. ASSUME SmokePick \/ SmokeDiscard \/ SmokeFail \/ SmokePass PROVE StepKind
  BY <1>1, <1>6, SmokePickKind, SmokeDiscardKind, SmokeFailKind, SmokePassKind DEF StepKind
<1>7. ASSUME NEW p \in Pairs, LeaseExpires(p) PROVE StepKind
  BY <1>1, <1>7, ExpireKind DEF StepKind
<1>8. ASSUME NEW t \in Tests, NEW priority \in Priorities, InsertTest(t, priority)
      PROVE  StepKind
  BY <1>1, <1>8, InsertKind DEF StepKind
<1>9. ASSUME (\E c \in Clients : Register(c) \/ Ban(c)) \/ UNCHANGED vars PROVE StepKind
  BY <1>1, <1>9, SameLocks DEF Register, Ban, rows, vars, Unseen, Stutters, StepKind
<1>10. QED
  BY <1>2, <1>3, <1>4, <1>5, <1>6, <1>7, <1>8, <1>9 DEF Next

-----------------------------------------------------------------------------
(* A statement keeps the invariant of the other sessions. *)

LEMMA SameView ==
    ASSUME NEW r \in Sessions, Statement(r), NEW s \in Sessions \ {r}
    PROVE  /\ tx'[s] = tx[s] /\ (advisory' = s <=> advisory = s)
           /\ \A p \in Pairs : /\ PairSeen(s, p)' = PairSeen(s, p)
                               /\ pairLock'[p] = s <=> pairLock[p] = s
                               /\ pairLock[p] = s => pairNew'[p] = pairNew[p]
           /\ \A t \in Tests : /\ TestSeen(s, t)' = TestSeen(s, t)
                               /\ Locks(s, t)' <=> Locks(s, t)
                               /\ WritesTest(s, t)' <=> WritesTest(s, t)
                               /\ WritesTest(s, t) => testNew'[t] = testNew[t]
<1>1. /\ pair' = pair /\ test' = test
      /\ tx'[s] = tx[s] /\ (advisory' = s <=> advisory = s)
      /\ \A p \in Pairs : /\ pairLock'[p] = s <=> pairLock[p] = s
                          /\ pairLock[p] = s => pairNew'[p] = pairNew[p]
      /\ \A t \in Tests : /\ Locks(s, t)' <=> Locks(s, t)
                          /\ WritesTest(s, t)' <=> WritesTest(s, t)
                          /\ WritesTest(s, t) => testNew'[t] = testNew[t]
  BY DEF Statement, OthersKeep
<1>2. \A p \in Pairs : PairSeen(s, p)' = PairSeen(s, p)
  BY <1>1 DEF PairSeen
<1>3. \A t \in Tests : TestSeen(s, t)' = TestSeen(s, t)
  BY <1>1 DEF TestSeen
<1>4. QED
  BY <1>1, <1>2, <1>3

\* What waits in the queue, or is about to leave it, stays untouched: a claim
\* takes pairs of a running test, and the other statements leased ones.
LEMMA StaysUntouched ==
    ASSUME NEW r \in Sessions, Statement(r), NEW p \in Pairs, pairLock[p] = None,
           pair[p] = NewPair, test[TestOf[p]].status \notin {"running", "validating"}
    PROVE  pairLock'[p] = None
BY DEF Statement, NewPair, NoPair

LEMMA NewIsNotNo == NewPair # NoPair /\ NewPair.status = "pending" /\ NoPair.status = "absent"
BY DEF NewPair, NoPair

LEMMA StatementKeepsCommitted ==
    ASSUME Inv, NEW r \in Sessions, Statement(r)
    PROVE  CommittedInv'
<1>1. pair' = pair /\ test' = test /\ LocksExclude'
  BY DEF Statement
<1>2. \A p \in Pairs : test[TestOf[p]].status = "queued" => pairLock'[p] = None
  BY StaysUntouched DEF Inv, CommittedInv, QueuedIsFresh
<1>3. QED
  BY <1>1, <1>2
  DEF Inv, CommittedInv, EarlyHasNoPairs, StartedHasPairs, QueuedIsFresh, OneRunningTest

LEMMA StatementKeepsOthers ==
    ASSUME Inv, NEW r \in Sessions, Statement(r), NEW s \in Sessions \ {r}
    PROVE  SessionInv(s)'
<1>1. /\ pair' = pair /\ test' = test /\ SessionInv(s) /\ TypeOK /\ tx[s] \in Txs
      /\ \A p \in Pairs : TestOf[p] \in Tests
  BY Constants DEF Statement, Inv, TypeOK
<1>2. /\ tx'[s] = tx[s] /\ (advisory' = s <=> advisory = s)
      /\ \A p \in Pairs : /\ PairSeen(s, p)' = PairSeen(s, p)
                          /\ pairLock'[p] = s <=> pairLock[p] = s
                          /\ pairLock[p] = s => pairNew'[p] = pairNew[p]
      /\ \A t \in Tests : /\ TestSeen(s, t)' = TestSeen(s, t)
                          /\ Locks(s, t)' <=> Locks(s, t)
                          /\ WritesTest(s, t)' <=> WritesTest(s, t)
                          /\ WritesTest(s, t) => testNew'[t] = testNew[t]
  BY SameView
<1>3. RestsFree(s)' /\ Shape(s)'
  BY <1>1, <1>2 DEF SessionInv, RestsFree, Shape
<1>4. Written(s)'
  BY <1>1, <1>2 DEF SessionInv, Written
<1>5. LockedPairs(s)'
  BY <1>1, <1>2 DEF SessionInv, LockedPairs, Created, Claimed, Requeued, Ended
<1>6. SeesStarted(s)'
  BY <1>1, <1>2 DEF SessionInv, SeesStarted
<1>7. SeesFresh(s)'
  <2> SUFFICES ASSUME NEW p \in Pairs, WritesTest(s, TestOf[p]),
                      testNew[TestOf[p]].status = "queued"
               PROVE  pairLock'[p] \in {None, s} /\ PairSeen(s, p) = NewPair
    BY <1>1, <1>2 DEF SeesFresh, Untouched
  <2>1. PairSeen(s, p) = NewPair /\ pairLock[p] \in {None, s}
    BY <1>1 DEF SessionInv, SeesFresh, Untouched
  <2>2. CASE pairLock[p] = s
    BY <1>2, <2>1, <2>2
  <2>3. CASE pairLock[p] = None
    <3>1. pair[p] = NewPair
      BY <2>1, <2>3, WorkersAreNotTheOthers DEF PairSeen
    <3>2. test[TestOf[p]].status # "running"
      BY <1>1 DEF SessionInv, Written, Becoming
    <3>3. test[TestOf[p]].status # "validating"
      BY <3>1, NewIsNotNo DEF Inv, CommittedInv, EarlyHasNoPairs, Early
    <3>4. QED
      BY <2>1, <2>3, <3>1, <3>2, <3>3, StaysUntouched
  <2>4. QED
    BY <2>1, <2>2, <2>3
<1>8. ChoosesFresh(s)'
  <2> SUFFICES ASSUME tx[s].at = "take", tx[s].t \in Tests
               PROVE  \A p \in Pairs : TestOf[p] = tx[s].t =>
                        pairLock'[p] \in {None, s} /\ PairSeen(s, p) = NewPair
    <3>1. tx[s].at = "take" => tx[s].t \in Tests
      BY <1>1 DEF Txs
    <3>2. QED
      BY <1>1, <1>2, <3>1 DEF ChoosesFresh, SessionInv, Untouched
  <2> TAKE p \in Pairs
  <2> HAVE TestOf[p] = tx[s].t
  <2>1. PairSeen(s, p) = NewPair /\ pairLock[p] \in {None, s}
    BY <1>1 DEF SessionInv, ChoosesFresh, Untouched
  <2>2. CASE pairLock[p] = s
    BY <1>2, <2>1, <2>2
  <2>3. CASE pairLock[p] = None
    <3>1. pair[p] = NewPair
      BY <2>1, <2>3, WorkersAreNotTheOthers DEF PairSeen
    <3>2. test[TestOf[p]].status # "running"
      BY <1>1 DEF SessionInv, Written, Becoming, ChoosesFresh, TestSeen
    <3>3. test[TestOf[p]].status # "validating"
      BY <3>1, NewIsNotNo DEF Inv, CommittedInv, EarlyHasNoPairs, Early
    <3>4. QED
      BY <2>1, <2>3, <3>1, <3>2, <3>3, StaysUntouched
  <2>4. QED
    BY <2>1, <2>2, <2>3
<1>9. TodoHasReason(s)'
  <2>1. tx[s].todo \subseteq Tests
    BY <1>1 DEF Txs
  <2>2. QED
    BY <1>1, <1>2, <2>1 DEF SessionInv, TodoHasReason
<1>10. PromotesAlone(s)'
  BY <1>1, <1>2 DEF SessionInv, PromotesAlone
<1>11. QED
  BY <1>3, <1>4, <1>5, <1>6, <1>7, <1>8, <1>9, <1>10 DEF SessionInv

-----------------------------------------------------------------------------
(* Each statement keeps the invariant of its own session. *)

LEMMA RestsKeeps ==
    ASSUME Inv, NEW r \in Sessions, Rests(r)
    PROVE  SessionInv(r)'
<1>1. /\ \A p \in Pairs : pairLock'[p] # r
      /\ \A t \in Tests : ~Locks(r, t)' /\ ~WritesTest(r, t)'
      /\ advisory' # r /\ test' = test
  BY NoWritesWithoutLocks DEF Rests, HoldsNothing, Statement, Locks, WritesTest
<1>2. \A t \in Tests : TestSeen(r, t)' = test[t]
  BY <1>1 DEF TestSeen
<1>3. tx'[r].at \notin {"take", "refresh", "promote", "commit"}
  BY DEF Rests, Resting
<1>4. PromotesAlone(r)'
  BY <1>1, <1>2, <1>3 DEF PromotesAlone, Inv, CommittedInv, OneRunningTest
<1>5. RestsFree(r)' /\ Shape(r)'
  BY <1>1, <1>3 DEF Rests, RestsFree, Shape
<1>6. Written(r)' /\ LockedPairs(r)'
  BY <1>1 DEF Written, LockedPairs
<1>7. SeesStarted(r)' /\ SeesFresh(r)'
  BY <1>1, Constants DEF SeesStarted, SeesFresh
<1>8. TodoHasReason(r)' /\ ChoosesFresh(r)'
  BY <1>3 DEF Rests, TodoHasReason, ChoosesFresh
<1>9. QED
  BY <1>4, <1>5, <1>6, <1>7, <1>8 DEF SessionInv

LEMMA TakesPairsKeeps ==
    ASSUME Inv, NEW r \in Sessions, TakesPairs(r)
    PROVE  SessionInv(r)'
<1>1. /\ \A t \in Tests : ~WritesTest(r, t)'
      /\ test' = test /\ pair' = pair
      /\ tx'[r].at \in {"refresh", "commit"} /\ tx'[r].op # "smoke"
      /\ tx'[r].at = "commit" => tx'[r].todo = {}
  BY DEF TakesPairs, Statement
<1>2. \A t \in Tests : TestSeen(r, t)' = test[t]
  BY <1>1 DEF TestSeen
<1>3. PromotesAlone(r)'
  BY <1>1, <1>2 DEF PromotesAlone, Inv, CommittedInv, OneRunningTest
<1>4. RestsFree(r)' /\ Shape(r)' /\ ChoosesFresh(r)'
  BY <1>1 DEF RestsFree, Shape, Resting, ChoosesFresh
<1>5. Written(r)' /\ SeesStarted(r)' /\ SeesFresh(r)'
  BY <1>1, Constants DEF Written, SeesStarted, SeesFresh
<1>6. LockedPairs(r)'
  <2> SUFFICES ASSUME NEW p \in Pairs, pairLock'[p] = r
               PROVE  Claimed(r, p)' \/ Requeued(r, p)' \/ Ended(r, p)'
    BY DEF LockedPairs
  <2>1. pair[p] \in PairRow
    BY DEF Inv, TypeOK
  <2>2. CASE Claims(p)
    BY <1>1, <2>1, <2>2 DEF Claims, Claimed, Lease, PairRow
  <2>3. CASE Requeues(p)
    BY <1>1, <2>1, <2>3 DEF Requeues, Requeued, Requeue, PairRow
  <2>4. CASE Completes(r, p)
    BY <1>1, <2>1, <2>4 DEF Completes, Ended, Complete, PairRow, Over
  <2>5. CASE Discards(r, p)
    BY <1>1, <2>1, <2>5 DEF Discards, Ended, PairRow, Over
  <2>6. QED
    BY <2>2, <2>3, <2>4, <2>5 DEF TakesPairs
<1>7. TodoHasReason(r)'
  <2>1. \A t \in tx'[r].todo : \E p \in Pairs :
          TestOf[p] = t /\ pairLock'[p] = r /\ pairNew'[p].status \in Over
    BY DEF TakesPairs
  <2>2. \A t \in tx'[r].todo : t \in Tests
    BY <2>1, Constants
  <2>3. QED
    BY <1>1, <2>1, <2>2 DEF TodoHasReason
<1>8. QED
  BY <1>3, <1>4, <1>5, <1>6, <1>7 DEF SessionInv

LEMMA WritesOneKeeps ==
    ASSUME Inv, NEW r \in Sessions, NEW t \in Tests, WritesOne(r, t)
    PROVE  SessionInv(r)'
<1>1. /\ \A u \in Tests : WritesTest(r, u)' <=> u = t
      /\ \A p \in Pairs : pairLock'[p] # r
      /\ test' = test /\ pair' = pair /\ tx'[r].todo = {}
      /\ test[t] \in TestRow /\ Statement(r)
  BY DEF WritesOne, Statement, Inv, TypeOK
<1>2. /\ tx'[r].at \in {"promote", "commit"}
      /\ tx'[r].op = "smoke" => r = Smoke
      /\ test[t].status \in {"validating", "queued", "running"}
      /\ \/ testNew'[t].status = test[t].status /\ test[t].status # "running"
         \/ testNew'[t].status = "stopped"
         \/ testNew'[t].status = "invalid" /\ test[t].status = "validating"
  BY <1>1 DEF WritesOne, Stops, Prioritises, Fails, WithStatus, WithPriority, TestRow, AfterStop
<1>3. \A p \in Pairs : PairSeen(r, p)' = pair[p]
  BY <1>1 DEF PairSeen
<1>4. \A u \in Tests : TestSeen(r, u)' = IF u = t THEN testNew'[t] ELSE test[u]
  BY <1>1 DEF TestSeen
<1>5. RestsFree(r)' /\ Shape(r)' /\ ChoosesFresh(r)' /\ TodoHasReason(r)' /\ LockedPairs(r)'
  BY <1>1, <1>2 DEF RestsFree, Shape, Resting, ChoosesFresh, TodoHasReason, LockedPairs
<1>6. Written(r)'
  BY <1>1, <1>2 DEF Written, Becoming
<1>7. SeesStarted(r)'
  <2> SUFFICES ASSUME NEW p \in Pairs, TestOf[p] = t,
                      testNew'[t].status \in {"queued", "running", "finished"}
               PROVE  PairSeen(r, p)'.status # "absent"
    BY <1>1, Constants DEF SeesStarted
  <2>1. test[TestOf[p]].status = "queued"
    BY <1>2
  <2>2. QED
    BY <1>3, <2>1 DEF Inv, CommittedInv, StartedHasPairs
<1>8. SeesFresh(r)'
  <2> SUFFICES ASSUME NEW p \in Pairs, TestOf[p] = t, testNew'[t].status = "queued"
               PROVE  pair[p] = NewPair /\ pairLock'[p] = None
    BY <1>1, <1>3, Constants DEF SeesFresh, Untouched
  <2>1. test[t].status = "queued"
    BY <1>2
  <2>2. QED
    BY <1>1, <2>1, StaysUntouched DEF Inv, CommittedInv, QueuedIsFresh
<1>9. PromotesAlone(r)'
  BY <1>1, <1>2, <1>4 DEF PromotesAlone, Inv, CommittedInv, OneRunningTest
<1>10. QED
  BY <1>5, <1>6, <1>7, <1>8, <1>9 DEF SessionInv

LEMMA PassesKeeps ==
    ASSUME Inv, NEW t \in Tests, Passes(t)
    PROVE  SessionInv(Smoke)'
<1>1. /\ \A u \in Tests : WritesTest(Smoke, u)' <=> u = t
      /\ \A p \in Pairs : pairLock'[p] = Smoke <=> TestOf[p] = t
      /\ \A p \in Pairs : TestOf[p] = t => pairNew'[p] = NewPair
      /\ test' = test /\ pair' = pair /\ test[t].status = "validating"
      /\ tx'[Smoke].at = "refresh" /\ tx'[Smoke].op = "smoke" /\ tx'[Smoke].todo = {t}
  BY DEF Passes, Statement
<1>2. testNew'[t].status = "queued"
  <2>1. test[t] \in TestRow
    BY DEF Inv, TypeOK
  <2>2. QED
    BY <2>1 DEF Passes, WithStatus, TestRow
<1>3. \A p \in Pairs : TestOf[p] = t => PairSeen(Smoke, p)' = NewPair
  BY <1>1 DEF PairSeen
<1>4. \A u \in Tests : TestSeen(Smoke, u)' = IF u = t THEN testNew'[t] ELSE test[u]
  BY <1>1 DEF TestSeen
<1>5. RestsFree(Smoke)' /\ Shape(Smoke)' /\ ChoosesFresh(Smoke)' /\ TodoHasReason(Smoke)'
  BY <1>1, <1>2 DEF RestsFree, Shape, Resting, ChoosesFresh, TodoHasReason
<1>6. Written(Smoke)' /\ SeesStarted(Smoke)' /\ SeesFresh(Smoke)'
  BY <1>1, <1>2, <1>3, NewIsNotNo, Constants
  DEF Written, Becoming, SeesStarted, SeesFresh, Untouched
<1>7. LockedPairs(Smoke)'
  <2> SUFFICES ASSUME NEW p \in Pairs, TestOf[p] = t PROVE Created(Smoke, p)'
    BY <1>1 DEF LockedPairs
  <2>1. pair[p].status = "absent"
    BY <1>1, NewIsNotNo DEF Inv, CommittedInv, EarlyHasNoPairs, Early
  <2>2. QED
    BY <1>1, <1>2, <2>1 DEF Created, Early
<1>8. PromotesAlone(Smoke)'
  BY <1>1, <1>2, <1>4 DEF PromotesAlone, Inv, CommittedInv, OneRunningTest
<1>9. QED
  BY <1>5, <1>6, <1>7, <1>8 DEF SessionInv

LEMMA RowView ==
    ASSUME NEW r \in Sessions, NEW t \in Tests, WritesRow(r, t)
    PROVE  /\ \A p \in Pairs : PairSeen(r, p)' = PairSeen(r, p)
           /\ \A u \in Tests : TestSeen(r, u)' = IF u = t THEN testNew'[t] ELSE TestSeen(r, u)
           /\ pair' = pair /\ test' = test
<1>1. pair' = pair /\ test' = test /\ pairLock' = pairLock /\ pairNew' = pairNew
  BY DEF WritesRow, Statement
<1>2. /\ \A u \in Tests : WritesTest(r, u)' <=> WritesTest(r, u) \/ u = t
      /\ \A u \in Tests \ {t} : testNew'[u] = testNew[u]
  BY DEF WritesRow
<1>3. QED
  BY <1>1, <1>2 DEF PairSeen, TestSeen

\* A refresh changes the status of the test only to finish a running one.
LEMMA RefreshedStatus ==
    ASSUME TypeOK, NEW r, NEW t \in Tests
    PROVE  Refreshed(r, t).status = IF Verdict(r, t) = "pending" THEN TestSeen(r, t).status
                                    ELSE "finished"
<1>1. TestSeen(r, t) \in TestRow
  BY SeenIsRow
<1>2. QED
  BY <1>1 DEF Refreshed, TestRow

LEMMA OnlyRunningGetsVerdict ==
    ASSUME NEW r, NEW t, Verdict(r, t) # "pending" PROVE TestSeen(r, t).status = "running"
BY DEF Verdict

\* The test that a session refreshes is in play: it has pairs.
LEMMA RefreshedIsNotEarly ==
    ASSUME Inv, NEW r \in Sessions, NEW t \in Tests, t \in tx[r].todo
    PROVE  /\ WritesTest(r, t) => test[t].status = "validating" /\ testNew[t].status = "queued"
           /\ ~WritesTest(r, t) => test[t].status \notin Early \cup {"queued"}
<1>1. TodoHasReason(r) /\ LockedPairs(r)
  BY DEF Inv, SessionInv
<1>2. WritesTest(r, t) => test[t].status = "validating" /\ testNew[t].status = "queued"
  BY <1>1 DEF TodoHasReason
<1>3. ASSUME ~WritesTest(r, t) PROVE test[t].status \notin Early \cup {"queued"}
  <2>1. PICK p \in Pairs : TestOf[p] = t /\ pairLock[p] = r /\ pairNew[p].status \in Over
    BY <1>1, <1>3 DEF TodoHasReason
  <2>2. Ended(r, p)
    BY <1>1, <2>1, NewIsNotNo DEF LockedPairs, Created, Claimed, Requeued, Over
  <2>3. QED
    BY <2>1, <2>2, NewIsNotNo DEF Ended, Inv, CommittedInv, EarlyHasNoPairs, QueuedIsFresh
<1>4. QED
  BY <1>2, <1>3

LEMMA RefreshesKeeps ==
    ASSUME Inv, NEW r \in Sessions, NEW t \in Tests, Refreshes(r, t)
    PROVE  SessionInv(r)'
<1>1. /\ \A u \in Tests : WritesTest(r, u)' <=> WritesTest(r, u) \/ u = t
      /\ \A u \in Tests \ {t} : testNew'[u] = testNew[u]
      /\ testNew'[t] = Refreshed(r, t)
      /\ pairLock' = pairLock /\ pairNew' = pairNew /\ advisory' = advisory
      /\ tx[r].at = "refresh" /\ t \in tx[r].todo
  BY DEF Refreshes, WritesRow
<1>2. /\ \A p \in Pairs : PairSeen(r, p)' = PairSeen(r, p)
      /\ \A u \in Tests : TestSeen(r, u)' = IF u = t THEN testNew'[t] ELSE TestSeen(r, u)
      /\ pair' = pair /\ test' = test
  BY RowView DEF Refreshes
<1>3. /\ tx'[r].at = AfterRefresh(r, t) /\ tx'[r].op = tx[r].op /\ tx'[r].p = tx[r].p
      /\ tx'[r].todo = tx[r].todo \ {t} /\ tx[r] \in Txs
  BY Fields DEF Refreshes, Inv, TypeOK
<1>4. AfterRefresh(r, t) \in {"promote", "refresh", "commit"}
      /\ (AfterRefresh(r, t) = "commit" => tx[r].todo = {t})
  BY DEF AfterRefresh
<1>5. /\ SessionInv(r) /\ TypeOK /\ \A p \in Pairs : TestOf[p] \in Tests
      /\ \A u \in Tests : testNew[u] \in TestRow /\ test[u] \in TestRow
  BY Constants DEF Inv, TypeOK
<1>6. \/ testNew'[t].status = TestSeen(r, t).status
      \/ testNew'[t].status = "finished" /\ TestSeen(r, t).status = "running"
  BY <1>1, <1>5, RefreshedStatus, OnlyRunningGetsVerdict
<1>7. /\ WritesTest(r, t) => test[t].status = "validating" /\ TestSeen(r, t).status = "queued"
      /\ ~WritesTest(r, t) => TestSeen(r, t).status = test[t].status
                              /\ test[t].status \notin Early \cup {"queued"}
  BY <1>1, RefreshedIsNotEarly DEF TestSeen
<1>8. RestsFree(r)' /\ Shape(r)' /\ ChoosesFresh(r)'
  BY <1>3, <1>4, <1>5 DEF RestsFree, Shape, Resting, ChoosesFresh, SessionInv
<1>9. Written(r)'
  <2>1. testNew'[t].status \in Becoming(test[t].status)
    BY <1>5, <1>6, <1>7 DEF Becoming, Early, TestRow, TestStatuses
  <2>2. QED
    BY <1>1, <1>2, <1>5, <2>1 DEF Written, SessionInv
<1>10. testNew'[t].status \notin Early
  BY <1>6, <1>7 DEF Early
<1>11. LockedPairs(r)'
  BY <1>1, <1>2, <1>3, <1>5, <1>10
  DEF LockedPairs, SessionInv, Created, Claimed, Requeued, Ended
<1>12. SeesStarted(r)'
  <2> SUFFICES ASSUME NEW p \in Pairs, TestOf[p] = t,
                      testNew'[t].status \in {"queued", "running", "finished"}
               PROVE  PairSeen(r, p).status # "absent"
    BY <1>1, <1>2, <1>5 DEF SeesStarted, SessionInv
  <2>1. TestSeen(r, t).status \in {"queued", "running", "finished"}
    BY <1>6
  <2>2. CASE WritesTest(r, t)
    BY <1>5, <2>1, <2>2 DEF SeesStarted, SessionInv, TestSeen
  <2>3. CASE ~WritesTest(r, t)
    <3>1. pair[p].status # "absent"
      BY <1>7, <2>1, <2>3 DEF Inv, CommittedInv, StartedHasPairs
    <3>2. pairLock[p] = r => pairNew[p].status # "absent"
      BY <1>5, <3>1 DEF SessionInv, LockedPairs, Created, Claimed, Requeued, Ended, Over
    <3>3. QED
      BY <3>1, <3>2 DEF PairSeen
  <2>4. QED
    BY <2>2, <2>3
<1>13. SeesFresh(r)'
  <2> SUFFICES ASSUME NEW p \in Pairs, TestOf[p] = t, testNew'[t].status = "queued"
               PROVE  Untouched(r, p)
    BY <1>1, <1>2, <1>5 DEF SeesFresh, SessionInv, Untouched
  <2>1. WritesTest(r, t) /\ testNew[t].status = "queued"
    BY <1>6, <1>7 DEF TestSeen
  <2>2. QED
    BY <1>5, <2>1 DEF SessionInv, SeesFresh
<1>14. TodoHasReason(r)'
  <2>1. \A u \in tx'[r].todo : u \in tx[r].todo /\ u # t /\ u \in Tests /\ tx[r].op # "smoke"
    BY <1>1, <1>3, <1>5 DEF SessionInv, TodoHasReason, Txs
  <2>2. \A u \in tx'[r].todo : ~WritesTest(r, u)' /\ \E p \in Pairs :
          TestOf[p] = u /\ pairLock[p] = r /\ pairNew[p].status \in Over
    BY <1>1, <1>5, <2>1 DEF SessionInv, TodoHasReason
  <2>3. QED
    BY <1>1, <1>3, <2>1, <2>2 DEF TodoHasReason
<1>15. PromotesAlone(r)'
  <2>1. testNew'[t].status = "running" => test[t].status = "running"
                                          /\ TestSeen(r, t).status = "running"
    BY <1>6, <1>7
  <2>2. QED
    BY <1>1, <1>2, <1>3, <1>4, <1>5, <2>1 DEF PromotesAlone, SessionInv
<1>16. QED
  BY <1>8, <1>9, <1>11, <1>12, <1>13, <1>14, <1>15 DEF SessionInv

LEMMA PromotesKeeps ==
    ASSUME Inv, NEW r \in Sessions, NEW t \in Tests, Promotes(r, t)
    PROVE  SessionInv(r)'
<1>1. /\ \A u \in Tests : WritesTest(r, u)' <=> WritesTest(r, u) \/ u = t
      /\ \A u \in Tests \ {t} : testNew'[u] = testNew[u]
      /\ pairLock' = pairLock /\ pairNew' = pairNew /\ advisory' = advisory
      /\ tx[r].at = "take" /\ tx[r].t = t
  BY DEF Promotes, WritesRow
<1>2. /\ \A p \in Pairs : PairSeen(r, p)' = PairSeen(r, p)
      /\ \A u \in Tests : TestSeen(r, u)' = IF u = t THEN testNew'[t] ELSE TestSeen(r, u)
      /\ pair' = pair /\ test' = test
  BY RowView DEF Promotes
<1>3. /\ tx'[r].at = AfterPromotion(r) /\ tx'[r].op = tx[r].op /\ tx'[r].p = tx[r].p
      /\ tx'[r].todo = tx[r].todo /\ tx[r] \in Txs
  BY Fields DEF Promotes, Inv, TypeOK
<1>4. AfterPromotion(r) \in {"refresh", "commit"}
      /\ (AfterPromotion(r) = "commit" => tx[r].todo = {})
  BY DEF AfterPromotion
<1>5. SessionInv(r) /\ TypeOK /\ \A p \in Pairs : TestOf[p] \in Tests
  BY Constants DEF Inv
<1>6. testNew'[t].status = "running"
  <2>1. TestSeen(r, t) \in TestRow
    BY <1>5, SeenIsRow
  <2>2. QED
    BY <2>1 DEF Promotes, WithStatus, TestRow
<1>7. /\ advisory = r
      /\ \A u \in Tests : TestSeen(r, u).status # "running"
      /\ \A p \in Pairs : TestOf[p] = t => Untouched(r, p)
  BY <1>1, <1>5 DEF SessionInv, Shape, PromotesAlone, ChoosesFresh
<1>8. RestsFree(r)' /\ Shape(r)' /\ ChoosesFresh(r)'
  BY <1>3, <1>4, <1>5 DEF RestsFree, Shape, Resting, ChoosesFresh, SessionInv
<1>9. Written(r)'
  <2>1. "running" \in Becoming(test[t].status)
    BY <1>1, <1>5 DEF SessionInv, ChoosesFresh, Written, TestSeen, Becoming
  <2>2. QED
    BY <1>1, <1>2, <1>5, <1>6, <2>1 DEF Written, SessionInv
<1>10. LockedPairs(r)'
  BY <1>1, <1>2, <1>3, <1>5, <1>6
  DEF LockedPairs, SessionInv, Created, Claimed, Requeued, Ended, Early
<1>11. SeesStarted(r)'
  BY <1>1, <1>2, <1>5, <1>7, NewIsNotNo DEF SeesStarted, SessionInv, Untouched
<1>12. SeesFresh(r)'
  BY <1>1, <1>2, <1>5, <1>6 DEF SeesFresh, SessionInv, Untouched
<1>13. TodoHasReason(r)'
  <2>1. \A u \in tx[r].todo : u \in Tests /\ tx[r].op # "smoke"
    BY <1>1, <1>3, <1>5 DEF SessionInv, TodoHasReason, Txs
  <2>2. \A u \in tx[r].todo : ~WritesTest(r, u) /\ \E p \in Pairs :
          TestOf[p] = u /\ pairLock[p] = r /\ pairNew[p].status \in Over
    BY <1>5, <2>1 DEF SessionInv, TodoHasReason
  <2>3. t \notin tx[r].todo
    BY <1>7, <2>2, NewIsNotNo DEF Untouched, PairSeen, Over
  <2>4. QED
    BY <1>1, <1>3, <2>1, <2>2, <2>3 DEF TodoHasReason
<1>14. PromotesAlone(r)'
  BY <1>1, <1>2, <1>3, <1>4, <1>5, <1>6, <1>7 DEF PromotesAlone, SessionInv
<1>15. QED
  BY <1>8, <1>9, <1>10, <1>11, <1>12, <1>13, <1>14 DEF SessionInv

LEMMA SerialisesView ==
    ASSUME NEW r \in Sessions, Serialises(r)
    PROVE  /\ \A p \in Pairs : PairSeen(r, p)' = PairSeen(r, p)
           /\ \A t \in Tests : /\ TestSeen(r, t)' = TestSeen(r, t)
                               /\ WritesTest(r, t)' <=> WritesTest(r, t)
           /\ pair' = pair /\ test' = test
           /\ pairLock' = pairLock /\ pairNew' = pairNew /\ testNew' = testNew
           /\ advisory' = r
<1>1. /\ pair' = pair /\ test' = test /\ pairLock' = pairLock /\ pairNew' = pairNew
      /\ testNew' = testNew /\ advisory' = r
      /\ \A t \in Tests : WritesTest(r, t)' <=> WritesTest(r, t)
  BY DEF Serialises, Statement
<1>2. QED
  BY <1>1 DEF PairSeen, TestSeen

\* What the two outcomes of the promotion have in common.
LEMMA SerialisesKeeps ==
    ASSUME Inv, NEW r \in Sessions, Serialises(r),
           tx'[r].todo = tx[r].todo, tx'[r].op = tx[r].op, tx'[r].p = tx[r].p,
           tx'[r].at \in {"take", "refresh", "commit"},
           tx'[r].at = "commit" => tx[r].todo = {},
           tx'[r].at = "take" => SeenAs(r, "running") = {}
    PROVE  /\ RestsFree(r)' /\ Shape(r)' /\ Written(r)' /\ LockedPairs(r)'
           /\ SeesStarted(r)' /\ SeesFresh(r)' /\ TodoHasReason(r)' /\ PromotesAlone(r)'
<1>1. /\ \A p \in Pairs : PairSeen(r, p)' = PairSeen(r, p)
      /\ \A t \in Tests : /\ TestSeen(r, t)' = TestSeen(r, t)
                          /\ WritesTest(r, t)' <=> WritesTest(r, t)
      /\ pair' = pair /\ test' = test
      /\ pairLock' = pairLock /\ pairNew' = pairNew /\ testNew' = testNew
      /\ advisory' = r
  BY SerialisesView
<1>2. /\ SessionInv(r) /\ tx[r].at = "promote" /\ tx[r] \in Txs
      /\ \A p \in Pairs : TestOf[p] \in Tests
  BY Constants DEF Inv, TypeOK, Serialises
<1>3. RestsFree(r)' /\ Shape(r)'
  BY <1>1, <1>2 DEF RestsFree, Shape, Resting, SessionInv
<1>4. Written(r)' /\ LockedPairs(r)'
  BY <1>1, <1>2 DEF Written, LockedPairs, SessionInv, Created, Claimed, Requeued, Ended
<1>5. SeesStarted(r)' /\ SeesFresh(r)'
  BY <1>1, <1>2 DEF SeesStarted, SeesFresh, Untouched, SessionInv
<1>6. TodoHasReason(r)'
  BY <1>1, <1>2 DEF TodoHasReason, SessionInv, Txs
<1>7. PromotesAlone(r)'
  BY <1>1, <1>2 DEF PromotesAlone, SessionInv, SeenAs
<1>8. QED
  BY <1>3, <1>4, <1>5, <1>6, <1>7

LEMMA PromotesNoneKeeps ==
    ASSUME Inv, NEW r \in Sessions, PromotesNone(r)
    PROVE  SessionInv(r)'
<1>1. /\ tx'[r].at = AfterPromotion(r) /\ tx'[r].op = tx[r].op /\ tx'[r].p = tx[r].p
      /\ tx'[r].todo = tx[r].todo
  BY Fields DEF PromotesNone, Inv, TypeOK
<1>2. AfterPromotion(r) \in {"refresh", "commit"}
      /\ (AfterPromotion(r) = "commit" => tx[r].todo = {})
  BY DEF AfterPromotion
<1>3. /\ RestsFree(r)' /\ Shape(r)' /\ Written(r)' /\ LockedPairs(r)'
      /\ SeesStarted(r)' /\ SeesFresh(r)' /\ TodoHasReason(r)' /\ PromotesAlone(r)'
  BY <1>1, <1>2, SerialisesKeeps DEF PromotesNone
<1>4. ChoosesFresh(r)'
  BY <1>1, <1>2 DEF ChoosesFresh
<1>5. QED
  BY <1>3, <1>4 DEF SessionInv

LEMMA ChoosesKeeps ==
    ASSUME Inv, NEW r \in Sessions, NEW t \in Tests, Chooses(r, t)
    PROVE  SessionInv(r)'
<1>1. /\ tx'[r].at = "take" /\ tx'[r].op = tx[r].op /\ tx'[r].p = tx[r].p
      /\ tx'[r].todo = tx[r].todo /\ tx'[r].t = t
  BY Fields DEF Chooses, Inv, TypeOK
<1>2. TestSeen(r, t).status = "queued" /\ SeenAs(r, "running") = {}
  BY DEF Chooses, BestQueued, SeenAs
<1>3. /\ RestsFree(r)' /\ Shape(r)' /\ Written(r)' /\ LockedPairs(r)'
      /\ SeesStarted(r)' /\ SeesFresh(r)' /\ TodoHasReason(r)' /\ PromotesAlone(r)'
  BY <1>1, <1>2, SerialisesKeeps DEF Chooses
<1>4. \A p \in Pairs : TestOf[p] = t => Untouched(r, p)
  <2> SUFFICES ASSUME NEW p \in Pairs, TestOf[p] = t PROVE Untouched(r, p)
    OBVIOUS
  <2>1. CASE WritesTest(r, t)
    BY <1>2, <2>1 DEF TestSeen, Inv, SessionInv, SeesFresh
  <2>2. CASE ~WritesTest(r, t)
    BY <1>2, <2>2, WorkersAreNotTheOthers
    DEF TestSeen, Inv, CommittedInv, QueuedIsFresh, Untouched, PairSeen
  <2>3. QED
    BY <2>1, <2>2
<1>5. ChoosesFresh(r)'
  BY <1>1, <1>2, <1>4, SerialisesView DEF Chooses, ChoosesFresh, Untouched
<1>6. QED
  BY <1>3, <1>5 DEF SessionInv

-----------------------------------------------------------------------------
(* A commit keeps the invariant. *)

\* What r publishes, when r holds the locks it publishes under.
LEMMA Published ==
    ASSUME Inv, NEW r \in Sessions, Publishes(r)
    PROVE  /\ \A p \in Pairs : /\ pairLock[p] # r => pair'[p] = pair[p]
                               /\ pairLock[p] = r => pair'[p] = pairNew[p]
                               /\ pair[p].status # "absent" => pair'[p].status # "absent"
           /\ \A t \in Tests : /\ ~WritesTest(r, t) => test'[t] = test[t]
                               /\ WritesTest(r, t) => test'[t] = testNew[t]
<1>1. \A p \in Pairs : pairLock[p] = r => pairNew[p].status # "absent"
  BY NewIsNotNo
  DEF Inv, SessionInv, LockedPairs, Created, Claimed, Requeued, Ended, Over
<1>2. QED
  BY <1>1 DEF Publishes, PairSeen, TestSeen

LEMMA PublishesKeepsCommitted ==
    ASSUME Inv, NEW r \in Sessions, Publishes(r)
    PROVE  CommittedInv'
<1>1. /\ \A p \in Pairs : /\ pairLock[p] # r => pair'[p] = pair[p]
                          /\ pairLock[p] = r => pair'[p] = pairNew[p]
                          /\ pair[p].status # "absent" => pair'[p].status # "absent"
                          /\ TestOf[p] \in Tests
      /\ \A t \in Tests : /\ ~WritesTest(r, t) => test'[t] = test[t]
                          /\ WritesTest(r, t) => test'[t] = testNew[t]
      /\ SessionInv(r) /\ CommittedInv
  BY Published, Constants DEF Inv
<1>2. /\ \A t \in Tests : test'[t] = TestSeen(r, t)
      /\ \A p \in Pairs : pair'[p] = PairSeen(r, p)
      /\ \A p \in Pairs : pairLock'[p] = IF pairLock[p] = r THEN None ELSE pairLock[p]
      /\ LocksExclude'
  BY DEF Publishes
<1>3. EarlyHasNoPairs'
  <2> SUFFICES ASSUME NEW p \in Pairs, test'[TestOf[p]].status \in Early
               PROVE  pair'[p] = NoPair
    BY DEF EarlyHasNoPairs
  <2>1. test[TestOf[p]].status \in Early
    BY <1>1 DEF SessionInv, Written, Becoming, Early
  <2>2. pair[p] = NoPair
    BY <1>1, <2>1 DEF CommittedInv, EarlyHasNoPairs
  <2>3. pairLock[p] # r
    BY <1>1, <2>2, NewIsNotNo DEF SessionInv, LockedPairs, Created, Claimed, Requeued, Ended
  <2>4. QED
    BY <1>1, <2>2, <2>3
<1>4. StartedHasPairs'
  <2> SUFFICES ASSUME NEW p \in Pairs,
                      test'[TestOf[p]].status \in {"queued", "running", "finished"}
               PROVE  pair'[p].status # "absent"
    BY DEF StartedHasPairs
  <2>1. CASE WritesTest(r, TestOf[p])
    BY <1>1, <1>2, <2>1 DEF SessionInv, SeesStarted
  <2>2. CASE ~WritesTest(r, TestOf[p])
    BY <1>1, <2>2 DEF CommittedInv, StartedHasPairs
  <2>3. QED
    BY <2>1, <2>2
<1>5. QueuedIsFresh'
  <2> SUFFICES ASSUME NEW p \in Pairs, test'[TestOf[p]].status = "queued"
               PROVE  pair'[p] = NewPair /\ pairLock'[p] = None
    BY DEF QueuedIsFresh
  <2>1. CASE WritesTest(r, TestOf[p])
    BY <1>1, <1>2, <2>1 DEF SessionInv, SeesFresh, Untouched
  <2>2. CASE ~WritesTest(r, TestOf[p])
    BY <1>1, <1>2, <2>2, WorkersAreNotTheOthers DEF CommittedInv, QueuedIsFresh
  <2>3. QED
    BY <2>1, <2>2
<1>6. OneRunningTest'
  BY <1>1, <1>2 DEF SessionInv, PromotesAlone, OneRunningTest
<1>7. QED
  BY <1>2, <1>3, <1>4, <1>5, <1>6 DEF CommittedInv

LEMMA PublishesKeepsOwn ==
    ASSUME Inv, NEW r \in Sessions, Publishes(r)
    PROVE  SessionInv(r)'
<1>1. /\ \A p \in Pairs : pairLock'[p] # r
      /\ \A t \in Tests : ~Locks(r, t)' /\ ~WritesTest(r, t)'
      /\ advisory' # r
      /\ tx'[r].at \in {"idle", "promote"} /\ tx'[r].todo = {} /\ tx'[r].op # "smoke"
  BY NoWritesWithoutLocks DEF Publishes, HoldsNothing, Locks, WritesTest
<1>2. \A t \in Tests : TestSeen(r, t)' = test'[t]
  BY <1>1 DEF TestSeen
<1>3. PromotesAlone(r)'
  BY <1>1, <1>2, PublishesKeepsCommitted DEF PromotesAlone, CommittedInv, OneRunningTest
<1>4. RestsFree(r)' /\ Shape(r)' /\ TodoHasReason(r)' /\ ChoosesFresh(r)'
  BY <1>1 DEF RestsFree, Shape, TodoHasReason, ChoosesFresh
<1>5. Written(r)' /\ LockedPairs(r)' /\ SeesStarted(r)' /\ SeesFresh(r)'
  BY <1>1, Constants DEF Written, LockedPairs, SeesStarted, SeesFresh
<1>6. QED
  BY <1>3, <1>4, <1>5 DEF SessionInv

LEMMA PublishesKeepsOthers ==
    ASSUME Inv, NEW r \in Sessions, Publishes(r), NEW s \in Sessions \ {r}
    PROVE  SessionInv(s)'
<1>1. /\ \A p \in Pairs : /\ pairLock[p] # r => pair'[p] = pair[p]
                          /\ pair[p].status # "absent" => pair'[p].status # "absent"
                          /\ TestOf[p] \in Tests
      /\ \A t \in Tests : /\ ~WritesTest(r, t) => test'[t] = test[t]
                          /\ WritesTest(r, t) => test'[t] = testNew[t]
      /\ SessionInv(r) /\ SessionInv(s) /\ CommittedInv /\ TypeOK /\ tx[s] \in Txs
  BY Published, Constants DEF Inv, TypeOK
<1>2. /\ tx'[s] = tx[s] /\ (advisory' = s <=> advisory = s)
      /\ \A p \in Pairs : pairLock'[p] = s <=> pairLock[p] = s
      /\ \A p \in Pairs : pairLock[p] \in {None, s} => pairLock'[p] = pairLock[p]
      /\ \A t \in Tests : /\ Locks(s, t)' <=> Locks(s, t)
                          /\ WritesTest(s, t)' <=> WritesTest(s, t)
      /\ pairNew' = pairNew /\ testNew' = testNew
      /\ \A t \in Tests : test'[t] = TestSeen(r, t)
  BY WorkersAreNotTheOthers DEF Publishes, OthersKeep
<1>3. \A t \in Tests : WritesTest(s, t) => test'[t] = test[t] /\ ~WritesTest(r, t)
  BY <1>1, OneWriter DEF CommittedInv
<1>4. /\ \A p \in Pairs : /\ pairLock[p] \in {None, s} => PairSeen(s, p)' = PairSeen(s, p)
                          /\ PairSeen(s, p).status # "absent" => PairSeen(s, p)'.status # "absent"
                          /\ pairLock[p] = s => pair'[p] = pair[p]
      /\ \A t \in Tests : TestSeen(s, t)' = IF WritesTest(s, t) THEN testNew[t] ELSE test'[t]
  BY <1>1, <1>2, WorkersAreNotTheOthers DEF PairSeen, TestSeen
<1>5. RestsFree(s)' /\ Shape(s)'
  BY <1>1, <1>2 DEF SessionInv, RestsFree, Shape
<1>6. Written(s)' /\ LockedPairs(s)'
  BY <1>1, <1>2, <1>3, <1>4
  DEF SessionInv, Written, LockedPairs, Created, Claimed, Requeued, Ended
<1>7. SeesStarted(s)' /\ SeesFresh(s)'
  BY <1>1, <1>2, <1>4 DEF SessionInv, SeesStarted, SeesFresh, Untouched
<1>8. ChoosesFresh(s)'
  <2> SUFFICES ASSUME tx[s].at = "take", NEW t \in Tests, t = tx[s].t
               PROVE  /\ \/ TestSeen(s, t)'.status = "queued"
                         \/ ~WritesTest(s, t) /\ test'[t].status = "stopped"
                      /\ \A p \in Pairs : TestOf[p] = t =>
                           PairSeen(s, p)' = NewPair /\ pairLock'[p] \in {None, s}
    <3>1. tx[s].at = "take" => tx[s].t \in Tests
      BY <1>1 DEF Txs
    <3>2. QED
      BY <1>2, <3>1 DEF ChoosesFresh, Untouched
  <2>1. /\ advisory # r
        /\ \/ TestSeen(s, t).status = "queued"
           \/ ~WritesTest(s, t) /\ test[t].status = "stopped"
        /\ \A p \in Pairs : TestOf[p] = t => Untouched(s, p)
    BY <1>1 DEF SessionInv, ChoosesFresh, Shape
  <2>2. \A p \in Pairs : TestOf[p] = t =>
          PairSeen(s, p)' = NewPair /\ pairLock'[p] \in {None, s}
    BY <1>2, <1>4, <2>1 DEF Untouched
  <2>3. CASE WritesTest(s, t)
    BY <1>4, <2>1, <2>2, <2>3 DEF TestSeen
  <2>4. CASE ~WritesTest(s, t)
    <3>1. test[t].status \in {"queued", "stopped"}
      BY <2>1, <2>4 DEF TestSeen
    <3>2. WritesTest(r, t) => testNew[t].status \in {"queued", "stopped"}
      BY <1>1, <2>1, <3>1 DEF SessionInv, Written, Becoming, PromotesAlone
    <3>3. test'[t].status \in {"queued", "stopped"}
      BY <1>1, <2>1, <3>1, <3>2
    <3>4. QED
      BY <1>4, <2>1, <2>2, <2>4, <3>3
  <2>5. QED
    BY <2>3, <2>4
<1>9. TodoHasReason(s)'
  <2>1. tx[s].todo \subseteq Tests
    BY <1>1 DEF Txs
  <2>2. QED
    BY <1>1, <1>2, <1>3, <2>1 DEF SessionInv, TodoHasReason
<1>10. PromotesAlone(s)'
  <2>1. ASSUME NEW t \in Tests, test'[t].status = "running", test[t].status # "running"
        PROVE  advisory = r
    BY <1>1, <2>1 DEF SessionInv, PromotesAlone
  <2>2. tx'[s].at = "take" => \A t \in Tests : TestSeen(s, t)'.status # "running"
    <3> SUFFICES ASSUME tx[s].at = "take", NEW t \in Tests, TestSeen(s, t)'.status = "running"
                 PROVE  FALSE
      BY <1>2
    <3>1. TestSeen(s, t).status # "running" /\ advisory # r
      BY <1>1 DEF SessionInv, PromotesAlone, Shape
    <3>2. ~WritesTest(s, t) /\ test'[t].status = "running" /\ test[t].status # "running"
      BY <1>4, <3>1 DEF TestSeen
    <3>3. QED
      BY <2>1, <3>1, <3>2
  <2>3. \A t \in Tests : WritesTest(s, t)' /\ testNew'[t].status = "running"
                         /\ test'[t].status # "running" => advisory' = s
    BY <1>1, <1>2, <1>3 DEF SessionInv, PromotesAlone
  <2>4. ASSUME NEW t \in Tests, NEW u \in Tests, WritesTest(s, t), ~WritesTest(s, u),
               testNew[t].status = "running", test'[u].status = "running"
        PROVE  t = u
    <3>1. TestSeen(s, t).status = "running" /\ TestSeen(s, u) = test[u]
      BY <2>4 DEF TestSeen
    <3>2. CASE test[u].status = "running"
      BY <1>1, <3>1, <3>2 DEF SessionInv, PromotesAlone
    <3>3. CASE test[u].status # "running"
      <4>1. advisory = r
        BY <2>1, <2>4, <3>3
      <4>2. test[t].status = "running"
        BY <1>1, <2>4, <4>1 DEF SessionInv, PromotesAlone
      <4>3. TestSeen(r, t).status = "running" /\ TestSeen(r, u).status = "running"
        BY <1>2, <1>3, <2>4, <4>2
      <4>4. QED
        BY <1>1, <4>3 DEF SessionInv, PromotesAlone
    <3>4. QED
      BY <3>2, <3>3
  <2>5. \A t, u \in Tests : TestSeen(s, t)'.status = "running" /\ TestSeen(s, u)'.status = "running"
                            => t = u
    <3> SUFFICES ASSUME NEW t \in Tests, NEW u \in Tests,
                        TestSeen(s, t)'.status = "running", TestSeen(s, u)'.status = "running"
                 PROVE  t = u
      OBVIOUS
    <3>1. CASE WritesTest(s, t) /\ WritesTest(s, u)
      BY <1>1, <1>4, <3>1 DEF SessionInv, PromotesAlone, TestSeen
    <3>2. CASE ~WritesTest(s, t) /\ ~WritesTest(s, u)
      BY <1>1, <1>2, <1>4, <3>2 DEF SessionInv, PromotesAlone
    <3>3. CASE WritesTest(s, t) /\ ~WritesTest(s, u)
      BY <1>4, <2>4, <3>3
    <3>4. CASE ~WritesTest(s, t) /\ WritesTest(s, u)
      BY <1>4, <2>4, <3>4
    <3>5. QED
      BY <3>1, <3>2, <3>3, <3>4
  <2>6. QED
    BY <2>2, <2>3, <2>5 DEF PromotesAlone
<1>11. QED
  BY <1>5, <1>6, <1>7, <1>8, <1>9, <1>10 DEF SessionInv

-----------------------------------------------------------------------------
(* The steps in which no session takes part. *)

LEMMA UnseenWrites ==
    ASSUME Unseen, NEW s \in Sessions
    PROVE  /\ tx' = tx /\ advisory' = advisory /\ pairLock' = pairLock
           /\ \A t \in Tests : /\ Locks(s, t)' <=> Locks(s, t)
                               /\ WritesTest(s, t)' <=> WritesTest(s, t)
BY DEF Unseen

LEMMA StuttersKeeps ==
    ASSUME Inv, Stutters
    PROVE  CommittedInv' /\ \A s \in Sessions : SessionInv(s)'
<1>1. /\ pair' = pair /\ test' = test /\ pairNew' = pairNew /\ testNew' = testNew
      /\ pairLock' = pairLock /\ advisory' = advisory /\ tx' = tx /\ LocksExclude'
  BY DEF Stutters, Unseen
<1>2. CommittedInv'
  BY <1>1
  DEF Inv, CommittedInv, EarlyHasNoPairs, StartedHasPairs, QueuedIsFresh, OneRunningTest
<1>3. ASSUME NEW s \in Sessions PROVE SessionInv(s)'
  <2>1. /\ \A t \in Tests : /\ Locks(s, t)' <=> Locks(s, t)
                            /\ WritesTest(s, t)' <=> WritesTest(s, t)
        /\ SessionInv(s) /\ \A p \in Pairs : TestOf[p] \in Tests
        /\ tx[s] \in Txs
    BY UnseenWrites, Constants DEF Stutters, Inv, TypeOK
  <2>2. /\ \A p \in Pairs : PairSeen(s, p)' = PairSeen(s, p)
        /\ \A t \in Tests : TestSeen(s, t)' = TestSeen(s, t)
    BY <1>1, <2>1 DEF PairSeen, TestSeen
  <2>3. RestsFree(s)' /\ Shape(s)' /\ Written(s)' /\ LockedPairs(s)'
    BY <1>1, <2>1
    DEF SessionInv, RestsFree, Shape, Written, LockedPairs, Created, Claimed, Requeued, Ended
  <2>4. SeesStarted(s)' /\ SeesFresh(s)' /\ ChoosesFresh(s)'
    BY <1>1, <2>1, <2>2 DEF SessionInv, SeesStarted, SeesFresh, ChoosesFresh, Untouched, Txs
  <2>5. TodoHasReason(s)' /\ PromotesAlone(s)'
    BY <1>1, <2>1, <2>2 DEF SessionInv, TodoHasReason, PromotesAlone, Txs
  <2>6. QED
    BY <2>3, <2>4, <2>5 DEF SessionInv
<1>4. QED
  BY <1>2, <1>3

LEMMA ExpiresKeeps ==
    ASSUME Inv, NEW p \in Pairs, Expires(p)
    PROVE  CommittedInv' /\ \A s \in Sessions : SessionInv(s)'
<1>1. /\ test' = test /\ testNew' = testNew
      /\ pairLock' = pairLock /\ advisory' = advisory /\ tx' = tx /\ LocksExclude'
      /\ pairLock[p] = None /\ pair[p].status = "leased"
      /\ \A q \in Pairs \ {p} : pair'[q] = pair[q] /\ pairNew'[q] = pairNew[q]
  BY DEF Expires, Unseen
<1>2. pair'[p].status = "leased"
  BY <1>1 DEF Expires, Late, Inv, TypeOK, PairRow
<1>3. test[TestOf[p]].status \notin Early \cup {"queued"}
  BY <1>1, NewIsNotNo DEF Inv, CommittedInv, EarlyHasNoPairs, QueuedIsFresh
<1>4. CommittedInv'
  BY <1>1, <1>2, <1>3
  DEF Inv, CommittedInv, EarlyHasNoPairs, StartedHasPairs, QueuedIsFresh, OneRunningTest
<1>5. ASSUME NEW s \in Sessions PROVE SessionInv(s)'
  <2>1. /\ \A t \in Tests : /\ Locks(s, t)' <=> Locks(s, t)
                            /\ WritesTest(s, t)' <=> WritesTest(s, t)
        /\ SessionInv(s) /\ \A q \in Pairs : TestOf[q] \in Tests
        /\ tx[s] \in Txs
        /\ \A q \in Pairs : pairLock[q] = s => q # p
    BY <1>1, UnseenWrites, WorkersAreNotTheOthers, Constants DEF Expires, Inv, TypeOK
  <2>2. /\ PairSeen(s, p)'.status = "leased" /\ PairSeen(s, p).status = "leased"
        /\ \A q \in Pairs \ {p} : PairSeen(s, q)' = PairSeen(s, q)
        /\ \A t \in Tests : TestSeen(s, t)' = TestSeen(s, t)
    BY <1>1, <1>2, <2>1 DEF PairSeen, TestSeen
  <2>3. \A q \in Pairs : Untouched(s, q) => Untouched(s, q)'
    BY <1>1, <2>2, NewIsNotNo DEF Untouched
  <2>4. RestsFree(s)' /\ Shape(s)' /\ Written(s)'
    BY <1>1, <2>1 DEF SessionInv, RestsFree, Shape, Written
  <2>5. LockedPairs(s)'
    BY <1>1, <2>1 DEF SessionInv, LockedPairs, Created, Claimed, Requeued, Ended
  <2>6. SeesStarted(s)' /\ SeesFresh(s)' /\ ChoosesFresh(s)'
    BY <1>1, <2>1, <2>2, <2>3 DEF SessionInv, SeesStarted, SeesFresh, ChoosesFresh, Txs
  <2>7. TodoHasReason(s)'
    BY <1>1, <2>1 DEF SessionInv, TodoHasReason, Txs
  <2>8. PromotesAlone(s)'
    BY <1>1, <2>1, <2>2 DEF SessionInv, PromotesAlone
  <2>9. QED
    BY <2>4, <2>5, <2>6, <2>7, <2>8 DEF SessionInv
<1>6. QED
  BY <1>4, <1>5

LEMMA InsertsKeeps ==
    ASSUME Inv, NEW t \in Tests, NEW priority \in Priorities, Inserts(t, priority)
    PROVE  CommittedInv' /\ \A s \in Sessions : SessionInv(s)'
<1>1. /\ pair' = pair /\ pairNew' = pairNew
      /\ pairLock' = pairLock /\ advisory' = advisory /\ tx' = tx /\ LocksExclude'
      /\ test[t].status = "absent"
      /\ \A u \in Tests \ {t} : test'[u] = test[u] /\ testNew'[u] = testNew[u]
  BY DEF Inserts, Unseen
<1>2. test'[t].status = "validating"
  BY DEF Inserts, WithStatus, WithPriority, Inv, TypeOK, TestRow
<1>3. CommittedInv'
  <2>1. /\ \A p \in Pairs : TestOf[p] \in Tests
        /\ \A u \in Tests : test'[u].status # test[u].status =>
             test[u].status = "absent" /\ test'[u].status = "validating"
    BY <1>1, <1>2, Constants
  <2>2. EarlyHasNoPairs'
    BY <1>1, <2>1 DEF Inv, CommittedInv, EarlyHasNoPairs, Early
  <2>3. StartedHasPairs'
    BY <1>1, <2>1 DEF Inv, CommittedInv, StartedHasPairs
  <2>4. QueuedIsFresh'
    BY <1>1, <2>1 DEF Inv, CommittedInv, QueuedIsFresh
  <2>5. OneRunningTest'
    BY <1>1, <2>1 DEF Inv, CommittedInv, OneRunningTest
  <2>6. QED
    BY <1>1, <2>2, <2>3, <2>4, <2>5 DEF CommittedInv
<1>4. ASSUME NEW s \in Sessions PROVE SessionInv(s)'
  <2>1. /\ \A u \in Tests : /\ Locks(s, u)' <=> Locks(s, u)
                            /\ WritesTest(s, u)' <=> WritesTest(s, u)
        /\ SessionInv(s) /\ \A q \in Pairs : TestOf[q] \in Tests
        /\ tx[s] \in Txs
    BY UnseenWrites, Constants DEF Inserts, Inv, TypeOK
  <2>2. ~WritesTest(s, t)
    BY <1>1, <2>1 DEF SessionInv, Written, Becoming
  <2>3. /\ \A q \in Pairs : PairSeen(s, q)' = PairSeen(s, q)
        /\ \A u \in Tests \ {t} : TestSeen(s, u)' = TestSeen(s, u)
        /\ TestSeen(s, t)'.status = "validating" /\ TestSeen(s, t) = test[t]
    BY <1>1, <1>2, <2>1, <2>2 DEF PairSeen, TestSeen
  <2>4. RestsFree(s)' /\ Shape(s)' /\ Written(s)'
    BY <1>1, <2>1, <2>2 DEF SessionInv, RestsFree, Shape, Written
  <2>5. LockedPairs(s)'
    BY <1>1, <2>1, <2>2 DEF SessionInv, LockedPairs, Created, Claimed, Requeued, Ended
  <2>6. SeesStarted(s)' /\ SeesFresh(s)'
    BY <1>1, <2>1, <2>2, <2>3 DEF SessionInv, SeesStarted, SeesFresh, Untouched
  <2>7. ChoosesFresh(s)'
    <3>1. tx[s].at = "take" => tx[s].t \in Tests \ {t}
      BY <1>1, <2>1, <2>2 DEF SessionInv, ChoosesFresh, TestSeen, Txs
    <3>2. QED
      BY <1>1, <2>1, <2>3, <3>1 DEF SessionInv, ChoosesFresh, Untouched
  <2>8. TodoHasReason(s)'
    <3>1. tx[s].todo \subseteq Tests
      BY <2>1 DEF Txs
    <3>2. QED
      BY <1>1, <2>1, <2>2, <3>1 DEF SessionInv, TodoHasReason
  <2>9. PromotesAlone(s)'
    BY <1>1, <1>2, <2>1, <2>2, <2>3 DEF SessionInv, PromotesAlone
  <2>10. QED
    BY <2>4, <2>5, <2>6, <2>7, <2>8, <2>9 DEF SessionInv
<1>5. QED
  BY <1>3, <1>4

-----------------------------------------------------------------------------
(* The invariant. *)

LEMMA InitSees ==
    ASSUME Init
    PROVE  /\ \A s \in Sessions, t \in Tests : ~Locks(s, t) /\ ~WritesTest(s, t)
           /\ \A s \in Sessions, p \in Pairs : PairSeen(s, p) = pair[p] /\ pairLock[p] # s
           /\ \A s \in Sessions, t \in Tests : TestSeen(s, t) = test[t]
           /\ \A s \in Sessions : tx[s] = Idle /\ advisory # s
           /\ \A t \in Tests : test[t].status = InitialStatus[t]
           /\ \A p \in Pairs : pairLock[p] = None
           /\ \A p \in Pairs : pair[p] = IF InitialStatus[TestOf[p]] \in {"queued", "running"}
                                         THEN NewPair ELSE NoPair
<1>1. \A s \in Sessions, t \in Tests : ~Locks(s, t) /\ ~WritesTest(s, t)
  BY DEF Init, Locks, WritesTest
<1>2. \A s \in Sessions, p \in Pairs : PairSeen(s, p) = pair[p] /\ pairLock[p] # s
  BY WorkersAreNotTheOthers DEF Init, PairSeen
<1>3. \A s \in Sessions, t \in Tests : TestSeen(s, t) = test[t]
  BY <1>1 DEF TestSeen
<1>4. QED
  BY <1>1, <1>2, <1>3, WorkersAreNotTheOthers DEF Init

LEMMA InitInv == Init => Inv
<1> SUFFICES ASSUME Init PROVE Inv
  OBVIOUS
<1>1. TypeOK
  BY InitTyped
<1>2. CommittedInv
  <2>1. LocksExclude
    BY DEF Init, LocksExclude
  <2>2. EarlyHasNoPairs /\ StartedHasPairs /\ QueuedIsFresh
    <3>1. \A p \in Pairs : /\ TestOf[p] \in Tests
                           /\ test[TestOf[p]].status = InitialStatus[TestOf[p]]
      BY InitSees, Constants
    <3>2. \A t \in Tests : InitialStatus[t] \in {"absent", "validating", "queued", "running"}
      BY Constants
    <3>3. QED
      BY <3>1, <3>2, InitSees, NewIsNotNo
      DEF Early, EarlyHasNoPairs, StartedHasPairs, QueuedIsFresh
  <2>3. OneRunningTest
    BY InitSees, Constants, SessionsNamed DEF OneRunningTest
  <2>4. QED
    BY <2>1, <2>2, <2>3 DEF CommittedInv
<1>3. ASSUME NEW s \in Sessions PROVE SessionInv(s)
  <2>1. RestsFree(s) /\ Shape(s) /\ ChoosesFresh(s) /\ TodoHasReason(s)
    BY InitSees, IdleFields DEF RestsFree, Shape, ChoosesFresh, TodoHasReason
  <2>2. Written(s) /\ LockedPairs(s) /\ SeesStarted(s) /\ SeesFresh(s)
    <3>1. /\ \A t \in Tests : ~WritesTest(s, t)
          /\ \A p \in Pairs : pairLock[p] # s /\ TestOf[p] \in Tests
      BY InitSees, Constants
    <3>2. QED
      BY <3>1 DEF Written, LockedPairs, SeesStarted, SeesFresh
  <2>3. PromotesAlone(s)
    BY <1>2, InitSees, IdleFields DEF PromotesAlone, CommittedInv, OneRunningTest
  <2>4. QED
    BY <2>1, <2>2, <2>3 DEF SessionInv
<1>4. QED
  BY <1>1, <1>2, <1>3 DEF Inv

\* A statement of r keeps everything when it keeps the invariant of r.
LEMMA StatementKeeps ==
    ASSUME Inv, NEW r \in Sessions, Statement(r), SessionInv(r)'
    PROVE  CommittedInv' /\ \A s \in Sessions : SessionInv(s)'
BY StatementKeepsCommitted, StatementKeepsOthers

LEMMA NextInv == Inv /\ [Next]_vars => Inv'
<1> SUFFICES ASSUME Inv, [Next]_vars PROVE CommittedInv' /\ \A s \in Sessions : SessionInv(s)'
  BY NextTyped DEF Inv
<1>1. ASSUME NEW r \in Sessions, Rests(r)
      PROVE  CommittedInv' /\ \A s \in Sessions : SessionInv(s)'
  BY <1>1, RestsKeeps, StatementKeeps DEF Rests
<1>2. ASSUME NEW r \in Sessions, TakesPairs(r)
      PROVE  CommittedInv' /\ \A s \in Sessions : SessionInv(s)'
  BY <1>2, TakesPairsKeeps, StatementKeeps DEF TakesPairs
<1>3. ASSUME NEW r \in Sessions, PromotesNone(r)
      PROVE  CommittedInv' /\ \A s \in Sessions : SessionInv(s)'
  BY <1>3, PromotesNoneKeeps, StatementKeeps DEF PromotesNone, Serialises
<1>4. ASSUME NEW r \in Sessions, Publishes(r)
      PROVE  CommittedInv' /\ \A s \in Sessions : SessionInv(s)'
  BY <1>4, PublishesKeepsCommitted, PublishesKeepsOwn, PublishesKeepsOthers
<1>5. ASSUME NEW r \in Sessions, NEW t \in Tests, WritesOne(r, t)
      PROVE  CommittedInv' /\ \A s \in Sessions : SessionInv(s)'
  BY <1>5, WritesOneKeeps, StatementKeeps DEF WritesOne
<1>6. ASSUME NEW r \in Sessions, NEW t \in Tests, Refreshes(r, t)
      PROVE  CommittedInv' /\ \A s \in Sessions : SessionInv(s)'
  BY <1>6, RefreshesKeeps, StatementKeeps DEF Refreshes, WritesRow
<1>7. ASSUME NEW r \in Sessions, NEW t \in Tests, Promotes(r, t)
      PROVE  CommittedInv' /\ \A s \in Sessions : SessionInv(s)'
  BY <1>7, PromotesKeeps, StatementKeeps DEF Promotes, WritesRow
<1>8. ASSUME NEW r \in Sessions, NEW t \in Tests, Chooses(r, t)
      PROVE  CommittedInv' /\ \A s \in Sessions : SessionInv(s)'
  BY <1>8, ChoosesKeeps, StatementKeeps DEF Chooses, Serialises
<1>9. ASSUME NEW t \in Tests, Passes(t)
      PROVE  CommittedInv' /\ \A s \in Sessions : SessionInv(s)'
  BY <1>9, PassesKeeps, StatementKeeps, SessionsNamed DEF Passes
<1>10. QED
  BY <1>1, <1>2, <1>3, <1>4, <1>5, <1>6, <1>7, <1>8, <1>9,
     StepsAreOfAKind, StuttersKeeps, ExpiresKeeps, InsertsKeeps DEF StepKind

LEMMA Invariance == Spec => []Inv
BY InitInv, NextInv, PTL DEF Spec

\* At most one test runs, in what is committed: the unique index
\* one_running_test is never put to use, because a promotion holds the advisory
\* lock from its search for a running test to its commit.
THEOREM OneTestRuns == Spec => []OneRunningTest
BY Invariance, PTL DEF Inv, CommittedInv

-----------------------------------------------------------------------------
(* The life of a pair: what a session wrote on a pair that it locks is one *)
(* move of module PairLease away from what is committed.                   *)

Move(row, new) ==
    \/ new = row
    \/ row = NoPair /\ new = NewPair
    \/ row.status = "pending" /\ \E c \in Clients : new = Lease(row, c)
    \/ row.status = "leased" /\ new \in {Late(row), Requeue(row)}
    \/ row.status = "leased" /\ \E o \in Outcomes : new = Complete(row, o, row.leasedTo)
    \/ /\ row.status = "leased" /\ row.due /\ row.attempts >= MaxAttempts
       /\ new = [row EXCEPT !.status = "discarded"]

LockedMoves == \A p \in Pairs : pairLock[p] # None => Move(pair[p], pairNew[p])

LEMMA MoveIsAfter ==
    ASSUME NEW row, NEW new, Move(row, new)
    PROVE  new \in Lifecycle!After(row)
<1>1. row = NoPair => NewPair \in Lifecycle!Created(row)
  BY DEF Lifecycle!Created, Lifecycle!NoPair, Lifecycle!NewPair, NoPair, NewPair
<1>2. \A c \in Clients : row.status = "pending" => Lease(row, c) \in Lifecycle!Leased(row)
  BY Zenon DEF Lease, Lifecycle!Leased
<1>3. row.status = "leased" => /\ Requeue(row) \in Lifecycle!Returned(row)
                               /\ Late(row) \in Lifecycle!Overdue(row)
  BY Zenon DEF Requeue, Late, Lifecycle!Returned, Lifecycle!Overdue
<1>4. \A o \in Outcomes : row.status = "leased" =>
        Complete(row, o, row.leasedTo) \in Lifecycle!Completed(row)
  BY Zenon DEF Complete, Lifecycle!Completed
<1>5. row.status = "leased" /\ row.due /\ row.attempts >= MaxAttempts =>
        [row EXCEPT !.status = "discarded"] \in Lifecycle!Discarded(row)
  BY Zenon DEF Lifecycle!Discarded
<1>6. QED
  BY <1>1, <1>2, <1>3, <1>4, <1>5, Zenon DEF Lifecycle!After, Move

LEMMA StatementLockedMoves ==
    ASSUME Inv, LockedMoves, Inv', NEW r \in Sessions, Statement(r),
           \A p \in Pairs : pairLock'[p] = r =>
             \/ pairLock[p] = r /\ pairNew'[p] = pairNew[p]
             \/ Move(pair[p], pairNew'[p])
    PROVE  LockedMoves'
<1>1. pair' = pair
  BY DEF Statement
<1> SUFFICES ASSUME NEW p \in Pairs, pairLock'[p] # None PROVE Move(pair[p], pairNew'[p])
  BY <1>1 DEF LockedMoves
<1>2. CASE pairLock'[p] = r
  BY <1>2, WorkersAreNotTheOthers DEF LockedMoves
<1>3. CASE pairLock'[p] # r
  <2>1. pairLock'[p] \in Sessions \ {r}
    BY <1>3 DEF Inv, TypeOK
  <2>2. QED
    BY <2>1, WorkersAreNotTheOthers DEF LockedMoves, Statement, OthersKeep
<1>4. QED
  BY <1>2, <1>3

LEMMA NextLockedMoves == Inv /\ LockedMoves /\ [Next]_vars => LockedMoves'
<1> SUFFICES ASSUME Inv, LockedMoves, [Next]_vars PROVE LockedMoves'
  OBVIOUS
<1>1. Inv' /\ StepKind
  BY NextInv, StepsAreOfAKind
<1>2. ASSUME NEW r \in Sessions, Rests(r) PROVE LockedMoves'
  BY <1>1, <1>2, StatementLockedMoves DEF Rests, HoldsNothing
<1>3. ASSUME NEW r \in Sessions, TakesPairs(r) PROVE LockedMoves'
  <2>1. \A p \in Pairs : pairLock'[p] = r => Move(pair[p], pairNew'[p])
    BY <1>3 DEF TakesPairs, Claims, Requeues, Completes, Discards, Move
  <2>2. QED
    BY <1>1, <1>3, <2>1, StatementLockedMoves DEF TakesPairs
<1>4. ASSUME NEW r \in Sessions, NEW t \in Tests, WritesOne(r, t) PROVE LockedMoves'
  BY <1>1, <1>4, StatementLockedMoves DEF WritesOne
<1>5. ASSUME NEW t \in Tests, Passes(t) PROVE LockedMoves'
  <2>1. \A p \in Pairs : pairLock'[p] = Smoke => Move(pair[p], pairNew'[p])
    BY <1>5 DEF Passes, Inv, CommittedInv, EarlyHasNoPairs, Early, Move
  <2>2. QED
    BY <1>1, <1>5, <2>1, StatementLockedMoves, SessionsNamed DEF Passes
<1>6. ASSUME NEW r \in Sessions, NEW t \in Tests, Refreshes(r, t) \/ Promotes(r, t)
      PROVE  LockedMoves'
  BY <1>1, <1>6, StatementLockedMoves DEF Refreshes, Promotes, WritesRow
<1>7. ASSUME NEW r \in Sessions, Serialises(r) PROVE LockedMoves'
  BY <1>1, <1>7, StatementLockedMoves DEF Serialises
<1>8. ASSUME NEW r \in Sessions, Publishes(r) PROVE LockedMoves'
  <2>1. \A p \in Pairs : pairLock'[p] # None => pairLock[p] = pairLock'[p] /\ pairLock[p] # r
    BY <1>8 DEF Publishes
  <2>2. pairNew' = pairNew /\ \A p \in Pairs : pairLock[p] # r => pair'[p] = pair[p]
    BY <1>8, Published DEF Publishes
  <2>3. QED
    BY <2>1, <2>2 DEF LockedMoves
<1>9. ASSUME NEW p \in Pairs, Expires(p) PROVE LockedMoves'
  BY <1>9 DEF Expires, Unseen, LockedMoves
<1>10. ASSUME Stutters \/ \E t \in Tests, priority \in Priorities : Inserts(t, priority)
       PROVE  LockedMoves'
  BY <1>10 DEF Stutters, Inserts, Unseen, LockedMoves
<1>11. QED
  BY <1>1, <1>2, <1>3, <1>4, <1>5, <1>6, <1>7, <1>8, <1>9, <1>10
  DEF StepKind, PromotesNone, Chooses

LEMMA StepsMovePairs ==
    Inv /\ LockedMoves /\ [Next]_vars => [Lifecycle!Next]_pair
<1> SUFFICES ASSUME Inv, LockedMoves, [Next]_vars, pair' # pair
             PROVE  \A p \in Pairs : pair'[p] \in Lifecycle!After(pair[p])
  BY DEF Lifecycle!Next
<1>1. StepKind
  BY StepsAreOfAKind
<1>2. ASSUME NEW r \in Sessions, Statement(r) PROVE FALSE
  BY <1>2 DEF Statement
<1>3. ASSUME NEW r \in Sessions, Publishes(r), NEW p \in Pairs PROVE Move(pair[p], pair'[p])
  <2>1. /\ pairLock[p] # r => pair'[p] = pair[p]
        /\ pairLock[p] = r => pair'[p] = pairNew[p]
    BY <1>3, Published
  <2>2. QED
    BY <2>1, WorkersAreNotTheOthers DEF LockedMoves, Move
<1>4. ASSUME NEW q \in Pairs, Expires(q), NEW p \in Pairs PROVE Move(pair[p], pair'[p])
  BY <1>4 DEF Expires, Move
<1>5. (\E r \in Sessions : Publishes(r)) \/ \E q \in Pairs : Expires(q)
  BY <1>1, <1>2, SessionsNamed
  DEF StepKind, Rests, TakesPairs, PromotesNone, Chooses, Serialises, WritesOne, Refreshes,
      Promotes, WritesRow, Passes, Inserts, Stutters
<1>6. \A p \in Pairs : Move(pair[p], pair'[p])
  BY <1>3, <1>4, <1>5
<1>7. QED
  BY <1>6, MoveIsAfter

LEMMA LockedMovesInvariance == Spec => []LockedMoves
<1>1. Init => LockedMoves
  BY InitSees DEF LockedMoves
<1>2. QED
  BY <1>1, NextLockedMoves, Invariance, PTL DEF Spec

\* The rows of job_pairs live the life of module PairLease under every
\* interleaving of claims, results, returns, recoveries, commits and
\* rollbacks: the queue implements it (submit_result, recover_expired_leases).
THEOREM PairsLiveTheirLife == Spec => PairLifecycle
<1>1. Init => Lifecycle!Init
  BY DEF Init, Lifecycle!Init, NoPair, NewPair, Lifecycle!NoPair, Lifecycle!NewPair
<1>2. QED
  BY <1>1, StepsMovePairs, Invariance, LockedMovesInvariance, PTL
  DEF Spec, PairLifecycle, Lifecycle!Spec

-----------------------------------------------------------------------------
(* The queue never stalls: before it promotes, a session neither ends the  *)
(* running test nor queues one, but in the statements that lead to the     *)
(* promotion; afterwards it sees a running test if it sees a queued one.   *)
(* Between the two it holds the advisory lock, so nobody else does either. *)

Unpromoted(s) ==
    \A t \in Tests :
        WritesTest(s, t) /\ advisory # s /\ tx[s].at # "promote"
        /\ ~(tx[s].at = "refresh" /\ tx[s].op = "smoke")
            => /\ test[t].status = "running" => testNew[t].status = "running"
               /\ testNew[t].status = "queued" => test[t].status = "queued"

PromotedWell(s) ==
    advisory = s /\ tx[s].at \notin {"promote", "take"} =>
        (SeenAs(s, "queued") # {} => SeenAs(s, "running") # {})

StallInv ==
    QueueNeverStalls /\ \A s \in Sessions : Unpromoted(s) /\ PromotedWell(s)

LEMMA SeenAfter ==
    ASSUME NEW s, \A t \in Tests : TestSeen(s, t)' = TestSeen(s, t)
    PROVE  \A status : SeenAs(s, status)' = SeenAs(s, status)
BY DEF SeenAs

LEMMA StatementKeepsStallInv ==
    ASSUME Inv, StallInv, NEW r \in Sessions, Statement(r), Unpromoted(r)', PromotedWell(r)'
    PROVE  StallInv'
<1>1. QueueNeverStalls'
  BY DEF StallInv, QueueNeverStalls, Statement
<1>2. ASSUME NEW s \in Sessions \ {r} PROVE Unpromoted(s)' /\ PromotedWell(s)'
  <2>1. /\ tx'[s] = tx[s] /\ (advisory' = s <=> advisory = s) /\ test' = test
        /\ \A t \in Tests : /\ WritesTest(s, t)' <=> WritesTest(s, t)
                            /\ WritesTest(s, t) => testNew'[t] = testNew[t]
        /\ \A status : SeenAs(s, status)' = SeenAs(s, status)
    BY SameView, SeenAfter DEF Statement
  <2>2. QED
    BY <2>1 DEF StallInv, Unpromoted, PromotedWell
<1>3. QED
  BY <1>1, <1>2 DEF StallInv

LEMMA PublishesKeepsStallInv ==
    ASSUME Inv, StallInv, NEW r \in Sessions, Publishes(r)
    PROVE  StallInv'
<1>1. /\ tx[r].at = "commit" /\ advisory' # r
      /\ \A t \in Tests : ~WritesTest(r, t)' /\ test'[t] = TestSeen(r, t)
      /\ \A t \in Tests : /\ ~WritesTest(r, t) => test'[t] = test[t]
                          /\ WritesTest(r, t) => test'[t] = testNew[t]
  BY Published, NoWritesWithoutLocks DEF Publishes, HoldsNothing, Locks, WritesTest
\* A commit without the advisory lock adds no queued test and ends no running one.
<1>2. ASSUME advisory # r
      PROVE  \A t \in Tests : /\ test[t].status = "running" => test'[t].status = "running"
                              /\ test'[t].status = "queued" => test[t].status = "queued"
  BY <1>1, <1>2 DEF StallInv, Unpromoted
<1>3. QueueNeverStalls'
  <2>1. CASE advisory = r
    BY <1>1, <2>1 DEF StallInv, PromotedWell, SeenAs, QueueNeverStalls
  <2>2. CASE advisory # r
    BY <1>2, <2>2 DEF StallInv, QueueNeverStalls
  <2>3. QED
    BY <2>1, <2>2
<1>4. Unpromoted(r)' /\ PromotedWell(r)'
  BY <1>1 DEF Unpromoted, PromotedWell
<1>5. ASSUME NEW s \in Sessions \ {r} PROVE Unpromoted(s)' /\ PromotedWell(s)'
  <2>1. /\ tx'[s] = tx[s] /\ (advisory' = s <=> advisory = s) /\ testNew' = testNew
        /\ \A t \in Tests : WritesTest(s, t)' <=> WritesTest(s, t)
    BY DEF Publishes, OthersKeep
  <2>2. \A t \in Tests : WritesTest(s, t) => test'[t] = test[t]
    BY <1>1, OneWriter DEF Inv, CommittedInv
  <2>3. Unpromoted(s)'
    BY <2>1, <2>2 DEF StallInv, Unpromoted
  <2>4. PromotedWell(s)'
    <3> SUFFICES ASSUME advisory = s, tx[s].at \notin {"promote", "take"},
                        NEW t \in Tests, TestSeen(s, t)'.status = "queued"
                 PROVE  \E u \in Tests : TestSeen(s, u)'.status = "running"
      BY <2>1 DEF PromotedWell, SeenAs
    <3>1. \A u \in Tests : /\ WritesTest(s, u) => TestSeen(s, u)' = TestSeen(s, u)
                           /\ ~WritesTest(s, u) => TestSeen(s, u)' = test'[u]
                                                   /\ TestSeen(s, u) = test[u]
      BY <2>1 DEF TestSeen
    <3>2. TestSeen(s, t).status = "queued"
      BY <1>2, <3>1
    <3>3. PICK u \in Tests : TestSeen(s, u).status = "running"
      BY <3>2 DEF StallInv, PromotedWell, SeenAs
    <3>4. TestSeen(s, u)'.status = "running"
      BY <1>2, <3>1, <3>3
    <3>5. QED
      BY <3>4
  <2>5. QED
    BY <2>3, <2>4
<1>6. QED
  BY <1>3, <1>4, <1>5 DEF StallInv

LEMMA RefreshesKeepsStallInv ==
    ASSUME Inv, StallInv, NEW r \in Sessions, NEW t \in Tests, Refreshes(r, t)
    PROVE  StallInv'
<1>1. /\ \A u \in Tests : WritesTest(r, u)' <=> WritesTest(r, u) \/ u = t
      /\ \A u \in Tests \ {t} : testNew'[u] = testNew[u]
      /\ testNew'[t] = Refreshed(r, t)
      /\ advisory' = advisory /\ Statement(r)
      /\ tx[r].at = "refresh" /\ t \in tx[r].todo
  BY DEF Refreshes, WritesRow
<1>2. /\ \A u \in Tests : TestSeen(r, u)' = IF u = t THEN testNew'[t] ELSE TestSeen(r, u)
      /\ test' = test
  BY RowView DEF Refreshes
<1>3. tx'[r].at = AfterRefresh(r, t) /\ tx'[r].op = tx[r].op
  BY Fields DEF Refreshes, Inv, TypeOK
<1>4. CASE AfterRefresh(r, t) = "promote"
  BY <1>1, <1>3, <1>4, StatementKeepsStallInv DEF Unpromoted, PromotedWell
<1>5. CASE AfterRefresh(r, t) # "promote"
  <2>1. Verdict(r, t) = "pending" /\ tx[r].op # "smoke"
    BY <1>5 DEF AfterRefresh
  <2>2. testNew'[t].status = TestSeen(r, t).status
    BY <1>1, <2>1, RefreshedStatus DEF Inv
  <2>3. ~WritesTest(r, t)
    BY <1>1, <2>1 DEF Inv, SessionInv, TodoHasReason
  <2>4. testNew'[t].status = test[t].status
    BY <2>2, <2>3 DEF TestSeen
  <2>5. Unpromoted(r)'
    BY <1>1, <1>2, <2>1, <2>4 DEF StallInv, Unpromoted
  <2>6. \A status : SeenAs(r, status)' = SeenAs(r, status)
    BY <1>2, <2>2 DEF SeenAs
  <2>7. PromotedWell(r)'
    BY <1>1, <1>3, <2>6 DEF StallInv, PromotedWell
  <2>8. QED
    BY <1>1, <2>5, <2>7, StatementKeepsStallInv
<1>6. QED
  BY <1>4, <1>5

LEMMA NextStallInv == Inv /\ StallInv /\ [Next]_vars => StallInv'
<1> SUFFICES ASSUME Inv, StallInv, [Next]_vars PROVE StallInv'
  OBVIOUS
<1>1. Inv' /\ StepKind
  BY NextInv, StepsAreOfAKind
<1>2. ASSUME NEW r \in Sessions, Statement(r), advisory' # r, \A t \in Tests : ~WritesTest(r, t)'
      PROVE  StallInv'
  BY <1>2, StatementKeepsStallInv DEF Unpromoted, PromotedWell
<1>3. ASSUME NEW r \in Sessions, Rests(r) PROVE StallInv'
  BY <1>2, <1>3, NoWritesWithoutLocks DEF Rests, HoldsNothing, Locks, WritesTest
<1>4. ASSUME NEW r \in Sessions, TakesPairs(r) PROVE StallInv'
  BY <1>2, <1>4 DEF TakesPairs
<1>5. ASSUME NEW r \in Sessions, NEW t \in Tests, WritesOne(r, t) PROVE StallInv'
  <2>1. /\ Statement(r) /\ advisory' # r /\ test' = test
        /\ \A u \in Tests : WritesTest(r, u)' <=> u = t
        /\ test[t] \in TestRow
    BY <1>5 DEF WritesOne, Statement, Inv, TypeOK
  <2>2. /\ test[t].status = "running" => tx'[r].at = "promote"
        /\ testNew'[t].status = "queued" => test[t].status = "queued"
    BY <1>5, <2>1
    DEF WritesOne, Stops, Prioritises, Fails, WithStatus, WithPriority, TestRow, AfterStop
  <2>3. Unpromoted(r)' /\ PromotedWell(r)'
    BY <2>1, <2>2 DEF Unpromoted, PromotedWell
  <2>4. QED
    BY <2>1, <2>3, StatementKeepsStallInv
<1>6. ASSUME NEW t \in Tests, Passes(t) PROVE StallInv'
  BY <1>6, StatementKeepsStallInv, SessionsNamed DEF Passes, Unpromoted, PromotedWell
<1>7. ASSUME NEW r \in Sessions, NEW t \in Tests, Promotes(r, t) PROVE StallInv'
  <2>1. advisory' = r /\ Statement(r) /\ testNew'[t].status = "running"
    <3>1. advisory = r
      BY <1>7 DEF Promotes, Inv, SessionInv, Shape
    <3>2. TestSeen(r, t) \in TestRow
      BY SeenIsRow DEF Inv
    <3>3. QED
      BY <1>7, <3>1, <3>2 DEF Promotes, WritesRow, WithStatus, TestRow
  <2>2. TestSeen(r, t)'.status = "running"
    BY <1>7, <2>1, RowView DEF Promotes
  <2>3. Unpromoted(r)' /\ PromotedWell(r)'
    BY <2>1, <2>2 DEF Unpromoted, PromotedWell, SeenAs
  <2>4. QED
    BY <2>1, <2>3, StatementKeepsStallInv
<1>8. ASSUME NEW r \in Sessions, NEW t \in Tests, Chooses(r, t) PROVE StallInv'
  <2>1. advisory' = r /\ Statement(r) /\ tx'[r].at = "take"
    BY <1>8, Fields DEF Chooses, Serialises, Inv, TypeOK
  <2>2. QED
    BY <2>1, StatementKeepsStallInv DEF Unpromoted, PromotedWell
<1>9. ASSUME NEW r \in Sessions, PromotesNone(r) PROVE StallInv'
  <2>1. advisory' = r /\ Statement(r)
    BY <1>9 DEF PromotesNone, Serialises
  <2>2. \A status : SeenAs(r, status)' = SeenAs(r, status)
    BY <1>9, SerialisesView, SeenAfter DEF PromotesNone
  <2>3. Unpromoted(r)' /\ PromotedWell(r)'
    BY <1>9, <2>1, <2>2 DEF PromotesNone, Unpromoted, PromotedWell
  <2>4. QED
    BY <2>1, <2>3, StatementKeepsStallInv
<1>10. ASSUME NEW t \in Tests, NEW priority \in Priorities, Inserts(t, priority)
       PROVE  StallInv'
  <2>1. /\ test[t].status = "absent" /\ tx' = tx /\ advisory' = advisory
        /\ \A u \in Tests \ {t} : test'[u] = test[u] /\ testNew'[u] = testNew[u]
        /\ \A s \in Sessions, u \in Tests : WritesTest(s, u)' <=> WritesTest(s, u)
    BY <1>10 DEF Inserts, Unseen
  <2>2. test'[t].status = "validating"
    BY <1>10 DEF Inserts, WithStatus, WithPriority, Inv, TypeOK, TestRow
  <2>3. \A s \in Sessions : ~WritesTest(s, t)
    BY <2>1 DEF Inv, SessionInv, Written, Becoming
  <2>4. QueueNeverStalls'
    BY <2>1, <2>2 DEF StallInv, QueueNeverStalls
  <2>5. ASSUME NEW s \in Sessions PROVE Unpromoted(s)' /\ PromotedWell(s)'
    <3>1. /\ \A u \in Tests \ {t} : TestSeen(s, u)' = TestSeen(s, u)
          /\ TestSeen(s, t)'.status = "validating" /\ TestSeen(s, t).status = "absent"
      BY <2>1, <2>2, <2>3 DEF TestSeen
    <3>2. SeenAs(s, "queued")' = SeenAs(s, "queued") /\ SeenAs(s, "running")' = SeenAs(s, "running")
      BY <3>1 DEF SeenAs
    <3>3. QED
      BY <2>1, <2>3, <3>2 DEF StallInv, Unpromoted, PromotedWell
  <2>6. QED
    BY <2>4, <2>5 DEF StallInv
<1>11. ASSUME Stutters \/ \E p \in Pairs : Expires(p) PROVE StallInv'
  <2>1. /\ test' = test /\ testNew' = testNew /\ tx' = tx /\ advisory' = advisory
        /\ \A s \in Sessions, u \in Tests : WritesTest(s, u)' <=> WritesTest(s, u)
    BY <1>11 DEF Stutters, Expires, Unseen
  <2>2. \A s \in Sessions : \A status : SeenAs(s, status)' = SeenAs(s, status)
    BY <2>1 DEF SeenAs, TestSeen
  <2>3. QED
    BY <2>1, <2>2 DEF StallInv, QueueNeverStalls, Unpromoted, PromotedWell
<1>12. QED
  BY <1>1, <1>3, <1>4, <1>5, <1>6, <1>7, <1>8, <1>9, <1>10, <1>11,
     PublishesKeepsStallInv, RefreshesKeepsStallInv DEF StepKind

LEMMA StallInvariance == Spec => []StallInv
<1>1. Init => StallInv
  <2> SUFFICES ASSUME Init PROVE StallInv
    OBVIOUS
  <2>1. QueueNeverStalls
    BY InitSees, Constants, SessionsNamed DEF QueueNeverStalls
  <2>2. QED
    BY <2>1, InitSees DEF StallInv, Unpromoted, PromotedWell
<1>2. QED
  BY <1>1, NextStallInv, Invariance, PTL DEF Spec

\* No commit leaves a test waiting and none running: whoever ends the running
\* test promotes the next before it commits, and two transactions that race, one
\* ending a test and one queueing another, are put in order by the advisory lock.
THEOREM TheQueueNeverStalls == Spec => []QueueNeverStalls
BY StallInvariance, PTL DEF StallInv

-----------------------------------------------------------------------------
(* Statistics.  A row that a session has written agrees with the pairs as  *)
(* the session sees them, but for the tests that it has yet to refresh;    *)
(* nobody else can count a pair of a test whose row the session locks.     *)

Gapless(history, n) == history = [i \in 1..(n + 1) |-> i - 1]

CountsCommitted ==
    \A t \in Tests :
        /\ test[t].penta = [k \in Categories |-> Cardinality(Played(t, {k}))]
        /\ \/ Gapless(test[t].history, Cardinality(Played(t, Categories)))
           \/ test[t].history = <<>> /\ \A p \in PairsOf(t) : pair[p].status = "absent"

CountsWritten(s) ==
    \A t \in Tests : WritesTest(s, t) =>
        IF t \in tx[s].todo THEN testNew[t].history = test[t].history
        ELSE /\ testNew[t].penta = Recount(s, t)
             /\ \/ Gapless(testNew[t].history, PairsValid(s, t))
                \/ /\ testNew[t].history = <<>>
                   /\ \A p \in PairsOf(t) : PairSeen(s, p).status = "absent"

CountInv == CountsCommitted /\ \A s \in Sessions : CountsWritten(s)

\* The counts depend on which pairs are completed, and on their outcomes.
LEMMA SameCounts ==
    ASSUME NEW s, NEW t,
           \A p \in PairsOf(t) :
             \/ PairSeen(s, p)' = PairSeen(s, p)
             \/ PairSeen(s, p)'.status # "completed" /\ PairSeen(s, p).status # "completed"
    PROVE  Recount(s, t)' = Recount(s, t) /\ PairsValid(s, t)' = PairsValid(s, t)
<1>1. ASSUME NEW ks PROVE Scored(s, t, ks)' = Scored(s, t, ks)
  BY DEF Scored, PairsOf
<1>2. QED
  BY <1>1 DEF Recount, PairsValid

\* A session that has neither written a test nor is to refresh it sees as many
\* results of it as everybody.
LEMMA Uncounted ==
    ASSUME Inv, NEW s \in Sessions, NEW t \in Tests, ~WritesTest(s, t), t \notin tx[s].todo
    PROVE  /\ \A p \in PairsOf(t) :
                /\ \/ PairSeen(s, p) = pair[p]
                   \/ PairSeen(s, p).status # "completed" /\ pair[p].status # "completed"
                /\ pair[p].status = "absent" <=> PairSeen(s, p).status = "absent"
                /\ pair[p].status \in {"pending", "leased"}
                     <=> PairSeen(s, p).status \in {"pending", "leased"}
                /\ pair[p].status \in Over <=> PairSeen(s, p).status \in Over
           /\ \A ks : Scored(s, t, ks) = Played(t, ks)
           /\ Recount(s, t) = [k \in Categories |-> Cardinality(Played(t, {k}))]
           /\ PairsValid(s, t) = Cardinality(Played(t, Categories))
<1>1. ASSUME NEW p \in PairsOf(t)
      PROVE  /\ \/ PairSeen(s, p) = pair[p]
                \/ PairSeen(s, p).status # "completed" /\ pair[p].status # "completed"
             /\ pair[p].status = "absent" <=> PairSeen(s, p).status = "absent"
             /\ pair[p].status \in {"pending", "leased"}
                  <=> PairSeen(s, p).status \in {"pending", "leased"}
             /\ pair[p].status \in Over <=> PairSeen(s, p).status \in Over
  <2>1. p \in Pairs /\ TestOf[p] = t
    BY DEF PairsOf
  <2>2. pairLock[p] = s => Claimed(s, p) \/ Requeued(s, p)
    BY <2>1 DEF Inv, SessionInv, LockedPairs, Created, Ended
  <2>3. QED
    BY <2>2 DEF PairSeen, Claimed, Requeued, Over
<1>2. ASSUME NEW ks PROVE Scored(s, t, ks) = Played(t, ks)
  BY <1>1 DEF Scored, Played
<1>3. QED
  BY <1>1, <1>2 DEF Recount, PairsValid

\* A session that is to refresh a test has completed one pair of it, or none.
LEMMA OneMore ==
    ASSUME Inv, NEW s \in Sessions, NEW t \in Tests, ~WritesTest(s, t)
    PROVE  \/ PairsValid(s, t) = Cardinality(Played(t, Categories))
           \/ PairsValid(s, t) = Cardinality(Played(t, Categories)) + 1
<1> DEFINE old == Played(t, Categories)
           new == Scored(s, t, Categories)
           q == tx[s].p
<1>1. \A p \in Pairs : pairLock[p] = s =>
        /\ pair[p].status # "completed"
        /\ pairNew[p].status = "completed" => p = q
  BY NewIsNotNo
  DEF Inv, SessionInv, LockedPairs, Created, Claimed, Requeued, Ended
<1>2. old \subseteq new
  BY <1>1 DEF Played, Scored, PairsOf, PairSeen
<1>3. new \subseteq old \cup {q}
  BY <1>1 DEF Played, Scored, PairsOf, PairSeen
<1>4. IsFiniteSet(old)
  <2>1. old \subseteq Pairs
    BY DEF Played, PairsOf
  <2>2. QED
    BY <2>1, Constants, FS_Subset
<1> HIDE DEF old, new, q
<1>5. CASE q \in new /\ q \notin old
  <2>1. new = old \cup {q}
    BY <1>2, <1>3, <1>5
  <2>2. Cardinality(new) = Cardinality(old) + 1
    BY <1>4, <1>5, <2>1, FS_AddElement
  <2>3. QED
    BY <2>2 DEF old, new, PairsValid
<1>6. CASE ~(q \in new /\ q \notin old)
  <2>1. new = old
    BY <1>2, <1>3, <1>6
  <2>2. QED
    BY <2>1 DEF old, new, PairsValid
<1>7. QED
  BY <1>5, <1>6

\* The point that a refresh appends is the next one.
LEMMA NextPoint ==
    ASSUME NEW n \in Nat, NEW m \in {n, n + 1}, NEW history, Gapless(history, n)
    PROVE  Gapless(WithPoint(history, m), m)
<1>1. history \in Seq(Nat) /\ Len(history) = n + 1 /\ history[n + 1] = n /\ history # <<>>
  BY DEF Gapless
<1>2. CASE m = n
  BY <1>1, <1>2 DEF WithPoint
<1>3. CASE m = n + 1
  <2>1. WithPoint(history, m) = Append(history, n + 1)
    BY <1>1, <1>3 DEF WithPoint
  <2>2. Append(history, n + 1) = [i \in 1..(n + 2) |-> i - 1]
    BY <1>1 DEF Gapless
  <2>3. n + 2 = m + 1
    BY <1>3
  <2>4. WithPoint(history, m) = [i \in 1..(m + 1) |-> i - 1]
    BY <2>1, <2>2, <2>3
  <2>5. QED
    BY <2>4, Zenon DEF Gapless
<1>4. QED
  BY <1>2, <1>3

LEMMA FirstPoint == Gapless(WithPoint(<<>>, 0), 0)
BY DEF Gapless, WithPoint

LEMMA PlayedIsFinite ==
    ASSUME NEW t, NEW ks
    PROVE  IsFiniteSet(Played(t, ks)) /\ Cardinality(Played(t, ks)) \in Nat
<1>1. Played(t, ks) \subseteq Pairs
  BY DEF Played, PairsOf
<1>2. QED
  BY <1>1, Constants, FS_Subset, FS_CardinalityType

LEMMA StatementKeepsCounts ==
    ASSUME Inv, CountInv, NEW r \in Sessions, Statement(r), CountsWritten(r)'
    PROVE  CountInv'
<1>1. CountsCommitted'
  BY DEF Statement, CountInv, CountsCommitted, Played
<1>2. ASSUME NEW s \in Sessions \ {r} PROVE CountsWritten(s)'
  <2>1. /\ tx'[s] = tx[s] /\ test' = test
        /\ \A p \in Pairs : PairSeen(s, p)' = PairSeen(s, p)
        /\ \A t \in Tests : /\ WritesTest(s, t)' <=> WritesTest(s, t)
                            /\ WritesTest(s, t) => testNew'[t] = testNew[t]
    BY SameView DEF Statement
  <2>2. \A t \in Tests : Recount(s, t)' = Recount(s, t) /\ PairsValid(s, t)' = PairsValid(s, t)
    BY <2>1, SameCounts DEF PairsOf
  <2>3. QED
    BY <2>1, <2>2 DEF CountInv, CountsWritten, PairsOf
<1>3. QED
  BY <1>1, <1>2 DEF CountInv

LEMMA PublishesKeepsCounts ==
    ASSUME Inv, CountInv, NEW r \in Sessions, Publishes(r)
    PROVE  CountInv'
<1>1. /\ tx[r].todo = {}
      /\ \A p \in Pairs : pair'[p] = PairSeen(r, p)
      /\ \A t \in Tests : ~WritesTest(r, t)' /\ test'[t] = TestSeen(r, t)
  BY NoWritesWithoutLocks
  DEF Publishes, Inv, SessionInv, Shape, HoldsNothing, Locks, WritesTest
<1>2. CountsCommitted'
  <2> SUFFICES ASSUME NEW t \in Tests
               PROVE  /\ test'[t].penta = [k \in Categories |-> Cardinality(Played(t, {k})')]
                      /\ \/ Gapless(test'[t].history, Cardinality(Played(t, Categories)'))
                         \/ /\ test'[t].history = <<>>
                            /\ \A p \in PairsOf(t) : pair'[p].status = "absent"
    BY DEF CountsCommitted, Gapless, PairsOf
  <2>1. \A ks : Played(t, ks)' = Scored(r, t, ks)
    BY <1>1 DEF Played, Scored, PairsOf
  <2>2. CASE WritesTest(r, t)
    <3>1. /\ testNew[t].penta = Recount(r, t)
          /\ \/ Gapless(testNew[t].history, PairsValid(r, t))
             \/ /\ testNew[t].history = <<>>
                /\ \A p \in PairsOf(t) : PairSeen(r, p).status = "absent"
      <4>1. CountsWritten(r) /\ t \notin tx[r].todo
        BY <1>1 DEF CountInv
      <4>2. QED
        BY <2>2, <4>1, Zenon DEF CountsWritten
    <3>2. test'[t] = testNew[t]
      BY <1>1, <2>2 DEF TestSeen
    <3>3. Recount(r, t) = [k \in Categories |-> Cardinality(Played(t, {k})')]
      BY <2>1 DEF Recount
    <3>4. PairsValid(r, t) = Cardinality(Played(t, Categories)')
      BY <2>1 DEF PairsValid
    <3>5. \A p \in PairsOf(t) : pair'[p] = PairSeen(r, p)
      BY <1>1 DEF PairsOf
    <3>6. QED
      BY <3>1, <3>2, <3>3, <3>4, <3>5
  <2>3. CASE ~WritesTest(r, t)
    <3>1. test'[t] = test[t] /\ \A ks : Played(t, ks)' = Played(t, ks)
      BY <1>1, <2>1, <2>3, Uncounted DEF TestSeen
    <3>2. \A p \in PairsOf(t) : pair[p].status = "absent" => pair'[p].status = "absent"
      BY <1>1, <2>3, Uncounted DEF PairsOf
    <3>3. QED
      BY <3>1, <3>2 DEF CountInv, CountsCommitted
  <2>4. QED
    BY <2>2, <2>3
<1>3. CountsWritten(r)'
  BY <1>1 DEF CountsWritten
<1>4. ASSUME NEW s \in Sessions \ {r} PROVE CountsWritten(s)'
  <2> SUFFICES ASSUME NEW t \in Tests, WritesTest(s, t)
               PROVE  IF t \in tx[s].todo THEN testNew[t].history = test'[t].history
                      ELSE /\ testNew[t].penta = Recount(s, t)'
                           /\ \/ Gapless(testNew[t].history, PairsValid(s, t)')
                              \/ /\ testNew[t].history = <<>>
                                 /\ \A p \in PairsOf(t) : PairSeen(s, p)'.status = "absent"
    BY DEF Publishes, OthersKeep, CountsWritten, Gapless
  <2>1. ~WritesTest(r, t) /\ test'[t] = test[t] /\ r \in Sessions
    BY <1>1, OneWriter DEF Inv, CommittedInv, TestSeen
  <2>2. \A p \in PairsOf(t) :
          /\ \/ PairSeen(s, p)' = PairSeen(s, p)
             \/ PairSeen(s, p)'.status # "completed" /\ PairSeen(s, p).status # "completed"
          /\ PairSeen(s, p).status = "absent" => PairSeen(s, p)'.status = "absent"
    <3> SUFFICES ASSUME NEW p \in PairsOf(t)
                 PROVE  /\ \/ PairSeen(s, p)' = PairSeen(s, p)
                           \/ /\ PairSeen(s, p)'.status # "completed"
                              /\ PairSeen(s, p).status # "completed"
                        /\ PairSeen(s, p).status = "absent" => PairSeen(s, p)'.status = "absent"
      OBVIOUS
    <3>1. p \in Pairs /\ (pairLock'[p] = s <=> pairLock[p] = s) /\ pairNew' = pairNew
      BY DEF Publishes, OthersKeep, PairsOf
    <3>2. CASE pairLock[p] = s
      BY <3>1, <3>2 DEF PairSeen
    <3>3. CASE pairLock[p] # s
      <4>1. PairSeen(s, p) = pair[p] /\ PairSeen(s, p)' = PairSeen(r, p)
        BY <1>1, <3>1, <3>3 DEF PairSeen
      <4>2. QED
        BY <1>1, <2>1, <4>1, Uncounted
    <3>4. QED
      BY <3>2, <3>3
  <2>3. Recount(s, t)' = Recount(s, t) /\ PairsValid(s, t)' = PairsValid(s, t)
    BY <2>2, SameCounts
  <2>4. QED
    BY <2>1, <2>2, <2>3 DEF CountInv, CountsWritten
<1>5. QED
  BY <1>2, <1>3, <1>4 DEF CountInv

LEMMA RefreshesKeepsCounts ==
    ASSUME Inv, CountInv, NEW r \in Sessions, NEW t \in Tests, Refreshes(r, t)
    PROVE  CountInv'
<1>1. /\ \A u \in Tests : WritesTest(r, u)' <=> WritesTest(r, u) \/ u = t
      /\ \A u \in Tests \ {t} : testNew'[u] = testNew[u]
      /\ testNew'[t] = Refreshed(r, t)
      /\ Statement(r) /\ t \in tx[r].todo
  BY DEF Refreshes, WritesRow
<1>2. /\ \A p \in Pairs : PairSeen(r, p)' = PairSeen(r, p)
      /\ test' = test
  BY RowView DEF Refreshes
<1>3. tx'[r].todo = tx[r].todo \ {t}
  BY Fields DEF Refreshes, Inv, TypeOK
<1>4. \A u \in Tests : Recount(r, u)' = Recount(r, u) /\ PairsValid(r, u)' = PairsValid(r, u)
  BY <1>2, SameCounts DEF PairsOf
<1>5. /\ testNew'[t].penta = Recount(r, t)
      /\ testNew'[t].history = WithPoint(TestSeen(r, t).history, PairsValid(r, t))
  <2>1. TestSeen(r, t) \in TestRow
    BY SeenIsRow DEF Inv
  <2>2. QED
    BY <1>1, <2>1 DEF Refreshed, TestRow
<1>6. /\ TestSeen(r, t).history = test[t].history
      /\ \/ Gapless(test[t].history, Cardinality(Played(t, Categories)))
         \/ test[t].history = <<>> /\ \A p \in PairsOf(t) : pair[p].status = "absent"
  BY <1>1 DEF CountInv, CountsCommitted, CountsWritten, TestSeen
<1>7. Gapless(testNew'[t].history, PairsValid(r, t))
  <2>1. CASE WritesTest(r, t)
    <3>1. /\ test[t].status = "validating" /\ testNew[t].status = "queued"
      BY <1>1, <2>1 DEF Inv, SessionInv, TodoHasReason
    <3>2. \A p \in PairsOf(t) : PairSeen(r, p).status # "completed" /\ pair[p].status # "completed"
      BY <2>1, <3>1, NewIsNotNo
      DEF Inv, CommittedInv, EarlyHasNoPairs, Early, SessionInv, SeesFresh, Untouched, PairsOf
    <3>3. Scored(r, t, Categories) = {} /\ Played(t, Categories) = {}
      BY <3>2 DEF Scored, Played
    <3>4. PairsValid(r, t) = 0 /\ Cardinality(Played(t, Categories)) = 0
      BY <3>3, FS_EmptySet DEF PairsValid
    <3>5. QED
      BY <1>5, <1>6, <3>4, NextPoint, FirstPoint
  <2>2. CASE ~WritesTest(r, t)
    <3>1. \E p \in PairsOf(t) : pair[p].status # "absent"
      <4>1. PICK p \in Pairs : TestOf[p] = t /\ pairLock[p] = r /\ pairNew[p].status \in Over
        BY <1>1, <2>2 DEF Inv, SessionInv, TodoHasReason
      <4>2. Ended(r, p)
        BY <4>1, NewIsNotNo DEF Inv, SessionInv, LockedPairs, Created, Claimed, Requeued, Over
      <4>3. QED
        BY <4>1, <4>2 DEF Ended, PairsOf
    <3>2. Gapless(test[t].history, Cardinality(Played(t, Categories)))
      BY <1>6, <3>1
    <3>3. PairsValid(r, t) \in {Cardinality(Played(t, Categories)),
                                Cardinality(Played(t, Categories)) + 1}
      BY <2>2, OneMore
    <3>4. QED
      BY <1>5, <1>6, <3>2, <3>3, PlayedIsFinite, NextPoint
  <2>3. QED
    BY <2>1, <2>2
<1>8. CountsWritten(r)'
  <2> SUFFICES ASSUME NEW u \in Tests, u # t, WritesTest(r, u)
               PROVE  IF u \in tx[r].todo THEN testNew[u].history = test[u].history
                      ELSE /\ testNew[u].penta = Recount(r, u)
                           /\ \/ Gapless(testNew[u].history, PairsValid(r, u))
                              \/ /\ testNew[u].history = <<>>
                                 /\ \A p \in PairsOf(u) : PairSeen(r, p).status = "absent"
    BY <1>1, <1>2, <1>3, <1>4, <1>5, <1>7 DEF CountsWritten, PairsOf
  <2>1. QED
    BY DEF CountInv, CountsWritten
<1>9. QED
  BY <1>1, <1>8, StatementKeepsCounts

LEMMA PromotesKeepsCounts ==
    ASSUME Inv, CountInv, NEW r \in Sessions, NEW t \in Tests, Promotes(r, t)
    PROVE  CountInv'
<1>1. /\ \A u \in Tests : WritesTest(r, u)' <=> WritesTest(r, u) \/ u = t
      /\ \A u \in Tests \ {t} : testNew'[u] = testNew[u]
      /\ Statement(r) /\ tx[r].at = "take" /\ tx[r].t = t
  BY DEF Promotes, WritesRow
<1>2. /\ \A p \in Pairs : PairSeen(r, p)' = PairSeen(r, p)
      /\ test' = test
  BY RowView DEF Promotes
<1>3. tx'[r].todo = tx[r].todo
  BY Fields DEF Promotes, Inv, TypeOK
<1>4. \A u \in Tests : Recount(r, u)' = Recount(r, u) /\ PairsValid(r, u)' = PairsValid(r, u)
  BY <1>2, SameCounts DEF PairsOf
<1>5. /\ testNew'[t].penta = TestSeen(r, t).penta
      /\ testNew'[t].history = TestSeen(r, t).history
  <2>1. TestSeen(r, t) \in TestRow
    BY SeenIsRow DEF Inv
  <2>2. QED
    BY <2>1 DEF Promotes, WithStatus, TestRow
<1>6. t \notin tx[r].todo
  <2> SUFFICES ASSUME t \in tx[r].todo PROVE FALSE
    OBVIOUS
  <2>1. \A p \in Pairs : TestOf[p] = t => PairSeen(r, p) = NewPair
    BY <1>1 DEF Inv, SessionInv, ChoosesFresh, Untouched
  <2>2. tx[r].op # "smoke"
    BY <1>1 DEF Inv, SessionInv, TodoHasReason
  <2>3. QED
    BY <2>1, <2>2, NewIsNotNo DEF Inv, SessionInv, TodoHasReason, PairSeen, Over
<1>7. /\ testNew'[t].penta = Recount(r, t)
      /\ \/ Gapless(testNew'[t].history, PairsValid(r, t))
         \/ /\ testNew'[t].history = <<>>
            /\ \A p \in PairsOf(t) : PairSeen(r, p).status = "absent"
  <2>1. CASE WritesTest(r, t)
    BY <1>5, <1>6, <2>1 DEF CountInv, CountsWritten, TestSeen
  <2>2. CASE ~WritesTest(r, t)
    BY <1>5, <1>6, <2>2, Uncounted DEF CountInv, CountsCommitted, TestSeen
  <2>3. QED
    BY <2>1, <2>2
<1>8. CountsWritten(r)'
  <2> SUFFICES ASSUME NEW u \in Tests, u # t, WritesTest(r, u)
               PROVE  IF u \in tx[r].todo THEN testNew[u].history = test[u].history
                      ELSE /\ testNew[u].penta = Recount(r, u)
                           /\ \/ Gapless(testNew[u].history, PairsValid(r, u))
                              \/ /\ testNew[u].history = <<>>
                                 /\ \A p \in PairsOf(u) : PairSeen(r, p).status = "absent"
    BY <1>1, <1>2, <1>3, <1>4, <1>6, <1>7 DEF CountsWritten, PairsOf
  <2>1. QED
    BY DEF CountInv, CountsWritten
<1>9. QED
  BY <1>1, <1>8, StatementKeepsCounts

LEMMA NextCounts == Inv /\ CountInv /\ [Next]_vars => CountInv'
<1> SUFFICES ASSUME Inv, CountInv, [Next]_vars PROVE CountInv'
  OBVIOUS
<1>1. StepKind
  BY StepsAreOfAKind
<1>2. ASSUME NEW r \in Sessions, Statement(r), \A t \in Tests : ~WritesTest(r, t)'
      PROVE  CountInv'
  BY <1>2, StatementKeepsCounts DEF CountsWritten
<1>3. ASSUME NEW r \in Sessions, Rests(r) PROVE CountInv'
  BY <1>2, <1>3, NoWritesWithoutLocks DEF Rests, HoldsNothing, Locks, WritesTest
<1>4. ASSUME NEW r \in Sessions, TakesPairs(r) PROVE CountInv'
  BY <1>2, <1>4 DEF TakesPairs
<1>5. ASSUME NEW r \in Sessions, NEW t \in Tests, WritesOne(r, t) PROVE CountInv'
  <2>1. /\ Statement(r) /\ pair' = pair /\ test' = test /\ tx'[r].todo = {}
        /\ \A u \in Tests : WritesTest(r, u)' <=> u = t
        /\ \A p \in Pairs : pairLock'[p] # r
        /\ test[t] \in TestRow
    BY <1>5 DEF WritesOne, Statement, Inv, TypeOK
  <2>2. testNew'[t].penta = test[t].penta /\ testNew'[t].history = test[t].history
    BY <1>5, <2>1 DEF WritesOne, Stops, Prioritises, Fails, WithStatus, WithPriority, TestRow
  <2>3. \A p \in Pairs : PairSeen(r, p)' = pair[p]
    BY <2>1 DEF PairSeen
  <2>4. \A ks : Scored(r, t, ks)' = Played(t, ks)
    BY <2>3 DEF Scored, Played, PairsOf
  <2>5. /\ Recount(r, t)' = [k \in Categories |-> Cardinality(Played(t, {k}))]
        /\ PairsValid(r, t)' = Cardinality(Played(t, Categories))
    BY <2>4 DEF Recount, PairsValid
  <2>6. /\ testNew'[t].penta = Recount(r, t)'
        /\ \/ Gapless(testNew'[t].history, PairsValid(r, t)')
           \/ /\ testNew'[t].history = <<>>
              /\ \A p \in PairsOf(t) : PairSeen(r, p)'.status = "absent"
    <3>1. /\ test[t].penta = [k \in Categories |-> Cardinality(Played(t, {k}))]
          /\ \/ Gapless(test[t].history, Cardinality(Played(t, Categories)))
             \/ test[t].history = <<>> /\ \A p \in PairsOf(t) : pair[p].status = "absent"
      BY DEF CountInv, CountsCommitted
    <3>2. \A p \in PairsOf(t) : PairSeen(r, p)' = pair[p]
      BY <2>3 DEF PairsOf
    <3>3. QED
      BY <2>2, <2>5, <3>1, <3>2
  <2>7. CountsWritten(r)'
    BY <2>1, <2>6 DEF CountsWritten, Gapless
  <2>8. QED
    BY <2>1, <2>7, StatementKeepsCounts
<1>6. ASSUME NEW t \in Tests, Passes(t) PROVE CountInv'
  <2>1. /\ Statement(Smoke) /\ test' = test /\ tx'[Smoke].todo = {t}
        /\ \A u \in Tests : WritesTest(Smoke, u)' <=> u = t
        /\ test[t] \in TestRow
    BY <1>6 DEF Passes, Statement, Inv, TypeOK
  <2>2. testNew'[t].history = test[t].history
    BY <1>6, <2>1 DEF Passes, WithStatus, TestRow
  <2>3. CountsWritten(Smoke)'
    BY <2>1, <2>2 DEF CountsWritten
  <2>4. QED
    BY <2>1, <2>3, StatementKeepsCounts, SessionsNamed
<1>7. ASSUME NEW r \in Sessions, Serialises(r), tx'[r].todo = tx[r].todo PROVE CountInv'
  <2>1. /\ \A p \in Pairs : PairSeen(r, p)' = PairSeen(r, p)
        /\ \A t \in Tests : WritesTest(r, t)' <=> WritesTest(r, t)
        /\ test' = test /\ testNew' = testNew
    BY <1>7, SerialisesView
  <2>2. \A t \in Tests : Recount(r, t)' = Recount(r, t) /\ PairsValid(r, t)' = PairsValid(r, t)
    BY <2>1, SameCounts DEF PairsOf
  <2>3. CountsWritten(r)'
    BY <1>7, <2>1, <2>2 DEF CountInv, CountsWritten, PairsOf
  <2>4. QED
    BY <1>7, <2>3, StatementKeepsCounts DEF Serialises
<1>8. ASSUME NEW r \in Sessions, PromotesNone(r) \/ \E t \in Tests : Chooses(r, t)
      PROVE  CountInv'
  BY <1>7, <1>8, Fields DEF PromotesNone, Chooses, Inv, TypeOK
<1>9. ASSUME NEW t \in Tests, NEW priority \in Priorities, Inserts(t, priority)
      PROVE  CountInv'
  <2>1. /\ test[t].status = "absent" /\ tx' = tx
        /\ pair' = pair /\ pairNew' = pairNew /\ pairLock' = pairLock
        /\ \A u \in Tests \ {t} : test'[u] = test[u] /\ testNew'[u] = testNew[u]
        /\ \A s \in Sessions, u \in Tests : WritesTest(s, u)' <=> WritesTest(s, u)
    BY <1>9 DEF Inserts, Unseen
  <2>2. test'[t].penta = test[t].penta /\ test'[t].history = test[t].history
    BY <1>9 DEF Inserts, WithStatus, WithPriority, Inv, TypeOK, TestRow
  <2>3. \A s \in Sessions : ~WritesTest(s, t)
    BY <2>1 DEF Inv, SessionInv, Written, Becoming
  <2>4. CountsCommitted'
    BY <2>1, <2>2 DEF CountInv, CountsCommitted, Played, PairsOf
  <2>5. ASSUME NEW s \in Sessions PROVE CountsWritten(s)'
    <3>1. \A p \in Pairs : PairSeen(s, p)' = PairSeen(s, p)
      BY <2>1 DEF PairSeen
    <3>2. \A u \in Tests : Recount(s, u)' = Recount(s, u) /\ PairsValid(s, u)' = PairsValid(s, u)
      BY <3>1, SameCounts DEF PairsOf
    <3>3. QED
      BY <2>1, <2>3, <3>1, <3>2 DEF CountInv, CountsWritten, PairsOf
  <2>6. QED
    BY <2>4, <2>5 DEF CountInv
<1>10. ASSUME NEW p \in Pairs, Expires(p) PROVE CountInv'
  <2>1. /\ test' = test /\ testNew' = testNew /\ tx' = tx /\ pairLock' = pairLock
        /\ pairLock[p] = None /\ pair[p].status = "leased"
        /\ \A q \in Pairs \ {p} : pair'[q] = pair[q] /\ pairNew'[q] = pairNew[q]
        /\ \A s \in Sessions, u \in Tests : WritesTest(s, u)' <=> WritesTest(s, u)
    BY <1>10 DEF Expires, Unseen
  <2>2. pair'[p].status = "leased"
    BY <1>10 DEF Expires, Late, Inv, TypeOK, PairRow
  <2>3. \A t, ks : Played(t, ks)' = Played(t, ks)
    BY <2>1, <2>2 DEF Played, PairsOf
  <2>4. CountsCommitted'
    BY <2>1, <2>2, <2>3 DEF CountInv, CountsCommitted, PairsOf
  <2>5. ASSUME NEW s \in Sessions PROVE CountsWritten(s)'
    <3>1. /\ PairSeen(s, p)'.status = "leased" /\ PairSeen(s, p).status = "leased"
          /\ \A q \in Pairs \ {p} : PairSeen(s, q)' = PairSeen(s, q)
      BY <2>1, <2>2, WorkersAreNotTheOthers DEF PairSeen
    <3>2. \A u \in Tests : Recount(s, u)' = Recount(s, u) /\ PairsValid(s, u)' = PairsValid(s, u)
      BY <3>1, SameCounts DEF PairsOf
    <3>3. QED
      BY <2>1, <3>1, <3>2 DEF CountInv, CountsWritten, PairsOf
  <2>6. QED
    BY <2>4, <2>5 DEF CountInv
<1>11. ASSUME Stutters PROVE CountInv'
  <2>1. /\ test' = test /\ testNew' = testNew /\ tx' = tx /\ pairLock' = pairLock
        /\ pair' = pair /\ pairNew' = pairNew
        /\ \A s \in Sessions, u \in Tests : WritesTest(s, u)' <=> WritesTest(s, u)
    BY <1>11 DEF Stutters, Unseen
  <2>2. \A s \in Sessions, p \in Pairs : PairSeen(s, p)' = PairSeen(s, p)
    BY <2>1 DEF PairSeen
  <2>3. \A s \in Sessions, u \in Tests :
          Recount(s, u)' = Recount(s, u) /\ PairsValid(s, u)' = PairsValid(s, u)
    BY <2>2, SameCounts DEF PairsOf
  <2>4. QED
    BY <2>1, <2>2, <2>3 DEF CountInv, CountsCommitted, CountsWritten, Played, PairsOf
<1>12. QED
  BY <1>1, <1>3, <1>4, <1>5, <1>6, <1>8, <1>9, <1>10, <1>11,
     PublishesKeepsCounts, RefreshesKeepsCounts, PromotesKeepsCounts DEF StepKind

LEMMA InitCounts == Init => CountInv
<1> SUFFICES ASSUME Init PROVE CountInv
  OBVIOUS
<1>1. \A t, ks : Played(t, ks) = {}
  BY InitSees, NewIsNotNo DEF Played, PairsOf
<1>2. \A t, ks : Cardinality(Played(t, ks)) = 0
  BY <1>1, FS_EmptySet
<1>3. Gapless(<<0>>, 0)
  BY DEF Gapless
<1>4. \A t \in Tests :
        /\ test[t].penta = [k \in Categories |-> 0]
        /\ test[t].history = IF InitialStatus[t] \in {"queued", "running"} THEN <<0>> ELSE <<>>
  BY DEF Init
<1>5. \A t \in Tests : InitialStatus[t] \notin {"queued", "running"} =>
        \A p \in PairsOf(t) : pair[p].status = "absent"
  BY InitSees, NewIsNotNo DEF PairsOf
<1>6. CountsCommitted
  <2> SUFFICES ASSUME NEW t \in Tests
               PROVE  /\ test[t].penta = [k \in Categories |-> Cardinality(Played(t, {k}))]
                      /\ \/ Gapless(test[t].history, Cardinality(Played(t, Categories)))
                         \/ /\ test[t].history = <<>>
                            /\ \A p \in PairsOf(t) : pair[p].status = "absent"
    BY DEF CountsCommitted
  <2>1. test[t].penta = [k \in Categories |-> Cardinality(Played(t, {k}))]
    BY <1>2, <1>4
  <2>2. CASE InitialStatus[t] \in {"queued", "running"}
    BY <1>2, <1>3, <1>4, <2>1, <2>2
  <2>3. CASE InitialStatus[t] \notin {"queued", "running"}
    BY <1>4, <1>5, <2>1, <2>3
  <2>4. QED
    BY <2>2, <2>3
<1>7. QED
  BY <1>6, InitSees DEF CountInv, CountsWritten

LEMMA CountInvariance == Spec => []CountInv
BY InitCounts, NextCounts, Invariance, PTL DEF Spec

\* test_stats is, at every commit, the recount of the completed valid pairs:
\* refresh_test counts under the lock of the test's row, and a transaction that
\* completes a pair refreshes the test before it commits.
THEOREM StatisticsMatchResults == Spec => []StatsMatchResults
<1>1. CountInv => StatsMatchResults
  BY DEF CountInv, CountsCommitted, StatsMatchResults
<1>2. QED
  BY <1>1, CountInvariance, PTL

\* test_stats_history has one point for each number of valid pairs, in order,
\* however results, discards and rollbacks interleave.
THEOREM HistoryHasNoGaps == Spec => []HistoryIsGapless
<1>1. CountInv => HistoryIsGapless
  BY DEF CountInv, CountsCommitted, HistoryIsGapless, Gapless, Played
<1>2. QED
  BY <1>1, CountInvariance, PTL

-----------------------------------------------------------------------------
(* Verdicts.  A session that writes a running test saw why it goes on, and *)
(* one that finishes a test saw why it ends, in the pairs and statistics   *)
(* that it commits with the row.                                           *)

\* The answers of sprt_decide.
SprtDecides ==
    \A t \in Tests : \A penta \in [Categories -> Nat] :
        SprtDecide(t, penta) \in {"accept_h1", "accept_h0", "continue"}

GoesOn(s, t) ==
    /\ \E p \in PairsOf(t) : PairSeen(s, p).status \in {"pending", "leased"}
    /\ Kind[t] = "sprt" /\ Scored(s, t, Categories) # {} =>
         SprtDecide(t, testNew[t].penta) = "continue"

Ends(s, t) ==
    CASE testNew[t].result = "accepted" ->
           Kind[t] = "sprt" /\ SprtDecide(t, testNew[t].penta) = "accept_h1"
      [] testNew[t].result = "rejected" ->
           Kind[t] = "sprt" /\ SprtDecide(t, testNew[t].penta) = "accept_h0"
      [] OTHER ->
           /\ testNew[t].result = (IF Kind[t] = "sprt" THEN "inconclusive" ELSE "completed")
           /\ \A p \in PairsOf(t) : PairSeen(s, p).status \in Over
           /\ Kind[t] = "sprt" /\ Scored(s, t, Categories) # {} =>
                SprtDecide(t, testNew[t].penta) = "continue"

Reasoned(s) ==
    \A t \in Tests : WritesTest(s, t) =>
        /\ testNew[t].status = "running" => GoesOn(s, t)
        /\ testNew[t].status = "finished" => test[t].status = "finished" \/ Ends(s, t)

ReasonInv == RunningHasReason /\ \A s \in Sessions : Reasoned(s)

\* The reasons depend on the row and on which pairs are open, over and counted.
LEMMA SameReasons ==
    ASSUME NEW s, NEW t, testNew'[t] = testNew[t],
           \A p \in PairsOf(t) :
             /\ \/ PairSeen(s, p)' = PairSeen(s, p)
                \/ PairSeen(s, p)'.status # "completed" /\ PairSeen(s, p).status # "completed"
             /\ PairSeen(s, p).status \in {"pending", "leased"} =>
                  PairSeen(s, p)'.status \in {"pending", "leased"}
             /\ PairSeen(s, p).status \in Over => PairSeen(s, p)'.status \in Over
    PROVE  (GoesOn(s, t) => GoesOn(s, t)') /\ (Ends(s, t) => Ends(s, t)')
<1>1. Scored(s, t, Categories)' = Scored(s, t, Categories)
  BY DEF Scored, PairsOf
<1>2. GoesOn(s, t) => GoesOn(s, t)'
  BY <1>1 DEF GoesOn, PairsOf
<1>3. (\A p \in PairsOf(t) : PairSeen(s, p).status \in Over) =>
        (\A p \in PairsOf(t) : PairSeen(s, p).status \in Over)'
  BY DEF PairsOf
<1>4. Ends(s, t) => Ends(s, t)'
  BY <1>1, <1>3 DEF Ends
<1>5. QED
  BY <1>2, <1>4

LEMMA StatementKeepsReasons ==
    ASSUME Inv, ReasonInv, NEW r \in Sessions, Statement(r), Reasoned(r)'
    PROVE  ReasonInv'
<1>1. RunningHasReason'
  BY DEF Statement, ReasonInv, RunningHasReason, Played
<1>2. ASSUME NEW s \in Sessions \ {r} PROVE Reasoned(s)'
  <2>1. /\ test' = test
        /\ \A p \in Pairs : PairSeen(s, p)' = PairSeen(s, p)
        /\ \A t \in Tests : /\ WritesTest(s, t)' <=> WritesTest(s, t)
                            /\ WritesTest(s, t) => testNew'[t] = testNew[t]
    BY SameView DEF Statement
  <2>2. \A t \in Tests : WritesTest(s, t) =>
          (GoesOn(s, t) => GoesOn(s, t)') /\ (Ends(s, t) => Ends(s, t)')
    BY <2>1, SameReasons DEF PairsOf
  <2>3. QED
    BY <2>1, <2>2 DEF ReasonInv, Reasoned
<1>3. QED
  BY <1>1, <1>2 DEF ReasonInv

LEMMA PublishesKeepsReasons ==
    ASSUME Inv, ReasonInv, NEW r \in Sessions, Publishes(r)
    PROVE  ReasonInv'
<1>1. /\ tx[r].todo = {}
      /\ \A p \in Pairs : pair'[p] = PairSeen(r, p)
      /\ \A t \in Tests : ~WritesTest(r, t)' /\ test'[t] = TestSeen(r, t)
  BY NoWritesWithoutLocks
  DEF Publishes, Inv, SessionInv, Shape, HoldsNothing, Locks, WritesTest
<1>2. RunningHasReason'
  <2> SUFFICES ASSUME NEW t \in Tests, test'[t].status = "running"
               PROVE  /\ \E p \in PairsOf(t) : pair'[p].status \in {"pending", "leased"}
                      /\ Kind[t] = "sprt" /\ Played(t, Categories)' # {}
                           => SprtDecide(t, test'[t].penta) = "continue"
    BY DEF RunningHasReason, PairsOf
  <2>1. /\ Played(t, Categories)' = Scored(r, t, Categories)
        /\ \A p \in PairsOf(t) : pair'[p] = PairSeen(r, p)
    BY <1>1 DEF Played, Scored, PairsOf
  <2>2. CASE WritesTest(r, t)
    BY <1>1, <2>1, <2>2 DEF ReasonInv, Reasoned, GoesOn, TestSeen
  <2>3. CASE ~WritesTest(r, t)
    <3>1. test'[t] = test[t] /\ Scored(r, t, Categories) = Played(t, Categories)
      BY <1>1, <2>3, Uncounted DEF TestSeen
    <3>2. \A p \in PairsOf(t) : pair[p].status \in {"pending", "leased"} =>
            pair'[p].status \in {"pending", "leased"}
      BY <1>1, <2>1, <2>3, Uncounted
    <3>3. QED
      BY <2>1, <3>1, <3>2 DEF ReasonInv, RunningHasReason
  <2>4. QED
    BY <2>2, <2>3
<1>3. Reasoned(r)'
  BY <1>1 DEF Reasoned
<1>4. ASSUME NEW s \in Sessions \ {r} PROVE Reasoned(s)'
  <2> SUFFICES ASSUME NEW t \in Tests, WritesTest(s, t)
               PROVE  /\ testNew[t].status = "running" => GoesOn(s, t)'
                      /\ testNew[t].status = "finished" =>
                           test'[t].status = "finished" \/ Ends(s, t)'
    BY DEF Publishes, OthersKeep, Reasoned
  <2>1. ~WritesTest(r, t) /\ test'[t] = test[t] /\ r \in Sessions
    BY <1>1, OneWriter DEF Inv, CommittedInv, TestSeen
  <2>2. ASSUME NEW p \in PairsOf(t)
        PROVE  /\ \/ PairSeen(s, p)' = PairSeen(s, p)
                  \/ PairSeen(s, p)'.status # "completed" /\ PairSeen(s, p).status # "completed"
               /\ PairSeen(s, p).status \in {"pending", "leased"} =>
                    PairSeen(s, p)'.status \in {"pending", "leased"}
               /\ PairSeen(s, p).status \in Over => PairSeen(s, p)'.status \in Over
    <3>1. p \in Pairs /\ (pairLock'[p] = s <=> pairLock[p] = s) /\ pairNew' = pairNew
      BY DEF Publishes, OthersKeep, PairsOf
    <3>2. CASE pairLock[p] = s
      BY <3>1, <3>2 DEF PairSeen
    <3>3. CASE pairLock[p] # s
      <4>1. PairSeen(s, p) = pair[p] /\ PairSeen(s, p)' = PairSeen(r, p)
        BY <1>1, <3>1, <3>3 DEF PairSeen
      <4>2. QED
        BY <1>1, <2>1, <4>1, Uncounted
    <3>4. QED
      BY <3>2, <3>3
  <2>3. testNew' = testNew
    BY DEF Publishes
  <2>4. (GoesOn(s, t) => GoesOn(s, t)') /\ (Ends(s, t) => Ends(s, t)')
    BY <2>2, <2>3, SameReasons
  <2>5. QED
    BY <2>1, <2>4 DEF ReasonInv, Reasoned
<1>5. QED
  BY <1>2, <1>3, <1>4 DEF ReasonInv

LEMMA CountedIsPositive ==
    ASSUME NEW s, NEW t
    PROVE  Scored(s, t, Categories) # {} <=> PairsValid(s, t) > 0
<1>1. IsFiniteSet(Scored(s, t, Categories))
  <2>1. Scored(s, t, Categories) \subseteq Pairs
    BY DEF Scored, PairsOf
  <2>2. QED
    BY <2>1, Constants, FS_Subset
<1>2. QED
  BY <1>1, FS_EmptySet, FS_CardinalityType DEF PairsValid

\* What a verdict says, and what its absence says of a running test.
LEMMA VerdictMeans ==
    ASSUME SprtDecides, NEW s, NEW t \in Tests, TestSeen(s, t).status = "running"
    PROVE  /\ Verdict(s, t) = "accepted" =>
                Kind[t] = "sprt" /\ SprtDecide(t, Recount(s, t)) = "accept_h1"
           /\ Verdict(s, t) = "rejected" =>
                Kind[t] = "sprt" /\ SprtDecide(t, Recount(s, t)) = "accept_h0"
           /\ Verdict(s, t) \notin {"accepted", "rejected"} =>
                /\ Verdict(s, t) = "pending" <=> Remaining(s, t) # {}
                /\ Verdict(s, t) # "pending" =>
                     Verdict(s, t) = (IF Kind[t] = "sprt" THEN "inconclusive" ELSE "completed")
                /\ Kind[t] = "sprt" /\ Scored(s, t, Categories) # {} =>
                     SprtDecide(t, Recount(s, t)) = "continue"
<1>1. Recount(s, t) \in [Categories -> Nat]
  BY CountsAreNumbers
<1>2. SprtDecide(t, Recount(s, t)) \in {"accept_h1", "accept_h0", "continue"}
  BY <1>1 DEF SprtDecides
<1>3. Decision(s, t) = IF Kind[t] = "sprt" /\ Scored(s, t, Categories) # {}
                       THEN SprtDecide(t, Recount(s, t)) ELSE "continue"
  BY CountedIsPositive DEF Decision
<1> DEFINE decision == SprtDecide(t, Recount(s, t))
<1> HIDE DEF decision
<1>4. CASE Decision(s, t) = "accept_h1"
  BY <1>3, <1>4 DEF Verdict
<1>5. CASE Decision(s, t) = "accept_h0"
  BY <1>3, <1>5 DEF Verdict
<1>6. CASE Decision(s, t) \notin {"accept_h1", "accept_h0"}
  <2>1. Verdict(s, t) = IF Remaining(s, t) # {} THEN "pending"
                        ELSE IF Kind[t] = "sprt" THEN "inconclusive" ELSE "completed"
    BY <1>6 DEF Verdict
  <2>2. QED
    BY <1>2, <1>3, <1>6, <2>1
<1>7. QED
  BY <1>4, <1>5, <1>6

LEMMA RefreshesKeepsReasons ==
    ASSUME SprtDecides, Inv, ReasonInv, NEW r \in Sessions, NEW t \in Tests, Refreshes(r, t)
    PROVE  ReasonInv'
<1>1. /\ \A u \in Tests : WritesTest(r, u)' <=> WritesTest(r, u) \/ u = t
      /\ \A u \in Tests \ {t} : testNew'[u] = testNew[u]
      /\ testNew'[t] = Refreshed(r, t)
      /\ Statement(r) /\ t \in tx[r].todo
  BY DEF Refreshes, WritesRow
<1>2. /\ \A p \in Pairs : PairSeen(r, p)' = PairSeen(r, p)
      /\ test' = test
  BY RowView DEF Refreshes
<1>3. /\ testNew'[t].penta = Recount(r, t)
      /\ testNew'[t].status = IF Verdict(r, t) = "pending" THEN TestSeen(r, t).status
                              ELSE "finished"
      /\ Verdict(r, t) # "pending" => testNew'[t].result = Verdict(r, t)
  <2>1. TestSeen(r, t) \in TestRow
    BY SeenIsRow DEF Inv
  <2>2. QED
    BY <1>1, <2>1 DEF Refreshed, TestRow
<1>4. Scored(r, t, Categories)' = Scored(r, t, Categories)
  BY <1>2 DEF Scored, PairsOf
<1>5. ASSUME testNew'[t].status = "running" PROVE GoesOn(r, t)'
  <2>1. Verdict(r, t) = "pending" /\ TestSeen(r, t).status = "running"
    BY <1>3, <1>5
  <2>2. /\ Remaining(r, t) # {}
        /\ Kind[t] = "sprt" /\ Scored(r, t, Categories) # {} =>
             SprtDecide(t, Recount(r, t)) = "continue"
    BY <2>1, VerdictMeans
  <2>3. QED
    BY <1>2, <1>3, <1>4, <2>2 DEF GoesOn, Remaining, PairsOf
<1>6. ASSUME testNew'[t].status = "finished"
      PROVE  test'[t].status = "finished" \/ Ends(r, t)'
  <2>1. CASE Verdict(r, t) = "pending"
    <3>1. TestSeen(r, t).status = "finished"
      BY <1>3, <1>6, <2>1
    <3>2. QED
      BY <1>1, <1>2, <3>1, RefreshedIsNotEarly DEF TestSeen
  <2>2. CASE Verdict(r, t) # "pending"
    <3>1. TestSeen(r, t).status = "running"
      BY <2>2, OnlyRunningGetsVerdict
    <3>2. ~WritesTest(r, t) /\ test[t].status = "running"
      BY <1>1, <3>1, RefreshedIsNotEarly DEF TestSeen
    <3>3. \A p \in PairsOf(t) : PairSeen(r, p).status \in PairStatuses \ {"absent"}
      <4> SUFFICES ASSUME NEW p \in Pairs, TestOf[p] = t
                   PROVE  PairSeen(r, p).status \in PairStatuses \ {"absent"}
        BY DEF PairsOf
      <4>1. pair[p].status # "absent"
        BY <3>2 DEF Inv, CommittedInv, StartedHasPairs
      <4>2. pairLock[p] = r => pairNew[p].status # "absent"
        BY <4>1 DEF Inv, SessionInv, LockedPairs, Created, Claimed, Requeued, Ended, Over
      <4>3. pair[p] \in PairRow /\ pairNew[p] \in PairRow
        BY DEF Inv, TypeOK
      <4>4. QED
        BY <4>1, <4>2, <4>3 DEF PairSeen, PairRow
    <3>4. Remaining(r, t) = {} => \A p \in PairsOf(t) : PairSeen(r, p).status \in Over
      BY <3>3 DEF Remaining, PairStatuses, Over
    <3>5. CASE Verdict(r, t) = "accepted"
      BY <1>3, <2>2, <3>1, <3>5, VerdictMeans DEF Ends
    <3>6. CASE Verdict(r, t) = "rejected"
      BY <1>3, <2>2, <3>1, <3>6, VerdictMeans DEF Ends
    <3>7. CASE Verdict(r, t) \notin {"accepted", "rejected"}
      <4>1. /\ Remaining(r, t) = {}
            /\ Verdict(r, t) = (IF Kind[t] = "sprt" THEN "inconclusive" ELSE "completed")
            /\ Kind[t] = "sprt" /\ Scored(r, t, Categories) # {} =>
                 SprtDecide(t, Recount(r, t)) = "continue"
        BY <2>2, <3>1, <3>7, VerdictMeans
      <4>2. \A p \in PairsOf(t) : PairSeen(r, p)'.status \in Over
        BY <1>2, <3>4, <4>1 DEF PairsOf
      <4>3. QED
        BY <1>3, <1>4, <2>2, <3>7, <4>1, <4>2 DEF Ends, PairsOf
    <3>8. QED
      BY <3>5, <3>6, <3>7
  <2>3. QED
    BY <2>1, <2>2
<1>7. Reasoned(r)'
  <2> SUFFICES ASSUME NEW u \in Tests, u # t, WritesTest(r, u)
               PROVE  /\ testNew[u].status = "running" => GoesOn(r, u)'
                      /\ testNew[u].status = "finished" => test[u].status = "finished" \/ Ends(r, u)'
    BY <1>1, <1>2, <1>5, <1>6 DEF Reasoned
  <2>1. (GoesOn(r, u) => GoesOn(r, u)') /\ (Ends(r, u) => Ends(r, u)')
    BY <1>1, <1>2, SameReasons DEF PairsOf
  <2>2. QED
    BY <2>1 DEF ReasonInv, Reasoned
<1>8. QED
  BY <1>1, <1>7, StatementKeepsReasons

LEMMA PromotesKeepsReasons ==
    ASSUME Inv, ReasonInv, NEW r \in Sessions, NEW t \in Tests, Promotes(r, t)
    PROVE  ReasonInv'
<1>1. /\ \A u \in Tests : WritesTest(r, u)' <=> WritesTest(r, u) \/ u = t
      /\ \A u \in Tests \ {t} : testNew'[u] = testNew[u]
      /\ Statement(r) /\ tx[r].at = "take" /\ tx[r].t = t
  BY DEF Promotes, WritesRow
<1>2. /\ \A p \in Pairs : PairSeen(r, p)' = PairSeen(r, p)
      /\ test' = test
  BY RowView DEF Promotes
<1>3. testNew'[t].status = "running"
  <2>1. TestSeen(r, t) \in TestRow
    BY SeenIsRow DEF Inv
  <2>2. QED
    BY <2>1 DEF Promotes, WithStatus, TestRow
<1>4. \A p \in PairsOf(t) : PairSeen(r, p)'.status = "pending"
  BY <1>1, <1>2, NewIsNotNo DEF Inv, SessionInv, ChoosesFresh, Untouched, PairsOf
<1>5. GoesOn(r, t)'
  <2>1. \E p \in PairsOf(t) : TRUE
    BY Constants DEF PairsOf
  <2>2. Scored(r, t, Categories)' = {}
    BY <1>4 DEF Scored, PairsOf
  <2>3. QED
    BY <1>4, <2>1, <2>2 DEF GoesOn, PairsOf
<1>6. Reasoned(r)'
  <2> SUFFICES ASSUME NEW u \in Tests, u # t, WritesTest(r, u)
               PROVE  /\ testNew[u].status = "running" => GoesOn(r, u)'
                      /\ testNew[u].status = "finished" => test[u].status = "finished" \/ Ends(r, u)'
    BY <1>1, <1>2, <1>3, <1>5 DEF Reasoned
  <2>1. (GoesOn(r, u) => GoesOn(r, u)') /\ (Ends(r, u) => Ends(r, u)')
    BY <1>1, <1>2, SameReasons DEF PairsOf
  <2>2. QED
    BY <2>1 DEF ReasonInv, Reasoned
<1>7. QED
  BY <1>1, <1>6, StatementKeepsReasons

LEMMA NextReasons == SprtDecides /\ Inv /\ ReasonInv /\ [Next]_vars => ReasonInv'
<1> SUFFICES ASSUME SprtDecides, Inv, ReasonInv, [Next]_vars PROVE ReasonInv'
  OBVIOUS
<1>1. StepKind
  BY StepsAreOfAKind
<1>2. ASSUME NEW r \in Sessions, Statement(r),
             \A t \in Tests : WritesTest(r, t)' => testNew'[t].status \notin {"running", "finished"}
      PROVE  ReasonInv'
  BY <1>2, StatementKeepsReasons DEF Reasoned
<1>3. ASSUME NEW r \in Sessions, Rests(r) PROVE ReasonInv'
  BY <1>2, <1>3, NoWritesWithoutLocks DEF Rests, HoldsNothing, Locks, WritesTest
<1>4. ASSUME NEW r \in Sessions, TakesPairs(r) PROVE ReasonInv'
  BY <1>2, <1>4 DEF TakesPairs
<1>5. ASSUME NEW r \in Sessions, NEW t \in Tests, WritesOne(r, t) PROVE ReasonInv'
  <2>1. /\ Statement(r) /\ test[t] \in TestRow
        /\ \A u \in Tests : WritesTest(r, u)' <=> u = t
    BY <1>5 DEF WritesOne, Inv, TypeOK
  <2>2. testNew'[t].status \in {"stopped", "validating", "queued", "invalid"}
    BY <1>5, <2>1 DEF WritesOne, Stops, Prioritises, Fails, WithStatus, WithPriority, TestRow
  <2>3. QED
    BY <1>2, <2>1, <2>2
<1>6. ASSUME NEW t \in Tests, Passes(t) PROVE ReasonInv'
  <2>1. /\ Statement(Smoke) /\ \A u \in Tests : WritesTest(Smoke, u)' <=> u = t
        /\ testNew'[t].status = "queued"
    BY <1>6 DEF Passes, WithStatus, Inv, TypeOK, TestRow
  <2>2. QED
    BY <1>2, <2>1, SessionsNamed
<1>7. ASSUME NEW r \in Sessions, Serialises(r) PROVE ReasonInv'
  <2>1. /\ \A p \in Pairs : PairSeen(r, p)' = PairSeen(r, p)
        /\ \A t \in Tests : WritesTest(r, t)' <=> WritesTest(r, t)
        /\ test' = test /\ testNew' = testNew /\ Statement(r)
    BY <1>7, SerialisesView DEF Serialises
  <2>2. \A t \in Tests : (GoesOn(r, t) => GoesOn(r, t)') /\ (Ends(r, t) => Ends(r, t)')
    BY <2>1, SameReasons DEF PairsOf
  <2>3. Reasoned(r)'
    BY <2>1, <2>2 DEF ReasonInv, Reasoned
  <2>4. QED
    BY <2>1, <2>3, StatementKeepsReasons
<1>8. ASSUME NEW t \in Tests, NEW priority \in Priorities, Inserts(t, priority)
      PROVE  ReasonInv'
  <2>1. /\ test[t].status = "absent" /\ pair' = pair /\ pairNew' = pairNew /\ pairLock' = pairLock
        /\ \A u \in Tests \ {t} : test'[u] = test[u] /\ testNew'[u] = testNew[u]
        /\ \A s \in Sessions, u \in Tests : WritesTest(s, u)' <=> WritesTest(s, u)
    BY <1>8 DEF Inserts, Unseen
  <2>2. test'[t].status = "validating"
    BY <1>8 DEF Inserts, WithStatus, WithPriority, Inv, TypeOK, TestRow
  <2>3. \A s \in Sessions : ~WritesTest(s, t)
    BY <2>1 DEF Inv, SessionInv, Written, Becoming
  <2>4. RunningHasReason'
    BY <2>1, <2>2 DEF ReasonInv, RunningHasReason, Played, PairsOf
  <2>5. ASSUME NEW s \in Sessions PROVE Reasoned(s)'
    <3>1. \A p \in Pairs : PairSeen(s, p)' = PairSeen(s, p)
      BY <2>1 DEF PairSeen
    <3>2. \A u \in Tests \ {t} : (GoesOn(s, u) => GoesOn(s, u)') /\ (Ends(s, u) => Ends(s, u)')
      BY <2>1, <3>1, SameReasons DEF PairsOf
    <3>3. QED
      BY <2>1, <2>3, <3>2 DEF ReasonInv, Reasoned
  <2>6. QED
    BY <2>4, <2>5 DEF ReasonInv
<1>9. ASSUME NEW p \in Pairs, Expires(p) PROVE ReasonInv'
  <2>1. /\ test' = test /\ testNew' = testNew /\ pairLock' = pairLock
        /\ pairLock[p] = None /\ pair[p].status = "leased"
        /\ \A q \in Pairs \ {p} : pair'[q] = pair[q] /\ pairNew'[q] = pairNew[q]
        /\ \A s \in Sessions, u \in Tests : WritesTest(s, u)' <=> WritesTest(s, u)
    BY <1>9 DEF Expires, Unseen
  <2>2. pair'[p].status = "leased"
    BY <1>9 DEF Expires, Late, Inv, TypeOK, PairRow
  <2>3. \A t, ks : Played(t, ks)' = Played(t, ks)
    BY <2>1, <2>2 DEF Played, PairsOf
  <2>4. RunningHasReason'
    BY <2>1, <2>2, <2>3 DEF ReasonInv, RunningHasReason, PairsOf
  <2>5. ASSUME NEW s \in Sessions PROVE Reasoned(s)'
    <3>1. /\ PairSeen(s, p)'.status = "leased" /\ PairSeen(s, p).status = "leased"
          /\ \A q \in Pairs \ {p} : PairSeen(s, q)' = PairSeen(s, q)
      BY <2>1, <2>2, WorkersAreNotTheOthers DEF PairSeen
    <3>2. \A u \in Tests : (GoesOn(s, u) => GoesOn(s, u)') /\ (Ends(s, u) => Ends(s, u)')
      <4> SUFFICES ASSUME NEW u \in Tests
                   PROVE  (GoesOn(s, u) => GoesOn(s, u)') /\ (Ends(s, u) => Ends(s, u)')
        OBVIOUS
      <4>1. \A q \in PairsOf(u) :
              /\ \/ PairSeen(s, q)' = PairSeen(s, q)
                 \/ PairSeen(s, q)'.status # "completed" /\ PairSeen(s, q).status # "completed"
              /\ PairSeen(s, q).status \in {"pending", "leased"} =>
                   PairSeen(s, q)'.status \in {"pending", "leased"}
              /\ PairSeen(s, q).status \in Over => PairSeen(s, q)'.status \in Over
        BY <3>1 DEF PairsOf, Over
      <4>2. QED
        BY <2>1, <4>1, SameReasons
    <3>3. QED
      BY <2>1, <3>2 DEF ReasonInv, Reasoned
  <2>6. QED
    BY <2>4, <2>5 DEF ReasonInv
<1>10. ASSUME Stutters PROVE ReasonInv'
  <2>1. /\ test' = test /\ testNew' = testNew /\ pairLock' = pairLock
        /\ pair' = pair /\ pairNew' = pairNew
        /\ \A s \in Sessions, u \in Tests : WritesTest(s, u)' <=> WritesTest(s, u)
    BY <1>10 DEF Stutters, Unseen
  <2>2. \A s \in Sessions, p \in Pairs : PairSeen(s, p)' = PairSeen(s, p)
    BY <2>1 DEF PairSeen
  <2>3. \A s \in Sessions, u \in Tests :
          (GoesOn(s, u) => GoesOn(s, u)') /\ (Ends(s, u) => Ends(s, u)')
    BY <2>1, <2>2, SameReasons DEF PairsOf
  <2>4. QED
    BY <2>1, <2>3 DEF ReasonInv, Reasoned, RunningHasReason, Played
<1>11. QED
  BY <1>1, <1>3, <1>4, <1>5, <1>6, <1>7, <1>8, <1>9, <1>10, PublishesKeepsReasons,
     RefreshesKeepsReasons, PromotesKeepsReasons DEF StepKind, PromotesNone, Chooses

LEMMA InitReasons == Init => ReasonInv
<1> SUFFICES ASSUME Init PROVE ReasonInv
  OBVIOUS
<1>1. \A s \in Sessions : Reasoned(s)
  BY InitSees DEF Reasoned
<1>2. ASSUME NEW t \in Tests, test[t].status = "running"
      PROVE  /\ \E p \in PairsOf(t) : pair[p].status \in {"pending", "leased"}
             /\ Played(t, Categories) = {}
  <2>1. PICK p \in Pairs : TestOf[p] = t
    BY Constants
  <2>2. pair[p].status = "pending"
    BY <1>2, <2>1, InitSees, NewIsNotNo
  <2>3. Played(t, Categories) = {}
    BY InitSees, NewIsNotNo DEF Played, PairsOf
  <2>4. QED
    BY <2>1, <2>2, <2>3 DEF PairsOf
<1>3. QED
  BY <1>1, <1>2 DEF ReasonInv, RunningHasReason

\* A running test has a pair to play and statistics that decide nothing.
\* refresh_test tests both before the commit that could make it otherwise.
THEOREM ARunningTestGoesOn ==
    ASSUME SprtDecides PROVE Spec => []RunningHasReason
<1>1. ReasonInv => RunningHasReason
  BY DEF ReasonInv
<1>2. SprtDecides
  OBVIOUS
<1>3. Inv /\ ReasonInv /\ [Next]_vars => ReasonInv'
  BY <1>2, NextReasons
<1>4. QED
  BY <1>1, <1>3, InitReasons, Invariance, PTL DEF Spec

\* A test becomes finished in a commit of the session that wrote it, with the
\* reason that this session saw.
LEMMA FinishesWithReason ==
    ASSUME Inv, CountInv, ReasonInv, [Next]_vars, NEW t \in Tests,
           test[t].status # "finished", test'[t].status = "finished"
    PROVE  \E r \in Sessions :
             /\ Publishes(r) /\ WritesTest(r, t) /\ Ends(r, t)
             /\ test'[t] = testNew[t] /\ testNew[t].penta = Recount(r, t)
<1>1. PICK r \in Sessions : Publishes(r)
  <2>1. StepKind
    BY StepsAreOfAKind
  <2>2. \A r \in Sessions : ~Statement(r)
    BY DEF Statement
  <2>3. test' # test
    OBVIOUS
  <2>4. ASSUME NEW u \in Tests, NEW priority \in Priorities, Inserts(u, priority) PROVE FALSE
    <3>1. test[u] \in TestRow
      BY DEF Inv, TypeOK
    <3>2. test'[u].status = "validating"
      BY <2>4, <3>1 DEF Inserts, WithStatus, WithPriority, TestRow
    <3>3. QED
      BY <2>4, <3>2 DEF Inserts
  <2>5. QED
    BY <2>1, <2>2, <2>3, <2>4, SessionsNamed
    DEF StepKind, Rests, TakesPairs, PromotesNone, Chooses, Serialises, WritesOne, Refreshes,
        Promotes, WritesRow, Passes, Expires, Stutters
<1>2. test'[t] = TestSeen(r, t) /\ tx[r].todo = {}
  BY <1>1 DEF Publishes, Inv, SessionInv, Shape
<1>3. WritesTest(r, t) /\ test'[t] = testNew[t]
  BY <1>2 DEF TestSeen
<1>4. Ends(r, t)
  BY <1>3 DEF ReasonInv, Reasoned
<1>5. testNew[t].penta = Recount(r, t)
  BY <1>2, <1>3 DEF CountInv, CountsWritten
<1>6. QED
  BY <1>1, <1>3, <1>4, <1>5

\* A test finishes with the verdict of the statistics it commits with, and for
\* want of pairs only when every pair is played or discarded (refresh_test).
THEOREM VerdictsAreJustified ==
    ASSUME SprtDecides PROVE Spec => FinishIsJustified
<1> DEFINE Justified(t) ==
      CASE test'[t].result = "accepted" ->
             Kind[t] = "sprt" /\ SprtDecide(t, test'[t].penta) = "accept_h1"
        [] test'[t].result = "rejected" ->
             Kind[t] = "sprt" /\ SprtDecide(t, test'[t].penta) = "accept_h0"
        [] OTHER ->
             /\ test'[t].result = (IF Kind[t] = "sprt" THEN "inconclusive" ELSE "completed")
             /\ \A p \in PairsOf(t) : pair'[p].status \in {"completed", "discarded"}
             /\ (Kind[t] = "sprt" /\ \E k \in Categories : test'[t].penta[k] > 0)
                  => SprtDecide(t, test'[t].penta) = "continue"
<1>1. ASSUME Inv, CountInv, ReasonInv, [Next]_vars, NEW t \in Tests,
             test[t].status # "finished", test'[t].status = "finished"
      PROVE  Justified(t)
  <2>1. PICK r \in Sessions :
          /\ Publishes(r) /\ WritesTest(r, t) /\ Ends(r, t)
          /\ test'[t] = testNew[t] /\ testNew[t].penta = Recount(r, t)
    BY <1>1, FinishesWithReason
  <2>2. \A p \in PairsOf(t) : pair'[p] = PairSeen(r, p)
    BY <2>1 DEF Publishes, PairsOf
  <2>3. (\E k \in Categories : testNew[t].penta[k] > 0) => Scored(r, t, Categories) # {}
    <3> SUFFICES ASSUME NEW k \in Categories, testNew[t].penta[k] > 0
                 PROVE  Scored(r, t, Categories) # {}
      OBVIOUS
    <3>1. Cardinality(Scored(r, t, {k})) > 0
      BY <2>1 DEF Recount
    <3>2. Scored(r, t, {k}) # {}
      BY <3>1, FS_EmptySet
    <3>3. QED
      BY <3>2 DEF Scored
  <2>4. QED
    BY <2>1, <2>2, <2>3 DEF Ends, Over
<1>2. Inv /\ CountInv /\ ReasonInv /\ [Next]_vars =>
        [\A t \in Tests : test[t].status # "finished" /\ test'[t].status = "finished" =>
           Justified(t)]_vars
  BY <1>1
<1>3. SprtDecides
  OBVIOUS
<1>4. Inv /\ ReasonInv /\ [Next]_vars => ReasonInv'
  BY <1>3, NextReasons
<1>5. QED
  BY <1>2, <1>4, InitReasons, Invariance, CountInvariance, PTL DEF Spec, FinishIsJustified

-----------------------------------------------------------------------------
(* Waiting.  The statements of a transaction come in an order, and each    *)
(* waits only for sessions that are further on: those at rest hold no      *)
(* lock, then come the first refresh, a refresh after another one, the     *)
(* wait for the advisory lock, what is done under that lock, the commit.   *)

\* All but the maintenance thread refresh one test, before any other row.
RefreshesFirst(s) ==
    s # Maintenance =>
        /\ \A t, u \in tx[s].todo : t = u
        /\ tx[s].at \in {"promote", "take"} => tx[s].todo = {}
        /\ tx[s].at = "refresh" =>
             /\ advisory # s
             /\ \A t \in Tests : WritesTest(s, t) =>
                  tx[s].op = "smoke" /\ test[t].status = "validating"
        /\ tx[s].at = "promote" =>
             \A t \in Tests : WritesTest(s, t) => test[t].status \in {"running", "validating"}

\* Who promotes with tests still to refresh has ended the running one.
EndedRunning(s) ==
    (advisory = s \/ tx[s].at \in {"promote", "take"}) /\ tx[s].todo # {} =>
        \E t \in Tests : WritesTest(s, t) /\ test[t].status = "running"

\* The maintenance thread locks a discarded pair of each test that it refreshes.
HoldsDiscards(s) ==
    s = Maintenance /\ advisory # s /\ tx[s].at \in {"refresh", "promote"} =>
        \A t \in Tests : WritesTest(s, t) => \E p \in PairsOf(t) : pairLock[p] = s

Ordered(s) == RefreshesFirst(s) /\ EndedRunning(s) /\ HoldsDiscards(s)
OrderInv == \A s \in Sessions : Ordered(s)

\* The order depends on what a session does and holds, and on the committed
\* rows of the tests that it writes.
LEMMA SameOrder ==
    ASSUME NEW s \in Sessions, Ordered(s), tx'[s] = tx[s], advisory' = s <=> advisory = s,
           \A p \in Pairs : pairLock'[p] = s <=> pairLock[p] = s,
           \A t \in Tests : WritesTest(s, t)' <=> WritesTest(s, t),
           \A t \in Tests : WritesTest(s, t) => test'[t].status = test[t].status
    PROVE  Ordered(s)'
<1>1. RefreshesFirst(s)'
  BY DEF Ordered, RefreshesFirst
<1>2. EndedRunning(s)'
  BY DEF Ordered, EndedRunning
<1>3. HoldsDiscards(s)'
  BY DEF Ordered, HoldsDiscards, PairsOf
<1>4. QED
  BY <1>1, <1>2, <1>3 DEF Ordered

LEMMA StatementKeepsOrder ==
    ASSUME OrderInv, NEW r \in Sessions, Statement(r), Ordered(r)'
    PROVE  OrderInv'
<1>1. ASSUME NEW s \in Sessions \ {r} PROVE Ordered(s)'
  <2>1. /\ tx'[s] = tx[s] /\ (advisory' = s <=> advisory = s) /\ test' = test
        /\ \A p \in Pairs : pairLock'[p] = s <=> pairLock[p] = s
        /\ \A t \in Tests : WritesTest(s, t)' <=> WritesTest(s, t)
    BY SameView DEF Statement
  <2>2. QED
    BY <2>1, SameOrder DEF OrderInv
<1>2. QED
  BY <1>1 DEF OrderInv

LEMMA PublishesKeepsOrder ==
    ASSUME Inv, OrderInv, NEW r \in Sessions, Publishes(r)
    PROVE  OrderInv'
<1>1. /\ tx'[r].at \in {"idle", "promote"} /\ tx'[r].todo = {}
      /\ \A t \in Tests : ~WritesTest(r, t)' /\ test'[t] = TestSeen(r, t)
  BY NoWritesWithoutLocks DEF Publishes, HoldsNothing, Locks, WritesTest
<1>2. Ordered(r)'
  BY <1>1 DEF Ordered, RefreshesFirst, EndedRunning, HoldsDiscards
<1>3. ASSUME NEW s \in Sessions \ {r} PROVE Ordered(s)'
  <2>1. /\ tx'[s] = tx[s] /\ (advisory' = s <=> advisory = s)
        /\ \A p \in Pairs : pairLock'[p] = s <=> pairLock[p] = s
        /\ \A t \in Tests : WritesTest(s, t)' <=> WritesTest(s, t)
    BY DEF Publishes, OthersKeep
  <2>2. \A t \in Tests : WritesTest(s, t) => test'[t] = test[t]
    BY <1>1, OneWriter DEF Inv, CommittedInv, TestSeen
  <2>3. QED
    BY <2>1, <2>2, SameOrder DEF OrderInv
<1>4. QED
  BY <1>2, <1>3 DEF OrderInv

LEMMA RefreshesKeepsOrder ==
    ASSUME Inv, OrderInv, NEW r \in Sessions, NEW t \in Tests, Refreshes(r, t)
    PROVE  OrderInv'
<1>1. /\ \A u \in Tests : WritesTest(r, u)' <=> WritesTest(r, u) \/ u = t
      /\ Statement(r) /\ test' = test /\ pairLock' = pairLock /\ advisory' = advisory
      /\ tx[r].at = "refresh" /\ t \in tx[r].todo
  BY DEF Refreshes, WritesRow, Statement
<1>2. /\ tx'[r].at = AfterRefresh(r, t) /\ tx'[r].op = tx[r].op
      /\ tx'[r].todo = tx[r].todo \ {t}
  BY Fields DEF Refreshes, Inv, TypeOK
<1>3. /\ RefreshesFirst(r) /\ EndedRunning(r) /\ HoldsDiscards(r)
      /\ TodoHasReason(r) /\ Shape(r)
  BY DEF OrderInv, Ordered, Inv, SessionInv
<1>4. AfterRefresh(r, t) = "promote" =>
        IF tx[r].op = "smoke" THEN test[t].status = "validating" ELSE test[t].status = "running"
  <2>1. CASE tx[r].op = "smoke"
    BY <1>1, <1>3, <2>1 DEF TodoHasReason
  <2>2. CASE tx[r].op # "smoke"
    <3>1. ~WritesTest(r, t)
      BY <1>1, <1>3, <2>2 DEF TodoHasReason
    <3>2. QED
      BY <2>2, <3>1, OnlyRunningGetsVerdict DEF AfterRefresh, TestSeen
  <2>3. QED
    BY <2>1, <2>2
<1>5. AfterRefresh(r, t) \in {"promote", "refresh", "commit"}
      /\ (AfterRefresh(r, t) = "refresh" => tx[r].todo # {t})
  BY DEF AfterRefresh
<1>6. RefreshesFirst(r)'
  BY <1>1, <1>2, <1>3, <1>4, <1>5 DEF RefreshesFirst
<1>7. EndedRunning(r)'
  <2> SUFFICES ASSUME advisory = r \/ AfterRefresh(r, t) = "promote", tx[r].todo # {t}
               PROVE  \E u \in Tests : WritesTest(r, u)' /\ test[u].status = "running"
    BY <1>1, <1>2, <1>5 DEF EndedRunning
  <2>1. CASE advisory = r
    BY <1>1, <1>3, <2>1 DEF EndedRunning
  <2>2. CASE AfterRefresh(r, t) = "promote"
    <3>1. tx[r].op # "smoke"
      BY <1>1, <1>3 DEF TodoHasReason
    <3>2. QED
      BY <1>1, <1>4, <2>2, <3>1
  <2>3. QED
    BY <2>1, <2>2
<1>8. HoldsDiscards(r)'
  <2> SUFFICES ASSUME r = Maintenance, advisory # r, NEW u \in Tests, WritesTest(r, u) \/ u = t
               PROVE  \E p \in PairsOf(u) : pairLock[p] = r
    BY <1>1 DEF HoldsDiscards, PairsOf
  <2>1. tx[r].op # "smoke"
    BY <1>3, WorkersAreNotTheOthers DEF Shape
  <2>2. \E p \in PairsOf(t) : pairLock[p] = r
    BY <1>1, <1>3, <2>1 DEF TodoHasReason, PairsOf
  <2>3. QED
    BY <1>1, <1>3, <2>2 DEF HoldsDiscards
<1>9. QED
  BY <1>1, <1>6, <1>7, <1>8, StatementKeepsOrder DEF Ordered

LEMMA NextOrder == Inv /\ OrderInv /\ [Next]_vars => OrderInv'
<1> SUFFICES ASSUME Inv, OrderInv, [Next]_vars PROVE OrderInv'
  OBVIOUS
<1>1. StepKind
  BY StepsAreOfAKind
<1>2. ASSUME NEW r \in Sessions, Rests(r) PROVE OrderInv'
  <2>1. Ordered(r)'
    BY <1>2 DEF Rests, Ordered, RefreshesFirst, EndedRunning, HoldsDiscards, Resting
  <2>2. QED
    BY <1>2, <2>1, StatementKeepsOrder DEF Rests
<1>3. ASSUME NEW r \in Sessions, TakesPairs(r) PROVE OrderInv'
  <2>1. Ordered(r)'
    BY <1>3 DEF TakesPairs, Ordered, RefreshesFirst, EndedRunning, HoldsDiscards
  <2>2. QED
    BY <1>3, <2>1, StatementKeepsOrder DEF TakesPairs
<1>4. ASSUME NEW r \in Sessions, NEW t \in Tests, WritesOne(r, t) PROVE OrderInv'
  <2>1. /\ Statement(r) /\ advisory' # r /\ r # Maintenance /\ test' = test
        /\ tx'[r].todo = {}
        /\ \A u \in Tests : WritesTest(r, u)' <=> u = t
    BY <1>4 DEF WritesOne, Statement
  <2>2. tx'[r].at \in {"promote", "commit"} /\ (tx'[r].at = "promote" => test[t].status = "running")
    BY <1>4 DEF WritesOne, Stops, Prioritises, Fails, AfterStop
  <2>3. Ordered(r)'
    BY <2>1, <2>2 DEF Ordered, RefreshesFirst, EndedRunning, HoldsDiscards
  <2>4. QED
    BY <2>1, <2>3, StatementKeepsOrder
<1>5. ASSUME NEW t \in Tests, Passes(t) PROVE OrderInv'
  <2>1. /\ Statement(Smoke) /\ test' = test /\ Smoke \in Sessions
        /\ \A u \in Tests : WritesTest(Smoke, u)' => test[u].status = "validating"
        /\ tx'[Smoke].at = "refresh" /\ tx'[Smoke].op = "smoke" /\ tx'[Smoke].todo = {t}
        /\ advisory' # Smoke
    BY <1>5, SessionsNamed DEF Passes, Statement
  <2>2. Ordered(Smoke)'
    BY <2>1, WorkersAreNotTheOthers DEF Ordered, RefreshesFirst, EndedRunning, HoldsDiscards
  <2>3. QED
    BY <2>1, <2>2, StatementKeepsOrder
\* The statements under the advisory lock keep the tests to refresh.
<1>6. ASSUME NEW r \in Sessions, Statement(r), advisory' = r, tx'[r].todo = tx[r].todo,
             tx[r].at \in {"promote", "take"},
             \/ tx'[r].at = "take"
             \/ tx'[r].at = AfterPromotion(r),
             \A u \in Tests : WritesTest(r, u) => WritesTest(r, u)'
      PROVE  OrderInv'
  <2>1. RefreshesFirst(r) /\ EndedRunning(r) /\ test' = test
    BY <1>6 DEF OrderInv, Ordered, Statement
  <2>2. Ordered(r)'
    BY <1>6, <2>1
    DEF Ordered, RefreshesFirst, EndedRunning, HoldsDiscards, AfterPromotion
  <2>3. QED
    BY <1>6, <2>2, StatementKeepsOrder
<1>7. ASSUME NEW r \in Sessions, NEW t \in Tests, Promotes(r, t) PROVE OrderInv'
  <2>1. /\ Statement(r) /\ advisory' = r /\ tx[r].at = "take"
        /\ \A u \in Tests : WritesTest(r, u) => WritesTest(r, u)'
    BY <1>7 DEF Promotes, WritesRow, Inv, SessionInv, Shape
  <2>2. tx'[r].todo = tx[r].todo /\ tx'[r].at = AfterPromotion(r)
    BY <1>7, Fields DEF Promotes, Inv, TypeOK
  <2>3. QED
    BY <1>6, <2>1, <2>2
<1>8. ASSUME NEW r \in Sessions, PromotesNone(r) \/ \E t \in Tests : Chooses(r, t)
      PROVE  OrderInv'
  <2>1. /\ Statement(r) /\ advisory' = r /\ tx[r].at = "promote"
        /\ \A u \in Tests : WritesTest(r, u)' <=> WritesTest(r, u)
    BY <1>8 DEF PromotesNone, Chooses, Serialises
  <2>2. /\ tx'[r].todo = tx[r].todo
        /\ tx'[r].at = "take" \/ tx'[r].at = AfterPromotion(r)
    BY <1>8, Fields DEF PromotesNone, Chooses, Inv, TypeOK
  <2>3. QED
    BY <1>6, <2>1, <2>2
<1>9. ASSUME Unseen, \A s \in Sessions, t \in Tests :
                       WritesTest(s, t) => test'[t].status = test[t].status
      PROVE  OrderInv'
  <2> SUFFICES ASSUME NEW s \in Sessions PROVE Ordered(s)'
    BY DEF OrderInv
  <2>1. /\ tx'[s] = tx[s] /\ (advisory' = s <=> advisory = s)
        /\ \A p \in Pairs : pairLock'[p] = s <=> pairLock[p] = s
        /\ \A t \in Tests : WritesTest(s, t)' <=> WritesTest(s, t)
    BY <1>9 DEF Unseen
  <2>2. QED
    BY <1>9, <2>1, SameOrder DEF OrderInv
<1>10. ASSUME NEW t \in Tests, NEW priority \in Priorities, Inserts(t, priority)
       PROVE  OrderInv'
  <2>1. \A s \in Sessions : ~WritesTest(s, t)
    BY <1>10 DEF Inserts, Inv, SessionInv, Written, Becoming
  <2>2. QED
    BY <1>9, <1>10, <2>1 DEF Inserts
<1>11. ASSUME Stutters \/ \E p \in Pairs : Expires(p) PROVE OrderInv'
  BY <1>9, <1>11 DEF Stutters, Expires
<1>12. QED
  BY <1>1, <1>2, <1>3, <1>4, <1>5, <1>7, <1>8, <1>10, <1>11,
     PublishesKeepsOrder, RefreshesKeepsOrder DEF StepKind

LEMMA OrderInvariance == Spec => []OrderInv
<1>1. Init => OrderInv
  BY InitSees, IdleFields
  DEF OrderInv, Ordered, RefreshesFirst, EndedRunning, HoldsDiscards
<1>2. QED
  BY <1>1, NextOrder, Invariance, PTL DEF Spec

\* How far a session is.
Rank(s) ==
    CASE tx[s].at \in Resting -> 0
      [] tx[s].at = "refresh" /\ advisory # s ->
           IF \E t \in Tests : WritesTest(s, t) THEN 2 ELSE 1
      [] tx[s].at = "promote" /\ advisory # s -> 3
      [] tx[s].at # "commit" /\ advisory = s -> 4
      [] OTHER -> 5

\* A session that writes a test is past its first refresh, or about to make it
\* as the smoke worker.
LEMMA WriterIsFurther ==
    ASSUME Inv, OrderInv, NEW s \in Sessions, NEW r \in Sessions \ {s}, NEW t \in Tests,
           WritesTest(r, t), test[t].status # "validating"
    PROVE  /\ Rank(r) >= 2
           /\ Rank(r) = 2 => r = Maintenance /\ \E p \in PairsOf(t) : pairLock[p] = r
           /\ Rank(r) = 3 =>
                \/ test[t].status = "running" /\ r # Maintenance
                \/ r = Maintenance /\ \E p \in PairsOf(t) : pairLock[p] = r
           /\ Rank(r) = 4 => advisory = r
<1>1. RestsFree(r) /\ Shape(r) /\ RefreshesFirst(r) /\ HoldsDiscards(r)
  BY DEF Inv, SessionInv, OrderInv, Ordered
<1>2. tx[r].at \notin Resting
  BY <1>1 DEF RestsFree, Locks, WritesTest
<1>3. tx[r].at \in Steps
  BY DEF Inv, TypeOK, Txs
<1>4. tx[r].at = "take" => advisory = r
  BY <1>1 DEF Shape
<1>5. tx[r].at = "refresh" /\ advisory # r => r = Maintenance
  BY <1>1 DEF RefreshesFirst
<1>6. CASE tx[r].at = "refresh" /\ advisory # r
  BY <1>1, <1>5, <1>6 DEF Rank, HoldsDiscards, Resting
<1>7. CASE tx[r].at = "promote" /\ advisory # r
  BY <1>1, <1>7 DEF Rank, RefreshesFirst, HoldsDiscards, Resting
<1>8. CASE tx[r].at # "commit" /\ advisory = r
  BY <1>2, <1>8 DEF Rank
<1>9. CASE tx[r].at = "commit"
  BY <1>2, <1>9 DEF Rank
<1>10. QED
  BY <1>2, <1>3, <1>4, <1>6, <1>7, <1>8, <1>9 DEF Steps, Resting

\* Who waits for the row of a test waits for a session that writes the test.
LEMMA BlockersWrite ==
    ASSUME TypeOK, NEW s, NEW t \in Tests, NEW r \in Blocking(s, t, "NoKeyUpdate")
    PROVE  r \in Sessions \ {s} /\ WritesTest(r, t)
<1>1. PICK l \in testLocks[t] : Conflicts(l.mode, "NoKeyUpdate") /\ l.by = r /\ r # s
  BY DEF Blocking
<1>2. l.by \in Sessions /\ l.mode \in LockModes
  BY DEF TypeOK
<1>3. l.mode # "KeyShare"
  BY <1>1 DEF Conflicts
<1>4. QED
  BY <1>1, <1>2, <1>3 DEF WritesTest

LEMMA RefreshWaitsFurther ==
    ASSUME Inv, OrderInv, NEW s \in Sessions, NEW r \in WaitsFor(s), tx[s].at = "refresh"
    PROVE  r \in Sessions /\ Rank(r) > Rank(s)
<1>1. PICK t \in tx[s].todo : r \in Blocking(s, t, "NoKeyUpdate")
  BY DEF WaitsFor, Lowest, RefreshMode
<1>2. t \in Tests
  BY DEF Inv, TypeOK, Txs
<1>3. r \in Sessions \ {s} /\ WritesTest(r, t)
  BY <1>1, <1>2, BlockersWrite DEF Inv
<1>4. ~WritesTest(s, t)
  BY <1>2, <1>3, OneWriter DEF Inv, CommittedInv
<1>5. tx[s].op # "smoke" /\ test[t].status \notin Early
  BY <1>1, <1>2, <1>4, RefreshedIsNotEarly DEF Inv, SessionInv, TodoHasReason
<1>6. /\ Rank(r) >= 2
      /\ Rank(r) = 2 => r = Maintenance
      /\ Rank(r) = 3 => r = Maintenance \/ test[t].status = "running"
      /\ Rank(r) = 4 => advisory = r
  BY <1>2, <1>3, <1>5, WriterIsFurther DEF Early
<1>7. Rank(r) \in 0..5
  BY DEF Rank
<1>8. CASE s # Maintenance
  <2>1. advisory # s /\ \A u \in Tests : ~WritesTest(s, u)
    BY <1>5, <1>8 DEF OrderInv, Ordered, RefreshesFirst
  <2>2. Rank(s) = 1
    BY <2>1 DEF Rank, Resting
  <2>3. QED
    BY <1>3, <1>6, <1>7, <2>2
<1>9. CASE s = Maintenance /\ advisory # s
  <2>1. Rank(s) \in {1, 2}
    BY <1>9 DEF Rank, Resting
  <2>2. QED
    BY <1>3, <1>6, <1>7, <1>9, <2>1
<1>10. CASE s = Maintenance /\ advisory = s
  <2>1. Rank(s) = 4
    BY <1>10 DEF Rank, Resting
  <2>2. Rank(r) # 3
    <3> SUFFICES ASSUME test[t].status = "running" PROVE FALSE
      BY <1>3, <1>6, <1>10
    <3>1. PICK u \in Tests : WritesTest(s, u) /\ test[u].status = "running"
      BY <1>1, <1>10 DEF OrderInv, Ordered, EndedRunning
    <3>2. u = t
      BY <1>2, <3>1 DEF Inv, CommittedInv, OneRunningTest
    <3>3. QED
      BY <1>4, <3>1, <3>2
  <2>3. QED
    BY <1>3, <1>6, <1>7, <1>10, <2>1, <2>2
<1>11. QED
  BY <1>8, <1>9, <1>10

LEMMA TakeWaitsFurther ==
    ASSUME Inv, OrderInv, NEW s \in Sessions, NEW r \in WaitsFor(s), tx[s].at = "take"
    PROVE  r \in Sessions /\ Rank(r) > Rank(s)
<1> DEFINE t == tx[s].t
<1>1. r \in Blocking(s, t, "NoKeyUpdate")
  BY DEF WaitsFor
<1>2. t \in Tests
  BY DEF Inv, TypeOK, Txs
<1>3. /\ TestSeen(s, t).status = "queued" \/ (~WritesTest(s, t) /\ test[t].status = "stopped")
      /\ \A p \in Pairs : TestOf[p] = t => Untouched(s, p)
  BY DEF Inv, SessionInv, ChoosesFresh
<1> HIDE DEF t
<1>4. r \in Sessions \ {s} /\ WritesTest(r, t)
  BY <1>1, <1>2, BlockersWrite DEF Inv
<1>5. ~WritesTest(s, t)
  BY <1>2, <1>4, OneWriter DEF Inv, CommittedInv
<1>6. test[t].status \in {"queued", "stopped"}
  BY <1>3, <1>5 DEF TestSeen
<1>7. \A p \in PairsOf(t) : pairLock[p] # r
  BY <1>3, <1>4, WorkersAreNotTheOthers DEF Untouched, PairsOf
<1>8. advisory = s /\ Rank(s) = 4
  BY DEF Inv, SessionInv, Shape, Rank, Resting
<1>9. /\ Rank(r) >= 2
      /\ Rank(r) # 2 /\ Rank(r) # 3 /\ Rank(r) # 4
  BY <1>2, <1>4, <1>6, <1>7, <1>8, WriterIsFurther
<1>10. Rank(r) \in 0..5
  BY DEF Rank
<1>11. QED
  BY <1>4, <1>8, <1>9, <1>10

LEMMA WaitsFurther ==
    ASSUME Inv, OrderInv, NEW s \in Sessions, NEW r \in WaitsFor(s)
    PROVE  r \in Sessions /\ Rank(r) > Rank(s)
<1>1. RestsFree(s)
  BY DEF Inv, SessionInv
<1>2. ASSUME NEW q \in Sessions, tx[q].at \notin Resting PROVE Rank(q) >= 1
  BY <1>2 DEF Rank
<1>3. CASE tx[s].at = "pairLock"
  <2>1. tx[s].p \in Pairs
    BY <1>3 DEF Inv, TypeOK, Txs
  <2>2. r = pairLock[tx[s].p] /\ r # None
    BY <1>3 DEF WaitsFor
  <2>3. r \in Sessions /\ tx[r].at \notin Resting
    BY <2>1, <2>2 DEF Inv, TypeOK, SessionInv, RestsFree
  <2>4. Rank(s) = 0
    <3>1. tx[s].at \in Resting /\ advisory # s
      BY <1>1, <1>3 DEF Resting, RestsFree
    <3>2. QED
      BY <3>1 DEF Rank, Resting
  <2>5. Rank(r) >= 1 /\ Rank(r) \in 0..5
    BY <1>2, <2>3 DEF Rank
  <2>6. QED
    BY <2>3, <2>4, <2>5
<1>4. CASE tx[s].at = "smoke"
  <2>1. PICK t \in Tests : r \in Blocking(s, t, "ForUpdate")
    BY <1>4 DEF WaitsFor, Inv, TypeOK, Txs
  <2>2. r \in Sessions /\ Locks(r, t)
    BY <2>1 DEF Blocking, Locks, Inv, TypeOK
  <2>3. tx[r].at \notin Resting
    BY <2>2 DEF Inv, SessionInv, RestsFree
  <2>4. Rank(s) = 0
    <3>1. tx[s].at \in Resting /\ advisory # s
      BY <1>1, <1>4 DEF Resting, RestsFree
    <3>2. QED
      BY <3>1 DEF Rank, Resting
  <2>5. Rank(r) >= 1 /\ Rank(r) \in 0..5
    BY <1>2, <2>2, <2>3 DEF Rank
  <2>6. QED
    BY <2>2, <2>4, <2>5
<1>5. CASE tx[s].at = "promote"
  <2>1. r = advisory /\ r # None /\ r # s
    BY <1>5 DEF WaitsFor
  <2>2. r \in Sessions /\ tx[r].at \notin Resting
    BY <2>1 DEF Inv, TypeOK, SessionInv, RestsFree
  <2>3. Rank(s) = 3
    BY <1>5, <2>1 DEF Rank, Resting
  <2>4. Rank(r) \in {4, 5}
    BY <2>1, <2>2 DEF Rank
  <2>5. QED
    BY <2>2, <2>3, <2>4
<1>6. tx[s].at \in {"pairLock", "smoke", "promote", "refresh", "take"}
  BY DEF WaitsFor
<1>7. QED
  BY <1>3, <1>4, <1>5, <1>6, RefreshWaitsFurther, TakeWaitsFurther

\* No set of transactions waits on itself.  In particular the NO KEY UPDATE lock
\* of refresh_test and the KEY SHARE of the games never close a cycle, and the
\* discards of the maintenance thread, which may refresh several tests, do not.
THEOREM NoTransactionsDeadlock == Spec => []NoWaitCycle
<1>1. Inv /\ OrderInv => NoWaitCycle
  <2> SUFFICES ASSUME Inv, OrderInv, NEW S \in SUBSET Sessions, S # {},
                      \A s \in S : WaitsFor(s) \cap S # {}
               PROVE  FALSE
    BY DEF NoWaitCycle
  <2>1. \A s \in S : Rank(s) \in 0..5
    BY DEF Rank
  <2>2. \A s \in S : \E r \in S : Rank(r) > Rank(s)
    BY WaitsFurther
  <2>3. \E s \in S : Rank(s) >= 1
    BY <2>1, <2>2
  <2>4. \E s \in S : Rank(s) >= 2
    BY <2>1, <2>2, <2>3
  <2>5. \E s \in S : Rank(s) >= 3
    BY <2>1, <2>2, <2>4
  <2>6. \E s \in S : Rank(s) >= 4
    BY <2>1, <2>2, <2>5
  <2>7. \E s \in S : Rank(s) >= 5
    BY <2>1, <2>2, <2>6
  <2>8. PICK s \in S : Rank(s) >= 5
    BY <2>7
  <2>9. PICK r \in S : Rank(r) > Rank(s)
    BY <2>2, <2>8
  <2>10. QED
    BY <2>1, <2>8, <2>9
<1>2. QED
  BY <1>1, Invariance, OrderInvariance, PTL

-----------------------------------------------------------------------------
(* The serial queue.  What a session has done to the tests when it commits *)
(* is one move, which ends, queues, stops or rejects a test, and one       *)
(* promotion, of the test that it has chosen; or a priority.  Each commit  *)
(* is a step of module SerialQueue.                                        *)

Promoted(s, t) ==
    WritesTest(s, t) /\ testNew[t].status = "running" /\ test[t].status # "running"

\* The tests that s moves, but for the promotion of one that waited or was stopped.
Moved(s) ==
    {t \in Tests : /\ WritesTest(s, t) /\ testNew[t].status # test[t].status
                   /\ ~(Promoted(s, t) /\ test[t].status \in {"queued", "stopped"})}

\* The moves that make room for a promotion, or need one.
MakesRoom(t) ==
    \/ test[t].status = "running" /\ testNew[t].status \in {"finished", "stopped"}
    \/ test[t].status = "validating" /\ testNew[t].status \in {"queued", "running"}

MovesOnce(s) ==
    /\ \A t, u \in Moved(s) : t = u
    /\ advisory = s \/ tx[s].at # "commit" => \A t \in Moved(s) : MakesRoom(t)
    /\ s = Maintenance => \A t \in Moved(s) : test[t].status = "running"

\* Only a verdict changes a result, and only set_priority a priority.
KeepsTheRest(s) ==
    \A t \in Tests : WritesTest(s, t) =>
        /\ tx[s].op # "priority" => testNew[t].priority = test[t].priority
        /\ IF test[t].status = "running" /\ testNew[t].status = "finished"
           THEN testNew[t].result \in Serial!Verdicts
           ELSE testNew[t].result = test[t].result

\* set_priority writes one test that has not begun, and nothing else.
Prioritised(s) ==
    tx[s].op = "priority" =>
        /\ tx[s].at \in Resting \cup {"commit"}
        /\ \A t, u \in Tests : WritesTest(s, t) /\ WritesTest(s, u) => t = u
        /\ \A t \in Tests : WritesTest(s, t) =>
             testNew[t].status = test[t].status /\ test[t].status \in {"validating", "queued"}

\* What a session promotes is what it has chosen.
PromotesChosen(s) == \A t \in Tests : Promoted(s, t) => tx[s].t = t

Serially(s) == MovesOnce(s) /\ KeepsTheRest(s) /\ Prioritised(s) /\ PromotesChosen(s)
SerialInv == \A s \in Sessions : Serially(s)

\* What a session did stays while others write tests that it has not written.
LEMMA SameMoves ==
    ASSUME NEW s \in Sessions, Serially(s), tx'[s] = tx[s], advisory' = s <=> advisory = s,
           \A t \in Tests : /\ WritesTest(s, t)' <=> WritesTest(s, t)
                            /\ WritesTest(s, t) => testNew'[t] = testNew[t] /\ test'[t] = test[t]
    PROVE  Serially(s)'
<1>1. \A t \in Tests : Promoted(s, t)' <=> Promoted(s, t)
  BY DEF Promoted
<1>2. Moved(s)' = Moved(s)
  BY <1>1 DEF Moved
<1>3. \A t \in Moved(s) : MakesRoom(t)' <=> MakesRoom(t)
  BY DEF Moved, MakesRoom
<1>4. MovesOnce(s)'
  BY <1>2, <1>3 DEF Serially, MovesOnce, Moved
<1>5. KeepsTheRest(s)'
  BY DEF Serially, KeepsTheRest
<1>6. Prioritised(s)'
  BY DEF Serially, Prioritised
<1>7. PromotesChosen(s)'
  BY <1>1 DEF Serially, PromotesChosen
<1>8. QED
  BY <1>4, <1>5, <1>6, <1>7 DEF Serially

LEMMA StatementKeepsSerial ==
    ASSUME Inv, SerialInv, NEW r \in Sessions, Statement(r), Serially(r)'
    PROVE  SerialInv'
<1>1. ASSUME NEW s \in Sessions \ {r} PROVE Serially(s)'
  <2>1. /\ tx'[s] = tx[s] /\ (advisory' = s <=> advisory = s) /\ test' = test
        /\ \A t \in Tests : /\ WritesTest(s, t)' <=> WritesTest(s, t)
                            /\ WritesTest(s, t) => testNew'[t] = testNew[t]
    BY SameView DEF Statement
  <2>2. QED
    BY <2>1, SameMoves DEF SerialInv
<1>2. QED
  BY <1>1 DEF SerialInv

LEMMA PublishesKeepsSerial ==
    ASSUME Inv, SerialInv, NEW r \in Sessions, Publishes(r)
    PROVE  SerialInv'
<1>1. /\ tx[r].at = "commit" /\ tx'[r].op # "priority" /\ advisory' # r
      /\ \A t \in Tests : ~WritesTest(r, t)' /\ test'[t] = TestSeen(r, t)
  BY NoWritesWithoutLocks DEF Publishes, HoldsNothing, Locks, WritesTest
<1>2. Serially(r)'
  BY <1>1 DEF Serially, MovesOnce, Moved, KeepsTheRest, Prioritised, PromotesChosen, Promoted
<1>3. ASSUME NEW s \in Sessions \ {r} PROVE Serially(s)'
  <2>1. /\ tx'[s] = tx[s] /\ (advisory' = s <=> advisory = s) /\ testNew' = testNew
        /\ \A t \in Tests : WritesTest(s, t)' <=> WritesTest(s, t)
    BY DEF Publishes, OthersKeep
  <2>2. \A t \in Tests : WritesTest(s, t) => test'[t] = test[t]
    BY <1>1, OneWriter DEF Inv, CommittedInv, TestSeen
  <2>3. QED
    BY <2>1, <2>2, SameMoves DEF SerialInv
<1>4. QED
  BY <1>2, <1>3 DEF SerialInv

LEMMA RefreshesKeepsSerial ==
    ASSUME Inv, OrderInv, SerialInv, NEW r \in Sessions, NEW t \in Tests, Refreshes(r, t)
    PROVE  SerialInv'
<1>1. /\ \A u \in Tests : WritesTest(r, u)' <=> WritesTest(r, u) \/ u = t
      /\ \A u \in Tests \ {t} : testNew'[u] = testNew[u]
      /\ testNew'[t] = Refreshed(r, t)
      /\ advisory' = advisory /\ Statement(r)
      /\ tx[r].at = "refresh" /\ t \in tx[r].todo
  BY DEF Refreshes, WritesRow
<1>2. /\ \A u \in Tests : TestSeen(r, u)' = IF u = t THEN testNew'[t] ELSE TestSeen(r, u)
      /\ test' = test
  BY RowView DEF Refreshes
<1>3. tx'[r].at = AfterRefresh(r, t)
  BY Fields DEF Refreshes, Inv, TypeOK
<1>4. AfterRefresh(r, t) \in {"promote", "refresh", "commit"}
  BY DEF AfterRefresh
<1>5. /\ testNew'[t].priority = TestSeen(r, t).priority
      /\ IF Verdict(r, t) = "pending"
         THEN testNew'[t].status = TestSeen(r, t).status /\ testNew'[t].result = TestSeen(r, t).result
         ELSE testNew'[t].status = "finished" /\ testNew'[t].result = Verdict(r, t)
  <2>1. TestSeen(r, t) \in TestRow
    BY SeenIsRow DEF Inv
  <2>2. QED
    BY <1>1, <2>1 DEF Refreshed, TestRow
<1>6. Verdict(r, t) # "pending" =>
        /\ ~WritesTest(r, t) /\ test[t].status = "running" /\ TestSeen(r, t).status = "running"
        /\ Verdict(r, t) \in Serial!Verdicts
  BY <1>1, OnlyRunningGetsVerdict, RefreshedIsNotEarly, VerdictIsResult
  DEF TestSeen, TestResults, Serial!Verdicts
<1>7. MovesOnce(r) /\ KeepsTheRest(r) /\ PromotesChosen(r) /\ Prioritised(r)
  BY DEF SerialInv, Serially
<1>14. tx[r].op # "priority" /\ tx'[r].op = tx[r].op /\ tx'[r].t = tx[r].t
  BY <1>1, <1>7, Fields DEF Refreshes, Inv, TypeOK, Prioritised, Resting
<1>8. KeepsTheRest(r)'
  <2>1. CASE WritesTest(r, t)
    <3>1. TestSeen(r, t) = testNew[t] /\ testNew[t].status = "queued" /\ Verdict(r, t) = "pending"
      BY <1>1, <1>6, <2>1, RefreshedIsNotEarly DEF TestSeen
    <3>2. QED
      BY <1>1, <1>2, <1>5, <1>7, <1>14, <2>1, <3>1 DEF KeepsTheRest
  <2>2. CASE ~WritesTest(r, t)
    <3>1. TestSeen(r, t) = test[t]
      BY <2>2 DEF TestSeen
    <3>2. QED
      BY <1>1, <1>2, <1>5, <1>6, <1>7, <1>14, <3>1 DEF KeepsTheRest
  <2>3. QED
    BY <2>1, <2>2
\* A test that is refreshed is not promoted, and ends where nothing has moved.
<1>9. \A u \in Tests : Promoted(r, u)' <=> Promoted(r, u) /\ u # t
  <2>1. testNew'[t].status = "running" => test[t].status = "running"
    BY <1>1, <1>5, <1>6, RefreshedIsNotEarly DEF TestSeen
  <2>2. QED
    BY <1>1, <1>2, <2>1 DEF Promoted
<1>10. ~Promoted(r, t)
  BY <1>1, RefreshedIsNotEarly DEF Promoted
<1>11. MovesOnce(r)'
  <2>1. CASE Verdict(r, t) = "pending"
    <3>1. Moved(r)' = Moved(r)
      <4>1. testNew'[t].status = TestSeen(r, t).status
        BY <1>5, <2>1
      <4>2. QED
        BY <1>1, <1>2, <1>9, <1>10, <4>1 DEF Moved, TestSeen
    <3>2. \A u \in Moved(r) : MakesRoom(u)' <=> MakesRoom(u)
      BY <1>1, <1>2, <1>5, <2>1 DEF Moved, MakesRoom, TestSeen
    <3>3. QED
      BY <1>1, <1>2, <1>7, <3>1, <3>2 DEF MovesOnce, Moved
  <2>2. CASE Verdict(r, t) # "pending"
    <3>1. Moved(r) = {}
      <4> SUFFICES ASSUME NEW u \in Moved(r) PROVE FALSE
        OBVIOUS
      <4>1. WritesTest(r, u) /\ u \in Tests
        BY DEF Moved
      <4>2. CASE r = Maintenance
        <5>1. test[u].status = "running"
          BY <1>7, <4>2 DEF MovesOnce
        <5>2. u = t
          BY <1>6, <2>2, <4>1, <5>1 DEF Inv, CommittedInv, OneRunningTest
        <5>3. QED
          BY <1>6, <2>2, <4>1, <5>2
      <4>3. CASE r # Maintenance
        <5>1. tx[r].op = "smoke"
          BY <1>1, <4>1, <4>3 DEF OrderInv, Ordered, RefreshesFirst
        <5>2. WritesTest(r, t)
          BY <1>1, <5>1 DEF Inv, SessionInv, TodoHasReason
        <5>3. QED
          BY <1>6, <2>2, <5>2
      <4>4. QED
        BY <4>2, <4>3
    <3>2. /\ \A u \in Moved(r)' : u = t
          /\ test'[t].status = "running" /\ testNew'[t].status = "finished"
      <4>1. test'[t].status = "running" /\ testNew'[t].status = "finished"
        BY <1>2, <1>5, <1>6, <2>2
      <4>2. ASSUME NEW u \in Tests \ {t}, u \in Moved(r)' PROVE u \in Moved(r)
        BY <1>1, <1>2, <1>9, <4>2 DEF Moved
      <4>3. QED
        BY <3>1, <4>1, <4>2 DEF Moved
    <3>3. QED
      BY <3>2 DEF MovesOnce, MakesRoom
  <2>3. QED
    BY <2>1, <2>2
<1>12. PromotesChosen(r)' /\ Prioritised(r)'
  BY <1>7, <1>9, <1>14 DEF PromotesChosen, Prioritised
<1>13. QED
  BY <1>1, <1>8, <1>11, <1>12, StatementKeepsSerial DEF Serially

LEMMA PromotesKeepsSerial ==
    ASSUME Inv, SerialInv, NEW r \in Sessions, NEW t \in Tests, Promotes(r, t)
    PROVE  SerialInv'
<1>1. /\ \A u \in Tests : WritesTest(r, u)' <=> WritesTest(r, u) \/ u = t
      /\ \A u \in Tests \ {t} : testNew'[u] = testNew[u]
      /\ advisory' = advisory /\ Statement(r)
      /\ tx[r].at = "take" /\ tx[r].t = t
  BY DEF Promotes, WritesRow
<1>2. /\ \A u \in Tests : TestSeen(r, u)' = IF u = t THEN testNew'[t] ELSE TestSeen(r, u)
      /\ test' = test
  BY RowView DEF Promotes
<1>3. tx'[r].at \in {"refresh", "commit"}
  BY Fields DEF Promotes, Inv, TypeOK, AfterPromotion
<1>4. /\ testNew'[t].status = "running" /\ testNew'[t].priority = TestSeen(r, t).priority
      /\ testNew'[t].result = TestSeen(r, t).result
  <2>1. TestSeen(r, t) \in TestRow
    BY SeenIsRow DEF Inv
  <2>2. QED
    BY <2>1 DEF Promotes, WithStatus, TestRow
<1>5. /\ advisory = r
      /\ \A u \in Tests : TestSeen(r, u).status # "running"
      /\ TestSeen(r, t).status = "queued" \/ (~WritesTest(r, t) /\ test[t].status = "stopped")
      /\ WritesTest(r, t) => testNew[t].status \in Becoming(test[t].status)
  BY <1>1 DEF Inv, SessionInv, Shape, PromotesAlone, ChoosesFresh, Written
<1>6. MovesOnce(r) /\ KeepsTheRest(r) /\ PromotesChosen(r) /\ Prioritised(r)
  BY DEF SerialInv, Serially
<1>14. tx[r].op # "priority" /\ tx'[r].op = tx[r].op /\ tx'[r].t = t
  BY <1>1, <1>6, Fields DEF Promotes, Inv, TypeOK, Prioritised, Resting
<1>7. \/ WritesTest(r, t) /\ testNew[t].status = "queued" /\ test[t].status \in {"queued", "validating"}
      \/ ~WritesTest(r, t) /\ test[t].status \in {"queued", "stopped"}
  BY <1>5 DEF TestSeen, Becoming
<1>8. KeepsTheRest(r)'
  BY <1>1, <1>2, <1>4, <1>6, <1>7, <1>14 DEF KeepsTheRest, TestSeen
<1>9. \A u \in Tests : ~Promoted(r, u) /\ (Promoted(r, u)' <=> u = t)
  <2>1. \A u \in Tests : ~Promoted(r, u)
    BY <1>5 DEF Promoted, TestSeen
  <2>2. QED
    BY <1>1, <1>2, <1>4, <1>7, <2>1 DEF Promoted
<1>10. Moved(r)' = Moved(r)
  <2>1. \A u \in Tests \ {t} : u \in Moved(r)' <=> u \in Moved(r)
    BY <1>1, <1>2, <1>9 DEF Moved
  <2>2. t \in Moved(r)' <=> t \in Moved(r)
    BY <1>1, <1>2, <1>4, <1>7, <1>9 DEF Moved
  <2>3. QED
    BY <2>1, <2>2 DEF Moved
<1>11. MovesOnce(r)'
  <2>1. \A u \in Moved(r) : MakesRoom(u)'
    <3>1. \A u \in Moved(r) : MakesRoom(u)
      BY <1>1, <1>6 DEF MovesOnce
    <3>2. \A u \in Moved(r) \ {t} : MakesRoom(u)'
      BY <1>1, <1>2, <3>1 DEF MakesRoom, Moved
    <3>3. t \in Moved(r) => test'[t].status = "validating"
      BY <1>2, <1>7 DEF Moved
    <3>4. QED
      BY <1>4, <3>2, <3>3 DEF MakesRoom
  <2>2. QED
    BY <1>2, <1>6, <1>10, <2>1 DEF MovesOnce, Moved
<1>12. PromotesChosen(r)' /\ Prioritised(r)'
  BY <1>9, <1>14 DEF PromotesChosen, Prioritised
<1>13. QED
  BY <1>1, <1>8, <1>11, <1>12, StatementKeepsSerial DEF Serially

LEMMA SerialisesKeepsSerial ==
    ASSUME Inv, SerialInv, NEW r \in Sessions, Serialises(r), tx'[r].op = tx[r].op,
           tx'[r].t = tx[r].t \/ \A t \in Tests : ~Promoted(r, t)
    PROVE  SerialInv'
<1>1. /\ \A t \in Tests : WritesTest(r, t)' <=> WritesTest(r, t)
      /\ test' = test /\ testNew' = testNew /\ Statement(r) /\ tx[r].at = "promote"
  BY DEF Serialises, Statement
<1>2. \A t \in Tests : /\ Promoted(r, t)' <=> Promoted(r, t)
                       /\ MakesRoom(t)' <=> MakesRoom(t)
  BY <1>1 DEF Promoted, MakesRoom
<1>3. Moved(r)' = Moved(r)
  BY <1>1, <1>2 DEF Moved
<1>4. MovesOnce(r)' /\ KeepsTheRest(r)'
  BY <1>1, <1>2, <1>3 DEF SerialInv, Serially, MovesOnce, KeepsTheRest, Moved
<1>5. PromotesChosen(r)'
  BY <1>2 DEF SerialInv, Serially, PromotesChosen
<1>6. Prioritised(r)'
  BY <1>1 DEF SerialInv, Serially, Prioritised, Resting
<1>7. QED
  BY <1>1, <1>4, <1>5, <1>6, StatementKeepsSerial DEF Serially

LEMMA NextSerial ==
    ASSUME Inv, OrderInv, SerialInv, [Next]_vars
    PROVE  SerialInv'
<1>1. StepKind
  BY StepsAreOfAKind
<1>2. ASSUME NEW r \in Sessions, Statement(r),
             tx'[r].op = "priority" => tx'[r].at \in Resting \cup {"commit"},
             \A t \in Tests : ~WritesTest(r, t)'
      PROVE  SerialInv'
  BY <1>2, StatementKeepsSerial
  DEF Serially, MovesOnce, Moved, KeepsTheRest, Prioritised, PromotesChosen, Promoted
<1>3. ASSUME NEW r \in Sessions, Rests(r) PROVE SerialInv'
  BY <1>2, <1>3, NoWritesWithoutLocks DEF Rests, HoldsNothing, Locks, WritesTest
<1>4. ASSUME NEW r \in Sessions, TakesPairs(r) PROVE SerialInv'
  BY <1>2, <1>4 DEF TakesPairs
\* A transaction that begins with the row of one test moves that test only.
<1>5. ASSUME NEW r \in Sessions, NEW t \in Tests, Statement(r), r # Maintenance,
             \A u \in Tests : WritesTest(r, u)' <=> u = t,
             testNew'[t].status \notin {"running", "finished"},
             testNew'[t].result = test[t].result,
             \/ tx'[r].op # "priority" /\ testNew'[t].priority = test[t].priority
             \/ /\ tx'[r].op = "priority" /\ tx'[r].at = "commit"
                /\ testNew'[t].status = test[t].status
                /\ test[t].status \in {"validating", "queued"},
             advisory' = r \/ tx'[r].at # "commit" => MakesRoom(t)'
      PROVE  SerialInv'
  <2>1. \A u \in Tests : ~Promoted(r, u)'
    BY <1>5 DEF Promoted
  <2>2. \A u \in Moved(r)' : u = t
    BY <1>5 DEF Moved
  <2>3. MovesOnce(r)' /\ PromotesChosen(r)'
    BY <1>5, <2>1, <2>2 DEF MovesOnce, PromotesChosen
  <2>4. test' = test /\ \A u \in Tests : WritesTest(r, u)' <=> u = t
    BY <1>5 DEF Statement
  <2>5. KeepsTheRest(r)'
    BY <1>5, <2>4 DEF KeepsTheRest
  <2>6. Prioritised(r)'
    BY <1>5, <2>4 DEF Prioritised
  <2>7. QED
    BY <1>5, <2>3, <2>5, <2>6, StatementKeepsSerial DEF Serially
<1>6. ASSUME NEW r \in Sessions, NEW t \in Tests, WritesOne(r, t) PROVE SerialInv'
  <2>1. /\ Statement(r) /\ r # Maintenance /\ advisory' # r /\ test' = test /\ test[t] \in TestRow
        /\ \A u \in Tests : WritesTest(r, u)' <=> u = t
    BY <1>6 DEF WritesOne, Statement, Inv, TypeOK
  <2>2. CASE Prioritises(r, t)
    <3>1. /\ tx'[r].op = "priority" /\ tx'[r].at = "commit"
          /\ test[t].status \in {"validating", "queued"}
          /\ testNew'[t].status = test[t].status /\ testNew'[t].result = test[t].result
      BY <2>1, <2>2 DEF Prioritises, WithPriority, TestRow
    <3>2. QED
      BY <1>5, <2>1, <3>1
  <2>3. CASE Stops(r, t) \/ Fails(r, t)
    <3>1. /\ testNew'[t].status \in {"stopped", "invalid"} /\ tx'[r].op # "priority"
          /\ testNew'[t].priority = test[t].priority /\ testNew'[t].result = test[t].result
      BY <2>1, <2>3 DEF Stops, Fails, WithStatus, TestRow
    <3>2. /\ tx'[r].at \in {"promote", "commit"}
          /\ tx'[r].at = "promote" => test[t].status = "running" /\ testNew'[t].status = "stopped"
      BY <2>1, <2>3 DEF Stops, Fails, AfterStop, WithStatus, TestRow
    <3>3. QED
      BY <1>5, <2>1, <3>1, <3>2 DEF MakesRoom
  <2>4. QED
    BY <1>6, <2>2, <2>3 DEF WritesOne
<1>7. ASSUME NEW t \in Tests, Passes(t) PROVE SerialInv'
  <2>1. /\ Statement(Smoke) /\ Smoke # Maintenance /\ test' = test /\ test[t] \in TestRow
        /\ \A u \in Tests : WritesTest(Smoke, u)' <=> u = t
        /\ tx'[Smoke].op = "smoke" /\ Smoke \in Sessions /\ test[t].status = "validating"
    BY <1>7, WorkersAreNotTheOthers, SessionsNamed DEF Passes, Statement, Inv, TypeOK
  <2>2. /\ testNew'[t].status = "queued"
        /\ testNew'[t].priority = test[t].priority /\ testNew'[t].result = test[t].result
    BY <1>7, <2>1 DEF Passes, WithStatus, TestRow
  <2>3. QED
    BY <1>5, <2>1, <2>2 DEF MakesRoom
<1>8. ASSUME NEW r \in Sessions, PromotesNone(r) PROVE SerialInv'
  <2>1. tx'[r].op = tx[r].op /\ tx'[r].t = tx[r].t /\ Serialises(r)
    BY <1>8, Fields DEF PromotesNone, Inv, TypeOK
  <2>2. QED
    BY <2>1, SerialisesKeepsSerial
<1>9. ASSUME NEW r \in Sessions, NEW t \in Tests, Chooses(r, t) PROVE SerialInv'
  <2>1. tx'[r].op = tx[r].op /\ Serialises(r)
    BY <1>9, Fields DEF Chooses, Inv, TypeOK
  <2>2. \A u \in Tests : ~Promoted(r, u)
    BY <1>9 DEF Chooses, SeenAs, TestSeen, Promoted
  <2>3. QED
    BY <2>1, <2>2, SerialisesKeepsSerial
<1>10. ASSUME NEW t \in Tests, NEW priority \in Priorities, Inserts(t, priority)
       PROVE  SerialInv'
  <2> SUFFICES ASSUME NEW s \in Sessions PROVE Serially(s)'
    BY DEF SerialInv
  <2>1. /\ test[t].status = "absent" /\ tx' = tx /\ advisory' = advisory
        /\ \A u \in Tests \ {t} : test'[u] = test[u] /\ testNew'[u] = testNew[u]
        /\ \A u \in Tests : WritesTest(s, u)' <=> WritesTest(s, u)
    BY <1>10 DEF Inserts, Unseen
  <2>2. ~WritesTest(s, t)
    BY <2>1 DEF Inv, SessionInv, Written, Becoming
  <2>3. QED
    BY <2>1, <2>2, SameMoves DEF SerialInv
<1>11. ASSUME Stutters \/ \E p \in Pairs : Expires(p) PROVE SerialInv'
  <2> SUFFICES ASSUME NEW s \in Sessions PROVE Serially(s)'
    BY DEF SerialInv
  <2>1. /\ test' = test /\ testNew' = testNew /\ tx' = tx /\ advisory' = advisory
        /\ \A u \in Tests : WritesTest(s, u)' <=> WritesTest(s, u)
    BY <1>11 DEF Stutters, Expires, Unseen
  <2>2. QED
    BY <2>1, SameMoves DEF SerialInv
<1>12. QED
  BY <1>1, <1>3, <1>4, <1>6, <1>7, <1>8, <1>9, <1>10, <1>11, PublishesKeepsSerial,
     RefreshesKeepsSerial, PromotesKeepsSerial DEF StepKind

LEMMA SerialInvariance == Spec => []SerialInv
<1>1. Init => SerialInv
  BY InitSees, IdleFields
  DEF SerialInv, Serially, MovesOnce, Moved, KeepsTheRest, Prioritised, PromotesChosen, Promoted
<1>2. Inv /\ OrderInv /\ SerialInv /\ [Next]_vars => SerialInv'
  BY NextSerial
<1>3. QED
  BY <1>1, <1>2, Invariance, OrderInvariance, PTL DEF Spec

\* What the session s has chosen, if it holds the advisory lock.
Choice(s) ==
    IF advisory = s /\ (tx[s].at = "take" \/ \E t \in Tests : Promoted(s, t))
    THEN tx[s].t ELSE None

LEMMA ChosenIs ==
    advisory \in Sessions \cup {None} =>
      Chosen = IF advisory = None THEN None ELSE Choice(advisory)
<1>1. None \notin Sessions
  BY Constants
<1>2. \A s : Promotions(s) # {} <=> \E t \in Tests : Promoted(s, t)
  BY DEF Promotions, Promoted
<1>3. QED
  BY <1>1, <1>2 DEF Chosen, Choice

\* The same after a step.
LEMMA ChosenIsNext ==
    (advisory \in Sessions \cup {None} =>
       Chosen = IF advisory = None THEN None ELSE Choice(advisory))'
<1>1. None \notin Sessions
  BY Constants
<1>2. \A s : (Promotions(s) # {})' <=> \E t \in Tests : Promoted(s, t)'
  BY DEF Promotions, Promoted
<1>3. QED
  BY <1>1, <1>2 DEF Chosen, Choice

\* What others than r do leaves the choice of the holder as it is.
LEMMA OthersKeepChoice ==
    ASSUME Inv, Inv', NEW r \in Sessions, OthersKeep(r),
           \A s \in Sessions \ {r}, t \in Tests : WritesTest(s, t) => test'[t] = test[t]
    PROVE  \/ advisory \notin {None, r} /\ Chosen' = Chosen
           \/ advisory \in {None, r} /\ Chosen = Choice(r) /\ Chosen' = Choice(r)'
<1>1. advisory \in Sessions \cup {None} /\ advisory' \in Sessions \cup {None}
  BY DEF Inv, TypeOK
<1>2. None \notin Sessions
  BY Constants
<1>3. Chosen = IF advisory = None THEN None ELSE Choice(advisory)
  BY <1>1, ChosenIs
<1>4. Chosen' = IF advisory' = None THEN None ELSE Choice(advisory)'
  BY <1>1, ChosenIsNext
<1>5. CASE advisory \in {None, r}
  <2>1. advisory' \in {None, r}
    BY <1>1, <1>2, <1>5 DEF OthersKeep
  <2>2. Chosen = Choice(r)
    BY <1>2, <1>3, <1>5 DEF Choice
  <2>3. Chosen' = Choice(r)'
    BY <1>2, <1>4, <2>1 DEF Choice
  <2>4. QED
    BY <1>5, <2>2, <2>3
<1>6. CASE advisory \notin {None, r}
  <2>1. PICK s \in Sessions \ {r} : advisory = s
    BY <1>1, <1>6
  <2>2. advisory' = s /\ tx'[s] = tx[s]
    BY <2>1 DEF OthersKeep
  <2>3. \A t \in Tests : Promoted(s, t)' <=> Promoted(s, t)
    BY <2>1 DEF OthersKeep, Promoted
  <2>4. Choice(s)' = Choice(s)
    BY <2>1, <2>2, <2>3 DEF Choice
  <2>5. QED
    BY <1>2, <1>3, <1>4, <1>6, <2>1, <2>2, <2>4
<1>7. QED
  BY <1>5, <1>6

\* A step of no session changes no choice.
LEMMA UnseenKeepsChoice ==
    ASSUME Inv, Inv', Unseen, \A t \in Tests : test[t].status # "absent" =>
             test'[t] = test[t] /\ testNew'[t] = testNew[t]
    PROVE  Chosen' = Chosen
<1>1. advisory \in Sessions \cup {None} /\ advisory' = advisory /\ tx' = tx
  BY DEF Inv, TypeOK, Unseen
<1>2. Chosen = IF advisory = None THEN None ELSE Choice(advisory)
  BY <1>1, ChosenIs
<1>3. Chosen' = IF advisory = None THEN None ELSE Choice(advisory)'
  BY <1>1, ChosenIsNext
<1>4. ASSUME NEW s \in Sessions, NEW t \in Tests PROVE Promoted(s, t)' <=> Promoted(s, t)
  <2>1. WritesTest(s, t) => test[t].status # "absent"
    BY DEF Inv, SessionInv, Written, Becoming
  <2>2. WritesTest(s, t)' <=> WritesTest(s, t)
    BY DEF Unseen
  <2>3. QED
    BY <2>1, <2>2 DEF Promoted
<1>5. \A s \in Sessions : Choice(s)' = Choice(s)
  BY <1>1, <1>4 DEF Choice
<1>6. QED
  BY <1>1, <1>2, <1>3, <1>5

\* The statuses between the move and the promotion of a commit of r.
BeforePromotion(r) ==
    [t \in Tests |-> IF ~Promoted(r, t) THEN TestSeen(r, t).status
                     ELSE IF test[t].status = "stopped" THEN "stopped" ELSE "queued"]

\* The promotion of a commit is the promotion of the serial queue, and where
\* there is none, none is due.
LEMMA CommitMovesOn ==
    ASSUME Inv, Inv', StallInv', SerialInv, NEW r \in Sessions, Publishes(r), advisory = r,
           NEW st, st = BeforePromotion(r)
    PROVE  Serial!MovesOn(st)
<1> DEFINE new == [t \in Tests |-> test'[t].status]
<1>1. /\ \A t \in Tests : test'[t] = TestSeen(r, t)
      /\ \A t, u \in Tests : TestSeen(r, t).status = "running" /\ TestSeen(r, u).status = "running"
                             => t = u
      /\ PromotesChosen(r) /\ tx[r].at = "commit" /\ Written(r)
  BY DEF Publishes, Inv, SessionInv, PromotesAlone, SerialInv, Serially
<1>2. \A t \in Tests : Promoted(r, t) => TestSeen(r, t).status = "running"
  BY DEF Promoted, TestSeen
<1>3. \A t \in Tests :
        st[t] = IF ~Promoted(r, t) THEN TestSeen(r, t).status
                ELSE IF test[t].status = "stopped" THEN "stopped" ELSE "queued"
  BY DEF BeforePromotion
<1>4. \A t \in Tests : new[t] = TestSeen(r, t).status
  BY <1>1
<1>8. Chosen = Choice(r) /\ Chosen' = None
  <2>1. OthersKeep(r) /\ advisory' # r
    BY DEF Publishes, HoldsNothing
  <2>2. Chosen = Choice(r) /\ Chosen' = Choice(r)'
    BY <1>1, <2>1, OthersKeepChoice, OneWriter DEF Inv, CommittedInv, TestSeen
  <2>3. QED
    BY <2>1, <2>2 DEF Choice
<1>5. CASE \A t \in Tests : ~Promoted(r, t)
  <2>1. st = new
    BY <1>1, <1>5 DEF BeforePromotion
  <2>2. \A s : Serial!In(new, s) = {t \in Tests : test'[t].status = s}
    BY DEF Serial!In
  <2>3. Serial!In(new, "running") # {} \/ Serial!In(new, "queued") = {}
    BY <2>2 DEF StallInv, QueueNeverStalls
  <2>4. Chosen = None
    BY <1>1, <1>5, <1>8 DEF Choice
  <2>5. QED
    BY <1>8, <2>1, <2>3, <2>4 DEF Serial!MovesOn
<1>6. CASE \E t \in Tests : Promoted(r, t)
  <2>1. PICK t \in Tests : Promoted(r, t)
    BY <1>6
  <2>2. \A u \in Tests \ {t} : ~Promoted(r, u) /\ TestSeen(r, u).status # "running"
    BY <1>1, <1>2, <2>1
  <2>3. Serial!In(st, "running") = {}
    BY <1>3, <2>1, <2>2 DEF Serial!In
  <2>4. new = [st EXCEPT ![t] = "running"]
    <3>1. new[t] = "running" /\ \A u \in Tests \ {t} : new[u] = st[u]
      BY <1>2, <1>3, <1>4, <2>1, <2>2
    <3>2. /\ new = [u \in Tests |-> new[u]] /\ DOMAIN st = Tests
          /\ st = [u \in Tests |-> st[u]]
      BY DEF BeforePromotion
    <3> HIDE DEF new
    <3>3. QED
      BY <3>1, <3>2
  <2>5. Chosen = t /\ t # None
    BY <1>1, <1>8, <2>1, Constants DEF Choice, PromotesChosen
  <2>6. st[t] \in {"queued", "stopped"}
    BY <1>3, <2>1
  <2>7. QED
    BY <1>8, <2>3, <2>4, <2>5, <2>6 DEF Serial!MovesOn
<1>7. QED
  BY <1>5, <1>6

\* What set_priority commits.
LEMMA PrioritySerially ==
    ASSUME Inv, Inv', SerialInv, NEW r \in Sessions, Publishes(r), tx[r].op = "priority"
    PROVE  [Serial!Next]_Serial!vars
<1>1. /\ \A t \in Tests : test'[t] = TestSeen(r, t)
      /\ KeepsTheRest(r) /\ Prioritised(r) /\ tx[r].at = "commit" /\ OthersKeep(r)
  BY DEF Publishes, SerialInv, Serially
<1>2. /\ \A t \in Tests : ~Promoted(r, t)
      /\ \A t \in Tests : test'[t].status = test[t].status /\ test'[t].result = test[t].result
  BY <1>1 DEF Prioritised, Promoted, KeepsTheRest, TestSeen
<1>3. Chosen' = Chosen
  <2>1. Choice(r) = None /\ Choice(r)' = None
    BY <1>1, <1>2 DEF Choice, Publishes, HoldsNothing
  <2>2. QED
    BY <1>1, <2>1, OthersKeepChoice, OneWriter DEF Inv, CommittedInv, TestSeen
<1>4. CASE \E t \in Tests : WritesTest(r, t)
  <2>1. PICK t \in Tests : WritesTest(r, t)
    BY <1>4
  <2>2. PICK p \in Priorities : p = testNew[t].priority
    BY DEF Inv, TypeOK, TestRow
  <2>3. /\ test[t].status \in {"validating", "queued"} /\ test'[t].priority = p
        /\ \A u \in Tests \ {t} : test'[u].priority = test[u].priority
    BY <1>1, <2>1, <2>2 DEF Prioritised, TestSeen
  <2>4. Serial!Reprioritise(t, p)
    BY <1>2, <1>3, <2>3 DEF Serial!Reprioritise
  <2>5. QED
    BY <2>4 DEF Serial!Next
<1>5. CASE \A t \in Tests : ~WritesTest(r, t)
  BY <1>1, <1>3, <1>5 DEF Serial!vars, TestSeen
<1>6. QED
  BY <1>4, <1>5

\* A move that makes room is committed under the advisory lock.
LEMMA RoomIsLocked ==
    ASSUME Inv, StallInv, NEW r \in Sessions, tx[r].at = "commit", NEW t \in Moved(r), MakesRoom(t)
    PROVE  advisory = r
<1>1. t \in Tests /\ WritesTest(r, t)
  BY DEF Moved
<1>2. testNew[t].status = "running" /\ test[t].status # "running" => advisory = r
  BY <1>1 DEF Inv, SessionInv, PromotesAlone
<1>3. advisory # r => /\ test[t].status = "running" => testNew[t].status = "running"
                      /\ testNew[t].status = "queued" => test[t].status = "queued"
  BY <1>1 DEF StallInv, Unpromoted
<1>4. QED
  BY <1>2, <1>3 DEF MakesRoom

LEMMA CommitsSerially ==
    ASSUME Inv, Inv', StallInv, StallInv', SerialInv, NEW r \in Sessions, Publishes(r)
    PROVE  [Serial!Next]_Serial!vars
<1> SUFFICES ASSUME tx[r].op # "priority",
                    NEW st, st = BeforePromotion(r), NEW old, old = [t \in Tests |-> test[t].status]
             PROVE  [Serial!Next]_Serial!vars
  BY PrioritySerially
<1> DEFINE new == [t \in Tests |-> test'[t].status]
           priority == [t \in Tests |-> test[t].priority]
           priorityNew == [t \in Tests |-> test'[t].priority]
           result == [t \in Tests |-> test[t].result]
           resultNew == [t \in Tests |-> test'[t].result]
<1>1. /\ \A t \in Tests : test'[t] = TestSeen(r, t)
      /\ KeepsTheRest(r) /\ MovesOnce(r) /\ tx[r].at = "commit" /\ OthersKeep(r)
      /\ \A t \in Tests : WritesTest(r, t) => testNew[t].status \in Becoming(test[t].status)
      /\ \A t \in Tests : Promoted(r, t) => advisory = r
  BY DEF Publishes, Inv, SessionInv, Written, PromotesAlone, Promoted, SerialInv, Serially
<1>2. \A t \in Tests :
        st[t] = IF ~Promoted(r, t) THEN TestSeen(r, t).status
                ELSE IF test[t].status = "stopped" THEN "stopped" ELSE "queued"
  BY DEF BeforePromotion
<1>3. advisory = r => Serial!MovesOn(st)
  BY CommitMovesOn
<1>9. advisory # r => Chosen' = Chosen
  <2> SUFFICES ASSUME advisory # r PROVE Chosen' = Chosen
    OBVIOUS
  <2>1. advisory' # r
    BY DEF Publishes, HoldsNothing
  <2>2. Choice(r) = None /\ Choice(r)' = None
    BY <2>1 DEF Choice
  <2>3. QED
    BY <1>1, <2>2, OthersKeepChoice, OneWriter DEF Inv, CommittedInv, TestSeen
<1>4. priorityNew = priority
  BY <1>1 DEF KeepsTheRest, TestSeen
<1>5. \A t \in Tests : t \notin Moved(r) => st[t] = old[t] /\ resultNew[t] = result[t]
  BY <1>1, <1>2 DEF Moved, Promoted, TestSeen, KeepsTheRest
<1>6. CASE Moved(r) = {}
  <2>1. st = old /\ resultNew = result
    <3>1. \A t \in Tests : st[t] = old[t] /\ resultNew[t] = result[t]
      BY <1>5, <1>6
    <3>2. QED
      BY <3>1 DEF BeforePromotion
  <2>2. CASE advisory = r
    <3>1. Serial!MovesOn(old)
      BY <1>3, <2>1, <2>2, Zenon
    <3>2. Serial!Tick
      BY <1>4, <2>1, <3>1, Zenon DEF Serial!Tick, Serial!MovesOn, Serial!In
    <3>3. QED
      BY <3>2 DEF Serial!Next
  <2>3. CASE advisory # r
    <3>1. new = st
      BY <1>1, <2>3 DEF BeforePromotion
    <3>2. QED
      BY <1>4, <1>9, <2>1, <2>3, <3>1 DEF Serial!vars
  <2>4. QED
    BY <2>2, <2>3
<1>7. ASSUME NEW m \in Moved(r) PROVE Serial!Next
  <2>1. /\ m \in Tests /\ WritesTest(r, m) /\ testNew[m].status # test[m].status
        /\ test'[m] = testNew[m]
        /\ Promoted(r, m) => test[m].status \notin {"queued", "stopped"}
        /\ advisory = r => MakesRoom(m)
        /\ \A t \in Tests \ {m} : t \notin Moved(r)
    BY <1>1 DEF Moved, MovesOnce, TestSeen
  <2>2. \A t \in Tests \ {m} : st[t] = old[t] /\ resultNew[t] = result[t]
    BY <1>5, <2>1
  <2>3. \A to : st[m] = to => st = [old EXCEPT ![m] = to]
    <3>1. st = [t \in Tests |-> st[t]] /\ old = [t \in Tests |-> old[t]] /\ DOMAIN old = Tests
      BY DEF BeforePromotion
    <3>2. QED
      BY <2>1, <2>2, <3>1
  <2>4. \A to : MakesRoom(m) /\ st[m] = to => Serial!MovesOn([old EXCEPT ![m] = to])
    BY <1>1, <1>3, <2>3, RoomIsLocked, Zenon
  <2>5. \A v : resultNew[m] = v => resultNew = [result EXCEPT ![m] = v]
    <3>1. /\ resultNew = [t \in Tests |-> resultNew[t]]
          /\ result = [t \in Tests |-> result[t]] /\ DOMAIN result = Tests
      OBVIOUS
    <3> HIDE DEF resultNew, result
    <3>2. QED
      BY <2>1, <2>2, <3>1
  <2>6. test[m].status # "running" \/ testNew[m].status # "finished" => resultNew = result
    <3> SUFFICES ASSUME test[m].status # "running" \/ testNew[m].status # "finished"
                 PROVE  resultNew = result
      OBVIOUS
    <3>1. resultNew[m] = result[m]
      BY <1>1, <2>1 DEF KeepsTheRest
    <3>2. \A t \in Tests : resultNew[t] = result[t]
      BY <2>2, <3>1
    <3>3. QED
      BY <3>2
  \* A move that leaves nothing to promote commits without the advisory lock.
  <2>7. ~MakesRoom(m) => new = st /\ Chosen' = Chosen
    <3>1. ~MakesRoom(m) => advisory # r /\ \A t \in Tests : ~Promoted(r, t)
      BY <1>1, <2>1
    <3>2. QED
      BY <1>1, <1>9, <3>1 DEF BeforePromotion
  <2>8. st[m] = IF testNew[m].status = "running" THEN "queued" ELSE testNew[m].status
    BY <1>1, <1>2, <2>1 DEF Promoted, TestSeen, Becoming
  <2>9. CASE test[m].status = "validating" /\ testNew[m].status = "invalid"
    <3>1. new = [old EXCEPT ![m] = "invalid"] /\ Chosen' = Chosen
      BY <2>3, <2>7, <2>8, <2>9 DEF MakesRoom
    <3>2. Serial!Reject(m)
      BY <1>4, <2>1, <2>6, <2>9, <3>1 DEF Serial!Reject, Serial!Moves
    <3>3. QED
      BY <2>1, <3>2 DEF Serial!Next
  <2>10. CASE test[m].status \in {"validating", "queued"} /\ testNew[m].status = "stopped"
    <3>1. new = [old EXCEPT ![m] = "stopped"] /\ Chosen' = Chosen
      BY <2>3, <2>7, <2>8, <2>10 DEF MakesRoom
    <3>2. Serial!Stop(m)
      BY <1>4, <2>1, <2>6, <2>10, <3>1 DEF Serial!Stop, Serial!Moves
    <3>3. QED
      BY <2>1, <3>2 DEF Serial!Next
  <2>11. CASE test[m].status = "validating" /\ testNew[m].status \in {"queued", "running"}
    <3>1. Serial!MovesOn([old EXCEPT ![m] = "queued"])
      <4>1. st[m] = "queued" /\ MakesRoom(m)
        BY <2>8, <2>11 DEF MakesRoom
      <4>2. QED
        BY <2>4, <4>1, Zenon
    <3>2. Serial!Admit(m)
      BY <1>4, <2>1, <2>6, <2>11, <3>1 DEF Serial!Admit, Serial!MovesOn, Serial!In
    <3>3. QED
      BY <2>1, <3>2 DEF Serial!Next
  <2>12. CASE test[m].status = "running" /\ testNew[m].status = "stopped"
    <3>1. Serial!MovesOn([old EXCEPT ![m] = "stopped"])
      <4>1. st[m] = "stopped" /\ MakesRoom(m)
        BY <2>8, <2>12 DEF MakesRoom
      <4>2. QED
        BY <2>4, <4>1, Zenon
    <3>2. Serial!Stop(m)
      BY <1>4, <2>1, <2>6, <2>12, <3>1
      DEF Serial!Stop, Serial!Ends, Serial!MovesOn, Serial!In
    <3>3. QED
      BY <2>1, <3>2 DEF Serial!Next
  <2>13. CASE test[m].status = "running" /\ testNew[m].status = "finished"
    <3>1. Serial!MovesOn([old EXCEPT ![m] = "finished"])
      <4>1. st[m] = "finished" /\ MakesRoom(m)
        BY <2>8, <2>13 DEF MakesRoom
      <4>2. QED
        BY <2>4, <4>1, Zenon
    <3>2. PICK v \in Serial!Verdicts : resultNew[m] = v
      BY <1>1, <2>1, <2>13 DEF KeepsTheRest
    <3>3. Serial!Finish(m, v)
      BY <1>4, <2>1, <2>5, <2>13, <3>1, <3>2
      DEF Serial!Finish, Serial!Ends, Serial!MovesOn, Serial!In
    <3>4. QED
      BY <2>1, <3>3 DEF Serial!Next
  <2>14. QED
    BY <1>1, <2>1, <2>9, <2>10, <2>11, <2>12, <2>13 DEF Becoming, Promoted
<1>8. QED
  BY <1>6, <1>7

LEMMA ChoosesSerially ==
    ASSUME Inv, Inv', SerialInv, NEW r \in Sessions, NEW t \in Tests, Chooses(r, t)
    PROVE  Serial!Next
<1> DEFINE old == [u \in Tests |-> test[u].status]
           st == [u \in Tests |-> TestSeen(r, u).status]
<1>1. /\ Serialises(r) /\ tx[r].at = "promote" /\ SeenAs(r, "running") = {}
      /\ t \in BestQueued(r) /\ test' = test /\ OthersKeep(r)
      /\ advisory \in {None, r} /\ advisory' = r
  BY DEF Chooses, Serialises, Statement
<1>2. tx'[r].at = "take" /\ tx'[r].t = t
  BY Fields DEF Chooses, Inv, TypeOK
<1>3. MovesOnce(r) /\ KeepsTheRest(r) /\ Prioritised(r)
  BY DEF SerialInv, Serially
<1>4. \A u \in Tests : ~Promoted(r, u)
  BY <1>1 DEF SeenAs, TestSeen, Promoted
<1>5. Chosen = None /\ Chosen' = t
  <2>1. Choice(r) = None /\ Choice(r)' = t
    BY <1>1, <1>2, <1>4 DEF Choice
  <2>2. QED
    BY <1>1, <2>1, OthersKeepChoice
<1>6. \A u \in Tests : u \notin Moved(r) => st[u] = old[u]
  BY <1>4 DEF Moved, TestSeen
<1>7. st \in Serial!Rooms
  <2>1. CASE Moved(r) = {}
    <3>1. st = old
      BY <1>6, <2>1
    <3>2. QED
      BY <3>1 DEF Serial!Rooms
  <2>2. ASSUME NEW m \in Moved(r) PROVE st \in Serial!Rooms
    <3>1. /\ m \in Tests /\ WritesTest(r, m) /\ MakesRoom(m)
          /\ \A u \in Tests \ {m} : u \notin Moved(r)
      BY <1>1, <1>3 DEF Moved, MovesOnce
    <3>2. st[m] = testNew[m].status /\ st[m] # "running"
      BY <1>4, <3>1 DEF TestSeen, MakesRoom, Promoted
    <3>3. \A u \in Tests \ {m} : st[u] = old[u]
      BY <1>6, <3>1
    <3>4. /\ st = [u \in Tests |-> st[u]] /\ old = [u \in Tests |-> old[u]]
          /\ DOMAIN old = Tests /\ old[m] = test[m].status
      BY <3>1
    <3> HIDE DEF st, old
    <3>5. \A to : st[m] = to => st = [old EXCEPT ![m] = to]
      BY <3>1, <3>3, <3>4
    <3>6. \/ old[m] = "running" /\ st[m] \in {"finished", "stopped"}
          \/ old[m] = "validating" /\ st[m] = "queued"
      BY <3>1, <3>2, <3>4 DEF MakesRoom
    <3>7. CASE old[m] = "running" /\ st[m] \in {"finished", "stopped"}
      BY <3>1, <3>5, <3>7 DEF Serial!Rooms, Serial!In, old
    <3>8. CASE old[m] = "validating" /\ st[m] = "queued"
      BY <3>1, <3>5, <3>8 DEF Serial!Rooms, Serial!In, old
    <3>9. QED
      BY <3>6, <3>7, <3>8
  <2>3. QED
    BY <2>1, <2>2
<1>8. Serial!In(st, "running") = {}
  BY <1>1 DEF Serial!In, SeenAs
<1>9. t \in Serial!Best(st)
  <2>1. /\ st[t] = "queued"
        /\ \A u \in Tests \ {t} : st[u] = "queued" => Better(r, t, u)
    BY <1>1 DEF BestQueued, SeenAs
  <2>2. \A u \in Tests : TestSeen(r, u).priority = test[u].priority
    BY <1>1, <1>3 DEF KeepsTheRest, Prioritised, Resting, TestSeen
  <2>3. QED
    BY <2>1, <2>2 DEF Better, Serial!Best, Serial!In
<1>10. Serial!Choose
  <2> HIDE DEF st
  <2>1. QED
    BY <1>1, <1>5, <1>7, <1>8, <1>9 DEF Serial!Choose
<1>11. QED
  BY <1>10 DEF Serial!Next

\* A statement of a session that neither chooses nor commits keeps its choice or
\* gives it up.
LEMMA StatementsSerially ==
    ASSUME Inv, Inv', NEW r \in Sessions, Statement(r), Choice(r)' \in {Choice(r), None}
    PROVE  [Serial!Next]_Serial!vars
<1>1. test' = test /\ Chosen' \in {Chosen, None}
  BY OthersKeepChoice DEF Statement
<1>2. CASE Chosen' = Chosen
  BY <1>1, <1>2 DEF Serial!vars
<1>3. CASE Chosen' = None
  <2>1. Serial!GiveUp
    BY <1>1, <1>3 DEF Serial!GiveUp
  <2>2. QED
    BY <2>1 DEF Serial!Next
<1>4. QED
  BY <1>1, <1>2, <1>3

LEMMA OthersSerially ==
    ASSUME Inv, Inv', SerialInv, StepKind, \A r \in Sessions : ~Publishes(r),
           \A r \in Sessions, t \in Tests : ~Chooses(r, t),
           \A t \in Tests, priority \in Priorities : ~Inserts(t, priority)
    PROVE  [Serial!Next]_Serial!vars
<1>1. ASSUME NEW r \in Sessions, Statement(r), advisory' # r
      PROVE  [Serial!Next]_Serial!vars
  BY <1>1, StatementsSerially DEF Choice
<1>2. ASSUME NEW r \in Sessions, Rests(r) \/ TakesPairs(r)
      PROVE  [Serial!Next]_Serial!vars
  BY <1>1, <1>2 DEF Rests, TakesPairs, HoldsNothing
<1>3. ASSUME NEW r \in Sessions, NEW t \in Tests, WritesOne(r, t)
      PROVE  [Serial!Next]_Serial!vars
  BY <1>1, <1>3 DEF WritesOne
<1>4. ASSUME NEW t \in Tests, Passes(t) PROVE [Serial!Next]_Serial!vars
  BY <1>1, <1>4, SessionsNamed DEF Passes
<1>5. ASSUME NEW r \in Sessions, NEW t \in Tests, Refreshes(r, t)
      PROVE  [Serial!Next]_Serial!vars
  <2>1. /\ Statement(r) /\ advisory' = advisory /\ test' = test
        /\ \A u \in Tests : WritesTest(r, u)' <=> WritesTest(r, u) \/ u = t
        /\ \A u \in Tests \ {t} : testNew'[u] = testNew[u]
        /\ tx[r].at = "refresh" /\ t \in tx[r].todo
    BY <1>5 DEF Refreshes, WritesRow, Statement
  <2>2. tx'[r].t = tx[r].t /\ tx'[r].at # "take"
    BY <1>5, Fields DEF Refreshes, AfterRefresh, Inv, TypeOK
  <2>3. ~Promoted(r, t)
    BY <2>1, RefreshedIsNotEarly DEF Promoted
  <2>4. \A u \in Tests : Promoted(r, u)' => Promoted(r, u)
    <3>1. testNew'[t].status = "running" => test[t].status = "running"
      <4>1. TestSeen(r, t).status = "running" => test[t].status = "running"
        BY <2>3 DEF Promoted, TestSeen
      <4>2. testNew'[t].status = TestSeen(r, t).status \/ testNew'[t].status = "finished"
        BY <1>5, SeenIsRow DEF Refreshes, Refreshed, TestRow, Inv
      <4>3. QED
        BY <4>1, <4>2
    <3>2. QED
      BY <2>1, <3>1 DEF Promoted
  <2>5. Choice(r)' \in {Choice(r), None}
    BY <2>1, <2>2, <2>4 DEF Choice
  <2>6. QED
    BY <2>1, <2>5, StatementsSerially
<1>6. ASSUME NEW r \in Sessions, NEW t \in Tests, Promotes(r, t)
      PROVE  [Serial!Next]_Serial!vars
  <2>1. /\ Statement(r) /\ advisory' = advisory /\ tx[r].at = "take" /\ tx'[r].t = tx[r].t
    BY <1>6, Fields DEF Promotes, WritesRow, Inv, TypeOK
  <2>2. Choice(r)' \in {Choice(r), None}
    BY <2>1 DEF Choice
  <2>3. QED
    BY <2>1, <2>2, StatementsSerially
<1>7. ASSUME NEW r \in Sessions, PromotesNone(r) PROVE [Serial!Next]_Serial!vars
  <2>1. /\ Serialises(r) /\ Statement(r) /\ test' = test /\ testNew' = testNew
        /\ \A u \in Tests : WritesTest(r, u)' <=> WritesTest(r, u)
    BY <1>7 DEF PromotesNone, Serialises, Statement
  <2>2. tx'[r].t = tx[r].t /\ tx'[r].at # "take"
    BY <1>7, Fields DEF PromotesNone, AfterPromotion, Inv, TypeOK
  <2>3. \A u \in Tests : Promoted(r, u)' => Promoted(r, u) /\ advisory = r
    BY <2>1 DEF Promoted, Inv, SessionInv, PromotesAlone
  <2>4. Choice(r)' \in {Choice(r), None}
    BY <2>2, <2>3 DEF Choice
  <2>5. QED
    BY <2>1, <2>4, StatementsSerially
<1>8. ASSUME Stutters \/ \E p \in Pairs : Expires(p) PROVE [Serial!Next]_Serial!vars
  <2>1. Unseen /\ test' = test /\ testNew' = testNew
    BY <1>8 DEF Stutters, Expires
  <2>2. QED
    BY <2>1, UnseenKeepsChoice DEF Serial!vars
<1>9. QED
  BY <1>2, <1>3, <1>4, <1>5, <1>6, <1>7, <1>8, Zenon DEF StepKind

LEMMA InsertsSerially ==
    ASSUME Inv, Inv', NEW t \in Tests, NEW priority \in Priorities, Inserts(t, priority)
    PROVE  Serial!Next
<1>5. Chosen' = Chosen
  BY UnseenKeepsChoice DEF Inserts
<1>1. /\ test[t].status = "absent" /\ test[t] \in TestRow
      /\ test'[t] = WithPriority(WithStatus(test[t], "validating"), priority)
      /\ \A u \in Tests \ {t} : test'[u] = test[u]
  BY DEF Inserts, Inv, TypeOK
<1>2. /\ test'[t].status = "validating" /\ test'[t].priority = priority
      /\ test'[t].result = test[t].result
  BY <1>1 DEF WithPriority, WithStatus, TestRow
<1>3. Serial!Insert(t, priority)
  BY <1>1, <1>2, <1>5 DEF Serial!Insert
<1>4. QED
  BY <1>3 DEF Serial!Next

LEMMA InitSerially == Init => Serial!Init
<1> SUFFICES ASSUME Init PROVE Serial!Init
  OBVIOUS
<1>1. \A t \in Tests : /\ test[t].status = InitialStatus[t]
                       /\ test[t].priority = InitialPriority[t] /\ test[t].result = "pending"
  BY DEF Init
<1>2. /\ [t \in Tests |-> test[t].status] \in [Tests -> {"absent", "validating", "queued", "running"}]
      /\ [t \in Tests |-> test[t].priority] \in [Tests -> Priorities]
      /\ [t \in Tests |-> test[t].result] = [t \in Tests |-> "pending"]
  BY <1>1, Constants
<1>3. Serial!OneRuns
  BY <1>1, Constants DEF Serial!OneRuns
<1>4. Serial!NobodyWaits
  <2> DEFINE status == [t \in Tests |-> test[t].status]
  <2>1. (\E t \in Tests : status[t] = "queued") => \E t \in Tests : status[t] = "running"
    <3>1. \A t \in Tests : status[t] = InitialStatus[t]
      BY <1>1
    <3>2. QED
      BY <3>1, Constants
  <2> HIDE DEF status
  <2>2. {t \in Tests : status[t] = "queued"} # {} => {t \in Tests : status[t] = "running"} # {}
    BY <2>1
  <2>3. QED
    BY <2>2 DEF status, Serial!NobodyWaits, Serial!In
<1>5. Chosen = None
  BY InitSees, Constants DEF Init, Chosen
<1>6. QED
  BY <1>2, <1>3, <1>4, <1>5 DEF Serial!Init

\* The statuses, priorities and results of the tests change as if each request
\* ran alone and promoted, at once, the test that it had chosen when it was the
\* best: the queue implements module SerialQueue (finish_test, stop_test,
\* set_priority, the smoke worker and promote_next_test under the advisory lock).
THEOREM TheQueueIsSerial == Spec => QueueIsSerial
<1>1. ASSUME Inv, Inv', StallInv, StallInv', SerialInv, [Next]_vars
      PROVE  [Serial!Next]_Serial!vars
  <2>1. StepKind
    BY <1>1, StepsAreOfAKind
  <2>2. QED
    BY <1>1, <2>1, CommitsSerially, ChoosesSerially, InsertsSerially, OthersSerially
<1>2. QED
  BY <1>1, InitSerially, Invariance, StallInvariance, SerialInvariance, PTL
  DEF Spec, QueueIsSerial, Serial!Spec

-----------------------------------------------------------------------------
(* A test begins with pairs that nobody has touched: what ClientRunner     *)
(* takes for granted when the active test changes (TestStarts).            *)

PromotesFresh(s) ==
    \A p \in Pairs : Promoted(s, TestOf[p]) => Untouched(s, p)
FreshInv == \A s \in Sessions : PromotesFresh(s)

LEMMA StatementKeepsFresh ==
    ASSUME Inv, FreshInv, NEW r \in Sessions, Statement(r), PromotesFresh(r)'
    PROVE  FreshInv'
<1> SUFFICES ASSUME NEW s \in Sessions \ {r}, NEW p \in Pairs, Promoted(s, TestOf[p])'
             PROVE  Untouched(s, p)'
  BY DEF FreshInv, PromotesFresh
<1>1. TestOf[p] \in Tests
  BY Constants
<1>2. /\ PairSeen(s, p)' = PairSeen(s, p) /\ (pairLock'[p] = s <=> pairLock[p] = s)
      /\ Promoted(s, TestOf[p])
  BY <1>1, SameView DEF Promoted, Statement
<1>3. PairSeen(s, p) = NewPair /\ pairLock[p] \in {None, s}
  BY <1>2 DEF FreshInv, PromotesFresh, Untouched
<1>4. CASE pairLock[p] = None
  <2>1. pair[p] = NewPair
    BY <1>3, <1>4, WorkersAreNotTheOthers DEF PairSeen
  <2>2. test[TestOf[p]].status # "running"
    BY <1>2 DEF Promoted
  <2>3. test[TestOf[p]].status # "validating"
    BY <2>1, NewIsNotNo DEF Inv, CommittedInv, EarlyHasNoPairs, Early
  <2>4. QED
    BY <1>2, <1>3, <1>4, <2>1, <2>2, <2>3, StaysUntouched DEF Untouched
<1>5. QED
  BY <1>2, <1>3, <1>4 DEF Untouched

LEMMA NextFresh ==
    ASSUME Inv, FreshInv, [Next]_vars
    PROVE  FreshInv'
<1>1. StepKind
  BY StepsAreOfAKind
<1>2. \A p \in Pairs : TestOf[p] \in Tests
  BY Constants
<1>3. ASSUME NEW r \in Sessions, Statement(r), \A t \in Tests : ~Promoted(r, t)'
      PROVE  FreshInv'
  BY <1>2, <1>3, StatementKeepsFresh DEF PromotesFresh
<1>4. ASSUME NEW r \in Sessions, Rests(r) \/ TakesPairs(r) PROVE FreshInv'
  BY <1>3, <1>4, NoWritesWithoutLocks
  DEF Rests, TakesPairs, HoldsNothing, Locks, WritesTest, Promoted
<1>5. ASSUME NEW r \in Sessions, NEW t \in Tests, WritesOne(r, t) PROVE FreshInv'
  <2>1. testNew'[t].status = "running" => test[t].status = "running"
    <3>1. test[t] \in TestRow
      BY DEF Inv, TypeOK
    <3>2. CASE Stops(r, t)
      BY <3>1, <3>2 DEF Stops, WithStatus, TestRow
    <3>3. CASE Prioritises(r, t)
      BY <3>1, <3>3 DEF Prioritises, WithPriority, TestRow
    <3>4. CASE Fails(r, t)
      BY <3>1, <3>4 DEF Fails, WithStatus, TestRow
    <3>5. QED
      BY <1>5, <3>2, <3>3, <3>4 DEF WritesOne
  <2>2. Statement(r) /\ \A u \in Tests : ~Promoted(r, u)'
    BY <1>5, <2>1 DEF WritesOne, Statement, Promoted
  <2>3. QED
    BY <1>3, <2>2
<1>6. ASSUME NEW t \in Tests, Passes(t) PROVE FreshInv'
  <2>1. testNew'[t].status = "queued"
    BY <1>6 DEF Passes, WithStatus, Inv, TypeOK, TestRow
  <2>2. Statement(Smoke) /\ \A u \in Tests : ~Promoted(Smoke, u)'
    BY <1>6, <2>1 DEF Passes, Promoted
  <2>3. QED
    BY <1>3, <2>2, SessionsNamed
<1>7. ASSUME NEW r \in Sessions, NEW t \in Tests, Refreshes(r, t) PROVE FreshInv'
  <2>1. /\ Statement(r) /\ test' = test /\ pair' = pair /\ pairNew' = pairNew /\ pairLock' = pairLock
        /\ \A u \in Tests : WritesTest(r, u)' <=> WritesTest(r, u) \/ u = t
        /\ \A u \in Tests \ {t} : testNew'[u] = testNew[u]
        /\ testNew'[t] = Refreshed(r, t) /\ tx[r].at = "refresh" /\ t \in tx[r].todo
    BY <1>7 DEF Refreshes, WritesRow, Statement
  <2>2. testNew'[t].status \in {"finished", TestSeen(r, t).status}
    BY <2>1, SeenIsRow DEF Refreshed, Inv, TestRow
  <2>3. testNew'[t].status = "running" => test[t].status = "running"
    BY <2>1, <2>2, RefreshedIsNotEarly DEF TestSeen
  <2>4. PromotesFresh(r)'
    BY <1>2, <2>1, <2>3 DEF FreshInv, PromotesFresh, Promoted, Untouched, PairSeen
  <2>5. QED
    BY <2>1, <2>4, StatementKeepsFresh
<1>8. ASSUME NEW r \in Sessions, NEW t \in Tests, Promotes(r, t) PROVE FreshInv'
  <2>1. /\ Statement(r) /\ test' = test /\ pair' = pair /\ pairNew' = pairNew /\ pairLock' = pairLock
        /\ \A u \in Tests : WritesTest(r, u)' <=> WritesTest(r, u) \/ u = t
        /\ \A u \in Tests \ {t} : testNew'[u] = testNew[u]
        /\ tx[r].at = "take" /\ tx[r].t = t
    BY <1>8 DEF Promotes, WritesRow, Statement
  <2>2. \A p \in Pairs : TestOf[p] = t => Untouched(r, p)
    BY <2>1 DEF Inv, SessionInv, ChoosesFresh
  <2>3. PromotesFresh(r)'
    BY <1>2, <2>1, <2>2 DEF FreshInv, PromotesFresh, Promoted, Untouched, PairSeen
  <2>4. QED
    BY <2>1, <2>3, StatementKeepsFresh
<1>9. ASSUME NEW r \in Sessions, Serialises(r) PROVE FreshInv'
  <2>1. /\ Statement(r) /\ test' = test /\ testNew' = testNew
        /\ pair' = pair /\ pairNew' = pairNew /\ pairLock' = pairLock
        /\ \A u \in Tests : WritesTest(r, u)' <=> WritesTest(r, u)
    BY <1>9 DEF Serialises, Statement
  <2>2. PromotesFresh(r)'
    BY <1>2, <2>1 DEF FreshInv, PromotesFresh, Promoted, Untouched, PairSeen
  <2>3. QED
    BY <2>1, <2>2, StatementKeepsFresh
<1>10. ASSUME NEW r \in Sessions, Publishes(r) PROVE FreshInv'
  <2> SUFFICES ASSUME NEW s \in Sessions, NEW p \in Pairs, Promoted(s, TestOf[p])'
               PROVE  Untouched(s, p)'
    BY DEF FreshInv, PromotesFresh
  <2>1. s # r
    <3>1. \A t \in Tests : ~WritesTest(r, t)'
      BY <1>10, NoWritesWithoutLocks DEF Publishes, HoldsNothing, Locks, WritesTest
    <3>2. QED
      BY <1>2, <3>1 DEF Promoted
  <2>2. /\ WritesTest(s, TestOf[p]) /\ testNew' = testNew /\ pairNew' = pairNew
        /\ pairLock'[p] = (IF pairLock[p] = r THEN None ELSE pairLock[p])
        /\ pair'[p] = PairSeen(r, p) /\ test'[TestOf[p]] = TestSeen(r, TestOf[p])
    BY <1>2, <1>10, <2>1 DEF Publishes, OthersKeep, Promoted
  <2>3. test'[TestOf[p]] = test[TestOf[p]]
    BY <1>2, <2>1, <2>2, OneWriter DEF Inv, CommittedInv, TestSeen
  <2>4. Untouched(s, p)
    BY <2>2, <2>3 DEF FreshInv, PromotesFresh, Promoted
  <2>5. QED
    BY <2>1, <2>2, <2>4, WorkersAreNotTheOthers DEF Untouched, PairSeen
<1>11. ASSUME Unseen, (pair' = pair /\ pairNew' = pairNew) \/ \E p \in Pairs : Expires(p),
              \A s \in Sessions, t \in Tests :
                WritesTest(s, t) => test'[t] = test[t] /\ testNew'[t] = testNew[t]
       PROVE  FreshInv'
  <2> SUFFICES ASSUME NEW s \in Sessions, NEW p \in Pairs, Promoted(s, TestOf[p])'
               PROVE  Untouched(s, p)'
    BY DEF FreshInv, PromotesFresh
  <2>1. Promoted(s, TestOf[p]) /\ pairLock' = pairLock
    BY <1>2, <1>11 DEF Unseen, Promoted
  <2>2. PairSeen(s, p) = NewPair /\ pairLock[p] \in {None, s}
    BY <2>1 DEF FreshInv, PromotesFresh, Untouched
  <2>3. pair'[p] = pair[p] /\ pairNew'[p] = pairNew[p]
    BY <1>11, <2>2, NewIsNotNo, WorkersAreNotTheOthers DEF Expires, PairSeen
  <2>4. QED
    BY <2>1, <2>2, <2>3 DEF Untouched, PairSeen
<1>12. ASSUME NEW t \in Tests, NEW priority \in Priorities, Inserts(t, priority) PROVE FreshInv'
  <2>1. \A s \in Sessions : ~WritesTest(s, t)
    BY <1>12 DEF Inserts, Inv, SessionInv, Written, Becoming
  <2>2. QED
    BY <1>11, <1>12, <2>1 DEF Inserts
<1>13. ASSUME Stutters \/ \E p \in Pairs : Expires(p) PROVE FreshInv'
  BY <1>11, <1>13 DEF Stutters, Expires
<1>14. QED
  BY <1>1, <1>4, <1>5, <1>6, <1>7, <1>8, <1>9, <1>10, <1>12, <1>13
  DEF StepKind, PromotesNone, Chooses

\* A test that begins to run has only pairs that were never leased, whatever was
\* stopped, rolled back or expired before: no test runs a second time with the
\* leases of the first (promote_next_test, also in the race of PromotesOnlyQueued).
THEOREM TestsStartFresh ==
    Spec => [][\A t \in Tests : test'[t].status = "running" /\ test[t].status # "running" =>
                 \A p \in PairsOf(t) : pair'[p] = NewPair]_vars
<1>1. ASSUME Inv, FreshInv, [Next]_vars, NEW t \in Tests,
             test'[t].status = "running", test[t].status # "running",
             NEW p \in PairsOf(t)
      PROVE  pair'[p] = NewPair
  <2>1. StepKind
    BY <1>1, StepsAreOfAKind
  <2>2. PICK r \in Sessions : Publishes(r)
    <3>1. ASSUME NEW u \in Tests, NEW priority \in Priorities, Inserts(u, priority)
          PROVE  test'[t].status # "running"
      <4>1. t = u
        BY <1>1, <3>1 DEF Inserts
      <4>2. test'[u].status = "validating"
        BY <1>1, <3>1 DEF Inserts, WithPriority, WithStatus, Inv, TypeOK, TestRow
      <4>3. QED
        BY <4>1, <4>2
    <3>2. test' # test
      BY <1>1
    <3>3. \A u \in Sessions : ~Statement(u)
      BY <3>2 DEF Statement
    <3>4. \A u \in Sessions :
            /\ ~Rests(u) /\ ~TakesPairs(u) /\ ~PromotesNone(u)
            /\ \A v \in Tests : /\ ~Chooses(u, v) /\ ~WritesOne(u, v)
                               /\ ~Refreshes(u, v) /\ ~Promotes(u, v)
      BY <3>3 DEF Rests, TakesPairs, PromotesNone, Chooses, Serialises, WritesOne, Refreshes,
                  Promotes, WritesRow
    <3>5. \A v \in Tests : ~Passes(v)
      BY <3>2 DEF Passes, Statement
    <3>6. ~Stutters /\ \A q \in Pairs : ~Expires(q)
      BY <3>2 DEF Expires, Stutters
    <3>7. QED
      BY <1>1, <2>1, <3>1, <3>4, <3>5, <3>6 DEF StepKind
  <2>3. Promoted(r, t) /\ p \in Pairs /\ TestOf[p] = t
    BY <1>1, <2>2 DEF Publishes, TestSeen, Promoted, PairsOf
  <2>4. QED
    BY <1>1, <2>2, <2>3 DEF FreshInv, PromotesFresh, Untouched, Publishes
<1>2. Init => FreshInv
  BY InitSees, Constants DEF FreshInv, PromotesFresh, Promoted
<1>3. Inv /\ FreshInv /\ [Next]_vars => FreshInv'
  BY NextFresh
<1>4. Inv /\ FreshInv /\ [Next]_vars =>
        [\A t \in Tests : test'[t].status = "running" /\ test[t].status # "running" =>
           \A p \in PairsOf(t) : pair'[p] = NewPair]_vars
  BY <1>1
<1>5. QED
  BY <1>2, <1>3, <1>4, Invariance, PTL DEF Spec
=============================================================================
