--------------------------- MODULE JobQueueProofs ---------------------------
(***************************************************************************)
(* Theorems about JobQueue for every set of workers, clients, tests and    *)
(* pairs, every number of attempts and every scenario.                     *)
(***************************************************************************)
EXTENDS QueueProperties, LeaseTime, FiniteSetTheorems, TLAPS

\* The recounts of refresh_test are numbers: the pairs of a test are finite.
LEMMA CountsAreNumbers ==
    ASSUME NEW s, NEW t
    PROVE  /\ Recount(s, t) \in [Categories -> Nat]
           /\ PairsValid(s, t) \in Nat
<1>1. ASSUME NEW ks PROVE Cardinality(Scored(s, t, ks)) \in Nat
  <2>1. IsFiniteSet(Pairs) /\ Scored(s, t, ks) \subseteq Pairs
    BY Constants DEF Scored, PairsOf
  <2>2. QED
    BY <2>1, FS_Subset, FS_CardinalityType
<1>2. QED
  BY <1>1 DEF Recount, PairsValid

\* refresh_test ends a test with a value of the enum test_result.
LEMMA VerdictIsResult ==
    ASSUME NEW s, NEW t PROVE Verdict(s, t) \in TestResults
BY DEF Verdict, TestResults

LEMMA SeenIsRow ==
    ASSUME TypeOK, NEW s
    PROVE  /\ \A p \in Pairs : PairSeen(s, p) \in PairRow
           /\ \A t \in Tests : TestSeen(s, t) \in TestRow
BY DEF TypeOK, PairSeen, TestSeen

LEMMA RefreshedIsRow ==
    ASSUME TypeOK, NEW s, NEW t \in Tests
    PROVE  Refreshed(s, t) \in TestRow
<1> DEFINE row == TestSeen(s, t)
<1>1. row \in TestRow
  BY SeenIsRow
<1>2. WithPoint(row.history, PairsValid(s, t)) \in Seq(Nat)
  BY <1>1, CountsAreNumbers DEF WithPoint, TestRow
<1>3. QED
  BY <1>1, <1>2, CountsAreNumbers, VerdictIsResult DEF Refreshed, TestRow, TestStatuses

-----------------------------------------------------------------------------
(* Every variable keeps its type. *)

LEMMA ReleaseTyped ==
    ASSUME TypeOK, NEW s \in Sessions, Release(s)
    PROVE  /\ pairLock' \in [Pairs -> Sessions \cup {None}]
           /\ testLocks' \in [Tests -> SUBSET [by : Sessions, mode : LockModes]]
           /\ advisory' \in Sessions \cup {None}
BY DEF Release, TypeOK

LEMMA LockTyped ==
    ASSUME TypeOK, NEW s \in Sessions, NEW t, NEW m \in LockModes, LockTest(s, t, m)
    PROVE  testLocks' \in [Tests -> SUBSET [by : Sessions, mode : LockModes]]
<1>1. [by |-> s, mode |-> m] \in [by : Sessions, mode : LockModes]
  OBVIOUS
<1>2. QED
  BY <1>1 DEF LockTest, TypeOK

LEMMA LeaseTyped ==
    ASSUME NEW row \in PairRow, NEW c \in Clients PROVE Lease(row, c) \in PairRow
<1>1. \A n \in Nat : [row EXCEPT !.status = "leased", !.leasedTo = c, !.due = FALSE,
                                  !.attempts = n] \in PairRow
  BY DEF PairRow, PairStatuses
<1>2. row.attempts + 1 \in Nat
  BY DEF PairRow
<1>3. QED
  BY <1>1, <1>2, Zenon DEF Lease

LEMMA RequeueTyped ==
    ASSUME NEW row \in PairRow PROVE Requeue(row) \in PairRow
BY DEF Requeue, PairRow, PairStatuses

LEMMA RecoveredTyped ==
    ASSUME NEW row \in PairRow PROVE Recovered(row) \in PairRow
<1>1. [row EXCEPT !.status = "discarded"] \in PairRow
  BY DEF PairRow, PairStatuses
<1>2. QED
  BY <1>1, RequeueTyped DEF Recovered

LEMMA CompleteTyped ==
    ASSUME NEW row \in PairRow, NEW o \in Outcomes, NEW c \in Clients \cup {None}
    PROVE  Complete(row, o, c) \in PairRow
BY DEF Complete, PairRow, PairStatuses

LEMMA LateTyped == ASSUME NEW row \in PairRow PROVE Late(row) \in PairRow
BY DEF Late, PairRow

LEMMA WithStatusTyped ==
    ASSUME NEW row \in TestRow, NEW status \in TestStatuses
    PROVE  WithStatus(row, status) \in TestRow
BY DEF WithStatus, TestRow

LEMMA WithPriorityTyped ==
    ASSUME NEW row \in TestRow, NEW priority \in Priorities
    PROVE  WithPriority(row, priority) \in TestRow
BY DEF WithPriority, TestRow

LEMMA IdleTyped == Idle \in Txs
BY DEF Idle, Txs, Steps, Ops, TestStatuses, ClientStatuses

\* The moves of a session between the statements of its transaction.
Plain == {"idle", "refresh", "promote", "commit"}

LEMMA StartingTyped == ASSUME NEW op \in Ops PROVE Starting(op) \in Txs
BY DEF Starting, Idle, Txs, Steps, Ops, TestStatuses, ClientStatuses

LEMMA AtTyped ==
    ASSUME NEW r \in Txs, NEW step \in Plain PROVE At(r, step) \in Txs
BY DEF At, Txs, Steps, Plain

LEMMA WithTodoTyped ==
    ASSUME NEW r \in Txs, NEW step \in Plain, NEW todo \in SUBSET Tests
    PROVE  WithTodo(r, step, todo) \in Txs
BY DEF WithTodo, Txs, Steps, Plain

LEMMA WithChoiceTyped ==
    ASSUME NEW r \in Txs, NEW step \in {"take", "smoke"}, NEW t \in Tests
    PROVE  WithChoice(r, step, t) \in Txs
BY DEF WithChoice, Txs, Steps

LEMMA SessionTyped ==
    ASSUME TypeOK, NEW s \in Sessions, NEW r \in Txs, Becomes(s, r)
    PROVE  tx' \in [Sessions -> Txs]
BY DEF TypeOK, Becomes

LEMMA SessionsNamed ==
    /\ Workers \subseteq Sessions
    /\ Maintenance \in Sessions
    /\ Smoke \in Sessions
BY DEF Sessions

LEMMA InitTyped == Init => TypeOK
<1> SUFFICES ASSUME Init PROVE TypeOK
  OBVIOUS
<1>1. NoPair \in PairRow /\ NewPair \in PairRow
  BY DEF NoPair, NewPair, PairRow, PairStatuses
<1>2. pair \in [Pairs -> PairRow] /\ pairNew \in [Pairs -> PairRow]
  BY <1>1 DEF Init
<1>3. <<0>> \in Seq(Nat) /\ <<>> \in Seq(Nat)
  OBVIOUS
<1>4. test \in [Tests -> TestRow] /\ testNew \in [Tests -> TestRow]
  BY <1>3, Constants DEF Init, TestRow, TestStatuses, TestResults
<1>5. QED
  BY <1>2, <1>4, IdleTyped DEF Init, TypeOK, ClientStatuses, Sessions

\* One step per action.
LEMMA NextTyped == TypeOK /\ [Next]_vars => TypeOK'
<1> SUFFICES ASSUME TypeOK, [Next]_vars PROVE TypeOK'
  OBVIOUS
<1> USE DEF TypeOK
<1>1. ASSUME NEW w \in Workers, NEW c \in Clients, NEW k \in 1..Slots, ClaimPairs(w, c, k)
      PROVE  TypeOK'
  <2>1. \A p \in Pairs : Lease(pair[p], c) \in PairRow
    BY LeaseTyped
  <2>2. pairNew' \in [Pairs -> PairRow]
    BY <1>1, <2>1 DEF ClaimPairs
  <2>3. At(Starting("claim"), "commit") \in Txs
    BY StartingTyped, AtTyped DEF Ops, Plain
  <2>4. tx' \in [Sessions -> Txs]
    BY <1>1, <2>3, SessionTyped, SessionsNamed DEF ClaimPairs
  <2>5. QED
    BY <1>1, <2>2, <2>4, SessionsNamed DEF ClaimPairs
<1>2. ASSUME NEW w \in Workers, NEW p \in Pairs, NEW c \in Clients, SubmitRead(w, p, c)
      PROVE  TypeOK'
  <2>1. test[TestOf[p]].status \in TestStatuses
    BY Constants DEF TestRow
  <2>2. \A st \in TestStatuses, cs \in ClientStatuses : Submission(p, c, st, cs) \in Txs
    BY DEF Submission, Idle, Txs, Steps, Ops
  <2>3. tx' \in [Sessions -> Txs]
    <3>1. Submission(p, c, test[TestOf[p]].status, client[c]) \in Txs
      BY <2>1, <2>2
    <3>2. Becomes(w, Submission(p, c, test[TestOf[p]].status, client[c]))
      BY <1>2 DEF SubmitRead
    <3>3. QED
      BY <3>1, <3>2, SessionTyped, SessionsNamed
  <2>4. QED
    BY <1>2, <2>3 DEF SubmitRead, rows
<1>3. ASSUME NEW w \in Workers, NEW outcome \in Outcomes, SubmitAccept(w, outcome)
      PROVE  TypeOK'
  <2> DEFINE p == tx[w].p
  <2>1. w \in Sessions /\ tx[w] \in Txs
    BY SessionsNamed
  <2>2. p \in Pairs /\ tx[w].c \in Clients \cup {None} /\ TestOf[p] \in Tests
    BY <1>3, <2>1, Constants DEF SubmitAccept, Txs
  <2>3. testLocks' \in [Tests -> SUBSET [by : Sessions, mode : LockModes]]
    BY <1>3, <2>1, LockTyped DEF SubmitAccept, LockModes
  <2>4. Complete(pair[p], outcome, tx[w].c) \in PairRow
    BY <2>2, CompleteTyped
  <2>5. pairNew' \in [Pairs -> PairRow] /\ pairLock' \in [Pairs -> Sessions \cup {None}]
    BY <1>3, <2>1, <2>2, <2>4 DEF SubmitAccept
  <2>6. WithTodo(tx[w], "refresh", {TestOf[p]}) \in Txs
    BY <2>1, <2>2, WithTodoTyped DEF Plain
  <2>7. tx' \in [Sessions -> Txs]
    BY <1>3, <2>1, <2>6, SessionTyped DEF SubmitAccept
  <2>8. QED
    BY <1>3, <2>3, <2>5, <2>7 DEF SubmitAccept
<1>4. ASSUME NEW w \in Workers, SubmitRefuse(w) PROVE TypeOK'
  <2>1. tx' \in [Sessions -> Txs]
    BY <1>4, IdleTyped, SessionTyped, SessionsNamed DEF SubmitRefuse
  <2>2. QED
    BY <1>4, <2>1 DEF SubmitRefuse, rows
<1>5. ASSUME NEW w \in Workers, NEW p \in Pairs, NEW c \in Clients, AbandonPair(w, p, c)
      PROVE  TypeOK'
  <2>1. Requeue(pair[p]) \in PairRow
    BY RequeueTyped
  <2>2. At(Starting("abandon"), "commit") \in Txs
    BY StartingTyped, AtTyped DEF Ops, Plain
  <2>3. tx' \in [Sessions -> Txs]
    BY <1>5, <2>2, SessionTyped, SessionsNamed DEF AbandonPair
  <2>4. QED
    BY <1>5, <2>1, <2>3, SessionsNamed DEF AbandonPair
<1>6. ASSUME NEW w \in Workers, NEW t \in Tests, StopTest(w, t) PROVE TypeOK'
  <2>1. testLocks' \in [Tests -> SUBSET [by : Sessions, mode : LockModes]]
    BY <1>6, LockTyped, SessionsNamed DEF StopTest, LockModes
  <2>2. WithStatus(test[t], "stopped") \in TestRow
    BY WithStatusTyped DEF TestStatuses
  <2>3. At(Starting("stop"), AfterStop(t)) \in Txs
    BY StartingTyped, AtTyped DEF AfterStop, Ops, Plain
  <2>4. tx' \in [Sessions -> Txs]
    BY <1>6, <2>3, SessionTyped, SessionsNamed DEF StopTest
  <2>5. QED
    BY <1>6, <2>1, <2>2, <2>4 DEF StopTest
<1>7. ASSUME NEW w \in Workers, NEW t \in Tests, NEW priority \in Priorities,
             SetPriority(w, t, priority)
      PROVE  TypeOK'
  <2>1. testLocks' \in [Tests -> SUBSET [by : Sessions, mode : LockModes]]
    BY <1>7, LockTyped, SessionsNamed DEF SetPriority, LockModes
  <2>2. WithPriority(test[t], priority) \in TestRow
    BY WithPriorityTyped
  <2>3. At(Starting("priority"), "commit") \in Txs
    BY StartingTyped, AtTyped DEF Ops, Plain
  <2>4. tx' \in [Sessions -> Txs]
    BY <1>7, <2>3, SessionTyped, SessionsNamed DEF SetPriority
  <2>5. QED
    BY <1>7, <2>1, <2>2, <2>4 DEF SetPriority
<1>8. ASSUME NEW s \in Sessions, RefreshTest(s) PROVE TypeOK'
  <2>1. PICK t \in Lowest(tx[s].todo) :
          /\ LockTest(s, t, RefreshMode)
          /\ testNew' = [testNew EXCEPT ![t] = Refreshed(s, t)]
          /\ Becomes(s, WithTodo(tx[s], AfterRefresh(s, t), tx[s].todo \ {t}))
    BY <1>8 DEF RefreshTest
  <2>2. t \in Tests
    BY DEF Lowest, Txs
  <2>3. testNew' \in [Tests -> TestRow]
    BY <2>1, <2>2, RefreshedIsRow
  <2>4. testLocks' \in [Tests -> SUBSET [by : Sessions, mode : LockModes]]
    BY <2>1, LockTyped DEF LockModes, RefreshMode
  <2>5. AfterRefresh(s, t) \in Plain /\ tx[s].todo \ {t} \in SUBSET Tests
    BY DEF AfterRefresh, Plain, Txs
  <2>6. tx' \in [Sessions -> Txs]
    BY <2>1, <2>5, WithTodoTyped, SessionTyped
  <2>7. QED
    BY <1>8, <2>3, <2>4, <2>6 DEF RefreshTest
<1>9. ASSUME NEW s \in Sessions, PromoteNone(s) PROVE TypeOK'
  <2>1. tx' \in [Sessions -> Txs]
    BY <1>9, AtTyped, SessionTyped DEF PromoteNone, AfterPromotion, Goto, Plain
  <2>2. QED
    BY <1>9, <2>1 DEF PromoteNone, rows
<1>10. ASSUME NEW s \in Sessions, PromoteChoose(s) PROVE TypeOK'
  <2>1. PICK t \in BestQueued(s) : Becomes(s, WithChoice(tx[s], "take", t))
    BY <1>10 DEF PromoteChoose
  <2>2. t \in Tests
    BY DEF BestQueued, SeenAs
  <2>3. tx' \in [Sessions -> Txs]
    BY <2>1, <2>2, WithChoiceTyped, SessionTyped
  <2>4. QED
    BY <1>10, <2>3 DEF PromoteChoose, rows
<1>11. ASSUME NEW s \in Sessions, PromoteTake(s) PROVE TypeOK'
  <2>1. testLocks' \in [Tests -> SUBSET [by : Sessions, mode : LockModes]]
    BY <1>11, LockTyped DEF PromoteTake, LockModes
  <2>2. tx[s].t \in Tests
    BY <1>11 DEF PromoteTake, Txs
  <2>3. WithStatus(TestSeen(s, tx[s].t), "running") \in TestRow
    BY <2>2, SeenIsRow, WithStatusTyped DEF TestStatuses
  <2>4. tx' \in [Sessions -> Txs]
    BY <1>11, AtTyped, SessionTyped DEF PromoteTake, AfterPromotion, Goto, Plain
  <2>5. QED
    BY <1>11, <2>1, <2>3, <2>4 DEF PromoteTake
<1>12. ASSUME NEW s \in Sessions, Commit(s) PROVE TypeOK'
  <2>1. pair' \in [Pairs -> PairRow] /\ test' \in [Tests -> TestRow]
    BY <1>12, SeenIsRow DEF Commit
  <2>2. At(Starting("tick"), "promote") \in Txs
    BY StartingTyped, AtTyped DEF Ops, Plain
  <2>3. tx' \in [Sessions -> Txs]
    BY <1>12, <2>2, IdleTyped, SessionTyped DEF Commit
  <2>4. QED
    BY <1>12, <2>1, <2>3, ReleaseTyped DEF Commit
<1>13. ASSUME NEW s \in Sessions, Abort(s) PROVE TypeOK'
  <2>1. pairNew' \in [Pairs -> PairRow] /\ testNew' \in [Tests -> TestRow]
    BY <1>13 DEF Abort
  <2>2. tx' \in [Sessions -> Txs]
    BY <1>13, IdleTyped, SessionTyped DEF Abort
  <2>3. QED
    BY <1>13, <2>1, <2>2, ReleaseTyped DEF Abort
<1>14. ASSUME RecoverExpired PROVE TypeOK'
  <2>1. \A p \in Pairs : Recovered(pair[p]) \in PairRow
    BY RecoveredTyped
  <2>2. pairNew' \in [Pairs -> PairRow]
    BY <1>14, <2>1 DEF RecoverExpired
  <2>3. pairLock' \in [Pairs -> Sessions \cup {None}]
    BY <1>14, SessionsNamed DEF RecoverExpired
  <2>4. TestsWithDiscards(Expired) \in SUBSET Tests
    BY Constants DEF TestsWithDiscards, Expired
  <2>5. \A step \in Plain :
          WithTodo(Starting("recover"), step, TestsWithDiscards(Expired)) \in Txs
    BY <2>4, StartingTyped, WithTodoTyped DEF Ops
  <2>6. tx' \in [Sessions -> Txs]
    BY <1>14, <2>5, SessionTyped, SessionsNamed DEF RecoverExpired, Plain
  <2>7. QED
    BY <1>14, <2>2, <2>3, <2>6 DEF RecoverExpired
<1>15. ASSUME SmokePick PROVE TypeOK'
  <2>1. PICK t \in Tests : Becomes(Smoke, WithChoice(Starting("smoke"), "smoke", t))
    BY <1>15 DEF SmokePick, Lowest, SeenAs
  <2>2. tx' \in [Sessions -> Txs]
    BY <2>1, StartingTyped, WithChoiceTyped, SessionTyped, SessionsNamed DEF Ops
  <2>3. QED
    BY <1>15, <2>2 DEF SmokePick, rows
<1>16. ASSUME SmokeDiscard PROVE TypeOK'
  <2>1. tx' \in [Sessions -> Txs]
    BY <1>16, IdleTyped, SessionTyped, SessionsNamed DEF SmokeDiscard
  <2>2. QED
    BY <1>16, <2>1 DEF SmokeDiscard, rows
<1>17. ASSUME SmokeFail PROVE TypeOK'
  <2>1. testLocks' \in [Tests -> SUBSET [by : Sessions, mode : LockModes]]
    BY <1>17, LockTyped, SessionsNamed DEF SmokeFail, LockModes
  <2>2. tx[Smoke].t \in Tests
    BY <1>17, SessionsNamed DEF SmokeFail, Txs
  <2>3. WithStatus(test[tx[Smoke].t], "invalid") \in TestRow
    BY <2>2, WithStatusTyped DEF TestStatuses
  <2>4. tx' \in [Sessions -> Txs]
    BY <1>17, AtTyped, SessionTyped, SessionsNamed DEF SmokeFail, Goto, Plain
  <2>5. QED
    BY <1>17, <2>1, <2>3, <2>4 DEF SmokeFail
<1>18. ASSUME SmokePass PROVE TypeOK'
  <2>1. testLocks' \in [Tests -> SUBSET [by : Sessions, mode : LockModes]]
    BY <1>18, LockTyped, SessionsNamed DEF SmokePass, LockModes
  <2>2. tx[Smoke].t \in Tests
    BY <1>18, SessionsNamed DEF SmokePass, Txs
  <2>3. WithStatus(test[tx[Smoke].t], "queued") \in TestRow
    BY <2>2, WithStatusTyped DEF TestStatuses
  <2>4. NewPair \in PairRow
    BY DEF NoPair, NewPair, PairRow, PairStatuses
  <2>5. pairNew' \in [Pairs -> PairRow] /\ pairLock' \in [Pairs -> Sessions \cup {None}]
    BY <1>18, <2>4, SessionsNamed DEF SmokePass
  <2>6. WithTodo(tx[Smoke], "refresh", {tx[Smoke].t}) \in Txs
    BY <2>2, WithTodoTyped, SessionsNamed DEF Plain
  <2>7. tx' \in [Sessions -> Txs]
    BY <1>18, <2>6, SessionTyped, SessionsNamed DEF SmokePass
  <2>8. QED
    BY <1>18, <2>1, <2>3, <2>5, <2>7 DEF SmokePass
<1>19. ASSUME NEW p \in Pairs, LeaseExpires(p) PROVE TypeOK'
  <2>1. Late(pair[p]) \in PairRow
    BY LateTyped
  <2>2. QED
    BY <1>19, <2>1 DEF LeaseExpires
<1>20. ASSUME NEW c \in Clients, Register(c) \/ Ban(c) PROVE TypeOK'
  BY <1>20 DEF Register, Ban, rows, ClientStatuses
<1>21. ASSUME NEW t \in Tests, NEW priority \in Priorities, InsertTest(t, priority)
       PROVE  TypeOK'
  <2>1. WithPriority(WithStatus(test[t], "validating"), priority) \in TestRow
    BY WithStatusTyped, WithPriorityTyped DEF TestStatuses
  <2>2. QED
    BY <1>21, <2>1 DEF InsertTest
<1>22. CASE UNCHANGED vars
  BY <1>22 DEF vars
<1>23. QED
  BY <1>1, <1>2, <1>3, <1>4, <1>5, <1>6, <1>7, <1>8, <1>9, <1>10, <1>11, <1>12, <1>13,
     <1>14, <1>15, <1>16, <1>17, <1>18, <1>19, <1>20, <1>21, <1>22
  DEF Next, Request, Continue

\* Rows, locks and sessions keep their types through every request, rollback
\* and recovery; a result is always a value of the enum test_result.
THEOREM Typing == Spec => []TypeOK
BY InitTyped, NextTyped, PTL DEF Spec

-----------------------------------------------------------------------------
(* The length of a lease (module LeaseTime). *)

\* Division of a natural number.
LEMMA Quotient ==
    ASSUME NEW n \in Nat, NEW d \in Nat \ {0}
    PROVE  /\ n \div d \in Nat
           /\ d * (n \div d) <= n
           /\ n < d * (n \div d) + d
OBVIOUS

LEMMA Cancel ==
    ASSUME NEW q \in Nat \ {0}, NEW a \in Int, NEW b \in Int, q * a < q * b
    PROVE  a < b
<1> SUFFICES ASSUME a >= b PROVE q * a >= q * b
  OBVIOUS
<1>1. PICK c \in Nat : a = b + c
  <2>1. a - b \in Nat /\ a = b + (a - b)
    OBVIOUS
  <2> QED BY <2>1
<1>2. q * c \in Nat /\ q * a = q * b + q * c
  BY <1>1
<1> QED BY <1>2

\* A lease outlives the time limit of its pair, whatever the time control and
\* the computer, when the least lease is 271 s or more (10 min by default): a
\* client that plays is not overtaken by the queue (claim_pairs, play_pair).
THEOREM LeaseOutlivesPair ==
    ASSUME NEW base \in Nat, NEW increment \in Nat, NEW p \in Nat, NEW q \in Nat \ {0},
           NEW ttl \in Nat, ttl >= 271000
    PROVE  PlayLimit(base, increment, p, q) <= LeaseOf(base, increment, p, q, ttl)
<1> DEFINE X == base * p
           Y == increment * p
           B == Scaled(base, p, q)
           I == Scaled(increment, p, q)
           N == 6 * EstimateOf(base, increment) * p
           L == PlayLimit(base, increment, p, q)
           lease == LeaseOf(base, increment, p, q, ttl)
<1>1. X \in Nat /\ Y \in Nat /\ 2 * q \in Nat \ {0} /\ 2 * X + q \in Nat /\ 2 * Y + q \in Nat
  OBVIOUS
<1>2. B = (2 * X + q) \div (2 * q) /\ I = (2 * Y + q) \div (2 * q)
  BY DEF Scaled
<1>3. N = 24 * X + 1440 * Y
  BY DEF EstimateOf
<1> HIDE DEF X, Y
<1>4. B \in Nat /\ I \in Nat /\ 2 * q * B <= 2 * X + q /\ 2 * q * I <= 2 * Y + q
  <2> DEFINE d == 2 * q  n == 2 * X + q  m == 2 * Y + q
  <2>1. d \in Nat \ {0} /\ n \in Nat /\ m \in Nat
    BY <1>1
  <2>2. B = n \div d /\ I = m \div d
    BY <1>2
  <2> HIDE DEF d, n, m, B, I
  <2>3. B \in Nat /\ d * B <= n /\ I \in Nat /\ d * I <= m
    BY <2>1, <2>2, Quotient
  <2> QED BY <2>3 DEF d, n, m
<1>5. L = 4 * B + 800 * I + 120000
  BY <1>4 DEF PlayLimit
<1>6. lease \in Int /\ lease >= ttl /\ lease >= N \div q
  <2> DEFINE sixfold == N \div q
  <2>1. sixfold \in Int
    BY <1>1, <1>3, Quotient
  <2>2. lease = IF ttl >= sixfold THEN ttl ELSE sixfold
    BY DEF LeaseOf
  <2> HIDE DEF sixfold, lease
  <2>3. lease \in Int /\ lease >= ttl /\ lease >= sixfold
    BY <2>1, <2>2
  <2> QED BY <2>3 DEF sixfold
<1> SUFFICES L <= lease
  OBVIOUS
<1> HIDE DEF B, I, N, L, lease
<1>7. L \in Nat /\ q * L <= 4 * X + 800 * Y + 120402 * q
  <2>1. q * B \in Nat /\ q * I \in Nat /\ q * L = 4 * (q * B) + 800 * (q * I) + 120000 * q
    BY <1>4, <1>5
  <2>2. 2 * (q * B) <= 2 * X + q /\ 2 * (q * I) <= 2 * Y + q
    BY <1>4
  <2> QED BY <1>1, <1>4, <1>5, <2>1, <2>2
\* A pair that takes long: six estimates are enough.
<1>8. CASE 20 * X + 640 * Y >= 120402 * q
  <2>1. N \in Nat /\ q * L <= N
    BY <1>1, <1>3, <1>7, <1>8
  <2>2. N \div q \in Nat /\ N < q * (N \div q) + q
    BY <2>1, Quotient
  <2>3. q * L < q * (N \div q + 1)
    BY <1>7, <2>1, <2>2
  <2>4. L < N \div q + 1
    BY <1>7, <2>2, <2>3, Cancel
  <2> QED BY <1>6, <1>7, <2>2, <2>4
\* A short one: the least lease is.
<1>9. CASE 20 * X + 640 * Y < 120402 * q
  <2>1. q * L < q * 270905
    BY <1>1, <1>7, <1>9
  <2>2. L < 270905
    BY <1>7, <2>1, Cancel
  <2> QED BY <1>6, <1>7, <2>2
<1>10. 20 * X + 640 * Y \in Nat /\ 120402 * q \in Nat
  BY <1>1
<1> QED BY <1>8, <1>9, <1>10
=============================================================================
