---------------------------- MODULE JourneyProofs ----------------------------
(***************************************************************************)
(* The way of a test, for any number of people, tests and editions of the  *)
(* book, any machine and any games.  What is stored and decided about a    *)
(* test agrees with what was asked for (module TestIntake); who plays it   *)
(* is fit to (ClientHost); a pair counts for what was played (PairReport); *)
(* what is downloaded is whole (PgnExport).                                *)
(***************************************************************************)
EXTENDS Journey, FiniteSetTheorems, FunctionTheorems, TLAPS

-----------------------------------------------------------------------------
(* Sets of numbers. *)

\* A set of natural numbers that is not empty has a least element.
LEMMA LeastNumber ==
    ASSUME NEW S \in SUBSET Nat, S # {}
    PROVE  \E x \in S : \A y \in S : x <= y
<1> DEFINE R == {ss \in Nat \X Nat : ss[1] < ss[2]}
<1>1. IsWellFoundedOn(R, Nat)
  BY NatLessThanWellFounded, Zenon DEF OpToRel
<1>2. \A x, y \in Nat : y < x => <<y, x>> \in R
  OBVIOUS
<1> HIDE DEF R
<1>3. PICK x \in S : \A y \in S : ~(<<y, x>> \in R)
  BY <1>1, WFMin
<1>4. \A y \in S : x <= y
  <2> SUFFICES ASSUME NEW y \in S PROVE x <= y
    OBVIOUS
  <2>1. x \in Nat /\ y \in Nat
    OBVIOUS
  <2>2. ~(y < x)
    BY <1>2, <1>3, <2>1
  <2> QED BY <2>1, <2>2
<1> QED BY <1>4

\* A bounded one has a greatest element, which is the one Greatest chooses.
LEMMA GreatestNumber ==
    ASSUME NEW S \in SUBSET Nat, S # {}, NEW b \in Nat, \A x \in S : x <= b
    PROVE  Greatest(S) \in S /\ \A x \in S : x <= Greatest(S)
<1> DEFINE T == {b - x : x \in S}
<1>1. T \in SUBSET Nat
  <2> SUFFICES ASSUME NEW x \in S PROVE b - x \in Nat
    OBVIOUS
  <2>1. x \in Nat /\ x <= b
    OBVIOUS
  <2> QED BY <2>1
<1>0. T # {}
  OBVIOUS
<1>2. PICK least \in T : \A y \in T : least <= y
  BY <1>0, <1>1, LeastNumber
<1>3. PICK x \in S : least = b - x
  OBVIOUS
<1>4. \A y \in S : y <= x
  <2> SUFFICES ASSUME NEW y \in S PROVE y <= x
    OBVIOUS
  <2>1. b - y \in T
    OBVIOUS
  <2>2. b - x <= b - y
    BY <1>2, <1>3, <2>1
  <2>3. b \in Int /\ x \in Int /\ y \in Int
    OBVIOUS
  <2> QED BY <2>2, <2>3
<1> QED BY <1>4 DEF Greatest

\* A batch of a set of games that is not empty is not empty.
LEMMA LowestOfSome ==
    ASSUME NEW S \in SUBSET Nat, S # {}, NEW n \in Nat \ {0}
    PROVE  Lowest(S, n) # {}
<1>1. PICK x \in S : \A y \in S : x <= y
  BY LeastNumber
<1>2. {y \in S : y < x} = {}
  <2> SUFFICES ASSUME NEW y \in S PROVE ~(y < x)
    OBVIOUS
  <2>1. x \in Nat /\ y \in Nat /\ x <= y
    BY <1>1
  <2> QED BY <2>1
<1>3. Cardinality({y \in S : y < x}) < n
  BY <1>2, FS_EmptySet
<1> QED BY <1>3 DEF Lowest

\* A batch has no gaps.
LEMMA LowestHasNoGaps ==
    ASSUME NEW S \in SUBSET Nat, NEW b \in Nat, \A x \in S : x <= b, NEW n \in Nat,
           NEW m \in Lowest(S, n), NEW i \in S, i <= m
    PROVE  i \in Lowest(S, n)
<1> DEFINE below(x) == {y \in S : y < x}
<1>1. m \in S /\ Cardinality(below(m)) < n
  BY DEF Lowest
<1>2. IsFiniteSet(below(m))
  <2>1. below(m) \in SUBSET Nat /\ \A x \in below(m) : x <= b
    OBVIOUS
  <2> HIDE DEF below
  <2> QED BY <2>1, FS_BoundedSetOfNaturals
<1>3. below(i) \in SUBSET below(m)
  <2> SUFFICES ASSUME NEW y \in S, y < i PROVE y < m
    OBVIOUS
  <2>1. y \in Nat /\ i \in Nat /\ m \in Nat
    BY <1>1
  <2> QED BY <2>1
<1> HIDE DEF below
<1>4. /\ Cardinality(below(i)) <= Cardinality(below(m))
      /\ Cardinality(below(i)) \in Nat /\ Cardinality(below(m)) \in Nat
  BY <1>2, <1>3, FS_Subset, FS_CardinalityType
<1>5. Cardinality(below(i)) < n
  BY <1>1, <1>4
<1> QED BY <1>5 DEF below, Lowest

-----------------------------------------------------------------------------
(* The invariant. *)

Game == [id : Nat \ {0}, valid : BOOLEAN]

\* Ids are drawn from one sequence.
Drawn(G) == G \in SUBSET Game /\ \A g \in G : g.id < nextId

GamesInv ==
    /\ nextId \in Nat \ {0}
    /\ inserted \in [Sessions -> SUBSET Game]
    /\ Drawn(games) /\ \A s \in Sessions : Drawn(inserted[s])

ZipInv ==
    /\ zip \in [at : {"off", "sending", "done", "cut"}, manifest : SUBSET Nat, sent : SUBSET Nat]
    /\ zip.sent \subseteq zip.manifest
    /\ zip.at = "done" => zip.sent = zip.manifest

StreamInv ==
    /\ stream \in [at : {"off", "sending", "done", "cut"}, cursor : Nat,
                   sent : SUBSET Nat, committed : SUBSET Nat]
    /\ stream.committed \subseteq Ids(games)
    /\ \A i \in stream.sent : i <= stream.cursor
    /\ \A i \in stream.committed : i <= stream.cursor => i \in stream.sent
    /\ stream.at = "done" => stream.committed \subseteq stream.sent

ExportInv == GamesInv /\ ZipInv /\ StreamInv

LEMMA IdsAreNumbers ==
    ASSUME ExportInv
    PROVE  Ids(games) \in SUBSET Nat /\ \A i \in Ids(games) : i < nextId /\ i > 0
BY DEF ExportInv, GamesInv, Drawn, Game, Ids

LEMMA ExportStart == ExportInit => ExportInv
BY DEF ExportInit, ExportInv, GamesInv, Drawn, Game, ZipInv, StreamInv, Ids

\* The steps of submit_result, on any session.
LEMMA StoringStep ==
    ASSUME ExportInv, NEW s \in Sessions, NEW valid \in BOOLEAN,
           InsertGame(s, valid) \/ CommitGames(s) \/ RollBack(s)
    PROVE  ExportInv'
<1>1. ZipInv'
  BY DEF ExportInv, ZipInv, InsertGame, CommitGames, RollBack
<1>2. games \subseteq games'
  BY DEF InsertGame, CommitGames, RollBack
<1>3. StreamInv'
  BY <1>2 DEF ExportInv, StreamInv, Ids, InsertGame, CommitGames, RollBack
<1>4. CASE InsertGame(s, valid)
  <2> DEFINE g == [id |-> nextId, valid |-> valid]
  <2>1. g \in Game /\ g.id = nextId
    BY DEF ExportInv, GamesInv, Game
  <2>2. nextId' = nextId + 1 /\ games' = games /\ nextId \in Nat
    BY <1>4 DEF InsertGame, ExportInv, GamesInv
  <2>3. inserted' = [inserted EXCEPT ![s] = @ \cup {g}]
    BY <1>4 DEF InsertGame
  <2> HIDE DEF g
  <2>4. inserted' \in [Sessions -> SUBSET Game]
    BY <2>1, <2>3 DEF ExportInv, GamesInv
  <2>5. \A r \in Sessions : Drawn(inserted[r])'
    BY <2>1, <2>2, <2>3, <2>4 DEF ExportInv, GamesInv, Drawn, Game
  <2>6. Drawn(games)'
    BY <2>2 DEF ExportInv, GamesInv, Drawn, Game
  <2> QED BY <1>1, <1>3, <2>2, <2>4, <2>5, <2>6 DEF ExportInv, GamesInv
<1>5. CASE CommitGames(s) \/ RollBack(s)
  <2>1. GamesInv'
    BY <1>5 DEF ExportInv, GamesInv, Drawn, CommitGames, RollBack
  <2> QED BY <1>1, <1>3, <2>1 DEF ExportInv
<1> QED BY <1>4, <1>5

LEMMA ZipStep ==
    ASSUME ExportInv, AskZip \/ SendZip
    PROVE  ExportInv'
<1>1. GamesInv' /\ StreamInv'
  BY DEF ExportInv, GamesInv, Drawn, StreamInv, Ids, AskZip, SendZip
<1>2. ASSUME AskZip PROVE ZipInv'
  <2>1. PICK all \in BOOLEAN : zip' = [at |-> "sending", manifest |-> Listed(all), sent |-> {}]
    BY <1>2 DEF AskZip
  <2>2. Listed(all) \in SUBSET Nat
    BY DEF Listed, Ids, ExportInv, GamesInv, Drawn, Game
  <2> QED BY <2>1, <2>2 DEF ZipInv
<1>3. ASSUME SendZip PROVE ZipInv'
  <2> DEFINE rest == zip.manifest \ zip.sent
             want == Lowest(rest, Batch)
             found == Matched(InRange(want), want)
  <2>1. zip.at = "sending"
        /\ zip' = IF want = {} THEN [zip EXCEPT !.at = "done"]
                  ELSE [zip EXCEPT !.sent = @ \cup found,
                                   !.at = IF want \subseteq found THEN @ ELSE "cut"]
    BY <1>3 DEF SendZip
  <2>2. rest \in SUBSET Nat /\ (want = {} => rest = {})
    BY LowestOfSome, BatchAssumption DEF ExportInv, ZipInv
  <2>3. found \subseteq rest
    BY DEF Matched, Lowest
  <2>4. CASE want = {}
    <3>1. zip' = [zip EXCEPT !.at = "done"]
      BY <2>1, <2>4
    <3>2. zip.sent = zip.manifest
      BY <2>2, <2>4 DEF ExportInv, ZipInv
    <3> QED BY <3>1, <3>2 DEF ExportInv, ZipInv
  <2>5. CASE want # {}
    <3> HIDE DEF found
    <3>1. zip' = [zip EXCEPT !.sent = @ \cup found,
                             !.at = IF want \subseteq found THEN @ ELSE "cut"]
      BY <2>1, <2>5
    <3> DEFINE at == IF want \subseteq found THEN zip.at ELSE "cut"
    <3>2. at \in {"sending", "cut"}
      BY <2>1
    <3>3. zip' = [zip EXCEPT !.sent = @ \cup found, !.at = at]
      BY <3>1
    <3>4. found \subseteq zip.manifest
      BY <2>3
    <3> HIDE DEF want, at, rest
    <3> QED BY <3>2, <3>3, <3>4 DEF ExportInv, ZipInv
  <2> QED BY <2>4, <2>5
<1> QED BY <1>1, <1>2, <1>3 DEF ExportInv

LEMMA StreamStep ==
    ASSUME ExportInv, AskStream \/ SendStream
    PROVE  ExportInv'
<1>1. GamesInv' /\ ZipInv'
  BY DEF ExportInv, GamesInv, Drawn, ZipInv, AskStream, SendStream
<1>2. games' = games
  BY DEF AskStream, SendStream
<1>3. ASSUME AskStream PROVE StreamInv'
  BY <1>2, <1>3, IdsAreNumbers DEF AskStream, StreamInv, Ids
<1>4. ASSUME SendStream PROVE StreamInv'
  <2> DEFINE S == {i \in Ids(games) : i > stream.cursor}
             batch == After(stream.cursor)
  <2>1. batch = Lowest(S, Batch)
    BY DEF After
  <2>2. S \in SUBSET Nat /\ nextId \in Nat /\ \A i \in S : i <= nextId
    BY IdsAreNumbers DEF ExportInv, GamesInv
  <2>3. batch \subseteq S
    BY <2>1 DEF Lowest
  <2>4. stream.at = "sending"
        /\ stream' = IF batch = {} THEN [stream EXCEPT !.at = "done"]
                     ELSE [stream EXCEPT !.sent = @ \cup batch, !.cursor = Greatest(batch)]
    BY <1>4 DEF SendStream
  <2>5. CASE batch = {}
    <3>1. S = {}
      BY <2>1, <2>2, <2>5, LowestOfSome, BatchAssumption
    <3>2. \A i \in stream.committed : i <= stream.cursor
      BY <3>1, IdsAreNumbers DEF ExportInv, StreamInv
    <3>3. stream' = [stream EXCEPT !.at = "done"]
      BY <2>4, <2>5
    <3> QED BY <1>2, <3>2, <3>3 DEF ExportInv, StreamInv, Ids
  <2>6. CASE batch # {}
    <3> DEFINE m == Greatest(batch)
    <3>1. m \in batch /\ \A i \in batch : i <= m
      BY <2>2, <2>3, <2>6, GreatestNumber
    <3>2. m \in Nat /\ m > stream.cursor
      BY <2>2, <2>3, <3>1
    <3>3. \A i \in S : i <= m => i \in batch
      <4> SUFFICES ASSUME NEW i \in S, i <= m PROVE i \in batch
        OBVIOUS
      <4>1. m \in Lowest(S, Batch)
        BY <2>1, <3>1
      <4> HIDE DEF S, m, batch
      <4>2. i \in Lowest(S, Batch)
        BY <2>2, <4>1, LowestHasNoGaps, BatchAssumption
      <4> QED BY <2>1, <4>2
    <3>4. stream' = [stream EXCEPT !.sent = @ \cup batch, !.cursor = m]
      BY <2>4, <2>6
    <3> HIDE DEF m, batch
    <3>5. \A i \in stream.committed : i <= m => i \in stream.sent \cup batch
      <4> SUFFICES ASSUME NEW i \in stream.committed, i <= m PROVE i \in stream.sent \cup batch
        OBVIOUS
      <4>1. i \in Ids(games) /\ i \in Nat /\ stream.cursor \in Nat
        BY IdsAreNumbers DEF ExportInv, StreamInv
      <4>2. CASE i <= stream.cursor
        BY <4>2 DEF ExportInv, StreamInv
      <4>3. CASE i > stream.cursor
        BY <3>3, <4>1, <4>3
      <4> QED BY <4>1, <4>2, <4>3
    <3>6. \A i \in stream.sent \cup batch : i \in Nat /\ i <= m
      BY <2>2, <2>3, <3>1, <3>2 DEF ExportInv, StreamInv
    <3>7. stream'.at = "sending"
      BY <2>4, <3>4 DEF ExportInv, StreamInv
    <3> QED BY <1>2, <3>2, <3>4, <3>5, <3>6, <3>7 DEF ExportInv, StreamInv, Ids
  <2> QED BY <2>5, <2>6
<1> QED BY <1>1, <1>2, <1>3, <1>4 DEF ExportInv

LEMMA ExportStep == ExportInv /\ [ExportNext]_exportVars => ExportInv'
<1> SUFFICES ASSUME ExportInv, [ExportNext]_exportVars PROVE ExportInv'
  OBVIOUS
<1>1. CASE \E s \in Sessions, valid \in BOOLEAN : InsertGame(s, valid)
  BY <1>1, StoringStep
<1>2. CASE \E s \in Sessions : CommitGames(s) \/ RollBack(s)
  <2>1. TRUE \in BOOLEAN
    OBVIOUS
  <2> QED BY <1>2, <2>1, StoringStep
<1>3. CASE AskZip \/ SendZip
  BY <1>3, ZipStep
<1>4. CASE AskStream \/ SendStream
  BY <1>4, StreamStep
<1>5. CASE Cut
  BY <1>5 DEF Cut, ExportInv, GamesInv, Drawn, ZipInv, StreamInv, Ids
<1>6. CASE UNCHANGED exportVars
  BY <1>6 DEF exportVars, ExportInv, GamesInv, Drawn, ZipInv, StreamInv, Ids
<1> QED BY <1>1, <1>2, <1>3, <1>4, <1>5, <1>6 DEF ExportNext, Download

\* A download that ends is whole, whatever is stored meanwhile and in whatever
\* order (register_web_routes, pgn_batch, pgn_manifest).
THEOREM DownloadsAreWhole == ExportSpec => []ExportIsWhole
<1>1. ExportInv => ExportIsWhole
  BY DEF ExportInv, ZipInv, StreamInv, ExportIsWhole
<1> QED BY <1>1, ExportStart, ExportStep, PTL DEF ExportSpec
-----------------------------------------------------------------------------
(* What parse_test_spec takes, the table takes. *)

\* A number narrowed to an int is an int.
LEMMA NarrowedIsAnInt ==
    ASSUME NEW n \in Int
    PROVE  Narrowed(n) \in (-(IntMax + 1))..IntMax
<1> DEFINE width == 2 * (IntMax + 1)
<1>1. width \in Nat \ {0}
  BY SpecAssumption
<1>2. (n + IntMax + 1) % width \in 0..(width - 1)
  <2> HIDE DEF width
  <2>1. n + IntMax + 1 \in Int
    BY SpecAssumption
  <2> QED BY <1>1, <2>1
<1> QED BY <1>2, SpecAssumption DEF Narrowed

Specs == [kind : {"sprt", "gauntlet", "other"}, bounds : Bounds, total : Nat, priority : Int]

LEMMA BodyIsABody ==
    ASSUME NEW o \in Bodies
    PROVE  BodyOf(o) \in Bodies
<1>1. [o EXCEPT !.preset = "gainer"] \in Bodies
  BY DEF Bodies
<1> QED BY <1>1 DEF BodyOf

LEMMA AcceptedIsStorable ==
    ASSUME NEW b \in Bodies, Accepts(b)
    PROVE  SpecOf(b) \in Specs /\ Storable(SpecOf(b), "candidate", "baseline")
<1>1. BoundsOf(b) \in Bounds
  BY SpecAssumption DEF Bodies, Bounds, Number, BoundsOf, Field
<1>2. /\ b.total \in 1..IntMax /\ b.total \in Nat
  BY SpecAssumption DEF Accepts, Bodies
<1>3. Field(b.priority, 0) \in Int
  BY DEF Bodies, Number, Field
<1>4. Narrowed(Field(b.priority, 0)) \in (-(IntMax + 1))..IntMax
  BY <1>3, NarrowedIsAnInt
<1>5. b.kind \in {"sprt", "gauntlet", "other"}
  BY DEF Bodies
<1>6. b.kind = "sprt" => /\ BoundsOf(b).elo0 # None /\ BoundsOf(b).elo1 # None
                         /\ BoundsOf(b).elo0 < BoundsOf(b).elo1
  BY DEF Accepts, ValidBounds
<1> HIDE DEF BoundsOf, Narrowed
<1>7. SpecOf(b) \in Specs
  BY <1>1, <1>2, <1>4, <1>5, SpecAssumption DEF SpecOf, Specs
<1>8. Storable(SpecOf(b), "candidate", "baseline")
  BY <1>2, <1>4, <1>6 DEF SpecOf, Storable
<1> QED BY <1>7, <1>8

-----------------------------------------------------------------------------
(* The invariant of the first act. *)

RequestAts == {"none", "stat", "lookup", "count", "store", "resolve", "insert", "notify"}
SmokeAts == {"loop", "woken", "drowsy", "asleep", "poll", "build", "sample", "decide", "judge",
             "ended"}
Requests == [at : RequestAts, spec : Specs \cup {None}, stamp : Nat, n : Nat, same : BOOLEAN,
             id : Nat]
Smokes == [at : SmokeAts, t : Nat, log : {"none", "failed", "cancelled"}, n : Nat]
Clis == [at : {"ready", "waiting", "polling", "reading", "ok", "failed", "error"}, id : Nat]
Rows == [status : {"absent", "validating", "invalid", "stopped", "queued", "running"},
         total : Nat, priority : Int, positions : Nat]
Counts == [stamp : Nat, n : Nat]

IntakeType ==
    /\ stop \in BOOLEAN /\ pending \in BOOLEAN
    /\ smoke \in Smokes
    /\ book \in 1..Len(Positions)
    /\ cache \in Counts
    /\ request \in [Users -> Requests]
    /\ cli \in [Users -> Clis]
    /\ tests \in [Tests -> Rows]

\* A user whose test may still be inserted.
Early(u) == cli[u].at = "ready" \/ request[u].at \in RequestAts \ {"none", "notify"}

\* The rows are the first of the table, and there is room for those to come.
RowsInOrder ==
    \E k \in 0..Cardinality(Users) :
        /\ \A t \in Tests : tests[t].status = "absent" <=> t > k
        /\ k + Cardinality({u \in Users : Early(u)}) <= Cardinality(Users)

\* What a request carries was accepted; its count is of an edition it has seen.
RequestHolds(u) ==
    /\ request[u].at \in RequestAts \ {"none", "notify"} =>
         request[u].spec \in Specs /\ Storable(request[u].spec, "candidate", "baseline")
    /\ request[u].at = "insert" => ~request[u].same
    /\ request[u].stamp <= book
    /\ request[u].at = "store" /\ request[u].stamp = book => request[u].n = Positions[book]
    /\ request[u].at = "notify" =>
         request[u].id \in Tests /\ tests[request[u].id].status # "absent"

CliHolds(u) ==
    /\ cli[u].at = "ready" => request[u].at = "none"
    /\ cli[u].at \in {"polling", "reading", "ok", "failed"} =>
         cli[u].id \in Tests /\ tests[cli[u].id].status # "absent"
    /\ cli[u].at \in {"reading", "ok", "failed"} => tests[cli[u].id].status # "validating"
    /\ cli[u].at = "ok" => tests[cli[u].id].status # "invalid"
    /\ cli[u].at = "failed" => tests[cli[u].id].status = "invalid"

CacheHolds ==
    /\ cache.stamp <= book
    /\ cache.stamp = book /\ cache.stamp > 0 => cache.n = Positions[book]

\* What the worker has made of its test.
SmokeHolds ==
    /\ smoke.at \in {"build", "sample", "decide", "judge"} =>
         smoke.t \in Tests /\ tests[smoke.t].status # "absent"
    /\ smoke.at \notin {"decide", "judge"} => smoke.log = "none"
    /\ smoke.log = "cancelled" => smoke.at = "decide" /\ stop
    /\ smoke.at \in {"decide", "judge"} /\ smoke.log = "none" => smoke.n = tests[smoke.t].total

IntakeInv ==
    /\ IntakeType /\ RowsInOrder
    /\ \A u \in Users : RequestHolds(u) /\ CliHolds(u)
    /\ CacheHolds /\ SmokeHolds /\ QueuedHasItsPositions

-----------------------------------------------------------------------------
(* Its steps. *)

LEMMA TestsAreNumbers == Cardinality(Users) \in Nat /\ Tests = 1..Cardinality(Users)
BY IntakeAssumption, FS_CardinalityType DEF Tests

LEMMA EditionsAreCounted ==
    ASSUME NEW b \in 1..Len(Positions)
    PROVE  b \in Nat /\ Positions[b] \in Nat
BY IntakeAssumption

LEMMA Places ==
    ASSUME NEW place \in SmokeAts
    PROVE  /\ At(place) \in Smokes
           /\ At(place).at = place /\ At(place).t = 0 /\ At(place).log = "none" /\ At(place).n = 0
BY DEF At, Smokes

LEMMA RequestFields ==
    ASSUME NEW spec \in Specs, NEW id \in Nat
    PROVE  /\ NoRequest \in Requests /\ NoRequest.at = "none" /\ NoRequest.stamp = 0
           /\ [NoRequest EXCEPT !.at = "stat", !.spec = spec] \in Requests
           /\ [NoRequest EXCEPT !.at = "resolve", !.spec = spec] \in Requests
           /\ [NoRequest EXCEPT !.at = "notify", !.id = id] \in Requests
BY DEF NoRequest, Requests, RequestAts

\* The row of the next test is the first one that is free.
LEMMA NextId ==
    ASSUME IntakeInv, NEW u \in Users, request[u].at = "insert"
    PROVE  \E id \in Tests :
             /\ id = CHOOSE t \in Tests : \A v \in Tests : tests[v].status = "absent" <=> v >= t
             /\ \A v \in Tests : tests[v].status = "absent" <=> v >= id
<1> DEFINE early == {v \in Users : Early(v)}
<1>1. PICK k \in 0..Cardinality(Users) :
        /\ \A t \in Tests : tests[t].status = "absent" <=> t > k
        /\ k + Cardinality(early) <= Cardinality(Users)
  BY DEF IntakeInv, RowsInOrder
<1>2. IsFiniteSet(early) /\ u \in early
  BY IntakeAssumption, FS_Subset DEF Early, RequestAts
<1>3. Cardinality(early) \in Nat /\ Cardinality(early) # 0
  BY <1>2, FS_CardinalityType, FS_EmptySet
<1> HIDE DEF early
<1>4. k + 1 \in Tests /\ \A v \in Tests : tests[v].status = "absent" <=> v >= k + 1
  BY <1>1, <1>3, TestsAreNumbers
<1> QED BY <1>4

Row(u) ==
    [status |-> "validating", total |-> request[u].spec.total,
     priority |-> request[u].spec.priority, positions |-> 0]

LEMMA InsertsRow ==
    ASSUME IntakeInv, NEW u \in Users, InsertTest(u)
    PROVE  /\ UNCHANGED <<server, stop, pending, smoke, book, cache>>
           /\ \/ Refuses(u) /\ UNCHANGED tests
              \/ \E id \in Tests :
                   /\ \A v \in Tests : tests[v].status = "absent" <=> v >= id
                   /\ tests' = [tests EXCEPT ![id] = Row(u)]
                   /\ request' = [request EXCEPT ![u] = [NoRequest EXCEPT !.at = "notify", !.id = id]]
                   /\ UNCHANGED cli
<1>1. request[u].at = "insert"
  BY DEF InsertTest
<1>2. PICK id \in Tests :
        /\ id = CHOOSE t \in Tests : \A v \in Tests : tests[v].status = "absent" <=> v >= t
        /\ \A v \in Tests : tests[v].status = "absent" <=> v >= id
  BY <1>1, NextId
<1> QED BY <1>2, Zenon DEF InsertTest, Row

\* A step of u and its handler that keeps what is said of them.
Sets(u, r, c) == request' = [request EXCEPT ![u] = r] /\ cli' = [cli EXCEPT ![u] = c]

UserKeeps(u) ==
    /\ request' \in [Users -> Requests] /\ cli' \in [Users -> Clis]
    /\ \A v \in Users \ {u} : request'[v] = request[v] /\ cli'[v] = cli[v]
    /\ Early(u)' => Early(u)
    /\ RequestHolds(u)' /\ CliHolds(u)'

LEMMA SetsBoth ==
    ASSUME IntakeInv, NEW u \in Users, NEW r \in Requests, NEW c \in Clis, Sets(u, r, c)
    PROVE  /\ request' \in [Users -> Requests] /\ cli' \in [Users -> Clis]
           /\ request'[u] = r /\ cli'[u] = c
           /\ \A v \in Users \ {u} : request'[v] = request[v] /\ cli'[v] = cli[v]
BY DEF Sets, IntakeInv, IntakeType

LEMMA UserTypes ==
    ASSUME IntakeInv, NEW u \in Users
    PROVE  /\ request[u] \in Requests /\ cli[u] \in Clis /\ RequestHolds(u) /\ CliHolds(u)
           /\ \A e : request = [request EXCEPT ![u] = request[u]] /\ cli = [cli EXCEPT ![u] = cli[u]]
BY DEF IntakeInv, IntakeType

\* Room for the next rows is not lost when no row is written.
LEMMA RowsStayInOrder ==
    ASSUME IntakeInv, \A u \in Users : Early(u)' => Early(u),
           \A t \in Tests : tests'[t].status = "absent" <=> tests[t].status = "absent"
    PROVE  RowsInOrder'
<1> DEFINE early == {u \in Users : Early(u)}
           earlyNew == {u \in Users : Early(u)'}
<1>1. earlyNew \subseteq early /\ IsFiniteSet(early)
  BY IntakeAssumption, FS_Subset
<1>2. /\ Cardinality(earlyNew) <= Cardinality(early)
      /\ Cardinality(earlyNew) \in Nat /\ Cardinality(early) \in Nat
  BY <1>1, FS_Subset, FS_CardinalityType
<1>3. PICK k \in 0..Cardinality(Users) :
        /\ \A t \in Tests : tests[t].status = "absent" <=> t > k
        /\ k + Cardinality(early) <= Cardinality(Users)
  BY DEF IntakeInv, RowsInOrder
<1>4. k + Cardinality(earlyNew) <= Cardinality(Users)
  <2> HIDE DEF early, earlyNew
  <2>1. QED
    BY <1>2, <1>3, TestsAreNumbers
<1>5. \A t \in Tests : tests'[t].status = "absent" <=> t > k
  BY <1>3
<1>6. QED
  BY <1>4, <1>5 DEF RowsInOrder

LEMMA UserKeepsInv ==
    ASSUME IntakeInv, NEW u \in Users, UserKeeps(u), UNCHANGED <<tests, book, stop>>,
           pending' \in BOOLEAN, cache' \in Counts, CacheHolds',
           smoke' = smoke \/ smoke' = At("woken")
    PROVE  IntakeInv'
<1>1. smoke' \in Smokes /\ SmokeHolds'
  <2>1. CASE smoke' = smoke
    BY <2>1, Zenon DEF IntakeInv, IntakeType, SmokeHolds
  <2>2. CASE smoke' = At("woken")
    <3>1. smoke' \in Smokes /\ smoke'.at = "woken" /\ smoke'.log = "none"
      BY <2>2, Places, Zenon DEF SmokeAts
    <3>2. QED
      BY <3>1, Zenon DEF SmokeHolds
  <2>3. QED
    BY <2>1, <2>2
<1>2. IntakeType'
  BY <1>1 DEF IntakeInv, IntakeType, UserKeeps
<1>3. \A v \in Users \ {u} : RequestHolds(v)' /\ CliHolds(v)' /\ (Early(v)' => Early(v))
  <2> SUFFICES ASSUME NEW v \in Users \ {u}
               PROVE  RequestHolds(v)' /\ CliHolds(v)' /\ (Early(v)' => Early(v))
    OBVIOUS
  <2>1. request'[v] = request[v] /\ cli'[v] = cli[v] /\ RequestHolds(v) /\ CliHolds(v)
    BY DEF IntakeInv, UserKeeps
  <2>2. QED
    BY <2>1 DEF RequestHolds, CliHolds, Early
<1>4. RowsInOrder'
  <2>1. \A v \in Users : Early(v)' => Early(v)
    BY <1>3 DEF UserKeeps
  <2>2. \A t \in Tests : tests'[t].status = "absent" <=> tests[t].status = "absent"
    OBVIOUS
  <2>3. QED
    BY <2>1, <2>2, RowsStayInOrder
<1>5. QueuedHasItsPositions'
  BY DEF IntakeInv, QueuedHasItsPositions
<1>6. QED
  BY <1>1, <1>2, <1>3, <1>4, <1>5 DEF IntakeInv, UserKeeps

\* The handler answers: the program polls, or ends.
LEMMA AnswersKeep ==
    ASSUME IntakeInv, UNCHANGED <<tests, book>>, NEW u \in Users,
           \/ Answers(u, "error")
           \/ Answers(u, "polling") /\ request[u].at = "notify"
    PROVE  UserKeeps(u)
<1>1. /\ request[u] \in Requests /\ cli[u] \in Clis /\ RequestHolds(u) /\ CliHolds(u)
      /\ cli = [cli EXCEPT ![u] = cli[u]]
  BY UserTypes
<1>2. NoRequest \in Requests /\ NoRequest.at = "none" /\ NoRequest.stamp = 0
  BY DEF NoRequest, Requests, RequestAts
<1>3. PICK c \in Clis : /\ Sets(u, NoRequest, c)
                        /\ c = cli[u] \/ c.at = "error"
                           \/ /\ c.at = "polling" /\ c.id = request[u].id
                              /\ request[u].at = "notify"
  <2>1. CASE cli[u].at # "waiting"
    BY <1>1, <2>1 DEF Answers, Sets
  <2>2. CASE cli[u].at = "waiting" /\ Answers(u, "error")
    <3> DEFINE c == [at |-> "error", id |-> request[u].id]
    <3>1. c \in Clis /\ c.at = "error"
      BY <1>1 DEF Clis, Requests
    <3>2. Sets(u, NoRequest, c)
      BY <2>2 DEF Answers, Sets
    <3> HIDE DEF c
    <3>3. QED
      BY <3>1, <3>2
  <2>3. CASE cli[u].at = "waiting" /\ Answers(u, "polling") /\ request[u].at = "notify"
    <3> DEFINE c == [at |-> "polling", id |-> request[u].id]
    <3>1. c \in Clis /\ c.at = "polling" /\ c.id = request[u].id
      BY <1>1 DEF Clis, Requests
    <3>2. Sets(u, NoRequest, c)
      BY <2>3 DEF Answers, Sets
    <3> HIDE DEF c
    <3>3. QED
      BY <2>3, <3>1, <3>2
  <2>4. QED
    BY <2>1, <2>2, <2>3
<1>4. /\ request' \in [Users -> Requests] /\ cli' \in [Users -> Clis]
      /\ request'[u] = NoRequest /\ cli'[u] = c
      /\ \A v \in Users \ {u} : request'[v] = request[v] /\ cli'[v] = cli[v]
  BY <1>2, <1>3, SetsBoth
<1>5. RequestHolds(u)'
  BY <1>2, <1>4, EditionsAreCounted DEF RequestHolds, RequestAts, IntakeInv, IntakeType
<1>6. CliHolds(u)'
  BY <1>1, <1>2, <1>3, <1>4 DEF CliHolds, RequestHolds
<1>7. Early(u)' => Early(u)
  BY <1>2, <1>3, <1>4 DEF Early
<1>8. QED
  BY <1>4, <1>5, <1>6, <1>7 DEF UserKeeps

\* The handler goes on with its request.
LEMMA RequestKeeps ==
    ASSUME IntakeInv, UNCHANGED <<tests, book, cli>>, NEW u \in Users, NEW r \in Requests,
           request' = [request EXCEPT ![u] = r],
           request[u].at \in RequestAts \ {"none", "notify"}, r.at \in RequestAts \ {"none", "notify"},
           r.spec = request[u].spec, r.at = "insert" => ~r.same, r.stamp <= book,
           r.at = "store" /\ r.stamp = book => r.n = Positions[book]
    PROVE  UserKeeps(u)
<1>1. /\ request[u] \in Requests /\ cli[u] \in Clis /\ RequestHolds(u) /\ CliHolds(u)
      /\ cli = [cli EXCEPT ![u] = cli[u]]
  BY UserTypes
<1>2. Sets(u, r, cli[u])
  BY <1>1 DEF Sets
<1>3. /\ request' \in [Users -> Requests] /\ cli' \in [Users -> Clis]
      /\ request'[u] = r /\ cli'[u] = cli[u]
      /\ \A v \in Users \ {u} : request'[v] = request[v] /\ cli'[v] = cli[v]
  BY <1>1, <1>2, SetsBoth
<1>4. RequestHolds(u)'
  BY <1>1, <1>3 DEF RequestHolds
<1>5. CliHolds(u)'
  BY <1>1, <1>3 DEF CliHolds
<1>6. QED
  BY <1>3, <1>4, <1>5 DEF UserKeeps, Early

\* The program goes on by itself.
LEMMA CliKeeps ==
    ASSUME IntakeInv, UNCHANGED <<tests, book, request>>, NEW u \in Users,
           NEW place \in {"error", "reading", "ok", "failed"}, cli' = [cli EXCEPT ![u].at = place],
           place \in {"reading", "ok", "failed"} =>
             /\ cli[u].at \in {"polling", "reading"} /\ tests[cli[u].id].status # "validating"
             /\ place = "ok" => tests[cli[u].id].status # "invalid"
             /\ place = "failed" => tests[cli[u].id].status = "invalid"
    PROVE  UserKeeps(u)
<1>1. /\ request[u] \in Requests /\ cli[u] \in Clis /\ RequestHolds(u) /\ CliHolds(u)
      /\ request = [request EXCEPT ![u] = request[u]]
  BY UserTypes
<1>2. PICK c \in Clis : Sets(u, request[u], c) /\ c.at = place /\ c.id = cli[u].id
  <2> DEFINE c == [cli[u] EXCEPT !.at = place]
  <2>1. c \in Clis /\ c.at = place /\ c.id = cli[u].id
    BY <1>1 DEF Clis
  <2>2. Sets(u, request[u], c)
    BY <1>1 DEF Sets
  <2> HIDE DEF c
  <2>3. QED
    BY <2>1, <2>2
<1>3. /\ request' \in [Users -> Requests] /\ cli' \in [Users -> Clis]
      /\ request'[u] = request[u] /\ cli'[u] = c
      /\ \A v \in Users \ {u} : request'[v] = request[v] /\ cli'[v] = cli[v]
  BY <1>1, <1>2, SetsBoth
<1>4. RequestHolds(u)'
  BY <1>1, <1>3 DEF RequestHolds
<1>5. CliHolds(u)'
  BY <1>1, <1>2, <1>3 DEF CliHolds
<1>6. QED
  BY <1>2, <1>3, <1>4, <1>5 DEF UserKeeps, Early

\* `capi_net submit` and what it sends.
LEMMA SubmitKeeps ==
    ASSUME IntakeInv, NEW u \in Users, NEW o \in Options[u], Submit(u, o)
    PROVE  IntakeInv'
<1>1. /\ request[u] \in Requests /\ cli[u] \in Clis /\ RequestHolds(u) /\ CliHolds(u)
      /\ cli[u].at = "ready" /\ request = [request EXCEPT ![u] = request[u]]
  BY UserTypes DEF Submit
<1>2. UNCHANGED <<server, stop, pending, smoke, book, cache, tests>>
  BY DEF Submit
<1>3. UserKeeps(u)
  <2>1. CASE Accepts(BodyOf(o))
    <3> DEFINE spec == SpecOf(BodyOf(o))
               r == [NoRequest EXCEPT !.at = "stat", !.spec = spec]
               c == [cli[u] EXCEPT !.at = "waiting"]
    <3>1. o \in Bodies
      BY IntakeAssumption
    <3>2. spec \in Specs /\ Storable(spec, "candidate", "baseline")
      BY <2>1, <3>1, BodyIsABody, AcceptedIsStorable
    <3>3. Sets(u, r, c)
      BY <2>1, Zenon DEF Submit, Sets
    <3> HIDE DEF spec
    <3>4. r \in Requests /\ r.at = "stat" /\ r.spec = spec /\ r.stamp = 0
      BY <3>2 DEF NoRequest, Requests, RequestAts
    <3>5. c \in Clis /\ c.at = "waiting"
      BY <1>1 DEF Clis
    <3> HIDE DEF r, c
    <3>6. /\ request' \in [Users -> Requests] /\ cli' \in [Users -> Clis]
          /\ request'[u] = r /\ cli'[u] = c
          /\ \A v \in Users \ {u} : request'[v] = request[v] /\ cli'[v] = cli[v]
      BY <3>3, <3>4, <3>5, SetsBoth
    <3>7. RequestHolds(u)'
      BY <1>2, <3>2, <3>4, <3>6, EditionsAreCounted DEF RequestHolds, IntakeInv, IntakeType
    <3>8. CliHolds(u)'
      BY <3>5, <3>6 DEF CliHolds
    <3>9. QED
      BY <1>1, <3>6, <3>7, <3>8 DEF UserKeeps, Early
  <2>2. CASE ~Accepts(BodyOf(o))
    <3>1. cli' = [cli EXCEPT ![u].at = "error"] /\ UNCHANGED request
      BY <2>2, Zenon DEF Submit
    <3>2. QED
      BY <1>2, <3>1, CliKeeps
  <2>3. QED
    BY <2>1, <2>2
<1>4. QED
  BY <1>2, <1>3, UserKeepsInv DEF IntakeInv, IntakeType, CacheHolds

LEMMA ProgramKeeps ==
    ASSUME IntakeInv, NEW u \in Users, NoAnswer(u) \/ Poll(u)
    PROVE  IntakeInv'
<1>1. UNCHANGED <<server, stop, pending, smoke, book, cache, tests, request>>
  BY DEF NoAnswer, Poll
<1>2. /\ request[u] \in Requests /\ cli[u] \in Clis /\ RequestHolds(u) /\ CliHolds(u)
  BY UserTypes
<1>3. PICK place \in {"error", "reading", "ok", "failed"} :
        /\ cli' = [cli EXCEPT ![u].at = place]
        /\ place \in {"reading", "ok", "failed"} =>
             /\ cli[u].at \in {"polling", "reading"} /\ tests[cli[u].id].status # "validating"
             /\ place = "ok" => tests[cli[u].id].status # "invalid"
             /\ place = "failed" => tests[cli[u].id].status = "invalid"
  BY <1>2, Zenon DEF NoAnswer, Poll, Judged, CliHolds
<1>4. UserKeeps(u)
  BY <1>1, <1>3, CliKeeps
<1>5. QED
  BY <1>1, <1>4, UserKeepsInv DEF IntakeInv, IntakeType, CacheHolds

\* The handler of POST /api/admin/tests, up to its insert.
LEMMA ComparesKeeps ==
    ASSUME IntakeInv, UNCHANGED <<tests, book>>, NEW u \in Users, NEW n,
           request[u].at \in RequestAts \ {"none", "notify"}, Compares(u, n)
    PROVE  UserKeeps(u)
<1> DEFINE r == [NoRequest EXCEPT !.at = "resolve", !.spec = request[u].spec]
<1>1. request[u].spec \in Specs /\ book \in Nat
  BY UserTypes, EditionsAreCounted DEF RequestHolds, IntakeInv, IntakeType
<1>2. r \in Requests /\ r.at = "resolve" /\ r.spec = request[u].spec /\ r.stamp = 0
  BY <1>1 DEF NoRequest, Requests, RequestAts
<1>3. CASE Refuses(u)
  BY <1>3, AnswersKeep DEF Refuses
<1>4. CASE request' = [request EXCEPT ![u] = r] /\ UNCHANGED cli
  <2> HIDE DEF r
  <2>1. r.at \in RequestAts \ {"none", "notify"} /\ r.stamp <= book
    BY <1>1, <1>2 DEF RequestAts
  <2>2. QED
    BY <1>2, <1>4, <2>1, RequestKeeps
<1>5. QED
  BY <1>3, <1>4, Zenon DEF Compares

LEMMA CountingKeeps ==
    ASSUME IntakeInv, NEW u \in Users, Stat(u) \/ Lookup(u) \/ Count(u) \/ Store(u)
    PROVE  IntakeInv'
<1>1. UNCHANGED <<server, stop, pending, smoke, book, tests>>
  BY DEF Stat, Lookup, Count, Store
<1>2. /\ request[u] \in Requests /\ RequestHolds(u)
      /\ book \in 1..Len(Positions) /\ book \in Nat /\ Positions[book] \in Nat
  BY UserTypes, EditionsAreCounted DEF IntakeInv, IntakeType
<1>3. CASE Stat(u)
  <2>1. CASE Refuses(u)
    BY <1>1, <1>3, <2>1, AnswersKeep, UserKeepsInv
    DEF Refuses, Stat, IntakeInv, IntakeType, CacheHolds
  <2>2. CASE ~Refuses(u)
    <3> DEFINE r == [request[u] EXCEPT !.at = "lookup", !.stamp = book]
    <3>1. /\ request' = [request EXCEPT ![u] = r] /\ UNCHANGED cli /\ UNCHANGED cache
          /\ request[u].at = "stat"
      BY <1>3, <2>2, Zenon DEF Stat
    <3>2. /\ r \in Requests /\ r.at = "lookup" /\ r.stamp = book /\ r.spec = request[u].spec
      BY <1>2 DEF Requests, RequestAts
    <3> HIDE DEF r
    <3>3. /\ r.stamp <= book /\ r.at \notin {"insert", "store"}
          /\ r.at \in RequestAts \ {"none", "notify"}
          /\ request[u].at \in RequestAts \ {"none", "notify"}
      BY <1>2, <3>1, <3>2 DEF RequestAts
    <3>4. UserKeeps(u)
      BY <1>1, <3>1, <3>2, <3>3, RequestKeeps
    <3>5. QED
      BY <1>1, <3>1, <3>4, UserKeepsInv DEF IntakeInv, IntakeType, CacheHolds
  <2>3. QED
    BY <2>1, <2>2
<1>4. CASE Lookup(u)
  <2>1. UNCHANGED cache /\ request[u].at = "lookup"
    BY <1>4 DEF Lookup
  <2>2. CASE Compares(u, cache.n)
    <3>1. request[u].at \in RequestAts \ {"none", "notify"}
      BY <2>1 DEF RequestAts
    <3>2. UserKeeps(u)
      BY <1>1, <2>2, <3>1, ComparesKeeps
    <3>3. QED
      BY <1>1, <2>1, <3>2, UserKeepsInv DEF IntakeInv, IntakeType, CacheHolds
  <2>3. CASE ~Compares(u, cache.n)
    <3> DEFINE r == [request[u] EXCEPT !.at = "count"]
    <3>1. request' = [request EXCEPT ![u] = r] /\ UNCHANGED cli
      BY <1>4, <2>3, Zenon DEF Lookup
    <3>2. /\ r \in Requests /\ r.at = "count" /\ r.stamp = request[u].stamp
          /\ r.spec = request[u].spec
      BY <1>2 DEF Requests, RequestAts
    <3> HIDE DEF r
    <3>3. UserKeeps(u)
      BY <1>1, <1>2, <2>1, <3>1, <3>2, RequestKeeps DEF RequestAts, RequestHolds
    <3>4. QED
      BY <1>1, <2>1, <3>3, UserKeepsInv DEF IntakeInv, IntakeType, CacheHolds
  <2>4. QED
    BY <2>2, <2>3
<1>5. CASE Count(u)
  <2>1. CASE Refuses(u)
    BY <1>1, <1>5, <2>1, AnswersKeep, UserKeepsInv
    DEF Refuses, Count, IntakeInv, IntakeType, CacheHolds
  <2>2. CASE ~Refuses(u)
    <3> DEFINE r == [request[u] EXCEPT !.at = "store", !.n = Positions[book]]
    <3>1. /\ request' = [request EXCEPT ![u] = r] /\ UNCHANGED cli /\ UNCHANGED cache
          /\ request[u].at = "count"
      BY <1>5, <2>2, Zenon DEF Count
    <3>2. /\ r \in Requests /\ r.at = "store" /\ r.stamp = request[u].stamp
          /\ r.n = Positions[book] /\ r.spec = request[u].spec
      BY <1>2 DEF Requests, RequestAts
    <3> HIDE DEF r
    <3>3. UserKeeps(u)
      BY <1>1, <1>2, <3>1, <3>2, RequestKeeps DEF RequestAts, RequestHolds
    <3>4. QED
      BY <1>1, <3>1, <3>3, UserKeepsInv DEF IntakeInv, IntakeType, CacheHolds
  <2>3. QED
    BY <2>1, <2>2
<1>6. CASE Store(u)
  <2>1. cache' = Counted(u) /\ request[u].at = "store" /\ Compares(u, request[u].n)
    BY <1>6 DEF Store
  <2>2. /\ Counted(u) \in Counts /\ Counted(u).stamp = request[u].stamp
        /\ Counted(u).n = request[u].n
    BY <1>2 DEF Requests, Counts, Counted
  <2>3. cache' \in Counts /\ CacheHolds'
    BY <1>1, <1>2, <2>1, <2>2 DEF CacheHolds, RequestHolds
  <2>4. request[u].at \in RequestAts \ {"none", "notify"}
    BY <2>1 DEF RequestAts
  <2>5. UserKeeps(u)
    BY <1>1, <2>1, <2>4, ComparesKeeps
  <2>6. QED
    BY <1>1, <2>3, <2>5, UserKeepsInv DEF IntakeInv, IntakeType
<1>7. QED
  BY <1>3, <1>4, <1>5, <1>6

LEMMA ResolveKeeps ==
    ASSUME IntakeInv, NEW u \in Users, Resolve(u)
    PROVE  IntakeInv'
<1>1. UNCHANGED <<server, stop, pending, smoke, book, cache, tests>> /\ request[u].at = "resolve"
  BY DEF Resolve
<1>2. /\ request[u] \in Requests /\ RequestHolds(u)
  BY UserTypes
<1>3. UserKeeps(u)
  <2>1. CASE Refuses(u)
    BY <1>1, <2>1, AnswersKeep DEF Refuses
  <2>2. CASE ~Refuses(u)
    <3>1. PICK same \in BOOLEAN :
            /\ ~same /\ UNCHANGED cli
            /\ request' = [request EXCEPT ![u] = [request[u] EXCEPT !.at = "insert", !.same = same]]
      BY <2>2, Zenon DEF Resolve, Differ
    <3> DEFINE r == [request[u] EXCEPT !.at = "insert", !.same = same]
    <3>2. r \in Requests /\ r.at = "insert" /\ r.stamp = request[u].stamp /\ r.spec = request[u].spec
      BY <1>2 DEF Requests, RequestAts
    <3>3. ~r.same
      BY <1>2, <3>1, Zenon DEF Requests
    <3> HIDE DEF r
    <3>4. /\ r.stamp <= book /\ r.at \in RequestAts \ {"none", "notify"}
          /\ request[u].at \in RequestAts \ {"none", "notify"}
      BY <1>1, <1>2, <3>2 DEF RequestAts, RequestHolds
    <3>5. request' = [request EXCEPT ![u] = r]
      BY <3>1 DEF r
    <3>6. QED
      BY <1>1, <3>1, <3>2, <3>3, <3>4, <3>5, RequestKeeps
  <2>3. QED
    BY <2>1, <2>2
<1>4. QED
  BY <1>1, <1>3, UserKeepsInv DEF IntakeInv, IntakeType, CacheHolds

LEMMA NotifyKeeps ==
    ASSUME IntakeInv, NEW u \in Users, NotifySmoke(u)
    PROVE  IntakeInv'
<1>1. /\ UNCHANGED <<server, stop, book, cache, tests>> /\ request[u].at = "notify"
      /\ pending' = TRUE /\ Answers(u, "polling")
  BY DEF NotifySmoke
<1>2. smoke' = smoke \/ smoke' = At("woken")
  BY Zenon DEF NotifySmoke, Woken
<1>3. UserKeeps(u)
  BY <1>1, AnswersKeep
<1>4. QED
  BY <1>1, <1>2, <1>3, UserKeepsInv DEF IntakeInv, IntakeType, CacheHolds

\* How a row may change: it is there for good, and a judgement is the last one.
Onward(t) ==
    /\ tests[t].status # "absent" =>
         tests'[t].status # "absent" /\ tests'[t].total = tests[t].total
    /\ tests[t].status \notin {"absent", "validating"} =>
         /\ tests'[t].status # "validating"
         /\ tests'[t].status = "invalid" <=> tests[t].status = "invalid"
    /\ tests'[t].status \in {"queued", "running"} => tests'[t].positions = tests'[t].total

LEMMA UsersSeeRows ==
    ASSUME IntakeInv, \A t \in Tests : Onward(t), UNCHANGED book, NEW v \in Users,
           request'[v] = request[v], cli'[v] = cli[v]
    PROVE  RequestHolds(v)' /\ CliHolds(v)'
<1>1. RequestHolds(v) /\ CliHolds(v)
  BY DEF IntakeInv
<1>2. RequestHolds(v)'
  BY <1>1 DEF RequestHolds, Onward
<1>3. CliHolds(v)'
  <2>1. cli[v].at \in {"polling", "reading", "ok", "failed"} =>
          cli[v].id \in Tests /\ tests[cli[v].id].status # "absent" /\ Onward(cli[v].id)
    BY <1>1 DEF CliHolds
  <2>2. QED
    BY <1>1, <2>1 DEF CliHolds, Onward
<1>4. QED
  BY <1>2, <1>3

LEMMA SmokeSeesRows ==
    ASSUME IntakeInv, \A t \in Tests : Onward(t), UNCHANGED <<smoke, stop>>
    PROVE  SmokeHolds'
<1>1. SmokeHolds
  BY DEF IntakeInv
<1>2. smoke.at \in {"build", "sample", "decide", "judge"} =>
        smoke.t \in Tests /\ tests[smoke.t].status # "absent" /\ Onward(smoke.t)
  BY <1>1, Zenon DEF SmokeHolds
<1>3. QED
  BY <1>1, <1>2, Zenon DEF SmokeHolds, Onward

\* Rows that stay as they are.
LEMMA RowsRest ==
    ASSUME IntakeInv, UNCHANGED tests
    PROVE  \A t \in Tests : Onward(t)
BY DEF IntakeInv, Onward, QueuedHasItsPositions

\* A step of neither a program nor a handler.
LEMMA OthersKeepInv ==
    ASSUME IntakeInv, UNCHANGED <<book, request, cli>>, stop' \in BOOLEAN, pending' \in BOOLEAN,
           tests' \in [Tests -> Rows], \A t \in Tests : Onward(t),
           \A t \in Tests : tests'[t].status = "absent" <=> tests[t].status = "absent",
           cache' = cache, smoke' \in Smokes, SmokeHolds'
    PROVE  IntakeInv'
<1>1. IntakeType'
  BY DEF IntakeInv, IntakeType
<1>2. \A v \in Users : RequestHolds(v)' /\ CliHolds(v)'
  BY UsersSeeRows
<1>3. RowsInOrder'
  <2>1. \A v \in Users : Early(v)' => Early(v)
    BY DEF Early
  <2>2. QED
    BY <2>1, RowsStayInOrder
<1>4. CacheHolds' /\ QueuedHasItsPositions'
  BY DEF IntakeInv, CacheHolds, QueuedHasItsPositions, Onward
<1>5. QED
  BY <1>1, <1>2, <1>3, <1>4 DEF IntakeInv

\* The insert takes the first free row, and the user who inserts it does not
\* do so again.
LEMMA InsertKeeps ==
    ASSUME IntakeInv, NEW u \in Users, InsertTest(u)
    PROVE  IntakeInv'
<1>1. UNCHANGED <<server, stop, pending, smoke, book, cache>> /\ request[u].at = "insert"
  BY InsertsRow, Zenon DEF InsertTest
<1>2. CASE Refuses(u) /\ UNCHANGED tests
  <2>1. UserKeeps(u)
    BY <1>1, <1>2, AnswersKeep DEF Refuses
  <2>2. QED
    BY <1>1, <1>2, <2>1, UserKeepsInv DEF IntakeInv, IntakeType, CacheHolds
<1>3. ASSUME NEW id \in Tests,
             \A v \in Tests : tests[v].status = "absent" <=> v >= id,
             tests' = [tests EXCEPT ![id] = Row(u)],
             request' = [request EXCEPT ![u] = [NoRequest EXCEPT !.at = "notify", !.id = id]],
             UNCHANGED cli
      PROVE  IntakeInv'
  <2> DEFINE r == [NoRequest EXCEPT !.at = "notify", !.id = id]
  <2>1. /\ request[u] \in Requests /\ cli[u] \in Clis /\ RequestHolds(u) /\ CliHolds(u)
        /\ cli = [cli EXCEPT ![u] = cli[u]]
    BY UserTypes
  <2>2. id \in Nat /\ book \in Nat
    BY TestsAreNumbers, EditionsAreCounted DEF IntakeInv, IntakeType
  <2>3. r \in Requests /\ r.at = "notify" /\ r.id = id /\ r.stamp = 0
    BY <2>2 DEF NoRequest, Requests, RequestAts
  <2>4. Sets(u, r, cli[u])
    BY <1>3, <2>1, Zenon DEF Sets
  <2> HIDE DEF r
  <2>5. /\ request' \in [Users -> Requests] /\ cli' \in [Users -> Clis]
        /\ request'[u] = r /\ cli'[u] = cli[u]
        /\ \A v \in Users \ {u} : request'[v] = request[v] /\ cli'[v] = cli[v]
    BY <2>1, <2>3, <2>4, SetsBoth
  <2>6. Row(u) \in Rows /\ Row(u).status = "validating"
    BY <1>1, <2>1 DEF RequestHolds, RequestAts, Specs, Rows, Row
  <2>7. /\ tests' \in [Tests -> Rows] /\ tests'[id] = Row(u)
        /\ \A t \in Tests \ {id} : tests'[t] = tests[t]
    BY <1>3, <2>6 DEF IntakeInv, IntakeType
  <2>8. tests[id].status = "absent"
    BY <1>3, <2>2
  <2>9. \A t \in Tests : Onward(t)
    BY <2>6, <2>7, <2>8 DEF IntakeInv, Onward, QueuedHasItsPositions
  <2>10. \A v \in Users \ {u} : RequestHolds(v)' /\ CliHolds(v)'
    BY <1>1, <2>5, <2>9, UsersSeeRows
  <2>11. RequestHolds(u)'
    BY <1>1, <2>2, <2>3, <2>5, <2>6, <2>7 DEF RequestHolds
  <2>12. CliHolds(u)'
    <3>1. cli[u].at \in {"polling", "reading", "ok", "failed"} =>
            cli[u].id \in Tests /\ cli[u].id # id
      BY <2>1, <2>8 DEF CliHolds
    <3>2. QED
      BY <1>1, <2>1, <2>5, <2>7, <3>1 DEF CliHolds
  <2>13. RowsInOrder'
    <3> DEFINE early == {v \in Users : Early(v)}
               earlyNew == {v \in Users : Early(v)'}
    <3>1. PICK k \in 0..Cardinality(Users) :
            /\ \A t \in Tests : tests[t].status = "absent" <=> t > k
            /\ k + Cardinality(early) <= Cardinality(Users)
      BY DEF IntakeInv, RowsInOrder
    <3>2. u \in early /\ earlyNew = early \ {u}
      BY <1>1, <2>1, <2>3, <2>5 DEF Early, RequestAts, CliHolds
    <3>3. IsFiniteSet(early) /\ IsFiniteSet(earlyNew)
      BY IntakeAssumption, FS_Subset
    <3> HIDE DEF early, earlyNew
    <3>4. /\ Cardinality(early) \in Nat /\ Cardinality(earlyNew) = Cardinality(early) - 1
          /\ Cardinality(earlyNew) \in Nat
      BY <3>2, <3>3, FS_CardinalityType, FS_RemoveElement
    <3>5. k + 1 \in Tests
      BY <3>1, <3>4, TestsAreNumbers
    <3>6. id = k + 1
      BY <1>3, <2>2, <2>8, <3>1, <3>5, TestsAreNumbers
    <3>7. \A t \in Tests : tests'[t].status = "absent" <=> t > k + 1
      <4>1. \A t \in Tests \ {id} : tests'[t].status = "absent" <=> t > k
        BY <2>7, <3>1
      <4>2. tests'[id].status # "absent"
        BY <2>6, <2>7
      <4>3. QED
        BY <3>6, <4>1, <4>2, TestsAreNumbers
    <3>8. /\ k + 1 \in 0..Cardinality(Users)
          /\ k + 1 + Cardinality(earlyNew) <= Cardinality(Users)
      BY <3>1, <3>4, <3>5, TestsAreNumbers
    <3>9. QED
      BY <3>7, <3>8 DEF RowsInOrder, earlyNew
  <2>14. IntakeType' /\ CacheHolds'
    BY <1>1, <2>5, <2>7 DEF IntakeInv, IntakeType, CacheHolds
  <2>15. SmokeHolds'
    BY <1>1, <2>9, SmokeSeesRows
  <2>16. QueuedHasItsPositions'
    BY <2>9 DEF Onward, QueuedHasItsPositions
  <2>17. QED
    BY <2>10, <2>11, <2>12, <2>13, <2>14, <2>15, <2>16 DEF IntakeInv
<1>4. QED
  BY <1>2, <1>3, InsertsRow, Zenon

-----------------------------------------------------------------------------
(* The steps of the worker. *)

Queued(ts) == {t \in Tests : ts[t].status = "queued"}
Beats(ts, t, u) ==
    ts[t].priority > ts[u].priority \/ (ts[t].priority = ts[u].priority /\ t < u)

\* Of the tests that wait one is the best: the one that the fewest others beat.
LEMMA BestWaits ==
    ASSUME NEW ts \in [Tests -> Rows], Queued(ts) # {}
    PROVE  \E t \in Queued(ts) : \A u \in Queued(ts) \ {t} : Beats(ts, t, u)
<1> DEFINE better(t) == {u \in Queued(ts) : Beats(ts, u, t)}
           counts == {Cardinality(better(t)) : t \in Queued(ts)}
<1>1. /\ IsFiniteSet(Queued(ts)) /\ Queued(ts) \subseteq Tests
      /\ \A t \in Tests : t \in Nat /\ ts[t].priority \in Int
  <2>1. IsFiniteSet(Tests)
    BY TestsAreNumbers, FS_Interval
  <2>2. QED
    BY <2>1, FS_Subset, TestsAreNumbers DEF Queued, Rows
<1>2. \A t \in Queued(ts) : IsFiniteSet(better(t)) /\ Cardinality(better(t)) \in Nat
  BY <1>1, FS_Subset, FS_CardinalityType
<1>3. counts \in SUBSET Nat /\ counts # {}
  BY <1>2
<1>4. PICK least \in counts : \A n \in counts : least <= n
  BY <1>3, LeastNumber
<1>5. PICK t \in Queued(ts) : least = Cardinality(better(t))
  BY <1>4
<1>6. ASSUME NEW u \in better(t) PROVE FALSE
  <2>1. better(u) \subseteq better(t) \ {u} /\ u \in Queued(ts)
    BY <1>1 DEF Beats
  <2>2. Cardinality(better(u)) <= Cardinality(better(t)) - 1
    <3> HIDE DEF better
    <3>1. /\ IsFiniteSet(better(t) \ {u})
          /\ Cardinality(better(t) \ {u}) = Cardinality(better(t)) - 1
      BY <1>2, <1>6, FS_RemoveElement
    <3>2. Cardinality(better(u)) <= Cardinality(better(t) \ {u})
      BY <2>1, <3>1, FS_Subset
    <3>3. QED
      BY <3>1, <3>2
  <2>3. least <= Cardinality(better(u))
    BY <1>4, <2>1
  <2> HIDE DEF better
  <2>4. QED
    BY <1>2, <1>5, <2>1, <2>2, <2>3
<1>7. \A u \in Queued(ts) \ {t} : Beats(ts, t, u)
  BY <1>1, <1>6 DEF Beats
<1>8. QED
  BY <1>7

LEMMA PromotedRows ==
    ASSUME NEW ts \in [Tests -> Rows]
    PROVE  /\ Promoted(ts) \in [Tests -> Rows]
           /\ \A t \in Tests :
                /\ Promoted(ts)[t].total = ts[t].total
                /\ Promoted(ts)[t].positions = ts[t].positions
                /\ \/ Promoted(ts)[t].status = ts[t].status
                   \/ /\ ts[t].status = "queued"
                      /\ Promoted(ts)[t].status = "running"
<1>1. CASE Promoted(ts) = ts
  BY <1>1
<1>2. CASE Promoted(ts) # ts
  <2> DEFINE best == CHOOSE t \in Queued(ts) : \A u \in Queued(ts) \ {t} : Beats(ts, t, u)
  <2>1. Queued(ts) # {} /\ Promoted(ts) = [ts EXCEPT ![best].status = "running"]
    BY <1>2, Zenon DEF Promoted, Queued, Beats
  <2>2. best \in Queued(ts)
    BY <2>1, BestWaits
  <2> HIDE DEF best
  <2>3. best \in Tests /\ ts[best].status = "queued" /\ ts[best] \in Rows
    BY <2>2 DEF Queued
  <2>4. /\ [ts[best] EXCEPT !.status = "running"] \in Rows
        /\ [ts[best] EXCEPT !.status = "running"].status = "running"
        /\ [ts[best] EXCEPT !.status = "running"].total = ts[best].total
        /\ [ts[best] EXCEPT !.status = "running"].positions = ts[best].positions
    BY <2>3 DEF Rows
  <2>5. PICK row \in Rows : /\ row.status = "running" /\ row.total = ts[best].total
                            /\ row.positions = ts[best].positions
                            /\ Promoted(ts) = [ts EXCEPT ![best] = row]
    BY <2>1, <2>4, Zenon
  <2> DEFINE new == Promoted(ts)
  <2>6. new = [ts EXCEPT ![best] = row]
    BY <2>5
  <2> HIDE DEF new
  <2>7. new \in [Tests -> Rows] /\ new[best] = row /\ \A t \in Tests \ {best} : new[t] = ts[t]
    BY <2>3, <2>5, <2>6
  <2>8. QED
    BY <2>3, <2>5, <2>7 DEF new
<1>3. QED
  BY <1>1, <1>2

LEMMA RestingWorker ==
    ASSUME NEW place \in SmokeAts \ {"build", "sample", "decide", "judge"}, smoke' = At(place)
    PROVE  smoke' \in Smokes /\ SmokeHolds'
<1>1. /\ smoke' \in Smokes /\ smoke'.at = place /\ smoke'.log = "none"
  BY Places, Zenon
<1>2. place \notin {"build", "sample", "decide", "judge"}
  OBVIOUS
<1>3. QED
  BY <1>1, <1>2, Zenon DEF SmokeHolds

\* The worker takes the record w for what it knows of its test.
LEMMA WorkerMovesOn ==
    ASSUME IntakeInv, NEW w \in Smokes, smoke' = w, UNCHANGED <<tests, stop>>,
           w.at \in {"build", "sample", "decide", "judge"} =>
             w.t \in Tests /\ tests[w.t].status # "absent",
           w.at \notin {"decide", "judge"} => w.log = "none",
           w.log = "cancelled" => w.at = "decide" /\ stop,
           w.at \in {"decide", "judge"} /\ w.log = "none" => w.n = tests[w.t].total
    PROVE  smoke' \in Smokes /\ SmokeHolds'
BY Zenon DEF SmokeHolds

LEMMA OldestIsOne ==
    ASSUME NEW S \in SUBSET Nat, S # {}
    PROVE  Oldest(S) \in S
<1>1. \E x \in S : \A y \in S : x <= y
  BY LeastNumber
<1>2. QED
  BY <1>1 DEF Oldest

\* What the worker writes into its record.
LEMMA Picks ==
    ASSUME NEW t \in Nat
    PROVE  /\ [At("build") EXCEPT !.t = t] \in Smokes
           /\ [At("build") EXCEPT !.t = t].at = "build" /\ [At("build") EXCEPT !.t = t].t = t
           /\ [At("build") EXCEPT !.t = t].log = "none"
BY DEF At, Smokes, SmokeAts

LEMMA MovesTo ==
    ASSUME NEW w \in Smokes, NEW place \in SmokeAts
    PROVE  /\ [w EXCEPT !.at = place] \in Smokes /\ [w EXCEPT !.at = place].at = place
           /\ [w EXCEPT !.at = place].t = w.t /\ [w EXCEPT !.at = place].log = w.log
           /\ [w EXCEPT !.at = place].n = w.n
BY DEF Smokes

LEMMA OnlySmokeMoves ==
    ASSUME IntakeInv, UNCHANGED <<stop, book, cache, request, cli, tests>>, pending' \in BOOLEAN,
           smoke' \in Smokes, SmokeHolds'
    PROVE  IntakeInv'
<1>1. stop' \in BOOLEAN /\ tests' \in [Tests -> Rows]
  BY Zenon DEF IntakeInv, IntakeType
<1>2. \A t \in Tests : Onward(t)
  BY RowsRest
<1>3. /\ \A t \in Tests : tests'[t].status = "absent" <=> tests[t].status = "absent"
      /\ cache' = cache /\ UNCHANGED <<book, request, cli>>
  BY Zenon
<1>4. QED
  BY <1>1, <1>2, <1>3, OthersKeepInv, Zenon

LEMMA LookKeeps ==
    ASSUME IntakeInv, Look \/ FallAsleep \/ WaitEnds \/ SmokeError \/ SmokeEnds
    PROVE  IntakeInv'
<1>1. PICK place \in {"poll", "drowsy", "asleep", "loop", "ended"} : smoke' = At(place)
  BY Zenon DEF Look, FallAsleep, WaitEnds, SmokeError, SmokeEnds
<1>2. smoke' \in Smokes /\ SmokeHolds'
  BY <1>1, RestingWorker DEF SmokeAts
<1>3. UNCHANGED <<stop, book, cache, request, cli, tests>>
  BY Zenon DEF Look, FallAsleep, WaitEnds, SmokeError, SmokeEnds
<1>4. pending' \in BOOLEAN
  BY Zenon DEF Look, FallAsleep, WaitEnds, SmokeError, SmokeEnds, IntakeInv, IntakeType
<1>5. QED
  BY <1>2, <1>3, <1>4, OnlySmokeMoves, Zenon

LEMMA PickKeeps ==
    ASSUME IntakeInv, Pick
    PROVE  IntakeInv'
<1>1. UNCHANGED <<stop, book, cache, request, cli, tests>> /\ pending' \in BOOLEAN
  BY Zenon DEF Pick, IntakeInv, IntakeType
<1>2. CASE smoke' = At("loop")
  <2>1. smoke' \in Smokes /\ SmokeHolds'
    BY <1>2, RestingWorker DEF SmokeAts
  <2>2. QED
    BY <1>1, <2>1, OnlySmokeMoves, Zenon
<1>3. CASE Validating # {} /\ smoke' = [At("build") EXCEPT !.t = Oldest(Validating)]
  <2> DEFINE w == [At("build") EXCEPT !.t = Oldest(Validating)]
  <2>1. Validating \in SUBSET Nat
    BY TestsAreNumbers DEF Validating
  <2>2. Oldest(Validating) \in Validating
    BY <1>3, <2>1, OldestIsOne, Zenon
  <2>3. /\ Oldest(Validating) \in Tests /\ Oldest(Validating) \in Nat
        /\ tests[Oldest(Validating)].status # "absent"
    BY <2>1, <2>2, Zenon DEF Validating
  <2>5. w \in Smokes /\ w.at = "build" /\ w.t = Oldest(Validating) /\ w.log = "none"
    BY <2>3, Picks, Zenon
  <2>6. smoke' = w
    BY <1>3, Zenon
  <2> HIDE DEF w
  <2>7. smoke' \in Smokes /\ SmokeHolds'
    BY <1>1, <2>3, <2>5, <2>6, WorkerMovesOn, Zenon
  <2>8. QED
    BY <1>1, <2>7, OnlySmokeMoves, Zenon
<1>4. QED
  BY <1>2, <1>3, Zenon DEF Pick

LEMMA BuildKeeps ==
    ASSUME IntakeInv, BuildBoth
    PROVE  IntakeInv'
<1>1. UNCHANGED <<stop, book, cache, request, cli, tests>> /\ pending' \in BOOLEAN
  BY Zenon DEF BuildBoth, IntakeInv, IntakeType
<1>2. /\ smoke \in Smokes /\ smoke.at = "build" /\ smoke.log = "none" /\ smoke.t \in Tests
      /\ tests[smoke.t].status # "absent"
  BY Zenon DEF BuildBoth, IntakeInv, IntakeType, SmokeHolds
<1>3. CASE smoke' = [smoke EXCEPT !.at = "sample"]
  <2> DEFINE w == [smoke EXCEPT !.at = "sample"]
  <2>1. w \in Smokes /\ w.at = "sample" /\ w.t = smoke.t /\ w.log = smoke.log
    BY <1>2, MovesTo, Zenon DEF SmokeAts
  <2>2. smoke' = w
    BY <1>3, Zenon
  <2> HIDE DEF w
  <2>3. smoke' \in Smokes /\ SmokeHolds'
    BY <1>1, <1>2, <2>1, <2>2, WorkerMovesOn, Zenon
  <2>4. QED
    BY <1>1, <2>3, OnlySmokeMoves, Zenon
<1>4. ASSUME NEW log \in {"failed", "cancelled"}, log = "cancelled" => stop,
             smoke' = [smoke EXCEPT !.at = "decide", !.log = log]
      PROVE  IntakeInv'
  <2> DEFINE w == [smoke EXCEPT !.at = "decide", !.log = log]
  <2>1. w \in Smokes /\ w.at = "decide" /\ w.t = smoke.t /\ w.log = log
    BY <1>2 DEF Smokes, SmokeAts
  <2>2. smoke' = w /\ log # "none" /\ (log = "cancelled" => stop)
    BY <1>4, Zenon
  <2> HIDE DEF w
  <2>3. smoke' \in Smokes /\ SmokeHolds'
    BY <1>1, <1>2, <2>1, <2>2, WorkerMovesOn, Zenon
  <2>4. QED
    BY <1>1, <2>3, OnlySmokeMoves, Zenon
<1>5. QED
  BY <1>3, <1>4, Zenon DEF BuildBoth

LEMMA SampleKeeps ==
    ASSUME IntakeInv, Sample
    PROVE  IntakeInv'
<1>1. UNCHANGED <<stop, book, cache, request, cli, tests>> /\ pending' \in BOOLEAN
  BY Zenon DEF Sample, IntakeInv, IntakeType
<1>2. /\ smoke \in Smokes /\ smoke.at = "sample" /\ smoke.log = "none" /\ smoke.t \in Tests
      /\ tests[smoke.t].status # "absent" /\ tests[smoke.t] \in Rows
      /\ book \in 1..Len(Positions)
  BY Zenon DEF Sample, IntakeInv, IntakeType, SmokeHolds
<1>3. CASE There /\ Enough(Sampled) /\ smoke' = [smoke EXCEPT !.at = "decide", !.n = Sampled]
  <2> DEFINE w == [smoke EXCEPT !.at = "decide", !.n = Sampled]
  <2>1. Sampled = tests[smoke.t].total /\ Sampled \in Nat
    <3>1. \A row \in Rows : row.total \in Nat
      BY DEF Rows
    <3>2. PICK most \in Nat : most = tests[smoke.t].total
      BY <1>2, <3>1, Zenon
    <3>3. PICK there \in Nat : there = Positions[book]
      BY <1>2, EditionsAreCounted, Zenon
    <3>4. /\ Sampled = IF there < most THEN there ELSE most
          /\ Sampled >= most
      BY <1>3, <3>2, <3>3, Zenon DEF Sampled, Enough
    <3>5. Sampled = most
      BY <3>2, <3>3, <3>4
    <3>6. QED
      BY <3>2, <3>5, Zenon
  <2>2. w \in Smokes /\ w.at = "decide" /\ w.t = smoke.t /\ w.log = smoke.log /\ w.n = Sampled
    BY <1>2, <2>1 DEF Smokes, SmokeAts
  <2>3. smoke' = w
    BY <1>3, Zenon
  <2> HIDE DEF w
  <2>4. smoke' \in Smokes /\ SmokeHolds'
    BY <1>1, <1>2, <2>1, <2>2, <2>3, WorkerMovesOn, Zenon
  <2>5. QED
    BY <1>1, <2>4, OnlySmokeMoves, Zenon
<1>4. CASE smoke' = [smoke EXCEPT !.at = "decide", !.log = "failed"]
  <2> DEFINE w == [smoke EXCEPT !.at = "decide", !.log = "failed"]
  <2>1. w \in Smokes /\ w.at = "decide" /\ w.t = smoke.t /\ w.log = "failed"
    BY <1>2 DEF Smokes, SmokeAts
  <2>2. smoke' = w
    BY <1>4, Zenon
  <2> HIDE DEF w
  <2>3. smoke' \in Smokes /\ SmokeHolds'
    BY <1>1, <1>2, <2>1, <2>2, WorkerMovesOn, Zenon
  <2>4. QED
    BY <1>1, <2>3, OnlySmokeMoves, Zenon
<1>5. QED
  BY <1>3, <1>4, Zenon DEF Sample

LEMMA DecideKeeps ==
    ASSUME IntakeInv, Decide
    PROVE  IntakeInv'
<1>1. UNCHANGED <<stop, book, cache, request, cli, tests>> /\ pending' \in BOOLEAN
  BY Zenon DEF Decide, IntakeInv, IntakeType
<1>2. /\ smoke \in Smokes /\ smoke.at = "decide" /\ smoke.t \in Tests
      /\ tests[smoke.t].status # "absent"
      /\ (smoke.log = "cancelled" => stop)
      /\ (smoke.log = "none" => smoke.n = tests[smoke.t].total)
  BY Zenon DEF Decide, IntakeInv, IntakeType, SmokeHolds
<1>3. CASE smoke' = At("loop")
  <2>1. smoke' \in Smokes /\ SmokeHolds'
    BY <1>3, RestingWorker DEF SmokeAts
  <2>2. QED
    BY <1>1, <2>1, OnlySmokeMoves, Zenon
<1>4. CASE ~stop /\ smoke' = [smoke EXCEPT !.at = "judge"]
  <2> DEFINE w == [smoke EXCEPT !.at = "judge"]
  <2>1. w \in Smokes /\ w.at = "judge" /\ w.t = smoke.t /\ w.log = smoke.log /\ w.n = smoke.n
    BY <1>2, MovesTo, Zenon DEF SmokeAts
  <2>2. smoke' = w /\ ~stop
    BY <1>4, Zenon
  <2> HIDE DEF w
  <2>3. smoke' \in Smokes /\ SmokeHolds'
    BY <1>1, <1>2, <2>1, <2>2, WorkerMovesOn, Zenon
  <2>4. QED
    BY <1>1, <2>3, OnlySmokeMoves, Zenon
<1>5. QED
  BY <1>3, <1>4, Zenon DEF Decide, Interrupted

\* The last transaction, of a test that was stopped meanwhile, failed, or is queued.
LEMMA JudgeKeeps ==
    ASSUME IntakeInv, Judge
    PROVE  IntakeInv' /\ \A t \in Tests : /\ tests[t].status = "validating"
                                          /\ tests'[t].status = "invalid"
                                          => smoke.log = "failed"
<1>1. UNCHANGED <<stop, pending, book, cache, request, cli>> /\ smoke' = At("poll")
  BY Zenon DEF Judge
<1>2. /\ smoke \in Smokes /\ smoke.t \in Tests /\ tests \in [Tests -> Rows]
      /\ smoke.log # "cancelled"
      /\ smoke.log = "none" => smoke.n = tests[smoke.t].total
      /\ smoke.n \in Nat
  <2>1. smoke \in Smokes /\ smoke.at = "judge" /\ SmokeHolds /\ tests \in [Tests -> Rows]
    BY Zenon DEF Judge, IntakeInv, IntakeType
  <2>2. QED
    BY <2>1 DEF SmokeHolds, Smokes
<1>3. smoke' \in Smokes /\ SmokeHolds'
  BY <1>1, RestingWorker DEF SmokeAts
<1>4. /\ tests' \in [Tests -> Rows]
      /\ \A t \in Tests : /\ Onward(t)
                          /\ tests'[t].status = "absent" <=> tests[t].status = "absent"
                          /\ tests[t].status = "validating" /\ tests'[t].status = "invalid"
                               => smoke.log = "failed"
  <2>1. CASE tests' = tests
    <3>1. \A t \in Tests : Onward(t)
      BY <2>1, RowsRest
    <3>2. QED
      BY <1>2, <2>1, <3>1, Zenon
  <2>2. CASE /\ tests[smoke.t].status = "validating" /\ smoke.log # "none"
             /\ tests' = [tests EXCEPT ![smoke.t].status = "invalid"]
    <3> DEFINE row == [tests[smoke.t] EXCEPT !.status = "invalid"]
    <3>1. smoke.log = "failed"
      BY <1>2, <2>2 DEF Smokes
    <3>2. row \in Rows /\ row.status = "invalid" /\ row.total = tests[smoke.t].total
      BY <1>2 DEF Rows
    <3>3. tests' = [tests EXCEPT ![smoke.t] = row]
      BY <2>2, Zenon
    <3> HIDE DEF row
    <3>4. /\ tests' \in [Tests -> Rows] /\ tests'[smoke.t] = row
          /\ \A t \in Tests \ {smoke.t} : tests'[t] = tests[t]
      BY <1>2, <3>2, <3>3
    <3>5. QED
      BY <2>2, <3>1, <3>2, <3>4 DEF Onward, IntakeInv, QueuedHasItsPositions
  <2>3. CASE /\ tests[smoke.t].status = "validating" /\ smoke.log = "none"
             /\ tests' = Promoted([tests EXCEPT ![smoke.t].status = "queued",
                                                ![smoke.t].positions = smoke.n])
    <3> DEFINE row == [tests[smoke.t] EXCEPT !.status = "queued", !.positions = smoke.n]
               ts == [tests EXCEPT ![smoke.t] = row]
    <3>1. /\ row \in Rows /\ row.status = "queued" /\ row.total = tests[smoke.t].total
          /\ row.positions = row.total
      BY <1>2, <2>3 DEF Rows
    <3>2. tests' = Promoted(ts)
      <4>1. ts = [tests EXCEPT ![smoke.t].status = "queued", ![smoke.t].positions = smoke.n]
        BY <1>2
      <4>2. QED
        BY <2>3, <4>1, Zenon
    <3> HIDE DEF row
    <3>3. /\ ts \in [Tests -> Rows] /\ ts[smoke.t] = row
          /\ \A t \in Tests \ {smoke.t} : ts[t] = tests[t]
      BY <1>2, <3>1
    <3> HIDE DEF ts
    <3>4. /\ tests' \in [Tests -> Rows]
          /\ \A t \in Tests : /\ tests'[t].total = ts[t].total
                              /\ tests'[t].positions = ts[t].positions
                              /\ \/ tests'[t].status = ts[t].status
                                 \/ ts[t].status = "queued" /\ tests'[t].status = "running"
      BY <3>2, <3>3, PromotedRows, Zenon
    <3>5. \A t \in Tests : /\ tests[t].status \in {"queued", "running"} =>
                                tests[t].positions = tests[t].total
                           /\ t # smoke.t => ts[t] = tests[t]
      BY <3>3 DEF IntakeInv, QueuedHasItsPositions
    <3>6. ASSUME NEW t \in Tests
          PROVE  /\ Onward(t) /\ (tests'[t].status = "absent" <=> tests[t].status = "absent")
                 /\ tests'[t].status = "invalid" => tests[t].status = "invalid"
      <4>1. CASE t = smoke.t
        <5>1. /\ tests'[t].total = tests[t].total /\ tests'[t].positions = tests'[t].total
              /\ tests'[t].status \in {"queued", "running"} /\ tests[t].status = "validating"
          BY <1>2, <2>3, <3>1, <3>3, <3>4, <4>1, Zenon
        <5>2. QED
          BY <5>1 DEF Onward
      <4>2. CASE t # smoke.t
        BY <3>4, <3>5, <4>2, Zenon DEF Onward
      <4>3. QED
        BY <4>1, <4>2
    <3>7. QED
      BY <3>4, <3>6, Zenon
  <2>4. QED
    BY <2>1, <2>2, <2>3, Zenon DEF Judge
<1>5. stop' \in BOOLEAN /\ pending' \in BOOLEAN /\ cache' = cache /\ UNCHANGED <<book, request, cli>>
  BY <1>1, Zenon DEF IntakeInv, IntakeType
<1>6. IntakeInv'
  BY <1>3, <1>4, <1>5, OthersKeepInv, Zenon
<1>7. QED
  BY <1>4, <1>6, Zenon

\* A test is stopped while it is validated.
LEMMA StopKeeps ==
    ASSUME IntakeInv, NEW t \in Tests, StopValidating(t)
    PROVE  IntakeInv'
<1> DEFINE row == [tests[t] EXCEPT !.status = "stopped"]
<1>1. /\ UNCHANGED <<stop, pending, smoke, book, cache, request, cli>>
      /\ tests[t].status = "validating" /\ tests' = [tests EXCEPT ![t] = row]
  BY Zenon DEF StopValidating
<1>2. tests \in [Tests -> Rows] /\ smoke \in Smokes /\ stop \in BOOLEAN /\ pending \in BOOLEAN
  BY Zenon DEF IntakeInv, IntakeType
<1>3. row \in Rows /\ row.status = "stopped" /\ row.total = tests[t].total
  BY <1>2 DEF Rows
<1> HIDE DEF row
<1>4. /\ tests' \in [Tests -> Rows] /\ tests'[t] = row
      /\ \A v \in Tests \ {t} : tests'[v] = tests[v]
  BY <1>1, <1>2, <1>3
<1>5. \A v \in Tests : Onward(v) /\ (tests'[v].status = "absent" <=> tests[v].status = "absent")
  BY <1>1, <1>3, <1>4 DEF Onward, IntakeInv, QueuedHasItsPositions
<1>6. smoke' \in Smokes /\ SmokeHolds'
  BY <1>1, <1>2, <1>5, SmokeSeesRows
<1>7. stop' \in BOOLEAN /\ pending' \in BOOLEAN /\ cache' = cache /\ UNCHANGED <<book, request, cli>>
  BY <1>1, <1>2
<1>8. QED
  BY <1>4, <1>5, <1>6, <1>7, OthersKeepInv, Zenon

-----------------------------------------------------------------------------
(* The steps of the server and of the book. *)

LEMMA SignalKeeps ==
    ASSUME IntakeInv, Signal \/ SetStop \/ NotifyStop
    PROVE  IntakeInv'
<1>1. /\ UNCHANGED <<pending, book, cache, request, cli, tests>> /\ stop' \in {stop, TRUE}
      /\ smoke' \in {smoke, At("woken")} /\ (smoke' # smoke => stop' = stop)
  BY Zenon DEF Signal, SetStop, NotifyStop, Woken
<1>2. smoke \in Smokes /\ SmokeHolds /\ stop \in BOOLEAN /\ pending \in BOOLEAN
      /\ tests \in [Tests -> Rows]
  BY Zenon DEF IntakeInv, IntakeType
<1>3. smoke' \in Smokes /\ SmokeHolds'
  <2>1. CASE smoke' = At("woken")
    BY <2>1, RestingWorker DEF SmokeAts
  <2>2. CASE smoke' = smoke
    <3>1. stop => stop'
      BY <1>1, Zenon
    <3>2. QED
      BY <1>1, <1>2, <2>2, <3>1 DEF SmokeHolds
  <2>3. QED
    BY <1>1, <2>1, <2>2
<1>4. stop' \in BOOLEAN /\ pending' \in BOOLEAN /\ tests' \in [Tests -> Rows]
  BY <1>1, <1>2
<1>5. \A t \in Tests : Onward(t) /\ (tests'[t].status = "absent" <=> tests[t].status = "absent")
  BY <1>1, RowsRest
<1>6. QED
  BY <1>1, <1>3, <1>4, <1>5, OthersKeepInv, Zenon

LEMMA StartKeeps ==
    ASSUME IntakeInv, Start
    PROVE  IntakeInv'
<1>1. UNCHANGED <<stop, book, cache, request, cli, tests>> /\ pending' \in BOOLEAN
  BY Zenon DEF Start, IntakeInv, IntakeType
<1>2. smoke' \in Smokes /\ SmokeHolds'
  <2>1. smoke' = At("loop")
    BY Zenon DEF Start
  <2>2. QED
    BY <2>1, RestingWorker DEF SmokeAts
<1>3. QED
  BY <1>1, <1>2, OnlySmokeMoves, Zenon

\* No handler and no count survives the process; the rows and the programs do.
LEMMA GoneKeeps ==
    ASSUME IntakeInv, Gone, UNCHANGED <<book, cli, tests>>
    PROVE  IntakeInv'
<1>1. /\ smoke' = At("ended") /\ stop' = FALSE /\ pending' = TRUE /\ cache' = NoCount
      /\ request' = [u \in Users |-> NoRequest]
  BY Zenon DEF Gone
<1>2. smoke' \in Smokes /\ SmokeHolds'
  BY <1>1, RestingWorker DEF SmokeAts
<1>3. book \in Nat /\ book > 0 /\ cache' \in Counts /\ cache'.stamp = 0
  BY <1>1, EditionsAreCounted DEF IntakeInv, IntakeType, NoCount, Counts
<1>4. NoRequest \in Requests /\ NoRequest.at = "none" /\ NoRequest.stamp = 0
  BY DEF NoRequest, Requests, RequestAts
<1>5. request' \in [Users -> Requests] /\ \A u \in Users : request'[u] = NoRequest
  BY <1>1, <1>4
<1>6. IntakeType' /\ CacheHolds'
  <2>1. stop' \in BOOLEAN /\ pending' \in BOOLEAN
    BY <1>1, Zenon
  <2>2. QED
    BY <1>2, <1>3, <1>5, <2>1 DEF IntakeInv, IntakeType, CacheHolds
<1>7. ASSUME NEW u \in Users PROVE RequestHolds(u)' /\ CliHolds(u)' /\ (Early(u)' => Early(u))
  <2>1. RequestHolds(u)'
    BY <1>3, <1>4, <1>5 DEF RequestHolds, RequestAts
  <2>2. CliHolds(u)'
    BY <1>4, <1>5 DEF IntakeInv, CliHolds
  <2>3. Early(u)' => Early(u)
    BY <1>4, <1>5 DEF Early, RequestAts
  <2>4. QED
    BY <2>1, <2>2, <2>3
<1>8. RowsInOrder'
  BY <1>7, RowsStayInOrder
<1>9. QueuedHasItsPositions'
  BY DEF IntakeInv, QueuedHasItsPositions
<1>10. QED
  BY <1>2, <1>6, <1>7, <1>8, <1>9 DEF IntakeInv

LEMMA BookKeeps ==
    ASSUME IntakeInv, ChangeBook
    PROVE  IntakeInv'
<1>1. /\ UNCHANGED <<stop, pending, smoke, cache, request, cli, tests>> /\ book' = book + 1
      /\ book < Len(Positions)
  BY DEF ChangeBook
<1>2. book \in Nat /\ book' \in 1..Len(Positions) /\ book' \in Nat
  BY <1>1, IntakeAssumption, EditionsAreCounted DEF IntakeInv, IntakeType
<1>3. /\ cache \in Counts /\ cache.stamp <= book
      /\ \A u \in Users : /\ request[u] \in Requests /\ request[u].stamp <= book
                          /\ RequestHolds(u) /\ CliHolds(u)
  BY Zenon DEF IntakeInv, IntakeType, CacheHolds, RequestHolds
<1>4. IntakeType' /\ QueuedHasItsPositions'
  BY <1>1, <1>2 DEF IntakeInv, IntakeType, QueuedHasItsPositions
<1>5. CacheHolds'
  BY <1>1, <1>2, <1>3 DEF CacheHolds, Counts
<1>6. \A u \in Users : RequestHolds(u)' /\ CliHolds(u)'
  BY <1>1, <1>2, <1>3 DEF RequestHolds, CliHolds, Requests
<1>7. RowsInOrder'
  <2>1. \A u \in Users : Early(u)' => Early(u)
    BY <1>1 DEF Early
  <2>2. QED
    BY <1>1, <2>1, RowsStayInOrder
<1>8. SmokeHolds'
  BY <1>1, Zenon DEF IntakeInv, SmokeHolds
<1>9. QED
  BY <1>4, <1>5, <1>6, <1>7, <1>8 DEF IntakeInv

\* Every act begins with an empty table and a process that has just started.
LEMMA IntakeBegins ==
    ASSUME IntakeInit
    PROVE  IntakeInv
<1>1. /\ stop = FALSE /\ pending = TRUE /\ smoke = At("loop") /\ book = 1 /\ cache = NoCount
      /\ request = [u \in Users |-> NoRequest]
      /\ cli = [u \in Users |-> [at |-> "ready", id |-> 0]]
      /\ tests = [t \in Tests |-> NoTest]
  BY Zenon DEF IntakeInit
<1>2. smoke \in Smokes /\ smoke.at = "loop" /\ smoke.log = "none"
  BY <1>1, Places, Zenon DEF SmokeAts
<1>3. /\ NoRequest \in Requests /\ NoRequest.at = "none" /\ NoRequest.stamp = 0
      /\ cache \in Counts /\ cache.stamp = 0
      /\ NoTest \in Rows /\ NoTest.status = "absent"
  BY <1>1 DEF NoRequest, Requests, RequestAts, NoCount, Counts, NoTest, Rows
<1>4. /\ request \in [Users -> Requests] /\ \A u \in Users : request[u] = NoRequest
      /\ tests \in [Tests -> Rows] /\ \A t \in Tests : tests[t] = NoTest
  BY <1>1, <1>3
<1>5. cli \in [Users -> Clis] /\ \A u \in Users : cli[u].at = "ready"
  BY <1>1 DEF Clis
<1>6. IntakeType
  <2>1. stop \in BOOLEAN /\ pending \in BOOLEAN
    BY <1>1, Zenon
  <2>2. QED
    BY <1>1, <1>2, <1>3, <1>4, <1>5, <2>1, IntakeAssumption DEF IntakeType
<1>7. \A u \in Users : RequestHolds(u) /\ CliHolds(u)
  BY <1>1, <1>3, <1>4, <1>5 DEF RequestHolds, CliHolds, RequestAts
<1>8. RowsInOrder
  <2>1. {u \in Users : Early(u)} = Users
    BY <1>5 DEF Early
  <2>2. 0 \in 0..Cardinality(Users) /\ 0 + Cardinality(Users) <= Cardinality(Users)
    BY TestsAreNumbers
  <2>3. \A t \in Tests : tests[t].status = "absent" <=> t > 0
    BY <1>3, <1>4, TestsAreNumbers
  <2>4. QED
    BY <2>1, <2>2, <2>3 DEF RowsInOrder
<1>9. CacheHolds /\ SmokeHolds /\ QueuedHasItsPositions
  BY <1>1, <1>2, <1>3, <1>4 DEF CacheHolds, SmokeHolds, QueuedHasItsPositions
<1>10. QED
  BY <1>6, <1>7, <1>8, <1>9 DEF IntakeInv

-----------------------------------------------------------------------------
(* The first act as a whole. *)

LEMMA IntakeStep ==
    ASSUME IntakeInv, IntakeNext
    PROVE  IntakeInv'
<1>1. CASE \E u \in Users : \E o \in Options[u] : Submit(u, o)
  BY <1>1, SubmitKeeps, Zenon
<1>2. CASE \E u \in Users : NoAnswer(u) \/ Poll(u) \/ HandlerStep(u)
  <2>1. PICK u \in Users : NoAnswer(u) \/ Poll(u) \/ HandlerStep(u)
    BY <1>2, Zenon
  <2>2. CASE NoAnswer(u) \/ Poll(u)
    BY <2>2, ProgramKeeps, Zenon
  <2>3. CASE HandlerStep(u)
    BY <2>3, CountingKeeps, ResolveKeeps, InsertKeeps, NotifyKeeps, Zenon DEF HandlerStep
  <2>4. QED
    BY <2>1, <2>2, <2>3, Zenon
<1>3. CASE \E t \in Tests : StopValidating(t)
  BY <1>3, StopKeeps, Zenon
<1>4. CASE SmokeStep \/ SmokeError
  <2>1. CASE Look \/ FallAsleep \/ WaitEnds \/ SmokeError \/ SmokeEnds
    BY <2>1, LookKeeps, Zenon
  <2>2. CASE Pick \/ BuildBoth \/ Sample \/ Decide \/ Judge
    BY <2>2, PickKeeps, BuildKeeps, SampleKeeps, DecideKeeps, JudgeKeeps, Zenon
  <2>3. QED
    BY <1>4, <2>1, <2>2, Zenon DEF SmokeStep
<1>5. CASE ServerStep \/ Signal \/ Crash
  <2>1. CASE Signal \/ SetStop \/ NotifyStop
    BY <2>1, SignalKeeps, Zenon
  <2>2. CASE Start
    BY <2>2, StartKeeps, Zenon
  <2>3. CASE Exit \/ Crash
    <3>1. Gone /\ UNCHANGED <<book, cli, tests>>
      BY <2>3, Zenon DEF Exit, Crash
    <3>2. QED
      BY <3>1, GoneKeeps, Zenon
  <2>4. QED
    BY <1>5, <2>1, <2>2, <2>3, Zenon DEF ServerStep
<1>6. CASE ChangeBook
  BY <1>6, BookKeeps, Zenon
<1>7. QED
  BY <1>1, <1>2, <1>3, <1>4, <1>5, <1>6, Zenon DEF IntakeNext

\* Nothing of the first act moves.
LEMMA IntakeRests ==
    ASSUME IntakeInv, UNCHANGED intakeVars
    PROVE  IntakeInv'
<1>1. UNCHANGED <<stop, book, cache, request, cli, tests, pending, smoke>>
  BY Zenon DEF intakeVars
<1>2. pending' \in BOOLEAN /\ smoke' \in Smokes /\ SmokeHolds'
  BY <1>1, Zenon DEF IntakeInv, IntakeType, SmokeHolds
<1>3. QED
  BY <1>1, <1>2, OnlySmokeMoves, Zenon

LEMMA IntakeStarts == IntakeInit => IntakeInv
BY IntakeBegins

LEMMA CurtainRisesOnNothing == CurtainRises => IntakeInit'
BY DEF CurtainRises, IntakeInit

\* The invariant of the first act holds in both: the second one begins with a
\* table that is empty again and leaves it alone.
LEMMA IntakeInvHolds == Spec => []IntakeInv
<1>1. Init => IntakeInv
  BY IntakeStarts DEF Init
<1>2. IntakeInit' => IntakeInv'
  BY IntakeStarts, PTL
<1>3. IntakeInv /\ [Next]_vars => IntakeInv'
  <2> SUFFICES ASSUME IntakeInv, [Next]_vars PROVE IntakeInv'
    OBVIOUS
  <2>1. CASE IntakeNext
    BY <2>1, IntakeStep
  <2>2. CASE CurtainRises
    BY <1>2, <2>2, CurtainRisesOnNothing
  <2>3. CASE UNCHANGED intakeVars
    BY <2>3, IntakeRests
  <2>4. IntakeNext \/ CurtainRises \/ UNCHANGED intakeVars
    BY Zenon DEF Next, Intake, Play, vars
  <2>5. QED
    BY <2>1, <2>2, <2>3, <2>4
<1>4. QED
  BY <1>1, <1>3, PTL DEF Spec

\* What the checks of the body let through, the table takes, for every body and
\* whatever the other requests do meanwhile (parse_test_spec, insert_test).
THEOREM AcceptedTestsAreStored == Spec => []AcceptedIsStored
<1>1. IntakeInv => AcceptedIsStored
  <2> SUFFICES ASSUME IntakeInv, NEW u \in Users, request[u].at = "insert"
               PROVE  SpecIsStorable(u)
    BY DEF AcceptedIsStored
  <2>1. Storable(request[u].spec, "candidate", "baseline") /\ ~request[u].same
    BY DEF IntakeInv, RequestHolds, RequestAts
  <2>2. QED
    BY <2>1, Zenon DEF SpecIsStorable
<1>2. QED
  BY <1>1, IntakeInvHolds, PTL

\* The cached count of a book is the count of the file it is used for, however
\* often the file is replaced while requests count it (count_book_positions).
THEOREM TheCacheIsCurrent == Spec => []CacheIsCurrent
<1>1. IntakeInv => CacheIsCurrent
  BY DEF IntakeInv, CacheHolds, CacheIsCurrent
<1>2. QED
  BY <1>1, IntakeInvHolds, PTL

\* A test never waits in the queue with fewer positions than it asked for
\* (sample_book, process_next).
THEOREM QueuedTestsAreComplete == Spec => []QueuedHasItsPositions
<1>1. IntakeInv => QueuedHasItsPositions
  BY DEF IntakeInv
<1>2. QED
  BY <1>1, IntakeInvHolds, PTL

\* The exit code of `capi_net submit --wait` is the verdict, for good
\* (cmd_submit, cmd_validation).
THEOREM ExitCodesAreVerdicts == Spec => []CliExitIsVerdict
<1>1. IntakeInv => CliExitIsVerdict
  <2> SUFFICES ASSUME IntakeInv, NEW u \in Users
               PROVE  /\ cli[u].at = "ok" => tests[cli[u].id].status
                                               \notin {"absent", "validating", "invalid"}
                      /\ cli[u].at = "failed" => tests[cli[u].id].status = "invalid"
    BY DEF CliExitIsVerdict
  <2>1. CliHolds(u)
    BY DEF IntakeInv
  <2>2. QED
    BY <2>1 DEF CliHolds
<1>2. QED
  BY <1>1, IntakeInvHolds, PTL

\* Only the last transaction of the worker makes a test invalid, and only with a
\* failure of its own in the log: never for a build that the shutdown cancelled
\* (process_next).
THEOREM ShutdownsAreNoVerdicts == Spec => ShutdownIsNoVerdict
<1>1. IntakeInv /\ [Next]_vars =>
        [\A t \in Tests : tests[t].status = "validating" /\ tests'[t].status = "invalid" =>
           smoke.log = "failed"]_intakeVars
  <2> SUFFICES ASSUME IntakeInv, [Next]_vars, NEW t \in Tests,
                      tests[t].status = "validating", tests'[t].status = "invalid"
               PROVE  smoke.log = "failed"
    OBVIOUS
  <2>1. tests' # tests
    BY Zenon
  <2>2. CASE Judge
    BY <2>2, JudgeKeeps, Zenon
  <2>3. CASE CurtainRises
    BY <2>3 DEF CurtainRises, NoTest
  <2>4. CASE StopValidating(t)
    BY <2>4 DEF StopValidating, IntakeInv, IntakeType, Rows
  <2>5. ASSUME NEW v \in Tests \ {t}, StopValidating(v) PROVE FALSE
    BY <2>5 DEF StopValidating, IntakeInv, IntakeType, Rows
  <2>6. ASSUME NEW u \in Users, InsertTest(u) PROVE FALSE
    <3>1. PICK id \in Tests : /\ \A v \in Tests : tests[v].status = "absent" <=> v >= id
                              /\ tests' = [tests EXCEPT ![id] = Row(u)]
      BY <2>1, <2>6, InsertsRow, Zenon
    <3>2. tests'[t] = tests[t] \/ tests'[t] = Row(u)
      BY <3>1 DEF IntakeInv, IntakeType
    <3>3. QED
      BY <3>2 DEF Row
  <2>7. QED
    <3>1. \/ Judge \/ CurtainRises \/ \E v \in Tests : StopValidating(v)
          \/ \E u \in Users : InsertTest(u)
      BY <2>1, Zenon DEF Next, Intake, Play, vars, intakeVars, IntakeNext, Submit, NoAnswer, Poll,
         HandlerStep, Stat, Lookup, Count, Store, Resolve, NotifySmoke, SmokeStep, Look, FallAsleep,
         WaitEnds, Pick, BuildBoth, Sample, Decide, SmokeError, SmokeEnds, Signal, ServerStep,
         SetStop, NotifyStop, Exit, Crash, Start, ChangeBook
    <3>2. QED
      BY <2>2, <2>3, <2>4, <2>5, <2>6, <3>1
<1>2. QED
  BY <1>1, IntakeInvHolds, PTL DEF Spec, ShutdownIsNoVerdict

-----------------------------------------------------------------------------
(* The second act stores and downloads as module PgnExport does. *)

Pairs == UNION {[1..n -> Games] : n \in 0..2}
Validity == [1..2 -> BOOLEAN] \cup {<<>>}
SlotWorks == [at : {"free", "reporting", "first", "second", "commit"}, pair : Pairs \cup {Missing},
           valid : Validity]

SlotsInv ==
    /\ slot \in [Sessions -> SlotWorks]
    /\ \A s \in Sessions :
         /\ slot[s].at = "reporting" => slot[s].pair \in Pairs
         /\ slot[s].at \in {"first", "second", "commit"} => slot[s].valid \in [1..2 -> BOOLEAN]

LEMMA ChecksAreBoolean ==
    ASSUME NEW body
    PROVE  CheckPair(body) \in [1..2 -> BOOLEAN]
<1>1. \A i \in 1..2 : (CheckGame(body[i]) /\ body[1].white # body[2].white) \in BOOLEAN
  BY Zenon
<1> HIDE DEF CheckGame
<1>2. QED
  BY <1>1, Zenon DEF CheckPair

LEMMA SlotFields ==
    ASSUME NEW p \in SlotWorks, NEW pair \in Pairs, NEW valid \in [1..2 -> BOOLEAN],
           NEW place \in {"first", "second", "commit"}
    PROVE  /\ [at |-> "reporting", pair |-> pair, valid |-> <<>>] \in SlotWorks
           /\ [at |-> "first", pair |-> Missing, valid |-> valid] \in SlotWorks
           /\ NoPlay \in SlotWorks /\ NoPlay.at = "free"
           /\ [p EXCEPT !.at = place] \in SlotWorks /\ [p EXCEPT !.at = place].at = place
           /\ [p EXCEPT !.at = place].valid = p.valid
BY DEF SlotWorks, Validity, NoPlay

\* A slot takes the record p for what it is doing.
LEMMA SlotMovesOn ==
    ASSUME SlotsInv, NEW s \in Sessions, NEW p \in SlotWorks, slot' = [slot EXCEPT ![s] = p],
           p.at = "reporting" => p.pair \in Pairs,
           p.at \in {"first", "second", "commit"} => p.valid \in [1..2 -> BOOLEAN]
    PROVE  SlotsInv'
<1>1. /\ slot' \in [Sessions -> SlotWorks] /\ slot'[s] = p
      /\ \A r \in Sessions \ {s} : slot'[r] = slot[r]
  BY DEF SlotsInv
<1>2. QED
  BY <1>1, Zenon DEF SlotsInv

LEMMA PlayingKeeps ==
    ASSUME SlotsInv, NEW s \in Sessions, PlayPair(s)
    PROVE  SlotsInv' /\ UNCHANGED exportVars
<1>1. PICK pair \in Pairs :
        slot' = [slot EXCEPT ![s] = [at |-> "reporting", pair |-> pair, valid |-> <<>>]]
  <2>1. PICK written \in 0..2 : \E pair \in [1..written -> Games] :
          slot' = [slot EXCEPT ![s] = [at |-> "reporting", pair |-> pair, valid |-> <<>>]]
    BY Zenon DEF PlayPair
  <2>2. [1..written -> Games] \subseteq Pairs
    BY Zenon DEF Pairs
  <2>3. QED
    BY <2>1, <2>2, Zenon
<1> DEFINE p == [at |-> "reporting", pair |-> pair, valid |-> <<>>]
<1>2. p \in SlotWorks /\ p.at = "reporting" /\ p.pair = pair
  BY DEF SlotWorks, Validity
<1>3. slot' = [slot EXCEPT ![s] = p]
  BY <1>1, Zenon
<1> HIDE DEF p
<1>4. SlotsInv'
  BY <1>2, <1>3, SlotMovesOn
<1>5. QED
  BY <1>4, Zenon DEF PlayPair

LEMMA SendingKeeps ==
    ASSUME SlotsInv, NEW s \in Sessions, Send(s)
    PROVE  SlotsInv' /\ UNCHANGED exportVars
<1> DEFINE body == MakeResultBody(Pgn(slot[s].pair))
           p == [at |-> "first", pair |-> Missing, valid |-> CheckPair(body)]
<1>1. slot' = [slot EXCEPT ![s] = IF Taken(body) THEN p ELSE NoPlay] /\ UNCHANGED exportVars
  BY Zenon DEF Send
<1>2. CheckPair(body) \in [1..2 -> BOOLEAN]
  BY ChecksAreBoolean
<1> HIDE DEF body
<1>3. p \in SlotWorks /\ p.at = "first" /\ p.valid \in [1..2 -> BOOLEAN]
  <2>1. ASSUME NEW valid \in [1..2 -> BOOLEAN]
        PROVE  LET q == [at |-> "first", pair |-> Missing, valid |-> valid]
               IN q \in SlotWorks /\ q.at = "first" /\ q.valid = valid
    BY DEF SlotWorks, Validity
  <2>2. QED
    BY <1>2, <2>1, Zenon
<1>4. NoPlay \in SlotWorks /\ NoPlay.at = "free"
  BY DEF NoPlay, SlotWorks, Validity
<1> HIDE DEF p
<1>5. CASE Taken(body)
  <2>1. slot' = [slot EXCEPT ![s] = p]
    BY <1>1, <1>5, Zenon
  <2>2. QED
    BY <1>1, <1>3, <2>1, SlotMovesOn
<1>6. CASE ~Taken(body)
  <2>1. slot' = [slot EXCEPT ![s] = NoPlay]
    BY <1>1, <1>6, Zenon
  <2>2. QED
    BY <1>1, <1>4, <2>1, SlotMovesOn
<1>7. QED
  BY <1>5, <1>6

LEMMA InsertingKeeps ==
    ASSUME SlotsInv, NEW s \in Sessions, Insert(s)
    PROVE  SlotsInv' /\ \E valid \in BOOLEAN : InsertGame(s, valid)
<1>1. /\ slot[s].at \in {"first", "second"} /\ slot[s] \in SlotWorks
      /\ slot[s].valid \in [1..2 -> BOOLEAN]
  BY Zenon DEF Insert, SlotsInv
<1>2. PICK place \in {"second", "commit"} : slot' = [slot EXCEPT ![s] = [slot[s] EXCEPT !.at = place]]
  BY <1>1, Zenon DEF Insert
<1> DEFINE p == [slot[s] EXCEPT !.at = place]
<1>3. p \in SlotWorks /\ p.at = place /\ p.valid = slot[s].valid
  BY <1>1 DEF SlotWorks
<1>4. slot' = [slot EXCEPT ![s] = p]
  BY <1>2, Zenon
<1> HIDE DEF p
<1>5. SlotsInv'
  BY <1>1, <1>3, <1>4, SlotMovesOn
<1>6. PICK i \in 1..2 : InsertGame(s, slot[s].valid[i])
  <2>1. 1 \in 1..2 /\ 2 \in 1..2
    OBVIOUS
  <2>2. QED
    BY <2>1, Zenon DEF Insert
<1>7. slot[s].valid[i] \in BOOLEAN
  BY <1>1
<1>8. QED
  BY <1>5, <1>6, <1>7, Zenon

LEMMA EndingKeeps ==
    ASSUME SlotsInv, NEW s \in Sessions, Commit(s) \/ SendAgain(s)
    PROVE  SlotsInv' /\ (CommitGames(s) \/ RollBack(s))
<1>1. CASE Commit(s)
  <2>1. NoPlay \in SlotWorks /\ NoPlay.at = "free"
    BY DEF NoPlay, SlotWorks, Validity
  <2>2. slot' = [slot EXCEPT ![s] = NoPlay] /\ CommitGames(s)
    BY <1>1, Zenon DEF Commit
  <2>3. QED
    BY <2>1, <2>2, SlotMovesOn
<1>2. CASE SendAgain(s)
  <2> DEFINE p == [slot[s] EXCEPT !.at = "first"]
  <2>1. /\ slot[s].at \in {"second", "commit"} /\ slot[s] \in SlotWorks
        /\ slot[s].valid \in [1..2 -> BOOLEAN]
    BY <1>2, Zenon DEF SendAgain, SlotsInv
  <2>2. p \in SlotWorks /\ p.at = "first" /\ p.valid = slot[s].valid
    BY <2>1 DEF SlotWorks
  <2>3. slot' = [slot EXCEPT ![s] = p] /\ RollBack(s)
    BY <1>2, Zenon DEF SendAgain
  <2> HIDE DEF p
  <2>4. QED
    BY <2>1, <2>2, <2>3, SlotMovesOn
<1>3. QED
  BY <1>1, <1>2

\* Every step of the story is one of the slots' and of the export, or leaves them.
LEMMA StoryStep ==
    ASSUME SlotsInv, [Next]_vars
    PROVE  SlotsInv' /\ [ExportNext]_exportVars
<1>1. CASE UNCHANGED <<slot, exportVars>>
  BY <1>1, Zenon DEF SlotsInv
<1>2. ASSUME NEW s \in Sessions, PlayPair(s) \/ Send(s) \/ Insert(s) \/ Commit(s) \/ SendAgain(s)
      PROVE  SlotsInv' /\ [ExportNext]_exportVars
  <2>1. CASE PlayPair(s) \/ Send(s)
    BY <2>1, PlayingKeeps, SendingKeeps, Zenon
  <2>2. CASE Insert(s)
    BY <2>2, InsertingKeeps, Zenon DEF ExportNext
  <2>3. CASE Commit(s) \/ SendAgain(s)
    BY <2>3, EndingKeeps, Zenon DEF ExportNext
  <2>4. QED
    BY <1>2, <2>1, <2>2, <2>3
<1>3. CASE Download /\ UNCHANGED reportVars
  BY <1>3, Zenon DEF ExportNext, SlotsInv, reportVars
<1>4. CASE Play
  <2>1. \/ UNCHANGED <<slot, exportVars>>
        \/ \E s \in Slots : PlayPair(s) \/ Send(s) \/ Insert(s) \/ Commit(s) \/ SendAgain(s)
        \/ Download /\ UNCHANGED reportVars
    BY <1>4, Zenon DEF Play, Plays, DownloadsOne, reportVars
  <2>2. Slots \subseteq Sessions
    BY Zenon DEF Slots
  <2>3. QED
    BY <1>1, <1>2, <1>3, <2>1, <2>2, Zenon
<1>5. UNCHANGED <<slot, exportVars>> \/ Play
  BY Zenon DEF Next, Intake, CurtainRises, playVars, reportVars, vars
<1>6. QED
  BY <1>1, <1>4, <1>5

LEMMA SlotsHold == Spec => []SlotsInv
<1>1. Init => SlotsInv
  <2>1. NoPlay \in SlotWorks /\ NoPlay.at = "free"
    BY DEF NoPlay, SlotWorks, Validity
  <2>2. QED
    BY <2>1 DEF Init, ReportInit, SlotsInv
<1>2. SlotsInv /\ [Next]_vars => SlotsInv'
  BY StoryStep
<1>3. QED
  BY <1>1, <1>2, PTL DEF Spec

\* What the clients of a test and its readers do is what module PgnExport says
\* of any sessions and readers: the story implements it (submit_result,
\* register_web_routes).
THEOREM TheStoryExports == Spec => ExportSpec
<1>1. Init => ExportInit
  BY DEF Init, ReportInit
<1>2. SlotsInv /\ [Next]_vars => [ExportNext]_exportVars
  BY StoryStep
<1>3. QED
  BY <1>1, <1>2, SlotsHold, PTL DEF Spec, ExportSpec

\* So every download of the story that ends is whole.
THEOREM DownloadsOfTheStoryAreWhole == Spec => []ExportIsWhole
BY TheStoryExports, DownloadsAreWhole, PTL

-----------------------------------------------------------------------------
(* A pair counts for what was played. *)

\* What a PGN tells of a game.
LEMMA GameIsTold ==
    ASSUME NEW game \in Games, NEW white \in Engines, NEW text, text = Text(game, white)
    PROVE  /\ Readable(text) <=> game.ending # "unterminated"
           /\ CandidateIsWhite(text) <=> white = "candidate"
           /\ Outcome(text) \in Outcomes
           /\ Readable(text) => Points(Outcome(text)) = HalfPoints(game)
           /\ text.termination = game.ending /\ text.plies = game.plies
           /\ text.seconds = game.duration \div 1000
<1> DEFINE result == IF game.ending = "unterminated" THEN "none"
                     ELSE IF game.winner = "none" THEN "draw"
                     ELSE IF game.winner = white THEN "white" ELSE "black"
           black == CHOOSE e \in Engines : e # white
<1>1. /\ text.white = white /\ text.black = black /\ text.result = result
      /\ text.termination = game.ending /\ text.plies = game.plies
      /\ text.seconds = game.duration \div 1000
  BY DEF Text
<1>2. black \in Engines /\ black # white
  BY DEF Engines
<1>3. game.winner \in {"candidate", "baseline", "none"}
  BY GamesAssumption DEF Engines
<1>4. Readable(text) <=> game.ending # "unterminated"
  <2>1. "candidate" \in {text.white, text.black}
    BY <1>1, <1>2 DEF Engines
  <2>2. result \in {"white", "black", "draw"} <=> game.ending # "unterminated"
    OBVIOUS
  <2> HIDE DEF result
  <2>3. QED
    BY <1>1, <2>1, <2>2, Zenon DEF Readable
<1>5. CandidateIsWhite(text) <=> white = "candidate"
  <2>1. text.white = white
    BY <1>1
  <2>2. QED
    BY <2>1 DEF CandidateIsWhite
<1>6. Outcome(text) =
        IF result = "draw" THEN "draw"
        ELSE IF result = "white" <=> white = "candidate" THEN "candidate_win" ELSE "candidate_loss"
  <2>1. (text.result = "white") = CandidateIsWhite(text) <=>
          (result = "white" <=> white = "candidate")
    BY <1>1 DEF CandidateIsWhite
  <2> HIDE DEF result
  <2>2. CASE result = "draw"
    BY <1>1, <2>2, Zenon DEF Outcome
  <2>3. CASE result # "draw"
    <3>1. CASE result = "white" <=> white = "candidate"
      BY <1>1, <2>1, <2>3, <3>1, Zenon DEF Outcome
    <3>2. CASE ~(result = "white" <=> white = "candidate")
      BY <1>1, <2>1, <2>3, <3>2, Zenon DEF Outcome
    <3>3. QED
      BY <3>1, <3>2
  <2>4. QED
    BY <2>2, <2>3
<1>7. Outcome(text) \in Outcomes
  BY <1>6 DEF Outcomes
<1>8. ASSUME game.ending # "unterminated" PROVE Points(Outcome(text)) = HalfPoints(game)
  BY <1>2, <1>3, <1>6, <1>8 DEF Points, HalfPoints, Engines
<1>9. QED
  BY <1>1, <1>4, <1>5, <1>7, <1>8, Zenon

\* What the client reports of a game that it could read is taken, and valid just
\* when the game was fair.
LEMMA GameIsChecked ==
    ASSUME NEW game \in Games, game.ending # "unterminated", NEW rec,
           rec.termination = MapTermination(game.ending), rec.plies = game.plies,
           rec.duration = ParseDuration(game.duration \div 1000)
    PROVE  /\ rec.termination \in Terminations
           /\ rec.plies = Missing \/ rec.plies >= 0
           /\ rec.duration = Missing \/ rec.duration >= 0
           /\ CheckGame(rec) <=> Fair(game)
<1>1. /\ game.ending \in Endings /\ game.plies \in Nat \cup {Missing} /\ game.duration \in Nat
      /\ LongestGame \in Nat /\ MaxPlyCount \in Nat
      /\ Missing \notin Nat /\ Missing \notin Endings
  BY GamesAssumption
<1>2. Told(game) \in Nat /\ Told(game) = 1000 * (game.duration \div 1000)
  BY <1>1 DEF Told
<1>3. rec.duration = IF Told(game) > LongestGame THEN Missing ELSE Told(game)
  BY <1>2 DEF ParseDuration
<1>4. /\ rec.termination \in Terminations
      /\ rec.termination \notin {"crash", "illegal_move"} <=>
           game.ending \in {"normal", "time_forfeit", "adjudication"}
  BY <1>1 DEF MapTermination, Terminations, Endings
<1>5. /\ rec.plies = Missing \/ rec.plies >= 0
      /\ rec.duration = Missing \/ rec.duration >= 0
  BY <1>1, <1>2, <1>3
<1> HIDE DEF Told
<1>6. /\ rec.plies # Missing /\ rec.plies \in 1..MaxPlyCount <=>
           game.plies # Missing /\ game.plies > 0 /\ game.plies <= MaxPlyCount
      /\ rec.duration # Missing <=> Told(game) <= LongestGame
      /\ rec.duration # Missing => rec.duration = Told(game)
  BY <1>1, <1>2, <1>3
<1>7. CheckGame(rec) <=> Fair(game)
  <2>1. MaxPlausibleDuration(rec.plies) = MaxPlausibleDuration(game.plies)
    BY Zenon
  <2> HIDE DEF MaxPlausibleDuration
  <2>2. CheckGame(rec) <=>
          /\ game.ending \in {"normal", "time_forfeit", "adjudication"}
          /\ game.plies # Missing /\ game.plies > 0 /\ game.plies <= MaxPlyCount
          /\ Told(game) <= LongestGame /\ Told(game) <= MaxPlausibleDuration(game.plies)
    <3>1. CASE Told(game) <= LongestGame
      BY <1>4, <1>6, <2>1, <3>1 DEF CheckGame
    <3>2. CASE ~(Told(game) <= LongestGame)
      BY <1>6, <3>2, Zenon DEF CheckGame
    <3>3. QED
      BY <3>1, <3>2
  <2>3. QED
    BY <2>2, Zenon DEF Fair
<1>8. QED
  BY <1>4, <1>5, <1>7

\* The games that were written, and where in the pair they stand.
LEMMA PgnOfPair ==
    ASSUME NEW n \in 0..2, NEW pair \in [1..n -> Games]
    PROVE  /\ Len(pair) = n /\ Len(Pgn(pair)) = n
           /\ 1 <= n => Pgn(pair)[1] = Text(pair[1], "candidate") /\ pair[1] \in Games
           /\ 2 <= n => Pgn(pair)[2] = Text(pair[2], "baseline") /\ pair[2] \in Games
<1>1. Len(pair) = n
  OBVIOUS
<1>2. Pgn(pair) = [i \in 1..n |-> Text(pair[i], IF i = 1 THEN "candidate" ELSE "baseline")]
  BY <1>1, Zenon DEF Pgn
<1> HIDE DEF Pgn, Text
<1>3. Len(Pgn(pair)) = n
  BY <1>2 DEF Text
<1>4. QED
  BY <1>1, <1>2, <1>3

Written(pair, n, i) == i <= n /\ pair[i].ending # "unterminated"
Reports(pair, n, i, rec) ==
    /\ Written(pair, n, i) =>
         /\ pair[i] \in Games
         /\ rec.termination = MapTermination(pair[i].ending) /\ rec.plies = pair[i].plies
         /\ rec.duration = ParseDuration(pair[i].duration \div 1000)
         /\ rec.white = (i = 1) /\ rec.outcome \in Outcomes
         /\ Points(rec.outcome) = HalfPoints(pair[i])
    /\ ~Written(pair, n, i) => /\ rec.outcome = "draw" /\ rec.termination = "crash"
                               /\ rec.plies = Missing /\ rec.duration = Missing

LEMMA MissingCrashes ==
    ASSUME NEW pair, NEW n, NEW i, NEW rec, Reports(pair, n, i, rec), ~Written(pair, n, i)
    PROVE  /\ rec.outcome = "draw" /\ rec.termination = "crash"
           /\ rec.plies = Missing /\ rec.duration = Missing
BY Zenon DEF Reports

\* The report of one of the two games.
LEMMA GameIsReported ==
    ASSUME NEW n \in 0..2, NEW pair \in [1..n -> Games], NEW i \in 1..2, NEW rec,
           rec = Reported(Pgn(pair), i)
    PROVE  Reports(pair, n, i, rec)
<1> DEFINE pgn == Pgn(pair)
           colour == IF i = 1 THEN "candidate" ELSE "baseline"
           there == i <= Len(pgn) /\ Readable(pgn[i])
<1>1. /\ Len(pgn) = n
      /\ i <= n => pgn[i] = Text(pair[i], colour) /\ pair[i] \in Games
  <2>1. i = 1 \/ i = 2
    OBVIOUS
  <2>2. QED
    BY <2>1, PgnOfPair
<1>2. colour \in Engines /\ (colour = "candidate" <=> i = 1)
  BY DEF Engines
<1> HIDE DEF colour, pgn
<1>3. ASSUME i <= n
      PROVE  /\ Readable(pgn[i]) <=> pair[i].ending # "unterminated"
             /\ CandidateIsWhite(pgn[i]) <=> colour = "candidate"
             /\ Outcome(pgn[i]) \in Outcomes
             /\ Readable(pgn[i]) => Points(Outcome(pgn[i])) = HalfPoints(pair[i])
             /\ pgn[i].termination = pair[i].ending /\ pgn[i].plies = pair[i].plies
             /\ pgn[i].seconds = pair[i].duration \div 1000
  <2>1. pgn[i] = Text(pair[i], colour) /\ pair[i] \in Games
    BY <1>1, <1>3
  <2>2. QED
    BY <1>2, <2>1, GameIsTold
<1>4. there <=> Written(pair, n, i)
  BY <1>1, <1>3, Zenon DEF Written
<1>5. ASSUME there
      PROVE  /\ rec.white = CandidateIsWhite(pgn[i]) /\ rec.outcome = Outcome(pgn[i])
             /\ rec.termination = MapTermination(pgn[i].termination)
             /\ rec.plies = pgn[i].plies /\ rec.duration = ParseDuration(pgn[i].seconds)
  BY <1>5, Zenon DEF Reported, pgn
<1>6. ASSUME ~there
      PROVE  /\ rec.outcome = "draw" /\ rec.termination = "crash"
             /\ rec.plies = Missing /\ rec.duration = Missing
  BY <1>6, Zenon DEF Reported, pgn
<1>7. ASSUME Written(pair, n, i) PROVE rec.white = (i = 1)
  <2>1. there /\ i <= n
    BY <1>4, <1>7, Zenon DEF Written
  <2>2. CandidateIsWhite(pgn[i]) <=> i = 1
    <3>1. CandidateIsWhite(pgn[i]) <=> colour = "candidate"
      BY <1>3, <2>1, Zenon
    <3>2. QED
      BY <1>2, <3>1, Zenon
  <2>3. CandidateIsWhite(pgn[i]) \in BOOLEAN /\ (i = 1) \in BOOLEAN
    BY Zenon DEF CandidateIsWhite
  <2>4. CandidateIsWhite(pgn[i]) = (i = 1)
    BY <2>2, <2>3, Zenon
  <2>5. QED
    BY <1>5, <2>1, <2>4, Zenon
<1>8. CASE Written(pair, n, i)
  <2>1. there /\ i <= n
    BY <1>4, <1>8, Zenon DEF Written
  <2>2. QED
    BY <1>1, <1>3, <1>5, <1>7, <1>8, <2>1 DEF Reports
<1>9. CASE ~Written(pair, n, i)
  BY <1>4, <1>6, <1>9, Zenon DEF Reports
<1>10. QED
  BY <1>8, <1>9

LEMMA PairCounts ==
    ASSUME NEW n \in 0..2, NEW pair \in [1..n -> Games], NEW body,
           body = MakeResultBody(Pgn(pair))
    PROVE  /\ Taken(body)
           /\ PairScore(body, CheckPair(body)) =
                IF Len(pair) = 2 /\ \A i \in 1..2 : Fair(pair[i])
                THEN HalfPoints(pair[1]) + HalfPoints(pair[2]) ELSE Missing
<1>1. \A i \in 1..2 : body[i] = Reported(Pgn(pair), i)
  BY Zenon DEF MakeResultBody
<1>2. \A i \in 1..2 : Reports(pair, n, i, body[i])
  BY <1>1, GameIsReported, Zenon
<1>3. ASSUME NEW i \in 1..2
      PROVE  /\ body[i].outcome \in Outcomes /\ body[i].termination \in Terminations
             /\ body[i].plies = Missing \/ body[i].plies >= 0
             /\ body[i].duration = Missing \/ body[i].duration >= 0
             /\ CheckGame(body[i]) <=> i <= n /\ Fair(pair[i])
             /\ i <= n /\ Fair(pair[i]) => /\ body[i].white = (i = 1)
                                           /\ Points(body[i].outcome) = HalfPoints(pair[i])
  <2>1. CASE Written(pair, n, i)
    <3>1. /\ pair[i] \in Games /\ pair[i].ending # "unterminated" /\ i <= n
          /\ body[i].termination = MapTermination(pair[i].ending)
          /\ body[i].plies = pair[i].plies
          /\ body[i].duration = ParseDuration(pair[i].duration \div 1000)
          /\ body[i].white = (i = 1) /\ body[i].outcome \in Outcomes
          /\ Points(body[i].outcome) = HalfPoints(pair[i])
      <4>1. pair[i].ending # "unterminated" /\ i <= n
        BY <2>1, Zenon DEF Written
      <4>2. QED
        BY <1>2, <2>1, <4>1 DEF Reports
    <3>2. /\ body[i].termination \in Terminations
          /\ body[i].plies = Missing \/ body[i].plies >= 0
          /\ body[i].duration = Missing \/ body[i].duration >= 0
          /\ CheckGame(body[i]) <=> Fair(pair[i])
      <4> DEFINE game == pair[i]
                 rec == body[i]
      <4>1. /\ game \in Games /\ game.ending # "unterminated"
            /\ rec.termination = MapTermination(game.ending) /\ rec.plies = game.plies
            /\ rec.duration = ParseDuration(game.duration \div 1000)
        BY <3>1, Zenon
      <4> HIDE DEF game, rec
      <4>2. /\ rec.termination \in Terminations
            /\ rec.plies = Missing \/ rec.plies >= 0
            /\ rec.duration = Missing \/ rec.duration >= 0
            /\ CheckGame(rec) <=> Fair(game)
        BY <4>1, GameIsChecked
      <4>3. QED
        BY <4>2, Zenon DEF game, rec
    <3>3. QED
      BY <3>1, <3>2, Zenon
  <2>2. CASE ~Written(pair, n, i)
    <3>1. /\ body[i].outcome = "draw" /\ body[i].termination = "crash"
          /\ body[i].plies = Missing /\ body[i].duration = Missing
      <4>1. Reports(pair, n, i, body[i])
        BY <1>2, Zenon
      <4>2. QED
        BY <2>2, <4>1, MissingCrashes, Zenon
    <3>2. ~CheckGame(body[i])
      BY <3>1, Zenon DEF CheckGame
    <3>3. ~(i <= n /\ Fair(pair[i]))
      BY <2>2 DEF Written, Fair
    <3>4. QED
      BY <3>1, <3>2, <3>3, Zenon DEF Outcomes, Terminations
  <2>3. QED
    BY <2>1, <2>2
<1>4. Taken(body)
  BY <1>3, Zenon DEF Taken
<1> DEFINE valid == CheckPair(body)
           both == n = 2 /\ \A i \in 1..2 : Fair(pair[i])
<1>5. \A i \in 1..2 : valid[i] <=> CheckGame(body[i]) /\ body[1].white # body[2].white
  BY Zenon DEF CheckPair
<1>6. 1 \in 1..2 /\ 2 \in 1..2 /\ (2 <= n <=> n = 2) /\ (2 <= n => 1 <= n)
  OBVIOUS
<1>7. Len(pair) = n
  BY PgnOfPair
<1> HIDE DEF valid
<1>8. CASE both
  <2>1. CheckGame(body[1]) /\ CheckGame(body[2]) /\ 1 <= n /\ 2 <= n
    BY <1>3, <1>6, <1>8, Zenon
  <2>2. /\ body[1].white = (1 = 1) /\ body[2].white = (2 = 1)
        /\ Points(body[1].outcome) = HalfPoints(pair[1])
        /\ Points(body[2].outcome) = HalfPoints(pair[2])
    BY <1>3, <1>6, <1>8, <2>1, Zenon
  <2>3. body[1].white # body[2].white
    <3>1. (1 = 1) /\ ~(2 = 1)
      OBVIOUS
    <3>2. (1 = 1) # (2 = 1)
      BY <3>1
    <3>3. QED
      BY <2>2, <3>2, Zenon
  <2>4. valid[1] /\ valid[2]
    BY <1>5, <1>6, <2>1, <2>3, Zenon
  <2>5. PairScore(body, valid) = HalfPoints(pair[1]) + HalfPoints(pair[2])
    BY <2>2, <2>4, Zenon DEF PairScore
  <2>6. QED
    BY <1>4, <1>7, <1>8, <2>5, Zenon DEF valid
<1>9. CASE ~both
  <2>1. ~(valid[1] /\ valid[2])
    <3>1. ASSUME valid[1], valid[2] PROVE both
      <4>1. 1 <= n /\ Fair(pair[1]) /\ 2 <= n /\ Fair(pair[2])
        BY <1>3, <1>5, <1>6, <3>1, Zenon
      <4>2. QED
        BY <1>6, <4>1
    <3>2. QED
      BY <1>9, <3>1
  <2>2. PairScore(body, valid) = Missing
    BY <2>1, Zenon DEF PairScore
  <2>3. QED
    BY <1>4, <1>7, <1>9, <2>2, Zenon DEF valid
<1>10. QED
  BY <1>8, <1>9

\* Every report is one the server takes, and the pair counts for what was played,
\* whatever happened in its games (make_result_body, check_pair, pair_outcomes).
THEOREM PairsCountAsPlayed == Spec => []CountedAsPlayed
<1>1. SlotsInv => CountedAsPlayed
  <2> SUFFICES ASSUME SlotsInv, NEW s \in Sessions, slot[s].at = "reporting"
               PROVE  LET pair == slot[s].pair
                          body == MakeResultBody(Pgn(pair))
                      IN /\ Taken(body)
                         /\ PairScore(body, CheckPair(body)) =
                              IF Len(pair) = 2 /\ \A i \in 1..2 : Fair(pair[i])
                              THEN HalfPoints(pair[1]) + HalfPoints(pair[2]) ELSE Missing
    BY Zenon DEF CountedAsPlayed
  <2>1. PICK n \in 0..2 : slot[s].pair \in [1..n -> Games]
    BY Zenon DEF SlotsInv, Pairs
  <2>2. QED
    BY <2>1, PairCounts, Zenon
<1>2. QED
  BY <1>1, SlotsHold, PTL
-----------------------------------------------------------------------------
(***************************************************************************)
(* The computer of a client.                                               *)
(***************************************************************************)
LEMMA Processors ==
    ASSUME NEW m \in Machines
    PROVE  /\ FastCores(m) \subseteq Fastest(m) /\ Fastest(m) \subseteq Online(m)
           /\ Online(m) \subseteq DOMAIN m.cpu /\ Online(m) \subseteq Nat
           /\ IsFiniteSet(Online(m)) /\ Cardinality(Online(m)) \in Nat
           /\ IsFiniteSet(FastCores(m)) /\ Cardinality(FastCores(m)) \in Nat
<1>1. FastCores(m) \subseteq Fastest(m) /\ Fastest(m) \subseteq Online(m)
  BY DEF FastCores, Fastest
<1>2. Online(m) \subseteq DOMAIN m.cpu /\ Online(m) \subseteq Nat /\ IsFiniteSet(DOMAIN m.cpu)
  BY HostAssumption DEF Online
<1>3. IsFiniteSet(Online(m)) /\ IsFiniteSet(FastCores(m))
  BY <1>1, <1>2, FS_Subset
<1>4. QED
  BY <1>1, <1>2, <1>3, FS_CardinalityType

\* Each of the fast cores is on a physical core of its own.
LEMMA OneThreadPerCore ==
    ASSUME NEW m \in Machines, NEW S \in SUBSET FastCores(m)
    PROVE  /\ IsFiniteSet({m.cpu[c].core : c \in S})
           /\ Cardinality({m.cpu[c].core : c \in S}) = Cardinality(S)
<1> DEFINE T == {m.cpu[c].core : c \in S}
           f == [c \in S |-> m.cpu[c].core]
<1>1. ASSUME NEW c \in S, NEW d \in S, m.cpu[c].core = m.cpu[d].core PROVE c = d
  <2>1. c \in Nat /\ d \in Nat /\ c \in Fastest(m) /\ d \in Fastest(m)
    BY Processors
  <2>2. c <= d /\ d <= c
    BY <1>1, <2>1 DEF FastCores
  <2>3. QED
    BY <2>1, <2>2
<1>2. f \in [S -> T] /\ (\A a, b \in S : f[a] = f[b] => a = b) /\ \A t \in T : \E c \in S : f[c] = t
  BY <1>1
<1>3. f \in Bijection(S, T)
  BY <1>2, Fun_IsBij
<1>4. IsFiniteSet(S)
  BY Processors, FS_Subset
<1> HIDE DEF T, f
<1>5. IsFiniteSet(T) /\ Cardinality(T) = Cardinality(S)
  BY <1>3, <1>4, FS_Bijection DEF ExistsBijection
<1>6. QED
  BY <1>5 DEF T

\* Of a finite set of numbers, each place from the end has one number in it.
LEMMA PlacesFromTheEnd ==
    ASSUME NEW F \in SUBSET Nat, IsFiniteSet(F), NEW k \in Nat, k < Cardinality(F)
    PROVE  \E c \in F : Cardinality({d \in F : d > c}) = k
<1> DEFINE Above(c) == {d \in F : d > c}
           n == Cardinality(F)
           place == [c \in F |-> Cardinality(Above(c))]
<1>1. n \in Nat
  BY FS_CardinalityType
<1>2. ASSUME NEW c \in F
      PROVE  IsFiniteSet(Above(c)) /\ Cardinality(Above(c)) \in 0..(n - 1)
  <2>1. Above(c) \subseteq F \ {c}
    OBVIOUS
  <2>2. IsFiniteSet(F \ {c}) /\ Cardinality(F \ {c}) = n - 1
    BY FS_RemoveElement
  <2>3. IsFiniteSet(Above(c)) /\ Cardinality(Above(c)) <= n - 1
    BY <2>1, <2>2, FS_Subset
  <2>4. Cardinality(Above(c)) \in Nat
    BY <2>3, FS_CardinalityType
  <2>5. QED
    BY <1>1, <2>3, <2>4
<1>3. ASSUME NEW c \in F, NEW d \in F, c < d
      PROVE  Cardinality(Above(d)) < Cardinality(Above(c))
  <2>1. ASSUME NEW x \in F PROVE x > d => x > c
    <3>1. x \in Nat /\ c \in Nat /\ d \in Nat
      OBVIOUS
    <3>2. QED
      BY <1>3, <3>1
  <2>2. d > c /\ ~(d > d)
    <3>1. c \in Nat /\ d \in Nat
      OBVIOUS
    <3>2. QED
      BY <1>3, <3>1
  <2>3. Above(d) \subseteq Above(c) /\ d \in Above(c) /\ d \notin Above(d)
    BY <2>1, <2>2
  <2>4. /\ IsFiniteSet(Above(c))
        /\ Cardinality(Above(c)) \in Nat /\ Cardinality(Above(d)) \in Nat
    BY <1>1, <1>2
  <2> HIDE DEF Above
  <2>5. Cardinality(Above(d)) <= Cardinality(Above(c))
    BY <2>3, <2>4, FS_Subset
  <2>6. Cardinality(Above(d)) # Cardinality(Above(c))
    BY <2>3, <2>4, FS_Subset
  <2>7. QED
    BY <2>4, <2>5, <2>6
<1>4. \A c, d \in F : place[c] = place[d] => c = d
  <2> SUFFICES ASSUME NEW c \in F, NEW d \in F, place[c] = place[d], c # d PROVE FALSE
    OBVIOUS
  <2>1. c < d \/ d < c
    OBVIOUS
  <2>2. Cardinality(Above(c)) \in Nat /\ Cardinality(Above(d)) \in Nat
    BY <1>1, <1>2
  <2>3. Cardinality(Above(c)) = Cardinality(Above(d))
    OBVIOUS
  <2> HIDE DEF Above, place
  <2>4. QED
    BY <1>3, <2>1, <2>2, <2>3
<1>5. place \in [F -> 0..(n - 1)]
  BY <1>2
<1> HIDE DEF place
<1>6. place \in Injection(F, 0..(n - 1))
  BY <1>4, <1>5, Fun_IsInj
<1>7. IsFiniteSet(0..(n - 1)) /\ Cardinality(0..(n - 1)) = n
  <2>1. n - 1 \in Int /\ (0 > n - 1 => n = 0)
    BY <1>1
  <2> HIDE DEF n
  <2>2. QED
    BY <1>1, <2>1, FS_Interval
<1>8. place \in Surjection(F, 0..(n - 1))
  BY <1>6, <1>7, FS_Injection
<1>9. PICK c \in F : place[c] = k
  <2>1. k \in 0..(n - 1)
    BY <1>1
  <2>2. QED
    BY <1>8, <2>1 DEF Surjection
<1>10. QED
  BY <1>9 DEF place

\* The last cores are as many different fast cores as there are slots.
LEMMA LastCoresAreFast ==
    ASSUME NEW m \in Machines, NEW slots \in Nat, slots <= Cardinality(FastCores(m)),
           NEW cores, cores = LastCores(m, slots)
    PROVE  /\ Len(cores) = slots /\ Range(cores) \subseteq FastCores(m)
           /\ Cardinality(Range(cores)) = slots
<1> DEFINE F == FastCores(m)
           Place(i) == {c \in F : Cardinality({d \in F : d > c}) = slots - i}
<1>1. F \in SUBSET Nat /\ IsFiniteSet(F) /\ Cardinality(F) \in Nat
  BY Processors
<1>2. cores = [i \in 1..slots |->
                 CHOOSE c \in F : Cardinality({d \in F : d > c}) = slots - i]
  BY DEF LastCores
<1>3. ASSUME NEW i \in 1..slots
      PROVE  cores[i] \in F /\ Cardinality({d \in F : d > cores[i]}) = slots - i
  <2>1. slots - i \in Nat /\ slots - i < Cardinality(F)
    BY <1>1
  <2>2. \E c \in F : Cardinality({d \in F : d > c}) = slots - i
    BY <1>1, <2>1, PlacesFromTheEnd
  <2>3. QED
    BY <1>2, <2>2
<1>4. ASSUME NEW i \in 1..slots, NEW j \in 1..slots, cores[i] = cores[j] PROVE i = j
  <2>1. slots - i = slots - j
    BY <1>3, <1>4
  <2>2. QED
    BY <2>1
<1>5. DOMAIN cores = 1..slots /\ cores \in [1..slots -> F]
  BY <1>2, <1>3
<1> HIDE DEF F
<1>6. cores \in [1..slots -> Range(cores)]
      /\ \A x \in Range(cores) : \E i \in 1..slots : cores[i] = x
  BY <1>5 DEF Range
<1>7. cores \in Bijection(1..slots, Range(cores))
  BY <1>4, <1>6, Fun_IsBij
<1>8. Cardinality(Range(cores)) = slots
  <2>1. IsFiniteSet(1..slots) /\ Cardinality(1..slots) = slots
    BY FS_Interval
  <2>2. QED
    BY <1>7, <2>1, FS_Bijection DEF ExistsBijection
<1>9. Range(cores) \subseteq F /\ Len(cores) = slots
  BY <1>5 DEF Range
<1>10. QED
  BY <1>8, <1>9 DEF F
\* What decide_admission makes sure of.
HostFits(m, slots, mode, cores) ==
    /\ m \in Machines /\ slots \in Nat /\ slots >= 1 /\ Cardinality(Online(m)) >= 1
    /\ mode \in PinningModes
    /\ mode = "pinned" =>
         /\ Len(cores) = slots /\ Range(cores) \subseteq FastCores(m)
         /\ Cardinality(Range(cores)) = slots
    /\ mode = "homogeneous_unpinned" =>
         Cardinality(Classes(m)) = 1 /\ slots <= Cardinality(FastCores(m))
    /\ mode = "qos_hint" => slots = 1 \/ slots + 2 <= Cardinality(FastCores(m))

\* A computer with as many fast cores as a slot needs has processors.
LEMMA SomeOnline ==
    ASSUME NEW m \in Machines, NEW S \in SUBSET FastCores(m), Cardinality(S) >= 1
    PROVE  Cardinality(Online(m)) >= 1
<1>1. S \subseteq Online(m)
  BY Processors
<1>2. IsFiniteSet(S) /\ Cardinality(S) <= Cardinality(Online(m))
  BY <1>1, Processors, FS_Subset
<1>3. Cardinality(S) \in Nat
  BY <1>2, FS_CardinalityType
<1>4. QED
  BY <1>2, <1>3, Processors

LEMMA ClassesAreCounted ==
    ASSUME NEW m \in Machines
    PROVE  /\ IsFiniteSet(Classes(m)) /\ Cardinality(Classes(m)) \in Nat
           /\ Cardinality(Classes(m)) <= Cardinality(Online(m))
           /\ Cardinality(Online(m)) >= 1 => Cardinality(Classes(m)) >= 1
<1> DEFINE f == [c \in Online(m) |-> m.cpu[c].class]
<1>1. f \in Surjection(Online(m), Classes(m))
  BY DEF Surjection, Classes
<1>2. IsFiniteSet(Classes(m)) /\ Cardinality(Classes(m)) <= Cardinality(Online(m))
  BY <1>1, Processors, FS_Surjection
<1>3. Cardinality(Classes(m)) \in Nat
  BY <1>2, FS_CardinalityType
<1>4. Cardinality(Online(m)) >= 1 => Classes(m) # {}
  <2>1. Cardinality(Online(m)) >= 1 => Online(m) # {}
    BY FS_EmptySet
  <2>2. QED
    BY <2>1 DEF Classes
<1>5. Classes(m) # {} => Cardinality(Classes(m)) # 0
  BY <1>2, FS_EmptySet
<1>6. QED
  BY <1>2, <1>3, <1>4, <1>5

LEMMA MaxOfTwo ==
    ASSUME NEW a \in Int, NEW b \in Int
    PROVE  Max({a, b}) = IF a >= b THEN a ELSE b
<1> DEFINE best == IF a >= b THEN a ELSE b
<1>1. best \in {a, b} /\ \A y \in {a, b} : best >= y
  OBVIOUS
<1>2. ASSUME NEW x \in {a, b}, \A y \in {a, b} : x >= y PROVE x = best
  BY <1>2
<1> HIDE DEF best
<1>3. Max({a, b}) = best
  BY <1>1, <1>2 DEF Max
<1>4. QED
  BY <1>3 DEF best

LEMMA MinOfTwo ==
    ASSUME NEW a \in Int, NEW b \in Int
    PROVE  Min({a, b}) \in {a, b}
<1> DEFINE least == IF a <= b THEN a ELSE b
<1>1. least \in {a, b} /\ \A y \in {a, b} : least =< y
  OBVIOUS
<1>2. QED
  BY <1>1 DEF Min

LEMMA DefaultIsANumber ==
    ASSUME NEW m \in Machines
    PROVE  DefaultSlots(m) \in Int
<1>1. Cardinality(Online(m)) \div 4 \in Int /\ Cardinality(FastCores(m)) - ReservedCores \in Int
  BY Processors DEF ReservedCores
<1>2. Max({1, Cardinality(Online(m)) \div 4}) \in Int /\ QosSlots(m) \in Int
  BY <1>1, MaxOfTwo DEF QosSlots
<1>3. QED
  BY <1>2, MinOfTwo DEF DefaultSlots

\* The slots without affinity.
LEMMA UnpinnedFits ==
    ASSUME NEW m \in Machines, NEW slots \in Nat, slots >= 1, NEW wanted,
           NEW admission, admission = Unpinned(m, slots, wanted), admission.mode # "none"
    PROVE  HostFits(m, slots, admission.mode, admission.cores)
<1>1. Refusal.mode = "none"
  BY DEF Refusal
<1>2. CASE Heterogeneous(m)
  <2>1. QosHint(m) /\ slots <= QosSlots(m) /\ admission = [Refusal EXCEPT !.mode = "qos_hint"]
    BY <1>1, <1>2 DEF Unpinned
  <2>2. admission.mode = "qos_hint"
    BY <2>1 DEF Refusal
  <2>3. slots = 1 \/ slots + 2 <= Cardinality(FastCores(m))
    <3>1. Cardinality(FastCores(m)) - 2 \in Int /\ Cardinality(FastCores(m)) \in Nat
      BY Processors
    <3>2. slots <= IF 1 >= Cardinality(FastCores(m)) - 2 THEN 1 ELSE Cardinality(FastCores(m)) - 2
      BY <2>1, <3>1, MaxOfTwo DEF QosSlots, ReservedCores
    <3>3. QED
      BY <3>1, <3>2
  <2>4. Cardinality(Online(m)) >= 1
    BY <1>2, ClassesAreCounted, Processors DEF Heterogeneous
  <2>5. QED
    BY <2>2, <2>3, <2>4 DEF HostFits, PinningModes
<1>3. CASE ~Heterogeneous(m)
  <2>1. /\ slots <= Cardinality(FastCores(m))
        /\ admission = [Refusal EXCEPT !.mode = "homogeneous_unpinned"]
    BY <1>1, <1>3 DEF Unpinned
  <2>2. admission.mode = "homogeneous_unpinned"
    BY <2>1 DEF Refusal
  <2>3. Cardinality(FastCores(m)) >= 1
    BY <2>1, Processors
  <2>4. Cardinality(Online(m)) >= 1
    BY <2>3, SomeOnline
  <2>5. Cardinality(Classes(m)) = 1
    BY <1>3, <2>4, ClassesAreCounted DEF Heterogeneous
  <2>6. QED
    BY <2>1, <2>2, <2>4, <2>5 DEF HostFits, PinningModes
<1>4. QED
  BY <1>2, <1>3

\* The slots that are pinned, to the cores asked for or to the last ones.
LEMMA PinnedFits ==
    ASSUME NEW m \in Machines, NEW slots \in Nat, slots >= 1, NEW wanted,
           NEW admission, admission = Pinned(m, slots, wanted), admission.mode # "none"
    PROVE  HostFits(m, slots, admission.mode, admission.cores)
<1>1. Refusal.mode = "none"
  BY DEF Refusal
<1>2. /\ admission.mode = "pinned"
      /\ Len(admission.cores) = slots /\ Range(admission.cores) \subseteq FastCores(m)
      /\ Cardinality(Range(admission.cores)) = slots
  <2>1. CASE wanted # NoWish
    <3>1. Suits(m, slots, wanted) /\ admission = [mode |-> "pinned", cores |-> wanted]
      BY <1>1, <2>1 DEF Pinned
    <3>2. QED
      BY <3>1 DEF Suits
  <2>2. CASE wanted = NoWish
    <3>1. /\ slots <= Cardinality(FastCores(m))
          /\ admission = [mode |-> "pinned", cores |-> LastCores(m, slots)]
      BY <1>1, <2>2 DEF Pinned
    <3>2. admission.mode = "pinned" /\ admission.cores = LastCores(m, slots)
      BY <3>1
    <3>3. QED
      BY <3>1, <3>2, LastCoresAreFast
  <2>3. QED
    BY <2>1, <2>2
<1>3. Cardinality(Online(m)) >= 1
  BY <1>2, SomeOnline
<1>4. QED
  BY <1>2, <1>3 DEF HostFits, PinningModes

LEMMA AdmissionFits ==
    ASSUME NEW m \in Machines, NEW slots \in Int, NEW wanted,
           NEW admission, admission = DecideAdmission(m, slots, wanted), admission.mode # "none"
    PROVE  HostFits(m, slots, admission.mode, admission.cores)
<1>1. slots >= 1 /\ slots \in Nat
  BY DEF DecideAdmission, Refusal
<1>2. admission = Pinned(m, slots, wanted) \/ admission = Unpinned(m, slots, wanted)
  BY <1>1 DEF DecideAdmission
<1>3. QED
  BY <1>1, <1>2, PinnedFits, UnpinnedFits
\* The client, from the decision to the registration.
HostIsARecord ==
    host = [at |-> host.at, machine |-> host.machine, slots |-> host.slots,
            mode |-> host.mode, cores |-> host.cores]

HostInv ==
    /\ HostIsARecord
    /\ host.at \in {"verifying", "registering"} =>
         HostFits(host.machine, host.slots, host.mode, host.cores)
    /\ host.at = "verifying" => host.mode = "pinned"
    /\ host.at = "registering" /\ host.mode = "pinned" =>
         Range(host.cores) \subseteq host.machine.allowed

LEMMA DetectFits ==
    ASSUME NEW m \in Machines, NEW wish \in Wishes, Detect(m, wish)
    PROVE  HostInv'
<1> DEFINE slots == IF wish.slots = NoWish THEN DefaultSlots(m) ELSE wish.slots
           admission == DecideAdmission(m, slots, wish.cores)
<1>1. host' = IF admission.mode = "none" THEN [NoHost EXCEPT !.at = "refused"]
              ELSE [at |-> IF admission.mode = "pinned" THEN "verifying" ELSE "registering",
                    machine |-> m, slots |-> slots,
                    mode |-> admission.mode, cores |-> admission.cores]
  BY DEF Detect
<1>2. slots \in Int
  BY DefaultIsANumber, HostAssumption
<1> HIDE DEF slots
<1>3. admission.mode # "none" => HostFits(m, slots, admission.mode, admission.cores)
  BY <1>2, AdmissionFits
<1> HIDE DEF admission
<1>4. CASE admission.mode = "none"
  <2>1. host' = [NoHost EXCEPT !.at = "refused"]
    BY <1>1, <1>4
  <2>2. HostIsARecord' /\ host'.at = "refused"
    BY <2>1 DEF NoHost, HostIsARecord
  <2>3. QED
    BY <2>2 DEF HostInv
<1>5. CASE admission.mode # "none"
  <2>1. /\ HostIsARecord'
        /\ host'.at = (IF admission.mode = "pinned" THEN "verifying" ELSE "registering")
        /\ host'.machine = m /\ host'.slots = slots
        /\ host'.mode = admission.mode /\ host'.cores = admission.cores
    BY <1>1, <1>5 DEF HostIsARecord
  <2>2. HostFits(m, slots, admission.mode, admission.cores)
    BY <1>3, <1>5
  <2>3. QED
    BY <2>1, <2>2 DEF HostInv, HostFits
<1>6. QED
  BY <1>4, <1>5

LEMMA HostStepFits == HostInv /\ HostStep => HostInv'
<1> SUFFICES ASSUME HostInv, HostStep PROVE HostInv'
  OBVIOUS
<1>1. ASSUME NEW m \in Machines, NEW wish \in Wishes, Detect(m, wish) PROVE HostInv'
  BY <1>1, DetectFits
<1>2. ASSUME NEW s, host' = [NoHost EXCEPT !.at = "refused"]
                    \/ host' = [NoHost EXCEPT !.at = "registered", !.slots = s]
      PROVE  HostInv'
  <2>1. HostIsARecord' /\ host'.at \in {"refused", "registered"}
    BY <1>2 DEF NoHost, HostIsARecord
  <2>2. QED
    BY <2>1 DEF HostInv
<1>3. CASE VerifyPinning
  <2>1. CASE \A c \in Range(host.cores) : c \in host.machine.allowed
    <3>1. host' = [host EXCEPT !.at = "registering"]
      BY <1>3, <2>1 DEF VerifyPinning
    <3>2. /\ HostIsARecord' /\ host'.at = "registering"
          /\ host'.machine = host.machine /\ host'.slots = host.slots
          /\ host'.mode = host.mode /\ host'.cores = host.cores
      BY <3>1 DEF HostInv, HostIsARecord
    <3>3. HostFits(host.machine, host.slots, host.mode, host.cores)
      BY <1>3 DEF VerifyPinning, HostInv
    <3>4. QED
      BY <2>1, <3>2, <3>3 DEF HostInv
  <2>2. CASE ~(\A c \in Range(host.cores) : c \in host.machine.allowed)
    <3>1. host' = [NoHost EXCEPT !.at = "refused"]
      BY <1>3, <2>2 DEF VerifyPinning
    <3>2. QED
      BY <1>2, <3>1
  <2>3. QED
    BY <2>1, <2>2
<1>4. CASE RegisterHost
  <2>1. \/ host' = [NoHost EXCEPT !.at = "refused"]
        \/ host' = [NoHost EXCEPT !.at = "registered", !.slots = host.slots]
    BY <1>4, Zenon DEF RegisterHost
  <2>2. QED
    BY <1>2, <2>1, Zenon
<1>5. QED
  BY <1>1, <1>3, <1>4 DEF HostStep

LEMMA FitHosts == HostInv => AdmittedIsFit
<1> SUFFICES ASSUME HostInv, host.at = "registering"
             PROVE  /\ RegistrationTaken
                    /\ host.mode = "pinned" =>
                         /\ Len(host.cores) = host.slots
                         /\ Cardinality({CoreOf(c) : c \in Range(host.cores)}) = host.slots
                         /\ Range(host.cores) \subseteq Fastest(host.machine)
                                                          \cap host.machine.allowed
                    /\ host.mode = "homogeneous_unpinned" =>
                         /\ Cardinality(Classes(host.machine)) = 1
                         /\ host.slots <= Cardinality(PhysicalCores(host.machine))
                    /\ host.mode = "qos_hint" =>
                         \/ host.slots = 1
                         \/ host.slots + 2 <= Cardinality(FastPhysicalCores(host.machine))
  BY DEF AdmittedIsFit
<1>1. HostFits(host.machine, host.slots, host.mode, host.cores)
  BY DEF HostInv
<1> DEFINE m == host.machine
           fast == {m.cpu[c].core : c \in FastCores(m)}
<1>2. m \in Machines /\ host.slots \in Nat
  BY <1>1 DEF HostFits
<1>3. RegistrationTaken
  BY <1>1 DEF HostFits, RegistrationTaken
<1>4. ASSUME host.mode = "pinned"
      PROVE  /\ Len(host.cores) = host.slots
             /\ Cardinality({CoreOf(c) : c \in Range(host.cores)}) = host.slots
             /\ Range(host.cores) \subseteq Fastest(m) \cap m.allowed
  <2>1. /\ Len(host.cores) = host.slots /\ Range(host.cores) \subseteq FastCores(m)
        /\ Cardinality(Range(host.cores)) = host.slots /\ Range(host.cores) \subseteq m.allowed
    BY <1>1, <1>4 DEF HostFits, HostInv
  <2>2. Cardinality({m.cpu[c].core : c \in Range(host.cores)}) = host.slots
    BY <1>2, <2>1, OneThreadPerCore
  <2>3. {CoreOf(c) : c \in Range(host.cores)} = {m.cpu[c].core : c \in Range(host.cores)}
    BY DEF CoreOf
  <2>4. FastCores(m) \subseteq Fastest(m)
    BY <1>2, Processors
  <2>5. QED
    BY <2>1, <2>2, <2>3, <2>4
<1>5. /\ IsFiniteSet(fast) /\ Cardinality(fast) = Cardinality(FastCores(m))
      /\ Cardinality(FastCores(m)) \in Nat
  BY <1>2, OneThreadPerCore, Processors
<1>6. /\ fast \subseteq PhysicalCores(m) /\ fast \subseteq FastPhysicalCores(m)
      /\ IsFiniteSet(PhysicalCores(m)) /\ IsFiniteSet(FastPhysicalCores(m))
  <2>1. IsFiniteSet(DOMAIN m.cpu) /\ IsFiniteSet(Fastest(m))
    BY <1>2, HostAssumption, Processors, FS_Subset
  <2>2. IsFiniteSet(PhysicalCores(m))
    <3> DEFINE f == [c \in DOMAIN m.cpu |-> m.cpu[c].core]
    <3>1. f \in Surjection(DOMAIN m.cpu, PhysicalCores(m))
      BY DEF Surjection, PhysicalCores
    <3>2. QED
      BY <2>1, <3>1, FS_Surjection
  <2>3. IsFiniteSet(FastPhysicalCores(m))
    <3> DEFINE f == [c \in Fastest(m) |-> m.cpu[c].core]
    <3>1. f \in Surjection(Fastest(m), FastPhysicalCores(m))
      BY DEF Surjection, FastPhysicalCores
    <3>2. QED
      BY <2>1, <3>1, FS_Surjection
  <2>4. FastCores(m) \subseteq Fastest(m) /\ Fastest(m) \subseteq DOMAIN m.cpu
    BY <1>2, Processors
  <2>5. QED
    BY <2>2, <2>3, <2>4 DEF PhysicalCores, FastPhysicalCores
<1> HIDE DEF fast
<1>7. /\ Cardinality(FastCores(m)) <= Cardinality(PhysicalCores(m))
      /\ Cardinality(FastCores(m)) <= Cardinality(FastPhysicalCores(m))
      /\ Cardinality(PhysicalCores(m)) \in Nat /\ Cardinality(FastPhysicalCores(m)) \in Nat
  BY <1>5, <1>6, FS_Subset, FS_CardinalityType
<1>8. ASSUME host.mode = "homogeneous_unpinned"
      PROVE  Cardinality(Classes(m)) = 1 /\ host.slots <= Cardinality(PhysicalCores(m))
  BY <1>1, <1>2, <1>5, <1>7, <1>8 DEF HostFits
<1>9. ASSUME host.mode = "qos_hint"
      PROVE  host.slots = 1 \/ host.slots + 2 <= Cardinality(FastPhysicalCores(m))
  BY <1>1, <1>2, <1>5, <1>7, <1>9 DEF HostFits
<1>10. QED
  BY <1>3, <1>4, <1>8, <1>9

\* No client registers with two slots on one physical core, on a slow core, on
\* one it may not use, or with more slots than cores, whatever the computer and
\* the options (detect_topology, decide_admission, verify_pinning).
THEOREM ClientsAreFit == Spec => []AdmittedIsFit
<1>1. Init => HostInv
  BY DEF Init, NoHost, HostInv, HostIsARecord
<1>2. HostInv /\ [Next]_vars => HostInv'
  <2> SUFFICES ASSUME HostInv, [Next]_vars PROVE HostInv'
    OBVIOUS
  <2>1. host' = host \/ HostStep
    BY DEF Next, Intake, CurtainRises, Play, playVars, vars
  <2>2. CASE host' = host
    BY <2>2 DEF HostInv, HostIsARecord
  <2>3. QED
    BY <2>1, <2>2, HostStepFits
<1>3. QED
  BY <1>1, <1>2, FitHosts, PTL DEF Spec
=============================================================================
