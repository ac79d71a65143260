---------------------------- MODULE ClientRunner ----------------------------
(***************************************************************************)
(* One client machine (client/runner.cpp, api.cpp, main.cpp): the main     *)
(* thread polls the server and prepares the engines of the active test,    *)
(* each slot claims a pair, plays it and submits the result.  The threads  *)
(* share engines_, the stop flag and the counter of pairs.                 *)
(*                                                                         *)
(* The server is what the client can see of JobQueue: the active test, the *)
(* pairs, and which of them are leased to this client.  A call ends with   *)
(* an answer or fails after a time limit; a failed call may have reached   *)
(* the server, or may still reach it later (`strays`).                     *)
(***************************************************************************)
EXTENDS Naturals, FiniteSets

CONSTANTS
    Slots,      \* the slots of the client
    Pairs,      \* the pairs of the tests
    LastTest,   \* tests are numbered 1..LastTest and become active in order
    TestOf,     \* the test of each pair
    MaxPairs,   \* --max-pairs; 0 is no limit
    MaxStrays,  \* bound of the model: failed requests that are still under way
    None        \* no test, no pair

Tests == 1..LastTest

ASSUME ClientConstants ==
    /\ IsFiniteSet(Slots) /\ Slots # {}
    /\ LastTest \in Nat /\ MaxPairs \in Nat /\ MaxStrays \in Nat
    /\ TestOf \in [Pairs -> Tests]
    /\ None \notin Tests /\ None \notin Pairs

\* *stop_ && ++attempts_after_stop > 3
MaxTriesAfterStop == 3

VARIABLES
    stop,       \* the flag shared by every thread
    engines,    \* engines_: the test whose engines are ready, or None
    failed,     \* failed_test_
    done,       \* pairs_done_
    main,       \* the main thread: [at, seen], seen being the test it read
    slot,       \* the slots, records of SlotState
    active,     \* the server's running test, or None
    newest,     \* the newest test that has been active
    lease,      \* the state of each pair as to this client
    banned,     \* clients.status = 'banned'
    strays,     \* requests that failed for the client and may reach the server
    faultless   \* history: no call has failed and the client has not crashed

client == <<stop, engines, failed, done, main, slot>>
server == <<active, newest, lease, banned>>
vars == <<client, server, strays, faultless>>

\* "down": not running.  "sleep": sleeps, or is at the head of the loop of
\* run().  "joining": the loop is over.
MainPlaces == {"down", "register", "poll", "active", "decide", "build", "sleep",
               "joining", "ended"}

\* "granted": the reply of a claim has arrived; "reached": the slot counted
\* its pair, the limit was reached, and it is about to set stop.
SlotPlaces == {"top", "claim", "granted", "playing", "submit", "backoff",
               "count", "reached", "giveback", "sleep", "exited"}

SlotState == [at : SlotPlaces, e : Tests \cup {None}, pair : Pairs \cup {None},
              tries : 0..MaxTriesAfterStop, late : BOOLEAN]

Fresh(place) == [at |-> place, e |-> None, pair |-> None, tries |-> 0, late |-> FALSE]

Holding(e, p) == [at |-> "granted", e |-> e, pair |-> p, tries |-> 0, late |-> FALSE]
Late(r) == [r EXCEPT !.late = TRUE]
TriedAfterStop(r) == [r EXCEPT !.at = "backoff", !.tries = @ + 1]

Requests == [op : {"claim", "submit", "giveback"}, pair : Pairs \cup {None}]

At(s, place) == slot[s].at = place
GoTo(s, place) == slot' = [slot EXCEPT ![s].at = place]
Leave(s, place) == slot' = [slot EXCEPT ![s] = Fresh(place)]
MainTo(place) == main' = [main EXCEPT !.at = place]
Rest == main' = [at |-> "sleep", seen |-> None]

-----------------------------------------------------------------------------
(***************************************************************************)
(* The server's side of a request.                                         *)
(***************************************************************************)
Claimable(p) == ~banned /\ TestOf[p] = active /\ lease[p] = "pending"

\* submit_result: mine, of the running test, and not banned.
Submitted(p) ==
    IF ~banned /\ TestOf[p] = active /\ lease[p] = "mine"
    THEN [lease EXCEPT ![p] = "completed"] ELSE lease

\* abandon_pair
GivenBack(p) ==
    IF lease[p] = "mine" THEN [lease EXCEPT ![p] = "pending"] ELSE lease

Request(s) == [op |-> slot[s].at, pair |-> slot[s].pair]

\* The call of slot s fails for the client; its request is lost or under way.
Fails(s) ==
    /\ strays' \in {strays, strays \cup {Request(s)}}
    /\ Cardinality(strays') <= MaxStrays
    /\ faultless' = FALSE

\* The request of a call that failed reaches the server; nobody reads the reply.
Stray ==
    /\ \E r \in strays :
         /\ strays' = strays \ {r}
         /\ \/ /\ r.op = "claim"
               /\ \E p \in Pairs : Claimable(p) /\ lease' = [lease EXCEPT ![p] = "mine"]
            \/ r.op = "submit" /\ lease' = Submitted(r.pair)
            \/ r.op = "giveback" /\ lease' = GivenBack(r.pair)
    /\ UNCHANGED <<client, active, newest, banned, faultless>>

\* recover_expired_leases, and other clients that play the pair meanwhile.
LeaseExpires(p) ==
    /\ lease[p] = "mine" /\ lease' = [lease EXCEPT ![p] = "pending"]
    /\ UNCHANGED <<client, active, newest, banned, strays, faultless>>

OthersComplete(p) ==
    /\ lease[p] = "pending" /\ TestOf[p] = active
    /\ lease' = [lease EXCEPT ![p] = "completed"]
    /\ UNCHANGED <<client, active, newest, banned, strays, faultless>>

TestEnds ==
    /\ active # None /\ active' = None
    /\ UNCHANGED <<client, newest, lease, banned, strays, faultless>>

TestStarts ==
    /\ active = None /\ newest < LastTest
    /\ newest' = newest + 1 /\ active' = newest'
    /\ UNCHANGED <<client, lease, banned, strays, faultless>>

Ban ==
    /\ ~banned /\ banned' = TRUE
    /\ UNCHANGED <<client, active, newest, lease, strays, faultless>>

-----------------------------------------------------------------------------
(***************************************************************************)
(* The main thread: main(), Runner::run and poll_server.                   *)
(***************************************************************************)
Calling(s) == slot[s].at \in {"claim", "submit", "giveback"}

Running == main.at \notin {"down", "ended"}

Start ==
    /\ ~Running
    /\ stop' = FALSE /\ engines' = None /\ failed' = None /\ done' = 0
    /\ main' = [at |-> "register", seen |-> None]
    /\ slot' = [s \in Slots |-> Fresh("exited")]
    /\ UNCHANGED <<server, strays, faultless>>

\* The registration is retried until the server answers or stop is set; the
\* slots start when it has.
Register ==
    /\ main.at = "register"
    /\ \/ (stop \/ banned) /\ MainTo("ended") /\ slot' = slot
       \/ ~stop /\ ~banned /\ Rest /\ slot' = [s \in Slots |-> Fresh("top")]
    /\ UNCHANGED <<stop, engines, failed, done, server, strays, faultless>>

\* SIGINT, SIGTERM
Signal ==
    /\ Running /\ ~stop /\ stop' = TRUE
    /\ UNCHANGED <<engines, failed, done, main, slot, server, strays, faultless>>

PollFails ==
    /\ main.at \in {"poll", "active"}
    /\ Rest
    /\ UNCHANGED <<stop, engines, failed, done, slot, server, strays, faultless>>

HeartbeatDeaf == \* mutant: the answer of the heartbeat is not looked at
    /\ main.at = "poll"
    /\ MainTo("active") /\ stop' = stop
    /\ UNCHANGED <<engines, failed, done, slot, server, strays, faultless>>

Heartbeat ==
    /\ main.at = "poll"
    /\ IF banned THEN Rest /\ stop' = TRUE
                 ELSE MainTo("active") /\ stop' = stop
    /\ UNCHANGED <<engines, failed, done, slot, server, strays, faultless>>

ReadActive ==
    /\ main.at = "active"
    /\ main' = [at |-> "decide", seen |-> active]
    /\ UNCHANGED <<stop, engines, failed, done, slot, server, strays, faultless>>

\* Engines of another test are dropped before the new ones are built: the
\* slots stop claiming.
Decide ==
    /\ main.at = "decide"
    /\ CASE main.seen = None -> engines' = None /\ Rest
         [] main.seen # None /\ main.seen \in {engines, failed} ->
                engines' = engines /\ Rest
         [] OTHER -> engines' = None /\ MainTo("build")
    /\ UNCHANGED <<stop, failed, done, slot, server, strays, faultless>>

\* prepare_engines succeeds, fails (also because stop is set), or throws.
Build ==
    /\ main.at = "build"
    /\ Rest
    /\ \/ engines' = main.seen /\ failed' = failed
       \/ engines' = engines /\ failed' = main.seen
       \/ UNCHANGED <<engines, failed>>
    /\ UNCHANGED <<stop, done, slot, server, strays, faultless>>

Wake ==
    /\ main.at = "sleep"
    /\ MainTo(IF stop THEN "joining" ELSE "poll")
    /\ UNCHANGED <<stop, engines, failed, done, slot, server, strays, faultless>>

Join ==
    /\ main.at = "joining" /\ \A s \in Slots : At(s, "exited")
    /\ MainTo("ended")
    /\ UNCHANGED <<stop, engines, failed, done, slot, server, strays, faultless>>

\* The machine goes down, or play_pair throws (the file system, pipe, fork):
\* nothing catches it in the slot's thread.  Calls under way become strays.
Crash ==
    /\ Running
    /\ main' = [at |-> "down", seen |-> None]
    /\ slot' = [s \in Slots |-> Fresh("exited")]
    /\ \E calls \in SUBSET {Request(s) : s \in {u \in Slots : Calling(u)}} :
         strays' = strays \cup calls
    /\ Cardinality(strays') <= MaxStrays
    /\ faultless' = FALSE
    /\ UNCHANGED <<stop, engines, failed, done, server>>

-----------------------------------------------------------------------------
(***************************************************************************)
(* A slot: Runner::slot_loop, play_pair and submit_with_retry.             *)
(***************************************************************************)
LoopEndsIdle == stop /\ engines = None \* mutant: stop only ends a slot that waits
LoopEnds == stop

\* The head of the loop, with the engines as they are now.
Top(s) ==
    /\ At(s, "top")
    /\ IF LoopEnds
       THEN Leave(s, "exited")
       ELSE slot' = [slot EXCEPT ![s] =
              [Fresh(IF engines = None THEN "sleep" ELSE "claim") EXCEPT !.e = engines]]
    /\ UNCHANGED <<stop, engines, failed, done, main, server, strays, faultless>>

WakeSlot(s) ==
    /\ At(s, "sleep")
    /\ Leave(s, "top")
    /\ UNCHANGED <<stop, engines, failed, done, main, server, strays, faultless>>

ClaimGranted(s) ==
    /\ At(s, "claim")
    /\ \E p \in Pairs :
         /\ Claimable(p) /\ lease' = [lease EXCEPT ![p] = "mine"]
         /\ slot' = [slot EXCEPT ![s] = Holding(slot[s].e, p)]
    /\ UNCHANGED <<stop, engines, failed, done, main, active, newest, banned, strays, faultless>>

\* No test, or every pair of it is taken or locked.
ClaimEmpty(s) ==
    /\ At(s, "claim") /\ ~banned
    /\ Leave(s, "sleep")
    /\ UNCHANGED <<stop, engines, failed, done, main, server, strays, faultless>>

ClaimBanned(s) ==
    /\ At(s, "claim") /\ banned
    /\ Leave(s, "exited") /\ stop' = TRUE
    /\ UNCHANGED <<engines, failed, done, main, server, strays, faultless>>

ClaimFails(s) ==
    /\ At(s, "claim")
    /\ Fails(s) /\ Leave(s, "sleep")
    /\ UNCHANGED <<stop, engines, failed, done, main, server>>

PlayAnyTest(s) == TRUE \* mutant: the test of the claim is not compared
SameTest(s) == TestOf[slot[s].pair] = slot[s].e

Granted(s) ==
    /\ At(s, "granted")
    /\ GoTo(s, IF SameTest(s) THEN "playing" ELSE "giveback")
    /\ UNCHANGED <<stop, engines, failed, done, main, server, strays, faultless>>

\* fastchess ends, by itself or at its time limit.
Play(s) ==
    /\ At(s, "playing")
    /\ GoTo(s, "submit")
    /\ UNCHANGED <<stop, engines, failed, done, main, server, strays, faultless>>

DropPair == "exited"    \* mutant: a cancelled pair is not given back
AfterCancel == "giveback"

PlayCancelled(s) ==
    /\ At(s, "playing") /\ stop
    /\ GoTo(s, AfterCancel)
    /\ UNCHANGED <<stop, engines, failed, done, main, server, strays, faultless>>

\* A pair of another test is given back before the slot sleeps, a cancelled
\* one before it exits.
AfterGiveBack(s) == IF SameTest(s) THEN "exited" ELSE "sleep"

GiveBack(s) ==
    /\ At(s, "giveback")
    /\ \/ lease' = GivenBack(slot[s].pair) /\ UNCHANGED <<strays, faultless>>
       \/ Fails(s) /\ lease' = lease
    /\ Leave(s, AfterGiveBack(s))
    /\ UNCHANGED <<stop, engines, failed, done, main, active, newest, banned>>

\* Every answer ends the attempts; the one to a banned client also stops it.
SubmitAnswered(s) ==
    /\ At(s, "submit")
    /\ lease' = Submitted(slot[s].pair)
    /\ stop' = (stop \/ banned)
    /\ Leave(s, "count")
    /\ UNCHANGED <<engines, failed, done, main, active, newest, banned, strays, faultless>>

\* submit_with_retry is in one of its attempts, or sleeps before the next.
Submitting(s) == slot[s].at \in {"submit", "backoff"}

\* 15 minutes have passed since the first attempt.
DeadlinePasses(s) ==
    /\ Submitting(s) /\ ~slot[s].late
    /\ slot' = [slot EXCEPT ![s] = Late(@)]
    /\ UNCHANGED <<stop, engines, failed, done, main, server, strays, faultless>>

OneTryMore(s) == \* mutant: four attempts after stop
    slot[s].late \/ (stop /\ slot[s].tries > MaxTriesAfterStop)
OnlyThreeTries(s) == stop /\ slot[s].tries = MaxTriesAfterStop \* mutant: no deadline
GivesUp(s) == slot[s].late \/ (stop /\ slot[s].tries = MaxTriesAfterStop)

SubmitFails(s) ==
    /\ At(s, "submit")
    /\ Fails(s)
    /\ \/ GivesUp(s) /\ Leave(s, "count")
       \/ ~GivesUp(s) /\ ~stop /\ GoTo(s, "backoff")
       \/ ~GivesUp(s) /\ stop /\ slot' = [slot EXCEPT ![s] = TriedAfterStop(@)]
    /\ UNCHANGED <<stop, engines, failed, done, main, server>>

\* The sleep between two attempts, which stop does not interrupt.
TryAgain(s) ==
    /\ At(s, "backoff")
    /\ GoTo(s, "submit")
    /\ UNCHANGED <<stop, engines, failed, done, main, server, strays, faultless>>

LimitMet == MaxPairs > 0 /\ done + 1 = MaxPairs \* mutant: a limit passed is not met
LimitReached == MaxPairs > 0 /\ done + 1 >= MaxPairs

Count(s) ==
    /\ At(s, "count")
    /\ done' = done + 1
    /\ Leave(s, IF LimitReached THEN "reached" ELSE "top")
    /\ UNCHANGED <<stop, engines, failed, main, server, strays, faultless>>

Reached(s) ==
    /\ At(s, "reached")
    /\ stop' = TRUE /\ Leave(s, "top")
    /\ UNCHANGED <<engines, failed, done, main, server, strays, faultless>>

-----------------------------------------------------------------------------
Init ==
    /\ stop = FALSE /\ engines = None /\ failed = None /\ done = 0
    /\ main = [at |-> "down", seen |-> None]
    /\ slot = [s \in Slots |-> Fresh("exited")]
    /\ active = None /\ newest = 0 /\ banned = FALSE
    /\ lease = [p \in Pairs |-> "pending"]
    /\ strays = {} /\ faultless = TRUE

MainStep == PollFails \/ Heartbeat \/ ReadActive \/ Decide \/ Build \/ Wake \/ Join

SlotStep(s) ==
    \/ Top(s) \/ WakeSlot(s)
    \/ ClaimGranted(s) \/ ClaimEmpty(s) \/ ClaimBanned(s) \/ ClaimFails(s)
    \/ Granted(s) \/ Play(s) \/ PlayCancelled(s) \/ GiveBack(s)
    \/ SubmitAnswered(s) \/ SubmitFails(s) \/ TryAgain(s)
    \/ Count(s) \/ Reached(s)

ServerStep ==
    \/ Stray \/ TestEnds \/ TestStarts \/ Ban
    \/ \E p \in Pairs : LeaseExpires(p) \/ OthersComplete(p)

Next ==
    \/ MainStep \/ ServerStep \/ Start \/ Register \/ Signal \/ Crash
    \/ \E s \in Slots : SlotStep(s) \/ DeadlinePasses(s)

Spec == Init /\ [][Next]_vars

\* Threads run and calls end, answered or not; fastchess ends or is killed at
\* its time limit; the clock runs.  The server may be out of reach for ever.
FairSpec ==
    /\ Spec
    /\ WF_vars(MainStep) /\ WF_vars(stop /\ Register)
    /\ \A s \in Slots : WF_vars(SlotStep(s)) /\ WF_vars(DeadlinePasses(s))

-----------------------------------------------------------------------------
\* The types of the client's and the server's state.
ClientTypeOK ==
    /\ stop \in BOOLEAN /\ banned \in BOOLEAN /\ faultless \in BOOLEAN
    /\ {engines, failed, active} \subseteq Tests \cup {None}
    /\ done \in Nat /\ newest \in 0..LastTest
    /\ main \in [at : MainPlaces, seen : Tests \cup {None}]
    /\ slot \in [Slots -> SlotState]
    /\ lease \in [Pairs -> {"pending", "mine", "completed"}]
    /\ strays \subseteq Requests

\* A pair is only played with the engines of its own test, also when the
\* active test changes between the look at the engines and the claim.
PlaysItsTest ==
    \A s \in Slots : At(s, "playing") => TestOf[slot[s].pair] = slot[s].e

\* A client that ends in order leaves no pair of the running test leased,
\* unless a call failed or the server refused it for a ban: every pair it was
\* granted has been submitted or given back.
LeavesNoLease ==
    main.at = "ended" /\ faultless /\ ~banned =>
        \A p \in Pairs : lease[p] = "mine" => TestOf[p] # active

\* --max-pairs is passed by no more than the pairs that the other slots are
\* busy with when it is reached.
PairsBounded == MaxPairs > 0 => done < MaxPairs + Cardinality(Slots)

\* Whatever the client is doing and however long the server stays away, it
\* ends after stop is set, by a signal, a ban or --max-pairs.
StopEnds == stop ~> ~Running

\* A result that cannot be delivered does not keep its slot for ever.
SubmitEnds == \A s \in Slots : Submitting(s) ~> ~Submitting(s)

\* A banned client ends, even when there is no test and no slot ever calls, if
\* the server answers it now and then.
BanEnds ==
    WF_vars(Register) /\ SF_vars(Heartbeat) => (banned ~> ~Running)
=============================================================================
