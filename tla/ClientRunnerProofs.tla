------------------------- MODULE ClientRunnerProofs -------------------------
(***************************************************************************)
(* For any number of slots, pairs and tests and any limit: the types of    *)
(* the client's state, the bound that --max-pairs puts on the pairs it     *)
(* plays, the engines it plays them with, what it leaves leased, and how   *)
(* few steps it has left after a stop.                                     *)
(***************************************************************************)
EXTENDS ClientRunner, FiniteSetTheorems, TLAPS

-----------------------------------------------------------------------------
(***************************************************************************)
(* Records.  Each lemma is about one slot, whatever the action.            *)
(***************************************************************************)
LEMMA FreshTyped ==
    ASSUME NEW place \in SlotPlaces PROVE Fresh(place) \in SlotState
BY DEF Fresh, SlotState, MaxTriesAfterStop

LEMMA LeaveTyped ==
    ASSUME slot \in [Slots -> SlotState], NEW s \in Slots, NEW place \in SlotPlaces,
           Leave(s, place)
    PROVE  slot' \in [Slots -> SlotState]
BY FreshTyped DEF Leave

LEMMA GoToTyped ==
    ASSUME slot \in [Slots -> SlotState], NEW s \in Slots, NEW place \in SlotPlaces,
           GoTo(s, place)
    PROVE  slot' \in [Slots -> SlotState]
<1>1. [slot[s] EXCEPT !.at = place] \in SlotState
  BY DEF SlotState
<1>2. slot' = [slot EXCEPT ![s] = [slot[s] EXCEPT !.at = place]]
  BY DEF GoTo
<1>3. QED
  BY <1>1, <1>2

LEMMA UpdatesTyped ==
    ASSUME NEW r \in SlotState
    PROVE  /\ \A p \in Pairs : Holding(r.e, p) \in SlotState
           /\ Late(r) \in SlotState
           /\ r.tries # MaxTriesAfterStop => TriedAfterStop(r) \in SlotState
<1>1. ASSUME NEW p \in Pairs PROVE Holding(r.e, p) \in SlotState
  BY DEF Holding, SlotState, SlotPlaces, MaxTriesAfterStop
<1>2. Late(r) \in SlotState
  BY DEF Late, SlotState
<1>3. ASSUME r.tries # MaxTriesAfterStop PROVE TriedAfterStop(r) \in SlotState
  <2>1. r.tries + 1 \in 0..MaxTriesAfterStop
    BY <1>3 DEF SlotState, MaxTriesAfterStop
  <2>2. QED
    BY <2>1 DEF TriedAfterStop, SlotState, SlotPlaces
<1>4. QED
  BY <1>1, <1>2, <1>3

LEMMA RestTyped ==
    ASSUME Rest PROVE main' \in [at : MainPlaces, seen : Tests \cup {None}]
BY DEF Rest, MainPlaces

LEMMA MainToTyped ==
    ASSUME main \in [at : MainPlaces, seen : Tests \cup {None}], NEW place \in MainPlaces,
           MainTo(place)
    PROVE  main' \in [at : MainPlaces, seen : Tests \cup {None}]
BY DEF MainTo

LEMMA RequestTyped ==
    ASSUME slot \in [Slots -> SlotState], NEW s \in Slots, Calling(s)
    PROVE  Request(s) \in Requests
BY DEF Request, Calling, Requests, SlotState

LEMMA LeasesTyped ==
    ASSUME lease \in [Pairs -> {"pending", "mine", "completed"}], NEW p \in Pairs
    PROVE  /\ Submitted(p) \in [Pairs -> {"pending", "mine", "completed"}]
           /\ GivenBack(p) \in [Pairs -> {"pending", "mine", "completed"}]
BY DEF Submitted, GivenBack

-----------------------------------------------------------------------------
(***************************************************************************)
(* Types.                                                                  *)
(***************************************************************************)
LEMMA ClientStartsTyped == Init => ClientTypeOK
<1> SUFFICES ASSUME Init PROVE ClientTypeOK
  OBVIOUS
<1>1. slot \in [Slots -> SlotState]
  BY FreshTyped DEF Init, SlotPlaces
<1>2. lease \in [Pairs -> {"pending", "mine", "completed"}] /\ newest \in 0..LastTest
  BY ClientConstants DEF Init
<1>3. /\ main \in [at : MainPlaces, seen : Tests \cup {None}] /\ done \in Nat
      /\ {engines, failed, active} \subseteq Tests \cup {None} /\ strays \subseteq Requests
      /\ {stop, banned, faultless} \subseteq BOOLEAN
  BY DEF Init, MainPlaces
<1>4. QED
  BY <1>1, <1>2, <1>3 DEF ClientTypeOK

LEMMA ServerKeepsTypes == ClientTypeOK /\ ServerStep => ClientTypeOK'
<1> SUFFICES ASSUME ClientTypeOK, ServerStep PROVE ClientTypeOK'
  OBVIOUS
<1>1. CASE Stray
  <2>1. PICK r \in strays :
          /\ strays' = strays \ {r}
          /\ \/ \E p \in Pairs : lease' = [lease EXCEPT ![p] = "mine"]
             \/ r.op = "submit" /\ lease' = Submitted(r.pair)
             \/ r.op = "giveback" /\ lease' = GivenBack(r.pair)
    BY <1>1 DEF Stray
  <2>2. lease' \in [Pairs -> {"pending", "mine", "completed"}]
    <3>1. CASE \E p \in Pairs : lease' = [lease EXCEPT ![p] = "mine"]
      BY <3>1 DEF ClientTypeOK
    <3>2. CASE lease' \in {Submitted(r.pair), GivenBack(r.pair)}
      BY <3>2 DEF ClientTypeOK, Submitted, GivenBack
    <3>3. QED
      BY <2>1, <3>1, <3>2
  <2>3. QED
    BY <1>1, <2>1, <2>2 DEF Stray, ClientTypeOK, client
<1>2. CASE TestEnds
  BY <1>2 DEF TestEnds, ClientTypeOK, client
<1>3. CASE TestStarts
  BY <1>3, ClientConstants DEF TestStarts, ClientTypeOK, client, Tests
<1>4. CASE Ban
  BY <1>4 DEF Ban, ClientTypeOK, client
<1>5. ASSUME NEW p \in Pairs, LeaseExpires(p) \/ OthersComplete(p) PROVE ClientTypeOK'
  BY <1>5 DEF LeaseExpires, OthersComplete, ClientTypeOK, client
<1>6. QED
  BY <1>1, <1>2, <1>3, <1>4, <1>5 DEF ServerStep

LEMMA MainKeepsTypes == ClientTypeOK /\ MainStep => ClientTypeOK'
<1> SUFFICES ASSUME ClientTypeOK, MainStep PROVE ClientTypeOK'
  OBVIOUS
<1> USE RestTyped, MainToTyped DEF server, ClientTypeOK, MainPlaces
<1>1. CASE PollFails
  BY <1>1 DEF PollFails
<1>2. CASE Heartbeat
  BY <1>2 DEF Heartbeat
<1>3. CASE ReadActive
  BY <1>3 DEF ReadActive
<1>4. CASE Decide
  BY <1>4 DEF Decide
<1>5. CASE Build
  BY <1>5 DEF Build
<1>6. CASE Wake
  BY <1>6 DEF Wake
<1>7. CASE Join
  BY <1>7 DEF Join
<1>8. QED
  BY <1>1, <1>2, <1>3, <1>4, <1>5, <1>6, <1>7 DEF MainStep

LEMMA ProcessKeepsTypes ==
    ClientTypeOK /\ (Start \/ Register \/ Signal \/ Crash) => ClientTypeOK'
<1> SUFFICES ASSUME ClientTypeOK, Start \/ Register \/ Signal \/ Crash PROVE ClientTypeOK'
  OBVIOUS
<1>1. /\ [s \in Slots |-> Fresh("exited")] \in [Slots -> SlotState]
      /\ [s \in Slots |-> Fresh("top")] \in [Slots -> SlotState]
  BY FreshTyped DEF SlotPlaces
<1>2. CASE Start
  BY <1>1, <1>2 DEF Start, server, ClientTypeOK, MainPlaces
<1>3. CASE Register
  BY <1>1, <1>3, RestTyped, MainToTyped DEF Register, server, ClientTypeOK, MainPlaces
<1>4. CASE Signal
  BY <1>4 DEF Signal, server, ClientTypeOK
<1>5. CASE Crash
  <2>1. {Request(s) : s \in {u \in Slots : Calling(u)}} \subseteq Requests
    BY RequestTyped DEF ClientTypeOK
  <2>2. strays' \subseteq Requests
    BY <1>5, <2>1 DEF Crash, ClientTypeOK
  <2>3. QED
    BY <1>1, <1>5, <2>2 DEF Crash, server, ClientTypeOK, MainPlaces
<1>6. QED
  BY <1>2, <1>3, <1>4, <1>5

LEMMA SlotKeepsTypes ==
    ASSUME NEW s \in Slots, ClientTypeOK, SlotStep(s) \/ DeadlinePasses(s)
    PROVE  ClientTypeOK'
<1> USE LeaveTyped, GoToTyped DEF ClientTypeOK, SlotPlaces, server
<1>1. CASE Top(s)
  <2>1. ASSUME ~LoopEnds PROVE slot' \in [Slots -> SlotState]
    <3>1. PICK place \in SlotPlaces :
            slot' = [slot EXCEPT ![s] = [Fresh(place) EXCEPT !.e = engines]]
      BY <1>1, <2>1 DEF Top
    <3>2. [Fresh(place) EXCEPT !.e = engines] \in SlotState
      BY FreshTyped DEF SlotState
    <3>3. QED
      BY <3>1, <3>2
  <2>2. slot' \in [Slots -> SlotState]
    BY <1>1, <2>1 DEF Top
  <2>3. QED
    BY <1>1, <2>2 DEF Top
<1>2. CASE WakeSlot(s)
  BY <1>2 DEF WakeSlot
<1>3. CASE ClaimGranted(s)
  <2>1. PICK p \in Pairs :
          /\ lease' = [lease EXCEPT ![p] = "mine"]
          /\ slot' = [slot EXCEPT ![s] = Holding(slot[s].e, p)]
    BY <1>3 DEF ClaimGranted
  <2>2. slot' \in [Slots -> SlotState]
    BY <2>1, UpdatesTyped
  <2>3. QED
    BY <1>3, <2>1, <2>2 DEF ClaimGranted
<1>4. CASE ClaimEmpty(s)
  BY <1>4 DEF ClaimEmpty
<1>5. CASE ClaimBanned(s)
  BY <1>5 DEF ClaimBanned
<1>6. CASE ClaimFails(s)
  BY <1>6, RequestTyped DEF ClaimFails, Fails, At, Calling
<1>7. CASE Granted(s)
  BY <1>7 DEF Granted
<1>8. CASE Play(s)
  BY <1>8 DEF Play
<1>9. CASE PlayCancelled(s)
  BY <1>9 DEF PlayCancelled, AfterCancel
<1>10. CASE GiveBack(s)
  <2>1. slot' \in [Slots -> SlotState]
    BY <1>10 DEF GiveBack, AfterGiveBack
  <2>2. /\ lease' \in [Pairs -> {"pending", "mine", "completed"}]
        /\ strays' \subseteq Requests /\ faultless' \in BOOLEAN
    BY <1>10, RequestTyped DEF GiveBack, GivenBack, Fails, At, Calling
  <2>3. QED
    BY <1>10, <2>1, <2>2 DEF GiveBack
<1>11. CASE SubmitAnswered(s)
  BY <1>11 DEF SubmitAnswered, Submitted
<1>12. CASE SubmitFails(s)
  <2>1. ASSUME GivesUp(s) PROVE slot' \in [Slots -> SlotState]
    <3>1. Leave(s, "count") /\ "count" \in SlotPlaces
      BY <1>12, <2>1 DEF SubmitFails
    <3>2. QED
      BY <3>1
  <2>2. ASSUME ~GivesUp(s) PROVE slot' \in [Slots -> SlotState]
    <3>1. stop => slot[s].tries # MaxTriesAfterStop
      BY <2>2 DEF GivesUp
    <3>2. \/ GoTo(s, "backoff") /\ "backoff" \in SlotPlaces
          \/ stop /\ slot' = [slot EXCEPT ![s] = TriedAfterStop(slot[s])]
      BY <1>12, <2>2 DEF SubmitFails
    <3>3. QED
      BY <3>1, <3>2, UpdatesTyped
  <2>3. slot' \in [Slots -> SlotState]
    BY <2>1, <2>2
  <2>4. strays' \subseteq Requests
    BY <1>12, RequestTyped DEF SubmitFails, Fails, At, Calling
  <2>5. QED
    BY <1>12, <2>3, <2>4 DEF SubmitFails, Fails
<1>13. CASE Count(s)
  BY <1>13 DEF Count
<1>14. CASE Reached(s)
  BY <1>14 DEF Reached
<1>15. CASE DeadlinePasses(s)
  <2>1. slot' \in [Slots -> SlotState]
    BY <1>15, UpdatesTyped DEF DeadlinePasses
  <2>2. QED
    BY <1>15, <2>1 DEF DeadlinePasses
<1>16. CASE TryAgain(s)
  BY <1>16 DEF TryAgain
<1>17. QED
  BY <1>1, <1>2, <1>3, <1>4, <1>5, <1>6, <1>7, <1>8, <1>9, <1>10, <1>11, <1>12, <1>13,
     <1>14, <1>15, <1>16 DEF SlotStep

LEMMA TypesAreKept == ClientTypeOK /\ [Next]_vars => ClientTypeOK'
<1> SUFFICES ASSUME ClientTypeOK, [Next]_vars PROVE ClientTypeOK'
  OBVIOUS
<1>1. CASE UNCHANGED vars
  BY <1>1 DEF vars, client, server, ClientTypeOK
<1>2. QED
  BY <1>1, MainKeepsTypes, ServerKeepsTypes, ProcessKeepsTypes, SlotKeepsTypes DEF Next

\* Every variable of the client and of the server it sees keeps its type.
THEOREM ClientTyping == Spec => []ClientTypeOK
BY TypesAreKept, ClientStartsTyped, PTL DEF Spec

-----------------------------------------------------------------------------
(***************************************************************************)
(* --max-pairs.  A slot that counts a pair once the limit is reached sets  *)
(* stop itself before it reads it again, so it never counts another one:   *)
(* each pair beyond the limit has used up a slot of its own.               *)
(***************************************************************************)
Spent == {s \in Slots : \/ slot[s].at \in {"reached", "exited"}
                        \/ stop /\ slot[s].at = "top"}

LimitUsesSlots ==
    MaxPairs > 0 /\ done >= MaxPairs => done - MaxPairs < Cardinality(Spent)

\* No slot runs before the client is registered.
StartsAtZero ==
    main.at = "register" => done = 0 /\ \A s \in Slots : slot[s].at = "exited"

LimitInv == ClientTypeOK /\ StartsAtZero /\ LimitUsesSlots

LEMMA SpentIsCounted == IsFiniteSet(Spent) /\ Cardinality(Spent) \in Nat
BY ClientConstants, FS_Subset, FS_CardinalityType DEF Spent

\* Nothing is lost while no spent slot comes back.
LEMMA SpentGrows ==
    ASSUME LimitUsesSlots, done' = done, done \in Nat, Spent \subseteq Spent'
    PROVE  LimitUsesSlots'
<1>1. IsFiniteSet(Spent') /\ Cardinality(Spent') \in Nat
  <2>1. Spent' \subseteq Slots
    BY DEF Spent
  <2>2. QED
    BY <2>1, ClientConstants, FS_Subset, FS_CardinalityType
<1>2. Cardinality(Spent) <= Cardinality(Spent')
  BY <1>1, FS_Subset
<1>3. QED
  BY <1>1, <1>2, SpentIsCounted, ClientConstants DEF LimitUsesSlots

\* What a step of slot s does to the places of the slots.
Moves(s, place) ==
    /\ slot'[s].at = place
    /\ \A u \in Slots : u # s => slot'[u] = slot[u]

LEMMA LeaveMoves ==
    ASSUME slot \in [Slots -> SlotState], NEW s \in Slots, NEW place, Leave(s, place)
    PROVE  Moves(s, place)
BY DEF Leave, Fresh, Moves

LEMMA GoToMoves ==
    ASSUME slot \in [Slots -> SlotState], NEW s \in Slots, NEW place, GoTo(s, place)
    PROVE  Moves(s, place)
<1>1. [slot[s] EXCEPT !.at = place].at = place
  BY DEF SlotState
<1>2. slot' = [slot EXCEPT ![s] = [slot[s] EXCEPT !.at = place]]
  BY DEF GoTo
<1>3. QED
  BY <1>1, <1>2 DEF Moves

LEMMA SlotStepMoves ==
    ASSUME ClientTypeOK, NEW s \in Slots, SlotStep(s) \/ DeadlinePasses(s), ~Count(s)
    PROVE  /\ \A u \in Slots : u # s => slot'[u] = slot[u]
           /\ s \in Spent =>
                slot'[s].at = "exited" \/ (stop' /\ slot'[s].at = "top")
           /\ stop => stop'
           /\ done' = done /\ main' = main
<1>1. CASE Top(s)
  <2>1. slot[s].at = "top" /\ stop' = stop /\ done' = done /\ main' = main
    BY <1>1 DEF Top, At
  <2>2. \A u \in Slots : u # s => slot'[u] = slot[u]
    BY <1>1 DEF Top, Leave, ClientTypeOK
  <2>3. ASSUME s \in Spent PROVE slot'[s].at = "exited"
    <3>1. stop = TRUE
      BY <2>1, <2>3 DEF Spent, ClientTypeOK
    <3>2. Leave(s, "exited")
      BY <1>1, <3>1 DEF Top, LoopEnds
    <3>3. QED
      BY <3>2, LeaveMoves DEF Moves, ClientTypeOK
  <2>4. QED
    BY <2>1, <2>2, <2>3
<1> USE LeaveMoves, GoToMoves DEF ClientTypeOK, Moves, Spent, At
<1>2. CASE WakeSlot(s)
  BY <1>2 DEF WakeSlot
<1>3. CASE ClaimGranted(s)
  BY <1>3 DEF ClaimGranted
<1>4. CASE ClaimEmpty(s)
  BY <1>4 DEF ClaimEmpty
<1>5. CASE ClaimBanned(s)
  BY <1>5 DEF ClaimBanned
<1>6. CASE ClaimFails(s)
  BY <1>6 DEF ClaimFails
<1>7. CASE Granted(s)
  BY <1>7 DEF Granted
<1>8. CASE Play(s)
  BY <1>8 DEF Play
<1>9. CASE PlayCancelled(s)
  BY <1>9 DEF PlayCancelled
<1>10. CASE GiveBack(s)
  BY <1>10 DEF GiveBack
<1>11. CASE SubmitAnswered(s)
  BY <1>11 DEF SubmitAnswered
<1>12. CASE SubmitFails(s)
  BY <1>12 DEF SubmitFails
<1>13. CASE Reached(s)
  BY <1>13 DEF Reached
<1>14. CASE DeadlinePasses(s)
  BY <1>14 DEF DeadlinePasses, Submitting
<1>15. CASE TryAgain(s)
  BY <1>15 DEF TryAgain
<1>16. QED
  BY <1>1, <1>2, <1>3, <1>4, <1>5, <1>6, <1>7, <1>8, <1>9, <1>10, <1>11, <1>12, <1>13,
     <1>14, <1>15 DEF SlotStep

LEMMA CountKeepsLimit ==
    ASSUME LimitInv, NEW s \in Slots, Count(s)
    PROVE  LimitUsesSlots'
<1>1. done' = done + 1 /\ done \in Nat /\ stop' = stop /\ s \notin Spent
  BY DEF LimitInv, ClientTypeOK, Count, Spent, At
<1> SUFFICES ASSUME MaxPairs > 0, done' >= MaxPairs
             PROVE  done' - MaxPairs < Cardinality(Spent)'
  BY DEF LimitUsesSlots
<1>2. done + 1 >= MaxPairs /\ MaxPairs > 0
  BY <1>1
<1>3. LimitReached
  BY <1>2 DEF LimitReached
<1>4. Moves(s, "reached")
  BY <1>3, LeaveMoves DEF Count, LimitInv, ClientTypeOK
<1>5. Spent' = Spent \cup {s}
  BY <1>1, <1>4 DEF Spent, Moves
<1>6. Cardinality(Spent') = Cardinality(Spent) + 1
  BY <1>1, <1>5, SpentIsCounted, FS_AddElement
<1>7. CASE done >= MaxPairs
  BY <1>1, <1>2, <1>6, <1>7, SpentIsCounted, ClientConstants DEF LimitInv, LimitUsesSlots
<1>8. CASE done + 1 = MaxPairs
  BY <1>1, <1>6, <1>8, SpentIsCounted, ClientConstants
<1>9. QED
  BY <1>1, <1>2, <1>7, <1>8, ClientConstants

LEMMA LimitSteps ==
    LimitInv /\ [Next]_vars => StartsAtZero' /\ LimitUsesSlots'
<1> SUFFICES ASSUME LimitInv, [Next]_vars PROVE StartsAtZero' /\ LimitUsesSlots'
  OBVIOUS
<1>1. done \in Nat
  BY DEF LimitInv, ClientTypeOK
<1>2. ASSUME UNCHANGED <<done, slot, stop>>, main'.at = "register" => main.at = "register"
      PROVE  StartsAtZero' /\ LimitUsesSlots'
  BY <1>2 DEF LimitInv, StartsAtZero, LimitUsesSlots, Spent
<1>3. CASE MainStep
  <2>1. CASE Heartbeat
    <3>1. Spent \subseteq Spent' /\ done' = done
      BY <2>1 DEF Heartbeat, Spent
    <3>2. main'.at # "register"
      BY <2>1 DEF Heartbeat, Rest, MainTo, LimitInv, ClientTypeOK
    <3>3. QED
      BY <1>1, <3>1, <3>2, SpentGrows DEF LimitInv, StartsAtZero
  <2>2. CASE ~Heartbeat
    <3>1. UNCHANGED <<done, slot, stop>> /\ main'.at # "register"
      BY <1>3, <2>2 DEF MainStep, PollFails, ReadActive, Decide, Build, Wake, Join, Rest,
                        MainTo, LimitInv, ClientTypeOK
    <3>2. QED
      BY <1>2, <3>1
  <2>3. QED
    BY <2>1, <2>2
<1>4. CASE ServerStep
  <2>1. UNCHANGED client
    BY <1>4 DEF ServerStep, Stray, TestEnds, TestStarts, Ban, LeaseExpires, OthersComplete
  <2>2. QED
    BY <1>2, <2>1 DEF client
<1>5. CASE Start
  <2>1. done' = 0 /\ slot' = [s \in Slots |-> Fresh("exited")]
    BY <1>5 DEF Start
  <2>2. StartsAtZero'
    BY <2>1 DEF StartsAtZero, Fresh
  <2>3. QED
    BY <2>1, <2>2, ClientConstants DEF LimitUsesSlots
<1>6. CASE Register
  <2>1. main.at = "register" /\ done = 0 /\ done' = 0 /\ main'.at # "register"
    BY <1>6 DEF Register, Rest, MainTo, LimitInv, ClientTypeOK, StartsAtZero
  <2>2. QED
    BY <2>1, ClientConstants DEF StartsAtZero, LimitUsesSlots
<1>7. CASE Signal
  <2>1. Spent \subseteq Spent' /\ done' = done /\ main' = main /\ slot' = slot
    BY <1>7 DEF Signal, Spent
  <2>2. QED
    BY <1>1, <2>1, SpentGrows DEF LimitInv, StartsAtZero
<1>8. CASE Crash
  <2>1. /\ main'.at = "down" /\ done' = done
        /\ slot' = [s \in Slots |-> Fresh("exited")]
    BY <1>8 DEF Crash
  <2>2. Spent \subseteq Spent'
    BY <2>1 DEF Spent, Fresh
  <2>3. QED
    BY <1>1, <2>1, <2>2, SpentGrows DEF LimitInv, StartsAtZero
<1>9. ASSUME NEW s \in Slots, SlotStep(s) \/ DeadlinePasses(s)
      PROVE  StartsAtZero' /\ LimitUsesSlots'
  <2>1. main' = main /\ main.at # "register"
    BY <1>9 DEF LimitInv, StartsAtZero, SlotStep, Top, WakeSlot, ClaimGranted, ClaimEmpty,
                ClaimBanned, ClaimFails, Granted, Play, PlayCancelled, GiveBack,
                SubmitAnswered, SubmitFails, TryAgain, Count, Reached, DeadlinePasses,
                Submitting, At
  <2>2. CASE Count(s)
    BY <2>1, <2>2, CountKeepsLimit DEF StartsAtZero
  <2>3. CASE ~Count(s)
    <3>1. Spent \subseteq Spent' /\ done' = done
      BY <1>9, <2>3, SlotStepMoves DEF Spent, LimitInv
    <3>2. QED
      BY <1>1, <2>1, <3>1, SpentGrows DEF LimitInv, StartsAtZero
  <2>4. QED
    BY <2>2, <2>3
<1>10. CASE UNCHANGED vars
  BY <1>2, <1>10 DEF vars, client
<1>11. QED
  BY <1>3, <1>4, <1>5, <1>6, <1>7, <1>8, <1>9, <1>10 DEF Next

\* A client with n slots plays at most --max-pairs + n - 1 pairs, however the
\* counts, the signals and the looks at the stop flag interleave.
THEOREM OvershootIsBounded == Spec => []PairsBounded
<1>1. Init => LimitInv
  BY ClientStartsTyped, ClientConstants DEF Init, LimitInv, StartsAtZero, LimitUsesSlots
<1>2. LimitInv /\ [Next]_vars => LimitInv'
  <2> SUFFICES ASSUME LimitInv, [Next]_vars PROVE LimitInv'
    OBVIOUS
  <2>1. ClientTypeOK'
    BY TypesAreKept DEF LimitInv
  <2>2. QED
    BY <2>1, LimitSteps DEF LimitInv
<1>3. LimitInv => PairsBounded
  <2> SUFFICES ASSUME LimitInv PROVE PairsBounded
    OBVIOUS
  <2>1. Cardinality(Slots) \in Nat /\ Cardinality(Slots) > 0
    BY ClientConstants, FS_CardinalityType, FS_EmptySet
  <2>2. Cardinality(Spent) <= Cardinality(Slots)
    BY ClientConstants, FS_Subset DEF Spent
  <2>3. QED
    BY <2>1, <2>2, SpentIsCounted, ClientConstants
    DEF LimitInv, LimitUsesSlots, ClientTypeOK, PairsBounded
<1>4. QED
  BY <1>1, <1>2, <1>3, PTL DEF Spec
-----------------------------------------------------------------------------
(***************************************************************************)
(* What a slot is at work on.                                              *)
(***************************************************************************)
\* A place between a claim and the answer to its result or its return.
Busy == {"granted", "playing", "submit", "backoff", "giveback"}

Holds(s, p) == slot[s].at \in Busy /\ slot[s].pair = p

\* The step of a slot leaves the others alone, and only a granted claim makes
\* it play.
LEMMA OwnStep ==
    ASSUME ClientTypeOK, NEW s \in Slots, SlotStep(s) \/ DeadlinePasses(s)
    PROVE  /\ \A u \in Slots : u # s => slot'[u] = slot[u]
           /\ main' = main /\ active' = active /\ newest' = newest /\ banned' = banned
<1>1. CASE Count(s)
  BY <1>1, LeaveMoves DEF Count, server, Moves, ClientTypeOK
<1>2. CASE ~Count(s)
  <2>1. active' = active /\ newest' = newest /\ banned' = banned
    BY <1>2 DEF SlotStep, Top, WakeSlot, ClaimGranted, ClaimEmpty, ClaimBanned, ClaimFails,
                Granted, Play, PlayCancelled, GiveBack, SubmitAnswered, SubmitFails,
                TryAgain, Reached, DeadlinePasses, server
  <2>2. QED
    BY <1>2, <2>1, SlotStepMoves
<1>3. QED
  BY <1>1, <1>2

\* Going to a place keeps the pair and the engines.
LEMMA GoToKeeps ==
    ASSUME slot \in [Slots -> SlotState], NEW s \in Slots, NEW place, GoTo(s, place)
    PROVE  slot'[s].pair = slot[s].pair /\ slot'[s].e = slot[s].e
<1>1. slot'[s] = [slot[s] EXCEPT !.at = place]
  BY DEF GoTo
<1>2. QED
  BY <1>1 DEF SlotState

LEMMA LeaveTo ==
    ASSUME slot \in [Slots -> SlotState], NEW s \in Slots, NEW place, Leave(s, place)
    PROVE  slot'[s] = Fresh(place)
BY DEF Leave

LEMMA LateKeeps ==
    ASSUME slot \in [Slots -> SlotState], NEW s \in Slots, DeadlinePasses(s)
    PROVE  /\ slot'[s].at = slot[s].at /\ slot[s].at \in {"submit", "backoff"}
           /\ slot'[s].pair = slot[s].pair /\ slot'[s].e = slot[s].e
<1>1. slot'[s] = Late(slot[s]) /\ slot[s].at \in {"submit", "backoff"}
  BY DEF DeadlinePasses, Submitting
<1>2. QED
  BY <1>1 DEF Late, SlotState

\* A slot begins to play where the claim was compared with the engines.
LEMMA StartsToPlay ==
    ASSUME ClientTypeOK, NEW s \in Slots, SlotStep(s) \/ DeadlinePasses(s),
           slot'[s].at = "playing"
    PROVE  TestOf[slot'[s].pair] = slot'[s].e
<1>1. slot \in [Slots -> SlotState]
  BY DEF ClientTypeOK
<1>2. ASSUME NEW place, Leave(s, place), place # "playing" PROVE FALSE
  BY <1>1, <1>2, LeaveMoves DEF Moves
<1>3. ASSUME NEW place, GoTo(s, place), place # "playing" PROVE FALSE
  BY <1>1, <1>3, GoToMoves DEF Moves
<1>4. ~DeadlinePasses(s)
  BY <1>1, LateKeeps
<1>5. ~Top(s)
  <2>1. ASSUME NEW place \in {"sleep", "claim"}, NEW e PROVE [Fresh(place) EXCEPT !.e = e].at # "playing"
    BY DEF Fresh
  <2>2. ASSUME Top(s), ~LoopEnds PROVE FALSE
    <3>1. slot'[s] = [Fresh(IF engines = None THEN "sleep" ELSE "claim") EXCEPT !.e = engines]
      BY <1>1, <2>2 DEF Top
    <3>2. QED
      BY <2>1, <3>1
  <2>3. QED
    BY <1>2, <2>2 DEF Top
<1>6. ~ClaimGranted(s)
  BY <1>1 DEF ClaimGranted, Holding
<1>7. ~(WakeSlot(s) \/ ClaimEmpty(s) \/ ClaimBanned(s) \/ ClaimFails(s) \/ SubmitAnswered(s)
        \/ Count(s) \/ Reached(s))
  BY <1>2 DEF WakeSlot, ClaimEmpty, ClaimBanned, ClaimFails, SubmitAnswered, Count, Reached
<1>8. ~GiveBack(s)
  BY <1>2 DEF GiveBack, AfterGiveBack
<1>9. ~(Play(s) \/ PlayCancelled(s) \/ TryAgain(s))
  BY <1>3 DEF Play, PlayCancelled, AfterCancel, TryAgain
<1>10. ~SubmitFails(s)
  <2>1. ASSUME slot' = [slot EXCEPT ![s] = TriedAfterStop(@)] PROVE FALSE
    <3>1. slot'[s] = TriedAfterStop(slot[s])
      BY <1>1, <2>1
    <3>2. slot'[s].at = "backoff"
      BY <1>1, <3>1 DEF TriedAfterStop, SlotState
    <3>3. QED
      BY <3>2
  <2>2. QED
    BY <1>2, <1>3, <2>1 DEF SubmitFails
<1>11. Granted(s)
  BY <1>4, <1>5, <1>6, <1>7, <1>8, <1>9, <1>10, Zenon DEF SlotStep
<1>12. SameTest(s) /\ GoTo(s, "playing")
  BY <1>3, <1>11 DEF Granted
<1>13. QED
  BY <1>1, <1>12, GoToKeeps DEF SameTest

\* No slot works while no process runs, or before it is registered.
IdleUnlessUp ==
    main.at \in {"down", "ended", "register"} => \A s \in Slots : slot[s].at = "exited"

WorkInv == ClientTypeOK /\ PlaysItsTest /\ IdleUnlessUp

LEMMA WorkSteps == WorkInv /\ [Next]_vars => PlaysItsTest' /\ IdleUnlessUp'
<1> SUFFICES ASSUME WorkInv, [Next]_vars PROVE PlaysItsTest' /\ IdleUnlessUp'
  OBVIOUS
<1>1. main \in [at : MainPlaces, seen : Tests \cup {None}] /\ ClientTypeOK
  BY DEF WorkInv, ClientTypeOK
<1>2. ASSUME slot' = slot,
             main'.at \in {"down", "ended", "register"} => \A s \in Slots : slot[s].at = "exited"
      PROVE  PlaysItsTest' /\ IdleUnlessUp'
  BY <1>2 DEF WorkInv, PlaysItsTest, IdleUnlessUp, At
<1>3. ASSUME NEW place, place # "playing", slot' = [s \in Slots |-> Fresh(place)],
             main'.at \in {"down", "ended", "register"} => place = "exited"
      PROVE  PlaysItsTest' /\ IdleUnlessUp'
  BY <1>3 DEF PlaysItsTest, IdleUnlessUp, At, Fresh
<1>4. ASSUME MainStep, ~Join PROVE slot' = slot /\ main'.at \notin {"down", "ended", "register"}
  BY <1>1, <1>4 DEF MainStep, PollFails, Heartbeat, ReadActive, Decide, Build, Wake, Rest, MainTo
<1>5. CASE MainStep
  <2>1. CASE Join
    BY <1>2, <2>1 DEF Join, At
  <2>2. QED
    BY <1>2, <1>4, <1>5, <2>1
<1>6. CASE ServerStep
  <2>1. UNCHANGED client
    BY <1>6 DEF ServerStep, Stray, TestEnds, TestStarts, Ban, LeaseExpires, OthersComplete
  <2>2. QED
    BY <1>2, <2>1 DEF client, WorkInv, IdleUnlessUp
<1>7. CASE Start
  BY <1>3, <1>7 DEF Start
<1>8. CASE Register
  <2>1. CASE slot' = slot
    <3>1. main.at = "register"
      BY <1>8 DEF Register
    <3>2. QED
      BY <1>2, <2>1, <3>1 DEF WorkInv, IdleUnlessUp
  <2>2. CASE slot' # slot
    BY <1>3, <1>8, <2>2 DEF Register, Rest
  <2>3. QED
    BY <2>1, <2>2
<1>9. CASE Signal
  BY <1>2, <1>9 DEF Signal, WorkInv, IdleUnlessUp
<1>10. CASE Crash
  BY <1>3, <1>10 DEF Crash
<1>11. ASSUME NEW s \in Slots, SlotStep(s) \/ DeadlinePasses(s)
       PROVE  PlaysItsTest' /\ IdleUnlessUp'
  <2>1. /\ \A u \in Slots : u # s => slot'[u] = slot[u]
        /\ main' = main
    BY <1>1, <1>11, OwnStep
  <2>2. slot'[s].at = "playing" => TestOf[slot'[s].pair] = slot'[s].e
    BY <1>1, <1>11, StartsToPlay
  <2>3. PlaysItsTest'
    BY <2>1, <2>2 DEF WorkInv, PlaysItsTest, At
  <2>4. ASSUME main.at \in {"down", "ended", "register"} PROVE FALSE
    <3>1. slot[s].at = "exited"
      BY <2>4 DEF WorkInv, IdleUnlessUp
    <3>2. QED
      BY <1>11, <3>1
      DEF SlotStep, Top, WakeSlot, ClaimGranted, ClaimEmpty, ClaimBanned, ClaimFails, Granted,
          Play, PlayCancelled, GiveBack, SubmitAnswered, SubmitFails, TryAgain, Count, Reached,
          DeadlinePasses, Submitting, At
  <2>5. QED
    BY <2>1, <2>3, <2>4 DEF IdleUnlessUp
<1>12. CASE UNCHANGED vars
  BY <1>2, <1>12 DEF vars, client, WorkInv, IdleUnlessUp
<1>13. QED
  BY <1>5, <1>6, <1>7, <1>8, <1>9, <1>10, <1>11, <1>12 DEF Next

\* Types, what is played and who may work, together.
LEMMA WorkIsKept == Spec => []WorkInv
<1>1. Init => WorkInv
  BY ClientStartsTyped DEF Init, WorkInv, PlaysItsTest, IdleUnlessUp, At, Fresh
<1>2. WorkInv /\ [Next]_vars => WorkInv'
  BY TypesAreKept, WorkSteps DEF WorkInv
<1>3. QED
  BY <1>1, <1>2, PTL DEF Spec

\* A pair is only played with the engines of its own test (the check after the
\* claim), whatever the main thread does to engines_ meanwhile.
THEOREM PairsHaveTheirEngines == Spec => []PlaysItsTest
<1>1. WorkInv => PlaysItsTest
  BY DEF WorkInv
<1>2. QED
  BY <1>1, WorkIsKept, PTL
-----------------------------------------------------------------------------
(***************************************************************************)
(* While no call fails, each pair leased to the client has a slot that is  *)
(* at work on it.                                                          *)
(***************************************************************************)
\* Nothing the server would refuse: a pair of the running test, and no ban.
OfUse(p) == lease[p] = "mine" /\ TestOf[p] = active /\ ~banned

\* Tests become active in order, so nobody has a pair of one to come.
LeasedInTime ==
    /\ active \in {None, newest}
    /\ \A p \in Pairs : lease[p] = "mine" => TestOf[p] <= newest

LeasesAreHeld == \A p \in Pairs : OfUse(p) => \E s \in Slots : Holds(s, p)

LeaseInv ==
    /\ WorkInv /\ LeasedInTime
    /\ faultless => strays = {} /\ LeasesAreHeld

\* A slot at a place of Busy leaves it for another with its pair, but for a
\* return, and an answer to a result.
LEMMA BusyGoesOn ==
    ASSUME ClientTypeOK, NEW s \in Slots, NEW p \in Pairs, Holds(s, p), faultless',
           SlotStep(s) \/ DeadlinePasses(s), ~GiveBack(s), ~SubmitAnswered(s)
    PROVE  slot'[s].at \in Busy /\ slot'[s].pair = p /\ lease' = lease
<1>1. slot \in [Slots -> SlotState] /\ slot[s].at \in Busy /\ slot[s].pair = p
  BY DEF ClientTypeOK, Holds
<1>2. ASSUME NEW place \in Busy, GoTo(s, place)
      PROVE  slot'[s].at \in Busy /\ slot'[s].pair = p
  <2>1. slot'[s].at = place
    BY <1>1, <1>2, GoToMoves DEF Moves
  <2>2. slot'[s].pair = slot[s].pair
    BY <1>1, <1>2, GoToKeeps
  <2>3. QED
    BY <1>1, <2>1, <2>2
<1>3. CASE DeadlinePasses(s)
  BY <1>1, <1>3, LateKeeps DEF DeadlinePasses, server
<1>4. CASE Granted(s)
  BY <1>2, <1>4 DEF Granted, Busy, server
<1>5. CASE Play(s) \/ PlayCancelled(s) \/ TryAgain(s)
  BY <1>2, <1>5 DEF Play, PlayCancelled, TryAgain, AfterCancel, Busy, server
<1>6. ~SubmitFails(s)
  BY DEF SubmitFails, Fails
<1>7. ~(Top(s) \/ WakeSlot(s) \/ ClaimGranted(s) \/ ClaimEmpty(s) \/ ClaimBanned(s)
        \/ ClaimFails(s) \/ Count(s) \/ Reached(s))
  BY <1>1 DEF Top, WakeSlot, ClaimGranted, ClaimEmpty, ClaimBanned, ClaimFails, Count, Reached,
              At, Busy
<1>8. QED
  BY <1>3, <1>4, <1>5, <1>6, <1>7, Zenon DEF SlotStep

\* A step of a slot that is not at work on p.
LEMMA IdleLeases ==
    ASSUME ClientTypeOK, NEW s \in Slots, slot[s].at \notin Busy,
           SlotStep(s) \/ DeadlinePasses(s), ~ClaimGranted(s)
    PROVE  lease' = lease
BY DEF SlotStep, Top, WakeSlot, ClaimEmpty, ClaimBanned, ClaimFails, Granted, Play,
       PlayCancelled, GiveBack, SubmitAnswered, SubmitFails, TryAgain, Count, Reached,
       DeadlinePasses, Submitting, At, Busy, server

LEMMA SlotKeepsLeases ==
    ASSUME LeaseInv, NEW s \in Slots, SlotStep(s) \/ DeadlinePasses(s)
    PROVE  LeasedInTime' /\ (faultless' => strays' = {} /\ LeasesAreHeld')
<1>1. ClientTypeOK /\ slot \in [Slots -> SlotState]
      /\ lease \in [Pairs -> {"pending", "mine", "completed"}]
  BY DEF LeaseInv, WorkInv, ClientTypeOK
<1>2. /\ \A u \in Slots : u # s => slot'[u] = slot[u]
      /\ active' = active /\ newest' = newest /\ banned' = banned
  BY <1>1, OwnStep
<1>3. faultless' => faultless /\ strays' = strays
  BY DEF SlotStep, Top, WakeSlot, ClaimGranted, ClaimEmpty, ClaimBanned, ClaimFails, Granted,
         Play, PlayCancelled, GiveBack, SubmitAnswered, SubmitFails, TryAgain, Count, Reached,
         DeadlinePasses, Fails
\* A lease that is new is one of the running test, and held.
<1>4. ASSUME NEW p \in Pairs, lease'[p] = "mine"
      PROVE  \/ lease[p] = "mine"
             \/ TestOf[p] = active /\ slot'[s].at \in Busy /\ slot'[s].pair = p
  <2>1. CASE ClaimGranted(s)
    <3>1. PICK q \in Pairs : /\ Claimable(q) /\ lease' = [lease EXCEPT ![q] = "mine"]
                             /\ slot' = [slot EXCEPT ![s] = Holding(slot[s].e, q)]
      BY <2>1 DEF ClaimGranted
    <3>2. slot'[s].at = "granted" /\ slot'[s].pair = q /\ TestOf[q] = active
      BY <1>1, <3>1 DEF Holding, Claimable
    <3>3. QED
      BY <1>1, <1>4, <3>1, <3>2 DEF Busy
  <2>2. CASE slot[s].at \notin Busy /\ ~ClaimGranted(s)
    BY <1>1, <1>4, <2>2, IdleLeases
  <2>3. CASE GiveBack(s) \/ SubmitAnswered(s)
    BY <1>1, <1>4, <2>3 DEF GiveBack, SubmitAnswered, GivenBack, Submitted
  <2>4. CASE slot[s].at \in Busy /\ ~GiveBack(s) /\ ~SubmitAnswered(s)
    <3>1. lease' = lease
      BY <2>4 DEF SlotStep, Top, WakeSlot, ClaimGranted, ClaimEmpty, ClaimBanned, ClaimFails,
                  Granted, Play, PlayCancelled, SubmitFails, TryAgain, Count, Reached,
                  DeadlinePasses, At, Busy, server
    <3>2. QED
      BY <1>4, <3>1
  <2>5. QED
    BY <2>1, <2>2, <2>3, <2>4
<1>5. LeasedInTime'
  <2>1. ASSUME NEW p \in Pairs, lease'[p] = "mine" PROVE TestOf[p] <= newest
    <3>1. CASE lease[p] = "mine"
      BY <3>1 DEF LeaseInv, LeasedInTime
    <3>2. CASE TestOf[p] = active
      BY <3>2, ClientConstants DEF LeaseInv, LeasedInTime, Tests
    <3>3. QED
      BY <1>4, <2>1, <3>1, <3>2
  <2>2. QED
    BY <1>2, <2>1 DEF LeaseInv, LeasedInTime
<1>6. ASSUME faultless' PROVE LeasesAreHeld'
  <2>1. SUFFICES ASSUME NEW p \in Pairs, lease'[p] = "mine", TestOf[p] = active, ~banned
                 PROVE  \E u \in Slots : slot'[u].at \in Busy /\ slot'[u].pair = p
    BY <1>2 DEF LeasesAreHeld, OfUse, Holds
  <2>2. CASE lease[p] # "mine"
    BY <1>4, <2>1, <2>2
  <2>3. CASE lease[p] = "mine"
    <3>1. PICK u \in Slots : Holds(u, p)
      BY <1>3, <1>6, <2>1, <2>3 DEF LeaseInv, LeasesAreHeld, OfUse
    <3>2. CASE u # s
      BY <1>2, <3>1, <3>2 DEF Holds
    <3>3. CASE u = s
      <4>1. ~SubmitAnswered(s)
        BY <1>1, <2>1, <2>3, <3>1, <3>3 DEF SubmitAnswered, Submitted, Holds
      <4>2. ~GiveBack(s)
        BY <1>1, <1>6, <2>1, <2>3, <3>1, <3>3 DEF GiveBack, GivenBack, Fails, Holds
      <4>3. QED
        BY <1>1, <1>6, <3>1, <3>3, <4>1, <4>2, BusyGoesOn
    <3>4. QED
      BY <3>2, <3>3
  <2>4. QED
    BY <2>2, <2>3
<1>7. QED
  BY <1>3, <1>5, <1>6 DEF LeaseInv
LEMMA ServerKeepsLeases ==
    LeaseInv /\ ServerStep => LeasedInTime' /\ (faultless' => strays' = {} /\ LeasesAreHeld')
<1> SUFFICES ASSUME LeaseInv, ServerStep
             PROVE  LeasedInTime' /\ (faultless' => strays' = {} /\ LeasesAreHeld')
  OBVIOUS
<1>1. /\ lease \in [Pairs -> {"pending", "mine", "completed"}] /\ newest \in Nat
      /\ TestOf \in [Pairs -> Nat] /\ slot' = slot /\ faultless' = faultless
  <2>1. ClientTypeOK
    BY DEF LeaseInv, WorkInv
  <2>2. newest \in Nat /\ TestOf \in [Pairs -> Nat]
    BY <2>1, ClientConstants DEF ClientTypeOK, Tests
  <2>3. slot' = slot /\ faultless' = faultless
    BY DEF ServerStep, Stray, TestEnds, TestStarts, Ban, LeaseExpires, OthersComplete, client
  <2>4. QED
    BY <2>1, <2>2, <2>3 DEF ClientTypeOK
<1>2. ASSUME \A p \in Pairs : lease'[p] = "mine" => lease[p] = "mine",
             active' = active, newest' = newest, banned => banned',
             strays' \subseteq strays
      PROVE  LeasedInTime' /\ (faultless' => strays' = {} /\ LeasesAreHeld')
  BY <1>1, <1>2 DEF LeaseInv, LeasedInTime, LeasesAreHeld, OfUse, Holds
<1>3. CASE Stray
  <2>1. strays # {} /\ ~faultless /\ active' = active /\ newest' = newest
    BY <1>3 DEF Stray, LeaseInv
  <2>2. ASSUME NEW p \in Pairs, lease'[p] = "mine" PROVE TestOf[p] <= newest
    <3>1. PICK r \in strays :
            \/ \E q \in Pairs : Claimable(q) /\ lease' = [lease EXCEPT ![q] = "mine"]
            \/ lease' = Submitted(r.pair)
            \/ lease' = GivenBack(r.pair)
      BY <1>3 DEF Stray
    <3>2. lease[p] = "mine" \/ TestOf[p] = active
      BY <1>1, <2>2, <3>1 DEF Claimable, Submitted, GivenBack
    <3>3. CASE lease[p] = "mine"
      BY <3>3 DEF LeaseInv, LeasedInTime
    <3>4. CASE TestOf[p] = active
      BY <1>1, <3>4, ClientConstants DEF LeaseInv, LeasedInTime
    <3>5. QED
      BY <3>2, <3>3, <3>4
  <2>3. QED
    BY <1>1, <2>1, <2>2 DEF LeaseInv, LeasedInTime
<1>4. CASE TestEnds
  <2>1. active' = None /\ UNCHANGED <<newest, lease, banned, strays>>
    BY <1>4 DEF TestEnds
  <2>2. \A p \in Pairs : TestOf[p] # None
    BY ClientConstants
  <2>3. QED
    BY <1>1, <2>1, <2>2 DEF LeaseInv, LeasedInTime, LeasesAreHeld, OfUse
<1>5. CASE TestStarts
  <2>1. active' = newest + 1 /\ newest' = newest + 1 /\ UNCHANGED <<lease, banned, strays>>
    BY <1>5 DEF TestStarts
  <2>2. ASSUME NEW p \in Pairs, lease[p] = "mine" PROVE TestOf[p] <= newest
    BY <2>2 DEF LeaseInv, LeasedInTime
  <2>3. ASSUME NEW p \in Pairs, lease[p] = "mine"
        PROVE  TestOf[p] <= newest + 1 /\ TestOf[p] # newest + 1
    BY <1>1, <2>2, <2>3
  <2>4. QED
    BY <1>1, <2>1, <2>3 DEF LeaseInv, LeasedInTime, LeasesAreHeld, OfUse
<1>6. CASE Ban
  BY <1>2, <1>6 DEF Ban
<1>7. ASSUME NEW p \in Pairs, LeaseExpires(p) \/ OthersComplete(p)
      PROVE  LeasedInTime' /\ (faultless' => strays' = {} /\ LeasesAreHeld')
  BY <1>1, <1>2, <1>7 DEF LeaseExpires, OthersComplete
<1>8. QED
  BY <1>3, <1>4, <1>5, <1>6, <1>7 DEF ServerStep

\* Slots that begin or end together had nothing in hand.
LEMMA ProcessKeepsLeases ==
    LeaseInv /\ (MainStep \/ Start \/ Register \/ Signal \/ Crash)
        => LeasedInTime' /\ (faultless' => strays' = {} /\ LeasesAreHeld')
<1> SUFFICES ASSUME LeaseInv, MainStep \/ Start \/ Register \/ Signal \/ Crash
             PROVE  LeasedInTime' /\ (faultless' => strays' = {} /\ LeasesAreHeld')
  OBVIOUS
<1>1. UNCHANGED <<active, newest, lease, banned>>
  BY DEF MainStep, PollFails, Heartbeat, ReadActive, Decide, Build, Wake, Join, Start, Register,
         Signal, Crash, server
<1>2. LeasedInTime'
  BY <1>1 DEF LeaseInv, LeasedInTime
<1>3. ASSUME faultless' PROVE faultless /\ strays' = strays
  BY <1>3 DEF MainStep, PollFails, Heartbeat, ReadActive, Decide, Build, Wake, Join, Start,
              Register, Signal, Crash
<1>4. ASSUME faultless' PROVE LeasesAreHeld'
  <2>1. CASE slot' = slot
    BY <1>1, <1>3, <1>4, <2>1 DEF LeaseInv, LeasesAreHeld, OfUse, Holds
  <2>2. CASE slot' # slot
    <3>1. main.at \in {"down", "ended", "register"}
      BY <1>4, <2>2 DEF MainStep, PollFails, Heartbeat, ReadActive, Decide, Build, Wake, Join,
                        Start, Register, Signal, Crash, Running, LeaseInv, WorkInv, ClientTypeOK
    <3>2. \A s \in Slots, p \in Pairs : ~Holds(s, p)
      BY <3>1 DEF LeaseInv, WorkInv, IdleUnlessUp, Holds, Busy
    <3>3. \A p \in Pairs : ~OfUse(p)
      BY <1>3, <1>4, <3>2 DEF LeaseInv, LeasesAreHeld
    <3>4. QED
      BY <1>1, <3>3 DEF LeasesAreHeld, OfUse
  <2>3. QED
    BY <2>1, <2>2
<1>5. QED
  BY <1>2, <1>3, <1>4 DEF LeaseInv

\* A client that ends in order leaves nothing leased: slot_loop submits or
\* gives back every pair it was granted, whatever the server and the main
\* thread do, unless a call fails, the process dies or the client is banned.
THEOREM NoLeaseIsLeft == Spec => []LeavesNoLease
<1>1. Init => LeaseInv
  <2> SUFFICES ASSUME Init PROVE LeaseInv
    OBVIOUS
  <2>1. WorkInv
    BY ClientStartsTyped DEF Init, WorkInv, PlaysItsTest, IdleUnlessUp, At, Fresh
  <2>2. QED
    BY <2>1 DEF Init, LeaseInv, LeasedInTime, LeasesAreHeld, OfUse
<1>2. LeaseInv /\ [Next]_vars => LeaseInv'
  <2> SUFFICES ASSUME LeaseInv, [Next]_vars PROVE LeaseInv'
    OBVIOUS
  <2>1. WorkInv'
    BY TypesAreKept, WorkSteps DEF WorkInv, LeaseInv
  <2>2. CASE UNCHANGED vars
    BY <2>1, <2>2 DEF vars, client, server, LeaseInv, LeasedInTime, LeasesAreHeld, OfUse, Holds
  <2>3. ASSUME Next PROVE LeasedInTime' /\ (faultless' => strays' = {} /\ LeasesAreHeld')
    BY <2>3, ServerKeepsLeases, ProcessKeepsLeases, SlotKeepsLeases, Zenon DEF Next
  <2>4. QED
    BY <2>1, <2>2, <2>3 DEF LeaseInv
<1>3. LeaseInv => LeavesNoLease
  BY DEF LeaseInv, WorkInv, IdleUnlessUp, LeasesAreHeld, OfUse, Holds, Busy, LeavesNoLease
<1>4. QED
  BY <1>1, <1>2, <1>3, PTL DEF Spec

-----------------------------------------------------------------------------
(***************************************************************************)
(* The way to the end after a stop, counted in steps: the attempts of      *)
(* submit_with_retry are numbered from the stop, nothing else of slot_loop *)
(* comes back, and run() polls at most once more.                          *)
(***************************************************************************)
SlotWork(r) ==
    CASE r.at = "exited" -> 0
      [] r.at = "top" -> 1
      [] r.at \in {"sleep", "reached"} -> 2
      [] r.at \in {"count", "giveback"} -> 3
      [] r.at = "submit" -> 4 + 2 * (MaxTriesAfterStop - r.tries)
      [] r.at = "backoff" -> 5 + 2 * (MaxTriesAfterStop - r.tries)
      [] r.at = "playing" -> 12
      [] r.at = "granted" -> 13
      [] r.at = "claim" -> 14

MainWork(m) ==
    CASE m.at \in {"down", "ended"} -> 0
      [] m.at \in {"register", "joining"} -> 1
      [] m.at = "sleep" -> 2
      [] m.at = "build" -> 3
      [] m.at = "decide" -> 4
      [] m.at = "active" -> 5
      [] m.at = "poll" -> 6

LEMMA SlotWorkOf ==
    ASSUME NEW r \in SlotState
    PROVE  /\ r.at = "exited" => SlotWork(r) = 0
           /\ r.at = "top" => SlotWork(r) = 1
           /\ r.at \in {"sleep", "reached"} => SlotWork(r) = 2
           /\ r.at \in {"count", "giveback"} => SlotWork(r) = 3
           /\ r.at = "submit" => SlotWork(r) = 10 - 2 * r.tries
           /\ r.at = "backoff" => SlotWork(r) = 11 - 2 * r.tries
           /\ r.at = "playing" => SlotWork(r) = 12
           /\ r.at = "granted" => SlotWork(r) = 13
           /\ r.at = "claim" => SlotWork(r) = 14
           /\ r.tries \in 0..3
           /\ SlotWork(r) \in 0..14
<1>1. r.tries \in 0..3 /\ r.at \in SlotPlaces
  BY DEF SlotState, MaxTriesAfterStop
<1>2. QED
  BY <1>1 DEF SlotWork, SlotPlaces, MaxTriesAfterStop

LEMMA MainWorkOf ==
    ASSUME NEW m \in [at : MainPlaces, seen : Tests \cup {None}]
    PROVE  /\ m.at \in {"down", "ended"} => MainWork(m) = 0
           /\ m.at \in {"register", "joining"} => MainWork(m) = 1
           /\ m.at = "sleep" => MainWork(m) = 2
           /\ m.at = "build" => MainWork(m) = 3
           /\ m.at = "decide" => MainWork(m) = 4
           /\ m.at = "active" => MainWork(m) = 5
           /\ m.at = "poll" => MainWork(m) = 6
           /\ MainWork(m) \in 0..6
BY DEF MainWork, MainPlaces

LEMMA FreshWork ==
    ASSUME ClientTypeOK, NEW s \in Slots, NEW place \in SlotPlaces, Leave(s, place)
    PROVE  slot'[s] \in SlotState /\ slot'[s].at = place
<1>1. slot'[s] = Fresh(place)
  BY LeaveTo DEF ClientTypeOK
<1>2. Fresh(place).at = place
  BY DEF Fresh
<1>3. QED
  BY <1>1, <1>2, FreshTyped

LEMMA GoToWork ==
    ASSUME ClientTypeOK, NEW s \in Slots, NEW place \in SlotPlaces, GoTo(s, place)
    PROVE  slot'[s] \in SlotState /\ slot'[s].at = place /\ slot'[s].tries = slot[s].tries
<1>1. slot'[s] = [slot[s] EXCEPT !.at = place] /\ slot[s] \in SlotState
  BY DEF GoTo, ClientTypeOK
<1>2. QED
  BY <1>1 DEF SlotState

\* An attempt after the stop is numbered, and the last one gives up.
LEMMA AttemptsCountDown ==
    ASSUME ClientTypeOK, NEW s \in Slots, stop, SubmitFails(s)
    PROVE  SlotWork(slot'[s]) < SlotWork(slot[s])
<1>1. slot[s] \in SlotState /\ slot[s].at = "submit"
  BY DEF SubmitFails, At, ClientTypeOK
<1>2. CASE Leave(s, "count")
  <2>1. slot'[s] \in SlotState /\ slot'[s].at = "count"
    BY <1>2, FreshWork DEF SlotPlaces
  <2>2. QED
    BY <1>1, <2>1, SlotWorkOf
<1>3. CASE ~GivesUp(s) /\ slot' = [slot EXCEPT ![s] = TriedAfterStop(@)]
  <2>1. slot'[s] = TriedAfterStop(slot[s])
    BY <1>3 DEF ClientTypeOK
  <2>2. slot[s].tries # MaxTriesAfterStop
    BY <1>3 DEF GivesUp
  <2>3. slot'[s] \in SlotState
    BY <1>1, <2>1, <2>2, UpdatesTyped
  <2>4. slot'[s].at = "backoff" /\ slot'[s].tries = slot[s].tries + 1
    BY <1>1, <2>1 DEF TriedAfterStop, SlotState
  <2>5. QED
    BY <1>1, <2>3, <2>4, SlotWorkOf
<1>4. QED
  BY <1>2, <1>3 DEF SubmitFails

LEMMA SlotCountsDown ==
    ASSUME ClientTypeOK, NEW s \in Slots, stop, SlotStep(s)
    PROVE  SlotWork(slot'[s]) < SlotWork(slot[s])
<1>1. slot[s] \in SlotState
  BY DEF ClientTypeOK
<1>2. CASE Top(s)
  <2>1. slot[s].at = "top" /\ Leave(s, "exited")
    BY <1>2 DEF Top, At, LoopEnds
  <2>2. slot'[s] \in SlotState /\ slot'[s].at = "exited"
    BY <2>1, FreshWork DEF SlotPlaces
  <2>3. QED
    BY <1>1, <2>1, <2>2, SlotWorkOf
<1>3. CASE WakeSlot(s) \/ Reached(s)
  <2>1. slot[s].at \in {"sleep", "reached"} /\ Leave(s, "top")
    BY <1>3 DEF WakeSlot, Reached, At
  <2>2. slot'[s] \in SlotState /\ slot'[s].at = "top"
    BY <2>1, FreshWork DEF SlotPlaces
  <2>3. QED
    BY <1>1, <2>1, <2>2, SlotWorkOf
<1>4. CASE ClaimGranted(s)
  <2>1. slot[s].at = "claim"
    BY <1>4 DEF ClaimGranted, At
  <2>2. PICK p \in Pairs : slot' = [slot EXCEPT ![s] = Holding(slot[s].e, p)]
    BY <1>4 DEF ClaimGranted
  <2>3. slot'[s] = Holding(slot[s].e, p)
    BY <2>2 DEF ClientTypeOK
  <2>4. slot'[s] \in SlotState /\ slot'[s].at = "granted"
    BY <1>1, <2>3, UpdatesTyped DEF Holding
  <2>5. QED
    BY <1>1, <2>1, <2>4, SlotWorkOf
<1>5. CASE ClaimEmpty(s) \/ ClaimBanned(s) \/ ClaimFails(s)
  <2>1. slot[s].at = "claim" /\ (Leave(s, "sleep") \/ Leave(s, "exited"))
    BY <1>5 DEF ClaimEmpty, ClaimBanned, ClaimFails, At
  <2>2. slot'[s] \in SlotState /\ slot'[s].at \in {"sleep", "exited"}
    BY <2>1, FreshWork DEF SlotPlaces
  <2>3. QED
    BY <1>1, <2>1, <2>2, SlotWorkOf
<1>6. CASE Granted(s)
  <2>1. slot[s].at = "granted" /\ (GoTo(s, "playing") \/ GoTo(s, "giveback"))
    BY <1>6 DEF Granted, At
  <2>2. slot'[s] \in SlotState /\ slot'[s].at \in {"playing", "giveback"}
    BY <2>1, GoToWork DEF SlotPlaces
  <2>3. QED
    BY <1>1, <2>1, <2>2, SlotWorkOf
<1>7. CASE Play(s) \/ PlayCancelled(s)
  <2>1. slot[s].at = "playing" /\ (GoTo(s, "submit") \/ GoTo(s, "giveback"))
    BY <1>7 DEF Play, PlayCancelled, AfterCancel, At
  <2>2. slot'[s] \in SlotState /\ slot'[s].at \in {"submit", "giveback"}
    BY <2>1, GoToWork DEF SlotPlaces
  <2>3. QED
    BY <1>1, <2>1, <2>2, SlotWorkOf
<1>8. CASE GiveBack(s)
  <2>1. slot[s].at = "giveback" /\ (Leave(s, "exited") \/ Leave(s, "sleep"))
    BY <1>8 DEF GiveBack, AfterGiveBack, At
  <2>2. slot'[s] \in SlotState /\ slot'[s].at \in {"exited", "sleep"}
    BY <2>1, FreshWork DEF SlotPlaces
  <2>3. QED
    BY <1>1, <2>1, <2>2, SlotWorkOf
<1>9. CASE SubmitAnswered(s)
  <2>1. slot[s].at = "submit" /\ Leave(s, "count")
    BY <1>9 DEF SubmitAnswered, At
  <2>2. slot'[s] \in SlotState /\ slot'[s].at = "count"
    BY <2>1, FreshWork DEF SlotPlaces
  <2>3. QED
    BY <1>1, <2>1, <2>2, SlotWorkOf
<1>10. CASE SubmitFails(s)
  BY <1>10, AttemptsCountDown
<1>11. CASE TryAgain(s)
  <2>1. slot[s].at = "backoff" /\ GoTo(s, "submit")
    BY <1>11 DEF TryAgain, At
  <2>2. slot'[s] \in SlotState /\ slot'[s].at = "submit" /\ slot'[s].tries = slot[s].tries
    BY <2>1, GoToWork DEF SlotPlaces
  <2>3. QED
    BY <1>1, <2>1, <2>2, SlotWorkOf
<1>12. CASE Count(s)
  <2>1. slot[s].at = "count" /\ (Leave(s, "reached") \/ Leave(s, "top"))
    BY <1>12 DEF Count, At
  <2>2. slot'[s] \in SlotState /\ slot'[s].at \in {"reached", "top"}
    BY <2>1, FreshWork DEF SlotPlaces
  <2>3. QED
    BY <1>1, <2>1, <2>2, SlotWorkOf
<1>13. QED
  BY <1>2, <1>3, <1>4, <1>5, <1>6, <1>7, <1>8, <1>9, <1>10, <1>11, <1>12 DEF SlotStep

\* run() leaves its loop when it next wakes.
LEMMA MainCountsDown ==
    ASSUME ClientTypeOK, ClientTypeOK', stop, MainStep
    PROVE  MainWork(main') < MainWork(main) /\ slot' = slot /\ stop'
<1>1. /\ main \in [at : MainPlaces, seen : Tests \cup {None}]
      /\ main' \in [at : MainPlaces, seen : Tests \cup {None}]
  BY DEF ClientTypeOK
<1>2. ASSUME NEW place, MainTo(place) PROVE main'.at = place
  BY <1>1, <1>2 DEF MainTo
<1>3. ASSUME Rest PROVE main'.at = "sleep"
  BY <1>3 DEF Rest
<1>4. CASE PollFails
  <2>1. main.at \in {"poll", "active"} /\ main'.at = "sleep" /\ slot' = slot /\ stop' = stop
    BY <1>3, <1>4 DEF PollFails
  <2>2. QED
    BY <1>1, <2>1, MainWorkOf
<1>5. CASE Heartbeat
  <2>1. main.at = "poll" /\ main'.at \in {"sleep", "active"} /\ slot' = slot /\ stop'
    BY <1>2, <1>3, <1>5 DEF Heartbeat
  <2>2. QED
    BY <1>1, <2>1, MainWorkOf
<1>6. CASE ReadActive
  <2>1. main.at = "active" /\ main'.at = "decide" /\ slot' = slot /\ stop' = stop
    BY <1>6 DEF ReadActive
  <2>2. QED
    BY <1>1, <2>1, MainWorkOf
<1>7. CASE Decide
  <2>1. main.at = "decide" /\ slot' = slot /\ stop' = stop
    BY <1>7 DEF Decide
  <2>2. Rest \/ MainTo("build")
    BY <1>7 DEF Decide
  <2>3. main'.at \in {"sleep", "build"}
    BY <1>2, <1>3, <2>2
  <2>4. QED
    BY <1>1, <2>1, <2>3, MainWorkOf
<1>8. CASE Build
  <2>1. main.at = "build" /\ main'.at = "sleep" /\ slot' = slot /\ stop' = stop
    BY <1>3, <1>8 DEF Build
  <2>2. QED
    BY <1>1, <2>1, MainWorkOf
<1>9. CASE Wake
  <2>1. main.at = "sleep" /\ MainTo("joining") /\ slot' = slot /\ stop' = stop
    BY <1>9 DEF Wake
  <2>2. main'.at = "joining"
    BY <1>2, <2>1
  <2>3. QED
    BY <1>1, <2>1, <2>2, MainWorkOf
<1>10. CASE Join
  <2>1. main.at = "joining" /\ MainTo("ended") /\ slot' = slot /\ stop' = stop
    BY <1>10 DEF Join
  <2>2. main'.at = "ended"
    BY <1>2, <2>1
  <2>3. QED
    BY <1>1, <2>1, <2>2, MainWorkOf
<1>11. QED
  BY <1>4, <1>5, <1>6, <1>7, <1>8, <1>9, <1>10 DEF MainStep

\* A thread either comes nearer to its end or stays where it is.
Nearer ==
    /\ stop'
    /\ \A s \in Slots : \/ SlotWork(slot'[s]) < SlotWork(slot[s])
                        \/ /\ SlotWork(slot'[s]) = SlotWork(slot[s])
                           /\ slot'[s].at = slot[s].at
    /\ \A s \in Slots : SlotWork(slot[s]) \in 0..14
    /\ MainWork(main) \in 0..6
    /\ MainWork(main') < MainWork(main) \/ main' = main

LEMMA ThreadsComeNearer ==
    ASSUME ClientTypeOK, ClientTypeOK', [Next]_vars, stop, Running
    PROVE  Nearer
<1>0. slot \in [Slots -> SlotState] /\ slot' \in [Slots -> SlotState]
  BY DEF ClientTypeOK
<1>a. (\A s \in Slots : SlotWork(slot[s]) \in 0..14) /\ MainWork(main) \in 0..6
  BY SlotWorkOf, MainWorkOf DEF ClientTypeOK
<1> USE <1>a
<1>1. CASE UNCHANGED <<stop, slot, main>>
  BY <1>1 DEF Nearer
<1>2. CASE MainStep
  BY <1>2, MainCountsDown DEF Nearer
<1>3. CASE ServerStep
  BY <1>1, <1>3 DEF ServerStep, Stray, TestEnds, TestStarts, Ban, LeaseExpires, OthersComplete,
                    client
<1>4. CASE Register
  <2>1. main.at = "register" /\ MainTo("ended") /\ slot' = slot /\ stop' = stop
    BY <1>4 DEF Register
  <2>2. /\ main \in [at : MainPlaces, seen : Tests \cup {None}]
        /\ main' \in [at : MainPlaces, seen : Tests \cup {None}]
    BY DEF ClientTypeOK
  <2>3. main'.at = "ended"
    BY <2>1, <2>2 DEF MainTo
  <2>4. MainWork(main') < MainWork(main)
    BY <2>1, <2>2, <2>3, MainWorkOf
  <2>5. QED
    BY <2>1, <2>4 DEF Nearer
<1>5. CASE Crash
  <2>1. stop' = stop /\ main'.at = "down" /\ \A s \in Slots : slot'[s].at = "exited"
    BY <1>5 DEF Crash, Fresh
  <2>2. ASSUME NEW s \in Slots
        PROVE  \/ SlotWork(slot'[s]) < SlotWork(slot[s])
               \/ SlotWork(slot'[s]) = SlotWork(slot[s]) /\ slot'[s].at = slot[s].at
    <3>1. slot[s] \in SlotState /\ slot'[s] \in SlotState /\ slot'[s].at = "exited"
      BY <1>0, <2>1
    <3>2. SlotWork(slot'[s]) = 0 /\ SlotWork(slot[s]) \in 0..14
      BY <3>1, SlotWorkOf
    <3>3. slot[s].at # "exited" => SlotWork(slot[s]) # 0
      BY <3>1, SlotWorkOf DEF SlotState, SlotPlaces
    <3>4. QED
      BY <3>1, <3>2, <3>3
  <2>3. MainWork(main') < MainWork(main)
    <3>1. /\ main \in [at : MainPlaces, seen : Tests \cup {None}]
          /\ main' \in [at : MainPlaces, seen : Tests \cup {None}]
      BY DEF ClientTypeOK
    <3>2. main.at \in MainPlaces \ {"down", "ended"}
      BY <3>1 DEF Running
    <3>3. QED
      BY <2>1, <3>1, <3>2, MainWorkOf DEF MainPlaces
  <2>4. QED
    BY <2>1, <2>2, <2>3 DEF Nearer
<1>6. ASSUME NEW s \in Slots, SlotStep(s) PROVE Nearer
  <2>1. SlotWork(slot'[s]) < SlotWork(slot[s])
    BY <1>6, SlotCountsDown
  <2>2. main' = main /\ \A u \in Slots : u # s => slot'[u] = slot[u]
    BY <1>6, OwnStep
  <2>3. stop'
    <3>1. CASE Count(s)
      BY <3>1 DEF Count
    <3>2. CASE ~Count(s)
      BY <1>6, <3>2, SlotStepMoves
    <3>3. QED
      BY <3>1, <3>2
  <2>4. QED
    BY <2>1, <2>2, <2>3 DEF Nearer
<1>7. ASSUME NEW s \in Slots, DeadlinePasses(s) PROVE Nearer
  <2>1. main' = main /\ \A u \in Slots : u # s => slot'[u] = slot[u]
    BY <1>7, OwnStep
  <2>2. slot'[s] = Late(slot[s]) /\ slot[s] \in SlotState /\ stop' = stop
    BY <1>0, <1>7 DEF DeadlinePasses
  <2>3. slot'[s].at = slot[s].at /\ slot'[s].tries = slot[s].tries
    BY <2>2 DEF Late, SlotState
  <2>4. SlotWork(slot'[s]) = SlotWork(slot[s])
    BY <2>3 DEF SlotWork
  <2>5. QED
    BY <2>1, <2>2, <2>3, <2>4 DEF Nearer
<1>8. QED
  <2>1. ~Start /\ ~Signal
    BY DEF Start, Signal
  <2>2. UNCHANGED vars => UNCHANGED <<stop, slot, main>>
    BY DEF vars, client
  <2>3. QED
    BY <1>1, <1>2, <1>3, <1>4, <1>5, <1>6, <1>7, <2>1, <2>2 DEF Next

\* What StopEnds rests on, whatever the server answers or keeps to itself:
\* once stop is set it stays set until the client has ended, and every step of
\* a thread is one of the few it has left, at most fourteen for a slot (three
\* attempts to submit with their sleeps among them) and six for the main
\* thread.  No other thread, no answer and no ban adds to them.
THEOREM StopIsNear == Spec => [][stop /\ Running => Nearer]_vars
<1>1. ClientTypeOK /\ ClientTypeOK' /\ [Next]_vars => [stop /\ Running => Nearer]_vars
  BY ThreadsComeNearer
<1>2. Spec => []ClientTypeOK
  BY ClientTyping
<1>3. QED
  BY <1>1, <1>2, PTL DEF Spec
=============================================================================
