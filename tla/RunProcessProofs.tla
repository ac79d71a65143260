-------------------------- MODULE RunProcessProofs --------------------------
(***************************************************************************)
(* For any number of calls in parallel: types, the end of a killed group,  *)
(* that descriptors leak one way only, and that output is read to its end. *)
(***************************************************************************)
EXTENDS RunProcess, TLAPS

-----------------------------------------------------------------------------
(***************************************************************************)
(* Records.                                                                *)
(***************************************************************************)
LEMMA OwnEnds ==
    ASSUME NEW c \in Calls
    PROVE  /\ {StdinRead(c), StdinWrite(c), OutputRead(c), OutputWrite(c)} \subseteq Ends
           /\ \A i \in {0, 1} : <<c, "in", i>> \in Ends /\ <<c, "out", i>> \in Ends
           /\ {StdinRead(c), StdinWrite(c), OutputRead(c), OutputWrite(c)} \subseteq Own(c)
BY DEF Ends, Own, StdinRead, StdinWrite, OutputRead, OutputWrite

LEMMA EndedTyped ==
    ASSUME NEW r \in ChildState
    PROVE  /\ Ended(r) \in ChildState /\ Ended(r).at = r.at /\ Ended(r).fork = r.fork
           /\ Ended(r).held \subseteq r.held /\ Ended(r).leaked \subseteq r.leaked
           /\ r.at \notin {"dead", "reaped"} => Ended(r) = r
BY DEF Ended, ChildState

LEMMA KilledTyped ==
    ASSUME NEW c \in Calls, child[c] \in ChildState
    PROVE  /\ Killed(c) \in ChildState /\ ~Killed(c).fork
           /\ Killed(c).at = IF Alive(c) THEN "dead" ELSE child[c].at
           /\ Killed(c).held = child[c].held /\ Killed(c).leaked = child[c].leaked
BY DEF Killed, ChildState, ChildPlaces

LEMMA KillGroupIs ==
    ASSUME child \in [Calls -> ChildState], NEW c \in Calls, KillGroup(c)
    PROVE  /\ child[c].at = "forked" => child' = child
           /\ child[c].at # "forked" => child' = [child EXCEPT ![c] = Ended(Killed(c))]
BY DEF KillGroup

\* What the steps of a child change of it.
LEMMA ChildFields ==
    ASSUME NEW r \in ChildState, NEW place \in ChildPlaces,
           NEW held \in SUBSET Ends, NEW leaked \in SUBSET Ends
    PROVE  /\ [r EXCEPT !.at = place] \in ChildState
           /\ [r EXCEPT !.at = place, !.held = held, !.leaked = leaked] \in ChildState
BY DEF ChildState

LEMMA ChildOwes ==
    ASSUME NEW r \in ChildState, NEW owes \in Nat
    PROVE  [r EXCEPT !.owes = owes] \in ChildState
BY DEF ChildState

LEMMA Placed ==
    ASSUME child \in [Calls -> ChildState], NEW c \in Calls, NEW place \in ChildPlaces
    PROVE  [child EXCEPT ![c].at = place] \in [Calls -> ChildState]
<1>1. [child[c] EXCEPT !.at = place] \in ChildState
  BY ChildFields, Zenon
<1>2. QED
  BY <1>1

LEMMA Owing ==
    ASSUME child \in [Calls -> ChildState], NEW c \in Calls, NEW owes \in Nat
    PROVE  [child EXCEPT ![c].owes = owes] \in [Calls -> ChildState]
<1>1. [child[c] EXCEPT !.owes = owes] \in ChildState
  BY ChildOwes, Zenon
<1>2. QED
  BY <1>1

LEMMA KillGroupTyped ==
    ASSUME child \in [Calls -> ChildState], NEW c \in Calls, KillGroup(c)
    PROVE  child' \in [Calls -> ChildState]
<1>1. Ended(Killed(c)) \in ChildState
  BY KilledTyped, EndedTyped
<1>2. QED
  BY <1>1, KillGroupIs

LEMMA DiesIs ==
    ASSUME child \in [Calls -> ChildState], NEW c \in Calls, Dies(c)
    PROVE  /\ child' = [child EXCEPT ![c] = Ended(Dead(c))]
           /\ Dead(c) \in ChildState /\ Dead(c).at = "dead" /\ Dead(c).fork = child[c].fork
           /\ Dead(c).held = child[c].held /\ Dead(c).leaked = child[c].leaked
BY DEF Dies, Dead, ChildState, ChildPlaces

LEMMA DiesTyped ==
    ASSUME child \in [Calls -> ChildState], NEW c \in Calls, Dies(c)
    PROVE  child' \in [Calls -> ChildState]
BY DiesIs, EndedTyped

LEMMA ToTyped ==
    ASSUME call \in [Calls -> CallState], NEW c \in Calls, NEW place \in CallPlaces, To(c, place)
    PROVE  /\ call' \in [Calls -> CallState]
           /\ call'[c].at = place /\ call'[c].ended = call[c].ended
           /\ call'[c].left = call[c].left
           /\ \A d \in Calls : d # c => call'[d] = call[d]
<1>1. [call[c] EXCEPT !.at = place] \in CallState
  BY DEF CallState
<1>2. call' = [call EXCEPT ![c] = [call[c] EXCEPT !.at = place]]
  BY DEF To
<1>3. QED
  BY <1>1, <1>2 DEF CallState

LEMMA BreakTyped ==
    ASSUME call \in [Calls -> CallState], NEW c \in Calls,
           NEW why \in {"cancel", "timeout", "poll"}, Break(c, why)
    PROVE  /\ call' \in [Calls -> CallState]
           /\ call'[c].at = "close" /\ call'[c].ended = why
           /\ \A d \in Calls : d # c => call'[d] = call[d]
<1>1. [call[c] EXCEPT !.at = "close", !.ended = why] \in CallState
  BY DEF CallState, CallPlaces
<1>2. call' = [call EXCEPT ![c] = [call[c] EXCEPT !.at = "close", !.ended = why]]
  BY DEF Break
<1>3. QED
  BY <1>1, <1>2 DEF CallState, CallPlaces

-----------------------------------------------------------------------------
(***************************************************************************)
(* Types.                                                                  *)
(***************************************************************************)
\* Only a call that is making its pipes has ends without close-on-exec.
ExposedEarly == \A e \in exposed : call[e[1]].at \in {"in", "out"}

\* The caller's end of a stdin is open as long as there is something to write.
FedToTheEnd ==
    \A c \in Calls :
        /\ call[c].at \in {"start", "in", "out", "forked"} => call[c].left = Stdin[c]
        /\ call[c].at \in {"check", "poll", "read"} /\ StdinWrite(c) \in open => call[c].left # 0

RunTypes == RunTypeOK /\ ExposedEarly

LEMMA RunStartsTyped == Init => RunTypes /\ FedToTheEnd
<1> SUFFICES ASSUME Init PROVE RunTypes /\ FedToTheEnd
  OBVIOUS
<1>1. call \in [Calls -> CallState]
  BY RunConstants DEF Init, CallState, CallPlaces
<1>2. child \in [Calls -> ChildState]
  BY RunConstants DEF Init, ChildState, ChildPlaces
<1>3. data \in [Calls -> [in : 0..Capacity, out : 0..Capacity]]
  BY RunConstants DEF Init
<1>4. QED
  BY <1>1, <1>2, <1>3 DEF Init, RunTypeOK, RunTypes, ExposedEarly, FedToTheEnd

\* A step that flags nothing keeps ExposedEarly if the flagged call may move.
LEMMA MovesLate ==
    ASSUME RunTypes, NEW c \in Calls, call[c].at \notin {"in", "out"}, exposed' \subseteq exposed,
           \A d \in Calls : d # c => call'[d] = call[d]
    PROVE  ExposedEarly'
<1>1. \A e \in exposed : e[1] \in Calls
  BY DEF RunTypes, RunTypeOK, Ends
<1>2. QED
  BY <1>1 DEF RunTypes, ExposedEarly

LEMMA FlaggedMoves ==
    ASSUME RunTypes, NEW c \in Calls, Flagged(c), exposed' = exposed,
           \A d \in Calls : d # c => call'[d] = call[d]
    PROVE  ExposedEarly' /\ \A X \in SUBSET Own(c) : exposed \subseteq open \ X
<1>1. \A e \in exposed : e[1] \in Calls /\ e[1] # c /\ e \notin Own(c)
  BY DEF RunTypes, RunTypeOK, Ends, Flagged, Own
<1>2. QED
  BY <1>1 DEF RunTypes, RunTypeOK, ExposedEarly

\* Beyond fork, every end of a call has its flag.
LEMMA LateIsFlagged ==
    ASSUME RunTypes, NEW c \in Calls, call[c].at \notin {"in", "out"}
    PROVE  Flagged(c)
BY DEF RunTypes, ExposedEarly, Flagged, Own

LEMMA MakePipeKeepsTypes ==
    ASSUME RunTypes, NEW c \in Calls, MakePipe(c) \/ PipeFails(c) \/ SetCloexec(c)
    PROVE  RunTypes'
<1> USE DEF RunTypeOK, RunTypes
<1>1. CASE MakePipe(c)
  <2>1. NextPipe(c) \in {"in", "out"} /\ NextPipe(c) \in CallPlaces
    BY DEF NextPipe, CallPlaces
  <2>2. /\ call' \in [Calls -> CallState] /\ call'[c].at \in {"in", "out"}
        /\ \A d \in Calls : d # c => call'[d] = call[d]
    BY <1>1, <2>1, ToTyped DEF MakePipe
  <2>3. {<<c, NextPipe(c), 0>>, <<c, NextPipe(c), 1>>} \subseteq Ends
    BY <2>1, OwnEnds
  <2>4. \A e \in exposed' : e \in exposed \/ e[1] = c
    BY <1>1 DEF MakePipe
  <2>5. \A e \in exposed' : e[1] \in Calls
    BY <2>4 DEF Ends
  <2>6. ExposedEarly'
    BY <2>2, <2>4, <2>5 DEF ExposedEarly
  <2>7. QED
    BY <1>1, <2>2, <2>3, <2>6 DEF MakePipe
<1>2. CASE PipeFails(c)
  <2>1. /\ call' \in [Calls -> CallState]
        /\ \A d \in Calls : d # c => call'[d] = call[d]
    BY <1>2, ToTyped DEF PipeFails, CallPlaces
  <2>2. Flagged(c)
    BY <1>2, LateIsFlagged DEF PipeFails, At
  <2>3. QED
    BY <1>2, <2>1, <2>2, FlaggedMoves DEF PipeFails
<1>3. CASE SetCloexec(c)
  BY <1>3 DEF SetCloexec, ExposedEarly
<1>4. QED
  BY <1>1, <1>2, <1>3

LEMMA ForkKeepsTypes ==
    ASSUME RunTypes, NEW c \in Calls, Fork(c) \/ ForkFails(c) \/ CloseChildEnds(c)
    PROVE  RunTypes'
<1> USE DEF RunTypeOK, RunTypes
<1>1. Flagged(c)
  BY LateIsFlagged DEF Fork, ForkFails, CloseChildEnds, At
<1>2. /\ call' \in [Calls -> CallState]
      /\ \A d \in Calls : d # c => call'[d] = call[d]
  BY ToTyped DEF Fork, ForkFails, CloseChildEnds, CallPlaces
<1>3. ExposedEarly' /\ \A X \in SUBSET Own(c) : exposed \subseteq open \ X
  BY <1>1, <1>2, FlaggedMoves DEF Fork, ForkFails, CloseChildEnds
<1>4. CASE Fork(c)
  <2>1. open \in SUBSET Ends /\ Inherited \in SUBSET Ends
    BY DEF Inherited
  <2>2. [child[c] EXCEPT !.at = "forked", !.held = open, !.leaked = Inherited] \in ChildState
    <3>1. child[c] \in ChildState /\ "forked" \in ChildPlaces
      BY Zenon DEF ChildPlaces
    <3>2. QED
      BY <2>1, <3>1, ChildFields, Zenon
  <2>3. child' \in [Calls -> ChildState]
    BY <1>4, <2>2 DEF Fork
  <2>4. QED
    BY <1>2, <1>3, <1>4, <2>3 DEF Fork
<1>5. CASE ForkFails(c)
  BY <1>2, <1>3, <1>5 DEF ForkFails
<1>6. CASE CloseChildEnds(c)
  <2> DEFINE X == {StdinRead(c), OutputWrite(c)}
                    \cup IF Stdin[c] = 0 THEN {StdinWrite(c)} ELSE {}
  <2>1. open' = open \ X
    BY <1>6 DEF CloseChildEnds
  <2>2. X \in SUBSET Own(c)
    <3>1. X \subseteq {StdinRead(c), OutputWrite(c), StdinWrite(c)}
      OBVIOUS
    <3>2. QED
      BY <3>1, OwnEnds
  <2>3. exposed \subseteq open \ X
    BY <1>3, <2>2
  <2> HIDE DEF X
  <2>4. QED
    BY <1>2, <1>3, <1>6, <2>1, <2>3 DEF CloseChildEnds
<1>7. QED
  BY <1>4, <1>5, <1>6

\* The steps of the loop and after it: no end is flagged, made or inherited.
LoopStep(c) ==
    Check(c) \/ PollFails(c) \/ PollExpires(c) \/ Poll(c) \/ Read(c) \/ CloseEnds(c)
    \/ Reap(c) \/ Return(c)

LEMMA LoopIsLate ==
    ASSUME NEW c \in Calls, LoopStep(c)
    PROVE  /\ call[c].at \in {"check", "poll", "read", "close", "waiting", "reaped"}
           /\ exposed' = exposed /\ cancel' = cancel
BY DEF LoopStep, Check, PollFails, PollExpires, Poll, Read, CloseEnds, Reap, Return, At

LEMMA PollMoves ==
    ASSUME RunTypeOK, FedToTheEnd, NEW c \in Calls, Poll(c)
    PROVE  /\ call' \in [Calls -> CallState]
           /\ \A d \in Calls : d # c => call'[d] = call[d]
           /\ call'[c].at = IF Readable(c) THEN "read" ELSE "check"
           /\ call'[c].ended = call[c].ended
           /\ StdinWrite(c) \in open' => call'[c].left # 0
           /\ open' \in {open, open \ {StdinWrite(c)}}
<1> DEFINE left == IF ~Writable(c) THEN call[c].left
                   ELSE IF Broken(c) THEN 0 ELSE call[c].left - 1
           next == [call[c] EXCEPT !.left = left, !.at = IF Readable(c) THEN "read" ELSE "check"]
<1>1. call' = [call EXCEPT ![c] = next] /\ call[c] \in CallState
  BY DEF Poll, RunTypeOK
<1>2. open' = IF left = 0 THEN open \ {StdinWrite(c)} ELSE open
  BY DEF Poll
<1>3. left \in Nat
  <2>1. call[c].left \in Nat /\ call[c].at = "poll"
    BY DEF Poll, At, RunTypeOK, CallState
  <2>2. Writable(c) => call[c].left # 0
    BY <2>1 DEF Writable, FedToTheEnd
  <2>3. QED
    BY <2>1, <2>2
<1> HIDE DEF left
<1>4. next \in CallState /\ next.left = left /\ next.ended = call[c].ended
      /\ next.at = IF Readable(c) THEN "read" ELSE "check"
  BY <1>1, <1>3 DEF CallState, CallPlaces
<1> HIDE DEF next
<1>5. QED
  BY <1>1, <1>2, <1>4 DEF RunTypeOK

\* How a step of the loop moves its call.
LEMMA LoopMoves ==
    ASSUME RunTypeOK, FedToTheEnd, NEW c \in Calls, LoopStep(c)
    PROVE  /\ call' \in [Calls -> CallState]
           /\ \A d \in Calls : d # c => call'[d] = call[d]
           /\ open' \subseteq open
           /\ FedToTheEnd'
<1> USE ToTyped, BreakTyped DEF RunTypeOK, CallPlaces, FedToTheEnd
<1>1. CASE Check(c)
  BY <1>1 DEF Check, At
<1>2. CASE PollFails(c)
  BY <1>2 DEF PollFails
<1>3. CASE PollExpires(c)
  BY <1>3 DEF PollExpires, At
<1>4. CASE Poll(c)
  BY <1>4, PollMoves
<1>5. CASE Read(c)
  BY <1>5 DEF Read, At
<1>6. CASE CloseEnds(c)
  BY <1>6 DEF CloseEnds
<1>7. CASE Reap(c)
  <2>1. To(c, "reaped") /\ open' = open
    BY <1>7 DEF Reap
  <2>2. QED
    BY <2>1
<1>8. CASE Return(c)
  BY <1>8 DEF Return
<1>9. QED
  BY <1>1, <1>2, <1>3, <1>4, <1>5, <1>6, <1>7, <1>8 DEF LoopStep

Pipes == [Calls -> [in : 0..Capacity, out : 0..Capacity]]

LEMMA PipesTyped ==
    ASSUME data \in Pipes, NEW c \in Calls
    PROVE  /\ data[c].in < Capacity => [data EXCEPT ![c].in = @ + 1] \in Pipes
           /\ data[c].out < Capacity => [data EXCEPT ![c].out = @ + 1] \in Pipes
           /\ data[c].in > 0 => [data EXCEPT ![c].in = @ - 1] \in Pipes
           /\ data[c].out > 0 => [data EXCEPT ![c].out = @ - 1] \in Pipes
BY RunConstants DEF Pipes

LEMMA LoopKeepsTypes ==
    ASSUME RunTypes, FedToTheEnd, NEW c \in Calls, LoopStep(c)
    PROVE  RunTypes' /\ FedToTheEnd'
<1>1. /\ call' \in [Calls -> CallState] /\ open' \subseteq open /\ FedToTheEnd'
      /\ \A d \in Calls : d # c => call'[d] = call[d]
  BY LoopMoves DEF RunTypes
<1>2. ExposedEarly'
  BY <1>1, LoopIsLate, MovesLate
<1>3. exposed' \subseteq open'
  <2>1. \A X \in SUBSET Own(c) : exposed \subseteq open \ X
    BY LoopIsLate, LateIsFlagged DEF Flagged, RunTypes, RunTypeOK
  <2>2. open' \in {open, open \ {StdinWrite(c)}, open \ Own(c)}
    BY PollMoves DEF LoopStep, Check, PollFails, PollExpires, Read, CloseEnds, Reap, Return, RunTypes
  <2>3. exposed' = exposed /\ {} \in SUBSET Own(c)
    BY LoopIsLate
  <2>4. {StdinWrite(c)} \in SUBSET Own(c) /\ Own(c) \in SUBSET Own(c)
    BY OwnEnds
  <2>5. exposed \subseteq open \ {} /\ exposed \subseteq open \ {StdinWrite(c)}
        /\ exposed \subseteq open \ Own(c)
    BY <2>1, <2>3, <2>4, Zenon
  <2>6. QED
    BY <2>2, <2>3, <2>5
<1>4. child' \in [Calls -> ChildState]
  <2> USE KillGroupTyped DEF RunTypes, RunTypeOK
  <2>1. CASE Reap(c)
    BY <2>1, Placed DEF Reap, ChildPlaces
  <2>2. CASE ~Reap(c)
    BY <2>2 DEF LoopStep, Check, PollFails, PollExpires, Poll, Read, CloseEnds, Return
  <2>3. QED
    BY <2>1, <2>2
<1>5. data' \in Pipes
  <2>1. data \in Pipes
    BY DEF RunTypes, RunTypeOK, Pipes
  <2>2. CASE Poll(c)
    BY <2>1, <2>2, PipesTyped DEF Poll, Writable
  <2>3. CASE Read(c)
    BY <2>1, <2>3, PipesTyped DEF Read
  <2>4. CASE ~Poll(c) /\ ~Read(c)
    BY <2>1, <2>4 DEF LoopStep, Check, PollFails, PollExpires, CloseEnds, Reap, Return
  <2>5. QED
    BY <2>2, <2>3, <2>4
<1>6. QED
  BY <1>1, <1>2, <1>3, <1>4, <1>5, LoopIsLate DEF RunTypes, RunTypeOK, Pipes

\* The steps of the child, of the program and of what it starts.
ChildStep(c) == ProgramStep(c) \/ Crashes(c) \/ Starts(c) \/ ForkEnds(c)

LEMMA ChildKeepsTypes ==
    ASSUME RunTypes, NEW c \in Calls, ChildStep(c)
    PROVE  RunTypes' /\ UNCHANGED <<call, open, exposed, cancel>>
<1> USE DEF RunTypes, RunTypeOK
<1>1. UNCHANGED <<call, open, exposed, cancel>>
  BY DEF ChildStep, ProgramStep, SetGroup, Exec, Takes, Puts, BrokenPipe, Finishes, Crashes,
         Starts, ForkEnds
<1>2. child' \in [Calls -> ChildState]
  <2>1. CASE BrokenPipe(c) \/ Finishes(c) \/ Crashes(c)
    BY <2>1, DiesTyped DEF BrokenPipe, Finishes, Crashes
  <2>2. CASE Exec(c)
    <3>1. child[c].leaked \cup {StdinRead(c), OutputWrite(c)} \in SUBSET Ends
      BY OwnEnds DEF ChildState
    <3>2. [child[c] EXCEPT !.at = "running",
             !.held = child[c].leaked \cup {StdinRead(c), OutputWrite(c)}, !.leaked = {}]
            \in ChildState
      <4>1. child[c] \in ChildState /\ "running" \in ChildPlaces /\ {} \in SUBSET Ends
        BY Zenon DEF ChildPlaces
      <4>2. QED
        BY <3>1, <4>1, ChildFields, Zenon
    <3>3. QED
      BY <2>2, <3>2 DEF Exec
  <2>3. CASE SetGroup(c)
    BY <2>3, Placed DEF SetGroup, ChildPlaces
  <2>4. CASE Takes(c)
    BY <2>4, Owing DEF Takes
  <2>7. CASE Puts(c)
    <3>1. child[c].owes - 1 \in Nat
      BY <2>7 DEF Puts, ChildState
    <3>2. [child[c] EXCEPT !.owes = @ - 1] \in ChildState
      BY <3>1 DEF ChildState
    <3>3. QED
      BY <2>7, <3>2 DEF Puts
  <2>5. CASE Starts(c)
    BY <2>5 DEF Starts, ChildState
  <2>6. CASE ForkEnds(c)
    <3>1. [child[c] EXCEPT !.fork = FALSE] \in ChildState
      BY DEF ChildState
    <3>2. QED
      BY <2>6, <3>1, EndedTyped DEF ForkEnds
  <2>8. QED
    BY <2>1, <2>2, <2>3, <2>4, <2>5, <2>6, <2>7 DEF ChildStep, ProgramStep
<1>3. data' \in Pipes
  <2>1. data \in Pipes
    BY DEF Pipes
  <2>2. CASE Takes(c)
    BY <2>1, <2>2, PipesTyped DEF Takes
  <2>3. CASE Puts(c)
    BY <2>1, <2>3, PipesTyped DEF Puts
  <2>4. CASE ~Takes(c) /\ ~Puts(c)
    BY <2>1, <2>4 DEF ChildStep, ProgramStep, SetGroup, Exec, BrokenPipe, Finishes, Crashes,
                      Starts, ForkEnds
  <2>5. QED
    BY <2>2, <2>3, <2>4
<1>4. QED
  BY <1>1, <1>2, <1>3 DEF ExposedEarly, Pipes

\* Up to the fork.
EarlyStep(c) ==
    MakePipe(c) \/ PipeFails(c) \/ SetCloexec(c) \/ Fork(c) \/ ForkFails(c) \/ CloseChildEnds(c)

LEMMA EarlyKeepsTypes ==
    ASSUME RunTypes, FedToTheEnd, NEW c \in Calls, EarlyStep(c)
    PROVE  RunTypes' /\ FedToTheEnd' /\ \A d \in Calls : d # c => call'[d] = call[d]
<1>1. RunTypes'
  BY MakePipeKeepsTypes, ForkKeepsTypes DEF EarlyStep
<1> USE DEF FedToTheEnd, RunTypes, RunTypeOK
<1>2. \A d \in Calls : d # c => call'[d] = call[d]
  BY ToTyped DEF EarlyStep, MakePipe, PipeFails, SetCloexec, Fork, ForkFails, CloseChildEnds,
                 NextPipe, CallPlaces
<1>3. \A d \in Calls : d # c /\ StdinWrite(d) \in open' => StdinWrite(d) \in open
  BY DEF EarlyStep, MakePipe, PipeFails, SetCloexec, Fork, ForkFails, CloseChildEnds, StdinWrite
<1>4. CASE CloseChildEnds(c)
  <2>1. call'[c].at = "check" /\ call'[c].left = call[c].left /\ call[c].left = Stdin[c]
    BY <1>4, ToTyped DEF CloseChildEnds, CallPlaces, At
  <2>2. StdinWrite(c) \in open' => Stdin[c] # 0
    BY <1>4 DEF CloseChildEnds
  <2>3. QED
    BY <1>1, <1>2, <1>3, <2>1, <2>2
<1>5. CASE ~CloseChildEnds(c)
  <2>1. call'[c].left = call[c].left /\ call[c].left = Stdin[c]
    BY <1>5, ToTyped DEF EarlyStep, MakePipe, PipeFails, SetCloexec, Fork, ForkFails, NextPipe,
                         CallPlaces, At
  <2>2. call'[c].at \notin {"check", "poll", "read"}
    BY <1>5, ToTyped DEF EarlyStep, MakePipe, PipeFails, SetCloexec, Fork, ForkFails, NextPipe,
                         CallPlaces, At
  <2>3. QED
    BY <1>1, <1>2, <1>3, <2>1, <2>2
<1>6. QED
  BY <1>4, <1>5

LEMMA ClockKeepsTypes ==
    ASSUME RunTypes, FedToTheEnd, NEW c \in Calls, DeadlinePasses(c)
    PROVE  /\ RunTypes' /\ FedToTheEnd'
           /\ UNCHANGED <<child, data, open, exposed, cancel>>
           /\ \A d \in Calls : call'[d].at = call[d].at /\ call'[d].ended = call[d].ended
<1>1. [call[c] EXCEPT !.late = TRUE] \in CallState
  BY DEF RunTypes, RunTypeOK, CallState
<1>2. /\ call' \in [Calls -> CallState]
      /\ \A d \in Calls : /\ call'[d].at = call[d].at /\ call'[d].ended = call[d].ended
                           /\ call'[d].left = call[d].left
  BY <1>1 DEF DeadlinePasses, RunTypes, RunTypeOK, CallState
<1>3. UNCHANGED <<child, data, open, exposed, cancel>>
  BY DEF DeadlinePasses
<1>4. \A e \in exposed : e[1] \in Calls
  BY DEF RunTypes, RunTypeOK, Ends
<1>5. QED
  BY <1>2, <1>3, <1>4 DEF RunTypes, RunTypeOK, ExposedEarly, FedToTheEnd

\* The disjuncts of Next, as the proofs below take them.
LEMMA RunSteps ==
    ASSUME Next
    PROVE  \/ Cancel
           \/ \E c \in Calls : EarlyStep(c) \/ LoopStep(c) \/ ChildStep(c) \/ DeadlinePasses(c)
BY DEF Next, CallStep, Failure, EarlyStep, LoopStep, ChildStep

LEMMA RunTypesAreKept ==
    RunTypes /\ FedToTheEnd /\ [Next]_vars => RunTypes' /\ FedToTheEnd'
<1> SUFFICES ASSUME RunTypes, FedToTheEnd, [Next]_vars PROVE RunTypes' /\ FedToTheEnd'
  OBVIOUS
<1>1. CASE Cancel
  BY <1>1 DEF Cancel, RunTypes, RunTypeOK, ExposedEarly, FedToTheEnd
<1>2. CASE UNCHANGED vars
  BY <1>2 DEF vars, RunTypes, RunTypeOK, ExposedEarly, FedToTheEnd
<1>3. ASSUME NEW c \in Calls, ChildStep(c) PROVE RunTypes' /\ FedToTheEnd'
  BY <1>3, ChildKeepsTypes DEF FedToTheEnd
<1>4. QED
  BY <1>1, <1>2, <1>3, RunSteps, EarlyKeepsTypes, LoopKeepsTypes, ClockKeepsTypes

\* Calls, programs, pipes and descriptors keep their types; no call writes
\* beyond the end of its stdin_data, no pipe holds more than its capacity and
\* only open ends lack their close-on-exec flag.
THEOREM RunTyping == Spec => []RunTypeOK
<1>1. RunTypes => RunTypeOK
  BY DEF RunTypes
<1>2. QED
  BY <1>1, RunStartsTyped, RunTypesAreKept, PTL DEF Spec

-----------------------------------------------------------------------------
(***************************************************************************)
(* Leaks go one way.  What a program keeps after its exec, of pipes that   *)
(* are not its own, belongs to calls that had not forked when it did; when *)
(* they fork, the ends of the first have their flags.                      *)
(***************************************************************************)
Keeps(c) ==
    IF child[c].at \in {"forked", "grouped"} THEN child[c].leaked ELSE child[c].held

OneWay ==
    \A c, d \in Calls :
        c # d => Keeps(c) \cap Own(d) = {} \/ Keeps(d) \cap Own(c) = {}

\* Nothing runs before the fork, and only a running program starts another.
Unforked ==
    \A c \in Calls :
        /\ call[c].at \in {"start", "in", "out", "thrown"} =>
             child[c].at = "none" /\ child[c].held = {}
        /\ child[c].at \in {"none", "forked", "grouped"} => ~child[c].fork

LeakInv == OneWay /\ Unforked

LEMMA KillEffect ==
    ASSUME RunTypes, Unforked, NEW c \in Calls, KillGroup(c)
    PROVE  /\ \A d \in Calls : d # c => child'[d] = child[d]
           /\ child[c].at # "forked" =>
                /\ ~child'[c].fork
                /\ child'[c].at = IF Alive(c) THEN "dead" ELSE child[c].at
           /\ child[c].at = "forked" => child' = child
           /\ Keeps(c)' \subseteq Keeps(c)
<1> USE DEF RunTypes, RunTypeOK
<1>1. CASE child[c].at = "forked"
  BY <1>1, KillGroupIs DEF Keeps
<1>2. CASE child[c].at # "forked"
  <2>1. child'[c] = Ended(Killed(c)) /\ \A d \in Calls : d # c => child'[d] = child[d]
    BY <1>2, KillGroupIs
  <2>2. /\ ~child'[c].fork /\ child'[c].at = (IF Alive(c) THEN "dead" ELSE child[c].at)
        /\ child'[c].held \subseteq child[c].held
    BY <2>1, KilledTyped, EndedTyped
  <2>3. child[c].at = "grouped" => child'[c].held = {}
    <3>1. child[c].at = "grouped" => Killed(c).at = "dead" /\ ~Killed(c).fork
      BY KilledTyped DEF Alive
    <3>2. Killed(c) \in ChildState
      BY KilledTyped
    <3>3. QED
      BY <2>1, <3>1, <3>2 DEF Ended, ChildState
  <2>4. child'[c].at \notin {"forked", "grouped"}
    BY <1>2, <2>2 DEF Alive
  <2>5. QED
    BY <1>2, <2>1, <2>2, <2>3, <2>4 DEF Keeps
<1>3. QED
  BY <1>1, <1>2

LEMMA DiesEffect ==
    ASSUME RunTypes, Unforked, NEW c \in Calls, Dies(c)
    PROVE  /\ \A d \in Calls : d # c => child'[d] = child[d]
           /\ child'[c].at = "dead"
           /\ Keeps(c)' \subseteq Keeps(c)
<1> USE DEF RunTypes, RunTypeOK
<1>1. child'[c] = Ended(Dead(c)) /\ \A d \in Calls : d # c => child'[d] = child[d]
  BY DiesIs
<1>2. child'[c].at = "dead" /\ child'[c].held \subseteq child[c].held
  BY <1>1, DiesIs, EndedTyped
<1>3. child[c].at \in {"forked", "grouped"} => child'[c].held = {}
  <2>1. child[c].at \in {"forked", "grouped"} => ~Dead(c).fork
    BY DiesIs DEF Unforked
  <2>2. Dead(c) \in ChildState /\ Dead(c).at = "dead"
    BY DiesIs
  <2>3. QED
    BY <1>1, <2>1, <2>2 DEF Ended, ChildState
<1>4. QED
  BY <1>1, <1>2, <1>3 DEF Keeps

LEMMA LoopEffect ==
    ASSUME RunTypes, Unforked, NEW c \in Calls, LoopStep(c)
    PROVE  /\ \A d \in Calls : d # c => child'[d] = child[d]
           /\ Keeps(c)' \subseteq Keeps(c)
           /\ child'[c].at \in {"none", "forked", "grouped"} => ~child'[c].fork
<1> USE KillEffect DEF RunTypes, RunTypeOK, Unforked
<1>1. CASE KillGroup(c)
  BY <1>1 DEF Alive
<1>2. CASE child' = child
  BY <1>2 DEF Keeps
<1>3. CASE Reap(c)
  <2>1. child[c].at = "dead" /\ child' = [child EXCEPT ![c].at = "reaped"]
    BY <1>3 DEF Reap
  <2>2. child'[c].at = "reaped" /\ child'[c].held = child[c].held
    BY <2>1 DEF ChildState
  <2>3. QED
    BY <2>1, <2>2 DEF Keeps
<1>4. QED
  BY <1>1, <1>2, <1>3 DEF LoopStep, Check, PollFails, PollExpires, Poll, Read, CloseEnds, Return

LEMMA ChildEffect ==
    ASSUME RunTypes, Unforked, NEW c \in Calls, ChildStep(c)
    PROVE  /\ \A d \in Calls : d # c => child'[d] = child[d]
           /\ Keeps(c)' \subseteq Keeps(c) \cup Own(c)
           /\ child[c].at # "none"
           /\ child'[c].at \in {"none", "forked", "grouped"} => ~child'[c].fork
<1> USE DEF RunTypes, RunTypeOK, Unforked
<1>1. CASE BrokenPipe(c) \/ Finishes(c) \/ Crashes(c)
  BY <1>1, DiesEffect DEF BrokenPipe, Finishes, Crashes, Runs
<1>2. CASE SetGroup(c)
  <2>1. child[c].at = "forked" /\ child' = [child EXCEPT ![c].at = "grouped"]
    BY <1>2 DEF SetGroup
  <2>2. child'[c].leaked = child[c].leaked /\ child'[c].at = "grouped" /\ ~child'[c].fork
    BY <2>1 DEF ChildState
  <2>3. QED
    BY <2>1, <2>2 DEF Keeps
<1>3. CASE Exec(c)
  <2>1. child[c].at = "grouped"
    BY <1>3 DEF Exec
  <2>2. /\ child'[c].held = child[c].leaked \cup {StdinRead(c), OutputWrite(c)}
        /\ child'[c].at = "running" /\ \A d \in Calls : d # c => child'[d] = child[d]
    BY <1>3 DEF Exec, ChildState
  <2>3. QED
    BY <2>1, <2>2, OwnEnds DEF Keeps
<1>4. CASE Takes(c) \/ Puts(c) \/ Starts(c)
  <2>1. child[c].at = "running"
    BY <1>4 DEF Takes, Puts, Starts, Runs
  <2>2. /\ child'[c].held = child[c].held /\ child'[c].at = "running"
        /\ \A d \in Calls : d # c => child'[d] = child[d]
    BY <1>4, <2>1 DEF Takes, Puts, Starts, ChildState
  <2>3. QED
    BY <2>1, <2>2 DEF Keeps
<1>5. CASE ForkEnds(c)
  <2> DEFINE r == [child[c] EXCEPT !.fork = FALSE]
  <2>1. /\ r \in ChildState /\ r.at = child[c].at /\ r.held = child[c].held /\ ~r.fork
        /\ r.leaked = child[c].leaked
    BY DEF ChildState
  <2>2. child' = [child EXCEPT ![c] = Ended(r)] /\ child[c].fork
    BY <1>5 DEF ForkEnds
  <2> HIDE DEF r
  <2>3. /\ child'[c].at = child[c].at /\ child'[c].held \subseteq child[c].held
        /\ ~child'[c].fork /\ \A d \in Calls : d # c => child'[d] = child[d]
    BY <2>1, <2>2, EndedTyped
  <2>4. QED
    BY <2>2, <2>3 DEF Keeps
<1>6. QED
  BY <1>1, <1>2, <1>3, <1>4, <1>5 DEF ChildStep, ProgramStep

LEMMA OwnersDiffer == \A c, d \in Calls : c # d => Own(c) \cap Own(d) = {}
BY DEF Own

\* OneWay survives a step in which one program keeps nothing new but its own.
LEMMA OneWayShrinks ==
    ASSUME OneWay, NEW c \in Calls, Keeps(c)' \subseteq Keeps(c) \cup Own(c),
           \A d \in Calls : d # c => child'[d] = child[d]
    PROVE  OneWay'
<1>1. \A d \in Calls : d # c => Keeps(d)' = Keeps(d)
  BY DEF Keeps
<1>2. \A d, e \in Calls : d # e => Keeps(d)' \cap Own(e) \subseteq Keeps(d) \cap Own(e)
  BY <1>1, OwnersDiffer
<1>3. QED
  BY <1>2 DEF OneWay, Own, Ends

LEMMA ForkLeaksOneWay ==
    ASSUME RunTypes, LeakInv, NEW c \in Calls, Fork(c)
    PROVE  LeakInv'
<1>1. /\ child'[c].at = "forked" /\ child'[c].leaked = exposed
      /\ child'[c].fork = child[c].fork /\ Flagged(c) /\ call[c].at = "out"
      /\ \A d \in Calls : d # c => child'[d] = child[d]
  BY DEF Fork, Inherited, RunTypes, RunTypeOK, ChildState, At
<1>2. call'[c].at = "forked" /\ \A d \in Calls : d # c => call'[d] = call[d]
  BY ToTyped DEF Fork, RunTypes, RunTypeOK, CallPlaces
<1>3. Unforked'
  BY <1>1, <1>2 DEF LeakInv, Unforked
<1>4. Keeps(c)' = exposed /\ \A d \in Calls : d # c => Keeps(d)' = Keeps(d)
  BY <1>1 DEF Keeps
<1>5. ASSUME NEW d \in Calls, exposed \cap Own(d) # {} PROVE Keeps(d) = {}
  <2>1. call[d].at \in {"in", "out"}
    BY <1>5 DEF RunTypes, ExposedEarly, Own
  <2>2. QED
    BY <2>1 DEF LeakInv, Unforked, Keeps
<1>6. OneWay'
  <2> SUFFICES ASSUME NEW a \in Calls, NEW b \in Calls, a # b
               PROVE  Keeps(a)' \cap Own(b) = {} \/ Keeps(b)' \cap Own(a) = {}
    BY DEF OneWay, Own, Ends
  <2>1. CASE a = c
    BY <1>4, <1>5, <2>1
  <2>2. CASE b = c
    BY <1>4, <1>5, <2>2
  <2>3. CASE a # c /\ b # c
    BY <1>4, <2>3 DEF LeakInv, OneWay
  <2>4. QED
    BY <2>1, <2>2, <2>3
<1>7. QED
  BY <1>3, <1>6 DEF LeakInv

LEMMA LeakInvIsKept ==
    RunTypes /\ FedToTheEnd /\ LeakInv /\ [Next]_vars => LeakInv'
<1> SUFFICES ASSUME RunTypes, FedToTheEnd, LeakInv, [Next]_vars PROVE LeakInv'
  OBVIOUS
<1>1. ASSUME UNCHANGED child,
             \A d \in Calls : call'[d].at \in {"start", "in", "out", "thrown"} =>
                               call[d].at \in {"start", "in", "out", "thrown"}
      PROVE  LeakInv'
  BY <1>1 DEF LeakInv, OneWay, Keeps, Unforked, Own, Ends
<1>2. CASE Cancel \/ UNCHANGED vars
  BY <1>1, <1>2 DEF Cancel, vars
<1>3. ASSUME NEW c \in Calls, EarlyStep(c) PROVE LeakInv'
  <2>1. CASE Fork(c)
    BY <2>1, ForkLeaksOneWay
  <2>2. CASE ~Fork(c)
    <3>1. UNCHANGED child /\ \A d \in Calls : d # c => call'[d] = call[d]
      BY <1>3, <2>2, EarlyKeepsTypes
      DEF EarlyStep, MakePipe, PipeFails, SetCloexec, ForkFails, CloseChildEnds
    <3>2. CASE CloseChildEnds(c)
      BY <1>1, <3>1, <3>2, ToTyped DEF CloseChildEnds, RunTypes, RunTypeOK, CallPlaces
    <3>3. CASE ~CloseChildEnds(c)
      BY <1>1, <1>3, <2>2, <3>1, <3>3
      DEF EarlyStep, MakePipe, PipeFails, SetCloexec, ForkFails, At
    <3>4. QED
      BY <3>2, <3>3
  <2>3. QED
    BY <2>1, <2>2
<1>4. ASSUME NEW c \in Calls, LoopStep(c) PROVE LeakInv'
  <2>1. OneWay'
    BY <1>4, LoopEffect, OneWayShrinks DEF LeakInv
  <2>2. Unforked'
    <3>1. call'[c].at \notin {"start", "in", "out", "thrown"}
      BY <1>4, ToTyped, BreakTyped, PollMoves
      DEF LoopStep, Check, PollFails, PollExpires, Read, CloseEnds, Reap, Return,
          RunTypes, RunTypeOK, CallPlaces
    <3>2. QED
      BY <1>4, <3>1, LoopEffect, LoopMoves DEF LeakInv, Unforked, RunTypes
  <2>3. QED
    BY <2>1, <2>2 DEF LeakInv
<1>5. ASSUME NEW c \in Calls, ChildStep(c) PROVE LeakInv'
  <2>1. OneWay'
    BY <1>5, ChildEffect, OneWayShrinks DEF LeakInv
  <2>2. Unforked'
    BY <1>5, ChildEffect, ChildKeepsTypes DEF LeakInv, Unforked
  <2>3. QED
    BY <2>1, <2>2 DEF LeakInv
<1>6. ASSUME NEW c \in Calls, DeadlinePasses(c) PROVE LeakInv'
  BY <1>1, <1>6, ClockKeepsTypes
<1>7. QED
  BY <1>2, <1>3, <1>4, <1>5, <1>6, RunSteps

\* Whatever the number of calls in parallel, no two programs hold each
\* other's pipes, in spite of the two steps in which a pipe gets its flags.
THEOREM NoMutualLeak == Spec => []LeaksAreOneWay
<1>1. Init => LeakInv
  BY DEF Init, LeakInv, OneWay, Keeps, Unforked
<1>2. LeakInv => LeaksAreOneWay
  BY DEF LeakInv, OneWay, Keeps, LeaksAreOneWay, Holds, Runs
<1>3. QED
  BY <1>1, <1>2, RunStartsTyped, RunTypesAreKept, LeakInvIsKept, PTL DEF Spec

-----------------------------------------------------------------------------
(***************************************************************************)
(* A call that was cancelled or timed out leaves nobody behind: whoever    *)
(* the first kill missed is dead when waitpid returns, and what it started *)
(* meets the second kill.                                                  *)
(***************************************************************************)
GoneInv ==
    \A c \in Calls :
        /\ call[c].at \in {"reaped", "returned"} => child[c].at = "reaped"
        /\ call[c].at = "returned" /\ KillsAgain(c) => ~child[c].fork

LEMMA ReapedStays ==
    ASSUME RunTypes, Unforked, NEW c \in Calls, ChildStep(c), child[c].at = "reaped"
    PROVE  child'[c].at = "reaped" /\ ~child'[c].fork
<1>1. ForkEnds(c)
  BY DEF ChildStep, ProgramStep, SetGroup, Exec, Takes, Puts, BrokenPipe, Finishes, Crashes,
         Starts, Runs
<1> DEFINE r == [child[c] EXCEPT !.fork = FALSE]
<1>2. r \in ChildState /\ r.at = child[c].at /\ ~r.fork
  BY DEF RunTypes, RunTypeOK, ChildState
<1>3. child'[c] = Ended(r)
  BY <1>1 DEF ForkEnds, RunTypes, RunTypeOK
<1> HIDE DEF r
<1>4. QED
  BY <1>2, <1>3, EndedTyped

LEMMA GoneInvIsKept ==
    RunTypes /\ FedToTheEnd /\ LeakInv /\ GoneInv /\ [Next]_vars => GoneInv'
<1> SUFFICES ASSUME RunTypes, FedToTheEnd, LeakInv, GoneInv, [Next]_vars PROVE GoneInv'
  OBVIOUS
<1>1. ASSUME NEW c \in Calls, EarlyStep(c) PROVE GoneInv'
  <2>1. \A d \in Calls : d # c => call'[d] = call[d] /\ child'[d] = child[d]
    <3>1. child' = child \/ Fork(c)
      BY <1>1 DEF EarlyStep, MakePipe, PipeFails, SetCloexec, ForkFails, CloseChildEnds
    <3>2. \A d \in Calls : d # c => child'[d] = child[d]
      BY <3>1 DEF Fork, RunTypes, RunTypeOK
    <3>3. QED
      BY <1>1, <3>2, EarlyKeepsTypes
  <2>2. call'[c].at \notin {"reaped", "returned"}
    BY <1>1, ToTyped
    DEF EarlyStep, MakePipe, PipeFails, SetCloexec, Fork, ForkFails, CloseChildEnds, NextPipe,
        CallPlaces, RunTypes, RunTypeOK
  <2>3. QED
    BY <2>1, <2>2 DEF GoneInv, KillsAgain
<1>2. ASSUME NEW c \in Calls, LoopStep(c) PROVE GoneInv'
  <2>1. \A d \in Calls : d # c => call'[d] = call[d] /\ child'[d] = child[d]
    BY <1>2, LoopMoves, LoopEffect DEF RunTypes, LeakInv
  <2>2. CASE Reap(c)
    <3>1. child'[c].at = "reaped" /\ call'[c].at = "reaped"
      BY <2>2, ToTyped DEF Reap, CallPlaces, RunTypes, RunTypeOK, ChildState
    <3>2. QED
      BY <2>1, <3>1 DEF GoneInv, KillsAgain
  <2>3. CASE Return(c)
    <3>1. /\ call[c].at = "reaped" /\ child[c].at = "reaped"
          /\ call'[c].at = "returned" /\ call'[c].ended = call[c].ended
      BY <2>3, ToTyped DEF Return, CallPlaces, RunTypes, RunTypeOK, At, GoneInv
    <3>2. /\ child'[c].at = "reaped"
          /\ KillsAgain(c) => ~child'[c].fork
          /\ KillsAgain(c)' = KillsAgain(c)
      BY <2>3, <3>1, KillEffect DEF Return, KillsAgain, Alive, LeakInv
    <3>3. QED
      BY <2>1, <3>1, <3>2 DEF GoneInv, KillsAgain
  <2>4. CASE ~Reap(c) /\ ~Return(c)
    <3>1. call'[c].at \notin {"reaped", "returned"}
      BY <1>2, <2>4, ToTyped, BreakTyped, PollMoves
      DEF LoopStep, Check, PollFails, PollExpires, Read, CloseEnds, RunTypes, RunTypeOK, CallPlaces
    <3>2. QED
      BY <2>1, <3>1 DEF GoneInv, KillsAgain
  <2>5. QED
    BY <2>2, <2>3, <2>4
<1>3. ASSUME NEW c \in Calls, ChildStep(c) PROVE GoneInv'
  BY <1>3, ChildEffect, ChildKeepsTypes, ReapedStays DEF GoneInv, KillsAgain, LeakInv
<1>4. ASSUME NEW c \in Calls, DeadlinePasses(c) PROVE GoneInv'
  BY <1>4, ClockKeepsTypes DEF GoneInv, KillsAgain
<1>5. CASE Cancel \/ UNCHANGED vars
  BY <1>5 DEF Cancel, vars, GoneInv, KillsAgain
<1>6. QED
  BY <1>1, <1>2, <1>3, <1>4, <1>5, RunSteps

\* No process of its group survives a cancelled or timed out call, also when
\* the first kill came before the child had made the group.
THEOREM NobodySurvives == Spec => []GroupIsGone
<1>1. Init => LeakInv /\ GoneInv
  BY DEF Init, LeakInv, OneWay, Keeps, Unforked, GoneInv
<1>2. GoneInv => GroupIsGone
  BY DEF GoneInv, GroupIsGone, At, Alive, KillsAgain
<1>3. QED
  BY <1>1, <1>2, RunStartsTyped, RunTypesAreKept, LeakInvIsKept, GoneInvIsKept, PTL DEF Spec
-----------------------------------------------------------------------------
(***************************************************************************)
(* A call that ends by itself has met the end of its output, and an end of *)
(* file stays one: no end is opened again, a fork copies open ends only,   *)
(* and an exec only ends that the fork has copied.                         *)
(***************************************************************************)
\* Whoever may write has the end to write to, since before the fork.
WritersHold ==
    \A c \in Calls :
        /\ call[c].at = "out" => OutputWrite(c) \in open
        /\ Alive(c) => OutputWrite(c) \in child[c].held
        /\ child[c].at \in {"forked", "grouped"} => child[c].leaked \subseteq child[c].held

ReadsToTheEnd ==
    \A c \in Calls :
        /\ call[c].at = "read" /\ data[c].out = 0 => Eof(c)
        /\ call[c].at \in {"close", "waiting", "reaped", "returned"} /\ call[c].ended = "no" =>
             Eof(c)

\* No step of call c opens an end but its own pipes, or lets a process hold an
\* end that none held.
OpensOnly(c) ==
    /\ \A e \in open' : e \in open \/ (e[1] = c /\ call[c].at \in {"start", "in"})
    /\ \A d \in Calls : d # c => child'[d] = child[d] /\ data'[d] = data[d]
    /\ child'[c].held \subseteq child[c].held \cup open \cup {StdinRead(c)}
    /\ data[c].out = 0 /\ ~Alive(c) => data'[c].out = 0

LEMMA EarlyOpens ==
    ASSUME RunTypes, Unforked, NEW c \in Calls, EarlyStep(c)
    PROVE  OpensOnly(c)
<1> USE DEF RunTypes, RunTypeOK
<1>1. data' = data
  BY DEF EarlyStep, MakePipe, PipeFails, SetCloexec, Fork, ForkFails, CloseChildEnds
<1>2. \A e \in open' : e \in open \/ (e[1] = c /\ call[c].at \in {"start", "in"})
  BY DEF EarlyStep, MakePipe, PipeFails, SetCloexec, Fork, ForkFails, CloseChildEnds, At
<1>3. CASE Fork(c)
  <2>1. child'[c].held = open /\ \A d \in Calls : d # c => child'[d] = child[d]
    BY <1>3 DEF Fork, ChildState
  <2>2. QED
    BY <1>1, <1>2, <2>1 DEF OpensOnly
<1>4. CASE ~Fork(c)
  <2>1. child' = child
    BY <1>4 DEF EarlyStep, MakePipe, PipeFails, SetCloexec, ForkFails, CloseChildEnds
  <2>2. QED
    BY <1>1, <1>2, <2>1 DEF OpensOnly
<1>5. QED
  BY <1>3, <1>4

LEMMA KillHolds ==
    ASSUME RunTypes, NEW c \in Calls, KillGroup(c)
    PROVE  child'[c].held \subseteq child[c].held /\ (Alive(c)' => child'[c] = child[c])
<1> USE DEF RunTypes, RunTypeOK
<1>1. CASE child[c].at = "forked"
  BY <1>1, KillGroupIs
<1>2. CASE child[c].at # "forked"
  <2>1. child'[c] = Ended(Killed(c))
    BY <1>2, KillGroupIs
  <2>2. /\ child'[c].held \subseteq child[c].held
        /\ child'[c].at = IF Alive(c) THEN "dead" ELSE child[c].at
    BY <2>1, KilledTyped, EndedTyped
  <2>3. QED
    BY <2>2 DEF Alive
<1>3. QED
  BY <1>1, <1>2

LEMMA LoopOpens ==
    ASSUME RunTypes, Unforked, FedToTheEnd, NEW c \in Calls, LoopStep(c)
    PROVE  OpensOnly(c) /\ (Alive(c)' => child'[c] = child[c])
<1> USE DEF RunTypes, RunTypeOK
<1>1. open' \subseteq open /\ \A d \in Calls : d # c => child'[d] = child[d]
  BY LoopMoves, LoopEffect
<1>2. child'[c].held \subseteq child[c].held /\ (Alive(c)' => child'[c] = child[c])
  <2>1. CASE Reap(c)
    <3>1. child'[c].at = "reaped" /\ child'[c].held = child[c].held
      BY <2>1 DEF Reap, ChildState
    <3>2. QED
      BY <3>1 DEF Alive
  <2>2. CASE ~Reap(c)
    <3>1. child' = child \/ KillGroup(c)
      BY <2>2 DEF LoopStep, Check, PollFails, PollExpires, Poll, Read, CloseEnds, Return
    <3>2. QED
      BY <3>1, KillHolds
  <2>3. QED
    BY <2>1, <2>2
<1>3. /\ \A d \in Calls : d # c => data'[d] = data[d]
      /\ data[c].out = 0 => data'[c].out = 0
  <2>1. CASE Poll(c)
    BY <2>1 DEF Poll
  <2>2. CASE Read(c)
    BY <2>2 DEF Read
  <2>3. CASE ~Poll(c) /\ ~Read(c)
    BY <2>3 DEF LoopStep, Check, PollFails, PollExpires, CloseEnds, Reap, Return
  <2>4. QED
    BY <2>1, <2>2, <2>3
<1>4. QED
  BY <1>1, <1>2, <1>3 DEF OpensOnly

LEMMA ChildOpens ==
    ASSUME RunTypes, Unforked, WritersHold, NEW c \in Calls, ChildStep(c)
    PROVE  /\ OpensOnly(c)
           /\ Alive(c)' => Alive(c) /\ OutputWrite(c) \in child'[c].held
           /\ child'[c].at \in {"forked", "grouped"} => child'[c].leaked \subseteq child'[c].held
<1> USE DEF RunTypes, RunTypeOK
<1>1. open' = open /\ \A d \in Calls : d # c => child'[d] = child[d]
  BY ChildKeepsTypes, ChildEffect
<1>2. /\ \A d \in Calls : d # c => data'[d] = data[d]
      /\ data'[c].out = data[c].out \/ Alive(c)
  <2>1. CASE Takes(c) \/ Puts(c)
    BY <2>1 DEF Takes, Puts, Runs, Alive
  <2>2. CASE ~Takes(c) /\ ~Puts(c)
    BY <2>2 DEF ChildStep, ProgramStep, SetGroup, Exec, BrokenPipe, Finishes, Crashes,
                Starts, ForkEnds
  <2>3. QED
    BY <2>1, <2>2
<1>3. SUFFICES /\ child'[c].held \subseteq child[c].held \cup {StdinRead(c)}
               /\ Alive(c)' => Alive(c) /\ OutputWrite(c) \in child'[c].held
               /\ child'[c].at \in {"forked", "grouped"} =>
                    child'[c].leaked \subseteq child'[c].held
  BY <1>1, <1>2 DEF OpensOnly
<1>4. CASE BrokenPipe(c) \/ Finishes(c) \/ Crashes(c)
  <2>1. Dies(c)
    BY <1>4 DEF BrokenPipe, Finishes, Crashes
  <2>2. child'[c] = Ended(Dead(c))
    BY <2>1, DiesIs
  <2>3. child'[c].at = "dead" /\ child'[c].held \subseteq child[c].held
    BY <2>1, <2>2, DiesIs, EndedTyped
  <2>4. QED
    BY <2>3 DEF Alive
<1>5. CASE SetGroup(c)
  <2>1. /\ child[c].at = "forked" /\ child'[c].at = "grouped"
        /\ child'[c].held = child[c].held /\ child'[c].leaked = child[c].leaked
    BY <1>5 DEF SetGroup, ChildState
  <2>2. QED
    BY <2>1 DEF WritersHold, Alive
<1>6. CASE Exec(c)
  <2>1. /\ child[c].at = "grouped" /\ child'[c].at = "running"
        /\ child'[c].held = child[c].leaked \cup {StdinRead(c), OutputWrite(c)}
    BY <1>6 DEF Exec, ChildState
  <2>2. QED
    BY <2>1 DEF WritersHold, Alive
<1>7. CASE Takes(c) \/ Puts(c) \/ Starts(c)
  <2>1. child[c].at = "running" /\ child'[c].at = "running" /\ child'[c].held = child[c].held
    BY <1>7 DEF Takes, Puts, Starts, Runs, ChildState
  <2>2. QED
    BY <2>1 DEF WritersHold, Alive
<1>8. CASE ForkEnds(c)
  <2> DEFINE r == [child[c] EXCEPT !.fork = FALSE]
  <2>1. /\ r \in ChildState /\ r.at = child[c].at /\ r.held = child[c].held
        /\ r.leaked = child[c].leaked
    BY DEF ChildState
  <2>2. child'[c] = Ended(r) /\ child[c].fork
    BY <1>8 DEF ForkEnds
  <2> HIDE DEF r
  <2>3. /\ child'[c].at = child[c].at /\ child'[c].held \subseteq child[c].held
        /\ child[c].at \notin {"dead", "reaped"} => child'[c].held = child[c].held
    BY <2>1, <2>2, EndedTyped
  <2>4. child[c].at \notin {"forked", "grouped"}
    BY <2>2 DEF Unforked
  <2>5. QED
    BY <2>3, <2>4 DEF WritersHold, Alive
<1>9. QED
  BY <1>4, <1>5, <1>6, <1>7, <1>8 DEF ChildStep, ProgramStep

\* An end of file stays one, whichever call moves.
LEMMA EofStays ==
    ASSUME RunTypes, WritersHold, NEW c \in Calls, NEW d \in Calls, OpensOnly(d), Eof(c),
           call[c].at \notin {"start", "in"}
    PROVE  Eof(c)'
<1>1. data[c].out = 0 /\ OutputWrite(c) \notin open
      /\ \A x \in Calls : OutputWrite(c) \notin child[x].held
  BY DEF Eof, Held
<1>2. ~Alive(c)
  BY <1>1 DEF WritersHold
<1>3. data'[c].out = 0
  BY <1>1, <1>2 DEF OpensOnly
<1>4. OutputWrite(c) \notin open'
  BY <1>1 DEF OpensOnly, OutputWrite
<1>5. OutputWrite(c) # StdinRead(d)
  BY DEF OutputWrite, StdinRead
<1>6. \A x \in Calls : OutputWrite(c) \notin child'[x].held
  BY <1>1, <1>5 DEF OpensOnly
<1>7. QED
  BY <1>3, <1>4, <1>6 DEF Eof, Held, OutputWrite
\* Each part for one call, so that a step of a call is about that call.
WriterHolds(c) ==
    /\ call[c].at = "out" => OutputWrite(c) \in open
    /\ Alive(c) => OutputWrite(c) \in child[c].held
    /\ child[c].at \in {"forked", "grouped"} => child[c].leaked \subseteq child[c].held

ReadToTheEnd(c) ==
    /\ call[c].at = "read" /\ data[c].out = 0 => Eof(c)
    /\ call[c].at \in {"close", "waiting", "reaped", "returned"} /\ call[c].ended = "no" =>
         Eof(c)

WholeInv == WritersHold /\ ReadsToTheEnd

\* What a step of call d leaves of the others.
LEMMA OthersStayWhole ==
    ASSUME RunTypes, WholeInv, NEW c \in Calls, NEW d \in Calls, c # d, OpensOnly(d),
           call'[c].at = call[c].at, call'[c].ended = call[c].ended,
           open \subseteq open' \cup Own(d)
    PROVE  WriterHolds(c)' /\ ReadToTheEnd(c)'
<1>1. WriterHolds(c) /\ ReadToTheEnd(c)
  BY DEF WholeInv, WritersHold, ReadsToTheEnd, WriterHolds, ReadToTheEnd
<1>2. child'[c] = child[c] /\ data'[c] = data[c]
  BY DEF OpensOnly
<1>3. OutputWrite(c) \in open => OutputWrite(c) \in open'
  BY DEF OutputWrite, Own
<1>4. WriterHolds(c)'
  BY <1>1, <1>2, <1>3 DEF WriterHolds, Alive, OutputWrite
<1>5. call[c].at \notin {"start", "in"} /\ Eof(c) => Eof(c)'
  BY EofStays DEF WholeInv
<1>6. ReadToTheEnd(c)'
  BY <1>1, <1>2, <1>5 DEF ReadToTheEnd
<1>7. QED
  BY <1>4, <1>6

LEMMA EarlyStaysWhole ==
    ASSUME RunTypes, Unforked, FedToTheEnd, WholeInv, NEW c \in Calls, EarlyStep(c)
    PROVE  WholeInv'
<1> USE DEF RunTypes, RunTypeOK
<1>1. OpensOnly(c) /\ \A d \in Calls : d # c => call'[d] = call[d]
  BY EarlyOpens, EarlyKeepsTypes
<1>2. open \subseteq open' \cup Own(c)
  BY OwnEnds DEF EarlyStep, MakePipe, PipeFails, SetCloexec, Fork, ForkFails, CloseChildEnds
<1>3. \A d \in Calls : d # c => WriterHolds(d)' /\ ReadToTheEnd(d)'
  BY <1>1, <1>2, OthersStayWhole
<1>4. call'[c].at \notin {"read", "close", "waiting", "reaped", "returned"}
  BY ToTyped
  DEF EarlyStep, MakePipe, PipeFails, SetCloexec, Fork, ForkFails, CloseChildEnds, NextPipe,
      CallPlaces
<1>5. ReadToTheEnd(c)'
  BY <1>4 DEF ReadToTheEnd
<1>6. WriterHolds(c)'
  <2>1. CASE MakePipe(c)
    <3>1. call'[c].at = NextPipe(c) /\ child' = child
      BY <2>1, ToTyped DEF MakePipe, NextPipe, CallPlaces
    <3>2. NextPipe(c) = "out" => OutputWrite(c) \in open'
      BY <2>1 DEF MakePipe, OutputWrite
    <3>3. QED
      BY <3>1, <3>2 DEF WholeInv, WritersHold, WriterHolds, Alive, OutputWrite
  <2>2. CASE SetCloexec(c)
    BY <2>2 DEF SetCloexec, WholeInv, WritersHold, WriterHolds, Alive, OutputWrite
  <2>3. CASE Fork(c)
    <3>1. OutputWrite(c) \in open /\ exposed \subseteq open
      BY <2>3 DEF Fork, At, WholeInv, WritersHold
    <3>2. /\ child'[c].held = open /\ child'[c].leaked = exposed
          /\ call'[c].at = "forked"
      BY <2>3, ToTyped DEF Fork, Inherited, ChildState, CallPlaces
    <3>3. QED
      BY <3>1, <3>2 DEF WriterHolds, OutputWrite
  <2>4. CASE PipeFails(c) \/ ForkFails(c) \/ CloseChildEnds(c)
    <3>1. call'[c].at # "out" /\ child' = child
      BY <2>4, ToTyped DEF PipeFails, ForkFails, CloseChildEnds, CallPlaces
    <3>2. QED
      BY <3>1 DEF WholeInv, WritersHold, WriterHolds, Alive, OutputWrite
  <2>5. QED
    BY <2>1, <2>2, <2>3, <2>4 DEF EarlyStep
<1>7. QED
  BY <1>3, <1>5, <1>6 DEF WholeInv, WritersHold, ReadsToTheEnd, WriterHolds, ReadToTheEnd

LEMMA LoopStaysWhole ==
    ASSUME RunTypes, Unforked, FedToTheEnd, WholeInv, NEW c \in Calls, LoopStep(c)
    PROVE  WholeInv'
<1> USE DEF RunTypes, RunTypeOK
<1>1. OpensOnly(c) /\ (Alive(c)' => child'[c] = child[c])
  BY LoopOpens
<1>2. \A d \in Calls : d # c => call'[d] = call[d]
  BY LoopMoves
<1>3. open \subseteq open' \cup Own(c)
  BY PollMoves, OwnEnds DEF LoopStep, Check, PollFails, PollExpires, Read, CloseEnds, Reap, Return
<1>4. \A d \in Calls : d # c => WriterHolds(d)' /\ ReadToTheEnd(d)'
  BY <1>1, <1>2, <1>3, OthersStayWhole
<1>5. call'[c].at # "out"
  BY ToTyped, BreakTyped, PollMoves
  DEF LoopStep, Check, PollFails, PollExpires, Read, CloseEnds, Reap, Return, CallPlaces
<1>6. WriterHolds(c)'
  BY <1>1, <1>5 DEF WholeInv, WritersHold, WriterHolds, Alive, OutputWrite
<1>7. Eof(c) => Eof(c)'
  BY <1>1, EofStays, LoopIsLate DEF WholeInv
<1>8. ReadToTheEnd(c)'
  <2>1. CASE Check(c) \/ PollFails(c)
    <3>1. call'[c].at = "poll" \/ (call'[c].at = "close" /\ call'[c].ended # "no")
      BY <2>1, ToTyped, BreakTyped DEF Check, PollFails, CallPlaces
    <3>2. QED
      BY <3>1 DEF ReadToTheEnd
  <2>2. CASE PollExpires(c)
    <3>1. call'[c].at = "check"
      BY <2>2, ToTyped DEF PollExpires, CallPlaces
    <3>2. QED
      BY <3>1 DEF ReadToTheEnd
  <2>3. CASE Poll(c)
    <3>1. call'[c].at = IF Readable(c) THEN "read" ELSE "check"
      BY <2>3, PollMoves
    <3>2. data'[c].out = data[c].out
      BY <2>3 DEF Poll
    <3>3. Readable(c) /\ data[c].out = 0 => Eof(c)
      BY DEF Readable
    <3>4. QED
      BY <1>7, <3>1, <3>2, <3>3 DEF ReadToTheEnd
  <2>4. CASE Read(c)
    <3>1. CASE data[c].out > 0
      <4>1. call'[c].at = "check"
        BY <2>4, <3>1, ToTyped DEF Read, CallPlaces
      <4>2. QED
        BY <4>1 DEF ReadToTheEnd
    <3>2. CASE ~(data[c].out > 0)
      <4>1. data[c].out = 0 /\ call[c].at = "read"
        BY <2>4, <3>2 DEF Read, At
      <4>2. Eof(c)
        BY <4>1 DEF WholeInv, ReadsToTheEnd
      <4>3. QED
        BY <1>7, <4>2 DEF ReadToTheEnd
    <3>3. QED
      BY <3>1, <3>2
  <2>5. CASE CloseEnds(c) \/ Reap(c) \/ Return(c)
    <3>1. /\ call[c].at \in {"close", "waiting", "reaped"} /\ call'[c].ended = call[c].ended
          /\ call'[c].at # "read"
      BY <2>5, ToTyped DEF CloseEnds, Reap, Return, At, CallPlaces
    <3>2. call[c].ended = "no" => Eof(c)
      BY <3>1 DEF WholeInv, ReadsToTheEnd
    <3>3. QED
      BY <1>7, <3>1, <3>2 DEF ReadToTheEnd
  <2>6. QED
    BY <2>1, <2>2, <2>3, <2>4, <2>5 DEF LoopStep
<1>9. QED
  BY <1>4, <1>6, <1>8 DEF WholeInv, WritersHold, ReadsToTheEnd, WriterHolds, ReadToTheEnd

LEMMA ChildStaysWhole ==
    ASSUME RunTypes, Unforked, WholeInv, NEW c \in Calls, ChildStep(c)
    PROVE  WholeInv'
<1>1. UNCHANGED <<call, open>>
  BY ChildKeepsTypes
<1>2. /\ OpensOnly(c)
      /\ Alive(c)' => Alive(c) /\ OutputWrite(c) \in child'[c].held
      /\ child'[c].at \in {"forked", "grouped"} => child'[c].leaked \subseteq child'[c].held
  BY ChildOpens DEF WholeInv
<1>3. \A d \in Calls : d # c => WriterHolds(d)' /\ ReadToTheEnd(d)'
  BY <1>1, <1>2, OthersStayWhole
<1>4. WriterHolds(c)'
  BY <1>1, <1>2 DEF WholeInv, WritersHold, WriterHolds, OutputWrite
<1>5. call[c].at \notin {"start", "in"} /\ Eof(c) => Eof(c)'
  BY <1>2, EofStays DEF WholeInv
<1>6. ReadToTheEnd(c)'
  <2>1. data[c].out \in Nat /\ data \in [Calls -> [in : 0..Capacity, out : 0..Capacity]]
    BY RunConstants DEF RunTypes, RunTypeOK
  <2>2. data'[c].out = data[c].out \/ data'[c].out = data[c].out + 1
    <3>1. CASE Puts(c)
      BY <2>1, <3>1 DEF Puts
    <3>2. CASE Takes(c)
      BY <2>1, <3>2 DEF Takes
    <3>3. CASE ~Puts(c) /\ ~Takes(c)
      BY <3>3 DEF ChildStep, ProgramStep, SetGroup, Exec, BrokenPipe, Finishes, Crashes,
                  Starts, ForkEnds
    <3>4. QED
      BY <3>1, <3>2, <3>3
  <2>3. data'[c].out = 0 => data[c].out = 0
    BY <2>1, <2>2
  <2>4. QED
    BY <1>1, <1>5, <2>3 DEF WholeInv, ReadsToTheEnd, ReadToTheEnd
<1>7. QED
  BY <1>3, <1>4, <1>6 DEF WholeInv, WritersHold, ReadsToTheEnd, WriterHolds, ReadToTheEnd

LEMMA WholeInvIsKept ==
    RunTypes /\ FedToTheEnd /\ LeakInv /\ WholeInv /\ [Next]_vars => WholeInv'
<1> SUFFICES ASSUME RunTypes, FedToTheEnd, LeakInv, WholeInv, [Next]_vars PROVE WholeInv'
  OBVIOUS
<1>1. ASSUME \A d \in Calls : call'[d].at = call[d].at /\ call'[d].ended = call[d].ended,
             UNCHANGED <<child, data, open>>
      PROVE  WholeInv'
  BY <1>1 DEF WholeInv, WritersHold, ReadsToTheEnd, Alive, Eof, Held, OutputWrite
<1>2. CASE Cancel \/ UNCHANGED vars
  BY <1>1, <1>2 DEF Cancel, vars
<1>3. ASSUME NEW c \in Calls, DeadlinePasses(c) PROVE WholeInv'
  BY <1>1, <1>3, ClockKeepsTypes
<1>4. ASSUME NEW c \in Calls, EarlyStep(c) \/ LoopStep(c) \/ ChildStep(c) PROVE WholeInv'
  BY <1>4, EarlyStaysWhole, LoopStaysWhole, ChildStaysWhole DEF LeakInv
<1>5. QED
  BY <1>2, <1>3, <1>4, RunSteps

\* A call that returns by itself has all the output of its program: run_process
\* leaves its loop at an end of file, and there is none while the program, or
\* whoever was forked with its pipe open, can still write.
THEOREM NoOutputIsLost == Spec => []OutputIsWhole
<1>1. Init => LeakInv /\ WholeInv
  BY DEF Init, LeakInv, OneWay, Keeps, Unforked, WholeInv, WritersHold, ReadsToTheEnd, Alive
<1>2. WholeInv => OutputIsWhole
  BY DEF WholeInv, ReadsToTheEnd, OutputIsWhole, At, Eof
<1>3. QED
  BY <1>1, <1>2, RunStartsTyped, RunTypesAreKept, LeakInvIsKept, WholeInvIsKept, PTL DEF Spec
=============================================================================
