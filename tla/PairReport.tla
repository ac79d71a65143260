----------------------------- MODULE PairReport -----------------------------
(***************************************************************************)
(* What becomes of a pair that was played: fastchess writes its games, the *)
(* client reads the PGN and makes the report of them (client/pgn.cpp,      *)
(* make_result_body), the server checks the report (routes.cpp,            *)
(* sanity.cpp), stores the games (queue.cpp, module PgnExport) and counts  *)
(* the pair by a view (pair_outcomes).                                     *)
(***************************************************************************)
EXTENDS PgnExport, Sequences

CONSTANTS
    Games,         \* what may happen in a game, see below
    Tc,            \* the effective time control: base and increment, in ms
    LongestGame,   \* the largest duration in ms (INT32_MAX)
    MaxPlyCount,
    MaxRollbacks,  \* bound of the model: results that have to be sent again
    Missing        \* a value or a tag that is not there

Engines == {"candidate", "baseline"}
Endings == {"normal", "time_forfeit", "illegal_move", "rules_infraction", "adjudication",
            "abandoned", "stalled_connection", "crash", "disconnect", "unterminated"}

ASSUME GamesAssumption ==
    /\ Games \subseteq [winner : Engines \cup {"none"}, ending : Endings,
                       plies : Nat \cup {Missing}, duration : Nat]
    /\ Tc \in [base : Nat, increment : Nat] /\ LongestGame \in Nat /\ MaxPlyCount \in Nat
    /\ Missing \notin Nat /\ Missing \notin Endings

VARIABLES
    slot,      \* the slots of the client: each plays a pair and sends it
    rollbacks

reportVars == <<slot, rollbacks>>

-----------------------------------------------------------------------------
(* fastchess.  A game is a record of its winner, the Termination tag it    *)
(* ends with, its plies and its duration in ms, of which the PGN has the   *)
(* whole seconds.  The engines change colours between the games; a game    *)
(* that was not ended has no result.  (The results are 1-0, 0-1, 1/2-1/2   *)
(* and *, named for what they say, and the tags have blanks.)              *)

Text(game, white) ==
    [white |-> white, black |-> CHOOSE e \in Engines : e # white,
     result |-> IF game.ending = "unterminated" THEN "none"
                ELSE IF game.winner = "none" THEN "draw"
                ELSE IF game.winner = white THEN "white" ELSE "black",
     termination |-> game.ending, plies |-> game.plies, seconds |-> game.duration \div 1000]

\* The games that were written, of a pair that may have been cut short.
Pgn(pair) == [i \in 1..Len(pair) |-> Text(pair[i], IF i = 1 THEN "candidate" ELSE "baseline")]

-----------------------------------------------------------------------------
(* The client. *)

MapTermination(tag) ==
    CASE tag \in {Missing, "normal"} -> "normal"
      [] tag = "time_forfeit" -> "timeout"
      [] tag \in {"illegal_move", "rules_infraction"} -> "illegal_move"
      [] tag = "adjudication" -> "adjudication"
      [] tag \in {"abandoned", "stalled_connection", "crash", "disconnect"} -> "crash"
      [] OTHER -> "other"

ParseDuration(seconds) == IF 1000 * seconds > LongestGame THEN Missing ELSE 1000 * seconds

Readable(text) ==
    "candidate" \in {text.white, text.black} /\ text.result \in {"white", "black", "draw"}

CandidateIsWhite(text) == text.white = "candidate"
OutcomeOfWhite(text) == \* mutant: the result is read as if the candidate had white
    CASE text.result = "draw" -> "draw" [] text.result = "white" -> "candidate_win"
      [] OTHER -> "candidate_loss"
Outcome(text) ==
    IF text.result = "draw" THEN "draw"
    ELSE IF (text.result = "white") = CandidateIsWhite(text) THEN "candidate_win"
    ELSE "candidate_loss"

\* The i-th game of the report; one that is missing has crashed, with the
\* colours that the other one leaves.
Reported(pgn, i) ==
    LET there(k) == k <= Len(pgn) /\ Readable(pgn[k])
    IN IF there(i)
       THEN [white |-> CandidateIsWhite(pgn[i]), outcome |-> Outcome(pgn[i]),
             termination |-> MapTermination(pgn[i].termination),
             plies |-> pgn[i].plies, duration |-> ParseDuration(pgn[i].seconds)]
       ELSE [white |-> IF there(3 - i) THEN ~CandidateIsWhite(pgn[3 - i]) ELSE i = 1,
             outcome |-> "draw", termination |-> "crash", plies |-> Missing, duration |-> Missing]

MakeResultBody(pgn) == [i \in 1..2 |-> Reported(pgn, i)]

-----------------------------------------------------------------------------
(* The server. *)

Outcomes == {"candidate_win", "draw", "candidate_loss"}
Terminations == {"normal", "timeout", "illegal_move", "crash", "adjudication", "other"}

\* parse_game, of routes.cpp, throws no BadRequest.
Taken(body) ==
    \A i \in 1..2 :
        /\ body[i].outcome \in Outcomes /\ body[i].termination \in Terminations
        /\ body[i].plies = Missing \/ body[i].plies >= 0
        /\ body[i].duration = Missing \/ body[i].duration >= 0

MaxPlausibleDuration(plies) ==
    LET clocks == 2 * Tc.base + Tc.increment * plies IN clocks + clocks \div 4 + 5000

CheckGame(game) ==
    /\ game.termination \notin {"crash", "illegal_move"}
    /\ game.plies # Missing /\ game.plies \in 1..MaxPlyCount
    /\ game.duration # Missing /\ game.duration <= MaxPlausibleDuration(game.plies)

\* check_pair: whether each of the games is valid.
CheckPair(body) == [i \in 1..2 |-> CheckGame(body[i]) /\ body[1].white # body[2].white]

\* The view pair_outcomes, in half points; Missing when the pair does not count.
Points(outcome) == CASE outcome = "candidate_win" -> 2 [] outcome = "draw" -> 1 [] OTHER -> 0
PairScore(body, valid) ==
    IF valid[1] /\ valid[2] THEN Points(body[1].outcome) + Points(body[2].outcome) ELSE Missing

-----------------------------------------------------------------------------
(* The slots. *)

NoPlay == [at |-> "free", pair |-> Missing, valid |-> <<>>]

\* The slot plays a pair and makes its report.  (What follows until the report
\* is sent touches nothing shared: one slot at a time does it.)
PlayPair(s) ==
    /\ slot[s].at = "free" /\ \A r \in Sessions : slot[r].at # "reporting"
    /\ \E written \in 0..2 : \E pair \in [1..written -> Games] :
         slot' = [slot EXCEPT ![s] = [at |-> "reporting", pair |-> pair, valid |-> <<>>]]
    /\ UNCHANGED <<rollbacks, exportVars>>

\* submit: the server looks at the report before it opens a transaction.
Send(s) ==
    LET body == MakeResultBody(Pgn(slot[s].pair)) IN
    /\ slot[s].at = "reporting"
    /\ slot' = [slot EXCEPT ![s] = IF Taken(body)
                                   THEN [at |-> "first", pair |-> Missing, valid |-> CheckPair(body)]
                                   ELSE NoPlay]
    /\ UNCHANGED <<rollbacks, exportVars>>

Insert(s) ==
    /\ slot[s].at \in {"first", "second"}
    /\ InsertGame(s, slot[s].valid[IF slot[s].at = "first" THEN 1 ELSE 2])
    /\ slot' = [slot EXCEPT ![s].at = IF @ = "first" THEN "second" ELSE "commit"]
    /\ UNCHANGED rollbacks

Commit(s) ==
    /\ slot[s].at = "commit" /\ CommitGames(s)
    /\ slot' = [slot EXCEPT ![s] = NoPlay]
    /\ UNCHANGED rollbacks

\* An error 5xx: the client sends the same report again.
SendAgain(s) ==
    /\ slot[s].at \in {"second", "commit"} /\ rollbacks < MaxRollbacks
    /\ RollBack(s)
    /\ slot' = [slot EXCEPT ![s].at = "first"]
    /\ rollbacks' = rollbacks + 1

ReportInit == slot = [s \in Sessions |-> NoPlay] /\ rollbacks = 0 /\ ExportInit

-----------------------------------------------------------------------------
\* A game that says who is the better: both clocks ran, no engine broke a rule
\* or died, and the record of it, in whole seconds, can be true and fits in an int.
Told(game) == 1000 * (game.duration \div 1000)
Fair(game) ==
    /\ game.ending \in {"normal", "time_forfeit", "adjudication"}
    /\ game.plies # Missing /\ game.plies > 0 /\ game.plies <= MaxPlyCount
    /\ Told(game) <= MaxPlausibleDuration(game.plies) /\ Told(game) <= LongestGame

HalfPoints(game) ==
    CASE game.winner = "candidate" -> 2 [] game.winner = "none" -> 1 [] OTHER -> 0

\* Every report is one that the server takes, and the pair counts for what was
\* played: both games written and fair, the candidate's points whatever colour
\* it had; otherwise, cut short, crashed or beyond belief, for nothing.
CountedAsPlayed ==
    \A s \in Sessions : slot[s].at = "reporting" =>
        LET pair == slot[s].pair
            body == MakeResultBody(Pgn(pair))
        IN
        /\ Taken(body)
        /\ PairScore(body, CheckPair(body)) =
             IF Len(pair) = 2 /\ \A i \in 1..2 : Fair(pair[i])
             THEN HalfPoints(pair[1]) + HalfPoints(pair[2]) ELSE Missing
=============================================================================
