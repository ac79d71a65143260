----------------------------- MODULE MCJourney ------------------------------
(* Two people, each with one test, and the file of their book in three
   editions, of which the second is no file. *)
EXTENDS Journey, TLC

CONSTANTS alice, bob

MCPresets == "gainer" :> [elo0 |-> 0, elo1 |-> 5, alpha |-> 5, beta |-> 5]
             @@ "nonreg" :> [elo0 |-> -5, elo1 |-> 0, alpha |-> 5, beta |-> 5]

Plain == [kind |-> "sprt", refs |-> "valid", book |-> "valid",
          tc |-> [base |-> 2, increment |-> 0], hash |-> None, total |-> 1, priority |-> None,
          preset |-> None, elo0 |-> None, elo1 |-> None, alpha |-> None, beta |-> None]
Custom == [Plain EXCEPT !.preset = "custom", !.elo0 = 0, !.elo1 = 5]

\* Alice asks for two positions; Bob's priority is beyond an int (it wraps to
\* 0), or his body is the one that a check of parse_test_spec is for.
MCOptions ==
    alice :> {[Plain EXCEPT !.total = 2, !.preset = "nonreg"]} @@
    bob :> {[Plain EXCEPT !.priority = 2 * (IntMax + 1)],
            [Custom EXCEPT !.elo0 = 5], [Custom EXCEPT !.elo1 = -5], [Custom EXCEPT !.alpha = 100],
            [Custom EXCEPT !.elo1 = None], [Plain EXCEPT !.kind = "gauntlet", !.elo0 = 0],
            [Plain EXCEPT !.refs = "invalid"], [Plain EXCEPT !.book = "invalid"],
            [Plain EXCEPT !.tc = None], [Plain EXCEPT !.hash = 0],
            [Plain EXCEPT !.total = 0], [Plain EXCEPT !.total = IntMax + 1]}

MCPositions == <<2, 0, 1>>

Cpu(classes, cores) == [c \in DOMAIN classes |-> [class |-> classes[c], core |-> cores[c]]]

\* Two threads on each of two fast cores and two slow ones, of which the process
\* may have all or some; alike cores; a desktop Mac; a system that is not read.
MCMachines ==
    {[system |-> "linux", cpu |-> Cpu(<<2, 2, 2, 2, 1, 1>>, <<1, 2, 1, 2, 3, 4>>), allowed |-> a] :
        a \in {1..6, {1, 3, 5, 6}}} \cup
    {[system |-> "linux", cpu |-> Cpu(<<1, 1>>, <<1, 2>>), allowed |-> {1}],
     [system |-> "macos", cpu |-> Cpu(<<1, 1>>, <<1, 2>>), allowed |-> {1, 2}],
     [system |-> "macos", cpu |-> Cpu(<<2, 2, 2, 2, 1>>, <<1, 2, 3, 4, 5>>), allowed |-> 1..5],
     [system |-> "macos", cpu |-> Cpu(<<2, 2, 1>>, <<1, 2, 3>>), allowed |-> 1..3],
     [system |-> "other", cpu |-> Cpu(<<1>>, <<1>>), allowed |-> {1}]}

MCWishes ==
    [slots : {NoWish, 0, 1, 2, 3}, cores : {NoWish, <<1>>, <<1, 2>>, <<1, 1>>, <<1, 3>>}]

Played(winner, ending, plies, duration) ==
    [winner |-> winner, ending |-> ending, plies |-> plies, duration |-> duration]
MCGames ==
    {Played("candidate", "normal", 40, 6100), Played("baseline", "time_forfeit", 40, 10000),
     Played("none", "adjudication", 41, 10999), Played("candidate", "crash", 40, 6000),
     Played("baseline", "illegal_move", 40, 6000), Played("none", "normal", 40, 11000),
     Played("none", "normal", 60, 61000), Played("candidate", "normal", 0, 1),
     Played("none", "unterminated", 40, 6000), Played("baseline", "normal", Missing, 6000)}
MCTc == [base |-> 2000, increment |-> 0]
=============================================================================
