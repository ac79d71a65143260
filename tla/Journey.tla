------------------------------ MODULE Journey -------------------------------
(***************************************************************************)
(* The way of a test through the system, in two acts.  In the first it is  *)
(* submitted, validated and promoted (module TestIntake).  In the second a *)
(* computer becomes a client (module ClientHost), whose slots play the     *)
(* positions the test was given and send their reports, while the games    *)
(* are downloaded (modules PairReport and PgnExport).  What claims the     *)
(* pairs, leases them and decides the test is module JobQueue.             *)
(***************************************************************************)
EXTENDS TestIntake, ClientHost, PairReport

VARIABLES
    act,     \* "intake" | "play"
    unplayed \* the positions of the running test that no slot has taken

playVars == <<host, reportVars, exportVars, unplayed>>
vars == <<act, intakeVars, playVars>>

Quiet ==
    /\ server = "up" /\ Validating = {}
    /\ \A u \in Users : request[u].at = "none" /\ cli[u].at \notin {"polling", "reading"}

\* The test runs and nobody is at work on another one: the second act begins,
\* and what the first one left is forgotten.
CurtainRises ==
    /\ act = "intake" /\ Quiet
    /\ \E t \in Tests : tests[t].status = "running" /\ unplayed' = tests[t].positions
    /\ act' = "play"
    /\ server' = "up" /\ stop' = FALSE /\ pending' = TRUE /\ smoke' = At("loop")
    /\ book' = 1 /\ cache' = NoCount /\ faults' = 0
    /\ request' = [u \in Users |-> NoRequest]
    /\ cli' = [u \in Users |-> [at |-> "ready", id |-> 0]]
    /\ tests' = [t \in Tests |-> NoTest]
    /\ UNCHANGED <<host, reportVars, exportVars>>

Intake == act = "intake" /\ IntakeNext /\ UNCHANGED <<act, playVars>>

\* The slots that the client registered.
Slots == {s \in Sessions : host.at = "registered" /\ s <= host.slots}

\* A pair is played and reported before the download starts: until its games are
\* inserted a slot touches nothing shared, and could as well do it then.
Plays(s) ==
    /\ PlayPair(s) /\ zip.at = "off" /\ stream.at = "off"
    /\ unplayed > 0 /\ unplayed' = unplayed - 1

\* Downloads only read: two of them at once show nothing.
Reporting == \E s \in Sessions : slot[s].at = "reporting"
DownloadsOne == Download /\ (zip'.at = "off" \/ stream'.at = "off")

Play ==
    /\ act = "play" /\ UNCHANGED <<act, intakeVars>>
    /\ \/ HostStep /\ UNCHANGED <<reportVars, exportVars, unplayed>>
       \/ \E s \in Slots : Plays(s) /\ UNCHANGED host
       \/ \E s \in Slots : Send(s) /\ UNCHANGED <<host, unplayed>>
       \/ /\ ~Reporting /\ UNCHANGED <<host, unplayed>>
          /\ \/ \E s \in Slots : Insert(s) \/ Commit(s) \/ SendAgain(s)
             \/ Slots # {} /\ DownloadsOne /\ UNCHANGED reportVars

Init == act = "intake" /\ unplayed = 0 /\ IntakeInit /\ host = NoHost /\ ReportInit

Next == Intake \/ CurtainRises \/ Play

Spec == Init /\ [][Next]_vars

\* The fairness of the first act (TestIntake): threads run, calls of tools end,
\* 30 s pass, and a server that is down is started again.  A worker with nothing
\* to do leaves the mutex free for 30 s at a time, so a notification gets it.
Fairness ==
    /\ \A u \in Users :
         /\ WF_vars(act = "intake" /\ HandlerStep(u) /\ UNCHANGED <<act, playVars>>)
         /\ SF_vars(act = "intake" /\ NotifySmoke(u) /\ UNCHANGED <<act, playVars>>)
    /\ WF_vars(act = "intake" /\ SmokeStep /\ UNCHANGED <<act, playVars>>)
    /\ WF_vars(act = "intake" /\ ServerStep /\ UNCHANGED <<act, playVars>>)

FairSpec == Spec /\ Fairness
=============================================================================
