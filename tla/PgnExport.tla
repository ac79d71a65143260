----------------------------- MODULE PgnExport ------------------------------
(***************************************************************************)
(* Games are stored while the PGN of their test is downloaded.  A session  *)
(* that stores a pair draws the id of a game when it inserts it, and the   *)
(* games appear together when it commits: games appear in another order    *)
(* than that of their ids.  A download reads a batch of games at a time,   *)
(* each in a transaction of its own.                                       *)
(*                                                                         *)
(* The .pgn.gz sends the games of a manifest that it made at the start,    *)
(* with their length announced; the .pgn sends what follows a cursor until *)
(* nothing does.  Batches leave in the order of the ids.                   *)
(***************************************************************************)
EXTENDS Integers, FiniteSets

CONSTANTS
    Sessions,  \* connections that store pairs
    Batch      \* games of a batch (200)

ASSUME BatchAssumption == Batch \in Nat \ {0}

VARIABLES
    nextId,    \* the identity sequence of games.id
    inserted,  \* the games that each session has inserted and not committed
    games,     \* the committed games: records of an id and a validity
    zip,       \* the download of /api/tests/:id/pgn.gz
    stream     \* the download of /api/tests/:id/pgn

exportVars == <<nextId, inserted, games, zip, stream>>

Ids(G) == {g.id : g \in G}
\* The first n numbers of a set.
Lowest(S, n) == {x \in S : Cardinality({y \in S : y < x}) < n}

-----------------------------------------------------------------------------
(* submit_result: its inserts and its end. *)

InsertGame(s, valid) ==
    /\ inserted' = [inserted EXCEPT ![s] = @ \cup {[id |-> nextId, valid |-> valid]}]
    /\ nextId' = nextId + 1
    /\ UNCHANGED <<games, zip, stream>>

CommitGames(s) ==
    /\ games' = games \cup inserted[s]
    /\ inserted' = [inserted EXCEPT ![s] = {}]
    /\ UNCHANGED <<nextId, zip, stream>>

\* The ids of a transaction that fails are lost.
RollBack(s) ==
    /\ inserted' = [inserted EXCEPT ![s] = {}]
    /\ UNCHANGED <<nextId, games, zip, stream>>

-----------------------------------------------------------------------------
(* The .pgn.gz. *)

\* Valid games, or all of them with ?all=1.
Listed(all) == Ids({g \in games : g.valid \/ all})

AskZip ==
    /\ zip.at = "off"
    /\ \E all \in BOOLEAN :
         zip' = [at |-> "sending", manifest |-> Listed(all), sent |-> {}]
    /\ UNCHANGED <<nextId, inserted, games, stream>>

\* pgn_range: all the test's games between the ends of the batch.
InRange(want) == {i \in Ids(games) : \E a, b \in want : a <= i /\ i <= b}

\* The next games of the manifest are found among those of the range, and the
\* others of the range are passed over; a game that has changed ends the
\* download short of its length.
MatchedAll(range, want) == range \* mutant: what is between is sent too
Matched(range, want) == range \cap want
SendZip ==
    LET want == Lowest(zip.manifest \ zip.sent, Batch)
        found == Matched(InRange(want), want)
    IN
    /\ zip.at = "sending"
    /\ zip' = IF want = {} THEN [zip EXCEPT !.at = "done"]
              ELSE [zip EXCEPT !.sent = @ \cup found, !.at = IF want \subseteq found THEN @ ELSE "cut"]
    /\ UNCHANGED <<nextId, inserted, games, stream>>

-----------------------------------------------------------------------------
(* The .pgn. *)

\* committed: the games that were there when the download began.
AskStream ==
    /\ stream.at = "off"
    /\ stream' = [at |-> "sending", cursor |-> 0, sent |-> {}, committed |-> Ids(games)]
    /\ UNCHANGED <<nextId, inserted, games, zip>>

\* pgn_batch: the games that follow the cursor, of which the last one is the
\* next cursor.
After(cursor) == Lowest({i \in Ids(games) : i > cursor}, Batch)
Greatest(S) == CHOOSE i \in S : \A j \in S : j <= i
SendStream ==
    LET batch == After(stream.cursor) IN
    /\ stream.at = "sending"
    /\ stream' = IF batch = {} THEN [stream EXCEPT !.at = "done"]
                 ELSE [stream EXCEPT !.sent = @ \cup batch, !.cursor = Greatest(batch)]
    /\ UNCHANGED <<nextId, inserted, games, zip>>

\* The reader leaves, or a read fails: what was sent stays without an end.
Cut ==
    /\ \/ zip.at = "sending" /\ zip' = [zip EXCEPT !.at = "cut"] /\ UNCHANGED stream
       \/ stream.at = "sending" /\ stream' = [stream EXCEPT !.at = "cut"] /\ UNCHANGED zip
    /\ UNCHANGED <<nextId, inserted, games>>

Download == AskZip \/ SendZip \/ AskStream \/ SendStream \/ Cut

ExportInit ==
    /\ nextId = 1 /\ games = {} /\ inserted = [s \in Sessions |-> {}]
    /\ zip = [at |-> "off", manifest |-> {}, sent |-> {}]
    /\ stream = [at |-> "off", cursor |-> 0, sent |-> {}, committed |-> {}]

ExportNext ==
    \/ \E s \in Sessions, valid \in BOOLEAN : InsertGame(s, valid)
    \/ \E s \in Sessions : CommitGames(s) \/ RollBack(s)
    \/ Download

ExportSpec == ExportInit /\ [][ExportNext]_exportVars

-----------------------------------------------------------------------------
\* A .pgn.gz has the games of its manifest and no other; a .pgn that ends has
\* every game that was committed when it was asked for, although games with
\* smaller ids appear while it is sent, and never sends a game twice: what was
\* sent lies behind the cursor.  (A game committed meanwhile is sent only when
\* its id is beyond the cursor.)
ExportIsWhole ==
    /\ zip.sent \subseteq zip.manifest
    /\ zip.at = "done" => zip.sent = zip.manifest
    /\ \A i \in stream.sent : i <= stream.cursor
    /\ stream.at = "done" => stream.committed \subseteq stream.sent
=============================================================================
