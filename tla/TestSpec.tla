------------------------------ MODULE TestSpec ------------------------------
(***************************************************************************)
(* What POST /api/admin/tests takes for a test (server/spec.cpp) and what  *)
(* the table tests takes (migrations/001_initial.sql): two checks written  *)
(* apart, in two languages, of which the second answers with an error 500. *)
(*                                                                         *)
(* A body is a record of the JSON fields; None stands for a field that is  *)
(* missing or null, and for a time control that cannot be read; otherwise   *)
(* that is a record of milliseconds.  alpha and beta are percentages; a    *)
(* ref or a book's name is reduced to whether its characters are allowed.  *)
(***************************************************************************)
EXTENDS Integers

CONSTANTS
    IntMax,     \* the largest int (INT32_MAX)
    MaxBase, MaxIncrement, MaxHash, MaxTotal,  \* the limits of the fields
    Presets,    \* the bounds of the presets gainer and nonreg
    None

\* The bodies, of any numbers and texts.
Number == Int \cup {None}
Bounds == [elo0 : Number, elo1 : Number, alpha : Number, beta : Number]
Bodies ==
    [kind : {"sprt", "gauntlet", "other"}, refs : {"valid", "invalid"}, book : {"valid", "invalid"},
     tc : [base : Int, increment : Int] \cup {None}, hash : Number, total : Number,
     priority : Number, preset : {"gainer", "nonreg", "custom", "other", None},
     elo0 : Number, elo1 : Number, alpha : Number, beta : Number]

\* The column total_pairs is an int: it has room for what parse_test_spec takes.
ASSUME SpecAssumption ==
    /\ IntMax \in Nat /\ MaxTotal \in Nat /\ MaxTotal <= IntMax
    /\ Presets \in [DOMAIN Presets -> Bounds]

\* A long long narrowed to an int.
Narrowed(n) == ((n + IntMax + 1) % (2 * (IntMax + 1))) - (IntMax + 1)

ValidTc(tc) ==
    /\ tc # None
    /\ tc.base \in 1..MaxBase /\ tc.increment \in 0..MaxIncrement

\* An optional field, with the value it has when it is left out.
Field(value, default) == IF value = None THEN default ELSE value

HasBounds(b) == \E f \in {"elo0", "elo1", "alpha", "beta"} : b[f] # None

\* The SPRT bounds that a body asks for, None where it leaves one out.
BoundsOf(b) ==
    CASE b.preset = "custom" ->
           [elo0 |-> b.elo0, elo1 |-> b.elo1,
            alpha |-> Field(b.alpha, 5), beta |-> Field(b.beta, 5)]
      [] b.preset \in DOMAIN Presets -> Presets[b.preset]
      [] OTHER -> [elo0 |-> None, elo1 |-> None, alpha |-> None, beta |-> None]

ValidBounds(b) ==
    LET bounds == BoundsOf(b) IN
    /\ b.preset = "custom" \/ (b.preset \in DOMAIN Presets /\ ~HasBounds(b))
    /\ bounds.elo0 # None /\ bounds.elo1 # None
    /\ bounds.elo0 < bounds.elo1
    /\ bounds.alpha \in 1..99 /\ bounds.beta \in 1..99

\* parse_test_spec throws no SpecError.
Accepts(b) ==
    /\ b.kind \in {"sprt", "gauntlet"}
    /\ b.refs = "valid" /\ b.book = "valid"
    /\ ValidTc(b.tc)
    /\ Field(b.hash, 16) \in 1..MaxHash
    /\ b.total # None /\ b.total \in 1..MaxTotal
    /\ IF b.kind = "gauntlet" THEN b.preset = None /\ ~HasBounds(b) ELSE ValidBounds(b)

\* The TestSpec made of an accepted body.
SpecOf(b) ==
    [kind |-> b.kind, bounds |-> BoundsOf(b), total |-> b.total,
     priority |-> Narrowed(Field(b.priority, 0))]

\* The row that insert_test writes breaks no CHECK and no range of tests.
Storable(spec, candidate, baseline) ==
    /\ candidate # baseline
    /\ spec.kind = "sprt" =>
         /\ spec.bounds.elo0 # None /\ spec.bounds.elo1 # None
         /\ spec.bounds.elo0 < spec.bounds.elo1
    /\ spec.priority \in (-(IntMax + 1))..IntMax
    /\ spec.total \in 1..IntMax
=============================================================================
