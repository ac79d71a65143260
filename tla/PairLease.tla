----------------------------- MODULE PairLease -----------------------------
(***************************************************************************)
(* What the queue promises about a pair, whatever the requests, failures   *)
(* and interleavings: the life of a row of job_pairs as its committed      *)
(* versions show it.  There is no test, transaction or lock here.          *)
(***************************************************************************)
EXTENDS Naturals

CONSTANTS Pairs, Clients, Outcomes, MaxAttempts, None

VARIABLE pair

NoPair == [status |-> "absent", leasedTo |-> None, attempts |-> 0,
           due |-> FALSE, outcome |-> None, by |-> None]
NewPair == [NoPair EXCEPT !.status = "pending"]

\* The versions that may follow `row` in one commit.

Created(row) == IF row = NoPair THEN {NewPair} ELSE {}

\* Each lease counts an attempt.
Leased(row) ==
    IF row.status = "pending"
    THEN {[row EXCEPT !.status = "leased", !.leasedTo = c, !.due = FALSE,
                      !.attempts = @ + 1] : c \in Clients}
    ELSE {}

\* A lease that expired stays with its client until it is recovered.
Overdue(row) == IF row.status = "leased" THEN {[row EXCEPT !.due = TRUE]} ELSE {}

\* Only the holder of the lease completes the pair, and stays on the row.
Completed(row) ==
    IF row.status = "leased"
    THEN {[row EXCEPT !.status = "completed", !.outcome = o, !.by = row.leasedTo] :
            o \in Outcomes}
    ELSE {}

Returned(row) ==
    IF row.status = "leased"
    THEN {[row EXCEPT !.status = "pending", !.leasedTo = None, !.due = FALSE]}
    ELSE {}

\* A pair is given up only after an expired lease that used its last attempt.
Discarded(row) ==
    IF row.status = "leased" /\ row.due /\ row.attempts >= MaxAttempts
    THEN {[row EXCEPT !.status = "discarded"]}
    ELSE {}

After(row) == {row} \cup Created(row) \cup Leased(row) \cup Overdue(row)
                    \cup Completed(row) \cup Returned(row) \cup Discarded(row)

Init == pair \in [Pairs -> {NoPair, NewPair}]

\* One commit may change several pairs, each by one of the moves above.
Next == \A p \in Pairs : pair'[p] \in After(pair[p])

Spec == Init /\ [][Next]_pair
=============================================================================
