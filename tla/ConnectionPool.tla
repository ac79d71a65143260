--------------------------- MODULE ConnectionPool ---------------------------
(***************************************************************************)
(* The pool of database connections that HTTP threads, the maintenance     *)
(* thread and the smoke worker share (server/db/pool.cpp).                 *)
(*                                                                         *)
(* A step is a critical section of the pool's mutex.  acquire() checks the *)
(* predicate of the condition variable, takes an idle connection or        *)
(* reserves room for a new one, which it opens outside the mutex; a thread *)
(* that finds neither sleeps.  A sleeping thread runs again when notify_one *)
(* picks it, or spuriously, and checks the predicate once more.            *)
(***************************************************************************)
EXTENDS Naturals, FiniteSets

CONSTANTS
    Threads,    \* the threads that use the pool
    Connections,\* identities for the connections opened, enough of them
    Size,       \* CAPI_DB_POOL_SIZE
    None        \* no connection

ASSUME PoolConstants ==
    /\ IsFiniteSet(Threads)
    /\ Size \in Nat \ {0}
    /\ None \notin Connections

VARIABLES
    at,         \* what each thread is doing
    holds,      \* the connection each thread holds, or None
    open,       \* connections whose is_open() is true
    idle,       \* connections in idle_
    created     \* created_

vars == <<at, holds, open, idle, created>>

\* "out": uses no connection; "enter": about to lock the mutex in acquire();
\* "asleep": waits in cv_; "awake": leaves the wait and has to check again;
\* "connecting": opens a connection; "in": has a Lease.
Places == {"out", "enter", "asleep", "awake", "connecting", "in"}

Asleep == {t \in Threads : at[t] = "asleep"}
Awake == {t \in Threads : at[t] = "awake"}
Connecting == {t \in Threads : at[t] = "connecting"}
Holders == {t \in Threads : at[t] = "in"}

Goto(t, place) == at' = [at EXCEPT ![t] = place]

\* notify_one wakes one of the threads that sleep, if any, while the caller
\* moves to `place`.
NotifyOne(caller, place) ==
    \/ /\ Asleep = {}
       /\ Goto(caller, place)
    \/ \E t \in Asleep : at' = [at EXCEPT ![caller] = place, ![t] = "awake"]

-----------------------------------------------------------------------------
Call(t) ==
    /\ at[t] = "out"
    /\ Goto(t, "enter")
    /\ UNCHANGED <<holds, open, idle, created>>

TakeIdle(t) ==
    /\ at[t] \in {"enter", "awake"}
    /\ \E c \in idle :
         /\ idle' = idle \ {c}
         /\ holds' = [holds EXCEPT ![t] = c]
    /\ Goto(t, "in")
    /\ UNCHANGED <<open, created>>

HasRoomOffByOne == created <= Size \* mutant: one connection too many
HasRoom == created < Size

Reserve(t) ==
    /\ at[t] \in {"enter", "awake"}
    /\ idle = {}
    /\ HasRoom
    /\ created' = created + 1
    /\ Goto(t, "connecting")
    /\ UNCHANGED <<holds, open, idle>>

Wait(t) ==
    /\ at[t] \in {"enter", "awake"}
    /\ idle = {} /\ ~HasRoom
    /\ Goto(t, "asleep")
    /\ UNCHANGED <<holds, open, idle, created>>

SpuriousWakeup(t) ==
    /\ at[t] = "asleep"
    /\ Goto(t, "awake")
    /\ UNCHANGED <<holds, open, idle, created>>

-----------------------------------------------------------------------------
Used == idle \cup {holds[t] : t \in Holders}

Connect(t) ==
    /\ at[t] = "connecting"
    /\ \E c \in Connections \ Used :
         /\ holds' = [holds EXCEPT ![t] = c]
         /\ open' = open \cup {c}
    /\ Goto(t, "in")
    /\ UNCHANGED <<idle, created>>

\* The constructor of pqxx::connection throws: the room is given back.
ConnectFails(t) ==
    /\ at[t] = "connecting"
    /\ created' = created - 1
    /\ NotifyOne(t, "out")
    /\ UNCHANGED <<holds, open, idle>>

\* The database closes a connection that is in use or idle; the thread that
\* uses it notices.
Breaks(c) ==
    /\ c \in open \cap Used
    /\ open' = open \ {c}
    /\ UNCHANGED <<at, holds, idle, created>>

ReturnBrokenToo(t) == \* mutant: a broken connection keeps its place
    /\ idle' = idle \cup ({holds[t]} \cap open)
    /\ created' = created

Return(t) ==
    IF holds[t] \in open
    THEN idle' = idle \cup {holds[t]} /\ created' = created
    ELSE idle' = idle /\ created' = created - 1

NotifyIfReturned(t) == \* mutant: room given back wakes nobody
    IF holds[t] \in open THEN NotifyOne(t, "out") ELSE Goto(t, "out")

NotifyReturn(t) == NotifyOne(t, "out")

Release(t) ==
    /\ at[t] = "in"
    /\ Return(t)
    /\ NotifyReturn(t)
    /\ holds' = [holds EXCEPT ![t] = None]
    /\ UNCHANGED open

-----------------------------------------------------------------------------
Init ==
    /\ at = [t \in Threads |-> "out"]
    /\ holds = [t \in Threads |-> None]
    /\ open = {} /\ idle = {} /\ created = 0

Acquire(t) == TakeIdle(t) \/ Reserve(t) \/ Wait(t)

Next ==
    \/ \E t \in Threads : \/ Call(t) \/ Acquire(t) \/ SpuriousWakeup(t)
                          \/ Connect(t) \/ ConnectFails(t) \/ Release(t)
    \/ \E c \in Connections : Breaks(c)

Spec == Init /\ [][Next]_vars

\* A thread that runs leaves its critical section, its connection attempt and,
\* its transaction over, its Lease.  Nothing is assumed of who is notified.
FairSpec ==
    /\ Spec
    /\ \A t \in Threads : /\ WF_vars(Acquire(t))
                          /\ WF_vars(Connect(t) \/ ConnectFails(t))
                          /\ WF_vars(Release(t))

-----------------------------------------------------------------------------
\* created_ counts the connections that exist and those being opened, never
\* more than the size of the pool; no two threads share a connection and none
\* is both idle and in use (the Lease is exclusive).
PoolAccounts ==
    /\ created = Cardinality(idle) + Cardinality(Holders) + Cardinality(Connecting)
    /\ created <= Size
    /\ \A t \in Holders : holds[t] \notin idle
    /\ \A t, u \in Holders : holds[t] = holds[u] => t = u

\* No wakeup is lost: while a thread sleeps, every idle connection and every
\* free place has a thread that is awake to take it, also when a connection
\* breaks in use or cannot be opened.
NoLostWakeup ==
    Asleep # {} => Cardinality(idle) + (Size - created) <= Cardinality(Awake)

\* When requests stop coming, every thread that sleeps runs again: a request
\* is never left behind in acquire().
QuietPoolDrains ==
    <>[][\A t \in Threads : ~Call(t)]_vars =>
        \A t \in Threads : at[t] = "asleep" ~> at[t] # "asleep"
=============================================================================
