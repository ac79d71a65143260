------------------------ MODULE ConnectionPoolProofs ------------------------
(***************************************************************************)
(* The pool's accounts and wakeups, for any number of threads and          *)
(* connections.                                                            *)
(***************************************************************************)
EXTENDS ConnectionPool, FiniteSetTheorems, TLAPS

PoolTypeOK ==
    /\ at \in [Threads -> Places]
    /\ holds \in [Threads -> Connections \cup {None}]
    /\ idle \subseteq Connections /\ IsFiniteSet(idle)
    /\ created \in Nat
    /\ \A t \in Holders : holds[t] \in Connections

\* The inductive invariant: PoolAccounts makes room for the reservations that
\* NoLostWakeup counts.
PoolInv == PoolTypeOK /\ PoolAccounts /\ NoLostWakeup

LEMMA AddOne ==
    ASSUME NEW S, IsFiniteSet(S), NEW x, x \notin S
    PROVE  IsFiniteSet(S \cup {x}) /\ Cardinality(S \cup {x}) = Cardinality(S) + 1
BY FS_AddElement

LEMMA RemoveOne ==
    ASSUME NEW S, IsFiniteSet(S), NEW x \in S
    PROVE  IsFiniteSet(S \ {x}) /\ Cardinality(S \ {x}) = Cardinality(S) - 1
BY FS_RemoveElement

\* The threads in each place are finitely many.
LEMMA PlacesAreCounted ==
    /\ IsFiniteSet(Holders) /\ Cardinality(Holders) \in Nat
    /\ IsFiniteSet(Connecting) /\ Cardinality(Connecting) \in Nat
    /\ IsFiniteSet(Awake) /\ Cardinality(Awake) \in Nat
<1>1. ASSUME NEW S, S \subseteq Threads PROVE IsFiniteSet(S) /\ Cardinality(S) \in Nat
  BY <1>1, PoolConstants, FS_Subset, FS_CardinalityType
<1>2. QED
  BY <1>1 DEF Holders, Connecting, Awake

LEMMA IdleIsCounted == ASSUME PoolTypeOK PROVE Cardinality(idle) \in Nat
BY FS_CardinalityType DEF PoolTypeOK

\* What a notification does to the places, wherever its caller comes from.
LEMMA Notified ==
    ASSUME PoolTypeOK, NEW t \in Threads, at[t] \in {"in", "connecting"}, NotifyOne(t, "out")
    PROVE  /\ at' \in [Threads -> Places]
           /\ Holders' = Holders \ {t}
           /\ Connecting' = Connecting \ {t}
           /\ \/ Asleep = {} /\ Asleep' = {} /\ Awake' = Awake
              \/ Asleep # {} /\ Cardinality(Awake') = Cardinality(Awake) + 1
<1>1. CASE Asleep = {} /\ Goto(t, "out")
  BY <1>1 DEF Goto, PoolTypeOK, Places, Holders, Connecting, Asleep, Awake
<1>2. ASSUME NEW u \in Asleep, at' = [at EXCEPT ![t] = "out", ![u] = "awake"]
      PROVE  /\ at' \in [Threads -> Places]
             /\ Holders' = Holders \ {t} /\ Connecting' = Connecting \ {t}
             /\ Cardinality(Awake') = Cardinality(Awake) + 1
  <2>1. u \in Threads /\ u # t /\ at[u] = "asleep"
    BY <1>2 DEF Asleep
  <2>2. /\ at' \in [Threads -> Places]
        /\ Holders' = Holders \ {t} /\ Connecting' = Connecting \ {t}
        /\ Awake' = Awake \cup {u} /\ u \notin Awake
    BY <1>2, <2>1 DEF PoolTypeOK, Places, Holders, Connecting, Asleep, Awake
  <2>3. QED
    BY <2>2, AddOne, PlacesAreCounted
<1>3. QED
  BY <1>1, <1>2 DEF NotifyOne

LEMMA PoolStarts == Init => PoolInv
<1> SUFFICES ASSUME Init PROVE PoolInv
  OBVIOUS
<1>1. Holders = {} /\ Connecting = {} /\ Asleep = {}
  BY DEF Init, Holders, Connecting, Asleep
<1>2. IsFiniteSet(idle) /\ Cardinality(idle) = 0 /\ Cardinality({}) = 0
  BY FS_EmptySet DEF Init
<1>3. QED
  BY <1>1, <1>2, PoolConstants
  DEF Init, PoolInv, PoolTypeOK, PoolAccounts, NoLostWakeup, Places

LEMMA PoolSteps == PoolInv /\ [Next]_vars => PoolInv'
<1> SUFFICES ASSUME PoolInv, [Next]_vars PROVE PoolInv'
  OBVIOUS
<1> USE PlacesAreCounted, IdleIsCounted, PoolConstants
<1>1. ASSUME NEW t \in Threads, Call(t) PROVE PoolInv'
  <2>1. /\ at' \in [Threads -> Places] /\ Holders' = Holders /\ Connecting' = Connecting
        /\ Asleep' = Asleep /\ Awake' = Awake
    BY <1>1 DEF Call, Goto, PoolInv, PoolTypeOK, Places, Holders, Connecting, Asleep, Awake
  <2>2. QED
    BY <1>1, <2>1 DEF Call, PoolInv, PoolTypeOK, PoolAccounts, NoLostWakeup
<1>2. ASSUME NEW t \in Threads, TakeIdle(t) PROVE PoolInv'
  <2>1. PICK c \in idle : idle' = idle \ {c} /\ holds' = [holds EXCEPT ![t] = c]
    BY <1>2 DEF TakeIdle
  <2>2. /\ at' \in [Threads -> Places]
        /\ Holders' = Holders \cup {t} /\ t \notin Holders /\ Connecting' = Connecting
        /\ Asleep' = Asleep /\ Awake' = Awake \ {t}
    BY <1>2 DEF TakeIdle, Goto, PoolInv, PoolTypeOK, Places, Holders, Connecting, Asleep, Awake
  <2>3. /\ Cardinality(Holders') = Cardinality(Holders) + 1
        /\ IsFiniteSet(idle') /\ Cardinality(idle') = Cardinality(idle) - 1
    BY <2>1, <2>2, AddOne, RemoveOne DEF PoolInv, PoolTypeOK
  <2>4. PoolTypeOK'
    <3>1. c \in Connections /\ created' = created
      BY <1>2, <2>1 DEF TakeIdle, PoolInv, PoolTypeOK
    <3>2. holds' \in [Threads -> Connections \cup {None}]
      BY <2>1, <3>1 DEF PoolInv, PoolTypeOK
    <3>3. \A u \in Holders' : holds'[u] \in Connections
      BY <2>1, <2>2, <3>1 DEF PoolInv, PoolTypeOK, Holders
    <3>4. QED
      BY <2>1, <2>2, <2>3, <3>1, <3>2, <3>3 DEF PoolInv, PoolTypeOK
  <2>5. PoolAccounts'
    BY <1>2, <2>1, <2>2, <2>3 DEF TakeIdle, PoolInv, PoolTypeOK, PoolAccounts
  <2>6. NoLostWakeup'
    <3>1. CASE at[t] = "awake"
      <4>1. Cardinality(Awake') = Cardinality(Awake) - 1
        BY <2>2, <3>1, RemoveOne DEF Awake
      <4>2. created' = created /\ created \in Nat
        BY <1>2 DEF TakeIdle, PoolInv, PoolTypeOK
      <4>3. Asleep' = Asleep /\ Cardinality(idle') = Cardinality(idle) - 1
        BY <2>2, <2>3
      <4>4. QED
        BY <4>1, <4>2, <4>3 DEF PoolInv, NoLostWakeup
    <3>2. CASE at[t] = "enter"
      <4>1. Awake' = Awake
        BY <2>2, <3>2 DEF Awake
      <4>2. created' = created /\ created \in Nat
        BY <1>2 DEF TakeIdle, PoolInv, PoolTypeOK
      <4>3. Asleep' = Asleep /\ Cardinality(idle') = Cardinality(idle) - 1
        BY <2>2, <2>3
      <4>4. QED
        BY <4>1, <4>2, <4>3 DEF PoolInv, NoLostWakeup
    <3>3. QED
      BY <1>2, <3>1, <3>2 DEF TakeIdle
  <2>7. QED
    BY <2>4, <2>5, <2>6 DEF PoolInv
<1>3. ASSUME NEW t \in Threads, Reserve(t) PROVE PoolInv'
  <2>1. /\ at' \in [Threads -> Places] /\ Holders' = Holders
        /\ Connecting' = Connecting \cup {t} /\ t \notin Connecting
        /\ Asleep' = Asleep /\ Awake' = Awake \ {t}
    BY <1>3 DEF Reserve, Goto, PoolInv, PoolTypeOK, Places, Holders, Connecting, Asleep, Awake
  <2>2. Cardinality(Connecting') = Cardinality(Connecting) + 1
    BY <2>1, AddOne
  <2>3. created' = created + 1 /\ created < Size /\ UNCHANGED <<holds, open, idle>>
    BY <1>3 DEF Reserve, HasRoom
  <2>4. PoolTypeOK' /\ PoolAccounts'
    BY <2>1, <2>2, <2>3 DEF PoolInv, PoolTypeOK, PoolAccounts
  <2>5. NoLostWakeup'
    <3>1. CASE at[t] = "awake"
      <4>1. Cardinality(Awake') = Cardinality(Awake) - 1
        BY <2>1, <3>1, RemoveOne DEF Awake
      <4>2. idle = {} /\ created \in Nat
        BY <1>3 DEF Reserve, PoolInv, PoolTypeOK
      <4>3. Asleep' = Asleep /\ idle' = idle /\ created' = created + 1
        BY <2>1, <2>3
      <4>4. QED
        BY <4>1, <4>2, <4>3 DEF PoolInv, NoLostWakeup
    <3>2. CASE at[t] = "enter"
      <4>1. Awake' = Awake
        BY <2>1, <3>2 DEF Awake
      <4>2. idle = {} /\ created \in Nat
        BY <1>3 DEF Reserve, PoolInv, PoolTypeOK
      <4>3. Asleep' = Asleep /\ idle' = idle /\ created' = created + 1
        BY <2>1, <2>3
      <4>4. QED
        BY <4>1, <4>2, <4>3 DEF PoolInv, NoLostWakeup
    <3>3. QED
      BY <1>3, <3>1, <3>2 DEF Reserve
  <2>6. QED
    BY <2>4, <2>5 DEF PoolInv
<1>4. ASSUME NEW t \in Threads, Wait(t) PROVE PoolInv'
  <2>1. /\ at' \in [Threads -> Places] /\ Holders' = Holders /\ Connecting' = Connecting
    BY <1>4 DEF Wait, Goto, PoolInv, PoolTypeOK, Places, Holders, Connecting
  <2>2. idle = {} /\ created = Size /\ UNCHANGED <<holds, open, idle, created>>
    BY <1>4 DEF Wait, HasRoom, PoolInv, PoolTypeOK, PoolAccounts
  <2>3. Cardinality(idle) = 0
    BY <2>2, FS_EmptySet
  <2>4. PoolTypeOK' /\ PoolAccounts'
    BY <2>1, <2>2 DEF PoolInv, PoolTypeOK, PoolAccounts
  <2>5. Cardinality(Awake)' \in Nat
    <3>1. Awake' \subseteq Threads
      BY DEF Awake
    <3>2. QED
      BY <3>1, FS_Subset, FS_CardinalityType
  <2>6. Cardinality(idle)' = 0 /\ Size - created' = 0
    BY <2>2, <2>3
  <2>7. NoLostWakeup'
    BY <2>5, <2>6 DEF NoLostWakeup
  <2>8. QED
    BY <2>4, <2>7 DEF PoolInv
<1>5. ASSUME NEW t \in Threads, SpuriousWakeup(t) PROVE PoolInv'
  <2>1. /\ at' \in [Threads -> Places] /\ Holders' = Holders /\ Connecting' = Connecting
        /\ Asleep # {} /\ Awake' = Awake \cup {t} /\ t \notin Awake
    BY <1>5 DEF SpuriousWakeup, Goto, PoolInv, PoolTypeOK, Places, Holders, Connecting, Asleep, Awake
  <2>2. Cardinality(Awake') = Cardinality(Awake) + 1
    BY <2>1, AddOne
  <2>3. QED
    BY <1>5, <2>1, <2>2 DEF SpuriousWakeup, PoolInv, PoolTypeOK, PoolAccounts, NoLostWakeup
<1>6. ASSUME NEW t \in Threads, Connect(t) PROVE PoolInv'
  <2>1. PICK c \in Connections \ Used : holds' = [holds EXCEPT ![t] = c]
    BY <1>6 DEF Connect
  <2>2. /\ at' \in [Threads -> Places]
        /\ Holders' = Holders \cup {t} /\ t \notin Holders
        /\ Connecting' = Connecting \ {t} /\ t \in Connecting
        /\ Asleep' = Asleep /\ Awake' = Awake
    BY <1>6 DEF Connect, Goto, PoolInv, PoolTypeOK, Places, Holders, Connecting, Asleep, Awake
  <2>3. /\ Cardinality(Holders') = Cardinality(Holders) + 1
        /\ Cardinality(Connecting') = Cardinality(Connecting) - 1
    BY <2>2, AddOne, RemoveOne
  <2>4. PoolTypeOK'
    <3>1. holds' \in [Threads -> Connections \cup {None}]
      BY <2>1 DEF PoolInv, PoolTypeOK
    <3>2. \A u \in Holders' : holds'[u] \in Connections
      BY <2>1, <2>2 DEF PoolInv, PoolTypeOK, Holders
    <3>3. QED
      BY <1>6, <2>2, <3>1, <3>2 DEF Connect, PoolInv, PoolTypeOK
  <2>5. PoolAccounts'
    BY <1>6, <2>1, <2>2, <2>3 DEF Connect, Used, PoolInv, PoolTypeOK, PoolAccounts
  <2>6. QED
    BY <1>6, <2>2, <2>4, <2>5 DEF Connect, PoolInv, NoLostWakeup
<1>7. ASSUME NEW t \in Threads, ConnectFails(t) PROVE PoolInv'
  <2>1. at[t] = "connecting" /\ NotifyOne(t, "out") /\ t \in Connecting /\ t \notin Holders
    BY <1>7 DEF ConnectFails, Connecting, Holders
  <2>2. /\ Cardinality(Connecting \ {t}) = Cardinality(Connecting) - 1
        /\ Holders \ {t} = Holders
    BY <2>1, RemoveOne
  <2>3. created' = created - 1 /\ UNCHANGED <<holds, open, idle>>
    BY <1>7 DEF ConnectFails
  <2>4. PoolTypeOK' /\ PoolAccounts'
    <3>1. created' \in Nat
      BY <2>2, <2>3, FS_EmptySet, <2>1 DEF PoolInv, PoolTypeOK, PoolAccounts
    <3>2. at' \in [Threads -> Places] /\ Holders' = Holders /\ Connecting' = Connecting \ {t}
      BY <2>1, <2>2, Notified DEF PoolInv
    <3>3. PoolTypeOK'
      BY <2>3, <3>1, <3>2 DEF PoolInv, PoolTypeOK
    <3>4. PoolAccounts'
      BY <2>2, <2>3, <3>2 DEF PoolInv, PoolTypeOK, PoolAccounts
    <3>5. QED
      BY <3>3, <3>4
  <2>5. NoLostWakeup'
    BY <2>1, <2>3, Notified DEF PoolInv, PoolTypeOK, NoLostWakeup
  <2>6. QED
    BY <2>4, <2>5 DEF PoolInv
<1>8. ASSUME NEW t \in Threads, Release(t) PROVE PoolInv'
  <2>1. at[t] = "in" /\ NotifyOne(t, "out") /\ t \in Holders /\ t \notin Connecting
    BY <1>8 DEF Release, NotifyReturn, Connecting, Holders
  <2>2. /\ Cardinality(Holders \ {t}) = Cardinality(Holders) - 1
        /\ Connecting \ {t} = Connecting
    BY <2>1, RemoveOne
  <2>3. holds' = [holds EXCEPT ![t] = None] /\ holds[t] \in Connections \ idle
    BY <1>8, <2>1 DEF Release, PoolInv, PoolTypeOK, PoolAccounts
  <2>4. \/ /\ idle' = idle \cup {holds[t]} /\ created' = created
           /\ IsFiniteSet(idle') /\ Cardinality(idle') = Cardinality(idle) + 1
        \/ idle' = idle /\ created' = created - 1
    BY <1>8, <2>3, AddOne DEF Release, Return, PoolInv, PoolTypeOK
  <2>5. at' \in [Threads -> Places] /\ Holders' = Holders \ {t} /\ Connecting' = Connecting
    BY <2>1, <2>2, Notified DEF PoolInv
  <2>6. PoolTypeOK' /\ PoolAccounts'
    <3>1. created' \in Nat /\ idle' \subseteq Connections /\ IsFiniteSet(idle')
      <4>1. Cardinality(Holders \ {t}) \in Nat
        BY FS_Subset, FS_CardinalityType
      <4>2. QED
        BY <2>2, <2>3, <2>4, <4>1 DEF PoolInv, PoolTypeOK, PoolAccounts
    <3>2. holds' \in [Threads -> Connections \cup {None}]
      BY <2>3 DEF PoolInv, PoolTypeOK
    <3>3. \A u \in Holders' : u \in Threads /\ u # t /\ holds'[u] = holds[u] /\ u \in Holders
      BY <2>3, <2>5 DEF PoolInv, PoolTypeOK, Holders
    <3>4. PoolTypeOK'
      BY <2>5, <3>1, <3>2, <3>3 DEF PoolInv, PoolTypeOK
    <3>5. created' = Cardinality(idle') + Cardinality(Holders') + Cardinality(Connecting')
      BY <2>2, <2>4, <2>5 DEF PoolInv, PoolTypeOK, PoolAccounts
    <3>6. created' <= Size
      BY <2>4 DEF PoolInv, PoolTypeOK, PoolAccounts
    <3>7. \A u \in Holders' : holds'[u] \notin idle'
      BY <2>1, <2>4, <3>3 DEF PoolInv, PoolAccounts
    <3>8. \A u, v \in Holders' : holds'[u] = holds'[v] => u = v
      BY <3>3 DEF PoolInv, PoolAccounts
    <3>9. QED
      BY <3>4, <3>5, <3>6, <3>7, <3>8 DEF PoolAccounts
  <2>7. NoLostWakeup'
    BY <2>1, <2>4, Notified DEF PoolInv, PoolTypeOK, NoLostWakeup
  <2>8. QED
    BY <2>6, <2>7 DEF PoolInv
<1>9. ASSUME NEW c \in Connections, Breaks(c) PROVE PoolInv'
  BY <1>9 DEF Breaks, PoolInv, PoolTypeOK, PoolAccounts, NoLostWakeup, Holders, Connecting,
              Asleep, Awake
<1>10. CASE UNCHANGED vars
  BY <1>10 DEF vars, PoolInv, PoolTypeOK, PoolAccounts, NoLostWakeup, Holders, Connecting,
               Asleep, Awake
<1>11. QED
  BY <1>1, <1>2, <1>3, <1>4, <1>5, <1>6, <1>7, <1>8, <1>9, <1>10 DEF Next, Acquire

\* The pool never opens more than Size connections, and no connection is used
\* by two threads or used while it is idle.
THEOREM PoolNeverOverflows == Spec => []PoolAccounts
<1>1. PoolInv => PoolAccounts
  BY DEF PoolInv
<1>2. QED
  BY <1>1, PoolStarts, PoolSteps, PTL DEF Spec

\* A connection or a place that becomes free while a thread sleeps in acquire()
\* always wakes a thread, however releases, failures and newcomers interleave.
THEOREM WakeupsAreNeverLost == Spec => []NoLostWakeup
<1>1. PoolInv => NoLostWakeup
  BY DEF PoolInv
<1>2. QED
  BY <1>1, PoolStarts, PoolSteps, PTL DEF Spec
=============================================================================
