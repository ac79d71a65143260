----------------------------- MODULE ClientHost -----------------------------
(***************************************************************************)
(* How a computer becomes a client (client/topology.cpp, client/main.cpp): *)
(* its processors are read, the number of slots and their cores decided,   *)
(* the affinity tried out and the client registered with the server, or    *)
(* refused on the way.                                                     *)
(*                                                                         *)
(* A machine is a record: its system, its online logical processors with   *)
(* their class (the larger the faster) and physical core, and the          *)
(* processors that the process may run on.                                 *)
(***************************************************************************)
EXTENDS Integers, Sequences, Functions, FiniteSetsExt

CONSTANTS
    Machines,   \* the computers
    Wishes,     \* what --slots and --cores may ask for, NoWish without the option
    NoWish

ASSUME HostAssumption ==
    /\ \A m \in Machines : IsFiniteSet(DOMAIN m.cpu) /\ DOMAIN m.cpu \subseteq Nat
    /\ \A wish \in Wishes : wish.slots = NoWish \/ wish.slots \in Int

ReservedCores == 2  \* kQosHintReservedCores

VARIABLE host  \* the client: where it is, its computer and what was decided

NoHost == [at |-> "off", machine |-> NoWish, slots |-> 0, mode |-> "none", cores |-> <<>>]

-----------------------------------------------------------------------------
(* detect_topology. *)

Known(m) == m.system \in {"linux", "macos"}
Online(m) == IF Known(m) THEN DOMAIN m.cpu ELSE {}
Classes(m) == {m.cpu[c].class : c \in Online(m)}
Fastest(m) == {c \in Online(m) : \A k \in Classes(m) : m.cpu[c].class >= k}

\* One logical processor for each physical core of the fastest class.
FastThreads(m) == Fastest(m) \* mutant: two threads of one core count
FastCores(m) ==
    {c \in Fastest(m) : \A d \in Fastest(m) : m.cpu[d].core = m.cpu[c].core => c <= d}

Heterogeneous(m) == Cardinality(Classes(m)) > 1
Pinning(m) == m.system = "linux"
QosHint(m) == m.system = "macos" /\ Heterogeneous(m)

-----------------------------------------------------------------------------
(* default_slots, decide_admission, verify_pinning. *)

QosSlots(m) == Max({1, Cardinality(FastCores(m)) - ReservedCores})

DefaultSlots(m) ==
    LET quarter == Max({1, Cardinality(Online(m)) \div 4})
    IN IF QosHint(m) THEN Min({quarter, QosSlots(m)}) ELSE quarter

Refusal == [mode |-> "none", cores |-> <<>>]

\* The slots take the last of the fast cores, in order: as many come after the
\* core of a slot as there are slots after it.
LastCores(m, slots) ==
    [i \in 1..slots |->
        CHOOSE c \in FastCores(m) : Cardinality({d \in FastCores(m) : d > c}) = slots - i]

\* cores= names one fast core for each slot.
Suits(m, slots, cores) ==
    /\ \A c \in Range(cores) : c \in FastCores(m)
    /\ Len(cores) = slots /\ Cardinality(Range(cores)) = slots

Unpinned(m, slots, cores) ==
    IF cores # NoWish THEN Refusal
    ELSE IF Heterogeneous(m)
    THEN IF QosHint(m) /\ slots <= QosSlots(m) THEN [Refusal EXCEPT !.mode = "qos_hint"] ELSE Refusal
    ELSE IF slots <= Cardinality(FastCores(m))
    THEN [Refusal EXCEPT !.mode = "homogeneous_unpinned"] ELSE Refusal

Pinned(m, slots, cores) ==
    IF cores # NoWish
    THEN IF Suits(m, slots, cores) THEN [mode |-> "pinned", cores |-> cores] ELSE Refusal
    ELSE IF slots <= Cardinality(FastCores(m))
    THEN [mode |-> "pinned", cores |-> LastCores(m, slots)] ELSE Refusal

DecideAdmission(m, slots, cores) ==
    IF slots < 1 THEN Refusal
    ELSE IF Pinning(m) THEN Pinned(m, slots, cores) ELSE Unpinned(m, slots, cores)

\* The start of the client, up to the decision.
Detect(m, wish) ==
    LET slots == IF wish.slots = NoWish THEN DefaultSlots(m) ELSE wish.slots
        admission == DecideAdmission(m, slots, wish.cores)
    IN
    /\ host.at = "off"
    /\ host' = IF admission.mode = "none" THEN [NoHost EXCEPT !.at = "refused"]
               ELSE [at |-> IF admission.mode = "pinned" THEN "verifying" ELSE "registering",
                     machine |-> m, slots |-> slots,
                     mode |-> admission.mode, cores |-> admission.cores]

\* A thread pinned to each core runs there: only on the processors that the
\* process may use.
VerifyPinning ==
    /\ host.at = "verifying"
    /\ host' = IF \A c \in Range(host.cores) : c \in host.machine.allowed
               THEN [host EXCEPT !.at = "registering"] ELSE [NoHost EXCEPT !.at = "refused"]

-----------------------------------------------------------------------------
(* POST /api/clients/register. *)

PinningModes == {"pinned", "homogeneous_unpinned", "qos_hint"}
RegistrationTaken ==
    /\ host.mode \in PinningModes
    /\ Cardinality(Online(host.machine)) >= 1 /\ host.slots >= 1

\* The server takes the registration, or refuses it with an error 400 and the
\* client ends; while the server cannot be reached the client tries again.
RegisterHost ==
    /\ host.at = "registering"
    /\ host' = IF RegistrationTaken
               THEN [NoHost EXCEPT !.at = "registered", !.slots = host.slots]
               ELSE [NoHost EXCEPT !.at = "refused"]

HostStep ==
    \/ \E m \in Machines, wish \in Wishes : Detect(m, wish)
    \/ VerifyPinning \/ RegisterHost

-----------------------------------------------------------------------------
(* What admission is for. *)

CoreOf(c) == host.machine.cpu[c].core
PhysicalCores(m) == {m.cpu[c].core : c \in DOMAIN m.cpu}
FastPhysicalCores(m) == {m.cpu[c].core : c \in Fastest(m)}

\* A client that registers is one the server takes, and its games are fair: no
\* two pinned slots share a physical core, and each is of the fastest class and
\* one the process may use; without affinity all cores are alike and there is
\* one for each slot, or two fast ones stay free for the scheduler as long as
\* more than one slot plays.
AdmittedIsFit ==
    host.at = "registering" =>
        /\ RegistrationTaken
        /\ host.mode = "pinned" =>
             /\ Len(host.cores) = host.slots
             /\ Cardinality({CoreOf(c) : c \in Range(host.cores)}) = host.slots
             /\ Range(host.cores) \subseteq Fastest(host.machine) \cap host.machine.allowed
        /\ host.mode = "homogeneous_unpinned" =>
             /\ Cardinality(Classes(host.machine)) = 1
             /\ host.slots <= Cardinality(PhysicalCores(host.machine))
        /\ host.mode = "qos_hint" =>
             host.slots = 1 \/ host.slots + 2 <= Cardinality(FastPhysicalCores(host.machine))
=============================================================================
