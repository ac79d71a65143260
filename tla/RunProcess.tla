----------------------------- MODULE RunProcess -----------------------------
(***************************************************************************)
(* run_process (common/process.cpp): a thread makes two pipes, forks, runs *)
(* a program in a process group of its own, feeds its stdin and reads its  *)
(* output until end of file, and kills the group when a flag is set or a   *)
(* time limit passes.  Several threads of one program are in it at once:   *)
(* a fork copies every descriptor that is open anywhere in the program.    *)
(*                                                                         *)
(* A program is what run_process can see of it: it writes, reads its stdin *)
(* to the end or ignores it, may start a process of its own that inherits  *)
(* its descriptors, and exits.  Data are counted in units.                 *)
(***************************************************************************)
EXTENDS Naturals, FiniteSets

CONSTANTS
    Calls,          \* the concurrent calls
    Stdin,          \* the units of stdin_data of each call
    Output,         \* the units each program writes before it reads
    Readers,        \* the calls whose program answers a unit of stdin with
                    \* a unit of output, and ends at the end of its stdin
    Forkers,        \* the calls whose program starts a process of its own
    Cancellable,    \* the calls with a cancel flag
    Timed,          \* the calls with a time limit
    Capacity        \* the units a pipe holds

ASSUME RunConstants ==
    /\ IsFiniteSet(Calls)
    /\ Stdin \in [Calls -> Nat] /\ Output \in [Calls -> Nat]
    /\ {Readers, Forkers, Cancellable, Timed} \subseteq SUBSET Calls
    /\ Capacity \in Nat \ {0}

VARIABLES
    call,       \* the threads in run_process, records of CallState
    child,      \* their programs, records of ChildState
    data,       \* the units in the two pipes of each call
    open,       \* the ends of pipes that are open in the calling program
    exposed,    \* those without FD_CLOEXEC
    cancel      \* the flag of every cancellable call

vars == <<call, child, data, open, exposed, cancel>>

\* fds[0] of a pipe is its read end, fds[1] its write end.
Ends == Calls \X {"in", "out"} \X {0, 1}

StdinRead(c) == <<c, "in", 0>>
StdinWrite(c) == <<c, "in", 1>>
OutputRead(c) == <<c, "out", 0>>
OutputWrite(c) == <<c, "out", 1>>
Own(c) == {e \in Ends : e[1] = c}

\* "in" and "out": the pipe is made and its ends are being flagged.
CallPlaces == {"start", "in", "out", "forked", "check", "poll", "read", "close",
               "waiting", "reaped", "returned", "thrown"}

\* "forked": before setpgid.  "grouped": before exec.
ChildPlaces == {"none", "forked", "grouped", "running", "dead", "reaped"}

CallState == [at : CallPlaces, left : Nat, late : BOOLEAN,
              ended : {"no", "cancel", "timeout", "poll"}]
ChildState == [at : ChildPlaces, held : SUBSET Ends, leaked : SUBSET Ends,
               owes : Nat, fork : BOOLEAN]

At(c, place) == call[c].at = place
To(c, place) == call' = [call EXCEPT ![c].at = place]
Runs(c) == child[c].at = "running"
Alive(c) == child[c].at \in {"forked", "grouped", "running"}

\* Some process, the caller included, has the end open.
Held(e) == e \in open \/ \E c \in Calls : e \in child[c].held

\* Descriptors are closed when the last process of a program has ended.
Ended(r) ==
    IF r.at \in {"dead", "reaped"} /\ ~r.fork
    THEN [r EXCEPT !.held = {}, !.leaked = {}, !.owes = 0] ELSE r

-----------------------------------------------------------------------------
(***************************************************************************)
(* make_pipe and fork.                                                     *)
(***************************************************************************)
Flagged(c) == Own(c) \cap exposed = {}

NextPipe(c) == IF At(c, "start") THEN "in" ELSE "out"

MakePipe(c) ==
    /\ At(c, "start") \/ (At(c, "in") /\ Flagged(c))
    /\ To(c, NextPipe(c))
    /\ open' = open \cup {<<c, NextPipe(c), 0>>, <<c, NextPipe(c), 1>>}
    /\ exposed' = exposed \cup {<<c, NextPipe(c), 0>>, <<c, NextPipe(c), 1>>}
    /\ UNCHANGED <<child, data, cancel>>

\* Throws: what is open stays open.
PipeFails(c) ==
    /\ At(c, "start") \/ (At(c, "in") /\ Flagged(c))
    /\ To(c, "thrown")
    /\ UNCHANGED <<child, data, open, exposed, cancel>>

\* set_flag on fds[0], then on fds[1].
SetCloexec(c) ==
    /\ call[c].at \in {"in", "out"}
    /\ \E i \in {0, 1} :
         /\ <<c, call[c].at, i>> \in exposed
         /\ i = 1 => <<c, call[c].at, 0>> \notin exposed
         /\ exposed' = exposed \ {<<c, call[c].at, i>>}
    /\ UNCHANGED <<call, child, data, open, cancel>>

InheritedAll == open    \* mutant: no FD_CLOEXEC
\* What a program forked now still has open after its exec.
Inherited == exposed

Fork(c) ==
    /\ At(c, "out") /\ Flagged(c)
    /\ To(c, "forked")
    /\ child' = [child EXCEPT ![c].at = "forked", ![c].held = open, ![c].leaked = Inherited]
    /\ UNCHANGED <<data, open, exposed, cancel>>

ForkFails(c) ==
    /\ At(c, "out") /\ Flagged(c)
    /\ To(c, "thrown")
    /\ open' = open \ Own(c)
    /\ UNCHANGED <<child, data, exposed, cancel>>

\* The caller closes the ends of the child, and its end of an empty stdin.
CloseChildEnds(c) ==
    /\ At(c, "forked")
    /\ To(c, "check")
    /\ open' = open \ ({StdinRead(c), OutputWrite(c)}
                         \cup IF Stdin[c] = 0 THEN {StdinWrite(c)} ELSE {})
    /\ UNCHANGED <<child, data, exposed, cancel>>

-----------------------------------------------------------------------------
(***************************************************************************)
(* The loop.                                                               *)
(***************************************************************************)
\* kill(-pid): finds nobody before the child has made its group.
Killed(c) == [child[c] EXCEPT !.at = IF Alive(c) THEN "dead" ELSE @, !.fork = FALSE]
KillGroup(c) ==
    child' = IF child[c].at = "forked" THEN child
             ELSE [child EXCEPT ![c] = Ended(Killed(c))]

Break(c, why) == call' = [call EXCEPT ![c].at = "close", ![c].ended = why]

Check(c) ==
    /\ At(c, "check")
    /\ CASE c \in Cancellable /\ cancel -> KillGroup(c) /\ Break(c, "cancel")
         [] ~(c \in Cancellable /\ cancel) /\ call[c].late -> KillGroup(c) /\ Break(c, "timeout")
         [] OTHER -> child' = child /\ To(c, "poll")
    /\ UNCHANGED <<data, open, exposed, cancel>>

PollFails(c) ==
    /\ At(c, "poll")
    /\ KillGroup(c) /\ Break(c, "poll")
    /\ UNCHANGED <<data, open, exposed, cancel>>

EofAtExit(c) == data[c].out = 0 /\ ~Alive(c) \* mutant: forgets who inherited the pipe
Eof(c) == data[c].out = 0 /\ ~Held(OutputWrite(c))

ReadableAfterStdin(c) == \* mutant: reads when stdin has been written
    StdinWrite(c) \notin open /\ (data[c].out > 0 \/ Eof(c))
Readable(c) == data[c].out > 0 \/ Eof(c)

Broken(c) == ~Held(StdinRead(c))
WritableUnasked(c) == StdinWrite(c) \in open \* mutant: POLLOUT is not looked at
Writable(c) == StdinWrite(c) \in open /\ (data[c].in < Capacity \/ Broken(c))

\* poll waits 200 ms when there is a flag, to the deadline when there is one.
PollExpires(c) ==
    /\ At(c, "poll") /\ ~Writable(c) /\ ~Readable(c)
    /\ c \in Cancellable \cup Timed
    /\ To(c, "check")
    /\ UNCHANGED <<child, data, open, exposed, cancel>>

\* One return of poll with something to do: a write to stdin, which is closed
\* after the last unit or when nobody can read it; the output is read next.
Poll(c) ==
    /\ At(c, "poll") /\ (Writable(c) \/ Readable(c))
    /\ LET left == IF ~Writable(c) THEN call[c].left
                   ELSE IF Broken(c) THEN 0 ELSE call[c].left - 1
       IN /\ call' = [call EXCEPT ![c].left = left,
                                  ![c].at = IF Readable(c) THEN "read" ELSE "check"]
          /\ data' = IF Writable(c) /\ ~Broken(c)
                     THEN [data EXCEPT ![c].in = @ + 1] ELSE data
          /\ open' = IF left = 0 THEN open \ {StdinWrite(c)} ELSE open
    /\ UNCHANGED <<child, exposed, cancel>>

Read(c) ==
    /\ At(c, "read")
    /\ IF data[c].out > 0
       THEN data' = [data EXCEPT ![c].out = @ - 1] /\ To(c, "check")
       ELSE data' = data /\ To(c, "close")
    /\ UNCHANGED <<child, open, exposed, cancel>>

CloseEnds(c) ==
    /\ At(c, "close")
    /\ To(c, "waiting")
    /\ open' = open \ Own(c)
    /\ UNCHANGED <<child, data, exposed, cancel>>

\* waitpid, without a time limit.
Reap(c) ==
    /\ At(c, "waiting") /\ child[c].at = "dead"
    /\ To(c, "reaped")
    /\ child' = [child EXCEPT ![c].at = "reaped"]
    /\ UNCHANGED <<data, open, exposed, cancel>>

KillsNobody(c) == FALSE \* mutant: no kill after waitpid
KillsAgain(c) == call[c].ended \in {"cancel", "timeout"}

Return(c) ==
    /\ At(c, "reaped")
    /\ To(c, "returned")
    /\ IF KillsAgain(c) THEN KillGroup(c) ELSE child' = child
    /\ UNCHANGED <<data, open, exposed, cancel>>

-----------------------------------------------------------------------------
(***************************************************************************)
(* The child, and the program it becomes.                                  *)
(***************************************************************************)
SetGroup(c) ==
    /\ child[c].at = "forked"
    /\ child' = [child EXCEPT ![c].at = "grouped"]
    /\ UNCHANGED <<call, data, open, exposed, cancel>>

Exec(c) ==
    /\ child[c].at = "grouped"
    /\ child' = [child EXCEPT ![c].at = "running",
                              ![c].held = child[c].leaked \cup {StdinRead(c), OutputWrite(c)},
                              ![c].leaked = {}]
    /\ UNCHANGED <<call, data, open, exposed, cancel>>

Dead(c) == [child[c] EXCEPT !.at = "dead"]
Dies(c) == child' = [child EXCEPT ![c] = Ended(Dead(c))]

Takes(c) ==
    /\ Runs(c) /\ c \in Readers /\ child[c].owes = 0 /\ data[c].in > 0
    /\ data' = [data EXCEPT ![c].in = @ - 1]
    /\ child' = [child EXCEPT ![c].owes = 1]
    /\ UNCHANGED <<call, open, exposed, cancel>>

Puts(c) ==
    /\ Runs(c) /\ child[c].owes > 0 /\ Held(OutputRead(c)) /\ data[c].out < Capacity
    /\ data' = [data EXCEPT ![c].out = @ + 1]
    /\ child' = [child EXCEPT ![c].owes = @ - 1]
    /\ UNCHANGED <<call, open, exposed, cancel>>

\* SIGPIPE, restored before the exec.
BrokenPipe(c) ==
    /\ Runs(c) /\ child[c].owes > 0 /\ ~Held(OutputRead(c))
    /\ Dies(c)
    /\ UNCHANGED <<call, data, open, exposed, cancel>>

\* The program has said all it has to say and has met the end of its stdin.
Finishes(c) ==
    /\ Runs(c) /\ child[c].owes = 0
    /\ c \in Readers => data[c].in = 0 /\ ~Held(StdinWrite(c))
    /\ Dies(c)
    /\ UNCHANGED <<call, data, open, exposed, cancel>>

\* chdir, the affinity or exec fails; or the program crashes.
Crashes(c) ==
    /\ child[c].at \in {"grouped", "running"} /\ Dies(c)
    /\ UNCHANGED <<call, data, open, exposed, cancel>>

\* make starts cc, fastchess starts the engines.
Starts(c) ==
    /\ Runs(c) /\ c \in Forkers /\ ~child[c].fork
    /\ child' = [child EXCEPT ![c].fork = TRUE]
    /\ UNCHANGED <<call, data, open, exposed, cancel>>

ForkEnds(c) ==
    /\ child[c].fork
    /\ child' = [child EXCEPT ![c] = Ended([@ EXCEPT !.fork = FALSE])]
    /\ UNCHANGED <<call, data, open, exposed, cancel>>

-----------------------------------------------------------------------------
Cancel ==
    /\ ~cancel /\ cancel' = TRUE
    /\ UNCHANGED <<call, child, data, open, exposed>>

DeadlinePasses(c) ==
    /\ c \in Timed /\ ~call[c].late /\ call[c].at \in {"check", "poll", "read"}
    /\ call' = [call EXCEPT ![c].late = TRUE]
    /\ UNCHANGED <<child, data, open, exposed, cancel>>

Init ==
    /\ call = [c \in Calls |->
                 [at |-> "start", left |-> Stdin[c], late |-> FALSE, ended |-> "no"]]
    /\ child = [c \in Calls |->
                 [at |-> "none", held |-> {}, leaked |-> {}, owes |-> Output[c], fork |-> FALSE]]
    /\ data = [c \in Calls |-> [in |-> 0, out |-> 0]]
    /\ open = {} /\ exposed = {} /\ cancel = FALSE

CallStep(c) ==
    \/ MakePipe(c) \/ SetCloexec(c) \/ Fork(c) \/ CloseChildEnds(c) \/ Check(c)
    \/ PollExpires(c) \/ Poll(c) \/ Read(c) \/ CloseEnds(c) \/ Reap(c) \/ Return(c)

ProgramStep(c) == SetGroup(c) \/ Exec(c) \/ Takes(c) \/ Puts(c) \/ BrokenPipe(c) \/ Finishes(c)

Failure(c) == PipeFails(c) \/ ForkFails(c) \/ PollFails(c) \/ Crashes(c)

Next ==
    \/ Cancel
    \/ \E c \in Calls :
         \/ CallStep(c) \/ ProgramStep(c) \/ Starts(c) \/ ForkEnds(c)
         \/ Failure(c) \/ DeadlinePasses(c)

Spec == Init /\ [][Next]_vars

\* Threads run, programs that have their input go on and end.  No deadline
\* has to pass and no flag has to be set.
FairSpec ==
    /\ Spec
    /\ \A c \in Calls :
         WF_vars(CallStep(c)) /\ WF_vars(ProgramStep(c)) /\ WF_vars(ForkEnds(c))

-----------------------------------------------------------------------------
\* The types of the calls, the programs and the ends of their pipes; only an
\* open end can lack the close-on-exec flag.
RunTypeOK ==
    /\ call \in [Calls -> CallState] /\ child \in [Calls -> ChildState]
    /\ data \in [Calls -> [in : 0..Capacity, out : 0..Capacity]]
    /\ open \subseteq Ends /\ exposed \subseteq open /\ cancel \in BOOLEAN

\* process.cpp:166: no process of the group survives a call that ended by its
\* flag or its time limit, though the first kill may have come too early.
GroupIsGone ==
    \A c \in Calls :
        At(c, "returned") /\ call[c].ended \in {"cancel", "timeout"} =>
            ~Alive(c) /\ ~child[c].fork

\* A call that ended by itself has read all that its program, and whoever
\* inherited its output, wrote or can still write.
OutputIsWhole ==
    \A c \in Calls :
        At(c, "returned") /\ call[c].ended = "no" =>
            data[c].out = 0 /\ ~Held(OutputWrite(c))

\* Two programs never hold the pipes of each other, so neither waits for an
\* end of file that only the end of the other can bring.
Holds(c, d) == Runs(c) /\ child[c].held \cap Own(d) # {}
LeaksAreOneWay ==
    \A c, d \in Calls : c # d => ~(Holds(c, d) /\ Holds(d, c))

\* Every call ends when the programs do their part, whatever the sizes of
\* what they read and write, and though another program holds its pipes.
CallsEnd ==
    \A c \in Calls : call[c].at # "start" ~> call[c].at \in {"returned", "thrown"}

\* process.cpp:28: the ends of the caller do not leak to other children that
\* are made in parallel.
NoLeak == \A c, d \in Calls : c # d => ~Holds(c, d)

\* process.hpp:16: when the flag is set, the process is killed; the program
\* does not run while the call waits for it to end.
CancelKills ==
    \A c \in Calls : At(c, "waiting") /\ call[c].ended = "cancel" => ~Runs(c)
=============================================================================
