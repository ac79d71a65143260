----------------------------- MODULE BuildCache -----------------------------
(***************************************************************************)
(* The cache of compiled programs: build_engine (common/engine_build.cpp), *)
(* which a client's runner and the server's smoke worker call for the two  *)
(* commits of a test, and ensure_fastchess (client/fastchess_setup.cpp).   *)
(* Both download, unpack and compile in {key}.tmp and rename the binary    *)
(* into {key}.                                                             *)
(*                                                                         *)
(* Only the file system outlives a process.  A process that dies leaves    *)
(* {key}.tmp as it is, and the curl, tar or make it had started goes on:   *)
(* it is in a process group of its own.  A tool in a directory that was    *)
(* removed does not disturb the directory that has its name now; but curl  *)
(* opens its file by name, and may do so late.                             *)
(***************************************************************************)
EXTENDS Naturals, FiniteSets

CONSTANTS
    Processes,  \* the processes that share a work_dir
    Keys,       \* the cache keys
    Probed,     \* the keys of ensure_fastchess: the binary is run once before
                \* it is returned, cached or new
    Benched,    \* the keys of the smoke worker: check_engine runs the binary
    Files,      \* identities for the binaries that are linked
    MaxFaults,  \* the tools that fail, time out or are cancelled
    MaxCrashes, \* the deaths of a process
    None        \* no file

ASSUME BuildConstants ==
    /\ IsFiniteSet(Processes) /\ IsFiniteSet(Keys) /\ IsFiniteSet(Files)
    /\ Probed \subseteq Keys /\ Benched \subseteq Keys \ Probed
    /\ MaxFaults \in Nat /\ MaxCrashes \in Nat
    /\ Processes \cap (1..MaxCrashes) = {}
    /\ None \notin Files

VARIABLES
    proc,       \* where each process is
    tools,      \* the tools that run, and the ended ones a process waits for
    disk,       \* the directories of each key
    whole,      \* the files that are linked to their end
    faults, crashes

vars == <<proc, tools, disk, whole, faults, crashes>>

Steps == {"idle", "probe", "purge", "clear", "mkdir", "curl", "tar", "make",
          "install", "tidy", "try", "done"}
ProcessState == [at : Steps, key : Keys]

Extents == {"none", "part", "whole"}

\* {key}.tmp/src is known by the number of its creation, 0 when there is none.
DiskState == [tmp : Nat, made : Nat, tarball : Extents, source : Extents,
              output : Files \cup {None},   \* the binary in {key}.tmp/src
              bin : Files \cup {None}]      \* the binary in {key}

\* A tool is of its process, or of the death of its process; `dir` is the
\* directory it has a file open in or has entered, 0 before it has.
ToolState == [of : Processes \cup 1..MaxCrashes, does : {"curl", "tar", "make"},
              key : Keys, dir : Nat, file : Files \cup {None}, end : {"no", "ok", "failed"}]

At(p, step) == proc[p].at = step
To(p, step) == proc' = [proc EXCEPT ![p].at = step]
Key(p) == proc[p].key
Disk(p) == disk[Key(p)]
Of(p) == {t \in tools : t.of = p}
Put(k, d) == disk' = [disk EXCEPT ![k] = d]

-----------------------------------------------------------------------------
(***************************************************************************)
(* curl, tar and make.                                                     *)
(***************************************************************************)
Running == {t \in tools : t.end = "no"}
InPlace(t) == t.dir # 0 /\ t.dir = disk[t.key].tmp

\* Nobody waits for the tool of a process that died.
Becomes(t, u) ==
    tools' = (tools \ {t}) \cup (IF u.end = "no" \/ u.of \in Processes THEN {u} ELSE {})

\* curl opens its file with the first byte it gets.
Opens(t) ==
    LET d == disk[t.key] IN
    /\ t.does = "curl" /\ t.dir = 0 /\ d.tmp # 0
    /\ Becomes(t, [t EXCEPT !.dir = d.tmp])
    /\ Put(t.key, [d EXCEPT !.tarball = "part"])
    /\ UNCHANGED whole

\* make links a new file, unless it finds the binary it would make.
Links(t) ==
    LET d == disk[t.key] IN
    /\ t.does = "make" /\ InPlace(t) /\ t.file = None
    /\ d.source = "whole" /\ d.output = None
    /\ \E f \in Files :
         /\ \A k \in Keys : f \notin {disk[k].bin, disk[k].output}
         /\ \A o \in tools : f # o.file
         /\ Becomes(t, [t EXCEPT !.file = f])
         /\ Put(t.key, [d EXCEPT !.output = f])
         /\ whole' = whole \ {f}

\* make has linked its file, or there is nothing to make.
HasMade(t) ==
    t.file = None => InPlace(t) /\ disk[t.key].source = "whole" /\ disk[t.key].output # None

Finishes(t) ==
    LET d == disk[t.key] IN
    /\ t.dir # 0
    /\ Becomes(t, [t EXCEPT !.end = "ok"])
    /\ \/ /\ t.does = "curl"
          /\ Put(t.key, IF InPlace(t) THEN [d EXCEPT !.tarball = "whole"] ELSE d)
          /\ UNCHANGED whole
       \/ /\ t.does = "tar" /\ InPlace(t) /\ d.tarball = "whole"
          /\ Put(t.key, [d EXCEPT !.source = "whole"])
          /\ UNCHANGED whole
       \/ /\ t.does = "make" /\ HasMade(t)
          /\ whole' = whole \cup ({t.file} \ {None})
          /\ UNCHANGED disk

\* A tool cannot go on without its directory or with half of its input.
Stuck(t) ==
    \/ t.does = "curl" /\ t.dir = 0 /\ disk[t.key].tmp = 0
    \/ t.does = "tar" /\ (~InPlace(t) \/ disk[t.key].tarball # "whole")
    \/ t.does = "make" /\ t.file = None /\ (~InPlace(t) \/ disk[t.key].source # "whole")

\* An exit code, a time limit, or the flag that a signal or ~SmokeWorker sets.
Fails(t) ==
    /\ \/ /\ Stuck(t) \/ t.of \notin Processes
          /\ UNCHANGED faults
       \/ /\ faults < MaxFaults
          /\ faults' = faults + 1
    /\ Becomes(t, [t EXCEPT !.end = "failed"])
    /\ UNCHANGED <<disk, whole>>

ToolStep ==
    /\ \E t \in Running :
         \/ (Opens(t) \/ Links(t) \/ Finishes(t)) /\ UNCHANGED faults
         \/ Fails(t)
    /\ UNCHANGED <<proc, crashes>>

-----------------------------------------------------------------------------
(***************************************************************************)
(* build_engine and ensure_fastchess.                                      *)
(***************************************************************************)
\* tar and make enter the directory as they start.
Starts(p, does, dir) ==
    tools' = (tools \ Of(p)) \cup
             {[of |-> p, does |-> does, key |-> Key(p), dir |-> dir, file |-> None, end |-> "no"]}

\* A cached binary ends build_engine; ensure_fastchess runs it first.
Ask(p, k) ==
    /\ At(p, "idle")
    /\ proc' = [proc EXCEPT ![p] =
         [key |-> k,
          at |-> CASE disk[k].bin = None -> "clear"
                   [] disk[k].bin # None /\ k \in Probed -> "probe"
                   [] disk[k].bin # None /\ k \in Benched -> "try"
                   [] OTHER -> "done"]]
    /\ UNCHANGED <<tools, disk, whole, faults, crashes>>

\* A whole binary answers, unless the time limit passes first.
Runs(p, good, bad) ==
    \/ /\ Disk(p).bin \in whole
       /\ To(p, good)
       /\ UNCHANGED faults
    \/ /\ To(p, bad)
       /\ IF Disk(p).bin \in whole
          THEN faults < MaxFaults /\ faults' = faults + 1
          ELSE UNCHANGED faults

Probe(p) ==
    /\ At(p, "probe")
    /\ Runs(p, "done", "purge")
    /\ UNCHANGED <<tools, disk, whole, crashes>>

Purge(p) ==
    /\ At(p, "purge")
    /\ To(p, "clear")
    /\ Put(Key(p), [Disk(p) EXCEPT !.bin = None])
    /\ UNCHANGED <<tools, whole, faults, crashes>>

\* fs::remove_all(tmp) removes what it finds; it throws when a tool makes a
\* file behind its back, and the caller tries again or gives up.
Emptied(d) == [d EXCEPT !.tarball = "none", !.source = "none", !.output = None]
Busy(k) == \E t \in Running : t.key = k /\ InPlace(t)

RemovesTmp(p, next) ==
    \/ /\ Put(Key(p), [Emptied(Disk(p)) EXCEPT !.tmp = 0])
       /\ To(p, next)
    \/ /\ Busy(Key(p))
       /\ Put(Key(p), Emptied(Disk(p)))
       /\ To(p, "idle")

\* Mutant: what an earlier call left is kept, as if it were of use.
ClearNothing(p) ==
    /\ At(p, "clear")
    /\ To(p, "mkdir")
    /\ UNCHANGED <<tools, disk, whole, faults, crashes>>

\* Mutant: a {key}.tmp that exists is taken for the build of somebody else.
ClearRefused(p) ==
    /\ At(p, "clear")
    /\ To(p, IF Disk(p).tmp = 0 THEN "mkdir" ELSE "idle")
    /\ UNCHANGED <<tools, disk, whole, faults, crashes>>

Clear(p) ==
    /\ At(p, "clear")
    /\ RemovesTmp(p, "mkdir")
    /\ UNCHANGED <<tools, whole, faults, crashes>>

\* fs::create_directories accepts a directory that is there.
Mkdir(p) ==
    LET d == Disk(p) IN
    /\ At(p, "mkdir")
    /\ Put(Key(p), IF d.tmp # 0 THEN d ELSE [d EXCEPT !.tmp = d.made + 1, !.made = d.made + 1])
    /\ To(p, "curl")
    /\ Starts(p, "curl", 0)
    /\ UNCHANGED <<whole, faults, crashes>>

Downloaded(p) ==
    /\ At(p, "curl") /\ \E t \in Of(p) : t.end = "ok"
    /\ To(p, "tar")
    /\ Starts(p, "tar", Disk(p).tmp)
    /\ Put(Key(p), IF Disk(p).tmp = 0 THEN Disk(p) ELSE [Disk(p) EXCEPT !.source = "part"])
    /\ UNCHANGED <<whole, faults, crashes>>

Unpacked(p) ==
    /\ At(p, "tar") /\ \E t \in Of(p) : t.end = "ok"
    /\ To(p, "make")
    /\ Starts(p, "make", Disk(p).tmp)
    /\ UNCHANGED <<disk, whole, faults, crashes>>

Compiled(p) ==
    /\ At(p, "make") /\ \E t \in Of(p) : t.end = "ok"
    /\ To(p, IF Disk(p).output # None THEN "install" ELSE "idle")
    /\ tools' = tools \ Of(p)
    /\ UNCHANGED <<disk, whole, faults, crashes>>

\* Mutant: what the step had started is forgotten, not waited for.
GivesUpEarly(p) ==
    /\ \E t \in Of(p) : t.does = "curl"
    /\ To(p, "idle")
    /\ UNCHANGED <<tools, disk, whole, faults, crashes>>

\* A step that fails ends the call with nullopt.
GivesUp(p) ==
    /\ \E t \in Of(p) : t.end = "failed"
    /\ To(p, "idle")
    /\ tools' = tools \ Of(p)
    /\ UNCHANGED <<disk, whole, faults, crashes>>

\* fs::rename(built, bin); it throws when another process has moved `built`.
Install(p) ==
    /\ At(p, "install")
    /\ IF Disk(p).output # None
       THEN /\ Put(Key(p), [Disk(p) EXCEPT !.bin = Disk(p).output, !.output = None])
            /\ To(p, "tidy")
       ELSE To(p, "idle") /\ UNCHANGED disk
    /\ UNCHANGED <<tools, whole, faults, crashes>>

Tidy(p) ==
    /\ At(p, "tidy")
    /\ RemovesTmp(p, IF Key(p) \in Probed \cup Benched THEN "try" ELSE "done")
    /\ UNCHANGED <<tools, whole, faults, crashes>>

\* probe_version of a new fastchess, check_engine of a test's engine.
Try(p) ==
    /\ At(p, "try")
    /\ Runs(p, "done", "idle")
    /\ UNCHANGED <<tools, disk, whole, crashes>>

\* The caller is done with the binary, and later asks again.
Return(p) ==
    /\ At(p, "done")
    /\ To(p, "idle")
    /\ UNCHANGED <<tools, disk, whole, faults, crashes>>

Crash(p) ==
    /\ ~At(p, "idle") /\ crashes < MaxCrashes
    /\ crashes' = crashes + 1
    /\ To(p, "idle")
    /\ tools' = (tools \ Of(p)) \cup {[t EXCEPT !.of = crashes + 1] : t \in Of(p) \cap Running}
    /\ UNCHANGED <<disk, whole, faults>>

-----------------------------------------------------------------------------
Init ==
    /\ \E k \in Keys : proc = [p \in Processes |-> [at |-> "idle", key |-> k]]
    /\ tools = {} /\ whole = {}
    /\ disk = [k \in Keys |-> [tmp |-> 0, made |-> 0, tarball |-> "none", source |-> "none",
                               output |-> None, bin |-> None]]
    /\ faults = 0 /\ crashes = 0

Step(p) ==
    \/ \E k \in Keys : Ask(p, k)
    \/ Probe(p) \/ Purge(p) \/ Clear(p) \/ Mkdir(p)
    \/ Downloaded(p) \/ Unpacked(p) \/ Compiled(p) \/ GivesUp(p)
    \/ Install(p) \/ Tidy(p) \/ Try(p) \/ Return(p)

Next == ToolStep \/ \E p \in Processes : Step(p) \/ Crash(p)

Spec == Init /\ [][Next]_vars

\* Processes and tools run, and each key is asked for again and again: two
\* commits are of many tests, and a client starts more than once.
FairSpec ==
    /\ Spec
    /\ WF_vars(ToolStep)
    /\ \A p \in Processes : WF_vars(Step(p)) /\ \A k \in Keys : SF_vars(Ask(p, k))

-----------------------------------------------------------------------------
\* Variables hold values of their types; a process in a step of the build, and
\* only then, waits for one tool, the one of this step and key, and a tool
\* that nobody waits for is running (run_process returns after its tool).
BuildTypeOK ==
    /\ proc \in [Processes -> ProcessState]
    /\ tools \subseteq ToolState
    /\ disk \in [Keys -> DiskState]
    /\ whole \subseteq Files
    /\ faults \in 0..MaxFaults /\ crashes \in 0..MaxCrashes
    /\ \A p \in Processes :
         IF proc[p].at \in {"curl", "tar", "make"}
         THEN \E t \in tools : Of(p) = {t} /\ t.does = proc[p].at /\ t.key = Key(p)
         ELSE Of(p) = {}
    /\ \A t \in tools : t.of \notin Processes => t.end = "no" /\ t.of <= crashes

\* The name {key} never stands for a binary that is not linked to its end,
\* whatever was left by calls that failed or processes that died, and so every
\* path returned is of a whole binary (the rename at the end of build_engine).
CachedIsWhole == \A k \in Keys : disk[k].bin # None => disk[k].bin \in whole

\* When no more tools fail and no more processes die, every key ends up
\* cached: nothing left behind keeps a build from succeeding (the remove_all
\* of {key}.tmp at the start).
BuildsInTheEnd == \A k \in Keys : <>[](disk[k].bin # None)
=============================================================================
