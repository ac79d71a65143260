-------------------------- MODULE BuildCacheProofs --------------------------
(***************************************************************************)
(* Types for any number of processes, and, when one process at a time uses *)
(* the work directory, that the cache holds whole binaries only.           *)
(***************************************************************************)
EXTENDS BuildCache, TLAPS

-----------------------------------------------------------------------------
(***************************************************************************)
(* Types.                                                                  *)
(***************************************************************************)
Typed ==
    /\ proc \in [Processes -> ProcessState]
    /\ tools \subseteq ToolState
    /\ disk \in [Keys -> DiskState]
    /\ whole \subseteq Files
    /\ faults \in 0..MaxFaults /\ crashes \in 0..MaxCrashes

Building(p) == proc[p].at \in {"curl", "tar", "make"}

WaitsForIts(p) ==
    IF Building(p)
    THEN \E t \in tools : Of(p) = {t} /\ t.does = proc[p].at /\ t.key = Key(p)
    ELSE Of(p) = {}

Orphans == \A t \in tools : t.of \notin Processes => t.end = "no" /\ t.of <= crashes

LEMMA TypeParts == BuildTypeOK <=> Typed /\ (\A p \in Processes : WaitsForIts(p)) /\ Orphans
BY DEF BuildTypeOK, Typed, WaitsForIts, Building, Orphans

LEMMA TypePartsNext ==
    BuildTypeOK' <=> Typed' /\ (\A p \in Processes : WaitsForIts(p)') /\ Orphans'
BY DEF BuildTypeOK, Typed, WaitsForIts, Building, Orphans, Of, Key

LEMMA PutTyped ==
    ASSUME disk \in [Keys -> DiskState], NEW k \in Keys, NEW d \in DiskState, Put(k, d)
    PROVE  /\ disk' \in [Keys -> DiskState]
           /\ disk'[k] = d
           /\ \A j \in Keys \ {k} : disk'[j] = disk[j]
BY DEF Put

LEMMA ToTyped ==
    ASSUME proc \in [Processes -> ProcessState], NEW p \in Processes, NEW s \in Steps, To(p, s)
    PROVE  /\ proc' \in [Processes -> ProcessState]
           /\ proc'[p].at = s /\ proc'[p].key = proc[p].key
           /\ \A q \in Processes \ {p} : proc'[q] = proc[q]
BY DEF To, ProcessState

\* A tool that goes on stays of its process, its kind and its key.
LEMMA BecomesTyped ==
    ASSUME Typed, NEW t \in tools, NEW u \in ToolState, Becomes(t, u),
           u.of = t.of, u.does = t.does, u.key = t.key, UNCHANGED <<proc, crashes>>,
           \A p \in Processes : WaitsForIts(p), Orphans
    PROVE  tools' \subseteq ToolState /\ (\A p \in Processes : WaitsForIts(p)') /\ Orphans'
<1>1. tools' \subseteq ToolState
  BY DEF Becomes, Typed
<1>2. ASSUME NEW p \in Processes
      PROVE  WaitsForIts(p)'
  <2>1. proc'[p] = proc[p]
    OBVIOUS
  <2>2. CASE t.of = p
    <3>1. Building(p) /\ Of(p) = {t} /\ t.does = proc[p].at /\ t.key = Key(p)
      BY <2>2 DEF WaitsForIts, Of
    <3>2. Of(p)' = {u}
      BY <3>1, <2>2 DEF Becomes, Of
    <3>3. u \in tools'
      BY <2>2 DEF Becomes
    <3>4. QED
      BY <3>1, <3>2, <3>3, <2>1 DEF WaitsForIts, Building, Key
  <2>3. CASE t.of # p
    <3>1. Of(p)' = Of(p)
      BY <2>3 DEF Becomes, Of
    <3>2. QED
      BY <3>1, <2>1 DEF WaitsForIts, Building, Key, Of
  <2>4. QED
    BY <2>2, <2>3
<1>3. Orphans'
  BY DEF Orphans, Becomes
<1>4. QED
  BY <1>1, <1>2, <1>3

-----------------------------------------------------------------------------
(***************************************************************************)
(* What the steps of the tools do to a tool and to the disk.               *)
(***************************************************************************)
LEMMA ToolsTyped ==
    ASSUME BuildTypeOK, NEW t \in Running, UNCHANGED <<proc, crashes>>,
           \/ (Opens(t) \/ Links(t) \/ Finishes(t)) /\ UNCHANGED faults
           \/ Fails(t)
    PROVE  BuildTypeOK'
<1> USE TypeParts, TypePartsNext
<1>1. t \in tools /\ t \in ToolState /\ t.key \in Keys /\ disk[t.key] \in DiskState
  BY DEF Running, Typed, ToolState
<1>2. CASE Opens(t) /\ UNCHANGED faults
  <2> DEFINE u == [t EXCEPT !.dir = disk[t.key].tmp]
             d == [disk[t.key] EXCEPT !.tarball = "part"]
  <2>1. u \in ToolState /\ u.of = t.of /\ u.does = t.does /\ u.key = t.key /\ d \in DiskState
    BY <1>1 DEF ToolState, DiskState, Extents
  <2>2. Becomes(t, u) /\ Put(t.key, d)
    BY <1>2 DEF Opens
  <2>3. tools' \subseteq ToolState /\ (\A p \in Processes : WaitsForIts(p)') /\ Orphans'
    BY <2>1, <2>2, <1>1, BecomesTyped
  <2>4. Typed'
    BY <2>1, <2>2, <2>3, <1>1, <1>2, PutTyped DEF Typed, Opens
  <2>5. QED
    BY <2>3, <2>4
<1>3. CASE Links(t) /\ UNCHANGED faults
  <2>1. PICK f \in Files : /\ Becomes(t, [t EXCEPT !.file = f])
                           /\ Put(t.key, [disk[t.key] EXCEPT !.output = f])
                           /\ whole' = whole \ {f}
    BY <1>3 DEF Links
  <2> DEFINE u == [t EXCEPT !.file = f]
             d == [disk[t.key] EXCEPT !.output = f]
  <2>2. u \in ToolState /\ u.of = t.of /\ u.does = t.does /\ u.key = t.key /\ d \in DiskState
    BY <1>1 DEF ToolState, DiskState
  <2>3. tools' \subseteq ToolState /\ (\A p \in Processes : WaitsForIts(p)') /\ Orphans'
    BY <2>1, <2>2, <1>1, BecomesTyped
  <2>4. Typed'
    BY <2>1, <2>2, <2>3, <1>1, <1>3, PutTyped DEF Typed
  <2>5. QED
    BY <2>3, <2>4
<1>4. CASE Finishes(t) /\ UNCHANGED faults
  <2> DEFINE u == [t EXCEPT !.end = "ok"]
  <2>1. u \in ToolState /\ u.of = t.of /\ u.does = t.does /\ u.key = t.key
    BY <1>1 DEF ToolState
  <2>2. tools' \subseteq ToolState /\ (\A p \in Processes : WaitsForIts(p)') /\ Orphans'
    BY <2>1, <1>1, <1>4, BecomesTyped DEF Finishes
  <2>3. whole' \subseteq Files
    BY <1>1, <1>4 DEF Finishes, ToolState, Typed
  <2>4. disk' \in [Keys -> DiskState]
    <3>1. CASE UNCHANGED disk
      BY <3>1 DEF Typed
    <3>2. CASE Put(t.key, disk[t.key])
      BY <3>2, <1>1, PutTyped DEF Typed
    <3>3. CASE Put(t.key, [disk[t.key] EXCEPT !.tarball = "whole"])
      <4>1. [disk[t.key] EXCEPT !.tarball = "whole"] \in DiskState
        BY <1>1 DEF DiskState, Extents
      <4>2. QED
        BY <4>1, <3>3, <1>1, PutTyped DEF Typed
    <3>4. CASE Put(t.key, [disk[t.key] EXCEPT !.source = "whole"])
      <4>1. [disk[t.key] EXCEPT !.source = "whole"] \in DiskState
        BY <1>1 DEF DiskState, Extents
      <4>2. QED
        BY <4>1, <3>4, <1>1, PutTyped DEF Typed
    <3>5. QED
      BY <3>1, <3>2, <3>3, <3>4, <1>4 DEF Finishes
  <2>5. QED
    BY <2>2, <2>3, <2>4, <1>4 DEF Typed
<1>5. CASE Fails(t)
  <2> DEFINE u == [t EXCEPT !.end = "failed"]
  <2>1. u \in ToolState /\ u.of = t.of /\ u.does = t.does /\ u.key = t.key
    BY <1>1 DEF ToolState
  <2>2. tools' \subseteq ToolState /\ (\A p \in Processes : WaitsForIts(p)') /\ Orphans'
    BY <2>1, <1>1, <1>5, BecomesTyped DEF Fails
  <2>3. faults' \in 0..MaxFaults
    BY <1>5, BuildConstants DEF Fails, Typed
  <2>4. QED
    BY <2>2, <2>3, <1>5 DEF Typed, Fails
<1>6. QED
  BY <1>2, <1>3, <1>4, <1>5

-----------------------------------------------------------------------------
(***************************************************************************)
(* The steps of a process.                                                 *)
(***************************************************************************)
\* A step of p that starts no tool, while p has none.
LEMMA IdleTools ==
    ASSUME BuildTypeOK, NEW p \in Processes, ~Building(p), UNCHANGED <<tools, crashes>>,
           proc' \in [Processes -> ProcessState], ~Building(p)',
           \A q \in Processes \ {p} : proc'[q] = proc[q]
    PROVE  (\A q \in Processes : WaitsForIts(q)') /\ Orphans'
<1> USE TypeParts
<1>1. \A q \in Processes : Of(q)' = Of(q)
  BY DEF Of
<1>2. WaitsForIts(p)'
  BY <1>1 DEF WaitsForIts, Building
<1>3. \A q \in Processes \ {p} : WaitsForIts(q)'
  BY <1>1 DEF WaitsForIts, Building, Key
<1>4. QED
  BY <1>2, <1>3 DEF Orphans

\* A step of p that starts a tool.
LEMMA StartsTool ==
    ASSUME BuildTypeOK, NEW p \in Processes, NEW does \in {"curl", "tar", "make"},
           NEW dir \in Nat, Starts(p, does, dir), To(p, does), UNCHANGED crashes
    PROVE  /\ proc' \in [Processes -> ProcessState]
           /\ tools' \subseteq ToolState
           /\ (\A q \in Processes : WaitsForIts(q)') /\ Orphans'
<1> USE TypeParts
<1> DEFINE u == [of |-> p, does |-> does, key |-> Key(p), dir |-> dir, file |-> None,
                 end |-> "no"]
<1>1. /\ proc' \in [Processes -> ProcessState] /\ proc'[p].at = does
      /\ proc'[p].key = proc[p].key /\ \A q \in Processes \ {p} : proc'[q] = proc[q]
  BY ToTyped DEF Typed, Steps
<1>2. u \in ToolState
  BY DEF ToolState, Key, Typed, ProcessState
<1>3. tools' = (tools \ Of(p)) \cup {u}
  BY DEF Starts
<1>4. tools' \subseteq ToolState
  BY <1>2, <1>3 DEF Typed
<1>5. Of(p)' = {u}
  BY <1>3 DEF Of
<1>6. WaitsForIts(p)'
  <2>1. u \in tools' /\ u.does = does /\ u.key = proc[p].key
    BY <1>3 DEF Key
  <2>2. \E t \in tools' : Of(p)' = {t} /\ t.does = proc'[p].at /\ t.key = proc'[p].key
    BY <2>1, <1>5, <1>1
  <2>3. Building(p)'
    BY <1>1 DEF Building
  <2>4. QED
    BY <2>2, <2>3 DEF WaitsForIts, Key
<1>7. ASSUME NEW q \in Processes \ {p}
      PROVE  WaitsForIts(q)'
  <2>1. Of(q)' = Of(q)
    BY <1>3 DEF Of
  <2>2. Of(q) \subseteq tools'
    BY <1>3 DEF Of
  <2>3. QED
    BY <2>1, <2>2, <1>1 DEF WaitsForIts, Building, Key
<1>8. Orphans'
  BY <1>3 DEF Orphans
<1>9. QED
  BY <1>1, <1>4, <1>6, <1>7, <1>8

\* A step of p that waits for no tool any more.
LEMMA DropsTool ==
    ASSUME BuildTypeOK, NEW p \in Processes, tools' = tools \ Of(p), UNCHANGED crashes,
           proc' \in [Processes -> ProcessState], ~Building(p)',
           \A q \in Processes \ {p} : proc'[q] = proc[q]
    PROVE  tools' \subseteq ToolState /\ (\A q \in Processes : WaitsForIts(q)') /\ Orphans'
<1> USE TypeParts
<1>1. WaitsForIts(p)'
  BY DEF WaitsForIts, Of
<1>2. ASSUME NEW q \in Processes \ {p}
      PROVE  WaitsForIts(q)'
  <2>1. Of(q)' = Of(q) /\ Of(q) \subseteq tools'
    BY DEF Of
  <2>2. QED
    BY <2>1 DEF WaitsForIts, Building, Key
<1>3. QED
  BY <1>1, <1>2 DEF Orphans, Typed

LEMMA EmptiedTyped ==
    ASSUME NEW d \in DiskState
    PROVE  /\ Emptied(d) \in DiskState /\ [Emptied(d) EXCEPT !.tmp = 0] \in DiskState
           /\ Emptied(d).made = d.made /\ Emptied(d).bin = d.bin /\ Emptied(d).tmp = d.tmp
           /\ Emptied(d).output = None
BY DEF Emptied, DiskState, Extents

LEMMA RemovesTmpTyped ==
    ASSUME BuildTypeOK, NEW p \in Processes, NEW next \in Steps, RemovesTmp(p, next),
           ~Building(p), next \notin {"curl", "tar", "make"},
           UNCHANGED <<tools, whole, faults, crashes>>
    PROVE  BuildTypeOK'
<1> USE TypeParts, TypePartsNext
<1>1. Disk(p) \in DiskState /\ Key(p) \in Keys
  BY DEF Disk, Key, Typed, ProcessState
<1>2. disk' \in [Keys -> DiskState]
  BY <1>1, EmptiedTyped, PutTyped DEF RemovesTmp, Typed
<1>3. PICK s \in {next, "idle"} : To(p, s)
  BY DEF RemovesTmp
<1>4. /\ proc' \in [Processes -> ProcessState] /\ proc'[p].at = s
      /\ \A q \in Processes \ {p} : proc'[q] = proc[q]
  BY <1>3, ToTyped DEF Typed, Steps
<1>5. (\A q \in Processes : WaitsForIts(q)') /\ Orphans'
  BY <1>4, IdleTools DEF Building
<1>6. QED
  BY <1>2, <1>4, <1>5 DEF Typed

LEMMA RunsTyped ==
    ASSUME BuildTypeOK, NEW p \in Processes, NEW good \in Steps, NEW bad \in Steps,
           Runs(p, good, bad), ~Building(p), {good, bad} \cap {"curl", "tar", "make"} = {},
           UNCHANGED <<tools, disk, whole, crashes>>
    PROVE  BuildTypeOK'
<1> USE TypeParts, TypePartsNext
<1>1. PICK s \in {good, bad} : To(p, s)
  BY DEF Runs
<1>2. /\ proc' \in [Processes -> ProcessState] /\ proc'[p].at = s
      /\ \A q \in Processes \ {p} : proc'[q] = proc[q]
  BY <1>1, ToTyped DEF Typed
<1>3. (\A q \in Processes : WaitsForIts(q)') /\ Orphans'
  BY <1>2, IdleTools DEF Building
<1>4. faults' \in 0..MaxFaults
  BY BuildConstants DEF Runs, Typed
<1>5. QED
  BY <1>2, <1>3, <1>4 DEF Typed

LEMMA StepTyped ==
    ASSUME BuildTypeOK, NEW p \in Processes, Step(p)
    PROVE  BuildTypeOK'
<1> USE TypeParts, TypePartsNext
<1>1. Disk(p) \in DiskState /\ Key(p) \in Keys
  BY DEF Disk, Key, Typed, ProcessState
<1>2. ASSUME NEW k \in Keys, Ask(p, k)
      PROVE  BuildTypeOK'
  <2>1. PICK s \in {"clear", "probe", "try", "done"} :
           proc' = [proc EXCEPT ![p] = [key |-> k, at |-> s]]
    <3>1. CASE disk[k].bin = None
      BY <3>1, <1>2 DEF Ask
    <3>2. CASE disk[k].bin # None /\ k \in Probed
      BY <3>2, <1>2, BuildConstants DEF Ask
    <3>3. CASE disk[k].bin # None /\ k \in Benched
      BY <3>3, <1>2, BuildConstants DEF Ask
    <3>4. CASE disk[k].bin # None /\ k \notin Probed /\ k \notin Benched
      BY <3>4, <1>2 DEF Ask
    <3>5. QED
      BY <3>1, <3>2, <3>3, <3>4
  <2>2. [key |-> k, at |-> s] \in ProcessState
    BY DEF ProcessState, Steps
  <2>3. /\ proc' \in [Processes -> ProcessState] /\ ~Building(p)'
        /\ \A q \in Processes \ {p} : proc'[q] = proc[q]
    BY <2>1, <2>2 DEF Typed, Building
  <2>4. ~Building(p)
    BY <1>2 DEF Ask, At, Building
  <2>5. (\A q \in Processes : WaitsForIts(q)') /\ Orphans'
    BY <2>3, <2>4, <1>2, IdleTools DEF Ask
  <2>6. QED
    BY <2>3, <2>5, <1>2 DEF Typed, Ask
<1>3. CASE Probe(p)
  BY <1>3, RunsTyped DEF Probe, At, Building, Steps
<1>4. CASE Try(p)
  BY <1>4, RunsTyped DEF Try, At, Building, Steps
<1>5. CASE Purge(p)
  <2>1. [Disk(p) EXCEPT !.bin = None] \in DiskState
    BY <1>1 DEF DiskState
  <2>2. disk' \in [Keys -> DiskState]
    BY <2>1, <1>1, <1>5, PutTyped DEF Purge, Typed
  <2>3. /\ proc' \in [Processes -> ProcessState] /\ proc'[p].at = "clear"
        /\ \A q \in Processes \ {p} : proc'[q] = proc[q]
    BY <1>5, ToTyped DEF Purge, Typed, Steps
  <2>4. (\A q \in Processes : WaitsForIts(q)') /\ Orphans'
    BY <2>3, <1>5, IdleTools DEF Purge, At, Building
  <2>5. QED
    BY <2>2, <2>3, <2>4, <1>5 DEF Typed, Purge
<1>6. CASE Clear(p)
  BY <1>6, RemovesTmpTyped DEF Clear, At, Building, Steps
<1>7. CASE Tidy(p)
  <2>1. PICK next \in {"try", "done"} : RemovesTmp(p, next)
    BY <1>7 DEF Tidy
  <2>2. QED
    BY <2>1, <1>7, RemovesTmpTyped DEF Tidy, At, Building, Steps
<1>8. CASE Mkdir(p)
  <2> DEFINE d == IF Disk(p).tmp # 0 THEN Disk(p)
                  ELSE [Disk(p) EXCEPT !.tmp = Disk(p).made + 1, !.made = Disk(p).made + 1]
  <2>1. d \in DiskState
    <3>1. Disk(p).made + 1 \in Nat
      BY <1>1 DEF DiskState
    <3>2. [Disk(p) EXCEPT !.tmp = Disk(p).made + 1] \in DiskState
      BY <1>1, <3>1 DEF DiskState
    <3>3. QED
      BY <1>1, <3>1, <3>2 DEF DiskState
  <2>2. disk' \in [Keys -> DiskState]
    BY <2>1, <1>1, <1>8, PutTyped DEF Mkdir, Typed
  <2>3. /\ proc' \in [Processes -> ProcessState] /\ tools' \subseteq ToolState
        /\ (\A q \in Processes : WaitsForIts(q)') /\ Orphans'
    BY <1>8, StartsTool DEF Mkdir
  <2>4. QED
    BY <2>2, <2>3, <1>8 DEF Typed, Mkdir
<1>9. CASE Downloaded(p)
  <2> DEFINE d == IF Disk(p).tmp = 0 THEN Disk(p) ELSE [Disk(p) EXCEPT !.source = "part"]
  <2>1. d \in DiskState /\ Disk(p).tmp \in Nat
    BY <1>1 DEF DiskState, Extents
  <2>2. disk' \in [Keys -> DiskState]
    BY <2>1, <1>1, <1>9, PutTyped DEF Downloaded, Typed
  <2>3. /\ proc' \in [Processes -> ProcessState] /\ tools' \subseteq ToolState
        /\ (\A q \in Processes : WaitsForIts(q)') /\ Orphans'
    BY <2>1, <1>9, StartsTool DEF Downloaded
  <2>4. QED
    BY <2>2, <2>3, <1>9 DEF Typed, Downloaded
<1>10. CASE Unpacked(p)
  <2>1. Disk(p).tmp \in Nat
    BY <1>1 DEF DiskState
  <2>2. /\ proc' \in [Processes -> ProcessState] /\ tools' \subseteq ToolState
        /\ (\A q \in Processes : WaitsForIts(q)') /\ Orphans'
    BY <2>1, <1>10, StartsTool DEF Unpacked
  <2>3. QED
    BY <2>2, <1>10 DEF Typed, Unpacked
<1>11. CASE Compiled(p) \/ GivesUp(p)
  <2>1. PICK s \in {"install", "idle"} : To(p, s)
    BY <1>11 DEF Compiled, GivesUp
  <2>2. /\ proc' \in [Processes -> ProcessState] /\ proc'[p].at = s
        /\ \A q \in Processes \ {p} : proc'[q] = proc[q]
    BY <2>1, ToTyped DEF Typed, Steps
  <2>3. tools' \subseteq ToolState /\ (\A q \in Processes : WaitsForIts(q)') /\ Orphans'
    BY <2>2, <1>11, DropsTool DEF Compiled, GivesUp, Building
  <2>4. QED
    BY <2>2, <2>3, <1>11 DEF Typed, Compiled, GivesUp
<1>12. CASE Install(p)
  <2>1. [Disk(p) EXCEPT !.bin = Disk(p).output, !.output = None] \in DiskState
    BY <1>1 DEF DiskState
  <2>2. disk' \in [Keys -> DiskState]
    BY <2>1, <1>1, <1>12, PutTyped DEF Install, Typed
  <2>3. PICK s \in {"tidy", "idle"} : To(p, s)
    BY <1>12 DEF Install
  <2>4. /\ proc' \in [Processes -> ProcessState] /\ proc'[p].at = s
        /\ \A q \in Processes \ {p} : proc'[q] = proc[q]
    BY <2>3, ToTyped DEF Typed, Steps
  <2>5. (\A q \in Processes : WaitsForIts(q)') /\ Orphans'
    BY <2>4, <1>12, IdleTools DEF Install, At, Building
  <2>6. QED
    BY <2>2, <2>4, <2>5, <1>12 DEF Typed, Install
<1>13. CASE Return(p)
  <2>1. /\ proc' \in [Processes -> ProcessState] /\ proc'[p].at = "idle"
        /\ \A q \in Processes \ {p} : proc'[q] = proc[q]
    BY <1>13, ToTyped DEF Return, Typed, Steps
  <2>2. (\A q \in Processes : WaitsForIts(q)') /\ Orphans'
    BY <2>1, <1>13, IdleTools DEF Return, At, Building
  <2>3. QED
    BY <2>1, <2>2, <1>13 DEF Typed, Return
<1>14. QED
  BY <1>2, <1>3, <1>4, <1>5, <1>6, <1>7, <1>8, <1>9, <1>10, <1>11, <1>12, <1>13 DEF Step

\* What the tool of a process that dies does goes on, without it.
LEMMA CrashTyped ==
    ASSUME BuildTypeOK, NEW p \in Processes, Crash(p)
    PROVE  BuildTypeOK'
<1> USE TypeParts, TypePartsNext
<1>1. crashes + 1 \in 1..MaxCrashes /\ crashes + 1 \notin Processes /\ crashes' = crashes + 1
  BY BuildConstants DEF Crash, Typed
<1>2. /\ proc' \in [Processes -> ProcessState] /\ proc'[p].at = "idle"
      /\ \A q \in Processes \ {p} : proc'[q] = proc[q]
  BY ToTyped DEF Crash, Typed, Steps
<1>3. \A t \in ToolState : /\ [t EXCEPT !.of = crashes + 1] \in ToolState
                           /\ [t EXCEPT !.of = crashes + 1].of = crashes + 1
                           /\ [t EXCEPT !.of = crashes + 1].end = t.end
  BY <1>1 DEF ToolState
<1>4. tools' = (tools \ Of(p)) \cup {[t EXCEPT !.of = crashes + 1] : t \in Of(p) \cap Running}
  BY DEF Crash
<1>5. tools' \subseteq ToolState
  BY <1>3, <1>4 DEF Typed, Of
<1>6. \A t \in tools' : t \in tools \ Of(p) \/ (t.of = crashes + 1 /\ t.end = "no")
  <2>1. ASSUME NEW t \in tools', t \notin tools \ Of(p)
        PROVE  t.of = crashes + 1 /\ t.end = "no"
    <3>1. PICK o \in Of(p) \cap Running : t = [o EXCEPT !.of = crashes + 1]
      BY <2>1, <1>4
    <3>2. o \in ToolState /\ o.end = "no"
      BY DEF Of, Running, Typed
    <3>3. QED
      BY <3>1, <3>2, <1>3
  <2>2. QED
    BY <2>1
<1>7. WaitsForIts(p)'
  <2>1. Of(p)' = {}
    BY <1>1, <1>6 DEF Of
  <2>2. QED
    BY <2>1, <1>2 DEF WaitsForIts, Building
<1>8. ASSUME NEW q \in Processes \ {p}
      PROVE  WaitsForIts(q)'
  <2>1. Of(q)' = Of(q) /\ Of(q) \subseteq tools'
    BY <1>1, <1>4, <1>6 DEF Of
  <2>2. QED
    BY <2>1, <1>2 DEF WaitsForIts, Building, Key
<1>9. Orphans'
  <2>1. ASSUME NEW t \in tools', t.of \notin Processes
        PROVE  t.end = "no" /\ t.of <= crashes + 1
    <3>1. CASE t.of = crashes + 1 /\ t.end = "no"
      BY <3>1, <1>1
    <3>2. CASE t \in tools
      <4>1. t.end = "no" /\ t.of <= crashes /\ t.of \in 1..MaxCrashes /\ crashes \in Nat
        BY <3>2, <2>1 DEF Orphans, Typed, ToolState
      <4>2. QED
        BY <4>1
    <3>3. QED
      BY <3>1, <3>2, <1>6
  <2>2. QED
    BY <2>1, <1>1 DEF Orphans
<1>10. QED
  BY <1>1, <1>2, <1>5, <1>7, <1>8, <1>9 DEF Typed, Crash

LEMMA InitTyped == Init => BuildTypeOK
<1> SUFFICES ASSUME Init PROVE BuildTypeOK
  OBVIOUS
<1>1. PICK k \in Keys : proc = [p \in Processes |-> [at |-> "idle", key |-> k]]
  BY DEF Init
<1>2. Typed
  BY <1>1, BuildConstants DEF Init, Typed, ProcessState, Steps, DiskState, Extents
<1>3. \A p \in Processes : WaitsForIts(p)
  BY <1>1 DEF WaitsForIts, Building, Init, Of
<1>4. Orphans
  BY DEF Orphans, Init
<1>5. QED
  BY <1>2, <1>3, <1>4, TypeParts

LEMMA NextTyped == BuildTypeOK /\ [Next]_vars => BuildTypeOK'
<1> SUFFICES ASSUME BuildTypeOK, [Next]_vars PROVE BuildTypeOK'
  OBVIOUS
<1>1. CASE ToolStep
  BY <1>1, ToolsTyped DEF ToolStep
<1>2. ASSUME NEW p \in Processes, Step(p) \/ Crash(p)
      PROVE  BuildTypeOK'
  BY <1>2, StepTyped, CrashTyped
<1>3. CASE UNCHANGED vars
  BY <1>3 DEF vars, BuildTypeOK, Of, Key
<1>4. QED
  BY <1>1, <1>2, <1>3 DEF Next

\* Files, directories, tools and processes keep their types, and no tool is
\* lost sight of but by a death, for any number of processes in a work
\* directory (build_engine, ensure_fastchess).
THEOREM BuildTyping == Spec => []BuildTypeOK
<1>1. QED
  BY InitTyped, NextTyped, PTL DEF Spec
-----------------------------------------------------------------------------
(***************************************************************************)
(* One process at a time: the cache holds whole binaries.  Between Clear   *)
(* and Install the process has {key}.tmp for itself: no orphan of an       *)
(* earlier one links a file there.                                         *)
(***************************************************************************)
Numbered ==
    /\ \A t \in tools : t.dir <= disk[t.key].made
    /\ \A k \in Keys : disk[k].tmp <= disk[k].made

Private(p) == proc[p].at \in {"mkdir", "curl", "tar", "make", "install"}

NoStrangers(p) ==
    Private(p) => \A t \in tools : t.of # p /\ t.does = "make" /\ t.key = Key(p) => ~InPlace(t)

Progress(p) ==
    /\ At(p, "mkdir") => Disk(p).tmp = 0
    /\ proc[p].at \in {"mkdir", "curl", "tar"} => Disk(p).output = None
    /\ At(p, "make") => \A t \in Of(p) :
         /\ Disk(p).output \in {None, t.file}
         /\ t.end = "ok" /\ t.file # None => t.file \in whole
    /\ At(p, "install") => Disk(p).output \in whole \cup {None}

OneProcess == \A p, q \in Processes : p = q

SoloInv ==
    /\ BuildTypeOK /\ Numbered /\ CachedIsWhole
    /\ \A p \in Processes : NoStrangers(p) /\ Progress(p)

\* A step of a tool moves no directory and no cached binary.  It links a fresh
\* file where the tool is, or keeps files as they are.
Linked(t, u, f) ==
    /\ t.does = "make" /\ InPlace(t) /\ t.file = None /\ u.file = f /\ u.end = "no"
    /\ \A k \in Keys : f \notin {disk[k].bin, disk[k].output}
    /\ \A o \in tools : f # o.file
    /\ disk'[t.key].output = f
    /\ \A k \in Keys \ {t.key} : disk'[k].output = disk[k].output
    /\ whole' = whole \ {f}

Kept(t, u) ==
    /\ u.file = t.file
    /\ \A k \in Keys : disk'[k].output = disk[k].output
    /\ whole \subseteq whole'
    /\ u.does = "make" /\ u.end = "ok" /\ u.file # None => u.file \in whole'

Effect(t, u) ==
    /\ u.of = t.of /\ u.does = t.does /\ u.key = t.key
    /\ u.dir = t.dir \/ (u.does = "curl" /\ u.dir = disk[t.key].tmp)
    /\ tools' \subseteq (tools \ {t}) \cup {u}
    /\ \A k \in Keys : /\ disk'[k].tmp = disk[k].tmp /\ disk'[k].made = disk[k].made
                       /\ disk'[k].bin = disk[k].bin

LEMMA EffectOfTool ==
    ASSUME BuildTypeOK, NEW t \in Running,
           Opens(t) \/ Links(t) \/ Finishes(t) \/ Fails(t)
    PROVE  \E u \in ToolState :
             Effect(t, u) /\ (Kept(t, u) \/ \E f \in Files : Linked(t, u, f))
<1> USE TypeParts
<1>1. t \in tools /\ t \in ToolState /\ t.key \in Keys /\ disk[t.key] \in DiskState
      /\ t.end = "no" /\ disk \in [Keys -> DiskState]
  BY DEF Running, Typed, ToolState
<1>2. ASSUME NEW u \in ToolState, Becomes(t, u)
      PROVE  tools' \subseteq (tools \ {t}) \cup {u}
  BY <1>2 DEF Becomes
<1>3. CASE Opens(t)
  <2> DEFINE u == [t EXCEPT !.dir = disk[t.key].tmp]
             d == [disk[t.key] EXCEPT !.tarball = "part"]
  <2>1. u \in ToolState /\ u.of = t.of /\ u.does = "curl" /\ u.key = t.key /\ u.file = t.file
        /\ u.dir = disk[t.key].tmp
    BY <1>1, <1>3 DEF ToolState, DiskState, Opens
  <2>2. d \in DiskState /\ d.tmp = disk[t.key].tmp /\ d.made = disk[t.key].made
        /\ d.bin = disk[t.key].bin /\ d.output = disk[t.key].output
    BY <1>1 DEF DiskState, Extents
  <2>3. Becomes(t, u) /\ Put(t.key, d) /\ whole' = whole /\ t.does = "curl"
    BY <1>3 DEF Opens
  <2>4. disk'[t.key] = d /\ \A k \in Keys \ {t.key} : disk'[k] = disk[k]
    BY <2>2, <2>3, <1>1, PutTyped
  <2>5. Effect(t, u) /\ Kept(t, u)
    BY <2>1, <2>2, <2>3, <2>4, <1>2 DEF Effect, Kept
  <2>6. QED
    BY <2>1, <2>5
<1>4. CASE Links(t)
  <2>1. PICK f \in Files : /\ \A k \in Keys : f \notin {disk[k].bin, disk[k].output}
                           /\ \A o \in tools : f # o.file
                           /\ Becomes(t, [t EXCEPT !.file = f])
                           /\ Put(t.key, [disk[t.key] EXCEPT !.output = f])
                           /\ whole' = whole \ {f}
    BY <1>4 DEF Links
  <2> DEFINE u == [t EXCEPT !.file = f]
             d == [disk[t.key] EXCEPT !.output = f]
  <2>2. u \in ToolState /\ u.of = t.of /\ u.does = t.does /\ u.key = t.key /\ u.file = f
        /\ u.dir = t.dir /\ u.end = "no"
    BY <1>1 DEF ToolState
  <2>3. d \in DiskState /\ d.tmp = disk[t.key].tmp /\ d.made = disk[t.key].made
        /\ d.bin = disk[t.key].bin /\ d.output = f
    BY <1>1 DEF DiskState
  <2>4. disk'[t.key] = d /\ \A k \in Keys \ {t.key} : disk'[k] = disk[k]
    BY <2>1, <2>3, <1>1, PutTyped
  <2>5. Effect(t, u) /\ Linked(t, u, f)
    BY <2>1, <2>2, <2>3, <2>4, <1>2, <1>4 DEF Effect, Linked, Links
  <2>6. QED
    BY <2>2, <2>5
<1>5. CASE Finishes(t)
  <2> DEFINE u == [t EXCEPT !.end = "ok"]
  <2>1. u \in ToolState /\ u.of = t.of /\ u.does = t.does /\ u.key = t.key /\ u.file = t.file
        /\ u.dir = t.dir
    BY <1>1 DEF ToolState
  <2>2. \A d \in {disk[t.key], [disk[t.key] EXCEPT !.tarball = "whole"],
                  [disk[t.key] EXCEPT !.source = "whole"]} :
          /\ d \in DiskState /\ d.tmp = disk[t.key].tmp /\ d.made = disk[t.key].made
          /\ d.bin = disk[t.key].bin /\ d.output = disk[t.key].output
    BY <1>1 DEF DiskState, Extents
  <2>3. \/ disk' = disk
        \/ \E d \in {disk[t.key], [disk[t.key] EXCEPT !.tarball = "whole"],
                     [disk[t.key] EXCEPT !.source = "whole"]} : Put(t.key, d)
    BY <1>5 DEF Finishes
  <2>4. \A k \in Keys : /\ disk'[k].tmp = disk[k].tmp /\ disk'[k].made = disk[k].made
                        /\ disk'[k].bin = disk[k].bin /\ disk'[k].output = disk[k].output
    <3>1. CASE disk' = disk
      BY <3>1
    <3>2. ASSUME NEW d \in {disk[t.key], [disk[t.key] EXCEPT !.tarball = "whole"],
                            [disk[t.key] EXCEPT !.source = "whole"]}, Put(t.key, d)
          PROVE  \A k \in Keys :
                   /\ disk'[k].tmp = disk[k].tmp /\ disk'[k].made = disk[k].made
                   /\ disk'[k].bin = disk[k].bin /\ disk'[k].output = disk[k].output
      <4>1. disk'[t.key] = d /\ \A k \in Keys \ {t.key} : disk'[k] = disk[k]
        BY <3>2, <2>2, <1>1, PutTyped
      <4>2. QED
        BY <4>1, <2>2
    <3>3. QED
      BY <3>1, <3>2, <2>3
  <2>5. Becomes(t, u) /\ whole \subseteq whole'
        /\ (t.does = "make" => whole' = whole \cup ({t.file} \ {None}))
    BY <1>5 DEF Finishes
  <2>6. Effect(t, u) /\ Kept(t, u)
    BY <2>1, <2>4, <2>5, <1>2 DEF Effect, Kept
  <2>7. QED
    BY <2>1, <2>6
<1>6. CASE Fails(t)
  <2> DEFINE u == [t EXCEPT !.end = "failed"]
  <2>1. u \in ToolState /\ u.of = t.of /\ u.does = t.does /\ u.key = t.key /\ u.file = t.file
        /\ u.dir = t.dir /\ u.end = "failed"
    BY <1>1 DEF ToolState
  <2>2. Becomes(t, u) /\ disk' = disk /\ whole' = whole
    BY <1>6 DEF Fails
  <2>3. Effect(t, u) /\ Kept(t, u)
    BY <2>1, <2>2, <1>2 DEF Effect, Kept
  <2>4. QED
    BY <2>1, <2>3
<1>7. QED
  BY <1>3, <1>4, <1>5, <1>6

LEMMA ToolsSolo ==
    ASSUME SoloInv, BuildTypeOK', OneProcess, NEW t \in Running, UNCHANGED proc,
           Opens(t) \/ Links(t) \/ Finishes(t) \/ Fails(t)
    PROVE  SoloInv'
<1> USE TypeParts
<1>1. t \in tools /\ t \in ToolState /\ t.key \in Keys /\ disk[t.key] \in DiskState
      /\ disk \in [Keys -> DiskState]
  BY DEF SoloInv, Running, Typed, ToolState
<1>2. PICK u \in ToolState :
        Effect(t, u) /\ (Kept(t, u) \/ \E f \in Files : Linked(t, u, f))
  BY EffectOfTool DEF SoloInv
<1>3. Numbered'
  <2>1. \A k \in Keys : disk'[k].tmp <= disk'[k].made
    BY <1>2 DEF SoloInv, Numbered, Effect
  <2>2. ASSUME NEW o \in tools'
        PROVE  o.dir <= disk'[o.key].made
    <3>1. CASE o = u
      BY <3>1, <1>1, <1>2 DEF SoloInv, Numbered, Effect
    <3>2. CASE o \in tools
      <4>1. o.key \in Keys
        BY <3>2 DEF SoloInv, Typed, ToolState
      <4>2. QED
        BY <3>2, <4>1, <1>2 DEF SoloInv, Numbered, Effect
    <3>3. QED
      BY <3>1, <3>2, <1>2 DEF Effect
  <2>3. QED
    BY <2>1, <2>2 DEF Numbered
<1>4. CachedIsWhole'
  BY <1>2 DEF SoloInv, CachedIsWhole, Effect, Kept, Linked
<1>5. ASSUME NEW p \in Processes
      PROVE  NoStrangers(p)' /\ Progress(p)'
  <2>1. Key(p) \in Keys /\ Key(p)' = Key(p) /\ proc'[p] = proc[p]
    BY DEF SoloInv, Typed, Key, ProcessState
  <2>2. /\ Disk(p)'.tmp = Disk(p).tmp /\ Of(p)' \subseteq (Of(p) \ {t}) \cup {u}
        /\ t.of # p => Of(p)' \subseteq Of(p) \ {t}
    BY <2>1, <1>2 DEF Disk, Effect, Of
  <2>3. NoStrangers(p)'
    <3> SUFFICES ASSUME Private(p)', NEW o \in tools', o.of # p, o.does = "make",
                        o.key = Key(p)'
                 PROVE  ~InPlace(o)'
      BY DEF NoStrangers
    <3>1. Private(p)
      BY <2>1 DEF Private
    <3>2. CASE o = u
      <4>1. ~InPlace(t) /\ t.dir = u.dir /\ t.key = u.key
        BY <3>1, <3>2, <2>1, <1>1, <1>2 DEF SoloInv, NoStrangers, Effect
      <4>2. QED
        BY <4>1, <3>2, <1>1, <1>2 DEF InPlace, Effect
    <3>3. CASE o \in tools
      <4>1. ~InPlace(o)
        BY <3>1, <3>3, <2>1 DEF SoloInv, NoStrangers
      <4>2. QED
        BY <4>1, <2>1, <1>2 DEF InPlace, Effect
    <3>4. QED
      BY <3>2, <3>3, <1>2 DEF Effect
  <2>4. CASE Kept(t, u)
    <3>1. Disk(p)'.output = Disk(p).output /\ whole \subseteq whole'
      BY <2>1, <2>4 DEF Disk, Kept
    <3>2. At(p, "make") => \A o \in Of(p)' :
            /\ Disk(p)'.output \in {None, o.file}
            /\ o.end = "ok" /\ o.file # None => o.file \in whole'
      <4> SUFFICES ASSUME At(p, "make"), NEW o \in Of(p)'
                   PROVE  /\ Disk(p)'.output \in {None, o.file}
                          /\ o.end = "ok" /\ o.file # None => o.file \in whole'
        OBVIOUS
      <4>1. CASE o \in Of(p)
        BY <4>1, <3>1 DEF SoloInv, Progress
      <4>2. CASE o = u /\ t.of = p
        <5>1. t \in Of(p)
          BY <4>2, <1>1 DEF Of
        <5>2. t.does = "make"
          BY <5>1 DEF SoloInv, WaitsForIts, Building, At
        <5>3. QED
          BY <4>2, <5>1, <5>2, <3>1, <2>4, <1>2 DEF SoloInv, Progress, Kept, Effect
      <4>3. QED
        BY <4>1, <4>2, <2>2
    <3>3. Progress(p)
      BY DEF SoloInv
    <3>4. At(p, "mkdir")' => Disk(p)'.tmp = 0
      BY <2>1, <2>2, <3>3 DEF Progress, At
    <3>5. proc'[p].at \in {"mkdir", "curl", "tar"} => Disk(p)'.output = None
      BY <2>1, <3>1, <3>3 DEF Progress
    <3>6. At(p, "install")' => Disk(p)'.output \in whole' \cup {None}
      BY <2>1, <3>1, <3>3 DEF Progress, At
    <3>7. At(p, "make")' => At(p, "make")
      BY <2>1 DEF At
    <3>8. Progress(p)'
      BY <3>2, <3>4, <3>5, <3>6, <3>7 DEF Progress
    <3>9. QED
      BY <2>3, <3>8
  <2>5. ASSUME NEW f \in Files, Linked(t, u, f)
        PROVE  Progress(p)'
    <3>1. CASE t.of = p
      <4>1. t \in Of(p)
        BY <3>1, <1>1 DEF Of
      <4>2. At(p, "make") /\ t.key = Key(p) /\ Of(p) = {t}
        BY <4>1, <2>5 DEF SoloInv, WaitsForIts, Building, At, Linked
      <4>3. Disk(p)'.output = f
        BY <2>1, <2>5, <4>2 DEF Disk, Linked
      <4>4. QED
        BY <4>2, <4>3, <2>1, <2>2, <2>5 DEF Progress, At, Linked
    <3>2. CASE t.of # p
      <4>1. Private(p) => t.key # Key(p)
        BY <3>2, <2>5, <1>1 DEF SoloInv, NoStrangers, Linked
      <4>2. Private(p) => Disk(p)'.output = Disk(p).output
        BY <4>1, <2>1, <2>5 DEF Disk, Linked
      <4>3. f # Disk(p).output /\ \A o \in Of(p) : f # o.file
        BY <2>1, <2>5 DEF Linked, Disk, Of
      <4>4. Of(p)' \subseteq Of(p) /\ whole' = whole \ {f}
        BY <3>2, <2>2, <2>5 DEF Linked
      <4>5. QED
        BY <4>2, <4>3, <4>4, <2>1, <2>2 DEF SoloInv, Progress, At, Private
    <3>3. QED
      BY <3>1, <3>2
  <2>6. QED
    BY <2>3, <2>4, <2>5, <1>2
<1>6. QED
  BY <1>3, <1>4, <1>5 DEF SoloInv
-----------------------------------------------------------------------------
(***************************************************************************)
(* The steps of the one process.                                           *)
(***************************************************************************)
\* A step that leaves the process outside of the build.
LEMMA LeavesBuild ==
    ASSUME SoloInv, BuildTypeOK', OneProcess, NEW p \in Processes, ~Private(p)',
           tools' \subseteq tools, whole' = whole,
           \A k \in Keys : /\ disk'[k].made = disk[k].made
                           /\ disk'[k].tmp \in {0, disk[k].tmp}
                           /\ disk'[k].bin \in {None, disk[k].bin} \cup whole
    PROVE  SoloInv'
<1>1. Numbered'
  <2>1. \A k \in Keys : disk[k].tmp <= disk[k].made /\ disk[k].made \in Nat
    BY TypeParts DEF SoloInv, Numbered, Typed, DiskState
  <2>2. \A k \in Keys : disk'[k].tmp <= disk'[k].made
    BY <2>1
  <2>3. \A t \in tools' : t.key \in Keys /\ t.dir <= disk'[t.key].made
    BY TypeParts DEF SoloInv, Numbered, Typed, ToolState
  <2>4. QED
    BY <2>2, <2>3 DEF Numbered
<1>2. CachedIsWhole'
  BY DEF SoloInv, CachedIsWhole
<1>3. NoStrangers(p)' /\ Progress(p)'
  BY DEF NoStrangers, Progress, Private, At
<1>4. \A q \in Processes : NoStrangers(q)' /\ Progress(q)'
  BY <1>3 DEF OneProcess
<1>5. QED
  BY <1>1, <1>2, <1>4 DEF SoloInv

LEMMA RemovesTmpSolo ==
    ASSUME SoloInv, BuildTypeOK', OneProcess, NEW p \in Processes, NEW next \in Steps,
           RemovesTmp(p, next), next \in {"mkdir", "try", "done"}, UNCHANGED <<tools, whole>>
    PROVE  SoloInv'
<1> USE TypeParts
<1>1. Disk(p) \in DiskState /\ Key(p) \in Keys /\ disk \in [Keys -> DiskState]
      /\ Disk(p) = disk[Key(p)] /\ proc \in [Processes -> ProcessState]
  BY DEF SoloInv, Disk, Key, Typed, ProcessState
<1> DEFINE d == [Emptied(Disk(p)) EXCEPT !.tmp = 0]
<1>2. d \in DiskState /\ d.made = Disk(p).made /\ d.bin = Disk(p).bin /\ d.tmp = 0
      /\ d.output = None
  BY <1>1 DEF Emptied, DiskState, Extents
<1>3. CASE Put(Key(p), d) /\ To(p, next) /\ next = "mkdir"
  <2>1. disk'[Key(p)] = d /\ \A k \in Keys \ {Key(p)} : disk'[k] = disk[k]
    BY <1>1, <1>2, <1>3, PutTyped
  <2>2. proc'[p].at = "mkdir" /\ Key(p)' = Key(p)
    BY <1>1, <1>3, ToTyped DEF Steps, Key
  <2>3. Numbered'
    <3>1. \A k \in Keys : disk[k].made \in Nat /\ disk'[k].made = disk[k].made
      BY <1>1, <1>2, <2>1 DEF DiskState
    <3>2. ASSUME NEW k \in Keys PROVE disk'[k].tmp <= disk'[k].made
      <4>1. CASE k = Key(p)
        <5>1. disk'[k].tmp = 0 /\ disk'[k].made \in Nat
          BY <4>1, <1>2, <2>1, <3>1
        <5>2. QED
          BY <5>1
      <4>2. CASE k # Key(p)
        <5>1. disk'[k] = disk[k]
          BY <4>2, <2>1
        <5>2. QED
          BY <5>1 DEF SoloInv, Numbered
      <4>3. QED
        BY <4>1, <4>2
    <3>3. \A t \in tools : t.key \in Keys
      BY DEF SoloInv, Typed, ToolState
    <3>4. QED
      BY <3>1, <3>2, <3>3 DEF SoloInv, Numbered
  <2>4. CachedIsWhole'
    BY <1>1, <1>2, <2>1 DEF SoloInv, CachedIsWhole
  <2>5. Disk(p)'.tmp = 0 /\ Disk(p)'.output = None
    BY <2>1, <2>2, <1>2 DEF Disk
  <2>6. NoStrangers(p)'
    BY <2>2, <2>5 DEF NoStrangers, InPlace, Disk
  <2>7. Progress(p)'
    BY <2>2, <2>5 DEF Progress, At
  <2>8. QED
    BY <2>3, <2>4, <2>6, <2>7 DEF SoloInv, OneProcess
<1>4. CASE Put(Key(p), d) /\ To(p, next) /\ next # "mkdir"
  <2>1. disk'[Key(p)] = d /\ \A k \in Keys \ {Key(p)} : disk'[k] = disk[k]
    BY <1>1, <1>2, <1>4, PutTyped
  <2>2. ~Private(p)'
    BY <1>1, <1>4, ToTyped DEF Private
  <2>3. QED
    BY <1>1, <1>2, <2>1, <2>2, LeavesBuild
<1>5. CASE Put(Key(p), Emptied(Disk(p))) /\ To(p, "idle")
  <2>1. /\ disk'[Key(p)] = Emptied(Disk(p))
        /\ \A k \in Keys \ {Key(p)} : disk'[k] = disk[k]
    BY <1>1, <1>5, PutTyped, EmptiedTyped
  <2>2. ~Private(p)'
    BY <1>1, <1>5, ToTyped DEF Private, Steps
  <2>3. /\ disk'[Key(p)].made = disk[Key(p)].made
        /\ disk'[Key(p)].tmp = disk[Key(p)].tmp
        /\ disk'[Key(p)].bin = disk[Key(p)].bin
    BY <1>1, <2>1 DEF Emptied, DiskState
  <2>4. \A k \in Keys : /\ disk'[k].made = disk[k].made
                        /\ disk'[k].tmp \in {0, disk[k].tmp}
                        /\ disk'[k].bin \in {None, disk[k].bin} \cup whole
    BY <2>1, <2>3
  <2>5. QED
    BY <2>2, <2>4, LeavesBuild
<1>6. QED
  BY <1>3, <1>4, <1>5 DEF RemovesTmp

\* A step that starts a tool in the private {key}.tmp.
LEMMA StartsSolo ==
    ASSUME SoloInv, BuildTypeOK', OneProcess, NEW p \in Processes, Private(p),
           NEW does \in {"curl", "tar", "make"}, NEW dir \in {0, Disk(p)'.tmp},
           Starts(p, does, dir), To(p, does), whole' = whole,
           Disk(p)'.output = None,
           \A k \in Keys \ {Key(p)} : disk'[k] = disk[k],
           disk'[Key(p)].bin = Disk(p).bin,
           \/ disk'[Key(p)].made = Disk(p).made /\ disk'[Key(p)].tmp = Disk(p).tmp
           \/ /\ disk'[Key(p)].made = Disk(p).made + 1
              /\ disk'[Key(p)].tmp = Disk(p).made + 1
    PROVE  SoloInv'
<1> USE TypeParts
<1>1. Disk(p) \in DiskState /\ Key(p) \in Keys /\ disk \in [Keys -> DiskState]
      /\ Disk(p) = disk[Key(p)] /\ proc \in [Processes -> ProcessState]
      /\ Disk(p).made \in Nat /\ Disk(p).tmp \in Nat
  BY DEF SoloInv, Disk, Key, Typed, ProcessState, DiskState
<1>2. proc'[p].at = does /\ Key(p)' = Key(p) /\ Disk(p)' = disk'[Key(p)]
  BY <1>1, ToTyped DEF Steps, Key, Disk
<1> DEFINE u == [of |-> p, does |-> does, key |-> Key(p), dir |-> dir, file |-> None,
                 end |-> "no"]
<1>3. tools' = (tools \ Of(p)) \cup {u}
  BY DEF Starts
<1>4. \A t \in tools : t.key \in Keys /\ t.dir \in Nat /\ t.dir <= disk[t.key].made
  BY DEF SoloInv, Typed, ToolState, Numbered
<1>5. Numbered'
  <2>1. \A k \in Keys : disk[k].made \in Nat /\ disk[k].tmp <= disk[k].made
    BY <1>1 DEF SoloInv, Numbered, DiskState
  <2>2. \A k \in Keys : disk'[k].tmp <= disk'[k].made /\ disk[k].made <= disk'[k].made
                        /\ disk'[k].made \in Nat
    BY <1>1, <2>1
  <2>3. \A t \in tools : t.dir <= disk'[t.key].made
    BY <1>4, <2>1, <2>2
  <2>4. u.dir <= disk'[u.key].made
    BY <1>1, <1>2, <2>2
  <2>5. QED
    BY <1>3, <2>2, <2>3, <2>4 DEF Numbered
<1>6. CachedIsWhole'
  BY <1>1 DEF SoloInv, CachedIsWhole
<1>7. NoStrangers(p)'
  <2> SUFFICES ASSUME NEW t \in tools', t.of # p, t.does = "make", t.key = Key(p)
               PROVE  t.dir = 0 \/ t.dir # disk'[Key(p)].tmp
    BY <1>2 DEF NoStrangers, InPlace
  <2>1. t \in tools
    BY <1>3
  <2>2. t.dir = 0 \/ t.dir # Disk(p).tmp
    BY <2>1, <1>1 DEF SoloInv, NoStrangers, InPlace
  <2>3. t.dir # Disk(p).made + 1
    BY <2>1, <1>1, <1>4
  <2>4. QED
    BY <2>2, <2>3
<1>8. Of(p)' = {u}
  BY <1>3 DEF Of
<1>9. Progress(p)'
  BY <1>2, <1>8 DEF Progress, At
<1>10. QED
  BY <1>5, <1>6, <1>7, <1>9 DEF SoloInv, OneProcess

LEMMA StepSolo ==
    ASSUME SoloInv, OneProcess, NEW p \in Processes, Step(p)
    PROVE  SoloInv'
<1> USE TypeParts
<1>1. Disk(p) \in DiskState /\ Key(p) \in Keys /\ disk \in [Keys -> DiskState]
      /\ Disk(p) = disk[Key(p)] /\ proc \in [Processes -> ProcessState]
  BY DEF SoloInv, Disk, Key, Typed, ProcessState
<1>2. BuildTypeOK'
  BY StepTyped DEF SoloInv
<1>3. Progress(p) /\ NoStrangers(p)
  BY DEF SoloInv
<1>4. ASSUME NEW k \in Keys, Ask(p, k)
      PROVE  SoloInv'
  <2>1. proc'[p].at \in {"clear", "probe", "try", "done"}
    <3>1. CASE disk[k].bin = None
      BY <3>1, <1>4, <1>1 DEF Ask
    <3>2. CASE disk[k].bin # None /\ k \in Probed
      BY <3>2, <1>4, <1>1, BuildConstants DEF Ask
    <3>3. CASE disk[k].bin # None /\ k \in Benched
      BY <3>3, <1>4, <1>1, BuildConstants DEF Ask
    <3>4. CASE disk[k].bin # None /\ k \notin Probed /\ k \notin Benched
      BY <3>4, <1>4, <1>1 DEF Ask
    <3>5. QED
      BY <3>1, <3>2, <3>3, <3>4
  <2>2. QED
    BY <2>1, <1>2, <1>4, LeavesBuild DEF Ask, Private
<1>5. CASE Probe(p) \/ Try(p) \/ Return(p)
  <2>1. PICK s \in {"done", "purge", "idle"} : To(p, s)
    BY <1>5 DEF Probe, Try, Return, Runs
  <2>2. ~Private(p)'
    BY <2>1, <1>1, ToTyped DEF Private, Steps
  <2>3. QED
    BY <2>2, <1>2, <1>5, LeavesBuild DEF Probe, Try, Return
<1>6. CASE Purge(p)
  <2> DEFINE d == [Disk(p) EXCEPT !.bin = None]
  <2>1. d \in DiskState /\ d.made = Disk(p).made /\ d.tmp = Disk(p).tmp /\ d.bin = None
    BY <1>1 DEF DiskState
  <2>2. disk'[Key(p)] = d /\ \A k \in Keys \ {Key(p)} : disk'[k] = disk[k]
    BY <2>1, <1>1, <1>6, PutTyped DEF Purge
  <2>3. ~Private(p)'
    BY <1>6, <1>1, ToTyped DEF Private, Steps, Purge
  <2>4. QED
    BY <2>1, <2>2, <2>3, <1>1, <1>2, <1>6, LeavesBuild DEF Purge
<1>7. CASE Clear(p)
  BY <1>2, <1>7, RemovesTmpSolo DEF Clear, Steps
<1>8. CASE Tidy(p)
  BY <1>2, <1>8, RemovesTmpSolo DEF Tidy, Steps
<1>9. CASE Mkdir(p)
  <2> DEFINE d == [Disk(p) EXCEPT !.tmp = Disk(p).made + 1, !.made = Disk(p).made + 1]
  <2>1. Disk(p).tmp = 0 /\ Disk(p).output = None /\ Private(p)
    BY <1>3, <1>9 DEF Mkdir, Progress, At, Private
  <2>2. d.made = Disk(p).made + 1 /\ d.tmp = Disk(p).made + 1 /\ d.bin = Disk(p).bin
        /\ d.output = None
    BY <1>1, <2>1 DEF DiskState
  <2>3. disk' = [disk EXCEPT ![Key(p)] = d]
    BY <1>9, <2>1 DEF Mkdir, Put
  <2>4. disk'[Key(p)] = d /\ \A k \in Keys \ {Key(p)} : disk'[k] = disk[k]
    BY <2>3, <1>1
  <2>5. To(p, "curl") /\ Starts(p, "curl", 0) /\ whole' = whole
    BY <1>9 DEF Mkdir
  <2>6. Disk(p)' = d
    BY <2>4, <2>5, <1>1, ToTyped DEF Disk, Key, Steps
  <2>7. QED
    BY <2>1, <2>2, <2>4, <2>5, <2>6, <1>2, StartsSolo
<1>10. CASE Downloaded(p)
  <2> DEFINE d == IF Disk(p).tmp = 0 THEN Disk(p) ELSE [Disk(p) EXCEPT !.source = "part"]
  <2>1. Disk(p).output = None /\ Private(p)
    BY <1>3, <1>10 DEF Downloaded, Progress, At, Private
  <2>2. d.made = Disk(p).made /\ d.tmp = Disk(p).tmp /\ d.bin = Disk(p).bin
        /\ d.output = None /\ d \in DiskState
    BY <1>1, <2>1 DEF DiskState, Extents
  <2>3. disk'[Key(p)] = d /\ \A k \in Keys \ {Key(p)} : disk'[k] = disk[k]
    BY <2>2, <1>1, <1>10, PutTyped DEF Downloaded
  <2>4. To(p, "tar") /\ Starts(p, "tar", Disk(p).tmp) /\ whole' = whole
    BY <1>10 DEF Downloaded
  <2>5. Disk(p)' = d
    BY <2>3, <2>4, <1>1, ToTyped DEF Disk, Key, Steps
  <2>6. QED
    BY <2>1, <2>2, <2>3, <2>4, <2>5, <1>2, StartsSolo
<1>11. CASE Unpacked(p)
  <2>1. Disk(p).output = None /\ Private(p)
    BY <1>3, <1>11 DEF Unpacked, Progress, At, Private
  <2>2. To(p, "make") /\ Starts(p, "make", Disk(p).tmp) /\ whole' = whole /\ disk' = disk
    BY <1>11 DEF Unpacked
  <2>3. Disk(p)' = Disk(p)
    BY <2>2, <1>1, ToTyped DEF Disk, Key, Steps
  <2>4. QED
    BY <2>1, <2>2, <2>3, <1>1, <1>2, StartsSolo
<1>12. CASE GivesUp(p)
  <2>1. ~Private(p)'
    BY <1>12, <1>1, ToTyped DEF Private, Steps, GivesUp
  <2>2. QED
    BY <2>1, <1>2, <1>12, LeavesBuild DEF GivesUp
<1>13. CASE Compiled(p) /\ Disk(p).output = None
  <2>1. ~Private(p)'
    BY <1>13, <1>1, ToTyped DEF Private, Steps, Compiled
  <2>2. QED
    BY <2>1, <1>2, <1>13, LeavesBuild DEF Compiled
<1>14. CASE Compiled(p) /\ Disk(p).output # None
  <2>1. Disk(p).output \in whole
    BY <1>3, <1>14 DEF Progress, Compiled
  <2>2. To(p, "install") /\ tools' = tools \ Of(p) /\ UNCHANGED <<disk, whole>>
    BY <1>14 DEF Compiled
  <2>3. proc'[p].at = "install" /\ Key(p)' = Key(p) /\ Disk(p)' = Disk(p)
    BY <2>2, <1>1, ToTyped DEF Disk, Key, Steps
  <2>4. Numbered' /\ CachedIsWhole'
    BY <2>2 DEF SoloInv, Numbered, CachedIsWhole
  <2>5. NoStrangers(p)'
    BY <2>2, <2>3, <1>3, <1>14 DEF NoStrangers, InPlace, Private, Compiled, At
  <2>6. Progress(p)'
    BY <2>1, <2>2, <2>3 DEF Progress, At
  <2>7. QED
    BY <1>2, <2>4, <2>5, <2>6 DEF SoloInv, OneProcess
<1>15. CASE Install(p) /\ Disk(p).output = None
  <2>1. ~Private(p)'
    BY <1>15, <1>1, ToTyped DEF Private, Steps, Install
  <2>2. QED
    BY <2>1, <1>2, <1>15, LeavesBuild DEF Install
<1>16. CASE Install(p) /\ Disk(p).output # None
  <2> DEFINE d == [Disk(p) EXCEPT !.bin = Disk(p).output, !.output = None]
  <2>1. d \in DiskState /\ d.made = Disk(p).made /\ d.tmp = Disk(p).tmp
        /\ d.bin = Disk(p).output
    BY <1>1 DEF DiskState
  <2>2. disk'[Key(p)] = d /\ \A k \in Keys \ {Key(p)} : disk'[k] = disk[k]
    BY <2>1, <1>1, <1>16, PutTyped DEF Install
  <2>3. Disk(p).output \in whole
    BY <1>3, <1>16 DEF Progress, Install
  <2>4. ~Private(p)'
    BY <1>16, <1>1, ToTyped DEF Private, Steps, Install
  <2>5. QED
    BY <2>1, <2>2, <2>3, <2>4, <1>1, <1>2, <1>16, LeavesBuild DEF Install
<1>17. QED
  BY <1>4, <1>5, <1>6, <1>7, <1>8, <1>9, <1>10, <1>11, <1>12, <1>13, <1>14, <1>15, <1>16
  DEF Step

LEMMA CrashSolo ==
    ASSUME SoloInv, OneProcess, NEW p \in Processes, Crash(p)
    PROVE  SoloInv'
<1> USE TypeParts
<1>1. BuildTypeOK'
  BY CrashTyped DEF SoloInv
<1>2. proc \in [Processes -> ProcessState] /\ proc'[p].at = "idle"
  BY ToTyped DEF SoloInv, Typed, Crash, Steps
<1>3. \A t \in tools' : \E o \in tools : t.dir = o.dir /\ t.key = o.key
  <2>1. ASSUME NEW t \in tools', t \notin tools
        PROVE  \E o \in tools : t.dir = o.dir /\ t.key = o.key
    <3>1. PICK o \in Of(p) \cap Running : t = [o EXCEPT !.of = crashes + 1]
      BY <2>1 DEF Crash
    <3>2. o \in tools /\ o \in ToolState
      BY DEF SoloInv, Typed, Of
    <3>3. QED
      BY <3>1, <3>2 DEF ToolState
  <2>2. QED
    BY <2>1
<1>4. Numbered'
  BY <1>3 DEF SoloInv, Numbered, Crash
<1>5. CachedIsWhole'
  BY DEF SoloInv, CachedIsWhole, Crash
<1>6. NoStrangers(p)' /\ Progress(p)'
  BY <1>2 DEF NoStrangers, Progress, Private, At
<1>7. QED
  BY <1>1, <1>4, <1>5, <1>6 DEF SoloInv, OneProcess

LEMMA InitSolo == Init => SoloInv
<1> SUFFICES ASSUME Init PROVE SoloInv
  OBVIOUS
<1>1. BuildTypeOK
  BY InitTyped
<1>2. Numbered /\ CachedIsWhole
  BY DEF Init, Numbered, CachedIsWhole
<1>3. ASSUME NEW p \in Processes
      PROVE  NoStrangers(p) /\ Progress(p)
  <2>1. proc[p].at = "idle"
    BY DEF Init
  <2>2. QED
    BY <2>1 DEF NoStrangers, Progress, Private, At
<1>4. QED
  BY <1>1, <1>2, <1>3 DEF SoloInv

LEMMA NextSolo == OneProcess => (SoloInv /\ [Next]_vars => SoloInv')
<1> SUFFICES ASSUME OneProcess, SoloInv, [Next]_vars PROVE SoloInv'
  OBVIOUS
<1>1. CASE ToolStep
  <2>1. BuildTypeOK'
    BY NextTyped, <1>1 DEF SoloInv
  <2>2. QED
    BY <1>1, <2>1, ToolsSolo DEF ToolStep
<1>2. ASSUME NEW p \in Processes, Step(p) \/ Crash(p)
      PROVE  SoloInv'
  BY <1>2, StepSolo, CrashSolo
<1>3. CASE UNCHANGED vars
  <2>1. BuildTypeOK'
    BY NextTyped, <1>3 DEF SoloInv
  <2>2. QED
    BY <2>1, <1>3 DEF vars, SoloInv, Numbered, CachedIsWhole, NoStrangers, Progress, Private,
                      InPlace, At, Of, Key, Disk
<1>4. QED
  BY <1>1, <1>2, <1>3 DEF Next

\* When one process at a time uses a work directory, no sequence of failed
\* tools, deaths and left-over tools puts a binary in the cache that is not
\* linked to its end (the order of build_engine: clear, build aside, rename).
THEOREM CacheHoldsWholeBinaries ==
    ASSUME OneProcess
    PROVE  Spec => []CachedIsWhole
<1>1. SoloInv => CachedIsWhole
  BY DEF SoloInv
<1>2. SoloInv /\ [Next]_vars => SoloInv'
  BY NextSolo
<1>3. QED
  BY <1>1, <1>2, InitSolo, PTL DEF Spec
=============================================================================
