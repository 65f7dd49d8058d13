------------------------------- MODULE Ghidra -------------------------------
(***************************************************************************)
(* Ghidra runs of one firmware, with the local compute backend.  Callers   *)
(* are coroutines of several processes (the backend, one MCP server per    *)
(* client, detached workers).  What they share:                            *)
(*  - one lock file per binary;                                            *)
(*  - per process, a table of the analyses under way, whose entry makes    *)
(*    later callers followers of the first;                                *)
(*  - per plain binary, a persistent project on disk, counted as usable    *)
(*    only with its marker file, in a store that evicts the least recently *)
(*    used projects;                                                       *)
(*  - per Ghidra archive (GZF), a project that the first script restores   *)
(*    under a lock file of its own (the gate) and scripts then change,     *)
(*    with a revision counter beside it;                                   *)
(*  - the cached analysis of each binary, stamped for archives with the    *)
(*    revision.                                                            *)
(*                                                                         *)
(* Names inside an archive's project are a version number.  The lock file  *)
(* is opened anew by every acquisition, so a caller that holds the lock    *)
(* and acquires it again waits for itself.                                 *)
(***************************************************************************)
EXTENDS Integers, FiniteSets

CONSTANTS Caller, Process, Plain, Gzf, None,
          ProcOf,     \* the process of each caller
          Uses,       \* bound: what each caller may ask for, of which binary
          Cap,        \* settings.ghidra_project_cache_max
          MaxRename,  \* bound: scripts that change a project
          MaxFault    \* bound: crashes and failed calls per behaviour

Binary == Plain \cup Gzf

ASSUME ConstAssumption ==
    /\ ProcOf \in [Caller -> Process]
    /\ Uses \in [Caller -> SUBSET ({"ensure", "worker", "script"} \X Binary)]
    /\ None \notin Caller \cup Binary
    /\ Plain \cap Gzf = {}
    /\ Cap \in Nat /\ MaxRename \in Nat /\ MaxFault \in Nat

VARIABLES pc, bin,      \* where each caller is, and the binary it works on
          lock, gate,   \* holder of each lock file
          leader,       \* table of analyses of each process
          dir, older,   \* state of each project (an archive's counts as "ready"
                        \* with its directory); order of the markers' times
          names, rev,   \* version of each archive's project, and its counter
          cache,        \* the cached analysis of each binary
          saw, stamp,   \* the version and the counter that a caller has read
          routed,       \* callers of ensure_analysis that found a restored project
          lost,         \* entries of the tables that nobody will remove
          raced,        \* history: archives changed unnoticed by an analysis
          faults        \* history: number of crashes and failed calls

control == <<pc, bin, lock, leader>>
store   == <<dir, older>>
project == <<gate, names, rev, raced>>
read    == <<saw, stamp, routed>>
vars    == <<control, store, project, cache, read, lost, faults>>

PC == {"idle", "missed", "follow", "outer", "recheck", "inner", "import",
       "process", "run", "commit", "gate", "restore", "script", "bump", "clear"}

Analysis == [seen : 0 .. MaxRename, stamp : 0 .. MaxRename]
NoAnalysis == [seen |-> -1, stamp |-> -1]

Goto(c, l) == pc' = [pc EXCEPT ![c] = l]

\* The calls in S are over.
Over(S) == /\ pc' = [c \in Caller |-> IF c \in S THEN "idle" ELSE pc[c]]
           /\ bin' = [c \in Caller |-> IF c \in S THEN None ELSE bin[c]]
           /\ saw' = [c \in Caller |-> IF c \in S THEN 0 ELSE saw[c]]
           /\ stamp' = [c \in Caller |-> IF c \in S THEN 0 ELSE stamp[c]]
           /\ routed' = routed \ S

Fault == /\ faults < MaxFault
         /\ faults' = faults + 1

-----------------------------------------------------------------------------
Init == /\ pc = [c \in Caller |-> "idle"]
        /\ bin = [c \in Caller |-> None]
        /\ lock = [b \in Binary |-> None]
        /\ leader = [p \in Process |-> [b \in Binary |-> None]]
        /\ gate = [b \in Gzf |-> None]
        /\ dir = [b \in Binary |-> "absent"] /\ older = {}
        /\ names = [b \in Gzf |-> 0] /\ rev = [b \in Gzf |-> 0]
        /\ cache = [b \in Binary |-> NoAnalysis]
        /\ saw = [c \in Caller |-> 0] /\ stamp = [c \in Caller |-> 0]
        /\ routed = {} /\ lost = {} /\ raced = {} /\ faults = 0

-----------------------------------------------------------------------------
(* ensure_analysis *)

\* The archive has a project on disk, complete or not.
Restored(b) == b \in Gzf /\ dir[b] = "ready"

\* An archive was changed after its analysis was cached.
Stale(b) == Restored(b) /\ cache[b] # NoAnalysis /\ cache[b].stamp # rev[b]

\* There is no analysis to return, or a stale one, which is dropped.
EnsureMiss(c, b) ==
    /\ pc[c] = "idle"
    /\ cache[b] = NoAnalysis \/ Stale(b)
    /\ cache' = [cache EXCEPT ![b] = NoAnalysis]
    /\ routed' = IF Restored(b) THEN routed \cup {c} ELSE routed
    /\ bin' = [bin EXCEPT ![c] = b]
    /\ Goto(c, "missed")
    /\ UNCHANGED <<lock, leader, store, project, saw, stamp, lost, faults>>

\* The first coroutine of a process leads.
Lead(c) ==
    LET p == ProcOf[c] IN
    /\ pc[c] = "missed"
    /\ IF leader[p][bin[c]] = None
       THEN leader' = [leader EXCEPT ![p][bin[c]] = c] /\ Goto(c, "outer")
       ELSE UNCHANGED leader /\ Goto(c, "follow")
    /\ UNCHANGED <<bin, lock, store, project, cache, read, lost, faults>>

\* start_binary_analysis hands the analysis to a worker, which neither leads nor
\* follows; on demand it drops the cached one first.
Worker(c, b, force) ==
    /\ pc[c] = "idle"
    /\ force \/ cache[b] = NoAnalysis
    /\ cache' = [cache EXCEPT ![b] = NoAnalysis]
    /\ bin' = [bin EXCEPT ![c] = b]
    /\ Goto(c, "outer")
    /\ UNCHANGED <<lock, leader, store, project, read, lost, faults>>

AcquireOuter(c) ==
    /\ pc[c] = "outer"
    /\ lock[bin[c]] = None
    /\ lock' = [lock EXCEPT ![bin[c]] = c]
    /\ Goto(c, "recheck")
    /\ UNCHANGED <<bin, leader, store, project, cache, read, lost, faults>>

\* The call made the entry in the table, and is to remove it.
Leads(c) == /\ leader[ProcOf[c]][bin[c]] = c
            /\ <<ProcOf[c], bin[c]>> \notin lost

\* Resolving the import parameters raises before the leader waits for the lock,
\* outside the "try" whose "finally" ends the leadership.
PrepareFails(c) ==
    /\ Fault
    /\ pc[c] = "outer"
    /\ Leads(c)
    /\ lost' = lost \cup {<<ProcOf[c], bin[c]>>}
    /\ Over({c})
    /\ UNCHANGED <<lock, leader, store, project, cache>>

Followers(c) ==
    {d \in Caller : /\ Leads(c) /\ pc[d] = "follow"
                    /\ bin[d] = bin[c] /\ ProcOf[d] = ProcOf[c]}

\* The lock is released, the entry removed and its followers woken.
Return(c) ==
    /\ lock' = [lock EXCEPT ![bin[c]] = IF @ = c THEN None ELSE @]
    /\ leader' = [leader EXCEPT ![ProcOf[c]][bin[c]] = IF Leads(c) THEN None ELSE @]
    /\ Over({c} \cup Followers(c))

\* Another process has finished meanwhile.
RecheckHit(c) ==
    /\ pc[c] = "recheck"
    /\ cache[bin[c]] # NoAnalysis
    /\ Return(c)
    /\ UNCHANGED <<store, project, cache, lost, faults>>

\* ensure_analysis looked for a restored project at its start, a worker looks now.
InProcessMode(c) == IF Leads(c) THEN c \in routed ELSE Restored(bin[c])

\* Ghidra analyses the archive's project as it is; a plain binary, or an archive
\* without a project, goes the way of every script, through the lock.
Analyse(c) ==
    /\ pc[c] = "recheck"
    /\ cache[bin[c]] = NoAnalysis
    /\ IF InProcessMode(c)
       THEN saw' = [saw EXCEPT ![c] = names[bin[c]]] /\ Goto(c, "run")
       ELSE saw' = saw /\ Goto(c, "inner")
    /\ UNCHANGED <<bin, lock, leader, store, project, cache, stamp, routed, lost, faults>>

\* Ghidra is done; the results are being stored when the revision is read.
RunEnds(c) ==
    /\ pc[c] = "run"
    /\ stamp' = [stamp EXCEPT ![c] = rev[bin[c]]]
    /\ Goto(c, "commit")
    /\ UNCHANGED <<bin, lock, leader, store, project, cache, saw, routed, lost, faults>>

Commit(c) ==
    /\ pc[c] = "commit"
    /\ cache' = [cache EXCEPT ![bin[c]] = [seen |-> saw[c], stamp |-> stamp[c]]]
    /\ Return(c)
    /\ UNCHANGED <<store, project, lost, faults>>

\* Mutant: a failed run is tried again.
MutRunFails(c) ==
    /\ pc[c] \in {"run", "commit"}
    /\ Goto(c, "recheck")
    /\ UNCHANGED <<bin, lock, leader, store, project, cache, read, lost, faults>>

RunFails(c) ==
    /\ pc[c] \in {"run", "commit"}
    /\ Return(c)
    /\ UNCHANGED <<store, project, cache, lost, faults>>

-----------------------------------------------------------------------------
(* Scripts on plain binaries: _run_ghidra_local *)

Script(c, b) ==
    /\ pc[c] = "idle"
    /\ bin' = [bin EXCEPT ![c] = b]
    /\ Goto(c, "inner")
    /\ UNCHANGED <<lock, leader, store, project, cache, read, lost, faults>>

\* Projects that have their marker.
Marked == {b \in Plain : dir[b] = "ready"}

\* The marker's time is set to now.
Touch(b) == {p \in older : p[1] # b /\ p[2] # b} \cup ((Marked \ {b}) \X {b})

\* Mutant: a script that finds its project ready does not wait.
MutAcquireInner(c) ==
    LET b == bin[c] IN
    /\ pc[c] = "inner"
    /\ lock[b] = None \/ dir[b] = "ready"
    /\ lock' = [lock EXCEPT ![b] = c]
    /\ IF dir[b] = "ready"
       THEN older' = Touch(b) /\ dir' = dir /\ Goto(c, "process")
       ELSE older' = older /\ dir' = [dir EXCEPT ![b] = "partial"] /\ Goto(c, "import")
    /\ UNCHANGED <<bin, leader, project, cache, read, lost, faults>>

\* A project without its marker is thrown away and imported again.
AcquireInner(c) ==
    LET b == bin[c] IN
    /\ pc[c] = "inner"
    /\ lock[b] = None
    /\ lock' = [lock EXCEPT ![b] = c]
    /\ IF dir[b] = "ready"
       THEN older' = Touch(b) /\ dir' = dir /\ Goto(c, "process")
       ELSE older' = older /\ dir' = [dir EXCEPT ![b] = "partial"] /\ Goto(c, "import")
    /\ UNCHANGED <<bin, leader, project, cache, read, lost, faults>>

\* Mutant: projects in use are evicted too.
MutEvicted(P, times) ==
    {b \in P : Cap # 0 /\ Cardinality({x \in P : <<b, x>> \in times}) >= Cap}

\* The projects of P that the store gives up: those beyond its capacity, oldest
\* first, whose lock is free.
Evicted(P, times) ==
    {b \in P : /\ Cap # 0 /\ Cardinality({x \in P : <<b, x>> \in times}) >= Cap
               /\ lock[b] = None}

\* The marker is written and the store pruned.
ImportEnds(c) ==
    LET gone == Evicted(Marked \cup {bin[c]}, Touch(bin[c])) IN
    /\ pc[c] = "import"
    /\ dir' = [b \in Binary |-> IF b \in gone THEN "absent"
                                ELSE IF b = bin[c] THEN "ready" ELSE dir[b]]
    /\ older' = {p \in Touch(bin[c]) : p[1] \notin gone /\ p[2] \notin gone}
    /\ Goto(c, "process")
    /\ UNCHANGED <<bin, lock, leader, project, cache, read, lost, faults>>

\* Mutant: the lock is kept.
MutImportFails(c) ==
    /\ pc[c] = "import"
    /\ dir' = [dir EXCEPT ![bin[c]] = "absent"]
    /\ Over({c})
    /\ UNCHANGED <<lock, leader, older, project, cache, lost, faults>>

ImportFails(c) ==
    /\ pc[c] = "import"
    /\ dir' = [dir EXCEPT ![bin[c]] = "absent"]
    /\ Return(c)
    /\ UNCHANGED <<older, project, cache, lost, faults>>

ProcessEnds(c) ==
    /\ pc[c] = "process"
    /\ Return(c)
    /\ UNCHANGED <<store, project, cache, lost, faults>>

-----------------------------------------------------------------------------
(* Scripts that change an archive's project: _run_gzf_process_mode *)

GzfScript(c, b) ==
    /\ pc[c] = "idle"
    /\ bin' = [bin EXCEPT ![c] = b]
    /\ Goto(c, "gate")
    /\ UNCHANGED <<lock, leader, store, project, cache, read, lost, faults>>

\* Whoever finds no project keeps the gate and restores it from the archive.
AcquireGate(c) ==
    LET b == bin[c] IN
    /\ pc[c] = "gate"
    /\ gate[b] = None
    /\ IF Restored(b) THEN gate' = gate /\ Goto(c, "script")
                      ELSE gate' = [gate EXCEPT ![b] = c] /\ Goto(c, "restore")
    /\ UNCHANGED <<bin, lock, leader, store, names, rev, raced, cache, read, lost, faults>>

OpenGate(c) == gate' = [gate EXCEPT ![bin[c]] = None]

\* Ghidra makes the project's directory.
RestoreBegins(c) ==
    /\ pc[c] = "restore"
    /\ dir[bin[c]] = "absent"
    /\ dir' = [dir EXCEPT ![bin[c]] = "ready"]
    /\ UNCHANGED <<control, older, project, cache, read, lost, faults>>

\* Ghidra ends, with whatever exit code, and the directory is there.
RestoreEnds(c) ==
    /\ pc[c] = "restore"
    /\ Restored(bin[c])
    /\ OpenGate(c)
    /\ Goto(c, "script")
    /\ UNCHANGED <<bin, lock, leader, store, names, rev, raced, cache, read, lost, faults>>

\* Ghidra is killed by the time-out, is not installed or made no directory.
RestoreStops(c) ==
    /\ pc[c] = "restore"
    /\ OpenGate(c)
    /\ Over({c})
    /\ UNCHANGED <<lock, leader, store, names, rev, raced, cache, lost, faults>>

\* Ghidra saves the project; the counter is read in order to increase it.
GzfSaves(c) ==
    /\ pc[c] = "script"
    /\ names[bin[c]] < MaxRename
    /\ names' = [names EXCEPT ![bin[c]] = @ + 1]
    /\ stamp' = [stamp EXCEPT ![c] = rev[bin[c]]]
    /\ Goto(c, "bump")
    /\ UNCHANGED <<bin, lock, leader, store, gate, rev, raced, cache, saw, routed, lost, faults>>

\* The script ends with an error, or is killed by the time-out, before or after
\* Ghidra saves the project; the counter stays as it is.
GzfFails(c) ==
    /\ pc[c] = "script"
    /\ \/ UNCHANGED <<names, raced>>
       \/ /\ names[bin[c]] < MaxRename
          /\ names' = [names EXCEPT ![bin[c]] = @ + 1]
          /\ raced' = raced \cup {bin[c]}
    /\ Over({c})
    /\ UNCHANGED <<lock, leader, store, gate, rev, cache, lost, faults>>

\* An analysis that read the project before it was saved is still running and
\* will be stamped with the new revision, or another script's increment is lost.
Unnoticed(c) ==
    \/ \E d \in Caller : pc[d] = "run" /\ bin[d] = bin[c] /\ saw[d] # names[bin[c]]
    \/ rev[bin[c]] # stamp[c]

\* Mutant: the counter is left as it is.
MutGzfBump(c) ==
    /\ pc[c] = "bump"
    /\ raced' = IF Unnoticed(c) THEN raced \cup {bin[c]} ELSE raced
    /\ Goto(c, "clear")
    /\ UNCHANGED <<bin, lock, leader, store, gate, names, rev, cache, read, lost, faults>>

GzfBump(c) ==
    /\ pc[c] = "bump"
    /\ rev' = [rev EXCEPT ![bin[c]] = stamp[c] + 1]
    /\ raced' = IF Unnoticed(c) THEN raced \cup {bin[c]} ELSE raced
    /\ Goto(c, "clear")
    /\ UNCHANGED <<bin, lock, leader, store, gate, names, cache, read, lost, faults>>

GzfClear(c) ==
    /\ pc[c] = "clear"
    /\ cache' = [cache EXCEPT ![bin[c]] = NoAnalysis]
    /\ Over({c})
    /\ UNCHANGED <<lock, leader, store, project, lost, faults>>

\* Writing the counter or clearing the cache fails and is only logged.
GzfLost(c) ==
    /\ Fault
    /\ pc[c] \in {"bump", "clear"}
    /\ Over({c})
    /\ UNCHANGED <<lock, leader, store, project, cache, lost>>

-----------------------------------------------------------------------------
(* The world *)

\* A process dies: its lock files are closed and its table is gone.  (A Ghidra
\* process it had started goes on without a lock; the model does not follow it.)
Crash(p) ==
    LET dead == {c \in Caller : ProcOf[c] = p} IN
    /\ Fault
    /\ Over(dead)
    /\ lock' = [b \in Binary |-> IF lock[b] \in dead THEN None ELSE lock[b]]
    /\ gate' = [b \in Gzf |-> IF gate[b] \in dead THEN None ELSE gate[b]]
    /\ leader' = [leader EXCEPT ![p] = [b \in Binary |-> None]]
    /\ lost' = {e \in lost : e[1] # p}
    /\ UNCHANGED <<store, names, rev, raced, cache>>

-----------------------------------------------------------------------------
Acquire(c) == AcquireOuter(c) \/ AcquireInner(c) \/ AcquireGate(c)

CallStep(c) ==
    \/ Lead(c) \/ RecheckHit(c) \/ Analyse(c) \/ RunEnds(c) \/ Commit(c)
    \/ RunFails(c) \/ ImportEnds(c) \/ ImportFails(c) \/ ProcessEnds(c)
    \/ RestoreBegins(c) \/ RestoreEnds(c) \/ RestoreStops(c)
    \/ GzfSaves(c) \/ GzfFails(c) \/ GzfBump(c) \/ GzfClear(c)

Begin(c) ==
    \E b \in Binary :
        \/ <<"ensure", b>> \in Uses[c] /\ EnsureMiss(c, b)
        \/ <<"worker", b>> \in Uses[c] /\ \E force \in BOOLEAN : Worker(c, b, force)
        \/ <<"script", b>> \in Uses[c] /\ IF b \in Gzf THEN GzfScript(c, b) ELSE Script(c, b)

Next == \/ \E c \in Caller : \/ Begin(c) \/ Acquire(c) \/ CallStep(c)
                             \/ PrepareFails(c) \/ GzfLost(c)
        \/ \E p \in Process : Crash(p)

Spec == Init /\ [][Next]_vars

\* A call goes on, Ghidra ends or is killed by its timeout, and the kernel hands a
\* lock that is free again and again to each of those that wait.
Fairness == \A c \in Caller : WF_vars(CallStep(c)) /\ SF_vars(Acquire(c))
FairSpec == Spec /\ Fairness

-----------------------------------------------------------------------------
(* Properties *)

\* Every variable keeps its type; no revision that is read or stamped runs ahead
\* of the scripts that were run.
TypeOK ==
    /\ pc \in [Caller -> PC]
    /\ bin \in [Caller -> Binary \cup {None}]
    /\ lock \in [Binary -> Caller \cup {None}] /\ gate \in [Gzf -> Caller \cup {None}]
    /\ leader \in [Process -> [Binary -> Caller \cup {None}]]
    /\ dir \in [Binary -> {"absent", "partial", "ready"}]
    /\ older \subseteq Plain \X Plain
    /\ names \in [Gzf -> 0 .. MaxRename] /\ rev \in [Gzf -> 0 .. MaxRename]
    /\ cache \in [Binary -> Analysis \cup {NoAnalysis}]
    /\ saw \in [Caller -> 0 .. MaxRename] /\ stamp \in [Caller -> 0 .. MaxRename]
    /\ routed \subseteq Caller
    /\ lost \subseteq Process \X Binary /\ raced \subseteq Gzf
    /\ faults \in 0 .. MaxFault

\* "a local Ghidra project allows only one headless process at a time": no two
\* callers run Ghidra on the project of a plain binary, whichever process they are
\* in.  On an archive's project, the gate keeps two restores, or a restore and a
\* script, apart and the lock two analyses; a script runs beside other scripts and
\* beside an analysis, and an analysis beside a restore, for want of a common lock.
Running(c) == pc[c] \in {"import", "process", "run", "restore", "script"}
Together == {{"script"}, {"script", "run"}, {"restore", "run"}}
OneHeadless ==
    \A c, d \in Caller :
        (Running(c) /\ Running(d) /\ bin[c] = bin[d] /\ c # d) =>
            bin[c] \in Gzf /\ {pc[c], pc[d]} \in Together

\* A script runs on a project that is there, and on a plain binary's complete one:
\* no eviction, failed import or restore or crash of another caller takes it away.
ScriptHasProject ==
    \A c \in Caller : /\ pc[c] \in {"process", "run", "script"} => dir[bin[c]] = "ready"
                      /\ pc[c] = "import" => dir[bin[c]] = "partial"

\* A cached analysis that carries the current revision shows the current names,
\* unless the script that changed them has not yet counted, or an analysis did
\* not notice it, or a process died in between.
FreshUnlessRaced ==
    \A b \in Gzf :
        (cache[b] # NoAnalysis /\ cache[b].stamp = rev[b]) =>
            \/ cache[b].seen = names[b]
            \/ \E c \in Caller : pc[c] = "bump" /\ bin[c] = b
            \/ b \in raced
            \/ faults > 0

\* Whoever waits, waits for a call that is under way: the leader of a follower,
\* unless it left its entry behind, and the holder of a lock or gate.  No call
\* that ended, failed or died with its process keeps a lock or its followers.
AtWork == {"recheck", "inner", "run", "commit", "import", "process"}
WaitHasHolder ==
    \A c \in Caller :
        /\ pc[c] = "follow" =>
               \/ <<ProcOf[c], bin[c]>> \in lost
               \/ \E d \in Caller : /\ leader[ProcOf[c]][bin[c]] = d
                                     /\ ProcOf[d] = ProcOf[c] /\ bin[d] = bin[c]
                                     /\ pc[d] \in {"outer"} \cup AtWork
        /\ pc[c] \in {"outer", "inner"} =>
               \/ lock[bin[c]] = None
               \/ \E d \in Caller : /\ lock[bin[c]] = d /\ bin[d] = bin[c]
                                     /\ pc[d] \in AtWork
        /\ pc[c] = "gate" =>
               \/ gate[bin[c]] = None
               \/ \E d \in Caller : /\ gate[bin[c]] = d /\ bin[d] = bin[c]
                                     /\ pc[d] = "restore"

\* A caller that holds a lock and waits for it.
SelfLocked(b) == \E c \in Caller : pc[c] = "inner" /\ bin[c] = b /\ lock[b] = c

\* Every call ends, and followers with it, unless an analysis of the same binary
\* waits for its own lock or a leader left its entry behind.
CallEnds ==
    \A c \in Caller :
        []<>(pc[c] = "idle" \/ SelfLocked(bin[c]) \/ <<ProcOf[c], bin[c]>> \in lost)

\* ensure_analysis: "Ensure full analysis has been run for this binary. Returns
\* binary_sha256."
EnsureReturns == \A c \in Caller : []<>(pc[c] = "idle")
=============================================================================
