----------------------------- MODULE YamlCache ------------------------------
(***************************************************************************)
(* One MtimeCachedYamlLoader and the file it caches.  get() holds the      *)
(* loader's lock from its stat to its return, so the calls of all threads  *)
(* come one after another; the operator's edits come in between, also      *)
(* between the stat and the read of one call.                              *)
(*                                                                         *)
(* A version is what the operator has written at one time, complete or     *)
(* not.  It has a modification time, usually one of its own: two writes    *)
(* within a tick of the file system's clock share theirs.  Moving a        *)
(* version away and back keeps its time.  The loader's path is fixed.      *)
(***************************************************************************)
EXTENDS Naturals

CONSTANTS MaxSave,   \* bound: versions that are written
          MaxIOError \* bound: failed calls of the operating system

ASSUME YamlAssumption == MaxSave \in Nat /\ MaxIOError \in Nat

VARIABLES saved,     \* number of versions written so far
          mtime,     \* the time of each
          valid,     \* versions that parse and have the right structure
          disk,      \* the version at the path, 0 when there is none
          cached,    \* the version served, 0 for the defaults
          cursor,    \* the time of the latest reload, 0 for none
          loaded,    \* _loaded_from_yaml
          warning,   \* is last_warning set
          call,      \* where the call is
          seen,      \* the version it has stat'ed
          calm,      \* history: the call returned and nobody has acted since it began
          smeared,   \* history: times under which something else was read
          ioErrors   \* history: number of failed calls

file     == <<saved, mtime, valid, disk>>
loader   == <<cached, cursor, loaded, warning>>
yamlVars == <<file, loader, call, seen, calm, smeared, ioErrors>>

Version == 1 .. MaxSave

IOFails == /\ ioErrors < MaxIOError
           /\ ioErrors' = ioErrors + 1

-----------------------------------------------------------------------------
YamlInit == /\ saved = 0 /\ disk = 0 /\ valid = {}
            /\ mtime = [v \in Version |-> 0]
            /\ cached = 0 /\ cursor = 0 /\ loaded = FALSE /\ warning = FALSE
            /\ call = "idle" /\ seen = 0
            /\ calm = FALSE /\ smeared = {} /\ ioErrors = 0

-----------------------------------------------------------------------------
(* get *)

\* The fast path.
Unchanged == cursor = mtime[disk] /\ loaded

Hit ==
    /\ call = "idle" /\ disk # 0
    /\ Unchanged
    /\ calm' = TRUE
    /\ UNCHANGED <<file, loader, call, seen, smeared, ioErrors>>

Stat ==
    /\ call = "idle" /\ disk # 0
    /\ ~Unchanged
    /\ call' = "reload" /\ seen' = disk /\ calm' = TRUE
    /\ UNCHANGED <<file, loader, smeared, ioErrors>>

\* Mutant: the loss is only logged.
MutHandleMissing ==
    /\ call = "idle" /\ disk = 0
    /\ calm' = TRUE
    /\ UNCHANGED <<file, loader, call, seen, smeared, ioErrors>>

HandleMissing ==
    /\ call = "idle" /\ disk = 0
    /\ warning' = (warning \/ loaded)
    /\ calm' = TRUE
    /\ UNCHANGED <<file, cached, cursor, loaded, call, seen, smeared, ioErrors>>

StatFails ==
    /\ IOFails
    /\ call = "idle"
    /\ warning' = TRUE
    /\ calm' = FALSE
    /\ UNCHANGED <<file, cached, cursor, loaded, call, seen, smeared>>

\* The end of a reload, which sets the cursor in any case.
Reloaded(wrong) ==
    /\ cursor' = mtime[seen]
    /\ smeared' = IF wrong THEN smeared \cup {mtime[seen]} ELSE smeared
    /\ call' = "idle" /\ seen' = 0
    /\ UNCHANGED file

\* Mutant: the first value that was loaded stays, as with a plain lru_cache.
MutAccept ==
    /\ call = "reload"
    /\ disk \in valid
    /\ cached' = IF loaded THEN cached ELSE disk
    /\ loaded' = TRUE /\ warning' = FALSE
    /\ Reloaded(disk # seen)
    /\ UNCHANGED <<calm, ioErrors>>

Accept ==
    /\ call = "reload"
    /\ disk \in valid
    /\ cached' = disk /\ loaded' = TRUE /\ warning' = FALSE
    /\ Reloaded(disk # seen)
    /\ UNCHANGED <<calm, ioErrors>>

\* Mutant: what was read is swapped in before it is validated.
MutReject ==
    /\ call = "reload"
    /\ disk # 0 /\ disk \notin valid
    /\ cached' = disk
    /\ warning' = TRUE
    /\ Reloaded(disk # seen)
    /\ UNCHANGED <<loaded, calm, ioErrors>>

\* The contents cannot be parsed or fail validation.
Reject ==
    /\ call = "reload"
    /\ disk # 0 /\ disk \notin valid
    /\ warning' = TRUE
    /\ Reloaded(disk # seen)
    /\ UNCHANGED <<cached, loaded, calm, ioErrors>>

\* The file is gone by now, or cannot be opened or read.
ReadFails ==
    /\ call = "reload"
    /\ IF disk = 0 THEN ioErrors' = ioErrors ELSE IOFails
    /\ warning' = TRUE
    /\ Reloaded(TRUE)
    /\ UNCHANGED <<cached, loaded, calm>>

\* The bytes are not UTF-8: the error is not among those that are handled, and
\* the call raises.
Undecodable ==
    /\ call = "reload"
    /\ disk # 0 /\ disk \notin valid
    /\ call' = "idle" /\ seen' = 0
    /\ calm' = FALSE
    /\ UNCHANGED <<file, loader, smeared, ioErrors>>

cache_clear ==
    /\ call = "idle"
    /\ cached' = 0 /\ cursor' = 0 /\ loaded' = FALSE /\ warning' = FALSE
    /\ calm' = FALSE
    /\ UNCHANGED <<file, call, seen, smeared, ioErrors>>

-----------------------------------------------------------------------------
(* The operator *)

\* A write, complete or not, in a tick of its own or in that of the one before.
Save(ok, tick) ==
    /\ saved < MaxSave
    /\ tick \/ disk \in {saved} \ {0}
    /\ saved' = saved + 1
    /\ disk' = saved + 1
    /\ mtime' = [mtime EXCEPT ![saved + 1] = IF tick THEN saved + 1 ELSE mtime[saved]]
    /\ valid' = IF ok THEN valid \cup {saved + 1} ELSE valid
    /\ calm' = FALSE
    /\ UNCHANGED <<loader, call, seen, smeared, ioErrors>>

\* The file is moved away, or a version that was kept is moved back.
Move(v) ==
    /\ v \in 0 .. saved
    /\ v # disk
    /\ disk' = v
    /\ calm' = FALSE
    /\ UNCHANGED <<saved, mtime, valid, loader, call, seen, smeared, ioErrors>>

-----------------------------------------------------------------------------
YamlNext ==
    \/ Hit \/ Stat \/ HandleMissing \/ StatFails
    \/ Accept \/ Reject \/ ReadFails \/ Undecodable \/ cache_clear
    \/ \E ok, tick \in BOOLEAN : Save(ok, tick)
    \/ \E v \in 0 .. MaxSave : Move(v)

YamlSpec == YamlInit /\ [][YamlNext]_yamlVars

-----------------------------------------------------------------------------
(* Properties *)

\* Every variable keeps its type; what is served has parsed and passed
\* validation, or is the defaults (_reload keeps the previous value otherwise).
YamlTypeOK ==
    /\ saved \in 0 .. MaxSave /\ disk \in 0 .. saved
    /\ mtime \in [Version -> 0 .. MaxSave]
    /\ valid \subseteq Version
    /\ cached \in valid \cup {0}
    /\ cursor \in 0 .. MaxSave
    /\ loaded \in BOOLEAN /\ warning \in BOOLEAN /\ calm \in BOOLEAN
    /\ call \in {"idle", "reload"} /\ seen \in 0 .. saved
    /\ smeared \subseteq 0 .. MaxSave
    /\ ioErrors \in 0 .. MaxIOError
    /\ loaded <=> cached # 0

\* A call has returned, and nothing happened since it began.
Answered == call = "idle" /\ calm

\* The time of the file at the path was given to something else too: to another
\* version, or to what a reload read after the file had changed under it.
Ambiguous == \/ mtime[disk] \in smeared
             \/ \E v \in 1 .. saved : v # disk /\ mtime[v] = mtime[disk]

\* "the next analyze / cve-match invocation picks up the new entries within ONE
\* accessor call": whatever was edited, broken, moved away and back before, a
\* call returns the valid file that is there, as long as its time is its own.
FreshWithinOneCall ==
    (Answered /\ disk \in valid /\ ~Ambiguous) => cached = disk

\* A call that returns anything but the file that is there leaves a warning, which
\* list_extension_points shows as "malformed_fallback".
FallbackIsReported ==
    (Answered /\ cached # disk) => (warning \/ (disk # 0 /\ Ambiguous))
=============================================================================
