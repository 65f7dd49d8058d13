----------------------------- MODULE DeviceDump -----------------------------
(***************************************************************************)
(* Acquisition of a device's partitions: the dump sessions of one project, *)
(* the background task that runs each of them, the requests that start,    *)
(* cancel and import them, the bridge on the host that reads the device,   *)
(* and the reaper that runs when the backend starts again.                 *)
(*                                                                         *)
(* A task keeps one database session for its whole life.  Sessions are     *)
(* created with expire_on_commit=False, so selecting the row again returns *)
(* the object the session already holds, with the values it was loaded     *)
(* with: the task sees its own copy of the row, never a concurrent write.  *)
(* The bridge is one process with one current dump and one cancel event,   *)
(* shared by all its connections; it outlives the backend.                 *)
(***************************************************************************)
EXTENDS Naturals, FiniteSets

CONSTANTS Dump,       \* dump sessions that may be requested
          Parts,      \* number of partitions each of them asks for
          None,       \* no stream
          MaxCrash    \* bound: backend crashes per behaviour

ASSUME ConstAssumption == /\ Parts \in Nat \ {0}
                          /\ MaxCrash \in Nat
                          /\ None \notin Dump \X (1 .. Parts)

VARIABLES status,     \* device_dump_sessions.status, "absent" without a row
          items,      \* the partitions column: status of each partition
          posted,     \* start requests past their conflict check
          cancelling, \* cancel requests past their bridge call
          imported,   \* dumps imported as firmware
          pc,         \* where the task of each dump is
          view,       \* status of the row object in the task's session
          mem,        \* the task's list of partition states
          at,         \* index of the partition the task is at
          phase,      \* bridge: what each dump_partition call is doing
          current,    \* bridge: _current_dump
          cancel,     \* bridge: _cancel_event
          disk,       \* partition images: "part" way, or "read" to the stream's end
          up, crashes \* is the backend serving; history: number of crashes

reqVars    == <<posted, cancelling, imported>>
runVars    == <<pc, view, mem, at>>
bridgeVars == <<phase, current, cancel, disk>>
procVars   == <<up, crashes>>
vars       == <<status, items, reqVars, runVars, bridgeVars, procVars>>

Part     == 1 .. Parts
Stream   == Dump \X Part
Active   == {"queued", "running"}
Terminal == {"completed", "partial", "failed", "cancelled"}
Item     == {"pending", "active", "complete", "failed"}
PC       == {"none", "spawned", "claim", "loop", "call", "exit", "lost"}

Pending == [i \in Part |-> "pending"]

-----------------------------------------------------------------------------
Init == /\ status = [d \in Dump |-> "absent"]
        /\ items = [d \in Dump |-> Pending]
        /\ posted = {} /\ cancelling = {} /\ imported = {}
        /\ pc = [d \in Dump |-> "none"]
        /\ view = [d \in Dump |-> "absent"]
        /\ mem = [d \in Dump |-> Pending]
        /\ at = [d \in Dump |-> 1]
        /\ phase = [s \in Stream |-> "idle"]
        /\ current = None
        /\ cancel = FALSE
        /\ disk = [s \in Stream |-> "none"]
        /\ up = TRUE /\ crashes = 0

-----------------------------------------------------------------------------
(* Requests *)

\* POST dumps: no row of the project is queued or running.
find_active_dump(d) ==
    /\ up
    /\ status[d] = "absent"
    /\ d \notin posted
    /\ \A e \in Dump : status[e] \notin Active
    /\ posted' = posted \cup {d}
    /\ UNCHANGED <<status, items, cancelling, imported, runVars, bridgeVars, procVars>>

\* The row is committed and the task spawned.
start_dump(d) ==
    /\ d \in posted
    /\ posted' = posted \ {d}
    /\ status' = [status EXCEPT ![d] = "queued"]
    /\ pc' = [pc EXCEPT ![d] = "spawned"]
    /\ UNCHANGED <<items, cancelling, imported, view, mem, at, bridgeVars, procVars>>

\* Too little disk space: the request ends without a row.
RefuseDump(d) ==
    /\ d \in posted
    /\ posted' = posted \ {d}
    /\ UNCHANGED <<status, items, cancelling, imported, runVars, bridgeVars, procVars>>

\* Cancel reads the row and asks the bridge, which may be unreachable; the
\* bridge stops whatever dump is current.
cancel_dump(d, reached) ==
    /\ up
    /\ status[d] \in Active
    /\ d \notin cancelling
    /\ cancelling' = cancelling \cup {d}
    /\ cancel' = (cancel \/ (reached /\ current # None))
    /\ UNCHANGED <<status, items, posted, imported, runVars, phase, current, disk, procVars>>

\* It then writes the row, whatever the row holds by now.
CancelCommit(d) ==
    /\ d \in cancelling
    /\ cancelling' = cancelling \ {d}
    /\ status' = [status EXCEPT ![d] = "cancelled"]
    /\ UNCHANGED <<items, posted, imported, runVars, bridgeVars, procVars>>

\* Only a lost connection is forgiven: an answer that is late or an error ends
\* the request without writing the row.
CancelFails(d) ==
    /\ d \in cancelling
    /\ cancelling' = cancelling \ {d}
    /\ UNCHANGED <<status, items, posted, imported, runVars, bridgeVars, procVars>>

\* Import takes every image file of a finished dump.
import_dump(d) ==
    /\ up
    /\ status[d] \in {"completed", "partial"}
    /\ \E i \in Part : disk[<<d, i>>] # "none"
    /\ imported' = imported \cup {d}
    /\ UNCHANGED <<status, items, posted, cancelling, runVars, bridgeVars, procVars>>

-----------------------------------------------------------------------------
(* The background task *)

\* The task loads the row and leaves if it is no longer active.
RunnerLoad(d) ==
    /\ pc[d] = "spawned"
    /\ view' = [view EXCEPT ![d] = status[d]]
    /\ pc' = [pc EXCEPT ![d] = IF status[d] \in Active THEN "claim" ELSE "exit"]
    /\ UNCHANGED <<status, items, reqVars, mem, at, bridgeVars, procVars>>

\* It commits "running"; its list of partitions is the one in the row object.
RunnerClaim(d) ==
    /\ pc[d] = "claim"
    /\ status' = [status EXCEPT ![d] = "running"]
    /\ view' = [view EXCEPT ![d] = "running"]
    /\ mem' = [mem EXCEPT ![d] = items[d]]
    /\ pc' = [pc EXCEPT ![d] = "loop"]
    /\ UNCHANGED <<items, reqVars, at, bridgeVars, procVars>>

\* The value SQLAlchemy compares the new partitions with.  The row object's old
\* value holds the very list the task has just changed in place.
LoadedItems(d, new) == new

\* The column is written only if the new value differs from the loaded one.
_persist_partitions(d, new) ==
    items' = IF LoadedItems(d, new) # new THEN [items EXCEPT ![d] = new] ELSE items

\* Set the state of the task's partition and write the list back.
Mark(d, state) ==
    LET new == [mem[d] EXCEPT ![at[d]] = state] IN
    /\ mem' = [mem EXCEPT ![d] = new]
    /\ _persist_partitions(d, new)

\* The loop over the partitions is not over.
HasNext(d) == at[d] <= Parts

\* The next partition is marked active and sent to the bridge.
DumpPartition(d) ==
    /\ pc[d] = "loop"
    /\ HasNext(d)
    /\ Mark(d, "active")
    /\ pc' = [pc EXCEPT ![d] = "call"]
    /\ UNCHANGED <<status, reqVars, view, at, bridgeVars, procVars>>

\* The answer is recorded and the loop goes on.
Answered(d, state) ==
    /\ pc[d] = "call"
    /\ Mark(d, state)
    /\ at' = [at EXCEPT ![d] = @ + 1]
    /\ pc' = [pc EXCEPT ![d] = "loop"]
    /\ UNCHANGED <<status, reqVars, view, procVars>>

\* The bridge cannot be reached, refuses, or does not answer in time.
CallFails(d) == Answered(d, "failed") /\ UNCHANGED bridgeVars

\* The status a finished task reports.
FinalStatus(d) ==
    IF \A i \in Part : mem[d][i] = "complete" THEN "completed"
    ELSE IF \E i \in Part : mem[d][i] = "complete" THEN "partial"
    ELSE "failed"

\* All partitions are done.  The row is selected again, in the same session.
RunnerFinish(d) ==
    /\ pc[d] = "loop"
    /\ ~HasNext(d)
    /\ status' = IF view[d] = "running"
                 THEN [status EXCEPT ![d] = FinalStatus(d)] ELSE status
    /\ pc' = [pc EXCEPT ![d] = "exit"]
    /\ UNCHANGED <<items, reqVars, view, mem, at, bridgeVars, procVars>>

\* Mutant: the error is only logged.
MutRunnerRaises(d) ==
    /\ pc[d] \in {"loop", "call"}
    /\ pc' = [pc EXCEPT ![d] = "exit"]
    /\ UNCHANGED <<status, items, reqVars, view, mem, at, bridgeVars, procVars>>

\* A database error inside the loop: a fresh session marks the row failed
\* unless it is terminal.
RunnerRaises(d) ==
    /\ pc[d] \in {"loop", "call"}
    /\ status' = IF status[d] \in Terminal THEN status
                 ELSE [status EXCEPT ![d] = "failed"]
    /\ pc' = [pc EXCEPT ![d] = "exit"]
    /\ UNCHANGED <<items, reqVars, view, mem, at, bridgeVars, procVars>>

\* The database fails outside the loop, or fails the handler above: the outer
\* guard logs it and the row stays as it is.
RunnerLost(d) ==
    /\ pc[d] \in {"spawned", "claim", "loop", "call"}
    /\ pc' = [pc EXCEPT ![d] = "lost"]
    /\ UNCHANGED <<status, items, reqVars, view, mem, at, bridgeVars, procVars>>

-----------------------------------------------------------------------------
(* The bridge *)

\* A call passes the is_dumping check, then asks the device for the size.
BridgeAccept(d) ==
    LET s == <<d, at[d]>> IN
    /\ pc[d] = "call"
    /\ phase[s] = "idle"
    /\ current = None
    /\ phase' = [phase EXCEPT ![s] = "sizing"]
    /\ UNCHANGED <<status, items, reqVars, runVars, current, cancel, disk, procVars>>

\* It becomes the current dump, clears the cancel event and opens the image.
BridgeOpen(s) ==
    /\ phase[s] = "sizing"
    /\ phase' = [phase EXCEPT ![s] = "reading"]
    /\ current' = s
    /\ cancel' = FALSE
    /\ disk' = [disk EXCEPT ![s] = "part"]
    /\ UNCHANGED <<status, items, reqVars, runVars, procVars>>

BridgeClose(s, image) ==
    /\ phase[s] = "reading"
    /\ phase' = [phase EXCEPT ![s] = "idle"]
    /\ current' = None
    /\ disk' = [disk EXCEPT ![s] = image]
    /\ UNCHANGED cancel

\* Mutant: a late answer is taken for that of the call now waiting.
MutWaiting(s) == pc[s[1]] = "call"

\* The task that made the call still waits for it.
Waiting(s) == pc[s[1]] = "call" /\ at[s[1]] = s[2]

\* The stream ends and the call answers "complete".  A stream that adb breaks
\* off ends too: its exit status is not looked at.
BridgeComplete(s) ==
    /\ BridgeClose(s, "read")
    /\ IF Waiting(s) THEN Answered(s[1], "complete")
       ELSE UNCHANGED <<status, items, reqVars, runVars, procVars>>

\* The read stalls or fails, or the cancel event is seen.
BridgeStops(s) ==
    /\ BridgeClose(s, "part")
    /\ IF Waiting(s) THEN Answered(s[1], "failed")
       ELSE UNCHANGED <<status, items, reqVars, runVars, procVars>>

-----------------------------------------------------------------------------
(* Crash and restart *)

Crash ==
    /\ up
    /\ crashes < MaxCrash
    /\ crashes' = crashes + 1
    /\ up' = FALSE
    /\ pc' = [d \in Dump |-> IF pc[d] = "none" THEN "none" ELSE "exit"]
    /\ posted' = {} /\ cancelling' = {}
    /\ UNCHANGED <<status, items, imported, view, mem, at, bridgeVars>>

\* Mutant: the reaper overlooks rows whose task had not begun.
MutReaped(s) == s = "running"

Reaped(s) == s \in Active

\* Mutant: the rows are queued again, those of finished dumps that failed included.
MutRestart ==
    /\ ~up
    /\ up' = TRUE
    /\ status' = [d \in Dump |-> IF Reaped(status[d]) \/ status[d] = "failed"
                                THEN "queued" ELSE status[d]]
    /\ UNCHANGED <<items, reqVars, runVars, bridgeVars, crashes>>

\* The lifespan handler reaps rows without a task before requests are served.
Restart ==
    /\ ~up
    /\ up' = TRUE
    /\ status' = [d \in Dump |-> IF Reaped(status[d]) THEN "failed" ELSE status[d]]
    /\ UNCHANGED <<items, reqVars, runVars, bridgeVars, crashes>>

-----------------------------------------------------------------------------
RunnerEnds(d) ==
    \/ RunnerLoad(d) \/ RunnerClaim(d) \/ DumpPartition(d)
    \/ CallFails(d) \/ RunnerFinish(d) \/ RunnerRaises(d)

RunnerStep(d) == RunnerEnds(d) \/ RunnerLost(d)

Next ==
    \/ \E d \in Dump : \/ find_active_dump(d) \/ start_dump(d) \/ RefuseDump(d)
                       \/ \E reached \in BOOLEAN : cancel_dump(d, reached)
                       \/ CancelCommit(d) \/ CancelFails(d) \/ import_dump(d)
                       \/ RunnerStep(d) \/ BridgeAccept(d)
    \/ \E s \in Stream : BridgeOpen(s) \/ BridgeComplete(s) \/ BridgeStops(s)
    \/ Crash \/ Restart

Spec == Init /\ [][Next]_vars

\* Tasks are scheduled and a started backend comes up; a call to the bridge
\* ends because the task stops waiting for it after a while.
Fairness == /\ \A d \in Dump : WF_vars(RunnerEnds(d))
            /\ WF_vars(Restart)
FairSpec == Spec /\ Fairness

-----------------------------------------------------------------------------
(* Properties *)

\* Every variable keeps its type; a task in its loop holds a row object it
\* loaded as its own "running" row.
TypeOK ==
    /\ status \in [Dump -> {"absent"} \cup Active \cup Terminal]
    /\ items \in [Dump -> [Part -> Item]]
    /\ posted \subseteq Dump /\ cancelling \subseteq Dump /\ imported \subseteq Dump
    /\ pc \in [Dump -> PC]
    /\ view \in [Dump -> {"absent"} \cup Active \cup Terminal]
    /\ mem \in [Dump -> [Part -> Item]]
    /\ at \in [Dump -> 1 .. Parts + 1]
    /\ phase \in [Stream -> {"idle", "sizing", "reading"}]
    /\ current \in Stream \cup {None}
    /\ cancel \in BOOLEAN
    /\ disk \in [Stream -> {"none", "part", "read"}]
    /\ up \in BOOLEAN /\ crashes \in 0 .. MaxCrash
    /\ \A d \in Dump : /\ pc[d] \in {"loop", "call"} => view[d] = "running"
                       /\ pc[d] = "call" => at[d] \in Part
                       /\ pc[d] # "none" => status[d] # "absent"

\* While the backend serves requests, a row that blocks new dumps (queued or
\* running) has a task that will still end it, or that the database failed
\* since the backend started; no crash, cancellation or other failure leaves a
\* phantom behind.
NoPhantom ==
    up => \A d \in Dump :
             status[d] \in Active => pc[d] \in {"spawned", "claim", "loop", "call", "lost"}

\* A partition the task counts as complete has an image on disk that was read to
\* the end of its stream, so a dump reported as completed has every such image
\* and a partial one at least one, whatever was cancelled, timed out, answered
\* late or overlapped on the bridge.
OutcomeIsTrue ==
    \A d \in Dump :
        /\ \A i \in Part : mem[d][i] = "complete" => disk[<<d, i>>] = "read"
        /\ status[d] = "completed" => \A i \in Part : disk[<<d, i>>] = "read"
        /\ status[d] = "partial" => \E i \in Part : disk[<<d, i>>] = "read"

\* A dump is over when its row says so and its task has ended.
AtWork(d)  == pc[d] \in {"spawned", "claim", "loop", "call"}
PhaseOf(d) == CASE status[d] = "absent"                   -> "none"
                [] status[d] \in Terminal /\ ~AtWork(d)   -> "over"
                [] OTHER                                  -> "active"
Outcome == INSTANCE Lifecycle WITH
               Work <- Dump, Result <- {"over"}, phase <- [d \in Dump |-> PhaseOf(d)]

\* Lifecycle is implemented: no late answer, cancellation, crash or restart brings
\* a dump that is over back, and every row that is there came from a request.
OutcomeIsFinal == Outcome!Spec

\* A dump that was accepted comes to an end, across crashes, unless the database
\* fails its task.
DumpEnds ==
    \A d \in Dump : (status[d] = "queued") ~> (status[d] \in Terminal \/ pc[d] = "lost")

\* Comment at the end of the task: "Honour an externally-set cancelled state;
\* only flip if we're still in the running tier."  The task itself never turns
\* its cancelled dump into something else.
CancelledIsFinal ==
    [][\A d \in Dump : status[d] = "cancelled" /\ pc[d] \in {"loop", "call"}
            => status'[d] = "cancelled"]_vars
=============================================================================
