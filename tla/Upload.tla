------------------------------- MODULE Upload -------------------------------
(***************************************************************************)
(* Firmware uploads of one project.  The request streams the bytes to      *)
(* disk, looks for a row with the same hash, commits a row of its own in   *)
(* upload_stage "detecting" and answers 202; a task that lives in the      *)
(* backend process then takes the row through "extracting" and "analyzing" *)
(* to "ready" or "failed" while clients poll the column.  Rows can be      *)
(* deleted meanwhile, and the backend can crash.  When it starts again, a  *)
(* reaper declares the rows in progress failed, except those that started  *)
(* within a grace window.                                                  *)
(*                                                                         *)
(* Unpack models what the project's other operations see of an upload;     *)
(* this module models the upload itself.                                   *)
(***************************************************************************)
EXTENDS Naturals

CONSTANTS Uploads,     \* uploads that may be made
          Content,     \* contents (hashes) of the uploaded images
          None,        \* no content
          DbFaults,    \* bound: may the database fail a task's failure handler
          MaxCrash     \* bound: backend crashes per behaviour

ASSUME ConstAssumption == /\ None \notin Content
                          /\ DbFaults \in BOOLEAN
                          /\ MaxCrash \in Nat

VARIABLES req,         \* where the request of each upload is
          sha256,      \* the content of each upload
          image,       \* uploads whose file is at storage_path
          stage,       \* firmware.upload_stage; "absent" without a row
          root,        \* rows with extracted_path set, committed
          old,         \* rows that started longer ago than the grace window
          pc,          \* where the task of each upload is
          del,         \* delete requests that have removed the files
          up, crashes, \* is the backend serving; history: number of crashes
          spared       \* history: rows the latest restart left in progress

rowVars  == <<stage, root, old>>
procVars == <<up, crashes, spared>>
vars     == <<req, sha256, image, rowVars, pc, del, procVars>>

InProgress == {"detecting", "extracting", "analyzing"}
Final      == {"ready", "failed"}
Stage      == {"absent", "deleted"} \cup InProgress \cup Final
Req        == {"none", "checked", "over"}
Live       == {"spawned", "detect", "extract", "removed", "analyze"}
PC         == {"none", "done", "lost"} \cup Live

Present(u) == stage[u] \in InProgress \cup Final

\* Some row of the project has the hash of upload u.
Known(u, c) == \E v \in Uploads \ {u} : Present(v) /\ sha256[v] = c

-----------------------------------------------------------------------------
Init == /\ req = [u \in Uploads |-> "none"]
        /\ sha256 = [u \in Uploads |-> None]
        /\ image = {} /\ root = {} /\ old = {} /\ del = {} /\ spared = {}
        /\ stage = [u \in Uploads |-> "absent"]
        /\ pc = [u \in Uploads |-> "none"]
        /\ up = TRUE /\ crashes = 0

-----------------------------------------------------------------------------
(* Requests *)

\* The bytes are on disk and no row has their hash.
UploadBegin(u, c) ==
    /\ up
    /\ req[u] = "none"
    /\ ~Known(u, c)
    /\ req' = [req EXCEPT ![u] = "checked"]
    /\ sha256' = [sha256 EXCEPT ![u] = c]
    /\ image' = image \cup {u}
    /\ UNCHANGED <<rowVars, pc, del, procVars>>

\* Mutant: no unique constraint on the table.
MutRefused(u) == FALSE

\* The unique constraint on project and hash refuses the row.
Refused(u) == Known(u, sha256[u])

\* The row is committed and the task started.
UploadCommit(u) ==
    /\ req[u] = "checked"
    /\ ~Refused(u)
    /\ req' = [req EXCEPT ![u] = "over"]
    /\ stage' = [stage EXCEPT ![u] = "detecting"]
    /\ pc' = [pc EXCEPT ![u] = "spawned"]
    /\ UNCHANGED <<sha256, image, root, old, del, procVars>>

\* The constraint refuses the row, or the bytes are a 7z archive that needs a
\* password: the request fails, and the bytes it wrote stay.
UploadFails(u) ==
    /\ req[u] = "checked"
    /\ req' = [req EXCEPT ![u] = "over"]
    /\ UNCHANGED <<sha256, image, rowVars, pc, del, procVars>>

\* Delete removes the firmware's directory ...
DeleteFiles(u) ==
    /\ up
    /\ Present(u)
    /\ u \notin del
    /\ del' = del \cup {u}
    /\ image' = image \ {u}
    /\ UNCHANGED <<req, sha256, rowVars, pc, procVars>>

\* ... and the row when the request ends.
DeleteCommit(u) ==
    /\ u \in del
    /\ del' = del \ {u}
    /\ stage' = [stage EXCEPT ![u] = "deleted"]
    /\ root' = root \ {u}
    /\ old' = old \ {u}
    /\ UNCHANGED <<req, sha256, image, pc, procVars>>

-----------------------------------------------------------------------------
(* The post-processing task *)

Goto(u, label)    == pc' = [pc EXCEPT ![u] = label]
SetStage(u, s)    == stage' = [stage EXCEPT ![u] = s]

\* The task loads its row; there is nothing to do without one.
RunnerLoad(u) ==
    /\ pc[u] = "spawned"
    /\ Goto(u, IF Present(u) THEN "detect" ELSE "done")
    /\ UNCHANGED <<req, sha256, image, rowVars, del, procVars>>

\* The format is detected.
RunnerExtract(u) ==
    /\ pc[u] = "detect"
    /\ Present(u)
    /\ SetStage(u, "extracting")
    /\ Goto(u, "extract")
    /\ UNCHANGED <<req, sha256, image, root, old, del, procVars>>

\* A ZIP that holds a root file system is unpacked and then removed.
RemoveArchive(u) ==
    /\ pc[u] = "extract"
    /\ image' = image \ {u}
    /\ Goto(u, "removed")
    /\ UNCHANGED <<req, sha256, rowVars, del, procVars>>

\* A tarball, ZIP or generic archive was unpacked, or there was nothing to
\* unpack.  extracted_path is committed along with the next stage.
RunnerAnalyze(u, found) ==
    /\ pc[u] \in {"extract", "removed"}
    /\ Present(u)
    /\ root' = IF found THEN root \cup {u} ELSE root
    /\ SetStage(u, "analyzing")
    /\ Goto(u, "analyze")
    /\ UNCHANGED <<req, sha256, image, old, del, procVars>>

\* The stage a task ends with.
Last == "ready"

\* Architecture and operating system are detected.
RunnerReady(u) ==
    /\ pc[u] = "analyze"
    /\ Present(u)
    /\ SetStage(u, Last)
    /\ Goto(u, "done")
    /\ UNCHANGED <<req, sha256, image, root, old, del, procVars>>

\* Mutant: the exception is only logged.
MutRunnerRaises(u) ==
    /\ pc[u] \in Live
    /\ Goto(u, "done")
    /\ UNCHANGED <<req, sha256, image, rowVars, del, procVars>>

\* Extraction raises, or a commit does because the row is gone.  What was not
\* committed is rolled back, and a fresh session marks the row failed.
RunnerRaises(u) ==
    /\ pc[u] \in Live
    /\ IF Present(u) THEN SetStage(u, "failed") ELSE UNCHANGED stage
    /\ Goto(u, "done")
    /\ UNCHANGED <<req, sha256, image, root, old, del, procVars>>

\* That session fails too, or the event loop drops the task, which nothing
\* else refers to.
RunnerLost(u) ==
    /\ DbFaults
    /\ pc[u] \in Live
    /\ Goto(u, "lost")
    /\ UNCHANGED <<req, sha256, image, rowVars, del, procVars>>

-----------------------------------------------------------------------------
(* Time, crash and restart *)

\* The grace window of a row in progress passes.
GracePasses(u) ==
    /\ stage[u] \in InProgress
    /\ u \notin old
    /\ old' = old \cup {u}
    /\ UNCHANGED <<req, sha256, image, stage, root, pc, del, procVars>>

Crash ==
    /\ up
    /\ crashes < MaxCrash
    /\ crashes' = crashes + 1
    /\ up' = FALSE
    /\ req' = [u \in Uploads |-> IF req[u] = "checked" THEN "over" ELSE req[u]]
    /\ pc' = [u \in Uploads |-> IF pc[u] \in Live THEN "done" ELSE pc[u]]
    /\ del' = {}
    /\ UNCHANGED <<sha256, image, rowVars, spared>>

\* Mutant: the reaper overlooks the last stage.
MutReaped(u) == stage[u] \in {"detecting", "extracting"} /\ u \in old

\* The reaper sweeps rows in progress whose start is older than the window.
Reaped(u) == stage[u] \in InProgress /\ u \in old

\* Mutant: the reaper runs while requests are served.
MutRestart ==
    /\ up' = TRUE
    /\ stage' = [u \in Uploads |-> IF Reaped(u) THEN "failed" ELSE stage[u]]
    /\ spared' = {u \in Uploads : stage[u] \in InProgress /\ u \notin old}
    /\ UNCHANGED <<req, sha256, image, root, old, pc, del, crashes>>

\* The lifespan handler runs the reapers before requests are served.
Restart ==
    /\ ~up
    /\ up' = TRUE
    /\ stage' = [u \in Uploads |-> IF Reaped(u) THEN "failed" ELSE stage[u]]
    /\ spared' = {u \in Uploads : stage[u] \in InProgress /\ u \notin old}
    /\ UNCHANGED <<req, sha256, image, root, old, pc, del, crashes>>

-----------------------------------------------------------------------------
RunnerEnds(u) ==
    \/ RunnerLoad(u) \/ RunnerExtract(u) \/ RemoveArchive(u)
    \/ \E found \in BOOLEAN : RunnerAnalyze(u, found)
    \/ RunnerReady(u) \/ RunnerRaises(u)

RunnerStep(u) == RunnerEnds(u) \/ RunnerLost(u)

Next ==
    \/ \E u \in Uploads : \/ \E c \in Content : UploadBegin(u, c)
                          \/ UploadCommit(u) \/ UploadFails(u)
                          \/ DeleteFiles(u) \/ DeleteCommit(u)
                          \/ RunnerStep(u) \/ GracePasses(u)
    \/ Crash \/ Restart

Spec == Init /\ [][Next]_vars

\* Tasks are scheduled, requests end, time passes and a started backend comes
\* up; users need not act, and nothing obliges the backend to crash or the database to
\* fail.
RequestEnds(u) == UploadCommit(u) \/ UploadFails(u) \/ DeleteCommit(u)
Fairness == /\ \A u \in Uploads : /\ WF_vars(RunnerEnds(u))
                                 /\ WF_vars(RequestEnds(u))
                                 /\ WF_vars(GracePasses(u))
            /\ WF_vars(Restart)
FairSpec == Spec /\ Fairness

-----------------------------------------------------------------------------
(* Properties *)

\* Every variable keeps its type; extracted_path and started_at are columns of
\* rows that exist.
TypeOK ==
    /\ req \in [Uploads -> Req]
    /\ sha256 \in [Uploads -> Content \cup {None}]
    /\ image \subseteq Uploads
    /\ stage \in [Uploads -> Stage]
    /\ root \subseteq {u \in Uploads : Present(u)}
    /\ old \subseteq {u \in Uploads : Present(u)}
    /\ pc \in [Uploads -> PC]
    /\ del \subseteq Uploads
    /\ up \in BOOLEAN /\ crashes \in 0 .. MaxCrash
    /\ spared \subseteq Uploads

\* While the backend serves requests, a row in progress has a task that will
\* still end it, unless the latest restart spared it for having started within
\* the grace window, or the task was lost to the database.
InProgressIsLive ==
    up => \A u \in Uploads :
             stage[u] \in InProgress => pc[u] \in Live \/ pc[u] = "lost" \/ u \in spared

\* Two uploads of the same bytes never both get a row, however their requests
\* overlap.
OneRowPerImage ==
    \A u, v \in Uploads :
        (Present(u) /\ Present(v) /\ sha256[u] = sha256[v]) => u = v

\* What clients see of an upload: its verdict is theirs as soon as it is written.
PhaseOf(u) == CASE stage[u] = "absent"      -> "none"
                [] stage[u] \in InProgress  -> "active"
                [] stage[u] \in Final       -> stage[u]
                [] OTHER                    -> "gone"
Verdict == INSTANCE Lifecycle WITH
               Work <- Uploads, Result <- Final, phase <- [u \in Uploads |-> PhaseOf(u)]

\* Lifecycle is implemented: "ready" and "failed" stay what they are until the
\* row is deleted (reaper and task never overwrite each other), no task brings a
\* deleted row back, and no row gets lost otherwise.
FinalStageIsFinal == Verdict!Spec

\* An upload that was accepted comes to an end, except for the losses above.
UploadEnds ==
    \A u \in Uploads :
        (stage[u] = "detecting") ~>
            (stage[u] \in Final \cup {"deleted"} \/ pc[u] = "lost" \/ u \in spared)
=============================================================================
