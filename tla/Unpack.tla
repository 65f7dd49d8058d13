------------------------------- MODULE Unpack -------------------------------
(***************************************************************************)
(* The life of one project's firmware images: upload, import of a device   *)
(* dump, automatic unpacking, manual rootfs upload and deletion.           *)
(*                                                                         *)
(* A project row carries one status column that every one of these         *)
(* operations reads and writes, and they overlap: request handlers commit  *)
(* when the request ends (database.get_db), unpacking runs in background   *)
(* tasks, in this process or in the arq worker, each with sessions of its  *)
(* own.  Projects do not share rows, so one project is modelled.           *)
(*                                                                         *)
(* Database steps follow SQLAlchemy on PostgreSQL at READ COMMITTED.  A    *)
(* session reads committed rows, keeps what it read, and at commit emits   *)
(* an UPDATE of a column only when its value differs from the one it read; *)
(* an UPDATE waits for the holder of the row's lock and then overwrites.   *)
(* An UPDATE of a deleted row raises and rolls its transaction back.       *)
(***************************************************************************)
EXTENDS Naturals, FiniteSets

CONSTANTS Firmware,    \* firmware images that may be added to the project
          Task,        \* background tasks that may be started
          None,        \* no firmware, no task
          Ops,         \* bound: the operations users perform besides upload and unpack
          MaxCrash     \* bound: crashes and failed clean-ups per behaviour

Status == {"created", "unpacking", "ready", "error"}

ASSUME ConstAssumption == /\ None \notin Firmware \cup Task
                          /\ Ops \subseteq {"delete", "rootfs", "import"}
                          /\ MaxCrash \in Nat

VARIABLES status,      \* projects.status, committed
          author,      \* history: the firmware whose request or task wrote "ready"
          row,         \* firmware rows: does the row exist
          extracted,   \* firmware rows with extracted_path set
          rtos,        \* history: firmware rows whose unpack succeeded as an RTOS image, without a path
          stage,       \* firmware rows with unpack_stage / unpack_progress set
          busy,        \* firmware whose upload post-processing is running
          lock,        \* firmware of the unpack request holding the project row lock
          enq,         \* the task that request has started
          del,         \* delete requests in flight
          rootfs,      \* rootfs uploads in flight: did each one read the status as "ready"
          pc,          \* where each task is
          job,         \* the firmware each task unpacks, and where it runs
          seen,        \* what each task read in its latest session
          lapsed,      \* history: tasks whose clean-up was lost (see FinallyRead, FinallyWrite)
          crashes      \* history: number of crashes and failed clean-ups

reqVars  == <<lock, enq, del, rootfs>>
projVars == <<status, author>>
rowVars  == <<row, extracted, rtos, stage, busy>>
taskVars == <<pc, job, seen, lapsed>>
vars     == <<projVars, rowVars, reqVars, taskVars, crashes>>

Row    == {"absent", "inserting", "present", "deleted"}
Via    == {"arq", "inproc", "import"}
PC     == {"free", "queued", "run", "finish", "finally", "reset", "done", "lost"}
Del    == {"none", "keep", "clear"}
Result == {"fail", "rootfs", "rtos"}
Seen   == [status : Status, present : BOOLEAN, extracted : BOOLEAN,
           stage : BOOLEAN, result : Result]

Locked == lock # None

\* The columns the session of a task on firmware f reads, with the task's result.
Read(f, res) == [status |-> status, present |-> row[f] = "present",
                 extracted |-> f \in extracted, stage |-> f \in stage,
                 result |-> res]

Unread == [status |-> "created", present |-> FALSE, extracted |-> FALSE,
           stage |-> FALSE, result |-> "fail"]

\* The ORM writes projects.status for firmware f: an UPDATE if new differs from
\* what was read.
SetStatus(f, old, new) ==
    /\ old # new => ~Locked
    /\ status' = IF old # new THEN new ELSE status
    /\ author' = IF old = new THEN author ELSE IF new = "ready" THEN f ELSE None

Goto(t, label) == pc' = [pc EXCEPT ![t] = label]

\* A task closes its session: what it read is forgotten.
Close(t, label) == Goto(t, label) /\ seen' = [seen EXCEPT ![t] = Unread]

\* Tasks that have not yet read the project row for the last time.
Pending(t) == pc[t] \in {"queued", "run", "finish", "finally"}
Live(t)    == pc[t] \in {"queued", "run", "finish", "finally", "reset"}

\* The next task to be started: task identifiers are interchangeable.
Fresh(t) == pc[t] = "free" /\ t = CHOOSE u \in Task : pc[u] = "free"

-----------------------------------------------------------------------------
Init == /\ status = "created" /\ author = None
        /\ row = [f \in Firmware |-> "absent"]
        /\ extracted = {} /\ rtos = {} /\ stage = {} /\ busy = {}
        /\ lock = None /\ enq = None
        /\ del = [f \in Firmware |-> "none"]
        /\ rootfs = [f \in Firmware |-> "none"]
        /\ pc = [t \in Task |-> "free"]
        /\ job = [t \in Task |-> [fw |-> None, via |-> "arq"]]
        /\ seen = [t \in Task |-> Unread]
        /\ lapsed = {} /\ crashes = 0

-----------------------------------------------------------------------------
(* Request handlers *)

\* The upload request commits the new row and starts post-processing.
Upload(f) == /\ row[f] = "absent"
             /\ row' = [row EXCEPT ![f] = "present"]
             /\ busy' = busy \cup {f}
             /\ UNCHANGED <<projVars, extracted, rtos, stage, reqVars, taskVars, crashes>>

\* Mutant: the row is not looked up again after the archive was unpacked.
MutPostProcess(f, found) ==
    /\ f \in busy
    /\ busy' = busy \ {f}
    /\ extracted' = IF found THEN extracted \cup {f} ELSE extracted
    /\ UNCHANGED <<projVars, row, rtos, stage, reqVars, taskVars, crashes>>

\* Post-processing of an upload: an archive that holds a root file system is
\* unpacked on the spot.  The project's status is not touched.
PostProcess(f, found) ==
    /\ f \in busy
    /\ busy' = busy \ {f}
    /\ extracted' = IF found /\ row[f] = "present" THEN extracted \cup {f} ELSE extracted
    /\ UNCHANGED <<projVars, row, rtos, stage, reqVars, taskVars, crashes>>

\* POST unpack: the project row is locked, then every condition is checked.
UnpackBegin(f) ==
    /\ ~Locked
    /\ row[f] = "present"
    /\ f \notin extracted
    /\ status # "unpacking"
    /\ lock' = f
    /\ UNCHANGED <<projVars, rowVars, enq, del, rootfs, taskVars, crashes>>

\* The image is no longer on disk, or the job queue refuses the job.
UnpackAbort ==
    /\ Locked
    /\ enq = None
    /\ lock' = None
    /\ UNCHANGED <<projVars, rowVars, enq, del, rootfs, taskVars, crashes>>

\* The task is started, in the arq worker or in this process, before the
\* request's transaction commits.
UnpackEnqueue(t, via) ==
    /\ Locked
    /\ enq = None
    /\ Fresh(t)
    /\ enq' = t
    /\ Goto(t, "queued")
    /\ job' = [job EXCEPT ![t] = [fw |-> lock, via |-> via]]
    /\ UNCHANGED <<projVars, rowVars, lock, del, rootfs, seen, lapsed, crashes>>

\* get_db commits at the end of the request.
UnpackCommit ==
    /\ enq # None
    /\ status' = "unpacking" /\ author' = None
    /\ lock' = None
    /\ enq' = None
    /\ UNCHANGED <<rowVars, del, rootfs, taskVars, crashes>>

\* DELETE firmware reads the firmware and, if it is not extracted, the project.
DeleteBegin(f) ==
    /\ "delete" \in Ops
    /\ row[f] = "present"
    /\ del[f] = "none"
    /\ del' = [del EXCEPT ![f] = IF f \notin extracted /\ status = "unpacking"
                                 THEN "clear" ELSE "keep"]
    /\ UNCHANGED <<projVars, rowVars, lock, enq, rootfs, taskVars, crashes>>

\* It clears the status if it read "unpacking", and deletes the row.
DeleteCommit(f) ==
    /\ del[f] # "none"
    /\ IF del[f] = "clear" THEN SetStatus(f, "unpacking", "created")
                           ELSE UNCHANGED projVars
    /\ row' = [row EXCEPT ![f] = "deleted"]
    /\ extracted' = extracted \ {f}
    /\ rtos' = rtos \ {f}
    /\ stage' = stage \ {f}
    /\ del' = [del EXCEPT ![f] = "none"]
    /\ UNCHANGED <<busy, lock, enq, rootfs, taskVars, crashes>>

\* POST upload-rootfs: read the rows, unpack the archive, then write.
RootfsBegin(f) ==
    /\ "rootfs" \in Ops
    /\ row[f] = "present"
    /\ rootfs[f] = "none"
    /\ f \notin extracted
    /\ rootfs' = [rootfs EXCEPT ![f] = IF status = "ready" THEN "ready" ELSE "other"]
    /\ UNCHANGED <<projVars, rowVars, lock, enq, del, taskVars, crashes>>

RootfsCommit(f) ==
    /\ rootfs[f] # "none"
    /\ row[f] = "present"
    /\ SetStatus(f, rootfs[f], "ready")
    /\ extracted' = extracted \cup {f}
    /\ rootfs' = [rootfs EXCEPT ![f] = "none"]
    /\ UNCHANGED <<row, rtos, stage, busy, lock, enq, del, taskVars, crashes>>

\* The archive has no file system root, or the row is gone: nothing is written.
RootfsFail(f) ==
    /\ rootfs[f] # "none"
    /\ rootfs' = [rootfs EXCEPT ![f] = "none"]
    /\ UNCHANGED <<projVars, rowVars, lock, enq, del, taskVars, crashes>>

\* Import of a device dump adds a firmware row and starts its unpacking in
\* this process; the row is committed when the request ends.
Import(f, t) ==
    /\ "import" \in Ops
    /\ row[f] = "absent"
    /\ Fresh(t)
    /\ row' = [row EXCEPT ![f] = "inserting"]
    /\ Goto(t, "run")
    /\ job' = [job EXCEPT ![t] = [fw |-> f, via |-> "import"]]
    /\ UNCHANGED <<projVars, extracted, rtos, stage, busy, reqVars, seen, lapsed, crashes>>

ImportCommit(f) ==
    /\ row[f] = "inserting"
    /\ row' = [row EXCEPT ![f] = "present"]
    /\ UNCHANGED <<projVars, extracted, rtos, stage, busy, reqVars, taskVars, crashes>>

-----------------------------------------------------------------------------
(* The background task *)

\* Mutant: the early return for a missing row is outside the "try".
MutStart(t) ==
    /\ pc[t] = "queued"
    /\ Goto(t, IF row[job[t].fw] = "present" THEN "run" ELSE "done")
    /\ UNCHANGED <<projVars, rowVars, reqVars, job, seen, lapsed, crashes>>

\* The task reads its firmware row; a missing row ends it through "finally".
Start(t) ==
    /\ pc[t] = "queued"
    /\ Goto(t, IF row[job[t].fw] = "present" THEN "run" ELSE "finally")
    /\ UNCHANGED <<projVars, rowVars, reqVars, job, seen, lapsed, crashes>>

\* _update_progress, in a session of its own.  An import reports no progress.
Progress(t) ==
    /\ pc[t] = "run"
    /\ job[t].via # "import"
    /\ row[job[t].fw] = "present"
    /\ stage' = stage \cup {job[t].fw}
    /\ UNCHANGED <<projVars, row, extracted, rtos, busy, reqVars, taskVars, crashes>>

\* The extraction returns, with a root file system, with none but a recognised
\* RTOS (a success too), or with neither, and the last session reads project and firmware.
RunReturns(t, res) ==
    /\ pc[t] = "run"
    /\ seen' = [seen EXCEPT ![t] = Read(job[t].fw, res)]
    /\ Goto(t, "finish")
    /\ UNCHANGED <<projVars, rowVars, reqVars, job, lapsed, crashes>>

\* Mutant: no "finally" block.
MutAfterBody(t) == "done"

\* An unpack task ends through its "finally" block; an import has none.
AfterBody(t) == IF job[t].via = "import" THEN "done" ELSE "finally"

\* The extraction raises, times out, or the last session fails.
RunRaises(t) ==
    /\ pc[t] \in {"run", "finish"}
    /\ Close(t, AfterBody(t))
    /\ UNCHANGED <<projVars, rowVars, reqVars, job, lapsed, crashes>>

\* The firmware was gone when the last session read it.
FinishMissing(t) ==
    /\ pc[t] = "finish"
    /\ ~seen[t].present
    /\ IF job[t].via = "inproc" /\ seen[t].status = "unpacking"
       THEN SetStatus(job[t].fw, seen[t].status, "created")
       ELSE UNCHANGED projVars
    /\ Close(t, AfterBody(t))
    /\ UNCHANGED <<rowVars, reqVars, job, lapsed, crashes>>

\* Mutant: result.success is not looked at.
MutOutcome(res) == "ready"

Outcome(res) == IF res = "fail" THEN "error" ELSE "ready"

\* What a success leaves in extracted_path, unless the path is the one that was
\* read: the tree's path, or NULL for an RTOS image.
Recorded(t) ==
    LET f == job[t].fw IN
    CASE seen[t].result = "fail"   -> {extracted}
      [] seen[t].result = "rootfs" -> {extracted \cup {f}}
                                      \cup (IF seen[t].extracted THEN {extracted} ELSE {})
      [] seen[t].result = "rtos"   -> {IF seen[t].extracted THEN extracted \ {f} ELSE extracted}

\* The result is committed, unless the row was deleted since it was read.
FinishCommit(t) ==
    LET f == job[t].fw IN
    /\ pc[t] = "finish"
    /\ seen[t].present
    /\ row[f] = "present"
    /\ SetStatus(f, seen[t].status, Outcome(seen[t].result))
    /\ extracted' \in Recorded(t)
    /\ rtos' = IF seen[t].result = "rtos" THEN rtos \cup {f} ELSE rtos
    /\ stage' = IF job[t].via # "import" /\ seen[t].stage THEN stage \ {f} ELSE stage
    /\ Close(t, AfterBody(t))
    /\ UNCHANGED <<row, busy, reqVars, job, lapsed, crashes>>

\* The "finally" block reads project and firmware ...
FinallyRead(t) ==
    /\ pc[t] = "finally"
    /\ seen' = [seen EXCEPT ![t] = Read(job[t].fw, "fail")]
    /\ Goto(t, "reset")
    /\ lapsed' = IF enq = t THEN lapsed \cup {t} ELSE lapsed
    /\ UNCHANGED <<projVars, rowVars, reqVars, job, crashes>>

\* The status it stamps on a project that it read as "unpacking".
Verdict(t) == IF job[t].via = "inproc" /\ ~seen[t].present THEN "created" ELSE "error"

\* Mutant: the progress columns are only cleared along with the status.
MutClears(t) == seen[t].present /\ seen[t].stage /\ seen[t].status = "unpacking"

\* It clears the progress columns of a firmware that has no file system.
Clears(t) == seen[t].present /\ seen[t].stage /\ ~seen[t].extracted

\* ... and clears what it read as stuck.  A row deleted meanwhile rolls both
\* writes back.
FinallyWrite(t) ==
    LET f == job[t].fw IN
    /\ pc[t] = "reset"
    /\ IF Clears(t) /\ row[f] # "present"
       THEN lapsed' = lapsed \cup {t} /\ UNCHANGED <<projVars, stage>>
       ELSE /\ IF seen[t].status = "unpacking" THEN SetStatus(f, "unpacking", Verdict(t))
                                               ELSE UNCHANGED projVars
            /\ stage' = IF Clears(t) THEN stage \ {f} ELSE stage
            /\ UNCHANGED lapsed
    /\ Close(t, "done")
    /\ UNCHANGED <<row, extracted, rtos, busy, reqVars, job, crashes>>

\* The database fails the "finally" block, which logs it and gives up.
FinallyRaises(t) ==
    /\ pc[t] \in {"finally", "reset"}
    /\ crashes < MaxCrash
    /\ crashes' = crashes + 1
    /\ Close(t, "done")
    /\ UNCHANGED <<projVars, rowVars, reqVars, job, lapsed>>

-----------------------------------------------------------------------------
(* Crashes *)

\* The backend process dies: its requests and in-process tasks are gone.
BackendCrash ==
    /\ crashes < MaxCrash
    /\ crashes' = crashes + 1
    /\ busy' = {}
    /\ lock' = None /\ enq' = None
    /\ del' = [f \in Firmware |-> "none"]
    /\ rootfs' = [f \in Firmware |-> "none"]
    /\ row' = [f \in Firmware |-> IF row[f] = "inserting" THEN "absent" ELSE row[f]]
    /\ pc' = [t \in Task |-> IF Live(t) /\ job[t].via # "arq" THEN "lost" ELSE pc[t]]
    /\ seen' = [t \in Task |-> IF job[t].via # "arq" THEN Unread ELSE seen[t]]
    /\ UNCHANGED <<projVars, extracted, rtos, stage, job, lapsed>>

\* The worker dies: arq delivers its unfinished jobs again.
WorkerCrash ==
    /\ crashes < MaxCrash
    /\ crashes' = crashes + 1
    /\ pc' = [t \in Task |-> IF Live(t) /\ job[t].via = "arq" THEN "queued" ELSE pc[t]]
    /\ seen' = [t \in Task |-> IF job[t].via = "arq" THEN Unread ELSE seen[t]]
    /\ UNCHANGED <<projVars, rowVars, reqVars, job, lapsed>>

-----------------------------------------------------------------------------
FirmwareStep(f) ==
    \/ Upload(f) \/ \E found \in BOOLEAN : PostProcess(f, found)
    \/ UnpackBegin(f)
    \/ DeleteBegin(f) \/ DeleteCommit(f)
    \/ RootfsBegin(f) \/ RootfsCommit(f) \/ RootfsFail(f)
    \/ ImportCommit(f)

TaskStep(t) ==
    \/ Start(t) \/ Progress(t)
    \/ \E res \in Result : RunReturns(t, res)
    \/ RunRaises(t)
    \/ FinishMissing(t) \/ FinishCommit(t)
    \/ FinallyRead(t) \/ FinallyWrite(t) \/ FinallyRaises(t)

Next ==
    \/ \E f \in Firmware : FirmwareStep(f)
    \/ UnpackAbort \/ UnpackCommit
    \/ \E t \in Task, via \in {"arq", "inproc"} : UnpackEnqueue(t, via)
    \/ \E f \in Firmware, t \in Task : Import(f, t)
    \/ \E t \in Task : TaskStep(t)
    \/ BackendCrash \/ WorkerCrash

Spec == Init /\ [][Next]_vars

\* An unpack request ends; a task runs to its end.  Nothing obliges a user to
\* act, and processes need not crash.
HandlerEnds == UnpackAbort \/ UnpackCommit
TaskEnds(t) == \/ Start(t) \/ \E res \in Result : RunReturns(t, res)
               \/ FinishMissing(t) \/ FinishCommit(t) \/ RunRaises(t)
               \/ FinallyRead(t) \/ FinallyWrite(t)
Fairness == WF_vars(HandlerEnds) /\ \A t \in Task : WF_vars(TaskEnds(t))
FairSpec == Spec /\ Fairness

-----------------------------------------------------------------------------
(* Properties *)

\* Every variable keeps its type, and what refers to a firmware or to a task
\* refers to one that has been added or started.
TypeOK ==
    /\ status \in Status
    /\ author \in Firmware \cup {None}
    /\ row \in [Firmware -> Row]
    /\ extracted \subseteq {f \in Firmware : row[f] = "present"}
    /\ rtos \subseteq {f \in Firmware : row[f] = "present"}
    /\ stage \subseteq {f \in Firmware : row[f] = "present"}
    /\ busy \subseteq Firmware
    /\ lock \in Firmware \cup {None}
    /\ enq \in Task \cup {None}
    /\ enq # None => lock # None
    /\ del \in [Firmware -> Del]
    /\ rootfs \in [Firmware -> {"none", "ready", "other"}]
    /\ pc \in [Task -> PC]
    /\ job \in [Task -> [fw : Firmware \cup {None}, via : Via]]
    /\ \A t \in Task : pc[t] # "free" => job[t].fw \in Firmware
    /\ seen \in [Task -> Seen]
    /\ lapsed \subseteq Task
    /\ crashes \in 0 .. MaxCrash

\* A project whose status is "unpacking" is waiting for a task that will still
\* settle it.  That is lost only in a crash or a failed clean-up, in a task whose
\* "finally" block read the project before its unpack request committed, and in
\* one whose firmware was deleted between that block's reads and its writes.
StuckOnlyByRaceOrCrash ==
    (status = "unpacking" /\ lapsed = {} /\ crashes = 0) =>
        \E t \in Task : /\ job[t].via # "import"
                        /\ \/ Pending(t)
                           \/ pc[t] = "reset" /\ seen[t].status = "unpacking"

\* Progress columns of a firmware that is not unpacked yet, with a file system or
\* as an RTOS image, belong to a task that still runs: the "finally" block leaves
\* no stale progress behind.
NoStaleProgress ==
    crashes = 0 => \A f \in stage \ (extracted \cup rtos) :
                      \E t \in Task : job[t].fw = f /\ job[t].via # "import" /\ Live(t)

\* While a project is "ready", the firmware that made it so has a file system,
\* was recognised as an RTOS image, which has none, or has been deleted since: no
\* late commit of another task or request takes its tree away, and no failed
\* unpack counts as one that succeeded.
ReadyIsBacked ==
    status = "ready" => \/ row[author] = "deleted"
                        \/ author \in extracted \cup rtos

\* A project does not stay "unpacking", except for the losses above.
UnpackingEnds ==
    (status = "unpacking") ~> (status # "unpacking" \/ lapsed # {} \/ crashes > 0)
=============================================================================
