------------------------------ MODULE Fuzzing -------------------------------
(***************************************************************************)
(* Fuzzing campaigns of one project.  A campaign is created, then started: *)
(* the request marks the row "queued" and a task of the backend spawns a   *)
(* container, which is on record only once the task commits "running".     *)
(* A stopped campaign can be started again.  A cron job of the worker      *)
(* reconciles the rows with the containers that Docker lists: it loads all *)
(* rows, lists the containers and removes those it takes for orphans, and  *)
(* commits the rows it has corrected.                                      *)
(*                                                                         *)
(* Requests come to the backend and to the MCP server, two processes.  A   *)
(* spawn creates at most one container, so containers bear the names of    *)
(* the tasks.  Tasks, stop requests and the cron job write through row     *)
(* objects they loaded earlier, whatever has been committed since.         *)
(***************************************************************************)
EXTENDS Naturals, FiniteSets

CONSTANTS Campaign,      \* rows that may be inserted
          Task,          \* start requests, and the spawns they schedule
          None,
          MaxCampaigns,  \* settings.fuzzing_max_campaigns
          MaxRequest,    \* bound: create requests served at a time
          MaxFault       \* bound: crashes and failed calls per behaviour

ASSUME ConstAssumption ==
    /\ None \notin Campaign \cup Task
    /\ MaxCampaigns \in Nat \ {0}
    /\ MaxRequest \in Nat
    /\ MaxFault \in Nat

VARIABLES row,      \* status column of each campaign
          cid,      \* container_id column
          counted,  \* create requests that have passed the check of the limit
          pc, of,   \* where each task is, and the campaign it starts
          box,      \* the container of each task
          stopping, \* campaigns that a stop request is about to mark
          reaper,   \* where the cron job is
          seen,     \* the rows it has loaded
          fixed,    \* the rows it will mark "error"
          reaped,   \* history: containers that the cron job removed
          faults    \* history: number of crashes and failed calls

rows  == <<row, cid>>
tasks == <<pc, of>>
cron  == <<reaper, seen, fixed>>
vars  == <<rows, counted, tasks, box, stopping, cron, reaped, faults>>

Row    == {"none", "created", "queued", "running", "stopped", "error"}
Active == {"created", "queued", "running"}
Final  == {"stopped", "error"}
PC     == {"none", "start", "spawn", "checked", "setup", "launched", "ended"}
Box    == {"unused", "up", "exited", "removed"}
Listed == {t \in Task : box[t] \in {"up", "exited"}}

ActiveCampaigns == {c \in Campaign : row[c] \in Active}

Nothing == [status |-> [c \in Campaign |-> "none"], cid |-> [c \in Campaign |-> None]]

Fault == /\ faults < MaxFault
         /\ faults' = faults + 1

\* A commit that gives every row in S the status r.
Put(S, r) == row' = [c \in Campaign |-> IF c \in S THEN r ELSE row[c]]

-----------------------------------------------------------------------------
Init == /\ row = [c \in Campaign |-> "none"]
        /\ cid = [c \in Campaign |-> None]
        /\ counted = 0
        /\ pc = [t \in Task |-> "none"]
        /\ of = [t \in Task |-> None]
        /\ box = [t \in Task |-> "unused"]
        /\ stopping = {}
        /\ reaper = "idle" /\ seen = Nothing /\ fixed = {}
        /\ reaped = {} /\ faults = 0

-----------------------------------------------------------------------------
(* Creating and starting *)

\* create_campaign finds a free slot.
Count ==
    /\ counted < MaxRequest
    /\ Cardinality(ActiveCampaigns) < MaxCampaigns
    /\ counted' = counted + 1
    /\ UNCHANGED <<rows, tasks, box, stopping, cron, reaped, faults>>

\* It commits the row.  The MCP tool marks it "queued" in the same transaction
\* and schedules no spawn.
Create(c, status) ==
    /\ counted > 0
    /\ row[c] = "none"
    /\ counted' = counted - 1
    /\ Put({c}, status)
    /\ UNCHANGED <<cid, tasks, box, stopping, cron, reaped, faults>>

\* start_campaign checks the status; two requests may both get past it.
StartCheck(t, c) ==
    /\ pc[t] = "none"
    /\ row[c] \in {"created", "stopped"}
    /\ pc' = [pc EXCEPT ![t] = "start"]
    /\ of' = [of EXCEPT ![t] = c]
    /\ UNCHANGED <<rows, counted, box, stopping, cron, reaped, faults>>

\* The router commits "queued" and schedules the spawn.
StartCommit(t) ==
    /\ pc[t] = "start"
    /\ Put({of[t]}, "queued")
    /\ pc' = [pc EXCEPT ![t] = "spawn"]
    /\ UNCHANGED <<cid, counted, of, box, stopping, cron, reaped, faults>>

-----------------------------------------------------------------------------
(* The spawn: _spawn_campaign_container *)

\* It goes on only with a row that is still "queued".
SpawnCheck(t) ==
    /\ pc[t] = "spawn"
    /\ pc' = [pc EXCEPT ![t] = IF row[of[t]] = "queued" THEN "checked" ELSE "ended"]
    /\ UNCHANGED <<rows, counted, of, box, stopping, cron, reaped, faults>>

CreateContainer(t) ==
    /\ pc[t] = "checked"
    /\ box' = [box EXCEPT ![t] = "up"]
    /\ pc' = [pc EXCEPT ![t] = "setup"]
    /\ UNCHANGED <<rows, counted, of, stopping, cron, reaped, faults>>

\* Preparing the container takes a number of calls that need it to run.
Launch(t) ==
    /\ pc[t] = "setup"
    /\ box[t] = "up"
    /\ pc' = [pc EXCEPT ![t] = "launched"]
    /\ UNCHANGED <<rows, counted, of, box, stopping, cron, reaped, faults>>

\* Mutant: the container is not put on record.
MutSpawnCommits(t) ==
    /\ pc[t] = "launched"
    /\ Put({of[t]}, "running")
    /\ pc' = [pc EXCEPT ![t] = "ended"]
    /\ UNCHANGED <<cid, counted, of, box, stopping, cron, reaped, faults>>

\* The commit that ends a spawn writes status and container together.
SpawnCommits(t) ==
    /\ pc[t] = "launched"
    /\ Put({of[t]}, "running")
    /\ cid' = [cid EXCEPT ![of[t]] = t]
    /\ pc' = [pc EXCEPT ![t] = "ended"]
    /\ UNCHANGED <<counted, of, box, stopping, cron, reaped, faults>>

\* Any of its calls raises: the row says so, the container is left.
SpawnFails(t) ==
    /\ pc[t] \in {"checked", "setup"}
    /\ Put({of[t]}, "error")
    /\ pc' = [pc EXCEPT ![t] = "ended"]
    /\ UNCHANGED <<cid, counted, of, box, stopping, cron, reaped, faults>>

\* Docker cannot be reached before the first call that is guarded, or the
\* commit fails: everything is rolled back.
SpawnLost(t) ==
    /\ Fault
    /\ pc[t] \in {"checked", "setup", "launched"}
    /\ pc' = [pc EXCEPT ![t] = "ended"]
    /\ UNCHANGED <<rows, counted, of, box, stopping, cron, reaped>>

-----------------------------------------------------------------------------
(* Requests about a campaign *)

\* stop_campaign, up to the update of the row.
StopBegin(c, ok) ==
    /\ row[c] \in Active
    /\ c \notin stopping
    /\ box' = IF ok /\ cid[c] # None THEN [box EXCEPT ![cid[c]] = "removed"] ELSE box
    /\ IF ok THEN faults' = faults ELSE Fault
    /\ stopping' = stopping \cup {c}
    /\ UNCHANGED <<rows, counted, tasks, cron, reaped>>

\* Mutant: a campaign that is running keeps its status.
MutStopCommit(c) ==
    /\ c \in stopping
    /\ Put({c} \ {d \in Campaign : row[d] = "running"}, "stopped")
    /\ stopping' = stopping \ {c}
    /\ UNCHANGED <<cid, counted, tasks, box, cron, reaped, faults>>

StopCommit(c) ==
    /\ c \in stopping
    /\ Put({c}, "stopped")
    /\ stopping' = stopping \ {c}
    /\ UNCHANGED <<cid, counted, tasks, box, cron, reaped, faults>>

\* get_campaign_status finds the container stopped or gone.
GetStatus(c) ==
    /\ row[c] = "running"
    /\ box[cid[c]] \in {"exited", "removed"}
    /\ Put({c}, IF box[cid[c]] = "exited" THEN "error" ELSE "stopped")
    /\ UNCHANGED <<cid, counted, tasks, box, stopping, cron, reaped, faults>>

-----------------------------------------------------------------------------
(* Reconciliation: cleanup_orphans *)

ReapLoad ==
    /\ reaper = "idle"
    /\ reaper' = "loaded"
    /\ seen' = [status |-> row, cid |-> cid]
    /\ UNCHANGED <<rows, counted, tasks, box, stopping, fixed, reaped, faults>>

\* Mutant: any row that has a container on record is left alone.
MutVanished(L) == {c \in Campaign : seen.status[c] = "running" /\ seen.cid[c] = None}

\* Rows that say "running" and whose container is not among those listed.
Vanished(L) ==
    {c \in Campaign : /\ seen.status[c] = "running"
                      /\ seen.cid[c] # None
                      /\ seen.cid[c] \notin L}

\* Mutant: queued campaigns are forgotten.
MutUnrecorded == {c \in Campaign : seen.status[c] = "running" /\ seen.cid[c] = None}

\* Rows that should have a container by now, as far as the job can tell.
Unrecorded ==
    {c \in Campaign : seen.status[c] \in {"running", "queued"} /\ seen.cid[c] = None}

\* Mutant: only containers on record are looked at.
MutDoomed(L) == {t \in L : \E c \in Campaign : seen.cid[c] = t /\ seen.status[c] \in Final}

\* Containers that no row records, or whose row has ended.
Doomed(L) == {t \in L : \A c \in Campaign : seen.cid[c] = t => seen.status[c] \in Final}

\* The containers are listed, the orphans removed.
ReapList(ok) ==
    /\ reaper = "loaded"
    /\ reaper' = "listed"
    /\ fixed' = Vanished(Listed) \cup Unrecorded
    /\ IF ok THEN /\ box' = [t \in Task |-> IF t \in Doomed(Listed) THEN "removed" ELSE box[t]]
                  /\ reaped' = reaped \cup Doomed(Listed)
                  /\ faults' = faults
             ELSE /\ Fault
                  /\ UNCHANGED <<box, reaped>>
    /\ seen' = Nothing
    /\ UNCHANGED <<rows, counted, tasks, stopping>>

\* Docker does not answer the listing: the job returns.
ReapListFails ==
    /\ Fault
    /\ reaper = "loaded"
    /\ reaper' = "idle" /\ seen' = Nothing
    /\ UNCHANGED <<rows, counted, tasks, box, stopping, fixed, reaped>>

ReapCommit ==
    /\ reaper = "listed"
    /\ Put(fixed, "error")
    /\ reaper' = "idle" /\ fixed' = {}
    /\ UNCHANGED <<cid, counted, tasks, box, stopping, seen, reaped, faults>>

-----------------------------------------------------------------------------
(* The world *)

ContainerExits(t) ==
    /\ box[t] = "up"
    /\ box' = [box EXCEPT ![t] = "exited"]
    /\ UNCHANGED <<rows, counted, tasks, stopping, cron, reaped, faults>>

\* The backend dies with its requests and tasks.
BackendCrash ==
    /\ Fault
    /\ counted' = 0 /\ stopping' = {}
    /\ pc' = [t \in Task |-> IF pc[t] = "none" THEN "none" ELSE "ended"]
    /\ UNCHANGED <<rows, of, box, cron, reaped>>

WorkerCrash ==
    /\ Fault
    /\ reaper' = "idle" /\ seen' = Nothing /\ fixed' = {}
    /\ UNCHANGED <<rows, counted, tasks, box, stopping, reaped>>

-----------------------------------------------------------------------------
TaskStep(t) ==
    \/ StartCommit(t) \/ SpawnCheck(t) \/ CreateContainer(t) \/ Launch(t)
    \/ SpawnCommits(t) \/ SpawnFails(t)

ReapStep == ReapLoad \/ ReapList(TRUE) \/ ReapCommit

Next ==
    \/ Count
    \/ \E c \in Campaign :
          \/ \E status \in {"created", "queued"} : Create(c, status)
          \/ \E t \in Task : StartCheck(t, c)
          \/ \E ok \in BOOLEAN : StopBegin(c, ok)
          \/ StopCommit(c) \/ GetStatus(c)
    \/ \E t \in Task : TaskStep(t) \/ SpawnLost(t) \/ ContainerExits(t)
    \/ ReapStep \/ ReapList(FALSE) \/ ReapListFails
    \/ BackendCrash \/ WorkerCrash

Spec == Init /\ [][Next]_vars

\* Tasks and stop requests go on while their process lives; the cron job is run
\* every half hour.
Fairness == /\ \A t \in Task : WF_vars(TaskStep(t))
            /\ \A c \in Campaign : WF_vars(StopCommit(c))
            /\ WF_vars(ReapStep)
FairSpec == Spec /\ Fairness

-----------------------------------------------------------------------------
(* Properties *)

\* Every variable keeps its type, and a campaign that says "running" has its
\* container on record (_spawn_campaign_container commits both together).
TypeOK ==
    /\ row \in [Campaign -> Row]
    /\ cid \in [Campaign -> Task \cup {None}]
    /\ counted \in 0 .. MaxRequest
    /\ pc \in [Task -> PC]
    /\ of \in [Task -> Campaign \cup {None}]
    /\ box \in [Task -> Box]
    /\ stopping \subseteq Campaign
    /\ reaper \in {"idle", "loaded", "listed"}
    /\ seen \in [status : [Campaign -> Row], cid : [Campaign -> Task \cup {None}]]
    /\ fixed \subseteq Campaign
    /\ reaped \subseteq Task
    /\ faults \in 0 .. MaxFault
    /\ \A c \in Campaign : row[c] = "running" => cid[c] # None

\* A campaign that says "running" has its container, unless a stop request is
\* about to mark it, the cron job took the container for an orphan, or the
\* request that removed it died.
RunningIsServed ==
    \A c \in Campaign :
        (row[c] = "running" /\ box[cid[c]] = "removed")
            => (c \in stopping \/ cid[c] \in reaped \/ faults > 0)

\* Whatever happens, a container that exists is removed in the end or comes to
\* be the one on record for an active campaign (side B of cleanup_orphans).
Recorded(t) == \E c \in ActiveCampaigns : cid[c] = t
OrphansReaped == \A t \in Task : t \in Listed ~> (t \notin Listed \/ Recorded(t))

\* A campaign does not go on saying "running" when its container is gone (side A).
Phantom(c) == row[c] = "running" /\ cid[c] \notin Listed
VanishedIsNoticed == \A c \in Campaign : Phantom(c) ~> ~Phantom(c)

\* A campaign that is queued for its first container does not stay so: its spawn
\* ends, or the cron job gives it up.
FirstStartEnds ==
    \A c \in Campaign : (row[c] = "queued" /\ cid[c] = None) ~> row[c] # "queued"
=============================================================================
