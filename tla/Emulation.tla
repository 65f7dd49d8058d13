----------------------------- MODULE Emulation ------------------------------
(***************************************************************************)
(* Emulation sessions of one project.  A start request counts the active   *)
(* sessions, inserts a "pending" row, answers 202 and hands the boot to a  *)
(* job, in the arq worker or in the backend process.  The job creates a    *)
(* container, prepares it and commits "ready" together with the            *)
(* container's id, which is nowhere on record until then.  Requests stop,  *)
(* inspect and delete sessions; a cron job of the worker stops those that  *)
(* have been up too long.                                                  *)
(*                                                                         *)
(* A job keeps the row object it loaded and writes through it whatever     *)
(* others have committed since; an UPDATE of a deleted row fails.  Windows  *)
(* in which a container is built or stopped are separate steps; a read and *)
(* the commit that follows it at once are one step.                        *)
(***************************************************************************)
EXTENDS Naturals, FiniteSets

CONSTANTS Session,      \* rows that may be inserted
          Container,    \* containers that may be created
          MaxRequest,   \* start requests that may be served at a time
          None,
          Kinds,        \* bound: what each session may run
          Via,          \* the process that boots it
          MaxSessions,  \* settings.emulation_max_sessions
          MaxFault      \* bound: crashes, timeouts and failed calls per behaviour

Kind == {"user", "system", "qiling"}

ASSUME ConstAssumption ==
    /\ None \notin Container
    /\ Kinds \in [Session -> SUBSET Kind]
    /\ Via \in [Session -> {"arq", "inproc"}]
    /\ IsFiniteSet(Session)
    /\ MaxRequest \in Nat
    /\ MaxSessions \in Nat \ {0}
    /\ MaxFault \in Nat

VARIABLES row,        \* status column of each session, "none" or "gone"
          cid,        \* container_id column
          stoppedAt,  \* sessions whose stopped_at column is set
          kind,       \* what each session runs
          counted,    \* number of requests that have passed the check of the limit
          job,        \* where the job of each session is
          mem,        \* the container that the job works on
          state,      \* of each container
          label,      \* the session it was created for
          stopping,   \* sessions that a stop request is about to mark
          todo, done, \* sessions the expiry job has still to stop, has stopped
          raced,      \* history: sessions stopped while their job was at work
          again,      \* history: sessions whose job was run again after its end
          faults      \* history: number of crashes and failed calls

rows == <<row, cid, stoppedAt, kind>>
jobs == <<job, mem, again>>
reap == <<todo, done>>
docker == <<state, label>>
vars == <<rows, counted, jobs, docker, stopping, reap, raced, faults>>

Row    == {"none", "pending", "booting", "ready", "stopped", "error", "gone"}
JobPC  == {"none", "queued", "booting", "setup", "probe", "ack", "ended", "lost"}
Active == {"pending", "booting", "ready"}
Final  == {"stopped", "error"}
Live   == {"up", "hollow"}

\* The job of s has still something to write.
Working(s) == job[s] \in {"queued", "booting", "setup", "probe"}

\* arq learns only after the last commit of a job that it need not run it again.
Last(s) == IF Via[s] = "arq" THEN "ack" ELSE "ended"
Open(s) == Working(s) \/ job[s] = "ack"

ActiveSessions == {s \in Session : row[s] \in Active}

\* A row that the expiry job has updated stays locked until that job commits.
Locked(s) == s \in done

\* The status (and the end time) that a commit puts on the row of s, if the row
\* is still there.
Put(s, status, ended) ==
    /\ row' = [row EXCEPT ![s] = IF @ = "gone" THEN @ ELSE status]
    /\ stoppedAt' = IF ended /\ row[s] # "gone" THEN stoppedAt \cup {s} ELSE stoppedAt

Fault == /\ faults < MaxFault
         /\ faults' = faults + 1

-----------------------------------------------------------------------------
Init == /\ row = [s \in Session |-> "none"]
        /\ cid = [s \in Session |-> None]
        /\ stoppedAt = {}
        /\ kind = [s \in Session |-> "user"]
        /\ counted = 0
        /\ job = [s \in Session |-> "none"]
        /\ mem = [s \in Session |-> None]
        /\ state = [k \in Container |-> "unused"]
        /\ label = [k \in Container |-> None]
        /\ stopping = {} /\ todo = {} /\ done = {} /\ raced = {} /\ again = {}
        /\ faults = 0

-----------------------------------------------------------------------------
(* Start requests *)

\* Mutant: one session too many passes.
MutCount ==
    /\ counted < MaxRequest
    /\ Cardinality(ActiveSessions) <= MaxSessions
    /\ counted' = counted + 1
    /\ UNCHANGED <<rows, jobs, docker, stopping, reap, raced, faults>>

\* create_pending_session finds a free slot.
Count ==
    /\ counted < MaxRequest
    /\ Cardinality(ActiveSessions) < MaxSessions
    /\ counted' = counted + 1
    /\ UNCHANGED <<rows, jobs, docker, stopping, reap, raced, faults>>

\* It inserts the row; the router commits it and hands the boot over.
Submit(s, k) ==
    /\ counted > 0
    /\ row[s] = "none"
    /\ counted' = counted - 1
    /\ row' = [row EXCEPT ![s] = "pending"]
    /\ kind' = [kind EXCEPT ![s] = k]
    /\ job' = [job EXCEPT ![s] = "queued"]
    /\ UNCHANGED <<cid, stoppedAt, mem, docker, stopping, reap, raced, again, faults>>

\* The queue cannot be reached once the row has been committed.
SubmitFails(s, k) ==
    /\ Fault
    /\ counted > 0
    /\ row[s] = "none"
    /\ counted' = counted - 1
    /\ row' = [row EXCEPT ![s] = "pending"]
    /\ kind' = [kind EXCEPT ![s] = k]
    /\ job' = [job EXCEPT ![s] = "lost"]
    /\ UNCHANGED <<cid, stoppedAt, mem, docker, stopping, reap, raced, again>>

-----------------------------------------------------------------------------
(* The boot job: spawn_session_background *)

\* It loads the row, whatever its status is, and commits "booting".
SpawnBegin(s) ==
    /\ job[s] = "queued"
    /\ Put(s, "booting", FALSE)
    /\ job' = [job EXCEPT ![s] = IF row[s] = "gone" THEN Last(s) ELSE "booting"]
    /\ UNCHANGED <<cid, kind, counted, mem, docker, stopping, reap, raced, again, faults>>

\* Qiling runs in the process and leaves no session behind.
QilingEnds(s, ok) ==
    /\ job[s] = "booting"
    /\ kind[s] = "qiling"
    /\ Put(s, IF ok THEN "stopped" ELSE "error", TRUE)
    /\ job' = [job EXCEPT ![s] = Last(s)]
    /\ UNCHANGED <<cid, kind, counted, mem, docker, stopping, reap, raced, again, faults>>

\* Docker creates a container under an id of its own.
Unused == {k \in Container : state[k] = "unused"}

CreateContainer(s) ==
    LET k == CHOOSE c \in Unused : TRUE IN
    /\ job[s] = "booting"
    /\ kind[s] # "qiling"
    /\ Unused # {}
    /\ state' = [state EXCEPT ![k] = "up"]
    /\ label' = [label EXCEPT ![k] = s]
    /\ mem' = [mem EXCEPT ![s] = k]
    /\ job' = [job EXCEPT ![s] = "setup"]
    /\ UNCHANGED <<rows, counted, stopping, reap, raced, again, faults>>

\* Mutant: the error is only logged.
MutSetupFails(s, removed) ==
    /\ job[s] \in {"booting", "setup"}
    /\ kind[s] # "qiling"
    /\ removed => job[s] = "setup"
    /\ state' = IF removed THEN [state EXCEPT ![mem[s]] = "removed"] ELSE state
    /\ mem' = [mem EXCEPT ![s] = None]
    /\ job' = [job EXCEPT ![s] = Last(s)]
    /\ UNCHANGED <<rows, counted, label, stopping, reap, raced, again, faults>>

\* No container is created, or preparing it raises.  Two of the places that
\* raise remove the container first.
SetupFails(s, removed) ==
    /\ job[s] \in {"booting", "setup"}
    /\ kind[s] # "qiling"
    /\ removed => job[s] = "setup"
    /\ Put(s, "error", TRUE)
    /\ state' = IF removed THEN [state EXCEPT ![mem[s]] = "removed"] ELSE state
    /\ mem' = [mem EXCEPT ![s] = None]
    /\ job' = [job EXCEPT ![s] = Last(s)]
    /\ UNCHANGED <<cid, kind, counted, label, stopping, reap, raced, again, faults>>

\* The container is prepared, its id is set on the job's row object.
SetupDone(s) ==
    /\ job[s] = "setup"
    /\ job' = [job EXCEPT ![s] = "probe"]
    /\ UNCHANGED <<rows, counted, mem, docker, stopping, reap, raced, again, faults>>

\* The commit that ends the job writes its status and the container's id.
JobCommits(s, status, ended) ==
    /\ Put(s, status, ended)
    /\ cid' = [cid EXCEPT ![s] = IF row[s] = "gone" THEN @ ELSE mem[s]]
    /\ mem' = [mem EXCEPT ![s] = None]
    /\ job' = [job EXCEPT ![s] = Last(s)]
    /\ UNCHANGED <<kind, counted, docker, stopping, reap, raced, again, faults>>

\* _await_ready finds the container running.
Ready(s) == /\ job[s] = "probe"
            /\ state[mem[s]] \in Live
            /\ JobCommits(s, "ready", FALSE)

\* Mutant: only user mode notices.
MutProbeFails(s) == /\ job[s] = "probe"
                    /\ kind[s] = "user"
                    /\ JobCommits(s, "error", TRUE)

\* It finds it gone, stopped or, in user mode, not prepared.
ProbeFails(s) == /\ job[s] = "probe"
                 /\ state[mem[s]] \notin Live \/ kind[s] = "user"
                 /\ JobCommits(s, "error", TRUE)

\* The commit fails, or the worker cancels the job after job_timeout.
JobLost(s) ==
    /\ Fault
    /\ job[s] \in {"booting", "setup", "probe"}
    /\ job' = [job EXCEPT ![s] = "lost"]
    /\ mem' = [mem EXCEPT ![s] = None]
    /\ UNCHANGED <<rows, counted, docker, stopping, reap, raced, again>>

Acknowledge(s) ==
    /\ job[s] = "ack"
    /\ job' = [job EXCEPT ![s] = "ended"]
    /\ UNCHANGED <<rows, counted, mem, docker, stopping, reap, raced, again, faults>>

-----------------------------------------------------------------------------
(* Requests about a session *)

\* Docker stops and removes the container on record, or fails to.
Remove(k, ok) == state' = IF ok /\ k # None THEN [state EXCEPT ![k] = "removed"] ELSE state

\* Mutant: the container is left to itself.
MutStopBegin(s, ok) ==
    /\ row[s] \in Active
    /\ s \notin stopping
    /\ IF ok THEN faults' = faults ELSE Fault
    /\ stopping' = stopping \cup {s}
    /\ raced' = IF Working(s) THEN raced \cup {s} ELSE raced
    /\ UNCHANGED <<rows, counted, jobs, docker, reap>>

\* stop_session, up to the update of the row.
StopBegin(s, ok) ==
    /\ row[s] \in Active
    /\ s \notin stopping
    /\ Remove(cid[s], ok)
    /\ IF ok THEN faults' = faults ELSE Fault
    /\ stopping' = stopping \cup {s}
    /\ raced' = IF Working(s) THEN raced \cup {s} ELSE raced
    /\ UNCHANGED <<rows, counted, jobs, label, reap>>

StopCommit(s) ==
    /\ s \in stopping
    /\ ~Locked(s)
    /\ Put(s, "stopped", TRUE)
    /\ stopping' = stopping \ {s}
    /\ UNCHANGED <<cid, kind, counted, jobs, docker, reap, raced, faults>>

\* What get_status concludes from the container of a session that says "ready".
Verdict(s) == CASE state[cid[s]] = "exited"  -> "error"
                [] state[cid[s]] = "hollow" /\ kind[s] = "system" -> "error"
                [] state[cid[s]] = "removed" -> "stopped"
                [] OTHER                     -> "ready"

GetStatus(s) ==
    /\ row[s] = "ready"
    /\ ~Locked(s)
    /\ Verdict(s) # "ready"
    /\ Put(s, Verdict(s), TRUE)
    /\ UNCHANGED <<cid, kind, counted, jobs, docker, stopping, reap, raced, faults>>

\* A command for a container that is gone, sent by an MCP tool: the REST handler
\* rolls the update back.
Exec(s) ==
    /\ row[s] = "ready"
    /\ ~Locked(s)
    /\ state[cid[s]] = "removed"
    /\ Put(s, "error", FALSE)
    /\ UNCHANGED <<cid, kind, counted, jobs, docker, stopping, reap, raced, faults>>

Delete(s) ==
    /\ row[s] \in Final
    /\ ~Locked(s)
    /\ row' = [row EXCEPT ![s] = "gone"]
    /\ UNCHANGED <<cid, stoppedAt, kind, counted, jobs, docker, stopping, reap, raced, faults>>

-----------------------------------------------------------------------------
(* Expiry: cleanup_expired *)

\* Mutant: the job looks for the status of older releases only.
MutExpireBegin(S) ==
    /\ todo = {} /\ done = {} /\ S # {}
    /\ \A s \in S : row[s] = "running"
    /\ todo' = S
    /\ UNCHANGED <<rows, counted, jobs, docker, stopping, done, raced, faults>>

\* The job loads the sessions that are up; S are those that have been so for
\* longer than allowed.
ExpireBegin(S) ==
    /\ todo = {} /\ done = {} /\ S # {}
    /\ \A s \in S : row[s] = "ready"
    /\ todo' = S
    /\ UNCHANGED <<rows, counted, jobs, docker, stopping, done, raced, faults>>

\* stop_session on the row object the job has loaded, up to its flush.
ExpireStop(s, ok) ==
    /\ s \in todo
    /\ Remove(IF row[s] = "gone" THEN None ELSE cid[s], ok)
    /\ IF ok THEN faults' = faults ELSE Fault
    /\ todo' = todo \ {s}
    /\ done' = IF row[s] = "gone" THEN done ELSE done \cup {s}
    /\ UNCHANGED <<rows, counted, jobs, label, stopping, raced>>

ExpireCommit ==
    /\ todo = {} /\ done # {}
    /\ row' = [s \in Session |-> IF s \in done THEN "stopped" ELSE row[s]]
    /\ stoppedAt' = stoppedAt \cup done
    /\ done' = {}
    /\ UNCHANGED <<cid, kind, counted, jobs, docker, stopping, todo, raced, faults>>

-----------------------------------------------------------------------------
(* The world *)

\* A container exits, or the emulator inside it does.
ContainerDies(k, how) ==
    /\ state[k] = "up"
    /\ how = "hollow" => kind[label[k]] = "system"
    /\ state' = [state EXCEPT ![k] = how]
    /\ UNCHANGED <<rows, counted, jobs, label, stopping, reap, raced, faults>>

\* The backend dies with its requests and the boots it runs itself.
BackendCrash ==
    /\ Fault
    /\ counted' = 0 /\ stopping' = {}
    /\ job' = [s \in Session |-> IF Working(s) /\ Via[s] = "inproc" THEN "lost" ELSE job[s]]
    /\ mem' = [s \in Session |-> IF Via[s] = "inproc" THEN None ELSE mem[s]]
    /\ UNCHANGED <<rows, docker, reap, raced, again>>

\* Mutant: acknowledged jobs are delivered again.
MutWorkerCrash ==
    /\ Fault
    /\ job' = [s \in Session |-> IF job[s] # "none" /\ Via[s] = "arq" THEN "queued" ELSE job[s]]
    /\ again' = again \cup {s \in Session : job[s] = "ack"}
    /\ mem' = [s \in Session |-> IF Via[s] = "arq" THEN None ELSE mem[s]]
    /\ todo' = {} /\ done' = {}
    /\ UNCHANGED <<rows, counted, docker, stopping, raced>>

\* The worker dies: arq delivers its jobs again, one that has ended and is not
\* acknowledged among them; the expiry job is rolled back.
WorkerCrash ==
    /\ Fault
    /\ job' = [s \in Session |-> IF Open(s) /\ Via[s] = "arq" THEN "queued" ELSE job[s]]
    /\ again' = again \cup {s \in Session : job[s] = "ack"}
    /\ mem' = [s \in Session |-> IF Via[s] = "arq" THEN None ELSE mem[s]]
    /\ todo' = {} /\ done' = {}
    /\ UNCHANGED <<rows, counted, docker, stopping, raced>>

-----------------------------------------------------------------------------
JobStep(s) ==
    \/ SpawnBegin(s) \/ CreateContainer(s) \/ SetupDone(s) \/ Ready(s) \/ ProbeFails(s)
    \/ Acknowledge(s)
    \/ \E ok \in BOOLEAN : QilingEnds(s, ok) \/ SetupFails(s, ok)

\* A handler of the router, or its MCP counterpart, is served.
Request(s) ==
    \/ StopCommit(s) \/ GetStatus(s) \/ Exec(s) \/ Delete(s)
    \/ \E ok \in BOOLEAN : StopBegin(s, ok)
    \/ \E k \in Kinds[s] : Submit(s, k) \/ SubmitFails(s, k)

SessionStep(s) == Request(s) \/ JobLost(s) \/ \E ok \in BOOLEAN : ExpireStop(s, ok)

Next ==
    \/ \E s \in Session : JobStep(s) \/ SessionStep(s)
    \/ Count
    \/ \E S \in SUBSET Session : ExpireBegin(S)
    \/ ExpireCommit
    \/ \E k \in Container, how \in {"exited", "hollow"} : ContainerDies(k, how)
    \/ BackendCrash \/ WorkerCrash

Spec == Init /\ [][Next]_vars

\* A job that a process runs goes on.  The cron job is run every half hour, and
\* from some time on finds a session that stays up overdue.  Nothing obliges a
\* user to act.
Overdue(s) == \E S \in SUBSET Session : s \in S /\ ExpireBegin(S)
Fairness ==
    /\ \A s \in Session : /\ WF_vars(JobStep(s)) /\ WF_vars(Overdue(s))
                          /\ WF_vars(ExpireStop(s, TRUE))
    /\ WF_vars(ExpireCommit)
FairSpec == Spec /\ Fairness

-----------------------------------------------------------------------------
(* Properties *)

\* Every variable keeps its type; a session that says "ready" has its container
\* on record.
TypeOK ==
    /\ row \in [Session -> Row]
    /\ cid \in [Session -> Container \cup {None}]
    /\ stoppedAt \subseteq Session
    /\ kind \in [Session -> Kind]
    /\ counted \in 0 .. MaxRequest
    /\ job \in [Session -> JobPC]
    /\ mem \in [Session -> Container \cup {None}]
    /\ state \in [Container -> {"unused", "up", "hollow", "exited", "removed"}]
    /\ label \in [Container -> Session \cup {None}]
    /\ stopping \subseteq Session /\ raced \subseteq Session /\ again \subseteq Session
    /\ todo \subseteq Session /\ done \subseteq Session
    /\ faults \in 0 .. MaxFault
    /\ \A s \in Session : row[s] = "ready" => cid[s] # None

\* Requests that overlap can exceed the limit by one each, and no further; only
\* sessions that came back escape the count: they were stopped while they booted,
\* or their job was run again after its end.
LimitHolds ==
    Cardinality({s \in ActiveSessions : s \notin stoppedAt \cup again}) + counted
        <= MaxSessions - 1 + MaxRequest

\* A container that runs is being prepared or serves a session that says "ready".
\* Without faults, others are left behind only by sessions that ended in an
\* error and by those that were stopped while their job was at work.
LeakHasCause ==
    \A k \in Container : state[k] \in Live =>
        LET s == label[k] IN
            \/ mem[s] = k
            \/ row[s] = "ready" /\ cid[s] = k
            \/ row[s] \in {"error", "gone"}
            \/ s \in raced
            \/ faults > 0

\* A session that is shown as pending or booting has a job that will still write
\* its row, or that a failure lost; no stop, crash or second delivery of the job
\* leaves another one behind.
BootingIsWorked ==
    \A s \in Session :
        row[s] \in {"pending", "booting"} => Working(s) \/ (job[s] = "lost" /\ faults > 0)

\* Every boot ends, unless its job was lost.
BootEnds == \A s \in Session : []<>(row[s] \notin {"pending", "booting"} \/ job[s] = "lost")

\* No session stays "ready" for ever: the cron job ends it.
ReadyExpires == \A s \in Session : []<>(row[s] # "ready")

\* Seen from outside, a session is over when its row has an outcome and its job
\* will not write again.  With that reading the service keeps the promise
\* of Lifecycle: what is over stays over.
PhaseOf(s) == CASE row[s] = "none"                     -> "none"
                [] row[s] # "none" /\ Open(s)          -> "active"
                [] row[s] \in Active /\ ~Open(s)       -> "active"
                [] row[s] \in Final /\ ~Open(s)        -> "over"
                [] row[s] = "gone" /\ ~Open(s)         -> "gone"
Outcome == INSTANCE Lifecycle WITH
               Work <- Session, Result <- {"over"}, phase <- [s \in Session |-> PhaseOf(s)]
OutcomeIsFinal == Outcome!Spec
=============================================================================
