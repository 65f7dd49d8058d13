------------------------------ MODULE ScanJobs ------------------------------
(***************************************************************************)
(* The long-running analyses of one firmware row: SBOM generation,         *)
(* vulnerability scan, CVE match and .NET decompilation.  Each owns a      *)
(* status column that goes idle, queued, running, completed or failed; a   *)
(* request answers at once and clients poll the column.                    *)
(*                                                                         *)
(* Every session reads the row in one step and commits in a later one, and *)
(* others commit in between.  SQLAlchemy emits an UPDATE of a column only  *)
(* if its value differs from the one the session read, and sessions do not *)
(* refresh what they hold: a commit may leave out a column that another    *)
(* session has changed since.  Runs live in the backend process, the       *)
(* decompiler in the arq worker.  A finished SBOM starts a vulnerability   *)
(* scan and a CVE match of its own accord.  When the backend starts again  *)
(* it declares every run that a column says is in flight failed.           *)
(*                                                                         *)
(* The commits of a run's results and of its final status are one step.    *)
(***************************************************************************)
EXTENDS Naturals, FiniteSets

CONSTANTS Run,          \* bound: requests and runs in flight at a time
          Jobs,         \* bound: the analyses users request
          MaxPosts,     \* bound: the requests users make
          DbFaults,     \* bound: may the database fail a run's bookkeeping
          MaxRestart    \* bound: process restarts per behaviour

Job == {"sbom", "vuln", "cve", "dotnet"}

ASSUME ConstAssumption == Jobs \subseteq Job /\ DbFaults \in BOOLEAN
                          /\ MaxPosts \in Nat /\ MaxRestart \in Nat

VARIABLES status,       \* the status column of each analysis
          error,        \* analyses whose error column is set
          result,       \* analyses whose result column is set
          comps,        \* are there SBOM components
          pc,           \* where each run is
          job,          \* the analysis each run performs
          saw,          \* what the latest session of each request or run holds of its columns
          auto,         \* runs started by a finished SBOM
          worker,       \* runs in the arq worker
          bare,         \* history: analyses whose "completed" a follow-up has written
          blind,        \* history: analyses whose latest commit left out what it held as unchanged
          dropped,      \* history: analyses whose latest end of a run gave no verdict
          posts,        \* history: number of requests that passed their checks
          restarts      \* history: number of restarts

cols == <<status, error, result, comps>>
runs == <<pc, job, saw, auto, worker>>
hist == <<bare, blind, dropped>>
vars == <<cols, runs, hist, posts, restarts>>

Status == {"idle", "queued", "running", "completed", "failed"}
Active == {"queued", "running"}
Final  == {"completed", "failed"}
PC     == {"free", "checked", "spawned", "opened", "queued", "running", "failing"}

\* Analyses whose run stores a result on the row; the vulnerability scan's
\* summary is computed from its rows.
HasResult == {"sbom", "cve", "dotnet"}

\* A run that has made its column say it is in flight, and has not ended.
Owns(r) == \/ pc[r] \in {"opened", "queued", "running", "failing"}
           \/ pc[r] = "spawned" /\ r \notin auto

Goto(r, label) == pc' = [pc EXCEPT ![r] = label]

\* A run is over: nothing but its columns remains of it.
End(r) == /\ Goto(r, "free")
          /\ job' = [job EXCEPT ![r] = "sbom"]
          /\ saw' = [saw EXCEPT ![r] = {}]
          /\ auto' = auto \ {r}
          /\ worker' = worker \ {r}

\* The status column of j is written.
Set(j, s) == /\ status' = [status EXCEPT ![j] = s]
             /\ bare' = bare \ {j}
             /\ blind' = blind \ {j}

\* The next run to be started: run identifiers are interchangeable.
Fresh(S) == CHOOSE r \in S : pc[r] = "free"

-----------------------------------------------------------------------------
Init == /\ status = [j \in Job |-> "idle"]
        /\ error = {} /\ result = {} /\ comps = FALSE
        /\ pc = [r \in Run |-> "free"]
        /\ job = [r \in Run |-> "sbom"]
        /\ saw = [r \in Run |-> {}]
        /\ auto = {} /\ worker = {} /\ bare = {} /\ blind = {} /\ dropped = {}
        /\ posts = 0 /\ restarts = 0

-----------------------------------------------------------------------------
(* Requests *)

\* What a session reads of the columns of j: a status it may find unchanged, and
\* which of the others are set.
View(j) == {s \in {"running", "failed"} : status[j] = s}
           \cup (IF j \in error THEN {"error"} ELSE {})
           \cup (IF j \in result THEN {"result"} ELSE {})

\* A request for analysis j passes its checks.  The session keeps the row.
Post(r, j) ==
    /\ posts < MaxPosts
    /\ posts' = posts + 1
    /\ pc[r] = "free" /\ r = Fresh(Run)
    /\ j = "vuln" => comps
    /\ status[j] \notin Active
    /\ Goto(r, "checked")
    /\ job' = [job EXCEPT ![r] = j]
    /\ saw' = [saw EXCEPT ![r] = View(j)]
    /\ UNCHANGED <<cols, auto, worker, hist, restarts>>

\* The decompiler runs in the worker unless the job queue cannot be reached.
InWorker(j, arq) == arq /\ j = "dotnet"

\* It commits "queued", clears the previous outcome it has read and starts the run.
\* The decompiler is started before the commit, and may have read the row by then.
PostCommit(r, arq, early) ==
    /\ pc[r] = "checked"
    /\ r \notin auto
    /\ early => job[r] = "dotnet"
    /\ Set(job[r], "queued")
    /\ error' = IF "error" \in saw[r] THEN error \ {job[r]} ELSE error
    /\ result' = IF "result" \in saw[r] /\ job[r] \in {"cve", "dotnet"}
                 THEN result \ {job[r]} ELSE result
    /\ saw' = [saw EXCEPT ![r] = IF early THEN View("dotnet") ELSE {}]
    /\ worker' = IF InWorker(job[r], arq) THEN worker \cup {r} ELSE worker
    /\ Goto(r, IF early THEN "opened" ELSE "spawned")
    /\ UNCHANGED <<comps, job, auto, dropped, posts, restarts>>

-----------------------------------------------------------------------------
(* A requested run *)

\* A run selects its row.
RunOpens(r) ==
    /\ pc[r] = "spawned"
    /\ r \notin auto
    /\ saw' = [saw EXCEPT ![r] = View(job[r])]
    /\ Goto(r, "opened")
    /\ UNCHANGED <<cols, job, auto, worker, hist, posts, restarts>>

\* The columns of a previous outcome that a run resets as it begins, and those
\* that its session still holds as set afterwards.
Resets(j) == CASE j = "cve" -> {"error", "result"} [] j = "dotnet" -> {} [] OTHER -> {"error"}
Holds(r)  == (saw[r] \cap {"result"}) \ Resets(job[r])

\* Mutant: a column that says "queued" is taken for another run's.
MutRunBegin(r) ==
    LET j == job[r] IN
    /\ pc[r] = "opened"
    /\ status[j] # "queued"
    /\ Set(j, "running")
    /\ error' = IF "error" \in saw[r] \cap Resets(j) THEN error \ {j} ELSE error
    /\ result' = IF "result" \in saw[r] \cap Resets(j) THEN result \ {j} ELSE result
    /\ saw' = [saw EXCEPT ![r] = Holds(r)]
    /\ Goto(r, "running")
    /\ UNCHANGED <<comps, job, auto, worker, dropped, posts, restarts>>

\* It commits "running" and the resets.  A status it has read as "running" is not
\* written: if another run's verdict has replaced it since, that verdict stays and
\* what went with it is cleared.
RunBegin(r) ==
    LET j == job[r] IN
    /\ pc[r] = "opened"
    /\ IF "running" \in saw[r]
       THEN /\ UNCHANGED <<status, bare>>
            /\ blind' = IF status[j] \in Final THEN blind \cup {j} ELSE blind
       ELSE Set(j, "running")
    /\ error' = IF "error" \in saw[r] \cap Resets(j) THEN error \ {j} ELSE error
    /\ result' = IF "result" \in saw[r] \cap Resets(j) THEN result \ {j} ELSE result
    /\ saw' = [saw EXCEPT ![r] = Holds(r)]
    /\ Goto(r, "running")
    /\ UNCHANGED <<comps, job, auto, worker, dropped, posts, restarts>>

\* Mutant: a run keeps the result it finds.
MutCompleted(r, same) ==
    /\ pc[r] = "running"
    /\ r \notin auto
    /\ Set(job[r], "completed")
    /\ dropped' = dropped \ {job[r]}
    /\ UNCHANGED <<error, result, posts, restarts>>

\* The final commit of a requested run.  Its session still holds the error
\* column as empty, so that an error another run has left stays; a result that is
\* the same as the one it has read is not written.
Completed(r, same) ==
    LET j == job[r] IN
    /\ pc[r] = "running"
    /\ r \notin auto
    /\ same => "result" \in saw[r]
    /\ status' = [status EXCEPT ![j] = "completed"]
    /\ bare' = bare \ {j}
    /\ blind' = IF same /\ j \notin result THEN blind \cup {j} ELSE blind \ {j}
    /\ result' = IF same THEN result ELSE result \cup ({j} \cap HasResult)
    /\ dropped' = dropped \ {j}
    /\ UNCHANGED <<error, posts, restarts>>

RunCompletes(r, same) ==
    /\ job[r] # "sbom"
    /\ Completed(r, same)
    /\ End(r)
    /\ UNCHANGED comps

\* SBOM generation found nothing.
SbomEmpty(r, same) ==
    /\ job[r] = "sbom"
    /\ Completed(r, same)
    /\ comps' = FALSE
    /\ End(r)

\* It found components: runs v and c are started for the two follow-ups.
SbomChain(r, same, v, c) ==
    /\ job[r] = "sbom"
    /\ Completed(r, same)
    /\ pc[v] = "free" /\ pc[c] = "free" /\ v # c
    /\ v = Fresh(Run) /\ c = Fresh(Run \ {v})
    /\ comps' = TRUE
    /\ pc' = [pc EXCEPT ![r] = "free", ![v] = "spawned", ![c] = "spawned"]
    /\ job' = [job EXCEPT ![v] = "vuln", ![c] = "cve"]
    /\ saw' = [saw EXCEPT ![r] = {}]
    /\ auto' = auto \cup {v, c}
    /\ UNCHANGED worker

\* The failure handler rolls back and selects the row on a fresh session.
Handler(r) ==
    /\ r \notin auto
    /\ saw' = [saw EXCEPT ![r] = View(job[r])]
    /\ Goto(r, "failing")
    /\ UNCHANGED <<cols, job, auto, worker, hist, posts, restarts>>

\* A requested run raises in its work ...
RunRaises(r) == pc[r] = "running" /\ Handler(r)

\* ... or the database fails its opening, which the decompiler's handler does not
\* cover.
OpenRaises(r) ==
    /\ DbFaults
    /\ pc[r] \in {"spawned", "opened"}
    /\ job[r] # "dotnet"
    /\ Handler(r)

\* It commits "failed" and its error, except for what that session has read as
\* such: a failed status, or the same error text.
FailCommit(r, same) ==
    LET j == job[r] IN
    /\ pc[r] = "failing"
    /\ same => "error" \in saw[r]
    /\ error' = IF same THEN error ELSE error \cup {j}
    /\ IF "failed" \in saw[r]
       THEN UNCHANGED <<status, bare, blind, dropped>>
       ELSE /\ status' = [status EXCEPT ![j] = "failed"]
            /\ bare' = bare \ {j}
            /\ blind' = IF same /\ j \notin error THEN blind \cup {j} ELSE blind \ {j}
            /\ dropped' = dropped \ {j}
    /\ End(r)
    /\ UNCHANGED <<result, comps, posts, restarts>>

\* The database fails the decompiler's opening, or the failure handler of any
\* run: the outer guard logs it.
RunLost(r) ==
    /\ DbFaults
    /\ pc[r] \in {"spawned", "opened", "running", "failing"}
    /\ r \notin auto
    /\ End(r)
    /\ dropped' = dropped \cup {job[r]}
    /\ UNCHANGED <<cols, bare, blind, posts, restarts>>

\* The worker's job timeout cancels the decompiler: CancelledError is not an
\* Exception, so no handler runs.
JobTimeout(r) ==
    /\ pc[r] \in {"opened", "running", "failing"}
    /\ r \in worker
    /\ End(r)
    /\ dropped' = dropped \cup {"dotnet"}
    /\ UNCHANGED <<cols, bare, blind, posts, restarts>>

-----------------------------------------------------------------------------
(* A follow-up run *)

\* Mutant: a column that was never used counts as in flight.
MutNothingToDo(j) == status[j] \notin Final \/ j = "cve"

\* A run is in flight, or there is nothing to match.
NothingToDo(j) == status[j] \in Active \/ j = "cve"

AutoSkip(r) ==
    /\ r \in auto
    /\ pc[r] = "spawned"
    /\ NothingToDo(job[r])
    /\ End(r)
    /\ UNCHANGED <<cols, hist, posts, restarts>>

AutoCheck(r) ==
    /\ r \in auto
    /\ pc[r] = "spawned"
    /\ status[job[r]] \notin Active
    /\ Goto(r, "checked")
    /\ UNCHANGED <<cols, job, saw, auto, worker, hist, posts, restarts>>

AutoQueue(r) ==
    /\ r \in auto
    /\ pc[r] = "checked"
    /\ Set(job[r], "queued")
    /\ Goto(r, "queued")
    /\ UNCHANGED <<error, result, comps, job, saw, auto, worker, dropped, posts, restarts>>

AutoBegin(r) ==
    /\ r \in auto
    /\ pc[r] = "queued"
    /\ Set(job[r], "running")
    /\ Goto(r, "running")
    /\ UNCHANGED <<error, result, comps, job, saw, auto, worker, dropped, posts, restarts>>

\* It sets status and time, not the error and result columns.
AutoCompletes(r) ==
    /\ r \in auto
    /\ pc[r] = "running"
    /\ status' = [status EXCEPT ![job[r]] = "completed"]
    /\ bare' = bare \cup {job[r]}
    /\ blind' = blind \ {job[r]}
    /\ dropped' = dropped \ {job[r]}
    /\ End(r)
    /\ UNCHANGED <<error, result, comps, posts, restarts>>

\* An exception, of the work or of the database, is logged and nothing else.
AutoFails(r) ==
    /\ r \in auto
    /\ pc[r] = "running" \/ (DbFaults /\ pc[r] \in {"spawned", "checked", "queued"})
    /\ End(r)
    /\ dropped' = dropped \cup {job[r]}
    /\ UNCHANGED <<cols, bare, blind, posts, restarts>>

-----------------------------------------------------------------------------
(* Restarts *)

\* Mutant: the reaper overlooks runs that had not begun.
MutReaped(j) == status[j] = "running"

Reaped(j) == status[j] \in Active

\* Mutant: the reaper writes no error.
MutReapErrors == error

ReapErrors == error \cup {j \in Job : Reaped(j)}

\* The backend restarts: its requests and runs are gone, and the reapers sweep
\* every column before requests are served.
BackendRestart ==
    /\ restarts < MaxRestart
    /\ restarts' = restarts + 1
    /\ pc' = [r \in Run |-> IF r \in worker THEN pc[r] ELSE "free"]
    /\ job' = [r \in Run |-> IF r \in worker THEN job[r] ELSE "sbom"]
    /\ auto' = {}
    /\ status' = [j \in Job |-> IF Reaped(j) THEN "failed" ELSE status[j]]
    /\ error' = ReapErrors
    /\ dropped' = {}
    /\ saw' = [r \in Run |-> IF r \in worker THEN saw[r] ELSE {}]
    /\ UNCHANGED <<result, comps, worker, bare, blind, posts>>

\* The worker restarts: arq delivers unfinished jobs again.
WorkerRestart ==
    /\ restarts < MaxRestart
    /\ restarts' = restarts + 1
    /\ pc' = [r \in Run |-> IF r \in worker THEN "spawned" ELSE pc[r]]
    /\ saw' = [r \in Run |-> IF r \in worker THEN {} ELSE saw[r]]
    /\ UNCHANGED <<cols, job, auto, worker, hist, posts>>

-----------------------------------------------------------------------------
Requested(r) ==
    \/ pc[r] = "checked" /\ \E arq, early \in BOOLEAN : PostCommit(r, arq, early)
    \/ RunOpens(r) \/ RunBegin(r) \/ RunRaises(r)
    \/ pc[r] = "running" /\ \E same \in BOOLEAN :
           \/ RunCompletes(r, same) \/ SbomEmpty(r, same)
           \/ \E v, c \in Run : SbomChain(r, same, v, c)
    \/ pc[r] = "failing" /\ \E same \in BOOLEAN : FailCommit(r, same)

FollowUp(r) == \/ AutoSkip(r) \/ AutoCheck(r) \/ AutoQueue(r) \/ AutoBegin(r)
               \/ AutoCompletes(r) \/ AutoFails(r)

Advance(r) == /\ pc[r] # "free"
              /\ IF r \in auto THEN FollowUp(r) ELSE Requested(r)

RunStep(r) == Advance(r) \/ OpenRaises(r) \/ RunLost(r) \/ JobTimeout(r)

Next == \/ \E r \in Run, j \in Jobs : Post(r, j)
        \/ \E r \in Run : RunStep(r)
        \/ BackendRestart \/ WorkerRestart

Spec == Init /\ [][Next]_vars

\* A request that passed its checks and a run that was started go on; nothing
\* obliges the database to fail or a job to take too long.
Fairness == \A r \in Run : WF_vars(Advance(r))
FairSpec == Spec /\ Fairness

-----------------------------------------------------------------------------
(* Properties *)

\* Every variable keeps its type; follow-ups are scans and matches, and only
\* the decompiler runs in the worker.
TypeOK ==
    /\ status \in [Job -> Status]
    /\ error \subseteq Job /\ result \subseteq HasResult /\ comps \in BOOLEAN
    /\ pc \in [Run -> PC]
    /\ job \in [Run -> Job]
    /\ saw \in [Run -> SUBSET {"running", "failed", "error", "result"}]
    /\ auto \subseteq {r \in Run : pc[r] # "free" /\ job[r] \in {"vuln", "cve"}}
    /\ worker \subseteq {r \in Run : pc[r] # "free" /\ job[r] = "dotnet"}
    /\ bare \subseteq Job /\ blind \subseteq Job /\ dropped \subseteq Job
    /\ posts \in 0 .. MaxPosts /\ restarts \in 0 .. MaxRestart

\* A column that says a run is in flight has one that will still change it.
\* The runs that leave a column behind are follow-ups that raise, worker jobs
\* that time out and runs the database fails; the next run that ends well, and
\* restarting the backend, clear their columns.
NoOrphan ==
    \A j \in Job \ dropped :
        status[j] \in Active => \E r \in Run : job[r] = j /\ Owns(r)

\* A failed analysis carries an error for the client to show, unless its latest
\* commit was one that changed the outcome unawares: a run that had read the
\* status as "running" cleared the error of a verdict given since, or a run left
\* out an error text that another had cleared since it read the same.
FailedIsExplained ==
    \A j \in Job \ blind : status[j] = "failed" => j \in error

\* An analysis reported as completed has a result to read, however its runs
\* overlapped, with the same exception; and the CVE match that a finished SBOM
\* starts sets none.
CompletedHasResult ==
    \A j \in HasResult \ (bare \cup blind) : status[j] = "completed" => j \in result

\* A requested SBOM comes to an end, across restarts, unless the database fails
\* its run.
SbomEnds ==
    (status["sbom"] = "queued") ~> (status["sbom"] \in Final \/ "sbom" \in dropped)

\* A finished SBOM with components leads to a vulnerability scan, unless the
\* backend restarts (the follow-up is only remembered in memory) or the database
\* fails the follow-up.
ChainFires ==
    (status["sbom"] = "completed" /\ comps)
        ~> (status["vuln"] # "idle" \/ restarts > 0 \/ "vuln" \in dropped)
=============================================================================
