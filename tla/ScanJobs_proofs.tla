--------------------------- MODULE ScanJobs_proofs ---------------------------
(***************************************************************************)
(* Proofs about ScanJobs, for any number of runs at a time, any of the     *)
(* analyses and any number of requests and restarts.                       *)
(***************************************************************************)
EXTENDS ScanJobs, TLAPS

Views == SUBSET {"running", "failed", "error", "result"}

\* What a session reads has the type of what it keeps.
LEMMA ViewType ==
    ASSUME NEW j
    PROVE  View(j) \in Views
  BY DEF View, Views

\* A run that ends leaves a free place with the right types.
LEMMA EndType ==
    ASSUME TypeOK, NEW r \in Run, End(r)
    PROVE  /\ pc' \in [Run -> PC] /\ job' \in [Run -> Job] /\ saw' \in [Run -> Views]
           /\ auto' \subseteq {q \in Run : pc'[q] # "free" /\ job'[q] \in {"vuln", "cve"}}
           /\ worker' \subseteq {q \in Run : pc'[q] # "free" /\ job'[q] = "dotnet"}
  BY DEF TypeOK, End, Goto, PC, Job, Views

\* A run that moves on keeps the types of where the runs are.
LEMMA MoveType ==
    ASSUME TypeOK, NEW r \in Run, NEW label \in PC \ {"free"}, Goto(r, label),
           UNCHANGED <<job, auto>>, worker' = worker
    PROVE  /\ pc' \in [Run -> PC] /\ job' \in [Run -> Job]
           /\ auto' \subseteq {q \in Run : pc'[q] # "free" /\ job'[q] \in {"vuln", "cve"}}
           /\ worker' \subseteq {q \in Run : pc'[q] # "free" /\ job'[q] = "dotnet"}
  BY DEF TypeOK, Goto, PC

\* The columns keep their types when a run ends.
LEMMA CompletedType ==
    ASSUME TypeOK, NEW r \in Run, NEW same \in BOOLEAN, Completed(r, same)
    PROVE  /\ status' \in [Job -> Status] /\ error' \subseteq Job /\ result' \subseteq HasResult
           /\ bare' \subseteq Job /\ blind' \subseteq Job /\ dropped' \subseteq Job
           /\ UNCHANGED <<posts, restarts>>
  BY DEF TypeOK, Completed, HasResult, Job, Status

\* Every step keeps TypeOK.
LEMMA TypeOKStep ==
    ASSUME TypeOK, [Next]_vars
    PROVE  TypeOK'
  <1> USE ConstAssumption DEF Views
  <1>1. ASSUME NEW r \in Run, NEW j \in Jobs, Post(r, j)
        PROVE  TypeOK'
    <2>1. saw' \in [Run -> Views] /\ j \in Job
      BY <1>1, ViewType DEF TypeOK, Post
    <2>2. posts' \in 0 .. MaxPosts
      BY <1>1 DEF TypeOK, Post
    <2>3. pc' \in [Run -> PC] /\ job' \in [Run -> Job]
      BY <1>1, <2>1 DEF TypeOK, Post, Goto, PC
    <2>4. \A q \in Run : pc[q] # "free" => pc'[q] # "free" /\ job'[q] = job[q]
      BY <1>1 DEF TypeOK, Post, Goto
    <2> QED
      BY <1>1, <2>1, <2>2, <2>3, <2>4 DEF TypeOK, Post, cols, hist
  <1>2. ASSUME NEW r \in Run, NEW arq \in BOOLEAN, NEW early \in BOOLEAN, PostCommit(r, arq, early)
        PROVE  TypeOK'
    <2>1. saw' \in [Run -> Views]
      BY <1>2, ViewType DEF TypeOK, PostCommit
    <2>2. /\ pc' \in [Run -> PC] /\ job' = job /\ auto' = auto
          /\ \A q \in Run : pc[q] # "free" => pc'[q] # "free"
          /\ pc'[r] # "free"
      BY <1>2 DEF TypeOK, PostCommit, Goto, PC
    <2>3. worker' \subseteq {q \in Run : pc'[q] # "free" /\ job'[q] = "dotnet"}
      BY <1>2, <2>2 DEF TypeOK, PostCommit, InWorker
    <2>4. /\ status' \in [Job -> Status] /\ error' \subseteq Job /\ result' \subseteq HasResult
          /\ bare' \subseteq Job /\ blind' \subseteq Job
      BY <1>2 DEF TypeOK, PostCommit, Set, Status
    <2> QED
      BY <1>2, <2>1, <2>2, <2>3, <2>4 DEF TypeOK, PostCommit
  <1>3. ASSUME NEW r \in Run, RunOpens(r) \/ RunRaises(r) \/ OpenRaises(r)
        PROVE  TypeOK'
    <2>1. saw' \in [Run -> Views]
      BY <1>3, ViewType DEF TypeOK, RunOpens, RunRaises, OpenRaises, Handler
    <2>2. Goto(r, "opened") \/ Goto(r, "failing")
      BY <1>3 DEF RunOpens, RunRaises, OpenRaises, Handler
    <2>3. UNCHANGED <<cols, job, auto, worker, hist, posts, restarts>>
      BY <1>3 DEF RunOpens, RunRaises, OpenRaises, Handler
    <2>4. /\ pc' \in [Run -> PC] /\ \A q \in Run : pc[q] # "free" => pc'[q] # "free"
      BY <2>2 DEF TypeOK, Goto, PC
    <2> QED
      BY <2>1, <2>3, <2>4 DEF TypeOK, cols, hist
  <1>4. ASSUME NEW r \in Run, RunBegin(r)
        PROVE  TypeOK'
    <2>1. saw' \in [Run -> Views]
      BY <1>4 DEF TypeOK, RunBegin, Holds
    <2>2. /\ pc' \in [Run -> PC] /\ \A q \in Run : pc[q] # "free" => pc'[q] # "free"
      BY <1>4 DEF TypeOK, RunBegin, Goto, PC
    <2>3. /\ status' \in [Job -> Status] /\ bare' \subseteq Job /\ blind' \subseteq Job
      <3>1. CASE "running" \in saw[r]
        <4>1. UNCHANGED <<status, bare>> /\ blind' \in {blind, blind \cup {job[r]}}
          BY <1>4, <3>1 DEF RunBegin
        <4> QED
          BY <4>1 DEF TypeOK
      <3>2. CASE "running" \notin saw[r]
        BY <1>4, <3>2 DEF TypeOK, RunBegin, Set, Status
      <3> QED
        BY <3>1, <3>2
    <2>4. error' \subseteq Job /\ result' \subseteq HasResult
      BY <1>4 DEF TypeOK, RunBegin
    <2> QED
      BY <1>4, <2>1, <2>2, <2>3, <2>4 DEF TypeOK, RunBegin
  <1>5. ASSUME NEW r \in Run, NEW same \in BOOLEAN, RunCompletes(r, same) \/ SbomEmpty(r, same)
        PROVE  TypeOK'
    BY <1>5, CompletedType, EndType DEF TypeOK, RunCompletes, SbomEmpty
  <1>6. ASSUME NEW r \in Run, NEW same \in BOOLEAN, NEW v \in Run, NEW c \in Run,
               SbomChain(r, same, v, c)
        PROVE  TypeOK'
    <2>1. pc[v] = "free" /\ pc[c] = "free" /\ v # c /\ pc[r] = "running" /\ job[r] = "sbom"
      BY <1>6 DEF SbomChain, Completed
    <2>2. /\ pc' \in [Run -> PC] /\ pc'[v] # "free" /\ pc'[c] # "free"
          /\ \A q \in Run \ {r} : pc[q] # "free" => pc'[q] # "free"
      BY <1>6, <2>1 DEF TypeOK, SbomChain, PC
    <2>3. /\ job' \in [Run -> Job] /\ job'[v] = "vuln" /\ job'[c] = "cve"
          /\ \A q \in Run : pc[q] # "free" => job'[q] = job[q]
      BY <1>6, <2>1 DEF TypeOK, SbomChain, Job
    <2>4. auto' = auto \cup {v, c} /\ worker' = worker /\ comps' = TRUE
      BY <1>6 DEF SbomChain
    <2>5. r \notin auto /\ r \notin worker
      BY <2>1 DEF TypeOK
    <2>6. saw' \in [Run -> Views]
      BY <1>6 DEF TypeOK, SbomChain
    <2>7. Completed(r, same)
      BY <1>6 DEF SbomChain
    <2>8. /\ status' \in [Job -> Status] /\ error' \subseteq Job /\ result' \subseteq HasResult
          /\ bare' \subseteq Job /\ blind' \subseteq Job /\ dropped' \subseteq Job
          /\ UNCHANGED <<posts, restarts>>
      BY <2>7, CompletedType
    <2>9. /\ auto' \subseteq {q \in Run : pc'[q] # "free" /\ job'[q] \in {"vuln", "cve"}}
          /\ worker' \subseteq {q \in Run : pc'[q] # "free" /\ job'[q] = "dotnet"}
      BY <2>2, <2>3, <2>4, <2>5 DEF TypeOK
    <2> QED
      BY <2>2, <2>3, <2>4, <2>6, <2>8, <2>9 DEF TypeOK
  <1>7. ASSUME NEW r \in Run, NEW same \in BOOLEAN, FailCommit(r, same)
        PROVE  TypeOK'
    <2>1. /\ status' \in [Job -> Status] /\ error' \subseteq Job
          /\ bare' \subseteq Job /\ blind' \subseteq Job /\ dropped' \subseteq Job
      <3>1. CASE "failed" \in saw[r]
        BY <1>7, <3>1 DEF TypeOK, FailCommit
      <3>2. CASE "failed" \notin saw[r]
        <4>1. /\ status' = [status EXCEPT ![job[r]] = "failed"] /\ bare' = bare \ {job[r]}
              /\ blind' \in {blind \ {job[r]}, blind \cup {job[r]}}
              /\ dropped' = dropped \ {job[r]} /\ error' \in {error, error \cup {job[r]}}
          BY <1>7, <3>2 DEF FailCommit
        <4> QED
          BY <4>1 DEF TypeOK, Status
      <3> QED
        BY <3>1, <3>2
    <2> QED
      BY <1>7, <2>1, EndType DEF TypeOK, FailCommit
  <1>8. ASSUME NEW r \in Run, RunLost(r) \/ JobTimeout(r) \/ AutoFails(r) \/ AutoSkip(r)
        PROVE  TypeOK'
    <2>1. dropped' \subseteq Job /\ End(r)
      BY <1>8 DEF TypeOK, RunLost, JobTimeout, AutoFails, AutoSkip, hist, Job
    <2> QED
      BY <1>8, <2>1, EndType DEF TypeOK, RunLost, JobTimeout, AutoFails, AutoSkip, cols, hist
  <1>9. ASSUME NEW r \in Run, AutoCheck(r) \/ AutoQueue(r) \/ AutoBegin(r)
        PROVE  TypeOK'
    <2>1. /\ status' \in [Job -> Status] /\ bare' \subseteq Job /\ blind' \subseteq Job
      BY <1>9 DEF TypeOK, AutoCheck, AutoQueue, AutoBegin, Set, Status, cols, hist
    <2>2. pc' \in [Run -> PC] /\ \A q \in Run : pc[q] # "free" => pc'[q] # "free"
      BY <1>9 DEF TypeOK, AutoCheck, AutoQueue, AutoBegin, Goto, PC
    <2> QED
      BY <1>9, <2>1, <2>2 DEF TypeOK, AutoCheck, AutoQueue, AutoBegin, cols, hist
  <1>10. ASSUME NEW r \in Run, AutoCompletes(r)
         PROVE  TypeOK'
    <2>1. /\ status' \in [Job -> Status] /\ bare' \subseteq Job /\ blind' \subseteq Job
          /\ dropped' \subseteq Job
      BY <1>10 DEF TypeOK, AutoCompletes, Status
    <2> QED
      BY <1>10, <2>1, EndType DEF TypeOK, AutoCompletes
  <1>11. CASE BackendRestart
    <2>1. restarts' \in 0 .. MaxRestart
      BY <1>11 DEF TypeOK, BackendRestart
    <2>2. pc' \in [Run -> PC] /\ job' \in [Run -> Job] /\ saw' \in [Run -> Views]
      BY <1>11 DEF TypeOK, BackendRestart, PC, Job
    <2>3. \A r \in worker : pc'[r] = pc[r] /\ job'[r] = job[r]
      BY <1>11 DEF TypeOK, BackendRestart
    <2>4. status' \in [Job -> Status] /\ error' \subseteq Job /\ dropped' = {} /\ auto' = {}
      BY <1>11 DEF TypeOK, BackendRestart, ReapErrors, Status
    <2> QED
      BY <1>11, <2>1, <2>2, <2>3, <2>4 DEF TypeOK, BackendRestart
  <1>12. CASE WorkerRestart
    <2>1. restarts' \in 0 .. MaxRestart
      BY <1>12 DEF TypeOK, WorkerRestart
    <2>2. pc' \in [Run -> PC] /\ \A r \in Run : pc[r] # "free" => pc'[r] # "free"
      BY <1>12 DEF TypeOK, WorkerRestart, PC
    <2>3. saw' \in [Run -> Views]
      BY <1>12 DEF TypeOK, WorkerRestart
    <2> QED
      BY <1>12, <2>1, <2>2, <2>3 DEF TypeOK, WorkerRestart, cols, hist
  <1>13. CASE UNCHANGED vars
    BY <1>13 DEF TypeOK, vars, cols, runs, hist
  <1> QED
    BY <1>1, <1>2, <1>3, <1>4, <1>5, <1>6, <1>7, <1>8, <1>9, <1>10, <1>11, <1>12, <1>13
       DEF Next, RunStep, Advance, Requested, FollowUp

\* The types of the columns and the runs hold in every reachable state.
THEOREM TypeCorrect == Spec => []TypeOK
  <1>1. Init => TypeOK
    <2> SUFFICES ASSUME Init PROVE TypeOK
      OBVIOUS
    <2>1. status \in [Job -> Status] /\ job \in [Run -> Job] /\ pc \in [Run -> PC]
      BY DEF Init, Job, Status, PC
    <2>2. comps \in BOOLEAN
      BY DEF Init
    <2>3. restarts \in 0 .. MaxRestart /\ posts \in 0 .. MaxPosts
      BY ConstAssumption DEF Init
    <2> QED
      BY <2>1, <2>2, <2>3 DEF Init, TypeOK
  <1> QED
    BY <1>1, TypeOKStep, PTL DEF Spec

-----------------------------------------------------------------------------
(* A column in flight has a run. *)

\* A run that will still write its column: its failure handler has not read the
\* column as failed already.
Sure(r) == Owns(r) /\ ~(pc[r] = "failing" /\ "failed" \in saw[r])

\* The strengthening of NoOrphan.
OwnInv == \A j \in Job \ dropped :
              status[j] \in Active => \E r \in Run : job[r] = j /\ Sure(r)

\* A step of run r keeps the invariant if it leaves r sure, or the column settled
\* or given up, or if r was not sure and nothing was written.
LEMMA OwnerFrame ==
    ASSUME TypeOK, OwnInv, NEW r \in Run,
           \A q \in Run \ {r} : Sure(q) => Sure(q)' /\ job'[q] = job[q],
           \A j \in Job \ {job[r]} : status'[j] = status[j],
           dropped \ {job[r]} \subseteq dropped',
           \/ Sure(r)' /\ job'[r] = job[r]
           \/ status'[job[r]] \notin Active
           \/ job[r] \in dropped'
           \/ ~Sure(r) /\ status' = status /\ dropped \subseteq dropped'
    PROVE  OwnInv'
  <1>1. SUFFICES ASSUME NEW j \in Job \ dropped', status'[j] \in Active
                 PROVE  \E q \in Run : job'[q] = j /\ Sure(q)'
    BY DEF OwnInv, Job, Active
  <1>2. ASSUME j # job[r]
        PROVE  \E q \in Run : job'[q] = j /\ Sure(q)'
    <2>1. PICK q \in Run : job[q] = j /\ Sure(q)
      BY <1>1, <1>2 DEF OwnInv
    <2> QED
      BY <1>2, <2>1
  <1>3. ASSUME ~Sure(r), status' = status, dropped \subseteq dropped'
        PROVE  \E q \in Run : job'[q] = j /\ Sure(q)'
    <2>1. PICK q \in Run : job[q] = j /\ Sure(q)
      BY <1>1, <1>3 DEF OwnInv
    <2> QED
      BY <1>3, <2>1
  <1> QED
    BY <1>1, <1>2, <1>3

\* Every step keeps the invariant.
LEMMA OwnStep ==
    ASSUME TypeOK, OwnInv, [Next]_vars
    PROVE  OwnInv'
  <1> USE DEF Active
  <1>1. ASSUME NEW r \in Run,
               \A q \in Run \ {r} : /\ pc'[q] = pc[q] /\ job'[q] = job[q] /\ saw'[q] = saw[q]
                                    /\ (q \in auto' <=> q \in auto),
               \A j \in Job \ {job[r]} : status'[j] = status[j],
               dropped \ {job[r]} \subseteq dropped',
               \/ Sure(r)' /\ job'[r] = job[r]
               \/ status'[job[r]] \notin Active
               \/ job[r] \in dropped'
               \/ ~Sure(r) /\ status' = status /\ dropped \subseteq dropped'
        PROVE  OwnInv'
    <2>1. \A q \in Run \ {r} : Sure(q) => Sure(q)' /\ job'[q] = job[q]
      BY <1>1 DEF Sure, Owns
    <2> QED
      BY <1>1, <2>1, OwnerFrame
  <1>2. ASSUME NEW r \in Run, End(r)
        PROVE  \A q \in Run \ {r} : /\ pc'[q] = pc[q] /\ job'[q] = job[q] /\ saw'[q] = saw[q]
                                    /\ (q \in auto' <=> q \in auto)
    BY <1>2 DEF End, Goto, TypeOK
  <1>3. ASSUME NEW r \in Run, NEW j \in Jobs, Post(r, j)
        PROVE  OwnInv'
    <2>1. ~Sure(r)
      BY <1>3 DEF Post, Sure, Owns
    <2> QED
      BY <1>1, <1>3, <2>1 DEF Post, Goto, TypeOK, cols, hist
  <1>4. ASSUME NEW r \in Run, NEW arq \in BOOLEAN, NEW early \in BOOLEAN, PostCommit(r, arq, early)
        PROVE  OwnInv'
    <2>1. Sure(r)'
      BY <1>4 DEF PostCommit, Goto, Sure, Owns, TypeOK
    <2> QED
      BY <1>1, <1>4, <2>1 DEF PostCommit, Set, Goto, TypeOK
  <1>5. ASSUME NEW r \in Run, RunOpens(r) \/ RunBegin(r) \/ AutoQueue(r) \/ AutoBegin(r)
        PROVE  OwnInv'
    <2>1. Sure(r)'
      BY <1>5 DEF RunOpens, RunBegin, AutoQueue, AutoBegin, Goto, Sure, Owns, TypeOK
    <2>2. \A j \in Job \ {job[r]} : status'[j] = status[j]
      BY <1>5 DEF RunOpens, RunBegin, AutoQueue, AutoBegin, Set, TypeOK, cols
    <2> QED
      BY <1>1, <1>5, <2>1, <2>2 DEF RunOpens, RunBegin, AutoQueue, AutoBegin, Goto, TypeOK, hist
  <1>6. ASSUME NEW r \in Run, RunRaises(r) \/ OpenRaises(r)
        PROVE  OwnInv'
    <2>1. Handler(r)
      BY <1>6 DEF RunRaises, OpenRaises
    <2>2. /\ pc'[r] = "failing" /\ saw'[r] = View(job[r]) /\ job[r] \in Job
          /\ UNCHANGED <<status, dropped, job>>
      BY <2>1 DEF Handler, Goto, TypeOK, cols, hist
    <2>3. status'[job[r]] \in Active => Sure(r)'
      BY <2>2 DEF Sure, Owns, View
    <2> QED
      BY <1>1, <2>1, <2>2, <2>3 DEF Handler, Goto, TypeOK
  <1>7. ASSUME NEW r \in Run, NEW same \in BOOLEAN, RunCompletes(r, same) \/ SbomEmpty(r, same)
        PROVE  OwnInv'
    <2>1. End(r) /\ Completed(r, same)
      BY <1>7 DEF RunCompletes, SbomEmpty
    <2>2. /\ status'[job[r]] \notin Active /\ \A j \in Job \ {job[r]} : status'[j] = status[j]
          /\ dropped \ {job[r]} \subseteq dropped'
      BY <2>1 DEF Completed, TypeOK
    <2> QED
      BY <1>1, <1>2, <2>1, <2>2
  <1>8. ASSUME NEW r \in Run, NEW same \in BOOLEAN, NEW v \in Run, NEW c \in Run,
               SbomChain(r, same, v, c)
        PROVE  OwnInv'
    <2>1. pc[r] = "running" /\ job[r] = "sbom" /\ pc[v] = "free" /\ pc[c] = "free"
      BY <1>8 DEF SbomChain, Completed
    <2>2. /\ \A q \in Run \ {r, v, c} : pc'[q] = pc[q] /\ job'[q] = job[q] /\ saw'[q] = saw[q]
          /\ auto' = auto \cup {v, c}
      BY <1>8, <2>1 DEF TypeOK, SbomChain
    <2>3. \A q \in Run \ {r} : Sure(q) => Sure(q)' /\ job'[q] = job[q]
      BY <2>1, <2>2 DEF Sure, Owns
    <2>4. /\ status' = [status EXCEPT !["sbom"] = "completed"]
          /\ dropped' = dropped \ {"sbom"}
      BY <1>8, <2>1 DEF SbomChain, Completed
    <2>5. /\ \A j \in Job \ {"sbom"} : status'[j] = status[j]
          /\ status'["sbom"] \notin Active
      BY <2>4 DEF TypeOK, Job
    <2> QED
      BY <2>1, <2>3, <2>4, <2>5, OwnerFrame
  <1>9. ASSUME NEW r \in Run, NEW same \in BOOLEAN, FailCommit(r, same)
        PROVE  OwnInv'
    <2>1. CASE "failed" \in saw[r]
      <3>1. ~Sure(r) /\ End(r) /\ UNCHANGED <<status, dropped>>
        BY <1>9, <2>1 DEF FailCommit, Sure
      <3> QED
        BY <1>1, <1>2, <3>1
    <2>2. CASE "failed" \notin saw[r]
      <3>1. End(r) /\ status' = [status EXCEPT ![job[r]] = "failed"] /\ dropped' = dropped \ {job[r]}
        BY <1>9, <2>2 DEF FailCommit
      <3>2. status'[job[r]] \notin Active /\ \A j \in Job \ {job[r]} : status'[j] = status[j]
        BY <3>1 DEF TypeOK
      <3> QED
        BY <1>1, <1>2, <3>1, <3>2
    <2> QED
      BY <2>1, <2>2
  <1>10. ASSUME NEW r \in Run, RunLost(r) \/ JobTimeout(r) \/ AutoFails(r)
         PROVE  OwnInv'
    <2>1. dropped' = dropped \cup {job[r]} /\ End(r) /\ UNCHANGED status
      BY <1>10 DEF RunLost, JobTimeout, AutoFails, TypeOK, cols
    <2> QED
      BY <1>1, <1>2, <2>1
  <1>11. ASSUME NEW r \in Run, AutoSkip(r)
         PROVE  OwnInv'
    <2>1. ~Sure(r) /\ End(r) /\ UNCHANGED <<status, dropped>>
      BY <1>11 DEF AutoSkip, Sure, Owns, cols, hist
    <2> QED
      BY <1>1, <1>2, <2>1
  <1>12. ASSUME NEW r \in Run, AutoCheck(r)
         PROVE  OwnInv'
    <2>1. ~Sure(r)
      BY <1>12 DEF AutoCheck, Sure, Owns
    <2> QED
      BY <1>1, <1>12, <2>1 DEF AutoCheck, Goto, TypeOK, cols, hist
  <1>13. ASSUME NEW r \in Run, AutoCompletes(r)
         PROVE  OwnInv'
    <2>1. End(r) /\ status' = [status EXCEPT ![job[r]] = "completed"] /\ dropped' = dropped \ {job[r]}
      BY <1>13 DEF AutoCompletes
    <2>2. status'[job[r]] \notin Active /\ \A j \in Job \ {job[r]} : status'[j] = status[j]
      BY <2>1 DEF TypeOK
    <2> QED
      BY <1>1, <1>2, <2>1, <2>2
  <1>14. CASE BackendRestart
    <2>1. \A j \in Job : status'[j] \notin Active
      BY <1>14 DEF BackendRestart, Reaped, TypeOK
    <2> QED
      BY <2>1 DEF OwnInv
  <1>15. CASE WorkerRestart
    <2>1. \A q \in Run : Sure(q) => Sure(q)'
      BY <1>15 DEF WorkerRestart, Sure, Owns, TypeOK
    <2> QED
      BY <1>15, <2>1 DEF WorkerRestart, OwnInv, cols, hist
  <1>16. CASE UNCHANGED vars
    BY <1>16 DEF vars, cols, runs, hist, OwnInv, Sure, Owns
  <1> QED
    BY <1>3, <1>4, <1>5, <1>6, <1>7, <1>8, <1>9, <1>10, <1>11, <1>12, <1>13, <1>14, <1>15, <1>16
       DEF Next, RunStep, Advance, Requested, FollowUp

\* A column says a run is in flight only while there is one, except after a
\* follow-up raised, a worker job timed out or the database failed a run.
THEOREM NoOrphans == Spec => []NoOrphan
  <1>1. Init => OwnInv
    BY DEF Init, OwnInv, Active
  <1>2. OwnInv => NoOrphan
    BY DEF OwnInv, NoOrphan, Sure
  <1> QED
    BY <1>1, <1>2, OwnStep, TypeCorrect, PTL DEF Spec

-----------------------------------------------------------------------------
(* A failure carries its error, a completed analysis its result. *)

\* A step of run r touches no analysis but its own.
Local(r) == \A j \in Job \ {job[r]} :
                /\ status'[j] = status[j]
                /\ (j \in error' <=> j \in error) /\ (j \in result' <=> j \in result)
                /\ (j \in bare' <=> j \in bare) /\ (j \in blind' <=> j \in blind)

\* What both properties say of one analysis.
Explained(j) == j \notin blind /\ status[j] = "failed" => j \in error
HasIt(j)     == j \in HasResult \ (bare \cup blind) /\ status[j] = "completed" => j \in result

LEMMA LocalStep ==
    ASSUME TypeOK, NEW r \in Run, RunStep(r)
    PROVE  Local(r)
  <1>1. CASE UNCHANGED cols /\ UNCHANGED <<bare, blind>>
    BY <1>1 DEF Local, cols
  <1>2. ASSUME NEW arq \in BOOLEAN, NEW early \in BOOLEAN, PostCommit(r, arq, early)
        PROVE  Local(r)
    BY <1>2 DEF Local, PostCommit, Set, TypeOK
  <1>3. CASE RunBegin(r)
    <2>1. \A j \in Job \ {job[r]} : /\ status'[j] = status[j]
                                    /\ (j \in bare' <=> j \in bare) /\ (j \in blind' <=> j \in blind)
      <3>1. CASE "running" \in saw[r]
        BY <1>3, <3>1 DEF RunBegin
      <3>2. CASE "running" \notin saw[r]
        BY <1>3, <3>2 DEF RunBegin, Set, TypeOK
      <3> QED
        BY <3>1, <3>2
    <2> QED
      BY <1>3, <2>1 DEF Local, RunBegin
  <1>4. ASSUME NEW same \in BOOLEAN, Completed(r, same)
        PROVE  Local(r)
    BY <1>4 DEF Local, Completed, TypeOK
  <1>5. ASSUME NEW same \in BOOLEAN, FailCommit(r, same)
        PROVE  Local(r)
    <2>1. CASE "failed" \in saw[r]
      BY <1>5, <2>1 DEF Local, FailCommit
    <2>2. CASE "failed" \notin saw[r]
      BY <1>5, <2>2 DEF Local, FailCommit, TypeOK
    <2> QED
      BY <2>1, <2>2
  <1>6. CASE AutoQueue(r) \/ AutoBegin(r)
    BY <1>6 DEF Local, AutoQueue, AutoBegin, Set, TypeOK
  <1>7. CASE AutoCompletes(r)
    BY <1>7 DEF Local, AutoCompletes, TypeOK
  <1> QED
    BY <1>1, <1>2, <1>3, <1>4, <1>5, <1>6, <1>7
       DEF RunStep, Advance, Requested, FollowUp, RunOpens, RunRaises, OpenRaises, Handler,
           RunCompletes, SbomEmpty, SbomChain, RunLost, JobTimeout, AutoSkip, AutoCheck, AutoFails, hist

\* A step of run r leaves its own analysis explained and with its result: it gives
\* no verdict, gives one with what belongs to it, or is recorded in blind or bare.
LEMMA OwnVerdict ==
    ASSUME TypeOK, NEW r \in Run, RunStep(r), Explained(job[r]), HasIt(job[r])
    PROVE  /\ job[r] \notin blind' /\ status'[job[r]] = "failed" => job[r] \in error'
           /\ job[r] \in HasResult \ (bare' \cup blind') /\ status'[job[r]] = "completed"
              => job[r] \in result'
  <1> DEFINE j == job[r]
             Good == /\ j \notin blind' /\ status'[j] = "failed" => j \in error'
                     /\ j \in HasResult \ (bare' \cup blind') /\ status'[j] = "completed" => j \in result'
  <1> SUFFICES Good
    OBVIOUS
  <1>0. j \in Job
    BY DEF TypeOK
  <1>1. CASE UNCHANGED cols /\ UNCHANGED <<bare, blind>>
    BY <1>1 DEF Explained, HasIt, cols
  <1>2. ASSUME status'[j] \notin Final
        PROVE  Good
    BY <1>2 DEF Final
  <1>3. ASSUME NEW arq \in BOOLEAN, NEW early \in BOOLEAN, PostCommit(r, arq, early)
        PROVE  Good
    BY <1>0, <1>2, <1>3 DEF PostCommit, Set, TypeOK, Final
  <1>4. CASE RunBegin(r)
    <2>1. CASE "running" \in saw[r] /\ status[j] \in Final
      BY <1>4, <2>1 DEF RunBegin
    <2>2. CASE "running" \in saw[r] /\ status[j] \notin Final
      BY <1>2, <1>4, <2>2 DEF RunBegin
    <2>3. CASE "running" \notin saw[r]
      <3>1. status'[j] = "running"
        BY <1>0, <1>4, <2>3 DEF RunBegin, Set, TypeOK
      <3> QED
        BY <1>2, <3>1 DEF Final
    <2> QED
      BY <2>1, <2>2, <2>3
  <1>5. ASSUME NEW same \in BOOLEAN, Completed(r, same)
        PROVE  Good
    <2>1. status'[j] = "completed"
      BY <1>0, <1>5 DEF Completed, TypeOK
    <2>2. j \in HasResult \ blind' => j \in result'
      BY <1>5 DEF Completed
    <2> QED
      BY <2>1, <2>2
  <1>6. ASSUME NEW same \in BOOLEAN, FailCommit(r, same)
        PROVE  Good
    <2>1. CASE "failed" \in saw[r]
      BY <1>6, <2>1 DEF FailCommit, Explained, HasIt
    <2>2. CASE "failed" \notin saw[r]
      <3>1. status'[j] = "failed"
        BY <1>0, <1>6, <2>2 DEF FailCommit, TypeOK
      <3>2. j \notin blind' => j \in error'
        BY <1>6, <2>2 DEF FailCommit
      <3> QED
        BY <3>1, <3>2
    <2> QED
      BY <2>1, <2>2
  <1>7. CASE AutoQueue(r) \/ AutoBegin(r)
    BY <1>0, <1>2, <1>7 DEF AutoQueue, AutoBegin, Set, TypeOK, Final
  <1>8. CASE AutoCompletes(r)
    BY <1>0, <1>8 DEF AutoCompletes, TypeOK
  <1> QED
    BY <1>1, <1>3, <1>4, <1>5, <1>6, <1>7, <1>8
       DEF RunStep, Advance, Requested, FollowUp, RunOpens, RunRaises, OpenRaises, Handler,
           RunCompletes, SbomEmpty, SbomChain, RunLost, JobTimeout, AutoSkip, AutoCheck, AutoFails, hist

\* Every step keeps both properties.
LEMMA VerdictStep ==
    ASSUME TypeOK, FailedIsExplained, CompletedHasResult, [Next]_vars
    PROVE  FailedIsExplained' /\ CompletedHasResult'
  <1> USE DEF FailedIsExplained, CompletedHasResult
  <1>1. ASSUME NEW r \in Run, RunStep(r)
        PROVE  FailedIsExplained' /\ CompletedHasResult'
    <2>1. Local(r)
      BY <1>1, LocalStep
    <2>2. job[r] \in Job /\ Explained(job[r]) /\ HasIt(job[r])
      BY DEF TypeOK, Explained, HasIt
    <2>3. /\ job[r] \notin blind' /\ status'[job[r]] = "failed" => job[r] \in error'
          /\ job[r] \in HasResult \ (bare' \cup blind') /\ status'[job[r]] = "completed"
             => job[r] \in result'
      BY <1>1, <2>2, OwnVerdict
    <2>4. ASSUME NEW j \in Job \ blind', status'[j] = "failed"
          PROVE  j \in error'
      BY <2>1, <2>3, <2>4 DEF Local
    <2>5. ASSUME NEW j \in HasResult \ (bare' \cup blind'), status'[j] = "completed"
          PROVE  j \in result'
      <3>1. j \in Job
        BY DEF HasResult, Job
      <3> QED
        BY <2>1, <2>3, <2>5, <3>1 DEF Local
    <2> QED
      BY <2>4, <2>5
  <1>2. CASE BackendRestart
    <2>1. ASSUME NEW j \in Job \ blind', status'[j] = "failed"
          PROVE  j \in error'
      BY <1>2, <2>1 DEF BackendRestart, ReapErrors
    <2>2. ASSUME NEW j \in HasResult \ (bare' \cup blind'), status'[j] = "completed"
          PROVE  j \in result'
      BY <1>2, <2>2 DEF BackendRestart, HasResult, Job
    <2> QED
      BY <2>1, <2>2
  <1>3. CASE UNCHANGED <<cols, bare, blind>>
    BY <1>3 DEF cols
  <1> QED
    BY <1>1, <1>2, <1>3 DEF Next, Post, WorkerRestart, vars, hist

\* Whenever an analysis is reported as failed an error is there to be shown,
\* except after the lost updates that blind records.
THEOREM FailuresExplained == Spec => []FailedIsExplained
  <1>1. Init => FailedIsExplained /\ CompletedHasResult
    BY DEF Init, FailedIsExplained, CompletedHasResult, HasResult, Job
  <1> QED
    BY <1>1, VerdictStep, TypeCorrect, PTL DEF Spec

\* Whenever an analysis is reported as completed its result is there to be read,
\* except after those lost updates and while the report is that of a CVE match
\* that a finished SBOM started.
THEOREM ResultsThere == Spec => []CompletedHasResult
  <1>1. Init => FailedIsExplained /\ CompletedHasResult
    BY DEF Init, FailedIsExplained, CompletedHasResult, HasResult, Job
  <1> QED
    BY <1>1, VerdictStep, TypeCorrect, PTL DEF Spec

=============================================================================
