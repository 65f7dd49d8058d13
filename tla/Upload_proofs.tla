---------------------------- MODULE Upload_proofs ----------------------------
(***************************************************************************)
(* Proofs about Upload, for any number of uploads, contents and crashes.   *)
(***************************************************************************)
EXTENDS Upload, TLAPS

\* Every step keeps TypeOK.
LEMMA TypeOKStep ==
    ASSUME TypeOK, [Next]_vars
    PROVE  TypeOK'
  <1> USE ConstAssumption DEF Req, Stage, InProgress, Final, PC, Live, Present,
                              Goto, SetStage, Last, rowVars, procVars
  <1>1. ASSUME NEW u \in Uploads, NEW c \in Content, UploadBegin(u, c)
        PROVE  TypeOK'
    BY <1>1 DEF TypeOK, UploadBegin
  <1>2. ASSUME NEW u \in Uploads, UploadCommit(u) \/ UploadFails(u)
        PROVE  TypeOK'
    BY <1>2 DEF TypeOK, UploadCommit, UploadFails
  <1>3. ASSUME NEW u \in Uploads, DeleteFiles(u) \/ DeleteCommit(u)
        PROVE  TypeOK'
    BY <1>3 DEF TypeOK, DeleteFiles, DeleteCommit
  <1>4. ASSUME NEW u \in Uploads, RunnerLoad(u) \/ RunnerExtract(u) \/ RemoveArchive(u)
        PROVE  TypeOK'
    BY <1>4 DEF TypeOK, RunnerLoad, RunnerExtract, RemoveArchive
  <1>5. ASSUME NEW u \in Uploads, NEW found \in BOOLEAN, RunnerAnalyze(u, found)
        PROVE  TypeOK'
    BY <1>5 DEF TypeOK, RunnerAnalyze
  <1>6. ASSUME NEW u \in Uploads, RunnerReady(u) \/ RunnerRaises(u) \/ RunnerLost(u)
        PROVE  TypeOK'
    BY <1>6 DEF TypeOK, RunnerReady, RunnerRaises, RunnerLost
  <1>7. ASSUME NEW u \in Uploads, GracePasses(u)
        PROVE  TypeOK'
    BY <1>7 DEF TypeOK, GracePasses
  <1>8. CASE Crash
    <2>1. crashes' \in 0 .. MaxCrash
      BY <1>8 DEF TypeOK, Crash
    <2> QED
      BY <1>8, <2>1 DEF TypeOK, Crash
  <1>9. CASE Restart
    <2>1. /\ stage' \in [Uploads -> Stage]
          /\ \A u \in Uploads : Present(u) => Present(u)'
      BY <1>9 DEF TypeOK, Restart
    <2> QED
      BY <1>9, <2>1 DEF TypeOK, Restart
  <1>10. CASE UNCHANGED vars
    BY <1>10 DEF TypeOK, vars
  <1> QED
    BY <1>1, <1>2, <1>3, <1>4, <1>5, <1>6, <1>7, <1>8, <1>9, <1>10 DEF Next, RunnerStep, RunnerEnds

\* The types of the rows, the requests and the tasks hold in every reachable state.
THEOREM TypeCorrect == Spec => []TypeOK
  <1>1. Init => TypeOK
    <2> SUFFICES ASSUME Init PROVE TypeOK
      OBVIOUS
    <2>1. crashes \in 0 .. MaxCrash /\ up \in BOOLEAN
      BY ConstAssumption DEF Init
    <2> QED
      BY <2>1 DEF Init, TypeOK, Req, Stage, PC
  <1> QED
    BY <1>1, TypeOKStep, PTL DEF Spec

-----------------------------------------------------------------------------
(* Rows and tasks *)

\* Tasks, requests and deletions live only while the backend is up, and rows,
\* tasks and deletions only follow a request that is over; a deletion under way has
\* its row.  While the backend is
\* up, a row in progress has its task, or was spared or lost.
LiveInv ==
    /\ \A u \in Uploads : /\ pc[u] \in Live => up
                          /\ req[u] # "over" => pc[u] = "none" /\ stage[u] = "absent"
                          /\ req[u] = "checked" => up
                          /\ u \in del => req[u] = "over" /\ Present(u)
                          /\ (up /\ stage[u] \in InProgress)
                                => pc[u] \in Live \/ pc[u] = "lost" \/ u \in spared
    /\ up \/ del = {}

\* A row whose stage is final has no task left that could change it.
FinalInv ==
    \A u \in Uploads : stage[u] \in Final => pc[u] \notin Live

\* Every step keeps the two invariants.
LEMMA LiveInvStep ==
    ASSUME TypeOK, LiveInv, FinalInv, [Next]_vars
    PROVE  LiveInv' /\ FinalInv'
  <1> USE DEF Stage, InProgress, Final, PC, Live, Present, Goto, SetStage, Last,
              rowVars, procVars
  <1>1. ASSUME NEW u \in Uploads, NEW c \in Content, UploadBegin(u, c)
        PROVE  LiveInv' /\ FinalInv'
    BY <1>1 DEF TypeOK, LiveInv, FinalInv, UploadBegin
  <1>2. ASSUME NEW u \in Uploads, UploadCommit(u) \/ UploadFails(u)
        PROVE  LiveInv' /\ FinalInv'
    BY <1>2 DEF TypeOK, LiveInv, FinalInv, UploadCommit, UploadFails
  <1>3. ASSUME NEW u \in Uploads, DeleteFiles(u) \/ DeleteCommit(u)
        PROVE  LiveInv' /\ FinalInv'
    BY <1>3 DEF TypeOK, LiveInv, FinalInv, DeleteFiles, DeleteCommit
  <1>4. ASSUME NEW u \in Uploads, RunnerLoad(u) \/ RunnerExtract(u) \/ RemoveArchive(u)
        PROVE  LiveInv' /\ FinalInv'
    BY <1>4 DEF TypeOK, LiveInv, FinalInv, RunnerLoad, RunnerExtract, RemoveArchive
  <1>5. ASSUME NEW u \in Uploads, NEW found \in BOOLEAN, RunnerAnalyze(u, found)
        PROVE  LiveInv' /\ FinalInv'
    BY <1>5 DEF TypeOK, LiveInv, FinalInv, RunnerAnalyze
  <1>6. ASSUME NEW u \in Uploads, RunnerReady(u) \/ RunnerRaises(u) \/ RunnerLost(u)
        PROVE  LiveInv' /\ FinalInv'
    BY <1>6 DEF TypeOK, LiveInv, FinalInv, RunnerReady, RunnerRaises, RunnerLost
  <1>7. ASSUME NEW u \in Uploads, GracePasses(u)
        PROVE  LiveInv' /\ FinalInv'
    BY <1>7 DEF TypeOK, LiveInv, FinalInv, GracePasses
  <1>8. CASE Crash
    BY <1>8 DEF TypeOK, LiveInv, FinalInv, Crash
  <1>9. CASE Restart
    BY <1>9 DEF TypeOK, LiveInv, FinalInv, Restart, Reaped
  <1>10. CASE UNCHANGED vars
    BY <1>10 DEF LiveInv, FinalInv, vars
  <1> QED
    BY <1>1, <1>2, <1>3, <1>4, <1>5, <1>6, <1>7, <1>8, <1>9, <1>10 DEF Next, RunnerStep, RunnerEnds

\* The two invariants hold in every reachable state.
LEMMA LiveInvHolds == Spec => [](LiveInv /\ FinalInv)
  <1>1. Init => LiveInv /\ FinalInv
    BY DEF Init, LiveInv, FinalInv, Live, InProgress, Final
  <1> QED
    BY <1>1, LiveInvStep, TypeCorrect, PTL DEF Spec

\* While requests are served, a row in progress has a task that will still end
\* it, for any number of uploads, deletions and crashes, except for those that
\* started within the grace window and those the database failed.
THEOREM NoStuckUpload == Spec => []InProgressIsLive
  <1>1. LiveInv => InProgressIsLive
    BY DEF LiveInv, InProgressIsLive
  <1> QED
    BY <1>1, LiveInvHolds, PTL

-----------------------------------------------------------------------------
(* One row for each image *)

\* A row that appears is one the unique constraint admitted; no step brings a
\* deleted row back or changes a hash that a row refers to.
LEMMA OneRowStep ==
    ASSUME TypeOK, LiveInv, OneRowPerImage, [Next]_vars
    PROVE  OneRowPerImage'
  <1> USE DEF Stage, InProgress, Final, Present, SetStage, Last, rowVars, procVars
  <1>1. ASSUME NEW u \in Uploads, NEW c \in Content, UploadBegin(u, c)
        PROVE  OneRowPerImage'
    BY <1>1 DEF TypeOK, LiveInv, OneRowPerImage, UploadBegin
  <1>2. ASSUME NEW u \in Uploads, UploadCommit(u)
        PROVE  OneRowPerImage'
    BY <1>2 DEF TypeOK, OneRowPerImage, UploadCommit, Refused, Known
  <1>3. ASSUME \A u \in Uploads : Present(u)' => Present(u), UNCHANGED sha256
        PROVE  OneRowPerImage'
    BY <1>3 DEF OneRowPerImage
  <1>4. ASSUME NEW u \in Uploads,
               \/ UploadFails(u) \/ DeleteFiles(u) \/ DeleteCommit(u)
               \/ RunnerLoad(u) \/ RemoveArchive(u) \/ RunnerLost(u) \/ GracePasses(u)
        PROVE  OneRowPerImage'
    BY <1>3, <1>4 DEF TypeOK, UploadFails, DeleteFiles, DeleteCommit, RunnerLoad,
                      RemoveArchive, RunnerLost, GracePasses
  <1>5. ASSUME NEW u \in Uploads, NEW found \in BOOLEAN,
               RunnerExtract(u) \/ RunnerAnalyze(u, found) \/ RunnerReady(u) \/ RunnerRaises(u)
        PROVE  OneRowPerImage'
    BY <1>3, <1>5 DEF TypeOK, RunnerExtract, RunnerAnalyze, RunnerReady, RunnerRaises
  <1>6. CASE Crash
    BY <1>3, <1>6 DEF Crash
  <1>7. CASE Restart
    BY <1>3, <1>7 DEF TypeOK, Restart, Reaped
  <1>8. CASE UNCHANGED vars
    BY <1>3, <1>8 DEF vars
  <1> QED
    BY <1>1, <1>2, <1>4, <1>5, <1>6, <1>7, <1>8 DEF Next, RunnerStep, RunnerEnds

\* Two uploads of the same bytes never both get a row, although the request
\* checks for one long before it inserts its own.
THEOREM RowsAreUnique == Spec => []OneRowPerImage
  <1>1. Init => OneRowPerImage
    BY DEF Init, OneRowPerImage, Present, InProgress, Final
  <1> QED
    BY <1>1, OneRowStep, TypeCorrect, LiveInvHolds, PTL DEF Spec

-----------------------------------------------------------------------------
(* Final stages *)

\* What a step does to the stage of upload u.
Moves(u) == \/ stage'[u] = stage[u]
            \/ stage[u] = "absent" /\ stage'[u] \in InProgress
            \/ stage[u] \in InProgress /\ stage'[u] \in InProgress \cup Final
            \/ stage[u] \in InProgress \cup Final /\ stage'[u] = "deleted"

\* Only a task or the reaper writes the stage of a row, the first of rows that
\* are not final and the second of rows in progress.
LEMMA MovesStep ==
    ASSUME TypeOK, LiveInv, FinalInv, [Next]_vars, NEW u \in Uploads
    PROVE  Moves(u)
  <1> USE DEF Stage, InProgress, Final, Live, SetStage, rowVars, Moves
  <1>0. stage[u] \in Stage
    BY DEF TypeOK
  <1>1. ASSUME NEW v \in Uploads, NEW c \in Content, UploadBegin(v, c)
        PROVE  stage'[u] = stage[u]
    BY <1>1 DEF UploadBegin
  <1>2. ASSUME NEW v \in Uploads, UploadCommit(v)
        PROVE  Moves(u)
    <2>1. stage[v] = "absent"
      BY <1>2 DEF LiveInv, UploadCommit
    <2> QED
      BY <1>2, <2>1 DEF TypeOK, UploadCommit
  <1>3. ASSUME NEW v \in Uploads, DeleteCommit(v)
        PROVE  Moves(u)
    <2>1. Present(v)
      BY <1>3 DEF LiveInv, DeleteCommit
    <2> QED
      BY <1>3, <2>1 DEF TypeOK, DeleteCommit, Present
  <1>4. ASSUME NEW v \in Uploads, NEW found \in BOOLEAN,
               \/ RunnerExtract(v) \/ RunnerAnalyze(v, found)
               \/ RunnerReady(v) \/ RunnerRaises(v)
        PROVE  Moves(u)
    <2>1. pc[v] \in Live
      BY <1>4 DEF RunnerExtract, RunnerAnalyze, RunnerReady, RunnerRaises
    <2>2. stage[v] \notin Final
      BY <2>1 DEF FinalInv
    <2>3. \/ stage' = stage
          \/ stage[v] \in InProgress /\ \E s \in InProgress \cup Final : stage' = [stage EXCEPT ![v] = s]
      BY <1>4, <2>2 DEF RunnerExtract, RunnerAnalyze, RunnerReady, RunnerRaises, Present, Last
    <2> QED
      BY <2>3 DEF TypeOK
  <1>5. ASSUME NEW v \in Uploads,
               \/ UploadFails(v) \/ DeleteFiles(v) \/ RunnerLoad(v)
               \/ RemoveArchive(v) \/ RunnerLost(v) \/ GracePasses(v)
        PROVE  stage'[u] = stage[u]
    BY <1>5 DEF UploadFails, DeleteFiles, RunnerLoad, RemoveArchive, RunnerLost, GracePasses
  <1>6. CASE Crash
    BY <1>6 DEF Crash
  <1>7. CASE Restart
    BY <1>7 DEF TypeOK, Restart, Reaped
  <1>8. CASE UNCHANGED vars
    BY <1>8 DEF vars
  <1> QED
    BY <1>1, <1>2, <1>3, <1>4, <1>5, <1>6, <1>7, <1>8 DEF Next, RunnerStep, RunnerEnds

\* Uploads keep the promise of Lifecycle: a verdict stays as it was written until
\* its row is deleted, and a deleted row stays deleted, whatever task, reaper and
\* requests do.
THEOREM FinalStagesStay == Spec => FinalStageIsFinal
  <1> USE DEF Verdict!Phase
  <1>1. Init => Verdict!Init
    <2> SUFFICES ASSUME Init PROVE Verdict!Init
      OBVIOUS
    <2>1. \A u \in Uploads : PhaseOf(u) = "none"
      BY DEF Init, PhaseOf, InProgress, Final
    <2> QED
      BY <2>1 DEF Verdict!Init
  <1>2. TypeOK /\ TypeOK' /\ LiveInv /\ FinalInv /\ [Next]_vars
            => [Verdict!Next]_([u \in Uploads |-> PhaseOf(u)])
    <2> SUFFICES ASSUME TypeOK, TypeOK', LiveInv, FinalInv, [Next]_vars PROVE Verdict!Next
      OBVIOUS
    <2>1. ASSUME NEW u \in Uploads
          PROVE  /\ PhaseOf(u)' \in {"none", "active", "gone"} \cup Final
                 /\ \/ PhaseOf(u)' = PhaseOf(u)
                    \/ PhaseOf(u) = "none" /\ PhaseOf(u)' = "active"
                    \/ PhaseOf(u) = "active" /\ PhaseOf(u)' \in Final
                    \/ PhaseOf(u) \in {"active"} \cup Final /\ PhaseOf(u)' = "gone"
      <3>1. stage[u] \in Stage /\ stage'[u] \in Stage /\ Moves(u)
        BY MovesStep DEF TypeOK
      <3> QED
        BY <3>1 DEF PhaseOf, Moves, Stage, InProgress, Final
    <2> QED
      BY <2>1 DEF Verdict!Next, Verdict!Open, Verdict!Close, Verdict!Discard
  <1> QED
    BY <1>1, <1>2, TypeCorrect, LiveInvHolds, PTL DEF Spec, FinalStageIsFinal, Verdict!Spec
=============================================================================
