---------------------------- MODULE Unpack_proofs ----------------------------
(***************************************************************************)
(* Proofs about Unpack, for any number of firmware images and tasks, any   *)
(* of the operations and any number of crashes.                            *)
(***************************************************************************)
EXTENDS Unpack, TLAPS

\* The ORM leaves the status alone or writes the new value.
LEMMA SetStatusValue ==
    ASSUME NEW f, NEW old, NEW new, SetStatus(f, old, new)
    PROVE  status' \in {status, new} /\ author' \in {author, f, None}
  BY DEF SetStatus

\* What a session reads has the type of what a task remembers.
LEMMA ReadType ==
    ASSUME TypeOK, NEW f \in Firmware, NEW res \in Result
    PROVE  Read(f, res) \in Seen
  <1>1. (row[f] = "present") \in BOOLEAN /\ (f \in extracted) \in BOOLEAN /\ (f \in stage) \in BOOLEAN
    OBVIOUS
  <1> QED
    BY <1>1 DEF TypeOK, Read, Seen

LEMMA UnreadType == Unread \in Seen
  BY DEF Unread, Seen, Status, Result

\* Closing a session keeps the types of pc and seen.
LEMMA CloseType ==
    ASSUME TypeOK, NEW t \in Task, NEW label \in PC, Close(t, label)
    PROVE  /\ pc' = [pc EXCEPT ![t] = label] /\ pc' \in [Task -> PC]
           /\ seen' \in [Task -> Seen]
  BY UnreadType DEF TypeOK, Close, Goto

\* The status a task writes is one of the statuses.
LEMMA VerdictType ==
    ASSUME NEW t
    PROVE  Verdict(t) \in {"created", "error"}
  BY DEF Verdict

LEMMA OutcomeType ==
    ASSUME NEW res
    PROVE  Outcome(res) \in {"ready", "error"}
  BY DEF Outcome

LEMMA AfterBodyType ==
    ASSUME NEW t
    PROVE  AfterBody(t) \in {"done", "finally"}
  BY DEF AfterBody

\* A task records its own firmware's path, takes it away, or leaves it.
LEMMA RecordedValue ==
    ASSUME TypeOK, NEW t \in Task, NEW x \in Recorded(t)
    PROVE  /\ extracted \ {job[t].fw} \subseteq x
           /\ x \subseteq extracted \cup {job[t].fw}
           /\ seen[t].result # "rtos" => extracted \subseteq x
           /\ seen[t].result = "rootfs" /\ ~seen[t].extracted => job[t].fw \in x
  <1>1. seen[t].result \in {"fail", "rootfs", "rtos"}
    BY DEF TypeOK, Seen, Result
  <1> QED
    BY <1>1 DEF Recorded

\* Every step keeps TypeOK.
LEMMA TypeOKStep ==
    ASSUME TypeOK, [Next]_vars
    PROVE  TypeOK'
  <1> USE ConstAssumption DEF Status, Row, Del, Via, PC, projVars
  <1>1. ASSUME NEW f \in Firmware, Upload(f) \/ ImportCommit(f)
        PROVE  TypeOK'
    BY <1>1 DEF TypeOK, Upload, ImportCommit, reqVars, taskVars
  <1>2. ASSUME NEW f \in Firmware, NEW found \in BOOLEAN, PostProcess(f, found)
        PROVE  TypeOK'
    BY <1>2 DEF TypeOK, PostProcess, reqVars, taskVars
  <1>3. ASSUME NEW f \in Firmware, UnpackBegin(f)
        PROVE  TypeOK'
    BY <1>3 DEF TypeOK, UnpackBegin, rowVars, taskVars
  <1>4. CASE UnpackAbort \/ UnpackCommit
    BY <1>4 DEF TypeOK, UnpackAbort, UnpackCommit, rowVars, taskVars
  <1>5. ASSUME NEW t \in Task, NEW via \in {"arq", "inproc"}, UnpackEnqueue(t, via)
        PROVE  TypeOK'
    BY <1>5 DEF TypeOK, UnpackEnqueue, Fresh, Goto, Locked, rowVars
  <1>6. ASSUME NEW f \in Firmware, DeleteBegin(f)
        PROVE  TypeOK'
    BY <1>6 DEF TypeOK, DeleteBegin, rowVars, taskVars
  <1>7. ASSUME NEW f \in Firmware, DeleteCommit(f)
        PROVE  TypeOK'
    <2>1. status' \in Status /\ author' \in Firmware \cup {None}
      BY <1>7, SetStatusValue DEF TypeOK, DeleteCommit
    <2> QED
      BY <1>7, <2>1 DEF TypeOK, DeleteCommit, taskVars
  <1>8. ASSUME NEW f \in Firmware, RootfsBegin(f) \/ RootfsFail(f)
        PROVE  TypeOK'
    BY <1>8 DEF TypeOK, RootfsBegin, RootfsFail, rowVars, taskVars
  <1>9. ASSUME NEW f \in Firmware, RootfsCommit(f)
        PROVE  TypeOK'
    <2>1. status' \in Status /\ author' \in Firmware \cup {None}
      BY <1>9, SetStatusValue DEF TypeOK, RootfsCommit
    <2> QED
      BY <1>9, <2>1 DEF TypeOK, RootfsCommit, taskVars
  <1>10. ASSUME NEW f \in Firmware, NEW t \in Task, Import(f, t)
         PROVE  TypeOK'
    BY <1>10 DEF TypeOK, Import, Fresh, Goto, reqVars
  <1>11. ASSUME NEW t \in Task, Start(t) \/ Progress(t)
         PROVE  TypeOK'
    BY <1>11 DEF TypeOK, Start, Progress, Goto, rowVars, reqVars, taskVars
  <1>12. ASSUME NEW t \in Task, NEW res \in Result, RunReturns(t, res)
         PROVE  TypeOK'
    <2>1. Read(job[t].fw, res) \in Seen
      BY <1>12, ReadType DEF TypeOK, RunReturns
    <2>2. seen' \in [Task -> Seen]
      BY <1>12, <2>1 DEF TypeOK, RunReturns
    <2> QED
      BY <1>12, <2>2 DEF TypeOK, RunReturns, Goto, rowVars, reqVars
  <1>13. ASSUME NEW t \in Task, RunRaises(t)
         PROVE  TypeOK'
    <2>1. /\ pc' \in [Task -> PC] /\ pc' = [pc EXCEPT ![t] = AfterBody(t)]
          /\ seen' \in [Task -> Seen]
      BY <1>13, AfterBodyType, CloseType DEF RunRaises
    <2> QED
      BY <1>13, <2>1 DEF TypeOK, RunRaises, rowVars, reqVars
  <1>14. ASSUME NEW t \in Task, FinishMissing(t)
         PROVE  TypeOK'
    <2>1. /\ pc' \in [Task -> PC] /\ pc' = [pc EXCEPT ![t] = AfterBody(t)]
          /\ seen' \in [Task -> Seen]
      BY <1>14, AfterBodyType, CloseType DEF FinishMissing
    <2>2. status' \in Status /\ author' \in Firmware \cup {None}
      BY <1>14, SetStatusValue DEF TypeOK, FinishMissing
    <2> QED
      BY <1>14, <2>1, <2>2 DEF TypeOK, FinishMissing, rowVars, reqVars
  <1>15. ASSUME NEW t \in Task, FinishCommit(t)
         PROVE  TypeOK'
    <2>1. /\ pc' \in [Task -> PC] /\ pc' = [pc EXCEPT ![t] = AfterBody(t)]
          /\ seen' \in [Task -> Seen]
      BY <1>15, AfterBodyType, CloseType DEF FinishCommit
    <2>2. status' \in Status /\ author' \in Firmware \cup {None}
      BY <1>15, SetStatusValue, OutcomeType DEF TypeOK, FinishCommit
    <2>3. job[t].fw \in Firmware /\ row[job[t].fw] = "present"
      BY <1>15 DEF TypeOK, FinishCommit
    <2>4. extracted' \subseteq {f \in Firmware : row'[f] = "present"}
      <3>1. extracted' \subseteq extracted \cup {job[t].fw}
        BY <1>15, RecordedValue DEF FinishCommit, TypeOK
      <3> QED
        BY <1>15, <2>3, <3>1 DEF TypeOK, FinishCommit
    <2>6. rtos' \subseteq {f \in Firmware : row'[f] = "present"}
      BY <1>15, <2>3 DEF TypeOK, FinishCommit
    <2>5. stage' \subseteq {f \in Firmware : row'[f] = "present"}
      BY <1>15, <2>3 DEF TypeOK, FinishCommit
    <2> QED
      BY <1>15, <2>1, <2>2, <2>3, <2>4, <2>5, <2>6 DEF TypeOK, FinishCommit, reqVars
  <1>16. ASSUME NEW t \in Task, FinallyRead(t)
         PROVE  TypeOK'
    <2>1. Read(job[t].fw, "fail") \in Seen
      BY <1>16, ReadType DEF TypeOK, FinallyRead, Result
    <2>2. seen' \in [Task -> Seen]
      BY <1>16, <2>1 DEF TypeOK, FinallyRead
    <2> QED
      BY <1>16, <2>2 DEF TypeOK, FinallyRead, Goto, rowVars, reqVars
  <1>17. ASSUME NEW t \in Task, FinallyWrite(t)
         PROVE  TypeOK'
    <2>1. /\ pc' \in [Task -> PC] /\ pc' = [pc EXCEPT ![t] = "done"]
          /\ seen' \in [Task -> Seen]
      BY <1>17, CloseType DEF FinallyWrite
    <2>2. status' \in Status /\ author' \in Firmware \cup {None}
      BY <1>17, SetStatusValue, VerdictType DEF TypeOK, FinallyWrite
    <2>3. stage' \subseteq stage /\ lapsed' \subseteq lapsed \cup {t}
      BY <1>17 DEF FinallyWrite
    <2> QED
      BY <1>17, <2>1, <2>2, <2>3 DEF TypeOK, FinallyWrite, reqVars
  <1>21. ASSUME NEW t \in Task, FinallyRaises(t)
         PROVE  TypeOK'
    <2>1. /\ pc' \in [Task -> PC] /\ pc' = [pc EXCEPT ![t] = "done"]
          /\ seen' \in [Task -> Seen]
      BY <1>21, CloseType DEF FinallyRaises
    <2>2. crashes' \in 0 .. MaxCrash
      BY <1>21 DEF TypeOK, FinallyRaises
    <2> QED
      BY <1>21, <2>1, <2>2 DEF TypeOK, FinallyRaises, rowVars, reqVars
  <1>18. CASE BackendCrash
    <2>1. crashes' \in 0 .. MaxCrash
      BY <1>18 DEF TypeOK, BackendCrash
    <2>2. seen' \in [Task -> Seen]
      BY <1>18, UnreadType DEF TypeOK, BackendCrash
    <2>3. pc' \in [Task -> PC] /\ \A t \in Task : pc[t] = "free" => pc'[t] = "free"
      BY <1>18 DEF TypeOK, BackendCrash, Live
    <2>4. row' \in [Firmware -> Row] /\ \A f \in Firmware : row[f] = "present" => row'[f] = "present"
      BY <1>18 DEF TypeOK, BackendCrash
    <2> QED
      BY <1>18, <2>1, <2>2, <2>3, <2>4 DEF TypeOK, BackendCrash
  <1>19. CASE WorkerCrash
    <2>1. crashes' \in 0 .. MaxCrash
      BY <1>19 DEF TypeOK, WorkerCrash
    <2>2. seen' \in [Task -> Seen]
      BY <1>19, UnreadType DEF TypeOK, WorkerCrash
    <2>3. pc' \in [Task -> PC] /\ \A t \in Task : pc[t] = "free" => pc'[t] = "free"
      BY <1>19 DEF TypeOK, WorkerCrash, Live
    <2> QED
      BY <1>19, <2>1, <2>2, <2>3 DEF TypeOK, WorkerCrash, rowVars, reqVars
  <1>20. CASE UNCHANGED vars
    BY <1>20 DEF TypeOK, vars, rowVars, reqVars, taskVars
  <1> QED
    BY <1>1, <1>2, <1>3, <1>4, <1>5, <1>6, <1>7, <1>8, <1>9, <1>10, <1>11, <1>12,
       <1>13, <1>14, <1>15, <1>16, <1>17, <1>18, <1>19, <1>20, <1>21
       DEF Next, FirmwareStep, TaskStep

\* The types of the project, its firmware and its tasks hold in every reachable
\* state; in particular a file system or progress is only recorded on a row
\* that exists.
THEOREM TypeCorrect == Spec => []TypeOK
  <1>1. Init => TypeOK
    BY UnreadType, ConstAssumption
       DEF Init, TypeOK, Status, Row, Del, Via, PC
  <1> QED
    BY <1>1, TypeOKStep, PTL DEF Spec

-----------------------------------------------------------------------------
(* "unpacking" is waiting for a task. *)

\* Task t will still look at the project, or has seen that it must be settled.
Settles(t) == /\ job[t].via # "import"
              /\ \/ Pending(t)
                 \/ pc[t] = "reset" /\ seen[t].status = "unpacking"

NoLoss == lapsed = {} /\ crashes = 0

\* The strengthening: the task an unpack request has started does not run out
\* before the request commits, unless that is recorded in lapsed.
SettleInv ==
    NoLoss => /\ status = "unpacking" => \E t \in Task : Settles(t)
              /\ enq # None => job[enq].via # "import" /\ Pending(enq)

\* A step that keeps every task that settles and does not write "unpacking"
\* keeps the invariant.
LEMMA SettleFrame ==
    ASSUME SettleInv, TypeOK,
           NoLoss' => NoLoss,
           status' \in {status, "created", "ready", "error"},
           enq' \in {enq, None},
           NoLoss' /\ status' = status => \A t \in Task : Settles(t) => Settles(t)',
           NoLoss' => \A t \in Task : enq = t /\ job[t].via # "import" /\ Pending(t)
                                        => job'[t].via # "import" /\ Pending(t)'
    PROVE  SettleInv'
  BY DEF SettleInv, TypeOK

\* A step of a task that is not over, and not its last reads, keeps it waiting.
LEMMA SettleMove ==
    ASSUME SettleInv, TypeOK, NEW t \in Task, NEW label, job[t].via # "import" => label \in {"run", "finish", "finally"},
           pc' = [pc EXCEPT ![t] = label],
           \A u \in Task \ {t} : seen'[u] = seen[u],
           UNCHANGED <<job, lapsed, crashes, enq>>,
           status' \in {status, "created", "ready", "error"}
    PROVE  SettleInv'
  <1>1. ASSUME NEW u \in Task, Settles(u)
        PROVE  Settles(u)'
    BY <1>1 DEF Settles, Pending, TypeOK
  <1>2. ASSUME NEW u \in Task, job[u].via # "import", Pending(u)
        PROVE  Pending(u)'
    BY <1>2 DEF Pending, TypeOK
  <1> QED
    BY <1>1, <1>2, SettleFrame DEF NoLoss

\* Every step keeps the invariant.
LEMMA SettleInvStep ==
    ASSUME TypeOK, SettleInv, [Next]_vars
    PROVE  SettleInv'
  <1> USE ConstAssumption DEF projVars
  <1>1. ASSUME UNCHANGED <<enq, taskVars, crashes>>,
               status' \in {status, "created", "ready", "error"}
        PROVE  SettleInv'
    BY <1>1, SettleFrame DEF NoLoss, Settles, Pending, taskVars
  <1>2. ASSUME NEW f \in Firmware, FirmwareStep(f)
        PROVE  SettleInv'
    <2>1. CASE DeleteCommit(f)
      <3>1. status' \in {status, "created"}
        BY <2>1, SetStatusValue DEF DeleteCommit
      <3> QED
        BY <1>1, <2>1, <3>1 DEF DeleteCommit
    <2>2. CASE RootfsCommit(f)
      <3>1. status' \in {status, "ready"}
        BY <2>2, SetStatusValue DEF RootfsCommit
      <3> QED
        BY <1>1, <2>2, <3>1 DEF RootfsCommit
    <2>3. CASE \/ Upload(f) \/ ImportCommit(f)
               \/ \E found \in BOOLEAN : PostProcess(f, found)
               \/ UnpackBegin(f) \/ DeleteBegin(f) \/ RootfsBegin(f) \/ RootfsFail(f)
      BY <1>1, <2>3 DEF Upload, ImportCommit, PostProcess, UnpackBegin, DeleteBegin,
                        RootfsBegin, RootfsFail, reqVars
    <2> QED
      BY <1>2, <2>1, <2>2, <2>3 DEF FirmwareStep
  <1>3. CASE UnpackAbort
    BY <1>1, <1>3 DEF UnpackAbort
  <1>4. CASE UnpackCommit
    <2>1. enq \in Task /\ enq' = None /\ UNCHANGED <<taskVars, crashes>>
      BY <1>4 DEF UnpackCommit, TypeOK
    <2>2. NoLoss' => NoLoss /\ Settles(enq)
      BY <1>4, <2>1 DEF SettleInv, Settles, NoLoss, taskVars, UnpackCommit
    <2>3. NoLoss' => \E t \in Task : Settles(t)'
      BY <2>1, <2>2 DEF Settles, Pending, taskVars
    <2> QED
      BY <2>1, <2>3 DEF SettleInv
  <1>5. ASSUME NEW t \in Task, pc[t] = "free", pc'[t] \in {"queued", "run"},
               \A u \in Task \ {t} : pc'[u] = pc[u] /\ job'[u] = job[u],
               UNCHANGED <<status, seen, lapsed, crashes>>,
               enq' = enq \/ (enq' = t /\ job'[t].via # "import")
        PROVE  SettleInv'
    <2>1. ASSUME NEW u \in Task, Settles(u)
          PROVE  Settles(u)'
      BY <1>5, <2>1 DEF Settles, Pending, TypeOK
    <2>2. ASSUME NEW u \in Task, Pending(u)
          PROVE  Pending(u)' /\ job'[u] = job[u]
      BY <1>5, <2>2 DEF Pending, TypeOK
    <2>3. Pending(t)'
      BY <1>5 DEF Pending, TypeOK
    <2> QED
      BY <1>5, <2>1, <2>2, <2>3 DEF SettleInv, NoLoss, TypeOK
  <1>6. ASSUME NEW t \in Task, NEW via \in {"arq", "inproc"}, UnpackEnqueue(t, via)
        PROVE  SettleInv'
    <2>1. /\ pc[t] = "free" /\ pc'[t] = "queued"
          /\ \A u \in Task \ {t} : pc'[u] = pc[u] /\ job'[u] = job[u]
          /\ UNCHANGED <<status, seen, lapsed, crashes>>
          /\ enq' = t /\ job'[t].via # "import"
      BY <1>6 DEF UnpackEnqueue, Fresh, Goto, TypeOK
    <2> QED
      BY <1>5, <2>1
  <1>7. ASSUME NEW f \in Firmware, NEW t \in Task, Import(f, t)
        PROVE  SettleInv'
    <2>1. /\ pc[t] = "free" /\ pc'[t] = "run"
          /\ \A u \in Task \ {t} : pc'[u] = pc[u] /\ job'[u] = job[u]
          /\ UNCHANGED <<status, seen, lapsed, crashes>> /\ enq' = enq
      BY <1>7 DEF Import, Fresh, Goto, TypeOK, reqVars
    <2> QED
      BY <1>5, <2>1
  <1>8. ASSUME NEW t \in Task, Start(t)
        PROVE  SettleInv'
    BY <1>8, SettleMove DEF Start, Goto, reqVars
  <1>9. ASSUME NEW t \in Task, Progress(t)
        PROVE  SettleInv'
    BY <1>1, <1>9 DEF Progress, reqVars
  <1>10. ASSUME NEW t \in Task, NEW res \in Result, RunReturns(t, res)
         PROVE  SettleInv'
    BY <1>10, SettleMove DEF RunReturns, Goto, reqVars, TypeOK
  <1>11. ASSUME NEW t \in Task, Close(t, AfterBody(t)),
                UNCHANGED <<job, lapsed, crashes, enq>>,
                status' \in {status, "created", "ready", "error"}
         PROVE  SettleInv'
    <2>1. job[t].via # "import" => AfterBody(t) = "finally"
      BY DEF AfterBody
    <2> QED
      BY <1>11, <2>1, SettleMove DEF Close, Goto, TypeOK
  <1>12. ASSUME NEW t \in Task, RunRaises(t)
         PROVE  SettleInv'
    BY <1>11, <1>12 DEF RunRaises, reqVars
  <1>13. ASSUME NEW t \in Task, FinishMissing(t)
         PROVE  SettleInv'
    <2>1. status' \in {status, "created"}
      BY <1>13, SetStatusValue DEF FinishMissing
    <2> QED
      BY <1>11, <1>13, <2>1 DEF FinishMissing, reqVars
  <1>14. ASSUME NEW t \in Task, FinishCommit(t)
         PROVE  SettleInv'
    <2>1. status' \in {status, "ready", "error"}
      BY <1>14, SetStatusValue, OutcomeType DEF FinishCommit
    <2> QED
      BY <1>11, <1>14, <2>1 DEF FinishCommit, reqVars
  <1>15. ASSUME NEW t \in Task, FinallyRead(t)
         PROVE  SettleInv'
    <2>1. /\ pc' = [pc EXCEPT ![t] = "reset"] /\ seen'[t].status = status
          /\ \A u \in Task \ {t} : seen'[u] = seen[u]
          /\ UNCHANGED <<status, enq, job, crashes>>
          /\ lapsed \subseteq lapsed' /\ (enq = t => lapsed' # {})
      BY <1>15 DEF FinallyRead, Goto, Read, TypeOK, reqVars
    <2>2. ASSUME NEW u \in Task, Settles(u), status = "unpacking"
          PROVE  Settles(u)'
      BY <2>1, <2>2 DEF Settles, Pending, TypeOK
    <2>3. ASSUME NEW u \in Task \ {t}, Pending(u)
          PROVE  Pending(u)'
      BY <2>1, <2>3 DEF Pending, TypeOK
    <2> QED
      BY <2>1, <2>2, <2>3 DEF SettleInv, NoLoss, TypeOK
  <1>16. ASSUME NEW t \in Task, FinallyWrite(t)
         PROVE  SettleInv'
    <2>1. /\ pc[t] = "reset" /\ pc' = [pc EXCEPT ![t] = "done"]
          /\ \A u \in Task \ {t} : seen'[u] = seen[u]
          /\ UNCHANGED <<enq, job, crashes>> /\ lapsed \subseteq lapsed'
      BY <1>16 DEF FinallyWrite, Close, Goto, TypeOK, reqVars
    <2>2. status' \in {status, "created", "error"}
      BY <1>16, SetStatusValue, VerdictType DEF FinallyWrite
    <2>3. NoLoss' /\ Settles(t) => status' # "unpacking"
      BY <1>16, <2>1, VerdictType DEF FinallyWrite, SetStatus, Settles, Pending, NoLoss
    <2>4. ASSUME NEW u \in Task \ {t}, Settles(u)
          PROVE  Settles(u)'
      BY <2>1, <2>4 DEF Settles, Pending, TypeOK
    <2>5. ASSUME NEW u \in Task, Pending(u)
          PROVE  Pending(u)'
      BY <2>1, <2>5 DEF Pending, TypeOK
    <2> QED
      BY <2>1, <2>2, <2>3, <2>4, <2>5 DEF SettleInv, NoLoss, TypeOK
  <1>17. CASE BackendCrash \/ WorkerCrash \/ \E t \in Task : FinallyRaises(t)
    BY <1>17 DEF BackendCrash, WorkerCrash, FinallyRaises, SettleInv, NoLoss, TypeOK
  <1>18. CASE UNCHANGED vars
    BY <1>1, <1>18 DEF vars, projVars, reqVars
  <1> QED
    BY <1>2, <1>3, <1>4, <1>6, <1>7, <1>8, <1>9, <1>10, <1>12, <1>13, <1>14, <1>15,
       <1>16, <1>17, <1>18 DEF Next, TaskStep

\* A project is left in "unpacking" only by a crash, by a clean-up that the
\* database failed, or by one of the two races that lapsed records.
THEOREM OnlyRaceOrCrashSticks == Spec => []StuckOnlyByRaceOrCrash
  <1>1. Init => SettleInv
    BY DEF Init, SettleInv
  <1>2. SettleInv => StuckOnlyByRaceOrCrash
    BY DEF SettleInv, StuckOnlyByRaceOrCrash, NoLoss, Settles
  <1> QED
    BY <1>1, <1>2, SettleInvStep, TypeCorrect, PTL DEF Spec

-----------------------------------------------------------------------------
(* Progress columns belong to a running task. *)

\* Task t will still clear the progress columns of firmware f.
WillClear(t, f) ==
    /\ job[t].fw = f /\ job[t].via # "import"
    /\ \/ Pending(t)
       \/ pc[t] = "reset" /\ seen[t].present /\ seen[t].stage /\ ~seen[t].extracted

\* Firmware that shows progress and is not unpacked yet.
Unfinished == stage \ (extracted \cup rtos)

ClearInv == crashes = 0 => \A f \in Unfinished : \E t \in Task : WillClear(t, f)

\* A step that shows no new progress and keeps every task that will clear some
\* keeps the invariant.
LEMMA ClearFrame ==
    ASSUME ClearInv, crashes' = crashes,
           Unfinished' \subseteq Unfinished,
           \A f \in Unfinished', t \in Task : WillClear(t, f) => WillClear(t, f)'
    PROVE  ClearInv'
  BY DEF ClearInv

\* A task that moves on, other than to its last write, will still clear.
LEMMA ClearMove ==
    ASSUME ClearInv, TypeOK, NEW t \in Task, NEW label,
           job[t].via # "import" => label \in {"run", "finish", "finally"},
           pc' = [pc EXCEPT ![t] = label],
           \A u \in Task \ {t} : seen'[u] = seen[u],
           UNCHANGED <<job, crashes>>,
           Unfinished' \subseteq Unfinished
    PROVE  ClearInv'
  <1>1. ASSUME NEW f, NEW u \in Task, WillClear(u, f)
        PROVE  WillClear(u, f)'
    BY <1>1 DEF WillClear, Pending, TypeOK
  <1> QED
    BY <1>1, ClearFrame

\* Every step keeps the invariant.
LEMMA ClearInvStep ==
    ASSUME TypeOK, ClearInv, [Next]_vars
    PROVE  ClearInv'
  <1> USE DEF Unfinished
  <1>1. ASSUME UNCHANGED <<taskVars, crashes>>,
               Unfinished' \subseteq Unfinished
        PROVE  ClearInv'
    BY <1>1, ClearFrame DEF WillClear, Pending, taskVars
  <1>2. ASSUME NEW f \in Firmware, FirmwareStep(f)
        PROVE  ClearInv'
    <2>1. UNCHANGED <<taskVars, crashes>>
      BY <1>2 DEF FirmwareStep, Upload, PostProcess, UnpackBegin, DeleteBegin, DeleteCommit,
                  RootfsBegin, RootfsCommit, RootfsFail, ImportCommit
    <2>2. Unfinished' \subseteq Unfinished
      BY <1>2 DEF FirmwareStep, Upload, PostProcess, UnpackBegin, DeleteBegin, DeleteCommit,
                  RootfsBegin, RootfsCommit, RootfsFail, ImportCommit, rowVars
    <2> QED
      BY <1>1, <2>1, <2>2
  <1>3. CASE UnpackAbort \/ UnpackCommit
    BY <1>1, <1>3 DEF UnpackAbort, UnpackCommit, rowVars
  <1>4. ASSUME NEW t \in Task, pc[t] = "free",
               \A u \in Task \ {t} : pc'[u] = pc[u] /\ job'[u] = job[u],
               UNCHANGED <<stage, extracted, rtos, seen, crashes>>
        PROVE  ClearInv'
    <2>1. ASSUME NEW f, NEW u \in Task, WillClear(u, f)
          PROVE  WillClear(u, f)'
      BY <1>4, <2>1 DEF WillClear, Pending
    <2> QED
      BY <1>4, <2>1, ClearFrame
  <1>5. ASSUME NEW t \in Task, NEW via \in {"arq", "inproc"}, UnpackEnqueue(t, via)
        PROVE  ClearInv'
    BY <1>4, <1>5 DEF UnpackEnqueue, Fresh, Goto, TypeOK, rowVars
  <1>6. ASSUME NEW f \in Firmware, NEW t \in Task, Import(f, t)
        PROVE  ClearInv'
    BY <1>4, <1>6 DEF Import, Fresh, Goto, TypeOK
  <1>7. ASSUME NEW t \in Task, Start(t)
        PROVE  ClearInv'
    BY <1>7, ClearMove DEF Start, Goto, rowVars
  <1>8. ASSUME NEW t \in Task, Progress(t)
        PROVE  ClearInv'
    <2>1. /\ UNCHANGED <<taskVars, crashes, extracted, rtos>>
          /\ stage' = stage \cup {job[t].fw} /\ pc[t] = "run" /\ job[t].via # "import"
      BY <1>8 DEF Progress
    <2>2. WillClear(t, job[t].fw)
      BY <2>1 DEF WillClear, Pending
    <2>3. ASSUME NEW u \in Task, NEW f, WillClear(u, f)
          PROVE  WillClear(u, f)'
      BY <2>1, <2>3 DEF WillClear, Pending, taskVars
    <2> QED
      BY <2>1, <2>2, <2>3 DEF ClearInv
  <1>9. ASSUME NEW t \in Task, NEW res \in Result, RunReturns(t, res)
        PROVE  ClearInv'
    BY <1>9, ClearMove DEF RunReturns, Goto, rowVars, TypeOK
  <1>10. ASSUME NEW t \in Task, Close(t, AfterBody(t)), UNCHANGED <<job, crashes>>,
                Unfinished' \subseteq Unfinished
         PROVE  ClearInv'
    <2>1. job[t].via # "import" => AfterBody(t) = "finally"
      BY DEF AfterBody
    <2> QED
      BY <1>10, <2>1, ClearMove DEF Close, Goto, TypeOK
  <1>11. ASSUME NEW t \in Task, RunRaises(t) \/ FinishMissing(t) \/ FinishCommit(t)
         PROVE  ClearInv'
    <2>1. CASE RunRaises(t) \/ FinishMissing(t)
      BY <1>10, <2>1 DEF RunRaises, FinishMissing, Unfinished, rowVars
    <2>2. CASE FinishCommit(t)
      <3>1. stage' \subseteq stage /\ extracted \cup rtos \subseteq extracted' \cup rtos'
        BY <2>2, RecordedValue DEF FinishCommit
      <3>2. Unfinished' \subseteq Unfinished
        BY <3>1 DEF Unfinished
      <3> QED
        BY <1>10, <2>2, <3>2 DEF FinishCommit
    <2> QED
      BY <1>11, <2>1, <2>2
  <1>12. ASSUME NEW t \in Task, FinallyRead(t)
         PROVE  ClearInv'
    <2>1. /\ pc' = [pc EXCEPT ![t] = "reset"] /\ seen'[t] = Read(job[t].fw, "fail")
          /\ \A u \in Task \ {t} : seen'[u] = seen[u]
          /\ UNCHANGED <<stage, extracted, rtos, job, crashes>>
      BY <1>12 DEF FinallyRead, Goto, TypeOK, rowVars
    <2>2. ASSUME NEW f \in Unfinished, NEW u \in Task, WillClear(u, f)
          PROVE  WillClear(u, f)'
      <3>1. row[f] = "present"
        BY DEF TypeOK
      <3>2. CASE u = t
        <4>1. seen'[t] = Read(f, "fail")
          BY <2>1, <2>2, <3>2 DEF WillClear
        <4>2. /\ Read(f, "fail").present = (row[f] = "present")
              /\ Read(f, "fail").stage = (f \in stage)
              /\ Read(f, "fail").extracted = (f \in extracted)
          BY DEF Read
        <4>3. seen'[t].present /\ seen'[t].stage /\ ~seen'[t].extracted
          BY <3>1, <4>1, <4>2, Zenon
        <4> QED
          BY <2>1, <2>2, <3>2, <4>3 DEF WillClear, TypeOK
      <3>3. CASE u # t
        BY <2>1, <2>2, <3>3 DEF WillClear, Pending, TypeOK
      <3> QED
        BY <3>2, <3>3
    <2> QED
      BY <2>1, <2>2, ClearFrame
  <1>13. ASSUME NEW t \in Task, FinallyWrite(t)
         PROVE  ClearInv'
    <2>1. /\ pc[t] = "reset" /\ pc' = [pc EXCEPT ![t] = "done"]
          /\ \A u \in Task \ {t} : seen'[u] = seen[u]
          /\ UNCHANGED <<extracted, rtos, job, crashes>> /\ stage' \subseteq stage
      BY <1>13 DEF FinallyWrite, Close, Goto, TypeOK
    <2>2. ASSUME NEW f \in Unfinished', NEW u \in Task, WillClear(u, f)
          PROVE  WillClear(u, f)'
      <3>1. CASE u = t
        <4>1. Clears(t) /\ job[t].fw = f
          BY <2>1, <2>2, <3>1 DEF WillClear, Pending, Clears
        <4>2. row[f] = "present"
          BY <2>1, <2>2 DEF TypeOK
        <4>3. f \notin stage'
          BY <1>13, <4>1, <4>2 DEF FinallyWrite
        <4> QED
          BY <2>2, <4>3
      <3>2. CASE u # t
        BY <2>1, <2>2, <3>2 DEF WillClear, Pending, TypeOK
      <3> QED
        BY <3>1, <3>2
    <2> QED
      BY <2>1, <2>2, ClearFrame
  <1>14. CASE BackendCrash \/ WorkerCrash \/ \E t \in Task : FinallyRaises(t)
    BY <1>14 DEF BackendCrash, WorkerCrash, FinallyRaises, ClearInv, TypeOK
  <1>15. CASE UNCHANGED vars
    BY <1>1, <1>15 DEF vars, rowVars, Unfinished
  <1> QED
    BY <1>2, <1>3, <1>5, <1>6, <1>7, <1>8, <1>9, <1>11, <1>12, <1>13, <1>14, <1>15
       DEF Next, TaskStep

\* Without a crash or a failed clean-up, the progress of a firmware that has no file system is always
\* the progress of a task that still runs.
THEOREM NoProgressLeft == Spec => []NoStaleProgress
  <1>1. Init => ClearInv
    BY DEF Init, ClearInv, Unfinished
  <1>2. ClearInv => NoStaleProgress
    BY DEF ClearInv, Unfinished, NoStaleProgress, WillClear, Pending, Live
  <1> QED
    BY <1>1, <1>2, ClearInvStep, TypeCorrect, PTL DEF Spec

-----------------------------------------------------------------------------
(* "ready" stays backed by the firmware that brought it. *)

\* Firmware f is unpacked, or gone.
Backed(f) == row[f] = "deleted" \/ f \in extracted \cup rtos

\* The strengthening: a task that read its firmware as extracted, and so may
\* write no path, still finds it unpacked.
ReadyInv ==
    /\ status = "ready" => author \in Firmware /\ Backed(author)
    /\ \A t \in Task : pc[t] = "finish" /\ seen[t].extracted => Backed(job[t].fw)

\* Nothing but deletion takes a firmware back to where it was not unpacked.
LEMMA BackedKept ==
    ASSUME TypeOK, [Next]_vars, NEW f \in Firmware, Backed(f)
    PROVE  Backed(f)'
  <1>1. ASSUME NEW g \in Firmware, FirmwareStep(g)
        PROVE  Backed(f)'
    BY <1>1 DEF TypeOK, Backed, FirmwareStep, Upload, PostProcess, UnpackBegin, DeleteBegin, DeleteCommit,
                RootfsBegin, RootfsCommit, RootfsFail, ImportCommit, rowVars
  <1>2. ASSUME NEW t \in Task, TaskStep(t)
        PROVE  Backed(f)'
    <2>1. CASE FinishCommit(t)
      BY <2>1, RecordedValue DEF FinishCommit, Backed
    <2> QED
      BY <1>2, <2>1 DEF Backed, TaskStep, Start, Progress, RunReturns, RunRaises, FinishMissing,
                        FinallyRead, FinallyWrite, FinallyRaises, rowVars
  <1>3. ASSUME NEW g \in Firmware, NEW t \in Task, Import(g, t)
        PROVE  Backed(f)'
    BY <1>3 DEF TypeOK, Backed, Import
  <1>4. CASE BackendCrash
    BY <1>4 DEF TypeOK, Backed, BackendCrash
  <1> QED
    BY <1>1, <1>2, <1>3, <1>4 DEF Next, UnpackAbort, UnpackCommit, UnpackEnqueue,
                                  WorkerCrash, vars, rowVars, Backed

\* The steps that write "ready" are those of a firmware that is unpacked by then.
LEMMA ReadyStep ==
    ASSUME TypeOK, ReadyInv, [Next]_vars, status' = "ready", ~UNCHANGED projVars
    PROVE  author' \in Firmware /\ Backed(author)'
  <1> USE DEF projVars
  <1>1. ASSUME NEW f \in Firmware, FirmwareStep(f)
        PROVE  author' \in Firmware /\ Backed(author)'
    <2>1. ~DeleteCommit(f)
      BY DEF DeleteCommit, SetStatus
    <2>2. RootfsCommit(f)
      BY <1>1, <2>1 DEF FirmwareStep, Upload, PostProcess, UnpackBegin, DeleteBegin,
                        RootfsBegin, RootfsFail, ImportCommit
    <2>3. author' = f /\ f \in extracted'
      BY <2>2 DEF RootfsCommit, SetStatus
    <2> QED
      BY <2>3 DEF Backed
  <1>2. ASSUME NEW t \in Task, TaskStep(t)
        PROVE  author' \in Firmware /\ Backed(author)'
    <2>1. ~FinishMissing(t)
      BY DEF FinishMissing, SetStatus
    <2>2. ~FinallyWrite(t)
      BY VerdictType DEF FinallyWrite, SetStatus
    <2>3. FinishCommit(t)
      BY <1>2, <2>1, <2>2 DEF TaskStep, Start, Progress, RunReturns, RunRaises, FinallyRead,
                                  FinallyRaises
    <2>4. job[t].fw \in Firmware /\ seen[t].result \in Result
      BY <2>3 DEF FinishCommit, TypeOK, Seen
    <2>5. author' = job[t].fw /\ seen[t].result # "fail"
      BY <2>3 DEF FinishCommit, SetStatus, Outcome
    <2>6. CASE seen[t].result = "rtos"
      BY <2>3, <2>4, <2>5, <2>6 DEF FinishCommit, Backed
    <2>7. CASE seen[t].result = "rootfs" /\ ~seen[t].extracted
      <3>1. job[t].fw \in extracted'
        BY <2>3, <2>7, RecordedValue DEF FinishCommit
      <3> QED
        BY <2>4, <2>5, <3>1 DEF Backed
    <2>8. CASE seen[t].result = "rootfs" /\ seen[t].extracted
      <3>1. Backed(job[t].fw)
        BY <2>3, <2>8 DEF ReadyInv, FinishCommit
      <3>2. row'[job[t].fw] = "deleted" \/ job[t].fw \in extracted' \cup rtos'
        BY <2>4, <3>1, BackedKept DEF Backed
      <3> QED
        BY <2>4, <2>5, <3>2 DEF Backed
    <2> QED
      BY <2>4, <2>5, <2>6, <2>7, <2>8 DEF Result
  <1> QED
    BY <1>1, <1>2 DEF Next, UnpackAbort, UnpackCommit, UnpackEnqueue, Import, BackendCrash,
                      WorkerCrash, vars

\* A session's reads never run ahead of the rows.
LEMMA SeenStep ==
    ASSUME TypeOK, ReadyInv, [Next]_vars, NEW t \in Task,
           pc'[t] = "finish", seen'[t].extracted
    PROVE  Backed(job[t].fw)'
  <1>1. CASE UNCHANGED <<pc, job, seen>>
    <2>1. Backed(job[t].fw) /\ job[t].fw \in Firmware
      BY <1>1 DEF ReadyInv, TypeOK
    <2> QED
      BY <1>1, <2>1, BackedKept DEF Backed
  <1>2. ASSUME pc[t] = "finish", seen'[t] = seen[t], job'[t] = job[t]
        PROVE  Backed(job[t].fw)'
    <2>1. Backed(job[t].fw) /\ job[t].fw \in Firmware
      BY <1>2 DEF ReadyInv, TypeOK
    <2> QED
      BY <1>2, <2>1, BackedKept DEF Backed
  <1>3. ASSUME NEW f \in Firmware, FirmwareStep(f)
        PROVE  Backed(job[t].fw)'
    BY <1>1, <1>3 DEF FirmwareStep, Upload, PostProcess, UnpackBegin, DeleteBegin, DeleteCommit,
                RootfsBegin, RootfsCommit, RootfsFail, ImportCommit, taskVars
  <1>4. ASSUME NEW u \in Task, TaskStep(u)
        PROVE  Backed(job[t].fw)'
    <2>1. CASE u # t
      BY <1>2, <1>4, <2>1 DEF TypeOK, TaskStep, Start, Progress, RunReturns, RunRaises, FinishMissing,
             FinishCommit, FinallyRead, FinallyWrite, FinallyRaises, Goto, Close, taskVars
    <2>2. ASSUME NEW res \in Result, RunReturns(t, res)
          PROVE  Backed(job[t].fw)'
      <3>1. seen'[t].extracted = (job[t].fw \in extracted)
        BY <2>2 DEF RunReturns, Read, TypeOK
      <3>2. job[t].fw \in extracted'  /\ job' = job
        BY <2>2, <3>1 DEF RunReturns, rowVars
      <3> QED
        BY <3>2 DEF Backed
    <2>3. CASE u = t /\ ~\E res \in Result : RunReturns(t, res)
      <3>1. Progress(t) \/ pc'[t] # "finish"
        BY <1>4, <2>3, AfterBodyType DEF TypeOK, TaskStep, Start, RunRaises, FinishMissing,
             FinishCommit, FinallyRead, FinallyWrite, FinallyRaises, Goto, Close
      <3> QED
        BY <1>1, <3>1 DEF Progress, taskVars
    <2> QED
      BY <2>1, <2>2, <2>3
  <1>5. ASSUME NEW u \in Task, UNCHANGED seen, Fresh(u), pc'[u] # "finish",
               \A v \in Task \ {u} : pc'[v] = pc[v] /\ job'[v] = job[v]
        PROVE  Backed(job[t].fw)'
    BY <1>2, <1>5
  <1>6. ASSUME NEW u \in Task, NEW via \in {"arq", "inproc"}, UnpackEnqueue(u, via)
        PROVE  Backed(job[t].fw)'
    BY <1>5, <1>6 DEF UnpackEnqueue, Goto, TypeOK
  <1>7. ASSUME NEW f \in Firmware, NEW u \in Task, Import(f, u)
        PROVE  Backed(job[t].fw)'
    BY <1>5, <1>7 DEF Import, Goto, TypeOK
  <1>8. CASE BackendCrash \/ WorkerCrash
    <2>1. seen'[t] # Unread
      BY DEF Unread
    <2>2. pc[t] = "finish" /\ seen'[t] = seen[t] /\ job'[t] = job[t]
      BY <1>8, <2>1 DEF BackendCrash, WorkerCrash, TypeOK
    <2> QED
      BY <1>2, <2>2
  <1> QED
    BY <1>1, <1>3, <1>4, <1>6, <1>7, <1>8 DEF Next, UnpackAbort, UnpackCommit, vars, taskVars

\* A project that is "ready" is so thanks to a firmware that is unpacked, with a
\* file system or as an RTOS image, or has been deleted since.
THEOREM ReadyBacked == Spec => []ReadyIsBacked
  <1>1. Init => ReadyInv
    BY DEF Init, ReadyInv
  <1>2. TypeOK /\ ReadyInv /\ [Next]_vars => ReadyInv'
    <2> SUFFICES ASSUME TypeOK, ReadyInv, [Next]_vars
                 PROVE  ReadyInv'
      OBVIOUS
    <2>1. ASSUME status' = "ready"
          PROVE  author' \in Firmware /\ Backed(author)'
      <3>1. CASE UNCHANGED projVars
        <4>1. author \in Firmware /\ Backed(author) /\ author' = author
          BY <2>1, <3>1 DEF ReadyInv, projVars
        <4> QED
          BY <4>1, BackedKept DEF Backed
      <3>2. CASE ~UNCHANGED projVars
        BY <2>1, <3>2, ReadyStep
      <3> QED
        BY <3>1, <3>2
    <2> QED
      BY <2>1, SeenStep DEF ReadyInv
  <1>3. ReadyInv => ReadyIsBacked
    BY DEF ReadyInv, ReadyIsBacked, Backed
  <1> QED
    BY <1>1, <1>2, <1>3, TypeCorrect, PTL DEF Spec

=============================================================================
