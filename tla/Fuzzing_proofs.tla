--------------------------- MODULE Fuzzing_proofs ----------------------------
(***************************************************************************)
(* Proofs about Fuzzing, for any campaigns and start requests, any limit   *)
(* and any number of faults.                                               *)
(***************************************************************************)
EXTENDS Fuzzing, TLAPS

\* A task that has begun has its campaign.
TypeInv == TypeOK /\ \A t \in Task : pc[t] # "none" => of[t] \in Campaign

LEMMA TypeStep ==
    ASSUME TypeInv, [Next]_vars
    PROVE  TypeInv'
  <1> USE ConstAssumption DEF TypeInv, Put, Row, Active, Final, PC, Box, rows, tasks, cron
  <1>0. Nothing \in [status : [Campaign -> Row], cid : [Campaign -> Task \cup {None}]]
    BY DEF Nothing
  <1>1. CASE Count
    BY <1>1 DEF Count, TypeOK
  <1>2. ASSUME NEW c \in Campaign, NEW status \in {"created", "queued"}, Create(c, status)
        PROVE  TypeInv'
    BY <1>2 DEF Create, TypeOK
  <1>3. ASSUME NEW c \in Campaign, NEW t \in Task, StartCheck(t, c)
        PROVE  TypeInv'
    BY <1>3 DEF StartCheck, TypeOK
  <1>4. ASSUME NEW t \in Task, StartCommit(t)
        PROVE  TypeInv'
    BY <1>4 DEF StartCommit, TypeOK
  <1>5. ASSUME NEW t \in Task, SpawnCheck(t)
        PROVE  TypeInv'
    BY <1>5 DEF SpawnCheck, TypeOK
  <1>6. ASSUME NEW t \in Task, CreateContainer(t) \/ Launch(t)
        PROVE  TypeInv'
    BY <1>6 DEF CreateContainer, Launch, TypeOK
  <1>7. ASSUME NEW t \in Task, SpawnCommits(t)
        PROVE  TypeInv'
    BY <1>7 DEF SpawnCommits, TypeOK
  <1>8. ASSUME NEW t \in Task, SpawnFails(t)
        PROVE  TypeInv'
    BY <1>8 DEF SpawnFails, TypeOK
  <1>9. ASSUME NEW t \in Task, SpawnLost(t) \/ ContainerExits(t)
        PROVE  TypeInv'
    BY <1>9 DEF SpawnLost, ContainerExits, Fault, TypeOK
  <1>10. ASSUME NEW c \in Campaign, NEW ok \in BOOLEAN, StopBegin(c, ok)
         PROVE  TypeInv'
    <2>1. box' \in [Task -> Box]
      BY <1>10 DEF StopBegin, TypeOK
    <2>2. faults' \in 0 .. MaxFault
      BY <1>10 DEF StopBegin, Fault, TypeOK
    <2> QED
      BY <1>10, <2>1, <2>2 DEF StopBegin, TypeOK
  <1>11. ASSUME NEW c \in Campaign, StopCommit(c)
         PROVE  TypeInv'
    BY <1>11 DEF StopCommit, TypeOK
  <1>12. ASSUME NEW c \in Campaign, GetStatus(c)
         PROVE  TypeInv'
    BY <1>12 DEF GetStatus, TypeOK
  <1>13. CASE ReapLoad
    BY <1>13 DEF ReapLoad, TypeOK
  <1>14. ASSUME NEW ok \in BOOLEAN, ReapList(ok)
         PROVE  TypeInv'
    <2>1. box' \in [Task -> Box] /\ reaped' \subseteq Task
      BY <1>14 DEF ReapList, Doomed, Listed, TypeOK
    <2>2. faults' \in 0 .. MaxFault
      BY <1>14 DEF ReapList, Fault, TypeOK
    <2>3. fixed' \subseteq Campaign
      BY <1>14 DEF ReapList, Vanished, Unrecorded
    <2>4. seen' = Nothing /\ reaper' = "listed" /\ UNCHANGED <<rows, counted, tasks, stopping>>
      BY <1>14 DEF ReapList
    <2> QED
      BY <1>0, <2>1, <2>2, <2>3, <2>4 DEF TypeOK
  <1>15. CASE ReapListFails \/ WorkerCrash
    BY <1>0, <1>15 DEF ReapListFails, WorkerCrash, Fault, TypeOK
  <1>16. CASE ReapCommit
    BY <1>16 DEF ReapCommit, TypeOK
  <1>17. CASE BackendCrash
    BY <1>17 DEF BackendCrash, Fault, TypeOK
  <1>18. CASE UNCHANGED vars
    BY <1>18 DEF vars, TypeOK
  <1>19. ASSUME NEW t \in Task, TaskStep(t)
         PROVE  TypeInv'
    BY <1>4, <1>5, <1>6, <1>7, <1>8, <1>19 DEF TaskStep
  <1> QED
    BY <1>1, <1>2, <1>3, <1>9, <1>10, <1>11, <1>12, <1>13, <1>14, <1>15, <1>16, <1>17,
       <1>18, <1>19 DEF Next, ReapStep

LEMMA InitType == Init => TypeInv
  BY ConstAssumption DEF Init, TypeInv, TypeOK, Nothing, Row, PC, Box

\* The types of campaigns, tasks, containers and cron job.
THEOREM TypeCorrect == Spec => []TypeOK
  <1>1. TypeInv => TypeOK
    BY DEF TypeInv
  <1> QED
    BY <1>1, InitType, TypeStep, PTL DEF Spec

-----------------------------------------------------------------------------
(* Campaigns and their containers *)

\* A container on record is that of a spawn of the same campaign that has ended,
\* and before a spawn ends only the cron job removes its container.
OwnInv ==
    /\ \A c \in Campaign : cid[c] # None => pc[cid[c]] = "ended" /\ of[cid[c]] = c
    /\ \A t \in Task : box[t] = "removed" /\ pc[t] # "ended" => t \in reaped

ServedInv == OwnInv /\ RunningIsServed

LEMMA ServedStep ==
    ASSUME TypeInv, ServedInv, [Next]_vars
    PROVE  ServedInv'
  <1> USE ConstAssumption DEF TypeInv, ServedInv, OwnInv, RunningIsServed, Put, rows, tasks, cron
  <1>1. CASE Count
    BY <1>1 DEF Count
  <1>2. ASSUME NEW c \in Campaign, NEW status \in {"created", "queued"}, Create(c, status)
        PROVE  ServedInv'
    BY <1>2 DEF Create, TypeOK
  <1>3. ASSUME NEW c \in Campaign, NEW t \in Task, StartCheck(t, c)
        PROVE  ServedInv'
    BY <1>3 DEF StartCheck, TypeOK
  <1>4. ASSUME NEW t \in Task, StartCommit(t) \/ SpawnFails(t)
        PROVE  ServedInv'
    BY <1>4 DEF StartCommit, SpawnFails, TypeOK
  <1>5. ASSUME NEW t \in Task, SpawnCheck(t)
        PROVE  ServedInv'
    BY <1>5 DEF SpawnCheck, TypeOK
  <1>6. ASSUME NEW t \in Task, CreateContainer(t) \/ Launch(t)
        PROVE  ServedInv'
    BY <1>6 DEF CreateContainer, Launch, TypeOK
  <1>7. ASSUME NEW t \in Task, SpawnCommits(t)
        PROVE  ServedInv'
    BY <1>7 DEF SpawnCommits, TypeOK
  <1>8. ASSUME NEW t \in Task, SpawnLost(t) \/ ContainerExits(t)
        PROVE  ServedInv'
    BY <1>8 DEF SpawnLost, ContainerExits, Fault, TypeOK
  <1>9. ASSUME NEW c \in Campaign, NEW ok \in BOOLEAN, StopBegin(c, ok)
        PROVE  ServedInv'
    <2>1. /\ stopping' = stopping \cup {c} /\ UNCHANGED <<row, cid, pc, of, reaped>>
          /\ faults' = faults \/ faults' > 0
      BY <1>9 DEF StopBegin, Fault, TypeOK
    <2>2. box' = box \/ (cid[c] # None /\ box' = [box EXCEPT ![cid[c]] = "removed"])
      BY <1>9 DEF StopBegin
    <2> QED
      BY <2>1, <2>2 DEF TypeOK
  <1>10. ASSUME NEW c \in Campaign, StopCommit(c) \/ GetStatus(c)
         PROVE  ServedInv'
    BY <1>10 DEF StopCommit, GetStatus, TypeOK
  <1>11. CASE ReapLoad \/ ReapListFails \/ WorkerCrash
    BY <1>11 DEF ReapLoad, ReapListFails, WorkerCrash, Fault, TypeOK
  <1>12. ASSUME NEW ok \in BOOLEAN, ReapList(ok)
         PROVE  ServedInv'
    <2>1. UNCHANGED <<row, cid, pc, of, stopping>> /\ (faults' = faults \/ faults' > 0)
      BY <1>12 DEF ReapList, Fault, TypeOK
    <2>2. /\ \A t \in Task : box'[t] = "removed" => box[t] = "removed" \/ t \in reaped'
          /\ reaped \subseteq reaped'
      BY <1>12 DEF ReapList, TypeOK
    <2> QED
      BY <2>1, <2>2 DEF TypeOK
  <1>13. CASE ReapCommit
    BY <1>13 DEF ReapCommit, TypeOK
  <1>14. CASE BackendCrash
    BY <1>14 DEF BackendCrash, Fault, TypeOK
  <1>15. CASE UNCHANGED vars
    BY <1>15 DEF vars
  <1>16. ASSUME NEW t \in Task, TaskStep(t)
         PROVE  ServedInv'
    BY <1>4, <1>5, <1>6, <1>7, <1>16 DEF TaskStep
  <1> QED
    BY <1>1, <1>2, <1>3, <1>8, <1>9, <1>10, <1>11, <1>12, <1>13, <1>14, <1>15, <1>16
       DEF Next, ReapStep

\* A campaign that says "running" has its container, apart from the named cases,
\* however starts, stops and the cron job overlap.
THEOREM RunningServed == Spec => []RunningIsServed
  <1>1. Init => TypeInv /\ ServedInv
    BY InitType, ConstAssumption DEF Init, ServedInv, OwnInv, RunningIsServed
  <1>2. TypeInv /\ ServedInv /\ [Next]_vars => (TypeInv /\ ServedInv)'
    BY TypeStep, ServedStep
  <1>3. ServedInv => RunningIsServed
    BY DEF ServedInv
  <1> QED
    BY <1>1, <1>2, <1>3, PTL DEF Spec
=============================================================================
