-------------------------- MODULE Emulation_proofs ---------------------------
(***************************************************************************)
(* Proofs about Emulation, for any sessions, containers and start requests, *)
(* any limit and any number of faults.                                     *)
(***************************************************************************)
EXTENDS Emulation, FiniteSetTheorems, TLAPS

\* A job works on a container exactly from the creation of it to its last commit;
\* a container that exists was created for a session, and only those are referred to.
TypeInv ==
    /\ TypeOK
    /\ \A s \in Session : /\ mem[s] # None <=> job[s] \in {"setup", "probe"}
                          /\ mem[s] # None => state[mem[s]] # "unused"
                          /\ cid[s] # None => state[cid[s]] # "unused"
                          /\ row[s] = "none" => job[s] = "none"
    /\ \A k \in Container : state[k] # "unused" => label[k] \in Session

LEMMA TypeStep ==
    ASSUME TypeInv, [Next]_vars
    PROVE  TypeInv'
  <1> USE ConstAssumption DEF TypeInv, Put, Row, JobPC, Active, Final, Live, Last, rows, jobs, reap, docker
  <1>1. CASE Count
    BY <1>1 DEF Count, TypeOK
  <1>2. ASSUME NEW s \in Session, NEW k \in Kinds[s], Submit(s, k) \/ SubmitFails(s, k)
        PROVE  TypeInv'
    <2>1. k \in Kind
      OBVIOUS
    <2>2. faults' \in 0 .. MaxFault
      BY <1>2 DEF Submit, SubmitFails, Fault, TypeOK
    <2>3. /\ counted' \in 0 .. MaxRequest
          /\ row' = [row EXCEPT ![s] = "pending"] /\ kind' = [kind EXCEPT ![s] = k]
          /\ row[s] = "none"
      BY <1>2 DEF Submit, SubmitFails, TypeOK
    <2>4. /\ job' = [job EXCEPT ![s] = "queued"] \/ job' = [job EXCEPT ![s] = "lost"]
          /\ UNCHANGED <<cid, stoppedAt, mem, docker, stopping, reap, raced, again>>
      BY <1>2 DEF Submit, SubmitFails
    <2>5. job[s] = "none"
      BY <2>3
    <2> QED
      BY <2>1, <2>2, <2>3, <2>4, <2>5 DEF TypeOK
  <1>3. ASSUME NEW s \in Session, SpawnBegin(s)
        PROVE  TypeInv'
    BY <1>3 DEF SpawnBegin, TypeOK
  <1>4. ASSUME NEW s \in Session, NEW ok \in BOOLEAN, QilingEnds(s, ok)
        PROVE  TypeInv'
    BY <1>4 DEF QilingEnds, TypeOK
  <1>5. ASSUME NEW s \in Session, CreateContainer(s)
        PROVE  TypeInv'
    <2>1. PICK k \in Container :
            /\ state' = [state EXCEPT ![k] = "up"] /\ label' = [label EXCEPT ![k] = s]
            /\ mem' = [mem EXCEPT ![s] = k]
      BY <1>5 DEF CreateContainer, Unused
    <2>2. job[s] = "booting" /\ job' = [job EXCEPT ![s] = "setup"]
      BY <1>5 DEF CreateContainer
    <2>3. UNCHANGED <<rows, counted, stopping, reap, raced, again, faults>>
      BY <1>5 DEF CreateContainer
    <2> QED
      BY <2>1, <2>2, <2>3 DEF TypeOK
  <1>6. ASSUME NEW s \in Session, NEW removed \in BOOLEAN, SetupFails(s, removed)
        PROVE  TypeInv'
    <2>1. /\ state' \in [Container -> {"unused", "up", "hollow", "exited", "removed"}]
          /\ \A k \in Container : state'[k] # "unused" => state[k] # "unused" \/ k = mem[s]
          /\ state' = state \/ job[s] = "setup"
      BY <1>6 DEF SetupFails, TypeOK
    <2>2. \A k \in Container : state'[k] # "unused" => label[k] \in Session
      BY <1>6, <2>1 DEF SetupFails, TypeOK
    <2> QED
      BY <1>6, <2>1, <2>2 DEF SetupFails, TypeOK
  <1>7. ASSUME NEW s \in Session, SetupDone(s) \/ JobLost(s) \/ Acknowledge(s)
        PROVE  TypeInv'
    BY <1>7 DEF SetupDone, JobLost, Acknowledge, Fault, TypeOK
  <1>8. ASSUME NEW s \in Session, Ready(s) \/ ProbeFails(s)
        PROVE  TypeInv'
    BY <1>8 DEF Ready, ProbeFails, JobCommits, TypeOK
  <1>9. ASSUME NEW s \in Session, NEW ok \in BOOLEAN, StopBegin(s, ok)
        PROVE  TypeInv'
    <2>1. faults' \in 0 .. MaxFault
      BY <1>9 DEF StopBegin, Fault, TypeOK
    <2>2. /\ state' \in [Container -> {"unused", "up", "hollow", "exited", "removed"}]
          /\ \A k \in Container : state'[k] = "unused" <=> state[k] = "unused"
      BY <1>9 DEF StopBegin, Remove, TypeOK
    <2>3. UNCHANGED <<rows, counted, jobs, label, reap>>
      BY <1>9 DEF StopBegin
    <2>4. stopping' \subseteq Session /\ raced' \subseteq Session
      BY <1>9 DEF StopBegin, TypeOK
    <2> QED
      BY <2>1, <2>2, <2>3, <2>4 DEF TypeOK
  <1>10. ASSUME NEW s \in Session, StopCommit(s)
         PROVE  TypeInv'
    BY <1>10 DEF StopCommit, TypeOK
  <1>11. ASSUME NEW s \in Session, GetStatus(s) \/ Exec(s) \/ Delete(s)
         PROVE  TypeInv'
    <2>1. Verdict(s) \in {"error", "stopped", "ready"}
      BY DEF Verdict
    <2> QED
      BY <1>11, <2>1 DEF GetStatus, Exec, Delete, TypeOK
  <1>12. ASSUME NEW S \in SUBSET Session, ExpireBegin(S)
         PROVE  TypeInv'
    BY <1>12 DEF ExpireBegin, TypeOK
  <1>13. ASSUME NEW s \in Session, NEW ok \in BOOLEAN, ExpireStop(s, ok)
         PROVE  TypeInv'
    <2>1. faults' \in 0 .. MaxFault
      BY <1>13 DEF ExpireStop, Fault, TypeOK
    <2>2. /\ state' \in [Container -> {"unused", "up", "hollow", "exited", "removed"}]
          /\ \A k \in Container : state'[k] = "unused" <=> state[k] = "unused"
      BY <1>13 DEF ExpireStop, Remove, TypeOK
    <2>3. UNCHANGED <<rows, counted, jobs, label, stopping, raced>>
      BY <1>13 DEF ExpireStop
    <2>4. todo' \subseteq Session /\ done' \subseteq Session
      BY <1>13 DEF ExpireStop, TypeOK
    <2> QED
      BY <2>1, <2>2, <2>3, <2>4 DEF TypeOK
  <1>14. CASE ExpireCommit
    BY <1>14 DEF ExpireCommit, TypeOK
  <1>15. ASSUME NEW k \in Container, NEW how \in {"exited", "hollow"}, ContainerDies(k, how)
         PROVE  TypeInv'
    BY <1>15 DEF ContainerDies, TypeOK
  <1>16. CASE BackendCrash
    BY <1>16 DEF BackendCrash, Working, Fault, TypeOK
  <1>17. CASE WorkerCrash
    BY <1>17 DEF WorkerCrash, Open, Working, Fault, TypeOK
  <1>18. CASE UNCHANGED vars
    BY <1>18 DEF vars, TypeOK
  <1>19. ASSUME NEW s \in Session, JobStep(s) \/ SessionStep(s)
         PROVE  TypeInv'
    BY <1>2, <1>3, <1>4, <1>5, <1>6, <1>7, <1>8, <1>9, <1>10, <1>11, <1>13, <1>19
       DEF JobStep, SessionStep, Request
  <1> QED
    BY <1>1, <1>12, <1>14, <1>15, <1>16, <1>17, <1>18, <1>19 DEF Next

LEMMA InitType == Init => TypeInv
  BY ConstAssumption DEF Init, TypeInv, TypeOK, Row, JobPC, Kind

\* The types of sessions, jobs and containers, for any number of them; a session
\* that says "ready" has its container on record.
THEOREM TypeCorrect == Spec => []TypeOK
  <1>1. TypeInv => TypeOK
    BY DEF TypeInv
  <1> QED
    BY <1>1, InitType, TypeStep, PTL DEF Spec

-----------------------------------------------------------------------------
(* Sessions and their jobs *)

\* A session that waits for a stop exists, a row the expiry job holds is not
\* deleted; the job of a "ready" session has ended, and one that is still at work
\* although its session has an outcome was overtaken by a stop, unless its job is
\* run again after its end.  A row that says "pending" or "booting" has its job,
\* unless a failure lost it.
WorkInv ==
    \A s \in Session :
        /\ row[s] = "none" => s \notin stopping \cup todo \cup done
        /\ row[s] = "gone" => s \notin done
        /\ row[s] = "ready" => job[s] \in {"ack", "ended"} \/ s \in again
        /\ row[s] \in Final /\ Working(s) => s \in stoppedAt \cup again
        /\ row[s] \in {"pending", "booting"} => Working(s) \/ job[s] = "lost"

LEMMA WorkStep ==
    ASSUME TypeInv, WorkInv, [Next]_vars
    PROVE  WorkInv'
  <1> USE ConstAssumption DEF TypeInv, WorkInv, Working, Open, Last, Put, Active, Final,
                              rows, jobs, reap, docker
  <1>1. CASE Count
    BY <1>1 DEF Count
  <1>2. ASSUME NEW s \in Session, NEW k \in Kinds[s], Submit(s, k) \/ SubmitFails(s, k)
        PROVE  WorkInv'
    BY <1>2 DEF Submit, SubmitFails, TypeOK
  <1>3. ASSUME NEW s \in Session, SpawnBegin(s)
        PROVE  WorkInv'
    BY <1>3 DEF SpawnBegin, TypeOK
  <1>4. ASSUME NEW s \in Session, NEW ok \in BOOLEAN, QilingEnds(s, ok)
        PROVE  WorkInv'
    BY <1>4 DEF QilingEnds, TypeOK
  <1>5. ASSUME NEW s \in Session, \/ CreateContainer(s) \/ SetupDone(s)
                                  \/ JobLost(s) \/ Acknowledge(s)
        PROVE  WorkInv'
    BY <1>5 DEF CreateContainer, SetupDone, JobLost, Acknowledge, TypeOK
  <1>6. ASSUME NEW s \in Session, NEW removed \in BOOLEAN, SetupFails(s, removed)
        PROVE  WorkInv'
    <2>1. /\ row' = [row EXCEPT ![s] = IF @ = "gone" THEN @ ELSE "error"]
          /\ job[s] # "none" /\ job' = [job EXCEPT ![s] = Last(s)]
          /\ stoppedAt \subseteq stoppedAt' /\ UNCHANGED <<stopping, todo, done, again>>
      BY <1>6 DEF SetupFails
    <2> QED
      BY <2>1 DEF TypeOK
  <1>7. ASSUME NEW s \in Session, Ready(s) \/ ProbeFails(s)
        PROVE  WorkInv'
    BY <1>7 DEF Ready, ProbeFails, JobCommits, TypeOK
  <1>8. ASSUME NEW s \in Session, NEW ok \in BOOLEAN, StopBegin(s, ok)
        PROVE  WorkInv'
    BY <1>8 DEF StopBegin
  <1>9. ASSUME NEW s \in Session, StopCommit(s)
        PROVE  WorkInv'
    BY <1>9 DEF StopCommit, TypeOK
  <1>10. ASSUME NEW s \in Session, GetStatus(s) \/ Exec(s)
         PROVE  WorkInv'
    <2>1. Verdict(s) \in {"error", "stopped", "ready"}
      BY DEF Verdict
    <2>2. PICK status \in Final :
             /\ row[s] = "ready" /\ row' = [row EXCEPT ![s] = status]
             /\ stoppedAt \subseteq stoppedAt' /\ UNCHANGED <<job, stopping, todo, done, again>>
      BY <1>10, <2>1 DEF GetStatus, Exec, TypeOK
    <2> QED
      BY <2>2 DEF TypeOK
  <1>11. ASSUME NEW s \in Session, Delete(s)
         PROVE  WorkInv'
    BY <1>11 DEF Delete, Locked, TypeOK
  <1>12. ASSUME NEW S \in SUBSET Session, ExpireBegin(S)
         PROVE  WorkInv'
    BY <1>12 DEF ExpireBegin
  <1>13. ASSUME NEW s \in Session, NEW ok \in BOOLEAN, ExpireStop(s, ok)
         PROVE  WorkInv'
    BY <1>13 DEF ExpireStop
  <1>14. CASE ExpireCommit
    BY <1>14 DEF ExpireCommit, TypeOK
  <1>15. ASSUME NEW k \in Container, NEW how \in {"exited", "hollow"}, ContainerDies(k, how)
         PROVE  WorkInv'
    BY <1>15 DEF ContainerDies
  <1>16. CASE BackendCrash
    BY <1>16 DEF BackendCrash, TypeOK
  <1>17. CASE WorkerCrash
    BY <1>17 DEF WorkerCrash, TypeOK
  <1>18. CASE UNCHANGED vars
    BY <1>18 DEF vars
  <1>19. ASSUME NEW s \in Session, JobStep(s) \/ SessionStep(s)
         PROVE  WorkInv'
    BY <1>2, <1>3, <1>4, <1>5, <1>6, <1>7, <1>8, <1>9, <1>10, <1>11, <1>13, <1>19
       DEF JobStep, SessionStep, Request
  <1> QED
    BY <1>1, <1>12, <1>14, <1>15, <1>16, <1>17, <1>18, <1>19 DEF Next

LEMMA InitWork == Init => WorkInv
  BY DEF Init, WorkInv, Final, Working

\* A job that is lost was lost by a fault.
LostInv == \A s \in Session : job[s] = "lost" => faults > 0

LEMMA LostStep ==
    ASSUME TypeInv, LostInv, [Next]_vars
    PROVE  LostInv'
  <1> USE ConstAssumption DEF TypeInv, LostInv, rows, jobs, reap, docker
  <1>1. ASSUME faults' = faults + 1
        PROVE  LostInv'
    BY <1>1 DEF TypeOK
  <1>2. ASSUME faults' = faults, \A s \in Session : job'[s] = job[s] \/ job'[s] # "lost"
        PROVE  LostInv'
    BY <1>2
  <1>3. ASSUME NEW s \in Session, NEW k \in Kinds[s], Submit(s, k) \/ SubmitFails(s, k)
        PROVE  LostInv'
    BY <1>1, <1>2, <1>3 DEF Submit, SubmitFails, Fault, TypeOK
  <1>4. ASSUME NEW s \in Session, JobStep(s)
        PROVE  LostInv'
    <2>1. faults' = faults /\ \E l \in JobPC \ {"lost"} : job' = [job EXCEPT ![s] = l]
      BY <1>4 DEF JobStep, SpawnBegin, CreateContainer, SetupDone, Ready, ProbeFails, QilingEnds,
                  SetupFails, JobCommits, Acknowledge, Last, JobPC
    <2> QED
      BY <1>2, <2>1 DEF TypeOK
  <1>5. ASSUME NEW s \in Session, NEW ok \in BOOLEAN, StopBegin(s, ok) \/ ExpireStop(s, ok)
        PROVE  LostInv'
    <2>1. job' = job /\ (faults' = faults \/ faults' = faults + 1)
      BY <1>5 DEF StopBegin, ExpireStop, Fault
    <2> QED
      BY <1>1, <1>2, <2>1
  <1>6. ASSUME NEW s \in Session, StopCommit(s) \/ GetStatus(s) \/ Exec(s) \/ Delete(s)
        PROVE  LostInv'
    BY <1>2, <1>6 DEF StopCommit, GetStatus, Exec, Delete
  <1>7. ASSUME BackendCrash \/ WorkerCrash \/ \E s \in Session : JobLost(s)
        PROVE  LostInv'
    BY <1>1, <1>7 DEF BackendCrash, WorkerCrash, JobLost, Fault
  <1>8. ASSUME \/ Count \/ ExpireCommit \/ UNCHANGED vars
               \/ \E S \in SUBSET Session : ExpireBegin(S)
               \/ \E k \in Container, how \in {"exited", "hollow"} : ContainerDies(k, how)
        PROVE  LostInv'
    BY <1>2, <1>8 DEF Count, ExpireCommit, ExpireBegin, ContainerDies, vars
  <1> QED
    BY <1>3, <1>4, <1>5, <1>6, <1>7, <1>8 DEF Next, SessionStep, Request

\* No row stays in a boot that nobody works on, except where the queue, a commit
\* or a process failed.
THEOREM BootsAreWorked == Spec => []BootingIsWorked
  <1>1. Init => TypeInv /\ WorkInv /\ LostInv
    BY InitType, InitWork DEF Init, LostInv
  <1>2. TypeInv /\ WorkInv /\ LostInv /\ [Next]_vars => (TypeInv /\ WorkInv /\ LostInv)'
    BY TypeStep, WorkStep, LostStep
  <1>3. WorkInv /\ LostInv => BootingIsWorked
    BY DEF WorkInv, LostInv, BootingIsWorked
  <1> QED
    BY <1>1, <1>2, <1>3, PTL DEF Spec

-----------------------------------------------------------------------------
(* The limit and the promise of Lifecycle *)

\* What a step may do to a session: none is undone, what is over stays over, and a
\* session that starts to count against the limit was inserted by that step.
Moves ==
    \A s \in Session :
        /\ row[s] = "none" => row'[s] \in {"none", "pending"}
        /\ row[s] # "none" => row'[s] # "none"
        /\ ~Open(s) /\ row[s] = "gone" => row'[s] = "gone" /\ ~Open(s)'
        /\ ~Open(s) /\ row[s] \in Final => row'[s] \in Final \cup {"gone"} /\ ~Open(s)'
        /\ row'[s] \in Active /\ s \notin stoppedAt' \cup again'
             => row[s] = "none" \/ (row[s] \in Active /\ s \notin stoppedAt \cup again)

LEMMA MovesStep ==
    ASSUME TypeInv, WorkInv, [Next]_vars
    PROVE  Moves
  <1> USE ConstAssumption DEF TypeInv, WorkInv, Moves, Working, Open, Last, Put, Active, Final,
                              rows, jobs, reap, docker
  <1>1. ASSUME UNCHANGED <<row, job, stoppedAt, again>>
        PROVE  Moves
    BY <1>1
  <1>2. ASSUME NEW s \in Session, NEW k \in Kinds[s], Submit(s, k) \/ SubmitFails(s, k)
        PROVE  Moves
    BY <1>2 DEF Submit, SubmitFails, TypeOK
  <1>3. ASSUME NEW s \in Session, SpawnBegin(s)
        PROVE  Moves
    <2>1. /\ row' = [row EXCEPT ![s] = IF @ = "gone" THEN @ ELSE "booting"]
          /\ Working(s) /\ stoppedAt' = stoppedAt /\ again' = again
          /\ job' = [job EXCEPT ![s] = IF row[s] = "gone" THEN Last(s) ELSE "booting"]
          /\ job[s] = "queued"
      BY <1>3 DEF SpawnBegin
    <2>2. row[s] \in Active \/ s \in stoppedAt \cup again \/ row[s] = "gone"
      BY <2>1 DEF TypeOK, Row
    <2> QED
      BY <2>1, <2>2 DEF TypeOK
  <1>4. ASSUME NEW s \in Session, NEW ok \in BOOLEAN, QilingEnds(s, ok)
        PROVE  Moves
    BY <1>4 DEF QilingEnds, TypeOK
  <1>5. ASSUME NEW s \in Session, \/ CreateContainer(s) \/ SetupDone(s)
                                  \/ JobLost(s) \/ Acknowledge(s)
        PROVE  Moves
    BY <1>5 DEF CreateContainer, SetupDone, JobLost, Acknowledge, TypeOK
  <1>6. ASSUME NEW s \in Session, NEW removed \in BOOLEAN, SetupFails(s, removed)
        PROVE  Moves
    <2>1. /\ row' = [row EXCEPT ![s] = IF @ = "gone" THEN @ ELSE "error"]
          /\ Working(s) /\ job' = [job EXCEPT ![s] = Last(s)]
          /\ stoppedAt \subseteq stoppedAt' /\ again' = again
      BY <1>6 DEF SetupFails
    <2> QED
      BY <2>1 DEF TypeOK
  <1>7. ASSUME NEW s \in Session, Ready(s) \/ ProbeFails(s)
        PROVE  Moves
    <2>1. PICK status \in {"ready", "error"} :
             row' = [row EXCEPT ![s] = IF @ = "gone" THEN @ ELSE status]
      BY <1>7 DEF Ready, ProbeFails, JobCommits
    <2>2. /\ Working(s) /\ stoppedAt \subseteq stoppedAt' /\ again' = again
          /\ job[s] = "probe" /\ job' = [job EXCEPT ![s] = Last(s)]
      BY <1>7 DEF Ready, ProbeFails, JobCommits
    <2>3. row[s] \in Active \/ s \in stoppedAt \cup again \/ row[s] = "gone"
      BY <2>2 DEF TypeOK, Row
    <2> QED
      BY <2>1, <2>2, <2>3 DEF TypeOK
  <1>8. ASSUME NEW s \in Session, StopCommit(s)
        PROVE  Moves
    BY <1>8 DEF StopCommit, TypeOK
  <1>9. ASSUME NEW s \in Session, GetStatus(s) \/ Exec(s)
        PROVE  Moves
    <2>1. Verdict(s) \in {"error", "stopped", "ready"}
      BY DEF Verdict
    <2>2. PICK status \in Final :
             /\ row[s] = "ready" /\ row' = [row EXCEPT ![s] = status]
             /\ stoppedAt \subseteq stoppedAt' /\ UNCHANGED <<job, again>>
      BY <1>9, <2>1 DEF GetStatus, Exec, TypeOK
    <2> QED
      BY <2>2 DEF TypeOK
  <1>10. ASSUME NEW s \in Session, Delete(s)
         PROVE  Moves
    BY <1>10 DEF Delete, TypeOK
  <1>11. CASE ExpireCommit
    BY <1>11 DEF ExpireCommit, TypeOK
  <1>12. CASE BackendCrash
    BY <1>12 DEF BackendCrash, TypeOK
  <1>13. CASE WorkerCrash
    BY <1>13 DEF WorkerCrash, TypeOK
  <1>14. ASSUME NEW s \in Session, JobStep(s) \/ SessionStep(s)
         PROVE  Moves
    <2>1. ASSUME NEW ok \in BOOLEAN, StopBegin(s, ok) \/ ExpireStop(s, ok)
          PROVE  Moves
      BY <1>1, <2>1 DEF StopBegin, ExpireStop
    <2> QED
      BY <1>2, <1>3, <1>4, <1>5, <1>6, <1>7, <1>8, <1>9, <1>10, <1>14, <2>1
         DEF JobStep, SessionStep, Request
  <1>15. ASSUME \/ Count \/ UNCHANGED vars
                \/ \E S \in SUBSET Session : ExpireBegin(S)
                \/ \E k \in Container, how \in {"exited", "hollow"} : ContainerDies(k, how)
         PROVE  Moves
    BY <1>1, <1>15 DEF Count, ExpireBegin, ContainerDies, vars
  <1> QED
    BY <1>11, <1>12, <1>13, <1>14, <1>15 DEF Next

\* What overtakes and outlives the check of the limit is bounded, whatever
\* requests, jobs and crashes overlap.
THEOREM LimitKept == Spec => []LimitHolds
  <1> DEFINE C == {s \in ActiveSessions : s \notin stoppedAt \cup again}
  <1>1. Init => TypeInv /\ WorkInv /\ LimitHolds
    <2> SUFFICES ASSUME Init PROVE LimitHolds
      BY InitType, InitWork
    <2>1. C = {} /\ counted = 0
      BY DEF Init, ActiveSessions, Active
    <2> QED
      BY <2>1, FS_EmptySet, ConstAssumption DEF LimitHolds
  <1>2. TypeInv /\ WorkInv /\ LimitHolds /\ [Next]_vars => (TypeInv /\ WorkInv /\ LimitHolds)'
    <2> SUFFICES ASSUME TypeInv, WorkInv, LimitHolds, [Next]_vars
                 PROVE  LimitHolds'
      BY TypeStep, WorkStep
    <2> USE ConstAssumption
    <2>0. Moves
      BY MovesStep
    <2>1. /\ IsFiniteSet(C) /\ IsFiniteSet(ActiveSessions) /\ IsFiniteSet(C')
          /\ Cardinality(C) \in Nat /\ Cardinality(C') \in Nat
          /\ Cardinality(ActiveSessions) \in Nat /\ Cardinality(C) <= Cardinality(ActiveSessions)
      <3>1. C \subseteq ActiveSessions /\ ActiveSessions \subseteq Session /\ C' \subseteq Session
        BY DEF ActiveSessions
      <3> QED
        BY <3>1, FS_Subset, FS_CardinalityType
    <2>2. counted \in Nat /\ counted' \in Nat /\ Cardinality(C) + counted <= MaxSessions - 1 + MaxRequest
      BY TypeStep DEF TypeInv, TypeOK, LimitHolds
    <2>3. CASE Count
      <3>1. C' = C
        BY <2>3 DEF Count, ActiveSessions, rows, jobs
      <3>2. counted < MaxRequest /\ Cardinality(ActiveSessions) < MaxSessions /\ counted' = counted + 1
        BY <2>3 DEF Count
      <3>3. LimitHolds' <=> Cardinality(C') + counted' <= MaxSessions - 1 + MaxRequest
        BY DEF LimitHolds
      <3> QED
        <4> HIDE DEF C
        <4> QED
          BY <2>1, <2>2, <3>1, <3>2, <3>3
    <2>4. ASSUME NEW s \in Session, NEW k \in Kinds[s], Submit(s, k) \/ SubmitFails(s, k)
          PROVE  LimitHolds'
      <3>1. C' \subseteq C \cup {s} /\ counted > 0 /\ counted' = counted - 1
        BY <2>4 DEF Submit, SubmitFails, ActiveSessions, TypeInv, TypeOK
      <3>a. /\ IsFiniteSet(C \cup {s})
            /\ Cardinality(C \cup {s}) = IF s \in C THEN Cardinality(C) ELSE Cardinality(C) + 1
        <4> HIDE DEF C
        <4> QED
          BY <2>1, FS_AddElement
      <3>2. IsFiniteSet(C \cup {s}) /\ Cardinality(C \cup {s}) <= Cardinality(C) + 1
        <4> HIDE DEF C
        <4> QED
          BY <2>1, <3>a
      <3>3. Cardinality(C') <= Cardinality(C \cup {s}) /\ Cardinality(C \cup {s}) \in Nat
        BY <3>1, <3>2, FS_Subset, FS_CardinalityType
      <3> QED
        BY <2>1, <2>2, <3>1, <3>2, <3>3 DEF LimitHolds
    <2>5. ASSUME counted' <= counted, \A s \in Session : row[s] = "none" => row'[s] = "none"
          PROVE  LimitHolds'
      <3>1. C' \subseteq C
        BY <2>0, <2>5 DEF Moves, ActiveSessions, Active, TypeInv, TypeOK
      <3>2. Cardinality(C') <= Cardinality(C)
        BY <2>1, <3>1, FS_Subset
      <3> QED
        BY <2>1, <2>2, <2>5, <3>2 DEF LimitHolds
    <2>6. \/ Count
          \/ \E s \in Session : \E k \in Kinds[s] : Submit(s, k) \/ SubmitFails(s, k)
          \/ counted' <= counted /\ \A s \in Session : row[s] = "none" => row'[s] = "none"
      <3> USE DEF TypeInv, WorkInv, Put, rows, jobs, reap, docker
      <3>1. ASSUME NEW s \in Session,
                   ~ \E k \in Kinds[s] : Submit(s, k) \/ SubmitFails(s, k),
                   JobStep(s) \/ SessionStep(s)
            PROVE  counted' <= counted /\ \A t \in Session : row[t] = "none" => row'[t] = "none"
        <4>1. counted' = counted
          BY <3>1 DEF JobStep, SessionStep, Request, SpawnBegin, CreateContainer, SetupDone, Ready, ProbeFails,
                 JobCommits, Acknowledge, QilingEnds, SetupFails, StopCommit, GetStatus, Exec, Delete, JobLost,
                 StopBegin, ExpireStop
        <4>2. row' = row \/ (row[s] # "none" /\ \A t \in Session \ {s} : row'[t] = row[t])
          BY <3>1 DEF JobStep, SessionStep, Request, SpawnBegin, CreateContainer, SetupDone, Ready, ProbeFails,
                 JobCommits, Acknowledge, QilingEnds, SetupFails, StopCommit, GetStatus, Exec, Delete, JobLost,
                 StopBegin, ExpireStop, Final, TypeOK
        <4> QED
          BY <2>2, <4>1, <4>2
      <3>2. ASSUME \/ ExpireCommit \/ BackendCrash \/ WorkerCrash \/ UNCHANGED vars
                   \/ \E S \in SUBSET Session : ExpireBegin(S)
                   \/ \E k \in Container, how \in {"exited", "hollow"} : ContainerDies(k, how)
            PROVE  counted' <= counted /\ \A t \in Session : row[t] = "none" => row'[t] = "none"
        BY <2>2, <3>2 DEF ExpireCommit, BackendCrash, WorkerCrash, ExpireBegin, ContainerDies, vars
      <3> QED
        BY <3>1, <3>2 DEF Next
    <2> QED
      BY <2>3, <2>4, <2>5, <2>6
  <1> QED
    BY <1>1, <1>2, PTL DEF Spec

\* The service keeps the promise of Lifecycle: every step maps to one of the
\* abstract specification or changes nothing there.
THEOREM OutcomesStay == Spec => OutcomeIsFinal
  <1> USE DEF Outcome!Phase
  <1>1. Init => TypeInv /\ WorkInv /\ Outcome!Init
    <2> SUFFICES ASSUME Init PROVE Outcome!Init
      BY InitType, InitWork
    <2>1. \A s \in Session : PhaseOf(s) = "none"
      BY DEF Init, PhaseOf, Active, Final
    <2> QED
      BY <2>1 DEF Outcome!Init
  <1>2. TypeInv /\ WorkInv /\ [Next]_vars => (TypeInv /\ WorkInv)'
    BY TypeStep, WorkStep
  <1>3. TypeInv /\ WorkInv /\ [Next]_vars => [Outcome!Next]_([s \in Session |-> PhaseOf(s)])
    <2> SUFFICES ASSUME TypeInv, WorkInv, [Next]_vars PROVE Outcome!Next
      OBVIOUS
    <2>1. TypeInv' /\ Moves
      BY TypeStep, MovesStep
    <2>2. ASSUME NEW s \in Session
          PROVE  /\ PhaseOf(s)' \in {"none", "active", "over", "gone"}
                 /\ \/ PhaseOf(s)' = PhaseOf(s)
                    \/ PhaseOf(s) = "none" /\ PhaseOf(s)' = "active"
                    \/ PhaseOf(s) = "active" /\ PhaseOf(s)' = "over"
                    \/ PhaseOf(s) \in {"active", "over"} /\ PhaseOf(s)' = "gone"
      <3>1. row[s] \in Row /\ row'[s] \in Row
        BY <2>1 DEF TypeInv, TypeOK
      <3>2. /\ row[s] = "none" <=> PhaseOf(s) = "none"
            /\ row[s] \in Final /\ ~Open(s) <=> PhaseOf(s) = "over"
            /\ row[s] = "gone" /\ ~Open(s) <=> PhaseOf(s) = "gone"
            /\ PhaseOf(s) \in {"none", "active", "over", "gone"}
        BY <3>1 DEF PhaseOf, Row, Active, Final
      <3>3. /\ row'[s] = "none" <=> PhaseOf(s)' = "none"
            /\ row'[s] \in Final /\ ~Open(s)' <=> PhaseOf(s)' = "over"
            /\ row'[s] = "gone" /\ ~Open(s)' <=> PhaseOf(s)' = "gone"
            /\ PhaseOf(s)' \in {"none", "active", "over", "gone"}
        BY <3>1 DEF PhaseOf, Row, Active, Final
      <3> QED
        BY <2>1, <3>1, <3>2, <3>3 DEF Moves, Final
    <2> QED
      BY <2>2 DEF Outcome!Next, Outcome!Open, Outcome!Close, Outcome!Discard
  <1> QED
    BY <1>1, <1>2, <1>3, PTL DEF Spec, OutcomeIsFinal, Outcome!Spec

-----------------------------------------------------------------------------
(* Containers *)

\* While nothing has failed: a session has containers only from the creation on,
\* and no other than the one its job works on; a stop that met no job at work has
\* left none behind, and the expiry job will remove what is on record.
QuietInv ==
    /\ \A s \in Session : job[s] = "lost" \/ s \in again => faults > 0
    /\ \A s \in Session : job[s] = "none" => row[s] = "none"
    /\ \A k \in Container : state[k] # "unused" =>
          \/ job[label[k]] \in {"setup", "probe"} /\ mem[label[k]] = k
          \/ job[label[k]] \in {"ack", "ended"}
          \/ faults > 0
    /\ \A s \in stopping \cup done : s \in raced \/ faults > 0 \/
          (job[s] \in {"ack", "ended"} /\ \A k \in Container : state[k] \in Live => label[k] # s)
    /\ \A s \in todo : s \in raced \/ faults > 0 \/
          (job[s] \in {"ack", "ended"} /\ \A k \in Container : state[k] \in Live /\ label[k] = s => cid[s] = k)

LeakInv == QuietInv /\ LeakHasCause

LEMMA LeakStep ==
    ASSUME TypeInv, WorkInv, LeakInv, [Next]_vars
    PROVE  LeakInv'
  <1> USE ConstAssumption DEF LeakInv, Put, Live, Last, rows, jobs, reap, docker
  <1>0. faults \in Nat
    BY DEF TypeInv, TypeOK
  <1>1. ASSUME faults' > 0, \A s \in Session : job'[s] = "none" => row'[s] = "none"
        PROVE  LeakInv'
    BY <1>1 DEF QuietInv, LeakHasCause
  <1>2. ASSUME UNCHANGED <<row, cid, job, mem, state, label, stopping, todo, done, raced, again, faults>>
        PROVE  LeakInv'
    BY <1>2 DEF QuietInv, LeakHasCause
  <1> USE DEF TypeInv, WorkInv, QuietInv, LeakHasCause
  <1>3. ASSUME NEW s \in Session, NEW k \in Kinds[s], Submit(s, k)
        PROVE  LeakInv'
    BY <1>3 DEF Submit, TypeOK
  <1>4. ASSUME NEW s \in Session, SpawnBegin(s)
        PROVE  LeakInv'
    BY <1>0, <1>4 DEF SpawnBegin, TypeOK
  <1>5. ASSUME NEW s \in Session, NEW ok \in BOOLEAN, QilingEnds(s, ok)
        PROVE  LeakInv'
    BY <1>0, <1>5 DEF QilingEnds, TypeOK
  <1>6. ASSUME NEW s \in Session, CreateContainer(s)
        PROVE  LeakInv'
    <2>1. PICK k \in Container :
            /\ state[k] = "unused" /\ state' = [state EXCEPT ![k] = "up"]
            /\ label' = [label EXCEPT ![k] = s] /\ mem' = [mem EXCEPT ![s] = k]
      BY <1>6 DEF CreateContainer, Unused
    <2>2. job[s] = "booting" /\ job' = [job EXCEPT ![s] = "setup"]
      BY <1>6 DEF CreateContainer
    <2>3. UNCHANGED <<row, cid, stopping, todo, done, raced, again, faults>>
      BY <1>6 DEF CreateContainer
    <2> QED
      BY <1>0, <2>1, <2>2, <2>3 DEF TypeOK
  <1>7. ASSUME NEW s \in Session, NEW removed \in BOOLEAN, SetupFails(s, removed)
        PROVE  LeakInv'
    <2>1. /\ row' = [row EXCEPT ![s] = IF @ = "gone" THEN @ ELSE "error"]
          /\ job[s] \in {"booting", "setup"} /\ job' = [job EXCEPT ![s] = Last(s)]
          /\ mem' = [mem EXCEPT ![s] = None]
          /\ UNCHANGED <<cid, label, stopping, todo, done, raced, again, faults>>
      BY <1>7 DEF SetupFails
    <2>2. \A k \in Container : /\ state'[k] \in Live => state[k] \in Live
                               /\ state'[k] # "unused" => state[k] # "unused"
      BY <1>7 DEF SetupFails, TypeOK
    <2> QED
      BY <1>0, <2>1, <2>2 DEF TypeOK
  <1>8. ASSUME NEW s \in Session, SetupDone(s) \/ Acknowledge(s)
        PROVE  LeakInv'
    BY <1>0, <1>8 DEF SetupDone, Acknowledge, TypeOK
  <1>9. ASSUME NEW s \in Session, Ready(s) \/ ProbeFails(s)
        PROVE  LeakInv'
    <2>1. PICK status \in {"ready", "error"} :
             row' = [row EXCEPT ![s] = IF @ = "gone" THEN @ ELSE status]
      BY <1>9 DEF Ready, ProbeFails, JobCommits
    <2>2. /\ job[s] = "probe" /\ job' = [job EXCEPT ![s] = Last(s)]
          /\ mem' = [mem EXCEPT ![s] = None]
          /\ cid' = [cid EXCEPT ![s] = IF row[s] = "gone" THEN @ ELSE mem[s]]
          /\ UNCHANGED <<state, label, stopping, todo, done, raced, again, faults>>
      BY <1>9 DEF Ready, ProbeFails, JobCommits
    <2> QED
      BY <1>0, <2>1, <2>2 DEF TypeOK
  <1>10. ASSUME NEW s \in Session, NEW ok \in BOOLEAN, StopBegin(s, ok)
         PROVE  LeakInv'
    <2>1. CASE ~ok
      BY <1>0, <1>1, <1>10, <2>1 DEF StopBegin, Fault
    <2>2. CASE ok
      <3>1. /\ row[s] \in {"pending", "booting", "ready"}
            /\ stopping' = stopping \cup {s}
            /\ UNCHANGED <<row, cid, job, mem, label, todo, done, again, faults>>
        BY <1>10, <2>2 DEF StopBegin, Active
      <3>2. \A k \in Container : /\ state'[k] \in Live => state[k] \in Live /\ k # cid[s]
                                 /\ state'[k] # "unused" <=> state[k] # "unused"
        BY <1>10, <2>2 DEF StopBegin, Remove, TypeOK
      <3>3. raced \subseteq raced' /\ (s \notin raced' => ~Working(s))
        <4>1. raced' = IF Working(s) THEN raced \cup {s} ELSE raced
          BY <1>10 DEF StopBegin
        <4> QED
          BY <4>1
      <3>4. \A k \in Container : state'[k] \in Live /\ label[k] = s =>
                                    s \in raced' \/ faults > 0
        BY <3>1, <3>2, <3>3 DEF Working, TypeOK
      <3>5. s \notin raced' /\ ~(faults > 0) => job[s] \in {"ack", "ended"}
        BY <3>1, <3>3 DEF Working, TypeOK, JobPC
      <3> QED
        BY <1>0, <3>1, <3>2, <3>3, <3>4, <3>5 DEF TypeOK
    <2> QED
      BY <2>1, <2>2
  <1>11. ASSUME NEW s \in Session, StopCommit(s)
         PROVE  LeakInv'
    BY <1>0, <1>11 DEF StopCommit, TypeOK
  <1>12. ASSUME NEW s \in Session, GetStatus(s) \/ Exec(s) \/ Delete(s)
         PROVE  LeakInv'
    <2>1. /\ row[s] # "none"
          /\ UNCHANGED <<cid, job, mem, state, label, stopping, todo, done, raced, again, faults>>
      BY <1>12 DEF GetStatus, Exec, Delete, Final
    <2>2. PICK status \in {"stopped", "error", "gone"} :
             /\ row' = [row EXCEPT ![s] = status]
             /\ status = "stopped" => row[s] = "ready" /\ state[cid[s]] = "removed"
      <3>1. CASE GetStatus(s)
        <4>1. Verdict(s) = "error" \/ (Verdict(s) = "stopped" /\ state[cid[s]] = "removed")
          BY <3>1 DEF GetStatus, Verdict
        <4> QED
          BY <3>1, <4>1 DEF GetStatus, TypeOK
      <3>2. CASE Exec(s) \/ Delete(s)
        BY <3>2 DEF Exec, Delete, TypeOK
      <3> QED
        BY <1>12, <3>1, <3>2
    <2> QED
      BY <1>0, <2>1, <2>2 DEF TypeOK
  <1>13. ASSUME NEW S \in SUBSET Session, ExpireBegin(S)
         PROVE  LeakInv'
    BY <1>0, <1>13 DEF ExpireBegin, TypeOK
  <1>14. ASSUME NEW s \in Session, NEW ok \in BOOLEAN, ExpireStop(s, ok)
         PROVE  LeakInv'
    <2>1. CASE ~ok
      BY <1>0, <1>1, <1>14, <2>1 DEF ExpireStop, Fault
    <2>2. CASE ok
      <3>1. /\ s \in todo /\ todo' = todo \ {s}
            /\ done' = IF row[s] = "gone" THEN done ELSE done \cup {s}
            /\ UNCHANGED <<row, cid, job, mem, label, stopping, raced, again, faults>>
        BY <1>14, <2>2 DEF ExpireStop
      <3>2. \A k \in Container : /\ state'[k] \in Live => state[k] \in Live
                                 /\ row[s] # "gone" /\ state'[k] \in Live => k # cid[s]
                                 /\ state'[k] # "unused" <=> state[k] # "unused"
        BY <1>14, <2>2 DEF ExpireStop, Remove, TypeOK
      <3> QED
        BY <1>0, <3>1, <3>2 DEF TypeOK
    <2> QED
      BY <2>1, <2>2
  <1>15. CASE ExpireCommit
    BY <1>0, <1>15 DEF ExpireCommit, TypeOK
  <1>16. ASSUME NEW k \in Container, NEW how \in {"exited", "hollow"}, ContainerDies(k, how)
         PROVE  LeakInv'
    BY <1>0, <1>16 DEF ContainerDies, TypeOK
  <1>17. ASSUME NEW s \in Session, NEW k \in Kinds[s], SubmitFails(s, k)
         PROVE  LeakInv'
    BY <1>0, <1>1, <1>17 DEF SubmitFails, Fault, TypeOK
  <1>18. ASSUME NEW s \in Session, JobLost(s)
         PROVE  LeakInv'
    BY <1>0, <1>1, <1>18 DEF JobLost, Fault, TypeOK
  <1>19. CASE BackendCrash \/ WorkerCrash
    BY <1>0, <1>1, <1>19 DEF BackendCrash, WorkerCrash, Fault, TypeOK
  <1>20. ASSUME NEW s \in Session, JobStep(s) \/ SessionStep(s)
         PROVE  LeakInv'
    BY <1>3, <1>4, <1>5, <1>6, <1>7, <1>8, <1>9, <1>10, <1>11, <1>12, <1>14, <1>17, <1>18, <1>20
       DEF JobStep, SessionStep, Request
  <1>21. CASE Count \/ UNCHANGED vars
    BY <1>2, <1>21 DEF Count, vars
  <1> QED
    BY <1>13, <1>15, <1>16, <1>19, <1>20, <1>21 DEF Next

\* A container that runs and serves no session has one of the named causes.
THEOREM LeaksHaveCauses == Spec => []LeakHasCause
  <1>1. Init => TypeInv /\ WorkInv /\ LeakInv
    BY InitType, InitWork DEF Init, LeakInv, QuietInv, LeakHasCause, Live
  <1>2. TypeInv /\ WorkInv /\ LeakInv /\ [Next]_vars => (TypeInv /\ WorkInv /\ LeakInv)'
    BY TypeStep, WorkStep, LeakStep
  <1>3. LeakInv => LeakHasCause
    BY DEF LeakInv
  <1> QED
    BY <1>1, <1>2, <1>3, PTL DEF Spec
=============================================================================
