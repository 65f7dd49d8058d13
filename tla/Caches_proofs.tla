---------------------------- MODULE Caches_proofs ----------------------------
(***************************************************************************)
(* Proofs about the two caches that notice changes by themselves: Ghidra,  *)
(* for any callers, processes and binaries, any capacity of the store and  *)
(* any number of scripts and faults; and, in the last part, YamlCache, for *)
(* any number of versions and failed calls.                                *)
(***************************************************************************)
EXTENDS Ghidra, YamlCache, TLAPS

\* What a caller is at decides the kind of its binary; a revision never runs
\* ahead of the scripts that were run.
Placed ==
    \A c \in Caller :
        /\ pc[c] # "idle" => bin[c] \in Binary
        /\ pc[c] \in {"import", "process"} => bin[c] \in Plain
        /\ pc[c] \in {"run", "commit", "gate", "restore", "script", "bump", "clear"} => bin[c] \in Gzf
        /\ c \in routed => pc[c] # "idle" /\ bin[c] \in Gzf
        /\ pc[c] = "bump" => stamp[c] < names[bin[c]]
TypeInv == TypeOK /\ Placed /\ \A b \in Gzf : rev[b] <= names[b]

\* A caller that is past an acquisition holds the lock of its binary; an analysis
\* of an archive that acquires it for the second time does so for ever.
Past(c) == \/ pc[c] \in {"recheck", "run", "commit", "import", "process"}
           \/ pc[c] = "inner" /\ bin[c] \in Gzf
LockInv == \A c \in Caller : Past(c) => lock[bin[c]] = c

\* Steps that do no more than end a call.
EndStep(c) == \/ PrepareFails(c) \/ GzfLost(c)
              \/ RecheckHit(c) \/ RunFails(c) \/ ProcessEnds(c)

\* What is left of the callers when the calls in S are over.
LEMMA OverEffect ==
    ASSUME TypeOK, NEW S, Over(S)
    PROVE  /\ pc' \in [Caller -> PC] /\ bin' \in [Caller -> Binary \cup {None}]
           /\ saw' \in [Caller -> 0 .. MaxRename] /\ stamp' \in [Caller -> 0 .. MaxRename]
           /\ routed' \subseteq routed
           /\ \A c \in S \cap Caller : pc'[c] = "idle" /\ c \notin routed'
           /\ \A c \in Caller \ S : /\ pc'[c] = pc[c] /\ bin'[c] = bin[c]
                                     /\ saw'[c] = saw[c] /\ stamp'[c] = stamp[c]
  <1>1. 0 \in 0 .. MaxRename
    BY ConstAssumption
  <1> QED
    BY <1>1 DEF Over, TypeOK, PC

\* A call that returns gives up its own lock and leadership and no others.
LEMMA ReturnEffect ==
    ASSUME TypeOK, NEW c \in Caller, Return(c), bin[c] \in Binary
    PROVE  /\ lock' \in [Binary -> Caller \cup {None}]
           /\ leader' \in [Process -> [Binary -> Caller \cup {None}]]
           /\ \A b \in Binary : lock[b] # c => lock'[b] = lock[b]
           /\ c \in {c} \cup Followers(c) /\ Over({c} \cup Followers(c))
  <1>1. ProcOf[c] \in Process
    BY ConstAssumption
  <1> QED
    BY <1>1 DEF Return, TypeOK

-----------------------------------------------------------------------------
(* Types *)

LEMMA TypeStep ==
    ASSUME TypeInv, LockInv, [Next]_vars
    PROVE  TypeInv'
  <1> USE ConstAssumption DEF TypeInv, Goto, PC, Binary, store, project, read
  <1>0. ASSUME NEW S, Over(S), UNCHANGED <<names, rev>>
        PROVE  Placed' /\ \A b \in Gzf : rev'[b] <= names'[b]
    BY <1>0, OverEffect DEF Placed
  <1>1. ASSUME NEW S, Over(S), UNCHANGED <<lock, leader, store, project, cache>>,
               lost' \subseteq Process \X Binary, faults' \in 0 .. MaxFault
        PROVE  TypeInv'
    BY <1>0, <1>1, OverEffect DEF TypeOK
  <1>2. ASSUME NEW c \in Caller, EndStep(c)
        PROVE  TypeInv'
    <2>1. CASE PrepareFails(c) \/ GzfLost(c)
      <3>1. Over({c}) /\ UNCHANGED <<lock, leader, store, project, cache>>
        BY <2>1 DEF PrepareFails, GzfLost
      <3>2. lost' \subseteq Process \X Binary
        BY <2>1 DEF PrepareFails, GzfLost, TypeOK, Placed
      <3>3. faults' \in 0 .. MaxFault
        BY <2>1 DEF PrepareFails, GzfLost, Fault, TypeOK
      <3> QED
        BY <1>1, <3>1, <3>2, <3>3
    <2>2. CASE RecheckHit(c) \/ RunFails(c) \/ ProcessEnds(c)
      <3>1. Return(c) /\ bin[c] \in Binary /\ UNCHANGED <<store, project, cache, lost, faults>>
        BY <2>2 DEF RecheckHit, RunFails, ProcessEnds, Placed
      <3> QED
        BY <1>0, <3>1, OverEffect, ReturnEffect DEF TypeOK
    <2> QED
      BY <1>2, <2>1, <2>2 DEF EndStep
  <1>3. ASSUME NEW c \in Caller, NEW b \in Binary, EnsureMiss(c, b)
        PROVE  TypeInv'
    BY <1>3 DEF EnsureMiss, Restored, TypeOK, Placed
  <1>4. ASSUME NEW c \in Caller, NEW b \in Binary, NEW force \in BOOLEAN, Worker(c, b, force)
        PROVE  TypeInv'
    BY <1>4 DEF Worker, TypeOK, Placed
  <1>5. ASSUME NEW c \in Caller, NEW b \in Binary, b \notin Gzf, Script(c, b)
        PROVE  TypeInv'
    BY <1>5 DEF Script, TypeOK, Placed
  <1>6. ASSUME NEW c \in Caller, NEW b \in Gzf, GzfScript(c, b)
        PROVE  TypeInv'
    BY <1>6 DEF GzfScript, TypeOK, Placed
  <1>7. ASSUME NEW c \in Caller, Lead(c)
        PROVE  TypeInv'
    <2>1. bin[c] \in Binary /\ ProcOf[c] \in Process
      BY <1>7 DEF Lead, Placed
    <2>2. leader' \in [Process -> [Binary -> Caller \cup {None}]]
      <3>1. leader' = leader \/ leader' = [leader EXCEPT ![ProcOf[c]][bin[c]] = c]
        BY <1>7 DEF Lead
      <3>2. CASE leader' = [leader EXCEPT ![ProcOf[c]][bin[c]] = c]
        BY <2>1, <3>2 DEF TypeOK
      <3> QED
        BY <3>1, <3>2 DEF TypeOK
    <2>3. pc' = [pc EXCEPT ![c] = "outer"] \/ pc' = [pc EXCEPT ![c] = "follow"]
      BY <1>7 DEF Lead
    <2>4. UNCHANGED <<bin, lock, store, project, cache, read, lost, faults>>
      BY <1>7 DEF Lead
    <2> QED
      BY <2>1, <2>2, <2>3, <2>4 DEF TypeOK, Placed
  <1>8. ASSUME NEW c \in Caller, GzfFails(c)
        PROVE  TypeInv'
    <2>1. Over({c}) /\ UNCHANGED <<lock, leader, store, gate, rev, cache, lost, faults>>
      BY <1>8 DEF GzfFails
    <2>2. /\ bin[c] \in Gzf
          /\ \/ UNCHANGED <<names, raced>>
             \/ /\ names' = [names EXCEPT ![bin[c]] = @ + 1] /\ names[bin[c]] < MaxRename
                /\ raced' = raced \cup {bin[c]}
      BY <1>8 DEF GzfFails, Placed
    <2>3. names' \in [Gzf -> 0 .. MaxRename] /\ raced' \subseteq Gzf
      BY <2>2 DEF TypeOK
    <2>4. \A b \in Gzf : names[b] <= names'[b] /\ names[b] \in Int /\ names'[b] \in Int
      BY <2>2, <2>3 DEF TypeOK
    <2>5. TypeOK'
      BY <2>1, <2>3, OverEffect DEF TypeOK
    <2>6. ASSUME NEW d \in Caller, pc'[d] = "bump"
          PROVE  stamp'[d] < names'[bin'[d]]
      <3>1. pc[d] = "bump" /\ bin'[d] = bin[d] /\ stamp'[d] = stamp[d]
        BY <2>1, <2>6, OverEffect
      <3>2. stamp[d] < names[bin[d]] /\ bin[d] \in Gzf /\ stamp[d] \in Int
        BY <3>1 DEF Placed, TypeOK
      <3> QED
        BY <2>4, <3>1, <3>2
    <2>7. Placed'
      BY <2>1, <2>6, OverEffect DEF Placed
    <2>8. \A b \in Gzf : rev'[b] <= names'[b]
      BY <2>1, <2>4 DEF TypeOK
    <2> QED
      BY <2>5, <2>7, <2>8
  <1>9. ASSUME NEW c \in Caller, AcquireOuter(c)
        PROVE  TypeInv'
    BY <1>9 DEF AcquireOuter, TypeOK, Placed
  <1>10. ASSUME NEW c \in Caller, Analyse(c)
         PROVE  TypeInv'
    <2>1. UNCHANGED <<bin, lock, leader, store, project, cache, stamp, routed, lost, faults>>
      BY <1>10 DEF Analyse
    <2>2. CASE InProcessMode(c)
      <3>1. bin[c] \in Gzf
        BY <2>2 DEF InProcessMode, Restored, Placed
      <3>2. saw' = [saw EXCEPT ![c] = names[bin[c]]] /\ pc' = [pc EXCEPT ![c] = "run"]
        BY <1>10, <2>2 DEF Analyse
      <3>3. saw' \in [Caller -> 0 .. MaxRename]
        BY <3>1, <3>2 DEF TypeOK
      <3> QED
        BY <2>1, <3>1, <3>2, <3>3 DEF TypeOK, Placed
    <2>3. CASE ~InProcessMode(c)
      <3>1. saw' = saw /\ pc' = [pc EXCEPT ![c] = "inner"] /\ bin[c] \in Binary
        BY <1>10, <2>3 DEF Analyse, Placed
      <3> QED
        BY <2>1, <3>1 DEF TypeOK, Placed
    <2> QED
      BY <2>2, <2>3
  <1>11. ASSUME NEW c \in Caller, RunEnds(c)
         PROVE  TypeInv'
    BY <1>11 DEF RunEnds, TypeOK, Placed
  <1>12. ASSUME NEW c \in Caller, Commit(c)
         PROVE  TypeInv'
    <2>1. Return(c) /\ bin[c] \in Binary /\ UNCHANGED <<store, project, lost, faults>>
      BY <1>12 DEF Commit, Placed
    <2>2. cache' \in [Binary -> Analysis \cup {NoAnalysis}]
      BY <1>12 DEF Commit, Analysis, TypeOK
    <2> QED
      BY <1>0, <2>1, <2>2, OverEffect, ReturnEffect DEF TypeOK
  <1>13. ASSUME NEW c \in Caller, AcquireInner(c)
         PROVE  TypeInv'
    <2>1. bin[c] \in Plain /\ UNCHANGED <<bin, leader, project, cache, read, lost, faults>>
      BY <1>13 DEF AcquireInner, Placed, LockInv, Past
    <2>2. lock' \in [Binary -> Caller \cup {None}]
      BY <1>13, <2>1 DEF AcquireInner, TypeOK
    <2>3. dir' \in [Binary -> {"absent", "partial", "ready"}]
      BY <1>13, <2>1 DEF AcquireInner, TypeOK
    <2>4. older' \subseteq Plain \X Plain
      BY <1>13, <2>1 DEF AcquireInner, Touch, Marked, TypeOK
    <2>5. pc' = [pc EXCEPT ![c] = "process"] \/ pc' = [pc EXCEPT ![c] = "import"]
      BY <1>13 DEF AcquireInner
    <2> QED
      BY <2>1, <2>2, <2>3, <2>4, <2>5 DEF TypeOK, Placed
  <1>14. ASSUME NEW c \in Caller, ImportEnds(c)
         PROVE  TypeInv'
    <2>1. dir' \in [Binary -> {"absent", "partial", "ready"}]
      BY <1>14 DEF ImportEnds, TypeOK
    <2>2. older' \subseteq Plain \X Plain
      BY <1>14 DEF ImportEnds, Touch, Marked, TypeOK, Placed
    <2> QED
      BY <1>14, <2>1, <2>2 DEF ImportEnds, TypeOK, Placed
  <1>15. ASSUME NEW c \in Caller, ImportFails(c)
         PROVE  TypeInv'
    <2>1. Return(c) /\ bin[c] \in Binary /\ UNCHANGED <<older, project, cache, lost, faults>>
      BY <1>15 DEF ImportFails, Placed
    <2>2. dir' \in [Binary -> {"absent", "partial", "ready"}]
      BY <1>15 DEF ImportFails, TypeOK
    <2> QED
      BY <1>0, <2>1, <2>2, OverEffect, ReturnEffect DEF TypeOK
  <1>16. ASSUME NEW c \in Caller, GzfSaves(c)
         PROVE  TypeInv'
    BY <1>16 DEF GzfSaves, TypeOK, Placed
  <1>17. ASSUME NEW c \in Caller, GzfBump(c)
         PROVE  TypeInv'
    BY <1>17 DEF GzfBump, TypeOK, Placed
  <1>18. ASSUME NEW c \in Caller, GzfClear(c)
         PROVE  TypeInv'
    <2>1. Over({c}) /\ UNCHANGED <<lock, leader, store, project, lost, faults>>
      BY <1>18 DEF GzfClear
    <2>2. cache' \in [Binary -> Analysis \cup {NoAnalysis}]
      BY <1>18 DEF GzfClear, TypeOK
    <2> QED
      BY <1>0, <2>1, <2>2, OverEffect DEF TypeOK
  <1>19. ASSUME NEW p \in Process, Crash(p)
         PROVE  TypeInv'
    <2>1. Over({c \in Caller : ProcOf[c] = p}) /\ UNCHANGED <<store, names, rev, raced, cache>>
      BY <1>19 DEF Crash
    <2>2. lock' \in [Binary -> Caller \cup {None}] /\ faults' \in 0 .. MaxFault
          /\ gate' \in [Gzf -> Caller \cup {None}]
          /\ lost' \subseteq Process \X Binary
      BY <1>19 DEF Crash, Fault, TypeOK
    <2>3. leader' \in [Process -> [Binary -> Caller \cup {None}]]
      BY <1>19 DEF Crash, TypeOK
    <2> QED
      BY <1>0, <2>1, <2>2, <2>3, OverEffect DEF TypeOK
  <1>20. CASE UNCHANGED vars
    BY <1>20 DEF vars, control, TypeOK, Placed
  <1>21. ASSUME NEW c \in Caller, Begin(c)
         PROVE  TypeInv'
    BY <1>3, <1>4, <1>5, <1>6, <1>21 DEF Begin
  <1>22. ASSUME NEW c \in Caller, AcquireGate(c) \/ RestoreBegins(c) \/ RestoreEnds(c)
         PROVE  TypeInv'
    <2>1. bin[c] \in Gzf
      BY <1>22 DEF AcquireGate, RestoreBegins, RestoreEnds, Placed
    <2>2. CASE AcquireGate(c)
      <3>1. gate' \in [Gzf -> Caller \cup {None}]
        BY <2>2 DEF AcquireGate, TypeOK
      <3>2. PICK l \in {"script", "restore"} : pc' = [pc EXCEPT ![c] = l]
        BY <2>2 DEF AcquireGate
      <3>3. UNCHANGED <<bin, lock, leader, store, names, rev, raced, cache, read, lost, faults>>
        BY <2>2 DEF AcquireGate
      <3>4. pc' \in [Caller -> PC]
        BY <3>2 DEF TypeOK, PC
      <3>5. Placed'
        BY <2>1, <3>2, <3>3 DEF TypeOK, Placed, read
      <3> QED
        BY <3>1, <3>3, <3>4, <3>5 DEF TypeOK, read
    <2>3. CASE RestoreBegins(c)
      BY <2>1, <2>3 DEF RestoreBegins, control, TypeOK, Placed
    <2>4. CASE RestoreEnds(c)
      BY <2>1, <2>4 DEF RestoreEnds, OpenGate, TypeOK, Placed
    <2> QED
      BY <1>22, <2>2, <2>3, <2>4
  <1>23. ASSUME NEW c \in Caller, RestoreStops(c)
         PROVE  TypeInv'
    <2>1. /\ Over({c}) /\ UNCHANGED <<lock, leader, store, names, rev, raced, cache, lost, faults>>
          /\ gate' \in [Gzf -> Caller \cup {None}]
      BY <1>23 DEF RestoreStops, OpenGate, TypeOK
    <2> QED
      BY <1>0, <2>1, OverEffect DEF TypeOK
  <1>24. ASSUME NEW c \in Caller, Acquire(c) \/ CallStep(c)
         PROVE  TypeInv'
    BY <1>2, <1>7, <1>8, <1>9, <1>10, <1>11, <1>12, <1>13, <1>14, <1>15, <1>16, <1>17,
       <1>18, <1>24, <1>22, <1>23 DEF Acquire, CallStep, EndStep
  <1> QED
    BY <1>2, <1>19, <1>20, <1>21, <1>24 DEF Next, EndStep

LEMMA InitType == Init => TypeInv
  BY ConstAssumption DEF Init, TypeInv, TypeOK, Placed, PC

-----------------------------------------------------------------------------
(* The lock *)

LEMMA LockStep ==
    ASSUME TypeInv, LockInv, [Next]_vars
    PROVE  LockInv'
  <1> USE ConstAssumption DEF LockInv, Past, Goto, Binary
  <1> DEFINE Free == {"missed", "follow", "outer", "gate", "restore", "script", "bump", "clear"}
  <1>1. ASSUME NEW c \in Caller, NEW b \in Binary, NEW l \in PC,
               pc' = [pc EXCEPT ![c] = l], lock' = lock,
               bin' = bin \/ bin' = [bin EXCEPT ![c] = b],
               l \in Free \/ (l = "inner" /\ b \notin Gzf /\ bin' = [bin EXCEPT ![c] = b])
        PROVE  LockInv'
    BY <1>1 DEF TypeInv, TypeOK, PC
  <1>2. ASSUME NEW c \in Caller, NEW l \in PC, Past(c),
               pc' = [pc EXCEPT ![c] = l], lock' = lock, bin' = bin
        PROVE  LockInv'
    BY <1>2 DEF TypeInv, TypeOK, PC
  <1>3. ASSUME NEW c \in Caller, NEW l \in PC, bin[c] \in Binary, lock[bin[c]] = None,
               lock' = [lock EXCEPT ![bin[c]] = c], pc' = [pc EXCEPT ![c] = l], bin' = bin
        PROVE  LockInv'
    BY <1>3 DEF TypeInv, TypeOK, Placed, PC
  <1>4. ASSUME NEW S, Over(S), lock' = lock
        PROVE  LockInv'
    BY <1>4, OverEffect DEF TypeInv
  <1>5. ASSUME NEW c \in Caller, Return(c), pc[c] # "idle"
        PROVE  LockInv'
    <2>1. /\ \A b \in Binary : lock[b] # c => lock'[b] = lock[b]
          /\ Over({c} \cup Followers(c))
      BY <1>5, ReturnEffect DEF TypeInv, Placed
    <2>2. \A d \in Caller : d # c /\ Past(d) => lock'[bin[d]] = d
      BY <2>1 DEF TypeInv, Placed
    <2> QED
      BY <2>1, <2>2, OverEffect DEF TypeInv
  <1>6. ASSUME NEW c \in Caller, Begin(c)
        PROVE  LockInv'
    <2>1. PICK b \in Binary : \/ EnsureMiss(c, b)
                              \/ \E force \in BOOLEAN : Worker(c, b, force)
                              \/ GzfScript(c, b)
                              \/ Script(c, b) /\ b \notin Gzf
      BY <1>6 DEF Begin
    <2>2. /\ lock' = lock /\ bin' = [bin EXCEPT ![c] = b]
          /\ \E l \in PC : /\ pc' = [pc EXCEPT ![c] = l]
                           /\ l \in Free \/ (l = "inner" /\ b \notin Gzf)
      BY <2>1 DEF EnsureMiss, Worker, GzfScript, Script, PC
    <2> QED
      BY <1>1, <2>2
  <1>7. ASSUME NEW c \in Caller, \/ Lead(c) \/ GzfSaves(c) \/ GzfBump(c)
                                 \/ AcquireGate(c) \/ RestoreEnds(c)
        PROVE  LockInv'
    <2>1. lock' = lock /\ bin' = bin /\ \E l \in PC \cap Free : pc' = [pc EXCEPT ![c] = l]
      BY <1>7 DEF Lead, GzfSaves, GzfBump, AcquireGate, RestoreEnds, PC
    <2>2. bin[c] \in Binary
      BY <1>7 DEF Lead, GzfSaves, GzfBump, AcquireGate, RestoreEnds, TypeInv, Placed
    <2> QED
      BY <1>1, <2>1, <2>2
  <1>8. ASSUME NEW c \in Caller, Analyse(c) \/ RunEnds(c) \/ ImportEnds(c)
        PROVE  LockInv'
    <2>1. /\ lock' = lock /\ bin' = bin /\ Past(c)
          /\ \E l \in PC : pc' = [pc EXCEPT ![c] = l]
      BY <1>8 DEF Analyse, RunEnds, ImportEnds, PC
    <2> QED
      BY <1>2, <2>1
  <1>9. ASSUME NEW c \in Caller, AcquireOuter(c) \/ AcquireInner(c)
        PROVE  LockInv'
    <2>1. /\ lock[bin[c]] = None /\ lock' = [lock EXCEPT ![bin[c]] = c] /\ bin' = bin
          /\ \E l \in PC : pc' = [pc EXCEPT ![c] = l]
      BY <1>9 DEF AcquireOuter, AcquireInner, PC
    <2>2. bin[c] \in Binary
      BY <1>9 DEF AcquireOuter, AcquireInner, TypeInv, Placed
    <2> QED
      BY <1>3, <2>1, <2>2
  <1>10. ASSUME NEW c \in Caller, \/ EndStep(c) \/ Commit(c) \/ ImportFails(c) \/ GzfClear(c)
                                  \/ GzfFails(c) \/ RestoreStops(c)
         PROVE  LockInv'
    <2>1. \/ Return(c) /\ pc[c] # "idle"
          \/ Over({c}) /\ lock' = lock
      BY <1>10 DEF EndStep, Commit, ImportFails, GzfClear, PrepareFails, GzfFails, GzfLost,
                   RecheckHit, RunFails, ProcessEnds, RestoreStops
    <2> QED
      BY <1>4, <1>5, <2>1
  <1>11. ASSUME NEW p \in Process, Crash(p)
         PROVE  LockInv'
    <2>1. \A d \in Caller : Past(d) /\ ProcOf[d] # p => lock'[bin[d]] = d
      BY <1>11 DEF Crash, TypeInv, TypeOK, Placed
    <2>2. Over({d \in Caller : ProcOf[d] = p})
      BY <1>11 DEF Crash
    <2>3. \A d \in Caller : IF ProcOf[d] = p THEN pc'[d] = "idle"
                            ELSE pc'[d] = pc[d] /\ bin'[d] = bin[d]
      BY <2>2, OverEffect DEF TypeInv
    <2> QED
      BY <2>1, <2>2, <2>3 DEF TypeInv
  <1>12. CASE UNCHANGED vars
    BY <1>12 DEF vars, control
  <1>13. ASSUME NEW c \in Caller, RestoreBegins(c)
         PROVE  LockInv'
    BY <1>13 DEF RestoreBegins, control
  <1>14. ASSUME NEW c \in Caller, Acquire(c) \/ CallStep(c)
         PROVE  LockInv'
    BY <1>7, <1>8, <1>9, <1>10, <1>13, <1>14 DEF Acquire, CallStep, EndStep
  <1> QED
    BY <1>6, <1>10, <1>11, <1>12, <1>14 DEF Next, EndStep

\* The types and the lock, which rest on each other.
Base == TypeInv /\ LockInv

LEMMA InitBase == Init => Base
  BY InitType DEF Init, Base, LockInv, Past

LEMMA BaseStep == Base /\ [Next]_vars => Base'
  BY TypeStep, LockStep DEF Base

\* The types of callers, locks, projects and cache; no revision runs ahead.
THEOREM TypeCorrect == Spec => []TypeOK
  <1>1. Base => TypeOK
    BY DEF Base, TypeInv
  <1> QED
    BY <1>1, InitBase, BaseStep, PTL DEF Spec

-----------------------------------------------------------------------------
(* Projects on disk *)

\* Scripts have their projects, and what ensure_analysis found is still there.
ProjectInv == ScriptHasProject /\ \A c \in routed : dir[bin[c]] = "ready"

\* Given the lock, every step keeps it: only the holder of its lock imports or
\* throws away a project, the store evicts only where it is free, and nobody
\* throws away an archive's.
LEMMA ProjectStep ==
    ASSUME TypeInv, LockInv, ProjectInv, [Next]_vars
    PROVE  ProjectInv'
  <1> USE ConstAssumption DEF ProjectInv, ScriptHasProject, Goto, store
  <1> DEFINE Off == PC \ {"import", "process", "run", "script"}
  <1>0. \A c \in routed : c \in Caller /\ pc[c] # "idle" /\ bin[c] \in Gzf
    BY DEF TypeInv, TypeOK, Placed
  <1>1. ASSUME NEW c \in Caller, NEW l \in PC, pc' = [pc EXCEPT ![c] = l], dir' = dir,
               \A d \in Caller \ {c} : bin'[d] = bin[d],
               routed' \subseteq routed \cup {c},
               c \in routed' => dir[bin'[c]] = "ready",
               l \in Off \/ (l \in {"process", "run", "script"} /\ dir[bin'[c]] = "ready")
        PROVE  ProjectInv'
    <2>1. pc'[c] = l /\ \A d \in Caller \ {c} : pc'[d] = pc[d]
      BY <1>1 DEF TypeInv, TypeOK
    <2>2. \A d \in Caller \ {c} : bin'[d] = bin[d] /\ dir' = dir
      BY <1>1
    <2>3. (/\ pc[c] \in {"process", "run", "script"} => dir[bin[c]] = "ready"
           /\ pc[c] = "import" => dir[bin[c]] = "partial")'
      BY <1>1, <2>1
    <2>4. ScriptHasProject'
      BY <2>1, <2>2, <2>3
    <2>5. \A d \in routed' : dir'[bin'[d]] = "ready"
      BY <1>0, <1>1, <2>2
    <2> QED
      BY <2>4, <2>5
  <1>2. ASSUME NEW S, Over(S), dir' = dir
        PROVE  ProjectInv'
    BY <1>0, <1>2, OverEffect DEF TypeInv
  <1>3. ASSUME NEW c \in Caller, Begin(c)
        PROVE  ProjectInv'
    <2>1. PICK b \in Binary : \/ EnsureMiss(c, b)
                              \/ \E force \in BOOLEAN : Worker(c, b, force)
                              \/ GzfScript(c, b) \/ Script(c, b)
      BY <1>3 DEF Begin
    <2>2. /\ dir' = dir /\ bin' = [bin EXCEPT ![c] = b] /\ pc[c] = "idle"
          /\ \E l \in Off : pc' = [pc EXCEPT ![c] = l]
      BY <2>1 DEF EnsureMiss, Worker, GzfScript, Script, PC
    <2>3. routed' = routed \/ (routed' = routed \cup {c} /\ dir[b] = "ready")
      BY <2>1 DEF EnsureMiss, Worker, GzfScript, Script, Restored, read
    <2>4. bin'[c] = b /\ \A d \in Caller \ {c} : bin'[d] = bin[d]
      BY <2>2 DEF TypeInv, TypeOK
    <2>5. c \in routed' => dir[b] = "ready"
      BY <1>0, <2>2, <2>3
    <2> QED
      BY <1>1, <2>2, <2>3, <2>4, <2>5
  <1>4. ASSUME NEW c \in Caller, \/ Lead(c) \/ GzfSaves(c) \/ GzfBump(c) \/ AcquireOuter(c)
                                 \/ RunEnds(c) \/ AcquireGate(c) \/ RestoreEnds(c)
        PROVE  ProjectInv'
    <2>1. dir' = dir /\ bin' = bin /\ routed' = routed
      BY <1>4 DEF Lead, GzfSaves, GzfBump, AcquireOuter, RunEnds, AcquireGate, RestoreEnds, read
    <2>2. \E l \in PC : /\ pc' = [pc EXCEPT ![c] = l]
                        /\ l \in Off \/ (l = "script" /\ dir[bin[c]] = "ready")
      BY <1>4 DEF Lead, GzfSaves, GzfBump, AcquireOuter, RunEnds, AcquireGate, RestoreEnds,
                  Restored, PC
    <2> QED
      BY <1>1, <2>1, <2>2
  <1>5. ASSUME NEW c \in Caller, Analyse(c)
        PROVE  ProjectInv'
    <2>1. dir' = dir /\ bin' = bin /\ routed' = routed
      BY <1>5 DEF Analyse
    <2>2. InProcessMode(c) => dir[bin[c]] = "ready"
      BY DEF InProcessMode, Restored
    <2>3. \E l \in PC : /\ pc' = [pc EXCEPT ![c] = l]
                        /\ l \in Off \/ (l = "run" /\ dir[bin[c]] = "ready")
      BY <1>5, <2>2 DEF Analyse, PC
    <2> QED
      BY <1>1, <2>1, <2>3
  \* What happens to the project of a plain binary is the holder's affair.
  <1>6. ASSUME NEW c \in Caller, NEW b \in Plain, bin[c] = b,
               \A d \in Caller \ {c} : pc'[d] = "idle" \/ (pc'[d] = pc[d] /\ bin'[d] = bin[d]),
               \A d \in Caller \ {c} : pc[d] \in {"import", "process"} => bin[d] # b /\ dir'[bin[d]] = dir[bin[d]],
               \A e \in Gzf : dir'[e] = dir[e], routed' \subseteq routed,
               \A d \in routed' : bin'[d] = bin[d],
               \/ pc'[c] = "idle"
               \/ pc'[c] = "process" /\ bin'[c] = b /\ dir'[b] = "ready"
               \/ pc'[c] = "import" /\ bin'[c] = b /\ dir'[b] = "partial"
        PROVE  ProjectInv'
    <2>1. \A d \in Caller : pc[d] \in {"run", "script"} => bin[d] \in Gzf
      BY DEF TypeInv, Placed
    <2>2. ScriptHasProject'
      BY <1>6, <2>1
    <2>3. \A d \in routed' : dir'[bin'[d]] = "ready"
      BY <1>0, <1>6
    <2> QED
      BY <2>2, <2>3
  <1>7. ASSUME NEW c \in Caller, AcquireInner(c)
        PROVE  ProjectInv'
    <2>1. \A d \in Caller : pc[d] \in {"import", "process"} => bin[d] # bin[c] /\ bin[d] \in Plain
      BY <1>7 DEF AcquireInner, LockInv, Past, TypeInv, Placed
    <2>2. bin[c] \in Plain /\ bin' = bin /\ routed' = routed
      BY <1>7 DEF AcquireInner, TypeInv, Placed, LockInv, Past, Binary, read
    <2>3. \/ dir' = dir /\ pc' = [pc EXCEPT ![c] = "process"] /\ dir[bin[c]] = "ready"
          \/ dir' = [dir EXCEPT ![bin[c]] = "partial"] /\ pc' = [pc EXCEPT ![c] = "import"]
      BY <1>7 DEF AcquireInner
    <2>4. \A e \in Binary : e # bin[c] => dir'[e] = dir[e]
      BY <2>3 DEF TypeInv, TypeOK
    <2>5. /\ \A d \in Caller \ {c} : pc'[d] = pc[d]
          /\ \/ pc'[c] = "process" /\ dir'[bin[c]] = "ready"
             \/ pc'[c] = "import" /\ dir'[bin[c]] = "partial"
      BY <2>2, <2>3 DEF TypeInv, TypeOK, Binary
    <2> QED
      BY <1>6, <2>1, <2>2, <2>4, <2>5 DEF Binary
  <1>8. ASSUME NEW c \in Caller, ImportEnds(c)
        PROVE  ProjectInv'
    <2>1. pc[c] = "import" /\ bin[c] \in Plain
      BY <1>8 DEF ImportEnds, TypeInv, Placed
    <2>2. PICK gone \in SUBSET {b \in Plain : lock[b] = None} :
             dir' = [b \in Binary |-> IF b \in gone THEN "absent"
                                      ELSE IF b = bin[c] THEN "ready" ELSE dir[b]]
      BY <1>8, <2>1 DEF ImportEnds, Evicted, Marked
    <2>3. \A d \in Caller : pc[d] \in {"import", "process"} =>
              /\ bin[d] \in Plain \ gone
              /\ bin[d] = bin[c] => d = c
      BY <2>1, <2>2 DEF LockInv, Past, TypeInv, Placed
    <2>4. pc' = [pc EXCEPT ![c] = "process"] /\ bin' = bin /\ routed' = routed
      BY <1>8 DEF ImportEnds, read
    <2>5. dir'[bin[c]] = "ready" /\ \A e \in Gzf : dir'[e] = dir[e]
      BY <2>1, <2>2, <2>3 DEF Binary
    <2>6. \A d \in Caller \ {c} : pc[d] \in {"import", "process"} =>
              bin[d] # bin[c] /\ dir'[bin[d]] = dir[bin[d]]
      BY <2>2, <2>3 DEF Binary
    <2>7. pc'[c] = "process" /\ \A d \in Caller \ {c} : pc'[d] = pc[d]
      BY <2>4 DEF TypeInv, TypeOK
    <2> QED
      BY <1>6, <2>1, <2>4, <2>5, <2>6, <2>7
  <1>9. ASSUME NEW c \in Caller, ImportFails(c)
        PROVE  ProjectInv'
    <2>1. \A d \in Caller \ {c} : pc[d] \in {"import", "process"} => bin[d] # bin[c] /\ bin[d] \in Plain
      BY <1>9 DEF ImportFails, LockInv, Past, TypeInv, Placed
    <2>2. bin[c] \in Plain /\ dir' = [dir EXCEPT ![bin[c]] = "absent"]
      BY <1>9 DEF ImportFails, TypeInv, Placed
    <2>3. Over({c} \cup Followers(c))
      BY <1>9 DEF ImportFails, Return
    <2>4. \A e \in Binary : e # bin[c] => dir'[e] = dir[e]
      BY <2>2 DEF TypeInv, TypeOK
    <2>5. /\ pc'[c] = "idle" /\ routed' \subseteq routed
          /\ \A d \in Caller \ {c} : pc'[d] = "idle" \/ (pc'[d] = pc[d] /\ bin'[d] = bin[d])
          /\ \A d \in routed' : bin'[d] = bin[d]
      BY <1>0, <2>3, OverEffect DEF TypeInv
    <2> QED
      BY <1>6, <2>1, <2>2, <2>4, <2>5 DEF Binary
  <1>10. ASSUME NEW c \in Caller, \/ EndStep(c) \/ Commit(c) \/ GzfClear(c)
                                  \/ GzfFails(c) \/ RestoreStops(c)
         PROVE  ProjectInv'
    <2>1. dir' = dir /\ \E S \in SUBSET Caller : Over(S)
      <3>1. {c} \cup Followers(c) \in SUBSET Caller
        BY DEF Followers
      <3> QED
        BY <1>10, <3>1 DEF EndStep, Commit, GzfClear, PrepareFails, GzfFails, GzfLost,
                           RecheckHit, RunFails, ProcessEnds, RestoreStops, Return
    <2> QED
      BY <1>2, <2>1
  <1>11. ASSUME NEW c \in Caller, RestoreBegins(c)
         PROVE  ProjectInv'
    <2>1. /\ bin[c] \in Gzf /\ dir' = [dir EXCEPT ![bin[c]] = "ready"]
          /\ UNCHANGED <<pc, bin, routed>>
      BY <1>11 DEF RestoreBegins, control, read, TypeInv, Placed
    <2>2. \A b \in Binary : dir'[b] = dir[b] \/ (b \in Gzf /\ dir'[b] = "ready")
      BY <2>1 DEF TypeInv, TypeOK, Binary
    <2>3. \A d \in Caller : pc[d] = "import" => bin[d] \notin Gzf
      BY DEF TypeInv, Placed
    <2>4. \A d \in Caller : pc[d] # "idle" => bin[d] \in Binary
      BY DEF TypeInv, Placed
    <2> QED
      BY <1>0, <2>1, <2>2, <2>3, <2>4
  <1>12. ASSUME NEW p \in Process, Crash(p)
         PROVE  ProjectInv'
    BY <1>2, <1>12 DEF Crash
  <1>13. CASE UNCHANGED vars
    BY <1>13 DEF vars, control, read
  <1>14. ASSUME NEW c \in Caller, Acquire(c) \/ CallStep(c)
         PROVE  ProjectInv'
    BY <1>4, <1>5, <1>7, <1>8, <1>9, <1>10, <1>11, <1>14 DEF Acquire, CallStep, EndStep
  <1> QED
    BY <1>3, <1>10, <1>12, <1>13, <1>14 DEF Next, EndStep

LEMMA InitProject == Init => Base /\ ProjectInv
  BY InitBase DEF Init, ProjectInv, ScriptHasProject

\* No eviction, failed import, crash or other caller takes a project away from a
\* script that runs on it.
THEOREM ProjectsStay == Spec => []ScriptHasProject
  <1>1. Base /\ ProjectInv /\ [Next]_vars => (Base /\ ProjectInv)'
    BY BaseStep, ProjectStep DEF Base
  <1>2. ProjectInv => ScriptHasProject
    BY DEF ProjectInv
  <1> QED
    BY <1>1, <1>2, InitProject, PTL DEF Spec

-----------------------------------------------------------------------------
(* The gate of an archive *)

\* It belongs to the caller that restores the project, and no script runs on a
\* project that is being restored.
GateInv ==
    /\ \A c \in Caller : pc[c] = "restore" => gate[bin[c]] = c
    /\ \A b \in Gzf : gate[b] # None =>
           gate[b] \in Caller /\ bin[gate[b]] = b /\ pc[gate[b]] = "restore"
    /\ \A c, d \in Caller : pc[c] = "restore" /\ pc[d] = "script" => bin[c] # bin[d]

LEMMA GateStep ==
    ASSUME TypeInv, ProjectInv, GateInv, [Next]_vars
    PROVE  GateInv'
  <1> USE ConstAssumption DEF GateInv, Goto, project
  <1>1. ASSUME gate' = gate,
               \A d \in Caller : \/ pc'[d] = pc[d] /\ bin'[d] = bin[d]
                                 \/ pc[d] # "restore" /\ pc'[d] \notin {"restore", "script"}
        PROVE  GateInv'
    BY <1>1
  <1>2. ASSUME NEW c \in Caller, pc[c] # "restore", NEW l \in PC \ {"restore", "script"},
               NEW b \in Binary, pc' = [pc EXCEPT ![c] = l],
               bin' = bin \/ bin' = [bin EXCEPT ![c] = b], gate' = gate
        PROVE  GateInv'
    <2>1. pc'[c] = l /\ \A d \in Caller \ {c} : pc'[d] = pc[d] /\ bin'[d] = bin[d]
      BY <1>2 DEF TypeInv, TypeOK
    <2> QED
      BY <1>1, <1>2, <2>1
  <1>3. ASSUME NEW S, Over(S), gate' = gate, \A d \in S \cap Caller : pc[d] # "restore"
        PROVE  GateInv'
    <2>1. \A d \in Caller : IF d \in S THEN pc'[d] = "idle" ELSE pc'[d] = pc[d] /\ bin'[d] = bin[d]
      BY <1>3, OverEffect DEF TypeInv
    <2> QED
      BY <1>1, <1>3, <2>1
  <1>4. ASSUME NEW c \in Caller, Begin(c)
        PROVE  GateInv'
    <2>1. PICK b \in Binary : \/ EnsureMiss(c, b)
                              \/ \E force \in BOOLEAN : Worker(c, b, force)
                              \/ GzfScript(c, b) \/ Script(c, b)
      BY <1>4 DEF Begin
    <2>2. /\ gate' = gate /\ bin' = [bin EXCEPT ![c] = b] /\ pc[c] = "idle"
          /\ \E l \in PC \ {"restore", "script"} : pc' = [pc EXCEPT ![c] = l]
      BY <2>1 DEF EnsureMiss, Worker, GzfScript, Script, PC
    <2> QED
      BY <1>2, <2>2
  <1>5. ASSUME NEW c \in Caller, \/ Lead(c) \/ AcquireOuter(c) \/ AcquireInner(c) \/ Analyse(c)
                                 \/ RunEnds(c) \/ ImportEnds(c) \/ GzfSaves(c) \/ GzfBump(c)
        PROVE  GateInv'
    <2>1. /\ gate' = gate /\ bin' = bin /\ pc[c] \notin {"restore", "idle"}
          /\ \E l \in PC \ {"restore", "script"} : pc' = [pc EXCEPT ![c] = l]
      BY <1>5 DEF Lead, AcquireOuter, AcquireInner, Analyse, RunEnds, ImportEnds, GzfSaves,
                  GzfBump, PC
    <2>2. bin[c] \in Binary
      BY <2>1 DEF TypeInv, Placed
    <2> QED
      BY <1>2, <2>1, <2>2
  <1>6. ASSUME NEW c \in Caller, \/ EndStep(c) \/ Commit(c) \/ ImportFails(c)
                                 \/ GzfClear(c) \/ GzfFails(c)
        PROVE  GateInv'
    <2>1. /\ gate' = gate /\ pc[c] # "restore"
          /\ Over({c}) \/ Over({c} \cup Followers(c))
      BY <1>6 DEF EndStep, Commit, ImportFails, GzfClear, PrepareFails, GzfFails, GzfLost,
                  RecheckHit, RunFails, ProcessEnds, Return
    <2>2. \A d \in Followers(c) : pc[d] # "restore"
      BY DEF Followers
    <2> QED
      BY <1>3, <2>1, <2>2
  <1>7. ASSUME NEW c \in Caller, AcquireGate(c)
        PROVE  GateInv'
    <2>1. /\ pc[c] = "gate" /\ bin[c] \in Gzf /\ gate[bin[c]] = None /\ bin' = bin
          /\ \A d \in Caller \ {c} : pc'[d] = pc[d]
      BY <1>7 DEF AcquireGate, TypeInv, TypeOK, Placed
    <2>2. CASE Restored(bin[c])
      <3>1. gate' = gate /\ pc'[c] = "script"
        BY <1>7, <2>2 DEF AcquireGate, TypeInv, TypeOK
      <3>2. \A d \in Caller : pc[d] = "restore" => bin[d] # bin[c]
        BY <2>1
      <3> QED
        BY <2>1, <3>1, <3>2
    <2>3. CASE ~Restored(bin[c])
      <3>1. gate' = [gate EXCEPT ![bin[c]] = c] /\ pc'[c] = "restore"
        BY <1>7, <2>3 DEF AcquireGate, TypeInv, TypeOK
      <3>2. gate'[bin[c]] = c /\ \A b \in Gzf : b # bin[c] => gate'[b] = gate[b]
        BY <2>1, <3>1 DEF TypeInv, TypeOK
      <3>3. \A d \in Caller : /\ pc[d] = "script" => bin[d] # bin[c]
                              /\ pc[d] = "restore" => bin[d] # bin[c] /\ bin[d] \in Gzf
        BY <2>1, <2>3 DEF Restored, ProjectInv, ScriptHasProject, TypeInv, Placed
      <3> QED
        BY <2>1, <3>1, <3>2, <3>3
    <2> QED
      BY <2>2, <2>3
  \* The caller that restores leaves the gate open behind it.
  <1>8. ASSUME NEW c \in Caller, RestoreEnds(c) \/ RestoreStops(c)
        PROVE  GateInv'
    <2>1. /\ pc[c] = "restore" /\ bin[c] \in Gzf
          /\ gate' = [gate EXCEPT ![bin[c]] = None]
      BY <1>8 DEF RestoreEnds, RestoreStops, OpenGate, TypeInv, Placed
    <2>2. /\ pc'[c] = "idle" \/ (pc'[c] = "script" /\ bin'[c] = bin[c])
          /\ \A d \in Caller \ {c} : pc'[d] = pc[d] /\ bin'[d] = bin[d]
      BY <1>8, OverEffect DEF RestoreEnds, RestoreStops, TypeInv, TypeOK
    <2>3. gate'[bin[c]] = None /\ \A b \in Gzf : b # bin[c] => gate'[b] = gate[b]
      BY <2>1 DEF TypeInv, TypeOK
    <2>4. \A d \in Caller \ {c} : pc[d] = "restore" => bin[d] # bin[c] /\ bin[d] \in Gzf
      BY <2>1 DEF TypeInv, Placed
    <2> QED
      BY <2>1, <2>2, <2>3, <2>4
  <1>9. ASSUME NEW p \in Process, Crash(p)
        PROVE  GateInv'
    <2>1. \A d \in Caller : IF ProcOf[d] = p THEN pc'[d] = "idle"
                            ELSE pc'[d] = pc[d] /\ bin'[d] = bin[d]
      <3>1. Over({d \in Caller : ProcOf[d] = p})
        BY <1>9 DEF Crash
      <3> QED
        BY <3>1, OverEffect DEF TypeInv
    <2>2. \A b \in Gzf : gate'[b] = IF gate[b] \in {d \in Caller : ProcOf[d] = p} THEN None ELSE gate[b]
      BY <1>9 DEF Crash
    <2>3. \A d \in Caller : pc[d] = "restore" => bin[d] \in Gzf
      BY DEF TypeInv, Placed
    <2> QED
      BY <2>1, <2>2, <2>3
  <1>10. ASSUME UNCHANGED <<pc, bin, gate>>
         PROVE  GateInv'
    BY <1>1, <1>10
  <1>11. ASSUME NEW c \in Caller, Acquire(c) \/ CallStep(c)
         PROVE  GateInv'
    BY <1>5, <1>6, <1>7, <1>8, <1>10, <1>11
       DEF Acquire, CallStep, EndStep, RestoreBegins, control
  <1> QED
    BY <1>4, <1>6, <1>9, <1>10, <1>11 DEF Next, EndStep, vars, control

LEMMA InitGate == Init => Base /\ ProjectInv /\ GateInv
  BY InitProject DEF Init, GateInv

\* No two callers run Ghidra on the project of a plain binary, whatever processes
\* they are in and whatever fails or dies; on that of an archive, none but the
\* pairs that OneHeadless lists.
THEOREM MutualExclusion == Spec => []OneHeadless
  <1>1. Base /\ ProjectInv /\ GateInv /\ [Next]_vars => (Base /\ ProjectInv /\ GateInv)'
    BY BaseStep, ProjectStep, GateStep DEF Base
  <1>2. Base /\ GateInv => OneHeadless
    <2> SUFFICES ASSUME Base, GateInv, NEW c \in Caller, NEW d \in Caller,
                        Running(c), Running(d), bin[c] = bin[d], c # d
                 PROVE  bin[c] \in Gzf /\ {pc[c], pc[d]} \in Together
      BY DEF OneHeadless
    <2> DEFINE Locked == {"import", "process", "run"}
    <2>1. ~(pc[c] \in Locked /\ pc[d] \in Locked)
      BY DEF Base, LockInv, Past
    <2>2. ~(pc[c] = "restore" /\ pc[d] \in {"restore", "script"})
          /\ ~(pc[d] = "restore" /\ pc[c] = "script")
      BY DEF GateInv
    <2>3. \A e \in {c, d} : /\ pc[e] \in {"import", "process"} => bin[e] \in Plain
                            /\ pc[e] \in {"run", "restore", "script"} => bin[e] \in Gzf
      BY DEF Base, TypeInv, Placed
    <2>4. pc[c] \in {"run", "restore", "script"} /\ pc[d] \in {"run", "restore", "script"}
      BY <2>1, <2>3, ConstAssumption DEF Running
    <2> QED
      BY <2>1, <2>2, <2>3, <2>4 DEF Together
  <1> QED
    BY <1>1, <1>2, InitGate, PTL DEF Spec

-----------------------------------------------------------------------------
(* Who waits for whom *)

\* A lock belongs to a call that is at work on its binary.
HolderInv ==
    \A b \in Binary : lock[b] # None =>
        lock[b] \in Caller /\ bin[lock[b]] = b /\ pc[lock[b]] \in AtWork

\* An entry of a table that was not left behind belongs to a call of the process
\* that is under way on the binary, and whoever follows has an entry to follow.
LeaderInv ==
    /\ \A p \in Process, b \in Binary :
           (leader[p][b] # None /\ <<p, b>> \notin lost) =>
               /\ leader[p][b] \in Caller
               /\ ProcOf[leader[p][b]] = p /\ bin[leader[p][b]] = b
               /\ pc[leader[p][b]] \in {"outer"} \cup AtWork
    /\ \A c \in Caller : pc[c] = "follow" => leader[ProcOf[c]][bin[c]] # None

WaitInv == HolderInv /\ LeaderInv

LEMMA WaitStep ==
    ASSUME TypeInv, WaitInv, [Next]_vars
    PROVE  WaitInv'
  <1> USE ConstAssumption DEF Goto, AtWork
  \* A call that moves on at work on the same binary.
  <1>1. ASSUME NEW c \in Caller, NEW l \in {"outer"} \cup AtWork,
               pc[c] \in {"outer"} \cup AtWork, pc[c] \in AtWork => l \in AtWork,
               pc' = [pc EXCEPT ![c] = l], UNCHANGED <<bin, lock, leader, lost>>
        PROVE  WaitInv'
    <2>1. /\ pc'[c] = l /\ \A d \in Caller : d # c => pc'[d] = pc[d]
      BY <1>1 DEF TypeInv, TypeOK
    <2>2. HolderInv'
      BY <1>1, <2>1 DEF WaitInv, HolderInv
    <2>3. LeaderInv'
      BY <1>1, <2>1 DEF WaitInv, LeaderInv
    <2> QED
      BY <2>2, <2>3 DEF WaitInv
  \* A call that nobody waits for.
  <1>2. ASSUME NEW c \in Caller, pc[c] \notin {"outer"} \cup AtWork,
               \A d \in Caller : d # c => pc'[d] = pc[d] /\ bin'[d] = bin[d],
               pc'[c] # "follow", UNCHANGED <<lock, leader, lost>>
        PROVE  WaitInv'
    <2>1. HolderInv'
      BY <1>2 DEF WaitInv, HolderInv
    <2>2. LeaderInv'
      <3>1. ASSUME NEW p \in Process, NEW b \in Binary, leader[p][b] # None, <<p, b>> \notin lost
            PROVE  /\ leader[p][b] \in Caller \ {c}
                   /\ ProcOf[leader[p][b]] = p /\ bin[leader[p][b]] = b
                   /\ pc[leader[p][b]] \in {"outer"} \cup AtWork
        BY <1>2, <3>1 DEF WaitInv, LeaderInv
      <3>2. ASSUME NEW d \in Caller, pc'[d] = "follow"
            PROVE  leader'[ProcOf[d]][bin'[d]] # None
        BY <1>2, <3>2 DEF WaitInv, LeaderInv
      <3> QED
        BY <1>2, <3>1, <3>2 DEF LeaderInv
    <2> QED
      BY <2>1, <2>2 DEF WaitInv
  <1>3. ASSUME NEW c \in Caller, Begin(c)
        PROVE  WaitInv'
    <2>1. PICK b \in Binary : \/ EnsureMiss(c, b)
                              \/ \E force \in BOOLEAN : Worker(c, b, force)
                              \/ GzfScript(c, b) \/ Script(c, b)
      BY <1>3 DEF Begin
    <2>2. /\ UNCHANGED <<lock, leader, lost>> /\ bin' = [bin EXCEPT ![c] = b] /\ pc[c] = "idle"
          /\ \E l \in {"missed", "outer", "gate", "inner"} : pc' = [pc EXCEPT ![c] = l]
      BY <2>1 DEF EnsureMiss, Worker, GzfScript, Script
    <2>3. /\ \A d \in Caller : d # c => pc'[d] = pc[d] /\ bin'[d] = bin[d]
          /\ pc'[c] # "follow"
      BY <2>2 DEF TypeInv, TypeOK
    <2> QED
      BY <1>2, <2>2, <2>3
  <1>4. ASSUME NEW c \in Caller, Lead(c)
        PROVE  WaitInv'
    <2>1. /\ pc[c] = "missed" /\ bin[c] \in Binary /\ ProcOf[c] \in Process
          /\ UNCHANGED <<bin, lock, lost>>
          /\ \A d \in Caller : d # c => pc'[d] = pc[d]
      BY <1>4 DEF Lead, TypeInv, TypeOK, Placed
    <2>2. HolderInv'
      BY <2>1 DEF WaitInv, HolderInv
    <2>3. CASE leader[ProcOf[c]][bin[c]] # None
      <3>1. leader' = leader /\ pc'[c] = "follow"
        BY <1>4, <2>3 DEF Lead, TypeInv, TypeOK
      <3> QED
        BY <2>1, <2>2, <2>3, <3>1 DEF WaitInv, LeaderInv
    <2>4. CASE leader[ProcOf[c]][bin[c]] = None
      <3>1. /\ pc'[c] = "outer" /\ leader'[ProcOf[c]][bin[c]] = c
            /\ \A p \in Process, b \in Binary :
                   p # ProcOf[c] \/ b # bin[c] => leader'[p][b] = leader[p][b]
        BY <1>4, <2>1, <2>4 DEF Lead, TypeInv, TypeOK
      <3>2. c # None
        OBVIOUS
      <3>3. ASSUME NEW p \in Process, NEW b \in Binary, leader'[p][b] # None, <<p, b>> \notin lost'
            PROVE  /\ leader'[p][b] \in Caller
                   /\ ProcOf[leader'[p][b]] = p /\ bin'[leader'[p][b]] = b
                   /\ pc'[leader'[p][b]] \in {"outer"} \cup AtWork
        <4>1. CASE p = ProcOf[c] /\ b = bin[c]
          BY <2>1, <3>1, <4>1
        <4>2. CASE p # ProcOf[c] \/ b # bin[c]
          <5>1. leader'[p][b] = leader[p][b] /\ lost' = lost /\ bin' = bin
            BY <2>1, <3>1, <4>2
          <5> QED
            BY <2>1, <3>3, <5>1 DEF WaitInv, LeaderInv
        <4> QED
          BY <4>1, <4>2
      <3>4. ASSUME NEW d \in Caller, pc'[d] = "follow"
            PROVE  leader'[ProcOf[d]][bin'[d]] # None
        <4>1. pc[d] = "follow" /\ bin'[d] = bin[d] /\ ProcOf[d] \in Process /\ bin[d] \in Binary
          BY <2>1, <3>1, <3>4 DEF TypeInv, Placed
        <4> QED
          BY <3>1, <3>2, <4>1 DEF WaitInv, LeaderInv
      <3>5. LeaderInv'
        BY <3>3, <3>4 DEF LeaderInv
      <3> QED
        BY <2>2, <3>5 DEF WaitInv
    <2> QED
      BY <2>3, <2>4
  <1>5. ASSUME NEW c \in Caller, PrepareFails(c)
        PROVE  WaitInv'
    <2>1. /\ pc[c] = "outer" /\ Over({c}) /\ UNCHANGED <<lock, leader>>
          /\ lost' = lost \cup {<<ProcOf[c], bin[c]>>}
      BY <1>5 DEF PrepareFails
    <2>2. /\ pc'[c] = "idle"
          /\ \A d \in Caller : d # c => pc'[d] = pc[d] /\ bin'[d] = bin[d]
      BY <2>1, OverEffect DEF TypeInv
    <2>3. HolderInv'
      BY <2>1, <2>2 DEF WaitInv, HolderInv
    <2>4. LeaderInv'
      BY <2>1, <2>2 DEF WaitInv, LeaderInv
    <2> QED
      BY <2>3, <2>4 DEF WaitInv
  <1>6. ASSUME NEW c \in Caller, AcquireOuter(c) \/ AcquireInner(c)
        PROVE  WaitInv'
    <2>1. /\ lock[bin[c]] = None /\ lock' = [lock EXCEPT ![bin[c]] = c]
          /\ UNCHANGED <<bin, leader, lost>> /\ pc[c] \in {"outer", "inner"}
          /\ \E l \in AtWork : pc' = [pc EXCEPT ![c] = l]
      BY <1>6 DEF AcquireOuter, AcquireInner
    <2>2. /\ bin[c] \in Binary /\ pc'[c] \in AtWork
          /\ \A d \in Caller : d # c => pc'[d] = pc[d]
          /\ lock'[bin[c]] = c /\ \A b \in Binary : b # bin[c] => lock'[b] = lock[b]
      BY <2>1 DEF TypeInv, TypeOK, Placed
    <2>3. HolderInv'
      BY <2>1, <2>2 DEF WaitInv, HolderInv
    <2>4. LeaderInv'
      BY <2>1, <2>2 DEF WaitInv, LeaderInv
    <2> QED
      BY <2>3, <2>4 DEF WaitInv
  \* A call that returns takes its followers along, and keeps no lock.
  <1>7. ASSUME NEW c \in Caller, pc[c] \in AtWork, Return(c), lost' = lost
        PROVE  WaitInv'
    <2>1. bin[c] \in Binary /\ ProcOf[c] \in Process
      BY <1>7 DEF TypeInv, Placed
    <2>2. /\ \A b \in Binary : lock'[b] # c /\ (lock'[b] # None => lock'[b] = lock[b])
      <3>1. \A b \in Binary : lock[b] = c => b = bin[c]
        BY DEF WaitInv, HolderInv
      <3> QED
        BY <1>7, <2>1, <3>1 DEF Return, TypeInv, TypeOK
    <2>3. /\ pc'[c] = "idle"
          /\ \A d \in Caller : d # c => \/ d \in Followers(c) /\ pc'[d] = "idle"
                                        \/ d \notin Followers(c) /\ pc'[d] = pc[d] /\ bin'[d] = bin[d]
      <3>1. Over({c} \cup Followers(c))
        BY <1>7 DEF Return
      <3> QED
        BY <3>1, OverEffect DEF TypeInv
    <2>4. \A d \in Followers(c) : pc[d] = "follow"
      BY DEF Followers
    <2>5. HolderInv'
      BY <2>2, <2>3, <2>4 DEF WaitInv, HolderInv
    <2>6. /\ \A p \in Process, b \in Binary : p # ProcOf[c] \/ b # bin[c] => leader'[p][b] = leader[p][b]
          /\ leader'[ProcOf[c]][bin[c]] =
                 IF Leads(c) THEN None ELSE leader[ProcOf[c]][bin[c]]
      BY <1>7, <2>1 DEF Return, TypeInv, TypeOK
    <2>7. ASSUME NEW p \in Process, NEW b \in Binary, leader'[p][b] # None, <<p, b>> \notin lost'
          PROVE  /\ leader'[p][b] = leader[p][b] /\ leader[p][b] # c
                 /\ leader[p][b] \in Caller /\ leader[p][b] \notin Followers(c)
      <3>1. leader'[p][b] = leader[p][b]
        BY <2>6, <2>7
      <3>2. leader[p][b] \in Caller /\ pc[leader[p][b]] # "follow"
        BY <1>7, <2>7, <3>1 DEF WaitInv, LeaderInv
      <3>3. leader[p][b] # c
        BY <1>7, <2>6, <2>7, <3>1 DEF WaitInv, LeaderInv, Leads
      <3> QED
        BY <2>4, <3>1, <3>2, <3>3
    <2>8. ASSUME NEW d \in Caller, pc'[d] = "follow"
          PROVE  leader'[ProcOf[d]][bin'[d]] # None
      <3>1. d # c /\ d \notin Followers(c) /\ pc[d] = "follow" /\ bin'[d] = bin[d]
        BY <2>3, <2>8
      <3>2. leader[ProcOf[d]][bin[d]] # None /\ bin[d] \in Binary /\ ProcOf[d] \in Process
        BY <3>1 DEF WaitInv, LeaderInv, TypeInv, Placed
      <3>3. ~(Leads(c) /\ ProcOf[d] = ProcOf[c] /\ bin[d] = bin[c])
        BY <3>1 DEF Followers
      <3> QED
        BY <2>1, <2>6, <3>1, <3>2, <3>3
    <2>9. LeaderInv'
      BY <1>7, <2>3, <2>7, <2>8 DEF WaitInv, LeaderInv
    <2> QED
      BY <2>5, <2>9 DEF WaitInv
  \* A process that dies takes its locks and its table along.
  <1>8. ASSUME NEW p \in Process, Crash(p)
        PROVE  WaitInv'
    <2>1. \A d \in Caller : IF ProcOf[d] = p THEN pc'[d] = "idle"
                            ELSE pc'[d] = pc[d] /\ bin'[d] = bin[d]
      <3>1. Over({d \in Caller : ProcOf[d] = p})
        BY <1>8 DEF Crash
      <3> QED
        BY <3>1, OverEffect DEF TypeInv
    <2>2. \A b \in Binary : lock'[b] # None =>
              lock'[b] = lock[b] /\ (lock[b] \in Caller => ProcOf[lock[b]] # p)
      BY <1>8 DEF Crash
    <2>3. HolderInv'
      BY <2>1, <2>2 DEF WaitInv, HolderInv
    <2>4. /\ \A b \in Binary : leader'[p][b] = None
          /\ \A q \in Process, b \in Binary : q # p =>
                 leader'[q][b] = leader[q][b] /\ (<<q, b>> \in lost => <<q, b>> \in lost')
      BY <1>8 DEF Crash, TypeInv, TypeOK
    <2>5. ASSUME NEW q \in Process, NEW b \in Binary, leader'[q][b] # None, <<q, b>> \notin lost'
          PROVE  /\ leader'[q][b] \in Caller
                 /\ ProcOf[leader'[q][b]] = q /\ bin'[leader'[q][b]] = b
                 /\ pc'[leader'[q][b]] \in {"outer"} \cup AtWork
      <3>1. q # p /\ leader'[q][b] = leader[q][b] /\ <<q, b>> \notin lost
        BY <2>4, <2>5
      <3>2. /\ leader[q][b] \in Caller /\ ProcOf[leader[q][b]] = q /\ bin[leader[q][b]] = b
            /\ pc[leader[q][b]] \in {"outer"} \cup AtWork
        BY <2>5, <3>1 DEF WaitInv, LeaderInv
      <3> QED
        BY <2>1, <3>1, <3>2
    <2>6. ASSUME NEW d \in Caller, pc'[d] = "follow"
          PROVE  leader'[ProcOf[d]][bin'[d]] # None
      <3>1. ProcOf[d] # p /\ pc[d] = "follow" /\ bin'[d] = bin[d] /\ bin[d] \in Binary
            /\ ProcOf[d] \in Process
        BY <2>1, <2>6 DEF TypeInv, Placed
      <3>2. leader'[ProcOf[d]][bin[d]] = leader[ProcOf[d]][bin[d]]
        BY <2>4, <3>1
      <3>3. leader[ProcOf[d]][bin[d]] # None
        BY <3>1 DEF WaitInv, LeaderInv
      <3> QED
        BY <3>1, <3>2, <3>3
    <2>7. LeaderInv'
      BY <2>5, <2>6 DEF LeaderInv
    <2> QED
      BY <2>3, <2>7 DEF WaitInv
  <1>9. ASSUME NEW c \in Caller, Analyse(c) \/ RunEnds(c) \/ ImportEnds(c)
        PROVE  WaitInv'
    <2>1. \E l \in AtWork :
              /\ pc[c] \in AtWork
              /\ pc' = [pc EXCEPT ![c] = l] /\ UNCHANGED <<bin, lock, leader, lost>>
      BY <1>9 DEF Analyse, RunEnds, ImportEnds
    <2> QED
      BY <1>1, <2>1
  <1>10. ASSUME NEW c \in Caller, \/ RecheckHit(c) \/ Commit(c) \/ RunFails(c)
                                  \/ ImportFails(c) \/ ProcessEnds(c)
         PROVE  WaitInv'
    <2>1. pc[c] \in AtWork /\ Return(c) /\ lost' = lost
      BY <1>10 DEF RecheckHit, Commit, RunFails, ImportFails, ProcessEnds
    <2> QED
      BY <1>7, <2>1
  <1>11. ASSUME NEW c \in Caller, \/ GzfSaves(c) \/ GzfFails(c) \/ GzfBump(c)
                                  \/ GzfClear(c) \/ GzfLost(c)
                                  \/ AcquireGate(c) \/ RestoreEnds(c) \/ RestoreStops(c)
         PROVE  WaitInv'
    <2>1. /\ pc[c] \in {"gate", "restore", "script", "bump", "clear"}
          /\ UNCHANGED <<lock, leader, lost>>
          /\ \/ Over({c})
             \/ /\ bin' = bin
                /\ \E l \in {"restore", "script", "bump", "clear"} : pc' = [pc EXCEPT ![c] = l]
      BY <1>11 DEF GzfSaves, GzfFails, GzfBump, GzfClear, GzfLost, AcquireGate, RestoreEnds,
                   RestoreStops
    <2>2. /\ \A d \in Caller : d # c => pc'[d] = pc[d] /\ bin'[d] = bin[d]
          /\ pc'[c] # "follow"
      BY <2>1, OverEffect DEF TypeInv, TypeOK
    <2> QED
      BY <1>2, <2>1, <2>2
  <1>12. ASSUME UNCHANGED <<control, lost>>
         PROVE  WaitInv'
    BY <1>12 DEF control, WaitInv, HolderInv, LeaderInv
  <1> QED
    BY <1>3, <1>4, <1>5, <1>6, <1>8, <1>9, <1>10, <1>11, <1>12
       DEF Next, Acquire, CallStep, RestoreBegins, vars

\* Nobody waits for a call that is over: what TLC shows to end in CallEnds cannot
\* get stuck on a lock or a table entry that a failure or a crash left behind.
THEOREM WaitersHaveHolders == Spec => []WaitHasHolder
  <1>1. Init => Base /\ ProjectInv /\ GateInv /\ WaitInv
    BY ConstAssumption, InitGate DEF Init, WaitInv, HolderInv, LeaderInv
  <1>2. Base /\ ProjectInv /\ GateInv /\ WaitInv /\ [Next]_vars
            => (Base /\ ProjectInv /\ GateInv /\ WaitInv)'
    BY BaseStep, ProjectStep, GateStep, WaitStep DEF Base
  <1>3. Base /\ GateInv /\ WaitInv => WaitHasHolder
    <2> SUFFICES ASSUME TypeInv, GateInv, WaitInv, NEW c \in Caller
                 PROVE  WaitHasHolder!(c)
      BY DEF WaitHasHolder, Base
    <2> QED
      BY ConstAssumption DEF TypeInv, Placed, GateInv, WaitInv, HolderInv, LeaderInv
  <1> QED
    BY <1>1, <1>2, <1>3, PTL DEF Spec

-----------------------------------------------------------------------------
(* Cached analyses of archives *)

\* A script has changed b and has still to count.
Pending(b) == \E d \in Caller : pc[d] = "bump" /\ bin[d] = b

Excused(b) == b \in raced \/ faults > 0

\* What a caller at work on b has read: it ran on the current names, or what it
\* will store is not current, or a count is due.
ReadFresh(c, b) ==
    /\ pc[c] \in {"commit", "bump"} => stamp[c] <= rev[b]
    /\ pc[c] = "run" => saw[c] = names[b] \/ Pending(b)
    /\ (pc[c] = "commit" /\ stamp[c] = rev[b]) => saw[c] = names[b] \/ Pending(b)

CacheFresh(b) ==
    cache[b] # NoAnalysis =>
        /\ cache[b].stamp <= rev[b]
        /\ cache[b].stamp = rev[b] => cache[b].seen = names[b] \/ Pending(b)

Fresh(b) == Excused(b) \/ (CacheFresh(b) /\ \A c \in Caller : bin[c] = b => ReadFresh(c, b))
FreshInv == \A b \in Gzf : Fresh(b)

\* The caller c reads nothing that ReadFresh speaks of.
Aside(c) == pc'[c] \notin {"run", "commit", "bump"}
Same(c)  == pc'[c] = pc[c] /\ bin'[c] = bin[c] /\ saw'[c] = saw[c] /\ stamp'[c] = stamp[c]

\* A step that changes neither archive nor counter keeps Fresh if it stores no
\* analysis and every caller goes on as it was or leaves.
LEMMA FreshFrame ==
    ASSUME NEW b \in Gzf, Fresh(b), UNCHANGED <<names, rev, raced>>,
           faults' = faults \/ faults' > 0,
           cache'[b] \in {cache[b], NoAnalysis},
           \A c \in Caller : Same(c) \/ Aside(c),
           Pending(b) => Pending(b)' \/ faults' > 0
    PROVE  Fresh(b)'
  <1>1. CASE Excused(b) \/ faults' > 0
    BY <1>1 DEF Fresh, Excused
  <1>2. CASE ~Excused(b) /\ ~(faults' > 0)
    <2>1. CacheFresh(b)'
      BY <1>2 DEF Fresh, CacheFresh
    <2>2. ASSUME NEW c \in Caller, bin'[c] = b
          PROVE  ReadFresh(c, b)'
      BY <1>2, <2>2 DEF Fresh, ReadFresh, Same, Aside
    <2> QED
      BY <2>1, <2>2 DEF Fresh
  <1> QED
    BY <1>1, <1>2

LEMMA FreshStep ==
    ASSUME TypeInv, FreshInv, [Next]_vars, NEW b \in Gzf
    PROVE  Fresh(b)'
  <1> USE ConstAssumption DEF Goto, project, read
  <1>a. Fresh(b) /\ b \in Binary
    BY DEF FreshInv, Binary
  <1>b. faults \in Nat
    BY DEF TypeInv, TypeOK
  \* Pending survives when no caller leaves "bump".
  <1>c. ASSUME \A c \in Caller : pc[c] = "bump" => Same(c)
        PROVE  Pending(b) => Pending(b)'
    BY <1>c DEF Pending, Same
  <1>1. ASSUME NEW c \in Caller, pc[c] # "bump", NEW l \in PC \ {"run", "commit", "bump"},
               pc' = [pc EXCEPT ![c] = l], \A d \in Caller \ {c} : bin'[d] = bin[d],
               \A d \in Caller \ {c} : saw'[d] = saw[d] /\ stamp'[d] = stamp[d],
               cache'[b] \in {cache[b], NoAnalysis}, UNCHANGED <<names, rev, raced, faults>>
        PROVE  Fresh(b)'
    <2>1. pc' \in [Caller -> PC] /\ \A d \in Caller : d # c => Same(d)
      BY <1>1 DEF Same, TypeInv, TypeOK, PC
    <2>2. Aside(c)
      BY <1>1 DEF Aside, TypeInv, TypeOK
    <2> QED
      BY <1>a, <1>c, <1>1, <2>1, <2>2, FreshFrame
  <1>2. ASSUME NEW S \in SUBSET Caller, Over(S), cache'[b] \in {cache[b], NoAnalysis},
               UNCHANGED <<names, rev, raced>>,
               faults' = faults \/ faults' > 0,
               faults' > 0 \/ \A d \in S : pc[d] # "bump"
        PROVE  Fresh(b)'
    <2>1. \A d \in Caller : IF d \in S THEN pc'[d] = "idle" ELSE Same(d)
      BY <1>2, OverEffect DEF Same, TypeInv
    <2>2. \A d \in Caller : Same(d) \/ Aside(d)
      BY <2>1 DEF Aside
    <2>3. Pending(b) => Pending(b)' \/ faults' > 0
      BY <1>c, <1>2, <2>1
    <2> QED
      BY <1>a, <1>2, <2>2, <2>3, FreshFrame
  <1>3. ASSUME NEW c \in Caller, Begin(c)
        PROVE  Fresh(b)'
    <2>1. PICK e \in Binary : \/ EnsureMiss(c, e)
                              \/ \E force \in BOOLEAN : Worker(c, e, force)
                              \/ GzfScript(c, e) \/ Script(c, e)
      BY <1>3 DEF Begin
    <2>2. /\ pc[c] = "idle" /\ bin' = [bin EXCEPT ![c] = e]
          /\ UNCHANGED <<saw, stamp, names, rev, raced, faults>>
          /\ \E l \in PC \ {"run", "commit", "bump"} : pc' = [pc EXCEPT ![c] = l]
      BY <2>1 DEF EnsureMiss, Worker, GzfScript, Script, PC
    <2>3. cache' = cache \/ cache' = [cache EXCEPT ![e] = NoAnalysis]
      BY <2>1 DEF EnsureMiss, Worker, GzfScript, Script
    <2>4. cache'[b] \in {cache[b], NoAnalysis}
      BY <1>a, <2>3 DEF TypeInv, TypeOK
    <2>5. \A d \in Caller \ {c} : bin'[d] = bin[d]
      BY <2>2 DEF TypeInv, TypeOK
    <2> QED
      BY <1>1, <2>2, <2>4, <2>5
  <1>4. ASSUME NEW c \in Caller,
               \/ Lead(c) \/ AcquireOuter(c) \/ AcquireInner(c) \/ AcquireGate(c)
               \/ RestoreEnds(c) \/ ImportEnds(c) \/ (Analyse(c) /\ ~InProcessMode(c))
        PROVE  Fresh(b)'
    <2>1. /\ pc[c] # "bump" /\ UNCHANGED <<bin, saw, stamp, names, rev, raced, cache, faults>>
          /\ \E l \in PC \ {"run", "commit", "bump"} : pc' = [pc EXCEPT ![c] = l]
      BY <1>4 DEF Lead, AcquireOuter, AcquireInner, AcquireGate, RestoreEnds, ImportEnds,
                  Analyse, PC
    <2> QED
      BY <1>1, <2>1
  <1>5. ASSUME NEW c \in Caller,
               \/ PrepareFails(c) \/ RestoreStops(c) \/ GzfLost(c) \/ GzfClear(c)
               \/ RecheckHit(c) \/ RunFails(c) \/ ProcessEnds(c) \/ ImportFails(c)
        PROVE  Fresh(b)'
    <2>1. {c} \in SUBSET Caller /\ {c} \cup Followers(c) \in SUBSET Caller
      BY DEF Followers
    <2>2. cache' = cache \/ cache' = [cache EXCEPT ![bin[c]] = NoAnalysis]
      BY <1>5 DEF PrepareFails, RestoreStops, GzfLost, GzfClear, RecheckHit, RunFails,
                  ProcessEnds, ImportFails
    <2>3. cache'[b] \in {cache[b], NoAnalysis}
      BY <1>a, <2>2 DEF TypeInv, TypeOK
    <2>4. UNCHANGED <<names, rev, raced>> /\ (faults' = faults \/ faults' > 0)
      BY <1>5, <1>b DEF PrepareFails, RestoreStops, GzfLost, GzfClear, RecheckHit, RunFails,
                  ProcessEnds, ImportFails, Fault
    <2>5. CASE PrepareFails(c) \/ RestoreStops(c) \/ GzfLost(c) \/ GzfClear(c)
      <3>1. Over({c}) /\ (faults' > 0 \/ pc[c] # "bump")
        BY <1>b, <2>5 DEF PrepareFails, RestoreStops, GzfLost, GzfClear, Fault
      <3> QED
        BY <1>2, <2>1, <2>3, <2>4, <3>1
    <2>6. CASE RecheckHit(c) \/ RunFails(c) \/ ProcessEnds(c) \/ ImportFails(c)
      <3>1. Over({c} \cup Followers(c)) /\ \A d \in {c} \cup Followers(c) : pc[d] # "bump"
        BY <2>6 DEF RecheckHit, RunFails, ProcessEnds, ImportFails, Return, Followers
      <3> QED
        BY <1>2, <2>1, <2>3, <2>4, <3>1
    <2> QED
      BY <1>5, <2>5, <2>6
  <1>6. ASSUME NEW c \in Caller, Analyse(c), InProcessMode(c)
        PROVE  Fresh(b)'
    <2>1. /\ pc' = [pc EXCEPT ![c] = "run"] /\ saw' = [saw EXCEPT ![c] = names[bin[c]]]
          /\ UNCHANGED <<bin, stamp, names, rev, raced, cache, faults>> /\ pc[c] = "recheck"
      BY <1>6 DEF Analyse
    <2>2. \A d \in Caller \ {c} : Same(d)
      BY <2>1 DEF Same, TypeInv, TypeOK
    <2>3. Pending(b) => Pending(b)'
      BY <1>c, <2>1, <2>2
    <2>4. CASE Excused(b)
      BY <2>1, <2>4 DEF Fresh, Excused
    <2>5. CASE ~Excused(b)
      <3>1. CacheFresh(b)'
        BY <1>a, <2>1, <2>3, <2>5 DEF Fresh, CacheFresh
      <3>2. ASSUME NEW d \in Caller, d # c, bin'[d] = b
            PROVE  ReadFresh(d, b)'
        BY <1>a, <2>1, <2>2, <2>3, <2>5, <3>2 DEF Fresh, ReadFresh, Same
      <3>3. bin'[c] = b => ReadFresh(c, b)'
        BY <2>1 DEF ReadFresh, TypeInv, TypeOK
      <3> QED
        BY <3>1, <3>2, <3>3 DEF Fresh
    <2> QED
      BY <2>4, <2>5
  <1>7. ASSUME NEW c \in Caller, RunEnds(c)
        PROVE  Fresh(b)'
    <2>1. /\ pc' = [pc EXCEPT ![c] = "commit"] /\ stamp' = [stamp EXCEPT ![c] = rev[bin[c]]]
          /\ UNCHANGED <<bin, saw, names, rev, raced, cache, faults>> /\ pc[c] = "run"
      BY <1>7 DEF RunEnds
    <2>2. \A d \in Caller \ {c} : Same(d)
      BY <2>1 DEF Same, TypeInv, TypeOK
    <2>3. Pending(b) => Pending(b)'
      BY <1>c, <2>1, <2>2
    <2>4. CASE Excused(b)
      BY <2>1, <2>4 DEF Fresh, Excused
    <2>5. CASE ~Excused(b)
      <3>1. CacheFresh(b)'
        BY <1>a, <2>1, <2>3, <2>5 DEF Fresh, CacheFresh
      <3>2. ASSUME NEW d \in Caller, d # c, bin'[d] = b
            PROVE  ReadFresh(d, b)'
        BY <1>a, <2>1, <2>2, <2>3, <2>5, <3>2 DEF Fresh, ReadFresh, Same
      <3>3. ASSUME bin'[c] = b
            PROVE  ReadFresh(c, b)'
        <4>1. rev[b] \in Nat /\ stamp'[c] = rev[b] /\ pc'[c] = "commit"
          BY <2>1, <3>3 DEF TypeInv, TypeOK
        <4>2. saw[c] = names[b] \/ Pending(b)
          BY <1>a, <2>1, <2>5, <3>3 DEF Fresh, ReadFresh
        <4> QED
          BY <2>1, <2>3, <4>1, <4>2 DEF ReadFresh
      <3> QED
        BY <3>1, <3>2, <3>3 DEF Fresh
    <2> QED
      BY <2>4, <2>5
  <1>8. ASSUME NEW c \in Caller, Commit(c)
        PROVE  Fresh(b)'
    <2>1. /\ pc[c] = "commit" /\ UNCHANGED <<names, rev, raced, faults>>
          /\ Over({c} \cup Followers(c))
          /\ cache' = [cache EXCEPT ![bin[c]] = [seen |-> saw[c], stamp |-> stamp[c]]]
      BY <1>8 DEF Commit, Return
    <2>2. CASE bin[c] # b
      <3>1. cache'[b] = cache[b]
        BY <1>a, <2>1, <2>2 DEF TypeInv, TypeOK
      <3>2. {c} \cup Followers(c) \in SUBSET Caller
            /\ \A d \in {c} \cup Followers(c) : pc[d] # "bump"
        BY <2>1 DEF Followers
      <3> QED
        BY <1>2, <2>1, <3>1, <3>2
    <2>3. CASE bin[c] = b
      <3>1. \A d \in Caller : Same(d) \/ pc'[d] = "idle"
        BY <2>1, OverEffect DEF Same, TypeInv
      <3>2. \A d \in Caller : pc[d] = "bump" => Same(d)
        BY <2>1, OverEffect DEF Same, TypeInv, Followers
      <3>3. Pending(b) => Pending(b)'
        BY <1>c, <3>2
      <3>4. CASE Excused(b)
        BY <2>1, <3>4 DEF Fresh, Excused
      <3>5. CASE ~Excused(b)
        <4>1. cache'[b] = [seen |-> saw[c], stamp |-> stamp[c]]
          BY <1>a, <2>1, <2>3 DEF TypeInv, TypeOK
        <4>2. ReadFresh(c, b)
          BY <1>a, <2>3, <3>5 DEF Fresh
        <4>3. CacheFresh(b)'
          BY <2>1, <3>3, <4>1, <4>2 DEF ReadFresh, CacheFresh
        <4>4. ASSUME NEW d \in Caller, bin'[d] = b
              PROVE  ReadFresh(d, b)'
          BY <1>a, <2>1, <3>1, <3>3, <3>5, <4>4 DEF Fresh, ReadFresh, Same
        <4> QED
          BY <4>3, <4>4 DEF Fresh
      <3> QED
        BY <3>4, <3>5
    <2> QED
      BY <2>2, <2>3
  <1>9. ASSUME NEW c \in Caller, GzfSaves(c)
        PROVE  Fresh(b)'
    <2>1. /\ pc[c] = "script" /\ pc' = [pc EXCEPT ![c] = "bump"]
          /\ stamp' = [stamp EXCEPT ![c] = rev[bin[c]]]
          /\ names' = [names EXCEPT ![bin[c]] = @ + 1]
          /\ UNCHANGED <<bin, saw, rev, raced, cache, faults>>
      BY <1>9 DEF GzfSaves
    <2>2. \A d \in Caller \ {c} : Same(d)
      BY <2>1 DEF Same, TypeInv, TypeOK
    <2>3. Pending(b) => Pending(b)'
      BY <1>c, <2>1, <2>2
    <2>4. bin[c] = b => Pending(b)'
      BY <2>1 DEF Pending, TypeInv, TypeOK
    <2>5. bin[c] # b => names'[b] = names[b]
      BY <2>1 DEF TypeInv, TypeOK
    <2>6. CASE Excused(b)
      BY <2>1, <2>6 DEF Fresh, Excused
    <2>7. CASE ~Excused(b)
      <3>1. CacheFresh(b)'
        BY <1>a, <2>1, <2>3, <2>4, <2>5, <2>7 DEF Fresh, CacheFresh
      <3>2. ASSUME NEW d \in Caller, d # c, bin'[d] = b
            PROVE  ReadFresh(d, b)'
        BY <1>a, <2>1, <2>2, <2>3, <2>4, <2>5, <2>7, <3>2 DEF Fresh, ReadFresh, Same
      <3>3. bin'[c] = b => ReadFresh(c, b)'
        BY <2>1, <2>4 DEF ReadFresh, TypeInv, TypeOK
      <3> QED
        BY <3>1, <3>2, <3>3 DEF Fresh
    <2> QED
      BY <2>6, <2>7
  <1>10. ASSUME NEW c \in Caller, GzfBump(c)
         PROVE  Fresh(b)'
    <2>1. /\ pc[c] = "bump" /\ pc' = [pc EXCEPT ![c] = "clear"]
          /\ rev' = [rev EXCEPT ![bin[c]] = stamp[c] + 1]
          /\ raced' = IF Unnoticed(c) THEN raced \cup {bin[c]} ELSE raced
          /\ UNCHANGED <<bin, saw, stamp, names, cache, faults>>
      BY <1>10 DEF GzfBump
    <2>2. \A d \in Caller \ {c} : Same(d)
      BY <2>1 DEF Same, TypeInv, TypeOK
    <2>3. CASE Excused(b)
      BY <2>1, <2>3 DEF Fresh, Excused
    <2>4. CASE ~Excused(b) /\ bin[c] # b
      <3>1. Pending(b) => Pending(b)'
        BY <2>1, <2>2, <2>4 DEF Pending, Same
      <3>2. rev'[b] = rev[b]
        BY <2>1, <2>4 DEF TypeInv, TypeOK
      <3>3. CacheFresh(b)'
        BY <1>a, <2>1, <2>4, <3>1, <3>2 DEF Fresh, CacheFresh
      <3>4. ASSUME NEW d \in Caller, bin'[d] = b
            PROVE  ReadFresh(d, b)'
        BY <1>a, <2>1, <2>2, <2>4, <3>1, <3>2, <3>4 DEF Fresh, ReadFresh, Same
      <3> QED
        BY <3>3, <3>4 DEF Fresh
    <2>5. CASE ~Excused(b) /\ bin[c] = b
      <3>1. CASE Unnoticed(c)
        BY <2>1, <2>5, <3>1 DEF Fresh, Excused
      <3>2. CASE ~Unnoticed(c)
        <4>1. /\ rev[b] = stamp[c] /\ rev[b] \in Nat
              /\ \A d \in Caller : pc[d] = "run" /\ bin[d] = b => saw[d] = names[b]
          BY <2>5, <3>2 DEF Unnoticed, TypeInv, TypeOK
        <4>2. rev'[b] = rev[b] + 1
          BY <2>1, <2>5, <4>1 DEF TypeInv, TypeOK
        <4>3. CacheFresh(b)'
          <5>1. cache[b] # NoAnalysis => cache[b].stamp \in Nat /\ cache[b].stamp <= rev[b]
            BY <1>a, <2>5 DEF Fresh, CacheFresh, Analysis, TypeInv, TypeOK
          <5> QED
            BY <2>1, <4>1, <4>2, <5>1 DEF CacheFresh
        <4>4. ASSUME NEW d \in Caller, bin'[d] = b
              PROVE  ReadFresh(d, b)'
          <5>1. d # c => ReadFresh(d, b) /\ Same(d) /\ stamp[d] \in Nat
            BY <1>a, <2>1, <2>2, <2>5, <4>4 DEF Fresh, TypeInv, TypeOK
          <5>2. CASE d # c
            BY <2>1, <4>1, <4>2, <4>4, <5>1, <5>2 DEF ReadFresh, Same
          <5>3. CASE d = c
            BY <2>1, <5>3 DEF ReadFresh, TypeInv, TypeOK
          <5> QED
            BY <5>2, <5>3
        <4> QED
          BY <4>3, <4>4 DEF Fresh
      <3> QED
        BY <3>1, <3>2
    <2> QED
      BY <2>3, <2>4, <2>5
  <1>11. ASSUME NEW p \in Process, Crash(p)
         PROVE  Fresh(b)'
    <2>1. faults' > 0
      BY <1>11, <1>b DEF Crash, Fault
    <2> QED
      BY <2>1 DEF Fresh, Excused
  <1>12. ASSUME UNCHANGED <<control, project, cache, read, faults>>
         PROVE  Fresh(b)'
    BY <1>a, <1>c, <1>12, FreshFrame DEF control, Same
  \* What a failed script has saved is excused from then on.
  <1>13. ASSUME NEW c \in Caller, GzfFails(c)
         PROVE  Fresh(b)'
    <2>1. /\ pc[c] = "script" /\ bin[c] \in Gzf /\ Over({c}) /\ UNCHANGED <<rev, cache, faults>>
          /\ \/ UNCHANGED <<names, raced>>
             \/ names' = [names EXCEPT ![bin[c]] = @ + 1] /\ raced' = raced \cup {bin[c]}
      BY <1>13 DEF GzfFails, TypeInv, Placed
    <2>2. CASE UNCHANGED <<names, raced>>
      BY <1>2, <2>1, <2>2
    <2>3. CASE names' = [names EXCEPT ![bin[c]] = @ + 1] /\ raced' = raced \cup {bin[c]}
      <3>1. CASE b \in raced' \/ faults > 0
        BY <2>1, <3>1 DEF Fresh, Excused
      <3>2. CASE b \notin raced' /\ ~(faults > 0)
        <4>1. names'[b] = names[b] /\ ~Excused(b)
          BY <2>3, <3>2 DEF TypeInv, TypeOK, Excused
        <4>2. \A d \in Caller : IF d = c THEN pc'[d] = "idle" ELSE Same(d)
          BY <2>1, OverEffect DEF Same, TypeInv
        <4>3. Pending(b) => Pending(b)'
          BY <1>c, <2>1, <4>2
        <4>4. CacheFresh(b)'
          BY <1>a, <2>1, <4>1, <4>3 DEF Fresh, CacheFresh
        <4>5. ASSUME NEW d \in Caller, bin'[d] = b
              PROVE  ReadFresh(d, b)'
          BY <1>a, <2>1, <4>1, <4>2, <4>3, <4>5 DEF Fresh, ReadFresh, Same
        <4> QED
          BY <4>4, <4>5 DEF Fresh
      <3> QED
        BY <3>1, <3>2
    <2> QED
      BY <2>1, <2>2, <2>3
  <1>14. ASSUME NEW c \in Caller, Acquire(c) \/ CallStep(c)
         PROVE  Fresh(b)'
    BY <1>4, <1>5, <1>6, <1>7, <1>8, <1>9, <1>10, <1>12, <1>13, <1>14
       DEF Acquire, CallStep, RestoreBegins
  <1> QED
    BY <1>3, <1>5, <1>11, <1>12, <1>14 DEF Next, vars

\* A cached analysis of an archive that counts as current shows the current names,
\* apart from the two races and the losses that FreshUnlessRaced names.
THEOREM CurrentIsFresh == Spec => []FreshUnlessRaced
  <1>1. Init => Base /\ FreshInv
    <2> SUFFICES ASSUME Init, NEW b \in Gzf
                 PROVE  Fresh(b)
      BY InitBase DEF FreshInv
    <2>1. cache[b] = NoAnalysis /\ \A c \in Caller : pc[c] = "idle"
      BY DEF Init, Binary
    <2> QED
      BY <2>1 DEF Fresh, CacheFresh, ReadFresh
  <1>2. Base /\ FreshInv /\ [Next]_vars => (Base /\ FreshInv)'
    BY BaseStep, FreshStep DEF Base, FreshInv
  <1>3. FreshInv => FreshUnlessRaced
    BY DEF FreshInv, Fresh, CacheFresh, Excused, Pending, FreshUnlessRaced
  <1> QED
    BY <1>1, <1>2, <1>3, PTL DEF Spec

-----------------------------------------------------------------------------
(* The YAML loader *)

\* The versions written so far are those that have a time; a call that has
\* stat'ed one is under way.
YamlTypeInv ==
    /\ YamlTypeOK
    /\ valid \subseteq 1 .. saved
    /\ cursor \in 0 .. saved
    /\ \A v \in 1 .. saved : mtime[v] \in 1 .. saved
    /\ call = "reload" <=> seen # 0

\* Nothing else has had the time of version v.
Alone(v) == /\ mtime[v] \notin smeared
            /\ \A w \in 1 .. saved : mtime[w] = mtime[v] => w = v

\* A cursor that names one version stands for it: if it is valid it is what is
\* served, and if it is not served there is a warning.  What a call has stat'ed
\* is still there as long as nobody has acted.
CursorInv ==
    /\ \A v \in 1 .. saved :
           (loaded /\ cursor = mtime[v] /\ Alone(v)) =>
               /\ v \in valid => cached = v
               /\ cached = v \/ warning
    /\ (call = "reload" /\ calm) => seen = disk

YamlInv == YamlTypeInv /\ CursorInv /\ FreshWithinOneCall /\ FallbackIsReported

LEMMA YamlInvInit == YamlInit => YamlInv
  <1> SUFFICES ASSUME YamlInit PROVE YamlInv
    OBVIOUS
  <1>1. loaded \in BOOLEAN /\ warning \in BOOLEAN /\ calm \in BOOLEAN /\ ~calm /\ ~loaded
    BY Zenon DEF YamlInit
  <1>2. YamlTypeInv
    BY <1>1, YamlAssumption DEF YamlInit, YamlTypeInv, YamlTypeOK, Version
  <1> QED
    BY <1>1, <1>2 DEF YamlInit, YamlInv, CursorInv, FreshWithinOneCall,
                     FallbackIsReported, Answered

\* The flags stay Boolean.
LEMMA YamlFlags ==
    ASSUME YamlTypeOK, [YamlNext]_yamlVars
    PROVE  loaded' \in BOOLEAN /\ warning' \in BOOLEAN /\ calm' \in BOOLEAN
  <1> USE DEF YamlTypeOK, file, loader
  <1>1. CASE Hit \/ Stat \/ HandleMissing
    BY <1>1, Zenon DEF Hit, Stat, HandleMissing
  <1>2. CASE StatFails \/ Undecodable \/ cache_clear
    BY <1>2, Zenon DEF StatFails, Undecodable, cache_clear
  <1>3. CASE Accept \/ Reject \/ ReadFails
    BY <1>3, Zenon DEF Accept, Reject, ReadFails
  <1>4. CASE \/ \E ok, tick \in BOOLEAN : Save(ok, tick)
             \/ \E v \in 0 .. MaxSave : Move(v)
    BY <1>4, Zenon DEF Save, Move
  <1>5. CASE UNCHANGED yamlVars
    BY <1>5, Zenon DEF yamlVars
  <1> QED
    BY <1>1, <1>2, <1>3, <1>4, <1>5 DEF YamlNext

\* The end of a reload: the cursor is the time that was stat'ed, and one under
\* which something else was read is on record.
LEMMA ReloadEffect ==
    ASSUME YamlTypeInv, call = "reload",
           NEW wrong \in BOOLEAN, Reloaded(wrong)
    PROVE  /\ seen \in 1 .. saved /\ cursor' = mtime[seen] /\ mtime[seen] \in 1 .. saved
           /\ smeared' \subseteq 0 .. MaxSave /\ smeared \subseteq smeared'
           /\ wrong => mtime[seen] \in smeared'
           /\ call' = "idle" /\ seen' = 0
           /\ saved' = saved /\ mtime' = mtime /\ valid' = valid /\ disk' = disk
  <1> USE YamlAssumption DEF YamlTypeInv, YamlTypeOK
  <1>1. seen \in 1 .. saved /\ mtime[seen] \in 1 .. saved /\ saved \in 0 .. MaxSave
    OBVIOUS
  <1>2. mtime[seen] \in 0 .. MaxSave
    BY <1>1
  <1>3. smeared' = smeared \cup {mtime[seen]} \/ (~wrong /\ smeared' = smeared)
    BY DEF Reloaded
  <1> QED
    BY <1>1, <1>2, <1>3 DEF Reloaded, file

LEMMA ReloadTypes ==
    ASSUME YamlTypeInv, call = "reload",
           NEW wrong \in BOOLEAN, Reloaded(wrong),
           loaded' \in BOOLEAN, warning' \in BOOLEAN, calm' \in BOOLEAN,
           cached' \in valid \cup {0}, loaded' <=> cached' # 0, ioErrors' \in 0 .. MaxIOError
    PROVE  YamlTypeInv'
  <1> USE YamlAssumption DEF YamlTypeInv, YamlTypeOK, Version
  <1>1. /\ cursor' \in 1 .. saved /\ smeared' \subseteq 0 .. MaxSave
        /\ call' = "idle" /\ seen' = 0
        /\ saved' = saved /\ mtime' = mtime /\ valid' = valid /\ disk' = disk
    BY ReloadEffect
  <1>2. cursor' \in 0 .. saved /\ cursor' \in 0 .. MaxSave /\ 0 \in 0 .. saved
    BY <1>1
  <1>3. YamlTypeOK'
    BY <1>1, <1>2
  <1>4. (call' = "reload") <=> (seen' # 0)
    BY <1>1
  <1> QED
    BY <1>1, <1>2, <1>3, <1>4

LEMMA YamlTypeStep ==
    ASSUME YamlTypeInv, [YamlNext]_yamlVars
    PROVE  YamlTypeInv'
  <1> USE YamlAssumption DEF YamlTypeInv, YamlTypeOK, Version, file, loader
  <1>0. loaded' \in BOOLEAN /\ warning' \in BOOLEAN /\ calm' \in BOOLEAN
    BY YamlFlags DEF YamlTypeInv
  <1>1. CASE Hit
    BY <1>0, <1>1 DEF Hit
  <1>2. CASE Stat
    BY <1>0, <1>2 DEF Stat
  <1>3. CASE HandleMissing
    BY <1>0, <1>3 DEF HandleMissing
  <1>4. CASE StatFails
    BY <1>0, <1>4 DEF StatFails, IOFails
  <1>5. CASE Undecodable
    BY <1>0, <1>5 DEF Undecodable
  <1>6. CASE cache_clear
    BY <1>0, <1>6 DEF cache_clear
  <1>7. CASE Accept
    <2>1. call = "reload" /\ (disk # seen) \in BOOLEAN /\ Reloaded(disk # seen)
      BY <1>7 DEF Accept
    <2>2. cached' \in valid \cup {0} /\ (loaded' <=> cached' # 0) /\ ioErrors' \in 0 .. MaxIOError
      BY <1>7 DEF Accept
    <2> QED
      BY <1>0, <2>1, <2>2, ReloadTypes
  <1>8. CASE Reject
    <2>1. call = "reload" /\ (disk # seen) \in BOOLEAN /\ Reloaded(disk # seen)
      BY <1>8 DEF Reject
    <2>2. cached' \in valid \cup {0} /\ (loaded' <=> cached' # 0) /\ ioErrors' \in 0 .. MaxIOError
      BY <1>8 DEF Reject
    <2> QED
      BY <1>0, <2>1, <2>2, ReloadTypes
  <1>9. CASE ReadFails
    <2>1. call = "reload" /\ TRUE \in BOOLEAN /\ Reloaded(TRUE)
      BY <1>9, Zenon DEF ReadFails
    <2>2. cached' \in valid \cup {0} /\ (loaded' <=> cached' # 0) /\ ioErrors' \in 0 .. MaxIOError
      BY <1>9 DEF ReadFails, IOFails
    <2> QED
      BY <1>0, <2>1, <2>2, ReloadTypes
  <1>10. ASSUME NEW ok \in BOOLEAN, NEW tick \in BOOLEAN, Save(ok, tick)
         PROVE  YamlTypeInv'
    <2>1. \A v \in 1 .. saved' : mtime'[v] \in 1 .. saved'
      BY <1>10 DEF Save
    <2>2. mtime' \in [Version -> 0 .. MaxSave]
      BY <1>10 DEF Save
    <2>3. valid' \subseteq 1 .. saved' /\ cached' \in valid' \cup {0}
      BY <1>10 DEF Save
    <2> QED
      BY <1>0, <1>10, <2>1, <2>2, <2>3 DEF Save
  <1>11. ASSUME NEW v \in 0 .. MaxSave, Move(v)
         PROVE  YamlTypeInv'
    BY <1>0, <1>11 DEF Move
  <1>12. CASE UNCHANGED yamlVars
    BY <1>0, <1>12 DEF yamlVars
  <1> QED
    BY <1>1, <1>2, <1>3, <1>4, <1>5, <1>6, <1>7, <1>8, <1>9, <1>10, <1>11, <1>12 DEF YamlNext

LEMMA YamlStep ==
    ASSUME YamlInv, [YamlNext]_yamlVars
    PROVE  YamlInv'
  <1> DEFINE Promise == FreshWithinOneCall /\ FallbackIsReported
  <1> USE DEF YamlTypeInv, YamlTypeOK, Version, file, loader
  <1>0. YamlTypeInv /\ YamlTypeInv' /\ CursorInv /\ Promise
    BY YamlTypeStep DEF YamlInv
  <1> SUFFICES CursorInv' /\ Promise'
    BY <1>0 DEF YamlInv
  <1> USE DEF FreshWithinOneCall, FallbackIsReported, Answered
  \* The fast path: the cursor names the file, which is served or ambiguous.
  <1>1. CASE Hit
    <2>1. disk \in 1 .. saved /\ loaded /\ cursor = mtime[disk]
      BY <1>0, <1>1 DEF Hit, Unchanged
    <2>2. ~Ambiguous => (disk \in valid => cached = disk) /\ (cached = disk \/ warning)
      <3>1. ~Ambiguous => Alone(disk)
        BY <2>1 DEF Ambiguous, Alone
      <3> QED
        BY <1>0, <2>1, <3>1 DEF CursorInv
    <2>3. CursorInv' /\ Ambiguous' = Ambiguous
      BY <1>0, <1>1 DEF Hit, CursorInv, Alone, Ambiguous
    <2> QED
      BY <1>1, <2>1, <2>2, <2>3 DEF Hit
  <1>2. CASE Stat
    BY <1>0, <1>2 DEF Stat, CursorInv, Alone
  <1>3. CASE HandleMissing
    <2>1. CursorInv'
      BY <1>0, <1>3 DEF HandleMissing, CursorInv, Alone
    <2>2. disk' = 0 /\ disk' \notin valid' /\ (cached' # 0 => warning')
      BY <1>0, <1>3 DEF HandleMissing
    <2> QED
      BY <2>1, <2>2
  <1>4. CASE StatFails \/ Undecodable \/ cache_clear
    <2>1. ~calm'
      BY <1>4 DEF StatFails, Undecodable, cache_clear
    <2> QED
      BY <1>0, <1>4, <2>1 DEF StatFails, Undecodable, cache_clear, CursorInv, Alone
  <1>5. CASE Accept
    <2>1. call = "reload" /\ (disk # seen) \in BOOLEAN /\ Reloaded(disk # seen)
      BY <1>5 DEF Accept
    <2>2. cached' = disk /\ disk \in 1 .. saved
      BY <1>0, <1>5 DEF Accept
    <2>3. ASSUME NEW v \in 1 .. saved', cursor' = mtime'[v], Alone(v)'
          PROVE  cached' = v
      BY <1>0, <2>1, <2>2, <2>3, ReloadEffect DEF Alone
    <2>4. call' = "idle" /\ valid' = valid /\ disk' = disk
      BY <1>0, <2>1, ReloadEffect
    <2>5. CursorInv'
      BY <2>2, <2>3, <2>4 DEF CursorInv
    <2> QED
      BY <2>2, <2>4, <2>5
  <1>6. CASE Reject
    <2>1. call = "reload" /\ (disk # seen) \in BOOLEAN /\ Reloaded(disk # seen)
      BY <1>6 DEF Reject
    <2>2. disk \notin valid /\ warning'
      BY <1>6 DEF Reject
    <2>3. ASSUME NEW v \in 1 .. saved', cursor' = mtime'[v], Alone(v)'
          PROVE  v = disk
      BY <1>0, <2>1, <2>3, ReloadEffect DEF Alone
    <2>4. call' = "idle" /\ valid' = valid /\ disk' = disk
      BY <1>0, <2>1, ReloadEffect
    <2>5. CursorInv'
      BY <2>2, <2>3, <2>4 DEF CursorInv
    <2> QED
      BY <2>2, <2>4, <2>5
  <1>7. CASE ReadFails
    <2>1. call = "reload" /\ TRUE \in BOOLEAN /\ Reloaded(TRUE)
      BY <1>7, Zenon DEF ReadFails
    <2>2. warning' /\ calm' = calm
      BY <1>7 DEF ReadFails
    <2>3. ASSUME NEW v \in 1 .. saved', cursor' = mtime'[v]
          PROVE  ~Alone(v)'
      BY <1>0, <2>1, <2>3, ReloadEffect DEF Alone
    <2>4. calm' => Ambiguous'
      BY <1>0, <2>1, <2>2, ReloadEffect DEF CursorInv, Ambiguous
    <2>5. call' = "idle"
      BY <1>0, <2>1, ReloadEffect
    <2>6. CursorInv'
      BY <2>3, <2>5 DEF CursorInv
    <2> QED
      BY <2>2, <2>4, <2>6
  \* A version with a time of its own has a later one than the cursor.
  <1>8. ASSUME NEW ok \in BOOLEAN, NEW tick \in BOOLEAN, Save(ok, tick)
        PROVE  CursorInv' /\ Promise'
    <2>1. /\ saved + 1 \in Version /\ saved' = saved + 1 /\ ~calm'
          /\ \A v \in 1 .. saved : mtime'[v] = mtime[v]
          /\ mtime'[saved + 1] = IF tick THEN saved + 1 ELSE mtime[saved]
          /\ ~tick => saved \in 1 .. saved
      BY <1>0, <1>8, YamlAssumption DEF Save
    <2>2. ASSUME NEW v \in 1 .. saved', loaded', cursor' = mtime'[v], Alone(v)'
          PROVE  (v \in valid' => cached' = v) /\ (cached' = v \/ warning')
      <3>1. /\ cursor' = cursor /\ smeared' = smeared /\ loaded' = loaded
            /\ cached' = cached /\ warning' = warning
        BY <1>8 DEF Save
      <3>2. tick => v # saved + 1
        <4>1. mtime'[v] \in 0 .. saved
          BY <1>0, <2>2, <3>1
        <4> QED
          BY <1>0, <2>1, <4>1
      <3>3. ~tick => v # saved + 1
        <4> SUFFICES ASSUME ~tick, v = saved + 1 PROVE FALSE
          OBVIOUS
        <4>1. saved \in 1 .. saved' /\ mtime'[saved] = mtime'[v]
          BY <1>0, <2>1
        <4>2. saved = v
          BY <2>2, <4>1 DEF Alone
        <4> QED
          BY <1>0, <4>2
      <3>4. v \in 1 .. saved
        BY <1>0, <2>1, <3>2, <3>3
      <3>5. mtime'[v] = mtime[v] /\ cursor = mtime[v]
        BY <2>1, <2>2, <3>1, <3>4
      <3>6. ASSUME NEW w \in 1 .. saved, mtime[w] = mtime[v]
            PROVE  w = v
        <4>1. w \in 1 .. saved' /\ mtime'[w] = mtime'[v]
          BY <1>0, <2>1, <3>5, <3>6
        <4> QED
          BY <2>2, <4>1 DEF Alone
      <3>7. Alone(v)
        BY <2>2, <3>1, <3>5, <3>6 DEF Alone
      <3>8. v \in valid' => v \in valid
        BY <1>0, <1>8, <3>4 DEF Save
      <3> QED
        BY <1>0, <2>2, <3>1, <3>4, <3>5, <3>7, <3>8 DEF CursorInv
    <2> QED
      BY <2>1, <2>2 DEF CursorInv
  <1>9. ASSUME NEW v \in 0 .. MaxSave, Move(v)
        PROVE  CursorInv' /\ Promise'
    BY <1>0, <1>9 DEF Move, CursorInv, Alone
  <1>10. CASE UNCHANGED yamlVars
    BY <1>0, <1>10 DEF yamlVars, CursorInv, Alone, Ambiguous
  <1> QED
    BY <1>1, <1>2, <1>3, <1>4, <1>5, <1>6, <1>7, <1>8, <1>9, <1>10 DEF YamlNext

\* Whatever happens to the file, the loader's state keeps its type, and what it
\* serves has parsed and passed validation or is the defaults.
THEOREM YamlTypes == YamlSpec => []YamlTypeOK
  <1>1. YamlInit => YamlTypeInv
    BY YamlInvInit DEF YamlInv
  <1>2. YamlTypeInv /\ [YamlNext]_yamlVars => YamlTypeInv'
    BY YamlTypeStep
  <1>3. YamlTypeInv => YamlTypeOK
    BY DEF YamlTypeInv
  <1> QED
    BY <1>1, <1>2, <1>3, PTL DEF YamlSpec

\* One call of get() after any history of edits, broken files, moves, failed calls
\* and clearings returns the valid file that is there, if its time is its own.
THEOREM YamlFresh == YamlSpec => []FreshWithinOneCall
  <1>1. YamlInit => YamlInv
    BY YamlInvInit
  <1>2. YamlInv /\ [YamlNext]_yamlVars => YamlInv'
    BY YamlStep
  <1>3. YamlInv => FreshWithinOneCall
    BY DEF YamlInv
  <1> QED
    BY <1>1, <1>2, <1>3, PTL DEF YamlSpec

\* A call that returns anything else leaves the warning that the operator sees.
THEOREM YamlReported == YamlSpec => []FallbackIsReported
  <1>1. YamlInit => YamlInv
    BY YamlInvInit
  <1>2. YamlInv /\ [YamlNext]_yamlVars => YamlInv'
    BY YamlStep
  <1>3. YamlInv => FallbackIsReported
    BY DEF YamlInv
  <1> QED
    BY <1>1, <1>2, <1>3, PTL DEF YamlSpec
=============================================================================
