-------------------------- MODULE DeviceDump_proofs --------------------------
(***************************************************************************)
(* Proofs about DeviceDump, for any set of dump sessions, any number of    *)
(* partitions and any number of crashes.                                   *)
(***************************************************************************)
EXTENDS DeviceDump, TLAPS

\* FinalStatus is a terminal status that a task may report.
LEMMA FinalStatusType ==
    ASSUME NEW d
    PROVE  FinalStatus(d) \in {"completed", "failed", "partial"}
  BY DEF FinalStatus

\* Marking the partition a task is at keeps the types of both lists.
LEMMA MarkType ==
    ASSUME TypeOK, NEW d \in Dump, NEW st \in Item, at[d] \in Part, Mark(d, st)
    PROVE  /\ mem' \in [Dump -> [Part -> Item]]
           /\ items' \in [Dump -> [Part -> Item]]
  <1> DEFINE new == [mem[d] EXCEPT ![at[d]] = st]
  <1>1. mem[d] \in [Part -> Item]
    BY DEF TypeOK
  <1>2. new \in [Part -> Item]
    BY <1>1
  <1>3. mem' = [mem EXCEPT ![d] = new]
    BY DEF Mark
  <1>4. items' = items
    BY DEF Mark, _persist_partitions, LoadedItems
  <1> HIDE DEF new
  <1> QED
    BY <1>2, <1>3, <1>4 DEF TypeOK

\* What an answer to the call of dump d may change.
AnsweredKeeps(d) ==
    /\ UNCHANGED <<status, reqVars, view, procVars>>
    /\ mem' \in [Dump -> [Part -> Item]]
    /\ items' \in [Dump -> [Part -> Item]]
    /\ pc[d] = "call" /\ pc' = [pc EXCEPT ![d] = "loop"]
    /\ at' \in [Dump -> 1 .. Parts + 1]
    /\ \A e \in Dump \ {d} : at'[e] = at[e]

\* A call that is answered keeps the types.
LEMMA AnsweredType ==
    ASSUME TypeOK, NEW d \in Dump, NEW st \in Item, Answered(d, st)
    PROVE  AnsweredKeeps(d)
  <1>1. pc[d] = "call" /\ at[d] \in Part
    BY DEF Answered, TypeOK
  <1>2. mem' \in [Dump -> [Part -> Item]] /\ items' \in [Dump -> [Part -> Item]]
    BY <1>1, MarkType DEF Answered
  <1>3. at' \in [Dump -> 1 .. Parts + 1] /\ \A e \in Dump \ {d} : at'[e] = at[e]
    BY <1>1, ConstAssumption DEF Answered, TypeOK, Part
  <1> QED
    BY <1>1, <1>2, <1>3 DEF Answered, AnsweredKeeps

\* Every step keeps TypeOK.
LEMMA TypeOKStep ==
    ASSUME TypeOK, [Next]_vars
    PROVE  TypeOK'
  <1> USE ConstAssumption DEF Active, Terminal, Item, PC
  <1>1. ASSUME NEW d \in Dump, find_active_dump(d) \/ RefuseDump(d) \/ CancelFails(d) \/ import_dump(d)
        PROVE  TypeOK'
    BY <1>1 DEF TypeOK, find_active_dump, RefuseDump, CancelFails, import_dump,
                reqVars, runVars, bridgeVars, procVars
  <1>2. ASSUME NEW d \in Dump, start_dump(d)
        PROVE  TypeOK'
    BY <1>2 DEF TypeOK, start_dump, bridgeVars, procVars
  <1>3. ASSUME NEW d \in Dump, NEW reached \in BOOLEAN, cancel_dump(d, reached)
        PROVE  TypeOK'
    BY <1>3 DEF TypeOK, cancel_dump, runVars, procVars
  <1>4. ASSUME NEW d \in Dump, CancelCommit(d)
        PROVE  TypeOK'
    BY <1>4 DEF TypeOK, CancelCommit, runVars, bridgeVars, procVars
  <1>5. ASSUME NEW d \in Dump, RunnerLoad(d)
        PROVE  TypeOK'
    BY <1>5 DEF TypeOK, RunnerLoad, reqVars, bridgeVars, procVars
  <1>15. ASSUME NEW d \in Dump, RunnerClaim(d)
        PROVE  TypeOK'
    BY <1>15 DEF TypeOK, RunnerClaim, reqVars, bridgeVars, procVars
  <1>6. ASSUME NEW d \in Dump, DumpPartition(d)
        PROVE  TypeOK'
    <2>1. at[d] \in Part
      BY <1>6 DEF DumpPartition, HasNext, TypeOK, Part
    <2>2. mem' \in [Dump -> [Part -> Item]] /\ items' \in [Dump -> [Part -> Item]]
      BY <1>6, <2>1, MarkType DEF DumpPartition
    <2> QED
      BY <1>6, <2>1, <2>2 DEF TypeOK, DumpPartition, reqVars, bridgeVars, procVars
  <1>7. ASSUME NEW d \in Dump, CallFails(d)
        PROVE  TypeOK'
    <2>1. Answered(d, "failed") /\ UNCHANGED bridgeVars
      BY <1>7 DEF CallFails
    <2>2. AnsweredKeeps(d)
      BY <2>1, AnsweredType
    <2> QED
      BY <2>1, <2>2 DEF TypeOK, AnsweredKeeps, reqVars, bridgeVars, procVars
  <1>8. ASSUME NEW d \in Dump, RunnerFinish(d)
        PROVE  TypeOK'
    <2>1. status' \in [Dump -> {"absent"} \cup Active \cup Terminal]
      BY <1>8, FinalStatusType DEF TypeOK, RunnerFinish
    <2>2. \A e \in Dump : status[e] # "absent" => status'[e] # "absent"
      BY <1>8, FinalStatusType DEF TypeOK, RunnerFinish
    <2> QED
      BY <1>8, <2>1, <2>2 DEF TypeOK, RunnerFinish, reqVars, bridgeVars, procVars
  <1>16. ASSUME NEW d \in Dump, RunnerRaises(d)
        PROVE  TypeOK'
    BY <1>16 DEF TypeOK, RunnerRaises, reqVars, bridgeVars, procVars
  <1>17. ASSUME NEW d \in Dump, RunnerLost(d)
        PROVE  TypeOK'
    BY <1>17 DEF TypeOK, RunnerLost, reqVars, bridgeVars, procVars
  <1>9. ASSUME NEW d \in Dump, BridgeAccept(d)
        PROVE  TypeOK'
    BY <1>9 DEF TypeOK, BridgeAccept, reqVars, runVars, procVars
  <1>10. ASSUME NEW s \in Stream, BridgeOpen(s)
         PROVE  TypeOK'
    BY <1>10 DEF TypeOK, BridgeOpen, reqVars, runVars, procVars
  <1>11. ASSUME NEW s \in Stream, BridgeComplete(s) \/ BridgeStops(s)
         PROVE  TypeOK'
    <2>1. /\ phase' \in [Stream -> {"idle", "sizing", "reading"}]
          /\ current' \in Stream \cup {None} /\ cancel' \in BOOLEAN
          /\ disk' \in [Stream -> {"none", "part", "read"}]
      BY <1>11 DEF TypeOK, BridgeComplete, BridgeStops, BridgeClose
    <2>2. s[1] \in Dump
      BY DEF Stream
    <2>3. CASE UNCHANGED <<status, items, reqVars, runVars, procVars>>
      BY <2>1, <2>3 DEF TypeOK, reqVars, runVars, procVars
    <2>4. CASE \E st \in Item : Answered(s[1], st)
      <3>1. AnsweredKeeps(s[1])
        BY <2>2, <2>4, AnsweredType
      <3> QED
        BY <2>1, <2>2, <3>1 DEF TypeOK, AnsweredKeeps, reqVars, procVars
    <2> QED
      BY <1>11, <2>3, <2>4 DEF BridgeComplete, BridgeStops
  <1>12. CASE Crash
    <2>1. /\ pc' \in [Dump -> PC]
          /\ \A d \in Dump : pc'[d] \in {"none", "exit"} /\ (pc[d] = "none" => pc'[d] = "none")
      BY <1>12 DEF Crash
    <2>2. crashes \in 0 .. MaxCrash
      BY DEF TypeOK
    <2>3. crashes < MaxCrash /\ crashes' = crashes + 1
      BY <1>12 DEF Crash
    <2>4. crashes' \in 0 .. MaxCrash
      BY <2>2, <2>3
    <2>5. up' \in BOOLEAN
      BY <1>12 DEF Crash
    <2>6. \A d \in Dump : pc'[d] # "none" => status'[d] # "absent"
      BY <1>12, <2>1 DEF TypeOK, Crash
    <2> QED
      BY <1>12, <2>1, <2>4, <2>5, <2>6 DEF TypeOK, Crash, bridgeVars
  <1>13. CASE Restart
    BY <1>13 DEF TypeOK, Restart, Reaped, reqVars, runVars, bridgeVars
  <1>14. CASE UNCHANGED vars
    BY <1>14 DEF TypeOK, vars, reqVars, runVars, bridgeVars, procVars
  <1> QED
    BY <1>1, <1>2, <1>3, <1>4, <1>5, <1>6, <1>7, <1>8, <1>9, <1>10, <1>11, <1>12,
       <1>13, <1>14, <1>15, <1>16, <1>17 DEF Next, RunnerStep, RunnerEnds

\* The types of the dump sessions hold in every reachable state.
THEOREM TypeCorrect == Spec => []TypeOK
  <1>1. Init => TypeOK
    <2> SUFFICES ASSUME Init PROVE TypeOK
      OBVIOUS
    <2>1. Pending \in [Part -> Item]
      BY DEF Pending, Item
    <2>2. items \in [Dump -> [Part -> Item]] /\ mem \in [Dump -> [Part -> Item]]
      BY <2>1 DEF Init
    <2> QED
      <3>1. at \in [Dump -> 1 .. Parts + 1] /\ crashes \in 0 .. MaxCrash
        BY ConstAssumption DEF Init
      <3>2. status \in [Dump -> {"absent"} \cup Active \cup Terminal] /\ view = status
        BY DEF Init
      <3>3. pc \in [Dump -> PC] /\ \A d \in Dump : pc[d] = "none"
        BY DEF Init, PC
      <3> QED
        BY <2>2, <3>1, <3>2, <3>3 DEF Init, TypeOK
  <1> QED
    BY <1>1, TypeOKStep, PTL DEF Spec

-----------------------------------------------------------------------------
(* A row that blocks new dumps has a task. *)

\* A step keeps NoPhantom: a task leaves its row only in a terminal status, and
\* the reaper leaves no active row behind.
LEMMA NoPhantomStep ==
    ASSUME TypeOK, NoPhantom, [Next]_vars
    PROVE  NoPhantom'
  <1> USE DEF Active, Terminal, NoPhantom
  <1>1. ASSUME NEW d \in Dump, find_active_dump(d) \/ RefuseDump(d) \/ CancelFails(d) \/ import_dump(d)
        PROVE  NoPhantom'
    BY <1>1 DEF find_active_dump, RefuseDump, CancelFails, import_dump, runVars, procVars
  <1>2. ASSUME NEW d \in Dump, start_dump(d)
        PROVE  NoPhantom'
    BY <1>2 DEF TypeOK, start_dump, procVars
  <1>16. ASSUME NEW d \in Dump, CancelCommit(d)
        PROVE  NoPhantom'
    BY <1>16 DEF TypeOK, CancelCommit, runVars, procVars
  <1>3. ASSUME NEW d \in Dump, NEW reached \in BOOLEAN, cancel_dump(d, reached)
        PROVE  NoPhantom'
    BY <1>3 DEF cancel_dump, runVars, procVars
  <1>4. ASSUME NEW d \in Dump, RunnerLoad(d)
        PROVE  NoPhantom'
    BY <1>4 DEF TypeOK, RunnerLoad, procVars
  <1>14. ASSUME NEW d \in Dump, RunnerClaim(d)
        PROVE  NoPhantom'
    BY <1>14 DEF TypeOK, RunnerClaim, procVars
  <1>15. ASSUME NEW d \in Dump, DumpPartition(d)
        PROVE  NoPhantom'
    BY <1>15 DEF TypeOK, DumpPartition, procVars
  <1>5. ASSUME NEW d \in Dump, RunnerFinish(d)
        PROVE  NoPhantom'
    <2>1. status' = [status EXCEPT ![d] = FinalStatus(d)]
      BY <1>5 DEF TypeOK, RunnerFinish
    <2>2. status'[d] \notin Active
      BY <2>1, FinalStatusType DEF TypeOK
    <2>3. \A e \in Dump \ {d} : status'[e] = status[e] /\ pc'[e] = pc[e]
      BY <1>5, <2>1 DEF TypeOK, RunnerFinish
    <2>4. up' = up
      BY <1>5 DEF RunnerFinish, procVars
    <2> QED
      BY <2>2, <2>3, <2>4
  <1>6. ASSUME NEW d \in Dump, RunnerRaises(d)
        PROVE  NoPhantom'
    <2>1. status'[d] \notin Active
      BY <1>6 DEF TypeOK, RunnerRaises
    <2>2. \A e \in Dump \ {d} : status'[e] = status[e] /\ pc'[e] = pc[e]
      BY <1>6 DEF TypeOK, RunnerRaises
    <2>3. up' = up
      BY <1>6 DEF RunnerRaises, procVars
    <2> QED
      BY <2>1, <2>2, <2>3
  <1>17. ASSUME NEW d \in Dump, RunnerLost(d)
        PROVE  NoPhantom'
    BY <1>17 DEF TypeOK, RunnerLost, procVars
  <1>7. ASSUME NEW d \in Dump, NEW st, Answered(d, st)
        PROVE  NoPhantom'
    BY <1>7 DEF TypeOK, Answered, procVars
  <1>8. ASSUME NEW d \in Dump, BridgeAccept(d)
        PROVE  NoPhantom'
    BY <1>8 DEF BridgeAccept, runVars, procVars
  <1>9. ASSUME NEW s \in Stream, BridgeOpen(s)
        PROVE  NoPhantom'
    BY <1>9 DEF BridgeOpen, runVars, procVars
  <1>10. ASSUME NEW s \in Stream, BridgeComplete(s) \/ BridgeStops(s)
         PROVE  NoPhantom'
    <2>1. s[1] \in Dump
      BY DEF Stream
    <2>2. CASE UNCHANGED <<status, items, reqVars, runVars, procVars>>
      BY <2>2 DEF runVars, procVars
    <2> QED
      BY <1>7, <1>10, <2>1, <2>2 DEF BridgeComplete, BridgeStops
  <1>11. CASE Crash
    BY <1>11 DEF Crash
  <1>12. CASE Restart
    BY <1>12 DEF TypeOK, Restart, Reaped
  <1>13. CASE UNCHANGED vars
    BY <1>13 DEF vars, runVars, procVars
  <1> QED
    BY <1>1, <1>2, <1>3, <1>4, <1>5, <1>6, <1>7, <1>8, <1>9, <1>10, <1>11, <1>12,
       <1>13, <1>14, <1>15, <1>16, <1>17 DEF Next, RunnerStep, RunnerEnds, CallFails

\* No crash, cancellation or failed partition leaves a queued or running row
\* without a task: only a task the database itself failed can block new dumps,
\* and only until the backend starts again.
THEOREM PhantomFree == Spec => []NoPhantom
  <1>1. Init => NoPhantom
    BY DEF Init, NoPhantom, Active
  <1> QED
    BY <1>1, NoPhantomStep, TypeCorrect, PTL DEF Spec

-----------------------------------------------------------------------------
(* The outcome a dump reports is true of the images on disk. *)

\* The strengthening, for one dump.  The bridge overwrites an image only while
\* it serves a call, and a call that has been answered "complete" is no longer
\* served; a late answer is not taken for another partition's; and the list
\* the verdict was computed from does not change after the task has left.
RowInv(d) ==
    /\ pc[d] \in {"none", "spawned", "claim"} => items[d] = Pending
    /\ d \in posted => pc[d] = "none"
    /\ pc[d] = "call" => mem[d][at[d]] # "complete"
    /\ \A i \in Part : phase[<<d, i>>] # "idle" => mem[d][i] # "complete"
    /\ \A i \in Part : mem[d][i] = "complete" => disk[<<d, i>>] = "read"
    /\ status[d] = "completed" => pc[d] = "exit" /\ \A i \in Part : mem[d][i] = "complete"
    /\ status[d] = "partial" => pc[d] = "exit" /\ \E i \in Part : mem[d][i] = "complete"

ImageInv == \A d \in Dump : RowInv(d)

\* The part of the state that belongs to dump d is left alone.
RowUnchanged(d) ==
    /\ status'[d] = status[d] /\ items'[d] = items[d] /\ pc'[d] = pc[d]
    /\ mem'[d] = mem[d] /\ at'[d] = at[d]
    /\ d \in posted' => d \in posted
BridgeUnchanged(d) ==
    \A i \in Part : phase'[<<d, i>>] = phase[<<d, i>>] /\ disk'[<<d, i>>] = disk[<<d, i>>]

\* A step that does not touch dump d keeps its invariant.
LEMMA RowFrame ==
    ASSUME NEW d \in Dump, RowInv(d), RowUnchanged(d), BridgeUnchanged(d)
    PROVE  RowInv(d)'
  BY DEF RowInv, RowUnchanged, BridgeUnchanged

\* Mark changes one entry of one dump's list.
LEMMA MarkEffect ==
    ASSUME TypeOK, NEW d \in Dump, NEW st \in Item, at[d] \in Part, Mark(d, st)
    PROVE  /\ items' = items
           /\ \A e \in Dump \ {d} : mem'[e] = mem[e]
           /\ mem'[d][at[d]] = st
           /\ \A i \in Part \ {at[d]} : mem'[d][i] = mem[d][i]
  <1>1. items' = items
    BY DEF Mark, _persist_partitions, LoadedItems
  <1>2. mem' = [mem EXCEPT ![d] = [mem[d] EXCEPT ![at[d]] = st]]
    BY DEF Mark
  <1>3. mem \in [Dump -> [Part -> Item]]
    BY DEF TypeOK
  <1> QED
    BY <1>1, <1>2, <1>3

\* An answer keeps the invariant if "complete" is only said of an image read to the end
\* whose call the bridge no longer serves.
LEMMA AnsweredInv ==
    ASSUME TypeOK, ImageInv, NEW d \in Dump, NEW st \in Item, Answered(d, st),
           \A e \in Dump \ {d} : BridgeUnchanged(e),
           \A i \in Part \ {at[d]} : /\ phase'[<<d, i>>] = phase[<<d, i>>]
                                     /\ disk'[<<d, i>>] = disk[<<d, i>>],
           st = "complete" => phase'[<<d, at[d]>>] = "idle" /\ disk'[<<d, at[d]>>] = "read"
    PROVE  ImageInv'
  <1>1. pc[d] = "call" /\ at[d] \in Part
    BY DEF Answered, TypeOK
  <1>2. /\ items' = items
        /\ \A e \in Dump \ {d} : mem'[e] = mem[e]
        /\ mem'[d][at[d]] = st
        /\ \A i \in Part \ {at[d]} : mem'[d][i] = mem[d][i]
    BY <1>1, MarkEffect DEF Answered
  <1>3. /\ status' = status /\ posted' = posted /\ pc'[d] = "loop"
        /\ \A e \in Dump \ {d} : pc'[e] = pc[e] /\ at'[e] = at[e]
    BY DEF Answered, TypeOK, reqVars
  <1>4. ASSUME NEW e \in Dump \ {d}
        PROVE  RowInv(e)'
    BY <1>2, <1>3, <1>4, RowFrame DEF ImageInv, RowUnchanged
  <1>5. RowInv(d)'
    <2>1. RowInv(d)
      BY DEF ImageInv
    <2>2. status[d] \notin {"completed", "partial"}
      BY <1>1, <2>1 DEF RowInv
    <2>3. \A i \in Part : /\ phase'[<<d, i>>] # "idle" => mem'[d][i] # "complete"
                          /\ mem'[d][i] = "complete" => disk'[<<d, i>>] = "read"
      BY <1>1, <1>2, <2>1 DEF RowInv
    <2> QED
      BY <1>1, <1>3, <2>1, <2>2, <2>3 DEF RowInv
  <1> QED
    BY <1>4, <1>5 DEF ImageInv

\* Every step keeps the invariant of every dump.
LEMMA ImageInvStep ==
    ASSUME TypeOK, ImageInv, [Next]_vars
    PROVE  ImageInv'
  <1>1. ASSUME UNCHANGED <<status, items, runVars, phase, disk>>, posted' \subseteq posted
        PROVE  ImageInv'
    BY <1>1, RowFrame DEF ImageInv, RowUnchanged, BridgeUnchanged, runVars
  <1>2. ASSUME NEW d \in Dump, UNCHANGED <<items, at, bridgeVars>>, RowInv(d)',
               \A e \in Dump \ {d} : /\ status'[e] = status[e] /\ pc'[e] = pc[e]
                                     /\ mem'[e] = mem[e]
                                     /\ e \in posted' => e \in posted
        PROVE  ImageInv'
    BY <1>2, RowFrame DEF ImageInv, RowUnchanged, BridgeUnchanged, bridgeVars
  <1>3. ASSUME NEW d \in Dump,
               RefuseDump(d) \/ CancelFails(d) \/ import_dump(d)
               \/ \E reached \in BOOLEAN : cancel_dump(d, reached)
        PROVE  ImageInv'
    BY <1>1, <1>3 DEF RefuseDump, CancelFails, import_dump, cancel_dump, bridgeVars
  <1>4. ASSUME NEW d \in Dump, find_active_dump(d)
        PROVE  ImageInv'
    <2>1. pc[d] = "none"
      BY <1>4 DEF TypeOK, find_active_dump
    <2>2. RowInv(d)'
      BY <1>4, <2>1 DEF ImageInv, RowInv, find_active_dump, runVars, bridgeVars
    <2> QED
      BY <1>2, <1>4, <2>2 DEF find_active_dump, runVars
  <1>5. ASSUME NEW d \in Dump, start_dump(d)
        PROVE  ImageInv'
    <2>1. RowInv(d)'
      BY <1>5 DEF TypeOK, ImageInv, RowInv, start_dump, bridgeVars
    <2> QED
      BY <1>2, <1>5, <2>1 DEF TypeOK, start_dump
  <1>6. ASSUME NEW d \in Dump, CancelCommit(d)
        PROVE  ImageInv'
    <2>1. RowInv(d)'
      BY <1>6 DEF TypeOK, ImageInv, RowInv, CancelCommit, runVars, bridgeVars
    <2> QED
      BY <1>2, <1>6, <2>1 DEF TypeOK, CancelCommit, runVars
  <1>7. ASSUME NEW d \in Dump, RunnerLoad(d)
        PROVE  ImageInv'
    <2>1. RowInv(d)'
      BY <1>7 DEF TypeOK, ImageInv, RowInv, RunnerLoad, reqVars, bridgeVars
    <2> QED
      BY <1>2, <1>7, <2>1 DEF TypeOK, RunnerLoad, reqVars
  <1>8. ASSUME NEW d \in Dump, RunnerClaim(d)
        PROVE  ImageInv'
    <2>1. /\ mem'[d] = Pending /\ pc[d] = "claim" /\ pc'[d] = "loop"
          /\ status'[d] = "running" /\ posted' = posted
      BY <1>8 DEF TypeOK, ImageInv, RowInv, RunnerClaim, reqVars
    <2>2. \A i \in Part : mem'[d][i] = "pending"
      BY <2>1 DEF Pending
    <2>3. RowInv(d)'
      BY <2>1, <2>2 DEF ImageInv, RowInv
    <2> QED
      BY <1>2, <1>8, <2>3 DEF TypeOK, RunnerClaim, reqVars
  <1>9. ASSUME NEW d \in Dump, DumpPartition(d)
        PROVE  ImageInv'
    <2>1. pc[d] = "loop" /\ at[d] \in Part
      BY <1>9, ConstAssumption DEF TypeOK, DumpPartition, HasNext, Part
    <2>2. /\ items' = items
          /\ \A e \in Dump \ {d} : mem'[e] = mem[e]
          /\ mem'[d][at[d]] = "active"
          /\ \A i \in Part \ {at[d]} : mem'[d][i] = mem[d][i]
      BY <1>9, <2>1, MarkEffect DEF DumpPartition, Item
    <2>3. /\ UNCHANGED <<status, posted, at, phase, disk>>
          /\ pc'[d] = "call" /\ \A e \in Dump \ {d} : pc'[e] = pc[e]
      BY <1>9 DEF TypeOK, DumpPartition, reqVars, bridgeVars
    <2>4. RowInv(d)'
      BY <2>1, <2>2, <2>3 DEF ImageInv, RowInv
    <2> QED
      BY <1>2, <1>9, <2>2, <2>3, <2>4 DEF DumpPartition
  <1>10. ASSUME NEW d \in Dump, CallFails(d)
         PROVE  ImageInv'
    BY <1>10, AnsweredInv DEF CallFails, BridgeUnchanged, bridgeVars, Item
  <1>11. ASSUME NEW d \in Dump, RunnerFinish(d)
         PROVE  ImageInv'
    <2>1. /\ status' = [status EXCEPT ![d] = FinalStatus(d)]
          /\ pc[d] = "loop" /\ pc' = [pc EXCEPT ![d] = "exit"]
          /\ UNCHANGED <<items, posted, mem, at, bridgeVars>>
      BY <1>11 DEF TypeOK, RunnerFinish, reqVars
    <2>2. /\ status'[d] = "completed" => \A i \in Part : mem[d][i] = "complete"
          /\ status'[d] = "partial" => \E i \in Part : mem[d][i] = "complete"
      BY <2>1 DEF TypeOK, FinalStatus
    <2>3. RowInv(d)'
      BY <2>1, <2>2 DEF TypeOK, ImageInv, RowInv, bridgeVars
    <2> QED
      BY <1>2, <2>1, <2>3 DEF TypeOK
  <1>12. ASSUME NEW d \in Dump, RunnerRaises(d)
         PROVE  ImageInv'
    <2>1. RowInv(d)'
      BY <1>12 DEF TypeOK, ImageInv, RowInv, RunnerRaises, Terminal, reqVars, bridgeVars
    <2> QED
      BY <1>2, <1>12, <2>1 DEF TypeOK, RunnerRaises, reqVars
  <1>20. ASSUME NEW d \in Dump, RunnerLost(d)
         PROVE  ImageInv'
    <2>1. RowInv(d)'
      BY <1>20 DEF TypeOK, ImageInv, RowInv, RunnerLost, reqVars, bridgeVars
    <2> QED
      BY <1>2, <1>20, <2>1 DEF TypeOK, RunnerLost, reqVars
  <1>13. ASSUME NEW d \in Dump, BridgeAccept(d)
         PROVE  ImageInv'
    <2>1. /\ UNCHANGED <<status, items, posted, runVars, disk>>
          /\ pc[d] = "call" /\ at[d] \in Part
          /\ phase' = [phase EXCEPT ![<<d, at[d]>>] = "sizing"]
      BY <1>13 DEF TypeOK, BridgeAccept, reqVars
    <2>2. ASSUME NEW e \in Dump, NEW i \in Part, phase'[<<e, i>>] # "idle"
          PROVE  mem[e][i] # "complete"
      BY <2>1, <2>2 DEF TypeOK, Stream, ImageInv, RowInv
    <2> QED
      BY <2>1, <2>2 DEF ImageInv, RowInv, runVars
  <1>14. ASSUME NEW s \in Stream, BridgeOpen(s)
         PROVE  ImageInv'
    <2>1. PICK d \in Dump, i \in Part : s = <<d, i>>
      BY DEF Stream
    <2>2. /\ UNCHANGED <<status, items, posted, runVars>>
          /\ phase[s] = "sizing"
          /\ phase' = [phase EXCEPT ![s] = "reading"]
          /\ disk' = [disk EXCEPT ![s] = "part"]
      BY <1>14 DEF BridgeOpen, reqVars
    <2>3. mem[d][i] # "complete"
      BY <2>1, <2>2 DEF ImageInv, RowInv
    <2>4. ASSUME NEW e \in Dump, NEW j \in Part
          PROVE  /\ phase'[<<e, j>>] # "idle" => mem[e][j] # "complete"
                 /\ mem[e][j] = "complete" => disk'[<<e, j>>] = "read"
      BY <2>1, <2>2, <2>3 DEF TypeOK, Stream, ImageInv, RowInv
    <2> QED
      BY <2>2, <2>4 DEF ImageInv, RowInv, runVars
  <1>15. ASSUME NEW s \in Stream, NEW image, BridgeClose(s, image),
                image = "read" \/ image = "part",
                \/ UNCHANGED <<status, items, reqVars, runVars, procVars>>
                \/ /\ Waiting(s)
                   /\ \E st \in Item : /\ Answered(s[1], st)
                                       /\ st = "complete" => image = "read"
         PROVE  ImageInv'
    <2>1. PICK d \in Dump, i \in Part : s = <<d, i>>
      BY DEF Stream
    <2>2. /\ phase[s] = "reading"
          /\ phase' = [phase EXCEPT ![s] = "idle"]
          /\ disk' = [disk EXCEPT ![s] = image]
      BY <1>15 DEF BridgeClose
    <2>3. mem[d][i] # "complete"
      BY <2>1, <2>2 DEF ImageInv, RowInv
    <2>4. /\ phase'[s] = "idle" /\ disk'[s] = image
          /\ \A e \in Dump, j \in Part : <<e, j>> # s =>
                phase'[<<e, j>>] = phase[<<e, j>>] /\ disk'[<<e, j>>] = disk[<<e, j>>]
      BY <2>2 DEF TypeOK, Stream
    <2>5. CASE UNCHANGED <<status, items, reqVars, runVars, procVars>>
      <3>1. ASSUME NEW e \in Dump, NEW j \in Part
            PROVE  /\ phase'[<<e, j>>] # "idle" => mem[e][j] # "complete"
                   /\ mem[e][j] = "complete" => disk'[<<e, j>>] = "read"
        BY <2>1, <2>3, <2>4 DEF ImageInv, RowInv
      <3> QED
        BY <2>5, <3>1 DEF ImageInv, RowInv, runVars, reqVars
    <2>6. ASSUME Waiting(s), NEW st \in Item, Answered(s[1], st),
                 st = "complete" => image = "read"
          PROVE  ImageInv'
      <3>1. s[1] = d /\ at[d] = i
        BY <2>1, <2>6 DEF Waiting
      <3>2. \A e \in Dump \ {d} : BridgeUnchanged(e)
        BY <2>1, <2>4 DEF BridgeUnchanged
      <3> QED
        BY <2>1, <2>4, <2>6, <3>1, <3>2, AnsweredInv
    <2> QED
      BY <1>15, <2>5, <2>6
  <1>16. ASSUME NEW s \in Stream, BridgeComplete(s) \/ BridgeStops(s)
         PROVE  ImageInv'
    BY <1>15, <1>16 DEF BridgeComplete, BridgeStops, Item
  <1>17. CASE Crash
    BY <1>17 DEF TypeOK, ImageInv, RowInv, Crash, bridgeVars
  <1>18. CASE Restart
    BY <1>18 DEF TypeOK, ImageInv, RowInv, Restart, Reaped, reqVars, runVars, bridgeVars
  <1>19. CASE UNCHANGED vars
    BY <1>1, <1>19 DEF vars, reqVars, bridgeVars
  <1> QED
    BY <1>3, <1>4, <1>5, <1>6, <1>7, <1>8, <1>9, <1>10, <1>11, <1>12, <1>13, <1>14,
       <1>16, <1>17, <1>18, <1>19, <1>20 DEF Next, RunnerStep, RunnerEnds

\* A completed dump has every image on disk, read to the end of its stream, and a
\* partial one at least one, for any number of overlapping dumps, late answers
\* and crashes.
THEOREM OutcomeTrue == Spec => []OutcomeIsTrue
  <1>1. Init => ImageInv
    BY DEF Init, ImageInv, RowInv, Pending, Stream
  <1>2. ImageInv => OutcomeIsTrue
    BY DEF ImageInv, RowInv, OutcomeIsTrue
  <1> QED
    BY <1>1, <1>2, ImageInvStep, TypeCorrect, PTL DEF Spec
-----------------------------------------------------------------------------
(* A dump that is over stays over. *)

\* A start request under way has no row yet, and a cancellation has one.
OpenInv == /\ \A d \in posted : status[d] = "absent"
           /\ \A d \in cancelling : status[d] # "absent"

\* What a step does to dump d: only a start request opens it; once its row is
\* there it stays, and once its task has ended too neither comes back.
Moves(d) ==
    \/ status'[d] = status[d] /\ pc'[d] = pc[d]
    \/ status[d] = "absent" /\ status'[d] = "queued" /\ pc'[d] = "spawned"
    \/ /\ status[d] # "absent" /\ status'[d] # "absent"
       /\ ~AtWork(d) => ~AtWork(d)' /\ (status[d] \in Terminal => status'[d] \in Terminal)

LEMMA MovesStep ==
    ASSUME TypeOK, TypeOK', OpenInv, [Next]_vars
    PROVE  OpenInv' /\ \A d \in Dump : Moves(d)
  <1> USE DEF Active, Terminal
  <1>1. ASSUME UNCHANGED <<status, pc, posted, cancelling>>
        PROVE  OpenInv' /\ \A d \in Dump : Moves(d)
    BY <1>1 DEF OpenInv, Moves
  <1>2. ASSUME NEW d \in Dump, find_active_dump(d) \/ RefuseDump(d) \/ CancelFails(d)
        PROVE  OpenInv' /\ \A e \in Dump : Moves(e)
    BY <1>2 DEF find_active_dump, RefuseDump, CancelFails, runVars, OpenInv, Moves
  <1>3. ASSUME NEW d \in Dump, start_dump(d)
        PROVE  OpenInv' /\ \A e \in Dump : Moves(e)
    <2>1. /\ status[d] = "absent" /\ d \notin cancelling
          /\ status'[d] = "queued" /\ pc'[d] = "spawned"
          /\ posted' = posted \ {d} /\ cancelling' = cancelling
          /\ \A e \in Dump \ {d} : status'[e] = status[e] /\ pc'[e] = pc[e]
      BY <1>3 DEF start_dump, OpenInv, TypeOK
    <2> QED
      BY <2>1 DEF OpenInv, Moves, TypeOK
  <1>4. ASSUME NEW d \in Dump, NEW reached \in BOOLEAN, cancel_dump(d, reached)
        PROVE  OpenInv' /\ \A e \in Dump : Moves(e)
    BY <1>4 DEF cancel_dump, runVars, OpenInv, Moves
  <1>5. ASSUME NEW d \in Dump, CancelCommit(d)
        PROVE  OpenInv' /\ \A e \in Dump : Moves(e)
    <2>1. /\ status[d] # "absent" /\ status'[d] = "cancelled" /\ pc' = pc
          /\ posted' = posted /\ cancelling' = cancelling \ {d}
          /\ \A e \in Dump \ {d} : status'[e] = status[e]
      BY <1>5 DEF CancelCommit, OpenInv, TypeOK, runVars
    <2> QED
      BY <2>1 DEF OpenInv, Moves, TypeOK, AtWork
  \* A task writes its own row, which is there, and only while it is at work.
  <1>6. ASSUME NEW d \in Dump, AtWork(d), status'[d] # "absent",
               UNCHANGED <<posted, cancelling>>,
               \A e \in Dump \ {d} : status'[e] = status[e] /\ pc'[e] = pc[e]
        PROVE  OpenInv' /\ \A e \in Dump : Moves(e)
    <2>1. status[d] # "absent"
      BY <1>6 DEF TypeOK, AtWork
    <2> QED
      BY <1>6, <2>1 DEF OpenInv, Moves, TypeOK
  <1>7. ASSUME NEW d \in Dump, \/ RunnerLoad(d) \/ RunnerClaim(d) \/ DumpPartition(d)
                               \/ RunnerRaises(d) \/ RunnerLost(d)
                               \/ \E st \in Item : Answered(d, st)
        PROVE  OpenInv' /\ \A e \in Dump : Moves(e)
    <2>1. AtWork(d) /\ UNCHANGED <<posted, cancelling>>
      BY <1>7 DEF RunnerLoad, RunnerClaim, DumpPartition, RunnerRaises, RunnerLost, Answered,
                  AtWork, reqVars
    <2>2. /\ status[d] # "absent"
          /\ \/ status' = status
             \/ \E s \in {"running", "failed"} : status' = [status EXCEPT ![d] = s]
          /\ \E l \in PC : pc' = [pc EXCEPT ![d] = l]
      BY <1>7, <2>1 DEF RunnerLoad, RunnerClaim, DumpPartition, RunnerRaises, RunnerLost, Answered,
                        AtWork, TypeOK, PC
    <2>3. status'[d] # "absent" /\ \A e \in Dump \ {d} : status'[e] = status[e] /\ pc'[e] = pc[e]
      BY <2>2 DEF TypeOK
    <2> QED
      BY <1>6, <2>1, <2>3
  <1>8. ASSUME NEW d \in Dump, RunnerFinish(d)
        PROVE  OpenInv' /\ \A e \in Dump : Moves(e)
    <2>1. AtWork(d) /\ UNCHANGED <<posted, cancelling>>
      BY <1>8 DEF RunnerFinish, AtWork, reqVars
    <2>2. status'[d] # "absent" /\ \A e \in Dump \ {d} : status'[e] = status[e] /\ pc'[e] = pc[e]
      BY <1>8, FinalStatusType DEF RunnerFinish, TypeOK
    <2> QED
      BY <1>6, <2>1, <2>2
  <1>9. ASSUME NEW d \in Dump, import_dump(d) \/ BridgeAccept(d)
        PROVE  OpenInv' /\ \A e \in Dump : Moves(e)
    BY <1>1, <1>9 DEF import_dump, BridgeAccept, runVars, reqVars
  <1>10. ASSUME NEW s \in Stream, BridgeOpen(s) \/ BridgeComplete(s) \/ BridgeStops(s)
         PROVE  OpenInv' /\ \A e \in Dump : Moves(e)
    <2>1. s[1] \in Dump /\ "complete" \in Item /\ "failed" \in Item
      BY DEF Stream, Item
    <2>2. \/ UNCHANGED <<status, pc, posted, cancelling>>
          \/ \E st \in Item : Answered(s[1], st)
      BY <1>10, <2>1 DEF BridgeOpen, BridgeComplete, BridgeStops, runVars, reqVars
    <2> QED
      BY <1>1, <1>7, <2>1, <2>2
  <1>11. CASE Crash
    <2>1. status' = status /\ posted' = {} /\ cancelling' = {}
      BY <1>11 DEF Crash
    <2>2. \A e \in Dump : IF pc[e] = "none" THEN pc'[e] = pc[e] ELSE pc'[e] = "exit"
      BY <1>11 DEF Crash
    <2> QED
      BY <2>1, <2>2 DEF OpenInv, Moves, AtWork, TypeOK
  <1>12. CASE Restart
    <2>1. pc' = pc /\ UNCHANGED <<posted, cancelling>>
      BY <1>12 DEF Restart, runVars, reqVars
    <2>2. ASSUME NEW e \in Dump
          PROVE  \/ status'[e] = status[e]
                 \/ status[e] \in Active /\ status'[e] = "failed"
      BY <1>12 DEF Restart, Reaped
    <2>3. \A e \in Dump : Moves(e)
      BY <2>1, <2>2 DEF Moves, AtWork
    <2>4. \A e \in Dump : status'[e] = "absent" <=> status[e] = "absent"
      BY <2>2
    <2> QED
      BY <2>1, <2>3, <2>4 DEF OpenInv, TypeOK
  <1>13. CASE UNCHANGED vars
    BY <1>1, <1>13 DEF vars, runVars, reqVars
  <1>14. "failed" \in Item
    BY DEF Item
  <1> QED
    BY <1>2, <1>3, <1>4, <1>5, <1>7, <1>8, <1>9, <1>10, <1>11, <1>12, <1>13, <1>14
       DEF Next, RunnerStep, RunnerEnds, CallFails

\* Dump sessions keep the promise of Lifecycle, for any number of dumps and
\* crashes: no step of a task, a bridge call, a cancellation or the reaper makes
\* a dump active again that was over.
THEOREM OutcomesStay == Spec => OutcomeIsFinal
  <1> USE DEF Outcome!Phase
  <1>1. Init => OpenInv /\ Outcome!Init
    <2> SUFFICES ASSUME Init PROVE OpenInv /\ Outcome!Init
      OBVIOUS
    <2>1. \A d \in Dump : PhaseOf(d) = "none"
      BY DEF Init, PhaseOf, AtWork, Terminal
    <2> QED
      BY <2>1 DEF Init, OpenInv, Outcome!Init
  <1>2. TypeOK /\ TypeOK' /\ OpenInv /\ [Next]_vars => OpenInv'
    BY MovesStep
  <1>3. TypeOK /\ TypeOK' /\ OpenInv /\ [Next]_vars
            => [Outcome!Next]_([d \in Dump |-> PhaseOf(d)])
    <2> SUFFICES ASSUME TypeOK, TypeOK', OpenInv, [Next]_vars PROVE Outcome!Next
      OBVIOUS
    <2>1. ASSUME NEW d \in Dump
          PROVE  /\ PhaseOf(d)' \in {"none", "active", "over"}
                 /\ \/ PhaseOf(d)' = PhaseOf(d)
                    \/ PhaseOf(d) = "none" /\ PhaseOf(d)' = "active"
                    \/ PhaseOf(d) = "active" /\ PhaseOf(d)' = "over"
      <3>1. Moves(d) /\ (status[d] = "absent" => ~AtWork(d))
        BY MovesStep DEF TypeOK, AtWork
      <3>2. /\ status[d] = "absent" <=> PhaseOf(d) = "none"
            /\ status[d] \in Terminal /\ ~AtWork(d) <=> PhaseOf(d) = "over"
            /\ PhaseOf(d) \in {"none", "active", "over"}
        BY DEF PhaseOf, Terminal
      <3>3. /\ status'[d] = "absent" <=> PhaseOf(d)' = "none"
            /\ status'[d] \in Terminal /\ ~AtWork(d)' <=> PhaseOf(d)' = "over"
            /\ PhaseOf(d)' \in {"none", "active", "over"}
        BY DEF PhaseOf, Terminal
      <3>4. status'[d] = "queued" /\ pc'[d] = "spawned" => AtWork(d)'
        BY DEF AtWork
      <3>5. status'[d] = status[d] /\ pc'[d] = pc[d] => PhaseOf(d)' = PhaseOf(d)
        BY DEF PhaseOf, AtWork
      <3> QED
        BY <3>1, <3>2, <3>3, <3>4, <3>5 DEF Moves, Terminal
    <2> QED
      BY <2>1 DEF Outcome!Next, Outcome!Open, Outcome!Close
  <1> QED
    BY <1>1, <1>2, <1>3, TypeCorrect, PTL DEF Spec, OutcomeIsFinal, Outcome!Spec
=============================================================================
