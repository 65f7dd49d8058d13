----------------------------- MODULE Uart_proofs -----------------------------
(***************************************************************************)
(* Proofs about Uart, for any requests of any projects and any number of   *)
(* faults.                                                                 *)
(***************************************************************************)
EXTENDS Uart, TLAPS

\* Every step keeps TypeOK.
LEMMA TypeOKStep ==
    ASSUME TypeOK, [Next]_vars
    PROVE  TypeOK'
  <1> USE ConstAssumption DEF Request, Goto, Answer, port, history, Fault
  <1>1. ASSUME NEW c \in Conn, ConnectCheck(c)
        PROVE  TypeOK'
    BY <1>1 DEF TypeOK, ConnectCheck, Overlap
  <1>2. ASSUME NEW c \in Conn, BridgeConnect(c) \/ OpenFails(c)
        PROVE  TypeOK'
    BY <1>2 DEF TypeOK, BridgeConnect, OpenFails
  <1>3. ASSUME NEW c \in Conn, Opened(c)
        PROVE  TypeOK'
    BY <1>3 DEF TypeOK, Opened
  <1>4. ASSUME NEW c \in Conn, TranscriptFails(c)
        PROVE  TypeOK'
    BY <1>4 DEF TypeOK, TranscriptFails
  <1>5. ASSUME NEW c \in Conn, ConnectCommit(c)
        PROVE  TypeOK'
    BY <1>5 DEF TypeOK, ConnectCommit
  <1>6. ASSUME NEW c \in Conn, ReaderFails(c)
        PROVE  TypeOK'
    BY <1>6 DEF TypeOK, ReaderFails
  <1>7. ASSUME NEW d \in Disc, NEW c \in Conn, DisconnectCheck(d, c)
        PROVE  TypeOK'
    BY <1>7 DEF TypeOK, DisconnectCheck, Overlap
  <1>8. ASSUME NEW d \in Disc, BridgeDisconnect(d)
        PROVE  TypeOK'
    <2>1. /\ phase' \in [Request -> {"none", "opening", "cancel", "close", "done"}]
          /\ pc' \in [Request -> {"idle", "asked", "commit", "ended"}]
          /\ \A e \in Disc : pc'[e] = "idle" <=> pc[e] = "idle"
      BY <1>8 DEF TypeOK, BridgeDisconnect, Close, LetGo
    <2>2. /\ serial' \in Conn \cup {None} /\ shut' \subseteq Conn /\ readers' \subseteq Conn
          /\ UNCHANGED <<row, target, task, history, faults>>
      BY <1>8 DEF TypeOK, BridgeDisconnect, Close, LetGo
    <2>3. flag' \in BOOLEAN
      BY <1>8, Zenon DEF TypeOK, BridgeDisconnect, Close, LetGo
    <2> QED
      BY <2>1, <2>2, <2>3 DEF TypeOK
  <1>9. ASSUME NEW d \in Disc, ReaderCancelled(d) \/ Closed(d)
        PROVE  TypeOK'
    BY <1>9 DEF TypeOK, ReaderCancelled, Closed, Close, LetGo
  <1>10. ASSUME NEW d \in Disc, Unreachable(d)
         PROVE  TypeOK'
    BY <1>10 DEF TypeOK, Unreachable
  <1>11. ASSUME NEW d \in Disc, DisconnectCommit(d)
         PROVE  TypeOK'
    BY <1>11 DEF TypeOK, DisconnectCommit
  <1>12. ASSUME NEW r \in Request, RequestLost(r)
         PROVE  TypeOK'
    BY <1>12 DEF TypeOK, RequestLost, InFlight
  <1>13. CASE BackendCrash
    BY <1>13 DEF TypeOK, BackendCrash
  <1>14. CASE BridgeRestart
    <2>1. flag' \in BOOLEAN
      BY <1>14, Zenon DEF BridgeRestart
    <2>2. pc' \in [Request -> {"idle", "asked", "commit", "ended"}]
      BY <1>14 DEF TypeOK, BridgeRestart
    <2>3. phase' \in [Request -> {"none", "opening", "cancel", "close", "done"}]
      BY <1>14 DEF TypeOK, BridgeRestart
    <2>4. \A d \in Disc : pc'[d] # "idle" => target'[d] # None
      BY <1>14 DEF TypeOK, BridgeRestart
    <2> QED
      BY <1>14, <2>1, <2>2, <2>3, <2>4 DEF TypeOK, BridgeRestart
  <1>15. ASSUME NEW S \in SUBSET Conn, Delete(S)
         PROVE  TypeOK'
    BY <1>15 DEF TypeOK, Delete
  <1>16. CASE UNCHANGED vars
    BY <1>16 DEF TypeOK, vars
  <1> QED
    BY <1>1, <1>2, <1>3, <1>4, <1>5, <1>6, <1>7, <1>8, <1>9, <1>10, <1>11, <1>12, <1>13,
       <1>14, <1>15, <1>16 DEF Next, DeleteFirmware, DeleteProject

LEMMA InitType == Init => TypeOK
  <1> SUFFICES ASSUME Init
               PROVE  TypeOK
    OBVIOUS
  <1>1. flag \in BOOLEAN /\ overlapped \in BOOLEAN /\ crossed \in BOOLEAN /\ unplugged \in BOOLEAN
    BY Zenon DEF Init
  <1>2. faults \in 0 .. MaxFault
    BY ConstAssumption DEF Init
  <1>3. \A d \in Disc : pc[d] = "idle"
    BY DEF Init, Request
  <1> QED
    BY <1>1, <1>2, <1>3 DEF Init, TypeOK

\* The types of rows, requests and bridge.
THEOREM TypeCorrect == Spec => []TypeOK
  <1> QED
    BY InitType, TypeOKStep, PTL DEF Spec

-----------------------------------------------------------------------------
(* Ports and sessions *)

\* Without faults: the port the bridge holds has its session, or will have it, or
\* had it until its firmware was deleted; a
\* disconnect request that is about to commit has seen the port of its session
\* closed, and a port that is still to be opened belongs to no session yet.
PortInv ==
    faults = 0 =>
        /\ serial # None => row[serial] \in {"connected", "deleted"} \/ pc[serial] = "commit"
        /\ \A c \in Conn : /\ phase[c] = "opening" => pc[c] = "asked"
                           /\ pc[c] # "ended" => row[c] \in {"none", "deleted"}
        /\ \A d \in Disc : /\ pc[d] # "idle" => pc[target[d]] = "ended"
                           /\ pc[d] = "commit" => serial # target[d]

LEMMA PortStep ==
    ASSUME TypeOK, TypeOK', PortInv, [Next]_vars
    PROVE  PortInv'
  <1> SUFFICES ASSUME faults' = 0
               PROVE  PortInv'
    BY DEF PortInv
  <1> USE ConstAssumption DEF Request, Goto, Answer, port, history
  <1>0. ~Fault
    BY DEF Fault, TypeOK
  <1>1. ASSUME NEW c \in Conn, ConnectCheck(c)
        PROVE  PortInv'
    BY <1>1 DEF TypeOK, ConnectCheck, PortInv
  <1>2. ASSUME NEW c \in Conn, BridgeConnect(c) \/ OpenFails(c)
        PROVE  PortInv'
    BY <1>2 DEF TypeOK, BridgeConnect, OpenFails, PortInv
  <1>3. ASSUME NEW c \in Conn, Opened(c)
        PROVE  PortInv'
    BY <1>3 DEF TypeOK, Opened, PortInv
  <1>4. ASSUME NEW c \in Conn, ConnectCommit(c)
        PROVE  PortInv'
    BY <1>4 DEF TypeOK, ConnectCommit, PortInv
  <1>5. ASSUME NEW c \in Conn, ReaderFails(c)
        PROVE  PortInv'
    BY <1>5 DEF TypeOK, ReaderFails, PortInv
  <1>6. ASSUME NEW d \in Disc, NEW c \in Conn, DisconnectCheck(d, c)
        PROVE  PortInv'
    BY <1>6 DEF TypeOK, DisconnectCheck, Found, PortInv
  <1>7. ASSUME NEW d \in Disc, BridgeDisconnect(d) \/ ReaderCancelled(d) \/ Closed(d)
        PROVE  PortInv'
    BY <1>7 DEF TypeOK, BridgeDisconnect, ReaderCancelled, Closed, Close, LetGo, PortInv
  <1>8. ASSUME NEW d \in Disc, DisconnectCommit(d)
        PROVE  PortInv'
    BY <1>8 DEF TypeOK, DisconnectCommit, PortInv
  <1>9. ASSUME NEW S \in SUBSET Conn, Delete(S)
        PROVE  PortInv'
    BY <1>9 DEF TypeOK, Delete, PortInv
  <1>10. CASE UNCHANGED vars
    BY <1>10 DEF PortInv, vars
  <1> QED
    BY <1>0, <1>1, <1>2, <1>3, <1>4, <1>5, <1>6, <1>7, <1>8, <1>9, <1>10
       DEF Next, DeleteFirmware, DeleteProject, TranscriptFails, Unreachable, RequestLost,
           BackendCrash, BridgeRestart

\* However requests overlap, an open port belongs to a session on record or to one
\* that was deleted with its firmware or project: no disconnect request closes the
\* session and leaves its port open.
THEOREM PortsHaveSessions == Spec => []PortHasSession
  <1>1. Init => TypeOK /\ PortInv
    BY InitType DEF Init, PortInv, Request
  <1>2. TypeOK /\ PortInv /\ [Next]_vars => (TypeOK /\ PortInv)'
    BY TypeOKStep, PortStep
  <1>3. TypeOK /\ PortInv => PortHasSession
    BY DEF TypeOK, PortInv, PortHasSession, Connected
  <1> QED
    BY <1>1, <1>2, <1>3, PTL DEF Spec

-----------------------------------------------------------------------------
(* Reader tasks *)

\* A port that was ever held is that of a call that is over.
HeldInv == \A c \in Conn : c \in shut \/ serial = c => phase[c] = "done"

LEMMA HeldStep ==
    ASSUME TypeOK, HeldInv, [Next]_vars
    PROVE  HeldInv'
  <1> USE ConstAssumption DEF HeldInv, Request, Goto, Answer, port, history, InBridge
  <1>1. ASSUME NEW c \in Conn, BridgeConnect(c) \/ Opened(c) \/ OpenFails(c) \/ TranscriptFails(c)
        PROVE  HeldInv'
    BY <1>1 DEF TypeOK, BridgeConnect, Opened, OpenFails, TranscriptFails
  <1>2. ASSUME NEW d \in Disc, BridgeDisconnect(d)
        PROVE  HeldInv'
    <2>1. /\ serial' \in {serial, None} /\ shut' \subseteq shut \cup {serial}
          /\ \A c \in Conn : phase'[c] = phase[c]
      BY <1>2 DEF TypeOK, BridgeDisconnect, Close, LetGo
    <2> QED
      BY <2>1
  <1>3. ASSUME NEW d \in Disc, ReaderCancelled(d) \/ Closed(d)
        PROVE  HeldInv'
    <2>1. /\ serial' \in {serial, None} /\ shut' \subseteq shut \cup {serial}
          /\ \A c \in Conn : phase'[c] = phase[c]
      BY <1>3 DEF TypeOK, ReaderCancelled, Closed, Close, LetGo
    <2> QED
      BY <2>1
  <1>4. ASSUME NEW d \in Disc, Unreachable(d)
        PROVE  HeldInv'
    BY <1>4 DEF TypeOK, Unreachable
  <1>5. CASE BridgeRestart
    BY <1>5 DEF TypeOK, BridgeRestart
  <1>6. ASSUME UNCHANGED <<phase, serial, shut>>
        PROVE  HeldInv'
    BY <1>6
  <1> QED
    BY <1>1, <1>2, <1>3, <1>4, <1>5, <1>6
       DEF Next, vars, ConnectCheck, ConnectCommit, ReaderFails, DisconnectCheck, DisconnectCommit,
           DeleteFirmware, DeleteProject, Delete, RequestLost, BackendCrash

\* As long as no port is opened during another call: a reader task that runs is
\* the one on record and reads a live port, and none runs during a call.
ReaderInv ==
    \/ crossed
    \/ /\ readers \subseteq {task}
       /\ readers # {} => Connected
       /\ (\E r \in Request : InBridge(r)) => readers = {}
       /\ serial \in shut => readers = {}

LEMMA ReaderStep ==
    ASSUME TypeOK, HeldInv, ReaderInv, [Next]_vars
    PROVE  ReaderInv'
  <1> SUFFICES ASSUME ~crossed'
               PROVE  ReaderInv'
    BY DEF ReaderInv
  <1> USE ConstAssumption DEF Request, Goto, Answer, port, history, Connected, InBridge
  <1>1. ASSUME NEW c \in Conn, ConnectCheck(c) \/ ConnectCommit(c)
        PROVE  ReaderInv'
    BY <1>1 DEF ConnectCheck, ConnectCommit, ReaderInv
  <1>2. ASSUME NEW c \in Conn, BridgeConnect(c) \/ OpenFails(c) \/ TranscriptFails(c)
        PROVE  ReaderInv'
    BY <1>2 DEF TypeOK, HeldInv, BridgeConnect, Accepts, OpenFails, TranscriptFails, ReaderInv
  <1>3. ASSUME NEW c \in Conn, Opened(c)
        PROVE  ReaderInv'
    BY <1>3 DEF TypeOK, HeldInv, Opened, ReaderInv
  <1>4. ASSUME NEW c \in Conn, ReaderFails(c)
        PROVE  ReaderInv'
    BY <1>4 DEF TypeOK, ReaderFails, ReaderInv
  <1>5. ASSUME NEW d \in Disc, NEW c \in Conn, DisconnectCheck(d, c)
        PROVE  ReaderInv'
    BY <1>5 DEF DisconnectCheck, ReaderInv
  <1>6. ASSUME NEW d \in Disc, BridgeDisconnect(d)
        PROVE  ReaderInv'
    <2>1. ~crossed /\ readers' = {}
      BY <1>6 DEF BridgeDisconnect, ReaderInv
    <2> QED
      BY <2>1 DEF ReaderInv
  <1>7. ASSUME NEW d \in Disc, ReaderCancelled(d) \/ Closed(d)
        PROVE  ReaderInv'
    <2>1. ~crossed /\ readers' = {}
      BY <1>7 DEF ReaderCancelled, Closed, ReaderInv
    <2> QED
      BY <2>1 DEF ReaderInv
  <1>8. ASSUME NEW d \in Disc, Unreachable(d) \/ DisconnectCommit(d)
        PROVE  ReaderInv'
    BY <1>8 DEF TypeOK, Unreachable, DisconnectCommit, ReaderInv
  <1>9. ASSUME NEW r \in Request, RequestLost(r)
        PROVE  ReaderInv'
    BY <1>9 DEF RequestLost, ReaderInv
  <1>10. CASE BackendCrash
    BY <1>10 DEF BackendCrash, ReaderInv
  <1>11. CASE BridgeRestart
    BY <1>11 DEF BridgeRestart, ReaderInv
  <1>12. ASSUME NEW S \in SUBSET Conn, Delete(S)
         PROVE  ReaderInv'
    BY <1>12 DEF Delete, ReaderInv
  <1>13. CASE UNCHANGED vars
    BY <1>13 DEF ReaderInv, vars
  <1> QED
    BY <1>1, <1>2, <1>3, <1>4, <1>5, <1>6, <1>7, <1>8, <1>9, <1>10, <1>11, <1>12, <1>13
       DEF Next, DeleteFirmware, DeleteProject

\* Unless a port is opened during another call, disconnecting ends the only reader.
THEOREM ReadersEnd == Spec => []OneReader
  <1>1. Init => TypeOK /\ HeldInv /\ ReaderInv
    BY InitType, ConstAssumption DEF Init, HeldInv, ReaderInv, Request
  <1>2. TypeOK /\ HeldInv /\ ReaderInv /\ [Next]_vars => (TypeOK /\ HeldInv /\ ReaderInv)'
    BY TypeOKStep, HeldStep, ReaderStep
  <1>3. ReaderInv => OneReader
    BY DEF ReaderInv, OneReader, Connected
  <1> QED
    BY <1>1, <1>2, <1>3, PTL DEF Spec

-----------------------------------------------------------------------------
(* Requests that come one at a time *)

\* No two requests overlapped, no port broke and no call failed.
Orderly == ~overlapped /\ ~unplugged /\ faults = 0

\* Then at most one request is under way; a connect request opens a port only when
\* there is none and commits while it holds its own; a disconnect request finds
\* the port with the session it has loaded.
OrderInv ==
    Orderly =>
        /\ \A q, r \in Request : InFlight(q) /\ InFlight(r) => q = r
        /\ \A r \in Request : InBridge(r) => pc[r] = "asked"
        /\ serial # None => flag
        /\ serial \in shut => \E d \in Disc : phase[d] = "close"
        /\ \A c \in Conn : /\ phase[c] = "opening" => serial = None
                           /\ pc[c] = "commit" => serial = c
        /\ \A d \in Disc : pc[d] = "asked" => serial = target[d]
        /\ \A c \in Conn : row[c] = "connected" =>
               serial = c \/ \E d \in Disc : target[d] = c /\ pc[d] = "commit"

LEMMA OrderStep ==
    ASSUME TypeOK, TypeOK', HeldInv, OrderInv, [Next]_vars
    PROVE  OrderInv'
  <1> SUFFICES ASSUME Orderly'
               PROVE  OrderInv'
    BY DEF OrderInv
  <1> USE ConstAssumption DEF Request, Goto, Answer, port, history, Orderly, InFlight, InBridge
  <1>0. ~Fault
    BY DEF Fault, TypeOK
  <1>1. ASSUME NEW c \in Conn, ConnectCheck(c)
        PROVE  OrderInv'
    <2>1. ~overlapped /\ \A q \in Request \ {c} : ~InFlight(q)
      BY <1>1, Zenon DEF ConnectCheck, Overlap
    <2>2. Orderly
      BY <1>1, <2>1 DEF ConnectCheck
    <2> QED
      BY <1>1, <2>1, <2>2 DEF TypeOK, ConnectCheck, OrderInv
  <1>2. ASSUME NEW c \in Conn, BridgeConnect(c)
        PROVE  OrderInv'
    <2>1. Orderly
      BY <1>2 DEF BridgeConnect
    <2>2. ~Connected => serial = None
      BY <2>1 DEF Connected, OrderInv
    <2>3. CASE Answer(c, "ended")
      BY <1>2, <2>1, <2>3 DEF TypeOK, BridgeConnect, OrderInv
    <2>4. CASE Accepts /\ phase' = [phase EXCEPT ![c] = "opening"] /\ pc' = pc
      <3>1. serial \notin shut
        BY <1>2, <2>1 DEF BridgeConnect, OrderInv
      <3>2. serial = None
        BY <2>2, <2>4, <3>1 DEF Accepts
      <3> QED
        BY <1>2, <2>1, <2>4, <3>2 DEF TypeOK, BridgeConnect, OrderInv
    <2> QED
      BY <1>2, <2>3, <2>4 DEF BridgeConnect
  <1>3. ASSUME NEW c \in Conn, OpenFails(c)
        PROVE  OrderInv'
    BY <1>3 DEF TypeOK, OpenFails, OrderInv
  <1>4. ASSUME NEW c \in Conn, Opened(c)
        PROVE  OrderInv'
    <2>1. Orderly /\ pc[c] = "asked" /\ serial = None
      BY <1>4 DEF Opened, OrderInv
    <2>2. \A r \in Request \ {c} : ~InFlight(r) /\ ~InBridge(r)
      BY <2>1 DEF OrderInv
    <2>3. \A b \in Conn : row[b] # "connected"
      BY <2>1, <2>2 DEF OrderInv, TypeOK
    <2>4. flag' /\ serial' = c /\ row' = row
      BY <1>4 DEF Opened
    <2>5. /\ pc' = [pc EXCEPT ![c] = "commit"]
          /\ phase' = [phase EXCEPT ![c] = "done"]
      BY <1>4, <2>1 DEF Opened, TypeOK
    <2>6. c \notin shut /\ shut' = shut
      BY <1>4 DEF Opened, HeldInv
    <2> QED
      BY <2>2, <2>3, <2>4, <2>5, <2>6 DEF TypeOK, OrderInv
  <1>5. ASSUME NEW c \in Conn, ConnectCommit(c)
        PROVE  OrderInv'
    BY <1>5 DEF TypeOK, ConnectCommit, OrderInv
  <1>6. ASSUME NEW d \in Disc, NEW c \in Conn, DisconnectCheck(d, c)
        PROVE  OrderInv'
    <2>1. ~overlapped /\ \A q \in Request \ {d} : ~InFlight(q)
      BY <1>6, Zenon DEF DisconnectCheck, Overlap
    <2>2. Orderly /\ ~InFlight(d)
      BY <1>6, <2>1 DEF DisconnectCheck
    <2>3. serial = c
      BY <1>6, <2>1, <2>2 DEF DisconnectCheck, Found, OrderInv
    <2> QED
      BY <1>6, <2>1, <2>2, <2>3 DEF TypeOK, DisconnectCheck, OrderInv
  <1>7. ASSUME NEW d \in Disc, BridgeDisconnect(d)
        PROVE  OrderInv'
    BY <1>7 DEF TypeOK, BridgeDisconnect, Close, LetGo, OrderInv
  <1>8. ASSUME NEW d \in Disc, ReaderCancelled(d) \/ Closed(d)
        PROVE  OrderInv'
    BY <1>8 DEF TypeOK, ReaderCancelled, Closed, Close, LetGo, OrderInv
  <1>9. ASSUME NEW d \in Disc, DisconnectCommit(d)
        PROVE  OrderInv'
    BY <1>9 DEF TypeOK, DisconnectCommit, OrderInv
  <1>10. ASSUME NEW S \in SUBSET Conn, Delete(S)
         PROVE  OrderInv'
    BY <1>10 DEF TypeOK, Delete, OrderInv
  <1>11. CASE UNCHANGED vars
    BY <1>11 DEF OrderInv, vars
  <1> QED
    BY <1>0, <1>1, <1>2, <1>3, <1>4, <1>5, <1>6, <1>7, <1>8, <1>9, <1>10, <1>11
       DEF Next, DeleteFirmware, DeleteProject, TranscriptFails, Unreachable, RequestLost, BackendCrash, BridgeRestart,
           ReaderFails

\* Sessions used one request at a time hold the port they say they do.
THEOREM SessionsHavePorts == Spec => []SessionHasPort
  <1>1. Init => TypeOK /\ HeldInv /\ OrderInv
    BY InitType, ConstAssumption DEF Init, HeldInv, OrderInv, Request, InFlight, InBridge
  <1>2. TypeOK /\ HeldInv /\ OrderInv /\ [Next]_vars => (TypeOK /\ HeldInv /\ OrderInv)'
    BY TypeOKStep, HeldStep, OrderStep
  <1>3. TypeOK /\ OrderInv => SessionHasPort
    BY DEF TypeOK, OrderInv, SessionHasPort, Orderly
  <1> QED
    BY <1>1, <1>2, <1>3, PTL DEF Spec
=============================================================================
