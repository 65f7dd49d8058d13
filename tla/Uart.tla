-------------------------------- MODULE Uart --------------------------------
(***************************************************************************)
(* UART sessions.  A bridge program on the user's host owns one serial     *)
(* port for all projects.  Connecting is a check of the project's rows, a  *)
(* call to the bridge and an insert; disconnecting is a look at the rows,  *)
(* a call and an update.  Neither names its session to the bridge.         *)
(*                                                                         *)
(* In the bridge, calls are coroutines that interleave where they await:   *)
(* opening a port, the end of a cancelled reader task, closing a port.     *)
(* The reader task reads whatever port the bridge holds at the time.       *)
(* Ports, reader tasks and rows bear the name of the connect request that  *)
(* made them.  A port that the bridge lets go of is closed with its        *)
(* object.  Deleting a firmware or a project takes its rows away and tells *)
(* the bridge nothing.                                                     *)
(***************************************************************************)
EXTENDS Naturals, FiniteSets

CONSTANTS Conn, Disc,   \* connect and disconnect requests
          ProjectOf,    \* the project of each request
          FirmwareOf,   \* the firmware of each connect request
          None,
          MaxFault      \* bound: crashes and failed calls per behaviour

Request == Conn \cup Disc

ASSUME ConstAssumption ==
    /\ None \notin Conn
    /\ Conn \cap Disc = {}
    /\ DOMAIN ProjectOf = Request
    /\ DOMAIN FirmwareOf = Conn
    /\ MaxFault \in Nat

VARIABLES row,             \* status column of each session; "deleted" once its
                           \* firmware is gone, whether it had a row or not
          pc,              \* where each request is in the backend
          target,          \* the session that a disconnect request has loaded
          phase,           \* where its call is in the bridge
          serial, flag,    \* the port that the bridge holds; "connected"
          shut,            \* ports that a thread is closing, or has closed
          task, readers,   \* the reader task on record; those that run
          overlapped,      \* history: two requests were under way at a time
          crossed,         \* history: a port was opened during another call
          unplugged,       \* history: a reader task found its port broken
          faults           \* history: number of crashes and failed calls

port    == <<serial, flag, shut, task, readers>>
history == <<overlapped, crossed, unplugged>>
vars    == <<row, pc, target, phase, port, history, faults>>

\* The bridge's property "connected"; a port that is being closed may still be
\* open or no longer.
Connected == flag /\ serial # None
Accepts == ~Connected \/ serial \in shut

\* _get_active_session: the rows that it finds.
Found(p) == {c \in Conn : row[c] = "connected" /\ ProjectOf[c] = p}

InFlight(r) == pc[r] \in {"asked", "commit"}
InBridge(r) == phase[r] \in {"opening", "cancel", "close"}

Goto(r, l) == pc' = [pc EXCEPT ![r] = l]

\* The call of r is answered, or nobody waits for the answer.
Answer(r, l) ==
    /\ phase' = [phase EXCEPT ![r] = "done"]
    /\ pc' = [pc EXCEPT ![r] = IF @ = "asked" THEN l ELSE @]

Fault == /\ faults < MaxFault
         /\ faults' = faults + 1

\* r begins while another request is under way.
Overlap(r) == overlapped' = (overlapped \/ \E q \in Request \ {r} : InFlight(q))

-----------------------------------------------------------------------------
Init == /\ row = [c \in Conn |-> "none"]
        /\ pc = [r \in Request |-> "idle"]
        /\ target = [d \in Disc |-> None]
        /\ phase = [r \in Request |-> "none"]
        /\ serial = None /\ flag = FALSE /\ shut = {} /\ task = None /\ readers = {}
        /\ overlapped = FALSE /\ crossed = FALSE /\ unplugged = FALSE
        /\ faults = 0

-----------------------------------------------------------------------------
(* connect *)

ConnectCheck(c) ==
    /\ pc[c] = "idle"
    /\ row[c] = "none"
    /\ Found(ProjectOf[c]) = {}
    /\ Overlap(c)
    /\ Goto(c, "asked")
    /\ UNCHANGED <<row, target, phase, port, crossed, unplugged, faults>>

\* The bridge refuses when it is connected, else it starts to open the port.
BridgeConnect(c) ==
    /\ pc[c] = "asked"
    /\ phase[c] = "none"
    /\ \/ Connected /\ Answer(c, "ended")
       \/ Accepts /\ phase' = [phase EXCEPT ![c] = "opening"] /\ pc' = pc
    /\ UNCHANGED <<row, target, port, history, faults>>

\* The port is open: it takes the place of any other, and a reader starts.
Opened(c) ==
    /\ phase[c] = "opening"
    /\ serial' = c /\ flag' = TRUE
    /\ task' = c /\ readers' = readers \cup {c}
    /\ crossed' = (crossed \/ \E q \in Request \ {c} : InBridge(q))
    /\ Answer(c, "commit")
    /\ UNCHANGED <<row, target, shut, overlapped, unplugged, faults>>

OpenFails(c) ==
    /\ phase[c] = "opening"
    /\ Answer(c, "ended")
    /\ UNCHANGED <<row, target, port, history, faults>>

\* The transcript cannot be created once the port is open.
TranscriptFails(c) ==
    /\ Fault
    /\ phase[c] = "opening"
    /\ serial' = c /\ flag' = TRUE
    /\ Answer(c, "ended")
    /\ UNCHANGED <<row, target, shut, task, readers, history>>

\* Mutant: the row is not stored.
MutConnectCommit(c) ==
    /\ pc[c] = "commit"
    /\ Goto(c, "ended")
    /\ UNCHANGED <<row, target, phase, port, history, faults>>

\* The insert fails on its foreign key when the firmware is gone.
ConnectCommit(c) ==
    /\ pc[c] = "commit"
    /\ row' = [row EXCEPT ![c] = IF @ = "deleted" THEN @ ELSE "connected"]
    /\ Goto(c, "ended")
    /\ UNCHANGED <<target, phase, port, history, faults>>

-----------------------------------------------------------------------------
(* disconnect *)

\* The query finds a session; it raises when it finds more than one.
DisconnectCheck(d, c) ==
    /\ pc[d] = "idle"
    /\ Found(ProjectOf[d]) = {c}
    /\ target' = [target EXCEPT ![d] = c]
    /\ Overlap(d)
    /\ Goto(d, "asked")
    /\ UNCHANGED <<row, phase, port, crossed, unplugged, faults>>

\* The bridge lets go of its port.
LetGo(d) == /\ serial' = None /\ flag' = FALSE
            /\ Answer(d, "commit")

\* It has a thread close the port it holds, unless there is none or it is closed.
Close(d) ==
    \/ /\ serial # None
       /\ phase' = [phase EXCEPT ![d] = "close"]
       /\ shut' = shut \cup {serial}
       /\ UNCHANGED <<pc, serial, flag>>
    \/ /\ serial = None \/ serial \in shut
       /\ LetGo(d) /\ shut' = shut

\* Mutant: the reader task is left alone.
MutBridgeDisconnect(d) ==
    /\ pc[d] = "asked"
    /\ phase[d] = "none"
    /\ Close(d)
    /\ UNCHANGED <<row, target, task, readers, history, faults>>

\* A reader task that runs is cancelled and awaited first.
BridgeDisconnect(d) ==
    /\ pc[d] = "asked"
    /\ phase[d] = "none"
    /\ IF task \in readers
       THEN /\ readers' = readers \ {task}
            /\ phase' = [phase EXCEPT ![d] = "cancel"]
            /\ UNCHANGED <<pc, serial, flag, shut>>
       ELSE readers' = readers /\ Close(d)
    /\ UNCHANGED <<row, target, task, history, faults>>

ReaderCancelled(d) ==
    /\ phase[d] = "cancel"
    /\ task' = None
    /\ Close(d)
    /\ UNCHANGED <<row, target, readers, history, faults>>

Closed(d) ==
    /\ phase[d] = "close"
    /\ LetGo(d)
    /\ UNCHANGED <<row, target, shut, task, readers, history, faults>>

\* The bridge cannot be reached: the session is closed all the same.
Unreachable(d) ==
    /\ Fault
    /\ pc[d] = "asked"
    /\ phase[d] = "none"
    /\ Answer(d, "commit")
    /\ UNCHANGED <<row, target, port, history>>

\* Mutant: the session keeps its status.
MutDisconnectCommit(d) ==
    /\ pc[d] = "commit"
    /\ Goto(d, "ended")
    /\ UNCHANGED <<row, target, phase, port, history, faults>>

\* The update fails when the row is gone.
DisconnectCommit(d) ==
    /\ pc[d] = "commit"
    /\ row' = [row EXCEPT ![target[d]] = IF @ = "deleted" THEN @ ELSE "closed"]
    /\ Goto(d, "ended")
    /\ UNCHANGED <<target, phase, port, history, faults>>

-----------------------------------------------------------------------------
(* Deletion *)

\* The rows of S go with their firmware or project; nobody asks the bridge.
Delete(S) ==
    /\ \E c \in S : row[c] # "deleted"
    /\ row' = [c \in Conn |-> IF c \in S THEN "deleted" ELSE row[c]]
    /\ UNCHANGED <<pc, target, phase, port, history, faults>>

DeleteFirmware(f) == Delete({c \in Conn : FirmwareOf[c] = f})

DeleteProject(p) == Delete({c \in Conn : ProjectOf[c] = p})

-----------------------------------------------------------------------------
(* The world *)

\* A reader task finds the port broken, or closed under it, and ends.
ReaderFails(r) ==
    /\ r \in readers
    /\ serial # None
    /\ readers' = readers \ {r}
    /\ flag' = FALSE
    /\ unplugged' = TRUE
    /\ UNCHANGED <<row, pc, target, phase, serial, shut, task, overlapped, crossed, faults>>

\* The backend waits in vain for the bridge, or cannot commit.
RequestLost(r) ==
    /\ Fault
    /\ InFlight(r)
    /\ Goto(r, "ended")
    /\ UNCHANGED <<row, target, phase, port, history>>

BackendCrash ==
    /\ Fault
    /\ pc' = [r \in Request |-> IF pc[r] = "idle" THEN "idle" ELSE "ended"]
    /\ UNCHANGED <<row, target, phase, port, history>>

\* Calls under way break off, which a disconnect request takes for unreachable.
BridgeRestart ==
    /\ Fault
    /\ serial' = None /\ flag' = FALSE /\ task' = None /\ readers' = {}
    /\ phase' = [r \in Request |-> IF InBridge(r) THEN "done" ELSE phase[r]]
    /\ pc' = [r \in Request |-> IF ~(InBridge(r) /\ pc[r] = "asked") THEN pc[r]
                                ELSE IF r \in Conn THEN "ended" ELSE "commit"]
    /\ UNCHANGED <<row, target, shut, history>>

-----------------------------------------------------------------------------
Next ==
    \/ \E c \in Conn : \/ ConnectCheck(c) \/ BridgeConnect(c) \/ Opened(c) \/ OpenFails(c)
                       \/ TranscriptFails(c) \/ ConnectCommit(c) \/ ReaderFails(c)
                       \/ DeleteFirmware(FirmwareOf[c]) \/ DeleteProject(ProjectOf[c])
    \/ \E d \in Disc : \/ \E c \in Conn : DisconnectCheck(d, c)
                       \/ BridgeDisconnect(d) \/ ReaderCancelled(d) \/ Closed(d)
                       \/ Unreachable(d) \/ DisconnectCommit(d)
    \/ \E r \in Request : RequestLost(r)
    \/ BackendCrash \/ BridgeRestart

Spec == Init /\ [][Next]_vars

-----------------------------------------------------------------------------
(* Properties *)

\* Every variable keeps its type; a disconnect request that is under way has
\* loaded a session.
TypeOK ==
    /\ row \in [Conn -> {"none", "connected", "closed", "deleted"}]
    /\ pc \in [Request -> {"idle", "asked", "commit", "ended"}]
    /\ target \in [Disc -> Conn \cup {None}]
    /\ phase \in [Request -> {"none", "opening", "cancel", "close", "done"}]
    /\ serial \in Conn \cup {None} /\ flag \in BOOLEAN /\ shut \subseteq Conn
    /\ task \in Conn \cup {None} /\ readers \subseteq Conn
    /\ overlapped \in BOOLEAN /\ crossed \in BOOLEAN /\ unplugged \in BOOLEAN
    /\ faults \in 0 .. MaxFault
    /\ \A d \in Disc : pc[d] # "idle" => target[d] # None

\* Without faults, the port that is open belongs to a session that says
\* "connected", or will when its request commits, or its firmware or project was
\* deleted: however requests of several projects overlap, disconnecting never
\* closes the session of a port and leaves the port open.  Deletion does leave it
\* open, and only deletion.
PortHasSession ==
    Connected => \/ row[serial] = "connected"
                 \/ pc[serial] = "commit"
                 \/ row[serial] = "deleted"
                 \/ faults > 0

\* As long as no port is opened during another call, the only reader task that
\* runs is the one on record, and it has a port to read: disconnecting ends it.
OneReader ==
    \/ crossed
    \/ readers \subseteq {task} /\ (readers # {} => serial # None)

\* Requests that come one at a time leave at most one session "connected", and it
\* has the port, unless it is being disconnected, its port broke or a call failed.
SessionHasPort ==
    \A c \in Conn :
        row[c] = "connected" =>
            \/ serial = c
            \/ \E d \in Disc : target[d] = c /\ pc[d] = "commit"
            \/ overlapped \/ unplugged \/ faults > 0
=============================================================================
