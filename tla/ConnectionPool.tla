--------------------------- MODULE ConnectionPool ---------------------------
(***************************************************************************)
(* connection_pool.c and the hotplug entry points of devices.c: the        *)
(* connections that are open, which of them is primary and which           *)
(* supplemental, and the threads that run a driver's blocking loop.        *)
(*                                                                         *)
(* A connection_t wraps one device object, so a connection is named by its *)
(* Device.  The pool functions hold pool->mutex throughout and are single  *)
(* steps, except the two the block_on_device thread runs:                  *)
(* connection_pool_connect_active and connection_pool_block_on_active keep *)
(* the pointers p and s across the unlocked parts.                         *)
(*                                                                         *)
(* handle_device_removed frees the connection_t at once, also when a       *)
(* thread still uses it.  `dangling' collects the freed connections that   *)
(* were accessed.  What such an access reads is chosen freely; a crash     *)
(* ends the process, which a behaviour of Spec may do at any point.        *)
(***************************************************************************)
EXTENDS Naturals, Sequences, FiniteSets, FiniteSetsExt, SequencesExt

CONSTANTS
    Device, Model, ModelOf,  \* device objects and their USB ids
    Driver, DriverOf,        \* device_driver_type, and the driver of a device
    CanBeSupplemental,       \* the devices with can_be_supplemental
    ConnectsOnProbe,         \* the drivers that connect in supported_device_func
    NoDevice

ASSUME PoolAssumption ==
    /\ ModelOf \in [Device -> Model]
    /\ DriverOf \in [Device -> Driver]
    /\ CanBeSupplemental \subseteq Device
    /\ ConnectsOnProbe \subseteq Driver
    /\ NoDevice \notin Device

VARIABLES
    list,                \* pool->list[0 .. count - 1]
    primary_index,       \* 0 for -1, else the C index plus one
    supplemental_index,
    active,              \* the connections in the list with c->active
    thread_running,      \* and those with c->thread_running
    thread,              \* block_thread_func of each connection
    connected,           \* each driver's is_connected_func
    plugged,             \* the devices on the bus, and live OpenTrack streams
    blocker,             \* pool call of the block_on_device thread: pc, p, s
    dangling             \* the freed connections that were accessed

pool == <<list, primary_index, supplemental_index, active, thread_running>>
vars == <<pool, thread, connected, plugged, blocker, dangling>>

ThreadState == {"none", "starting", "running", "ending"}
MaybeDevice == Device \cup {NoDevice}
Blocker == [pc : {"idle", "connect_primary", "connect_supplemental", "connected",
                  "started", "join", "stop_supplemental", "join_supplemental"},
            p : MaybeDevice, s : MaybeDevice]

TypeOK ==
    /\ list \in Seq(Device)
    /\ primary_index \in 0 .. Len(list)
    /\ supplemental_index \in 0 .. Len(list)
    /\ active \subseteq ToSet(list)
    /\ thread_running \subseteq ToSet(list)
    /\ thread \in [Device -> ThreadState]
    /\ connected \in [Driver -> BOOLEAN]
    /\ plugged \subseteq Device
    /\ blocker \in Blocker
    /\ dangling \subseteq Device

Idle == [pc |-> "idle", p |-> NoDevice, s |-> NoDevice]

Init ==
    /\ list = <<>>
    /\ primary_index = 0 /\ supplemental_index = 0
    /\ active = {} /\ thread_running = {}
    /\ thread = [d \in Device |-> "none"]
    /\ connected = [drv \in Driver |-> FALSE]
    /\ plugged = {}
    /\ blocker = Idle
    /\ dangling = {}

-----------------------------------------------------------------------------
(* Selection.                                                              *)

FirstOrNone(S) == IF S = {} THEN 0 ELSE Min(S)

\* Mutant: the glasses that came last.
PickLast(l) ==
    LET glasses == {i \in DOMAIN l : l[i] \notin CanBeSupplemental}
    IN  IF glasses = {} THEN FirstOrNone(DOMAIN l) ELSE Max(glasses)

\* The first connection that cannot be supplemental, or else the first one.
pick_primary_index(l) ==
    LET glasses == {i \in DOMAIN l : l[i] \notin CanBeSupplemental}
    IN  IF glasses = {} THEN FirstOrNone(DOMAIN l) ELSE Min(glasses)

\* Mutant: the primary is not skipped.
PickAnySupplemental(l, primary) ==
    FirstOrNone({i \in DOMAIN l : l[i] \in CanBeSupplemental})

pick_supplemental_index(l, primary) ==
    FirstOrNone({i \in DOMAIN l : i # primary /\ l[i] \in CanBeSupplemental})

At(l, i) == IF i \in DOMAIN l THEN l[i] ELSE NoDevice
Primary == At(list, primary_index)
Supplemental == At(list, supplemental_index)

ModelInPool(m) == \E d \in ToSet(list) : ModelOf[d] = m

\* Mutant: the removal is applied to the primary.
FindPrimaryOf(drv) ==
    IF \E d \in ToSet(list) : DriverOf[d] = drv THEN primary_index ELSE 0

find_driver_connection_index(drv) ==
    FirstOrNone({i \in DOMAIN list : DriverOf[list[i]] = drv})

\* device_connect_func: it may fail, and needs hardware to succeed.
ConnectResults(drv) ==
    IF \E d \in plugged : DriverOf[d] = drv THEN BOOLEAN ELSE {FALSE}

-----------------------------------------------------------------------------
(* connection_pool_start_connection_thread on the connections in C whose   *)
(* thread does not run, given the flags after the other updates.           *)
StartThreads(C, act, running, thr) ==
    LET new == C \ (running \cup {NoDevice}) IN
    /\ active' = act \cup new
    /\ thread_running' = running \cup new
    /\ thread' = [d \in Device |-> IF d \in new THEN "starting" ELSE thr[d]]

\* The supplemental s joins a session of the primary that is already blocking:
\* it is connected unless it is, and its thread is started on success.
JoinSession(s, conn, act, running) ==
    \E ok \in IF conn[DriverOf[s]] THEN {TRUE} ELSE ConnectResults(DriverOf[s]) :
        /\ connected' = [conn EXCEPT ![DriverOf[s]] = ok]
        /\ StartThreads(IF ok THEN {s} ELSE {}, act, running, thread)

NoSession(conn, act, running) ==
    /\ connected' = conn
    /\ active' = act
    /\ thread_running' = running
    /\ UNCHANGED thread

InSession(p) == p \in active /\ p \in thread_running

-----------------------------------------------------------------------------
(* The hotplug thread and the OpenTrack listener.                          *)

\* A selection that exists is kept, so glasses that come after an OpenTrack
\* stream do not become primary.
connection_pool_handle_device_added(d, conn) ==
    \/ /\ ModelInPool(ModelOf[d])
       /\ UNCHANGED <<list, primary_index, supplemental_index>>
       /\ NoSession(conn, active, thread_running)
    \/ /\ ~ModelInPool(ModelOf[d])
       /\ list' = Append(list, d)
       /\ primary_index' = IF primary_index = 0 THEN pick_primary_index(list')
                                                 ELSE primary_index
       /\ supplemental_index' = IF supplemental_index = 0
                                THEN pick_supplemental_index(list', primary_index')
                                ELSE supplemental_index
       /\ LET p == At(list', primary_index')
              s == At(list', supplemental_index')
          IN  IF supplemental_index = 0 /\ s # NoDevice /\ InSession(p)
              THEN JoinSession(s, conn, active, thread_running)
              ELSE NoSession(conn, active, thread_running)

\* Mutant: the driver is not disconnected.
RemoveWithoutDisconnect(drv) ==
    LET i == find_driver_connection_index(drv)
        c == At(list, i)
    IN  /\ i # 0
        /\ list' = RemoveAt(list, i)
        /\ primary_index' = pick_primary_index(list')
        /\ supplemental_index' = pick_supplemental_index(list', primary_index')
        /\ NoSession(connected, active \ {c}, thread_running \ {c})

\* Frees the first connection of the driver and selects again.  The threads of
\* the removed connection, and of the supplemental when the primary goes, are
\* only asked to end.  A supplemental that is selected now joins the session of
\* a primary that stays.
connection_pool_handle_device_removed(drv) ==
    LET i == find_driver_connection_index(drv)
        c == At(list, i)
        primary_removed == i = primary_index
        supplemental_removed == supplemental_index \in {0, i}
        off == {drv} \cup (IF primary_removed /\ Supplemental # NoDevice
                           THEN {DriverOf[Supplemental]} ELSE {})
        conn == [x \in Driver |-> connected[x] /\ x \notin off]
    IN  /\ i # 0
        /\ list' = RemoveAt(list, i)
        /\ primary_index' = pick_primary_index(list')
        /\ supplemental_index' = pick_supplemental_index(list', primary_index')
        /\ IF InSession(Primary) /\ ~primary_removed /\ supplemental_removed
                /\ supplemental_index' # 0
           THEN JoinSession(At(list', supplemental_index'), conn,
                            active \ {c}, thread_running \ {c})
           ELSE NoSession(conn, active \ {c}, thread_running \ {c})

\* A connection, also a removed one, that a thread still works with.
InUse(d) == d \in {blocker.p, blocker.s} \/ thread[d] # "none"

\* The rokid and rayneo probes connect to the glasses, and disconnect again if
\* the driver is disabled.
ProbeResults(d) ==
    {[connected EXCEPT ![DriverOf[d]] = on] :
        on \in IF DriverOf[d] \in ConnectsOnProbe THEN BOOLEAN ELSE {connected[DriverOf[d]]}}

\* hotplug_callback, DEVICE_ARRIVED: supported_device_func made d, an object
\* whose memory nothing else refers to.  A device of a model in the pool is
\* ignored and freed.
Arrive(d) ==
    /\ d \notin plugged \cup ToSet(list)
    /\ ~InUse(d)
    /\ \E conn \in ProbeResults(d) : connection_pool_handle_device_added(d, conn)
    /\ plugged' = IF ModelInPool(ModelOf[d]) THEN plugged ELSE plugged \cup {d}
    /\ dangling' = dangling \ {d}
    /\ UNCHANGED blocker

\* hotplug_callback, DEVICE_LEFT: the pool is asked for a connection of the
\* model, and that connection's driver is removed.
Leave(d) ==
    /\ d \in plugged
    /\ plugged' = plugged \ {d}
    /\ \/ /\ ModelInPool(ModelOf[d])
          /\ connection_pool_handle_device_removed(DriverOf[d])
       \/ /\ ~ModelInPool(ModelOf[d])
          /\ UNCHANGED <<pool, thread, connected>>
    /\ UNCHANGED <<blocker, dangling>>

\* opentrack_listener_thread_func: a packet arrives while not connected; the
\* pool ignores the stream it knows and the listener sets its flag.
StreamConnected(d) ==
    /\ d \in plugged \cap CanBeSupplemental
    /\ ~connected[DriverOf[d]]
    /\ connected' = [connected EXCEPT ![DriverOf[d]] = TRUE]
    /\ UNCHANGED <<pool, thread, plugged, blocker, dangling>>

-----------------------------------------------------------------------------
(* The other threads.                                                      *)

\* A driver gives up its connection by itself: no IMU data, an SDK error.
ConnectionLost(drv) ==
    /\ connected[drv]
    /\ connected' = [connected EXCEPT ![drv] = FALSE]
    /\ UNCHANGED <<pool, thread, plugged, blocker, dangling>>

connection_pool_disconnect_all ==
    /\ list # <<>>
    /\ connected' = [drv \in Driver |->
                        connected[drv] /\ \A d \in ToSet(list) : DriverOf[d] # drv]
    /\ active' = {}
    /\ UNCHANGED <<list, primary_index, supplemental_index, thread_running, thread,
                   plugged, blocker, dangling>>

\* block_thread_func of c enters block_on_device_func.
ThreadBlocks(c) ==
    /\ thread[c] = "starting"
    /\ thread' = [thread EXCEPT ![c] = "running"]
    /\ UNCHANGED <<pool, connected, plugged, blocker, dangling>>

\* block_on_device_func returns: the glasses' at once if device_checkout gave it
\* no device, any when it finds the driver disconnected.
ThreadUnblocks(c) ==
    /\ \/ thread[c] = "starting" /\ c \notin CanBeSupplemental
       \/ thread[c] = "running" /\ ~connected[DriverOf[c]]
    /\ thread' = [thread EXCEPT ![c] = "ending"]
    /\ UNCHANGED <<pool, connected, plugged, blocker, dangling>>

\* Mutant: the flag is left set.
ExitKeepingFlag(c) ==
    /\ thread[c] = "ending"
    /\ thread' = [thread EXCEPT ![c] = "none"]
    /\ UNCHANGED <<pool, connected, plugged, blocker, dangling>>

\* The thread clears c->thread_running and ends.
ThreadExits(c) ==
    /\ thread[c] = "ending"
    /\ thread' = [thread EXCEPT ![c] = "none"]
    /\ thread_running' = thread_running \ {c}
    /\ dangling' = dangling \cup ({c} \ ToSet(list))
    /\ UNCHANGED <<list, primary_index, supplemental_index, active, connected,
                   plugged, blocker>>

-----------------------------------------------------------------------------
(* The block_on_device thread.                                             *)

Touched(C) == dangling' = dangling \cup (C \ (ToSet(list) \cup {NoDevice}))

connection_pool_connect_active ==
    /\ blocker.pc = "idle"
    /\ Primary # NoDevice
    /\ blocker' = [pc |-> "connect_primary", p |-> Primary, s |-> Supplemental]
    /\ UNCHANGED <<pool, thread, connected, plugged, dangling>>

ConnectPrimary ==
    /\ blocker.pc = "connect_primary"
    /\ \E ok \in ConnectResults(DriverOf[blocker.p]) :
          /\ connected' = [connected EXCEPT ![DriverOf[blocker.p]] = ok]
          /\ blocker' = CASE ~ok -> Idle
                          [] ok /\ blocker.s # NoDevice ->
                                 [blocker EXCEPT !.pc = "connect_supplemental"]
                          [] OTHER -> [Idle EXCEPT !.pc = "connected"]
    /\ Touched({blocker.p})
    /\ UNCHANGED <<pool, thread, plugged>>

ConnectSupplemental ==
    /\ blocker.pc = "connect_supplemental"
    /\ \E ok \in ConnectResults(DriverOf[blocker.s]) :
          connected' = [connected EXCEPT ![DriverOf[blocker.s]] = ok]
    /\ blocker' = [Idle EXCEPT !.pc = "connected"]
    /\ Touched({blocker.s})
    /\ UNCHANGED <<pool, thread, plugged>>

\* The selections are read again: they need not be what was connected.
connection_pool_block_on_active ==
    /\ blocker.pc = "connected"
    /\ LET s == IF Supplemental # NoDevice /\ connected[DriverOf[Supplemental]]
                THEN {Supplemental} ELSE {}
       IN  StartThreads({Primary} \cup s, active, thread_running, thread)
    /\ blocker' = [pc |-> "started", p |-> Primary, s |-> Supplemental]
    /\ UNCHANGED <<list, primary_index, supplemental_index, connected, plugged,
                   dangling>>

\* p->thread_running is read without the mutex.
ReadRunning ==
    /\ blocker.pc = "started"
    /\ \E pc \in {"join", "stop_supplemental"} :
          /\ blocker.p = NoDevice => pc = "stop_supplemental"
          /\ blocker.p \in ToSet(list) =>
                 (pc = "join" <=> blocker.p \in thread_running)
          /\ blocker' = [blocker EXCEPT !.pc = pc]
    /\ Touched({blocker.p})
    /\ UNCHANGED <<pool, thread, connected, plugged>>

JoinPrimary ==
    /\ blocker.pc = "join"
    /\ thread[blocker.p] = "none"
    /\ blocker' = [blocker EXCEPT !.pc = "stop_supplemental"]
    /\ UNCHANGED <<pool, thread, connected, plugged, dangling>>

SupplementalRuns(running) ==
    /\ blocker.s = NoDevice => ~running
    /\ blocker.s \in ToSet(list) => running = (blocker.s \in thread_running)

\* block_on_active returns, with the flags of C cleared.
Finish(C) ==
    /\ active' = active \ C
    /\ thread_running' = thread_running \ C
    /\ blocker' = Idle
    /\ UNCHANGED <<list, primary_index, supplemental_index, thread, plugged>>

\* Mutant: the supplemental is asked to end but not joined.
StopWithoutJoin ==
    /\ blocker.pc = "stop_supplemental"
    /\ \E running \in BOOLEAN :
          /\ SupplementalRuns(running)
          /\ connected' = [drv \in Driver |->
                 connected[drv] /\ ~(running /\ drv = DriverOf[blocker.s])]
    /\ Finish({blocker.p})
    /\ Touched({blocker.s, blocker.p})

\* The captured supplemental is asked to end if its thread runs.
StopSupplemental ==
    /\ blocker.pc = "stop_supplemental"
    /\ \/ /\ SupplementalRuns(TRUE)
          /\ connected' = [connected EXCEPT ![DriverOf[blocker.s]] = FALSE]
          /\ blocker' = [blocker EXCEPT !.pc = "join_supplemental"]
          /\ Touched({blocker.s})
          /\ UNCHANGED <<pool, thread, plugged>>
       \/ /\ SupplementalRuns(FALSE)
          /\ Finish({blocker.p})
          /\ Touched({blocker.s, blocker.p})
          /\ UNCHANGED connected

JoinSupplemental ==
    /\ blocker.pc = "join_supplemental"
    /\ thread[blocker.s] = "none"
    /\ Finish({blocker.s, blocker.p})
    /\ Touched({blocker.s, blocker.p})
    /\ UNCHANGED connected

BlockThread ==
    \/ ConnectPrimary \/ ConnectSupplemental
    \/ connection_pool_block_on_active
    \/ ReadRunning \/ JoinPrimary
    \/ StopSupplemental \/ JoinSupplemental

Next ==
    \/ \E d \in Device : Arrive(d) \/ Leave(d) \/ StreamConnected(d)
    \/ \E drv \in Driver : ConnectionLost(drv)
    \/ connection_pool_disconnect_all
    \/ \E c \in Device : ThreadBlocks(c) \/ ThreadUnblocks(c) \/ ThreadExits(c)
    \/ connection_pool_connect_active
    \/ BlockThread

\* The block loops poll their connection, or wait on a condition variable that
\* disconnect_func signals, and the block_on_device thread is always scheduled.
\* It need not start a session, and no device need come or go.
Fairness ==
    /\ \A c \in Device :
          /\ WF_vars(ThreadBlocks(c)) /\ WF_vars(ThreadUnblocks(c))
          /\ WF_vars(ThreadExits(c))
    /\ WF_vars(BlockThread)

Spec == Init /\ [][Next]_vars
FairSpec == Spec /\ Fairness

-----------------------------------------------------------------------------
(* Properties.                                                             *)

\* Through every order of plugging and removal the two indexes select: there is
\* a primary while there is a connection, and the supplemental is another
\* connection that can be one, missing only when there is none.
SelectionConsistent ==
    /\ primary_index = 0 <=> list = <<>>
    /\ Supplemental # NoDevice =>
           Supplemental \in CanBeSupplemental \ {Primary}
    /\ Supplemental = NoDevice =>
           ToSet(list) \cap CanBeSupplemental \subseteq {Primary}

\* A model is in the pool once, so that removal by model finds the connection.
HidUnique ==
    \A i, j \in DOMAIN list : ModelOf[list[i]] = ModelOf[list[j]] => i = j

\* The flag that guards pthread_create and pthread_join says whether a thread
\* is there, for every connection that was not freed: no connection gets two
\* threads, and none is waited for that will not come.
RunningFlagExact ==
    \A c \in ToSet(list) :
        c \in thread_running <=> thread[c] # "none"

\* The pool holds only what is there (connection_pool.h:62-65: a connection is
\* removed by its unique source id).  Drivers remove by driver id, so this
\* needs glasses of distinct drivers.
PoolMirrorsBus == ToSet(list) \subseteq plugged

\* connection_pool.h:50-53: block_on_active returns when the primary stops
\* blocking.  At its return the threads it waited for have ended, unless it
\* went by the flags of a connection that was freed.
BlockingEndsWithThreads ==
    [][blocker.pc \in {"stop_supplemental", "join_supplemental"}
            /\ blocker'.pc = "idle" =>
       \A c \in {blocker.p, blocker.s} \ (dangling' \cup {NoDevice}) :
           thread'[c] = "none"]_vars

\* Glasses that are primary stay primary while they are plugged in: the primary
\* of the session does not change under it when others come and go.
GlassesPrimaryStable ==
    [][(Primary \in ToSet(list') \ CanBeSupplemental) => Primary' = Primary]_vars

\* The thread of glasses that were unplugged ends, and block_on_active stops
\* waiting for it.  (A probe that connects, or an OpenTrack stream that resumes,
\* may take the connection up again before the thread noticed.)
RemovalUnblocks ==
    \A d \in {e \in Device \ CanBeSupplemental : DriverOf[e] \notin ConnectsOnProbe} :
        (blocker.pc = "join" /\ blocker.p = d /\ d \notin ToSet(list))
            ~> ~(blocker.pc = "join" /\ blocker.p = d)

\* connection_pool.h:62-65: the removed connection is disconnected and cleanup
\* occurs when its thread exits, so no thread works with a freed connection.
NoFreedConnectionUsed == dangling = {}
=============================================================================
