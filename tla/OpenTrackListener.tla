------------------------- MODULE OpenTrackListener -------------------------
(***************************************************************************)
(* opentrack_listener.c: a UDP stream as a device.  The listener thread    *)
(* registers a connection when packets come and removes it when they stop; *)
(* the config thread starts and stops that thread when the configuration   *)
(* changes; the block_on_device thread connects and disconnects the        *)
(* stream's driver.  They share ot_cfg, udp_fd, connected and              *)
(* listener_running, of which conn_mutex only guards the wait for          *)
(* `connected'.                                                            *)
(*                                                                         *)
(* The connection pool (module ConnectionPool) is reduced to whether it    *)
(* has OpenTrack's connection.  The first configuration is read by main    *)
(* like any other, over the default one.                                   *)
(***************************************************************************)
CONSTANTS Listener, Config  \* the two threads

ThreadAssumption == Listener # Config

VARIABLES
    enabled,          \* ot_cfg->enabled, FALSE without an ot_cfg
    disabled,         \* config()->disabled
    feedback_guard,   \* feedback_loop_ignore
    socket,           \* udp_fd is open
    connected,
    registered,       \* connection_pool_find_driver_connection(OT_DRIVER_ID)
    listener_running,
    pc,               \* of both threads
    new_config,       \* the configuration being applied, and whether
                      \* driver_reenabled led to opentrack_start_func
    connecting,       \* opentrack_device_connect was chosen by connect_active
    streaming         \* packets come at less than the timeout's distance

settings == <<enabled, disabled, feedback_guard>>
shared == <<socket, connected, registered, listener_running>>
environment == <<connecting, streaming>>
vars == <<settings, shared, pc, new_config, environment>>

Thread == {Listener, Config}

ListenerPC == {"none", "loop", "select", "received", "add", "mark", "exit"}
ConfigPC == {"idle", "swap", "start", "close", "join", "create", "guard", "apply"}
\* listener_device_disconnect, which both threads call.
DisconnectPC == {"find", "remove", "clear"}

TypeOK ==
    /\ {enabled, disabled, feedback_guard} \subseteq BOOLEAN
    /\ {socket, connected, registered, listener_running} \subseteq BOOLEAN
    /\ pc[Listener] \in ListenerPC \cup DisconnectPC
    /\ pc[Config] \in ConfigPC \cup DisconnectPC
    /\ DOMAIN pc = Thread
    /\ new_config \in [enabled : BOOLEAN, disabled : BOOLEAN, loopback : BOOLEAN,
                       restart : BOOLEAN, guarding : BOOLEAN]
    /\ {connecting, streaming} \subseteq BOOLEAN

Init ==
    /\ enabled = FALSE /\ disabled = TRUE /\ feedback_guard = FALSE
    /\ socket = FALSE /\ connected = FALSE /\ registered = FALSE
    /\ listener_running = FALSE
    /\ pc = [t \in Thread |-> IF t = Listener THEN "none" ELSE "idle"]
    /\ new_config = [enabled |-> FALSE, disabled |-> TRUE, loopback |-> FALSE,
                     restart |-> FALSE, guarding |-> FALSE]
    /\ connecting = FALSE /\ streaming = FALSE

Goto(t, label) == pc' = [pc EXCEPT ![t] = label]

\* What a read of ot_cfg->enabled returns: anything while ot_cfg is freed.
ReadsOfEnabled == IF pc[Config] = "swap" THEN BOOLEAN ELSE {enabled}

-----------------------------------------------------------------------------
(* listener_device_disconnect.                                             *)

Find(t) ==
    /\ pc[t] = "find"
    /\ Goto(t, IF registered THEN "remove" ELSE "clear")
    /\ UNCHANGED <<settings, shared, new_config, environment>>

\* handle_device_connection_changed(false, ...): the pool disconnects what it
\* removes, and nothing happens if the other thread removed it first.
Remove(t) ==
    /\ pc[t] = "remove"
    /\ registered' = FALSE
    /\ connected' = (connected /\ ~registered)
    /\ Goto(t, "clear")
    /\ UNCHANGED <<settings, socket, listener_running, new_config, environment>>

\* Mutant: only the pool is told.
ClearNothing(t) ==
    /\ pc[t] = "clear"
    /\ Goto(t, IF t = Listener THEN "loop"
               ELSE IF new_config.guarding THEN "apply" ELSE "close")
    /\ UNCHANGED <<settings, shared, new_config, environment>>

Clear(t) ==
    /\ pc[t] = "clear"
    /\ connected' = FALSE
    /\ Goto(t, IF t = Listener THEN "loop"
               ELSE IF new_config.guarding THEN "apply" ELSE "close")
    /\ UNCHANGED <<settings, socket, registered, listener_running, new_config,
                   environment>>

-----------------------------------------------------------------------------
(* opentrack_listener_thread_func.                                         *)

\* Mutant: only the driver's own switch ends the loop.
LoopWhileDriverEnabled ==
    /\ pc[Listener] = "loop"
    /\ Goto(Listener, IF disabled THEN "exit" ELSE "select")
    /\ UNCHANGED <<settings, shared, new_config, environment>>

Loop ==
    /\ pc[Listener] = "loop"
    /\ \E on \in ReadsOfEnabled :
          Goto(Listener, IF ~disabled /\ on /\ socket THEN "select" ELSE "exit")
    /\ UNCHANGED <<settings, shared, new_config, environment>>

\* select times out; also if the socket was closed meanwhile.
Timeout ==
    /\ pc[Listener] = "select"
    /\ ~streaming \/ ~socket
    /\ Goto(Listener, IF connected THEN "find" ELSE "loop")
    /\ UNCHANGED <<settings, shared, new_config, environment>>

\* select or recvfrom fails: a closed socket, a signal.
ReceiveFails ==
    /\ pc[Listener] = "select"
    /\ Goto(Listener, "loop")
    /\ UNCHANGED <<settings, shared, new_config, environment>>

\* A packet is received, and dropped by the feedback guard.
Receive ==
    /\ pc[Listener] = "select"
    /\ streaming /\ socket
    /\ Goto(Listener, IF feedback_guard THEN "loop" ELSE "received")
    /\ UNCHANGED <<settings, shared, new_config, environment>>

\* The first packet registers the stream; the others only feed its pose.
Accept ==
    /\ pc[Listener] = "received"
    /\ Goto(Listener, IF connected THEN "loop" ELSE "add")
    /\ UNCHANGED <<settings, shared, new_config, environment>>

\* handle_device_connection_changed(true, ...).  A stream that becomes the
\* supplemental of a session is connected by the pool.
Add ==
    /\ pc[Listener] = "add"
    /\ registered' = TRUE
    /\ \E on \in ReadsOfEnabled :
          connected' \in {connected} \cup
                         (IF registered THEN {} ELSE {on /\ socket})
    /\ Goto(Listener, "mark")
    /\ UNCHANGED <<settings, socket, listener_running, new_config, environment>>

Mark ==
    /\ pc[Listener] = "mark"
    /\ connected' = TRUE
    /\ Goto(Listener, "loop")
    /\ UNCHANGED <<settings, socket, registered, listener_running, new_config,
                   environment>>

Exit ==
    /\ pc[Listener] = "exit"
    /\ listener_running' = FALSE
    /\ Goto(Listener, "none")
    /\ UNCHANGED <<settings, socket, connected, registered, new_config, environment>>

ListenerStep ==
    \/ Loop \/ Timeout \/ ReceiveFails \/ Receive \/ Accept \/ Add \/ Mark \/ Exit
    \/ Find(Listener) \/ Remove(Listener) \/ Clear(Listener)

-----------------------------------------------------------------------------
(* update_config_from_file.                                                *)

\* plugins.set_config, called by parse_config_file, frees the old ot_cfg.
set_config ==
    /\ pc[Config] = "idle"
    /\ \E on, off, loop \in BOOLEAN :
          new_config' = [enabled |-> on, disabled |-> off, loopback |-> loop,
                         restart |-> FALSE, guarding |-> FALSE]
    /\ Goto(Config, "swap")
    /\ UNCHANGED <<settings, shared, environment>>

Swap ==
    /\ pc[Config] = "swap"
    /\ enabled' = new_config.enabled
    /\ Goto(Config, "start")
    /\ UNCHANGED <<disabled, feedback_guard, shared, new_config, environment>>

\* Where opentrack_start_func returns to.
AfterStart == IF new_config.restart THEN "idle" ELSE "guard"

\* opentrack_start_func, with the driver's old `disabled' when it is called by
\* set_config.  An open socket is kept, whatever its address; binding may fail.
opentrack_start_func ==
    /\ pc[Config] = "start"
    /\ \/ /\ disabled \/ ~enabled
          /\ Goto(Config, "find")
          /\ UNCHANGED socket
       \/ /\ ~disabled /\ enabled
          /\ socket' = TRUE
          /\ Goto(Config, "create")
       \/ /\ ~disabled /\ enabled /\ ~socket
          /\ Goto(Config, AfterStart)
          /\ UNCHANGED socket
    /\ UNCHANGED <<settings, connected, registered, listener_running, new_config,
                   environment>>

\* Mutant: the thread is not joined.
CloseOnly ==
    /\ pc[Config] = "close"
    /\ socket' = FALSE
    /\ Goto(Config, AfterStart)
    /\ UNCHANGED <<settings, connected, registered, listener_running, new_config,
                   environment>>

opentrack_close_socket ==
    /\ pc[Config] = "close"
    /\ socket' = FALSE
    /\ Goto(Config, IF listener_running THEN "join" ELSE AfterStart)
    /\ UNCHANGED <<settings, connected, registered, listener_running, new_config,
                   environment>>

Join ==
    /\ pc[Config] = "join"
    /\ pc[Listener] = "none"
    /\ listener_running' = FALSE
    /\ Goto(Config, AfterStart)
    /\ UNCHANGED <<settings, socket, connected, registered, new_config, environment>>

Create ==
    /\ pc[Config] = "create"
    /\ listener_running' = TRUE
    /\ pc' = [pc EXCEPT ![Config] = AfterStart,
                        ![Listener] = IF listener_running THEN @ ELSE "loop"]
    /\ UNCHANGED <<settings, socket, connected, registered, new_config, environment>>

update_feedback_guard ==
    /\ pc[Config] = "guard"
    /\ feedback_guard' = (enabled /\ new_config.loopback)
    /\ Goto(Config, IF feedback_guard' /\ ~feedback_guard THEN "find" ELSE "apply")
    /\ new_config' = [new_config EXCEPT !.guarding = TRUE]
    /\ UNCHANGED <<enabled, disabled, shared, environment>>

\* update_config, disconnect_all if the pool's primary is connected, and
\* plugins.start if the driver is enabled again.
Apply ==
    /\ pc[Config] = "apply"
    /\ disabled' = new_config.disabled
    /\ connected' \in {connected} \cup (IF disabled' /\ registered THEN {FALSE} ELSE {})
    /\ Goto(Config, IF disabled /\ ~disabled' THEN "start" ELSE "idle")
    /\ new_config' = [new_config EXCEPT !.restart = TRUE, !.guarding = FALSE]
    /\ UNCHANGED <<enabled, feedback_guard, socket, registered, listener_running,
                   environment>>

ConfigStep ==
    \/ Swap \/ opentrack_start_func \/ opentrack_close_socket \/ Join \/ Create
    \/ update_feedback_guard \/ Apply
    \/ Find(Config) \/ Remove(Config) \/ Clear(Config)

-----------------------------------------------------------------------------
(* The block_on_device thread and the sender of the stream.                *)

\* connection_pool_connect_active reads the pool's connections.
Choose ==
    /\ registered /\ ~connecting
    /\ connecting' = TRUE
    /\ UNCHANGED <<settings, shared, pc, new_config, streaming>>

opentrack_device_connect ==
    /\ connecting
    /\ \E on \in ReadsOfEnabled : connected' = (on /\ socket)
    /\ connecting' = FALSE
    /\ UNCHANGED <<settings, socket, registered, listener_running, pc, new_config,
                   streaming>>

\* The end of a session.
opentrack_disconnect ==
    /\ connected
    /\ connected' = FALSE
    /\ UNCHANGED <<settings, socket, registered, listener_running, pc, new_config,
                   environment>>

Stream ==
    /\ streaming' = ~streaming
    /\ UNCHANGED <<settings, shared, pc, new_config, connecting>>

Next ==
    \/ ListenerStep
    \/ set_config \/ ConfigStep
    \/ Choose \/ opentrack_device_connect \/ opentrack_disconnect
    \/ Stream

\* Both threads are scheduled, and select returns after 500 ms at the latest:
\* with a packet that came, if they come at all.
Fairness ==
    /\ WF_vars(ListenerStep)
    /\ SF_vars(Timeout)
    /\ WF_vars(ConfigStep)

Spec == Init /\ [][Next]_vars
FairSpec == Spec /\ Fairness

-----------------------------------------------------------------------------
(* Properties.                                                             *)

\* When a configuration that disables the listener was applied, the thread has
\* ended and the socket is closed, whatever the thread was doing (the comment
\* of opentrack_start_func: "stop listener and close socket").
StopsListening ==
    pc[Config] = "idle" /\ ~enabled =>
        pc[Listener] = "none" /\ ~listener_running /\ ~socket

\* pthread_join in opentrack_start_func does not block the config thread for
\* ever: the listener thread sees what ends its loop, which was set before.
ConfigReturns == (pc[Config] # "idle") ~> (pc[Config] = "idle")

\* A stream that went silent is disconnected while there is a listener.
SilentStreamEnds ==
    (connected /\ pc[Listener] # "none" /\ ~streaming)
        ~> (~connected \/ pc[Listener] = "none" \/ streaming)

\* opentrack_listener.c:435: the listener thread manages registration and idle
\* disconnect, so where it was stopped no stream stays registered.
NothingLeftRegistered == pc[Config] = "idle" /\ ~enabled => ~registered
=============================================================================
