------------------------------ MODULE XRDriver ------------------------------
(***************************************************************************)
(* driver.c: the threads of the driver around the runtime context (module  *)
(* DeviceContext) and the connection pool (module ConnectionPool).         *)
(*                                                                         *)
(*   Handler         runs handle_device_connection_changed: the usb        *)
(*                   monitor thread, and the OpenTrack listener            *)
(*   block_on_device block_on_device_thread_func                           *)
(*   a Device        the pool's thread that blocks on that connection; it  *)
(*                   holds a reference to the runtime device meanwhile     *)
(*   StateThread     manage_state, and every other short checkout scope    *)
(*   ConfigThread    update_config_from_file                               *)
(*   ControlThread   handle_control_flags_update, for force_quit           *)
(*                                                                         *)
(* A call of the runtime context that changed the device ends with the     *)
(* callback evaluate_block_on_device_ready, outside the mutex: the thread  *)
(* is in `evaluating' until it has run it.                                 *)
(***************************************************************************)
EXTENDS Naturals, Sequences, FiniteSets, SequencesExt

CONSTANTS
    Device, Model, ModelOf, Driver, DriverOf, CanBeSupplemental, ConnectsOnProbe,
    NoDevice, Owner,
    Handler, HandlerOf,  \* the thread that reports each device
    StateThread, ConfigThread, ControlThread,
    MayDisable, MayQuit, \* whether the user disables the driver, or quits it
    SlowReplug           \* a model is plugged in again only after the object of
                         \* its last connection was released

ASSUME DriverAssumption ==
    /\ HandlerOf \in [Device -> Handler]
    /\ {MayDisable, MayQuit, SlowReplug} \subseteq BOOLEAN

VARIABLES
    list, primary_index, supplemental_index, active, thread_running, thread,
    connected, plugged, blocker, dangling,
    device, queued_device, device_ref_count, allocated, primary_device_ref,
    borrowing, borrowed,
    handler,               \* progress of each Handler, and its new_primary
    block_on_device_ready,
    block_pc,              \* block_on_device_thread_func
    outputs,               \* between init_outputs and deinit_outputs
    disabled,              \* config()->disabled
    force_quit,
    disconnecting,         \* the threads about to call disconnect_all
    evaluating             \* and evaluate_block_on_device_ready

poolVars == <<list, primary_index, supplemental_index, active, thread_running,
              thread, connected, plugged, blocker, dangling>>
contextVars == <<device, queued_device, device_ref_count, allocated,
                 primary_device_ref, borrowing, borrowed>>
driverVars == <<handler, block_on_device_ready, block_pc, outputs, disabled,
                force_quit, disconnecting, evaluating>>
vars == <<poolVars, contextVars, driverVars>>

Pool == INSTANCE ConnectionPool
Context == INSTANCE DeviceContext WITH Borrower <- Device \cup {StateThread}

ASSUME PartsAssumption ==
    Pool!PoolAssumption /\ Context!DeviceAssumption /\ Context!HolderAssumption

Thread == Device \cup Handler \cup {StateThread, ConfigThread, ControlThread}

TypeOK ==
    /\ Pool!TypeOK
    /\ Context!TypeOK
    /\ handler \in [Handler -> [pc : {"idle", "select", "release", "unready", "install"},
                                new : Device \cup {NoDevice}]]
    /\ block_on_device_ready \in BOOLEAN
    /\ block_pc \in {"loop", "wait", "connect", "connecting", "start", "block",
                     "stop", "after", "exited"}
    /\ outputs \in BOOLEAN
    /\ disabled \in BOOLEAN
    /\ force_quit \in BOOLEAN
    /\ disconnecting \subseteq {ConfigThread, ControlThread}
    /\ evaluating \subseteq Thread

Idle == [pc |-> "idle", new |-> NoDevice]

Init ==
    /\ Pool!Init
    /\ Context!Init
    /\ handler = [h \in Handler |-> Idle]
    /\ block_on_device_ready = FALSE
    /\ block_pc = "loop"
    /\ outputs = FALSE
    /\ disabled = FALSE
    /\ force_quit = FALSE
    /\ disconnecting = {}
    /\ evaluating = {}

-----------------------------------------------------------------------------
(* evaluate_block_on_device_ready.                                         *)

\* Mutant: nobody is told that the device changed.
OwesNoCallback(t) == UNCHANGED evaluating

\* The callback of thread t is due if its call changed the device.
OwesCallback(t) ==
    evaluating' = evaluating \cup (IF device' # device THEN {t} ELSE {})

\* Mutant: quitting does not make the thread ready.
EvaluateNeverQuit(t) ==
    /\ t \in evaluating
    /\ block_on_device_ready' = (~disabled /\ Context!device_present)
    /\ evaluating' = evaluating \ {t}
    /\ UNCHANGED <<poolVars, contextVars, handler, block_pc, outputs, disabled,
                   force_quit, disconnecting>>

evaluate_block_on_device_ready(t) ==
    /\ t \in evaluating
    /\ block_on_device_ready' =
           (force_quit \/ (~disabled /\ Context!device_present))
    /\ evaluating' = evaluating \ {t}
    /\ UNCHANGED <<poolVars, contextVars, handler, block_pc, outputs, disabled,
                   force_quit, disconnecting>>

-----------------------------------------------------------------------------
(* handle_device_connection_changed.                                       *)

\* The pointers to devices that the driver still has.
Referenced == {device, queued_device, primary_device_ref}
                \cup {borrowed[b] : b \in Device \cup {StateThread}}
                \cup {handler[h].new : h \in Handler}

At(h, pc) == handler[h].pc = pc /\ h \notin evaluating

\* The usb thread's last call of libusb may report what happens after force_quit;
\* a device that comes that late is left out, one that leaves is not.
Arrive(h, d) ==
    /\ At(h, "idle") /\ h = HandlerOf[d] /\ ~force_quit
    /\ d \notin Referenced
    /\ SlowReplug => ~Context!device_equal(d, device)
    /\ Pool!Arrive(d)
    /\ DriverOf[d] \in ConnectsOnProbe => connected'[DriverOf[d]] = ~disabled
    /\ allocated' = IF Pool!ModelInPool(ModelOf[d]) THEN allocated
                                                    ELSE allocated \cup {d}
    /\ handler' = [handler EXCEPT ![h].pc = "select"]
    /\ UNCHANGED <<device, queued_device, device_ref_count, primary_device_ref,
                   borrowing, borrowed, block_on_device_ready, block_pc, outputs,
                   disabled, force_quit, disconnecting, evaluating>>

Leave(h, d) ==
    /\ At(h, "idle") /\ h = HandlerOf[d]
    /\ Pool!Leave(d)
    /\ handler' = IF Pool!ModelInPool(ModelOf[d])
                  THEN [handler EXCEPT ![h].pc = "select"] ELSE handler
    /\ UNCHANGED <<contextVars, block_on_device_ready, block_pc, outputs, disabled,
                   force_quit, disconnecting, evaluating>>

\* The pool's primary is compared with the reference that is held.
Select(h) ==
    /\ At(h, "select")
    /\ handler' = [handler EXCEPT ![h] =
           IF Pool!Primary = primary_device_ref THEN Idle
           ELSE [pc |-> IF primary_device_ref # NoDevice THEN "release" ELSE "install",
                 new |-> Pool!Primary]]
    /\ UNCHANGED <<poolVars, contextVars, block_on_device_ready, block_pc, outputs,
                   disabled, force_quit, disconnecting, evaluating>>

\* Mutant: the reference is forgotten but not given back.
ReleaseWithoutCheckin(h) ==
    /\ At(h, "release")
    /\ primary_device_ref' = NoDevice
    /\ handler' = [handler EXCEPT ![h].pc = "unready"]
    /\ UNCHANGED <<poolVars, device, queued_device, device_ref_count, allocated,
                   borrowing, borrowed, block_on_device_ready, block_pc,
                   outputs, disabled, force_quit, disconnecting, evaluating>>

Release(h) ==
    /\ At(h, "release")
    /\ Context!device_checkin(primary_device_ref)
    /\ primary_device_ref' = NoDevice
    /\ handler' = [handler EXCEPT ![h].pc = "unready"]
    /\ OwesCallback(h)
    /\ UNCHANGED <<poolVars, borrowing, borrowed, block_on_device_ready, block_pc,
                   outputs, disabled, force_quit, disconnecting>>

Unready(h) ==
    /\ At(h, "unready")
    /\ block_on_device_ready' = FALSE
    /\ handler' = [handler EXCEPT ![h] =
           IF @.new = NoDevice THEN Idle ELSE [@ EXCEPT !.pc = "install"]]
    /\ UNCHANGED <<poolVars, contextVars, block_pc, outputs, disabled, force_quit,
                   disconnecting, evaluating>>

Install(h) ==
    /\ At(h, "install")
    /\ Context!set_device_and_checkout(handler[h].new)
    /\ primary_device_ref' = handler[h].new
    /\ handler' = [handler EXCEPT ![h] = Idle]
    /\ OwesCallback(h)
    /\ UNCHANGED <<poolVars, allocated, borrowing, borrowed, block_on_device_ready,
                   block_pc, outputs, disabled, force_quit, disconnecting>>

HandlerStep(h) == Select(h) \/ Release(h) \/ Unready(h) \/ Install(h)

-----------------------------------------------------------------------------
(* The threads that borrow the device.                                     *)

StateCheckout ==
    /\ StateThread \notin evaluating
    /\ Context!device_checkout(StateThread)
    /\ UNCHANGED <<poolVars, driverVars>>

StateCheckin ==
    /\ Context!Return(StateThread)
    /\ OwesCallback(StateThread)
    /\ UNCHANGED <<poolVars, handler, block_on_device_ready, block_pc, outputs,
                   disabled, force_quit, disconnecting>>

\* The block loops of the glasses need a device, OpenTrack's does not.
ThreadBlocks(c) ==
    /\ Context!device_present \/ c \in CanBeSupplemental
    /\ Pool!ThreadBlocks(c)
    /\ Context!device_checkout(c)
    /\ UNCHANGED driverVars

ThreadUnblocks(c) ==
    /\ thread[c] = "starting" => ~Context!device_present
    /\ Pool!ThreadUnblocks(c)
    /\ UNCHANGED <<contextVars, driverVars>>

ThreadCheckin(c) ==
    /\ thread[c] = "ending"
    /\ Context!Return(c)
    /\ OwesCallback(c)
    /\ UNCHANGED <<poolVars, handler, block_on_device_ready, block_pc, outputs,
                   disabled, force_quit, disconnecting>>

ThreadExits(c) ==
    /\ c \notin borrowing \cup evaluating
    /\ Pool!ThreadExits(c)
    /\ UNCHANGED <<contextVars, driverVars>>

\* A driver that loses its connection, or an OpenTrack packet.
ConnectionChanges ==
    /\ \/ \E drv \in Driver : Pool!ConnectionLost(drv)
       \/ \E d \in Device : Pool!StreamConnected(d)
    /\ UNCHANGED <<contextVars, driverVars>>

-----------------------------------------------------------------------------
(* block_on_device_thread_func.                                            *)

BlockTo(pc) ==
    /\ block_pc' = pc
    /\ UNCHANGED <<contextVars, handler, block_on_device_ready, disabled, force_quit,
                   disconnecting, evaluating>>

BlockLoop ==
    /\ block_pc = "loop"
    /\ BlockTo(IF force_quit THEN "exited" ELSE "wait")
    /\ UNCHANGED <<poolVars, outputs>>

BlockWait ==
    /\ block_pc = "wait" /\ block_on_device_ready
    /\ BlockTo(IF force_quit THEN "after" ELSE "connect")
    /\ UNCHANGED <<poolVars, outputs>>

BlockConnect ==
    /\ block_pc = "connect"
    /\ \/ /\ Pool!Primary = NoDevice
          /\ BlockTo("after")
          /\ UNCHANGED poolVars
       \/ /\ Pool!connection_pool_connect_active
          /\ BlockTo("connecting")
    /\ UNCHANGED outputs

BlockConnecting ==
    /\ block_pc = "connecting"
    /\ Pool!ConnectPrimary \/ Pool!ConnectSupplemental
    /\ BlockTo(CASE blocker'.pc = "idle" -> "after"
                 [] blocker'.pc = "connected" -> "start"
                 [] OTHER -> "connecting")
    /\ UNCHANGED outputs

\* reset_calibration, the plugins' handle_device_connect and init_outputs.
BlockStart ==
    /\ block_pc = "start"
    /\ outputs' = TRUE
    /\ BlockTo("block")
    /\ UNCHANGED poolVars

BlockOnActive ==
    /\ block_pc = "block"
    /\ \/ Pool!connection_pool_block_on_active
       \/ Pool!ReadRunning \/ Pool!JoinPrimary
       \/ Pool!StopSupplemental \/ Pool!JoinSupplemental
    /\ BlockTo(IF blocker'.pc = "idle" THEN "stop" ELSE "block")
    /\ UNCHANGED outputs

\* The OpenTrack plugin's handle_device_disconnect disconnects its driver.
BlockStop ==
    /\ block_pc = "stop"
    /\ outputs' = FALSE
    /\ connected' = [drv \in Driver |->
           connected[drv] /\ \A d \in CanBeSupplemental : DriverOf[d] # drv]
    /\ BlockTo("after")
    /\ UNCHANGED <<list, primary_index, supplemental_index, active, thread_running,
                   thread, plugged, blocker, dangling>>

BlockAfter ==
    /\ block_pc = "after"
    /\ BlockTo("loop")
    /\ UNCHANGED <<poolVars, outputs>>

BlockThread ==
    \/ BlockLoop \/ BlockWait \/ BlockConnect \/ BlockConnecting
    \/ BlockStart \/ BlockOnActive \/ BlockStop \/ BlockAfter

-----------------------------------------------------------------------------
(* The user.                                                               *)

connection_pool_is_connected ==
    Pool!Primary # NoDevice /\ connected[DriverOf[Pool!Primary]]

\* update_config_from_file, up to the new value.
SetDisabled(value) ==
    /\ MayDisable /\ disabled # value
    /\ ConfigThread \notin disconnecting \cup evaluating
    /\ disabled' = value
    /\ disconnecting' = disconnecting \cup (IF value THEN {ConfigThread} ELSE {})
    /\ evaluating' = evaluating \cup (IF value THEN {} ELSE {ConfigThread})
    /\ UNCHANGED <<poolVars, contextVars, handler, block_on_device_ready, block_pc,
                   outputs, force_quit>>

\* handle_control_flags_update, up to force_quit = true: the request is ignored
\* unless the driver is connected.
Quit ==
    /\ MayQuit
    /\ connection_pool_is_connected
    /\ force_quit' = TRUE
    /\ disconnecting' = disconnecting \cup {ControlThread}
    /\ UNCHANGED <<poolVars, contextVars, handler, block_on_device_ready, block_pc,
                   outputs, disabled, evaluating>>

\* Disabling disconnects only a driver that is connected.
DisconnectAll(t) ==
    /\ t \in disconnecting
    /\ IF list # <<>> /\ (t = ControlThread \/ connection_pool_is_connected)
       THEN Pool!connection_pool_disconnect_all
       ELSE UNCHANGED poolVars
    /\ disconnecting' = disconnecting \ {t}
    /\ evaluating' = evaluating \cup {t}
    /\ UNCHANGED <<contextVars, handler, block_on_device_ready, block_pc, outputs,
                   disabled, force_quit>>

Next ==
    \/ \E h \in Handler :
          \/ \E d \in Device : Arrive(h, d) \/ Leave(h, d)
          \/ HandlerStep(h)
    \/ \E t \in Thread : evaluate_block_on_device_ready(t)
    \/ StateCheckout \/ StateCheckin
    \/ \E c \in Device : ThreadBlocks(c) \/ ThreadUnblocks(c)
                            \/ ThreadCheckin(c) \/ ThreadExits(c)
    \/ ConnectionChanges
    \/ BlockThread
    \/ \E value \in BOOLEAN : SetDisabled(value)
    \/ Quit
    \/ \E t \in {ConfigThread, ControlThread} : DisconnectAll(t)

\* Every thread that can run does.  Nothing is assumed of the user, the bus or
\* the glasses.
Fairness ==
    /\ \A h \in Handler : WF_vars(HandlerStep(h))
    /\ \A t \in Thread : WF_vars(evaluate_block_on_device_ready(t))
    /\ WF_vars(StateCheckin)
    /\ \A c \in Device : WF_vars(ThreadBlocks(c) \/ ThreadUnblocks(c)
                                    \/ ThreadCheckin(c) \/ ThreadExits(c))
    /\ WF_vars(BlockThread)
    /\ \A t \in {ConfigThread, ControlThread} : WF_vars(DisconnectAll(t))

Spec == Init /\ [][Next]_vars
FairSpec == Spec /\ Fairness

-----------------------------------------------------------------------------
(* Properties.                                                             *)

\* The reference count of the runtime device stays exact under the interleaving
\* of the hotplug handler's steps with the pool's threads and the callbacks.
ReferencesCounted == Context!RefCountExact

\* Nobody's device is freed under them: neither the runtime context's and its
\* borrowers', nor those the pool's connections point to, whose lifetime the
\* hotplug handler alone guarantees (driver.c:624-626).
DevicesAllocated ==
    /\ Context!NoUseAfterFree
    /\ \A h \in Handler : handler[h].new \in allocated \cup {NoDevice}
    /\ (\A h \in Handler : handler[h].pc = "idle") => ToSet(list) \subseteq allocated

\* The readiness of the block_on_device thread is not stale (driver.c:287-288):
\* when no thread has anything left to do about a change, and the primary is
\* the runtime device, the flag is what its conditions are.
ReadySettled ==
    /\ \A h \in Handler : handler[h] = Idle
    /\ evaluating = {} /\ disconnecting = {}
    /\ queued_device = NoDevice
    /\ Context!device_equal(primary_device_ref, device)
    => block_on_device_ready = (force_quit \/ ~disabled)

\* A primary that stays plugged in while the driver is enabled gets a session,
\* or at least an attempt to connect, whatever was going on when it came.
PrimaryServed ==
    \A d \in Device :
        (Pool!Primary = d /\ ~disabled /\ ~force_quit)
            ~> (blocker.p = d \/ Pool!Primary # d \/ disabled \/ force_quit)

\* driver.c:551 says that the driver is exiting: force_quit ends the
\* block_on_device thread, which main joins.
QuitTerminates == force_quit ~> (block_pc = "exited")

\* README.md:42: disabling the driver turns off mouse movements, so a session
\* does not outlast it for ever.
DisableStops == disabled ~> (~outputs \/ ~disabled \/ force_quit)
=============================================================================
