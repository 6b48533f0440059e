---------------------------- MODULE XrealSession ----------------------------
(***************************************************************************)
(* devices/xreal.c.  A session has three threads: xreal_block_on_device,   *)
(* poll_imu_func, which reads the IMU, and poll_controller_func, which     *)
(* talks to the MCU.  Each of them ends when it sees that another one has  *)
(* ended, or that connected is FALSE, which all of them, the hotplug and   *)
(* the config thread use without a lock.                                   *)
(***************************************************************************)
EXTENDS DeviceHost

CONSTANTS
    Hid,       \* models that are read over HID
    Heartbeat  \* models whose MCU is not read

VARIABLES
    connected, mcu_enabled,
    model,      \* use_hid_transport and mcu_heartbeat_required are this model's
    imu, controller, \* glasses_imu and glasses_controller: open until the glasses go
    mcu_exited, \* device_driver_mcu_exited
    imu_thread, controller_thread,
    keep        \* connected, as it was read by the last connected &= ...

xrealVars == <<connected, mcu_enabled, model, imu, controller, mcu_exited, imu_thread,
               controller_thread, keep>>
use_hid_transport == model \in Hid
mcu_heartbeat_required == model \in Heartbeat

TypeOK ==
    /\ {connected, mcu_enabled, mcu_exited, keep} \subseteq BOOLEAN
    /\ model \in Glasses \cup {NoGlasses}
    /\ {imu, controller} \subseteq {"null", "open", "broken"}
    /\ imu_thread \in {"none", "poll", "wait", "done"}
    /\ controller_thread \in {"none", "start", "poll", "close", "free", "done"}
    /\ imu_thread = "poll" => imu # "null"
    /\ imu_thread = "done" => imu = "null"

Init ==
    /\ connected = FALSE /\ mcu_enabled = FALSE /\ model = NoGlasses
    /\ imu = "null" /\ controller = "null" /\ mcu_exited = FALSE
    /\ imu_thread = "none" /\ controller_thread = "none" /\ keep = FALSE

-----------------------------------------------------------------------------
(* xreal_device_connect.                                                   *)

OpenController ==
    /\ session = "connect"
    /\ imu' = "null"
    /\ IF use_hid_transport
       THEN /\ mcu_enabled' \in {FALSE, plugged # NoGlasses}
            /\ controller' = "open"
       ELSE UNCHANGED <<mcu_enabled, controller>>
    /\ Go("connect_imu")
    /\ UNCHANGED <<context, connected, model, mcu_exited, imu_thread, controller_thread, keep>>

OpenImu ==
    /\ session = "connect_imu"
    /\ connected' \in {FALSE, (mcu_enabled \/ ~mcu_heartbeat_required) /\ plugged # NoGlasses}
    /\ imu' = IF connected' THEN "open" ELSE "null"
    /\ Go("connected_imu")
    /\ UNCHANGED <<context, mcu_enabled, model, controller, mcu_exited, imu_thread,
                   controller_thread, keep>>

\* Without an MCU, the result of device_checkout is used as it is.
CloseController ==
    /\ session = "connected_imu"
    /\ IF mcu_enabled
       THEN UNCHANGED controller /\ Go(IF connected THEN "connected" ELSE "idle")
       ELSE /\ controller' = "null"
            /\ Go(IF ~device_present THEN "crashed"
                  ELSE IF connected THEN "connected" ELSE "idle")
    /\ UNCHANGED <<context, connected, mcu_enabled, model, imu, mcu_exited, imu_thread,
                   controller_thread, keep>>

\* xreal_supported_device.
Probe ==
    /\ usb = "probe"
    /\ usb' = "announce"
    /\ model' = arriving
    /\ UNCHANGED <<plugged, events, arriving, entry, context, session, disabled,
                   disconnecting, alive>>
    /\ UNCHANGED <<connected, mcu_enabled, imu, controller, mcu_exited, imu_thread,
                   controller_thread, keep>>

-----------------------------------------------------------------------------
(* poll_imu_func.                                                          *)

\* What it polls is there, and nothing ended the session.
Polls == connected /\ (~mcu_enabled \/ controller # "null") /\ imu = "open"

Streams == imu_thread = "poll" /\ Polls /\ ~disabled

handle_xreal_event == Streams /\ Healthy /\ UNCHANGED xrealVars

imuRest == <<connected, mcu_enabled, model, controller, mcu_exited, controller_thread, keep>>

PollImuEnds ==
    /\ imu_thread = "poll" /\ ~Polls
    /\ imu_thread' = "wait"
    /\ UNCHANGED <<host, imu, imuRest>>

CloseImu ==
    /\ imu_thread = "wait" /\ mcu_exited
    /\ imu' = "null" /\ imu_thread' = "done"
    /\ UNCHANGED <<host, imuRest>>

(* poll_controller_func.                                                   *)

controllerRest == <<connected, mcu_enabled, model, imu, imu_thread, keep>>

PollControllerStarts ==
    /\ controller_thread = "start"
    /\ mcu_exited' = FALSE /\ controller_thread' = "poll"
    /\ UNCHANGED <<host, controller, controllerRest>>

PollControllerEnds ==
    /\ controller_thread = "poll"
    /\ \/ ~(connected /\ imu # "null" /\ mcu_enabled)
       \/ ~mcu_heartbeat_required /\ controller = "broken"
    /\ controller_thread' = "close"
    /\ UNCHANGED <<host, controller, mcu_exited, controllerRest>>

ControllerCloses ==
    /\ controller_thread = "close"
    /\ mcu_exited' = TRUE /\ controller_thread' = "free"
    /\ UNCHANGED <<host, controller, controllerRest>>

FreeController ==
    /\ controller_thread = "free"
    /\ controller' = "null" /\ controller_thread' = "done"
    /\ UNCHANGED <<host, mcu_exited, controllerRest>>

-----------------------------------------------------------------------------
(* xreal_block_on_device.                                                  *)

sessionRest == <<mcu_enabled, model, imu, controller, mcu_exited>>
threads == <<imu_thread, controller_thread>>

Block ==
    /\ session = "block"
    /\ Checkout("session")
    /\ IF device_present
       THEN Go("wait") /\ imu_thread' = "poll" /\ controller_thread' = "start"
       ELSE Go("idle") /\ UNCHANGED threads
    /\ UNCHANGED <<sessionRest, connected, keep>>

\* wait_for_imu_start gives up after five attempts; connected is read.
Wait ==
    /\ session = "wait"
    /\ keep' = (connected /\ alive)
    /\ Go("store")
    /\ UNCHANGED <<context, sessionRest, connected, threads>>

Store ==
    /\ session = "store"
    /\ connected' = keep
    /\ Go("loop")
    /\ UNCHANGED <<context, sessionRest, threads, keep>>

\* Mutant: the health of the IMU is not looked at.
LoopUnhealthy ==
    /\ session = "loop"
    /\ IF connected
       THEN /\ keep' = (connected /\ imu # "null" /\ (~mcu_enabled \/ controller # "null"))
            /\ ~keep'
            /\ Go("store")
       ELSE Go("join") /\ UNCHANGED keep
    /\ UNCHANGED <<context, sessionRest, connected, threads>>

Loop ==
    /\ session = "loop"
    /\ IF connected
       THEN /\ keep' = (connected /\ imu # "null" /\ (~mcu_enabled \/ controller # "null") /\ alive)
            /\ Go("store")
       ELSE Go("join") /\ UNCHANGED keep
    /\ UNCHANGED <<context, sessionRest, connected, threads>>

Join ==
    /\ session = "join" /\ imu_thread = "done" /\ controller_thread = "done"
    /\ imu_thread' = "none" /\ controller_thread' = "none"
    /\ Checkin("session")
    /\ Go("idle")
    /\ UNCHANGED <<sessionRest, connected, keep>>

-----------------------------------------------------------------------------

xreal_disconnect ==
    /\ connected' = FALSE
    /\ UNCHANGED <<sessionRest, threads, keep>>

Broken(handle) == IF handle = "open" THEN "broken" ELSE handle

UnplugXreal ==
    /\ Unplug
    /\ imu' = Broken(imu) /\ controller' = Broken(controller)
    /\ UNCHANGED <<connected, mcu_enabled, model, mcu_exited, threads, keep>>

LeaveXreal ==
    /\ Leave
    /\ IF Removes THEN xreal_disconnect ELSE UNCHANGED xrealVars

DisconnectXreal ==
    /\ DisconnectAll
    /\ IF entry # NoGlasses THEN xreal_disconnect ELSE UNCHANGED xrealVars

ImuStep == PollImuEnds \/ CloseImu
ControllerStep ==
    PollControllerStarts \/ PollControllerEnds \/ ControllerCloses \/ FreeController
SessionStep == OpenController \/ OpenImu \/ CloseController \/ Block \/ Wait \/ Store \/ Loop
               \/ Join
UsbStep == Probe \/ LeaveXreal \/ ((Arrive \/ Announce) /\ UNCHANGED xrealVars)

\* A second passes without poses that are not lost to a race.
Quiets == ~Streams /\ Silence /\ UNCHANGED xrealVars

\* systemd starts the driver again, which finds what is plugged in.
Restart ==
    /\ session = "crashed"
    /\ events' = IF plugged = NoGlasses THEN <<>>
                                        ELSE <<[kind |-> "arrived", glasses |-> plugged]>>
    /\ usb' = "idle" /\ arriving' = NoGlasses
    /\ entry' = NoGlasses /\ device' = NoGlasses /\ holders' = {} /\ queued' = NoGlasses
    /\ session' = "idle" /\ disconnecting' = FALSE /\ alive' = FALSE
    /\ connected' = FALSE /\ mcu_enabled' = FALSE /\ model' = NoGlasses
    /\ imu' = "null" /\ controller' = "null" /\ mcu_exited' = FALSE
    /\ imu_thread' = "none" /\ controller_thread' = "none" /\ keep' = FALSE
    /\ UNCHANGED <<plugged, disabled>>

Runs ==
    /\ session # "crashed"
    /\ \/ SessionStep \/ ImuStep \/ ControllerStep \/ UsbStep \/ DisconnectXreal
       \/ handle_xreal_event
       \/ UnplugXreal
       \/ (\E g \in Glasses : Plug(g)) /\ UNCHANGED xrealVars
       \/ ThreadStep /\ UNCHANGED xrealVars
       \/ Disable(connected) /\ UNCHANGED xrealVars

Next == Runs \/ Restart
=============================================================================
