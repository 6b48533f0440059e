--------------------------- MODULE DeviceSessions ---------------------------
(***************************************************************************)
(* The drivers of the four vendors, one of which has glasses to serve.     *)
(* What two drivers both have in a variable of their own, such as          *)
(* connected, is one variable here, which belongs to the driver at work.   *)
(***************************************************************************)
EXTENDS DeviceHost

CONSTANTS
    Drivers,   \* those of "xreal", "rayneo", "rokid" and "viture" that are looked at
    XrealGlasses, Hid, Heartbeat,
    VitureGlasses, NativeDof, Carina,
    RayneoGlasses, RokidGlasses

ASSUME DriversAssumption ==
    /\ Drivers \subseteq {"xreal", "rayneo", "rokid", "viture"}
    /\ UNION {XrealGlasses, VitureGlasses, RayneoGlasses, RokidGlasses} \subseteq Glasses
    /\ Hid \subseteq XrealGlasses /\ Heartbeat \subseteq XrealGlasses
    /\ NativeDof \subseteq VitureGlasses /\ Carina \subseteq VitureGlasses \ NativeDof

VARIABLES
    driver,
    connected,                                              \* xreal.c, viture.c
    mcu_enabled, model, imu, controller, mcu_exited, imu_thread, controller_thread,
    keep,                                                   \* xreal.c
    hard_connected, soft_connected,                         \* rayneo.c, rokid.c
    named, asked,                                           \* rayneo.c
    event_instance, control_instance, event_handle,         \* rokid.c
    product, provider, reachable, imu_open, saved, display, chosen \* viture.c

xrealOnly == <<mcu_enabled, model, imu, controller, mcu_exited, imu_thread,
               controller_thread, keep>>
softHard == <<hard_connected, soft_connected>>
rayneoOnly == <<named, asked>>
rokidOnly == <<event_instance, control_instance, event_handle>>
vitureOnly == <<product, provider, reachable, imu_open, saved, display, chosen>>

vars == <<driver, host, connected, xrealOnly, softHard, rayneoOnly, rokidOnly, vitureOnly>>

Xreal == INSTANCE XrealSession WITH Glasses <- XrealGlasses
Rayneo == INSTANCE RayneoSession WITH Glasses <- RayneoGlasses
Rokid == INSTANCE RokidSession WITH Glasses <- RokidGlasses
Viture == INSTANCE VitureSession WITH Glasses <- VitureGlasses

TypeOK ==
    /\ HostTypeOK
    /\ driver = "xreal" => Xreal!TypeOK
    /\ driver = "rayneo" => Rayneo!TypeOK
    /\ driver = "rokid" => Rokid!TypeOK
    /\ driver = "viture" => Viture!TypeOK

Init ==
    /\ driver \in Drivers
    /\ HostInit
    /\ Xreal!Init /\ Rayneo!Init /\ Rokid!Init /\ Viture!Init

\* What the steps of a driver leave alone.
XrealRest == <<driver, softHard, rayneoOnly, rokidOnly, vitureOnly>>
RayneoRest == <<driver, connected, xrealOnly, rokidOnly, vitureOnly>>
RokidRest == <<driver, connected, xrealOnly, rayneoOnly, vitureOnly>>
VitureRest == <<driver, xrealOnly, softHard, rayneoOnly, rokidOnly>>

Next ==
    \/ driver = "xreal" /\ Xreal!Next /\ UNCHANGED XrealRest
    \/ driver = "rayneo" /\ Rayneo!Next /\ UNCHANGED RayneoRest
    \/ driver = "rokid" /\ Rokid!Next /\ UNCHANGED RokidRest
    \/ driver = "viture" /\ Viture!Next /\ UNCHANGED VitureRest

Spec == Init /\ [][Next]_vars

(* Fairness: every thread of the driver goes on, glasses answer while they  *)
(* are plugged in, and a second without a pose passes.                      *)

AtWork(d) == driver = d /\ session # "crashed"

Fairness ==
    /\ WF_vars(AtWork("xreal") /\ Xreal!UsbStep /\ UNCHANGED XrealRest)
    /\ WF_vars(AtWork("xreal") /\ Xreal!SessionStep /\ UNCHANGED XrealRest)
    /\ WF_vars(AtWork("xreal") /\ Xreal!ImuStep /\ UNCHANGED XrealRest)
    /\ WF_vars(AtWork("xreal") /\ Xreal!ControllerStep /\ UNCHANGED XrealRest)
    /\ WF_vars(AtWork("xreal") /\ Xreal!Quiets /\ UNCHANGED XrealRest)
    /\ WF_vars(AtWork("rayneo") /\ Rayneo!UsbStep /\ UNCHANGED RayneoRest)
    /\ WF_vars(AtWork("rayneo") /\ Rayneo!SessionStep /\ UNCHANGED RayneoRest)
    /\ WF_vars(AtWork("rayneo") /\ Rayneo!rayneo_mcu_callback /\ UNCHANGED RayneoRest)
    /\ WF_vars(AtWork("rayneo") /\ Rayneo!Quiets /\ UNCHANGED RayneoRest)
    /\ WF_vars(AtWork("rokid") /\ Rokid!UsbStep /\ UNCHANGED RokidRest)
    /\ WF_vars(AtWork("rokid") /\ Rokid!SessionStep /\ UNCHANGED RokidRest)
    /\ WF_vars(AtWork("viture") /\ Viture!UsbStep /\ UNCHANGED VitureRest)
    /\ WF_vars(AtWork("viture") /\ Viture!SessionStep /\ UNCHANGED VitureRest)
    /\ WF_vars(AtWork("viture") /\ Viture!Quiets /\ UNCHANGED VitureRest)

FairSpec == Spec /\ Fairness

-----------------------------------------------------------------------------
(* Properties.                                                             *)

\* devices.h: "hold open the connection while the device is present and
\* disconnect_func has not been called".  So a session ends when the pool has
\* removed its glasses, and no thread of it waits for another for ever.
RemovedSessionEnds ==
    (session \in Blocking /\ entry = NoGlasses) ~> (session \notin Blocking \/ entry # NoGlasses)

\* A session ends when the driver is disabled, even if connected &= ... or a
\* connection that was being made has undone the disconnect: no more poses are
\* taken, so that the glasses look dead.  Rokid glasses are not watched like that.
DisabledSessionEnds ==
    (session \in Blocking /\ disabled /\ driver # "rokid") ~> (session \notin Blocking \/ ~disabled)

\* devices.h: a soft disconnect is that of a "device [that] is still physically
\* connected".  When all is quiet and the glasses are gone, nothing of the SDK is
\* left open, in whichever order the probe, a session that connects or ends, the
\* removal and a disabled driver came.
Quiet == events = <<>> /\ usb = "idle" /\ session = "idle" /\ ~disconnecting
UnplugReleases ==
    Quiet /\ plugged = NoGlasses =>
        /\ driver = "rayneo" => ~hard_connected /\ ~soft_connected /\ ~named
        /\ driver = "viture" => provider = NoGlasses /\ ~connected /\ ~imu_open

\* Between sessions VITURE glasses show what the user has chosen: the saved display
\* is not lost between the connects and disconnects of three threads.
Shown(d) == IF d.native THEN d.settings ELSE "bypass"
DisplayRestored ==
    driver = "viture" /\ reachable /\ ~connected => Shown(display) = Shown(chosen)

\* devices.h: "open device connection, expected to perform cleanup on failure".  An
\* attempt to connect to glasses that are gone ends, and not by a NULL pointer.
ConnectSurvives == session # "crashed"
=============================================================================
