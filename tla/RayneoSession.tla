--------------------------- MODULE RayneoSession ---------------------------
(***************************************************************************)
(* devices/rayneo.c.  The name of a RayNeo model comes from the glasses,   *)
(* so that supported_device connects and waits for it.  The hard           *)
(* connection outlives a session, and the probe of one session may overlap *)
(* with the end of another.  device_connection_mutex is held by a whole    *)
(* connect or disconnect, so that each of them is one step.                *)
(***************************************************************************)
EXTENDS DeviceHost

VARIABLES
    hard_connected, soft_connected,
    named,  \* device_brand and device_model are allocated
    asked   \* AcquireDeviceInfo was called, and the glasses did not answer yet

rayneoVars == <<hard_connected, soft_connected, named, asked>>

TypeOK ==
    /\ {hard_connected, soft_connected, named, asked} \subseteq BOOLEAN
    /\ soft_connected => hard_connected
    /\ named \/ asked => hard_connected

Init == hard_connected = FALSE /\ soft_connected = FALSE /\ named = FALSE /\ asked = FALSE

-----------------------------------------------------------------------------

\* EstablishUsbConnection succeeds if there are glasses.
rayneo_device_connect ==
    IF soft_connected
    THEN UNCHANGED rayneoVars
    ELSE /\ hard_connected' = (hard_connected \/ plugged # NoGlasses)
         /\ soft_connected' = hard_connected' /\ asked' = hard_connected'
         /\ UNCHANGED named

\* Mutant: there is nothing to do without a session.
DisconnectSoftOnly(retain_hard_connection) ==
    /\ soft_connected' = FALSE
    /\ hard_connected' = (hard_connected /\ (retain_hard_connection \/ ~soft_connected))
    /\ named' = (named /\ hard_connected') /\ asked' = (asked /\ hard_connected')

rayneo_device_disconnect(retain_hard_connection) ==
    /\ soft_connected' = FALSE
    /\ hard_connected' = (hard_connected /\ retain_hard_connection)
    /\ named' = (named /\ hard_connected') /\ asked' = (asked /\ hard_connected')

\* An answer that finds no session is dropped.
rayneo_mcu_callback ==
    /\ asked /\ plugged # NoGlasses
    /\ asked' = FALSE
    /\ named' = (named \/ soft_connected)
    /\ UNCHANGED <<host, hard_connected, soft_connected>>

Streams == soft_connected /\ plugged # NoGlasses /\ ~disabled

rayneo_imu_callback == Streams /\ Healthy /\ UNCHANGED rayneoVars

-----------------------------------------------------------------------------
(* rayneo_supported_device.                                                *)

probeHost == <<plugged, events, entry, context, session, disabled, disconnecting, alive>>

Probe ==
    /\ usb = "probe"
    /\ rayneo_device_connect
    /\ IF soft_connected' THEN usb' = "name" /\ UNCHANGED arriving
                          ELSE usb' = "idle" /\ arriving' = NoGlasses
    /\ UNCHANGED probeHost

\* The connection stays open, unless the driver is disabled.
Named ==
    /\ usb = "name" /\ named
    /\ usb' = "announce"
    /\ IF disabled THEN rayneo_device_disconnect(TRUE) ELSE UNCHANGED rayneoVars
    /\ UNCHANGED <<arriving, probeHost>>

-----------------------------------------------------------------------------
(* The session.                                                            *)

ConnectDevice ==
    /\ session = "connect"
    /\ rayneo_device_connect
    /\ Go(IF soft_connected' THEN "connected" ELSE "idle")
    /\ UNCHANGED context

Block ==
    /\ session = "block"
    /\ Checkout("session")
    /\ Go(IF soft_connected /\ device_present THEN "wait" ELSE "end")
    /\ UNCHANGED rayneoVars

\* wait_for_imu_start gives up after five attempts.
Wait ==
    /\ session = "wait"
    /\ Go(IF alive THEN "loop" ELSE "end")
    /\ UNCHANGED <<context, rayneoVars>>

Loop ==
    /\ session = "loop"
    /\ ~soft_connected \/ ~alive
    /\ Go("end")
    /\ UNCHANGED <<context, rayneoVars>>

End ==
    /\ session = "end"
    /\ rayneo_device_disconnect("session" \in holders)
    /\ Go("join")
    /\ UNCHANGED context

Return ==
    /\ session = "join"
    /\ IF "session" \in holders THEN Checkin("session") ELSE UNCHANGED context
    /\ Go("idle")
    /\ UNCHANGED rayneoVars

-----------------------------------------------------------------------------

LeaveRayneo ==
    /\ Leave
    /\ IF Removes THEN rayneo_device_disconnect(FALSE) ELSE UNCHANGED rayneoVars

DisconnectRayneo ==
    /\ DisconnectAll
    /\ IF entry # NoGlasses THEN rayneo_device_disconnect(device_present)
                            ELSE UNCHANGED rayneoVars

SessionStep == ConnectDevice \/ Block \/ Wait \/ Loop \/ End \/ Return
UsbStep == Probe \/ Named \/ LeaveRayneo \/ ((Arrive \/ Announce) /\ UNCHANGED rayneoVars)

\* A second passes without poses that are not lost to a race.
Quiets == ~Streams /\ Silence /\ UNCHANGED rayneoVars

Next ==
    \/ SessionStep \/ UsbStep \/ DisconnectRayneo
    \/ rayneo_mcu_callback \/ rayneo_imu_callback
    \/ HostStep /\ UNCHANGED rayneoVars
    \/ Disable(soft_connected) /\ UNCHANGED rayneoVars
=============================================================================
