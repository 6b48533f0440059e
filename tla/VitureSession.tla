---------------------------- MODULE VitureSession ----------------------------
(***************************************************************************)
(* devices/viture.c.  viture_connection_mutex is held by a whole connect   *)
(* or disconnect, so that each of them is one step.                        *)
(*                                                                         *)
(* For a session the display of glasses with native DoF support is put     *)
(* into bypass mode, and what it was is saved and restored.  The native    *)
(* settings (display mode, size and DoF) are the user's, the override, or, *)
(* if the saved mode was a bypass mode, what restoring that has written.   *)
(* An SDK call succeeds if the glasses that the provider was initialized   *)
(* for are still plugged in.                                               *)
(***************************************************************************)
EXTENDS DeviceHost

CONSTANTS NativeDof, Carina

VARIABLES
    product,   \* viture_last_product_id
    provider,  \* the product of viture_provider, NoGlasses without one
    reachable, \* what it was initialized for is still plugged in
    connected,
    imu_open,
    saved,     \* viture_saved_*: a display, or NothingSaved
    display,   \* the display of the glasses
    chosen     \* history: the display that they were plugged in with

vitureVars == <<product, provider, reachable, connected, imu_open, saved, display, chosen>>

Display == [native : BOOLEAN, settings : {"user", "override", "bypass mode"}]
NothingSaved == [native |-> FALSE, settings |-> "override"]

TypeOK ==
    /\ product \in Glasses \cup {NoGlasses} /\ provider \in Glasses \cup {NoGlasses}
    /\ {reachable, connected, imu_open} \subseteq BOOLEAN
    /\ {saved, display, chosen} \subseteq Display
    /\ connected => provider # NoGlasses
    /\ connected => imu_open \/ provider \in Carina
    /\ imu_open => connected
    /\ saved # NothingSaved => provider # NoGlasses

Init ==
    /\ product = NoGlasses /\ provider = NoGlasses
    /\ reachable = FALSE /\ connected = FALSE /\ imu_open = FALSE
    /\ saved = NothingSaved
    /\ display = [native |-> TRUE, settings |-> "user"] /\ chosen = display

-----------------------------------------------------------------------------
(* viture_start_stream_locked and viture_stop_stream_locked.               *)

\* The device type is the provider's, support is looked up for the last product.
viture_supports_native_dof(p) == p \in NativeDof /\ product \in NativeDof

\* viture_capture_and_override_display_mode_locked.
Capture ==
    IF viture_supports_native_dof(provider') /\ reachable'
    THEN /\ saved' = [native |-> display.native,
                      settings |-> IF display.native THEN display.settings
                                                     ELSE "bypass mode"]
         /\ display' = [native |-> FALSE, settings |-> "override"]
    ELSE saved' = NothingSaved /\ UNCHANGED display

\* Mutant: the native mode is not set again.
RestoredSettings ==
    IF viture_supports_native_dof(provider) /\ saved # NothingSaved /\ reachable
    THEN [display EXCEPT !.settings = saved.settings] ELSE display

\* viture_restore_display_mode_locked.
Restored ==
    IF viture_supports_native_dof(provider) /\ saved # NothingSaved /\ reachable THEN saved ELSE display

\* viture_stop_stream_locked, and viture_shutdown_provider_locked if it is hard.
disconnect(soft) ==
    /\ display' = Restored
    /\ saved' = IF soft /\ ~viture_supports_native_dof(provider) THEN saved ELSE NothingSaved
    /\ connected' = FALSE /\ imu_open' = FALSE
    /\ provider' = IF soft THEN provider ELSE NoGlasses
    /\ reachable' = (reachable /\ soft)
    /\ UNCHANGED <<product, chosen>>

-----------------------------------------------------------------------------
(* The hotplug thread.                                                     *)

\* Glasses are plugged in with the display that the user gave them.
PlugViture ==
    /\ \E g \in Glasses : Plug(g)
    /\ \E native \in BOOLEAN : display' = [native |-> native, settings |-> "user"]
    /\ chosen' = display'
    /\ UNCHANGED <<product, provider, reachable, connected, imu_open, saved>>

UnplugViture ==
    /\ Unplug
    /\ reachable' = FALSE
    /\ UNCHANGED <<product, provider, connected, imu_open, saved, display, chosen>>

\* Models without properties are none of Glasses.
viture_supported_device ==
    /\ usb = "probe" /\ usb' = "announce"
    /\ product' = arriving
    /\ UNCHANGED <<plugged, events, arriving, entry, context, session, disabled, disconnecting, alive>>
    /\ UNCHANGED <<provider, reachable, connected, imu_open, saved, display, chosen>>

LeaveViture ==
    /\ Leave
    /\ IF Removes THEN disconnect(FALSE) ELSE UNCHANGED vitureVars

-----------------------------------------------------------------------------
(* viture_device_connect.                                                  *)

ConnectDevice ==
    /\ session = "connect"
    /\ IF connected THEN Go("connected") /\ UNCHANGED context
                    ELSE Go("opening") /\ Checkout("connect")
    /\ UNCHANGED vitureVars

Opens == IF provider # NoGlasses THEN provider
         ELSE IF "connect" \in holders THEN device ELSE product

\* viture_initialize_provider_locked, viture_start_stream_locked with the frequencies
\* that viture_open_imu_locked tries, and the display.
Opened ==
    /\ session = "opening"
    /\ Opens = plugged /\ plugged # NoGlasses
    /\ provider # NoGlasses => reachable
    /\ provider' = plugged /\ reachable' = TRUE
    /\ imu_open' = (plugged \notin Carina)
    /\ Capture
    /\ connected' = TRUE
    /\ Go("opened")
    /\ UNCHANGED <<context, product, chosen>>

\* An attempt may fail before there is a provider, or with one.
NotOpened ==
    /\ session = "opening"
    /\ provider' \in {provider, Opens}
    /\ Go("cleanup")
    /\ UNCHANGED <<context, product, reachable, connected, imu_open, saved, display, chosen>>

\* viture_update_device_properties, or a hard disconnect of glasses that may still
\* be there.
Return ==
    /\ session \in {"opened", "cleanup"}
    /\ IF "connect" \in holders THEN Checkin("connect") ELSE UNCHANGED context
    /\ IF session = "cleanup" THEN disconnect(FALSE) ELSE UNCHANGED vitureVars
    /\ Go(IF session = "opened" /\ connected THEN "connected" ELSE "idle")

-----------------------------------------------------------------------------
(* viture_block_on_device.                                                 *)

Streams ==
    connected /\ reachable /\ ~disabled

\* viture_pose_callback, viture_fusion_event or viture_carina_imu_callback.
PoseCallback == Streams /\ Healthy /\ UNCHANGED vitureVars

Block ==
    /\ session = "block"
    /\ Go(IF connected THEN "wait" ELSE "end")
    /\ UNCHANGED <<context, vitureVars>>

\* The result of wait_for_imu_start is not looked at.
Wait ==
    /\ session = "wait"
    /\ Go("loop")
    /\ UNCHANGED <<context, vitureVars>>

Loop ==
    /\ session = "loop"
    /\ ~connected \/ ~alive
    /\ Go("end")
    /\ UNCHANGED <<context, vitureVars>>

End ==
    /\ session = "end"
    /\ disconnect(TRUE)
    /\ Go("idle")
    /\ UNCHANGED context

-----------------------------------------------------------------------------

DisconnectViture ==
    /\ DisconnectAll
    /\ IF entry # NoGlasses THEN disconnect(TRUE) ELSE UNCHANGED vitureVars

SessionStep == ConnectDevice \/ Opened \/ NotOpened \/ Return \/ Block \/ Wait \/ Loop \/ End
UsbStep == viture_supported_device \/ LeaveViture \/ ((Arrive \/ Announce) /\ UNCHANGED vitureVars)

\* A second passes without poses that are not lost to a race.
Quiets == ~Streams /\ Silence /\ UNCHANGED vitureVars

Next ==
    \/ SessionStep \/ UsbStep \/ DisconnectViture \/ PoseCallback
    \/ PlugViture \/ UnplugViture
    \/ ThreadStep /\ UNCHANGED vitureVars
    \/ Disable(connected) /\ UNCHANGED vitureVars
=============================================================================
