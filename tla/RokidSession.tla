---------------------------- MODULE RokidSession ----------------------------
(***************************************************************************)
(* devices/rokid.c.  supported_device connects, for the name of the model, *)
(* and the block_on_device thread connects again.  Nothing is locked:      *)
(* rokid_disconnect only sets flags, and the session cleans up when it     *)
(* sees them.                                                              *)
(***************************************************************************)
EXTENDS DeviceHost

VARIABLES
    hard_connected, soft_connected,
    event_instance, control_instance, event_handle  \* whether they are set

rokidVars == <<hard_connected, soft_connected, event_instance, control_instance,
               event_handle>>

TypeOK ==
    /\ {hard_connected, soft_connected, event_instance, control_instance, event_handle}
          \subseteq BOOLEAN
    /\ event_handle => event_instance

Init ==
    /\ hard_connected = FALSE /\ soft_connected = FALSE
    /\ event_instance = FALSE /\ control_instance = FALSE /\ event_handle = FALSE

-----------------------------------------------------------------------------

Cleanup ==
    /\ event_handle' = FALSE
    /\ event_instance' = (event_instance /\ hard_connected)
    /\ control_instance' = (control_instance /\ hard_connected)
    /\ UNCHANGED <<hard_connected, soft_connected>>

\* Mutant: a soft disconnect is for the hard connection only.
DisconnectHardOnly(soft) ==
    /\ soft_connected' = (soft_connected /\ ~soft) /\ hard_connected' = soft_connected
    /\ UNCHANGED <<event_instance, control_instance, event_handle>>

rokid_disconnect(soft) ==
    /\ soft_connected' = FALSE /\ hard_connected' = soft
    /\ UNCHANGED <<event_instance, control_instance, event_handle>>

\* device_connect is in three parts: the instances, opening the glasses, which
\* takes its time, and the assignment of the result.
Instances ==
    /\ hard_connected' = TRUE
    /\ event_instance' = TRUE /\ control_instance' = TRUE
    /\ UNCHANGED <<soft_connected, event_handle>>

NotOpened ==
    /\ soft_connected' = FALSE
    /\ event_handle' = FALSE
    /\ event_instance' = (event_instance /\ hard_connected)
    /\ control_instance' = (control_instance /\ hard_connected)
    /\ UNCHANGED hard_connected

Registered ==
    /\ soft_connected' = TRUE /\ event_handle' = event_instance
    /\ UNCHANGED <<hard_connected, event_instance, control_instance>>

-----------------------------------------------------------------------------
(* rokid_supported_device.                                                 *)

probeHost == <<plugged, events, entry, context, session, disabled, disconnecting, alive>>

Probe ==
    \/ /\ usb = "probe" /\ usb' = "opening"
       /\ Instances
       /\ UNCHANGED arriving
    \/ /\ usb = "opening" /\ plugged # NoGlasses
       /\ usb' = "opened"
       /\ UNCHANGED <<rokidVars, arriving>>
    \/ /\ usb = "opening"
       /\ usb' = "idle" /\ arriving' = NoGlasses
       /\ NotOpened
    \/ /\ usb = "opened" /\ usb' = "name"
       /\ Registered
       /\ UNCHANGED arriving
    \/ /\ usb = "name" /\ usb' = "announce"
       /\ IF disabled THEN rokid_disconnect(TRUE) ELSE UNCHANGED rokidVars
       /\ UNCHANGED arriving

ProbeStep == Probe /\ UNCHANGED probeHost

-----------------------------------------------------------------------------
(* The session.                                                            *)

ConnectDevice ==
    \/ /\ session = "connect"
       /\ Checkout("connect")
       /\ IF device_present
          THEN Go("opening") /\ Instances
          ELSE Go(IF soft_connected THEN "connected" ELSE "idle") /\ UNCHANGED rokidVars
    \/ /\ session = "opening" /\ plugged # NoGlasses
       /\ Go("opened")
       /\ UNCHANGED <<context, rokidVars>>
    \/ /\ session = "opening"
       /\ NotOpened
       /\ Checkin("connect")
       /\ Go("idle")
    \/ /\ session = "opened"
       /\ Registered
       /\ Checkin("connect")
       /\ Go("connected")

Block ==
    /\ session = "block"
    /\ Checkout("session")
    /\ Go(IF device_present THEN "loop" ELSE "idle")
    /\ UNCHANGED rokidVars

\* GlassWaitEvent returns after a second at most.
Loop ==
    /\ session = "loop"
    /\ ~soft_connected
    /\ Go("end")
    /\ UNCHANGED <<context, rokidVars>>

End ==
    /\ session = "end"
    /\ Cleanup
    /\ Checkin("session")
    /\ Go("idle")

-----------------------------------------------------------------------------

LeaveRokid ==
    /\ Leave
    /\ IF Removes THEN rokid_disconnect(FALSE) ELSE UNCHANGED rokidVars

DisconnectRokid ==
    /\ DisconnectAll
    /\ IF entry # NoGlasses THEN rokid_disconnect(TRUE) ELSE UNCHANGED rokidVars

SessionStep == ConnectDevice \/ Block \/ Loop \/ End
UsbStep == ProbeStep \/ LeaveRokid \/ ((Arrive \/ Announce) /\ UNCHANGED rokidVars)

Next ==
    \/ SessionStep \/ UsbStep \/ DisconnectRokid
    \/ HostStep /\ UNCHANGED rokidVars
    \/ Disable(soft_connected) /\ UNCHANGED rokidVars
=============================================================================
