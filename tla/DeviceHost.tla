----------------------------- MODULE DeviceHost -----------------------------
(***************************************************************************)
(* What surrounds the driver of one vendor (devices.h): the bus and the    *)
(* hotplug thread, the pool's connection, the runtime device, the          *)
(* block_on_device thread with its session, the configuration, and the     *)
(* health of the IMU.  Each of them is modelled in full by ConnectionPool, *)
(* DeviceContext or XRDriver; here it is cut down to what a vendor's       *)
(* functions can tell apart.                                               *)
(***************************************************************************)
EXTENDS Naturals, Sequences

CONSTANTS
    Glasses,    \* the models of this vendor
    NoGlasses,
    MaxEvents   \* bound: hotplug events that are not handled yet

ASSUME HostAssumption == NoGlasses \notin Glasses /\ MaxEvents \in Nat \ {0}

VARIABLES
    plugged,    \* what is on the bus
    events,     \* the hotplug events that were not handled yet
    usb,        \* the hotplug thread: "idle" or its progress with an arrival
    arriving,   \* the glasses of that arrival
    entry,      \* the connection in the pool
    device,     \* the runtime device
    holders,    \* who holds a reference to it
    queued,     \* the queued device
    session,    \* progress of the block_on_device thread and of its session
    disabled,   \* driver_disabled()
    disconnecting, \* the config thread is about to call connection_pool_disconnect_all
    alive       \* is_imu_alive(): a changing pose came within the last second

host == <<plugged, events, usb, arriving, entry, device, holders, queued, session,
          disabled, disconnecting, alive>>

\* The pcs of all vendors' functions.
Probing == {"probe", "opening", "opened", "name"}
Connecting == {"connect", "connect_imu", "connected_imu", "opening", "opened", "cleanup"}
Blocking == {"block", "wait", "loop", "store", "join", "end"}

HostTypeOK ==
    /\ plugged \in Glasses \cup {NoGlasses}
    /\ events \in UNION {[1 .. n -> [kind : {"arrived", "left"}, glasses : Glasses]] :
                            n \in 0 .. MaxEvents}
    /\ usb \in {"idle", "announce"} \cup Probing
    /\ (usb = "idle") = (arriving = NoGlasses)
    /\ {arriving, entry, device, queued} \subseteq Glasses \cup {NoGlasses}
    /\ holders \subseteq {"handler", "session", "connect"}
    /\ (device = NoGlasses) = (holders = {})
    /\ device = NoGlasses => queued = NoGlasses
    /\ session \in {"idle", "connected", "crashed"} \cup Connecting \cup Blocking
    /\ {disabled, disconnecting, alive} \subseteq BOOLEAN

HostInit ==
    /\ plugged = NoGlasses /\ events = <<>>
    /\ usb = "idle" /\ arriving = NoGlasses
    /\ entry = NoGlasses /\ device = NoGlasses /\ holders = {} /\ queued = NoGlasses
    /\ session = "idle"
    /\ disabled = FALSE /\ disconnecting = FALSE /\ alive = FALSE

-----------------------------------------------------------------------------
(* The runtime device.                                                     *)

context == <<device, holders, queued>>

device_present == device # NoGlasses /\ queued = NoGlasses

Checkout(h) ==
    /\ holders' = IF device_present THEN holders \cup {h} ELSE holders
    /\ UNCHANGED <<device, queued>>

Checkin(h) ==
    IF holders = {h}
    THEN /\ device' = queued
         /\ holders' = IF queued = NoGlasses THEN {} ELSE {"handler"}
         /\ queued' = NoGlasses
    ELSE /\ holders' = holders \ {h}
         /\ UNCHANGED <<device, queued>>

\* handle_device_connection_changed with the pool's new primary, and without one.
Install(g) ==
    IF device \in {g, NoGlasses}
    THEN device' = g /\ holders' = holders \cup {"handler"} /\ UNCHANGED queued
    ELSE queued' = g /\ UNCHANGED <<device, holders>>

Uninstall ==
    IF queued # NoGlasses THEN queued' = NoGlasses /\ UNCHANGED <<device, holders>>
                          ELSE Checkin("handler")

-----------------------------------------------------------------------------
(* The bus and the hotplug thread.                                         *)

\* Bound: other glasses come when the events of the last ones were handled.
Plug(g) ==
    /\ plugged = NoGlasses /\ Len(events) < MaxEvents
    /\ \A i \in DOMAIN events : events[i].glasses = g
    /\ plugged' = g
    /\ events' = Append(events, [kind |-> "arrived", glasses |-> g])
    /\ UNCHANGED <<usb, arriving, entry, context, session, disabled, disconnecting, alive>>

Unplug ==
    /\ plugged # NoGlasses /\ Len(events) < MaxEvents
    /\ plugged' = NoGlasses
    /\ events' = Append(events, [kind |-> "left", glasses |-> plugged])
    /\ UNCHANGED <<usb, arriving, entry, context, session, disabled, disconnecting, alive>>

\* The thread calls supported_device_func, whose steps are the vendor's.
Arrive ==
    /\ usb = "idle" /\ events # <<>> /\ Head(events).kind = "arrived"
    /\ usb' = "probe" /\ arriving' = Head(events).glasses
    /\ events' = Tail(events)
    /\ UNCHANGED <<plugged, entry, context, session, disabled, disconnecting, alive>>

\* A device that supported_device_func returned.
Announce ==
    /\ usb = "announce"
    /\ usb' = "idle" /\ arriving' = NoGlasses
    /\ IF entry = NoGlasses THEN entry' = arriving /\ Install(arriving)
                            ELSE UNCHANGED <<entry, context>>
    /\ UNCHANGED <<plugged, events, session, disabled, disconnecting, alive>>

\* The host's part of a removal; the vendor's is a hard disconnect, if Removes.
Removes == entry = Head(events).glasses

Leave ==
    /\ usb = "idle" /\ events # <<>> /\ Head(events).kind = "left"
    /\ events' = Tail(events)
    /\ IF Removes THEN entry' = NoGlasses /\ Uninstall
                  ELSE UNCHANGED <<entry, context>>
    /\ UNCHANGED <<plugged, usb, arriving, session, disabled, disconnecting, alive>>

-----------------------------------------------------------------------------
(* The configuration.                                                      *)

\* A connection is only disconnected if it is connected at this moment.
Disable(connected) ==
    /\ ~disabled /\ ~disconnecting
    /\ disabled' = TRUE
    /\ disconnecting' = (entry # NoGlasses /\ connected)
    /\ UNCHANGED <<plugged, events, usb, arriving, entry, context, session, alive>>

Enable ==
    /\ disabled /\ ~disconnecting
    /\ disabled' = FALSE
    /\ UNCHANGED <<plugged, events, usb, arriving, entry, context, session, disconnecting,
                   alive>>

\* The host's part; the vendor's is a soft disconnect, if there is an entry.
DisconnectAll ==
    /\ disconnecting
    /\ disconnecting' = FALSE
    /\ UNCHANGED <<plugged, events, usb, arriving, entry, context, session, disabled, alive>>

-----------------------------------------------------------------------------
(* The block_on_device thread, up to the vendor's functions.               *)

Go(pc) ==
    /\ session' = pc
    /\ UNCHANGED <<plugged, events, usb, arriving, entry, disabled, disconnecting, alive>>

\* device_connect_func is called if block_on_device_ready.
Connect ==
    /\ session = "idle"
    /\ entry # NoGlasses /\ device_present /\ ~disabled
    /\ Go("connect")
    /\ UNCHANGED context

\* connection_pool_block_on_active: the primary may be gone by now.
BlockOnActive ==
    /\ session = "connected"
    /\ Go(IF entry # NoGlasses THEN "block" ELSE "idle")
    /\ UNCHANGED context

\* The last pose was more than a second ago.  Two reads that race with a pose
\* may have the same result, so this happens even to glasses that send poses.
Silence ==
    /\ alive
    /\ alive' = FALSE
    /\ UNCHANGED <<plugged, events, usb, arriving, entry, context, session, disabled,
                   disconnecting>>

\* handle_imu_update.
Healthy ==
    /\ alive' = TRUE
    /\ UNCHANGED <<plugged, events, usb, arriving, entry, context, session, disabled,
                   disconnecting>>

ThreadStep == Enable \/ Connect \/ BlockOnActive \/ Silence
HostStep == (\E g \in Glasses : Plug(g)) \/ Unplug \/ ThreadStep
=============================================================================
