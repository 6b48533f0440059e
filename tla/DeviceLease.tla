---------------------------- MODULE DeviceLease ----------------------------
(***************************************************************************)
(* What runtime_context.h promises of the shared device, without reference *)
(* counts, USB ids or heap objects: the current device has a set of        *)
(* holders, it is replaced only when the last of them lets go, and once a  *)
(* successor is announced no further holder is admitted.  DeviceContext    *)
(* implements this specification.                                          *)
(***************************************************************************)
CONSTANTS Device,    \* the devices that can be current
          Borrower,  \* checkout scopes
          Owner,     \* the hotplug handler, which holds a plugged device
          NoDevice

VARIABLES current,   \* the device in use, or NoDevice
          pending,   \* the announced successor, or NoDevice
          holders    \* who holds the current device

vars == <<current, pending, holders>>

Init == current = NoDevice /\ pending = NoDevice /\ holders = {}

\* The first device becomes current at once, held by the hotplug handler.
Install(d) ==
    /\ current = NoDevice
    /\ current' = d
    /\ holders' = {Owner}
    /\ UNCHANGED pending

\* The hotplug handler joins the holders of the device that is still current.
Rejoin ==
    /\ current # NoDevice /\ pending = NoDevice /\ Owner \notin holders
    /\ holders' = holders \cup {Owner}
    /\ UNCHANGED <<current, pending>>

Announce(d) ==
    /\ current # NoDevice /\ pending = NoDevice /\ Owner \notin holders
    /\ pending' = d
    /\ UNCHANGED <<current, holders>>

Retract ==
    /\ pending # NoDevice
    /\ pending' = NoDevice
    /\ UNCHANGED <<current, holders>>

Take(b) ==
    /\ current # NoDevice /\ pending = NoDevice /\ b \notin holders
    /\ holders' = holders \cup {b}
    /\ UNCHANGED <<current, pending>>

GiveBack(h) ==
    /\ h \in holders /\ holders # {h}
    /\ holders' = holders \ {h}
    /\ UNCHANGED <<current, pending>>

\* The last holder leaves: the successor, if any, becomes current.
HandOver(h) ==
    /\ holders = {h}
    /\ current' = pending
    /\ pending' = NoDevice
    /\ holders' = IF pending = NoDevice THEN {} ELSE {Owner}

Next ==
    \/ \E d \in Device : Install(d) \/ Announce(d)
    \/ Rejoin
    \/ Retract
    \/ \E b \in Borrower : Take(b)
    \/ \E h \in Borrower \cup {Owner} : GiveBack(h) \/ HandOver(h)

Spec == Init /\ [][Next]_vars
=============================================================================
