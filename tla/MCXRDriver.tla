----------------------------- MODULE MCXRDriver -----------------------------
(* Two objects of one glasses model, and glasses of a second model and     *)
(* driver, all reported by the usb thread.                                 *)
EXTENDS XRDriver

CONSTANTS a1, a2, b1, ma, mb, xreal, rokid, usb

MCModelOf == [d \in Device |-> IF d = b1 THEN mb ELSE ma]
MCDriverOf == [d \in Device |-> IF d = b1 THEN rokid ELSE xreal]
MCHandlerOf == [d \in Device |-> usb]

(* Devices of which each has a model and a driver of its own. *)
EachItsOwn == [d \in Device |-> d]

(* Glasses are reported by the usb thread, streams by the OpenTrack listener. *)
ReporterOf == [d \in Device |-> IF d \in CanBeSupplemental THEN "listener" ELSE "usb"]
=============================================================================
