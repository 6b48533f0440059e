----------------------------- MODULE SideBySide -----------------------------
(***************************************************************************)
(* The side-by-side (SBS) display mode: control flags ask for it, the      *)
(* drivers set it, each in its own way, the glasses' own buttons change    *)
(* it, and what the drivers know of it is written to the state file.       *)
(*                                                                         *)
(*  - xreal keeps a disp_mode, which the control-flag thread changes and   *)
(*    poll_controller_func sends, or else replaces by that of the glasses. *)
(*  - rokid keeps what the last request returned, until its session looks. *)
(*  - rayneo waits for the glasses to tell.                                *)
(*  - viture asks the glasses.                                             *)
(* A request goes through the pool with its mutex held.                    *)
(***************************************************************************)
EXTENDS Integers

CONSTANT Vendors  \* those of "xreal", "heartbeat", "rokid", "rayneo" and "viture" that
                  \* are looked at; "heartbeat" is an xreal model whose MCU is not read

SideBySideAssumption == Vendors \subseteq {"xreal", "heartbeat", "rokid", "rayneo", "viture"}

VARIABLES
    vendor,
    joined,       \* is_connected_func(): there is a session
    display,      \* the display mode of the glasses
    disp_mode,    \* xreal: glasses_controller->disp_mode
    sbs_mode_change_requested,
    sbs_mode_enabled, \* the others: what they know, is_sbs_mode of rayneo
    sbs_mode,     \* control_flags->sbs_mode
    handler,      \* progress of handle_control_flags_update
    session,      \* progress of xreal's controller thread or of rokid's session
    shown         \* state()->sbs_mode_enabled

driverVars == <<disp_mode, sbs_mode_change_requested, sbs_mode_enabled>>
vars == <<vendor, joined, display, driverVars, sbs_mode, handler, session, shown>>

Xreal == vendor \in {"xreal", "heartbeat"}

-----------------------------------------------------------------------------
(* The display modes of xreal.c, which has one more pair, of 72 Hz, that   *)
(* is like those of 90 Hz.  The place in one list is that in the other.    *)

sbs_display_modes == <<"3d60", "3d90", "3d90", "half">>
non_sbs_display_modes == <<"2d60", "2d90", "2d120", "2d60">>
Mode == {"2d60", "2d90", "2d120", "3d60", "3d90", "half"}

get_display_mode_index(mode, modes) ==
    IF \E i \in 1 .. 4 : modes[i] = mode
    THEN CHOOSE i \in 1 .. 4 : modes[i] = mode /\ \A j \in 1 .. i - 1 : modes[j] # mode
    ELSE -1

Sbs(mode) == get_display_mode_index(mode, sbs_display_modes) # -1

Switched(mode) ==
    IF Sbs(mode) THEN non_sbs_display_modes[get_display_mode_index(mode, sbs_display_modes)]
                 ELSE sbs_display_modes[get_display_mode_index(mode, non_sbs_display_modes)]

\* The other vendors' glasses switch by themselves.
Modes == IF Xreal THEN Mode ELSE {"2d60", "3d60"}

Idle == [pc |-> "idle", mode |-> "2d60"]

TypeOK ==
    /\ vendor \in Vendors
    /\ joined \in BOOLEAN /\ display \in Modes /\ disp_mode \in Modes
    /\ sbs_mode_change_requested \in BOOLEAN /\ sbs_mode_enabled \in BOOLEAN
    /\ sbs_mode \in {"unset", "enable", "disable"}
    /\ handler \in {"idle", "handle", "set", "request"}
    /\ session \in [pc : {"idle", "sent", "looked"}, mode : Modes]
    /\ shown \in BOOLEAN

Init ==
    /\ vendor \in Vendors
    /\ joined = FALSE /\ display \in Modes /\ disp_mode = "2d60"
    /\ sbs_mode_change_requested = FALSE /\ sbs_mode_enabled = FALSE
    /\ sbs_mode = "unset" /\ handler = "idle"
    /\ session = Idle /\ shown = FALSE

-----------------------------------------------------------------------------
(* The drivers.                                                            *)

\* device_is_sbs_mode_func().
IsSbs ==
    CASE Xreal -> joined /\ Sbs(disp_mode)
      [] vendor = "viture" -> joined /\ Sbs(display)
      [] OTHER -> sbs_mode_enabled

\* viture's looks at the glasses whenever it is asked.
Refresh == sbs_mode_enabled' = IF vendor = "viture" /\ joined THEN Sbs(display)
                                                              ELSE sbs_mode_enabled

\* device_set_sbs_mode_func() of xreal: what is to be sent.
XrealSets(enable) ==
    /\ Xreal
    /\ UNCHANGED <<display, sbs_mode_enabled, sbs_mode_change_requested>>
    /\ IF joined /\ Sbs(disp_mode) # enable
       THEN disp_mode' = Switched(disp_mode) /\ handler' = "request" /\ UNCHANGED sbs_mode
       ELSE handler' = "idle" /\ sbs_mode' = "unset" /\ UNCHANGED disp_mode

\* Of the others: the glasses switch, or do not.
OthersSet(enable) ==
    /\ ~Xreal
    /\ UNCHANGED <<disp_mode, sbs_mode_change_requested>>
    /\ handler' = "idle" /\ sbs_mode' = "unset"
    /\ \E success \in {FALSE, joined} :
          /\ display' = IF success /\ Sbs(display) # enable THEN Switched(display) ELSE display
          /\ sbs_mode_enabled' = CASE vendor = "rokid" -> success
                                   [] vendor = "viture" /\ success -> Sbs(display')
                                   [] OTHER -> sbs_mode_enabled

\* xreal's poll_controller_func: what was requested is sent, or the glasses are asked.
\* A failing request is repeated.
Sends ==
    /\ vendor = "xreal" /\ joined /\ session.pc = "idle" /\ sbs_mode_change_requested
    /\ display' = disp_mode
    /\ session' = [session EXCEPT !.pc = "sent"]
    /\ UNCHANGED <<vendor, joined, driverVars, sbs_mode, handler, shown>>

Sent ==
    /\ session.pc = "sent"
    /\ sbs_mode_change_requested' = FALSE
    /\ session' = Idle
    /\ UNCHANGED <<vendor, joined, display, disp_mode, sbs_mode_enabled, sbs_mode, handler, shown>>

\* xreal polls the mode, rokid's session looks every second.
Looks ==
    /\ vendor \in {"xreal", "rokid"} /\ joined /\ session.pc = "idle"
    /\ vendor = "xreal" => ~sbs_mode_change_requested
    /\ session' = [pc |-> "looked", mode |-> display]
    /\ UNCHANGED <<vendor, joined, display, driverVars, sbs_mode, handler, shown>>

\* Mutant: 2D is not noticed.
HandleOnlySbs ==
    /\ session.pc = "looked"
    /\ IF Xreal THEN disp_mode' = session.mode /\ UNCHANGED sbs_mode_enabled
                ELSE sbs_mode_enabled' = (sbs_mode_enabled \/ Sbs(session.mode))
                     /\ UNCHANGED disp_mode
    /\ session' = Idle
    /\ UNCHANGED <<vendor, joined, display, sbs_mode_change_requested, sbs_mode, handler, shown>>

handle_display_mode ==
    /\ session.pc = "looked"
    /\ IF Xreal THEN disp_mode' = session.mode /\ UNCHANGED sbs_mode_enabled
                ELSE sbs_mode_enabled' = Sbs(session.mode) /\ UNCHANGED disp_mode
    /\ session' = Idle
    /\ UNCHANGED <<vendor, joined, display, sbs_mode_change_requested, sbs_mode, handler, shown>>

\* rayneo's glasses tell, and viture's may.
Told ==
    /\ vendor \in {"rayneo", "viture"} /\ joined
    /\ sbs_mode_enabled' = Sbs(display)
    /\ UNCHANGED <<vendor, joined, display, disp_mode, sbs_mode_change_requested, sbs_mode,
                   handler, session, shown>>

\* What a connect learns: rayneo's comes later.
Connect ==
    /\ ~joined /\ session.pc = "idle"
    /\ joined' = TRUE
    /\ disp_mode' = display
    /\ sbs_mode_enabled' = IF vendor = "rayneo" THEN sbs_mode_enabled ELSE Sbs(display)
    /\ UNCHANGED <<vendor, display, sbs_mode_change_requested, sbs_mode, handler, session, shown>>

Disconnect ==
    /\ joined /\ joined' = FALSE
    /\ UNCHANGED <<vendor, display, driverVars, sbs_mode, handler, session, shown>>

-----------------------------------------------------------------------------
(* The control-flag thread and manage_state.                               *)

\* A control flags file, which says something of the mode or of something else.
read_control_flags ==
    /\ handler = "idle"
    /\ sbs_mode' \in {sbs_mode, "unset", "enable", "disable"}
    /\ handler' = "handle"
    /\ UNCHANGED <<vendor, joined, display, driverVars, session, shown>>

\* Without a connection the flag stays.
Handle ==
    /\ handler = "handle"
    /\ IF joined /\ sbs_mode # "unset" THEN Refresh ELSE UNCHANGED sbs_mode_enabled
    /\ IF joined /\ sbs_mode # "unset" /\ IsSbs # (sbs_mode = "enable")
       THEN handler' = "set" /\ UNCHANGED sbs_mode
       ELSE handler' = "idle" /\ sbs_mode' = IF joined THEN "unset" ELSE sbs_mode
    /\ UNCHANGED <<vendor, joined, display, disp_mode, sbs_mode_change_requested, session, shown>>

Sets ==
    /\ handler = "set"
    /\ XrealSets(sbs_mode = "enable") \/ OthersSet(sbs_mode = "enable")
    /\ UNCHANGED <<vendor, joined, session, shown>>

Requests ==
    /\ handler = "request"
    /\ sbs_mode_change_requested' = TRUE
    /\ handler' = "idle" /\ sbs_mode' = "unset"
    /\ UNCHANGED <<vendor, joined, display, disp_mode, sbs_mode_enabled, session, shown>>

handle_control_flags_update == Handle \/ Sets \/ Requests

update_state_from_device ==
    /\ shown' = (joined /\ IsSbs)
    /\ Refresh
    /\ UNCHANGED <<vendor, joined, display, disp_mode, sbs_mode_change_requested, sbs_mode,
                   handler, session>>

\* The button of the glasses.
Button ==
    /\ \E mode \in Modes : mode # display /\ display' = mode
    /\ UNCHANGED <<vendor, joined, driverVars, sbs_mode, handler, session, shown>>

Session == Sends \/ Sent \/ Looks \/ handle_display_mode

Next ==
    \/ Session \/ Told \/ Connect \/ Disconnect \/ Button
    \/ read_control_flags \/ handle_control_flags_update \/ update_state_from_device

Spec == Init /\ [][Next]_vars

Fairness ==
    /\ WF_vars(Session) /\ WF_vars(vendor = "rayneo" /\ Told)
    /\ WF_vars(handle_control_flags_update) /\ WF_vars(update_state_from_device)

FairSpec == Spec /\ Fairness

-----------------------------------------------------------------------------
(* Properties.                                                             *)

\* The state file comes to say what the glasses show, whatever was asked of them by the
\* flags and by their button, and though the drivers write down what was only asked for.
ModeReported ==
    \A sbs \in BOOLEAN :
        (joined /\ handler = "idle" /\ Sbs(display) = sbs)
            ~> shown = sbs \/ ~joined \/ handler # "idle" \/ Sbs(display) # sbs

\* driver.c: "only request a change if necessary".  So a request that found the glasses
\* connected is served.  It is not: xreal's poll may put the old mode back before it is
\* sent, and rokid takes the success of a request to disable for the mode.
RequestServed ==
    (joined /\ handler = "handle" /\ sbs_mode = "enable")
        ~> Sbs(display) \/ ~joined \/ sbs_mode = "disable"
=============================================================================
