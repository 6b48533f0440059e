----------------------------- MODULE Interfaces -----------------------------
(***************************************************************************)
(* What other programs see of the driver: the shared memory of the Breezy  *)
(* desktop, and the display mode in the state file.  They share no         *)
(* variable but the configuration, so a behaviour is that of one of them.  *)
(***************************************************************************)
EXTENDS Naturals

CONSTANTS
    Parts,                      \* the parts that are looked at
    Leftovers, WritesFail,       \* of BreezyDesktop
    Vendors                     \* of SideBySide

ASSUME PartsAssumption == Parts \subseteq {"breezy", "sbs"}

VARIABLES
    part,
    bd_config, disabled, update, present, kept, connected, session,
    has_started, fd, due, file_mutex, call, offset, file,  \* BreezyDesktop
    vendor, joined, display, disp_mode, sbs_mode_change_requested, sbs_mode_enabled,
    sbs_mode, handler, sbsSession, shown                   \* SideBySide

breezyVars == <<bd_config, disabled, update, present, kept, connected, session,
                has_started, fd, due, file_mutex, call, offset, file>>
sbsVars == <<vendor, joined, display, disp_mode, sbs_mode_change_requested,
             sbs_mode_enabled, sbs_mode, handler, sbsSession, shown>>
vars == <<part, breezyVars, sbsVars>>

Breezy == INSTANCE BreezyDesktop
Display == INSTANCE SideBySide WITH session <- sbsSession

ASSUME FileAssumption == Breezy!BreezyAssumption
ASSUME ModeAssumption == Display!SideBySideAssumption

Init ==
    /\ part \in Parts
    /\ Breezy!Init /\ Display!Init
    /\ part # "breezy" => bd_config = "off" /\ file = "absent"
    /\ part # "sbs" => vendor = "viture" /\ display = "2d60"

\* What the steps of a part leave alone.
breezyRest == <<part, sbsVars>>
sbsRest == <<part, breezyVars>>

Next ==
    \/ part = "breezy" /\ Breezy!Next /\ UNCHANGED breezyRest
    \/ part = "sbs" /\ Display!Next /\ UNCHANGED sbsRest

Spec == Init /\ [][Next]_vars

(* Fairness: that of the parts.                                            *)

Fairness ==
    /\ \A t \in Breezy!Thread :
           WF_vars(part = "breezy" /\ Breezy!Writes(t) /\ UNCHANGED breezyRest)
    /\ WF_vars(part = "breezy" /\ Breezy!Pose /\ UNCHANGED breezyRest)
    /\ WF_vars(part = "breezy" /\ Breezy!Session /\ UNCHANGED breezyRest)
    /\ WF_vars(part = "breezy" /\ Breezy!TimePasses /\ UNCHANGED breezyRest)
    /\ WF_vars(part = "breezy" /\ (Breezy!SetsConfig \/ Breezy!ResetsPose \/ Breezy!Applies)
               /\ UNCHANGED breezyRest)
    /\ WF_vars(part = "sbs" /\ Display!Session /\ UNCHANGED sbsRest)
    /\ WF_vars(part = "sbs" /\ vendor = "rayneo" /\ Display!Told /\ UNCHANGED sbsRest)
    /\ WF_vars(part = "sbs" /\ Display!handle_control_flags_update /\ UNCHANGED sbsRest)
    /\ WF_vars(part = "sbs" /\ Display!update_state_from_device /\ UNCHANGED sbsRest)

FairSpec == Spec /\ Fairness

-----------------------------------------------------------------------------
(* Properties: those of the parts, where each is stated with its reason.   *)

\* breezy_desktop.c: a session's shared file comes to say that the desktop is shown,
\* whichever thread read the old configuration, or lost a write.
SwitchShown == Breezy!SwitchShown

\* state.c: the state file comes to say which mode the glasses show.
ModeReported == Display!ModeReported
=============================================================================
