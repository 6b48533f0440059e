------------------------------ MODULE Gamescope ------------------------------
(***************************************************************************)
(* plugins/gamescope_reshade_wayland.c: the connection to gamescope, whose *)
(* reshade effect then shows the display, so that the other plugins have   *)
(* to stop doing so themselves.                                            *)
(*                                                                         *)
(* Threads call it with wayland_mutex held: manage_state, the one that     *)
(* delivers poses, and block_on_device.  A call is one step, but for       *)
(* do_trigger_plugins_ipc_change: it gives the mutex back while the other  *)
(* plugins look at is_gamescope_reshade_ipc_connected(), and it does not   *)
(* run while another of it does.                                           *)
(*                                                                         *)
(* display, registry and reshade_object are there together whenever the    *)
(* mutex is free, and are one object here.  Of the other plugins there is  *)
(* sideview, which has no second chance to look, and virtual_display,      *)
(* whose writes come before sideview's turn.                               *)
(***************************************************************************)
EXTENDS Naturals

CONSTANT Nobody

VARIABLES
    gamescope,  \* "down", "plain" (without the reshade interface) or "reshade"
    reshade_object, \* "null", "live" or "dead": its gamescope is gone
    connected,  \* gamescope_reshade_ipc_connected
    reported,   \* state()->is_gamescope_reshade_ipc_connected
    request,    \* gamescope_reshade_effect_request_time: "none", "waiting", "late"
    callback,   \* effect_ready_callback is set
    answer,     \* the effect_ready event: "none", "asked" or "sent"
    trigger,    \* progress of do_trigger_plugins_ipc_change
    seen,       \* what sideview saw when it last looked
    wanted,     \* [present, enabled]: device_present(), ~gamescope_config->disabled
    session,    \* of the block_on_device thread: "none" (yet), "on" or "off"
    raced       \* history: connected changed during another thread's trigger

world == <<gamescope, wanted, session>>
vars == <<world, reshade_object, connected, reported, request, callback, answer, trigger,
          seen, raced>>

Thread == {"manage_state", "pose", "block_on_device"}
Quiet == [thread |-> Nobody, by |-> "cleanup", pc |-> "none"]

TypeOK ==
    /\ gamescope \in {"down", "plain", "reshade"}
    /\ reshade_object \in {"null", "live", "dead"}
    /\ {connected, reported, callback, seen, raced} \subseteq BOOLEAN
    /\ request \in {"none", "waiting", "late"}
    /\ answer \in {"none", "asked", "sent"}
    /\ trigger \in [thread : Thread \cup {Nobody}, by : {"connect", "cleanup"},
                    pc : {"none", "set", "look", "relock"}]
    /\ (trigger.pc = "none") = (trigger.thread = Nobody)
    /\ wanted \in [present : BOOLEAN, enabled : BOOLEAN]
    /\ session \in {"none", "on", "off"}
    /\ connected => reshade_object # "null"

Init ==
    /\ gamescope \in {"down", "plain", "reshade"}
    /\ reshade_object = "null" /\ connected = FALSE /\ reported = FALSE
    /\ request = "none" /\ callback = FALSE /\ answer = "none"
    /\ trigger = Quiet /\ seen = FALSE
    /\ wanted \in [present : BOOLEAN, enabled : BOOLEAN]
    /\ session = "none"
    /\ raced = FALSE

-----------------------------------------------------------------------------
(* The functions that need the mutex.                                      *)

plugins_ipc_change_call_in_progress == trigger.pc # "none"

\* A thread in the middle of a call makes no other.
Free(t) == trigger.thread # t

Race == raced' = (raced \/ (plugins_ipc_change_call_in_progress /\ connected' # connected))

do_wl_server_disconnect ==
    /\ connected' = FALSE
    /\ callback' = FALSE
    /\ reshade_object' = "null" /\ answer' = "none"

\* The two outcomes of do_wl_server_connect.
Connect ==
    /\ reshade_object' = "live" /\ connected' = TRUE
    /\ request' = "waiting"
    /\ answer' = IF answer = "sent" THEN answer ELSE "asked"

ConnectFails == do_wl_server_disconnect /\ UNCHANGED request

Connectable == reshade_object = "live" \/ (reshade_object = "null" /\ gamescope = "reshade")

\* Mutant: the other plugins are not told.
CleanupSilently(t) ==
    /\ do_wl_server_disconnect
    /\ reported' = FALSE /\ request' = "none"
    /\ UNCHANGED <<trigger, seen>>

\* do_wl_cleanup: up to the trigger, or to the end if that does not run.
do_wl_cleanup(t) ==
    /\ reported' = FALSE
    /\ IF plugins_ipc_change_call_in_progress
       THEN do_wl_server_disconnect /\ request' = "none" /\ UNCHANGED trigger
       ELSE /\ connected' = FALSE
            /\ trigger' = [thread |-> t, by |-> "cleanup", pc |-> "set"]
            /\ UNCHANGED <<reshade_object, callback, answer, request>>
    /\ UNCHANGED seen

\* A flush waits for the answer if there is a callback, which may then be called.
Flush ==
    /\ reshade_object = "live"
    /\ IF callback /\ answer = "sent"
       THEN request' = "none" /\ callback' = FALSE /\ answer' = "none"
       ELSE UNCHANGED <<request, callback, answer>>
    /\ UNCHANGED <<reshade_object, connected, reported>>

\* set_gamescope_reshade_effect_uniform_variable with flush.
SetUniform(t) ==
    \/ Flush /\ UNCHANGED <<trigger, seen>>
    \/ reshade_object = "dead" /\ do_wl_cleanup(t)

-----------------------------------------------------------------------------
(* manage_state: handle_state of this plugin, and of virtual_display, which *)
(* sets a variable in any case.                                            *)

Wanted == wanted.present /\ wanted.enabled

HandleState ==
    /\ Free("manage_state")
    /\ \/ /\ Wanted /\ ~connected /\ Connectable
          /\ Connect
          /\ reported' = TRUE
          /\ IF plugins_ipc_change_call_in_progress
             THEN callback' = TRUE /\ UNCHANGED trigger
             ELSE /\ trigger' = [thread |-> "manage_state", by |-> "connect", pc |-> "set"]
                  /\ UNCHANGED callback
          /\ UNCHANGED seen
       \/ /\ Wanted /\ ~connected /\ ~Connectable
          /\ ConnectFails
          /\ UNCHANGED <<reported, trigger, seen>>
       \/ /\ ~Wanted /\ connected
          /\ do_wl_cleanup("manage_state")
    /\ UNCHANGED world
    /\ Race

VirtualDisplayState ==
    /\ Free("manage_state")
    /\ SetUniform("manage_state")
    /\ UNCHANGED world
    /\ Race

(* The thread that delivers poses: handle_pose_data, and the variables that *)
(* are skipped if the mutex is taken.                                      *)

\* Mutant: the time is not looked at.
PoseUntimed ==
    /\ Free("pose")
    /\ wanted.present
    /\ SetUniform("pose")
    /\ UNCHANGED world
    /\ Race

Pose ==
    /\ Free("pose")
    /\ wanted.present
    /\ \/ request = "late" /\ reshade_object # "null" /\ do_wl_cleanup("pose")
       \/ SetUniform("pose")
    /\ UNCHANGED world
    /\ Race

(* The block_on_device thread.                                             *)

\* setup_ipc, which connects without a listener, the first time, and without a look
\* at the result.
SessionStarts ==
    /\ Free("block_on_device")
    /\ session # "on" /\ session' = "on"
    /\ IF session = "none" /\ wanted.enabled /\ ~connected
       THEN IF Connectable THEN Connect /\ UNCHANGED callback ELSE ConnectFails
       ELSE UNCHANGED <<reshade_object, connected, callback, answer, request>>
    /\ UNCHANGED <<gamescope, wanted, reported, trigger, seen>>
    /\ Race

\* handle_device_disconnect.
SessionEnds ==
    /\ Free("block_on_device")
    /\ session = "on" /\ session' = "off"
    /\ do_wl_cleanup("block_on_device")
    /\ UNCHANGED <<gamescope, wanted>>
    /\ Race

-----------------------------------------------------------------------------
(* do_trigger_plugins_ipc_change: handle_ipc_change of virtual_display and *)
(* sideview, with the mutex free.                                          *)

TriggerSets ==
    /\ trigger.pc = "set"
    /\ \/ /\ reshade_object = "null" \/ connected \* nothing is set, or not flushed
          /\ UNCHANGED <<reshade_object, connected, callback, answer, request, reported>>
       \/ /\ reshade_object = "dead"
          /\ do_wl_server_disconnect /\ reported' = FALSE /\ request' = "none"
       \/ Flush
    /\ trigger' = [trigger EXCEPT !.pc = "look"]
    /\ UNCHANGED <<world, seen, raced>>

TriggerLooks ==
    /\ trigger.pc = "look"
    /\ seen' = (connected /\ wanted.present)
    /\ trigger' = [trigger EXCEPT !.pc = "relock"]
    /\ UNCHANGED <<world, reshade_object, connected, reported, callback, answer, request,
                   raced>>

\* What follows in gamescope_reshade_wl_handle_state_func and in do_wl_cleanup.
TriggerReturns ==
    /\ trigger.pc = "relock"
    /\ trigger' = Quiet
    /\ IF trigger.by = "connect"
       THEN /\ callback' = (callback \/ reshade_object # "null")
            /\ UNCHANGED <<reshade_object, connected, answer, request>>
       ELSE do_wl_server_disconnect /\ request' = "none"
    /\ UNCHANGED <<world, reported, seen, raced>>

Trigger == TriggerSets \/ TriggerLooks \/ TriggerReturns

-----------------------------------------------------------------------------
(* The world.                                                              *)

\* Other plugins look when the configuration changes or a device connects.
Look ==
    /\ wanted.present
    /\ seen' = connected
    /\ UNCHANGED <<world, reshade_object, connected, reported, callback, answer, request,
                   trigger, raced>>

GamescopeChanges ==
    /\ gamescope' \in {"down", "plain", "reshade"} \ {gamescope}
    /\ reshade_object' = IF reshade_object = "live" THEN "dead" ELSE reshade_object
    /\ UNCHANGED <<wanted, session, connected, reported, callback, answer, request, trigger,
                   seen, raced>>

EffectReady ==
    /\ reshade_object = "live" /\ answer = "asked"
    /\ answer' = "sent"
    /\ UNCHANGED <<world, reshade_object, connected, reported, callback, request, trigger,
                   seen, raced>>

\* GAMESCOPE_RESHADE_WAIT_TIME_MS pass.
WaitTimePasses ==
    /\ request = "waiting"
    /\ request' = "late"
    /\ UNCHANGED <<world, reshade_object, connected, reported, callback, answer, trigger, seen,
                   raced>>

UserChanges ==
    /\ \E key \in {"present", "enabled"} : wanted' = [wanted EXCEPT ![key] = ~@]
    /\ UNCHANGED <<gamescope, session, reshade_object, connected, reported, callback, answer,
                   request, trigger, seen, raced>>

Next ==
    \/ HandleState \/ VirtualDisplayState \/ Pose \/ SessionStarts \/ SessionEnds
    \/ Trigger
    \/ Look \/ GamescopeChanges \/ EffectReady \/ WaitTimePasses \/ UserChanges

Spec == Init /\ [][Next]_vars

\* manage_state comes round every second, glasses that are there send poses, and the
\* trigger goes on.
Fairness ==
    /\ WF_vars(HandleState) /\ WF_vars(VirtualDisplayState)
    /\ WF_vars(Pose) /\ WF_vars(Trigger) /\ WF_vars(WaitTimePasses)

FairSpec == Spec /\ Fairness

-----------------------------------------------------------------------------
(* Properties.                                                             *)

\* "set this early so other plugins can check if it's connected": when no call is in
\* progress, no other plugin and no state file says that gamescope shows the display
\* when nothing is connected to it, after which nobody would show it.
Told == trigger = Quiet /\ (seen \/ reported) => connected

\* That holds as long as the connection is not made or broken by one thread while
\* another tells the plugins.
ToldUnlessRaced == ~raced => Told

\* "gamescope effect_ready event never received, falling back": an effect that does
\* not become ready is given up, as long as there are poses.
FallsBack ==
    (connected /\ request # "none") ~> (~connected \/ request = "none" \/ ~wanted.present)

\* A connection whose gamescope has gone is noticed and torn down, and what is left of
\* it does not keep the driver from connecting again.
DeadNoticed == (reshade_object = "dead") ~> (reshade_object # "dead")
Reconnects ==
    (Wanted /\ gamescope = "reshade") ~> (connected \/ ~Wanted \/ gamescope # "reshade")
=============================================================================
