------------------------------ MODULE Services ------------------------------
(***************************************************************************)
(* What the driver's threads call in turn (plugins.c, features/, outputs.c) *)
(* and the stream that they listen to.  The parts share no variable but the *)
(* configuration: a behaviour is that of one of them, with everything that *)
(* its callers may do.                                                     *)
(***************************************************************************)
EXTENDS Naturals, Sequences

CONSTANTS
    Parts,                                      \* the parts that are looked at
    Basic, Pro, Others, Productivity, Reader,   \* of FeatureCache
    Nobody,                                     \* of Gamescope
    MaxYaw, Delay, NoPose,                      \* of SmoothFollow
    Listener, Config                            \* of OpenTrackListener

ASSUME PartsAssumption ==
    Parts \subseteq {"features", "gamescope", "smooth_follow", "outputs", "listener"}

VARIABLES
    part,
    features, publisher, cache, reader, cacheRaced,            \* FeatureCache
    gamescope, reshade_object, reshade, reported, request, callback, answer, trigger,
    seen, wanted, reshadeSession, reshadeRaced,                \* Gamescope
    follow_mode, granted, present, centered, follow, origin_pose, reference, head,
    home,                                                      \* SmoothFollow
    mode, disabled, ready, connected, session, update, uinput, flag, leaked,
    outputsRaced,                                              \* Outputs
    enabled, streamDisabled, feedback_guard, socket, streamConnected, registered,
    listener_running, pc, new_config, connecting, streaming    \* OpenTrackListener

featureVars == <<features, publisher, cache, reader, cacheRaced>>
reshadeVars == <<gamescope, reshade_object, reshade, reported, request, callback, answer,
                 trigger, seen, wanted, reshadeSession, reshadeRaced>>
followVars == <<follow_mode, granted, present, centered, follow, origin_pose, reference,
                head, home>>
outputVars == <<mode, disabled, ready, connected, session, update, uinput, flag, leaked,
                outputsRaced>>
listenerVars == <<enabled, streamDisabled, feedback_guard, socket, streamConnected,
                  registered, listener_running, pc, new_config, connecting, streaming>>
vars == <<part, featureVars, reshadeVars, followVars, outputVars, listenerVars>>

Features == INSTANCE FeatureCache WITH granted <- features, raced <- cacheRaced
GamescopeReshade == INSTANCE Gamescope WITH
    connected <- reshade, session <- reshadeSession, raced <- reshadeRaced
Follow == INSTANCE SmoothFollow WITH mode <- follow_mode
InputDevice == INSTANCE Outputs WITH raced <- outputsRaced
Stream == INSTANCE OpenTrackListener WITH
    disabled <- streamDisabled, connected <- streamConnected

ASSUME FeaturesAssumption == Features!FeatureAssumption
ASSUME SmoothAssumption == Follow!FollowAssumption
ASSUME StreamAssumption == Stream!ThreadAssumption

Init ==
    /\ part \in Parts
    /\ Features!Init /\ GamescopeReshade!Init /\ Follow!Init /\ InputDevice!Init
    /\ Stream!Init
    /\ part # "gamescope" =>
           gamescope = "down" /\ wanted = [present |-> FALSE, enabled |-> FALSE]
    /\ part # "smooth_follow" => ~granted

\* What the steps of a part leave alone.
featuresRest == <<part, reshadeVars, followVars, outputVars, listenerVars>>
reshadeRest == <<part, featureVars, followVars, outputVars, listenerVars>>
followRest == <<part, featureVars, reshadeVars, outputVars, listenerVars>>
outputsRest == <<part, featureVars, reshadeVars, followVars, listenerVars>>
listenerRest == <<part, featureVars, reshadeVars, followVars, outputVars>>

Next ==
    \/ part = "features" /\ Features!Next /\ UNCHANGED featuresRest
    \/ part = "gamescope" /\ GamescopeReshade!Next /\ UNCHANGED reshadeRest
    \/ part = "smooth_follow" /\ Follow!Next /\ UNCHANGED followRest
    \/ part = "outputs" /\ InputDevice!Next /\ UNCHANGED outputsRest
    \/ part = "listener" /\ Stream!Next /\ UNCHANGED listenerRest

Spec == Init /\ [][Next]_vars

(* Fairness: that of Gamescope, of SmoothFollow and of OpenTrackListener.  *)

Fairness ==
    /\ WF_vars(part = "gamescope" /\ GamescopeReshade!HandleState /\ UNCHANGED reshadeRest)
    /\ WF_vars(part = "gamescope" /\ GamescopeReshade!VirtualDisplayState /\ UNCHANGED reshadeRest)
    /\ WF_vars(part = "gamescope" /\ GamescopeReshade!Pose /\ UNCHANGED reshadeRest)
    /\ WF_vars(part = "gamescope" /\ GamescopeReshade!Trigger /\ UNCHANGED reshadeRest)
    /\ WF_vars(part = "gamescope" /\ GamescopeReshade!WaitTimePasses /\ UNCHANGED reshadeRest)
    /\ WF_vars(part = "smooth_follow" /\ Follow!smooth_follow_modify_reference_pose
                   /\ ~Follow!Creeps /\ UNCHANGED followRest)
    /\ WF_vars(part = "smooth_follow" /\ Follow!Tick /\ UNCHANGED followRest)
    /\ WF_vars(part = "listener" /\ Stream!ListenerStep /\ UNCHANGED listenerRest)
    /\ SF_vars(part = "listener" /\ Stream!Timeout /\ UNCHANGED listenerRest)
    /\ WF_vars(part = "listener" /\ Stream!ConfigStep /\ UNCHANGED listenerRest)

FairSpec == Spec /\ Fairness

-----------------------------------------------------------------------------
(* Properties: those of the parts, where each is stated with its reason.   *)

\* device_license.c: "clear cached feature checks".  Cached answers are the published
\* ones, unless a reader was at work together with a publisher.
FreshUnlessRaced == part = "features" => Features!FreshUnlessRaced

\* gamescope_reshade_wayland.c: no plugin and no state file is left with a connection
\* that is gone, as long as no thread breaks it while another tells the plugins.
ToldUnlessRaced == part = "gamescope" => GamescopeReshade!ToldUnlessRaced

\* gamescope_reshade_wayland.c: an effect that does not become ready is given up.
FallsBack == GamescopeReshade!FallsBack

\* smooth_follow.c: the place where the user centered the screen is kept while it
\* follows, through snap-backs, recentering, calibration and sessions.
HomeKept == part = "smooth_follow" => Follow!HomeKept

\* smooth_follow.c: a screen that is to return does, although it may creep for ever.
SnapsBack == Follow!SnapsBack

\* outputs.c: the virtual input device is that of the configured mode in a session, and
\* there is none otherwise, unless a reinit_outputs ran outside of the session.
OutputsMatch == part = "outputs" => InputDevice!OutputsMatch

\* opentrack_listener.c: when a configuration that disables the listener was applied,
\* thread and socket are gone.
StopsListening == part = "listener" => Stream!StopsListening

\* opentrack_listener.c: the join does not block the config thread for ever.
ConfigReturns == Stream!ConfigReturns

\* opentrack_listener.c: a stream that went silent is disconnected.
SilentStreamEnds == Stream!SilentStreamEnds
=============================================================================
