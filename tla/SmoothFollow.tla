---------------------------- MODULE SmoothFollow ----------------------------
(***************************************************************************)
(* plugins/smooth_follow.c: the display follows the head.  Each pose moves *)
(* the reference pose a part of the way towards the head, or back to       *)
(* origin_pose, where it was before it followed, when following is over.   *)
(*                                                                         *)
(* An orientation is abstracted to a yaw, which a pose moves by 1, or not  *)
(* at all if no time has passed; the thresholds, which depend on display   *)
(* and device, keep their order.                                           *)
(* Times are the seconds since they were taken, up to what they are        *)
(* compared with.  6DoF positions follow without a threshold, and are left *)
(* out, as is the filter on the tracked axes.                              *)
(***************************************************************************)
EXTENDS Integers

CONSTANTS
    MaxYaw,  \* bound: how far the head turns
    Delay,   \* of loose_follow_params, and of the snap-back, in seconds
    NoPose

\* What an instance has to assume of them.
FollowAssumption == MaxYaw \in Nat /\ Delay \in Nat /\ NoPose \notin 0 .. MaxYaw

VARIABLES
    mode,      \* what is to follow: "none", "loose" (the virtual display) or
               \* "sticky" (sideview, Breezy desktop)
    granted,   \* is_smooth_follow_granted(), is_productivity_granted()
    present,   \* device_checkout() finds a device
    centered,  \* the session is calibrated, and the reference pose is set
    follow,    \* the static variables of the plugin, but for
    origin_pose,
    reference, \* the reference pose's yaw
    head,      \* the pose's yaw
    home       \* history: where the reference pose was centered, while it is

world == <<mode, granted, present>>
vars == <<world, centered, follow, origin_pose, reference, head, home>>

Yaw == 0 .. MaxYaw
Params(return, lower, upper, delayed) ==
    [return_to_angle |-> return, lower |-> lower, upper |-> upper, delayed |-> delayed]
init_params == Params(2, 2, 2, FALSE)
sticky_params == Params(1, 1, 1, FALSE)
loose_follow_params == Params(3, 4, 6, TRUE)

Unset == -1

\* unseen: last_timestamp_ms = -1; snap_age: since start_snap_back_timestamp_ms;
\* wait_age: since follow_wait_time_start_ms.
Follow == [enabled : BOOLEAN, params : {init_params, sticky_params, loose_follow_params},
           state : {"none", "init", "waiting", "slerping"}, unseen : BOOLEAN,
           snap_age : Unset .. Delay + 1, wait_age : 0 .. Delay + 1]

TypeOK ==
    /\ mode \in {"none", "loose", "sticky"}
    /\ {granted, present, centered} \subseteq BOOLEAN
    /\ follow \in Follow
    /\ origin_pose \in Yaw \cup {NoPose}
    /\ {reference, head, home} \subseteq Yaw

Init ==
    /\ mode = "none" /\ granted \in BOOLEAN /\ present = FALSE
    /\ centered = FALSE
    /\ follow = [enabled |-> FALSE, params |-> sticky_params, state |-> "none",
                 unseen |-> TRUE, snap_age |-> Unset, wait_age |-> 0]
    /\ origin_pose = NoPose
    /\ reference = 0 /\ head = 0 /\ home = 0

-----------------------------------------------------------------------------
(* update_smooth_follow_params, for a mode, a license and a device.        *)

ModeParams(f, m, d) == CASE d /\ m = "loose" -> loose_follow_params
                         [] d /\ m = "sticky" -> sticky_params
                         [] OTHER -> f.params

update_smooth_follow_params(f, m, g, d) ==
    LET on == g /\ m # "none" IN
    IF on /\ ~f.enabled
    THEN [f EXCEPT !.enabled = TRUE, !.params = init_params, !.state = "init",
                   !.unseen = TRUE, !.snap_age = Unset]
    ELSE [f EXCEPT !.enabled = on,
              !.params = IF f.enabled /\ ~on /\ origin_pose # NoPose THEN sticky_params
                                                                  ELSE ModeParams(f, m, d)]

-----------------------------------------------------------------------------
(* next_state_for_angle, slerp and smooth_follow_modify_reference_pose_func.*)

Wait(f) ==
    CASE f.state = "none" -> [f EXCEPT !.state = "waiting", !.wait_age = 0]
      [] f.state = "waiting" /\ f.wait_age > Delay -> [f EXCEPT !.state = "slerping"]
      [] OTHER -> f

next_state_for_angle(f, angle) ==
    LET p == f.params IN
    CASE f.state = "init" ->
             IF angle < 2 * p.return_to_angle
             THEN update_smooth_follow_params([f EXCEPT !.state = "none"], mode, granted, present)
             ELSE f
      [] f.state # "init" /\ angle < IF f.state = "slerping" THEN p.return_to_angle
                                                             ELSE p.lower ->
             [f EXCEPT !.state = "none"]
      [] OTHER -> IF angle > p.lower /\ angle < p.upper /\ p.delayed
                  THEN Wait(f) ELSE [f EXCEPT !.state = "slerping"]

Angle(a, b) == IF a >= b THEN a - b ELSE b - a

Towards(from, to) ==
    IF from < to THEN from + 1 ELSE IF from > to THEN from - 1 ELSE from

\* What slerp may return after the state became that of f, if time has passed.  The
\* last part of the way, within return_to_angle, is an asymptote.
slerp(f, from, to, elapsed) ==
    IF f.state \notin {"slerping", "init"} \/ ~elapsed THEN {from}
    ELSE {Towards(from, to)}
             \cup (IF Angle(from, to) <= f.params.return_to_angle THEN {from} ELSE {})

\* last_timestamp_ms follows the pose's as long as there is nothing to do.
Elapsed == follow.state # "none"

First ==
    /\ follow.unseen
    /\ follow' = [follow EXCEPT !.unseen = FALSE]
    /\ UNCHANGED <<origin_pose, reference>>

\* The origin is captured before it changes.
FollowHead ==
    /\ ~follow.unseen
    /\ follow.enabled
    /\ follow' = next_state_for_angle(follow, Angle(reference, head))
    /\ reference' \in slerp(follow', reference, head, Elapsed)
    /\ origin_pose' = IF origin_pose = NoPose THEN reference ELSE origin_pose

Started == [follow EXCEPT !.snap_age = IF @ = Unset THEN 0 ELSE @]

\* Mutant: only the angle ends the snap-back.
SnapBackUntimed ==
    /\ ~follow.unseen /\ ~follow.enabled /\ origin_pose # NoPose
    /\ LET f == next_state_for_angle(Started, Angle(reference, origin_pose)) IN
       IF f.state = "none"
       THEN /\ follow' = [f EXCEPT !.snap_age = Unset]
            /\ reference' = origin_pose /\ origin_pose' = NoPose
       ELSE /\ follow' = f
            /\ reference' \in slerp(f, reference, origin_pose, Elapsed)
            /\ UNCHANGED origin_pose

\* Following is over: back to the origin, which the state or the time ends.
SnapBack ==
    /\ ~follow.unseen /\ ~follow.enabled /\ origin_pose # NoPose
    /\ LET f == next_state_for_angle(Started, Angle(reference, origin_pose)) IN
       IF f.state = "none" \/ f.snap_age > Delay
       THEN /\ follow' = [f EXCEPT !.state = "none", !.snap_age = Unset]
            /\ reference' = origin_pose /\ origin_pose' = NoPose
       ELSE /\ follow' = f
            /\ reference' \in slerp(f, reference, origin_pose, Elapsed)
            /\ UNCHANGED origin_pose

smooth_follow_modify_reference_pose ==
    /\ centered
    /\ follow.enabled \/ origin_pose # NoPose
    /\ First \/ FollowHead \/ SnapBack
    /\ UNCHANGED <<world, centered, head, home>>

-----------------------------------------------------------------------------
(* What the driver calls besides.                                          *)

Update(m, g, d) ==
    /\ follow' = update_smooth_follow_params(follow, m, g, d)
    /\ UNCHANGED <<origin_pose, reference, head, home>>

\* set_config, and the control flags of Breezy desktop.
Configure(m) ==
    /\ mode' = m /\ Update(m, granted, present)
    /\ UNCHANGED <<granted, present, centered>>

\* handle_state and handle_ipc_change, which see what the license grants.
HandleState ==
    /\ Update(mode, granted, present)
    /\ UNCHANGED <<world, centered>>

handle_device_connect ==
    /\ ~present /\ present' = TRUE
    /\ Update(mode, granted, TRUE)
    /\ UNCHANGED <<mode, granted, centered>>

handle_device_disconnect ==
    /\ present /\ present' = FALSE /\ centered' = FALSE
    /\ follow' = [follow EXCEPT !.unseen = TRUE, !.state = "none", !.snap_age = Unset]
    /\ origin_pose' = NoPose /\ home' = 0
    /\ UNCHANGED <<mode, granted, reference, head>>

\* Mutant: the origin is where it was.
CenterReferenceOnly ==
    /\ present /\ centered' = TRUE
    /\ reference' = head /\ home' = head
    /\ UNCHANGED <<world, head, follow, origin_pose>>

\* The driver centers the screen: handle_reference_pose_updated.
smooth_follow_handle_reference_pose_updated ==
    /\ present /\ centered' = TRUE
    /\ reference' = head /\ home' = head
    /\ IF origin_pose = NoPose
       THEN UNCHANGED <<origin_pose, follow>>
       ELSE /\ origin_pose' = head
            /\ follow' = [follow EXCEPT !.state = "none", !.snap_age = Unset]
    /\ UNCHANGED <<world, head>>

\* The user asks for a calibration, which begins at a default reference pose.
Recalibrate ==
    /\ present /\ centered' = FALSE
    /\ reference' = 0 /\ home' = 0
    /\ UNCHANGED <<world, follow, origin_pose, head>>

Turn ==
    /\ head' \in {head - 1, head + 1} \cap Yaw
    /\ UNCHANGED <<world, centered, follow, origin_pose, reference, home>>

License ==
    /\ granted' = ~granted
    /\ UNCHANGED <<mode, present, centered, follow, origin_pose, reference, head, home>>

Older(age) == IF age = Unset \/ age > Delay THEN age ELSE age + 1

Tick ==
    /\ follow' = [follow EXCEPT !.snap_age = Older(@), !.wait_age = Older(@)]
    /\ UNCHANGED <<world, centered, origin_pose, reference, head, home>>

Next ==
    \/ smooth_follow_modify_reference_pose
    \/ \E m \in {"none", "loose", "sticky"} : Configure(m)
    \/ HandleState \/ handle_device_connect \/ handle_device_disconnect
    \/ smooth_follow_handle_reference_pose_updated
    \/ Recalibrate \/ Turn \/ License \/ Tick

Spec == Init /\ [][Next]_vars

\* The way within return_to_angle: "our return-to-angle is so small it will never hit
\* the target".
Creeps ==
    /\ follow' = follow /\ origin_pose' = origin_pose
    /\ Angle(reference, IF follow.enabled THEN head ELSE origin_pose)
           <= follow.params.return_to_angle

\* Poses keep coming, and time passes; that the last part of a way is ever gone is not
\* assumed.
Fairness == WF_vars(smooth_follow_modify_reference_pose /\ ~Creeps) /\ WF_vars(Tick)

FairSpec == Spec /\ Fairness

-----------------------------------------------------------------------------
(* Properties.                                                             *)

\* The screen returns to where the user centered it: whatever follows, stops, is
\* centered again or loses its device, the reference pose is there unless an origin is
\* kept for it.
HomeKept == centered => home = IF origin_pose = NoPose THEN reference ELSE origin_pose

\* "kill the snap-back slerp after 2 seconds": the screen does return, although the
\* angle may never become small enough.
SnapsBack ==
    (centered /\ ~follow.enabled /\ origin_pose # NoPose)
        ~> (origin_pose = NoPose \/ follow.enabled \/ ~centered)

\* The screen catches up with a head that is still: no state in which nothing happens
\* any more leaves it outside of the threshold.
CatchesUp ==
    \A yaw \in Yaw :
        (centered /\ follow.enabled /\ head = yaw)
            ~> (Angle(reference, yaw) <= loose_follow_params.lower \/ head # yaw
                    \/ ~follow.enabled \/ ~centered)
=============================================================================
