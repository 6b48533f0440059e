---------------------------- MODULE PoseHandling ----------------------------
(***************************************************************************)
(* The way of a pose: connection_pool_ingest_pose and driver_handle_pose,  *)
(* with the calibration and the reference pose that they keep in globals   *)
(* without a lock, against the other threads that write them.              *)
(*                                                                         *)
(*  - The primary's thread runs driver_handle_pose.  It is either the      *)
(*    SDK's own, which calls back from device_connect on (viture, rayneo,  *)
(*    the OpenTrack listener), or the connection's (xreal, rokid).         *)
(*  - The supplemental is always an OpenTrack stream, whose thread stores  *)
(*    its pose for the primary's next, and adds its own device.            *)
(*  - The hotplug thread, and a change of the configuration, remove        *)
(*    devices, and the former adds others.                                 *)
(*  - The block_on_device thread resets the calibration of each session.   *)
(*  - The control-flag thread sets recenter_screen and recalibrate.        *)
(*                                                                         *)
(* Quaternions are abstracted to what they were derived from: whether the  *)
(* conjugate belongs to the reference pose, and whether the supplemental's *)
(* orientation was captured since the screen was centered.  What a thread  *)
(* reads of a global that it also writes is an own step where another      *)
(* thread's write can come between.  Seconds are counted up to the         *)
(* calibration wait.                                                       *)
(***************************************************************************)
EXTENDS Naturals

CONSTANT Wait   \* device->calibration_wait_s

ASSUME WaitAssumption == Wait \in Nat

VARIABLES
    callbacks,    \* the SDK calls back from its connect on
    connected,    \* connection_pool_is_connected()
    block,        \* progress of the block_on_device thread
    handler,      \* progress of driver_handle_pose
    elapsed,      \* seconds since glasses_calibration_started_sec, or Unset
    calibrated,   \* glasses_calibrated
    captured,     \* captured_reference_pose
    updated,      \* reference_pose_updated
    flags,        \* control_flags->recenter_screen and ->recalibrate
    since,        \* history: seconds since reset_calibration, where nobody calls back
    ingest,       \* progress of the supplemental's thread
    supplemental, \* there is a supplemental
    position_ready, \* supplemental_position_ready
    origin        \* history: what the poses were derived from

session == <<callbacks, connected, block>>
calibration == <<elapsed, calibrated, captured, since>>
supplementalVars == <<ingest, supplemental, position_ready>>
reference == <<updated, origin>>
vars == <<session, handler, calibration, flags, supplementalVars, reference>>

Unset == Wait + 2   \* of a calibration that did not start: since the epoch

\* conjugated: reference_orientation_conj is the reference pose's own;
\* aligned: reference_supplemental_orientation_conj was captured from this supplemental
\* since the reference pose was last set;
\* either is lost when what the flag asked for was lost with it;
\* last: what last_supplemental_pose is: none, in the supplemental's own frame, turned
\* into the reference's, or that of a supplemental that was removed.
Origin == [conjugated : {"yes", "no", "lost"}, aligned : {"yes", "no", "lost"},
           last : {"none", "plain", "oriented", "former"}]

Resets == {"reset_started", "reset_calibrated", "reset_captured"}
Referencing == {"judge", "center", "centered", "announce", "modified", "test", "begin"}
Handling == Resets \cup Referencing \cup {"idle", "waiting", "finish", "rest", "disconnect"}

\* local: what the thread has read and not yet written.
TypeOK ==
    /\ callbacks \in BOOLEAN /\ connected \in BOOLEAN
    /\ block \in Resets \cup {"connect", "blocked"}
    /\ handler \in [pc : Handling, local : BOOLEAN]
    /\ elapsed \in 0 .. Unset
    /\ calibrated \in BOOLEAN /\ captured \in BOOLEAN /\ updated \in BOOLEAN
    /\ flags \in [recenter_screen : BOOLEAN, recalibrate : BOOLEAN]
    /\ since \in 0 .. Wait + 1
    /\ ingest \in [pc : {"idle", "clear", "store", "forget"},
                   captured : BOOLEAN, updated : BOOLEAN]
    /\ supplemental \in BOOLEAN /\ position_ready \in BOOLEAN
    /\ origin \in Origin
    /\ (~callbacks /\ block # "blocked" => handler.pc = "idle")

AtRest == [pc |-> "idle", local |-> FALSE]
NoIngest == [pc |-> "idle", captured |-> FALSE, updated |-> FALSE]

Init ==
    /\ callbacks \in BOOLEAN
    /\ connected = FALSE
    /\ block = "connect"
    /\ handler = AtRest
    /\ elapsed = Unset /\ calibrated = FALSE /\ captured = FALSE /\ since = 0
    /\ updated = FALSE
    /\ flags = [recenter_screen |-> FALSE, recalibrate |-> FALSE]
    /\ ingest = NoIngest
    /\ supplemental \in BOOLEAN /\ position_ready = FALSE
    /\ origin = [conjugated |-> "yes", aligned |-> "yes", last |-> "none"]

-----------------------------------------------------------------------------
(* reset_calibration, of whichever thread: one global after another.       *)

ResetStarted ==
    /\ elapsed' = Unset
    /\ UNCHANGED <<calibrated, captured, since, flags>>

ResetCalibrated ==
    /\ calibrated' = FALSE
    /\ UNCHANGED <<elapsed, captured, since, flags>>

ResetCaptured ==
    /\ captured' = FALSE
    /\ since' = 0
    /\ flags' = [flags EXCEPT !.recalibrate = FALSE]
    /\ UNCHANGED <<elapsed, calibrated>>

reset_calibration(pc) ==
    \/ pc = "reset_started" /\ ResetStarted
    \/ pc = "reset_calibrated" /\ ResetCalibrated
    \/ pc = "reset_captured" /\ ResetCaptured

AfterReset(pc, next) ==
    CASE pc = "reset_started" -> "reset_calibrated"
      [] pc = "reset_calibrated" -> "reset_captured"
      [] pc = "reset_captured" -> next

-----------------------------------------------------------------------------
(* The block_on_device thread.                                             *)

\* connection_pool_connect_active.
Connect ==
    /\ block = "connect"
    /\ connected' = TRUE
    /\ block' = "reset_started"
    /\ UNCHANGED <<callbacks, handler, calibration, flags, supplementalVars, reference>>

\* reset_calibration(false).
BlockReset ==
    /\ block \in Resets
    /\ reset_calibration(block)
    /\ block' = AfterReset(block, "blocked")
    /\ UNCHANGED <<callbacks, connected, handler, supplementalVars, reference>>

\* connection_pool_block_on_active returns, having joined the connection's thread.
SessionEnds ==
    /\ block = "blocked"
    /\ ~connected
    /\ callbacks \/ handler.pc = "idle"
    /\ block' = "connect"
    /\ UNCHANGED <<callbacks, connected, handler, calibration, flags, supplementalVars,
                   reference>>

BlockStep == Connect \/ BlockReset \/ SessionEnds

-----------------------------------------------------------------------------
(* driver_handle_pose.                                                     *)

At(pc) == handler.pc = pc
Goto(pc) == handler' = [handler EXCEPT !.pc = pc]

\* A pose comes, and the driver is connected.
Pose ==
    /\ At("idle")
    /\ connected
    /\ callbacks \/ block = "blocked"
    /\ Goto("judge")
    /\ UNCHANGED <<session, calibration, flags, supplementalVars, reference>>

Judge ==
    /\ At("judge")
    /\ Goto(IF calibrated THEN "center" ELSE "waiting")
    /\ UNCHANGED <<session, calibration, flags, supplementalVars, reference>>

\* The reference pose is set, after a double tap too.
SetReference == origin' = [origin EXCEPT !.aligned = "no", !.conjugated = "yes"]

\* Or a plugin may modify it: reference_pose_updated |= modify_reference_pose, which
\* reads the flag before the call or after it, as the build pleases.
Modify(changed) ==
    /\ handler' \in [pc : {"modified"}, local : {changed, changed \/ updated}]
    /\ origin' = IF changed THEN [origin EXCEPT !.aligned = "no", !.conjugated = "no"]
                            ELSE origin

Center ==
    /\ At("center")
    /\ \E double_tap \in BOOLEAN :
       \/ /\ ~captured \/ flags.recenter_screen \/ double_tap
          /\ Goto("centered")
          /\ SetReference
       \/ /\ captured /\ ~flags.recenter_screen /\ ~double_tap
          /\ \E changed \in BOOLEAN : Modify(changed)
    /\ UNCHANGED <<session, calibration, flags, supplementalVars, updated>>

Centered ==
    /\ At("centered")
    /\ captured' = TRUE
    /\ Goto("announce")
    /\ UNCHANGED <<session, elapsed, calibrated, since, flags, supplementalVars, reference>>

\* Mutant: the flag that asked for it is not cleared.
AnnounceKeepingFlag ==
    /\ At("announce")
    /\ updated' = TRUE
    /\ Goto("rest")
    /\ UNCHANGED <<session, calibration, flags, supplementalVars, origin>>

Announce ==
    /\ At("announce")
    /\ updated' = TRUE
    /\ flags' = [flags EXCEPT !.recenter_screen = FALSE]
    /\ Goto("rest")
    /\ UNCHANGED <<session, calibration, supplementalVars, origin>>

Conjugate == origin' = [origin EXCEPT !.conjugated = "yes"]

\* The flag is written; the test that follows reads it again, or not, as the build
\* pleases.
Modified ==
    /\ At("modified")
    /\ updated' = (handler.local \/ updated)
    /\ \/ handler' = [pc |-> "test", local |-> FALSE] /\ UNCHANGED origin
       \/ updated' /\ handler' = [pc |-> "rest", local |-> FALSE] /\ Conjugate
    /\ UNCHANGED <<session, calibration, flags, supplementalVars>>

\* if (reference_pose_updated): the flag may have been cleared by driver_reference_pose.
Test ==
    /\ At("test")
    /\ Goto("rest")
    /\ IF updated THEN Conjugate ELSE UNCHANGED origin
    /\ UNCHANGED <<session, calibration, flags, supplementalVars, updated>>

\* Mutant: every pose begins the calibration anew.
WaitingAnew ==
    /\ At("waiting")
    /\ handler' = [pc |-> "begin", local |-> FALSE]
    /\ UNCHANGED <<session, calibration, flags, supplementalVars, reference>>

Waiting ==
    /\ At("waiting")
    /\ handler' = IF elapsed = Unset THEN [pc |-> "begin", local |-> FALSE]
                                       ELSE [pc |-> "finish", local |-> elapsed > Wait]
    /\ UNCHANGED <<session, calibration, flags, supplementalVars, reference>>

\* The first pose: default reference, and the calibration begins.  If one was captured
\* (by a pose that came while the calibration was reset), nobody is told.
Begin ==
    /\ At("begin")
    /\ elapsed' = 0
    /\ Goto("rest")
    /\ origin' = [origin EXCEPT !.conjugated = "yes",
                              !.aligned = IF captured THEN "lost" ELSE "no"]
    /\ UNCHANGED <<session, calibrated, captured, since, flags, supplementalVars, updated>>

\* Mutant: a second too early.
FinishEarly ==
    /\ At("finish")
    /\ calibrated' = (elapsed >= Wait)
    /\ handler' = [pc |-> "rest", local |-> FALSE]
    /\ UNCHANGED <<session, elapsed, captured, since, flags, supplementalVars, reference>>

\* glasses_calibration_started_sec is read again, or not, as the build pleases; a
\* zero was a very long time ago.
Finish ==
    /\ At("finish")
    /\ calibrated' \in {handler.local, elapsed > Wait}
    /\ handler' = [pc |-> "rest", local |-> FALSE]
    /\ UNCHANGED <<session, elapsed, captured, since, flags, supplementalVars, reference>>

\* A triple tap or the control flag resets the calibration and the device; outputs
\* and plugins get the pose.
Rest ==
    /\ At("rest")
    /\ \/ Goto("reset_started")
       \/ ~flags.recalibrate /\ handler' = AtRest
    /\ UNCHANGED <<session, calibration, flags, supplementalVars, reference>>

HandlerReset ==
    /\ handler.pc \in Resets
    /\ reset_calibration(handler.pc)
    /\ Goto(AfterReset(handler.pc, "disconnect"))
    /\ UNCHANGED <<session, supplementalVars, reference>>

\* connection_pool_disconnect_all(true).
Disconnect ==
    /\ At("disconnect")
    /\ connected' = FALSE
    /\ handler' = AtRest
    /\ UNCHANGED <<callbacks, block, calibration, flags, supplementalVars, reference>>

HandlerStep ==
    \/ Judge \/ Center \/ Centered \/ Announce \/ Modified \/ Test
    \/ Waiting \/ Begin \/ Finish
    \/ Rest \/ HandlerReset \/ Disconnect

-----------------------------------------------------------------------------
(* The supplemental's thread, which is the OpenTrack listener's:           *)
(* connection_pool_ingest_pose with driver_reference_pose, and the         *)
(* addition of its own device.                                             *)

\* captured_reference_pose is read, and reference_pose_updated with it; without a
\* reference pose, the position is not ready.
Ingest ==
    /\ ingest.pc = "idle"
    /\ supplemental
    /\ ingest' = IF captured THEN [pc |-> "clear", captured |-> TRUE, updated |-> updated]
                             ELSE [pc |-> "store", captured |-> FALSE, updated |-> FALSE]
    /\ position_ready' = IF captured THEN position_ready ELSE FALSE
    /\ UNCHANGED <<session, handler, calibration, flags, supplemental, reference>>

\* The flag is cleared, whether or not it was set when it was read.
ClearUpdated ==
    /\ ingest.pc = "clear"
    /\ updated' = FALSE
    /\ position_ready' = TRUE
    /\ ingest' = [ingest EXCEPT !.pc = "store"]
    /\ origin' = [origin EXCEPT
                    !.aligned = IF updated /\ ~ingest.updated /\ @ = "no" THEN "lost" ELSE @,
                    !.conjugated = IF updated /\ At("test") /\ @ = "no" THEN "lost" ELSE @]
    /\ UNCHANGED <<session, handler, calibration, flags, supplemental>>

\* supplemental_position_ready is read again, or not, as the build pleases.
Store ==
    /\ ingest.pc = "store"
    /\ ingest' = NoIngest
    /\ \E ready \in {ingest.captured, position_ready} :
          origin' = [origin EXCEPT !.aligned = IF ingest.updated THEN "yes" ELSE @,
                                   !.last = CASE ~supplemental -> "former"
                                              [] supplemental /\ ready -> "oriented"
                                              [] supplemental /\ ~ready -> "plain"]
    /\ UNCHANGED <<session, handler, calibration, flags, supplemental, position_ready,
                   updated>>

\* connection_pool_handle_device_added, which picks the stream as supplemental.
SupplementalAdded ==
    /\ ingest.pc = "idle"
    /\ ~supplemental
    /\ supplemental' = TRUE
    /\ ingest' = [NoIngest EXCEPT !.pc = "forget"]
    /\ origin' = [origin EXCEPT !.last = "none", !.aligned = "no"]
    /\ UNCHANGED <<session, handler, calibration, flags, position_ready, updated>>

\* Mutant: the reference pose of before the stream came is kept.
ForgetNothing ==
    /\ ingest.pc = "forget"
    /\ ingest' = NoIngest
    /\ UNCHANGED <<session, handler, calibration, flags, supplemental, position_ready,
                   reference>>

\* And then handle_device_connection_changed: captured_reference_pose = false.
Forget ==
    /\ ingest.pc = "forget"
    /\ captured' = FALSE
    /\ ingest' = NoIngest
    /\ UNCHANGED <<session, handler, elapsed, calibrated, since, flags, supplemental,
                   position_ready, reference>>

IngestStep == ClearUpdated \/ Store \/ Forget

-----------------------------------------------------------------------------
(* The other threads, and the world.                                       *)

\* connection_pool_handle_device_removed resets what the supplemental left when the
\* primary or the supplemental is removed, or there is no supplemental.
ForgetSupplementalPose ==
    /\ position_ready' = FALSE
    /\ origin' = [origin EXCEPT !.last = "none"]

\* The stream is removed, by a change of the configuration too, while its thread may
\* be at a pose.
SupplementalRemoved ==
    /\ supplemental
    /\ supplemental' = FALSE
    /\ ForgetSupplementalPose
    /\ UNCHANGED <<session, handler, calibration, flags, ingest, updated>>

\* The primary is removed, and the stream may take its place.
PrimaryRemoved ==
    /\ connected' = FALSE
    /\ supplemental' \in {supplemental, FALSE}
    /\ ForgetSupplementalPose
    /\ UNCHANGED <<callbacks, block, handler, calibration, flags, ingest, updated>>

\* Another device is removed when there is no supplemental: the stream becomes it if it
\* was the primary and glasses are left, which take its place.
OtherRemoved ==
    /\ ~supplemental
    /\ supplemental' \in IF ingest.pc = "idle" THEN BOOLEAN ELSE {FALSE}
    /\ ForgetSupplementalPose
    /\ UNCHANGED <<session, handler, calibration, flags, ingest, updated>>

\* Any other device is added.
OtherAdded ==
    /\ captured' = FALSE
    /\ UNCHANGED <<session, handler, elapsed, calibrated, since, flags, supplementalVars,
                   reference>>

\* The glasses are lost, or the driver is disabled.
ConnectionLost ==
    /\ connected
    /\ connected' = FALSE
    /\ UNCHANGED <<callbacks, block, handler, calibration, flags, supplementalVars,
                   reference>>

\* read_control_flags.
read_control_flags(key) ==
    /\ flags' = [flags EXCEPT ![key] = TRUE]
    /\ UNCHANGED <<session, handler, calibration, supplementalVars, reference>>

Tick ==
    /\ elapsed' = IF elapsed > Wait THEN elapsed ELSE elapsed + 1
    /\ since' = IF callbacks \/ since = Wait + 1 THEN since ELSE since + 1
    /\ UNCHANGED <<session, handler, calibrated, captured, flags, supplementalVars, reference>>

Next ==
    \/ BlockStep
    \/ Pose \/ HandlerStep
    \/ Ingest \/ IngestStep \/ SupplementalAdded
    \/ SupplementalRemoved \/ PrimaryRemoved \/ OtherRemoved \/ OtherAdded
    \/ ConnectionLost \/ Tick
    \/ \E key \in {"recenter_screen", "recalibrate"} : read_control_flags(key)

\* A device that is connected sends poses (else is_imu_alive ends the session), the
\* threads go on, and so does time.
Fairness ==
    /\ WF_vars(BlockStep)
    /\ WF_vars(Pose) /\ WF_vars(HandlerStep)
    /\ WF_vars(IngestStep)
    /\ WF_vars(Tick)

Spec == Init /\ [][Next]_vars
FairSpec == Spec /\ Fairness

-----------------------------------------------------------------------------
(* Properties.                                                             *)

\* Where the poses come from the connection's own thread, which starts after the
\* reset and is joined before the next, neither the calibration nor the centering
\* of a session is done before its wait is over: nothing of the session before is
\* left.  (An SDK that calls back earlier can interleave with the reset: the zero
\* it writes between the test and the use ends the calibration at once.)
CalibrationWaits ==
    /\ ~callbacks /\ block = "blocked" /\ handler.pc \notin Resets
    /\ calibrated \/ captured
    => since > Wait

\* The ways of a pose agree on the reference, in any order of the threads' steps:
\*  - between two poses of the primary, reference_orientation_conj is the reference
\*    pose's own, unless the flag was cleared between its writing and its test;
\*  - between poses, the supplemental's orientation was captured since the reference was
\*    last set and the supplemental came, or the flag still says that it will be, unless
\*    the supplemental's thread cleared a flag that was set after it had read it, or a
\*    pose captured a reference while the calibration was being reset;
\*  - a position that is taken for ready was turned into the reference's frame;
\*  - what is mixed in is never of a supplemental that was removed.
ReferenceSettled ==
    /\ handler.pc = "idle" => origin.conjugated # "no"
    /\ handler.pc = "idle" /\ ingest.pc = "idle" /\ captured =>
          origin.aligned # "no" \/ updated
    /\ ingest.pc = "idle" /\ supplemental /\ position_ready =>
          origin.last \in {"none", "oriented"}
    /\ supplemental => origin.last # "former"

\* connection_pool.c: "when we receive a new reference pose, also capture the supplemental
\* orientation".  Without the exceptions it does not hold: the flag that announces the
\* new reference pose is cleared between two accesses of another thread.
SupplementalCurrent ==
    handler.pc = "idle" /\ ingest.pc = "idle" /\ captured =>
        origin.aligned = "yes" \/ updated

\* The same of the conjugate that a pose is turned by.
ConjugateCurrent == handler.pc = "idle" => origin.conjugated = "yes"

\* The calibration of a session ends, whatever the threads do to it.
CalibrationEnds == connected ~> calibrated \/ ~connected

\* A request to center the screen is served in this session.
RecenterServed == connected /\ flags.recenter_screen ~> ~flags.recenter_screen \/ ~connected
=============================================================================
