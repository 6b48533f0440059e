------------------------- MODULE PoseHandlingProofs -------------------------
(***************************************************************************)
(* Proofs, for any calibration wait, that the calibration and the          *)
(* centering of a session wait for it where the poses come from the        *)
(* connection's own thread, and that what the ways of a pose share is      *)
(* consistent, whatever the order of the threads' steps.                   *)
(***************************************************************************)
EXTENDS PoseHandling, TLAPS

-----------------------------------------------------------------------------
(* The calibration, where nobody calls back.                               *)

Resetting(pc) == block = pc \/ handler.pc = pc

\* What reset_calibration has reset stays so until it is over, since no pose is
\* handled; from then on the time that the calibration counts began after it.
OwnThread ==
    /\ block # "blocked" => handler.pc = "idle"
    /\ Resetting("reset_calibrated") \/ Resetting("reset_captured") => elapsed = Unset
    /\ Resetting("reset_captured") => ~calibrated
    /\ block = "blocked" /\ handler.pc \notin Resets =>
          /\ calibrated => since > Wait
          /\ captured => since > Wait
          /\ elapsed # Unset => elapsed <= since
          /\ handler.pc \in {"center", "centered", "announce", "modified", "test"} => since > Wait
          /\ handler.pc = "finish" => elapsed # Unset /\ (handler.local => since > Wait)

CalibrationInv == ~callbacks => OwnThread

-----------------------------------------------------------------------------
(* The reference.                                                          *)

\* A reference that a plugin modified is conjugated by the same pose, which is going to
\* set the flag, or will find it set.
Conjugated ==
    origin.conjugated = "no" =>
        \/ handler.pc = "modified" /\ handler.local
        \/ handler.pc = "test" /\ updated

\* Who is going to see to it that the supplemental's orientation is captured: the flag,
\* the handler that sets it next, or the supplemental's thread, which has read it, or
\* is going to forget the reference.
Pending ==
    \/ updated
    \/ handler.pc \in {"centered", "announce"}
    \/ handler.pc = "modified" /\ handler.local
    \/ ingest.pc \in {"clear", "store"} /\ ingest.updated
    \/ ingest.pc = "forget"

Aligned == captured /\ origin.aligned = "no" => Pending

\* A position that is ready has been turned, or is about to be.
Oriented ==
    /\ position_ready /\ origin.last = "plain" => ingest.pc = "store"
    /\ ingest.pc = "clear" => ingest.captured
    /\ ingest.pc = "store" /\ ~ingest.captured => ~position_ready
    /\ supplemental => origin.last # "former"

ReferenceInv == Conjugated /\ Aligned /\ Oriented

IInv == TypeOK /\ CalibrationInv /\ ReferenceInv

-----------------------------------------------------------------------------
(* Types.                                                                  *)

\* What the steps make of the history of the poses.
LEMMA OriginSet ==
  ASSUME TypeOK, NEW a \in {"yes", "no", "lost"}, NEW c \in {"yes", "no", "lost"},
         NEW l \in {"none", "plain", "oriented", "former"}
  PROVE  /\ [origin EXCEPT !.aligned = a, !.conjugated = c] \in Origin
         /\ [origin EXCEPT !.conjugated = c, !.aligned = a] \in Origin
         /\ [origin EXCEPT !.conjugated = c] \in Origin
         /\ [origin EXCEPT !.aligned = a, !.last = l] \in Origin
         /\ [origin EXCEPT !.last = l, !.aligned = a] \in Origin
         /\ [origin EXCEPT !.last = l] \in Origin
BY DEF TypeOK, Origin

\* The calibration and the flags that a reset leaves are typed.
LEMMA ResetTyped ==
  ASSUME TypeOK, NEW pc, reset_calibration(pc)
  PROVE  /\ elapsed' \in 0 .. Unset /\ since' \in 0 .. Wait + 1
         /\ calibrated' \in BOOLEAN /\ captured' \in BOOLEAN
         /\ flags' \in [recenter_screen : BOOLEAN, recalibrate : BOOLEAN]
<1> USE WaitAssumption
    DEF TypeOK, reset_calibration, ResetStarted, ResetCalibrated, ResetCaptured, Unset
<1>1. elapsed' \in 0 .. Unset /\ since' \in 0 .. Wait + 1
  OBVIOUS
<1>2. calibrated' \in BOOLEAN /\ captured' \in BOOLEAN
  OBVIOUS
<1>3. flags' \in [recenter_screen : BOOLEAN, recalibrate : BOOLEAN]
  OBVIOUS
<1> QED
  BY <1>1, <1>2, <1>3

\* The pose goes on to the next step.
LEMMA GoneTo ==
  ASSUME TypeOK, NEW pc, Goto(pc)
  PROVE  /\ handler'.pc = pc /\ handler'.local = handler.local
         /\ handler'.local \in BOOLEAN
         /\ handler' = [pc |-> pc, local |-> handler.local]
BY DEF TypeOK, Goto

\* The progress of the two ways of a pose.
Handlers == [pc : Handling, local : BOOLEAN]
Ingests == [pc : {"idle", "clear", "store", "forget"}, captured : BOOLEAN, updated : BOOLEAN]

\* Every step leaves the variables typed.
LEMMA TypeInductive == TypeOK /\ [Next]_vars => TypeOK'
<1> SUFFICES ASSUME TypeOK, [Next]_vars PROVE TypeOK'
  OBVIOUS
<1> USE WaitAssumption, GoneTo
    DEF TypeOK, session, calibration, supplementalVars, reference, Resets, Referencing,
        Handling, At, Unset
<1>1. CASE Connect
  BY <1>1 DEF Connect
<1>2. CASE BlockReset
  <2>1. /\ elapsed' \in 0 .. Unset /\ since' \in 0 .. Wait + 1
       /\ calibrated' \in BOOLEAN /\ captured' \in BOOLEAN
       /\ flags' \in [recenter_screen : BOOLEAN, recalibrate : BOOLEAN]
    BY <1>2, ResetTyped DEF BlockReset
  <2>2. block' \in Resets \cup {"connect", "blocked"} /\ block # "blocked"
    BY <1>2 DEF BlockReset, AfterReset
  <2>3. UNCHANGED <<callbacks, connected, handler, supplementalVars, reference>>
    BY <1>2 DEF BlockReset
  <2> QED
    BY <2>1, <2>2, <2>3
<1>3. CASE SessionEnds
  BY <1>3 DEF SessionEnds
<1>4. CASE Pose
  BY <1>4 DEF Pose
<1>5. CASE Judge
  BY <1>5 DEF Judge
<1>6. CASE Center
  <2>1. origin' \in Origin
    BY <1>6, OriginSet DEF Center, SetReference, Modify
  <2>2. handler' \in Handlers
    BY <1>6 DEF Center, Modify, Handlers
  <2>3. UNCHANGED <<session, calibration, flags, supplementalVars, updated>> /\ At("center")
    BY <1>6 DEF Center
  <2> QED
    BY <2>1, <2>2, <2>3 DEF Handlers
<1>7. CASE Centered
  BY <1>7 DEF Centered
<1>8. CASE Announce
  <2>1. flags' \in [recenter_screen : BOOLEAN, recalibrate : BOOLEAN]
    BY <1>8 DEF Announce
  <2>2. UNCHANGED <<session, calibration, supplementalVars, origin>> /\ At("announce")
        /\ updated' \in BOOLEAN /\ Goto("rest")
    BY <1>8 DEF Announce
  <2> QED
    BY <2>1, <2>2
<1>9. CASE Modified
  <2>1. origin' \in Origin
    BY <1>9, OriginSet DEF Modified, Conjugate
  <2>2. handler' \in Handlers
    <3>1. handler' = [pc |-> "test", local |-> FALSE] \/ handler' = [pc |-> "rest", local |-> FALSE]
      BY <1>9 DEF Modified
    <3>2. CASE handler' = [pc |-> "test", local |-> FALSE]
      BY <3>2 DEF Handlers
    <3>3. CASE handler' = [pc |-> "rest", local |-> FALSE]
      BY <3>3 DEF Handlers
    <3> QED
      BY <3>1, <3>2, <3>3
  <2>4. updated' \in BOOLEAN
    <3>1. updated' = (handler.local \/ updated)
      BY <1>9 DEF Modified
    <3> QED
      BY <3>1
  <2>3. UNCHANGED <<session, calibration, flags, supplementalVars>> /\ At("modified")
    BY <1>9 DEF Modified
  <2> QED
    BY <2>1, <2>2, <2>3, <2>4 DEF Handlers
<1>10. CASE Test
  <2>1. origin' \in Origin
    BY <1>10, OriginSet DEF Test, Conjugate
  <2>2. UNCHANGED <<session, calibration, flags, supplementalVars, updated>> /\ At("test")
        /\ Goto("rest")
    BY <1>10 DEF Test
  <2> QED
    BY <2>1, <2>2
<1>11. CASE Waiting
  BY <1>11 DEF Waiting
<1>12. CASE Begin
  <2>1. origin' \in Origin
    BY <1>12, OriginSet DEF Begin
  <2>2. UNCHANGED <<session, calibrated, captured, since, flags, supplementalVars, updated>>
        /\ At("begin") /\ Goto("rest") /\ elapsed' \in 0 .. Unset
    BY <1>12 DEF Begin
  <2> QED
    BY <2>1, <2>2
<1>13. CASE Finish
  <2>1. handler' \in Handlers
    BY <1>13 DEF Finish, Handlers
  <2>2. calibrated' \in BOOLEAN
    <3>1. handler.local \in BOOLEAN /\ (elapsed > Wait) \in BOOLEAN
      OBVIOUS
    <3>2. calibrated' = handler.local \/ calibrated' = (elapsed > Wait)
      BY <1>13 DEF Finish
    <3> QED
      BY <3>1, <3>2
  <2>3. UNCHANGED <<session, elapsed, captured, since, flags, supplementalVars, reference>>
        /\ At("finish")
    BY <1>13 DEF Finish
  <2> QED
    BY <2>1, <2>2, <2>3 DEF Handlers
<1>14. CASE Rest
  <2>1. Goto("reset_started") \/ handler' = AtRest
    BY <1>14 DEF Rest
  <2>2. handler' \in Handlers
    <3>1. CASE Goto("reset_started")
      BY <3>1 DEF Handlers
    <3>2. CASE handler' = AtRest
      BY <3>2 DEF AtRest, Handlers
    <3> QED
      BY <2>1, <3>1, <3>2
  <2>3. UNCHANGED <<session, calibration, flags, supplementalVars, reference>> /\ At("rest")
    BY <1>14 DEF Rest
  <2> QED
    BY <2>2, <2>3 DEF Handlers
<1>15. CASE HandlerReset
  <2>1. /\ elapsed' \in 0 .. Unset /\ since' \in 0 .. Wait + 1
       /\ calibrated' \in BOOLEAN /\ captured' \in BOOLEAN
       /\ flags' \in [recenter_screen : BOOLEAN, recalibrate : BOOLEAN]
    BY <1>15, ResetTyped DEF HandlerReset
  <2>2. handler' \in Handlers
    BY <1>15 DEF HandlerReset, AfterReset, Handlers
  <2>3. UNCHANGED <<session, supplementalVars, reference>> /\ handler.pc \in Resets
    BY <1>15 DEF HandlerReset
  <2> QED
    BY <2>1, <2>2, <2>3 DEF Handlers
<1>16. CASE Disconnect
  <2>1. handler' \in Handlers /\ handler'.pc = "idle"
    BY <1>16 DEF Disconnect, AtRest, Handlers
  <2>2. connected' \in BOOLEAN
    BY <1>16 DEF Disconnect
  <2>3. UNCHANGED <<callbacks, block, calibration, flags, supplementalVars, reference>>
    BY <1>16 DEF Disconnect
  <2> QED
    BY <2>1, <2>2, <2>3 DEF Handlers
<1>17. CASE Ingest
  <2>1. ingest' \in Ingests /\ position_ready' \in BOOLEAN
    BY <1>17 DEF Ingest, Ingests
  <2>2. UNCHANGED <<session, handler, calibration, flags, supplemental, reference>>
    BY <1>17 DEF Ingest
  <2> QED
    BY <2>1, <2>2 DEF Ingests
<1>18. CASE ClearUpdated
  <2>1. origin' \in Origin
    <3>1. origin.aligned \in {"yes", "no", "lost"} /\ origin.conjugated \in {"yes", "no", "lost"}
      BY DEF Origin
    <3> QED
      BY <1>18, <3>1, OriginSet DEF ClearUpdated
  <2>2. ingest' \in Ingests /\ position_ready' \in BOOLEAN /\ updated' \in BOOLEAN
    BY <1>18 DEF ClearUpdated, Ingests
  <2>3. UNCHANGED <<session, handler, calibration, flags, supplemental>>
    BY <1>18 DEF ClearUpdated
  <2> QED
    BY <2>1, <2>2, <2>3 DEF Ingests
<1>19. CASE Store
  <2>1. origin' \in Origin
    <3>1. PICK ready \in {ingest.captured, position_ready} :
            origin' = [origin EXCEPT !.aligned = IF ingest.updated THEN "yes" ELSE @,
                                     !.last = CASE ~supplemental -> "former"
                                                [] supplemental /\ ready -> "oriented"
                                                [] supplemental /\ ~ready -> "plain"]
      BY <1>19 DEF Store
    <3>2. (IF ingest.updated THEN "yes" ELSE origin.aligned) \in {"yes", "no", "lost"}
      BY DEF Origin
    <3>3. (CASE ~supplemental -> "former"
             [] supplemental /\ ready -> "oriented"
             [] supplemental /\ ~ready -> "plain") \in {"none", "plain", "oriented", "former"}
      OBVIOUS
    <3> QED
      BY <3>1, <3>2, <3>3, OriginSet
  <2>2. ingest' \in Ingests
    BY <1>19 DEF Store, NoIngest, Ingests
  <2>3. UNCHANGED <<session, handler, calibration, flags, supplemental, position_ready, updated>>
    BY <1>19 DEF Store
  <2> QED
    BY <2>1, <2>2, <2>3 DEF Ingests
<1>20. CASE Forget
  <2>1. captured' \in BOOLEAN /\ ingest' \in Ingests
    BY <1>20 DEF Forget, NoIngest, Ingests
  <2>2. UNCHANGED <<session, handler, elapsed, calibrated, since, flags, supplemental,
                    position_ready, reference>>
    BY <1>20 DEF Forget
  <2> QED
    BY <2>1, <2>2 DEF Ingests
<1>21. CASE SupplementalAdded
  <2>1. origin' \in Origin
    BY <1>21, OriginSet DEF SupplementalAdded
  <2>2. ingest' \in Ingests /\ position_ready' \in BOOLEAN /\ supplemental' \in BOOLEAN
    BY <1>21 DEF SupplementalAdded, Ingests, NoIngest
  <2>3. UNCHANGED <<session, handler, calibration, flags, position_ready, updated>>
    BY <1>21 DEF SupplementalAdded
  <2> QED
    BY <2>1, <2>2, <2>3 DEF Ingests
<1>22. CASE SupplementalRemoved
  <2>1. origin' \in Origin
    BY <1>22, OriginSet DEF SupplementalRemoved, ForgetSupplementalPose
  <2>2. position_ready' \in BOOLEAN /\ supplemental' \in BOOLEAN
    BY <1>22 DEF SupplementalRemoved, ForgetSupplementalPose
  <2>3. UNCHANGED <<session, handler, calibration, flags, ingest, updated>>
    BY <1>22 DEF SupplementalRemoved
  <2> QED
    BY <2>1, <2>2, <2>3
<1>23. CASE PrimaryRemoved
  <2>1. origin' \in Origin
    BY <1>23, OriginSet DEF PrimaryRemoved, ForgetSupplementalPose
  <2>2. position_ready' \in BOOLEAN /\ supplemental' \in BOOLEAN /\ connected' \in BOOLEAN
    BY <1>23 DEF PrimaryRemoved, ForgetSupplementalPose
  <2>3. UNCHANGED <<callbacks, block, handler, calibration, flags, ingest, updated>>
    BY <1>23 DEF PrimaryRemoved
  <2> QED
    BY <2>1, <2>2, <2>3
<1>24. CASE OtherRemoved
  <2>1. origin' \in Origin
    BY <1>24, OriginSet DEF OtherRemoved, ForgetSupplementalPose
  <2>2. position_ready' \in BOOLEAN /\ supplemental' \in BOOLEAN
    BY <1>24 DEF OtherRemoved, ForgetSupplementalPose
  <2>3. UNCHANGED <<session, handler, calibration, flags, ingest, updated>>
    BY <1>24 DEF OtherRemoved
  <2> QED
    BY <2>1, <2>2, <2>3
<1>25. CASE OtherAdded
  <2>1. captured' \in BOOLEAN
    BY <1>25 DEF OtherAdded
  <2>2. UNCHANGED <<session, handler, elapsed, calibrated, since, flags, supplementalVars,
                    reference>>
    BY <1>25 DEF OtherAdded
  <2> QED
    BY <2>1, <2>2
<1>26. CASE ConnectionLost
  <2>1. connected' \in BOOLEAN
    BY <1>26 DEF ConnectionLost
  <2>2. UNCHANGED <<callbacks, block, handler, calibration, flags, supplementalVars, reference>>
    BY <1>26 DEF ConnectionLost
  <2> QED
    BY <2>1, <2>2
<1>27. CASE Tick
  BY <1>27 DEF Tick
<1>28. CASE \E key \in {"recenter_screen", "recalibrate"} : read_control_flags(key)
  <2>1. flags' \in [recenter_screen : BOOLEAN, recalibrate : BOOLEAN]
    BY <1>28 DEF read_control_flags
  <2>2. UNCHANGED <<session, handler, calibration, supplementalVars, reference>>
    BY <1>28 DEF read_control_flags
  <2> QED
    BY <2>1, <2>2
<1>29. CASE UNCHANGED vars
  BY <1>29 DEF vars
<1> QED
  BY <1>1, <1>2, <1>3, <1>4, <1>5, <1>6, <1>7, <1>8, <1>9, <1>10, <1>11, <1>12, <1>13, <1>14, <1>15, <1>16, <1>17, <1>18, <1>19, <1>20, <1>21, <1>22, <1>23, <1>24, <1>25, <1>26, <1>27, <1>28, <1>29
     DEF Next, BlockStep, HandlerStep, IngestStep

-----------------------------------------------------------------------------
(* The calibration waits.                                                  *)

\* No session has begun, and no calibration.
LEMMA InitCalibration == Init => CalibrationInv
BY WaitAssumption DEF Init, CalibrationInv, OwnThread, Resetting, Resets, AtRest, Unset

\* What a reset of the handler's thread, or of the block_on_device thread, leaves.
LEMMA ResetKeepsTime ==
  ASSUME TypeOK, NEW pc, reset_calibration(pc)
  PROVE  /\ pc \in Resets
         /\ pc = "reset_started" =>
                elapsed' = Unset /\ calibrated' = calibrated /\ captured' = captured
         /\ pc = "reset_calibrated" => ~calibrated' /\ elapsed' = elapsed /\ captured' = captured
         /\ pc = "reset_captured" =>
                /\ ~captured'
                /\ calibrated' = calibrated /\ elapsed' = elapsed /\ since' = 0
BY DEF reset_calibration, ResetStarted, ResetCalibrated, ResetCaptured, Resets

\* Whether an SDK calls back does not change.
LEMMA SameSDK == [Next]_vars => callbacks' = callbacks
BY DEF Next, vars, session, BlockStep, HandlerStep, IngestStep, Connect, BlockReset,
       SessionEnds, Pose, Judge, Center, Centered, Announce, Modified, Test, Waiting, Begin,
       Finish, Rest, HandlerReset, Disconnect, Ingest, ClearUpdated, Store, Forget,
       SupplementalRemoved, SupplementalAdded, PrimaryRemoved, OtherRemoved, OtherAdded,
       ConnectionLost, Tick, read_control_flags

\* Where nobody calls back, a step of the block_on_device thread finds no pose at work
\* while it resets, and one of the handler's finds the reset over.
LEMMA CalibrationInductive ==
  TypeOK /\ CalibrationInv /\ [Next]_vars => CalibrationInv'
<1> SUFFICES ASSUME TypeOK, OwnThread, [Next]_vars, ~callbacks PROVE OwnThread'
  BY SameSDK DEF CalibrationInv
<1>0. /\ elapsed \in 0 .. Unset /\ since \in 0 .. Wait + 1 /\ Wait \in Nat
      /\ block \in Resets \cup {"connect", "blocked"}
  BY WaitAssumption DEF TypeOK
<1> USE <1>0, GoneTo DEF OwnThread, Resetting, session, calibration, supplementalVars, At, Resets
<1>1. CASE Connect
  BY <1>1 DEF Connect
<1>2. CASE BlockReset
  BY <1>2, ResetKeepsTime DEF BlockReset, AfterReset
<1>3. CASE SessionEnds
  BY <1>3 DEF SessionEnds
<1>4. CASE Pose
  BY <1>4 DEF Pose
<1>5. CASE Judge
  BY <1>5 DEF Judge
<1>6. CASE Center
  <2>1. UNCHANGED <<block, calibration>> /\ At("center")
    BY <1>6 DEF Center
  <2>2. handler'.pc \in {"centered", "modified"}
    BY <1>6 DEF Center, Modify
  <2> QED
    BY <2>1, <2>2
<1>7. CASE Centered
  BY <1>7 DEF Centered
<1>8. CASE Announce
  BY <1>8 DEF Announce
<1>9. CASE Modified
  <2>1. UNCHANGED <<block, calibration>> /\ At("modified")
    BY <1>9 DEF Modified
  <2>2. handler'.pc \in {"test", "rest"}
    BY <1>9 DEF Modified
  <2> QED
    BY <2>1, <2>2
<1>10. CASE Test
  BY <1>10 DEF Test
<1>11. CASE Waiting
  <2>1. UNCHANGED <<block, calibration>> /\ At("waiting")
    BY <1>11 DEF Waiting
  <2>2. CASE elapsed = Unset
    <3>1. handler'.pc = "begin"
      BY <1>11, <2>2 DEF Waiting
    <3> QED
      BY <2>1, <3>1
  <2>3. CASE elapsed # Unset
    <3>1. handler'.pc = "finish" /\ handler'.local = (elapsed > Wait)
      BY <1>11, <2>3 DEF Waiting
    <3>2. handler'.local => since > Wait
      <4>1. handler'.local => elapsed > Wait
        BY <3>1
      <4> QED
        BY <2>1, <2>3, <4>1
    <3> QED
      BY <2>1, <2>3, <3>1, <3>2
  <2> QED
    BY <2>2, <2>3
<1>12. CASE Begin
  BY <1>12 DEF Begin
<1>13. CASE Finish
  <2>1. UNCHANGED <<block, elapsed, captured, since>> /\ At("finish")
    BY <1>13 DEF Finish
  <2>2. handler'.pc = "rest"
    BY <1>13 DEF Finish
  <2>3. calibrated' = handler.local \/ calibrated' = (elapsed > Wait)
    BY <1>13 DEF Finish
  <2>4. block = "blocked" /\ calibrated' => since > Wait
    <3>1. calibrated' => handler.local \/ elapsed > Wait
      BY <2>3
    <3> QED
      BY <2>1, <3>1
  <2> QED
    BY <2>1, <2>2, <2>4
<1>14. CASE Rest
  BY <1>14 DEF Rest, AtRest
<1>15. CASE HandlerReset
  BY <1>15, ResetKeepsTime DEF HandlerReset, AfterReset
<1>16. CASE Disconnect
  BY <1>16 DEF Disconnect, AtRest
<1>17. CASE Tick
  BY <1>17 DEF Tick, Unset
<1>18. CASE OtherAdded
  BY <1>18 DEF OtherAdded
<1>19. CASE Forget
  BY <1>19 DEF Forget
<1>20. CASE \/ Ingest \/ ClearUpdated \/ Store \/ SupplementalAdded
            \/ SupplementalRemoved \/ PrimaryRemoved \/ OtherRemoved
            \/ ConnectionLost \/ UNCHANGED vars
            \/ \E key \in {"recenter_screen", "recalibrate"} : read_control_flags(key)
  <2>1. UNCHANGED <<block, handler, calibration>>
    BY <1>20 DEF Ingest, ClearUpdated, Store, SupplementalRemoved, SupplementalAdded,
              PrimaryRemoved, OtherRemoved, ConnectionLost, read_control_flags, vars
  <2> QED
    BY <2>1
<1> QED
  BY <1>1, <1>2, <1>3, <1>4, <1>5, <1>6, <1>7, <1>8, <1>9, <1>10, <1>11, <1>12, <1>13, <1>14, <1>15, <1>16, <1>17, <1>18, <1>19, <1>20
     DEF Next, BlockStep, HandlerStep, IngestStep

-----------------------------------------------------------------------------
(* The reference settles.                                                  *)

\* No pose has come.
LEMMA InitReference == Init => ReferenceInv
BY DEF Init, ReferenceInv, Conjugated, Aligned, Oriented, AtRest, NoIngest

\* What the steps make of the fields of the history.
LEMMA OriginFields ==
  ASSUME TypeOK, NEW a, NEW c, NEW l
  PROVE  /\ LET o == [origin EXCEPT !.aligned = a, !.conjugated = c]
            IN  o.aligned = a /\ o.conjugated = c /\ o.last = origin.last
         /\ LET o == [origin EXCEPT !.conjugated = c]
            IN  o.aligned = origin.aligned /\ o.conjugated = c /\ o.last = origin.last
         /\ LET o == [origin EXCEPT !.aligned = a, !.last = l]
            IN  o.aligned = a /\ o.conjugated = origin.conjugated /\ o.last = l
         /\ LET o == [origin EXCEPT !.last = l]
            IN  o.aligned = origin.aligned /\ o.conjugated = origin.conjugated /\ o.last = l
BY DEF TypeOK, Origin

\* A reset leaves no reference pose, or the one there was.
LEMMA ResetForgets ==
  ASSUME NEW pc, reset_calibration(pc) PROVE captured' => captured
BY DEF reset_calibration, ResetStarted, ResetCalibrated, ResetCaptured

\* A removal leaves nothing of the supplemental's pose.
LEMMA PoseForgotten ==
  ASSUME TypeOK, ForgetSupplementalPose
  PROVE  /\ ~position_ready' /\ origin'.last = "none"
         /\ origin'.aligned = origin.aligned /\ origin'.conjugated = origin.conjugated
<1>1. ~position_ready' /\ origin' = [origin EXCEPT !.last = "none"]
  BY DEF ForgetSupplementalPose
<1> QED
  BY <1>1, OriginFields

\* Whoever is going to see to the alignment hands it on with each step.
LEMMA ReferenceInductive ==
  TypeOK /\ ReferenceInv /\ [Next]_vars => ReferenceInv'
<1> SUFFICES ASSUME TypeOK, Conjugated, Aligned, Oriented, [Next]_vars
             PROVE  Conjugated' /\ Aligned' /\ Oriented'
  BY DEF ReferenceInv
<1> USE GoneTo
    DEF Conjugated, Aligned, Pending, Oriented, session, calibration, supplementalVars,
        reference, At
<1>1. CASE Connect
  BY <1>1 DEF Connect
<1>2. CASE BlockReset
  <2>1. (captured' => captured) /\ UNCHANGED <<handler, supplementalVars, reference>>
    BY <1>2, ResetForgets DEF BlockReset
  <2> QED
    BY <2>1
<1>3. CASE SessionEnds
  BY <1>3 DEF SessionEnds
<1>4. CASE Pose
  BY <1>4 DEF Pose
<1>5. CASE Judge
  BY <1>5 DEF Judge
<1>6. CASE Center
  <2>1. UNCHANGED <<captured, updated, supplementalVars>> /\ handler.pc = "center"
    BY <1>6 DEF Center
  <2>2. CASE Goto("centered") /\ SetReference
    <3>1. origin'.conjugated = "yes" /\ origin'.last = origin.last
      BY <2>2, OriginFields DEF SetReference
    <3> QED
      BY <2>1, <2>2, <3>1
  <2>3. ASSUME NEW changed \in BOOLEAN, Modify(changed)
        PROVE  Conjugated' /\ Aligned' /\ Oriented'
    <3>1. handler'.pc = "modified" /\ (changed => handler'.local)
      BY <2>3 DEF Modify
    <3>2. CASE changed
      <4>1. origin' = [origin EXCEPT !.aligned = "no", !.conjugated = "no"]
        BY <2>3, <3>2 DEF Modify
      <4>2. origin'.last = origin.last
        BY <4>1, OriginFields
      <4> QED
        BY <2>1, <3>1, <3>2, <4>2
    <3>3. CASE ~changed
      <4>1. origin' = origin
        BY <2>3, <3>3 DEF Modify
      <4> QED
        BY <2>1, <3>1, <4>1
    <3> QED
      BY <3>2, <3>3
  <2> QED
    BY <1>6, <2>2, <2>3 DEF Center
<1>7. CASE Centered
  BY <1>7 DEF Centered
<1>8. CASE Announce
  BY <1>8 DEF Announce
<1>9. CASE Modified
  <2>1. /\ UNCHANGED <<captured, supplementalVars>> /\ handler.pc = "modified"
        /\ updated' = (handler.local \/ updated)
    BY <1>9 DEF Modified
  <2>2. CASE handler' = [pc |-> "test", local |-> FALSE] /\ UNCHANGED origin
    BY <2>1, <2>2
  <2>3. CASE updated' /\ handler' = [pc |-> "rest", local |-> FALSE] /\ Conjugate
    <3>1. /\ origin'.conjugated = "yes" /\ origin'.aligned = origin.aligned
          /\ origin'.last = origin.last
      BY <2>3, OriginFields DEF Conjugate
    <3> QED
      BY <2>1, <2>3, <3>1
  <2> QED
    BY <1>9, <2>2, <2>3 DEF Modified
<1>10. CASE Test
  <2>1. UNCHANGED <<captured, updated, supplementalVars>> /\ handler.pc = "test"
        /\ handler'.pc = "rest"
    BY <1>10 DEF Test
  <2>2. CASE updated /\ Conjugate
    <3>1. /\ origin'.conjugated = "yes" /\ origin'.aligned = origin.aligned
          /\ origin'.last = origin.last
      BY <2>2, OriginFields DEF Conjugate
    <3> QED
      BY <2>1, <2>2, <3>1
  <2>3. CASE ~updated /\ UNCHANGED origin
    BY <2>1, <2>3
  <2> QED
    BY <1>10, <2>2, <2>3 DEF Test
<1>11. CASE Waiting
  BY <1>11 DEF Waiting
<1>12. CASE Begin
  <2>1. UNCHANGED <<captured, updated, supplementalVars>> /\ handler'.pc = "rest"
    BY <1>12 DEF Begin
  <2>2. /\ origin'.conjugated = "yes" /\ origin'.last = origin.last
        /\ captured => origin'.aligned = "lost"
    BY <1>12, OriginFields DEF Begin, TypeOK, Origin
  <2> QED
    BY <2>1, <2>2
<1>13. CASE Finish
  BY <1>13 DEF Finish
<1>14. CASE Rest
  BY <1>14 DEF Rest, AtRest
<1>15. CASE HandlerReset
  <2>1. /\ (captured' => captured) /\ UNCHANGED <<supplementalVars, reference>>
        /\ Goto(AfterReset(handler.pc, "disconnect"))
        /\ handler.pc \in Resets
    BY <1>15, ResetForgets DEF HandlerReset
  <2> QED
    BY <2>1 DEF Resets
<1>16. CASE Disconnect
  BY <1>16 DEF Disconnect, AtRest
<1>17. CASE Ingest
  BY <1>17 DEF Ingest
<1>18. CASE ClearUpdated
  <2>1. /\ UNCHANGED <<handler, captured, supplemental>> /\ ~updated' /\ position_ready'
        /\ ingest.pc = "clear"
    BY <1>18 DEF ClearUpdated
  <2>2. ingest'.pc = "store" /\ ingest'.captured = ingest.captured
        /\ ingest'.updated = ingest.updated
    BY <1>18 DEF ClearUpdated, TypeOK
  <2>3. /\ origin'.last = origin.last
        /\ origin'.aligned = "no" => origin.aligned = "no" /\ (updated => ingest.updated)
        /\ origin'.conjugated = "no" =>
              origin.conjugated = "no" /\ (updated => handler.pc # "test")
    BY <1>18 DEF ClearUpdated, TypeOK, Origin
  <2>4. Conjugated'
    BY <2>1, <2>3
  <2>5. Aligned'
    BY <2>1, <2>2, <2>3
  <2>6. Oriented'
    BY <2>1, <2>2, <2>3
  <2> QED
    BY <2>4, <2>5, <2>6
<1>19. CASE Store
  <2>1. /\ UNCHANGED <<handler, captured, updated, supplemental, position_ready>>
        /\ ingest.pc = "store" /\ ingest'.pc = "idle"
    BY <1>19 DEF Store, NoIngest
  <2>2. PICK ready \in {ingest.captured, position_ready} :
          origin' = [origin EXCEPT !.aligned = IF ingest.updated THEN "yes" ELSE @,
                                   !.last = CASE ~supplemental -> "former"
                                              [] supplemental /\ ready -> "oriented"
                                              [] supplemental /\ ~ready -> "plain"]
    BY <1>19 DEF Store
  <2>3. /\ origin'.conjugated = origin.conjugated
        /\ origin'.aligned = IF ingest.updated THEN "yes" ELSE origin.aligned
        /\ supplemental => origin'.last = IF ready THEN "oriented" ELSE "plain"
        /\ ~supplemental => origin'.last = "former"
    BY <2>2 DEF TypeOK, Origin
  <2>4. ~ready => ~position_ready
    BY <2>1, <2>2
  <2> QED
    BY <2>1, <2>3, <2>4
<1>20. CASE Forget
  BY <1>20 DEF Forget, NoIngest
<1>21. CASE SupplementalAdded
  <2>1. /\ UNCHANGED <<handler, captured, updated, position_ready>>
        /\ ingest.pc = "idle" /\ ingest'.pc = "forget"
    BY <1>21 DEF SupplementalAdded, NoIngest
  <2>2. origin'.conjugated = origin.conjugated /\ origin'.last = "none"
    BY <1>21, OriginFields DEF SupplementalAdded, TypeOK, Origin
  <2> QED
    BY <2>1, <2>2
<1>22. CASE SupplementalRemoved
  <2>1. UNCHANGED <<handler, captured, updated, ingest>> /\ ForgetSupplementalPose
    BY <1>22 DEF SupplementalRemoved
  <2> QED
    BY <2>1, PoseForgotten
<1>23. CASE PrimaryRemoved
  <2>1. UNCHANGED <<handler, captured, updated, ingest>> /\ ForgetSupplementalPose
    BY <1>23 DEF PrimaryRemoved
  <2> QED
    BY <2>1, PoseForgotten
<1>24. CASE OtherRemoved
  <2>1. UNCHANGED <<handler, captured, updated, ingest>> /\ ForgetSupplementalPose
    BY <1>24 DEF OtherRemoved
  <2> QED
    BY <2>1, PoseForgotten
<1>25. CASE OtherAdded
  BY <1>25 DEF OtherAdded
<1>26. CASE ConnectionLost
  BY <1>26 DEF ConnectionLost
<1>27. CASE Tick
  BY <1>27 DEF Tick
<1>28. CASE \E key \in {"recenter_screen", "recalibrate"} : read_control_flags(key)
  BY <1>28 DEF read_control_flags
<1>29. CASE UNCHANGED vars
  BY <1>29 DEF vars
<1> QED
  BY <1>1, <1>2, <1>3, <1>4, <1>5, <1>6, <1>7, <1>8, <1>9, <1>10, <1>11, <1>12, <1>13, <1>14, <1>15, <1>16, <1>17, <1>18, <1>19, <1>20, <1>21, <1>22, <1>23, <1>24, <1>25, <1>26, <1>27, <1>28, <1>29
     DEF Next, BlockStep, HandlerStep, IngestStep

-----------------------------------------------------------------------------
(* What holds of every behaviour.                                          *)

\* The variables are typed at first.
LEMMA InitTyped == Init => TypeOK
<1> SUFFICES ASSUME Init PROVE TypeOK
  OBVIOUS
<1>1. origin \in Origin
  BY DEF Init, Origin
<1>2. handler \in Handlers /\ handler.pc = "idle"
  BY DEF Init, AtRest, Handlers, Handling
<1>3. ingest \in Ingests
  BY DEF Init, NoIngest, Ingests
<1>4. flags \in [recenter_screen : BOOLEAN, recalibrate : BOOLEAN]
  BY DEF Init
<1>5. /\ callbacks \in BOOLEAN /\ connected \in BOOLEAN /\ supplemental \in BOOLEAN
      /\ calibrated \in BOOLEAN /\ captured \in BOOLEAN /\ updated \in BOOLEAN
      /\ position_ready \in BOOLEAN
  BY DEF Init
<1>6. elapsed \in 0 .. Unset /\ since \in 0 .. Wait + 1 /\ block = "connect"
  BY WaitAssumption DEF Init, Unset
<1> QED
  BY <1>1, <1>2, <1>3, <1>4, <1>5, <1>6 DEF TypeOK, Handlers, Ingests

\* The inductive invariant holds of every behaviour.
THEOREM Invariance == Spec => []IInv
<1>1. Init => IInv
  BY InitTyped, InitCalibration, InitReference DEF IInv
<1>2. IInv /\ [Next]_vars => IInv'
  BY TypeInductive, CalibrationInductive, ReferenceInductive DEF IInv
<1> QED
  BY <1>1, <1>2, PTL DEF Spec

\* Where the poses come from the connection's own thread, a session is neither
\* calibrated nor centered before its wait is over.
THEOREM CalibrationInTime == Spec => []CalibrationWaits
<1>1. IInv => CalibrationWaits
  BY DEF IInv, CalibrationInv, OwnThread, CalibrationWaits
<1> QED
  BY <1>1, Invariance, PTL

\* The ways of a pose agree on the reference between poses, in any order of the
\* threads' steps.
THEOREM ReferenceConsistent == Spec => []ReferenceSettled
<1>1. IInv => ReferenceSettled
  <2> SUFFICES ASSUME IInv PROVE ReferenceSettled
    OBVIOUS
  <2>1. origin.last \in {"none", "plain", "oriented", "former"}
    BY DEF IInv, TypeOK, Origin
  <2>2. handler.pc = "idle" => origin.conjugated # "no"
    BY DEF IInv, ReferenceInv, Conjugated
  <2>3. handler.pc = "idle" /\ ingest.pc = "idle" /\ captured =>
          origin.aligned # "no" \/ updated
    BY DEF IInv, ReferenceInv, Aligned, Pending
  <2>4. /\ ingest.pc = "idle" /\ supplemental /\ position_ready =>
              origin.last \in {"none", "oriented"}
        /\ supplemental => origin.last # "former"
    BY <2>1 DEF IInv, ReferenceInv, Oriented
  <2> QED
    BY <2>2, <2>3, <2>4 DEF ReferenceSettled
<1> QED
  BY <1>1, Invariance, PTL

=============================================================================
