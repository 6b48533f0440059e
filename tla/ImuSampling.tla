----------------------------- MODULE ImuSampling -----------------------------
(***************************************************************************)
(* What a pose passes through on its way to the outputs: imu_rate.c, which *)
(* measures the rate at which poses come, multitap.c, which looks for taps *)
(* on the glasses, and the IMU buffer of buffer.c, which keeps the poses   *)
(* that the shaders interpolate.                                           *)
(*                                                                         *)
(* The tap detector's buffer holds 25 ms of velocities, the lengths of the *)
(* tap detector are counted in samples, and a velocity is one of three     *)
(* levels: the step from Still to Hit is an acceleration above the         *)
(* detection threshold, one level up or down is above the pause threshold. *)
(* A timestamp is represented by the time that it is after tap_start_time  *)
(* or pause_start_time, counted up to the bound that is looked at; the     *)
(* clock of a session may begin before either.                             *)
(***************************************************************************)
EXTENDS Integers, Sequences

CONSTANTS
    Rates, BufferSizes, \* imu_cycles_per_s and imu_buffer_size, as declared by devices
    Measured,       \* in Hz, as measured over a window
    ClocksBehind,   \* samples by which a session's timestamps may begin before a sequence
                    \* of taps that the last one left is over
    Modes,          \* whether poses are looked at for taps, and whether they are shown
    MaxTapPeriod, MaxTapDuration, MinPause, \* the detector's lengths, in samples
    MaxTaps,        \* bound: taps of a sequence
    MaxWindows,     \* bound: windows in a row that agree
    MaxBufferSize   \* bound: imu_buffer_size

ASSUME SamplingAssumption ==
    /\ Rates \subseteq Nat \ {0} /\ Rates # {}
    /\ Measured \subseteq Nat \ {0}
    /\ MaxBufferSize \in Nat \ {0} /\ BufferSizes \subseteq 1 .. MaxBufferSize
    /\ {MaxTapPeriod, MaxTapDuration, MinPause, MaxTaps} \subseteq Nat
    /\ ClocksBehind \subseteq Nat
    /\ Modes \subseteq SUBSET {"multi_tap", "calibrated"}
    /\ MaxWindows \in Nat /\ MaxWindows >= 3

Velocity == 0 .. 2
Still == 0

VARIABLES
    mode,       \* those of config()->multi_tap_enabled and glasses_calibrated that are set
    rate,       \* device->imu_cycles_per_s
    imu_buffer_size, \* device->imu_buffer_size
    stable_windows,
    measured_sum, \* of the stable windows' rates, whose mean is candidate_rate
    mt_buffer,  \* the velocities of the last 25 ms
    recent,     \* history: the velocities that went into mt_buffer, last first
    mt_state, tap_count,
    tap_age,    \* samples since tap_start_time, up to MaxTapPeriod + 1
    pause_age,  \* samples since pause_start_time, up to MinPause + 1
    multi_tap,  \* what detect_multi_tap returned
    gap,        \* history: samples since the last rise, or since the session began
    head,       \* history: how old the last rise was, by the clock, when the session began
    spread,     \* history: the longest gap and head within the sequence
    imu_buffer, \* stage_1 and stage_2
    pushes      \* history: the number of the last pose that was shown, modulo Numbers

tapVars == <<mt_state, tap_count, tap_age, pause_age, multi_tap, gap, head, spread>>
rateVars == <<rate, imu_buffer_size, stable_windows, measured_sum>>
vars == <<mode, rateVars, mt_buffer, recent, tapVars, imu_buffer, pushes>>

V == INSTANCE RingBuffer WITH Value <- Velocity, Zero <- Still
N == INSTANCE RingBuffer WITH Value <- Nat, Zero <- 0

\* The same, as times after tap_start_time.
ClockStarts == {MaxTapPeriod + 1 - behind : behind \in ClocksBehind}

Numbers == 2 * MaxBufferSize + 1

\* lroundf(a / b)
Nearest(a, b) == (2 * a + b) \div (2 * b)

\* floor(25 / 1000 * rate)
TapBufferSize(r) == (25 * r) \div 1000

TypeOK ==
    /\ mode \in Modes
    /\ rate \in Nat \ {0} /\ imu_buffer_size \in 1 .. MaxBufferSize
    /\ stable_windows \in 0 .. MaxWindows /\ measured_sum \in Nat
    /\ mt_buffer.size = TapBufferSize(rate)
    /\ mt_buffer.index \in 0 .. mt_buffer.size - 1
    /\ mt_buffer.count = Len(recent)
    /\ mt_state \in {"idle", "rise", "fall", "pause"}
    /\ tap_count \in 0 .. MaxTaps /\ multi_tap \in 0 .. MaxTaps
    /\ tap_age \in Int /\ tap_age <= MaxTapPeriod + 1
    /\ pause_age \in Int /\ pause_age <= MinPause + 1
    /\ gap \in Nat /\ head \in ClockStarts \cup {0} /\ spread \in 0 .. MaxTapPeriod + 1
    /\ \A stage \in {1, 2} : imu_buffer[stage].size \in 0 .. MaxBufferSize
    /\ pushes \in 0 .. Numbers - 1

CreatedBuffer(size) == [stage \in {1, 2} |-> N!create_buffer(size)]

\* imu_buffer is NULL, of which imu_buffer_size() is 0.
NoBuffer == CreatedBuffer(0)

Init ==
    /\ mode \in Modes
    /\ rate \in Rates /\ imu_buffer_size \in BufferSizes
    /\ stable_windows = 0 /\ measured_sum = 0
    /\ mt_buffer = V!create_buffer(TapBufferSize(rate)) /\ recent = <<>>
    /\ mt_state = "idle" /\ tap_count = 0 /\ multi_tap = 0
    /\ tap_age = MaxTapPeriod + 1 /\ pause_age = MinPause + 1
    /\ gap = MaxTapPeriod + 1 /\ head = 0 /\ spread = 0
    /\ imu_buffer = NoBuffer
    /\ pushes = 0

-----------------------------------------------------------------------------
(* detect_multi_tap, with the accelerations that the levels stand for.     *)

Acceleration(velocity) == velocity - V!Popped(mt_buffer)
Detected(velocity) == Acceleration(velocity) >= 2
Pausing(velocity) == Acceleration(velocity) = 0

Up(age, bound) == IF age = bound + 1 THEN age ELSE age + 1
Longer(a, b) == IF a >= b THEN a ELSE b

\* int tap_elapsed_ms, of the sample that comes now.
TapElapsed == Up(tap_age, MaxTapPeriod)
PauseElapsed == Up(pause_age, MinPause)
TrueGap == IF gap + head = MaxTapPeriod + 1 THEN gap ELSE gap + 1

\* Mutant: only a sequence with a tap in it can be over.
RisesLate == tap_count > 0 /\ mt_state = "pause" /\ TapElapsed > MaxTapPeriod

Expired == (tap_count > 0 \/ mt_state # "idle") /\ TapElapsed > MaxTapPeriod

Expire ==
    /\ Expired
    /\ mt_state' = "idle" /\ tap_count' = 0 /\ multi_tap' = tap_count
    /\ tap_age' = TapElapsed /\ pause_age' = PauseElapsed /\ gap' = TrueGap
    /\ UNCHANGED <<head, spread>>

Rise(velocity) ==
    /\ ~Expired /\ mt_state = "idle"
    /\ IF Detected(velocity)
       THEN /\ mt_state' = "rise"
            /\ tap_age' = 0 /\ gap' = 0 /\ head' = 0
            /\ spread' = IF tap_count = 0 THEN 0 ELSE Longer(spread, TrueGap + head)
       ELSE /\ tap_age' = TapElapsed /\ gap' = TrueGap
            /\ UNCHANGED <<mt_state, head, spread>>
    /\ pause_age' = PauseElapsed /\ multi_tap' = 0
    /\ UNCHANGED tap_count

Fall(velocity) ==
    /\ ~Expired /\ mt_state = "rise"
    /\ mt_state' = IF Acceleration(velocity) < 0 THEN "fall" ELSE mt_state
    /\ tap_age' = TapElapsed /\ pause_age' = PauseElapsed /\ gap' = TrueGap
    /\ multi_tap' = 0
    /\ UNCHANGED <<tap_count, head, spread>>

\* The end of the fall: a tap, if it was quick.  The statement tap_count == 0 has no
\* effect on the other branch.
Stop(velocity) ==
    /\ ~Expired /\ mt_state = "fall"
    /\ tap_count < MaxTaps
    /\ IF Acceleration(velocity) > 0 /\ TapElapsed <= MaxTapDuration
       THEN /\ mt_state' = "pause" /\ tap_count' = tap_count + 1
            /\ pause_age' = 0
       ELSE /\ mt_state' = IF Acceleration(velocity) > 0 THEN "idle" ELSE mt_state
            /\ pause_age' = PauseElapsed
            /\ UNCHANGED tap_count
    /\ tap_age' = TapElapsed /\ gap' = TrueGap /\ multi_tap' = 0
    /\ UNCHANGED <<head, spread>>

Pause(velocity) ==
    /\ ~Expired /\ mt_state = "pause"
    /\ IF Pausing(velocity)
       THEN /\ mt_state' = IF PauseElapsed > MinPause THEN "idle" ELSE mt_state
            /\ pause_age' = PauseElapsed
       ELSE pause_age' = 0 /\ UNCHANGED mt_state
    /\ tap_age' = TapElapsed /\ gap' = TrueGap /\ multi_tap' = 0
    /\ UNCHANGED <<tap_count, head, spread>>

\* Until the buffer is full, there is no acceleration to look at.
Fill ==
    /\ tap_age' = TapElapsed /\ pause_age' = PauseElapsed /\ gap' = TrueGap
    /\ multi_tap' = 0
    /\ UNCHANGED <<mt_state, tap_count, head, spread>>

detect_multi_tap(velocity) ==
    /\ mt_buffer' = V!push(mt_buffer, velocity)
    /\ recent' = SubSeq(<<velocity>> \o recent, 1, mt_buffer'.count)
    /\ IF V!is_full(mt_buffer)
       THEN Expire \/ Rise(velocity) \/ Fall(velocity) \/ Stop(velocity) \/ Pause(velocity)
       ELSE Fill

-----------------------------------------------------------------------------
(* The IMU buffer of outputs.c: what leaves its first stage enters the     *)
(* second.                                                                 *)

\* Mutant: the buffer is kept when the device's buffer size changed.
BufferKept == IF imu_buffer = NoBuffer THEN CreatedBuffer(imu_buffer_size) ELSE imu_buffer

\* The buffer that a pose is pushed to: a new one if it has not the device's size.
Buffer == IF imu_buffer[1].size = imu_buffer_size THEN imu_buffer
                                                   ELSE CreatedBuffer(imu_buffer_size)

push_to_imu_buffer(number) ==
    imu_buffer' =
        [Buffer EXCEPT ![1] = N!push(@, number),
             ![2] = IF N!is_full(Buffer[1]) THEN N!push(@, N!Popped(Buffer[1])) ELSE @]

\* response->ready, and the numbers of the poses in response->data.
Ready == N!is_full(Buffer[1]) /\ N!is_full(Buffer[2])
Data(number) == <<number, N!Popped(Buffer[1]), N!Popped(Buffer[2])>>

\* The part of a pose's way that keeps state, for a pose of this velocity.
Pose(velocity) ==
    /\ IF "multi_tap" \in mode THEN detect_multi_tap(velocity)
                               ELSE UNCHANGED <<mt_buffer, recent, tapVars>>
    /\ IF "calibrated" \in mode THEN /\ pushes' = (pushes + 1) % Numbers
                                      /\ push_to_imu_buffer(pushes')
                                 ELSE UNCHANGED <<imu_buffer, pushes>>
    /\ UNCHANGED <<mode, rateVars>>

-----------------------------------------------------------------------------
(* imu_rate_observe_pose, at the end of a window, and init_multi_tap.      *)

Distance(a, b) == IF a >= b THEN a - b ELSE b - a

\* fabsf(measured - candidate) <= candidate * 0.05, the candidate being a mean.
Agrees(measured) ==
    20 * Distance(measured * stable_windows, measured_sum) <= measured_sum

\* The mean deviates from the rate by more than a tenth of it.
Deviates(windows, sum) == 10 * Distance(sum, rate * windows) > rate * windows

\* lroundf of the mean.
Rounded(windows, sum) == Nearest(sum, windows)

init_multi_tap(r) ==
    /\ mt_buffer' = V!create_buffer(TapBufferSize(r))
    /\ recent' = <<>>

\* The buffer's size is scaled with the rate, from the size that was in use.
ScaledSize(r) == LET size == Nearest(imu_buffer_size * r, rate)
                 IN  IF size < 1 THEN 1 ELSE size

apply_rate(r) ==
    /\ rate' = r
    /\ imu_buffer_size' = ScaledSize(r) /\ imu_buffer_size' <= MaxBufferSize

imu_rate_observe_pose(measured) ==
    /\ IF stable_windows > 0 /\ Agrees(measured)
       THEN stable_windows' = stable_windows + 1 /\ measured_sum' = measured_sum + measured
       ELSE stable_windows' = 1 /\ measured_sum' = measured
    /\ stable_windows' <= MaxWindows
    /\ \E r \in {Rounded(stable_windows', measured_sum')} :
       IF /\ stable_windows' >= 3
          /\ Deviates(stable_windows', measured_sum')
          /\ r >= 1 /\ r # rate
       THEN apply_rate(r) /\ init_multi_tap(r)
       ELSE UNCHANGED <<rate, imu_buffer_size, mt_buffer, recent>>
    /\ UNCHANGED <<mode, tapVars, imu_buffer, pushes>>

\* A stalled stream: the measurements begin again.
Stall ==
    /\ stable_windows > 0
    /\ stable_windows' = 0 /\ measured_sum' = 0
    /\ UNCHANGED <<mode, rate, imu_buffer_size, mt_buffer, recent, tapVars, imu_buffer, pushes>>

\* A session begins: imu_rate_reset and init_multi_tap by the block_on_device thread.
\* The detector's state is kept, long as it was; by the clock of these glasses the last
\* rise and the last pause may be at any time, but the rise was before the pause.
NewSession(r, size) ==
    /\ rate' = r /\ imu_buffer_size' = size
    /\ stable_windows' = 0 /\ measured_sum' = 0
    /\ init_multi_tap(r)
    /\ \E rise, pause \in ClockStarts :
          /\ pause <= rise
          /\ tap_age' = rise /\ gap' = 0 /\ head' = rise
          /\ pause_age' = IF pause <= MinPause THEN pause ELSE MinPause + 1
    /\ UNCHANGED <<mode, mt_state, tap_count, multi_tap, spread, imu_buffer, pushes>>

\* The glasses of the last session are as they were, others as they are declared.
Sessions == Rates \X BufferSizes \cup {<<rate, imu_buffer_size>>}

Next ==
    \/ \E velocity \in Velocity : Pose(velocity)
    \/ \E measured \in Measured : imu_rate_observe_pose(measured)
    \/ Stall
    \/ \E glasses \in Sessions : NewSession(glasses[1], glasses[2])

Spec == Init /\ [][Next]_vars

-----------------------------------------------------------------------------
(* Properties.                                                             *)

\* buffer.h: "push a new value, pop the oldest value and return it", and
\* multitap.c: whether the buffer was full tells "if the value returned will be
\* relevant": it is the velocity of as many samples ago as the buffer is long.
OldestPopped ==
    V!is_full(mt_buffer) => mt_buffer.size > 0 /\ V!Popped(mt_buffer) = recent[mt_buffer.size]

\* The three poses that a shader gets are equally far apart: a whole buffer of the
\* device's current size each, however often the size changed.
PosesEquidistant ==
    Ready => \A number \in {(pushes + 1) % Numbers} :
        Data(number) = <<number, (number + Numbers - imu_buffer_size) % Numbers,
                         (number + Numbers - 2 * imu_buffer_size) % Numbers>>

\* multitap.c: "longest time-frame to allow between tap starts/rises".  In what is reported
\* as a multi-tap, no rise came later than that after the one before it.  If a session
\* began between the two, its samples are counted, and what its clock told then: a clock
\* that begins before the last rise (head < 0) gives the next as much longer.
TapsClose == [][multi_tap' > 1 => spread <= MaxTapPeriod]_vars

\* One might expect that the taps of a sequence are of one session.
OneSession == [][mt_state = "idle" /\ mt_state' = "rise" /\ tap_count > 0 => head = 0]_vars
=============================================================================
