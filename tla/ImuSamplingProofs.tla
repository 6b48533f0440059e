------------------------- MODULE ImuSamplingProofs -------------------------
(***************************************************************************)
(* Proofs, for any declared sizes of the IMU buffer, any declared and      *)
(* measured rates and any lengths of the tap detector, that the ring       *)
(* buffers give back what went in as long ago as they are long, also after *)
(* they were made anew for another rate, and that a multi-tap's rises are  *)
(* close together, wherever the clocks of the sessions begin.              *)
(***************************************************************************)
EXTENDS ImuSampling, TLAPS

-----------------------------------------------------------------------------
(* Arithmetic.                                                             *)

\* The remainder of what is less than twice the divisor.
LEMMA Remainder ==
  ASSUME NEW m \in Nat \ {0}, NEW a \in 0 .. 2 * m - 1
  PROVE  a % m = IF a < m THEN a ELSE a - m
OBVIOUS

\* A buffer for 25 ms holds something from 40 Hz on.
LEMMA SizeAt40 ==
  ASSUME NEW r \in Nat, r >= 40 PROVE TapBufferSize(r) \in Nat \ {0}
BY DEF TapBufferSize

\* Rounding gives an integer.
LEMMA NearestInt ==
  ASSUME NEW a \in Int, NEW b \in Nat \ {0} PROVE Nearest(a, b) \in Int
<1> DEFINE n == 2 * a + b
           d == 2 * b
<1>1. n \in Int /\ d \in Nat \ {0}
  OBVIOUS
<1> HIDE DEF n, d
<1>2. n \div d \in Int
  BY <1>1
<1> QED
  BY <1>2 DEF Nearest, n, d

\* The rounded mean of rates is not below the least of them.
LEMMA MeanAt40 ==
  ASSUME NEW windows \in Nat \ {0}, NEW sum \in Nat, sum >= 40 * windows
  PROVE  Rounded(windows, sum) \in Nat /\ Rounded(windows, sum) >= 40
<1> DEFINE d == 2 * windows
           a == 2 * sum + windows
<1>1. d \in Nat \ {0} /\ a \in Nat /\ a >= 40 * d
  OBVIOUS
<1> HIDE DEF d, a
<1>2. a \div d \in Nat /\ a \div d >= 40
  BY <1>1
<1> QED
  BY <1>2 DEF Rounded, Nearest, d, a

-----------------------------------------------------------------------------
(* The ring buffer.                                                        *)

Ring(buffer, size, Value) ==
    /\ buffer.size = size
    /\ buffer.values \in [0 .. size - 1 -> Value]
    /\ buffer.index \in 0 .. size - 1
    /\ buffer.count \in 0 .. size

\* How many pushes ago a slot was written, if it was.
Age(buffer, slot) ==
    IF slot < buffer.index THEN buffer.index - slot ELSE buffer.index + buffer.size - slot

\* The slots hold what was pushed, of which newest[k] is the value of k pushes ago.
Holds(buffer, newest) ==
    \A slot \in 0 .. buffer.size - 1 :
        Age(buffer, slot) <= buffer.count => buffer.values[slot] = newest[Age(buffer, slot)]

\* Nothing was pushed to a buffer that was created.
LEMMA Created ==
  ASSUME NEW size \in Nat \ {0}, NEW newest,
         NEW buffer \in {V!create_buffer(size), N!create_buffer(size)}
  PROVE  /\ buffer.size = size /\ buffer.index = 0 /\ buffer.count = 0
         /\ buffer.values \in [0 .. size - 1 -> {0}]
         /\ Holds(buffer, newest)
<1>1. /\ buffer.size = size /\ buffer.index = 0 /\ buffer.count = 0
      /\ buffer.values \in [0 .. size - 1 -> {0}]
  BY DEF V!create_buffer, N!create_buffer, Still
<1>2. \A slot \in 0 .. buffer.size - 1 : Age(buffer, slot) > buffer.count
  BY <1>1 DEF Age
<1>3. \A slot \in 0 .. buffer.size - 1 : Age(buffer, slot) \in Int
  BY <1>1 DEF Age
<1>4. Holds(buffer, newest)
  BY <1>1, <1>2, <1>3 DEF Holds
<1> QED
  BY <1>1, <1>4

\* The buffers of velocities and of poses work alike.
LEMMA SameBuffers ==
  ASSUME NEW buffer, NEW value
  PROVE  /\ N!push(buffer, value) = V!push(buffer, value)
         /\ N!Popped(buffer) = V!Popped(buffer)
         /\ N!is_full(buffer) = V!is_full(buffer)
BY DEF V!push, N!push, V!is_full, N!is_full, V!Popped, N!Popped, Still

\* What a push makes of a buffer.
Advanced(buffer, size, value, next) ==
    /\ next.index = IF buffer.index + 1 = size THEN 0 ELSE buffer.index + 1
    /\ next.count = IF buffer.count = size THEN buffer.count ELSE buffer.count + 1
    /\ next.values = [buffer.values EXCEPT ![buffer.index] = value]

\* A push into a ring keeps it one, and advances it by the value.
LEMMA Pushing ==
  ASSUME NEW size \in Nat \ {0}, NEW Value, NEW buffer, Ring(buffer, size, Value),
         NEW value \in Value, NEW next, next = V!push(buffer, value)
  PROVE  Ring(next, size, Value) /\ Advanced(buffer, size, value, next)
<1>1. /\ next.size = size
      /\ next.values = [buffer.values EXCEPT ![buffer.index] = value]
      /\ next.index = (buffer.index + 1) % size
      /\ next.count = IF buffer.count = size THEN buffer.count ELSE buffer.count + 1
  BY DEF V!push, V!is_full, Ring
<1>2. next.index = IF buffer.index + 1 = size THEN 0 ELSE buffer.index + 1
  <2> DEFINE a == buffer.index + 1
  <2>1. a \in 1 .. size /\ next.index = a % size
    BY <1>1 DEF Ring
  <2> HIDE DEF a
  <2>2. a \in 0 .. 2 * size - 1
    BY <2>1
  <2>3. a % size = IF a < size THEN a ELSE a - size
    BY <2>2, Remainder
  <2>4. next.index = IF a = size THEN 0 ELSE a
    BY <2>1, <2>3
  <2> QED
    BY <2>4 DEF a
<1>3. next.values \in [0 .. size - 1 -> Value]
  BY <1>1 DEF Ring
<1>4. next.index \in 0 .. size - 1 /\ next.count \in 0 .. size
  BY <1>1, <1>2 DEF Ring
<1> QED
  BY <1>1, <1>2, <1>3, <1>4 DEF Ring, Advanced

\* What was the newest is one push older, as far as it was kept.
Older(newest, newer, value, size, kept) ==
    /\ newer[1] = value
    /\ \A k \in 1 .. size - 1 : k + 1 <= kept => newer[k + 1] = newest[k]

\* A push makes everything one push older.
LEMMA Pushed ==
  ASSUME NEW size \in Nat \ {0}, NEW Value, NEW buffer, Ring(buffer, size, Value),
         NEW value \in Value, NEW next, next = V!push(buffer, value),
         NEW newest, Holds(buffer, newest),
         NEW newer, Older(newest, newer, value, size, next.count)
  PROVE  Holds(next, newer)
<1>0. Ring(next, size, Value) /\ Advanced(buffer, size, value, next)
  BY Pushing
<1>1. /\ Ring(next, size, Value)
      /\ next.index = IF buffer.index + 1 = size THEN 0 ELSE buffer.index + 1
      /\ next.count = IF buffer.count = size THEN buffer.count ELSE buffer.count + 1
      /\ next.values = [buffer.values EXCEPT ![buffer.index] = value]
  BY <1>0 DEF Advanced
<1> SUFFICES ASSUME NEW slot \in 0 .. size - 1, Age(next, slot) <= next.count
             PROVE  next.values[slot] = newer[Age(next, slot)]
  BY <1>1 DEF Holds, Ring
<1>2. CASE slot = buffer.index
  <2>1. Age(next, slot) = 1
    BY <1>1, <1>2 DEF Age, Ring
  <2>2. next.values[slot] = value
    BY <1>1, <1>2 DEF Ring
  <2> QED
    BY <2>1, <2>2 DEF Older
<1>3. CASE slot # buffer.index
  <2> DEFINE k == Age(buffer, slot)
  <2>1. k \in 1 .. size - 1 /\ Age(next, slot) = k + 1
    <3>1. /\ slot \in 0 .. size - 1 /\ buffer.index \in 0 .. size - 1
          /\ buffer.size = size /\ next.size = size /\ size \in Nat
      BY <1>1 DEF Ring
    <3>2. CASE buffer.index + 1 = size
      BY <3>1, <3>2, <1>1, <1>3 DEF Age
    <3>3. CASE buffer.index + 1 # size
      BY <3>1, <3>3, <1>1, <1>3 DEF Age
    <3> QED
      BY <3>2, <3>3
  <2>2. k <= buffer.count
    BY <1>1, <2>1 DEF Ring
  <2>3. next.values[slot] = buffer.values[slot]
    BY <1>1, <1>3 DEF Ring
  <2>4. buffer.values[slot] = newest[k]
    BY <2>2 DEF Holds, Ring
  <2> QED
    BY <2>1, <2>3, <2>4 DEF Older
<1> QED
  BY <1>2, <1>3

\* What a full buffer gives back is what was pushed as long ago as it is long.
LEMMA GivesOldest ==
  ASSUME NEW size \in Nat \ {0}, NEW Value, NEW buffer, Ring(buffer, size, Value),
         NEW newest, Holds(buffer, newest), buffer.count = size
  PROVE  /\ V!is_full(buffer) /\ N!is_full(buffer)
         /\ V!Popped(buffer) = newest[size] /\ N!Popped(buffer) = newest[size]
         /\ newest[size] \in Value
<1>1. Age(buffer, buffer.index) = size /\ buffer.index \in 0 .. buffer.size - 1
  BY DEF Age, Ring
<1>2. buffer.values[buffer.index] = newest[size]
  BY <1>1 DEF Holds, Ring
<1> QED
  BY <1>2 DEF V!is_full, N!is_full, V!Popped, N!Popped, Ring

-----------------------------------------------------------------------------
(* The tap detector's buffer.                                              *)

\* Poses that come at least every 25 ms: one fits into the buffer.
FastEnough == \A r \in Rates \cup Measured : r >= 40

\* The inductive invariant of the tap detector's buffer: it holds the last velocities,
\* and the mean of what was measured is not below what a buffer can be made for.
VelocitiesInv ==
    /\ rate \in Nat /\ rate >= 40
    /\ stable_windows \in Nat
    /\ measured_sum \in Nat /\ measured_sum >= 40 * stable_windows
    /\ Ring(mt_buffer, TapBufferSize(rate), Velocity)
    /\ recent \in Seq(Velocity) /\ Len(recent) = mt_buffer.count
    /\ Holds(mt_buffer, recent)

\* A buffer that init_multi_tap made is empty.
LEMMA TapBufferMade ==
  ASSUME NEW r \in Nat, r >= 40,
         NEW buffer, buffer = V!create_buffer(TapBufferSize(r))
  PROVE  /\ Ring(buffer, TapBufferSize(r), Velocity)
         /\ buffer.count = 0
         /\ Holds(buffer, <<>>)
<1> DEFINE size == TapBufferSize(r)
<1>1. size \in Nat \ {0}
  BY SizeAt40
<1> HIDE DEF size
<1>2. /\ buffer.size = size /\ buffer.index = 0 /\ buffer.count = 0
      /\ buffer.values \in [0 .. size - 1 -> {0}]
      /\ Holds(buffer, <<>>)
  BY <1>1, Created DEF size
<1>3. buffer.values \in [0 .. size - 1 -> Velocity]
  BY <1>2 DEF Velocity
<1> QED
  BY <1>1, <1>2, <1>3 DEF Ring, size

\* A velocity enters the buffer, and the oldest leaves it.
LEMMA VelocityPushed ==
  ASSUME VelocitiesInv, NEW velocity \in Velocity, detect_multi_tap(velocity),
         UNCHANGED rateVars
  PROVE  VelocitiesInv'
<1> DEFINE longer == <<velocity>> \o recent
<1>0. PICK size \in Nat \ {0} : size = TapBufferSize(rate)
  BY SizeAt40 DEF VelocitiesInv
<1>1. /\ Ring(mt_buffer, size, Velocity)
      /\ mt_buffer' = V!push(mt_buffer, velocity)
      /\ recent' = SubSeq(longer, 1, mt_buffer'.count)
      /\ TapBufferSize(rate') = size
  BY <1>0 DEF VelocitiesInv, detect_multi_tap, rateVars
<1>2. /\ Ring(mt_buffer', size, Velocity)
      /\ mt_buffer'.count = IF mt_buffer.count = size THEN mt_buffer.count
                                                      ELSE mt_buffer.count + 1
  <2>1. Ring(mt_buffer', size, Velocity) /\ Advanced(mt_buffer, size, velocity, mt_buffer')
    BY <1>1, Pushing
  <2> QED
    BY <2>1 DEF Advanced
<1>3. /\ longer \in Seq(Velocity) /\ Len(longer) = mt_buffer.count + 1
      /\ longer[1] = velocity
      /\ \A k \in 1 .. mt_buffer.count : longer[k + 1] = recent[k]
  BY DEF VelocitiesInv
<1>4. mt_buffer'.count \in 1 .. mt_buffer.count + 1 /\ mt_buffer.count \in Nat
  BY <1>1, <1>2 DEF Ring
<1> HIDE DEF longer
<1>5. /\ recent' \in Seq(Velocity) /\ Len(recent') = mt_buffer'.count
      /\ \A k \in 1 .. mt_buffer'.count : recent'[k] = longer[k]
  BY <1>1, <1>3, <1>4
<1>6. recent'[1] = velocity
  BY <1>3, <1>4, <1>5
<1>7. \A k \in 1 .. size - 1 : k + 1 <= mt_buffer'.count => recent'[k + 1] = recent[k]
  BY <1>1, <1>3, <1>4, <1>5
<1>8. Holds(mt_buffer', recent')
  <2>1. Holds(mt_buffer, recent)
    BY DEF VelocitiesInv
  <2>2. Older(recent, recent', velocity, size, mt_buffer'.count)
    BY <1>6, <1>7 DEF Older
  <2> QED
    BY <1>1, <2>1, <2>2, Pushed
<1> QED
  BY <1>1, <1>2, <1>5, <1>8 DEF VelocitiesInv, rateVars

\* The buffer is empty at first.
LEMMA VelocitiesInit ==
  ASSUME FastEnough, Init PROVE VelocitiesInv
<1>1. rate \in Nat /\ rate >= 40 /\ stable_windows = 0 /\ measured_sum = 0
  BY SamplingAssumption DEF Init, FastEnough
<1> QED
  BY <1>1, TapBufferMade DEF Init, VelocitiesInv

\* A new rate makes a new buffer, and the rate that was measured is fast enough.
LEMMA VelocitiesInductive ==
  ASSUME FastEnough, VelocitiesInv, [Next]_vars PROVE VelocitiesInv'
<1>1. ASSUME NEW velocity \in Velocity, Pose(velocity) PROVE VelocitiesInv'
  <2>1. CASE "multi_tap" \in mode
    BY <1>1, <2>1, VelocityPushed DEF Pose
  <2>2. CASE "multi_tap" \notin mode
    BY <1>1, <2>2 DEF Pose, rateVars, VelocitiesInv
  <2> QED
    BY <2>1, <2>2
<1>2. ASSUME NEW measured \in Measured, imu_rate_observe_pose(measured) PROVE VelocitiesInv'
  <2>1. measured \in Nat /\ measured >= 40
    BY SamplingAssumption DEF FastEnough
  <2>2. /\ stable_windows' \in Nat /\ measured_sum' \in Nat
        /\ measured_sum' >= 40 * stable_windows'
    BY <1>2, <2>1 DEF imu_rate_observe_pose, VelocitiesInv
  <2>3. CASE UNCHANGED <<rate, imu_buffer_size, mt_buffer, recent>>
    BY <2>2, <2>3 DEF VelocitiesInv
  <2>4. CASE /\ stable_windows' >= 3
             /\ rate' = Rounded(stable_windows', measured_sum')
             /\ init_multi_tap(rate')
    <3> DEFINE mean == Rounded(stable_windows', measured_sum')
    <3>1. stable_windows' \in Nat \ {0}
      BY <2>2, <2>4
    <3>2. mean \in Nat /\ mean >= 40
      BY <2>2, <3>1, MeanAt40
    <3> HIDE DEF mean
    <3>3. /\ rate' = mean
          /\ mt_buffer' = V!create_buffer(TapBufferSize(mean)) /\ recent' = <<>>
      BY <2>4 DEF init_multi_tap, mean
    <3>4. /\ Ring(mt_buffer', TapBufferSize(mean), Velocity) /\ mt_buffer'.count = 0
          /\ Holds(mt_buffer', recent')
      BY <3>2, <3>3, TapBufferMade
    <3>5. recent' \in Seq(Velocity) /\ Len(recent') = mt_buffer'.count
      BY <3>3, <3>4
    <3>6. Ring(mt_buffer', TapBufferSize(rate'), Velocity)
      BY <3>3, <3>4
    <3> QED
      BY <2>2, <3>2, <3>3, <3>4, <3>5, <3>6 DEF VelocitiesInv
  <2> QED
    BY <1>2, <2>3, <2>4 DEF imu_rate_observe_pose, apply_rate
<1>3. CASE Stall
  BY <1>3 DEF Stall, VelocitiesInv
<1>4. ASSUME NEW glasses \in Sessions, NewSession(glasses[1], glasses[2])
      PROVE  VelocitiesInv'
  <2>0. PICK r : r = glasses[1]
    OBVIOUS
  <2>1. r \in Nat /\ r >= 40
    BY <1>4, <2>0, SamplingAssumption DEF Sessions, FastEnough, VelocitiesInv
  <2> QED
    BY <1>4, <2>0, <2>1, TapBufferMade DEF NewSession, init_multi_tap, VelocitiesInv
<1>5. CASE UNCHANGED vars
  BY <1>5 DEF vars, rateVars, VelocitiesInv
<1> QED
  BY <1>1, <1>2, <1>3, <1>4, <1>5 DEF Next

-----------------------------------------------------------------------------
(* The two stages of the IMU buffer.                                       *)

\* The number of the pose that came k poses before the pose n.
Back(n, k) == IF n >= k THEN n - k ELSE n + Numbers - k

\* The numbers in a stage of a size whose newest came d poses before the pose n.
Newest(n, d, size) == [k \in 1 .. size |-> Back(n, d + k - 1)]

\* A buffer of a size that was pushed to up to the pose n: each stage holds the poses
\* before those of the one before it, and the second only fills once the first is full.
Stages(buffer, size, n) ==
    /\ buffer = [stage \in {1, 2} |-> buffer[stage]]
    /\ Ring(buffer[1], size, Nat) /\ Holds(buffer[1], Newest(n, 0, size))
    /\ Ring(buffer[2], size, Nat) /\ Holds(buffer[2], Newest(n, size, size))
    /\ buffer[2].count > 0 => buffer[1].count = size

\* The inductive invariant of the IMU buffer: there is none, or it is of the size that it
\* was made with, whatever became of the device's.
StagesInv ==
    /\ pushes \in 0 .. Numbers - 1
    /\ rate \in Nat \ {0} /\ stable_windows \in Nat /\ measured_sum \in Nat
    /\ imu_buffer_size \in 1 .. MaxBufferSize
    /\ \/ imu_buffer[1].size = 0
       \/ \E size \in 1 .. MaxBufferSize : Stages(imu_buffer, size, pushes)

\* The number of the next pose, and of those before it.
LEMMA NextNumber ==
  ASSUME NEW n \in 0 .. Numbers - 1
  PROVE  /\ (n + 1) % Numbers \in 0 .. Numbers - 1
         /\ \A k \in 0 .. Numbers - 2 : Back((n + 1) % Numbers, k + 1) = Back(n, k)
         /\ Back((n + 1) % Numbers, 0) = (n + 1) % Numbers
<1>1. Numbers \in Nat \ {0} /\ Numbers >= 3
  BY SamplingAssumption DEF Numbers
<1> DEFINE a == n + 1
<1>2. a \in 0 .. 2 * Numbers - 1 /\ a \in 1 .. Numbers
  BY <1>1
<1> HIDE DEF a
<1>3. a % Numbers = IF a < Numbers THEN a ELSE a - Numbers
  BY <1>1, <1>2, Remainder
<1>4. (n + 1) % Numbers = IF n + 1 < Numbers THEN n + 1 ELSE 0
  BY <1>1, <1>2, <1>3 DEF a
<1> QED
  BY <1>1, <1>4 DEF Back

\* The number that the property names.
LEMMA NumberBack ==
  ASSUME NEW n \in 0 .. Numbers - 1, NEW k \in 0 .. Numbers - 1
  PROVE  (n + Numbers - k) % Numbers = Back(n, k)
<1>1. Numbers \in Nat \ {0}
  BY SamplingAssumption DEF Numbers
<1> DEFINE a == n + Numbers - k
<1>2. a \in 0 .. 2 * Numbers - 1
  BY <1>1
<1> HIDE DEF a
<1>3. a % Numbers = IF a < Numbers THEN a ELSE a - Numbers
  BY <1>1, <1>2, Remainder
<1> QED
  BY <1>1, <1>3 DEF a, Back

\* A pose that comes is the newest of the first stage.
LEMMA NewestOlder ==
  ASSUME NEW n \in 0 .. Numbers - 1, NEW size \in 1 .. MaxBufferSize, NEW d \in {0, size},
         NEW kept
  PROVE  Older(Newest(n, d, size), Newest((n + 1) % Numbers, d, size),
               Back((n + 1) % Numbers, d), size, kept)
<1> DEFINE m == (n + 1) % Numbers
<1>1. size \in Nat \ {0} /\ Numbers \in Nat /\ Numbers >= 2 * size + 1 /\ d \in 0 .. size
  BY SamplingAssumption DEF Numbers
<1>2. \A k \in 0 .. Numbers - 2 : Back(m, k + 1) = Back(n, k)
  BY NextNumber
<1> HIDE DEF m
<1>3. Newest(m, d, size)[1] = Back(m, d)
  BY <1>1 DEF Newest
<1>4. ASSUME NEW k \in 1 .. size - 1
      PROVE  Newest(m, d, size)[k + 1] = Newest(n, d, size)[k]
  <2>1. d + k - 1 \in 0 .. Numbers - 2 /\ d + (k + 1) - 1 = (d + k - 1) + 1
    BY <1>1
  <2>2. Newest(m, d, size)[k + 1] = Back(m, d + (k + 1) - 1)
    BY <1>1 DEF Newest
  <2>3. Newest(n, d, size)[k] = Back(n, d + k - 1)
    BY <1>1 DEF Newest
  <2> QED
    BY <1>2, <2>1, <2>2, <2>3
<1> QED
  BY <1>3, <1>4 DEF Older, m

\* An empty buffer holds anything.
LEMMA EmptyHolds ==
  ASSUME NEW size \in Nat \ {0}, NEW Value, NEW buffer, Ring(buffer, size, Value),
         buffer.count = 0, NEW newest
  PROVE  Holds(buffer, newest)
<1> SUFFICES ASSUME NEW slot \in 0 .. size - 1 PROVE ~(Age(buffer, slot) <= buffer.count)
  BY DEF Holds, Ring
<1> QED
  BY DEF Age, Ring

\* A buffer that was created holds nothing.
LEMMA StagesCreated ==
  ASSUME NEW size \in 1 .. MaxBufferSize, NEW n
  PROVE  Stages(CreatedBuffer(size), size, n)
<1>1. size \in Nat \ {0}
  BY SamplingAssumption
<1>2. PICK empty : empty = N!create_buffer(size)
  OBVIOUS
<1>3. /\ empty.size = size /\ empty.index = 0 /\ empty.count = 0
      /\ empty.values \in [0 .. size - 1 -> {0}]
  BY <1>1, <1>2, Created
<1>4. Ring(empty, size, Nat)
  BY <1>1, <1>3 DEF Ring
<1>5. \A newest : Holds(empty, newest)
  BY <1>1, <1>3, <1>4, EmptyHolds
<1>6. CreatedBuffer(size) = [stage \in {1, 2} |-> empty]
  BY <1>2 DEF CreatedBuffer
<1> HIDE DEF CreatedBuffer
<1>7. CreatedBuffer(size)[1] = empty /\ CreatedBuffer(size)[2] = empty
  BY <1>6
<1> QED
  BY <1>1, <1>3, <1>4, <1>5, <1>6, <1>7 DEF Stages

\* The buffer that a pose is pushed to has the device's size, and only poses that went
\* into a buffer of that size.
LEMMA BufferCurrent ==
  ASSUME StagesInv PROVE Stages(Buffer, imu_buffer_size, pushes)
<1>1. CASE imu_buffer[1].size = imu_buffer_size
  <2>1. PICK size \in 1 .. MaxBufferSize : Stages(imu_buffer, size, pushes)
    BY <1>1 DEF StagesInv
  <2>2. size = imu_buffer_size
    BY <1>1, <2>1 DEF Stages, Ring
  <2> QED
    BY <1>1, <2>1, <2>2 DEF Buffer
<1>2. CASE imu_buffer[1].size # imu_buffer_size
  BY <1>2, StagesCreated DEF StagesInv, Buffer
<1> QED
  BY <1>1, <1>2

\* A pose goes through the stages.
LEMMA StagesPushed ==
  ASSUME StagesInv, pushes' = (pushes + 1) % Numbers, push_to_imu_buffer(pushes')
  PROVE  pushes' \in 0 .. Numbers - 1 /\ Stages(imu_buffer', imu_buffer_size, pushes')
<1> DEFINE oldest == N!Popped(Buffer[1])
<1>a. PICK B \in 1 .. MaxBufferSize : B = imu_buffer_size
  BY DEF StagesInv
<1>b. PICK one, two : one = Buffer[1] /\ two = Buffer[2]
  OBVIOUS
<1>0. B = imu_buffer_size /\ one = Buffer[1] /\ two = Buffer[2]
  BY <1>a, <1>b
<1>1. B \in Nat \ {0} /\ Numbers \in Nat /\ Numbers >= 2 * B + 1
  BY SamplingAssumption DEF Numbers
<1>2. PICK n \in 0 .. Numbers - 1 : n = (pushes + 1) % Numbers
  BY NextNumber DEF StagesInv
<1>3. /\ pushes' = n /\ n \in Nat /\ pushes \in 0 .. Numbers - 1
      /\ Back(n, 0) = n
      /\ \A k \in 0 .. Numbers - 2 : Back(n, k + 1) = Back(pushes, k)
  BY <1>1, <1>2, NextNumber DEF StagesInv
<1>4. /\ Older(Newest(pushes, 0, B), Newest(n, 0, B), n, B, imu_buffer'[1].count)
      /\ Older(Newest(pushes, B, B), Newest(n, B, B), Back(n, B), B, imu_buffer'[2].count)
  BY <1>2, <1>3, NewestOlder
<1>7. /\ Ring(two, B, Nat) /\ Holds(two, Newest(pushes, B, B)) /\ Ring(one, B, Nat)
      /\ Holds(one, Newest(pushes, 0, B)) /\ (two.count > 0 => one.count = B)
      /\ DOMAIN Buffer = {1, 2}
  BY <1>0, BufferCurrent DEF Stages
<1>5. /\ imu_buffer' = [stage \in {1, 2} |-> imu_buffer'[stage]]
      /\ imu_buffer'[1] = N!push(one, n)
      /\ imu_buffer'[2] = IF N!is_full(one) THEN N!push(two, oldest) ELSE two
  <2> DEFINE second == IF N!is_full(one) THEN N!push(two, oldest) ELSE two
  <2>1. imu_buffer' = [Buffer EXCEPT ![1] = N!push(one, n), ![2] = second]
    BY <1>0, <1>3 DEF push_to_imu_buffer
  <2>2. DOMAIN Buffer = {1, 2}
    BY <1>7
  <2> HIDE DEF second
  <2>3. imu_buffer'[1] = N!push(one, n) /\ imu_buffer'[2] = second
    BY <2>1, <2>2
  <2>4. imu_buffer' = [stage \in {1, 2} |-> imu_buffer'[stage]]
    BY <2>1, <2>2
  <2> QED
    BY <2>3, <2>4 DEF second
<1>6. /\ Ring(imu_buffer'[1], B, Nat) /\ Advanced(one, B, n, imu_buffer'[1])
      /\ Holds(imu_buffer'[1], Newest(n, 0, B))
  <2>1. imu_buffer'[1] = V!push(one, n) /\ n \in Nat
    BY <1>3, <1>5, SameBuffers
  <2>2. Ring(one, B, Nat) /\ Holds(one, Newest(pushes, 0, B))
    BY <1>7
  <2>3. Ring(imu_buffer'[1], B, Nat) /\ Advanced(one, B, n, imu_buffer'[1])
    BY <1>1, <2>1, <2>2, Pushing
  <2> QED
    BY <1>1, <1>4, <2>1, <2>2, <2>3, Pushed
<1>8. CASE one.count = B
  <2>1. N!is_full(one) /\ oldest = Newest(pushes, 0, B)[B] /\ oldest \in Nat
    BY <1>0, <1>1, <1>7, <1>8, GivesOldest
  <2>2. Newest(pushes, 0, B)[B] = Back(pushes, B - 1)
    BY <1>1 DEF Newest
  <2>3. Back(n, B) = Back(pushes, B - 1)
    <3>1. B - 1 \in 0 .. Numbers - 2 /\ (B - 1) + 1 = B
      BY <1>1
    <3> QED
      BY <1>3, <3>1
  <2>4. oldest = Back(n, B)
    BY <2>1, <2>2, <2>3
  <2>5. imu_buffer'[2] = V!push(two, oldest)
    BY <1>5, <2>1, SameBuffers
  <2> HIDE DEF oldest
  <2>6. Ring(imu_buffer'[2], B, Nat) /\ Holds(imu_buffer'[2], Newest(n, B, B))
    BY <1>1, <1>4, <1>7, <2>1, <2>4, <2>5, Pushing, Pushed
  <2>7. imu_buffer'[1].count = B
    BY <1>6, <1>8 DEF Advanced
  <2> QED
    BY <1>0, <1>3, <1>5, <1>6, <2>6, <2>7 DEF Stages
<1>9. CASE one.count # B
  <2>1. imu_buffer'[2] = two
    BY <1>5, <1>7, <1>9 DEF N!is_full, Ring
  <2>2. two.count = 0
    BY <1>1, <1>7, <1>9 DEF Ring
  <2>3. Holds(two, Newest(n, B, B))
    BY <1>1, <1>7, <2>2, EmptyHolds
  <2> QED
    BY <1>0, <1>3, <1>5, <1>6, <1>7, <2>1, <2>2, <2>3 DEF Stages
<1>10. pushes' \in 0 .. Numbers - 1
  BY <1>3
<1> QED
  BY <1>8, <1>9, <1>10

\* There is no buffer at first.
LEMMA StagesInit ==
  ASSUME Init PROVE StagesInv
<1>1. imu_buffer[1].size = 0
  BY DEF Init, NoBuffer, CreatedBuffer, N!create_buffer
<1>2. pushes \in 0 .. Numbers - 1
  BY SamplingAssumption DEF Init, Numbers
<1>3. /\ rate \in Nat \ {0} /\ stable_windows \in Nat /\ measured_sum \in Nat
      /\ imu_buffer_size \in 1 .. MaxBufferSize
  BY SamplingAssumption DEF Init
<1> QED
  BY <1>1, <1>2, <1>3 DEF StagesInv

\* Only poses go through them; another rate or other glasses change the device's size,
\* and leave the buffer.
LEMMA StagesInductive == StagesInv /\ [Next]_vars => StagesInv'
<1> SUFFICES ASSUME StagesInv, [Next]_vars PROVE StagesInv'
  OBVIOUS
<1>1. ASSUME NEW velocity \in Velocity, Pose(velocity) PROVE StagesInv'
  <2>1. UNCHANGED rateVars
    BY <1>1 DEF Pose
  <2>2. CASE "calibrated" \in mode
    <3>1. pushes' \in 0 .. Numbers - 1 /\ Stages(imu_buffer', imu_buffer_size, pushes')
      BY <1>1, <2>2, StagesPushed DEF Pose
    <3> QED
      BY <2>1, <3>1 DEF StagesInv, rateVars
  <2>3. CASE "calibrated" \notin mode
    BY <1>1, <2>1, <2>3 DEF Pose, StagesInv, rateVars
  <2> QED
    BY <2>2, <2>3
<1>2. ASSUME NEW measured \in Measured, imu_rate_observe_pose(measured) PROVE StagesInv'
  <2>1. UNCHANGED <<imu_buffer, pushes>>
    BY <1>2 DEF imu_rate_observe_pose
  <2>2. stable_windows' \in Nat /\ measured_sum' \in Nat
        /\ (stable_windows' >= 3 => stable_windows' \in Nat \ {0})
    BY <1>2, SamplingAssumption DEF imu_rate_observe_pose, StagesInv
  <2>3. CASE UNCHANGED <<rate, imu_buffer_size, mt_buffer, recent>>
    BY <2>1, <2>2, <2>3 DEF StagesInv
  <2>4. CASE /\ stable_windows' >= 3
             /\ Rounded(stable_windows', measured_sum') >= 1
             /\ apply_rate(Rounded(stable_windows', measured_sum'))
    <3> DEFINE r == Rounded(stable_windows', measured_sum')
    <3>1. r \in Nat \ {0}
      <4>1. r \in Int
        BY <2>2, <2>4, NearestInt DEF Rounded
      <4> QED
        BY <2>4, <4>1
    <3>2. rate' = r /\ imu_buffer_size' = ScaledSize(r) /\ imu_buffer_size' <= MaxBufferSize
      BY <2>4 DEF apply_rate
    <3> HIDE DEF r
    <3>3. Nearest(imu_buffer_size * r, rate) \in Int
      BY <3>1, NearestInt DEF StagesInv
    <3>4. imu_buffer_size' \in 1 .. MaxBufferSize
      BY <3>2, <3>3, SamplingAssumption DEF ScaledSize
    <3> QED
      BY <2>1, <2>2, <3>1, <3>2, <3>4 DEF StagesInv
  <2> QED
    BY <1>2, <2>3, <2>4 DEF imu_rate_observe_pose
<1>3. CASE Stall
  BY <1>3 DEF Stall, StagesInv
<1>4. ASSUME NEW glasses \in Sessions, NewSession(glasses[1], glasses[2]) PROVE StagesInv'
  <2>1. glasses[1] \in Nat \ {0} /\ glasses[2] \in 1 .. MaxBufferSize
    <3>1. CASE glasses \in Rates \X BufferSizes
      BY <3>1, SamplingAssumption
    <3>2. CASE glasses = <<rate, imu_buffer_size>>
      BY <3>2 DEF StagesInv
    <3> QED
      BY <1>4, <3>1, <3>2 DEF Sessions
  <2> QED
    BY <1>4, <2>1 DEF NewSession, StagesInv
<1>5. CASE UNCHANGED vars
  BY <1>5 DEF vars, rateVars, StagesInv
<1> QED
  BY <1>1, <1>2, <1>3, <1>4, <1>5 DEF Next

-----------------------------------------------------------------------------
(* The times between taps.                                                 *)

\* The inductive invariant of a tap's times: the time that the timestamps tell since the
\* last rise is that of the samples since then, or since the session began, and what the
\* clock told when it did.
TimesInv ==
    /\ gap \in Int /\ head \in Int
    /\ tap_age = gap + head /\ tap_age <= MaxTapPeriod + 1
    /\ spread \in 0 .. MaxTapPeriod
    /\ tap_count \in Nat

\* Both times grow alike.
LEMMA SameTime ==
  ASSUME TimesInv
  PROVE  /\ TapElapsed = TrueGap + head /\ TapElapsed <= MaxTapPeriod + 1
         /\ TrueGap \in Int /\ TapElapsed \in Int
<1>1. MaxTapPeriod \in Nat
  BY SamplingAssumption
<1> QED
  BY <1>1 DEF TimesInv, TapElapsed, TrueGap, Up

\* What a pose makes of the times.
LEMMA TimesPose ==
  ASSUME TimesInv, NEW velocity \in Velocity, detect_multi_tap(velocity)
  PROVE  TimesInv'
<1>1. /\ MaxTapPeriod \in Nat
      /\ TapElapsed = TrueGap + head /\ TapElapsed <= MaxTapPeriod + 1
      /\ TrueGap \in Int /\ TapElapsed \in Int
  BY SamplingAssumption, SameTime
<1>2. CASE Fill \/ Expire \/ Fall(velocity) \/ Stop(velocity) \/ Pause(velocity)
  <2>1. tap_age' = TapElapsed /\ gap' = TrueGap /\ head' = head /\ spread' = spread
    BY <1>2 DEF Fill, Expire, Fall, Stop, Pause
  <2>2. tap_count' \in {0, tap_count, tap_count + 1}
    BY <1>2 DEF Fill, Expire, Fall, Stop, Pause
  <2> QED
    BY <1>1, <2>1, <2>2 DEF TimesInv
<1>3. CASE Rise(velocity)
  <2>1. tap_count' = tap_count
    BY <1>3 DEF Rise
  <2>2. CASE ~Detected(velocity)
    BY <1>1, <1>3, <2>1, <2>2 DEF Rise, TimesInv
  <2>3. CASE Detected(velocity)
    <3>1. tap_age' = 0 /\ gap' = 0 /\ head' = 0
          /\ spread' = IF tap_count = 0 THEN 0 ELSE Longer(spread, TrueGap + head)
      BY <1>3, <2>3 DEF Rise
    <3>2. tap_count # 0 => TapElapsed <= MaxTapPeriod
      BY <1>1, <1>3 DEF Rise, Expired, TimesInv
    <3>3. spread' \in 0 .. MaxTapPeriod
      BY <1>1, <3>1, <3>2 DEF Longer, TimesInv
    <3> QED
      BY <1>1, <2>1, <3>1, <3>3 DEF TimesInv
  <2> QED
    BY <2>2, <2>3
<1> QED
  BY <1>2, <1>3 DEF detect_multi_tap

\* A session begins as far from the last rise as its timestamps say.
LEMMA TimesInductive ==
  ASSUME TimesInv, [Next]_vars PROVE TimesInv'
<1>1. ASSUME NEW velocity \in Velocity, Pose(velocity) PROVE TimesInv'
  <2>1. CASE "multi_tap" \in mode
    BY <1>1, <2>1, TimesPose DEF Pose
  <2>2. CASE "multi_tap" \notin mode
    BY <1>1, <2>2 DEF Pose, tapVars, TimesInv
  <2> QED
    BY <2>1, <2>2
<1>2. ASSUME NEW r, NEW size, NewSession(r, size) PROVE TimesInv'
  <2>1. PICK rise \in ClockStarts : tap_age' = rise /\ gap' = 0 /\ head' = rise
    BY <1>2 DEF NewSession
  <2>2. rise \in Int /\ rise <= MaxTapPeriod + 1
    BY SamplingAssumption DEF ClockStarts
  <2>3. spread' = spread /\ tap_count' = tap_count
    BY <1>2 DEF NewSession
  <2> QED
    BY <2>1, <2>2, <2>3 DEF TimesInv
<1>3. CASE UNCHANGED tapVars
  BY <1>3 DEF tapVars, TimesInv
<1> QED
  BY <1>1, <1>2, <1>3 DEF Next, imu_rate_observe_pose, Stall, vars

\* No tap was counted at the start.
LEMMA TimesInit ==
  ASSUME Init PROVE TimesInv
BY SamplingAssumption DEF Init, TimesInv

-----------------------------------------------------------------------------
(* What holds of every behaviour.                                          *)

\* The tap detector's buffer holds the last velocities, if poses come fast enough for
\* one to fit into it.
THEOREM VelocitiesInvariance == ASSUME FastEnough PROVE Spec => []VelocitiesInv
<1>1. Init => VelocitiesInv
  BY VelocitiesInit
<1>2. VelocitiesInv /\ [Next]_vars => VelocitiesInv'
  BY VelocitiesInductive
<1> QED
  BY <1>1, <1>2, PTL DEF Spec

\* And so what it gives back is the velocity of as many samples ago as it is long.
THEOREM PopsOldest == ASSUME FastEnough PROVE Spec => []OldestPopped
<1>1. VelocitiesInv => OldestPopped
  <2> SUFFICES ASSUME VelocitiesInv, V!is_full(mt_buffer)
               PROVE  mt_buffer.size > 0 /\ V!Popped(mt_buffer) = recent[mt_buffer.size]
    BY DEF OldestPopped
  <2>1. PICK size \in Nat \ {0} : size = TapBufferSize(rate)
    BY SizeAt40 DEF VelocitiesInv
  <2>2. /\ Ring(mt_buffer, size, Velocity) /\ Holds(mt_buffer, recent)
        /\ mt_buffer.size = size /\ mt_buffer.count = size
    BY <2>1 DEF VelocitiesInv, Ring, V!is_full
  <2>3. V!Popped(mt_buffer) = recent[size]
    BY <2>1, <2>2, GivesOldest
  <2> QED
    BY <2>1, <2>2, <2>3
<1> QED
  BY <1>1, VelocitiesInvariance, PTL

\* The stages hold the numbers of the last poses, whatever becomes of the size.
THEOREM StagesInvariance == Spec => []StagesInv
BY StagesInit, StagesInductive, PTL DEF Spec

\* And so the three poses that a shader gets are a whole buffer of the current size apart.
THEOREM PosesApart == Spec => []PosesEquidistant
<1>1. StagesInv => PosesEquidistant
  <2> DEFINE n == (pushes + 1) % Numbers
  <2> SUFFICES ASSUME StagesInv, Ready
               PROVE  Data(n) = <<n, (n + Numbers - imu_buffer_size) % Numbers,
                                     (n + Numbers - 2 * imu_buffer_size) % Numbers>>
    BY DEF PosesEquidistant
  <2>0. PICK B \in 1 .. MaxBufferSize : B = imu_buffer_size
    BY DEF StagesInv
  <2>1. B \in Nat \ {0} /\ Numbers \in Nat /\ Numbers >= 2 * B + 1 /\ pushes \in 0 .. Numbers - 1
    BY SamplingAssumption DEF Numbers, StagesInv
  <2>2. /\ n \in 0 .. Numbers - 1
        /\ \A k \in 0 .. Numbers - 2 : Back(n, k + 1) = Back(pushes, k)
    BY <2>1, NextNumber
  <2> HIDE DEF n
  <2>3. /\ (n + Numbers - B) % Numbers = Back(n, B)
        /\ (n + Numbers - 2 * B) % Numbers = Back(n, 2 * B)
    BY <2>1, <2>2, NumberBack
  <2>4. /\ Ring(Buffer[1], B, Nat) /\ Holds(Buffer[1], Newest(pushes, 0, B))
        /\ Ring(Buffer[2], B, Nat) /\ Holds(Buffer[2], Newest(pushes, B, B))
        /\ Buffer[1].count = B /\ Buffer[2].count = B
    BY <2>0, BufferCurrent DEF Stages, Ready, N!is_full, Ring
  <2>5. /\ N!Popped(Buffer[1]) = Newest(pushes, 0, B)[B]
        /\ N!Popped(Buffer[2]) = Newest(pushes, B, B)[B]
    BY <2>1, <2>4, GivesOldest
  <2>6. /\ Newest(pushes, 0, B)[B] = Back(pushes, B - 1)
        /\ Newest(pushes, B, B)[B] = Back(pushes, 2 * B - 1)
    BY <2>1 DEF Newest
  <2>7. /\ B - 1 \in 0 .. Numbers - 2 /\ (B - 1) + 1 = B
        /\ 2 * B - 1 \in 0 .. Numbers - 2 /\ (2 * B - 1) + 1 = 2 * B
    BY <2>1
  <2>8. /\ Back(n, B) = Back(pushes, B - 1)
        /\ Back(n, 2 * B) = Back(pushes, 2 * B - 1)
    BY <2>2, <2>7
  <2> QED
    BY <2>0, <2>3, <2>5, <2>6, <2>8 DEF Data
<1> QED
  BY <1>1, StagesInvariance, PTL

\* A multi-tap that is reported has its rises close together, wherever the clocks of the
\* sessions begin.
THEOREM TapsCloseTogether == Spec => TapsClose
<1>1. Init => TimesInv
  BY TimesInit
<1>2. TimesInv /\ [Next]_vars => TimesInv'
  BY TimesInductive
<1>3. TimesInv => spread <= MaxTapPeriod
  BY SamplingAssumption DEF TimesInv
<1> QED
  BY <1>1, <1>2, <1>3, PTL DEF Spec, TapsClose

=============================================================================
