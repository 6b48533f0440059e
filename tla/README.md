# XRLinuxDriver in TLA+

XRLinuxDriver is a user-space driver for XR glasses. It watches the USB bus,
talks to the glasses through the vendors' SDKs, turns their IMU data into mouse,
joystick or shared-memory output, and lets plugins change the pose on the way.
Poses are arithmetic. What is hard to get right, and hard to test, is the rest:
eight or more threads share one reference-counted device, a pool of connections,
a handful of unprotected flags and a configuration that can change at any time.
These modules model that part, TLC checks it on small instances, and TLAPS
proves what matters most about its core for every instance.

`PROJECT.json` is the index: for each component its modules, for each definition
the source lines it models, for each property a mutation of the code that breaks
it, and for each hazard the properties that watch it.

## 1. Inventory of the system

### Components

| Component | Source | State it keeps | Operations |
|---|---|---|---|
| Runtime device | `runtime_context.c` | `device`, `queued_device`, `device_ref_count`, one mutex | `set_device_and_checkout`, `device_checkout`, `device_checkin`, `device_present` |
| Connection pool | `connection_pool.c` | the list of connections, primary and supplemental index, per connection `active`, `thread_running` and a thread; the supplemental reference poses | add and remove a connection, connect, block, disconnect, ingest a pose |
| Hotplug | `devices.c` | libusb callbacks | `hotplug_callback` probes the drivers' id tables and reports arrivals and departures |
| Driver threads | `driver.c` | `block_on_device_ready`, `primary_device_ref`, `force_quit`, calibration state, IPC pointers | hotplug handler, block_on_device thread, `manage_state`, control-flag and config monitors |
| Device drivers | `devices/*.c` | SDK handles, `connected`, soft connections, per-driver mutexes | probe, connect, block, disconnect, SBS mode |
| OpenTrack listener | `plugins/opentrack_listener.c` | socket, `connected`, `listener_running`, `ot_cfg`, the feedback guard | a UDP stream that behaves like a device |
| Pose handling | `driver.c`, `connection_pool.c`, `imu.c` | calibration start and type, reference pose, captured-reference flags | `driver_handle_pose`, `driver_reference_pose`, `reset_calibration` |
| IMU buffers | `buffer.c`, `imu_rate.c`, `multitap.c` | ring buffers, the observed rate, the tap state machine | push, rate, tap detection |
| Outputs | `outputs.c` | the uinput device, the IMU health time stamps | init, deinit, reinit, `handle_imu_update`, `is_imu_alive` |
| Configuration, state, control flags | `config.c`, `state.c`, `files.c` | `config()`, `state()`, the flag file | parse, update, write |
| Licensing | `plugins/device_license.c` and `features/*.c` | the license file, caches of feature checks | refresh, read, invalidate |
| Gamescope | `plugins/gamescope_reshade_wayland.c` | the Wayland connection, effect requests | connect, set, clean up |
| Smooth follow | `plugins/smooth_follow.c` | the follow state and its origin pose | pose modification |
| Breezy desktop | `plugins/breezy_desktop.c` | the shared memory file, its descriptor and mutex, `bd_config` | write the configuration section, write a pose, open again |
| SBS mode | `driver.c`, `state.c`, `devices/*.c` | the requested mode, what each driver knows of it, the mode in the state file | request, send, look, report |
| Virtual display, sideview | `plugins/*.c` | the effect's variables | set them |
| Other plugins, IPC, helpers | `plugins/*.c`, `ipc.c`, `strings.c`, ... | little or none | stateless transformations and I/O |

### How they interact

* The **usb thread** (and the OpenTrack listener) reports a device:
  `hotplug_callback` → `handle_device_connection_changed` → the pool adds or
  removes a connection and selects its primary again → the old runtime device is
  checked in, the new one is set → `evaluate_block_on_device_ready` runs as a
  callback and wakes the **block_on_device thread**.
* That thread loops: wait until ready; connect what the pool selected;
  initialise outputs; `connection_pool_block_on_active`, which starts a
  **thread per connection** and joins the primary's; disconnect; again.
* A connection's thread runs the driver's block loop: it holds a device
  reference and polls (or waits on a condition variable) until the driver is no
  longer connected. Whoever wants to end a session calls `disconnect_func`.
* **SDK threads** deliver poses into `connection_pool_ingest_pose` and
  `driver_handle_pose`, each of which checks the device out and in.
* The **config thread** enables, disables and restarts; the **control-flag
  thread** recentres, recalibrates and quits; **manage_state** reads health and
  writes the state file. All of them read fields that other threads write.

### What is hard about it

* Reference counting across threads, with a device queued behind one that is
  still held, and the same glasses plugged in again as a new object.
* Pointers to connections that are used after the pool's mutex was released
  while a removal frees them.
* Requests (disable, quit, unplug, stop) that act once, on what is there at that
  moment, and a connection that is made a moment later.
* Flags that one thread clears after another has set them.
* A UDP stream that comes back before the threads have noticed that it went.
* Calibration, tap detection and health time stamps that are tested and used
  without a lock while another thread resets them.
* Answers, poses and input devices that are chosen before another thread
  replaces what they were chosen from, and stored or made after it.
* Glasses that leave during the probe, the connect or the session that three
  threads of a vendor's driver run on them.

### What makes each component correct

| Component | Correct when |
|---|---|
| Runtime device | the count is the number of holders; nobody has a freed pointer; a device is replaced only when nobody holds it; a queued device gets its turn |
| Connection pool | primary and supplemental are a consistent selection of what is plugged in; at most one thread per connection; blocking ends when, and only when, the primary's thread ended; glasses in use are not replaced by others |
| Driver threads | references stay exact through the handler's steps; readiness is never stale; plugged-in glasses are served; disabling and quitting take effect |
| OpenTrack listener | the thread and socket are gone when it was switched off; switching does not block; a silent stream is disconnected; nothing stays registered without a listener |
| Pose handling | a reference pose and a calibration belong to the current session; supplemental data is mixed only while its connection is ready |
| IMU buffers | the ring buffers equal a reference queue; taps are counted within their window; sizes never reach zero |
| Device drivers | a session ends when its glasses leave or the driver is disabled; what the SDK opened for glasses that are gone is closed; the display is as it was before |
| Outputs | the virtual input device is the one of the configured mode in a session, and none otherwise |
| Licensing | nothing is granted without a genuine license; a license that was there is not lost; a cached answer is never older than the last refresh |
| Gamescope | no other plugin believes in a connection that is gone; an effect that does not become ready is given up |
| Breezy desktop | the shared memory says whether the desktop is to be shown |
| SBS mode | the state file says what the glasses show; a request reaches them |
| Smooth follow | the screen returns to where the user centered it, and it does return |

## 2. Modules

```
DeviceLease <------- DeviceContext <----- DeviceContextProofs
 (abstract)  refines      |                        |
                          | INSTANCE               | INSTANCE
                          v                        v
                       XRDriver <---------- XRDriverProofs
                          ^     (the driver's threads)
                          | INSTANCE               ^ INSTANCE
                          |                        |
                    ConnectionPool <----- ConnectionPoolProofs

BreezyDesktop, SideBySide
                          |
                          +---> Interfaces         (what other programs see)

DeviceHost <- XrealSession, RayneoSession, RokidSession, VitureSession
                          |                        (the driver that is at work)
                          +---> DeviceSessions <-- DeviceSessionsProofs

RingBuffer -> ImuSampling <-- ImuSamplingProofs
              PoseHandling <-- PoseHandlingProofs  (what happens to a pose)

License <-- LicenseProofs                          (what is granted)

FeatureCache, Gamescope, SmoothFollow, Outputs, OpenTrackListener
                          |
                          +---> Services <-- ServicesProofs
                                                   (the part that is called)
```

**DeviceLease** is what `runtime_context.h` promises without counts or heap
objects: a device, an announced successor, and a set of holders.

**DeviceContext** is `runtime_context.c`. Every call is one step, because each
of its functions holds the mutex throughout. A `Borrower` is a checkout scope
(checkout, use, checkin of the same pointer, NULL included); the hotplug
handler holds `primary_device_ref`. `Device` are heap objects, `ModelOf` their
USB ids: the code compares devices by id (`device_equal`), so two objects can be
"equal" while only one of them is installed. `allocated` is the heap.

**ConnectionPool** is `connection_pool.c` with the hotplug entry points of
`devices.c`. The functions that keep the mutex are single steps; `connect_active`
and `block_on_active` are one step per unlocked stretch, with the captured
pointers `p` and `s` in `blocker`. A connection is named by its device.
`handle_device_removed` frees it at once, so a captured pointer may dangle:
`dangling` records every access to a freed connection, and what such an access
reads is chosen freely. Drivers appear by their contract: `connect` may fail,
`connected` may be lost at any time, the rokid and rayneo probes connect by
themselves, and OpenTrack packets set `connected` again.

**XRDriver** instantiates both and adds `driver.c`: each step of
`handle_device_connection_changed` (between which other threads run), the
callback `evaluate_block_on_device_ready` as a step of its own after the mutex
was released (`evaluating`), the block_on_device thread's loop, disabling,
quitting, and the borrowing of the device by connection threads and by
`manage_state`. A connection's thread checks out at the same step at which it
begins to block.

**OpenTrackListener** is `opentrack_listener.c`: the listener's receive loop and
the config thread's start/stop path, both of which run
`listener_device_disconnect`, with the block_on_device thread's connect and
disconnect as an environment. While `ot_cfg` is freed and not yet replaced, a
read of `ot_cfg->enabled` returns anything. `opentrack_start_func` sees the
*old* value of `disabled`, as in the code, where the plugins' configuration is
set before the driver's; it runs a second time if the driver is enabled again.
The pool is reduced to whether it has OpenTrack's connection.

**BreezyDesktop** is `breezy_desktop.c`: a thread of poses, the block_on_device
thread and the config thread, each in `write_config_data` or
`breezy_desktop_write_pose_data`. A call takes `file_mutex`, moves the offset that
they share, reads what it is to write, writes, and gives the mutex back. The
plugin's start makes the mutex anew when the driver is enabled again, so a thread
may move the offset between another's seek and its write; `bd_config` is "freed"
between `free` and the assignment, and a read of it then returns anything. A new
configuration is followed by a reset pose while the glasses are calibrating. The
file is reduced to the enabled byte, which is "garbled" when a pose is written
over it. A failing write takes the error path, which keeps the device.

**SideBySide** is the display mode from the control flags to the glasses and from
the glasses to the state file: the control-flag thread, the drivers' ways to set
and to learn the mode, and the button of the glasses. xreal keeps a `disp_mode`
that is both what was asked for and what was seen, so its request has three steps
(the mode, the flag, the sending); the other drivers' calls are one step under
the mutex of the pool. Of xreal's mapping there are the pairs of 60 and 90 Hz and
the two irregular entries.

**Interfaces** has these two side by side: what other programs see of the
driver, over shared memory and the state file. They share no variable, so a
behaviour is that of one of them.

**DeviceHost** is what a vendor's driver sees of the rest: the bus and its
hotplug events, the connection of the pool (`entry`), the runtime device, the
block_on_device thread's session, disabling, and the health of the IMU
(`outputs.c`). Each is modelled in full by another module and cut down here.
The four session modules extend it with `devices/xreal.c`, `rayneo.c`, `rokid.c`
and `viture.c`: their static variables, the probe, the connect, the threads of a
session and the disconnect, at the grain of the vendor's mutex. xreal and rokid
have none, so every access to a shared flag is a step: `connected &= ...` of
xreal is a read, a wait of up to a second and a write. A read of glasses that
were unplugged fails; the xreal connect that uses a NULL device crashes the
process, and systemd starts it again (`Restart`). The display of VITURE glasses
outlives the process. **DeviceSessions** chooses one of the drivers to begin
with. What two drivers both call `connected` is one variable there.

**PoseHandling** is the way of a pose through `connection_pool_ingest_pose`,
`driver_handle_pose`, `driver_reference_pose` and `reset_calibration`, one step
per global that is read or written. The SDKs that call back from their connect on
(`callbacks`) deliver poses before and after a session. A quaternion is
abstracted to what it was derived from (`origin`), so that it can be told
whether a conjugate is that of the present reference, and whether the
supplemental's orientation was captured since that reference was set. What the
pool and the hotplug handler do to it is there, too: a stream that becomes the
supplemental starts with an empty `last_supplemental_pose`, any device that is
added makes the driver center the screen anew (`driver.c:632`, a step of its own
after the pool's mutex was released), and a removal makes the supplemental's
position not ready. The supplemental is always the OpenTrack stream, the only one
whose driver sets `can_be_supplemental`. Where a global is read twice without a
lock, the second read may be merged with the first, as a compiler may.

**RingBuffer** is the buffer of `buffer.c` as operators on a record.
**ImuSampling** is `imu_rate.c`, `multitap.c` and the two-stage IMU buffer on top
of it. Velocities are three levels, times are counted in samples up to what
they are compared with, and the measured rates are a constant. Of the windows
that were measured there are their number and their sum, which the mean and its
rounding need. A rate that is applied scales the size of the IMU buffer, from the
size in use and rounded to the nearest (`Nearest` is `lroundf`), and the next pose
finds that its buffer has another size and makes it anew. A pose's number stands
for its quaternion. The IMU buffer outlives the session, and the tap detector its
state; the clock of the next session may begin anywhere before or after it.

**License** is `refresh_license` for several threads at once: the loop with its
attempts, the temporary file, the renaming, the parse, and the lock that is held
twice. A license is the features it lists and whether its signature is genuine.
The server, the network, the clock and a purchase are the environment.
**FeatureCache** begins where the second critical section does: the
set is freed and replaced, the atomics of `features/*.c` are reset one after
another, and any thread looks and stores without a lock in between. A look at
the freed set returns anything.

**Gamescope** is the plugin that talks to gamescope: three threads call it with
`wayland_mutex` held, and a call is one step but for
`do_trigger_plugins_ipc_change`, which gives the mutex back while `sideview` and
`virtual_display` look at the connection. **SmoothFollow** is the follow state
machine with its configuration, the origin pose and the snap-back. Angles are
yaws in the order of the code's thresholds; the interpolation moves by one, or
ends, within `return_to_angle`. **Outputs** is the life of the uinput device
between the session and `reinit_outputs`, with the shared `disabled` flag that
the same two threads write. **Services** has these four and the OpenTrack
listener side by side: they share no variable but the configuration, so a
behaviour is that of one part.

The `*Proofs` modules extend the module whose theorems they prove (section 5).

The `MC*` modules only supply constants. Operators marked *Mutant* are the
mutations of `PROJECT.json`; no action of a specification uses them.

## 3. Runs

| Run | Question | States |
|---|---|---|
| `device_context` | Is the count exact, is memory safe, does a queued device take over, is DeviceLease implemented? | 2 096 |
| `connection_pool` | Do selection, threads and the end of a session agree, whatever comes and goes at any step? | 294 048 |
| `driver_safety` | Do references, memory and readiness survive the composition, with disabling and quitting? | 1 984 895 |
| `driver_service` | Are glasses that stay plugged in always served? | 415 337 |
| `interfaces` | Does the shared memory say that the desktop is shown, and the state file which mode is? | 204 186 |
| `devices` | Do sessions end and release what they opened, whenever the glasses come and go? | 268 447 |
| `pose` | Does the calibration belong to its session, does what is derived from the reference pose stay with it, are requests served? | 1 021 260 |
| `sampling` | Are buffered values the right ones while rates and sizes change, are taps close together? | 4 052 256 |
| `license` | Is only granted what was issued, is a genuine license kept, does a refresh end? | 178 504 |
| `services` | Are caches fresh, is gamescope's absence told, is the screen's home kept, is the input device right? Does the listener stop, does stopping return, does a silent stream end? | 319 699 |

and two, `pool_freed` and `driver_replug`, that show where the code does not do
what it says (section 6).

Some further configurations are run by hand, `tlc -config X.cfg M`. Those that
hold check a part of Services by itself, with its type invariant and the
properties that are weaker than the ones of the runs: `gamescope.cfg` (17 080
states; `DeadNoticed`, `Reconnects`) and `smooth_follow.cfg` (160 202 states;
`CatchesUp`, with a `Delay` of a second). Those that end in a counterexample are
in section 6.

### Bounds, and why they are enough

* `device_context`: two models with two objects each, three borrowers. Queueing
  needs two models; a replug needs two objects of one; with three borrowers and
  the handler, scopes begin and end while others are open on either side of a
  hand-over.
* `connection_pool`: two glasses of different drivers (one of which connects in
  its probe) and two successive OpenTrack streams, so that there can be a
  primary, a supplemental and a third connection, and each can be removed and
  come back while a thread still uses the old one. A new object's memory is
  never one that a thread still uses (`~InUse`).
* `driver_*`: the objects and handler are listed in each cfg. `SlowReplug = TRUE`
  says that a model is plugged in again only after its last object was released;
  `driver_service` needs it and `driver_replug` shows why. `driver_safety` lets
  the user disable and quit; `driver_service` only disable. Arrivals after
  `force_quit` are left out (bound named in `Arrive`), departures are not.
* `interfaces`: one model of each vendor for the display mode. `Leftovers`: an earlier driver left no shared memory
  file, or one that says "off". Writes to the shared memory do not fail
  (`WritesFail = FALSE`): section 6 has those that do.
* `devices`: `MaxEvents = 2` hotplug events that the usb thread has not handled,
  so that glasses can be gone, or gone and back, before their last event is
  seen. Two models of xreal (HID and serial) and of viture (with native DoF, and
  Carina), which take different paths; one of the others. A driver has one
  glasses plugged in at a time.
* `pose`: `Wait = 1` second of calibration; longer waits add states in which
  nothing else can happen. Seconds are counted to one beyond the wait. Whether the
  SDK calls back (`callbacks`) is chosen once, as in a driver. The supplemental's
  thread reads `captured_reference_pose` and `reference_pose_updated` in one step;
  a stream becomes the supplemental between two of its poses, since its own thread
  reports it, or a removal on another thread comes between them.
* `sampling`: two declared rates, one of which fills the tap buffer with one
  sample and the other with two; measured ones within and beyond the tenth that
  the code tolerates. Either rate may come with either of `BufferSizes`, so that
  scaling grows a buffer, shrinks it or leaves its size alone; `MaxBufferSize = 3`
  bounds what it grows to. `ClocksBehind`: the next session's clock begins when the
  last sequence of taps is over, or ten samples before, which is before any tap of it.
  `Modes`: taps and the IMU buffer are looked at separately, as they share nothing
  but the rate (`imu_calibrated` and `multi_tap_enabled` are independent, and neither
  reads what the other writes). `MaxTaps = 3` (one beyond the double tap) ends the
  counting, not the behaviour; `MaxWindows = 3` is the code's number of steady
  windows. The run leaves out slow sources, which break `OldestPopped`: section 6.
* `license`: two refreshers, as each can be ahead of the other; two features, so
  that a license can list a part of them; the code's own number of attempts.
* `services`: two readers of two features whose combined answer is cached;
  `MaxYaw = 6` reaches beyond the widest threshold on both sides of the start;
  `Delay = 0`, so that a second is past it (`smooth_follow.cfg` has one second, and
  `HomeKept` is proved for any). Gamescope, Outputs and the listener have no
  parameters: their state spaces are finite, so the run is exhaustive. The
  listener's end (`Exit`) merges clearing `listener_running` with the return that
  follows it.

The safety properties of all these runs are also proved, for every value of the
constants but for the assumptions named in section 5: what the bounds leave out
matters to the liveness properties alone.

`raced` and `origin` in some modules, and `issued`, `home`, `chosen`, `recent`,
`gap`, `head` and `spread`, are history variables: no guard reads them.

Deadlock is checked in every run.

## 4. What the properties say

*DeviceContext.* `RefCountExact`: the count is the number of outstanding
references. `NoUseAfterFree`: every pointer held is allocated and all borrowers
have the installed object. `PrimaryTracked`: the handler's object is the queued
one or of the installed model. `LeaseSpec`: refinement of DeviceLease, with
`holders` mapped to the set of borrowers that got a device, and of the handler.
`QueuedTakesOver`: a queued device does not wait for ever.

*ConnectionPool.* `SelectionConsistent`, and the proved `HidUnique`: the indexes
select a primary and another connection that may be supplemental, and a model is
there once. `RunningFlagExact`: the flag that guards `pthread_create` and
`pthread_join` says whether a thread is there. `PoolMirrorsBus`: only plugged
devices are in the pool. `BlockingEndsWithThreads`, `RemovalUnblocks`:
`block_on_active` returns after the threads it waited for, and it does return
when the primary is unplugged. `GlassesPrimaryStable`: others do not replace
primary glasses. What does *not* hold, and is not claimed: glasses that come
after an OpenTrack stream do not become primary although they cannot be
supplemental, because a primary that exists is kept.

*XRDriver.* `ReferencesCounted` and `DevicesAllocated` lift the context's
properties to the composition, and add that the connections' devices live;
`ReadySettled`: when nothing is in progress, `block_on_device_ready` is what its
conditions are; `PrimaryServed`: a primary that stays gets at least an attempt
to connect.

*OpenTrackListener.* `StopsListening`: once a configuration that disables the
listener was applied, thread and socket are gone. `ConfigReturns`: the join does
not block the config thread. `SilentStreamEnds`: a stream that went silent is
disconnected.

*BreezyDesktop.* `SwitchShown`: during a session, a desktop that is enabled is
shown, although the session begins while an older configuration is read, a freed
one is, or two threads write at one offset: the poses write the section again every
250 ms. Switching it off has no such repetition (poses end with it), and may be
lost: section 6.

*SideBySide.* `ModeReported`: when the glasses keep a mode, the state file comes to
say it, although drivers record what they were asked for as if it were there. The
request itself may be lost: section 6.

*DeviceSessions.* `RemovedSessionEnds` and `DisabledSessionEnds`: a session ends
when its glasses left the pool, or the driver was disabled, although the request
may be lost to a `connected &= ...` or a connect that was under way. (Rokid's
session does not look at the IMU's health and may go on when it was disabled.)
`UnplugReleases`: when all is quiet and the glasses are gone, the SDK of rayneo
and viture holds nothing of them. (xreal may keep a handle: section 6.)
`DisplayRestored`: between sessions VITURE glasses show what the user chose.

*PoseHandling.* `CalibrationWaits`: calibration and centering of a session are
not done before the wait is over, where the connection's own thread delivers the
poses; `CalibrationEnds`: but they are done. `ReferenceSettled`, in every order of
the threads' steps: between poses the conjugate is that of the reference pose; the
supplemental's orientation was captured since the reference was set and since the
stream came, or the flag says that it will be; a position that is ready was turned;
and nothing of a removed supplemental is mixed in. The property names what it
excepts, as "lost": a flag that was set after the supplemental's thread had read it
and is cleared by it; one that is cleared between `|=` and the test that follows
(`driver.c:150-151`); and a reference that a pose captured while the calibration was
being reset, of which nobody is told. `SupplementalCurrent` and `ConjugateCurrent` are
the property without these exceptions, and do not hold: section 6. While the
supplemental's thread is between clearing the flag and storing its pose, the position
is already ready and the pose not yet turned; the primary may use that one frame,
which the property, stated between poses, does not count.
`RecenterServed`: a request to center is served while the session lasts.

*ImuSampling.* `OldestPopped`: a full buffer returns the value of as many samples
ago as it is long, also after it was made anew for another rate.
`PosesEquidistant`: the three poses that a shader interpolates are the device's
present buffer size apart, counted in the poses that were shown, also after the rate,
and with it the size, changed while poses were buffered. `TapsClose`: no tap that is
reported in a multi-tap rose later than the longest period after the one before it.
Where a session began in between, its samples count, and so does what its clock said
then: a clock that begins before the last tap gives the next as much longer. That the
taps are of one session is `OneSession`, and does not hold: section 6.

*License.* `GrantsIssued`: nothing is granted that no genuine license granted.
`GenuineFileKept`: a genuine license file is only replaced by another.
`RefreshEnds`: every path gives the lock back.

*Services.* `FreshUnlessRaced`: unless a reader was at work together with a
publisher, a cached answer, the combined one included, is the published one.
`ToldUnlessRaced`: no other plugin and no state file is left with a connection to
gamescope that is gone, unless one thread broke it while another told them.
`FallsBack`: an effect that does not become ready is given up. `HomeKept`:
through following, snap-backs, recentering, calibration and sessions the screen's
home is the reference pose, or is kept in `origin_pose`. `SnapsBack`: a screen
that is to return does. `OutputsMatch`: the input device is that of the configured
mode in a session, and there is none between sessions, unless a
`reinit_outputs` ran outside of the session.

### Fairness

Each thread that can run does (weak fairness on its steps): they are scheduled by
the kernel, hold the mutexes only for bounded stretches, and their waits end by
timeouts of at most a second or by a condition that is signalled. A scope that
checked the device out ends, since it is a stretch of code without a wait, or a
block loop that ends with its connection. `select` returns within 500 ms, so the
listener is not kept for ever by interrupted calls (strong fairness on `Timeout`,
which a signal can postpone). In addition:

* `devices`: glasses that are plugged in answer the question for their name, and a
  second without a pose passes (`Quiets`) when nothing streams. An SDK that
  streams may do so for ever.
* `pose`, `services`, `interfaces`: poses keep coming while the driver is connected, and time
  passes.
* `interfaces`: glasses answer a driver that asks for their display mode, and those
  of rayneo tell it (`rayneo.c:302` waits for that); those of viture need not, as
  the driver's comment has it. `file_mutex` is not held for ever.
* `license`: `curl` gives up after its 15 s. The two refreshers compete for one
  mutex, whose waiters are each served some time (strong fairness on `Lock`).
* `services`: `manage_state` calls the plugins every second. A step of the
  interpolation that only creeps (`Creeps`) is not assumed to arrive: the time
  limit of the snap-back has to do it.

Nothing is assumed of the user, the bus, the glasses, the stream, the server or
gamescope: they may act at any time or never.

## 5. Proofs

Every safety invariant and every safety action property that a run checks is also
a theorem, for every value of the constants (with the assumptions below). Each
module of proofs has the same layout: the inductive invariant with what its parts
are for, a lemma per action or group of actions, and the theorems at the end.
TLC was run with the inductive invariants, too, on the instances of the runs.

`DeviceContextProofs` proves, for any devices, models and finite set of
borrowers, `TypeOK`, `RefCountExact`, `NoUseAfterFree`, `PrimaryTracked` and the
refinement `Spec => Lease!Spec`. The inductive invariant is the conjunction of
the four. None is inductive alone: the count stays exact only if borrowers hold
the installed object, which only holds if the last checkin is really the last;
and a hand-over leaves the count at 1 only because the queued object is the
handler's. The counting steps follow from two facts about finite sets, that
adding a holder adds one to the cardinality and that a count of 1 means a single
holder.

`ConnectionPoolProofs` proves, for any devices, models, drivers and number of
connections, `TypeOK`, `SelectionConsistent`, `HidUnique`, `RunningFlagExact`,
`BlockingEndsWithThreads` and `GlassesPrimaryStable`. `IInv` is

    TypeOK /\ Selects(list, primary_index, supplemental_index) /\ Session

`Selects` states the selection of a list by itself, so that adding and removing
are lemmas about lists (`AddedSelects`, `RemovedSelects`): in particular the
primary is the first of the glasses whenever it is glasses. `Session` has
the flag's exactness and two strengthenings. `GlassesInSession`: a thread of
glasses in the pool belongs to the session that block_on_active is waiting for,
which is what makes clearing the flag at the end right. `PrimaryEnded`: a
supplemental device that is the session's primary is the first of the list, so
that it is not selected as a supplemental, and started again, while
`block_on_active` is about to clear its flag. `PoolMirrorsBus` is proved under
the assumption that a driver serves one model; the configuration `pool_same_driver.cfg` shows
that the assumption is needed.

`XRDriverProofs` is about the composition and uses the components' proofs through
instances of their modules: what a call does to the context (`SetCounted`,
`ReleaseCounted`, `CheckoutCounted`, `ReturnCounted`) and to the selection
(`AddedSelects`, `RemovedSelects`, `GlassesKept`) is not proved again. What the
composition adds is `Handling`: outside of an event the handler's reference is the
pool's primary, and within one the handler works towards the primary that it read.
From it follow the count, in the composition (`ReferencesExact`), and `Living`: the
handler's reference is the only one that may be the last on a connection's object,
and it is given up only for a connection that is no longer there (`DevicesLive`).
`ReadinessCurrent` needs `Distinct`, that no connection is another object of the
model that is held, so that an install always calls back. Three hypotheses are
named in the theorems. Each is needed, and a configuration of section 6 shows what
happens without it:

* `OneHandler`: one thread reports devices. `handle_device_connection_changed` has
  no lock; the usb thread is alone in it unless OpenTrack is listened to.
* `GlassesOnly`: no device is an OpenTrack stream.
* `SlowReplug`: a model comes back after its last object was released.

`DeviceSessionsProofs` proves type correctness of the four drivers, `SdkReleased`
and `DisplayKept` for any models of each vendor. `Bus` relates what waits to what
is there: the events are about one model, and the last of them says whether it is
plugged in. So `Awaited` (the pool knows the glasses, or the hotplug thread has yet
to hear of them) holds whenever something is open: for rayneo, `hard_connected`;
for viture, a provider outside of the cleanup of a failed connect. When all is quiet and nothing
is plugged in, nothing is awaited, and so nothing is open. For the display,
`Restorable`: what VITURE glasses show, or what is saved if it was overridden, is
what the user chose, and overridden glasses are connected and can be written to.
The invariant of xreal, `Threads`, says that a thread of the IMU runs in a session
only, and that it has an IMU.

`PoseHandlingProofs`: `OwnThread` says that what `reset_calibration` has reset so
far stays so, as no pose is handled before it is over, so that the time that the
calibration counts began after it. `ReferenceInv` has three parts, none of which asks
how the threads' ways met. `Conjugated`: a conjugate that is not that of the reference
is made by the pose that changed it, which sets the flag, or has set it and finds it.
`Aligned`: if the supplemental's orientation is older than the captured reference, the
capture is `Pending`: the flag says it, or the handler is going to set it, or the
supplemental's thread has read it, or the handler of a new stream is going to forget
the reference. `Oriented`: a position that is ready is turned, or not yet stored.

`ImuSamplingProofs`: `Age` is how many pushes ago a slot of a ring was written, and
`Holds` that the slots are the newest values by age; `Pushing` and its companions
are the lemmas on `buffer.c` from which both `OldestPopped` and `PosesEquidistant`
follow, the second with the first stage feeding the second. `PopsOldest` assumes
that sources are not slower than 40 Hz (`FastEnough`), which makes every tap buffer
at least one long; the mean of the measured rates and its rounding keep that. Section
6 shows it needed. `StagesInv` is about the buffer's own size, which need not be the
device's: `BufferCurrent` has the next pose find one that is, with the newest poses in
it or none. `TapsCloseTogether` needs no assumption: `TimesInv` has the age of the last
rise, by the clock, be the samples since then (`gap`) and what the clock of the session
told when it began (`head`), so that an age that has not expired bounds their sum.

`LicenseProofs`: whatever is on its way from the server to the granted features,
in a download, a file or a parse, was issued if it is genuine; and a refresh that
is about to parse finds a file, since only the holder of the lock removes it.

`ServicesProofs` has an invariant for each part and lifts them by a case on the
part. Of these, `CacheInv` says that outside of a publication everything cached or
found is right and that within one what is reset stays reset, as long as a reader
and a publisher did not meet; `ToldInv` and `DeviceInv` say where the telling of the
plugins, and the change of an output mode, stand; `StreamInv` relates the listener
thread to `listener_running`, so that no join is left out.

Assumptions are the named `ASSUME`s of the modules (types of the constants, null
values are no members, borrowers are finite and not the owner), which TLC
evaluates in every run, and the hypotheses named above.

Only model-checked: the liveness properties (`QueuedTakesOver`,
`RemovalUnblocks`, `PrimaryServed`, `ConfigReturns`, `SilentStreamEnds`,
`RemovedSessionEnds`, `DisabledSessionEnds`, `CalibrationEnds`, `RecenterServed`,
`RefreshEnds`, `FallsBack`, `SnapsBack`, `SwitchShown`, `ModeReported`), since the
proof system handles neither fairness nor `ENABLED`. `Interfaces` has only such.
Out of the prover's reach in any case: what a recursively defined function computes
for every input (there is none), which needs induction over data.

## 6. Where code and words differ

| Run | What happens |
|---|---|
| `pool_freed` | A connection removed during a session is freed while `connect_active`, `block_on_active` or its own thread still uses it. The header says that cleanup occurs when the thread exits. |
| `driver_replug` | Glasses plugged in again while the last object of their model is held only add a reference. No callback runs after `block_on_device_ready` was cleared, and they are never connected. |

Further counterexamples, each by `tlc -config X.cfg M`:

| `X.cfg`, `M` | Property | What happens |
|---|---|---|
| `pool_same_driver`, `MCConnectionPool` | `PoolMirrorsBus` | Removal is by driver id: with two glasses of one driver, unplugging the second removes the first. |
| `driver_quit` with `MayDisable = TRUE` and `MayQuit = FALSE`, `MCXRDriver` | `DisableStops` | Disabling while the block_on_device thread is connecting disconnects nothing; rokid's block loop does not look at the flag and the session goes on. |
| `driver_promoted`, `MCXRDriver` | `DevicesAllocated` | An OpenTrack stream is the primary when two glasses are plugged in, and the first of them is unplugged: the removal selects the primary again, now the second. `driver.c:641` checks in the stream's device, as that of the primary that was, and it is freed while the stream's connection stays in the list, where it is the supplemental. The comment at `driver.c:624` has a reference held as long as a device remains connected. |
| `driver_handlers`, `MCXRDriver` | `ReferencesCounted` | A stream begins while the usb thread reports glasses: both threads find that the static `primary_device_ref` is not the new primary, and both check it out. One reference is forgotten, so that the device is never freed and no other is installed in its place. |
| `driver_quit`, `MCXRDriver` | `QuitTerminates` | `force_quit` while connecting, or with an unplug that clears the readiness again, leaves the block_on_device thread running, and `main` joins it. |
| `listener_stopped`, `OpenTrackListener` | `NothingLeftRegistered` | The stop of the listener first removes its device, then closes the socket and joins the thread. A packet in between registers the stream again; nothing removes it any more, and it keeps the place of the primary. |
| `feature_stale`, `FeatureCache` | `CachesFresh` | A reader looks at the old set, or at freed memory, and stores its answer after the reset: it stays until the next change. |
| `sampling` with `Measured = {60, 30}`, `ImuSampling` | `OldestPopped` | Below 40 Hz the tap buffer has size 0: `is_full` is true at once, and `push` divides by zero. |
| `sampling` with `PROPERTIES OneSession`, `ImuSampling` | `OneSession` | `init_multi_tap` keeps the detector's state, and the next session's clock may begin before the last tap: the elapsed time is negative, and a tap of the last session and one long after it are a double tap. |
| `pose` with `INVARIANT SupplementalCurrent`, `PoseHandling` | `SupplementalCurrent` | `driver_reference_pose` reads the flag before a centering sets it and clears it after: the supplemental's orientation of the last reference is kept. The comment at `connection_pool.c:321` has it captured with each new reference pose. |
| `pose` with `INVARIANT ConjugateCurrent`, `PoseHandling` | `ConjugateCurrent` | `driver_reference_pose` clears the flag after a plugin's change has set it and before `driver.c:151` tests it: poses are turned by the conjugate of the old reference. |
| `devices_crash`, `DeviceSessions` | `ConnectSurvives` | `xreal_device_connect` sleeps when the MCU does not open, and then uses the device without a test: glasses unplugged meanwhile are a NULL pointer. |
| `gamescope` with `INVARIANT Told`, `Gamescope` | `Told` | A connection that breaks while the plugins are being told leaves `sideview` with one that is gone. |
| `outputs_leak`, `Outputs` | `NothingLeaked` | `reinit_outputs`, chosen while connected, runs before `init_outputs` or after `deinit_outputs`: the next `init_outputs` forgets the device that it made. |
| `breezy_disabled`, `BreezyDesktop` | `DisabledShown` | A thread reads a freed `bd_config` and writes "on"; the session's connect has closed the file, and neither the new configuration nor the end of the session opens it to write "off". The desktop is shown while the driver is disabled. |
| `breezy_disabled` with `WritesFail = TRUE` and `INVARIANT CheckedIn`, `BreezyDesktop` | `CheckedIn` | The error path of `do_write_config_data` returns without `device_checkin`: the device is held for ever, and one that is queued behind it is never installed. |
| `sbs_lost`, `SideBySide` | `RequestServed` | xreal's poll puts the glasses' mode into `disp_mode` between the request's assignment and the sending: the old mode is sent. |
| `sbs_lost` with `Vendors = {"heartbeat"}`, `SideBySide` | `ModeReported` | For models that need a heartbeat the MCU is not read: a mode that is set is never sent, and the button is never seen. |
| `outputs_leak` with `INVARIANT FlagSettles`, `Outputs` | `FlagSettles` | A configuration change enables the shared flag without a session, where it is to be disabled until one begins. |

Smaller observations made on the way: `mcu_enabled` of xreal is not reset when
the next glasses are not read over HID; a connect whose IMU does not open leaves
the controller open; rayneo's probe waits for a name without a timeout;
`write_config_data` writes with the old `config()->disabled`, since the plugins
are configured before the driver is; the error path of a pose in
`breezy_desktop.c` closes the file and that of the configuration leaks it;
`rokid_device_set_sbs_mode` records the success of a request as the mode, also of
one to disable, so that a request to enable within the next second is dropped;
restoring a bypass mode of VITURE glasses writes their native registers; the first
connection to gamescope in `setup_ipc` is made without a listener for
`effect_ready`, so that it always falls back after 500 ms; and
`is_gamescope_reshade_ipc_connected` of the state file stays true when a
reconnect falls into a cleanup.

## 7. What is not modelled, and the plan

Next, in order:

1. **XRDriver with two handlers and streams.** The theorems about the composition
   exclude them, since references are then lost and devices freed (section 6). What
   holds in spite of it, for instance that a device which is still borrowed is not
   freed, is worth a proof of its own.
2. **Refinement.** A pool that only promises a selection, implemented by
   ConnectionPool, in the way DeviceContext implements DeviceLease.

Left out of modules that are there:

* Device drivers: VITURE's firmware states and its fusion bridge, and the
  conversion of samples.
* Driver threads: IPC values other than `disabled`.
* BreezyDesktop: what is written besides the enabled byte; a descriptor that is
  closed by somebody else.
* SideBySide: the resolution that rokid's mode entails, and the other values of the
  state file.
* SmoothFollow: 6DoF positions, the filter on tracked axes; its callers run one
  after another. It has an IMU buffer of its own (`smooth_follow.c:387`), made anew as
  that of `outputs.c` is, of which ImuSampling has one.
* ImuSampling: switching the multi-tap or the calibration between two poses. The
  buffer is then left alone for a while, and what is returned last of the taps stays.
* Outputs: the dead zone, and what a pose writes to the device.

Not modelled:

* `virtual_display.c` and `sideview.c` beyond what they do when gamescope connects:
  they set the effect's variables from the configuration.
* Quaternion, slerp and mouse arithmetic (real numbers), encoding of evdev events
  and of shared memory (pure I/O), `plugins.c` (a loop over a constant table), the
  stateless plugins (OpenTrack source, metrics, neck saver, banner), string and
  file helpers, and packaging. libusb, the SDKs and the kernel are environment;
  the SDK's headers, about two thirds of the repository's C, only declare them.
