--------------------------- MODULE BreezyDesktop ---------------------------
(***************************************************************************)
(* plugins/breezy_desktop.c: the shared memory file from which the Breezy  *)
(* desktop reads whether it is to show anything, and the poses.            *)
(*                                                                         *)
(* Three threads write it at the file offset that they share, holding      *)
(* file_mutex, which the plugin's start makes anew.  bd_config is freed    *)
(* and replaced without it.                                                *)
(*                                                                         *)
(* Of the configuration section there is the enabled byte, of the pose     *)
(* only that it is written where it belongs.                               *)
(***************************************************************************)
EXTENDS Naturals

CONSTANTS
    Leftovers,  \* what an earlier driver may have left in the file
    WritesFail  \* a write to the shared memory may fail

BreezyAssumption == Leftovers \subseteq {"absent", "off", "on"} /\ WritesFail \in BOOLEAN

VARIABLES
    bd_config,    \* bd_config->enabled: "on" or "off", or "freed"
    disabled,     \* config()->disabled
    update,       \* progress of update_config_from_file
    present,      \* device_checkout() returns a device
    kept,         \* an error path did not check the device in
    connected,    \* is_driver_connected()
    session,      \* progress of the block_on_device thread
    has_started,
    fd,           \* whether it is open
    due,          \* over 250 ms since last_config_write_ts
    file_mutex,   \* "free" or "locked"
    call,         \* the plugin's function that each thread is in
    offset,       \* the file offset: "config", "record" or "end"
    file          \* its enabled byte: "on", "off", "garbled", or "absent"

configVars == <<bd_config, disabled, update>>
deviceVars == <<present, connected, session>>
fileVars == <<kept, fd, due, file_mutex, offset, file>>
vars == <<configVars, deviceVars, fileVars, has_started, call>>

Thread == {"config", "block_on_device", "pose"}
NoCall == [pc |-> "none", what |-> "config", enabled |-> FALSE, device |-> FALSE]
Begun(what) == [NoCall EXCEPT !.pc = "lock", !.what = what]

TypeOK ==
    /\ bd_config \in {"on", "off", "freed"}
    /\ {disabled, present, kept, connected, has_started, fd, due} \subseteq BOOLEAN
    /\ update \in {"none", "set_config", "reset_pose", "apply"}
    /\ session \in {"waits", "setup_ipc", "opens", "writes", "resets", "blocks", "ends"}
    /\ file_mutex \in {"free", "locked"}
    /\ call \in [Thread -> [pc : {"none", "lock", "write", "record"},
                            what : {"config", "pose"}, enabled : BOOLEAN, device : BOOLEAN]]
    /\ offset \in {"config", "record", "end"}
    /\ file \in {"absent", "on", "off", "garbled"}

Init ==
    /\ bd_config \in {"on", "off"} /\ disabled = FALSE
    /\ update = "none"
    /\ present = FALSE /\ kept = FALSE /\ connected = FALSE /\ session = "waits"
    /\ has_started = FALSE /\ fd = FALSE /\ due = TRUE
    /\ file_mutex = "free" /\ call = [t \in Thread |-> NoCall]
    /\ offset = "config" /\ file \in Leftovers

-----------------------------------------------------------------------------
(* write_config_data and breezy_desktop_write_pose_data.                   *)

At(t, pc) == call[t].pc = pc
Goto(t, pc) == call' = [call EXCEPT ![t] = [Begun("pose") EXCEPT !.pc = pc]]

\* What may be read of bd_config->enabled.
Enabled == IF bd_config = "freed" THEN BOOLEAN ELSE {bd_config = "on"}

\* A function that does nothing unless the file is open or to be written.
Calls(t, what) ==
    \/ (fd \/ TRUE \in Enabled) /\ call' = [call EXCEPT ![t] = Begun(what)]
    \/ ~fd /\ FALSE \in Enabled /\ UNCHANGED call

\* A file that was not there is created with zeros.
get_shared_mem_fd ==
    /\ fd' = TRUE
    /\ file' = IF file = "absent" THEN "off" ELSE file

\* Mutant: poses do not write the configuration again every 250 ms.
LockForRecord(t) ==
    /\ At(t, "lock") /\ file_mutex = "free"
    /\ file_mutex' = "locked"
    /\ get_shared_mem_fd
    /\ IF call[t].what = "config"
       THEN /\ offset' = "config"
            /\ \E on \in Enabled :
                  call' = [call EXCEPT ![t].pc = "write", ![t].device = present /\ WritesFail,
                                       ![t].enabled = present /\ ~disabled /\ on]
       ELSE offset' = "record" /\ Goto(t, "record")
    /\ UNCHANGED <<configVars, deviceVars, kept, due, has_started>>

\* Each function goes to its place in the file, and opens it first if need be.  What is
\* to be written of the configuration is read here.
Lock(t) ==
    /\ At(t, "lock") /\ file_mutex = "free"
    /\ file_mutex' = "locked"
    /\ get_shared_mem_fd
    /\ IF call[t].what = "config" \/ due
       THEN /\ offset' = "config"
            /\ \E on \in Enabled :
                  call' = [call EXCEPT ![t].pc = "write", ![t].device = present /\ WritesFail,
                                       ![t].enabled = present /\ ~disabled /\ on]
       ELSE offset' = "record" /\ Goto(t, "record")
    /\ UNCHANGED <<configVars, deviceVars, kept, due, has_started>>

Unlock(t) == file_mutex' = "free" /\ call' = [call EXCEPT ![t] = NoCall]

\* The write is at the offset, which another thread may have moved.  After it the
\* configuration section's end is the record's beginning.
Succeeds(t) ==
    /\ file' = IF offset # "config" THEN file ELSE IF call[t].enabled THEN "on" ELSE "off"
    /\ due' = FALSE
    /\ IF call[t].what = "config"
       THEN offset' = (IF offset = "config" THEN "record" ELSE "end") /\ Unlock(t)
       ELSE offset' = "record" /\ Goto(t, "record") /\ UNCHANGED file_mutex
    /\ UNCHANGED <<kept, fd>>

\* The error path returns without device_checkin, and forgets the file.
Fails(t) ==
    /\ kept' = (kept \/ call[t].device)
    /\ fd' = FALSE /\ offset' = "config"
    /\ Unlock(t)
    /\ UNCHANGED <<due, file>>

do_write_config_data(t) ==
    /\ At(t, "write")
    /\ \E failing \in {FALSE, WritesFail} : IF failing THEN Fails(t) ELSE Succeeds(t)
    /\ UNCHANGED <<configVars, deviceVars, has_started>>

Record(t) ==
    /\ At(t, "record")
    /\ file' = IF offset = "config" THEN "garbled" ELSE file
    /\ offset' = "end"
    /\ Unlock(t)
    /\ UNCHANGED <<configVars, deviceVars, kept, fd, due, has_started>>

Writes(t) == Lock(t) \/ do_write_config_data(t) \/ Record(t)

-----------------------------------------------------------------------------
(* The callers.                                                            *)

\* breezy_desktop_handle_pose_data, with the pose or, while calibrating, without.
Pose ==
    /\ connected /\ At("pose", "none")
    /\ TRUE \in Enabled
    /\ call' = [call EXCEPT !["pose"] = Begun("pose")]
    /\ UNCHANGED <<configVars, deviceVars, fileVars, has_started>>

Moves(from, to) == session = from /\ At("block_on_device", "none") /\ session' = to

Connects ==
    /\ present /\ ~disabled /\ Moves("waits", "setup_ipc")
    /\ connected' = TRUE
    /\ UNCHANGED <<configVars, present, fileVars, has_started, call>>

\* setup_ipc() and, later, breezy_desktop_device_connect reset the pose data.
Resets ==
    /\ Moves("setup_ipc", "opens") \/ Moves("resets", "blocks")
    /\ Calls("block_on_device", "pose")
    /\ UNCHANGED <<configVars, present, connected, fileVars, has_started>>

\* breezy_desktop_device_connect closes the file, to open it again.
Opens ==
    /\ Moves("opens", "writes")
    /\ file_mutex = "free"
    /\ fd' = FALSE /\ offset' = "config"
    /\ has_started' = TRUE
    /\ UNCHANGED <<configVars, present, connected, kept, due, file_mutex, file, call>>

\* At the start and at the end of a session, whose connection may be gone by then.
WritesConfig ==
    /\ Moves("writes", "resets") \/ Moves("ends", "waits")
    /\ Calls("block_on_device", "config")
    /\ UNCHANGED <<configVars, present, connected, fileVars, has_started>>

Returns ==
    /\ ~connected /\ Moves("blocks", "ends")
    /\ UNCHANGED <<configVars, present, connected, fileVars, has_started, call>>

Session == Connects \/ Resets \/ Opens \/ WritesConfig \/ Returns

Proceeds(from, to) ==
    update = from /\ At("config", "none") /\ update' = to

\* breezy_desktop_set_config: free(bd_config).
Frees ==
    /\ Proceeds("none", "set_config")
    /\ bd_config' = "freed"
    /\ UNCHANGED <<disabled, deviceVars, fileVars, has_started, call>>

SetsConfig ==
    /\ Proceeds("set_config", "reset_pose")
    /\ bd_config' \in {"on", "off"}
    /\ IF ~has_started \/ (~fd /\ bd_config' = "off")
       THEN UNCHANGED call
       ELSE call' = [call EXCEPT !["config"] = Begun("config")]
    /\ UNCHANGED <<disabled, deviceVars, fileVars, has_started>>

\* While calibrating, the pose data is reset too.
ResetsPose ==
    /\ Proceeds("reset_pose", "apply")
    /\ (has_started /\ Calls("config", "pose")) \/ UNCHANGED call
    /\ UNCHANGED <<bd_config, disabled, deviceVars, fileVars, has_started>>

\* Only now config()->disabled is the new one.  The plugin is started again, with its
\* mutex, when the driver is enabled.
Applies ==
    /\ Proceeds("apply", "none")
    /\ disabled' \in BOOLEAN
    /\ connected' = (connected /\ ~disabled')
    /\ file_mutex' = IF disabled /\ ~disabled' THEN "free" ELSE file_mutex
    /\ UNCHANGED <<bd_config, present, session, kept, fd, due, offset, file, has_started, call>>

Update == Frees \/ SetsConfig \/ ResetsPose \/ Applies

\* The connection is lost, before or after the device is; a device that was not
\* checked in stays.
ConnectionLost ==
    /\ connected /\ connected' = FALSE
    /\ UNCHANGED <<configVars, present, session, fileVars, has_started, call>>

DeviceChanges ==
    /\ present' = (~present \/ kept)
    /\ UNCHANGED <<configVars, connected, session, fileVars, has_started, call>>

TimePasses ==
    /\ ~due /\ due' = TRUE
    /\ UNCHANGED <<configVars, deviceVars, kept, fd, file_mutex, offset, file, has_started, call>>

Next ==
    \/ \E t \in Thread : Writes(t)
    \/ Pose \/ Session \/ Update \/ ConnectionLost \/ DeviceChanges \/ TimePasses

Spec == Init /\ [][Next]_vars

Fairness ==
    /\ \A t \in Thread : WF_vars(Writes(t))
    /\ WF_vars(Pose) /\ WF_vars(Session) /\ WF_vars(TimePasses)
    /\ WF_vars(SetsConfig \/ ResetsPose \/ Applies)

FairSpec == Spec /\ Fairness

-----------------------------------------------------------------------------
(* Properties.                                                             *)

\* In a session the shared file comes to say that the desktop is shown, if the
\* configuration does, whichever thread wrote an older one, and even if two of them wrote
\* at once because the mutex was made anew.
InSession == session = "blocks" /\ connected /\ present
SwitchShown ==
    InSession /\ bd_config = "on" /\ ~disabled
        ~> file = "on" \/ ~InSession \/ bd_config # "on" \/ disabled

\* driver.c: "always start out disabled".  Between sessions nothing is to be shown of a
\* driver that is disabled.  The file may still say so: bd_config was read while it was
\* replaced, or written with the old config()->disabled, or not, as the file was closed.
DisabledShown ==
    /\ session = "waits" /\ update = "none" /\ disabled
    /\ \A t \in Thread : call[t].pc = "none"
    => file # "on"

\* runtime_context.h: a device that is checked out is checked in.
CheckedIn == ~kept
=============================================================================
