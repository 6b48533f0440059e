------------------------------- MODULE Outputs -------------------------------
(***************************************************************************)
(* The virtual input device of outputs.c and the disabled flag of the      *)
(* shared memory: what the block_on_device thread makes and takes back for *)
(* a session, and the thread that reads the configuration changes.         *)
(*                                                                         *)
(* What is written to the device is left out, as is evdev, which goes with *)
(* uinput.  Whether there is a device to wait for is XRDriver's subject,   *)
(* and any outcome here.                                                   *)
(***************************************************************************)
EXTENDS Naturals

VARIABLES
    mode,      \* config()->output_mode: "mouse", "joystick", or "external" only
    disabled,  \* config()->disabled
    ready,     \* block_on_device_ready
    connected, \* is_driver_connected()
    session,   \* progress of the block_on_device thread
    update,    \* progress of update_config_from_file, and output_mode_changed
    uinput,    \* the mode that uinput was made for, or "none"
    flag,      \* *ipc_values->disabled, or "absent" while ipc_values is NULL
    leaked,    \* history: a device was made although there was one
    raced      \* history: reinit_outputs ran outside of init_outputs .. deinit_outputs

configured == <<mode, disabled>>
history == <<leaked, raced>>
vars == <<configured, ready, connected, session, update, uinput, flag, history>>

TypeOK ==
    /\ mode \in {"mouse", "joystick", "external"}
    /\ {disabled, ready, connected, leaked, raced} \subseteq BOOLEAN
    /\ session \in {"waits", "connects", "setup_ipc", "enables", "init_outputs", "blocks",
                    "deinit_outputs", "disables"}
    /\ update \in [pc : {"none", "disconnect", "decide", "reinit", "flag"},
                   output_mode_changed : BOOLEAN]
    /\ uinput \in {"none", "mouse", "joystick"}
    /\ flag \in {"absent", "enabled", "disabled"}

Init ==
    /\ mode = "mouse" /\ disabled = FALSE
    /\ ready = FALSE /\ connected = FALSE /\ session = "waits"
    /\ update = [pc |-> "none", output_mode_changed |-> FALSE]
    /\ uinput = "none" /\ flag = "absent"
    /\ leaked = FALSE /\ raced = FALSE

-----------------------------------------------------------------------------
(* outputs.c, where each function holds outputs_mutex.                     *)

Made == mode \in {"mouse", "joystick"}

init_outputs ==
    /\ uinput' = IF Made THEN mode ELSE uinput
    /\ leaked' = (leaked \/ (Made /\ uinput # "none"))

deinit_outputs == uinput' = "none" /\ UNCHANGED leaked

\* Mutant: the device that is there is kept.
ReinitKeeping == UNCHANGED <<uinput, leaked>>

reinit_outputs == uinput' = (IF Made THEN mode ELSE "none") /\ UNCHANGED leaked

-----------------------------------------------------------------------------
(* block_on_device_thread_func.                                            *)

Moves(from, to) == session = from /\ session' = to

Wakes ==
    /\ ready /\ Moves("waits", "connects")
    /\ UNCHANGED <<configured, ready, connected, update, uinput, flag, history>>

Connects ==
    /\ \/ Moves("connects", "setup_ipc") /\ connected' = TRUE
       \/ Moves("connects", "disables") /\ UNCHANGED connected
    /\ UNCHANGED <<configured, ready, update, uinput, flag, history>>

\* Without a device the flag is what it was in the shared memory.
SetsUpIpc ==
    /\ Moves("setup_ipc", "enables")
    /\ flag' \in {"disabled", IF flag = "absent" THEN "enabled" ELSE flag}
    /\ UNCHANGED <<configured, ready, connected, update, uinput, history>>

Enables ==
    /\ Moves("enables", "init_outputs")
    /\ flag' = "enabled"
    /\ UNCHANGED <<configured, ready, connected, update, uinput, history>>

InitsOutputs ==
    /\ Moves("init_outputs", "blocks")
    /\ init_outputs
    /\ UNCHANGED <<configured, ready, connected, update, flag, raced>>

\* connection_pool_block_on_active() returns.
Returns ==
    /\ ~connected /\ Moves("blocks", "deinit_outputs")
    /\ UNCHANGED <<configured, ready, connected, update, uinput, flag, history>>

DeinitsOutputs ==
    /\ Moves("deinit_outputs", "disables")
    /\ deinit_outputs
    /\ UNCHANGED <<configured, ready, connected, update, flag, raced>>

WriteFlag(value) == flag' = IF flag = "absent" THEN flag ELSE value

Disables ==
    /\ Moves("disables", "waits")
    /\ WriteFlag("disabled")
    /\ UNCHANGED <<configured, ready, connected, update, uinput, history>>

Session ==
    \/ Wakes \/ Connects \/ SetsUpIpc \/ Enables \/ InitsOutputs \/ Returns
    \/ DeinitsOutputs \/ Disables

-----------------------------------------------------------------------------
(* update_config_from_file.                                                *)

Proceeds(from, to) == update.pc = from /\ update' = [update EXCEPT !.pc = to]

UpdatesConfig(m, d) ==
    /\ update.pc = "none"
    /\ update' = [pc |-> "disconnect", output_mode_changed |-> m # mode]
    /\ mode' = m /\ disabled' = d
    /\ UNCHANGED <<ready, connected, session, uinput, flag, history>>

DisconnectsAll ==
    /\ Proceeds("disconnect", "decide")
    /\ connected' = (connected /\ ~disabled)
    /\ UNCHANGED <<configured, ready, session, uinput, flag, history>>

Decides ==
    /\ Proceeds("decide", IF update.output_mode_changed /\ connected THEN "reinit" ELSE "flag")
    /\ UNCHANGED <<configured, ready, connected, session, uinput, flag, history>>

ReinitsOutputs ==
    /\ Proceeds("reinit", "flag")
    /\ reinit_outputs
    /\ raced' = (raced \/ session \notin {"blocks", "deinit_outputs"})
    /\ UNCHANGED <<configured, ready, connected, session, flag>>

\* evaluate_block_on_device_ready(), with or without a device.
Evaluates == ready' \in {FALSE, ~disabled}

SetsFlag ==
    /\ Proceeds("flag", "none")
    /\ WriteFlag(IF disabled THEN "disabled" ELSE "enabled")
    /\ Evaluates
    /\ UNCHANGED <<configured, connected, session, uinput, history>>

Update ==
    \/ \E m \in {"mouse", "joystick", "external"}, d \in BOOLEAN : UpdatesConfig(m, d)
    \/ DisconnectsAll \/ Decides \/ ReinitsOutputs \/ SetsFlag

-----------------------------------------------------------------------------
(* Glasses come and go.                                                    *)

DevicesChange ==
    /\ Evaluates
    /\ UNCHANGED <<configured, connected, session, update, uinput, flag, history>>

ConnectionEnds ==
    /\ connected /\ connected' = FALSE
    /\ UNCHANGED <<configured, ready, session, update, uinput, flag, history>>

Next == Session \/ Update \/ DevicesChange \/ ConnectionEnds

Spec == Init /\ [][Next]_vars

-----------------------------------------------------------------------------
(* Properties.                                                             *)

\* In a session the input device is that of the configured output mode, however the
\* configuration changed since it began, and between sessions there is none, unless a
\* reinit_outputs, chosen while connected, ran before or after the session's own device
\* was there.
OutputsMatch ==
    update.pc = "none" /\ ~raced =>
        /\ session = "blocks" /\ connected => uinput = IF Made THEN mode ELSE "none"
        /\ session \in {"waits", "connects", "setup_ipc"} => uinput = "none"
        /\ ~leaked

\* What the race leaves behind: "deinit_outputs" after a session is to leave no input
\* device.  It does, and the next init_outputs forgets it.
NothingLeaked == ~leaked

\* driver.c: "always start out disabled, let it be explicitly enabled later".  The shared
\* flag does not stay disabled without a session: any configuration change enables it.
FlagSettles == update.pc = "none" /\ session = "waits" => flag # "enabled"
=============================================================================
