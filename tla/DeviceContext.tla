--------------------------- MODULE DeviceContext ---------------------------
(***************************************************************************)
(* runtime_context.c: the reference-counted device every thread shares.    *)
(* g_runtime_context.device, queued_device and device_ref_count change     *)
(* only inside device_ref_count_mutex, so each call is one step.           *)
(*                                                                         *)
(* The callers are kept to what their code guarantees.  The hotplug        *)
(* handler (handle_device_connection_changed, run by one thread here)      *)
(* holds one reference in primary_device_ref between set_device_and_       *)
(* checkout and device_checkin.  Any other caller is a checkout scope, a   *)
(* Borrower: device_checkout, use of the pointer, device_checkin of the    *)
(* same pointer, NULL included.  A thread in nested scopes is several      *)
(* Borrowers.                                                              *)
(*                                                                         *)
(* A Device is a heap object (one calloc of a supported_device_func), and  *)
(* ModelOf its (hid_vendor_id, hid_product_id): two objects of one model   *)
(* are the same glasses plugged in twice.                                  *)
(***************************************************************************)
EXTENDS Integers, FiniteSets

CONSTANTS Device, Model, ModelOf, Borrower, Owner, NoDevice

ASSUME DeviceAssumption ==
    /\ ModelOf \in [Device -> Model]
    /\ NoDevice \notin Device

ASSUME HolderAssumption ==
    /\ IsFiniteSet(Borrower)
    /\ Owner \notin Borrower

VARIABLES
    device,             \* g_runtime_context.device
    queued_device,
    device_ref_count,
    allocated,          \* the device objects that are allocated, not freed
    primary_device_ref, \* static of handle_device_connection_changed
    borrowing,          \* the Borrowers between checkout and checkin
    borrowed            \* the pointer each Borrower got, NoDevice for NULL

context == <<device, queued_device, device_ref_count, allocated>>
vars == <<context, primary_device_ref, borrowing, borrowed>>

MaybeDevice == Device \cup {NoDevice}

TypeOK ==
    /\ device \in MaybeDevice
    /\ queued_device \in MaybeDevice
    /\ device_ref_count \in Nat
    /\ allocated \subseteq Device
    /\ primary_device_ref \in MaybeDevice
    /\ borrowing \subseteq Borrower
    /\ borrowed \in [Borrower -> MaybeDevice]
    /\ \A b \in Borrower \ borrowing : borrowed[b] = NoDevice

Init ==
    /\ device = NoDevice
    /\ queued_device = NoDevice
    /\ device_ref_count = 0
    /\ allocated = {}
    /\ primary_device_ref = NoDevice
    /\ borrowing = {}
    /\ borrowed = [b \in Borrower |-> NoDevice]

-----------------------------------------------------------------------------
(* The functions of runtime_context.c and devices.c.                       *)

device_equal(d, e) ==
    /\ d # NoDevice /\ e # NoDevice
    /\ ModelOf[d] = ModelOf[e]

\* Mutant: a queued device does not hide the current one.
PresentDespiteQueue == device # NoDevice

device_present == device # NoDevice /\ queued_device = NoDevice

\* Mutant: the same model plugged again does not add a reference.
SetWithoutCounting(d) ==
    \/ /\ device_equal(d, device)
       /\ UNCHANGED <<device, queued_device, device_ref_count>>
    \/ /\ ~device_equal(d, device)
       /\ device' = IF device = NoDevice THEN d ELSE device
       /\ queued_device' = IF device = NoDevice THEN NoDevice ELSE d
       /\ device_ref_count' = IF device = NoDevice THEN 1 ELSE device_ref_count

\* Mutant: a different device replaces the one in use.
SetReplacing(d) ==
    \/ /\ device_equal(d, device)
       /\ device_ref_count' = device_ref_count + 1
       /\ UNCHANGED <<device, queued_device>>
    \/ /\ ~device_equal(d, device)
       /\ device' = d
       /\ device_ref_count' = 1
       /\ UNCHANGED queued_device

\* The model that is already set only gains a reference: the new object is
\* not stored.  Any other device is queued, and installed at once with a count
\* of 1 when none is set.
set_device_and_checkout(d) ==
    \/ /\ device_equal(d, device)
       /\ device_ref_count' = device_ref_count + 1
       /\ UNCHANGED <<device, queued_device>>
    \/ /\ device = NoDevice
       /\ device' = d
       /\ queued_device' = NoDevice
       /\ device_ref_count' = 1
    \/ /\ device # NoDevice /\ ~device_equal(d, device)
       /\ queued_device' = d
       /\ UNCHANGED <<device, device_ref_count>>

\* Mutant: the count is tested before it is decremented.
CheckinTestingFirst(d) ==
    \/ /\ device_equal(d, device)
       /\ device_ref_count' = device_ref_count - 1
       /\ allocated' = IF device_ref_count = 0 THEN allocated \ {device} ELSE allocated
       /\ device' = IF device_ref_count = 0 THEN NoDevice ELSE device
       /\ UNCHANGED queued_device
    \/ /\ ~device_equal(d, device)
       /\ UNCHANGED context

\* Mutant: an object that is queued is freed but stays queued.
CheckinLeavingQueue(d) ==
    LET current == device_ref_count > 0 /\ device_equal(d, device) IN
    /\ allocated' = CASE current /\ device_ref_count = 1 -> allocated \ {device}
                     [] ~current /\ device_equal(d, queued_device) ->
                            allocated \ {queued_device}
                     [] OTHER -> allocated
    /\ device' = IF current /\ device_ref_count = 1 THEN queued_device ELSE device
    /\ queued_device' = IF current /\ device_ref_count = 1
                        THEN NoDevice ELSE queued_device
    /\ device_ref_count' = IF current /\ (device_ref_count > 1 \/ queued_device = NoDevice)
                           THEN device_ref_count - 1 ELSE device_ref_count

\* The last reference frees the object and installs the queued device with a
\* count of 1; a device that is still queued is freed.  NULL changes nothing.
device_checkin(d) ==
    LET current == device_ref_count > 0 /\ device_equal(d, device) IN
    \/ /\ current /\ device_ref_count > 1
       /\ device_ref_count' = device_ref_count - 1
       /\ UNCHANGED <<device, queued_device, allocated>>
    \/ /\ current /\ device_ref_count = 1
       /\ allocated' = allocated \ {device}
       /\ device' = queued_device
       /\ queued_device' = NoDevice
       /\ device_ref_count' = IF queued_device = NoDevice THEN 0 ELSE 1
    \/ /\ ~current /\ device_equal(d, queued_device)
       /\ allocated' = allocated \ {queued_device}
       /\ queued_device' = NoDevice
       /\ UNCHANGED <<device, device_ref_count>>
    \/ /\ ~current /\ ~device_equal(d, queued_device)
       /\ UNCHANGED context

-----------------------------------------------------------------------------
(* The callers.                                                            *)

\* handle_device_connection_changed, a device became the pool's primary: the
\* object is fresh memory from supported_device_func.
SetPrimary(d) ==
    /\ primary_device_ref = NoDevice
    /\ d \notin allocated
    /\ allocated' = allocated \cup {d}
    /\ set_device_and_checkout(d)
    /\ primary_device_ref' = d
    /\ UNCHANGED <<borrowing, borrowed>>

\* handle_device_connection_changed, the previous primary is released.
ReleasePrimary ==
    /\ primary_device_ref # NoDevice
    /\ device_checkin(primary_device_ref)
    /\ primary_device_ref' = NoDevice
    /\ UNCHANGED <<borrowing, borrowed>>

device_checkout(b) ==
    /\ b \notin borrowing
    /\ borrowing' = borrowing \cup {b}
    /\ IF device_present
       THEN /\ device_ref_count' = device_ref_count + 1
            /\ borrowed' = [borrowed EXCEPT ![b] = device]
       ELSE UNCHANGED <<device_ref_count, borrowed>>
    /\ UNCHANGED <<device, queued_device, allocated, primary_device_ref>>

Return(b) ==
    /\ b \in borrowing
    /\ device_checkin(borrowed[b])
    /\ borrowing' = borrowing \ {b}
    /\ borrowed' = [borrowed EXCEPT ![b] = NoDevice]
    /\ UNCHANGED primary_device_ref

Next ==
    \/ \E d \in Device : SetPrimary(d)
    \/ ReleasePrimary
    \/ \E b \in Borrower : device_checkout(b) \/ Return(b)

\* Every scope ends: each of them is a stretch of code without a wait on
\* another device, or a block loop that ends when its device is disconnected.
Fairness == \A b \in Borrower : WF_vars(Return(b))

Spec == Init /\ [][Next]_vars
FairSpec == Spec /\ Fairness

-----------------------------------------------------------------------------
(* Properties.                                                             *)

\* The references that are outstanding on the current device.  The hotplug
\* handler's counts when its object has the current device's model, whether
\* or not it is the object that is installed.
Holders ==
    {b \in Borrower : borrowed[b] # NoDevice}
        \cup {o \in {Owner} : device_equal(primary_device_ref, device)}

\* The count is exactly the number of outstanding references, so a device is
\* freed neither before its last user lets go nor kept after it: the contract
\* of device_checkout and device_checkin over every interleaving of scopes,
\* plugs, unplugs and replugs.
RefCountExact ==
    /\ device_ref_count = Cardinality(Holders)
    /\ device = NoDevice <=> device_ref_count = 0

\* No thread can reach freed memory: the pointers the runtime context holds
\* and those device_checkout handed out are allocated objects, and all
\* borrowers share one object, the installed one.
NoUseAfterFree ==
    /\ {device, queued_device, primary_device_ref} \subseteq allocated \cup {NoDevice}
    /\ \A b \in Borrower : borrowed[b] \in {device, NoDevice}

\* The handler's reference never dangles between the two fields: its object is
\* the queued one, or of the installed model; and only its object is queued,
\* behind a device of another model.
PrimaryTracked ==
    /\ primary_device_ref # NoDevice =>
           \/ primary_device_ref = queued_device
           \/ device_equal(primary_device_ref, device)
    /\ queued_device # NoDevice =>
           /\ primary_device_ref = queued_device
           /\ device # NoDevice
           /\ ~device_equal(queued_device, device)

\* The contract of runtime_context.h (DeviceLease): the device in use is
\* handed over only when nobody holds it, and nobody new gets it once a
\* successor is queued.
Lease == INSTANCE DeviceLease
         WITH current <- device, pending <- queued_device, holders <- Holders
LeaseSpec == Lease!Spec

\* A queued device does not wait for ever behind one that has left: every
\* scope ends and device_checkout admits no new one, so it takes over or is
\* itself unplugged.
QueuedTakesOver ==
    \A d \in Device : (queued_device = d) ~> (queued_device # d)
=============================================================================
