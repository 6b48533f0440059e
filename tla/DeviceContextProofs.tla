------------------------ MODULE DeviceContextProofs ------------------------
(***************************************************************************)
(* Proofs, for any set of devices, models and borrowers, that the counting *)
(* of runtime_context.c is exact, that nobody is handed or keeps a freed   *)
(* object, and that DeviceContext implements DeviceLease.                  *)
(***************************************************************************)
EXTENDS DeviceContext, FiniteSetTheorems, TLAPS

\* What keeps the count exact: borrowers hold the installed object and nothing
\* else (Shared), and a hand-over leaves a count of 1 only if the queued object
\* is the handler's (PrimaryTracked).  It does not need to know which objects are
\* allocated.
Shared == \A b \in Borrower : borrowed[b] \in {device, NoDevice}
Counted == TypeOK /\ RefCountExact /\ PrimaryTracked /\ Shared

\* The inductive invariant.
IInv == Counted /\ NoUseAfterFree

\* Holders is finite, so that its cardinality follows each step.
LEMMA HoldersFinite == IsFiniteSet(Holders)
<1>1. IsFiniteSet({b \in Borrower : borrowed[b] # NoDevice})
  BY HolderAssumption, FS_Subset
<1>2. IsFiniteSet({o \in {Owner} : device_equal(primary_device_ref, device)})
  BY FS_Singleton, FS_Subset
<1> QED
  BY <1>1, <1>2, FS_Union DEF Holders

\* A holder is the only one exactly when the count is 1.
LEMMA LastHolder ==
  ASSUME NEW h, h \in Holders
  PROVE  Cardinality(Holders) = 1 <=> Holders = {h}
<1>1. Cardinality({h}) = 1
  BY FS_Singleton
<1>2. ASSUME Cardinality(Holders) = 1 PROVE Holders = {h}
  <2>1. PICK x : Holders = {x}
    BY <1>2, HoldersFinite, FS_Singleton
  <2> QED
    BY <2>1
<1> QED
  BY <1>1, <1>2

\* In the initial state nothing is set, queued or held.
LEMMA InitIInv == Init => IInv
<1> SUFFICES ASSUME Init PROVE IInv
  OBVIOUS
<1>1. Holders = {}
  BY DEF Init, Holders, device_equal
<1> QED
  BY <1>1, FS_EmptySet
     DEF Init, IInv, Counted, Shared, TypeOK, MaybeDevice, RefCountExact,
         NoUseAfterFree, PrimaryTracked

\* A device that is set becomes current, is queued, or adds the handler's
\* reference to the object of its model.
LEMMA SetCounted ==
  ASSUME Counted, primary_device_ref = NoDevice,
         NEW d \in Device, set_device_and_checkout(d), primary_device_ref' = d,
         allocated' \subseteq Device, UNCHANGED <<borrowing, borrowed>>
  PROVE  /\ Counted'
         /\ NoUseAfterFree /\ allocated \cup {d} \subseteq allocated' => NoUseAfterFree'
<1> USE DeviceAssumption, HolderAssumption DEF MaybeDevice, device_equal
<1>1. Owner \notin Holders /\ queued_device = NoDevice
  BY DEF Counted, Holders, PrimaryTracked
<1>2. Holders' = IF device_equal(d, device') THEN Holders \cup {Owner} ELSE Holders
  BY <1>1 DEF Counted, TypeOK, Shared, set_device_and_checkout, Holders
<1>3. Cardinality(Holders \cup {Owner}) = Cardinality(Holders) + 1
  BY <1>1, HoldersFinite, FS_AddElement
<1>4. TypeOK'
  BY DEF Counted, TypeOK, set_device_and_checkout
<1>5. RefCountExact'
  BY <1>1, <1>2, <1>3 DEF Counted, TypeOK, RefCountExact, set_device_and_checkout
<1>6. Shared'
  <2>1. CASE device = NoDevice
    <3>1. \A b \in Borrower : borrowed[b] = NoDevice
      BY <2>1 DEF Counted, Shared
    <3> QED
      BY <2>1, <3>1 DEF Shared
  <2>2. CASE device # NoDevice
    BY <2>2 DEF Counted, Shared, set_device_and_checkout
  <2> QED
    BY <2>1, <2>2
<1>7. PrimaryTracked'
  BY <1>1 DEF Counted, TypeOK, PrimaryTracked, set_device_and_checkout
<1>8. ASSUME NoUseAfterFree, allocated \cup {d} \subseteq allocated'
      PROVE  NoUseAfterFree'
  BY <1>6, <1>8 DEF Shared, NoUseAfterFree, set_device_and_checkout
<1> QED
  BY <1>4, <1>5, <1>6, <1>7, <1>8 DEF Counted

\* The handler lets go of its device: one reference less, the last reference,
\* or a queued object that is withdrawn.
LEMMA ReleaseCounted ==
  ASSUME Counted, ReleasePrimary
  PROVE  Counted' /\ (NoUseAfterFree => NoUseAfterFree')
<1> USE DeviceAssumption, HolderAssumption DEF MaybeDevice, device_equal
<1>1. Owner \notin Holders'
  BY DEF ReleasePrimary, Holders
<1>2. CASE device_equal(primary_device_ref, device)
  <2>1. Owner \in Holders /\ queued_device = NoDevice
    BY <1>2 DEF Counted, Holders, PrimaryTracked
  <2>2. Holders' = Holders \ {Owner}
    BY <1>1 DEF Holders, ReleasePrimary
  <2>3. Cardinality(Holders') = Cardinality(Holders) - 1
    BY <2>1, <2>2, HoldersFinite, FS_RemoveElement
  <2>4. device_ref_count > 0
    BY <1>2 DEF Counted, TypeOK, RefCountExact
  <2>5. CASE device_ref_count > 1
    <3>1. /\ device_ref_count' = device_ref_count - 1
          /\ UNCHANGED <<device, queued_device, allocated>>
      BY <1>2, <2>4, <2>5 DEF Counted, TypeOK, ReleasePrimary, device_checkin
    <3> QED
      BY <2>1, <2>3, <2>5, <3>1
         DEF Counted, TypeOK, RefCountExact, Shared, NoUseAfterFree, PrimaryTracked,
             ReleasePrimary
  <2>6. CASE device_ref_count = 1
    <3>1. /\ device_ref_count' = 0
          /\ device' = NoDevice
          /\ queued_device' = NoDevice
          /\ allocated' = allocated \ {device}
      BY <1>2, <2>1, <2>4, <2>6 DEF Counted, TypeOK, ReleasePrimary, device_checkin
    <3>2. Cardinality(Holders') = 0
      BY <2>3, <2>6 DEF Counted, RefCountExact
    <3>3. Holders' = {}
      BY <3>2, <2>2, HoldersFinite, FS_EmptySet, FS_RemoveElement
    <3>4. \A b \in Borrower : borrowed'[b] = NoDevice
      BY <3>3 DEF Holders
    <3> QED
      BY <3>1, <3>2, <3>4
         DEF Counted, TypeOK, RefCountExact, Shared, NoUseAfterFree, PrimaryTracked,
             ReleasePrimary
  <2> QED
    BY <2>4, <2>5, <2>6 DEF Counted, TypeOK
<1>3. CASE ~device_equal(primary_device_ref, device)
  <2>1. /\ primary_device_ref = queued_device
        /\ queued_device # NoDevice
        /\ queued_device # device
    BY <1>3 DEF Counted, TypeOK, PrimaryTracked, ReleasePrimary
  <2>2. /\ allocated' = allocated \ {queued_device}
        /\ queued_device' = NoDevice
        /\ UNCHANGED <<device, device_ref_count>>
    BY <1>3, <2>1 DEF Counted, TypeOK, ReleasePrimary, device_checkin
  <2>3. Holders' = Holders
    BY <1>3, <2>2 DEF ReleasePrimary, Holders
  <2> QED
    BY <2>1, <2>2, <2>3
       DEF Counted, TypeOK, RefCountExact, Shared, NoUseAfterFree, PrimaryTracked,
             ReleasePrimary
<1> QED
  BY <1>2, <1>3

\* A checkout adds the scope to the holders, or hands out NULL.
LEMMA CheckoutCounted ==
  ASSUME Counted, NEW b \in Borrower, device_checkout(b)
  PROVE  Counted' /\ (NoUseAfterFree => NoUseAfterFree')
<1> USE DeviceAssumption, HolderAssumption DEF MaybeDevice, device_equal
<1>1. borrowed[b] = NoDevice /\ b \notin Holders
  BY DEF Counted, TypeOK, device_checkout, Holders
<1>2. CASE device_present
  <2>1. Holders' = Holders \cup {b}
    BY <1>2 DEF Counted, TypeOK, device_checkout, device_present, Holders
  <2>2. Cardinality(Holders') = Cardinality(Holders) + 1
    BY <1>1, <2>1, HoldersFinite, FS_AddElement
  <2> QED
    BY <1>2, <2>2
       DEF Counted, TypeOK, RefCountExact, Shared, NoUseAfterFree, PrimaryTracked,
           device_checkout, device_present
<1>3. CASE ~device_present
  <2>1. Holders' = Holders
    BY <1>3 DEF device_checkout, Holders
  <2> QED
    BY <1>1, <1>3, <2>1
       DEF Counted, TypeOK, RefCountExact, Shared, NoUseAfterFree, PrimaryTracked,
           device_checkout
<1> QED
  BY <1>2, <1>3

\* A scope that ends gives back what it got: NULL, one reference of several, or
\* the last one, which frees the object and installs the queued device.
LEMMA ReturnCounted ==
  ASSUME Counted, NEW b \in Borrower, Return(b)
  PROVE  Counted' /\ (NoUseAfterFree => NoUseAfterFree')
<1> USE DeviceAssumption, HolderAssumption DEF MaybeDevice, device_equal
<1>1. CASE borrowed[b] = NoDevice
  <2>1. borrowed' = borrowed
    BY <1>1 DEF Counted, TypeOK, Return
  <2>2. UNCHANGED context
    BY <1>1 DEF Return, device_checkin
  <2>3. Holders' = Holders
    BY <2>1, <2>2 DEF Return, Holders, context
  <2> QED
    BY <1>1, <2>1, <2>2, <2>3
       DEF Counted, TypeOK, RefCountExact, Shared, NoUseAfterFree, PrimaryTracked, Return, context
<1>2. CASE borrowed[b] # NoDevice
  <2>1. borrowed[b] = device /\ device # NoDevice /\ device \in Device
    BY <1>2 DEF Counted, TypeOK, Shared
  <2>2. device_equal(borrowed[b], device) /\ device_ref_count > 0
    BY <2>1 DEF Counted, TypeOK, RefCountExact
  <2>3. b \in Holders
    BY <1>2 DEF Holders
  <2>4. Cardinality(Holders \ {b}) = Cardinality(Holders) - 1
    BY <2>3, HoldersFinite, FS_RemoveElement
  <2>5. CASE device_ref_count > 1
    <3>1. /\ device_ref_count' = device_ref_count - 1
          /\ UNCHANGED <<device, queued_device, allocated>>
      BY <2>2, <2>5 DEF Counted, TypeOK, Return, device_checkin
    <3>2. Holders' = Holders \ {b}
      BY <3>1 DEF Counted, TypeOK, Return, Holders
    <3> QED
      BY <2>4, <2>5, <3>1, <3>2
         DEF Counted, TypeOK, RefCountExact, Shared, NoUseAfterFree, PrimaryTracked, Return
  <2>6. CASE device_ref_count = 1
    <3>1. /\ allocated' = allocated \ {device}
          /\ device' = queued_device
          /\ queued_device' = NoDevice
          /\ device_ref_count' = IF queued_device = NoDevice THEN 0 ELSE 1
      BY <2>2, <2>6 DEF Counted, TypeOK, Return, device_checkin
    <3>2. Holders = {b}
      BY <2>3, <2>6, LastHolder DEF Counted, RefCountExact
    <3>3. \A c \in Borrower : borrowed'[c] = NoDevice
      BY <3>2 DEF Counted, TypeOK, Return, Holders
    <3>4. ~device_equal(primary_device_ref, device)
      BY <3>2 DEF Holders
    <3>5. primary_device_ref = queued_device /\ queued_device # device
      BY <3>4, <2>1 DEF Counted, TypeOK, PrimaryTracked
    <3>6. Holders' = IF queued_device = NoDevice THEN {} ELSE {Owner}
      BY <3>1, <3>3, <3>5 DEF Counted, TypeOK, Return, Holders
    <3>7. device_ref_count' = Cardinality(Holders')
      BY <3>1, <3>6, FS_EmptySet, FS_Singleton
    <3>8. TypeOK'
      BY <3>1 DEF Counted, TypeOK, Return
    <3> QED
      BY <3>1, <3>3, <3>5, <3>7, <3>8
         DEF Counted, TypeOK, RefCountExact, Shared, NoUseAfterFree, PrimaryTracked, Return
  <2> QED
    BY <2>2, <2>5, <2>6 DEF Counted, TypeOK
<1> QED
  BY <1>1, <1>2

\* Every step, or none, keeps the invariant.
LEMMA NextIInv == IInv /\ [Next]_vars => IInv'
<1> SUFFICES ASSUME IInv, [Next]_vars PROVE IInv'
  OBVIOUS
<1>1. ASSUME NEW d \in Device, SetPrimary(d) PROVE IInv'
  BY <1>1, SetCounted DEF IInv, Counted, TypeOK, SetPrimary
<1>2. CASE ReleasePrimary
  BY <1>2, ReleaseCounted DEF IInv
<1>3. CASE \E b \in Borrower : device_checkout(b)
  BY <1>3, CheckoutCounted DEF IInv
<1>4. CASE \E b \in Borrower : Return(b)
  BY <1>4, ReturnCounted DEF IInv
<1>5. CASE UNCHANGED vars
  BY <1>5 DEF IInv, Counted, Shared, TypeOK, RefCountExact, NoUseAfterFree,
              PrimaryTracked, Holders, device_equal, vars, context
<1> QED
  BY <1>1, <1>2, <1>3, <1>4, <1>5 DEF Next

\* The invariant holds in every reachable state.
THEOREM Invariance == Spec => []IInv
  BY InitIInv, NextIInv, PTL DEF Spec

\* Every variable of runtime_context.c keeps its type: in particular the count
\* never drops below zero.
THEOREM TypeCorrect == Spec => []TypeOK
<1>1. IInv => TypeOK
  BY DEF IInv, Counted
<1> QED
  BY <1>1, Invariance, PTL

\* device_ref_count is the number of outstanding references, for any number of
\* threads and nested scopes.
THEOREM ReferenceCounting == Spec => []RefCountExact
<1>1. IInv => RefCountExact
  BY DEF IInv, Counted
<1> QED
  BY <1>1, Invariance, PTL

\* No thread holds, is handed or can reach a freed device_properties_t.
THEOREM MemorySafety == Spec => []NoUseAfterFree
<1>1. IInv => NoUseAfterFree
  BY DEF IInv, Counted
<1> QED
  BY <1>1, Invariance, PTL

\* The handler's device is the queued one or of the installed model.
THEOREM HandlerTracked == Spec => []PrimaryTracked
<1>1. IInv => PrimaryTracked
  BY DEF IInv, Counted
<1> QED
  BY <1>1, Invariance, PTL

-----------------------------------------------------------------------------
(* Refinement of DeviceLease.                                              *)

\* A plug is Install, Announce or Rejoin.
LEMMA SetPrimaryLease ==
  ASSUME IInv, NEW d \in Device, SetPrimary(d)
  PROVE  Lease!Next
<1> USE DeviceAssumption, HolderAssumption DEF MaybeDevice, device_equal
<1>1. Owner \notin Holders /\ queued_device = NoDevice
  BY DEF IInv, Counted, SetPrimary, Holders, PrimaryTracked
<1>2. Holders' = IF device_equal(d, device') THEN Holders \cup {Owner} ELSE Holders
  BY <1>1
     DEF IInv, Counted, TypeOK, NoUseAfterFree, SetPrimary, set_device_and_checkout, Holders
<1>3. CASE device = NoDevice
  <2>1. Holders = {}
    BY <1>1, <1>3 DEF IInv, Counted, NoUseAfterFree, Holders
  <2> QED
    BY <1>1, <1>2, <1>3, <2>1
       DEF SetPrimary, set_device_and_checkout, Lease!Next, Lease!Install
<1>4. CASE device_equal(d, device)
  BY <1>1, <1>2, <1>4
     DEF SetPrimary, set_device_and_checkout, Lease!Next, Lease!Rejoin
<1>5. CASE device # NoDevice /\ ~device_equal(d, device)
  BY <1>1, <1>2, <1>5
     DEF SetPrimary, set_device_and_checkout, Lease!Next, Lease!Announce
<1> QED
  BY <1>3, <1>4, <1>5

\* An unplug gives the handler's lease back, hands over, or retracts.
LEMMA ReleasePrimaryLease ==
  ASSUME IInv, ReleasePrimary
  PROVE  Lease!Next
<1> USE DeviceAssumption, HolderAssumption DEF MaybeDevice, device_equal
<1>1. CASE device_equal(primary_device_ref, device)
  <2>1. Owner \in Holders /\ queued_device = NoDevice
    BY <1>1 DEF IInv, Counted, Holders, PrimaryTracked
  <2>2. Holders' = Holders \ {Owner}
    BY DEF Holders, ReleasePrimary
  <2>4. device_ref_count > 0
    BY <1>1 DEF IInv, Counted, TypeOK, RefCountExact
  <2>5. CASE device_ref_count > 1
    <3>1. UNCHANGED <<device, queued_device>>
      BY <1>1, <2>4, <2>5 DEF IInv, Counted, TypeOK, ReleasePrimary, device_checkin
    <3>2. Holders # {Owner}
      BY <2>1, <2>5, LastHolder DEF IInv, Counted, RefCountExact
    <3> QED
      BY <2>1, <2>2, <3>1, <3>2 DEF Lease!Next, Lease!GiveBack
  <2>6. CASE device_ref_count = 1
    <3>1. device' = NoDevice /\ queued_device' = NoDevice
      BY <1>1, <2>1, <2>4, <2>6 DEF IInv, Counted, TypeOK, ReleasePrimary, device_checkin
    <3>2. Holders = {Owner}
      BY <2>1, <2>6, LastHolder DEF IInv, Counted, RefCountExact
    <3> QED
      BY <2>1, <2>2, <3>1, <3>2 DEF Lease!Next, Lease!HandOver
  <2> QED
    BY <2>4, <2>5, <2>6 DEF IInv, Counted, TypeOK
<1>2. CASE ~device_equal(primary_device_ref, device)
  <2>1. queued_device = primary_device_ref /\ queued_device # NoDevice
    BY <1>2 DEF IInv, Counted, PrimaryTracked, ReleasePrimary
  <2>2. queued_device' = NoDevice /\ UNCHANGED device
    BY <1>2, <2>1 DEF IInv, Counted, TypeOK, ReleasePrimary, device_checkin
  <2>3. Holders' = Holders
    BY <1>2, <2>2 DEF ReleasePrimary, Holders
  <2> QED
    BY <2>1, <2>2, <2>3 DEF Lease!Next, Lease!Retract
<1> QED
  BY <1>1, <1>2

\* A checkout takes a lease, or hands out NULL and changes nothing.
LEMMA CheckoutLease ==
  ASSUME IInv, NEW b \in Borrower, device_checkout(b)
  PROVE  Lease!Next \/ UNCHANGED Lease!vars
<1> USE DeviceAssumption, HolderAssumption DEF MaybeDevice, device_equal
<1>1. b \notin Holders
  BY DEF IInv, Counted, TypeOK, device_checkout, Holders
<1>2. CASE device_present
  <2>1. Holders' = Holders \cup {b}
    BY <1>2 DEF IInv, Counted, TypeOK, device_checkout, device_present, Holders
  <2> QED
    BY <1>1, <1>2, <2>1 DEF device_checkout, device_present, Lease!Next, Lease!Take
<1>3. CASE ~device_present
  BY <1>3 DEF device_checkout, Holders, Lease!vars
<1> QED
  BY <1>2, <1>3

\* The end of a scope gives its lease back or hands over.
LEMMA ReturnLease ==
  ASSUME IInv, NEW b \in Borrower, Return(b)
  PROVE  Lease!Next \/ UNCHANGED Lease!vars
<1> USE DeviceAssumption, HolderAssumption DEF MaybeDevice, device_equal
<1>1. CASE borrowed[b] = NoDevice
  <2>1. borrowed' = borrowed
    BY <1>1 DEF IInv, Counted, TypeOK, Return
  <2>2. UNCHANGED context
    BY <1>1 DEF Return, device_checkin
  <2> QED
    BY <2>1, <2>2 DEF Return, Holders, context, Lease!vars
<1>2. CASE borrowed[b] # NoDevice
  <2>1. borrowed[b] = device /\ device # NoDevice /\ device \in Device
    BY <1>2 DEF IInv, Counted, TypeOK, NoUseAfterFree
  <2>2. device_equal(borrowed[b], device) /\ device_ref_count > 0
    BY <2>1 DEF IInv, Counted, TypeOK, RefCountExact
  <2>3. b \in Holders
    BY <1>2 DEF Holders
  <2>5. CASE device_ref_count > 1
    <3>1. UNCHANGED <<device, queued_device>>
      BY <2>2, <2>5 DEF IInv, Counted, TypeOK, Return, device_checkin
    <3>2. Holders' = Holders \ {b}
      BY <3>1 DEF IInv, Counted, TypeOK, Return, Holders
    <3>3. Holders # {b}
      BY <2>3, <2>5, LastHolder DEF IInv, Counted, RefCountExact
    <3> QED
      BY <2>3, <3>1, <3>2, <3>3 DEF Lease!Next, Lease!GiveBack
  <2>6. CASE device_ref_count = 1
    <3>1. device' = queued_device /\ queued_device' = NoDevice
      BY <2>2, <2>6 DEF IInv, Counted, TypeOK, Return, device_checkin
    <3>2. Holders = {b}
      BY <2>3, <2>6, LastHolder DEF IInv, Counted, RefCountExact
    <3>3. \A c \in Borrower : borrowed'[c] = NoDevice
      BY <3>2 DEF IInv, Counted, TypeOK, Return, Holders
    <3>4. ~device_equal(primary_device_ref, device)
      BY <3>2 DEF Holders
    <3>5. primary_device_ref = queued_device
      BY <3>4 DEF IInv, Counted, TypeOK, PrimaryTracked
    <3>6. Holders' = IF queued_device = NoDevice THEN {} ELSE {Owner}
      BY <3>1, <3>3, <3>5 DEF IInv, Counted, TypeOK, Return, Holders
    <3> QED
      BY <3>1, <3>2, <3>6 DEF Lease!Next, Lease!HandOver
  <2> QED
    BY <2>2, <2>5, <2>6 DEF IInv, Counted, TypeOK
<1> QED
  BY <1>1, <1>2

\* runtime_context.c implements the lease: the device in use is handed over
\* only when its last holder lets go.
THEOREM Refinement == Spec => LeaseSpec
<1>1. Init => Lease!Init
  BY DEF Init, Lease!Init, Holders, device_equal
<1>2. IInv /\ [Next]_vars => [Lease!Next]_(Lease!vars)
  <2> SUFFICES ASSUME IInv, [Next]_vars PROVE Lease!Next \/ UNCHANGED Lease!vars
    OBVIOUS
  <2>1. CASE \E d \in Device : SetPrimary(d)
    BY <2>1, SetPrimaryLease
  <2>2. CASE ReleasePrimary
    BY <2>2, ReleasePrimaryLease
  <2>3. CASE \E b \in Borrower : device_checkout(b)
    BY <2>3, CheckoutLease
  <2>4. CASE \E b \in Borrower : Return(b)
    BY <2>4, ReturnLease
  <2>5. CASE UNCHANGED vars
    BY <2>5 DEF Holders, device_equal, vars, context, Lease!vars
  <2> QED
    BY <2>1, <2>2, <2>3, <2>4, <2>5 DEF Next
<1> QED
  BY <1>1, <1>2, Invariance, PTL DEF Spec, LeaseSpec, Lease!Spec
=============================================================================
