--------------------------- MODULE XRDriverProofs ---------------------------
(***************************************************************************)
(* Proofs about the composed driver, for any devices, models, drivers and  *)
(* borrowers, and one thread that handles hotplug events: the count of     *)
(* references is exact while that thread's steps interleave with all       *)
(* others; and, if no connection can be supplemental, that no device is    *)
(* freed under the pool or a thread, and that the readiness of the         *)
(* block_on_device thread does not go stale.                               *)
(*                                                                         *)
(* The components' own proofs are used through instances of their modules. *)
(***************************************************************************)
EXTENDS XRDriver, TLAPS

PoolProofs == INSTANCE ConnectionPoolProofs
ContextProofs == INSTANCE DeviceContextProofs WITH Borrower <- Device \cup {StateThread}

\* handle_device_connection_changed has no lock: two threads in it could both
\* release or install (the usb thread alone runs it unless OpenTrack is used).
OneHandler == \E h : Handler = {h}

\* An OpenTrack stream may be replaced as primary while it is connected, and is
\* then freed (see DevicesAllocated): glasses stay primary.
GlassesOnly == CanBeSupplemental = {}

Borrowers == Device \cup {StateThread}
MaybeDevice == Device \cup {NoDevice}

Selected == PoolProofs!Selects(list, primary_index, supplemental_index)
Counted == ContextProofs!Counted

(***************************************************************************)
(* The inductive invariants.                                               *)
(***************************************************************************)

\* What the handler holds against what the pool selects: outside of an event the
\* two agree, and within one it works towards the selection it read, which only
\* it can change.
Handling ==
    /\ handler \in [Handler -> [pc : {"idle", "select", "release", "unready", "install"},
                                new : MaybeDevice]]
    /\ \A h \in Handler :
          /\ handler[h].pc \in {"idle", "select"} => handler[h].new = NoDevice
          /\ handler[h].pc \in {"release", "unready", "install"} =>
                 handler[h].new = Pool!Primary
          /\ handler[h].pc = "idle" => primary_device_ref = Pool!Primary
          /\ handler[h].pc = "release" =>
                 primary_device_ref \notin {NoDevice, Pool!Primary}
          /\ handler[h].pc \in {"unready", "install"} => primary_device_ref = NoDevice
          /\ handler[h].pc = "install" => handler[h].new # NoDevice

CountInv == Selected /\ Counted /\ Handling

\* A connection's object lives as long as the connection: the handler's
\* reference is the only one that may be the last on it, and is given up for a
\* connection that is no longer there.
Living ==
    /\ Context!NoUseAfterFree
    /\ ToSet(list) \subseteq allocated
    /\ primary_device_ref \in ToSet(list) => primary_device_ref = Pool!Primary
    /\ device \in ToSet(list) => primary_device_ref = device

\* No connection is another object of the model that the handler holds, or that
\* is installed: an install always changes the device, and calls back.
Distinct ==
    \A d \in ToSet(list) :
        Context!device_equal(d, primary_device_ref) \/ Context!device_equal(d, device)
            => d = primary_device_ref

\* The flag, whenever nothing is left to do about a change.
Settled ==
    /\ evaluating = {} /\ disconnecting = {}
    /\ queued_device = NoDevice
    /\ Context!device_equal(primary_device_ref, device)
    => block_on_device_ready = (force_quit \/ ~disabled)

-----------------------------------------------------------------------------
(* The assumptions in the form the components' proofs need.                *)

\* The constants of the pool and of the context.
LEMMA Constants ==
  /\ ModelOf \in [Device -> Model]
  /\ DriverOf \in [Device -> Driver]
  /\ CanBeSupplemental \subseteq Device
  /\ ConnectsOnProbe \subseteq Driver
  /\ NoDevice \notin Device
  /\ IsFiniteSet(Borrowers)
  /\ Owner \notin Borrowers
  BY PartsAssumption
     DEF Pool!PoolAssumption, Context!DeviceAssumption, Context!HolderAssumption,
         Borrowers, Context!IsFiniteSet, IsFiniteSet

\* The context that is counted is the one of the model.
LEMMA CountedDef ==
  Counted <=> /\ Context!TypeOK /\ Context!RefCountExact /\ Context!PrimaryTracked
              /\ \A b \in Borrowers : borrowed[b] \in {device, NoDevice}
<1>1. ContextProofs!Cardinality(Context!Holders) = Context!Cardinality(Context!Holders)
  BY DEF ContextProofs!Cardinality, Context!Cardinality
<1>2. ContextProofs!Holders = Context!Holders
  BY DEF ContextProofs!Holders, Context!Holders, ContextProofs!device_equal,
         Context!device_equal
<1> QED
  BY <1>1, <1>2 DEF Counted, ContextProofs!Counted, ContextProofs!TypeOK, Context!TypeOK,
         ContextProofs!RefCountExact, Context!RefCountExact, ContextProofs!PrimaryTracked,
         Context!PrimaryTracked, ContextProofs!Shared, ContextProofs!device_equal,
         Context!device_equal, ContextProofs!MaybeDevice,
         Context!MaybeDevice, Borrowers

-----------------------------------------------------------------------------
(* The calls of the runtime context.                                       *)

\* A checkin in either instance of DeviceContext.
LEMMA SameCheckin ==
  ASSUME NEW d
  PROVE  Context!device_checkin(d) <=> ContextProofs!device_checkin(d)
  BY DEF Context!device_checkin, ContextProofs!device_checkin, Context!device_equal,
         ContextProofs!device_equal, Context!context, ContextProofs!context

\* And its memory.
LEMMA SameMemory == Context!NoUseAfterFree <=> ContextProofs!NoUseAfterFree
  BY DEF Context!NoUseAfterFree, ContextProofs!NoUseAfterFree

\* The handler's checkin frees the installed device or its own, and leaves
\* nothing queued.
LEMMA ReleaseContext ==
  ASSUME Counted, primary_device_ref # NoDevice,
         Context!device_checkin(primary_device_ref), primary_device_ref' = NoDevice,
         UNCHANGED <<borrowing, borrowed>>
  PROVE  /\ Counted' /\ (Context!NoUseAfterFree => Context!NoUseAfterFree')
         /\ device' \in {device, NoDevice} /\ queued_device' = NoDevice
         /\ allocated \ {device, primary_device_ref} \subseteq allocated'
         /\ device \in allocated \ allocated' => Context!device_equal(primary_device_ref, device)
<1>1. ContextProofs!ReleasePrimary
  BY SameCheckin DEF ContextProofs!ReleasePrimary
<1>2. Counted' /\ (Context!NoUseAfterFree => Context!NoUseAfterFree')
  <2>1. ContextProofs!NoUseAfterFree' <=> Context!NoUseAfterFree'
    BY DEF Context!NoUseAfterFree, ContextProofs!NoUseAfterFree
  <2> QED
    BY <1>1, <2>1, SameMemory, Constants, ContextProofs!ReleaseCounted
       DEF Counted, Borrowers, ContextProofs!IsFiniteSet, IsFiniteSet
<1>3. Context!TypeOK /\ Context!RefCountExact /\ Context!PrimaryTracked
  BY CountedDef
<1> QED
  BY <1>2, <1>3, Constants
     DEF Context!device_checkin, Context!device_equal, Context!context, Context!TypeOK,
         Context!MaybeDevice, Context!PrimaryTracked, Context!RefCountExact

\* The end of a borrower's scope that frees the device installs the handler's.
LEMMA ReturnContext ==
  ASSUME Counted, NEW b \in Borrowers, Context!Return(b)
  PROVE  /\ Counted' /\ (Context!NoUseAfterFree => Context!NoUseAfterFree')
         /\ UNCHANGED primary_device_ref
         /\ \/ UNCHANGED <<device, queued_device, allocated>>
            \/ /\ device # NoDevice /\ device # primary_device_ref
               /\ device' = primary_device_ref /\ queued_device' = NoDevice
               /\ allocated' = allocated \ {device}
<1>1. ContextProofs!Return(b)
  BY SameCheckin DEF ContextProofs!Return, Context!Return
<1>2. Counted' /\ (Context!NoUseAfterFree => Context!NoUseAfterFree')
  <2>1. ContextProofs!NoUseAfterFree' <=> Context!NoUseAfterFree'
    BY DEF Context!NoUseAfterFree, ContextProofs!NoUseAfterFree
  <2> QED
    BY <1>1, <2>1, SameMemory, Constants, ContextProofs!ReturnCounted
       DEF Counted, Borrowers, ContextProofs!IsFiniteSet, IsFiniteSet
<1>3. /\ Context!TypeOK /\ Context!PrimaryTracked
      /\ borrowed[b] \in {device, NoDevice}
      /\ device = NoDevice <=> device_ref_count = 0
  BY CountedDef DEF Context!RefCountExact
<1>4. CASE UNCHANGED <<device, queued_device, allocated>>
  BY <1>2, <1>4 DEF Context!Return
<1>5. CASE ~ UNCHANGED <<device, queued_device, allocated>>
  <2>1. /\ borrowed[b] = device /\ device # NoDevice /\ device_ref_count = 1
        /\ allocated' = allocated \ {device}
        /\ device' = queued_device /\ queued_device' = NoDevice
    BY <1>3, <1>5, Constants
       DEF Context!Return, Context!device_checkin, Context!device_equal, Context!context,
           Context!TypeOK, Context!MaybeDevice, Context!PrimaryTracked
  <2>2. ~ Context!device_equal(primary_device_ref, device)
    <3>1. ContextProofs!Holders = Context!Holders
      BY DEF ContextProofs!Holders, Context!Holders, ContextProofs!device_equal,
             Context!device_equal
    <3>2. b \in ContextProofs!Holders
      BY <2>1, <3>1 DEF Context!Holders, Borrowers
    <3>3. ContextProofs!Cardinality(ContextProofs!Holders) = 1
      BY <2>1, <3>1 DEF Counted, ContextProofs!Counted, ContextProofs!RefCountExact
    <3>4. ContextProofs!Holders = {b}
      BY <3>2, <3>3, Constants, ContextProofs!LastHolder
         DEF Borrowers, ContextProofs!IsFiniteSet, IsFiniteSet
    <3>5. Owner \notin Context!Holders
      BY <3>1, <3>4, Constants
    <3> QED
      BY <3>5 DEF Context!Holders
  <2> QED
    BY <1>2, <1>3, <2>1, <2>2, Constants
       DEF Context!Return, Context!PrimaryTracked, Context!TypeOK, Context!MaybeDevice,
           Context!device_equal
<1> QED
  BY <1>4, <1>5

\* The handler's device is installed, queued, or another reference to the
\* installed one.
LEMMA InstallContext ==
  ASSUME Counted, primary_device_ref = NoDevice,
         NEW d \in Device, Context!set_device_and_checkout(d), primary_device_ref' = d,
         UNCHANGED <<allocated, borrowing, borrowed>>
  PROVE  /\ Counted'
         /\ Context!NoUseAfterFree /\ d \in allocated => Context!NoUseAfterFree'
         /\ \/ Context!device_equal(d, device) /\ UNCHANGED <<device, queued_device>>
            \/ device = NoDevice /\ device' = d /\ queued_device' = NoDevice
            \/ device # NoDevice /\ UNCHANGED device /\ queued_device' = d
<1>1. ContextProofs!set_device_and_checkout(d)
  BY DEF ContextProofs!set_device_and_checkout, Context!set_device_and_checkout,
         ContextProofs!device_equal, Context!device_equal
<1>2. allocated' \subseteq Device
  BY CountedDef DEF Context!TypeOK
<1>3. Counted' /\ (Context!NoUseAfterFree /\ d \in allocated => Context!NoUseAfterFree')
  <2>1. ContextProofs!NoUseAfterFree' <=> Context!NoUseAfterFree'
    BY DEF Context!NoUseAfterFree, ContextProofs!NoUseAfterFree
  <2>2. Counted' /\ (ContextProofs!NoUseAfterFree /\ allocated \cup {d} \subseteq allocated'
                         => ContextProofs!NoUseAfterFree')
    BY <1>1, <1>2, Constants, ContextProofs!SetCounted
       DEF Counted, Borrowers, ContextProofs!IsFiniteSet, IsFiniteSet
  <2> QED
    BY <2>1, <2>2, SameMemory
<1> QED
  BY <1>3 DEF Context!set_device_and_checkout

\* A checkout hands out the device and leaves it where it is.
LEMMA CheckoutContext ==
  ASSUME Counted, NEW b \in Borrowers, Context!device_checkout(b)
  PROVE  /\ Counted' /\ (Context!NoUseAfterFree => Context!NoUseAfterFree')
         /\ UNCHANGED <<device, queued_device, allocated, primary_device_ref>>
<1>1. ContextProofs!device_checkout(b)
  BY DEF ContextProofs!device_checkout, Context!device_checkout,
         ContextProofs!device_present, Context!device_present
<1>2. Counted' /\ (Context!NoUseAfterFree => Context!NoUseAfterFree')
  <2>1. ContextProofs!NoUseAfterFree' <=> Context!NoUseAfterFree'
    BY DEF Context!NoUseAfterFree, ContextProofs!NoUseAfterFree
  <2> QED
    BY <1>1, <2>1, SameMemory, Constants, ContextProofs!CheckoutCounted
       DEF Counted, Borrowers, ContextProofs!IsFiniteSet, IsFiniteSet
<1> QED
  BY <1>2 DEF Context!device_checkout

\* The object of a new connection is allocated.
LEMMA AllocateContext ==
  ASSUME Counted, NEW d \in Device, allocated' \in {allocated, allocated \cup {d}},
         UNCHANGED <<device, queued_device, device_ref_count, primary_device_ref,
                     borrowing, borrowed>>
  PROVE  Counted' /\ (Context!NoUseAfterFree => Context!NoUseAfterFree')
<1>1. Context!Holders' = Context!Holders
  BY DEF Context!Holders, Context!device_equal
<1>2. Counted'
  <2>1. /\ Context!TypeOK' /\ Context!RefCountExact' /\ Context!PrimaryTracked'
        /\ \A b \in Borrowers : borrowed'[b] \in {device', NoDevice}
    BY <1>1, CountedDef
       DEF Context!TypeOK, Context!RefCountExact, Context!PrimaryTracked,
           Context!device_equal
  <2> QED
    BY <1>1, <2>1
       DEF Counted, ContextProofs!Counted, ContextProofs!TypeOK, Context!TypeOK,
           ContextProofs!RefCountExact, ContextProofs!PrimaryTracked,
           Context!PrimaryTracked, ContextProofs!Shared, ContextProofs!device_equal,
           ContextProofs!Holders, Context!device_equal, ContextProofs!MaybeDevice,
           Context!MaybeDevice, Borrowers
<1> QED
  BY <1>2 DEF Context!NoUseAfterFree

\* A step that does not touch the context.
LEMMA SameContext ==
  ASSUME Counted, UNCHANGED contextVars
  PROVE  Counted' /\ (Context!NoUseAfterFree => Context!NoUseAfterFree')
<1>1. UNCHANGED <<device, queued_device, device_ref_count, allocated, primary_device_ref,
                  borrowing, borrowed>>
  BY DEF contextVars
<1> QED
  BY <1>1
     DEF Counted, ContextProofs!Counted, ContextProofs!TypeOK, ContextProofs!RefCountExact,
         ContextProofs!PrimaryTracked, ContextProofs!Shared, ContextProofs!Holders,
         ContextProofs!device_equal, Context!NoUseAfterFree

-----------------------------------------------------------------------------
(* The selection of the pool.                                              *)

\* The primary is the selected connection; a model is in the list once.
LEMMA Selection ==
  ASSUME Selected
  PROVE  /\ list \in Seq(Device) /\ ToSet(list) \subseteq Device
         /\ Pool!Primary = (IF primary_index = 0 THEN NoDevice ELSE list[primary_index])
         /\ primary_index \in 0 .. Len(list)
         /\ Pool!Primary \in ToSet(list) \cup {NoDevice}
         /\ \A d, e \in ToSet(list) : ModelOf[d] = ModelOf[e] => d = e
<1>1. /\ list \in Seq(Device) /\ DOMAIN list = 1 .. Len(list) /\ Len(list) \in Nat
      /\ primary_index \in 0 .. Len(list)
      /\ \A i, j \in 1 .. Len(list) : ModelOf[list[i]] = ModelOf[list[j]] => i = j
  BY DEF Selected, PoolProofs!Selects
<1>2. Pool!Primary = IF primary_index = 0 THEN NoDevice ELSE list[primary_index]
  BY <1>1 DEF Pool!Primary, Pool!At
<1>3. \A d \in ToSet(list) : \E i \in 1 .. Len(list) : d = list[i]
  BY <1>1 DEF ToSet
<1>4. \A i \in 1 .. Len(list) : list[i] \in ToSet(list)
  BY <1>1 DEF ToSet
<1> QED
  BY <1>1, <1>2, <1>3, <1>4

\* The choices in either instance of ConnectionPool.
LEMMA SamePicks ==
  ASSUME NEW l, NEW p
  PROVE  /\ Pool!pick_primary_index(l) = PoolProofs!pick_primary_index(l)
         /\ Pool!pick_supplemental_index(l, p) = PoolProofs!pick_supplemental_index(l, p)
  BY DEF Pool!pick_primary_index, PoolProofs!pick_primary_index,
         Pool!pick_supplemental_index, PoolProofs!pick_supplemental_index,
         Pool!FirstOrNone, PoolProofs!FirstOrNone, Pool!Min, PoolProofs!Min

\* A device that comes is ignored, or added behind a primary that stays.
LEMMA ArrivePool ==
  ASSUME Selected, NEW d \in Device, Pool!Arrive(d)
  PROVE  /\ Selected'
         /\ \/ /\ Pool!ModelInPool(ModelOf[d])
               /\ UNCHANGED <<list, primary_index>> /\ Pool!Primary' = Pool!Primary
            \/ /\ ~ Pool!ModelInPool(ModelOf[d])
               /\ ToSet(list') = ToSet(list) \cup {d}
               /\ Pool!Primary # NoDevice => Pool!Primary' = Pool!Primary
<1>1. CASE Pool!ModelInPool(ModelOf[d])
  <2>1. UNCHANGED <<list, primary_index, supplemental_index>>
    BY <1>1 DEF Pool!Arrive, Pool!connection_pool_handle_device_added
  <2> QED
    BY <1>1, <2>1 DEF Selected, Pool!Primary, Pool!At
<1>2. CASE ~ Pool!ModelInPool(ModelOf[d])
  <2>1. /\ list' = Append(list, d)
        /\ primary_index' = IF primary_index = 0 THEN Pool!pick_primary_index(list')
                                                 ELSE primary_index
        /\ supplemental_index' = IF supplemental_index = 0
                                 THEN Pool!pick_supplemental_index(list', primary_index')
                                 ELSE supplemental_index
    BY <1>2 DEF Pool!Arrive, Pool!connection_pool_handle_device_added
  <2>2. \A e \in ToSet(list) : ModelOf[e] # ModelOf[d]
    BY <1>2 DEF Pool!ModelInPool, Pool!ToSet, ToSet
  <2>3. Selected'
    BY <2>1, <2>2, SamePicks, Constants, PoolProofs!AddedSelects
       DEF Selected, PoolProofs!ToSet, ToSet
  <2>4. ToSet(list') = ToSet(list) \cup {d}
    BY <2>1, Selection, Constants, PoolProofs!AddedConnections DEF PoolProofs!ToSet, ToSet
  <2>5. ASSUME Pool!Primary # NoDevice PROVE Pool!Primary' = Pool!Primary
    <3>1. primary_index \in 1 .. Len(list) /\ primary_index' = primary_index
      BY <2>1, <2>5, Selection
    <3> QED
      BY <2>1, <3>1, Selection DEF Pool!Primary, Pool!At
  <2> QED
    BY <1>2, <2>3, <2>4, <2>5
<1> QED
  BY <1>1, <1>2

\* A removal takes one connection; glasses that are primary and stay are primary.
LEMMA LeavePool ==
  ASSUME Selected, NEW d \in Device, Pool!Leave(d)
  PROVE  /\ Selected' /\ ToSet(list') \subseteq ToSet(list)
         /\ ~ Pool!ModelInPool(ModelOf[d]) => Pool!Primary' = Pool!Primary
         /\ GlassesOnly /\ Pool!Primary \in ToSet(list') => Pool!Primary' = Pool!Primary
<1>1. CASE ~ Pool!ModelInPool(ModelOf[d])
  BY <1>1 DEF Pool!Leave, Pool!pool, Selected, Pool!Primary, Pool!At
<1>2. CASE Pool!ModelInPool(ModelOf[d])
  <2> DEFINE i == Pool!find_driver_connection_index(DriverOf[d])
  <2>1. /\ i # 0 /\ list' = RemoveAt(list, i)
        /\ primary_index' = Pool!pick_primary_index(list')
        /\ supplemental_index' = Pool!pick_supplemental_index(list', primary_index')
    BY <1>2 DEF Pool!Leave, Pool!connection_pool_handle_device_removed, Pool!RemoveAt,
                RemoveAt
  <2>2. i \in 1 .. Len(list)
    <3>1. {k \in DOMAIN list : DriverOf[list[k]] = DriverOf[d]} \subseteq Nat \ {0}
      BY Selection
    <3>2. i = PoolProofs!FirstOrNone({k \in DOMAIN list : DriverOf[list[k]] = DriverOf[d]})
      BY DEF Pool!find_driver_connection_index, Pool!FirstOrNone, PoolProofs!FirstOrNone,
             Pool!Min, PoolProofs!Min
    <3> QED
      BY <2>1, <3>1, <3>2, Selection, Constants, PoolProofs!FirstIndex
  <2> HIDE DEF i
  <2>3. Selected'
    BY <2>1, <2>2, SamePicks, Constants, PoolProofs!RemovedSelects
       DEF Selected, PoolProofs!RemoveAt, RemoveAt
  <2>4. ToSet(list') = ToSet(list) \ {list[i]}
    <3>1. list' = PoolProofs!RemoveAt(list, i)
      BY <2>1 DEF PoolProofs!RemoveAt, RemoveAt
    <3>2. PoolProofs!ToSet(PoolProofs!RemoveAt(list, i)) = PoolProofs!ToSet(list) \ {list[i]}
      BY <2>2, Constants, PoolProofs!RemovedConnections DEF Selected
    <3> QED
      BY <3>1, <3>2 DEF PoolProofs!ToSet, ToSet
  <2>5. ASSUME GlassesOnly, Pool!Primary \in ToSet(list')
        PROVE  Pool!Primary' = Pool!Primary
    <3>1. primary_index # 0 /\ Pool!Primary = list[primary_index] /\ i # primary_index
      BY <2>4, <2>5, Selection, Constants
    <3>2. /\ primary_index' \in 1 .. Len(list')
          /\ list'[primary_index'] = list[primary_index]
      <4>1. /\ list' = PoolProofs!RemoveAt(list, i)
            /\ primary_index' = PoolProofs!pick_primary_index(list')
        BY <2>1, SamePicks DEF PoolProofs!RemoveAt, RemoveAt
      <4>2. list[primary_index] \notin CanBeSupplemental
        BY <2>5 DEF GlassesOnly
      <4> QED
        BY <2>2, <3>1, <4>1, <4>2, Constants, PoolProofs!GlassesKept DEF Selected
    <3>3. list' \in Seq(Device)
      BY <2>3 DEF Selected, PoolProofs!Selects
    <3> QED
      BY <3>1, <3>2, <3>3 DEF Pool!Primary, Pool!At
  <2> QED
    BY <1>2, <2>3, <2>4, <2>5
<1> QED
  BY <1>1, <1>2

-----------------------------------------------------------------------------
(* The steps of the driver, by what they do to the invariants.             *)

HandlerMoves ==
    \E h \in Handler : (\E d \in Device : Arrive(h, d) \/ Leave(h, d)) \/ HandlerStep(h)

selection == <<list, primary_index, supplemental_index, handler>>
readiness == <<block_on_device_ready, disabled, force_quit, disconnecting, evaluating>>

\* A thread other than the handler borrows the device.
Borrows ==
    /\ \E b \in Borrowers : Context!device_checkout(b)
    /\ UNCHANGED <<selection, readiness>>

\* Or gives it back, and owes the callback if that changed the device.
GivesBack ==
    /\ \E b \in Borrowers : Context!Return(b) /\ OwesCallback(b)
    /\ UNCHANGED <<selection, block_on_device_ready, disabled, force_quit, disconnecting>>

\* Or sets the flag; or changes its conditions and is about to call back; or
\* does something else.
Evaluates ==
    /\ block_on_device_ready' = (force_quit \/ (~disabled /\ Context!device_present))
    /\ UNCHANGED <<disabled, force_quit>>
Announces == evaluating' # {} \/ disconnecting' # {}
Rests ==
    /\ UNCHANGED <<selection, contextVars>>
    /\ Evaluates \/ Announces \/ UNCHANGED readiness

\* The steps of the pool's threads and calls do not touch the selection.
LEMMA PoolSteps ==
  ASSUME \/ \E c \in Device : Pool!ThreadBlocks(c) \/ Pool!ThreadUnblocks(c)
                                \/ Pool!ThreadExits(c) \/ Pool!StreamConnected(c)
         \/ \E drv \in Driver : Pool!ConnectionLost(drv)
         \/ Pool!connection_pool_disconnect_all \/ Pool!connection_pool_connect_active
         \/ Pool!BlockThread
  PROVE  UNCHANGED <<list, primary_index, supplemental_index>>
  BY DEF Pool!ThreadBlocks, Pool!ThreadUnblocks, Pool!ThreadExits, Pool!StreamConnected,
         Pool!ConnectionLost, Pool!connection_pool_disconnect_all,
         Pool!connection_pool_connect_active, Pool!BlockThread, Pool!ConnectPrimary,
         Pool!ConnectSupplemental, Pool!connection_pool_block_on_active, Pool!ReadRunning,
         Pool!JoinPrimary, Pool!StopSupplemental, Pool!JoinSupplemental, Pool!Finish,
         Pool!pool

\* Nor do those of block_on_device_thread_func touch anything else than the pool.
LEMMA BlockSteps == BlockThread => Rests
<1> SUFFICES ASSUME BlockThread PROVE Rests
  OBVIOUS
<1>1. UNCHANGED <<contextVars, handler, readiness>>
  BY DEF BlockThread, BlockLoop, BlockWait, BlockConnect, BlockConnecting, BlockStart,
         BlockOnActive, BlockStop, BlockAfter, BlockTo, readiness
<1>2. UNCHANGED <<list, primary_index, supplemental_index>>
  <2>1. CASE BlockLoop \/ BlockWait \/ BlockStart \/ BlockStop \/ BlockAfter
    BY <2>1 DEF BlockLoop, BlockWait, BlockStart, BlockStop, BlockAfter, poolVars
  <2>2. CASE BlockConnect \/ BlockConnecting \/ BlockOnActive
    BY <2>2, PoolSteps
       DEF BlockConnect, BlockConnecting, BlockOnActive, Pool!BlockThread,
           Pool!connection_pool_block_on_active, poolVars
  <2> QED
    BY <2>1, <2>2 DEF BlockThread
<1> QED
  BY <1>1, <1>2 DEF Rests, selection

\* Every step is the handler's or one of these.
LEMMA Steps == [Next]_vars => HandlerMoves \/ Borrows \/ GivesBack \/ Rests
<1> SUFFICES ASSUME [Next]_vars PROVE HandlerMoves \/ Borrows \/ GivesBack \/ Rests
  OBVIOUS
<1> USE DEF selection, readiness
<1>1. ASSUME NEW t \in Thread, evaluate_block_on_device_ready(t) PROVE Rests
  BY <1>1 DEF evaluate_block_on_device_ready, Rests, Evaluates, poolVars
<1>2. CASE StateCheckout
  BY <1>2 DEF StateCheckout, Borrows, Borrowers, poolVars, driverVars
<1>3. CASE StateCheckin
  BY <1>3 DEF StateCheckin, GivesBack, Borrowers, poolVars
<1>4. ASSUME NEW c \in Device, ThreadBlocks(c) PROVE Borrows
  BY <1>4, PoolSteps DEF ThreadBlocks, Borrows, Borrowers, driverVars
<1>5. ASSUME NEW c \in Device, ThreadUnblocks(c) \/ ThreadExits(c) PROVE Rests
  BY <1>5, PoolSteps DEF ThreadUnblocks, ThreadExits, Rests, driverVars
<1>6. ASSUME NEW c \in Device, ThreadCheckin(c) PROVE GivesBack
  BY <1>6 DEF ThreadCheckin, GivesBack, Borrowers, poolVars
<1>7. CASE ConnectionChanges
  BY <1>7, PoolSteps DEF ConnectionChanges, Rests, driverVars
<1>8. ASSUME NEW value \in BOOLEAN, SetDisabled(value) PROVE Rests
  BY <1>8 DEF SetDisabled, Rests, Announces, poolVars
<1>9. CASE Quit
  BY <1>9 DEF Quit, Rests, Announces, poolVars
<1>10. ASSUME NEW t \in {ConfigThread, ControlThread}, DisconnectAll(t) PROVE Rests
  <2>1. UNCHANGED <<list, primary_index, supplemental_index>>
    BY <1>10, PoolSteps DEF DisconnectAll, poolVars
  <2> QED
    BY <1>10, <2>1 DEF DisconnectAll, Rests, Announces
<1>11. CASE UNCHANGED vars
  BY <1>11 DEF vars, poolVars, driverVars, Rests
<1> QED
  BY <1>1, <1>2, <1>3, <1>4, <1>5, <1>6, <1>7, <1>8, <1>9, <1>10, <1>11, BlockSteps
     DEF Next, HandlerMoves

-----------------------------------------------------------------------------
(* The count of references.                                                *)

\* Nothing is plugged in, and nothing is held.
LEMMA InitCountInv == Init => CountInv
<1> SUFFICES ASSUME Init PROVE CountInv
  OBVIOUS
<1>1. list = <<>> /\ Len(list) = 0 /\ primary_index = 0 /\ supplemental_index = 0
  BY DEF Init, Pool!Init
<1>2. Selected
  BY <1>1 DEF Selected, PoolProofs!Selects
<1>3. Pool!Primary = NoDevice
  BY <1>1 DEF Pool!Primary, Pool!At
<1>4. Counted
  <2>1. ContextProofs!Init
    BY DEF Init, Context!Init, ContextProofs!Init
  <2> QED
    BY <2>1, Constants, ContextProofs!InitIInv
       DEF Counted, ContextProofs!IInv, Borrowers, ContextProofs!IsFiniteSet, IsFiniteSet
<1>5. Handling
  BY <1>3 DEF Init, Context!Init, Handling, Idle, MaybeDevice
<1> QED
  BY <1>2, <1>4, <1>5 DEF CountInv

\* What the handler finds when it is alone.
LEMMA Alone ==
  ASSUME OneHandler, NEW h \in Handler
  PROVE  \A g \in Handler : g = h
  BY DEF OneHandler

\* Plugging and unplugging change the selection between two events.
LEMMA EventCountInv ==
  ASSUME OneHandler, CountInv, NEW h \in Handler, NEW d \in Device,
         Arrive(h, d) \/ Leave(h, d)
  PROVE  CountInv'
<1> USE Alone DEF CountInv
<1>1. CASE Arrive(h, d)
  <2>1. Selected'
    BY <1>1, ArrivePool DEF Arrive
  <2>2. Counted'
    BY <1>1, AllocateContext DEF Arrive
  <2>3. Handling'
    BY <1>1 DEF Arrive, At, Handling, MaybeDevice
  <2> QED
    BY <2>1, <2>2, <2>3
<1>2. CASE Leave(h, d)
  <2>1. Selected' /\ (~ Pool!ModelInPool(ModelOf[d]) => Pool!Primary' = Pool!Primary)
    BY <1>2, LeavePool DEF Leave
  <2>2. Counted'
    BY <1>2, SameContext DEF Leave
  <2>3. Handling'
    BY <1>2, <2>1 DEF Leave, At, Handling, MaybeDevice, contextVars
  <2> QED
    BY <2>1, <2>2, <2>3
<1> QED
  BY <1>1, <1>2

\* Within an event the handler gives back one reference and takes another.
LEMMA HandlerCountInv ==
  ASSUME OneHandler, CountInv, NEW h \in Handler, HandlerStep(h)
  PROVE  CountInv'
<1> USE Alone DEF CountInv
<1>1. UNCHANGED <<list, primary_index, supplemental_index>>
  BY DEF HandlerStep, Select, Release, Unready, Install, poolVars
<1>2. Selected' /\ Pool!Primary' = Pool!Primary
  BY <1>1 DEF Selected, Pool!Primary, Pool!At
<1>3. Pool!Primary \in MaybeDevice
  BY Selection DEF MaybeDevice
<1>4. CASE Select(h)
  <2>1. Counted'
    BY <1>4, SameContext DEF Select
  <2>2. Handling'
    <3>1. handler[h].pc = "select" /\ UNCHANGED primary_device_ref
      BY <1>4 DEF Select, At, contextVars
    <3>2. CASE Pool!Primary = primary_device_ref
      <4>1. handler' = [handler EXCEPT ![h] = Idle]
        BY <1>4, <3>2 DEF Select
      <4> QED
        BY <1>2, <3>1, <3>2, <4>1 DEF Handling, Idle, MaybeDevice
    <3>3. CASE Pool!Primary # primary_device_ref /\ primary_device_ref # NoDevice
      <4>1. handler' = [handler EXCEPT ![h] = [pc |-> "release", new |-> Pool!Primary]]
        BY <1>4, <3>3 DEF Select
      <4> QED
        BY <1>2, <1>3, <3>1, <3>3, <4>1 DEF Handling
    <3>4. CASE Pool!Primary # primary_device_ref /\ primary_device_ref = NoDevice
      <4>1. handler' = [handler EXCEPT ![h] = [pc |-> "install", new |-> Pool!Primary]]
        BY <1>4, <3>4 DEF Select
      <4> QED
        BY <1>2, <1>3, <3>1, <3>4, <4>1 DEF Handling
    <3> QED
      BY <3>2, <3>3, <3>4
  <2> QED
    BY <1>2, <2>1, <2>2
<1>5. CASE Release(h)
  <2>1. Counted'
    BY <1>5, ReleaseContext DEF Release, At, Handling
  <2>2. Handling'
    BY <1>2, <1>5 DEF Release, At, Handling, MaybeDevice
  <2> QED
    BY <1>2, <2>1, <2>2
<1>6. CASE Unready(h)
  <2>1. Counted'
    BY <1>6, SameContext DEF Unready
  <2>2. Handling'
    BY <1>2, <1>6 DEF Unready, At, Handling, Idle, MaybeDevice, contextVars
  <2> QED
    BY <1>2, <2>1, <2>2
<1>7. CASE Install(h)
  <2>1. Counted'
    BY <1>7, InstallContext DEF Install, At, Handling, MaybeDevice
  <2>2. Handling'
    BY <1>2, <1>7 DEF Install, At, Handling, Idle, MaybeDevice
  <2> QED
    BY <1>2, <2>1, <2>2
<1> QED
  BY <1>4, <1>5, <1>6, <1>7 DEF HandlerStep

\* The other threads borrow and give back, at any time.
LEMMA NextCountInv == OneHandler /\ CountInv /\ [Next]_vars => CountInv'
<1> SUFFICES ASSUME OneHandler, CountInv, [Next]_vars PROVE CountInv'
  OBVIOUS
<1>1. CASE HandlerMoves
  BY <1>1, EventCountInv, HandlerCountInv DEF HandlerMoves
<1>2. CASE Borrows \/ GivesBack \/ Rests
  <2>1. UNCHANGED selection
    BY <1>2 DEF Borrows, GivesBack, Rests
  <2>2. Selected' /\ Pool!Primary' = Pool!Primary
    BY <2>1 DEF CountInv, Selected, Pool!Primary, Pool!At, selection
  <2>3. Counted' /\ UNCHANGED primary_device_ref
    <3>1. CASE Borrows
      BY <3>1, CheckoutContext DEF Borrows, CountInv
    <3>2. CASE GivesBack
      BY <3>2, ReturnContext DEF GivesBack, CountInv
    <3>3. CASE Rests
      BY <3>3, SameContext DEF Rests, CountInv, contextVars
    <3> QED
      BY <1>2, <3>1, <3>2, <3>3
  <2>4. Handling'
    BY <2>1, <2>2, <2>3 DEF CountInv, Handling, selection
  <2> QED
    BY <2>2, <2>3, <2>4 DEF CountInv
<1> QED
  BY <1>1, <1>2, Steps

\* With one thread handling hotplug events, the invariant always holds.
THEOREM Counting == ASSUME OneHandler PROVE Spec => []CountInv
  BY InitCountInv, NextCountInv, PTL DEF Spec

\* device_ref_count is the number of outstanding references, whatever the pool,
\* its threads and the user do during the hotplug handler's steps.
THEOREM ReferencesExact == ASSUME OneHandler PROVE Spec => []ReferencesCounted
<1>1. CountInv => ReferencesCounted
  BY CountedDef DEF CountInv, ReferencesCounted
<1> QED
  BY <1>1, Counting, PTL

-----------------------------------------------------------------------------
(* The devices of the pool.                                                *)

\* A new connection's object is allocated, and is neither the handler's nor the
\* installed one; a removal leaves the primary.
LEMMA EventLiving ==
  ASSUME OneHandler, GlassesOnly, CountInv, Living, NEW h \in Handler, NEW d \in Device,
         Arrive(h, d) \/ Leave(h, d)
  PROVE  Living'
<1> USE Alone DEF CountInv, Living
<1>1. primary_device_ref = Pool!Primary
  BY DEF Arrive, Leave, At, Handling
<1>2. CASE Arrive(h, d)
  <2>1. /\ UNCHANGED <<device, primary_device_ref>>
        /\ d # primary_device_ref /\ d # device
        /\ allocated' = IF Pool!ModelInPool(ModelOf[d]) THEN allocated
                                                       ELSE allocated \cup {d}
    BY <1>2 DEF Arrive, Referenced
  <2>2. Context!NoUseAfterFree'
    BY <1>2, AllocateContext DEF Arrive
  <2>3. \/ Pool!ModelInPool(ModelOf[d]) /\ UNCHANGED list /\ Pool!Primary' = Pool!Primary
        \/ /\ ~ Pool!ModelInPool(ModelOf[d]) /\ ToSet(list') = ToSet(list) \cup {d}
           /\ Pool!Primary # NoDevice => Pool!Primary' = Pool!Primary
    BY <1>2, ArrivePool DEF Arrive
  <2>4. primary_device_ref \in ToSet(list') => primary_device_ref # NoDevice
    BY <2>1, <2>3, Selection, Constants
  <2> QED
    BY <1>1, <2>1, <2>2, <2>3, <2>4
<1>3. CASE Leave(h, d)
  <2>1. UNCHANGED contextVars
    BY <1>3 DEF Leave
  <2>2. /\ ToSet(list') \subseteq ToSet(list)
        /\ Pool!Primary \in ToSet(list') => Pool!Primary' = Pool!Primary
    BY <1>3, LeavePool DEF Leave
  <2> QED
    BY <1>1, <2>1, <2>2, SameContext DEF contextVars
<1> QED
  BY <1>2, <1>3

\* The handler gives up a device whose connection is gone, and takes the primary.
LEMMA HandlerLiving ==
  ASSUME OneHandler, CountInv, Living, NEW h \in Handler, HandlerStep(h)
  PROVE  Living'
<1> USE Alone DEF CountInv, Living
<1>1. UNCHANGED list /\ Pool!Primary' = Pool!Primary
  BY DEF HandlerStep, Select, Release, Unready, Install, poolVars, Pool!Primary, Pool!At
<1>2. CASE Select(h) \/ Unready(h)
  BY <1>1, <1>2, SameContext DEF Select, Unready, contextVars
<1>3. CASE Release(h)
  <2>1. primary_device_ref \notin ToSet(list) /\ primary_device_ref # NoDevice
    BY <1>3 DEF Release, At, Handling
  <2>2. device \notin ToSet(list)
    BY <2>1
  <2>3. /\ Context!NoUseAfterFree'
        /\ device' \in {device, NoDevice}
        /\ allocated \ {device, primary_device_ref} \subseteq allocated'
    BY <1>3, <2>1, ReleaseContext DEF Release
  <2>4. primary_device_ref' = NoDevice /\ NoDevice \notin ToSet(list)
    BY <1>3, Selection, Constants DEF Release
  <2> QED
    BY <1>1, <2>1, <2>2, <2>3, <2>4
<1>4. CASE Install(h)
  <2>1. /\ primary_device_ref = NoDevice /\ handler[h].new = Pool!Primary
        /\ Pool!Primary \in ToSet(list) /\ Pool!Primary \in Device
    BY <1>4, Selection DEF Install, At, Handling
  <2>2. device \notin ToSet(list)
    BY <2>1, Selection, Constants
  <2>3. /\ primary_device_ref' = Pool!Primary /\ UNCHANGED allocated
        /\ device' \in {device, Pool!Primary}
        /\ Context!NoUseAfterFree'
    BY <1>4, <2>1, InstallContext DEF Install
  <2> QED
    BY <1>1, <2>1, <2>2, <2>3
<1> QED
  BY <1>2, <1>3, <1>4 DEF HandlerStep

\* A borrower that frees the device frees none of the pool's.
LEMMA NextLiving ==
  ASSUME OneHandler, GlassesOnly, CountInv, Living, [Next]_vars
  PROVE  Living'
<1> USE DEF CountInv, Living
<1>1. CASE HandlerMoves
  BY <1>1, EventLiving, HandlerLiving DEF HandlerMoves
<1>2. CASE Borrows \/ GivesBack \/ Rests
  <2>1. UNCHANGED list /\ Pool!Primary' = Pool!Primary
    BY <1>2 DEF Borrows, GivesBack, Rests, selection, Pool!Primary, Pool!At
  <2>2. CASE Borrows
    BY <2>1, <2>2, CheckoutContext DEF Borrows
  <2>3. CASE Rests
    BY <2>1, <2>3, SameContext DEF Rests, contextVars
  <2>4. CASE GivesBack
    <3>1. /\ Context!NoUseAfterFree' /\ UNCHANGED primary_device_ref
          /\ \/ UNCHANGED <<device, allocated>>
             \/ /\ device # primary_device_ref /\ device' = primary_device_ref
                /\ allocated' = allocated \ {device}
      BY <2>4, ReturnContext DEF GivesBack
    <3> QED
      BY <2>1, <3>1
  <2> QED
    BY <1>2, <2>2, <2>3, <2>4
<1> QED
  BY <1>1, <1>2, Steps

\* Every device is allocated as long as its connection is in the pool.
THEOREM Lifetimes == ASSUME OneHandler, GlassesOnly PROVE Spec => [](CountInv /\ Living)
<1>1. Init => Living
  BY Constants DEF Init, Pool!Init, Context!Init, Living, ToSet, Context!NoUseAfterFree
<1>2. CountInv /\ Living /\ [Next]_vars => Living'
  BY NextLiving
<1> QED
  BY <1>1, <1>2, Counting, PTL DEF Spec

\* No device is freed under the context, under a borrower, under the handler or,
\* between two hotplug events, under the pool.
THEOREM DevicesLive == ASSUME OneHandler, GlassesOnly PROVE Spec => []DevicesAllocated
<1>1. CountInv /\ Living => DevicesAllocated
  <2> SUFFICES ASSUME CountInv, Living PROVE DevicesAllocated
    OBVIOUS
  <2>1. Pool!Primary \in allocated \cup {NoDevice}
    BY Selection DEF CountInv, Living
  <2> QED
    BY <2>1 DEF CountInv, Living, Handling, DevicesAllocated
<1> QED
  BY <1>1, Lifetimes, PTL

-----------------------------------------------------------------------------
(* The readiness of the block_on_device thread.                            *)

\* A connection is added only for a model that is neither in the pool nor the
\* installed device's.
LEMMA EventDistinct ==
  ASSUME OneHandler, SlowReplug, CountInv, Distinct, NEW h \in Handler, NEW d \in Device,
         Arrive(h, d) \/ Leave(h, d)
  PROVE  Distinct'
<1> USE Alone DEF CountInv, Distinct
<1>1. primary_device_ref = Pool!Primary
  BY DEF Arrive, Leave, At, Handling
<1>2. UNCHANGED <<device, primary_device_ref>>
  BY DEF Arrive, Leave, contextVars
<1>3. CASE Arrive(h, d)
  <2>1. ~ Context!device_equal(d, device)
    BY <1>3 DEF Arrive
  <2>2. \/ UNCHANGED list
        \/ ~ Pool!ModelInPool(ModelOf[d]) /\ ToSet(list') = ToSet(list) \cup {d}
    BY <1>3, ArrivePool DEF Arrive
  <2>3. ASSUME ~ Pool!ModelInPool(ModelOf[d])
        PROVE  ~ Context!device_equal(d, primary_device_ref)
    BY <1>1, <2>3, Selection
       DEF Pool!ModelInPool, Pool!ToSet, ToSet, Context!device_equal
  <2> QED
    BY <1>2, <2>1, <2>2, <2>3 DEF Context!device_equal
<1>4. CASE Leave(h, d)
  <2>1. ToSet(list') \subseteq ToSet(list)
    BY <1>4, LeavePool DEF Leave
  <2> QED
    BY <1>2, <2>1 DEF Context!device_equal
<1> QED
  BY <1>3, <1>4

\* The handler gives up a device whose connection is gone, and with it the model.
LEMMA HandlerDistinct ==
  ASSUME OneHandler, CountInv, Living, Distinct, NEW h \in Handler, HandlerStep(h)
  PROVE  Distinct'
<1> USE Alone DEF CountInv, Distinct
<1>1. UNCHANGED list
  BY DEF HandlerStep, Select, Release, Unready, Install, poolVars
<1>2. CASE Select(h) \/ Unready(h)
  BY <1>1, <1>2 DEF Select, Unready, contextVars, Context!device_equal
<1>3. CASE Release(h)
  <2>1. primary_device_ref \notin ToSet(list) /\ primary_device_ref # NoDevice
    BY <1>3 DEF Release, At, Handling, Living
  <2>2. \A d \in ToSet(list) : ~ Context!device_equal(d, device)
    BY <2>1
  <2>3. device' \in {device, NoDevice} /\ primary_device_ref' = NoDevice
    BY <1>3, <2>1, ReleaseContext DEF Release
  <2> QED
    BY <1>1, <2>2, <2>3 DEF Context!device_equal
<1>4. CASE Install(h)
  <2>1. /\ primary_device_ref = NoDevice /\ handler[h].new = Pool!Primary
        /\ Pool!Primary \in ToSet(list) /\ Pool!Primary \in Device
    BY <1>4, Selection DEF Install, At, Handling
  <2>2. \A d \in ToSet(list) : ~ Context!device_equal(d, device)
    BY <2>1, Selection, Constants
  <2>3. primary_device_ref' = Pool!Primary /\ device' \in {device, Pool!Primary}
    BY <1>4, <2>1, InstallContext DEF Install
  <2> QED
    BY <1>1, <2>1, <2>2, <2>3, Selection DEF Context!device_equal
<1> QED
  BY <1>2, <1>3, <1>4 DEF HandlerStep

\* A device that is handed over is the handler's.
LEMMA NextDistinct ==
  ASSUME OneHandler, SlowReplug, CountInv, Living, Distinct, [Next]_vars
  PROVE  Distinct'
<1>1. CASE HandlerMoves
  BY <1>1, EventDistinct, HandlerDistinct DEF HandlerMoves
<1>2. CASE Borrows \/ GivesBack \/ Rests
  <2>1. UNCHANGED list
    BY <1>2 DEF Borrows, GivesBack, Rests, selection
  <2>2. UNCHANGED primary_device_ref /\ device' \in {device, primary_device_ref}
    <3>1. CASE Borrows
      BY <3>1, CheckoutContext DEF Borrows, CountInv
    <3>2. CASE GivesBack
      BY <3>2, ReturnContext DEF GivesBack, CountInv
    <3>3. CASE Rests
      BY <3>3 DEF Rests, contextVars
    <3> QED
      BY <1>2, <3>1, <3>2, <3>3
  <2> QED
    BY <2>1, <2>2 DEF Distinct, Context!device_equal
<1> QED
  BY <1>1, <1>2, Steps

\* What makes the device present also owes the callback, and what makes the flag
\* stale does so with the device gone.
LEMMA HandlerSettled ==
  ASSUME OneHandler, CountInv, Distinct, Settled, NEW h \in Handler,
         (\E d \in Device : Arrive(h, d) \/ Leave(h, d)) \/ HandlerStep(h)
  PROVE  Settled'
<1> USE Alone DEF CountInv
<1>1. CASE \E d \in Device : Arrive(h, d) \/ Leave(h, d)
  BY <1>1 DEF Arrive, Leave, contextVars, Settled, Context!device_equal
<1>2. CASE Select(h)
  BY <1>2 DEF Select, contextVars, Settled, Context!device_equal
<1>3. CASE Release(h) \/ Unready(h)
  <2>1. primary_device_ref' = NoDevice
    BY <1>3 DEF Release, Unready, At, Handling, contextVars
  <2> QED
    BY <2>1 DEF Settled, Context!device_equal
<1>4. CASE Install(h)
  <2>1. /\ primary_device_ref = NoDevice /\ handler[h].new = Pool!Primary
        /\ Pool!Primary \in ToSet(list) /\ Pool!Primary \in Device
    BY <1>4, Selection DEF Install, At, Handling
  <2>2. ~ Context!device_equal(Pool!Primary, device)
    BY <2>1, Constants DEF Distinct
  <2>3. device' # device \/ queued_device' # NoDevice
    BY <1>4, <2>1, <2>2, InstallContext, Constants DEF Install
  <2>4. evaluating' # {} \/ queued_device' # NoDevice
    BY <1>4, <2>3 DEF Install, OwesCallback
  <2> QED
    BY <2>4 DEF Settled
<1> QED
  BY <1>1, <1>2, <1>3, <1>4 DEF HandlerStep

\* So do the other threads.
LEMMA NextSettled ==
  ASSUME OneHandler, CountInv, Distinct, Settled, [Next]_vars
  PROVE  Settled'
<1>1. CASE HandlerMoves
  BY <1>1, HandlerSettled DEF HandlerMoves
<1>2. CASE Borrows
  BY <1>2, CheckoutContext
     DEF Borrows, readiness, CountInv, Settled, Context!device_equal
<1>3. CASE GivesBack
  <2>1. PICK b \in Borrowers : Context!Return(b) /\ OwesCallback(b)
    BY <1>3 DEF GivesBack
  <2>2. CASE UNCHANGED <<device, queued_device>>
    BY <1>3, <2>1, <2>2, ReturnContext
       DEF GivesBack, OwesCallback, CountInv, Settled, Context!device_equal
  <2>3. CASE device' # device
    BY <2>1, <2>3 DEF OwesCallback, Settled
  <2> QED
    BY <2>1, <2>2, <2>3, ReturnContext DEF CountInv
<1>4. CASE Rests
  <2>1. UNCHANGED <<device, queued_device, primary_device_ref>>
    BY <1>4 DEF Rests, contextVars
  <2>2. CASE Evaluates
    BY <2>1, <2>2
       DEF Evaluates, Settled, Context!device_present, Context!device_equal
  <2>3. CASE Announces
    BY <2>3 DEF Announces, Settled
  <2>4. CASE UNCHANGED readiness
    BY <2>1, <2>4 DEF readiness, Settled, Context!device_equal
  <2> QED
    BY <1>4, <2>2, <2>3, <2>4 DEF Rests
<1> QED
  BY <1>1, <1>2, <1>3, <1>4, Steps

\* block_on_device_ready is what its conditions are, when nobody has anything left
\* to do about a change: unless glasses are plugged in again while their last
\* object is held, for which it is not.
THEOREM ReadinessCurrent ==
  ASSUME OneHandler, GlassesOnly, SlowReplug PROVE Spec => []ReadySettled
<1>1. Init => Distinct /\ Settled
  BY DEF Init, Pool!Init, Context!Init, Distinct, Settled, ToSet, Context!device_equal
<1>2. CountInv /\ Living /\ Distinct /\ Settled /\ [Next]_vars => Distinct' /\ Settled'
  BY NextDistinct, NextSettled
<1>3. Settled => ReadySettled
  BY DEF Settled, ReadySettled
<1> QED
  BY <1>1, <1>2, <1>3, Lifetimes, PTL DEF Spec

=============================================================================
