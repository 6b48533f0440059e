------------------------ MODULE DeviceSessionsProofs ------------------------
(***************************************************************************)
(* Proofs, for any glasses of the four vendors and any number of hotplug   *)
(* events that wait, of the types of all drivers, that nothing of RayNeo's *)
(* and VITURE's SDKs is left open when the glasses are gone, and that      *)
(* VITURE glasses show what the user has chosen between sessions.          *)
(***************************************************************************)
EXTENDS DeviceSessions, SequenceTheorems, TLAPS

-----------------------------------------------------------------------------
(* The bus, the hotplug events and the pool.                               *)

\* The pool knows glasses, or the hotplug thread is going to hear of some.
Awaited ==
    entry # NoGlasses \/ usb # "idle" \/ \E i \in DOMAIN events : events[i].kind = "arrived"

\* All that is said and known at a time is about glasses of one model.
About(g) ==
    /\ {plugged, entry, arriving} \subseteq {g, NoGlasses}
    /\ \A i \in DOMAIN events : events[i].glasses = g

\* The last event that waits says what is plugged in; when none does, the pool
\* and the hotplug thread know of nothing else.
Bus ==
    /\ \E g \in Glasses \cup {NoGlasses} : About(g)
    /\ events # <<>> =>
          events[Len(events)].kind = IF plugged = NoGlasses THEN "left" ELSE "arrived"
    /\ events = <<>> /\ plugged = NoGlasses => usb = "idle" /\ entry = NoGlasses
    /\ plugged # NoGlasses => Awaited

-----------------------------------------------------------------------------
(* The vendors.                                                            *)

\* A session's threads run while it blocks, and it blocks with an open IMU.
Threads ==
    /\ session \notin {"wait", "store", "loop", "join"} => imu_thread = "none"
    /\ session = "connected_imu" /\ connected => imu # "null"
    /\ session \in {"connected", "block"} => imu # "null"

XrealInv == Xreal!HostTypeOK /\ Xreal!TypeOK /\ Threads

\* The glasses that are connected are going to be removed.
RayneoInv ==
    /\ Rayneo!HostTypeOK /\ Rayneo!TypeOK /\ Bus
    /\ hard_connected => Awaited

RokidInv == Rokid!HostTypeOK /\ Rokid!TypeOK

\* What the glasses showed is saved.
Overridden == reachable /\ saved # Viture!NothingSaved

\* A display that is not the user's can be, and will be, restored.
Restorable ==
    /\ reachable => provider # NoGlasses /\ provider = plugged
    /\ Overridden => connected /\ {provider, product} \subseteq NativeDof
    /\ plugged # NoGlasses => Shown(IF Overridden THEN saved ELSE display) = Shown(chosen)

\* A failed connect cleans up by itself, any other provider is shut down by a
\* removal.
VitureInv ==
    /\ Viture!HostTypeOK /\ Viture!TypeOK /\ Bus
    /\ session = "opening" => ~connected
    /\ provider # NoGlasses /\ session # "cleanup" => Awaited
    /\ Restorable

IInv ==
    /\ driver \in Drivers
    /\ driver = "xreal" => XrealInv
    /\ driver = "rayneo" => RayneoInv
    /\ driver = "rokid" => RokidInv
    /\ driver = "viture" => VitureInv

-----------------------------------------------------------------------------
(* What the steps of all drivers do to the host.                           *)

Event(G) == [kind : {"arrived", "left"}, glasses : G]

BusTyped(G) ==
    /\ plugged \in G \cup {NoGlasses}
    /\ events \in Seq(Event(G)) /\ Len(events) <= MaxEvents
    /\ usb \in {"idle", "announce"} \cup Probing
    /\ (usb = "idle") = (arriving = NoGlasses)
    /\ {arriving, entry} \subseteq G \cup {NoGlasses}

ContextTyped(G) ==
    /\ {device, queued} \subseteq G \cup {NoGlasses}
    /\ holders \subseteq {"handler", "session", "connect"}
    /\ (device = NoGlasses) = (holders = {})
    /\ device = NoGlasses => queued = NoGlasses

ThreadTyped ==
    /\ session \in {"idle", "connected", "crashed"} \cup Connecting \cup Blocking
    /\ {disabled, disconnecting, alive} \subseteq BOOLEAN

Hosted(G) == BusTyped(G) /\ ContextTyped(G) /\ ThreadTyped

ProbeGoesOn ==
    /\ usb # "idle" /\ usb' \in {"announce"} \cup Probing
    /\ UNCHANGED <<plugged, events, arriving, entry>>

ProbeFails ==
    /\ usb # "idle" /\ usb' = "idle" /\ arriving' = NoGlasses
    /\ UNCHANGED <<plugged, events, entry>>

bus == <<plugged, events, usb, arriving, entry>>

BusMove(G) ==
    \/ \E g \in G : Plug(g)
    \/ Unplug \/ Arrive \/ Announce
    \/ ProbeGoesOn
    \/ UNCHANGED bus

ContextMove(G) ==
    \/ \E h \in {"handler", "session", "connect"} : Checkout(h) \/ Checkin(h)
    \/ \E g \in G : Install(g)
    \/ Uninstall
    \/ UNCHANGED context

\* Each vendor's models are models.
LEMMA Models ==
    {XrealGlasses, RayneoGlasses, RokidGlasses, VitureGlasses} \subseteq SUBSET Glasses
BY DriversAssumption

\* A sequence of at most n elements, as the type invariant writes it.
LEMMA BoundedSeq ==
    ASSUME NEW S, NEW n \in Nat, NEW s
    PROVE  s \in UNION {[1 .. m -> S] : m \in 0 .. n} <=> s \in Seq(S) /\ Len(s) <= n
<1>1. ASSUME NEW m \in 0 .. n, s \in [1 .. m -> S]
      PROVE  s \in Seq(S) /\ Len(s) <= n
  <2>1. m \in Nat /\ m <= n
    BY <1>1
  <2>2. s \in Seq(S)
    BY <1>1, <2>1, SeqDef
  <2>3. Len(s) \in Nat /\ DOMAIN s = 1 .. Len(s)
    BY <2>2, LenProperties
  <2>4. DOMAIN s = 1 .. m
    BY <1>1
  <2>5. Len(s) = m
    <3> SUFFICES ASSUME NEW k \in Nat, 1 .. k = 1 .. m PROVE k = m
      BY <2>3, <2>4
    <3>1. ASSUME k < m PROVE FALSE
      BY <2>1, <3>1, m \in 1 .. m, m \notin 1 .. k
    <3>2. ASSUME m < k PROVE FALSE
      BY <2>1, <3>2, k \in 1 .. k, k \notin 1 .. m
    <3> QED BY <2>1, <3>1, <3>2
  <2> QED BY <2>1, <2>2, <2>5
<1>2. ASSUME s \in Seq(S), Len(s) <= n
      PROVE  s \in UNION {[1 .. m -> S] : m \in 0 .. n}
  <2>1. Len(s) \in Nat /\ s \in [1 .. Len(s) -> S]
    BY <1>2, LenProperties
  <2>2. Len(s) \in 0 .. n
    BY <1>2, <2>1
  <2> QED BY <2>1, <2>2
<1> QED BY <1>1, <1>2

\* The host's types, part by part.
LEMMA HostTypes ==
    /\ Xreal!HostTypeOK <=> Hosted(XrealGlasses)
    /\ Rayneo!HostTypeOK <=> Hosted(RayneoGlasses)
    /\ Rokid!HostTypeOK <=> Hosted(RokidGlasses)
    /\ Viture!HostTypeOK <=> Hosted(VitureGlasses)
    /\ HostTypeOK <=> Hosted(Glasses)
<1>1. MaxEvents \in Nat
  BY HostAssumption
<1>2. \A G : events \in UNION {[1 .. n -> Event(G)] : n \in 0 .. MaxEvents}
                <=> events \in Seq(Event(G)) /\ Len(events) <= MaxEvents
  BY <1>1, BoundedSeq
<1> USE DEF Hosted, BusTyped, ContextTyped, ThreadTyped, Event, Probing, Connecting, Blocking
<1>3. Xreal!HostTypeOK <=> Hosted(XrealGlasses)
  BY <1>2 DEF Xreal!HostTypeOK, Xreal!Probing, Xreal!Connecting, Xreal!Blocking
<1>4. Rayneo!HostTypeOK <=> Hosted(RayneoGlasses)
  BY <1>2 DEF Rayneo!HostTypeOK, Rayneo!Probing, Rayneo!Connecting, Rayneo!Blocking
<1>5. Rokid!HostTypeOK <=> Hosted(RokidGlasses)
  BY <1>2 DEF Rokid!HostTypeOK, Rokid!Probing, Rokid!Connecting, Rokid!Blocking
<1>6. Viture!HostTypeOK <=> Hosted(VitureGlasses)
  BY <1>2 DEF Viture!HostTypeOK, Viture!Probing, Viture!Connecting, Viture!Blocking
<1>7. HostTypeOK <=> Hosted(Glasses)
  BY <1>2 DEF HostTypeOK
<1> QED BY <1>3, <1>4, <1>5, <1>6, <1>7

\* What is of a vendor's models is of the models.
LEMMA Widened ==
    ASSUME NEW G \in SUBSET Glasses, Hosted(G)
    PROVE  Hosted(Glasses)
<1>1. Event(G) \subseteq Event(Glasses)
  BY DEF Event
<1>2. events \in Seq(Event(Glasses))
  <2>1. PICK n \in Nat : events \in [1 .. n -> Event(G)]
    BY SeqDef DEF Hosted, BusTyped
  <2>2. events \in [1 .. n -> Event(Glasses)]
    BY <1>1, <2>1
  <2> QED BY <2>2, SeqDef
<1> QED BY <1>2 DEF Hosted, BusTyped, ContextTyped

\* The runtime device exists exactly if somebody holds it, whatever the step.
LEMMA ContextTypes ==
    ASSUME NEW G \in SUBSET Glasses, ContextTyped(G), ContextMove(G)
    PROVE  ContextTyped(G)'
<1> USE DEF ContextTyped
<1>1. ASSUME NEW h \in {"handler", "session", "connect"}, Checkout(h)
      PROVE  ContextTyped(G)'
  BY <1>1 DEF Checkout, device_present
<1>2. ASSUME NEW h \in {"handler", "session", "connect"}, Checkin(h)
      PROVE  ContextTyped(G)'
  <2>1. CASE holders = {h}
    BY <1>2, <2>1 DEF Checkin
  <2>2. CASE holders # {h}
    <3>1. holders \ {h} = {} <=> holders = {}
      BY <2>2
    <3> QED BY <1>2, <2>2, <3>1 DEF Checkin
  <2> QED BY <2>1, <2>2
<1>3. ASSUME NEW g \in G, Install(g)
      PROVE  ContextTyped(G)'
  BY <1>3, HostAssumption DEF Install
<1>4. CASE Uninstall
  <2>1. CASE queued # NoGlasses
    BY <1>4, <2>1 DEF Uninstall
  <2>2. CASE queued = NoGlasses
    BY <1>2, <1>4, <2>2 DEF Uninstall
  <2> QED BY <2>1, <2>2
<1>5. CASE UNCHANGED context
  BY <1>5 DEF context
<1> QED BY <1>1, <1>2, <1>3, <1>4, <1>5 DEF ContextMove

\* What the hotplug events are after one was appended.
LEMMA Appended ==
    ASSUME NEW G \in SUBSET Glasses, NEW s \in Seq(Event(G)), NEW e \in Event(G),
           NEW t, t = Append(s, e)
    PROVE  /\ t \in Seq(Event(G)) /\ t # <<>>
           /\ Len(s) \in Nat /\ Len(t) = Len(s) + 1
           /\ DOMAIN s = 1 .. Len(s) /\ DOMAIN t = 1 .. Len(t)
           /\ t[Len(t)] = e
           /\ \A i \in DOMAIN t : t[i] = e \/ (i \in DOMAIN s /\ t[i] = s[i])
<1>1. /\ t \in Seq(Event(G)) /\ t # <<>> /\ Len(t) = Len(s) + 1
      /\ \A i \in 1 .. Len(s) : t[i] = s[i]
      /\ t[Len(s) + 1] = e
  BY AppendProperties
<1>2. Len(s) \in Nat /\ DOMAIN s = 1 .. Len(s) /\ DOMAIN t = 1 .. Len(t)
  BY <1>1, LenProperties
<1>3. \A i \in 1 .. Len(s) + 1 : i \in 1 .. Len(s) \/ i = Len(s) + 1
  BY <1>2
<1> QED BY <1>1, <1>2, <1>3

\* What they are after one was taken.
LEMMA Taken ==
    ASSUME NEW G \in SUBSET Glasses, NEW s \in Seq(Event(G)), s # <<>>, NEW t, t = Tail(s)
    PROVE  /\ Head(s) \in Event(G) /\ Head(s) = s[1] /\ 1 \in DOMAIN s
           /\ t \in Seq(Event(G))
           /\ Len(s) \in Nat /\ Len(t) = Len(s) - 1
           /\ DOMAIN t = 1 .. Len(t)
           /\ t # <<>> => t[Len(t)] = s[Len(s)]
           /\ t = <<>> => s[Len(s)] = Head(s)
           /\ \A i \in DOMAIN t : i + 1 \in DOMAIN s /\ t[i] = s[i + 1]
           /\ \A i \in DOMAIN s : i = 1 \/ (i - 1 \in DOMAIN t /\ s[i] = t[i - 1])
<1>1. /\ Head(s) \in Event(G) /\ t \in Seq(Event(G)) /\ Len(t) = Len(s) - 1
      /\ \A i \in 1 .. Len(t) : t[i] = s[i + 1]
  BY HeadTailProperties
<1>2. /\ Len(s) \in Nat /\ DOMAIN s = 1 .. Len(s)
      /\ Len(t) \in Nat /\ DOMAIN t = 1 .. Len(t)
  BY <1>1, LenProperties
<1>3. Head(s) = s[1]
  OBVIOUS
<1>4. t = <<>> <=> Len(t) = 0
  BY <1>1, EmptySeq
<1>5. ASSUME NEW i \in DOMAIN s, i # 1
      PROVE  i - 1 \in DOMAIN t /\ s[i] = t[i - 1]
  <2>1. i \in Nat /\ i - 1 \in 1 .. Len(t) /\ (i - 1) + 1 = i
    BY <1>1, <1>2, <1>5
  <2> QED BY <1>1, <1>2, <2>1
<1>6. \A i \in DOMAIN t : i + 1 \in DOMAIN s
  BY <1>1, <1>2
<1>7. t # <<>> => Len(t) \in 1 .. Len(t) /\ Len(t) + 1 = Len(s)
  BY <1>1, <1>2, <1>4
<1> QED BY <1>1, <1>2, <1>3, <1>4, <1>5, <1>6, <1>7

\* The bus and the hotplug thread keep their types.
LEMMA BusTypes ==
    ASSUME NEW G \in SUBSET Glasses, BusTyped(G), BusMove(G) \/ Leave \/ ProbeFails
    PROVE  BusTyped(G)'
<1> USE DEF BusTyped
<1>1. ASSUME NEW g \in G, Plug(g)
      PROVE  BusTyped(G)'
  <2>1. [kind |-> "arrived", glasses |-> g] \in Event(G)
    BY DEF Event
  <2>2. events' \in Seq(Event(G)) /\ Len(events') = Len(events) + 1
    BY <1>1, <2>1, AppendProperties DEF Plug
  <2>3. Len(events') <= MaxEvents
    BY <1>1, <2>2, LenProperties, HostAssumption DEF Plug
  <2> QED BY <1>1, <2>2, <2>3 DEF Plug
<1>2. CASE Unplug
  <2>1. [kind |-> "left", glasses |-> plugged] \in Event(G)
    BY <1>2 DEF Event, Unplug
  <2>2. events' \in Seq(Event(G)) /\ Len(events') = Len(events) + 1
    BY <1>2, <2>1, AppendProperties DEF Unplug
  <2>3. Len(events') <= MaxEvents
    BY <1>2, <2>2, LenProperties, HostAssumption DEF Unplug
  <2> QED BY <1>2, <2>2, <2>3 DEF Unplug
<1>3. ASSUME events # <<>>, events' = Tail(events)
      PROVE  /\ Head(events).glasses \in G
             /\ events' \in Seq(Event(G)) /\ Len(events') <= MaxEvents
  <2>1. /\ Head(events) \in Event(G) /\ events' \in Seq(Event(G))
        /\ Len(events) \in Nat /\ Len(events') = Len(events) - 1
    BY <1>3, Taken
  <2> QED BY <2>1, HostAssumption DEF Event
<1>4. CASE Arrive
  BY <1>3, <1>4, HostAssumption DEF Arrive, Probing
<1>5. CASE Announce
  BY <1>5 DEF Announce
<1>6. CASE Leave
  BY <1>3, <1>6 DEF Leave
<1>7. CASE ProbeGoesOn
  BY <1>7 DEF ProbeGoesOn, Probing
<1>8. CASE ProbeFails
  BY <1>8 DEF ProbeFails
<1>9. CASE UNCHANGED bus
  BY <1>9 DEF bus
<1> QED BY <1>1, <1>2, <1>4, <1>5, <1>6, <1>7, <1>8, <1>9 DEF BusMove

\* An event is appended by what it is about, and only the last one in a row is ever
\* contradicted by the next; so the removal of what the pool has is never lost.  The
\* hotplug thread gives an arrival up only when the glasses are gone.
LEMMA BusKept ==
    ASSUME NEW G \in SUBSET Glasses, BusTyped(G), Bus,
           BusMove(G) \/ Leave \/ (ProbeFails /\ plugged = NoGlasses)
    PROVE  Bus'
<1> DEFINE Last(es, p) ==
        es # <<>> => es[Len(es)].kind = IF p = NoGlasses THEN "left" ELSE "arrived"
           Arrives(es) == \E i \in DOMAIN es : es[i].kind = "arrived"
<1>1. ASSUME NEW g \in G, Plug(g)
      PROVE  Bus'
  <2> DEFINE e == [kind |-> "arrived", glasses |-> g]
  <2>1. /\ plugged = NoGlasses /\ plugged' = g /\ events' = Append(events, e)
        /\ \A i \in DOMAIN events : events[i].glasses = g
        /\ usb' = usb /\ arriving' = arriving /\ entry' = entry
    BY <1>1 DEF Plug
  <2>2. e \in Event(G) /\ e.kind = "arrived" /\ e.glasses = g
    BY DEF Event
  <2>3. events \in Seq(Event(G))
    BY DEF BusTyped
  <2> HIDE DEF e
  <2>4. /\ events' # <<>> /\ events'[Len(events')] = e
        /\ DOMAIN events = 1 .. Len(events) /\ Len(events) \in Nat
        /\ DOMAIN events' = 1 .. Len(events') /\ Len(events') = Len(events) + 1
        /\ \A i \in DOMAIN events' :
              events'[i] = e \/ (i \in DOMAIN events /\ events'[i] = events[i])
    BY <2>1, <2>2, <2>3, Appended
  <2>5. {entry, arriving} \subseteq {g, NoGlasses}
    <3>1. PICK m \in Glasses \cup {NoGlasses} : About(m)
      BY DEF Bus
    <3>2. CASE events = <<>>
      BY <2>1, <3>2 DEF Bus, BusTyped
    <3>3. CASE events # <<>>
      <4>1. 1 \in DOMAIN events
        BY <2>3, <3>3, Taken
      <4>2. m = g
        BY <2>1, <3>1, <4>1 DEF About
      <4> QED BY <3>1, <4>2 DEF About
    <3> QED BY <3>2, <3>3
  <2>6. About(g)'
    BY <2>1, <2>2, <2>4, <2>5 DEF About
  <2>7. Len(events') \in DOMAIN events' /\ events'[Len(events')].kind = "arrived"
    BY <2>2, <2>4
  <2>8. g # NoGlasses
    BY HostAssumption
  <2> QED BY <2>1, <2>4, <2>6, <2>7, <2>8 DEF Bus, Awaited
<1>2. CASE Unplug
  <2> DEFINE e == [kind |-> "left", glasses |-> plugged]
  <2>1. /\ plugged # NoGlasses /\ plugged' = NoGlasses /\ events' = Append(events, e)
        /\ usb' = usb /\ arriving' = arriving /\ entry' = entry
    BY <1>2 DEF Unplug
  <2>2. e \in Event(G) /\ e.kind = "left" /\ e.glasses = plugged
    BY <2>1 DEF Event, BusTyped
  <2>3. events \in Seq(Event(G))
    BY DEF BusTyped
  <2> HIDE DEF e
  <2>4. /\ events' # <<>> /\ events'[Len(events')] = e
        /\ \A i \in DOMAIN events' :
              events'[i] = e \/ (i \in DOMAIN events /\ events'[i] = events[i])
    BY <2>1, <2>2, <2>3, Appended
  <2>5. About(plugged)
    BY <2>1 DEF Bus, About
  <2>6. \E g \in Glasses \cup {NoGlasses} : About(g)'
    BY <2>1, <2>2, <2>4, <2>5 DEF About, BusTyped
  <2> QED BY <2>1, <2>2, <2>4, <2>6 DEF Bus
<1>3. CASE Arrive
  <2>1. /\ usb = "idle" /\ events # <<>> /\ events \in Seq(Event(G)) /\ events' = Tail(events)
        /\ arriving' = Head(events).glasses /\ usb' # "idle"
        /\ Head(events).kind = "arrived"
        /\ plugged' = plugged /\ entry' = entry
    BY <1>3 DEF Arrive, BusTyped
  <2>2. /\ Head(events) = events[1] /\ 1 \in DOMAIN events
        /\ events' # <<>> => events'[Len(events')] = events[Len(events)]
        /\ events' = <<>> => events[Len(events)] = Head(events)
        /\ \A i \in DOMAIN events' : i + 1 \in DOMAIN events /\ events'[i] = events[i + 1]
    BY <2>1, Taken
  <2>3. PICK g \in Glasses \cup {NoGlasses} : About(g)
    BY DEF Bus
  <2>4. About(g)'
    BY <2>1, <2>2, <2>3 DEF About
  <2>5. Last(events', plugged)
    BY <2>1, <2>2 DEF Bus
  <2>6. events' = <<>> => plugged # NoGlasses
    BY <2>1, <2>2 DEF Bus
  <2> QED BY <2>1, <2>4, <2>5, <2>6 DEF Bus, Awaited
<1>4. CASE Announce
  <2>1. /\ usb # "idle" /\ usb' = "idle" /\ arriving' = NoGlasses
        /\ plugged' = plugged /\ events' = events
        /\ entry' = IF entry = NoGlasses THEN arriving ELSE entry
    BY <1>4 DEF Announce
  <2>2. arriving # NoGlasses
    BY <2>1 DEF BusTyped
  <2>3. PICK g \in Glasses \cup {NoGlasses} : About(g)
    BY DEF Bus
  <2>4. About(g)'
    BY <2>1, <2>3 DEF About
  <2>5. events = <<>> => plugged # NoGlasses
    BY <2>1 DEF Bus
  <2>6. entry' # NoGlasses
    BY <2>1, <2>2
  <2> QED BY <2>1, <2>4, <2>5, <2>6 DEF Bus, Awaited
<1>5. CASE Leave
  <2>1. /\ usb = "idle" /\ events # <<>> /\ events \in Seq(Event(G)) /\ events' = Tail(events)
        /\ Head(events).kind = "left"
        /\ plugged' = plugged /\ usb' = usb /\ arriving' = arriving
        /\ entry' = IF entry = Head(events).glasses THEN NoGlasses ELSE entry
    BY <1>5 DEF Leave, Removes, BusTyped
  <2>2. /\ Head(events) = events[1] /\ 1 \in DOMAIN events
        /\ events' # <<>> => events'[Len(events')] = events[Len(events)]
        /\ events' = <<>> => events[Len(events)] = Head(events)
        /\ events' \in Seq(Event(G)) /\ DOMAIN events' = 1 .. Len(events')
        /\ \A i \in DOMAIN events' : i + 1 \in DOMAIN events /\ events'[i] = events[i + 1]
    <3> DEFINE es == events'
    <3>1. es = Tail(events) /\ events # <<>> /\ events \in Seq(Event(G))
      BY <2>1
    <3> HIDE DEF es
    <3>2. /\ Head(events) = events[1] /\ 1 \in DOMAIN events
          /\ es # <<>> => es[Len(es)] = events[Len(events)]
          /\ es = <<>> => events[Len(events)] = Head(events)
          /\ es \in Seq(Event(G)) /\ DOMAIN es = 1 .. Len(es)
          /\ \A i \in DOMAIN es : i + 1 \in DOMAIN events /\ es[i] = events[i + 1]
      BY <3>1, Taken
    <3> QED BY <3>2 DEF es
  <2>3. PICK g \in Glasses \cup {NoGlasses} : About(g)
    BY DEF Bus
  <2>4. entry' = NoGlasses
    BY <2>1, <2>2, <2>3 DEF About
  <2>5. About(g)'
    BY <2>1, <2>2, <2>3, <2>4 DEF About
  <2>6. Last(events', plugged)
    BY <2>1, <2>2 DEF Bus
  <2>7. plugged # NoGlasses => Arrives(events')
    <3> SUFFICES ASSUME plugged # NoGlasses
                 PROVE  Arrives(events')
      OBVIOUS
    <3>1. events' # <<>>
      BY <2>1, <2>2 DEF Bus
    <3>2. Len(events') \in DOMAIN events'
      BY <2>2, <3>1, EmptySeq
    <3> QED BY <2>6, <3>1, <3>2
  <2> QED BY <2>1, <2>4, <2>5, <2>6, <2>7 DEF Bus, Awaited
<1>6. CASE ProbeGoesOn
  <2>1. usb # "idle" /\ usb' # "idle"
    BY <1>6 DEF ProbeGoesOn, Probing
  <2> QED BY <1>6, <2>1 DEF ProbeGoesOn, Bus, About, Awaited
<1>7. CASE ProbeFails /\ plugged = NoGlasses
  <2>1. /\ usb # "idle" /\ arriving' = NoGlasses /\ plugged = NoGlasses
        /\ UNCHANGED <<plugged, events, entry>>
    BY <1>7 DEF ProbeFails
  <2>2. events # <<>>
    BY <2>1 DEF Bus
  <2> QED BY <2>1, <2>2 DEF Bus, About
<1>8. CASE UNCHANGED bus
  BY <1>8 DEF bus, Bus, About, Awaited
<1> QED BY <1>1, <1>2, <1>3, <1>4, <1>5, <1>6, <1>7, <1>8 DEF BusMove

\* Only a removal, and a probe that is given up, make glasses forgotten.
LEMMA AwaitedKept ==
    ASSUME NEW G \in SUBSET Glasses, BusTyped(G), Bus, Awaited, BusMove(G) \/ (Leave /\ ~Removes)
    PROVE  Awaited'
<1>1. ASSUME NEW e \in Event(G), events' = Append(events, e), usb' = usb, entry' = entry
      PROVE  Awaited'
  <2>1. /\ DOMAIN events = 1 .. Len(events) /\ Len(events) \in Nat
        /\ DOMAIN events' = 1 .. Len(events) + 1
        /\ \A i \in 1 .. Len(events) : events'[i] = events[i]
    BY <1>1, AppendProperties, LenProperties DEF BusTyped
  <2>2. DOMAIN events \subseteq DOMAIN events'
    BY <2>1
  <2> QED BY <1>1, <2>1, <2>2 DEF Awaited
<1>2. ASSUME NEW g \in G, Plug(g)
      PROVE  Awaited'
  <2>1. [kind |-> "arrived", glasses |-> g] \in Event(G)
    BY DEF Event
  <2> QED BY <1>1, <1>2, <2>1 DEF Plug
<1>3. CASE Unplug
  <2>1. [kind |-> "left", glasses |-> plugged] \in Event(G)
    BY <1>3 DEF Event, Unplug, BusTyped
  <2> QED BY <1>1, <1>3, <2>1 DEF Unplug
<1>4. CASE Arrive
  BY <1>4 DEF Arrive, Awaited
<1>5. CASE Announce
  BY <1>5 DEF Announce, Awaited, BusTyped
<1>6. CASE Leave /\ ~Removes
  <2>1. /\ usb = "idle" /\ events # <<>> /\ events \in Seq(Event(G)) /\ events' = Tail(events)
        /\ Head(events).kind = "left" /\ entry # Head(events).glasses
    BY <1>6 DEF Leave, Removes, BusTyped
  <2>2. /\ Head(events) = events[1] /\ 1 \in DOMAIN events
        /\ \A i \in DOMAIN events :
              i = 1 \/ (i - 1 \in DOMAIN events' /\ events[i] = events'[i - 1])
    BY <2>1, Taken
  <2>3. entry = NoGlasses
    BY <2>1, <2>2 DEF Bus, About
  <2>4. PICK i \in DOMAIN events : events[i].kind = "arrived"
    BY <2>1, <2>3 DEF Awaited
  <2>5. i - 1 \in DOMAIN events' /\ events'[i - 1].kind = "arrived"
    BY <2>1, <2>2, <2>4
  <2> QED BY <2>5 DEF Awaited
<1>7. CASE ProbeGoesOn
  BY <1>7 DEF ProbeGoesOn, Probing, Awaited
<1>8. CASE UNCHANGED bus
  BY <1>8 DEF bus, Awaited
<1> QED BY <1>2, <1>3, <1>4, <1>5, <1>6, <1>7, <1>8 DEF BusMove

\* G that are plugged in are not forgotten by a probe.
LEMMA AwaitedAnyway ==
    ASSUME NEW G \in SUBSET Glasses, BusTyped(G), Bus,
           BusMove(G) \/ Leave \/ (ProbeFails /\ plugged = NoGlasses), plugged' # NoGlasses
    PROVE  Awaited'
BY BusKept DEF Bus

\* A step of the session's thread.
LEMMA SessionSteps ==
    ASSUME NEW G \in SUBSET Glasses, Hosted(G), NEW pc, Go(pc),
           pc \in {"idle", "connected", "crashed"} \cup Connecting \cup Blocking
    PROVE  BusMove(G) /\ ThreadTyped' /\ plugged' = plugged /\ UNCHANGED bus
BY DEF Hosted, Go, bus, BusMove, ThreadTyped

\* The host's part of a removal.
LEMMA LeaveSteps ==
    ASSUME NEW G \in SUBSET Glasses, Hosted(G), Leave
    PROVE  ContextMove(G) /\ ThreadTyped'
BY DEF Hosted, Leave, ContextMove, ThreadTyped, context

\* The steps that no driver has a part in, or only with state of its own.
LEMMA HostSteps ==
    ASSUME NEW G \in SUBSET Glasses, Hosted(G), NEW c,
           \/ \E g \in G : Plug(g)
           \/ Unplug \/ ThreadStep \/ Healthy \/ Disable(c) \/ DisconnectAll \/ Arrive \/ Announce
    PROVE  BusMove(G) /\ ContextMove(G) /\ ThreadTyped'
<1>1. BusTyped(G) /\ ContextTyped(G) /\ ThreadTyped
  BY DEF Hosted
<1>2. UNCHANGED bus => BusMove(G)
  BY DEF BusMove
<1>3. UNCHANGED context => ContextMove(G)
  BY DEF ContextMove
<1>4. ASSUME NEW g \in G, Plug(g)
      PROVE  BusMove(G) /\ ContextMove(G) /\ ThreadTyped'
  <2>1. UNCHANGED context /\ ThreadTyped'
    BY <1>1, <1>4 DEF Plug, ThreadTyped
  <2> QED BY <1>3, <1>4, <2>1 DEF BusMove
<1>5. CASE Unplug \/ Arrive
  <2>1. UNCHANGED context /\ ThreadTyped'
    BY <1>1, <1>5 DEF Unplug, Arrive, ThreadTyped
  <2> QED BY <1>3, <1>5, <2>1 DEF BusMove
<1>6. CASE Announce
  <2>1. arriving \in G /\ ThreadTyped'
    BY <1>1, <1>6 DEF Announce, BusTyped, ThreadTyped
  <2> QED BY <1>3, <1>6, <2>1 DEF Announce, BusMove, ContextMove
<1>7. CASE Connect \/ BlockOnActive
  <2>1. \E pc \in {"connect", "block", "idle"} : Go(pc)
    BY <1>7 DEF Connect, BlockOnActive
  <2>2. BusMove(G) /\ ThreadTyped'
    BY <2>1, SessionSteps DEF Blocking, Connecting
  <2> QED BY <1>3, <1>7, <2>2 DEF Connect, BlockOnActive
<1>8. CASE Enable \/ Silence \/ Healthy \/ Disable(c) \/ DisconnectAll
  <2>1. /\ UNCHANGED bus /\ UNCHANGED context /\ session' = session
        /\ disabled' \in {disabled, FALSE, TRUE} /\ alive' \in {alive, FALSE, TRUE}
    BY <1>8 DEF Enable, Silence, Healthy, Disable, DisconnectAll, bus
  <2>2. disconnecting' \in BOOLEAN
    BY <1>1, <1>8 DEF Enable, Silence, Healthy, Disable, DisconnectAll, ThreadTyped
  <2>3. ThreadTyped'
    BY <1>1, <2>1, <2>2 DEF ThreadTyped
  <2> QED BY <1>2, <1>3, <2>1, <2>3
<1> QED BY <1>4, <1>5, <1>6, <1>7, <1>8 DEF ThreadStep

-----------------------------------------------------------------------------
(* The steps of a RayNeo driver.                                           *)

\* What the bus and the hard connection do at once.
RayneoMove ==
    \/ BusMove(RayneoGlasses) /\ (hard_connected' => hard_connected \/ plugged' # NoGlasses)
    \/ Leave /\ ~Removes /\ (hard_connected' => hard_connected)
    \/ Leave /\ ~hard_connected'
    \/ ProbeFails /\ plugged = NoGlasses /\ ~hard_connected'

\* rayneo_device_connect fails only without glasses, and connects nothing then.
LEMMA RayneoConnects ==
    ASSUME Rayneo!TypeOK, plugged \in RayneoGlasses \cup {NoGlasses},
           Rayneo!rayneo_device_connect
    PROVE  /\ Rayneo!TypeOK'
           /\ hard_connected' => hard_connected \/ plugged # NoGlasses
           /\ ~soft_connected' => ~hard_connected' /\ plugged = NoGlasses
BY DEF Rayneo!TypeOK, Rayneo!rayneo_device_connect, Rayneo!rayneoVars

\* A disconnect that retains nothing closes the hard connection, and none opens it.
LEMMA RayneoDisconnects ==
    ASSUME Rayneo!TypeOK, NEW retain, Rayneo!rayneo_device_disconnect(retain)
    PROVE  /\ Rayneo!TypeOK'
           /\ hard_connected' => hard_connected
           /\ ~retain => ~hard_connected'
BY DEF Rayneo!TypeOK, Rayneo!rayneo_device_disconnect

\* Whatever else happens, the connection stays as it is.
LEMMA RayneoStays ==
    ASSUME Rayneo!TypeOK, UNCHANGED Rayneo!rayneoVars
    PROVE  Rayneo!TypeOK' /\ hard_connected' = hard_connected
BY DEF Rayneo!TypeOK, Rayneo!rayneoVars

\* The host's steps, as the instance of the driver's module names them.
LEMMA RayneoHost ==
    /\ \A pc : Rayneo!Go(pc) => Go(pc)
    /\ \A h : (Rayneo!Checkout(h) => Checkout(h)) /\ (Rayneo!Checkin(h) => Checkin(h))
    /\ UNCHANGED Rayneo!context <=> UNCHANGED context
    /\ UNCHANGED Rayneo!host <=> UNCHANGED host
    /\ (\E g \in RayneoGlasses : Rayneo!Plug(g)) => \E g \in RayneoGlasses : Plug(g)
    /\ Rayneo!Unplug => Unplug
    /\ Rayneo!ThreadStep => ThreadStep
    /\ \A c : Rayneo!Disable(c) => Disable(c)
    /\ Rayneo!DisconnectAll => DisconnectAll
    /\ Rayneo!Healthy => Healthy
    /\ Rayneo!Arrive => Arrive
    /\ Rayneo!Announce => Announce
    /\ Rayneo!Leave => Leave
    /\ Rayneo!Removes <=> Removes
<1> USE DEF context, Rayneo!context
<1>1. \A pc : Rayneo!Go(pc) => Go(pc)
  BY DEF Rayneo!Go, Go
<1>2. \A h : (Rayneo!Checkout(h) => Checkout(h)) /\ (Rayneo!Checkin(h) => Checkin(h))
  BY DEF Rayneo!Checkout, Checkout, Rayneo!Checkin, Checkin, Rayneo!device_present,
         device_present
<1>3. UNCHANGED Rayneo!host <=> UNCHANGED host
  BY DEF Rayneo!host, host
<1>4. (\E g \in RayneoGlasses : Rayneo!Plug(g)) => \E g \in RayneoGlasses : Plug(g)
  BY DEF Rayneo!Plug, Plug
<1>5. Rayneo!Unplug => Unplug
  BY DEF Rayneo!Unplug, Unplug
<1>6. Rayneo!ThreadStep => ThreadStep
  BY DEF Rayneo!ThreadStep, ThreadStep, Rayneo!Enable, Enable, Rayneo!Connect, Connect,
         Rayneo!BlockOnActive, BlockOnActive, Rayneo!Silence, Silence, Rayneo!Go, Go,
         Rayneo!device_present, device_present
<1>7. /\ \A c : Rayneo!Disable(c) => Disable(c)
      /\ Rayneo!DisconnectAll => DisconnectAll
      /\ Rayneo!Healthy => Healthy
  BY DEF Rayneo!Disable, Disable, Rayneo!DisconnectAll, DisconnectAll, Rayneo!Healthy, Healthy
<1>8. (Rayneo!Arrive => Arrive) /\ (Rayneo!Announce => Announce)
  BY DEF Rayneo!Arrive, Arrive, Rayneo!Announce, Announce, Rayneo!Install, Install
<1>9. (Rayneo!Leave => Leave) /\ (Rayneo!Removes <=> Removes)
  BY DEF Rayneo!Leave, Leave, Rayneo!Removes, Removes, Rayneo!Uninstall, Uninstall,
         Rayneo!Checkin, Checkin
<1> QED BY <1>1, <1>2, <1>3, <1>4, <1>5, <1>6, <1>7, <1>8, <1>9

\* Each of RayNeo's steps, with what it does to the hard connection.
LEMMA RayneoSteps ==
    ASSUME Hosted(RayneoGlasses), Rayneo!TypeOK, Rayneo!Next
    PROVE  RayneoMove /\ ContextMove(RayneoGlasses) /\ ThreadTyped' /\ Rayneo!TypeOK'
<1> USE DEF RayneoMove
<1>1. BusTyped(RayneoGlasses) /\ ContextTyped(RayneoGlasses) /\ ThreadTyped
  BY DEF Hosted
<1>2. ASSUME NEW pc \in {"idle", "connected"} \cup Connecting \cup Blocking, Rayneo!Go(pc)
      PROVE  BusMove(RayneoGlasses) /\ ThreadTyped' /\ plugged' = plugged
  BY <1>2, Models, SessionSteps, RayneoHost
<1>3. UNCHANGED Rayneo!context => ContextMove(RayneoGlasses)
  BY RayneoHost DEF ContextMove
<1>4. ASSUME NEW h \in {"handler", "session", "connect"}, Rayneo!Checkout(h) \/ Rayneo!Checkin(h)
      PROVE  ContextMove(RayneoGlasses)
  BY <1>4, RayneoHost DEF ContextMove
<1>5. ASSUME UNCHANGED <<session, disabled, disconnecting, alive>>
      PROVE  ThreadTyped'
  BY <1>1, <1>5 DEF ThreadTyped
<1>6. CASE Rayneo!ConnectDevice
  <2>1. /\ Rayneo!rayneo_device_connect /\ ContextMove(RayneoGlasses)
        /\ Rayneo!Go(IF soft_connected' THEN "connected" ELSE "idle")
    BY <1>3, <1>6 DEF Rayneo!ConnectDevice
  <2>2. BusMove(RayneoGlasses) /\ ThreadTyped' /\ plugged' = plugged
    BY <1>2, <2>1
  <2> QED BY <1>1, <2>1, <2>2, RayneoConnects DEF BusTyped
<1>7. CASE Rayneo!Block \/ Rayneo!Wait \/ Rayneo!Loop \/ Rayneo!Return
  <2>1. /\ UNCHANGED Rayneo!rayneoVars /\ ContextMove(RayneoGlasses)
        /\ \E pc \in {"wait", "loop", "end", "idle"} : Rayneo!Go(pc)
    BY <1>3, <1>4, <1>7 DEF Rayneo!Block, Rayneo!Wait, Rayneo!Loop, Rayneo!Return
  <2>2. BusMove(RayneoGlasses) /\ ThreadTyped'
    BY <1>2, <2>1 DEF Blocking
  <2> QED BY <2>1, <2>2, RayneoStays
<1>8. CASE Rayneo!End
  <2>1. /\ ContextMove(RayneoGlasses) /\ Rayneo!Go("join")
        /\ \E r : Rayneo!rayneo_device_disconnect(r)
    BY <1>3, <1>8 DEF Rayneo!End
  <2>2. BusMove(RayneoGlasses) /\ ThreadTyped'
    BY <1>2, <2>1 DEF Blocking
  <2> QED BY <2>1, <2>2, RayneoDisconnects
<1>9. CASE Rayneo!Probe
  <2>1. /\ usb = "probe" /\ Rayneo!rayneo_device_connect
        /\ IF soft_connected' THEN usb' = "name" /\ UNCHANGED arriving
                              ELSE usb' = "idle" /\ arriving' = NoGlasses
        /\ UNCHANGED <<plugged, events, entry>>
        /\ ContextMove(RayneoGlasses) /\ ThreadTyped'
    BY <1>3, <1>5, <1>9 DEF Rayneo!Probe, Rayneo!probeHost
  <2>2. /\ Rayneo!TypeOK'
        /\ hard_connected' => hard_connected \/ plugged # NoGlasses
        /\ ~soft_connected' => ~hard_connected' /\ plugged = NoGlasses
    BY <1>1, <2>1, RayneoConnects DEF BusTyped
  <2>3. CASE soft_connected'
    BY <2>1, <2>2, <2>3 DEF BusMove, ProbeGoesOn, Probing
  <2>4. CASE ~soft_connected'
    BY <2>1, <2>2, <2>4 DEF ProbeFails
  <2> QED BY <2>3, <2>4
<1>10. CASE Rayneo!Named
  <2>1. ProbeGoesOn /\ ContextMove(RayneoGlasses) /\ ThreadTyped'
    BY <1>3, <1>5, <1>10 DEF Rayneo!Named, Rayneo!probeHost, ProbeGoesOn, Probing
  <2>2. UNCHANGED Rayneo!rayneoVars \/ Rayneo!rayneo_device_disconnect(TRUE)
    BY <1>10 DEF Rayneo!Named
  <2>3. Rayneo!TypeOK' /\ (hard_connected' => hard_connected)
    <3>1. CASE UNCHANGED Rayneo!rayneoVars
      BY <3>1, RayneoStays
    <3>2. CASE Rayneo!rayneo_device_disconnect(TRUE)
      BY <3>2, RayneoDisconnects
    <3> QED BY <2>2, <3>1, <3>2
  <2>4. BusMove(RayneoGlasses)
    BY <2>1 DEF BusMove
  <2> QED BY <2>1, <2>3, <2>4
<1>11. CASE Rayneo!LeaveRayneo
  <2>1. Leave /\ ContextMove(RayneoGlasses) /\ ThreadTyped'
    BY <1>11, RayneoHost, Models, LeaveSteps DEF Rayneo!LeaveRayneo
  <2>2. CASE Removes
    <3>1. Rayneo!rayneo_device_disconnect(FALSE)
      BY <1>11, <2>2, RayneoHost DEF Rayneo!LeaveRayneo
    <3> QED BY <2>1, <3>1, RayneoDisconnects
  <2>3. CASE ~Removes
    <3>1. UNCHANGED Rayneo!rayneoVars
      BY <1>11, <2>3, RayneoHost DEF Rayneo!LeaveRayneo
    <3> QED BY <2>1, <2>3, <3>1, RayneoStays
  <2> QED BY <2>2, <2>3
<1>12. CASE Rayneo!DisconnectRayneo
  <2>1. BusMove(RayneoGlasses) /\ ContextMove(RayneoGlasses) /\ ThreadTyped'
    BY <1>12, RayneoHost, Models, HostSteps DEF Rayneo!DisconnectRayneo
  <2>2. UNCHANGED Rayneo!rayneoVars \/ \E r : Rayneo!rayneo_device_disconnect(r)
    BY <1>12 DEF Rayneo!DisconnectRayneo
  <2> QED BY <2>1, <2>2, RayneoStays, RayneoDisconnects
<1>13. CASE Rayneo!rayneo_mcu_callback
  <2>1. UNCHANGED host
    BY <1>13, RayneoHost DEF Rayneo!rayneo_mcu_callback
  <2>2. BusMove(RayneoGlasses) /\ ContextMove(RayneoGlasses) /\ ThreadTyped'
    BY <1>5, <2>1 DEF host, bus, context, BusMove, ContextMove
  <2>3. Rayneo!TypeOK' /\ hard_connected' = hard_connected
    BY <1>13 DEF Rayneo!rayneo_mcu_callback, Rayneo!TypeOK
  <2> QED BY <2>2, <2>3
<1>14. CASE /\ \/ Rayneo!HostStep \/ Rayneo!Healthy \/ Rayneo!Disable(soft_connected)
               \/ Rayneo!Arrive \/ Rayneo!Announce
            /\ UNCHANGED Rayneo!rayneoVars
  <2>1. \/ (\E g \in RayneoGlasses : Plug(g)) \/ Unplug \/ ThreadStep
        \/ Healthy \/ Disable(soft_connected) \/ Arrive \/ Announce
    BY <1>14, RayneoHost DEF Rayneo!HostStep
  <2>2. BusMove(RayneoGlasses) /\ ContextMove(RayneoGlasses) /\ ThreadTyped'
    BY <2>1, Models, HostSteps
  <2> QED BY <1>14, <2>2, RayneoStays
<1> QED BY <1>6, <1>7, <1>8, <1>9, <1>10, <1>11, <1>12, <1>13, <1>14
        DEF Rayneo!Next, Rayneo!SessionStep, Rayneo!UsbStep, Rayneo!rayneo_imu_callback

\* A hard connection of RayNeo glasses is made where there are glasses, and given up
\* when they are removed: it never outlives what the hotplug thread knows of them.
LEMMA RayneoKept ==
    ASSUME RayneoInv, Rayneo!Next
    PROVE  RayneoInv'
<1>1. Hosted(RayneoGlasses) /\ RayneoGlasses \in SUBSET Glasses
  BY HostTypes, Models DEF RayneoInv
<1>2. BusTyped(RayneoGlasses) /\ ContextTyped(RayneoGlasses) /\ Bus /\ Rayneo!TypeOK
  BY <1>1 DEF Hosted, RayneoInv
<1>3. /\ RayneoMove /\ ContextMove(RayneoGlasses) /\ ThreadTyped'
      /\ Rayneo!TypeOK'
  BY <1>1, <1>2, RayneoSteps
<1>4. /\ BusMove(RayneoGlasses) \/ Leave \/ ProbeFails
      /\ BusMove(RayneoGlasses) \/ Leave \/ (ProbeFails /\ plugged = NoGlasses)
  BY <1>3 DEF RayneoMove
<1>5. BusTyped(RayneoGlasses)' /\ ContextTyped(RayneoGlasses)' /\ Bus'
  BY <1>1, <1>2, <1>3, <1>4, BusTypes, ContextTypes, BusKept
<1>6. Rayneo!HostTypeOK'
  <2>1. (Rayneo!HostTypeOK <=> Hosted(RayneoGlasses))'
    BY HostTypes, PTL
  <2> QED BY <1>3, <1>5, <2>1 DEF Hosted
<1>7. hard_connected' => Awaited'
  <2>1. CASE BusMove(RayneoGlasses) /\ (hard_connected' => hard_connected \/ plugged' # NoGlasses)
    <3>1. CASE hard_connected
      BY <1>1, <1>2, <2>1, <3>1, AwaitedKept DEF RayneoInv
    <3>2. CASE plugged' # NoGlasses
      BY <1>1, <1>2, <2>1, <3>2, AwaitedAnyway
    <3> QED BY <2>1, <3>1, <3>2
  <2>2. CASE Leave /\ ~Removes /\ (hard_connected' => hard_connected)
    BY <1>1, <1>2, <2>2, AwaitedKept DEF RayneoInv
  <2>3. CASE ~hard_connected'
    BY <2>3
  <2> QED BY <1>3, <2>1, <2>2, <2>3 DEF RayneoMove
<1> QED BY <1>3, <1>5, <1>6, <1>7 DEF RayneoInv

-----------------------------------------------------------------------------
(* The steps of a VITURE driver.                                           *)

\* The host's steps, as VitureSession names them.
LEMMA VitureHost ==
    /\ \A pc : Viture!Go(pc) => Go(pc)
    /\ \A h : (Viture!Checkout(h) => Checkout(h)) /\ (Viture!Checkin(h) => Checkin(h))
    /\ UNCHANGED Viture!context <=> UNCHANGED context
    /\ UNCHANGED Viture!host <=> UNCHANGED host
    /\ (\E g \in VitureGlasses : Viture!Plug(g)) => \E g \in VitureGlasses : Plug(g)
    /\ Viture!Unplug => Unplug
    /\ Viture!ThreadStep => ThreadStep
    /\ \A c : Viture!Disable(c) => Disable(c)
    /\ Viture!DisconnectAll => DisconnectAll
    /\ Viture!Healthy => Healthy
    /\ Viture!Arrive => Arrive
    /\ Viture!Announce => Announce
    /\ Viture!Leave => Leave
    /\ Viture!Removes <=> Removes
<1> USE DEF context, Viture!context
<1>1. \A pc : Viture!Go(pc) => Go(pc)
  BY DEF Viture!Go, Go
<1>2. \A h : (Viture!Checkout(h) => Checkout(h)) /\ (Viture!Checkin(h) => Checkin(h))
  BY DEF Viture!Checkout, Checkout, Viture!Checkin, Checkin, Viture!device_present,
         device_present
<1>3. UNCHANGED Viture!host <=> UNCHANGED host
  BY DEF Viture!host, host
<1>4. (\E g \in VitureGlasses : Viture!Plug(g)) => \E g \in VitureGlasses : Plug(g)
  BY DEF Viture!Plug, Plug
<1>5. Viture!Unplug => Unplug
  BY DEF Viture!Unplug, Unplug
<1>6. Viture!ThreadStep => ThreadStep
  BY DEF Viture!ThreadStep, ThreadStep, Viture!Enable, Enable, Viture!Connect, Connect,
         Viture!BlockOnActive, BlockOnActive, Viture!Silence, Silence, Viture!Go, Go,
         Viture!device_present, device_present
<1>7. /\ \A c : Viture!Disable(c) => Disable(c)
      /\ Viture!DisconnectAll => DisconnectAll
      /\ Viture!Healthy => Healthy
  BY DEF Viture!Disable, Disable, Viture!DisconnectAll, DisconnectAll, Viture!Healthy, Healthy
<1>8. (Viture!Arrive => Arrive) /\ (Viture!Announce => Announce)
  BY DEF Viture!Arrive, Arrive, Viture!Announce, Announce, Viture!Install, Install
<1>9. (Viture!Leave => Leave) /\ (Viture!Removes <=> Removes)
  BY DEF Viture!Leave, Leave, Viture!Removes, Removes, Viture!Uninstall, Uninstall,
         Viture!Checkin, Checkin
<1> QED BY <1>1, <1>2, <1>3, <1>4, <1>5, <1>6, <1>7, <1>8, <1>9

\* A disconnect ends the connection, and a hard one shuts the provider down.
LEMMA VitureDisconnects ==
    ASSUME Viture!TypeOK, NEW soft \in BOOLEAN, Viture!disconnect(soft)
    PROVE  /\ Viture!TypeOK'
           /\ ~connected' /\ provider' \in {provider, NoGlasses}
           /\ ~soft => provider' = NoGlasses
<1> USE DEF Viture!TypeOK
<1>1. connected' = FALSE /\ imu_open' = FALSE /\ product' = product /\ chosen' = chosen
  BY DEF Viture!disconnect
<1>2. provider' \in {provider, NoGlasses} /\ (~soft => provider' = NoGlasses)
  BY DEF Viture!disconnect
<1>3. reachable' \in BOOLEAN
  BY DEF Viture!disconnect
<1>4. {saved', display'} \subseteq Viture!Display
  <2>1. Viture!NothingSaved \in Viture!Display
    BY DEF Viture!NothingSaved, Viture!Display
  <2>2. saved' \in {saved, Viture!NothingSaved} /\ display' \in {saved, display}
    BY DEF Viture!disconnect, Viture!Restored
  <2> QED BY <2>1, <2>2
<1>5. saved' # Viture!NothingSaved => provider' # NoGlasses
  BY DEF Viture!disconnect
<1> QED BY <1>1, <1>2, <1>3, <1>4, <1>5

\* What a disconnect finds overridden it restores.
LEMMA VitureRestores ==
    ASSUME Viture!TypeOK, Restorable, NEW soft \in BOOLEAN, Viture!disconnect(soft),
           plugged' = plugged
    PROVE  Restorable'
<1>1. Overridden => Viture!viture_supports_native_dof(provider)
  BY DEF Restorable, Viture!viture_supports_native_dof
<1>2. display' = IF Overridden THEN saved ELSE display
  BY <1>1 DEF Viture!disconnect, Viture!Restored, Overridden
<1>3. reachable' => reachable /\ soft
  BY DEF Viture!disconnect, Viture!TypeOK
<1>4. ~Overridden'
  BY <1>1, <1>3 DEF Viture!disconnect, Overridden, Viture!NothingSaved
<1>5. chosen' = chosen /\ (soft => provider' = provider)
  BY DEF Viture!disconnect
<1> QED BY <1>2, <1>3, <1>4, <1>5 DEF Restorable, Shown

\* What viture_capture_and_override_display_mode_locked saves of a display.
Saves(s, d) ==
    s = [native |-> d.native, settings |-> IF d.native THEN d.settings ELSE "bypass mode"]

\* What is saved of a display shows the same, and is not taken for nothing.
LEMMA Captured ==
    ASSUME NEW d \in Viture!Display, NEW s, Saves(s, d)
    PROVE  s \in Viture!Display /\ s # Viture!NothingSaved /\ Shown(s) = Shown(d)
<1>1. PICK settings : settings = IF d.native THEN d.settings ELSE "bypass mode"
  OBVIOUS
<1>2. s = [native |-> d.native, settings |-> settings]
  BY <1>1 DEF Saves
<1>3. d.native \in BOOLEAN /\ d.settings \in {"user", "override", "bypass mode"}
  BY DEF Viture!Display
<1>4. s.native = d.native /\ s.settings = settings
  BY <1>2
<1>5. settings \in {"user", "override", "bypass mode"}
  BY <1>1, <1>3
<1>6. s \in Viture!Display
  BY <1>2, <1>3, <1>5 DEF Viture!Display
<1>7. /\ Viture!NothingSaved.native = FALSE
      /\ Viture!NothingSaved.settings = "override"
  BY DEF Viture!NothingSaved
<1>8. s # Viture!NothingSaved
  <2>1. CASE d.native
    BY <1>4, <1>7, <2>1
  <2>2. CASE ~d.native
    <3>1. settings = "bypass mode"
      BY <1>1, <2>2
    <3>2. s.settings # Viture!NothingSaved.settings
      BY <1>4, <1>7, <3>1
    <3> QED BY <3>2
  <2> QED BY <2>1, <2>2
<1>9. Shown(s) = Shown(d)
  <2>1. CASE d.native
    BY <1>1, <1>4, <2>1 DEF Shown
  <2>2. CASE ~d.native
    BY <1>4, <2>2 DEF Shown
  <2> QED BY <2>1, <2>2
<1> QED BY <1>6, <1>8, <1>9

\* Where the glasses stay, the rest of the host has no part in the display.
LEMMA VitureStays ==
    ASSUME Viture!TypeOK, UNCHANGED Viture!vitureVars
    PROVE  Viture!TypeOK' /\ (Restorable /\ plugged' = plugged => Restorable')
BY DEF Viture!TypeOK, Viture!vitureVars, Restorable, Overridden, Shown, Viture!NothingSaved

\* What every step of a VITURE driver achieves; the bus and the context are left to
\* the lemmas about them.
VitureStep ==
    /\ BusMove(VitureGlasses) \/ Leave
    /\ ContextMove(VitureGlasses) /\ ThreadTyped'
    /\ Viture!TypeOK' /\ Restorable'
    /\ session' = "opening" => ~connected'
    /\ provider' # NoGlasses /\ session' # "cleanup" => Awaited'

\* Each of VITURE's steps.
LEMMA VitureSteps ==
    ASSUME VitureInv, Viture!Next
    PROVE  VitureStep
<1> USE DEF VitureStep
<1> DEFINE V == VitureGlasses
<1>1. /\ Hosted(V) /\ V \in SUBSET Glasses
      /\ BusTyped(V) /\ ContextTyped(V) /\ ThreadTyped
      /\ Bus /\ Viture!TypeOK /\ Restorable
      /\ session = "opening" => ~connected
      /\ provider # NoGlasses /\ session # "cleanup" => Awaited
  BY HostTypes, Models DEF Hosted, VitureInv
<1> HIDE DEF V
<1>2. ASSUME NEW pc, pc \in {"idle", "connected"} \cup Connecting \cup Blocking, Viture!Go(pc)
      PROVE  BusMove(V) /\ ThreadTyped' /\ plugged' = plugged /\ session' = pc
  <2>1. Go(pc)
    BY <1>2, VitureHost
  <2> QED BY <1>1, <1>2, <2>1, SessionSteps DEF Go
<1>3. UNCHANGED Viture!context => ContextMove(V)
  BY VitureHost DEF ContextMove
<1>4. ASSUME NEW h \in {"handler", "session", "connect"}, Viture!Checkout(h) \/ Viture!Checkin(h)
      PROVE  ContextMove(V)
  BY <1>4, VitureHost DEF ContextMove
<1>5. BusMove(V) /\ Awaited => Awaited'
  BY <1>1, AwaitedKept
<1>6. ASSUME BusMove(V), ContextMove(V), ThreadTyped', plugged' = plugged,
             UNCHANGED Viture!vitureVars,
             session' = "opening" => session = "opening" \/ ~connected,
             session' # "cleanup" => session # "cleanup"
      PROVE  VitureStep
  <2>1. Viture!TypeOK' /\ Restorable'
    BY <1>1, <1>6, VitureStays
  <2>2. connected' = connected /\ provider' = provider
    BY <1>6 DEF Viture!vitureVars
  <2> QED BY <1>1, <1>5, <1>6, <2>1, <2>2 DEF V
<1>7. ASSUME BusMove(V) \/ Leave, ContextMove(V), ThreadTyped', plugged' = plugged,
             NEW soft \in BOOLEAN, Viture!disconnect(soft),
             session' # "cleanup" => session # "cleanup" \/ ~soft,
             soft => BusMove(V)
      PROVE  VitureStep
  <2>1. /\ Viture!TypeOK' /\ ~connected' /\ provider' \in {provider, NoGlasses}
        /\ ~soft => provider' = NoGlasses
    BY <1>1, <1>7, VitureDisconnects
  <2>2. Restorable'
    BY <1>1, <1>7, VitureRestores
  <2> QED BY <1>1, <1>5, <1>7, <2>1, <2>2 DEF V
<1>8. CASE Viture!ConnectDevice
  <2>1. /\ UNCHANGED Viture!vitureVars /\ ContextMove(V)
        /\ \/ connected /\ Viture!Go("connected")
           \/ ~connected /\ Viture!Go("opening")
        /\ session = "connect"
    BY <1>3, <1>4, <1>8 DEF Viture!ConnectDevice
  <2>2. BusMove(V) /\ ThreadTyped' /\ plugged' = plugged /\ session' \in {"connected", "opening"}
    BY <1>2, <2>1 DEF Connecting
  <2>3. session' = "opening" => ~connected
    BY <2>1 DEF Viture!Go
  <2> QED BY <1>6, <2>1, <2>2, <2>3
<1>9. CASE Viture!Block \/ Viture!Wait \/ Viture!Loop
  <2>1. /\ UNCHANGED Viture!vitureVars /\ ContextMove(V)
        /\ session \in {"block", "wait", "loop"}
        /\ \E pc \in {"wait", "loop", "end"} : Viture!Go(pc)
    BY <1>3, <1>9 DEF Viture!Block, Viture!Wait, Viture!Loop
  <2>2. BusMove(V) /\ ThreadTyped' /\ plugged' = plugged /\ session' \in {"wait", "loop", "end"}
    BY <1>2, <2>1 DEF Blocking
  <2> QED BY <1>6, <2>1, <2>2
<1>10. CASE Viture!End
  <2>1. Viture!disconnect(TRUE) /\ ContextMove(V) /\ Viture!Go("idle") /\ session = "end"
    BY <1>3, <1>10 DEF Viture!End
  <2>2. BusMove(V) /\ ThreadTyped' /\ plugged' = plugged
    BY <1>2, <2>1
  <2> QED BY <1>7, <2>1, <2>2
<1>11. CASE Viture!Return
  <2>1. /\ ContextMove(V)
        /\ \E pc \in {"idle", "connected"} : Viture!Go(pc)
    BY <1>3, <1>4, <1>11 DEF Viture!Return
  <2>2. BusMove(V) /\ ThreadTyped' /\ plugged' = plugged /\ session' \in {"idle", "connected"}
    BY <1>2, <2>1
  <2>3. CASE session = "cleanup"
    <3>1. Viture!disconnect(FALSE)
      BY <1>11, <2>3 DEF Viture!Return
    <3> QED BY <1>7, <2>1, <2>2, <3>1
  <2>4. CASE session # "cleanup"
    <3>1. UNCHANGED Viture!vitureVars
      BY <1>11, <2>4 DEF Viture!Return
    <3> QED BY <1>6, <2>1, <2>2, <2>4, <3>1
  <2> QED BY <2>3, <2>4
<1>12. CASE Viture!LeaveViture
  <2>1. Leave /\ ContextMove(V) /\ ThreadTyped' /\ plugged' = plugged /\ session' = session
    BY <1>1, <1>12, VitureHost, LeaveSteps DEF Viture!LeaveViture, Leave
  <2>2. CASE Removes
    <3>1. Viture!disconnect(FALSE)
      BY <1>12, <2>2, VitureHost DEF Viture!LeaveViture
    <3> QED BY <1>7, <2>1, <3>1
  <2>3. CASE ~Removes
    <3>1. UNCHANGED Viture!vitureVars
      BY <1>12, <2>3, VitureHost DEF Viture!LeaveViture
    <3>2. connected' = connected /\ provider' = provider
      BY <3>1 DEF Viture!vitureVars
    <3>3. Viture!TypeOK' /\ Restorable'
      BY <1>1, <2>1, <3>1, VitureStays
    <3>4. Awaited => Awaited'
      BY <1>1, <2>1, <2>3, AwaitedKept
    <3> QED BY <1>1, <2>1, <3>2, <3>3, <3>4 DEF V
  <2> QED BY <2>2, <2>3
<1>13. CASE Viture!DisconnectViture
  <2>1. /\ BusMove(V) /\ ContextMove(V) /\ ThreadTyped'
        /\ plugged' = plugged /\ session' = session
    BY <1>1, <1>13, VitureHost, HostSteps DEF Viture!DisconnectViture, DisconnectAll
  <2>2. UNCHANGED Viture!vitureVars \/ Viture!disconnect(TRUE)
    BY <1>13 DEF Viture!DisconnectViture
  <2>3. CASE UNCHANGED Viture!vitureVars
    BY <1>6, <2>1, <2>3
  <2>4. CASE Viture!disconnect(TRUE)
    BY <1>1, <1>5, <1>7, <2>1, <2>4
  <2> QED BY <2>2, <2>3, <2>4
<1>14. CASE /\ \/ Viture!ThreadStep \/ Viture!Healthy \/ Viture!Disable(connected)
               \/ Viture!Arrive \/ Viture!Announce
            /\ UNCHANGED Viture!vitureVars
  <2>1. ThreadStep \/ Healthy \/ Disable(connected) \/ Arrive \/ Announce
    BY <1>14, VitureHost
  <2>2. BusMove(V) /\ ContextMove(V) /\ ThreadTyped'
    BY <1>1, <2>1, HostSteps
  <2>3. /\ plugged' = plugged
        /\ session' = session \/ (session \in {"idle", "connected"} /\ session' # "opening")
    BY <2>1 DEF ThreadStep, Healthy, Disable, Arrive, Announce, Enable, Connect, BlockOnActive,
                Silence, Go
  <2> QED BY <1>6, <1>14, <2>2, <2>3
<1>15. CASE Viture!viture_supported_device
  <2>1. /\ usb = "probe" /\ product' = arriving /\ ProbeGoesOn
        /\ UNCHANGED <<plugged, session, disabled, disconnecting, alive>> /\ ContextMove(V)
        /\ UNCHANGED <<provider, reachable, connected, imu_open, saved, display, chosen>>
    BY <1>3, <1>15 DEF Viture!viture_supported_device, ProbeGoesOn
  <2>2. ThreadTyped' /\ BusMove(V)
    BY <1>1, <2>1 DEF ThreadTyped, BusMove
  <2>3. Viture!TypeOK'
    BY <1>1, <2>1 DEF Viture!TypeOK, BusTyped, V
  <2>4. arriving # NoGlasses
    BY <1>1, <2>1 DEF BusTyped
  <2>5. Overridden => arriving = provider
    BY <1>1, <2>4 DEF Restorable, Overridden, Bus, About
  <2>6. Overridden' = Overridden
    BY <2>1 DEF Overridden, Viture!NothingSaved
  <2>7. Restorable'
    BY <1>1, <2>1, <2>5, <2>6 DEF Restorable, Shown
  <2> QED BY <1>1, <1>5, <2>1, <2>2, <2>3, <2>7 DEF V
<1>16. CASE Viture!PlugViture
  <2>1. PICK g \in V : Plug(g)
    BY <1>16, VitureHost DEF Viture!PlugViture, V
  <2>2. /\ chosen' = display' /\ display' \in Viture!Display
        /\ UNCHANGED <<product, provider, reachable, connected, imu_open, saved>>
    BY <1>16 DEF Viture!PlugViture, Viture!Display
  <2>3. BusMove(V) /\ ContextMove(V) /\ ThreadTyped'
    BY <1>1, <2>1, HostSteps
  <2>4. plugged = NoGlasses /\ session' = session
    BY <2>1 DEF Plug
  <2>5. Viture!TypeOK'
    BY <1>1, <2>2 DEF Viture!TypeOK
  <2>6. ~reachable
    BY <1>1, <2>4 DEF Restorable
  <2>7. Restorable'
    BY <2>2, <2>6 DEF Restorable, Overridden, Shown
  <2> QED BY <1>1, <1>5, <2>2, <2>3, <2>4, <2>5, <2>7 DEF V
<1>17. CASE Viture!UnplugViture
  <2>1. Unplug /\ reachable' = FALSE
        /\ UNCHANGED <<product, provider, connected, imu_open, saved, display, chosen>>
    BY <1>17, VitureHost DEF Viture!UnplugViture
  <2>2. BusMove(V) /\ ContextMove(V) /\ ThreadTyped'
    BY <1>1, <2>1, HostSteps
  <2>3. plugged' = NoGlasses /\ session' = session
    BY <2>1 DEF Unplug
  <2>4. Viture!TypeOK'
    BY <1>1, <2>1 DEF Viture!TypeOK
  <2>5. Restorable'
    BY <2>1, <2>3 DEF Restorable, Overridden
  <2> QED BY <1>1, <1>5, <2>1, <2>2, <2>3, <2>4, <2>5 DEF V
<1>18. CASE Viture!Opened
  <2>1. /\ session = "opening" /\ plugged # NoGlasses
        /\ provider' = plugged /\ reachable' = TRUE /\ connected' = TRUE
        /\ imu_open' = (plugged \notin Carina)
        /\ ContextMove(V) /\ product' = product /\ chosen' = chosen
        /\ Viture!Capture /\ Viture!Go("opened")
    BY <1>3, <1>18 DEF Viture!Opened
  <2>2. BusMove(V) /\ ThreadTyped' /\ plugged' = plugged /\ session' = "opened"
    BY <1>2, <2>1 DEF Connecting
  <2>3. Shown(display) = Shown(chosen)
    BY <1>1, <2>1 DEF Restorable
  <2>4. CASE provider' \in NativeDof /\ product \in NativeDof
    <3>1. /\ saved' = [native |-> display.native,
                       settings |-> IF display.native THEN display.settings ELSE "bypass mode"]
          /\ display' = [native |-> FALSE, settings |-> "override"]
      BY <2>1, <2>4 DEF Viture!Capture, Viture!viture_supports_native_dof
    <3>2. /\ saved' \in Viture!Display /\ saved' # Viture!NothingSaved
          /\ Shown(saved') = Shown(display)
      <4>1. display \in Viture!Display
        BY <1>1 DEF Viture!TypeOK
      <4>2. Saves(saved', display)
        BY <3>1 DEF Saves
      <4> QED BY <4>1, <4>2, Captured
    <3>3. display' \in Viture!Display
      BY <3>1 DEF Viture!Display
    <3>4. Viture!TypeOK'
      BY <1>1, <2>1, <2>2, <3>2, <3>3 DEF Viture!TypeOK, BusTyped, V
    <3>5. Restorable'
      BY <2>1, <2>2, <2>3, <2>4, <3>2 DEF Restorable, Overridden, Shown
    <3> QED BY <1>1, <2>1, <2>2, <3>4, <3>5, AwaitedAnyway DEF V
  <2>5. CASE ~(provider' \in NativeDof /\ product \in NativeDof)
    <3>1. saved' = Viture!NothingSaved /\ display' = display
      BY <2>1, <2>5 DEF Viture!Capture, Viture!viture_supports_native_dof
    <3>2. saved' \in Viture!Display
      BY <3>1 DEF Viture!Display, Viture!NothingSaved
    <3>3. Viture!TypeOK'
      BY <1>1, <2>1, <2>2, <3>1, <3>2 DEF Viture!TypeOK, BusTyped, V
    <3>4. Restorable'
      BY <2>1, <2>2, <2>3, <3>1 DEF Restorable, Overridden, Shown, Viture!NothingSaved
    <3> QED BY <1>1, <2>1, <2>2, <3>3, <3>4, AwaitedAnyway DEF V
  <2> QED BY <2>4, <2>5
<1>19. CASE Viture!NotOpened
  <2>1. /\ session = "opening" /\ provider' \in {provider, Viture!Opens}
        /\ UNCHANGED <<product, reachable, connected, imu_open, saved, display, chosen>>
        /\ ContextMove(V) /\ Viture!Go("cleanup")
    BY <1>3, <1>19 DEF Viture!NotOpened
  <2>2. BusMove(V) /\ ThreadTyped' /\ plugged' = plugged /\ session' = "cleanup"
    BY <1>2, <2>1 DEF Connecting
  <2>3. /\ provider' \in V \cup {NoGlasses}
        /\ provider # NoGlasses => provider' = provider
    BY <1>1, <2>1 DEF Viture!Opens, Viture!TypeOK, ContextTyped, V
  <2>4. Viture!TypeOK'
    BY <1>1, <2>1, <2>3 DEF Viture!TypeOK, V
  <2>5. Restorable'
    BY <1>1, <2>1, <2>2, <2>3 DEF Restorable, Overridden, Shown
  <2> QED BY <1>1, <2>1, <2>2, <2>4, <2>5 DEF V
<1> QED BY <1>8, <1>9, <1>10, <1>11, <1>12, <1>13, <1>14, <1>15, <1>16, <1>17, <1>18, <1>19
        DEF Viture!Next, Viture!SessionStep, Viture!UsbStep, Viture!PoseCallback

\* VITURE's part of the invariant is inductive.
LEMMA VitureKept ==
    ASSUME VitureInv, Viture!Next
    PROVE  VitureInv'
<1>1. Hosted(VitureGlasses) /\ VitureGlasses \in SUBSET Glasses
  BY HostTypes, Models DEF VitureInv
<1>2. BusTyped(VitureGlasses) /\ ContextTyped(VitureGlasses) /\ Bus
  BY <1>1 DEF Hosted, VitureInv
<1>3. VitureStep
  BY VitureSteps
<1>4. BusTyped(VitureGlasses)' /\ ContextTyped(VitureGlasses)' /\ Bus'
  BY <1>1, <1>2, <1>3, BusTypes, ContextTypes, BusKept DEF VitureStep
<1>5. Viture!HostTypeOK'
  <2>1. (Viture!HostTypeOK <=> Hosted(VitureGlasses))'
    BY HostTypes, PTL
  <2> QED BY <1>3, <1>4, <2>1 DEF Hosted, VitureStep
<1> QED BY <1>3, <1>4, <1>5 DEF VitureInv, VitureStep

-----------------------------------------------------------------------------
(* The steps of a Rokid driver.                                            *)

\* The host's steps, as RokidSession names them.
LEMMA RokidHost ==
    /\ \A pc : Rokid!Go(pc) => Go(pc)
    /\ \A h : (Rokid!Checkout(h) => Checkout(h)) /\ (Rokid!Checkin(h) => Checkin(h))
    /\ UNCHANGED Rokid!context <=> UNCHANGED context
    /\ UNCHANGED Rokid!host <=> UNCHANGED host
    /\ (\E g \in RokidGlasses : Rokid!Plug(g)) => \E g \in RokidGlasses : Plug(g)
    /\ Rokid!Unplug => Unplug
    /\ Rokid!ThreadStep => ThreadStep
    /\ \A c : Rokid!Disable(c) => Disable(c)
    /\ Rokid!DisconnectAll => DisconnectAll
    /\ Rokid!Healthy => Healthy
    /\ Rokid!Arrive => Arrive
    /\ Rokid!Announce => Announce
    /\ Rokid!Leave => Leave
    /\ Rokid!Removes <=> Removes
<1> USE DEF context, Rokid!context
<1>1. \A pc : Rokid!Go(pc) => Go(pc)
  BY DEF Rokid!Go, Go
<1>2. \A h : (Rokid!Checkout(h) => Checkout(h)) /\ (Rokid!Checkin(h) => Checkin(h))
  BY DEF Rokid!Checkout, Checkout, Rokid!Checkin, Checkin, Rokid!device_present,
         device_present
<1>3. UNCHANGED Rokid!host <=> UNCHANGED host
  BY DEF Rokid!host, host
<1>4. (\E g \in RokidGlasses : Rokid!Plug(g)) => \E g \in RokidGlasses : Plug(g)
  BY DEF Rokid!Plug, Plug
<1>5. Rokid!Unplug => Unplug
  BY DEF Rokid!Unplug, Unplug
<1>6. Rokid!ThreadStep => ThreadStep
  BY DEF Rokid!ThreadStep, ThreadStep, Rokid!Enable, Enable, Rokid!Connect, Connect,
         Rokid!BlockOnActive, BlockOnActive, Rokid!Silence, Silence, Rokid!Go, Go,
         Rokid!device_present, device_present
<1>7. /\ \A c : Rokid!Disable(c) => Disable(c)
      /\ Rokid!DisconnectAll => DisconnectAll
      /\ Rokid!Healthy => Healthy
  BY DEF Rokid!Disable, Disable, Rokid!DisconnectAll, DisconnectAll, Rokid!Healthy, Healthy
<1>8. (Rokid!Arrive => Arrive) /\ (Rokid!Announce => Announce)
  BY DEF Rokid!Arrive, Arrive, Rokid!Announce, Announce, Rokid!Install, Install
<1>9. (Rokid!Leave => Leave) /\ (Rokid!Removes <=> Removes)
  BY DEF Rokid!Leave, Leave, Rokid!Removes, Removes, Rokid!Uninstall, Uninstall,
         Rokid!Checkin, Checkin
<1> QED BY <1>1, <1>2, <1>3, <1>4, <1>5, <1>6, <1>7, <1>8, <1>9

\* What happens to the flags and the instances of the SDK.
LEMMA RokidTypes ==
    ASSUME Rokid!TypeOK,
           \/ UNCHANGED Rokid!rokidVars
           \/ Rokid!Cleanup \/ Rokid!Instances \/ Rokid!NotOpened \/ Rokid!Registered
           \/ Rokid!rokid_disconnect(TRUE) \/ Rokid!rokid_disconnect(FALSE)
    PROVE  Rokid!TypeOK'
<1> USE DEF Rokid!TypeOK
<1>1. CASE UNCHANGED Rokid!rokidVars
  BY <1>1 DEF Rokid!rokidVars
<1>2. CASE Rokid!Cleanup \/ Rokid!NotOpened
  BY <1>2 DEF Rokid!Cleanup, Rokid!NotOpened
<1>3. CASE Rokid!Instances
  BY <1>3 DEF Rokid!Instances
<1>4. CASE Rokid!Registered
  BY <1>4 DEF Rokid!Registered
<1>5. ASSUME NEW soft \in BOOLEAN, Rokid!rokid_disconnect(soft)
      PROVE  Rokid!TypeOK'
  BY <1>5 DEF Rokid!rokid_disconnect
<1> QED BY <1>1, <1>2, <1>3, <1>4, <1>5

\* Rokid's part of the invariant is inductive.
LEMMA RokidKept ==
    ASSUME RokidInv, Rokid!Next
    PROVE  RokidInv'
<1> DEFINE V == RokidGlasses
<1> DEFINE Bussed == BusMove(V) \/ Leave \/ ProbeFails
<1>1. /\ Hosted(V) /\ V \in SUBSET Glasses
      /\ BusTyped(V) /\ ContextTyped(V) /\ ThreadTyped /\ Rokid!TypeOK
  BY HostTypes, Models DEF Hosted, RokidInv
<1> HIDE DEF V
<1>2. SUFFICES Bussed /\ ContextMove(V) /\ ThreadTyped' /\ Rokid!TypeOK'
  <2>1. (Rokid!HostTypeOK <=> Hosted(RokidGlasses))'
    BY HostTypes, PTL
  <2> QED BY <1>1, <2>1, BusTypes, ContextTypes DEF Hosted, RokidInv, V
<1>3. ASSUME NEW pc, pc \in {"idle", "connected"} \cup Connecting \cup Blocking, Rokid!Go(pc)
      PROVE  Bussed /\ ThreadTyped'
  <2>1. Go(pc)
    BY <1>3, RokidHost
  <2> QED BY <1>1, <1>3, <2>1, SessionSteps
<1>4. UNCHANGED Rokid!context => ContextMove(V)
  BY RokidHost DEF ContextMove
<1>5. ASSUME NEW h \in {"handler", "session", "connect"}, Rokid!Checkout(h) \/ Rokid!Checkin(h)
      PROVE  ContextMove(V)
  BY <1>5, RokidHost DEF ContextMove
<1>6. CASE Rokid!ConnectDevice
  <2>1. /\ ContextMove(V)
        /\ UNCHANGED Rokid!rokidVars \/ Rokid!Instances \/ Rokid!NotOpened \/ Rokid!Registered
        /\ \E pc \in {"opening", "connected", "idle", "opened"} : Rokid!Go(pc)
    BY <1>4, <1>5, <1>6 DEF Rokid!ConnectDevice
  <2>2. Bussed /\ ThreadTyped'
    BY <1>3, <2>1 DEF Connecting
  <2> QED BY <1>1, <2>1, <2>2, RokidTypes
<1>7. CASE Rokid!Block \/ Rokid!Loop \/ Rokid!End
  <2>1. /\ ContextMove(V)
        /\ UNCHANGED Rokid!rokidVars \/ Rokid!Cleanup
        /\ \E pc \in {"loop", "end", "idle"} : Rokid!Go(pc)
    BY <1>4, <1>5, <1>7 DEF Rokid!Block, Rokid!Loop, Rokid!End
  <2>2. Bussed /\ ThreadTyped'
    BY <1>3, <2>1 DEF Blocking
  <2> QED BY <1>1, <2>1, <2>2, RokidTypes
<1>8. CASE Rokid!ProbeStep
  <2>1. /\ UNCHANGED <<plugged, events, entry, session, disabled, disconnecting, alive>>
        /\ ContextMove(V)
    BY <1>4, <1>8 DEF Rokid!ProbeStep, Rokid!probeHost
  <2>2. /\ \/ UNCHANGED Rokid!rokidVars \/ Rokid!Instances \/ Rokid!NotOpened
           \/ Rokid!Registered \/ Rokid!rokid_disconnect(TRUE)
        /\ usb # "idle"
        /\ \/ usb' \in {"announce", "opening", "opened", "name"} /\ UNCHANGED arriving
           \/ usb' = "idle" /\ arriving' = NoGlasses
    BY <1>8 DEF Rokid!ProbeStep, Rokid!Probe
  <2>3. Bussed
    BY <2>1, <2>2 DEF BusMove, ProbeGoesOn, ProbeFails, Probing
  <2>4. ThreadTyped'
    BY <1>1, <2>1 DEF ThreadTyped
  <2> QED BY <1>1, <2>1, <2>2, <2>3, <2>4, RokidTypes
<1>9. CASE Rokid!LeaveRokid
  <2>1. Leave /\ ContextMove(V) /\ ThreadTyped'
    BY <1>1, <1>9, RokidHost, LeaveSteps DEF Rokid!LeaveRokid
  <2>2. UNCHANGED Rokid!rokidVars \/ Rokid!rokid_disconnect(FALSE)
    BY <1>9 DEF Rokid!LeaveRokid
  <2> QED BY <1>1, <2>1, <2>2, RokidTypes
<1>10. CASE Rokid!DisconnectRokid
  <2>1. Bussed /\ ContextMove(V) /\ ThreadTyped'
    BY <1>1, <1>10, RokidHost, HostSteps DEF Rokid!DisconnectRokid
  <2>2. UNCHANGED Rokid!rokidVars \/ Rokid!rokid_disconnect(TRUE)
    BY <1>10 DEF Rokid!DisconnectRokid
  <2> QED BY <1>1, <2>1, <2>2, RokidTypes
<1>11. CASE /\ \/ Rokid!HostStep \/ Rokid!Disable(soft_connected)
               \/ Rokid!Arrive \/ Rokid!Announce
            /\ UNCHANGED Rokid!rokidVars
  <2>1. \/ (\E g \in V : Plug(g)) \/ Unplug \/ ThreadStep
        \/ Disable(soft_connected) \/ Arrive \/ Announce
    BY <1>11, RokidHost DEF Rokid!HostStep, V
  <2>2. Bussed /\ ContextMove(V) /\ ThreadTyped'
    BY <1>1, <2>1, HostSteps
  <2> QED BY <1>1, <1>11, <2>2, RokidTypes
<1> QED BY <1>6, <1>7, <1>8, <1>9, <1>10, <1>11
        DEF Rokid!Next, Rokid!SessionStep, Rokid!UsbStep

-----------------------------------------------------------------------------
(* The steps of an XREAL driver.                                           *)

\* The host's steps, as XrealSession names them.
LEMMA XrealHost ==
    /\ \A pc : Xreal!Go(pc) => Go(pc)
    /\ \A h : (Xreal!Checkout(h) => Checkout(h)) /\ (Xreal!Checkin(h) => Checkin(h))
    /\ UNCHANGED Xreal!context <=> UNCHANGED context
    /\ UNCHANGED Xreal!host <=> UNCHANGED host
    /\ (\E g \in XrealGlasses : Xreal!Plug(g)) => \E g \in XrealGlasses : Plug(g)
    /\ Xreal!Unplug => Unplug
    /\ Xreal!ThreadStep => ThreadStep
    /\ \A c : Xreal!Disable(c) => Disable(c)
    /\ Xreal!DisconnectAll => DisconnectAll
    /\ Xreal!Healthy => Healthy
    /\ Xreal!Arrive => Arrive
    /\ Xreal!Announce => Announce
    /\ Xreal!Leave => Leave
    /\ Xreal!Removes <=> Removes
<1> USE DEF context, Xreal!context
<1>1. \A pc : Xreal!Go(pc) => Go(pc)
  BY DEF Xreal!Go, Go
<1>2. \A h : (Xreal!Checkout(h) => Checkout(h)) /\ (Xreal!Checkin(h) => Checkin(h))
  BY DEF Xreal!Checkout, Checkout, Xreal!Checkin, Checkin, Xreal!device_present,
         device_present
<1>3. UNCHANGED Xreal!host <=> UNCHANGED host
  BY DEF Xreal!host, host
<1>4. (\E g \in XrealGlasses : Xreal!Plug(g)) => \E g \in XrealGlasses : Plug(g)
  BY DEF Xreal!Plug, Plug
<1>5. Xreal!Unplug => Unplug
  BY DEF Xreal!Unplug, Unplug
<1>6. Xreal!ThreadStep => ThreadStep
  BY DEF Xreal!ThreadStep, ThreadStep, Xreal!Enable, Enable, Xreal!Connect, Connect,
         Xreal!BlockOnActive, BlockOnActive, Xreal!Silence, Silence, Xreal!Go, Go,
         Xreal!device_present, device_present
<1>7. /\ \A c : Xreal!Disable(c) => Disable(c)
      /\ Xreal!DisconnectAll => DisconnectAll
      /\ Xreal!Healthy => Healthy
  BY DEF Xreal!Disable, Disable, Xreal!DisconnectAll, DisconnectAll, Xreal!Healthy, Healthy
<1>8. (Xreal!Arrive => Arrive) /\ (Xreal!Announce => Announce)
  BY DEF Xreal!Arrive, Arrive, Xreal!Announce, Announce, Xreal!Install, Install
<1>9. (Xreal!Leave => Leave) /\ (Xreal!Removes <=> Removes)
  BY DEF Xreal!Leave, Leave, Xreal!Removes, Removes, Xreal!Uninstall, Uninstall,
         Xreal!Checkin, Checkin
<1> QED BY <1>1, <1>2, <1>3, <1>4, <1>5, <1>6, <1>7, <1>8, <1>9

XrealStep ==
    /\ BusMove(XrealGlasses) \/ Leave
    /\ ContextMove(XrealGlasses) /\ ThreadTyped'
    /\ Xreal!TypeOK' /\ Threads'

\* The steps that the threads of a session have no part in.
LEMMA XrealStays ==
    ASSUME Xreal!TypeOK, Threads, NEW disconnects \in BOOLEAN,
           UNCHANGED <<mcu_enabled, model, imu, controller, mcu_exited, imu_thread,
                       controller_thread, keep>>,
           connected' = IF disconnects THEN FALSE ELSE connected,
           session' = session \/ (session = "idle" /\ session' = "connect")
              \/ (session = "connected" /\ session' \in {"block", "idle"})
    PROVE  Xreal!TypeOK' /\ Threads'
BY DEF Xreal!TypeOK, Threads

\* Each of XREAL's steps but a restart.
LEMMA XrealSteps ==
    ASSUME XrealInv, Xreal!Runs
    PROVE  XrealStep
<1> DEFINE V == XrealGlasses
<1> DEFINE Moves == (BusMove(V) \/ Leave) /\ ContextMove(V) /\ ThreadTyped'
<1>1. /\ Hosted(V) /\ V \in SUBSET Glasses
      /\ BusTyped(V) /\ ContextTyped(V) /\ ThreadTyped /\ Xreal!TypeOK /\ Threads
  BY HostTypes, Models DEF Hosted, XrealInv
<1> HIDE DEF V
<1>2. SUFFICES Moves /\ Xreal!TypeOK' /\ Threads'
  BY DEF XrealStep, V
<1>3. ASSUME NEW pc, Xreal!Go(pc),
             pc \in {"idle", "connected", "crashed"} \cup Connecting \cup Blocking
      PROVE  BusMove(V) /\ ThreadTyped' /\ plugged' = plugged /\ session' = pc
  <2>1. Go(pc)
    BY <1>3, XrealHost
  <2> QED BY <1>1, <1>3, <2>1, SessionSteps DEF Go
<1>4. UNCHANGED Xreal!context => ContextMove(V)
  BY XrealHost DEF ContextMove
<1>5. ASSUME NEW h \in {"handler", "session", "connect"}, Xreal!Checkout(h) \/ Xreal!Checkin(h)
      PROVE  ContextMove(V)
  BY <1>5, XrealHost DEF ContextMove
<1>6. UNCHANGED Xreal!host => Moves /\ session' = session
  <2> SUFFICES ASSUME UNCHANGED Xreal!host
               PROVE  Moves /\ session' = session
    OBVIOUS
  <2>1. UNCHANGED host
    BY XrealHost
  <2>2. BusMove(V) /\ ContextMove(V)
    BY <2>1 DEF host, context, BusMove, bus, ContextMove
  <2>3. ThreadTyped' /\ session' = session
    BY <1>1, <2>1 DEF host, ThreadTyped
  <2> QED BY <2>2, <2>3
<1>7. CASE Xreal!OpenController
  <2>1. /\ session = "connect" /\ Xreal!Go("connect_imu") /\ ContextMove(V)
        /\ imu' = "null" /\ controller' \in {controller, "open"}
        /\ UNCHANGED <<connected, model, mcu_exited, imu_thread, controller_thread, keep>>
    BY <1>4, <1>7 DEF Xreal!OpenController
  <2>2. Moves /\ session' = "connect_imu"
    BY <1>3, <2>1 DEF Connecting
  <2>3. mcu_enabled' \in BOOLEAN
    BY <1>1, <1>7 DEF Xreal!OpenController, Xreal!TypeOK
  <2> QED BY <1>1, <2>1, <2>2, <2>3 DEF Xreal!TypeOK, Threads
<1>8. CASE Xreal!OpenImu
  <2>1. /\ session = "connect_imu" /\ Xreal!Go("connected_imu") /\ ContextMove(V)
        /\ imu' = IF connected' THEN "open" ELSE "null"
        /\ UNCHANGED <<mcu_enabled, model, controller, mcu_exited, imu_thread,
                       controller_thread, keep>>
    BY <1>4, <1>8 DEF Xreal!OpenImu
  <2>2. Moves /\ session' = "connected_imu"
    BY <1>3, <2>1 DEF Connecting
  <2>3. connected' \in BOOLEAN
    BY <1>8 DEF Xreal!OpenImu
  <2> QED BY <1>1, <2>1, <2>2, <2>3 DEF Xreal!TypeOK, Threads
<1>9. CASE Xreal!CloseController
  <2>1. /\ session = "connected_imu" /\ ContextMove(V)
        /\ controller' \in {controller, "null"}
        /\ UNCHANGED <<connected, mcu_enabled, model, imu, mcu_exited, imu_thread,
                       controller_thread, keep>>
    BY <1>4, <1>9 DEF Xreal!CloseController
  <2>2. \/ connected /\ Xreal!Go("connected")
        \/ Xreal!Go("idle") \/ Xreal!Go("crashed")
    BY <1>9 DEF Xreal!CloseController
  <2>3. Moves /\ session' \in {"connected", "idle", "crashed"}
    BY <1>3, <2>1, <2>2
  <2>4. session' = "connected" => connected
    BY <2>2 DEF Xreal!Go
  <2> QED BY <1>1, <2>1, <2>3, <2>4 DEF Xreal!TypeOK, Threads
<1>10. CASE Xreal!Probe
  <2>1. /\ usb = "probe" /\ usb' = "announce" /\ model' = arriving
        /\ UNCHANGED <<plugged, events, arriving, entry>>
        /\ UNCHANGED <<session, disabled, disconnecting, alive>> /\ ContextMove(V)
        /\ UNCHANGED <<connected, mcu_enabled, imu, controller, mcu_exited, imu_thread,
                       controller_thread, keep>>
    BY <1>4, <1>10 DEF Xreal!Probe
  <2>2. Moves
    BY <1>1, <2>1 DEF BusMove, ProbeGoesOn, ThreadTyped
  <2>3. Xreal!TypeOK'
    BY <1>1, <2>1 DEF Xreal!TypeOK, BusTyped, V
  <2> QED BY <1>1, <2>1, <2>2, <2>3 DEF Threads
<1>11. CASE Xreal!ImuStep
  <2>1. /\ imu_thread \in {"poll", "wait"}
        /\ \/ imu_thread' = "wait" /\ imu' = imu
           \/ imu_thread' = "done" /\ imu' = "null"
        /\ UNCHANGED <<connected, mcu_enabled, model, controller, mcu_exited,
                       controller_thread, keep>>
        /\ UNCHANGED Xreal!host
    BY <1>11 DEF Xreal!ImuStep, Xreal!PollImuEnds, Xreal!CloseImu, Xreal!imuRest
  <2> QED BY <1>1, <1>6, <2>1 DEF Xreal!TypeOK, Threads
<1>12. CASE Xreal!ControllerStep
  <2>1. /\ controller_thread' \in {"poll", "close", "free", "done"}
        /\ controller' \in {controller, "null"} /\ mcu_exited' \in {mcu_exited, FALSE, TRUE}
        /\ UNCHANGED <<connected, mcu_enabled, model, imu, imu_thread, keep>>
        /\ UNCHANGED Xreal!host
    BY <1>12 DEF Xreal!ControllerStep, Xreal!PollControllerStarts, Xreal!PollControllerEnds,
                 Xreal!ControllerCloses, Xreal!FreeController, Xreal!controllerRest
  <2>2. mcu_exited' \in BOOLEAN
    BY <1>1, <2>1 DEF Xreal!TypeOK
  <2> QED BY <1>1, <1>6, <2>1, <2>2 DEF Xreal!TypeOK, Threads
<1>13. CASE Xreal!Block
  <2>1. /\ session = "block" /\ ContextMove(V)
        /\ \/ /\ Xreal!Go("wait") /\ imu_thread' = "poll" /\ controller_thread' = "start"
           \/ Xreal!Go("idle") /\ UNCHANGED <<imu_thread, controller_thread>>
        /\ UNCHANGED <<mcu_enabled, model, imu, controller, mcu_exited, connected, keep>>
    BY <1>5, <1>13 DEF Xreal!Block, Xreal!sessionRest, Xreal!threads
  <2>2. Moves /\ session' \in {"wait", "idle"}
    BY <1>3, <2>1 DEF Blocking
  <2>3. session' = "idle" => UNCHANGED <<imu_thread, controller_thread>>
    BY <2>1 DEF Xreal!Go
  <2> QED BY <1>1, <2>1, <2>2, <2>3 DEF Xreal!TypeOK, Threads
<1>14. CASE Xreal!Wait \/ Xreal!Store \/ Xreal!Loop
  <2>1. /\ session \in {"wait", "store", "loop"} /\ ContextMove(V)
        /\ \E pc \in {"store", "loop", "join"} : Xreal!Go(pc)
        /\ UNCHANGED <<mcu_enabled, model, imu, controller, mcu_exited, imu_thread,
                       controller_thread>>
    BY <1>4, <1>14 DEF Xreal!Wait, Xreal!Store, Xreal!Loop, Xreal!sessionRest, Xreal!threads
  <2>2. Moves /\ session' \in {"store", "loop", "join"}
    BY <1>3, <2>1 DEF Blocking
  <2>3. keep' \in BOOLEAN /\ connected' \in BOOLEAN
    BY <1>1, <1>14 DEF Xreal!Wait, Xreal!Store, Xreal!Loop, Xreal!TypeOK
  <2> QED BY <1>1, <2>1, <2>2, <2>3 DEF Xreal!TypeOK, Threads
<1>15. CASE Xreal!Join
  <2>1. /\ imu_thread' = "none" /\ controller_thread' = "none"
        /\ Xreal!Go("idle") /\ ContextMove(V)
        /\ UNCHANGED <<mcu_enabled, model, imu, controller, mcu_exited, connected, keep>>
    BY <1>5, <1>15 DEF Xreal!Join, Xreal!sessionRest
  <2>2. Moves /\ session' = "idle"
    BY <1>3, <2>1
  <2> QED BY <1>1, <2>1, <2>2 DEF Xreal!TypeOK, Threads
<1>16. CASE Xreal!LeaveXreal \/ Xreal!DisconnectXreal
  <2>1. Leave \/ DisconnectAll
    BY <1>16, XrealHost DEF Xreal!LeaveXreal, Xreal!DisconnectXreal
  <2>2. Moves /\ session' = session
    BY <1>1, <2>1, LeaveSteps, HostSteps DEF Leave, DisconnectAll
  <2>3. \E disconnects \in BOOLEAN :
            /\ UNCHANGED <<mcu_enabled, model, imu, controller, mcu_exited, imu_thread,
                           controller_thread, keep>>
            /\ connected' = IF disconnects THEN FALSE ELSE connected
    BY <1>16 DEF Xreal!LeaveXreal, Xreal!DisconnectXreal, Xreal!xreal_disconnect,
                 Xreal!sessionRest, Xreal!threads, Xreal!xrealVars
  <2> QED BY <1>1, <2>2, <2>3, XrealStays
<1>17. CASE Xreal!UnplugXreal
  <2>1. /\ Unplug /\ imu' = Xreal!Broken(imu) /\ controller' = Xreal!Broken(controller)
        /\ UNCHANGED <<connected, mcu_enabled, model, mcu_exited, imu_thread,
                       controller_thread, keep>>
    BY <1>17, XrealHost DEF Xreal!UnplugXreal, Xreal!threads
  <2>2. Moves /\ session' = session
    BY <1>1, <2>1, HostSteps DEF Unplug
  <2>3. /\ {imu', controller'} \subseteq {"null", "open", "broken"}
        /\ imu' = "null" <=> imu = "null"
    BY <1>1, <2>1 DEF Xreal!Broken, Xreal!TypeOK
  <2> QED BY <1>1, <2>1, <2>2, <2>3 DEF Xreal!TypeOK, Threads
<1>18. CASE /\ \/ \E g \in V : Xreal!Plug(g)
               \/ Xreal!ThreadStep \/ Xreal!Healthy \/ Xreal!Disable(connected)
               \/ Xreal!Arrive \/ Xreal!Announce
            /\ UNCHANGED Xreal!xrealVars
  <2>1. \/ \E g \in V : Plug(g)
        \/ ThreadStep \/ Healthy \/ Disable(connected) \/ Arrive \/ Announce
    BY <1>18, XrealHost DEF V
  <2>2. Moves
    BY <1>1, <2>1, HostSteps
  <2>3. \/ session' = session \/ (session = "idle" /\ session' = "connect")
        \/ session = "connected" /\ session' \in {"block", "idle"}
    BY <2>1 DEF Plug, ThreadStep, Healthy, Disable, Arrive, Announce, Enable, Connect,
                BlockOnActive, Silence, Go
  <2>4. /\ UNCHANGED <<mcu_enabled, model, imu, controller, mcu_exited, imu_thread,
                       controller_thread, keep>>
        /\ connected' = connected
    BY <1>18 DEF Xreal!xrealVars
  <2> QED BY <1>1, <2>2, <2>3, <2>4, XrealStays
<1> QED BY <1>7, <1>8, <1>9, <1>10, <1>11, <1>12, <1>13, <1>14, <1>15, <1>16, <1>17, <1>18
        DEF Xreal!Runs, Xreal!SessionStep, Xreal!UsbStep, Xreal!handle_xreal_event, V

\* systemd starts the driver with what is plugged in.
LEMMA XrealRestarts ==
    ASSUME XrealInv, Xreal!Restart
    PROVE  XrealInv'
<1>1. BusTyped(XrealGlasses) /\ ThreadTyped
  BY HostTypes DEF Hosted, XrealInv
<1>2. /\ plugged' = plugged /\ usb' = "idle" /\ arriving' = NoGlasses /\ entry' = NoGlasses
      /\ device' = NoGlasses /\ holders' = {} /\ queued' = NoGlasses
      /\ session' = "idle" /\ disabled' = disabled /\ disconnecting' = FALSE
      /\ alive' = FALSE
  BY DEF Xreal!Restart
<1>3. events' \in Seq(Event(XrealGlasses)) /\ Len(events') <= MaxEvents
  <2>1. CASE plugged = NoGlasses
    <3>1. events' = <<>>
      BY <2>1 DEF Xreal!Restart
    <3> QED BY <3>1, HostAssumption
  <2>2. CASE plugged # NoGlasses
    <3>1. PICK e : e = [kind |-> "arrived", glasses |-> plugged]
      OBVIOUS
    <3>2. e \in Event(XrealGlasses)
      BY <1>1, <2>2, <3>1 DEF Event, BusTyped
    <3>3. events' = <<e>>
      BY <2>2, <3>1 DEF Xreal!Restart
    <3> QED BY <3>2, <3>3, HostAssumption
  <2> QED BY <2>1, <2>2
<1>4. BusTyped(XrealGlasses)'
  BY <1>1, <1>2, <1>3 DEF BusTyped
<1>5. ContextTyped(XrealGlasses)' /\ ThreadTyped'
  BY <1>1, <1>2 DEF ContextTyped, ThreadTyped
<1>6. Xreal!HostTypeOK'
  <2>1. (Xreal!HostTypeOK <=> Hosted(XrealGlasses))'
    BY HostTypes, PTL
  <2> QED BY <1>4, <1>5, <2>1 DEF Hosted
<1>7. Xreal!TypeOK' /\ Threads'
  BY <1>2 DEF Xreal!Restart, Xreal!TypeOK, Threads
<1> QED BY <1>6, <1>7 DEF XrealInv

\* XREAL's part of the invariant is inductive.
LEMMA XrealKept ==
    ASSUME XrealInv, Xreal!Next
    PROVE  XrealInv'
<1>1. ASSUME Xreal!Runs
      PROVE  XrealInv'
  <2>1. Hosted(XrealGlasses) /\ XrealGlasses \in SUBSET Glasses
    BY HostTypes, Models DEF XrealInv
  <2>2. BusTyped(XrealGlasses) /\ ContextTyped(XrealGlasses)
    BY <2>1 DEF Hosted
  <2>3. XrealStep
    BY <1>1, XrealSteps
  <2>4. BusTyped(XrealGlasses)' /\ ContextTyped(XrealGlasses)'
    BY <2>1, <2>2, <2>3, BusTypes, ContextTypes DEF XrealStep
  <2>5. (Xreal!HostTypeOK <=> Hosted(XrealGlasses))'
    BY HostTypes, PTL
  <2> QED BY <2>3, <2>4, <2>5 DEF Hosted, XrealInv, XrealStep
<1> QED BY <1>1, XrealRestarts DEF Xreal!Next

-----------------------------------------------------------------------------
(* The theorems.                                                           *)

\* Nothing is plugged in, set or connected at the start.
LEMMA InitInv == Init => IInv
<1> SUFFICES ASSUME Init
             PROVE  IInv
  OBVIOUS
<1>1. ASSUME NEW G \in SUBSET Glasses
      PROVE  Hosted(G)
  <2>1. BusTyped(G)
    BY HostAssumption DEF Init, HostInit, BusTyped
  <2>2. ContextTyped(G) /\ ThreadTyped
    BY DEF Init, HostInit, ContextTyped, ThreadTyped
  <2> QED BY <2>1, <2>2 DEF Hosted
<1>2. Xreal!HostTypeOK /\ Rayneo!HostTypeOK /\ Rokid!HostTypeOK /\ Viture!HostTypeOK
  BY <1>1, Models, HostTypes
<1>3. driver \in Drivers
  BY DEF Init
<1>4. XrealInv
  BY <1>2 DEF Init, HostInit, Xreal!Init, XrealInv, Xreal!TypeOK, Threads
<1>5. Bus
  BY DEF Init, HostInit, Bus, About
<1>6. RayneoInv
  BY <1>2, <1>5 DEF Init, Rayneo!Init, RayneoInv, Rayneo!TypeOK
<1>7. RokidInv
  BY <1>2 DEF Init, Rokid!Init, RokidInv, Rokid!TypeOK
<1>8. VitureInv
  <2>1. /\ provider = NoGlasses /\ product = NoGlasses /\ reachable = FALSE
        /\ connected = FALSE /\ imu_open = FALSE /\ saved = Viture!NothingSaved
        /\ chosen = display /\ display = [native |-> TRUE, settings |-> "user"]
        /\ plugged = NoGlasses
    BY DEF Init, HostInit, Viture!Init
  <2>2. {saved, display, chosen} \subseteq Viture!Display
    BY <2>1 DEF Viture!Display, Viture!NothingSaved
  <2>3. Viture!TypeOK
    BY <2>1, <2>2 DEF Viture!TypeOK
  <2>4. Restorable
    BY <2>1 DEF Restorable, Overridden
  <2> QED BY <1>2, <1>5, <2>1, <2>3, <2>4 DEF VitureInv
<1> QED BY <1>3, <1>4, <1>6, <1>7, <1>8 DEF IInv

\* One vendor's driver takes a step, or none does.
LEMMA StepInv == IInv /\ [Next]_vars => IInv'
<1> SUFFICES ASSUME IInv, [Next]_vars
             PROVE  IInv'
  OBVIOUS
<1>1. CASE driver = "xreal" /\ Xreal!Next /\ UNCHANGED XrealRest
  <2>1. driver' = driver
    BY <1>1 DEF XrealRest
  <2>2. XrealInv'
    BY <1>1, XrealKept DEF IInv
  <2> QED BY <1>1, <2>1, <2>2 DEF IInv
<1>2. CASE driver = "rayneo" /\ Rayneo!Next /\ UNCHANGED RayneoRest
  <2>1. driver' = driver
    BY <1>2 DEF RayneoRest
  <2>2. RayneoInv'
    BY <1>2, RayneoKept DEF IInv
  <2> QED BY <1>2, <2>1, <2>2 DEF IInv
<1>3. CASE driver = "rokid" /\ Rokid!Next /\ UNCHANGED RokidRest
  <2>1. driver' = driver
    BY <1>3 DEF RokidRest
  <2>2. RokidInv'
    BY <1>3, RokidKept DEF IInv
  <2> QED BY <1>3, <2>1, <2>2 DEF IInv
<1>4. CASE driver = "viture" /\ Viture!Next /\ UNCHANGED VitureRest
  <2>1. driver' = driver
    BY <1>4 DEF VitureRest
  <2>2. VitureInv'
    BY <1>4, VitureKept DEF IInv
  <2> QED BY <1>4, <2>1, <2>2 DEF IInv
<1>5. CASE UNCHANGED vars
  <2> USE <1>5 DEF vars, host
  <2>1. (Xreal!HostTypeOK <=> Xreal!HostTypeOK') /\ (Rayneo!HostTypeOK <=> Rayneo!HostTypeOK')
    BY DEF Xreal!HostTypeOK, Rayneo!HostTypeOK
  <2>2. (Rokid!HostTypeOK <=> Rokid!HostTypeOK') /\ (Viture!HostTypeOK <=> Viture!HostTypeOK')
    BY DEF Rokid!HostTypeOK, Viture!HostTypeOK
  <2>3. Bus <=> Bus'
    BY DEF Bus, About, Awaited
  <2>4. XrealInv <=> XrealInv'
    BY <2>1 DEF XrealInv, Threads, Xreal!TypeOK, xrealOnly
  <2>5. RayneoInv <=> RayneoInv'
    BY <2>1, <2>3 DEF RayneoInv, Rayneo!TypeOK, Awaited, softHard, rayneoOnly
  <2>6. RokidInv <=> RokidInv'
    BY <2>2 DEF RokidInv, Rokid!TypeOK, softHard, rokidOnly
  <2>7. VitureInv <=> VitureInv'
    <3> USE DEF vitureOnly
    <3>1. Viture!TypeOK <=> Viture!TypeOK'
      BY DEF Viture!TypeOK
    <3>2. Restorable <=> Restorable'
      BY DEF Restorable, Overridden, Shown
    <3> QED BY <2>2, <2>3, <3>1, <3>2 DEF VitureInv, Awaited
  <2> QED BY <2>4, <2>5, <2>6, <2>7 DEF IInv
<1> QED BY <1>1, <1>2, <1>3, <1>4, <1>5 DEF Next

\* The types, what is known of the bus, and each vendor's part, for any glasses and
\* any number of hotplug events that wait.
THEOREM Invariance == Spec => []IInv
<1> QED BY InitInv, StepInv, PTL DEF Spec

\* Every driver keeps its types.
THEOREM TypeCorrect == Spec => []TypeOK
<1>1. IInv => TypeOK
  <2> SUFFICES ASSUME IInv
               PROVE  TypeOK
    OBVIOUS
  <2>1. driver \in {"xreal", "rayneo", "rokid", "viture"}
    BY DriversAssumption DEF IInv
  <2>2. HostTypeOK
    BY <2>1, Models, Widened, HostTypes DEF IInv, XrealInv, RayneoInv, RokidInv, VitureInv
  <2> QED BY <2>2 DEF IInv, XrealInv, RayneoInv, RokidInv, VitureInv, TypeOK
<1> QED BY <1>1, Invariance, PTL

\* rayneo_supported_device, the session and the removal, and viture_device_connect,
\* leave nothing of the SDK open when the glasses are gone and all is quiet: what was
\* connected is in the pool, or the hotplug thread is going to put it there, until the
\* hard disconnect of its removal.
THEOREM SdkReleased == Spec => []UnplugReleases
<1>1. IInv => UnplugReleases
  <2> SUFFICES ASSUME IInv, Quiet, plugged = NoGlasses
               PROVE  /\ driver = "rayneo" => ~hard_connected /\ ~soft_connected /\ ~named
                      /\ driver = "viture" => provider = NoGlasses /\ ~connected /\ ~imu_open
    BY DEF UnplugReleases
  <2>1. Bus => ~Awaited
    BY DEF Bus, Awaited, Quiet
  <2>2. CASE driver = "rayneo"
    BY <2>1, <2>2 DEF IInv, RayneoInv, Rayneo!TypeOK
  <2>3. CASE driver = "viture"
    BY <2>1, <2>3 DEF IInv, VitureInv, Viture!TypeOK, Quiet
  <2> QED BY <2>2, <2>3
<1> QED BY <1>1, Invariance, PTL

\* viture_capture_and_override_display_mode_locked and viture_restore_display_mode_locked
\* leave the glasses with the display that they were plugged in with.
THEOREM DisplayKept == Spec => []DisplayRestored
<1>1. IInv => DisplayRestored
  BY DEF IInv, VitureInv, Restorable, Overridden, DisplayRestored
<1> QED BY <1>1, Invariance, PTL

=============================================================================
